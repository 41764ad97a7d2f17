------------------------------ MODULE ExitFlow ------------------------------
(***************************************************************************)
(* exitBatch() (packages/core/src/exit.ts), useWalletExitBatch             *)
(* (packages/react/src/hooks.ts) and the exit screen of the demo apps:     *)
(* outputs leave one by one, each with a call of its own, and a unilateral *)
(* batch reads a new funding plan before each.  Meanwhile others start     *)
(* exits and spend the funds, calls fail, the host resets the hook, and    *)
(* the user leaves the screen, which the batch survives.                   *)
(***************************************************************************)
EXTENDS MutationState, Sequences, FiniteSets

CONSTANTS
    Outpoints,
    Selections,     \* the lists of outpoints a host may hand over, none empty
    MaxFunds,       \* fee inputs of the backing wallet
    MaxBatches,     \* bound: batches started
    MaxScreens      \* bound: visits to the screen

ASSUME ExitAssumption ==
    /\ Selections \subseteq Seq(Outpoints) \ {<<>>}
    /\ \A s \in Selections : \A i, j \in DOMAIN s : s[i] = s[j] => i = j
    /\ {MaxFunds, MaxBatches, MaxScreens} \subseteq Nat

VARIABLES
    batches,        \* every call of exitBatch() so far, one after the other
    inFlight,       \* of the hook: the batch whose promise it holds, or 0
    exitHook,       \* its mutation state
    events,         \* its exitBatchEvents
    screen,         \* the number of this visit
    jobs,           \* the outpoints the daemon runs an exit for
    funds           \* what it can still pay fees with

hookVars == <<inFlight, exitHook, events, screen>>
daemonVars == <<jobs, funds>>
exitVars == <<batches, hookVars, daemonVars>>

NoBatch == 0
Batches == DOMAIN batches
Elements(s) == {s[i] : i \in DOMAIN s}

(* remaining[0]: what is filtered and sliced stays in the order of the     *)
(* selection, so a set of the outpoints that are left stands for it.       *)
First(b) ==
    CHOOSE o \in b.remaining :
        \E i \in DOMAIN b.of : b.of[i] = o /\ \A j \in 1..(i - 1) : b.of[j] \notin b.remaining

(* at: awaits the plan, awaits exit(), or has ended.  plan is the plan of  *)
(* this round: what it was asked for, what runs already, and canStart.     *)
NoPlan == [of |-> {}, running |-> {}, canStart |-> FALSE]
Settled == {"done", "stopped", "threw"}

Ends(b, at) == [b EXCEPT !.at = at, !.plan = NoPlan]

(* The head of the loop, up to the first await.  The host may have aborted *)
(* the signal meanwhile: nothing else looks at it.                         *)
LoopHead(b) ==
    IF b.remaining = {} THEN {Ends(b, "done")}
    ELSE {Ends(b, "threw"),
          [b EXCEPT !.plan = NoPlan, !.at = IF b.mode = "unilateral" THEN "plan" ELSE "exit"]}

(* Mutant: the plan that still counts the skipped outpoints is good enough. *)
AfterPlanStale(b, plan) ==
    LET left == b.remaining \ plan.running
        known == [b EXCEPT !.plan = plan, !.remaining = left, !.skipped = @ \cup plan.running]
    IN IF left = {} THEN {Ends(known, "done")}
       ELSE IF ~plan.canStart THEN {Ends(known, "stopped")}
       ELSE {[known EXCEPT !.at = "exit"]}

(* Mutant: what runs already is noted and stays on the list.               *)
AfterPlanKeeping(b, plan) ==
    LET known == [b EXCEPT !.plan = plan, !.skipped = @ \cup plan.running]
    IN IF plan.running # {} THEN LoopHead(known)
       ELSE IF ~plan.canStart THEN {Ends(known, "stopped")}
       ELSE {[known EXCEPT !.at = "exit"]}

(* The plan is in: skip what runs already and plan again, or stop, or go.  *)
AfterPlan(b, plan) ==
    LET left == b.remaining \ plan.running
        known == [b EXCEPT !.plan = plan, !.remaining = left, !.skipped = @ \cup plan.running]
    IN IF plan.running # {} THEN LoopHead(known)
       ELSE IF ~plan.canStart THEN {Ends(known, "stopped")}
       ELSE {[known EXCEPT !.at = "exit"]}

(* exit() was accepted.                                                    *)
AfterStart(b) ==
    LoopHead([b EXCEPT !.started = Append(@, First(b)), !.remaining = @ \ {First(b)}])

ExitInit ==
    /\ batches = <<>>
    /\ inFlight = NoBatch
    /\ exitHook = FreshHook
    /\ events = {}
    /\ screen = 1
    /\ jobs = {}
    /\ funds = MaxFunds

-----------------------------------------------------------------------------
(* The hook                                                                *)

(* exitBatch() of the hook: a batch in flight is joined, not doubled.  The *)
(* loop starts at once.                                                    *)
Starts(mode, selection) ==
    /\ inFlight = NoBatch
    /\ Len(batches) < MaxBatches
    /\ exitHook' = Track(exitHook, FALSE)
    /\ batches' = Append(batches,
         [mode |-> mode, of |-> selection, remaining |-> Elements(selection),
          started |-> <<>>, skipped |-> {}, plan |-> NoPlan,
          at |-> IF mode = "unilateral" THEN "plan" ELSE "exit",
          generation |-> exitHook'.generation, screen |-> screen])
    /\ inFlight' = Len(batches')
    /\ events' = {}
    /\ UNCHANGED <<screen, daemonVars>>

(* Mutant: a reset forgets the batch in flight.                            *)
ResetsForgetting ==
    /\ exitHook' = Reset(exitHook)
    /\ events' = {}
    /\ inFlight' = NoBatch
    /\ UNCHANGED <<batches, screen, daemonVars>>

(* resetExitBatch(): the batch goes on and its promise stays.              *)
Resets ==
    /\ exitHook.generation <= MaxBatches
    /\ exitHook' = Reset(exitHook)
    /\ events' = {}
    /\ UNCHANGED <<batches, inFlight, screen, daemonVars>>

(* The user leaves and comes back to a new hook.                           *)
LeavesExit ==
    /\ screen < MaxScreens
    /\ screen' = screen + 1
    /\ inFlight' = NoBatch
    /\ exitHook' = FreshHook
    /\ events' = {}
    /\ UNCHANGED <<batches, daemonVars>>

(* A batch goes on to one of next; if that ends it, the hook settles.      *)
Proceeds(i, next) == \E b \in next :
    /\ batches' = [batches EXCEPT ![i] = b]
    /\ IF b.at \in Settled /\ b.screen = screen
       THEN /\ inFlight' = NoBatch
            /\ exitHook' = IF b.at = "threw" THEN Reject(exitHook, b.generation, FALSE)
                           ELSE Fulfil(exitHook, b.generation, i)
       ELSE UNCHANGED <<inFlight, exitHook>>

-----------------------------------------------------------------------------
(* The batch                                                               *)

(* getExitPlan() of what remains, as the daemon sees it: while an outpoint *)
(* runs, its leased inputs may make the whole infeasible, or may not.      *)
PlanLands(i) ==
    /\ batches[i].at = "plan"
    /\ LET b == batches[i]
           running == b.remaining \cap jobs
       IN \E canStart \in (IF running = {} THEN {funds >= Cardinality(b.remaining)} ELSE BOOLEAN) :
            Proceeds(i, AfterPlan(b, [of |-> b.remaining, running |-> running,
                                      canStart |-> canStart]))
    /\ UNCHANGED <<events, screen, daemonVars>>

(* getExitPlan() rejects, and so does the batch.                           *)
PlanFails(i) ==
    /\ batches[i].at = "plan"
    /\ Proceeds(i, {Ends(batches[i], "threw")})
    /\ UNCHANGED <<events, screen, daemonVars>>

(* exit() of the first of the rest: the daemon takes it, unless it runs    *)
(* already, or cannot be paid for any more.                                *)
ExitAccepted(i) ==
    LET b == batches[i]  o == First(b) IN
    /\ b.at = "exit"
    /\ o \notin jobs
    /\ b.mode = "unilateral" => funds > 0
    /\ jobs' = jobs \cup {o}
    /\ Proceeds(i, AfterStart(b))
    /\ events' = IF b.screen = screen THEN events \cup {<<i, o>>} ELSE events
    /\ UNCHANGED <<screen, funds>>

(* A rejection is a clean stop; a call that was lost may have been taken.  *)
ExitRejected(i) ==
    LET b == batches[i] IN
    /\ b.at = "exit"
    /\ jobs' \in {jobs, jobs \cup {First(b)}}
    /\ Proceeds(i, {Ends(b, "stopped")})
    /\ UNCHANGED <<events, screen, funds>>

(* Someone else starts an exit, or spends; an exit that runs pays its fees. *)
OthersExit(o) ==
    /\ o \notin jobs
    /\ jobs' = jobs \cup {o}
    /\ UNCHANGED <<batches, hookVars, funds>>

OthersSpend ==
    /\ funds > 0
    /\ funds' = funds - 1
    /\ UNCHANGED <<batches, hookVars, jobs>>

DaemonAnswers(i) == PlanLands(i) \/ PlanFails(i) \/ ExitAccepted(i) \/ ExitRejected(i)

ExitNext ==
    \/ \E mode \in {"cooperative", "unilateral"}, s \in Selections : Starts(mode, s)
    \/ Resets \/ LeavesExit
    \/ \E i \in Batches : DaemonAnswers(i)
    \/ \E o \in Outpoints : OthersExit(o)
    \/ OthersSpend

-----------------------------------------------------------------------------
(* Properties                                                              *)

(* At every moment, and so in every result and at every stop, a batch      *)
(* accounts for each outpoint it was given exactly once: started, skipped, *)
(* or remaining.                                                           *)
EveryOutpointAccounted ==
    \A i \in Batches :
        LET b == batches[i]
            started == Elements(b.started)
        IN /\ started \cup b.skipped \cup b.remaining = Elements(b.of)
           /\ started \cap b.skipped = {}
           /\ b.remaining \cap (started \cup b.skipped) = {}
           /\ \A m, n \in DOMAIN b.started : b.started[m] = b.started[n] => m = n

(* No unilateral exit is forced but under a plan that was made for just    *)
(* the outpoints that are left, after all that were started and skipped,   *)
(* and that said the wallet can fund them.                                 *)
StartsAreFunded ==
    \A i \in Batches :
        LET b == batches[i] IN
        b.mode = "unilateral" /\ b.at = "exit" =>
            b.plan.of = b.remaining /\ b.plan.running = {} /\ b.plan.canStart

(* One hook runs one batch at a time, whatever is reset meanwhile.         *)
OneBatchPerHook ==
    \A i, j \in Batches :
        /\ batches[i].screen = batches[j].screen
        /\ {batches[i].at, batches[j].at} \cap Settled = {}
        => i = j

(* A result on the screen is that of the batch whose events stand beside   *)
(* it: each started outpoint is among them, and no other.                  *)
ResultHasItsEvents ==
    \A i \in exitHook.data :
        events = {<<i, o>> : o \in Elements(batches[i].started)}

(* What the hook reports of its batch is the whole of it, at every moment. *)
BatchIsWhole == EveryOutpointAccounted /\ OneBatchPerHook /\ ResultHasItsEvents

-----------------------------------------------------------------------------
(* A claim of a doc that the code does not keep                            *)

(* "... reports which started, which were skipped, and which never         *)
(* started": no batch that started an exit ends without a result.          *)
StartedAreReported ==
    \A i \in Batches : batches[i].at = "threw" => batches[i].started = <<>>
=============================================================================
