----------------------------- MODULE EngineReads -----------------------------
(***************************************************************************)
(* Everything by which the engine reads the wallet of its own accord: the  *)
(* sync poll, the background refreshes with their budget of failures, and  *)
(* the settle reconciler, which rides on those refreshes                   *)
(* (packages/core/src/engine/engine.ts).  They meet in the phase, which    *)
(* each of them can move and which starts and stops the others, and in the *)
(* snapshot, which each of them patches.                                   *)
(*                                                                         *)
(* Module WalletEngine has the calls of the host in full; here the host    *)
(* only starts, stops and refreshes.                                       *)
(***************************************************************************)
EXTENDS SettleReconciler, PhaseMachine

CONSTANTS
    SyncPollLimit,  \* SYNC_POLL_FAILURE_LIMIT
    RefreshLimit,   \* BACKGROUND_REFRESH_FAILURE_LIMIT
    MaxTurns,       \* bound: starts, stops and changes of the daemon
    MaxChain        \* bound: length of the chain up to which refreshes are kicked

ASSUME ReadsAssumption ==
    {SyncPollLimit, RefreshLimit} \subseteq Nat \ {0} /\ {MaxTurns, MaxChain} \subseteq Nat

Sync == INSTANCE Poller WITH FailureLimit <- SyncPollLimit

VARIABLES
    phase,
    error,          \* snapshot.error: does it tell of an exhausted budget?
    failures,       \* #refreshFailures
    poll,           \* #syncPoller
    ticks,          \* its ticks in flight
    calls,          \* calls of the host in flight: "start", "stop", "refresh"
    wallet,         \* the state of the wallet in the daemon
    answers,        \* does the daemon answer reads?
    turns           \* counter of the bound

engineVars == <<phase, error, failures, poll, ticks, calls>>
daemonVars == <<wallet, answers, turns>>
allVars == <<vars, engineVars, daemonVars>>

Info == [walletState |-> wallet, walletReady |-> wallet = "ready"]

ReadsInit ==
    /\ Init
    /\ phase = "runtimeReady"
    /\ error = FALSE
    /\ failures = 0
    /\ poll = Sync!NewPoll
    /\ ticks = 0
    /\ calls = {}
    /\ wallet \in {"syncing", "ready", "locked"}
    /\ answers = TRUE
    /\ turns = 0

(* #dispatch and the part of #reconcileProcesses that stops and starts     *)
(* reads: `p` is the poll as the cause of the move leaves it.              *)
MovesTo(next, p) ==
    /\ phase' = next
    /\ poll' = IF next = phase THEN p
               ELSE IF next = "syncing" THEN Sync!Started(p) ELSE Sync!Stopped(p)

LeavesReady == phase = "ready" /\ phase' # "ready"

(* What a move does to the reconciler when nothing of it is landing.       *)
Reconciles == IF LeavesReady THEN Retires ELSE UNCHANGED <<cycle, timer>>

(* #fetchAll, once its three reads are in: a snapshot that is going down   *)
(* is left alone.                                                          *)
Down == phase \in {"stopping", "stopped"}
PhaseRead == IF Down THEN phase ELSE OnInfo(phase, Info)
Patches == shown' = IF Down THEN shown ELSE balance

Turn == turns < MaxTurns /\ turns' = turns + 1

-----------------------------------------------------------------------------
(* The host                                                                *)

(* start(), which a stop under way refuses.                                *)
Starts ==
    /\ Turn
    /\ "start" \notin calls
    /\ phase # "stopping"
    /\ calls' = calls \cup {"start"}
    /\ failures' = 0
    /\ error' = FALSE
    /\ MovesTo(Transition(phase, "startRequested"), poll)
    /\ Reconciles
    /\ UNCHANGED <<chain, shown, balance, due, ticks, wallet, answers>>

(* client.start() resolves, and refresh() follows; or it rejects.  A stop  *)
(* in the meantime takes the outcome over.                                 *)
StartSettles ==
    /\ "start" \in calls
    /\ \/ /\ ~Down
          /\ MovesTo(OnInfo(phase, Info), poll)
          /\ calls' = (calls \ {"start"}) \cup {"refresh"}
       \/ /\ ~Down
          /\ MovesTo(Transition(phase, "startFailed"), poll)
          /\ calls' = calls \ {"start"}
       \/ /\ Down
          /\ calls' = calls \ {"start"}
          /\ UNCHANGED <<phase, poll>>
    /\ Reconciles
    /\ UNCHANGED <<chain, shown, balance, due, error, failures, ticks, daemonVars>>

Stops ==
    /\ Turn
    /\ "stop" \notin calls
    /\ phase \in Accepts("stopRequested")
    /\ calls' = calls \cup {"stop"}
    /\ MovesTo(Transition(phase, "stopRequested"), poll)
    /\ Reconciles
    /\ UNCHANGED <<chain, shown, balance, due, error, failures, ticks, wallet, answers>>

StopSettles ==
    /\ "stop" \in calls
    /\ calls' = calls \ {"stop"}
    /\ \E e \in {"stopCompleted", "stopFailed"} : MovesTo(Transition(phase, e), poll)
    /\ UNCHANGED <<vars, error, failures, ticks, daemonVars>>

Refreshes ==
    /\ "refresh" \notin calls
    /\ Turn
    /\ calls' = calls \cup {"refresh"}
    /\ UNCHANGED <<vars, phase, error, failures, poll, ticks, wallet, answers>>

(* refresh() is #fetchAll, off the chain and outside the budget.           *)
RefreshSettles ==
    /\ "refresh" \in calls
    /\ calls' = calls \ {"refresh"}
    /\ \/ answers /\ MovesTo(PhaseRead, poll) /\ Patches
       \/ ~answers /\ UNCHANGED <<phase, poll, shown>>
    /\ Reconciles
    /\ UNCHANGED <<chain, balance, due, error, failures, ticks, daemonVars>>

-----------------------------------------------------------------------------
(* The sync poll                                                           *)

PollTicks ==
    /\ Sync!MayTick(poll)
    /\ poll' = Sync!Ticking(poll)
    /\ ticks' = ticks + 1
    /\ UNCHANGED <<vars, phase, error, failures, calls, daemonVars>>

TickFulfils ==
    /\ ticks > 0
    /\ answers
    /\ ticks' = ticks - 1
    /\ MovesTo(PhaseRead, Sync!Fulfilled(poll))
    /\ Patches
    /\ Reconciles
    /\ UNCHANGED <<chain, balance, due, error, failures, calls, daemonVars>>

(* Mutant: an exhausted poll reports whatever the phase is by now.         *)
TickRejectsAnywhere ==
    /\ ticks > 0
    /\ ~answers
    /\ ticks' = ticks - 1
    /\ IF Sync!Exhausts(poll)
       THEN /\ MovesTo(Transition(phase, "syncPollExhausted"), Sync!Rejected(poll))
            /\ error' = TRUE
       ELSE /\ MovesTo(phase, Sync!Rejected(poll))
            /\ UNCHANGED error
    /\ UNCHANGED <<vars, failures, calls, daemonVars>>

(* A tick that outlived its phase must not report.                         *)
TickRejects ==
    /\ ticks > 0
    /\ ~answers
    /\ ticks' = ticks - 1
    /\ IF Sync!Exhausts(poll) /\ phase = "syncing"
       THEN /\ MovesTo(Transition(phase, "syncPollExhausted"), Sync!Rejected(poll))
            /\ error' = TRUE
       ELSE /\ MovesTo(phase, Sync!Rejected(poll))
            /\ UNCHANGED error
    /\ UNCHANGED <<vars, failures, calls, daemonVars>>

-----------------------------------------------------------------------------
(* The background refreshes                                                *)

(* #kickRefresh, after a wallet call.                                      *)
Kicks ==
    /\ Len(chain) < MaxChain
    /\ chain' = Append(chain, Kick)
    /\ UNCHANGED <<cycle, timer, shown, balance, due, engineVars, daemonVars>>

(* The refresh at the head of the chain lands.  Its dispatch comes first,  *)
(* and may retire the very cycle it serves.                                *)
BackgroundLands ==
    /\ chain # <<>>
    /\ answers
    /\ failures' = 0
    /\ MovesTo(PhaseRead, poll)
    /\ IF Down \/ LeavesReady
       THEN /\ chain' = Tail(chain)
            /\ Patches
            /\ Reconciles
            /\ UNCHANGED <<balance, due>>
       ELSE Lands
    /\ UNCHANGED <<error, ticks, calls, daemonVars>>

(* Mutant: the budget is spent whatever the phase.                         *)
BackgroundFailsAnywhere ==
    /\ ~answers
    /\ Fails
    /\ failures' = IF failures < RefreshLimit THEN failures + 1 ELSE failures
    /\ IF failures + 1 >= RefreshLimit
       THEN MovesTo(Transition(phase, "backgroundRefreshExhausted"), poll) /\ error' = TRUE
       ELSE UNCHANGED <<phase, poll, error>>
    /\ UNCHANGED <<ticks, calls, daemonVars>>

(* A failure counts in every phase; only a ready wallet escalates.  (From  *)
(* the limit on the count makes no more difference.)                       *)
BackgroundFails ==
    /\ ~answers
    /\ failures' = IF failures < RefreshLimit THEN failures + 1 ELSE failures
    /\ IF failures + 1 >= RefreshLimit /\ phase = "ready"
       THEN /\ chain # <<>>
            /\ chain' = Tail(chain)
            /\ MovesTo(Transition(phase, "backgroundRefreshExhausted"), poll)
            /\ error' = TRUE
            /\ Retires
            /\ UNCHANGED <<shown, balance, due>>
       ELSE Fails /\ UNCHANGED <<phase, poll, error>>
    /\ UNCHANGED <<ticks, calls, daemonVars>>

(* The debounced activity events, which only come while ready.             *)
Activity == phase = "ready" /\ Trigger /\ UNCHANGED <<engineVars, daemonVars>>

ProbeFires == TimerFires /\ UNCHANGED <<engineVars, daemonVars>>

-----------------------------------------------------------------------------
(* The daemon                                                              *)

WalletMoves ==
    /\ Turn
    /\ wallet' \in {"syncing", "ready", "locked"} \ {wallet}
    /\ UNCHANGED <<vars, engineVars, answers>>

DaemonTurns ==
    /\ Turn
    /\ answers' = ~answers
    /\ UNCHANGED <<vars, engineVars, wallet>>

BalanceMoves == CatchesUp /\ UNCHANGED <<engineVars, daemonVars>>

TickSettles == TickFulfils \/ TickRejects
BackgroundSettles == BackgroundLands \/ BackgroundFails

ReadsNext ==
    \/ Starts \/ StartSettles \/ Stops \/ StopSettles \/ Refreshes \/ RefreshSettles
    \/ PollTicks \/ TickSettles
    \/ Kicks \/ BackgroundSettles \/ Activity \/ ProbeFires
    \/ WalletMoves \/ DaemonTurns \/ BalanceMoves

(* Calls of the client settle, and intervals and timers fire; the host     *)
(* need not do anything.                                                   *)
ReadsSpec ==
    /\ ReadsInit /\ [][ReadsNext]_allVars
    /\ WF_allVars(StartSettles) /\ WF_allVars(StopSettles) /\ WF_allVars(RefreshSettles)
    /\ WF_allVars(PollTicks) /\ WF_allVars(TickSettles)
    /\ WF_allVars(BackgroundSettles) /\ WF_allVars(ProbeFires)

-----------------------------------------------------------------------------
(* Properties                                                              *)

ReadsTypeOK ==
    /\ TypeOK
    /\ phase \in Phases
    /\ error \in BOOLEAN
    /\ failures \in 0..RefreshLimit
    /\ poll \in Sync!Poll
    /\ ticks \in Nat
    /\ calls \subseteq {"start", "stop", "refresh"}

(* A poll that is stopped and started again under a slow tick still has    *)
(* one tick in flight at most, and the poll runs in 'syncing' only.        *)
OneTick == ticks <= 1 /\ (poll.running => phase = "syncing")

(* An error of an exhausted budget is only ever stamped on a snapshot that *)
(* goes to 'error' with it: a failure that arrives late cannot mislabel a  *)
(* wallet that is healthy, restarting or stopped.                          *)
ErrorsEscalate == [][~error /\ error' => phase' = "error"]_allVars

(* The host sees no end of 'syncing' only if the wallet has none: when the *)
(* daemon stops answering, or the wallet gets past syncing, for good, the  *)
(* poll brings the engine out of it, however it was stopped and started.   *)
SyncingEnds == <>[](~answers \/ wallet # "syncing") => <>[](phase # "syncing")

(* No cycle of the reconciler survives the phase it belongs to, whichever  *)
(* of the reads ends that phase.                                           *)
ProbesOnlyWhenReady == phase # "ready" => timer = NoProbe /\ Live = {}

(* The reconciler has one schedule of probes at most, and only for the     *)
(* ready phase that triggered it.                                          *)
ScheduleIsOwned == OneSchedule /\ ProbesOnlyWhenReady

(* Neither the sync poll nor the reconciler runs twice over, or outside    *)
(* the phase that owns it.                                                 *)
PollsAreOwned == OneTick /\ ScheduleIsOwned

(* Both kinds of polling come to an end.                                   *)
ReadsEnd == SyncingEnds /\ ProbesEnd

(* wavelength-core.mdx:666: the polls share the failure budget of the      *)
(* background refreshes.                                                   *)
SharedBudget == [][TickRejects => failures' # failures]_allVars
=============================================================================
