-------------------------- MODULE SettleReconciler --------------------------
(***************************************************************************)
(* The settle reconciler (packages/core/src/engine/reconcile.ts) on the    *)
(* engine's chain of background refreshes.                                 *)
(*                                                                         *)
(* The daemon may announce an entry a beat before its balance shows the    *)
(* funds.  Each announcement starts a cycle: a refresh, and then probes    *)
(* until the balance has moved and holds steady, or the probes run out.    *)
(***************************************************************************)
EXTENDS Integers, Sequences, FiniteSets

CONSTANTS
    Probes,         \* the length of SETTLE_RECONCILE_DELAYS_MS
    MaxCycles,      \* bound: the value of #generation up to which triggers come
    MaxFunds        \* bound: payments

ASSUME SettleAssumption ==
    /\ Probes \in Nat
    /\ {MaxCycles, MaxFunds} \subseteq Nat

VARIABLES
    cycle,          \* #generation
    timer,          \* the probe that #timer is armed for, or NoProbe
    chain,          \* refreshes on the chain, each with the probe it serves
    shown,          \* the balance in the snapshot
    balance,        \* the balance the daemon reports
    due             \* payments announced that the balance does not show yet

vars == <<cycle, timer, chain, shown, balance, due>>

Funds == 0..MaxFunds
NoFunds == -1

(* A probe carries the closure of #probe; the rest is history: what the    *)
(* daemon reported when the cycle was triggered, and whether the snapshot  *)
(* showed just that, with no earlier funds due.                            *)
Probe == [cycle : -1..(MaxCycles + 1), attempt : 0..Probes, baseline : Funds,
          prev : Funds \cup {NoFunds}, before : Funds, spaced : BOOLEAN]

NoProbe == [cycle |-> 0, attempt |-> 0, baseline |-> 0, prev |-> NoFunds,
            before |-> 0, spaced |-> TRUE]

(* A refresh on the chain that serves no probe (#kickRefresh).             *)
Kick == [NoProbe EXCEPT !.cycle = -1]

Live == {i \in 1..Len(chain) : chain[i].cycle = cycle}

Init ==
    /\ cycle = 0
    /\ timer = NoProbe
    /\ chain = <<>>
    /\ shown = 0
    /\ balance = 0
    /\ due = 0

(* trigger(), on a debounced activity event or a lost stream: attempt 0 is *)
(* the first refresh, which has nothing to compare with.                   *)
Trigger ==
    /\ cycle < MaxCycles
    /\ cycle' = cycle + 1
    /\ timer' = NoProbe
    /\ chain' = Append(chain, [cycle |-> cycle + 1, attempt |-> 0, baseline |-> shown,
                               prev |-> NoFunds, before |-> balance,
                               spaced |-> shown = balance /\ due = 0])
    /\ \E payments \in {0, 1} :
         /\ balance + due + payments <= MaxFunds
         /\ due' = due + payments
    /\ UNCHANGED <<shown, balance>>

(* cancel(), when the phase leaves 'ready'.  A new generation only makes a *)
(* difference to a cycle that is still running.                            *)
Retires ==
    /\ cycle' = IF Live # {} \/ timer # NoProbe THEN cycle + 1 ELSE cycle
    /\ timer' = NoProbe

Cancel == Retires /\ UNCHANGED <<chain, shown, balance, due>>

CatchesUp ==
    /\ due > 0
    /\ due' = due - 1
    /\ balance' = balance + 1
    /\ UNCHANGED <<cycle, timer, chain, shown>>

(* Mutant: a steady balance is enough.                                     *)
SettledSteady(p) == p.attempt > 0 /\ balance = p.prev

(* The balance just read has moved off the baseline and holds steady.      *)
Settled(p) == p.attempt > 0 /\ balance # p.baseline /\ balance = p.prev

(* Mutant: a retired cycle goes on.                                        *)
GoesOnRetired(p) == TRUE

GoesOn(p) == p.cycle = cycle

(* Mutant: one probe too many.                                             *)
HasMoreOne(p) == p.attempt <= Probes

HasMore(p) == p.attempt < Probes

(* Mutant: the attempt is not counted.                                     *)
NextProbeSame(p) == [p EXCEPT !.prev = balance]

NextProbe(p) == [p EXCEPT !.attempt = @ + 1, !.prev = balance]

(* The refresh at the head of the chain lands.                             *)
Lands ==
    /\ chain # <<>>
    /\ chain' = Tail(chain)
    /\ shown' = balance
    /\ LET p == Head(chain) IN
         timer' = IF GoesOn(p) /\ ~Settled(p) /\ HasMore(p)
                  THEN NextProbe(p)
                  ELSE timer
    /\ UNCHANGED <<cycle, balance, due>>

(* A failed refresh ends its cycle.                                        *)
Fails ==
    /\ chain # <<>>
    /\ chain' = Tail(chain)
    /\ UNCHANGED <<cycle, timer, shown, balance, due>>

TimerFires ==
    /\ timer # NoProbe
    /\ timer' = NoProbe
    /\ chain' = IF GoesOn(timer) THEN Append(chain, timer) ELSE chain
    /\ UNCHANGED <<cycle, shown, balance, due>>

Next == Trigger \/ Cancel \/ CatchesUp \/ Lands \/ Fails \/ TimerFires

Spec == Init /\ [][Next]_vars

(* Refreshes settle and timers fire.                                       *)
FairSpec == Spec /\ WF_vars(Lands \/ Fails) /\ WF_vars(TimerFires)

-----------------------------------------------------------------------------
(* Properties                                                              *)

(* A probe never leaves the schedule, and its baseline is a balance.       *)
TypeOK ==
    /\ cycle \in 0..(MaxCycles + 1)
    /\ timer \in Probe
    /\ chain \in Seq(Probe)
    /\ shown \in Funds
    /\ balance \in Funds
    /\ due \in Funds

(* However triggers, cancels and slow refreshes interleave, one schedule   *)
(* of probes runs at a time, and a retired one never re-arms the timer.    *)
OneSchedule ==
    /\ Cardinality(Live) <= 1
    /\ timer # NoProbe => timer.cycle = cycle /\ Live = {}

(* The probes end, so the reconciler never becomes a poll.                 *)
ProbesEnd == <>[](Live = {} /\ timer = NoProbe)

(* The cycle of the refresh that lands stops before its probes run out.    *)
StopsEarly ==
    /\ Lands
    /\ GoesOn(Head(chain))
    /\ HasMore(Head(chain))
    /\ timer' = NoProbe

(* A cycle that stops early leaves nothing behind: the funds that were     *)
(* announced are in the snapshot.  (The cycle of an announcement that      *)
(* found the snapshot up to date: see below for the others.)               *)
NothingDue == [][StopsEarly /\ Head(chain).spaced => due = 0]_vars

-----------------------------------------------------------------------------
(* A claim of a comment that the code does not keep                        *)

(* The probes stop only once the balance has moved off what it was before  *)
(* the event.                                                              *)
StopsAfterMove == [][StopsEarly => balance # Head(chain).before]_vars
=============================================================================
