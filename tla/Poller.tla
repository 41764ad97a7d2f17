------------------------------- MODULE Poller -------------------------------
(***************************************************************************)
(* A fixed-interval poll with a budget of consecutive failures             *)
(* (packages/core/src/engine/poller.ts), as operations on its fields.  A   *)
(* tick is asynchronous: it may be in flight while the poll is stopped and *)
(* started again, and then settles into the new run.                       *)
(***************************************************************************)
EXTENDS Naturals

CONSTANT FailureLimit       \* failureLimit; 0 is unset

Poll == [running : BOOLEAN,         \* is #timer set?
         failures : 0..FailureLimit,    \* #failures
         inFlight : BOOLEAN]        \* #inFlight

NewPoll == [running |-> FALSE, failures |-> 0, inFlight |-> FALSE]

(* Mutant: a run begins with nothing in flight.                            *)
StartedAfresh(p) ==
    IF p.running THEN p ELSE [running |-> TRUE, failures |-> 0, inFlight |-> FALSE]

Started(p) == IF p.running THEN p ELSE [p EXCEPT !.running = TRUE, !.failures = 0]

Stopped(p) == [p EXCEPT !.running = FALSE]

(* An interval passes: a tick slower than that is not stacked upon.        *)
MayTick(p) == p.running /\ ~p.inFlight

Ticking(p) == [p EXCEPT !.inFlight = TRUE]

Fulfilled(p) == [p EXCEPT !.failures = 0, !.inFlight = FALSE]

(* The rejected tick is the one that exhausts the budget.                  *)
Exhausts(p) == FailureLimit > 0 /\ p.failures + 1 >= FailureLimit

(* Mutant: only a fulfilled tick makes room for the next.                  *)
RejectedInFlight(p) ==
    IF Exhausts(p) THEN [running |-> FALSE, failures |-> FailureLimit, inFlight |-> FALSE]
    ELSE [p EXCEPT !.failures = @ + 1]

(* (Without a limit the failures need not be counted.)                     *)
Rejected(p) ==
    IF Exhausts(p) THEN [running |-> FALSE, failures |-> FailureLimit, inFlight |-> FALSE]
    ELSE [p EXCEPT !.failures = IF FailureLimit = 0 THEN 0 ELSE @ + 1, !.inFlight = FALSE]
=============================================================================
