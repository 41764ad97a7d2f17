--------------------------- MODULE WorkerRequests ---------------------------
(***************************************************************************)
(* The requests of one page's web client to its worker                     *)
(* (packages/web/src/clients/worker.ts), under the lifecycle of module     *)
(* WorkerClient: every call of the host, and the calls to the daemon that  *)
(* start() and stop() wait for, is a message to the current worker whose   *)
(* promise waits in a map until the answer with its id arrives.  A worker  *)
(* that dies answers nothing more, while what it posted before may still   *)
(* arrive after it was replaced.                                           *)
(*                                                                         *)
(* The worker (wavewalletdk-worker.js) handles messages concurrently, so   *)
(* it answers in any order.                                                *)
(***************************************************************************)
EXTENDS WorkerClient

CONSTANTS
    Page,           \* the only tab of this model
    Calls,          \* host calls that may wait at the same time
    Operation,      \* the slot of the call start() or stop() waits for
    MaxRequests     \* bound: requests posted, those of start() not counted

ASSUME RequestsAssumption ==
    /\ Tabs = {Page}
    /\ Operation \notin Calls
    /\ MaxRequests \in Nat \ {0}

VARIABLES
    calls,          \* per slot: the promise of a request, and who settled it
    nextRequestID,
    inWorker,       \* requests the current worker has not answered yet
    answers         \* answers on their way to the page

requestVars == <<calls, nextRequestID, inWorker, answers>>
allVars == <<vars, requestVars>>

Slots == Calls \cup {Operation}
Ids == 1..(MaxRequests + MaxLeases)
NoWorker == 0

Promise == [at : {"idle", "pending", "resolved", "rejected"}, id : Ids \cup {0},
            worker : Workers \cup {NoWorker},    \* the worker it was posted to
            by : Workers \cup {NoWorker}]        \* the worker whose answer settled it

NoPromise == [at |-> "idle", id |-> 0, worker |-> NoWorker, by |-> NoWorker]

RequestsInit ==
    /\ Init
    /\ calls = [s \in Slots |-> NoPromise]
    /\ nextRequestID = 1
    /\ inWorker = {}
    /\ answers = {}

-----------------------------------------------------------------------------
(* request()                                                               *)

(* A terminated worker answers nothing, so the call is refused at once.    *)
Refused == exited[Page] \/ disposed[Page]

Posts(s) ==
    /\ calls[s].at = "idle"
    /\ calls' = [calls EXCEPT ![s] =
         [at |-> "pending", id |-> nextRequestID, worker |-> worker[Page], by |-> NoWorker]]
    /\ nextRequestID' = nextRequestID + 1
    /\ inWorker' = inWorker \cup {[id |-> nextRequestID, worker |-> worker[Page]]}
    /\ UNCHANGED answers

Asks(s) ==
    /\ IF Refused
       THEN /\ calls[s].at = "idle"
            /\ calls' = [calls EXCEPT ![s] = [NoPromise EXCEPT !.at = "rejected"]]
            /\ UNCHANGED <<nextRequestID, inWorker, answers>>
       ELSE nextRequestID <= MaxRequests /\ Posts(s)
    /\ UNCHANGED vars

(* The host has seen the outcome.                                          *)
Returns(s) ==
    /\ calls[s].at \in {"resolved", "rejected"}
    /\ calls' = [calls EXCEPT ![s] = NoPromise]
    /\ UNCHANGED <<vars, nextRequestID, inWorker, answers>>

-----------------------------------------------------------------------------
(* The worker, and handleMessage()                                         *)

(* The daemon answers, or the runtime could not be loaded.                 *)
Answers(i) ==
    /\ ~exited[Page]
    /\ \E m \in inWorker, ok \in BOOLEAN :
         /\ m.id = i
         /\ inWorker' = inWorker \ {m}
         /\ answers' = answers \cup {[id |-> i, worker |-> m.worker, ok |-> ok]}
    /\ UNCHANGED <<vars, calls, nextRequestID>>

(* An answer settles the call with its id, if it still waits.              *)
Waiting(m) == {s \in Slots : calls[s].at = "pending" /\ calls[s].id = m.id}

Settled(m) ==
    [s \in Slots |->
        IF s \in Waiting(m)
        THEN [calls[s] EXCEPT !.at = IF m.ok THEN "resolved" ELSE "rejected", !.by = m.worker]
        ELSE calls[s]]

Arrives(m) ==
    /\ m \in answers
    /\ Operation \notin Waiting(m)
    /\ answers' = answers \ {m}
    /\ calls' = Settled(m)
    /\ UNCHANGED <<vars, nextRequestID, inWorker>>

-----------------------------------------------------------------------------
(* The lifecycle                                                           *)

(* Mutant: the calls a dead worker leaves behind are kept.                 *)
RejectAllNone(cs) == cs

(* rejectAll(), of killWorker and replaceWorker.                           *)
RejectAll(cs) ==
    [s \in Slots |-> IF cs[s].at = "pending" THEN [cs[s] EXCEPT !.at = "rejected"] ELSE cs[s]]

(* Mutant: every worker counts its requests from one.                      *)
NextIDAfreshly == IF worker'[Page] # worker[Page] THEN 1 ELSE nextRequestID

(* The ids go on across workers.                                           *)
NextID == nextRequestID

(* What a step of the lifecycle does to the requests: a worker that is     *)
(* killed or replaced takes the calls it has not answered with it.         *)
Follows(cs) ==
    LET gone == worker'[Page] # worker[Page] \/ (exited'[Page] /\ ~exited[Page]) IN
    /\ calls' = IF gone THEN RejectAll(cs) ELSE cs
    /\ inWorker' = IF gone THEN {} ELSE inWorker
    /\ nextRequestID' = NextID

(* start() and stop() call the daemon.                                     *)
BootCalls ==
    /\ StartBoots(Page)
    /\ IF op'[Page].at = "boot" THEN Posts(Operation) ELSE Follows(calls) /\ UNCHANGED answers

StopCalls == StopBegins(Page) /\ nextRequestID <= MaxRequests /\ Posts(Operation)

(* Its answer, and in the same turn of the page what start() or stop() do  *)
(* next.                                                                   *)
OperationAnswered(m) ==
    /\ m \in answers
    /\ Operation \in Waiting(m)
    /\ answers' = answers \ {m}
    /\ IF m.ok
       THEN BootSucceeds(Page) \/ StopAcknowledged(Page)
       ELSE BootFails(Page) \/ StopFails(Page)
    /\ Follows([Settled(m) EXCEPT ![Operation].at = "idle"])

(* Its rejection, by the death of the worker.                              *)
OperationRejected ==
    /\ calls[Operation].at = "rejected"
    /\ BootFails(Page) \/ StopFails(Page)
    /\ Follows([calls EXCEPT ![Operation].at = "idle"])
    /\ UNCHANGED answers

(* The rest of the lifecycle.                                              *)
Resumes ==
    /\ \/ LockStep(Page)
       \/ StartAcquires(Page) \/ StartGranted(Page) \/ StartDenied(Page)
       \/ StartFails(Page) \/ StopCompletes(Page)
       \/ \E w \in Workers : Announces(Page, w)
    /\ Follows(calls)
    /\ UNCHANGED answers

HostTurns ==
    /\ \E n \in Names : StartBegins(Page, n)
    /\ Follows(calls)
    /\ UNCHANGED answers

Ends ==
    /\ Dispose(Page) \/ \E w \in Workers : WorkerDies(Page, w)
    /\ Follows(calls)
    /\ UNCHANGED answers

RequestsNext ==
    \/ \E s \in Calls : Asks(s) \/ Returns(s)
    \/ \E i \in Ids : Answers(i)
    \/ \E m \in answers : Arrives(m) \/ OperationAnswered(m)
    \/ BootCalls \/ StopCalls \/ OperationRejected \/ Resumes
    \/ HostTurns \/ Ends

(* The daemon answers each request, messages arrive, promises settle and   *)
(* the browser frees its locks.  Nobody owes a call, and no worker a death.*)
RequestsFairness ==
    /\ \A i \in Ids : WF_allVars(Answers(i))
    /\ WF_allVars(\E m \in answers : Arrives(m) \/ OperationAnswered(m))
    /\ WF_allVars(BootCalls \/ OperationRejected)
    /\ WF_allVars(Resumes)
    /\ WF_allVars(LockStep(Page) /\ Follows(calls) /\ UNCHANGED answers)

RequestsSpec == RequestsInit /\ [][RequestsNext]_allVars /\ RequestsFairness

-----------------------------------------------------------------------------
(* Properties                                                              *)

RequestsTypeOK ==
    /\ TypeOK
    /\ calls \in [Slots -> Promise]
    /\ nextRequestID \in 1..(MaxRequests + MaxLeases + 1)
    /\ inWorker \subseteq [id : Ids, worker : Workers]
    /\ answers \subseteq [id : Ids, worker : Workers, ok : BOOLEAN]

(* A late answer of a worker that was replaced never settles a call that   *)
(* was made to its successor.                                              *)
AnswersAreOwn ==
    \A s \in Slots : calls[s].by # NoWorker => calls[s].by = calls[s].worker

(* No call of the host hangs: it is answered, or rejected when its worker  *)
(* dies, and a call to a runtime that has exited is refused.               *)
CallsSettle == \A s \in Calls : calls[s].at = "pending" ~> calls[s].at # "pending"

(* Nothing a host waits for stays for good: neither a call, nor a start()  *)
(* or a stop() and with it the queue behind.                               *)
HostIsAnswered == CallsSettle /\ OperationsEnd
=============================================================================
