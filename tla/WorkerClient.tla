---------------------------- MODULE WorkerClient ----------------------------
(***************************************************************************)
(* The lifecycle of the default web client                                 *)
(* (packages/web/src/clients/worker.ts) in every tab of the origin: the    *)
(* daemon runs in a worker of its own, start() and stop() take and release *)
(* the cross-tab lock, and a worker can die at any time.                   *)
(*                                                                         *)
(* start() and stop() of one client are queued                             *)
(* (BaseWavelengthClient.enqueueLifecycle), so one of them at a time is    *)
(* running; the host may have queued any sequence of them.                 *)
(***************************************************************************)
EXTENDS RuntimeLock

CONSTANTS
    MaxWorkers,     \* bound: workers spawned in one page
    MayClose        \* may a tab be closed and opened again?

ASSUME WorkerAssumption ==
    /\ MaxWorkers \in Nat \ {0}
    /\ MayClose \in BOOLEAN

VARIABLES
    worker,         \* per tab: the current worker
    exited,         \* per tab: runtimeExited
    disposed,       \* per tab
    lease,          \* per tab: the lease of the session
    op,             \* per tab: the start() or stop() that is running
    announcing,     \* per tab: dead workers whose runtimeStopped is due
    open,           \* per tab: the name under which the daemon in the current worker may have its databases open
    seen            \* per tab: does the host see a running daemon?

clientVars == <<worker, exited, disposed, lease, op, announcing, open, seen>>
vars == <<lockVars, clientVars>>

Workers == 1..MaxWorkers

Op == [at : {"none", "acquire", "waiting", "granted", "boot", "failing", "releasing",
             "stop", "stopping"},
       name : Names \cup {NoName},
       lease : Leases \cup {NoLease}]     \* of the grant, or the token of a stop

NoOp == [at |-> "none", name |-> NoName, lease |-> NoLease]

Init ==
    /\ LockInit
    /\ worker = [c \in Tabs |-> 1]
    /\ exited = [c \in Tabs |-> FALSE]
    /\ disposed = [c \in Tabs |-> FALSE]
    /\ lease = [c \in Tabs |-> NoLease]
    /\ op = [c \in Tabs |-> NoOp]
    /\ announcing = [c \in Tabs |-> {}]
    /\ open = [c \in Tabs |-> NoName]
    /\ seen = [c \in Tabs |-> FALSE]

Goto(c, at) == op' = [op EXCEPT ![c].at = at]
Finish(c) == op' = [op EXCEPT ![c] = NoOp]

(* Terminating the worker closes the databases of its daemon.              *)
Kill(c) ==
    /\ exited' = [exited EXCEPT ![c] = TRUE]
    /\ open' = [open EXCEPT ![c] = NoName]

Tell(c, up) == seen' = [seen EXCEPT ![c] = up]

-----------------------------------------------------------------------------
(* start() and startExternalSeedWallet()                                   *)

(* The head of the operation: a dead worker is replaced, and a session     *)
(* that is already running is left alone (start() returns its info,        *)
(* startExternalSeedWallet() is refused).                                  *)
StartBegins(c, n) ==
    /\ op[c].at = "none"
    /\ ~disposed[c]
    /\ lastLease[c] < MaxLeases
    /\ IF exited[c]
       THEN /\ worker[c] < MaxWorkers
            /\ worker' = [worker EXCEPT ![c] = @ + 1]
            /\ exited' = [exited EXCEPT ![c] = FALSE]
       ELSE UNCHANGED <<worker, exited>>
    /\ IF Held(c)
       THEN UNCHANGED op
       ELSE op' = [op EXCEPT ![c] = [at |-> "acquire", name |-> n, lease |-> NoLease]]
    /\ UNCHANGED <<lockVars, disposed, lease, announcing, open, seen>>

(* acquire() waits for a release that is settling.                         *)
StartAcquires(c) ==
    /\ op[c].at = "acquire"
    /\ Request(c, op[c].name)
    /\ op' = [op EXCEPT ![c].lease = lastLease'[c],
                        ![c].at = IF WebLocks THEN "waiting" ELSE "granted"]
    /\ UNCHANGED <<worker, exited, disposed, lease, announcing, open, seen>>

StartGranted(c) ==
    /\ op[c].at = "waiting"
    /\ Grant(c)
    /\ Goto(c, "granted")
    /\ UNCHANGED <<worker, exited, disposed, lease, announcing, open, seen>>

StartDenied(c) ==
    /\ op[c].at = "waiting"
    /\ Deny(c) \/ RequestFails(c)
    /\ Finish(c)
    /\ UNCHANGED <<worker, exited, disposed, lease, announcing, open, seen>>

(* Mutant: nothing looks again at what happened while acquire() ran, and   *)
(* the call to the dead worker is refused.                                 *)
StartBootsBlindly(c) ==
    /\ op[c].at = "granted"
    /\ lease' = [lease EXCEPT ![c] = op[c].lease]
    /\ open' = [open EXCEPT ![c] = IF disposed[c] \/ exited[c] THEN NoName ELSE op[c].name]
    /\ Goto(c, "boot")
    /\ UNCHANGED <<lockVars, worker, exited, disposed, announcing, seen>>

(* The continuation of acquire(), in a later turn: the client may have     *)
(* been disposed of, or the worker may have died, in between.              *)
StartBoots(c) ==
    /\ op[c].at = "granted"
    /\ lease' = [lease EXCEPT ![c] = op[c].lease]
    /\ IF disposed[c] \/ exited[c]
       THEN /\ Release(c, op[c].lease)
            /\ exited' = [exited EXCEPT ![c] = TRUE]
            /\ Goto(c, "releasing")
            /\ UNCHANGED open
       ELSE /\ open' = [open EXCEPT ![c] = op[c].name]
            /\ Goto(c, "boot")
            /\ UNCHANGED <<lockVars, exited>>
    /\ UNCHANGED <<worker, disposed, announcing, seen>>

BootSucceeds(c) ==
    /\ op[c].at = "boot"
    /\ ~exited[c]
    /\ Finish(c)
    /\ Tell(c, TRUE)
    /\ UNCHANGED <<lockVars, worker, exited, disposed, lease, announcing, open>>

(* Mutant: a failed start releases the lock and leaves its worker alive.   *)
BootFailsAlive(c) ==
    /\ op[c].at = "boot"
    /\ IF exited[c]
       THEN Finish(c) /\ UNCHANGED lockVars
       ELSE Release(c, lease[c]) /\ Goto(c, "failing")
    /\ UNCHANGED <<worker, exited, disposed, lease, announcing, open, seen>>

(* A failed start kills its worker, unless the worker died first.          *)
BootFails(c) ==
    /\ op[c].at = "boot"
    /\ IF exited[c]
       THEN Finish(c) /\ UNCHANGED <<lockVars, exited, open>>
       ELSE /\ Kill(c)
            /\ Release(c, lease[c])
            /\ Goto(c, "failing")
    /\ UNCHANGED <<worker, disposed, lease, announcing, seen>>

(* The release of a failed start, or of one that must not boot, settled.   *)
StartFails(c) ==
    /\ op[c].at \in {"failing", "releasing"}
    /\ ~Settling(c)
    /\ IF op[c].at = "failing" THEN Tell(c, FALSE) ELSE UNCHANGED seen
    /\ Finish(c)
    /\ UNCHANGED <<lockVars, worker, exited, disposed, lease, announcing, open>>

-----------------------------------------------------------------------------
(* stop()                                                                  *)

(* Mutant: the lock is released before the daemon acknowledged the stop.   *)
StopBeginsReleasing(c) ==
    /\ op[c].at = "none"
    /\ ~exited[c]
    /\ Release(c, lease[c])
    /\ op' = [op EXCEPT ![c] = [at |-> "stop", name |-> NoName, lease |-> lease[c]]]
    /\ UNCHANGED <<worker, exited, disposed, lease, announcing, open, seen>>

(* A dead runtime has nothing to stop; otherwise the token of the session  *)
(* is taken before the call to the daemon.                                 *)
StopBegins(c) ==
    /\ op[c].at = "none"
    /\ ~exited[c]
    /\ op' = [op EXCEPT ![c] = [at |-> "stop", name |-> NoName, lease |-> lease[c]]]
    /\ UNCHANGED <<lockVars, worker, exited, disposed, lease, announcing, open, seen>>

(* The daemon acknowledges: its databases are closed.                      *)
StopAcknowledged(c) ==
    /\ op[c].at = "stop"
    /\ ~exited[c]
    /\ open' = [open EXCEPT ![c] = NoName]
    /\ Release(c, op[c].lease)
    /\ Goto(c, "stopping")
    /\ UNCHANGED <<worker, exited, disposed, lease, announcing, seen>>

StopFails(c) ==
    /\ op[c].at = "stop"
    /\ Finish(c)
    /\ UNCHANGED <<lockVars, worker, exited, disposed, lease, announcing, open, seen>>

StopCompletes(c) ==
    /\ op[c].at = "stopping"
    /\ ~Settling(c)
    /\ Finish(c)
    /\ Tell(c, FALSE)
    /\ UNCHANGED <<lockVars, worker, exited, disposed, lease, announcing, open>>

-----------------------------------------------------------------------------
(* The death of a worker                                                   *)

(* killWorker acts once per worker, and only on the current one.           *)
Kills(c, w) == w = worker[c] /\ ~exited[c]

(* A fatal message or an error event of worker w, possibly a late one of a *)
(* worker that was replaced: announceRuntimeStopped begins.                *)
WorkerDies(c, w) ==
    /\ Kills(c, w)
    /\ Kill(c)
    /\ Release(c, lease[c])
    /\ announcing' = [announcing EXCEPT ![c] = @ \cup {w}]
    /\ UNCHANGED <<worker, disposed, lease, op, seen>>

(* Mutant: the stop of a replaced worker is announced too.                 *)
AnnouncesAlways(c, w) ==
    /\ w \in announcing[c]
    /\ ~Settling(c)
    /\ announcing' = [announcing EXCEPT ![c] = @ \ {w}]
    /\ Tell(c, FALSE)
    /\ UNCHANGED <<lockVars, worker, exited, disposed, lease, op, open>>

(* Its end, once the release settled: the host hears of it only if w has   *)
(* not been replaced.                                                      *)
Announces(c, w) ==
    /\ w \in announcing[c]
    /\ ~Settling(c)
    /\ announcing' = [announcing EXCEPT ![c] = @ \ {w}]
    /\ IF w = worker[c] THEN Tell(c, FALSE) ELSE UNCHANGED seen
    /\ UNCHANGED <<lockVars, worker, exited, disposed, lease, op, open>>

Dispose(c) ==
    /\ disposed' = [disposed EXCEPT ![c] = TRUE]
    /\ IF exited[c]
       THEN UNCHANGED <<lockVars, exited, open>>
       ELSE Kill(c) /\ Release(c, lease[c])
    /\ UNCHANGED <<worker, lease, op, announcing, seen>>

(* The tab is closed or crashes; it may be opened again.                   *)
TabCloses(c) ==
    /\ LockPageGone(c)
    /\ worker' = [worker EXCEPT ![c] = 1]
    /\ exited' = [exited EXCEPT ![c] = FALSE]
    /\ disposed' = [disposed EXCEPT ![c] = FALSE]
    /\ lease' = [lease EXCEPT ![c] = NoLease]
    /\ op' = [op EXCEPT ![c] = NoOp]
    /\ announcing' = [announcing EXCEPT ![c] = {}]
    /\ open' = [open EXCEPT ![c] = NoName]
    /\ seen' = [seen EXCEPT ![c] = FALSE]

-----------------------------------------------------------------------------
LockStep(c) == (Free(c) \/ Settle(c)) /\ UNCHANGED clientVars

(* What goes on without the host and without an accident.                  *)
Proceed(c) ==
    \/ LockStep(c)
    \/ StartAcquires(c) \/ StartGranted(c) \/ StartDenied(c) \/ StartBoots(c)
    \/ BootSucceeds(c) \/ BootFails(c) \/ StartFails(c)
    \/ StopAcknowledged(c) \/ StopFails(c) \/ StopCompletes(c)
    \/ \E w \in Workers : Announces(c, w)

(* Every step is a step of one tab, or of the browser about it.            *)
TabStep(c) ==
    \/ Proceed(c)
    \/ \E n \in Names : StartBegins(c, n)
    \/ StopBegins(c)
    \/ \E w \in Workers : WorkerDies(c, w)
    \/ Dispose(c)
    \/ MayClose /\ TabCloses(c)

Next == \E c \in Tabs : TabStep(c)

Spec == Init /\ [][Next]_vars

(* The browser and the daemon answer, and promises settle.                 *)
FairSpec == Spec /\ \A c \in Tabs : WF_vars(LockStep(c)) /\ WF_vars(Proceed(c))

-----------------------------------------------------------------------------
(* Properties                                                              *)

(* Every field of the clients and of their locks keeps its type.           *)
TypeOK ==
    /\ LockTypeOK
    /\ worker \in [Tabs -> Workers]
    /\ exited \in [Tabs -> BOOLEAN]
    /\ disposed \in [Tabs -> BOOLEAN]
    /\ lease \in [Tabs -> Leases \cup {NoLease}]
    /\ op \in [Tabs -> Op]
    /\ announcing \in [Tabs -> SUBSET Workers]
    /\ open \in [Tabs -> Names \cup {NoName}]
    /\ seen \in [Tabs -> BOOLEAN]

(* No two tabs ever have the databases of one name open, however starts,   *)
(* stops, deaths of workers and closing tabs interleave.                   *)
MutualExclusion ==
    \A c, d \in Tabs : open[c] # NoName /\ open[c] = open[d] => c = d

(* What is seen of the clients through the databases that are open.        *)
Databases ==
    INSTANCE WalletDatabases WITH users <- [n \in Names |-> {c \in Tabs : open[c] = n}]

(* The whole promise of the lock: seen so, the web clients implement       *)
(* WalletDatabases.  A start() opens the databases only after every tab,   *)
(* its own included, has closed them.                                      *)
ExclusiveDatabases == Databases!Spec

(* A tab has databases open only while its lock is held under the lease of *)
(* its session: whoever tears the session down also hands the lock back.   *)
OpenUnderLease ==
    \A c \in Tabs :
        open[c] # NoName =>
            Held(c) /\ lock[c].name = open[c] /\ lock[c].lease = lease[c] /\ ~exited[c]

(* A dead or disposed runtime never strands the origin: once its last      *)
(* operation is over, the tab does not keep the lock.                      *)
NoStrandedLock ==
    \A c \in Tabs : op[c].at = "none" /\ exited[c] => ~Held(c)

(* A late announcement of a dead worker never tells the host that the      *)
(* replacement, which runs, has stopped.                                   *)
RunningIsSeen ==
    \A c \in Tabs : op[c].at = "none" /\ ~disposed[c] /\ open[c] # NoName => seen[c]

(* The lock, the runtime and the host's belief stay together through every *)
(* death, replacement and late release: databases only under the session's *)
(* lease, no lock left with a dead runtime, no running daemon hidden.      *)
SessionIsWhole == OpenUnderLease /\ NoStrandedLock /\ RunningIsSeen

(* Every start() and every stop() ends, so the queue of lifecycle calls    *)
(* moves on.                                                               *)
OperationsEnd == \A c \in Tabs : op[c].at # "none" ~> op[c].at = "none"

-----------------------------------------------------------------------------
(* A claim of a comment that the code does not keep                        *)

(* Every dead-runtime path announces the stop: once every announcement is  *)
(* out, no host that keys liveness off runtimeStopped believes a runtime   *)
(* to be up that is not.                                                   *)
SeenIsRunning ==
    \A c \in Tabs :
        op[c].at = "none" /\ announcing[c] = {} /\ ~disposed[c] /\ seen[c] => open[c] # NoName
=============================================================================
