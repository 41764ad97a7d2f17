----------------------------- MODULE MainClient -----------------------------
(***************************************************************************)
(* The lifecycle of the main-thread web client                             *)
(* (packages/web/src/clients/main.ts).  All clients of a page share the    *)
(* one bridge of the page, the global wavewalletdkCall.  The Go runtime    *)
(* behind it cannot be terminated or restarted: unlike the worker client,  *)
(* a client can only ask the daemon to stop, and it keeps the cross-tab    *)
(* lock until something proves the databases closed.                       *)
(*                                                                         *)
(* A client looks for the bridge before it fetches anything and runs Go    *)
(* long after, so two clients of a page may each run a runtime: the one    *)
(* that installs its bridge last takes over the calls of all of them.      *)
(*                                                                         *)
(* A call to a runtime that exited is rejected or never answered.  A       *)
(* client that found the bridge of the page there uses it without having   *)
(* run it, and hears nothing of its exit.                                  *)
(***************************************************************************)
EXTENDS Integers

CONSTANTS
    Pages,          \* pages (tabs) of the origin
    ClientsPerPage, \* bound: clients a page creates
    Layouts,        \* the sets of clients that the hosts may create
    NoClient,
    Global,         \* RUNTIME_LOCK_NAME, the one lock of all main-thread clients
    NoName,
    WebLocks,
    MaxLeases,      \* bound: leases of a client
    Restless,       \* bound: the clients that start again, or are disposed of
    MayClose        \* may a page be closed and opened again?

ASSUME MainAssumption ==
    /\ ClientsPerPage \in Nat \ {0}
    /\ MaxLeases \in Nat \ {0}
    /\ {WebLocks, MayClose} \subseteq BOOLEAN
    /\ Layouts \subseteq SUBSET (Pages \X (1..ClientsPerPage))
    /\ NoClient \notin Pages \X (1..ClientsPerPage)
    /\ NoName # Global

Clients == Pages \X (1..ClientsPerPage)
PageOf(c) == c[1]

VARIABLES
    created,        \* the clients there are
    lock, lastLease, holder,    \* of RuntimeLock
    caller,         \* per page: whose runtime wavewalletdkCall leads to
    doubled,        \* history, per page: did it run one more runtime beside another?
    run,            \* per client: the Go runtime that its loadRuntime ran
    open,           \* per client: may that runtime have the databases open?
    load,           \* per client: loadPromise
    disposed,       \* per client
    lease,          \* per client: the lease of its session
    op,             \* per client: the start() or stop() that is running
    announcing,     \* per client: is the runtimeStopped of an exit due?
    seen            \* per client: does its host see a running daemon?

INSTANCE RuntimeLock WITH Tabs <- Clients, NoTab <- NoClient, Names <- {Global}

locks == <<lock, lastLease, holder>>
runtimes == <<caller, doubled, run, open>>
clientVars == <<load, disposed, lease, op, announcing, seen>>
vars == <<created, locks, runtimes, clientVars>>

Op == [at : {"none", "acquire", "waiting", "granted", "boot", "opened", "recover",
             "releasing", "stop", "stopping"},
       lease : Leases \cup {NoLease},    \* of the grant, or the token of a stop
       on : Clients \cup {NoClient}]     \* the runtime that its call went to

NoOp == [at |-> "none", lease |-> NoLease, on |-> NoClient]

Init ==
    /\ created \in Layouts
    /\ LockInit
    /\ caller = [p \in Pages |-> NoClient]
    /\ doubled = [p \in Pages |-> FALSE]
    /\ run = [c \in Clients |-> "none"]
    /\ open = [c \in Clients |-> FALSE]
    /\ load = [c \in Clients |-> "none"]
    /\ disposed = [c \in Clients |-> FALSE]
    /\ lease = [c \in Clients |-> NoLease]
    /\ op = [c \in Clients |-> NoOp]
    /\ announcing = [c \in Clients |-> FALSE]
    /\ seen = [c \in Clients |-> FALSE]

Goto(c, at) == op' = [op EXCEPT ![c].at = at, ![c].on = IF at = "opened" THEN @ ELSE NoClient]
Finish(c) == op' = [op EXCEPT ![c] = NoOp]
Tell(c, up) == seen' = [seen EXCEPT ![c] = up]

Runs(c) == run[c] \in {"booting", "installed"}
Callable(p) == caller[p] # NoClient

(* runtimeExited of a client, which only the exit of its own runtime sets. *)
Exited(c) == run[c] = "dead"

(* Something of the page runs Go already, or has left its bridge behind.   *)
Occupied(p) == Callable(p) \/ \E d \in Clients : PageOf(d) = p /\ Runs(d)

-----------------------------------------------------------------------------
(* ensureLoaded(), called by ready() and by every call to the facade       *)

(* loadRuntime() uses a bridge that is there as it is; otherwise it begins *)
(* to fetch the scripts and the binary.                                    *)
LoadBegins(c) ==
    /\ load[c] = "none"
    /\ load' = [load EXCEPT ![c] = IF Callable(PageOf(c)) THEN "loaded" ELSE "fetching"]
    /\ UNCHANGED <<locks, runtimes, disposed, lease, op, announcing, seen>>

(* A script or the binary cannot be fetched, verified or instantiated.     *)
(* The rejection is kept: this client will never load.                     *)
LoadFails(c) ==
    /\ load[c] = "fetching"
    /\ load' = [load EXCEPT ![c] = "failed"]
    /\ UNCHANGED <<locks, runtimes, disposed, lease, op, announcing, seen>>

(* go.run(), whatever the other clients of the page did in the meantime.   *)
(* Go runs until it first blocks, which may be after it has installed its  *)
(* bridge.  waitForReadyEvent() is content with any bridge.                *)
Loads(c) ==
    LET p == PageOf(c) IN
    /\ load[c] = "fetching"
    /\ \/ /\ run' = [run EXCEPT ![c] = "booting"]
          /\ UNCHANGED caller
       \/ /\ run' = [run EXCEPT ![c] = "installed"]
          /\ caller' = [caller EXCEPT ![p] = c]
    /\ load' = [load EXCEPT ![c] = IF caller'[p] # NoClient THEN "loaded" ELSE "loading"]
    /\ doubled' = [doubled EXCEPT ![p] = @ \/ Occupied(p)]
    /\ UNCHANGED <<locks, open, disposed, lease, op, announcing, seen>>

(* The runtime of c installs wavewalletdkCall, over any that is there ...  *)
Installs(c) ==
    /\ run[c] = "booting"
    /\ run' = [run EXCEPT ![c] = "installed"]
    /\ caller' = [caller EXCEPT ![PageOf(c)] = c]
    /\ UNCHANGED <<locks, doubled, open, clientVars>>

(* ... and fires wavewalletdk-ready, which every client of the page that   *)
(* waits takes for its own.                                                *)
Ready(c) ==
    LET waiting == {d \in Clients : PageOf(d) = PageOf(c) /\ load[d] = "loading"} IN
    /\ run[c] = "installed"
    /\ waiting # {}
    /\ load' = [d \in Clients |-> IF d \in waiting THEN "loaded" ELSE load[d]]
    /\ UNCHANGED <<locks, runtimes, disposed, lease, op, announcing, seen>>

(* Mutant: only an exit after ready hands the lock back.                   *)
ExitsHolding(c) ==
    /\ Runs(c)
    /\ run' = [run EXCEPT ![c] = "dead"]
    /\ open' = [open EXCEPT ![c] = FALSE]
    /\ load' = [load EXCEPT ![c] = IF @ = "loading" THEN "failed" ELSE @]
    /\ IF load[c] = "loaded" THEN Release(c, lease[c]) ELSE UNCHANGED locks
    /\ announcing' = [announcing EXCEPT ![c] = load[c] = "loaded"]
    /\ UNCHANGED <<caller, doubled, disposed, lease, op, seen>>

(* go.run() settles: bootExit of the client that ran it.  Go leaves        *)
(* wavewalletdkCall installed.                                             *)
Exits(c) ==
    /\ Runs(c)
    /\ run' = [run EXCEPT ![c] = "dead"]
    /\ open' = [open EXCEPT ![c] = FALSE]
    /\ load' = [load EXCEPT ![c] = IF @ = "loading" THEN "failed" ELSE @]
    /\ Release(c, lease[c])
    /\ announcing' = [announcing EXCEPT ![c] = load[c] = "loaded"]
    /\ UNCHANGED <<caller, doubled, disposed, lease, op, seen>>

(* Mutant: the stop is announced before the release has settled.           *)
AnnouncesEarly(c) ==
    /\ announcing[c]
    /\ announcing' = [announcing EXCEPT ![c] = FALSE]
    /\ Tell(c, FALSE)
    /\ UNCHANGED <<locks, runtimes, load, disposed, lease, op>>

(* The end of bootExit, once the release settled.                          *)
Announces(c) ==
    /\ announcing[c]
    /\ ~Settling(c)
    /\ announcing' = [announcing EXCEPT ![c] = FALSE]
    /\ Tell(c, FALSE)
    /\ UNCHANGED <<locks, runtimes, load, disposed, lease, op>>

-----------------------------------------------------------------------------
(* invokeFacade(): once the load settled, the call of a start or a stop    *)
(* goes to the bridge as it is then.                                       *)
Calls(c) ==
    /\ op[c].at \in {"boot", "recover", "stop"}
    /\ op[c].on = NoClient
    /\ load[c] = "loaded"
    /\ Callable(PageOf(c))
    /\ op' = [op EXCEPT ![c].on = caller[PageOf(c)]]
    /\ UNCHANGED <<locks, runtimes, load, disposed, lease, announcing, seen>>

(* The runtime that has the call of c is there to answer it.               *)
Answers(c) == op[c].on # NoClient /\ Runs(op[c].on)

(* The call of c was rejected, or failed on its way to the bridge.         *)
CallFails(c) == load[c] = "failed" \/ op[c].on # NoClient

-----------------------------------------------------------------------------
(* start() and startExternalSeedWallet()                                   *)

(* A disposed client and a dead runtime are refused; a session that runs   *)
(* is left alone.                                                          *)
StartBegins(c) ==
    /\ op[c].at = "none"
    /\ ~disposed[c] /\ ~Exited(c) /\ ~Held(c)
    /\ lastLease[c] < MaxLeases
    /\ c \in Restless \/ lastLease[c] = NoLease
    /\ Goto(c, "acquire")
    /\ UNCHANGED <<locks, runtimes, load, disposed, lease, announcing, seen>>

StartAcquires(c) ==
    /\ op[c].at = "acquire"
    /\ Request(c, Global)
    /\ op' = [op EXCEPT ![c] = [at |-> IF WebLocks THEN "waiting" ELSE "granted",
                                lease |-> lastLease'[c], on |-> NoClient]]
    /\ UNCHANGED <<runtimes, load, disposed, lease, announcing, seen>>

StartGranted(c) ==
    /\ op[c].at = "waiting"
    /\ Grant(c)
    /\ Goto(c, "granted")
    /\ UNCHANGED <<runtimes, load, disposed, lease, announcing, seen>>

StartDenied(c) ==
    /\ op[c].at = "waiting"
    /\ Deny(c) \/ RequestFails(c)
    /\ Finish(c)
    /\ UNCHANGED <<runtimes, load, disposed, lease, announcing, seen>>

(* Mutant: nothing looks again at whether the runtime exited meanwhile.    *)
StartBootsBlindly(c) ==
    /\ op[c].at = "granted"
    /\ lease' = [lease EXCEPT ![c] = op[c].lease]
    /\ IF disposed[c]
       THEN Release(c, op[c].lease) /\ Goto(c, "releasing")
       ELSE Goto(c, "boot") /\ UNCHANGED locks
    /\ UNCHANGED <<runtimes, load, disposed, announcing, seen>>

(* The continuation of acquire(): the client may have been disposed of, or *)
(* the runtime may have exited, in between.                                *)
StartBoots(c) ==
    /\ op[c].at = "granted"
    /\ lease' = [lease EXCEPT ![c] = op[c].lease]
    /\ IF disposed[c] \/ Exited(c)
       THEN Release(c, op[c].lease) /\ Goto(c, "releasing")
       ELSE Goto(c, "boot") /\ UNCHANGED locks
    /\ UNCHANGED <<runtimes, load, disposed, announcing, seen>>

(* The daemon that has the start call of c opens its databases.            *)
DaemonOpens(c) ==
    /\ op[c].at = "boot"
    /\ Answers(c)
    /\ open' = [open EXCEPT ![op[c].on] = TRUE]
    /\ Goto(c, "opened")
    /\ UNCHANGED <<locks, caller, doubled, run, load, disposed, lease, announcing, seen>>

BootSucceeds(c) ==
    /\ op[c].at = "opened"
    /\ Answers(c)
    /\ Finish(c)
    /\ Tell(c, TRUE)
    /\ UNCHANGED <<locks, runtimes, load, disposed, lease, announcing>>

(* Mutant: any failed start hands the lock back.                           *)
BootFailsReleasing(c) ==
    /\ op[c].at \in {"boot", "opened"}
    /\ CallFails(c)
    /\ IF Exited(c)
       THEN Finish(c) /\ UNCHANGED locks
       ELSE Release(c, lease[c]) /\ Goto(c, "releasing")
    /\ UNCHANGED <<runtimes, load, disposed, lease, announcing, seen>>

(* A start fails.  A runtime that never became callable has opened         *)
(* nothing; a callable one is asked to stop; after an exit, bootExit has   *)
(* released the lock.                                                      *)
BootFails(c) ==
    /\ op[c].at \in {"boot", "opened"}
    /\ CallFails(c)
    /\ IF ~Callable(PageOf(c))
       THEN Release(c, lease[c]) /\ Goto(c, "releasing")
       ELSE IF Exited(c)
       THEN Finish(c) /\ UNCHANGED locks
       ELSE /\ op' = [op EXCEPT ![c] = [at |-> "recover", lease |-> lease[c], on |-> NoClient]]
            /\ UNCHANGED locks
    /\ UNCHANGED <<runtimes, load, disposed, lease, announcing, seen>>

StartFails(c) ==
    /\ op[c].at = "releasing"
    /\ ~Settling(c)
    /\ Finish(c)
    /\ UNCHANGED <<locks, runtimes, load, disposed, lease, announcing, seen>>

-----------------------------------------------------------------------------
(* stop(), and the recovery stop of a failed start                         *)

StopBegins(c) ==
    /\ op[c].at = "none"
    /\ ~Exited(c)
    /\ op' = [op EXCEPT ![c] = [at |-> "stop", lease |-> lease[c], on |-> NoClient]]
    /\ UNCHANGED <<locks, runtimes, load, disposed, lease, announcing, seen>>

(* The daemon that has the call acknowledges, whichever client started it. *)
StopAcknowledged(c) ==
    /\ op[c].at \in {"stop", "recover"}
    /\ Answers(c)
    /\ open' = [open EXCEPT ![op[c].on] = FALSE]
    /\ Release(c, op[c].lease)
    /\ Goto(c, "stopping")
    /\ UNCHANGED <<caller, doubled, run, load, disposed, lease, announcing, seen>>

(* Mutant: a recovery stop that failed hands the lock back all the same.   *)
StopFailsReleasing(c) ==
    /\ op[c].at \in {"stop", "recover"}
    /\ CallFails(c)
    /\ Release(c, op[c].lease)
    /\ Goto(c, "releasing")
    /\ UNCHANGED <<runtimes, load, disposed, lease, announcing, seen>>

(* No acknowledgement: the lock is retained.                               *)
StopFails(c) ==
    /\ op[c].at \in {"stop", "recover"}
    /\ CallFails(c)
    /\ Finish(c)
    /\ UNCHANGED <<locks, runtimes, load, disposed, lease, announcing, seen>>

StopCompletes(c) ==
    /\ op[c].at = "stopping"
    /\ ~Settling(c)
    /\ Finish(c)
    /\ Tell(c, FALSE)
    /\ UNCHANGED <<locks, runtimes, load, disposed, lease, announcing>>

-----------------------------------------------------------------------------
(* Mutant: dispose() releases the lock, the way the worker client does.    *)
DisposeReleases(c) ==
    /\ c \in Restless
    /\ disposed' = [disposed EXCEPT ![c] = TRUE]
    /\ Release(c, lease[c])
    /\ UNCHANGED <<runtimes, load, lease, op, announcing, seen>>

(* dispose() leaves the runtime, and so the lock, alone.                   *)
Dispose(c) ==
    /\ c \in Restless
    /\ disposed' = [disposed EXCEPT ![c] = TRUE]
    /\ UNCHANGED <<locks, runtimes, load, lease, op, announcing, seen>>

(* The page goes away with its runtimes, its clients and their locks.      *)
PageCloses(p) ==
    LET Reset(f, init) == [c \in Clients |-> IF PageOf(c) = p THEN init ELSE f[c]] IN
    /\ lock' = Reset(lock, IdleLock)
    /\ lastLease' = Reset(lastLease, NoLease)
    /\ holder' = [n \in {Global} |->
         IF holder[n] \in Clients /\ PageOf(holder[n]) = p THEN NoClient ELSE holder[n]]
    /\ caller' = [caller EXCEPT ![p] = NoClient]
    /\ doubled' = [doubled EXCEPT ![p] = FALSE]
    /\ run' = Reset(run, "none")
    /\ open' = Reset(open, FALSE)
    /\ load' = Reset(load, "none")
    /\ disposed' = Reset(disposed, FALSE)
    /\ lease' = Reset(lease, NoLease)
    /\ op' = Reset(op, NoOp)
    /\ announcing' = Reset(announcing, FALSE)
    /\ seen' = Reset(seen, FALSE)

LockStep(c) == (Free(c) \/ Settle(c)) /\ UNCHANGED <<runtimes, clientVars>>

ClientStep(c) ==
    \/ LockStep(c)
    \/ LoadBegins(c) \/ LoadFails(c) \/ Loads(c) \/ Calls(c)
    \/ StartBegins(c) \/ StartAcquires(c) \/ StartGranted(c) \/ StartDenied(c) \/ StartBoots(c)
    \/ DaemonOpens(c) \/ BootSucceeds(c) \/ BootFails(c) \/ StartFails(c)
    \/ StopBegins(c) \/ StopAcknowledged(c) \/ StopFails(c) \/ StopCompletes(c)
    \/ Announces(c)
    \/ Dispose(c)

Next ==
    /\ UNCHANGED created
    /\ \/ \E c \in created : ClientStep(c)
       \/ \E c \in created : Installs(c) \/ Ready(c) \/ Exits(c)
       \/ MayClose /\ \E p \in Pages : PageCloses(p)

Spec == Init /\ [][Next]_vars

-----------------------------------------------------------------------------
(* Properties                                                              *)

(* Every field of the pages, of their clients and of the locks keeps its   *)
(* type.                                                                   *)
TypeOK ==
    /\ created \in Layouts
    /\ LockTypeOK
    /\ caller \in [Pages -> Clients \cup {NoClient}]
    /\ doubled \in [Pages -> BOOLEAN]
    /\ run \in [Clients -> {"none", "booting", "installed", "dead"}]
    /\ open \in [Clients -> BOOLEAN]
    /\ load \in [Clients -> {"none", "fetching", "loading", "loaded", "failed"}]
    /\ disposed \in [Clients -> BOOLEAN]
    /\ lease \in [Clients -> Leases \cup {NoLease}]
    /\ op \in [Clients -> Op]
    /\ announcing \in [Clients -> BOOLEAN]
    /\ seen \in [Clients -> BOOLEAN]

(* A runtime of the page may have the databases open.                      *)
Opened(p) == \E c \in Clients : PageOf(c) = p /\ open[c]

(* A client of the page holds the lock.                                    *)
Locked(p) == \E c \in Clients : PageOf(c) = p /\ Held(c)

Databases ==
    INSTANCE WalletDatabases WITH
        Tabs <- Pages, Names <- {Global},
        users <- [n \in {Global} |->
          {PageOf(c) : c \in {d \in Clients : open[d] /\ ~doubled[PageOf(d)]}}]

(* The main-thread clients implement WalletDatabases too: of the pages     *)
(* that never ran one runtime beside another, no two have the databases    *)
(* open, whatever fails, exits or is disposed of, and whatever a page that *)
(* did run two makes of its lock.                                          *)
ExclusiveDatabases == Databases!Spec

(* A daemon that may have its databases open is covered by the lock of a   *)
(* client of its page, unless the page ran two runtimes: a failed start    *)
(* whose recovery stop failed, too, and a disposed client, keep the origin *)
(* locked.                                                                 *)
OpenIsLocked == \A p \in Pages : Opened(p) /\ ~doubled[p] => Locked(p)

(* The exit of a runtime strands no lock of the client that ran it,        *)
(* not even one granted while the runtime was exiting, and not if the      *)
(* start() or stop() that was running is never answered.                   *)
NoStrandedLock ==
    \A c \in Clients :
        Exited(c) /\ op[c].at \notin {"waiting", "granted"} => ~Held(c)

(* The lock is there as long as a daemon may need it, and no longer than   *)
(* the runtime lives.                                                      *)
LockFollowsDaemon == OpenIsLocked /\ NoStrandedLock

(* A subscriber that restarts on runtimeStopped finds the lock already     *)
(* free: a host is told only after its client's release has settled.       *)
StoppedMeansFree ==
    [][\A c \in Clients :
         seen[c] /\ ~seen'[c] => lock'[c].kind \notin {"held", "settling"}]_vars

-----------------------------------------------------------------------------
(* Claims of comments that the code does not keep                          *)

(* A dead runtime holds no databases, so the lock is released to let       *)
(* another tab take over.                                                  *)
DeadRuntimeFreesLock ==
    \A c \in Clients :
        Callable(PageOf(c)) /\ Exited(caller[PageOf(c)]) /\ op[c].at = "none" => ~Held(c)

(* A stop that a daemon acknowledged, or an exit, proves that no daemon of *)
(* the page has the databases open, so the lock may go to another page:    *)
(* OpenIsLocked with nothing said of how many runtimes a page ran.         *)
ReleasedIsClosed == \A p \in Pages : Opened(p) => Locked(p)
=============================================================================
