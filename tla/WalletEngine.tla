---------------------------- MODULE WalletEngine ----------------------------
(***************************************************************************)
(* The headless wallet engine (packages/core/src/engine/engine.ts) over    *)
(* any transport client.                                                   *)
(*                                                                         *)
(* The engine runs on one JavaScript thread, so everything between two     *)
(* awaits is one step.  What interleaves are the continuations of the      *)
(* calls in flight: each host call holds a slot of "tasks" and a field     *)
(* "at" for the await it is suspended in, and the engine's own reads are   *)
(* "chain", "syncTick" and "restoreTick".                                  *)
(*                                                                         *)
(* The client is external.  It settles each call once, at any later time,  *)
(* with any outcome, and may announce at any time that the runtime died.   *)
(***************************************************************************)
EXTENDS Integers, Sequences, PhaseMachine

CONSTANTS
    Slots,          \* slots for host calls in flight
    NoCall,         \* no slot
    Infos,          \* the WalletInfo values the daemon reports
    NoInfo,         \* null
    HostCalls,      \* the operations the host uses
    Polite,         \* does the host call only what fits the phase?
    AutoStart,      \* does the engine start the runtime when it is ready?
    Crashes,        \* may the runtime die by itself?
    Serial,         \* does the client queue start() and stop() (the web ones)?
    AdoptRetries,   \* ADOPT_INFO_RETRIES
    RefreshLimit,   \* BACKGROUND_REFRESH_FAILURE_LIMIT
    MaxStops,       \* bound: stop() calls of one behaviour
    MaxChain        \* bound: background refreshes queued at once (0: none)

Operations == {"start", "stop", "refresh", "wallet", "pay", "restore", "acknowledge", "dispose"}

ASSUME ConstantsAssumption ==
    /\ NoCall \notin Slots
    /\ Infos \subseteq WalletInfo
    /\ NoInfo \notin Infos
    /\ HostCalls \subseteq Operations
    /\ Polite \in BOOLEAN
    /\ AutoStart \in BOOLEAN
    /\ Crashes \in BOOLEAN
    /\ Serial \in BOOLEAN
    /\ {AdoptRetries, RefreshLimit} \subseteq Nat \ {0}
    /\ {MaxStops, MaxChain} \subseteq Nat

VARIABLES
    phase, info,      \* the snapshot: phase, info or null
    balance,          \* are balance and activity filled in?  always written together
    error,            \* is there an error?
    recovery,         \* status of the recovery scan
    streamOn, syncOn, restoreOn,    \* which background processes run
    syncTick, restoreTick,          \* is a tick of the poll in flight?
    chain,            \* background refreshes queued; the first one is in flight
    refreshFailures,  \* consecutive failures of background refreshes
    restore,          \* the call whose restore promise is pending, or NoCall
    tasks,            \* the host call in each slot
    lifecycle,        \* the client's queue of start() and stop() calls
    deliberateStops,  \* stop() calls so far
    booted,           \* has client.ready() settled?
    disposed,
    wanted            \* history: what the last start() or stop() asked for

snap   == <<info, balance, error, recovery>>
procs  == <<streamOn, syncOn, restoreOn>>
ticks  == <<syncTick, restoreTick>>
reads  == <<chain, refreshFailures>>
calls  == <<tasks, lifecycle, restore>>
status == <<deliberateStops, booted, disposed, wanted>>
vars   == <<phase, snap, procs, ticks, reads, calls, status>>

-----------------------------------------------------------------------------
(* Host calls                                                              *)

Task == [op : Operations \cup {"none"},
         at : {"none", "rpc", "fetch", "acked", "adopt", "sleep", "adoptUp", "probe"},
         stops : Nat,           \* stopsBefore of a start()
         attempt : Nat,         \* attempts made by #adoptInfo
         tracking : BOOLEAN]    \* does a restore track the recovery scan?

Idle == [op |-> "none", at |-> "none", stops |-> 0, attempt |-> 0, tracking |-> FALSE]

(* The host calls op: the slot waits for the client's answer.              *)
Call(t, op, tracking) ==
    /\ tasks[t] = Idle
    /\ tasks' = [tasks EXCEPT ![t] =
         [op |-> op, at |-> "rpc", stops |-> deliberateStops, attempt |-> 0, tracking |-> tracking]]

Waits(t, op, at) == tasks[t].op = op /\ tasks[t].at = at

Await(t, at) == tasks' = [tasks EXCEPT ![t].at = at]

Return(t) == tasks' = [tasks EXCEPT ![t] = Idle]

(* start() and stop() reach the daemon in call order where the client      *)
(* queues them (BaseWavelengthClient.enqueueLifecycle), in any order       *)
(* otherwise (the React Native client).                                    *)
Enqueue(t) == lifecycle' = IF Serial THEN Append(lifecycle, t) ELSE lifecycle

Dequeue(t) ==
    IF Serial
    THEN lifecycle # <<>> /\ Head(lifecycle) = t /\ lifecycle' = Tail(lifecycle)
    ELSE UNCHANGED lifecycle

-----------------------------------------------------------------------------
(* The snapshot and the background processes                               *)

Patch(i, b, e, r) == info' = i /\ balance' = b /\ error' = e /\ recovery' = r

(* Mutant: nothing stops the readiness poll.                               *)
MoveKeepsPolling(p) ==
    /\ phase' = p
    /\ IF p = phase
       THEN UNCHANGED procs
       ELSE /\ streamOn' = (p = "ready")
            /\ syncOn' = (p = "syncing")
            /\ restoreOn' = (restoreOn \/ p = "restoring")

(* Stores phase p; on a change, the process ownership table turns each     *)
(* background process on or off.                                           *)
Move(p) ==
    /\ phase' = p
    /\ IF p = phase
       THEN UNCHANGED procs
       ELSE /\ streamOn' = (p = "ready")
            /\ syncOn' = (p = "syncing")
            /\ restoreOn' = (p = "restoring")

Dispatch(e) == Move(Transition(phase, e))

(* Mutant: the guard forgets 'stopped'.                                    *)
FetchAllLate(i) ==
    IF phase = "stopping"
    THEN UNCHANGED <<phase, procs, snap>>
    ELSE Move(OnInfo(phase, i)) /\ Patch(i, TRUE, error, recovery)

(* The tail of #fetchAll: a read that lands while the runtime is going     *)
(* down is dropped.                                                        *)
FetchAll(i) ==
    IF phase \in {"stopping", "stopped"}
    THEN UNCHANGED <<phase, procs, snap>>
    ELSE Move(OnInfo(phase, i)) /\ Patch(i, TRUE, error, recovery)

(* #kickRefresh: one more refresh on the chain.  At the bound it joins the *)
(* last one queued.                                                        *)
Kick == chain' = IF chain < MaxChain THEN chain + 1 ELSE chain

(* #onClientEvent for runtimeStopped.                                      *)
RuntimeStopped ==
    /\ Dispatch("runtimeStopped")
    /\ Patch(NoInfo, FALSE, error, recovery)
    /\ restore' = NoCall

-----------------------------------------------------------------------------
(* start() and stop()                                                      *)

(* The phases that only an answer of a running daemon leads to.            *)
LivePhases == WalletPhases \cup {"restoring"}

BeginStart(t, p) ==
    /\ Call(t, "start", FALSE)
    /\ Enqueue(t)
    /\ Move(Transition(p, "startRequested"))
    /\ Patch(info, balance, FALSE, recovery)
    /\ refreshFailures' = 0
    /\ wanted' = "up"

Start(t) ==
    /\ ~disposed
    /\ phase # "stopping"
    /\ BeginStart(t, phase)
    /\ UNCHANGED <<ticks, chain, restore, deliberateStops, booted, disposed>>

(* A stop() issued meanwhile owns the outcome of a start(): its            *)
(* continuation leaves the snapshot alone.                                 *)
Overtaken(t) == tasks[t].stops # deliberateStops

(* The client starts no daemon before its runtime has loaded.              *)
StartResolves(t) ==
    /\ booted
    /\ Waits(t, "start", "rpc")
    /\ Dequeue(t)
    /\ IF Overtaken(t)
       THEN Return(t) /\ UNCHANGED <<phase, procs, snap>>
       ELSE /\ \E i \in Infos : Move(OnInfo(phase, i)) /\ Patch(i, balance, error, recovery)
            /\ IF disposed THEN Return(t) ELSE Await(t, "fetch")
    /\ UNCHANGED <<ticks, reads, restore, status>>

StartRejects(t) ==
    /\ Waits(t, "start", "rpc")
    /\ Dequeue(t)
    /\ Return(t)
    /\ IF Overtaken(t)
       THEN UNCHANGED <<phase, procs, snap>>
       ELSE Dispatch("startFailed") /\ Patch(info, balance, TRUE, recovery)
    /\ UNCHANGED <<ticks, reads, restore, status>>

Stop(t) ==
    /\ ~disposed
    /\ deliberateStops < MaxStops
    /\ Call(t, "stop", FALSE)
    /\ Enqueue(t)
    /\ Dispatch("stopRequested")
    /\ deliberateStops' = deliberateStops + 1
    /\ wanted' = "down"
    /\ UNCHANGED <<snap, ticks, reads, restore, booted, disposed>>

(* The client reports the stop to its subscribers before stop() resolves,  *)
(* unless the runtime had exited already (the web clients).  No read of an *)
(* exited runtime succeeds, and a start() is still queued behind this      *)
(* stop(), so the engine is then in no phase of a live wallet.  Its        *)
(* continuation follows in a microtask: see Drained.                       *)
StopAcknowledged(t) ==
    /\ Waits(t, "stop", "rpc")
    /\ Dequeue(t)
    /\ Await(t, "acked")
    /\ \/ ~disposed /\ RuntimeStopped
       \/ /\ disposed \/ (Serial /\ phase \notin LivePhases)
          /\ UNCHANGED <<phase, procs, snap, restore>>
    /\ UNCHANGED <<ticks, reads, status>>

StopCompletes(t) ==
    /\ Waits(t, "stop", "acked")
    /\ Return(t)
    /\ Dispatch("stopCompleted")
    /\ Patch(NoInfo, FALSE, FALSE, recovery)
    /\ restore' = NoCall
    /\ UNCHANGED <<ticks, reads, lifecycle, status>>

StopRejects(t) ==
    /\ Waits(t, "stop", "rpc")
    /\ Dequeue(t)
    /\ Return(t)
    /\ Dispatch("stopFailed")
    /\ Patch(info, balance, TRUE, recovery)
    /\ UNCHANGED <<ticks, reads, restore, status>>

-----------------------------------------------------------------------------
(* Reads and mutations of the wallet                                       *)

(* refresh() called by the host.                                           *)
Refresh(t) ==
    /\ ~disposed
    /\ Call(t, "refresh", FALSE)
    /\ UNCHANGED <<phase, procs, snap, ticks, reads, lifecycle, restore, status>>

(* The foreground reads of refresh() and of start().  A failure reaches    *)
(* only the caller of refresh().                                           *)
ForegroundRead(t) ==
    /\ Waits(t, "refresh", "rpc") \/ Waits(t, "start", "fetch")
    /\ Return(t)
    /\ \/ \E i \in Infos : FetchAll(i)
       \/ UNCHANGED <<phase, procs, snap>>
    /\ UNCHANGED <<ticks, reads, lifecycle, restore, status>>

(* deposit, receive, sendPrepared, send, exit, and sweepWallet with        *)
(* broadcast: a call to the client that kicks a refresh when it resolves.  *)
Pay(t) ==
    /\ ~disposed
    /\ Call(t, "pay", FALSE)
    /\ UNCHANGED <<phase, procs, snap, ticks, reads, lifecycle, restore, status>>

PayResolves(t) ==
    /\ Waits(t, "pay", "rpc")
    /\ Return(t)
    /\ Kick
    /\ UNCHANGED <<phase, procs, snap, ticks, refreshFailures, lifecycle, restore, status>>

(* createWallet, unlockWallet and openWalletFromPasskey.                   *)
Wallet(t) ==
    /\ ~disposed
    /\ Call(t, "wallet", FALSE)
    /\ UNCHANGED <<phase, procs, snap, ticks, reads, lifecycle, restore, status>>

(* A rejected mutation leaves the engine as it is.                         *)
CallRejects(t) ==
    /\ Waits(t, "pay", "rpc") \/ Waits(t, "wallet", "rpc")
    /\ Return(t)
    /\ UNCHANGED <<phase, procs, snap, ticks, reads, lifecycle, restore, status>>

(* The head of the loop of #adoptInfo, after the call resolved or after    *)
(* the wait between two attempts.                                          *)
AdoptNext(t) ==
    /\ Waits(t, "wallet", "rpc") \/ Waits(t, "wallet", "sleep")
    /\ IF disposed
       THEN Return(t) /\ Kick
       ELSE /\ tasks' = [tasks EXCEPT ![t].at = "adopt", ![t].attempt = @ + 1]
            /\ UNCHANGED chain
    /\ UNCHANGED <<phase, procs, snap, ticks, refreshFailures, lifecycle, restore, status>>

Adopts(t) ==
    /\ Waits(t, "wallet", "adopt")
    /\ \E i \in Infos : Move(OnInfo(phase, i)) /\ Patch(i, balance, error, recovery)
    /\ Return(t)
    /\ Kick
    /\ UNCHANGED <<ticks, refreshFailures, lifecycle, restore, status>>

AdoptFails(t) ==
    /\ Waits(t, "wallet", "adopt")
    /\ IF tasks[t].attempt < AdoptRetries
       THEN Await(t, "sleep") /\ UNCHANGED <<phase, procs, snap, chain>>
       ELSE /\ Return(t)
            /\ Kick
            /\ IF disposed
               THEN UNCHANGED <<phase, procs, snap>>
               ELSE Dispatch("walletAdoptionFailed") /\ Patch(info, balance, TRUE, recovery)
    /\ UNCHANGED <<ticks, refreshFailures, lifecycle, restore, status>>

-----------------------------------------------------------------------------
(* restoreWallet()                                                         *)

RestoreWallet(t) ==
    /\ ~disposed
    /\ restore = NoCall
    /\ \E tracking \in BOOLEAN :
         /\ Call(t, "restore", tracking)
         /\ Patch(info, balance, FALSE, IF tracking THEN "restoring" ELSE "idle")
    /\ Dispatch("restoreRequested")
    /\ restore' = t
    /\ UNCHANGED <<ticks, reads, lifecycle, status>>

(* Mutant: the end of the scan is not recorded.                            *)
RestoreResolvesSilently(t) ==
    /\ Waits(t, "restore", "rpc")
    /\ IF disposed THEN Return(t) ELSE Await(t, "adoptUp")
    /\ UNCHANGED <<phase, snap, procs, ticks, reads, lifecycle, restore, status>>

(* createWallet resolved: the scan, or the plain restore, finished.        *)
RestoreResolves(t) ==
    /\ Waits(t, "restore", "rpc")
    /\ IF disposed
       THEN Return(t) /\ UNCHANGED recovery
       ELSE /\ Await(t, "adoptUp")
            /\ recovery' = IF tasks[t].tracking THEN "done" ELSE recovery
    /\ UNCHANGED <<phase, info, balance, error, procs, ticks, reads, lifecycle, restore, status>>

(* Mutant: without an answer to getInfo the phase stays.                   *)
RestoreAdoptsOnlyInfo(t) ==
    /\ Waits(t, "restore", "adoptUp")
    /\ \/ (\E i \in Infos : Patch(i, balance, error, recovery)) /\ Dispatch("walletBecameReady")
       \/ UNCHANGED <<phase, procs, snap>>
    /\ restore' = NoCall
    /\ Return(t)
    /\ Kick
    /\ UNCHANGED <<ticks, refreshFailures, lifecycle, status>>

(* #adoptWalletUp, with or without an answer to getInfo, and then          *)
(* #settleRestore.                                                         *)
RestoreAdopts(t) ==
    /\ Waits(t, "restore", "adoptUp")
    /\ \E i \in Infos \cup {info} : Patch(i, balance, error, recovery)
    /\ Dispatch("walletBecameReady")
    /\ restore' = NoCall
    /\ Return(t)
    /\ Kick
    /\ UNCHANGED <<ticks, refreshFailures, lifecycle, status>>

(* createWallet rejected: probe getInfo.                                   *)
RestoreRejects(t) ==
    /\ Waits(t, "restore", "rpc")
    /\ IF disposed THEN Return(t) ELSE Await(t, "probe")
    /\ UNCHANGED <<phase, procs, snap, ticks, reads, lifecycle, restore, status>>

ProbeFindsWallet(t) ==
    /\ Waits(t, "restore", "probe")
    /\ \E i \in {j \in Infos : Usable(j)} :
         Patch(i, balance, error, IF tasks[t].tracking THEN "failedUsable" ELSE "idle")
    /\ Dispatch("restoreFailedWalletUp")
    /\ restore' = NoCall
    /\ Return(t)
    /\ Kick
    /\ UNCHANGED <<ticks, refreshFailures, lifecycle, status>>

(* Mutant: the promise of the failed restore is not rejected.              *)
ProbeFindsNoneSilently(t) ==
    /\ Waits(t, "restore", "probe")
    /\ Patch(info, balance, error, "failedUnusable")
    /\ Dispatch("restoreFailedWalletDown")
    /\ Return(t)
    /\ UNCHANGED <<ticks, reads, lifecycle, restore, status>>

ProbeFindsNone(t) ==
    /\ Waits(t, "restore", "probe")
    /\ Patch(info, balance, error, "failedUnusable")
    /\ Dispatch("restoreFailedWalletDown")
    /\ restore' = NoCall
    /\ Return(t)
    /\ UNCHANGED <<ticks, reads, lifecycle, status>>

Acknowledge ==
    /\ recovery # "restoring"
    /\ recovery' = "idle"
    /\ UNCHANGED <<phase, info, balance, error, procs, ticks, reads, calls, status>>

-----------------------------------------------------------------------------
(* Background processes                                                    *)

(* Activity on the stream, its loss, or a probe of the settle reconciler:  *)
(* all of them refresh, and only while the stream runs.                    *)
Reconcile ==
    /\ streamOn
    /\ ~disposed
    /\ Kick
    /\ UNCHANGED <<phase, procs, snap, ticks, refreshFailures, calls, status>>

(* The stream gave up reopening.                                           *)
StreamDies ==
    /\ streamOn
    /\ IF phase = "ready"
       THEN Dispatch("streamLost") /\ Patch(info, balance, TRUE, recovery)
       ELSE streamOn' = FALSE /\ UNCHANGED <<phase, snap, syncOn, restoreOn>>
    /\ UNCHANGED <<ticks, reads, calls, status>>

BackgroundReads ==
    /\ chain > 0
    /\ chain' = chain - 1
    /\ refreshFailures' = 0
    /\ \E i \in Infos : FetchAll(i)
    /\ UNCHANGED <<ticks, calls, status>>

(* The counter is capped at the limit, where it has its last effect.       *)
BackgroundFails ==
    /\ chain > 0
    /\ chain' = chain - 1
    /\ refreshFailures' = IF refreshFailures < RefreshLimit THEN refreshFailures + 1 ELSE refreshFailures
    /\ IF refreshFailures' >= RefreshLimit /\ phase = "ready"
       THEN Dispatch("backgroundRefreshExhausted") /\ Patch(info, balance, TRUE, recovery)
       ELSE UNCHANGED <<phase, procs, snap>>
    /\ UNCHANGED <<ticks, calls, status>>

SyncTick ==
    /\ syncOn
    /\ ~syncTick
    /\ ~disposed
    /\ syncTick' = TRUE
    /\ UNCHANGED <<phase, procs, snap, restoreTick, reads, calls, status>>

SyncReads ==
    /\ syncTick
    /\ syncTick' = FALSE
    /\ \E i \in Infos : FetchAll(i)
    /\ UNCHANGED <<restoreTick, reads, calls, status>>

(* A failed tick, which may be the one that exhausts the poll (module      *)
(* Poller counts them).  refresh() of a disposed engine throws at once.    *)
SyncFails ==
    /\ syncTick \/ (syncOn /\ disposed)
    /\ syncTick' = FALSE
    /\ \/ UNCHANGED <<phase, procs, snap>>
       \/ /\ phase = "syncing"
          /\ Dispatch("syncPollExhausted")
          /\ Patch(info, balance, TRUE, recovery)
       \/ /\ phase # "syncing"
          /\ syncOn' = FALSE
          /\ UNCHANGED <<phase, streamOn, restoreOn, snap>>
    /\ UNCHANGED <<restoreTick, reads, calls, status>>

RestoreTick ==
    /\ restoreOn
    /\ ~restoreTick
    /\ restoreTick' = TRUE
    /\ UNCHANGED <<phase, procs, snap, syncTick, reads, calls, status>>

RestoreTickFindsWallet ==
    /\ restoreTick
    /\ restoreTick' = FALSE
    /\ \E i \in {j \in Infos : Usable(j)} : Patch(i, balance, error, recovery)
    /\ Dispatch("walletBecameReady")
    /\ restore' = NoCall
    /\ Kick
    /\ UNCHANGED <<syncTick, refreshFailures, tasks, lifecycle, status>>

RestoreTickFindsNone ==
    /\ restoreTick
    /\ restoreTick' = FALSE
    /\ UNCHANGED <<phase, procs, snap, syncTick, reads, calls, status>>

-----------------------------------------------------------------------------
(* The client and the end of the engine                                    *)

(* client.ready() resolves.  A disposed engine ignores it; another one     *)
(* may start at once, which throws while stopping.                         *)
ClientReady ==
    /\ ~booted
    /\ booted' = TRUE
    /\ LET p == Transition(phase, "runtimeReady") IN
         IF ~disposed /\ AutoStart /\ p # "stopping"
         THEN (\E t \in Slots : BeginStart(t, p)) /\ UNCHANGED <<chain, restore>>
         ELSE /\ IF disposed THEN UNCHANGED <<phase, procs>> ELSE Move(p)
              /\ UNCHANGED <<snap, reads, calls, wanted>>
    /\ UNCHANGED <<ticks, deliberateStops, disposed>>

ClientFails ==
    /\ ~booted
    /\ booted' = TRUE
    /\ IF disposed
       THEN UNCHANGED <<phase, procs, snap>>
       ELSE Dispatch("runtimeFailed") /\ Patch(info, balance, TRUE, recovery)
    /\ UNCHANGED <<ticks, reads, calls, deliberateStops, disposed, wanted>>

(* The client announces a runtime, the first one or one that replaces it.  *)
RuntimeAnnounced ==
    /\ ~disposed
    /\ Dispatch("runtimeReady")
    /\ UNCHANGED <<snap, ticks, reads, calls, status>>

RuntimeDies ==
    /\ ~disposed
    /\ RuntimeStopped
    /\ UNCHANGED <<ticks, reads, tasks, lifecycle, status>>

Dispose ==
    /\ disposed' = TRUE
    /\ streamOn' = FALSE
    /\ syncOn' = FALSE
    /\ restoreOn' = FALSE
    /\ restore' = NoCall
    /\ UNCHANGED <<phase, snap, ticks, reads, tasks, lifecycle, deliberateStops, booted, wanted>>

-----------------------------------------------------------------------------
Init ==
    /\ phase = "loading"
    /\ info = NoInfo
    /\ balance = FALSE
    /\ error = FALSE
    /\ recovery = "idle"
    /\ streamOn = FALSE /\ syncOn = FALSE /\ restoreOn = FALSE
    /\ syncTick = FALSE /\ restoreTick = FALSE
    /\ chain = 0
    /\ refreshFailures = 0
    /\ restore = NoCall
    /\ tasks = [t \in Slots |-> Idle]
    /\ lifecycle = <<>>
    /\ deliberateStops = 0
    /\ booted = FALSE
    /\ disposed = FALSE
    /\ wanted = "up"

(* The phases whose screens offer an operation to the user.                *)
OfferedIn(op) ==
    CASE op = "start"               -> {"runtimeReady", "stopped", "error"}
      [] op = "stop"                -> WalletPhases \cup {"starting", "restoring", "error"}
      [] op \in {"wallet", "restore"} -> {"needsWallet", "locked"}
      [] op = "pay"                 -> {"ready"}
      [] OTHER                      -> WalletPhases

May(op) == op \in HostCalls /\ (Polite => phase \in OfferedIn(op))

HostStep(t) ==
    \/ May("start") /\ Start(t)
    \/ May("stop") /\ Stop(t)
    \/ May("refresh") /\ Refresh(t)
    \/ May("pay") /\ Pay(t)
    \/ May("wallet") /\ Wallet(t)
    \/ May("restore") /\ RestoreWallet(t)

(* The client settles the call in slot t, and the engine goes on.          *)
Settle(t) ==
    \/ StartResolves(t) \/ StartRejects(t)
    \/ StopAcknowledged(t) \/ StopRejects(t)
    \/ ForegroundRead(t)
    \/ PayResolves(t) \/ CallRejects(t)
    \/ AdoptNext(t) \/ Adopts(t) \/ AdoptFails(t)
    \/ RestoreResolves(t) \/ RestoreAdopts(t)
    \/ RestoreRejects(t) \/ ProbeFindsWallet(t) \/ ProbeFindsNone(t)

Background ==
    \/ Reconcile \/ StreamDies
    \/ BackgroundReads \/ BackgroundFails
    \/ SyncTick \/ SyncReads \/ SyncFails
    \/ RestoreTick \/ RestoreTickFindsWallet \/ RestoreTickFindsNone

(* A stop() that the client acknowledged completes before any other        *)
(* message is handled: only a subscriber of the snapshot, or a microtask   *)
(* of the host, can get in between, with calls of its own.                 *)
Drained == \A t \in Slots : tasks[t].at # "acked"

Next ==
    \/ \E t \in Slots : HostStep(t) \/ StopCompletes(t)
    \/ "acknowledge" \in HostCalls /\ Acknowledge
    \/ "dispose" \in HostCalls /\ Dispose
    \/ /\ Drained
       /\ \/ \E t \in Slots : Settle(t)
          \/ Background
          \/ ClientReady \/ ClientFails \/ RuntimeAnnounced
          \/ Crashes /\ RuntimeDies

Spec == Init /\ [][Next]_vars

(* The client settles every call it was given, and a microtask that is     *)
(* due runs.  The host owes nothing, nor do the background processes: no   *)
(* promise below may depend on a poll.                                     *)
Fairness ==
    /\ \A t \in Slots : WF_vars(StopCompletes(t)) /\ WF_vars(Drained /\ Settle(t))

FairSpec == Spec /\ Fairness

-----------------------------------------------------------------------------
(* Properties                                                              *)

(* Every field of the engine keeps its type; in particular no walletState  *)
(* the daemon reports leaves the phase outside the RuntimePhase union.     *)
TypeOK ==
    /\ phase \in Phases
    /\ info \in Infos \cup {NoInfo}
    /\ balance \in BOOLEAN
    /\ error \in BOOLEAN
    /\ recovery \in {"idle", "restoring", "done", "failedUsable", "failedUnusable"}
    /\ streamOn \in BOOLEAN /\ syncOn \in BOOLEAN /\ restoreOn \in BOOLEAN
    /\ syncTick \in BOOLEAN /\ restoreTick \in BOOLEAN
    /\ chain \in 0..MaxChain
    /\ refreshFailures \in 0..RefreshLimit
    /\ restore \in Slots \cup {NoCall}
    /\ tasks \in [Slots -> Task]
    /\ lifecycle \in Seq(Slots)
    /\ deliberateStops \in 0..MaxStops
    /\ booted \in BOOLEAN
    /\ disposed \in BOOLEAN
    /\ wanted \in {"up", "down"}

(* The table of background processes holds whatever order stops, crashes,  *)
(* restores and late reads come in: a live engine streams exactly while    *)
(* ready, polls exactly while syncing, and probes exactly while restoring. *)
ProcessOwnership ==
    ~disposed => /\ streamOn = (phase = "ready")
                 /\ syncOn = (phase = "syncing")
                 /\ restoreOn = (phase = "restoring")

(* 'starting' is never orphaned: some start() that no stop() has overtaken *)
(* is still waiting for the client, so its outcome will move the phase.    *)
StartingHasStart ==
    phase = "starting" => \E t \in Slots : Waits(t, "start", "rpc") /\ ~Overtaken(t)

(* 'stopping' is never orphaned: some stop() is still unfinished.          *)
StoppingHasStop == phase = "stopping" => \E t \in Slots : tasks[t].op = "stop"

(* A transient phase always has a call of the host behind it that will end *)
(* it, however starts, stops and deaths of the runtime overlap.            *)
LifecycleOwned == StartingHasStart /\ StoppingHasStop

(* A wallet being restored has a caller who is still waiting to hear of it.*)
RestoringHasCaller == phase = "restoring" /\ ~disposed => restore # NoCall

(* A restore promise is never stranded: the createWallet call behind it is *)
(* still in flight, and settles it.                                        *)
PendingRestoreHasRequest == restore # NoCall => tasks[restore].op = "restore"

(* The recovery banner never sticks at 'restoring', which acknowledge()    *)
(* refuses to clear: some tracked scan is still in flight.                 *)
ScanHasOwner ==
    recovery = "restoring" /\ ~disposed =>
        \E t \in Slots : /\ tasks[t].op = "restore"
                         /\ tasks[t].tracking
                         /\ tasks[t].at \in {"rpc", "probe"}

(* A restore owes its outcome to somebody who is there to deliver it: the  *)
(* wallet that is being restored has its caller, the caller's promise the  *)
(* createWallet call behind it, and the recovery banner the scan.          *)
RestoreOwned == RestoringHasCaller /\ PendingRestoreHasRequest /\ ScanHasOwner

(* However late a read lands, it cannot bring balance and activity back    *)
(* once the runtime has stopped.                                           *)
StoppedHoldsNoFunds == phase = "stopped" => ~balance

(* stop() wins: after the host's last word was stop(), no call still in    *)
(* flight (an older start(), a restore, a read) takes the engine back to a *)
(* live phase.                                                             *)
StopWins == wanted = "down" => phase \in {"stopping", "stopped", "error"}

(* After stop() nothing in flight comes back: neither a live phase nor the *)
(* funds of the wallet that was stopped.                                   *)
StopSafety == StopWins /\ StoppedHoldsNoFunds

(* 'starting' always ends, whatever start() calls are queued behind others.*)
StartingEnds == phase = "starting" ~> phase # "starting"

(* 'stopping' always ends: start() is refused in it, so there is no other  *)
(* way out for the user.                                                   *)
StoppingEnds == phase = "stopping" ~> phase # "stopping"

(* The user never waits for ever on a start or a stop: each transient phase*)
(* ends, without the help of any poll, once the client settles its calls.  *)
TransientsEnd == StartingEnds /\ StoppingEnds

(* The promise of restoreWallet() always settles, poll or no poll.         *)
RestoreSettles == \A t \in Slots : restore = t ~> restore # t

(* The recovery banner always leaves 'restoring'.                          *)
ScanEnds == recovery = "restoring" ~> (recovery # "restoring" \/ disposed)

(* Every restore is answered: its promise settles and its banner leaves    *)
(* 'restoring', whatever stops, crashes and second restores come between.  *)
RestoresEnd == RestoreSettles /\ ScanEnds

-----------------------------------------------------------------------------
(* Claims of the documentation that the code does not keep                 *)

(* dispose() "tears down subscriptions, polls, and streams".               *)
DisposedIsQuiet == disposed => ~streamOn /\ ~syncOn /\ ~restoreOn

(* stop(), or the death of the runtime, wipes the info of the wallet.      *)
StoppedHoldsNoInfo == phase = "stopped" => info = NoInfo

(* No call that fails late stamps a fatal error onto a healthy or stopped  *)
(* snapshot.                                                               *)
NoStrayError == Drained /\ phase \in WalletPhases \cup {"stopped"} => ~error

(* In phase 'error' the snapshot holds the reason.                         *)
ErrorHasReason == phase = "error" => error

(* A failed start() or stop() moves the phase to 'error', except a start() *)
(* that a stop() overtook.                                                 *)
FailureShows ==
    [][\A t \in Slots :
         StopRejects(t) \/ (StartRejects(t) /\ ~Overtaken(t)) => phase' = "error"]_vars

(* The promise of a restore is settled once, by that restore: the outcome  *)
(* of another restoreWallet() call never settles it.                       *)
OwnRestoreSettles ==
    [][\A t \in Slots :
         restore # NoCall /\ restore' = NoCall /\ tasks[t].op = "restore" /\ t # restore =>
             tasks'[t] = tasks[t]]_vars
=============================================================================
