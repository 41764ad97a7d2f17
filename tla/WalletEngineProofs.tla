------------------------- MODULE WalletEngineProofs -------------------------
(***************************************************************************)
(* The safety of the wallet engine, for any number of host calls in        *)
(* flight, any infos and any bounds, proved.                               *)
(***************************************************************************)
EXTENDS WalletEngine, TLAPS

-----------------------------------------------------------------------------
(* The phase machine.                                                      *)

Down == {"stopping", "stopped", "error"}

LEMMA TransitionFacts ==
    ASSUME NEW p \in Phases, NEW e \in EventTypes
    PROVE  /\ Transition(p, e) \in Phases
           /\ Transition(p, e) = "starting" => p = "starting" \/ e = "startRequested"
           /\ Transition(p, e) = "stopping" => p = "stopping" \/ e = "stopRequested"
           /\ Transition(p, e) = "stopped" =>
                p = "stopped" \/ e \in {"runtimeStopped", "stopCompleted"}
           /\ p \in Down => Transition(p, e) \in Down \/ e = "startRequested"
  BY DEF Transition, Accepts, Target, EventTypes, Phases, WalletPhases, RuntimePhases, Down

LEMMA OnInfoFacts ==
    ASSUME NEW p \in Phases, NEW i \in WalletInfo
    PROVE  /\ OnInfo(p, i) \in Phases
           /\ OnInfo(p, i) \in {"starting", "stopping", "stopped", "error"} =>
                OnInfo(p, i) = p /\ p # "starting"
           /\ p \in Down => OnInfo(p, i) = p
  BY DEF OnInfo, PhaseFromInfo, WalletInfo, WalletStates, Phases, WalletPhases, RuntimePhases, Down

(* What single events do.                                                  *)
LEMMA EventFacts ==
    ASSUME NEW p \in Phases
    PROVE  /\ Transition(p, "stopRequested") \in {"stopping", "stopped"}
           /\ Transition(p, "runtimeStopped") \in {"stopped", "error"}
           /\ Transition(p, "stopCompleted") # "stopping"
           /\ Transition(p, "stopFailed") # "stopping"
           /\ Transition(p, "startFailed") # "starting"
  BY DEF Transition, Accepts, Target, EventTypes, Phases, WalletPhases, RuntimePhases

(* A phase becomes 'restoring' only by restoreRequested, and the events    *)
(* that settle a restore leave it.                                         *)
LEMMA RestoringFacts ==
    ASSUME NEW p \in Phases
    PROVE  /\ \A e \in EventTypes \ {"restoreRequested"} :
                Transition(p, e) = "restoring" => p = "restoring"
           /\ \A e \in {"runtimeStopped", "stopRequested", "walletBecameReady",
                        "restoreFailedWalletUp", "restoreFailedWalletDown"} :
                Transition(p, e) # "restoring"
           /\ p # "stopping" => Transition(p, "startRequested") = "starting"
           /\ \A i \in WalletInfo : OnInfo(p, i) = "restoring" => p = "restoring"
  BY DEF Transition, Accepts, Target, EventTypes, Phases, WalletPhases, RuntimePhases,
     OnInfo, PhaseFromInfo, WalletInfo, WalletStates

-----------------------------------------------------------------------------
(* The operators the actions are built from.                               *)

(* The table of background processes, whether the engine is disposed of or *)
(* not.                                                                    *)
Owned ==
    /\ streamOn = (phase = "ready")
    /\ syncOn = (phase = "syncing")
    /\ restoreOn = (phase = "restoring")

ProcsOK == streamOn \in BOOLEAN /\ syncOn \in BOOLEAN /\ restoreOn \in BOOLEAN

LEMMA MoveFacts ==
    ASSUME NEW p \in Phases, Move(p), ProcsOK
    PROVE  phase' = p /\ ProcsOK' /\ (Owned => Owned')
<1>1. CASE p = phase
  BY <1>1 DEF Move, ProcsOK, Owned, procs
<1>2. CASE p # phase
  BY <1>2 DEF Move, ProcsOK, Owned
<1> QED
  BY <1>1, <1>2

LEMMA CallFacts ==
    ASSUME tasks \in [Slots -> Task], deliberateStops \in Nat, NEW t \in Slots,
           NEW o \in Operations, NEW tracking \in BOOLEAN, Call(t, o, tracking)
    PROVE  /\ tasks' \in [Slots -> Task]
           /\ tasks[t] = Idle
           /\ tasks'[t] = [op |-> o, at |-> "rpc", stops |-> deliberateStops,
                           attempt |-> 0, tracking |-> tracking]
           /\ \A u \in Slots : u # t => tasks'[u] = tasks[u]
  BY DEF Call, Task, Operations

LEMMA CallBegins ==
    ASSUME tasks \in [Slots -> Task], deliberateStops \in Nat, NEW t \in Slots,
           NEW o \in Operations, NEW tracking \in BOOLEAN, Call(t, o, tracking)
    PROVE  tasks'[t].at = "rpc" /\ \A u \in Slots : u # t => tasks'[u] = tasks[u]
<1>1. tasks'[t] = [op |-> o, at |-> "rpc", stops |-> deliberateStops,
                   attempt |-> 0, tracking |-> tracking]
  BY CallFacts
<1>2. \A u \in Slots : u # t => tasks'[u] = tasks[u]
  BY CallFacts
<1> QED
  BY <1>1, <1>2

LEMMA ReturnFacts ==
    ASSUME tasks \in [Slots -> Task], NEW t \in Slots, Return(t)
    PROVE  /\ tasks' \in [Slots -> Task]
           /\ tasks'[t] = Idle
           /\ \A u \in Slots : u # t => tasks'[u] = tasks[u]
  BY DEF Return, Task, Idle, Operations

LEMMA AwaitFacts ==
    ASSUME tasks \in [Slots -> Task], NEW t \in Slots, NEW at, Await(t, at),
           at \in {"fetch", "acked", "adopt", "sleep", "adoptUp", "probe"}
    PROVE  /\ tasks' \in [Slots -> Task]
           /\ tasks'[t].at = at /\ tasks'[t].op = tasks[t].op
           /\ tasks'[t].stops = tasks[t].stops /\ tasks'[t].tracking = tasks[t].tracking
           /\ \A u \in Slots : u # t => tasks'[u] = tasks[u]
<1> DEFINE new == [tasks[t] EXCEPT !.at = at]
<1>1. /\ new \in Task
      /\ new.at = at /\ new.op = tasks[t].op
      /\ new.stops = tasks[t].stops /\ new.tracking = tasks[t].tracking
  BY DEF Task
<1>2. tasks' = [tasks EXCEPT ![t] = new]
  BY DEF Await
<1> HIDE DEF new
<1> QED
  BY <1>1, <1>2

LEMMA QueueFacts ==
    ASSUME lifecycle \in Seq(Slots), NEW t \in Slots, Enqueue(t) \/ Dequeue(t)
    PROVE  lifecycle' \in Seq(Slots)
  BY DEF Enqueue, Dequeue

(* The parts of the type invariant.                                        *)

SnapOK ==
    /\ phase \in Phases
    /\ info \in Infos \cup {NoInfo}
    /\ balance \in BOOLEAN
    /\ error \in BOOLEAN
    /\ recovery \in {"idle", "restoring", "done", "failedUsable", "failedUnusable"}

TicksOK == syncTick \in BOOLEAN /\ restoreTick \in BOOLEAN

ReadsOK == chain \in 0..MaxChain /\ refreshFailures \in 0..RefreshLimit

CallsOK ==
    /\ restore \in Slots \cup {NoCall}
    /\ tasks \in [Slots -> Task]
    /\ lifecycle \in Seq(Slots)

StatusOK ==
    /\ deliberateStops \in 0..MaxStops
    /\ booted \in BOOLEAN
    /\ disposed \in BOOLEAN
    /\ wanted \in {"up", "down"}

LEMMA TypeParts ==
    TypeOK <=> SnapOK /\ ProcsOK /\ TicksOK /\ ReadsOK /\ CallsOK /\ StatusOK
  BY DEF TypeOK, SnapOK, ProcsOK, TicksOK, ReadsOK, CallsOK, StatusOK

(* Call() for the operations that track nothing.                           *)
LEMMA PlainCallFacts ==
    ASSUME tasks \in [Slots -> Task], deliberateStops \in Nat, NEW t \in Slots,
           NEW o \in Operations, Call(t, o, FALSE)
    PROVE  /\ tasks' \in [Slots -> Task]
           /\ tasks[t] = Idle
           /\ tasks'[t] = [op |-> o, at |-> "rpc", stops |-> deliberateStops,
                           attempt |-> 0, tracking |-> FALSE]
           /\ \A u \in Slots : u # t => tasks'[u] = tasks[u]
  BY DEF Call, Task, Operations

LEMMA AdoptNextFacts ==
    ASSUME tasks \in [Slots -> Task], NEW t \in Slots,
           tasks' = [tasks EXCEPT ![t].at = "adopt", ![t].attempt = @ + 1]
    PROVE  /\ tasks' \in [Slots -> Task]
           /\ tasks'[t].op = tasks[t].op /\ tasks'[t].at = "adopt"
           /\ \A u \in Slots : u # t => tasks'[u] = tasks[u]
<1> DEFINE new == [tasks[t] EXCEPT !.at = "adopt", !.attempt = @ + 1]
<1>1. new \in Task /\ new.op = tasks[t].op /\ new.at = "adopt"
  BY DEF Task
<1>2. tasks' = [tasks EXCEPT ![t] = new]
  OBVIOUS
<1> HIDE DEF new
<1> QED
  BY <1>1, <1>2

LEMMA FetchAllFacts ==
    ASSUME SnapOK, ProcsOK, NEW i \in Infos, FetchAll(i)
    PROVE  SnapOK' /\ ProcsOK'
<1>1. i \in WalletInfo
  BY ConstantsAssumption
<1>2. OnInfo(phase, i) \in Phases
  BY <1>1, OnInfoFacts DEF SnapOK
<1>3. CASE phase \in {"stopping", "stopped"}
  BY <1>3 DEF FetchAll, SnapOK, ProcsOK, snap, procs
<1>4. CASE phase \notin {"stopping", "stopped"}
  BY <1>2, <1>4, MoveFacts DEF FetchAll, SnapOK, Patch
<1> QED
  BY <1>3, <1>4

LEMMA DispatchFacts ==
    ASSUME SnapOK, ProcsOK, NEW e \in EventTypes, Dispatch(e)
    PROVE  phase' = Transition(phase, e) /\ phase' \in Phases /\ ProcsOK'
<1>1. Transition(phase, e) \in Phases
  BY TransitionFacts DEF SnapOK
<1> QED
  BY <1>1, MoveFacts DEF Dispatch

LEMMA InfoFacts ==
    ASSUME SnapOK, ProcsOK, NEW i \in Infos, Move(OnInfo(phase, i))
    PROVE  phase' = OnInfo(phase, i) /\ phase' \in Phases /\ ProcsOK'
<1>1. OnInfo(phase, i) \in Phases
  BY ConstantsAssumption, OnInfoFacts DEF SnapOK
<1> QED
  BY <1>1, MoveFacts

LEMMA KickFacts ==
    ASSUME chain \in 0..MaxChain, Kick
    PROVE  chain' \in 0..MaxChain
  BY ConstantsAssumption DEF Kick

LEMMA BeginStartFacts ==
    ASSUME SnapOK, ProcsOK, CallsOK, StatusOK, NEW t \in Slots, NEW p \in Phases, BeginStart(t, p)
    PROVE  /\ SnapOK' /\ ProcsOK' /\ refreshFailures' = 0 /\ wanted' = "up"
           /\ tasks' \in [Slots -> Task] /\ lifecycle' \in Seq(Slots)
           /\ phase' = Transition(p, "startRequested") /\ balance' = balance
           /\ recovery' = recovery
           /\ tasks[t] = Idle
           /\ Waits(t, "start", "rpc")' /\ tasks'[t].stops = deliberateStops
           /\ \A u \in Slots : u # t => tasks'[u] = tasks[u]
<1>1. Transition(p, "startRequested") \in Phases
  BY TransitionFacts DEF EventTypes
<1>2. phase' = Transition(p, "startRequested") /\ ProcsOK'
  BY <1>1, MoveFacts DEF BeginStart
<1>3. /\ tasks' \in [Slots -> Task]
      /\ tasks[t] = Idle
      /\ Waits(t, "start", "rpc")' /\ tasks'[t].stops = deliberateStops
      /\ \A u \in Slots : u # t => tasks'[u] = tasks[u]
  <2>1. deliberateStops \in Nat
    BY ConstantsAssumption DEF StatusOK
  <2>2. Call(t, "start", FALSE) /\ "start" \in Operations
    BY DEF BeginStart, Operations
  <2>3. tasks \in [Slots -> Task]
    BY DEF CallsOK
  <2>4. /\ tasks' \in [Slots -> Task]
        /\ tasks[t] = Idle
        /\ tasks'[t] = [op |-> "start", at |-> "rpc", stops |-> deliberateStops,
                        attempt |-> 0, tracking |-> FALSE]
        /\ \A u \in Slots : u # t => tasks'[u] = tasks[u]
    BY <2>1, <2>2, <2>3, PlainCallFacts
  <2> QED
    BY <2>4 DEF Waits
<1>4. lifecycle' \in Seq(Slots)
  BY QueueFacts DEF BeginStart, CallsOK
<1> QED
  BY <1>1, <1>2, <1>3, <1>4 DEF BeginStart, SnapOK, Patch

LEMMA RuntimeStoppedFacts ==
    ASSUME SnapOK, ProcsOK, RuntimeStopped
    PROVE  /\ SnapOK' /\ ProcsOK' /\ restore' = NoCall
           /\ phase' = Transition(phase, "runtimeStopped") /\ ~balance'
           /\ recovery' = recovery
  BY DispatchFacts DEF RuntimeStopped, SnapOK, Patch, EventTypes

-----------------------------------------------------------------------------
(* Type correctness.                                                       *)

LEMMA NextTypeOK ==
    ASSUME TypeOK, Next
    PROVE  TypeOK'
<1> USE ConstantsAssumption
<1>0. SnapOK /\ ProcsOK /\ TicksOK /\ ReadsOK /\ CallsOK /\ StatusOK /\ deliberateStops \in Nat
  BY TypeParts DEF StatusOK
<1> DEFINE Goal == SnapOK' /\ ProcsOK' /\ TicksOK' /\ ReadsOK' /\ CallsOK' /\ StatusOK'
<1> USE DEF SnapOK, ProcsOK, TicksOK, ReadsOK, CallsOK, StatusOK, Patch, snap, procs, ticks, reads, calls, status
<1>1. ASSUME NEW t \in Slots, Start(t) PROVE Goal
  BY <1>0, <1>1, BeginStartFacts DEF Start
<1>2. ASSUME NEW t \in Slots, Stop(t) PROVE Goal
  <2>1. SnapOK' /\ ProcsOK'
    BY <1>0, <1>2, PlainCallFacts, QueueFacts, DispatchFacts DEF Stop, EventTypes, Operations
  <2>2. CallsOK'
    BY <1>0, <1>2, PlainCallFacts, QueueFacts, DispatchFacts DEF Stop, EventTypes, Operations
  <2>3. TicksOK' /\ ReadsOK'
    BY <1>0, <1>2, PlainCallFacts, QueueFacts, DispatchFacts DEF Stop, EventTypes, Operations
  <2>4. StatusOK'
    BY <1>0, <1>2, PlainCallFacts, QueueFacts, DispatchFacts DEF Stop, EventTypes, Operations
  <2> QED
    BY <2>1, <2>2, <2>3, <2>4
<1>3. ASSUME NEW t \in Slots, Refresh(t) PROVE Goal
  <2>1. SnapOK' /\ ProcsOK'
    BY <1>0, <1>3, PlainCallFacts DEF Refresh, Operations
  <2>2. CallsOK'
    BY <1>0, <1>3, PlainCallFacts DEF Refresh, Operations
  <2>3. TicksOK' /\ ReadsOK'
    BY <1>0, <1>3, PlainCallFacts DEF Refresh, Operations
  <2>4. StatusOK'
    BY <1>0, <1>3, PlainCallFacts DEF Refresh, Operations
  <2> QED
    BY <2>1, <2>2, <2>3, <2>4
<1>4. ASSUME NEW t \in Slots, Pay(t) PROVE Goal
  <2>1. SnapOK' /\ ProcsOK'
    BY <1>0, <1>4, PlainCallFacts DEF Pay, Operations
  <2>2. CallsOK'
    BY <1>0, <1>4, PlainCallFacts DEF Pay, Operations
  <2>3. TicksOK' /\ ReadsOK'
    BY <1>0, <1>4, PlainCallFacts DEF Pay, Operations
  <2>4. StatusOK'
    BY <1>0, <1>4, PlainCallFacts DEF Pay, Operations
  <2> QED
    BY <2>1, <2>2, <2>3, <2>4
<1>5. ASSUME NEW t \in Slots, Wallet(t) PROVE Goal
  <2>1. SnapOK' /\ ProcsOK'
    BY <1>0, <1>5, PlainCallFacts DEF Wallet, Operations
  <2>2. CallsOK'
    BY <1>0, <1>5, PlainCallFacts DEF Wallet, Operations
  <2>3. TicksOK' /\ ReadsOK'
    BY <1>0, <1>5, PlainCallFacts DEF Wallet, Operations
  <2>4. StatusOK'
    BY <1>0, <1>5, PlainCallFacts DEF Wallet, Operations
  <2> QED
    BY <2>1, <2>2, <2>3, <2>4
<1>6. ASSUME NEW t \in Slots, RestoreWallet(t) PROVE Goal
  BY <1>0, <1>6, CallFacts, DispatchFacts DEF RestoreWallet, EventTypes, Operations
<1>7. ASSUME NEW t \in Slots, StopCompletes(t) PROVE Goal
  BY <1>0, <1>7, ReturnFacts, DispatchFacts DEF StopCompletes, EventTypes
<1>8. ASSUME Acknowledge PROVE Goal
  BY <1>0, <1>8 DEF Acknowledge
<1>9. ASSUME Dispose PROVE Goal
  BY <1>0, <1>9 DEF Dispose
<1>10. ASSUME NEW t \in Slots, StartResolves(t) PROVE Goal
  BY <1>0, <1>10, ReturnFacts, AwaitFacts, QueueFacts, InfoFacts DEF StartResolves
<1>11. ASSUME NEW t \in Slots, StartRejects(t) PROVE Goal
  <2>1. SnapOK' /\ ProcsOK'
    <3>1. CASE Overtaken(t)
      BY <1>0, <1>11, <3>1, ReturnFacts, QueueFacts, DispatchFacts DEF StartRejects, EventTypes
    <3>2. CASE ~Overtaken(t)
      BY <1>0, <1>11, <3>2, ReturnFacts, QueueFacts, DispatchFacts DEF StartRejects, EventTypes
    <3> QED
      BY <3>1, <3>2
  <2>2. CallsOK'
    BY <1>0, <1>11, ReturnFacts, QueueFacts, DispatchFacts DEF StartRejects, EventTypes
  <2>3. TicksOK' /\ ReadsOK'
    BY <1>0, <1>11, ReturnFacts, QueueFacts, DispatchFacts DEF StartRejects, EventTypes
  <2>4. StatusOK'
    BY <1>0, <1>11, ReturnFacts, QueueFacts, DispatchFacts DEF StartRejects, EventTypes
  <2> QED
    BY <2>1, <2>2, <2>3, <2>4
<1>12. ASSUME NEW t \in Slots, StopAcknowledged(t) PROVE Goal
  BY <1>0, <1>12, AwaitFacts, QueueFacts, RuntimeStoppedFacts DEF StopAcknowledged
<1>13. ASSUME NEW t \in Slots, StopRejects(t) PROVE Goal
  BY <1>0, <1>13, ReturnFacts, QueueFacts, DispatchFacts DEF StopRejects, EventTypes
<1>14. ASSUME NEW t \in Slots, ForegroundRead(t) PROVE Goal
  BY <1>0, <1>14, ReturnFacts, FetchAllFacts DEF ForegroundRead
<1>15. ASSUME NEW t \in Slots, PayResolves(t) PROVE Goal
  BY <1>0, <1>15, ReturnFacts, KickFacts DEF PayResolves
<1>16. ASSUME NEW t \in Slots, CallRejects(t) PROVE Goal
  BY <1>0, <1>16, ReturnFacts DEF CallRejects
<1>17. ASSUME NEW t \in Slots, AdoptNext(t) PROVE Goal
  <2>1. SnapOK' /\ ProcsOK'
    BY <1>0, <1>17, ReturnFacts, KickFacts, AdoptNextFacts DEF AdoptNext
  <2>2. CallsOK'
    BY <1>0, <1>17, ReturnFacts, KickFacts, AdoptNextFacts DEF AdoptNext
  <2>3. TicksOK' /\ ReadsOK'
    BY <1>0, <1>17, ReturnFacts, KickFacts, AdoptNextFacts DEF AdoptNext
  <2>4. StatusOK'
    BY <1>0, <1>17, ReturnFacts, KickFacts, AdoptNextFacts DEF AdoptNext
  <2> QED
    BY <2>1, <2>2, <2>3, <2>4
<1>18. ASSUME NEW t \in Slots, Adopts(t) PROVE Goal
  BY <1>0, <1>18, ReturnFacts, KickFacts, InfoFacts DEF Adopts
<1>19. ASSUME NEW t \in Slots, AdoptFails(t) PROVE Goal
  <2>1. SnapOK' /\ ProcsOK'
    <3>1. CASE tasks[t].attempt < AdoptRetries
      BY <1>0, <1>19, <3>1, ReturnFacts, AwaitFacts, KickFacts, DispatchFacts DEF AdoptFails, EventTypes
    <3>2. CASE ~(tasks[t].attempt < AdoptRetries) /\ disposed
      BY <1>0, <1>19, <3>2, ReturnFacts, AwaitFacts, KickFacts, DispatchFacts DEF AdoptFails, EventTypes
    <3>3. CASE ~(tasks[t].attempt < AdoptRetries) /\ ~disposed
      BY <1>0, <1>19, <3>3, ReturnFacts, AwaitFacts, KickFacts, DispatchFacts DEF AdoptFails, EventTypes
    <3> QED
      BY <3>1, <3>2, <3>3
  <2>2. CallsOK'
    BY <1>0, <1>19, ReturnFacts, AwaitFacts, KickFacts, DispatchFacts DEF AdoptFails, EventTypes
  <2>3. TicksOK' /\ ReadsOK'
    BY <1>0, <1>19, ReturnFacts, AwaitFacts, KickFacts, DispatchFacts DEF AdoptFails, EventTypes
  <2>4. StatusOK'
    BY <1>0, <1>19, ReturnFacts, AwaitFacts, KickFacts, DispatchFacts DEF AdoptFails, EventTypes
  <2> QED
    BY <2>1, <2>2, <2>3, <2>4
<1>20. ASSUME NEW t \in Slots, RestoreResolves(t) PROVE Goal
  BY <1>0, <1>20, ReturnFacts, AwaitFacts DEF RestoreResolves
<1>21. ASSUME NEW t \in Slots, RestoreAdopts(t) PROVE Goal
  BY <1>0, <1>21, ReturnFacts, KickFacts, DispatchFacts DEF RestoreAdopts, EventTypes
<1>22. ASSUME NEW t \in Slots, RestoreRejects(t) PROVE Goal
  BY <1>0, <1>22, ReturnFacts, AwaitFacts DEF RestoreRejects
<1>23. ASSUME NEW t \in Slots, ProbeFindsWallet(t) PROVE Goal
  BY <1>0, <1>23, ReturnFacts, KickFacts, DispatchFacts DEF ProbeFindsWallet, EventTypes
<1>24. ASSUME NEW t \in Slots, ProbeFindsNone(t) PROVE Goal
  BY <1>0, <1>24, ReturnFacts, DispatchFacts DEF ProbeFindsNone, EventTypes
<1>25. ASSUME Reconcile PROVE Goal
  BY <1>0, <1>25, KickFacts DEF Reconcile
<1>26. ASSUME StreamDies PROVE Goal
  <2>1. SnapOK' /\ ProcsOK'
    <3>1. CASE phase = "ready"
      BY <1>0, <1>26, <3>1, DispatchFacts DEF StreamDies, EventTypes
    <3>2. CASE phase # "ready"
      BY <1>0, <1>26, <3>2, DispatchFacts DEF StreamDies, EventTypes
    <3> QED
      BY <3>1, <3>2
  <2>2. CallsOK'
    BY <1>0, <1>26, DispatchFacts DEF StreamDies, EventTypes
  <2>3. TicksOK' /\ ReadsOK'
    BY <1>0, <1>26, DispatchFacts DEF StreamDies, EventTypes
  <2>4. StatusOK'
    BY <1>0, <1>26, DispatchFacts DEF StreamDies, EventTypes
  <2> QED
    BY <2>1, <2>2, <2>3, <2>4
<1>27. ASSUME BackgroundReads PROVE Goal
  BY <1>0, <1>27, FetchAllFacts DEF BackgroundReads
<1>28. ASSUME BackgroundFails PROVE Goal
  <2>1. SnapOK' /\ ProcsOK'
    <3>1. CASE refreshFailures' >= RefreshLimit /\ phase = "ready"
      BY <1>0, <1>28, <3>1, DispatchFacts DEF BackgroundFails, EventTypes
    <3>2. CASE ~(refreshFailures' >= RefreshLimit /\ phase = "ready")
      BY <1>0, <1>28, <3>2, DispatchFacts DEF BackgroundFails, EventTypes
    <3> QED
      BY <3>1, <3>2
  <2>2. CallsOK'
    BY <1>0, <1>28, DispatchFacts DEF BackgroundFails, EventTypes
  <2>3. TicksOK' /\ ReadsOK'
    BY <1>0, <1>28, DispatchFacts DEF BackgroundFails, EventTypes
  <2>4. StatusOK'
    BY <1>0, <1>28, DispatchFacts DEF BackgroundFails, EventTypes
  <2> QED
    BY <2>1, <2>2, <2>3, <2>4
<1>29. ASSUME SyncTick PROVE Goal
  BY <1>0, <1>29 DEF SyncTick
<1>30. ASSUME SyncReads PROVE Goal
  BY <1>0, <1>30, FetchAllFacts DEF SyncReads
<1>31. ASSUME SyncFails PROVE Goal
  <2>1. SnapOK' /\ ProcsOK'
    <3>1. CASE UNCHANGED <<phase, procs, snap>>
      BY <1>0, <1>31, <3>1, DispatchFacts DEF SyncFails, EventTypes
    <3>2. CASE phase = "syncing" /\ Dispatch("syncPollExhausted") /\ Patch(info, balance, TRUE, recovery)
      BY <1>0, <1>31, <3>2, DispatchFacts DEF SyncFails, EventTypes
    <3>3. CASE phase # "syncing" /\ syncOn' = FALSE /\ UNCHANGED <<phase, streamOn, restoreOn, snap>>
      BY <1>0, <1>31, <3>3, DispatchFacts DEF SyncFails, EventTypes
    <3> QED
      BY <1>31, <3>1, <3>2, <3>3 DEF SyncFails, EventTypes
  <2>2. CallsOK'
    BY <1>0, <1>31, DispatchFacts DEF SyncFails, EventTypes
  <2>3. TicksOK' /\ ReadsOK'
    BY <1>0, <1>31, DispatchFacts DEF SyncFails, EventTypes
  <2>4. StatusOK'
    BY <1>0, <1>31, DispatchFacts DEF SyncFails, EventTypes
  <2> QED
    BY <2>1, <2>2, <2>3, <2>4
<1>32. ASSUME RestoreTick PROVE Goal
  BY <1>0, <1>32 DEF RestoreTick
<1>33. ASSUME RestoreTickFindsWallet PROVE Goal
  BY <1>0, <1>33, KickFacts, DispatchFacts DEF RestoreTickFindsWallet, EventTypes
<1>34. ASSUME RestoreTickFindsNone PROVE Goal
  <2>1. SnapOK' /\ ProcsOK'
    BY <1>0, <1>34 DEF RestoreTickFindsNone
  <2>2. CallsOK'
    BY <1>0, <1>34 DEF RestoreTickFindsNone
  <2>3. TicksOK' /\ ReadsOK'
    BY <1>0, <1>34 DEF RestoreTickFindsNone
  <2>4. StatusOK'
    BY <1>0, <1>34 DEF RestoreTickFindsNone
  <2> QED
    BY <2>1, <2>2, <2>3, <2>4
<1>35. ASSUME ClientReady PROVE Goal
  BY <1>0, <1>35, BeginStartFacts, MoveFacts, TransitionFacts DEF ClientReady, EventTypes
<1>36. ASSUME ClientFails PROVE Goal
  <2>1. SnapOK' /\ ProcsOK'
    <3>1. CASE disposed
      BY <1>0, <1>36, <3>1, DispatchFacts DEF ClientFails, EventTypes
    <3>2. CASE ~disposed
      BY <1>0, <1>36, <3>2, DispatchFacts DEF ClientFails, EventTypes
    <3> QED
      BY <3>1, <3>2
  <2>2. CallsOK'
    BY <1>0, <1>36, DispatchFacts DEF ClientFails, EventTypes
  <2>3. TicksOK' /\ ReadsOK'
    BY <1>0, <1>36, DispatchFacts DEF ClientFails, EventTypes
  <2>4. StatusOK'
    BY <1>0, <1>36, DispatchFacts DEF ClientFails, EventTypes
  <2> QED
    BY <2>1, <2>2, <2>3, <2>4
<1>37. ASSUME RuntimeAnnounced PROVE Goal
  BY <1>0, <1>37, DispatchFacts DEF RuntimeAnnounced, EventTypes
<1>38. ASSUME RuntimeDies PROVE Goal
  BY <1>0, <1>38, RuntimeStoppedFacts DEF RuntimeDies
<1> HIDE DEF Goal
<1>a. ASSUME NEW t \in Slots, HostStep(t) PROVE Goal
  BY <1>a, <1>1, <1>2, <1>3, <1>4, <1>5, <1>6 DEF HostStep
<1>b. ASSUME NEW t \in Slots, Settle(t) PROVE Goal
  BY <1>b, <1>10, <1>11, <1>12, <1>13, <1>14, <1>15, <1>16, <1>17, <1>18, <1>19, <1>20, <1>21, <1>22, <1>23, <1>24 DEF Settle
<1>c. ASSUME Background PROVE Goal
  BY <1>c, <1>25, <1>26, <1>27, <1>28, <1>29, <1>30, <1>31, <1>32, <1>33, <1>34 DEF Background
<1>d. ASSUME NEW t \in Slots, StopCompletes(t) PROVE Goal
  BY <1>d, <1>7
<1>e. ASSUME ClientReady \/ ClientFails \/ RuntimeAnnounced \/ RuntimeDies PROVE Goal
  BY <1>e, <1>35, <1>36, <1>37, <1>38
<1>f. ASSUME Acknowledge \/ Dispose PROVE Goal
  BY <1>f, <1>8, <1>9
<1>g. Goal
  BY <1>a, <1>b, <1>c, <1>d, <1>e, <1>f DEF Next
<1> QED
  BY <1>g DEF Goal, TypeOK

-----------------------------------------------------------------------------
(* What a step does to the phase, the funds and the host's last word.      *)

StopsKept == UNCHANGED <<deliberateStops, wanted>>

Kept == phase' = phase /\ balance' = balance /\ StopsKept

(* An event that neither starts nor stops the runtime.                     *)
PlainEvents == EventTypes \ {"startRequested", "stopRequested", "runtimeStopped", "stopCompleted"}

EventStep ==
    \E e \in PlainEvents : phase' = Transition(phase, e) /\ balance' = balance /\ StopsKept

InfoStep ==
    /\ \E i \in WalletInfo : phase' = OnInfo(phase, i)
    /\ phase = "stopped" => balance' = balance
    /\ StopsKept

DownStep ==
    /\ \E e \in {"runtimeStopped", "stopCompleted"} : phase' = Transition(phase, e)
    /\ ~balance'
    /\ StopsKept

StartStep ==
    /\ \E t \in Slots, p \in Phases \ {"stopping"} : BeginStart(t, p)
    /\ UNCHANGED deliberateStops

StopStep == \E t \in Slots : Stop(t)

PhaseStep == Kept \/ EventStep \/ InfoStep \/ DownStep \/ StartStep \/ StopStep

(* Every step is one of these.                                            *)
LEMMA NextPhase ==
    ASSUME TypeOK, Next
    PROVE  PhaseStep
<1> USE ConstantsAssumption
<1>0. SnapOK /\ CallsOK
  BY TypeParts
<1>1. ASSUME \/ (\E t \in Slots : Refresh(t)) \/ (\E t \in Slots : Pay(t))
             \/ (\E t \in Slots : Wallet(t)) \/ Acknowledge \/ Dispose
      PROVE  PhaseStep
  BY <1>0, <1>1 DEF Refresh, Pay, Wallet, Acknowledge, Dispose, Kept, PhaseStep, StopsKept, snap, status
<1>2. ASSUME \/ (\E t \in Slots : PayResolves(t))
             \/ (\E t \in Slots : CallRejects(t))
             \/ (\E t \in Slots : AdoptNext(t))
             \/ (\E t \in Slots : RestoreResolves(t))
             \/ (\E t \in Slots : RestoreRejects(t))
      PROVE  PhaseStep
  BY <1>0, <1>2 DEF PayResolves, CallRejects, AdoptNext, RestoreResolves, RestoreRejects, Kept, PhaseStep, StopsKept, snap, status
<1>3. ASSUME \/ Reconcile \/ SyncTick \/ RestoreTick \/ RestoreTickFindsNone
      PROVE  PhaseStep
  BY <1>0, <1>3 DEF Reconcile, SyncTick, RestoreTick, RestoreTickFindsNone, Kept, PhaseStep, StopsKept, snap, status
<1>4. ASSUME (\E t \in Slots : Stop(t))
      PROVE  PhaseStep
  BY <1>0, <1>4 DEF Stop, StopStep, PhaseStep
<1>5. ASSUME (\E t \in Slots : Start(t))
      PROVE  PhaseStep
  BY <1>0, <1>5 DEF Start, StartStep, PhaseStep, SnapOK, ticks
<1>6. ASSUME ClientReady
      PROVE  PhaseStep
  BY <1>0, <1>6, TransitionFacts DEF ClientReady, Kept, EventStep, PlainEvents, EventTypes, StopsKept, StartStep, PhaseStep, Move, snap, status, SnapOK
<1>7. ASSUME \/ (\E t \in Slots : StopCompletes(t)) \/ RuntimeDies
             \/ (\E t \in Slots : StopAcknowledged(t))
      PROVE  PhaseStep
  BY <1>0, <1>7 DEF StopCompletes, RuntimeDies, StopAcknowledged, DownStep, Kept, PhaseStep, StopsKept, RuntimeStopped, Dispatch, Move, Patch, snap, status
<1>8. ASSUME \/ (\E t \in Slots : StartResolves(t))
             \/ (\E t \in Slots : Adopts(t))
      PROVE  PhaseStep
  BY <1>0, <1>8 DEF StartResolves, Adopts, InfoStep, Kept, PhaseStep, StopsKept, Move, Patch, snap, status
<1>9. ASSUME \/ (\E t \in Slots : ForegroundRead(t)) \/ BackgroundReads
             \/ SyncReads
      PROVE  PhaseStep
  BY <1>0, <1>9 DEF ForegroundRead, BackgroundReads, SyncReads, InfoStep, Kept, PhaseStep, StopsKept, FetchAll, Move, Patch, snap, status
<1>10. ASSUME \/ (\E t \in Slots : RestoreWallet(t))
              \/ (\E t \in Slots : RestoreAdopts(t))
       PROVE  PhaseStep
  BY <1>0, <1>10 DEF RestoreWallet, RestoreAdopts, EventStep, PlainEvents, EventTypes, PhaseStep, StopsKept, Dispatch, Move, Patch, status
<1>11. ASSUME \/ (\E t \in Slots : StartRejects(t))
              \/ (\E t \in Slots : StopRejects(t))
              \/ (\E t \in Slots : AdoptFails(t))
       PROVE  PhaseStep
  BY <1>0, <1>11 DEF StartRejects, StopRejects, AdoptFails, EventStep, Kept, PlainEvents, EventTypes, PhaseStep, StopsKept, Dispatch, Move, Patch, snap, status
<1>12. ASSUME \/ (\E t \in Slots : ProbeFindsWallet(t))
              \/ (\E t \in Slots : ProbeFindsNone(t))
              \/ RestoreTickFindsWallet
       PROVE  PhaseStep
  BY <1>0, <1>12 DEF ProbeFindsWallet, ProbeFindsNone, RestoreTickFindsWallet, EventStep, PlainEvents, EventTypes, PhaseStep, StopsKept, Dispatch, Move, Patch, status
<1>13. ASSUME \/ StreamDies \/ BackgroundFails \/ SyncFails
       PROVE  PhaseStep
  BY <1>0, <1>13 DEF StreamDies, BackgroundFails, SyncFails, EventStep, Kept, PlainEvents, EventTypes, PhaseStep, StopsKept, Dispatch, Move, Patch, snap, status
<1>14. ASSUME \/ ClientFails \/ RuntimeAnnounced
       PROVE  PhaseStep
  BY <1>0, <1>14 DEF ClientFails, RuntimeAnnounced, EventStep, Kept, PlainEvents, EventTypes, PhaseStep, StopsKept, Dispatch, Move, Patch, snap, status
<1>a. ASSUME NEW t \in Slots, HostStep(t) PROVE PhaseStep
  BY <1>a, <1>1, <1>4, <1>5, <1>10 DEF HostStep
<1>b. ASSUME NEW t \in Slots, Settle(t) PROVE PhaseStep
  BY <1>b, <1>2, <1>7, <1>8, <1>9, <1>10, <1>11, <1>12 DEF Settle
<1>c. ASSUME Background PROVE PhaseStep
  BY <1>c, <1>3, <1>9, <1>12, <1>13 DEF Background
<1> QED
  BY <1>a, <1>b, <1>c, <1>1, <1>6, <1>7, <1>14 DEF Next

(* What it does to the background processes.                               *)
LEMMA NextProcs ==
    ASSUME TypeOK, ProcessOwnership, Next
    PROVE  disposed' \/ Move(phase')
<1>0. ProcsOK /\ StatusOK
  BY TypeParts
<1>1. ASSUME \/ (\E t \in Slots : Refresh(t)) \/ (\E t \in Slots : Pay(t))
             \/ (\E t \in Slots : Wallet(t)) \/ Acknowledge \/ Dispose
      PROVE  disposed' \/ Move(phase')
  BY <1>0, <1>1 DEF Refresh, Pay, Wallet, Acknowledge, Dispose, Move, status
<1>2. ASSUME \/ (\E t \in Slots : PayResolves(t))
             \/ (\E t \in Slots : CallRejects(t))
             \/ (\E t \in Slots : AdoptNext(t))
             \/ (\E t \in Slots : RestoreResolves(t))
             \/ (\E t \in Slots : RestoreRejects(t))
      PROVE  disposed' \/ Move(phase')
  BY <1>0, <1>2 DEF PayResolves, CallRejects, AdoptNext, RestoreResolves, RestoreRejects, Move
<1>3. ASSUME \/ Reconcile \/ SyncTick \/ RestoreTick \/ RestoreTickFindsNone
      PROVE  disposed' \/ Move(phase')
  BY <1>0, <1>3 DEF Reconcile, SyncTick, RestoreTick, RestoreTickFindsNone, Move
<1>4. ASSUME \/ (\E t \in Slots : Start(t)) \/ (\E t \in Slots : Stop(t))
      PROVE  disposed' \/ Move(phase')
  BY <1>0, <1>4 DEF Start, Stop, BeginStart, Dispatch, Move
<1>5. ASSUME ClientReady
      PROVE  disposed' \/ Move(phase')
  BY <1>0, <1>5 DEF ClientReady, BeginStart, Move
<1>6. ASSUME \/ (\E t \in Slots : StopCompletes(t)) \/ RuntimeDies
             \/ (\E t \in Slots : StopAcknowledged(t))
      PROVE  disposed' \/ Move(phase')
  BY <1>0, <1>6 DEF StopCompletes, RuntimeDies, StopAcknowledged, RuntimeStopped, Dispatch, Move
<1>7. ASSUME \/ (\E t \in Slots : StartResolves(t))
             \/ (\E t \in Slots : Adopts(t))
      PROVE  disposed' \/ Move(phase')
  BY <1>0, <1>7 DEF StartResolves, Adopts, Move
<1>8. ASSUME \/ (\E t \in Slots : ForegroundRead(t)) \/ BackgroundReads
             \/ SyncReads
      PROVE  disposed' \/ Move(phase')
  BY <1>0, <1>8 DEF ForegroundRead, BackgroundReads, SyncReads, FetchAll, Move
<1>9. ASSUME \/ (\E t \in Slots : RestoreWallet(t))
             \/ (\E t \in Slots : RestoreAdopts(t))
      PROVE  disposed' \/ Move(phase')
  BY <1>0, <1>9 DEF RestoreWallet, RestoreAdopts, Dispatch, Move
<1>10. ASSUME \/ (\E t \in Slots : StartRejects(t))
              \/ (\E t \in Slots : StopRejects(t))
              \/ (\E t \in Slots : AdoptFails(t))
       PROVE  disposed' \/ Move(phase')
  BY <1>0, <1>10 DEF StartRejects, StopRejects, AdoptFails, Dispatch, Move
<1>11. ASSUME \/ (\E t \in Slots : ProbeFindsWallet(t))
              \/ (\E t \in Slots : ProbeFindsNone(t))
              \/ RestoreTickFindsWallet
       PROVE  disposed' \/ Move(phase')
  BY <1>0, <1>11 DEF ProbeFindsWallet, ProbeFindsNone, RestoreTickFindsWallet, Dispatch, Move
<1>12. ASSUME \/ StreamDies \/ BackgroundFails \/ SyncFails
       PROVE  disposed' \/ Move(phase')
  BY <1>0, <1>12 DEF StreamDies, BackgroundFails, SyncFails, ProcessOwnership, Dispatch, Move, status, procs, StatusOK, ProcsOK
<1>13. ASSUME \/ ClientFails \/ RuntimeAnnounced
       PROVE  disposed' \/ Move(phase')
  BY <1>0, <1>13 DEF ClientFails, RuntimeAnnounced, Dispatch, Move
<1>a. ASSUME NEW t \in Slots, HostStep(t) PROVE disposed' \/ Move(phase')
  BY <1>a, <1>1, <1>4, <1>9 DEF HostStep
<1>b. ASSUME NEW t \in Slots, Settle(t) PROVE disposed' \/ Move(phase')
  BY <1>b, <1>2, <1>6, <1>7, <1>8, <1>9, <1>10, <1>11 DEF Settle
<1>c. ASSUME Background PROVE disposed' \/ Move(phase')
  BY <1>c, <1>3, <1>8, <1>11, <1>12 DEF Background
<1> QED
  BY <1>a, <1>b, <1>c, <1>1, <1>5, <1>6, <1>13 DEF Next

-----------------------------------------------------------------------------
(* A call in flight is touched by its own steps only.                      *)
Touched(u) == tasks'[u] = tasks[u] \/ tasks[u] = Idle \/ Settle(u) \/ StopCompletes(u)

LEMMA NextTasks ==
    ASSUME TypeOK, Next, NEW u \in Slots
    PROVE  Touched(u)
<1>0. CallsOK /\ StatusOK /\ SnapOK /\ ProcsOK /\ tasks \in [Slots -> Task] /\ deliberateStops \in Nat
  BY TypeParts, ConstantsAssumption DEF StatusOK, CallsOK
<1>1. ASSUME NEW t \in Slots, HostStep(t) PROVE Touched(u)
  <2>1. \E o \in Operations, tracking \in BOOLEAN : Call(t, o, tracking)
    BY <1>1 DEF HostStep, Start, BeginStart, Stop, Refresh, Pay, Wallet, RestoreWallet, Operations
  <2> QED
    BY <1>0, <2>1 DEF Call, Touched
<1>2. ASSUME NEW t \in Slots, Settle(t) PROVE Touched(u)
  <2>1. CASE t = u
    BY <1>2, <2>1 DEF Touched
  <2>2. CASE t # u
    <3>1. tasks'[u] = tasks[u]
      BY <1>0, <1>2, <2>2 DEF Settle, StartResolves, StartRejects, StopAcknowledged, StopRejects,
         ForegroundRead, PayResolves, CallRejects, AdoptNext, Adopts, AdoptFails, RestoreResolves,
         RestoreAdopts, RestoreRejects, ProbeFindsWallet, ProbeFindsNone, Await, Return
    <3> QED
      BY <3>1 DEF Touched
  <2> QED
    BY <2>1, <2>2
<1>3. ASSUME NEW t \in Slots, StopCompletes(t) PROVE Touched(u)
  BY <1>0, <1>3 DEF StopCompletes, Return, Touched
<1>4. ASSUME Background \/ Acknowledge \/ Dispose \/ ClientFails \/ RuntimeAnnounced \/ RuntimeDies
      PROVE  Touched(u)
  <2>1. UNCHANGED tasks
    BY <1>4 DEF Background, Acknowledge, Dispose, ClientFails, RuntimeAnnounced, RuntimeDies,
       Reconcile, StreamDies, BackgroundReads, BackgroundFails, SyncTick, SyncReads, SyncFails,
       RestoreTick, RestoreTickFindsWallet, RestoreTickFindsNone, calls
  <2> QED
    BY <2>1 DEF Touched
<1>5. ASSUME ClientReady PROVE Touched(u)
  BY <1>0, <1>5 DEF ClientReady, BeginStart, Call, Touched, calls
<1> QED
  BY <1>1, <1>2, <1>3, <1>4, <1>5 DEF Next

-----------------------------------------------------------------------------
(* What a step does to the restore and to its recovery scan.               *)
RestoreStep ==
    \/ \E t \in Slots : RestoreWallet(t)
    \/ /\ restore' \in {restore, NoCall}
       /\ recovery' = recovery \/ recovery' # "restoring"
       /\ disposed' = disposed \/ Dispose

LEMMA NextRestore ==
    ASSUME TypeOK, Next
    PROVE  RestoreStep
<1>0. SnapOK
  BY TypeParts
<1>1. ASSUME \/ (\E t \in Slots : Refresh(t)) \/ (\E t \in Slots : Pay(t))
             \/ (\E t \in Slots : Wallet(t)) \/ Acknowledge \/ Dispose
      PROVE  RestoreStep
  BY <1>0, <1>1 DEF Refresh, Pay, Wallet, Acknowledge, Dispose, RestoreStep, calls, snap, status
<1>2. ASSUME \/ (\E t \in Slots : PayResolves(t))
             \/ (\E t \in Slots : CallRejects(t))
             \/ (\E t \in Slots : AdoptNext(t))
             \/ (\E t \in Slots : RestoreResolves(t))
             \/ (\E t \in Slots : RestoreRejects(t))
      PROVE  RestoreStep
  BY <1>0, <1>2 DEF PayResolves, CallRejects, AdoptNext, RestoreResolves, RestoreRejects, RestoreStep, snap, status
<1>3. ASSUME \/ Reconcile \/ SyncTick \/ RestoreTick \/ RestoreTickFindsNone
      PROVE  RestoreStep
  BY <1>0, <1>3 DEF Reconcile, SyncTick, RestoreTick, RestoreTickFindsNone, RestoreStep, calls, snap, status
<1>4. ASSUME \/ (\E t \in Slots : Start(t)) \/ (\E t \in Slots : Stop(t))
      PROVE  RestoreStep
  BY <1>0, <1>4 DEF Start, Stop, BeginStart, Patch, RestoreStep, snap, status
<1>5. ASSUME ClientReady
      PROVE  RestoreStep
  BY <1>0, <1>5 DEF ClientReady, BeginStart, Patch, RestoreStep, calls, snap
<1>6. ASSUME \/ (\E t \in Slots : StopCompletes(t)) \/ RuntimeDies
             \/ (\E t \in Slots : StopAcknowledged(t))
      PROVE  RestoreStep
  BY <1>0, <1>6 DEF StopCompletes, RuntimeDies, StopAcknowledged, RuntimeStopped, Patch, RestoreStep, snap, status
<1>7. ASSUME \/ (\E t \in Slots : StartResolves(t))
             \/ (\E t \in Slots : Adopts(t))
      PROVE  RestoreStep
  BY <1>0, <1>7 DEF StartResolves, Adopts, Patch, RestoreStep, snap, status
<1>8. ASSUME \/ (\E t \in Slots : ForegroundRead(t)) \/ BackgroundReads
             \/ SyncReads
      PROVE  RestoreStep
  BY <1>0, <1>8 DEF ForegroundRead, BackgroundReads, SyncReads, FetchAll, Patch, RestoreStep, calls, snap, status
<1>9. ASSUME (\E t \in Slots : RestoreWallet(t))
      PROVE  RestoreStep
  BY <1>0, <1>9 DEF RestoreWallet, RestoreStep
<1>10. ASSUME \/ (\E t \in Slots : RestoreAdopts(t))
              \/ (\E t \in Slots : StartRejects(t))
              \/ (\E t \in Slots : StopRejects(t))
              \/ (\E t \in Slots : AdoptFails(t))
       PROVE  RestoreStep
  BY <1>0, <1>10 DEF RestoreAdopts, StartRejects, StopRejects, AdoptFails, Patch, RestoreStep, snap, status
<1>11. ASSUME \/ (\E t \in Slots : ProbeFindsWallet(t))
              \/ (\E t \in Slots : ProbeFindsNone(t))
              \/ RestoreTickFindsWallet
       PROVE  RestoreStep
  BY <1>0, <1>11 DEF ProbeFindsWallet, ProbeFindsNone, RestoreTickFindsWallet, Patch, RestoreStep, status
<1>12. ASSUME \/ StreamDies \/ BackgroundFails \/ SyncFails
       PROVE  RestoreStep
  BY <1>0, <1>12 DEF StreamDies, BackgroundFails, SyncFails, Patch, RestoreStep, calls, snap, status
<1>13. ASSUME \/ ClientFails \/ RuntimeAnnounced
       PROVE  RestoreStep
  BY <1>0, <1>13 DEF ClientFails, RuntimeAnnounced, Patch, RestoreStep, calls, snap, status
<1>a. ASSUME NEW t \in Slots, HostStep(t) PROVE RestoreStep
  BY <1>a, <1>1, <1>4, <1>9 DEF HostStep
<1>b. ASSUME NEW t \in Slots, Settle(t) PROVE RestoreStep
  BY <1>b, <1>2, <1>6, <1>7, <1>8, <1>10, <1>11 DEF Settle
<1>c. ASSUME Background PROVE RestoreStep
  BY <1>c, <1>3, <1>8, <1>11, <1>12 DEF Background
<1> QED
  BY <1>a, <1>b, <1>c, <1>1, <1>5, <1>6, <1>13 DEF Next

(* An acknowledged stop that has not completed yet found no live wallet,   *)
(* and nothing but a call of the host comes before its completion.         *)
AckedIsDown == \A u \in Slots : tasks[u].at = "acked" => phase \notin LivePhases \/ disposed

LEMMA DownFacts ==
    ASSUME NEW p \in Phases \ LivePhases
    PROVE  \A e \in {"runtimeReady", "startRequested", "restoreRequested", "stopRequested",
                     "runtimeStopped", "stopCompleted"} : Transition(p, e) \notin LivePhases
  BY DEF Transition, Accepts, Target, Phases, LivePhases, WalletPhases, RuntimePhases

LEMMA NextAcked ==
    ASSUME TypeOK, AckedIsDown, Next
    PROVE  AckedIsDown'
<1> SUFFICES ASSUME NEW u \in Slots, tasks'[u].at = "acked", ~disposed'
             PROVE  phase' \notin LivePhases
  BY DEF AckedIsDown
<1>0. CallsOK /\ StatusOK /\ SnapOK /\ tasks \in [Slots -> Task] /\ deliberateStops \in Nat
  BY TypeParts, ConstantsAssumption DEF StatusOK, CallsOK
<1>1. CASE \E t \in Slots : StopAcknowledged(t)
  <2>1. RuntimeStopped => phase' \notin LivePhases
    BY <1>0, EventFacts DEF RuntimeStopped, Dispatch, Move, SnapOK, LivePhases, WalletPhases
  <2> QED
    BY <1>1, <2>1 DEF StopAcknowledged, status, snap
<1>2. CASE tasks[u].at = "acked"
  <2>1. ~Drained
    BY <1>2 DEF Drained
  <2>2. ASSUME ~disposed PROVE phase \in Phases \ LivePhases
    BY <1>0, <1>2, <2>2 DEF AckedIsDown, SnapOK
  <2>3. ASSUME NEW t \in Slots, HostStep(t) PROVE phase' \notin LivePhases
    BY <1>0, <2>2, <2>3, DownFacts DEF HostStep, Start, BeginStart, Stop, Refresh, Pay, Wallet,
       RestoreWallet, Dispatch, Move, snap, status
  <2>4. ASSUME NEW t \in Slots, StopCompletes(t) PROVE phase' \notin LivePhases
    BY <1>0, <2>2, <2>4, DownFacts DEF StopCompletes, Dispatch, Move, status
  <2>5. ASSUME Acknowledge \/ Dispose PROVE phase' \notin LivePhases
    BY <2>2, <2>5 DEF Acknowledge, Dispose, status
  <2> QED
    BY <2>1, <2>3, <2>4, <2>5 DEF Next
<1>3. CASE tasks[u].at # "acked" /\ ~\E t \in Slots : StopAcknowledged(t)
  <2>1. ASSUME NEW t \in Slots, HostStep(t) PROVE FALSE
    <3>1. \E o \in Operations, tracking \in BOOLEAN : Call(t, o, tracking)
      BY <2>1 DEF HostStep, Start, BeginStart, Stop, Refresh, Pay, Wallet, RestoreWallet, Operations
    <3>2. PICK o \in Operations, tracking \in BOOLEAN : Call(t, o, tracking)
      BY <3>1
    <3>3. tasks'[t].at = "rpc" /\ \A v \in Slots : v # t => tasks'[v] = tasks[v]
      BY <1>0, <3>2, CallBegins
    <3> QED
      BY <1>3, <3>3
  <2>2. ASSUME NEW t \in Slots, Settle(t) PROVE FALSE
    <3>1. \/ Return(t)
          \/ AdoptNext(t)
          \/ Await(t, "fetch") \/ Await(t, "adopt") \/ Await(t, "sleep")
          \/ Await(t, "adoptUp") \/ Await(t, "probe")
      BY <1>3, <2>2 DEF Settle, StartResolves, StartRejects, StopRejects,
         ForegroundRead, PayResolves, CallRejects, Adopts, AdoptFails, RestoreResolves,
         RestoreAdopts, RestoreRejects, ProbeFindsWallet, ProbeFindsNone
    <3>2. Return(t) => tasks'[t] = Idle /\ \A v \in Slots : v # t => tasks'[v] = tasks[v]
      BY <1>0, ReturnFacts
    <3>3. ASSUME NEW at \in {"fetch", "adopt", "sleep", "adoptUp", "probe"}, Await(t, at)
          PROVE  tasks'[t].at = at /\ \A v \in Slots : v # t => tasks'[v] = tasks[v]
      BY <1>0, <3>3, AwaitFacts
    <3>4. ASSUME AdoptNext(t)
          PROVE  Return(t) \/ (tasks'[t].at = "adopt" /\ \A v \in Slots : v # t => tasks'[v] = tasks[v])
      BY <1>0, <3>4, AdoptNextFacts DEF AdoptNext
    <3> QED
      BY <1>3, <3>1, <3>2, <3>3, <3>4 DEF Idle
  <2>3. ASSUME NEW t \in Slots, StopCompletes(t) PROVE FALSE
    BY <1>0, <1>3, <2>3, ReturnFacts DEF StopCompletes, Idle
  <2>4. ASSUME Background \/ Acknowledge \/ Dispose \/ ClientFails \/ RuntimeAnnounced \/ RuntimeDies
        PROVE  FALSE
    BY <1>3, <2>4 DEF Background, Acknowledge, Dispose, ClientFails, RuntimeAnnounced, RuntimeDies,
       Reconcile, StreamDies, BackgroundReads, BackgroundFails, SyncTick, SyncReads, SyncFails,
       RestoreTick, RestoreTickFindsWallet, RestoreTickFindsNone, calls
  <2>5. ASSUME ClientReady PROVE FALSE
    <3>1. UNCHANGED tasks \/ \E t \in Slots : Call(t, "start", FALSE)
      BY <2>5 DEF ClientReady, BeginStart, calls
    <3>2. ASSUME NEW t \in Slots, Call(t, "start", FALSE)
          PROVE  tasks'[t].at = "rpc" /\ \A v \in Slots : v # t => tasks'[v] = tasks[v]
    <4>1. "start" \in Operations
      BY DEF Operations
    <4> QED
      BY <1>0, <3>2, <4>1, CallBegins
    <3> QED
      BY <1>3, <3>1, <3>2
  <2> QED
    BY <2>1, <2>2, <2>3, <2>4, <2>5 DEF Next
<1> QED
  BY <1>1, <1>2, <1>3

(* What it does to a restore somebody waits for.                           *)
CallerStep ==
    phase' = "restoring" => \/ phase = "restoring" /\ restore' = restore
                            \/ restore' \in Slots
                            \/ disposed'

LEMMA NextCaller ==
    ASSUME TypeOK, AckedIsDown, Next
    PROVE  CallerStep
<1> USE ConstantsAssumption, RestoringFacts
<1>0. SnapOK /\ CallsOK
  BY TypeParts
<1>1. ASSUME \/ (\E t \in Slots : Refresh(t)) \/ (\E t \in Slots : Pay(t))
             \/ (\E t \in Slots : Wallet(t)) \/ Acknowledge \/ Dispose
      PROVE  CallerStep
  BY <1>0, <1>1 DEF Refresh, Pay, Wallet, Acknowledge, Dispose, CallerStep, calls, snap, status
<1>2. ASSUME \/ (\E t \in Slots : PayResolves(t))
             \/ (\E t \in Slots : CallRejects(t))
             \/ (\E t \in Slots : AdoptNext(t))
             \/ (\E t \in Slots : RestoreResolves(t))
             \/ (\E t \in Slots : RestoreRejects(t))
      PROVE  CallerStep
  BY <1>0, <1>2 DEF PayResolves, CallRejects, AdoptNext, RestoreResolves, RestoreRejects, CallerStep
<1>3. ASSUME \/ Reconcile \/ SyncTick \/ RestoreTick \/ RestoreTickFindsNone
      PROVE  CallerStep
  BY <1>0, <1>3 DEF Reconcile, SyncTick, RestoreTick, RestoreTickFindsNone, CallerStep, calls
<1>4. ASSUME \/ (\E t \in Slots : Start(t)) \/ (\E t \in Slots : Stop(t))
      PROVE  CallerStep
  BY <1>0, <1>4 DEF Start, Stop, BeginStart, Dispatch, Move, CallerStep, SnapOK
<1>5. ASSUME ClientReady
      PROVE  CallerStep
  BY <1>0, <1>5, TransitionFacts DEF ClientReady, BeginStart, Move, CallerStep, calls, SnapOK, EventTypes
<1>6. ASSUME \/ (\E t \in Slots : StopCompletes(t)) \/ RuntimeDies
             \/ (\E t \in Slots : StopAcknowledged(t))
      PROVE  CallerStep
  <2>1. CASE \E t \in Slots : StopCompletes(t)
    BY <1>0, <2>1 DEF StopCompletes, Waits, Dispatch, Move, AckedIsDown, LivePhases, CallerStep,
       SnapOK, EventTypes, status
  <2>2. RuntimeStopped => CallerStep
    BY <1>0 DEF RuntimeStopped, Dispatch, Move, CallerStep, SnapOK, EventTypes
  <2> QED
    BY <1>6, <2>1, <2>2 DEF RuntimeDies, StopAcknowledged, CallerStep
<1>7. ASSUME \/ (\E t \in Slots : StartResolves(t))
             \/ (\E t \in Slots : Adopts(t))
      PROVE  CallerStep
  BY <1>0, <1>7 DEF StartResolves, Adopts, Move, CallerStep, SnapOK
<1>8. ASSUME \/ (\E t \in Slots : ForegroundRead(t)) \/ BackgroundReads
             \/ SyncReads
      PROVE  CallerStep
  BY <1>0, <1>8 DEF ForegroundRead, BackgroundReads, SyncReads, FetchAll, Move, CallerStep, calls, SnapOK
<1>9. ASSUME (\E t \in Slots : RestoreWallet(t))
      PROVE  CallerStep
  BY <1>0, <1>9 DEF RestoreWallet, CallerStep
<1>10. ASSUME \/ (\E t \in Slots : RestoreAdopts(t))
              \/ (\E t \in Slots : ProbeFindsWallet(t))
              \/ (\E t \in Slots : ProbeFindsNone(t))
              \/ RestoreTickFindsWallet
       PROVE  CallerStep
  BY <1>0, <1>10 DEF RestoreAdopts, ProbeFindsWallet, ProbeFindsNone, RestoreTickFindsWallet, Dispatch, Move, CallerStep, SnapOK
<1>11. ASSUME \/ (\E t \in Slots : StartRejects(t))
              \/ (\E t \in Slots : StopRejects(t))
              \/ (\E t \in Slots : AdoptFails(t))
       PROVE  CallerStep
  BY <1>0, <1>11 DEF StartRejects, StopRejects, AdoptFails, Dispatch, Move, CallerStep, SnapOK, EventTypes
<1>12. ASSUME \/ StreamDies \/ BackgroundFails \/ SyncFails
       PROVE  CallerStep
  <2>1. CASE StreamDies
    BY <1>0, <2>1 DEF StreamDies, Dispatch, Move, CallerStep, calls, SnapOK, EventTypes
  <2>2. CASE BackgroundFails
    BY <1>0, <2>2 DEF BackgroundFails, Dispatch, Move, CallerStep, calls, SnapOK, EventTypes
  <2>3. CASE SyncFails
    BY <1>0, <2>3 DEF SyncFails, Dispatch, Move, CallerStep, calls, SnapOK, EventTypes
  <2> QED
    BY <1>12, <2>1, <2>2, <2>3
<1>13. ASSUME \/ ClientFails \/ RuntimeAnnounced
       PROVE  CallerStep
  BY <1>0, <1>13 DEF ClientFails, RuntimeAnnounced, Dispatch, Move, CallerStep, calls, SnapOK, EventTypes
<1>a. ASSUME NEW t \in Slots, HostStep(t) PROVE CallerStep
  BY <1>a, <1>1, <1>4, <1>9 DEF HostStep
<1>b. ASSUME NEW t \in Slots, Settle(t) PROVE CallerStep
  BY <1>b, <1>2, <1>6, <1>7, <1>8, <1>10, <1>11 DEF Settle
<1>c. ASSUME Background PROVE CallerStep
  BY <1>c, <1>3, <1>8, <1>10, <1>12 DEF Background
<1> QED
  BY <1>a, <1>b, <1>c, <1>1, <1>5, <1>6, <1>13 DEF Next

-----------------------------------------------------------------------------
(* The inductive invariant: the checked invariants, that disposal settles  *)
(* the restore, and that an acknowledged stop found no live wallet.                                                    *)

DisposedHasNoRestore == disposed => restore = NoCall

IInv ==
    /\ TypeOK
    /\ ProcessOwnership
    /\ StoppedHoldsNoFunds
    /\ StopWins
    /\ StartingHasStart
    /\ StoppingHasStop
    /\ RestoringHasCaller
    /\ PendingRestoreHasRequest
    /\ ScanHasOwner
    /\ DisposedHasNoRestore
    /\ AckedIsDown

LEMMA InitIInv == Init => IInv
<1> SUFFICES ASSUME Init PROVE IInv
  OBVIOUS
<1>1. TypeOK
  <2>1. Idle \in Task
    BY DEF Idle, Task
  <2>2. tasks \in [Slots -> Task] /\ lifecycle \in Seq(Slots)
    BY <2>1 DEF Init
  <2>3. chain \in 0..MaxChain /\ refreshFailures \in 0..RefreshLimit /\ deliberateStops \in 0..MaxStops
    BY ConstantsAssumption DEF Init
  <2>4. phase \in Phases
    BY DEF Init, Phases, RuntimePhases
  <2> QED
    BY <2>2, <2>3, <2>4 DEF Init, TypeOK
<1> QED
  BY <1>1 DEF Init, IInv, ProcessOwnership, StoppedHoldsNoFunds, StopWins, StartingHasStart,
     StoppingHasStop, RestoringHasCaller, PendingRestoreHasRequest, ScanHasOwner, DisposedHasNoRestore,
     AckedIsDown, Idle

(* The invariants about the phase alone.                                   *)
LEMMA NextPhaseInv ==
    ASSUME IInv, Next
    PROVE  ProcessOwnership' /\ StoppedHoldsNoFunds' /\ StopWins'
<1> USE DEF IInv
<1>0. SnapOK /\ ProcsOK /\ CallsOK /\ StatusOK /\ phase' \in Phases
  BY TypeParts, NextTypeOK DEF TypeOK
<1>1. ProcessOwnership'
  <2>1. ~disposed' => Move(phase') /\ ~disposed
    BY NextProcs, NextRestore, Zenon DEF RestoreStep, Dispose, RestoreWallet, status
  <2> QED
    BY <1>0, <2>1, MoveFacts DEF ProcessOwnership, Owned
<1>2. StoppedHoldsNoFunds'
  <2>1. CASE Kept
    BY <2>1 DEF Kept, StoppedHoldsNoFunds
  <2>2. CASE EventStep
    <3>1. PICK e \in PlainEvents : phase' = Transition(phase, e) /\ balance' = balance
      BY <2>2 DEF EventStep
    <3>2. phase' = "stopped" => phase = "stopped"
      BY <1>0, <3>1, TransitionFacts DEF PlainEvents, SnapOK
    <3> QED
      BY <3>1, <3>2 DEF StoppedHoldsNoFunds
  <2>3. CASE InfoStep
    BY <1>0, <2>3, OnInfoFacts DEF InfoStep, SnapOK, StoppedHoldsNoFunds
  <2>4. CASE DownStep
    BY <2>4 DEF DownStep, StoppedHoldsNoFunds
  <2>5. CASE StartStep
    <3>1. phase' # "stopped"
      BY <1>0, <2>5 DEF StartStep, BeginStart, Move, Transition, Accepts, Target, Phases, WalletPhases, RuntimePhases
    <3> QED
      BY <3>1 DEF StoppedHoldsNoFunds
  <2>6. CASE StopStep
    BY <1>0, <2>6, TransitionFacts DEF StopStep, Stop, Dispatch, Move, EventTypes, snap, SnapOK, StoppedHoldsNoFunds
  <2> QED
    BY <2>1, <2>2, <2>3, <2>4, <2>5, <2>6, NextPhase DEF PhaseStep
<1>3. StopWins'
  <2>1. CASE Kept
    BY <2>1 DEF Kept, StopsKept, StopWins
  <2>2. CASE EventStep
    BY <1>0, <2>2, TransitionFacts DEF EventStep, PlainEvents, StopsKept, SnapOK, StopWins, Down
  <2>3. CASE InfoStep
    BY <1>0, <2>3, OnInfoFacts DEF InfoStep, StopsKept, SnapOK, StopWins, Down
  <2>4. CASE DownStep
    BY <1>0, <2>4, TransitionFacts DEF DownStep, StopsKept, SnapOK, StopWins, Down, EventTypes
  <2>5. CASE StartStep
    BY <2>5 DEF StartStep, BeginStart, StopWins
  <2>6. CASE StopStep
    BY <1>0, <2>6, EventFacts DEF StopStep, Stop, Dispatch, Move, SnapOK, StopWins
  <2> QED
    BY <2>1, <2>2, <2>3, <2>4, <2>5, <2>6, NextPhase DEF PhaseStep
<1> QED
  BY <1>1, <1>2, <1>3

(* 'starting' keeps a start() that will settle it.                         *)
LEMMA NextStarting ==
    ASSUME IInv, Next
    PROVE  StartingHasStart'
<1> USE DEF IInv
<1>0. /\ SnapOK /\ ProcsOK /\ CallsOK /\ StatusOK
      /\ tasks \in [Slots -> Task] /\ deliberateStops \in Nat
  BY TypeParts, ConstantsAssumption DEF CallsOK, StatusOK
<1> SUFFICES ASSUME phase' = "starting"
             PROVE  \E u \in Slots : (Waits(u, "start", "rpc") /\ ~Overtaken(u))'
  BY DEF StartingHasStart
<1>1. CASE StartStep
  <2>1. PICK t \in Slots, p \in Phases : BeginStart(t, p) /\ UNCHANGED deliberateStops
    BY <1>1 DEF StartStep
  <2>2. Waits(t, "start", "rpc")' /\ tasks'[t].stops = deliberateStops
    BY <1>0, <2>1, BeginStartFacts
  <2> QED
    BY <2>1, <2>2 DEF Overtaken
<1>2. CASE StopStep
  BY <1>0, <1>2, EventFacts DEF StopStep, Stop, Dispatch, Move, SnapOK
<1>3. CASE ~StartStep /\ ~StopStep
  <2>1. phase = "starting" /\ UNCHANGED deliberateStops
    <3>1. Kept \/ EventStep \/ InfoStep \/ DownStep
      BY <1>3, NextPhase DEF PhaseStep
    <3>2. CASE Kept
      BY <3>2 DEF Kept, StopsKept
    <3>3. CASE EventStep
      BY <1>0, <3>3, TransitionFacts DEF EventStep, PlainEvents, StopsKept, SnapOK
    <3>4. CASE InfoStep
      BY <1>0, <3>4, OnInfoFacts DEF InfoStep, StopsKept, SnapOK
    <3>5. CASE DownStep
      BY <1>0, <3>5, TransitionFacts DEF DownStep, StopsKept, SnapOK, EventTypes
    <3> QED
      BY <3>1, <3>2, <3>3, <3>4, <3>5
  <2>2. PICK u \in Slots : Waits(u, "start", "rpc") /\ ~Overtaken(u)
    BY <2>1 DEF StartingHasStart
  <2>3. CASE tasks'[u] = tasks[u]
    BY <2>1, <2>2, <2>3 DEF Waits, Overtaken
  <2>4. CASE StartResolves(u)
    <3>1. PICK i \in Infos : Move(OnInfo(phase, i))
      BY <2>2, <2>4 DEF StartResolves
    <3>2. i \in WalletInfo /\ phase' = OnInfo(phase, i)
      BY <3>1, ConstantsAssumption DEF Move
    <3> QED
      BY <1>0, <2>1, <3>2, OnInfoFacts DEF SnapOK
  <2>5. CASE StartRejects(u)
    BY <1>0, <2>2, <2>5, EventFacts DEF StartRejects, Dispatch, Move, SnapOK
  <2>6. tasks'[u] = tasks[u] \/ StartResolves(u) \/ StartRejects(u)
    <3>1. tasks[u] # Idle /\ ~StopCompletes(u)
      BY <2>2 DEF Waits, Idle, StopCompletes
    <3>2. Settle(u) => StartResolves(u) \/ StartRejects(u)
      BY <2>2 DEF Settle, Waits, StopAcknowledged, StopRejects, ForegroundRead, PayResolves,
         CallRejects, AdoptNext, Adopts, AdoptFails, RestoreResolves, RestoreAdopts,
         RestoreRejects, ProbeFindsWallet, ProbeFindsNone
    <3> QED
      BY <3>1, <3>2, NextTasks DEF Touched
  <2> QED
    BY <2>3, <2>4, <2>5, <2>6
<1> QED
  BY <1>1, <1>2, <1>3

(* 'stopping' keeps a stop() that will settle it.                          *)
LEMMA NextStopping ==
    ASSUME IInv, Next
    PROVE  StoppingHasStop'
<1> USE DEF IInv
<1>0. /\ SnapOK /\ ProcsOK /\ CallsOK /\ StatusOK
      /\ tasks \in [Slots -> Task] /\ deliberateStops \in Nat
  BY TypeParts, ConstantsAssumption DEF CallsOK, StatusOK
<1> SUFFICES ASSUME phase' = "stopping"
             PROVE  \E u \in Slots : tasks'[u].op = "stop"
  BY DEF StoppingHasStop
<1>1. CASE StopStep
  <2>1. PICK t \in Slots : Call(t, "stop", FALSE)
    BY <1>1 DEF StopStep, Stop
  <2>2. tasks'[t].op = "stop"
    BY <1>0, <2>1 DEF Call
  <2> QED
    BY <2>2
<1>2. CASE ~StopStep
  <2>1. phase = "stopping"
    <3>1. Kept \/ EventStep \/ InfoStep \/ DownStep \/ StartStep
      BY <1>2, NextPhase DEF PhaseStep
    <3>2. CASE Kept
      BY <3>2 DEF Kept
    <3>3. CASE EventStep
      BY <1>0, <3>3, TransitionFacts DEF EventStep, PlainEvents, SnapOK
    <3>4. CASE InfoStep
      BY <1>0, <3>4, OnInfoFacts DEF InfoStep, SnapOK
    <3>5. CASE DownStep
      BY <1>0, <3>5, TransitionFacts DEF DownStep, SnapOK, EventTypes
    <3>6. CASE StartStep
      <4>1. PICK p \in Phases \ {"stopping"} : phase' = Transition(p, "startRequested")
        BY <3>6 DEF StartStep, BeginStart, Move
      <4> QED
        BY <4>1, TransitionFacts DEF EventTypes
    <3> QED
      BY <3>1, <3>2, <3>3, <3>4, <3>5, <3>6
  <2>2. PICK u \in Slots : tasks[u].op = "stop"
    BY <2>1 DEF StoppingHasStop
  <2>3. CASE tasks'[u] = tasks[u]
    BY <2>2, <2>3
  <2>4. CASE StopAcknowledged(u)
    BY <1>0, <2>2, <2>4, AwaitFacts DEF StopAcknowledged
  <2>5. CASE StopRejects(u) \/ StopCompletes(u)
    BY <1>0, <2>5, EventFacts DEF StopRejects, StopCompletes, Dispatch, Move, SnapOK
  <2>6. \/ tasks'[u] = tasks[u]
        \/ StopAcknowledged(u) \/ StopRejects(u) \/ StopCompletes(u)
    <3>1. tasks[u] # Idle
      BY <2>2 DEF Idle
    <3>2. Settle(u) => StopAcknowledged(u) \/ StopRejects(u)
      BY <2>2 DEF Settle, Waits, StartResolves, StartRejects, ForegroundRead, PayResolves,
         CallRejects, AdoptNext, Adopts, AdoptFails, RestoreResolves, RestoreAdopts,
         RestoreRejects, ProbeFindsWallet, ProbeFindsNone
    <3> QED
      BY <3>1, <3>2, NextTasks DEF Touched
  <2> QED
    BY <2>3, <2>4, <2>5, <2>6
<1> QED
  BY <1>1, <1>2

(* A pending restore keeps its createWallet call, and the scan its owner.  *)
LEMMA NextRestoreInv ==
    ASSUME IInv, Next
    PROVE  PendingRestoreHasRequest' /\ ScanHasOwner' /\ DisposedHasNoRestore'
<1> USE DEF IInv
<1>0. /\ SnapOK /\ CallsOK /\ StatusOK /\ tasks \in [Slots -> Task] /\ deliberateStops \in Nat
  BY TypeParts, ConstantsAssumption DEF CallsOK, StatusOK
<1>1. CASE \E t \in Slots : RestoreWallet(t)
  <2>1. PICK t \in Slots : RestoreWallet(t)
    BY <1>1
  <2>2. PICK tracking \in BOOLEAN :
          Call(t, "restore", tracking) /\ recovery' = IF tracking THEN "restoring" ELSE "idle"
    BY <2>1 DEF RestoreWallet, Patch
  <2>3. tasks'[t] = [op |-> "restore", at |-> "rpc", stops |-> deliberateStops,
                     attempt |-> 0, tracking |-> tracking]
    BY <1>0, <2>2, CallFacts DEF Operations
  <2>4. restore' = t /\ ~disposed'
    BY <2>1 DEF RestoreWallet, status
  <2> QED
    BY <2>2, <2>3, <2>4 DEF PendingRestoreHasRequest, ScanHasOwner, DisposedHasNoRestore
<1>2. CASE /\ restore' \in {restore, NoCall}
           /\ recovery' = recovery \/ recovery' # "restoring"
           /\ disposed' = disposed \/ Dispose
  <2>1. ~disposed' => ~disposed
    BY <1>2 DEF Dispose
  <2>2. DisposedHasNoRestore'
    BY <1>2 DEF DisposedHasNoRestore, Dispose
  <2>3. ASSUME NEW u \in Slots, tasks[u].op = "restore"
        PROVE  \/ tasks'[u] = tasks[u]
               \/ RestoreResolves(u) \/ RestoreRejects(u) \/ RestoreAdopts(u)
               \/ ProbeFindsWallet(u) \/ ProbeFindsNone(u)
    <3>1. tasks[u] # Idle /\ ~StopCompletes(u)
      BY <2>3 DEF Waits, Idle, StopCompletes
    <3>2. Settle(u) => \/ RestoreResolves(u) \/ RestoreRejects(u) \/ RestoreAdopts(u)
                       \/ ProbeFindsWallet(u) \/ ProbeFindsNone(u)
      BY <2>3 DEF Settle, Waits, StartResolves, StartRejects, StopAcknowledged, StopRejects,
         ForegroundRead, PayResolves, CallRejects, AdoptNext, Adopts, AdoptFails
    <3> QED
      BY <3>1, <3>2, NextTasks DEF Touched
  <2>4. PendingRestoreHasRequest'
    <3> SUFFICES ASSUME restore' # NoCall
                 PROVE  tasks'[restore'].op = "restore"
      BY DEF PendingRestoreHasRequest
    <3>1. restore' = restore /\ restore \in Slots /\ ~disposed /\ tasks[restore].op = "restore"
      BY <1>0, <1>2 DEF CallsOK, DisposedHasNoRestore, PendingRestoreHasRequest
    <3>2. CASE tasks'[restore] = tasks[restore]
      BY <3>1, <3>2
    <3>3. CASE RestoreResolves(restore) \/ RestoreRejects(restore)
      BY <1>0, <3>1, <3>3, AwaitFacts DEF RestoreResolves, RestoreRejects
    <3>4. CASE \/ RestoreAdopts(restore)
               \/ ProbeFindsWallet(restore) \/ ProbeFindsNone(restore)
      BY <3>4 DEF RestoreAdopts, ProbeFindsWallet, ProbeFindsNone
    <3> QED
      BY <2>3, <3>1, <3>2, <3>3, <3>4
  <2>5. ScanHasOwner'
    <3> SUFFICES ASSUME recovery' = "restoring", ~disposed'
                 PROVE  \E u \in Slots : /\ tasks'[u].op = "restore"
                                        /\ tasks'[u].tracking
                                        /\ tasks'[u].at \in {"rpc", "probe"}
      BY DEF ScanHasOwner
    <3>1. PICK u \in Slots : /\ tasks[u].op = "restore"
                            /\ tasks[u].tracking
                            /\ tasks[u].at \in {"rpc", "probe"}
      BY <1>2, <2>1 DEF ScanHasOwner
    <3>2. CASE tasks'[u] = tasks[u]
      BY <3>1, <3>2
    <3>3. CASE RestoreRejects(u)
      <4>1. Await(u, "probe")
        BY <2>1, <3>3 DEF RestoreRejects
      <4> QED
        BY <1>0, <3>1, <4>1, AwaitFacts
    <3>4. ~RestoreResolves(u)
      BY <2>1, <3>1 DEF RestoreResolves
    <3>5. ~RestoreAdopts(u)
      BY <3>1 DEF RestoreAdopts, Waits
    <3>6. ~ProbeFindsWallet(u) /\ ~ProbeFindsNone(u)
      BY DEF ProbeFindsWallet, ProbeFindsNone, Patch
    <3> QED
      BY <2>3, <3>1, <3>2, <3>3, <3>4, <3>5, <3>6
  <2> QED
    BY <2>2, <2>4, <2>5
<1> QED
  BY <1>1, <1>2, NextRestore DEF RestoreStep

(* A wallet being restored keeps its caller.                               *)
LEMMA NextRestoring ==
    ASSUME IInv, Next
    PROVE  RestoringHasCaller'
<1> SUFFICES ASSUME phase' = "restoring", ~disposed'
             PROVE  restore' # NoCall
  BY DEF RestoringHasCaller
<1>1. TypeOK /\ RestoringHasCaller /\ AckedIsDown
  BY DEF IInv
<1>2. ~disposed
  BY <1>1, NextRestore DEF RestoreStep, RestoreWallet, Dispose, status
<1> QED
  BY <1>1, <1>2, NextCaller, ConstantsAssumption DEF CallerStep, RestoringHasCaller

LEMMA NextIInv == IInv /\ [Next]_vars => IInv'
<1> SUFFICES ASSUME IInv, [Next]_vars PROVE IInv'
  OBVIOUS
<1>1. CASE Next
  <2>1. TypeOK'
    BY <1>1, NextTypeOK DEF IInv
  <2> QED
    BY <1>1, <2>1, NextPhaseInv, NextStarting, NextStopping, NextRestoreInv, NextRestoring, NextAcked DEF IInv
<1>2. CASE UNCHANGED vars
  <2> USE <1>2 DEF vars, snap, procs, ticks, reads, calls, status
  <2>1. TypeOK'
    BY DEF IInv, TypeOK
  <2>2. ProcessOwnership' /\ StoppedHoldsNoFunds' /\ StopWins' /\ DisposedHasNoRestore' /\ AckedIsDown'
    BY DEF IInv, ProcessOwnership, StoppedHoldsNoFunds, StopWins, DisposedHasNoRestore, AckedIsDown
  <2>3. StartingHasStart' /\ StoppingHasStop'
    BY DEF IInv, StartingHasStart, StoppingHasStop, Waits, Overtaken
  <2>4. RestoringHasCaller' /\ PendingRestoreHasRequest' /\ ScanHasOwner'
    BY DEF IInv, RestoringHasCaller, PendingRestoreHasRequest, ScanHasOwner
  <2> QED
    BY <2>1, <2>2, <2>3, <2>4 DEF IInv
<1> QED
  BY <1>1, <1>2

-----------------------------------------------------------------------------
(* The invariant holds in every reachable state of the engine, whatever    *)
(* the host calls and whatever the client answers.                         *)
THEOREM Invariance == Spec => []IInv
  BY InitIInv, NextIInv, PTL DEF Spec

(* Every part of the engine's state keeps its type: in particular no info  *)
(* of the daemon brings an unknown phase, and the queue of refreshes and   *)
(* the failure count keep their bounds.                                    *)
THEOREM TypeCorrect == Spec => []TypeOK
<1>1. IInv => TypeOK
  BY DEF IInv
<1> QED
  BY <1>1, Invariance, PTL

(* The activity stream, the sync poll and the restore probe of a live      *)
(* engine run exactly in the phases the ownership table gives them.        *)
THEOREM Ownership == Spec => []ProcessOwnership
<1>1. IInv => ProcessOwnership
  BY DEF IInv
<1> QED
  BY <1>1, Invariance, PTL

(* stop() is the last word: no late answer to an older call brings the     *)
(* phase back to a live one, nor the funds of a stopped wallet.            *)
THEOREM StoppedStays == Spec => []StopSafety
<1>1. IInv => StopSafety
  BY DEF IInv, StopSafety
<1> QED
  BY <1>1, Invariance, PTL

(* The transient phases 'starting' and 'stopping' always have a call in    *)
(* flight that will end them.                                              *)
THEOREM LifecycleOwners == Spec => []LifecycleOwned
<1>1. IInv => LifecycleOwned
  BY DEF IInv, LifecycleOwned
<1> QED
  BY <1>1, Invariance, PTL

(* A wallet being restored always has its caller, a pending restore        *)
(* promise and a running recovery scan their createWallet call.            *)
THEOREM RestoreOwners == Spec => []RestoreOwned
<1>1. IInv => RestoreOwned
  BY DEF IInv, RestoreOwned
<1> QED
  BY <1>1, Invariance, PTL
=============================================================================
