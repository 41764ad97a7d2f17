---------------------------- MODULE PhaseMachine ----------------------------
(***************************************************************************)
(* The pure phase machine of the wallet engine: which phase follows from   *)
(* a phase and an event (packages/core/src/engine/machine.ts), and which   *)
(* wallet phase a WalletInfo stands for (packages/core/src/state.ts).      *)
(***************************************************************************)

WalletPhases == {"needsWallet", "locked", "syncing", "ready"}

RuntimePhases ==
    {"loading", "runtimeReady", "starting", "restoring", "stopping", "stopped", "error"}

Phases == WalletPhases \cup RuntimePhases

WalletStates == {"none", "locked", "syncing", "ready"}

(* The two fields of a WalletInfo that the engine looks at.                *)
WalletInfo == [walletState : WalletStates, walletReady : BOOLEAN]

(* The test the engine makes before it lets a restored wallet in.          *)
Usable(i) == i.walletReady \/ i.walletState = "ready"

(* Mutant: an unknown or absent state passes through.                      *)
PhaseFromInfoRaw(i) == IF Usable(i) THEN "ready" ELSE i.walletState

PhaseFromInfo(i) ==
    IF Usable(i) THEN "ready"
    ELSE IF i.walletState \in {"locked", "syncing"} THEN i.walletState
    ELSE "needsWallet"

EventTypes ==
    {"runtimeReady", "runtimeFailed", "runtimeStopped",
     "startRequested", "startFailed",
     "restoreRequested", "walletBecameReady",
     "restoreFailedWalletUp", "restoreFailedWalletDown",
     "walletAdoptionFailed", "streamLost", "backgroundRefreshExhausted",
     "syncPollExhausted", "stopRequested", "stopCompleted", "stopFailed"}

(* The phases in which the machine reacts to an event of type e.  In every *)
(* other phase the event is ignored.                                       *)
Accepts(e) ==
    CASE e = "runtimeReady"               -> {"loading"}
      [] e = "runtimeFailed"              -> {"loading", "stopped"}
      [] e = "runtimeStopped"             -> Phases \ {"error"}
      [] e = "startRequested"             -> Phases \ {"stopping"}
      [] e = "startFailed"                -> {"starting", "stopped"}
      [] e = "restoreRequested"           -> {"needsWallet", "locked"}
      [] e = "walletBecameReady"          -> {"restoring", "syncing"}
      [] e = "restoreFailedWalletUp"      -> {"restoring"}
      [] e = "restoreFailedWalletDown"    -> {"restoring"}
      [] e = "walletAdoptionFailed"       -> {"needsWallet", "locked"}
      [] e = "streamLost"                 -> {"ready"}
      [] e = "backgroundRefreshExhausted" -> {"ready"}
      [] e = "syncPollExhausted"          -> {"syncing"}
      [] e = "stopRequested"              -> Phases \ {"stopping", "stopped"}
      [] e = "stopCompleted"              -> {"stopping"}
      [] e = "stopFailed"                 -> {"stopping"}

(* The phase an accepted event leads to.                                   *)
Target(e) ==
    CASE e = "runtimeReady"               -> "runtimeReady"
      [] e = "startRequested"             -> "starting"
      [] e = "restoreRequested"           -> "restoring"
      [] e = "stopRequested"              -> "stopping"
      [] e = "restoreFailedWalletDown"    -> "needsWallet"
      [] e \in {"runtimeStopped", "stopCompleted"}              -> "stopped"
      [] e \in {"walletBecameReady", "restoreFailedWalletUp"}   -> "ready"
      [] e \in {"runtimeFailed", "startFailed", "walletAdoptionFailed",
                "streamLost", "backgroundRefreshExhausted",
                "syncPollExhausted", "stopFailed"}              -> "error"

(* Mutants: the machine forgets one entry of the table.                    *)
TransitionStopIgnored(p, e) ==
    IF p \in Accepts(e) /\ ~(e = "stopRequested" /\ p = "starting") THEN Target(e) ELSE p

TransitionStopFailIgnored(p, e) ==
    IF p \in Accepts(e) /\ e # "stopFailed" THEN Target(e) ELSE p

TransitionStartFailIgnored(p, e) ==
    IF p \in Accepts(e) /\ ~(e = "startFailed" /\ p = "starting") THEN Target(e) ELSE p

Transition(p, e) == IF p \in Accepts(e) THEN Target(e) ELSE p

(* Mutant: a read lifts the machine out of 'error'.                        *)
OnInfoHeals(p, i) ==
    IF p \in WalletPhases \cup {"starting", "error"} THEN PhaseFromInfo(i) ELSE p

(* infoReceived is the one event with a payload.  It has no entry for      *)
(* 'restoring': the locked-looking states of a wallet being restored stay  *)
(* out of the phase.                                                       *)
OnInfo(p, i) ==
    IF p \in WalletPhases \cup {"starting"} THEN PhaseFromInfo(i) ELSE p
=============================================================================
