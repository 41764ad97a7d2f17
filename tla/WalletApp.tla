------------------------------ MODULE WalletApp ------------------------------
(***************************************************************************)
(* The web wallet app (web-wallet-demo/src/App.tsx, lib/walletRegistry.ts, *)
(* screens/onboarding): a registry of wallets, each with its own data      *)
(* directory, over one engine that runs one of them at a time.  An entry   *)
(* of the days before the registry does not know its network, and the user *)
(* guesses.  The engine is its phases, the daemon the entry and network it *)
(* was started with.                                                       *)
(***************************************************************************)
EXTENDS Naturals, FiniteSets

CONSTANTS
    Wallets,        \* the identities of registry entries
    Legacy,         \* those migrated without a network
    Networks,
    Home,           \* the network the legacy wallets live on
    Nobody,         \* null
    MaxSteps,       \* bound: starts, stops and wallet calls of the user
    MaxCalls        \* bound: wallet calls in flight

ASSUME AppAssumption ==
    /\ Legacy \subseteq Wallets /\ Home \in Networks
    /\ Nobody \notin Wallets \cup Networks
    /\ {MaxSteps, MaxCalls} \subseteq Nat

Machine == INSTANCE PhaseMachine

VARIABLES
    registry,           \* localStorage: entry -> WalletEntry
    selectedWalletId,
    preStart,           \* the kind of preStart; a picker is that of the selection
    pendingNetwork,
    onboardingMode,
    mnemonic,           \* whose recovery phrase is staged
    backupAcknowledged,
    phase,              \* of the engine
    daemon,             \* up: for which entry and network; open: its wallet is unlocked
    disk,               \* the entry and network pairs with a wallet
    lifecycle,          \* the start() or stop() in flight, and what follows it
    calls,              \* wallet calls in flight, those behind a passkey's prompt among them
    waiting,            \* those the mounted screen waits for
    steps,              \* counter of the bound
    proven,             \* history: where a wallet call succeeded
    strayed,            \* history: entries of a ceremony that another daemon carried out
    created, told       \* history: wallets created, and phrases shown

view == <<selectedWalletId, preStart, pendingNetwork, onboardingMode, mnemonic, backupAcknowledged>>
machine == <<phase, daemon, disk>>
history == <<proven, strayed, created, told>>
appVars == <<registry, view, machine, lifecycle, calls, waiting, steps, history>>

Kinds == {"none", "password", "passkey"}
Absent == [there |-> FALSE, network |-> Nobody, walletKind |-> "none"]
Down == [entry |-> Nobody, network |-> Nobody, open |-> FALSE]
Idle == [op |-> "none", network |-> Nobody]

AppInit ==
    /\ registry \in [Wallets -> {Absent} \cup
         {[there |-> TRUE, network |-> Nobody, walletKind |-> k] : k \in Kinds}]
    /\ \A e \in Wallets : registry[e].there <=> e \in Legacy
    /\ disk = Legacy \X {Home}
    /\ selectedWalletId = Nobody /\ preStart = "list" /\ pendingNetwork = Nobody
    /\ onboardingMode = "create" /\ mnemonic = Nobody /\ backupAcknowledged = FALSE
    /\ phase = "runtimeReady" /\ daemon = Down
    /\ lifecycle = Idle /\ calls = {} /\ waiting = {} /\ steps = 0
    /\ proven = disk /\ strayed = {} /\ created = {} /\ told = {}

Step == steps < MaxSteps /\ steps' = steps + 1

-----------------------------------------------------------------------------
(* What the app renders                                                    *)

HasEntry == selectedWalletId # Nobody /\ registry[selectedWalletId].there
Completed == HasEntry /\ registry[selectedWalletId].walletKind # "none"

AppScreen ==
    CASE phase \in {"loading", "starting", "stopping"} -> "loading"
      [] phase = "runtimeReady"                        -> preStart
      [] phase = "needsWallet" /\ ~Completed           -> "onboarding"
      [] phase = "needsWallet" /\ Completed ->
           IF pendingNetwork # Nobody THEN "guessAgain" ELSE "dataMissing"
      [] phase = "locked"                              -> "unlock"
      [] phase \in {"syncing", "restoring"}            -> "syncing"
      [] phase = "stopped"  -> IF HasEntry THEN "stopped" ELSE preStart
      [] phase = "error"                               -> "error"
      [] phase = "ready" ->
           IF ~backupAcknowledged /\ mnemonic # Nobody THEN "backup" ELSE "dashboard"

(* A screen that is mounted anew waits for nothing.                        *)
Awaits(cs) == waiting' = IF AppScreen' = AppScreen THEN cs ELSE {}

(* Its buttons are off while it waits; a restore by passkey only once the  *)
(* prompt has answered.  It still offers a way out of an unlock by         *)
(* password.                                                               *)
Busy(c) == c.passkey /\ c.op = "restore" => c.done
Held == \E c \in waiting : Busy(c) /\ (c.op = "unlock" => c.passkey)

(* What getInfo() may answer.                                              *)
Infos ==
    LET states == IF <<daemon.entry, daemon.network>> \notin disk THEN {"none"}
                  ELSE IF daemon.open THEN {"syncing", "ready"} ELSE {"locked"}
    IN {[walletState |-> state, walletReady |-> state = "ready"] : state \in states}

-----------------------------------------------------------------------------
(* Starting and stopping                                                   *)

(* openWallet: a legacy entry without a guess goes to the picker.          *)
Opens(e, entry, override, mode) ==
    /\ selectedWalletId' = e
    /\ IF entry.network = Nobody /\ override = Nobody
       THEN /\ preStart' = "chooseNetwork"
            /\ UNCHANGED <<pendingNetwork, onboardingMode, phase, lifecycle>>
       ELSE /\ pendingNetwork' = override
            /\ onboardingMode' = mode
            /\ phase' = Machine!Transition(phase, "startRequested")
            /\ lifecycle' = [op |-> "start",
                              network |-> IF override # Nobody THEN override ELSE entry.network]
            /\ UNCHANGED preStart

(* client.start(): a daemon that is still up is not started again; its     *)
(* info answers, whatever the config.                                      *)
StartLands ==
    /\ lifecycle.op = "start"
    /\ lifecycle' = Idle
    /\ daemon' = IF daemon.entry # Nobody THEN daemon
                 ELSE [entry |-> selectedWalletId, network |-> lifecycle.network, open |-> FALSE]
    /\ UNCHANGED disk
    /\ \E i \in Infos' :
         phase' = Machine!OnInfo(phase, i) /\ backupAcknowledged' = i.walletReady
    /\ UNCHANGED <<registry, selectedWalletId, preStart, pendingNetwork, onboardingMode, mnemonic,
                    calls, waiting, steps, history>>

(* A failed start of a client leaves no daemon behind.                     *)
StartFails ==
    /\ lifecycle.op = "start"
    /\ lifecycle' = Idle
    /\ phase' = Machine!Transition(phase, "startFailed")
    /\ daemon' = Down
    /\ UNCHANGED <<registry, view, disk, calls, waiting, steps, history>>

Stops(then) ==
    /\ phase' = Machine!Transition(phase, "stopRequested")
    /\ lifecycle' = [Idle EXCEPT !.op = then]
    /\ waiting' = {}
    /\ UNCHANGED <<view, daemon, disk, calls, history>>

(* backToWallets goes on whether or not the stop succeeded, ...            *)
Back(kind) ==
    /\ selectedWalletId' = Nobody /\ pendingNetwork' = Nobody
    /\ preStart' = kind
    /\ mnemonic' = Nobody /\ backupAcknowledged' = FALSE
    /\ UNCHANGED onboardingMode

(* ... and so does retryLegacyNetwork; a stop from the dashboard does not. *)
AfterStop(done, stopped) ==
    \/ /\ lifecycle.op \in {"back", "recover"}
       /\ Back(IF lifecycle.op = "back" THEN "list" ELSE "restore")
       /\ phase' = stopped /\ lifecycle' = Idle
    \/ /\ lifecycle.op = "settings"
       /\ phase' = stopped /\ lifecycle' = Idle
       /\ IF done THEN mnemonic' = Nobody /\ backupAcknowledged' = FALSE
          ELSE UNCHANGED <<mnemonic, backupAcknowledged>>
       /\ UNCHANGED <<selectedWalletId, preStart, pendingNetwork, onboardingMode>>
    \/ /\ lifecycle.op = "guess"
       /\ pendingNetwork' = lifecycle.network
       /\ onboardingMode' = "create"
       /\ phase' = Machine!Transition(stopped, "startRequested")
       /\ lifecycle' = [lifecycle EXCEPT !.op = "start"]
       /\ UNCHANGED <<selectedWalletId, preStart, mnemonic, backupAcknowledged>>

StopLands ==
    /\ AfterStop(TRUE, Machine!Transition(phase, "stopCompleted"))
    /\ daemon' = Down
    /\ UNCHANGED <<registry, disk, calls, waiting, steps, history>>

StopFails ==
    /\ AfterStop(FALSE, Machine!Transition(phase, "stopFailed"))
    /\ UNCHANGED <<registry, daemon, disk, calls, waiting, steps, history>>

(* The runtime dies, and the client announces it.                          *)
RuntimeDies ==
    /\ Step
    /\ daemon.entry # Nobody /\ lifecycle = Idle
    /\ daemon' = Down
    /\ phase' = Machine!Transition(phase, "runtimeStopped")
    /\ UNCHANGED <<registry, view, disk, lifecycle, calls, history>>
    /\ Awaits(waiting)

SyncEnds == \E e \in {"walletBecameReady", "syncPollExhausted"} :
    /\ phase = "syncing"
    /\ phase' = Machine!Transition(phase, e)
    /\ UNCHANGED <<registry, view, daemon, disk, lifecycle, calls, waiting, steps, history>>

(* The page is reloaded: the registry and the databases stay.              *)
Reloads ==
    /\ Step
    /\ selectedWalletId' = Nobody /\ preStart' = "list" /\ pendingNetwork' = Nobody
    /\ onboardingMode' = "create" /\ mnemonic' = Nobody /\ backupAcknowledged' = FALSE
    /\ phase' = "runtimeReady" /\ daemon' = Down /\ lifecycle' = Idle
    /\ calls' = {} /\ waiting' = {}
    /\ UNCHANGED <<registry, disk, history>>

-----------------------------------------------------------------------------
(* The user                                                                *)

Acts == Step /\ lifecycle = Idle /\ ~Held
Only(e, entry) == registry' = [registry EXCEPT ![e] = entry]

OpensEntry(e) ==
    /\ Acts /\ AppScreen = "list"
    /\ registry[e].there
    /\ Opens(e, registry[e], Nobody, "create")
    /\ UNCHANGED <<registry, mnemonic, backupAcknowledged, daemon, disk, calls, waiting, history>>

ShowsForm(kind) ==
    /\ Acts /\ AppScreen \in {"list", "create", "restore"}
    /\ preStart' = kind
    /\ UNCHANGED <<registry, selectedWalletId, pendingNetwork, onboardingMode, mnemonic,
                   backupAcknowledged, machine, lifecycle, calls, waiting, history>>

(* submitSetup: a new entry, with an identity of its own, is registered    *)
(* before its wallet exists.                                               *)
SubmitsSetup(e, network) ==
    /\ Acts /\ AppScreen \in {"create", "restore"}
    /\ e \notin Legacy /\ registry[e] = Absent
    /\ LET entry == [there |-> TRUE, network |-> network, walletKind |-> "none"] IN
         Only(e, entry) /\ Opens(e, entry, Nobody, preStart)
    /\ UNCHANGED <<mnemonic, backupAcknowledged, daemon, disk, calls, waiting, history>>

(* The picker before the first start, and after a guess that found nothing.*)
PicksNetwork(network) ==
    /\ Acts /\ AppScreen = "chooseNetwork" /\ HasEntry
    /\ Opens(selectedWalletId, registry[selectedWalletId], network, "create")
    /\ UNCHANGED <<registry, mnemonic, backupAcknowledged, daemon, disk, calls, waiting, history>>

RetriesGuess(network) ==
    /\ Acts /\ AppScreen = "guessAgain"
    /\ phase' = Machine!Transition(phase, "stopRequested")
    /\ lifecycle' = [op |-> "guess", network |-> network]
    /\ UNCHANGED <<registry, view, daemon, disk, calls, waiting, history>>

GoesBack ==
    /\ Acts
    /\ AppScreen \in {"chooseNetwork", "guessAgain", "onboarding", "unlock", "stopped", "error",
                     "dashboard"}
    /\ Stops("back")
    /\ UNCHANGED registry

Recovers == Acts /\ AppScreen = "unlock" /\ Stops("recover") /\ UNCHANGED registry
StopsRuntime == Acts /\ AppScreen = "dashboard" /\ Stops("settings") /\ UNCHANGED registry

(* retryStart                                                              *)
RetriesStart ==
    /\ Acts /\ AppScreen = "error"
    /\ IF HasEntry
       THEN /\ Opens(selectedWalletId, registry[selectedWalletId], pendingNetwork, onboardingMode)
            /\ UNCHANGED <<mnemonic, backupAcknowledged, daemon, disk, calls, waiting, history>>
       ELSE Stops("back")
    /\ UNCHANGED registry

(* An entry is removed, and if it is the active one, its wallet left.      *)
Removes(e) ==
    /\ Acts
    /\ registry[e].there
    /\ Only(e, [registry[e] EXCEPT !.there = FALSE])
    /\ \/ AppScreen = "list" /\ UNCHANGED <<view, machine, lifecycle, calls, waiting, history>>
       \/ AppScreen \in {"dataMissing", "unlock", "dashboard"} /\ e = selectedWalletId /\ Stops("back")

SetsUpAgain ==
    /\ Acts /\ AppScreen = "dataMissing"
    /\ Only(selectedWalletId, [registry[selectedWalletId] EXCEPT !.walletKind = "none"])
    /\ onboardingMode' = "restore"
    /\ UNCHANGED <<selectedWalletId, preStart, pendingNetwork, mnemonic, backupAcknowledged,
                   machine, lifecycle, calls, waiting, history>>

AcknowledgesBackup ==
    /\ AppScreen = "backup"
    /\ backupAcknowledged' = TRUE
    /\ told' = told \cup {mnemonic}
    /\ UNCHANGED <<registry, selectedWalletId, preStart, pendingNetwork, onboardingMode, mnemonic,
                   machine, lifecycle, calls, waiting, steps, proven, strayed, created>>

-----------------------------------------------------------------------------
(* The wallet calls                                                        *)

(* The callbacks a call will make are those of the render it was made in:  *)
(* they know the selection and the guess of that moment.  A passkey call   *)
(* reaches the engine only when the prompt has answered.                   *)
Calls(op, passkey) ==
    /\ Acts
    /\ Cardinality(calls) < MaxCalls
    /\ LET c == [op |-> op, passkey |-> passkey, entry |-> selectedWalletId,
                 network |-> pendingNetwork, on |-> <<daemon.entry, daemon.network>>,
                 done |-> FALSE, words |-> Nobody]
       IN calls' = calls \cup {c} /\ waiting' = waiting \cup {c}
    /\ UNCHANGED <<registry, view, machine, lifecycle, history>>

CallsWallet(op, passkey) ==
    /\ \/ AppScreen = "onboarding" /\ op = onboardingMode
       \/ /\ AppScreen = "unlock" /\ op = "unlock"
          /\ HasEntry => registry[selectedWalletId].walletKind #
                            (IF passkey THEN "password" ELSE "passkey")
    /\ ~\E c \in waiting : Busy(c)
    /\ Calls(op, passkey)

(* A daemon carries out the call; its answer may come much later.  One     *)
(* with a password was sent to the daemon of the press.  One with a        *)
(* passkey goes to the daemon that is up when the prompt answers, which    *)
(* opens the wallet it finds or makes one of the passkey's seed.           *)
DaemonDoes(c) ==
    /\ c \in calls /\ ~c.done
    /\ daemon.entry # Nobody
    /\ LET at == <<daemon.entry, daemon.network>>
           n == [c EXCEPT !.done = TRUE,
                          !.words = IF c.op = "create" /\ at \notin disk THEN at[1] ELSE Nobody]
       IN /\ ~c.passkey => c.on = at /\ (c.op = "unlock" <=> at \in disk)
          /\ calls' = (calls \ {c}) \cup {n}
          /\ waiting' = IF c \in waiting THEN (waiting \ {c}) \cup {n} ELSE waiting
          /\ disk' = disk \cup {at}
          /\ proven' = proven \cup {at}
          /\ strayed' = IF c.on = at THEN strayed ELSE strayed \cup {c.entry, at[1]}
          /\ created' = created \cup ({n.words} \ {Nobody})
    /\ daemon' = [daemon EXCEPT !.open = TRUE]
    /\ UNCHANGED <<registry, view, phase, lifecycle, steps, told>>

KindOf(c) == IF c.passkey THEN "passkey" ELSE "password"

(* Mutant: the callbacks look at the app as it is when they are called.    *)
StampCurrent(c) ==
    IF selectedWalletId = Nobody THEN UNCHANGED registry
    ELSE Only(selectedWalletId,
              [registry[selectedWalletId] EXCEPT
                 !.walletKind = KindOf(c),
                 !.network = IF pendingNetwork # Nobody THEN pendingNetwork ELSE @])

(* updateWallet: the kind, and the guess that has come true.               *)
Stamp(c) ==
    IF c.entry = Nobody THEN UNCHANGED registry
    ELSE Only(c.entry, [registry[c.entry] EXCEPT
                          !.walletKind = KindOf(c),
                          !.network = IF c.network # Nobody THEN c.network ELSE @])

(* onWalletCreated, onWalletRestored and onWalletUnlocked (the last for a  *)
(* restore by passkey too), after the engine has adopted the info of the   *)
(* daemon, or failed to.                                                   *)
CallResolves(c) ==
    /\ c \in calls /\ c.done
    /\ calls' = calls \ {c}
    /\ \/ daemon.entry # Nobody /\ \E i \in Infos : phase' = Machine!OnInfo(phase, i)
       \/ phase' = Machine!Transition(phase, "walletAdoptionFailed")
    /\ Stamp(c)
    /\ pendingNetwork' = IF c.entry = Nobody THEN pendingNetwork ELSE Nobody
    /\ mnemonic' = IF c.op = "create" \/ (c.op = "restore" /\ ~c.passkey) THEN c.words ELSE mnemonic
    /\ backupAcknowledged' = (c.words = Nobody)
    /\ UNCHANGED <<selectedWalletId, preStart, onboardingMode, daemon, disk, lifecycle, steps, history>>
    /\ Awaits(waiting \ {c})

(* A prompt that is dismissed, a passkey another entry knows already, a    *)
(* daemon that refuses or is gone.                                         *)
CallRejects(c) ==
    /\ c \in calls
    /\ calls' = calls \ {c} /\ waiting' = waiting \ {c}
    /\ UNCHANGED <<registry, view, machine, lifecycle, steps, history>>

AppNext ==
    \/ StartLands \/ StartFails \/ StopLands \/ StopFails \/ RuntimeDies \/ SyncEnds \/ Reloads
    \/ \E e \in Wallets : OpensEntry(e) \/ Removes(e)
    \/ \E e \in Wallets, n \in Networks : SubmitsSetup(e, n)
    \/ \E n \in Networks : PicksNetwork(n) \/ RetriesGuess(n)
    \/ \E kind \in {"list", "create", "restore"} : ShowsForm(kind)
    \/ GoesBack \/ Recovers \/ StopsRuntime \/ RetriesStart \/ SetsUpAgain \/ AcknowledgesBackup
    \/ \E op \in {"create", "restore", "unlock"}, passkey \in BOOLEAN : CallsWallet(op, passkey)
    \/ \E c \in calls : DaemonDoes(c) \/ CallResolves(c) \/ CallRejects(c)

AppSpec == AppInit /\ [][AppNext]_appVars

-----------------------------------------------------------------------------
(* Properties                                                              *)

(* An entry that is recorded as a finished wallet of a network is one:     *)
(* some wallet call succeeded there, or its wallet was there before.  No   *)
(* failed stop, no wrong guess and no answer that comes when another       *)
(* wallet is open marks an entry with what was never proven of it.  Of an  *)
(* entry nothing is said once a passkey ceremony begun for it was carried  *)
(* out by another daemon than that of the press, or its daemon carried out *)
(* the ceremony of another.                                                *)
StampsAreProven ==
    \A e \in Wallets \ strayed :
        registry[e].network # Nobody /\ registry[e].walletKind # "none" =>
            <<e, registry[e].network>> \in proven

-----------------------------------------------------------------------------
(* Claims of comments that the code does not keep                          *)

(* "Legacy entries with no recorded network detour through the network     *)
(* picker first."                                                          *)
LegacyReachesPicker ==
    [][\A e \in Wallets :
         OpensEntry(e) /\ registry[e].network = Nobody => AppScreen' = "chooseNetwork"]_appVars

(* "... (persisted only after a successful unlock proves the guess right)":*)
(* where a guess is recorded, a wallet call succeeded for that entry, on   *)
(* the network that was guessed.                                           *)
GuessesAreProven ==
    \A e \in Legacy :
        registry[e].network # Nobody => <<e, registry[e].network>> \in proven

(* "Freshly created wallet: show the recovery phrase once before the       *)
(* dashboard."                                                             *)
PhraseComesFirst ==
    AppScreen = "dashboard" /\ daemon.entry \in created => daemon.entry \in told
=============================================================================
