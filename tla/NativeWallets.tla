---------------------------- MODULE NativeWallets ----------------------------
(***************************************************************************)
(* The React Native wallet app (rn-wallet-demo/src/WalletApp.tsx with      *)
(* lib/walletRegistry.ts, useWalletRegistry.ts and wipeLocalData.ts).  Its *)
(* registry is in AsyncStorage: every change reads the list, then writes   *)
(* it, and the app goes on meanwhile; a removed wallet is deleted from the *)
(* disk while the app runs.  The legacy wallet's directory is the root of  *)
(* all others.  A handler of the app is a flow that passes its awaits one  *)
(* by one.  The engine is its phases, the daemon the entry and network it  *)
(* was started with.                                                       *)
(***************************************************************************)
EXTENDS Naturals, FiniteSets

CONSTANTS
    WalletIds,      \* the identities of registry entries
    Legacy,         \* the one of the days before the registry
    Networks,
    Home,           \* the network the legacy wallet lives on
    Nobody,         \* null
    MaxActs,        \* bound: what the user does, with the deaths of the runtime
    MaxFlows,       \* bound: handlers in flight
    MaxFaults       \* bound: failures of storage

ASSUME NativeWalletsAssumption ==
    /\ Legacy \in WalletIds /\ Home \in Networks
    /\ Nobody \notin WalletIds \cup Networks
    /\ {MaxActs, MaxFlows, MaxFaults} \subseteq Nat

PM == INSTANCE PhaseMachine

VARIABLES
    written, stored,    \* AsyncStorage: is there a list, and its entries
    markers,            \* AsyncStorage: the keys of the legacy wallet
    directories,        \* the entry and network pairs with a wallet on disk
    shown,              \* wallets of useWalletRegistry
    refreshes,          \* its version
    loads,              \* its loadWallets() in flight
    flows,              \* the handlers in flight
    selection,          \* selectedWalletId
    form,               \* the kind of preStart
    guess,              \* pendingNetwork
    onboarding,         \* onboardingMode
    phrase, backedUp,   \* mnemonic, backupAcknowledged
    enginePhase, runtime,
    acts, faults,       \* counters of the bounds
    used, doomed,       \* history: identities taken, and removed by the user
    misread,            \* history: who took the list for empty, or skipped its migration
    succeeded,          \* history: where a wallet call succeeded
    crossed             \* history: one ran in the daemon of another wallet or network

storage == <<written, stored, markers>>
registryHook == <<shown, refreshes, loads>>
appView == <<selection, form, guess, onboarding, phrase, backedUp>>
engine == <<enginePhase, runtime>>
bounds == <<acts, faults>>
past == <<used, doomed, misread, succeeded, crossed>>
walletsVars == <<storage, directories, registryHook, flows, appView, engine, bounds, past>>

Entry(id, network, kind) == [id |-> id, network |-> network, walletKind |-> kind]
Stopped == [entry |-> Nobody, network |-> Nobody, open |-> FALSE]
NotLoaded == [there |-> FALSE, list |-> {}]
LoadOf(v) == [version |-> v, at |-> "check", read |-> {}]
Flow == [op |-> "none", at |-> "none", entry |-> Nobody, network |-> Nobody, mode |-> "create",
          read |-> {}, n |-> 0]

(* A device of the days before the registry.                               *)
WalletsInit ==
    /\ written = FALSE /\ stored = {} /\ markers = TRUE
    /\ directories = {<<Legacy, Home>>}
    /\ shown = NotLoaded /\ refreshes = 0 /\ loads = {LoadOf(0)}
    /\ flows = {}
    /\ selection = Nobody /\ form = "list" /\ guess = Nobody
    /\ onboarding = "create" /\ phrase = Nobody /\ backedUp = FALSE
    /\ enginePhase = "runtimeReady" /\ runtime = Stopped
    /\ acts = 0 /\ faults = 0
    /\ used = {Legacy} /\ doomed = {} /\ misread = {} /\ succeeded = directories
    /\ crossed = FALSE

Fault == faults < MaxFaults /\ faults' = faults + 1

-----------------------------------------------------------------------------
(* loadWallets, for the hook and for every change of the list              *)

(* Mutant: the old keys go before the list is written.                     *)
MigratesUnmarking(r, q) ==
    \/ /\ r.at = "check"
       /\ q = [r EXCEPT !.at = IF written \/ ~markers THEN "read" ELSE "seed"]
       /\ UNCHANGED <<storage, faults>>
    \/ /\ r.at = "seed"
       /\ markers' = FALSE
       /\ q = [r EXCEPT !.at = "unmark"]
       /\ UNCHANGED <<written, stored, faults>>
    \/ /\ r.at = "unmark"
       /\ written' = TRUE
       /\ stored' = {Entry(Legacy, Nobody, "password")}
       /\ q = [r EXCEPT !.at = "read"]
       /\ UNCHANGED <<markers, faults>>
    \/ /\ r.at \in {"seed", "unmark"}
       /\ Fault
       /\ q = [r EXCEPT !.at = "read"]
       /\ UNCHANGED storage

(* migrateLegacyEntries: q is the reader r after its next step.  What      *)
(* fails is left for the next load.  Legacy is the wallet in the root,     *)
(* whichever id newId() gives its entry in this run of the migration.      *)
Migrates(r, q) ==
    \/ /\ r.at = "check"
       /\ q = [r EXCEPT !.at = IF written \/ ~markers THEN "read" ELSE "seed"]
       /\ UNCHANGED <<storage, faults>>
    \/ /\ r.at = "seed"
       /\ written' = TRUE
       /\ stored' = {Entry(Legacy, Nobody, "password")}
       /\ q = [r EXCEPT !.at = "unmark"]
       /\ UNCHANGED <<markers, faults>>
    \/ /\ r.at = "unmark"
       /\ markers' = FALSE
       /\ q = [r EXCEPT !.at = "read"]
       /\ UNCHANGED <<written, stored, faults>>
    \/ /\ r.at \in {"seed", "unmark"}
       /\ Fault
       /\ q = [r EXCEPT !.at = "read"]
       /\ UNCHANGED storage

(* A list that cannot be read is an empty one, for a change as for the hook.*)
Reads(r, list, who) ==
    /\ r.at = "read"
    /\ \/ list = stored /\ UNCHANGED <<faults, misread>>
       \/ list = {} /\ Fault /\ misread' = misread \cup {who}

(* Mutant: a load that a refresh has superseded lists what it read all the *)
(* same.                                                                   *)
ListsAny(r) ==
    /\ r.at = "loaded"
    /\ loads' = loads \ {r}
    /\ shown' = [there |-> TRUE, list |-> r.read]

(* The effect of useWalletRegistry: only the load of the last refresh is   *)
(* live.                                                                   *)
Lists(r) ==
    /\ r.at = "loaded"
    /\ loads' = loads \ {r}
    /\ shown' = IF r.version = refreshes THEN [there |-> TRUE, list |-> r.read] ELSE shown

HookLoads(r) ==
    /\ \/ \E at \in {"seed", "unmark", "read"} :
            LET q == [r EXCEPT !.at = at] IN
              /\ Migrates(r, q)
              /\ loads' = (loads \ {r}) \cup {q}
              /\ UNCHANGED <<shown, misread>>
       \/ \E list \in {stored, {}} :
              /\ Reads(r, list, "hook")
              /\ loads' = (loads \ {r}) \cup {[r EXCEPT !.at = "loaded", !.read = list]}
              /\ UNCHANGED <<storage, shown>>
       \/ Lists(r) /\ UNCHANGED <<storage, faults, misread>>
    /\ UNCHANGED <<directories, refreshes, flows, appView, engine, acts, used, doomed, succeeded,
                   crossed>>

(* refresh()                                                               *)
Refresh ==
    /\ refreshes' = refreshes + 1
    /\ loads' = loads \cup {LoadOf(refreshes')}
    /\ UNCHANGED shown

-----------------------------------------------------------------------------
(* What the app renders                                                    *)

Active == {x \in shown.list : x.id = selection}

PreStart ==
    IF ~shown.there THEN "loading"
    ELSE IF form = "list" /\ shown.list = {} THEN "create" ELSE form

NativeScreen ==
    CASE enginePhase \in {"loading", "starting", "stopping"} -> "loading"
      [] enginePhase = "runtimeReady" -> PreStart
      [] enginePhase = "needsWallet" ->
           IF \A x \in Active : x.walletKind = "none" THEN "onboarding"
           ELSE IF guess # Nobody THEN "guessAgain" ELSE "dataMissing"
      [] enginePhase = "locked" -> "unlock"
      [] enginePhase \in {"syncing", "restoring"} -> "syncing"
      [] enginePhase = "stopped" -> IF Active # {} THEN "stopped" ELSE PreStart
      [] enginePhase = "error" -> "error"
      [] enginePhase = "ready" ->
           IF ~backedUp /\ phrase # Nobody THEN "backup" ELSE "dashboard"

(* What getInfo() may answer.                                              *)
RuntimeInfos ==
    LET states == IF <<runtime.entry, runtime.network>> \notin directories THEN {"none"}
                  ELSE IF runtime.open THEN {"syncing", "ready"} ELSE {"locked"}
    IN {[walletState |-> state, walletReady |-> state = "ready"] : state \in states}

-----------------------------------------------------------------------------
(* The flows                                                               *)

Proceeds(f, at) == flows' = (flows \ {f}) \cup {[f EXCEPT !.at = at]}
Leaves(f) == flows' = flows \ {f}

Opening(fs) == \E g \in fs : g.at \in {"starting", "overtaken"}

(* openWallet, in the flow f and from the phase p: a legacy entry without  *)
(* a guess goes to the picker, a second opening is ignored, and start() is *)
(* refused while the engine is stopping.                                   *)
OpensIn(f, entry, override, p) ==
    LET others == flows \ {f} IN
      IF entry.network = Nobody /\ override = Nobody
      THEN /\ selection' = entry.id /\ form' = "chooseNetwork"
           /\ flows' = others /\ enginePhase' = p
           /\ UNCHANGED <<guess, onboarding>>
      ELSE IF Opening(others)
      THEN /\ flows' = others /\ enginePhase' = p
           /\ UNCHANGED <<selection, form, guess, onboarding>>
      ELSE /\ selection' = entry.id /\ guess' = override /\ onboarding' = f.mode
           /\ enginePhase' = PM!Transition(p, "startRequested")
           /\ flows' = IF p = "stopping" THEN others
                ELSE others \cup
                  {[f EXCEPT !.at = "starting", !.entry = entry.id,
                             !.network = IF override # Nobody THEN override ELSE entry.network]}
           /\ UNCHANGED form

(* A daemon that is still up is not started again; its info answers.  A    *)
(* start that a stop has overtaken no longer moves the phase.              *)
StartLandsIn(f) ==
    /\ f.at \in {"starting", "overtaken"}
    /\ Leaves(f)
    /\ runtime' = IF runtime.entry # Nobody THEN runtime
                  ELSE [entry |-> f.entry, network |-> f.network, open |-> FALSE]
    /\ UNCHANGED directories
    /\ \E i \in RuntimeInfos' :
         /\ enginePhase' = IF f.at = "starting" THEN PM!OnInfo(enginePhase, i) ELSE enginePhase
         /\ backedUp' = i.walletReady
    /\ UNCHANGED <<storage, registryHook, selection, form, guess, onboarding, phrase, bounds, past>>

StartFailsIn(f) ==
    /\ f.at \in {"starting", "overtaken"}
    /\ Leaves(f)
    /\ enginePhase' = IF f.at = "starting" THEN PM!Transition(enginePhase, "startFailed")
                      ELSE enginePhase
    /\ runtime' = Stopped
    /\ UNCHANGED <<storage, directories, registryHook, appView, bounds, past>>

(* stop(), in a flow that goes on as f.                                    *)
StopsIn(f, others) ==
    /\ enginePhase' = PM!Transition(enginePhase, "stopRequested")
    /\ flows' = {f} \cup
         {IF g.at = "starting" THEN [g EXCEPT !.at = "overtaken"] ELSE g : g \in others}

(* backToWallets, recoverWithPhrase and wipeAll end on the list.           *)
Resets(kind) ==
    /\ selection' = Nobody /\ guess' = Nobody /\ form' = kind
    /\ phrase' = Nobody /\ backedUp' = FALSE
    /\ UNCHANGED onboarding

(* A flow goes on whether or not its stop succeeded; p is the phase after. *)
GoesOnAfterStop(f, p) ==
    \/ /\ f.at = "leaving"
       /\ Leaves(f)
       /\ Resets(IF f.op = "recover" THEN "restore" ELSE "list")
       /\ enginePhase' = p
    \/ /\ f.at = "stopping" /\ f.op # "guess"
       /\ Proceeds(f, "root")
       /\ enginePhase' = p
       /\ UNCHANGED appView
    \/ /\ f.at = "stopping" /\ f.op = "guess"
       /\ OpensIn(f, Entry(f.entry, Nobody, "password"), f.network, p)
       /\ UNCHANGED <<phrase, backedUp>>

StopLandsIn(f) ==
    /\ GoesOnAfterStop(f, PM!Transition(enginePhase, "stopCompleted"))
    /\ runtime' = Stopped
    /\ UNCHANGED <<storage, directories, registryHook, bounds, past>>

StopFailsIn(f) ==
    /\ GoesOnAfterStop(f, PM!Transition(enginePhase, "stopFailed"))
    /\ UNCHANGED <<storage, directories, registryHook, runtime, bounds, past>>

-----------------------------------------------------------------------------
(* Deleting                                                                *)

(* The directories below that of an entry; the legacy one is the root.     *)
Below(e) == {d \in directories : e = Legacy \/ d[1] = e}

(* Mutant: the legacy entry's directory is deleted like any other.         *)
WipesRoot(f) ==
    /\ f.op \in {"remove", "removeBack"}
    /\ directories' = directories \ Below(f.entry)
    /\ Proceeds(f, "check")
    /\ UNCHANGED doomed

(* removeEntry: wipeLocalData of the entry, unless that is the root.       *)
Wipes(f) ==
    /\ f.op \in {"remove", "removeBack"}
    /\ directories' = IF f.entry = Legacy THEN directories ELSE directories \ Below(f.entry)
    /\ Proceeds(f, "check")
    /\ UNCHANGED doomed

(* wipeAll deletes the root, and all that is there by then.                *)
WipesAll(f) ==
    /\ f.op = "wipeAll"
    /\ directories' = {}
    /\ Proceeds(f, "clear")
    /\ doomed' = used

(* A deletion that fails is swallowed.                                     *)
WipeFails(f) ==
    /\ f.op \in {"remove", "removeBack", "wipeAll"}
    /\ Proceeds(f, IF f.op = "wipeAll" THEN "clear" ELSE "check")
    /\ UNCHANGED <<directories, doomed>>

Deletes(f) ==
    /\ f.at = "root"
    /\ Wipes(f) \/ WipesAll(f) \/ WipeFails(f)
    /\ UNCHANGED <<storage, registryHook, appView, engine, bounds, used, misread, succeeded,
                   crossed>>

(* A setup only asks where its directory will be.                          *)
SetupIsPlaced(f) ==
    /\ f.op = "setup" /\ f.at = "root"
    /\ Proceeds(f, "check")
    /\ UNCHANGED <<storage, directories, registryHook, appView, engine, bounds, past>>

(* getDefaultDataDir() rejects, and the flow with it.                      *)
RootFails(f) ==
    /\ f.at = "root"
    /\ Fault
    /\ Leaves(f)
    /\ UNCHANGED <<storage, directories, registryHook, appView, engine, acts, past>>

(* wipeAll clears the list and the old keys.                               *)
Clears(f) ==
    /\ f.at = "clear"
    /\ written' = FALSE /\ stored' = {} /\ markers' = FALSE
    /\ Leaves(f)
    /\ doomed' = used
    /\ Refresh
    /\ Resets("list")
    /\ UNCHANGED <<directories, engine, bounds, used, misread, succeeded, crossed>>

ClearFails(f) ==
    /\ f.at = "clear"
    /\ Fault
    /\ Leaves(f)
    /\ UNCHANGED <<storage, directories, registryHook, appView, engine, acts, past>>

-----------------------------------------------------------------------------
(* Changing the list                                                       *)

(* The list a flow writes: addWallet, removeWallet, updateWallet.          *)
Edited(f) ==
    CASE f.op = "setup" -> f.read \cup {Entry(f.entry, f.network, "none")}
      [] f.op \in {"remove", "removeBack"} -> {x \in f.read : x.id # f.entry}
      [] f.op = "stamp" ->
           {IF x.id = f.entry
            THEN Entry(x.id, IF f.network # Nobody THEN f.network ELSE x.network, "password")
            ELSE x : x \in f.read}
      [] f.op = "unstamp" ->
           {IF x.id = f.entry THEN Entry(x.id, x.network, "none") ELSE x : x \in f.read}

FlowLoads(f) ==
    /\ \/ \E at \in {"seed", "unmark", "read"} :
            LET q == [f EXCEPT !.at = at] IN
              /\ Migrates(f, q)
              /\ flows' = (flows \ {f}) \cup {q}
              /\ misread' = IF f.at = "seed" /\ at = "read" THEN misread \cup {"change"} ELSE misread
       \/ \E list \in {stored, {}} :
              /\ Reads(f, list, "change")
              /\ flows' = (flows \ {f}) \cup {[f EXCEPT !.at = "save", !.read = list]}
              /\ UNCHANGED storage
    /\ UNCHANGED <<directories, registryHook, appView, engine, acts, used, doomed, succeeded,
                   crossed>>

(* What follows the change: the setup opens its entry, a removal on the    *)
(* screen of the wallet leaves it.                                         *)
Saved(f) ==
    /\ Refresh
    /\ \/ f.op = "setup" /\ OpensIn(f, Entry(f.entry, f.network, "none"), Nobody, enginePhase)
       \/ /\ f.op = "removeBack" /\ StopsIn([f EXCEPT !.at = "leaving"], flows \ {f})
          /\ UNCHANGED <<selection, form, guess, onboarding>>
       \/ /\ f.op \in {"remove", "stamp", "unstamp"} /\ Leaves(f)
          /\ UNCHANGED <<selection, form, guess, onboarding, enginePhase>>
    /\ UNCHANGED <<phrase, backedUp, runtime>>

Saves(f) ==
    /\ f.at = "save"
    /\ written' = TRUE /\ stored' = Edited(f)
    /\ Saved(f)
    /\ UNCHANGED <<markers, directories, bounds, past>>

(* A write that fails is swallowed.                                        *)
SaveFails(f) ==
    /\ f.at = "save"
    /\ Fault
    /\ Saved(f)
    /\ UNCHANGED <<storage, directories, acts, past>>

-----------------------------------------------------------------------------
(* The user                                                                *)

Act == acts < MaxActs /\ acts' = acts + 1

Room == Cardinality(flows) < MaxFlows

Begins(f) ==
    /\ Act /\ Room
    /\ flows' = flows \cup {[f EXCEPT !.n = acts]}
    /\ UNCHANGED <<storage, directories, registryHook, engine, faults, misread, succeeded, crossed>>

BeginsWithStop(f) ==
    /\ Act /\ Room
    /\ StopsIn([f EXCEPT !.n = acts], flows)
    /\ UNCHANGED <<storage, directories, registryHook, appView, runtime, faults, used, misread,
                   succeeded, crossed>>

(* A tap on an entry, a network in the picker, "Try again".                *)
TapsOpen(entry, override, mode) ==
    /\ Act /\ Room
    /\ OpensIn([Flow EXCEPT !.mode = mode, !.n = acts], entry, override, enginePhase)
    /\ UNCHANGED <<storage, directories, registryHook, phrase, backedUp, runtime, faults, past>>

OpensListed == NativeScreen = "list" /\ \E x \in shown.list : TapsOpen(x, Nobody, "create")

(* Mutant: the pick itself is recorded.                                    *)
PicksRecording(network) ==
    /\ NativeScreen = "chooseNetwork"
    /\ \E x \in Active :
         Begins([Flow EXCEPT !.op = "stamp", !.at = "check", !.entry = x.id, !.network = network])
    /\ UNCHANGED <<appView, used, doomed>>

Picks(network) ==
    /\ NativeScreen = "chooseNetwork"
    /\ \E x \in Active : TapsOpen(x, network, "create")

(* retryStart, with an active entry and without one.                       *)
Retries ==
    /\ NativeScreen = "error"
    /\ \E x \in Active : TapsOpen(x, guess, onboarding)

LeavesWallet(op) ==
    /\ \/ op = "back" /\ NativeScreen \in {"chooseNetwork", "guessAgain", "onboarding", "unlock",
                                           "stopped", "error", "dashboard"}
       \/ op = "recover" /\ NativeScreen = "unlock"
    /\ BeginsWithStop([Flow EXCEPT !.op = op, !.at = "leaving"])
    /\ UNCHANGED doomed

GuessesElse(network) ==
    /\ NativeScreen = "guessAgain"
    /\ BeginsWithStop([Flow EXCEPT !.op = "guess", !.at = "stopping", !.entry = selection,
                                   !.network = network])
    /\ UNCHANGED doomed

(* submitSetup: its directory is below the root.                           *)
Submits(e, network) ==
    /\ NativeScreen \in {"create", "restore"}
    /\ e \notin used
    /\ Begins([Flow EXCEPT !.op = "setup", !.at = "root", !.entry = e, !.network = network,
                           !.mode = NativeScreen])
    /\ used' = used \cup {e}
    /\ UNCHANGED <<appView, doomed>>

(* removeEntry from the list; the runtime is stopped first if it runs the  *)
(* active entry.                                                           *)
RemovesListed ==
    /\ NativeScreen = "list"
    /\ \E x \in shown.list :
         LET f == [Flow EXCEPT !.op = "remove", !.entry = x.id] IN
           /\ doomed' = doomed \cup {x.id}
           /\ IF x.id = selection THEN BeginsWithStop([f EXCEPT !.at = "stopping"])
              ELSE Begins([f EXCEPT !.at = "root"]) /\ UNCHANGED <<appView, used>>

(* wipeCurrentEntry, and "Remove" on the data-missing screen.              *)
RemovesActive ==
    /\ NativeScreen \in {"dataMissing", "unlock", "error", "dashboard"}
    /\ \E x \in Active :
         /\ doomed' = doomed \cup {x.id}
         /\ BeginsWithStop([Flow EXCEPT !.op = "removeBack", !.at = "stopping", !.entry = x.id])

ClearsAll ==
    /\ NativeScreen = "list"
    /\ doomed' = used
    /\ BeginsWithStop([Flow EXCEPT !.op = "wipeAll", !.at = "stopping"])

ShowsSetup(kind) ==
    /\ NativeScreen \in {"list", "create", "restore"}
    /\ Act
    /\ form' = kind /\ form' # form
    /\ UNCHANGED <<storage, directories, registryHook, flows, selection, guess, onboarding, phrase,
                   backedUp, engine, faults, past>>

SetsUpAnew ==
    /\ NativeScreen = "dataMissing"
    /\ Begins([Flow EXCEPT !.op = "unstamp", !.at = "check", !.entry = selection])
    /\ onboarding' = "restore"
    /\ UNCHANGED <<selection, form, guess, phrase, backedUp, used, doomed>>

Acknowledges ==
    /\ NativeScreen = "backup"
    /\ backedUp' = TRUE /\ phrase' = Nobody
    /\ UNCHANGED <<storage, directories, registryHook, flows, selection, form, guess, onboarding,
                   engine, bounds, past>>

-----------------------------------------------------------------------------
(* The wallet calls                                                        *)

(* The callback of a call knows the selection and the guess of the render  *)
(* it was made in.                                                         *)
CallsRuntime(op) ==
    /\ \/ NativeScreen = "onboarding" /\ op = onboarding
       \/ NativeScreen = "unlock" /\ op = "unlock"
    /\ Begins([Flow EXCEPT !.op = op, !.at = "call", !.entry = selection, !.network = guess])
    /\ UNCHANGED <<appView, used, doomed>>

(* Does the daemon that is up run what the call was made for?              *)
MadeFor(f) == f.entry = runtime.entry /\ f.network \in {Nobody, runtime.network}

RuntimeDoes(f) ==
    /\ f.at = "call"
    /\ runtime.entry # Nobody
    /\ f.op = "unlock" <=> <<runtime.entry, runtime.network>> \in directories
    /\ Proceeds(f, "called")
    /\ directories' = directories \cup {<<runtime.entry, runtime.network>>}
    /\ runtime' = [runtime EXCEPT !.open = TRUE]
    /\ succeeded' = succeeded \cup {<<runtime.entry, runtime.network>>}
    /\ crossed' = (crossed \/ ~MadeFor(f))
    /\ UNCHANGED <<storage, registryHook, appView, enginePhase, bounds, used, doomed, misread>>

(* onWalletCreated, onWalletRestored, onWalletUnlocked: the change of the  *)
(* entry is not awaited.                                                   *)
CallReturns(f) ==
    /\ f.at = "called"
    /\ \/ runtime.entry # Nobody /\ \E i \in RuntimeInfos : enginePhase' = PM!OnInfo(enginePhase, i)
       \/ enginePhase' = PM!Transition(enginePhase, "walletAdoptionFailed")
    /\ IF f.entry = Nobody THEN Leaves(f) /\ UNCHANGED guess
       ELSE /\ flows' = (flows \ {f}) \cup {[f EXCEPT !.op = "stamp", !.at = "check"]}
            /\ guess' = Nobody
    /\ phrase' = IF f.op = "create" THEN f.entry ELSE IF f.op = "restore" THEN Nobody ELSE phrase
    /\ backedUp' = (f.op # "create")
    /\ UNCHANGED <<storage, directories, registryHook, selection, form, onboarding, runtime, bounds,
                   past>>

CallIsRejected(f) ==
    /\ f.at \in {"call", "called"}
    /\ Leaves(f)
    /\ UNCHANGED <<storage, directories, registryHook, appView, engine, bounds, past>>

(* The runtime dies, and the client announces it.                          *)
RuntimeEnds ==
    /\ Act
    /\ runtime.entry # Nobody
    /\ runtime' = Stopped
    /\ enginePhase' = PM!Transition(enginePhase, "runtimeStopped")
    /\ UNCHANGED <<storage, directories, registryHook, flows, appView, faults, past>>

SyncEndsIn(e) ==
    /\ enginePhase = "syncing"
    /\ enginePhase' = PM!Transition(enginePhase, e)
    /\ UNCHANGED <<storage, directories, registryHook, flows, appView, runtime, bounds, past>>

(* The app is killed and launched again.                                   *)
Relaunches ==
    /\ Act
    /\ shown' = NotLoaded /\ refreshes' = 0 /\ loads' = {LoadOf(0)}
    /\ flows' = {}
    /\ selection' = Nobody /\ form' = "list" /\ guess' = Nobody
    /\ onboarding' = "create" /\ phrase' = Nobody /\ backedUp' = FALSE
    /\ enginePhase' = "runtimeReady" /\ runtime' = Stopped
    /\ UNCHANGED <<storage, directories, faults, past>>

FlowSteps(f) ==
    \/ StartLandsIn(f) \/ StartFailsIn(f) \/ StopLandsIn(f) \/ StopFailsIn(f)
    \/ SetupIsPlaced(f) \/ Deletes(f) \/ RootFails(f) \/ Clears(f) \/ ClearFails(f)
    \/ FlowLoads(f) \/ Saves(f) \/ SaveFails(f)
    \/ RuntimeDoes(f) \/ CallReturns(f) \/ CallIsRejected(f)

WalletsNext ==
    \/ \E r \in loads : HookLoads(r)
    \/ \E f \in flows : FlowSteps(f)
    \/ OpensListed \/ Retries \/ RemovesListed \/ RemovesActive \/ ClearsAll
    \/ SetsUpAnew \/ Acknowledges \/ RuntimeEnds \/ Relaunches
    \/ \E network \in Networks : Picks(network) \/ GuessesElse(network)
    \/ \E e \in WalletIds, network \in Networks : Submits(e, network)
    \/ \E op \in {"back", "recover"} : LeavesWallet(op)
    \/ \E kind \in {"list", "create", "restore"} : ShowsSetup(kind)
    \/ \E op \in {"create", "restore", "unlock"} : CallsRuntime(op)
    \/ \E e \in {"walletBecameReady", "syncPollExhausted"} : SyncEndsIn(e)

WalletsSpec == WalletsInit /\ [][WalletsNext]_walletsVars

-----------------------------------------------------------------------------
(* Properties                                                              *)

(* No wallet is deleted from the disk but one the user removed: a removal  *)
(* deletes no directory of another, and none is deleted twice over by a    *)
(* flow that is late.                                                      *)
OthersSurvive == \A d \in succeeded : d[1] \in doomed \/ d \in directories

(* What the hook shows is the list that is stored, once every change and   *)
(* every load has ended, in whatever order they did.                       *)
ListIsFresh == shown.there /\ loads = {} /\ flows = {} => shown.list = stored

(* The legacy wallet is not lost: until the user removes it, it is listed, *)
(* or there is no list yet and the next load will migrate it.              *)
LegacyIsKept ==
    \/ Legacy \in doomed
    \/ \E x \in stored : x.id = Legacy
    \/ markers /\ ~written

(* "... records the unlock mode ... on the registry entry" and "persisted  *)
(* only after a successful unlock proves the guess right": an entry is     *)
(* marked as a wallet, and the legacy one with a network, only where a     *)
(* call of that wallet succeeded, on its network, as long as no call was   *)
(* executed by the daemon of another.                                      *)
MarksAreProven ==
    ~crossed => \A x \in stored :
        x.walletKind # "none" \/ (x.id = Legacy /\ x.network # Nobody) =>
            \E d \in succeeded : d[1] = x.id /\ x.network \in {Nobody, d[2]}

(* The registry tells the truth of the device however loads and changes    *)
(* interleave, the app is killed and storage fails, with two exceptions: a *)
(* change that could not read the list, or not migrate the legacy wallet   *)
(* first, writes a list without what it did not see; and once a load of    *)
(* the hook could not read the list, nothing is said of what is shown.     *)
RegistryIsTrue ==
    "change" \notin misread => LegacyIsKept /\ ("hook" \notin misread => ListIsFresh)

-----------------------------------------------------------------------------
(* Claims of comments that the code does not keep                          *)

(* "The caller MUST stop the runtime first so the daemon's SQLite handles  *)
(* are closed."                                                            *)
WipesAreOffline ==
    [][\A d \in directories \ directories' : <<runtime.entry, runtime.network>> # d]_walletsVars

(* "... the entry removal must proceed regardless": an entry that was      *)
(* removed does not come back, for only a setup lists an entry.            *)
RemovalsStick ==
    [][\A f \in flows : f.op # "setup" /\ Saves(f) =>
         \A x \in stored' : \E y \in stored : y.id = x.id]_walletsVars

(* "Non-fatal: an unreadable AsyncStorage just yields an empty registry":  *)
(* the legacy wallet is listed, or will be, until the user removes it.     *)
UnreadableIsNotLost == LegacyIsKept

(* "... records the unlock mode ... on the registry entry": an entry that  *)
(* is recorded as a finished wallet of a network is one.                   *)
EntriesAreProven ==
    \A x \in stored :
        x.network # Nobody /\ x.walletKind # "none" => <<x.id, x.network>> \in succeeded

(* "... persisted only after a successful unlock proves the guess right":  *)
(* an unlock proves no network but that of the migrated wallet.            *)
GuessesAreUnlocked ==
    ~crossed => \A x \in stored : x.id = Legacy => x.network \in {Nobody, Home}
=============================================================================
