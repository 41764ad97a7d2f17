# A TLA+ model of wavelength-sdk

wavelength-sdk embeds a Lightning wallet daemon in a web page or a mobile app.
The SDK itself holds no funds and routes no payment: the daemon does.  What the
SDK owns, and what can go wrong in it, is *coordination*: which phase the
wallet is in, which of many overlapping calls has the last word, who may have
the databases open, which bytes run, and whether what the user sees, confirms
and deletes is what the daemon has.  That is what these modules model, check
and prove.

Paths below are relative to the repository's root; `core` is
`packages/core/src`, `web` is `packages/web/src`, `rn` is
`packages/react-native/src`, `react` is `packages/react/src`, `web-demo` and
`rn-demo` are `apps/web-wallet-demo/src` and `apps/rn-wallet-demo/src`.

1. The system
2. The modules
3. What is checked
4. What is proved
5. Disagreements with the documentation
6. Bounds, fairness, abstractions
7. Not modelled
8. Plan
9. Running the checks

## 1. The system

    demo apps: screens, registry of wallets, deletions from the disk
            |  hooks (mutation state, read hooks, polls)
            v
    React bindings
            |  start, stop, refresh, wallet calls      ^ snapshot
            v                                          |
    wallet engine ---- phase machine
      |   |   |
      |   |   +-- sync poll, restore poll  (pollers)
      |   +------ settle reconciler -- chain of background refreshes
      +---------- activity stream
            |  calls                                   ^ answers, events
            v                                          |
    transport client: worker | main thread | React Native
            |                    |
            |                    +-- runtime lock (Web Locks, across tabs)
            |                    +-- runtime loader -- Cache Storage
            v
    daemon (WebAssembly in a worker or the page; a native library in an app)

| Component | State | Operations | What is hard |
|---|---|---|---|
| Phase machine (`core/engine/machine.ts`, `core/state.ts`) | none: a function of phase and event | `transition`, `phaseFromInfo` | events that arrive in a phase that no longer expects them |
| Wallet engine (`core/engine/engine.ts`) | snapshot (phase, info, balance, activity, error, recovery), the restore promise, stop counter, refresh chain and its failure budget | `start`, `stop`, `refresh`, `restoreWallet`, wallet and payment calls, `dispose` | every call is suspended at one or more awaits; any other call, a poll, or the death of the runtime may run in between |
| Poller (`core/engine/poller.ts`) | timer, failures, in-flight flag | `start`, `stop`, tick | a tick in flight over a stop and a start |
| Settle reconciler (`core/engine/reconcile.ts`) | generation, timer | `trigger`, `cancel` | retired cycles whose refresh is in flight; a balance that lags |
| Activity stream (`core/engine/activity.ts`) | running, lifecycle number, cursor, preimages, opening, retry and debounce timers | `start`, `stop`, `noteActivity`, `noteStreamLost` | answers and events of a stopped lifecycle; a loss while an opening is in flight |
| Exit batches (`core/exit.ts`) | none across calls | `exitBatch` | a plan before each exit, exits that others start, refusals half way |
| Destinations (`core/destination.ts`) | none | `classifyDestination` | the exact conversion of an invoice's amount |
| Runtime lock (`web/runtime-lock.ts`) | idle, acquiring, held, settling; lease counter | `acquire`, `releaseAndSettle`, `held` | the browser frees a lock some turns after it was released; releases of an old session |
| Worker web client (`web/clients/worker.ts`, `core/base-client.ts`) | worker, lease, exited, disposed, pending requests | `start`, `stop`, calls, worker messages, `dispose` | the worker dies at any await; late messages of a replaced worker; other tabs |
| Worker script (`web/wavewalletdk-worker.js`) | load state, activity handle | loading, RPCs, `$startActivity`, `$stopActivity` | a subscribe that resolves after a stop |
| Main-thread web client (`web/clients/main.ts`) | load promise, exited, lease; the page's bridge to a Go runtime | as the worker client | a runtime that cannot be killed: a failed stop keeps the lock; several clients on a page share the bridge and may each run a runtime |
| Runtime loader, cache, integrity (`web/runtime.ts`, `runtime-cache.ts`, `integrity.ts`) | script promises of a document; Cache Storage, shared by tabs | load, verify, store, prune, drop superseded | two loads, full disks, rotten entries, hosts that are redeployed file by file |
| React Native client (`rn/client.ts`, the Kotlin and Objective-C modules) | `streamOpen`, a chain of calls; native subscription and pump threads | `start`, `stop`, `startActivity`, `stopActivity`, native events | events of pump threads against settled calls; starts and stops are not queued |
| Passkeys (`rn/passkey.ts`, `web/passkey.ts`, `react/useWalletPasskey.ts`) | none across calls | ceremonies with a timeout and a fallback | an answer after the timeout; cut or padded key material |
| React bindings (`react`) | mutation state of each hook, the batch in flight, read hooks | mutate, reset, refresh | overlapping calls of one hook |
| Web demo (`web-demo`) | registry in `localStorage`, routing, screens, polls | send, receive, exit, setup, unlock, removal | late quotes, unknown fates of payments, guesses of the network, stops that fail |
| React Native demo (`rn-demo`) | registry in AsyncStorage, directories on the disk | as the web demo, with migration and deletion | read-modify-write across awaits, the app killed at any step |
| Conversions (`core/config.ts`, `requests.ts`, `facade.ts`, `response-normalization.ts`, `errors.ts`, ...) | none | pure functions | nothing to interleave |

What makes each part correct:

- *Engine.*  No transient phase without the call that ends it.  `stop()` wins
  over everything issued before it.  A stopped wallet shows no funds.
  Background processes follow the phase, tick once at a time, and end.  A
  restore's promise and banner always settle.
- *Lock and web clients.*  The databases of one lock name are open in one tab at
  most.  A lock is held exactly as long as a daemon may have them open, where a
  page runs one daemon at a time; a dead runtime strands nothing of its own client;
  the host knows whether its daemon runs.  Every
  request is settled by its own worker's answer, or rejected.
- *Loader.*  Where digests are checked, only the release's own bytes run; no
  content of the cache, and no failure of it, makes a load fail.
- *Activity.*  While the wallet is ready it has a subscription, or something
  under way that will get it one or give up.  A stopped stream leaves no
  subscription.  No change of the journal is missed.
- *Screens.*  What can be confirmed is the answer to the newest request for a quote
  and was never confirmed before; that the form still holds what was quoted is not
  kept (`ReviewedIsShown`, section 5).  A batch of exits accounts for every output, and
  forces what the user has seen.  What is on the screen does not go backwards
  and does not wait for ever.
- *Registry.*  An entry records what was proven of its wallet, as long as the calls
  made for it were carried out by its own daemon; no crash loses one; no deletion
  takes another's data.  A read that fails may lose one (section 5).
- *Passkeys.*  Key material is whole or the ceremony fails, and it ends.

`PROJECT.json` lists every hazard of this kind with the line where it bites and
the properties that look after it.

## 2. The modules

| Module | Models | Used by |
|---|---|---|
| `PhaseMachine` | `transition()` as accepting phases and a target per event, `phaseFromInfo()` | the engine and the two apps |
| `WalletEngine` | the engine over any client: every call and continuation | `MCWalletEngine`, `WalletEngineProofs` |
| `Poller` | the poller, as operations on its fields | `EngineReads` |
| `SettleReconciler` | the reconciler on the refresh chain, with a daemon whose balance lags | `EngineReads` |
| `EngineReads` | everything the engine reads of its own accord: sync poll, background refreshes, reconciler, with foreground reads, starts and stops | `EngineReadsProofs` |
| `RuntimeLock` | the lock in each tab over the browser's Web Locks; actions without a `Next` | the two web clients |
| `WalletDatabases` | abstract: who may have databases open | refined by `WorkerClient` and `MainClient` |
| `WorkerClient` | the lifecycle of the worker client in every tab, composed with `RuntimeLock` | `MCWorkerClient`, `WorkerRequests` |
| `WorkerRequests` | requests and answers of one page under that lifecycle | `MCWorkerRequests`, `WorkerRequestsProofs` |
| `MainClient` | the lifecycle of the main-thread clients and the runtimes they run on a page, composed with `RuntimeLock` | `MCMainClient`, `MainClientProofs` |
| `RuntimeCache` | the operations on Cache Storage | `RuntimeLoader` |
| `RuntimeLoader` | loads: scripts, cached or fetched wasm in two forms, verification, detached stores | `MCRuntimeLoader`, `RuntimeLoaderProofs` |
| `ActivityStream` | the engine's activity stream with two message queues towards a client; actions without a `Next` | the next two |
| `WebActivity` | the relay in the worker or in the main-thread client | run directly, `WebActivityProofs` |
| `NativeActivity` | the React Native client, the native module and its pump threads | `NativeApp` |
| `Base64Url` | the codec of key material | `NativePasskeys` |
| `NativePasskeys` | ceremonies, prompts, the passkey hook and the screens that use it | `NativeApp` |
| `NativeWallets` | the app's registry in AsyncStorage, its handlers, its deletions | `NativeApp` |
| `NativeApp` | one of the three, picked at the start | `MCNativeApp`, `NativeAppProofs` |
| `MutationState` | the state behind every hook, as operations | the screens |
| `Destination` | classes of pasted texts | `SendFlow` |
| `SendFlow`, `ReceiveFlow`, `ExitFlow`, `ExitScreen`, `StatusPanel`, `WalletApp` | the web demo's screens and its registry, each with its hooks | `Screens` |
| `Screens` | one of the six, picked at the start | `MCScreens`, `ScreensProofs` |
| `WalletEngineProofs`, `WorkerRequestsProofs`, `MainClientProofs`, `EngineReadsProofs`, `RuntimeLoaderProofs`, `WebActivityProofs`, `NativeAppProofs`, `ScreensProofs` | theorems: section 4 | |

`NativeApp` and `Screens` are disjoint unions: the parts share no state but the
engine's, of which each has what it needs, so one run asks all their questions
without the product of their states.

**Engine.**  JavaScript runs to the next `await`, so a handler up to an await is
one action and its continuation another.  A host call takes a slot of `tasks`,
and its field `at` names the await: `rpc` (the client's answer), `fetch` (the
reads of `#fetchAll`), `acked` (a stop the client acknowledged), `adopt` and
`sleep` (`#adoptInfo` and its retries), `adoptUp` and `probe` (the two ends of a
`createWallet`).  `Start`, `Stop`, `RestoreWallet`, ... are the calls;
`StartResolves`, `StopRejects`, `ProbeFindsNone`, ... their continuations.
`Move` is `#dispatch` with `#reconcileProcesses`, which every change of phase
runs.  `lifecycle` is the client's queue of starts and stops: the web clients
have one (`Serial`), the React Native client has none.  The snapshot is
presence: is there an info (and which), are balance and activity filled in, is
there an error.  `StopAcknowledged` also emits `runtimeStopped`, as
`base-client.ts` does before `stop()` resolves.  `wanted` is history: the
host's last word.

**Reads.**  `EngineReads` looks at the reads where `WalletEngine` looks at the
calls: the wallet has a state that moves, reads answer with it or fail, and the
polls are the real ones instead of switches.  A tick in flight survives a stop
and a start of its poll and settles into the new run; `chain` is the queue of
background refreshes, of which the reconciler's probes are some; `failures` is
their budget.

**Lock and web clients.**  `lock` is `#state`, `lastLease` mints leases, `holder`
is the browser's truth.  `Release` asks, `Free` is the browser, `Settle` is the
continuation of the request promise: three actions, in that order, with the
other tabs in between.  `op[c].at` says where the running `start()` or `stop()`
is suspended: a start goes `acquire`, `waiting`, `granted`, `boot`; what follows
a refusal differs.  The worker client kills its worker and goes `failing`,
`releasing`; the main-thread client asks the daemon to stop (`recover`) and keeps
the lock if that fails.  `Kills` and `WorkerDies`, `Exits` of a runtime in a page,
may hit any of them.  A main-thread client looks for the bridge of its page once
(`LoadBegins`) and runs Go after its fetches (`Loads`), whatever the others of the
page did in between: `run` is each client's own runtime, `caller` the one behind
the bridge, which the last to be installed takes over, and `op[c].on` the one a call
was sent to.  `doubled` is history: did the page run one runtime beside another?
`open` is where a daemon may have its databases open,
`seen` what a host that keys on events believes.  `WorkerRequests` adds the map of
promises: ids, the worker each request was posted to, answers on their way.

**Loader.**  A load is one `ensureLoaded()` of one client.  `Layouts` says which
loads share a document, and so the promises of `scriptLoads`.  A bucket has an
identity of its own, as a `Cache` object outlives the deletion of its name.
Stores and clean-up are detached from the load and end with the document, and any
operation on the cache may fail: an entry is not found, not stored or not evicted,
and a prune leaves any part of what it meant to delete (`torn` is history: buckets
whose last prune failed or was cut off).
`Verdict` is the digest check and the compilation; bytes are those of a release,
or `Broken`.

**Activity.**  The engine's end is `ActivityStream`: `Open` sends a call with
its lifecycle and cursor, `OpenResolves` and `OpenRejects` handle the answer,
`NoteActivity`, `NoteStreamLost`, `RetryFires`, `DebounceFires` the rest.  The
daemon's activity is a journal 1, 2, ...; cursor 0 replays all of it.
`WebActivity` adds `activityHandle`, `activityGeneration` and the subscribes in
flight; `thread` says whether the relay is in the worker, behind messages, or in
the client itself, where `stopActivity()` acts at once.  `NativeActivity` adds
`streamOpen` and the call at the head of `opChain`, the native field
`subscription`, and pump threads with a step for each window between lock and
send.

**Hooks and screens.**  A hook is `[generation, pending, error, data]`; `Track`
begins a call, `Fulfil` and `Reject` settle the one stamped with a generation.
A call of a screen that was left goes on and settles into nothing.  In
`SendFlow` a `prepare` is the race of a quote with its timer, `intents` are what
the daemon holds to be paid, `confirmed` is history.  `ExitFlow` is the loop of
`exitBatch()` with a plan before each exit; `ExitScreen` is the choice, its plans
and the dialog, with the batch as one call.  `ReceiveFlow` has the two polls that
hand a deposit over to each other.  `StatusPanel` polls one exit's status.
`WalletApp` is the registry and the routing of `App.tsx` over the phase machine.  A
wallet call is a record that knows the entry, the guess and the daemon of the press;
one with a password goes to that daemon, one with a passkey waits for the prompt
first and goes to whichever daemon is up then (`DaemonDoes`).  `waiting` are the
calls the mounted screen waits for, which take its buttons away; `strayed` is
history: the entries of a ceremony that another daemon carried out.

**Native app.**  In `NativeWallets` a handler of `WalletApp.tsx` is a flow whose
`at` is its await; `stored`, `markers` and the legacy key are the storage,
`directories` the disk.  `Relaunches` kills the app between any two steps, and a
storage call may fail; `misread` is history: who took a failed read for an empty
list, or went on without the migration.  The identity `Legacy` stands for the wallet
in the root directory, whichever id `newId()` gives the entry of it: a second seed
over the first gives it another one, which may leave an open screen without its
entry; that is not modelled.  In `NativePasskeys` a ceremony waits for a prompt, for
its fallback assertion or for the engine; prompts answer with text, which
`Base64Url` decodes to bytes or refuses.

## 3. What is checked

| Run | Question | States |
|---|---|---|
| `engine_restore` | restore against stop, death, a second restore and dispose: do background processes follow the phase (`ProcessOwnership`), is a promise, a banner or a transient phase ever stranded (`RestoreOwned`), and do they end (`RestoresEnd`, `TransientsEnd`)? | 0.1 M |
| `engine_wallet` | wallet calls, adoption with retries, late reads, all infos, overlapping starts and stops, over a client that does not queue: does stop win, do funds come back (`StopSafety`), is `starting` or `stopping` orphaned (`LifecycleOwned`)? | 0.4 M |
| `reads` | sync poll, background refreshes, probes and foreground reads overlap: one tick, one schedule, and only in their phase (`PollsAreOwned`); a late failure mislabels nothing (`ErrorsEscalate`); probes stop early only when nothing is due (`NothingDue`); polling ends (`ReadsEnd`) | 0.5 M |
| `worker_tabs` | two tabs, two names, deaths, replacements, closing tabs: refinement of `WalletDatabases` (`ExclusiveDatabases`), agreement of lock and browser (`LockMatchesBrowser`), nothing stranded, nothing running hidden (`SessionIsWhole`) | 0.6 M |
| `worker_requests` | calls in flight over a worker that dies and is replaced: answers settle their own call (`AnswersAreOwn`), every call and every start and stop ends (`HostIsAnswered`) | 0.4 M |
| `main_pages` | two pages with a client each, or one with two, whose runtimes boot, side by side or not, fail, exit and are disposed of: on a page that never ran two at once the lock covers every daemon, and no lock outlives the runtime of its client (`LockFollowsDaemon`), refinement of `WalletDatabases` by those pages, the host hears of an end only after its client's lock is free (`StoppedMeansFree`) | 0.7 M |
| `loader` | two loads, in one document or two, of two releases over one Cache Storage, any operation on which may fail: `VerifiedRuns`, `CacheIsSound`, `LoadsNeverWedge`, `MismatchIsFinal` | 2.9 M |
| `activity_web` | the relay in the worker and in the page: `NeverSilent`, `OneStream`, `CaughtUp`, `Recovers` | 0.2 M |
| `native_app` | what holds of native threads under every interleaving, and that starts and stops alone are clean (`AttachedLives`, `ClosedIsRetried`, `StopsAreClean`); deletions and the registry with an app killed at any step (`OthersSurvive`, `RegistryIsTrue`); an entry is marked as a wallet, and the migrated one with a guessed network, only where a call of it succeeded (`MarksAreProven`); ceremonies (`KeysAreTrue`, `PasskeysEnd`) | 2.1 M |
| `screens` | `ReviewIsSafe`, `ExitsAreSafe`, `StampsAreProven`, `StatusNeverRegresses`, `ScreensProgress` | 0.5 M |
| `doc_native_silent`, `doc_dismissed` | claims that fail: section 5 | |

Names such as `RestoreOwned` are conjunctions of named parts, each with its
comment in the module; a part that fails fails the whole.

Each property is broken by at least one plausible bug: `PROJECT.json` pairs it
with a mutant of a definition, for example `AnsweredAny` (the answer of a stopped
lifecycle is taken for the new one's) for `OneStream`.  The mutants stand in the
modules, before the definition they replace, marked `Mutant:` or `Mutation:`.

`WalletDatabases` is the abstract specification of the lock.  The mapping is
`users[n] = {c : open[c] = n}` for the worker clients, and for the main-thread
clients the pages with an open daemon, of those that never ran one runtime beside
another: what a page that did run two makes of its lock is part of the model, and
must not let two of the others open; opening requires that nobody, the tab
itself included, has the databases open.

## 4. What is proved

TLAPS checks eight proof modules for all values of the constants (any number of
slots, tabs, names, pages, loads, releases, entries, wallets, outputs, calls and
retries), under the named assumptions beside the CONSTANTS: types of the bounds,
and null values that are no members.  Where a theorem needs more, it says so
below.  Each module has one inductive invariant for each state machine, checked
with TLC on the instance of the run before it was proved, with a lemma for each
action; the theorems follow from it.  A property `X` that a run checks is stated
by the theorem that `PROJECT.json` pairs with it.

**The engine** (`WalletEngineProofs`).  `IInv` is the conjunction of the safety
invariants the runs check (types, process ownership, funds, `StopWins`, owners of
`starting`, `stopping`, `restoring`, the restore's promise and the scan) and two
facts that make them inductive: a disposed engine has no pending restore
(`DisposedHasNoRestore`), and an acknowledged stop that has not completed found no
live wallet (`AckedIsDown`), so that rejecting the restore behind it leaves nobody
`restoring` without a caller.  `NextPhase` says how a step may change phase;
`NextProcs`, that every change goes through `Move`; `NextTasks`, that a step
touches one slot; `NextRestore`, who settles a restore; one lemma per invariant
stands on these.  Theorems: `Ownership`, `StoppedStays`, `LifecycleOwners`,
`RestoreOwners`.

**The reads** (`EngineReadsProofs`).  A tick in flight is the one its poller
knows of (`TickKnown`); no refresh on the chain is of a cycle still to come and
one at most is of the live one, the timer armed only when none is (`OneLive`), in
the ready phase only (`CycleInPhase`); and a cycle that began with the snapshot up
to date has one payment at most to wait for (`FundsKnown`), which is why a balance
off its baseline means that nothing is due.  Theorems: `PollsOwned`, `Escalation`,
`NothingLeft`.

**The worker client** (`WorkerRequestsProofs`).  First its lifecycle, in any
number of tabs: one must know whose lease a suspended operation will come back
to, so `TabInv` says what an `acquire` in progress knows of the lock, that a grant
in hand is the lock's own lease until the worker dies or the client is disposed,
that open databases belong to the current lease, and that workers due for an
announcement are dead.  Theorems: `SessionSafety`, `LockAgreement`, `Exclusion`
and `Refinement` (`WalletDatabases` is implemented).  Then the requests: they
follow the lifecycle without disturbing it (`LifecycleKept`, a refinement, by
which everything above holds of them too), ids are given out once, at most one
for each request, lease and the dispose (`IdsGivenOut`), so a message with the id
of a waiting call comes from its worker (`AnswersOwned`).

**The main-thread clients** (`MainClientProofs`), for any pages and clients, with
and without Web Locks, and any number of runtimes.  An acquire under way is the
newest lease (`Acquiring`), a grant belongs to a session whose runtime has not exited
(`GrantOwned`), a boot goes on under its grant until that exit (`Booting`), a stop
carries the session's lease (`Stopping`).  A client runs Go once, and a load ends well
only with a bridge (`RunKnown`); calls and the bridge stay in their page (`CallKnown`,
`CallerKnown`); on a page that never ran two at once, the runtime that lives is the
one every call leads to, and a client whose runtime exited reaches no other
(`Alone`), so that what is open there is covered by a client's lock (`OpenCovered`).
Theorems: `LockSafety`, `FreeWhenTold` (an action property), `Refinement`.  The
condition on the page is needed: section 5 shows what a second runtime does.  That an
exit strands no lock, and that a host is told only of a freed one, needs none.

`Exclusion` and both `Refinement`s assume Web Locks: without them the code has
nothing to exclude other tabs with.

**The loader** (`RuntimeLoaderProofs`).  A load asks for the raw form only after
the compressed one was answered badly (`InOrder`); a bucket handle is of no
other release than its load's, and a store of a verifying load has verified bytes in
hand (`Handles`); two forms in one bucket mean a store that is about to prune it, or
a last prune that failed or was cut off by a closed page (`OneForm`).  Theorems: `RunsAreVerified`,
`CacheSound`, `NeverWedged`, `MismatchFinal`.

**The activity stream over the web clients** (`WebActivityProofs`).  A call of
`startActivity()` is a token: of each lifecycle there is one at most, in the
client's queue, in the relay, settled there, or on its way back (`Tokens`).
`RelayInv` says the relay subscribes once between two stops; `WorkerInv`, that
the worker takes calls in their order, that a stopped stream is closed or its stop
on the way, and that what it serves begins no later than what the engine has seen;
`MainInv`, that in the page a stop returns before anything else happens; `Opened`
and `JournalInv` tie both to subscription and journal.  Theorems: `LooksAfter`,
`StreamIsOne`, `NothingMissed` (over the worker, as `CaughtUp` says).

**The native host** (`NativeAppProofs`).  The stream: a native call runs only for a
closed stream, with one answer under way (`ChainInv`); each lifecycle has one call
(`CallInv`), with a stop behind that of a lifecycle that is over (`QueueInv`);
and as long as no subscription has ended by itself, the client's belief is right
(`BeliefInv`).  Theorems: `PumpLives`, `ClosedRetries`, `CleanStops`.  The wallets:
removals act on wallets the user removed and setups on fresh ones (`Entitled`);
before the first list nothing else happens (`LoadInv`); as long as the old keys have
not become a list no change has read one, and only the first load seeds one
(`SeedInv`), afterwards the legacy wallet is in the list and in all that will be
written (`LegacyInv`), and the list shown is that stored, or a change or a load will
replace it (`FreshInv`).  Theorems: `DeletionsAreMeant`, without a condition, and
`RegistryStaysTrue`, for any number of failures.  Its conditions are those of
`RegistryIsTrue`: nothing is said once a *change* took a failed read for an empty
list or went on over a failed migration, and nothing of the list shown once a *load*
did.  Writes, removals of the old keys and deletions that fail, and loads of the hook
that fail as far as the migrated wallet goes, are covered; one failed read in a
change is not, and section 5 shows that it loses the wallet.
The marks of the entries: every wallet but the legacy one has from its setup on one
network, in every list, handler and daemon (`ToldBy`, with a witness that a setup
extends); only the legacy wallet is guessed for, as the picker comes up for no other
(`GuessInv`); and what is stored, read
by a handler or about to be stamped has been proven (`MarkInv`).  Theorem:
`MarksProven`.  Like `MarksAreProven` it is silent once a call that the user left
behind was executed by the daemon of another wallet (`crossed`): then the code does
stamp the wrong entry, as `EntriesAreProven` of section 5 shows.  The ceremonies:
one that is past its prompts holds the key of the passkey that it reports, and its
fallback may ask for the passkey just made only (`CeremonyInv`); as long as none
has outlived its screen, those under way belong to the open entry (`VisitInv`).
`KeysTrue` follows for any passkeys and outputs of which the codec makes
themselves or something of another length (`CodecKeeps`, its one hypothesis,
which TLC evaluates for outputs of every length up to the real 32 bytes).

**The screens** (`ScreensProofs`), one invariant each, since they share no state.
Send: an answer under way has its own id and was never shown (`SendInv`).
Exit batches: every batch accounts for each output once and is ready for its next
exit only with the plan it needs, and the batch of the hook's generation is the
only one of its screen that runs (`ExitInv`); the first output a batch gets to
exists as `<` is well-founded.  The exit screen: only answers of the present choice
carry the hook's generation (`ExitScreenInv`).  The status panel: what is shown is
older than any answer of the newest read (`StatusInv`).  The web app: a daemon that
is up belongs to the selection (`DaemonFits`), a wrong guess keeps no creation
under way (`GuessFits`), and each call in flight was made of the entry and network
the daemon ran (`CallsFit`), though `stopped`, failures and screens move on without
it; all of it for the entries that no ceremony has strayed from or to.  Theorems:
`ReviewSafe`, `ExitsSafe`, `StampsProven`, `StatusForward` (an action property).
`ReviewSafe` says that the answer to the newest request is what can be confirmed, and
never twice; it does not say that the form still holds what was asked for.
`StampsProven` speaks of the entries outside `strayed`: a passkey prompt that is
answered when another daemon is up does stamp the wrong entry, as `GuessesAreProven`
of section 5 shows.

**Only model-checked**, and why:
- `RestoresEnd`, `TransientsEnd`, `ReadsEnd`, `HostIsAnswered`, `Recovers`,
  `PasskeysEnd`, `ScreensProgress`: liveness under fairness, out of the prover's
  reach; with them all of `ReceiveFlow`, of which nothing else is asked.
- `CodecKeeps` of every output: what the fold of `Base64Url` makes of a text of any
  length is an induction over data.  `MCNativeApp` has TLC evaluate it instead.
- The definitions of section 5 are false.

Each of the state machines has its type invariant beside the others; the one a run
lists is that of `WalletEngine`, the others are proved, or hold on the same
instances.

## 5. Disagreements with the documentation

The two that are runs of the project, each with its trace:

- **A native stream that is dead and counts as open** (`doc_native_silent`).  A
  terminal event that arrives before `native.startActivity()` resolves is
  overwritten by `streamOpen = true` (`rn/client.ts:139`); the engine's retry
  then finds the stream open and does nothing.
- **A dismissed prompt is an error** (`doc_dismissed`).  Both native modules word
  a cancellation themselves, as "passkey registration was cancelled", and
  `isNativeCancel` (`rn/passkey.ts:40`) matches none of their words; the hook
  then records a `createError` the comment says is never recorded.

Three that bound what the passing runs and the theorems can say; the cfg named
prints the trace:

- **Two runtimes in a page** (`ReleasedIsClosed` in `MainClient`,
  `DocTwoRuntimes.cfg`).  `loadRuntime()` looks for the
  bridge (`web/clients/main.ts:496`), awaits scripts and wasm, and runs Go (`:569`)
  without looking again.  Two clients of one page each run a runtime, and the bridge
  installed last gets the calls of both.  The client that holds the lock starts its
  daemon in the other's runtime; its own exits, and `bootExit` releases the lock with
  the databases open, though "a dead runtime no longer holds the wallet databases".
- **A failed read loses the migrated wallet** (`UnreadableIsNotLost` in
  `NativeWallets`, `DocUnreadable.cfg`).  `loadWallets()`
  takes a `getItem()` that rejects for an empty list (`rn-demo/lib/walletRegistry.ts:64`)
  and a change writes what it got (`:87`, `:95`, `:103`).  "An unreadable AsyncStorage
  just yields an empty registry": but the registry is then stored, without the
  wallet whose old keys are gone.
- **A guess that nothing proved** (`GuessesAreProven` in `WalletApp`,
  `DocGuess.cfg`).  The web demo's passkey handlers
  await the prompt before they call the engine (`web-demo/screens/onboarding/
  OnboardingFlow.tsx:131`, `:222`), and nothing looks again whether the runtime is
  still that of the entry.  After its death, or "Back to wallets" during a restore
  assertion, and the start of another entry, the call makes or opens a wallet there,
  and the callbacks of the old render record the passkey and the guessed network on
  the migrated entry, where "a successful unlock proves the guess right" was meant.

Others met while modelling.  A definition in the module states the claim, TLC
violates it, and no run of the project depends on it.  The trace is found with the
cfg of the module's run, its INVARIANTS and PROPERTIES replaced by the definition,
or, for the parts of `Screens` and `NativeApp`, with the part's own specification
(`AppSpec`, `WalletsSpec`, ...) and constants.

| Claim | Definition | What happens |
|---|---|---|
| `stop()` "clears the in-memory snapshot (info, balance, activity, error)" (`core/engine/engine.ts:137`) | `StoppedHoldsNoInfo`, `NoStrayError` in `WalletEngine` | `#adoptInfo` (`engine.ts:812`, `:848`) patches info or error in any phase, so an unlock that is late leaves them on the stopped snapshot |
| a restore's promise is "settled exactly once" by its own outcome (`engine.ts:480`) | `OwnRestoreSettles` in `WalletEngine` | the late outcome of a first, rejected restore settles the second |
| `dispose()`: "The engine is done after this." (`engine.ts:194`) | `DisposedIsQuiet` in `WalletEngine` | a start in flight resolves, changes the phase, and `#reconcileProcesses` starts the stream or the poll of the disposed engine |
| phase `error`: "Read `error` from useWallet() for the reason."; "A failed `start()` or `stop()` moves `phase` straight to `'error'`" (`apps/docs/src/content/docs/guides/handle-phases-and-errors.mdx:68-70`) | `ErrorHasReason`, `FailureShows` in `WalletEngine` | `restoreWallet()` in phase `error` clears the error and leaves the phase; a stop that fails after the runtime died leaves `stopped` |
| "every dead-runtime path announces the stop" (`web/clients/worker.ts:206`) | `SeenIsRunning` in `WorkerClient` | the announcement is dropped when a retry replaced the worker first, and the retry may then be denied the lock |
| a dead main-thread runtime "holds no databases, so the lock is released" | `DeadRuntimeFreesLock` in `MainClient` | only the client that ran the runtime hears of its exit; another client of the page, that holds the lock, keeps it |
| `startActivity()` forwards entries "until stopActivity()" (main thread) | `StopClosesMain` in `WebActivity` | the start goes on in a later turn, and takes the generation the stop has already passed: it subscribes after the stop |
| preimages "are re-delivered on the includeExisting replay when a stream reopens" (`core/engine/activity.ts:32-33`) | `ReplayRestores` in `WebActivity` | a late entry of the stopped stream advances the cursor of the new lifecycle; when its first open fails, the reopen replays nothing before that entry |
| native stop "emits no terminal event" (`rn/client.ts:148-149`) | `StoppedIsClosed` in `NativeActivity`, with `breaks > 0` | the pump checks and sends in two steps; a late end closes the client's belief in the next stream, whose native stop is then skipped |
| "stop only once the balance has moved off the pre-event baseline" (`core/engine/reconcile.ts:39`) | `StopsAfterMove` in `SettleReconciler` | the baseline is the snapshot, which may still miss the previous event's funds |
| the polls share the budget of the background refreshes (`wavelength-core.mdx:666`) | `SharedBudget` in `EngineReads` | a poll has its own |
| "an SDK upgrade can never read the previous release's module back" (`web/runtime-cache.ts:55`) | `OwnReleaseOnly` in `RuntimeLoader` | without verification the bucket may hold what the host served before it was redeployed |
| a store leaves "the cache holding just this runtime" (`runtime-cache.ts:150`) | `LeavesThisRuntime` in `RuntimeLoader` | between its put and its prune another load finds the entry bad, or prunes it, and removes it |
| a quote never overwrites a form the user has edited since | `ReviewedIsShown` in `SendFlow` | the fields can be edited while the quote is under way; the answer is shown all the same, beside a form that says something else |
| a batch "reports which started, which were skipped, and which never started" | `StartedAreReported` in `ExitFlow` | an abort or a plan that cannot be read after the first exit rejects the call, and its account of what was started is lost |
| a success panel of the batch's own mode | `SuccessIsOfBatch` in `ExitScreen` | the mode may be switched while the batch runs |
| "status, or null before first load" | `StatusIsOwn` in `StatusPanel` | a panel that turns to another exit shows the last one's until the read lands |
| once a pending entry exists the app's poll takes over; an invoice keeps its confirmation hook | `WaitIsPolled`, `InvoiceKeepsHook` (with two invoices) in `ReceiveFlow` | an app poll that spent its budget on another wait is not started again by the deposit; a request for a new invoice that fails leaves the old one on screen without its id |
| legacy entries go through the network picker first; the phrase is shown before the dashboard (`web-demo/App.tsx:555`) | `LegacyReachesPicker`, `PhraseComesFirst` (with `AppSpec` and nine steps) in `WalletApp` | after a stop the app is in `stopped`, where a selected entry shows the stopped screen and not the picker; a wallet whose adoption fails after its creation comes up, on the retry, with the backup taken for acknowledged |
| "the caller MUST stop the runtime first"; a removal "must proceed regardless"; the mode recorded is a finished wallet's | `WipesAreOffline`, `RemovalsStick`, `EntriesAreProven` (with six acts) in `NativeWallets` | a setup starts another runtime while a wipe is waiting for the disk; a change that read the list before the removal was saved writes the entry back; an answer of an earlier runtime stamps the entry that is selected by then |
| a migration that fails is non-fatal, an unreadable storage "just yields an empty registry" (`rn-demo/lib/walletRegistry.ts:187-188`) | `LegacyIsKept`, `ListIsFresh` in `NativeWallets`, with `MaxFaults = 3` | a second swallowed failure is fatal: a change whose own seed failed writes the list without the migrated wallet over another's seed, whose old keys are gone; a superseded load leaves a list on the screen that is not the stored one |
| a guess of the network is "persisted only after a successful unlock proves the guess right" (`walletRegistry.ts:134-135`) | `GuessesAreUnlocked` in `NativeWallets`, with `MaxFaults = 2` | after an unreadable list the open entry is not on the list shown, and the screen of a wrong guess is that of a setup: the guess is recorded by a creation, without any unlock.  `MarksAreProven`, which holds, is the rest: where a wrong guess is recorded there is a wallet by then |
| the credential recorded opens the entry's wallet | `StraysRecordOpen` in `NativePasskeys` | a ceremony that outlives its screen answers into another entry; `RecordsOpen`, which holds, is the rest |

## 6. Bounds, fairness, abstractions

**Bounds.**
- `Slots`: two host calls in flight, each of which may be a start, a stop, a
  restore or any other: the races in the code are of a call and the one that
  overtakes it, and both slots are used again.  Slots are interchangeable, which
  the safety run uses as symmetry.
- `MaxStops`: the engine compares stop counts only with those of calls in
  flight.  `MaxChain`: a refresh asked for when the chain is full joins the last
  one; at most one reads at a time anyway.
- `Infos`: one for each phase an info can lead to (two where the run is not
  about adoption).  `AdoptRetries`, `RefreshLimit`, `SyncPollLimit`,
  `FailureLimit`, `PollMaxTicks`, `PollFailureLimit` are scaled down from the
  source's constants; the code only compares with them.
- `MaxLeases`, `MaxWorkers` 2 (leases and workers of one page): an old one and a
  new one.  A closed tab or page that opens again starts over.  `Layouts` of
  `MainClient`: clients race for the bridge of one page, or for the lock of two.
  `Restless`: in each page the first client alone starts again or is disposed of; the
  other starts once, which is enough to run a second runtime and to lose its calls to it.
  A page with two clients has the origin to itself in the run; what a page that ran two
  runtimes may do to the others' locks is left to the theorem `Refinement`, which has no
  bound.
- `MaxRequests` 3 with two workers: one request is left behind by each.
- `MaxLives` 4: start, stop, start, stop of one stream.  `MaxEntries`,
  `MaxBreaks`, `MaxPumps`: an old and a new one of each.
- `Probes` 2 of the source's schedule, `MaxCycles` 3 (two retired, one live).
  `MaxTurns` 4 starts, stops and changes of the daemon.
- Loader: two loads, two releases, four buckets (both names opened, dropped and
  opened again), `MaxUpsets` 1 of retries, visits, redeployed files and entries
  gone bad; one script, for the second repeats the first.
- Screens: `MaxQuotes` and `MaxVisits` 2; a batch of two outputs over two fee
  inputs, twice; two plans; three reads of a status; two ticks of a poll.
  Mainnet's exponent 8 for amounts, with four kinds of pasted text.
- Apps: a legacy wallet and another, two networks, 8 steps (web) or 4 acts (native)
  of the user with two handlers and one storage failure: enough for a setup, a
  switch and the late answer of the first.  `RegistryIsTrue` is proved for any number
  of failures, and TLC finds it true of three with three acts.  Ceremonies: two, with a key of two
  bytes, for 32 bytes, too, leave two over three.

Models whose bounds may exhaust set `CHECK_DEADLOCK FALSE`: there the system may
really stop, with every tab closed or nothing left to deliver.

**Fairness.**
- Engine: the client settles each call, and the microtask behind an
  acknowledged stop runs.  Web requests are rejected when the worker dies and a
  native call returns, so the code justifies it (`HostIsAnswered` checks the former).
  Nothing is assumed of the host, of polls or of timers that a promise must not
  depend on.
- Reads: calls of the client settle, intervals and timers fire.
- Requests: the daemon answers each request or dies, messages arrive, the browser
  grants, denies, frees.  Nobody owes a call, and no worker a death.
- Activity: messages are handled, timers fire, the daemon settles each
  subscribe.  The daemon owes no entry and no break.
- Screens: timers fire, the refreshes of a poll settle, and a deposit confirms,
  which is what the wait is for; no quote and no payment owes an answer.
- Passkeys: timers fire and the engine settles its calls; a prompt owes nothing.

**Timing.**  `AnswersHandled`: a retry waits for a second at least, and the
answer that was posted with the loss is handled before.  A subscribe that the
daemon is slow to settle is *not* covered by this, and stays in flight as long
as it likes.

**Abstractions.**
- Engine: read-only calls (list, prepare, quote, inspect), logs, performance
  samples and the passage of results to callers are left out.  `Pay` stands for
  every call that changes funds and kicks a refresh.  The `getInfo` of a start
  that found the daemon running does not occupy the client's queue.
  `refreshFailures` stops counting at its limit, where the code goes on.
- Clients: decoding is left out.  `acquire()` on a lock that is held or acquiring
  is left out: the queue of lifecycle calls and the early return of a running
  session keep its clients from calling it.  Plain calls of the main-thread
  client are one promise of the runtime each.
- Loader: a digest is whether the bytes are those of the release; streaming is
  left out.
- Activity: the length of the backoff is left out; death of the worker while a
  stream is open is the engine's `RuntimeDies`.  A native close that throws is
  left out.  Pump threads are those of the Kotlin module; the Objective-C module
  has the same steps.
- Reconciler: a balance is one number, and a refresh reads the daemon at the
  moment it lands.
- Screens: layout, clipboard and wording; the note and the credit caps of a send
  request; the regular expression that finds the class of a pasted text.
- Apps: names and settings of an entry; the engine is its phases.

## 7. Not modelled

- `core/config.ts`, `requests.ts`, `facade.ts`, `response-normalization.ts`,
  `errors.ts`, `results.ts`: pure conversions of plain data.  A model would be the
  conversion again, and no property about it could fail that a unit test would
  not reach.
- `core/generated.ts`: declarations without behaviour.
- `web/passkey.ts`: the order of calls of `rn/passkey.ts` without its timeout and
  fallback; its memoized probe of the platform.
- Objective-C and Swift beyond the passkey prompts: the steps of the Kotlin module.
- The receive and exit screens of `rn-demo`, which have the web's steps; home,
  activity and settings screens, which show the snapshot; components, themes,
  navigation.
- The other hooks of `react`: selectors over the snapshot, or `MutationState`
  around one engine call.
- `apps/docs`, `scripts`, test clients and the smoke server.

More than half of the implementation's lines are of these kinds (JSX and styles,
declarations, documentation comments and conversions), which is why the map
covers about a sixth of all lines and most of the state machines': nearly all of
what suspends, retries, locks, persists or deletes is in a module.

## 8. Plan

Done, most important behaviour first: phase machine and engine; lock, worker
client and abstract specification; activity stream over three transports; reads
with poller and reconciler; main-thread client; requests; loader and cache; hooks,
screens and the apps' registries; native passkeys.  Proved: every safety and action
property of these that a run checks.

Next: the hazards that have no property yet, which `PROJECT.json` names with their
lines.

## 9. Running the checks

    tlc -config EngineRestore.cfg  MCWalletEngine
    tlc -config EngineWallet.cfg   MCWalletEngine
    tlc -config Reads.cfg          EngineReads
    tlc -config WorkerTabs.cfg     MCWorkerClient
    tlc -config WorkerRequests.cfg MCWorkerRequests
    tlc -config MainPages.cfg      MCMainClient
    tlc -config Loader.cfg         MCRuntimeLoader
    tlc -config ActivityWeb.cfg    WebActivity
    tlc -config NativeApp.cfg      MCNativeApp
    tlc -config Screens.cfg        MCScreens
    tlapm WalletEngineProofs.tla
    tlapm WorkerRequestsProofs.tla
    tlapm MainClientProofs.tla
    tlapm EngineReadsProofs.tla
    tlapm RuntimeLoaderProofs.tla
    tlapm WebActivityProofs.tla
    tlapm NativeAppProofs.tla
    tlapm ScreensProofs.tla

`DocNativeSilent.cfg` goes with `NativeActivity`, `DocDismissed.cfg` with
`MCNativeApp`, `DocTwoRuntimes.cfg` with `MCMainClient`, `DocUnreadable.cfg` with
`NativeWallets`, `DocGuess.cfg` with `WalletApp`.  `PROJECT.json`
lists every run with its module, cfg and properties, and maps each definition to
the lines it models.
