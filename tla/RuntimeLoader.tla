--------------------------- MODULE RuntimeLoader ---------------------------
(***************************************************************************)
(* How the runtime gets into a page or a worker (packages/web/src/         *)
(* runtime.ts and integrity.ts; wavewalletdk-worker.js mirrors both): two  *)
(* bootstrap scripts, then the wasm module, compressed or raw, from Cache  *)
(* Storage or from the host.  Everything is verified against the digests   *)
(* of the release unless runtimeIntegrity is off.                          *)
(*                                                                         *)
(* A load is one ensureLoaded() of one client.  Loads of one scope (a      *)
(* document) share its scripts; a worker is a scope of its own.  Storing   *)
(* and clean-up are detached from the load, and end with the scope.  The   *)
(* host is redeployed file by file, and answers badly at times; an entry   *)
(* of the cache may go bad on the disk.                                    *)
(***************************************************************************)
EXTENDS Naturals, FiniteSets

CONSTANTS Loads, Scopes,
          Layouts,      \* the ways Load -> scope in which the loads may share scopes
          Caching,      \* the loads with runtimeCache on
          ScriptCount,  \* the bootstrap scripts: sqlite-bridge.js, wasm_exec.js
          Releases, Buckets, Absent, NoBucket,
          Broken,       \* bytes that begin as wasm does and do not compile
          MaxUpsets     \* bound: retries, visits, deployed files, entries gone bad

Urls == {"gz", "raw"}
Scripts == 1..ScriptCount
Bytes == Releases \cup {Broken}     \* a file of another release is Bytes too
Modes == {"verify", "skip"}

ASSUME LoaderAssumption ==
  /\ Layouts \subseteq [Loads -> Scopes]
  /\ Caching \subseteq Loads
  /\ {Absent, NoBucket, Broken} \cap Releases = {}
  /\ NoBucket \notin Buckets
  /\ Absent # Broken
  /\ ScriptCount \in Nat \ {0}
  /\ MaxUpsets \in Nat

VARIABLES bucket, store,    \* of RuntimeCache
          scope,        \* Load -> scope
          release,      \* Scope -> release of the SDK it bundles
          secure,       \* has the origin crypto.subtle and Cache Storage?
          verify,       \* Load -> runtimeIntegrity
          load,         \* Load -> what it is at
          scripts,      \* Scope -> mode -> script -> the promise of scriptLoads
          storing,      \* Load -> its detached storeRuntimeAsset
          dropping,     \* the loads with a detached dropSupersededCaches
          hosted,       \* URL -> the bytes the host serves, once inflated
          upsets,       \* counter of the bound
          answers,      \* Load -> answers of the host to its present attempt
          torn,         \* history: buckets whose last prune was cut off, or failed
          rotten        \* entries gone bad, as <<bucket, URL>>

INSTANCE RuntimeCache

fixedVars == <<scope, release, secure, verify>>
worldVars == <<hosted, upsets, torn, rotten>>
vars == <<bucket, store, fixedVars, load, scripts, storing, dropping, worldVars, answers>>

Attempt == [at : {"idle", "script", "open", "cached", "fetch", "running", "failed"},
            script : 0..ScriptCount, url : Urls, cache : Buckets \cup {NoBucket},
            bytes : Bytes \cup {Absent}, error : {"none", "load", "integrity", "other"}]
Idle == [at |-> "idle", script |-> 0, url |-> "gz", cache |-> NoBucket,
         bytes |-> Absent, error |-> "none"]
NoStore == [at |-> "none"]
Store == [at : {"put", "prune"}, cache : Buckets, url : Urls, bytes : Bytes]

MyRelease(l) == release[scope[l]]
Mode(l) == IF verify[l] THEN "verify" ELSE "skip"
Running(l) == load[l].at = "running"

Held == {load[l].cache : l \in Loads} \cup
        {storing[l].cache : l \in {k \in Loads : storing[k] # NoStore}}

Failed(error, url) == [Idle EXCEPT !.at = "failed", !.error = error, !.url = url]
Runs(bytes) == [Idle EXCEPT !.at = "running", !.bytes = bytes]
Answer(l, error) == answers' = [answers EXCEPT ![l] = @ \cup {<<load[l].url, error>>}]

(* Mutation: a hit is trusted.                                                    *)
VerdictOfFetched(l, bytes) ==
  IF load[l].at = "cached" THEN "fine"
  ELSE IF ~verify[l] THEN "fine"
  ELSE IF ~secure THEN "other"
  ELSE IF bytes = MyRelease(l) THEN "fine" ELSE "integrity"

(* verifyAssetBytes: "other" is sha256Sri without crypto.subtle.           *)
Verdict(l, bytes) ==
  CASE ~verify[l] -> "fine"
    [] verify[l] /\ ~secure -> "other"
    [] verify[l] /\ secure ->
         IF bytes = MyRelease(l) THEN "fine" ELSE "integrity"

(* WebAssembly.instantiate takes any release: a wrong one is still wasm.   *)
Compiles(bytes) == bytes # Broken

Init ==
  /\ CacheInit
  /\ scope \in Layouts
  /\ release \in [Scopes -> Releases]
  /\ secure \in BOOLEAN
  /\ verify \in [Loads -> BOOLEAN]
  /\ load = [l \in Loads |-> Idle]
  /\ scripts = [s \in Scopes |-> [m \in Modes |-> [i \in Scripts |-> "none"]]]
  /\ storing = [l \in Loads |-> NoStore]
  /\ dropping = {}
  /\ \E r \in Releases : hosted = [u \in Urls |-> r]
  /\ upsets = 0
  /\ answers = [l \in Loads |-> {}]
  /\ torn = {}
  /\ rotten = {}

-----------------------------------------------------------------------------
(* The bootstrap scripts.                                                  *)

(* loadVerifiedScript: shares the promise of the key, or starts a load.    *)
CallsScript(l, i) ==
  scripts' = [scripts EXCEPT ![scope[l]][Mode(l)][i] =
                IF @ = "none" THEN "loading" ELSE @]

(* loadRuntime begins with the first script.                               *)
Begins(l) ==
  /\ load[l].at = "idle"
  /\ load' = [load EXCEPT ![l] = [Idle EXCEPT !.at = "script", !.script = 1]]
  /\ CallsScript(l, 1)
  /\ answers' = [answers EXCEPT ![l] = {}]
  /\ UNCHANGED <<bucket, store, fixedVars, storing, dropping, worldVars>>

(* loadVerifiedScriptUncached fetched, verified and executed the script.   *)
ScriptResolves(s, m, i) ==
  /\ scripts[s][m][i] = "loading"
  /\ m = "verify" => secure
  /\ scripts' = [scripts EXCEPT ![s][m][i] = "done"]
  /\ UNCHANGED <<bucket, store, fixedVars, load, storing, dropping, worldVars, answers>>

Awaiting(s, m, i) ==
  {l \in Loads : /\ scope[l] = s /\ Mode(l) = m
                 /\ load[l].at = "script" /\ load[l].script = i}

(* It could not: the key is deleted, and all that share the promise fail.  *)
ScriptRejects(s, m, i) ==
  /\ scripts[s][m][i] = "loading"
  /\ scripts' = [scripts EXCEPT ![s][m][i] = "none"]
  /\ \E error \in (IF m = "skip" THEN {"load"}
                   ELSE IF secure THEN {"load", "integrity"} ELSE {"load", "other"}) :
       /\ load' = [l \in Loads |->
            IF l \in Awaiting(s, m, i)
            THEN Failed(error, "gz") ELSE load[l]]
       /\ answers' = [l \in Loads |->
            IF l \in Awaiting(s, m, i) THEN {<<"script", error>>} ELSE answers[l]]
  /\ UNCHANGED <<bucket, store, fixedVars, storing, dropping, worldVars>>

(* loadRuntime goes on to the second script, then to the module.           *)
ScriptReady(l) ==
  LET i == load[l].script IN
  /\ load[l].at = "script"
  /\ scripts[scope[l]][Mode(l)][i] = "done"
  /\ \/ i < ScriptCount /\ CallsScript(l, i + 1)
        /\ load' = [load EXCEPT ![l].script = i + 1]
     \/ i = ScriptCount /\ UNCHANGED scripts
        /\ load' = [load EXCEPT ![l].at = "open", ![l].script = 0]
  /\ UNCHANGED <<bucket, store, fixedVars, storing, dropping, worldVars, answers>>

-----------------------------------------------------------------------------
(* The module, from the cache.                                             *)

(* openRuntimeCache and matchRuntimeAsset: with a bucket, a detached       *)
(* clean-up of the others and a look for the URL, which misses if it fails;*)
(* without (opted out, no secure context, or caches.open rejects) straight *)
(* to the host.  The two awaits are one step: opening touches nothing      *)
(* another load reads.                                                     *)
Opens(l) ==
  /\ load[l].at = "open"
  /\ l \in Caching /\ secure
  /\ \E b \in Buckets :
       /\ OpensBucket(MyRelease(l), b, Held)
       /\ \E bytes \in {store'[b][load[l].url], Absent} :
            load' = [load EXCEPT ![l].at = IF bytes = Absent THEN "fetch" ELSE "cached",
                                 ![l].cache = b, ![l].bytes = bytes]
  /\ dropping' = dropping \cup {l}
  /\ UNCHANGED <<fixedVars, scripts, storing, worldVars, answers>>

OpensNone(l) ==
  /\ load[l].at = "open"
  /\ load' = [load EXCEPT ![l].at = "fetch"]
  /\ UNCHANGED <<bucket, store, fixedVars, scripts, storing, dropping, worldVars, answers>>

(* dropSupersededCaches.                                                   *)
Drops(l) ==
  /\ l \in dropping
  /\ DropsSuperseded(Releases \ {MyRelease(l)})
  /\ dropping' = dropping \ {l}
  /\ UNCHANGED <<fixedVars, load, scripts, storing, worldVars, answers>>

(* instantiateCachedWasm.                                                  *)
(* The bytes of the entry are read, verified and instantiated ...          *)
RunsCached(l) ==
  /\ load[l].at = "cached"
  /\ Verdict(l, load[l].bytes) = "fine"
  /\ Compiles(load[l].bytes)
  /\ load' = [load EXCEPT ![l] = Runs(load[l].bytes)]
  /\ UNCHANGED <<bucket, store, fixedVars, scripts, storing, dropping, worldVars, answers>>

(* A broken entry fails the load.                                          *)
EvictsAndFails(l) ==
  /\ load[l].at = "cached"
  /\ Verdict(l, load[l].bytes) # "fine" \/ ~Compiles(load[l].bytes)
  /\ Evicts(load[l].cache, load[l].url)
  /\ load' = [load EXCEPT ![l] = Failed("integrity", load[l].url)]
  /\ UNCHANGED <<fixedVars, scripts, storing, dropping, worldVars, answers>>

(* ... or the entry is evicted, whatever was wrong with it or the read.    *)
EvictsCached(l) ==
  /\ load[l].at = "cached"
  /\ Evicts(load[l].cache, load[l].url)
  /\ load' = [load EXCEPT ![l].at = "fetch", ![l].bytes = Absent]
  /\ UNCHANGED <<fixedVars, scripts, storing, dropping, worldVars, answers>>

-----------------------------------------------------------------------------
(* The module, from the host.                                              *)

(* Any failure of the compressed module falls back.                        *)
NextUrlAlways(l, error) ==
  IF load[l].url = "gz"
  THEN load' = [load EXCEPT ![l] = [Idle EXCEPT !.at = "open", !.url = "raw"]]
  ELSE load' = [load EXCEPT ![l] = Failed(error, load[l].url)]

(* instantiateWasm: the raw module is asked for when the compressed one    *)
(* failed, unless the failure is a mismatch.                               *)
NextUrl(l, error) ==
  IF load[l].url = "gz" /\ error # "integrity"
  THEN load' = [load EXCEPT ![l] = [Idle EXCEPT !.at = "open", !.url = "raw"]]
  ELSE load' = [load EXCEPT ![l] = Failed(error, load[l].url)]

(* The fetch rejects or is not ok, there is no body or not the magic of    *)
(* gzip or wasm, it cannot be inflated here, or it breaks off.             *)
FetchFails(l) ==
  /\ load[l].at = "fetch"
  /\ NextUrl(l, "load")
  /\ Answer(l, "load")
  /\ UNCHANGED <<bucket, store, fixedVars, scripts, storing, dropping, worldVars>>

(* storeRuntimeAsset is started when the module runs; nobody waits for it. *)
Keeps(l, bytes) ==
  storing' = [storing EXCEPT ![l] =
    IF load[l].cache = NoBucket THEN @
    ELSE [at |-> "put", cache |-> load[l].cache, url |-> load[l].url, bytes |-> bytes]]

(* The response is stored as it arrives.                                   *)
RefusesAndStores(l) ==
  LET verdict == Verdict(l, hosted[load[l].url]) IN
  /\ load[l].at = "fetch"
  /\ Keeps(l, hosted[load[l].url])
  /\ \/ verdict # "fine" /\ NextUrl(l, verdict) /\ Answer(l, verdict)
     \/ verdict = "fine" /\ ~Compiles(hosted[load[l].url])
        /\ NextUrl(l, "other") /\ Answer(l, "other")
  /\ UNCHANGED <<bucket, store, fixedVars, scripts, dropping, worldVars>>

(* The bytes do not verify, or verify (or need not) and do not compile.    *)
RefusesFetched(l) ==
  LET verdict == Verdict(l, hosted[load[l].url]) IN
  /\ load[l].at = "fetch"
  /\ \/ verdict # "fine" /\ NextUrl(l, verdict) /\ Answer(l, verdict)
     \/ verdict = "fine" /\ ~Compiles(hosted[load[l].url])
        /\ NextUrl(l, "other") /\ Answer(l, "other")
  /\ UNCHANGED <<bucket, store, fixedVars, scripts, storing, dropping, worldVars>>

RunsFetched(l) ==
  LET bytes == hosted[load[l].url] IN
  /\ load[l].at = "fetch"
  /\ Verdict(l, bytes) = "fine"
  /\ Compiles(bytes)
  /\ Keeps(l, bytes)
  /\ load' = [load EXCEPT ![l] = Runs(bytes)]
  /\ UNCHANGED <<bucket, store, fixedVars, scripts, dropping, worldVars, answers>>

(* storeRuntimeAsset: the put, which an origin over quota rejects.         *)
StorePuts(l) ==
  LET s == storing[l] IN
  /\ s.at = "put"
  /\ \/ /\ Puts(s.cache, s.url, s.bytes)
        /\ storing' = [storing EXCEPT ![l].at = "prune"]
        /\ rotten' = rotten \ {<<s.cache, s.url>>}
     \/ /\ storing' = [storing EXCEPT ![l] = NoStore]
        /\ UNCHANGED <<bucket, store, rotten>>
  /\ UNCHANGED <<fixedVars, load, scripts, dropping, hosted, upsets, torn,
                 answers>>

(* pruneRuntimeCache: everything but the URL it was told to keep goes, but *)
(* for the entries that a failure leaves.                                  *)
StorePrunes(l) ==
  LET s == storing[l]
      stale == Entries(s.cache) \ {s.url} IN
  /\ s.at = "prune"
  /\ \E gone \in SUBSET stale :
       /\ Prunes(s.cache, stale, gone)
       /\ torn' = IF gone = stale THEN torn \ {s.cache} ELSE torn \cup {s.cache}
  /\ storing' = [storing EXCEPT ![l] = NoStore]
  /\ UNCHANGED <<fixedVars, load, scripts, dropping, hosted, upsets, rotten, answers>>

-----------------------------------------------------------------------------
(* The world around.                                                       *)

(* Another client of the document asks, after this one's load failed.      *)
Retries(l) ==
  /\ load[l].at = "failed"
  /\ upsets < MaxUpsets
  /\ upsets' = upsets + 1
  /\ load' = [load EXCEPT ![l] = Idle]
  /\ UNCHANGED <<bucket, store, fixedVars, scripts, storing, dropping, hosted, torn, rotten,
                 answers>>

(* The page is closed, or the worker terminated, and opened again, with    *)
(* all that is detached in it lost.                                        *)
Reopens(s) ==
  LET mine == {l \in Loads : scope[l] = s} IN
  /\ upsets < MaxUpsets
  /\ upsets' = upsets + 1
  /\ torn' = torn \cup {storing[l].cache : l \in {k \in mine : storing[k].at = "prune"}}
  /\ load' = [l \in Loads |-> IF l \in mine THEN Idle ELSE load[l]]
  /\ storing' = [l \in Loads |-> IF l \in mine THEN NoStore ELSE storing[l]]
  /\ dropping' = dropping \ mine
  /\ scripts' = [scripts EXCEPT ![s] = [m \in Modes |-> [i \in Scripts |-> "none"]]]
  /\ \E r \in Releases : release' = [release EXCEPT ![s] = r]
  /\ UNCHANGED <<bucket, store, scope, secure, verify, hosted, rotten, answers>>

(* One file of the hosted set is replaced, perhaps by a damaged one.       *)
Deploys(u) ==
  /\ upsets < MaxUpsets
  /\ upsets' = upsets + 1
  /\ \E f \in Bytes : hosted' = [hosted EXCEPT ![u] = f]
  /\ UNCHANGED <<bucket, store, fixedVars, load, scripts, storing, dropping, torn, rotten,
                 answers>>

(* An entry of a bucket goes bad.                                          *)
Rots(b, u) ==
  /\ upsets < MaxUpsets
  /\ store[b][u] # Absent
  /\ upsets' = upsets + 1
  /\ \E f \in Bytes : Puts(b, u, f)
  /\ rotten' = rotten \cup {<<b, u>>}
  /\ UNCHANGED <<fixedVars, load, scripts, storing, dropping, hosted, torn,
                 answers>>

Scripting == \E s \in Scopes, m \in Modes, i \in Scripts :
               ScriptResolves(s, m, i) \/ ScriptRejects(s, m, i)
Proceeds(l) == \/ ScriptReady(l) \/ Opens(l) \/ OpensNone(l)
               \/ RunsCached(l) \/ EvictsCached(l)
               \/ FetchFails(l) \/ RefusesFetched(l) \/ RunsFetched(l)
Detached(l) == Drops(l) \/ StorePuts(l) \/ StorePrunes(l)

Next == \/ Scripting
        \/ \E l \in Loads : Begins(l) \/ Proceeds(l) \/ Detached(l) \/ Retries(l)
        \/ \E s \in Scopes : Reopens(s)
        \/ \E u \in Urls : Deploys(u)
        \/ \E b \in Buckets, u \in Urls : Rots(b, u)

Spec == Init /\ [][Next]_vars

-----------------------------------------------------------------------------
TypeOK ==
  /\ CacheTypeOK(Bytes)
  /\ scope \in Layouts
  /\ release \in [Scopes -> Releases]
  /\ secure \in BOOLEAN /\ verify \in [Loads -> BOOLEAN]
  /\ load \in [Loads -> Attempt]
  /\ scripts \in [Scopes -> [Modes -> [Scripts -> {"none", "loading", "done"}]]]
  /\ storing \in [Loads -> Store \cup {NoStore}]
  /\ dropping \subseteq Loads
  /\ hosted \in [Urls -> Bytes]
  /\ answers \in [Loads -> SUBSET ((Urls \cup {"script"}) \X {"load", "integrity", "other"})]

(* A load that verifies runs the module of its own release and nothing     *)
(* else, whoever wrote the entry it found, whatever the host serves, and   *)
(* whatever became of the bytes on the disk.                               *)
VerifiedRuns == \A l \in Loads : Running(l) /\ verify[l] => load[l].bytes = MyRelease(l)

(* "Bytes that turn out tampered or broken can never become the entry      *)
(* every later load reads": where every load verifies, a bucket holds      *)
(* nothing but its own release, unless it went bad there.                  *)
CacheIsPinned ==
  (\A l \in Loads : verify[l]) =>
    \A r \in Releases : bucket[r] # NoBucket =>
      \A u \in Entries(bucket[r]) :
        store[bucket[r]][u] = r \/ <<bucket[r], u>> \in rotten

(* "... the compressed and uncompressed copies never both occupy disk",    *)
(* once every store has ended, in a bucket whose last prune ran to its     *)
(* end: one that failed, or was cut off with its page, the next makes good.*)
KeepsOneForm ==
  (\A l \in Loads : storing[l] = NoStore) =>
    \A r \in Releases : bucket[r] \notin torn \cup {NoBucket} => Cardinality(Entries(bucket[r])) <= 1

(* The cache is worth reading back, and no larger than it has to be.       *)
CacheIsSound == CacheIsPinned /\ KeepsOneForm

(* Nothing in the cache can wedge a load: one that fails had a script      *)
(* refused, a mismatch on fetched bytes, or both forms refused by the host.*)
FailsOnlyByHost ==
  \A l \in Loads : load[l].at = "failed" =>
    \/ \E a \in answers[l] : a[1] = "script" \/ a[2] = "integrity"
    \/ \A u \in Urls : \E a \in answers[l] : a[1] = u

(* A mismatch on fetched bytes is what the load reports: no second fetch   *)
(* turns it into another failure, or into a success.                       *)
MismatchIsFinal ==
  \A l \in Loads : (\E a \in answers[l] : a[2] = "integrity") =>
    load[l].at \in {"failed", "idle"} /\ (load[l].at = "failed" => load[l].error = "integrity")

(* Whoever waits for a script waits for a promise that somebody settles:   *)
(* the key of a failed script is only gone when all that shared it failed. *)
WaitersHavePromise ==
  \A l \in Loads : load[l].at = "script" =>
    scripts[scope[l]][Mode(l)][load[l].script] # "none"

(* No load hangs, and none fails, for the fault of another one.            *)
LoadsNeverWedge == FailsOnlyByHost /\ WaitersHavePromise

(* runtime-cache.ts:55-56: "so an SDK upgrade can never read the previous  *)
(* release's module back".                                                 *)
OwnReleaseOnly == \A l \in Loads : load[l].at = "cached" => load[l].bytes = MyRelease(l)

(* runtime-cache.ts:150-151: a store leaves "the cache holding just this   *)
(* runtime".                                                               *)
LeavesThisRuntime ==
  [][\A l \in Loads : StorePrunes(l) => store'[storing[l].cache][storing[l].url] # Absent]_vars
=============================================================================
