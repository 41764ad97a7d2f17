--------------------------- MODULE RuntimeCache ---------------------------
(***************************************************************************)
(* The Cache Storage of one origin as packages/web/src/runtime-cache.ts    *)
(* uses it: one bucket per release of the SDK, holding the decompressed    *)
(* wasm under the URL it was fetched from.  A bucket has an identity of    *)
(* its own: a Cache object outlives the deletion of the name it was opened *)
(* under, and what is put into it from then on nobody else finds.          *)
(***************************************************************************)
EXTENDS Naturals, FiniteSets

CONSTANTS Releases,     \* The RUNTIME_MANIFEST_VERSIONs of the SDKs in use.
          Urls,         \* The two forms of the module, compressed and raw.
          Buckets,      \* Identities of buckets; bounds how many are created.
          Absent,       \* No entry under a URL.
          NoBucket      \* No bucket under a name, or a load that uses none.

VARIABLES bucket,       \* Release -> the bucket open under its name.
          store         \* Bucket -> URL -> the bytes of the entry.

cacheVars == <<bucket, store>>

CacheInit == /\ bucket = [r \in Releases |-> NoBucket]
             /\ store = [b \in Buckets |-> [u \in Urls |-> Absent]]

CacheTypeOK(Bytes) ==
  /\ bucket \in [Releases -> Buckets \cup {NoBucket}]
  /\ store \in [Buckets -> [Urls -> Bytes \cup {Absent}]]

Live == {bucket[r] : r \in Releases} \ {NoBucket}

(* A bucket nobody can have a handle on: `held` are the handles in use.    *)
Fresh(held) == {b \in Buckets : b \notin Live \cup held}

(* caches.open(RUNTIME_CACHE_NAME): finds the bucket or creates an empty   *)
(* one.                                                                    *)
OpensBucket(r, b, held) ==
  IF bucket[r] # NoBucket
  THEN b = bucket[r] /\ UNCHANGED cacheVars
  ELSE /\ b \in Fresh(held)
       /\ b = CHOOSE c \in Fresh(held) : TRUE
       /\ bucket' = [bucket EXCEPT ![r] = b]
       /\ store' = [store EXCEPT ![b] = [u \in Urls |-> Absent]]

(* dropSupersededCaches: the names it listed, other than its own, go, but  *)
(* for those whose deletion fails.                                         *)
DropsSuperseded(names) ==
  /\ \E gone \in SUBSET names :
       bucket' = [r \in Releases |-> IF r \in gone THEN NoBucket ELSE bucket[r]]
  /\ UNCHANGED store

(* cache.put of storeRuntimeAsset.                                         *)
Puts(b, u, bytes) ==
  /\ store' = [store EXCEPT ![b][u] = bytes]
  /\ UNCHANGED bucket

Deletes(b, gone) ==
  /\ store' = [store EXCEPT ![b] = [u \in Urls |-> IF u \in gone THEN Absent ELSE @[u]]]
  /\ UNCHANGED bucket

(* pruneRuntimeCache: the entries it listed, other than its own, go; what  *)
(* fails on the way is dropped, and leaves some of them, or all.           *)
Prunes(b, stale, gone) == gone \subseteq stale /\ Deletes(b, gone)

(* evictRuntimeAsset: whatever is under the URL by now goes, or stays if   *)
(* it cannot be deleted.                                                   *)
Evicts(b, u) == \E gone \in SUBSET {u} : Deletes(b, gone)

Entries(b) == {u \in Urls : store[b][u] # Absent}
=============================================================================
