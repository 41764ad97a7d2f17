------------------------ MODULE RuntimeLoaderProofs ------------------------
(***************************************************************************)
(* The loading of the runtime and its cache, for any number of loads,      *)
(* scopes, scripts, releases and buckets: a load runs verified bytes only, *)
(* nothing in the cache makes it fail, a mismatch is its last word, and    *)
(* the cache holds one form of the right runtime, proved.                  *)
(***************************************************************************)
EXTENDS RuntimeLoader, FiniteSetTheorems, TLAPS

(* What is known of one load.                                              *)

(* Its scripts are promised, and the raw form is only asked for after the  *)
(* compressed one was answered badly.                                      *)
InOrder(l) ==
    /\ load[l].at = "script" =>
         /\ load[l].url = "gz" /\ load[l].script \in Scripts
         /\ scripts[scope[l]][Mode(l)][load[l].script] # "none"
    /\ load[l].at \in {"open", "cached", "fetch"} /\ load[l].url = "raw" =>
         \E a \in answers[l] : a[1] = "gz"
    /\ load[l].at = "cached" => load[l].cache \in Buckets /\ load[l].bytes # Absent

(* The conjuncts of the properties, load by load.                          *)
RunsVerified(l) == Running(l) /\ verify[l] => load[l].bytes = MyRelease(l)

FailsByHost(l) ==
    load[l].at = "failed" =>
      \/ \E a \in answers[l] : a[1] = "script" \/ a[2] = "integrity"
      \/ \A u \in Urls : \E a \in answers[l] : a[1] = u

MismatchEnds(l) ==
    (\E a \in answers[l] : a[2] = "integrity") =>
      load[l].at \in {"failed", "idle"} /\ (load[l].at = "failed" => load[l].error = "integrity")

LoadInv(l) == InOrder(l) /\ RunsVerified(l) /\ FailsByHost(l) /\ MismatchEnds(l)

(* What is known of the cache.                                             *)

(* The only release whose name `b` may be found under is that of load l.   *)
Owns(l, b) == \A r \in Releases : bucket[r] = b => r = MyRelease(l)

Handles ==
    /\ \A r, q \in Releases : bucket[r] # NoBucket /\ bucket[r] = bucket[q] => r = q
    /\ \A l \in Loads :
         /\ load[l].cache # NoBucket => Owns(l, load[l].cache)
         /\ storing[l] # NoStore => Running(l) /\ Owns(l, storing[l].cache)
         /\ storing[l] # NoStore /\ verify[l] => storing[l].bytes = MyRelease(l)

(* Two forms in a bucket: a store is to prune it, or its last prune was    *)
(* cut off, or failed.                                                     *)
OneForm ==
    \A b \in Buckets :
      \/ b \in torn
      \/ \E l \in Loads : storing[l] # NoStore /\ storing[l].at = "prune" /\ storing[l].cache = b
      \/ \A u, v \in Entries(b) : u = v

CacheInv == Handles /\ CacheIsPinned /\ OneForm

IInv == TypeOK /\ (\A l \in Loads : LoadInv(l)) /\ CacheInv
-----------------------------------------------------------------------------
(* What the constants and the types say.                                   *)

LEMMA ConstantFacts ==
    /\ Absent \notin Bytes /\ NoBucket \notin Buckets /\ Releases \subseteq Bytes
    /\ 0 \in 0..ScriptCount /\ 1 \in 0..ScriptCount
    /\ Broken \in Bytes /\ 1 \in Scripts /\ ScriptCount \in Nat
    /\ \A i \in Scripts : i \in Int /\ (i < ScriptCount => i + 1 \in Scripts)
  BY LoaderAssumption DEF Bytes, Scripts

LEMMA ScopeFacts ==
    ASSUME TypeOK, NEW l \in Loads
    PROVE  /\ scope \in [Loads -> Scopes] /\ scope[l] \in Scopes
           /\ MyRelease(l) \in Releases /\ Mode(l) \in Modes
  BY LoaderAssumption DEF TypeOK, MyRelease, Mode, Modes

LEMMA StoreFacts ==
    ASSUME TypeOK, NEW l \in Loads
    PROVE  /\ NoStore.at = "none"
           /\ storing[l] # NoStore <=> storing[l].at \in {"put", "prune"}
           /\ storing[l] # NoStore => /\ storing[l] \in Store /\ storing[l].cache \in Buckets
                                      /\ storing[l].url \in Urls /\ storing[l].bytes \in Bytes
<1>1. NoStore.at = "none"
  BY DEF NoStore
<1>2. \A s \in Store : s.at \in {"put", "prune"} /\ s.cache \in Buckets
                       /\ s.url \in Urls /\ s.bytes \in Bytes
  BY DEF Store
<1>3. storing[l] \in Store \cup {NoStore}
  BY DEF TypeOK
<1> QED
  BY <1>1, <1>2, <1>3

LEMMA LoadFacts ==
    ASSUME TypeOK, NEW l \in Loads
    PROVE  /\ load[l] \in Attempt
           /\ load[l].at \in {"idle", "script", "open", "cached", "fetch", "running", "failed"}
           /\ load[l].script \in 0..ScriptCount /\ load[l].url \in Urls
           /\ load[l].cache \in Buckets \cup {NoBucket} /\ load[l].bytes \in Bytes \cup {Absent}
  BY DEF TypeOK, Attempt

LEMMA IdleFacts ==
    /\ Idle \in Attempt /\ Idle.at = "idle" /\ Idle.script = 0 /\ Idle.url = "gz"
    /\ Idle.cache = NoBucket /\ Idle.bytes = Absent /\ Idle.error = "none"
  BY LoaderAssumption DEF Idle, Attempt, Urls

(* A load with one field set.                                              *)
LEMMA SetsAt ==
    ASSUME NEW a \in Attempt,
           NEW x \in {"idle", "script", "open", "cached", "fetch", "running", "failed"}
    PROVE  LET b == [a EXCEPT !.at = x]
           IN  b \in Attempt /\ b.at = x /\ b.script = a.script /\ b.url = a.url
               /\ b.cache = a.cache /\ b.bytes = a.bytes /\ b.error = a.error
  BY DEF Attempt

LEMMA SetsScript ==
    ASSUME NEW a \in Attempt, NEW x \in 0..ScriptCount
    PROVE  LET b == [a EXCEPT !.script = x]
           IN  b \in Attempt /\ b.at = a.at /\ b.script = x /\ b.url = a.url
               /\ b.cache = a.cache /\ b.bytes = a.bytes /\ b.error = a.error
  BY DEF Attempt

LEMMA SetsUrl ==
    ASSUME NEW a \in Attempt, NEW x \in Urls
    PROVE  LET b == [a EXCEPT !.url = x]
           IN  b \in Attempt /\ b.at = a.at /\ b.script = a.script /\ b.url = x
               /\ b.cache = a.cache /\ b.bytes = a.bytes /\ b.error = a.error
  BY DEF Attempt

LEMMA SetsCache ==
    ASSUME NEW a \in Attempt, NEW x \in Buckets
    PROVE  LET b == [a EXCEPT !.cache = x]
           IN  b \in Attempt /\ b.at = a.at /\ b.script = a.script /\ b.url = a.url
               /\ b.cache = x /\ b.bytes = a.bytes /\ b.error = a.error
  BY DEF Attempt

LEMMA SetsBytes ==
    ASSUME NEW a \in Attempt, NEW x \in Bytes \cup {Absent}
    PROVE  LET b == [a EXCEPT !.bytes = x]
           IN  b \in Attempt /\ b.at = a.at /\ b.script = a.script /\ b.url = a.url
               /\ b.cache = a.cache /\ b.bytes = x /\ b.error = a.error
  BY DEF Attempt

LEMMA SetsError ==
    ASSUME NEW a \in Attempt, NEW x \in {"none", "load", "integrity", "other"}
    PROVE  LET b == [a EXCEPT !.error = x]
           IN  b \in Attempt /\ b.at = a.at /\ b.script = a.script /\ b.url = a.url
               /\ b.cache = a.cache /\ b.bytes = a.bytes /\ b.error = x
  BY DEF Attempt

(* The load as a whole: how it runs, and how it fails.                     *)
LEMMA RunsFacts ==
    ASSUME NEW bytes \in Bytes
    PROVE  /\ Runs(bytes) \in Attempt /\ Runs(bytes).at = "running"
           /\ Runs(bytes).cache = NoBucket /\ Runs(bytes).bytes = bytes
<1> DEFINE a == [Idle EXCEPT !.at = "running"]
           b == [a EXCEPT !.bytes = bytes]
<1>1. Runs(bytes) = b
  BY DEF Runs
<1>2. a \in Attempt /\ a.at = "running" /\ a.cache = NoBucket
  BY SetsAt, IdleFacts
<1> HIDE DEF a
<1>3. b \in Attempt /\ b.at = a.at /\ b.cache = a.cache /\ b.bytes = bytes
  BY <1>2, SetsBytes
<1> HIDE DEF b
<1> QED
  BY <1>1, <1>2, <1>3

LEMMA FailedFacts ==
    ASSUME NEW error \in {"load", "integrity", "other"}, NEW url \in Urls
    PROVE  /\ Failed(error, url) \in Attempt /\ Failed(error, url).at = "failed"
           /\ Failed(error, url).cache = NoBucket /\ Failed(error, url).error = error
<1> DEFINE a == [Idle EXCEPT !.at = "failed"]
           b == [a EXCEPT !.error = error]
           c == [b EXCEPT !.url = url]
<1>1. Failed(error, url) = c
  BY DEF Failed
<1>2. a \in Attempt /\ a.at = "failed" /\ a.cache = NoBucket
      /\ error \in {"none", "load", "integrity", "other"}
  BY SetsAt, IdleFacts
<1> HIDE DEF a
<1>3. b \in Attempt /\ b.at = a.at /\ b.cache = a.cache /\ b.error = error
  BY <1>2, SetsError
<1> HIDE DEF b
<1>4. c \in Attempt /\ c.at = b.at /\ c.cache = b.cache /\ c.error = b.error
  BY <1>3, SetsUrl
<1> HIDE DEF c
<1> QED
  BY <1>1, <1>2, <1>3, <1>4

-----------------------------------------------------------------------------
(* What an action makes of the load it is about.                           *)

(* Load l turns into `a`, and the others stay as they are.                 *)
Turns(l, a) ==
    /\ load' \in [Loads -> Attempt] /\ load'[l] = a
    /\ \A k \in Loads : k # l => load'[k] = load[k]

LEMMA TurnsFacts ==
    ASSUME TypeOK, NEW l \in Loads, NEW a \in Attempt, load' = [load EXCEPT ![l] = a]
    PROVE  Turns(l, a)
  BY DEF TypeOK, Turns

LEMMA BeginsTurns ==
    ASSUME TypeOK, NEW l \in Loads, Begins(l)
    PROVE  /\ Turns(l, load'[l])
           /\ load'[l].at = "script" /\ load'[l].script = 1 /\ load'[l].url = "gz"
           /\ load'[l].cache = NoBucket
<1> DEFINE a == [Idle EXCEPT !.at = "script"]
           b == [a EXCEPT !.script = 1]
<1>1. load' = [load EXCEPT ![l] = b]
  BY DEF Begins
<1>2. a \in Attempt /\ a.at = "script" /\ a.url = "gz" /\ a.cache = NoBucket
  BY SetsAt, IdleFacts
<1> HIDE DEF a
<1>3. b \in Attempt /\ b.at = a.at /\ b.script = 1 /\ b.url = a.url /\ b.cache = a.cache
  BY <1>2, SetsScript, ConstantFacts
<1> HIDE DEF b
<1> QED
  BY <1>1, <1>2, <1>3, TurnsFacts DEF Turns

LEMMA ScriptReadyTurns ==
    ASSUME TypeOK, NEW l \in Loads, ScriptReady(l), load[l].script \in Scripts
    PROVE  /\ Turns(l, load'[l])
           /\ load'[l].url = load[l].url /\ load'[l].cache = load[l].cache
           /\ \/ /\ load'[l].at = "script" /\ load'[l].script = load[l].script + 1
                 /\ load'[l].script \in Scripts /\ CallsScript(l, load'[l].script)
              \/ load'[l].at = "open" /\ UNCHANGED scripts
<1> DEFINE i == load[l].script
<1>0. load[l] \in Attempt /\ load[l].at = "script" /\ i \in Int /\ (i < ScriptCount => i + 1 \in Scripts)
  BY LoadFacts, ConstantFacts DEF ScriptReady
<1>1. CASE i < ScriptCount /\ CallsScript(l, i + 1) /\ load' = [load EXCEPT ![l].script = i + 1]
  <2> DEFINE a == [load[l] EXCEPT !.script = i + 1]
  <2>1. load' = [load EXCEPT ![l] = a]
    BY <1>1
  <2>2. i + 1 \in 0..ScriptCount
    BY <1>0, <1>1 DEF Scripts
  <2>3. a \in Attempt /\ a.at = "script" /\ a.script = i + 1
        /\ a.url = load[l].url /\ a.cache = load[l].cache
    BY <1>0, <2>2, SetsScript
  <2> HIDE DEF a
  <2> QED
    BY <1>0, <1>1, <2>1, <2>3, TurnsFacts DEF Turns
<1>2. CASE UNCHANGED scripts /\ load' = [load EXCEPT ![l].at = "open", ![l].script = 0]
  <2> DEFINE a == [load[l] EXCEPT !.at = "open"]
             b == [a EXCEPT !.script = 0]
  <2>1. load' = [load EXCEPT ![l] = b]
    BY <1>2
  <2>2. a \in Attempt /\ a.at = "open" /\ a.url = load[l].url /\ a.cache = load[l].cache
    BY <1>0, SetsAt
  <2> HIDE DEF a
  <2>3. b \in Attempt /\ b.at = a.at /\ b.url = a.url /\ b.cache = a.cache
    BY <2>2, SetsScript, ConstantFacts
  <2> HIDE DEF b
  <2> QED
    BY <1>2, <2>1, <2>2, <2>3, TurnsFacts DEF Turns
<1> QED
  BY <1>1, <1>2 DEF ScriptReady

LEMMA OpensTurns ==
    ASSUME TypeOK, NEW l \in Loads, NEW b \in Buckets, NEW x \in {"fetch", "cached"},
           NEW bytes \in Bytes \cup {Absent},
           load' = [load EXCEPT ![l].at = x, ![l].cache = b, ![l].bytes = bytes]
    PROVE  /\ Turns(l, load'[l])
           /\ load'[l].at = x /\ load'[l].url = load[l].url /\ load'[l].cache = b
           /\ load'[l].bytes = bytes
<1> DEFINE a == [load[l] EXCEPT !.at = x]
           c == [a EXCEPT !.cache = b]
           d == [c EXCEPT !.bytes = bytes]
<1>1. load' = [load EXCEPT ![l] = d]
  OBVIOUS
<1>2. load[l] \in Attempt
      /\ x \in {"idle", "script", "open", "cached", "fetch", "running", "failed"}
  BY LoadFacts
<1>3. a \in Attempt /\ a.at = x /\ a.url = load[l].url
  BY <1>2, SetsAt
<1> HIDE DEF a
<1>4. c \in Attempt /\ c.at = a.at /\ c.url = a.url /\ c.cache = b
  BY <1>3, SetsCache
<1> HIDE DEF c
<1>5. d \in Attempt /\ d.at = c.at /\ d.url = c.url /\ d.cache = c.cache /\ d.bytes = bytes
  BY <1>4, SetsBytes
<1> HIDE DEF d
<1> QED
  BY <1>1, <1>3, <1>4, <1>5, TurnsFacts DEF Turns

LEMMA FetchesTurns ==
    ASSUME TypeOK, NEW l \in Loads,
           OpensNone(l) \/ EvictsCached(l)
    PROVE  /\ Turns(l, load'[l])
           /\ load'[l].at = "fetch" /\ load'[l].url = load[l].url
           /\ load'[l].cache = load[l].cache
<1> DEFINE a == [load[l] EXCEPT !.at = "fetch"]
           b == [a EXCEPT !.bytes = Absent]
<1>1. load' = [load EXCEPT ![l] = a] \/ load' = [load EXCEPT ![l] = b]
  BY DEF OpensNone, EvictsCached
<1>2. a \in Attempt /\ a.at = "fetch" /\ a.url = load[l].url /\ a.cache = load[l].cache
  BY LoadFacts, SetsAt
<1> HIDE DEF a
<1>3. b \in Attempt /\ b.at = a.at /\ b.url = a.url /\ b.cache = a.cache
  BY <1>2, SetsBytes
<1> HIDE DEF b
<1> QED
  BY <1>1, <1>2, <1>3, TurnsFacts DEF Turns

LEMMA NextUrlTurns ==
    ASSUME TypeOK, NEW l \in Loads, NEW error \in {"load", "integrity", "other"},
           NextUrl(l, error)
    PROVE  /\ Turns(l, load'[l]) /\ load'[l].cache = NoBucket
           /\ \/ /\ load'[l].at = "open" /\ load[l].url = "gz" /\ error # "integrity"
              \/ /\ load'[l].at = "failed" /\ load'[l].error = error
                 /\ load[l].url = "raw" \/ error = "integrity"
<1>0. load[l].url \in Urls /\ (load[l].url # "gz" => load[l].url = "raw")
  BY LoadFacts DEF Urls
<1>1. CASE load[l].url = "gz" /\ error # "integrity"
  <2> DEFINE a == [Idle EXCEPT !.at = "open"]
             b == [a EXCEPT !.url = "raw"]
  <2>1. load' = [load EXCEPT ![l] = b]
    BY <1>1 DEF NextUrl
  <2>2. a \in Attempt /\ a.at = "open" /\ a.cache = NoBucket /\ "raw" \in Urls
    BY SetsAt, IdleFacts DEF Urls
  <2> HIDE DEF a
  <2>3. b \in Attempt /\ b.at = a.at /\ b.cache = a.cache
    BY <2>2, SetsUrl
  <2> HIDE DEF b
  <2> QED
    BY <1>1, <2>1, <2>2, <2>3, TurnsFacts DEF Turns
<1>2. CASE ~(load[l].url = "gz" /\ error # "integrity")
  <2>1. load' = [load EXCEPT ![l] = Failed(error, load[l].url)]
    BY <1>2 DEF NextUrl
  <2> DEFINE a == Failed(error, load[l].url)
  <2>2. a \in Attempt /\ a.at = "failed" /\ a.cache = NoBucket /\ a.error = error
    BY <1>0, FailedFacts
  <2> HIDE DEF a
  <2>3. Turns(l, a)
    BY <2>1, <2>2, TurnsFacts DEF a
  <2>4. load'[l] = a /\ Turns(l, load'[l])
    BY <2>3 DEF Turns
  <2> QED
    BY <1>0, <1>2, <2>2, <2>4
<1> QED
  BY <1>1, <1>2

LEMMA VerdictFacts ==
    ASSUME TypeOK, NEW l \in Loads, NEW bytes
    PROVE  /\ Verdict(l, bytes) \in {"fine", "integrity", "other"}
           /\ verify[l] /\ Verdict(l, bytes) = "fine" => bytes = MyRelease(l)
<1>1. verify[l] \in BOOLEAN /\ secure \in BOOLEAN
  BY DEF TypeOK
<1> QED
  BY <1>1 DEF Verdict

LEMMA RunsTurns ==
    ASSUME TypeOK, NEW l \in Loads, NEW bytes \in Bytes, load' = [load EXCEPT ![l] = Runs(bytes)]
    PROVE  /\ Turns(l, load'[l]) /\ load'[l].at = "running"
           /\ load'[l].cache = NoBucket /\ load'[l].bytes = bytes
  BY RunsFacts, TurnsFacts DEF Turns

(* A script that is called is promised, and no promise is withdrawn.       *)
LEMMA CallsFacts ==
    ASSUME TypeOK, NEW l \in Loads, NEW i \in Scripts, CallsScript(l, i)
    PROVE  /\ scripts' \in [Scopes -> [Modes -> [Scripts -> {"none", "loading", "done"}]]]
           /\ scripts'[scope[l]][Mode(l)][i] # "none"
           /\ \A s \in Scopes, m \in Modes, j \in Scripts :
                scripts[s][m][j] # "none" => scripts'[s][m][j] # "none"
  BY ScopeFacts DEF CallsScript, TypeOK

-----------------------------------------------------------------------------
(* The loads, step by step.                                                *)

(* A load that a step leaves alone.                                        *)
LEMMA LoadKeeps ==
    ASSUME NEW k \in Loads, LoadInv(k), load'[k] = load[k], answers'[k] = answers[k],
           UNCHANGED <<scope, verify>>, release'[scope[k]] = release[scope[k]],
           load[k].at = "script" /\ scripts[scope[k]][Mode(k)][load[k].script] # "none"
             => scripts'[scope[k]][Mode(k)][load[k].script] # "none"
    PROVE  LoadInv(k)'
<1>1. MyRelease(k)' = MyRelease(k) /\ Mode(k)' = Mode(k) /\ Running(k)' = Running(k)
  BY DEF MyRelease, Mode, Running
<1>2. InOrder(k)'
  BY <1>1 DEF LoadInv, InOrder
<1>3. RunsVerified(k)'
  BY <1>1 DEF LoadInv, RunsVerified
<1>4. FailsByHost(k)' /\ MismatchEnds(k)'
  BY DEF LoadInv, FailsByHost, MismatchEnds
<1> QED
  BY <1>2, <1>3, <1>4 DEF LoadInv

(* A step that changes nothing of what a load is about.                    *)
LEMMA LoadsIdle ==
    ASSUME \A k \in Loads : LoadInv(k), UNCHANGED <<load, answers, scripts, fixedVars>>
    PROVE  \A k \in Loads : LoadInv(k)'
  BY LoadKeeps DEF fixedVars

LEMMA AnswerFacts ==
    ASSUME TypeOK, NEW l \in Loads, NEW error \in {"load", "integrity", "other"},
           Answer(l, error)
    PROVE  /\ answers' \in [Loads -> SUBSET ((Urls \cup {"script"}) \X {"load", "integrity", "other"})]
           /\ answers'[l] = answers[l] \cup {<<load[l].url, error>>}
           /\ \A k \in Loads : k # l => answers'[k] = answers[k]
<1>1. answers \in [Loads -> SUBSET ((Urls \cup {"script"}) \X {"load", "integrity", "other"})]
      /\ load[l].url \in Urls
  BY LoadFacts DEF TypeOK
<1> QED
  BY <1>1 DEF Answer

LEMMA BadAnswerKeeps ==
    ASSUME TypeOK, NEW l \in Loads, LoadInv(l), load[l].at = "fetch",
           NEW error \in {"load", "integrity", "other"}, NextUrl(l, error), Answer(l, error)
    PROVE  LoadInv(l)'
<1>0. load[l].url \in Urls /\ (load[l].url # "gz" => load[l].url = "raw")
  BY LoadFacts DEF Urls
<1>1. answers'[l] = answers[l] \cup {<<load[l].url, error>>}
  BY AnswerFacts
<1> DEFINE new == <<load[l].url, error>>
<1>2. new \in answers'[l] /\ new[1] = load[l].url /\ new[2] = error
  BY <1>1
<1>3. \A a \in answers[l] : a[2] # "integrity"
  BY DEF LoadInv, MismatchEnds
<1>4. \A a \in answers'[l] : a[2] = "integrity" => error = "integrity"
  BY <1>1, <1>3
<1> HIDE DEF new
<1>5. CASE load'[l].at = "open" /\ load[l].url = "gz" /\ error # "integrity"
  <2>1. InOrder(l)'
    BY <1>2, <1>5 DEF InOrder
  <2>2. MismatchEnds(l)'
    BY <1>4, <1>5 DEF MismatchEnds
  <2> QED
    BY <1>5, <2>1, <2>2 DEF LoadInv, RunsVerified, Running, FailsByHost
<1>6. CASE /\ load'[l].at = "failed" /\ load'[l].error = error
           /\ load[l].url = "raw" \/ error = "integrity"
  <2>1. FailsByHost(l)'
    <3>1. CASE error = "integrity"
      BY <1>2, <3>1 DEF FailsByHost
    <3>2. CASE load[l].url = "raw"
      <4>1. \E a \in answers'[l] : a[1] = "gz"
        BY <1>1, <3>2 DEF LoadInv, InOrder
      <4>2. \E a \in answers'[l] : a[1] = "raw"
        BY <1>2, <3>2
      <4> QED
        BY <4>1, <4>2 DEF FailsByHost, Urls
    <3> QED
      BY <1>6, <3>1, <3>2
  <2>2. MismatchEnds(l)'
    BY <1>4, <1>6 DEF MismatchEnds
  <2> QED
    BY <1>6, <2>1, <2>2 DEF LoadInv, InOrder, RunsVerified, Running
<1> QED
  BY <1>5, <1>6, NextUrlTurns

(* A load that goes on, with nothing answered.                             *)
LEMMA GoesOnKeeps ==
    ASSUME TypeOK, NEW l \in Loads, LoadInv(l), load[l].at \notin {"idle", "failed"},
           load'[l].at \in {"open", "cached", "fetch", "running"},
           load'[l].at = "cached" => load'[l].cache \in Buckets /\ load'[l].bytes # Absent,
           load'[l].at = "running" /\ verify[l] => load'[l].bytes = MyRelease(l),
           load'[l].at # "running" => load'[l].url = load[l].url,
           load[l].at = "script" => load[l].url = "gz",
           load[l].at # "running",
           answers'[l] = answers[l], UNCHANGED <<scope, verify, release>>
    PROVE  LoadInv(l)'
<1>0. load[l].at \in {"script", "open", "cached", "fetch"}
  BY LoadFacts
<1>1. InOrder(l)'
  BY <1>0 DEF LoadInv, InOrder
<1>2. RunsVerified(l)'
  BY DEF RunsVerified, Running, MyRelease
<1>3. FailsByHost(l)' /\ MismatchEnds(l)'
  BY <1>0 DEF LoadInv, FailsByHost, MismatchEnds
<1> QED
  BY <1>1, <1>2, <1>3 DEF LoadInv

LEMMA FreshKeeps ==
    ASSUME NEW l \in Loads, load'[l] = Idle
    PROVE  LoadInv(l)'
  BY IdleFacts DEF LoadInv, InOrder, RunsVerified, Running, FailsByHost, MismatchEnds

LEMMA RunsWithin ==
    ASSUME TypeOK, NEW l \in Loads, LoadInv(l), RunsCached(l) \/ RunsFetched(l)
    PROVE  \E bytes \in Bytes :
             /\ load' = [load EXCEPT ![l] = Runs(bytes)]
             /\ verify[l] => bytes = MyRelease(l)
<1>1. CASE RunsCached(l)
  <2>1. load[l].bytes \in Bytes
    <3>1. load[l].bytes \in Bytes \cup {Absent}
      BY LoadFacts
    <3> QED
      BY <1>1, <3>1 DEF RunsCached, LoadInv, InOrder
  <2> QED
    BY <1>1, <2>1, VerdictFacts DEF RunsCached
<1>2. CASE RunsFetched(l)
  <2>1. hosted[load[l].url] \in Bytes
    BY LoadFacts DEF TypeOK
  <2> QED
    BY <1>2, <2>1, VerdictFacts DEF RunsFetched
<1> QED
  BY <1>1, <1>2

(* What Opens takes from the cache, when the store keeps its type.         *)
LEMMA OpensFacts ==
    ASSUME TypeOK, NEW l \in Loads, Opens(l)
    PROVE  \E b \in Buckets :
             /\ OpensBucket(MyRelease(l), b, Held)
             /\ store' \in [Buckets -> [Urls -> Bytes \cup {Absent}]]
             /\ Turns(l, load'[l])
             /\ load'[l].at = IF load'[l].bytes = Absent THEN "fetch" ELSE "cached"
             /\ load'[l].url = load[l].url /\ load'[l].cache = b
<1>1. PICK b \in Buckets :
         /\ OpensBucket(MyRelease(l), b, Held)
         /\ \E bytes \in {store'[b][load[l].url], Absent} :
              load' = [load EXCEPT ![l].at = IF bytes = Absent THEN "fetch" ELSE "cached",
                                   ![l].cache = b, ![l].bytes = bytes]
  BY DEF Opens
<1>2. store \in [Buckets -> [Urls -> Bytes \cup {Absent}]]
  BY DEF TypeOK, CacheTypeOK
<1>3. store' \in [Buckets -> [Urls -> Bytes \cup {Absent}]]
  <2> DEFINE none == [u \in Urls |-> Absent]
  <2>1. none \in [Urls -> Bytes \cup {Absent}]
    OBVIOUS
  <2>2. store' = store \/ store' = [store EXCEPT ![b] = none]
    BY <1>1 DEF OpensBucket, cacheVars
  <2> HIDE DEF none
  <2> QED
    BY <1>2, <2>1, <2>2
<1>4. PICK bytes \in {store'[b][load[l].url], Absent} :
         load' = [load EXCEPT ![l].at = IF bytes = Absent THEN "fetch" ELSE "cached",
                              ![l].cache = b, ![l].bytes = bytes]
  BY <1>1
<1> DEFINE x == IF bytes = Absent THEN "fetch" ELSE "cached"
<1>5. bytes \in Bytes \cup {Absent} /\ x \in {"fetch", "cached"}
  BY <1>3, LoadFacts
<1>6. load' = [load EXCEPT ![l].at = x, ![l].cache = b, ![l].bytes = bytes]
  BY <1>4
<1>7. /\ Turns(l, load'[l])
      /\ load'[l].at = x /\ load'[l].url = load[l].url /\ load'[l].cache = b
      /\ load'[l].bytes = bytes
  <2> HIDE DEF x
  <2> QED
    BY <1>5, <1>6, OpensTurns
<1> QED
  BY <1>1, <1>3, <1>7

(* The steps of a load itself.                                             *)
LEMMA LoadSteps ==
    ASSUME TypeOK, \A k \in Loads : LoadInv(k), NEW l \in Loads,
           Begins(l) \/ Proceeds(l) \/ Retries(l)
    PROVE  \A k \in Loads : LoadInv(k)'
<1>0. scope \in [Loads -> Scopes] /\ LoadInv(l) /\ Mode(l) \in Modes /\ scope[l] \in Scopes
  BY ScopeFacts
<1>1. UNCHANGED fixedVars
  BY DEF Begins, Proceeds, Retries, ScriptReady, Opens, OpensNone, RunsCached, EvictsCached,
         FetchFails, RefusesFetched, RunsFetched
<1>2. ASSUME \A k \in Loads : k # l => load'[k] = load[k] /\ answers'[k] = answers[k],
             \A s \in Scopes, m \in Modes, j \in Scripts :
               scripts[s][m][j] # "none" => scripts'[s][m][j] # "none",
             LoadInv(l)'
      PROVE  \A k \in Loads : LoadInv(k)'
  <2> SUFFICES ASSUME NEW k \in Loads, k # l PROVE LoadInv(k)'
    BY <1>2
  <2>1. LoadInv(k) /\ scope[k] \in Scopes /\ Mode(k) \in Modes
    BY ScopeFacts
  <2>2. load[k].at = "script" => load[k].script \in Scripts
    BY <2>1 DEF LoadInv, InOrder
  <2>3. /\ load[k].at = "script" /\ scripts[scope[k]][Mode(k)][load[k].script] # "none"
             => scripts'[scope[k]][Mode(k)][load[k].script] # "none"
        /\ load'[k] = load[k] /\ answers'[k] = answers[k]
        /\ UNCHANGED <<scope, verify>> /\ release'[scope[k]] = release[scope[k]]
    BY <1>1, <1>2, <2>1, <2>2 DEF fixedVars
  <2> QED
    BY <2>1, <2>3, LoadKeeps
<1>3. CASE Begins(l)
  <2>1. CallsScript(l, 1) /\ answers' = [answers EXCEPT ![l] = {}] /\ 1 \in Scripts
    BY <1>3, ConstantFacts DEF Begins
  <2>2. /\ answers'[l] = {} /\ \A k \in Loads : k # l => answers'[k] = answers[k]
    BY <2>1 DEF TypeOK
  <2>3. Mode(l)' = Mode(l) /\ scope' = scope
    BY <1>1 DEF Mode, fixedVars
  <2>4. LoadInv(l)'
    BY <1>3, <2>1, <2>2, <2>3, BeginsTurns, CallsFacts
       DEF LoadInv, InOrder, RunsVerified, Running, FailsByHost, MismatchEnds
  <2> QED
    BY <1>2, <1>3, <2>1, <2>2, <2>4, BeginsTurns, CallsFacts DEF Turns
<1>4. CASE ScriptReady(l)
  <2>0. load[l].at = "script" /\ load[l].script \in Scripts /\ load[l].url = "gz"
        /\ UNCHANGED answers
    BY <1>0, <1>4 DEF ScriptReady, LoadInv, InOrder
  <2>1. Mode(l)' = Mode(l) /\ UNCHANGED <<scope, verify, release>>
    BY <1>1 DEF Mode, fixedVars
  <2>2. Turns(l, load'[l]) /\ load'[l].url = load[l].url /\ load'[l].cache = load[l].cache
    BY <1>4, <2>0, ScriptReadyTurns
  <2>3. CASE load'[l].at = "script" /\ load'[l].script \in Scripts /\ CallsScript(l, load'[l].script)
    <3>1. LoadInv(l)'
      BY <1>0, <2>0, <2>1, <2>2, <2>3, CallsFacts
         DEF LoadInv, InOrder, RunsVerified, Running, FailsByHost, MismatchEnds
    <3> QED
      BY <1>2, <2>0, <2>2, <2>3, <3>1, CallsFacts DEF Turns
  <2>4. CASE load'[l].at = "open" /\ UNCHANGED scripts
    <3>1. LoadInv(l)'
      BY <1>0, <2>0, <2>1, <2>2, <2>4, GoesOnKeeps
    <3> QED
      BY <1>2, <2>0, <2>2, <2>4, <3>1 DEF Turns
  <2> QED
    BY <1>4, <2>0, <2>3, <2>4, ScriptReadyTurns
<1>5. CASE Opens(l)
  <2>1. PICK b \in Buckets :
             /\ Turns(l, load'[l])
             /\ load'[l].at = IF load'[l].bytes = Absent THEN "fetch" ELSE "cached"
             /\ load'[l].url = load[l].url /\ load'[l].cache = b
    BY <1>5, OpensFacts
  <2>2. load[l].at = "open" /\ UNCHANGED <<scripts, answers, scope, verify, release>>
    BY <1>5 DEF Opens, fixedVars
  <2>3. LoadInv(l)'
    BY <1>0, <2>1, <2>2, GoesOnKeeps
  <2> QED
    BY <1>2, <2>1, <2>2, <2>3 DEF Turns
<1>6. CASE OpensNone(l) \/ EvictsCached(l)
  <2>1. /\ load[l].at \in {"open", "cached"}
        /\ UNCHANGED <<scripts, answers, scope, verify, release>>
    BY <1>6 DEF OpensNone, EvictsCached, fixedVars
  <2>2. LoadInv(l)'
    BY <1>0, <1>6, <2>1, FetchesTurns, GoesOnKeeps
  <2> QED
    BY <1>2, <1>6, <2>1, <2>2, FetchesTurns DEF Turns
<1>7. CASE RunsCached(l) \/ RunsFetched(l)
  <2>1. PICK bytes \in Bytes : /\ load' = [load EXCEPT ![l] = Runs(bytes)]
                               /\ verify[l] => bytes = MyRelease(l)
    BY <1>0, <1>7, RunsWithin
  <2>2. /\ load[l].at \in {"cached", "fetch"}
        /\ UNCHANGED <<scripts, answers, scope, verify, release>>
    BY <1>7 DEF RunsCached, RunsFetched, fixedVars
  <2>3. Turns(l, load'[l]) /\ load'[l].at = "running" /\ load'[l].bytes = bytes
    BY <2>1, RunsTurns
  <2>4. LoadInv(l)'
    BY <1>0, <2>1, <2>2, <2>3, GoesOnKeeps
  <2> QED
    BY <1>2, <2>2, <2>3, <2>4 DEF Turns
<1>8. CASE FetchFails(l) \/ RefusesFetched(l)
  <2>1. /\ load[l].at = "fetch" /\ UNCHANGED scripts
        /\ \E error \in {"load", "integrity", "other"} : NextUrl(l, error) /\ Answer(l, error)
    BY <1>8, VerdictFacts DEF FetchFails, RefusesFetched
  <2>2. PICK error \in {"load", "integrity", "other"} : NextUrl(l, error) /\ Answer(l, error)
    BY <2>1
  <2>3. LoadInv(l)'
    BY <1>0, <2>1, <2>2, BadAnswerKeeps
  <2> QED
    BY <1>2, <2>1, <2>2, <2>3, AnswerFacts, NextUrlTurns DEF Turns
<1>9. CASE Retries(l)
  <2>1. load' = [load EXCEPT ![l] = Idle] /\ UNCHANGED <<scripts, answers>>
    BY <1>9 DEF Retries
  <2>2. Turns(l, Idle)
    BY <2>1, IdleFacts, TurnsFacts
  <2>3. LoadInv(l)'
    BY <2>2, FreshKeeps DEF Turns
  <2> QED
    BY <1>2, <2>1, <2>2, <2>3 DEF Turns
<1> QED
  BY <1>3, <1>4, <1>5, <1>6, <1>7, <1>8, <1>9 DEF Proceeds

(* A script settles: its load goes on with all that wait, or fails them.   *)
LEMMA ScriptSteps ==
    ASSUME TypeOK, \A k \in Loads : LoadInv(k),
           NEW s \in Scopes, NEW m \in Modes, NEW i \in Scripts,
           ScriptResolves(s, m, i) \/ ScriptRejects(s, m, i)
    PROVE  \A k \in Loads : LoadInv(k)'
<1> SUFFICES ASSUME NEW k \in Loads PROVE LoadInv(k)'
  OBVIOUS
<1>0. /\ LoadInv(k) /\ scope[k] \in Scopes /\ Mode(k) \in Modes
      /\ load[k].at = "script" => load[k].script \in Scripts
      /\ UNCHANGED <<scope, verify, release>>
      /\ scripts \in [Scopes -> [Modes -> [Scripts -> {"none", "loading", "done"}]]]
  BY ScopeFacts DEF LoadInv, InOrder, ScriptResolves, ScriptRejects, fixedVars, TypeOK
<1>1. CASE ScriptResolves(s, m, i)
  <2>1. \A t \in Scopes, n \in Modes, j \in Scripts :
          scripts[t][n][j] # "none" => scripts'[t][n][j] # "none"
    BY <1>0, <1>1 DEF ScriptResolves
  <2>2. load' = load /\ answers' = answers
    BY <1>1 DEF ScriptResolves
  <2> QED
    BY <1>0, <2>1, <2>2, LoadKeeps
<1>2. CASE ScriptRejects(s, m, i)
  <2>1. PICK error \in {"load", "integrity", "other"} :
          /\ load' = [l \in Loads |-> IF l \in Awaiting(s, m, i) THEN Failed(error, "gz") ELSE load[l]]
          /\ answers' = [l \in Loads |->
               IF l \in Awaiting(s, m, i) THEN {<<"script", error>>} ELSE answers[l]]
    BY <1>2 DEF ScriptRejects
  <2>2. scripts' = [scripts EXCEPT ![s][m][i] = "none"]
    BY <1>2 DEF ScriptRejects
  <2>3. CASE k \in Awaiting(s, m, i)
    <3>1. load'[k].at = "failed" /\ load'[k].error = error
      BY <2>1, <2>3, FailedFacts DEF Urls
    <3>2. answers'[k] = {<<"script", error>>}
      BY <2>1, <2>3
    <3> QED
      BY <3>1, <3>2 DEF LoadInv, InOrder, RunsVerified, Running, FailsByHost, MismatchEnds
  <2>4. CASE k \notin Awaiting(s, m, i)
    <3>1. load'[k] = load[k] /\ answers'[k] = answers[k]
      BY <2>1, <2>4
    <3>2. load[k].at = "script" => ~(scope[k] = s /\ Mode(k) = m /\ load[k].script = i)
      BY <2>4 DEF Awaiting
    <3>3. load[k].at = "script" =>
            scripts'[scope[k]][Mode(k)][load[k].script] = scripts[scope[k]][Mode(k)][load[k].script]
      BY <1>0, <2>2, <3>2
    <3> QED
      BY <1>0, <3>1, <3>3, LoadKeeps
  <2> QED
    BY <2>3, <2>4
<1> QED
  BY <1>1, <1>2

LEMMA ReopensLoads ==
    ASSUME TypeOK, \A k \in Loads : LoadInv(k), NEW s \in Scopes, Reopens(s)
    PROVE  \A k \in Loads : LoadInv(k)'
<1> SUFFICES ASSUME NEW k \in Loads PROVE LoadInv(k)'
  OBVIOUS
<1>0. /\ LoadInv(k) /\ scope[k] \in Scopes
      /\ UNCHANGED <<scope, verify, answers>>
      /\ load' = [l \in Loads |-> IF scope[l] = s THEN Idle ELSE load[l]]
      /\ \E r \in Releases : release' = [release EXCEPT ![s] = r]
      /\ release \in [Scopes -> Releases]
      /\ scripts' = [scripts EXCEPT ![s] = [m \in Modes |-> [i \in Scripts |-> "none"]]]
      /\ scripts \in [Scopes -> [Modes -> [Scripts -> {"none", "loading", "done"}]]]
  BY ScopeFacts DEF Reopens, TypeOK
<1>1. CASE scope[k] = s
  BY <1>0, <1>1, FreshKeeps
<1>2. CASE scope[k] # s
  <2>1. /\ load'[k] = load[k] /\ scripts'[scope[k]] = scripts[scope[k]]
        /\ release'[scope[k]] = release[scope[k]]
    BY <1>0, <1>2
  <2> QED
    BY <1>0, <2>1, LoadKeeps
<1> QED
  BY <1>1, <1>2

LEMMA LoadInvStep ==
    ASSUME TypeOK, \A k \in Loads : LoadInv(k), Next
    PROVE  \A k \in Loads : LoadInv(k)'
<1>1. CASE Scripting
  BY <1>1, ScriptSteps DEF Scripting
<1>2. ASSUME NEW l \in Loads, Begins(l) \/ Proceeds(l) \/ Retries(l)
      PROVE  \A k \in Loads : LoadInv(k)'
  BY <1>2, LoadSteps
<1>3. ASSUME NEW l \in Loads, Detached(l) PROVE \A k \in Loads : LoadInv(k)'
  <2>1. UNCHANGED <<load, answers, scripts, fixedVars>>
    BY <1>3 DEF Detached, Drops, StorePuts, StorePrunes
  <2> QED
    BY <2>1, LoadsIdle
<1>4. ASSUME NEW s \in Scopes, Reopens(s) PROVE \A k \in Loads : LoadInv(k)'
  BY <1>4, ReopensLoads
<1>5. CASE (\E u \in Urls : Deploys(u)) \/ \E b \in Buckets, u \in Urls : Rots(b, u)
  <2>1. UNCHANGED <<load, answers, scripts, fixedVars>>
    BY <1>5 DEF Deploys, Rots
  <2> QED
    BY <2>1, LoadsIdle
<1> QED
  BY <1>1, <1>2, <1>3, <1>4, <1>5 DEF Next

-----------------------------------------------------------------------------
(* The operations of the cache.                                            *)

LEMMA StoreTyped ==
    TypeOK => /\ bucket \in [Releases -> Buckets \cup {NoBucket}]
              /\ store \in [Buckets -> [Urls -> Bytes \cup {Absent}]]
  BY DEF TypeOK, CacheTypeOK

LEMMA DeleteFacts ==
    ASSUME TypeOK, NEW b \in Buckets, NEW gone, Deletes(b, gone)
    PROVE  /\ store' \in [Buckets -> [Urls -> Bytes \cup {Absent}]] /\ bucket' = bucket
           /\ \A c \in Buckets, u \in Urls :
                store'[c][u] = IF c = b /\ u \in gone THEN Absent ELSE store[c][u]
<1> DEFINE kept == [u \in Urls |-> IF u \in gone THEN Absent ELSE store[b][u]]
<1>1. kept \in [Urls -> Bytes \cup {Absent}]
  BY StoreTyped
<1>2. store' = [store EXCEPT ![b] = kept] /\ bucket' = bucket
  BY DEF Deletes
<1>3. \A u \in Urls : kept[u] = IF u \in gone THEN Absent ELSE store[b][u]
  OBVIOUS
<1> HIDE DEF kept
<1> QED
  BY <1>1, <1>2, <1>3, StoreTyped

LEMMA PutFacts ==
    ASSUME TypeOK, NEW b \in Buckets, NEW u \in Urls, NEW bytes \in Bytes, Puts(b, u, bytes)
    PROVE  /\ store' \in [Buckets -> [Urls -> Bytes \cup {Absent}]] /\ bucket' = bucket
           /\ \A c \in Buckets, v \in Urls :
                store'[c][v] = IF c = b /\ v = u THEN bytes ELSE store[c][v]
  BY StoreTyped DEF Puts

LEMMA OpenBucketFacts ==
    ASSUME TypeOK, NEW r \in Releases, NEW b \in Buckets, OpensBucket(r, b, Held)
    PROVE  \/ bucket[r] = b /\ UNCHANGED <<bucket, store>>
           \/ /\ bucket[r] = NoBucket /\ b \notin Held /\ \A q \in Releases : bucket[q] # b
              /\ bucket' \in [Releases -> Buckets \cup {NoBucket}]
              /\ \A q \in Releases : bucket'[q] = IF q = r THEN b ELSE bucket[q]
              /\ store' \in [Buckets -> [Urls -> Bytes \cup {Absent}]]
              /\ \A c \in Buckets, u \in Urls :
                   store'[c][u] = IF c = b THEN Absent ELSE store[c][u]
<1>1. CASE bucket[r] # NoBucket
  BY <1>1 DEF OpensBucket, cacheVars
<1>2. CASE bucket[r] = NoBucket
  <2> DEFINE none == [u \in Urls |-> Absent]
  <2>1. none \in [Urls -> Bytes \cup {Absent}] /\ \A u \in Urls : none[u] = Absent
    OBVIOUS
  <2>2. /\ b \in Fresh(Held) /\ bucket' = [bucket EXCEPT ![r] = b]
        /\ store' = [store EXCEPT ![b] = none]
    BY <1>2 DEF OpensBucket
  <2> HIDE DEF none
  <2>3. b \notin Held /\ \A q \in Releases : bucket[q] # b
    BY <2>2, ConstantFacts DEF Fresh, Live
  <2> QED
    BY <1>2, <2>1, <2>2, <2>3, StoreTyped
<1> QED
  BY <1>1, <1>2

-----------------------------------------------------------------------------
(* The cache, step by step.                                                *)

LEMMA HandlesKeep ==
    ASSUME TypeOK, Handles, UNCHANGED <<storing, scope, release, verify>>,
           \A r \in Releases : bucket'[r] \in {bucket[r], NoBucket},
           \A l \in Loads : load'[l].cache \in {load[l].cache, NoBucket},
           \A l \in Loads : Running(l) => load'[l] = load[l]
    PROVE  Handles'
<1>1. \A l \in Loads : MyRelease(l)' = MyRelease(l) /\ (Running(l) => Running(l)')
  BY DEF MyRelease, Running
<1>2. \A l \in Loads : storing[l] # NoStore => storing[l].cache # NoBucket
  BY StoreFacts, ConstantFacts
<1>3. ASSUME NEW l \in Loads, NEW b, b # NoBucket, Owns(l, b) PROVE Owns(l, b)'
  BY <1>1, <1>3 DEF Owns
<1>4. \A l \in Loads : load'[l].cache # NoBucket => Owns(l, load[l].cache)' /\ load'[l].cache = load[l].cache
  BY <1>3 DEF Handles
<1>5. \A l \in Loads : storing[l] # NoStore => Owns(l, storing[l].cache)'
  BY <1>2, <1>3 DEF Handles
<1> QED
  BY <1>1, <1>4, <1>5 DEF Handles, Owns

LEMMA PinnedKeeps ==
    ASSUME TypeOK, CacheIsPinned, verify' = verify, rotten \subseteq rotten',
           \A r \in Releases : bucket'[r] \in {bucket[r], NoBucket},
           \A c \in Buckets, u \in Urls : store'[c][u] \in {store[c][u], Absent}
    PROVE  CacheIsPinned'
<1> SUFFICES ASSUME \A l \in Loads : verify[l], NEW r \in Releases, bucket'[r] # NoBucket,
                    NEW u \in Urls, store'[bucket'[r]][u] # Absent
             PROVE  store'[bucket'[r]][u] = r \/ <<bucket'[r], u>> \in rotten'
  BY DEF CacheIsPinned, Entries
<1>1. bucket'[r] = bucket[r] /\ bucket[r] \in Buckets
  BY StoreTyped
<1> QED
  BY <1>1 DEF CacheIsPinned, Entries

LEMMA OneFormKeeps ==
    ASSUME OneForm, torn \subseteq torn',
           \A l \in Loads : storing[l] # NoStore /\ storing[l].at = "prune" =>
             storing[l].cache \in torn' \/ storing'[l] = storing[l],
           \A c \in Buckets, u \in Urls : store[c][u] = Absent => store'[c][u] = Absent
    PROVE  OneForm'
<1> SUFFICES ASSUME NEW b \in Buckets, b \notin torn',
                    NEW u \in Urls, NEW v \in Urls, store'[b][u] # Absent, store'[b][v] # Absent,
                    u # v
             PROVE  \E l \in Loads : /\ storing'[l] # NoStore /\ storing'[l].at = "prune"
                                     /\ storing'[l].cache = b
  BY DEF OneForm, Entries
<1>1. \E l \in Loads : storing[l] # NoStore /\ storing[l].at = "prune" /\ storing[l].cache = b
  BY DEF OneForm, Entries
<1> QED
  BY <1>1

(* A step that leaves the cache and the stores alone.                      *)
LEMMA CacheKeeps ==
    ASSUME TypeOK, CacheInv,
           UNCHANGED <<bucket, store, storing, rotten, torn, scope, release, verify>>,
           \A l \in Loads : load'[l].cache \in {load[l].cache, NoBucket},
           \A l \in Loads : Running(l) => load'[l] = load[l]
    PROVE  CacheInv'
  BY HandlesKeep, PinnedKeeps, OneFormKeeps DEF CacheInv

LEMMA QuietSteps ==
    ASSUME TypeOK, \A k \in Loads : LoadInv(k), CacheInv, NEW l \in Loads,
           Begins(l) \/ ScriptReady(l) \/ OpensNone(l) \/ RunsCached(l)
             \/ FetchFails(l) \/ RefusesFetched(l) \/ Retries(l)
    PROVE  CacheInv'
<1>0. /\ UNCHANGED <<bucket, store, storing, rotten, torn, scope, release, verify>>
      /\ ~Running(l) /\ LoadInv(l)
  BY DEF Begins, ScriptReady, OpensNone, RunsCached, FetchFails, RefusesFetched, Retries,
         Running, fixedVars, worldVars
<1>1. Turns(l, load'[l]) /\ load'[l].cache \in {load[l].cache, NoBucket}
  <2>1. CASE Begins(l) \/ OpensNone(l)
    BY <2>1, BeginsTurns, FetchesTurns
  <2>2. CASE ScriptReady(l)
    <3>1. load[l].script \in Scripts
      BY <1>0, <2>2 DEF LoadInv, InOrder, ScriptReady
    <3> QED
      BY <2>2, <3>1, ScriptReadyTurns
  <2>3. CASE RunsCached(l)
    <3>1. PICK bytes \in Bytes : load' = [load EXCEPT ![l] = Runs(bytes)]
      BY <1>0, <2>3, RunsWithin
    <3> QED
      BY <3>1, RunsTurns
  <2>4. CASE FetchFails(l) \/ RefusesFetched(l)
    <3>1. PICK error \in {"load", "integrity", "other"} : NextUrl(l, error)
      BY <2>4, VerdictFacts DEF FetchFails, RefusesFetched
    <3> QED
      BY <3>1, NextUrlTurns
  <2>5. CASE Retries(l)
    <3>1. load' = [load EXCEPT ![l] = Idle]
      BY <2>5 DEF Retries
    <3> QED
      BY <3>1, IdleFacts, TurnsFacts DEF Turns
  <2> QED
    BY <2>1, <2>2, <2>3, <2>4, <2>5
<1>2. /\ \A k \in Loads : load'[k].cache \in {load[k].cache, NoBucket}
      /\ \A k \in Loads : Running(k) => load'[k] = load[k]
  BY <1>0, <1>1 DEF Turns
<1> QED
  BY <1>0, <1>2, CacheKeeps

LEMMA EvictionKeeps ==
    ASSUME TypeOK, \A k \in Loads : LoadInv(k), CacheInv, NEW l \in Loads, EvictsCached(l)
    PROVE  CacheInv'
<1>0. /\ load[l].at = "cached" /\ ~Running(l) /\ load[l].cache \in Buckets
      /\ Evicts(load[l].cache, load[l].url)
      /\ UNCHANGED <<storing, rotten, torn, scope, release, verify>>
  BY DEF EvictsCached, Running, LoadInv, InOrder, fixedVars, worldVars
<1>1. /\ bucket' = bucket
      /\ \A c \in Buckets, u \in Urls : store'[c][u] \in {store[c][u], Absent}
  <2>1. PICK gone \in SUBSET {load[l].url} : Deletes(load[l].cache, gone)
    BY <1>0 DEF Evicts
  <2> QED
    BY <1>0, <2>1, DeleteFacts
<1>2. /\ \A k \in Loads : load'[k].cache \in {load[k].cache, NoBucket}
      /\ \A k \in Loads : Running(k) => load'[k] = load[k]
  BY <1>0, FetchesTurns DEF Turns
<1> QED
  BY <1>0, <1>1, <1>2, HandlesKeep, PinnedKeeps, OneFormKeeps DEF CacheInv

LEMMA ScriptsKeep ==
    ASSUME TypeOK, CacheInv, NEW s \in Scopes, NEW m \in Modes, NEW i \in Scripts,
           ScriptResolves(s, m, i) \/ ScriptRejects(s, m, i)
    PROVE  CacheInv'
<1>1. UNCHANGED <<bucket, store, storing, rotten, torn, scope, release, verify>>
  BY DEF ScriptResolves, ScriptRejects, fixedVars, worldVars
<1>2. /\ \A k \in Loads : load'[k].cache \in {load[k].cache, NoBucket}
      /\ \A k \in Loads : Running(k) => load'[k] = load[k]
  <2>1. CASE ScriptResolves(s, m, i)
    BY <2>1 DEF ScriptResolves
  <2>2. CASE ScriptRejects(s, m, i)
    <3>1. PICK error \in {"load", "integrity", "other"} :
            load' = [l \in Loads |-> IF l \in Awaiting(s, m, i) THEN Failed(error, "gz") ELSE load[l]]
      BY <2>2 DEF ScriptRejects
    <3>2. Failed(error, "gz").cache = NoBucket
      BY FailedFacts DEF Urls
    <3> QED
      BY <3>1, <3>2 DEF Running, Awaiting
  <2> QED
    BY <2>1, <2>2
<1> QED
  BY <1>1, <1>2, CacheKeeps

LEMMA OpeningKeeps ==
    ASSUME TypeOK, CacheInv, NEW l \in Loads, Opens(l)
    PROVE  CacheInv'
<1>0. /\ load[l].at = "open" /\ ~Running(l) /\ MyRelease(l) \in Releases
      /\ UNCHANGED <<storing, rotten, torn, scope, release, verify>>
      /\ Handles /\ CacheIsPinned /\ OneForm
  BY ScopeFacts DEF Opens, Running, fixedVars, worldVars, CacheInv
<1>1. PICK b \in Buckets : /\ OpensBucket(MyRelease(l), b, Held)
                           /\ Turns(l, load'[l]) /\ load'[l].cache = b
  BY OpensFacts
<1>2. \A k \in Loads : MyRelease(k)' = MyRelease(k) /\ (Running(k) => Running(k)')
  BY <1>0, <1>1 DEF MyRelease, Running, Turns
<1>3. CASE bucket[MyRelease(l)] = b /\ UNCHANGED <<bucket, store>>
  <2>1. Owns(l, b)
    BY <1>0, <1>3, ConstantFacts DEF Handles, Owns
  <2>2. \A k \in Loads : load'[k].cache # NoBucket => Owns(k, load'[k].cache)
    BY <1>0, <1>1, <2>1 DEF Turns, Handles
  <2>3. Handles'
    BY <1>0, <1>2, <1>3, <2>2 DEF Handles, Owns
  <2>4. CacheIsPinned' /\ OneForm'
    BY <1>0, <1>3, PinnedKeeps, OneFormKeeps
  <2> QED
    BY <2>3, <2>4 DEF CacheInv
<1>4. CASE /\ bucket[MyRelease(l)] = NoBucket /\ b \notin Held /\ \A q \in Releases : bucket[q] # b
           /\ \A q \in Releases : bucket'[q] = IF q = MyRelease(l) THEN b ELSE bucket[q]
           /\ \A c \in Buckets, u \in Urls : store'[c][u] = IF c = b THEN Absent ELSE store[c][u]
  <2>1. \A k \in Loads : /\ load[k].cache # b
                         /\ storing[k] # NoStore => storing[k].cache # b
    BY <1>4 DEF Held
  <2>2. \A k \in Loads, c \in Buckets : c # b /\ Owns(k, c) => Owns(k, c)'
    BY <1>2, <1>4 DEF Owns
  <2>3. Owns(l, b)'
    BY <1>2, <1>4 DEF Owns
  <2>4. \A k \in Loads : load'[k].cache # NoBucket => Owns(k, load[k].cache)'
    <3>1. ASSUME NEW k \in Loads, k # l, load'[k].cache # NoBucket PROVE Owns(k, load[k].cache)'
      <4>1. load'[k] = load[k] /\ load[k].cache \in Buckets
        <5>1. load'[k] = load[k] /\ load[k].cache \in Buckets \cup {NoBucket}
          BY <1>1, <3>1, LoadFacts DEF Turns
        <5> QED
          BY <3>1, <5>1
      <4>2. Owns(k, load[k].cache) /\ load[k].cache # b
        BY <1>0, <2>1, <3>1, <4>1 DEF Handles
      <4> QED
        BY <1>2, <1>4, <4>1, <4>2 DEF Owns
    <3>2. Owns(l, load[l].cache)'
      BY <1>1, <2>3 DEF Owns
    <3> QED
      BY <3>1, <3>2
  <2>5. \A k \in Loads : storing[k] # NoStore => Owns(k, storing[k].cache)'
    BY <1>0, <2>1, <2>2, StoreFacts DEF Handles
  <2>6. \A r, q \in Releases : bucket'[r] # NoBucket /\ bucket'[r] = bucket'[q] => r = q
    BY <1>0, <1>4 DEF Handles
  <2>7. Handles'
    BY <1>0, <1>2, <2>4, <2>5, <2>6 DEF Handles
  <2>8. CacheIsPinned'
    <3> SUFFICES ASSUME \A k \in Loads : verify[k], NEW r \in Releases, bucket'[r] # NoBucket,
                        NEW u \in Urls, store'[bucket'[r]][u] # Absent
                 PROVE  store'[bucket'[r]][u] = r \/ <<bucket'[r], u>> \in rotten
      BY <1>0 DEF CacheIsPinned, Entries
    <3>1. r # MyRelease(l)
      BY <1>4
    <3>2. bucket'[r] = bucket[r] /\ bucket[r] \in Buckets /\ bucket[r] # b
      BY <1>4, <3>1, StoreTyped
    <3>3. store'[bucket[r]][u] = store[bucket[r]][u]
      BY <1>4, <3>2
    <3> QED
      BY <1>0, <3>2, <3>3 DEF CacheIsPinned, Entries
  <2>9. OneForm'
    BY <1>0, <1>4, OneFormKeeps
  <2> QED
    BY <2>7, <2>8, <2>9 DEF CacheInv
<1> QED
  BY <1>0, <1>1, <1>3, <1>4, OpenBucketFacts

LEMMA RunsFetchedKeeps ==
    ASSUME TypeOK, CacheInv, \A k \in Loads : LoadInv(k), NEW l \in Loads, RunsFetched(l)
    PROVE  CacheInv'
<1> DEFINE bytes == hosted[load[l].url]
<1>0. /\ load[l].at = "fetch" /\ ~Running(l) /\ load[l].cache \in Buckets \cup {NoBucket}
      /\ load[l].url \in Urls /\ bytes \in Bytes
      /\ verify[l] => bytes = MyRelease(l)
      /\ load' = [load EXCEPT ![l] = Runs(bytes)] /\ Keeps(l, bytes)
      /\ UNCHANGED <<bucket, store, rotten, torn, scope, release, verify>>
      /\ Handles /\ CacheIsPinned /\ OneForm
      /\ storing[l] = NoStore
  <2>1. load[l].url \in Urls /\ load[l].cache \in Buckets \cup {NoBucket} /\ bytes \in Bytes
    BY LoadFacts DEF TypeOK
  <2>2. load[l].at = "fetch" /\ ~Running(l)
    BY DEF RunsFetched, Running
  <2> QED
    BY <2>1, <2>2, VerdictFacts DEF RunsFetched, fixedVars, worldVars, CacheInv, Handles
<1> DEFINE new == [at |-> "put", cache |-> load[l].cache, url |-> load[l].url, bytes |-> bytes]
<1>1. /\ storing'[l] = IF load[l].cache = NoBucket THEN storing[l] ELSE new
      /\ \A k \in Loads : k # l => storing'[k] = storing[k]
  <2>1. storing' = [storing EXCEPT ![l] = IF load[l].cache = NoBucket THEN storing[l] ELSE new]
    BY <1>0 DEF Keeps
  <2>2. storing \in [Loads -> Store \cup {NoStore}]
    BY DEF TypeOK
  <2> HIDE DEF new
  <2> QED
    BY <2>1, <2>2
<1>2. new.cache = load[l].cache /\ new.bytes = bytes
  OBVIOUS
<1> HIDE DEF new, bytes
<1>3. Turns(l, load'[l]) /\ load'[l].at = "running" /\ load'[l].cache = NoBucket
  BY <1>0, RunsTurns
<1>4. \A k \in Loads : \A b : MyRelease(k)' = MyRelease(k) /\ (Owns(k, b) => Owns(k, b)')
                          /\ (Running(k) => Running(k)')
  BY <1>0, <1>3 DEF MyRelease, Owns, Running, Turns
<1>5. \A k \in Loads : load'[k].cache # NoBucket => Owns(k, load[k].cache)'
  BY <1>0, <1>3, <1>4 DEF Turns, Handles
<1>6. \A k \in Loads :
        storing'[k] # NoStore => /\ Running(k)' /\ Owns(k, storing[k].cache)'
                                 /\ verify[k] => storing'[k].bytes = MyRelease(k)
  <2>1. ASSUME NEW k \in Loads, k # l, storing'[k] # NoStore
        PROVE  /\ Running(k)' /\ Owns(k, storing[k].cache)'
               /\ verify[k] => storing'[k].bytes = MyRelease(k)
    BY <1>0, <1>1, <1>4, <2>1 DEF Handles
  <2>2. ASSUME storing'[l] # NoStore
        PROVE  /\ Running(l)' /\ Owns(l, storing[l].cache)'
               /\ verify[l] => storing'[l].bytes = MyRelease(l)
    BY <1>0, <1>1, <1>2, <1>3, <1>4, <2>2 DEF Handles, Running
  <2> QED
    BY <2>1, <2>2
<1>7. Handles'
  BY <1>0, <1>4, <1>5, <1>6 DEF Handles
<1>8. OneForm'
  BY <1>0, <1>1, OneFormKeeps
<1> QED
  BY <1>0, <1>7, <1>8, PinnedKeeps DEF CacheInv

LEMMA DropsKeep ==
    ASSUME TypeOK, CacheInv, NEW l \in Loads, Drops(l)
    PROVE  CacheInv'
<1>1. /\ \A r \in Releases : bucket'[r] \in {bucket[r], NoBucket}
      /\ UNCHANGED <<store, load, storing, rotten, torn, scope, release, verify>>
  BY DEF Drops, DropsSuperseded, fixedVars, worldVars
<1> QED
  BY <1>1, HandlesKeep, PinnedKeeps, OneFormKeeps DEF CacheInv

LEMMA RotsKeep ==
    ASSUME TypeOK, CacheInv, NEW b \in Buckets, NEW u \in Urls, Rots(b, u)
    PROVE  CacheInv'
<1>0. PICK f \in Bytes : Puts(b, u, f)
  BY DEF Rots
<1>1. /\ bucket' = bucket /\ store[b][u] # Absent /\ rotten' = rotten \cup {<<b, u>>}
      /\ UNCHANGED <<load, storing, torn, scope, release, verify>>
      /\ \A c \in Buckets, v \in Urls :
           store'[c][v] = IF c = b /\ v = u THEN f ELSE store[c][v]
  BY <1>0, PutFacts DEF Rots, fixedVars
<1>2. Handles' /\ OneForm'
  BY <1>1, HandlesKeep, OneFormKeeps DEF CacheInv
<1>3. CacheIsPinned'
  <2> SUFFICES ASSUME \A k \in Loads : verify[k], NEW r \in Releases, bucket'[r] # NoBucket,
                      NEW v \in Urls, store'[bucket'[r]][v] # Absent
               PROVE  store'[bucket'[r]][v] = r \/ <<bucket'[r], v>> \in rotten'
    BY <1>1 DEF CacheIsPinned, Entries
  <2>1. bucket'[r] = bucket[r] /\ bucket[r] \in Buckets
    BY <1>1, StoreTyped
  <2>2. CASE bucket[r] = b /\ v = u
    BY <1>1, <2>1, <2>2
  <2>3. CASE ~(bucket[r] = b /\ v = u)
    <3>1. store'[bucket[r]][v] = store[bucket[r]][v]
      BY <1>1, <2>1, <2>3
    <3> QED
      BY <1>1, <2>1, <3>1 DEF CacheInv, CacheIsPinned, Entries
  <2> QED
    BY <2>2, <2>3
<1> QED
  BY <1>2, <1>3 DEF CacheInv

(* A detached store that goes on to prune, or ends.                        *)
LEMMA StoringFacts ==
    ASSUME TypeOK, NEW l \in Loads, storing[l].at \in {"put", "prune"}
    PROVE  /\ storing[l] # NoStore
           /\ \/ storing' = [storing EXCEPT ![l].at = "prune"]
              \/ storing' = [storing EXCEPT ![l] = NoStore]
              => /\ storing' \in [Loads -> Store \cup {NoStore}]
                 /\ \A k \in Loads : k # l => storing'[k] = storing[k]
           /\ storing' = [storing EXCEPT ![l].at = "prune"] =>
                 /\ storing'[l] # NoStore /\ storing'[l].at = "prune"
                 /\ storing'[l].cache = storing[l].cache
                 /\ storing'[l].url = storing[l].url /\ storing'[l].bytes = storing[l].bytes
           /\ storing' = [storing EXCEPT ![l] = NoStore] => storing'[l] = NoStore
<1>0. storing \in [Loads -> Store \cup {NoStore}] /\ storing[l] # NoStore /\ storing[l] \in Store
      /\ NoStore.at = "none"
  BY StoreFacts DEF TypeOK
<1> DEFINE new == [storing[l] EXCEPT !.at = "prune"]
<1>1. /\ new \in Store /\ new.at = "prune" /\ new.cache = storing[l].cache
      /\ new.url = storing[l].url /\ new.bytes = storing[l].bytes
  BY <1>0 DEF Store
<1>2. storing' = [storing EXCEPT ![l].at = "prune"] => storing' = [storing EXCEPT ![l] = new]
  OBVIOUS
<1> HIDE DEF new
<1> QED
  BY <1>0, <1>1, <1>2

LEMMA StorePutsKeep ==
    ASSUME TypeOK, CacheInv, NEW l \in Loads, StorePuts(l)
    PROVE  CacheInv'
<1>0. /\ storing[l].at = "put" /\ storing[l] # NoStore /\ storing[l].cache \in Buckets
      /\ storing[l].url \in Urls /\ storing[l].bytes \in Bytes
      /\ \/ storing' = [storing EXCEPT ![l].at = "prune"]
         \/ storing' = [storing EXCEPT ![l] = NoStore]
      /\ UNCHANGED <<load, torn, scope, release, verify>>
      /\ Handles /\ CacheIsPinned /\ OneForm
  BY StoreFacts DEF StorePuts, fixedVars, CacheInv
<1>1. /\ \A k \in Loads : k # l => storing'[k] = storing[k]
      /\ \/ storing'[l] = NoStore
         \/ /\ storing'[l] # NoStore /\ storing'[l].at = "prune"
            /\ storing'[l].cache = storing[l].cache /\ storing'[l].bytes = storing[l].bytes
  BY <1>0, StoringFacts
<1>2. /\ bucket' = bucket
      /\ \/ UNCHANGED <<store, rotten>>
         \/ /\ storing'[l] # NoStore /\ storing'[l].at = "prune"
            /\ storing'[l].cache = storing[l].cache
            /\ Puts(storing[l].cache, storing[l].url, storing[l].bytes)
            /\ rotten' = rotten \ {<<storing[l].cache, storing[l].url>>}
  BY <1>0, StoringFacts DEF StorePuts, Puts
<1>3. Handles'
  <2>1. \A k \in Loads : MyRelease(k)' = MyRelease(k) /\ Running(k)' = Running(k)
    BY <1>0 DEF MyRelease, Running
  <2>2. \A k \in Loads : storing'[k] # NoStore => /\ storing[k] # NoStore
                                                  /\ storing'[k].cache = storing[k].cache
                                                  /\ storing'[k].bytes = storing[k].bytes
    BY <1>0, <1>1
  <2> QED
    BY <1>0, <1>2, <2>1, <2>2 DEF Handles, Owns
<1>4. CASE UNCHANGED <<store, rotten>>
  <2>1. CacheIsPinned'
    BY <1>0, <1>2, <1>4, PinnedKeeps
  <2>2. OneForm'
    BY <1>0, <1>1, <1>4 DEF OneForm, Entries
  <2> QED
    BY <1>3, <2>1, <2>2 DEF CacheInv
<1>5. CASE /\ storing'[l] # NoStore /\ storing'[l].at = "prune"
           /\ storing'[l].cache = storing[l].cache
           /\ Puts(storing[l].cache, storing[l].url, storing[l].bytes)
           /\ rotten' = rotten \ {<<storing[l].cache, storing[l].url>>}
  <2> DEFINE b == storing[l].cache
             u == storing[l].url
  <2>1. \A c \in Buckets, v \in Urls :
          store'[c][v] = IF c = b /\ v = u THEN storing[l].bytes ELSE store[c][v]
    BY <1>0, <1>5, PutFacts
  <2>2. CacheIsPinned'
    <3> SUFFICES ASSUME \A k \in Loads : verify[k], NEW r \in Releases, bucket[r] # NoBucket,
                        NEW v \in Urls, store'[bucket[r]][v] # Absent
                 PROVE  store'[bucket[r]][v] = r \/ <<bucket[r], v>> \in rotten'
      BY <1>0, <1>2 DEF CacheIsPinned, Entries
    <3>1. bucket[r] \in Buckets
      BY StoreTyped
    <3>2. CASE bucket[r] = b /\ v = u
      <4>1. r = MyRelease(l) /\ storing[l].bytes = MyRelease(l)
        BY <1>0, <3>2 DEF Handles, Owns
      <4> QED
        BY <2>1, <3>1, <3>2, <4>1
    <3>3. CASE ~(bucket[r] = b /\ v = u)
      <4>1. store'[bucket[r]][v] = store[bucket[r]][v]
        BY <2>1, <3>1, <3>3
      <4>2. store[bucket[r]][v] = r \/ <<bucket[r], v>> \in rotten
        BY <1>0, <4>1 DEF CacheIsPinned, Entries
      <4> QED
        BY <1>5, <3>3, <4>1, <4>2
    <3> QED
      BY <3>2, <3>3
  <2>3. OneForm'
    <3> SUFFICES ASSUME NEW c \in Buckets, c \notin torn
                 PROVE  \/ \E k \in Loads : /\ storing'[k] # NoStore /\ storing'[k].at = "prune"
                                            /\ storing'[k].cache = c
                        \/ \A v, w \in Entries(c)' : v = w
      BY <1>0 DEF OneForm
    <3>1. CASE c = b
      BY <1>5, <3>1
    <3>2. CASE c # b
      <4>1. Entries(c)' = Entries(c)
        BY <2>1, <3>2 DEF Entries
      <4>2. \A k \in Loads : storing[k].at = "prune" => storing'[k] = storing[k]
        BY <1>0, <1>1
      <4> QED
        BY <1>0, <4>1, <4>2 DEF OneForm
    <3> QED
      BY <3>1, <3>2
  <2> QED
    BY <1>3, <2>2, <2>3 DEF CacheInv
<1> QED
  BY <1>2, <1>4, <1>5

LEMMA StorePrunesKeep ==
    ASSUME TypeOK, CacheInv, NEW l \in Loads, StorePrunes(l)
    PROVE  CacheInv'
<1> DEFINE b == storing[l].cache
           u == storing[l].url
           stale == Entries(b) \ {u}
<1>0. /\ storing[l].at = "prune" /\ storing[l] # NoStore /\ b \in Buckets /\ u \in Urls
      /\ storing' = [storing EXCEPT ![l] = NoStore]
      /\ UNCHANGED <<load, rotten, scope, release, verify>>
      /\ Handles /\ CacheIsPinned /\ OneForm
  BY StoreFacts DEF StorePrunes, fixedVars, CacheInv
<1>1. /\ storing'[l] = NoStore /\ \A k \in Loads : k # l => storing'[k] = storing[k]
  BY <1>0, StoringFacts
<1>2. PICK gone \in SUBSET stale :
        /\ Deletes(b, gone)
        /\ torn' = IF gone = stale THEN torn \ {b} ELSE torn \cup {b}
  BY DEF StorePrunes, Prunes
<1>3. /\ bucket' = bucket
      /\ \A c \in Buckets, v \in Urls :
           store'[c][v] = IF c = b /\ v \in gone THEN Absent ELSE store[c][v]
  BY <1>0, <1>2, DeleteFacts
<1>4. Handles'
  <2>1. \A k \in Loads : MyRelease(k)' = MyRelease(k) /\ Running(k)' = Running(k)
    BY <1>0 DEF MyRelease, Running
  <2> QED
    BY <1>0, <1>1, <1>3, <2>1 DEF Handles, Owns
<1>5. CacheIsPinned'
  BY <1>0, <1>3, PinnedKeeps
<1>6. OneForm'
  <2> SUFFICES ASSUME NEW c \in Buckets, c \notin torn'
               PROVE  \/ \E k \in Loads : /\ storing'[k] # NoStore /\ storing'[k].at = "prune"
                                          /\ storing'[k].cache = c
                      \/ \A v, w \in Entries(c)' : v = w
    BY <1>0 DEF OneForm
  <2>1. CASE c = b
    <3>1. gone = stale
      BY <1>2, <2>1
    <3>2. \A v \in Entries(c)' : v = u
      BY <1>0, <1>3, <2>1, <3>1 DEF Entries
    <3> QED
      BY <3>2
  <2>2. CASE c # b
    <3>1. Entries(c)' = Entries(c) /\ c \notin torn
      BY <1>2, <1>3, <2>2 DEF Entries
    <3> QED
      BY <1>0, <1>1, <2>2, <3>1 DEF OneForm
  <2> QED
    BY <2>1, <2>2
<1> QED
  BY <1>4, <1>5, <1>6 DEF CacheInv

LEMMA ReopensKeep ==
    ASSUME TypeOK, CacheInv, NEW s \in Scopes, Reopens(s)
    PROVE  CacheInv'
<1> DEFINE mine == {k \in Loads : scope[k] = s}
<1>0. /\ load' = [k \in Loads |-> IF k \in mine THEN Idle ELSE load[k]]
      /\ storing' = [k \in Loads |-> IF k \in mine THEN NoStore ELSE storing[k]]
      /\ torn' = torn \cup {storing[k].cache : k \in {m \in mine : storing[m].at = "prune"}}
      /\ \E r \in Releases : release' = [release EXCEPT ![s] = r]
      /\ UNCHANGED <<bucket, store, scope, verify, rotten>>
      /\ release \in [Scopes -> Releases]
      /\ Handles /\ CacheIsPinned /\ OneForm
  BY DEF Reopens, TypeOK, CacheInv
<1>1. \A k \in Loads : scope[k] # s => MyRelease(k)' = MyRelease(k) /\ Running(k)' = Running(k)
  BY <1>0, ScopeFacts DEF MyRelease, Running
<1>2. \A k \in Loads : scope[k] = s => load'[k].cache = NoBucket /\ storing'[k] = NoStore
  BY <1>0, IdleFacts
<1>3. \A k \in Loads : scope[k] # s => load'[k] = load[k] /\ storing'[k] = storing[k]
  BY <1>0
<1>4. Handles'
  BY <1>0, <1>1, <1>2, <1>3 DEF Handles, Owns
<1>5. CacheIsPinned'
  BY <1>0, PinnedKeeps
<1>6. OneForm'
  <2>1. \A k \in Loads : storing[k] # NoStore /\ storing[k].at = "prune" =>
          storing[k].cache \in torn' \/ storing'[k] = storing[k]
    BY <1>0
  <2>2. torn \subseteq torn'
    BY <1>0
  <2> QED
    BY <1>0, <2>1, <2>2, OneFormKeeps
<1> QED
  BY <1>4, <1>5, <1>6 DEF CacheInv

LEMMA CacheInvStep ==
    ASSUME TypeOK, \A k \in Loads : LoadInv(k), CacheInv, Next
    PROVE  CacheInv'
<1>1. CASE Scripting
  BY <1>1, ScriptsKeep DEF Scripting
<1>2. ASSUME NEW l \in Loads, Begins(l) \/ Proceeds(l) \/ Detached(l) \/ Retries(l)
      PROVE  CacheInv'
  BY <1>2, QuietSteps, OpeningKeeps, EvictionKeeps, RunsFetchedKeeps, DropsKeep, StorePutsKeep,
     StorePrunesKeep DEF Proceeds, Detached
<1>3. ASSUME NEW s \in Scopes, Reopens(s) PROVE CacheInv'
  BY <1>3, ReopensKeep
<1>4. ASSUME NEW u \in Urls, Deploys(u) PROVE CacheInv'
  BY <1>4, CacheKeeps DEF Deploys, fixedVars
<1>5. ASSUME NEW b \in Buckets, NEW u \in Urls, Rots(b, u) PROVE CacheInv'
  BY <1>5, RotsKeep
<1> QED
  BY <1>1, <1>2, <1>3, <1>4, <1>5 DEF Next

-----------------------------------------------------------------------------
(* The types, and the theorems.                                            *)

AnswerSets == SUBSET ((Urls \cup {"script"}) \X {"load", "integrity", "other"})
Promises == [Modes -> [Scripts -> {"none", "loading", "done"}]]

LoadTypes ==
    /\ load \in [Loads -> Attempt] /\ scripts \in [Scopes -> Promises]
    /\ answers \in [Loads -> AnswerSets]

StoreTypes ==
    /\ bucket \in [Releases -> Buckets \cup {NoBucket}]
    /\ store \in [Buckets -> [Urls -> Bytes \cup {Absent}]]
    /\ storing \in [Loads -> Store \cup {NoStore}]
    /\ dropping \subseteq Loads

FixedTypes ==
    /\ scope \in Layouts /\ release \in [Scopes -> Releases]
    /\ secure \in BOOLEAN /\ verify \in [Loads -> BOOLEAN]
    /\ hosted \in [Urls -> Bytes]

LEMMA TypeParts == TypeOK <=> LoadTypes /\ StoreTypes /\ FixedTypes
  BY DEF TypeOK, CacheTypeOK, LoadTypes, StoreTypes, FixedTypes, AnswerSets, Promises

LEMMA LoadTypesStep ==
    ASSUME TypeOK, \A k \in Loads : LoadInv(k), Next
    PROVE  LoadTypes'
<1>0. LoadTypes
  BY TypeParts
<1>1. ASSUME NEW s \in Scopes, NEW m \in Modes, NEW i \in Scripts,
             ScriptResolves(s, m, i) \/ ScriptRejects(s, m, i)
      PROVE  LoadTypes'
  <2>1. scripts' \in [Scopes -> Promises]
    <3>1. PICK x \in {"none", "done"} : scripts' = [scripts EXCEPT ![s][m][i] = x]
      BY <1>1 DEF ScriptResolves, ScriptRejects
    <3> QED
      BY <1>0, <3>1 DEF LoadTypes, Promises
  <2>2. CASE ScriptResolves(s, m, i)
    BY <1>0, <2>1, <2>2 DEF ScriptResolves, LoadTypes
  <2>3. CASE ScriptRejects(s, m, i)
    <3>1. PICK error \in {"load", "integrity", "other"} :
          /\ load' = [l \in Loads |-> IF l \in Awaiting(s, m, i) THEN Failed(error, "gz") ELSE load[l]]
          /\ answers' = [l \in Loads |->
               IF l \in Awaiting(s, m, i) THEN {<<"script", error>>} ELSE answers[l]]
      BY <2>3 DEF ScriptRejects
    <3>2. Failed(error, "gz") \in Attempt
      BY FailedFacts DEF Urls
    <3>3. {<<"script", error>>} \in AnswerSets
      BY DEF AnswerSets
    <3>4. load' \in [Loads -> Attempt]
      BY <1>0, <3>1, <3>2 DEF LoadTypes
    <3>5. answers' \in [Loads -> AnswerSets]
      BY <1>0, <3>1, <3>3 DEF LoadTypes
    <3> QED
      BY <2>1, <3>4, <3>5 DEF LoadTypes
  <2> QED
    BY <1>1, <2>2, <2>3
<1>2. ASSUME NEW l \in Loads, Begins(l) PROVE LoadTypes'
  <2>1. CallsScript(l, 1) /\ answers' = [answers EXCEPT ![l] = {}] /\ 1 \in Scripts
    BY <1>2, ConstantFacts DEF Begins
  <2>2. answers' \in [Loads -> AnswerSets]
    BY <1>0, <2>1 DEF LoadTypes, AnswerSets
  <2> QED
    BY <1>2, <2>1, <2>2, BeginsTurns, CallsFacts DEF LoadTypes, Turns, Promises
<1>3. ASSUME NEW l \in Loads, ScriptReady(l) PROVE LoadTypes'
  <2>1. load[l].script \in Scripts /\ answers' = answers
    BY <1>3 DEF LoadInv, InOrder, ScriptReady
  <2>2. Turns(l, load'[l]) /\ scripts' \in [Scopes -> Promises]
    BY <1>0, <1>3, <2>1, ScriptReadyTurns, CallsFacts DEF LoadTypes, Promises
  <2> QED
    BY <1>0, <2>1, <2>2 DEF LoadTypes, Turns
<1>4. ASSUME NEW l \in Loads,
             Opens(l) \/ OpensNone(l) \/ RunsCached(l) \/ EvictsCached(l) \/ RunsFetched(l) \/ Retries(l)
      PROVE  LoadTypes'
  <2>1. UNCHANGED <<scripts, answers>>
    BY <1>4 DEF Opens, OpensNone, RunsCached, EvictsCached, RunsFetched, Retries
  <2>2. load' \in [Loads -> Attempt]
    <3>1. CASE Opens(l)
      BY <3>1, OpensFacts DEF Turns
    <3>2. CASE OpensNone(l) \/ EvictsCached(l)
      BY <3>2, FetchesTurns DEF Turns
    <3>3. CASE RunsCached(l) \/ RunsFetched(l)
      BY <3>3, RunsWithin, RunsTurns DEF Turns
    <3>4. CASE Retries(l)
      BY <3>4, IdleFacts, TurnsFacts DEF Retries, Turns
    <3> QED
      BY <1>4, <3>1, <3>2, <3>3, <3>4
  <2> QED
    BY <1>0, <2>1, <2>2 DEF LoadTypes
<1>5. ASSUME NEW l \in Loads, FetchFails(l) \/ RefusesFetched(l) PROVE LoadTypes'
  <2>1. UNCHANGED scripts
        /\ \E error \in {"load", "integrity", "other"} : NextUrl(l, error) /\ Answer(l, error)
    BY <1>5, VerdictFacts DEF FetchFails, RefusesFetched
  <2> QED
    BY <1>0, <2>1, NextUrlTurns, AnswerFacts DEF LoadTypes, Turns, AnswerSets
<1>6. ASSUME NEW s \in Scopes, Reopens(s) PROVE LoadTypes'
  <2> DEFINE none == [m \in Modes |-> [i \in Scripts |-> "none"]]
  <2>1. scripts' = [scripts EXCEPT ![s] = none] /\ none \in Promises
    BY <1>6 DEF Reopens, Promises
  <2>2. scripts' \in [Scopes -> Promises]
    <3> HIDE DEF none
    <3> QED
      BY <1>0, <2>1 DEF LoadTypes
  <2>3. load' \in [Loads -> Attempt]
    BY <1>0, <1>6, IdleFacts DEF Reopens, LoadTypes
  <2> QED
    BY <1>0, <1>6, <2>2, <2>3 DEF Reopens, LoadTypes
<1>7. CASE UNCHANGED <<load, scripts, answers>>
  BY <1>0, <1>7 DEF LoadTypes
<1>8. ASSUME NEW l \in Loads, Detached(l) PROVE LoadTypes'
  BY <1>7, <1>8 DEF Detached, Drops, StorePuts, StorePrunes
<1>9. ASSUME (\E u \in Urls : Deploys(u)) \/ \E b \in Buckets, u \in Urls : Rots(b, u)
      PROVE  LoadTypes'
  BY <1>7, <1>9 DEF Deploys, Rots
<1> QED
  BY <1>1, <1>2, <1>3, <1>4, <1>5, <1>6, <1>8, <1>9 DEF Next, Scripting, Proceeds

LEMMA StoreTypesStep ==
    ASSUME TypeOK, \A k \in Loads : LoadInv(k), Next
    PROVE  StoreTypes'
<1>0. StoreTypes
  BY TypeParts
<1>1. CASE UNCHANGED <<bucket, store, storing, dropping>>
  BY <1>0, <1>1 DEF StoreTypes
<1>2. CASE Scripting
  BY <1>1, <1>2 DEF Scripting, ScriptResolves, ScriptRejects
<1>3. ASSUME NEW l \in Loads,
             Begins(l) \/ ScriptReady(l) \/ OpensNone(l) \/ RunsCached(l)
               \/ FetchFails(l) \/ RefusesFetched(l) \/ Retries(l)
      PROVE  StoreTypes'
  BY <1>1, <1>3 DEF Begins, ScriptReady, OpensNone, RunsCached, FetchFails, RefusesFetched, Retries
<1>4. ASSUME NEW l \in Loads, Opens(l) PROVE StoreTypes'
  <2>1. PICK b \in Buckets : OpensBucket(MyRelease(l), b, Held)
    BY <1>4, OpensFacts
  <2>2. bucket' \in [Releases -> Buckets \cup {NoBucket}]
        /\ store' \in [Buckets -> [Urls -> Bytes \cup {Absent}]]
    BY <1>0, <2>1, ScopeFacts, OpenBucketFacts DEF StoreTypes
  <2> QED
    BY <1>0, <1>4, <2>2 DEF Opens, StoreTypes
<1>5. ASSUME NEW l \in Loads, EvictsCached(l) PROVE StoreTypes'
  <2>1. load[l].cache \in Buckets /\ (\E gone : Deletes(load[l].cache, gone))
        /\ UNCHANGED <<storing, dropping>>
    BY <1>5 DEF EvictsCached, Evicts, LoadInv, InOrder
  <2> QED
    BY <1>0, <2>1, DeleteFacts DEF StoreTypes
<1>6. ASSUME NEW l \in Loads, RunsFetched(l) PROVE StoreTypes'
  <2> DEFINE new == [at |-> "put", cache |-> load[l].cache, url |-> load[l].url,
                     bytes |-> hosted[load[l].url]]
  <2>1. /\ storing' = [storing EXCEPT ![l] = IF load[l].cache = NoBucket THEN @ ELSE new]
        /\ UNCHANGED <<bucket, store, dropping>>
    BY <1>6 DEF RunsFetched, Keeps
  <2>2. load[l].cache # NoBucket => new \in Store
    <3>1. /\ load[l].cache # NoBucket => load[l].cache \in Buckets
          /\ load[l].url \in Urls /\ hosted[load[l].url] \in Bytes
      BY LoadFacts DEF TypeOK
    <3> QED
      BY <3>1 DEF Store
  <2> HIDE DEF new
  <2> QED
    BY <1>0, <2>1, <2>2 DEF StoreTypes
<1>7. ASSUME NEW l \in Loads, Drops(l) PROVE StoreTypes'
  BY <1>0, <1>7 DEF Drops, DropsSuperseded, StoreTypes
<1>8. ASSUME NEW l \in Loads, StorePuts(l) PROVE StoreTypes'
  <2>1. /\ storing[l].at \in {"put", "prune"} /\ storing[l].cache \in Buckets
        /\ storing[l].url \in Urls /\ storing[l].bytes \in Bytes
        /\ \/ Puts(storing[l].cache, storing[l].url, storing[l].bytes)
           \/ UNCHANGED <<bucket, store>>
        /\ \/ storing' = [storing EXCEPT ![l].at = "prune"]
           \/ storing' = [storing EXCEPT ![l] = NoStore]
        /\ UNCHANGED dropping
    BY <1>8, StoreFacts DEF StorePuts
  <2>2. storing' \in [Loads -> Store \cup {NoStore}]
    BY <2>1, StoringFacts
  <2>3. bucket' = bucket /\ store' \in [Buckets -> [Urls -> Bytes \cup {Absent}]]
    BY <1>0, <2>1, PutFacts DEF StoreTypes
  <2> QED
    BY <1>0, <2>1, <2>2, <2>3 DEF StoreTypes
<1>9. ASSUME NEW l \in Loads, StorePrunes(l) PROVE StoreTypes'
  <2>1. /\ storing[l].at \in {"put", "prune"} /\ storing[l].cache \in Buckets
        /\ \E gone : Deletes(storing[l].cache, gone)
        /\ storing' = [storing EXCEPT ![l] = NoStore]
        /\ UNCHANGED dropping
    BY <1>9, StoreFacts DEF StorePrunes, Prunes
  <2> QED
    BY <1>0, <2>1, StoringFacts, DeleteFacts DEF StoreTypes
<1>10. ASSUME NEW s \in Scopes, Reopens(s) PROVE StoreTypes'
  <2>1. storing' \in [Loads -> Store \cup {NoStore}]
    BY <1>0, <1>10 DEF Reopens, StoreTypes
  <2> QED
    BY <1>0, <1>10, <2>1 DEF Reopens, StoreTypes
<1>11. ASSUME NEW u \in Urls, Deploys(u) PROVE StoreTypes'
  BY <1>1, <1>11 DEF Deploys
<1>12. ASSUME NEW b \in Buckets, NEW u \in Urls, Rots(b, u) PROVE StoreTypes'
  <2>1. PICK f \in Bytes : Puts(b, u, f)
    BY <1>12 DEF Rots
  <2> QED
    BY <1>0, <1>12, <2>1, PutFacts DEF Rots, StoreTypes
<1> QED
  BY <1>2, <1>3, <1>4, <1>5, <1>6, <1>7, <1>8, <1>9, <1>10, <1>11, <1>12
     DEF Next, Proceeds, Detached

LEMMA FixedTypesStep ==
    ASSUME TypeOK, Next
    PROVE  FixedTypes'
<1>0. FixedTypes
  BY TypeParts
<1>1. CASE UNCHANGED <<fixedVars, hosted>>
  BY <1>0, <1>1 DEF FixedTypes, fixedVars
<1>2. CASE Scripting
  BY <1>1, <1>2 DEF Scripting, ScriptResolves, ScriptRejects, worldVars
<1>3. ASSUME NEW l \in Loads, Begins(l) \/ Proceeds(l) \/ Detached(l) \/ Retries(l)
      PROVE  FixedTypes'
  BY <1>1, <1>3 DEF Begins, Proceeds, Detached, Retries, ScriptReady, Opens, OpensNone, RunsCached,
                    EvictsCached, FetchFails, RefusesFetched, RunsFetched, Drops, StorePuts,
                    StorePrunes, worldVars
<1>4. ASSUME NEW s \in Scopes, Reopens(s) PROVE FixedTypes'
  BY <1>0, <1>4 DEF Reopens, FixedTypes
<1>5. ASSUME NEW u \in Urls, Deploys(u) PROVE FixedTypes'
  BY <1>0, <1>5 DEF Deploys, FixedTypes, fixedVars
<1>6. ASSUME NEW b \in Buckets, NEW u \in Urls, Rots(b, u) PROVE FixedTypes'
  BY <1>1, <1>6 DEF Rots
<1> QED
  BY <1>2, <1>3, <1>4, <1>5, <1>6 DEF Next

LEMMA InitIInv == Init => IInv
<1> SUFFICES ASSUME Init PROVE IInv
  OBVIOUS
<1>1. TypeOK
  <2>1. bucket \in [Releases -> Buckets \cup {NoBucket}]
        /\ store \in [Buckets -> [Urls -> Bytes \cup {Absent}]]
    BY DEF Init, CacheInit
  <2>2. load \in [Loads -> Attempt]
    BY IdleFacts DEF Init
  <2>3. scripts \in [Scopes -> Promises]
    BY DEF Init, Promises
  <2>4. answers \in [Loads -> AnswerSets]
    BY DEF Init, AnswerSets
  <2>5. storing \in [Loads -> Store \cup {NoStore}] /\ dropping \subseteq Loads
    BY DEF Init
  <2>6. hosted \in [Urls -> Bytes]
    BY ConstantFacts DEF Init
  <2>7. FixedTypes
    BY <2>6 DEF Init, FixedTypes
  <2> QED
    BY <2>1, <2>2, <2>3, <2>4, <2>5, <2>7, TypeParts DEF LoadTypes, StoreTypes
<1>2. ASSUME NEW l \in Loads PROVE LoadInv(l)
  <2>1. load[l] = Idle /\ answers[l] = {}
    BY DEF Init
  <2> QED
    BY <2>1, IdleFacts DEF LoadInv, InOrder, RunsVerified, Running, FailsByHost, MismatchEnds
<1>3. CacheInv
  <2>1. /\ \A r \in Releases : bucket[r] = NoBucket
        /\ \A l \in Loads : load[l] = Idle /\ storing[l] = NoStore
        /\ \A b \in Buckets : Entries(b) = {}
    BY DEF Init, CacheInit, Entries
  <2> QED
    BY <2>1, IdleFacts DEF CacheInv, Handles, CacheIsPinned, OneForm
<1> QED
  BY <1>1, <1>2, <1>3 DEF IInv

LEMMA NextIInv == IInv /\ [Next]_vars => IInv'
<1> SUFFICES ASSUME IInv, [Next]_vars PROVE IInv'
  OBVIOUS
<1>0. TypeOK /\ (\A l \in Loads : LoadInv(l)) /\ CacheInv
  BY DEF IInv
<1>1. CASE Next
  <2>1. LoadTypes' /\ StoreTypes' /\ FixedTypes'
    BY <1>0, <1>1, LoadTypesStep, StoreTypesStep, FixedTypesStep
  <2>2. TypeOK'
    BY <2>1 DEF TypeOK, CacheTypeOK, LoadTypes, StoreTypes, FixedTypes, AnswerSets, Promises
  <2> QED
    BY <1>0, <1>1, <2>2, LoadInvStep, CacheInvStep DEF IInv
<1>2. CASE UNCHANGED vars
  <2>1. /\ UNCHANGED <<bucket, store, storing, rotten, torn, scope, release, verify>>
        /\ UNCHANGED <<load, answers, scripts, fixedVars>>
    BY <1>2 DEF vars, fixedVars, worldVars
  <2>2. TypeOK'
    BY <1>0, <1>2 DEF TypeOK, CacheTypeOK, vars, fixedVars, worldVars
  <2> QED
    BY <1>0, <2>1, <2>2, LoadsIdle, CacheKeeps DEF IInv
<1> QED
  BY <1>1, <1>2

(* In every behaviour, loads keep to their order and handles to their      *)
(* buckets.                                                                *)
THEOREM Invariance == Spec => []IInv
<1> QED
  BY InitIInv, NextIInv, PTL DEF Spec

(* Every variable of the loader and of the cache keeps its type.           *)
THEOREM TypeCorrect == Spec => []TypeOK
<1>1. IInv => TypeOK
  BY DEF IInv
<1> QED
  BY <1>1, Invariance, PTL

(* Whatever the host serves and the cache holds, a load that verifies      *)
(* (integrity.ts) instantiates the module of its own release and no other. *)
THEOREM RunsAreVerified == Spec => []VerifiedRuns
<1>1. IInv => VerifiedRuns
  BY DEF IInv, LoadInv, RunsVerified, VerifiedRuns
<1> QED
  BY <1>1, Invariance, PTL

LEMMA AtMostOne ==
    ASSUME NEW S, \A i, j \in S : i = j
    PROVE  Cardinality(S) <= 1
<1>1. CASE S = {}
  BY <1>1, FS_EmptySet
<1>2. CASE S # {}
  <2>1. PICK i \in S : TRUE
    BY <1>2
  <2>2. S = {i}
    BY <2>1
  <2>3. Cardinality(S) = 1
    BY <2>2, FS_Singleton
  <2> QED
    BY <2>3
<1> QED
  BY <1>1, <1>2

(* However stores, evictions, clean-ups, upgrades and closed pages         *)
(* interleave and fail, a bucket of runtime-cache.ts holds its own         *)
(* release's bytes; and once every store has ended it holds one form of    *)
(* them, unless its last prune failed or was cut off with its page.        *)
THEOREM CacheSound == Spec => []CacheIsSound
<1>1. IInv => CacheIsSound
  <2> SUFFICES ASSUME IInv PROVE CacheIsSound
    OBVIOUS
  <2>0. TypeOK /\ CacheIsPinned /\ OneForm
    BY DEF IInv, CacheInv
  <2>1. KeepsOneForm
    <3> SUFFICES ASSUME \A l \in Loads : storing[l] = NoStore,
                        NEW r \in Releases, bucket[r] \notin torn \cup {NoBucket}
                 PROVE  Cardinality(Entries(bucket[r])) <= 1
      BY DEF KeepsOneForm
    <3>1. bucket[r] \in Buckets
      BY <2>0, StoreTyped
    <3>2. \A u, v \in Entries(bucket[r]) : u = v
      BY <2>0, <3>1 DEF OneForm
    <3> QED
      BY <3>2, AtMostOne
  <2> QED
    BY <2>0, <2>1 DEF CacheIsSound
<1> QED
  BY <1>1, Invariance, PTL

(* No load of runtime.ts waits for a promise that nobody settles, and none *)
(* fails but for a script, a mismatch or both forms of the module refused. *)
THEOREM NeverWedged == Spec => []LoadsNeverWedge
<1>1. IInv => LoadsNeverWedge
  <2> SUFFICES ASSUME IInv PROVE LoadsNeverWedge
    OBVIOUS
  <2>1. \A l \in Loads : InOrder(l) /\ FailsByHost(l)
    BY DEF IInv, LoadInv
  <2>2. FailsOnlyByHost
    BY <2>1 DEF FailsByHost, FailsOnlyByHost
  <2>3. WaitersHavePromise
    BY <2>1 DEF InOrder, WaitersHavePromise
  <2> QED
    BY <2>2, <2>3 DEF LoadsNeverWedge
<1> QED
  BY <1>1, Invariance, PTL

(* A mismatch of the host's bytes ends the load (instantiateWasm): nothing *)
(* is fetched after it, and it is the error that the caller sees.          *)
THEOREM MismatchFinal == Spec => []MismatchIsFinal
<1>1. IInv => MismatchIsFinal
  BY DEF IInv, LoadInv, MismatchEnds, MismatchIsFinal
<1> QED
  BY <1>1, Invariance, PTL
=============================================================================
