--------------------------- MODULE NativeAppProofs ---------------------------
(***************************************************************************)
(* The React Native host, proved: the activity stream over the native      *)
(* client and its pump threads, and the wallets with their registry.       *)
(***************************************************************************)
EXTENDS NativeApp, FiniteSetTheorems, SequenceTheorems, TLAPS

-----------------------------------------------------------------------------
(* The activity stream                                                     *)

AtMostOne(S) == \A x, y \in S : x = y

StopsQueued == {i \in 1..Len(toClient) : toClient[i].kind = "stop"}
AnswersIn == {i \in 1..Len(toEngine) : toEngine[i].kind \in {"opened", "refused", "stopped"}}
IsOpened == \E i \in 1..Len(toEngine) : toEngine[i].kind = "opened"

(* The head of the chain is the call of lifecycle l.                       *)
JobOf(l) == job.kind = "start" /\ job.life = l

(* A call of the native module runs only for a stream that is closed, and  *)
(* the one answer under way is its answer.                                 *)
ChainInv ==
    /\ job.kind = "none" => job = NoJob
    /\ job.kind # "none" => ~streamOpen /\ job.at # "none"
    /\ job.kind = "start" => job.life \in Lives
    /\ AtMostOne(AnswersIn)
    /\ \A i \in AnswersIn :
         /\ job.at = "answered"
         /\ IF toEngine[i].kind = "stopped" THEN job.kind = "stop" ELSE JobOf(toEngine[i].life)

(* Each lifecycle has one call under way at most, which the engine knows.  *)
CallInv ==
    \A l \in Lives :
      /\ AtMostOne(CallsOf(l))
      /\ JobOf(l) => CallsOf(l) = {}
      /\ CallsOf(l) # {} \/ JobOf(l) => l <= life /\ (l = life => opening = life)

CounterInv ==
    /\ opening <= life
    /\ running => life # NoLife /\ failures < FailureLimit

(* The chain takes the calls in their order: behind those of a lifecycle   *)
(* that is over there is its stop, and after the last stop nothing is open.*)
QueueInv ==
    /\ running /\ toClient # <<>> => Len(toClient) \in CallsOf(life)
    /\ \A l \in Lives : ~Current(l) =>
         /\ \A i \in CallsOf(l) : \E k \in StopsQueued : i < k
         /\ JobOf(l) => StopsQueued # {}
    /\ ~running /\ StopsQueued = {} => ~streamOpen

(* A pump thread about to send has an entry to send.                       *)
PumpInv == \A p \in pumps : p.at = "sending" => p.next <= journal

(* As long as no subscription has ended by itself, the client's belief is  *)
(* right: its stream is open if the native module has one.                 *)
BeliefInv ==
    /\ \A p \in pumps : p.at \in {"next", "sending"}
    /\ ~LossDue
    /\ streamOpen \/ IsOpened \/ (job.kind = "start" /\ job.at = "done") => subscription # NoPump
    /\ subscription # NoPump => \/ streamOpen \/ IsOpened
                                \/ job.kind = "start" /\ job.at = "done"
                                \/ job.kind = "stop" /\ job.at = "native"

IInv ==
    /\ TypeOK
    /\ ChainInv
    /\ CallInv
    /\ CounterInv
    /\ QueueInv
    /\ PumpInv
    /\ AttachedLives
    /\ ClosedIsRetried
    /\ breaks = 0 => BeliefInv
-----------------------------------------------------------------------------
(* Sequences, and the queues.                                              *)

LEMMA Bounds ==
    /\ MaxEntries \in Nat /\ MaxLives \in Nat /\ MaxPumps \in Nat /\ MaxBreaks \in Nat
    /\ FailureLimit \in Nat /\ FailureLimit > 0
  BY StreamAssumption, ActivityAssumption

LEMMA AppendFacts ==
    ASSUME NEW S, NEW q \in Seq(S), NEW e \in S
    PROVE  /\ Append(q, e) \in Seq(S) /\ Append(q, e) # <<>>
           /\ Len(Append(q, e)) = Len(q) + 1 /\ Len(q) \in Nat
           /\ \A i \in 1..Len(q) : Append(q, e)[i] = q[i]
           /\ Append(q, e)[Len(q) + 1] = e
  OBVIOUS

LEMMA TailFacts ==
    ASSUME NEW S, NEW q \in Seq(S), q # <<>>
    PROVE  /\ Tail(q) \in Seq(S) /\ Len(q) \in Nat /\ Len(q) >= 1
           /\ Len(Tail(q)) = Len(q) - 1
           /\ \A i \in 1..(Len(q) - 1) : Tail(q)[i] = q[i + 1]
           /\ Head(q) = q[1] /\ q[1] \in S
  OBVIOUS

(* A call joins the queue of the client.                                   *)
LEMMA CallAppended ==
    ASSUME toClient \in Seq(Calls), NEW c \in Calls, toClient' = Append(toClient, c)
    PROVE  /\ toClient' \in Seq(Calls) /\ toClient' # <<>>
           /\ Len(toClient) \in Nat /\ Len(toClient') = Len(toClient) + 1
           /\ \A l : CallsOf(l)' = CallsOf(l) \cup
                IF c.kind = "start" /\ c.life = l THEN {Len(toClient')} ELSE {}
           /\ StopsQueued' = StopsQueued \cup IF c.kind = "stop" THEN {Len(toClient')} ELSE {}
<1>1. /\ toClient' \in Seq(Calls) /\ toClient' # <<>>
      /\ Len(toClient) \in Nat /\ Len(toClient') = Len(toClient) + 1
      /\ \A i \in 1..Len(toClient) : toClient'[i] = toClient[i]
      /\ toClient'[Len(toClient')] = c
  BY AppendFacts
<1>2. 1..Len(toClient') = (1..Len(toClient)) \cup {Len(toClient')}
  BY <1>1
<1>3. ASSUME NEW l
      PROVE  CallsOf(l)' = CallsOf(l) \cup
               IF c.kind = "start" /\ c.life = l THEN {Len(toClient')} ELSE {}
  BY <1>1, <1>2 DEF CallsOf
<1>4. StopsQueued' = StopsQueued \cup IF c.kind = "stop" THEN {Len(toClient')} ELSE {}
  BY <1>1, <1>2 DEF StopsQueued
<1> QED
  BY <1>1, <1>3, <1>4

(* The client takes the oldest call.                                       *)
LEMMA CallTaken ==
    ASSUME toClient \in Seq(Calls), NEW c, Takes(c)
    PROVE  /\ toClient' \in Seq(Calls) /\ c \in Calls
           /\ Len(toClient) \in Nat /\ Len(toClient) >= 1 /\ toClient # <<>>
           /\ Len(toClient') = Len(toClient) - 1
           /\ \A l : CallsOf(l)' = {i \in 1..Len(toClient') : i + 1 \in CallsOf(l)}
           /\ \A l : 1 \in CallsOf(l) <=> c.kind = "start" /\ c.life = l
           /\ StopsQueued' = {i \in 1..Len(toClient') : i + 1 \in StopsQueued}
           /\ 1 \in StopsQueued <=> c.kind = "stop"
  BY TailFacts DEF Takes, CallsOf, StopsQueued

Messages == Answers \cup Events

AnswerKinds == {"opened", "refused", "stopped"}

(* A message is posted to the engine.                                      *)
LEMMA MessagePosted ==
    ASSUME toEngine \in Seq(Messages), NEW m \in Messages, Posts(m)
    PROVE  /\ toEngine' \in Seq(Messages)
           /\ Len(toEngine) \in Nat /\ Len(toEngine') = Len(toEngine) + 1
           /\ \A i \in 1..Len(toEngine) : toEngine'[i] = toEngine[i]
           /\ toEngine'[Len(toEngine')] = m
           /\ AnswersIn' = AnswersIn \cup IF m.kind \in AnswerKinds THEN {Len(toEngine')} ELSE {}
           /\ IsOpened' <=> IsOpened \/ m.kind = "opened"
           /\ LossDue' <=> LossDue \/ m.kind = "lost"
<1>1. /\ toEngine' \in Seq(Messages)
      /\ Len(toEngine) \in Nat /\ Len(toEngine') = Len(toEngine) + 1
      /\ \A i \in 1..Len(toEngine) : toEngine'[i] = toEngine[i]
      /\ toEngine'[Len(toEngine')] = m
  BY AppendFacts DEF Posts
<1>2. 1..Len(toEngine') = (1..Len(toEngine)) \cup {Len(toEngine')}
  BY <1>1
<1>3. AnswersIn' = AnswersIn \cup IF m.kind \in AnswerKinds THEN {Len(toEngine')} ELSE {}
  BY <1>1, <1>2 DEF AnswersIn, AnswerKinds
<1>4. IsOpened' <=> IsOpened \/ m.kind = "opened"
  BY <1>1, <1>2 DEF IsOpened
<1>5. LossDue' <=> LossDue \/ m.kind = "lost"
  BY <1>1, <1>2 DEF LossDue
<1> QED
  BY <1>1, <1>3, <1>4, <1>5

(* The engine handles the oldest message.                                  *)
LEMMA MessageDelivered ==
    ASSUME toEngine \in Seq(Messages), NEW m, Delivers(m)
    PROVE  /\ toEngine' \in Seq(Messages) /\ m \in Messages
           /\ Len(toEngine) \in Nat /\ Len(toEngine) >= 1
           /\ Len(toEngine') = Len(toEngine) - 1
           /\ toEngine[1] = m
           /\ \A i \in 1..Len(toEngine') : toEngine'[i] = toEngine[i + 1]
           /\ AnswersIn' = {i \in 1..Len(toEngine') : i + 1 \in AnswersIn}
           /\ 1 \in AnswersIn <=> m.kind \in AnswerKinds
           /\ IsOpened <=> IsOpened' \/ m.kind = "opened"
           /\ LossDue <=> LossDue' \/ m.kind = "lost"
<1>1. /\ toEngine' \in Seq(Messages) /\ m \in Messages
      /\ Len(toEngine) \in Nat /\ Len(toEngine) >= 1
      /\ Len(toEngine') = Len(toEngine) - 1
      /\ toEngine[1] = m
      /\ \A i \in 1..Len(toEngine') : toEngine'[i] = toEngine[i + 1]
  BY TailFacts DEF Delivers
<1>2. \A i \in 1..Len(toEngine) : i = 1 \/ (i - 1 \in 1..Len(toEngine') /\ i = (i - 1) + 1)
  BY <1>1
<1>3. 1 \in 1..Len(toEngine) /\ \A i \in 1..Len(toEngine') : i + 1 \in 1..Len(toEngine)
  BY <1>1
<1>4. /\ AnswersIn' = {i \in 1..Len(toEngine') : i + 1 \in AnswersIn}
      /\ 1 \in AnswersIn <=> m.kind \in AnswerKinds
  BY <1>1, <1>3 DEF AnswersIn, AnswerKinds
<1>5. IsOpened <=> IsOpened' \/ m.kind = "opened"
  <2>1. ASSUME IsOpened' PROVE IsOpened
    BY <1>1, <1>3, <2>1 DEF IsOpened
  <2>2. ASSUME m.kind = "opened" PROVE IsOpened
    BY <1>1, <1>3, <2>2 DEF IsOpened
  <2>3. ASSUME IsOpened PROVE IsOpened' \/ m.kind = "opened"
    <3>1. PICK i \in 1..Len(toEngine) : toEngine[i].kind = "opened"
      BY <2>3 DEF IsOpened
    <3>2. i = 1 \/ (i - 1 \in 1..Len(toEngine') /\ toEngine'[i - 1] = toEngine[i])
      BY <1>1, <1>2
    <3> QED
      BY <1>1, <3>1, <3>2 DEF IsOpened
  <2> QED
    BY <2>1, <2>2, <2>3
<1>6. LossDue <=> LossDue' \/ m.kind = "lost"
  <2>1. ASSUME LossDue' PROVE LossDue
    BY <1>1, <1>3, <2>1 DEF LossDue
  <2>2. ASSUME m.kind = "lost" PROVE LossDue
    BY <1>1, <1>3, <2>2 DEF LossDue
  <2>3. ASSUME LossDue PROVE LossDue' \/ m.kind = "lost"
    <3>1. PICK i \in 1..Len(toEngine) : toEngine[i].kind = "lost"
      BY <2>3 DEF LossDue
    <3>2. i = 1 \/ (i - 1 \in 1..Len(toEngine') /\ toEngine'[i - 1] = toEngine[i])
      BY <1>1, <1>2
    <3> QED
      BY <1>1, <3>1, <3>2 DEF LossDue
  <2> QED
    BY <2>1, <2>2, <2>3
<1> QED
  BY <1>1, <1>4, <1>5, <1>6

(* #open() adds a call, unless that of the lifecycle is unsettled.         *)
LEMMA OpenCases ==
    ASSUME toClient \in Seq(Calls), NEW l \in Lives, NEW c \in Entries \cup {0}, Open(l, c)
    PROVE  /\ opening' = l /\ toClient' \in Seq(Calls) /\ StopsQueued' = StopsQueued
           /\ \/ opening = l /\ toClient' = toClient
              \/ /\ opening # l /\ toClient' # <<>>
                 /\ CallsOf(l)' = CallsOf(l) \cup {Len(toClient')}
                 /\ \A k : k # l => CallsOf(k)' = CallsOf(k)
<1>1. CASE opening = l
  BY <1>1 DEF Open, StopsQueued
<1>2. CASE opening # l
  <2> DEFINE call == [kind |-> "start", life |-> l, cursor |-> c]
  <2>1. call \in Calls /\ call.kind = "start" /\ call.life = l
    BY DEF Calls
  <2>2. opening' = l /\ toClient' = Append(toClient, call)
    BY <1>2 DEF Open
  <2> HIDE DEF call
  <2>3. /\ toClient' \in Seq(Calls) /\ toClient' # <<>>
        /\ \A k : CallsOf(k)' = CallsOf(k) \cup
             IF call.kind = "start" /\ call.life = k THEN {Len(toClient')} ELSE {}
        /\ StopsQueued' = StopsQueued \cup IF call.kind = "stop" THEN {Len(toClient')} ELSE {}
    BY <2>1, <2>2, CallAppended
  <2>4. StopsQueued' = StopsQueued /\ CallsOf(l)' = CallsOf(l) \cup {Len(toClient')}
    BY <2>1, <2>3
  <2>5. \A k : k # l => CallsOf(k)' = CallsOf(k)
    BY <2>1, <2>3
  <2> QED
    BY <1>2, <2>2, <2>3, <2>4, <2>5
<1> QED
  BY <1>1, <1>2

-----------------------------------------------------------------------------
(* What each part of the invariant speaks about.                           *)
LEMMA Views ==
    /\ CallInv /\ UNCHANGED <<toClient, job, life, opening>> => CallInv'
    /\ CounterInv /\ UNCHANGED <<opening, life, running, failures>> => CounterInv'
    /\ QueueInv /\ UNCHANGED <<running, toClient, life, job, streamOpen>> => QueueInv'
    /\ PumpInv /\ UNCHANGED <<pumps, journal>> => PumpInv'
    /\ AttachedLives /\ UNCHANGED <<subscription, pumps>> => AttachedLives'
    /\ ClosedIsRetried /\ UNCHANGED <<running, streamOpen, opening, life, retry>>
         => ClosedIsRetried'
    /\ ChainInv /\ UNCHANGED <<job, streamOpen, toEngine>> => ChainInv'
    /\ BeliefInv /\ UNCHANGED <<pumps, toEngine, streamOpen, job, subscription>> => BeliefInv'
<1>1. CallInv /\ UNCHANGED <<toClient, job, life, opening>> => CallInv'
  BY DEF CallInv, CallsOf, JobOf
<1>2. CounterInv /\ UNCHANGED <<opening, life, running, failures>> => CounterInv'
  BY DEF CounterInv
<1>3. QueueInv /\ UNCHANGED <<running, toClient, life, job, streamOpen>> => QueueInv'
  BY DEF QueueInv, CallsOf, Current, StopsQueued, JobOf
<1>4. PumpInv /\ UNCHANGED <<pumps, journal>> => PumpInv'
  BY DEF PumpInv
<1>5. AttachedLives /\ UNCHANGED <<subscription, pumps>> => AttachedLives'
  BY DEF AttachedLives, Attached
<1>6. ClosedIsRetried /\ UNCHANGED <<running, streamOpen, opening, life, retry>>
         => ClosedIsRetried'
  BY DEF ClosedIsRetried
<1>7. ChainInv /\ UNCHANGED <<job, streamOpen, toEngine>> => ChainInv'
  BY DEF ChainInv, AnswersIn, JobOf
<1>8. BeliefInv /\ UNCHANGED <<pumps, toEngine, streamOpen, job, subscription>> => BeliefInv'
  BY DEF BeliefInv, LossDue, IsOpened
<1> QED
  BY <1>1, <1>2, <1>3, <1>4, <1>5, <1>6, <1>7, <1>8

(* While no call of the native module runs, no answer is under way.        *)
LEMMA NoAnswer ==
    ASSUME ChainInv, job.at # "answered"
    PROVE  AnswersIn = {} /\ ~IsOpened
  BY DEF ChainInv, AnswersIn, IsOpened

-----------------------------------------------------------------------------
(* The engine's own steps.                                                 *)

LEMMA StartKeeps ==
    ASSUME IInv, Start, UNCHANGED <<streamOpen, job, nativeVars>>
    PROVE  IInv'
<1> USE Bounds
<1>1. /\ ~running /\ life < MaxLives /\ running' = TRUE /\ life' = life + 1 /\ cursor' = 0
      /\ failures' = 0 /\ Open(life + 1, 0)
      /\ UNCHANGED <<preimages, retry, debounce, refreshed, journal, toEngine>>
      /\ UNCHANGED <<streamOpen, job, subscription, pumps, opened, breaks>>
  BY DEF Start, nativeVars
<1>2. /\ TypeOK /\ CallInv /\ CounterInv /\ QueueInv
      /\ toClient \in Seq(Calls) /\ life \in 0..MaxLives /\ opening \in Lives \cup {NoLife}
  BY DEF IInv, TypeOK, StreamTypeOK
<1>3. PICK n \in Lives : n = life + 1
  BY <1>1, <1>2 DEF Lives
<1>4. /\ opening # n /\ opening' = n /\ toClient' \in Seq(Calls) /\ toClient' # <<>>
      /\ StopsQueued' = StopsQueued
      /\ CallsOf(n)' = CallsOf(n) \cup {Len(toClient')}
      /\ \A k : k # n => CallsOf(k)' = CallsOf(k)
  <2>1. Open(n, 0) /\ 0 \in Entries \cup {0}
    BY <1>1, <1>3
  <2>2. opening # n
    BY <1>1, <1>2, <1>3 DEF Lives, CounterInv, NoLife
  <2> QED
    BY <1>2, <2>1, <2>2, OpenCases
<1>5. CallsOf(n) = {} /\ ~JobOf(n)
  <2>1. ~(n <= life)
    BY <1>2, <1>3
  <2> QED
    BY <1>2, <2>1 DEF CallInv
<1>6. TypeOK'
  BY <1>1, <1>2, <1>3, <1>4 DEF TypeOK, StreamTypeOK
<1>7. /\ \A l : JobOf(l)' <=> JobOf(l)
      /\ \A l \in Lives : Current(l)' <=> l = n
  BY <1>1, <1>3 DEF JobOf, Current
<1>8. CallInv'
  <2> SUFFICES ASSUME NEW l \in Lives
               PROVE  /\ AtMostOne(CallsOf(l)')
                      /\ JobOf(l) => CallsOf(l)' = {}
                      /\ CallsOf(l)' # {} \/ JobOf(l) =>
                           l <= life' /\ (l = life' => opening' = life')
    BY <1>7 DEF CallInv, AtMostOne
  <2>1. CASE l = n
    <3>1. CallsOf(l)' = {Len(toClient')} /\ ~JobOf(l)
      BY <1>4, <1>5, <2>1
    <3> QED
      BY <1>1, <1>3, <1>4, <2>1, <3>1 DEF AtMostOne, Lives
  <2>2. CASE l # n
    <3>1. CallsOf(l)' = CallsOf(l)
      BY <1>4, <2>2
    <3>2. CallsOf(l) # {} \/ JobOf(l) => l <= life'
      BY <1>1, <1>2 DEF CallInv, Lives
    <3> QED
      BY <1>1, <1>2, <1>3, <2>2, <3>1, <3>2 DEF CallInv
  <2> QED
    BY <2>1, <2>2
<1>9. QueueInv'
  <2>1. running' /\ life' = n /\ Len(toClient') \in CallsOf(n)'
    BY <1>1, <1>3, <1>4
  <2>2. Len(toClient') \in CallsOf(life)'
    BY <2>1 DEF CallsOf
  <2>3. ASSUME NEW l \in Lives, l # n
        PROVE  /\ \A i \in CallsOf(l)' : \E k \in StopsQueued' : i < k
               /\ JobOf(l)' => StopsQueued' # {}
    BY <1>1, <1>2, <1>4, <1>7, <2>3 DEF QueueInv, Current
  <2> QED
    BY <1>7, <2>1, <2>2, <2>3 DEF QueueInv
<1>10. CounterInv' /\ ClosedIsRetried'
  BY <1>1, <1>2, <1>3, <1>4 DEF CounterInv, ClosedIsRetried, NoLife
<1>11. ChainInv' /\ PumpInv' /\ AttachedLives' /\ (breaks' = 0 => BeliefInv')
  BY <1>1, Views DEF IInv
<1> QED
  BY <1>6, <1>8, <1>9, <1>10, <1>11 DEF IInv

LEMMA StopKeeps ==
    ASSUME IInv, Stop, UNCHANGED <<streamOpen, job, nativeVars>>
    PROVE  IInv'
<1> USE Bounds
<1>1. /\ running /\ life < MaxLives /\ running' = FALSE /\ life' = life + 1 /\ cursor' = 0
      /\ preimages' = {} /\ retry' = NoLife /\ debounce' = FALSE
      /\ toClient' = Append(toClient, [kind |-> "stop"])
      /\ UNCHANGED <<failures, opening, refreshed, journal, toEngine>>
      /\ UNCHANGED <<streamOpen, job, subscription, pumps, opened, breaks>>
  BY DEF Stop, nativeVars
<1>2. /\ TypeOK /\ CallInv /\ CounterInv /\ QueueInv
      /\ toClient \in Seq(Calls) /\ life \in 0..MaxLives /\ opening \in Lives \cup {NoLife}
  BY DEF IInv, TypeOK, StreamTypeOK
<1>3. [kind |-> "stop"] \in Calls /\ [kind |-> "stop"].kind = "stop"
  BY DEF Calls
<1>4. /\ toClient' \in Seq(Calls) /\ Len(toClient) \in Nat /\ Len(toClient') = Len(toClient) + 1
      /\ \A l : CallsOf(l)' = CallsOf(l)
      /\ StopsQueued' = StopsQueued \cup {Len(toClient')}
  <2> DEFINE call == [kind |-> "stop"]
  <2>1. call \in Calls /\ call.kind = "stop" /\ toClient' = Append(toClient, call)
    BY <1>1, <1>3
  <2> HIDE DEF call
  <2>2. /\ toClient' \in Seq(Calls) /\ Len(toClient) \in Nat
        /\ Len(toClient') = Len(toClient) + 1
        /\ \A l : CallsOf(l)' = CallsOf(l) \cup
             IF call.kind = "start" /\ call.life = l THEN {Len(toClient')} ELSE {}
        /\ StopsQueued' = StopsQueued \cup IF call.kind = "stop" THEN {Len(toClient')} ELSE {}
    BY <1>2, <2>1, CallAppended
  <2> QED
    BY <2>1, <2>2
<1>5. TypeOK'
  <2>1. life' \in 0..MaxLives
    BY <1>1, <1>2
  <2> QED
    BY <1>1, <1>2, <1>4, <2>1 DEF TypeOK, StreamTypeOK
<1>6. \A l : JobOf(l)' <=> JobOf(l)
  BY <1>1 DEF JobOf
<1>7. CallInv'
  <2>1. \A l \in Lives : CallsOf(l) # {} \/ JobOf(l) => l <= life + 1 /\ l # life + 1
    BY <1>2 DEF CallInv, Lives
  <2> QED
    BY <1>1, <1>2, <1>4, <1>6, <2>1 DEF CallInv, AtMostOne
<1>8. QueueInv'
  <2>1. \A l : \A i \in CallsOf(l) : i < Len(toClient')
    BY <1>4 DEF CallsOf
  <2> QED
    BY <1>1, <1>4, <2>1 DEF QueueInv
<1>9. CounterInv' /\ ClosedIsRetried'
  BY <1>1, <1>2 DEF CounterInv, ClosedIsRetried, Lives, NoLife
<1>10. ChainInv' /\ PumpInv' /\ AttachedLives' /\ (breaks' = 0 => BeliefInv')
  BY <1>1, Views DEF IInv
<1> QED
  BY <1>5, <1>7, <1>8, <1>9, <1>10 DEF IInv

LEMMA RecordKeeps ==
    ASSUME IInv, Record, UNCHANGED <<streamOpen, job, nativeVars>>
    PROVE  IInv'
<1> USE Bounds
<1>1. /\ journal < MaxEntries /\ journal' = journal + 1 /\ TypeOK
      /\ UNCHANGED <<running, life, cursor, preimages, failures, opening, retry, debounce,
                     refreshed, toClient, toEngine>>
      /\ UNCHANGED <<streamOpen, job, subscription, pumps, opened, breaks>>
  BY DEF IInv, Record, streamVars, nativeVars
<1>2. TypeOK' /\ journal \in Nat
  BY <1>1 DEF TypeOK, StreamTypeOK
<1>3. PumpInv'
  <2>1. \A p \in pumps : p.next \in Nat
    BY <1>1 DEF TypeOK, Pumps
  <2> QED
    BY <1>1, <1>2, <2>1 DEF IInv, PumpInv
<1> QED
  BY <1>1, <1>2, <1>3, Views DEF IInv

LEMMA RetryKeeps ==
    ASSUME IInv, RetryFires, UNCHANGED <<streamOpen, job, nativeVars>>
    PROVE  IInv'
<1> USE Bounds
<1>1. /\ retry # NoLife /\ retry' = NoLife
      /\ IF Current(retry) THEN Open(retry, cursor) ELSE UNCHANGED <<opening, toClient>>
      /\ UNCHANGED <<running, life, cursor, preimages, failures, debounce, refreshed, journal,
                     toEngine>>
      /\ UNCHANGED <<streamOpen, job, subscription, pumps, opened, breaks>>
  BY DEF RetryFires, nativeVars
<1>2. /\ TypeOK /\ CallInv /\ CounterInv /\ QueueInv /\ ClosedIsRetried
      /\ toClient \in Seq(Calls) /\ life \in 0..MaxLives /\ opening \in Lives \cup {NoLife}
      /\ retry \in Lives \cup {NoLife} /\ cursor \in Entries \cup {0}
  BY DEF IInv, TypeOK, StreamTypeOK
<1>3. ChainInv' /\ PumpInv' /\ AttachedLives' /\ (breaks' = 0 => BeliefInv')
  BY <1>1, Views DEF IInv
<1>4. \A l : (JobOf(l)' <=> JobOf(l)) /\ (Current(l)' <=> Current(l))
  BY <1>1 DEF JobOf, Current
<1>5. CASE ~Current(retry)
  <2>1. UNCHANGED <<opening, toClient>>
    BY <1>1, <1>5
  <2>2. TypeOK'
    BY <1>1, <1>2, <2>1 DEF TypeOK, StreamTypeOK
  <2>3. ClosedIsRetried'
    BY <1>1, <1>2, <1>5, <2>1 DEF ClosedIsRetried, Current
  <2> QED
    BY <1>1, <1>2, <1>3, <2>1, <2>2, <2>3, Views DEF IInv
<1>6. CASE Current(retry)
  <2>1. PICK n \in Lives : n = life /\ n = retry /\ running
    BY <1>1, <1>2, <1>6 DEF Current
  <2>2. /\ opening' = n /\ toClient' \in Seq(Calls) /\ StopsQueued' = StopsQueued
        /\ \/ opening = n /\ toClient' = toClient
           \/ /\ opening # n /\ toClient' # <<>>
              /\ CallsOf(n)' = CallsOf(n) \cup {Len(toClient')}
              /\ \A k : k # n => CallsOf(k)' = CallsOf(k)
    <3>1. PICK c \in Entries \cup {0} : c = cursor
      BY <1>2
    <3>2. Open(n, c)
      BY <1>1, <1>6, <2>1, <3>1
    <3> QED
      BY <1>2, <3>2, OpenCases
  <2>3. TypeOK'
    BY <1>1, <1>2, <2>1, <2>2 DEF TypeOK, StreamTypeOK
  <2>4. CounterInv' /\ ClosedIsRetried'
    BY <1>1, <1>2, <2>1, <2>2 DEF CounterInv, ClosedIsRetried
  <2>5. CASE opening = n /\ toClient' = toClient
    BY <1>1, <1>2, <1>3, <2>1, <2>2, <2>3, <2>4, <2>5, Views DEF IInv
  <2>6. CASE /\ opening # n /\ toClient' # <<>>
             /\ CallsOf(n)' = CallsOf(n) \cup {Len(toClient')}
             /\ \A k : k # n => CallsOf(k)' = CallsOf(k)
    <3>1. CallsOf(n) = {} /\ ~JobOf(n)
      BY <1>2, <2>1, <2>6 DEF CallInv
    <3>2. ASSUME NEW l \in Lives
          PROVE  /\ AtMostOne(CallsOf(l)')
                 /\ JobOf(l) => CallsOf(l)' = {}
                 /\ CallsOf(l)' # {} \/ JobOf(l) => l <= life /\ (l = life => opening' = life)
      <4>1. CASE l = n
        <5>1. CallsOf(l)' = {Len(toClient')} /\ l <= life
          BY <1>2, <2>1, <2>6, <3>1, <4>1
        <5> QED
          BY <2>1, <2>2, <3>1, <4>1, <5>1 DEF AtMostOne
      <4>2. CASE l # n
        BY <1>2, <2>1, <2>6, <4>2 DEF CallInv
      <4> QED
        BY <4>1, <4>2
    <3>3. CallInv'
      BY <1>1, <1>4, <3>2 DEF CallInv, AtMostOne
    <3>4. QueueInv'
      <4>1. Len(toClient') \in CallsOf(n)' /\ life' = n
        BY <1>1, <2>1, <2>6
      <4>2. Len(toClient') \in CallsOf(life)'
        BY <4>1 DEF CallsOf
      <4>3. ASSUME NEW l \in Lives, ~Current(l)
            PROVE  /\ \A i \in CallsOf(l)' : \E k \in StopsQueued' : i < k
                   /\ JobOf(l)' => StopsQueued' # {}
        <5>1. l # n
          BY <2>1, <4>3 DEF Current
        <5> QED
          BY <1>2, <1>4, <2>2, <2>6, <4>3, <5>1 DEF QueueInv
      <4> QED
        BY <1>1, <1>4, <2>1, <4>2, <4>3 DEF QueueInv
    <3> QED
      BY <1>3, <2>3, <2>4, <3>3, <3>4 DEF IInv
  <2> QED
    BY <2>2, <2>5, <2>6
<1> QED
  BY <1>5, <1>6

LEMMA DebounceKeeps ==
    ASSUME IInv, DebounceFires, UNCHANGED <<streamOpen, job, nativeVars>>
    PROVE  IInv'
<1>1. /\ debounce' = FALSE /\ refreshed' = journal /\ TypeOK
      /\ UNCHANGED <<running, life, cursor, preimages, failures, opening, retry, journal,
                     toClient, toEngine>>
      /\ UNCHANGED <<streamOpen, job, subscription, pumps, opened, breaks>>
  BY DEF IInv, DebounceFires, nativeVars
<1>2. TypeOK'
  BY <1>1 DEF TypeOK, StreamTypeOK
<1> QED
  BY <1>1, <1>2, Views DEF IInv

-----------------------------------------------------------------------------
(* The client's steps.  When it takes a call, each of those behind moves   *)
(* one to the front.                                                       *)

LEMMA TakenKeepsCalls ==
    ASSUME toClient \in Seq(Calls), CallInv, QueueInv, NEW c, Takes(c),
           UNCHANGED <<running, life>>
    PROVE  /\ \A l \in Lives : AtMostOne(CallsOf(l)')
           /\ \A l \in Lives : CallsOf(l)' # {} => CallsOf(l) # {}
           /\ \A l \in Lives : c.kind = "start" /\ c.life = l => CallsOf(l)' = {}
           /\ running /\ toClient' # <<>> => Len(toClient') \in CallsOf(life)'
           /\ \A l \in Lives : ~Current(l) =>
                \A i \in CallsOf(l)' : \E k \in StopsQueued' : i < k
           /\ \A l \in Lives : ~Current(l) /\ 1 \in CallsOf(l) => StopsQueued' # {}
           /\ c.kind = "start" /\ StopsQueued' = {} => StopsQueued = {}
<1>1. /\ toClient' \in Seq(Calls) /\ Len(toClient) \in Nat /\ Len(toClient) >= 1
      /\ toClient # <<>>
      /\ Len(toClient') = Len(toClient) - 1
      /\ \A l : CallsOf(l)' = {i \in 1..Len(toClient') : i + 1 \in CallsOf(l)}
      /\ \A l : 1 \in CallsOf(l) <=> c.kind = "start" /\ c.life = l
      /\ StopsQueued' = {i \in 1..Len(toClient') : i + 1 \in StopsQueued}
      /\ 1 \in StopsQueued <=> c.kind = "stop"
  BY CallTaken
<1>2. StopsQueued \subseteq 1..Len(toClient) /\ \A l : CallsOf(l) \subseteq 1..Len(toClient)
  BY DEF StopsQueued, CallsOf
<1>3. ASSUME NEW l \in Lives
      PROVE  /\ AtMostOne(CallsOf(l)') /\ (CallsOf(l)' # {} => CallsOf(l) # {})
             /\ c.kind = "start" /\ c.life = l => CallsOf(l)' = {}
  <2>1. \A x, y \in CallsOf(l) : x = y
    BY DEF CallInv, AtMostOne
  <2>2. \A x, y \in CallsOf(l)' : x = y
    BY <1>1, <2>1
  <2>3. c.kind = "start" /\ c.life = l => CallsOf(l)' = {}
    <3>1. \A i \in 1..Len(toClient') : i + 1 # 1
      BY <1>1
    <3> QED
      BY <1>1, <2>1, <3>1
  <2> QED
    BY <1>1, <2>2, <2>3 DEF AtMostOne
<1>4. ASSUME running, toClient' # <<>> PROVE Len(toClient') \in CallsOf(life)'
  <2>1. Len(toClient) \in CallsOf(life)
    BY <1>1, <1>4 DEF QueueInv
  <2>2. Len(toClient') >= 1 /\ Len(toClient') + 1 = Len(toClient)
    <3>1. Len(toClient') # 0
      BY <1>1, <1>4, EmptySeq
    <3> QED
      BY <1>1, <3>1
  <2>3. PICK n : n = life
    OBVIOUS
  <2>4. Len(toClient') \in CallsOf(n)'
    BY <1>1, <2>1, <2>2, <2>3
  <2> QED
    BY <2>3, <2>4 DEF CallsOf
<1>5. ASSUME NEW l \in Lives, ~Current(l)
      PROVE  /\ \A i \in CallsOf(l)' : \E k \in StopsQueued' : i < k
             /\ 1 \in CallsOf(l) => StopsQueued' # {}
  <2>1. \A i \in CallsOf(l) : \E k \in StopsQueued : i < k
    BY <1>5 DEF QueueInv
  <2>2. ASSUME NEW i \in CallsOf(l)
        PROVE  \E k \in StopsQueued' : i < k + 1
    <3>1. PICK k \in StopsQueued : i < k
      BY <2>1
    <3>2. i \in 1..Len(toClient) /\ k \in 1..Len(toClient)
      BY <1>2
    <3>3. k - 1 \in 1..Len(toClient') /\ (k - 1) + 1 = k
      BY <1>1, <3>1, <3>2
    <3>4. k - 1 \in StopsQueued'
      BY <1>1, <3>3
    <3> QED
      BY <3>1, <3>3, <3>4
  <2>3. ASSUME NEW i \in CallsOf(l)' PROVE \E k \in StopsQueued' : i < k
    <3>1. i \in 1..Len(toClient') /\ i + 1 \in CallsOf(l)
      BY <1>1
    <3>2. PICK k \in StopsQueued' : i + 1 < k + 1
      BY <2>2, <3>1
    <3>3. k \in 1..Len(toClient')
      BY <1>1
    <3> QED
      BY <3>1, <3>2, <3>3
  <2> QED
    BY <2>2, <2>3
<1>6. ASSUME c.kind = "start", StopsQueued' = {} PROVE StopsQueued = {}
  <2> SUFFICES ASSUME NEW k \in StopsQueued PROVE FALSE
    OBVIOUS
  <2>1. k # 1 /\ k \in 1..Len(toClient)
    BY <1>1, <1>2, <1>6
  <2>2. k - 1 \in 1..Len(toClient') /\ (k - 1) + 1 = k
    BY <1>1, <2>1
  <2> QED
    BY <1>1, <1>6, <2>2
<1> QED
  BY <1>3, <1>4, <1>5, <1>6

LEMMA BeginsStartKeeps ==
    ASSUME IInv, NEW l \in Lives, BeginsStart(l)
    PROVE  IInv'
<1> USE Bounds
<1>1. PICK c \in Entries \cup {0} :
        /\ Takes([kind |-> "start", life |-> l, cursor |-> c])
        /\ IF streamOpen
           THEN OpenResolves(l) /\ UNCHANGED job
           ELSE /\ job' = [kind |-> "start", life |-> l, cursor |-> c, at |-> "native"]
                /\ UNCHANGED <<streamVars, journal>>
  BY DEF BeginsStart
<1>2. job = NoJob /\ UNCHANGED <<toEngine, streamOpen, subscription, pumps, opened, breaks>>
  BY DEF BeginsStart, nativeVars
<1>3. /\ TypeOK /\ ChainInv /\ CallInv /\ CounterInv /\ QueueInv /\ ClosedIsRetried
      /\ toClient \in Seq(Calls) /\ life \in 0..MaxLives /\ opening \in Lives \cup {NoLife}
      /\ failures \in 0..FailureLimit
  BY DEF IInv, TypeOK, StreamTypeOK
<1> DEFINE call == [kind |-> "start", life |-> l, cursor |-> c]
<1>4. Takes(call) /\ call.kind = "start" /\ call.life = l
  BY <1>1
<1> HIDE DEF call
<1>5. UNCHANGED <<running, life, cursor, preimages, retry, debounce, refreshed, journal>>
  BY <1>1 DEF OpenResolves, streamVars
<1>6. toClient' \in Seq(Calls) /\ 1 \in CallsOf(l)
  BY <1>3, <1>4, CallTaken
<1>7. /\ \A k \in Lives : AtMostOne(CallsOf(k)')
      /\ \A k \in Lives : CallsOf(k)' # {} => CallsOf(k) # {}
      /\ CallsOf(l)' = {}
      /\ running /\ toClient' # <<>> => Len(toClient') \in CallsOf(life)'
      /\ \A k \in Lives : ~Current(k) =>
           \A i \in CallsOf(k)' : \E j \in StopsQueued' : i < j
      /\ ~Current(l) => StopsQueued' # {}
      /\ StopsQueued' = {} => StopsQueued = {}
  BY <1>3, <1>4, <1>5, <1>6, TakenKeepsCalls
<1>8. \A k : Current(k)' <=> Current(k)
  BY <1>5 DEF Current
<1>9. /\ job.kind = "none" /\ job.at = "none"
  BY <1>2 DEF NoJob
<1>10. AnswersIn = {} /\ ~IsOpened
  BY <1>3, <1>9, NoAnswer
<1>11. PumpInv' /\ AttachedLives'
  BY <1>2, <1>5, Views DEF IInv
<1>12. CASE streamOpen
  <2>1. /\ UNCHANGED job
        /\ opening' = IF opening = l THEN NoLife ELSE opening
        /\ failures' = IF Current(l) THEN 0 ELSE failures
    BY <1>1, <1>12 DEF OpenResolves, Answered
  <2>2. TypeOK'
    BY <1>2, <1>3, <1>5, <1>6, <2>1 DEF TypeOK, StreamTypeOK
  <2>3. \A k : ~JobOf(k)' /\ ~JobOf(k)
    BY <1>9, <2>1 DEF JobOf
  <2>4. CallInv'
    <3> SUFFICES ASSUME NEW k \in Lives, CallsOf(k)' # {}
                 PROVE  k <= life /\ (k = life => opening' = life)
      BY <1>5, <1>7, <2>3 DEF CallInv, AtMostOne
    <3>1. k # l /\ CallsOf(k) # {}
      BY <1>7
    <3> QED
      BY <1>3, <2>1, <3>1 DEF CallInv
  <2>5. CounterInv'
    BY <1>3, <1>5, <2>1 DEF CounterInv, NoLife
  <2>6. QueueInv'
    BY <1>2, <1>3, <1>5, <1>7, <1>8, <2>3 DEF QueueInv
  <2>7. ClosedIsRetried'
    BY <1>2, <1>12 DEF ClosedIsRetried
  <2> QED
    BY <1>2, <1>11, <2>1, <2>2, <2>4, <2>5, <2>6, <2>7, Views DEF IInv
<1>13. CASE ~streamOpen
  <2>0. UNCHANGED <<opening, failures>>
    BY <1>1, <1>13 DEF streamVars
  <2>1. /\ job'.kind = "start" /\ job'.life = l /\ job'.at = "native" /\ job' \in Jobs
    BY <1>1, <1>13 DEF Jobs
  <2>2. TypeOK'
    BY <1>2, <1>3, <1>5, <1>6, <2>0, <2>1 DEF TypeOK, StreamTypeOK
  <2>3. \A k : (JobOf(k)' <=> k = l) /\ ~JobOf(k)
    BY <1>9, <2>1 DEF JobOf
  <2>4. AnswersIn' = {} /\ ~IsOpened'
    BY <1>2, <1>10 DEF AnswersIn, IsOpened
  <2>5. ChainInv'
    BY <1>2, <1>13, <2>1, <2>4 DEF ChainInv, AtMostOne
  <2>6. CallInv'
    <3> SUFFICES ASSUME NEW k \in Lives
                 PROVE  /\ k = l => CallsOf(k)' = {}
                        /\ CallsOf(k)' # {} \/ k = l =>
                             k <= life /\ (k = life => opening = life)
      BY <1>5, <1>7, <2>0, <2>3 DEF CallInv, AtMostOne
    <3>1. CallsOf(k)' # {} \/ k = l => CallsOf(k) # {}
      BY <1>6, <1>7
    <3> QED
      BY <1>3, <1>7, <3>1 DEF CallInv
  <2>7. QueueInv'
    BY <1>2, <1>5, <1>7, <1>8, <1>13, <2>3 DEF QueueInv
  <2>8. CounterInv' /\ ClosedIsRetried'
    BY <1>2, <1>3, <1>5, <2>0 DEF CounterInv, ClosedIsRetried
  <2>9. ASSUME breaks' = 0 PROVE BeliefInv'
    <3>1. BeliefInv
      BY <1>2, <2>9 DEF IInv
    <3>2. subscription = NoPump /\ ~LossDue'
      BY <1>2, <1>9, <1>10, <1>13, <3>1 DEF BeliefInv, LossDue
    <3> QED
      BY <1>2, <1>13, <2>1, <2>4, <3>1, <3>2 DEF BeliefInv
  <2> QED
    BY <1>11, <2>2, <2>5, <2>6, <2>7, <2>8, <2>9 DEF IInv
<1> QED
  BY <1>12, <1>13

LEMMA BeginsStopKeeps ==
    ASSUME IInv, BeginsStop
    PROVE  IInv'
<1> USE Bounds
<1>1. /\ job = NoJob /\ streamOpen' = FALSE
      /\ job' = IF streamOpen THEN [NoJob EXCEPT !.kind = "stop", !.at = "native"] ELSE NoJob
      /\ UNCHANGED <<running, life, cursor, preimages, failures, opening, retry, debounce,
                     refreshed, journal, toEngine, subscription, pumps, opened, breaks>>
  BY DEF BeginsStop, nativeVars, streamVars
<1>2. /\ TypeOK /\ ChainInv /\ CallInv /\ CounterInv /\ QueueInv /\ ClosedIsRetried
      /\ toClient \in Seq(Calls) /\ life \in 0..MaxLives
  BY DEF IInv, TypeOK, StreamTypeOK
<1> DEFINE call == [kind |-> "stop"]
<1>3. Takes(call) /\ call.kind = "stop"
  BY DEF BeginsStop
<1> HIDE DEF call
<1>4. toClient' \in Seq(Calls) /\ toClient # <<>>
  BY <1>2, <1>3, CallTaken
<1>5. /\ \A k \in Lives : AtMostOne(CallsOf(k)')
      /\ \A k \in Lives : CallsOf(k)' # {} => CallsOf(k) # {}
      /\ running /\ toClient' # <<>> => Len(toClient') \in CallsOf(life)'
      /\ \A k \in Lives : ~Current(k) =>
           \A i \in CallsOf(k)' : \E j \in StopsQueued' : i < j
  BY <1>1, <1>2, <1>3, TakenKeepsCalls
<1>6. \A k : Current(k)' <=> Current(k)
  BY <1>1 DEF Current
<1>7. /\ job.kind = "none" /\ job.at = "none"
  BY <1>1 DEF NoJob
<1>8. AnswersIn = {} /\ ~IsOpened /\ AnswersIn' = {} /\ ~IsOpened'
  <2>1. AnswersIn = {} /\ ~IsOpened
    BY <1>2, <1>7, NoAnswer
  <2> QED
    BY <1>1, <2>1 DEF AnswersIn, IsOpened
<1>9. /\ job' \in Jobs
      /\ job' = NoJob \/ (job'.kind = "stop" /\ job'.at = "native")
      /\ streamOpen => job'.kind = "stop" /\ job'.at = "native"
      /\ job'.kind = "none" => job' = NoJob
      /\ job'.kind # "start" /\ (job'.kind # "none" => job'.at # "none")
  BY <1>1 DEF NoJob, Jobs, NoLife
<1>10. TypeOK'
  BY <1>1, <1>2, <1>4, <1>9 DEF TypeOK, StreamTypeOK
<1>11. \A k : ~JobOf(k)' /\ ~JobOf(k)
  BY <1>7, <1>9 DEF JobOf
<1>12. ChainInv'
  BY <1>1, <1>8, <1>9 DEF ChainInv, AtMostOne
<1>13. CallInv'
  BY <1>1, <1>2, <1>5, <1>11 DEF CallInv, AtMostOne
<1>14. QueueInv'
  BY <1>1, <1>5, <1>6, <1>11 DEF QueueInv
<1>15. ClosedIsRetried'
  <2>1. ASSUME running PROVE opening = life
    <3>1. Len(toClient) \in CallsOf(life) /\ life \in Lives
      BY <1>2, <1>4, <2>1 DEF QueueInv, CounterInv, Lives, NoLife
    <3> QED
      BY <1>2, <3>1 DEF CallInv
  <2> QED
    BY <1>1, <2>1 DEF ClosedIsRetried
<1>16. ASSUME breaks' = 0 PROVE BeliefInv'
  <2>1. BeliefInv
    BY <1>1, <1>16 DEF IInv
  <2>2. ~LossDue'
    BY <1>1, <2>1 DEF BeliefInv, LossDue
  <2>3. subscription # NoPump => streamOpen
    BY <1>7, <1>8, <2>1 DEF BeliefInv
  <2> QED
    BY <1>1, <1>8, <1>9, <2>1, <2>2, <2>3 DEF BeliefInv
<1>17. CounterInv' /\ PumpInv' /\ AttachedLives'
  BY <1>1, Views DEF IInv
<1> QED
  BY <1>10, <1>12, <1>13, <1>14, <1>15, <1>16, <1>17 DEF IInv

-----------------------------------------------------------------------------
(* The native module's steps.                                              *)

(* A call that goes from one of its places to another is still the same.   *)
LEMMA GoesKeeps ==
    ASSUME IInv, NEW at \in {"native", "done", "answered"}, Goes(at), job.kind # "none",
           UNCHANGED <<streamVars, journal, toClient, streamOpen, breaks>>
    PROVE  /\ job' \in Jobs /\ job'.at = at /\ job'.kind = job.kind /\ job'.life = job.life
           /\ CallInv' /\ CounterInv' /\ QueueInv' /\ ClosedIsRetried'
<1>1. job \in Jobs
  BY DEF IInv, TypeOK
<1>2. job' \in Jobs /\ job'.at = at /\ job'.kind = job.kind /\ job'.life = job.life
  BY <1>1 DEF Goes, Jobs
<1>3. UNCHANGED <<running, life, failures, opening, retry>>
  BY DEF streamVars
<1>4. CounterInv' /\ ClosedIsRetried'
  BY <1>3, Views DEF IInv
<1>5. \A l : JobOf(l)' <=> JobOf(l)
  BY <1>2 DEF JobOf
<1>6. \A l : CallsOf(l)' = CallsOf(l)
  BY DEF CallsOf
<1>7. CallInv'
  BY <1>3, <1>5, <1>6 DEF IInv, CallInv, AtMostOne
<1>8. QueueInv'
  <2>1. StopsQueued' = StopsQueued /\ CallsOf(life)' = CallsOf(life)
    BY <1>3 DEF StopsQueued, CallsOf
  <2> QED
    BY <1>3, <1>5, <1>6, <2>1 DEF IInv, QueueInv, Current
<1> QED
  BY <1>2, <1>4, <1>7, <1>8

LEMMA NativeStartsKeeps ==
    ASSUME IInv, NativeStarts
    PROVE  IInv'
<1> USE Bounds
<1>1. /\ job.kind = "start" /\ job.at = "native" /\ Goes("done")
      /\ UNCHANGED <<streamVars, journal, toClient, toEngine, streamOpen, breaks>>
      /\ UNCHANGED <<running, life, cursor, preimages, failures, opening, retry, debounce,
                     refreshed>>
  BY DEF NativeStarts, streamVars
<1>2. TypeOK /\ ChainInv /\ PumpInv /\ AttachedLives
  BY DEF IInv
<1>3. /\ job' \in Jobs /\ job'.at = "done" /\ job'.kind = "start" /\ job'.life = job.life
      /\ CallInv' /\ CounterInv' /\ QueueInv' /\ ClosedIsRetried'
  BY <1>1, GoesKeeps
<1>4. AnswersIn' = {} /\ ~IsOpened' /\ (LossDue' <=> LossDue)
  <2>1. AnswersIn = {} /\ ~IsOpened
    BY <1>1, <1>2, NoAnswer
  <2> QED
    BY <1>1, <2>1 DEF AnswersIn, IsOpened, LossDue
<1>5. ChainInv'
  BY <1>1, <1>2, <1>3, <1>4 DEF ChainInv, AtMostOne
<1>6. /\ subscription' # NoPump /\ subscription' \in 0..MaxPumps /\ opened' \in 0..MaxPumps
      /\ pumps' \subseteq Pumps
      /\ PumpInv' /\ AttachedLives'
      /\ (\A p \in pumps : p.at \in {"next", "sending"}) =>
            \A p \in pumps' : p.at \in {"next", "sending"}
  <2>1. CASE subscription # NoPump
    <3>1. UNCHANGED <<subscription, pumps, opened>>
      BY <2>1 DEF NativeStarts
    <3> QED
      BY <1>1, <1>2, <2>1, <3>1, Views DEF TypeOK
  <2>2. CASE subscription = NoPump
    <3> DEFINE new == [id |-> opened + 1, next |-> job.cursor + 1, at |-> "next"]
    <3>1. /\ opened < MaxPumps /\ opened' = opened + 1
          /\ subscription' = opened + 1 /\ pumps' = pumps \cup {new}
      BY <2>2 DEF NativeStarts
    <3>2. opened + 1 \in 1..MaxPumps /\ job.cursor + 1 \in 1..(MaxEntries + 1)
      BY <1>2, <3>1 DEF TypeOK, Jobs, Entries
    <3>3. new \in Pumps /\ new.id = opened + 1 /\ new.at = "next"
      BY <3>2 DEF Pumps
    <3> HIDE DEF new
    <3>4. PumpInv'
      BY <1>1, <1>2, <3>1, <3>3 DEF PumpInv
    <3>5. AttachedLives'
      BY <3>1, <3>3 DEF AttachedLives, Attached
    <3>6. subscription' # NoPump
      BY <3>1, <3>2 DEF NoPump
    <3> QED
      BY <1>2, <3>1, <3>2, <3>3, <3>4, <3>5, <3>6 DEF TypeOK
  <2> QED
    BY <2>1, <2>2
<1>7. TypeOK'
  BY <1>1, <1>2, <1>3, <1>6 DEF TypeOK, StreamTypeOK
<1>8. ASSUME breaks' = 0 PROVE BeliefInv'
  BY <1>1, <1>3, <1>4, <1>6, <1>8 DEF IInv, BeliefInv
<1> QED
  BY <1>3, <1>5, <1>6, <1>7, <1>8 DEF IInv

LEMMA NativeRefusesKeeps ==
    ASSUME IInv, NativeRefuses
    PROVE  IInv'
<1>1. /\ job.kind = "start" /\ job.at = "native" /\ Goes("answered")
      /\ subscription = NoPump
      /\ UNCHANGED <<streamVars, journal, toClient, streamOpen, breaks>>
      /\ UNCHANGED <<running, life, cursor, preimages, failures, opening, retry, debounce,
                     refreshed, subscription, pumps, opened>>
  BY DEF NativeRefuses, streamVars, nativeVars
<1>2. TypeOK /\ ChainInv /\ toEngine \in Seq(Messages) /\ job.life \in Lives
  BY <1>1 DEF IInv, TypeOK, StreamTypeOK, Messages, ChainInv
<1>3. /\ job' \in Jobs /\ job'.at = "answered" /\ job'.kind = "start" /\ job'.life = job.life
      /\ CallInv' /\ CounterInv' /\ QueueInv' /\ ClosedIsRetried'
  BY <1>1, GoesKeeps
<1> DEFINE m == [kind |-> "refused", life |-> job.life]
<1>4. m \in Messages /\ m.kind = "refused" /\ m.life = job.life /\ Posts(m)
  BY <1>2 DEF NativeRefuses, Messages, Answers
<1> HIDE DEF m
<1>5. AnswersIn = {} /\ ~IsOpened
  BY <1>1, <1>2, NoAnswer
<1>6. /\ toEngine' \in Seq(Messages) /\ toEngine'[Len(toEngine')] = m
      /\ AnswersIn' = {Len(toEngine')} /\ ~IsOpened' /\ (LossDue' <=> LossDue)
  BY <1>2, <1>4, <1>5, MessagePosted DEF AnswerKinds
<1>7. TypeOK'
  BY <1>1, <1>2, <1>3, <1>6 DEF TypeOK, StreamTypeOK, Messages
<1>8. ChainInv'
  BY <1>1, <1>2, <1>3, <1>4, <1>6 DEF ChainInv, AtMostOne, JobOf
<1>9. ASSUME breaks' = 0 PROVE BeliefInv'
  BY <1>1, <1>2, <1>3, <1>6, <1>9 DEF IInv, BeliefInv, ChainInv
<1>10. PumpInv' /\ AttachedLives'
  BY <1>1, Views DEF IInv
<1> QED
  BY <1>3, <1>7, <1>8, <1>9, <1>10 DEF IInv

LEMMA NativeStopsKeeps ==
    ASSUME IInv, NativeStops
    PROVE  IInv'
<1> USE Bounds
<1>1. /\ job.kind = "stop" /\ job.at = "native" /\ Goes("done") /\ subscription' = NoPump
      /\ UNCHANGED <<streamVars, journal, toClient, toEngine, streamOpen, breaks>>
      /\ UNCHANGED <<running, life, cursor, preimages, failures, opening, retry, debounce,
                     refreshed, pumps, opened>>
  BY DEF NativeStops, streamVars
<1>2. TypeOK /\ ChainInv
  BY DEF IInv
<1>3. /\ job' \in Jobs /\ job'.at = "done" /\ job'.kind = "stop"
      /\ CallInv' /\ CounterInv' /\ QueueInv' /\ ClosedIsRetried'
  BY <1>1, GoesKeeps
<1>4. AnswersIn' = {} /\ ~IsOpened' /\ (LossDue' <=> LossDue)
  <2>1. AnswersIn = {} /\ ~IsOpened
    BY <1>1, <1>2, NoAnswer
  <2> QED
    BY <1>1, <2>1 DEF AnswersIn, IsOpened, LossDue
<1>5. TypeOK'
  BY <1>1, <1>2, <1>3 DEF TypeOK, StreamTypeOK, NoPump
<1>6. ChainInv'
  BY <1>1, <1>2, <1>3, <1>4 DEF ChainInv, AtMostOne
<1>7. ASSUME breaks' = 0 PROVE BeliefInv'
  BY <1>1, <1>2, <1>3, <1>4, <1>7 DEF IInv, BeliefInv, ChainInv
<1>8. PumpInv' /\ AttachedLives'
  BY <1>1, Views DEF IInv, AttachedLives
<1> QED
  BY <1>3, <1>5, <1>6, <1>7, <1>8 DEF IInv

LEMMA NativeResolvesKeeps ==
    ASSUME IInv, NativeResolves
    PROVE  IInv'
<1>1. /\ job.at = "done" /\ Goes("answered")
      /\ UNCHANGED <<streamVars, journal, toClient, streamOpen, breaks>>
      /\ UNCHANGED <<running, life, cursor, preimages, failures, opening, retry, debounce,
                     refreshed, subscription, pumps, opened>>
  BY DEF NativeResolves, streamVars, nativeVars
<1>2. TypeOK /\ ChainInv /\ toEngine \in Seq(Messages) /\ job \in Jobs
  BY DEF IInv, TypeOK, StreamTypeOK, Messages
<1>3. job.kind \in {"start", "stop"} /\ ~streamOpen
  <2>1. job.kind # "none"
    BY <1>1, <1>2 DEF ChainInv, NoJob
  <2> QED
    BY <1>2, <2>1 DEF ChainInv, Jobs
<1>4. /\ job' \in Jobs /\ job'.at = "answered" /\ job'.kind = job.kind /\ job'.life = job.life
      /\ CallInv' /\ CounterInv' /\ QueueInv' /\ ClosedIsRetried'
  BY <1>1, <1>3, GoesKeeps
<1> DEFINE m == IF job.kind = "start" THEN [kind |-> "opened", life |-> job.life]
                ELSE [kind |-> "stopped"]
<1>5. /\ m \in Messages /\ Posts(m)
      /\ job.kind = "start" => m.kind = "opened" /\ m.life = job.life
      /\ job.kind = "stop" => m.kind = "stopped"
  BY <1>2, <1>3 DEF NativeResolves, Messages, Answers, Events, ChainInv
<1> HIDE DEF m
<1>6. AnswersIn = {} /\ ~IsOpened
  BY <1>1, <1>2, NoAnswer
<1>7. /\ toEngine' \in Seq(Messages) /\ toEngine'[Len(toEngine')] = m
      /\ AnswersIn' = {Len(toEngine')} /\ (LossDue' <=> LossDue)
      /\ IsOpened' <=> m.kind = "opened"
  BY <1>2, <1>3, <1>5, <1>6, MessagePosted DEF AnswerKinds
<1>8. TypeOK'
  BY <1>1, <1>2, <1>4, <1>7 DEF TypeOK, StreamTypeOK, Messages
<1>9. ChainInv'
  BY <1>1, <1>2, <1>3, <1>4, <1>5, <1>7 DEF ChainInv, AtMostOne, JobOf
<1>10. ASSUME breaks' = 0 PROVE BeliefInv'
  <2>1. BeliefInv
    BY <1>1, <1>10 DEF IInv
  <2>2. job.kind = "start" <=> subscription # NoPump
    BY <1>1, <1>3, <1>6, <2>1 DEF BeliefInv
  <2> QED
    BY <1>1, <1>3, <1>4, <1>5, <1>7, <2>1, <2>2 DEF BeliefInv
<1>11. PumpInv' /\ AttachedLives'
  BY <1>1, Views DEF IInv
<1> QED
  BY <1>4, <1>8, <1>9, <1>10, <1>11 DEF IInv

-----------------------------------------------------------------------------
(* The pump threads' steps.                                                *)

(* What a pump leaves alone.                                               *)
LEMMA PumpKeepsRest ==
    ASSUME IInv, UNCHANGED <<streamVars, journal, toClient, streamOpen, job>>
    PROVE  CallInv' /\ CounterInv' /\ QueueInv' /\ ClosedIsRetried'
<1>1. UNCHANGED <<running, life, failures, opening, retry>>
  BY DEF streamVars
<1> QED
  BY <1>1, Views DEF IInv

(* A pump that ends was not attached, or no longer is.                     *)
LEMMA EndsKeeps ==
    ASSUME IInv, NEW p \in pumps, Ends(p), UNCHANGED journal,
           subscription' = NoPump \/ (UNCHANGED subscription /\ ~Attached(p))
    PROVE  pumps' \subseteq Pumps /\ PumpInv' /\ AttachedLives'
<1>1. pumps' \subseteq pumps /\ \A q \in pumps : q # p => q \in pumps'
  BY DEF Ends
<1>2. pumps' \subseteq Pumps /\ PumpInv'
  BY <1>1 DEF IInv, TypeOK, PumpInv
<1>3. AttachedLives'
  BY <1>1 DEF IInv, AttachedLives, Attached
<1> QED
  BY <1>2, <1>3

(* A pump that goes on is attached as before.                              *)
LEMMA StepKeeps ==
    ASSUME IInv, NEW p \in pumps, NEW q \in Pumps, Step(p, q), q.id = p.id,
           UNCHANGED <<journal, subscription>>, q.at = "sending" => q.next <= journal
    PROVE  pumps' \subseteq Pumps /\ PumpInv' /\ AttachedLives'
<1>1. pumps' = (pumps \ {p}) \cup {q}
  BY DEF Step
<1>2. pumps' \subseteq Pumps /\ PumpInv'
  BY <1>1 DEF IInv, TypeOK, PumpInv
<1>3. AttachedLives'
  BY <1>1 DEF IInv, AttachedLives, Attached
<1> QED
  BY <1>2, <1>3

LEMMA PumpReadsKeeps ==
    ASSUME IInv, NEW p \in pumps, PumpReads(p)
    PROVE  IInv'
<1> DEFINE q == [p EXCEPT !.at = "sending"]
<1>1. /\ p.at = "next" /\ p.next <= journal
      /\ IF Attached(p) THEN Step(p, q) ELSE Ends(p)
      /\ UNCHANGED <<streamVars, journal, toClient, toEngine, streamOpen, job, subscription,
                     opened, breaks>>
  BY DEF PumpReads
<1>2. TypeOK /\ p \in Pumps
  BY DEF IInv, TypeOK
<1>3. q \in Pumps /\ q.at = "sending" /\ q.id = p.id /\ q.next = p.next
  BY <1>2 DEF Pumps
<1> HIDE DEF q
<1>4. pumps' \subseteq Pumps /\ PumpInv' /\ AttachedLives'
  BY <1>1, <1>3, EndsKeeps, StepKeeps
<1>5. TypeOK'
  BY <1>1, <1>2, <1>4 DEF TypeOK, StreamTypeOK, streamVars
<1>6. ASSUME breaks' = 0 PROVE BeliefInv'
  <2>1. BeliefInv
    BY <1>1, <1>6 DEF IInv
  <2>2. \A r \in pumps' : r \in pumps \/ r = q
    BY <1>1 DEF Step, Ends
  <2>3. (IsOpened' <=> IsOpened) /\ (LossDue' <=> LossDue)
    BY <1>1 DEF IsOpened, LossDue
  <2> QED
    BY <1>1, <1>3, <2>1, <2>2, <2>3 DEF BeliefInv
<1>7. ChainInv' /\ CallInv' /\ CounterInv' /\ QueueInv' /\ ClosedIsRetried'
  BY <1>1, PumpKeepsRest, Views DEF IInv
<1> QED
  BY <1>4, <1>5, <1>6, <1>7 DEF IInv

(* An event that is posted is no answer.                                   *)
LEMMA EventKeepsChain ==
    ASSUME IInv, NEW m \in Messages, Posts(m), m.kind \notin AnswerKinds,
           UNCHANGED <<streamOpen, job>>
    PROVE  ChainInv' /\ (IsOpened' <=> IsOpened)
<1>1. toEngine \in Seq(Messages) /\ ChainInv
  BY DEF IInv, TypeOK, StreamTypeOK, Messages
<1>2. /\ AnswersIn' = AnswersIn /\ (IsOpened' <=> IsOpened)
      /\ \A i \in 1..Len(toEngine) : toEngine'[i] = toEngine[i]
  BY <1>1, MessagePosted DEF AnswerKinds
<1>3. \A i \in AnswersIn : toEngine'[i] = toEngine[i]
  BY <1>2 DEF AnswersIn
<1> QED
  BY <1>1, <1>2, <1>3 DEF ChainInv, JobOf

LEMMA PumpSendsKeeps ==
    ASSUME IInv, NEW p \in pumps, PumpSends(p)
    PROVE  IInv'
<1> USE Bounds
<1> DEFINE q == [p EXCEPT !.at = "next", !.next = @ + 1]
           m == [kind |-> "entry", entry |-> p.next]
<1>1. /\ p.at = "sending" /\ Posts(m) /\ Step(p, q)
      /\ UNCHANGED <<streamVars, journal, toClient, streamOpen, job, subscription, opened, breaks>>
  BY DEF PumpSends
<1>2. /\ TypeOK /\ p \in Pumps /\ p.next <= journal /\ journal \in 0..MaxEntries
      /\ toEngine \in Seq(Messages)
  BY <1>1 DEF IInv, TypeOK, StreamTypeOK, PumpInv, Messages
<1>3. p.next \in Entries /\ p.next + 1 \in 1..(MaxEntries + 1)
  BY <1>2 DEF Pumps, Entries
<1>4. m \in Messages /\ m.kind = "entry"
  BY <1>3 DEF Messages, Events
<1>5. q \in Pumps /\ q.at = "next" /\ q.id = p.id
  BY <1>2, <1>3 DEF Pumps
<1> HIDE DEF q, m
<1>6. pumps' \subseteq Pumps /\ PumpInv' /\ AttachedLives'
  BY <1>1, <1>5, StepKeeps
<1>7. ChainInv' /\ (IsOpened' <=> IsOpened)
  BY <1>1, <1>4, EventKeepsChain DEF AnswerKinds
<1>8. toEngine' \in Seq(Messages) /\ (LossDue' <=> LossDue)
  BY <1>1, <1>2, <1>4, MessagePosted
<1>9. TypeOK'
  BY <1>1, <1>2, <1>6, <1>8 DEF TypeOK, StreamTypeOK, streamVars, Messages
<1>10. ASSUME breaks' = 0 PROVE BeliefInv'
  <2>1. BeliefInv
    BY <1>1, <1>10 DEF IInv
  <2>2. \A r \in pumps' : r \in pumps \/ r = q
    BY <1>1 DEF Step
  <2> QED
    BY <1>1, <1>5, <1>7, <1>8, <2>1, <2>2 DEF BeliefInv
<1>11. CallInv' /\ CounterInv' /\ QueueInv' /\ ClosedIsRetried'
  BY <1>1, PumpKeepsRest
<1> QED
  BY <1>6, <1>7, <1>9, <1>10, <1>11 DEF IInv

LEMMA PumpFailsKeeps ==
    ASSUME IInv, NEW p \in pumps, PumpFails(p)
    PROVE  IInv'
<1> USE Bounds
<1> DEFINE q == [p EXCEPT !.at = "ending"]
<1>1. /\ IF Attached(p) THEN breaks < MaxBreaks /\ breaks' = breaks + 1 /\ Step(p, q)
         ELSE Ends(p) /\ UNCHANGED breaks
      /\ UNCHANGED <<streamVars, journal, toClient, toEngine, streamOpen, job, subscription, opened>>
  BY DEF PumpFails
<1>2. TypeOK /\ p \in Pumps /\ breaks \in 0..MaxBreaks
  BY DEF IInv, TypeOK
<1>3. q \in Pumps /\ q.at = "ending" /\ q.id = p.id
  BY <1>2 DEF Pumps
<1> HIDE DEF q
<1>4. pumps' \subseteq Pumps /\ PumpInv' /\ AttachedLives'
  BY <1>1, <1>3, EndsKeeps, StepKeeps
<1>5. breaks' \in 0..MaxBreaks /\ (breaks' = 0 => ~Attached(p) /\ breaks = 0)
  BY <1>1, <1>2
<1>6. TypeOK'
  BY <1>1, <1>2, <1>4, <1>5 DEF TypeOK, StreamTypeOK, streamVars
<1>7. ASSUME breaks' = 0 PROVE BeliefInv'
  <2>1. BeliefInv
    BY <1>5, <1>7 DEF IInv
  <2>2. \A r \in pumps' : r \in pumps
    BY <1>1, <1>5, <1>7 DEF Ends
  <2>3. (IsOpened' <=> IsOpened) /\ (LossDue' <=> LossDue)
    BY <1>1 DEF IsOpened, LossDue
  <2> QED
    BY <1>1, <2>1, <2>2, <2>3 DEF BeliefInv
<1>8. ChainInv' /\ CallInv' /\ CounterInv' /\ QueueInv' /\ ClosedIsRetried'
  BY <1>1, PumpKeepsRest, Views DEF IInv
<1> QED
  BY <1>4, <1>6, <1>7, <1>8 DEF IInv

LEMMA PumpReportsKeeps ==
    ASSUME IInv, NEW p \in pumps, PumpReports(p)
    PROVE  IInv'
<1> DEFINE q == [p EXCEPT !.at = "closing"]
           m == [kind |-> "lost"]
<1>1. /\ p.at = "ending" /\ Posts(m) /\ Step(p, q)
      /\ UNCHANGED <<streamVars, journal, toClient, streamOpen, job, subscription, opened, breaks>>
  BY DEF PumpReports
<1>2. TypeOK /\ p \in Pumps /\ toEngine \in Seq(Messages)
  BY DEF IInv, TypeOK, StreamTypeOK, Messages
<1>3. m \in Messages /\ m.kind = "lost"
  BY DEF Messages, Events
<1>4. q \in Pumps /\ q.at = "closing" /\ q.id = p.id
  BY <1>2 DEF Pumps
<1> HIDE DEF q, m
<1>5. pumps' \subseteq Pumps /\ PumpInv' /\ AttachedLives'
  BY <1>1, <1>4, StepKeeps
<1>6. ChainInv'
  BY <1>1, <1>3, EventKeepsChain DEF AnswerKinds
<1>7. toEngine' \in Seq(Messages)
  BY <1>1, <1>2, <1>3, MessagePosted
<1>8. TypeOK'
  BY <1>1, <1>2, <1>5, <1>7 DEF TypeOK, StreamTypeOK, streamVars, Messages
<1>9. breaks' # 0
  BY <1>1 DEF IInv, BeliefInv
<1>10. CallInv' /\ CounterInv' /\ QueueInv' /\ ClosedIsRetried'
  BY <1>1, PumpKeepsRest
<1> QED
  BY <1>5, <1>6, <1>8, <1>9, <1>10 DEF IInv

LEMMA PumpClosesKeeps ==
    ASSUME IInv, NEW p \in pumps, PumpCloses(p)
    PROVE  IInv'
<1> USE Bounds
<1>1. /\ p.at = "closing" /\ Ends(p)
      /\ subscription' = IF Attached(p) THEN NoPump ELSE subscription
      /\ UNCHANGED <<streamVars, journal, toClient, toEngine, streamOpen, job, opened, breaks>>
  BY DEF PumpCloses
<1>2. pumps' \subseteq Pumps /\ PumpInv' /\ AttachedLives'
  BY <1>1, EndsKeeps
<1>3. TypeOK'
  BY <1>1, <1>2 DEF IInv, TypeOK, StreamTypeOK, streamVars, NoPump
<1>4. breaks' # 0
  BY <1>1 DEF IInv, BeliefInv
<1>5. ChainInv' /\ CallInv' /\ CounterInv' /\ QueueInv' /\ ClosedIsRetried'
  BY <1>1, PumpKeepsRest, Views DEF IInv
<1> QED
  BY <1>2, <1>3, <1>4, <1>5 DEF IInv

-----------------------------------------------------------------------------
(* What arrives in JavaScript.                                             *)

(* The answer of the head of the chain is the only one under way.          *)
LEMMA AnswerDelivered ==
    ASSUME IInv, NEW m, Delivers(m), m.kind \in AnswerKinds
    PROVE  /\ toEngine' \in Seq(Messages) /\ m \in Messages
           /\ job.at = "answered" /\ job.kind # "none" /\ ~streamOpen
           /\ IF m.kind = "stopped" THEN job.kind = "stop" ELSE JobOf(m.life)
           /\ AnswersIn' = {} /\ ~IsOpened' /\ (IsOpened <=> m.kind = "opened")
           /\ LossDue' <=> LossDue
<1>1. toEngine \in Seq(Messages) /\ ChainInv
  BY DEF IInv, TypeOK, StreamTypeOK, Messages
<1>2. /\ toEngine' \in Seq(Messages) /\ m \in Messages
      /\ Len(toEngine) \in Nat /\ Len(toEngine) >= 1
      /\ Len(toEngine') = Len(toEngine) - 1
      /\ toEngine[1] = m
      /\ AnswersIn' = {i \in 1..Len(toEngine') : i + 1 \in AnswersIn}
      /\ 1 \in AnswersIn
      /\ IsOpened <=> IsOpened' \/ m.kind = "opened"
      /\ LossDue <=> LossDue' \/ m.kind = "lost"
  BY <1>1, MessageDelivered
<1>3. /\ job.at = "answered"
      /\ IF m.kind = "stopped" THEN job.kind = "stop" ELSE JobOf(m.life)
  BY <1>1, <1>2 DEF ChainInv
<1>4. job.kind # "none" /\ ~streamOpen
  BY <1>1, <1>3 DEF ChainInv, JobOf
<1>5. AnswersIn' = {}
  <2>1. \A i \in 1..Len(toEngine') : i + 1 # 1
    BY <1>2
  <2> QED
    BY <1>1, <1>2, <2>1 DEF ChainInv, AtMostOne
<1>6. ~IsOpened'
  BY <1>5 DEF AnswersIn, IsOpened
<1>7. m.kind # "lost"
  BY DEF AnswerKinds
<1> QED
  BY <1>2, <1>3, <1>4, <1>5, <1>6, <1>7

(* The call that is answered is no longer under way, and no other call of  *)
(* its lifecycle is.                                                       *)
LEMMA AnsweredKeepsCalls ==
    ASSUME IInv, NEW l \in Lives, JobOf(l), Answered(l), job' = NoJob,
           UNCHANGED <<toClient, life>>
    PROVE  /\ CallInv' /\ \A k : ~JobOf(k)'
           /\ CallsOf(l) = {} /\ \A k : CallsOf(k)' = CallsOf(k)
<1>1. \A k : ~JobOf(k)'
  BY DEF JobOf, NoJob
<1>2. CallsOf(l) = {} /\ \A k : CallsOf(k)' = CallsOf(k)
  BY DEF IInv, CallInv, CallsOf
<1>3. ASSUME NEW k \in Lives, CallsOf(k) # {}
      PROVE  k <= life /\ (k = life => opening' = life)
  <2>1. k # l
    BY <1>2, <1>3
  <2> QED
    BY <1>3, <2>1 DEF IInv, CallInv, Answered
<1>4. CallInv'
  BY <1>1, <1>2, <1>3 DEF IInv, CallInv, AtMostOne
<1> QED
  BY <1>1, <1>2, <1>4

LEMMA OpenedKeeps ==
    ASSUME IInv, NEW l \in Lives, Delivers([kind |-> "opened", life |-> l]),
           streamOpen' = TRUE, OpenResolves(l), JobEnds, UNCHANGED nativeVars
    PROVE  IInv'
<1> USE Bounds
<1> DEFINE m == [kind |-> "opened", life |-> l]
<1>1. Delivers(m) /\ m.kind = "opened" /\ m.life = l
  OBVIOUS
<1> HIDE DEF m
<1>2. /\ Answered(l) /\ opening' = IF opening = l THEN NoLife ELSE opening
      /\ failures' = IF Current(l) THEN 0 ELSE failures
      /\ job' = NoJob
      /\ UNCHANGED <<running, life, cursor, preimages, retry, debounce, refreshed, journal,
                     toClient, subscription, pumps, opened, breaks>>
  BY DEF OpenResolves, Answered, JobEnds, nativeVars
<1>3. TypeOK /\ CounterInv /\ QueueInv /\ opening \in Lives \cup {NoLife}
  BY DEF IInv, TypeOK, StreamTypeOK
<1>4. /\ toEngine' \in Seq(Messages) /\ job.at = "answered" /\ JobOf(l)
      /\ AnswersIn' = {} /\ IsOpened /\ ~IsOpened' /\ (LossDue' <=> LossDue)
  BY <1>1, AnswerDelivered DEF AnswerKinds
<1>5. CallInv' /\ (\A k : ~JobOf(k)') /\ \A k : CallsOf(k)' = CallsOf(k)
  BY <1>2, <1>4, AnsweredKeepsCalls
<1>6. TypeOK'
  BY <1>2, <1>3, <1>4 DEF TypeOK, StreamTypeOK, Messages, NoJob, Jobs, NoLife
<1>7. ChainInv'
  BY <1>2, <1>4 DEF ChainInv, NoJob, AtMostOne
<1>8. CounterInv' /\ ClosedIsRetried'
  BY <1>2, <1>3 DEF CounterInv, ClosedIsRetried, TypeOK, StreamTypeOK, NoLife
<1>9. QueueInv'
  <2>1. StopsQueued' = StopsQueued /\ CallsOf(life)' = CallsOf(life)
    BY <1>2 DEF StopsQueued, CallsOf
  <2>2. ~(~running /\ StopsQueued = {})
    BY <1>3, <1>4 DEF QueueInv, Current
  <2> QED
    BY <1>2, <1>3, <1>5, <2>1, <2>2 DEF QueueInv, Current
<1>10. ASSUME breaks' = 0 PROVE BeliefInv'
  BY <1>2, <1>4, <1>10 DEF IInv, BeliefInv
<1>11. PumpInv' /\ AttachedLives'
  BY <1>2, Views DEF IInv
<1> QED
  BY <1>5, <1>6, <1>7, <1>8, <1>9, <1>10, <1>11 DEF IInv

LEMMA RefusedKeeps ==
    ASSUME IInv, NEW l \in Lives, Delivers([kind |-> "refused", life |-> l]),
           OpenRejects(l), job' = NoJob, UNCHANGED <<streamOpen, nativeVars>>
    PROVE  IInv'
<1> USE Bounds
<1> DEFINE m == [kind |-> "refused", life |-> l]
<1>1. Delivers(m) /\ m.kind = "refused" /\ m.life = l
  OBVIOUS
<1> HIDE DEF m
<1>2. /\ Answered(l) /\ opening' = IF opening = l THEN NoLife ELSE opening
      /\ failures' = IF Current(l) THEN failures + 1 ELSE failures
      /\ job' = NoJob
      /\ UNCHANGED <<life, preimages, refreshed, journal, toClient, streamOpen, subscription,
                     pumps, opened, breaks>>
  BY DEF OpenRejects, Answered, nativeVars
<1>3. \/ /\ Current(l) /\ failures + 1 >= FailureLimit
         /\ running' = FALSE /\ retry' = NoLife /\ debounce' = FALSE /\ cursor' = 0
      \/ /\ ~(Current(l) /\ failures + 1 >= FailureLimit)
         /\ retry' = IF Current(l) THEN l ELSE retry
         /\ UNCHANGED <<running, debounce, cursor>>
  BY DEF OpenRejects, GivesUp
<1>4. /\ TypeOK /\ CounterInv /\ QueueInv /\ ClosedIsRetried
      /\ opening \in Lives \cup {NoLife} /\ failures \in 0..FailureLimit
      /\ retry \in Lives \cup {NoLife}
  BY DEF IInv, TypeOK, StreamTypeOK
<1>5. /\ toEngine' \in Seq(Messages) /\ job.at = "answered" /\ JobOf(l) /\ ~streamOpen
      /\ AnswersIn' = {} /\ ~IsOpened /\ ~IsOpened' /\ (LossDue' <=> LossDue)
  BY <1>1, AnswerDelivered DEF AnswerKinds
<1>6. CallInv' /\ (\A k : ~JobOf(k)') /\ CallsOf(l) = {} /\ \A k : CallsOf(k)' = CallsOf(k)
  BY <1>2, <1>5, AnsweredKeepsCalls
<1>7. failures' \in 0..FailureLimit /\ (Current(l) => failures < FailureLimit)
  BY <1>2, <1>4 DEF CounterInv, Current
<1>8. TypeOK'
  <2>1. job' \in Jobs
    BY <1>2 DEF NoJob, Jobs, NoLife
  <2>2. /\ running' \in BOOLEAN /\ debounce' \in BOOLEAN /\ cursor' \in Entries \cup {0}
        /\ retry' \in Lives \cup {NoLife}
    BY <1>3, <1>4 DEF TypeOK, StreamTypeOK
  <2>3. opening' \in Lives \cup {NoLife}
    BY <1>2, <1>4
  <2> QED
    BY <1>2, <1>4, <1>5, <1>7, <2>1, <2>2, <2>3 DEF TypeOK, StreamTypeOK, Messages
<1>9. ChainInv'
  BY <1>2, <1>5 DEF ChainInv, NoJob, AtMostOne
<1>10. CounterInv'
  <2>1. running' => running /\ failures' < FailureLimit
    <3>1. CASE Current(l)
      BY <1>2, <1>3, <1>4, <3>1 DEF Current
    <3>2. CASE ~Current(l)
      BY <1>2, <1>3, <1>4, <3>2 DEF CounterInv
    <3> QED
      BY <3>1, <3>2
  <2> QED
    BY <1>2, <1>4, <2>1 DEF CounterInv, TypeOK, StreamTypeOK, NoLife
<1>11. ClosedIsRetried'
  BY <1>2, <1>3, <1>4, <1>5 DEF ClosedIsRetried, Current
<1>12. QueueInv'
  <2>1. StopsQueued' = StopsQueued /\ CallsOf(life)' = CallsOf(life)
    BY <1>2 DEF StopsQueued, CallsOf
  <2>2. ASSUME NEW k \in Lives, ~Current(k)', CallsOf(k) # {} PROVE ~Current(k)
    BY <1>2, <1>3, <1>6, <2>2 DEF Current
  <2>3. running' => running
    BY <1>3
  <2> QED
    BY <1>2, <1>4, <1>5, <1>6, <2>1, <2>2, <2>3 DEF QueueInv
<1>13. ASSUME breaks' = 0 PROVE BeliefInv'
  BY <1>2, <1>5, <1>13 DEF IInv, BeliefInv, JobOf, NoJob
<1>14. PumpInv' /\ AttachedLives'
  BY <1>2, Views DEF IInv
<1> QED
  BY <1>6, <1>8, <1>9, <1>10, <1>11, <1>12, <1>13, <1>14 DEF IInv

LEMMA StoppedKeeps ==
    ASSUME IInv, Delivers([kind |-> "stopped"]), JobEnds,
           UNCHANGED <<streamVars, journal, streamOpen, nativeVars>>
    PROVE  IInv'
<1> DEFINE m == [kind |-> "stopped"]
<1>1. Delivers(m) /\ m.kind = "stopped"
  OBVIOUS
<1> HIDE DEF m
<1>2. /\ job' = NoJob
      /\ UNCHANGED <<running, life, cursor, preimages, failures, opening, retry, debounce,
                     refreshed, journal, toClient, streamOpen, subscription, pumps, opened, breaks>>
  BY DEF JobEnds, streamVars, nativeVars
<1>3. /\ toEngine' \in Seq(Messages) /\ job.kind = "stop" /\ job.at = "answered" /\ ~streamOpen
      /\ AnswersIn' = {} /\ ~IsOpened /\ ~IsOpened' /\ (LossDue' <=> LossDue)
  BY <1>1, AnswerDelivered DEF AnswerKinds
<1>4. TypeOK'
  BY <1>2, <1>3 DEF IInv, TypeOK, StreamTypeOK, Messages, NoJob, Jobs, NoLife
<1>5. ChainInv'
  BY <1>2, <1>3 DEF ChainInv, NoJob, AtMostOne
<1>6. \A l : ~JobOf(l)' /\ CallsOf(l)' = CallsOf(l)
  BY <1>2 DEF JobOf, NoJob, CallsOf
<1>7. CallInv'
  BY <1>2, <1>6 DEF IInv, CallInv, AtMostOne
<1>8. QueueInv'
  <2>1. StopsQueued' = StopsQueued /\ CallsOf(life)' = CallsOf(life)
    BY <1>2 DEF StopsQueued, CallsOf
  <2> QED
    BY <1>2, <1>6, <2>1 DEF IInv, QueueInv, Current
<1>9. ASSUME breaks' = 0 PROVE BeliefInv'
  BY <1>2, <1>3, <1>9 DEF IInv, BeliefInv, NoJob
<1>10. CounterInv' /\ PumpInv' /\ AttachedLives' /\ ClosedIsRetried'
  BY <1>2, Views DEF IInv
<1> QED
  BY <1>4, <1>5, <1>7, <1>8, <1>9, <1>10 DEF IInv

(* An event that is delivered is no answer.                                *)
LEMMA EventDelivered ==
    ASSUME IInv, NEW m, Delivers(m), m.kind \notin AnswerKinds, UNCHANGED job,
           streamOpen' => streamOpen
    PROVE  /\ toEngine' \in Seq(Messages) /\ ChainInv'
           /\ (IsOpened' <=> IsOpened) /\ (LossDue <=> LossDue' \/ m.kind = "lost")
<1>1. toEngine \in Seq(Messages) /\ ChainInv
  BY DEF IInv, TypeOK, StreamTypeOK, Messages
<1>2. /\ toEngine' \in Seq(Messages)
      /\ Len(toEngine) \in Nat /\ Len(toEngine) >= 1
      /\ Len(toEngine') = Len(toEngine) - 1
      /\ \A i \in 1..Len(toEngine') : toEngine'[i] = toEngine[i + 1]
      /\ AnswersIn' = {i \in 1..Len(toEngine') : i + 1 \in AnswersIn}
      /\ IsOpened <=> IsOpened' \/ m.kind = "opened"
      /\ LossDue <=> LossDue' \/ m.kind = "lost"
  BY <1>1, MessageDelivered
<1>3. \A i \in AnswersIn' : i + 1 \in AnswersIn /\ toEngine'[i] = toEngine[i + 1] /\ i \in Nat
  BY <1>2
<1>4. \A x, y \in AnswersIn' : x = y
  BY <1>1, <1>3 DEF ChainInv, AtMostOne
<1>5. ChainInv'
  <2>1. /\ job.kind = "none" => job = NoJob
        /\ job.kind # "none" => ~streamOpen' /\ job.at # "none"
        /\ job.kind = "start" => job.life \in Lives
    BY <1>1 DEF ChainInv
  <2>2. \A i \in AnswersIn' :
          /\ job.at = "answered"
          /\ IF toEngine'[i].kind = "stopped" THEN job.kind = "stop"
             ELSE JobOf(toEngine'[i].life)
    BY <1>1, <1>3 DEF ChainInv
  <2> QED
    BY <1>4, <2>1, <2>2 DEF ChainInv, AtMostOne, JobOf
<1>6. m.kind # "opened"
  BY DEF AnswerKinds
<1> QED
  BY <1>2, <1>5, <1>6

LEMMA EntryKeeps ==
    ASSUME IInv, NEW e \in Entries, Delivers([kind |-> "entry", entry |-> e]),
           NoteActivity(e), UNCHANGED <<streamOpen, job, nativeVars>>
    PROVE  IInv'
<1> DEFINE m == [kind |-> "entry", entry |-> e]
<1>1. Delivers(m) /\ m.kind = "entry"
  OBVIOUS
<1> HIDE DEF m
<1>2. UNCHANGED <<running, life, failures, opening, retry, refreshed, journal, toClient,
                  streamOpen, job, subscription, pumps, opened, breaks>>
  BY DEF NoteActivity, nativeVars
<1>3. cursor' \in Entries \cup {0} /\ preimages' \subseteq Entries /\ debounce' \in BOOLEAN
  BY DEF NoteActivity, IInv, TypeOK, StreamTypeOK
<1>4. /\ toEngine' \in Seq(Messages) /\ ChainInv'
      /\ (IsOpened' <=> IsOpened) /\ (LossDue' <=> LossDue)
  BY <1>1, <1>2, EventDelivered DEF AnswerKinds
<1>5. TypeOK'
  BY <1>2, <1>3, <1>4 DEF IInv, TypeOK, StreamTypeOK, Messages
<1>6. ASSUME breaks' = 0 PROVE BeliefInv'
  BY <1>2, <1>4, <1>6 DEF IInv, BeliefInv
<1> QED
  BY <1>2, <1>4, <1>5, <1>6, Views DEF IInv

LEMMA LostKeeps ==
    ASSUME IInv, Delivers([kind |-> "lost"]), streamOpen' = FALSE,
           NoteStreamLost, UNCHANGED <<job, nativeVars>>
    PROVE  IInv'
<1> USE Bounds
<1> DEFINE m == [kind |-> "lost"]
<1>1. Delivers(m) /\ m.kind = "lost"
  OBVIOUS
<1> HIDE DEF m
<1>2. /\ IF running THEN refreshed' = journal /\ retry' = life ELSE UNCHANGED <<refreshed, retry>>
      /\ UNCHANGED <<running, life, cursor, preimages, failures, opening, debounce, journal,
                     toClient, job, subscription, pumps, opened, breaks>>
  BY DEF NoteStreamLost, nativeVars
<1>3. TypeOK /\ CounterInv /\ QueueInv
  BY DEF IInv
<1>4. toEngine' \in Seq(Messages) /\ ChainInv' /\ LossDue
  BY <1>1, EventDelivered DEF AnswerKinds
<1>5. running => life \in Lives
  BY <1>3 DEF TypeOK, StreamTypeOK, CounterInv, Lives, NoLife
<1>6. TypeOK'
  BY <1>2, <1>3, <1>4, <1>5 DEF TypeOK, StreamTypeOK, Messages
<1>7. breaks' # 0
  BY <1>2, <1>4 DEF IInv, BeliefInv
<1>8. ClosedIsRetried'
  BY <1>2 DEF ClosedIsRetried
<1>9. QueueInv'
  <2>1. /\ StopsQueued' = StopsQueued /\ CallsOf(life)' = CallsOf(life)
        /\ \A l : CallsOf(l)' = CallsOf(l) /\ (JobOf(l)' <=> JobOf(l))
                  /\ (Current(l)' <=> Current(l))
    BY <1>2 DEF StopsQueued, CallsOf, JobOf, Current
  <2> QED
    BY <1>2, <1>3, <2>1 DEF QueueInv
<1>10. CallInv' /\ CounterInv' /\ PumpInv' /\ AttachedLives'
  BY <1>2, Views DEF IInv
<1> QED
  BY <1>4, <1>6, <1>7, <1>8, <1>9, <1>10 DEF IInv

-----------------------------------------------------------------------------
(* The invariant.                                                          *)

LEMMA InitHolds == Init => IInv
<1> SUFFICES ASSUME Init PROVE IInv
  OBVIOUS
<1> USE Bounds
<1>1. /\ toClient = <<>> /\ toEngine = <<>> /\ streamOpen = FALSE /\ job = NoJob
      /\ subscription = 0 /\ pumps = {} /\ opened = 0 /\ breaks = 0
      /\ running = FALSE /\ life = 0 /\ cursor = 0 /\ preimages = {} /\ failures = 0
      /\ opening = NoLife /\ retry = NoLife /\ debounce = FALSE /\ refreshed = 0 /\ journal = 0
  BY DEF Init, StreamInit, NoPump
<1>2. TypeOK
  <2>1. job \in Jobs
    BY <1>1 DEF NoJob, Jobs, NoLife
  <2>2. toClient \in Seq(Calls) /\ toEngine \in Seq(Answers \cup Events)
    BY <1>1
  <2>3. running \in BOOLEAN /\ debounce \in BOOLEAN /\ streamOpen \in BOOLEAN
    BY <1>1
  <2>4. /\ 0 \in 0..MaxLives /\ 0 \in 0..FailureLimit /\ 0 \in 0..MaxEntries
        /\ 0 \in 0..MaxPumps /\ 0 \in 0..MaxBreaks
    OBVIOUS
  <2>5. StreamTypeOK
    BY <1>1, <2>2, <2>3, <2>4 DEF StreamTypeOK
  <2> QED
    BY <1>1, <2>1, <2>3, <2>4, <2>5 DEF TypeOK
<1>3. /\ AnswersIn = {} /\ StopsQueued = {} /\ ~IsOpened /\ ~LossDue
      /\ (\A l : CallsOf(l) = {} /\ ~JobOf(l))
  BY <1>1 DEF AnswersIn, StopsQueued, IsOpened, LossDue, CallsOf, JobOf, NoJob
<1>4. ChainInv /\ CallInv
  BY <1>1, <1>3 DEF ChainInv, CallInv, AtMostOne, NoJob
<1>5. CounterInv /\ QueueInv /\ PumpInv /\ AttachedLives /\ ClosedIsRetried
  BY <1>1, <1>3 DEF CounterInv, QueueInv, PumpInv, AttachedLives, ClosedIsRetried, NoLife, NoPump
<1>6. BeliefInv
  BY <1>1, <1>3 DEF BeliefInv, NoPump, NoJob
<1> QED
  BY <1>2, <1>4, <1>5, <1>6 DEF IInv

LEMMA ReceiveKeeps ==
    ASSUME IInv, Receive, UNCHANGED nativeVars
    PROVE  IInv'
<1>1. CASE \E l \in Lives :
             /\ Delivers([kind |-> "opened", life |-> l])
             /\ streamOpen' = TRUE
             /\ OpenResolves(l)
             /\ JobEnds
  BY <1>1, OpenedKeeps
<1>2. CASE \E l \in Lives :
             /\ Delivers([kind |-> "refused", life |-> l])
             /\ OpenRejects(l)
             /\ job' = NoJob
             /\ UNCHANGED streamOpen
  BY <1>2, RefusedKeeps
<1>3. CASE /\ Delivers([kind |-> "stopped"])
           /\ JobEnds
           /\ UNCHANGED <<streamVars, journal, streamOpen>>
  BY <1>3, StoppedKeeps
<1>4. CASE \E e \in Entries :
             /\ Delivers([kind |-> "entry", entry |-> e])
             /\ NoteActivity(e)
             /\ UNCHANGED <<streamOpen, job>>
  BY <1>4, EntryKeeps
<1>5. CASE /\ Delivers([kind |-> "lost"])
           /\ streamOpen' = FALSE
           /\ NoteStreamLost
           /\ UNCHANGED job
  BY <1>5, LostKeeps
<1> QED
  BY <1>1, <1>2, <1>3, <1>4, <1>5 DEF Receive

LEMMA NextKeeps == IInv /\ [Next]_vars => IInv'
<1> SUFFICES ASSUME IInv, [Next]_vars PROVE IInv'
  OBVIOUS
<1>1. CASE Engine
  <2>1. CASE Receive
    BY <1>1, <2>1, ReceiveKeeps DEF Engine
  <2>2. CASE RetryFires /\ UNCHANGED <<streamOpen, job>>
    BY <1>1, <2>2, RetryKeeps DEF Engine
  <2>3. CASE DebounceFires /\ UNCHANGED <<streamOpen, job>>
    BY <1>1, <2>3, DebounceKeeps DEF Engine
  <2> QED
    BY <1>1, <2>1, <2>2, <2>3 DEF Engine
<1>2. CASE Client
  BY <1>2, BeginsStartKeeps, BeginsStopKeeps DEF Client
<1>3. CASE Native
  BY <1>3, NativeStartsKeeps, NativeRefusesKeeps, NativeStopsKeeps, NativeResolvesKeeps,
     PumpReadsKeeps, PumpSendsKeeps, PumpFailsKeeps, PumpReportsKeeps, PumpClosesKeeps
     DEF Native
<1>4. CASE (Start \/ Stop \/ Record) /\ UNCHANGED <<streamOpen, job, nativeVars>>
  BY <1>4, StartKeeps, StopKeeps, RecordKeeps
<1>5. CASE UNCHANGED vars
  <2>1. /\ UNCHANGED <<running, life, cursor, preimages, failures, opening, retry, debounce,
                       refreshed, journal, toClient, toEngine>>
        /\ UNCHANGED <<streamOpen, job, subscription, pumps, opened, breaks>>
    BY <1>5 DEF vars, streamVars, nativeVars
  <2>2. TypeOK'
    BY <2>1 DEF IInv, TypeOK, StreamTypeOK
  <2> QED
    BY <2>1, <2>2, Views DEF IInv
<1> QED
  BY <1>1, <1>2, <1>3, <1>4, <1>5 DEF Next

(* The inductive invariant holds in every reachable state.                 *)
THEOREM ActivityInvariance == Spec => []IInv
<1>1. Init => IInv
  BY InitHolds
<1>2. IInv /\ [Next]_vars => IInv'
  BY NextKeeps
<1> QED
  BY <1>1, <1>2, PTL DEF Spec

(* A host follows the stream, or leaves it alone.                          *)
LEMMA FollowsStream == NativeAppSpec => Spec
<1>1. NativeAppInit => Init
  BY DEF NativeAppInit
<1>2. [NativeAppNext]_nativeAppVars => [Next]_vars
  BY DEF NativeAppNext, nativeAppVars, FollowsActivity, FollowsWallets, FollowsPasskeys
<1> QED
  BY <1>1, <1>2, PTL DEF NativeAppSpec, Spec

(* Every field keeps its type, and one call of the native module runs at a *)
(* time.                                                                   *)
THEOREM ActivityTypeCorrect == NativeAppSpec => []TypeOK
<1>1. IInv => TypeOK
  BY DEF IInv
<1> QED
  BY <1>1, ActivityInvariance, FollowsStream, PTL

(* The native module never keeps a pump that is gone for an open stream:   *)
(* startActivity() after it would open nothing.                            *)
THEOREM PumpLives == NativeAppSpec => []AttachedLives
<1>1. IInv => AttachedLives
  BY DEF IInv
<1> QED
  BY <1>1, ActivityInvariance, FollowsStream, PTL

(* Whenever the client knows its stream closed, a running engine has a     *)
(* call or a retry under way.                                              *)
THEOREM ClosedRetries == NativeAppSpec => []ClosedIsRetried
<1>1. IInv => ClosedIsRetried
  BY DEF IInv
<1> QED
  BY <1>1, ActivityInvariance, FollowsStream, PTL

(* As long as no subscription ends by itself, the order of starts, stops   *)
(* and answers neither silences a running stream nor leaves a pump behind. *)
THEOREM CleanStops == NativeAppSpec => []StopsAreClean
<1>1. IInv => StopsAreClean
  <2> SUFFICES ASSUME IInv, breaks = 0 PROVE NeverSilent /\ StoppedIsClosed
    BY DEF StopsAreClean
  <2>1. BeliefInv
    BY DEF IInv
  <2>2. ASSUME running, streamOpen PROVE \E p \in pumps : Streaming(p)
    <3>1. PICK p \in pumps : Attached(p)
      BY <2>1, <2>2 DEF IInv, BeliefInv, AttachedLives
    <3> QED
      BY <2>1, <3>1 DEF BeliefInv, Streaming
  <2>3. NeverSilent
    BY <2>2 DEF NeverSilent, IInv, ClosedIsRetried
  <2>4. ASSUME ~running, job = NoJob, toClient = <<>>, toEngine = <<>>
        PROVE  \A p \in pumps : ~Streaming(p)
    <3>1. StopsQueued = {} /\ ~IsOpened
      BY <2>4 DEF StopsQueued, IsOpened
    <3>2. ~streamOpen
      BY <2>4, <3>1 DEF IInv, QueueInv
    <3>3. subscription = 0
      BY <2>1, <2>4, <3>1, <3>2 DEF BeliefInv, NoJob, NoPump
    <3>4. \A p \in pumps : p.id # 0
      BY Bounds DEF IInv, TypeOK, Pumps
    <3> QED
      BY <3>3, <3>4 DEF Streaming, Attached
  <2> QED
    BY <2>3, <2>4 DEF StoppedIsClosed
<1> QED
  BY <1>1, ActivityInvariance, FollowsStream, PTL

-----------------------------------------------------------------------------
(* The wallets and their registry                                          *)

FlowOps == {"none", "setup", "remove", "removeBack", "wipeAll", "back", "recover", "guess",
            "stamp", "unstamp", "create", "restore", "unlock"}
FlowPlaces == {"none", "check", "seed", "unmark", "read", "save", "root", "clear", "starting",
               "overtaken", "leaving", "stopping", "call", "called"}
NetworkChoices == Networks \cup {Nobody}
LoadPlaces == {"check", "seed", "unmark", "read", "loaded"}

(* What can be said of the identities U.                                   *)
EntriesOf(U) == [id : U, network : NetworkChoices, walletKind : {"none", "password"}]
LoadsOf(U) == [version : Nat, at : LoadPlaces, read : SUBSET EntriesOf(U)]
FlowsOf(U) == [op : FlowOps, at : FlowPlaces, entry : U \cup {Nobody}, network : NetworkChoices,
               mode : {"create", "restore"}, read : SUBSET EntriesOf(U), n : Nat]

ViewTypeOK ==
    /\ selection \in used \cup {Nobody}
    /\ guess \in NetworkChoices
    /\ onboarding \in {"create", "restore"}
    /\ runtime \in [entry : used \cup {Nobody}, network : NetworkChoices, open : BOOLEAN]

(* Fields keep their type, and every identity was taken.                   *)
WalletsTypeOK ==
    /\ written \in BOOLEAN /\ markers \in BOOLEAN /\ misread \subseteq {"hook", "change"}
    /\ acts \in Nat /\ faults \in Nat /\ refreshes \in Nat
    /\ used \subseteq WalletIds /\ Legacy \in used /\ doomed \subseteq used
    /\ stored \subseteq EntriesOf(used)
    /\ shown \in [there : BOOLEAN, list : SUBSET EntriesOf(used)]
    /\ loads \subseteq LoadsOf(used)
    /\ flows \subseteq FlowsOf(used)
    /\ succeeded \subseteq used \X NetworkChoices
    /\ ViewTypeOK

(* A flow between its decision to change the list and the write of it.     *)
Editing(f) == f.at \in {"check", "seed", "unmark", "read", "save"}
Edits == {"setup", "remove", "removeBack", "stamp", "unstamp"}

(* Only a wallet the user removed is on the way of its removal, and a      *)
(* setup has taken its identity.                                           *)
Entitled(f) ==
    /\ f.op \in {"remove", "removeBack"} => f.entry \in doomed
    /\ f.op = "setup" => f.entry \in used

FlowInv == \A f \in flows : (Editing(f) => f.op \in Edits) /\ Entitled(f)

(* Before the first list is there nothing else happens, and a version of   *)
(* the list is loaded once.                                                *)
LoadInv ==
    /\ ~shown.there => flows = {} /\ refreshes = 0 /\ enginePhase = "runtimeReady"
                       /\ runtime.entry = Nobody
    /\ \A r \in loads : r.version <= refreshes /\ (r.version = 0 => ~shown.there)
    /\ \A r, s \in loads : r.version = s.version => r = s

(* No change was made without the list that is stored.                     *)
Sound == "change" \notin misread

Unseeded == ~written /\ markers
HasLegacy(list) == \E x \in list : x.id = Legacy

(* As long as the old keys have not become a list no change has read one;  *)
(* and only the first load of the hook seeds one.                          *)
SeedInv ==
    /\ Unseeded =>
         /\ refreshes = 0
         /\ \A f \in flows : f.at \notin {"unmark", "read", "save"}
         /\ \A r \in loads : r.at # "unmark"
    /\ \A r \in loads : r.at \in {"seed", "unmark"} => r.version = 0

(* Afterwards the legacy wallet is in the list, and in those that will be  *)
(* written.                                                                *)
LegacyInv ==
    \/ Legacy \in doomed
    \/ Unseeded
    \/ HasLegacy(stored) /\ \A f \in flows : f.at = "save" => HasLegacy(f.read)

(* The list shown is that stored, or will be replaced.                     *)
FreshInv ==
    "hook" \notin misread =>
        /\ ~shown.there => \A r \in loads : r.at = "loaded" => r.read = stored
        /\ shown.there =>
             \/ \E f \in flows : Editing(f)
             \/ \E r \in loads : r.version = refreshes /\ (r.at = "loaded" => r.read = stored)
             \/ shown.list = stored /\ \A r \in loads : r.version # refreshes

RegistryInv ==
    /\ WalletsTypeOK
    /\ FlowInv
    /\ LoadInv
    /\ OthersSurvive
    /\ Sound => SeedInv /\ LegacyInv /\ FreshInv

-----------------------------------------------------------------------------
(* Steps that leave the list and its loads alone                           *)

LEMMA Grows ==
    ASSUME NEW U, NEW V, U \subseteq V
    PROVE  /\ EntriesOf(U) \subseteq EntriesOf(V)
           /\ LoadsOf(U) \subseteq LoadsOf(V)
           /\ FlowsOf(U) \subseteq FlowsOf(V)
<1>1. EntriesOf(U) \subseteq EntriesOf(V)
  BY DEF EntriesOf
<1>2. LoadsOf(U) \subseteq LoadsOf(V)
  BY <1>1 DEF LoadsOf
<1>3. FlowsOf(U) \subseteq FlowsOf(V)
  BY <1>1 DEF FlowsOf
<1> QED
  BY <1>1, <1>2, <1>3

(* A flow that such a step adds, or moves on.                              *)
Newcomer(f) ==
    /\ f \in FlowsOf(used')
    /\ f.at \notin {"seed", "unmark", "read", "save"}
    /\ f.at = "check" => f.op \in Edits
    /\ Entitled(f)'

Quiet ==
    /\ shown.there
    /\ UNCHANGED <<written, stored, markers, shown, refreshes, loads, misread>>
    /\ used \subseteq used' /\ used' \subseteq WalletIds
    /\ doomed \subseteq doomed' /\ doomed' \subseteq used'
    /\ acts' \in Nat /\ faults' \in Nat /\ faults <= faults'
    /\ \A f \in flows : Editing(f) => f \in flows'
    /\ \A f \in flows' : f \in flows \/ Newcomer(f)
    /\ succeeded' \subseteq used' \X NetworkChoices
    /\ ViewTypeOK'

LEMMA QuietStep ==
    ASSUME RegistryInv, Quiet, OthersSurvive'
    PROVE  RegistryInv'
<1>1. WalletsTypeOK'
  <2>1. /\ EntriesOf(used) \subseteq EntriesOf(used)'
        /\ LoadsOf(used) \subseteq LoadsOf(used)'
        /\ FlowsOf(used) \subseteq FlowsOf(used)'
    <3>1. used \subseteq used'
      BY DEF Quiet
    <3>2. /\ EntriesOf(used) \subseteq EntriesOf(used')
          /\ LoadsOf(used) \subseteq LoadsOf(used')
          /\ FlowsOf(used) \subseteq FlowsOf(used')
      BY <3>1, Grows
    <3> QED
      BY <3>2 DEF EntriesOf, LoadsOf, FlowsOf
  <2>2. flows' \subseteq FlowsOf(used)'
    BY <2>1 DEF Quiet, Newcomer, RegistryInv, WalletsTypeOK, FlowsOf, EntriesOf
  <2>3. /\ stored' \subseteq EntriesOf(used)' /\ loads' \subseteq LoadsOf(used)'
        /\ shown' \in [there : BOOLEAN, list : SUBSET EntriesOf(used)']
    <3>1. stored' = stored /\ loads' = loads /\ shown' = shown
      BY DEF Quiet
    <3>2. /\ stored \subseteq EntriesOf(used) /\ loads \subseteq LoadsOf(used)
          /\ shown \in [there : BOOLEAN, list : SUBSET EntriesOf(used)]
      BY DEF RegistryInv, WalletsTypeOK
    <3> QED
      BY <2>1, <3>1, <3>2
  <2> QED
    BY <2>2, <2>3 DEF Quiet, RegistryInv, WalletsTypeOK
<1>2. FlowInv'
  <2> SUFFICES ASSUME NEW f \in flows' PROVE (Editing(f) => f.op \in Edits) /\ Entitled(f)'
    BY DEF FlowInv, Editing
  <2>1. CASE f \in flows
    BY <2>1 DEF RegistryInv, FlowInv, Quiet, Entitled
  <2>2. CASE Newcomer(f)
    BY <2>2 DEF Newcomer, Editing
  <2> QED
    BY <2>1, <2>2 DEF Quiet
<1>3. LoadInv'
  BY DEF Quiet, RegistryInv, LoadInv
<1>4. ASSUME Sound' PROVE SeedInv' /\ LegacyInv' /\ FreshInv'
  <2>1. Sound
    BY <1>4 DEF Sound, Quiet
  <2>3. \A f \in flows' : f \notin flows => f.at \notin {"unmark", "read", "save"}
    BY DEF Quiet, Newcomer
  <2>4. SeedInv'
    BY <2>1, <2>3 DEF Quiet, RegistryInv, SeedInv, Unseeded
  <2>5. LegacyInv'
    BY <2>1, <2>3 DEF Quiet, RegistryInv, LegacyInv, Unseeded, HasLegacy
  <2>6. FreshInv'
    BY <2>1 DEF Quiet, RegistryInv, FreshInv, Editing
  <2> QED
    BY <2>4, <2>5, <2>6
<1> QED
  BY <1>1, <1>2, <1>3, <1>4 DEF RegistryInv

LEMMA LoadingFirst ==
    ASSUME LoadInv, ~shown.there
    PROVE  flows = {} /\ NativeScreen = "loading"
  BY DEF LoadInv, NativeScreen, PreStart

(* What openWallet does to the flows and the view.                         *)
LEMMA OpensInEffect ==
    ASSUME WalletsTypeOK, NEW f \in FlowsOf(used), NEW entry, NEW override \in NetworkChoices, NEW p,
           entry.id \in used \cup {Nobody}, entry.network \in NetworkChoices,
           OpensIn(f, entry, override, p)
    PROVE  /\ selection' \in used \cup {Nobody} /\ guess' \in NetworkChoices
           /\ onboarding' \in {"create", "restore"}
           /\ \/ flows' = flows \ {f}
              \/ \E g \in FlowsOf(used) :
                   /\ flows' = (flows \ {f}) \cup {g}
                   /\ g.at = "starting" /\ g.op = f.op /\ g.entry = entry.id
<1> DEFINE network == IF override # Nobody THEN override ELSE entry.network
           g == [f EXCEPT !.at = "starting", !.entry = entry.id, !.network = network]
<1>1. flows' = flows \ {f} \/ flows' = (flows \ {f}) \cup {g}
  BY DEF OpensIn
<1>2. g \in FlowsOf(used) /\ g.at = "starting" /\ g.op = f.op /\ g.entry = entry.id
  <2>1. network \in NetworkChoices
    OBVIOUS
  <2> HIDE DEF network
  <2> QED
    BY <2>1 DEF FlowsOf, FlowPlaces
<1> HIDE DEF g
<1>3. f.mode \in {"create", "restore"}
  BY DEF FlowsOf
<1>4. /\ selection' \in used \cup {Nobody} /\ guess' \in NetworkChoices
      /\ onboarding' \in {"create", "restore"}
  BY <1>3 DEF OpensIn, WalletsTypeOK, ViewTypeOK
<1> QED
  BY <1>1, <1>2, <1>4

(* What stop() does to the flows.                                          *)
LEMMA StopsInEffect ==
    ASSUME NEW U, NEW f, NEW others \in SUBSET FlowsOf(U), StopsIn(f, others)
    PROVE  /\ f \in flows'
           /\ \A g \in others : Editing(g) => g \in flows'
           /\ \A g \in flows' : \/ g = f \/ g \in others
                                \/ /\ g \in FlowsOf(U) /\ g.at = "overtaken"
                                   /\ \E h \in others : g.op = h.op /\ g.entry = h.entry
<1>1. ASSUME NEW g \in others
      PROVE  LET h == [g EXCEPT !.at = "overtaken"] IN
               h \in FlowsOf(U) /\ h.at = "overtaken" /\ h.op = g.op /\ h.entry = g.entry
  BY DEF FlowsOf, FlowPlaces
<1>2. \A g \in others : Editing(g) => g.at # "starting"
  BY DEF Editing
<1>3. flows' = {f} \cup
        {IF g.at = "starting" THEN [g EXCEPT !.at = "overtaken"] ELSE g : g \in others}
  BY DEF StopsIn
<1>4. \A g \in others : Editing(g) => g \in flows'
  BY <1>2, <1>3
<1>5. ASSUME NEW g \in flows', g # f, g \notin others
      PROVE  /\ g \in FlowsOf(U) /\ g.at = "overtaken"
             /\ \E h \in others : g.op = h.op /\ g.entry = h.entry
  <2>1. PICK h \in others : g = [h EXCEPT !.at = "overtaken"]
    BY <1>3, <1>5
  <2> QED
    BY <1>1, <2>1
<1> QED
  BY <1>3, <1>4, <1>5

(* A step of a quiet kind leaves OthersSurvive alone unless it deletes or  *)
(* opens.                                                                  *)
LEMMA OthersKept ==
    ASSUME OthersSurvive, UNCHANGED <<directories, succeeded>>, doomed \subseteq doomed'
    PROVE  OthersSurvive'
  BY DEF OthersSurvive

Mild == Quiet /\ OthersSurvive'

(* A flow that ends, or moves on, without a change of the list.            *)
LEMMA MildFlow ==
    ASSUME RegistryInv, NEW f \in flows, ~Editing(f),
           flows' = flows \ {f} \/ \E g : flows' = (flows \ {f}) \cup {g} /\ Newcomer(g),
           UNCHANGED <<storage, registryHook, used, doomed, misread>>,
           acts' = acts, faults' = faults \/ faults' = faults + 1,
           succeeded' \subseteq used \X NetworkChoices,
           ViewTypeOK', OthersSurvive'
    PROVE  Mild
<1>1. shown.there
  BY DEF RegistryInv, LoadInv
<1>2. faults' \in Nat /\ faults <= faults'
  BY DEF RegistryInv, WalletsTypeOK
<1> QED
  BY <1>1, <1>2 DEF Mild, Quiet, RegistryInv, WalletsTypeOK, storage, registryHook

LEMMA ViewKept ==
    ASSUME ViewTypeOK, used \subseteq used', UNCHANGED <<selection, guess, onboarding, runtime>>
    PROVE  ViewTypeOK'
  BY DEF ViewTypeOK

LEMMA MildStart ==
    ASSUME RegistryInv, NEW f \in flows, StartLandsIn(f) \/ StartFailsIn(f)
    PROVE  Mild
<1>1. f \in FlowsOf(used) /\ ~Editing(f) /\ ViewTypeOK
  BY DEF StartLandsIn, StartFailsIn, Editing, RegistryInv, WalletsTypeOK
<1>2. ViewTypeOK'
  <2>1. f.entry \in used \cup {Nobody} /\ f.network \in NetworkChoices
    BY <1>1 DEF FlowsOf
  <2>2. runtime' \in [entry : used \cup {Nobody}, network : NetworkChoices, open : BOOLEAN]
    <3>1. CASE StartLandsIn(f)
      <4>1. runtime' = IF runtime.entry # Nobody THEN runtime
                       ELSE [entry |-> f.entry, network |-> f.network, open |-> FALSE]
        BY <3>1 DEF StartLandsIn
      <4> QED
        BY <1>1, <2>1, <4>1 DEF ViewTypeOK
    <3>2. CASE StartFailsIn(f)
      BY <3>2 DEF StartFailsIn, Stopped, NetworkChoices
    <3> QED
      BY <3>1, <3>2
  <2>3. UNCHANGED <<selection, guess, onboarding, used>>
    BY DEF StartLandsIn, StartFailsIn, appView, past
  <2> QED
    BY <1>1, <2>2, <2>3 DEF ViewTypeOK
<1>3. OthersSurvive'
  BY OthersKept DEF StartLandsIn, StartFailsIn, past, RegistryInv
<1> QED
  BY <1>1, <1>2, <1>3, MildFlow
     DEF StartLandsIn, StartFailsIn, Leaves, bounds, past, RegistryInv, WalletsTypeOK

(* What the list says of an identity is of its type.                       *)
LEMMA ShownTyped ==
    ASSUME WalletsTypeOK, NEW x \in shown.list
    PROVE  x.id \in used /\ x.network \in NetworkChoices
  BY DEF WalletsTypeOK, EntriesOf

LEMMA MildStop ==
    ASSUME RegistryInv, NEW f \in flows, StopLandsIn(f) \/ StopFailsIn(f)
    PROVE  Mild
<1>1. /\ f \in FlowsOf(used) /\ ViewTypeOK /\ WalletsTypeOK /\ Entitled(f)
      /\ UNCHANGED <<storage, registryHook, acts, faults, used, doomed, misread, succeeded,
                     directories>>
  BY DEF StopLandsIn, StopFailsIn, RegistryInv, WalletsTypeOK, FlowInv, bounds, past
<1>2. PICK p : GoesOnAfterStop(f, p)
  BY DEF StopLandsIn, StopFailsIn
<1>3. ~Editing(f)
  BY <1>2 DEF GoesOnAfterStop, Editing
<1>4. runtime' \in [entry : used \cup {Nobody}, network : NetworkChoices, open : BOOLEAN]
  <2>1. CASE StopLandsIn(f)
    BY <2>1 DEF StopLandsIn, Stopped, NetworkChoices
  <2>2. CASE StopFailsIn(f)
    BY <1>1, <2>2 DEF StopFailsIn, ViewTypeOK
  <2> QED
    BY <2>1, <2>2
<1>5. OthersSurvive'
  BY <1>1, OthersKept DEF RegistryInv
<1>6. succeeded' \subseteq used \X NetworkChoices
  BY <1>1 DEF WalletsTypeOK
<1>7. CASE f.at = "leaving"
  <2>1. ViewTypeOK'
    BY <1>1, <1>2, <1>4, <1>7 DEF GoesOnAfterStop, Resets, ViewTypeOK, NetworkChoices
  <2> QED
    BY <1>1, <1>2, <1>3, <1>5, <1>6, <1>7, <2>1, MildFlow DEF GoesOnAfterStop, Leaves
<1>8. CASE f.at = "stopping" /\ f.op # "guess"
  <2>1. ViewTypeOK'
    BY <1>1, <1>2, <1>4, <1>8 DEF GoesOnAfterStop, appView, ViewTypeOK
  <2>2. Newcomer([f EXCEPT !.at = "root"])
    BY <1>1 DEF Newcomer, FlowsOf, FlowPlaces, Entitled, EntriesOf
  <2> QED
    BY <1>1, <1>2, <1>3, <1>5, <1>6, <1>8, <2>1, <2>2, MildFlow DEF GoesOnAfterStop, Proceeds
<1>9. CASE f.at = "stopping" /\ f.op = "guess"
  <2> DEFINE entry == Entry(f.entry, Nobody, "password")
  <2>1. /\ entry.id \in used \cup {Nobody} /\ entry.network \in NetworkChoices
        /\ f.network \in NetworkChoices /\ f.mode \in {"create", "restore"}
    BY <1>1 DEF Entry, FlowsOf, NetworkChoices
  <2>2. OpensIn(f, entry, f.network, p)
    BY <1>2, <1>9 DEF GoesOnAfterStop
  <2> HIDE DEF entry
  <2>3. /\ selection' \in used \cup {Nobody} /\ guess' \in NetworkChoices
        /\ onboarding' \in {"create", "restore"}
        /\ \/ flows' = flows \ {f}
           \/ \E g \in FlowsOf(used) :
                /\ flows' = (flows \ {f}) \cup {g}
                /\ g.at = "starting" /\ g.op = f.op /\ g.entry = entry.id
    BY <1>1, <2>1, <2>2, OpensInEffect
  <2>6. flows' = flows \ {f} \/ \E g : flows' = (flows \ {f}) \cup {g} /\ Newcomer(g)
    BY <1>1, <1>9, <2>3 DEF Newcomer, Entitled, FlowsOf, EntriesOf
  <2>7. ViewTypeOK'
    BY <1>1, <1>4, <2>3 DEF ViewTypeOK
  <2> QED
    BY <1>1, <1>3, <1>5, <1>6, <2>6, <2>7, MildFlow
<1> QED
  BY <1>2, <1>7, <1>8, <1>9 DEF GoesOnAfterStop

LEMMA MildRoot ==
    ASSUME RegistryInv, NEW f \in flows,
           SetupIsPlaced(f) \/ RootFails(f) \/ ClearFails(f) \/ CallIsRejected(f)
    PROVE  Mild
<1>1. /\ f \in FlowsOf(used) /\ ViewTypeOK /\ WalletsTypeOK /\ Entitled(f) /\ ~Editing(f)
      /\ UNCHANGED <<storage, registryHook, acts, used, doomed, misread, succeeded,
                     directories, appView, runtime>>
  BY DEF SetupIsPlaced, RootFails, ClearFails, CallIsRejected, RegistryInv, WalletsTypeOK, FlowInv,
         bounds, past, Editing, engine
<1>2. ViewTypeOK' /\ OthersSurvive' /\ succeeded' \subseteq used \X NetworkChoices
  BY <1>1, ViewKept, OthersKept DEF RegistryInv, appView, WalletsTypeOK
<1>3. faults' = faults \/ faults' = faults + 1
  BY DEF SetupIsPlaced, RootFails, ClearFails, CallIsRejected, Fault, bounds
<1>4. f.op = "setup" => Newcomer([f EXCEPT !.at = "check"])
  BY <1>1 DEF Newcomer, FlowsOf, FlowPlaces, Entitled, EntriesOf, Edits
<1>5. flows' = flows \ {f} \/ \E g : flows' = (flows \ {f}) \cup {g} /\ Newcomer(g)
  BY <1>4 DEF SetupIsPlaced, RootFails, ClearFails, CallIsRejected, Leaves, Proceeds
<1> QED
  BY <1>1, <1>2, <1>3, <1>5, MildFlow

(* Deletions take what the user has removed.                               *)
LEMMA MildDelete ==
    ASSUME RegistryInv, NEW f \in flows, Deletes(f)
    PROVE  Mild
<1>1. /\ f \in FlowsOf(used) /\ ViewTypeOK /\ WalletsTypeOK /\ Entitled(f) /\ ~Editing(f)
      /\ doomed \subseteq used
      /\ UNCHANGED <<storage, registryHook, acts, faults, used, misread, succeeded, selection,
                     guess, onboarding, runtime>>
  BY DEF Deletes, RegistryInv, WalletsTypeOK, FlowInv, bounds, Editing, engine, appView
<1>2. ViewTypeOK' /\ succeeded' \subseteq used \X NetworkChoices
  BY <1>1, ViewKept DEF WalletsTypeOK
<1>3. doomed \subseteq doomed' /\ doomed' \subseteq used
  BY <1>1 DEF Deletes, Wipes, WipesAll, WipeFails
<1>4. OthersSurvive'
  <2> SUFFICES ASSUME NEW d \in succeeded, d[1] \notin doomed' PROVE d \in directories'
    BY <1>1 DEF OthersSurvive
  <2>1. d \in directories /\ d[1] \in used
    BY <1>1, <1>3 DEF RegistryInv, OthersSurvive, WalletsTypeOK
  <2>2. CASE Wipes(f)
    BY <1>1, <1>3, <2>1, <2>2 DEF Wipes, Below, Entitled
  <2>3. CASE WipesAll(f)
    BY <1>1, <2>1, <2>3 DEF WipesAll
  <2>4. CASE WipeFails(f)
    BY <2>1, <2>4 DEF WipeFails
  <2> QED
    BY <2>2, <2>3, <2>4 DEF Deletes
<1>5. PICK at \in {"check", "clear"} :
        /\ Proceeds(f, at)
        /\ at = "check" => f.op \in {"remove", "removeBack"}
  BY DEF Deletes, Wipes, WipesAll, WipeFails
<1>6. Newcomer([f EXCEPT !.at = at])
  BY <1>1, <1>3, <1>5 DEF Newcomer, FlowsOf, FlowPlaces, Entitled, EntriesOf, Edits
<1>7. shown.there
  BY DEF RegistryInv, LoadInv
<1> QED
  BY <1>1, <1>2, <1>3, <1>4, <1>5, <1>6, <1>7
     DEF Mild, Quiet, Proceeds, RegistryInv, WalletsTypeOK, storage, registryHook

-----------------------------------------------------------------------------
(* The user and the wallet calls                                           *)

(* What the user does adds a flow at most.                                 *)
LEMMA MildUser ==
    ASSUME RegistryInv, NativeScreen # "loading",
           UNCHANGED <<storage, registryHook, directories, runtime, faults, misread, succeeded>>,
           acts' \in {acts, acts + 1},
           used \subseteq used', used' \subseteq WalletIds,
           doomed \subseteq doomed', doomed' \subseteq used',
           selection' \in used' \cup {Nobody}, guess' \in NetworkChoices,
           onboarding' \in {"create", "restore"},
           \/ flows' = flows
           \/ \E g : Newcomer(g) /\ (flows' = flows \cup {g} \/ StopsIn(g, flows))
           \/ \E h : /\ ~Editing(h)
                    /\ \/ flows' = flows \ {h}
                       \/ \E g : Newcomer(g) /\ flows' = (flows \ {h}) \cup {g}
    PROVE  Mild
<1>1. shown.there
  BY LoadingFirst DEF RegistryInv
<1>2. /\ flows \subseteq FlowsOf(used) /\ acts' \in Nat
      /\ succeeded' \subseteq used' \X NetworkChoices /\ faults' \in Nat /\ faults <= faults'
  BY DEF RegistryInv, WalletsTypeOK
<1>3. ViewTypeOK'
  BY DEF RegistryInv, WalletsTypeOK, ViewTypeOK
<1>4. OthersSurvive'
  BY OthersKept DEF RegistryInv
<1>5. /\ \A f \in flows : Editing(f) => f \in flows'
      /\ \A f \in flows' : f \in flows \/ Newcomer(f)
  <2>1. CASE flows' = flows
    BY <2>1
  <2>2. ASSUME NEW g, Newcomer(g), flows' = flows \cup {g}
        PROVE  <1>5!1 /\ <1>5!2
    BY <2>2
  <2>3. ASSUME NEW g, Newcomer(g), StopsIn(g, flows)
        PROVE  <1>5!1 /\ <1>5!2
    <3>1. /\ \A h \in flows : Editing(h) => h \in flows'
          /\ \A f \in flows' : \/ f = g \/ f \in flows
                               \/ /\ f \in FlowsOf(used) /\ f.at = "overtaken"
                                  /\ \E h \in flows : f.op = h.op /\ f.entry = h.entry
      <4>1. flows \in SUBSET FlowsOf(used)
        BY <1>2
      <4> QED
        BY <2>3, <4>1, StopsInEffect
    <3>2. FlowsOf(used) \subseteq FlowsOf(used')
      BY Grows
    <3>3. ASSUME NEW f \in FlowsOf(used), f.at = "overtaken", NEW h \in flows, f.op = h.op,
                 f.entry = h.entry
          PROVE  Newcomer(f)
      BY <3>2, <3>3 DEF Newcomer, RegistryInv, FlowInv, Entitled
    <3> QED
      BY <2>3, <3>1, <3>3
  <2>4. ASSUME NEW h, ~Editing(h),
               \/ flows' = flows \ {h}
               \/ \E g : Newcomer(g) /\ flows' = (flows \ {h}) \cup {g}
        PROVE  <1>5!1 /\ <1>5!2
    BY <2>4
  <2> QED
    BY <2>1, <2>2, <2>3, <2>4
<1> QED
  BY <1>1, <1>2, <1>3, <1>4, <1>5 DEF Mild, Quiet, storage, registryHook

(* A flow of the user's is new, and none that changes the list yet, but    *)
(* for a stamp that is taken back.                                         *)
LEMMA FlowTyped ==
    ASSUME NEW U
    PROVE  Flow \in FlowsOf(U) /\ Flow.op = "none" /\ Flow.entry = Nobody
  BY DEF Flow, FlowsOf, FlowOps, FlowPlaces, NetworkChoices

LEMMA FlowIsNew ==
    ASSUME WalletsTypeOK, used \subseteq used', NEW f \in FlowsOf(used'),
           f.at \notin {"seed", "unmark", "read", "save"}, f.at = "check" => f.op \in Edits,
           f.op \in {"remove", "removeBack"} => f.entry \in doomed',
           f.op = "setup" => f.entry \in used'
    PROVE  Newcomer([f EXCEPT !.n = acts])
  BY DEF Newcomer, FlowsOf, Entitled, WalletsTypeOK

LEMMA MildTap ==
    ASSUME RegistryInv, NativeScreen # "loading", NEW entry \in shown.list,
           NEW override \in NetworkChoices, NEW how \in {"create", "restore"},
           TapsOpen(entry, override, how)
    PROVE  Mild
<1> DEFINE f == [Flow EXCEPT !.mode = how, !.n = acts]
<1>1. /\ WalletsTypeOK /\ entry.id \in used /\ entry.network \in NetworkChoices
      /\ doomed \subseteq used /\ used \subseteq WalletIds /\ acts \in Nat
      /\ UNCHANGED <<storage, registryHook, directories, runtime, faults, misread, succeeded, used,
                     doomed>>
  BY ShownTyped DEF RegistryInv, WalletsTypeOK, TapsOpen, past
<1>2. f \in FlowsOf(used) /\ f.op = "none"
  BY <1>1 DEF Flow, FlowsOf, FlowOps, FlowPlaces, NetworkChoices
<1>3. OpensIn(f, entry, override, enginePhase) /\ acts' = acts + 1
  BY DEF TapsOpen, Act
<1>4. ~Editing(f)
  BY DEF Editing, Flow
<1> HIDE DEF f
<1>5. /\ selection' \in used \cup {Nobody} /\ guess' \in NetworkChoices
      /\ onboarding' \in {"create", "restore"}
      /\ \/ flows' = flows \ {f}
         \/ \E g \in FlowsOf(used) :
              /\ flows' = (flows \ {f}) \cup {g}
              /\ g.at = "starting" /\ g.op = f.op /\ g.entry = entry.id
  BY <1>1, <1>2, <1>3, OpensInEffect
<1>6. \A g \in FlowsOf(used) : g.at = "starting" /\ g.op = f.op => Newcomer(g)
  BY <1>1, <1>2 DEF Newcomer, Entitled, FlowsOf, EntriesOf
<1> QED
  BY <1>1, <1>3, <1>4, <1>5, <1>6, MildUser

LEMMA MildBegins ==
    ASSUME RegistryInv, NativeScreen # "loading", NEW f, Begins(f), Newcomer([f EXCEPT !.n = acts]),
           used \subseteq used', used' \subseteq WalletIds,
           doomed \subseteq doomed', doomed' \subseteq used',
           UNCHANGED <<selection, guess>>, onboarding' \in {onboarding, "restore"}
    PROVE  Mild
<1>1. /\ UNCHANGED <<storage, registryHook, directories, runtime, faults, misread, succeeded>>
      /\ acts' = acts + 1
      /\ selection' \in used' \cup {Nobody} /\ guess' \in NetworkChoices
      /\ onboarding' \in {"create", "restore"}
      /\ flows' = flows \cup {[f EXCEPT !.n = acts]}
  BY DEF Begins, Act, engine, RegistryInv, WalletsTypeOK, ViewTypeOK
<1> QED
  BY <1>1, MildUser

LEMMA MildBeginsWithStop ==
    ASSUME RegistryInv, NativeScreen # "loading", NEW f, BeginsWithStop(f),
           Newcomer([f EXCEPT !.n = acts]), doomed \subseteq doomed', doomed' \subseteq used
    PROVE  Mild
<1>1. /\ UNCHANGED <<storage, registryHook, directories, runtime, faults, misread, succeeded, used>>
      /\ acts' = acts + 1 /\ used \subseteq WalletIds
      /\ selection' \in used' \cup {Nobody} /\ guess' \in NetworkChoices
      /\ onboarding' \in {"create", "restore"}
      /\ StopsIn([f EXCEPT !.n = acts], flows)
  BY DEF BeginsWithStop, Act, appView, RegistryInv, WalletsTypeOK, ViewTypeOK
<1> QED
  BY <1>1, MildUser

LEMMA MildTaps ==
    ASSUME RegistryInv, OpensListed \/ Retries \/ \E network \in Networks : Picks(network)
    PROVE  Mild
<1>1. guess \in NetworkChoices /\ onboarding \in {"create", "restore"} /\ Nobody \in NetworkChoices
  BY DEF RegistryInv, WalletsTypeOK, ViewTypeOK, NetworkChoices
<1>2. NativeScreen # "loading"
  BY DEF OpensListed, Retries, Picks
<1>3. PICK x \in shown.list, override \in NetworkChoices, how \in {"create", "restore"} :
        TapsOpen(x, override, how)
  BY <1>1 DEF OpensListed, Retries, Picks, Active, NetworkChoices
<1> QED
  BY <1>2, <1>3, MildTap

LEMMA MildLeaves ==
    ASSUME RegistryInv,
           \/ \E op \in {"back", "recover"} : LeavesWallet(op)
           \/ \E network \in Networks : GuessesElse(network)
    PROVE  Mild
<1>0. NativeScreen # "loading"
  BY ZenonT(30) DEF LeavesWallet, GuessesElse
<1>1. /\ WalletsTypeOK /\ selection \in used \cup {Nobody} /\ doomed \subseteq used
  BY DEF RegistryInv, WalletsTypeOK, ViewTypeOK
<1>2. CASE \E op \in {"back", "recover"} : LeavesWallet(op)
  <2>1. PICK op \in {"back", "recover"} : LeavesWallet(op)
    BY <1>2
  <2> DEFINE f == [Flow EXCEPT !.op = op, !.at = "leaving"]
  <2>2. BeginsWithStop(f) /\ doomed' = doomed
    BY <2>1, Zenon DEF LeavesWallet
  <2>3. used' = used
    BY <2>2 DEF BeginsWithStop
  <2>4. f \in FlowsOf(used') /\ f.op = op /\ f.at = "leaving"
    BY FlowTyped DEF FlowsOf, FlowOps, FlowPlaces
  <2> HIDE DEF f
  <2>5. Newcomer([f EXCEPT !.n = acts])
    BY <1>1, <2>2, <2>3, <2>4, FlowIsNew
  <2> QED
    BY <1>1, <1>0, <2>2, <2>5, MildBeginsWithStop
<1>3. CASE \E network \in Networks : GuessesElse(network)
  <2>1. PICK network \in Networks : GuessesElse(network)
    BY <1>3
  <2> DEFINE f == [Flow EXCEPT !.op = "guess", !.at = "stopping", !.entry = selection,
                               !.network = network]
  <2>2. BeginsWithStop(f) /\ doomed' = doomed
    BY <2>1, Zenon DEF GuessesElse
  <2>3. used' = used
    BY <2>2 DEF BeginsWithStop
  <2>4. f \in FlowsOf(used') /\ f.op = "guess" /\ f.at = "stopping"
    BY <1>1, <2>3, FlowTyped DEF FlowsOf, FlowOps, FlowPlaces, NetworkChoices
  <2> HIDE DEF f
  <2>5. Newcomer([f EXCEPT !.n = acts])
    BY <1>1, <2>2, <2>3, <2>4, FlowIsNew
  <2> QED
    BY <1>1, <1>0, <2>2, <2>5, MildBeginsWithStop
<1> QED
  BY <1>2, <1>3

LEMMA MildRemoves ==
    ASSUME RegistryInv, RemovesListed \/ RemovesActive \/ ClearsAll
    PROVE  Mild
<1>1. /\ WalletsTypeOK /\ selection \in used \cup {Nobody} /\ doomed \subseteq used
      /\ used \subseteq WalletIds
  BY DEF RegistryInv, WalletsTypeOK, ViewTypeOK
<1>0. NativeScreen # "loading"
  BY ZenonT(30) DEF RemovesListed, RemovesActive, ClearsAll
<1>2. CASE RemovesListed
  <2>1. PICK x \in shown.list :
          LET f == [Flow EXCEPT !.op = "remove", !.entry = x.id] IN
           /\ doomed' = doomed \cup {x.id}
           /\ IF x.id = selection THEN BeginsWithStop([f EXCEPT !.at = "stopping"])
              ELSE Begins([f EXCEPT !.at = "root"]) /\ UNCHANGED <<appView, used>>
    BY <1>2, Zenon DEF RemovesListed
  <2> DEFINE f == [Flow EXCEPT !.op = "remove", !.entry = x.id]
             s == [f EXCEPT !.at = "stopping"]
             r == [f EXCEPT !.at = "root"]
  <2>2. /\ x.id \in used
        /\ s \in FlowsOf(used) /\ s.op = "remove" /\ s.at = "stopping" /\ s.entry = x.id
        /\ r \in FlowsOf(used) /\ r.op = "remove" /\ r.at = "root" /\ r.entry = x.id
    BY <1>1, ShownTyped, FlowTyped DEF FlowsOf, FlowOps, FlowPlaces
  <2>3. /\ doomed' = doomed \cup {x.id}
        /\ BeginsWithStop(s) \/ (Begins(r) /\ UNCHANGED <<appView, used>>)
    BY <2>1, Zenon
  <2> HIDE DEF s, r
  <2>4. used' = used
    BY <2>3 DEF BeginsWithStop
  <2>5. Newcomer([s EXCEPT !.n = acts]) /\ Newcomer([r EXCEPT !.n = acts])
    BY <1>1, <2>2, <2>3, <2>4, FlowIsNew
  <2>6. CASE BeginsWithStop(s)
    BY <1>1, <2>2, <2>3, <2>5, <2>6, <1>0, MildBeginsWithStop
  <2>7. CASE Begins(r) /\ UNCHANGED <<appView, used>>
    <3>1. UNCHANGED <<selection, guess, onboarding, used>>
      BY <2>7 DEF appView
    <3> QED
      BY <1>0, <1>1, <2>2, <2>3, <2>5, <2>7, <3>1, MildBegins
  <2> QED
    BY <2>3, <2>6, <2>7
<1>3. CASE RemovesActive
  <2>1. PICK x \in shown.list :
           /\ doomed' = doomed \cup {x.id}
           /\ BeginsWithStop([Flow EXCEPT !.op = "removeBack", !.at = "stopping", !.entry = x.id])
    <3>1. PICK x \in Active :
           /\ doomed' = doomed \cup {x.id}
           /\ BeginsWithStop([Flow EXCEPT !.op = "removeBack", !.at = "stopping", !.entry = x.id])
      BY <1>3, Zenon DEF RemovesActive
    <3>2. x \in shown.list
      BY DEF Active
    <3> QED
      BY <3>1, <3>2, Zenon
  <2> DEFINE f == [Flow EXCEPT !.op = "removeBack", !.at = "stopping", !.entry = x.id]
  <2>2. /\ x.id \in used
        /\ f \in FlowsOf(used) /\ f.op = "removeBack" /\ f.at = "stopping" /\ f.entry = x.id
    BY <1>1, ShownTyped, FlowTyped DEF FlowsOf, FlowOps, FlowPlaces
  <2>3. BeginsWithStop(f)
    BY <2>1
  <2> HIDE DEF f
  <2>4. used' = used
    BY <2>3 DEF BeginsWithStop
  <2>5. Newcomer([f EXCEPT !.n = acts])
    BY <1>1, <2>1, <2>2, <2>4, FlowIsNew
  <2> QED
    BY <1>1, <2>1, <2>2, <2>3, <2>5, <1>0, MildBeginsWithStop
<1>4. CASE ClearsAll
  <2> DEFINE f == [Flow EXCEPT !.op = "wipeAll", !.at = "stopping"]
  <2>2. f \in FlowsOf(used) /\ f.op = "wipeAll" /\ f.at = "stopping"
    BY FlowTyped DEF FlowsOf, FlowOps, FlowPlaces
  <2>3. BeginsWithStop(f) /\ doomed' = used
    BY <1>4 DEF ClearsAll
  <2> HIDE DEF f
  <2>4. used' = used
    BY <2>3 DEF BeginsWithStop
  <2>5. Newcomer([f EXCEPT !.n = acts])
    BY <1>1, <2>2, <2>4, FlowIsNew
  <2> QED
    BY <1>1, <2>3, <2>5, <1>0, MildBeginsWithStop
<1> QED
  BY <1>2, <1>3, <1>4

LEMMA MildSetups ==
    ASSUME RegistryInv,
           \/ \E e \in WalletIds, network \in Networks : Submits(e, network)
           \/ SetsUpAnew
           \/ \E op \in {"create", "restore", "unlock"} : CallsRuntime(op)
    PROVE  Mild
<1>1. /\ WalletsTypeOK /\ selection \in used \cup {Nobody} /\ doomed \subseteq used
      /\ guess \in NetworkChoices /\ used \subseteq WalletIds
  BY DEF RegistryInv, WalletsTypeOK, ViewTypeOK
<1>2. NativeScreen # "loading"
  BY ZenonT(30) DEF Submits, SetsUpAnew, CallsRuntime
<1>3. CASE \E e \in WalletIds, network \in Networks : Submits(e, network)
  <2>1. PICK e \in WalletIds, network \in Networks : Submits(e, network)
    BY <1>3
  <2> DEFINE f == [Flow EXCEPT !.op = "setup", !.at = "root", !.entry = e, !.network = network,
                               !.mode = NativeScreen]
  <2>2. Begins(f) /\ used' = used \cup {e} /\ NativeScreen \in {"create", "restore"}
        /\ UNCHANGED <<appView, doomed>>
    BY <2>1, Zenon DEF Submits
  <2>3. f \in FlowsOf(used') /\ f.op = "setup" /\ f.at = "root" /\ f.entry = e
    BY <2>2, FlowTyped DEF FlowsOf, FlowOps, FlowPlaces, NetworkChoices
  <2> HIDE DEF f
  <2>4. Newcomer([f EXCEPT !.n = acts])
    BY <1>1, <2>2, <2>3, FlowIsNew
  <2> QED
    BY <1>1, <1>2, <2>2, <2>4, MildBegins DEF appView
<1>4. CASE SetsUpAnew
  <2> DEFINE f == [Flow EXCEPT !.op = "unstamp", !.at = "check", !.entry = selection]
  <2>2. Begins(f) /\ onboarding' = "restore" /\ UNCHANGED <<selection, guess, used, doomed>>
    BY <1>4 DEF SetsUpAnew
  <2>3. f \in FlowsOf(used') /\ f.op = "unstamp" /\ f.at = "check"
    BY <1>1, <2>2, FlowTyped DEF FlowsOf, FlowOps, FlowPlaces
  <2> HIDE DEF f
  <2>4. Newcomer([f EXCEPT !.n = acts])
    BY <1>1, <2>2, <2>3, FlowIsNew DEF Edits
  <2> QED
    BY <1>1, <1>2, <2>2, <2>4, MildBegins
<1>5. CASE \E op \in {"create", "restore", "unlock"} : CallsRuntime(op)
  <2>1. PICK op \in {"create", "restore", "unlock"} : CallsRuntime(op)
    BY <1>5
  <2> DEFINE f == [Flow EXCEPT !.op = op, !.at = "call", !.entry = selection, !.network = guess]
  <2>2. Begins(f) /\ UNCHANGED <<appView, used, doomed>>
    BY <2>1 DEF CallsRuntime
  <2>3. f \in FlowsOf(used') /\ f.op = op /\ f.at = "call"
    BY <1>1, <2>2, FlowTyped DEF FlowsOf, FlowOps, FlowPlaces
  <2> HIDE DEF f
  <2>4. Newcomer([f EXCEPT !.n = acts])
    BY <1>1, <2>2, <2>3, FlowIsNew
  <2> QED
    BY <1>1, <1>2, <2>2, <2>4, MildBegins DEF appView
<1> QED
  BY <1>3, <1>4, <1>5

LEMMA MildRenders ==
    ASSUME RegistryInv,
           \/ \E kind \in {"list", "create", "restore"} : ShowsSetup(kind)
           \/ Acknowledges
           \/ \E e \in {"walletBecameReady", "syncPollExhausted"} : SyncEndsIn(e)
    PROVE  Mild
<1>1. NativeScreen # "loading"
  BY DEF ShowsSetup, Acknowledges, SyncEndsIn, NativeScreen
<1>2. /\ UNCHANGED <<storage, registryHook, directories, runtime, faults, misread, succeeded, flows,
                     used, doomed, selection, guess, onboarding>>
      /\ acts' \in {acts, acts + 1}
  BY DEF ShowsSetup, Acknowledges, SyncEndsIn, Act, appView, engine, bounds, past
<1>3. used \subseteq WalletIds /\ doomed \subseteq used /\ ViewTypeOK
  BY DEF RegistryInv, WalletsTypeOK
<1> QED
  BY <1>1, <1>2, <1>3, MildUser DEF ViewTypeOK

LEMMA MildEnd ==
    ASSUME RegistryInv, RuntimeEnds
    PROVE  Mild
<1>1. shown.there
  BY DEF RegistryInv, LoadInv, RuntimeEnds
<1>2. /\ UNCHANGED <<storage, registryHook, directories, faults, misread, succeeded, flows,
                     used, doomed, selection, guess, onboarding>>
      /\ acts' = acts + 1 /\ runtime' = Stopped
  BY DEF RuntimeEnds, Act, appView, past
<1>3. ViewTypeOK'
  BY <1>2 DEF ViewTypeOK, RegistryInv, WalletsTypeOK, Stopped, NetworkChoices
<1>4. OthersSurvive'
  BY <1>2, OthersKept DEF RegistryInv
<1> QED
  BY <1>1, <1>2, <1>3, <1>4 DEF Mild, Quiet, storage, registryHook, RegistryInv, WalletsTypeOK

(* A wallet call, and its callback.                                        *)
LEMMA MildCall ==
    ASSUME RegistryInv, NEW f \in flows, RuntimeDoes(f) \/ CallReturns(f)
    PROVE  Mild
<1>1. /\ f \in FlowsOf(used) /\ ViewTypeOK /\ WalletsTypeOK /\ Entitled(f) /\ ~Editing(f)
      /\ UNCHANGED <<storage, registryHook, acts, faults, used, doomed, misread, selection,
                     onboarding>>
  BY DEF RuntimeDoes, CallReturns, RegistryInv, WalletsTypeOK, FlowInv, bounds, past, Editing, engine,
         appView
<1>2. CASE RuntimeDoes(f)
  <2> DEFINE place == <<runtime.entry, runtime.network>>
  <2>1. /\ Proceeds(f, "called") /\ runtime.entry # Nobody
        /\ directories' = directories \cup {place} /\ succeeded' = succeeded \cup {place}
        /\ runtime' = [runtime EXCEPT !.open = TRUE] /\ guess' = guess
    BY <1>2 DEF RuntimeDoes, appView
  <2>2. Newcomer([f EXCEPT !.at = "called"])
    BY <1>1 DEF Newcomer, FlowsOf, FlowPlaces, Entitled, EntriesOf
  <2>3. ViewTypeOK' /\ succeeded' \subseteq used \X NetworkChoices
    <3>1. runtime.entry \in used /\ runtime.network \in NetworkChoices
      BY <1>1, <2>1 DEF ViewTypeOK
    <3>2. succeeded' \subseteq used \X NetworkChoices
      BY <1>1, <2>1, <3>1 DEF WalletsTypeOK
    <3>3. runtime' \in [entry : used \cup {Nobody}, network : NetworkChoices, open : BOOLEAN]
      BY <1>1, <2>1 DEF ViewTypeOK
    <3> QED
      BY <1>1, <2>1, <3>2, <3>3 DEF ViewTypeOK
  <2>4. OthersSurvive'
    BY <1>1, <2>1 DEF RegistryInv, OthersSurvive
  <2> QED
    BY <1>1, <2>1, <2>2, <2>3, <2>4, MildFlow DEF Proceeds
<1>3. CASE CallReturns(f)
  <2>1. UNCHANGED <<directories, succeeded, runtime>> /\ guess' \in {guess, Nobody}
    BY <1>3 DEF CallReturns, past
  <2>2. flows' = flows \ {f} \/ flows' = (flows \ {f}) \cup {[f EXCEPT !.op = "stamp", !.at = "check"]}
    BY <1>3 DEF CallReturns, Leaves
  <2>3. Newcomer([f EXCEPT !.op = "stamp", !.at = "check"])
    BY <1>1 DEF Newcomer, FlowsOf, FlowPlaces, FlowOps, Entitled, EntriesOf, Edits
  <2>4. ViewTypeOK' /\ succeeded' \subseteq used \X NetworkChoices
    BY <1>1, <2>1 DEF ViewTypeOK, WalletsTypeOK, NetworkChoices
  <2>5. OthersSurvive'
    BY <1>1, <2>1, OthersKept DEF RegistryInv
  <2> QED
    BY <1>1, <2>1, <2>2, <2>3, <2>4, <2>5, MildFlow
<1> QED
  BY <1>2, <1>3

-----------------------------------------------------------------------------
(* Loads of the list, by the hook and by the flows that change it          *)

(* A step of the migration, and what it leaves in storage.                 *)
MovesOn(r, at) ==
    \/ /\ r.at = "check" /\ at = (IF Unseeded THEN "seed" ELSE "read")
       /\ UNCHANGED <<written, stored, markers, faults>>
    \/ /\ r.at = "seed" /\ at = "unmark"
       /\ written' = TRUE /\ stored' = {Entry(Legacy, Nobody, "password")}
       /\ UNCHANGED <<markers, faults>>
    \/ /\ r.at = "unmark" /\ at = "read"
       /\ markers' = FALSE
       /\ UNCHANGED <<written, stored, faults>>
    \/ /\ r.at \in {"seed", "unmark"} /\ at = "read"
       /\ faults' = faults + 1
       /\ UNCHANGED <<written, stored, markers>>

LEMMA MigratesEffect ==
    ASSUME WalletsTypeOK, NEW r, r \in LoadsOf(used) \/ r \in FlowsOf(used), NEW at,
           Migrates(r, [r EXCEPT !.at = at])
    PROVE  /\ MovesOn(r, at)
           /\ written' \in BOOLEAN /\ markers' \in BOOLEAN /\ faults' \in Nat
           /\ stored' \subseteq EntriesOf(used)
<1>1. \A x : [r EXCEPT !.at = x].at = x
  <2>1. CASE r \in LoadsOf(used)
    BY <2>1 DEF LoadsOf
  <2>2. CASE r \in FlowsOf(used)
    BY <2>2 DEF FlowsOf
  <2> QED
    BY <2>1, <2>2
<1> DEFINE q == [r EXCEPT !.at = at]
<1>2. q.at = at /\ Migrates(r, q)
  BY <1>1
<1> HIDE DEF q
<1>3. written \in BOOLEAN /\ markers \in BOOLEAN /\ faults \in Nat /\ stored \subseteq EntriesOf(used)
  BY DEF WalletsTypeOK
<1>4. Entry(Legacy, Nobody, "password") \in EntriesOf(used)
  BY DEF Entry, EntriesOf, NetworkChoices, WalletsTypeOK
<1>5. MovesOn(r, at)
  <2>1. CASE r.at = "check" /\ q = [r EXCEPT !.at = IF written \/ ~markers THEN "read" ELSE "seed"]
             /\ UNCHANGED <<storage, faults>>
    <3>1. at = IF written \/ ~markers THEN "read" ELSE "seed"
      BY <1>1, <1>2, <2>1
    <3> QED
      BY <1>3, <2>1, <3>1 DEF MovesOn, Unseeded, storage
  <2>2. CASE /\ r.at = "seed" /\ written' = TRUE
             /\ stored' = {Entry(Legacy, Nobody, "password")}
             /\ q = [r EXCEPT !.at = "unmark"] /\ UNCHANGED <<markers, faults>>
    BY <1>1, <1>2, <2>2 DEF MovesOn
  <2>3. CASE r.at = "unmark" /\ markers' = FALSE /\ q = [r EXCEPT !.at = "read"]
             /\ UNCHANGED <<written, stored, faults>>
    BY <1>1, <1>2, <2>3 DEF MovesOn
  <2>4. CASE r.at \in {"seed", "unmark"} /\ Fault /\ q = [r EXCEPT !.at = "read"]
             /\ UNCHANGED storage
    BY <1>1, <1>2, <2>4 DEF MovesOn, Fault, storage
  <2> QED
    BY <1>2, <2>1, <2>2, <2>3, <2>4 DEF Migrates
<1>6. written' \in BOOLEAN /\ markers' \in BOOLEAN
  BY <1>3, <1>5 DEF MovesOn
<1>7. faults' \in Nat
  BY <1>3, <1>5 DEF MovesOn
<1>8. stored' = stored \/ stored' = {Entry(Legacy, Nobody, "password")}
  BY <1>5 DEF MovesOn
<1> QED
  BY <1>3, <1>4, <1>5, <1>6, <1>7, <1>8

(* One load of the hook steps to q, and nothing else moves.                *)
LEMMA LoadSteps ==
    ASSUME RegistryInv, NEW r \in loads, NEW q \in LoadsOf(used), q.version = r.version,
           loads' = (loads \ {r}) \cup {q},
           UNCHANGED <<shown, refreshes, flows, appView, engine, acts, used, doomed, succeeded,
                       directories>>,
           written' \in BOOLEAN, markers' \in BOOLEAN, misread' \subseteq {"hook", "change"},
           faults' \in Nat,
           stored' \subseteq EntriesOf(used),
           Sound' => Sound /\ SeedInv' /\ LegacyInv' /\ FreshInv'
    PROVE  RegistryInv'
<1>1. WalletsTypeOK'
  BY DEF RegistryInv, WalletsTypeOK, ViewTypeOK, appView, engine, LoadsOf, FlowsOf, EntriesOf
<1>2. FlowInv'
  BY DEF RegistryInv, FlowInv, Entitled, Editing
<1>3. LoadInv'
  BY DEF RegistryInv, LoadInv, engine
<1>4. OthersSurvive'
  BY OthersKept DEF RegistryInv
<1> QED
  BY <1>1, <1>2, <1>3, <1>4 DEF RegistryInv

LEMMA HookMigrates ==
    ASSUME RegistryInv, NEW r \in loads, NEW at \in {"seed", "unmark", "read"},
           Migrates(r, [r EXCEPT !.at = at]),
           loads' = (loads \ {r}) \cup {[r EXCEPT !.at = at]},
           UNCHANGED <<shown, misread, directories, refreshes, flows, appView, engine, acts, used,
                       doomed, succeeded>>
    PROVE  RegistryInv'
<1> DEFINE q == [r EXCEPT !.at = at]
<1>1. r \in LoadsOf(used) /\ WalletsTypeOK
  BY DEF RegistryInv, WalletsTypeOK
<1>2. q \in LoadsOf(used) /\ q.version = r.version /\ q.at = at /\ r.version \in Nat
  BY <1>1 DEF LoadsOf, LoadPlaces
<1>3. /\ MovesOn(r, at)
      /\ written' \in BOOLEAN /\ markers' \in BOOLEAN /\ faults' \in Nat
      /\ stored' \subseteq EntriesOf(used)
  BY <1>1, MigratesEffect
<1>4. loads' = (loads \ {r}) \cup {q}
  OBVIOUS
<1> HIDE DEF q
<1>5. misread' \subseteq {"hook", "change"} /\ refreshes \in Nat /\ faults \in Nat
  BY <1>1 DEF WalletsTypeOK
<1>6. ASSUME Sound' PROVE Sound /\ SeedInv' /\ LegacyInv' /\ FreshInv'
  <2>1. Sound
    BY <1>6 DEF Sound
  <2>2. SeedInv /\ LegacyInv /\ FreshInv /\ LoadInv
    BY <2>1 DEF RegistryInv
  <2>3. r.at \in {"seed", "unmark"} => r.version = 0 /\ ~shown.there /\ flows = {} /\ loads = {r}
                                       /\ refreshes = 0
    <3>1. ASSUME r.at \in {"seed", "unmark"}
          PROVE  r.version = 0 /\ ~shown.there /\ flows = {} /\ refreshes = 0
      BY <2>2, <3>1 DEF SeedInv, LoadInv
    <3>2. ASSUME r.at \in {"seed", "unmark"}, NEW s \in loads PROVE s = r
      <4>1. s.version \in Nat /\ s.version <= 0
        BY <1>1, <2>2, <3>1, <3>2 DEF LoadInv, WalletsTypeOK, LoadsOf
      <4> QED
        BY <2>2, <3>1, <3>2, <4>1 DEF LoadInv
    <3> QED
      BY <3>1, <3>2
  <2>4. CASE r.at = "check" /\ at = (IF Unseeded THEN "seed" ELSE "read")
             /\ UNCHANGED <<written, stored, markers, faults>>
    <3>1. SeedInv'
      <4>1. at = "seed" => r.version = 0
        <5>1. Unseeded => refreshes = 0 /\ r.version <= 0
          BY <2>2 DEF SeedInv, LoadInv
        <5> QED
          BY <1>2, <2>4, <5>1
      <4> QED
        BY <1>2, <1>4, <2>2, <2>4, <4>1 DEF SeedInv, Unseeded
    <3>2. LegacyInv'
      BY <2>2, <2>4 DEF LegacyInv, Unseeded, HasLegacy
    <3>3. FreshInv'
      BY <1>2, <1>4, <2>2, <2>4 DEF FreshInv, Editing
    <3> QED
      BY <2>1, <3>1, <3>2, <3>3
  <2>5. CASE /\ r.at = "seed" /\ at = "unmark" /\ written' = TRUE
             /\ stored' = {Entry(Legacy, Nobody, "password")} /\ UNCHANGED <<markers, faults>>
    BY <1>2, <1>4, <2>1, <2>2, <2>3, <2>5
       DEF SeedInv, LegacyInv, FreshInv, Unseeded, HasLegacy, Entry, Editing
  <2>6. CASE r.at = "unmark" /\ at = "read" /\ markers' = FALSE /\ UNCHANGED <<written, stored, faults>>
    BY <1>2, <1>4, <2>1, <2>2, <2>3, <2>6
       DEF SeedInv, LegacyInv, FreshInv, Unseeded, HasLegacy, Editing
  <2>7. CASE r.at \in {"seed", "unmark"} /\ at = "read" /\ faults' = faults + 1
             /\ UNCHANGED <<written, stored, markers>>
    BY <1>2, <1>4, <2>1, <2>2, <2>3, <2>7
       DEF SeedInv, LegacyInv, FreshInv, Unseeded, HasLegacy, Editing
  <2> QED
    BY <1>3, <2>4, <2>5, <2>6, <2>7 DEF MovesOn
<1> QED
  BY <1>2, <1>3, <1>4, <1>5, <1>6, LoadSteps

LEMMA HookReads ==
    ASSUME RegistryInv, NEW r \in loads, NEW list \in {stored, {}}, Reads(r, list, "hook"),
           loads' = (loads \ {r}) \cup {[r EXCEPT !.at = "loaded", !.read = list]},
           UNCHANGED <<storage, shown, directories, refreshes, flows, appView, engine, acts, used,
                       doomed, succeeded>>
    PROVE  RegistryInv'
<1> DEFINE q == [r EXCEPT !.at = "loaded", !.read = list]
<1>1. r \in LoadsOf(used) /\ WalletsTypeOK /\ stored \subseteq EntriesOf(used)
  BY DEF RegistryInv, WalletsTypeOK
<1>2. /\ q \in LoadsOf(used) /\ q.version = r.version /\ q.at = "loaded" /\ q.read = list
      /\ r.version \in Nat
  BY <1>1 DEF LoadsOf, LoadPlaces
<1>3. loads' = (loads \ {r}) \cup {q}
  OBVIOUS
<1> HIDE DEF q
<1>4. /\ written' \in BOOLEAN /\ markers' \in BOOLEAN /\ faults' \in Nat
      /\ misread' \subseteq {"hook", "change"} /\ stored' \subseteq EntriesOf(used)
      /\ UNCHANGED <<written, stored, markers>>
  <2>1. UNCHANGED <<written, stored, markers>>
    BY DEF storage
  <2>2. /\ faults \in Nat /\ written \in BOOLEAN /\ markers \in BOOLEAN
        /\ misread \subseteq {"hook", "change"}
    BY <1>1 DEF WalletsTypeOK
  <2>3. faults' \in {faults, faults + 1} /\ misread' \in {misread, misread \cup {"hook"}}
    BY DEF Reads, Fault
  <2>4. faults' \in Nat
    BY <2>2, <2>3
  <2>5. misread' \subseteq {"hook", "change"}
    BY <2>2, <2>3
  <2> QED
    BY <1>1, <2>1, <2>2, <2>4, <2>5
<1>5. ASSUME Sound' PROVE Sound /\ SeedInv' /\ LegacyInv' /\ FreshInv'
  <2>1. r.at = "read"
    BY DEF Reads
  <2>2. Sound /\ SeedInv /\ LegacyInv /\ FreshInv
    BY <1>5 DEF Reads, Sound, RegistryInv
  <2>3. SeedInv'
    BY <1>2, <1>3, <1>4, <2>1, <2>2 DEF SeedInv, Unseeded
  <2>4. LegacyInv'
    BY <1>4, <2>2 DEF LegacyInv, Unseeded, HasLegacy
  <2>5. FreshInv'
    <3>1. CASE "hook" \in misread'
      BY <3>1 DEF FreshInv
    <3>2. CASE "hook" \notin misread'
      <4>1. list = stored /\ misread' = misread
        BY <3>2 DEF Reads
      <4> QED
        BY <1>2, <1>3, <1>4, <2>1, <2>2, <4>1 DEF FreshInv, Editing
    <3> QED
      BY <3>1, <3>2
  <2> QED
    BY <2>2, <2>3, <2>4, <2>5
<1> QED
  BY <1>2, <1>3, <1>4, <1>5, LoadSteps

(* Only the load of the last refresh is shown.                             *)
LEMMA HookLists ==
    ASSUME RegistryInv, NEW r \in loads, Lists(r),
           UNCHANGED <<storage, faults, misread, directories, refreshes, flows, appView, engine, acts,
                       used, doomed, succeeded>>
    PROVE  RegistryInv'
<1>1. /\ r \in LoadsOf(used) /\ WalletsTypeOK /\ LoadInv
      /\ r.at = "loaded" /\ loads' = loads \ {r}
      /\ shown' = IF r.version = refreshes THEN [there |-> TRUE, list |-> r.read] ELSE shown
      /\ UNCHANGED <<written, stored, markers>>
  BY DEF RegistryInv, WalletsTypeOK, Lists, storage
<1>2. /\ r.version \in Nat /\ r.read \subseteq EntriesOf(used) /\ refreshes \in Nat
      /\ shown' \in [there : BOOLEAN, list : SUBSET EntriesOf(used)]
  BY <1>1 DEF LoadsOf, WalletsTypeOK
<1>3. shown.there => shown'.there
  BY <1>1
<1>4. WalletsTypeOK'
  BY <1>1, <1>2 DEF WalletsTypeOK, ViewTypeOK, appView, engine, LoadsOf, FlowsOf, EntriesOf
<1>5. FlowInv'
  BY DEF RegistryInv, FlowInv, Entitled, Editing
<1>6. LoadInv'
  <2>1. ~shown'.there => ~shown.there
    BY <1>3
  <2>2. ASSUME NEW s \in loads', s.version = 0 PROVE ~shown'.there
    <3>1. ~shown.there /\ refreshes = 0 /\ s \in loads /\ s # r
      BY <1>1, <2>2 DEF LoadInv
    <3>2. r.version <= 0
      BY <1>1, <3>1 DEF LoadInv
    <3>3. r.version = 0
      BY <1>2, <3>2
    <3> QED
      BY <1>1, <2>2, <3>1, <3>3 DEF LoadInv
  <2> QED
    BY <1>1, <2>1, <2>2 DEF LoadInv, engine
<1>7. OthersSurvive'
  BY OthersKept DEF RegistryInv
<1>8. ASSUME Sound' PROVE SeedInv' /\ LegacyInv' /\ FreshInv'
  <2>1. SeedInv /\ LegacyInv /\ FreshInv
    BY <1>8 DEF Sound, RegistryInv
  <2>2. SeedInv'
    BY <1>1, <2>1 DEF SeedInv, Unseeded
  <2>3. LegacyInv'
    BY <1>1, <2>1 DEF LegacyInv, Unseeded, HasLegacy
  <2>4. FreshInv'
    <3>1. CASE r.version = refreshes
      <4>1. shown'.there /\ shown'.list = r.read /\ \A s \in loads' : s.version # refreshes
        BY <1>1, <3>1 DEF LoadInv
      <4>2. "hook" \notin misread => r.read = stored \/ \E f \in flows : Editing(f)
        BY <1>1, <2>1, <3>1 DEF FreshInv, LoadInv
      <4> QED
        BY <1>1, <4>1, <4>2 DEF FreshInv, Editing
    <3>2. CASE r.version # refreshes
      BY <1>1, <2>1, <3>2 DEF FreshInv, Editing
    <3> QED
      BY <3>1, <3>2
  <2> QED
    BY <2>2, <2>3, <2>4
<1> QED
  BY <1>4, <1>5, <1>6, <1>7, <1>8 DEF RegistryInv

LEMMA HookStep ==
    ASSUME RegistryInv, NEW r \in loads, HookLoads(r)
    PROVE  RegistryInv'
<1>1. CASE \E at \in {"seed", "unmark", "read"} :
             /\ Migrates(r, [r EXCEPT !.at = at])
             /\ loads' = (loads \ {r}) \cup {[r EXCEPT !.at = at]}
             /\ UNCHANGED <<shown, misread>>
  BY <1>1, HookMigrates DEF HookLoads
<1>2. CASE \E list \in {stored, {}} :
             /\ Reads(r, list, "hook")
             /\ loads' = (loads \ {r}) \cup {[r EXCEPT !.at = "loaded", !.read = list]}
             /\ UNCHANGED <<storage, shown>>
  BY <1>2, HookReads DEF HookLoads
<1>3. CASE Lists(r) /\ UNCHANGED <<storage, faults, misread>>
  BY <1>3, HookLists DEF HookLoads
<1> QED
  BY <1>1, <1>2, <1>3, Zenon DEF HookLoads

(* A flow that changes the list steps to q, and nothing else moves.        *)
LEMMA EditSteps ==
    ASSUME RegistryInv, NEW f \in flows, NEW q \in FlowsOf(used),
           q.op = f.op, q.entry = f.entry, Editing(f), Editing(q),
           flows' = (flows \ {f}) \cup {q},
           UNCHANGED <<shown, loads, refreshes, appView, engine, acts, used, doomed, succeeded,
                       directories>>,
           written' \in BOOLEAN, markers' \in BOOLEAN, misread' \subseteq {"hook", "change"},
           faults' \in Nat,
           stored' \subseteq EntriesOf(used),
           Sound' => Sound /\ SeedInv' /\ LegacyInv'
    PROVE  RegistryInv'
<1>1. shown.there
  BY DEF RegistryInv, LoadInv
<1>2. WalletsTypeOK'
  BY DEF RegistryInv, WalletsTypeOK, ViewTypeOK, appView, engine, LoadsOf, FlowsOf, EntriesOf
<1>3. FlowInv'
  BY DEF RegistryInv, FlowInv, Entitled, Editing
<1>4. LoadInv'
  BY <1>1 DEF RegistryInv, LoadInv
<1>5. OthersSurvive'
  BY OthersKept DEF RegistryInv
<1>6. FreshInv'
  BY <1>1 DEF FreshInv, Editing
<1> QED
  BY <1>2, <1>3, <1>4, <1>5, <1>6 DEF RegistryInv

LEMMA FlowMigrates ==
    ASSUME RegistryInv, NEW f \in flows, NEW at \in {"seed", "unmark", "read"},
           Migrates(f, [f EXCEPT !.at = at]),
           flows' = (flows \ {f}) \cup {[f EXCEPT !.at = at]},
           misread' = IF f.at = "seed" /\ at = "read" THEN misread \cup {"change"} ELSE misread,
           UNCHANGED <<registryHook, directories, appView, engine, acts, used, doomed, succeeded>>
    PROVE  RegistryInv'
<1> DEFINE q == [f EXCEPT !.at = at]
<1>1. f \in FlowsOf(used) /\ WalletsTypeOK /\ shown.there /\ UNCHANGED <<shown, loads, refreshes>>
  BY DEF RegistryInv, WalletsTypeOK, LoadInv, registryHook
<1>2. q \in FlowsOf(used) /\ q.op = f.op /\ q.entry = f.entry /\ q.at = at
  BY <1>1 DEF FlowsOf, FlowPlaces
<1>3. /\ MovesOn(f, at)
      /\ written' \in BOOLEAN /\ markers' \in BOOLEAN /\ faults' \in Nat
      /\ stored' \subseteq EntriesOf(used)
  BY <1>1, MigratesEffect
<1>4. flows' = (flows \ {f}) \cup {q}
  OBVIOUS
<1> HIDE DEF q
<1>5. misread' \subseteq {"hook", "change"}
  BY <1>1 DEF WalletsTypeOK
<1>6. Editing(f) /\ Editing(q)
  BY <1>2, <1>3 DEF Editing, MovesOn
<1>7. ASSUME Sound' PROVE Sound /\ SeedInv' /\ LegacyInv'
  <2>1. Sound /\ ~(f.at = "seed" /\ at = "read")
    BY <1>7 DEF Sound
  <2>2. SeedInv /\ LegacyInv
    BY <2>1 DEF RegistryInv
  <2>3. CASE f.at = "check" /\ at = (IF Unseeded THEN "seed" ELSE "read")
             /\ UNCHANGED <<written, stored, markers, faults>>
    <3>1. Unseeded' <=> Unseeded
      BY <2>3 DEF Unseeded
    <3>2. SeedInv'
      BY <1>1, <1>2, <1>4, <2>2, <2>3, <3>1 DEF SeedInv
    <3>3. LegacyInv'
      BY <1>2, <1>4, <2>2, <2>3, <3>1 DEF LegacyInv, HasLegacy
    <3> QED
      BY <2>1, <3>2, <3>3
  <2>4. CASE /\ f.at = "seed" /\ at = "unmark" /\ written' = TRUE
             /\ stored' = {Entry(Legacy, Nobody, "password")} /\ UNCHANGED <<markers, faults>>
    <3>1. HasLegacy(stored)' /\ ~Unseeded'
      BY <2>4 DEF HasLegacy, Unseeded, Entry
    <3>2. SeedInv'
      BY <1>1, <2>2, <3>1 DEF SeedInv
    <3>3. Legacy \in doomed \/ \A g \in flows' : g.at = "save" => HasLegacy(g.read)
      BY <1>2, <1>4, <2>2, <2>4 DEF SeedInv, LegacyInv
    <3> QED
      BY <2>1, <3>1, <3>2, <3>3 DEF LegacyInv, HasLegacy
  <2>5. CASE f.at = "unmark" /\ at = "read" /\ markers' = FALSE /\ UNCHANGED <<written, stored, faults>>
    <3>1. ~Unseeded /\ ~Unseeded'
      BY <2>2, <2>5 DEF SeedInv, Unseeded
    <3>2. SeedInv'
      BY <1>1, <2>2, <3>1 DEF SeedInv
    <3>3. LegacyInv'
      BY <1>2, <1>4, <2>2, <2>5, <3>1 DEF LegacyInv, HasLegacy
    <3> QED
      BY <2>1, <3>2, <3>3
  <2>6. CASE f.at \in {"seed", "unmark"} /\ at = "read" /\ faults' = faults + 1
             /\ UNCHANGED <<written, stored, markers>>
    <3>1. f.at = "unmark"
      BY <2>1, <2>6
    <3>2. ~Unseeded /\ ~Unseeded'
      BY <2>2, <2>6, <3>1 DEF SeedInv, Unseeded
    <3>3. SeedInv'
      BY <1>1, <2>2, <3>2 DEF SeedInv
    <3>4. LegacyInv'
      BY <1>2, <1>4, <2>2, <2>6, <3>2 DEF LegacyInv, HasLegacy
    <3> QED
      BY <2>1, <3>3, <3>4
  <2> QED
    BY <1>3, <2>3, <2>4, <2>5, <2>6 DEF MovesOn
<1> QED
  BY <1>1, <1>2, <1>3, <1>4, <1>5, <1>6, <1>7, EditSteps

LEMMA FlowReads ==
    ASSUME RegistryInv, NEW f \in flows, NEW list \in {stored, {}}, Reads(f, list, "change"),
           flows' = (flows \ {f}) \cup {[f EXCEPT !.at = "save", !.read = list]},
           UNCHANGED <<storage, registryHook, directories, appView, engine, acts, used, doomed,
                       succeeded>>
    PROVE  RegistryInv'
<1> DEFINE q == [f EXCEPT !.at = "save", !.read = list]
<1>1. /\ f \in FlowsOf(used) /\ WalletsTypeOK /\ stored \subseteq EntriesOf(used)
      /\ UNCHANGED <<shown, loads, refreshes, written, stored, markers>>
  BY DEF RegistryInv, WalletsTypeOK, registryHook, storage
<1>2. /\ q \in FlowsOf(used) /\ q.op = f.op /\ q.entry = f.entry /\ q.at = "save" /\ q.read = list
  BY <1>1 DEF FlowsOf, FlowPlaces
<1>3. flows' = (flows \ {f}) \cup {q}
  OBVIOUS
<1> HIDE DEF q
<1>4. written' \in BOOLEAN /\ markers' \in BOOLEAN /\ stored' \subseteq EntriesOf(used)
  BY <1>1 DEF WalletsTypeOK
<1>5. faults' \in Nat
  <2>1. faults' \in {faults, faults + 1} /\ faults \in Nat
    BY <1>1 DEF Reads, Fault, WalletsTypeOK
  <2> QED
    BY <2>1
<1>6. misread' \subseteq {"hook", "change"}
  <2>1. misread' \in {misread, misread \cup {"change"}} /\ misread \subseteq {"hook", "change"}
    BY <1>1 DEF Reads, WalletsTypeOK
  <2> QED
    BY <2>1
<1>7. Editing(f) /\ Editing(q)
  BY <1>2 DEF Editing, Reads
<1>8. ASSUME Sound' PROVE Sound /\ SeedInv' /\ LegacyInv'
  <2>1. list = stored /\ misread' = misread /\ f.at = "read"
    BY <1>8 DEF Reads, Sound
  <2>2. Sound /\ SeedInv /\ LegacyInv
    BY <1>8, <2>1 DEF Sound, RegistryInv
  <2>3. ~Unseeded /\ ~Unseeded'
    BY <1>1, <2>1, <2>2 DEF SeedInv, Unseeded
  <2>4. SeedInv'
    BY <1>1, <2>2, <2>3 DEF SeedInv
  <2>5. LegacyInv'
    BY <1>1, <1>2, <1>3, <2>1, <2>2, <2>3 DEF LegacyInv, HasLegacy
  <2> QED
    BY <2>2, <2>4, <2>5
<1> QED
  BY <1>1, <1>2, <1>3, <1>4, <1>5, <1>6, <1>7, <1>8, EditSteps

LEMMA FlowLoadStep ==
    ASSUME RegistryInv, NEW f \in flows, FlowLoads(f)
    PROVE  RegistryInv'
<1>1. CASE \E at \in {"seed", "unmark", "read"} :
             /\ Migrates(f, [f EXCEPT !.at = at])
             /\ flows' = (flows \ {f}) \cup {[f EXCEPT !.at = at]}
             /\ misread' = IF f.at = "seed" /\ at = "read" THEN misread \cup {"change"} ELSE misread
  BY <1>1, FlowMigrates DEF FlowLoads
<1>2. CASE \E list \in {stored, {}} :
             /\ Reads(f, list, "change")
             /\ flows' = (flows \ {f}) \cup {[f EXCEPT !.at = "save", !.read = list]}
             /\ UNCHANGED storage
  <2>1. UNCHANGED <<registryHook, directories, appView, engine, acts, used, doomed, succeeded>>
    BY DEF FlowLoads
  <2> QED
    BY <1>2, <2>1, FlowReads
<1> QED
  BY <1>1, <1>2, Zenon DEF FlowLoads

-----------------------------------------------------------------------------
(* Writes of the list                                                      *)

(* After a change the hook loads the list again.                           *)
LEMMA Refreshed ==
    ASSUME RegistryInv, shown.there, Refresh, used' = used,
           doomed \subseteq doomed', doomed' \subseteq used,
           UNCHANGED <<misread, succeeded, directories, acts>>,
           written' \in BOOLEAN, markers' \in BOOLEAN, faults' \in Nat,
           stored' \subseteq EntriesOf(used), ViewTypeOK',
           \A g \in flows' : g \in flows \/ Newcomer(g),
           Sound' => Sound /\ ~Unseeded' /\ LegacyInv'
    PROVE  RegistryInv'
<1> DEFINE n == refreshes + 1
<1>1. /\ shown' = shown /\ refreshes' = n /\ n \in Nat /\ n > refreshes /\ n # 0
      /\ loads' = loads \cup {LoadOf(n)}
  BY DEF Refresh, RegistryInv, WalletsTypeOK
<1>2. LoadOf(n) \in LoadsOf(used) /\ LoadOf(n).version = n /\ LoadOf(n).at = "check"
  BY <1>1 DEF LoadOf, LoadsOf, LoadPlaces
<1>3. \A r \in loads : r.version \in Nat /\ r.version <= refreshes
  BY DEF RegistryInv, WalletsTypeOK, LoadsOf, LoadInv
<1>4. \A r \in loads : r.version <= n /\ r.version # n
  <2>1. refreshes \in Nat
    BY DEF RegistryInv, WalletsTypeOK
  <2> QED
    BY <1>3, <2>1
<1> HIDE DEF n
<1>5. WalletsTypeOK'
  <2>1. flows' \subseteq FlowsOf(used)
    BY DEF Newcomer, RegistryInv, WalletsTypeOK
  <2>2. loads' \subseteq LoadsOf(used)
    BY <1>1, <1>2 DEF RegistryInv, WalletsTypeOK
  <2>3. FlowsOf(used)' = FlowsOf(used) /\ LoadsOf(used)' = LoadsOf(used)
        /\ EntriesOf(used)' = EntriesOf(used)
    BY DEF FlowsOf, LoadsOf, EntriesOf
  <2> QED
    BY <1>1, <2>1, <2>2, <2>3 DEF RegistryInv, WalletsTypeOK
<1>6. FlowInv'
  <2> SUFFICES ASSUME NEW g \in flows' PROVE (Editing(g) => g.op \in Edits) /\ Entitled(g)'
    BY DEF FlowInv, Editing
  <2>1. CASE g \in flows
    BY <2>1 DEF RegistryInv, FlowInv, Entitled
  <2>2. CASE Newcomer(g)
    BY <2>2 DEF Newcomer, Editing
  <2> QED
    BY <2>1, <2>2
<1>7. LoadInv'
  BY <1>1, <1>2, <1>4 DEF RegistryInv, LoadInv
<1>8. OthersSurvive'
  BY OthersKept DEF RegistryInv
<1>9. ASSUME Sound' PROVE SeedInv' /\ FreshInv'
  <2>1. SeedInv /\ ~Unseeded'
    BY <1>9 DEF RegistryInv
  <2>2. SeedInv'
    BY <1>1, <1>2, <2>1 DEF SeedInv
  <2>3. FreshInv'
    BY <1>1, <1>2 DEF FreshInv
  <2> QED
    BY <2>2, <2>3
<1> QED
  BY <1>5, <1>6, <1>7, <1>8, <1>9 DEF RegistryInv

(* What follows a change of the list adds no other change of it.           *)
LEMMA SavedEffect ==
    ASSUME RegistryInv, NEW f \in flows, Saved(f), used' = used, doomed' = doomed
    PROVE  /\ shown.there /\ Refresh /\ ViewTypeOK'
           /\ \A g \in flows' : (g \in flows /\ g # f) \/ Newcomer(g)
<1>1. /\ f \in FlowsOf(used) /\ WalletsTypeOK /\ ViewTypeOK /\ shown.there /\ Entitled(f)
      /\ Refresh /\ runtime' = runtime
  BY DEF RegistryInv, WalletsTypeOK, LoadInv, FlowInv, Saved
<1>2. CASE f.op = "setup" /\ OpensIn(f, Entry(f.entry, f.network, "none"), Nobody, enginePhase)
  <2> DEFINE entry == Entry(f.entry, f.network, "none")
  <2>1. /\ entry.id = f.entry /\ entry.id \in used \cup {Nobody} /\ entry.network \in NetworkChoices
        /\ Nobody \in NetworkChoices
    BY <1>1 DEF Entry, FlowsOf, NetworkChoices
  <2>2. OpensIn(f, entry, Nobody, enginePhase)
    BY <1>2
  <2> HIDE DEF entry
  <2>3. /\ selection' \in used \cup {Nobody} /\ guess' \in NetworkChoices
        /\ onboarding' \in {"create", "restore"}
        /\ \/ flows' = flows \ {f}
           \/ \E g \in FlowsOf(used) :
                /\ flows' = (flows \ {f}) \cup {g}
                /\ g.at = "starting" /\ g.op = f.op /\ g.entry = entry.id
    BY <1>1, <2>1, <2>2, OpensInEffect
  <2>4. \A g \in FlowsOf(used) :
          g.at = "starting" /\ g.op = f.op /\ g.entry = f.entry => Newcomer(g)
    BY <1>1, <1>2 DEF Newcomer, Entitled, FlowsOf, EntriesOf
  <2>5. ViewTypeOK'
    BY <1>1, <2>3 DEF ViewTypeOK
  <2> QED
    BY <1>1, <2>1, <2>3, <2>4, <2>5
<1>3. CASE /\ f.op = "removeBack" /\ StopsIn([f EXCEPT !.at = "leaving"], flows \ {f})
           /\ UNCHANGED <<selection, form, guess, onboarding>>
  <2> DEFINE s == [f EXCEPT !.at = "leaving"]
  <2>1. Newcomer(s)
    BY <1>1 DEF Newcomer, Entitled, FlowsOf, FlowPlaces, EntriesOf
  <2>2. StopsIn(s, flows \ {f})
    BY <1>3
  <2> HIDE DEF s
  <2>3. flows \ {f} \in SUBSET FlowsOf(used)
    BY <1>1 DEF WalletsTypeOK
  <2>4. \A g \in flows' : \/ g = s \/ g \in flows \ {f}
                          \/ /\ g \in FlowsOf(used) /\ g.at = "overtaken"
                             /\ \E h \in flows \ {f} : g.op = h.op /\ g.entry = h.entry
    BY <2>2, <2>3, StopsInEffect
  <2>5. ASSUME NEW g \in FlowsOf(used), g.at = "overtaken", NEW h \in flows, g.op = h.op,
               g.entry = h.entry
        PROVE  Newcomer(g)
    BY <2>5 DEF Newcomer, RegistryInv, FlowInv, Entitled, FlowsOf, EntriesOf
  <2>6. ViewTypeOK'
    BY <1>1, <1>3 DEF ViewTypeOK
  <2> QED
    BY <1>1, <2>1, <2>4, <2>5, <2>6
<1>4. CASE /\ f.op \in {"remove", "stamp", "unstamp"} /\ Leaves(f)
           /\ UNCHANGED <<selection, form, guess, onboarding, enginePhase>>
  BY <1>1, <1>4 DEF ViewTypeOK, Leaves
<1> QED
  BY <1>2, <1>3, <1>4 DEF Saved

(* A change of the list keeps it a list, and the legacy wallet in it       *)
(* unless that was removed.                                                *)
LEMMA EditedList ==
    ASSUME RegistryInv, NEW f \in flows, f.at = "save"
    PROVE  /\ Edited(f) \subseteq EntriesOf(used)
           /\ HasLegacy(f.read) => HasLegacy(Edited(f)) \/ Legacy \in doomed
<1>1. f \in FlowsOf(used) /\ f.op \in Edits /\ Entitled(f)
  BY DEF RegistryInv, WalletsTypeOK, FlowInv, Editing
<1>2. /\ f.read \subseteq EntriesOf(used) /\ f.network \in NetworkChoices
      /\ f.op = "setup" => f.entry \in used
  BY <1>1 DEF FlowsOf, Entitled
<1>3. CASE f.op = "setup"
  <2>1. Edited(f) = f.read \cup {Entry(f.entry, f.network, "none")}
    BY <1>3 DEF Edited
  <2>2. Entry(f.entry, f.network, "none") \in EntriesOf(used)
    BY <1>2, <1>3 DEF Entry, EntriesOf
  <2> QED
    BY <1>2, <2>1, <2>2 DEF HasLegacy
<1>4. CASE f.op \in {"remove", "removeBack"}
  <2>1. Edited(f) = {x \in f.read : x.id # f.entry}
    BY <1>4 DEF Edited
  <2> QED
    BY <1>1, <1>2, <1>4, <2>1 DEF HasLegacy, Entitled
<1>5. CASE f.op = "stamp"
  <2> DEFINE Stamped(x) ==
        Entry(x.id, IF f.network # Nobody THEN f.network ELSE x.network, "password")
  <2>1. Edited(f) = {IF x.id = f.entry THEN Stamped(x) ELSE x : x \in f.read}
    BY <1>5 DEF Edited
  <2>2. \A x \in f.read : Stamped(x) \in EntriesOf(used) /\ Stamped(x).id = x.id
    BY <1>2 DEF Entry, EntriesOf
  <2> HIDE DEF Stamped
  <2> QED
    BY <1>2, <2>1, <2>2 DEF HasLegacy
<1>6. CASE f.op = "unstamp"
  <2> DEFINE Unstamped(x) == Entry(x.id, x.network, "none")
  <2>1. Edited(f) = {IF x.id = f.entry THEN Unstamped(x) ELSE x : x \in f.read}
    BY <1>6 DEF Edited
  <2>2. \A x \in f.read : Unstamped(x) \in EntriesOf(used) /\ Unstamped(x).id = x.id
    BY <1>2 DEF Entry, EntriesOf
  <2> HIDE DEF Unstamped
  <2> QED
    BY <1>2, <2>1, <2>2 DEF HasLegacy
<1> QED
  BY <1>1, <1>3, <1>4, <1>5, <1>6 DEF Edits

LEMMA SaveStep ==
    ASSUME RegistryInv, NEW f \in flows, Saves(f) \/ SaveFails(f)
    PROVE  RegistryInv'
<1>1. /\ f.at = "save" /\ Saved(f)
      /\ UNCHANGED <<markers, directories, acts, used, doomed, misread, succeeded>>
  BY DEF Saves, SaveFails, bounds, past, storage
<1>2. /\ shown.there /\ Refresh /\ ViewTypeOK'
      /\ \A g \in flows' : (g \in flows /\ g # f) \/ Newcomer(g)
  BY <1>1, SavedEffect
<1>3. written \in BOOLEAN /\ markers \in BOOLEAN /\ faults \in Nat /\ stored \subseteq EntriesOf(used)
      /\ doomed \subseteq used
  BY DEF RegistryInv, WalletsTypeOK
<1>4. /\ Edited(f) \subseteq EntriesOf(used)
      /\ HasLegacy(f.read) => HasLegacy(Edited(f)) \/ Legacy \in doomed
  BY <1>1, EditedList
<1>5. \A g \in flows' : g.at = "save" => g \in flows
  BY <1>2 DEF Newcomer
<1>6. CASE Saves(f)
  <2>1. written' = TRUE /\ stored' = Edited(f) /\ faults' = faults
    BY <1>6 DEF Saves, bounds
  <2>2. ASSUME Sound' PROVE Sound /\ ~Unseeded' /\ LegacyInv'
    <3>1. Sound
      BY <1>1, <2>1, <2>2 DEF Sound
    <3>2. ~Unseeded /\ ~Unseeded' /\ LegacyInv
      BY <1>1, <2>1, <3>1 DEF RegistryInv, SeedInv, Unseeded
    <3> QED
      BY <1>1, <1>4, <1>5, <2>1, <3>1, <3>2 DEF LegacyInv, HasLegacy
  <2>3. written' \in BOOLEAN /\ markers' \in BOOLEAN
    BY <1>1, <1>3, <2>1
  <2> QED
    BY <1>1, <1>2, <1>3, <1>4, <2>1, <2>2, <2>3, Refreshed
<1>7. CASE SaveFails(f)
  <2>1. UNCHANGED <<written, stored, markers>> /\ faults' = faults + 1
    BY <1>7 DEF SaveFails, Fault, storage
  <2>2. ASSUME Sound' PROVE Sound /\ ~Unseeded' /\ LegacyInv'
    <3>1. Sound
      BY <1>1, <1>3, <2>1, <2>2 DEF Sound
    <3>2. ~Unseeded /\ ~Unseeded' /\ LegacyInv
      BY <1>1, <2>1, <3>1 DEF RegistryInv, SeedInv, Unseeded
    <3> QED
      BY <1>1, <1>5, <2>1, <3>1, <3>2 DEF LegacyInv, HasLegacy
  <2>3. faults' \in Nat
    BY <1>3, <2>1
  <2> QED
    BY <1>1, <1>2, <1>3, <2>1, <2>2, <2>3, Refreshed
<1> QED
  BY <1>6, <1>7

LEMMA ClearStep ==
    ASSUME RegistryInv, NEW f \in flows, Clears(f)
    PROVE  RegistryInv'
<1>1. /\ written' = FALSE /\ stored' = {} /\ markers' = FALSE /\ doomed' = used
      /\ flows' = flows \ {f} /\ Refresh
      /\ UNCHANGED <<directories, runtime, acts, faults, used, misread, succeeded>>
  BY DEF Clears, Leaves, engine, bounds
<1>2. shown.there /\ faults \in Nat /\ doomed \subseteq used /\ Legacy \in used /\ ViewTypeOK
  BY DEF RegistryInv, WalletsTypeOK, LoadInv
<1>3. ViewTypeOK'
  BY <1>1, <1>2 DEF Clears, Resets, ViewTypeOK, NetworkChoices
<1>4. Sound' => Sound /\ ~Unseeded' /\ LegacyInv'
  BY <1>1, <1>2 DEF Sound, Unseeded, LegacyInv
<1>5. written' \in BOOLEAN /\ markers' \in BOOLEAN
  BY <1>1
<1> QED
  BY <1>1, <1>2, <1>3, <1>4, <1>5, Refreshed

(* The app starts over on what storage has.                                *)
LEMMA RelaunchStep ==
    ASSUME RegistryInv, Relaunches
    PROVE  RegistryInv'
<1>1. /\ shown' = NotLoaded /\ refreshes' = 0 /\ loads' = {LoadOf(0)} /\ flows' = {}
      /\ selection' = Nobody /\ guess' = Nobody /\ onboarding' = "create"
      /\ enginePhase' = "runtimeReady" /\ runtime' = Stopped /\ acts' = acts + 1
      /\ UNCHANGED <<written, stored, markers, directories, faults, used, doomed, misread, succeeded>>
  BY DEF Relaunches, Act, storage, past
<1>2. WalletsTypeOK'
  <2>1. LoadOf(0) \in LoadsOf(used)
    BY DEF LoadOf, LoadsOf, LoadPlaces
  <2>2. NotLoaded \in [there : BOOLEAN, list : SUBSET EntriesOf(used)]
    BY DEF NotLoaded
  <2>3. ViewTypeOK'
    BY <1>1 DEF ViewTypeOK, Stopped, NetworkChoices
  <2>4. LoadsOf(used)' = LoadsOf(used) /\ EntriesOf(used)' = EntriesOf(used)
    BY <1>1 DEF LoadsOf, EntriesOf
  <2> QED
    BY <1>1, <2>1, <2>2, <2>3, <2>4 DEF RegistryInv, WalletsTypeOK
<1>3. FlowInv' /\ LoadInv'
  BY <1>1 DEF FlowInv, LoadInv, NotLoaded, LoadOf, Stopped
<1>4. OthersSurvive'
  BY <1>1, OthersKept DEF RegistryInv
<1>5. ASSUME Sound' PROVE SeedInv' /\ LegacyInv' /\ FreshInv'
  <2>1. LegacyInv
    BY <1>1, <1>5 DEF Sound, RegistryInv
  <2>2. SeedInv' /\ FreshInv'
    BY <1>1 DEF SeedInv, FreshInv, NotLoaded, LoadOf
  <2>3. LegacyInv'
    BY <1>1, <2>1 DEF LegacyInv, Unseeded, HasLegacy
  <2> QED
    BY <2>2, <2>3
<1> QED
  BY <1>2, <1>3, <1>4, <1>5 DEF RegistryInv

LEMMA WalletsStart == WalletsInit => RegistryInv
<1> SUFFICES ASSUME WalletsInit PROVE RegistryInv
  OBVIOUS
<1>1. WalletsTypeOK
  <2>1. LoadOf(0) \in LoadsOf(used)
    BY DEF LoadOf, LoadsOf, LoadPlaces
  <2>2. NotLoaded \in [there : BOOLEAN, list : SUBSET EntriesOf(used)]
    BY DEF NotLoaded
  <2>3. ViewTypeOK
    BY DEF WalletsInit, ViewTypeOK, Stopped, NetworkChoices
  <2>4. succeeded \subseteq used \X NetworkChoices
    BY NativeWalletsAssumption DEF WalletsInit, NetworkChoices
  <2> QED
    BY <2>1, <2>2, <2>3, <2>4, NativeWalletsAssumption DEF WalletsInit, WalletsTypeOK
<1>2. FlowInv /\ LoadInv /\ OthersSurvive
  BY DEF WalletsInit, FlowInv, LoadInv, OthersSurvive, LoadOf, NotLoaded, Stopped
<1>3. SeedInv /\ LegacyInv /\ FreshInv
  BY DEF WalletsInit, SeedInv, LegacyInv, FreshInv, Unseeded, LoadOf, NotLoaded
<1> QED
  BY <1>1, <1>2, <1>3 DEF RegistryInv

LEMMA WalletsStep == RegistryInv /\ [WalletsNext]_walletsVars => RegistryInv'
<1> SUFFICES ASSUME RegistryInv, [WalletsNext]_walletsVars PROVE RegistryInv'
  OBVIOUS
<1>1. ASSUME Mild PROVE RegistryInv'
  BY <1>1, QuietStep DEF Mild
<1>2. ASSUME NEW r \in loads, HookLoads(r) PROVE RegistryInv'
  BY <1>2, HookStep
<1>3. ASSUME NEW f \in flows, FlowSteps(f) PROVE RegistryInv'
  <2>1. CASE StartLandsIn(f) \/ StartFailsIn(f)
    BY <1>1, <2>1, MildStart
  <2>2. CASE StopLandsIn(f) \/ StopFailsIn(f)
    BY <1>1, <2>2, MildStop
  <2>3. CASE SetupIsPlaced(f) \/ RootFails(f) \/ ClearFails(f) \/ CallIsRejected(f)
    BY <1>1, <2>3, MildRoot
  <2>4. CASE Deletes(f)
    BY <1>1, <2>4, MildDelete
  <2>5. CASE Clears(f)
    BY <2>5, ClearStep
  <2>6. CASE FlowLoads(f)
    BY <2>6, FlowLoadStep
  <2>7. CASE Saves(f) \/ SaveFails(f)
    BY <2>7, SaveStep
  <2>8. CASE RuntimeDoes(f) \/ CallReturns(f)
    BY <1>1, <2>8, MildCall
  <2> QED
    BY <1>3, <2>1, <2>2, <2>3, <2>4, <2>5, <2>6, <2>7, <2>8 DEF FlowSteps
<1>4. CASE OpensListed \/ Retries \/ \E network \in Networks : Picks(network)
  BY <1>1, <1>4, MildTaps
<1>5. CASE \/ \E op \in {"back", "recover"} : LeavesWallet(op)
           \/ \E network \in Networks : GuessesElse(network)
  BY <1>1, <1>5, MildLeaves
<1>6. CASE RemovesListed \/ RemovesActive \/ ClearsAll
  BY <1>1, <1>6, MildRemoves
<1>7. CASE \/ \E e \in WalletIds, network \in Networks : Submits(e, network)
           \/ SetsUpAnew
           \/ \E op \in {"create", "restore", "unlock"} : CallsRuntime(op)
  BY <1>1, <1>7, MildSetups
<1>8. CASE \/ \E kind \in {"list", "create", "restore"} : ShowsSetup(kind)
           \/ Acknowledges
           \/ \E e \in {"walletBecameReady", "syncPollExhausted"} : SyncEndsIn(e)
  BY <1>1, <1>8, MildRenders
<1>9. CASE RuntimeEnds
  BY <1>1, <1>9, MildEnd
<1>10. CASE Relaunches
  BY <1>10, RelaunchStep
<1>11. CASE UNCHANGED walletsVars
  <2>1. UNCHANGED <<written, stored, markers, directories, shown, refreshes, loads, flows, selection,
                    guess, onboarding, enginePhase, runtime, acts, faults, used, doomed, misread,
                    succeeded>>
    BY <1>11 DEF walletsVars, storage, registryHook, appView, engine, bounds, past
  <2> QED
    BY <2>1 DEF RegistryInv, WalletsTypeOK, ViewTypeOK, EntriesOf, LoadsOf, FlowsOf, FlowInv, Entitled,
                Editing, LoadInv, OthersSurvive, Sound, SeedInv, LegacyInv, FreshInv, Unseeded,
                HasLegacy
<1> QED
  BY <1>2, <1>3, <1>4, <1>5, <1>6, <1>7, <1>8, <1>9, <1>10, <1>11, Zenon DEF WalletsNext

(* The registry's inductive invariant holds in every reachable state.      *)
THEOREM RegistryInvariance == WalletsSpec => []RegistryInv
  BY WalletsStart, WalletsStep, PTL DEF WalletsSpec

(* The host follows its wallets as they are alone.                         *)
LEMMA FollowsRegistry == NativeAppSpec => WalletsSpec
<1>1. NativeAppInit => WalletsInit
  BY DEF NativeAppInit
<1>2. [NativeAppNext]_nativeAppVars => [WalletsNext]_walletsVars
  BY DEF NativeAppNext, nativeAppVars, FollowsActivity, FollowsWallets, FollowsPasskeys
<1> QED
  BY <1>1, <1>2, PTL DEF NativeAppSpec, WalletsSpec

(* No deletion takes a wallet's directory from the disk unless the user    *)
(* removed that wallet, whatever fails or comes late.                      *)
THEOREM DeletionsAreMeant == NativeAppSpec => []OthersSurvive
<1>1. RegistryInv => OthersSurvive
  BY DEF RegistryInv
<1> QED
  BY <1>1, RegistryInvariance, FollowsRegistry, PTL

(* As long as no change was made by a flow that could not read the list or *)
(* migrate the legacy wallet first, that wallet is listed, or about to be, *)
(* until the user removes it; and as long as no load of the hook failed to *)
(* read, the list shown is in the end the list stored: however loads and   *)
(* changes interleave, the app is killed, and whatever else storage fails. *)
THEOREM RegistryStaysTrue == NativeAppSpec => []RegistryIsTrue
<1>1. RegistryInv => RegistryIsTrue
  <2> SUFFICES ASSUME RegistryInv, "change" \notin misread
               PROVE  LegacyIsKept /\ ("hook" \notin misread => ListIsFresh)
    BY DEF RegistryIsTrue
  <2>1. LegacyIsKept
    BY DEF RegistryInv, LegacyIsKept, Sound, LegacyInv, Unseeded, HasLegacy
  <2>2. ASSUME "hook" \notin misread PROVE ListIsFresh
    BY <2>2 DEF RegistryInv, ListIsFresh, Sound, FreshInv
  <2> QED
    BY <2>1, <2>2
<1> QED
  BY <1>1, RegistryInvariance, FollowsRegistry, PTL

-----------------------------------------------------------------------------
(* The marks of the list                                                   *)

(* A wallet but the legacy one has its network from its setup on: net.     *)
Named(net, list) == \A x \in list : x.id # Legacy => x.network = net[x.id]

Proven(e, network) == \E d \in succeeded : d[1] = e /\ network \in {Nobody, d[2]}

Marked(list) ==
    \A x \in list : x.walletKind # "none" \/ (x.id = Legacy /\ x.network # Nobody) =>
                      Proven(x.id, x.network)

(* A flow knows the network of its wallet, a guess is one of the legacy    *)
(* wallet, and a flow will mark what its call has proven.                  *)
FlowNamed(net, f) ==
    /\ Named(net, f.read)
    /\ f.op = "setup" => f.entry \notin {Legacy, Nobody}
    /\ f.op = "setup" \/ f.at \in {"starting", "overtaken"} =>
         f.entry \in {Legacy, Nobody} \/ f.network = net[f.entry]
    /\ f.op = "guess" => f.entry = Legacy
    /\ (f.at \in {"call", "called"} \/ f.op = "stamp") /\ f.network # Nobody => f.entry = Legacy

FlowMarked(f) ==
    /\ Marked(f.read)
    /\ f.at = "called" \/ f.op = "stamp" => f.entry = Nobody \/ Proven(f.entry, f.network)

ToldBy(net) ==
    /\ Named(net, stored) /\ Named(net, shown.list)
    /\ \A r \in loads : Named(net, r.read)
    /\ \A f \in flows : FlowNamed(net, f)
    /\ runtime.entry \notin {Nobody, Legacy} => runtime.network = net[runtime.entry]
    /\ \A d \in succeeded : d[1] # Legacy => d[2] = net[d[1]]

(* Only the legacy wallet is picked a network for, and only before a start.*)
Forms == {"list", "create", "restore", "chooseNetwork"}

GuessInv ==
    /\ guess # Nobody => selection = Legacy
    /\ enginePhase \in PM!Phases
    /\ form \in Forms
    /\ enginePhase = "runtimeReady" => selection \in {Nobody, Legacy}

MarkInv == Marked(stored) /\ \A f \in flows : FlowMarked(f)

MarksInv ==
    /\ \E net \in [WalletIds -> Networks] : ToldBy(net)
    /\ GuessInv
    /\ <<Legacy, Home>> \in succeeded
    /\ ~crossed => MarkInv

(* Nothing but a launch makes the phase that of a runtime without a start. *)
Follows(p, q) == q \in PM!Phases /\ (q = "runtimeReady" => p = "runtimeReady")

LEMMA PhaseLeft ==
    ASSUME NEW p \in PM!Phases
    PROVE  /\ \A e \in {"startFailed", "stopRequested", "stopCompleted", "stopFailed",
                        "walletAdoptionFailed", "runtimeStopped", "walletBecameReady",
                        "syncPollExhausted"} : Follows(p, PM!Transition(p, e))
           /\ PM!Transition(p, "startRequested") \in PM!Phases \ {"runtimeReady"}
           /\ \A i : Follows(p, PM!OnInfo(p, i))
           /\ Follows(p, p)
<1> USE DEF PM!Phases, PM!RuntimePhases, PM!WalletPhases
<1>1. ASSUME NEW e \in {"startFailed", "stopRequested", "stopCompleted", "stopFailed",
                        "walletAdoptionFailed", "runtimeStopped", "walletBecameReady",
                        "syncPollExhausted"}
      PROVE  Follows(p, PM!Transition(p, e))
  BY DEF PM!Transition, PM!Target, Follows
<1>2. PM!Transition(p, "startRequested") \in PM!Phases \ {"runtimeReady"}
  BY DEF PM!Transition, PM!Target, PM!Accepts
<1>3. \A i : Follows(p, PM!OnInfo(p, i))
  BY DEF PM!OnInfo, PM!PhaseFromInfo, Follows
<1> QED
  BY <1>1, <1>2, <1>3 DEF Follows

LEMMA GuessKept ==
    ASSUME GuessInv, Follows(enginePhase, enginePhase'),
           form' \in {form, "list", "create", "restore"},
           \/ selection' = selection /\ guess' \in {guess, Nobody}
           \/ selection' = Nobody /\ guess' = Nobody
    PROVE  GuessInv'
  BY DEF GuessInv, Forms, Follows, PM!Phases, PM!RuntimePhases, PM!WalletPhases

(* What has been proven stays proven.                                      *)
LEMMA StaysMarked ==
    ASSUME succeeded \subseteq succeeded'
    PROVE  /\ \A list : Marked(list) => Marked(list)'
           /\ \A f : FlowMarked(f) => FlowMarked(f)'
<1>1. \A e, network : Proven(e, network) => Proven(e, network)'
  BY DEF Proven
<1>2. \A list : Marked(list) => Marked(list)'
  BY <1>1 DEF Marked
<1> QED
  BY <1>1, <1>2 DEF FlowMarked

(* A step tells the truth if what it adds does.                            *)
LEMMA Tells ==
    ASSUME MarksInv, NEW net \in [WalletIds -> Networks], ToldBy(net),
           GuessInv', succeeded \subseteq succeeded', crossed => crossed',
           stored' = stored \/ Named(net, stored'),
           shown' = shown \/ Named(net, shown'.list),
           \A r \in loads' : r \in loads \/ Named(net, r.read),
           \A f \in flows' : f \in flows \/ FlowNamed(net, f),
           runtime' = runtime \/
             (runtime'.entry \notin {Nobody, Legacy} => runtime'.network = net[runtime'.entry]),
           \A d \in succeeded' : d \in succeeded \/ (d[1] # Legacy => d[2] = net[d[1]]),
           ~crossed' /\ MarkInv => /\ stored' = stored \/ Marked(stored)'
                                   /\ \A f \in flows' : f \in flows \/ FlowMarked(f) \/ FlowMarked(f)'
    PROVE  MarksInv'
<1>1. ToldBy(net)'
  BY DEF ToldBy, Named
<1>2. <<Legacy, Home>> \in succeeded'
  BY DEF MarksInv
<1>3. ASSUME ~crossed' PROVE MarkInv'
  <2>1. MarkInv
    BY <1>3, Zenon DEF MarksInv
  <2>2. /\ stored' = stored \/ Marked(stored)'
        /\ \A f \in flows' : f \in flows \/ FlowMarked(f) \/ FlowMarked(f)'
    BY <1>3, <2>1
  <2>3. Marked(stored)'
    <3>1. CASE stored' = stored
      <4>1. PICK list : list = stored
        OBVIOUS
      <4>2. Marked(list)'
        BY <2>1, <4>1, StaysMarked DEF MarkInv
      <4> QED
        BY <3>1, <4>1, <4>2 DEF Marked, Proven
    <3> QED
      BY <2>2, <3>1
  <2>4. \A f \in flows' : FlowMarked(f)'
    BY <2>1, <2>2, StaysMarked DEF MarkInv
  <2> QED
    BY <2>3, <2>4 DEF MarkInv
<1> QED
  BY <1>1, <1>2, <1>3, Zenon DEF MarksInv

(* A flow that goes on to a place of no start and no call.                 *)
LEMMA FlowMoves ==
    ASSUME NEW U, NEW f \in FlowsOf(U), NEW net, FlowNamed(net, f),
           NEW at, at \notin {"starting", "overtaken", "call", "called"}
    PROVE  /\ FlowNamed(net, [f EXCEPT !.at = at])
           /\ FlowMarked(f) => FlowMarked([f EXCEPT !.at = at])
<1> DEFINE g == [f EXCEPT !.at = at]
<1>1. g.op = f.op /\ g.at = at /\ g.entry = f.entry /\ g.network = f.network /\ g.read = f.read
  BY DEF FlowsOf
<1> HIDE DEF g
<1>2. FlowNamed(net, g)
  BY <1>1 DEF FlowNamed
<1>3. FlowMarked(f) => FlowMarked(g)
  BY <1>1 DEF FlowMarked
<1> QED
  BY <1>2, <1>3 DEF g

(* The flows after stop().                                                 *)
LEMMA StopsNamed ==
    ASSUME NEW U, NEW net, NEW f, NEW others \in SUBSET FlowsOf(U), StopsIn(f, others),
           enginePhase \in PM!Phases,
           FlowNamed(net, f), \A h \in others : FlowNamed(net, h)
    PROVE  /\ \A g \in flows' : FlowNamed(net, g)
           /\ FlowMarked(f) /\ (\A h \in others : FlowMarked(h)) => \A g \in flows' : FlowMarked(g)
           /\ Follows(enginePhase, enginePhase')
<1>1. ASSUME NEW h \in others, h.at = "starting"
      PROVE  LET g == [h EXCEPT !.at = "overtaken"] IN
               FlowNamed(net, g) /\ (FlowMarked(h) => FlowMarked(g))
  <2> DEFINE g == [h EXCEPT !.at = "overtaken"]
  <2>1. g.op = h.op /\ g.at = "overtaken" /\ g.entry = h.entry /\ g.network = h.network
        /\ g.read = h.read
    BY DEF FlowsOf
  <2>2. FlowNamed(net, h)
    OBVIOUS
  <2> HIDE DEF g
  <2>3. FlowNamed(net, g)
    BY <1>1, <2>1, <2>2 DEF FlowNamed
  <2>4. FlowMarked(h) => FlowMarked(g)
    BY <2>1 DEF FlowMarked
  <2> QED
    BY <2>3, <2>4 DEF g
<1>2. /\ enginePhase' = PM!Transition(enginePhase, "stopRequested")
      /\ flows' = {f} \cup
           {IF g.at = "starting" THEN [g EXCEPT !.at = "overtaken"] ELSE g : g \in others}
  BY DEF StopsIn
<1>3. \A g \in flows' : g = f \/ \E h \in others : 
         (g = h \/ (h.at = "starting" /\ g = [h EXCEPT !.at = "overtaken"]))
  BY <1>2
<1>4. ASSUME NEW g \in flows'
      PROVE  /\ FlowNamed(net, g)
             /\ FlowMarked(f) /\ (\A h \in others : FlowMarked(h)) => FlowMarked(g)
  BY <1>1, <1>3
<1> QED
  BY <1>2, <1>4, PhaseLeft

(* An entry of the list, and a pick of a network for it.                   *)
Told(net, entry, override) ==
    /\ entry.id \in WalletIds
    /\ entry.id = Legacy \/ (entry.network = net[entry.id] /\ override = Nobody)

(* The view and the flows after openWallet.                                *)
LEMMA OpensNamed ==
    ASSUME NEW net \in [WalletIds -> Networks], NEW U, NEW f \in FlowsOf(U),
           NEW entry, NEW override, NEW p,
           OpensIn(f, entry, override, p), Told(net, entry, override), GuessInv,
           Follows(enginePhase, p),
           FlowNamed(net, f), f.op \in {"none", "setup", "guess"},
           f.op = "setup" => entry.id # Legacy, f.op = "guess" => entry.id = Legacy
    PROVE  /\ GuessInv'
           /\ \A g \in flows' : g \in flows \/ FlowNamed(net, g)
           /\ FlowMarked(f) => \A g \in flows' : g \in flows \/ FlowMarked(g)
<1> DEFINE network == IF override # Nobody THEN override ELSE entry.network
           g == [f EXCEPT !.at = "starting", !.entry = entry.id, !.network = network]
<1>1. flows' = flows \ {f} \/ flows' = (flows \ {f}) \cup {g}
  BY DEF OpensIn
<1>2. g.op = f.op /\ g.at = "starting" /\ g.entry = entry.id /\ g.network = network
      /\ g.read = f.read
  BY DEF FlowsOf
<1>3. entry.id = Legacy \/ network = net[entry.id]
  BY DEF Told
<1>4. Legacy # Nobody /\ entry.id # Nobody /\ Nobody \notin Networks
  BY NativeWalletsAssumption DEF Told
<1>5. entry.id # Legacy => entry.network # Nobody /\ override = Nobody
  BY <1>4 DEF Told
<1> HIDE DEF g, network
<1>6. FlowNamed(net, g)
  BY <1>2, <1>3, <1>4 DEF FlowNamed
<1>7. FlowMarked(f) => FlowMarked(g)
  BY <1>2 DEF FlowMarked
<1>8. GuessInv'
  <2>1. CASE entry.network = Nobody /\ override = Nobody
    <3>1. selection' = Legacy /\ guess' = guess /\ form' = "chooseNetwork" /\ enginePhase' = p
      BY <1>5, <2>1 DEF OpensIn
    <3> QED
      BY <3>1 DEF GuessInv, Forms, Follows, PM!Phases, PM!RuntimePhases, PM!WalletPhases
  <2>2. CASE ~(entry.network = Nobody /\ override = Nobody) /\ Opening(flows \ {f})
    <3>1. UNCHANGED <<selection, guess, form>> /\ enginePhase' = p
      BY <2>2 DEF OpensIn
    <3> QED
      BY <3>1, GuessKept
  <2>3. CASE ~(entry.network = Nobody /\ override = Nobody) /\ ~Opening(flows \ {f})
    <3>1. selection' = entry.id /\ guess' = override /\ form' = form
          /\ enginePhase' = PM!Transition(p, "startRequested")
      BY <2>3 DEF OpensIn
    <3>2. enginePhase' \in PM!Phases \ {"runtimeReady"}
      BY <3>1, PhaseLeft DEF Follows
    <3> QED
      BY <1>5, <3>1, <3>2 DEF GuessInv, Forms, PM!Phases, PM!RuntimePhases, PM!WalletPhases
  <2> QED
    BY <2>1, <2>2, <2>3
<1> QED
  BY <1>1, <1>6, <1>7, <1>8

(* A handler that has begun.                                               *)
LEMMA NewFlow ==
    ASSUME NEW net, NEW f, f.read = {},
           f.op \notin {"setup", "guess", "stamp"},
           f.at \notin {"starting", "overtaken", "called"},
           f.at = "call" /\ f.network # Nobody => f.entry = Legacy
    PROVE  FlowNamed(net, f) /\ FlowMarked(f)
  BY DEF FlowNamed, FlowMarked, Named, Marked

-----------------------------------------------------------------------------
(* Steps of the flows                                                      *)

(* A step that leaves the list alone, and proves nothing.                  *)
LEMMA TellsFlows ==
    ASSUME MarksInv, NEW net \in [WalletIds -> Networks], ToldBy(net), GuessInv',
           UNCHANGED <<stored, shown, loads, succeeded, crossed>>,
           runtime' \in {runtime, Stopped},
           \A f \in flows' : f \in flows \/ FlowNamed(net, f),
           MarkInv => \A f \in flows' : f \in flows \/ FlowMarked(f)
    PROVE  MarksInv'
<1>1. runtime' = runtime \/ runtime'.entry = Nobody
  BY DEF Stopped
<1>2. crossed => crossed'
  BY Zenon
<1> QED
  BY <1>1, <1>2, Tells

LEMMA StartMarks ==
    ASSUME RegistryInv, MarksInv, NEW f \in flows, StartLandsIn(f) \/ StartFailsIn(f)
    PROVE  MarksInv'
<1>1. PICK net \in [WalletIds -> Networks] : ToldBy(net)
  BY DEF MarksInv
<1>2. /\ UNCHANGED <<stored, shown, loads, succeeded, crossed, selection, guess, form>>
      /\ flows' = flows \ {f} /\ f.at \in {"starting", "overtaken"}
  BY DEF StartLandsIn, StartFailsIn, storage, registryHook, appView, past, Leaves
<1>3. FlowNamed(net, f)
  BY <1>1 DEF ToldBy
<1>4. Follows(enginePhase, enginePhase')
  BY PhaseLeft DEF StartLandsIn, StartFailsIn, MarksInv, GuessInv
<1>5. GuessInv'
  BY <1>2, <1>4, GuessKept DEF MarksInv
<1>6. \/ runtime' = runtime \/ runtime' = Stopped
      \/ runtime' = [entry |-> f.entry, network |-> f.network, open |-> FALSE]
  BY DEF StartLandsIn, StartFailsIn
<1>7. \/ runtime' = runtime
      \/ (runtime'.entry \notin {Nobody, Legacy} => runtime'.network = net[runtime'.entry])
  BY <1>2, <1>3, <1>6 DEF FlowNamed, Stopped
<1>8. crossed => crossed'
  BY <1>2, Zenon
<1> QED
  BY <1>1, <1>2, <1>5, <1>7, <1>8, Tells

LEMMA StopMarks ==
    ASSUME RegistryInv, MarksInv, NEW f \in flows, StopLandsIn(f) \/ StopFailsIn(f)
    PROVE  MarksInv'
<1>1. PICK net \in [WalletIds -> Networks] : ToldBy(net)
  BY DEF MarksInv
<1>2. /\ UNCHANGED <<stored, shown, loads, succeeded, crossed>> /\ runtime' \in {runtime, Stopped}
      /\ f \in FlowsOf(used)
  BY DEF StopLandsIn, StopFailsIn, storage, registryHook, past, RegistryInv, WalletsTypeOK
<1>3. PICK p : GoesOnAfterStop(f, p) /\ Follows(enginePhase, p)
  BY PhaseLeft DEF StopLandsIn, StopFailsIn, MarksInv, GuessInv
<1>4. FlowNamed(net, f) /\ GuessInv /\ (MarkInv => FlowMarked(f))
  BY <1>1 DEF ToldBy, MarksInv, MarkInv
<1>5. CASE f.at = "leaving"
  <2>1. /\ flows' = flows \ {f} /\ selection' = Nobody /\ guess' = Nobody /\ enginePhase' = p
        /\ form' \in {"list", "restore"}
    BY <1>3, <1>5 DEF GoesOnAfterStop, Resets, Leaves
  <2>2. GuessInv'
    BY <1>3, <1>4, <2>1, GuessKept
  <2> QED
    BY <1>1, <1>2, <2>1, <2>2, TellsFlows
<1>6. CASE f.at = "stopping" /\ f.op # "guess"
  <2>1. /\ flows' = (flows \ {f}) \cup {[f EXCEPT !.at = "root"]}
        /\ enginePhase' = p /\ UNCHANGED <<selection, guess, form>>
    BY <1>3, <1>6 DEF GoesOnAfterStop, Proceeds, appView
  <2>2. GuessInv'
    BY <1>3, <1>4, <2>1, GuessKept
  <2>3. /\ FlowNamed(net, [f EXCEPT !.at = "root"])
        /\ MarkInv => FlowMarked([f EXCEPT !.at = "root"])
    BY <1>2, <1>4, FlowMoves
  <2> QED
    BY <1>1, <1>2, <2>1, <2>2, <2>3, TellsFlows
<1>7. CASE f.at = "stopping" /\ f.op = "guess"
  <2> DEFINE entry == Entry(f.entry, Nobody, "password")
  <2>1. OpensIn(f, entry, f.network, p)
    BY <1>3, <1>7 DEF GoesOnAfterStop
  <2>2. f.entry = Legacy
    BY <1>4, <1>7 DEF FlowNamed
  <2>3. entry.id = Legacy /\ Told(net, entry, f.network)
    BY <2>2, NativeWalletsAssumption DEF Told, Entry
  <2> HIDE DEF entry
  <2>4. /\ GuessInv'
        /\ \A g \in flows' : g \in flows \/ FlowNamed(net, g)
        /\ FlowMarked(f) => \A g \in flows' : g \in flows \/ FlowMarked(g)
    BY <1>2, <1>3, <1>4, <1>7, <2>1, <2>3, OpensNamed
  <2> QED
    BY <1>1, <1>2, <1>4, <2>4, TellsFlows
<1> QED
  BY <1>3, <1>5, <1>6, <1>7 DEF GoesOnAfterStop

LEMMA WipeMarks ==
    ASSUME RegistryInv, MarksInv, NEW f \in flows,
           SetupIsPlaced(f) \/ RootFails(f) \/ ClearFails(f) \/ CallIsRejected(f) \/ Deletes(f)
    PROVE  MarksInv'
<1>1. PICK net \in [WalletIds -> Networks] : ToldBy(net)
  BY DEF MarksInv
<1>2. /\ UNCHANGED <<stored, shown, loads, succeeded, crossed, selection, guess, form, enginePhase,
                     runtime>>
      /\ f \in FlowsOf(used)
  BY DEF SetupIsPlaced, RootFails, ClearFails, CallIsRejected, Deletes, storage, registryHook, past,
         appView, engine, RegistryInv, WalletsTypeOK
<1>3. flows' = flows \ {f}
      \/ \E at \in {"check", "clear"} : flows' = (flows \ {f}) \cup {[f EXCEPT !.at = at]}
  BY DEF SetupIsPlaced, RootFails, ClearFails, CallIsRejected, Deletes, Wipes, WipesAll, WipeFails,
         Leaves, Proceeds
<1>4. FlowNamed(net, f) /\ GuessInv /\ (MarkInv => FlowMarked(f))
  BY <1>1 DEF ToldBy, MarksInv, MarkInv
<1>5. \A at \in {"check", "clear"} :
        /\ FlowNamed(net, [f EXCEPT !.at = at])
        /\ MarkInv => FlowMarked([f EXCEPT !.at = at])
  BY <1>2, <1>4, FlowMoves
<1>6. GuessInv'
  BY <1>2, <1>4 DEF GuessInv
<1> QED
  BY <1>1, <1>2, <1>3, <1>5, <1>6, TellsFlows

(* A call proves the entry of the daemon that executes it.                 *)
LEMMA CallMarks ==
    ASSUME RegistryInv, MarksInv, NEW f \in flows, RuntimeDoes(f)
    PROVE  MarksInv'
<1>1. PICK net \in [WalletIds -> Networks] : ToldBy(net)
  BY DEF MarksInv
<1> DEFINE place == <<runtime.entry, runtime.network>>
           g == [f EXCEPT !.at = "called"]
<1>2. /\ UNCHANGED <<stored, shown, loads, selection, guess, form, enginePhase>>
      /\ f \in FlowsOf(used) /\ f.at = "call" /\ runtime.entry # Nobody
      /\ flows' = (flows \ {f}) \cup {g}
      /\ succeeded' = succeeded \cup {place}
  BY DEF RuntimeDoes, storage, registryHook, appView, RegistryInv, WalletsTypeOK, Proceeds
<1>3. runtime'.entry = runtime.entry /\ runtime'.network = runtime.network
  BY DEF RuntimeDoes, RegistryInv, WalletsTypeOK, ViewTypeOK
<1>4. g.op = f.op /\ g.at = "called" /\ g.entry = f.entry /\ g.network = f.network /\ g.read = f.read
  BY <1>2 DEF FlowsOf
<1>5. place[1] = runtime.entry /\ place[2] = runtime.network
  OBVIOUS
<1>6. (crossed => crossed') /\ (~crossed' => MadeFor(f))
  BY Zenon DEF RuntimeDoes
<1>7. FlowNamed(net, f) /\ GuessInv /\ (MarkInv => FlowMarked(f))
  BY <1>1 DEF ToldBy, MarksInv, MarkInv
<1> HIDE DEF place, g
<1>8. FlowNamed(net, g)
  BY <1>2, <1>4, <1>7 DEF FlowNamed
<1>9. GuessInv'
  BY <1>2, <1>7 DEF GuessInv
<1>10. ASSUME ~crossed', MarkInv PROVE FlowMarked(g)'
  <2>1. MadeFor(f) /\ FlowMarked(f)'
    BY <1>2, <1>6, <1>7, <1>10, StaysMarked, Zenon
  <2>2. Proven(f.entry, f.network)'
    BY <1>2, <1>5, <2>1 DEF MadeFor, Proven
  <2> QED
    BY <1>4, <2>1, <2>2 DEF FlowMarked, Marked, Proven
<1>11. runtime.entry \notin {Nobody, Legacy} => runtime.network = net[runtime.entry]
  BY <1>1 DEF ToldBy
<1> QED
  BY <1>1, <1>2, <1>3, <1>5, <1>6, <1>8, <1>9, <1>10, <1>11, Tells

LEMMA ReturnMarks ==
    ASSUME RegistryInv, MarksInv, NEW f \in flows, CallReturns(f)
    PROVE  MarksInv'
<1>1. PICK net \in [WalletIds -> Networks] : ToldBy(net)
  BY DEF MarksInv
<1> DEFINE g == [f EXCEPT !.op = "stamp", !.at = "check"]
<1>2. /\ UNCHANGED <<stored, shown, loads, selection, form, succeeded, crossed, runtime>>
      /\ f \in FlowsOf(used) /\ f.at = "called" /\ guess' \in {guess, Nobody}
      /\ flows' = flows \ {f} \/ flows' = (flows \ {f}) \cup {g}
  BY DEF CallReturns, storage, registryHook, past, RegistryInv, WalletsTypeOK, Leaves
<1>3. Follows(enginePhase, enginePhase')
  BY PhaseLeft DEF CallReturns, MarksInv, GuessInv
<1>4. g.op = "stamp" /\ g.at = "check" /\ g.entry = f.entry /\ g.network = f.network /\ g.read = f.read
  BY <1>2 DEF FlowsOf
<1>5. FlowNamed(net, f) /\ GuessInv /\ (MarkInv => FlowMarked(f))
  BY <1>1 DEF ToldBy, MarksInv, MarkInv
<1> HIDE DEF g
<1>6. FlowNamed(net, g) /\ (MarkInv => FlowMarked(g))
  BY <1>2, <1>4, <1>5 DEF FlowNamed, FlowMarked
<1>7. GuessInv'
  BY <1>2, <1>3, <1>5, GuessKept
<1> QED
  BY <1>1, <1>2, <1>6, <1>7, TellsFlows

-----------------------------------------------------------------------------
(* Loads and writes of the list                                            *)

(* The seed is the legacy wallet, which was there.                         *)
LEMMA SeedMarks ==
    ASSUME NEW net \in [WalletIds -> Networks]
    PROVE  /\ Named(net, {Entry(Legacy, Nobody, "password")})
           /\ <<Legacy, Home>> \in succeeded => Marked({Entry(Legacy, Nobody, "password")})
<1> DEFINE x == Entry(Legacy, Nobody, "password")
<1>1. x.id = Legacy /\ x.network = Nobody
  BY DEF Entry
<1> HIDE DEF x
<1>2. Named(net, {x})
  BY <1>1 DEF Named
<1>3. ASSUME <<Legacy, Home>> \in succeeded PROVE Proven(x.id, x.network)
  <2>1. <<Legacy, Home>>[1] = Legacy
    OBVIOUS
  <2> QED
    BY <1>1, <1>3, <2>1 DEF Proven
<1> QED
  BY <1>2, <1>3 DEF Marked, x

(* The list in storage after a step of the migration.                      *)
LEMMA MigrationMarks ==
    ASSUME MarksInv, NEW net \in [WalletIds -> Networks], NEW r, NEW q, Migrates(r, q),
           succeeded' = succeeded
    PROVE  /\ stored' = stored \/ Named(net, stored')
           /\ stored' = stored \/ Marked(stored)'
<1>1. stored' = stored \/ stored' = {Entry(Legacy, Nobody, "password")}
  BY DEF Migrates, storage
<1>2. ASSUME stored' = {Entry(Legacy, Nobody, "password")} PROVE Marked(stored)'
  <2>1. <<Legacy, Home>> \in succeeded
    BY DEF MarksInv
  <2>2. Marked({Entry(Legacy, Nobody, "password")})
    BY <2>1, SeedMarks
  <2> QED
    BY <1>2, <2>2 DEF Marked, Proven
<1> QED
  BY <1>1, <1>2, SeedMarks

LEMMA HookMarks ==
    ASSUME RegistryInv, MarksInv, NEW r \in loads, HookLoads(r)
    PROVE  MarksInv'
<1>1. PICK net \in [WalletIds -> Networks] : ToldBy(net)
  BY DEF MarksInv
<1>2. /\ UNCHANGED <<flows, selection, guess, form, enginePhase, runtime, succeeded, crossed>>
      /\ r \in LoadsOf(used)
  BY Zenon DEF HookLoads, appView, engine, RegistryInv, WalletsTypeOK
<1>3. GuessInv' /\ (crossed => crossed')
  BY <1>2, Zenon DEF MarksInv, GuessInv
<1>4. Named(net, stored) /\ Named(net, r.read)
  BY <1>1 DEF ToldBy
<1>5. CASE \E at \in {"seed", "unmark", "read"} :
             /\ Migrates(r, [r EXCEPT !.at = at])
             /\ loads' = (loads \ {r}) \cup {[r EXCEPT !.at = at]}
             /\ UNCHANGED <<shown, misread>>
  <2>1. PICK at \in {"seed", "unmark", "read"} :
             /\ Migrates(r, [r EXCEPT !.at = at])
             /\ loads' = (loads \ {r}) \cup {[r EXCEPT !.at = at]}
             /\ shown' = shown
    BY <1>5
  <2>2. [r EXCEPT !.at = at].read = r.read
    BY <1>2 DEF LoadsOf
  <2>3. /\ stored' = stored \/ Named(net, stored')
        /\ stored' = stored \/ Marked(stored)'
    BY <1>2, <2>1, MigrationMarks
  <2> QED
    BY <1>1, <1>2, <1>3, <1>4, <2>1, <2>2, <2>3, Tells
<1>6. CASE \E list \in {stored, {}} :
             /\ Reads(r, list, "hook")
             /\ loads' = (loads \ {r}) \cup {[r EXCEPT !.at = "loaded", !.read = list]}
             /\ UNCHANGED <<storage, shown>>
  <2>1. PICK list \in {stored, {}} :
             /\ loads' = (loads \ {r}) \cup {[r EXCEPT !.at = "loaded", !.read = list]}
             /\ UNCHANGED <<stored, shown>>
    BY <1>6 DEF storage
  <2>2. [r EXCEPT !.at = "loaded", !.read = list].read = list
    BY <1>2 DEF LoadsOf
  <2>3. Named(net, list)
    BY <1>4 DEF Named
  <2> QED
    BY <1>1, <1>2, <1>3, <2>1, <2>2, <2>3, Tells
<1>7. CASE Lists(r) /\ UNCHANGED <<storage, faults, misread>>
  <2>1. stored' = stored /\ loads' = loads \ {r} /\ (shown' = shown \/ shown'.list = r.read)
    BY <1>7 DEF Lists, storage
  <2> QED
    BY <1>1, <1>2, <1>3, <1>4, <2>1, Tells
<1> QED
  BY <1>5, <1>6, <1>7, Zenon DEF HookLoads

LEMMA LoadMarks ==
    ASSUME RegistryInv, MarksInv, NEW f \in flows, FlowLoads(f)
    PROVE  MarksInv'
<1>1. PICK net \in [WalletIds -> Networks] : ToldBy(net)
  BY DEF MarksInv
<1>2. /\ UNCHANGED <<shown, loads, selection, guess, form, enginePhase, runtime, succeeded,
                     crossed>>
      /\ f \in FlowsOf(used)
  BY Zenon DEF FlowLoads, registryHook, appView, engine, RegistryInv, WalletsTypeOK
<1>3. GuessInv' /\ (crossed => crossed')
  BY <1>2, Zenon DEF MarksInv, GuessInv
<1>4. Named(net, stored) /\ FlowNamed(net, f) /\ (MarkInv => Marked(stored) /\ FlowMarked(f))
  BY <1>1 DEF ToldBy, MarkInv
<1>5. CASE \E at \in {"seed", "unmark", "read"} :
             /\ Migrates(f, [f EXCEPT !.at = at])
             /\ flows' = (flows \ {f}) \cup {[f EXCEPT !.at = at]}
             /\ misread' = IF f.at = "seed" /\ at = "read" THEN misread \cup {"change"} ELSE misread
  <2>1. PICK at \in {"seed", "unmark", "read"} :
             /\ Migrates(f, [f EXCEPT !.at = at])
             /\ flows' = (flows \ {f}) \cup {[f EXCEPT !.at = at]}
    BY <1>5
  <2>2. /\ FlowNamed(net, [f EXCEPT !.at = at])
        /\ MarkInv => FlowMarked([f EXCEPT !.at = at])
    BY <1>2, <1>4, FlowMoves
  <2>3. /\ stored' = stored \/ Named(net, stored')
        /\ stored' = stored \/ Marked(stored)'
    BY <1>2, <2>1, MigrationMarks
  <2> QED
    BY <1>1, <1>2, <1>3, <2>1, <2>2, <2>3, Tells
<1>6. CASE \E list \in {stored, {}} :
             /\ Reads(f, list, "change")
             /\ flows' = (flows \ {f}) \cup {[f EXCEPT !.at = "save", !.read = list]}
             /\ UNCHANGED storage
  <2>1. PICK list \in {stored, {}} :
             /\ flows' = (flows \ {f}) \cup {[f EXCEPT !.at = "save", !.read = list]}
             /\ stored' = stored
    BY <1>6 DEF storage
  <2> DEFINE g == [f EXCEPT !.at = "save", !.read = list]
  <2>2. g.read = list /\ g.at = "save" /\ g.op = f.op /\ g.entry = f.entry /\ g.network = f.network
    BY <1>2 DEF FlowsOf
  <2> HIDE DEF g
  <2>3. Named(net, list) /\ (MarkInv => Marked(list))
    BY <1>4 DEF Named, Marked
  <2>4. FlowNamed(net, g) /\ (MarkInv => FlowMarked(g))
    BY <1>4, <2>2, <2>3 DEF FlowNamed, FlowMarked
  <2> QED
    BY <1>1, <1>2, <1>3, <2>1, <2>4, Tells DEF g
<1> QED
  BY <1>5, <1>6, Zenon DEF FlowLoads

(* A change of the list keeps it true to the networks and the proofs.      *)
LEMMA EditedMarks ==
    ASSUME RegistryInv, NEW f \in flows, f.at = "save",
           NEW net \in [WalletIds -> Networks], ToldBy(net)
    PROVE  /\ Named(net, Edited(f))
           /\ <<Legacy, Home>> \in succeeded /\ FlowMarked(f) => Marked(Edited(f))
<1>1. f \in FlowsOf(used) /\ f.op \in Edits /\ f.read \subseteq EntriesOf(used) /\ used \subseteq WalletIds
  BY DEF RegistryInv, WalletsTypeOK, FlowInv, Editing, FlowsOf
<1>2. Named(net, f.read) /\ FlowNamed(net, f)
  BY DEF ToldBy, FlowNamed
<1>3. \A d \in succeeded : d[1] # Legacy => d[2] = net[d[1]]
  BY DEF ToldBy
<1>4. Legacy # Nobody /\ \A x \in f.read : x.id \in WalletIds
  BY <1>1, NativeWalletsAssumption DEF EntriesOf
<1>5. CASE f.op = "setup"
  <2> DEFINE x == Entry(f.entry, f.network, "none")
  <2>1. Edited(f) = f.read \cup {x} /\ x.id = f.entry /\ x.network = f.network /\ x.walletKind = "none"
    BY <1>5 DEF Edited, Entry
  <2>2. f.entry # Legacy /\ f.network = net[f.entry]
    BY <1>2, <1>5 DEF FlowNamed
  <2> HIDE DEF x
  <2>3. Named(net, Edited(f))
    BY <1>2, <2>1, <2>2 DEF Named
  <2>4. FlowMarked(f) => Marked(Edited(f))
    BY <2>1, <2>2 DEF FlowMarked, Marked
  <2> QED
    BY <2>3, <2>4
<1>6. CASE f.op \in {"remove", "removeBack"}
  <2>1. Edited(f) \subseteq f.read
    BY <1>6 DEF Edited
  <2> QED
    BY <1>2, <2>1 DEF Named, FlowMarked, Marked
<1>7. CASE f.op = "stamp"
  <2> DEFINE network(x) == IF f.network # Nobody THEN f.network ELSE x.network
             Stamped(x) == Entry(x.id, network(x), "password")
  <2>1. Edited(f) = {IF x.id = f.entry THEN Stamped(x) ELSE x : x \in f.read}
    BY <1>7 DEF Edited
  <2>2. \A x : Stamped(x).id = x.id /\ Stamped(x).network = network(x)
    BY DEF Entry
  <2>3. f.network # Nobody => f.entry = Legacy
    BY <1>2, <1>7 DEF FlowNamed
  <2>4. ASSUME NEW x \in f.read, x.id = f.entry
        PROVE  /\ x.id # Legacy => network(x) = net[x.id]
               /\ <<Legacy, Home>> \in succeeded /\ FlowMarked(f) => Proven(x.id, network(x))
    <3>1. x.id # Legacy => network(x) = x.network /\ x.network = net[x.id]
      BY <1>2, <2>3, <2>4 DEF Named
    <3>2. ASSUME <<Legacy, Home>> \in succeeded, FlowMarked(f) PROVE Proven(x.id, network(x))
      <4>1. f.entry # Nobody /\ Proven(f.entry, f.network)
        BY <1>4, <1>7, <2>4, <3>2, NativeWalletsAssumption DEF FlowMarked
      <4>2. CASE f.network # Nobody
        BY <2>4, <4>1, <4>2
      <4>3. CASE f.network = Nobody /\ x.id # Legacy
        BY <1>3, <2>4, <3>1, <4>1, <4>3 DEF Proven
      <4>4. CASE f.network = Nobody /\ x.id = Legacy /\ x.network # Nobody
        <5>1. Proven(x.id, x.network)
          BY <3>2, <4>4 DEF FlowMarked, Marked
        <5> QED
          BY <4>4, <5>1
      <4>5. CASE f.network = Nobody /\ x.network = Nobody
        BY <2>4, <4>1, <4>5
      <4> QED
        BY <4>2, <4>3, <4>4, <4>5
    <3> QED
      BY <3>1, <3>2
  <2> HIDE DEF network, Stamped
  <2>5. Named(net, Edited(f))
    BY <1>2, <2>1, <2>2, <2>4 DEF Named
  <2>6. ASSUME <<Legacy, Home>> \in succeeded, FlowMarked(f) PROVE Marked(Edited(f))
    <3>1. Marked(f.read)
      BY <2>6 DEF FlowMarked
    <3> QED
      BY <2>1, <2>2, <2>4, <2>6, <3>1 DEF Marked
  <2> QED
    BY <2>5, <2>6
<1>8. CASE f.op = "unstamp"
  <2> DEFINE Unstamped(x) == Entry(x.id, x.network, "none")
  <2>1. Edited(f) = {IF x.id = f.entry THEN Unstamped(x) ELSE x : x \in f.read}
    BY <1>8 DEF Edited
  <2>2. \A x : /\ Unstamped(x).id = x.id /\ Unstamped(x).network = x.network
               /\ Unstamped(x).walletKind = "none"
    BY DEF Entry
  <2> HIDE DEF Unstamped
  <2>3. Named(net, Edited(f))
    BY <1>2, <2>1, <2>2 DEF Named
  <2>4. FlowMarked(f) => Marked(Edited(f))
    BY <2>1, <2>2 DEF FlowMarked, Marked
  <2> QED
    BY <2>3, <2>4
<1> QED
  BY <1>1, <1>5, <1>6, <1>7, <1>8 DEF Edits

(* What follows a change of the list.                                      *)
LEMMA SavedMarks ==
    ASSUME RegistryInv, MarksInv, NEW f \in flows, Saved(f),
           NEW net \in [WalletIds -> Networks], ToldBy(net)
    PROVE  /\ GuessInv' /\ shown' = shown /\ runtime' = runtime
           /\ \A r \in loads' : r \in loads \/ Named(net, r.read)
           /\ \A g \in flows' : g \in flows \/ FlowNamed(net, g)
           /\ MarkInv => \A g \in flows' : g \in flows \/ FlowMarked(g)
<1>1. /\ f \in FlowsOf(used) /\ flows \in SUBSET FlowsOf(used) /\ Entitled(f)
      /\ used \subseteq WalletIds
      /\ Refresh /\ UNCHANGED <<runtime, shown>>
  BY DEF RegistryInv, WalletsTypeOK, FlowInv, Saved, Refresh
<1>2. \A r \in loads' : r \in loads \/ Named(net, r.read)
  BY <1>1 DEF Refresh, LoadOf, Named
<1>3. /\ GuessInv /\ FlowNamed(net, f) /\ (MarkInv => FlowMarked(f))
      /\ Follows(enginePhase, enginePhase)
  BY PhaseLeft DEF MarksInv, MarkInv, ToldBy, GuessInv
<1>4. CASE f.op = "setup" /\ OpensIn(f, Entry(f.entry, f.network, "none"), Nobody, enginePhase)
  <2> DEFINE entry == Entry(f.entry, f.network, "none")
  <2>1. entry.id = f.entry /\ entry.network = f.network
    BY DEF Entry
  <2>2. OpensIn(f, entry, Nobody, enginePhase)
    BY <1>4
  <2> HIDE DEF entry
  <2>3. Told(net, entry, Nobody) /\ entry.id # Legacy
    BY <1>1, <1>3, <1>4, <2>1 DEF Told, FlowNamed, Entitled
  <2>4. /\ GuessInv'
        /\ \A g \in flows' : g \in flows \/ FlowNamed(net, g)
        /\ FlowMarked(f) => \A g \in flows' : g \in flows \/ FlowMarked(g)
    BY <1>1, <1>3, <1>4, <2>2, <2>3, OpensNamed
  <2> QED
    BY <1>1, <1>2, <1>3, <2>4
<1>5. CASE /\ f.op = "removeBack" /\ StopsIn([f EXCEPT !.at = "leaving"], flows \ {f})
           /\ UNCHANGED <<selection, form, guess, onboarding>>
  <2> DEFINE s == [f EXCEPT !.at = "leaving"]
  <2>1. FlowNamed(net, s) /\ (FlowMarked(f) => FlowMarked(s))
    BY <1>1, <1>3, FlowMoves
  <2>2. StopsIn(s, flows \ {f}) /\ flows \ {f} \in SUBSET FlowsOf(used)
    BY <1>1, <1>5
  <2>3. /\ \A h \in flows \ {f} : FlowNamed(net, h)
        /\ MarkInv => \A h \in flows : FlowMarked(h)
    BY DEF ToldBy, MarkInv
  <2> HIDE DEF s
  <2>4. /\ \A g \in flows' : FlowNamed(net, g)
        /\ FlowMarked(s) /\ (\A h \in flows \ {f} : FlowMarked(h)) => \A g \in flows' : FlowMarked(g)
        /\ Follows(enginePhase, enginePhase')
    BY <1>3, <2>1, <2>2, <2>3, StopsNamed DEF GuessInv
  <2>5. GuessInv'
    BY <1>3, <1>5, <2>4 DEF GuessInv, Follows
  <2> QED
    BY <1>1, <1>2, <1>3, <2>1, <2>3, <2>4, <2>5
<1>6. CASE /\ f.op \in {"remove", "stamp", "unstamp"} /\ Leaves(f)
           /\ UNCHANGED <<selection, form, guess, onboarding, enginePhase>>
  <2>1. GuessInv' /\ flows' \subseteq flows
    BY <1>3, <1>6 DEF GuessInv, Leaves
  <2> QED
    BY <1>1, <1>2, <2>1
<1> QED
  BY <1>4, <1>5, <1>6 DEF Saved

LEMMA SaveMarks ==
    ASSUME RegistryInv, MarksInv, NEW f \in flows, Saves(f) \/ SaveFails(f)
    PROVE  MarksInv'
<1>1. PICK net \in [WalletIds -> Networks] : ToldBy(net)
  BY DEF MarksInv
<1>2. f.at = "save" /\ Saved(f) /\ UNCHANGED <<succeeded, crossed>> /\ stored' \in {stored, Edited(f)}
  BY DEF Saves, SaveFails, past, storage
<1>3. /\ GuessInv' /\ shown' = shown /\ runtime' = runtime
      /\ \A r \in loads' : r \in loads \/ Named(net, r.read)
      /\ \A g \in flows' : g \in flows \/ FlowNamed(net, g)
      /\ MarkInv => \A g \in flows' : g \in flows \/ FlowMarked(g)
  BY <1>1, <1>2, SavedMarks
<1>4. /\ Named(net, Edited(f))
      /\ <<Legacy, Home>> \in succeeded /\ FlowMarked(f) => Marked(Edited(f))
  BY <1>1, <1>2, EditedMarks
<1>5. PICK list \in {stored, Edited(f)} : stored' = list
  BY <1>2
<1>6. MarkInv => list = stored \/ Marked(list)'
  BY <1>2, <1>4, StaysMarked DEF MarksInv, MarkInv
<1>7. MarkInv => stored' = stored \/ Marked(stored)'
  BY <1>5, <1>6 DEF Marked, Proven
<1>8. crossed => crossed'
  BY <1>2, Zenon
<1> QED
  BY <1>1, <1>2, <1>3, <1>4, <1>5, <1>7, <1>8, Tells

LEMMA ClearMarks ==
    ASSUME RegistryInv, MarksInv, NEW f \in flows, Clears(f)
    PROVE  MarksInv'
<1>1. PICK net \in [WalletIds -> Networks] : ToldBy(net)
  BY DEF MarksInv
<1>2. /\ stored' = {} /\ flows' = flows \ {f}
      /\ selection' = Nobody /\ guess' = Nobody /\ form' = "list"
      /\ UNCHANGED <<shown, runtime, succeeded, crossed, enginePhase>>
      /\ loads' = loads \cup {LoadOf(refreshes')}
  BY DEF Clears, Leaves, Resets, Refresh, engine
<1>3. GuessInv'
  <2>1. Follows(enginePhase, enginePhase')
    BY <1>2, PhaseLeft DEF MarksInv, GuessInv
  <2> QED
    BY <1>2, <2>1, GuessKept DEF MarksInv
<1>4. Named(net, stored') /\ Marked(stored)' /\ Named(net, LoadOf(refreshes').read)
  BY <1>2 DEF Named, Marked, LoadOf
<1>5. crossed => crossed'
  BY <1>2, Zenon
<1> QED
  BY <1>1, <1>2, <1>3, <1>4, <1>5, Tells

-----------------------------------------------------------------------------
(* The user, and the host                                                  *)

(* The list shown tells of its entries.                                    *)
LEMMA ShownTold ==
    ASSUME RegistryInv, NEW net \in [WalletIds -> Networks], ToldBy(net), NEW x \in shown.list,
           NEW override, override = Nobody \/ x.id = Legacy
    PROVE  Told(net, x, override)
  BY ShownTyped DEF RegistryInv, WalletsTypeOK, ToldBy, Named, Told

LEMMA TapMarks ==
    ASSUME RegistryInv, MarksInv, OpensListed \/ Retries \/ \E network \in Networks : Picks(network)
    PROVE  MarksInv'
<1>1. PICK net \in [WalletIds -> Networks] : ToldBy(net)
  BY DEF MarksInv
<1>2. /\ GuessInv /\ selection \in used \cup {Nobody} /\ used \subseteq WalletIds
      /\ onboarding \in {"create", "restore"} /\ acts \in Nat /\ guess \in NetworkChoices
      /\ Follows(enginePhase, enginePhase)
  BY PhaseLeft DEF GuessInv, MarksInv, RegistryInv, WalletsTypeOK, ViewTypeOK
<1>3. PICK x \in shown.list, override \in NetworkChoices, how \in {"create", "restore"} :
        TapsOpen(x, override, how) /\ (override = Nobody \/ x.id = Legacy)
  <2>1. CASE OpensListed
    BY <2>1 DEF OpensListed, NetworkChoices
  <2>2. CASE Retries
    BY <1>2, <2>2 DEF Retries, Active, GuessInv
  <2>3. CASE \E network \in Networks : Picks(network)
    <3>1. PICK network \in Networks : Picks(network)
      BY <2>3
    <3>2. PICK x \in Active : TapsOpen(x, network, "create") /\ NativeScreen = "chooseNetwork"
      BY <3>1 DEF Picks
    <3>3. x \in shown.list /\ x.id = selection /\ Active # {}
      BY DEF Active
    <3>4. enginePhase = "runtimeReady"
      BY <1>2, <3>2, <3>3 DEF NativeScreen, GuessInv, PM!Phases, PM!RuntimePhases, PM!WalletPhases
    <3>5. x.id \in WalletIds
      BY <1>2, <3>3, ShownTyped DEF RegistryInv
    <3> QED
      BY <1>2, <3>2, <3>3, <3>4, <3>5, NativeWalletsAssumption
         DEF GuessInv, NetworkChoices
  <2> QED
    BY <2>1, <2>2, <2>3
<1> DEFINE f == [Flow EXCEPT !.mode = how, !.n = acts]
<1>4. /\ OpensIn(f, x, override, enginePhase)
      /\ UNCHANGED <<stored, shown, loads, succeeded, crossed, runtime>>
  BY <1>3 DEF TapsOpen, storage, registryHook, past
<1>5. Told(net, x, override)
  BY <1>1, <1>3, ShownTold
<1>6. f \in FlowsOf(used) /\ f.op = "none" /\ f.at = "none" /\ f.read = {}
  BY <1>2, <1>3 DEF Flow, FlowsOf, FlowOps, FlowPlaces, NetworkChoices
<1>7. FlowNamed(net, f) /\ FlowMarked(f)
  BY <1>6, NewFlow
<1> HIDE DEF f
<1>8. /\ GuessInv'
      /\ \A g \in flows' : g \in flows \/ FlowNamed(net, g)
      /\ \A g \in flows' : g \in flows \/ FlowMarked(g)
  BY <1>2, <1>4, <1>5, <1>6, <1>7, OpensNamed
<1> QED
  BY <1>1, <1>4, <1>8, TellsFlows

(* What the user does begins one handler at most.                          *)
LEMMA BeginMarks ==
    ASSUME RegistryInv, MarksInv, NEW net \in [WalletIds -> Networks], ToldBy(net), NEW f,
           (Begins(f) /\ UNCHANGED <<selection, guess, form>>) \/ BeginsWithStop(f),
           FlowNamed(net, [f EXCEPT !.n = acts]), FlowMarked([f EXCEPT !.n = acts])
    PROVE  MarksInv'
<1> DEFINE g == [f EXCEPT !.n = acts]
<1>1. /\ UNCHANGED <<stored, shown, loads, succeeded, crossed, selection, guess, form, runtime>>
      /\ \/ flows' = flows \cup {g} /\ enginePhase' = enginePhase
         \/ StopsIn(g, flows)
  BY DEF Begins, BeginsWithStop, storage, registryHook, engine, appView
<1> HIDE DEF g
<1>2. /\ GuessInv /\ flows \in SUBSET FlowsOf(used)
      /\ \A h \in flows : FlowNamed(net, h)
      /\ MarkInv => \A h \in flows : FlowMarked(h)
  BY DEF MarksInv, MarkInv, ToldBy, RegistryInv, WalletsTypeOK
<1>3. FlowNamed(net, g) /\ FlowMarked(g)
  BY DEF g
<1>4. CASE flows' = flows \cup {g} /\ enginePhase' = enginePhase
  <2>1. Follows(enginePhase, enginePhase')
    BY <1>2, <1>4, PhaseLeft DEF GuessInv
  <2>2. GuessInv'
    BY <1>1, <1>2, <2>1, GuessKept
  <2> QED
    BY <1>1, <1>3, <1>4, <2>2, TellsFlows
<1>5. CASE StopsIn(g, flows)
  <2>1. /\ \A h \in flows' : FlowNamed(net, h)
        /\ FlowMarked(g) /\ (\A h \in flows : FlowMarked(h)) => \A h \in flows' : FlowMarked(h)
        /\ Follows(enginePhase, enginePhase')
    BY <1>2, <1>3, <1>5, StopsNamed DEF GuessInv
  <2>2. GuessInv'
    BY <1>1, <1>2, <2>1, GuessKept
  <2> QED
    BY <1>1, <1>2, <1>3, <2>1, <2>2, TellsFlows
<1> QED
  BY <1>1, <1>4, <1>5

(* A handler of the user's that neither opens, calls, marks nor guesses.   *)
PlainOps == {"remove", "removeBack", "wipeAll", "back", "recover", "unstamp"}
PlainPlaces == {"root", "stopping", "leaving", "check"}

LEMMA PlainMarks ==
    ASSUME RegistryInv, MarksInv, NEW f, f.op \in PlainOps, f.at \in PlainPlaces, f.read = {},
           NEW U, f \in FlowsOf(U),
           (Begins(f) /\ UNCHANGED <<selection, guess, form>>) \/ BeginsWithStop(f)
    PROVE  MarksInv'
<1>1. PICK net \in [WalletIds -> Networks] : ToldBy(net)
  BY DEF MarksInv
<1> DEFINE g == [f EXCEPT !.n = acts]
<1>2. g.op = f.op /\ g.at = f.at /\ g.read = {}
  BY DEF FlowsOf
<1> HIDE DEF g
<1>3. FlowNamed(net, g) /\ FlowMarked(g)
  BY <1>2, NewFlow DEF PlainOps, PlainPlaces
<1>4. FlowNamed(net, [f EXCEPT !.n = acts]) /\ FlowMarked([f EXCEPT !.n = acts])
  BY <1>3 DEF g
<1> QED
  BY <1>1, <1>4, BeginMarks

LEMMA HandlerMarks ==
    ASSUME RegistryInv, MarksInv,
           \/ \E op \in {"back", "recover"} : LeavesWallet(op)
           \/ RemovesListed \/ RemovesActive \/ ClearsAll \/ SetsUpAnew
    PROVE  MarksInv'
<1>0. WalletsTypeOK /\ selection \in used \cup {Nobody}
  BY DEF RegistryInv, WalletsTypeOK, ViewTypeOK
<1>1. CASE \E op \in {"back", "recover"} : LeavesWallet(op)
  <2>1. PICK op \in {"back", "recover"} : BeginsWithStop([Flow EXCEPT !.op = op, !.at = "leaving"])
    BY <1>1, Zenon DEF LeavesWallet
  <2> DEFINE f == [Flow EXCEPT !.op = op, !.at = "leaving"]
  <2>2. f \in FlowsOf(used) /\ f.op = op /\ f.at = "leaving" /\ f.read = {}
    BY DEF Flow, FlowsOf, FlowOps, FlowPlaces, NetworkChoices
  <2>3. BeginsWithStop(f)
    BY <2>1
  <2> HIDE DEF f
  <2> QED
    BY <2>2, <2>3, PlainMarks DEF PlainOps, PlainPlaces
<1>2. CASE RemovesListed
  <2>1. PICK x \in shown.list :
          \/ BeginsWithStop([[Flow EXCEPT !.op = "remove", !.entry = x.id] EXCEPT !.at = "stopping"])
          \/ /\ Begins([[Flow EXCEPT !.op = "remove", !.entry = x.id] EXCEPT !.at = "root"])
             /\ UNCHANGED <<appView, used>>
    BY <1>2, Zenon DEF RemovesListed
  <2> DEFINE f(at) == [[Flow EXCEPT !.op = "remove", !.entry = x.id] EXCEPT !.at = at]
  <2>2. x.id \in used
    BY <1>0, ShownTyped
  <2>3. \A at \in {"stopping", "root"} :
          f(at) \in FlowsOf(used) /\ f(at).op = "remove" /\ f(at).at = at /\ f(at).read = {}
    BY <2>2 DEF Flow, FlowsOf, FlowOps, FlowPlaces, NetworkChoices
  <2>4. UNCHANGED <<appView, used>> => UNCHANGED <<selection, guess, form>>
    BY DEF appView
  <2>5. BeginsWithStop(f("stopping")) \/ (Begins(f("root")) /\ UNCHANGED <<selection, guess, form>>)
    BY <2>1, <2>4
  <2> HIDE DEF f
  <2> QED
    BY <2>3, <2>5, PlainMarks DEF PlainOps, PlainPlaces
<1>3. CASE RemovesActive
  <2>1. PICK x \in shown.list :
          BeginsWithStop([Flow EXCEPT !.op = "removeBack", !.at = "stopping", !.entry = x.id])
    <3>1. \A x \in Active : x \in shown.list
      BY DEF Active
    <3> QED
      BY <1>3, <3>1, Zenon DEF RemovesActive
  <2> DEFINE f == [Flow EXCEPT !.op = "removeBack", !.at = "stopping", !.entry = x.id]
  <2>2. x.id \in used
    BY <1>0, ShownTyped
  <2>3. f \in FlowsOf(used) /\ f.op = "removeBack" /\ f.at = "stopping" /\ f.read = {}
    BY <2>2 DEF Flow, FlowsOf, FlowOps, FlowPlaces, NetworkChoices
  <2>4. BeginsWithStop(f)
    BY <2>1
  <2> HIDE DEF f
  <2> QED
    BY <2>3, <2>4, PlainMarks DEF PlainOps, PlainPlaces
<1>4. CASE ClearsAll
  <2> DEFINE f == [Flow EXCEPT !.op = "wipeAll", !.at = "stopping"]
  <2>1. BeginsWithStop(f)
    BY <1>4 DEF ClearsAll
  <2>2. f \in FlowsOf(used) /\ f.op = "wipeAll" /\ f.at = "stopping" /\ f.read = {}
    BY DEF Flow, FlowsOf, FlowOps, FlowPlaces, NetworkChoices
  <2> HIDE DEF f
  <2> QED
    BY <2>1, <2>2, PlainMarks DEF PlainOps, PlainPlaces
<1>5. CASE SetsUpAnew
  <2> DEFINE f == [Flow EXCEPT !.op = "unstamp", !.at = "check", !.entry = selection]
  <2>1. Begins(f) /\ UNCHANGED <<selection, guess, form>>
    BY <1>5 DEF SetsUpAnew
  <2>2. f \in FlowsOf(used) /\ f.op = "unstamp" /\ f.at = "check" /\ f.read = {}
    BY <1>0 DEF Flow, FlowsOf, FlowOps, FlowPlaces, NetworkChoices
  <2> HIDE DEF f
  <2> QED
    BY <2>1, <2>2, PlainMarks DEF PlainOps, PlainPlaces
<1> QED
  BY <1>1, <1>2, <1>3, <1>4, <1>5

LEMMA GuessMarks ==
    ASSUME RegistryInv, MarksInv,
           \/ \E network \in Networks : GuessesElse(network)
           \/ \E op \in {"create", "restore", "unlock"} : CallsRuntime(op)
    PROVE  MarksInv'
<1>1. PICK net \in [WalletIds -> Networks] : ToldBy(net)
  BY DEF MarksInv
<1>2. GuessInv
  BY DEF MarksInv
<1>3. CASE \E network \in Networks : GuessesElse(network)
  <2>1. PICK network \in Networks : GuessesElse(network)
    BY <1>3
  <2> DEFINE f == [Flow EXCEPT !.op = "guess", !.at = "stopping", !.entry = selection,
                               !.network = network]
             g == [f EXCEPT !.n = acts]
  <2>2. BeginsWithStop(f)
    BY <2>1, Zenon DEF GuessesElse
  <2>3. guess # Nobody
    BY <1>2, <2>1 DEF GuessesElse, NativeScreen, PreStart, GuessInv, Forms, PM!Phases, PM!RuntimePhases,
                      PM!WalletPhases
  <2>4. g.op = "guess" /\ g.at = "stopping" /\ g.entry = selection /\ g.read = {}
    BY DEF Flow
  <2> HIDE DEF g
  <2>5. FlowNamed(net, g) /\ FlowMarked(g)
    BY <1>2, <2>3, <2>4 DEF GuessInv, FlowNamed, FlowMarked, Named, Marked
  <2> HIDE DEF f
  <2>6. FlowNamed(net, [f EXCEPT !.n = acts]) /\ FlowMarked([f EXCEPT !.n = acts])
    BY <2>5 DEF g
  <2> QED
    BY <1>1, <2>2, <2>6, BeginMarks
<1>4. CASE \E op \in {"create", "restore", "unlock"} : CallsRuntime(op)
  <2>1. PICK op \in {"create", "restore", "unlock"} : CallsRuntime(op)
    BY <1>4
  <2> DEFINE f == [Flow EXCEPT !.op = op, !.at = "call", !.entry = selection, !.network = guess]
             g == [f EXCEPT !.n = acts]
  <2>2. Begins(f) /\ UNCHANGED <<selection, guess, form>>
    BY <2>1 DEF CallsRuntime, appView
  <2>3. g.op = op /\ g.at = "call" /\ g.entry = selection /\ g.network = guess /\ g.read = {}
    BY DEF Flow
  <2> HIDE DEF g
  <2>4. FlowNamed(net, g) /\ FlowMarked(g)
    BY <1>2, <2>3, NewFlow DEF GuessInv
  <2> HIDE DEF f
  <2>5. FlowNamed(net, [f EXCEPT !.n = acts]) /\ FlowMarked([f EXCEPT !.n = acts])
    BY <2>4 DEF g
  <2> QED
    BY <1>1, <2>2, <2>5, BeginMarks
<1> QED
  BY <1>3, <1>4

(* A new wallet gets its network from its setup: no one has named it yet.  *)
LEMMA SubmitMarks ==
    ASSUME RegistryInv, MarksInv, \E e \in WalletIds, network \in Networks : Submits(e, network)
    PROVE  MarksInv'
<1>1. PICK old \in [WalletIds -> Networks] : ToldBy(old)
  BY DEF MarksInv
<1>2. PICK e \in WalletIds, network \in Networks : Submits(e, network)
  OBVIOUS
<1> DEFINE net == [old EXCEPT ![e] = network]
           f == [Flow EXCEPT !.op = "setup", !.at = "root", !.entry = e, !.network = network,
                             !.mode = NativeScreen]
           g == [f EXCEPT !.n = acts]
<1>3. Begins(f) /\ e \notin used /\ UNCHANGED <<selection, guess, form>>
  BY <1>2, Zenon DEF Submits, appView
<1>4. /\ net \in [WalletIds -> Networks] /\ net[e] = network
      /\ \A i \in used : net[i] = old[i]
  <2>1. used \subseteq WalletIds
    BY DEF RegistryInv, WalletsTypeOK
  <2> QED
    BY <1>3, <2>1
<1>5. g.op = "setup" /\ g.at = "root" /\ g.entry = e /\ g.network = network /\ g.read = {}
  BY DEF Flow
<1>6. e # Legacy /\ e # Nobody
  BY <1>3, NativeWalletsAssumption DEF RegistryInv, WalletsTypeOK
<1> HIDE DEF net, g
<1>7. \A list \in SUBSET EntriesOf(used) : Named(old, list) => Named(net, list)
  BY <1>4 DEF Named, EntriesOf
<1>8. ToldBy(net)
  <2>1. /\ stored \in SUBSET EntriesOf(used) /\ shown.list \in SUBSET EntriesOf(used)
        /\ \A r \in loads : r.read \in SUBSET EntriesOf(used)
        /\ \A h \in flows : h.read \in SUBSET EntriesOf(used) /\ h.entry \in used \cup {Nobody}
        /\ runtime.entry \in used \cup {Nobody}
        /\ \A d \in succeeded : d[1] \in used
    BY DEF RegistryInv, WalletsTypeOK, ViewTypeOK, LoadsOf, FlowsOf
  <2>2. \A h \in flows : FlowNamed(net, h)
    BY <1>1, <1>4, <1>7, <2>1 DEF ToldBy, FlowNamed
  <2> QED
    BY <1>1, <1>4, <1>7, <2>1, <2>2 DEF ToldBy
<1>9. FlowNamed(net, g) /\ FlowMarked(g)
  BY <1>4, <1>5, <1>6 DEF FlowNamed, FlowMarked, Named, Marked
<1> HIDE DEF f
<1>10. FlowNamed(net, [f EXCEPT !.n = acts]) /\ FlowMarked([f EXCEPT !.n = acts])
  BY <1>9 DEF g
<1> QED
  BY <1>3, <1>4, <1>8, <1>10, BeginMarks

(* Renders, polls and the death of the runtime touch no list and no flow.  *)
LEMMA RenderMarks ==
    ASSUME RegistryInv, MarksInv,
           \/ \E kind \in {"list", "create", "restore"} : ShowsSetup(kind)
           \/ Acknowledges \/ RuntimeEnds
           \/ \E e \in {"walletBecameReady", "syncPollExhausted"} : SyncEndsIn(e)
    PROVE  MarksInv'
<1>1. PICK net \in [WalletIds -> Networks] : ToldBy(net)
  BY DEF MarksInv
<1>2. GuessInv /\ enginePhase \in PM!Phases
  BY DEF MarksInv, GuessInv
<1>3. /\ UNCHANGED <<stored, shown, loads, flows, selection, guess, succeeded, crossed>>
      /\ runtime' \in {runtime, Stopped}
      /\ form' \in {form, "list", "create", "restore"}
  BY DEF ShowsSetup, Acknowledges, RuntimeEnds, SyncEndsIn, storage, registryHook, appView, engine,
         past
<1>4. \/ enginePhase' = enginePhase
      \/ \E e \in {"runtimeStopped", "walletBecameReady", "syncPollExhausted"} :
           enginePhase' = PM!Transition(enginePhase, e)
  BY DEF ShowsSetup, Acknowledges, RuntimeEnds, SyncEndsIn, engine
<1>5. Follows(enginePhase, enginePhase')
  BY <1>2, <1>4, PhaseLeft
<1>6. GuessInv'
  BY <1>2, <1>3, <1>5, GuessKept
<1> QED
  BY <1>1, <1>3, <1>6, TellsFlows

(* A launch begins with nothing but what is stored.                        *)
LEMMA RelaunchMarks ==
    ASSUME RegistryInv, MarksInv, Relaunches
    PROVE  MarksInv'
<1>1. PICK net \in [WalletIds -> Networks] : ToldBy(net)
  BY DEF MarksInv
<1>2. /\ shown' = NotLoaded /\ loads' = {LoadOf(0)} /\ flows' = {}
      /\ selection' = Nobody /\ form' = "list" /\ guess' = Nobody
      /\ enginePhase' = "runtimeReady" /\ runtime' = Stopped
      /\ UNCHANGED <<stored, succeeded, crossed>>
  BY DEF Relaunches, storage, past
<1>3. GuessInv'
  BY <1>2 DEF GuessInv, Forms, PM!Phases, PM!RuntimePhases, PM!WalletPhases
<1>4. /\ Named(net, NotLoaded.list) /\ Named(net, LoadOf(0).read)
      /\ Stopped.entry = Nobody
  BY DEF Named, NotLoaded, LoadOf, Stopped
<1>5. crossed => crossed'
  BY <1>2, Zenon
<1> QED
  BY <1>1, <1>2, <1>3, <1>4, <1>5, Tells

LEMMA MarksStart == WalletsInit => MarksInv
<1> SUFFICES ASSUME WalletsInit PROVE MarksInv
  OBVIOUS
<1> DEFINE net == [i \in WalletIds |-> Home]
<1>1. /\ stored = {} /\ shown = NotLoaded /\ loads = {LoadOf(0)} /\ flows = {}
      /\ selection = Nobody /\ form = "list" /\ guess = Nobody
      /\ enginePhase = "runtimeReady" /\ runtime = Stopped
      /\ succeeded = {<<Legacy, Home>>}
  BY DEF WalletsInit
<1>2. net \in [WalletIds -> Networks]
  BY NativeWalletsAssumption
<1>3. \A d \in succeeded : d[1] = Legacy
  BY <1>1
<1> HIDE DEF net
<1>4. ToldBy(net)
  BY <1>1, <1>3 DEF ToldBy, Named, NotLoaded, LoadOf, Stopped
<1>5. GuessInv
  BY <1>1 DEF GuessInv, Forms, PM!Phases, PM!RuntimePhases, PM!WalletPhases
<1>6. MarkInv
  BY <1>1 DEF MarkInv, Marked
<1> QED
  BY <1>1, <1>2, <1>4, <1>5, <1>6 DEF MarksInv

LEMMA MarksStep == RegistryInv /\ MarksInv /\ [WalletsNext]_walletsVars => MarksInv'
<1> SUFFICES ASSUME RegistryInv, MarksInv, [WalletsNext]_walletsVars PROVE MarksInv'
  OBVIOUS
<1>1. ASSUME NEW r \in loads, HookLoads(r) PROVE MarksInv'
  BY <1>1, HookMarks
<1>2. ASSUME NEW f \in flows, FlowSteps(f) PROVE MarksInv'
  <2>1. CASE StartLandsIn(f) \/ StartFailsIn(f)
    BY <2>1, StartMarks
  <2>2. CASE StopLandsIn(f) \/ StopFailsIn(f)
    BY <2>2, StopMarks
  <2>3. CASE SetupIsPlaced(f) \/ RootFails(f) \/ ClearFails(f) \/ CallIsRejected(f) \/ Deletes(f)
    BY <2>3, WipeMarks
  <2>4. CASE Clears(f)
    BY <2>4, ClearMarks
  <2>5. CASE FlowLoads(f)
    BY <2>5, LoadMarks
  <2>6. CASE Saves(f) \/ SaveFails(f)
    BY <2>6, SaveMarks
  <2>7. CASE RuntimeDoes(f)
    BY <2>7, CallMarks
  <2>8. CASE CallReturns(f)
    BY <2>8, ReturnMarks
  <2> QED
    BY <1>2, <2>1, <2>2, <2>3, <2>4, <2>5, <2>6, <2>7, <2>8 DEF FlowSteps
<1>3. CASE OpensListed \/ Retries \/ \E network \in Networks : Picks(network)
  BY <1>3, TapMarks
<1>4. CASE \/ \E op \in {"back", "recover"} : LeavesWallet(op)
           \/ RemovesListed \/ RemovesActive \/ ClearsAll \/ SetsUpAnew
  BY <1>4, HandlerMarks
<1>5. CASE \/ \E network \in Networks : GuessesElse(network)
           \/ \E op \in {"create", "restore", "unlock"} : CallsRuntime(op)
  BY <1>5, GuessMarks
<1>6. CASE \E e \in WalletIds, network \in Networks : Submits(e, network)
  BY <1>6, SubmitMarks
<1>7. CASE \/ \E kind \in {"list", "create", "restore"} : ShowsSetup(kind)
           \/ Acknowledges \/ RuntimeEnds
           \/ \E e \in {"walletBecameReady", "syncPollExhausted"} : SyncEndsIn(e)
  BY <1>7, RenderMarks
<1>8. CASE Relaunches
  BY <1>8, RelaunchMarks
<1>9. CASE UNCHANGED walletsVars
  <2>1. UNCHANGED <<stored, shown, loads, flows, selection, form, guess, enginePhase, runtime,
                    succeeded>>
    BY <1>9 DEF walletsVars, storage, registryHook, appView, engine, past
  <2>2. crossed' = crossed
    BY <1>9 DEF walletsVars, past
  <2>3. GuessInv' /\ (crossed => crossed')
    BY <2>1, <2>2, Zenon DEF MarksInv, GuessInv
  <2>4. PICK net \in [WalletIds -> Networks] : ToldBy(net)
    BY DEF MarksInv
  <2> QED
    BY <2>1, <2>3, <2>4, Tells
<1> QED
  BY <1>1, <1>2, <1>3, <1>4, <1>5, <1>6, <1>7, <1>8, <1>9, Zenon DEF WalletsNext

(* The invariant of the marks holds in every reachable state.              *)
THEOREM MarksInvariance == WalletsSpec => []MarksInv
  BY MarksStart, MarksStep, RegistryInvariance, PTL DEF WalletsSpec

(* An entry is marked as a wallet, and the legacy one with the network the *)
(* user picked, only where a call of that wallet succeeded, however opens, *)
(* guesses, removals and deaths interleave, unless a call was executed by  *)
(* the daemon of another wallet.                                           *)
THEOREM MarksProven == NativeAppSpec => []MarksAreProven
<1>1. MarksInv => MarksAreProven
  BY Zenon DEF MarksInv, MarkInv, Marked, Proven, MarksAreProven
<1> QED
  BY <1>1, MarksInvariance, FollowsRegistry, PTL

-----------------------------------------------------------------------------
(* The passkey wallets                                                     *)

Keys == {Prf[c] : c \in Passkeys}
MutationHook == [generation : Nat, pending : BOOLEAN, error : BOOLEAN, data : {{}}]
CeremonyPlaces == {"registering", "asserting", "checking", "opening", "opened", "stamping"}
Ceremony ==
    [n : Nat \ {0}, op : {"create", "restore", "unlock"}, account : Accounts, screening : Nat,
     generation : Nat, made : Passkeys \cup {NoOne}, credential : Passkeys \cup {NoOne},
     key : Keys \cup {NoKey}, at : CeremonyPlaces]

ScreenTypes ==
    /\ createHook \in MutationHook /\ openHook \in MutationHook
    /\ restorePending \in BOOLEAN
    /\ screening \in Nat

VisitTypes ==
    /\ account \in Accounts \cup {NoOne}
    /\ mode \in {"create", "restore"}
    /\ walletPhase \in {"list", "needsWallet", "locked", "live"}
    /\ walletPhase = "list" <=> account = NoOne

LedgerTypes ==
    /\ seeds \in [Accounts -> Keys \cup {NoKey}]
    /\ recorded \in [Accounts -> Passkeys \cup {NoOne}]
    /\ begun \in Nat /\ strayed \in BOOLEAN

(* Ceremonies are numbered in their order, and so are their prompts.       *)
Numbered ==
    /\ ceremonies \subseteq Ceremony
    /\ \A t \in ceremonies : t.n <= begun
    /\ \A p \in prompts : p.n \in 1..begun
    /\ \A t, u \in ceremonies : t.n = u.n => t = u

HasKey(t) == t.at \in {"checking", "opening", "opened", "stamping"}

(* A ceremony that is past its prompts has the key of the passkey it will  *)
(* report; one that reads the output of a new passkey asks for no other.   *)
CeremonyInv(t) ==
    /\ HasKey(t) => /\ t.credential \in Passkeys /\ t.key = Prf[t.credential]
                    /\ t.op = "create" => t.credential = t.made
    /\ t.at = "registering" => t.op = "create"
    /\ t.op = "create" /\ t.at = "asserting" =>
         /\ t.made \in Passkeys
         /\ \A p \in prompts : p.n = t.n => p.allow = t.made

(* As long as no ceremony outlived its screen, those under way are of the  *)
(* open entry; what they made of it is not lost, and recorded by the last. *)
VisitInv ==
    /\ \A t \in ceremonies :
         /\ t.account = account
         /\ t.at \in {"opened", "stamping"} => seeds[account] = t.key
         /\ walletPhase = "live" <=> t.at = "stamping"
         /\ walletPhase = "live" => \A u \in ceremonies : u = t
         /\ walletPhase = "needsWallet" => recorded[account] = NoOne
    /\ walletPhase = "locked" => seeds[account] # NoKey
    /\ RecordsOpen

PasskeyInv ==
    /\ ScreenTypes /\ VisitTypes /\ LedgerTypes /\ Numbered
    /\ \A t \in ceremonies : CeremonyInv(t)
    /\ KeysAreWhole
    /\ ~strayed => VisitInv

LEMMA PrfFacts == NoKey \notin Keys
<1> SUFFICES ASSUME NEW c \in Passkeys PROVE Prf[c] # <<>>
  BY DEF Keys, NoKey
<1>1. Len(Prf[c]) = PrfLength /\ PrfLength > 0
  BY NativePasskeysAssumption
<1> QED
  BY <1>1

(* What a prompt's answer gives is the output of its passkey, or nothing.  *)
LEMMA KeyIsOutput ==
    ASSUME \A c \in Passkeys : CodecKeeps(Prf[c]),
           NEW c \in Passkeys, NEW text \in Renderings(Prf[c]), KeyOf(text) # NoKey
    PROVE  KeyOf(text) = Prf[c]
<1>1. CodecKeeps(Prf[c]) /\ Len(Prf[c]) = PrfLength
  BY NativePasskeysAssumption
<1> QED
  BY <1>1 DEF CodecKeeps, KeyOf

LEMMA PasskeyStart == PasskeysInit => PasskeyInv
<1> SUFFICES ASSUME PasskeysInit PROVE PasskeyInv
  OBVIOUS
<1> USE DEF PasskeysInit
<1>1. ScreenTypes
  BY DEF ScreenTypes, MutationHook, FreshHook
<1>2. VisitTypes
  BY NativePasskeysAssumption DEF VisitTypes
<1>3. LedgerTypes /\ Numbered
  BY DEF LedgerTypes, Numbered
<1>4. KeysAreWhole
  BY DEF KeysAreWhole
<1>5. VisitInv
  BY DEF VisitInv, RecordsOpen
<1> QED
  BY <1>1, <1>2, <1>3, <1>4, <1>5 DEF PasskeyInv

-----------------------------------------------------------------------------
(* Steps of the screen                                                     *)

(* What a handler writes to the screen.                                    *)
LEMMA WritesHooks ==
    ASSUME ScreenTypes, NEW t, NEW h \in MutationHook, Writes(t, h)
    PROVE  createHook' \in MutationHook /\ openHook' \in MutationHook
  BY DEF ScreenTypes, Writes

LEMMA GivesUpScreen ==
    ASSUME ScreenTypes, NEW t, t.generation \in Nat, NEW cancelled \in BOOLEAN, GivesUpOn(t, cancelled)
    PROVE  ScreenTypes'
<1>1. HookOf(t) \in MutationHook
  BY DEF HookOf, ScreenTypes
<1>2. Dismiss(HookOf(t), t.generation) \in MutationHook
  BY <1>1 DEF Dismiss, MutationHook, FreshHook
<1>3. Reject(HookOf(t), t.generation, FALSE) \in MutationHook
  BY <1>1 DEF Reject, MutationHook
<1>4. PICK h \in MutationHook : Writes(t, h)
  BY <1>2, <1>3, Zenon DEF GivesUpOn
<1>5. createHook' \in MutationHook /\ openHook' \in MutationHook
  BY <1>4, WritesHooks
<1>6. restorePending' \in BOOLEAN /\ screening' = screening
  BY Zenon DEF GivesUpOn
<1> QED
  BY <1>5, <1>6 DEF ScreenTypes

LEMMA RemountsScreen ==
    ASSUME ScreenTypes, LedgerTypes, NEW others, Remounts(others)
    PROVE  ScreenTypes' /\ strayed' \in BOOLEAN /\ (~strayed' => ~strayed /\ others = {})
<1>0. FreshHook \in MutationHook
  BY DEF MutationHook, FreshHook
<1>1. ScreenTypes'
  <2>1. createHook' = FreshHook /\ openHook' = FreshHook /\ restorePending' = FALSE
        /\ screening' = screening + 1
    BY Zenon DEF Remounts
  <2> QED
    <3>1. restorePending' \in BOOLEAN
      BY <2>1, Zenon
    <3>2. screening' \in Nat
      BY <2>1 DEF ScreenTypes
    <3> QED
      BY <1>0, <2>1, <3>1, <3>2 DEF ScreenTypes
<1>2. strayed' \in BOOLEAN /\ (~strayed' => ~strayed /\ others = {})
  BY Zenon DEF LedgerTypes, Remounts
<1> QED
  BY <1>1, <1>2

(* Ceremonies that end, and prompts that go, leave everything as it was.   *)
LEMMA Shrinks ==
    ASSUME PasskeyInv, ScreenTypes', ceremonies' \subseteq ceremonies, prompts' \subseteq prompts,
           UNCHANGED <<visitVars, seeds, recorded, begun, handed, strayed>>
    PROVE  PasskeyInv'
<1> USE DEF PasskeyInv
<1>0. UNCHANGED <<account, mode, walletPhase, seeds, recorded, begun, handed, strayed>>
  BY DEF visitVars
<1>1. VisitTypes' /\ LedgerTypes'
  BY <1>0 DEF VisitTypes, LedgerTypes
<1>2. Numbered'
  BY <1>0 DEF Numbered
<1>3. \A t \in ceremonies' : CeremonyInv(t)'
  BY DEF CeremonyInv
<1>4. KeysAreWhole'
  BY <1>0 DEF KeysAreWhole
<1>5. ~strayed' => VisitInv'
  BY <1>0 DEF VisitInv, RecordsOpen
<1> QED
  BY <1>1, <1>2, <1>3, <1>4, <1>5

LEMMA OpensKeeps ==
    ASSUME PasskeyInv, NEW a \in Accounts, NEW m \in {"create", "restore"}, OpensAccount(a, m)
    PROVE  PasskeyInv'
<1> USE DEF PasskeyInv
<1>0. /\ account' = a /\ mode' = m
      /\ walletPhase' = IF seeds[a] = NoKey THEN "needsWallet" ELSE "locked"
      /\ Remounts(ceremonies)
      /\ UNCHANGED <<enrolled, prompts, ceremonies, seeds, recorded, begun, handed, dismissed>>
  BY DEF OpensAccount
<1>1. ScreenTypes' /\ strayed' \in BOOLEAN /\ (~strayed' => ~strayed /\ ceremonies = {})
  BY <1>0, RemountsScreen
<1>2. VisitTypes' /\ LedgerTypes' /\ Numbered'
  BY <1>0, <1>1, NativePasskeysAssumption DEF VisitTypes, LedgerTypes, Numbered
<1>3. \A t \in ceremonies' : CeremonyInv(t)'
  BY <1>0 DEF CeremonyInv
<1>4. KeysAreWhole'
  BY <1>0 DEF KeysAreWhole
<1>5. ~strayed' => VisitInv'
  BY <1>0, <1>1 DEF VisitInv, RecordsOpen
<1> QED
  BY <1>1, <1>2, <1>3, <1>4, <1>5

LEMMA LeavesKeeps ==
    ASSUME PasskeyInv, LeavesAccount
    PROVE  PasskeyInv'
<1> USE DEF PasskeyInv
<1>0. /\ account' = NoOne /\ walletPhase' = "list"
      /\ Remounts(ceremonies)
      /\ UNCHANGED <<enrolled, prompts, ceremonies, mode, seeds, recorded, begun, handed, dismissed>>
  BY DEF LeavesAccount
<1>1. ScreenTypes' /\ strayed' \in BOOLEAN /\ (~strayed' => ~strayed /\ ceremonies = {})
  BY <1>0, RemountsScreen
<1>2. VisitTypes' /\ LedgerTypes' /\ Numbered'
  BY <1>0, <1>1 DEF VisitTypes, LedgerTypes, Numbered
<1>3. \A t \in ceremonies' : CeremonyInv(t)'
  BY <1>0 DEF CeremonyInv
<1>4. KeysAreWhole'
  BY <1>0 DEF KeysAreWhole
<1>5. ~strayed' => VisitInv'
  BY <1>0, <1>1 DEF VisitInv, RecordsOpen
<1> QED
  BY <1>1, <1>2, <1>3, <1>4, <1>5

LEMMA LosesKeeps ==
    ASSUME PasskeyInv, NEW a \in Accounts, LosesData(a)
    PROVE  PasskeyInv'
<1> USE DEF PasskeyInv
<1>0. /\ a # account /\ seeds' = [seeds EXCEPT ![a] = NoKey]
      /\ UNCHANGED <<prompts, ceremonies, createHook, openHook, restorePending, screening, account,
                     mode, walletPhase, recorded, begun, handed, strayed>>
  BY DEF LosesData, screenView, visitVars, passkeyPast
<1>1. ScreenTypes' /\ VisitTypes' /\ LedgerTypes' /\ Numbered'
  BY <1>0 DEF ScreenTypes, VisitTypes, LedgerTypes, Numbered
<1>2. \A t \in ceremonies' : CeremonyInv(t)'
  BY <1>0 DEF CeremonyInv
<1>3. KeysAreWhole'
  BY <1>0 DEF KeysAreWhole
<1>4. ASSUME ~strayed' PROVE VisitInv'
  <2>1. seeds'[account] = seeds[account] \/ account = NoOne
    BY <1>0 DEF VisitTypes, LedgerTypes
  <2>2. \A b \in Accounts : seeds'[b] \in {seeds[b], NoKey}
    BY <1>0 DEF LedgerTypes
  <2>3. RecordsOpen'
    BY <1>0, <1>4, <2>2 DEF VisitInv, RecordsOpen
  <2>4. account = NoOne => ceremonies = {} /\ walletPhase = "list"
    BY <1>0, <1>4, NativePasskeysAssumption DEF VisitInv, VisitTypes, Numbered, Ceremony
  <2> QED
    BY <1>0, <1>4, <2>1, <2>3, <2>4 DEF VisitInv
<1> QED
  BY <1>1, <1>2, <1>3, <1>4

LEMMA ScreenIs ==
    ASSUME VisitTypes
    PROVE  /\ PasskeyScreen \in {"create", "restore"} =>
                walletPhase = "needsWallet" /\ recorded[account] = NoOne
           /\ PasskeyScreen = "unlock" => walletPhase = "locked"
           /\ PasskeyScreen = "dataMissing" => walletPhase = "needsWallet"
<1>1. CASE walletPhase = "needsWallet"
  BY <1>1 DEF PasskeyScreen, VisitTypes
<1>2. CASE walletPhase = "locked"
  BY <1>2 DEF PasskeyScreen, VisitTypes
<1>3. CASE walletPhase \in {"list", "live"}
  BY <1>3 DEF PasskeyScreen, VisitTypes
<1> QED
  BY <1>1, <1>2, <1>3 DEF VisitTypes

LEMMA SetsUpKeeps ==
    ASSUME PasskeyInv, SetsUpAgain
    PROVE  PasskeyInv'
<1> USE DEF PasskeyInv
<1>0. /\ recorded' = [recorded EXCEPT ![account] = NoOne] /\ mode' = "restore"
      /\ UNCHANGED <<prompts, ceremonies, createHook, openHook, restorePending, screening, account,
                     walletPhase, seeds, begun, handed, strayed>>
  BY DEF SetsUpAgain, screenView, passkeyPast
<1>1. ScreenTypes' /\ VisitTypes' /\ LedgerTypes' /\ Numbered'
  BY <1>0 DEF ScreenTypes, VisitTypes, LedgerTypes, Numbered
<1>2. \A t \in ceremonies' : CeremonyInv(t)'
  BY <1>0 DEF CeremonyInv
<1>3. KeysAreWhole'
  BY <1>0 DEF KeysAreWhole
<1>4. ASSUME ~strayed' PROVE VisitInv'
  <2>1. \A a \in Accounts : recorded'[a] \in {recorded[a], NoOne}
    BY <1>0 DEF LedgerTypes
  <2>2. RecordsOpen'
    BY <1>0, <1>4, <2>1 DEF VisitInv, RecordsOpen
  <2>3. walletPhase = "needsWallet" => recorded'[account] = NoOne
    BY <1>0 DEF VisitTypes, LedgerTypes
  <2> QED
    BY <1>0, <1>4, <2>2, <2>3 DEF VisitInv
<1> QED
  BY <1>1, <1>2, <1>3, <1>4

LEMMA AsksKeeps ==
    ASSUME PasskeyInv, NEW op \in {"create", "restore", "unlock"}, Asks(op)
    PROVE  PasskeyInv'
<1> USE DEF PasskeyInv
<1> DEFINE scope == IF op = "unlock" THEN recorded[account] ELSE NoOne
           hook == Track(IF op = "unlock" THEN openHook ELSE createHook, FALSE)
           t == [n |-> begun + 1, op |-> op, account |-> account, screening |-> screening,
                 generation |-> hook.generation, made |-> NoOne, credential |-> NoOne,
                 key |-> NoKey, at |-> IF op = "create" THEN "registering" ELSE "asserting"]
<1>0. /\ PasskeyScreen = op /\ begun' = begun + 1
      /\ ceremonies' = ceremonies \cup {t}
      /\ prompts' = prompts \cup {Prompt(t, IF op = "create" THEN "create" ELSE "get", scope)}
      /\ Writes(t, hook)
      /\ UNCHANGED <<restorePending, screening, account, mode, walletPhase, seeds, recorded, handed,
                     strayed>>
  BY DEF Asks, visitVars
<1>1. hook \in MutationHook
  <2>1. (IF op = "unlock" THEN openHook ELSE createHook) \in MutationHook
    BY DEF ScreenTypes
  <2> QED
    BY <2>1 DEF Track, MutationHook
<1>2. ScreenTypes'
  <2>1. createHook' \in MutationHook /\ openHook' \in MutationHook
    <3> HIDE DEF hook, t
    <3> QED
      BY <1>0, <1>1, WritesHooks
  <2> QED
    BY <1>0, <2>1 DEF ScreenTypes
<1>3. /\ walletPhase \in {"needsWallet", "locked"} /\ account \in Accounts
      /\ walletPhase = "needsWallet" => recorded[account] = NoOne
  BY <1>0, ScreenIs DEF VisitTypes
<1>4. t \in Ceremony
  <2>1. hook.generation \in Nat
    BY <1>1 DEF MutationHook
  <2>2. begun + 1 \in Nat \ {0} /\ screening \in Nat
    BY DEF LedgerTypes, ScreenTypes
  <2> HIDE DEF hook
  <2> QED
    BY <1>3, <2>1, <2>2 DEF Ceremony, CeremonyPlaces
<1>5. VisitTypes' /\ LedgerTypes'
  BY <1>0 DEF VisitTypes, LedgerTypes
<1>6. t.n = begun + 1 /\ t.op = op /\ t.account = account /\ t.at \in {"registering", "asserting"}
      /\ (t.at = "registering" <=> op = "create")
  OBVIOUS
<1>7. \A p \in prompts' : p \in prompts \/ p.n = begun + 1
  BY <1>0 DEF Prompt
<1> HIDE DEF t, hook, scope
<1>8. Numbered'
  BY <1>0, <1>4, <1>6, <1>7 DEF Numbered, LedgerTypes, Ceremony
<1>9. ASSUME NEW s \in ceremonies' PROVE CeremonyInv(s)'
  <2>1. CASE s = t
    BY <1>6, <2>1 DEF CeremonyInv, HasKey
  <2>2. CASE s \in ceremonies
    BY <1>7, <2>2 DEF CeremonyInv, Numbered, LedgerTypes, Ceremony
  <2> QED
    BY <1>0, <2>1, <2>2
<1>10. KeysAreWhole'
  BY <1>0 DEF KeysAreWhole
<1>11. ASSUME ~strayed' PROVE VisitInv'
  BY <1>0, <1>3, <1>6, <1>11 DEF VisitInv, RecordsOpen
<1> QED
  BY <1>2, <1>5, <1>8, <1>9, <1>10, <1>11

-----------------------------------------------------------------------------
(* Steps of a ceremony                                                     *)

(* A ceremony goes on, before the daemon has opened anything for it.       *)
LEMMA GoesOnKeeps ==
    ASSUME PasskeyInv, NEW t \in ceremonies, NEW u \in Ceremony, Becomes(t, u), ScreenTypes',
           u.n = t.n, u.op = t.op, u.account = t.account,
           t.at \notin {"opened", "stamping"}, u.at \notin {"opened", "stamping"},
           \A p \in prompts' : p \in prompts \/ p.n = t.n,
           CeremonyInv(u)', KeysAreWhole',
           UNCHANGED <<visitVars, seeds, recorded, begun, strayed>>
    PROVE  PasskeyInv'
<1> USE DEF PasskeyInv
<1>0. UNCHANGED <<account, mode, walletPhase, seeds, recorded, begun, strayed>>
  BY DEF visitVars
<1>1. VisitTypes' /\ LedgerTypes'
  BY <1>0 DEF VisitTypes, LedgerTypes
<1>2. Numbered'
  <2>1. \A p \in prompts' : p.n \in 1..begun
    BY DEF Numbered, LedgerTypes, Ceremony
  <2> QED
    BY <1>0, <2>1 DEF Numbered, Becomes
<1>3. ASSUME NEW s \in ceremonies' PROVE CeremonyInv(s)'
  <2>1. CASE s \in ceremonies \ {t}
    BY <2>1 DEF CeremonyInv, Numbered
  <2> QED
    BY <2>1 DEF Becomes
<1>4. ASSUME ~strayed' PROVE VisitInv'
  <2>1. VisitInv /\ walletPhase # "live"
    <3>1. ~strayed /\ t.at # "stamping"
      BY <1>0, <1>4
    <3> QED
      BY <3>1 DEF VisitInv
  <2>2. ASSUME NEW s \in ceremonies'
        PROVE  /\ s.account = account
               /\ s.at \in {"opened", "stamping"} => seeds[account] = s.key
               /\ s.at # "stamping"
               /\ walletPhase = "needsWallet" => recorded[account] = NoOne
    BY <2>1, <2>2 DEF VisitInv, Becomes
  <2>3. RecordsOpen'
    BY <1>0, <2>1 DEF VisitInv, RecordsOpen
  <2> QED
    BY <1>0, <2>1, <2>2, <2>3 DEF VisitInv
<1> QED
  BY <1>1, <1>2, <1>3, <1>4

LEMMA DaemonOpensKeeps ==
    ASSUME PasskeyInv, NEW t \in ceremonies, DaemonOpens(t),
           UNCHANGED <<prompts, screenView, visitVars, recorded, passkeyPast>>
    PROVE  PasskeyInv'
<1> USE DEF PasskeyInv
<1> DEFINE u == [t EXCEPT !.at = "opened"]
<1>0. /\ t.at = "opening" /\ account \in Accounts /\ seeds[account] \in {NoKey, t.key}
      /\ seeds' = [seeds EXCEPT ![account] = t.key]
      /\ ceremonies' = (ceremonies \ {t}) \cup {u}
      /\ UNCHANGED <<prompts, createHook, openHook, restorePending, screening, account, mode,
                     walletPhase, recorded, begun, handed, strayed>>
  BY DEF DaemonOpens, Becomes, VisitTypes, screenView, visitVars, passkeyPast
<1>1. t \in Ceremony /\ CeremonyInv(t)
  BY DEF Numbered
<1>2. /\ u \in Ceremony /\ u.n = t.n /\ u.op = t.op /\ u.account = t.account /\ u.key = t.key
      /\ u.credential = t.credential /\ u.made = t.made /\ u.at = "opened"
  BY <1>1 DEF Ceremony, CeremonyPlaces
<1>3. t.credential \in Passkeys /\ t.key = Prf[t.credential] /\ t.key \in Keys /\ t.key # NoKey
  BY <1>0, <1>1, PrfFacts DEF CeremonyInv, HasKey, Keys
<1> HIDE DEF u
<1>4. /\ seeds' \in [Accounts -> Keys \cup {NoKey}] /\ seeds'[account] = t.key
      /\ \A a \in Accounts : a # account => seeds'[a] = seeds[a]
  BY <1>0, <1>3 DEF LedgerTypes
<1>5. ScreenTypes' /\ VisitTypes' /\ LedgerTypes'
  BY <1>0, <1>4 DEF ScreenTypes, VisitTypes, LedgerTypes
<1>6. Numbered'
  BY <1>0, <1>2 DEF Numbered
<1>7. ASSUME NEW s \in ceremonies' PROVE CeremonyInv(s)'
  <2>1. CASE s = u
    BY <1>0, <1>1, <1>2, <2>1 DEF CeremonyInv, HasKey
  <2>2. CASE s \in ceremonies
    BY <1>0, <2>2 DEF CeremonyInv
  <2> QED
    BY <1>0, <2>1, <2>2
<1>8. KeysAreWhole'
  BY <1>0 DEF KeysAreWhole
<1>9. ASSUME ~strayed' PROVE VisitInv'
  <2>1. VisitInv /\ walletPhase # "live"
    BY <1>0, <1>9 DEF VisitInv
  <2>2. walletPhase # "list"
    BY <1>0, NativePasskeysAssumption DEF VisitTypes
  <2>3. seeds[account] = t.key \/ recorded[account] = NoOne
    BY <1>0, <2>1, <2>2 DEF VisitInv, VisitTypes
  <2>4. \A s \in ceremonies : s.at \in {"opened", "stamping"} => s.key = t.key
    <3> SUFFICES ASSUME NEW s \in ceremonies, s.at \in {"opened", "stamping"} PROVE s.key = t.key
      OBVIOUS
    <3>1. s.key \in Keys
      BY DEF CeremonyInv, HasKey, Keys
    <3>2. seeds[account] = s.key
      BY <2>1 DEF VisitInv
    <3> QED
      BY <1>0, <3>1, <3>2, PrfFacts
  <2>5. ASSUME NEW s \in ceremonies'
        PROVE  /\ s.account = account /\ s.at # "stamping"
               /\ s.at = "opened" => seeds'[account] = s.key
               /\ walletPhase = "needsWallet" => recorded[account] = NoOne
    BY <1>0, <1>2, <1>4, <2>1, <2>4 DEF VisitInv
  <2>6. RecordsOpen'
    BY <1>0, <1>4, <1>9, <2>1, <2>3 DEF VisitInv, RecordsOpen
  <2> QED
    BY <1>0, <1>3, <1>4, <2>1, <2>5, <2>6 DEF VisitInv
<1> QED
  BY <1>5, <1>6, <1>7, <1>8, <1>9

LEMMA ReturnsKeeps ==
    ASSUME PasskeyInv, NEW t \in ceremonies, OpenReturns(t),
           UNCHANGED <<prompts, account, mode, seeds, recorded, begun, handed>>
    PROVE  PasskeyInv'
<1> USE DEF PasskeyInv
<1> DEFINE u == [t EXCEPT !.at = "stamping"]
<1>0. t.at = "opened" /\ ceremonies' = (ceremonies \ {t}) \cup {u}
  BY DEF OpenReturns, Becomes
<1>1. t \in Ceremony /\ CeremonyInv(t)
  BY DEF Numbered
<1>2. /\ u \in Ceremony /\ u.n = t.n /\ u.op = t.op /\ u.account = t.account /\ u.key = t.key
      /\ u.credential = t.credential /\ u.made = t.made /\ u.at = "stamping"
  BY <1>1 DEF Ceremony, CeremonyPlaces
<1> HIDE DEF u
<1>3. /\ ScreenTypes' /\ VisitTypes' /\ strayed' \in BOOLEAN
      /\ ~strayed' => ~strayed /\ (account = NoOne \/ (ceremonies \ {t} = {} /\ walletPhase' = "live"))
  <2>1. CASE account = NoOne
    <3>1. UNCHANGED <<walletPhase, createHook, openHook, restorePending, screening, strayed>>
      BY <2>1 DEF OpenReturns, screenView
    <3> QED
      BY <2>1, <3>1 DEF ScreenTypes, VisitTypes, LedgerTypes
  <2>2. CASE account # NoOne
    <3>1. walletPhase' = "live" /\ Remounts(ceremonies \ {t})
      BY <2>2 DEF OpenReturns
    <3>2. VisitTypes'
      BY <2>2, <3>1 DEF VisitTypes
    <3> QED
      BY <3>1, <3>2, RemountsScreen
  <2> QED
    BY <2>1, <2>2
<1>4. LedgerTypes'
  BY <1>3 DEF LedgerTypes
<1>5. Numbered'
  BY <1>0, <1>2 DEF Numbered
<1>6. ASSUME NEW s \in ceremonies' PROVE CeremonyInv(s)'
  <2>1. CASE s = u
    BY <1>0, <1>1, <1>2, <2>1 DEF CeremonyInv, HasKey
  <2>2. CASE s \in ceremonies
    BY <1>0, <2>2 DEF CeremonyInv
  <2> QED
    BY <1>0, <2>1, <2>2
<1>7. KeysAreWhole'
  BY DEF KeysAreWhole
<1>8. ASSUME ~strayed' PROVE VisitInv'
  <2>1. VisitInv /\ t.account = account
    BY <1>3, <1>8 DEF VisitInv
  <2>2. account # NoOne
    BY <1>1, <2>1, NativePasskeysAssumption DEF Ceremony
  <2>3. ceremonies' = {u} /\ walletPhase' = "live"
    BY <1>0, <1>3, <1>8, <2>2
  <2>4. seeds[account] = u.key
    BY <1>0, <1>2, <2>1 DEF VisitInv
  <2>5. RecordsOpen'
    BY <1>3, <1>8, <2>1 DEF VisitInv, RecordsOpen
  <2> QED
    BY <1>2, <2>1, <2>3, <2>4, <2>5 DEF VisitInv
<1> QED
  BY <1>3, <1>4, <1>5, <1>6, <1>7, <1>8

LEMMA StampsKeeps ==
    ASSUME PasskeyInv, NEW t \in ceremonies, StampsCredential(t),
           UNCHANGED <<prompts, screenView, visitVars, seeds, passkeyPast>>
    PROVE  PasskeyInv'
<1> USE DEF PasskeyInv
<1>0. /\ t.at = "stamping" /\ ceremonies' = ceremonies \ {t}
      /\ recorded' = [recorded EXCEPT ![t.account] = t.credential]
      /\ UNCHANGED <<prompts, createHook, openHook, restorePending, screening, account, mode,
                     walletPhase, seeds, begun, handed, strayed>>
  BY DEF StampsCredential, IsOver, screenView, visitVars, passkeyPast
<1>1. /\ t.account \in Accounts /\ t.credential \in Passkeys /\ t.key = Prf[t.credential]
  BY <1>0 DEF Numbered, Ceremony, CeremonyInv, HasKey
<1>2. /\ recorded' \in [Accounts -> Passkeys \cup {NoOne}] /\ recorded'[t.account] = t.credential
      /\ \A a \in Accounts : a # t.account => recorded'[a] = recorded[a]
  BY <1>0, <1>1 DEF LedgerTypes
<1>3. ScreenTypes' /\ VisitTypes' /\ LedgerTypes' /\ Numbered'
  BY <1>0, <1>2 DEF ScreenTypes, VisitTypes, LedgerTypes, Numbered
<1>4. \A s \in ceremonies' : CeremonyInv(s)'
  BY <1>0 DEF CeremonyInv
<1>5. KeysAreWhole'
  BY <1>0 DEF KeysAreWhole
<1>6. ASSUME ~strayed' PROVE VisitInv'
  <2>1. /\ VisitInv /\ t.account = account /\ seeds[account] = t.key /\ walletPhase = "live"
        /\ \A s \in ceremonies : s = t
    BY <1>0, <1>6 DEF VisitInv
  <2>2. RecordsOpen'
    BY <1>0, <1>1, <1>2, <1>6, <2>1 DEF VisitInv, RecordsOpen
  <2>3. ceremonies' = {}
    BY <1>0, <2>1
  <2> QED
    BY <1>0, <2>1, <2>2, <2>3 DEF VisitInv
<1> QED
  BY <1>3, <1>4, <1>5, <1>6

LEMMA GivesUpKeeps ==
    ASSUME PasskeyInv, NEW t \in ceremonies, NEW cancelled \in BOOLEAN, GivesUpOn(t, cancelled),
           prompts' \subseteq prompts, UNCHANGED <<visitVars, seeds, recorded, begun, handed, strayed>>
    PROVE  PasskeyInv'
<1>1. t.generation \in Nat /\ ScreenTypes
  BY DEF PasskeyInv, Numbered, Ceremony
<1>2. ScreenTypes'
  BY <1>1, GivesUpScreen
<1>3. ceremonies' \subseteq ceremonies
  BY DEF GivesUpOn, IsOver
<1> QED
  BY <1>2, <1>3, Shrinks

(* A key that is handed over is that of its passkey.                       *)
LEMMA HandsKeeps ==
    ASSUME PasskeyInv, NEW t \in ceremonies, NEW u \in Ceremony, Hands(t, u), ScreenTypes',
           u.n = t.n, u.op = t.op, u.account = t.account, t.at \notin {"opened", "stamping"},
           u.credential \in Passkeys, u.key = Prf[u.credential],
           u.op = "create" => u.credential = u.made,
           prompts' \subseteq prompts,
           UNCHANGED <<visitVars, seeds, recorded, begun, strayed>>
    PROVE  PasskeyInv'
<1> DEFINE v == [u EXCEPT !.at = "opening"]
<1>1. /\ Becomes(t, v) /\ v \in Ceremony /\ v.n = t.n /\ v.op = t.op /\ v.account = t.account
      /\ v.at = "opening" /\ v.credential = u.credential /\ v.key = u.key /\ v.made = u.made
  BY DEF Hands, Ceremony, CeremonyPlaces
<1>2. KeysAreWhole'
  BY DEF Hands, KeysAreWhole, PasskeyInv
<1> HIDE DEF v
<1>3. CeremonyInv(v)'
  BY <1>1 DEF CeremonyInv
<1> QED
  BY <1>1, <1>2, <1>3, GoesOnKeeps

LEMMA ChecksKeeps ==
    ASSUME PasskeyInv, NEW t \in ceremonies, Checks(t),
           UNCHANGED <<prompts, visitVars, seeds, recorded, begun, strayed>>
    PROVE  PasskeyInv'
<1>1. CASE GivesUpOn(t, FALSE) /\ UNCHANGED handed
  BY <1>1, GivesUpKeeps
<1>2. CASE /\ Hands(t, t) /\ restorePending' = (restorePending \/ IsMounted(t))
           /\ UNCHANGED <<createHook, openHook, screening>>
  <2>1. t \in Ceremony /\ CeremonyInv(t) /\ t.at = "checking" /\ ScreenTypes
    BY DEF PasskeyInv, Numbered, Checks
  <2>2. restorePending' \in BOOLEAN
    BY <1>2, <2>1, Zenon DEF ScreenTypes, IsMounted
  <2>3. ScreenTypes'
    BY <1>2, <2>1, <2>2 DEF ScreenTypes
  <2>4. t.credential \in Passkeys /\ t.key = Prf[t.credential] /\ (t.op = "create" => t.credential = t.made)
    BY <2>1 DEF CeremonyInv, HasKey
  <2> QED
    BY <1>2, <2>1, <2>3, <2>4, HandsKeeps
<1> QED
  BY <1>1, <1>2 DEF Checks

LEMMA AnswerKeeps ==
    ASSUME \A c \in Passkeys : CodecKeeps(Prf[c]), PasskeyInv,
           NEW p \in prompts, NEW c \in Passkeys, NEW text \in Renderings(Prf[c]),
           PromptAnswers(p, c, text)
    PROVE  PasskeyInv'
<1>0. UNCHANGED <<visitVars, seeds, recorded, begun, strayed>>
  BY DEF PromptAnswers
<1>1. CASE prompts' = prompts \ {p} /\ UNCHANGED <<ceremonies, screenView, handed>>
  <2>1. ScreenTypes'
    BY <1>1 DEF PasskeyInv, ScreenTypes, screenView
  <2> QED
    BY <1>0, <1>1, <2>1, Shrinks
<1>2. ASSUME NEW t \in ceremonies, Awaits(t, p), Receives(t, p, c, text) PROVE PasskeyInv'
  <2> DEFINE key == KeyOf(text)
             u == [t EXCEPT !.credential = c, !.key = key,
                            !.made = IF p.kind = "create" THEN c ELSE @]
  <2>1. /\ t \in Ceremony /\ CeremonyInv(t) /\ ScreenTypes /\ t.at \in {"registering", "asserting"}
        /\ t.at = "registering" <=> p.kind = "create"
        /\ p.n = t.n
    BY <1>2 DEF PasskeyInv, Numbered, Awaits
  <2>2. CASE p.kind = "create" /\ FallsBack(t, c) /\ UNCHANGED <<screenView, handed>>
    <3> DEFINE v == [t EXCEPT !.at = "asserting", !.made = c]
    <3>1. /\ v \in Ceremony /\ v.n = t.n /\ v.op = t.op /\ v.account = t.account
          /\ v.at = "asserting" /\ v.made = c /\ Becomes(t, v)
      BY <2>1, <2>2 DEF FallsBack, Ceremony, CeremonyPlaces
    <3>2. \A q \in prompts' : (q \in prompts /\ q.n # t.n) \/ (q.n = t.n /\ q.allow = c)
      BY <2>2 DEF FallsBack, Prompt
    <3> HIDE DEF v
    <3>3. CeremonyInv(v)'
      BY <3>1, <3>2 DEF CeremonyInv, HasKey
    <3>4. KeysAreWhole' /\ ScreenTypes'
      BY <2>1, <2>2 DEF KeysAreWhole, PasskeyInv, ScreenTypes, screenView
    <3> QED
      BY <1>0, <2>1, <3>1, <3>2, <3>3, <3>4, GoesOnKeeps
  <2>3. CASE GivesUpOn(t, FALSE) /\ prompts' = prompts \ {p} /\ UNCHANGED handed
    BY <1>0, <2>3, GivesUpKeeps
  <2>4. CASE /\ key # NoKey /\ prompts' = prompts \ {p} /\ UNCHANGED screenView
             /\ IF t.op = "restore" THEN Becomes(t, [u EXCEPT !.at = "checking"]) /\ UNCHANGED handed
                ELSE Hands(t, u)
    <3>1. key = Prf[c] /\ key \in Keys
      BY <2>4, KeyIsOutput DEF Keys
    <3>2. /\ u \in Ceremony /\ u.n = t.n /\ u.op = t.op /\ u.account = t.account /\ u.credential = c
          /\ u.key = key /\ u.made = IF p.kind = "create" THEN c ELSE t.made
      <4> HIDE DEF key
      <4> QED
        BY <2>1, <3>1 DEF Ceremony
    <3>3. u.op = "create" => u.credential = u.made
      <4>1. CASE p.kind = "create"
        BY <3>2, <4>1
      <4>2. ASSUME p.kind # "create", t.op = "create" PROVE t.made = c
        <5>1. t.at = "asserting" /\ t.made \in Passkeys /\ p.allow = t.made
          BY <2>1, <4>2 DEF CeremonyInv
        <5>2. p.allow \in {NoOne, c}
          BY <4>2 DEF PromptAnswers
        <5> QED
          BY <5>1, <5>2, NativePasskeysAssumption
      <4> QED
        BY <3>2, <4>1, <4>2
    <3>4. ScreenTypes'
      BY <2>1, <2>4 DEF ScreenTypes, screenView
    <3> HIDE DEF key
    <3>5. CASE t.op # "restore"
      <4> HIDE DEF u
      <4> QED
        BY <1>0, <2>1, <2>4, <3>1, <3>2, <3>3, <3>4, <3>5, HandsKeeps
    <3>6. CASE t.op = "restore"
      <4> DEFINE v == [u EXCEPT !.at = "checking"]
      <4>1. /\ v \in Ceremony /\ v.n = t.n /\ v.op = t.op /\ v.account = t.account
            /\ v.at = "checking" /\ v.credential = c /\ v.key = key
        <5> HIDE DEF u
        <5> QED
          BY <3>2 DEF Ceremony, CeremonyPlaces
      <4>2. Becomes(t, v) /\ UNCHANGED handed
        BY <2>4, <3>6
      <4> HIDE DEF v, u
      <4>3. CeremonyInv(v)'
        BY <3>1, <3>6, <4>1 DEF CeremonyInv
      <4>4. KeysAreWhole'
        BY <4>2 DEF KeysAreWhole, PasskeyInv
      <4> QED
        BY <1>0, <2>1, <2>4, <3>4, <4>1, <4>2, <4>3, <4>4, GoesOnKeeps
    <3> QED
      BY <3>5, <3>6
  <2> QED
    BY <1>2, <2>2, <2>3, <2>4 DEF Receives
<1> QED
  BY <1>1, <1>2 DEF PromptAnswers

LEMMA EndKeeps ==
    ASSUME PasskeyInv, NEW p \in prompts, NEW ending, PromptEnds(p, ending)
    PROVE  PasskeyInv'
<1>0. prompts' = prompts \ {p} /\ UNCHANGED <<visitVars, seeds, recorded, begun, handed, strayed>>
  BY DEF PromptEnds
<1>1. CASE UNCHANGED <<ceremonies, screenView>>
  <2>1. ScreenTypes'
    BY <1>1 DEF PasskeyInv, ScreenTypes, screenView
  <2> QED
    BY <1>0, <1>1, <2>1, Shrinks
<1>2. ASSUME NEW t \in ceremonies, GivesUpOn(t, IsNativeCancel(MessageOf(ending)))
      PROVE  PasskeyInv'
  <2>1. IsNativeCancel(MessageOf(ending)) \in BOOLEAN
    BY DEF IsNativeCancel
  <2> QED
    BY <1>0, <1>2, <2>1, GivesUpKeeps
<1> QED
  BY <1>1, <1>2 DEF PromptEnds

LEMMA CeremonyKeeps ==
    ASSUME PasskeyInv, NEW t \in ceremonies, CeremonySteps(t)
    PROVE  PasskeyInv'
<1>1. CASE /\ PasskeyTimesOut(t) \/ OpenFails(t)
           /\ UNCHANGED <<enrolled, prompts, visitVars, seeds, recorded, passkeyPast>>
  <2>1. GivesUpOn(t, FALSE) /\ UNCHANGED <<prompts, visitVars, seeds, recorded, begun, handed, strayed>>
    BY <1>1 DEF PasskeyTimesOut, OpenFails, passkeyPast
  <2> QED
    BY <2>1, GivesUpKeeps
<1> QED
  BY <1>1, ChecksKeeps, DaemonOpensKeeps, ReturnsKeeps, StampsKeeps DEF CeremonySteps

LEMMA PasskeyStep ==
    ASSUME \A c \in Passkeys : CodecKeeps(Prf[c]), PasskeyInv, [PasskeysNext]_passkeyVars
    PROVE  PasskeyInv'
<1>1. CASE \E a \in Accounts, m \in {"create", "restore"} : OpensAccount(a, m)
  BY <1>1, OpensKeeps
<1>2. CASE LeavesAccount \/ SetsUpAgain
  BY <1>2, LeavesKeeps, SetsUpKeeps
<1>3. CASE \E a \in Accounts : LosesData(a)
  BY <1>3, LosesKeeps
<1>4. CASE \E op \in {"create", "restore", "unlock"} : Asks(op)
  BY <1>4, AsksKeeps
<1>5. CASE \E p \in prompts :
             \/ \E c \in Passkeys : \E text \in Renderings(Prf[c]) : PromptAnswers(p, c, text)
             \/ \E ending \in {"dismissed", "failed"} : PromptEnds(p, ending)
  BY <1>5, AnswerKeeps, EndKeeps
<1>6. CASE \E t \in ceremonies : CeremonySteps(t)
  BY <1>6, CeremonyKeeps
<1>7. CASE UNCHANGED passkeyVars
  <2>1. UNCHANGED <<visitVars, seeds, recorded, begun, handed, strayed, ceremonies, prompts, screenView>>
    BY <1>7 DEF passkeyVars, passkeyPast
  <2>2. ScreenTypes'
    BY <2>1 DEF PasskeyInv, ScreenTypes, screenView
  <2> QED
    BY <2>1, <2>2, Shrinks
<1> QED
  BY <1>1, <1>2, <1>3, <1>4, <1>5, <1>6, <1>7 DEF PasskeysNext

(* As long as its codec keeps the outputs (which TLC checks of outputs of  *)
(* every length up to 32), the inductive invariant of the ceremonies holds *)
(* in every reachable state.                                               *)
THEOREM PasskeyInvariance ==
    ASSUME \A c \in Passkeys : CodecKeeps(Prf[c])
    PROVE  NativeAppSpec => []PasskeyInv
<1>1. NativeAppInit => PasskeyInv
  BY PasskeyStart DEF NativeAppInit
<1>2. PasskeyInv /\ [NativeAppNext]_nativeAppVars => PasskeyInv'
  <2>1. [NativeAppNext]_nativeAppVars => [PasskeysNext]_passkeyVars
    BY DEF NativeAppNext, nativeAppVars, FollowsActivity, FollowsWallets, FollowsPasskeys
  <2> QED
    BY <2>1, PasskeyStep
<1> QED
  BY <1>1, <1>2, PTL DEF NativeAppSpec

(* A wallet is derived from a whole key only, of the passkey that is       *)
(* recorded for it, whatever prompts answer, fail, come late or fall back, *)
(* as long as no ceremony has outlived its screen.                         *)
THEOREM KeysTrue ==
    ASSUME \A c \in Passkeys : CodecKeeps(Prf[c])
    PROVE  NativeAppSpec => []KeysAreTrue
<1>1. PasskeyInv => KeysAreTrue
  BY Zenon DEF PasskeyInv, VisitInv, KeysAreTrue, RecordsOpen
<1> QED
  BY <1>1, PasskeyInvariance, PTL
=============================================================================
