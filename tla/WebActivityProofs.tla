------------------------- MODULE WebActivityProofs --------------------------
(***************************************************************************)
(* The activity stream over the two web clients, proved: a running stream  *)
(* never falls silent, each lifecycle has one stream and none after it,    *)
(* and over the worker no change of the journal is missed.                 *)
(***************************************************************************)
EXTENDS WebActivity, FiniteSetTheorems, SequenceTheorems, TLAPS

-----------------------------------------------------------------------------
(* A call of startActivity() of lifecycle l is a token that wanders from   *)
(* the queue of the client to its relay, is settled there, and returns as  *)
(* an answer.                                                              *)

SubscribesOf(l) == {s \in subscribing : l \in s.lives}
SettledOf(l) == {a \in answering : a.life = l}

AtMostOne(S) == \A x, y \in S : x = y

OneToken(l) ==
    /\ AtMostOne(CallsOf(l))
    /\ AtMostOne(SubscribesOf(l))
    /\ AtMostOne(SettledOf(l))
    /\ AtMostOne(AnswersOf(l))
    /\ CallsOf(l) # {} => SubscribesOf(l) = {} /\ SettledOf(l) = {} /\ AnswersOf(l) = {}
    /\ SubscribesOf(l) # {} => SettledOf(l) = {} /\ AnswersOf(l) = {}
    /\ SettledOf(l) # {} => AnswersOf(l) = {}

NoToken(l) ==
    CallsOf(l) = {} /\ SubscribesOf(l) = {} /\ SettledOf(l) = {} /\ AnswersOf(l) = {}

(* The engine knows of the call of its lifecycle.                          *)
TokenKnown(l) == ~NoToken(l) => l <= life /\ (l = life => opening = life)

Tokens == \A l \in Lives : OneToken(l) /\ TokenKnown(l)

-----------------------------------------------------------------------------
(* What is on its way to the engine.                                       *)
OnWay(kind, l) ==
    \E i \in 1..Len(toEngine) : toEngine[i].kind = kind /\ toEngine[i].life = l

EntryOnWay(e) ==
    \E i \in 1..Len(toEngine) : toEngine[i].kind = "entry" /\ toEngine[i].entry = e

(* Has the daemon's answer to a call of lifecycle l been settled this way? *)
IsSettled(kind, l) ==
    \/ \E a \in answering : a.kind = kind /\ a.life = l
    \/ OnWay(kind, l)

StopsIn == {i \in 1..Len(toClient) : toClient[i].kind = "stop"}

(* The relay subscribes once between two stops, and not under a handle.    *)
RelayInv ==
    /\ \A s, t \in subscribing : s.stops = t.stops => s = t
    /\ \A s \in subscribing : s.stops <= stops
    /\ handle # NoHandle => \A s \in subscribing : s.stops # stops

(* The counters of the engine.                                             *)
EngineInv ==
    /\ opening <= life
    /\ running => life # NoLife /\ failures < FailureLimit
    /\ stops + Cardinality(StopsIn) <= life

(* The worker takes the calls in their order: a call of a lifecycle that   *)
(* is over has its stop behind it.                                         *)
WorkerQueue ==
    /\ running /\ toClient # <<>> => Len(toClient) \in CallsOf(life)
    /\ \A l \in Lives : \A i \in CallsOf(l) :
         ~Current(l) => \E k \in StopsIn : i < k

(* A refused call of the running stream leaves nothing behind.             *)
WorkerRefused ==
    running /\ IsSettled("refused", life) =>
        toClient = <<>> /\ handle = NoHandle /\ \A s \in subscribing : s.stops # stops

(* A stream that was stopped is closed, or its stop is on the way.         *)
WorkerStopped ==
    ~running /\ StopsIn = {} => handle = NoHandle /\ \A s \in subscribing : s.stops # stops

(* What the relay serves begins no later than what the engine has seen,    *)
(* and the last entry it forwarded has been seen or is on its way.         *)
WorkerCursor ==
    running =>
      /\ \A i \in CallsOf(life) : toClient[i].cursor <= cursor
      /\ StopsIn = {} =>
           /\ \A s \in subscribing : s.stops = stops => s.cursor <= cursor
           /\ handle # NoHandle => handle - 1 <= cursor \/ EntryOnWay(handle - 1)

WorkerInv == WorkerQueue /\ WorkerRefused /\ WorkerStopped /\ WorkerCursor

(* stopActivity() of the main thread has returned before anything else     *)
(* happens.                                                                *)
MainInv == \A i \in StopsIn : ~running /\ i = Len(toClient)

(* A call of the running stream that is being opened or was opened has a   *)
(* subscription, unless the loss of it is known.                           *)
Opened ==
    running =>
      /\ \A s \in subscribing : life \in s.lives => s.stops = stops
      /\ IsSettled("opened", life) => handle # NoHandle \/ LossDue \/ retry = life

(* Nobody has seen what the journal does not hold, and what the engine has *)
(* seen was followed by a refresh, or will be.                             *)
JournalInv ==
    /\ refreshed <= journal /\ cursor <= journal
    /\ \A e \in Entries : EntryOnWay(e) => e <= journal
    /\ running => debounce \/ cursor <= refreshed

IInv ==
    /\ TypeOK
    /\ Tokens
    /\ RelayInv
    /\ EngineInv
    /\ thread = "worker" => WorkerInv
    /\ thread = "main" => MainInv
    /\ Opened
    /\ JournalInv
    /\ NeverSilent
-----------------------------------------------------------------------------
(* Sequences, sets and the queues.                                         *)

LEMMA Bounds ==
    /\ MaxEntries \in Nat /\ MaxLives \in Nat /\ MaxBreaks \in Nat
    /\ FailureLimit \in Nat /\ FailureLimit > 0
  BY StreamAssumption, RelayAssumption

LEMMA AppendFacts ==
    ASSUME NEW S, NEW q \in Seq(S), NEW e \in S
    PROVE  /\ Append(q, e) \in Seq(S) /\ Append(q, e) # <<>>
           /\ Len(Append(q, e)) = Len(q) + 1 /\ Len(q) \in Nat
           /\ \A i \in 1..Len(q) : Append(q, e)[i] = q[i]
           /\ Append(q, e)[Len(q) + 1] = e
  OBVIOUS

LEMMA TailFacts ==
    ASSUME NEW S, NEW q \in Seq(S), q # <<>>
    PROVE  /\ Tail(q) \in Seq(S) /\ Len(q) \in Nat /\ Len(q) >= 1
           /\ Len(Tail(q)) = Len(q) - 1
           /\ \A i \in 1..(Len(q) - 1) : Tail(q)[i] = q[i + 1]
           /\ Head(q) = q[1] /\ q[1] \in S
           /\ Tail(q) = <<>> <=> Len(q) = 1
<1>1. /\ Tail(q) \in Seq(S) /\ Len(q) \in Nat /\ Len(q) >= 1
      /\ Len(Tail(q)) = Len(q) - 1
      /\ \A i \in 1..(Len(q) - 1) : Tail(q)[i] = q[i + 1]
      /\ Head(q) = q[1] /\ q[1] \in S
  OBVIOUS
<1>2. Tail(q) = <<>> <=> Len(Tail(q)) = 0
  BY <1>1, EmptySeq
<1> QED
  BY <1>1, <1>2

LEMMA FrontFacts ==
    ASSUME NEW S, NEW q \in Seq(S), q # <<>>
    PROVE  /\ Front(q) \in Seq(S) /\ Len(q) \in Nat /\ Len(q) >= 1
           /\ Len(Front(q)) = Len(q) - 1
           /\ \A i \in 1..(Len(q) - 1) : Front(q)[i] = q[i]
           /\ Last(q) = q[Len(q)] /\ q[Len(q)] \in S
<1>1. Len(q) \in Nat /\ Len(q) >= 1 /\ \A i \in 1..Len(q) : q[i] \in S
  OBVIOUS
<1> DEFINE n == Len(q) - 1
<1>2. /\ SubSeq(q, 1, n) \in Seq(S)
      /\ Len(SubSeq(q, 1, n)) = IF 1 <= n THEN n - 1 + 1 ELSE 0
      /\ \A i \in 1..(n - 1 + 1) : SubSeq(q, 1, n)[i] = q[1 + i - 1]
  BY <1>1, SubSeqProperties
<1>3. \A i \in 1..(Len(q) - 1) : Front(q)[i] = q[i]
  <2> SUFFICES ASSUME NEW i \in 1..n PROVE Front(q)[i] = q[i]
    OBVIOUS
  <2>1. i \in 1..(n - 1 + 1) /\ 1 + i - 1 = i
    BY <1>1
  <2> QED
    BY <1>2, <2>1 DEF Front
<1>4. Len(Front(q)) = n
  <2>1. n \in Nat
    BY <1>1
  <2>2. Front(q) = SubSeq(q, 1, n)
    BY DEF Front
  <2> HIDE DEF n
  <2>3. ASSUME n = 0 PROVE Len(SubSeq(q, 1, n)) = n
    BY <1>2, <2>3
  <2>4. ASSUME n >= 1 PROVE Len(SubSeq(q, 1, n)) = n
    BY <1>2, <2>1, <2>4
  <2> QED
    BY <2>1, <2>2, <2>3, <2>4
<1>5. Last(q) = q[Len(q)] /\ Front(q) \in Seq(S)
  BY <1>2 DEF Last, Front
<1>6. q[Len(q)] \in S
  BY <1>1
<1> HIDE DEF n
<1> QED
  BY <1>1, <1>3, <1>4, <1>5, <1>6 DEF n

LEMMA AtMostOneCardinality ==
    ASSUME NEW S, AtMostOne(S)
    PROVE  IsFiniteSet(S) /\ Cardinality(S) = IF S = {} THEN 0 ELSE 1
<1>1. CASE S = {}
  BY <1>1, FS_EmptySet
<1>2. CASE S # {}
  <2>1. PICK x \in S : TRUE
    BY <1>2
  <2>2. S = {x}
    BY <2>1 DEF AtMostOne
  <2> QED
    BY <1>2, <2>2, FS_Singleton
<1> QED
  BY <1>1, <1>2

(* A call joins the queue of the client.                                   *)
LEMMA CallAppended ==
    ASSUME toClient \in Seq(Calls), NEW c \in Calls, toClient' = Append(toClient, c)
    PROVE  /\ toClient' \in Seq(Calls) /\ toClient' # <<>>
           /\ Len(toClient) \in Nat /\ Len(toClient') = Len(toClient) + 1
           /\ \A i \in 1..Len(toClient) : toClient'[i] = toClient[i]
           /\ toClient'[Len(toClient')] = c
           /\ \A l : CallsOf(l)' = CallsOf(l) \cup
                IF c.kind = "start" /\ c.life = l THEN {Len(toClient')} ELSE {}
           /\ StopsIn' = StopsIn \cup IF c.kind = "stop" THEN {Len(toClient')} ELSE {}
<1>1. /\ toClient' \in Seq(Calls) /\ toClient' # <<>>
      /\ Len(toClient) \in Nat /\ Len(toClient') = Len(toClient) + 1
      /\ \A i \in 1..Len(toClient) : toClient'[i] = toClient[i]
      /\ toClient'[Len(toClient')] = c
  BY AppendFacts
<1>2. 1..Len(toClient') = (1..Len(toClient)) \cup {Len(toClient')}
  BY <1>1
<1>3. ASSUME NEW l
      PROVE  CallsOf(l)' = CallsOf(l) \cup
               IF c.kind = "start" /\ c.life = l THEN {Len(toClient')} ELSE {}
  BY <1>1, <1>2 DEF CallsOf
<1>4. StopsIn' = StopsIn \cup IF c.kind = "stop" THEN {Len(toClient')} ELSE {}
  BY <1>1, <1>2 DEF StopsIn
<1> QED
  BY <1>1, <1>3, <1>4

(* The relay takes the oldest call.                                        *)
LEMMA CallTaken ==
    ASSUME toClient \in Seq(Calls), NEW c, Takes(c)
    PROVE  /\ toClient' \in Seq(Calls) /\ c \in Calls
           /\ Len(toClient) \in Nat /\ Len(toClient) >= 1
           /\ Len(toClient') = Len(toClient) - 1
           /\ toClient' = <<>> <=> Len(toClient) = 1
           /\ toClient[1] = c
           /\ \A i \in 1..Len(toClient') : toClient'[i] = toClient[i + 1]
           /\ \A l : CallsOf(l)' = {i \in 1..Len(toClient') : i + 1 \in CallsOf(l)}
           /\ \A l : 1 \in CallsOf(l) <=> c.kind = "start" /\ c.life = l
           /\ StopsIn' = {i \in 1..Len(toClient') : i + 1 \in StopsIn}
           /\ 1 \in StopsIn <=> c.kind = "stop"
  BY TailFacts DEF Takes, CallsOf, StopsIn

(* The main-thread client takes a stop first.                              *)
LEMMA StopTaken ==
    ASSUME toClient \in Seq(Calls), toClient # <<>>, Last(toClient).kind = "stop",
           toClient' = Front(toClient)
    PROVE  /\ toClient' \in Seq(Calls)
           /\ Len(toClient) \in Nat /\ Len(toClient) >= 1
           /\ Len(toClient') = Len(toClient) - 1
           /\ \A i \in 1..Len(toClient') : toClient'[i] = toClient[i]
           /\ \A l : CallsOf(l)' = CallsOf(l)
           /\ StopsIn' = StopsIn \ {Len(toClient)}
           /\ Len(toClient) \in StopsIn
<1>1. /\ toClient' \in Seq(Calls) /\ Len(toClient) \in Nat /\ Len(toClient) >= 1
      /\ Len(toClient') = Len(toClient) - 1
      /\ \A i \in 1..Len(toClient') : toClient'[i] = toClient[i]
      /\ toClient[Len(toClient)].kind = "stop"
  BY FrontFacts
<1>2. 1..Len(toClient) = (1..Len(toClient')) \cup {Len(toClient)}
  BY <1>1
<1>3. Len(toClient) \notin 1..Len(toClient')
  BY <1>1
<1>4. ASSUME NEW l PROVE CallsOf(l)' = CallsOf(l)
  BY <1>1, <1>2 DEF CallsOf
<1>5. StopsIn' = StopsIn \ {Len(toClient)} /\ Len(toClient) \in StopsIn
  BY <1>1, <1>2, <1>3 DEF StopsIn
<1> QED
  BY <1>1, <1>4, <1>5

Messages == Answers \cup Events

(* A message is posted to the engine.                                      *)
LEMMA MessagePosted ==
    ASSUME toEngine \in Seq(Messages), NEW m \in Messages, Posts(m)
    PROVE  /\ toEngine' \in Seq(Messages) /\ toEngine' # <<>>
           /\ Len(toEngine) \in Nat /\ Len(toEngine') = Len(toEngine) + 1
           /\ \A i \in 1..Len(toEngine) : toEngine'[i] = toEngine[i]
           /\ toEngine'[Len(toEngine')] = m
           /\ \A l : AnswersOf(l)' = AnswersOf(l) \cup
                IF m.kind \in {"opened", "refused"} /\ m.life = l
                THEN {Len(toEngine')} ELSE {}
<1>1. /\ toEngine' \in Seq(Messages) /\ toEngine' # <<>>
      /\ Len(toEngine) \in Nat /\ Len(toEngine') = Len(toEngine) + 1
      /\ \A i \in 1..Len(toEngine) : toEngine'[i] = toEngine[i]
      /\ toEngine'[Len(toEngine')] = m
  BY AppendFacts DEF Posts
<1>2. 1..Len(toEngine') = (1..Len(toEngine)) \cup {Len(toEngine')}
  BY <1>1
<1>3. ASSUME NEW l
      PROVE  AnswersOf(l)' = AnswersOf(l) \cup
               IF m.kind \in {"opened", "refused"} /\ m.life = l
               THEN {Len(toEngine')} ELSE {}
  BY <1>1, <1>2 DEF AnswersOf
<1> QED
  BY <1>1, <1>3

(* The engine handles the oldest message.                                  *)
LEMMA MessageDelivered ==
    ASSUME toEngine \in Seq(Messages), NEW m, Delivers(m)
    PROVE  /\ toEngine' \in Seq(Messages) /\ m \in Messages
           /\ Len(toEngine) \in Nat /\ Len(toEngine) >= 1
           /\ Len(toEngine') = Len(toEngine) - 1
           /\ toEngine[1] = m
           /\ \A i \in 1..Len(toEngine') : toEngine'[i] = toEngine[i + 1]
           /\ \A l : AnswersOf(l)' = {i \in 1..Len(toEngine') : i + 1 \in AnswersOf(l)}
           /\ \A l : 1 \in AnswersOf(l) <=>
                       m.kind \in {"opened", "refused"} /\ m.life = l
  BY TailFacts DEF Delivers, AnswersOf
(* Calls are settled in the relay.                                         *)
LEMMA CallsSettled ==
    ASSUME answering \subseteq Answers, NEW kind \in {"opened", "refused"},
           NEW ls \in SUBSET Lives, Settles(kind, ls)
    PROVE  /\ answering' \subseteq Answers
           /\ \A a \in answering : a \in answering'
           /\ \A a \in answering' : a \in answering \/ (a.kind = kind /\ a.life \in ls)
           /\ \A l \in ls : \E a \in answering' : a.kind = kind /\ a.life = l
           /\ \A a, b \in answering' : a \notin answering /\ b \notin answering
                                       /\ a.life = b.life => a = b
<1>1. answering' = answering \cup [kind : {kind}, life : ls]
  BY DEF Settles
<1>2. \A a \in [kind : {kind}, life : ls] : a.kind = kind /\ a.life \in ls /\ a \in Answers
  BY DEF Answers
<1>3. \A a, b \in [kind : {kind}, life : ls] : a.life = b.life => a = b
  OBVIOUS
<1>4. \A l \in ls : /\ [kind |-> kind, life |-> l] \in [kind : {kind}, life : ls]
                    /\ [kind |-> kind, life |-> l].kind = kind
                    /\ [kind |-> kind, life |-> l].life = l
  OBVIOUS
<1> QED
  BY <1>1, <1>2, <1>3, <1>4

(* What a call makes of the subscribes that are pending.                   *)
StartsOne(l, c) ==
    /\ \A s \in subscribing : s.stops # stops
    /\ \E new \in Pending :
         /\ new.lives = {l} /\ new.stops = stops /\ new.cursor = c
         /\ subscribing' = subscribing \cup {new}

JoinsOne(l) ==
    \E s \in subscribing, new \in Pending :
      /\ s.stops = stops
      /\ new.lives = s.lives \cup {l} /\ new.stops = stops /\ new.cursor = s.cursor
      /\ subscribing' = (subscribing \ {s}) \cup {new}

LEMMA StartTaken ==
    ASSUME TypeOK, RelayInv, NEW l \in Lives, TakesStart(l)
    PROVE  \E c \in Entries \cup {0} :
             /\ Takes([kind |-> "start", life |-> l, cursor |-> c])
             /\ \/ handle # NoHandle /\ Settles("opened", {l}) /\ UNCHANGED subscribing
                \/ handle = NoHandle /\ StartsOne(l, c) /\ UNCHANGED answering
                \/ handle = NoHandle /\ JoinsOne(l) /\ UNCHANGED answering
<1> DEFINE joined == {s \in subscribing : s.stops = stops}
           first(c) == [lives |-> {l}, stops |-> stops, cursor |-> c]
           more(s) == [s EXCEPT !.lives = @ \cup {l}]
<1>1. PICK c \in Entries \cup {0} :
         /\ Takes([kind |-> "start", life |-> l, cursor |-> c])
         /\ IF handle # NoHandle
            THEN Settles("opened", {l}) /\ UNCHANGED subscribing
            ELSE /\ subscribing' = IF joined = {} THEN subscribing \cup {first(c)}
                                   ELSE (subscribing \ joined) \cup {more(s) : s \in joined}
                 /\ UNCHANGED answering
  BY DEF TakesStart
<1>2. stops \in 0..MaxLives /\ subscribing \subseteq Pending
  BY DEF TypeOK
<1>3. CASE handle # NoHandle
  BY <1>1, <1>3
<1>4. CASE handle = NoHandle /\ joined = {}
  <2>1. /\ first(c) \in Pending
        /\ first(c).lives = {l} /\ first(c).stops = stops /\ first(c).cursor = c
    BY <1>2 DEF Pending
  <2>2. subscribing' = subscribing \cup {first(c)} /\ UNCHANGED answering
    BY <1>1, <1>4
  <2>3. \A s \in subscribing : s.stops # stops
    BY <1>4
  <2> HIDE DEF first
  <2>4. StartsOne(l, c)
    BY <2>1, <2>2, <2>3 DEF StartsOne
  <2> QED
    BY <1>1, <1>4, <2>2, <2>4
<1>5. CASE handle = NoHandle /\ joined # {}
  <2>1. PICK s \in subscribing : s.stops = stops
    BY <1>5
  <2>2. joined = {s}
    BY <2>1 DEF RelayInv
  <2>3. /\ more(s) \in Pending
        /\ more(s).lives = s.lives \cup {l} /\ more(s).stops = stops
        /\ more(s).cursor = s.cursor
    BY <1>2, <2>1 DEF Pending
  <2>4. subscribing' = (subscribing \ {s}) \cup {more(s)} /\ UNCHANGED answering
    BY <1>1, <1>5, <2>2
  <2> HIDE DEF more
  <2>5. JoinsOne(l)
    BY <2>1, <2>3, <2>4 DEF JoinsOne
  <2> QED
    BY <1>1, <1>5, <2>4, <2>5
<1> QED
  BY <1>3, <1>4, <1>5

-----------------------------------------------------------------------------
(* The stops in the queue and the stops taken.                             *)

LEMMA StopsFinite ==
    ASSUME toClient \in Seq(Calls)
    PROVE  IsFiniteSet(StopsIn) /\ Cardinality(StopsIn) \in Nat
<1>1. Len(toClient) \in Nat
  OBVIOUS
<1>2. IsFiniteSet(1..Len(toClient))
  BY <1>1, FS_Interval
<1> QED
  BY <1>2, FS_Subset, FS_CardinalityType DEF StopsIn

(* The relay takes one call: one stop less in the queue if it was a stop.  *)
LEMMA StopsShift ==
    ASSUME toClient \in Seq(Calls), NEW c, Takes(c)
    PROVE  Cardinality(StopsIn)' =
             IF c.kind = "stop" THEN Cardinality(StopsIn) - 1 ELSE Cardinality(StopsIn)
<1>1. /\ Len(toClient) \in Nat /\ Len(toClient') = Len(toClient) - 1
      /\ StopsIn' = {i \in 1..Len(toClient') : i + 1 \in StopsIn}
      /\ 1 \in StopsIn <=> c.kind = "stop"
  BY CallTaken
<1> DEFINE rest == StopsIn \ {1}
           f == [i \in rest |-> i - 1]
<1>2. IsFiniteSet(StopsIn) /\ Cardinality(StopsIn) \in Nat
  BY StopsFinite
<1>3. /\ IsFiniteSet(rest)
      /\ Cardinality(rest) =
           IF 1 \in StopsIn THEN Cardinality(StopsIn) - 1 ELSE Cardinality(StopsIn)
  BY <1>2, FS_RemoveElement
<1>4. \A i \in rest : i \in Nat /\ i >= 2 /\ i <= Len(toClient)
  BY <1>1 DEF StopsIn
<1>5. f \in [rest -> StopsIn']
  BY <1>1, <1>4
<1>6. \A i, j \in rest : f[i] = f[j] => i = j
  BY <1>4
<1>7. \A j \in StopsIn' : \E i \in rest : f[i] = j
  <2> SUFFICES ASSUME NEW j \in StopsIn' PROVE \E i \in rest : f[i] = j
    OBVIOUS
  <2>1. j \in 1..Len(toClient') /\ j + 1 \in StopsIn
    BY <1>1
  <2>2. j + 1 \in rest /\ f[j + 1] = j
    BY <1>1, <2>1
  <2> QED
    BY <2>2
<1>8. f \in Bijection(rest, StopsIn')
  <2>1. DOMAIN f = rest
    BY <1>5
  <2> HIDE DEF f, rest
  <2> QED
    BY <1>5, <1>6, <1>7, <2>1 DEF Bijection, Injection, Surjection, IsInjective
<1>9. Cardinality(StopsIn') = Cardinality(rest)
  BY <1>3, <1>8, FS_Bijection DEF ExistsBijection
<1>10. Cardinality(StopsIn)' = Cardinality(StopsIn')
  OBVIOUS
<1> QED
  BY <1>1, <1>3, <1>9, <1>10
-----------------------------------------------------------------------------
LEMMA InitIInv == Init => IInv
<1> SUFFICES ASSUME Init PROVE IInv
  OBVIOUS
<1> USE Bounds DEF Init, StreamInit, NoLife, NoHandle
<1>1. TypeOK
  <2>1. toClient \in Seq(Calls) /\ toEngine \in Seq(Answers \cup Events)
    BY EmptySeq
  <2>2. running \in BOOLEAN /\ debounce \in BOOLEAN
    BY Zenon
  <2>3. /\ life \in 0..MaxLives /\ cursor \in Entries \cup {0} /\ preimages \subseteq Entries
        /\ failures \in 0..FailureLimit
        /\ opening \in Lives \cup {NoLife} /\ retry \in Lives \cup {NoLife}
        /\ refreshed \in 0..MaxEntries /\ journal \in 0..MaxEntries
    OBVIOUS
  <2>4. StreamTypeOK
    BY <2>1, <2>2, <2>3, Zenon DEF StreamTypeOK
  <2> QED
    BY <2>4 DEF TypeOK
<1>2. /\ \A l : CallsOf(l) = {} /\ AnswersOf(l) = {} /\ SubscribesOf(l) = {}
                /\ SettledOf(l) = {} /\ ~IsSettled("opened", l) /\ ~IsSettled("refused", l)
      /\ StopsIn = {}
  BY DEF CallsOf, AnswersOf, SubscribesOf, SettledOf, StopsIn, IsSettled, OnWay
<1>3. Tokens
  BY <1>2 DEF Tokens, OneToken, TokenKnown, NoToken, AtMostOne
<1>4. RelayInv /\ MainInv /\ Opened /\ NeverSilent
  BY <1>2 DEF RelayInv, MainInv, Opened, NeverSilent
<1>5. EngineInv
  BY <1>2, FS_EmptySet DEF EngineInv
<1>6. WorkerInv
  BY <1>2 DEF WorkerInv, WorkerQueue, WorkerRefused, WorkerStopped, WorkerCursor
<1>7. JournalInv
  BY DEF JournalInv, EntryOnWay
<1> QED
  BY <1>1, <1>3, <1>4, <1>5, <1>6, <1>7 DEF IInv

-----------------------------------------------------------------------------
(* The steps, one per handler.                                             *)

HandlesOpened(l) ==
    /\ Delivers([kind |-> "opened", life |-> l]) /\ OpenResolves(l)
    /\ UNCHANGED toClient /\ UNCHANGED relayVars

HandlesRefused(l) ==
    Delivers([kind |-> "refused", life |-> l]) /\ OpenRejects(l) /\ UNCHANGED relayVars

HandlesEntry(e) ==
    Delivers([kind |-> "entry", entry |-> e]) /\ NoteActivity(e) /\ UNCHANGED relayVars

HandlesLoss == Delivers([kind |-> "lost"]) /\ NoteStreamLost /\ UNCHANGED relayVars

Retries == AnswersHandled /\ RetryFires /\ UNCHANGED relayVars
Refreshes == DebounceFires /\ UNCHANGED relayVars
Starts == Start /\ UNCHANGED relayVars
Stopping == Stop /\ UNCHANGED relayVars
Records == Record /\ UNCHANGED relayVars

LEMMA Steps ==
    ASSUME Next
    PROVE  \/ TakesStop
           \/ /\ StopReturned
              /\ \/ \E l \in Lives : TakesStart(l)
                 \/ \E a \in answering : PostsAnswer(a)
                 \/ \E s \in subscribing : SubscribeResolves(s) \/ SubscribeRejects(s)
                 \/ PumpForwards \/ PumpEnds
                 \/ \E l \in Lives : HandlesOpened(l) \/ HandlesRefused(l)
                 \/ \E e \in Entries : HandlesEntry(e)
                 \/ HandlesLoss \/ Retries \/ Refreshes \/ Starts \/ Stopping \/ Records
  BY DEF Next, Wallet, Engine, Relay, HandlesOpened, HandlesRefused, HandlesEntry,
     HandlesLoss, Retries, Refreshes, Starts, Stopping, Records

(* Open() of a new lifecycle, or of the current one.                       *)
LEMMA OpenCases ==
    ASSUME TypeOK, NEW l \in Lives, NEW c \in Entries \cup {0}, Open(l, c)
    PROVE  /\ opening' = l
           /\ \/ opening = l /\ toClient' = toClient
              \/ /\ opening # l
                 /\ toClient' = Append(toClient, [kind |-> "start", life |-> l, cursor |-> c])
                 /\ [kind |-> "start", life |-> l, cursor |-> c] \in Calls
                 /\ toClient' \in Seq(Calls)
           /\ toClient' \in Seq(Calls)
<1>1. toClient \in Seq(Calls)
  BY DEF TypeOK, StreamTypeOK
<1>2. [kind |-> "start", life |-> l, cursor |-> c] \in Calls
  BY DEF Calls
<1> QED
  BY <1>1, <1>2, AppendFacts DEF Open

(* Type correctness of every step, given the count of the stops.           *)
LEMMA TypeOfStop ==
    ASSUME TypeOK, EngineInv, TakesStop
    PROVE  TypeOK' /\ EngineInv'
<1> USE Bounds
<1>0. /\ toClient \in Seq(Calls) /\ stops \in Nat /\ life \in 0..MaxLives
      /\ stops + Cardinality(StopsIn) <= life
      /\ IsFiniteSet(StopsIn) /\ Cardinality(StopsIn) \in Nat
  BY StopsFinite DEF TypeOK, StreamTypeOK, EngineInv
<1>1. /\ toClient' \in Seq(Calls) /\ StopsIn # {}
      /\ Cardinality(StopsIn)' = Cardinality(StopsIn) - 1
  <2>1. CASE thread = "worker"
    <3>1. Takes([kind |-> "stop"])
      BY <2>1 DEF TakesStop
    <3> QED
      BY <1>0, <3>1, CallTaken, StopsShift
  <2>2. CASE thread # "worker"
    <3>1. /\ toClient' \in Seq(Calls) /\ StopsIn' = StopsIn \ {Len(toClient)}
          /\ Len(toClient) \in StopsIn
      BY <1>0, <2>2, StopTaken DEF TakesStop
    <3>2. Cardinality(StopsIn \ {Len(toClient)}) = Cardinality(StopsIn) - 1
      BY <1>0, <3>1, FS_RemoveElement
    <3>3. Cardinality(StopsIn)' = Cardinality(StopsIn')
      OBVIOUS
    <3> QED
      BY <3>1, <3>2, <3>3
  <2> QED
    BY <2>1, <2>2
<1>2. Cardinality(StopsIn) # 0
  BY <1>0, <1>1, FS_EmptySet
<1>3. stops + 1 \in 0..MaxLives /\ stops + 1 + (Cardinality(StopsIn) - 1) <= life
  BY <1>0, <1>2
<1>4. /\ stops' = stops + 1 /\ handle' = NoHandle
      /\ UNCHANGED <<streamVars, journal, toEngine, thread, subscribing, answering, breaks>>
  BY DEF TakesStop
<1>5. TypeOK'
  BY <1>1, <1>3, <1>4 DEF TypeOK, StreamTypeOK, streamVars
<1>6. EngineInv'
  BY <1>0, <1>1, <1>3, <1>4 DEF EngineInv, streamVars
<1> QED
  BY <1>5, <1>6

LEMMA TypeOfStart ==
    ASSUME TypeOK, EngineInv, RelayInv, NEW l \in Lives, TakesStart(l)
    PROVE  TypeOK' /\ EngineInv'
<1>0. toClient \in Seq(Calls) /\ subscribing \subseteq Pending /\ answering \subseteq Answers
  BY DEF TypeOK, StreamTypeOK
<1>1. PICK c \in Entries \cup {0} :
         /\ Takes([kind |-> "start", life |-> l, cursor |-> c])
         /\ \/ handle # NoHandle /\ Settles("opened", {l}) /\ UNCHANGED subscribing
            \/ handle = NoHandle /\ StartsOne(l, c) /\ UNCHANGED answering
            \/ handle = NoHandle /\ JoinsOne(l) /\ UNCHANGED answering
  BY StartTaken
<1>2. toClient' \in Seq(Calls) /\ Cardinality(StopsIn)' = Cardinality(StopsIn)
  BY <1>0, <1>1, CallTaken, StopsShift
<1>3. answering' \subseteq Answers
  BY <1>0, <1>1, CallsSettled
<1>4. subscribing' \subseteq Pending
  BY <1>0, <1>1 DEF StartsOne, JoinsOne
<1>5. UNCHANGED <<streamVars, journal, toEngine, thread, handle, stops, breaks>>
  BY DEF TakesStart
<1>6. TypeOK'
  BY <1>2, <1>3, <1>4, <1>5 DEF TypeOK, StreamTypeOK, streamVars
<1>7. EngineInv'
  BY <1>2, <1>5 DEF EngineInv, streamVars
<1> QED
  BY <1>6, <1>7
(* Neither the queue of the client nor the counters move.                  *)
LEMMA EngineStays ==
    ASSUME EngineInv, UNCHANGED <<life, stops, toClient>>,
           opening' = opening \/ opening' = NoLife, life \in Nat,
           running' => running /\ failures' < FailureLimit
    PROVE  EngineInv'
<1>1. Cardinality(StopsIn)' = Cardinality(StopsIn)
  BY DEF StopsIn
<1> QED
  BY <1>1 DEF EngineInv, NoLife

(* The steps of the relay that take no call.                               *)
LEMMA TypeOfRelay ==
    ASSUME TypeOK, EngineInv, JournalInv,
           \/ \E a \in answering : PostsAnswer(a)
           \/ \E s \in subscribing : SubscribeResolves(s) \/ SubscribeRejects(s)
           \/ PumpForwards \/ PumpEnds
    PROVE  TypeOK' /\ EngineInv'
<1> USE Bounds
<1>0. /\ subscribing \subseteq Pending /\ answering \subseteq Answers
      /\ toEngine \in Seq(Messages) /\ life \in 0..MaxLives /\ journal \in 0..MaxEntries
      /\ handle \in Entries \cup {NoHandle, MaxEntries + 1}
      /\ breaks \in 0..MaxBreaks
      /\ running => failures < FailureLimit
  BY DEF TypeOK, StreamTypeOK, Messages, EngineInv
<1>1. ASSUME NEW a \in answering, PostsAnswer(a) PROVE TypeOK' /\ EngineInv'
  <2>1. toEngine' \in Seq(Messages)
    BY <1>0, <1>1, MessagePosted DEF PostsAnswer, Messages
  <2>2. TypeOK'
    BY <1>1, <2>1 DEF PostsAnswer, TypeOK, StreamTypeOK, streamVars, Messages
  <2> QED
    BY <1>0, <1>1, <2>2, EngineStays DEF PostsAnswer, streamVars
<1>2. ASSUME NEW s \in subscribing, SubscribeResolves(s) PROVE TypeOK' /\ EngineInv'
  <2>1. s.lives \in SUBSET Lives /\ s.cursor \in Entries \cup {0}
    BY <1>0 DEF Pending
  <2>2. answering' \subseteq Answers
    BY <1>0, <1>2, <2>1, CallsSettled DEF SubscribeResolves
  <2>3. handle' \in Entries \cup {NoHandle, MaxEntries + 1}
    BY <1>0, <1>2, <2>1 DEF SubscribeResolves, Entries
  <2>4. TypeOK'
    BY <1>2, <2>2, <2>3 DEF SubscribeResolves, TypeOK, StreamTypeOK, streamVars
  <2> QED
    BY <1>0, <1>2, <2>4, EngineStays DEF SubscribeResolves, streamVars
<1>3. ASSUME NEW s \in subscribing, SubscribeRejects(s) PROVE TypeOK' /\ EngineInv'
  <2>1. s.lives \in SUBSET Lives
    BY <1>0 DEF Pending
  <2>2. answering' \subseteq Answers
    BY <1>0, <1>3, <2>1, CallsSettled DEF SubscribeRejects
  <2>3. TypeOK'
    BY <1>3, <2>2 DEF SubscribeRejects, TypeOK, StreamTypeOK, streamVars
  <2> QED
    BY <1>0, <1>3, <2>3, EngineStays DEF SubscribeRejects, streamVars
<1>4. ASSUME PumpForwards PROVE TypeOK' /\ EngineInv'
  <2>1. handle \in Entries /\ handle' = handle + 1
    BY <1>0, <1>4 DEF PumpForwards, Entries, NoHandle
  <2>2. handle' \in Entries \cup {NoHandle, MaxEntries + 1}
    BY <2>1 DEF Entries
  <2>3. [kind |-> "entry", entry |-> handle] \in Messages
    BY <2>1 DEF Messages, Events
  <2>4. CASE thread = "worker"
    <3>1. toEngine' \in Seq(Messages)
      BY <1>0, <1>4, <2>3, <2>4, MessagePosted DEF PumpForwards, Emits
    <3>2. TypeOK'
      BY <1>4, <2>2, <2>4, <3>1 DEF PumpForwards, Emits, TypeOK, StreamTypeOK, streamVars, Messages
    <3> QED
      BY <1>0, <1>4, <2>4, <3>2, EngineStays DEF PumpForwards, Emits, streamVars
  <2>5. CASE thread # "worker"
    <3>1. NoteActivity(handle) /\ toEngine' = toEngine
      BY <1>4, <2>5 DEF PumpForwards, Emits
    <3>2. StreamTypeOK'
      BY <2>1, <3>1 DEF NoteActivity, TypeOK, StreamTypeOK
    <3>3. TypeOK'
      BY <1>4, <2>2, <3>2 DEF PumpForwards, TypeOK
    <3> QED
      BY <1>0, <1>4, <3>1, <3>3, EngineStays DEF PumpForwards, NoteActivity
  <2> QED
    BY <2>4, <2>5
<1>5. ASSUME PumpEnds PROVE TypeOK' /\ EngineInv'
  <2>1. breaks' \in 0..MaxBreaks
    BY <1>0, <1>5 DEF PumpEnds
  <2>2. handle' = NoHandle
    BY <1>5 DEF PumpEnds
  <2>3. [kind |-> "lost"] \in Messages
    BY DEF Messages, Events
  <2>4. CASE thread = "worker"
    <3>1. toEngine' \in Seq(Messages)
      BY <1>0, <1>5, <2>3, <2>4, MessagePosted DEF PumpEnds, Emits
    <3>2. TypeOK'
      BY <1>5, <2>1, <2>2, <2>4, <3>1 DEF PumpEnds, Emits, TypeOK, StreamTypeOK, streamVars, Messages
    <3> QED
      BY <1>0, <1>5, <2>4, <3>2, EngineStays DEF PumpEnds, Emits, streamVars
  <2>5. CASE thread # "worker"
    <3>1. NoteStreamLost /\ toEngine' = toEngine
      BY <1>5, <2>5 DEF PumpEnds, Emits
    <3>2. running => life \in Lives
      BY <1>0 DEF EngineInv, Lives, NoLife
    <3>3. StreamTypeOK'
      BY <3>1, <3>2 DEF NoteStreamLost, TypeOK, StreamTypeOK
    <3>4. TypeOK'
      BY <1>5, <2>1, <2>2, <3>3 DEF PumpEnds, TypeOK
    <3> QED
      BY <1>0, <1>5, <3>1, <3>4, EngineStays DEF PumpEnds, NoteStreamLost
  <2> QED
    BY <2>4, <2>5
<1> QED
  BY <1>1, <1>2, <1>3, <1>4, <1>5

(* The steps of the engine, the wallet and the daemon.                     *)
LEMMA TypeOfEngine ==
    ASSUME TypeOK, EngineInv,
           \/ \E l \in Lives : HandlesOpened(l) \/ HandlesRefused(l)
           \/ \E e \in Entries : HandlesEntry(e)
           \/ HandlesLoss \/ Retries \/ Refreshes \/ Starts \/ Stopping \/ Records
    PROVE  TypeOK' /\ EngineInv'
<1> USE Bounds
<1>0. /\ toEngine \in Seq(Messages) /\ toClient \in Seq(Calls)
      /\ life \in 0..MaxLives /\ failures \in 0..FailureLimit /\ stops \in Nat
      /\ journal \in 0..MaxEntries
      /\ running => failures < FailureLimit /\ life \in Lives
      /\ stops + Cardinality(StopsIn) <= life /\ opening <= life
      /\ IsFiniteSet(StopsIn) /\ Cardinality(StopsIn) \in Nat
  BY StopsFinite DEF TypeOK, StreamTypeOK, Messages, EngineInv, Lives, NoLife
<1>1. ASSUME NEW l \in Lives, HandlesOpened(l) PROVE TypeOK' /\ EngineInv'
  <2>1. toEngine' \in Seq(Messages)
    BY <1>0, <1>1, MessageDelivered DEF HandlesOpened
  <2>2. failures' \in 0..FailureLimit /\ opening' \in Lives \cup {NoLife}
    BY <1>0, <1>1 DEF HandlesOpened, OpenResolves, Answered, TypeOK, StreamTypeOK
  <2>3. TypeOK'
    BY <1>1, <2>1, <2>2 DEF HandlesOpened, OpenResolves, TypeOK, StreamTypeOK, relayVars, Messages
  <2>4. /\ UNCHANGED <<life, stops, toClient, running>>
        /\ opening' = opening \/ opening' = NoLife
        /\ running => failures' < FailureLimit
    BY <1>0, <1>1 DEF HandlesOpened, OpenResolves, Answered, relayVars
  <2> QED
    BY <1>0, <2>3, <2>4, EngineStays
<1>2. ASSUME NEW l \in Lives, HandlesRefused(l) PROVE TypeOK' /\ EngineInv'
  <2>1. toEngine' \in Seq(Messages)
    BY <1>0, <1>2, MessageDelivered DEF HandlesRefused
  <2>2. failures' \in 0..FailureLimit /\ opening' \in Lives \cup {NoLife}
    BY <1>0, <1>2 DEF HandlesRefused, OpenRejects, Answered, TypeOK, StreamTypeOK, Current
  <2>3. /\ running' \in BOOLEAN /\ debounce' \in BOOLEAN
    BY <1>2, Zenon DEF HandlesRefused, OpenRejects, GivesUp, TypeOK, StreamTypeOK
  <2>4. retry' \in Lives \cup {NoLife} /\ cursor' \in Entries \cup {0}
    BY <1>2 DEF HandlesRefused, OpenRejects, GivesUp, TypeOK, StreamTypeOK
  <2>5. UNCHANGED <<life, preimages, refreshed, journal, toClient>> /\ UNCHANGED relayVars
    BY <1>2 DEF HandlesRefused, OpenRejects
  <2>6. TypeOK'
    BY <2>1, <2>2, <2>3, <2>4, <2>5 DEF TypeOK, StreamTypeOK, relayVars, Messages
  <2>7. /\ opening' = opening \/ opening' = NoLife
        /\ running' => running /\ failures' < FailureLimit
    BY <1>0, <1>2 DEF HandlesRefused, OpenRejects, GivesUp, Answered, Current
  <2> QED
    BY <1>0, <2>5, <2>6, <2>7, EngineStays DEF relayVars
<1>3. ASSUME NEW e \in Entries, HandlesEntry(e) PROVE TypeOK' /\ EngineInv'
  <2>1. toEngine' \in Seq(Messages)
    BY <1>0, <1>3, MessageDelivered DEF HandlesEntry
  <2>2. TypeOK'
    BY <1>3, <2>1 DEF HandlesEntry, NoteActivity, TypeOK, StreamTypeOK, relayVars, Messages
  <2> QED
    BY <1>0, <1>3, <2>2, EngineStays DEF HandlesEntry, NoteActivity, relayVars
<1>4. ASSUME HandlesLoss PROVE TypeOK' /\ EngineInv'
  <2>1. toEngine' \in Seq(Messages)
    BY <1>0, <1>4, MessageDelivered DEF HandlesLoss
  <2>2. TypeOK'
    BY <1>0, <1>4, <2>1 DEF HandlesLoss, NoteStreamLost, TypeOK, StreamTypeOK, relayVars, Messages
  <2> QED
    BY <1>0, <1>4, <2>2, EngineStays DEF HandlesLoss, NoteStreamLost, relayVars
<1>5. ASSUME Retries PROVE TypeOK' /\ EngineInv'
  <2>0. /\ UNCHANGED <<running, life, cursor, preimages, failures, debounce, refreshed, journal,
                       toEngine>>
        /\ UNCHANGED relayVars /\ retry' = NoLife
    BY <1>5 DEF Retries, RetryFires
  <2>1. CASE Current(retry)
    <3>1. retry = life /\ life \in Lives /\ cursor \in Entries \cup {0} /\ Open(retry, cursor)
      BY <1>0, <1>5, <2>1 DEF Retries, RetryFires, Current, TypeOK, StreamTypeOK
    <3>2. /\ opening' = life /\ toClient' \in Seq(Calls)
          /\ \/ toClient' = toClient
             \/ \E c \in Calls : c.kind = "start" /\ toClient' = Append(toClient, c)
      BY <3>1, OpenCases
    <3>3. StopsIn' = StopsIn
      BY <1>0, <3>2, CallAppended DEF StopsIn
    <3>4. Cardinality(StopsIn)' = Cardinality(StopsIn)
      BY <3>3
    <3>5. TypeOK'
      BY <2>0, <3>1, <3>2 DEF TypeOK, StreamTypeOK, relayVars
    <3> QED
      BY <1>0, <2>0, <3>1, <3>2, <3>4, <3>5 DEF EngineInv, relayVars
  <2>2. CASE ~Current(retry)
    <3>1. UNCHANGED <<opening, toClient>>
      BY <1>5, <2>2 DEF Retries, RetryFires
    <3>2. TypeOK'
      BY <2>0, <3>1 DEF TypeOK, StreamTypeOK, relayVars
    <3> QED
      BY <1>0, <2>0, <3>1, <3>2, EngineStays DEF relayVars
  <2> QED
    BY <2>1, <2>2
<1>6. ASSUME Refreshes PROVE TypeOK' /\ EngineInv'
  <2>1. TypeOK'
    BY <1>6 DEF Refreshes, DebounceFires, TypeOK, StreamTypeOK, relayVars
  <2> QED
    BY <1>0, <1>6, <2>1, EngineStays DEF Refreshes, DebounceFires, relayVars
<1>7. ASSUME Starts PROVE TypeOK' /\ EngineInv'
  <2>0. /\ life < MaxLives /\ running' = TRUE /\ life' = life + 1 /\ cursor' = 0
        /\ failures' = 0 /\ Open(life + 1, 0)
        /\ UNCHANGED <<preimages, retry, debounce, refreshed, journal, toEngine>>
        /\ UNCHANGED relayVars
    BY <1>7 DEF Starts, Start
  <2>1. life + 1 \in Lives /\ life + 1 \in 0..MaxLives /\ life' # NoLife
    BY <1>0, <2>0 DEF Lives, NoLife
  <2>2. /\ opening' = life + 1 /\ toClient' \in Seq(Calls)
        /\ \/ toClient' = toClient
           \/ \E c \in Calls : c.kind = "start" /\ toClient' = Append(toClient, c)
    BY <2>0, <2>1, OpenCases
  <2>3. StopsIn' = StopsIn
    BY <1>0, <2>2, CallAppended DEF StopsIn
  <2>4. Cardinality(StopsIn)' = Cardinality(StopsIn)
    BY <2>3
  <2>5. TypeOK'
    BY <2>0, <2>1, <2>2 DEF TypeOK, StreamTypeOK, relayVars
  <2>6. stops + Cardinality(StopsIn) <= life + 1 /\ 0 < FailureLimit /\ stops' = stops
    BY <1>0, <2>0 DEF relayVars
  <2>7. EngineInv'
    BY <2>0, <2>1, <2>2, <2>4, <2>6 DEF EngineInv
  <2> QED
    BY <2>5, <2>7
<1>8. ASSUME Stopping PROVE TypeOK' /\ EngineInv'
  <2>0. /\ life < MaxLives /\ running' = FALSE /\ life' = life + 1 /\ cursor' = 0
        /\ preimages' = {} /\ retry' = NoLife /\ debounce' = FALSE
        /\ toClient' = Append(toClient, [kind |-> "stop"])
        /\ UNCHANGED <<failures, opening, refreshed, journal, toEngine>>
        /\ UNCHANGED relayVars
    BY <1>8 DEF Stopping, Stop
  <2>1. /\ toClient' \in Seq(Calls)
        /\ StopsIn' = StopsIn \cup {Len(toClient')} /\ Len(toClient') \notin StopsIn
    <3>1. [kind |-> "stop"] \in Calls /\ [kind |-> "stop"].kind = "stop"
      BY DEF Calls
    <3> HIDE DEF Calls
    <3>2. /\ toClient' \in Seq(Calls) /\ Len(toClient) \in Nat
          /\ Len(toClient') = Len(toClient) + 1
          /\ StopsIn' = StopsIn \cup {Len(toClient')}
      BY <1>0, <2>0, <3>1, CallAppended
    <3>3. Len(toClient') \notin StopsIn
      BY <3>2 DEF StopsIn
    <3> QED
      BY <3>2, <3>3
  <2>2. Cardinality(StopsIn') = Cardinality(StopsIn) + 1
    BY <1>0, <2>1, FS_AddElement
  <2>3. Cardinality(StopsIn)' = Cardinality(StopsIn')
    OBVIOUS
  <2>4. life + 1 \in 0..MaxLives /\ stops + (Cardinality(StopsIn) + 1) <= life + 1
        /\ opening <= life + 1
    BY <1>0, <2>0 DEF TypeOK, StreamTypeOK, Lives, NoLife
  <2>5. TypeOK'
    BY <2>0, <2>1, <2>4 DEF TypeOK, StreamTypeOK, relayVars
  <2>6. EngineInv'
    BY <2>0, <2>2, <2>3, <2>4 DEF EngineInv, relayVars
  <2> QED
    BY <2>5, <2>6
<1>9. ASSUME Records PROVE TypeOK' /\ EngineInv'
  <2>1. journal' \in 0..MaxEntries
    BY <1>0, <1>9 DEF Records, Record
  <2>2. TypeOK'
    BY <1>9, <2>1 DEF Records, Record, TypeOK, StreamTypeOK, relayVars, streamVars
  <2> QED
    BY <1>0, <1>9, <2>2, EngineStays DEF Records, Record, relayVars, streamVars
<1> QED
  BY <1>1, <1>2, <1>3, <1>4, <1>5, <1>6, <1>7, <1>8, <1>9
-----------------------------------------------------------------------------
LEMMA NextRelay ==
    ASSUME TypeOK, RelayInv, Next
    PROVE  RelayInv'
<1>0. /\ subscribing \subseteq Pending /\ stops \in Nat
      /\ \A s \in subscribing : s.stops \in Nat /\ s.cursor \in Nat
  BY Bounds DEF TypeOK, Pending, Entries
<1>1. ASSUME TakesStop PROVE RelayInv'
  <2>1. stops' = stops + 1 /\ handle' = NoHandle /\ subscribing' = subscribing
    BY <1>1 DEF TakesStop
  <2> QED
    BY <1>0, <2>1 DEF RelayInv
<1>2. ASSUME NEW l \in Lives, TakesStart(l) PROVE RelayInv'
  <2>1. PICK c \in Entries \cup {0} :
           \/ handle # NoHandle /\ UNCHANGED subscribing
           \/ handle = NoHandle /\ StartsOne(l, c)
           \/ handle = NoHandle /\ JoinsOne(l)
    BY <1>2, StartTaken
  <2>2. handle' = handle /\ stops' = stops
    BY <1>2 DEF TakesStart
  <2>3. CASE handle # NoHandle /\ UNCHANGED subscribing
    BY <2>2, <2>3 DEF RelayInv
  <2>4. CASE handle = NoHandle /\ StartsOne(l, c)
    BY <1>0, <2>2, <2>4 DEF RelayInv, StartsOne
  <2>5. CASE handle = NoHandle /\ JoinsOne(l)
    BY <1>0, <2>2, <2>5 DEF RelayInv, JoinsOne
  <2> QED
    BY <2>1, <2>3, <2>4, <2>5
<1>3. ASSUME NEW s \in subscribing, SubscribeResolves(s) \/ SubscribeRejects(s)
      PROVE  RelayInv'
  <2>1. /\ subscribing' = subscribing \ {s} /\ stops' = stops
        /\ handle' = handle \/ s.stops = stops
    BY <1>3 DEF SubscribeResolves, SubscribeRejects
  <2> QED
    BY <1>0, <2>1 DEF RelayInv
<1>4. ASSUME PumpForwards \/ PumpEnds PROVE RelayInv'
  <2>1. UNCHANGED <<subscribing, stops>> /\ handle # NoHandle
    BY <1>4 DEF PumpForwards, PumpEnds
  <2> QED
    BY <2>1 DEF RelayInv
<1>5. ASSUME UNCHANGED <<subscribing, stops, handle>> PROVE RelayInv'
  BY <1>5 DEF RelayInv
<1>6. ASSUME \/ \E a \in answering : PostsAnswer(a)
             \/ \E l \in Lives : HandlesOpened(l) \/ HandlesRefused(l)
             \/ \E e \in Entries : HandlesEntry(e)
             \/ HandlesLoss \/ Retries \/ Refreshes \/ Starts \/ Stopping \/ Records
      PROVE  UNCHANGED <<subscribing, stops, handle>>
  BY <1>6 DEF PostsAnswer, HandlesOpened, HandlesRefused, HandlesEntry, HandlesLoss,
     Retries, Refreshes, Starts, Stopping, Records, relayVars
<1> QED
  BY <1>1, <1>2, <1>3, <1>4, <1>5, <1>6, Steps

-----------------------------------------------------------------------------
(* The tokens wander.                                                      *)

SameToken(l) ==
    /\ CallsOf(l)' = CallsOf(l) /\ SubscribesOf(l)' = SubscribesOf(l)
    /\ SettledOf(l)' = SettledOf(l) /\ AnswersOf(l)' = AnswersOf(l)

LEMMA TokenStays ==
    ASSUME NEW l, OneToken(l), TokenKnown(l), SameToken(l),
           UNCHANGED <<life, opening>>
    PROVE  OneToken(l)' /\ TokenKnown(l)'
  BY DEF OneToken, TokenKnown, NoToken, SameToken, AtMostOne

LEMMA QueueViews ==
    /\ UNCHANGED toClient => \A l : CallsOf(l)' = CallsOf(l) /\ StopsIn' = StopsIn
    /\ UNCHANGED toEngine => \A l : AnswersOf(l)' = AnswersOf(l)
    /\ UNCHANGED subscribing => \A l : SubscribesOf(l)' = SubscribesOf(l)
    /\ UNCHANGED answering => \A l : SettledOf(l)' = SettledOf(l)
  BY DEF CallsOf, StopsIn, AnswersOf, SubscribesOf, SettledOf

LEMMA TokensOfStop ==
    ASSUME TypeOK, Tokens, TakesStop, NEW l \in Lives
    PROVE  OneToken(l)' /\ TokenKnown(l)'
<1>0. toClient \in Seq(Calls) /\ OneToken(l) /\ TokenKnown(l)
  BY DEF TypeOK, StreamTypeOK, Tokens
<1>1. UNCHANGED <<toEngine, subscribing, answering, life, opening>>
  BY DEF TakesStop, streamVars
<1>2. CASE thread = "worker"
  <2>1. Takes([kind |-> "stop"])
    BY <1>2 DEF TakesStop
  <2>2. CallsOf(l)' = {i \in 1..Len(toClient') : i + 1 \in CallsOf(l)}
    BY <1>0, <2>1, CallTaken
  <2>3. AtMostOne(CallsOf(l)') /\ (CallsOf(l)' # {} => CallsOf(l) # {})
    BY <1>0, <2>2 DEF AtMostOne, OneToken
  <2> QED
    BY <1>0, <1>1, <2>3, QueueViews DEF OneToken, TokenKnown, NoToken, AtMostOne
<1>3. CASE thread # "worker"
  <2>1. CallsOf(l)' = CallsOf(l)
    BY <1>0, <1>3, StopTaken DEF TakesStop
  <2> QED
    BY <1>0, <1>1, <2>1, QueueViews, TokenStays DEF SameToken
<1> QED
  BY <1>2, <1>3

LEMMA TokensOfStart ==
    ASSUME TypeOK, RelayInv, Tokens, NEW k \in Lives, TakesStart(k), NEW l \in Lives
    PROVE  OneToken(l)' /\ TokenKnown(l)'
<1>0. /\ toClient \in Seq(Calls) /\ OneToken(l) /\ TokenKnown(l)
      /\ answering \subseteq Answers
  BY DEF TypeOK, StreamTypeOK, Tokens
<1>1. UNCHANGED <<toEngine, life, opening>>
  BY DEF TakesStart, streamVars
<1>2. PICK c \in Entries \cup {0} :
         /\ Takes([kind |-> "start", life |-> k, cursor |-> c])
         /\ \/ handle # NoHandle /\ Settles("opened", {k}) /\ UNCHANGED subscribing
            \/ handle = NoHandle /\ StartsOne(k, c) /\ UNCHANGED answering
            \/ handle = NoHandle /\ JoinsOne(k) /\ UNCHANGED answering
  BY StartTaken
<1>3. /\ CallsOf(l)' = {i \in 1..Len(toClient') : i + 1 \in CallsOf(l)}
      /\ 1 \in CallsOf(l) <=> k = l
  BY <1>0, <1>2, CallTaken
<1>4. /\ AtMostOne(CallsOf(l)') /\ (CallsOf(l)' # {} => CallsOf(l) # {})
      /\ k = l => CallsOf(l)' = {} /\ CallsOf(l) # {}
  BY <1>0, <1>3 DEF AtMostOne, OneToken
<1>5. CASE handle # NoHandle /\ Settles("opened", {k}) /\ UNCHANGED subscribing
  <2>1. /\ \A a \in answering : a \in answering'
        /\ \A a \in answering' : a \in answering \/ a.life = k
        /\ \A a, b \in answering' : a \notin answering /\ b \notin answering
                                    /\ a.life = b.life => a = b
    BY <1>0, <1>5, CallsSettled
  <2>2. k # l => SettledOf(l)' = SettledOf(l)
    BY <2>1 DEF SettledOf
  <2>3. k = l => AtMostOne(SettledOf(l)')
    <3>1. k = l => SettledOf(l) = {}
      BY <1>0, <1>4 DEF OneToken
    <3> QED
      BY <2>1, <3>1 DEF SettledOf, AtMostOne
  <2> QED
    BY <1>0, <1>1, <1>4, <1>5, <2>2, <2>3, QueueViews DEF OneToken, TokenKnown, NoToken, AtMostOne
<1>6. CASE StartsOne(k, c) /\ UNCHANGED answering
  <2>1. PICK new : new.lives = {k} /\ subscribing' = subscribing \cup {new}
    BY <1>6 DEF StartsOne
  <2>2. SubscribesOf(l)' = IF k = l THEN SubscribesOf(l) \cup {new} ELSE SubscribesOf(l)
    BY <2>1 DEF SubscribesOf
  <2> QED
    BY <1>0, <1>1, <1>4, <1>6, <2>2, QueueViews DEF OneToken, TokenKnown, NoToken, AtMostOne
<1>7. CASE JoinsOne(k) /\ UNCHANGED answering
  <2>1. PICK s \in subscribing, new \in Pending :
                                      /\ new.lives = s.lives \cup {k}
                                      /\ subscribing' = (subscribing \ {s}) \cup {new}
    BY <1>7 DEF JoinsOne
  <2>2. SubscribesOf(l)' = IF k = l \/ l \in s.lives
                           THEN (SubscribesOf(l) \ {s}) \cup {new}
                           ELSE SubscribesOf(l)
    BY <2>1 DEF SubscribesOf
  <2>3. l \in s.lives <=> s \in SubscribesOf(l)
    BY DEF SubscribesOf
  <2>4. AtMostOne(SubscribesOf(l)') /\ (SubscribesOf(l)' # {} => k = l \/ SubscribesOf(l) # {})
    BY <1>0, <1>4, <2>2, <2>3 DEF OneToken, AtMostOne
  <2> QED
    BY <1>0, <1>1, <1>4, <1>7, <2>4, QueueViews DEF OneToken, TokenKnown, NoToken, AtMostOne
<1> QED
  BY <1>2, <1>5, <1>6, <1>7

LEMMA TokensOfRelay ==
    ASSUME TypeOK, RelayInv, Tokens, NEW l \in Lives,
           \/ \E a \in answering : PostsAnswer(a)
           \/ \E s \in subscribing : SubscribeResolves(s) \/ SubscribeRejects(s)
           \/ PumpForwards \/ PumpEnds
    PROVE  OneToken(l)' /\ TokenKnown(l)'
<1>0. /\ toEngine \in Seq(Messages) /\ OneToken(l) /\ TokenKnown(l)
      /\ answering \subseteq Answers /\ subscribing \subseteq Pending
  BY DEF TypeOK, StreamTypeOK, Tokens, Messages
<1>1. ASSUME NEW a \in answering, PostsAnswer(a) PROVE OneToken(l)' /\ TokenKnown(l)'
  <2>1. /\ UNCHANGED <<toClient, subscribing, life, opening>> /\ Posts(a)
        /\ answering' = answering \ {a}
    BY <1>1 DEF PostsAnswer, streamVars
  <2>2. a \in Messages /\ a.kind \in {"opened", "refused"}
    BY <1>0 DEF Messages, Answers
  <2>3. AnswersOf(l)' = AnswersOf(l) \cup IF a.life = l THEN {Len(toEngine')} ELSE {}
    BY <1>0, <2>1, <2>2, MessagePosted
  <2>4. /\ SettledOf(l)' = SettledOf(l) \ {a}
        /\ a.life = l <=> a \in SettledOf(l)
    BY <2>1 DEF SettledOf
  <2> QED
    BY <1>0, <2>1, <2>3, <2>4, QueueViews DEF OneToken, TokenKnown, NoToken, AtMostOne
<1>2. ASSUME NEW s \in subscribing, SubscribeResolves(s) \/ SubscribeRejects(s)
      PROVE  OneToken(l)' /\ TokenKnown(l)'
  <2>1. /\ UNCHANGED <<toClient, toEngine, life, opening>>
        /\ subscribing' = subscribing \ {s}
        /\ \E kind \in {"opened", "refused"} : Settles(kind, s.lives)
    BY <1>2 DEF SubscribeResolves, SubscribeRejects, streamVars
  <2>2. s.lives \in SUBSET Lives
    BY <1>0 DEF Pending
  <2>3. /\ \A a \in answering : a \in answering'
        /\ \A a \in answering' : a \in answering \/ a.life \in s.lives
        /\ \A a, b \in answering' : a \notin answering /\ b \notin answering
                                    /\ a.life = b.life => a = b
    BY <1>0, <2>1, <2>2, CallsSettled
  <2>4. /\ SubscribesOf(l)' = SubscribesOf(l) \ {s}
        /\ l \in s.lives <=> s \in SubscribesOf(l)
    BY <2>1 DEF SubscribesOf
  <2>5. l \notin s.lives => SettledOf(l)' = SettledOf(l)
    BY <2>3 DEF SettledOf
  <2>6. l \in s.lives => AtMostOne(SettledOf(l)')
    <3>1. l \in s.lives => SettledOf(l) = {}
      BY <1>0, <2>4 DEF OneToken
    <3> QED
      BY <2>3, <3>1 DEF SettledOf, AtMostOne
  <2> QED
    BY <1>0, <2>1, <2>4, <2>5, <2>6, QueueViews DEF OneToken, TokenKnown, NoToken, AtMostOne
<1>3. ASSUME PumpForwards \/ PumpEnds PROVE OneToken(l)' /\ TokenKnown(l)'
  <2>1. UNCHANGED <<toClient, subscribing, answering, life, opening>>
    BY <1>3 DEF PumpForwards, PumpEnds, Emits, NoteActivity, NoteStreamLost, streamVars
  <2>2. CASE UNCHANGED toEngine
    BY <1>0, <2>1, <2>2, QueueViews, TokenStays DEF SameToken
  <2>3. CASE \E m \in Messages : m.kind \in {"entry", "lost"} /\ Posts(m)
    <3>1. AnswersOf(l)' = AnswersOf(l)
      BY <1>0, <2>3, MessagePosted
    <3> QED
      BY <1>0, <2>1, <3>1, QueueViews, TokenStays DEF SameToken
  <2>4. PumpForwards => handle \in Entries
    BY Bounds DEF PumpForwards, TypeOK, StreamTypeOK, Entries, NoHandle
  <2>5. PumpForwards => [kind |-> "entry", entry |-> handle] \in Messages
    BY <2>4 DEF Messages, Events
  <2>6. [kind |-> "lost"] \in Messages
    BY DEF Messages, Events
  <2>7. UNCHANGED toEngine \/ \E m \in Messages : m.kind \in {"entry", "lost"} /\ Posts(m)
    <3>1. CASE PumpForwards
      BY <2>5, <3>1 DEF PumpForwards, Emits
    <3>2. CASE PumpEnds
      BY <2>6, <3>2 DEF PumpEnds, Emits
    <3> QED
      BY <1>3, <3>1, <3>2
  <2> QED
    BY <2>2, <2>3, <2>7
<1> QED
  BY <1>1, <1>2, <1>3

LEMMA TokensOfEngine ==
    ASSUME TypeOK, Tokens, EngineInv, NEW l \in Lives,
           \/ \E k \in Lives : HandlesOpened(k) \/ HandlesRefused(k)
           \/ \E e \in Entries : HandlesEntry(e)
           \/ HandlesLoss \/ Retries \/ Refreshes \/ Starts \/ Stopping \/ Records
    PROVE  OneToken(l)' /\ TokenKnown(l)'
<1>0. /\ toEngine \in Seq(Messages) /\ toClient \in Seq(Calls)
      /\ OneToken(l) /\ TokenKnown(l) /\ life \in 0..MaxLives /\ l \in Nat /\ l # NoLife
      /\ opening <= life /\ opening \in Nat /\ MaxLives \in Nat
  BY Bounds DEF TypeOK, StreamTypeOK, Tokens, Messages, EngineInv, Lives, NoLife
<1>1. ASSUME NEW m, Delivers(m), UNCHANGED <<toClient, subscribing, answering>>
      PROVE  /\ AtMostOne(AnswersOf(l)')
             /\ OneToken(l)'
             /\ NoToken(l) => NoToken(l)'
             /\ m.kind \in {"opened", "refused"} /\ m.life = l => NoToken(l)'
  <2>1. /\ AnswersOf(l)' = {i \in 1..Len(toEngine') : i + 1 \in AnswersOf(l)}
        /\ 1 \in AnswersOf(l) <=> m.kind \in {"opened", "refused"} /\ m.life = l
    BY <1>0, <1>1, MessageDelivered
  <2>2. /\ AtMostOne(AnswersOf(l)') /\ (AnswersOf(l)' # {} => AnswersOf(l) # {})
        /\ 1 \in AnswersOf(l) => AnswersOf(l)' = {}
    BY <1>0, <2>1 DEF AtMostOne, OneToken
  <2> QED
    BY <1>0, <1>1, <2>1, <2>2, QueueViews DEF OneToken, NoToken, AtMostOne
<1>2. ASSUME NEW k \in Lives, HandlesOpened(k) \/ HandlesRefused(k)
      PROVE  OneToken(l)' /\ TokenKnown(l)'
  <2>1. PICK m : m.kind \in {"opened", "refused"} /\ m.life = k /\ Delivers(m)
    BY <1>2 DEF HandlesOpened, HandlesRefused
  <2>2. /\ UNCHANGED <<toClient, subscribing, answering, life>>
        /\ opening' = IF opening = k THEN NoLife ELSE opening
    BY <1>2 DEF HandlesOpened, HandlesRefused, OpenResolves, OpenRejects, Answered, relayVars
  <2> QED
    BY <1>0, <1>1, <2>1, <2>2 DEF TokenKnown
<1>3. ASSUME HandlesLoss \/ \E e \in Entries : HandlesEntry(e)
      PROVE  OneToken(l)' /\ TokenKnown(l)'
  <2>1. /\ \E m : Delivers(m)
        /\ UNCHANGED <<toClient, subscribing, answering, life, opening>>
    BY <1>3 DEF HandlesLoss, HandlesEntry, NoteStreamLost, NoteActivity, relayVars
  <2> QED
    BY <1>0, <1>1, <2>1 DEF TokenKnown
<1>4. ASSUME NEW k \in Lives, NEW c \in Entries \cup {0}, Open(k, c), life' = k,
             life = k \/ life + 1 = k, UNCHANGED <<toEngine, subscribing, answering>>
      PROVE  OneToken(l)' /\ TokenKnown(l)'
  <2>1. CASE opening = k
    BY <1>0, <1>4, <2>1, QueueViews DEF Open, OneToken, TokenKnown, NoToken, AtMostOne
  <2>2. CASE opening # k
    <3> DEFINE call == [kind |-> "start", life |-> k, cursor |-> c]
    <3>1. /\ toClient' = Append(toClient, call) /\ opening' = k
          /\ call \in Calls /\ call.kind = "start" /\ call.life = k
      BY <2>2, <1>4, OpenCases
    <3> HIDE DEF call
    <3>2. CallsOf(l)' = CallsOf(l) \cup IF k = l THEN {Len(toClient')} ELSE {}
      BY <1>0, <3>1, CallAppended
    <3>3. k = l => NoToken(l)
      BY <1>0, <1>4, <2>2 DEF TokenKnown
    <3> QED
      BY <1>0, <1>4, <3>1, <3>2, <3>3, QueueViews DEF OneToken, TokenKnown, NoToken, AtMostOne
  <2> QED
    BY <2>1, <2>2
<1>5. ASSUME Starts PROVE OneToken(l)' /\ TokenKnown(l)'
  <2>1. life + 1 \in Lives /\ 0 \in Entries \cup {0}
    BY <1>0, <1>5 DEF Starts, Start, Lives
  <2>2. /\ Open(life + 1, 0) /\ life' = life + 1
        /\ UNCHANGED <<toEngine, subscribing, answering>>
    BY <1>5 DEF Starts, Start, relayVars
  <2> QED
    BY <1>4, <2>1, <2>2
<1>6. ASSUME Retries PROVE OneToken(l)' /\ TokenKnown(l)'
  <2>1. UNCHANGED <<life, toEngine, subscribing, answering>>
    BY <1>6 DEF Retries, RetryFires, relayVars
  <2>2. CASE Current(retry)
    <3>1. life \in Lives /\ retry = life /\ cursor \in Entries \cup {0} /\ Open(retry, cursor)
      BY <1>0, <1>6, <2>2 DEF Retries, RetryFires, Current, TypeOK, StreamTypeOK, NoLife, Lives
    <3> QED
      BY <1>4, <2>1, <3>1
  <2>3. CASE ~Current(retry)
    BY <1>0, <1>6, <2>1, <2>3, QueueViews, TokenStays DEF Retries, RetryFires, SameToken
  <2> QED
    BY <2>2, <2>3
<1>7. ASSUME Stopping PROVE OneToken(l)' /\ TokenKnown(l)'
  <2> DEFINE call == [kind |-> "stop"]
  <2>1. /\ life' = life + 1 /\ toClient' = Append(toClient, call)
        /\ UNCHANGED <<opening, toEngine, subscribing, answering>>
    BY <1>7 DEF Stopping, Stop, relayVars
  <2>2. call \in Calls /\ call.kind = "stop"
    BY DEF Calls
  <2> HIDE DEF call
  <2>3. CallsOf(l)' = CallsOf(l)
    <3>1. CallsOf(l)' = CallsOf(l) \cup
            IF call.kind = "start" /\ call.life = l THEN {Len(toClient')} ELSE {}
      BY <1>0, <2>1, <2>2, CallAppended
    <3>2. ~(call.kind = "start" /\ call.life = l)
      BY <2>2
    <3> QED
      BY <3>1, <3>2
  <2> QED
    BY <1>0, <2>1, <2>3, QueueViews DEF OneToken, TokenKnown, NoToken, AtMostOne
<1>8. ASSUME Refreshes \/ Records PROVE OneToken(l)' /\ TokenKnown(l)'
  <2>1. UNCHANGED <<toClient, toEngine, subscribing, answering, life, opening>>
    BY <1>8 DEF Refreshes, Records, DebounceFires, Record, streamVars, relayVars
  <2> QED
    BY <1>0, <2>1, QueueViews, TokenStays DEF SameToken
<1> QED
  BY <1>2, <1>3, <1>5, <1>6, <1>7, <1>8

LEMMA NextTokens ==
    ASSUME TypeOK, RelayInv, EngineInv, Tokens, Next
    PROVE  Tokens'
<1> SUFFICES ASSUME NEW l \in Lives PROVE OneToken(l)' /\ TokenKnown(l)'
  BY DEF Tokens
<1> QED
  BY Steps, TokensOfStop, TokensOfStart, TokensOfRelay, TokensOfEngine
-----------------------------------------------------------------------------
(* What a message changes for those that look for it.                      *)

LEMMA PostedViews ==
    ASSUME toEngine \in Seq(Messages), NEW m \in Messages, Posts(m)
    PROVE  /\ \A kind, l : OnWay(kind, l)' <=> OnWay(kind, l) \/ (m.kind = kind /\ m.life = l)
           /\ \A e : EntryOnWay(e)' <=> EntryOnWay(e) \/ (m.kind = "entry" /\ m.entry = e)
           /\ LossDue' <=> LossDue \/ m.kind = "lost"
<1>1. /\ Len(toEngine) \in Nat /\ Len(toEngine') = Len(toEngine) + 1
      /\ \A i \in 1..Len(toEngine) : toEngine'[i] = toEngine[i]
      /\ toEngine'[Len(toEngine')] = m
  BY MessagePosted
<1>2. 1..Len(toEngine') = (1..Len(toEngine)) \cup {Len(toEngine')}
  BY <1>1
<1> QED
  BY <1>1, <1>2 DEF OnWay, EntryOnWay, LossDue

LEMMA DeliveredViews ==
    ASSUME toEngine \in Seq(Messages), NEW m, Delivers(m)
    PROVE  /\ \A kind, l : OnWay(kind, l)' => OnWay(kind, l)
           /\ \A kind, l : OnWay(kind, l) => OnWay(kind, l)' \/ (m.kind = kind /\ m.life = l)
           /\ \A e : EntryOnWay(e)' => EntryOnWay(e)
           /\ \A e : EntryOnWay(e) => EntryOnWay(e)' \/ (m.kind = "entry" /\ m.entry = e)
           /\ LossDue => LossDue' \/ m.kind = "lost"
           /\ m.kind = "entry" => EntryOnWay(m.entry)
           /\ OnWay(m.kind, m.life)
<1>1. /\ Len(toEngine) \in Nat /\ Len(toEngine) >= 1 /\ Len(toEngine') = Len(toEngine) - 1
      /\ toEngine[1] = m
      /\ \A i \in 1..Len(toEngine') : toEngine'[i] = toEngine[i + 1]
  BY MessageDelivered
<1>2. \A i \in 1..Len(toEngine') : i + 1 \in 1..Len(toEngine)
  BY <1>1
<1>3. \A i \in 1..Len(toEngine) :
        i = 1 \/ (i - 1 \in 1..Len(toEngine') /\ toEngine'[i - 1] = toEngine[i])
  BY <1>1
<1>4. 1 \in 1..Len(toEngine)
  BY <1>1
<1>5. /\ \A kind, l : OnWay(kind, l)' => OnWay(kind, l)
      /\ \A kind, l : OnWay(kind, l) => OnWay(kind, l)' \/ (m.kind = kind /\ m.life = l)
  BY <1>1, <1>2, <1>3 DEF OnWay
<1>6. /\ \A e : EntryOnWay(e)' => EntryOnWay(e)
      /\ \A e : EntryOnWay(e) => EntryOnWay(e)' \/ (m.kind = "entry" /\ m.entry = e)
  BY <1>1, <1>2, <1>3 DEF EntryOnWay
<1>7. LossDue => LossDue' \/ m.kind = "lost"
  BY <1>1, <1>3 DEF LossDue
<1>8. (m.kind = "entry" => EntryOnWay(m.entry)) /\ OnWay(m.kind, m.life)
  BY <1>1, <1>4 DEF EntryOnWay, OnWay
<1> QED
  BY <1>5, <1>6, <1>7, <1>8

LEMMA EngineViews ==
    ASSUME UNCHANGED toEngine
    PROVE  /\ \A kind, l : OnWay(kind, l)' = OnWay(kind, l)
           /\ \A e : EntryOnWay(e)' = EntryOnWay(e)
           /\ LossDue' = LossDue
  BY DEF OnWay, EntryOnWay, LossDue

(* An answer on its way is a token there.                                  *)
LEMMA SettledToken ==
    ASSUME NEW kind \in {"opened", "refused"}, NEW l, IsSettled(kind, l)
    PROVE  SettledOf(l) # {} \/ AnswersOf(l) # {}
  BY DEF IsSettled, OnWay, SettledOf, AnswersOf

-----------------------------------------------------------------------------
(* What a step posts, and what it handles.                                 *)

LEMMA PumpPosts ==
    ASSUME TypeOK
    PROVE  /\ PumpForwards => handle \in Entries /\ handle <= journal /\ handle' = handle + 1
           /\ [kind |-> "lost"] \in Messages
           /\ PumpForwards => [kind |-> "entry", entry |-> handle] \in Messages
<1>1. PumpForwards => handle \in Entries /\ handle <= journal /\ handle' = handle + 1
  BY Bounds DEF PumpForwards, TypeOK, StreamTypeOK, Entries, NoHandle
<1>2. [kind |-> "lost"] \in Messages
  BY DEF Messages, Events
<1>3. PumpForwards => [kind |-> "entry", entry |-> handle] \in Messages
  BY <1>1 DEF Messages, Events
<1> QED
  BY <1>1, <1>2, <1>3

LEMMA NextJournal ==
    ASSUME TypeOK, JournalInv, Next
    PROVE  JournalInv'
<1>0. /\ toEngine \in Seq(Messages) /\ journal \in Nat /\ refreshed \in Nat /\ cursor \in Nat
      /\ \A e \in Entries : e \in Nat
      /\ answering \subseteq Answers
  BY Bounds DEF TypeOK, StreamTypeOK, Messages, Entries
<1>1. ASSUME UNCHANGED <<refreshed, journal, cursor, running, debounce, toEngine>>
      PROVE  JournalInv'
  BY <1>1, EngineViews DEF JournalInv
<1>2. ASSUME \/ TakesStop \/ \E l \in Lives : TakesStart(l)
             \/ \E s \in subscribing : SubscribeResolves(s) \/ SubscribeRejects(s)
             \/ Retries
      PROVE  UNCHANGED <<refreshed, journal, cursor, running, debounce, toEngine>>
  BY <1>2 DEF TakesStop, TakesStart, SubscribeResolves, SubscribeRejects, streamVars, Retries,
     RetryFires
<1>3. ASSUME NEW a \in answering, PostsAnswer(a) PROVE JournalInv'
  <2>1. /\ UNCHANGED <<refreshed, journal, cursor, running, debounce>> /\ Posts(a)
        /\ a \in Messages /\ a.kind # "entry"
    BY <1>0, <1>3 DEF PostsAnswer, streamVars, Messages, Answers
  <2> QED
    BY <1>0, <2>1, PostedViews DEF JournalInv
<1>4. ASSUME NEW e \in Entries, NoteActivity(e), e <= journal, UNCHANGED journal,
             \A x \in Entries : EntryOnWay(x)' => EntryOnWay(x)
      PROVE  JournalInv'
  BY <1>0, <1>4 DEF NoteActivity, JournalInv
<1>5. ASSUME NoteStreamLost, \A x \in Entries : EntryOnWay(x)' => EntryOnWay(x)
      PROVE  JournalInv'
  BY <1>0, <1>5 DEF NoteStreamLost, JournalInv
<1>6. ASSUME PumpForwards PROVE JournalInv'
  <2> DEFINE m == [kind |-> "entry", entry |-> handle]
  <2>1. /\ handle \in Entries /\ handle <= journal /\ UNCHANGED journal
        /\ m \in Messages /\ m.kind = "entry" /\ m.entry = handle
        /\ IF thread = "worker"
           THEN Posts(m) /\ UNCHANGED <<refreshed, cursor, running, debounce>>
           ELSE NoteActivity(handle) /\ UNCHANGED toEngine
    BY <1>6, PumpPosts DEF PumpForwards, Emits, streamVars, NoteActivity
  <2> HIDE DEF m
  <2>2. CASE thread = "worker"
    BY <1>0, <2>1, <2>2, PostedViews DEF JournalInv
  <2>3. CASE thread # "worker"
    BY <1>4, <2>1, <2>3, EngineViews
  <2> QED
    BY <2>2, <2>3
<1>7. ASSUME PumpEnds PROVE JournalInv'
  <2> DEFINE m == [kind |-> "lost"]
  <2>1. /\ m \in Messages /\ m.kind = "lost"
        /\ IF thread = "worker"
           THEN Posts(m) /\ UNCHANGED <<journal, refreshed, cursor, running, debounce>>
           ELSE NoteStreamLost /\ UNCHANGED toEngine
    BY <1>7, PumpPosts DEF PumpEnds, Emits, streamVars
  <2> HIDE DEF m
  <2>2. CASE thread = "worker"
    BY <1>0, <2>1, <2>2, PostedViews DEF JournalInv
  <2>3. CASE thread # "worker"
    BY <1>5, <2>1, <2>3, EngineViews
  <2> QED
    BY <2>2, <2>3
<1>8. ASSUME NEW l \in Lives, HandlesOpened(l) \/ HandlesRefused(l) PROVE JournalInv'
  <2>1. /\ UNCHANGED <<refreshed, journal>> /\ \E m : Delivers(m)
        /\ \/ UNCHANGED <<cursor, running, debounce>>
           \/ running' = FALSE /\ cursor' = 0
    BY <1>8 DEF HandlesOpened, HandlesRefused, OpenResolves, OpenRejects, GivesUp
  <2> QED
    BY <1>0, <2>1, DeliveredViews DEF JournalInv
<1>9. ASSUME NEW e \in Entries, HandlesEntry(e) PROVE JournalInv'
  <2> DEFINE m == [kind |-> "entry", entry |-> e]
  <2>1. m.kind = "entry" /\ m.entry = e /\ Delivers(m) /\ NoteActivity(e)
    BY <1>9 DEF HandlesEntry
  <2> HIDE DEF m
  <2>2. e <= journal /\ \A x : EntryOnWay(x)' => EntryOnWay(x)
    BY <1>0, <2>1, DeliveredViews DEF JournalInv
  <2> QED
    BY <1>4, <2>1, <2>2 DEF NoteActivity
<1>10. ASSUME HandlesLoss PROVE JournalInv'
  BY <1>0, <1>5, <1>10, DeliveredViews DEF HandlesLoss
<1>11. ASSUME Refreshes \/ Starts \/ Stopping \/ Records PROVE JournalInv'
  BY <1>0, <1>11, EngineViews DEF Refreshes, DebounceFires, Starts, Start, Stopping, Stop, Records, Record,
     streamVars, JournalInv
<1> QED
  BY <1>1, <1>2, <1>3, <1>6, <1>7, <1>8, <1>9, <1>10, <1>11, Steps
-----------------------------------------------------------------------------
(* A stop that is on its way in the running stream has the call of that    *)
(* stream behind it.                                                       *)
LEMMA StopIsOld ==
    ASSUME IInv, TakesStop, running
    PROVE  /\ CallsOf(life) # {} /\ life \in Lives /\ opening = life
           /\ SubscribesOf(life) = {} /\ SettledOf(life) = {} /\ AnswersOf(life) = {}
<1>0. /\ toClient \in Seq(Calls) /\ thread \in {"worker", "main"}
      /\ running /\ life \in Lives
  BY Bounds, RelayAssumption DEF IInv, TypeOK, StreamTypeOK, EngineInv, Lives, NoLife
<1>1. CASE thread = "worker"
  <2>1. toClient # <<>>
    BY <1>1 DEF TakesStop, Takes
  <2> QED
    BY <1>0, <1>1, <2>1 DEF IInv, WorkerInv, WorkerQueue, Tokens, OneToken, TokenKnown, NoToken
<1>2. CASE thread = "main"
  <2>1. Len(toClient) \in StopsIn
    BY <1>0, <1>2, StopTaken DEF TakesStop
  <2> QED
    BY <1>0, <1>2, <2>1 DEF IInv, MainInv
<1> QED
  BY <1>0, <1>1, <1>2

LEMMA NextOpened ==
    ASSUME IInv, Next
    PROVE  Opened'
<1>0. /\ toEngine \in Seq(Messages) /\ answering \subseteq Answers
      /\ subscribing \subseteq Pending /\ handle \in Nat
      /\ running => life \in Lives
      /\ Opened /\ RelayInv /\ Tokens /\ TypeOK
      /\ \A s \in subscribing : s.cursor \in Nat
  BY Bounds DEF IInv, TypeOK, StreamTypeOK, Messages, EngineInv, Lives, NoLife, Entries,
     NoHandle, Pending
<1>1. ASSUME UNCHANGED <<running, life, stops>>, subscribing' \subseteq subscribing,
             running /\ IsSettled("opened", life)' =>
                 IsSettled("opened", life) \/ handle' # NoHandle,
             handle' = handle \/ handle' # NoHandle, LossDue => LossDue', retry' = retry
      PROVE  Opened'
  BY <1>0, <1>1 DEF Opened
<1>2. ASSUME TakesStop PROVE Opened'
  <2>1. UNCHANGED <<running, life, subscribing, answering, toEngine>>
    BY <1>2 DEF TakesStop, streamVars
  <2>2. running => SubscribesOf(life) = {} /\ ~IsSettled("opened", life)
    BY <1>2, StopIsOld, SettledToken
  <2> QED
    BY <2>1, <2>2, EngineViews DEF Opened, SubscribesOf, IsSettled
<1>3. ASSUME NEW l \in Lives, TakesStart(l) PROVE Opened'
  <2>0. UNCHANGED <<running, life, stops, toEngine, handle, retry>>
    BY <1>3 DEF TakesStart, streamVars
  <2>1. PICK c \in Entries \cup {0} :
           \/ handle # NoHandle /\ Settles("opened", {l}) /\ UNCHANGED subscribing
           \/ StartsOne(l, c) /\ UNCHANGED answering
           \/ JoinsOne(l) /\ UNCHANGED answering
    BY <1>0, <1>3, StartTaken
  <2>2. CASE handle # NoHandle /\ Settles("opened", {l}) /\ UNCHANGED subscribing
    BY <2>0, <2>2, <1>0 DEF Opened
  <2>3. CASE (StartsOne(l, c) \/ JoinsOne(l)) /\ UNCHANGED answering
    <3>1. PICK new : /\ new.stops = stops
                     /\ \A s \in subscribing' : s \in subscribing \/ s = new
      BY <2>3 DEF StartsOne, JoinsOne
    <3>2. IsSettled("opened", life)' = IsSettled("opened", life) /\ LossDue' = LossDue
      BY <2>0, <2>3, EngineViews DEF IsSettled
    <3> QED
      BY <1>0, <2>0, <3>1, <3>2 DEF Opened
  <2> QED
    BY <2>1, <2>2, <2>3
<1>4. ASSUME NEW s \in subscribing, SubscribeResolves(s) PROVE Opened'
  <2>1. /\ UNCHANGED <<running, life, stops, retry, toEngine>>
        /\ subscribing' = subscribing \ {s} /\ Settles("opened", s.lives)
        /\ handle' = IF s.stops = stops THEN s.cursor + 1 ELSE handle
        /\ s.lives \in SUBSET Lives /\ s.cursor \in Nat
    BY <1>0, <1>4 DEF SubscribeResolves, streamVars, Pending
  <2>2. \A a \in answering' : a \in answering \/ a.life \in s.lives
    BY <1>0, <2>1, CallsSettled
  <2>3. IsSettled("opened", life)' => IsSettled("opened", life) \/ life \in s.lives
    BY <2>1, <2>2, EngineViews DEF IsSettled
  <2>4. running /\ life \in s.lives => s.stops = stops
    BY <1>0 DEF Opened
  <2>5. handle' = handle \/ handle' # NoHandle
    BY <2>1 DEF NoHandle
  <2>6. s.stops = stops => handle' # NoHandle
    BY <2>1 DEF NoHandle
  <2>7. LossDue => LossDue'
    BY <2>1, EngineViews
  <2>8. /\ UNCHANGED <<running, life, stops>> /\ subscribing' \subseteq subscribing
        /\ retry' = retry
    BY <2>1
  <2>9. running /\ IsSettled("opened", life)' => IsSettled("opened", life) \/ handle' # NoHandle
    BY <2>3, <2>4, <2>6
  <2> QED
    BY <1>1, <2>5, <2>7, <2>8, <2>9
<1>5. ASSUME NEW s \in subscribing, SubscribeRejects(s) PROVE Opened'
  <2>1. /\ UNCHANGED <<running, life, stops, retry, toEngine, handle>>
        /\ subscribing' = subscribing \ {s} /\ Settles("refused", s.lives)
        /\ s.lives \in SUBSET Lives
    BY <1>0, <1>5 DEF SubscribeRejects, streamVars, Pending
  <2>2. \A a \in answering' : a \in answering \/ a.kind = "refused"
    BY <1>0, <2>1, CallsSettled
  <2>3. IsSettled("opened", life)' => IsSettled("opened", life)
    BY <2>1, <2>2, EngineViews DEF IsSettled
  <2> QED
    BY <1>1, <2>1, <2>3, EngineViews
<1>6. ASSUME NEW a \in answering, PostsAnswer(a) PROVE Opened'
  <2>1. /\ UNCHANGED <<running, life, stops, retry, handle, subscribing>> /\ Posts(a)
        /\ a \in Messages /\ answering' = answering \ {a}
    BY <1>0, <1>6 DEF PostsAnswer, streamVars, Messages
  <2>2. IsSettled("opened", life)' => IsSettled("opened", life)
    BY <1>0, <2>1, PostedViews DEF IsSettled
  <2>3. LossDue => LossDue'
    BY <1>0, <2>1, PostedViews
  <2> QED
    BY <1>1, <2>1, <2>2, <2>3
<1>7. ASSUME PumpForwards PROVE Opened'
  <2> DEFINE m == [kind |-> "entry", entry |-> handle]
  <2>1. /\ UNCHANGED <<running, life, stops, retry, subscribing, answering>>
        /\ m \in Messages /\ m.kind = "entry" /\ (Posts(m) \/ UNCHANGED toEngine)
    BY <1>0, <1>7, PumpPosts DEF PumpForwards, Emits, NoteActivity, streamVars
  <2>2. handle' # NoHandle
    BY <1>0, <1>7 DEF PumpForwards, NoHandle
  <2> HIDE DEF m
  <2>3. LossDue => LossDue'
    BY <1>0, <2>1, PostedViews, EngineViews
  <2> QED
    BY <1>1, <2>1, <2>2, <2>3
<1>8. ASSUME PumpEnds PROVE Opened'
  <2> DEFINE m == [kind |-> "lost"]
  <2>0. UNCHANGED <<running, life, stops, subscribing>>
    BY <1>8 DEF PumpEnds, Emits, NoteStreamLost, streamVars
  <2>1. /\ m \in Messages /\ m.kind = "lost"
        /\ IF thread = "worker" THEN Posts(m) ELSE NoteStreamLost
    BY <1>0, <1>8, PumpPosts DEF PumpEnds, Emits
  <2> HIDE DEF m
  <2>2. running => LossDue' \/ retry' = life
    BY <1>0, <2>1, PostedViews DEF NoteStreamLost
  <2> QED
    BY <1>0, <2>0, <2>2 DEF Opened
<1>9. ASSUME NEW m, Delivers(m), UNCHANGED <<answering, subscribing, stops, life, handle>>,
             m.kind # "lost", running' => running /\ (retry' = retry \/ retry' = life),
             m.kind = "opened" /\ m.life = life => retry' = retry
      PROVE  Opened'
  <2>1. IsSettled("opened", life)' => IsSettled("opened", life)
    BY <1>0, <1>9, DeliveredViews DEF IsSettled
  <2>2. LossDue => LossDue'
    BY <1>0, <1>9, DeliveredViews
  <2> QED
    BY <1>0, <1>9, <2>1, <2>2 DEF Opened
<1>10. ASSUME NEW l \in Lives, HandlesOpened(l) \/ HandlesRefused(l) PROVE Opened'
  <2>1. PICK kind \in {"opened", "refused"} :
            /\ Delivers([kind |-> kind, life |-> l])
            /\ kind = "opened" => HandlesOpened(l)
    BY <1>10 DEF HandlesOpened, HandlesRefused
  <2> DEFINE m == [kind |-> kind, life |-> l]
  <2>2. m.kind = kind /\ m.life = l /\ Delivers(m)
    BY <2>1
  <2>3. /\ UNCHANGED <<answering, subscribing, stops, life, handle>>
        /\ running' => running /\ (retry' = retry \/ retry' = life)
    BY <1>10 DEF HandlesOpened, HandlesRefused, OpenResolves, OpenRejects, GivesUp,
       Current, relayVars
  <2>4. kind = "opened" => retry' = retry
    BY <2>1 DEF HandlesOpened, OpenResolves
  <2> HIDE DEF m
  <2> QED
    BY <1>9, <2>2, <2>3, <2>4
<1>11. ASSUME NEW e \in Entries, HandlesEntry(e) PROVE Opened'
  <2> DEFINE m == [kind |-> "entry", entry |-> e]
  <2>1. /\ m.kind = "entry" /\ Delivers(m)
        /\ UNCHANGED <<answering, subscribing, stops, life, handle, running, retry>>
    BY <1>11 DEF HandlesEntry, NoteActivity, relayVars
  <2> HIDE DEF m
  <2> QED
    BY <1>9, <2>1
<1>12. ASSUME HandlesLoss PROVE Opened'
  <2>1. /\ UNCHANGED <<answering, subscribing, stops, life, handle, running>>
        /\ running => retry' = life
    BY <1>12 DEF HandlesLoss, NoteStreamLost, relayVars
  <2> QED
    BY <1>0, <2>1 DEF Opened
<1>13. ASSUME Retries PROVE Opened'
  <2>1. /\ UNCHANGED <<answering, subscribing, stops, life, handle, running, toEngine>>
        /\ answering = {}
        /\ running => AnswersOf(life) = {}
    BY <1>0, <1>13 DEF Retries, RetryFires, AnswersHandled, relayVars
  <2>2. running => ~IsSettled("opened", life)
    BY <2>1, SettledToken DEF SettledOf
  <2> QED
    BY <1>0, <2>1, <2>2, EngineViews DEF Opened, IsSettled
<1>14. ASSUME Starts PROVE Opened'
  <2>1. /\ UNCHANGED <<answering, subscribing, stops, toEngine>> /\ life' = life + 1
        /\ life + 1 \in Lives /\ life \in Nat
    BY <1>0, <1>14, Bounds DEF Starts, Start, relayVars, TypeOK, StreamTypeOK, Lives
  <2>2. NoToken(life + 1)
    <3>1. TokenKnown(life + 1)
      BY <1>0, <2>1 DEF Tokens
    <3> QED
      BY <2>1, <3>1 DEF TokenKnown
  <2>3. ~IsSettled("opened", life + 1) /\ \A s \in subscribing : life + 1 \notin s.lives
    BY <2>2, SettledToken DEF NoToken, SubscribesOf
  <2>4. ~IsSettled("opened", life)'
    BY <2>1, <2>3, EngineViews DEF IsSettled
  <2> QED
    BY <2>1, <2>3, <2>4 DEF Opened
<1>15. ASSUME Stopping PROVE Opened'
  BY <1>15 DEF Stopping, Stop, Opened
<1>16. ASSUME Refreshes \/ Records PROVE Opened'
  <2>1. UNCHANGED <<answering, subscribing, stops, toEngine, life, running, handle, retry>>
    BY <1>16 DEF Refreshes, Records, DebounceFires, Record, relayVars, streamVars
  <2>2. IsSettled("opened", life)' = IsSettled("opened", life) /\ LossDue' = LossDue
    BY <2>1, EngineViews DEF IsSettled
  <2> QED
    BY <1>0, <2>1, <2>2 DEF Opened
<1> QED
  BY <1>2, <1>3, <1>4, <1>5, <1>6, <1>7, <1>8, <1>10, <1>11, <1>12, <1>13, <1>14, <1>15, <1>16, Steps
LEMMA NextNeverSilent ==
    ASSUME IInv, Next
    PROVE  NeverSilent'
<1>0. /\ toEngine \in Seq(Messages) /\ answering \subseteq Answers /\ handle \in Nat
      /\ \A s \in subscribing : s.cursor \in Nat
      /\ running => life \in Lives
      /\ NeverSilent /\ Opened /\ RelayInv /\ TypeOK
  BY Bounds DEF IInv, TypeOK, StreamTypeOK, Messages, EngineInv, Lives, NoLife, Entries,
     NoHandle, Pending
<1>1. ASSUME running' => /\ running /\ life' = life
                         /\ handle # NoHandle => handle' # NoHandle
                         /\ LossDue => LossDue' \/ retry' = life
                         /\ opening = life => \/ opening' = life \/ retry' = life
                                              \/ handle' # NoHandle \/ LossDue'
                         /\ retry = life => retry' = life \/ opening' = life
      PROVE  NeverSilent'
  BY <1>0, <1>1 DEF NeverSilent
<1>2. ASSUME TakesStop PROVE NeverSilent'
  <2>1. UNCHANGED <<running, life, opening>>
    BY <1>2 DEF TakesStop, streamVars
  <2>2. running => opening = life
    BY <1>2, StopIsOld
  <2> QED
    BY <2>1, <2>2 DEF NeverSilent
<1>3. ASSUME \/ \E l \in Lives : TakesStart(l)
             \/ \E s \in subscribing : SubscribeResolves(s) \/ SubscribeRejects(s)
             \/ Refreshes \/ Records
      PROVE  NeverSilent'
  <2>1. UNCHANGED <<running, life, opening, retry, toEngine>>
    BY <1>3 DEF TakesStart, SubscribeResolves, SubscribeRejects, Refreshes, Records,
       DebounceFires, Record, relayVars, streamVars
  <2>2. handle # NoHandle => handle' # NoHandle
    <3>1. ASSUME NEW s \in subscribing, SubscribeResolves(s) PROVE handle' \in {handle, s.cursor + 1}
      BY <3>1 DEF SubscribeResolves
    <3>2. \A s \in subscribing : s.cursor + 1 # NoHandle
      BY <1>0 DEF NoHandle
    <3>3. ASSUME \/ \E l \in Lives : TakesStart(l)
                 \/ \E s \in subscribing : SubscribeRejects(s)
                 \/ Refreshes \/ Records
          PROVE  handle' = handle
      BY <3>3 DEF TakesStart, SubscribeRejects, Refreshes, Records, relayVars
    <3> QED
      BY <1>3, <3>1, <3>2, <3>3
  <2>3. LossDue => LossDue'
    BY <2>1, EngineViews
  <2> QED
    BY <1>1, <2>1, <2>2, <2>3
<1>4. ASSUME NEW a \in answering, PostsAnswer(a) PROVE NeverSilent'
  <2>1. /\ UNCHANGED <<running, life, opening, retry, handle>> /\ Posts(a) /\ a \in Messages
    BY <1>0, <1>4 DEF PostsAnswer, streamVars, Messages
  <2>2. LossDue => LossDue'
    BY <1>0, <2>1, PostedViews
  <2> QED
    BY <1>1, <2>1, <2>2
<1>5. ASSUME PumpForwards PROVE NeverSilent'
  BY <1>0, <1>5 DEF PumpForwards, NoHandle, NeverSilent
<1>6. ASSUME PumpEnds PROVE NeverSilent'
  <2> DEFINE m == [kind |-> "lost"]
  <2>0. UNCHANGED <<running, life>>
    BY <1>6 DEF PumpEnds, Emits, NoteStreamLost, streamVars
  <2>1. /\ m \in Messages /\ m.kind = "lost"
        /\ IF thread = "worker" THEN Posts(m) ELSE NoteStreamLost
    BY <1>0, <1>6, PumpPosts DEF PumpEnds, Emits
  <2> HIDE DEF m
  <2>2. running => LossDue' \/ retry' = life
    BY <1>0, <2>1, PostedViews DEF NoteStreamLost
  <2> QED
    BY <2>0, <2>2 DEF NeverSilent
<1>7. ASSUME NEW l \in Lives, HandlesOpened(l) PROVE NeverSilent'
  <2> DEFINE m == [kind |-> "opened", life |-> l]
  <2>1. /\ m.kind = "opened" /\ m.life = l /\ Delivers(m)
        /\ opening' = IF opening = l THEN NoLife ELSE opening
        /\ UNCHANGED <<running, life, retry, handle>>
    BY <1>7 DEF HandlesOpened, OpenResolves, Answered, relayVars
  <2> HIDE DEF m
  <2>2. /\ LossDue => LossDue'
        /\ l = life => IsSettled("opened", life)
    BY <1>0, <2>1, DeliveredViews DEF IsSettled
  <2>3. running /\ opening = life /\ opening' # life => handle # NoHandle \/ LossDue \/ retry = life
    BY <1>0, <2>1, <2>2 DEF Opened
  <2> QED
    BY <1>1, <2>1, <2>2, <2>3
<1>8. ASSUME NEW l \in Lives, HandlesRefused(l) PROVE NeverSilent'
  <2> DEFINE m == [kind |-> "refused", life |-> l]
  <2>1. /\ m.kind = "refused" /\ m.life = l /\ Delivers(m)
        /\ opening' = IF opening = l THEN NoLife ELSE opening
        /\ UNCHANGED <<life, handle>>
        /\ running' => running /\ IF l = life THEN retry' = life ELSE retry' = retry
    BY <1>8 DEF HandlesRefused, OpenRejects, GivesUp, Answered, Current, relayVars
  <2> HIDE DEF m
  <2>2. LossDue => LossDue'
    BY <1>0, <2>1, DeliveredViews
  <2> QED
    BY <1>1, <2>1, <2>2
<1>9. ASSUME NEW e \in Entries, HandlesEntry(e) PROVE NeverSilent'
  <2> DEFINE m == [kind |-> "entry", entry |-> e]
  <2>1. /\ m.kind = "entry" /\ Delivers(m)
        /\ UNCHANGED <<running, life, opening, retry, handle>>
    BY <1>9 DEF HandlesEntry, NoteActivity, relayVars
  <2> HIDE DEF m
  <2>2. LossDue => LossDue'
    BY <1>0, <2>1, DeliveredViews
  <2> QED
    BY <1>1, <2>1, <2>2
<1>10. ASSUME HandlesLoss PROVE NeverSilent'
  BY <1>10 DEF HandlesLoss, NoteStreamLost, NeverSilent
<1>11. ASSUME Retries PROVE NeverSilent'
  <2>1. /\ UNCHANGED <<running, life, handle, toEngine>>
        /\ IF Current(retry) THEN Open(retry, cursor) ELSE UNCHANGED opening
    BY <1>11 DEF Retries, RetryFires, relayVars
  <2>2. running /\ retry = life => opening' = life
    BY <2>1 DEF Open, Current
  <2>3. running /\ opening = life => opening' = life
    BY <2>1 DEF Open, Current
  <2> QED
    BY <1>1, <2>1, <2>2, <2>3, EngineViews
<1>12. ASSUME Starts PROVE NeverSilent'
  BY <1>12 DEF Starts, Start, Open, NeverSilent
<1>13. ASSUME Stopping PROVE NeverSilent'
  BY <1>13 DEF Stopping, Stop, NeverSilent
<1> QED
  BY <1>2, <1>3, <1>4, <1>5, <1>6, <1>7, <1>8, <1>9, <1>10, <1>11, <1>12, <1>13, Steps

-----------------------------------------------------------------------------
(* What the steps make of the queue of the client.                         *)

(* A call of startActivity() joins it, or none: the calls of other         *)
(* lifecycles and the stops stay where they are.                           *)
Joined(l, c) ==
    \/ UNCHANGED toClient
    \/ /\ Len(toClient) \in Nat /\ Len(toClient') = Len(toClient) + 1 /\ toClient' # <<>>
       /\ StopsIn' = StopsIn
       /\ \A i \in 1..Len(toClient) : toClient'[i] = toClient[i]
       /\ toClient'[Len(toClient')].cursor = c
       /\ \A k : CallsOf(k)' = IF k = l THEN CallsOf(k) \cup {Len(toClient')} ELSE CallsOf(k)

LEMMA OpenJoins ==
    ASSUME TypeOK, NEW l \in Lives, NEW c \in Entries \cup {0}, Open(l, c)
    PROVE  Joined(l, c) /\ (opening # l => toClient' # toClient)
<1> DEFINE call == [kind |-> "start", life |-> l, cursor |-> c]
<1>0. toClient \in Seq(Calls)
  BY DEF TypeOK, StreamTypeOK
<1>1. CASE opening = l
  BY <1>1 DEF Open, Joined
<1>2. CASE opening # l
  <2>1. /\ toClient' = Append(toClient, call)
        /\ call \in Calls /\ call.kind = "start" /\ call.life = l /\ call.cursor = c
    BY <1>2, OpenCases
  <2> HIDE DEF call
  <2>2. /\ Len(toClient) \in Nat /\ Len(toClient') = Len(toClient) + 1 /\ toClient' # <<>>
        /\ \A i \in 1..Len(toClient) : toClient'[i] = toClient[i]
        /\ toClient'[Len(toClient')] = call
        /\ StopsIn' = StopsIn \cup IF call.kind = "stop" THEN {Len(toClient')} ELSE {}
        /\ \A k : CallsOf(k)' = CallsOf(k) \cup
             IF call.kind = "start" /\ call.life = k THEN {Len(toClient')} ELSE {}
    BY <1>0, <2>1, CallAppended
  <2>3. StopsIn' = StopsIn
    BY <2>1, <2>2
  <2>4. ASSUME NEW k
        PROVE  CallsOf(k)' = IF k = l THEN CallsOf(k) \cup {Len(toClient')} ELSE CallsOf(k)
    BY <2>1, <2>2
  <2>5. toClient' # toClient
    BY <2>2
  <2> QED
    BY <2>1, <2>2, <2>3, <2>4, <2>5 DEF Joined
<1> QED
  BY <1>1, <1>2

LEMMA StopJoins ==
    ASSUME TypeOK, Stopping
    PROVE  /\ Len(toClient) \in Nat /\ Len(toClient') = Len(toClient) + 1
           /\ StopsIn' = StopsIn \cup {Len(toClient')}
           /\ \A l : CallsOf(l)' = CallsOf(l)
<1> DEFINE call == [kind |-> "stop"]
<1>0. toClient \in Seq(Calls)
  BY DEF TypeOK, StreamTypeOK
<1>1. toClient' = Append(toClient, call) /\ call \in Calls /\ call.kind = "stop"
  BY DEF Stopping, Stop, Calls
<1> HIDE DEF call
<1>2. /\ Len(toClient) \in Nat /\ Len(toClient') = Len(toClient) + 1
      /\ StopsIn' = StopsIn \cup IF call.kind = "stop" THEN {Len(toClient')} ELSE {}
      /\ \A l : CallsOf(l)' = CallsOf(l) \cup
           IF call.kind = "start" /\ call.life = l THEN {Len(toClient')} ELSE {}
  BY <1>0, <1>1, CallAppended
<1>3. StopsIn' = StopsIn \cup {Len(toClient')}
  BY <1>1, <1>2
<1>4. ASSUME NEW l PROVE CallsOf(l)' = CallsOf(l)
  BY <1>1, <1>2
<1> QED
  BY <1>2, <1>3, <1>4

LEMMA NextMain ==
    ASSUME TypeOK, Next, thread = "main", MainInv
    PROVE  MainInv'
<1>0. toClient \in Seq(Calls) /\ cursor \in Entries \cup {0} /\ Len(toClient) \in Nat
  BY DEF TypeOK, StreamTypeOK
<1>1. CASE TakesStop
  <2>1. StopsIn' = StopsIn \ {Len(toClient)}
    BY <1>0, <1>1, StopTaken DEF TakesStop
  <2> QED
    BY <2>1 DEF MainInv
<1>2. ASSUME StopReturned PROVE StopsIn = {}
  BY <1>2 DEF StopReturned, StopsIn
<1>3. ASSUME StopsIn = {}, NEW l \in Lives, TakesStart(l) PROVE MainInv'
  <2>1. \E c : Takes(c)
    BY <1>3 DEF TakesStart
  <2>2. StopsIn' = {i \in 1..Len(toClient') : i + 1 \in StopsIn}
    BY <1>0, <2>1, CallTaken
  <2> QED
    BY <1>3, <2>2 DEF MainInv
<1>4. ASSUME StopsIn = {}, Starts \/ Retries PROVE MainInv'
  <2>1. UNCHANGED toClient \/ \E l \in Lives, c \in Entries \cup {0} : Open(l, c)
    <3>1. CASE Starts
      <4>1. life + 1 \in Lives /\ Open(life + 1, 0)
        BY <3>1, Bounds DEF Starts, Start, TypeOK, StreamTypeOK, Lives
      <4> QED
        BY <4>1
    <3>2. CASE Retries
      BY <1>0, <3>2 DEF Retries, RetryFires, TypeOK, StreamTypeOK
    <3> QED
      BY <1>4, <3>1, <3>2
  <2>2. StopsIn' = StopsIn
    BY <2>1, OpenJoins, QueueViews DEF Joined
  <2> QED
    BY <1>4, <2>2 DEF MainInv
<1>5. ASSUME StopsIn = {}, Stopping PROVE MainInv'
  <2>1. StopsIn' = {Len(toClient')} /\ running' = FALSE
    BY <1>5, StopJoins DEF Stopping, Stop
  <2> QED
    BY <2>1 DEF MainInv
<1>6. ASSUME StopsIn = {}, UNCHANGED toClient PROVE MainInv'
  BY <1>6, QueueViews DEF MainInv
<1>7. ASSUME \/ \E a \in answering : PostsAnswer(a)
             \/ \E s \in subscribing : SubscribeResolves(s) \/ SubscribeRejects(s)
             \/ PumpForwards \/ PumpEnds
             \/ \E l \in Lives : HandlesOpened(l) \/ HandlesRefused(l)
             \/ \E e \in Entries : HandlesEntry(e)
             \/ HandlesLoss \/ Refreshes \/ Records
      PROVE  UNCHANGED toClient
  BY <1>7 DEF PostsAnswer, SubscribeResolves, SubscribeRejects, PumpForwards, PumpEnds, Emits,
     NoteActivity, NoteStreamLost, HandlesOpened, HandlesRefused, OpenRejects, HandlesEntry,
     HandlesLoss, Refreshes, DebounceFires, Records, Record
<1> QED
  BY <1>1, <1>2, <1>3, <1>4, <1>5, <1>6, <1>7, Steps
-----------------------------------------------------------------------------
(* The relay in the worker.                                                *)

(* The steps that touch neither the queue nor the lifecycle.               *)
Aside ==
    \/ \E a \in answering : PostsAnswer(a)
    \/ \E s \in subscribing : SubscribeResolves(s) \/ SubscribeRejects(s)
    \/ PumpForwards \/ PumpEnds
    \/ \E l \in Lives : HandlesOpened(l)
    \/ \E e \in Entries : HandlesEntry(e)
    \/ HandlesLoss \/ Refreshes \/ Records

LEMMA AsideKeeps == Aside => UNCHANGED <<toClient, running, life, thread, stops>>
  BY DEF Aside, PostsAnswer, SubscribeResolves, SubscribeRejects, PumpForwards, PumpEnds, Emits,
     NoteActivity, NoteStreamLost, HandlesOpened, OpenResolves, HandlesEntry,
     HandlesLoss, Refreshes, DebounceFires, Records, Record, streamVars, relayVars

LEMMA WorkerSteps ==
    ASSUME Next
    PROVE  \/ TakesStop \/ (\E l \in Lives : TakesStart(l)) \/ Aside
           \/ (\E l \in Lives : HandlesRefused(l)) \/ Retries \/ Starts \/ Stopping
  BY Steps DEF Aside

(* The queue is shifted when a call is taken.                              *)
Shifted ==
    /\ Len(toClient) \in Nat /\ Len(toClient') = Len(toClient) - 1
    /\ toClient # <<>> /\ (toClient' # <<>> => Len(toClient') >= 1)
    /\ \A i \in 1..Len(toClient') : toClient'[i] = toClient[i + 1]
    /\ StopsIn' = {i \in 1..Len(toClient') : i + 1 \in StopsIn}
    /\ \A l : CallsOf(l)' = {i \in 1..Len(toClient') : i + 1 \in CallsOf(l)}
    /\ \A l : CallsOf(l) \subseteq 1..Len(toClient)
    /\ StopsIn \subseteq 1..Len(toClient)

LEMMA TakenShifts ==
    ASSUME TypeOK, NEW c, Takes(c)
    PROVE  Shifted
<1>0. toClient \in Seq(Calls)
  BY DEF TypeOK, StreamTypeOK
<1>1. /\ Len(toClient) \in Nat /\ Len(toClient) >= 1
      /\ Len(toClient') = Len(toClient) - 1
      /\ toClient' = <<>> <=> Len(toClient) = 1
      /\ \A i \in 1..Len(toClient') : toClient'[i] = toClient[i + 1]
      /\ \A l : CallsOf(l)' = {i \in 1..Len(toClient') : i + 1 \in CallsOf(l)}
      /\ StopsIn' = {i \in 1..Len(toClient') : i + 1 \in StopsIn}
  BY <1>0, CallTaken
<1>2. toClient # <<>>
  BY DEF Takes
<1>3. /\ \A l : CallsOf(l) \subseteq 1..Len(toClient)
      /\ StopsIn \subseteq 1..Len(toClient)
  BY DEF CallsOf, StopsIn
<1>4. toClient' # <<>> => Len(toClient') >= 1
  BY <1>1
<1> QED
  BY <1>1, <1>2, <1>3, <1>4 DEF Shifted

LEMMA ShiftKeepsQueue ==
    ASSUME WorkerQueue, Shifted, UNCHANGED <<running, life>>
    PROVE  WorkerQueue'
<1>1. ASSUME running, toClient' # <<>> PROVE Len(toClient') \in CallsOf(life)'
  BY <1>1 DEF WorkerQueue, Shifted
<1>2. ASSUME NEW l \in Lives, NEW i \in CallsOf(l)', ~Current(l)
      PROVE  \E k \in StopsIn' : i < k
  <2>1. i \in 1..Len(toClient') /\ i + 1 \in CallsOf(l)
    BY <1>2 DEF Shifted
  <2>2. PICK k \in StopsIn : i + 1 < k
    BY <1>2, <2>1 DEF WorkerQueue
  <2>3. k - 1 \in 1..Len(toClient') /\ k - 1 + 1 = k /\ i < k - 1
    BY <2>1, <2>2 DEF Shifted
  <2>4. k - 1 \in StopsIn'
    BY <2>2, <2>3 DEF Shifted
  <2> QED
    BY <2>3, <2>4
<1> QED
  BY <1>1, <1>2 DEF WorkerQueue, Current

LEMMA WorkerTakes ==
    ASSUME TypeOK, thread = "worker", TakesStop \/ \E l \in Lives : TakesStart(l)
    PROVE  Shifted /\ UNCHANGED <<running, life, cursor, toEngine>>
<1>1. \E c : Takes(c)
  BY DEF TakesStop, TakesStart
<1>2. UNCHANGED <<running, life, cursor, toEngine>>
  BY DEF TakesStop, TakesStart, streamVars
<1> QED
  BY <1>1, <1>2, TakenShifts

(* A refusal that makes the engine give up finds the relay idle.           *)
LEMMA RefusedRelay ==
    ASSUME TypeOK, WorkerRefused, NEW l \in Lives, HandlesRefused(l)
    PROVE  /\ UNCHANGED <<toClient, life, stops, handle, subscribing, answering>>
           /\ \/ running' = running /\ UNCHANGED cursor
              \/ /\ running' = FALSE /\ toClient = <<>> /\ handle = NoHandle
                 /\ \A s \in subscribing : s.stops # stops
           /\ \E m : m.kind = "refused" /\ Delivers(m)
<1> DEFINE m == [kind |-> "refused", life |-> l]
<1>0. toEngine \in Seq(Messages)
  BY DEF TypeOK, StreamTypeOK, Messages
<1>1. m.kind = "refused" /\ m.life = l /\ Delivers(m)
  BY DEF HandlesRefused
<1>2. /\ UNCHANGED <<toClient, life, stops, handle, subscribing, answering>>
      /\ \/ running' = running /\ UNCHANGED cursor
         \/ running' = FALSE /\ running /\ l = life
  BY DEF HandlesRefused, OpenRejects, GivesUp, Current, relayVars
<1> HIDE DEF m
<1>3. IsSettled("refused", l)
  BY <1>0, <1>1, DeliveredViews DEF IsSettled
<1> QED
  BY <1>1, <1>2, <1>3 DEF WorkerRefused

(* Start() and a retry open the stream of the lifecycle they make current. *)
LEMMA OpensCurrent ==
    ASSUME TypeOK, EngineInv, Tokens, Starts \/ Retries
    PROVE  /\ UNCHANGED <<answering, subscribing, stops, handle, toEngine>>
           /\ \/ UNCHANGED <<toClient, running, life, cursor>>
              \/ /\ running' /\ life' \in Lives /\ Joined(life', cursor')
                 /\ \/ UNCHANGED <<running, life, cursor>>
                    \/ /\ ~running /\ life' = life + 1 /\ cursor' = 0
                       /\ NoToken(life') /\ toClient' # toClient
<1>0. /\ life \in 0..MaxLives /\ opening \in Nat /\ opening <= life /\ MaxLives \in Nat
      /\ running => life \in Lives
      /\ cursor \in Entries \cup {0}
  BY Bounds DEF TypeOK, StreamTypeOK, EngineInv, Lives, NoLife
<1>1. UNCHANGED <<answering, subscribing, stops, handle, toEngine>>
  BY DEF Starts, Start, Retries, RetryFires, relayVars
<1>2. CASE Starts
  <2>1. /\ ~running /\ running' /\ life' = life + 1 /\ cursor' = 0 /\ Open(life + 1, 0)
        /\ life < MaxLives
    BY <1>2 DEF Starts, Start
  <2>2. life + 1 \in Lives /\ opening # life + 1 /\ life + 1 > life
    BY <1>0, <2>1 DEF Lives
  <2>3. 0 \in Entries \cup {0}
    OBVIOUS
  <2>4. Joined(life + 1, 0) /\ toClient' # toClient
    BY <2>1, <2>2, <2>3, OpenJoins
  <2>5. NoToken(life + 1)
    BY <1>0, <2>2 DEF Tokens, TokenKnown
  <2>6. NoToken(life') /\ Joined(life', cursor')
    BY <2>1, <2>4, <2>5
  <2> QED
    BY <1>1, <2>1, <2>2, <2>4, <2>6
<1>3. CASE Retries
  <2>1. UNCHANGED <<running, life, cursor>>
    BY <1>3 DEF Retries, RetryFires
  <2>2. CASE Current(retry)
    <3>1. retry = life /\ running /\ Open(life, cursor) /\ life \in Lives
      BY <1>0, <1>3, <2>2 DEF Retries, RetryFires, Current
    <3>2. Joined(life, cursor)
      BY <1>0, <3>1, OpenJoins
    <3>3. Joined(life', cursor')
      BY <2>1, <3>2
    <3> QED
      BY <1>1, <2>1, <3>1, <3>3
  <2>3. CASE ~Current(retry)
    BY <1>1, <1>3, <2>1, <2>3 DEF Retries, RetryFires
  <2> QED
    BY <2>2, <2>3
<1> QED
  BY <1>2, <1>3

LEMMA NextWorkerQueue ==
    ASSUME TypeOK, EngineInv, Tokens, WorkerQueue, WorkerRefused, Next, thread = "worker"
    PROVE  WorkerQueue'
<1>0. /\ \A l : CallsOf(l) \subseteq 1..Len(toClient)
      /\ Len(toClient) \in Nat
      /\ life \in 0..MaxLives /\ MaxLives \in Nat
  BY Bounds DEF CallsOf, TypeOK, StreamTypeOK
<1>1. CASE TakesStop \/ \E l \in Lives : TakesStart(l)
  BY <1>1, WorkerTakes, ShiftKeepsQueue
<1>2. CASE Aside
  BY <1>2, AsideKeeps, QueueViews DEF WorkerQueue, Current
<1>3. ASSUME NEW l \in Lives, HandlesRefused(l) PROVE WorkerQueue'
  <2>1. CASE UNCHANGED <<toClient, life, running>>
    BY <2>1, QueueViews DEF WorkerQueue, Current
  <2>2. CASE UNCHANGED toClient /\ toClient = <<>> /\ running' = FALSE
    BY <2>2 DEF WorkerQueue, CallsOf
  <2> QED
    BY <1>3, <2>1, <2>2, RefusedRelay
<1>4. CASE Starts \/ Retries
  <2>1. CASE UNCHANGED <<toClient, running, life, cursor>>
    BY <2>1, QueueViews DEF WorkerQueue, Current
  <2>2. CASE /\ running' /\ Joined(life', cursor') /\ life' \in Lives
             /\ \/ UNCHANGED <<running, life, cursor>>
                \/ ~running /\ life' = life + 1 /\ toClient' # toClient
    <3>1. ASSUME toClient' = toClient PROVE WorkerQueue'
      <4>1. UNCHANGED <<toClient, running, life>>
        BY <2>2, <3>1
      <4> QED
        BY <4>1, QueueViews DEF WorkerQueue, Current
    <3>2. ASSUME toClient' # toClient PROVE WorkerQueue'
      <4>1. /\ Len(toClient') = Len(toClient) + 1 /\ StopsIn' = StopsIn
            /\ \A k : CallsOf(k)' = IF k = life' THEN CallsOf(k) \cup {Len(toClient')}
                                                 ELSE CallsOf(k)
        BY <2>2, <3>2 DEF Joined
      <4>2. Len(toClient') \in CallsOf(life)'
        BY <4>1
      <4>3. \A l \in Lives : Current(l)' <=> l = life'
        BY <2>2 DEF Current
      <4>4. \A l \in Lives : l # life' => ~Current(l)
        BY <2>2 DEF Current
      <4>5. \A l \in Lives : \A i \in CallsOf(l)' : ~Current(l)' => \E k \in StopsIn' : i < k
        BY <4>1, <4>3, <4>4 DEF WorkerQueue
      <4> QED
        BY <4>2, <4>5 DEF WorkerQueue
    <3> QED
      BY <3>1, <3>2
  <2> QED
    BY <1>4, <2>1, <2>2, OpensCurrent
<1>5. CASE Stopping
  <2>1. /\ Len(toClient') = Len(toClient) + 1
        /\ StopsIn' = StopsIn \cup {Len(toClient')}
        /\ \A l : CallsOf(l)' = CallsOf(l)
    BY <1>5, StopJoins
  <2>2. \A l : \A i \in CallsOf(l) : i < Len(toClient')
    BY <1>0, <2>1
  <2>3. running' = FALSE
    BY <1>5 DEF Stopping, Stop
  <2> QED
    BY <2>1, <2>2, <2>3 DEF WorkerQueue
<1> QED
  BY <1>1, <1>2, <1>3, <1>4, <1>5, WorkerSteps
(* The pump forwards an entry, or reports the loss of its stream.          *)
LEMMA WorkerPumps ==
    ASSUME TypeOK, thread = "worker", PumpForwards \/ PumpEnds
    PROVE  /\ UNCHANGED <<toClient, running, life, cursor, stops, subscribing, answering>>
           /\ handle # NoHandle
           /\ \/ handle' = NoHandle
              \/ \E e \in Entries : handle' = e + 1 /\ EntryOnWay(e)'
           /\ \A l : OnWay("refused", l)' => OnWay("refused", l)
           /\ \A e : EntryOnWay(e) => EntryOnWay(e)'
<1>0. toEngine \in Seq(Messages)
  BY DEF TypeOK, StreamTypeOK, Messages
<1>1. CASE PumpForwards
  <2> DEFINE m == [kind |-> "entry", entry |-> handle]
  <2>1. /\ m \in Messages /\ m.kind = "entry" /\ m.entry = handle /\ Posts(m)
        /\ handle \in Entries /\ handle' = handle + 1 /\ handle # NoHandle
        /\ UNCHANGED <<toClient, running, life, cursor, stops, subscribing, answering>>
    BY <1>1, PumpPosts DEF PumpForwards, Emits, streamVars
  <2> HIDE DEF m
  <2>2. /\ \A e : EntryOnWay(e)' <=> EntryOnWay(e) \/ (m.kind = "entry" /\ m.entry = e)
        /\ \A l : OnWay("refused", l)' <=> OnWay("refused", l) \/ (m.kind = "refused" /\ m.life = l)
    BY <1>0, <2>1, PostedViews
  <2>3. \A e : e = handle => EntryOnWay(e)'
    BY <2>1, <2>2
  <2>4. \E e \in Entries : handle' = e + 1 /\ EntryOnWay(e)'
    BY <2>1, <2>3
  <2> QED
    BY <2>1, <2>2, <2>4
<1>2. CASE PumpEnds
  <2> DEFINE m == [kind |-> "lost"]
  <2>1. /\ m \in Messages /\ m.kind = "lost" /\ Posts(m)
        /\ handle' = NoHandle /\ handle # NoHandle
        /\ UNCHANGED <<toClient, running, life, cursor, stops, subscribing, answering>>
    BY <1>2, PumpPosts DEF PumpEnds, Emits, streamVars
  <2> HIDE DEF m
  <2>2. /\ \A e : EntryOnWay(e)' <=> EntryOnWay(e) \/ (m.kind = "entry" /\ m.entry = e)
        /\ \A l : OnWay("refused", l)' <=> OnWay("refused", l) \/ (m.kind = "refused" /\ m.life = l)
    BY <1>0, <2>1, PostedViews
  <2> QED
    BY <2>1, <2>2
<1> QED
  BY <1>1, <1>2

LEMMA NextWorkerRefused ==
    ASSUME IInv, Next, thread = "worker"
    PROVE  WorkerRefused'
<1>0. /\ toEngine \in Seq(Messages) /\ answering \subseteq Answers
      /\ subscribing \subseteq Pending /\ toClient \in Seq(Calls)
      /\ running => life \in Lives
      /\ TypeOK /\ RelayInv /\ EngineInv /\ Tokens /\ Opened
      /\ WorkerRefused /\ WorkerQueue
  BY Bounds DEF IInv, WorkerInv, TypeOK, StreamTypeOK, Messages, EngineInv, Lives, NoLife
<1>1. ASSUME running' => running, life' = life, UNCHANGED <<toClient, stops>>,
             subscribing' \subseteq subscribing,
             IsSettled("refused", life)' => IsSettled("refused", life),
             handle' = handle \/ \E s \in subscribing : s.stops = stops
      PROVE  WorkerRefused'
  BY <1>0, <1>1 DEF WorkerRefused
<1>2. ASSUME TakesStop PROVE WorkerRefused'
  <2>1. UNCHANGED <<running, life, answering, toEngine>>
    BY <1>2 DEF TakesStop, streamVars
  <2>2. running => ~IsSettled("refused", life)
    BY <1>0, <1>2, StopIsOld, SettledToken
  <2> QED
    BY <2>1, <2>2, EngineViews DEF WorkerRefused, IsSettled
<1>3. ASSUME NEW l \in Lives, TakesStart(l) PROVE WorkerRefused'
  <2>1. UNCHANGED <<running, life, toEngine>> /\ toClient # <<>>
    BY <1>3 DEF TakesStart, Takes, streamVars
  <2>2. Settles("opened", {l}) \/ UNCHANGED answering
    BY <1>0, <1>3, StartTaken
  <2>3. \A a \in answering' : a \in answering \/ a.kind = "opened"
    BY <1>0, <2>2, CallsSettled
  <2>4. IsSettled("refused", life)' => IsSettled("refused", life)
    BY <2>1, <2>3, EngineViews DEF IsSettled
  <2> QED
    BY <1>0, <2>1, <2>4 DEF WorkerRefused
<1>4. ASSUME NEW s \in subscribing, SubscribeResolves(s) PROVE WorkerRefused'
  <2>1. /\ UNCHANGED <<running, life, stops, toEngine, toClient>>
        /\ subscribing' = subscribing \ {s} /\ Settles("opened", s.lives)
        /\ handle' = handle \/ s.stops = stops
        /\ s.lives \in SUBSET Lives
    BY <1>0, <1>4 DEF SubscribeResolves, streamVars, Pending
  <2>2. \A a \in answering' : a \in answering \/ a.kind = "opened"
    BY <1>0, <2>1, CallsSettled
  <2>3. IsSettled("refused", life)' => IsSettled("refused", life)
    BY <2>1, <2>2, EngineViews DEF IsSettled
  <2> QED
    BY <1>1, <2>1, <2>3
<1>5. ASSUME NEW s \in subscribing, SubscribeRejects(s) PROVE WorkerRefused'
  <2>1. /\ UNCHANGED <<running, life, stops, toEngine, toClient, handle>>
        /\ subscribing' = subscribing \ {s} /\ Settles("refused", s.lives)
        /\ s.lives \in SUBSET Lives
    BY <1>0, <1>5 DEF SubscribeRejects, streamVars, Pending
  <2>2. \A a \in answering' : a \in answering \/ a.life \in s.lives
    BY <1>0, <2>1, CallsSettled
  <2>3. CASE life \in s.lives /\ running
    <3>1. s.stops = stops /\ handle = NoHandle
      BY <1>0, <2>3 DEF Opened, RelayInv
    <3>2. \A t \in subscribing \ {s} : t.stops # stops
      BY <1>0, <3>1 DEF RelayInv
    <3>3. life \in Lives /\ CallsOf(life) = {}
      BY <1>0, <2>3 DEF Tokens, OneToken, SubscribesOf
    <3>4. toClient = <<>>
      BY <1>0, <2>3, <3>3 DEF WorkerQueue
    <3> QED
      BY <2>1, <3>1, <3>2, <3>4 DEF WorkerRefused
  <2>4. CASE life \notin s.lives
    <3>1. IsSettled("refused", life)' => IsSettled("refused", life)
      BY <2>1, <2>2, <2>4, EngineViews DEF IsSettled
    <3> QED
      BY <1>1, <2>1, <3>1
  <2>5. CASE ~running
    BY <2>1, <2>5 DEF WorkerRefused
  <2> QED
    BY <2>3, <2>4, <2>5
<1>6. ASSUME NEW a \in answering, PostsAnswer(a) PROVE WorkerRefused'
  <2>1. /\ UNCHANGED <<running, life, stops, handle, subscribing, toClient>> /\ Posts(a)
        /\ a \in Messages /\ answering' = answering \ {a}
    BY <1>0, <1>6 DEF PostsAnswer, streamVars, Messages
  <2>2. IsSettled("refused", life)' => IsSettled("refused", life)
    BY <1>0, <2>1, PostedViews DEF IsSettled
  <2> QED
    BY <1>1, <2>1, <2>2
<1>7. ASSUME PumpForwards \/ PumpEnds PROVE WorkerRefused'
  <2>1. /\ UNCHANGED <<running, life, answering>> /\ handle # NoHandle
        /\ \A l : OnWay("refused", l)' => OnWay("refused", l)
    BY <1>0, <1>7, WorkerPumps
  <2>2. IsSettled("refused", life)' => IsSettled("refused", life)
    BY <2>1 DEF IsSettled
  <2> QED
    BY <1>0, <2>1, <2>2 DEF WorkerRefused
<1>8. ASSUME NEW m, Delivers(m), running' => running,
             UNCHANGED <<life, toClient, stops, handle, subscribing, answering>>
      PROVE  WorkerRefused'
  <2>1. IsSettled("refused", life)' => IsSettled("refused", life)
    BY <1>0, <1>8, DeliveredViews DEF IsSettled
  <2> QED
    BY <1>1, <1>8, <2>1
<1>9. ASSUME \/ \E l \in Lives : HandlesOpened(l) \/ HandlesRefused(l)
             \/ \E e \in Entries : HandlesEntry(e)
             \/ HandlesLoss
      PROVE  WorkerRefused'
  <2>1. \E m : Delivers(m)
    BY <1>9 DEF HandlesOpened, HandlesRefused, HandlesEntry, HandlesLoss
  <2>2. UNCHANGED <<life, toClient, stops, handle, subscribing, answering>>
    BY <1>9 DEF HandlesOpened, HandlesRefused, HandlesEntry, HandlesLoss, OpenResolves,
       OpenRejects, NoteActivity, NoteStreamLost, relayVars
  <2>3. running' => running
    BY <1>9 DEF HandlesOpened, HandlesRefused, HandlesEntry, HandlesLoss, OpenResolves,
       OpenRejects, GivesUp, NoteActivity, NoteStreamLost
  <2> QED
    BY <1>8, <2>1, <2>2, <2>3
<1>10. ASSUME Refreshes \/ Records PROVE WorkerRefused'
  <2>1. UNCHANGED <<running, life, toClient, stops, handle, subscribing, answering, toEngine>>
    BY <1>10 DEF Refreshes, DebounceFires, Records, Record, streamVars, relayVars
  <2>2. IsSettled("refused", life)' => IsSettled("refused", life)
    BY <2>1, EngineViews DEF IsSettled
  <2> QED
    BY <1>1, <2>1, <2>2
<1>11. ASSUME Retries PROVE WorkerRefused'
  <2>1. UNCHANGED <<answering, life, running, toEngine>> /\ answering = {}
    BY <1>11 DEF Retries, RetryFires, AnswersHandled, relayVars
  <2>2. running => AnswersOf(life) = {}
    BY <1>0, <1>11 DEF Retries, AnswersHandled
  <2>3. running => ~IsSettled("refused", life)
    BY <2>1, <2>2, SettledToken DEF SettledOf
  <2> QED
    BY <2>1, <2>3, EngineViews DEF WorkerRefused, IsSettled
<1>12. ASSUME Starts PROVE WorkerRefused'
  <2>1. UNCHANGED <<answering, toEngine>> /\ life' = life + 1
        /\ life + 1 \in Lives /\ life \in Nat
    BY <1>0, <1>12, Bounds DEF Starts, Start, relayVars, TypeOK, StreamTypeOK, Lives
  <2>2. NoToken(life + 1)
    BY <1>0, <2>1 DEF Tokens, TokenKnown
  <2>3. ~IsSettled("refused", life + 1)
    BY <2>2, SettledToken DEF NoToken
  <2>4. ~IsSettled("refused", life)'
    BY <2>1, <2>3, EngineViews DEF IsSettled
  <2> QED
    BY <2>4 DEF WorkerRefused
<1>13. ASSUME Stopping PROVE WorkerRefused'
  BY <1>13 DEF Stopping, Stop, WorkerRefused
<1> QED
  BY <1>2, <1>3, <1>4, <1>5, <1>6, <1>7, <1>9, <1>10, <1>11, <1>12, <1>13, Steps
LEMMA NextWorkerStopped ==
    ASSUME IInv, Next, thread = "worker"
    PROVE  WorkerStopped'
<1>0. /\ toClient \in Seq(Calls) /\ stops \in Nat
      /\ \A s \in subscribing : s.stops \in Nat
      /\ TypeOK /\ RelayInv /\ EngineInv /\ Tokens
      /\ WorkerRefused /\ WorkerQueue /\ WorkerStopped
  BY Bounds DEF IInv, WorkerInv, TypeOK, StreamTypeOK, Pending
<1>1. ASSUME UNCHANGED <<toClient, running, stops>>, subscribing' \subseteq subscribing,
             handle' = handle \/ \E s \in subscribing : s.stops = stops
      PROVE  WorkerStopped'
  BY <1>0, <1>1, QueueViews DEF WorkerStopped
<1>2. ASSUME TakesStop PROVE WorkerStopped'
  <2>1. stops' = stops + 1 /\ handle' = NoHandle /\ UNCHANGED subscribing
    BY <1>2 DEF TakesStop
  <2>2. \A s \in subscribing : s.stops # stops + 1
    BY <1>0 DEF RelayInv
  <2> QED
    BY <2>1, <2>2 DEF WorkerStopped
<1>3. ASSUME NEW l \in Lives, TakesStart(l), ~running PROVE StopsIn' # {}
  <2>1. PICK c : Takes([kind |-> "start", life |-> l, cursor |-> c])
    BY <1>3 DEF TakesStart
  <2>2. 1 \in CallsOf(l) /\ Shifted
    BY <1>0, <2>1, CallTaken, TakenShifts
  <2>3. PICK k \in StopsIn : 1 < k
    BY <1>0, <1>3, <2>2 DEF WorkerQueue, Current
  <2>4. k - 1 \in 1..Len(toClient') /\ k - 1 + 1 = k
    BY <2>2, <2>3 DEF Shifted
  <2> QED
    BY <2>2, <2>3, <2>4 DEF Shifted
<1>4. CASE \E l \in Lives : TakesStart(l)
  <2>1. UNCHANGED running
    BY <1>4 DEF TakesStart, streamVars
  <2> QED
    BY <1>3, <1>4, <2>1 DEF WorkerStopped
<1>5. ASSUME NEW s \in subscribing, SubscribeResolves(s) \/ SubscribeRejects(s)
      PROVE  WorkerStopped'
  <2>1. /\ UNCHANGED <<running, stops, toClient>>
        /\ subscribing' = subscribing \ {s}
        /\ handle' = handle \/ s.stops = stops
    BY <1>5 DEF SubscribeResolves, SubscribeRejects, streamVars
  <2> QED
    BY <1>1, <2>1
<1>6. CASE PumpForwards \/ PumpEnds
  <2>1. UNCHANGED <<toClient, running>> /\ handle # NoHandle
    BY <1>0, <1>6, WorkerPumps
  <2> QED
    BY <1>0, <2>1, QueueViews DEF WorkerStopped
<1>7. ASSUME NEW l \in Lives, HandlesRefused(l) PROVE WorkerStopped'
  <2>1. UNCHANGED <<toClient, stops, handle, subscribing>>
    BY <1>0, <1>7, RefusedRelay
  <2>2. \/ UNCHANGED running
        \/ handle = NoHandle /\ \A s \in subscribing : s.stops # stops
    BY <1>0, <1>7, RefusedRelay
  <2>3. CASE UNCHANGED running
    BY <1>1, <2>1, <2>3
  <2>4. CASE handle = NoHandle /\ \A s \in subscribing : s.stops # stops
    BY <2>1, <2>4 DEF WorkerStopped
  <2> QED
    BY <2>2, <2>3, <2>4
<1>8. CASE \/ \E a \in answering : PostsAnswer(a)
           \/ \E l \in Lives : HandlesOpened(l)
           \/ \E e \in Entries : HandlesEntry(e)
           \/ HandlesLoss \/ Refreshes \/ Records
  <2>1. UNCHANGED <<toClient, running, stops>>
    BY <1>8, AsideKeeps DEF Aside
  <2>2. UNCHANGED <<subscribing, handle>>
    BY <1>8 DEF PostsAnswer, HandlesOpened, HandlesEntry, HandlesLoss, Refreshes, Records, relayVars
  <2> QED
    BY <1>1, <2>1, <2>2
<1>9. CASE Starts \/ Retries
  <2>1. UNCHANGED <<subscribing, stops, handle>>
    BY <1>0, <1>9, OpensCurrent
  <2>2. UNCHANGED <<toClient, running>> \/ running'
    BY <1>0, <1>9, OpensCurrent
  <2> QED
    BY <1>1, <2>1, <2>2 DEF WorkerStopped
<1>10. CASE Stopping
  BY <1>0, <1>10, StopJoins DEF WorkerStopped
<1> QED
  BY <1>2, <1>4, <1>5, <1>6, <1>7, <1>8, <1>9, <1>10, Steps

(* The clause of WorkerCursor about the handle, in the next state.         *)
LEMMA HandleSeen ==
    (handle - 1 <= cursor \/ EntryOnWay(handle - 1))' <=>
        \A x : x = handle' - 1 => x <= cursor' \/ EntryOnWay(x)'
  BY DEF EntryOnWay

(* A call that joins the queue asks for what the engine has not seen.      *)
LEMMA CalledJoined ==
    ASSUME Joined(life', cursor'), toClient' # toClient, cursor' \in Nat,
           \A i \in CallsOf(life') : toClient[i].cursor <= cursor'
    PROVE  \A i \in CallsOf(life)' : toClient'[i].cursor <= cursor'
<1>1. /\ Len(toClient) \in Nat /\ Len(toClient') = Len(toClient) + 1
      /\ \A i \in 1..Len(toClient) : toClient'[i] = toClient[i]
      /\ toClient'[Len(toClient')].cursor = cursor'
      /\ CallsOf(life)' = CallsOf(life') \cup {Len(toClient')}
  BY DEF Joined
<1>2. CallsOf(life') \subseteq 1..Len(toClient)
  BY DEF CallsOf
<1> QED
  BY <1>1, <1>2

LEMMA NextWorkerCursor ==
    ASSUME IInv, Next, thread = "worker"
    PROVE  WorkerCursor'
<1> DEFINE Seen == handle # NoHandle => handle - 1 <= cursor \/ EntryOnWay(handle - 1)
           Served == \A s \in subscribing : s.stops = stops => s.cursor <= cursor
           Called == \A i \in CallsOf(life) : toClient[i].cursor <= cursor
<1>0. /\ toEngine \in Seq(Messages) /\ answering \subseteq Answers
      /\ toClient \in Seq(Calls) /\ stops \in Nat /\ cursor \in Nat /\ handle \in Nat
      /\ \A s \in subscribing : s.stops \in Nat /\ s.cursor \in Nat
      /\ \A e \in Entries : e \in Nat
      /\ TypeOK /\ RelayInv /\ EngineInv /\ Tokens
      /\ WorkerRefused /\ WorkerQueue /\ WorkerStopped
  BY Bounds DEF IInv, WorkerInv, TypeOK, StreamTypeOK, Pending, Messages, Entries, NoHandle
<1>00. running => Called /\ (StopsIn = {} => Served /\ Seen)
  BY DEF IInv, WorkerInv, WorkerCursor
<1>01. ASSUME running' => Called' /\ (StopsIn' = {} => Served' /\ Seen') PROVE WorkerCursor'
  BY <1>01 DEF WorkerCursor
<1>02. Seen' <=> (handle' # NoHandle =>
                    \A x : x = handle' - 1 => x <= cursor' \/ EntryOnWay(x)')
  BY HandleSeen DEF NoHandle
<1>03. Seen => (handle # NoHandle => \A x : x = handle - 1 => x <= cursor \/ EntryOnWay(x))
  OBVIOUS
<1> HIDE DEF Seen
<1>1. ASSUME running' => running, UNCHANGED <<life, toClient, stops>>,
             cursor' \in Nat, running' => cursor <= cursor',
             subscribing' \subseteq subscribing,
             \/ handle' = handle \/ handle' = NoHandle
             \/ \E s \in subscribing : s.stops = stops /\ handle' = s.cursor + 1
             \/ \E e \in Entries : handle' = e + 1 /\ EntryOnWay(e)',
             running' => \A x : EntryOnWay(x) => EntryOnWay(x)' \/ x <= cursor'
      PROVE  WorkerCursor'
  <2>1. CallsOf(life)' = CallsOf(life) /\ StopsIn' = StopsIn
    BY <1>1 DEF CallsOf, StopsIn
  <2>2. ASSUME running' PROVE Called'
    <3>1. \A i \in CallsOf(life) : toClient[i].cursor \in Nat
      BY <1>0 DEF CallsOf, Calls, Entries
    <3> QED
      BY <1>0, <1>00, <1>1, <2>1, <2>2, <3>1
  <2>3. ASSUME running', StopsIn' = {} PROVE Served'
    BY <1>0, <1>00, <1>1, <2>1, <2>3
  <2>4. ASSUME running', StopsIn' = {}, handle' # NoHandle, NEW x, x = handle' - 1
        PROVE  x <= cursor' \/ EntryOnWay(x)'
    <3>1. CASE handle' = handle
      <4>1. x <= cursor \/ EntryOnWay(x)
        BY <1>00, <1>03, <1>1, <2>1, <2>4, <3>1
      <4> QED
        BY <1>0, <1>1, <2>4, <3>1, <4>1
    <3>2. CASE \E s \in subscribing : s.stops = stops /\ handle' = s.cursor + 1
      BY <1>0, <1>00, <1>1, <2>1, <2>4, <3>2
    <3>3. CASE \E e \in Entries : handle' = e + 1 /\ EntryOnWay(e)'
      <4>1. PICK e \in Entries : handle' = e + 1 /\ EntryOnWay(e)'
        BY <3>3
      <4>2. x = e
        BY <1>0, <2>4, <4>1
      <4> QED
        BY <4>1, <4>2
    <3> QED
      BY <1>1, <2>4, <3>1, <3>2, <3>3
  <2> HIDE DEF Served, Called
  <2> QED
    BY <1>01, <1>02, <2>2, <2>3, <2>4
<1>2. ASSUME Shifted, UNCHANGED <<running, life, cursor>> PROVE running' => Called'
  <2>1. CallsOf(life)' = {i \in 1..Len(toClient') : i + 1 \in CallsOf(life)}
    BY <1>2 DEF Shifted
  <2> QED
    BY <1>00, <1>2, <2>1 DEF Shifted
<1>3. CASE TakesStop
  <2>1. Shifted /\ UNCHANGED <<running, life, cursor>>
    BY <1>0, <1>3, WorkerTakes
  <2>2. stops' = stops + 1 /\ handle' = NoHandle /\ UNCHANGED subscribing
    BY <1>3 DEF TakesStop
  <2>3. \A s \in subscribing : s.stops # stops + 1
    BY <1>0 DEF RelayInv
  <2>4. Served' /\ Seen'
    BY <1>02, <2>2, <2>3
  <2> HIDE DEF Served, Called
  <2> QED
    BY <1>01, <1>2, <2>1, <2>4
<1>4. ASSUME NEW l \in Lives, TakesStart(l) PROVE WorkerCursor'
  <2>1. Shifted /\ UNCHANGED <<running, life, cursor, toEngine>>
    BY <1>0, <1>4, WorkerTakes
  <2>2. UNCHANGED <<handle, stops>>
    BY <1>4 DEF TakesStart
  <2>3. PICK c \in Entries \cup {0} :
           /\ Takes([kind |-> "start", life |-> l, cursor |-> c])
           /\ UNCHANGED subscribing \/ StartsOne(l, c) \/ JoinsOne(l)
    BY <1>0, <1>4, StartTaken
  <2> DEFINE call == [kind |-> "start", life |-> l, cursor |-> c]
  <2>4. call.kind = "start" /\ call.life = l /\ call.cursor = c /\ Takes(call)
    BY <2>3
  <2> HIDE DEF call
  <2>5. toClient[1].cursor = c /\ 1 \in CallsOf(l) /\ 1 \notin StopsIn
    BY <1>0, <2>4, CallTaken
  <2>6. ASSUME StopsIn' = {} PROVE StopsIn = {}
    <3>1. ASSUME NEW k \in StopsIn PROVE FALSE
      <4>1. k - 1 \in 1..Len(toClient') /\ k - 1 + 1 = k
        BY <2>1, <2>5 DEF Shifted
      <4> QED
        BY <2>1, <2>6, <4>1 DEF Shifted
    <3> QED
      BY <3>1
  <2>7. ASSUME running, StopsIn' = {} PROVE c <= cursor
    <3>1. l = life
      BY <1>0, <2>5, <2>6, <2>7 DEF WorkerQueue, Current
    <3> QED
      BY <1>00, <2>5, <2>7, <3>1
  <2>8. ASSUME running, StopsIn' = {} PROVE Served'
    BY <1>00, <2>1, <2>2, <2>3, <2>6, <2>7, <2>8 DEF StartsOne, JoinsOne
  <2>9. ASSUME running, StopsIn' = {} PROVE Seen'
    <3>1. Seen
      BY <1>00, <2>6, <2>9
    <3> QED
      BY <2>1, <2>2, <3>1, <1>02, <1>03, EngineViews
  <2> HIDE DEF Served, Called
  <2> QED
    BY <1>01, <1>2, <2>1, <2>8, <2>9
<1>5. ASSUME NEW s \in subscribing, SubscribeResolves(s) \/ SubscribeRejects(s)
      PROVE  WorkerCursor'
  <2>1. /\ UNCHANGED <<running, life, stops, toClient, cursor, toEngine>>
        /\ subscribing' = subscribing \ {s}
    BY <1>5 DEF SubscribeResolves, SubscribeRejects, streamVars
  <2>2. handle' = handle \/ (s.stops = stops /\ handle' = s.cursor + 1)
    BY <1>5 DEF SubscribeResolves, SubscribeRejects
  <2>3. \A x : EntryOnWay(x) => EntryOnWay(x)'
    BY <2>1, EngineViews
  <2> QED
    BY <1>0, <1>1, <2>1, <2>2, <2>3
<1>6. CASE PumpForwards \/ PumpEnds
  <2>1. /\ UNCHANGED <<toClient, running, life, cursor, stops, subscribing>>
        /\ handle' = NoHandle \/ \E e \in Entries : handle' = e + 1 /\ EntryOnWay(e)'
        /\ \A x : EntryOnWay(x) => EntryOnWay(x)'
    BY <1>0, <1>6, WorkerPumps
  <2> QED
    BY <1>0, <1>1, <2>1
<1>7. ASSUME NEW m, Delivers(m), m.kind # "entry" \/ ~running' \/ m.entry <= cursor',
             UNCHANGED <<life, toClient, stops, handle, subscribing>>, running' => running,
             cursor' \in Nat, running' => cursor <= cursor'
      PROVE  WorkerCursor'
  <2>1. running' => \A x : EntryOnWay(x) => EntryOnWay(x)' \/ x <= cursor'
    BY <1>0, <1>7, DeliveredViews
  <2> QED
    BY <1>1, <1>7, <2>1
<1>8. ASSUME NEW l \in Lives, HandlesOpened(l) PROVE WorkerCursor'
  <2> DEFINE m == [kind |-> "opened", life |-> l]
  <2>1. /\ m.kind = "opened" /\ Delivers(m)
        /\ UNCHANGED <<life, toClient, stops, handle, subscribing, running, cursor>>
    BY <1>8 DEF HandlesOpened, OpenResolves, relayVars
  <2> HIDE DEF m
  <2> QED
    BY <1>0, <1>7, <2>1
<1>9. ASSUME NEW l \in Lives, HandlesRefused(l) PROVE WorkerCursor'
  <2>1. CASE UNCHANGED <<running, cursor>>
    <3>1. PICK m : m.kind = "refused" /\ Delivers(m)
      BY <1>0, <1>9, RefusedRelay
    <3>2. UNCHANGED <<toClient, life, stops, handle, subscribing>>
      BY <1>0, <1>9, RefusedRelay
    <3> QED
      BY <1>0, <1>7, <2>1, <3>1, <3>2
  <2>2. CASE running' = FALSE
    BY <2>2 DEF WorkerCursor
  <2> QED
    BY <1>0, <1>9, <2>1, <2>2, RefusedRelay
<1>10. ASSUME NEW e \in Entries, HandlesEntry(e) PROVE WorkerCursor'
  <2> DEFINE m == [kind |-> "entry", entry |-> e]
  <2>1. /\ m.entry = e /\ Delivers(m) /\ NoteActivity(e)
        /\ UNCHANGED <<life, toClient, stops, handle, subscribing, running>>
    BY <1>10 DEF HandlesEntry, NoteActivity, relayVars
  <2> HIDE DEF m
  <2>2. cursor' \in Nat /\ (running' => cursor <= cursor' /\ e <= cursor')
    BY <1>0, <2>1 DEF NoteActivity
  <2>3. m.kind # "entry" \/ ~running' \/ m.entry <= cursor'
    BY <2>1, <2>2
  <2>4. running' => running
    BY <2>1
  <2> QED
    BY <1>7, <2>1, <2>2, <2>3, <2>4
<1>11. CASE HandlesLoss
  <2> DEFINE m == [kind |-> "lost"]
  <2>1. /\ m.kind = "lost" /\ Delivers(m)
        /\ UNCHANGED <<life, toClient, stops, handle, subscribing, running, cursor>>
    BY <1>11 DEF HandlesLoss, NoteStreamLost, relayVars
  <2> HIDE DEF m
  <2> QED
    BY <1>0, <1>7, <2>1
<1>12. ASSUME NEW a \in answering, PostsAnswer(a) PROVE WorkerCursor'
  <2>1. /\ UNCHANGED <<running, life, stops, handle, subscribing, toClient, cursor>>
        /\ Posts(a) /\ a \in Messages
    BY <1>0, <1>12 DEF PostsAnswer, streamVars, Messages
  <2>2. \A x : EntryOnWay(x) => EntryOnWay(x)'
    BY <1>0, <2>1, PostedViews
  <2> QED
    BY <1>0, <1>1, <2>1, <2>2
<1>13. CASE Refreshes \/ Records
  <2>1. UNCHANGED <<running, life, toClient, stops, handle, subscribing, cursor, toEngine>>
    BY <1>13 DEF Refreshes, DebounceFires, Records, Record, streamVars, relayVars
  <2>2. \A x : EntryOnWay(x) => EntryOnWay(x)'
    BY <2>1, EngineViews
  <2> QED
    BY <1>0, <1>1, <2>1, <2>2
<1>14. CASE Starts \/ Retries
  <2>1. UNCHANGED <<subscribing, stops, handle, toEngine>>
    BY <1>0, <1>14, OpensCurrent
  <2>2. CASE UNCHANGED <<toClient, running, life, cursor>>
    <3>1. \A x : EntryOnWay(x) => EntryOnWay(x)'
      BY <2>1, EngineViews
    <3> QED
      BY <1>0, <1>1, <2>1, <2>2, <3>1
  <2>3. CASE /\ running' /\ life' \in Lives /\ Joined(life', cursor')
             /\ UNCHANGED <<running, life, cursor>>
    <3>1. ASSUME UNCHANGED toClient PROVE WorkerCursor'
      BY <1>0, <2>1, <2>2, <2>3, <3>1
    <3>2. ASSUME toClient' # toClient PROVE Called'
      <4>1. cursor' \in Nat /\ \A i \in CallsOf(life') : toClient[i].cursor <= cursor'
        BY <1>0, <1>00, <2>3
      <4> QED
        BY <2>3, <3>2, <4>1, CalledJoined
    <3>3. StopsIn' = StopsIn
      BY <2>3, QueueViews DEF Joined
    <3>4. StopsIn' = {} => Served' /\ Seen'
      BY <1>00, <1>02, <1>03, <2>1, <2>3, <3>3, EngineViews
    <3> HIDE DEF Served, Called
    <3> QED
      BY <1>01, <3>1, <3>2, <3>4
  <2>4. CASE /\ running' /\ life' \in Lives /\ Joined(life', cursor')
             /\ ~running /\ NoToken(life') /\ toClient' # toClient /\ cursor' = 0
    <3>1. Called'
      BY <2>4, CalledJoined DEF NoToken
    <3>2. StopsIn' = StopsIn
      BY <2>4 DEF Joined
    <3>3. StopsIn' = {} => Served' /\ Seen'
      BY <1>0, <1>02, <2>1, <2>4, <3>2 DEF WorkerStopped
    <3> HIDE DEF Served, Called
    <3> QED
      BY <1>01, <3>1, <3>3
  <2> QED
    BY <1>0, <1>14, <2>2, <2>3, <2>4, OpensCurrent
<1>15. CASE Stopping
  BY <1>15 DEF Stopping, Stop, WorkerCursor
<1> QED
  BY <1>3, <1>4, <1>5, <1>6, <1>8, <1>9, <1>10, <1>11, <1>12, <1>13, <1>14, <1>15, Steps
-----------------------------------------------------------------------------
(* The theorems.                                                           *)

LEMMA NextIInv ==
    ASSUME IInv, [Next]_vars
    PROVE  IInv'
<1>0. /\ TypeOK /\ Tokens /\ RelayInv /\ EngineInv /\ JournalInv
      /\ thread = "worker" => WorkerInv
      /\ thread = "main" => MainInv
  BY DEF IInv
<1>1. CASE UNCHANGED vars
  <2>1. /\ UNCHANGED streamVars /\ UNCHANGED relayVars
        /\ UNCHANGED <<journal, toClient, toEngine>>
    BY <1>1 DEF vars
  <2>2. TypeOK'
    BY <1>0, <2>1 DEF TypeOK, StreamTypeOK, streamVars, relayVars
  <2>3. Tokens' /\ RelayInv' /\ EngineInv'
    BY <1>0, <2>1, QueueViews DEF Tokens, OneToken, TokenKnown, NoToken, RelayInv, EngineInv,
       StopsIn, streamVars, relayVars
  <2>4. Opened' /\ JournalInv' /\ NeverSilent'
    BY <2>1, EngineViews DEF IInv, Opened, JournalInv, NeverSilent, IsSettled, streamVars,
       relayVars
  <2>5. (thread = "worker" => WorkerInv)' /\ (thread = "main" => MainInv)'
    <3>1. (thread = "main" => MainInv)'
      BY <1>0, <2>1, QueueViews DEF MainInv, streamVars, relayVars
    <3>2. (thread = "worker" => WorkerQueue /\ WorkerRefused /\ WorkerStopped)'
      BY <1>0, <2>1, QueueViews, EngineViews DEF WorkerInv, WorkerQueue, WorkerRefused,
         WorkerStopped, IsSettled, Current, streamVars, relayVars
    <3>3. (thread = "worker" => WorkerCursor)'
      BY <1>0, <2>1, QueueViews DEF WorkerInv, WorkerCursor, EntryOnWay, streamVars, relayVars
    <3> QED
      BY <3>1, <3>2, <3>3 DEF WorkerInv
  <2> QED
    BY <2>2, <2>3, <2>4, <2>5 DEF IInv
<1>2. CASE Next
  <2>1. TypeOK' /\ EngineInv'
    <3>1. CASE TakesStop
      BY <1>0, <3>1, TypeOfStop
    <3>2. CASE \E l \in Lives : TakesStart(l)
      BY <1>0, <3>2, TypeOfStart
    <3>3. CASE \/ \E a \in answering : PostsAnswer(a)
               \/ \E s \in subscribing : SubscribeResolves(s) \/ SubscribeRejects(s)
               \/ PumpForwards \/ PumpEnds
      BY <1>0, <3>3, TypeOfRelay
    <3>4. CASE \/ \E l \in Lives : HandlesOpened(l) \/ HandlesRefused(l)
               \/ \E e \in Entries : HandlesEntry(e)
               \/ HandlesLoss \/ Retries \/ Refreshes \/ Starts \/ Stopping \/ Records
      BY <1>0, <3>4, TypeOfEngine
    <3> QED
      BY <1>2, <3>1, <3>2, <3>3, <3>4, Steps
  <2>2. Tokens' /\ RelayInv' /\ Opened' /\ JournalInv' /\ NeverSilent'
    BY <1>0, <1>2, NextTokens, NextRelay, NextOpened, NextJournal, NextNeverSilent
  <2>3. UNCHANGED thread
    BY <1>2 DEF Next, Wallet, Engine, Relay, TakesStop, TakesStart, PostsAnswer,
       SubscribeResolves, SubscribeRejects, PumpForwards, PumpEnds, relayVars
  <2>4. ASSUME thread = "worker" PROVE WorkerInv'
    <3>1. WorkerQueue /\ WorkerRefused
      BY <1>0, <2>4 DEF WorkerInv
    <3> QED
      BY <1>0, <1>2, <2>4, <3>1, NextWorkerQueue, NextWorkerRefused, NextWorkerStopped,
         NextWorkerCursor DEF WorkerInv
  <2>5. ASSUME thread = "main" PROVE MainInv'
    BY <1>0, <1>2, <2>5, NextMain
  <2> QED
    BY <2>1, <2>2, <2>3, <2>4, <2>5 DEF IInv
<1> QED
  BY <1>1, <1>2

(* The invariant of the activity stream holds in every state.              *)
THEOREM Invariance == Spec => []IInv
<1>1. Init => IInv
  BY InitIInv
<1>2. IInv /\ [Next]_vars => IInv'
  BY NextIInv
<1> QED
  BY <1>1, <1>2, PTL DEF Spec

(* The relay holds one handle, and every field of the stream and of the    *)
(* relay keeps its type, the counters their bounds.                        *)
THEOREM TypeCorrect == Spec => []TypeOK
<1>1. IInv => TypeOK
  BY DEF IInv
<1> QED
  BY <1>1, Invariance, PTL

(* A stream that runs has a subscription behind it, or a call, an event or *)
(* a timer that will look after it.                                        *)
THEOREM LooksAfter == Spec => []NeverSilent
<1>1. IInv => NeverSilent
  BY DEF IInv
<1> QED
  BY <1>1, Invariance, PTL

LEMMA TokensCount ==
    ASSUME Tokens
    PROVE  OneOpenPerLife
<1> SUFFICES ASSUME NEW l \in Lives
             PROVE  Cardinality(CallsOf(l)) + Cardinality(SubscribesOf(l))
                      + Cardinality(SettledOf(l)) + Cardinality(AnswersOf(l)) <= 1
  BY DEF OneOpenPerLife, SubscribesOf, SettledOf
<1>1. OneToken(l)
  BY DEF Tokens
<1>2. /\ Cardinality(CallsOf(l)) = IF CallsOf(l) = {} THEN 0 ELSE 1
      /\ Cardinality(SubscribesOf(l)) = IF SubscribesOf(l) = {} THEN 0 ELSE 1
      /\ Cardinality(SettledOf(l)) = IF SettledOf(l) = {} THEN 0 ELSE 1
      /\ Cardinality(AnswersOf(l)) = IF AnswersOf(l) = {} THEN 0 ELSE 1
  BY <1>1, AtMostOneCardinality DEF OneToken
<1> QED
  BY <1>1, <1>2 DEF OneToken

(* However losses, retries, slow answers and restarts meet, each lifecycle *)
(* opens one stream, and the worker holds none once it has seen the stop.  *)
THEOREM StreamIsOne == Spec => []OneStream
<1>1. IInv => OneStream
  <2> SUFFICES ASSUME IInv PROVE OneStream
    OBVIOUS
  <2>1. OneOpenPerLife
    BY TokensCount DEF IInv
  <2>2. ASSUME thread = "worker", ~running, toClient = <<>> PROVE handle = NoHandle
    <3>1. StopsIn = {}
      BY <2>2 DEF StopsIn
    <3> QED
      BY <2>2, <3>1 DEF IInv, WorkerInv, WorkerStopped
  <2> QED
    BY <2>1, <2>2 DEF OneStream, StoppedIsClosed, StopCloses
<1> QED
  BY <1>1, Invariance, PTL

(* Over the worker no change of the journal is missed: when everything is  *)
(* delivered and no refresh is due, the last refresh came after it.        *)
THEOREM NothingMissed == Spec => []CaughtUp
<1>1. IInv => CaughtUp
  <2> SUFFICES ASSUME IInv, thread = "worker", running, Delivered, ~debounce
               PROVE  refreshed = journal
    BY DEF CaughtUp
  <2>0. handle \in Nat /\ journal \in Nat /\ refreshed \in Nat /\ cursor \in Nat
    BY Bounds DEF IInv, TypeOK, StreamTypeOK, Entries, NoHandle
  <2>1. StopsIn = {} /\ \A x : ~EntryOnWay(x)
    BY DEF Delivered, StopsIn, EntryOnWay
  <2>2. handle > journal /\ handle # NoHandle
    BY <2>0 DEF Delivered, NoHandle
  <2>3. handle - 1 <= cursor
    BY <2>1, <2>2 DEF IInv, WorkerInv, WorkerCursor
  <2>4. refreshed <= journal /\ cursor <= refreshed
    BY DEF IInv, JournalInv
  <2> QED
    BY <2>0, <2>2, <2>3, <2>4
<1> QED
  BY <1>1, Invariance, PTL
=============================================================================
