--------------------------- MODULE ActivityStream ---------------------------
(***************************************************************************)
(* The engine's activity subscription                                      *)
(* (packages/core/src/engine/activity.ts): open, reopen with a backoff,    *)
(* debounce, give up.  It is started when the wallet becomes ready and     *)
(* stopped when it is not, at any time.                                    *)
(*                                                                         *)
(* The transport client is at the other end of two queues of messages: the *)
(* calls startActivity() and stopActivity(), and their answers together    *)
(* with the events of the stream.  The modules WebActivity and             *)
(* NativeActivity put a client there and compose the two.                  *)
(*                                                                         *)
(* The daemon's activity is a journal of entries 1, 2, ..., each with the  *)
(* preimage of one payment.  A subscription delivers the entries after its *)
(* cursor; cursor 0 replays all of them.                                   *)
(***************************************************************************)
EXTENDS Integers, Sequences, FiniteSets

CONSTANTS
    FailureLimit,   \* STREAM_FAILURE_LIMIT
    MaxEntries,     \* bound: entries in the journal
    MaxLives        \* bound: values of #lifecycleGeneration

ASSUME StreamAssumption ==
    /\ FailureLimit \in Nat \ {0}
    /\ {MaxEntries, MaxLives} \subseteq Nat

VARIABLES
    running,        \* #running
    life,           \* #lifecycleGeneration
    cursor,         \* #cursor
    preimages,      \* #preimages: the entries whose preimage is remembered
    failures,       \* #failures
    opening,        \* #openingGeneration, or NoLife
    retry,          \* the lifecycle an armed #retryTimer is for, or NoLife
    debounce,       \* is #debounce armed?
    refreshed,      \* the journal as of the last refresh asked of the engine
    journal,        \* the daemon's journal
    toClient,       \* calls to the client
    toEngine        \* answers and events for the engine

streamVars == <<running, life, cursor, preimages, failures, opening, retry, debounce, refreshed>>

NoLife == 0
Lives == 1..MaxLives
Entries == 1..MaxEntries

Calls == [kind : {"start"}, life : Lives, cursor : Entries \cup {0}]
         \cup [kind : {"stop"}]

Answers == [kind : {"opened", "refused"}, life : Lives]

Events == [kind : {"entry"}, entry : Entries] \cup [kind : {"lost", "stopped"}]

StreamInit ==
    /\ running = FALSE
    /\ life = 0
    /\ cursor = 0
    /\ preimages = {}
    /\ failures = 0
    /\ opening = NoLife
    /\ retry = NoLife
    /\ debounce = FALSE
    /\ refreshed = 0
    /\ journal = 0
    /\ toClient = <<>>
    /\ toEngine = <<>>

-----------------------------------------------------------------------------
(* The client's end of the queues                                          *)

Takes(call) == toClient # <<>> /\ Head(toClient) = call /\ toClient' = Tail(toClient)

Posts(message) == toEngine' = Append(toEngine, message)

Delivers(message) ==
    toEngine # <<>> /\ Head(toEngine) = message /\ toEngine' = Tail(toEngine)

-----------------------------------------------------------------------------
(* start() and stop()                                                      *)

(* Mutant: the first open does not ask for the existing entries.           *)
OpenLive(l, c) ==
    IF opening = l
    THEN UNCHANGED <<opening, toClient>>
    ELSE /\ opening' = l
         /\ toClient' = Append(toClient,
              [kind |-> "start", life |-> l, cursor |-> IF c = 0 THEN journal ELSE c])

(* #open() of lifecycle l from cursor c: one unsettled call per lifecycle. *)
Open(l, c) ==
    IF opening = l
    THEN UNCHANGED <<opening, toClient>>
    ELSE /\ opening' = l
         /\ toClient' = Append(toClient, [kind |-> "start", life |-> l, cursor |-> c])

Start ==
    /\ ~running
    /\ life < MaxLives
    /\ running' = TRUE
    /\ life' = life + 1
    /\ cursor' = 0
    /\ failures' = 0
    /\ Open(life + 1, 0)
    /\ UNCHANGED <<preimages, retry, debounce, refreshed, journal, toEngine>>

(* stop() of a stream that gave up only resets the cursor, which is        *)
(* already done: see GivesUp.                                              *)
Stop ==
    /\ running
    /\ life < MaxLives
    /\ running' = FALSE
    /\ life' = life + 1
    /\ cursor' = 0
    /\ preimages' = {}
    /\ retry' = NoLife
    /\ debounce' = FALSE
    /\ toClient' = Append(toClient, [kind |-> "stop"])
    /\ UNCHANGED <<failures, opening, refreshed, journal, toEngine>>

-----------------------------------------------------------------------------
(* The settled call of lifecycle l                                         *)

Current(l) == running /\ l = life

(* Mutant: an answer of a stopped lifecycle ends the opening of the next.  *)
AnsweredAny(l) == opening' = NoLife

Answered(l) == opening' = IF opening = l THEN NoLife ELSE opening

OpenResolves(l) ==
    /\ Answered(l)
    /\ failures' = IF Current(l) THEN 0 ELSE failures
    /\ UNCHANGED <<running, life, cursor, preimages, retry, debounce, refreshed, journal>>

(* onDead: the engine leaves 'ready' and stops the stream, which by then   *)
(* only resets its cursor.                                                 *)
GivesUp ==
    /\ running' = FALSE
    /\ retry' = NoLife
    /\ debounce' = FALSE
    /\ cursor' = 0

(* Mutant: the limit is one failure too far.                               *)
OpenRejectsOnceMore(l) ==
    /\ Answered(l)
    /\ failures' = IF Current(l) THEN failures + 1 ELSE failures
    /\ IF Current(l) /\ failures + 1 > FailureLimit
       THEN GivesUp
       ELSE /\ retry' = IF Current(l) THEN l ELSE retry
            /\ UNCHANGED <<running, debounce, cursor>>
    /\ UNCHANGED <<life, preimages, refreshed, journal, toClient>>

(* Mutant: a refused call is not retried.                                  *)
OpenRejectsOnce(l) ==
    /\ Answered(l)
    /\ failures' = IF Current(l) THEN 0 ELSE failures
    /\ UNCHANGED <<running, life, cursor, preimages, retry, debounce, refreshed, journal, toClient>>

(* Mutant: failures are not counted.                                       *)
OpenRejectsUncounted(l) ==
    /\ Answered(l)
    /\ retry' = IF Current(l) THEN l ELSE retry
    /\ UNCHANGED <<running, life, cursor, preimages, failures, debounce, refreshed, journal, toClient>>

(* #onReopenFailure.                                                       *)
OpenRejects(l) ==
    /\ Answered(l)
    /\ failures' = IF Current(l) THEN failures + 1 ELSE failures
    /\ IF Current(l) /\ failures + 1 >= FailureLimit
       THEN GivesUp
       ELSE /\ retry' = IF Current(l) THEN l ELSE retry
            /\ UNCHANGED <<running, debounce, cursor>>
    /\ UNCHANGED <<life, preimages, refreshed, journal, toClient>>

-----------------------------------------------------------------------------
(* Events of the stream, and timers                                        *)

NoteActivity(e) ==
    /\ IF running
       THEN /\ cursor' = IF e > cursor THEN e ELSE cursor
            /\ preimages' = preimages \cup {e}
            /\ debounce' = TRUE
       ELSE UNCHANGED <<cursor, preimages, debounce>>
    /\ UNCHANGED <<running, life, failures, opening, retry, refreshed, journal, toClient>>

(* Mutant: a loss while a call is unsettled is left to that call.          *)
NoteStreamLostOnce ==
    /\ IF running
       THEN refreshed' = journal /\ retry' = IF opening = life THEN retry ELSE life
       ELSE UNCHANGED <<refreshed, retry>>
    /\ UNCHANGED <<running, life, cursor, preimages, failures, opening, debounce, journal, toClient>>

(* A reconciliation at once, and a retry after the backoff.                *)
NoteStreamLost ==
    /\ IF running
       THEN refreshed' = journal /\ retry' = life
       ELSE UNCHANGED <<refreshed, retry>>
    /\ UNCHANGED <<running, life, cursor, preimages, failures, opening, debounce, journal, toClient>>

RetryFires ==
    /\ retry # NoLife
    /\ retry' = NoLife
    /\ IF Current(retry) THEN Open(retry, cursor) ELSE UNCHANGED <<opening, toClient>>
    /\ UNCHANGED <<running, life, cursor, preimages, failures, debounce, refreshed, journal, toEngine>>

(* onActivity: the settle reconciler refreshes the snapshot.               *)
DebounceFires ==
    /\ debounce
    /\ debounce' = FALSE
    /\ refreshed' = journal
    /\ UNCHANGED <<running, life, cursor, preimages, failures, opening, retry, journal,
                   toClient, toEngine>>

(* The daemon records a change.                                            *)
Record ==
    /\ journal < MaxEntries
    /\ journal' = journal + 1
    /\ UNCHANGED <<streamVars, toClient, toEngine>>

-----------------------------------------------------------------------------
(* Every field of the stream keeps its type.                               *)
StreamTypeOK ==
    /\ running \in BOOLEAN
    /\ life \in 0..MaxLives
    /\ cursor \in Entries \cup {0}
    /\ preimages \subseteq Entries
    /\ failures \in 0..FailureLimit
    /\ opening \in Lives \cup {NoLife}
    /\ retry \in Lives \cup {NoLife}
    /\ debounce \in BOOLEAN
    /\ refreshed \in 0..MaxEntries
    /\ journal \in 0..MaxEntries
    /\ toClient \in Seq(Calls)
    /\ toEngine \in Seq(Answers \cup Events)

(* The answers of lifecycle l on their way to the engine.                  *)
AnswersOf(l) ==
    {i \in 1..Len(toEngine) : toEngine[i].kind \in {"opened", "refused"} /\ toEngine[i].life = l}

CallsOf(l) ==
    {i \in 1..Len(toClient) : toClient[i].kind = "start" /\ toClient[i].life = l}

LossDue == \E i \in 1..Len(toEngine) : toEngine[i].kind = "lost"
=============================================================================
