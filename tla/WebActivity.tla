---------------------------- MODULE WebActivity -----------------------------
(***************************************************************************)
(* The activity stream over the two web clients.  A relay holds the        *)
(* daemon's subscription.  By default it runs in the worker                *)
(* (packages/web/src/wavewalletdk-worker.js) and both ends exchange        *)
(* messages in order.  In the main-thread client                           *)
(* (packages/web/src/clients/main.ts) it runs in the client itself:        *)
(* stopActivity() acts at once, a call of startActivity() goes on in a     *)
(* later turn, after ensureLoaded(), and events reach the engine in the    *)
(* turn in which they happen.                                              *)
(***************************************************************************)
EXTENDS ActivityStream, SequencesExt

CONSTANTS
    Threads,        \* where the relay may run: a subset of {"worker", "main"}
    MaxBreaks       \* bound: subscriptions that end by themselves

ASSUME RelayAssumption ==
    /\ Threads \subseteq {"worker", "main"}
    /\ MaxBreaks \in Nat

VARIABLES
    thread,         \* where the relay runs
    handle,         \* activityHandle: the next entry it delivers, or NoHandle
    stops,          \* activityGeneration
    subscribing,    \* calls of the daemon's subscribe that are unsettled, with the lifecycles that wait for them
    answering,      \* calls that are settled and not answered yet
    breaks          \* history: subscriptions that ended by themselves

relayVars == <<thread, handle, stops, subscribing, answering, breaks>>
vars == <<streamVars, journal, toClient, toEngine, relayVars>>

NoHandle == 0
Pending == [lives : SUBSET Lives, stops : 0..MaxLives, cursor : Entries \cup {0}]

Init ==
    /\ StreamInit
    /\ thread \in Threads
    /\ handle = NoHandle
    /\ stops = 0
    /\ subscribing = {}
    /\ answering = {}
    /\ breaks = 0

Settles(kind, lives) == answering' = answering \cup [kind : {kind}, life : lives]

(* startActivity: an open handle serves the new caller too, and so does a  *)
(* subscribe that is pending since the last stop.                          *)
TakesStart(l) ==
    /\ \E c \in Entries \cup {0} :
         /\ Takes([kind |-> "start", life |-> l, cursor |-> c])
         /\ IF handle # NoHandle
            THEN Settles("opened", {l}) /\ UNCHANGED subscribing
            ELSE LET joined == {s \in subscribing : s.stops = stops} IN
                 /\ subscribing' =
                      IF joined = {}
                      THEN subscribing \cup {[lives |-> {l}, stops |-> stops, cursor |-> c]}
                      ELSE (subscribing \ joined)
                           \cup {[s EXCEPT !.lives = @ \cup {l}] : s \in joined}
                 /\ UNCHANGED answering
    /\ UNCHANGED <<streamVars, journal, toEngine, thread, handle, stops, breaks>>

(* Mutant: a subscription whose stop came first is kept.                   *)
SubscribeKeeps(s) ==
    /\ s \in subscribing
    /\ subscribing' = subscribing \ {s}
    /\ handle' = s.cursor + 1
    /\ Settles("opened", s.lives)
    /\ UNCHANGED <<streamVars, journal, toClient, toEngine, thread, stops, breaks>>

(* subscribe resolves: if a stop came in between, the handle is closed.    *)
(* The pump starts at once and the answer follows some microtasks later.   *)
SubscribeResolves(s) ==
    /\ s \in subscribing
    /\ subscribing' = subscribing \ {s}
    /\ handle' = IF s.stops = stops THEN s.cursor + 1 ELSE handle
    /\ Settles("opened", s.lives)
    /\ UNCHANGED <<streamVars, journal, toClient, toEngine, thread, stops, breaks>>

SubscribeRejects(s) ==
    /\ s \in subscribing
    /\ subscribing' = subscribing \ {s}
    /\ Settles("refused", s.lives)
    /\ UNCHANGED <<streamVars, journal, toClient, toEngine, thread, handle, stops, breaks>>

PostsAnswer(a) ==
    /\ a \in answering
    /\ answering' = answering \ {a}
    /\ Posts(a)
    /\ UNCHANGED <<streamVars, journal, toClient, thread, handle, stops, subscribing, breaks>>

(* stopActivity.  In the main thread it overtakes the calls of             *)
(* startActivity() that have not gone on yet.                              *)
TakesStop ==
    /\ IF thread = "worker"
       THEN Takes([kind |-> "stop"])
       ELSE /\ toClient # <<>> /\ Last(toClient).kind = "stop"
            /\ toClient' = Front(toClient)
    /\ stops' = stops + 1
    /\ handle' = NoHandle
    /\ UNCHANGED <<streamVars, journal, toEngine, thread, subscribing, answering, breaks>>

(* An event of the stream is posted to the engine, or handled by it there  *)
(* and then.                                                               *)
Emits(event, Note) ==
    IF thread = "worker"
    THEN Posts(event) /\ UNCHANGED <<streamVars, journal, toClient>>
    ELSE Note /\ UNCHANGED toEngine

(* pumpActivity forwards the next entry ...                                *)
PumpForwards ==
    /\ handle # NoHandle
    /\ handle <= journal
    /\ Emits([kind |-> "entry", entry |-> handle], NoteActivity(handle))
    /\ handle' = handle + 1
    /\ UNCHANGED <<thread, stops, subscribing, answering, breaks>>

(* ... or reports that the stream ended or failed.                         *)
PumpEnds ==
    /\ handle # NoHandle
    /\ breaks < MaxBreaks
    /\ breaks' = breaks + 1
    /\ handle' = NoHandle
    /\ Emits([kind |-> "lost"], NoteStreamLost)
    /\ UNCHANGED <<thread, stops, subscribing, answering>>

-----------------------------------------------------------------------------
Relay ==
    \/ \E l \in Lives : TakesStart(l)
    \/ \E a \in answering : PostsAnswer(a)
    \/ \E s \in subscribing : SubscribeResolves(s) \/ SubscribeRejects(s)
    \/ PumpForwards

(* A retry waits a second at least: what the relay posted together with    *)
(* the loss, the answer of the call that opened the lost stream, is        *)
(* handled before.  A subscribe that the daemon is slow to settle is not.  *)
AnswersHandled == answering = {} /\ \A l \in Lives : AnswersOf(l) = {}

Engine ==
    /\ \/ \E l \in Lives :
            Delivers([kind |-> "opened", life |-> l]) /\ OpenResolves(l) /\ UNCHANGED toClient
       \/ \E l \in Lives : Delivers([kind |-> "refused", life |-> l]) /\ OpenRejects(l)
       \/ \E e \in Entries : Delivers([kind |-> "entry", entry |-> e]) /\ NoteActivity(e)
       \/ Delivers([kind |-> "lost"]) /\ NoteStreamLost
       \/ AnswersHandled /\ RetryFires
       \/ DebounceFires
    /\ UNCHANGED relayVars

Wallet == (Start \/ Stop) /\ UNCHANGED relayVars

(* stopActivity() of the main thread returns before anything else happens. *)
StopReturned == thread = "worker" \/ ~\E i \in 1..Len(toClient) : toClient[i].kind = "stop"

Next ==
    \/ TakesStop
    \/ /\ StopReturned
       /\ \/ Wallet
          \/ Engine
          \/ Relay
          \/ PumpEnds
          \/ Record /\ UNCHANGED relayVars

Spec == Init /\ [][Next]_vars

(* Messages are handled, timers fire, the daemon settles every subscribe.  *)
FairSpec == Spec /\ WF_vars(StopReturned /\ Engine) /\ WF_vars(TakesStop \/ (StopReturned /\ Relay))

-----------------------------------------------------------------------------
(* Properties                                                              *)

(* The relay holds one handle, and every field keeps its type.             *)
TypeOK ==
    /\ StreamTypeOK
    /\ handle \in Entries \cup {NoHandle, MaxEntries + 1}
    /\ stops \in 0..MaxLives
    /\ subscribing \subseteq Pending
    /\ answering \subseteq Answers
    /\ thread \in Threads
    /\ breaks \in 0..MaxBreaks

(* The wallet never looks healthy while its updates have silently stopped: *)
(* a stream that runs has a subscription behind it, or a call, an event or *)
(* a timer that will look after it, whatever order they come in.           *)
NeverSilent ==
    running => handle # NoHandle \/ LossDue \/ opening = life \/ retry = life

(* A loss, a retry and a restart never make a lifecycle subscribe twice.   *)
OneOpenPerLife ==
    \A l \in Lives :
        Cardinality(CallsOf(l)) + Cardinality({s \in subscribing : l \in s.lives})
            + Cardinality({a \in answering : a.life = l}) + Cardinality(AnswersOf(l)) <= 1

StopCloses == ~running /\ toClient = <<>> /\ subscribing = {} => handle = NoHandle

(* Once the worker has seen the stop, no subscription of the stopped       *)
(* stream is left, not even one that was being opened.                     *)
StoppedIsClosed == thread = "worker" => StopCloses

(* However losses, retries, slow answers and restarts meet, there is one   *)
(* stream per lifecycle while it runs, and none after it.                  *)
OneStream == OneOpenPerLife /\ StoppedIsClosed

Delivered == handle > journal /\ toClient = <<>> /\ toEngine = <<>>

(* No change of the journal is missed by a wallet over the worker, across  *)
(* losses, cursor reopens and restarts: when everything is delivered and   *)
(* no refresh is due, the last refresh came after the last change.  (Over  *)
(* the main-thread client a stream left open by StopClosesMain has         *)
(* consumed entries that nobody looked at, and is taken over.)             *)
CaughtUp ==
    thread = "worker" /\ running /\ Delivered /\ ~debounce => refreshed = journal

(* A lost stream is subscribed again, or given up, in the end.             *)
Recovers == running /\ handle = NoHandle ~> handle # NoHandle \/ ~running

-----------------------------------------------------------------------------
(* Claims of comments that the code does not keep                          *)

(* startActivity() forwards entries until stopActivity() is called: after  *)
(* stopActivity() of the main-thread client no stream is left open.        *)
StopClosesMain == thread = "main" => StopCloses

(* Preimages need not be stored, because the replay of a reopened stream   *)
(* delivers them again: a running stream knows the preimage of every entry *)
(* up to its cursor.                                                       *)
ReplayRestores == running /\ Delivered => preimages = 1..journal
=============================================================================
