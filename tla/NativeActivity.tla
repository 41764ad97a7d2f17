--------------------------- MODULE NativeActivity ---------------------------
(***************************************************************************)
(* The activity stream over the React Native client                        *)
(* (packages/react-native/src/client.ts) and the native module below it    *)
(* (WavelengthModule.kt; the iOS module has the same steps).               *)
(*                                                                         *)
(* The client runs its calls one after the other.  A call of the native    *)
(* module runs on an executor thread, each subscription has a pump thread, *)
(* and what the threads send to JavaScript arrives in the order sent.      *)
(***************************************************************************)
EXTENDS ActivityStream

CONSTANTS
    MaxPumps,       \* bound: subscriptions opened
    MaxBreaks       \* bound: subscriptions that end by themselves

ASSUME ActivityAssumption == {MaxPumps, MaxBreaks} \subseteq Nat

VARIABLES
    streamOpen,     \* the client's belief
    job,            \* the head of opChain: a call of the native module, or NoJob
    subscription,   \* the native module's field: a pump, or NoPump
    pumps,          \* the pump threads
    opened,         \* history: subscriptions opened
    breaks          \* history: subscriptions that ended by themselves

nativeVars == <<subscription, pumps, opened, breaks>>
vars == <<streamVars, journal, toClient, toEngine, streamOpen, job, nativeVars>>

NoPump == 0
NoJob == [kind |-> "none", life |-> NoLife, cursor |-> 0, at |-> "none"]

Jobs == [kind : {"none", "start", "stop"}, life : Lives \cup {NoLife},
         cursor : Entries \cup {0}, at : {"none", "native", "done", "answered"}]

Pumps == [id : 1..MaxPumps, next : 1..(MaxEntries + 1),
          at : {"next", "sending", "ending", "closing"}]

Init ==
    /\ StreamInit
    /\ streamOpen = FALSE
    /\ job = NoJob
    /\ subscription = NoPump
    /\ pumps = {}
    /\ opened = 0
    /\ breaks = 0

-----------------------------------------------------------------------------
(* The client's chain of calls                                             *)

(* openActivityStream: nothing to do while the stream is open.             *)
BeginsStart(l) ==
    /\ job = NoJob
    /\ \E c \in Entries \cup {0} :
         /\ Takes([kind |-> "start", life |-> l, cursor |-> c])
         /\ IF streamOpen
            THEN OpenResolves(l) /\ UNCHANGED job
            ELSE /\ job' = [kind |-> "start", life |-> l, cursor |-> c, at |-> "native"]
                 /\ UNCHANGED <<streamVars, journal>>
    /\ UNCHANGED <<toEngine, streamOpen, nativeVars>>

(* Mutant: the belief is corrected only by an event.                       *)
BeginsStopOpen ==
    /\ job = NoJob
    /\ Takes([kind |-> "stop"])
    /\ job' = IF streamOpen THEN [NoJob EXCEPT !.kind = "stop", !.at = "native"] ELSE NoJob
    /\ UNCHANGED <<streamVars, journal, toEngine, streamOpen, nativeVars>>

(* stopActivity: nothing to do while the stream is closed.                 *)
BeginsStop ==
    /\ job = NoJob
    /\ Takes([kind |-> "stop"])
    /\ streamOpen' = FALSE
    /\ job' = IF streamOpen THEN [NoJob EXCEPT !.kind = "stop", !.at = "native"] ELSE NoJob
    /\ UNCHANGED <<streamVars, journal, toEngine, nativeVars>>

-----------------------------------------------------------------------------
(* The native module, on an executor thread                                *)

Goes(at) == job' = [job EXCEPT !.at = at]

(* startActivity keeps a subscription that exists.                         *)
NativeStarts ==
    /\ job.kind = "start" /\ job.at = "native"
    /\ IF subscription # NoPump
       THEN UNCHANGED <<subscription, pumps, opened>>
       ELSE /\ opened < MaxPumps
            /\ opened' = opened + 1
            /\ subscription' = opened + 1
            /\ pumps' = pumps \cup {[id |-> opened + 1, next |-> job.cursor + 1, at |-> "next"]}
    /\ Goes("done")
    /\ UNCHANGED <<streamVars, journal, toClient, toEngine, streamOpen, breaks>>

NativeRefuses ==
    /\ job.kind = "start" /\ job.at = "native"
    /\ subscription = NoPump
    /\ Posts([kind |-> "refused", life |-> job.life])
    /\ Goes("answered")
    /\ UNCHANGED <<streamVars, journal, toClient, streamOpen, nativeVars>>

(* stopActivity detaches the subscription and closes it.                   *)
NativeStops ==
    /\ job.kind = "stop" /\ job.at = "native"
    /\ subscription' = NoPump
    /\ Goes("done")
    /\ UNCHANGED <<streamVars, journal, toClient, toEngine, streamOpen, pumps, opened, breaks>>

(* The promise of the call resolves, after the pump thread was started.    *)
NativeResolves ==
    /\ job.at = "done"
    /\ Posts(IF job.kind = "start" THEN [kind |-> "opened", life |-> job.life]
                                   ELSE [kind |-> "stopped"])
    /\ Goes("answered")
    /\ UNCHANGED <<streamVars, journal, toClient, streamOpen, nativeVars>>

-----------------------------------------------------------------------------
(* The pump threads.  A pump looks whether it is still attached, lets go   *)
(* of the lock, and only then sends.                                       *)

Attached(p) == subscription = p.id
Step(p, q) == pumps' = (pumps \ {p}) \cup {q}
Ends(p) == pumps' = pumps \ {p}

PumpReads(p) ==
    /\ p.at = "next"
    /\ p.next <= journal
    /\ IF Attached(p) THEN Step(p, [p EXCEPT !.at = "sending"]) ELSE Ends(p)
    /\ UNCHANGED <<streamVars, journal, toClient, toEngine, streamOpen, job, subscription, opened, breaks>>

PumpSends(p) ==
    /\ p.at = "sending"
    /\ Posts([kind |-> "entry", entry |-> p.next])
    /\ Step(p, [p EXCEPT !.at = "next", !.next = @ + 1])
    /\ UNCHANGED <<streamVars, journal, toClient, streamOpen, job, subscription, opened, breaks>>

(* next() fails: the subscription was closed, or broke.                    *)
PumpFails(p) ==
    /\ p.at = "next"
    /\ IF Attached(p)
       THEN /\ breaks < MaxBreaks
            /\ breaks' = breaks + 1
            /\ Step(p, [p EXCEPT !.at = "ending"])
       ELSE Ends(p) /\ UNCHANGED breaks
    /\ UNCHANGED <<streamVars, journal, toClient, toEngine, streamOpen, job, subscription, opened>>

PumpReports(p) ==
    /\ p.at = "ending"
    /\ Posts([kind |-> "lost"])
    /\ Step(p, [p EXCEPT !.at = "closing"])
    /\ UNCHANGED <<streamVars, journal, toClient, streamOpen, job, subscription, opened, breaks>>

(* Mutant: the field keeps a pump that is gone.                            *)
PumpClosesAttached(p) ==
    /\ p.at = "closing"
    /\ Ends(p)
    /\ UNCHANGED <<streamVars, journal, toClient, toEngine, streamOpen, job, subscription, opened, breaks>>

PumpCloses(p) ==
    /\ p.at = "closing"
    /\ Ends(p)
    /\ subscription' = IF Attached(p) THEN NoPump ELSE subscription
    /\ UNCHANGED <<streamVars, journal, toClient, toEngine, streamOpen, job, opened, breaks>>

-----------------------------------------------------------------------------
(* What arrives in JavaScript                                              *)

JobEnds == job' = NoJob /\ UNCHANGED toClient

Receive ==
    \/ \E l \in Lives :
         /\ Delivers([kind |-> "opened", life |-> l])
         /\ streamOpen' = TRUE
         /\ OpenResolves(l)
         /\ JobEnds
    \/ \E l \in Lives :
         /\ Delivers([kind |-> "refused", life |-> l])
         /\ OpenRejects(l)
         /\ job' = NoJob
         /\ UNCHANGED streamOpen
    \/ /\ Delivers([kind |-> "stopped"])
       /\ JobEnds
       /\ UNCHANGED <<streamVars, journal, streamOpen>>
    \/ \E e \in Entries :
         /\ Delivers([kind |-> "entry", entry |-> e])
         /\ NoteActivity(e)
         /\ UNCHANGED <<streamOpen, job>>
    \/ /\ Delivers([kind |-> "lost"])
       /\ streamOpen' = FALSE
       /\ NoteStreamLost
       /\ UNCHANGED job

(* A call that can begin does so in a microtask, before any event or timer *)
(* is handled.                                                             *)
Drained == job # NoJob \/ toClient = <<>>

(* The retry waits a second at least: an answer that is due comes first.   *)
AnswersHandled == job.at \notin {"done", "answered"}

Engine ==
    /\ Drained
    /\ \/ Receive
       \/ ((AnswersHandled /\ RetryFires) \/ DebounceFires) /\ UNCHANGED <<streamOpen, job>>
    /\ UNCHANGED nativeVars

Client == (\E l \in Lives : BeginsStart(l)) \/ BeginsStop

Native ==
    \/ NativeStarts \/ NativeRefuses \/ NativeStops \/ NativeResolves
    \/ \E p \in pumps : PumpReads(p) \/ PumpSends(p) \/ PumpFails(p) \/ PumpReports(p) \/ PumpCloses(p)

Next ==
    \/ Engine
    \/ Client
    \/ Native
    \/ (Start \/ Stop \/ Record) /\ UNCHANGED <<streamOpen, job, nativeVars>>

Spec == Init /\ [][Next]_vars

-----------------------------------------------------------------------------
(* Properties                                                              *)

(* At most one call of the native module runs, and fields keep their type. *)
TypeOK ==
    /\ StreamTypeOK
    /\ streamOpen \in BOOLEAN
    /\ job \in Jobs
    /\ subscription \in 0..MaxPumps
    /\ pumps \subseteq Pumps
    /\ opened \in 0..MaxPumps
    /\ breaks \in 0..MaxBreaks

Streaming(p) == Attached(p) /\ p.at \in {"next", "sending"}

(* The native module never takes a pump that is gone for an open stream,   *)
(* which would turn every later start into nothing.                        *)
AttachedLives == subscription # NoPump => \E p \in pumps : Attached(p)

(* Whenever the client knows that its stream is closed, a running engine   *)
(* has a call or a retry under way.                                        *)
ClosedIsRetried == running /\ ~streamOpen => opening = life \/ retry = life

(* The wallet never looks healthy while its updates have silently stopped: *)
(* a running stream has a pump behind it, or something that will look      *)
(* after it.                                                               *)
NeverSilent ==
    running => LossDue \/ opening = life \/ retry = life
               \/ \E p \in pumps : Streaming(p) \/ p.at = "ending"

(* Once every stop has been carried out, no subscription of a stopped      *)
(* stream is left.                                                         *)
StoppedIsClosed ==
    ~running /\ job = NoJob /\ toClient = <<>> /\ toEngine = <<>> =>
        \A p \in pumps : ~Streaming(p)

(* Starts and stops alone, without a subscription that ends by itself,     *)
(* neither silence the wallet nor leave a pump of a stopped stream.        *)
StopsAreClean == breaks = 0 => NeverSilent /\ StoppedIsClosed
=============================================================================
