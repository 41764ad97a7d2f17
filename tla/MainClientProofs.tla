-------------------------- MODULE MainClientProofs --------------------------
(***************************************************************************)
(* The safety of the main-thread clients, on any number of pages, with any *)
(* number of clients on each and any bound on the leases, proved.          *)
(***************************************************************************)
EXTENDS MainClient, TLAPS

(* What the proofs need to know of the session of one client.              *)

(* An acquire() under way is the newest lease, and its session not yet.    *)
Acquiring(c) ==
    op[c].at \in {"waiting", "granted"} =>
        /\ lock[c].kind = IF op[c].at = "waiting" THEN "acquiring" ELSE "held"
        /\ lock[c].lease = op[c].lease
        /\ lease[c] < op[c].lease
        /\ op[c].lease <= lastLease[c]

(* A grant belongs to the session, whose runtime runs, or is about to.     *)
GrantOwned(c) ==
    /\ lease[c] <= lastLease[c]
    /\ lock[c].kind # "idle" => lock[c].name = Global
    /\ Held(c) /\ op[c].at # "granted" => lock[c].lease = lease[c] /\ ~Exited(c)

(* A boot goes on under its grant until the runtime of the client exits.   *)
Booting(c) == op[c].at \in {"boot", "opened"} => Held(c) \/ Exited(c)

(* A stop carries the lease of the session, and has let go of it once the  *)
(* daemon acknowledged.                                                    *)
Stopping(c) ==
    /\ op[c].at \in {"stop", "recover"} => op[c].lease = lease[c]
    /\ op[c].at = "stopping" => ~Held(c)

(* The host sees a daemon as long as there is a grant, or an end that it   *)
(* will be told of.                                                        *)
SeenOwned(c) ==
    /\ announcing[c] => Exited(c)
    /\ seen[c] => /\ op[c].at \in {"none", "stop", "stopping"}
                  /\ Held(c) \/ Exited(c) \/ op[c].at = "stopping"

SessionInv(c) ==
    Acquiring(c) /\ GrantOwned(c) /\ Booting(c) /\ Stopping(c) /\ SeenOwned(c)

(* ... and of the runtimes.                                                *)

(* A client runs Go once, in its one load; a load ends well only with a    *)
(* bridge, and only a runtime behind a bridge opens databases.             *)
RunKnown(c) ==
    /\ run[c] # "none" => load[c] \in {"loading", "loaded", "failed"}
    /\ load[c] = "loaded" \/ run[c] = "installed" => Callable(PageOf(c))
    /\ open[c] => run[c] = "installed"

(* A call went to a bridge of the page.                                    *)
CallKnown(c) ==
    op[c].on # NoClient =>
        /\ load[c] = "loaded"
        /\ PageOf(op[c].on) = PageOf(c)
        /\ run[op[c].on] \in {"installed", "dead"}

CallerKnown(p) ==
    Callable(p) => PageOf(caller[p]) = p /\ run[caller[p]] \in {"installed", "dead"}

(* On a page that never ran two at once, the one runtime that lives is the *)
(* one every call leads to, and once it exited its client reaches no other.*)
Alone(c) ==
    LET p == PageOf(c) IN
    ~doubled[p] =>
        /\ Runs(c) /\ Callable(p) => caller[p] = c
        /\ run[c] = "installed" => caller[p] = c
        /\ Exited(c) => caller[p] = c \/ load[c] = "failed"
        /\ \A d \in Clients : PageOf(d) = p /\ Runs(c) /\ Runs(d) => d = c
        /\ op[c].on # NoClient => op[c].on = caller[p]

RuntimesInv ==
    /\ \A c \in Clients : RunKnown(c) /\ CallKnown(c) /\ Alone(c)
    /\ \A p \in Pages : CallerKnown(p)

(* A client of the page holds the lock for what a daemon of it has open.   *)
Covers(c, p) == PageOf(c) = p /\ Held(c) /\ op[c].at # "granted"

OpenCovered(p) == Opened(p) /\ ~doubled[p] => \E c \in Clients : Covers(c, p)

IInv ==
    /\ TypeOK /\ LockMatchesBrowser
    /\ \A c \in Clients : SessionInv(c)
    /\ RuntimesInv
    /\ \A p \in Pages : OpenCovered(p)
-----------------------------------------------------------------------------
LEMMA InitIInv == Init => IInv
<1> SUFFICES ASSUME Init PROVE IInv
  OBVIOUS
<1> USE MainAssumption DEF Init, LockInit, NoOp, NoLease, IdleLock
<1>1. TypeOK
  BY DEF TypeOK, LockTypeOK, LockState, Op, Leases
<1>2. LockMatchesBrowser
  BY DEF LockMatchesBrowser, Held, Clients
<1>3. ASSUME NEW c \in Clients PROVE SessionInv(c)
  BY DEF SessionInv, Acquiring, GrantOwned, Booting, Stopping, SeenOwned, Held
<1>4. RuntimesInv
  BY DEF RuntimesInv, RunKnown, CallKnown, CallerKnown, Alone, Runs, Callable, Exited, PageOf,
     Clients
<1>5. ASSUME NEW p \in Pages PROVE OpenCovered(p)
  BY DEF OpenCovered, Opened
<1> QED
  BY <1>1, <1>2, <1>3, <1>4, <1>5 DEF IInv

-----------------------------------------------------------------------------
(* The operators the actions are built from.                               *)

LEMMA ReleaseFacts ==
    ASSUME LockTypeOK, NEW c \in Clients, NEW l, Release(c, l)
    PROVE  /\ LockTypeOK'
           /\ \A d \in Clients : d # c => lock'[d] = lock[d]
           /\ lock'[c].name = lock[c].name /\ lock'[c].lease = lock[c].lease
           /\ lock'[c].kind = IF Held(c) /\ lock[c].lease = l THEN "settling" ELSE lock[c].kind
           /\ UNCHANGED <<lastLease, holder>>
<1> DEFINE new == [lock[c] EXCEPT !.kind = "settling"]
<1>1. lock[c] \in LockState
  BY DEF LockTypeOK
<1>2. /\ new \in LockState
      /\ new.kind = "settling" /\ new.name = lock[c].name /\ new.lease = lock[c].lease
  BY <1>1 DEF LockState
<1>3. lock' = [lock EXCEPT ![c] = IF Held(c) /\ lock[c].lease = l THEN new ELSE lock[c]]
  BY DEF Release, Released, Held
<1> HIDE DEF new
<1> QED
  BY <1>1, <1>2, <1>3 DEF LockTypeOK, Release, Held

LEMMA GrantFacts ==
    ASSUME LockTypeOK, NEW c \in Clients, Grant(c)
    PROVE  /\ LockTypeOK'
           /\ \A d \in Clients : d # c => lock'[d] = lock[d]
           /\ lock'[c].name = lock[c].name /\ lock'[c].lease = lock[c].lease
           /\ lock'[c].kind = "held" /\ lastLease' = lastLease
<1> DEFINE new == [lock[c] EXCEPT !.kind = "held"]
<1>1. lock[c] \in LockState
  BY DEF LockTypeOK
<1>2. /\ new \in LockState
      /\ new.kind = "held" /\ new.name = lock[c].name /\ new.lease = lock[c].lease
  BY <1>1 DEF LockState
<1>3. lock' = [lock EXCEPT ![c] = new]
  BY DEF Grant
<1>4. holder' \in [{Global} -> Clients \cup {NoClient}]
  BY DEF Grant, LockTypeOK
<1> HIDE DEF new
<1> QED
  BY <1>1, <1>2, <1>3, <1>4 DEF LockTypeOK, Grant

LEMMA GotoFacts ==
    ASSUME op \in [Clients -> Op], NEW c \in Clients, NEW at, Goto(c, at),
           at \in {"acquire", "granted", "boot", "opened", "releasing", "stopping"}
    PROVE  /\ op' \in [Clients -> Op]
           /\ \A d \in Clients : d # c => op'[d] = op[d]
           /\ op'[c].at = at /\ op'[c].lease = op[c].lease
           /\ op'[c].on = IF at = "opened" THEN op[c].on ELSE NoClient
<1> DEFINE new == [op[c] EXCEPT !.at = at, !.on = IF at = "opened" THEN @ ELSE NoClient]
<1>1. /\ new \in Op /\ new.at = at /\ new.lease = op[c].lease
      /\ new.on = IF at = "opened" THEN op[c].on ELSE NoClient
  BY DEF Op
<1>2. op' = [op EXCEPT ![c] = new]
  BY DEF Goto
<1> HIDE DEF new
<1> QED
  BY <1>1, <1>2

LEMMA FinishFacts ==
    ASSUME op \in [Clients -> Op], NEW c \in Clients, Finish(c)
    PROVE  /\ op' \in [Clients -> Op]
           /\ \A d \in Clients : d # c => op'[d] = op[d]
           /\ op'[c].at = "none" /\ op'[c].on = NoClient
  BY DEF Finish, NoOp, Op, NoLease
-----------------------------------------------------------------------------
(* Type correctness of every step.                                         *)
LEMMA ClientStepTypeOK ==
    ASSUME TypeOK, NEW c \in Clients, ClientStep(c), UNCHANGED created
    PROVE  TypeOK'
<1> USE DEF Tell, locks, runtimes, clientVars
<1>0. /\ LockTypeOK
      /\ op \in [Clients -> Op]
      /\ c[1] \in Pages /\ PageOf(c) \in Pages
      /\ created' \in Layouts
  BY DEF TypeOK, Clients, PageOf
<1>1. ASSUME LockStep(c) PROVE TypeOK'
  <2>1. CASE Free(c)
    BY <1>0, <1>1, <2>1 DEF LockStep, Free, LockTypeOK, TypeOK
  <2>2. CASE Settle(c)
    BY <1>0, <1>1, <2>2, MainAssumption
       DEF LockStep, Settle, LockTypeOK, LockState, IdleLock, NoLease, TypeOK
  <2> QED
    BY <1>1, <2>1, <2>2 DEF LockStep
<1>2. ASSUME LoadBegins(c) \/ LoadFails(c) \/ Loads(c) PROVE TypeOK'
  <2>1. CASE LoadBegins(c) \/ LoadFails(c)
    BY <1>0, <2>1 DEF LoadBegins, LoadFails, TypeOK, LockTypeOK
  <2>2. CASE Loads(c)
    <3>1. /\ run' \in [Clients -> {"none", "booting", "installed", "dead"}]
          /\ caller' \in [Pages -> Clients \cup {NoClient}]
      BY <1>0, <2>2 DEF Loads, TypeOK
    <3>2. /\ load' \in [Clients -> {"none", "fetching", "loading", "loaded", "failed"}]
          /\ doubled' \in [Pages -> BOOLEAN]
      BY <1>0, <2>2 DEF Loads, TypeOK
    <3> QED
      BY <1>0, <2>2, <3>1, <3>2 DEF Loads, TypeOK, LockTypeOK
  <2> QED
    BY <1>2, <2>1, <2>2
<1>3. ASSUME StartBegins(c) \/ Announces(c) \/ Dispose(c) PROVE TypeOK'
  BY <1>0, <1>3, GotoFacts DEF StartBegins, Announces, Dispose, TypeOK, LockTypeOK
<1>4. ASSUME StartAcquires(c) PROVE TypeOK'
  <2>1. /\ lastLease' \in [Clients -> Leases \cup {NoLease}]
        /\ lastLease'[c] \in Leases
    BY <1>0, <1>4, MainAssumption DEF StartAcquires, Request, LockTypeOK, Leases, NoLease
  <2>2. lock' \in [Clients -> LockState]
    BY <1>0, <1>4, <2>1 DEF StartAcquires, Request, LockTypeOK, LockState
  <2>3. op' \in [Clients -> Op]
    BY <1>0, <1>4, <2>1 DEF StartAcquires, Op
  <2> QED
    BY <1>0, <1>4, <2>1, <2>2, <2>3 DEF StartAcquires, Request, TypeOK, LockTypeOK
<1>5. ASSUME StartGranted(c) PROVE TypeOK'
  BY <1>0, <1>5, GrantFacts, GotoFacts DEF StartGranted, TypeOK
<1>6. ASSUME StartDenied(c) PROVE TypeOK'
  <2>1. lock' = [lock EXCEPT ![c] = IdleLock] /\ UNCHANGED <<lastLease, holder>>
    BY <1>6 DEF StartDenied, Deny, RequestFails
  <2>2. IdleLock \in LockState
    BY MainAssumption DEF IdleLock, LockState, NoLease
  <2>3. LockTypeOK'
    BY <1>0, <2>1, <2>2 DEF LockTypeOK
  <2> QED
    BY <1>0, <1>6, <2>3, FinishFacts DEF StartDenied, TypeOK
<1>7. ASSUME StartBoots(c) PROVE TypeOK'
  <2>1. lease' \in [Clients -> Leases \cup {NoLease}]
    BY <1>0, <1>7 DEF StartBoots, TypeOK, Op
  <2>2. CASE disposed[c] \/ Exited(c)
    BY <1>0, <1>7, <2>1, <2>2, ReleaseFacts, GotoFacts DEF StartBoots, TypeOK
  <2>3. CASE ~(disposed[c] \/ Exited(c))
    BY <1>0, <1>7, <2>1, <2>3, GotoFacts DEF StartBoots, TypeOK, LockTypeOK
  <2> QED
    BY <2>2, <2>3
<1>8. ASSUME DaemonOpens(c) PROVE TypeOK'
  BY <1>0, <1>8, GotoFacts DEF DaemonOpens, TypeOK, LockTypeOK
<1>9. ASSUME BootSucceeds(c) \/ StartFails(c) \/ StopFails(c) \/ StopCompletes(c) PROVE TypeOK'
  BY <1>0, <1>9, FinishFacts
     DEF BootSucceeds, StartFails, StopFails, StopCompletes, TypeOK, LockTypeOK
<1>10. ASSUME BootFails(c) PROVE TypeOK'
  <2>1. CASE ~Callable(PageOf(c))
    BY <1>0, <1>10, <2>1, ReleaseFacts, GotoFacts DEF BootFails, TypeOK
  <2>2. CASE Callable(PageOf(c))
    BY <1>0, <1>10, <2>2, FinishFacts DEF BootFails, TypeOK, LockTypeOK, Op
  <2> QED
    BY <2>1, <2>2
<1>11. ASSUME StopBegins(c) PROVE TypeOK'
  BY <1>0, <1>11 DEF StopBegins, TypeOK, LockTypeOK, Op
<1>12. ASSUME StopAcknowledged(c) PROVE TypeOK'
  BY <1>0, <1>12, ReleaseFacts, GotoFacts DEF StopAcknowledged, TypeOK
<1>13. ASSUME Calls(c) PROVE TypeOK'
  <2>1. op' \in [Clients -> Op]
    BY <1>0, <1>13 DEF Calls, TypeOK, Op
  <2> QED
    BY <1>0, <1>13, <2>1 DEF Calls, TypeOK, LockTypeOK
<1> QED
  BY <1>1, <1>2, <1>3, <1>4, <1>5, <1>6, <1>7, <1>8, <1>9, <1>10, <1>11, <1>12, <1>13
     DEF ClientStep

LEMMA RuntimeStepTypeOK ==
    ASSUME TypeOK, NEW c \in Clients, Installs(c) \/ Ready(c) \/ Exits(c), UNCHANGED created
    PROVE  TypeOK'
<1> USE DEF locks, runtimes, clientVars
<1>0. LockTypeOK /\ created' \in Layouts /\ PageOf(c) \in Pages
  BY DEF TypeOK, Clients, PageOf
<1>1. CASE Installs(c)
  BY <1>0, <1>1 DEF Installs, TypeOK, LockTypeOK
<1>2. CASE Ready(c)
  BY <1>0, <1>2 DEF Ready, TypeOK, LockTypeOK
<1>3. CASE Exits(c)
  <2>1. LockTypeOK'
    BY <1>0, <1>3, ReleaseFacts DEF Exits
  <2> QED
    BY <1>0, <1>3, <2>1 DEF Exits, TypeOK
<1> QED
  BY <1>1, <1>2, <1>3

LEMMA PageClosesTypeOK ==
    ASSUME TypeOK, NEW p \in Pages, PageCloses(p), UNCHANGED created
    PROVE  TypeOK'
<1>0. LockTypeOK /\ created' \in Layouts
  BY DEF TypeOK
<1>1. LockTypeOK'
  BY <1>0, MainAssumption DEF PageCloses, LockTypeOK, LockState, IdleLock, NoLease
<1>2. op' \in [Clients -> Op]
  BY DEF PageCloses, TypeOK, Op, NoOp, NoLease
<1>3. lease' \in [Clients -> Leases \cup {NoLease}]
  BY DEF PageCloses, TypeOK, NoLease
<1> QED
  BY <1>0, <1>1, <1>2, <1>3 DEF PageCloses, TypeOK

-----------------------------------------------------------------------------
(* What a step leaves alone.                                               *)

SameSession(d) ==
    /\ lock'[d] = lock[d] /\ lastLease'[d] = lastLease[d] /\ lease'[d] = lease[d]
    /\ op'[d] = op[d] /\ announcing'[d] = announcing[d] /\ seen'[d] = seen[d]
    /\ Exited(d)' <=> Exited(d)

(* A step of one client leaves the sessions of the others alone.           *)
LEMMA OtherSessions ==
    ASSUME TypeOK, NEW c \in Clients,
           ClientStep(c) \/ Installs(c) \/ Ready(c) \/ Exits(c),
           NEW d \in Clients, d # c
    PROVE  SameSession(d)
<1> USE DEF Tell, locks, runtimes, clientVars, SameSession, Exited
<1>0. LockTypeOK /\ op \in [Clients -> Op]
  BY DEF TypeOK
<1>1. ASSUME LockStep(c) \/ LoadBegins(c) \/ LoadFails(c) \/ Loads(c) \/ Announces(c)
             \/ Dispose(c)
      PROVE  SameSession(d)
  BY <1>0, <1>1
     DEF LockStep, Free, Settle, LoadBegins, LoadFails, Loads, Announces, Dispose, TypeOK,
         LockTypeOK
<1>2. ASSUME StartBegins(c) \/ StartAcquires(c) \/ StopBegins(c) \/ DaemonOpens(c) \/ Calls(c)
      PROVE  SameSession(d)
  BY <1>0, <1>2, GotoFacts
     DEF StartBegins, StartAcquires, Request, StopBegins, DaemonOpens, Calls, TypeOK, LockTypeOK
<1>3. ASSUME StartGranted(c) PROVE SameSession(d)
  BY <1>0, <1>3, GrantFacts, GotoFacts DEF StartGranted
<1>4. ASSUME StartDenied(c) PROVE SameSession(d)
  BY <1>0, <1>4, FinishFacts DEF StartDenied, Deny, RequestFails, LockTypeOK
<1>5. ASSUME StartBoots(c) PROVE SameSession(d)
  BY <1>0, <1>5, ReleaseFacts, GotoFacts DEF StartBoots, TypeOK
<1>6. ASSUME BootSucceeds(c) \/ StartFails(c) \/ StopFails(c) \/ StopCompletes(c)
      PROVE  SameSession(d)
  BY <1>0, <1>6, FinishFacts DEF BootSucceeds, StartFails, StopFails, StopCompletes, TypeOK
<1>7. ASSUME BootFails(c) PROVE SameSession(d)
  BY <1>0, <1>7, ReleaseFacts, GotoFacts, FinishFacts DEF BootFails
<1>8. ASSUME StopAcknowledged(c) PROVE SameSession(d)
  BY <1>0, <1>8, ReleaseFacts, GotoFacts DEF StopAcknowledged
<1>9. ASSUME Installs(c) \/ Ready(c) PROVE SameSession(d)
  BY <1>9 DEF Installs, Ready, TypeOK
<1>10. ASSUME Exits(c) PROVE SameSession(d)
  BY <1>0, <1>10, ReleaseFacts DEF Exits, TypeOK
<1> QED
  BY <1>1, <1>2, <1>3, <1>4, <1>5, <1>6, <1>7, <1>8, <1>9, <1>10 DEF ClientStep

LEMMA SameSessionInv ==
    ASSUME NEW d \in Clients, SameSession(d), SessionInv(d)
    PROVE  SessionInv(d)'
  BY DEF SameSession, SessionInv, Acquiring, GrantOwned, Booting, Stopping, SeenOwned, Held

(* The steps of a start or a stop that concern the client alone.           *)
OwnStep(c) ==
    \/ LockStep(c)
    \/ StartBegins(c) \/ StartAcquires(c) \/ StartGranted(c) \/ StartDenied(c) \/ StartBoots(c)
    \/ BootSucceeds(c) \/ BootFails(c) \/ StartFails(c)
    \/ StopBegins(c) \/ StopFails(c) \/ StopCompletes(c)
    \/ Announces(c) \/ Dispose(c)

LEMMA OwnStepIsQuiet ==
    ASSUME TypeOK, NEW c \in Clients, OwnStep(c)
    PROVE  /\ UNCHANGED <<caller, doubled, run, open, load>>
           /\ \A d \in Clients : op'[d].on \in {op[d].on, NoClient}
<1>0. op \in [Clients -> Op]
  BY DEF TypeOK
<1>1. UNCHANGED <<caller, doubled, run, open, load>>
  BY DEF OwnStep, runtimes, clientVars, LockStep, StartBegins, StartAcquires, StartGranted,
     StartDenied, StartBoots, BootSucceeds, BootFails, StartFails, StopBegins, StopFails,
     StopCompletes, Announces, Dispose
<1>2. ASSUME NEW d \in Clients PROVE op'[d].on \in {op[d].on, NoClient}
  <2>1. CASE LockStep(c) \/ Announces(c) \/ Dispose(c)
    BY <2>1 DEF LockStep, Announces, Dispose, clientVars
  <2>2. CASE StartBegins(c) \/ StartGranted(c) \/ StartBoots(c)
    BY <1>0, <2>2, GotoFacts DEF StartBegins, StartGranted, StartBoots
  <2>3. CASE StartAcquires(c) \/ StopBegins(c)
    BY <1>0, <2>3 DEF StartAcquires, StopBegins
  <2>4. CASE StartDenied(c) \/ BootSucceeds(c) \/ StartFails(c) \/ StopFails(c) \/ StopCompletes(c)
    BY <1>0, <2>4, FinishFacts DEF StartDenied, BootSucceeds, StartFails, StopFails, StopCompletes
  <2>5. CASE BootFails(c)
    BY <1>0, <2>5, GotoFacts, FinishFacts DEF BootFails
  <2> QED
    BY <2>1, <2>2, <2>3, <2>4, <2>5 DEF OwnStep
<1> QED
  BY <1>1, <1>2

-----------------------------------------------------------------------------
(* The lock and the browser.                                               *)

(* What a client does to the lock.                                         *)
LockChange(c) ==
    \/ UNCHANGED locks
    \/ Request(c, Global)
    \/ Grant(c) \/ Deny(c) \/ RequestFails(c)
    \/ \E l \in Leases \cup {NoLease} : Release(c, l)
    \/ Free(c) \/ Settle(c)

(* The client and the browser agree on what the client holds.              *)
Matches(d) ==
    /\ Held(d) => holder[Global] = d
    /\ holder[Global] = d => lock[d].kind \in {"held", "settling"}

NamesGlobal == \A d \in Clients : lock[d].kind # "idle" => lock[d].name = Global

LEMMA MatchesAll ==
    ASSUME NamesGlobal
    PROVE  LockMatchesBrowser <=> (WebLocks => \A d \in Clients : Matches(d))
  BY DEF LockMatchesBrowser, Matches, Held, NamesGlobal

(* None of it parts the lock from the browser.                             *)
LEMMA LockChangeMatches ==
    ASSUME LockTypeOK, LockMatchesBrowser, NamesGlobal, NamesGlobal',
           NEW c \in Clients, LockChange(c)
    PROVE  LockMatchesBrowser'
<1> SUFFICES ASSUME WebLocks, NEW d \in Clients PROVE Matches(d)'
  BY MatchesAll DEF LockMatchesBrowser, Matches, Held, NamesGlobal
<1>0. Matches(c) /\ Matches(d) /\ NoClient # d /\ NoClient # c
  BY MatchesAll, MainAssumption DEF Clients
<1>1. CASE UNCHANGED locks
  BY <1>0, <1>1 DEF Matches, Held, locks
<1>2. CASE Request(c, Global)
  BY <1>0, <1>2 DEF Request, Matches, Held, LockTypeOK
<1>3. CASE Grant(c)
  <2>1. holder' = [holder EXCEPT ![Global] = c] /\ holder[Global] = NoClient
    BY <1>3 DEF Grant, NamesGlobal
  <2> QED
    BY <1>0, <1>3, <2>1, GrantFacts DEF Matches, Held, LockTypeOK
<1>4. CASE Deny(c) \/ RequestFails(c)
  BY <1>0, <1>4 DEF Deny, RequestFails, Matches, Held, LockTypeOK, IdleLock
<1>5. ASSUME NEW l \in Leases \cup {NoLease}, Release(c, l) PROVE Matches(d)'
  BY <1>0, <1>5, ReleaseFacts DEF Matches, Held
<1>6. CASE Free(c)
  <2>1. holder' = [holder EXCEPT ![Global] = NoClient] /\ lock' = lock
    BY <1>6 DEF Free, Settling, NamesGlobal
  <2> QED
    BY <1>0, <1>6, <2>1 DEF Free, Settling, Matches, Held, LockTypeOK, NamesGlobal
<1>7. CASE Settle(c)
  BY <1>0, <1>7 DEF Settle, Settling, Matches, Held, LockTypeOK, IdleLock, NamesGlobal
<1> QED
  BY <1>1, <1>2, <1>3, <1>4, <1>5, <1>6, <1>7 DEF LockChange

LEMMA StepChangesLock ==
    ASSUME TypeOK, NEW c \in Clients,
           ClientStep(c) \/ Installs(c) \/ Ready(c) \/ Exits(c)
    PROVE  LockChange(c)
<1>0. op[c].lease \in Leases \cup {NoLease} /\ lease[c] \in Leases \cup {NoLease}
  BY DEF TypeOK, Op
<1> QED
  BY <1>0 DEF LockChange, ClientStep, LockStep, LoadBegins, LoadFails, Loads, Calls,
     StartBegins, StartAcquires, StartGranted, StartDenied, StartBoots, DaemonOpens,
     BootSucceeds, BootFails, StartFails, StopBegins, StopAcknowledged, StopFails,
     StopCompletes, Announces, Dispose, Installs, Ready, Exits

-----------------------------------------------------------------------------
(* A step of a client keeps the invariant of its session.                  *)
LEMMA OwnSession ==
    ASSUME TypeOK, NEW c \in Clients, SessionInv(c), RunKnown(c),
           ClientStep(c) \/ Installs(c) \/ Ready(c)
    PROVE  SessionInv(c)'
<1> USE DEF Tell, locks, runtimes, clientVars, SessionInv, Acquiring, GrantOwned, Booting,
            Stopping, SeenOwned, Held, Settling, Exited
<1>0. /\ LockTypeOK
      /\ op \in [Clients -> Op]
      /\ lastLease[c] \in Nat /\ lease[c] \in Nat /\ op[c].lease \in Nat
      /\ PageOf(c) \in Pages
  BY MainAssumption DEF TypeOK, LockTypeOK, Leases, NoLease, Op, Clients, PageOf
<1>1. CASE LockStep(c)
  BY <1>0, <1>1 DEF LockStep, Free, Settle, LockTypeOK, IdleLock
<1>2. CASE Loads(c) \/ Installs(c)
  <2>1. run[c] # "dead" /\ run'[c] # "dead"
    BY <1>2 DEF Loads, Installs, RunKnown, TypeOK
  <2> QED
    BY <1>2, <2>1 DEF Loads, Installs
<1>3. CASE LoadBegins(c) \/ LoadFails(c) \/ Ready(c) \/ Announces(c) \/ Dispose(c)
  BY <1>0, <1>3 DEF LoadBegins, LoadFails, Ready, Announces, Dispose, TypeOK
<1>4. CASE StartBegins(c)
  BY <1>0, <1>4, GotoFacts DEF StartBegins
<1>5. CASE StartAcquires(c)
  BY <1>0, <1>5 DEF StartAcquires, Request, LockTypeOK
<1>6. CASE StartGranted(c)
  BY <1>0, <1>6, GrantFacts, GotoFacts DEF StartGranted
<1>7. CASE StartDenied(c)
  BY <1>0, <1>7, FinishFacts DEF StartDenied, Deny, RequestFails, LockTypeOK, IdleLock
<1>8. CASE StartBoots(c)
  <2>1. CASE disposed[c] \/ Exited(c)
    BY <1>0, <1>8, <2>1, ReleaseFacts, GotoFacts DEF StartBoots, TypeOK
  <2>2. CASE ~(disposed[c] \/ Exited(c))
    BY <1>0, <1>8, <2>2, GotoFacts DEF StartBoots, TypeOK
  <2> QED
    BY <2>1, <2>2
<1>9. CASE DaemonOpens(c)
  BY <1>0, <1>9, GotoFacts DEF DaemonOpens
<1>10. CASE BootSucceeds(c)
  BY <1>0, <1>10, FinishFacts DEF BootSucceeds, TypeOK
<1>11. CASE BootFails(c)
  <2>1. CASE ~Callable(PageOf(c))
    BY <1>0, <1>11, <2>1, ReleaseFacts, GotoFacts DEF BootFails
  <2>2. CASE Callable(PageOf(c)) /\ Exited(c)
    BY <1>0, <1>11, <2>2, FinishFacts DEF BootFails
  <2>3. CASE Callable(PageOf(c)) /\ ~Exited(c)
    BY <1>0, <1>11, <2>3 DEF BootFails
  <2> QED
    BY <2>1, <2>2, <2>3
<1>12. CASE StartFails(c) \/ StopFails(c)
  BY <1>0, <1>12, FinishFacts DEF StartFails, StopFails
<1>13. CASE StopBegins(c)
  BY <1>0, <1>13 DEF StopBegins
<1>14. CASE StopAcknowledged(c)
  BY <1>0, <1>14, ReleaseFacts, GotoFacts DEF StopAcknowledged
<1>15. CASE StopCompletes(c)
  BY <1>0, <1>15, FinishFacts DEF StopCompletes, TypeOK
<1>16. CASE Calls(c)
  BY <1>0, <1>16 DEF Calls
<1> QED
  BY <1>1, <1>2, <1>3, <1>4, <1>5, <1>6, <1>7, <1>8, <1>9, <1>10, <1>11, <1>12, <1>13,
     <1>14, <1>15, <1>16 DEF ClientStep

(* The exit of a runtime lets go of the lock of its client's session.      *)
LEMMA ExitSession ==
    ASSUME TypeOK, NEW c \in Clients, SessionInv(c), Exits(c)
    PROVE  SessionInv(c)'
<1>0. LockTypeOK /\ lease[c] \in Nat /\ op[c].lease \in Nat
  BY MainAssumption DEF TypeOK, Op, Leases, NoLease
<1>1. /\ lock'[c].name = lock[c].name /\ lock'[c].lease = lock[c].lease
      /\ lock'[c].kind = IF Held(c) /\ lock[c].lease = lease[c] THEN "settling" ELSE lock[c].kind
      /\ UNCHANGED <<lastLease, lease, op, seen>>
  BY <1>0, ReleaseFacts DEF Exits
<1>2. ~Exited(c) /\ Exited(c)'
  BY DEF Exits, Runs, Exited, TypeOK
<1> QED
  BY <1>0, <1>1, <1>2 DEF SessionInv, Acquiring, GrantOwned, Booting, Stopping, SeenOwned, Held

-----------------------------------------------------------------------------
(* A step of a client keeps what is known of the runtimes.                 *)

LEMMA QuietRuntimes ==
    ASSUME TypeOK, RuntimesInv, UNCHANGED <<caller, doubled, run>>,
           \A d \in Clients : open'[d] => open[d] \/ run[d] = "installed",
           \A d \in Clients :
              \/ load'[d] = load[d]
              \/ /\ load[d] \notin {"loaded", "failed"}
                 /\ load'[d] # "loaded" => run[d] = "none"
                 /\ load'[d] = "loaded" => Callable(PageOf(d)),
           \A d \in Clients :
              \/ op'[d].on \in {op[d].on, NoClient}
              \/ load[d] = "loaded" /\ op'[d].on = caller[PageOf(d)]
    PROVE  RuntimesInv'
<1>1. ASSUME NEW d \in Clients PROVE RunKnown(d)'
  BY DEF RuntimesInv, RunKnown, Callable, PageOf
<1>2. ASSUME NEW d \in Clients PROVE CallKnown(d)'
  <2>1. PageOf(d) \in Pages /\ RunKnown(d) /\ CallKnown(d) /\ CallerKnown(PageOf(d))
    BY DEF RuntimesInv, PageOf, Clients
  <2> QED
    BY <2>1 DEF RunKnown, CallKnown, CallerKnown, Callable
<1>3. ASSUME NEW d \in Clients PROVE Alone(d)'
  <2>1. Alone(d) /\ RunKnown(d)
    BY DEF RuntimesInv
  <2> QED
    BY <2>1 DEF Alone, RunKnown, Runs, Callable, Exited, PageOf
<1>4. ASSUME NEW q \in Pages PROVE CallerKnown(q)'
  BY DEF RuntimesInv, CallerKnown, Callable, PageOf
<1> QED
  BY <1>1, <1>2, <1>3, <1>4 DEF RuntimesInv

LEMMA LoadsRuntimes ==
    ASSUME TypeOK, RuntimesInv, NEW c \in Clients, Loads(c)
    PROVE  RuntimesInv'
<1> DEFINE p == PageOf(c)
<1>0. /\ p \in Pages /\ load[c] = "fetching" /\ run[c] = "none"
      /\ c # NoClient
  BY MainAssumption DEF Loads, RuntimesInv, RunKnown, TypeOK, Clients, PageOf
<1>1. /\ run'[c] \in {"booting", "installed"}
      /\ caller'[p] \in {caller[p], c}
      /\ run'[c] = "installed" => caller'[p] = c
      /\ run'[c] = "booting" => caller'[p] = caller[p]
      /\ load'[c] = IF caller'[p] # NoClient THEN "loaded" ELSE "loading"
      /\ doubled'[p] = (doubled[p] \/ Occupied(p))
      /\ UNCHANGED <<open, op>>
  BY <1>0 DEF Loads, TypeOK, clientVars
<1>2. /\ \A d \in Clients : d # c => run'[d] = run[d] /\ load'[d] = load[d]
      /\ \A q \in Pages : q # p => caller'[q] = caller[q] /\ doubled'[q] = doubled[q]
  BY <1>0 DEF Loads, TypeOK
<1>3. Callable(p) => Callable(p)'
  BY <1>0, <1>1 DEF Callable
<1>4. ASSUME NEW d \in Clients PROVE RunKnown(d)'
  <2>1. RunKnown(d) /\ PageOf(d) \in Pages /\ PageOf(d)' = PageOf(d)
    BY DEF RuntimesInv, PageOf, Clients
  <2>2. CASE d = c
    BY <1>0, <1>1, <2>1, <2>2 DEF RunKnown, Callable
  <2>3. CASE d # c
    BY <1>1, <1>2, <1>3, <2>1, <2>3 DEF RunKnown, Callable
  <2> QED
    BY <2>2, <2>3
<1>5. ASSUME NEW d \in Clients, op[d].on # NoClient
      PROVE  /\ op[d].on # c /\ d # c /\ op[d].on \in Clients
             /\ PageOf(op[d].on) = PageOf(d) /\ load[d] = "loaded"
             /\ run[op[d].on] \in {"installed", "dead"}
  BY <1>0, <1>5 DEF RuntimesInv, CallKnown, TypeOK, Op
<1>6. ASSUME NEW d \in Clients PROVE CallKnown(d)'
  BY <1>1, <1>2, <1>5 DEF CallKnown, PageOf
<1>7. ASSUME NEW q \in Pages PROVE CallerKnown(q)'
  <2>1. CallerKnown(q) /\ caller[q] \in Clients \cup {NoClient}
    BY DEF RuntimesInv, TypeOK
  <2> QED
    BY <1>0, <1>1, <1>2, <2>1 DEF CallerKnown, Callable, PageOf
<1>8. ASSUME NEW d \in Clients PROVE Alone(d)'
  <2>1. Alone(d) /\ PageOf(d) \in Pages /\ RunKnown(d) /\ PageOf(d)' = PageOf(d)
    BY DEF RuntimesInv, PageOf, Clients
  <2>2. CASE PageOf(d) # p
    <3>1. /\ d # c /\ \A e \in Clients : PageOf(e) = PageOf(d) => e # c
      BY <2>2
    <3> QED
      BY <1>1, <1>2, <2>1, <2>2, <3>1 DEF Alone, Runs, Callable, Exited, PageOf
  <2>3. CASE PageOf(d) = p /\ ~doubled'[p]
    <3>1. /\ caller[p] = NoClient /\ ~doubled[p]
          /\ \A e \in Clients : PageOf(e) = p => ~Runs(e)
      BY <1>1, <2>3 DEF Occupied, Callable, TypeOK
    <3>2. op[d].on = NoClient
      BY <2>1, <2>3, <3>1 DEF Alone, TypeOK, RuntimesInv, CallKnown, RunKnown, Callable
    <3>3. \A e \in Clients : PageOf(e) = p /\ e # c => ~Runs(e)'
      BY <1>2, <3>1 DEF Runs
    <3>4. CASE d = c
      BY <1>1, <2>1, <2>3, <3>1, <3>2, <3>3, <3>4 DEF Alone, Runs, Exited, Callable, PageOf
    <3>5. CASE d # c
      BY <1>1, <1>2, <2>1, <2>3, <3>1, <3>2, <3>3, <3>5, MainAssumption
         DEF Alone, Runs, Exited, Callable, PageOf, Clients
    <3> QED
      BY <3>4, <3>5
  <2>4. CASE PageOf(d) = p /\ doubled'[p]
    BY <2>1, <2>4 DEF Alone
  <2> QED
    BY <2>2, <2>3, <2>4
<1> QED
  BY <1>4, <1>6, <1>7, <1>8 DEF RuntimesInv

LEMMA InstallsRuntimes ==
    ASSUME TypeOK, RuntimesInv, NEW c \in Clients, Installs(c)
    PROVE  RuntimesInv'
<1> DEFINE p == PageOf(c)
<1>0. p \in Pages /\ c # NoClient /\ run[c] = "booting" /\ RunKnown(c) /\ Alone(c)
  BY MainAssumption DEF Installs, RuntimesInv, TypeOK, Clients, PageOf
<1>1. /\ run'[c] = "installed" /\ caller'[p] = c
      /\ \A d \in Clients : d # c => run'[d] = run[d]
      /\ \A q \in Pages : q # p => caller'[q] = caller[q]
      /\ UNCHANGED <<load, doubled, open, op>>
  BY <1>0 DEF Installs, TypeOK, clientVars
<1>2. ASSUME NEW d \in Clients PROVE RunKnown(d)'
  BY <1>0, <1>1 DEF RuntimesInv, RunKnown, Callable, PageOf, Clients
<1>3. ASSUME NEW d \in Clients PROVE CallKnown(d)'
  <2>1. CallKnown(d) /\ op[d].on \in Clients \cup {NoClient}
    BY DEF RuntimesInv, TypeOK, Op
  <2> QED
    BY <1>0, <1>1, <2>1 DEF CallKnown, PageOf
<1>4. ASSUME NEW q \in Pages PROVE CallerKnown(q)'
  <2>1. CallerKnown(q) /\ caller[q] \in Clients \cup {NoClient}
    BY DEF RuntimesInv, TypeOK
  <2> QED
    BY <1>0, <1>1, <2>1 DEF CallerKnown, Callable, PageOf
<1>5. ASSUME NEW d \in Clients PROVE Alone(d)'
  <2>1. Alone(d) /\ PageOf(d) \in Pages /\ PageOf(d)' = PageOf(d)
    BY DEF RuntimesInv, PageOf, Clients
  <2>2. \A e \in Clients : Runs(e)' <=> Runs(e)
    BY <1>0, <1>1 DEF Runs
  <2>3. CASE PageOf(d) # p
    BY <1>1, <2>1, <2>2, <2>3 DEF Alone, Callable, Exited, PageOf
  <2>4. CASE PageOf(d) = p /\ ~doubled[p]
    <3>1. /\ caller[p] = NoClient
          /\ \A e \in Clients : PageOf(e) = p /\ Runs(e) => e = c
      <4>1. CallerKnown(p)
        BY <1>0 DEF RuntimesInv
      <4> QED
        BY <1>0, <2>4, <4>1 DEF Alone, Runs, Callable, CallerKnown
    <3>2. op[d].on = NoClient
      BY <2>1, <2>4, <3>1 DEF RuntimesInv, CallKnown, RunKnown, Callable
    <3>3. Exited(d)' => load[d] = "failed"
      BY <1>0, <1>1, <2>1, <2>4, <3>1, MainAssumption DEF Alone, Exited, Clients
    <3> QED
      BY <1>1, <2>1, <2>2, <2>4, <3>1, <3>2, <3>3 DEF Alone, Runs, Exited, PageOf
  <2>5. CASE PageOf(d) = p /\ doubled[p]
    BY <1>1, <2>1, <2>5 DEF Alone
  <2> QED
    BY <2>3, <2>4, <2>5
<1> QED
  BY <1>2, <1>3, <1>4, <1>5 DEF RuntimesInv

LEMMA ExitsRuntimes ==
    ASSUME TypeOK, RuntimesInv, NEW c \in Clients, Exits(c)
    PROVE  RuntimesInv'
<1> DEFINE p == PageOf(c)
<1>0. p \in Pages /\ Runs(c) /\ RunKnown(c) /\ Alone(c)
  BY DEF Exits, RuntimesInv, Clients, PageOf
<1>1. /\ run'[c] = "dead" /\ ~open'[c]
      /\ load'[c] = IF load[c] = "loading" THEN "failed" ELSE load[c]
      /\ \A d \in Clients : d # c => /\ run'[d] = run[d] /\ load'[d] = load[d]
                                     /\ open'[d] = open[d]
      /\ UNCHANGED <<caller, doubled, op>>
  BY DEF Exits, TypeOK
<1>2. ASSUME NEW d \in Clients PROVE RunKnown(d)'
  BY <1>0, <1>1 DEF RuntimesInv, RunKnown, Runs, Callable, PageOf
<1>3. ASSUME NEW d \in Clients PROVE CallKnown(d)'
  <2>1. CallKnown(d) /\ op[d].on \in Clients \cup {NoClient}
    BY DEF RuntimesInv, TypeOK, Op
  <2> QED
    BY <1>0, <1>1, <2>1 DEF CallKnown, PageOf
<1>4. ASSUME NEW q \in Pages PROVE CallerKnown(q)'
  <2>1. CallerKnown(q) /\ caller[q] \in Clients \cup {NoClient}
    BY DEF RuntimesInv, TypeOK
  <2> QED
    BY <1>0, <1>1, <2>1 DEF CallerKnown, Callable, PageOf
<1>5. ASSUME NEW d \in Clients PROVE Alone(d)'
  <2>1. Alone(d) /\ PageOf(d)' = PageOf(d)
    BY DEF RuntimesInv, PageOf
  <2>2. \A e \in Clients : Runs(e)' => Runs(e)
    BY <1>0, <1>1 DEF Runs
  <2>3. CASE d # c
    BY <1>1, <2>1, <2>2, <2>3 DEF Alone, Callable, Exited, PageOf
  <2>4. CASE d = c
    <3>1. ~Runs(c)' /\ run'[c] # "installed"
      BY <1>1 DEF Runs
    <3>2. ~doubled[p] => caller[p] = c \/ load'[c] = "failed"
      BY <1>0, <1>1 DEF Alone, RunKnown, Runs
    <3> QED
      BY <1>1, <2>1, <2>4, <3>1, <3>2 DEF Alone, Exited, PageOf
  <2> QED
    BY <2>3, <2>4
<1> QED
  BY <1>2, <1>3, <1>4, <1>5 DEF RuntimesInv

LEMMA StepRuntimes ==
    ASSUME TypeOK, RuntimesInv, NEW c \in Clients,
           ClientStep(c) \/ Installs(c) \/ Ready(c) \/ Exits(c)
    PROVE  RuntimesInv'
<1>0. op \in [Clients -> Op] /\ RunKnown(c) /\ CallKnown(c) /\ PageOf(c) \in Pages
  BY DEF TypeOK, RuntimesInv, PageOf, Clients
<1>1. CASE OwnStep(c)
  BY <1>1, OwnStepIsQuiet, QuietRuntimes
<1>2. CASE Calls(c)
  <2>1. /\ UNCHANGED <<caller, doubled, run, open, load>>
        /\ load[c] = "loaded" /\ op'[c].on = caller[PageOf(c)]
        /\ \A d \in Clients : d # c => op'[d] = op[d]
    BY <1>0, <1>2 DEF Calls, runtimes, Op
  <2> QED
    BY <2>1, QuietRuntimes
<1>3. CASE DaemonOpens(c) \/ StopAcknowledged(c)
  <2>1. /\ UNCHANGED <<caller, doubled, run, load>>
        /\ \A d \in Clients : op'[d].on \in {op[d].on, NoClient}
    BY <1>0, <1>3, GotoFacts DEF DaemonOpens, StopAcknowledged
  <2>2. op[c].on # NoClient /\ Runs(op[c].on)
    BY <1>3 DEF DaemonOpens, StopAcknowledged, Answers
  <2>3. run[op[c].on] = "installed"
    BY <1>0, <2>2 DEF CallKnown, Runs
  <2>4. \A d \in Clients : open'[d] => open[d] \/ run[d] = "installed"
    BY <1>3, <2>3 DEF DaemonOpens, StopAcknowledged, TypeOK
  <2> QED
    BY <2>1, <2>4, QuietRuntimes
<1>4. CASE LoadBegins(c) \/ LoadFails(c)
  <2>1. /\ UNCHANGED <<caller, doubled, run, open, op>>
        /\ \A d \in Clients : d # c => load'[d] = load[d]
        /\ load[c] \in {"none", "fetching"}
        /\ load'[c] = "loaded" => Callable(PageOf(c))
    BY <1>4 DEF LoadBegins, LoadFails, runtimes, TypeOK
  <2>2. run[c] = "none"
    BY <1>0, <2>1 DEF RunKnown
  <2> QED
    BY <2>1, <2>2, QuietRuntimes
<1>5. CASE Ready(c)
  <2>1. /\ UNCHANGED <<caller, doubled, run, open, op>>
        /\ \A d \in Clients :
             \/ load'[d] = load[d]
             \/ load[d] = "loading" /\ load'[d] = "loaded" /\ PageOf(d) = PageOf(c)
    BY <1>5 DEF Ready, runtimes
  <2>2. Callable(PageOf(c))
    <3>1. run[c] = "installed"
      BY <1>5 DEF Ready
    <3> QED
      BY <1>0, <3>1 DEF RunKnown
  <2> QED
    BY <2>1, <2>2, QuietRuntimes
<1> QED
  BY <1>1, <1>2, <1>3, <1>4, <1>5, LoadsRuntimes, InstallsRuntimes, ExitsRuntimes
     DEF ClientStep, OwnStep
-----------------------------------------------------------------------------
(* A step of a client keeps what is open covered.                          *)

(* On a page that never ran two runtimes at once, what a client reaches    *)
(* with its call is open under that client's own lock.                     *)
LEMMA OpensHeld ==
    ASSUME TypeOK, RuntimesInv, NEW c \in Clients, SessionInv(c), DaemonOpens(c),
           ~doubled[PageOf(c)]
    PROVE  Held(c)
<1>1. /\ op[c].at = "boot" /\ op[c].on # NoClient /\ Runs(op[c].on)
      /\ CallKnown(c) /\ Alone(c)
  BY DEF DaemonOpens, Answers, RuntimesInv
<1>2. load[c] = "loaded" /\ op[c].on = caller[PageOf(c)]
  BY <1>1 DEF CallKnown, Alone
<1>3. ~Exited(c)
  BY <1>1, <1>2 DEF Alone, Exited, Runs
<1> QED
  BY <1>1, <1>3 DEF SessionInv, Booting

(* Only what ends the databases takes their cover away.                    *)
LEMMA StepKeepsCover ==
    ASSUME TypeOK, NEW c \in Clients, SessionInv(c), ClientStep(c), ~StopAcknowledged(c),
           Callable(PageOf(c)), Covers(c, PageOf(c))
    PROVE  Covers(c, PageOf(c))'
<1> USE DEF locks, clientVars, SessionInv, Covers, Held, Settling, PageOf
<1>0. LockTypeOK /\ op \in [Clients -> Op]
  BY DEF TypeOK
<1>1. CASE LockStep(c) \/ LoadBegins(c) \/ LoadFails(c) \/ Loads(c) \/ Announces(c) \/ Dispose(c)
  BY <1>1 DEF LockStep, Free, Settle, LoadBegins, LoadFails, Loads, Announces, Dispose
<1>2. CASE StartBegins(c) \/ StartAcquires(c) \/ StartGranted(c) \/ StartDenied(c)
  BY <1>0, <1>2, GotoFacts DEF StartBegins, StartAcquires, Request, StartGranted, Grant, StartDenied,
     Deny, RequestFails
<1>3. CASE StartBoots(c)
  BY <1>3 DEF StartBoots
<1>4. CASE DaemonOpens(c)
  BY <1>0, <1>4, GotoFacts DEF DaemonOpens
<1>5. CASE BootSucceeds(c) \/ StartFails(c) \/ StopFails(c) \/ StopCompletes(c)
  BY <1>0, <1>5, FinishFacts DEF BootSucceeds, StartFails, StopFails, StopCompletes
<1>6. CASE BootFails(c)
  BY <1>0, <1>6, FinishFacts DEF BootFails
<1>7. CASE StopBegins(c)
  BY <1>0, <1>7 DEF StopBegins
<1>8. CASE Calls(c)
  BY <1>0, <1>8 DEF Calls, Op
<1> QED
  BY <1>1, <1>2, <1>3, <1>4, <1>5, <1>6, <1>7, <1>8 DEF ClientStep

(* What a step opens, and on which page.                                   *)
LEMMA StepOpens ==
    ASSUME TypeOK, RuntimesInv, NEW c \in Clients,
           ClientStep(c) \/ Installs(c) \/ Ready(c) \/ Exits(c),
           NEW p \in Pages
    PROVE  /\ doubled[p] => doubled'[p]
           /\ p # PageOf(c) => (doubled'[p] <=> doubled[p]) /\ (Opened(p)' <=> Opened(p))
           /\ ~DaemonOpens(c) /\ Opened(p)' => Opened(p)
<1>0. /\ op \in [Clients -> Op] /\ PageOf(c) \in Pages /\ CallKnown(c)
      /\ open \in [Clients -> BOOLEAN]
  BY DEF TypeOK, RuntimesInv, PageOf, Clients
<1>1. CASE OwnStep(c) \/ LoadBegins(c) \/ LoadFails(c) \/ Calls(c) \/ Ready(c) \/ Installs(c)
  <2>1. UNCHANGED <<doubled, open>>
    BY <1>1, OwnStepIsQuiet DEF LoadBegins, LoadFails, Calls, Ready, Installs, runtimes
  <2> QED
    BY <2>1 DEF Opened, PageOf
<1>2. CASE Loads(c)
  <2>1. /\ doubled' = [doubled EXCEPT ![PageOf(c)] = @ \/ Occupied(PageOf(c))]
        /\ UNCHANGED open
    BY <1>2 DEF Loads
  <2>2. doubled \in [Pages -> BOOLEAN]
    BY DEF TypeOK
  <2> QED
    BY <1>0, <2>1, <2>2 DEF Opened, PageOf
<1>3. CASE DaemonOpens(c) \/ StopAcknowledged(c)
  <2>1. /\ doubled' = doubled
        /\ op[c].on \in Clients /\ PageOf(op[c].on) = PageOf(c)
        /\ open' = [open EXCEPT ![op[c].on] = open'[op[c].on]]
        /\ ~DaemonOpens(c) => ~open'[op[c].on]
    BY <1>0, <1>3 DEF DaemonOpens, StopAcknowledged, Answers, CallKnown, Op
  <2>2. /\ \A d \in Clients : d # op[c].on => open'[d] = open[d]
        /\ \A d \in Clients : ~DaemonOpens(c) /\ open'[d] => open[d]
    BY <1>0, <2>1
  <2> QED
    BY <2>1, <2>2 DEF Opened, PageOf
<1>4. CASE Exits(c)
  <2>1. doubled' = doubled /\ open' = [open EXCEPT ![c] = FALSE]
    BY <1>4 DEF Exits
  <2> QED
    BY <1>0, <2>1 DEF Opened, PageOf
<1> QED
  BY <1>1, <1>2, <1>3, <1>4 DEF ClientStep, OwnStep

LEMMA StepOpenCovered ==
    ASSUME TypeOK, RuntimesInv, NEW c \in Clients, SessionInv(c),
           ClientStep(c) \/ Installs(c) \/ Ready(c) \/ Exits(c),
           NEW p \in Pages, OpenCovered(p)
    PROVE  OpenCovered(p)'
<1> SUFFICES ASSUME Opened(p)', ~doubled'[p] PROVE \E d \in Clients : Covers(d, p)'
  BY DEF OpenCovered
<1>0. /\ LockTypeOK /\ op \in [Clients -> Op] /\ PageOf(c) \in Pages
      /\ ~doubled[p] /\ open \in [Clients -> BOOLEAN]
  BY StepOpens DEF TypeOK, Clients, PageOf
<1>1. CASE DaemonOpens(c) /\ p = PageOf(c)
  <2>1. Held(c)
    BY <1>0, <1>1, OpensHeld
  <2>2. Covers(c, p)'
    BY <1>0, <1>1, <2>1, GotoFacts DEF DaemonOpens, locks, Covers, Held, PageOf
  <2> QED
    BY <2>2
<1>2. ASSUME ~(DaemonOpens(c) /\ p = PageOf(c)) PROVE Opened(p)
  BY <1>2, StepOpens
<1>3. CASE (StopAcknowledged(c) \/ Exits(c)) /\ p = PageOf(c)
  <2>1. PICK e \in Clients : PageOf(e) = p /\ open'[e]
    BY DEF Opened, PageOf
  <2>2. Alone(c) /\ Alone(e) /\ RunKnown(e) /\ CallKnown(c)
    BY DEF RuntimesInv
  <2>3. CASE Exits(c)
    <3>1. e # c /\ open[e] /\ Runs(c)
      BY <1>0, <2>1, <2>3 DEF Exits
    <3> QED
      BY <1>0, <1>3, <2>1, <2>2, <3>1 DEF Alone, RunKnown, Runs
  <2>4. CASE StopAcknowledged(c)
    <3>1. op[c].on \in Clients /\ op[c].on # NoClient
      BY <1>0, <2>4 DEF StopAcknowledged, Answers, Op
    <3>2. e # op[c].on /\ open[e]
      BY <1>0, <2>1, <2>4, <3>1 DEF StopAcknowledged
    <3> QED
      BY <1>0, <1>3, <2>1, <2>2, <3>1, <3>2 DEF Alone, RunKnown
  <2> QED
    BY <1>3, <2>3, <2>4
<1>4. CASE /\ ~(DaemonOpens(c) /\ p = PageOf(c))
           /\ ~((StopAcknowledged(c) \/ Exits(c)) /\ p = PageOf(c))
  <2>1. PICK d \in Clients : Covers(d, p)
    BY <1>0, <1>2, <1>4 DEF OpenCovered
  <2>2. CASE d # c
    BY <2>1, <2>2, OtherSessions DEF SameSession, Covers, Held, PageOf
  <2>3. CASE d = c
    <3>1. p = PageOf(c)
      BY <2>1, <2>3 DEF Covers
    <3>2. CASE Installs(c) \/ Ready(c)
      BY <2>1, <2>3, <3>2 DEF Installs, Ready, locks, clientVars, Covers, Held, PageOf
    <3>3. CASE ClientStep(c) /\ ~StopAcknowledged(c)
      <4>1. PICK e \in Clients : PageOf(e) = p /\ open[e]
        BY <1>2, <1>4 DEF Opened
      <4>2. Callable(p)
        BY <4>1 DEF RuntimesInv, RunKnown
      <4> QED
        BY <2>1, <2>3, <3>1, <3>3, <4>2, StepKeepsCover
    <3> QED
      BY <1>4, <3>1, <3>2, <3>3
  <2> QED
    BY <2>2, <2>3
<1> QED
  BY <1>1, <1>3, <1>4

-----------------------------------------------------------------------------
LEMMA StepKeepsInv ==
    ASSUME IInv, NEW c \in Clients,
           ClientStep(c) \/ Installs(c) \/ Ready(c) \/ Exits(c), UNCHANGED created
    PROVE  IInv'
<1>0. /\ TypeOK /\ LockTypeOK /\ LockMatchesBrowser /\ RuntimesInv
      /\ \A d \in Clients : SessionInv(d) /\ RunKnown(d)
      /\ \A q \in Pages : OpenCovered(q)
  BY DEF IInv, TypeOK, RuntimesInv
<1>1. TypeOK'
  BY <1>0, ClientStepTypeOK, RuntimeStepTypeOK
<1>2. ASSUME NEW d \in Clients PROVE SessionInv(d)'
  <2>1. CASE d = c
    BY <1>0, <2>1, OwnSession, ExitSession
  <2>2. CASE d # c
    BY <1>0, <2>2, OtherSessions, SameSessionInv
  <2> QED
    BY <2>1, <2>2
<1>3. NamesGlobal /\ NamesGlobal'
  BY <1>0, <1>2 DEF NamesGlobal, SessionInv, GrantOwned
<1>4. LockMatchesBrowser'
  BY <1>0, <1>3, StepChangesLock, LockChangeMatches
<1>5. RuntimesInv' /\ \A q \in Pages : OpenCovered(q)'
  BY <1>0, StepRuntimes, StepOpenCovered
<1> QED
  BY <1>1, <1>2, <1>4, <1>5 DEF IInv

(* A page that goes away takes nothing of another one along.               *)
LEMMA PageClosesKeepsInv ==
    ASSUME IInv, NEW p \in Pages, PageCloses(p), UNCHANGED created
    PROVE  IInv'
<1>0. /\ TypeOK /\ LockTypeOK /\ LockMatchesBrowser /\ RuntimesInv
      /\ \A c \in Clients : SessionInv(c)
      /\ \A q \in Pages : OpenCovered(q)
  BY DEF IInv, TypeOK
<1>1. TypeOK'
  BY <1>0, PageClosesTypeOK
<1>2. ASSUME NEW d \in Clients, PageOf(d) # p
      PROVE  /\ SameSession(d)
             /\ run'[d] = run[d] /\ load'[d] = load[d] /\ open'[d] = open[d]
  BY <1>2 DEF PageCloses, SameSession, Exited
<1>3. ASSUME NEW q \in Pages, q # p PROVE caller'[q] = caller[q] /\ doubled'[q] = doubled[q]
  BY <1>0, <1>3 DEF PageCloses, TypeOK
<1>4. ASSUME NEW d \in Clients, PageOf(d) = p
      PROVE  /\ lock'[d].kind = "idle" /\ op'[d].at = "none" /\ op'[d].on = NoClient
             /\ lastLease'[d] = NoLease /\ lease'[d] = NoLease
             /\ run'[d] = "none" /\ load'[d] = "none" /\ ~open'[d]
             /\ ~announcing'[d] /\ ~seen'[d]
  BY <1>4 DEF PageCloses, IdleLock, NoOp
<1>5. ASSUME NEW d \in Clients PROVE SessionInv(d)'
  <2>1. CASE PageOf(d) = p
    BY <1>4, <2>1 DEF SessionInv, Acquiring, GrantOwned, Booting, Stopping, SeenOwned,
       Held, Exited, NoLease
  <2>2. CASE PageOf(d) # p
    BY <1>0, <1>2, <2>2, SameSessionInv
  <2> QED
    BY <2>1, <2>2
<1>6. LockMatchesBrowser'
  <2>1. NamesGlobal /\ NamesGlobal'
    BY <1>0, <1>5 DEF NamesGlobal, SessionInv, GrantOwned
  <2>2. ASSUME WebLocks, NEW d \in Clients PROVE Matches(d)'
    <3>1. Matches(d) /\ NoClient # d
      BY <1>0, <2>1, <2>2, MatchesAll, MainAssumption DEF Clients
    <3>2. holder'[Global] = IF holder[Global] \in Clients /\ PageOf(holder[Global]) = p
                            THEN NoClient ELSE holder[Global]
      BY DEF PageCloses
    <3>3. CASE PageOf(d) = p
      BY <1>4, <3>1, <3>2, <3>3 DEF Matches, Held
    <3>4. CASE PageOf(d) # p
      BY <1>2, <3>1, <3>2, <3>4 DEF SameSession, Matches, Held
    <3> QED
      BY <3>3, <3>4
  <2>3. NamesGlobal' => (LockMatchesBrowser' <=> (WebLocks => \A d \in Clients : Matches(d)'))
    BY DEF LockMatchesBrowser, Matches, Held, NamesGlobal
  <2> QED
    BY <2>1, <2>2, <2>3
<1>7. RuntimesInv'
  <2>1. caller'[p] = NoClient
    BY <1>0 DEF PageCloses, TypeOK
  <2>2. ASSUME NEW d \in Clients PROVE RunKnown(d)' /\ CallKnown(d)' /\ Alone(d)'
    <3>1. /\ PageOf(d)' = PageOf(d) /\ PageOf(d) \in Pages
          /\ RunKnown(d) /\ CallKnown(d) /\ Alone(d)
          /\ op[d].on \in Clients \cup {NoClient}
      BY <1>0 DEF PageOf, Clients, RuntimesInv, TypeOK, Op
    <3>2. CASE PageOf(d) = p
      BY <1>4, <2>1, <3>1, <3>2 DEF RunKnown, CallKnown, Alone, Runs, Exited, Callable, PageOf
    <3>3. CASE PageOf(d) # p
      <4>1. op'[d] = op[d] /\ run'[d] = run[d] /\ load'[d] = load[d] /\ open'[d] = open[d]
        BY <1>2, <3>3 DEF SameSession
      <4>2. caller'[PageOf(d)] = caller[PageOf(d)] /\ doubled'[PageOf(d)] = doubled[PageOf(d)]
        BY <1>3, <3>1, <3>3
      <4>3. RunKnown(d)'
        BY <3>1, <4>1, <4>2 DEF RunKnown, Callable
      <4>4. CallKnown(d)'
        BY <1>2, <3>1, <3>3, <4>1 DEF CallKnown, PageOf
      <4>5. Alone(d)'
        BY <1>2, <3>1, <3>3, <4>1, <4>2 DEF Alone, Runs, Exited, Callable, PageOf
      <4> QED
        BY <4>3, <4>4, <4>5
    <3> QED
      BY <3>2, <3>3
  <2>3. ASSUME NEW q \in Pages PROVE CallerKnown(q)'
    <3>1. CallerKnown(q) /\ caller[q] \in Clients \cup {NoClient}
      BY <1>0 DEF RuntimesInv, TypeOK
    <3>2. CASE q = p
      BY <2>1, <3>2 DEF CallerKnown, Callable
    <3>3. CASE q # p
      BY <1>2, <1>3, <3>1, <3>3 DEF CallerKnown, Callable, PageOf
    <3> QED
      BY <3>2, <3>3
  <2> QED
    BY <2>2, <2>3 DEF RuntimesInv
<1>8. ASSUME NEW q \in Pages PROVE OpenCovered(q)'
  <2>1. CASE q = p
    BY <1>4, <2>1 DEF OpenCovered, Opened, PageOf
  <2>2. CASE q # p
    <3>1. Opened(q)' => Opened(q)
      BY <1>2, <2>2 DEF Opened, PageOf
    <3>2. \A d \in Clients : Covers(d, q) => Covers(d, q)'
      BY <1>2, <2>2 DEF SameSession, Covers, Held, PageOf
    <3>3. OpenCovered(q) /\ doubled'[q] = doubled[q]
      BY <1>0, <1>3, <2>2
    <3> QED
      BY <3>1, <3>2, <3>3 DEF OpenCovered
  <2> QED
    BY <2>1, <2>2
<1> QED
  BY <1>1, <1>5, <1>6, <1>7, <1>8 DEF IInv

LEMMA NextIInv == IInv /\ [Next]_vars => IInv'
<1> SUFFICES ASSUME IInv, [Next]_vars PROVE IInv'
  OBVIOUS
<1>1. created \subseteq Clients
  BY MainAssumption DEF IInv, TypeOK, Clients
<1>2. CASE UNCHANGED vars
  BY <1>2 DEF IInv, TypeOK, LockTypeOK, LockMatchesBrowser, SessionInv, Acquiring, GrantOwned,
     Booting, Stopping, SeenOwned, RuntimesInv, RunKnown, CallKnown, CallerKnown, Alone,
     OpenCovered, Opened, Covers, Held, Exited, Runs, Callable, PageOf,
     vars, locks, runtimes, clientVars
<1>3. CASE Next
  BY <1>1, <1>3, StepKeepsInv, PageClosesKeepsInv DEF Next
<1> QED
  BY <1>2, <1>3

(* The inductive invariant holds in every reachable state of the clients,  *)
(* for any pages, clients and leases, with and without Web Locks, and      *)
(* however many runtimes the clients of a page run.                        *)
THEOREM Invariance == Spec => []IInv
<1> QED
  BY InitIInv, NextIInv, PTL DEF Spec

(* Type correctness of the main-thread clients, their pages and the lock.  *)
THEOREM TypeCorrect == Spec => []TypeOK
<1>1. IInv => TypeOK
  BY DEF IInv
<1> QED
  BY <1>1, Invariance, PTL

(* A daemon that may have the databases open is covered by a lock of its   *)
(* page, unless the page ran two runtimes; and an exit strands no lock of  *)
(* the client that ran the runtime, on any page: whatever fails, exits, is *)
(* disposed of or closed.                                                  *)
THEOREM LockSafety == Spec => []LockFollowsDaemon
<1>1. IInv => OpenIsLocked
  BY DEF IInv, OpenIsLocked, OpenCovered, Covers, Locked
<1>2. IInv => NoStrandedLock
  BY DEF IInv, SessionInv, GrantOwned, Acquiring, NoStrandedLock, Held
<1> QED
  BY <1>1, <1>2, Invariance, PTL DEF LockFollowsDaemon

-----------------------------------------------------------------------------
(* What a host is told.                                                    *)
Frees == \A c \in Clients : seen[c] /\ ~seen'[c] => lock'[c].kind \notin {"held", "settling"}

LEMMA TellsWhenFree == IInv /\ [Next]_vars => [Frees]_vars
<1> SUFFICES ASSUME IInv, Next, NEW c \in Clients, seen[c], ~seen'[c]
             PROVE  lock'[c].kind \notin {"held", "settling"}
  BY DEF Frees
<1> USE DEF locks, runtimes, clientVars
<1>0. TypeOK /\ LockTypeOK /\ SessionInv(c) /\ created \subseteq Clients
  BY MainAssumption DEF IInv, TypeOK, Clients
<1>1. ASSUME NEW d \in Clients, ClientStep(d) PROVE lock'[c].kind \notin {"held", "settling"}
  <2>1. c = d
    BY <1>0, <1>1, OtherSessions DEF SameSession
  <2>2. CASE Announces(c) \/ StopCompletes(c)
    BY <1>0, <2>2 DEF Announces, StopCompletes, Settling, Held, SessionInv,
       GrantOwned, SeenOwned, Stopping
  <2>3. CASE ~(Announces(c) \/ StopCompletes(c))
    BY <1>0, <1>1, <2>1, <2>3 DEF Tell, ClientStep, LockStep, LoadBegins, LoadFails, Loads, Calls,
       StartBegins, StartAcquires, StartGranted, StartDenied, StartBoots, DaemonOpens,
       BootSucceeds, BootFails, StartFails, StopBegins, StopAcknowledged, StopFails, Dispose,
       TypeOK
  <2> QED
    BY <2>2, <2>3
<1>2. ASSUME NEW d \in Clients, Installs(d) \/ Ready(d) \/ Exits(d) PROVE FALSE
  BY <1>2 DEF Installs, Ready, Exits
<1>3. ASSUME NEW p \in Pages, PageCloses(p) PROVE lock'[c].kind \notin {"held", "settling"}
  BY <1>3 DEF PageCloses, IdleLock
<1> QED
  BY <1>0, <1>1, <1>2, <1>3 DEF Next

(* A subscriber that restarts on runtimeStopped never finds its own lock   *)
(* still held or on its way to be freed.                                   *)
THEOREM FreeWhenTold == Spec => StoppedMeansFree
<1>1. IInv /\ [Next]_vars => [Frees]_vars
  BY TellsWhenFree
<1> QED
  BY <1>1, Invariance, PTL DEF Spec, StoppedMeansFree, Frees

-----------------------------------------------------------------------------
(* The clients implement WalletDatabases.                                  *)

users == [n \in {Global} |->
            {PageOf(c) : c \in {d \in Clients : open[d] /\ ~doubled[PageOf(d)]}}]

(* The page counts as a user of the databases.                             *)
Using(p) == Opened(p) /\ ~doubled[p]

LEMMA UsersFacts == users = [n \in {Global} |-> {p \in Pages : Using(p)}]
<1>1. {PageOf(c) : c \in {d \in Clients : open[d] /\ ~doubled[PageOf(d)]}}
        = {p \in Pages : Using(p)}
  BY DEF Using, Opened, PageOf, Clients
<1> QED
  BY <1>1 DEF users

(* One page comes to use them, under the lock, or ceases to.               *)
LEMMA UsingChange ==
    ASSUME IInv, Next
    PROVE  \E p \in Pages :
             /\ \A q \in Pages : q # p => (Using(q)' <=> Using(q))
             /\ ~Using(p) /\ Using(p)' => \E c \in Clients : PageOf(c) = p /\ Held(c)
<1>0. /\ TypeOK /\ RuntimesInv /\ \A c \in Clients : SessionInv(c) /\ PageOf(c) \in Pages
      /\ created \subseteq Clients
  BY MainAssumption DEF IInv, TypeOK, Clients, PageOf
<1>1. ASSUME NEW c \in Clients, ClientStep(c) \/ Installs(c) \/ Ready(c) \/ Exits(c)
      PROVE  /\ \A q \in Pages : q # PageOf(c) => (Using(q)' <=> Using(q))
             /\ ~Using(PageOf(c)) /\ Using(PageOf(c))' => Held(c)
  <2>1. ASSUME NEW q \in Pages, q # PageOf(c) PROVE Using(q)' <=> Using(q)
    BY <1>0, <1>1, <2>1, StepOpens DEF Using
  <2>2. ASSUME ~Using(PageOf(c)), Using(PageOf(c))' PROVE Held(c)
    <3>1. ~doubled[PageOf(c)] /\ DaemonOpens(c)
      BY <1>0, <1>1, <2>2, StepOpens DEF Using, PageOf
    <3> QED
      BY <1>0, <3>1, OpensHeld
  <2> QED
    BY <2>1, <2>2
<1>2. ASSUME NEW p \in Pages, PageCloses(p)
      PROVE  /\ \A q \in Pages : q # p => (Using(q)' <=> Using(q))
             /\ ~Using(p)'
  <2>1. ASSUME NEW q \in Pages, q # p PROVE Using(q)' <=> Using(q)
    <3>1. doubled'[q] = doubled[q]
      BY <1>0, <1>2, <2>1 DEF PageCloses, TypeOK
    <3>2. \A d \in Clients : PageOf(d) = q => open'[d] = open[d]
      BY <1>2, <2>1 DEF PageCloses
    <3> QED
      BY <3>1, <3>2 DEF Using, Opened, PageOf
  <2>2. ~Using(p)'
    BY <1>2 DEF PageCloses, Using, Opened, PageOf
  <2> QED
    BY <2>1, <2>2
<1>3. CASE \E c \in Clients : ClientStep(c) \/ Installs(c) \/ Ready(c) \/ Exits(c)
  <2>1. PICK c \in Clients : ClientStep(c) \/ Installs(c) \/ Ready(c) \/ Exits(c)
    BY <1>3
  <2>2. PageOf(c) \in Pages
    BY <1>0
  <2> QED
    BY <1>1, <2>1, <2>2
<1>4. CASE \E p \in Pages : PageCloses(p)
  BY <1>2, <1>4
<1> QED
  BY <1>0, <1>3, <1>4 DEF Next

LEMMA RefinedStep ==
    ASSUME WebLocks, IInv, [Next]_vars
    PROVE  [Databases!Next]_users
<1> DEFINE U == {q \in Pages : Using(q)}
<1>0. /\ LockMatchesBrowser
      /\ \A c \in Clients : SessionInv(c)
      /\ \A q \in Pages : OpenCovered(q)
  BY DEF IInv
<1>1. users[Global] = U /\ users = [n \in {Global} |-> U]
  BY UsersFacts
<1>2. users' = [n \in {Global} |-> U']
  <2>1. {PageOf(c) : c \in {d \in Clients : open'[d] /\ ~doubled'[PageOf(d)]}} = U'
    BY DEF Using, Opened, PageOf, Clients
  <2> QED
    BY <2>1 DEF users, PageOf
<1>3. CASE UNCHANGED vars
  <2>1. users' = users
    BY <1>3 DEF vars, runtimes, users, PageOf
  <2> QED
    BY <2>1
<1>4. CASE Next
  <2>1. PICK p \in Pages :
             /\ \A q \in Pages : q # p => (Using(q)' <=> Using(q))
             /\ ~Using(p) /\ Using(p)' => \E c \in Clients : PageOf(c) = p /\ Held(c)
    BY <1>4, UsingChange
  <2>2. CASE Using(p)' <=> Using(p)
    <3>1. U' = U
      BY <2>1, <2>2
    <3> QED
      BY <1>1, <1>2, <3>1
  <2>3. CASE Using(p) /\ ~Using(p)'
    <3>1. U' = U \ {p} /\ p \in U
      BY <2>1, <2>3
    <3>2. users' = [users EXCEPT ![Global] = @ \ {p}] /\ p \in users[Global]
      BY <1>1, <1>2, <3>1
    <3> QED
      BY <3>2 DEF Databases!Next, Databases!Close, users
  <2>4. CASE ~Using(p) /\ Using(p)'
    <3>1. PICK c \in Clients : PageOf(c) = p /\ Held(c)
      BY <2>1, <2>4
    <3>2. ASSUME NEW q \in Pages PROVE ~Using(q)
      <4>1. SUFFICES ASSUME Using(q) PROVE FALSE
        OBVIOUS
      <4>2. PICK d \in Clients : PageOf(d) = q /\ Held(d)
        BY <1>0, <4>1 DEF Using, OpenCovered, Covers
      <4>3. lock[c].name = Global /\ lock[d].name = Global
        BY <1>0, <3>1, <4>2 DEF SessionInv, GrantOwned, Held
      <4>4. holder[Global] = c /\ holder[Global] = d
        BY <1>0, <3>1, <4>2, <4>3 DEF LockMatchesBrowser
      <4> QED
        BY <2>4, <3>1, <4>1, <4>2, <4>4
    <3>3. U = {} /\ U' = {p}
      BY <2>1, <2>4, <3>2
    <3>4. users[Global] = {} /\ users' = [users EXCEPT ![Global] = {p}]
      BY <1>1, <1>2, <3>3
    <3> QED
      BY <3>4 DEF Databases!Next, Databases!Open, users
  <2> QED
    BY <2>2, <2>3, <2>4
<1> QED
  BY <1>3, <1>4

LEMMA RefinedInit == Init => users = [n \in {Global} |-> {}]
  BY DEF Init, users

(* Seen through the databases that are open on pages that never ran one    *)
(* runtime beside another, every behaviour of the clients is one of        *)
(* WalletDatabases: no two of those pages ever have them open at once,     *)
(* whatever a page with two runtimes does.                                 *)
THEOREM Refinement == ASSUME WebLocks PROVE Spec => ExclusiveDatabases
<1>1. Init => Databases!Init
  BY RefinedInit DEF Databases!Init, users
<1>2. IInv /\ [Next]_vars => [Databases!Next]_users
  BY RefinedStep
<1> QED
  BY <1>1, <1>2, Invariance, PTL DEF Spec, ExclusiveDatabases, Databases!Spec, users
=============================================================================
