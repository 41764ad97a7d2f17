------------------------ MODULE WorkerRequestsProofs ------------------------
(***************************************************************************)
(* The worker client, proved: its safety in any number of tabs, over any   *)
(* names and with any bounds; then the requests of a page to its workers,  *)
(* which follow this lifecycle and never disturb it, and of which a late   *)
(* answer of a replaced worker settles none of its successor.              *)
(***************************************************************************)
EXTENDS WorkerRequests, TLAPS


(* What the proofs need to know of one tab.                                *)

(* An acquire() under way is the newest lease, and its session not yet.    *)
Acquiring(c) ==
    /\ op[c].at \in {"acquire", "waiting", "granted"} => op[c].name \in Names
    /\ op[c].at \in {"waiting", "granted"} =>
         /\ lock[c].kind = IF op[c].at = "waiting" THEN "acquiring" ELSE "held"
         /\ lock[c].name = op[c].name
         /\ lock[c].lease = op[c].lease
         /\ lease[c] < op[c].lease
         /\ op[c].lease <= lastLease[c]

(* A grant belongs to the session, which is alive, or is about to.         *)
GrantOwned(c) ==
    /\ lease[c] <= lastLease[c]
    /\ lock[c].kind # "idle" => lock[c].name \in Names
    /\ Held(c) /\ op[c].at # "granted" => lock[c].lease = lease[c] /\ ~exited[c]

(* Open databases have a live session behind them.                         *)
OpenOwned(c) ==
    open[c] # NoName =>
        /\ Held(c)
        /\ lock[c].name = open[c]
        /\ op[c].at \in {"none", "boot", "stop"}
        /\ op[c].at # "boot" => seen[c]

(* Only dead workers are announced, and the current one only while dead.   *)
AnnouncedDead(c) ==
    /\ \A w \in announcing[c] : w <= worker[c]
    /\ worker[c] \in announcing[c] => exited[c]

TabInv(c) == Acquiring(c) /\ GrantOwned(c) /\ OpenOwned(c) /\ AnnouncedDead(c)

IInv == TypeOK /\ (\A c \in Tabs : TabInv(c)) /\ LockMatchesBrowser

(* All the invariants checked by TLC follow.                               *)
LEMMA IInvImplies ==
    IInv => /\ WebLocks => MutualExclusion
            /\ OpenUnderLease /\ NoStrandedLock /\ RunningIsSeen
<1>1. IInv => OpenUnderLease /\ NoStrandedLock /\ RunningIsSeen
  BY DEF IInv, TabInv, GrantOwned, OpenOwned, OpenUnderLease, NoStrandedLock, RunningIsSeen
<1>2. ASSUME IInv, WebLocks, NEW c \in Tabs, NEW d \in Tabs, open[c] # NoName, open[c] = open[d]
      PROVE  c = d
  BY <1>2 DEF IInv, TabInv, GrantOwned, OpenOwned, LockMatchesBrowser
<1> QED
  BY <1>1, <1>2 DEF MutualExclusion

-----------------------------------------------------------------------------
LEMMA InitIInv == Init => IInv
<1> SUFFICES ASSUME Init PROVE IInv
  OBVIOUS
<1> USE LockAssumption, WorkerAssumption DEF Init, LockInit, NoOp, NoLease, IdleLock
<1>1. TypeOK
  BY DEF TypeOK, LockTypeOK, LockState, Op, Workers, Leases
<1>2. ASSUME NEW c \in Tabs PROVE TabInv(c)
  BY DEF TabInv, Acquiring, GrantOwned, OpenOwned, AnnouncedDead, Held
<1>3. LockMatchesBrowser
  BY DEF LockMatchesBrowser, Held
<1> QED
  BY <1>1, <1>2, <1>3 DEF IInv

-----------------------------------------------------------------------------
(* The operators the actions are built from.                               *)

LEMMA ReleaseFacts ==
    ASSUME LockTypeOK, NEW c \in Tabs, NEW l, Release(c, l)
    PROVE  /\ LockTypeOK'
           /\ \A d \in Tabs : d # c => lock'[d] = lock[d]
           /\ lock'[c].name = lock[c].name /\ lock'[c].lease = lock[c].lease
           /\ lock'[c].kind = IF Held(c) /\ lock[c].lease = l THEN "settling" ELSE lock[c].kind
           /\ UNCHANGED <<lastLease, holder>>
<1> DEFINE new == [lock[c] EXCEPT !.kind = "settling"]
<1>1. lock[c] \in LockState
  BY DEF LockTypeOK
<1>2. /\ new \in LockState
      /\ new.kind = "settling" /\ new.name = lock[c].name /\ new.lease = lock[c].lease
  BY <1>1 DEF LockState
<1>3. lock' = [lock EXCEPT ![c] = IF Held(c) /\ lock[c].lease = l THEN new ELSE lock[c]]
  BY DEF Release, Released, Held
<1> HIDE DEF new
<1> QED
  BY <1>1, <1>2, <1>3 DEF LockTypeOK, Release, Held

LEMMA GotoFacts ==
    ASSUME op \in [Tabs -> Op], NEW c \in Tabs, NEW at, Goto(c, at),
           at \in {"granted", "boot", "failing", "releasing", "stopping"}
    PROVE  /\ op' \in [Tabs -> Op]
           /\ \A d \in Tabs : d # c => op'[d] = op[d]
           /\ op'[c].at = at /\ op'[c].name = op[c].name /\ op'[c].lease = op[c].lease
<1> DEFINE new == [op[c] EXCEPT !.at = at]
<1>1. /\ new \in Op
      /\ new.at = at /\ new.name = op[c].name /\ new.lease = op[c].lease
  BY DEF Op
<1>2. op' = [op EXCEPT ![c] = new]
  BY DEF Goto
<1> HIDE DEF new
<1> QED
  BY <1>1, <1>2

LEMMA FinishFacts ==
    ASSUME op \in [Tabs -> Op], NEW c \in Tabs, Finish(c)
    PROVE  /\ op' \in [Tabs -> Op]
           /\ \A d \in Tabs : d # c => op'[d] = op[d]
           /\ op'[c] = NoOp
  BY DEF Finish, NoOp, Op, NoLease

LEMMA KillFacts ==
    ASSUME exited \in [Tabs -> BOOLEAN], open \in [Tabs -> Names \cup {NoName}],
           NEW c \in Tabs, Kill(c)
    PROVE  /\ exited' \in [Tabs -> BOOLEAN] /\ open' \in [Tabs -> Names \cup {NoName}]
           /\ \A d \in Tabs : d # c => exited'[d] = exited[d] /\ open'[d] = open[d]
           /\ exited'[c] /\ open'[c] = NoName
  BY DEF Kill

LEMMA GrantFacts ==
    ASSUME LockTypeOK, NEW c \in Tabs, Grant(c)
    PROVE  /\ LockTypeOK'
           /\ \A d \in Tabs : d # c => lock'[d] = lock[d]
           /\ lock'[c].name = lock[c].name /\ lock'[c].lease = lock[c].lease
           /\ lock'[c].kind = "held" /\ lastLease' = lastLease
<1> DEFINE new == [lock[c] EXCEPT !.kind = "held"]
<1>1. lock[c] \in LockState
  BY DEF LockTypeOK
<1>2. /\ new \in LockState
      /\ new.kind = "held" /\ new.name = lock[c].name /\ new.lease = lock[c].lease
  BY <1>1 DEF LockState
<1>3. lock' = [lock EXCEPT ![c] = new]
  BY DEF Grant
<1>4. holder' \in [Names -> Tabs \cup {NoTab}]
  BY DEF Grant, LockTypeOK
<1> HIDE DEF new
<1> QED
  BY <1>1, <1>2, <1>3, <1>4 DEF LockTypeOK, Grant

(* Type correctness of every step.                                         *)
LEMMA StepTypeOK ==
    ASSUME TypeOK, NEW c \in Tabs, TabStep(c)
    PROVE  TypeOK'
<1> USE LockAssumption, WorkerAssumption
<1>0. /\ LockTypeOK
      /\ exited \in [Tabs -> BOOLEAN]
      /\ op \in [Tabs -> Op]
      /\ open \in [Tabs -> Names \cup {NoName}]
  BY DEF TypeOK
<1>1. ASSUME NEW n \in Names, StartBegins(c, n) PROVE TypeOK'
  <2>1. worker' \in [Tabs -> Workers] /\ exited' \in [Tabs -> BOOLEAN]
    <3>1. worker[c] \in 1..MaxWorkers /\ MaxWorkers \in Nat
      BY WorkerAssumption DEF TypeOK, Workers
    <3>2. CASE exited[c]
      <4>1. worker' = [worker EXCEPT ![c] = worker[c] + 1] /\ worker[c] < MaxWorkers
        BY <1>1, <3>2 DEF StartBegins
      <4>2. worker[c] + 1 \in Workers
        BY <3>1, <4>1 DEF Workers
      <4> QED
        BY <1>1, <3>2, <4>1, <4>2 DEF StartBegins, TypeOK
    <3>3. CASE ~exited[c]
      BY <1>1, <3>3 DEF StartBegins, TypeOK
    <3> QED
      BY <3>2, <3>3
  <2>2. op' \in [Tabs -> Op]
    BY <1>0, <1>1 DEF StartBegins, Op
  <2>3. LockTypeOK'
    BY <1>0, <1>1 DEF StartBegins, LockTypeOK, lockVars
  <2> QED
    BY <1>1, <2>1, <2>2, <2>3 DEF StartBegins, TypeOK
<1>2. ASSUME StartAcquires(c) PROVE TypeOK'
  <2>1. /\ lastLease' \in [Tabs -> Leases \cup {NoLease}]
        /\ lastLease'[c] \in Leases
    BY <1>0, <1>2 DEF StartAcquires, Request, LockTypeOK, Leases, NoLease
  <2>2. op[c].name \in Names \cup {NoName}
    BY <1>0 DEF Op
  <2>3. lock' \in [Tabs -> LockState]
    BY <1>0, <1>2, <2>1, <2>2 DEF StartAcquires, Request, LockTypeOK, LockState
  <2>4. op' \in [Tabs -> Op]
    BY <1>0, <1>2, <2>1 DEF StartAcquires, Op
  <2> QED
    BY <1>0, <1>2, <2>1, <2>3, <2>4 DEF StartAcquires, Request, TypeOK, LockTypeOK
<1>3. ASSUME StartGranted(c) PROVE TypeOK'
  BY <1>0, <1>3, GrantFacts, GotoFacts DEF StartGranted, TypeOK, lockVars, clientVars
<1>4. ASSUME StartDenied(c) PROVE TypeOK'
  BY <1>0, <1>4, FinishFacts DEF StartDenied, Deny, RequestFails, LockTypeOK, LockState, IdleLock, NoLease, TypeOK, lockVars, clientVars
<1>5. ASSUME StartBoots(c) PROVE TypeOK'
  <2>1. lease' \in [Tabs -> Leases \cup {NoLease}]
    BY <1>0, <1>5 DEF StartBoots, TypeOK, Op
  <2>2. CASE disposed[c] \/ exited[c]
    BY <1>0, <1>5, <2>1, <2>2, ReleaseFacts, GotoFacts DEF StartBoots, TypeOK
  <2>3. CASE ~(disposed[c] \/ exited[c])
    <3>1. open' \in [Tabs -> Names \cup {NoName}]
      BY <1>0, <1>5, <2>3 DEF StartBoots, Op
    <3> QED
      BY <1>0, <1>5, <2>1, <2>3, <3>1, GotoFacts DEF StartBoots, TypeOK, LockTypeOK, lockVars
  <2> QED
    BY <2>2, <2>3
<1>6. ASSUME BootSucceeds(c) PROVE TypeOK'
  BY <1>0, <1>6, FinishFacts DEF BootSucceeds, Tell, LockTypeOK, TypeOK, lockVars, clientVars
<1>7. ASSUME BootFails(c) PROVE TypeOK'
  BY <1>0, <1>7, FinishFacts, KillFacts, ReleaseFacts, GotoFacts DEF BootFails, LockTypeOK, TypeOK, lockVars, clientVars
<1>8. ASSUME StartFails(c) PROVE TypeOK'
  BY <1>0, <1>8, FinishFacts DEF StartFails, Tell, LockTypeOK, TypeOK, lockVars, clientVars
<1>9. ASSUME StopBegins(c) PROVE TypeOK'
  BY <1>0, <1>9 DEF StopBegins, LockTypeOK, Op, TypeOK, lockVars, clientVars
<1>10. ASSUME StopAcknowledged(c) PROVE TypeOK'
  BY <1>0, <1>10, ReleaseFacts, GotoFacts DEF StopAcknowledged, LockTypeOK, TypeOK, lockVars, clientVars
<1>11. ASSUME StopFails(c) PROVE TypeOK'
  BY <1>0, <1>11, FinishFacts DEF StopFails, LockTypeOK, TypeOK, lockVars, clientVars
<1>12. ASSUME StopCompletes(c) PROVE TypeOK'
  BY <1>0, <1>12, FinishFacts DEF StopCompletes, Tell, LockTypeOK, TypeOK, lockVars, clientVars
<1>13. ASSUME NEW w \in Workers, WorkerDies(c, w) PROVE TypeOK'
  BY <1>0, <1>13, KillFacts, ReleaseFacts DEF WorkerDies, TypeOK, lockVars, clientVars
<1>14. ASSUME NEW w \in Workers, Announces(c, w) PROVE TypeOK'
  BY <1>0, <1>14 DEF Announces, Tell, LockTypeOK, TypeOK, lockVars, clientVars
<1>15. ASSUME Dispose(c) PROVE TypeOK'
  BY <1>0, <1>15, KillFacts, ReleaseFacts DEF Dispose, LockTypeOK, TypeOK, lockVars, clientVars
<1>16. ASSUME TabCloses(c) PROVE TypeOK'
  BY <1>0, <1>16 DEF TabCloses, LockPageGone, LockTypeOK, LockState, Op, IdleLock, NoLease, NoOp, Workers, TypeOK, lockVars, clientVars
<1>17. ASSUME LockStep(c) PROVE TypeOK'
  <2>1. CASE Free(c)
    BY <1>0, <1>17, <2>1 DEF LockStep, Free, LockTypeOK, TypeOK, clientVars
  <2>2. CASE Settle(c)
    BY <1>0, <1>17, <2>2 DEF LockStep, Settle, LockTypeOK, LockState, IdleLock, NoLease, TypeOK, clientVars
  <2> QED
    BY <1>17, <2>1, <2>2 DEF LockStep
<1> QED
  BY <1>1, <1>2, <1>3, <1>4, <1>5, <1>6, <1>7, <1>8, <1>9, <1>10, <1>11, <1>12, <1>13, <1>14, <1>15, <1>16, <1>17 DEF TabStep, Proceed

-----------------------------------------------------------------------------
(* A step of one tab leaves the others alone.                              *)
SameTab(d) ==
    /\ lock'[d] = lock[d] /\ lastLease'[d] = lastLease[d]
    /\ worker'[d] = worker[d] /\ exited'[d] = exited[d] /\ disposed'[d] = disposed[d]
    /\ lease'[d] = lease[d] /\ op'[d] = op[d] /\ announcing'[d] = announcing[d]
    /\ open'[d] = open[d] /\ seen'[d] = seen[d]

LEMMA OtherTabs ==
    ASSUME TypeOK, NEW c \in Tabs, TabStep(c), NEW d \in Tabs, d # c
    PROVE  SameTab(d)
<1>0. /\ LockTypeOK
      /\ exited \in [Tabs -> BOOLEAN]
      /\ op \in [Tabs -> Op]
      /\ open \in [Tabs -> Names \cup {NoName}]
  BY DEF TypeOK
<1>1. ASSUME NEW n \in Names, StartBegins(c, n) PROVE SameTab(d)
  BY <1>0, <1>1 DEF StartBegins, SameTab, TypeOK, LockTypeOK, lockVars, clientVars
<1>2. ASSUME StartAcquires(c) PROVE SameTab(d)
  BY <1>0, <1>2 DEF StartAcquires, Request, SameTab, TypeOK, LockTypeOK, lockVars, clientVars
<1>3. ASSUME StartGranted(c) PROVE SameTab(d)
  BY <1>0, <1>3, GrantFacts, GotoFacts DEF StartGranted, SameTab, TypeOK, LockTypeOK, lockVars, clientVars
<1>4. ASSUME StartDenied(c) PROVE SameTab(d)
  BY <1>0, <1>4, FinishFacts DEF StartDenied, Deny, RequestFails, SameTab, TypeOK, LockTypeOK, lockVars, clientVars
<1>5. ASSUME StartBoots(c) PROVE SameTab(d)
  BY <1>0, <1>5, ReleaseFacts, GotoFacts DEF StartBoots, SameTab, TypeOK, LockTypeOK, lockVars, clientVars
<1>6. ASSUME BootSucceeds(c) PROVE SameTab(d)
  BY <1>0, <1>6, FinishFacts DEF BootSucceeds, Tell, SameTab, TypeOK, LockTypeOK, lockVars, clientVars
<1>7. ASSUME BootFails(c) PROVE SameTab(d)
  BY <1>0, <1>7, FinishFacts, KillFacts, ReleaseFacts, GotoFacts DEF BootFails, SameTab, TypeOK, LockTypeOK, lockVars, clientVars
<1>8. ASSUME StartFails(c) PROVE SameTab(d)
  BY <1>0, <1>8, FinishFacts DEF StartFails, Tell, SameTab, TypeOK, LockTypeOK, lockVars, clientVars
<1>9. ASSUME StopBegins(c) PROVE SameTab(d)
  BY <1>0, <1>9 DEF StopBegins, SameTab, TypeOK, LockTypeOK, lockVars, clientVars
<1>10. ASSUME StopAcknowledged(c) PROVE SameTab(d)
  BY <1>0, <1>10, ReleaseFacts, GotoFacts DEF StopAcknowledged, SameTab, TypeOK, LockTypeOK, lockVars, clientVars
<1>11. ASSUME StopFails(c) PROVE SameTab(d)
  BY <1>0, <1>11, FinishFacts DEF StopFails, SameTab, TypeOK, LockTypeOK, lockVars, clientVars
<1>12. ASSUME StopCompletes(c) PROVE SameTab(d)
  BY <1>0, <1>12, FinishFacts DEF StopCompletes, Tell, SameTab, TypeOK, LockTypeOK, lockVars, clientVars
<1>13. ASSUME NEW w \in Workers, WorkerDies(c, w) PROVE SameTab(d)
  BY <1>0, <1>13, KillFacts, ReleaseFacts DEF WorkerDies, SameTab, TypeOK, LockTypeOK, lockVars, clientVars
<1>14. ASSUME NEW w \in Workers, Announces(c, w) PROVE SameTab(d)
  BY <1>0, <1>14 DEF Announces, Tell, SameTab, TypeOK, LockTypeOK, lockVars, clientVars
<1>15. ASSUME Dispose(c) PROVE SameTab(d)
  BY <1>0, <1>15, KillFacts, ReleaseFacts DEF Dispose, SameTab, TypeOK, LockTypeOK, lockVars, clientVars
<1>16. ASSUME TabCloses(c) PROVE SameTab(d)
  BY <1>0, <1>16 DEF TabCloses, LockPageGone, SameTab, TypeOK, LockTypeOK, lockVars, clientVars
<1>17. ASSUME LockStep(c) PROVE SameTab(d)
  BY <1>0, <1>17 DEF LockStep, Free, Settle, SameTab, TypeOK, LockTypeOK, lockVars, clientVars
<1> QED
  BY <1>1, <1>2, <1>3, <1>4, <1>5, <1>6, <1>7, <1>8, <1>9, <1>10, <1>11, <1>12, <1>13, <1>14, <1>15, <1>16, <1>17 DEF TabStep, Proceed

LEMMA SameTabInv ==
    ASSUME NEW d \in Tabs, SameTab(d), TabInv(d)
    PROVE  TabInv(d)'
  BY DEF SameTab, TabInv, Acquiring, GrantOwned, OpenOwned, AnnouncedDead, Held

-----------------------------------------------------------------------------
(* What a tab does to the lock.                                            *)
LockChange(c) ==
    \/ UNCHANGED lockVars
    \/ \E n \in Names : Request(c, n)
    \/ Grant(c) \/ Deny(c) \/ RequestFails(c)
    \/ \E l \in Leases \cup {NoLease} : Release(c, l)
    \/ Free(c) \/ Settle(c)
    \/ LockPageGone(c)

(* The tab and the browser agree on what the tab holds.                    *)
Matches(d) ==
    /\ Held(d) => holder[lock[d].name] = d
    /\ \A n \in Names :
         holder[n] = d => lock[d].kind \in {"held", "settling"} /\ lock[d].name = n

(* None of it parts the lock from the browser.                             *)
LEMMA LockChangeMatches ==
    ASSUME TypeOK, LockMatchesBrowser, NEW c \in Tabs, LockChange(c),
           \A d \in Tabs : lock[d].kind # "idle" => lock[d].name \in Names
    PROVE  LockMatchesBrowser'
<1> SUFFICES ASSUME WebLocks, NEW d \in Tabs PROVE Matches(d)'
  BY DEF LockMatchesBrowser, Matches
<1>0. LockTypeOK /\ Matches(c) /\ Matches(d)
  BY DEF TypeOK, LockMatchesBrowser, Matches
<1>1. CASE UNCHANGED lockVars
  BY <1>0, <1>1 DEF Matches, Held, lockVars
<1>2. ASSUME NEW n \in Names, Request(c, n) PROVE Matches(d)'
  BY <1>0, <1>2 DEF Request, Matches, Held, LockTypeOK
<1>3. CASE Grant(c)
  <2>1. holder' = [holder EXCEPT ![lock[c].name] = c] /\ holder[lock[c].name] = NoTab
    BY <1>3 DEF Grant
  <2>2. lock[c].name \in Names
    BY <1>3 DEF Grant
  <2>3. NoTab # d
    BY LockAssumption
  <2> QED
    BY <1>0, <1>3, <2>1, <2>2, <2>3, GrantFacts DEF Matches, Held, LockTypeOK
<1>4. CASE Deny(c) \/ RequestFails(c)
  BY <1>0, <1>4 DEF Deny, RequestFails, Matches, Held, LockTypeOK, IdleLock
<1>5. ASSUME NEW l \in Leases \cup {NoLease}, Release(c, l) PROVE Matches(d)'
  BY <1>0, <1>5, ReleaseFacts DEF Matches, Held
<1>6. CASE Free(c)
  <2>1. holder' = [holder EXCEPT ![lock[c].name] = NoTab] /\ lock' = lock
    BY <1>6 DEF Free
  <2>2. NoTab # d /\ lock[c].name \in Names
    BY <1>6, LockAssumption DEF Free, Settling
  <2> QED
    BY <1>0, <1>6, <2>1, <2>2 DEF Free, Settling, Matches, Held, LockTypeOK
<1>7. CASE Settle(c)
  BY <1>0, <1>7 DEF Settle, Settling, Matches, Held, LockTypeOK, IdleLock
<1>8. CASE LockPageGone(c)
  <2>1. /\ lock' = [lock EXCEPT ![c] = IdleLock]
        /\ \A n \in Names : holder'[n] = IF holder[n] = c THEN NoTab ELSE holder[n]
        /\ NoTab # d
    BY <1>8, LockAssumption DEF LockPageGone
  <2>2. CASE d = c
    <3>1. lock'[d].kind = "idle"
      BY <2>1, <2>2, <1>0 DEF LockTypeOK, IdleLock
    <3> QED
      BY <2>1, <2>2, <3>1 DEF Matches, Held
  <2>3. CASE d # c
    <3>1. lock'[d] = lock[d]
      BY <2>1, <2>3, <1>0 DEF LockTypeOK
    <3>2. Held(d) => lock[d].name \in Names
      BY DEF Held
    <3> QED
      BY <1>0, <2>1, <2>3, <3>1, <3>2 DEF Matches, Held
  <2> QED
    BY <2>2, <2>3
<1> QED
  BY <1>1, <1>2, <1>3, <1>4, <1>5, <1>6, <1>7, <1>8 DEF LockChange

-----------------------------------------------------------------------------
(* A step of a tab keeps the invariant of that tab, and is one of the      *)
(* changes of its lock.                                                    *)
LEMMA OwnTab ==
    ASSUME TypeOK, NEW c \in Tabs, TabInv(c), TabStep(c)
    PROVE  TabInv(c)' /\ LockChange(c)
<1> DEFINE Goal == TabInv(c)' /\ LockChange(c)
<1> USE LockAssumption
<1>0. /\ LockTypeOK
      /\ exited \in [Tabs -> BOOLEAN]
      /\ op \in [Tabs -> Op]
      /\ open \in [Tabs -> Names \cup {NoName}]
      /\ lastLease[c] \in Nat /\ lease[c] \in Nat /\ op[c].lease \in Nat /\ worker[c] \in Nat
      /\ op[c].lease \in Leases \cup {NoLease} /\ lease[c] \in Leases \cup {NoLease}
      /\ announcing[c] \subseteq Nat
  BY WorkerAssumption DEF TypeOK, LockTypeOK, Leases, NoLease, Op, Workers
<1>a. Acquiring(c) /\ GrantOwned(c) /\ OpenOwned(c) /\ AnnouncedDead(c)
  BY DEF TabInv
<1>1. ASSUME NEW n \in Names, StartBegins(c, n) PROVE Goal
  <2>1. LockChange(c)
    BY <1>0, <1>1 DEF StartBegins, LockChange
  <2>2. Acquiring(c)'
    BY <1>0, <1>a, <1>1 DEF StartBegins, Acquiring, GrantOwned, OpenOwned, AnnouncedDead, Held, Settling, TypeOK, LockTypeOK, lockVars, clientVars, NoOp, IdleLock, NoLease
  <2>3. GrantOwned(c)'
    BY <1>0, <1>a, <1>1 DEF StartBegins, Acquiring, GrantOwned, OpenOwned, AnnouncedDead, Held, Settling, TypeOK, LockTypeOK, lockVars, clientVars, NoOp, IdleLock, NoLease
  <2>4. OpenOwned(c)'
    BY <1>0, <1>a, <1>1 DEF StartBegins, Acquiring, GrantOwned, OpenOwned, AnnouncedDead, Held, Settling, TypeOK, LockTypeOK, lockVars, clientVars, NoOp, IdleLock, NoLease
  <2>5. AnnouncedDead(c)'
    BY <1>0, <1>a, <1>1 DEF StartBegins, Acquiring, GrantOwned, OpenOwned, AnnouncedDead, Held, Settling, TypeOK, LockTypeOK, lockVars, clientVars, NoOp, IdleLock, NoLease
  <2> QED
    BY <2>1, <2>2, <2>3, <2>4, <2>5 DEF TabInv
<1>2. ASSUME StartAcquires(c) PROVE Goal
  <2>1. LockChange(c)
    BY <1>0, <1>a, <1>2 DEF StartAcquires, LockChange, Acquiring
  <2>2. Acquiring(c)'
    BY <1>0, <1>a, <1>2 DEF StartAcquires, Request, Acquiring, GrantOwned, OpenOwned, AnnouncedDead, Held, Settling, TypeOK, LockTypeOK, lockVars, clientVars, NoOp, IdleLock, NoLease
  <2>3. GrantOwned(c)'
    BY <1>0, <1>a, <1>2 DEF StartAcquires, Request, Acquiring, GrantOwned, OpenOwned, AnnouncedDead, Held, Settling, TypeOK, LockTypeOK, lockVars, clientVars, NoOp, IdleLock, NoLease
  <2>4. OpenOwned(c)'
    BY <1>0, <1>a, <1>2 DEF StartAcquires, Request, Acquiring, GrantOwned, OpenOwned, AnnouncedDead, Held, Settling, TypeOK, LockTypeOK, lockVars, clientVars, NoOp, IdleLock, NoLease
  <2>5. AnnouncedDead(c)'
    BY <1>0, <1>a, <1>2 DEF StartAcquires, Request, Acquiring, GrantOwned, OpenOwned, AnnouncedDead, Held, Settling, TypeOK, LockTypeOK, lockVars, clientVars, NoOp, IdleLock, NoLease
  <2> QED
    BY <2>1, <2>2, <2>3, <2>4, <2>5 DEF TabInv
<1>3. ASSUME StartGranted(c) PROVE Goal
  <2>1. LockChange(c)
    BY <1>0, <1>3 DEF StartGranted, LockChange
  <2>2. Acquiring(c)'
    BY <1>0, <1>a, <1>3, GrantFacts, GotoFacts DEF StartGranted, Acquiring, GrantOwned, OpenOwned, AnnouncedDead, Held, Settling, TypeOK, LockTypeOK, lockVars, clientVars, NoOp, IdleLock, NoLease
  <2>3. GrantOwned(c)'
    BY <1>0, <1>a, <1>3, GrantFacts, GotoFacts DEF StartGranted, Acquiring, GrantOwned, OpenOwned, AnnouncedDead, Held, Settling, TypeOK, LockTypeOK, lockVars, clientVars, NoOp, IdleLock, NoLease
  <2>4. OpenOwned(c)'
    BY <1>0, <1>a, <1>3, GrantFacts, GotoFacts DEF StartGranted, Acquiring, GrantOwned, OpenOwned, AnnouncedDead, Held, Settling, TypeOK, LockTypeOK, lockVars, clientVars, NoOp, IdleLock, NoLease
  <2>5. AnnouncedDead(c)'
    BY <1>0, <1>a, <1>3, GrantFacts, GotoFacts DEF StartGranted, Acquiring, GrantOwned, OpenOwned, AnnouncedDead, Held, Settling, TypeOK, LockTypeOK, lockVars, clientVars, NoOp, IdleLock, NoLease
  <2> QED
    BY <2>1, <2>2, <2>3, <2>4, <2>5 DEF TabInv
<1>4. ASSUME StartDenied(c) PROVE Goal
  <2>1. LockChange(c)
    BY <1>0, <1>4 DEF StartDenied, Deny, RequestFails, LockChange
  <2>2. Acquiring(c)'
    BY <1>0, <1>a, <1>4, FinishFacts DEF StartDenied, Deny, RequestFails, Acquiring, GrantOwned, OpenOwned, AnnouncedDead, Held, Settling, TypeOK, LockTypeOK, lockVars, clientVars, NoOp, IdleLock, NoLease
  <2>3. GrantOwned(c)'
    BY <1>0, <1>a, <1>4, FinishFacts DEF StartDenied, Deny, RequestFails, Acquiring, GrantOwned, OpenOwned, AnnouncedDead, Held, Settling, TypeOK, LockTypeOK, lockVars, clientVars, NoOp, IdleLock, NoLease
  <2>4. OpenOwned(c)'
    BY <1>0, <1>a, <1>4, FinishFacts DEF StartDenied, Deny, RequestFails, Acquiring, GrantOwned, OpenOwned, AnnouncedDead, Held, Settling, TypeOK, LockTypeOK, lockVars, clientVars, NoOp, IdleLock, NoLease
  <2>5. AnnouncedDead(c)'
    BY <1>0, <1>a, <1>4, FinishFacts DEF StartDenied, Deny, RequestFails, Acquiring, GrantOwned, OpenOwned, AnnouncedDead, Held, Settling, TypeOK, LockTypeOK, lockVars, clientVars, NoOp, IdleLock, NoLease
  <2> QED
    BY <2>1, <2>2, <2>3, <2>4, <2>5 DEF TabInv
<1>5. ASSUME StartBoots(c) PROVE Goal
  <2>1. LockChange(c)
    BY <1>0, <1>5 DEF StartBoots, LockChange
  <2>2. Acquiring(c)'
    BY <1>0, <1>a, <1>5, ReleaseFacts, GotoFacts DEF StartBoots, Acquiring, GrantOwned, OpenOwned, AnnouncedDead, Held, Settling, TypeOK, LockTypeOK, lockVars, clientVars, NoOp, IdleLock, NoLease
  <2>3. GrantOwned(c)'
    BY <1>0, <1>a, <1>5, ReleaseFacts, GotoFacts DEF StartBoots, Acquiring, GrantOwned, OpenOwned, AnnouncedDead, Held, Settling, TypeOK, LockTypeOK, lockVars, clientVars, NoOp, IdleLock, NoLease
  <2>4. OpenOwned(c)'
    BY <1>0, <1>a, <1>5, ReleaseFacts, GotoFacts DEF StartBoots, Acquiring, GrantOwned, OpenOwned, AnnouncedDead, Held, Settling, TypeOK, LockTypeOK, lockVars, clientVars, NoOp, IdleLock, NoLease
  <2>5. AnnouncedDead(c)'
    BY <1>0, <1>a, <1>5, ReleaseFacts, GotoFacts DEF StartBoots, Acquiring, GrantOwned, OpenOwned, AnnouncedDead, Held, Settling, TypeOK, LockTypeOK, lockVars, clientVars, NoOp, IdleLock, NoLease
  <2> QED
    BY <2>1, <2>2, <2>3, <2>4, <2>5 DEF TabInv
<1>6. ASSUME BootSucceeds(c) PROVE Goal
  <2>1. LockChange(c)
    BY <1>0, <1>6 DEF BootSucceeds, Tell, LockChange
  <2>2. Acquiring(c)'
    BY <1>0, <1>a, <1>6, FinishFacts DEF BootSucceeds, Tell, Acquiring, GrantOwned, OpenOwned, AnnouncedDead, Held, Settling, TypeOK, LockTypeOK, lockVars, clientVars, NoOp, IdleLock, NoLease
  <2>3. GrantOwned(c)'
    BY <1>0, <1>a, <1>6, FinishFacts DEF BootSucceeds, Tell, Acquiring, GrantOwned, OpenOwned, AnnouncedDead, Held, Settling, TypeOK, LockTypeOK, lockVars, clientVars, NoOp, IdleLock, NoLease
  <2>4. OpenOwned(c)'
    BY <1>0, <1>a, <1>6, FinishFacts DEF BootSucceeds, Tell, Acquiring, GrantOwned, OpenOwned, AnnouncedDead, Held, Settling, TypeOK, LockTypeOK, lockVars, clientVars, NoOp, IdleLock, NoLease
  <2>5. AnnouncedDead(c)'
    BY <1>0, <1>a, <1>6, FinishFacts DEF BootSucceeds, Tell, Acquiring, GrantOwned, OpenOwned, AnnouncedDead, Held, Settling, TypeOK, LockTypeOK, lockVars, clientVars, NoOp, IdleLock, NoLease
  <2> QED
    BY <2>1, <2>2, <2>3, <2>4, <2>5 DEF TabInv
<1>7. ASSUME BootFails(c) PROVE Goal
  <2>1. LockChange(c)
    BY <1>0, <1>7 DEF BootFails, LockChange
  <2>2. Acquiring(c)'
    BY <1>0, <1>a, <1>7, FinishFacts, KillFacts, ReleaseFacts, GotoFacts DEF BootFails, Acquiring, GrantOwned, OpenOwned, AnnouncedDead, Held, Settling, TypeOK, LockTypeOK, lockVars, clientVars, NoOp, IdleLock, NoLease
  <2>3. GrantOwned(c)'
    BY <1>0, <1>a, <1>7, FinishFacts, KillFacts, ReleaseFacts, GotoFacts DEF BootFails, Acquiring, GrantOwned, OpenOwned, AnnouncedDead, Held, Settling, TypeOK, LockTypeOK, lockVars, clientVars, NoOp, IdleLock, NoLease
  <2>4. OpenOwned(c)'
    BY <1>0, <1>a, <1>7, FinishFacts, KillFacts, ReleaseFacts, GotoFacts DEF BootFails, Acquiring, GrantOwned, OpenOwned, AnnouncedDead, Held, Settling, TypeOK, LockTypeOK, lockVars, clientVars, NoOp, IdleLock, NoLease
  <2>5. AnnouncedDead(c)'
    BY <1>0, <1>a, <1>7, FinishFacts, KillFacts, ReleaseFacts, GotoFacts DEF BootFails, Acquiring, GrantOwned, OpenOwned, AnnouncedDead, Held, Settling, TypeOK, LockTypeOK, lockVars, clientVars, NoOp, IdleLock, NoLease
  <2> QED
    BY <2>1, <2>2, <2>3, <2>4, <2>5 DEF TabInv
<1>8. ASSUME StartFails(c) PROVE Goal
  <2>1. LockChange(c)
    BY <1>0, <1>8 DEF StartFails, Tell, LockChange
  <2>2. Acquiring(c)'
    BY <1>0, <1>a, <1>8, FinishFacts DEF StartFails, Tell, Acquiring, GrantOwned, OpenOwned, AnnouncedDead, Held, Settling, TypeOK, LockTypeOK, lockVars, clientVars, NoOp, IdleLock, NoLease
  <2>3. GrantOwned(c)'
    BY <1>0, <1>a, <1>8, FinishFacts DEF StartFails, Tell, Acquiring, GrantOwned, OpenOwned, AnnouncedDead, Held, Settling, TypeOK, LockTypeOK, lockVars, clientVars, NoOp, IdleLock, NoLease
  <2>4. OpenOwned(c)'
    BY <1>0, <1>a, <1>8, FinishFacts DEF StartFails, Tell, Acquiring, GrantOwned, OpenOwned, AnnouncedDead, Held, Settling, TypeOK, LockTypeOK, lockVars, clientVars, NoOp, IdleLock, NoLease
  <2>5. AnnouncedDead(c)'
    BY <1>0, <1>a, <1>8, FinishFacts DEF StartFails, Tell, Acquiring, GrantOwned, OpenOwned, AnnouncedDead, Held, Settling, TypeOK, LockTypeOK, lockVars, clientVars, NoOp, IdleLock, NoLease
  <2> QED
    BY <2>1, <2>2, <2>3, <2>4, <2>5 DEF TabInv
<1>9. ASSUME StopBegins(c) PROVE Goal
  <2>1. LockChange(c)
    BY <1>0, <1>9 DEF StopBegins, LockChange
  <2>2. Acquiring(c)'
    BY <1>0, <1>a, <1>9 DEF StopBegins, Acquiring, GrantOwned, OpenOwned, AnnouncedDead, Held, Settling, TypeOK, LockTypeOK, lockVars, clientVars, NoOp, IdleLock, NoLease
  <2>3. GrantOwned(c)'
    BY <1>0, <1>a, <1>9 DEF StopBegins, Acquiring, GrantOwned, OpenOwned, AnnouncedDead, Held, Settling, TypeOK, LockTypeOK, lockVars, clientVars, NoOp, IdleLock, NoLease
  <2>4. OpenOwned(c)'
    BY <1>0, <1>a, <1>9 DEF StopBegins, Acquiring, GrantOwned, OpenOwned, AnnouncedDead, Held, Settling, TypeOK, LockTypeOK, lockVars, clientVars, NoOp, IdleLock, NoLease
  <2>5. AnnouncedDead(c)'
    BY <1>0, <1>a, <1>9 DEF StopBegins, Acquiring, GrantOwned, OpenOwned, AnnouncedDead, Held, Settling, TypeOK, LockTypeOK, lockVars, clientVars, NoOp, IdleLock, NoLease
  <2> QED
    BY <2>1, <2>2, <2>3, <2>4, <2>5 DEF TabInv
<1>10. ASSUME StopAcknowledged(c) PROVE Goal
  <2>1. LockChange(c)
    BY <1>0, <1>10 DEF StopAcknowledged, LockChange
  <2>2. Acquiring(c)'
    BY <1>0, <1>a, <1>10, ReleaseFacts, GotoFacts DEF StopAcknowledged, Acquiring, GrantOwned, OpenOwned, AnnouncedDead, Held, Settling, TypeOK, LockTypeOK, lockVars, clientVars, NoOp, IdleLock, NoLease
  <2>3. GrantOwned(c)'
    BY <1>0, <1>a, <1>10, ReleaseFacts, GotoFacts DEF StopAcknowledged, Acquiring, GrantOwned, OpenOwned, AnnouncedDead, Held, Settling, TypeOK, LockTypeOK, lockVars, clientVars, NoOp, IdleLock, NoLease
  <2>4. OpenOwned(c)'
    BY <1>0, <1>a, <1>10, ReleaseFacts, GotoFacts DEF StopAcknowledged, Acquiring, GrantOwned, OpenOwned, AnnouncedDead, Held, Settling, TypeOK, LockTypeOK, lockVars, clientVars, NoOp, IdleLock, NoLease
  <2>5. AnnouncedDead(c)'
    BY <1>0, <1>a, <1>10, ReleaseFacts, GotoFacts DEF StopAcknowledged, Acquiring, GrantOwned, OpenOwned, AnnouncedDead, Held, Settling, TypeOK, LockTypeOK, lockVars, clientVars, NoOp, IdleLock, NoLease
  <2> QED
    BY <2>1, <2>2, <2>3, <2>4, <2>5 DEF TabInv
<1>11. ASSUME StopFails(c) PROVE Goal
  <2>1. LockChange(c)
    BY <1>0, <1>11 DEF StopFails, LockChange
  <2>2. Acquiring(c)'
    BY <1>0, <1>a, <1>11, FinishFacts DEF StopFails, Acquiring, GrantOwned, OpenOwned, AnnouncedDead, Held, Settling, TypeOK, LockTypeOK, lockVars, clientVars, NoOp, IdleLock, NoLease
  <2>3. GrantOwned(c)'
    BY <1>0, <1>a, <1>11, FinishFacts DEF StopFails, Acquiring, GrantOwned, OpenOwned, AnnouncedDead, Held, Settling, TypeOK, LockTypeOK, lockVars, clientVars, NoOp, IdleLock, NoLease
  <2>4. OpenOwned(c)'
    BY <1>0, <1>a, <1>11, FinishFacts DEF StopFails, Acquiring, GrantOwned, OpenOwned, AnnouncedDead, Held, Settling, TypeOK, LockTypeOK, lockVars, clientVars, NoOp, IdleLock, NoLease
  <2>5. AnnouncedDead(c)'
    BY <1>0, <1>a, <1>11, FinishFacts DEF StopFails, Acquiring, GrantOwned, OpenOwned, AnnouncedDead, Held, Settling, TypeOK, LockTypeOK, lockVars, clientVars, NoOp, IdleLock, NoLease
  <2> QED
    BY <2>1, <2>2, <2>3, <2>4, <2>5 DEF TabInv
<1>12. ASSUME StopCompletes(c) PROVE Goal
  <2>1. LockChange(c)
    BY <1>0, <1>12 DEF StopCompletes, Tell, LockChange
  <2>2. Acquiring(c)'
    BY <1>0, <1>a, <1>12, FinishFacts DEF StopCompletes, Tell, Acquiring, GrantOwned, OpenOwned, AnnouncedDead, Held, Settling, TypeOK, LockTypeOK, lockVars, clientVars, NoOp, IdleLock, NoLease
  <2>3. GrantOwned(c)'
    BY <1>0, <1>a, <1>12, FinishFacts DEF StopCompletes, Tell, Acquiring, GrantOwned, OpenOwned, AnnouncedDead, Held, Settling, TypeOK, LockTypeOK, lockVars, clientVars, NoOp, IdleLock, NoLease
  <2>4. OpenOwned(c)'
    BY <1>0, <1>a, <1>12, FinishFacts DEF StopCompletes, Tell, Acquiring, GrantOwned, OpenOwned, AnnouncedDead, Held, Settling, TypeOK, LockTypeOK, lockVars, clientVars, NoOp, IdleLock, NoLease
  <2>5. AnnouncedDead(c)'
    BY <1>0, <1>a, <1>12, FinishFacts DEF StopCompletes, Tell, Acquiring, GrantOwned, OpenOwned, AnnouncedDead, Held, Settling, TypeOK, LockTypeOK, lockVars, clientVars, NoOp, IdleLock, NoLease
  <2> QED
    BY <2>1, <2>2, <2>3, <2>4, <2>5 DEF TabInv
<1>13. ASSUME NEW w \in Workers, WorkerDies(c, w) PROVE Goal
  <2>1. LockChange(c)
    BY <1>0, <1>13 DEF WorkerDies, LockChange
  <2>2. Acquiring(c)'
    BY <1>0, <1>a, <1>13, KillFacts, ReleaseFacts DEF WorkerDies, Acquiring, GrantOwned, OpenOwned, AnnouncedDead, Held, Settling, TypeOK, LockTypeOK, lockVars, clientVars, NoOp, IdleLock, NoLease
  <2>3. GrantOwned(c)'
    BY <1>0, <1>a, <1>13, KillFacts, ReleaseFacts DEF WorkerDies, Acquiring, GrantOwned, OpenOwned, AnnouncedDead, Held, Settling, TypeOK, LockTypeOK, lockVars, clientVars, NoOp, IdleLock, NoLease
  <2>4. OpenOwned(c)'
    BY <1>0, <1>a, <1>13, KillFacts, ReleaseFacts DEF WorkerDies, Acquiring, GrantOwned, OpenOwned, AnnouncedDead, Held, Settling, TypeOK, LockTypeOK, lockVars, clientVars, NoOp, IdleLock, NoLease
  <2>5. AnnouncedDead(c)'
    <3>1. w = worker[c] /\ worker' = worker /\ exited'[c]
      BY <1>0, <1>13, KillFacts DEF WorkerDies, Kills
    <3>2. announcing'[c] = announcing[c] \cup {w}
      BY <1>13 DEF WorkerDies, TypeOK
    <3> QED
      BY <1>0, <1>a, <3>1, <3>2 DEF AnnouncedDead
  <2> QED
    BY <2>1, <2>2, <2>3, <2>4, <2>5 DEF TabInv
<1>14. ASSUME NEW w \in Workers, Announces(c, w) PROVE Goal
  <2>1. LockChange(c)
    BY <1>0, <1>14 DEF Announces, Tell, LockChange
  <2>2. Acquiring(c)'
    BY <1>0, <1>a, <1>14 DEF Announces, Tell, Acquiring, GrantOwned, OpenOwned, AnnouncedDead, Held, Settling, TypeOK, LockTypeOK, lockVars, clientVars, NoOp, IdleLock, NoLease
  <2>3. GrantOwned(c)'
    BY <1>0, <1>a, <1>14 DEF Announces, Tell, Acquiring, GrantOwned, OpenOwned, AnnouncedDead, Held, Settling, TypeOK, LockTypeOK, lockVars, clientVars, NoOp, IdleLock, NoLease
  <2>4. OpenOwned(c)'
    BY <1>0, <1>a, <1>14 DEF Announces, Tell, Acquiring, GrantOwned, OpenOwned, AnnouncedDead, Held, Settling, TypeOK, LockTypeOK, lockVars, clientVars, NoOp, IdleLock, NoLease
  <2>5. AnnouncedDead(c)'
    BY <1>0, <1>a, <1>14 DEF Announces, Tell, Acquiring, GrantOwned, OpenOwned, AnnouncedDead, Held, Settling, TypeOK, LockTypeOK, lockVars, clientVars, NoOp, IdleLock, NoLease
  <2> QED
    BY <2>1, <2>2, <2>3, <2>4, <2>5 DEF TabInv
<1>15. ASSUME Dispose(c) PROVE Goal
  <2>1. LockChange(c)
    BY <1>0, <1>15 DEF Dispose, LockChange
  <2>2. Acquiring(c)'
    BY <1>0, <1>a, <1>15, KillFacts, ReleaseFacts DEF Dispose, Acquiring, GrantOwned, OpenOwned, AnnouncedDead, Held, Settling, TypeOK, LockTypeOK, lockVars, clientVars, NoOp, IdleLock, NoLease
  <2>3. GrantOwned(c)'
    BY <1>0, <1>a, <1>15, KillFacts, ReleaseFacts DEF Dispose, Acquiring, GrantOwned, OpenOwned, AnnouncedDead, Held, Settling, TypeOK, LockTypeOK, lockVars, clientVars, NoOp, IdleLock, NoLease
  <2>4. OpenOwned(c)'
    BY <1>0, <1>a, <1>15, KillFacts, ReleaseFacts DEF Dispose, Acquiring, GrantOwned, OpenOwned, AnnouncedDead, Held, Settling, TypeOK, LockTypeOK, lockVars, clientVars, NoOp, IdleLock, NoLease
  <2>5. AnnouncedDead(c)'
    BY <1>0, <1>a, <1>15, KillFacts, ReleaseFacts DEF Dispose, Acquiring, GrantOwned, OpenOwned, AnnouncedDead, Held, Settling, TypeOK, LockTypeOK, lockVars, clientVars, NoOp, IdleLock, NoLease
  <2> QED
    BY <2>1, <2>2, <2>3, <2>4, <2>5 DEF TabInv
<1>16. ASSUME TabCloses(c) PROVE Goal
  <2>1. LockChange(c)
    BY <1>0, <1>16 DEF TabCloses, LockPageGone, LockChange
  <2>2. Acquiring(c)'
    BY <1>0, <1>a, <1>16 DEF TabCloses, LockPageGone, Acquiring, GrantOwned, OpenOwned, AnnouncedDead, Held, Settling, TypeOK, LockTypeOK, lockVars, clientVars, NoOp, IdleLock, NoLease
  <2>3. GrantOwned(c)'
    BY <1>0, <1>a, <1>16 DEF TabCloses, LockPageGone, Acquiring, GrantOwned, OpenOwned, AnnouncedDead, Held, Settling, TypeOK, LockTypeOK, lockVars, clientVars, NoOp, IdleLock, NoLease
  <2>4. OpenOwned(c)'
    BY <1>0, <1>a, <1>16 DEF TabCloses, LockPageGone, Acquiring, GrantOwned, OpenOwned, AnnouncedDead, Held, Settling, TypeOK, LockTypeOK, lockVars, clientVars, NoOp, IdleLock, NoLease
  <2>5. AnnouncedDead(c)'
    BY <1>0, <1>a, <1>16 DEF TabCloses, LockPageGone, Acquiring, GrantOwned, OpenOwned, AnnouncedDead, Held, Settling, TypeOK, LockTypeOK, lockVars, clientVars, NoOp, IdleLock, NoLease
  <2> QED
    BY <2>1, <2>2, <2>3, <2>4, <2>5 DEF TabInv
<1>17. ASSUME LockStep(c) PROVE Goal
  <2>1. LockChange(c)
    BY <1>0, <1>17 DEF LockStep, Free, Settle, LockChange
  <2>2. Acquiring(c)'
    BY <1>0, <1>a, <1>17 DEF LockStep, Free, Settle, Acquiring, GrantOwned, OpenOwned, AnnouncedDead, Held, Settling, TypeOK, LockTypeOK, lockVars, clientVars, NoOp, IdleLock, NoLease
  <2>3. GrantOwned(c)'
    BY <1>0, <1>a, <1>17 DEF LockStep, Free, Settle, Acquiring, GrantOwned, OpenOwned, AnnouncedDead, Held, Settling, TypeOK, LockTypeOK, lockVars, clientVars, NoOp, IdleLock, NoLease
  <2>4. OpenOwned(c)'
    BY <1>0, <1>a, <1>17 DEF LockStep, Free, Settle, Acquiring, GrantOwned, OpenOwned, AnnouncedDead, Held, Settling, TypeOK, LockTypeOK, lockVars, clientVars, NoOp, IdleLock, NoLease
  <2>5. AnnouncedDead(c)'
    BY <1>0, <1>a, <1>17 DEF LockStep, Free, Settle, Acquiring, GrantOwned, OpenOwned, AnnouncedDead, Held, Settling, TypeOK, LockTypeOK, lockVars, clientVars, NoOp, IdleLock, NoLease
  <2> QED
    BY <2>1, <2>2, <2>3, <2>4, <2>5 DEF TabInv
<1> QED
  BY <1>1, <1>2, <1>3, <1>4, <1>5, <1>6, <1>7, <1>8, <1>9, <1>10, <1>11, <1>12, <1>13, <1>14, <1>15, <1>16, <1>17 DEF TabStep, Proceed

-----------------------------------------------------------------------------
LEMMA NextIInv ==
    ASSUME IInv, [Next]_vars
    PROVE  IInv'
<1>0. TypeOK /\ LockMatchesBrowser /\ \A d \in Tabs : TabInv(d)
  BY DEF IInv
<1>1. ASSUME NEW c \in Tabs, TabStep(c) PROVE IInv'
  <2>1. TypeOK'
    BY <1>0, <1>1, StepTypeOK
  <2>2. TabInv(c)' /\ LockChange(c)
    BY <1>0, <1>1, OwnTab
  <2>3. ASSUME NEW d \in Tabs, d # c PROVE TabInv(d)'
    BY <1>0, <1>1, <2>3, OtherTabs, SameTabInv
  <2>4. \A d \in Tabs : lock[d].kind # "idle" => lock[d].name \in Names
    BY <1>0 DEF TabInv, GrantOwned
  <2>5. LockMatchesBrowser'
    BY <1>0, <2>2, <2>4, LockChangeMatches
  <2> QED
    BY <2>1, <2>2, <2>3, <2>5 DEF IInv
<1>2. CASE UNCHANGED vars
  BY <1>0, <1>2 DEF IInv, vars, lockVars, clientVars, TypeOK, LockTypeOK, LockMatchesBrowser,
     TabInv, Acquiring, GrantOwned, OpenOwned, AnnouncedDead, Held
<1> QED
  BY <1>1, <1>2 DEF Next

(* The inductive invariant holds in every reachable state of the clients,   *)
(* for any tabs, lock names, leases and workers.                           *)
THEOREM Invariance == Spec => []IInv
<1> QED
  BY InitIInv, NextIInv, PTL DEF Spec

(* Type correctness of the web client and of its lock.                     *)
THEOREM TypeCorrect == Spec => []TypeOK
<1>1. IInv => TypeOK
  BY DEF IInv
<1> QED
  BY <1>1, Invariance, PTL

(* Where the browser has Web Locks, no two tabs ever have the databases of *)
(* one lock name open.                                                     *)
THEOREM Exclusion == ASSUME WebLocks PROVE Spec => []MutualExclusion
<1>1. IInv => MutualExclusion
  BY IInvImplies
<1> QED
  BY <1>1, Invariance, PTL

(* With or without Web Locks: databases are open only under the lease of a *)
(* live session, a dead runtime never strands the lock, and no late        *)
(* announcement hides a running daemon from the host.                      *)
THEOREM SessionSafety == Spec => []SessionIsWhole
<1>1. IInv => SessionIsWhole
  BY IInvImplies DEF SessionIsWhole
<1> QED
  BY <1>1, Invariance, PTL

(* The lock of a tab and the browser never disagree.                       *)
THEOREM LockAgreement == Spec => []LockMatchesBrowser
<1>1. IInv => LockMatchesBrowser
  BY DEF IInv
<1> QED
  BY <1>1, Invariance, PTL

-----------------------------------------------------------------------------
(* The client implements WalletDatabases.                                  *)

users == [n \in Names |-> {c \in Tabs : open[c] = n}]

(* A tab closes its databases, or opens those of the lock it holds.        *)
LEMMA OpenChange ==
    ASSUME TypeOK, NEW c \in Tabs, TabInv(c), TabStep(c)
    PROVE  \/ open'[c] = open[c]
           \/ open'[c] = NoName
           \/ /\ open[c] = NoName /\ open'[c] \in Names
              /\ Held(c) /\ lock[c].name = open'[c]
<1>0. /\ exited \in [Tabs -> BOOLEAN]
      /\ open \in [Tabs -> Names \cup {NoName}]
  BY DEF TypeOK
<1>1. CASE StartBoots(c)
  BY <1>0, <1>1 DEF StartBoots, TabInv, Acquiring, OpenOwned, Held
<1>2. CASE TabCloses(c) \/ StopAcknowledged(c)
  BY <1>0, <1>2 DEF TabCloses, StopAcknowledged
<1>3. ASSUME BootFails(c) \/ Dispose(c) \/ (\E w \in Workers : WorkerDies(c, w))
      PROVE  open'[c] = open[c] \/ open'[c] = NoName
  BY <1>0, <1>3, KillFacts DEF BootFails, Dispose, WorkerDies
<1>4. ASSUME \/ LockStep(c) \/ StartAcquires(c) \/ StartGranted(c) \/ StartDenied(c)
             \/ BootSucceeds(c) \/ StartFails(c) \/ StopFails(c) \/ StopCompletes(c)
             \/ StopBegins(c)
             \/ \E w \in Workers : Announces(c, w)
             \/ \E n \in Names : StartBegins(c, n)
      PROVE  open'[c] = open[c]
  BY <1>4 DEF LockStep, clientVars, StartAcquires, StartGranted, StartDenied, BootSucceeds,
     StartFails, StopFails, StopCompletes, StopBegins, Announces, StartBegins
<1> QED
  BY <1>1, <1>2, <1>3, <1>4 DEF TabStep, Proceed

LEMMA RefinedInit == Init => users = [n \in Names |-> {}]
<1> SUFFICES ASSUME Init, NEW n \in Names PROVE {c \in Tabs : open[c] = n} = {}
  BY DEF users
<1> QED
  BY LockAssumption DEF Init

LEMMA RefinedStep ==
    ASSUME WebLocks, IInv, [Next]_vars
    PROVE  [Databases!Next]_users
<1>0. TypeOK /\ LockMatchesBrowser /\ \A d \in Tabs : TabInv(d)
  BY DEF IInv
<1>1. CASE UNCHANGED vars
  BY <1>1 DEF vars, clientVars, users
<1>2. ASSUME NEW c \in Tabs, TabStep(c) PROVE [Databases!Next]_users
  <2>0. open \in [Tabs -> Names \cup {NoName}] /\ NoName \notin Names
    BY <1>0, LockAssumption DEF TypeOK
  <2>1. \A d \in Tabs : d # c => open'[d] = open[d]
    BY <1>0, <1>2, OtherTabs DEF SameTab
  <2>2. CASE open'[c] = open[c]
    BY <2>1, <2>2 DEF users
  <2>3. CASE open[c] # NoName /\ open'[c] = NoName
    <3>1. open[c] \in Names
      BY <2>0, <2>3
    <3>2. users' = [users EXCEPT ![open[c]] = @ \ {c}]
      BY <2>0, <2>1, <2>3, <3>1 DEF users
    <3>3. c \in users[open[c]]
      BY <3>1 DEF users
    <3> QED
      BY <3>1, <3>2, <3>3 DEF Databases!Next, Databases!Close, users
  <2>4. CASE open[c] = NoName /\ open'[c] \in Names /\ Held(c) /\ lock[c].name = open'[c]
    <3>1. holder[open'[c]] = c
      BY <1>0, <2>4 DEF LockMatchesBrowser
    <3>2. ASSUME NEW d \in Tabs PROVE open[d] # open'[c]
      BY <1>0, <2>0, <2>4, <3>1 DEF LockMatchesBrowser, TabInv, OpenOwned
    <3>3. users[open'[c]] = {}
      BY <2>4, <3>2 DEF users
    <3>4. users' = [users EXCEPT ![open'[c]] = {c}]
      BY <2>0, <2>1, <2>4, <3>2 DEF users
    <3> QED
      BY <2>4, <3>3, <3>4 DEF Databases!Next, Databases!Open, users
  <2> QED
    BY <1>0, <1>2, <2>2, <2>3, <2>4, OpenChange
<1> QED
  BY <1>1, <1>2 DEF Next

(* Seen through the databases that are open, every behaviour of the web    *)
(* client, in any number of tabs, is one of WalletDatabases.               *)
THEOREM Refinement == ASSUME WebLocks PROVE Spec => ExclusiveDatabases
<1>1. Init => Databases!Init
  BY RefinedInit DEF Databases!Init, users
<1>2. IInv /\ [Next]_vars => [Databases!Next]_users
  BY RefinedStep
<1> QED
  BY <1>1, <1>2, Invariance, PTL DEF Spec, ExclusiveDatabases, Databases!Spec, users

-----------------------------------------------------------------------------
(* The requests of a page                                                  *)


LEMMA PageIsTab == Page \in Tabs
  BY RequestsAssumption

-----------------------------------------------------------------------------
(* Every step of the requests is one of the lifecycle, or none.            *)

LEMMA StepOfClient == [RequestsNext]_allVars => [Next]_vars
<1> USE PageIsTab
<1>1. ASSUME NEW s \in Calls, Asks(s) \/ Returns(s) PROVE UNCHANGED vars
  BY <1>1 DEF Asks, Returns, vars
<1>2. ASSUME NEW i \in Ids, Answers(i) PROVE UNCHANGED vars
  BY <1>2 DEF Answers, vars
<1>3. ASSUME NEW m \in answers, Arrives(m) PROVE UNCHANGED vars
  BY <1>3 DEF Arrives, vars
<1>4. ASSUME NEW m \in answers, OperationAnswered(m) PROVE TabStep(Page)
  BY <1>4 DEF OperationAnswered, TabStep, Proceed
<1>5. ASSUME BootCalls \/ StopCalls \/ OperationRejected PROVE TabStep(Page)
  BY <1>5 DEF BootCalls, StopCalls, OperationRejected, TabStep, Proceed
<1>6. ASSUME Resumes \/ HostTurns \/ Ends PROVE TabStep(Page)
  BY <1>6 DEF Resumes, HostTurns, Ends, TabStep, Proceed
<1>7. CASE UNCHANGED allVars
  BY <1>7 DEF allVars
<1> QED
  BY <1>1, <1>2, <1>3, <1>4, <1>5, <1>6, <1>7 DEF RequestsNext, Next

(* Whatever the host calls and however the answers arrive, the client      *)
(* behaves as WorkerClient says: all that is proved of it there holds with *)
(* its requests modelled.                                                  *)
THEOREM LifecycleKept == RequestsSpec => Spec
<1>1. RequestsInit => Init
  BY DEF RequestsInit
<1> QED
  BY <1>1, StepOfClient, PTL DEF RequestsSpec, Spec

-----------------------------------------------------------------------------
(* What the proof needs to know of the requests.                           *)

Pending(s) == calls[s].at = "pending"
Messages == inWorker \cup answers

(* The ids given out so far; a start() gets one more with each lease.      *)
IdsGivenOut ==
    /\ nextRequestID <= MaxRequests + lease[Page] + 1
    /\ \A s \in Slots : Pending(s) => calls[s].id < nextRequestID
    /\ \A m \in Messages : m.id < nextRequestID

(* A message with the id of a waiting call is of the worker it waits for.  *)
MessagesMatch ==
    \A s \in Slots, m \in Messages :
        Pending(s) /\ calls[s].id = m.id => calls[s].worker = m.worker

RequestsInv ==
    /\ RequestsTypeOK
    /\ IdsGivenOut
    /\ MessagesMatch
    /\ AnswersAreOwn
LEMMA InitRequestsInv == RequestsInit => RequestsInv
<1> SUFFICES ASSUME RequestsInit PROVE RequestsInv
  OBVIOUS
<1> USE RequestsAssumption, WorkerAssumption, LockAssumption
<1>0. /\ calls = [s \in Slots |-> NoPromise] /\ nextRequestID = 1
      /\ inWorker = {} /\ answers = {} /\ lease[Page] = 0
  BY DEF RequestsInit, Init, NoLease
<1>1. TypeOK
  BY InitIInv DEF RequestsInit, IInv
<1>2. NoPromise \in Promise
  BY DEF NoPromise, Promise
<1>3. RequestsTypeOK
  BY <1>0, <1>1, <1>2 DEF RequestsTypeOK
<1>4. IdsGivenOut /\ MessagesMatch /\ AnswersAreOwn
  BY <1>0 DEF IdsGivenOut, MessagesMatch, AnswersAreOwn, Pending, Messages, NoPromise
<1> QED
  BY <1>3, <1>4 DEF RequestsInv

-----------------------------------------------------------------------------
(* The lease of the session only grows, and with each boot.                *)

LEMMA LeaseGrows ==
    ASSUME IInv
    PROVE  /\ lease[Page] \in 0..MaxLeases /\ worker[Page] \in Workers
           /\ StartBoots(Page) => /\ lease'[Page] \in 0..MaxLeases
                                  /\ lease'[Page] > lease[Page]
<1> USE PageIsTab, LockAssumption
<1>1. TypeOK /\ Acquiring(Page)
  BY DEF IInv, TabInv
<1>2. /\ lease[Page] \in 0..MaxLeases /\ worker[Page] \in Workers
      /\ op[Page].lease \in 0..MaxLeases
  BY <1>1 DEF TypeOK, Op, Leases, NoLease
<1>3. ASSUME StartBoots(Page)
      PROVE  lease'[Page] \in 0..MaxLeases /\ lease'[Page] > lease[Page]
  <2>1. lease'[Page] = op[Page].lease
    BY <1>1, <1>3 DEF StartBoots, TypeOK
  <2>2. lease[Page] < op[Page].lease
    BY <1>1, <1>3 DEF StartBoots, Acquiring
  <2> QED
    BY <1>2, <2>1, <2>2
<1> QED
  BY <1>2, <1>3

(* The steps of the lifecycle that begin no session.                       *)
LEMMA LeaseStays ==
    ASSUME \/ BootSucceeds(Page) \/ BootFails(Page) \/ StopAcknowledged(Page)
           \/ StopFails(Page) \/ StopBegins(Page) \/ LockStep(Page)
           \/ StartAcquires(Page) \/ StartGranted(Page) \/ StartDenied(Page)
           \/ StartFails(Page) \/ StopCompletes(Page) \/ Dispose(Page)
           \/ \E w \in Workers : Announces(Page, w) \/ WorkerDies(Page, w)
           \/ \E n \in Names : StartBegins(Page, n)
    PROVE  lease' = lease
  BY DEF BootSucceeds, BootFails, StopAcknowledged, StopFails, StopBegins, LockStep,
     clientVars, StartAcquires, StartGranted, StartDenied, StartFails, StopCompletes,
     Dispose, Announces, WorkerDies, StartBegins

-----------------------------------------------------------------------------
(* What the steps make of the requests.                                    *)

(* A request is posted.                                                    *)
LEMMA PostKeeps ==
    ASSUME RequestsInv, IInv, TypeOK', NEW s \in Slots, Posts(s),
           lease'[Page] \in 0..MaxLeases,
           \/ nextRequestID <= MaxRequests /\ lease'[Page] >= lease[Page]
           \/ lease'[Page] > lease[Page]
    PROVE  RequestsInv'
<1> USE RequestsAssumption, LockAssumption
<1> DEFINE new == [at |-> "pending", id |-> nextRequestID, worker |-> worker[Page],
                   by |-> NoWorker]
           ask == [id |-> nextRequestID, worker |-> worker[Page]]
<1>0. /\ RequestsTypeOK /\ IdsGivenOut /\ MessagesMatch /\ AnswersAreOwn
      /\ lease[Page] \in 0..MaxLeases /\ worker[Page] \in Workers
  BY LeaseGrows DEF RequestsInv
<1>1. /\ nextRequestID \in Nat /\ nextRequestID \in Ids
      /\ nextRequestID + 1 <= MaxRequests + lease'[Page] + 1
      /\ nextRequestID + 1 \in 1..(MaxRequests + MaxLeases + 1)
  BY <1>0 DEF RequestsTypeOK, IdsGivenOut, Ids
<1>2. /\ new \in Promise
      /\ new.at = "pending" /\ new.id = nextRequestID
      /\ new.worker = worker[Page] /\ new.by = NoWorker
  BY <1>0, <1>1 DEF Promise
<1>3. /\ ask \in [id : Ids, worker : Workers]
      /\ ask.id = nextRequestID /\ ask.worker = worker[Page]
  BY <1>0, <1>1
<1>4. /\ calls' = [calls EXCEPT ![s] = new] /\ nextRequestID' = nextRequestID + 1
      /\ inWorker' = inWorker \cup {ask} /\ answers' = answers
  BY DEF Posts
<1> HIDE DEF new, ask
<1>5. RequestsTypeOK'
  BY <1>0, <1>1, <1>2, <1>3, <1>4 DEF RequestsTypeOK
<1>6. /\ \A t \in Slots : t # s => calls'[t] = calls[t]
      /\ calls'[s] = new
      /\ Messages' = Messages \cup {ask}
  BY <1>0, <1>4 DEF RequestsTypeOK, Messages
<1>7. /\ \A t \in Slots : calls[t].id \in Nat
      /\ \A m \in Messages : m.id \in Nat
  BY <1>0 DEF RequestsTypeOK, Promise, Ids, Messages
<1>8. IdsGivenOut'
  BY <1>0, <1>1, <1>2, <1>3, <1>4, <1>6, <1>7 DEF IdsGivenOut, Pending
<1>9. MessagesMatch'
  BY <1>0, <1>1, <1>2, <1>3, <1>6, <1>7 DEF MessagesMatch, IdsGivenOut, Pending
<1>10. AnswersAreOwn'
  BY <1>0, <1>2, <1>6 DEF AnswersAreOwn
<1> QED
  BY <1>5, <1>8, <1>9, <1>10 DEF RequestsInv

(* No id is given out: what waits keeps its id and its worker, and nothing *)
(* is on its way that was not.                                             *)
Wanes(cs) ==
    /\ cs \in [Slots -> Promise]
    /\ \A s \in Slots : cs[s].at = "pending" => cs[s] = calls[s]
    /\ \A s \in Slots : cs[s].by # NoWorker => cs[s].by = cs[s].worker

LEMMA WaneKeeps ==
    ASSUME RequestsInv, TypeOK', lease[Page] \in 0..MaxLeases,
           lease'[Page] \in 0..MaxLeases, lease'[Page] >= lease[Page],
           Wanes(calls'), nextRequestID' = nextRequestID,
           inWorker' \subseteq inWorker,
           answers' \subseteq [id : Ids, worker : Workers, ok : BOOLEAN],
           \A m \in answers' :
               \E k \in Messages : m.id = k.id /\ m.worker = k.worker
    PROVE  RequestsInv'
<1> USE RequestsAssumption, LockAssumption
<1>0. /\ RequestsTypeOK /\ IdsGivenOut /\ MessagesMatch
      /\ nextRequestID \in Nat
  BY DEF RequestsInv, RequestsTypeOK
<1>1. RequestsTypeOK'
  BY <1>0 DEF RequestsTypeOK, Wanes
<1>2. \A m \in Messages' : \E k \in Messages : m.id = k.id /\ m.worker = k.worker
  BY DEF Messages
<1>3. IdsGivenOut'
  BY <1>0, <1>2 DEF IdsGivenOut, Pending, Wanes
<1>4. MessagesMatch'
  BY <1>0, <1>2 DEF MessagesMatch, Pending, Wanes
<1>5. AnswersAreOwn'
  BY DEF AnswersAreOwn, Wanes
<1> QED
  BY <1>1, <1>3, <1>4, <1>5 DEF RequestsInv

(* An answer settles the calls it finds, as one of their own worker.       *)
LEMMA SettledWanes ==
    ASSUME RequestsInv, NEW m \in answers
    PROVE  Wanes(Settled(m))
<1>0. RequestsTypeOK /\ MessagesMatch /\ AnswersAreOwn /\ m \in Messages
  BY DEF RequestsInv, Messages
<1>1. ASSUME NEW s \in Slots
      PROVE  /\ Settled(m)[s] \in Promise
             /\ Settled(m)[s].at = "pending" => Settled(m)[s] = calls[s]
             /\ Settled(m)[s].by # NoWorker => Settled(m)[s].by = Settled(m)[s].worker
  <2> DEFINE at == IF m.ok THEN "resolved" ELSE "rejected"
             a == [calls[s] EXCEPT !.at = at]
             b == [a EXCEPT !.by = m.worker]
  <2>0. at \in {"resolved", "rejected"} /\ m.worker \in Workers /\ calls[s] \in Promise
    BY <1>0 DEF RequestsTypeOK
  <2>1. Settled(m)[s] = IF s \in Waiting(m) THEN b ELSE calls[s]
    BY DEF Settled
  <2> HIDE DEF at
  <2>2. a \in Promise /\ a.at = at /\ a.worker = calls[s].worker
    BY <2>0 DEF Promise
  <2> HIDE DEF a
  <2>3. b \in Promise /\ b.at = at /\ b.worker = calls[s].worker /\ b.by = m.worker
    BY <2>0, <2>2 DEF Promise
  <2> HIDE DEF b
  <2>4. CASE s \in Waiting(m)
    <3>1. calls[s].worker = m.worker
      BY <1>0, <2>4 DEF Waiting, MessagesMatch, Pending
    <3> QED
      BY <2>0, <2>1, <2>3, <2>4, <3>1
  <2>5. CASE s \notin Waiting(m)
    BY <1>0, <2>0, <2>1, <2>5 DEF AnswersAreOwn
  <2> QED
    BY <2>4, <2>5
<1>2. Settled(m) \in [Slots -> Promise]
  BY <1>1 DEF Settled
<1> QED
  BY <1>1, <1>2 DEF Wanes

(* The death of a worker rejects the calls that wait.                      *)
LEMMA RejectAllWanes ==
    ASSUME NEW cs, Wanes(cs)
    PROVE  Wanes(RejectAll(cs))
<1>1. ASSUME NEW s \in Slots
      PROVE  /\ RejectAll(cs)[s] \in Promise
             /\ RejectAll(cs)[s].at = "pending" => RejectAll(cs)[s] = calls[s]
             /\ RejectAll(cs)[s].by # NoWorker =>
                  RejectAll(cs)[s].by = RejectAll(cs)[s].worker
  <2> DEFINE a == [cs[s] EXCEPT !.at = "rejected"]
  <2>1. a \in Promise /\ a.at = "rejected" /\ a.worker = cs[s].worker /\ a.by = cs[s].by
    BY DEF Wanes, Promise
  <2>2. RejectAll(cs)[s] = IF cs[s].at = "pending" THEN a ELSE cs[s]
    BY DEF RejectAll
  <2> HIDE DEF a
  <2> QED
    BY <2>1, <2>2 DEF Wanes
<1>2. RejectAll(cs) \in [Slots -> Promise]
  BY <1>1 DEF RejectAll
<1> QED
  BY <1>1, <1>2 DEF Wanes

(* The promise that start() or stop() waited for is forgotten.             *)
LEMMA IdleWanes ==
    ASSUME NEW cs, Wanes(cs)
    PROVE  Wanes([cs EXCEPT ![Operation].at = "idle"])
<1> DEFINE new == [cs[Operation] EXCEPT !.at = "idle"]
           ds == [cs EXCEPT ![Operation] = new]
<1>1. Operation \in Slots
  BY DEF Slots
<1>2. /\ new \in Promise /\ new.at = "idle"
      /\ new.worker = cs[Operation].worker /\ new.by = cs[Operation].by
  BY <1>1 DEF Wanes, Promise
<1>3. [cs EXCEPT ![Operation].at = "idle"] = ds
  OBVIOUS
<1> HIDE DEF new
<1>4. Wanes(ds)
  BY <1>1, <1>2 DEF Wanes
<1> QED
  BY <1>3, <1>4

(* What a step of the lifecycle leaves of the requests.                    *)
LEMMA FollowKeeps ==
    ASSUME RequestsInv, IInv, TypeOK', NEW cs, Wanes(cs), Follows(cs),
           lease'[Page] \in 0..MaxLeases, lease'[Page] >= lease[Page],
           answers' \subseteq answers
    PROVE  RequestsInv'
<1>1. Wanes(calls')
  BY RejectAllWanes DEF Follows
<1>2. inWorker' \subseteq inWorker /\ nextRequestID' = nextRequestID
  BY DEF Follows, NextID
<1>3. /\ answers' \subseteq [id : Ids, worker : Workers, ok : BOOLEAN]
      /\ answers' \subseteq Messages
  BY DEF RequestsInv, RequestsTypeOK, Messages
<1> QED
  BY <1>1, <1>2, <1>3, LeaseGrows, WaneKeeps

LEMMA CallsWane == ASSUME RequestsInv PROVE Wanes(calls)
  BY DEF RequestsInv, RequestsTypeOK, AnswersAreOwn, Wanes
-----------------------------------------------------------------------------
LEMMA NextRequestsInv ==
    ASSUME RequestsInv, IInv, TypeOK', [RequestsNext]_allVars
    PROVE  RequestsInv'
<1>0. /\ lease[Page] \in 0..MaxLeases /\ worker[Page] \in Workers
      /\ RequestsTypeOK /\ AnswersAreOwn /\ Wanes(calls)
      /\ MaxLeases \in Nat
  BY LeaseGrows, CallsWane, LockAssumption DEF RequestsInv
<1>1. ASSUME NEW s \in Calls, Asks(s) PROVE RequestsInv'
  <2>0. s \in Slots /\ lease' = lease
    BY <1>1 DEF Slots, Asks, vars, clientVars
  <2>1. CASE Refused
    <3> DEFINE new == [NoPromise EXCEPT !.at = "rejected"]
    <3>1. /\ calls' = [calls EXCEPT ![s] = new]
          /\ UNCHANGED <<nextRequestID, inWorker, answers>>
      BY <1>1, <2>1 DEF Asks
    <3>2. new \in Promise /\ new.at = "rejected" /\ new.by = NoWorker
      BY DEF NoPromise, Promise
    <3> HIDE DEF new
    <3>3. Wanes(calls')
      BY <1>0, <2>0, <3>1, <3>2 DEF Wanes
    <3>4. /\ answers' \subseteq [id : Ids, worker : Workers, ok : BOOLEAN]
          /\ answers' \subseteq Messages /\ inWorker' \subseteq inWorker
      BY <1>0, <3>1 DEF RequestsTypeOK, Messages
    <3> QED
      BY <1>0, <2>0, <3>1, <3>3, <3>4, WaneKeeps
  <2>2. CASE ~Refused
    BY <1>0, <1>1, <2>0, <2>2, PostKeeps DEF Asks
  <2> QED
    BY <2>1, <2>2
<1>2. ASSUME NEW s \in Calls, Returns(s) PROVE RequestsInv'
  <2>1. NoPromise \in Promise /\ NoPromise.at = "idle" /\ NoPromise.by = NoWorker
    BY DEF NoPromise, Promise
  <2>2. /\ calls' = [calls EXCEPT ![s] = NoPromise] /\ lease' = lease
        /\ UNCHANGED <<nextRequestID, inWorker, answers>>
    BY <1>2 DEF Returns, vars, clientVars
  <2>3. Wanes(calls')
    BY <1>0, <2>1, <2>2 DEF Wanes
  <2>4. /\ answers' \subseteq [id : Ids, worker : Workers, ok : BOOLEAN]
        /\ answers' \subseteq Messages /\ inWorker' \subseteq inWorker
    BY <1>0, <2>2 DEF RequestsTypeOK, Messages
  <2> QED
    BY <1>0, <2>2, <2>3, <2>4, WaneKeeps
<1>3. ASSUME NEW i \in Ids, Answers(i) PROVE RequestsInv'
  <2>1. PICK m \in inWorker, ok \in BOOLEAN :
          /\ m.id = i
          /\ inWorker' = inWorker \ {m}
          /\ answers' = answers \cup {[id |-> i, worker |-> m.worker, ok |-> ok]}
    BY <1>3 DEF Answers
  <2> DEFINE new == [id |-> i, worker |-> m.worker, ok |-> ok]
  <2>2. /\ new \in [id : Ids, worker : Workers, ok : BOOLEAN]
        /\ new.id = m.id /\ new.worker = m.worker
    BY <1>0, <2>1 DEF RequestsTypeOK
  <2>3. answers' = answers \cup {new}
    BY <2>1
  <2> HIDE DEF new
  <2>4. /\ answers' \subseteq [id : Ids, worker : Workers, ok : BOOLEAN]
        /\ \A a \in answers' : \E k \in Messages : a.id = k.id /\ a.worker = k.worker
    BY <1>0, <2>2, <2>3 DEF RequestsTypeOK, Messages
  <2>5. UNCHANGED <<lease, calls, nextRequestID>> /\ inWorker' \subseteq inWorker
    BY <1>3, <2>1 DEF Answers, vars, clientVars
  <2>6. Wanes(calls')
    BY <1>0, <2>5
  <2> QED
    BY <1>0, <2>4, <2>5, <2>6, WaneKeeps
<1>4. ASSUME NEW m \in answers, Arrives(m) PROVE RequestsInv'
  <2>1. /\ answers' \subseteq [id : Ids, worker : Workers, ok : BOOLEAN]
        /\ answers' \subseteq Messages
    BY <1>0, <1>4 DEF Arrives, RequestsTypeOK, Messages
  <2>2. /\ UNCHANGED <<lease, nextRequestID, inWorker>> /\ calls' = Settled(m)
    BY <1>4 DEF Arrives, vars, clientVars
  <2>3. Wanes(calls')
    BY <2>2, SettledWanes
  <2> QED
    BY <1>0, <2>1, <2>2, <2>3, WaneKeeps
<1>5. ASSUME NEW m \in answers, OperationAnswered(m) PROVE RequestsInv'
  <2>1. lease' = lease /\ answers' \subseteq answers
    BY <1>5, LeaseStays DEF OperationAnswered
  <2>2. Wanes([Settled(m) EXCEPT ![Operation].at = "idle"])
    BY SettledWanes, IdleWanes
  <2> QED
    BY <1>0, <1>5, <2>1, <2>2, FollowKeeps DEF OperationAnswered
<1>6. ASSUME BootCalls PROVE RequestsInv'
  <2>1. lease'[Page] \in 0..MaxLeases /\ lease'[Page] > lease[Page]
    BY <1>6, LeaseGrows DEF BootCalls
  <2>2. Operation \in Slots
    BY DEF Slots
  <2>3. CASE Posts(Operation)
    BY <2>1, <2>2, <2>3, PostKeeps
  <2>4. CASE Follows(calls) /\ UNCHANGED answers
    <3>1. lease'[Page] >= lease[Page]
      BY <1>0, <2>1
    <3> QED
      BY <1>0, <2>1, <2>4, <3>1, FollowKeeps
  <2> QED
    BY <1>6, <2>3, <2>4 DEF BootCalls
<1>7. ASSUME StopCalls PROVE RequestsInv'
  <2>1. lease' = lease /\ Operation \in Slots
    BY <1>7, LeaseStays DEF StopCalls, Slots
  <2> QED
    BY <1>0, <1>7, <2>1, PostKeeps DEF StopCalls
<1>8. ASSUME OperationRejected PROVE RequestsInv'
  <2>1. lease' = lease /\ answers' \subseteq answers
    BY <1>8, LeaseStays DEF OperationRejected
  <2>2. Wanes([calls EXCEPT ![Operation].at = "idle"])
    BY <1>0, IdleWanes
  <2> QED
    BY <1>0, <1>8, <2>1, <2>2, FollowKeeps DEF OperationRejected
<1>9. ASSUME Resumes \/ HostTurns \/ Ends PROVE RequestsInv'
  <2>1. Follows(calls) /\ answers' \subseteq answers
    BY <1>9 DEF Resumes, HostTurns, Ends
  <2>2. lease' = lease
    BY <1>9, LeaseStays DEF Resumes, HostTurns, Ends
  <2> QED
    BY <1>0, <2>1, <2>2, FollowKeeps
<1>10. CASE UNCHANGED allVars
  <2>1. UNCHANGED <<lease, calls, nextRequestID, inWorker, answers>>
    BY <1>10 DEF allVars, vars, clientVars, requestVars
  <2> QED
    BY <2>1 DEF RequestsInv, RequestsTypeOK, IdsGivenOut, MessagesMatch, AnswersAreOwn,
       Pending, Messages
<1> QED
  BY <1>1, <1>2, <1>3, <1>4, <1>5, <1>6, <1>7, <1>8, <1>9, <1>10 DEF RequestsNext

(* The invariant of the requests, over that of the lifecycle.              *)
THEOREM RequestsInvariance == RequestsSpec => []RequestsInv
<1>1. RequestsSpec => []IInv
  BY LifecycleKept, Invariance, PTL
<1>2. RequestsInit => RequestsInv
  BY InitRequestsInv
<1>3. IInv' => TypeOK'
  BY DEF IInv
<1>4. RequestsInv /\ IInv /\ IInv' /\ [RequestsNext]_allVars => RequestsInv'
  BY <1>3, NextRequestsInv
<1> QED
  BY <1>1, <1>2, <1>4, PTL DEF RequestsSpec

(* Every field of the requests keeps its type: the ids in particular, of   *)
(* which no start() can use up more than one.                              *)
THEOREM RequestsTypeCorrect == RequestsSpec => []RequestsTypeOK
<1>1. RequestsInv => RequestsTypeOK
  BY DEF RequestsInv
<1> QED
  BY <1>1, RequestsInvariance, PTL

(* However late an answer arrives, and whichever workers died in between,  *)
(* it settles only a call that was made to the worker it comes from.       *)
THEOREM AnswersOwned == RequestsSpec => []AnswersAreOwn
<1>1. RequestsInv => AnswersAreOwn
  BY DEF RequestsInv
<1> QED
  BY <1>1, RequestsInvariance, PTL

(* The safety of the lifecycle, with its requests: databases only under    *)
(* the lease of a live session, no lock stranded, no daemon hidden.        *)
COROLLARY RequestsKeepSession == RequestsSpec => []SessionIsWhole
<1> QED
  BY LifecycleKept, SessionSafety, PTL
=============================================================================
