---------------------------- MODULE RuntimeLock -----------------------------
(***************************************************************************)
(* The cross-tab lock around the wallet runtime                            *)
(* (packages/web/src/runtime-lock.ts), one RuntimeLock per browser tab,    *)
(* over the Web Locks API of the browser, which is external.               *)
(*                                                                         *)
(* A grant is held by keeping the callback of locks.request() pending.     *)
(* Letting it settle only asks for the release: the browser frees the lock *)
(* a turn later, and the request promise settles after that.               *)
(*                                                                         *)
(* The module has no Next: the clients compose these actions.              *)
(***************************************************************************)
EXTENDS Integers

CONSTANTS
    Tabs,           \* browser contexts of the origin
    NoTab,
    Names,          \* names of Web Locks: the origin-wide one, one per profile
    NoName,
    WebLocks,       \* does the browser have the Web Locks API?
    MaxLeases       \* bound: leases minted in one page

ASSUME LockAssumption ==
    /\ NoTab \notin Tabs
    /\ NoName \notin Names
    /\ WebLocks \in BOOLEAN
    /\ MaxLeases \in Nat \ {0}

VARIABLES
    lock,           \* per tab: #state, with the name of the request
    lastLease,      \* per tab: #lastLease
    holder          \* per name: the tab the browser granted the lock to

lockVars == <<lock, lastLease, holder>>

NoLease == 0
Leases == 1..MaxLeases

LockState ==
    [kind : {"idle", "acquiring", "held", "settling"},
     lease : Leases \cup {NoLease},
     name : Names \cup {NoName}]

IdleLock == [kind |-> "idle", lease |-> NoLease, name |-> NoName]

LockInit ==
    /\ lock = [c \in Tabs |-> IdleLock]
    /\ lastLease = [c \in Tabs |-> NoLease]
    /\ holder = [n \in Names |-> NoTab]

Held(c) == lock[c].kind = "held"
Settling(c) == lock[c].kind = "settling"

-----------------------------------------------------------------------------
(* acquire() of an idle lock: a request, or with no Web Locks a grant that *)
(* nothing backs.                                                          *)
Request(c, n) ==
    /\ lock[c].kind = "idle"
    /\ lastLease[c] < MaxLeases
    /\ lastLease' = [lastLease EXCEPT ![c] = @ + 1]
    /\ lock' = [lock EXCEPT ![c] =
         [kind |-> IF WebLocks THEN "acquiring" ELSE "held", lease |-> lastLease'[c], name |-> n]]
    /\ UNCHANGED holder

(* The callback of request(ifAvailable) with the lock.                     *)
Grant(c) ==
    /\ lock[c].kind = "acquiring"
    /\ holder[lock[c].name] = NoTab
    /\ holder' = [holder EXCEPT ![lock[c].name] = c]
    /\ lock' = [lock EXCEPT ![c].kind = "held"]
    /\ UNCHANGED lastLease

(* The callback with no lock (wallet_locked).                              *)
Deny(c) ==
    /\ lock[c].kind = "acquiring"
    /\ holder[lock[c].name] # NoTab
    /\ lock' = [lock EXCEPT ![c] = IdleLock]
    /\ UNCHANGED <<lastLease, holder>>

(* The browser drops the request itself (runtime_lock_unavailable).        *)
RequestFails(c) ==
    /\ lock[c].kind = "acquiring"
    /\ lock' = [lock EXCEPT ![c] = IdleLock]
    /\ UNCHANGED <<lastLease, holder>>

(* The lock after releaseAndSettle(l): inert unless l owns the grant.      *)
Released(c, l) ==
    [lock EXCEPT ![c] =
       IF @.kind = "held" /\ @.lease = l THEN [@ EXCEPT !.kind = "settling"] ELSE @]

Release(c, l) == lock' = Released(c, l) /\ UNCHANGED <<lastLease, holder>>

(* The browser frees a lock whose holder let go of it.                     *)
Free(c) ==
    /\ Settling(c)
    /\ holder[lock[c].name] = c
    /\ holder' = [holder EXCEPT ![lock[c].name] = NoTab]
    /\ UNCHANGED <<lock, lastLease>>

(* Mutant: the settled release is not recorded.                            *)
SettleForgets(c) ==
    /\ Settling(c)
    /\ holder[lock[c].name] # c
    /\ UNCHANGED lockVars

(* Mutant: the lock is reported free while the browser still holds it.     *)
SettleEarly(c) ==
    /\ Settling(c)
    /\ lock' = [lock EXCEPT ![c] = IdleLock]
    /\ UNCHANGED <<lastLease, holder>>

(* The request promise settles once the browser has freed the lock.        *)
Settle(c) ==
    /\ Settling(c)
    /\ holder[lock[c].name] # c
    /\ lock' = [lock EXCEPT ![c] = IdleLock]
    /\ UNCHANGED <<lastLease, holder>>

(* The page goes away, and with it every lock it holds.                    *)
LockPageGone(c) ==
    /\ lock' = [lock EXCEPT ![c] = IdleLock]
    /\ lastLease' = [lastLease EXCEPT ![c] = NoLease]
    /\ holder' = [n \in Names |-> IF holder[n] = c THEN NoTab ELSE holder[n]]

-----------------------------------------------------------------------------
(* Every field of the locks keeps its type.                                *)
LockTypeOK ==
    /\ lock \in [Tabs -> LockState]
    /\ lastLease \in [Tabs -> Leases \cup {NoLease}]
    /\ holder \in [Names -> Tabs \cup {NoTab}]

(* What the lock believes is what the browser does: a tab that holds the   *)
(* lock was granted it, and a tab whose lock is idle or acquiring holds no *)
(* name any more, so its own next request is never turned down because of  *)
(* itself (wallet_locked with no other tab open).                          *)
LockMatchesBrowser ==
    WebLocks =>
      \A c \in Tabs :
        /\ Held(c) => holder[lock[c].name] = c
        /\ \A n \in Names :
             holder[n] = c => lock[c].kind \in {"held", "settling"} /\ lock[c].name = n
=============================================================================
