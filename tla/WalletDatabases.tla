--------------------------- MODULE WalletDatabases --------------------------
(***************************************************************************)
(* What the cross-tab lock promises (packages/web/src/runtime-lock.ts):    *)
(* the databases behind one lock name are open in at most one tab, and a   *)
(* tab opens them only when no tab has them open, itself included.  How a  *)
(* tab comes to open or close them is of no concern here.                  *)
(***************************************************************************)

CONSTANTS Tabs, Names

VARIABLE users      \* per name: the tabs with its databases open

Init == users = [n \in Names |-> {}]

Open(n, c) == users[n] = {} /\ users' = [users EXCEPT ![n] = {c}]

Close(n, c) == c \in users[n] /\ users' = [users EXCEPT ![n] = @ \ {c}]

Next == \E n \in Names, c \in Tabs : Open(n, c) \/ Close(n, c)

Spec == Init /\ [][Next]_users
=============================================================================
