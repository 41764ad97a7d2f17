----------------------------- MODULE NativeApp -----------------------------
(***************************************************************************)
(* A React Native host: its wallets and their registry, its passkey        *)
(* ceremonies, and the activity stream behind its screens.  What the three *)
(* share, the engine and the daemon, is in each of them what it needs of   *)
(* it, and a behaviour follows one of them.                                *)
(***************************************************************************)
EXTENDS NativeActivity, NativeWallets, NativePasskeys

VARIABLE followed

nativeAppVars == <<followed, vars, walletsVars, passkeyVars>>

NativeAppInit ==
    /\ followed \in {"activity", "wallets", "passkeys"}
    /\ Init /\ WalletsInit /\ PasskeysInit

FollowsActivity(A) ==
    /\ followed = "activity" /\ A
    /\ UNCHANGED <<followed, walletsVars, passkeyVars>>

FollowsWallets(A) ==
    /\ followed = "wallets" /\ A
    /\ UNCHANGED <<followed, vars, passkeyVars>>

FollowsPasskeys(A) ==
    /\ followed = "passkeys" /\ A
    /\ UNCHANGED <<followed, vars, walletsVars>>

NativeAppNext ==
    FollowsActivity(Next) \/ FollowsWallets(WalletsNext) \/ FollowsPasskeys(PasskeysNext)

(* Timers fire and the engine settles its calls, whatever a prompt does.   *)
NativeAppSpec ==
    /\ NativeAppInit /\ [][NativeAppNext]_nativeAppVars
    /\ \A n \in 1..MaxCeremonies : WF_nativeAppVars(FollowsPasskeys(Advances(n)))
=============================================================================
