--------------------------- MODULE MCWalletEngine ---------------------------
(* Small instances of WalletEngine for TLC.                                *)
EXTENDS WalletEngine, TLC

(* One info for each wallet phase.  The usable one has a stale state, as   *)
(* the daemon sends it while a wallet comes up.                            *)
NoWallet == [walletState |-> "none", walletReady |-> FALSE]
Locked   == [walletState |-> "locked", walletReady |-> FALSE]
Syncing  == [walletState |-> "syncing", walletReady |-> FALSE]
Ready    == [walletState |-> "locked", walletReady |-> TRUE]

AllInfos == {NoWallet, Locked, Syncing, Ready}
TwoInfos == {Locked, Ready}
OneInfo == {Locked}

AllCalls == Operations
RestoreCalls == {"start", "stop", "restore", "acknowledge", "dispose"}
PromiseCalls == {"start", "stop", "restore"}
DisposeCalls == {"start", "refresh", "dispose"}
AdoptCalls == {"stop", "wallet"}
LifecycleCalls == {"start", "stop"}
WalletCalls == {"start", "stop", "wallet", "refresh", "pay"}

SlotSymmetry == Permutations(Slots)
=============================================================================
