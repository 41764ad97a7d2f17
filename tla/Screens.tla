------------------------------ MODULE Screens ------------------------------
(***************************************************************************)
(* A host app shows one screen over the hooks of the React bindings; the   *)
(* screens share no state but the engine's.                                *)
(***************************************************************************)
EXTENDS SendFlow, ExitFlow, ExitScreen, StatusPanel, ReceiveFlow, WalletApp

VARIABLE mounted

screenVars == <<mounted, sendVars, exitVars, exitScreenVars, statusVars, receiveVars, appVars>>

(* A registry that no screen shows may as well be one of those there are.  *)
ScreensInit ==
    /\ mounted \in {"send", "batch", "exit", "status", "receive", "app"}
    /\ SendInit /\ ExitInit /\ ExitScreenInit /\ StatusInit /\ ReceiveInit /\ AppInit
    /\ mounted # "app" => \A e \in Wallets : registry[e].walletKind = "none"

OnSend(A) ==
    /\ mounted = "send" /\ A
    /\ UNCHANGED <<mounted, exitVars, exitScreenVars, statusVars, receiveVars, appVars>>

OnBatch(A) ==
    /\ mounted = "batch" /\ A
    /\ UNCHANGED <<mounted, sendVars, exitScreenVars, statusVars, receiveVars, appVars>>

OnExit(A) ==
    /\ mounted = "exit" /\ A
    /\ UNCHANGED <<mounted, sendVars, exitVars, statusVars, receiveVars, appVars>>

OnStatus(A) ==
    /\ mounted = "status" /\ A
    /\ UNCHANGED <<mounted, sendVars, exitVars, exitScreenVars, receiveVars, appVars>>

OnReceive(A) ==
    /\ mounted = "receive" /\ A
    /\ UNCHANGED <<mounted, sendVars, exitVars, exitScreenVars, statusVars, appVars>>

OnApp(A) ==
    /\ mounted = "app" /\ A
    /\ UNCHANGED <<mounted, sendVars, exitVars, exitScreenVars, statusVars, receiveVars>>

ScreensNext ==
    \/ OnSend(SendNext) \/ OnBatch(ExitNext) \/ OnExit(ExitScreenNext) \/ OnStatus(StatusNext)
    \/ OnReceive(ReceiveNext) \/ OnApp(AppNext)

(* Timers fire, the refreshes of a poll settle, and a deposit confirms.    *)
ScreensSpec ==
    /\ ScreensInit /\ [][ScreensNext]_screenVars
    /\ WF_screenVars(OnSend(SendTimers))
    /\ WF_screenVars(OnReceive(AppTicks)) /\ WF_screenVars(OnReceive(AppSettles))
    /\ WF_screenVars(OnReceive(ScreenTicks)) /\ WF_screenVars(OnReceive(ScreenSettles))
    /\ WF_screenVars(OnReceive(DepositAdvances))

-----------------------------------------------------------------------------
(* Properties                                                              *)

(* What the user reviews in the send form is the answer to the newest      *)
(* request for a quote, and a payment that may already have left is not    *)
(* confirmed again.  That the form still holds what was quoted is not      *)
(* said: ReviewedIsShown of SendFlow says it, and does not hold.           *)
ReviewIsSafe == ReviewedIsLatest /\ ConfirmableIsUnspent

(* A batch of exits accounts for every output once, starts what its funds  *)
(* and its plan allow, and forces what the user has seen.                  *)
ExitsAreSafe == BatchIsWhole /\ StartsAreFunded /\ ForcedAsShown

(* No spinner and no wait stays for good: a quoting ends, and a deposit    *)
(* that confirmed reaches the screen although no event announces it.       *)
ScreensProgress == QuotingEnds /\ DepositSettles
=============================================================================
