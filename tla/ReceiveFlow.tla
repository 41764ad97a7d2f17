----------------------------- MODULE ReceiveFlow -----------------------------
(***************************************************************************)
(* The receive screen of the demo apps                                     *)
(* (screens/receive/ReceiveScreen.tsx), and the two polls of               *)
(* lib/usePollWhileWaiting.ts that stand in for the events the daemon does *)
(* not send of deposits and exits: one of this screen, one of the app,     *)
(* which takes over when the first has found something to follow.          *)
(***************************************************************************)
EXTENDS Naturals

CONSTANTS
    PollMaxTicks,       \* POLL_MAX_TICKS
    PollFailureLimit,   \* POLL_FAILURE_LIMIT
    MaxInvoices,        \* bound: invoices created
    MaxReturns          \* bound: visits to the screen after the first

ASSUME ReceiveAssumption ==
    /\ {PollMaxTicks, PollFailureLimit} \subseteq Nat \ {0}
    /\ {MaxInvoices, MaxReturns} \subseteq Nat

VARIABLES
    visible,            \* is the screen mounted?
    tab,
    generated,          \* tab -> the entry whose invoice or address is on screen
    pendingEntryId,     \* tab -> the entry to watch in the activity
    asking,             \* the tabs with receive() or deposit() in flight
    returns,
    ledger,             \* what the daemon knows ...
    activity,           \* ... and what the snapshot shows of it
    appRun, screenRun   \* the polls

receiveView == <<visible, tab, generated, pendingEntryId, asking, returns>>
receiveVars == <<receiveView, ledger, activity, appRun, screenRun>>

NoEntry == 0
Deposit == MaxInvoices + 1
ReceiveTabs == {"lightning", "onchain"}
Nothing == [t \in ReceiveTabs |-> NoEntry]

(* created: the invoices so far; issued: an address was given out.  A      *)
(* deposit is first seen as a balance that is pending, then as an entry.   *)
EmptyLedger == [created |-> 0, issued |-> FALSE, deposit |-> "none", exit |-> "none"]

(* Mutant: only entries count.                                             *)
HasPendingEntry(a) == a.deposit = "pending" \/ a.exit = "pending"

HasPendingOnchain(a) == a.deposit \in {"balance", "pending"} \/ a.exit = "pending"

(* The deposit is found by the address on screen, whatever its entry's id. *)
Waiting ==
    /\ visible /\ tab = "onchain"
    /\ generated["onchain"] # NoEntry
    /\ activity.deposit \in {"none", "balance"}

ScreenWaits == Waiting /\ ~HasPendingOnchain(activity)
AppWaits == HasPendingOnchain(activity)

-----------------------------------------------------------------------------
(* usePollWhileWaiting                                                     *)

NoRun == [alive |-> FALSE, ticks |-> 0, failures |-> 0, inFlight |-> FALSE]

(* The effect: each time the condition turns true a new run begins, and    *)
(* what was in flight for the last one does not count for it.              *)
Effect(run, was, is) ==
    IF was = is THEN run ELSE [NoRun EXCEPT !.alive = is]

(* What follows every change of the screen or the snapshot.                *)
Rerenders(forApp, forScreen) ==
    /\ appRun' = Effect(forApp, AppWaits, AppWaits')
    /\ screenRun' = Effect(forScreen, ScreenWaits, ScreenWaits')

Rerender == Rerenders(appRun, screenRun)

Tick(run) ==
    IF run.ticks + 1 > PollMaxTicks THEN [run EXCEPT !.alive = FALSE]
    ELSE [run EXCEPT !.ticks = @ + 1, !.inFlight = TRUE]

Landed(run) == [run EXCEPT !.failures = 0, !.inFlight = FALSE]

Failed(run) ==
    [run EXCEPT !.failures = @ + 1, !.inFlight = FALSE,
                !.alive = @ /\ run.failures + 1 < PollFailureLimit]

MayPoll(run) == run.alive /\ ~run.inFlight

AppTicks ==
    /\ MayPoll(appRun)
    /\ appRun' = Tick(appRun)
    /\ UNCHANGED <<receiveView, ledger, activity, screenRun>>

ScreenTicks ==
    /\ MayPoll(screenRun)
    /\ screenRun' = Tick(screenRun)
    /\ UNCHANGED <<receiveView, ledger, activity, appRun>>

(* The refresh of a tick lands or fails.                                   *)
AppSettles ==
    /\ appRun.inFlight
    /\ UNCHANGED <<receiveView, ledger>>
    /\ \/ /\ activity' = ledger
          /\ Rerenders(Landed(appRun), screenRun)
       \/ appRun' = Failed(appRun) /\ UNCHANGED <<activity, screenRun>>

ScreenSettles ==
    /\ screenRun.inFlight
    /\ UNCHANGED <<receiveView, ledger>>
    /\ \/ /\ activity' = ledger
          /\ Rerenders(appRun, Landed(screenRun))
       \/ screenRun' = Failed(screenRun) /\ UNCHANGED <<activity, appRun>>

(* A refresh for any other reason: an event of the stream, a retired run.  *)
OtherRefresh ==
    /\ activity' = ledger
    /\ UNCHANGED <<receiveView, ledger>>
    /\ Rerender

-----------------------------------------------------------------------------
(* The screen                                                              *)

ReceiveInit ==
    /\ visible = TRUE /\ tab = "lightning"
    /\ generated = Nothing /\ pendingEntryId = Nothing
    /\ asking = {} /\ returns = 0
    /\ ledger = EmptyLedger /\ activity = EmptyLedger
    /\ appRun = NoRun /\ screenRun = NoRun

TrackEntry(t, id) == pendingEntryId' = [pendingEntryId EXCEPT ![t] = id]

(* createInvoice, getAddress: an address is asked for once.                *)
Asks ==
    /\ visible /\ tab \notin asking
    /\ tab = "onchain" => generated["onchain"] = NoEntry
    /\ tab = "lightning" => ledger.created < MaxInvoices
    /\ asking' = asking \cup {tab}
    /\ TrackEntry(tab, NoEntry)
    /\ UNCHANGED <<visible, tab, generated, returns, ledger, activity, appRun, screenRun>>

Generates(t, id) ==
    /\ asking' = asking \ {t}
    /\ generated' = [generated EXCEPT ![t] = id]
    /\ TrackEntry(t, id)
    /\ UNCHANGED <<visible, tab, returns, activity>>
    /\ Rerender

ReceiveResolves ==
    /\ "lightning" \in asking
    /\ ledger' = [ledger EXCEPT !.created = @ + 1]
    /\ Generates("lightning", ledger'.created)

DepositResolves ==
    /\ "onchain" \in asking
    /\ ledger' = [ledger EXCEPT !.issued = TRUE]
    /\ Generates("onchain", Deposit)

AskRejects(t) ==
    /\ asking' = asking \ {t}
    /\ UNCHANGED <<visible, tab, generated, pendingEntryId, returns, ledger, activity,
                   appRun, screenRun>>

SwitchTab ==
    /\ visible
    /\ tab' \in ReceiveTabs \ {tab}
    /\ UNCHANGED <<visible, generated, pendingEntryId, asking, returns, ledger, activity>>
    /\ Rerender

(* The user leaves the screen, and comes back to a fresh one.              *)
LeavesReceive ==
    /\ visible
    /\ visible' = FALSE
    /\ tab' = "lightning" /\ generated' = Nothing /\ pendingEntryId' = Nothing /\ asking' = {}
    /\ UNCHANGED <<returns, ledger, activity>>
    /\ Rerender

ReturnsToReceive ==
    /\ ~visible
    /\ returns < MaxReturns
    /\ returns' = returns + 1
    /\ visible' = TRUE
    /\ UNCHANGED <<tab, generated, pendingEntryId, asking, ledger, activity, appRun, screenRun>>

-----------------------------------------------------------------------------
(* The daemon                                                              *)

DaemonLearns(next) == ledger' = next /\ UNCHANGED <<receiveView, activity, appRun, screenRun>>

DepositArrives ==
    /\ ledger.issued /\ ledger.deposit = "none"
    /\ DaemonLearns([ledger EXCEPT !.deposit = "balance"])

DepositAdvances == \E stage \in {<<"balance", "pending">>, <<"pending", "complete">>} :
    /\ ledger.deposit = stage[1]
    /\ DaemonLearns([ledger EXCEPT !.deposit = stage[2]])

ExitMoves == \E stage \in {<<"none", "pending">>, <<"pending", "complete">>} :
    /\ ledger.exit = stage[1]
    /\ DaemonLearns([ledger EXCEPT !.exit = stage[2]])

ReceiveNext ==
    \/ Asks \/ ReceiveResolves \/ DepositResolves
    \/ \E t \in asking : AskRejects(t)
    \/ SwitchTab \/ LeavesReceive \/ ReturnsToReceive
    \/ AppTicks \/ AppSettles \/ ScreenTicks \/ ScreenSettles \/ OtherRefresh
    \/ DepositArrives \/ DepositAdvances \/ ExitMoves

-----------------------------------------------------------------------------
(* Properties                                                              *)

GaveUp == AppWaits /\ ~appRun.alive

(* A deposit the wallet has got wind of is shown to the end, although no   *)
(* event tells of it, the screen that asked for it may be left at any      *)
(* time, and each poll stops where the other is to take over; or a poll    *)
(* has spent its budget.                                                   *)
DepositSettles ==
    activity.deposit \in {"balance", "pending"} ~> activity.deposit = "complete" \/ GaveUp

-----------------------------------------------------------------------------
(* Claims of comments that the code does not keep                          *)

(* "Once a pending on-chain entry exists, the app-level poll takes over":  *)
(* a screen that begins to wait for a deposit has a poll behind it.        *)
WaitIsPolled == [][~Waiting /\ Waiting' => screenRun'.alive \/ appRun'.alive]_receiveVars

(* "A Lightning invoice must keep its confirmation hook [...] since its QR *)
(* stays on screen and only the id can match it."                          *)
InvoiceKeepsHook ==
    generated["lightning"] # NoEntry /\ "lightning" \notin asking =>
        pendingEntryId["lightning"] = generated["lightning"]
=============================================================================
