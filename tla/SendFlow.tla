------------------------------ MODULE SendFlow ------------------------------
(***************************************************************************)
(* The send screen of the two demo apps (screens/send/SendScreen.tsx,      *)
(* QuoteReview.tsx) over useWalletPrepareSend and useWalletSend: form,     *)
(* quote, review, payment.  A quote may hang, may be timed out, cancelled  *)
(* or refreshed; a payment may take longer than its quote is valid; and    *)
(* the user may leave in the middle of all this, and come back.            *)
(***************************************************************************)
EXTENDS Destination, MutationState, FiniteSets

CONSTANTS
    Pastes,         \* the destinations the user may paste
    MaxQuotes,      \* bound: calls of prepareSend()
    MaxVisits       \* bound: visits to the screen

ASSUME SendAssumption == {MaxQuotes, MaxVisits} \subseteq Nat

VARIABLES
    form,           \* the fields of step one
    funded,         \* is balanceSat above zero?
    quote,          \* {} or {the quote under review}
    expired,        \* secondsLeft <= 0
    quoting,
    quoteToken,
    localError,
    sent,
    sendHook,       \* of useWalletSend
    visit,          \* the number of this visit to the screen
    prepares,       \* calls of prepareSend() whose race is not decided
    payments,       \* calls of sendPrepared() in flight
    asked,          \* calls of prepareSend() so far
    confirmed,      \* history: the intents the user confirmed, in any visit
    intents         \* the intents of the daemon that are there to be spent

formVars == <<form, funded>>
quoteVars == <<quote, expired, quoting, quoteToken, localError, sent>>
sendVars == <<formVars, quoteVars, sendHook, visit, prepares, payments, asked, confirmed, intents>>

Forms == [dest : Pastes, amount : 0..1, sweepAll : BOOLEAN]

(* buildRequest: sweepAll and amountSat exclude each other, and an invoice *)
(* carries its own amount.  The note and the credit caps are left out.     *)
RequestOf(f) ==
    LET invoice == ClassifyDestination(f.dest).kind = "invoice"
        sweep == ~invoice /\ f.sweepAll
    IN [to |-> f.dest, sweepAll |-> sweep, amount |-> IF invoice \/ sweep THEN 0 ELSE f.amount]

CanContinue ==
    LET destination == ClassifyDestination(form.dest) IN
    /\ destination.kind # "empty"
    /\ destination.kind = "invoice" => destination.amount # Amountless
    /\ destination.kind = "address" /\ ~form.sweepAll => form.amount > 0
    /\ form.sweepAll => funded
    /\ ~quoting

Screen == IF sent THEN "sent" ELSE IF quote # {} THEN "review" ELSE "form"

(* What a fresh visit shows: useState and useRef start over.               *)
Fresh ==
    /\ form' = [dest |-> Blank, amount |-> 0, sweepAll |-> FALSE]
    /\ quote' = {} /\ expired' = FALSE
    /\ quoting' = FALSE /\ quoteToken' = 0
    /\ localError' = "none" /\ sent' = FALSE
    /\ sendHook' = FreshHook

SendInit ==
    /\ form = [dest |-> Blank, amount |-> 0, sweepAll |-> FALSE]
    /\ funded = FALSE
    /\ quote = {} /\ expired = FALSE
    /\ quoting = FALSE /\ quoteToken = 0
    /\ localError = "none" /\ sent = FALSE
    /\ sendHook = FreshHook
    /\ visit = 1
    /\ prepares = {} /\ payments = {}
    /\ asked = 0 /\ confirmed = {} /\ intents = {}

-----------------------------------------------------------------------------
(* Quoting                                                                 *)

(* The user edits the form; a quote that is under way goes on.             *)
Edits ==
    /\ Screen = "form"
    /\ form' \in Forms \ {form}
    /\ UNCHANGED <<funded, quoteVars, sendHook, visit, prepares, payments, asked, confirmed, intents>>

(* A payment arrives, or the wallet is swept elsewhere.                    *)
BalanceMoves ==
    /\ funded' = ~funded
    /\ UNCHANGED <<form, quoteVars, sendHook, visit, prepares, payments, asked, confirmed,
                   intents>>

(* requestQuote: prepare() races the timer of QUOTE_TIMEOUT_MS.            *)
RequestQuote ==
    /\ asked < MaxQuotes
    /\ asked' = asked + 1
    /\ quoteToken' = quoteToken + 1
    /\ localError' = "none"
    /\ quoting' = TRUE
    /\ prepares' = prepares \cup
         {[id |-> asked', token |-> quoteToken', visit |-> visit, request |-> RequestOf(form)]}
    /\ UNCHANGED <<formVars, quote, expired, sent, sendHook, visit, payments, confirmed, intents>>

Continues == Screen = "form" /\ CanContinue /\ RequestQuote

(* An expired quote can only be refreshed, even while it is being paid.    *)
Refreshes == Screen = "review" /\ expired /\ ~quoting /\ RequestQuote

(* Mutant: a late quote lands whatever the user did since.                 *)
CurrentOfVisit(p) == p.visit = visit

(* May the outcome of p still touch the screen?                            *)
Current(p) == p.visit = visit /\ p.token = quoteToken

(* The daemon has created an intent.  A quote that took its time may be    *)
(* past its expiry.                                                        *)
PrepareResolves(p) ==
    /\ p \in prepares
    /\ prepares' = prepares \ {p}
    /\ intents' = intents \cup {p.id}
    /\ IF Current(p)
       THEN /\ quote' = {p}
            /\ expired' \in BOOLEAN
            /\ quoting' = FALSE
       ELSE UNCHANGED <<quote, expired, quoting>>
    /\ UNCHANGED <<formVars, quoteToken, localError, sent, sendHook, visit, payments, asked, confirmed>>

(* The race is lost: the daemon refused, or 60 seconds have passed.        *)
QuoteFails(p, error) ==
    /\ p \in prepares
    /\ prepares' = prepares \ {p}
    /\ IF Current(p)
       THEN localError' = error /\ quoting' = FALSE
       ELSE UNCHANGED <<localError, quoting>>
    /\ UNCHANGED <<formVars, quote, expired, quoteToken, sent, sendHook, visit, payments,
                   asked, confirmed, intents>>

PrepareRejects(p) == QuoteFails(p, "refused")

(* Mutant: the timer of a refresh is not raced, only that of the form.     *)
TimesOutOnForm(p) == Screen = "form" /\ QuoteFails(p, "timeout")

TimesOut(p) == QuoteFails(p, "timeout")

(* cancelQuote                                                             *)
CancelQuote ==
    /\ quoteToken' = quoteToken + 1
    /\ quoting' = FALSE
    /\ localError' = "none"

Cancels ==
    /\ Screen = "form" /\ quoting
    /\ CancelQuote
    /\ UNCHANGED <<formVars, quote, expired, sent, sendHook, visit, prepares, payments,
                   asked, confirmed, intents>>

EditsQuote ==
    /\ Screen = "review"
    /\ CancelQuote
    /\ quote' = {}
    /\ UNCHANGED <<formVars, expired, sent, sendHook, visit, prepares, payments, asked, confirmed, intents>>

-----------------------------------------------------------------------------
(* Paying                                                                  *)

(* The countdown of the screen ...                                         *)
Expires ==
    /\ quote # {} /\ ~expired
    /\ expired' = TRUE
    /\ UNCHANGED <<formVars, quote, quoting, quoteToken, localError, sent, sendHook, visit,
                   prepares, payments, asked, confirmed, intents>>

(* ... and the clock of the daemon need not agree.                         *)
IntentExpires(id) ==
    /\ id \in intents
    /\ intents' = intents \ {id}
    /\ UNCHANGED <<formVars, quoteVars, sendHook, visit, prepares, payments, asked, confirmed>>

Confirms ==
    /\ Screen = "review" /\ ~expired /\ ~sendHook.pending
    /\ localError' = "none"
    /\ sendHook' = Track(sendHook, FALSE)
    /\ \E q \in quote :
         /\ payments' = payments \cup
              {[id |-> q.id, generation |-> sendHook'.generation, visit |-> visit]}
         /\ confirmed' = confirmed \cup {q.id}
    /\ UNCHANGED <<formVars, quote, expired, quoting, quoteToken, sent, visit, prepares,
                   asked, intents>>

(* The daemon has deleted the intent and paid.                             *)
PaymentResolves(s) ==
    /\ s \in payments /\ s.id \in intents
    /\ payments' = payments \ {s}
    /\ intents' = intents \ {s.id}
    /\ IF s.visit = visit
       THEN sendHook' = Fulfil(sendHook, s.generation, s.id) /\ sent' = TRUE
       ELSE UNCHANGED <<sendHook, sent>>
    /\ UNCHANGED <<formVars, quote, expired, quoting, quoteToken, localError, visit, prepares,
                   asked, confirmed>>

(* Mutant: the burned quote stays on the screen.                           *)
PaymentRejectsKeeping(s) ==
    /\ s \in payments
    /\ payments' = payments \ {s}
    /\ intents' = intents \ {s.id}
    /\ IF s.visit = visit
       THEN sendHook' = Reject(sendHook, s.generation, FALSE) /\ localError' = "maybe paid"
       ELSE UNCHANGED <<sendHook, localError>>
    /\ UNCHANGED <<formVars, quote, expired, quoting, quoteToken, sent, visit, prepares, asked,
                   confirmed>>

(* It may have paid all the same; the intent is burned in any case.        *)
PaymentRejects(s) ==
    /\ s \in payments
    /\ payments' = payments \ {s}
    /\ intents' = intents \ {s.id}
    /\ IF s.visit = visit
       THEN /\ sendHook' = Reject(sendHook, s.generation, FALSE)
            /\ localError' = "maybe paid"
            /\ quote' = {}
       ELSE UNCHANGED <<sendHook, localError, quote>>
    /\ UNCHANGED <<formVars, expired, quoting, quoteToken, sent, visit, prepares, asked,
                   confirmed>>

(* reset(), by "Send another": the token of a quote under way is kept.     *)
SendsAnother ==
    /\ Screen = "sent"
    /\ sent' = FALSE /\ quote' = {}
    /\ form' = [dest |-> Blank, amount |-> 0, sweepAll |-> FALSE]
    /\ localError' = "none"
    /\ UNCHANGED <<funded, expired, quoting, quoteToken, sendHook, visit, prepares, payments,
                   asked, confirmed, intents>>

(* The user leaves the screen and comes back; nothing in flight ends.      *)
LeavesSend ==
    /\ visit < MaxVisits
    /\ visit' = visit + 1
    /\ Fresh
    /\ UNCHANGED <<funded, prepares, payments, asked, confirmed, intents>>

SendNext ==
    \/ BalanceMoves \/ Edits \/ Continues \/ Refreshes \/ Cancels \/ EditsQuote
    \/ Expires \/ Confirms \/ SendsAnother \/ LeavesSend
    \/ \E p \in prepares : PrepareResolves(p) \/ PrepareRejects(p) \/ TimesOut(p)
    \/ \E s \in payments : PaymentResolves(s) \/ PaymentRejects(s)
    \/ \E id \in intents : IntentExpires(id)

(* The timer of a race fires.                                              *)
SendTimers == \E p \in prepares : TimesOut(p)

-----------------------------------------------------------------------------
(* Properties                                                              *)

SendTypeOK ==
    /\ form \in Forms
    /\ {funded, expired, quoting, sent} \subseteq BOOLEAN
    /\ Cardinality(quote) <= 1
    /\ quoteToken \in 0..(2 * MaxQuotes + MaxVisits)
    /\ localError \in {"none", "refused", "timeout", "maybe paid"}
    /\ intents \subseteq 1..MaxQuotes

(* A quote that can be confirmed has not been confirmed before: after an   *)
(* attempt to pay, whatever became of it, "Confirm & pay" is never offered *)
(* again for the same intent, although the screen can be refreshed, edited *)
(* and left while the payment is under way.                                *)
ConfirmableIsUnspent ==
    Screen = "review" /\ ~expired /\ ~sendHook.pending =>
        \A q \in quote : q.id \notin confirmed

(* A quote that can be confirmed answers the latest request for one: no    *)
(* answer of a quote that was timed out, cancelled, sent back by Edit or   *)
(* left behind ever comes up for review.                                   *)
ReviewedIsLatest ==
    \A q \in quote : ~expired => q.token = quoteToken /\ q.visit = visit

(* The screen never stays on "Quoting..." for good, even if the daemon     *)
(* never answers.                                                          *)
QuotingEnds == quoting ~> ~quoting

-----------------------------------------------------------------------------
(* A claim of a comment that the code does not keep                        *)

(* A quote never overwrites a form the user has edited since: what is      *)
(* under review is what the recap row shows.                               *)
ReviewedIsShown ==
    Screen = "review" => \A q \in quote : q.request = RequestOf(form)
=============================================================================
