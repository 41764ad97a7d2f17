--------------------------- MODULE ScreensProofs ---------------------------
(***************************************************************************)
(* The safety properties of the screens, for every number of outputs,      *)
(* wallets, reads and batches.  Each screen has an inductive invariant of  *)
(* its own, and the steps of one leave the state of the others alone.      *)
(***************************************************************************)
EXTENDS Screens, WellFoundedInduction, TLAPS

-----------------------------------------------------------------------------
(* The state of a hook                                                     *)

Hook(D) == [generation : Nat, pending : BOOLEAN, error : BOOLEAN, data : SUBSET D]

(* What each operation makes of a hook.                                    *)
LEMMA FreshIsHook ==
    ASSUME NEW D
    PROVE  FreshHook \in Hook(D) /\ FreshHook.data = {} /\ FreshHook.generation = 0
  BY DEF Hook, FreshHook

LEMMA TrackHook ==
    ASSUME NEW D, NEW h \in Hook(D), NEW keep \in BOOLEAN
    PROVE  /\ Track(h, keep) \in Hook(D) /\ Track(h, keep).generation = h.generation + 1
           /\ Track(h, keep).pending
           /\ Track(h, keep).data = IF keep THEN h.data ELSE {}
  BY DEF Hook, Track

LEMMA ResetHook ==
    ASSUME NEW D, NEW h \in Hook(D)
    PROVE  Reset(h) \in Hook(D) /\ Reset(h).data = {} /\ Reset(h).generation = h.generation + 1
  BY FreshIsHook DEF Hook, Reset

LEMMA FulfilHook ==
    ASSUME NEW D, NEW h \in Hook(D), NEW g, NEW v \in D
    PROVE  /\ Fulfil(h, g, v) \in Hook(D) /\ Fulfil(h, g, v).generation = h.generation
           /\ Fulfil(h, g, v).data = IF g = h.generation THEN {v} ELSE h.data
  BY DEF Hook, Fulfil

LEMMA RejectHook ==
    ASSUME NEW D, NEW h \in Hook(D), NEW g, NEW keep \in BOOLEAN
    PROVE  /\ Reject(h, g, keep) \in Hook(D) /\ Reject(h, g, keep).generation = h.generation
           /\ Reject(h, g, keep).data = IF g = h.generation /\ ~keep THEN {} ELSE h.data
  BY DEF Hook, Reject

-----------------------------------------------------------------------------
(* The send screen                                                         *)

(* The answers under way are those of quotes nobody has seen, each with an *)
(* id of its own.                                                          *)
PreparesAreUnseen ==
    \A p \in prepares :
        /\ p.id \in 1..asked /\ p.id \notin confirmed
        /\ \A r \in prepares : r.id = p.id => r = p
        /\ \A q \in quote : q.id # p.id

SendInv ==
    /\ sendHook \in Hook(Nat) /\ asked \in Nat /\ {expired, sent} \subseteq BOOLEAN
    /\ \A s \in payments : s.id \in Nat
    /\ \A q \in quote : q.id \in 1..asked
    /\ \A q, r \in quote : q = r
    /\ confirmed \subseteq 1..asked
    /\ PreparesAreUnseen
    /\ ConfirmableIsUnspent
    /\ ReviewedIsLatest

LEMMA SendInitInv == SendInit => SendInv
<1> SUFFICES ASSUME SendInit PROVE SendInv
  OBVIOUS
<1>1. /\ quote = {} /\ prepares = {} /\ payments = {} /\ confirmed = {} /\ asked = 0
      /\ expired = FALSE /\ sent = FALSE
  BY DEF SendInit
<1>2. sendHook \in Hook(Nat)
  BY DEF SendInit, Hook, FreshHook
<1> QED
  BY <1>1, <1>2 DEF SendInv, PreparesAreUnseen, ConfirmableIsUnspent, ReviewedIsLatest

LEMMA RequestKeeps ==
    ASSUME SendInv, RequestQuote, quote = {} \/ expired
    PROVE  SendInv'
<1>1. sendHook' = sendHook /\ expired' = expired /\ sent' = sent /\ payments' = payments
      /\ quote' = quote /\ confirmed' = confirmed /\ visit' = visit
      /\ asked' = asked + 1
  BY DEF RequestQuote
<1>2. PICK p : p.id = asked' /\ prepares' = prepares \cup {p}
  BY DEF RequestQuote
<1>3. /\ asked \in Nat /\ confirmed \subseteq 1..asked /\ PreparesAreUnseen
      /\ \A q \in quote : q.id \in 1..asked
  BY DEF SendInv
<1>4. PreparesAreUnseen'
  BY <1>1, <1>2, <1>3 DEF PreparesAreUnseen
<1>5. ReviewedIsLatest' /\ ConfirmableIsUnspent'
  BY <1>1 DEF SendInv, ReviewedIsLatest, ConfirmableIsUnspent, Screen
<1> QED
  BY <1>1, <1>3, <1>4, <1>5 DEF SendInv

LEMMA PrepareResolvesKeeps ==
    ASSUME SendInv, NEW p \in prepares, PrepareResolves(p)
    PROVE  SendInv'
<1>1. sendHook' = sendHook /\ sent' = sent /\ payments' = payments
      /\ confirmed' = confirmed /\ visit' = visit /\ asked' = asked
      /\ prepares' = prepares \ {p} /\ quoteToken' = quoteToken
      /\ \/ Current(p) /\ quote' = {p} /\ expired' \in BOOLEAN
         \/ quote' = quote /\ expired' = expired
  BY DEF PrepareResolves
<1>2. PreparesAreUnseen /\ p.id \in 1..asked /\ p.id \notin confirmed
  BY DEF SendInv, PreparesAreUnseen
<1>3. PreparesAreUnseen'
  BY <1>1, <1>2 DEF PreparesAreUnseen
<1>4. ReviewedIsLatest'
  BY <1>1 DEF SendInv, ReviewedIsLatest, Current
<1>5. ConfirmableIsUnspent'
  <2>1. CASE quote' = {p}
    BY <1>1, <1>2, <2>1 DEF ConfirmableIsUnspent
  <2>2. CASE quote' = quote /\ expired' = expired
    BY <1>1, <2>2 DEF SendInv, ConfirmableIsUnspent, Screen
  <2> QED
    BY <1>1, <2>1, <2>2
<1> QED
  BY <1>1, <1>2, <1>3, <1>4, <1>5 DEF SendInv

LEMMA ConfirmsKeeps ==
    ASSUME SendInv, Confirms
    PROVE  SendInv'
<1>1. /\ sendHook' \in Hook(Nat) /\ sendHook'.pending
      /\ sent' = sent /\ expired' = expired /\ quote' = quote /\ prepares' = prepares
      /\ visit' = visit /\ asked' = asked /\ quoteToken' = quoteToken
  BY TrackHook DEF SendInv, Confirms
<1>2. PICK q \in quote :
         /\ payments' = payments \cup
              {[id |-> q.id, generation |-> sendHook'.generation, visit |-> visit]}
         /\ confirmed' = confirmed \cup {q.id}
  BY DEF Confirms
<1>3. q.id \in 1..asked /\ asked \in Nat
  BY DEF SendInv
<1>4. PreparesAreUnseen'
  BY <1>1, <1>2 DEF SendInv, PreparesAreUnseen
<1>5. ConfirmableIsUnspent' /\ ReviewedIsLatest'
  BY <1>1 DEF SendInv, ConfirmableIsUnspent, ReviewedIsLatest
<1>6. \A s \in payments' : s.id \in Nat
  BY <1>2, <1>3 DEF SendInv
<1> QED
  BY <1>1, <1>2, <1>3, <1>4, <1>5, <1>6 DEF SendInv

(* An attempt to pay that ends takes its quote off the screen.             *)
LEMMA PaymentKeeps ==
    ASSUME SendInv, NEW s \in payments, PaymentResolves(s) \/ PaymentRejects(s)
    PROVE  SendInv'
<1>1. /\ expired' = expired /\ prepares' = prepares /\ confirmed' = confirmed
      /\ visit' = visit /\ asked' = asked /\ quoteToken' = quoteToken
      /\ payments' = payments \ {s}
  BY DEF PaymentResolves, PaymentRejects
<1>0. s.id \in Nat /\ sendHook \in Hook(Nat) /\ sent \in BOOLEAN
  BY DEF SendInv
<1>9. /\ Fulfil(sendHook, s.generation, s.id) \in Hook(Nat)
      /\ Reject(sendHook, s.generation, FALSE) \in Hook(Nat)
  BY <1>0, FulfilHook, RejectHook
<1>2. /\ sendHook' \in Hook(Nat) /\ quote' \subseteq quote /\ sent' \in BOOLEAN
      /\ (sendHook' = sendHook /\ sent' = sent) \/ sent' \/ quote' = {}
  <2>1. CASE PaymentResolves(s)
    BY <1>0, <1>9, <2>1 DEF PaymentResolves
  <2>2. CASE PaymentRejects(s)
    BY <1>0, <1>9, <2>2 DEF PaymentRejects
  <2> QED
    BY <2>1, <2>2
<1>3. PreparesAreUnseen' /\ ReviewedIsLatest'
  BY <1>1, <1>2 DEF SendInv, PreparesAreUnseen, ReviewedIsLatest
<1>4. ConfirmableIsUnspent'
  BY <1>1, <1>2 DEF SendInv, ConfirmableIsUnspent, Screen
<1> QED
  BY <1>1, <1>2, <1>3, <1>4 DEF SendInv

(* A step that leaves the quote, or takes it away, confirms nothing.       *)
LEMMA SendCalm ==
    ASSUME SendInv,
           /\ sendHook' \in Hook(Nat) /\ asked' = asked /\ {expired, sent}' \subseteq BOOLEAN
           /\ payments' = payments /\ confirmed' = confirmed /\ prepares' \subseteq prepares
           /\ \/ quote' = {}
              \/ /\ quote' = quote /\ quoteToken' = quoteToken /\ visit' = visit
                 /\ sendHook' = sendHook /\ sent' = sent /\ (expired => expired')
    PROVE  SendInv'
<1>1. PreparesAreUnseen'
  BY DEF SendInv, PreparesAreUnseen
<1>2. ConfirmableIsUnspent' /\ ReviewedIsLatest'
  BY DEF SendInv, ConfirmableIsUnspent, ReviewedIsLatest, Screen
<1> QED
  BY <1>1, <1>2 DEF SendInv

LEMMA SendNextKeeps == SendInv /\ [SendNext]_sendVars => SendInv'
<1> SUFFICES ASSUME SendInv, [SendNext]_sendVars PROVE SendInv'
  OBVIOUS
<1>0. sendHook \in Hook(Nat) /\ {expired, sent} \subseteq BOOLEAN
  BY DEF SendInv
<1>1. CASE Continues \/ Refreshes
  BY <1>1, RequestKeeps DEF Continues, Refreshes, Screen
<1>2. ASSUME NEW p \in prepares, PrepareResolves(p) PROVE SendInv'
  BY <1>2, PrepareResolvesKeeps
<1>3. ASSUME NEW p \in prepares, PrepareRejects(p) \/ TimesOut(p) PROVE SendInv'
  <2>1. PICK error : QuoteFails(p, error)
    BY <1>3 DEF PrepareRejects, TimesOut
  <2> QED
    BY <1>0, <2>1, SendCalm DEF QuoteFails
<1>4. CASE Confirms
  BY <1>4, ConfirmsKeeps
<1>5. ASSUME NEW s \in payments, PaymentResolves(s) \/ PaymentRejects(s) PROVE SendInv'
  BY <1>5, PaymentKeeps
<1>6. CASE Edits \/ BalanceMoves \/ (\E id \in intents : IntentExpires(id)) \/ UNCHANGED sendVars
  BY <1>0, <1>6, SendCalm DEF Edits, BalanceMoves, IntentExpires, sendVars, formVars, quoteVars
<1>7. CASE Cancels \/ EditsQuote
  BY <1>0, <1>7, SendCalm DEF Cancels, EditsQuote, CancelQuote, Screen, SendInv
<1>8. CASE Expires
  BY <1>0, <1>8, SendCalm DEF Expires
<1>9. CASE SendsAnother
  BY <1>0, <1>9, SendCalm DEF SendsAnother
<1>10. CASE LeavesSend
  <2>1. sendHook' \in Hook(Nat)
    BY <1>10 DEF LeavesSend, Fresh, FreshHook, Hook
  <2> QED
    BY <1>0, <1>10, <2>1, SendCalm DEF LeavesSend, Fresh
<1> QED
  BY <1>1, <1>2, <1>3, <1>4, <1>5, <1>6, <1>7, <1>8, <1>9, <1>10 DEF SendNext

-----------------------------------------------------------------------------
(* The exit screen                                                         *)

Plans == [of : SUBSET Outputs, canStart : BOOLEAN]
PlanCalls == [generation : Nat, of : SUBSET Outputs]

(* The answers that may still land are those for what is picked: only they *)
(* are of the hook's generation.                                           *)
AnswersAreOfChoice ==
    exitMode = "unilateral" /\ selected # {} =>
        \A c \in planCalls : c.generation = planHook.generation => c.of = selected

ExitScreenInv ==
    /\ selected \subseteq Outputs
    /\ planHook \in Hook(Plans)
    /\ planCalls \in SUBSET PlanCalls
    /\ \A c \in planCalls : c.generation <= planHook.generation
    /\ AnswersAreOfChoice
    /\ PlanIsOfChoice
    /\ ackOpen => selected \subseteq reviewed
    /\ ForcedWasReviewed

LEMMA ExitScreenInitInv == ExitScreenInit => ExitScreenInv
<1> SUFFICES ASSUME ExitScreenInit PROVE ExitScreenInv
  OBVIOUS
<1>1. planHook \in Hook(Plans) /\ planHook.data = {}
  BY DEF ExitScreenInit, FreshHook, Hook
<1> QED
  BY <1>1 DEF ExitScreenInit, ExitScreenInv, AnswersAreOfChoice, PlanIsOfChoice,
     ForcedWasReviewed

(* What a step may do to the dialog and the batches, if it is not theirs.  *)
DialogStays == UNCHANGED <<ackOpen, reviewed, forced>>

LEMMA NewestCall ==
    ASSUME NEW cs \in SUBSET PlanCalls, NEW g \in Nat, \A c \in cs : c.generation <= g,
           NEW outpoints \in SUBSET Outputs
    PROVE  LET more == cs \cup {[generation |-> g + 1, of |-> outpoints]} IN
           /\ more \in SUBSET PlanCalls
           /\ \A c \in more : c.generation <= g + 1
           /\ \A c \in more : c.generation = g + 1 => c.of = outpoints
<1> DEFINE n == [generation |-> g + 1, of |-> outpoints]
<1>1. n \in PlanCalls /\ n.generation = g + 1 /\ n.of = outpoints
  BY DEF PlanCalls
<1> HIDE DEF n
<1>3. \A c \in cs : c.generation \in Nat /\ c.generation <= g
  BY DEF PlanCalls
<1>4. \A c \in cs : c.generation <= g + 1 /\ c.generation # g + 1
  BY <1>3
<1> QED
  BY <1>1, <1>4 DEF n

LEMMA ChoiceKeeps ==
    ASSUME ExitScreenInv, DialogStays, NEW outpoints \in SUBSET Outputs,
           NEW m, Chooses(outpoints, m), ~ackOpen \/ outpoints \subseteq selected
    PROVE  ExitScreenInv'
<1>0. planHook \in Hook(Plans) /\ planHook.generation \in Nat
  BY DEF ExitScreenInv, Hook
<1>1. CASE m = "unilateral" /\ outpoints # {}
  <2>1. /\ selected' = outpoints /\ planHook' = Track(planHook, FALSE)
        /\ planCalls' = planCalls \cup
             {[generation |-> planHook'.generation, of |-> outpoints]}
    BY <1>1 DEF Chooses, Previews
  <2>2. /\ planHook' \in Hook(Plans) /\ planHook'.data = {}
        /\ planHook'.generation = planHook.generation + 1
    BY <1>0, <2>1 DEF Hook, Track
  <2>3. /\ planCalls' \in SUBSET PlanCalls
        /\ \A c \in planCalls' : c.generation <= planHook'.generation
        /\ \A c \in planCalls' : c.generation = planHook'.generation => c.of = selected'
    <3>1. /\ planCalls \in SUBSET PlanCalls
          /\ \A c \in planCalls : c.generation <= planHook.generation
      BY DEF ExitScreenInv
    <3>2. planCalls' = planCalls \cup
             {[generation |-> planHook.generation + 1, of |-> outpoints]}
      BY <2>1, <2>2
    <3>3. LET more == planCalls \cup {[generation |-> planHook.generation + 1, of |-> outpoints]}
          IN /\ more \in SUBSET PlanCalls
             /\ \A c \in more : c.generation <= planHook.generation + 1
             /\ \A c \in more : c.generation = planHook.generation + 1 => c.of = outpoints
      BY <1>0, <3>1, NewestCall
    <3> QED
      BY <1>0, <2>1, <2>2, <3>1, <3>2, <3>3
  <2>6. AnswersAreOfChoice' /\ PlanIsOfChoice'
    BY <2>2, <2>3 DEF AnswersAreOfChoice, PlanIsOfChoice
  <2>7. ForcedWasReviewed' /\ (ackOpen' => selected' \subseteq reviewed')
    BY <2>1 DEF ForcedWasReviewed, DialogStays, ExitScreenInv
  <2> QED
    BY <2>1, <2>2, <2>3, <2>6, <2>7 DEF ExitScreenInv
<1>2. CASE ~(m = "unilateral" /\ outpoints # {})
  <2>1. /\ selected' = outpoints /\ exitMode' = m
        /\ planHook' = planHook /\ planCalls' = planCalls
    BY <1>2 DEF Chooses
  <2>2. AnswersAreOfChoice' /\ PlanIsOfChoice'
    BY <1>2, <2>1 DEF AnswersAreOfChoice, PlanIsOfChoice
  <2> QED
    BY <2>1, <2>2 DEF ExitScreenInv, DialogStays, ForcedWasReviewed
<1> QED
  BY <1>1, <1>2

(* The choice stays, and an answer about the plan comes in.                *)
LEMMA PlanLandsKeeps ==
    ASSUME ExitScreenInv, DialogStays, selected' = selected, exitMode' = exitMode,
           NEW c \in planCalls, planCalls' = planCalls \ {c},
           NEW plan \in Plans, plan.of = c.of,
           planHook' = Fulfil(planHook, c.generation, plan)
    PROVE  ExitScreenInv'
<1>1. planHook \in Hook(Plans)
  BY DEF ExitScreenInv
<1>2. /\ planHook' \in Hook(Plans) /\ planHook'.generation = planHook.generation
      /\ planHook'.data = IF c.generation = planHook.generation THEN {plan} ELSE planHook.data
  BY <1>1, FulfilHook
<1>3. AnswersAreOfChoice /\ PlanIsOfChoice
  BY DEF ExitScreenInv
<1>4. AnswersAreOfChoice'
  BY <1>2, <1>3 DEF AnswersAreOfChoice
<1>5. PlanIsOfChoice'
  <2>1. CASE c.generation = planHook.generation
    BY <1>2, <1>3, <2>1 DEF AnswersAreOfChoice, PlanIsOfChoice
  <2>2. CASE c.generation # planHook.generation
    BY <1>2, <1>3, <2>2 DEF PlanIsOfChoice
  <2> QED
    BY <2>1, <2>2
<1> QED
  BY <1>2, <1>4, <1>5 DEF ExitScreenInv, DialogStays, ForcedWasReviewed

LEMMA PlanFailsKeeps ==
    ASSUME ExitScreenInv, DialogStays, selected' = selected, exitMode' = exitMode,
           NEW c \in planCalls, planCalls' = planCalls \ {c},
           planHook' = Reject(planHook, c.generation, FALSE)
    PROVE  ExitScreenInv'
<1>1. /\ planHook' \in Hook(Plans) /\ planHook'.generation = planHook.generation
      /\ planHook'.data \subseteq planHook.data
  BY DEF ExitScreenInv, Hook, Reject
<1>2. AnswersAreOfChoice' /\ PlanIsOfChoice'
  BY <1>1 DEF ExitScreenInv, AnswersAreOfChoice, PlanIsOfChoice
<1> QED
  BY <1>1, <1>2 DEF ExitScreenInv, DialogStays, ForcedWasReviewed

LEMMA ExitScreenNextKeeps ==
    ExitScreenInv /\ [ExitScreenNext]_exitScreenVars => ExitScreenInv'
<1> SUFFICES ASSUME ExitScreenInv, [ExitScreenNext]_exitScreenVars PROVE ExitScreenInv'
  OBVIOUS
<1>0. selected \subseteq Outputs
  BY DEF ExitScreenInv
<1>1. ASSUME NEW o \in Outputs, Toggles(o) PROVE ExitScreenInv'
  BY <1>0, <1>1, ChoiceKeeps DEF Toggles, DialogStays, dialogVars, runVars
<1>2. ASSUME NEW m \in ExitModes, SwitchesMode(m) PROVE ExitScreenInv'
  BY <1>0, <1>2, ChoiceKeeps DEF SwitchesMode, DialogStays, dialogVars, runVars
<1>3. CASE Rechecks
  <2>1. selected # {} => Chooses(selected, exitMode)
    BY <1>3 DEF Rechecks, Chooses
  <2>2. CASE selected = {}
    <3>1. /\ planHook' = Track(planHook, FALSE) /\ selected' = {}
          /\ planCalls' = planCalls \cup {[generation |-> planHook'.generation, of |-> selected]}
      BY <1>3, <2>2 DEF Rechecks, Previews
    <3>2. planHook \in Hook(Plans) /\ planHook.generation \in Nat
      BY DEF ExitScreenInv, Hook
    <3>3. /\ planHook' \in Hook(Plans) /\ planHook'.generation = planHook.generation + 1
      BY <3>1, <3>2 DEF Hook, Track
    <3>4. /\ planCalls' \in SUBSET PlanCalls
          /\ \A c \in planCalls' : c.generation <= planHook'.generation
      <4>1. /\ planCalls \in SUBSET PlanCalls
            /\ \A c \in planCalls : c.generation <= planHook.generation
        BY DEF ExitScreenInv
      <4>2. planCalls' = planCalls \cup
               {[generation |-> planHook.generation + 1, of |-> selected]}
        BY <3>1, <3>3
      <4>3. LET more == planCalls \cup {[generation |-> planHook.generation + 1, of |-> selected]}
            IN /\ more \in SUBSET PlanCalls
               /\ \A c \in more : c.generation <= planHook.generation + 1
        BY <1>0, <3>2, <4>1, NewestCall
      <4> QED
        BY <1>0, <3>2, <3>3, <4>1, <4>2, <4>3
    <3>5. AnswersAreOfChoice' /\ PlanIsOfChoice'
      BY <3>1 DEF AnswersAreOfChoice, PlanIsOfChoice
    <3> QED
      BY <1>3, <3>1, <3>3, <3>4, <3>5
      DEF ExitScreenInv, Rechecks, dialogVars, runVars, ForcedWasReviewed
  <2> QED
    BY <1>0, <1>3, <2>1, <2>2, ChoiceKeeps DEF Rechecks, DialogStays, dialogVars, runVars
<1>4. ASSUME NEW c \in planCalls, PreviewFails(c) PROVE ExitScreenInv'
  BY <1>4, PlanFailsKeeps DEF PreviewFails, DialogStays, dialogVars, runVars
<1>10. ASSUME NEW c \in planCalls, NEW canStart \in BOOLEAN, PreviewLands(c, canStart)
       PROVE  ExitScreenInv'
  <2> DEFINE plan == [of |-> c.of, canStart |-> canStart]
  <2>1. c.of \in SUBSET Outputs
    BY DEF ExitScreenInv, PlanCalls
  <2>2. plan \in Plans /\ plan.of = c.of
    BY <2>1 DEF Plans
  <2>3. /\ planCalls' = planCalls \ {c} /\ planHook' = Fulfil(planHook, c.generation, plan)
        /\ selected' = selected /\ exitMode' = exitMode /\ DialogStays
    BY <1>10 DEF PreviewLands, DialogStays, dialogVars, runVars
  <2> HIDE DEF plan
  <2> QED
    BY <2>2, <2>3, PlanLandsKeeps
<1>5. CASE OpensAck
  <2>1. PICK plan \in planHook.data : reviewed' = plan.of
    BY <1>5 DEF OpensAck
  <2>2. reviewed' = selected
    BY <1>5, <2>1 DEF OpensAck, ExitScreenInv, PlanIsOfChoice
  <2> QED
    BY <1>5, <2>2 DEF OpensAck, choiceVars, runVars, ExitScreenInv, AnswersAreOfChoice,
       PlanIsOfChoice, ForcedWasReviewed
<1>6. CASE ConfirmsAck
  <2>1. forced' = forced \cup {[of |-> selected, reviewed |-> reviewed]}
        /\ selected \subseteq reviewed
    BY <1>6 DEF ConfirmsAck, ExitScreenInv
  <2>2. ForcedWasReviewed'
    BY <2>1 DEF ExitScreenInv, ForcedWasReviewed
  <2> QED
    BY <1>6, <2>2 DEF ConfirmsAck, ClosesAck, choiceVars, ExitScreenInv, AnswersAreOfChoice,
       PlanIsOfChoice
<1>7. CASE Types \/ CancelsAck \/ StartsCooperative \/ UNCHANGED exitScreenVars
           \/ (\E o \in Outputs : ExitsElsewhere(o))
           \/ (\E c \in runCalls, begun \in SUBSET Outputs : RunEnds(c, begun) \/ RunThrows(c, begun))
  <2>1. CASE Types \/ CancelsAck \/ UNCHANGED exitScreenVars
    BY <2>1 DEF Types, CancelsAck, ClosesAck, exitScreenVars, choiceVars, dialogVars, runVars,
       ExitScreenInv, AnswersAreOfChoice, PlanIsOfChoice, ForcedWasReviewed
  <2>2. CASE StartsCooperative \/ (\E o \in Outputs : ExitsElsewhere(o))
             \/ (\E c \in runCalls, begun \in SUBSET Outputs : RunEnds(c, begun) \/ RunThrows(c, begun))
    <3>1. UNCHANGED <<choiceVars, dialogVars, forced>>
      BY <2>2 DEF StartsCooperative, ExitsElsewhere, RunEnds, RunThrows, runVars
    <3> QED
      BY <3>1 DEF choiceVars, dialogVars, ExitScreenInv, AnswersAreOfChoice, PlanIsOfChoice,
         ForcedWasReviewed
  <2> QED
    BY <1>7, <2>1, <2>2
<1>8. CASE StartsAnother
  <2>1. /\ selected' = {} /\ planHook' = Reset(planHook) /\ planCalls' = planCalls
        /\ UNCHANGED <<exitMode, ackOpen, reviewed, forced>>
    BY <1>8 DEF StartsAnother, dialogVars
  <2>2. planHook \in Hook(Plans) /\ planHook.generation \in Nat
    BY DEF ExitScreenInv, Hook
  <2>3. planHook' \in Hook(Plans) /\ planHook'.generation = planHook.generation + 1
    <3>1. FreshHook \in Hook(Plans)
      BY DEF FreshHook, Hook
    <3> QED
      BY <2>1, <2>2, <3>1 DEF Hook, Reset
  <2>4. \A c \in planCalls' : c.generation <= planHook'.generation
    BY <2>1, <2>2, <2>3 DEF ExitScreenInv, PlanCalls
  <2> QED
    BY <2>1, <2>3, <2>4 DEF ExitScreenInv, AnswersAreOfChoice, PlanIsOfChoice, ForcedWasReviewed
<1>9. ASSUME NEW known \in SUBSET Outputs, SummaryLands(known) PROVE ExitScreenInv'
  <2>1. CASE selected \cap known # {}
    BY <1>0, <1>9, <2>1, ChoiceKeeps DEF SummaryLands, DialogStays, dialogVars, runVars
  <2>2. CASE selected \cap known = {}
    BY <1>9, <2>2 DEF SummaryLands, choiceVars, dialogVars, runVars, ExitScreenInv,
       AnswersAreOfChoice, PlanIsOfChoice, ForcedWasReviewed
  <2> QED
    BY <2>1, <2>2
<1> QED
  BY <1>1, <1>2, <1>3, <1>4, <1>5, <1>6, <1>7, <1>8, <1>9, <1>10 DEF ExitScreenNext

-----------------------------------------------------------------------------
(* The status panel                                                        *)

Statuses == Exits \X Nat
StatusReads == [generation : Nat, outpoint : Exits, seen : Nat \cup {Unread}]

(* No answer of the newest read is older than what the screen shows: the   *)
(* daemon never goes back, and the screen shows what an earlier one found. *)
ShownIsOlder(data, answers, generation) ==
    \A s \in data, r \in answers :
        r.generation = generation /\ r.seen # Unread /\ r.outpoint = s[1] => s[2] <= r.seen

StatusInv ==
    /\ outpoint \in Exits
    /\ statusHook \in Hook(Statuses)
    /\ reads \in SUBSET StatusReads
    /\ progress \in [Exits -> Nat]
    /\ \A r \in reads : r.generation <= statusHook.generation /\ r.seen <= progress[r.outpoint]
    /\ \A r, q \in reads : r.generation = q.generation => r = q
    /\ \A s \in statusHook.data : s[2] <= progress[s[1]]
    /\ \A s, t \in statusHook.data : s = t
    /\ ShownIsOlder(statusHook.data, reads, statusHook.generation)

LEMMA StatusInitInv == StatusInit => StatusInv
<1> SUFFICES ASSUME StatusInit PROVE StatusInv
  OBVIOUS
<1> DEFINE r == [generation |-> 1, outpoint |-> outpoint, seen |-> Unread]
<1>1. outpoint \in Exits
  BY PanelAssumption DEF StatusInit
<1>2. /\ statusHook \in Hook(Statuses) /\ statusHook.generation = 1 /\ statusHook.data = {}
  <2>1. FreshHook \in Hook(Statuses) /\ FreshHook.data = {} /\ FreshHook.generation = 0
    BY FreshIsHook
  <2>2. statusHook = Track(FreshHook, TRUE)
    BY DEF StatusInit
  <2> QED
    BY <2>1, <2>2 DEF Track, Hook
<1>3. r \in StatusReads /\ r.seen = Unread /\ r.generation = 1 /\ r.outpoint = outpoint
  BY <1>1 DEF StatusReads
<1>4. reads = {r} /\ progress = [o \in Exits |-> 0]
  BY DEF StatusInit
<1> HIDE DEF r
<1> QED
  BY <1>1, <1>2, <1>3, <1>4 DEF StatusInv, ShownIsOlder, Unread

(* A read of any exit is the newest, and has found nothing yet.            *)
LEMMA ReadKeeps ==
    ASSUME StatusInv, NEW e \in Exits, Read(e), outpoint' \in Exits, progress' = progress
    PROVE  StatusInv' /\ statusHook'.data = statusHook.data
<1> DEFINE n == [generation |-> statusHook'.generation, outpoint |-> e, seen |-> Unread]
<1>1. statusHook \in Hook(Statuses) /\ statusHook.generation \in Nat
  BY DEF StatusInv, Hook
<1>2. /\ statusHook' \in Hook(Statuses) /\ statusHook'.data = statusHook.data
      /\ statusHook'.generation = statusHook.generation + 1
  BY <1>1, TrackHook DEF Read
<1>3. reads' = reads \cup {n}
  BY DEF Read
<1>4. n \in StatusReads /\ n.seen = Unread /\ n.generation = statusHook.generation + 1
      /\ n.outpoint = e
  BY <1>1, <1>2 DEF StatusReads
<1> HIDE DEF n
<1>5. \A r \in reads : r.generation \in Nat /\ r.generation <= statusHook.generation
  BY DEF StatusInv, StatusReads
<1>6. progress[e] \in Nat
  BY DEF StatusInv
<1>7. \A r \in reads' :
        r.generation <= statusHook'.generation /\ r.seen <= progress'[r.outpoint]
  BY <1>1, <1>2, <1>3, <1>4, <1>5, <1>6 DEF StatusInv, Unread
<1>8. \A r, q \in reads' : r.generation = q.generation => r = q
  BY <1>1, <1>3, <1>4, <1>5 DEF StatusInv
<1>9. ShownIsOlder(statusHook.data, reads', statusHook.generation + 1)
  BY <1>1, <1>3, <1>4, <1>5 DEF ShownIsOlder
<1> QED
  BY <1>2, <1>3, <1>4, <1>7, <1>8, <1>9 DEF StatusInv

LEMMA DaemonReadsKeeps ==
    ASSUME StatusInv, NEW r \in reads, DaemonReads(r)
    PROVE  StatusInv' /\ statusHook'.data = statusHook.data
<1> DEFINE n == [r EXCEPT !.seen = progress[r.outpoint]]
<1>1. /\ reads' = (reads \ {r}) \cup {n}
      /\ outpoint' = outpoint /\ statusHook' = statusHook /\ progress' = progress
  BY DEF DaemonReads
<1>2. r \in StatusReads /\ progress[r.outpoint] \in Nat
  BY DEF StatusInv, StatusReads
<1>3. n \in StatusReads /\ n.seen = progress[r.outpoint] /\ n.generation = r.generation
      /\ n.outpoint = r.outpoint
  BY <1>2 DEF StatusReads
<1> HIDE DEF n
<1>4. \A q \in reads' : q.generation <= statusHook.generation /\ q.seen <= progress[q.outpoint]
  BY <1>1, <1>2, <1>3 DEF StatusInv
<1>5. \A p, q \in reads' : p.generation = q.generation => p = q
  BY <1>1, <1>3 DEF StatusInv
<1>6. ShownIsOlder(statusHook.data, reads', statusHook.generation)
  <2> SUFFICES ASSUME NEW s \in statusHook.data, NEW q \in reads',
                      q.generation = statusHook.generation, q.seen # Unread, q.outpoint = s[1]
               PROVE  s[2] <= q.seen
    BY DEF ShownIsOlder
  <2>1. CASE q = n
    BY <1>3, <2>1 DEF StatusInv
  <2>2. CASE q \in reads
    BY <2>2 DEF StatusInv, ShownIsOlder
  <2> QED
    BY <1>1, <2>1, <2>2
<1> QED
  BY <1>1, <1>3, <1>4, <1>5, <1>6 DEF StatusInv

(* An answer lands: it is dropped, or is newer than what is shown.         *)
LEMMA StatusLandsKeeps ==
    ASSUME StatusInv, NEW r \in reads, StatusLands(r)
    PROVE  /\ StatusInv'
           /\ \A old \in statusHook.data, new \in statusHook'.data :
                old[1] = new[1] => old[2] <= new[2]
<1> DEFINE found == <<r.outpoint, r.seen>>
<1>1. /\ reads' = reads \ {r} /\ outpoint' = outpoint /\ progress' = progress
      /\ statusHook' = Fulfil(statusHook, r.generation, found) /\ r.seen # Unread
  BY DEF StatusLands
<1>2. r \in StatusReads /\ statusHook \in Hook(Statuses)
  BY DEF StatusInv
<1>3. found \in Statuses /\ found[1] = r.outpoint /\ found[2] = r.seen
  BY <1>1, <1>2 DEF StatusReads, Statuses
<1> HIDE DEF found
<1>4. /\ statusHook' \in Hook(Statuses) /\ statusHook'.generation = statusHook.generation
      /\ statusHook'.data =
           IF r.generation = statusHook.generation THEN {found} ELSE statusHook.data
  BY <1>1, <1>2, <1>3, FulfilHook
<1>5. CASE r.generation = statusHook.generation
  <2>1. \A q \in reads' : q.generation # statusHook.generation
    BY <1>1, <1>5 DEF StatusInv
  <2>2. ShownIsOlder(statusHook'.data, reads', statusHook'.generation)
    BY <1>4, <2>1 DEF ShownIsOlder
  <2>3. \A s \in statusHook'.data : s[2] <= progress[s[1]]
    BY <1>3, <1>4, <1>5 DEF StatusInv
  <2>4. \A old \in statusHook.data : old[1] = found[1] => old[2] <= found[2]
    BY <1>1, <1>3, <1>5 DEF StatusInv, ShownIsOlder
  <2> QED
    BY <1>1, <1>4, <1>5, <2>2, <2>3, <2>4 DEF StatusInv
<1>6. CASE r.generation # statusHook.generation
  <2>1. \A s \in statusHook.data : s[2] \in Nat
    BY <1>2 DEF Hook, Statuses
  <2>2. \A s, q \in statusHook.data : s = q
    BY DEF StatusInv
  <2> QED
    BY <1>1, <1>4, <1>6, <2>1, <2>2 DEF StatusInv, ShownIsOlder
<1> QED
  BY <1>5, <1>6


LEMMA StatusFailsKeeps ==
    ASSUME StatusInv, NEW r \in reads, StatusFails(r)
    PROVE  StatusInv' /\ statusHook'.data = statusHook.data
<1>1. /\ reads' = reads \ {r} /\ outpoint' = outpoint /\ progress' = progress
      /\ statusHook' = Reject(statusHook, r.generation, TRUE)
  BY DEF StatusFails
<1>2. /\ statusHook' \in Hook(Statuses) /\ statusHook'.generation = statusHook.generation
      /\ statusHook'.data = statusHook.data
  BY <1>1 DEF StatusInv, Hook, Reject
<1> QED
  BY <1>1, <1>2 DEF StatusInv, ShownIsOlder

LEMMA AdvancesKeeps ==
    ASSUME StatusInv, NEW e \in Exits, Advances(e)
    PROVE  StatusInv' /\ statusHook'.data = statusHook.data
<1>1. /\ progress' = [progress EXCEPT ![e] = @ + 1]
      /\ outpoint' = outpoint /\ statusHook' = statusHook /\ reads' = reads
  BY DEF Advances
<1>2. progress \in [Exits -> Nat]
  BY DEF StatusInv
<1>3. /\ progress' \in [Exits -> Nat]
      /\ \A x \in Exits : progress[x] \in Nat /\ progress[x] <= progress'[x]
  BY <1>1, <1>2
<1>4. /\ \A r \in reads : r.outpoint \in Exits /\ r.seen \in Int
      /\ \A s \in statusHook.data : s[1] \in Exits /\ s[2] \in Nat
  BY DEF StatusInv, StatusReads, Hook, Statuses, Unread
<1>5. \A r \in reads : r.seen <= progress'[r.outpoint]
  <2> SUFFICES ASSUME NEW r \in reads PROVE r.seen <= progress'[r.outpoint]
    OBVIOUS
  <2>1. r.seen <= progress[r.outpoint]
    BY DEF StatusInv
  <2> QED
    BY <1>3, <1>4, <2>1
<1>6. \A s \in statusHook.data : s[2] <= progress'[s[1]]
  <2> SUFFICES ASSUME NEW s \in statusHook.data PROVE s[2] <= progress'[s[1]]
    OBVIOUS
  <2>1. s[2] <= progress[s[1]]
    BY DEF StatusInv
  <2> QED
    BY <1>3, <1>4, <2>1
<1> QED
  BY <1>1, <1>3, <1>5, <1>6 DEF StatusInv, ShownIsOlder

(* What a step does to the status on the screen.                           *)
LEMMA StatusNextKeeps ==
    ASSUME StatusInv, [StatusNext]_statusVars
    PROVE  /\ StatusInv'
           /\ \A old \in statusHook.data, new \in statusHook'.data :
                old[1] = new[1] => old[2] <= new[2]
<1>0. statusHook'.data = statusHook.data =>
        \A old \in statusHook.data, new \in statusHook'.data :
          old[1] = new[1] => old[2] <= new[2]
  BY DEF StatusInv, Hook, Statuses
<1>1. ASSUME NEW r \in reads, DaemonReads(r) \/ StatusFails(r)
      PROVE  StatusInv' /\ statusHook'.data = statusHook.data
  BY <1>1, DaemonReadsKeeps, StatusFailsKeeps
<1>2. ASSUME Polls PROVE StatusInv' /\ statusHook'.data = statusHook.data
  BY <1>2, ReadKeeps DEF Polls, StatusInv
<1>3. ASSUME NEW e \in Exits, Turns(e) \/ Advances(e)
      PROVE  StatusInv' /\ statusHook'.data = statusHook.data
  BY <1>3, ReadKeeps, AdvancesKeeps DEF Turns
<1>4. ASSUME UNCHANGED statusVars PROVE StatusInv' /\ statusHook'.data = statusHook.data
  BY <1>4 DEF statusVars, StatusInv, ShownIsOlder
<1>5. CASE \E r \in reads : StatusLands(r)
  BY <1>5, StatusLandsKeeps
<1>6. CASE ~\E r \in reads : StatusLands(r)
  BY <1>0, <1>1, <1>2, <1>3, <1>4, <1>6 DEF StatusNext
<1> QED
  BY <1>5, <1>6

-----------------------------------------------------------------------------
(* The batch of exits                                                      *)

BatchPlans == [of : SUBSET Outpoints, running : SUBSET Outpoints, canStart : BOOLEAN]
Stages == {"plan", "exit"} \cup Settled
BatchRecords ==
    [mode : {"cooperative", "unilateral"}, of : Seq(Outpoints), remaining : SUBSET Outpoints,
     started : Seq(Outpoints), skipped : SUBSET Outpoints, plan : BatchPlans, at : Stages,
     generation : Nat, screen : Nat]

Accounted(b) ==
    /\ Elements(b.started) \cup b.skipped \cup b.remaining = Elements(b.of)
    /\ Elements(b.started) \cap b.skipped = {}
    /\ b.remaining \cap (Elements(b.started) \cup b.skipped) = {}
    /\ \A m, n \in DOMAIN b.started : b.started[m] = b.started[n] => m = n

(* A batch that has not ended has outpoints left, and a forced exit its    *)
(* plan.                                                                   *)
Ready(b) ==
    /\ b.at \notin Settled => b.remaining # {}
    /\ b.mode = "unilateral" /\ b.at = "exit" =>
         b.plan.of = b.remaining /\ b.plan.running = {} /\ b.plan.canStart

GoodBatch(b) == b \in BatchRecords /\ Accounted(b) /\ Ready(b)

(* b has gone on to x, and has started the outpoints of more meanwhile.    *)
GoesOn(b, x, more) ==
    /\ GoodBatch(x)
    /\ x.screen = b.screen /\ x.generation = b.generation
    /\ Elements(x.started) = Elements(b.started) \cup more

LEMMA NoPlanIsPlan == NoPlan \in BatchPlans
  BY DEF NoPlan, BatchPlans

LEMMA EndsGoesOn ==
    ASSUME NEW b \in BatchRecords, Accounted(b), NEW at \in Settled
    PROVE  GoesOn(b, Ends(b, at), {})
<1> DEFINE x == Ends(b, at)
<1>1. /\ x \in BatchRecords /\ x.at = at
      /\ x.started = b.started /\ x.remaining = b.remaining /\ x.skipped = b.skipped
      /\ x.of = b.of /\ x.screen = b.screen /\ x.generation = b.generation
  BY NoPlanIsPlan DEF BatchRecords, Stages, Ends
<1> HIDE DEF x
<1>2. Accounted(x)
  BY <1>1 DEF Accounted
<1>3. Ready(x)
  BY <1>1 DEF Ready, Settled
<1> QED
  BY <1>1, <1>2, <1>3 DEF GoesOn, GoodBatch, x

LEMMA LoopHeadGoesOn ==
    ASSUME NEW b \in BatchRecords, Accounted(b), NEW x \in LoopHead(b)
    PROVE  GoesOn(b, x, {})
<1>1. CASE x = Ends(b, "done") \/ x = Ends(b, "threw")
  BY <1>1, EndsGoesOn DEF Settled
<1>2. CASE /\ b.remaining # {}
           /\ x = [b EXCEPT !.plan = NoPlan,
                            !.at = IF b.mode = "unilateral" THEN "plan" ELSE "exit"]
  <2>1. /\ x \in BatchRecords
        /\ x.at = IF b.mode = "unilateral" THEN "plan" ELSE "exit"
        /\ x.mode = b.mode
        /\ x.started = b.started /\ x.remaining = b.remaining /\ x.skipped = b.skipped
        /\ x.of = b.of /\ x.screen = b.screen /\ x.generation = b.generation
    BY <1>2, NoPlanIsPlan DEF BatchRecords, Stages
  <2>2. Accounted(x)
    BY <2>1 DEF Accounted
  <2>3. Ready(x)
    BY <1>2, <2>1 DEF Ready
  <2> QED
    BY <2>1, <2>2, <2>3 DEF GoesOn, GoodBatch
<1> QED
  BY <1>1, <1>2 DEF LoopHead

LEMMA AfterPlanGoesOn ==
    ASSUME NEW b \in BatchRecords, GoodBatch(b), b.at = "plan",
           NEW plan \in BatchPlans, plan.of = b.remaining, plan.running \subseteq b.remaining,
           NEW x \in AfterPlan(b, plan)
    PROVE  GoesOn(b, x, {})
<1> DEFINE known == [b EXCEPT !.plan = plan, !.remaining = b.remaining \ plan.running,
                              !.skipped = @ \cup plan.running]
<1>1. /\ known \in BatchRecords /\ known.plan = plan /\ known.mode = b.mode
      /\ known.remaining = b.remaining \ plan.running
      /\ known.skipped = b.skipped \cup plan.running
      /\ known.started = b.started /\ known.of = b.of
      /\ known.screen = b.screen /\ known.generation = b.generation
  BY DEF BatchRecords, BatchPlans
<1>2. \/ plan.running # {} /\ x \in LoopHead(known)
      \/ x = Ends(known, "stopped")
      \/ plan.running = {} /\ plan.canStart /\ x = [known EXCEPT !.at = "exit"]
  BY DEF AfterPlan
<1> HIDE DEF known
<1>3. Accounted(known)
  BY <1>1 DEF GoodBatch, Accounted
<1>4. ASSUME GoesOn(known, x, {}) PROVE GoesOn(b, x, {})
  BY <1>1, <1>4 DEF GoesOn
<1>5. CASE x \in LoopHead(known)
  BY <1>1, <1>3, <1>4, <1>5, LoopHeadGoesOn
<1>6. CASE x = Ends(known, "stopped")
  BY <1>1, <1>3, <1>4, <1>6, EndsGoesOn DEF Settled
<1>7. CASE plan.running = {} /\ plan.canStart /\ x = [known EXCEPT !.at = "exit"]
  <2>1. /\ x \in BatchRecords /\ x.at = "exit" /\ x.plan = known.plan
        /\ x.started = known.started /\ x.remaining = known.remaining
        /\ x.skipped = known.skipped /\ x.of = known.of
        /\ x.screen = known.screen /\ x.generation = known.generation
    BY <1>1, <1>7 DEF BatchRecords, Stages
  <2>2. Accounted(x)
    BY <1>3, <2>1 DEF Accounted
  <2>3. Ready(x)
    BY <1>1, <1>7, <2>1 DEF Ready, GoodBatch, Settled
  <2> QED
    BY <1>1, <2>1, <2>2, <2>3 DEF GoesOn, GoodBatch
<1> QED
  BY <1>2, <1>5, <1>6, <1>7

(* What is left of a selection has a first.                                *)
LEMMA FirstIsLeft ==
    ASSUME NEW b \in BatchRecords, Accounted(b), b.remaining # {}
    PROVE  First(b) \in b.remaining
<1> DEFINE left == {i \in DOMAIN b.of : b.of[i] \in b.remaining}
<1>1. b.of \in Seq(Outpoints) /\ DOMAIN b.of = 1..Len(b.of) /\ Len(b.of) \in Nat
  BY DEF BatchRecords
<1>2. left # {} /\ left \subseteq Nat
  BY <1>1 DEF Accounted, Elements
<1>3. PICK i \in left : \A j \in left : ~(j < i)
  <2> DEFINE R == {ss \in Nat \X Nat : ss[1] < ss[2]}
  <2>1. IsWellFoundedOn(R, Nat)
    BY NatLessThanWellFounded DEF OpToRel
  <2> HIDE DEF left
  <2>2. PICK i \in left : \A j \in left : ~(<<j, i>> \in R)
    BY <1>2, <2>1, WFMin
  <2>3. \A j \in left : ~(j < i)
    <3> TAKE j \in left
    <3>1. <<j, i>> \in Nat \X Nat
      BY <1>2
    <3> QED
      BY <2>2, <3>1
  <2> QED
    BY <2>3
<1>4. \A j \in 1..(i - 1) : b.of[j] \notin b.remaining
  <2> TAKE j \in 1..(i - 1)
  <2>1. i \in Nat /\ i \in 1..Len(b.of) /\ j \in DOMAIN b.of /\ j < i
    BY <1>1
  <2> QED
    BY <1>3, <2>1
<1>5. \E o \in b.remaining : \E k \in DOMAIN b.of :
         b.of[k] = o /\ \A j \in 1..(k - 1) : b.of[j] \notin b.remaining
  BY <1>4
<1> QED
  BY <1>5 DEF First

LEMMA AppendElements ==
    ASSUME NEW S, NEW s \in Seq(S), NEW o \in S
    PROVE  Append(s, o) \in Seq(S) /\ Elements(Append(s, o)) = Elements(s) \cup {o}
<1> DEFINE t == Append(s, o)
<1>1. /\ t \in Seq(S) /\ Len(s) \in Nat /\ DOMAIN s = 1..Len(s) /\ DOMAIN t = 1..(Len(s) + 1)
      /\ t[Len(s) + 1] = o /\ \A i \in 1..Len(s) : t[i] = s[i]
  OBVIOUS
<1> HIDE DEF t
<1>2. DOMAIN t = DOMAIN s \cup {Len(s) + 1}
  BY <1>1
<1>3. Elements(t) = Elements(s) \cup {o}
  BY <1>1, <1>2, Zenon DEF Elements
<1> QED
  BY <1>1, <1>3 DEF t

LEMMA AfterStartGoesOn ==
    ASSUME NEW b \in BatchRecords, GoodBatch(b), b.at = "exit", NEW x \in AfterStart(b)
    PROVE  GoesOn(b, x, {First(b)})
<1> DEFINE o == First(b)
           more == [b EXCEPT !.started = Append(b.started, o), !.remaining = b.remaining \ {o}]
<1>1. Accounted(b) /\ b.remaining # {}
  BY DEF GoodBatch, Ready, Settled
<1>2. o \in b.remaining /\ o \in Outpoints /\ b.started \in Seq(Outpoints)
  BY <1>1, FirstIsLeft DEF BatchRecords
<1>3. x \in LoopHead(more)
  BY DEF AfterStart
<1> HIDE DEF o
<1>5. /\ Append(b.started, o) \in Seq(Outpoints)
      /\ Elements(Append(b.started, o)) = Elements(b.started) \cup {o}
  BY <1>2, AppendElements
<1>4. /\ more \in BatchRecords /\ more.started = Append(b.started, o)
      /\ more.remaining = b.remaining \ {o} /\ more.skipped = b.skipped /\ more.of = b.of
      /\ more.screen = b.screen /\ more.generation = b.generation
  BY <1>5 DEF BatchRecords
<1>6. \A m, n \in DOMAIN Append(b.started, o) :
         Append(b.started, o)[m] = Append(b.started, o)[n] => m = n
  <2>1. \A m \in DOMAIN b.started : b.started[m] # o
    BY <1>1, <1>2 DEF Accounted, Elements
  <2> QED
    BY <1>1, <1>2, <2>1 DEF Accounted
<1> HIDE DEF more
<1>7. Accounted(more)
  BY <1>1, <1>2, <1>4, <1>5, <1>6 DEF Accounted
<1>8. GoesOn(more, x, {})
  BY <1>3, <1>4, <1>7, LoopHeadGoesOn
<1> QED
  BY <1>4, <1>5, <1>8 DEF GoesOn, o

-----------------------------------------------------------------------------

Running(i) == i \in Batches /\ batches[i].at \notin Settled

(* What the screen in front reports of the batch in flight.                *)
HookIsOfBatch ==
    /\ inFlight \in Nat /\ exitHook \in Hook(Nat) /\ screen \in Nat
    /\ \A i \in Batches :
         /\ batches[i].screen <= screen
         /\ Running(i) /\ batches[i].screen = screen => inFlight = i
         /\ batches[i].screen = screen => batches[i].generation <= exitHook.generation
    /\ inFlight # NoBatch =>
         Running(inFlight) /\ batches[inFlight].screen = screen /\ exitHook.data = {}
    /\ inFlight # NoBatch /\ batches[inFlight].generation = exitHook.generation =>
         events = {<<inFlight, o>> : o \in Elements(batches[inFlight].started)}
    /\ \A i \in exitHook.data : i \in Batches /\ ~Running(i)

ExitInv ==
    /\ batches \in Seq(BatchRecords)
    /\ \A i \in Batches : GoodBatch(batches[i])
    /\ OneBatchPerHook
    /\ HookIsOfBatch
    /\ ResultHasItsEvents

LEMMA ExitInitInv == ExitInit => ExitInv
<1> SUFFICES ASSUME ExitInit PROVE ExitInv
  OBVIOUS
<1>1. /\ batches = <<>> /\ inFlight = 0 /\ screen = 1 /\ exitHook = FreshHook
  BY DEF ExitInit, NoBatch
<1>2. exitHook \in Hook(Nat) /\ exitHook.data = {}
  BY <1>1, FreshIsHook
<1>3. Batches = {} /\ batches \in Seq(BatchRecords)
  BY <1>1 DEF Batches
<1> QED
  BY <1>1, <1>2, <1>3 DEF ExitInv, OneBatchPerHook, HookIsOfBatch, ResultHasItsEvents, NoBatch

(* The batch i goes on to x; the hook settles with it, or does not.        *)
LEMMA ProceedsKeeps ==
    ASSUME ExitInv, NEW i, Running(i), NEW x, NEW more,
           GoesOn(batches[i], x, more), Proceeds(i, {x}), screen' = screen,
           events' = IF batches[i].screen = screen THEN events \cup {<<i, o>> : o \in more}
                     ELSE events
    PROVE  ExitInv'
<1>1. batches' = [batches EXCEPT ![i] = x]
  BY DEF Proceeds
<1>2. /\ i \in Batches /\ batches \in Seq(BatchRecords) /\ x \in BatchRecords
      /\ x.screen = batches[i].screen /\ x.generation = batches[i].generation
      /\ Elements(x.started) = Elements(batches[i].started) \cup more
      /\ GoodBatch(x)
  BY DEF ExitInv, Running, GoesOn, GoodBatch
<1>3. /\ batches' \in Seq(BatchRecords) /\ Batches' = Batches
      /\ batches'[i] = x /\ \A j \in Batches : j # i => batches'[j] = batches[j]
  BY <1>1, <1>2 DEF Batches
<1>4. \A j : Running(j)' => Running(j)
  BY <1>2, <1>3 DEF Running
<1>5. \A j \in Batches : GoodBatch(batches'[j])
  BY <1>2, <1>3 DEF ExitInv
<1>6. \A j \in Batches : /\ batches'[j].screen = batches[j].screen
                         /\ batches'[j].generation = batches[j].generation
  BY <1>2, <1>3
<1>7. OneBatchPerHook'
  <2>1. \A j, k \in Batches : batches[j].screen = batches[k].screen /\ Running(j) /\ Running(k)
          => j = k
    BY DEF ExitInv, OneBatchPerHook, Running
  <2>2. \A j, k \in Batches : batches[j].screen = batches[k].screen /\ Running(j)' /\ Running(k)'
          => j = k
    BY <1>4, <2>1
  <2> QED
    BY <1>3, <1>6, <2>2 DEF OneBatchPerHook, Running
<1>8. i \in Nat /\ 0 \notin Batches
  BY <1>2 DEF Batches
<1>9. CASE x.at \in Settled /\ x.screen = screen
  <2>1. /\ inFlight' = NoBatch /\ inFlight = i /\ i # NoBatch
        /\ exitHook.data = {} /\ exitHook \in Hook(Nat)
    BY <1>2, <1>8, <1>9 DEF Proceeds, ExitInv, HookIsOfBatch, NoBatch
  <2>2. /\ exitHook' \in Hook(Nat) /\ exitHook'.generation = exitHook.generation
        /\ exitHook'.data \subseteq {i}
        /\ i \in exitHook'.data => x.generation = exitHook.generation
    <3>1. CASE exitHook' = Reject(exitHook, x.generation, FALSE)
      BY <2>1, <3>1 DEF Reject, Hook
    <3>2. CASE exitHook' = Fulfil(exitHook, x.generation, i)
      BY <1>8, <2>1, <3>2 DEF Fulfil, Hook
    <3> QED
      BY <1>9, <3>1, <3>2 DEF Proceeds
  <2>3. HookIsOfBatch'
    <3>1. \A j \in Batches : ~(Running(j)' /\ batches[j].screen = screen)
      BY <1>2, <1>3, <1>4, <1>9, <2>1 DEF ExitInv, HookIsOfBatch, Running
    <3>2. ~Running(i)'
      BY <1>3, <1>9 DEF Running
    <3> QED
      BY <1>2, <1>3, <1>6, <2>1, <2>2, <3>1, <3>2 DEF ExitInv, HookIsOfBatch, NoBatch
  <2>4. ResultHasItsEvents'
    <3> SUFFICES ASSUME i \in exitHook'.data
                 PROVE  events' = {<<i, o>> : o \in Elements(x.started)}
      BY <1>3, <2>2 DEF ResultHasItsEvents
    <3>1. events = {<<i, o>> : o \in Elements(batches[i].started)}
      BY <1>2, <2>1, <2>2 DEF ExitInv, HookIsOfBatch
    <3>2. events' = events \cup {<<i, o>> : o \in more}
      BY <1>2, <1>9
    <3> QED
      BY <1>2, <3>1, <3>2
  <2> QED
    BY <1>3, <1>5, <1>7, <2>3, <2>4 DEF ExitInv
<1>10. CASE ~(x.at \in Settled /\ x.screen = screen)
  <2>1. UNCHANGED <<inFlight, exitHook>>
    BY <1>10 DEF Proceeds
  <2>2. \A j \in exitHook.data : j # i
    BY DEF ExitInv, HookIsOfBatch
  <2>3. CASE batches[i].screen = screen
    <3>1. inFlight = i /\ inFlight # NoBatch /\ exitHook.data = {}
      BY <1>2, <1>8, <2>3 DEF ExitInv, HookIsOfBatch, NoBatch
    <3>2. Running(i)'
      BY <1>2, <1>3, <1>10, <2>3 DEF Running
    <3>3. x.generation = exitHook.generation =>
            events' = {<<i, o>> : o \in Elements(x.started)}
      <4> SUFFICES ASSUME x.generation = exitHook.generation
                   PROVE  events' = {<<i, o>> : o \in Elements(x.started)}
        OBVIOUS
      <4>1. events = {<<i, o>> : o \in Elements(batches[i].started)}
        BY <1>2, <3>1 DEF ExitInv, HookIsOfBatch
      <4>2. events' = events \cup {<<i, o>> : o \in more}
        BY <2>3
      <4> QED
        BY <1>2, <4>1, <4>2
    <3>4. HookIsOfBatch'
      BY <1>2, <1>3, <1>4, <1>6, <2>1, <3>1, <3>2, <3>3 DEF ExitInv, HookIsOfBatch
    <3>5. ResultHasItsEvents'
      BY <2>1, <3>1 DEF ResultHasItsEvents
    <3> QED
      BY <1>3, <1>5, <1>7, <3>4, <3>5 DEF ExitInv
  <2>4. CASE batches[i].screen # screen
    <3>1. events' = events
      BY <2>4
    <3>2. inFlight # i
      BY <1>2, <1>8, <2>4 DEF ExitInv, HookIsOfBatch, NoBatch, Batches
    <3>4. HookIsOfBatch'
      BY <1>2, <1>3, <1>4, <1>6, <2>1, <2>2, <2>4, <3>1, <3>2
      DEF ExitInv, HookIsOfBatch, Running
    <3>5. ResultHasItsEvents'
      BY <1>3, <2>1, <2>2, <3>1 DEF ExitInv, HookIsOfBatch, ResultHasItsEvents
    <3> QED
      BY <1>3, <1>5, <1>7, <3>4, <3>5 DEF ExitInv
  <2> QED
    BY <2>3, <2>4
<1> QED
  BY <1>9, <1>10

LEMMA ProceedsOne ==
    ASSUME NEW i, NEW next, Proceeds(i, next)
    PROVE  \E x \in next : Proceeds(i, {x})
  BY DEF Proceeds

(* A new batch is the only one of its screen that runs.                    *)
LEMMA StartsKeeps ==
    ASSUME ExitInv, NEW mode \in {"cooperative", "unilateral"}, NEW s \in Selections,
           Starts(mode, s)
    PROVE  ExitInv'
<1> DEFINE n == [mode |-> mode, of |-> s, remaining |-> Elements(s),
                 started |-> <<>>, skipped |-> {}, plan |-> NoPlan,
                 at |-> IF mode = "unilateral" THEN "plan" ELSE "exit",
                 generation |-> exitHook'.generation, screen |-> screen]
<1>0. PICK new : new = Len(batches) + 1
  OBVIOUS
<1>1. /\ inFlight = NoBatch /\ batches' = Append(batches, n)
      /\ inFlight' = Len(batches') /\ events' = {} /\ screen' = screen
      /\ exitHook' = Track(exitHook, FALSE)
  BY DEF Starts
<1>2. batches \in Seq(BatchRecords) /\ exitHook \in Hook(Nat) /\ screen \in Nat
  BY DEF ExitInv, HookIsOfBatch
<1>3. /\ exitHook' \in Hook(Nat) /\ exitHook'.data = {} /\ exitHook.generation \in Nat
      /\ exitHook'.generation = exitHook.generation + 1
  BY <1>1, <1>2 DEF Track, Hook
<1>4. s \in Seq(Outpoints) /\ s # <<>>
  BY ExitAssumption
<1>5. Elements(s) \in SUBSET Outpoints /\ Elements(s) # {}
  <2>1. Len(s) \in Nat /\ Len(s) # 0 /\ DOMAIN s = 1..Len(s) /\ \A i \in DOMAIN s : s[i] \in Outpoints
    BY <1>4
  <2>2. 1 \in DOMAIN s
    BY <2>1
  <2> QED
    BY <2>1, <2>2 DEF Elements
<1>6. /\ n \in BatchRecords /\ n.at = IF mode = "unilateral" THEN "plan" ELSE "exit"
      /\ n.mode = mode /\ n.of = s /\ n.remaining = Elements(s) /\ n.started = <<>>
      /\ n.skipped = {} /\ n.screen = screen /\ n.generation = exitHook'.generation
  BY <1>2, <1>3, <1>4, <1>5, NoPlanIsPlan DEF BatchRecords, Stages, Hook
<1> HIDE DEF n
<1>7. Elements(n.started) = {} /\ DOMAIN n.started = {}
  BY <1>6 DEF Elements
<1>8. GoodBatch(n)
  BY <1>5, <1>6, <1>7 DEF GoodBatch, Accounted, Ready, Settled
<1>9. /\ batches' \in Seq(BatchRecords) /\ Len(batches) \in Nat
      /\ Batches = 1..Len(batches) /\ Batches' = 1..new /\ Len(batches') = new
      /\ batches'[new] = n /\ \A i \in Batches : batches'[i] = batches[i]
  BY <1>0, <1>1, <1>2, <1>6 DEF Batches
<1>10. Batches' = Batches \cup {new} /\ new \notin Batches /\ new # 0 /\ new \in Nat
  BY <1>0, <1>9
<1>11. n.at \notin Settled /\ Running(new)'
  BY <1>6, <1>9, <1>10 DEF Running, Settled
<1>12. \A i \in Batches : /\ Running(i)' <=> Running(i)
                          /\ Running(i) => batches[i].screen # screen
  BY <1>1, <1>9, <1>10 DEF Running, ExitInv, HookIsOfBatch, Batches, NoBatch
<1>13. OneBatchPerHook'
  <2> SUFFICES ASSUME NEW i \in Batches', NEW j \in Batches', Running(i)', Running(j)',
                      batches'[i].screen = batches'[j].screen
               PROVE  i = j
    BY DEF OneBatchPerHook, Running
  <2>1. CASE i \in Batches /\ j \in Batches
    BY <1>9, <1>12, <2>1 DEF ExitInv, OneBatchPerHook, Running
  <2>2. CASE i = new \/ j = new
    BY <1>6, <1>9, <1>10, <1>12, <2>2
  <2> QED
    BY <1>10, <2>1, <2>2
<1>14. HookIsOfBatch'
  <2>1. /\ inFlight' \in Nat /\ exitHook' \in Hook(Nat) /\ screen' \in Nat /\ inFlight' = new
    BY <1>1, <1>2, <1>3, <1>9, <1>10
  <2>2. \A i \in Batches' :
          /\ batches'[i].screen <= screen'
          /\ Running(i)' /\ batches'[i].screen = screen' => inFlight' = i
          /\ batches'[i].screen = screen' => batches'[i].generation <= exitHook'.generation
    <3> SUFFICES ASSUME NEW i \in Batches'
                 PROVE  /\ batches'[i].screen <= screen
                        /\ Running(i)' /\ batches'[i].screen = screen => new = i
                        /\ batches'[i].screen = screen =>
                             batches'[i].generation <= exitHook.generation + 1
      BY <1>1, <1>3, <2>1
    <3>1. CASE i = new
      BY <1>2, <1>3, <1>6, <1>9, <3>1
    <3>2. CASE i \in Batches
      <4>1. batches[i].generation \in Nat
        BY <3>2 DEF ExitInv, GoodBatch, BatchRecords
      <4> QED
        BY <1>3, <1>9, <1>12, <3>2, <4>1 DEF ExitInv, HookIsOfBatch
    <3> QED
      BY <1>10, <3>1, <3>2
  <2>3. /\ Running(inFlight)' /\ batches'[inFlight'].screen = screen'
        /\ events' = {<<inFlight', o>> : o \in Elements(batches'[inFlight'].started)}
    BY <1>1, <1>6, <1>7, <1>9, <1>11, <2>1
  <2> QED
    BY <1>3, <2>1, <2>2, <2>3 DEF HookIsOfBatch
<1>15. ResultHasItsEvents'
  BY <1>3 DEF ResultHasItsEvents
<1>16. \A i \in Batches' : GoodBatch(batches'[i])
  BY <1>8, <1>9, <1>10 DEF ExitInv
<1> QED
  BY <1>9, <1>13, <1>14, <1>15, <1>16 DEF ExitInv

LEMMA ResetsKeeps ==
    ASSUME ExitInv, Resets
    PROVE  ExitInv'
<1>1. /\ batches' = batches /\ inFlight' = inFlight /\ screen' = screen /\ events' = {}
      /\ exitHook' = Reset(exitHook) /\ exitHook \in Hook(Nat)
  BY DEF Resets, ExitInv, HookIsOfBatch
<1>2. /\ exitHook' \in Hook(Nat) /\ exitHook'.data = {}
      /\ exitHook'.generation = exitHook.generation + 1 /\ exitHook.generation \in Nat
  BY <1>1, ResetHook DEF Hook
<1>3. Batches' = Batches /\ \A i : Running(i)' <=> Running(i)
  BY <1>1 DEF Batches, Running
<1>4. \A i \in Batches : batches[i].generation \in Nat /\ batches[i].screen \in Nat
  BY DEF ExitInv, GoodBatch, BatchRecords
<1>5. inFlight # NoBatch => batches[inFlight].generation <= exitHook.generation
  BY DEF ExitInv, HookIsOfBatch, Running
<1>6. HookIsOfBatch'
  BY <1>1, <1>2, <1>3, <1>4, <1>5 DEF ExitInv, HookIsOfBatch, Running
<1> QED
  BY <1>1, <1>2, <1>3, <1>6 DEF ExitInv, OneBatchPerHook, ResultHasItsEvents

LEMMA LeavesKeeps ==
    ASSUME ExitInv, LeavesExit
    PROVE  ExitInv'
<1>1. /\ batches' = batches /\ inFlight' = NoBatch /\ screen' = screen + 1 /\ events' = {}
      /\ exitHook' = FreshHook
  BY DEF LeavesExit
<1>2. exitHook' \in Hook(Nat) /\ exitHook'.data = {}
  BY <1>1, FreshIsHook
<1>3. Batches' = Batches /\ \A i : Running(i)' <=> Running(i)
  BY <1>1 DEF Batches, Running
<1>4. screen \in Nat /\ \A i \in Batches : batches[i].screen \in Nat /\ batches[i].screen <= screen
  BY DEF ExitInv, GoodBatch, BatchRecords, HookIsOfBatch
<1>5. HookIsOfBatch'
  BY <1>1, <1>2, <1>3, <1>4 DEF HookIsOfBatch, NoBatch
<1> QED
  BY <1>1, <1>2, <1>3, <1>5 DEF ExitInv, OneBatchPerHook, ResultHasItsEvents

LEMMA ExitNextKeeps == ExitInv /\ [ExitNext]_exitVars => ExitInv'
<1> SUFFICES ASSUME ExitInv, [ExitNext]_exitVars PROVE ExitInv'
  OBVIOUS
<1>1. ASSUME NEW i \in Batches, PlanLands(i) PROVE ExitInv'
  <2>1. Running(i) /\ batches[i] \in BatchRecords /\ GoodBatch(batches[i])
    BY <1>1 DEF PlanLands, Running, Settled, ExitInv, GoodBatch
  <2>2. PICK canStart \in BOOLEAN :
          Proceeds(i, AfterPlan(batches[i],
            [of |-> batches[i].remaining, running |-> batches[i].remaining \cap jobs,
             canStart |-> canStart]))
    <3>1. PICK canStart \in (IF batches[i].remaining \cap jobs = {}
                             THEN {funds >= Cardinality(batches[i].remaining)} ELSE BOOLEAN) :
            Proceeds(i, AfterPlan(batches[i],
              [of |-> batches[i].remaining, running |-> batches[i].remaining \cap jobs,
               canStart |-> canStart]))
      BY <1>1, Zenon DEF PlanLands
    <3>2. (funds >= Cardinality(batches[i].remaining)) \in BOOLEAN
      OBVIOUS
    <3> QED
      BY <3>1, <3>2, Zenon
  <2> DEFINE plan == [of |-> batches[i].remaining, running |-> batches[i].remaining \cap jobs,
                      canStart |-> canStart]
  <2>3. /\ plan \in BatchPlans /\ plan.of = batches[i].remaining
        /\ plan.running \subseteq batches[i].remaining
    BY <2>1 DEF BatchPlans, BatchRecords
  <2>4. Proceeds(i, AfterPlan(batches[i], plan))
    BY <2>2
  <2> HIDE DEF plan
  <2>5. PICK x \in AfterPlan(batches[i], plan) : Proceeds(i, {x})
    BY <2>4, ProceedsOne
  <2>6. batches[i].at = "plan"
    BY <1>1 DEF PlanLands
  <2>7. GoesOn(batches[i], x, {})
    BY <2>1, <2>3, <2>6, AfterPlanGoesOn
  <2>8. screen' = screen /\ events' = events
    BY <1>1 DEF PlanLands
  <2>9. events' = IF batches[i].screen = screen THEN events \cup {<<i, o>> : o \in {}} ELSE events
    BY <2>8
  <2> QED
    BY <2>1, <2>5, <2>7, <2>8, <2>9, ProceedsKeeps
<1>2. ASSUME NEW i \in Batches, NEW at \in Settled, Running(i),
             Proceeds(i, {Ends(batches[i], at)}), UNCHANGED <<events, screen>>
      PROVE  ExitInv'
  <2>1. batches[i] \in BatchRecords /\ Accounted(batches[i])
    BY DEF ExitInv, GoodBatch
  <2>2. GoesOn(batches[i], Ends(batches[i], at), {})
    BY <2>1, EndsGoesOn
  <2>3. events' = IF batches[i].screen = screen THEN events \cup {<<i, o>> : o \in {}} ELSE events
    BY <1>2
  <2> QED
    BY <1>2, <2>2, <2>3, ProceedsKeeps
<1>3. ASSUME NEW i \in Batches, PlanFails(i) PROVE ExitInv'
  BY <1>2, <1>3 DEF PlanFails, Running, Settled
<1>4. ASSUME NEW i \in Batches, ExitRejected(i) PROVE ExitInv'
  BY <1>2, <1>4 DEF ExitRejected, Running, Settled
<1>5. ASSUME NEW i \in Batches, ExitAccepted(i) PROVE ExitInv'
  <2> DEFINE o == First(batches[i])
  <2>1. Running(i) /\ batches[i] \in BatchRecords /\ GoodBatch(batches[i])
    BY <1>5 DEF ExitAccepted, Running, Settled, ExitInv, GoodBatch
  <2>2. /\ Proceeds(i, AfterStart(batches[i])) /\ screen' = screen /\ batches[i].at = "exit"
        /\ events' = IF batches[i].screen = screen THEN events \cup {<<i, o>>} ELSE events
    BY <1>5 DEF ExitAccepted
  <2>3. PICK x \in AfterStart(batches[i]) : Proceeds(i, {x})
    BY <2>2, ProceedsOne
  <2>4. GoesOn(batches[i], x, {o})
    BY <2>1, <2>2, AfterStartGoesOn
  <2> HIDE DEF o
  <2>5. events' = IF batches[i].screen = screen THEN events \cup {<<i, e>> : e \in {o}}
                  ELSE events
    BY <2>2
  <2> QED
    BY <2>1, <2>2, <2>3, <2>4, <2>5, ProceedsKeeps
<1>6. ASSUME UNCHANGED <<batches, hookVars>> PROVE ExitInv'
  BY <1>6 DEF ExitInv, Batches, hookVars, OneBatchPerHook, HookIsOfBatch, ResultHasItsEvents,
     Running
<1> QED
  BY <1>1, <1>3, <1>4, <1>5, <1>6, StartsKeeps, ResetsKeeps, LeavesKeeps
  DEF ExitNext, DaemonAnswers, OthersExit, OthersSpend, exitVars

LEMMA ExitInvSafe == ExitInv => BatchIsWhole /\ StartsAreFunded
  BY DEF ExitInv, BatchIsWhole, StartsAreFunded, EveryOutpointAccounted, GoodBatch, Accounted,
     Ready

(* The wallet app                                                          *)

Entries == [there : BOOLEAN, network : Networks \cup {Nobody}, walletKind : Kinds]
Daemons == [entry : Wallets \cup {Nobody}, network : Networks \cup {Nobody}, open : BOOLEAN]
WalletCalls ==
    [op : {"create", "restore", "unlock"}, passkey : BOOLEAN, entry : Wallets,
     network : Networks \cup {Nobody},
     on : (Wallets \cup {Nobody}) \X (Networks \cup {Nobody}), done : BOOLEAN,
     words : Wallets \cup {Nobody}]
Lifecycles ==
    [op : {"none", "start", "back", "recover", "settings", "guess"},
     network : Networks \cup {Nobody}]

AppTypes ==
    /\ registry \in [Wallets -> Entries]
    /\ selectedWalletId \in Wallets \cup {Nobody}
    /\ pendingNetwork \in Networks \cup {Nobody}
    /\ daemon \in Daemons /\ lifecycle \in Lifecycles /\ calls \subseteq WalletCalls
    /\ phase \in Machine!Phases
    /\ preStart \in {"list", "chooseNetwork", "create", "restore"}
    /\ onboardingMode \in {"create", "restore"}

Up == daemon.entry # Nobody
Opened == <<daemon.entry, daemon.network>>

(* An identity that is in use, or was.                                     *)
Taken(e) == e \in Legacy \/ registry[e].network # Nobody

(* An entry that claims a network nothing has shown it to live on, and     *)
(* that no ceremony has strayed from or to.                                *)
Unproven(e) ==
    e \notin strayed /\ registry[e].network # Nobody /\ <<e, registry[e].network>> \notin proven

(* The daemon's wallet is not there, or a ceremony that strayed made it.   *)
Missing == Opened \notin disk \/ daemon.entry \in strayed

(* The phases leave the daemon as they say.                                *)
PhasesFit ==
    /\ phase \in {"runtimeReady", "stopped"} => ~Up
    /\ phase = "runtimeReady" => calls = {} /\ pendingNetwork = Nobody
    /\ selectedWalletId = Nobody => phase \in {"runtimeReady", "stopped", "stopping", "error"}
    /\ lifecycle.op = "start" =>
         selectedWalletId # Nobody /\ phase \notin {"runtimeReady", "stopped", "stopping"}
    /\ lifecycle.op = "guess" => selectedWalletId # Nobody
    /\ lifecycle.op \in {"back", "recover", "settings", "guess"} => phase \in {"stopping", "stopped"}
    /\ phase = "locked" /\ Up => Opened \in disk

(* Who is selected, and what is known of it.                               *)
SelectionFits ==
    /\ \A e \in Wallets : registry[e].there => Taken(e)
    /\ selectedWalletId # Nobody => Taken(selectedWalletId)
    /\ pendingNetwork # Nobody => HasEntry \/ lifecycle.op \in {"back", "recover"}
    /\ selectedWalletId # Nobody /\ Unproven(selectedWalletId) =>
         pendingNetwork = Nobody /\ lifecycle.op # "guess" /\ preStart # "chooseNetwork"
    /\ lifecycle.op = "start" =>
         IF pendingNetwork # Nobody THEN lifecycle.network = pendingNetwork
         ELSE Unproven(selectedWalletId) =>
                lifecycle.network = registry[selectedWalletId].network

(* The daemon that is up is that of the selection.                         *)
DaemonFits ==
    Up /\ selectedWalletId # Nobody =>
        /\ daemon.entry = selectedWalletId
        /\ Unproven(selectedWalletId) => daemon.network = registry[selectedWalletId].network
        /\ pendingNetwork # Nobody /\ lifecycle.op \notin {"back", "recover"} =>
             daemon.network = pendingNetwork \/ (Completed /\ Missing)

(* A guess that found nothing stands until a wallet call answers.          *)
GuessFits ==
    /\ lifecycle.op = "guess" => Completed /\ (Up => Missing)
    /\ phase = "needsWallet" /\ Completed /\ pendingNetwork # Nobody /\ Up => Missing
    /\ Completed /\ (pendingNetwork # Nobody \/ lifecycle.op = "guess") =>
         \A c \in calls : c.op # "unlock" => c.on[1] # selectedWalletId

(* A call in flight was made of the entry the daemon ran, and of what is   *)
(* known of it.                                                            *)
CallFits(c) ==
    /\ Taken(c.entry)
    /\ c.on[1] # Nobody => c.on[1] = c.entry /\ (c.op = "unlock" => c.on \in disk)
    /\ c.entry \notin strayed =>
         /\ c.done => c.on \in proven /\ c.on[1] # Nobody
         /\ c.on[1] # Nobody =>
              IF c.network # Nobody THEN c.on[2] = c.network
              ELSE Unproven(c.entry) => c.on[2] = registry[c.entry].network

CallsFit == \A c \in calls : CallFits(c)

AppInv ==
    /\ AppTypes /\ PhasesFit /\ SelectionFits /\ DaemonFits /\ GuessFits /\ CallsFit
    /\ StampsAreProven

-----------------------------------------------------------------------------
(* What the phase machine makes of the events of the app.                  *)
LEMMA PhaseSteps ==
    ASSUME NEW p \in Machine!Phases
    PROVE  /\ Machine!Transition(p, "startRequested") = IF p = "stopping" THEN p ELSE "starting"
           /\ Machine!Transition(p, "startFailed") =
                IF p \in {"starting", "stopped"} THEN "error" ELSE p
           /\ Machine!Transition(p, "stopRequested") =
                IF p \in {"stopping", "stopped"} THEN p ELSE "stopping"
           /\ Machine!Transition(p, "stopCompleted") = IF p = "stopping" THEN "stopped" ELSE p
           /\ Machine!Transition(p, "stopFailed") = IF p = "stopping" THEN "error" ELSE p
           /\ Machine!Transition(p, "runtimeStopped") = IF p = "error" THEN p ELSE "stopped"
           /\ Machine!Transition(p, "walletAdoptionFailed") =
                IF p \in {"needsWallet", "locked"} THEN "error" ELSE p
           /\ Machine!Transition(p, "syncPollExhausted") = IF p = "syncing" THEN "error" ELSE p
           /\ Machine!Transition(p, "walletBecameReady") =
                IF p \in {"restoring", "syncing"} THEN "ready" ELSE p
  BY DEF Machine!Transition, Machine!Accepts, Machine!Target, Machine!Phases,
     Machine!WalletPhases, Machine!RuntimePhases

LEMMA InfoSteps ==
    ASSUME NEW p \in Machine!Phases, NEW i \in Infos
    PROVE  /\ Machine!OnInfo(p, i) \in Machine!Phases
           /\ \/ /\ p \in {"starting", "needsWallet", "locked", "syncing", "ready"}
                 /\ Machine!OnInfo(p, i) \in {"needsWallet", "locked", "syncing", "ready"}
                 /\ Machine!OnInfo(p, i) = "locked" => Opened \in disk
                 /\ Machine!OnInfo(p, i) = "needsWallet" => Opened \notin disk
              \/ p \notin {"starting", "needsWallet", "locked", "syncing", "ready"} /\ Machine!OnInfo(p, i) = p
  BY DEF Infos, Opened, Machine!OnInfo, Machine!PhaseFromInfo, Machine!Usable, Machine!Phases,
     Machine!WalletPhases, Machine!RuntimePhases

(* The phases behind the screens on which the user acts.                   *)
LEMMA ScreenPhases ==
    ASSUME AppTypes
    PROVE  /\ AppScreen \in {"list", "create", "restore", "chooseNetwork"} =>
                /\ AppScreen = preStart
                /\ phase = "runtimeReady" \/ (phase = "stopped" /\ ~HasEntry)
           /\ AppScreen = "onboarding" => phase = "needsWallet" /\ ~Completed
           /\ AppScreen = "guessAgain" =>
                phase = "needsWallet" /\ Completed /\ pendingNetwork # Nobody
           /\ AppScreen = "dataMissing" =>
                phase = "needsWallet" /\ Completed /\ pendingNetwork = Nobody
           /\ AppScreen = "unlock" => phase = "locked"
           /\ AppScreen = "stopped" => phase = "stopped"
           /\ AppScreen = "error" => phase = "error"
           /\ AppScreen = "dashboard" => phase = "ready"
  BY DEF AppTypes, AppScreen, Machine!Phases, Machine!WalletPhases, Machine!RuntimePhases

LEMMA AppInitInv == AppInit => AppInv
<1> SUFFICES ASSUME AppInit PROVE AppInv
  OBVIOUS
<1> USE AppAssumption
<1>0. registry \in [Wallets -> Entries]
  <2> DEFINE Start == {Absent} \cup
               {[there |-> TRUE, network |-> Nobody, walletKind |-> k] : k \in Kinds}
  <2>1. Start \subseteq Entries
    <3>1. Absent \in Entries
      BY DEF Entries, Absent, Kinds
    <3>2. \A k \in Kinds :
            [there |-> TRUE, network |-> Nobody, walletKind |-> k] \in Entries
      BY DEF Entries
    <3> QED
      BY <3>1, <3>2
  <2>2. registry \in [Wallets -> Start]
    BY DEF AppInit
  <2> HIDE DEF Start
  <2> QED
    BY <2>1, <2>2
<1>4. daemon \in Daemons /\ lifecycle \in Lifecycles
  BY DEF AppInit, Daemons, Lifecycles, Down, Idle
<1>1. AppTypes
  BY <1>0, <1>4 DEF AppInit, AppTypes, Machine!Phases, Machine!RuntimePhases
<1>2. PhasesFit
  BY DEF AppInit, PhasesFit, Idle, Up, Down
<1>3. \A e \in Wallets : registry[e].network = Nobody
  BY DEF AppInit, Absent
<1> QED
  BY <1>1, <1>2, <1>3 DEF AppInit, AppInv, SelectionFits, DaemonFits, GuessFits, CallsFit,
     StampsAreProven, Taken, Unproven, Idle

(* Where neither the registry nor what is proven changes, and no call is   *)
(* added, what is known of the entries stays.                              *)
LEMMA CallsStay ==
    ASSUME AppInv, UNCHANGED <<registry, disk, proven, strayed>>, calls' \subseteq calls
    PROVE  /\ CallsFit' /\ StampsAreProven'
           /\ \A e : (Taken(e)' <=> Taken(e)) /\ (Unproven(e)' <=> Unproven(e))
<1>1. \A e : (Taken(e)' <=> Taken(e)) /\ (Unproven(e)' <=> Unproven(e))
  BY DEF Taken, Unproven
<1>2. \A c \in calls : CallFits(c)'
  BY <1>1 DEF AppInv, CallsFit, CallFits
<1> QED
  BY <1>1, <1>2 DEF AppInv, CallsFit, StampsAreProven

LEMMA StartLandsKeeps ==
    ASSUME AppInv, StartLands
    PROVE  AppInv'
<1>1. /\ lifecycle.op = "start" /\ lifecycle' = Idle /\ disk' = disk /\ proven' = proven /\ strayed' = strayed
      /\ registry' = registry /\ selectedWalletId' = selectedWalletId /\ preStart' = preStart
      /\ pendingNetwork' = pendingNetwork /\ onboardingMode' = onboardingMode /\ calls' = calls
      /\ daemon' = IF daemon.entry # Nobody THEN daemon
                   ELSE [entry |-> selectedWalletId, network |-> lifecycle.network, open |-> FALSE]
  BY DEF StartLands, history
<1>2. PICK i \in Infos' : phase' = Machine!OnInfo(phase, i)
  BY DEF StartLands
<1>3. AppTypes /\ phase \in Machine!Phases
  BY DEF AppInv, AppTypes
<1>4. /\ selectedWalletId # Nobody /\ phase \notin {"runtimeReady", "stopped", "stopping"}
      /\ Idle.op = "none"
  BY <1>1 DEF AppInv, PhasesFit, Idle
<1>5. /\ phase' \in Machine!Phases
      /\ phase' \notin {"runtimeReady", "stopped", "stopping"}
      /\ phase' = "locked" => Opened' \in disk'
      /\ phase' = "needsWallet" => Opened' \notin disk'
  BY <1>2, <1>3, <1>4 DEF Infos, Opened, Machine!OnInfo, Machine!PhaseFromInfo, Machine!Usable,
     Machine!Phases, Machine!WalletPhases, Machine!RuntimePhases
<1>6. AppTypes'
  BY <1>1, <1>3, <1>4, <1>5 DEF AppTypes, Daemons, Lifecycles, Idle
<1>7. PhasesFit'
  BY <1>1, <1>4, <1>5 DEF PhasesFit
<1>8. /\ CallsFit' /\ StampsAreProven'
      /\ \A e : (Taken(e)' <=> Taken(e)) /\ (Unproven(e)' <=> Unproven(e))
  BY <1>1, CallsStay
<1>9. SelectionFits'
  BY <1>1, <1>4, <1>8 DEF AppInv, SelectionFits, HasEntry
<1>10. DaemonFits'
  <2>1. Completed' <=> Completed
    BY <1>1 DEF Completed, HasEntry
  <2>2. CASE Up
    BY <1>1, <1>4, <1>8, <2>1, <2>2 DEF AppInv, DaemonFits, Missing, Up, Opened
  <2>3. CASE ~Up
    BY <1>1, <1>4, <1>8, <2>3 DEF AppInv, SelectionFits, DaemonFits, Up
  <2> QED
    BY <2>2, <2>3
<1>11. GuessFits'
  BY <1>1, <1>4, <1>5 DEF AppInv, GuessFits, Missing, Completed, HasEntry
<1> QED
  BY <1>6, <1>7, <1>8, <1>9, <1>10, <1>11 DEF AppInv

LEMMA DownIsDown == Down \in Daemons /\ Down.entry = Nobody
  BY DEF Down, Daemons

LEMMA IdleIsIdle == Idle \in Lifecycles /\ Idle.op = "none"
  BY DEF Idle, Lifecycles

LEMMA StartFailsKeeps ==
    ASSUME AppInv, StartFails
    PROVE  AppInv'
<1>1. /\ lifecycle.op = "start" /\ lifecycle' = Idle /\ disk' = disk /\ proven' = proven /\ strayed' = strayed
      /\ registry' = registry /\ selectedWalletId' = selectedWalletId /\ preStart' = preStart
      /\ pendingNetwork' = pendingNetwork /\ onboardingMode' = onboardingMode /\ calls' = calls
      /\ daemon' = Down /\ phase' = Machine!Transition(phase, "startFailed")
  BY DEF StartFails, view, history
<1>2. ~Up' /\ lifecycle'.op = "none"
  BY <1>1, DownIsDown, IdleIsIdle DEF Up
<1>3. AppTypes /\ phase \in Machine!Phases
  BY DEF AppInv, AppTypes
<1>4. phase' = IF phase \in {"starting", "stopped"} THEN "error" ELSE phase
  BY <1>1, <1>3, PhaseSteps
<1>5. selectedWalletId # Nobody /\ phase \notin {"runtimeReady", "stopped", "stopping"}
  BY <1>1 DEF AppInv, PhasesFit
<1>6. AppTypes'
  BY <1>1, <1>3, <1>4, DownIsDown, IdleIsIdle
  DEF AppTypes, Machine!Phases, Machine!RuntimePhases
<1>7. PhasesFit'
  BY <1>1, <1>2, <1>4, <1>5 DEF PhasesFit
<1>8. /\ CallsFit' /\ StampsAreProven'
      /\ \A e : (Taken(e)' <=> Taken(e)) /\ (Unproven(e)' <=> Unproven(e))
  BY <1>1, CallsStay
<1>9. SelectionFits'
  BY <1>1, <1>2, <1>8 DEF AppInv, SelectionFits, HasEntry
<1>10. DaemonFits'
  BY <1>2 DEF DaemonFits
<1>11. GuessFits'
  BY <1>1, <1>2 DEF AppInv, GuessFits, Missing, Completed, HasEntry
<1> QED
  BY <1>6, <1>7, <1>8, <1>9, <1>10, <1>11 DEF AppInv

LEMMA RuntimeDiesKeeps ==
    ASSUME AppInv, RuntimeDies
    PROVE  AppInv'
<1>1. /\ lifecycle = Idle /\ lifecycle' = Idle /\ disk' = disk /\ proven' = proven /\ strayed' = strayed
      /\ registry' = registry /\ selectedWalletId' = selectedWalletId /\ preStart' = preStart
      /\ pendingNetwork' = pendingNetwork /\ onboardingMode' = onboardingMode /\ calls' = calls
      /\ daemon' = Down /\ phase' = Machine!Transition(phase, "runtimeStopped")
  BY DEF RuntimeDies, view, history
<1>2. ~Up' /\ lifecycle'.op = "none"
  BY <1>1, DownIsDown, IdleIsIdle DEF Up
<1>3. AppTypes /\ phase \in Machine!Phases
  BY DEF AppInv, AppTypes
<1>4. phase' = IF phase = "error" THEN phase ELSE "stopped"
  BY <1>1, <1>3, PhaseSteps
<1>6. AppTypes'
  BY <1>1, <1>3, <1>4, DownIsDown, IdleIsIdle
  DEF AppTypes, Machine!Phases, Machine!RuntimePhases
<1>7. PhasesFit'
  BY <1>1, <1>2, <1>4 DEF PhasesFit
<1>8. /\ CallsFit' /\ StampsAreProven'
      /\ \A e : (Taken(e)' <=> Taken(e)) /\ (Unproven(e)' <=> Unproven(e))
  BY <1>1, CallsStay
<1>9. SelectionFits'
  BY <1>1, <1>2, <1>8 DEF AppInv, SelectionFits, HasEntry
<1>10. DaemonFits'
  BY <1>2 DEF DaemonFits
<1>11. GuessFits'
  BY <1>1, <1>2 DEF AppInv, GuessFits, Missing, Completed, HasEntry
<1> QED
  BY <1>6, <1>7, <1>8, <1>9, <1>10, <1>11 DEF AppInv

LEMMA SyncEndsKeeps ==
    ASSUME AppInv, SyncEnds
    PROVE  AppInv'
<1>1. /\ lifecycle' = lifecycle /\ disk' = disk /\ proven' = proven /\ strayed' = strayed
      /\ registry' = registry /\ selectedWalletId' = selectedWalletId /\ preStart' = preStart
      /\ pendingNetwork' = pendingNetwork /\ onboardingMode' = onboardingMode /\ calls' = calls
      /\ daemon' = daemon
  BY DEF SyncEnds, view, history
<1>3. AppTypes /\ phase \in Machine!Phases
  BY DEF AppInv, AppTypes
<1>4. phase = "syncing" /\ phase' \in {"ready", "error"}
  <2>1. /\ phase = "syncing"
        /\ \/ phase' = Machine!Transition(phase, "walletBecameReady")
           \/ phase' = Machine!Transition(phase, "syncPollExhausted")
    BY DEF SyncEnds
  <2> QED
    BY <1>3, <2>1, PhaseSteps
<1>6. AppTypes'
  BY <1>1, <1>3, <1>4 DEF AppTypes, Machine!Phases, Machine!RuntimePhases, Machine!WalletPhases
<1>7. PhasesFit'
  BY <1>1, <1>4 DEF AppInv, PhasesFit
<1>8. /\ CallsFit' /\ StampsAreProven'
      /\ \A e : (Taken(e)' <=> Taken(e)) /\ (Unproven(e)' <=> Unproven(e))
  BY <1>1, CallsStay
<1>9. SelectionFits'
  BY <1>1, <1>8 DEF AppInv, SelectionFits, HasEntry
<1>10. DaemonFits'
  BY <1>1, <1>8 DEF AppInv, DaemonFits, Missing, Up, Opened, Completed, HasEntry
<1>11. GuessFits'
  BY <1>1, <1>4 DEF AppInv, GuessFits, Missing, Completed, HasEntry, Up, Opened
<1> QED
  BY <1>6, <1>7, <1>8, <1>9, <1>10, <1>11 DEF AppInv

LEMMA ReloadsKeeps ==
    ASSUME AppInv, Reloads
    PROVE  AppInv'
<1>1. /\ lifecycle' = Idle /\ disk' = disk /\ proven' = proven /\ strayed' = strayed
      /\ registry' = registry /\ selectedWalletId' = Nobody /\ preStart' = "list"
      /\ pendingNetwork' = Nobody /\ onboardingMode' = "create" /\ calls' = {}
      /\ daemon' = Down /\ phase' = "runtimeReady"
  BY DEF Reloads, history
<1>2. ~Up' /\ lifecycle'.op = "none"
  BY <1>1, DownIsDown, IdleIsIdle DEF Up
<1>6. AppTypes'
  BY <1>1, DownIsDown, IdleIsIdle
  DEF AppInv, AppTypes, Machine!Phases, Machine!RuntimePhases
<1>7. PhasesFit'
  BY <1>1, <1>2 DEF PhasesFit
<1>8. /\ CallsFit' /\ StampsAreProven'
      /\ \A e : (Taken(e)' <=> Taken(e)) /\ (Unproven(e)' <=> Unproven(e))
  BY <1>1, CallsStay
<1>9. SelectionFits'
  BY <1>1, <1>2, <1>8 DEF AppInv, SelectionFits, HasEntry
<1>10. DaemonFits' /\ GuessFits'
  BY <1>1, <1>2 DEF DaemonFits, GuessFits
<1> QED
  BY <1>6, <1>7, <1>8, <1>9, <1>10 DEF AppInv

(* The stop of the daemon is over, one way or the other: what follows it.  *)
LEMMA AfterStopKeeps ==
    ASSUME AppInv, NEW done, NEW stopped \in {"stopped", "error"}, AfterStop(done, stopped),
           registry' = registry, disk' = disk, calls' = calls, proven' = proven /\ strayed' = strayed,
           daemon' \in {Down, daemon}, stopped = "stopped" => daemon'.entry = Nobody
    PROVE  AppInv'
<1>0. lifecycle.op \in {"back", "recover", "settings", "guess"}
  BY DEF AfterStop
<1>1. AppTypes /\ phase \in {"stopping", "stopped"}
  BY <1>0 DEF AppInv, PhasesFit
<1>2. daemon' \in Daemons /\ (Up' => daemon' = daemon)
  BY <1>1, DownIsDown DEF AppTypes, Up
<1>3. {"stopped", "error", "starting"} \subseteq Machine!Phases
  BY DEF Machine!Phases, Machine!RuntimePhases
<1>8. /\ CallsFit' /\ StampsAreProven'
      /\ \A e : (Taken(e)' <=> Taken(e)) /\ (Unproven(e)' <=> Unproven(e))
  BY CallsStay
<1>4. CASE lifecycle.op \in {"back", "recover"}
  <2>1. /\ selectedWalletId' = Nobody /\ pendingNetwork' = Nobody /\ preStart' \in {"list", "restore"}
        /\ onboardingMode' = onboardingMode /\ phase' = stopped /\ lifecycle' = Idle
    BY <1>4 DEF AfterStop, Back
  <2>2. AppTypes'
    BY <1>1, <1>2, <1>3, <2>1, IdleIsIdle DEF AppTypes
  <2>3. PhasesFit'
    BY <2>1, IdleIsIdle DEF PhasesFit, Up
  <2>4. SelectionFits'
    BY <1>8, <2>1, IdleIsIdle DEF AppInv, SelectionFits, HasEntry
  <2>5. DaemonFits' /\ GuessFits'
    BY <2>1, IdleIsIdle DEF DaemonFits, GuessFits
  <2> QED
    BY <1>8, <2>2, <2>3, <2>4, <2>5 DEF AppInv
<1>5. CASE lifecycle.op = "settings"
  <2>1. /\ selectedWalletId' = selectedWalletId /\ pendingNetwork' = pendingNetwork
        /\ preStart' = preStart /\ onboardingMode' = onboardingMode
        /\ phase' = stopped /\ lifecycle' = Idle
    BY <1>5 DEF AfterStop
  <2>2. AppTypes'
    BY <1>1, <1>2, <1>3, <2>1, IdleIsIdle DEF AppTypes
  <2>3. PhasesFit'
    BY <2>1, IdleIsIdle DEF PhasesFit, Up
  <2>4. SelectionFits'
    BY <1>5, <1>8, <2>1, IdleIsIdle DEF AppInv, SelectionFits, HasEntry
  <2>5. Completed' <=> Completed
    BY <2>1 DEF Completed, HasEntry
  <2>6. DaemonFits'
    BY <1>2, <1>5, <1>8, <2>1, <2>5 DEF AppInv, DaemonFits, Missing, Up, Opened
  <2>7. GuessFits'
    BY <2>1, <2>5, IdleIsIdle DEF AppInv, GuessFits
  <2> QED
    BY <1>8, <2>2, <2>3, <2>4, <2>6, <2>7 DEF AppInv
<1>6. CASE lifecycle.op = "guess"
  <2>1. /\ selectedWalletId' = selectedWalletId /\ pendingNetwork' = lifecycle.network
        /\ preStart' = preStart /\ onboardingMode' = "create"
        /\ phase' = Machine!Transition(stopped, "startRequested")
        /\ lifecycle' = [lifecycle EXCEPT !.op = "start"]
    BY <1>6 DEF AfterStop
  <2>2. phase' = "starting"
    BY <1>3, <2>1, PhaseSteps
  <2>3. lifecycle' \in Lifecycles /\ lifecycle'.op = "start"
        /\ lifecycle'.network = lifecycle.network /\ lifecycle.network \in Networks \cup {Nobody}
    BY <1>1, <2>1 DEF AppTypes, Lifecycles
  <2>4. AppTypes'
    BY <1>1, <1>2, <1>3, <2>1, <2>2, <2>3 DEF AppTypes
  <2>5. selectedWalletId # Nobody /\ Completed /\ (Up => Missing)
    BY <1>6 DEF AppInv, PhasesFit, GuessFits
  <2>6. PhasesFit'
    BY <2>1, <2>2, <2>3, <2>5 DEF PhasesFit
  <2>7. ~Unproven(selectedWalletId)
    BY <1>6, <2>5 DEF AppInv, SelectionFits
  <2>8. SelectionFits'
    BY <1>8, <2>1, <2>3, <2>5, <2>7 DEF AppInv, SelectionFits, HasEntry, Completed
  <2>9. Completed'
    BY <2>1, <2>5 DEF Completed, HasEntry
  <2>10. DaemonFits'
    BY <1>2, <1>8, <2>1, <2>5, <2>7, <2>9 DEF AppInv, DaemonFits, Missing, Up, Opened
  <2>11. GuessFits'
    BY <1>6, <2>1, <2>2, <2>3, <2>5, <2>9 DEF AppInv, GuessFits
  <2> QED
    BY <1>8, <2>4, <2>6, <2>8, <2>10, <2>11 DEF AppInv
<1> QED
  BY <1>0, <1>4, <1>5, <1>6

LEMMA StopLandsKeeps ==
    ASSUME AppInv, StopLands
    PROVE  AppInv'
<1>1. phase \in {"stopping", "stopped"} /\ phase \in Machine!Phases
  BY DEF StopLands, AfterStop, AppInv, AppTypes, PhasesFit
<1>2. Machine!Transition(phase, "stopCompleted") = "stopped"
  BY <1>1, PhaseSteps
<1>3. /\ AfterStop(TRUE, "stopped") /\ daemon' = Down /\ registry' = registry
      /\ disk' = disk /\ calls' = calls /\ proven' = proven /\ strayed' = strayed
  BY <1>2, Zenon DEF StopLands, history
<1> QED
  BY <1>3, DownIsDown, AfterStopKeeps, Zenon

LEMMA StopFailsKeeps ==
    ASSUME AppInv, StopFails
    PROVE  AppInv'
<1>1. phase \in {"stopping", "stopped"} /\ phase \in Machine!Phases
  BY DEF StopFails, AfterStop, AppInv, AppTypes, PhasesFit
<1>2. Machine!Transition(phase, "stopFailed") = IF phase = "stopping" THEN "error" ELSE "stopped"
  BY <1>1, PhaseSteps
<1>3. /\ AfterStop(FALSE, Machine!Transition(phase, "stopFailed"))
      /\ daemon' = daemon /\ registry' = registry
      /\ disk' = disk /\ calls' = calls /\ proven' = proven /\ strayed' = strayed
  BY Zenon DEF StopFails, history
<1>4. phase = "stopped" => daemon.entry = Nobody
  BY DEF AppInv, PhasesFit, Up
<1> QED
  BY <1>1, <1>2, <1>3, <1>4, AfterStopKeeps

(* An entry is opened; registry is what the opening leaves behind.  The    *)
(* daemon is down, or is opened again for the same entry and guess.        *)
LEMMA OpensKeeps ==
    ASSUME AppInv, lifecycle = Idle, phase \in {"runtimeReady", "stopped", "error"},
           NEW e \in Wallets, NEW override \in Networks \cup {Nobody},
           NEW mode \in {"create", "restore"},
           Opens(e, registry'[e], override, mode),
           UNCHANGED <<daemon, disk, calls, proven, strayed>>,
           registry' \in [Wallets -> Entries], CallsFit', StampsAreProven',
           \A x \in Wallets : registry'[x].there => Taken(x)',
           Taken(e)',
           Up => e = selectedWalletId /\ override = pendingNetwork /\ registry' = registry,
           override # Nobody => registry'[e].there,
           override # Nobody \/ pendingNetwork = Nobody,
           override # Nobody \/ preStart = "chooseNetwork" =>
             e \in strayed \/ registry'[e].network = Nobody \/ <<e, registry'[e].network>> \in proven,
           override # Nobody /\ registry'[e].there /\ registry'[e].walletKind # "none" =>
             \A c \in calls : c.op # "unlock" => c.on[1] # e
    PROVE  AppInv'
<1>0. AppTypes /\ e # Nobody /\ registry'[e] \in Entries
  BY AppAssumption DEF AppInv
<1>1. /\ daemon' = daemon /\ disk' = disk /\ calls' = calls /\ proven' = proven /\ strayed' = strayed
      /\ selectedWalletId' = e /\ Up' = Up /\ Opened' = Opened /\ Missing' = Missing
      /\ lifecycle.op = "none"
  BY IdleIsIdle DEF Opens, Up, Opened, Missing
<1>2. CASE registry'[e].network = Nobody /\ override = Nobody
  <2>1. /\ preStart' = "chooseNetwork" /\ pendingNetwork' = pendingNetwork
        /\ onboardingMode' = onboardingMode /\ phase' = phase /\ lifecycle' = lifecycle
        /\ pendingNetwork = Nobody
    BY <1>2 DEF Opens
  <2>2. AppTypes'
    BY <1>0, <1>1, <2>1 DEF AppTypes
  <2>3. PhasesFit'
    BY <1>0, <1>1, <2>1 DEF AppInv, PhasesFit
  <2>4. ~Unproven(e)'
    BY <1>1, <1>2 DEF Unproven
  <2>5. SelectionFits'
    BY <1>1, <2>1, <2>4 DEF SelectionFits
  <2>6. DaemonFits'
    BY <1>1, <2>1, <2>4 DEF AppInv, DaemonFits
  <2>7. GuessFits'
    BY <1>1, <2>1 DEF GuessFits
  <2> QED
    BY <2>2, <2>3, <2>5, <2>6, <2>7 DEF AppInv
<1>3. CASE ~(registry'[e].network = Nobody /\ override = Nobody)
  <2>0. /\ preStart' = preStart /\ pendingNetwork' = override
        /\ onboardingMode' = mode /\ phase' = Machine!Transition(phase, "startRequested")
        /\ lifecycle' = [op |-> "start",
                         network |-> IF override # Nobody THEN override ELSE registry'[e].network]
    BY <1>3 DEF Opens
  <2>1. phase' = "starting"
    BY <1>0, <2>0, PhaseSteps DEF AppTypes
  <2>2. /\ lifecycle' \in Lifecycles /\ lifecycle'.op = "start"
        /\ lifecycle'.network = IF override # Nobody THEN override ELSE registry'[e].network
    BY <1>0, <2>0 DEF Lifecycles, Entries
  <2>3. AppTypes'
    BY <1>0, <1>1, <2>0, <2>1, <2>2
    DEF AppTypes, Machine!Phases, Machine!RuntimePhases
  <2>4. PhasesFit'
    BY <1>0, <1>1, <2>1, <2>2 DEF PhasesFit
  <2>5. Unproven(e)' => override = Nobody /\ preStart # "chooseNetwork"
    BY <1>1 DEF Unproven
  <2>6. HasEntry' <=> registry'[e].there
    BY <1>0, <1>1 DEF HasEntry
  <2>7. SelectionFits'
    BY <1>1, <2>0, <2>2, <2>5, <2>6 DEF SelectionFits
  <2>8. DaemonFits'
    <3> SUFFICES ASSUME Up PROVE DaemonFits'
      BY <1>1 DEF DaemonFits
    <3>1. e = selectedWalletId /\ override = pendingNetwork /\ registry' = registry
      OBVIOUS
    <3>2. (Unproven(e)' <=> Unproven(e)) /\ (Completed' <=> Completed)
      BY <1>1, <3>1 DEF Unproven, Completed, HasEntry
    <3> QED
      BY <1>0, <1>1, <2>0, <2>2, <3>1, <3>2 DEF AppInv, DaemonFits
  <2>9. GuessFits'
    BY <1>1, <2>0, <2>1, <2>2, <2>6 DEF GuessFits, Completed
  <2> QED
    BY <2>3, <2>4, <2>7, <2>8, <2>9 DEF AppInv
<1> QED
  BY <1>2, <1>3

LEMMA OpensEntryKeeps ==
    ASSUME AppInv, NEW e \in Wallets, OpensEntry(e)
    PROVE  AppInv'
<1>1. /\ lifecycle = Idle /\ AppScreen = "list" /\ registry[e].there
      /\ Opens(e, registry[e], Nobody, "create") /\ registry' = registry
      /\ UNCHANGED <<daemon, disk, calls, proven, strayed>>
  BY DEF OpensEntry, Acts, history
<1>2. AppTypes
  BY DEF AppInv
<1>3. preStart = "list" /\ (phase = "runtimeReady" \/ (phase = "stopped" /\ ~HasEntry))
  BY <1>1, <1>2, ScreenPhases
<1>4. pendingNetwork = Nobody /\ ~Up
  BY <1>1, <1>3, IdleIsIdle DEF AppInv, PhasesFit, SelectionFits
<1>5. /\ CallsFit' /\ StampsAreProven'
      /\ \A x : (Taken(x)' <=> Taken(x)) /\ (Unproven(x)' <=> Unproven(x))
  BY <1>1, CallsStay
<1>6. /\ registry' \in [Wallets -> Entries] /\ Opens(e, registry'[e], Nobody, "create")
      /\ \A x \in Wallets : registry'[x].there => Taken(x)'
      /\ Taken(e)'
  BY <1>1, <1>2, <1>5 DEF AppTypes, AppInv, SelectionFits
<1> QED
  BY <1>1, <1>3, <1>4, <1>5, <1>6, OpensKeeps

LEMMA PicksNetworkKeeps ==
    ASSUME AppInv, NEW network \in Networks, PicksNetwork(network)
    PROVE  AppInv'
<1>0. PICK e : e = selectedWalletId
  OBVIOUS
<1>1. /\ lifecycle = Idle /\ AppScreen = "chooseNetwork" /\ HasEntry
      /\ Opens(e, registry[e], network, "create") /\ registry' = registry
      /\ UNCHANGED <<daemon, disk, calls, proven, strayed>>
  BY <1>0 DEF PicksNetwork, Acts, history
<1>2. AppTypes /\ network # Nobody
  BY AppAssumption DEF AppInv
<1>3. preStart = "chooseNetwork" /\ phase = "runtimeReady"
  BY <1>1, <1>2, ScreenPhases
<1>4. pendingNetwork = Nobody /\ ~Up /\ calls = {} /\ e \in Wallets /\ registry[e].there /\ e # Nobody
  BY <1>0, <1>1, <1>2, <1>3 DEF AppInv, PhasesFit, AppTypes, HasEntry
<1>5. /\ CallsFit' /\ StampsAreProven'
      /\ \A x : (Taken(x)' <=> Taken(x)) /\ (Unproven(x)' <=> Unproven(x))
  BY <1>1, CallsStay
<1>6. /\ registry' \in [Wallets -> Entries] /\ Opens(e, registry'[e], network, "create")
      /\ \A x \in Wallets : registry'[x].there => Taken(x)'
      /\ Taken(e)'
      /\ e \in strayed \/ registry'[e].network = Nobody \/ <<e, registry'[e].network>> \in proven
  <2>1. registry' \in [Wallets -> Entries] /\ Opens(e, registry'[e], network, "create")
    BY <1>1, <1>2 DEF AppTypes
  <2>2. /\ \A x \in Wallets : registry[x].there => Taken(x)
        /\ ~Unproven(e)
    BY <1>0, <1>2, <1>3, <1>4 DEF AppInv, AppTypes, SelectionFits
  <2> QED
    BY <1>1, <1>4, <1>5, <2>1, <2>2 DEF Unproven
<1> QED
  BY <1>1, <1>2, <1>3, <1>4, <1>5, <1>6, OpensKeeps

LEMMA RetriesStartOpens ==
    ASSUME AppInv, lifecycle = Idle, phase = "error", HasEntry, registry' = registry,
           Opens(selectedWalletId, registry[selectedWalletId], pendingNetwork, onboardingMode),
           UNCHANGED <<daemon, disk, calls, proven, strayed>>
    PROVE  AppInv'
<1>0. PICK e : e = selectedWalletId
  OBVIOUS
<1>0a. PICK override : override = pendingNetwork
  OBVIOUS
<1>0b. PICK mode : mode = onboardingMode
  OBVIOUS
<1>1. Opens(e, registry[e], override, mode)
  BY <1>0, <1>0a, <1>0b
<1>2. /\ e \in Wallets /\ e # Nobody /\ override \in Networks \cup {Nobody}
      /\ mode \in {"create", "restore"} /\ registry[e].there
      /\ registry' \in [Wallets -> Entries] /\ Opens(e, registry'[e], override, mode)
  BY <1>0, <1>0a, <1>0b, <1>1 DEF AppInv, AppTypes, HasEntry
<1>5. /\ CallsFit' /\ StampsAreProven'
      /\ \A x : (Taken(x)' <=> Taken(x)) /\ (Unproven(x)' <=> Unproven(x))
  BY CallsStay
<1>6. /\ \A x \in Wallets : registry[x].there => Taken(x)
      /\ Unproven(e) => override = Nobody /\ preStart # "chooseNetwork"
  BY <1>0, <1>0a, <1>2 DEF AppInv, SelectionFits
<1>7. /\ \A x \in Wallets : registry'[x].there => Taken(x)'
      /\ Taken(e)'
      /\ override # Nobody \/ preStart = "chooseNetwork" =>
           e \in strayed \/ registry'[e].network = Nobody \/ <<e, registry'[e].network>> \in proven
  BY <1>2, <1>5, <1>6 DEF Unproven
<1>8. override # Nobody /\ registry'[e].there /\ registry'[e].walletKind # "none" =>
        \A c \in calls : c.op # "unlock" => c.on[1] # e
  BY <1>0, <1>0a DEF AppInv, GuessFits, Completed
<1> QED
  BY <1>0, <1>0a, <1>2, <1>5, <1>7, <1>8, OpensKeeps

(* An identity nobody has had: nothing that is known is about it.          *)
LEMMA SubmitsSetupKeeps ==
    ASSUME AppInv, NEW e \in Wallets, NEW network \in Networks, SubmitsSetup(e, network)
    PROVE  AppInv'
<1>0. PICK mode : mode = preStart
  OBVIOUS
<1> DEFINE entry == [there |-> TRUE, network |-> network, walletKind |-> "none"]
<1>1. /\ lifecycle = Idle /\ AppScreen \in {"create", "restore"}
      /\ e \notin Legacy /\ registry[e] = Absent
      /\ registry' = [registry EXCEPT ![e] = entry] /\ Opens(e, entry, Nobody, mode)
      /\ UNCHANGED <<daemon, disk, calls, proven, strayed>>
  BY <1>0 DEF SubmitsSetup, Acts, history, Only
<1>2. AppTypes /\ network # Nobody
  BY AppAssumption DEF AppInv
<1>3. preStart \in {"create", "restore"} /\ (phase = "runtimeReady" \/ (phase = "stopped" /\ ~HasEntry))
  BY <1>1, <1>2, ScreenPhases
<1>4. pendingNetwork = Nobody /\ ~Up
  BY <1>1, <1>3, IdleIsIdle DEF AppInv, PhasesFit, SelectionFits
<1>5. entry \in Entries /\ entry.network = network /\ entry.walletKind = "none"
  BY DEF Entries, Kinds
<1> HIDE DEF entry
<1>6. /\ registry' \in [Wallets -> Entries] /\ registry'[e] = entry
      /\ \A x \in Wallets : x # e => registry'[x] = registry[x]
  BY <1>1, <1>2, <1>5 DEF AppTypes
<1>7. ~Taken(e) /\ registry[e].network = Nobody
  BY <1>1 DEF Taken, Absent
<1>8. \A x \in Wallets : x # e => (Taken(x)' <=> Taken(x)) /\ (Unproven(x)' <=> Unproven(x))
  BY <1>1, <1>6 DEF Taken, Unproven
<1>9. Taken(e)'
  BY <1>2, <1>5, <1>6 DEF Taken
<1>10. CallsFit'
  <2> SUFFICES ASSUME NEW c \in calls PROVE CallFits(c)'
    BY <1>1 DEF CallsFit
  <2>1. CallFits(c) /\ c.entry \in Wallets /\ c.entry # e
    BY <1>2, <1>7 DEF AppInv, CallsFit, CallFits, AppTypes, WalletCalls
  <2> QED
    BY <1>1, <1>6, <1>8, <2>1 DEF CallFits
<1>11. StampsAreProven'
  BY <1>1, <1>5, <1>6 DEF AppInv, StampsAreProven
<1>12. \A x \in Wallets : registry'[x].there => Taken(x)'
  BY <1>6, <1>8, <1>9 DEF AppInv, SelectionFits
<1> QED
  BY <1>0, <1>1, <1>3, <1>4, <1>6, <1>9, <1>10, <1>11, <1>12, OpensKeeps

(* What becomes of what is known when entries only leave the list, or have *)
(* their kind forgotten.                                                   *)
LEMMA EntriesStay ==
    ASSUME AppInv, UNCHANGED <<disk, proven, strayed>>, calls' \subseteq calls,
           \A x \in Wallets : /\ registry'[x].network = registry[x].network
                              /\ registry'[x].walletKind \in {registry[x].walletKind, "none"}
    PROVE  /\ CallsFit' /\ StampsAreProven'
           /\ \A e \in Wallets : (Taken(e)' <=> Taken(e)) /\ (Unproven(e)' <=> Unproven(e))
<1>1. \A e \in Wallets : (Taken(e)' <=> Taken(e)) /\ (Unproven(e)' <=> Unproven(e))
  BY DEF Taken, Unproven
<1>2. \A c \in calls : CallFits(c)'
  BY <1>1 DEF AppInv, AppTypes, WalletCalls, CallsFit, CallFits
<1> QED
  BY <1>1, <1>2 DEF AppInv, CallsFit, StampsAreProven

(* A stop begins; the selected entry may be removed with it.               *)
LEMMA StopsKeeps ==
    ASSUME AppInv, lifecycle = Idle, phase' = Machine!Transition(phase, "stopRequested"),
           NEW then \in {"back", "recover", "settings", "guess"},
           lifecycle' \in Lifecycles, lifecycle'.op = then,
           UNCHANGED <<view, daemon, disk, calls, proven, strayed>>,
           registry' \in [Wallets -> Entries],
           \A x \in Wallets : /\ registry'[x].network = registry[x].network
                              /\ registry'[x].walletKind = registry[x].walletKind
                              /\ registry'[x].there => registry[x].there,
           then \notin {"back", "recover"} => registry' = registry,
           then = "guess" => phase = "needsWallet" /\ Completed /\ pendingNetwork # Nobody
    PROVE  AppInv'
<1>1. /\ daemon' = daemon /\ disk' = disk /\ calls' = calls /\ proven' = proven /\ strayed' = strayed
      /\ selectedWalletId' = selectedWalletId /\ Up' = Up /\ Opened' = Opened
      /\ pendingNetwork' = pendingNetwork /\ preStart' = preStart
      /\ onboardingMode' = onboardingMode /\ lifecycle.op = "none" /\ Missing' = Missing
  BY IdleIsIdle DEF view, Up, Opened, Missing
<1>2. AppTypes /\ phase \in Machine!Phases
  BY DEF AppInv, AppTypes
<1>3. phase' = IF phase \in {"stopping", "stopped"} THEN phase ELSE "stopping"
  BY <1>2, PhaseSteps
<1>4. AppTypes'
  BY <1>1, <1>2, <1>3 DEF AppTypes, Machine!Phases, Machine!RuntimePhases
<1>5. PhasesFit'
  BY <1>1, <1>3 DEF AppInv, PhasesFit, HasEntry, Completed
<1>6. /\ CallsFit' /\ StampsAreProven'
      /\ \A e \in Wallets : (Taken(e)' <=> Taken(e)) /\ (Unproven(e)' <=> Unproven(e))
  <2>1. \A x \in Wallets : /\ registry'[x].network = registry[x].network
                           /\ registry'[x].walletKind \in {registry[x].walletKind, "none"}
    OBVIOUS
  <2>2. calls' \subseteq calls
    BY <1>1
  <2> QED
    BY <1>1, <2>1, <2>2, EntriesStay
<1>7. selectedWalletId # Nobody => selectedWalletId \in Wallets
  BY <1>2 DEF AppTypes
<1>8. /\ Completed' => Completed
      /\ then \notin {"back", "recover"} =>
           (HasEntry' <=> HasEntry) /\ (Completed' <=> Completed)
  <2>1. Completed' => Completed
    BY <1>1, <1>7 DEF Completed, HasEntry
  <2>2. then \notin {"back", "recover"} =>
           (HasEntry' <=> HasEntry) /\ (Completed' <=> Completed)
    BY <1>1 DEF Completed, HasEntry
  <2> QED
    BY <2>1, <2>2
<1>9. SelectionFits'
  <2>1. \A e \in Wallets : registry'[e].there => Taken(e)'
    BY <1>6 DEF AppInv, SelectionFits
  <2>2. selectedWalletId # Nobody =>
          /\ Taken(selectedWalletId)'
          /\ Unproven(selectedWalletId)' => pendingNetwork = Nobody /\ preStart # "chooseNetwork"
    BY <1>1, <1>6, <1>7 DEF AppInv, SelectionFits
  <2>3. pendingNetwork # Nobody => HasEntry' \/ then \in {"back", "recover"}
    BY <1>1, <1>8 DEF AppInv, SelectionFits
  <2> QED
    BY <1>1, <2>1, <2>2, <2>3 DEF SelectionFits
<1>10. DaemonFits'
  <2> SUFFICES ASSUME Up, selectedWalletId # Nobody
               PROVE  /\ daemon.entry = selectedWalletId
                      /\ Unproven(selectedWalletId)' =>
                           daemon.network = registry'[selectedWalletId].network
                      /\ pendingNetwork # Nobody /\ then \notin {"back", "recover"} =>
                           daemon.network = pendingNetwork \/ (Completed' /\ Missing)
    BY <1>1 DEF DaemonFits
  <2>1. daemon.entry = selectedWalletId
    BY DEF AppInv, DaemonFits
  <2>2. Unproven(selectedWalletId)' => daemon.network = registry'[selectedWalletId].network
    BY <1>1, <1>6, <1>7 DEF AppInv, DaemonFits
  <2>3. pendingNetwork # Nobody /\ then \notin {"back", "recover"} =>
          daemon.network = pendingNetwork \/ (Completed' /\ Missing)
    BY <1>1, <1>8 DEF AppInv, DaemonFits
  <2> QED
    BY <2>1, <2>2, <2>3
<1>11. GuessFits'
  BY <1>1, <1>3, <1>8 DEF AppInv, GuessFits
<1> QED
  BY <1>4, <1>5, <1>6, <1>9, <1>10, <1>11 DEF AppInv

(* A step that leaves all this alone but calls, and what the user looks at.*)
LEMMA CalmKeeps ==
    ASSUME AppInv,
           UNCHANGED <<registry, selectedWalletId, pendingNetwork, onboardingMode, phase, daemon,
                       disk, lifecycle, proven, strayed>>,
           calls' \subseteq calls, preStart' \in {preStart, "list", "create", "restore"}
    PROVE  AppInv'
<1>1. /\ CallsFit' /\ StampsAreProven'
      /\ \A e : (Taken(e)' <=> Taken(e)) /\ (Unproven(e)' <=> Unproven(e))
  BY CallsStay
<1>2. AppTypes'
  BY DEF AppInv, AppTypes
<1>3. /\ (Up' <=> Up) /\ Opened' = Opened /\ (HasEntry' <=> HasEntry) /\ (Completed' <=> Completed)
      /\ Missing' <=> Missing
  BY DEF Up, Opened, HasEntry, Completed, Missing
<1>4. PhasesFit'
  BY <1>3 DEF AppInv, PhasesFit
<1>5. SelectionFits'
  BY <1>1, <1>3 DEF AppInv, SelectionFits
<1>6. DaemonFits' /\ GuessFits'
  BY <1>1, <1>3 DEF AppInv, DaemonFits, GuessFits
<1> QED
  BY <1>1, <1>2, <1>4, <1>5, <1>6 DEF AppInv

(* The user leaves, stops the runtime, or tries the start again.           *)
LEMMA LeavesWalletKeeps ==
    ASSUME AppInv, GoesBack \/ Recovers \/ StopsRuntime \/ RetriesStart
    PROVE  AppInv'
<1>1. ASSUME NEW then \in {"back", "recover", "settings"}, lifecycle = Idle, Stops(then),
             registry' = registry
      PROVE  AppInv'
  <2>1. /\ phase' = Machine!Transition(phase, "stopRequested")
        /\ lifecycle' = [Idle EXCEPT !.op = then]
        /\ UNCHANGED <<view, daemon, disk, calls, proven, strayed>>
    BY <1>1 DEF Stops, history
  <2>2. lifecycle' \in Lifecycles /\ lifecycle'.op = then
    BY <2>1 DEF Idle, Lifecycles
  <2>3. registry' \in [Wallets -> Entries]
    BY <1>1 DEF AppInv, AppTypes
  <2> QED
    BY <1>1, <2>1, <2>2, <2>3, StopsKeeps
<1>2. CASE GoesBack \/ Recovers \/ StopsRuntime
  BY <1>1, <1>2, Zenon DEF GoesBack, Recovers, StopsRuntime, Acts
<1>3. CASE RetriesStart
  <2>1. lifecycle = Idle /\ AppScreen = "error" /\ registry' = registry
    BY <1>3 DEF RetriesStart, Acts
  <2>2. phase = "error"
    BY <2>1, ScreenPhases DEF AppInv
  <2>3. CASE HasEntry
    BY <1>3, <2>1, <2>2, <2>3, RetriesStartOpens DEF RetriesStart, history
  <2>4. CASE ~HasEntry
    BY <1>1, <1>3, <2>1, <2>4 DEF RetriesStart
  <2> QED
    BY <2>3, <2>4
<1> QED
  BY <1>2, <1>3

LEMMA RetriesGuessKeeps ==
    ASSUME AppInv, NEW network \in Networks, RetriesGuess(network)
    PROVE  AppInv'
<1>1. /\ lifecycle = Idle /\ AppScreen = "guessAgain" /\ registry' = registry
      /\ phase' = Machine!Transition(phase, "stopRequested")
      /\ lifecycle' = [op |-> "guess", network |-> network]
      /\ UNCHANGED <<view, daemon, disk, calls, proven, strayed>>
  BY DEF RetriesGuess, Acts, history
<1>2. lifecycle' \in Lifecycles /\ lifecycle'.op = "guess"
  BY <1>1 DEF Lifecycles
<1>3. AppTypes /\ registry' \in [Wallets -> Entries]
  BY <1>1 DEF AppInv, AppTypes
<1>4. phase = "needsWallet" /\ Completed /\ pendingNetwork # Nobody
  BY <1>1, <1>3, ScreenPhases
<1> QED
  BY <1>1, <1>2, <1>3, <1>4, StopsKeeps

LEMMA RemovesKeeps ==
    ASSUME AppInv, NEW e \in Wallets, Removes(e)
    PROVE  AppInv'
<1>1. /\ lifecycle = Idle /\ registry' = [registry EXCEPT ![e] = [registry[e] EXCEPT !.there = FALSE]]
  BY DEF Removes, Acts, Only
<1>2. AppTypes /\ registry \in [Wallets -> Entries] /\ registry[e] \in Entries
  BY DEF AppInv, AppTypes
<1>3. /\ [registry[e] EXCEPT !.there = FALSE] \in Entries
      /\ [registry[e] EXCEPT !.there = FALSE].network = registry[e].network
      /\ [registry[e] EXCEPT !.there = FALSE].walletKind = registry[e].walletKind
      /\ ~[registry[e] EXCEPT !.there = FALSE].there
  BY <1>2 DEF Entries
<1>4. /\ registry' \in [Wallets -> Entries]
      /\ \A x \in Wallets :
           /\ registry'[x].network = registry[x].network
           /\ registry'[x].walletKind = registry[x].walletKind
           /\ (registry'[x].there => registry[x].there)
  BY <1>1, <1>2, <1>3
<1>5. CASE Stops("back")
  <2>1. /\ phase' = Machine!Transition(phase, "stopRequested")
        /\ lifecycle' = [Idle EXCEPT !.op = "back"]
        /\ UNCHANGED <<view, daemon, disk, calls, proven, strayed>>
    BY <1>5 DEF Stops, history
  <2>2. lifecycle' \in Lifecycles /\ lifecycle'.op = "back"
    BY <2>1 DEF Idle, Lifecycles
  <2> QED
    BY <1>1, <1>4, <2>1, <2>2, StopsKeeps
<1>6. CASE AppScreen = "list" /\ UNCHANGED <<view, machine, lifecycle, calls, history>>
  <2>1. /\ selectedWalletId' = selectedWalletId /\ pendingNetwork' = pendingNetwork
        /\ preStart' = preStart /\ onboardingMode' = onboardingMode /\ phase' = phase
        /\ daemon' = daemon /\ disk' = disk /\ lifecycle' = lifecycle /\ calls' = calls
        /\ proven' = proven /\ strayed' = strayed /\ lifecycle.op = "none"
    BY <1>1, <1>6, IdleIsIdle DEF view, machine, history
  <2>2. phase = "runtimeReady" \/ (phase = "stopped" /\ ~HasEntry)
    BY <1>2, <1>6, ScreenPhases
  <2>3. pendingNetwork = Nobody /\ ~Up /\ ~Up'
    BY <2>1, <2>2 DEF AppInv, PhasesFit, SelectionFits, Up
  <2>4. /\ CallsFit' /\ StampsAreProven'
        /\ \A x \in Wallets : (Taken(x)' <=> Taken(x)) /\ (Unproven(x)' <=> Unproven(x))
    <3>1. \A x \in Wallets : /\ registry'[x].network = registry[x].network
                            /\ registry'[x].walletKind \in {registry[x].walletKind, "none"}
      BY <1>4
    <3>2. calls' \subseteq calls
      BY <2>1
    <3> QED
      BY <2>1, <3>1, <3>2, EntriesStay
  <2>5. AppTypes'
    BY <1>2, <1>4, <2>1 DEF AppTypes
  <2>6. PhasesFit'
    BY <2>1, <2>3 DEF AppInv, PhasesFit
  <2>7. SelectionFits'
    BY <1>2, <1>4, <2>1, <2>3, <2>4 DEF AppInv, AppTypes, SelectionFits
  <2>8. DaemonFits' /\ GuessFits'
    BY <2>1, <2>3 DEF DaemonFits, GuessFits
  <2> QED
    BY <2>4, <2>5, <2>6, <2>7, <2>8 DEF AppInv
<1> QED
  BY <1>5, <1>6 DEF Removes

LEMMA SetsUpAgainKeeps ==
    ASSUME AppInv, SetsUpAgain
    PROVE  AppInv'
<1>0. PICK e : e = selectedWalletId
  OBVIOUS
<1>1. /\ lifecycle = Idle /\ AppScreen = "dataMissing"
      /\ registry' = [registry EXCEPT ![e] = [registry[e] EXCEPT !.walletKind = "none"]]
      /\ onboardingMode' = "restore" /\ selectedWalletId' = e /\ preStart' = preStart
      /\ pendingNetwork' = pendingNetwork /\ phase' = phase /\ daemon' = daemon /\ disk' = disk
      /\ lifecycle' = lifecycle /\ calls' = calls /\ proven' = proven /\ strayed' = strayed
  BY <1>0 DEF SetsUpAgain, Acts, Only, machine, history
<1>2. AppTypes /\ lifecycle.op = "none"
  BY <1>1, IdleIsIdle DEF AppInv
<1>3. phase = "needsWallet" /\ Completed /\ pendingNetwork = Nobody
  BY <1>1, <1>2, ScreenPhases
<1>4. e \in Wallets /\ e # Nobody /\ registry[e] \in Entries /\ registry \in [Wallets -> Entries]
  BY <1>0, <1>2, <1>3 DEF Completed, HasEntry, AppTypes
<1>5. /\ [registry[e] EXCEPT !.walletKind = "none"] \in Entries
      /\ [registry[e] EXCEPT !.walletKind = "none"].network = registry[e].network
      /\ [registry[e] EXCEPT !.walletKind = "none"].walletKind = "none"
      /\ [registry[e] EXCEPT !.walletKind = "none"].there = registry[e].there
  BY <1>4 DEF Entries, Kinds
<1>6. /\ registry' \in [Wallets -> Entries] /\ registry'[e].walletKind = "none"
      /\ \A x \in Wallets : registry'[x].there = registry[x].there
      /\ \A x \in Wallets : registry'[x].network = registry[x].network
      /\ \A x \in Wallets : registry'[x].walletKind \in {registry[x].walletKind, "none"}
  BY <1>1, <1>4, <1>5
<1>7. /\ CallsFit' /\ StampsAreProven'
      /\ \A x \in Wallets : (Taken(x)' <=> Taken(x)) /\ (Unproven(x)' <=> Unproven(x))
  BY <1>1, <1>6, EntriesStay
<1>8. AppTypes'
  BY <1>1, <1>2, <1>4, <1>6 DEF AppTypes
<1>9. PhasesFit'
  BY <1>1, <1>2, <1>3, <1>4 DEF AppInv, PhasesFit, Up, Opened
<1>10. SelectionFits'
  BY <1>0, <1>1, <1>2, <1>3, <1>4, <1>6, <1>7 DEF AppInv, SelectionFits
<1>11. DaemonFits'
  BY <1>0, <1>1, <1>3, <1>4, <1>6, <1>7 DEF AppInv, DaemonFits, Up
<1>12. GuessFits'
  BY <1>1, <1>2, <1>3 DEF GuessFits
<1> QED
  BY <1>7, <1>8, <1>9, <1>10, <1>11, <1>12 DEF AppInv

-----------------------------------------------------------------------------
(* The wallet calls                                                        *)

LEMMA CallsWalletKeeps ==
    ASSUME AppInv, NEW op \in {"create", "restore", "unlock"}, NEW passkey \in BOOLEAN,
           CallsWallet(op, passkey)
    PROVE  AppInv'
<1> DEFINE n == [op |-> op, passkey |-> passkey, entry |-> selectedWalletId,
                 network |-> pendingNetwork, on |-> <<daemon.entry, daemon.network>>,
                 done |-> FALSE, words |-> Nobody]
<1>1. /\ lifecycle = Idle /\ calls' = calls \cup {n}
      /\ registry' = registry /\ selectedWalletId' = selectedWalletId /\ preStart' = preStart
      /\ pendingNetwork' = pendingNetwork /\ onboardingMode' = onboardingMode
      /\ phase' = phase /\ daemon' = daemon /\ disk' = disk /\ lifecycle' = lifecycle
      /\ proven' = proven /\ strayed' = strayed
  BY DEF CallsWallet, Calls, Acts, view, machine, history
<1>2. AppTypes /\ lifecycle.op = "none"
  BY <1>1, IdleIsIdle DEF AppInv
<1>3. \/ phase = "needsWallet" /\ ~Completed /\ op # "unlock"
      \/ phase = "locked" /\ op = "unlock"
  <2>1. \/ AppScreen = "onboarding" /\ op = onboardingMode
        \/ AppScreen = "unlock" /\ op = "unlock"
    BY DEF CallsWallet
  <2> QED
    BY <1>2, <2>1, ScreenPhases DEF AppTypes
<1>4. selectedWalletId # Nobody /\ selectedWalletId \in Wallets /\ Taken(selectedWalletId)
  BY <1>2, <1>3 DEF AppInv, PhasesFit, AppTypes, SelectionFits
<1>5. /\ n \in WalletCalls /\ n.op = op /\ n.entry = selectedWalletId
      /\ n.network = pendingNetwork /\ n.on[1] = daemon.entry /\ n.on[2] = daemon.network
      /\ n.on = Opened
      /\ ~n.done
  BY <1>2, <1>4 DEF WalletCalls, AppTypes, Daemons, Opened
<1> HIDE DEF n
<1>6. CallFits(n)
  <2> SUFFICES ASSUME Up
               PROVE  /\ daemon.entry = selectedWalletId /\ (op = "unlock" => Opened \in disk)
                      /\ selectedWalletId \notin strayed =>
                           IF pendingNetwork # Nobody THEN daemon.network = pendingNetwork
                           ELSE Unproven(selectedWalletId) =>
                                  daemon.network = registry[selectedWalletId].network
    BY <1>4, <1>5 DEF CallFits, Up
  <2>1. /\ phase = "locked" => Opened \in disk
        /\ daemon.entry = selectedWalletId
    BY <1>4 DEF AppInv, PhasesFit, DaemonFits
  <2>2. op = "unlock" => Opened \in disk
    BY <1>3, <2>1
  <2> QED
    BY <1>2, <1>3, <1>4, <2>1, <2>2 DEF AppInv, DaemonFits, Missing
<1>7. \A c : CallFits(c)' <=> CallFits(c)
  BY <1>1 DEF CallFits, Taken, Unproven
<1>8. CallsFit'
  BY <1>1, <1>6, <1>7 DEF AppInv, CallsFit
<1>9. /\ (Up' <=> Up) /\ Opened' = Opened /\ (HasEntry' <=> HasEntry) /\ (Completed' <=> Completed)
      /\ Missing' <=> Missing
      /\ \A e : (Taken(e)' <=> Taken(e)) /\ (Unproven(e)' <=> Unproven(e))
  BY <1>1 DEF Up, Opened, HasEntry, Completed, Missing, Taken, Unproven
<1>10. AppTypes'
  BY <1>1, <1>2, <1>5 DEF AppTypes
<1>11. PhasesFit'
  BY <1>1, <1>3, <1>9 DEF AppInv, PhasesFit
<1>12. SelectionFits' /\ DaemonFits' /\ StampsAreProven'
  BY <1>1, <1>9 DEF AppInv, SelectionFits, DaemonFits, StampsAreProven
<1>13. GuessFits'
  <2>1. Completed => n.op = "unlock"
    BY <1>3, <1>5
  <2> QED
    BY <1>1, <1>9, <2>1 DEF AppInv, GuessFits
<1> QED
  BY <1>8, <1>10, <1>11, <1>12, <1>13 DEF AppInv

LEMMA DaemonDoesKeeps ==
    ASSUME AppInv, NEW c \in calls, DaemonDoes(c)
    PROVE  AppInv'
<1>0. PICK w : /\ w \in {Opened[1], Nobody}
               /\ calls' = (calls \ {c}) \cup {[c EXCEPT !.done = TRUE, !.words = w]}
  BY DEF DaemonDoes, Opened
<1> DEFINE n == [c EXCEPT !.done = TRUE, !.words = w]
<1>1. /\ ~c.done /\ Up
      /\ calls' = (calls \ {c}) \cup {n} /\ disk' = disk \cup {Opened}
      /\ daemon' = [daemon EXCEPT !.open = TRUE] /\ proven' = proven \cup {Opened}
      /\ strayed' = IF c.on = Opened THEN strayed ELSE strayed \cup {c.entry, daemon.entry}
      /\ registry' = registry /\ selectedWalletId' = selectedWalletId /\ preStart' = preStart
      /\ pendingNetwork' = pendingNetwork /\ onboardingMode' = onboardingMode
      /\ phase' = phase /\ lifecycle' = lifecycle
  BY <1>0 DEF DaemonDoes, Up, Opened, view
<1>2. AppTypes /\ c \in WalletCalls /\ Opened[1] \in Wallets \cup {Nobody}
  BY DEF AppInv, AppTypes, Daemons, Opened
<1>3. /\ n \in WalletCalls /\ n.op = c.op /\ n.entry = c.entry /\ n.network = c.network
      /\ n.on = c.on
  BY <1>0, <1>2 DEF WalletCalls
<1> HIDE DEF n
<1>4. /\ daemon' \in Daemons /\ daemon'.entry = daemon.entry /\ daemon'.network = daemon.network
  BY <1>1, <1>2 DEF AppTypes, Daemons
<1>5. /\ Up' /\ Opened' = Opened /\ (HasEntry' <=> HasEntry) /\ (Completed' <=> Completed)
  BY <1>1, <1>4 DEF Up, Opened, HasEntry, Completed
<1>6. \A e : (Taken(e)' <=> Taken(e)) /\ (Unproven(e)' => Unproven(e))
  BY <1>1 DEF Taken, Unproven
<1>7. Opened[1] = daemon.entry /\ Opened[1] # Nobody /\ CallFits(c)
  BY <1>1 DEF Opened, Up, AppInv, CallsFit
(* A call that finds nothing leaves a wrong guess, as a guess that was     *)
(* wrong has no creation under way, unless it has strayed.                 *)
<1>8. Completed /\ (pendingNetwork # Nobody \/ lifecycle.op = "guess") /\ selectedWalletId # Nobody
      => (Missing => Missing')
  <2> SUFFICES ASSUME Completed, pendingNetwork # Nobody \/ lifecycle.op = "guess",
                      selectedWalletId # Nobody, Missing
               PROVE  Missing'
    OBVIOUS
  <2>1. CASE c.on # Opened
    BY <1>1, <1>4, <2>1 DEF Missing
  <2>2. CASE c.on = Opened
    <3>1. daemon.entry = selectedWalletId
      BY <1>1 DEF AppInv, DaemonFits
    <3>2. c.op = "unlock"
      BY <1>7, <2>2, <3>1 DEF AppInv, GuessFits
    <3>3. Opened \in disk
      BY <1>7, <2>2, <3>2 DEF CallFits
    <3> QED
      BY <1>1, <1>4, <2>2, <3>3 DEF Missing
  <2> QED
    BY <2>1, <2>2
<1>9. AppTypes'
  BY <1>1, <1>2, <1>3, <1>4 DEF AppTypes
<1>10. PhasesFit'
  BY <1>1, <1>5 DEF AppInv, PhasesFit
<1>11. SelectionFits' /\ StampsAreProven'
  <2>1. SelectionFits'
    BY <1>1, <1>5, <1>6 DEF AppInv, SelectionFits
  <2>2. StampsAreProven'
    BY <1>1 DEF AppInv, StampsAreProven
  <2> QED
    BY <2>1, <2>2
<1>12. Completed => selectedWalletId # Nobody
  BY DEF Completed, HasEntry
<1>13. DaemonFits'
  BY <1>1, <1>4, <1>5, <1>6, <1>8 DEF AppInv, DaemonFits
<1>14. GuessFits'
  <2>1. \A d \in calls' : \E b \in calls : b.op = d.op /\ b.on = d.on
    BY <1>1, <1>3
  <2> QED
    BY <1>1, <1>5, <1>8, <1>12, <2>1 DEF AppInv, GuessFits
<1>15. CallsFit'
  <2>1. CallFits(n)'
    <3>1. /\ Taken(n.entry)'
          /\ n.on[1] # Nobody => n.on[1] = n.entry /\ (n.op = "unlock" => n.on \in disk')
      BY <1>1, <1>3, <1>6, <1>7 DEF CallFits
    <3>2. ASSUME n.entry \notin strayed'
          PROVE  /\ n.on \in proven' /\ n.on[1] # Nobody
                 /\ IF n.network # Nobody THEN n.on[2] = n.network
                    ELSE Unproven(n.entry)' => n.on[2] = registry'[n.entry].network
      <4>1. c.on = Opened /\ c.entry \notin strayed
        BY <1>1, <1>3, <3>2
      <4> QED
        BY <1>1, <1>3, <1>6, <1>7, <4>1 DEF CallFits
    <3> QED
      BY <3>1, <3>2 DEF CallFits
  <2>2. ASSUME NEW d \in calls PROVE CallFits(d)'
    <3>1. CallFits(d) /\ (d.entry \notin strayed' => d.entry \notin strayed)
      BY <1>1 DEF AppInv, CallsFit
    <3> QED
      BY <1>1, <1>6, <3>1 DEF CallFits
  <2> QED
    BY <1>1, <2>1, <2>2 DEF CallsFit
<1> QED
  BY <1>9, <1>10, <1>11, <1>13, <1>14, <1>15 DEF AppInv

(* What a call stamps on its entry is proven.                              *)
LEMMA CallResolvesKeeps ==
    ASSUME AppInv, NEW c \in calls, CallResolves(c)
    PROVE  AppInv'
<1> DEFINE stamped == [registry[c.entry] EXCEPT
                          !.walletKind = KindOf(c),
                          !.network = IF c.network # Nobody THEN c.network ELSE @]
<1>0. AppTypes /\ c \in WalletCalls /\ CallFits(c) /\ c.entry \in Wallets /\ c.entry # Nobody
  BY AppAssumption DEF AppInv, AppTypes, CallsFit, WalletCalls
<1>1. /\ c.done /\ calls' = calls \ {c}
      /\ registry' = [registry EXCEPT ![c.entry] = stamped] /\ pendingNetwork' = Nobody
      /\ disk' = disk /\ daemon' = daemon /\ proven' = proven /\ strayed' = strayed
      /\ selectedWalletId' = selectedWalletId /\ preStart' = preStart
      /\ onboardingMode' = onboardingMode /\ lifecycle' = lifecycle
  BY <1>0 DEF CallResolves, Stamp, Only, history
<1>2. registry \in [Wallets -> Entries] /\ registry[c.entry] \in Entries
  BY <1>0 DEF AppTypes
<1>3. /\ stamped \in Entries /\ stamped.there = registry[c.entry].there
      /\ stamped.walletKind # "none"
      /\ stamped.network = IF c.network # Nobody THEN c.network ELSE registry[c.entry].network
  BY <1>0, <1>2 DEF Entries, Kinds, KindOf, WalletCalls
<1> HIDE DEF stamped
<1>4. /\ registry' \in [Wallets -> Entries] /\ registry'[c.entry] = stamped
      /\ \A x \in Wallets : x # c.entry => registry'[x] = registry[x]
      /\ \A x \in Wallets : registry'[x].there = registry[x].there
  BY <1>0, <1>1, <1>2, <1>3
<1>5. ~Unproven(c.entry)'
  <2> SUFFICES ASSUME c.entry \notin strayed PROVE ~Unproven(c.entry)'
    BY <1>1 DEF Unproven
  <2>1. c.on \in proven /\ c.on[1] = c.entry /\ c.on = <<c.on[1], c.on[2]>>
    BY <1>0, <1>1 DEF CallFits, WalletCalls
  <2>2. CASE c.network # Nobody
    BY <1>0, <1>1, <1>3, <1>4, <2>1, <2>2 DEF CallFits, Unproven
  <2>3. CASE c.network = Nobody
    <3>1. stamped.network = registry[c.entry].network /\ ~Unproven(c.entry)
      BY <1>0, <1>1, <1>3, <2>1, <2>3 DEF CallFits, Unproven
    <3> QED
      BY <1>1, <1>4, <3>1 DEF Unproven
  <2> QED
    BY <2>2, <2>3
<1>6. \A x \in Wallets :
        /\ Taken(x) => Taken(x)'
        /\ Unproven(x)' => Unproven(x) /\ registry'[x] = registry[x]
  <2> SUFFICES ASSUME NEW x \in Wallets
               PROVE  /\ Taken(x) => Taken(x)'
                      /\ Unproven(x)' => Unproven(x) /\ registry'[x] = registry[x]
    OBVIOUS
  <2>1. CASE x = c.entry
    BY <1>3, <1>4, <1>5, <2>1 DEF Taken
  <2>2. CASE x # c.entry
    BY <1>1, <1>4, <2>2 DEF Taken, Unproven
  <2> QED
    BY <2>1, <2>2
<1>7. \/ \E i \in Infos : phase' = Machine!OnInfo(phase, i)
      \/ phase' = Machine!Transition(phase, "walletAdoptionFailed")
  BY DEF CallResolves
<1>8. /\ phase' \in Machine!Phases
      /\ \/ phase' = phase
         \/ /\ phase \in {"starting", "needsWallet", "locked", "syncing", "ready"}
            /\ phase' \in {"needsWallet", "locked", "syncing", "ready", "error"}
            /\ phase' = "locked" => Opened \in disk
  <2>1. phase \in Machine!Phases /\ "error" \in Machine!Phases
    BY <1>0 DEF AppTypes, Machine!Phases, Machine!RuntimePhases
  <2>2. CASE \E i \in Infos : phase' = Machine!OnInfo(phase, i)
    BY <2>1, <2>2, InfoSteps
  <2>3. CASE phase' = Machine!Transition(phase, "walletAdoptionFailed")
    BY <2>1, <2>3, PhaseSteps
  <2> QED
    BY <1>7, <2>2, <2>3
<1>9. AppTypes'
  BY <1>0, <1>1, <1>4, <1>8 DEF AppTypes
<1>10. (Up' <=> Up) /\ Opened' = Opened /\ (Missing' <=> Missing)
  BY <1>1 DEF Up, Opened, Missing
<1>11. PhasesFit'
  BY <1>1, <1>8, <1>10 DEF AppInv, PhasesFit
<1>12. Completed => Completed'
  BY <1>0, <1>1, <1>3, <1>4 DEF Completed, HasEntry, AppTypes
<1>13. SelectionFits'
  <2>1. \A x \in Wallets : registry'[x].there => Taken(x)'
    BY <1>4, <1>6 DEF AppInv, SelectionFits
  <2>2. selectedWalletId # Nobody => selectedWalletId \in Wallets
    BY <1>0 DEF AppTypes
  <2>3. selectedWalletId # Nobody =>
          /\ Taken(selectedWalletId)'
          /\ Unproven(selectedWalletId)' => lifecycle.op # "guess" /\ preStart # "chooseNetwork"
    BY <1>1, <1>6, <2>2 DEF AppInv, SelectionFits
  <2>4. lifecycle.op = "start" =>
          (Unproven(selectedWalletId)' => lifecycle.network = registry'[selectedWalletId].network)
    <3> SUFFICES ASSUME lifecycle.op = "start", Unproven(selectedWalletId)'
                 PROVE  lifecycle.network = registry'[selectedWalletId].network
      OBVIOUS
    <3>1. selectedWalletId # Nobody
      BY DEF AppInv, PhasesFit
    <3>2. Unproven(selectedWalletId) /\ registry'[selectedWalletId] = registry[selectedWalletId]
      BY <1>1, <1>6, <2>2, <3>1
    <3> QED
      BY <3>1, <3>2 DEF AppInv, SelectionFits
  <2> QED
    BY <1>1, <2>1, <2>3, <2>4 DEF SelectionFits
<1>14. DaemonFits'
  BY <1>0, <1>1, <1>4, <1>6, <1>10 DEF AppInv, AppTypes, DaemonFits
<1>15. GuessFits'
  BY <1>1, <1>10, <1>12 DEF AppInv, GuessFits
<1>16. CallsFit'
  <2> SUFFICES ASSUME NEW d \in calls PROVE CallFits(d)'
    BY <1>1 DEF CallsFit
  <2>1. CallFits(d) /\ d.entry \in Wallets
    BY <1>0 DEF AppInv, AppTypes, CallsFit, WalletCalls
  <2> QED
    BY <1>1, <1>6, <2>1 DEF CallFits
<1>17. StampsAreProven'
  <2> SUFFICES ASSUME NEW x \in Wallets \ strayed', registry'[x].network # Nobody,
                      registry'[x].walletKind # "none"
               PROVE  ~Unproven(x)'
    BY DEF StampsAreProven, Unproven
  <2>1. CASE x = c.entry
    BY <1>5, <2>1
  <2>2. CASE x # c.entry
    BY <1>4, <1>6, <2>2 DEF AppInv, StampsAreProven, Unproven
  <2> QED
    BY <2>1, <2>2
<1> QED
  BY <1>9, <1>11, <1>13, <1>14, <1>15, <1>16, <1>17 DEF AppInv

LEMMA AppNextKeeps == AppInv /\ [AppNext]_appVars => AppInv'
<1> SUFFICES ASSUME AppInv, [AppNext]_appVars PROVE AppInv'
  OBVIOUS
<1>1. CASE \E kind \in {"list", "create", "restore"} : ShowsForm(kind)
  BY <1>1, CalmKeeps DEF ShowsForm, machine, history
<1>2. CASE AcknowledgesBackup \/ \E c \in calls : CallRejects(c)
  BY <1>2, CalmKeeps DEF AcknowledgesBackup, CallRejects, view, machine, history
<1>3. CASE UNCHANGED appVars
  BY <1>3, CalmKeeps DEF appVars, view, machine, history
<1>4. CASE StartLands \/ StartFails \/ StopLands \/ StopFails \/ RuntimeDies \/ SyncEnds \/ Reloads
  BY <1>4, StartLandsKeeps, StartFailsKeeps, StopLandsKeeps, StopFailsKeeps, RuntimeDiesKeeps,
     SyncEndsKeeps, ReloadsKeeps
<1>5. CASE \/ \E e \in Wallets : OpensEntry(e) \/ Removes(e)
           \/ \E e \in Wallets, n \in Networks : SubmitsSetup(e, n)
           \/ \E n \in Networks : PicksNetwork(n) \/ RetriesGuess(n)
  BY <1>5, OpensEntryKeeps, RemovesKeeps, SubmitsSetupKeeps, PicksNetworkKeeps, RetriesGuessKeeps
<1>6. CASE GoesBack \/ Recovers \/ StopsRuntime \/ RetriesStart \/ SetsUpAgain
  BY <1>6, LeavesWalletKeeps, SetsUpAgainKeeps
<1>7. CASE \/ \E op \in {"create", "restore", "unlock"}, passkey \in BOOLEAN :
                CallsWallet(op, passkey)
           \/ \E c \in calls : DaemonDoes(c) \/ CallResolves(c)
  BY <1>7, CallsWalletKeeps, DaemonDoesKeeps, CallResolvesKeeps
<1> QED
  BY <1>1, <1>2, <1>3, <1>4, <1>5, <1>6, <1>7 DEF AppNext

-----------------------------------------------------------------------------
(* The app                                                                 *)

ScreensInv == SendInv /\ ExitInv /\ ExitScreenInv /\ StatusInv /\ AppInv

LEMMA ScreensInitInv == ScreensInit => ScreensInv
  BY SendInitInv, ExitInitInv, ExitScreenInitInv, StatusInitInv, AppInitInv
  DEF ScreensInit, ScreensInv

(* Each step of a screen is a step of that screen alone.                   *)
LEMMA OneScreenSteps ==
    ASSUME [ScreensNext]_screenVars
    PROVE  /\ [SendNext]_sendVars /\ [ExitNext]_exitVars /\ [ExitScreenNext]_exitScreenVars
           /\ [StatusNext]_statusVars /\ [AppNext]_appVars
  BY DEF ScreensNext, screenVars, OnSend, OnBatch, OnExit, OnStatus, OnReceive, OnApp

LEMMA ScreensNextKeeps == ScreensInv /\ [ScreensNext]_screenVars => ScreensInv'
  BY OneScreenSteps, SendNextKeeps, ExitNextKeeps, ExitScreenNextKeeps, StatusNextKeeps,
     AppNextKeeps DEF ScreensInv

(* On every screen, whatever the order of answers, resets and visits, the  *)
(* hooks and the registry keep their bookkeeping.                          *)
THEOREM Invariance == ScreensSpec => []ScreensInv
  BY ScreensInitInv, ScreensNextKeeps, PTL DEF ScreensSpec

(* The user confirms the answer to the newest request for a quote, and     *)
(* never a payment that may already have left (SendScreen.tsx and          *)
(* useWalletSend).                                                         *)
THEOREM ReviewSafe == ScreensSpec => []ReviewIsSafe
<1>1. ScreensInv => ReviewIsSafe
  BY DEF ScreensInv, SendInv, ReviewIsSafe
<1> QED
  BY <1>1, Invariance, PTL

(* exitBatch() accounts for each output once, one hook runs one batch and  *)
(* shows the result beside its own events, a forced exit has a plan for    *)
(* just what is left, and the user has seen what is forced.                *)
THEOREM ExitsSafe == ScreensSpec => []ExitsAreSafe
<1>1. ScreensInv => ExitsAreSafe
  BY ExitInvSafe DEF ScreensInv, ExitScreenInv, ExitsAreSafe, ForcedAsShown
<1> QED
  BY <1>1, Invariance, PTL

(* updateWallet() marks an entry of the registry with a kind and a network *)
(* only where a wallet call has succeeded in that entry's directory, on    *)
(* that network, whichever daemon is up when the prompt of a passkey       *)
(* answers: but for the two entries of a ceremony that strayed.            *)
THEOREM StampsProven == ScreensSpec => []StampsAreProven
<1>1. ScreensInv => StampsAreProven
  BY DEF ScreensInv, AppInv
<1> QED
  BY <1>1, Invariance, PTL

(* The status of an exit on the screen never goes backwards, although the  *)
(* reads of useWalletExitStatus overlap and are answered out of order.     *)
THEOREM StatusForward == ScreensSpec => StatusNeverRegresses
<1>1. ASSUME ScreensInv, [ScreensNext]_screenVars
      PROVE  [\A old \in statusHook.data, new \in statusHook'.data :
                old[1] = new[1] => old[2] <= new[2]]_statusVars
  BY <1>1, OneScreenSteps, StatusNextKeeps DEF ScreensInv
<1> QED
  BY <1>1, Invariance, PTL DEF ScreensSpec, StatusNeverRegresses
=============================================================================
