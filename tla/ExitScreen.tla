----------------------------- MODULE ExitScreen -----------------------------
(***************************************************************************)
(* The exit screen of the web demo (screens/exit/ExitScreen.tsx with       *)
(* VTXOPicker and ExitAckDialog) over useWalletExitPlan, useWalletExits    *)
(* and useWalletExitBatch: the user picks outputs, a plan is read for each *)
(* choice, and a unilateral exit is forced only behind a dialog.  Plans    *)
(* overlap and are answered out of order, exits are started elsewhere and  *)
(* drop from the choice, and a batch ends while the user goes on.  What a  *)
(* batch does is in ExitFlow; here it is one call.                         *)
(***************************************************************************)
EXTENDS MutationState, FiniteSets

CONSTANTS
    Outputs,        \* the outpoints of the inventory
    MaxPlans,       \* bound: reads of a plan
    MaxRuns         \* bound: batches

ASSUME ExitScreenAssumption == {MaxPlans, MaxRuns} \subseteq Nat

VARIABLES
    selected,       \* the outpoints picked
    exitMode,
    planHook,       \* of useWalletExitPlan
    planCalls,      \* its calls in flight
    ackOpen, typed, \* the dialog, and whether its phrase is typed in
    excluded,       \* what the last exitSummary() knew of
    leaving,        \* what the daemon runs an exit for
    runHook,        \* of useWalletExitBatch
    runCalls,       \* its calls in flight
    reviewed,       \* history: the outpoints of the plan behind the dialog
    forced          \* history: unilateral batches, with what was reviewed

choiceVars == <<selected, exitMode, planHook, planCalls>>
dialogVars == <<ackOpen, typed, reviewed>>
runVars == <<runHook, runCalls, forced>>
outsideVars == <<excluded, leaving>>
exitScreenVars == <<choiceVars, dialogVars, runVars, outsideVars>>

ExitModes == {"cooperative", "unilateral"}

ExitScreenInit ==
    /\ selected = {} /\ exitMode = "cooperative"
    /\ planHook = FreshHook /\ planCalls = {}
    /\ ackOpen = FALSE /\ typed = FALSE /\ reviewed = {}
    /\ excluded = {} /\ leaving = {}
    /\ runHook = FreshHook /\ runCalls = {} /\ forced = {}

(* plan({ outpoints })                                                     *)
Previews(outpoints) ==
    /\ planHook.generation < MaxPlans
    /\ planHook' = Track(planHook, FALSE)
    /\ planCalls' = planCalls \cup {[generation |-> planHook'.generation, of |-> outpoints]}

(* The effect behind every change of the choice.                           *)
Chooses(outpoints, m) ==
    /\ selected' = outpoints
    /\ exitMode' = m
    /\ IF m = "unilateral" /\ outpoints # {} THEN Previews(outpoints)
       ELSE UNCHANGED <<planHook, planCalls>>

(* toggle(): the dialog, when open, is in the way; what is excluded is not *)
(* listed.                                                                 *)
Toggles(o) ==
    /\ ~ackOpen
    /\ o \notin excluded
    /\ Chooses(IF o \in selected THEN selected \ {o} ELSE selected \cup {o}, exitMode)
    /\ UNCHANGED <<dialogVars, runVars, outsideVars>>

SwitchesMode(m) ==
    /\ ~ackOpen
    /\ m # exitMode
    /\ Chooses(selected, m)
    /\ UNCHANGED <<dialogVars, runVars, outsideVars>>

(* "Recheck" of a plan that is shown.                                      *)
Rechecks ==
    /\ ~ackOpen
    /\ exitMode = "unilateral"
    /\ planHook.data # {}
    /\ Previews(selected)
    /\ UNCHANGED <<selected, exitMode, dialogVars, runVars, outsideVars>>

(* getExitPlan() answers; funds and fees are the daemon's.                 *)
PreviewLands(c, canStart) ==
    /\ planCalls' = planCalls \ {c}
    /\ planHook' = Fulfil(planHook, c.generation, [of |-> c.of, canStart |-> canStart])
    /\ UNCHANGED <<selected, exitMode, dialogVars, runVars, outsideVars>>

PreviewFails(c) ==
    /\ planCalls' = planCalls \ {c}
    /\ planHook' = Reject(planHook, c.generation, FALSE)
    /\ UNCHANGED <<selected, exitMode, dialogVars, runVars, outsideVars>>

-----------------------------------------------------------------------------
(* The dialog and the batch                                                *)

(* "Force unilateral exit" on the screen.                                  *)
OpensAck ==
    /\ ~ackOpen
    /\ exitMode = "unilateral"
    /\ selected # {}
    /\ \E plan \in planHook.data : plan.canStart /\ reviewed' = plan.of
    /\ ackOpen' = TRUE
    /\ UNCHANGED <<typed, choiceVars, runVars, outsideVars>>

Types ==
    /\ ackOpen
    /\ typed' = TRUE
    /\ UNCHANGED <<ackOpen, reviewed, choiceVars, runVars, outsideVars>>

(* A dialog that closes forgets what was typed.                            *)
ClosesAck ==
    /\ ackOpen' = FALSE
    /\ typed' = FALSE
    /\ UNCHANGED reviewed

CancelsAck ==
    /\ ackOpen
    /\ ClosesAck
    /\ UNCHANGED <<choiceVars, runVars, outsideVars>>

(* exitBatch() of what is picked.                                          *)
Runs ==
    /\ ~runHook.pending
    /\ runHook.generation < 2 * MaxRuns
    /\ runHook' = Track(runHook, FALSE)
    /\ runCalls' = runCalls \cup
         {[generation |-> runHook'.generation, mode |-> exitMode, of |-> selected]}

(* "Force unilateral exit" in the dialog.                                  *)
ConfirmsAck ==
    /\ ackOpen /\ typed
    /\ Runs
    /\ ClosesAck
    /\ forced' = forced \cup {[of |-> selected, reviewed |-> reviewed]}
    /\ UNCHANGED <<choiceVars, outsideVars>>

StartsCooperative ==
    /\ ~ackOpen
    /\ exitMode = "cooperative"
    /\ selected # {}
    /\ Runs
    /\ UNCHANGED <<forced, choiceVars, dialogVars, outsideVars>>

(* The batch resolves with what it started, in full or stopped early ...   *)
RunEnds(c, begun) ==
    /\ begun \subseteq c.of \ leaving
    /\ runCalls' = runCalls \ {c}
    /\ leaving' = leaving \cup begun
    /\ \E stopped \in {FALSE} \cup {begun # c.of} :
         runHook' = Fulfil(runHook, c.generation,
                           [mode |-> c.mode, started |-> begun, stopped |-> stopped])
    /\ UNCHANGED <<forced, excluded, choiceVars, dialogVars>>

(* ... or rejects, what it has started notwithstanding.                    *)
RunThrows(c, begun) ==
    /\ begun \subseteq c.of \ leaving
    /\ runCalls' = runCalls \ {c}
    /\ leaving' = leaving \cup begun
    /\ runHook' = Reject(runHook, c.generation, FALSE)
    /\ UNCHANGED <<forced, excluded, choiceVars, dialogVars>>

(* startAnother(), offered beside a result.                                *)
StartsAnother ==
    /\ ~ackOpen
    /\ runHook.data # {}
    /\ selected' = {}
    /\ planHook' = Reset(planHook)
    /\ runHook' = Reset(runHook)
    /\ UNCHANGED <<exitMode, planCalls, runCalls, forced, dialogVars, outsideVars>>

(* An exit is started elsewhere.                                           *)
ExitsElsewhere(o) ==
    /\ o \notin leaving
    /\ leaving' = leaving \cup {o}
    /\ UNCHANGED <<excluded, choiceVars, dialogVars, runVars>>

(* exitSummary() answers, never for an earlier moment than the one before; *)
(* the picker then drops what has become excluded.                         *)
SummaryLands(known) ==
    /\ excluded \subseteq known /\ known \subseteq leaving /\ known # excluded
    /\ excluded' = known
    /\ IF selected \cap known # {} THEN Chooses(selected \ known, exitMode)
       ELSE UNCHANGED choiceVars
    /\ UNCHANGED <<leaving, dialogVars, runVars>>

ExitScreenNext ==
    \/ \E o \in Outputs : Toggles(o) \/ ExitsElsewhere(o)
    \/ \E m \in ExitModes : SwitchesMode(m)
    \/ Rechecks
    \/ \E c \in planCalls : PreviewFails(c) \/ \E canStart \in BOOLEAN : PreviewLands(c, canStart)
    \/ OpensAck \/ Types \/ CancelsAck \/ ConfirmsAck \/ StartsCooperative \/ StartsAnother
    \/ \E c \in runCalls, begun \in SUBSET Outputs : RunEnds(c, begun) \/ RunThrows(c, begun)
    \/ \E known \in SUBSET Outputs : SummaryLands(known)

ExitScreenSpec == ExitScreenInit /\ [][ExitScreenNext]_exitScreenVars

-----------------------------------------------------------------------------
(* Properties                                                              *)

(* A plan on the screen is the plan of what is picked, however the answers *)
(* are ordered and whatever drops from the choice.                         *)
PlanIsOfChoice ==
    exitMode = "unilateral" /\ selected # {} =>
        \A plan \in planHook.data : plan.of = selected

(* No output is forced on-chain that was not part of the plan the user had *)
(* in view when the dialog was opened.                                     *)
ForcedWasReviewed == \A f \in forced : f.of \subseteq f.reviewed

(* What the user forces is what the user has seen.                         *)
ForcedAsShown == PlanIsOfChoice /\ ForcedWasReviewed

-----------------------------------------------------------------------------
(* A claim of a comment that the code does not keep                        *)

(* "... a mode-aware success panel": the panel tells of the path the batch *)
(* took, not of the one picked since.                                      *)
SuccessIsOfBatch ==
    \A result \in runHook.data :
        result.started # {} /\ ~result.stopped => result.mode = exitMode
=============================================================================
