---------------------------- MODULE StatusPanel ----------------------------
(***************************************************************************)
(* useWalletExitStatus (packages/react/src/hooks.ts) in a panel that polls *)
(* (components/exit/ExitStatusPanel.tsx): reads overlap, are answered out  *)
(* of order, fail, and the panel may turn to another exit.                 *)
(***************************************************************************)
EXTENDS MutationState, Integers

CONSTANTS
    Exits,          \* the outpoints a panel may be asked for
    MaxReads,       \* bound: calls of exitStatus()
    MaxProgress     \* bound: how far an exit comes

ASSUME PanelAssumption == Exits # {} /\ {MaxReads, MaxProgress} \subseteq Nat

VARIABLES
    outpoint,       \* the prop
    statusHook,     \* keepPreviousData
    reads,          \* calls in flight
    progress        \* exit -> how far it is, for the daemon

statusVars == <<outpoint, statusHook, reads, progress>>

Unread == -1        \* the daemon has not looked yet

(* refreshStatus, by the effect, the interval or the button: with the      *)
(* outpoint of the render that made it.                                    *)
Read(o) ==
    /\ statusHook.generation < MaxReads
    /\ statusHook' = Track(statusHook, TRUE)
    /\ reads' = reads \cup
         {[generation |-> statusHook'.generation, outpoint |-> o, seen |-> Unread]}

(* Mounted, the hook reads at once.                                        *)
StatusInit ==
    /\ outpoint = CHOOSE o \in Exits : TRUE
    /\ statusHook = Track(FreshHook, TRUE)
    /\ reads = {[generation |-> 1, outpoint |-> outpoint, seen |-> Unread]}
    /\ progress = [o \in Exits |-> 0]

Polls ==
    /\ Read(outpoint)
    /\ UNCHANGED <<outpoint, progress>>

(* Another outpoint: the effect reads anew, and the old status stays.      *)
Turns(o) ==
    /\ o # outpoint
    /\ outpoint' = o
    /\ Read(o)
    /\ UNCHANGED progress

DaemonReads(r) ==
    /\ r.seen = Unread
    /\ reads' = (reads \ {r}) \cup {[r EXCEPT !.seen = progress[r.outpoint]]}
    /\ UNCHANGED <<outpoint, statusHook, progress>>

StatusLands(r) ==
    /\ r.seen # Unread
    /\ reads' = reads \ {r}
    /\ statusHook' = Fulfil(statusHook, r.generation, <<r.outpoint, r.seen>>)
    /\ UNCHANGED <<outpoint, progress>>

StatusFails(r) ==
    /\ reads' = reads \ {r}
    /\ statusHook' = Reject(statusHook, r.generation, TRUE)
    /\ UNCHANGED <<outpoint, progress>>

Advances(o) ==
    /\ progress[o] < MaxProgress
    /\ progress' = [progress EXCEPT ![o] = @ + 1]
    /\ UNCHANGED <<outpoint, statusHook, reads>>

StatusNext ==
    \/ Polls
    \/ \E o \in Exits : Turns(o) \/ Advances(o)
    \/ \E r \in reads : DaemonReads(r) \/ StatusLands(r) \/ StatusFails(r)

-----------------------------------------------------------------------------
(* Properties                                                              *)

(* The status on the screen never goes backwards: an answer that comes     *)
(* after that of a newer read is dropped.                                  *)
StatusNeverRegresses ==
    [][\A old \in statusHook.data, new \in statusHook'.data :
         old[1] = new[1] => old[2] <= new[2]]_statusVars

(* "The exit's status, or null before first load": a claim the code does   *)
(* not keep for an exit the panel has just turned to.                      *)
StatusIsOwn == \A status \in statusHook.data : status[1] = outpoint
=============================================================================
