------------------------------ MODULE ReportLog ------------------------------
(***************************************************************************)
(* What one lease's reporting stream promises, with the wire, the replay   *)
(* buffer, the write chain and the watermark left out: frames are reported *)
(* in order, each is recorded on the host unless the worker gave it up,    *)
(* only frames of a droppable type are given up, and the run settles once, *)
(* after everything below its completion is accounted for.                 *)
(*                                                                         *)
(* ReportChannel implements this module (see its Refinement section).      *)
(***************************************************************************)
EXTENDS Integers, Sequences

CONSTANTS
    Script,      \* the frame types one execution reports, in order
    Droppable    \* the types a full replay buffer may give up

Last == Len(Script)

VARIABLES
    reported,    \* how many frames the execution has reported
    recorded,    \* the frames whose effect is on the host's disk
    lost,        \* the frames the worker gave up
    settled      \* the run has its outcome

vars == <<reported, recorded, lost, settled>>

Init ==
    /\ reported = 0
    /\ recorded = {}
    /\ lost = {}
    /\ settled = FALSE

\* The execution reports its next frame; the buffer may give one up for it.
Report ==
    /\ reported < Last
    /\ reported' = reported + 1
    /\ \/ lost' = lost
       \/ \E s \in 1..reported' : Script[s] \in Droppable /\ lost' = lost \cup {s}
    /\ UNCHANGED <<recorded, settled>>

\* A reported frame's effect reaches the host's disk (again, after a crash).
Record ==
    /\ \E s \in 1..reported : s < Last /\ recorded' = recorded \cup {s}
    /\ UNCHANGED <<reported, lost, settled>>

\* The completion lands, with nothing below it unaccounted for.
Settle ==
    /\ reported = Last
    /\ 1..(Last - 1) \subseteq recorded \cup lost
    /\ recorded' = recorded \cup {Last}
    /\ settled' = TRUE
    /\ UNCHANGED <<reported, lost>>

Next == Report \/ Record \/ Settle

Spec == Init /\ [][Next]_vars

=============================================================================
