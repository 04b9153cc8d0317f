------------------------------ MODULE MCFleet ------------------------------
(* Fleet on small instances. *)
EXTENDS Fleet, TLC

\* Configurations, and slots, are only compared with one another.
Symmetry == Permutations(Configs) \cup Permutations(Slots)

\* No action reads the last reply and no property of the runs that use this
\* view speaks of it, so states that differ in it alone are one state.
NoReply == <<fleetVars, engineVars, peerVars, birthVars, board, asked>>
=============================================================================
