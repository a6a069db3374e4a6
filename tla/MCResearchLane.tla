--------------------------- MODULE MCResearchLane ---------------------------
(* Instances of ResearchLane for TLC. *)
EXTENDS ResearchLane, TLC

\* The rows of a run are interchangeable.
RowSymmetry == Permutations(Tasks)
=============================================================================
