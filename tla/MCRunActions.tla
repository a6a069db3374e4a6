---------------------------- MODULE MCRunActions ----------------------------
(* Instances of RunActions for TLC. *)
EXTENDS RunActions, TLC

\* Executions are interchangeable.
ExecSymmetry == Permutations(Execs)
=============================================================================
