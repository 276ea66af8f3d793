----------------------------- MODULE MCRunSpawn -----------------------------
(***************************************************************************)
(* Instances of RunSpawn for TLC.  MaxStates bounds the edits of each row; *)
(* requests are one-shot.                                                  *)
(***************************************************************************)
EXTENDS RunSpawn, TLC

Symmetry == Permutations(Requests) \cup Permutations(StepIds)
SymmetryAll == Symmetry \cup Permutations(TestCases)
=============================================================================
