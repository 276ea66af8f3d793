---------------------------- MODULE MCRefCounter ----------------------------
(***************************************************************************)
(* Instances of RefCounter for TLC.  Requests are one-shot, so their       *)
(* number bounds the references minted.                                    *)
(***************************************************************************)
EXTENDS RefCounter, TLC

\* A project created after the seed: no counter row until the first case.
\* 'run' was seeded; 'defect' is not in the ENUM of seed/insert.ts:205.
KindsAll == {"case", "run", "defect"}
FirstAll == "case" :> None @@ "run" :> 5 @@ "defect" :> None

Symmetry == Permutations(Requests)
=============================================================================
