---------------------------- MODULE MCRunScreen -----------------------------
(***************************************************************************)
(* An instance of RunScreen for TLC.  Flows are one-shot, so their number  *)
(* bounds every behaviour; those of one owner are symmetric.               *)
(***************************************************************************)
EXTENDS RunScreen, TLC

CONSTANTS b1, f1, f2, a1, r1, d1, c1, c2

CasesOfRun == r1 :> {c1, c2}
LinkOf == d1 :> <<r1, c1>>
OwnerOf == f1 :> b1 @@ f2 :> b1 @@ a1 :> None

Symmetry == Permutations({f1, f2})
=============================================================================
