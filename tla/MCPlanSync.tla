----------------------------- MODULE MCPlanSync -----------------------------
(***************************************************************************)
(* An instance of PlanSync for TLC.  Flows are one-shot, so their number   *)
(* bounds every behaviour; they are symmetric.                             *)
(***************************************************************************)
EXTENDS PlanSync, TLC

CONSTANTS b1, f1, f2, f3, p1, c1, c2, d1, blank, k1

\* c1 is in d1 and c2 is nowhere; k1 holds of c2 only.
ParentOf == d1 :> None
CaseFolder == c1 :> d1 @@ c2 :> None
OwnerOf == [f \in Flows |-> b1]
HoldsOf == blank :> {} @@ k1 :> {c2}

Symmetry == Permutations(Flows)
=============================================================================
