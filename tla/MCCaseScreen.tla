---------------------------- MODULE MCCaseScreen ----------------------------
(***************************************************************************)
(* An instance of CaseScreen for TLC.  Flows are one-shot, so their number *)
(* bounds every behaviour; those of the browser are symmetric.             *)
(***************************************************************************)
EXTENDS CaseScreen, TLC

CONSTANTS c1, g1, q1, f1, f2, a1

FiledIn == c1 :> g1

Symmetry == Permutations({f1, f2})
=============================================================================
