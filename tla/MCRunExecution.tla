--------------------------- MODULE MCRunExecution ---------------------------
(***************************************************************************)
(* Instances of RunExecution for TLC.  Handlers are one-shot, so the       *)
(* number of Requests bounds every behaviour; requests are symmetric.      *)
(***************************************************************************)
EXTENDS RunExecution, TLC

CONSTANTS n1, n2, c1, t1, viewer, tester, admin

\* One case with one step.  With a second, empty run a request may name the
\* case through the wrong one.
RunOfOne == c1 :> n1
CaseOfOne == t1 :> c1

LevelOf == viewer :> 1 @@ tester :> 2 @@ admin :> 3

\* A status may be set to each value, or left out of a metadata change.
P(s, d) == [status |-> s, title |-> Absent, due |-> d]
PatchesAll == {P("sealed", FALSE), P("active", FALSE), P("archived", FALSE),
               P(Absent, TRUE)}

Symmetry == Permutations(Requests)
=============================================================================
