--------------------------- MODULE MCCaseLibrary ---------------------------
(***************************************************************************)
(* An instance of CaseLibrary for TLC.  Handlers are one-shot, so the      *)
(* number of Requests bounds every behaviour; requests are symmetric.      *)
(***************************************************************************)
EXTENDS CaseLibrary, TLC

CONSTANTS f1, c1, q1, viewer, tester

StepsOfSeed == c1 :> 1
LinksOfSeed == {}
LevelOf == viewer :> 1 @@ tester :> 2

\* A form may keep the step, type another one after it, leave both out or send
\* no steps; it may move the case, name it and take it out of the archive.
E(f, t, a, s) == [folder |-> f, title |-> t, archived |-> a, steps |-> s]
EditsSome == {E(None, TRUE, Absent, <<1, 0>>), E(f1, TRUE, Absent, <<0>>),
              E(f1, FALSE, FALSE, Absent), E(Absent, FALSE, Absent, <<>>)}

Symmetry == Permutations(Requests)
=============================================================================
