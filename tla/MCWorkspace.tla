---------------------------- MODULE MCWorkspace ----------------------------
(***************************************************************************)
(* An instance of Workspace for TLC.  Every flow runs once, so their       *)
(* number bounds every behaviour.  A new project may ask for the slug the  *)
(* first copy of the Demo Project takes.                                   *)
(***************************************************************************)
EXTENDS Workspace

CONSTANTS dp, e1, r1, c1, c2, w1, w2

TypedSlugs == {<<dp, 2>>}
=============================================================================
