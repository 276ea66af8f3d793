-------------------------- MODULE MCClientRecording --------------------------
(***************************************************************************)
(* Instances of ClientRecording for TLC.  Calls are one-shot, so their     *)
(* number bounds the writes and syncs.                                     *)
(***************************************************************************)
EXTENDS ClientRecording, TLC

Symmetry == Permutations(Calls)
=============================================================================
