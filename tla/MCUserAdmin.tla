----------------------------- MODULE MCUserAdmin -----------------------------
(***************************************************************************)
(* Instances of UserAdmin for TLC.  Handlers are one-shot, so their number *)
(* bounds every behaviour.                                                 *)
(***************************************************************************)
EXTENDS UserAdmin, TLC

\* A demotion, a promotion, a deactivation and a reactivation.
PatchesAll == {[role |-> "viewer", active |-> Absent],
               [role |-> "admin", active |-> Absent],
               [role |-> Absent, active |-> FALSE],
               [role |-> Absent, active |-> TRUE]}

Symmetry == Permutations(Handlers) \cup Permutations(Emails)
=============================================================================
