---------------------------- MODULE RefAllocator ----------------------------
(***************************************************************************)
(* What reference generation promises (TestRunService-design.md: "No       *)
(* duplicate refs. No gaps (assuming no rollbacks). Correct                *)
(* serialisation."): each kind of entity gets consecutive numbers, in the  *)
(* order in which the entities come to exist.                              *)
(***************************************************************************)
EXTENDS Naturals, Sequences

CONSTANTS
    Kinds,         \* kinds of entity that carry a reference
    Base           \* the number each kind starts from

VARIABLE issued    \* the numbers of each kind, in the order of their commits

Next(k) == Base[k] + Len(issued[k])

Issue(k) == issued' = [issued EXCEPT ![k] = Append(@, Next(k))]

Init == issued = [k \in Kinds |-> <<>>]

Spec == Init /\ [][\E k \in Kinds : Issue(k)]_issued
=============================================================================
