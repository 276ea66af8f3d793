----------------------------- MODULE AuditedSet -----------------------------
(***************************************************************************)
(* What linking promises (RequirementService.ts: "Idempotent ... Audits    *)
(* requirement.linked only when a new row is actually inserted"): a set    *)
(* that only grows, and a log with one row for each element added to it,   *)
(* in the order of the additions.                                          *)
(***************************************************************************)
EXTENDS Sequences

CONSTANTS
    Elements,      \* the pairs that may be linked
    Given          \* those linked before the log begins

VARIABLES
    members,       \* the pairs linked
    log            \* the pairs logged, in order

Add(e) ==
    /\ e \notin members
    /\ members' = members \cup {e}
    /\ log' = Append(log, e)

Init == members = Given /\ log = <<>>

Spec == Init /\ [][\E e \in Elements : Add(e)]_<<members, log>>
=============================================================================
