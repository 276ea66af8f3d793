---------------------------- MODULE MCOrgScreen ----------------------------
(***************************************************************************)
(* An instance of OrgScreen for TLC.  Of the commands, the changes of      *)
(* others and the page loads any two happen, in every way.                 *)
(***************************************************************************)
EXTENDS OrgScreen

CONSTANTS u1, u2, r1, r2, k1, f1, f2, d0, d1, d2, b1, s1

UsersThere == {
    [id |-> u1, name |-> "Shaun", email |-> "Shaun", global |-> "admin", active |-> TRUE],
    [id |-> u2, name |-> "Elena", email |-> "Elena", global |-> "admin", active |-> TRUE]}
RolesThere == {[id |-> r1, name |-> "Owner", builtIn |-> TRUE],
               [id |-> r2, name |-> "Auditor", builtIn |-> FALSE]}
KeysThere == {[id |-> k1, by |-> None]}

UsersMade == <<
    [id |-> d0, name |-> "Demo", email |-> "Demo", role |-> "Owner", disabled |-> FALSE],
    [id |-> d1, name |-> "Elena", email |-> "Elena", role |-> "Editor", disabled |-> FALSE],
    [id |-> d2, name |-> "Priya", email |-> "Priya", role |-> "Viewer", disabled |-> FALSE]>>
RolesMade == <<[id |-> b1, name |-> "Owner", builtIn |-> TRUE, users |-> 0]>>
TypedUsers == {
    [name |-> "Tom", email |-> "Tom", role |-> "Viewer", by |-> None],
    [name |-> "Elena", email |-> "Tom", role |-> "Administrator", by |-> None]}

KeysMade == <<[id |-> s1, by |-> d0]>>
=============================================================================
