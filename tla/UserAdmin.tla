------------------------------ MODULE UserAdmin ------------------------------
(***************************************************************************)
(* Who may change users and project roles, while both change.              *)
(*                                                                         *)
(* UserService.updateUser and createUser, and ProjectService.              *)
(* assignProjectRole, check the actor, then the target, with one SELECT    *)
(* each, and write one row; no two statements share a transaction.  The    *)
(* guard of the last active admin is one of those SELECTs.                 *)
(*                                                                         *)
(* One organisation and one project are modelled.  A user is its email,    *)
(* which is unique; users are deactivated and never deleted.               *)
(***************************************************************************)
EXTENDS Naturals

CONSTANTS
    Emails,        \* emails, of users present and to be created
    Handlers,      \* one handler invocation each
    Patches,       \* bodies of PATCH /users/:id a client may send
    NoRow,         \* no row
    Absent         \* a field left out of a patch

GlobalRoles == {"super_admin", "admin", "contributor", "viewer"}
ProjectRoles == {"admin", "contributor", "viewer"}
AdminRoles == {"super_admin", "admin"}

Patch == [role: {Absent} \cup GlobalRoles, active: {Absent} \cup BOOLEAN]

UserRow == [role: GlobalRoles, active: BOOLEAN]
GrantRow == [role: ProjectRoles, by: Emails]

ASSUME AdminAssumption ==
    /\ Patches \subseteq Patch
    /\ Absent \notin GlobalRoles
    /\ Absent \notin BOOLEAN
    /\ NoRow \notin UserRow
    /\ NoRow \notin GrantRow

VARIABLES
    user,          \* users: global_role and is_active
    grant,         \* project_roles of the project: role and granted_by
    handler,       \* what each handler invocation knows so far
    writes,        \* history: how many handlers have written
    held           \* history: users that have been able to administer the project

adminVars == <<user, grant, handler, writes, held>>

Unsent == [op |-> "none", pc |-> "idle"]
Settled == [op |-> "none", pc |-> "settled"]

\* since: how many handlers had written when the actor was checked.
UpdateRequest ==
    [op: {"update"}, pc: {"load target", "count admins", "write"},
     actor: Emails, target: Emails, patch: Patches, since: Nat]
CreateRequest ==
    [op: {"create"}, pc: {"write"}, actor: Emails, target: Emails,
     role: GlobalRoles, since: Nat]
AssignRequest ==
    [op: {"assign"}, pc: {"load role", "write"}, actor: Emails, target: Emails,
     role: ProjectRoles, since: Nat]

AnyRequest ==
    {Unsent, Settled} \cup UpdateRequest \cup CreateRequest \cup AssignRequest

AdminTypeOK ==
    /\ user \in [Emails -> {NoRow} \cup UserRow]
    /\ grant \in [Emails -> {NoRow} \cup GrantRow]
    /\ handler \in [Handlers -> AnyRequest]
    /\ writes \in Nat
    /\ held \in SUBSET Emails

-----------------------------------------------------------------------------
(* Permissions *)

IsActive(u) == user[u] # NoRow /\ user[u].active
IsGlobalAdmin(u) == user[u] # NoRow /\ user[u].role \in AdminRoles
ActiveAdmins == {u \in Emails : IsActive(u) /\ IsGlobalAdmin(u)}

\* Mutant: any role in the project will do.
HasAdminGrantAny(u) == grant[u] # NoRow

\* The second SELECT of assertMinProjectRole, for minRole 'admin'.
HasAdminGrant(u) == grant[u] # NoRow /\ grant[u].role = "admin"

\* Those with an effective role of admin or above, active or not.
Administrators ==
    {u \in Emails : \/ IsGlobalAdmin(u)
                    \/ grant[u] # NoRow /\ grant[u].role = "admin"}

\* Users as seeded, one of them an admin; no project role yet.
AdminInit ==
    /\ user \in [Emails -> {NoRow} \cup UserRow]
    /\ ActiveAdmins # {}
    /\ grant = [u \in Emails |-> NoRow]
    /\ handler = [r \in Handlers |-> Unsent]
    /\ writes = 0
    /\ held = Administrators

\* What every write leaves in the history.
Record ==
    /\ writes' = writes + 1
    /\ held' = held \cup Administrators'

-----------------------------------------------------------------------------
(* UserService.updateUser *)

\* assertGlobalAdmin throws unless the actor is an active admin.
SubmitUpdate(r) ==
    /\ handler[r] = Unsent
    /\ \E u, t \in Emails, p \in Patches :
          handler' = [handler EXCEPT ![r] =
                        IF u \in ActiveAdmins
                        THEN [op |-> "update", pc |-> "load target", actor |-> u,
                              target |-> t, patch |-> p, since |-> writes]
                        ELSE Settled]
    /\ UNCHANGED <<user, grant, writes, held>>

\* Mutant: deactivation is not guarded.
IsDemotingOrDeactivatingRole(p) == p.role # Absent /\ p.role \notin AdminRoles

IsDemotingOrDeactivating(p) ==
    \/ p.role # Absent /\ p.role \notin AdminRoles
    \/ p.active = FALSE

\* USER_NOT_FOUND; only an admin losing the role or the account is counted.
LoadTarget(r) ==
    /\ handler[r].op = "update"
    /\ handler[r].pc = "load target"
    /\ LET t == handler[r].target IN
       handler' = [handler EXCEPT ![r] =
                     IF user[t] = NoRow THEN Settled
                     ELSE IF IsDemotingOrDeactivating(handler[r].patch) /\ IsGlobalAdmin(t)
                     THEN [handler[r] EXCEPT !.pc = "count admins"]
                     ELSE [handler[r] EXCEPT !.pc = "write"]]
    /\ UNCHANGED <<user, grant, writes, held>>

\* LAST_ADMIN when countOtherActiveAdmins finds none.
CountOtherActiveAdmins(r) ==
    /\ handler[r].op = "update"
    /\ handler[r].pc = "count admins"
    /\ handler' = [handler EXCEPT ![r] =
                     IF ActiveAdmins \ {handler[r].target} = {} THEN Settled
                     ELSE [handler[r] EXCEPT !.pc = "write"]]
    /\ UNCHANGED <<user, grant, writes, held>>

\* Mutant: a flag left out is written as NULL.
PatchedAbsent(row, p) ==
    [role |-> IF p.role = Absent THEN row.role ELSE p.role,
     active |-> p.active]

Patched(row, p) ==
    [role |-> IF p.role = Absent THEN row.role ELSE p.role,
     active |-> IF p.active = Absent THEN row.active ELSE p.active]

WriteUpdate(r) ==
    /\ handler[r].op = "update"
    /\ handler[r].pc = "write"
    /\ user' = [user EXCEPT ![handler[r].target] = Patched(@, handler[r].patch)]
    /\ handler' = [handler EXCEPT ![r] = Settled]
    /\ UNCHANGED grant
    /\ Record

-----------------------------------------------------------------------------
(* UserService.createUser *)

SubmitCreate(r) ==
    /\ handler[r] = Unsent
    /\ \E u, t \in Emails, role \in GlobalRoles :
          handler' = [handler EXCEPT ![r] =
                        IF u \in ActiveAdmins
                        THEN [op |-> "create", pc |-> "write", actor |-> u,
                              target |-> t, role |-> role, since |-> writes]
                        ELSE Settled]
    /\ UNCHANGED <<user, grant, writes, held>>

\* UNIQUE (email): EMAIL_TAKEN.
WriteCreate(r) ==
    /\ handler[r].op = "create"
    /\ UNCHANGED grant
    /\ \/ /\ user[handler[r].target] = NoRow
          /\ user' = [user EXCEPT ![handler[r].target] =
                        [role |-> handler[r].role, active |-> TRUE]]
          /\ Record
       \/ /\ user[handler[r].target] # NoRow
          /\ UNCHANGED <<user, writes, held>>
    /\ handler' = [handler EXCEPT ![r] = Settled]

-----------------------------------------------------------------------------
(* ProjectService.assignProjectRole *)

\* assertMinProjectRole reads the user, and the project role only when the
\* global role does not suffice.
SubmitAssign(r) ==
    /\ handler[r] = Unsent
    /\ \E u, t \in Emails, role \in ProjectRoles :
          handler' = [handler EXCEPT ![r] =
                        IF IsActive(u)
                        THEN [op |-> "assign",
                              pc |-> IF IsGlobalAdmin(u) THEN "write" ELSE "load role",
                              actor |-> u, target |-> t, role |-> role,
                              since |-> writes]
                        ELSE Settled]
    /\ UNCHANGED <<user, grant, writes, held>>

LoadRole(r) ==
    /\ handler[r].op = "assign"
    /\ handler[r].pc = "load role"
    /\ handler' = [handler EXCEPT ![r] =
                     IF HasAdminGrant(handler[r].actor)
                     THEN [handler[r] EXCEPT !.pc = "write"] ELSE Settled]
    /\ UNCHANGED <<user, grant, writes, held>>

\* INSERT ... ON DUPLICATE KEY UPDATE; the foreign key refuses an unknown user.
WriteAssign(r) ==
    /\ handler[r].op = "assign"
    /\ handler[r].pc = "write"
    /\ UNCHANGED user
    /\ \/ /\ user[handler[r].target] # NoRow
          /\ grant' = [grant EXCEPT ![handler[r].target] =
                         [role |-> handler[r].role, by |-> handler[r].actor]]
          /\ Record
       \/ /\ user[handler[r].target] = NoRow
          /\ UNCHANGED <<grant, writes, held>>
    /\ handler' = [handler EXCEPT ![r] = Settled]

-----------------------------------------------------------------------------
\* A failed statement, or a crash of the server between two of them.
Fail(r) ==
    /\ handler[r] \notin {Unsent, Settled}
    /\ handler' = [handler EXCEPT ![r] = Settled]
    /\ UNCHANGED <<user, grant, writes, held>>

AdminNext ==
    \E r \in Handlers :
        \/ SubmitUpdate(r) \/ LoadTarget(r) \/ CountOtherActiveAdmins(r)
        \/ WriteUpdate(r)
        \/ SubmitCreate(r) \/ WriteCreate(r)
        \/ SubmitAssign(r) \/ LoadRole(r) \/ WriteAssign(r)
        \/ Fail(r)

AdminSpec == AdminInit /\ [][AdminNext]_adminVars

-----------------------------------------------------------------------------
(* Properties *)

\* The last active admin is lost only to a race: the write that loses it had
\* its actor checked before some other write.  One handler at a time, the
\* guard of UserService.ts:182-195 is right.
AdminsLostOnlyByRace ==
    [][ActiveAdmins # {} /\ ActiveAdmins' = {} =>
          \E r \in Handlers :
             /\ handler[r].op = "update" /\ handler[r].pc = "write"
             /\ handler[r].since < writes
             /\ handler'[r] = Settled]_adminVars

\* "Cannot demote or deactivate the last active admin." (UserService.ts:190,
\* LAST_ADMIN in FRONTEND_CONTRACTS.md:193): some active admin is left.
AdminLeft == ActiveAdmins # {}

\* No active admin, and no handler of a former one in flight.
LockedOut ==
    /\ ActiveAdmins = {}
    /\ \A r \in Handlers : handler[r].op \notin {"update", "create"}

\* Such an organisation stays as it is: nobody may change a user again, and
\* project admins, who stay active, cannot repair it (UserService.ts:93).
LockoutLasts == [][LockedOut => LockedOut']_adminVars

\* Every project role goes back to somebody who could administer the project,
\* although the two reads that check it see two states
\* (assert-min-role.ts:44-66) and the write sees a third.
GrantsTraceToAdmins ==
    \A u \in Emails : grant[u] # NoRow => grant[u].by \in held
=============================================================================
