----------------------------- MODULE OrgScreen -----------------------------
(***************************************************************************)
(* The administration screens: the users, role definitions and API keys a  *)
(* browser shows, the person it acts as, and the rows they stand for       *)
(* (admin-reducer, the SYNC_REAL_* reducers and admin functions of         *)
(* FreshProvider, AdminSettingsService, the user, role and key clients).   *)
(*                                                                         *)
(* The screen starts from made-up rows with ids of its own and replaces    *)
(* them, one list at a time, by what the server answers.  Every later      *)
(* change waits for the server, when the row it is about has an id of the  *)
(* server; it is made here alone otherwise.                                *)
(*                                                                         *)
(* One browser; other administrators change the rows too.  What a command  *)
(* reads on the server is one step here and what it writes another;        *)
(* UserAdmin takes the reads of the commands about users apart.            *)
(***************************************************************************)
EXTENDS Naturals, FiniteSets, SequencesExt

CONSTANTS
    SeedUsers, SeedRoles, SeedKeys,    \* rows of the server at the start
    Session,       \* the user who is logged in
    MadeUsers, MadeRoles, MadeKeys,    \* rows of the screen at the start
    Demo,          \* the id of "Demo User", whom the server does not know
    Calls,         \* one command, change by another administrator, or page load each
    People, RoleNames,     \* names, and e-mails, of users; names of roles
    Typed,         \* what may be typed for a user: name, e-mail and role
    TypedNames,    \* what may be typed for a role
    None

Lists == {"users", "roles", "keys"}
Granular == {"Owner", "Administrator", "Editor", "Viewer"}
Global == {"super_admin", "admin", "contributor", "viewer"}

\* Ids the server gave, and those of rows made here until they have one.
RealIds == Calls \cup {r.id : r \in SeedUsers \cup SeedRoles \cup SeedKeys}
Temp(f) == <<"local", f>>
MadeIds == {m.id : m \in Range(MadeUsers) \cup Range(MadeRoles) \cup Range(MadeKeys)}
Ids == RealIds \cup MadeIds \cup {Temp(f) : f \in Calls}

VARIABLES
    db,            \* users, role_definitions and api_keys
    audit,         \* audit_log, of roles and keys
    screen,        \* the rows shown, in order
    actor,         \* currentActorUserId
    backend,       \* the browser knows a project of the server
    load,          \* how far each list is loaded
    call,          \* how far each command is
    unsure         \* history: rows the screen may be wrong about

vars == <<db, audit, screen, actor, backend, load, call, unsure>>

-----------------------------------------------------------------------------
(* Rows *)

UserRow == [id : RealIds, name : People, email : People, global : Global, active : BOOLEAN]
ShownUser == [id : Ids, name : People, email : People, role : Granular, disabled : BOOLEAN]
RoleRow == [id : RealIds, name : RoleNames, builtIn : BOOLEAN]
ShownRole == [id : Ids, name : RoleNames, builtIn : BOOLEAN, users : Nat]
KeyRow == [id : RealIds, by : RealIds \cup {None}]
ShownKey == [id : Ids, by : Ids]

\* The rows at the start; an id is of one row only, made up here or of the server.
ASSUME SeedAssumption ==
    /\ IsFiniteSet(SeedUsers) /\ SeedUsers \subseteq UserRow
    /\ IsFiniteSet(SeedRoles) /\ SeedRoles \subseteq RoleRow
    /\ IsFiniteSet(SeedKeys) /\ SeedKeys \subseteq KeyRow
    /\ \A u, v \in SeedUsers : u.email = v.email \/ u.id = v.id => u = v
    /\ \A r, q \in SeedRoles : r.name = q.name \/ r.id = q.id => r = q
    /\ \A k, h \in SeedKeys : k.id = h.id => k = h
ASSUME MadeAssumption ==
    /\ MadeUsers \in Seq(ShownUser)
    /\ MadeRoles \in Seq(ShownRole)
    /\ MadeKeys \in Seq(ShownKey)
    /\ \E k \in DOMAIN MadeUsers : MadeUsers[k].id = Demo
ASSUME TypedAssumption ==
    /\ Typed \subseteq [name : People, email : People, role : Granular, by : {None}]
    /\ TypedNames \subseteq RoleNames
ASSUME IdsAssumption ==
    /\ Calls \cap {r.id : r \in SeedUsers \cup SeedRoles \cup SeedKeys} = {}
    /\ MadeIds \cap RealIds = {}
    /\ {Temp(f) : f \in Calls} \cap (MadeIds \cup RealIds) = {}
    /\ None \notin RealIds

RoleToGlobal(role) ==
    CASE role = "Owner" -> "super_admin"
      [] role = "Administrator" -> "admin"
      [] role = "Viewer" -> "viewer"
      [] OTHER -> "contributor"

GlobalToRole(global) ==
    CASE global = "super_admin" -> "Owner"
      [] global = "admin" -> "Administrator"
      [] global = "viewer" -> "Viewer"
      [] OTHER -> "Editor"

AdminGlobalRoles == {"super_admin", "admin"}

IdsOf(s) == {r.id : r \in Range(s)}
RowOf(s, i) == s[SelectInSeq(s, LAMBDA r : r.id = i)]

\* The elements of s at some of its positions, in order.
Nth(at, n) == CHOOSE k \in at : Cardinality({m \in at : m <= k}) = n
Only(s, at) == [n \in 1..Cardinality(at) |-> s[Nth(at, n)]]

Without(s, i) == Only(s, {k \in DOMAIN s : s[k].id # i})
Changed(s, i, Op(_)) == [k \in DOMAIN s |-> IF s[k].id = i THEN Op(s[k]) ELSE s[k]]

\* syncRoleUserCounts: disabled users are not counted.
CountedAs(users, name) ==
    Cardinality({k \in DOMAIN users : users[k].role = name /\ ~users[k].disabled})
SyncRoleUserCounts(users, roles) ==
    [k \in DOMAIN roles |-> [roles[k] EXCEPT !.users = CountedAs(users, roles[k].name)]]

\* withUsers: the roles are counted with every change of the users.
WithUsers(users) ==
    screen' = [screen EXCEPT !.users = users,
                             !.roles = SyncRoleUserCounts(users, screen.roles)]

-----------------------------------------------------------------------------
(* Who may do what, on the screen and on the server *)

Acting == IF actor \in IdsOf(screen.users) THEN RowOf(screen.users, actor)
                                           ELSE screen.users[1]

Managers == {"Owner", "Administrator"}
CanManage == Acting.role \in Managers

EffectiveAdmins == {k \in DOMAIN screen.users :
                      screen.users[k].role \in Managers /\ ~screen.users[k].disabled}
IsFinalEffectiveAdmin(i) ==
    /\ \E k \in EffectiveAdmins : screen.users[k].id = i
    /\ Cardinality(EffectiveAdmins) = 1

IsActiveAdmin(u) == u.active /\ u.global \in AdminGlobalRoles
AssertGlobalAdmin == \E u \in db.users : u.id = Session /\ IsActiveAdmin(u)
OtherAdmins(i) == {u \in db.users : u.id # i /\ IsActiveAdmin(u)}

-----------------------------------------------------------------------------
(* Commands *)

Ops == [users |-> {"inviteUser", "updateUser", "disableUser", "reactivateUser"},
        roles |-> {"createRole", "updateRole", "deleteRole"},
        keys  |-> {"createApiKey", "deleteApiKey"}]
ListOf(op) == CHOOSE l \in Lists : op \in Ops[l]

\* What is typed, or chosen, for a row.
NoRow == [name |-> None, email |-> None, role |-> None, by |-> None]
Call(op, i, row, pc) == [op |-> op, id |-> i, row |-> row, pc |-> pc, ours |-> TRUE]
Idle == Call(None, None, NoRow, "idle")
Ended == Call(None, None, NoRow, "ended")

UnderWay == {"sent", "checked", "written", "done"}
CallsOn(l, pcs) ==
    {call[f].id : f \in {g \in Calls : call[g].pc \in pcs /\ ListOf(call[g].op) = l}}
InFlight(l) == CallsOn(l, UnderWay)
Unsure(l, ids) == unsure' = [unsure EXCEPT ![l] = @ \cup ids]
Loading(l) == load[l].pc \in {"asked", "read"}

\* A command waits for the server; the screen may be wrong about a row that two
\* are about, or that is loaded meanwhile.
Send(f, op, i, row) ==
    LET l == ListOf(op) IN
    /\ call' = [call EXCEPT ![f] = Call(op, i, row, "sent")]
    /\ Unsure(l, IF i \in InFlight(l) \/ Loading(l) THEN {i} ELSE {})
    /\ UNCHANGED <<screen, actor>>

\* One about a row without an id of the server is done here.
Done(f) == call' = [call EXCEPT ![f] = Ended] /\ UNCHANGED unsure
Sends(f, op, i, row, Here) ==
    IF i \in RealIds THEN Send(f, op, i, row) ELSE Done(f) /\ Here

Outside == <<db, audit, backend, load>>

-----------------------------------------------------------------------------
(* The reducers *)

Show(l, s) == screen' = [screen EXCEPT ![l] = s]

ShowUpdatedUser(i, row) ==
    /\ IF i \in IdsOf(screen.users)
       THEN WithUsers(Changed(screen.users, i, LAMBDA u :
                [u EXCEPT !.name = row.name, !.email = row.email, !.role = row.role]))
       ELSE UNCHANGED screen
    /\ UNCHANGED actor

Disableable(i) ==
    /\ i \in IdsOf(screen.users)
    /\ ~RowOf(screen.users, i).disabled
    /\ ~IsFinalEffectiveAdmin(i)
ShowDisabledUser(i) ==
    IF Disableable(i)
    THEN LET users == Changed(screen.users, i, LAMBDA u : [u EXCEPT !.disabled = TRUE])
             first == SelectInSeq(users, LAMBDA u : ~u.disabled)
         IN  /\ WithUsers(users)
             /\ actor' = IF actor = i /\ first # 0 THEN users[first].id ELSE actor
    ELSE UNCHANGED <<screen, actor>>

ShowReactivatedUser(i) ==
    /\ IF i \in IdsOf(screen.users) /\ RowOf(screen.users, i).disabled
       THEN WithUsers(Changed(screen.users, i, LAMBDA u : [u EXCEPT !.disabled = FALSE]))
       ELSE UNCHANGED screen
    /\ UNCHANGED actor

\* RECONCILE_ADMIN_USER: the first row with the e-mail takes the id, if it has none.
Adopted(users, email, i) ==
    LET k == SelectInSeq(users, LAMBDA u : u.email = email)
    IN  IF users[k].id \in RealIds THEN users
        ELSE Changed(users, users[k].id, LAMBDA u : [u EXCEPT !.id = i])
Adopting(users, email, i) ==
    LET k == SelectInSeq(users, LAMBDA u : u.email = email)
    IN  IF users[k].id \notin RealIds /\ actor = users[k].id THEN i ELSE actor

ShowInvitedUser(f, row) ==
    LET users == Append(screen.users,
                    [id |-> Temp(f), name |-> row.name, email |-> row.email,
                     role |-> row.role, disabled |-> FALSE])
    IN  /\ WithUsers(Adopted(users, row.email, f))
        /\ actor' = Adopting(users, row.email, f)

ShowCreatedRole(i, row) ==
    /\ Show("roles", Append(screen.roles,
                [id |-> i, name |-> row.name, builtIn |-> FALSE, users |-> 0]))
    /\ UNCHANGED actor
ShowUpdatedRole(i, row) ==
    /\ Show("roles", Changed(screen.roles, i, LAMBDA r :
                IF r.builtIn THEN r ELSE [r EXCEPT !.name = row.name]))
    /\ UNCHANGED actor
ShowDeletedRole(i) ==
    /\ Show("roles", Only(screen.roles, {k \in DOMAIN screen.roles :
                screen.roles[k].id # i \/ screen.roles[k].builtIn}))
    /\ UNCHANGED actor

ShowCreatedKey(i, by) ==
    /\ Show("keys", <<[id |-> i, by |-> by]>> \o screen.keys)
    /\ UNCHANGED actor
ShowDeletedKey(i) ==
    /\ Show("keys", Without(screen.keys, i))
    /\ UNCHANGED actor

-----------------------------------------------------------------------------
(* What the person at the browser does *)

\* A form covers the rest of the page.
Free(f) == call[f].pc = "idle" /\ \A g \in Calls : call[g].pc # "typing"

\* The rows the pages offer a button for.
UsersOffered == IF CanManage THEN IdsOf(screen.users) ELSE {}
DisableOffered == {i \in UsersOffered :
                     ~RowOf(screen.users, i).disabled /\ ~IsFinalEffectiveAdmin(i)}
ReactivateOffered == {i \in UsersOffered : RowOf(screen.users, i).disabled}
RolesOffered == {i \in IdsOf(screen.roles) : CanManage /\ ~RowOf(screen.roles, i).builtIn}
KeysOffered == IdsOf(screen.keys)
ActorsOffered == {u.id : u \in {v \in Range(screen.users) : ~v.disabled}}

\* ActorSwitcher, setCurrentActor
SwitchActor(f) ==
    /\ Free(f)
    /\ actor' \in ActorsOffered
    /\ Done(f)
    /\ UNCHANGED <<screen, Outside>>

CreateApiKey(f) ==
    /\ Free(f)
    /\ IF backend
       THEN Send(f, "createApiKey", f,
                 [NoRow EXCEPT !.by = IF actor \in RealIds THEN actor ELSE None])
       ELSE Done(f) /\ ShowCreatedKey(Temp(f), actor)
    /\ UNCHANGED Outside

DeleteApiKey(f) ==
    /\ Free(f)
    /\ \E i \in KeysOffered :
         Sends(f, "deleteApiKey", i, NoRow, ShowDeletedKey(i))
    /\ UNCHANGED Outside

InviteUser(f) ==
    /\ Free(f) /\ CanManage
    /\ \E row \in Typed : Send(f, "inviteUser", f, row)
    /\ UNCHANGED Outside

\* The form keeps the row it was opened on.
OpenEdit(f) ==
    /\ Free(f)
    /\ \E i \in UsersOffered :
         call' = [call EXCEPT ![f] = Call("updateUser", i, NoRow, "typing")]
    /\ UNCHANGED <<screen, actor, unsure, Outside>>
OpenRoleEdit(f) ==
    /\ Free(f)
    /\ \E i \in RolesOffered :
         call' = [call EXCEPT ![f] = Call("updateRole", i, NoRow, "typing")]
    /\ UNCHANGED <<screen, actor, unsure, Outside>>

UpdateUser(f) ==
    /\ call[f].pc = "typing" /\ call[f].op = "updateUser"
    /\ \E row \in Typed :
         Sends(f, "updateUser", call[f].id, row, ShowUpdatedUser(call[f].id, row))
    /\ UNCHANGED Outside

DisableUser(f) ==
    /\ Free(f)
    /\ \E i \in DisableOffered :
         Sends(f, "disableUser", i, NoRow, ShowDisabledUser(i))
    /\ UNCHANGED Outside

ReactivateUser(f) ==
    /\ Free(f)
    /\ \E i \in ReactivateOffered :
         Sends(f, "reactivateUser", i, NoRow, ShowReactivatedUser(i))
    /\ UNCHANGED Outside

CreateRole(f) ==
    /\ Free(f) /\ CanManage
    /\ \E name \in TypedNames :
         LET row == [NoRow EXCEPT !.name = name] IN
         IF backend THEN Send(f, "createRole", f, row)
                    ELSE Done(f) /\ ShowCreatedRole(Temp(f), row)
    /\ UNCHANGED Outside

UpdateRole(f) ==
    /\ call[f].pc = "typing" /\ call[f].op = "updateRole"
    /\ \E name \in TypedNames :
         LET row == [NoRow EXCEPT !.name = name] IN
         Sends(f, "updateRole", call[f].id, row, ShowUpdatedRole(call[f].id, row))
    /\ UNCHANGED Outside

DeleteRole(f) ==
    /\ Free(f)
    /\ \E i \in RolesOffered :
         Sends(f, "deleteRole", i, NoRow, ShowDeletedRole(i))
    /\ UNCHANGED Outside

-----------------------------------------------------------------------------
(* The server *)

Kept == <<screen, actor, backend, load>>

\* A command the browser no longer waits for ends when the server is done with it.
Moved(f, pc) ==
    call' = [call EXCEPT ![f] = IF pc \in {"done", "refused"} /\ ~@.ours THEN Ended
                                ELSE [@ EXCEPT !.pc = pc]]

Put(l, rows) == db' = [db EXCEPT ![l] = rows]
Edited(rows, i, Op(_)) == {IF r.id = i THEN Op(r) ELSE r : r \in rows}
Exists(l, i) == \E r \in db[l] : r.id = i
NameTaken(name, i) == \E r \in db.roles : r.name = name /\ r.id # i
EmailTakenNever(email) == FALSE     \* Mutant: e-mails are not unique.
EmailTaken(email) == \E u \in db.users : u.email = email

\* What createUser and updateUser read before they write.
Demoting(op, row) ==
    \/ op = "disableUser"
    \/ op = "updateUser" /\ RoleToGlobal(row.role) \notin AdminGlobalRoles
UserRefused(op, i, row) ==
    \/ ~AssertGlobalAdmin
    \/ op # "inviteUser" /\ ~Exists("users", i)
    \/ /\ Demoting(op, row) /\ OtherAdmins(i) = {}
       /\ \E u \in db.users : u.id = i /\ u.global \in AdminGlobalRoles

Invited(i, row) ==
    [id |-> i, name |-> row.name, email |-> row.email,
     global |-> RoleToGlobal(row.role), active |-> TRUE]
Patched(op, row, u) ==
    CASE op = "updateUser"     -> [u EXCEPT !.name = row.name, !.global = RoleToGlobal(row.role)]
      [] op = "disableUser"    -> [u EXCEPT !.active = FALSE]
      [] op = "reactivateUser" -> [u EXCEPT !.active = TRUE]

\* What createRoleDefinition, deleteApiKey and the others read.
Creates == {"createRole", "createApiKey"}
AdminRefused(op, i) ==
    LET l == ListOf(op) IN
    \/ ~AssertGlobalAdmin
    \/ op \notin Creates /\ ~\E r \in db[l] : r.id = i /\ (l = "roles" => ~r.builtIn)

Check(f) ==
    LET c == call[f] IN
    /\ c.pc = "sent"
    /\ Moved(f, IF \/ c.op \in Ops["users"] /\ UserRefused(c.op, c.id, c.row)
                   \/ c.op \notin Ops["users"] /\ AdminRefused(c.op, c.id)
                THEN "refused" ELSE "checked")
    /\ UNCHANGED <<db, audit, unsure, Kept>>

\* A second user of an e-mail is refused by the unique key; updateUser writes
\* whatever became of the administrators it counted.
WriteUser(f) ==
    LET c == call[f] IN
    /\ c.pc = "checked" /\ c.op \in Ops["users"]
    /\ IF c.op = "inviteUser" /\ EmailTaken(c.row.email)
       THEN Moved(f, "refused") /\ UNCHANGED db
       ELSE /\ Moved(f, "done")
            /\ Put("users", IF c.op = "inviteUser" THEN db.users \cup {Invited(c.id, c.row)}
                            ELSE Edited(db.users, c.id, LAMBDA u : Patched(c.op, c.row, u)))
    /\ UNCHANGED <<audit, unsure, Kept>>

\* Mutant: a duplicate is ignored and not refused.
WriteRoleIgnore(f) ==
    LET c == call[f] IN
    /\ c.pc = "checked" /\ ListOf(c.op) = "roles"
    /\ Moved(f, "written")
    /\ IF c.op # "deleteRole" /\ NameTaken(c.row.name, c.id)
       THEN UNCHANGED db
       ELSE Put("roles",
                 CASE c.op = "createRole" ->
                        db.roles \cup {[id |-> c.id, name |-> c.row.name, builtIn |-> FALSE]}
                   [] c.op = "updateRole" ->
                        Edited(db.roles, c.id, LAMBDA r : [r EXCEPT !.name = c.row.name])
                   [] c.op = "deleteRole" -> {r \in db.roles : r.id # c.id})
    /\ UNCHANGED <<audit, unsure, Kept>>

WriteRole(f) ==
    LET c == call[f] IN
    /\ c.pc = "checked" /\ ListOf(c.op) = "roles"
    /\ IF /\ c.op # "deleteRole" /\ NameTaken(c.row.name, c.id)
          /\ c.op = "updateRole" => Exists("roles", c.id)
       THEN Moved(f, "refused") /\ UNCHANGED db
       ELSE /\ Moved(f, "written")
            /\ Put("roles",
                 CASE c.op = "createRole" ->
                        db.roles \cup {[id |-> c.id, name |-> c.row.name, builtIn |-> FALSE]}
                   [] c.op = "updateRole" ->
                        Edited(db.roles, c.id, LAMBDA r : [r EXCEPT !.name = c.row.name])
                   [] c.op = "deleteRole" -> {r \in db.roles : r.id # c.id})
    /\ UNCHANGED <<audit, unsure, Kept>>

\* A key keeps its creator only if that is a user.
WriteKey(f) ==
    LET c == call[f] IN
    /\ c.pc = "checked" /\ ListOf(c.op) = "keys"
    /\ Moved(f, "written")
    /\ Put("keys",
         IF c.op = "createApiKey"
         THEN db.keys \cup {[id |-> c.id, by |-> IF Exists("users", c.row.by) THEN c.row.by
                                                                             ELSE None]}
         ELSE {k \in db.keys : k.id # c.id})
    /\ UNCHANGED <<audit, unsure, Kept>>

\* recordAudit, and the row read back: one deleted meanwhile is an error.
Logged(op) == CASE op \in Creates -> "created"
                [] op = "updateRole" -> "updated"
                [] OTHER -> "deleted"
Record(f) ==
    LET c == call[f]
        l == ListOf(c.op) IN
    /\ c.pc = "written"
    /\ audit' = audit \cup {<<Logged(c.op), c.id>>}
    /\ Moved(f, IF c.op \in {"updateRole", "createApiKey"} /\ ~Exists(l, c.id)
                THEN "refused" ELSE "done")
    /\ UNCHANGED <<db, unsure, Kept>>

\* The process stops between two statements.
Stop(f) ==
    LET c == call[f] IN
    /\ c.pc \in {"checked", "written"}
    /\ Moved(f, "refused")
    /\ Unsure(ListOf(c.op), {c.id})
    /\ UNCHANGED <<db, audit, Kept>>

\* One change by another administrator, or by another page of this one.
Other(f) ==
    /\ call[f].pc = "idle"
    /\ call' = [call EXCEPT ![f] = Ended]
    /\ \/ \E u \in db.users :
            /\ ~UserRefused("disableUser", u.id, NoRow)
            /\ Put("users", Edited(db.users, u.id, LAMBDA v : [v EXCEPT !.active = ~@]))
            /\ Unsure("users", {u.id})
            /\ UNCHANGED audit
       \/ \E row \in Typed :
            /\ ~EmailTaken(row.email)
            /\ Put("users", db.users \cup {Invited(f, row)})
            /\ Unsure("users", {f})
            /\ UNCHANGED audit
       \/ \E l \in {"roles", "keys"} : \E r \in db[l] :
            /\ l = "roles" => ~r.builtIn
            /\ Put(l, db[l] \ {r})
            /\ audit' = audit \cup {<<"deleted", r.id>>}
            /\ Unsure(l, {r.id})
    /\ UNCHANGED <<screen, actor, backend, load>>

-----------------------------------------------------------------------------
(* Answers *)

\* The screen does not take what was answered: RECONCILE_ADMIN_USER finds another
\* row with the e-mail of an invited user, which keeps its temporary id then (or
\* gives that row its own); admin/disableUser leaves the last administrator shown.
AnsweredInVain(c) ==
    \/ c.op = "inviteUser" /\ \E u \in Range(screen.users) : u.email = c.row.email
    \/ c.op = "disableUser" /\ IsFinalEffectiveAdmin(c.id)

\* The answer reaches the screen.
Answer(f) ==
    LET c == call[f] IN
    /\ c.pc = "done"
    /\ call' = [call EXCEPT ![f] = Ended]
    /\ CASE c.op = "inviteUser"     -> ShowInvitedUser(f, c.row)
         [] c.op = "updateUser"     -> ShowUpdatedUser(c.id, c.row)
         [] c.op = "disableUser"    -> ShowDisabledUser(c.id)
         [] c.op = "reactivateUser" -> ShowReactivatedUser(c.id)
         [] c.op = "createRole"     -> ShowCreatedRole(c.id, c.row)
         [] c.op = "updateRole"     -> ShowUpdatedRole(c.id, c.row)
         [] c.op = "deleteRole"     -> ShowDeletedRole(c.id)
         [] c.op = "createApiKey"   ->
              ShowCreatedKey(c.id, IF c.row.by = None THEN Demo ELSE c.row.by)
         [] c.op = "deleteApiKey"   -> ShowDeletedKey(c.id)
    /\ Unsure(ListOf(c.op), IF AnsweredInVain(c) THEN {c.id} ELSE {})
    /\ UNCHANGED Outside

\* An error is told, and the screen left as it is.
Refuse(f) ==
    /\ call[f].pc = "refused"
    /\ call' = [call EXCEPT ![f] = Ended]
    /\ UNCHANGED <<screen, actor, unsure, Outside>>

\* A request that does not arrive, or an answer that does not: told as an error too.
Lose(f) ==
    LET c == call[f] IN
    /\ c.pc \in UnderWay /\ c.ours
    /\ \/ c.pc \in {"sent", "done"} /\ call' = [call EXCEPT ![f] = Ended]
       \/ c.pc # "done" /\ call' = [call EXCEPT ![f].ours = FALSE]
    /\ Unsure(ListOf(c.op), {c.id})
    /\ UNCHANGED <<screen, actor, Outside>>

-----------------------------------------------------------------------------
(* Loading the lists *)

Asked == [pc |-> "asked", rows |-> {}]
AskAll(pcs) ==
    /\ load' = [l \in Lists |-> Asked]
    /\ unsure' = [l \in Lists |-> CallsOn(l, pcs)]

\* REGISTER_REAL_PROJECTS: from here the server is used, and the lists are asked for.
FindBackend ==
    /\ ~backend /\ backend' = TRUE
    /\ AskAll(UnderWay)
    /\ UNCHANGED <<db, audit, screen, actor, call>>

\* listUsers, listRoleDefinitions, listApiKeys
ListRows(l) ==
    /\ load[l].pc = "asked"
    /\ load' = [load EXCEPT ![l] = IF AssertGlobalAdmin THEN [pc |-> "read", rows |-> db[l]]
                                   ELSE [pc |-> "failed", rows |-> {}]]
    /\ UNCHANGED <<db, audit, screen, actor, backend, call, unsure>>

LoadFails(l) ==
    /\ load[l].pc = "asked"
    /\ load' = [load EXCEPT ![l] = [pc |-> "failed", rows |-> {}]]
    /\ UNCHANGED <<db, audit, screen, actor, backend, call, unsure>>

\* The last row of that name (byNameLocal).
LocalOf(name) == SelectLastInSeq(screen.users, LAMBDA u : u.name = name)
SyncedUser(su) ==
    IF LocalOf(su.name) # 0
    THEN [screen.users[LocalOf(su.name)] EXCEPT !.id = su.id, !.email = su.email,
                                                !.disabled = ~su.active]
    ELSE [id |-> su.id, name |-> su.name, email |-> su.email,
          role |-> GlobalToRole(su.global), disabled |-> ~su.active]
Matched(rows) == {screen.users[LocalOf(su.name)].id :
                    su \in {v \in rows : LocalOf(v.name) # 0}}
KeptUsers(rows) ==
    Only(screen.users, {k \in DOMAIN screen.users :
        screen.users[k].id \in ({Demo} \cup {Temp(f) : f \in Calls}) \ Matched(rows)})
SyncedActorLeft(s) == actor     \* Mutant: the actor keeps the old id.
SyncedActor(s) ==
    LET after[n \in 0..Len(s)] ==
          IF n = 0 THEN actor
          ELSE LET at == LocalOf(s[n].name) IN
               IF at # 0 /\ after[n - 1] = screen.users[at].id THEN s[n].id ELSE after[n - 1]
    IN  after[Len(s)]

SyncUsers(rows) ==
    LET s == SetToSeq(rows) IN
    /\ screen' = [screen EXCEPT !.users = KeptUsers(rows) \o [k \in DOMAIN s |-> SyncedUser(s[k])]]
    /\ actor' = SyncedActor(s)

\* realRoleToLocal, realApiKeyToLocal
RoleShown(r) == [id |-> r.id, name |-> r.name, builtIn |-> r.builtIn, users |-> 0]
KeyShown(k) == [id |-> k.id, by |-> IF k.by = None THEN Demo ELSE k.by]

SyncRoles(rows) ==
    LET s == SetToSeq(rows)
        merged == [k \in DOMAIN s |-> RoleShown(s[k])]
        kept == Only(screen.roles, {k \in DOMAIN screen.roles :
                    /\ screen.roles[k].id \notin RealIds
                    /\ \A sr \in rows : sr.name # screen.roles[k].name})
    IN  /\ screen' = [screen EXCEPT !.roles =
                        SyncRoleUserCounts(screen.users, merged \o kept)]
        /\ UNCHANGED actor

\* Mutant: only the made-up rows are dropped.
SyncKeysMadeOnly(rows) ==
    LET s == SetToSeq(rows)
        merged == [k \in DOMAIN s |-> KeyShown(s[k])]
        kept == Only(screen.keys, {k \in DOMAIN screen.keys :
                    /\ screen.keys[k].id \notin IdsOf(MadeKeys)
                    /\ \A r \in rows : r.id # screen.keys[k].id})
    IN  /\ Show("keys", merged \o kept)
        /\ UNCHANGED actor

SyncKeys(rows) ==
    LET s == SetToSeq(rows)
        merged == [k \in DOMAIN s |-> KeyShown(s[k])]
        kept == Only(screen.keys, {k \in DOMAIN screen.keys :
                    screen.keys[k].id \notin RealIds \cup IdsOf(MadeKeys)})
    IN  /\ Show("keys", merged \o kept)
        /\ UNCHANGED actor

\* Users and roles are taken only if there are some (users.length > 0).
ShowList(l) ==
    /\ load[l].pc = "read"
    /\ IF l # "keys" /\ load[l].rows = {}
       THEN /\ load' = [load EXCEPT ![l] = [pc |-> "failed", rows |-> {}]]
            /\ UNCHANGED <<screen, actor>>
       ELSE /\ load' = [load EXCEPT ![l] = [pc |-> "done", rows |-> {}]]
            /\ CASE l = "users" -> SyncUsers(load[l].rows)
                 [] l = "roles" -> SyncRoles(load[l].rows)
                 [] l = "keys"  -> SyncKeys(load[l].rows)
    /\ UNCHANGED <<db, audit, backend, call, unsure>>

\* The page starts again from what it kept in localStorage, and no longer waits.
Reload(f) ==
    /\ call[f].pc = "idle" /\ backend
    /\ call' = [g \in Calls |->
                  CASE g = f \/ call[g].pc \in {"typing", "done", "refused"} -> Ended
                    [] call[g].pc \in {"sent", "checked", "written"} -> [call[g] EXCEPT !.ours = FALSE]
                    [] OTHER -> call[g]]
    /\ AskAll({"sent", "checked", "written"})
    /\ UNCHANGED <<db, audit, screen, actor, backend>>

-----------------------------------------------------------------------------
Init ==
    /\ db = [users |-> SeedUsers, roles |-> SeedRoles, keys |-> SeedKeys]
    /\ audit = {}
    /\ screen = [users |-> MadeUsers, roles |-> SyncRoleUserCounts(MadeUsers, MadeRoles),
                 keys |-> MadeKeys]
    /\ actor = Demo
    /\ backend = FALSE
    /\ load = [l \in Lists |-> [pc |-> "due", rows |-> {}]]
    /\ call = [f \in Calls |-> Idle]
    /\ unsure = [l \in Lists |-> {}]

Next ==
    \/ \E f \in Calls :
         \/ SwitchActor(f) \/ CreateApiKey(f) \/ DeleteApiKey(f)
         \/ InviteUser(f) \/ OpenEdit(f) \/ UpdateUser(f)
         \/ DisableUser(f) \/ ReactivateUser(f)
         \/ CreateRole(f) \/ OpenRoleEdit(f) \/ UpdateRole(f) \/ DeleteRole(f)
         \/ Check(f) \/ WriteUser(f) \/ WriteRole(f) \/ WriteKey(f) \/ Record(f) \/ Stop(f)
         \/ Answer(f) \/ Refuse(f) \/ Lose(f)
         \/ Other(f) \/ Reload(f)
    \/ FindBackend
    \/ \E l \in Lists : ListRows(l) \/ LoadFails(l) \/ ShowList(l)

Spec == Init /\ [][Next]_vars

-----------------------------------------------------------------------------
(* Properties *)

\* Users, roles, keys and commands are what the code declares (demo-model.ts,
\* schema.ts), and names and e-mails unique where a key says so.
TypeOK ==
    /\ \A u \in db.users : u \in UserRow
    /\ \A r \in db.roles : r \in RoleRow
    /\ \A k \in db.keys : k \in KeyRow
    /\ \A u, v \in db.users : u.email = v.email \/ u.id = v.id => u = v
    /\ \A r, q \in db.roles : r.name = q.name \/ r.id = q.id => r = q
    /\ \A k \in DOMAIN screen.users : screen.users[k] \in ShownUser
    /\ \A k \in DOMAIN screen.roles : screen.roles[k] \in ShownRole
    /\ \A k \in DOMAIN screen.keys : screen.keys[k] \in ShownKey
    /\ actor \in Ids
    /\ audit \subseteq {"created", "updated", "deleted"} \X RealIds

\* What is compared: of a user the name and whether disabled, for the e-mail and
\* the role stay as typed ("Email edits stay local-only", FreshProvider.tsx:2343).
Agrees(l, row, shown) ==
    CASE l = "users" -> shown.disabled = ~row.active /\ shown.name = row.name
      [] l = "roles" -> shown.name = row.name /\ shown.builtIn = row.builtIn
      [] l = "keys"  -> shown.by = IF row.by = None THEN Demo ELSE row.by

\* "Writes WAIT FOR THE SERVER ... ids are always server-generated"
\* (FreshProvider.tsx:1416-1424): once a list is loaded, each row of the server is
\* shown once, with its name and whether it is disabled, built in, or whose key it
\* is, and no other row with an id of the server is shown, but for
\*  - rows a command is under way about, or that two commands, or a command and a
\*    load, were about at the same time;
\*  - rows changed elsewhere, or whose command, or its answer, was lost;
\*  - an invited user whose e-mail another row shows: RECONCILE_ADMIN_USER
\*    (FreshProvider.tsx:1172-1175) finds that row, although it is to "adopt the
\*    server's user id" (2326); an e-mail edited here is enough;
\*  - who was disabled as the last administrator shown here, which
\*    admin/disableUser ignores (admin-reducer.ts:240-243).
ScreenAgrees ==
    \A l \in Lists : load[l].pc = "done" =>
      \A i \in RealIds \ (unsure[l] \cup InFlight(l)) :
        LET shown == {k \in DOMAIN screen[l] : screen[l][k].id = i} IN
        /\ Cardinality(shown) = IF Exists(l, i) THEN 1 ELSE 0
        /\ \A row \in db[l], k \in shown : row.id = i => Agrees(l, row, screen[l][k])

\* Who acts is one row shown, and no other is shown by that id or that name, or is
\* on the server a user of that name.
ActorKnown ==
    \E k \in DOMAIN screen.users :
        /\ screen.users[k].id = actor
        /\ \A m \in DOMAIN screen.users \ {k} :
             /\ screen.users[m].id # actor
             /\ screen.users[m].name # screen.users[k].name
             /\ \A u \in load["users"].rows :
                  u.name = screen.users[k].name => u.id # screen.users[m].id
ActorTwice ==
    \E k, m \in DOMAIN screen.users :
        k # m /\ screen.users[k].id = actor /\ screen.users[m].id = actor

\* Whoever acts keeps acting when rows take new ids (currentActorUserId in
\* SYNC_REAL_USERS and RECONCILE_ADMIN_USER), until another is chosen, or the
\* person is disabled or no longer shown; unless it was not clear who that is, or
\* a row takes an id that another is shown by.
ActorStays ==
    [][ActorKnown =>
       \/ Acting'.name = Acting.name
       \/ actor' = actor /\ actor \in IdsOf(screen'.users)
       \/ \E f \in Calls : SwitchActor(f)
       \/ \E u \in Range(screen'.users) : u.name = Acting.name /\ u.disabled
       \/ \A u \in Range(screen'.users) : u.name # Acting.name
       \/ ActorTwice']_vars
=============================================================================
