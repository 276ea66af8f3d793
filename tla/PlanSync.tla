------------------------------ MODULE PlanSync ------------------------------
(***************************************************************************)
(* Test plans: the queries by which a plan finds its cases, the case list  *)
(* stored beside them, and the screens that save both (PlansScreen, the    *)
(* plan functions of FreshProvider, plan-client and TestPlanService).      *)
(*                                                                         *)
(* The server never interprets queries.  A browser that changes them sends *)
(* the queries (PATCH), and when that is answered the cases they find among *)
(* the cases it knows (PUT); a run is spawned from the stored cases.  Every *)
(* change of a query group is saved at once, and nothing waits for the save *)
(* before.                                                                 *)
(*                                                                         *)
(* One project, whose folders stand still and whose plans are archived but *)
(* never deleted; so the checks that a plan exists and that its cases are  *)
(* of the project are made in the step that writes.  Cases come and go with *)
(* AddCase and ArchiveCase, whose handlers are in CaseLibrary.             *)
(***************************************************************************)
EXTENDS Naturals, Sequences, FiniteSets

CONSTANTS
    Browsers,
    SeedPlans,     \* plans at the start, without queries
    Cases,
    SeedCases,     \* the cases at the start, those of the seed plans
    Folders,
    Parent,        \* the folder each folder is in, or None
    FolderOf,      \* the folder each case is in, or None
    Conditions,    \* conditions on the fields of a case
    Blank,         \* the condition a new group starts with
    Holds,         \* the cases each condition holds of
    Flows,         \* one call of addPlan, updatePlan, ..., or one sync each
    Owner,         \* the browser each flow is of
    MaxGroups,     \* bound: query groups of a plan
    None,          \* SQL NULL, an absent row, nothing selected
    Absent         \* a field left out, a form that is closed

Plans == SeedPlans \cup Flows

ASSUME PlanAssumption ==
    /\ SeedCases \subseteq Cases
    /\ Parent \in [Folders -> Folders \cup {None}]
    /\ FolderOf \in [Cases -> Folders \cup {None}]
    /\ Blank \in Conditions /\ Holds \in [Conditions -> SUBSET Cases]
    /\ MaxGroups \in Nat /\ Owner \in [Flows -> Browsers]
    /\ SeedPlans \cap Flows = {} /\ None \notin Plans \cup Folders
    /\ Absent \notin Plans \cup {None}

VARIABLES
    lib,           \* the cases that are not archived
    plan,          \* test_plans: title, queries, archived; None if no row
    members,       \* test_plan_cases of each plan
    audit,         \* audit_log: the flows that logged a change, and of what
    screen,        \* what each browser holds
    flow,          \* what each flow is about to do, and knows
    drifted,       \* history: plans changed otherwise than by a clean save
    had            \* history: titles and queries that were stored

vars == <<lib, plan, members, audit, screen, flow, drifted, had>>

-----------------------------------------------------------------------------
(* Queries *)

\* A group: the cases picked, the folders, or the conditions that must all hold.
Group == [type: {"static"}, ids: SUBSET Cases]
    \cup [type: {"folder"}, ids: SUBSET (Folders \cup {None})]
    \cup [type: {"condition"}, ids: SUBSET Conditions]

Queries == Seq(Group)

Static(ids) == [type |-> "static", ids |-> ids]

\* folderDescendantIds, of a set of folders; None, "unfiled", has nothing below.
Below(ids) ==
    LET level[n \in 0..Cardinality(Folders)] ==
          IF n = 0 THEN ids
          ELSE level[n - 1] \cup
                 {f \in Folders : Parent[f] \in level[n - 1] \ {None}}
    IN level[Cardinality(Folders)]

\* The cases of one group; a group without ids finds nothing, whatever its type.
Matched(g) ==
    CASE g.type = "static" -> g.ids
      [] g.type = "folder" -> {c \in Cases : FolderOf[c] \in Below(g.ids)}
      [] g.type = "condition" ->
           {c \in Cases : g.ids # {} /\ \A k \in g.ids : c \in Holds[k]}

\* resolvePlanCases: what the groups find among the given cases.
Resolve(queries, cases) ==
    cases \cap UNION {Matched(queries[i]) : i \in DOMAIN queries}

\* Mutant: the stored queries, also where there are none.
LocalStored(row, cases) == row.queries

\* realPlanToLocal: a plan without stored queries shows its cases as a group.
Local(row, cases) ==
    IF row.queries = None \/ row.queries = <<>> THEN <<Static(cases)>>
    ELSE row.queries

-----------------------------------------------------------------------------
(* Rows, screens and flows *)

\* A title is known by the flow that sent it, or the plan it was seeded with.
Title == Plans

PlanRow == [title: Title, queries: Queries \cup {None}, archived: BOOLEAN]
LocalPlan == [title: Title, queries: Queries]

\* NULL and a field left out are no lists of queries, and NULL is no row.
ASSUME NullAssumption ==
    /\ None \notin Queries /\ Absent \notin Queries
    /\ None \notin PlanRow /\ None \notin LocalPlan

Screen == [plans: [Plans -> {None} \cup LocalPlan], cases: SUBSET Cases,
           open: Plans \cup {None},        \* the plan in the address
           pending: {None} \cup Queries,   \* queries saved from this screen
           edit: Title \cup {Absent},      \* the title in the edit form
           form: {"none", "create", "spawn"}]

Idle == [op |-> "none", pc |-> "idle"]
Past == [op |-> "none", pc |-> "done"]

Writes == [op: {"create", "update", "delete", "duplicate", "spawn"},
           pc: {"write", "audit", "put", "answered", "done", "failed", "unaudited"},
           plan: Plans, title: Title \cup {Absent},
           queries: Queries \cup {Absent}, ids: SUBSET Cases, clean: BOOLEAN]
Syncs == [op: {"sync"}, pc: {"read"},
          cases: {None} \cup SUBSET Cases,
          rows: {None} \cup [Plans -> {None} \cup PlanRow],
          lists: {None} \cup [Plans -> SUBSET Cases]]

TypeOK ==
    /\ lib \subseteq Cases
    /\ plan \in [Plans -> {None} \cup PlanRow]
    /\ members \in [Plans -> SUBSET Cases]
    /\ audit \subseteq Flows \X {"created", "updated", "cases_set", "archived"}
    /\ screen \in [Browsers -> Screen]
    /\ flow \in [Flows -> {Idle, Past} \cup Writes \cup Syncs]
    /\ drifted \subseteq Plans
    /\ had \in [Plans -> [titles: SUBSET Title, queries: SUBSET Queries]]

Init ==
    /\ lib = SeedCases
    /\ plan = [p \in Plans |-> IF p \in SeedPlans
                               THEN [title |-> p, queries |-> None, archived |-> FALSE]
                               ELSE None]
    /\ members = [p \in Plans |-> IF p \in SeedPlans THEN SeedCases ELSE {}]
    /\ audit = {}
    /\ screen = [b \in Browsers |->
                   [plans |-> [p \in Plans |->
                                 IF p \in SeedPlans
                                 THEN [title |-> p, queries |-> <<Static(SeedCases)>>]
                                 ELSE None],
                    cases |-> SeedCases, open |-> None, pending |-> None,
                    edit |-> Absent, form |-> "none"]]
    /\ flow = [f \in Flows |-> Idle]
    /\ drifted = {}
    /\ had = [p \in Plans |-> IF p \in SeedPlans
                              THEN [titles |-> {p}, queries |-> {<<Static(SeedCases)>>}]
                              ELSE [titles |-> {}, queries |-> {}]]

-----------------------------------------------------------------------------
(* Screens *)

\* selectedPlan: the plan of the address, if the browser has it.
Selected(b) == screen[b].open

\* pendingQueries ?? selectedPlan.queries.
Shown(b) == IF screen[b].pending # None THEN screen[b].pending
            ELSE screen[b].plans[Selected(b)].queries

\* The effects that follow every change: an address whose plan is gone is
\* replaced by the list's, and another selection drops what was pending.
Settled(old, new) ==
    LET open == IF new.open # None /\ new.plans[new.open] # None
                THEN new.open ELSE None
    IN [new EXCEPT !.open = open,
                   !.pending = IF open = old.open THEN @ ELSE None]

Show(b, new) == screen' = [screen EXCEPT ![b] = Settled(@, new)]

Server == <<lib, plan, members, audit>>

\* A form covers the screen; those on the selected plan are seen when one is.
FormSeen(b) ==
    \/ screen[b].form = "create"
    \/ Selected(b) # None /\ (screen[b].form = "spawn" \/ screen[b].edit # Absent)

\* A row of the list is clicked, or the list's address is opened.
Navigate(b) ==
    /\ ~FormSeen(b)
    /\ \E p \in Plans \cup {None} :
          /\ p # screen[b].open /\ (p # None => screen[b].plans[p] # None)
          /\ Show(b, [screen[b] EXCEPT !.open = p])
    /\ UNCHANGED <<Server, flow, drifted, had>>

\* openEditModal, from the header or the menu of any row: the form gets the
\* title of that plan, and not the plan.  Without a selection it stays unseen.
OpenEdit(b) ==
    /\ ~FormSeen(b)
    /\ \E p \in Plans :
          /\ screen[b].plans[p] # None
          /\ Show(b, [screen[b] EXCEPT !.edit = screen[b].plans[p].title])
    /\ UNCHANGED <<Server, flow, drifted, had>>

CloseEdit(b) ==
    /\ screen[b].edit # Absent /\ Selected(b) # None
    /\ Show(b, [screen[b] EXCEPT !.edit = Absent])
    /\ UNCHANGED <<Server, flow, drifted, had>>

OpenCreate(b) ==
    /\ ~FormSeen(b)
    /\ Show(b, [screen[b] EXCEPT !.form = "create"])
    /\ UNCHANGED <<Server, flow, drifted, had>>

\* openSpawnModal.
OpenSpawn(b) ==
    /\ ~FormSeen(b) /\ Selected(b) # None
    /\ Show(b, [screen[b] EXCEPT !.form = "spawn"])
    /\ UNCHANGED <<Server, flow, drifted, had>>

CloseCreate(b) ==
    /\ screen[b].form = "create"
    /\ Show(b, [screen[b] EXCEPT !.form = "none"])
    /\ UNCHANGED <<Server, flow, drifted, had>>

CloseSpawn(b) ==
    /\ screen[b].form = "spawn" /\ Selected(b) # None
    /\ Show(b, [screen[b] EXCEPT !.form = "none"])
    /\ UNCHANGED <<Server, flow, drifted, had>>

-----------------------------------------------------------------------------
(* Flows of a browser, from the click *)

Open(f) == flow[f].pc \in {"write", "audit", "put", "answered", "read"}

\* A save of queries crosses those of the same plan that are under way.
Crosses(f, p) ==
    /\ Open(f) /\ flow[f].op = "update" /\ flow[f].plan = p
    /\ flow[f].queries # Absent

\* resolveRealPlanCaseIds works on the state of the click: clean if that holds
\* the cases there are and nothing else is being saved.
Current(b) == screen[b].cases = lib

Begin(f, b, op, p, title, queries, ids) ==
    LET crossed == {g \in Flows : op = "update" /\ queries # Absent /\ Crosses(g, p)}
        mine == [op |-> op, pc |-> "write", plan |-> p, title |-> title,
                 queries |-> queries, ids |-> ids,
                 clean |-> Current(b) /\ crossed = {}]
    IN flow' = [g \in Flows |->
                  IF g = f THEN mine
                  ELSE IF g \in crossed THEN [flow[g] EXCEPT !.clean = FALSE]
                  ELSE flow[g]]

\* Mutant: resolves the queries the plan has, and not the patch.
ResolvedOld(b, p, queries) == Resolve(screen[b].plans[p].queries, screen[b].cases)

\* resolveRealPlanCaseIds({...plan, ...patch}).
Resolved(b, p, queries) == Resolve(queries, screen[b].cases)

\* handleCreatePlan and addPlan; the form stays until the answer, and so does
\* its button.
AddPlan(b, f) ==
    /\ flow[f] = Idle /\ screen[b].form = "create"
    /\ Begin(f, b, "create", f, f, Absent, {})
    /\ UNCHANGED <<Server, screen, drifted, had>>

\* handleEditPlan: the title of the form, or another one, for the selected plan.
SaveEdit(b, f) ==
    /\ flow[f] = Idle /\ screen[b].edit # Absent /\ Selected(b) # None
    /\ \E title \in {f, screen[b].edit} :
          Begin(f, b, "update", Selected(b), title, Absent, {})
    /\ Show(b, [screen[b] EXCEPT !.edit = Absent])
    /\ UNCHANGED <<Server, drifted, had>>

\* commitQueries: shown at once, and saved from the click.
CommitQueries(b, f, next) ==
    /\ flow[f] = Idle
    /\ Begin(f, b, "update", Selected(b), Absent, next,
             Resolved(b, Selected(b), next))
    /\ Show(b, [screen[b] EXCEPT !.pending = next])
    /\ UNCHANGED <<Server, drifted, had>>

\* "Add query group".
AddGroup(b, f) ==
    /\ ~FormSeen(b) /\ Selected(b) # None /\ Len(Shown(b)) < MaxGroups
    /\ \E type \in {"static", "folder", "condition"} :
          CommitQueries(b, f, Append(Shown(b),
              [type |-> type, ids |-> IF type = "condition" THEN {Blank} ELSE {}]))

\* StaticQueryBody: a case is ticked or unticked, of those the screen has.
Ticked(ids, cases) == {ids \cup {c} : c \in cases} \cup {ids \ {c} : c \in cases}

\* FolderQueryBody: a folder or "Unfiled" is added or removed.
Chosen(ids) == {ids \cup {d} : d \in Folders \cup {None}} \cup {ids \ {d} : d \in ids}

\* ConditionQueryBody: a condition is added, removed or rewritten.
Rewritten(ids) ==
    {ids \cup {Blank}} \cup {ids \ {k} : k \in ids}
        \cup {(ids \ {k}) \cup {l} : k \in ids, l \in Conditions}

Edited(b, g) ==
    CASE g.type = "static" -> Ticked(g.ids, screen[b].cases)
      [] g.type = "folder" -> Chosen(g.ids)
      [] g.type = "condition" -> Rewritten(g.ids)

\* QueryGroupCard: every change of a group is a save of all of them.
UpdateGroup(b, f) ==
    /\ ~FormSeen(b) /\ Selected(b) # None
    /\ \E i \in DOMAIN Shown(b) : \E ids \in Edited(b, Shown(b)[i]) \ {Shown(b)[i].ids} :
          CommitQueries(b, f, [Shown(b) EXCEPT ![i].ids = ids])

RemoveGroup(b, f) ==
    /\ ~FormSeen(b) /\ Selected(b) # None
    /\ \E i \in DOMAIN Shown(b) :
          CommitQueries(b, f, SubSeq(Shown(b), 1, i - 1)
                                \o SubSeq(Shown(b), i + 1, Len(Shown(b))))

\* handleDeletePlan leaves the plan at once.
DeletePlan(b, f) ==
    /\ flow[f] = Idle /\ ~FormSeen(b)
    /\ \E p \in Plans :
          /\ screen[b].plans[p] # None
          /\ Begin(f, b, "delete", p, Absent, Absent, {})
          /\ Show(b, [screen[b] EXCEPT !.open = IF @ = p THEN None ELSE @])
    /\ UNCHANGED <<Server, drifted, had>>

\* duplicatePlan: the queries and what they find here and now.
DuplicatePlan(b, f) ==
    /\ flow[f] = Idle /\ ~FormSeen(b)
    /\ \E p \in Plans :
          /\ screen[b].plans[p] # None
          /\ LET queries == screen[b].plans[p].queries
             IN Begin(f, b, "duplicate", f, f, queries,
                      Resolve(queries, screen[b].cases))
    /\ UNCHANGED <<Server, screen, drifted, had>>

\* handleSpawnRun: the form announces the cases found here; none are sent.
SpawnRun(b, f) ==
    /\ flow[f] = Idle /\ screen[b].form = "spawn" /\ Selected(b) # None
    /\ Begin(f, b, "spawn", Selected(b), Absent, Absent,
             Resolve(screen[b].plans[Selected(b)].queries, screen[b].cases))
    /\ UNCHANGED <<Server, screen, drifted, had>>

-----------------------------------------------------------------------------
(* The server *)

At(f, op, pc) == flow[f].op = op /\ flow[f].pc = pc

Goto(f, pc) == flow' = [flow EXCEPT ![f].pc = pc]

\* The routes: which request of a flow has come to which service.
POST(f) == At(f, "create", "write") \/ At(f, "duplicate", "write")
PATCH(f) == At(f, "update", "write")
PUT(f) == At(f, "update", "put")
DELETE(f) == At(f, "delete", "write")

\* A flow that has ended forgets what only its later steps would need.
End(f, pc) == flow' = [flow EXCEPT ![f].pc = pc, ![f].ids = {}, ![f].clean = FALSE]

Sent(new, old) == IF new = Absent THEN old ELSE new

\* What history keeps of a plan's row and cases: its title and queries, and the
\* group that stands for its cases when it has no queries.
Keep(p) ==
    had' = [had EXCEPT
              ![p] = [titles |-> @.titles \cup {plan'[p].title},
                      queries |-> @.queries \cup {<<Static(members'[p])>>}
                                    \cup ({plan'[p].queries} \ {None})]]

\* PATCH: the row, whatever its status ...
PatchRow(f) ==
    /\ PATCH(f)
    /\ LET p == flow[f].plan
       IN /\ plan' = [plan EXCEPT ![p].title = Sent(flow[f].title, @),
                                  ![p].queries = Sent(flow[f].queries, @)]
          /\ drifted' = IF flow[f].queries = Absent THEN drifted ELSE drifted \cup {p}
          /\ UNCHANGED members
          /\ Keep(p)
    /\ Goto(f, "audit")
    /\ UNCHANGED <<lib, audit, screen>>

\* Mutant: only a change of the title is audited.
PatchAuditTitle(f) ==
    /\ At(f, "update", "audit")
    /\ audit' = IF flow[f].title = Absent THEN audit
                ELSE audit \cup {<<f, "updated">>}
    /\ Goto(f, IF flow[f].queries = Absent THEN "answered" ELSE "put")
    /\ UNCHANGED <<lib, plan, members, screen, drifted, had>>

\* ... and then its audit row; the answer makes the browser send the cases.
PatchAudit(f) ==
    /\ At(f, "update", "audit")
    /\ audit' = audit \cup {<<f, "updated">>}
    /\ Goto(f, IF flow[f].queries = Absent THEN "answered" ELSE "put")
    /\ UNCHANGED <<lib, plan, members, screen, drifted, had>>

\* PUT: setPlanCases, in one transaction with its audit row.
PutCases(f) ==
    /\ PUT(f)
    /\ LET p == flow[f].plan
       IN /\ members' = [members EXCEPT ![p] = flow[f].ids]
          /\ drifted' = IF flow[f].clean THEN drifted \ {p} ELSE drifted
          /\ UNCHANGED plan
          /\ Keep(p)
    /\ audit' = audit \cup {<<f, "cases_set">>}
    /\ Goto(f, "answered")
    /\ UNCHANGED <<lib, screen>>

\* POST: createPlan, of a new or of a copied plan, in one transaction.
CreatePlan(f) ==
    /\ POST(f)
    /\ plan' = [plan EXCEPT ![f] = [title |-> flow[f].title, archived |-> FALSE,
                                    queries |-> Sent(flow[f].queries, None)]]
    /\ members' = [members EXCEPT ![f] = flow[f].ids]
    /\ drifted' = IF flow[f].clean THEN drifted ELSE drifted \cup {f}
    /\ Keep(f)
    /\ audit' = audit \cup {<<f, "created">>}
    /\ Goto(f, "answered")
    /\ UNCHANGED <<lib, screen>>

\* DELETE: archivePlan, the row and then its audit row.
ArchiveRow(f) ==
    /\ DELETE(f)
    /\ plan' = [plan EXCEPT ![flow[f].plan].archived = TRUE]
    /\ Goto(f, "audit")
    /\ UNCHANGED <<lib, members, audit, screen, drifted, had>>

ArchiveAudit(f) ==
    /\ At(f, "delete", "audit")
    /\ audit' = audit \cup {<<f, "archived">>}
    /\ Goto(f, "answered")
    /\ UNCHANGED <<lib, plan, members, screen, drifted, had>>

\* createRun (RunSpawn has its reads): all stored cases, or an error.
CreateRun(f) ==
    /\ At(f, "spawn", "write")
    /\ LET p == flow[f].plan
       IN IF plan[p].archived \/ members[p] = {} \/ ~(members[p] \subseteq lib)
          THEN End(f, "failed") ELSE Goto(f, "answered")
    /\ UNCHANGED <<Server, screen, drifted, had>>

\* An error answer, a lost one or a browser that is closed: what the server has
\* done stays, and the browser does nothing more.  (A sync that fails does not
\* differ from one that is never answered.)
Fail(f) ==
    /\ Open(f) /\ flow[f].op # "sync"
    /\ End(f, IF flow[f].pc = "audit" THEN "unaudited" ELSE "failed")
    /\ UNCHANGED <<Server, screen, drifted, had>>

-----------------------------------------------------------------------------
(* Answers *)

\* Mutant: the patch is shown before it is saved.
ConfirmAnyUpdate(f) ==
    /\ flow[f].op = "update" /\ Open(f)
    /\ LET b == Owner[f]  p == flow[f].plan
       IN Show(b, [screen[b] EXCEPT
                     !.plans[p] = IF @ = None THEN None
                                  ELSE [title |-> Sent(flow[f].title, @.title),
                                        queries |-> Sent(flow[f].queries, @.queries)]])
    /\ Goto(f, IF flow[f].pc = "answered" THEN "done" ELSE flow[f].pc)
    /\ UNCHANGED <<Server, drifted, had>>

\* UPDATE_PLAN, with the patch and not with what the server answers; ignored if
\* the plan has gone from the browser.
ConfirmUpdate(f) ==
    /\ At(f, "update", "answered")
    /\ LET b == Owner[f]  p == flow[f].plan
       IN Show(b, [screen[b] EXCEPT
                     !.plans[p] = IF @ = None THEN None
                                  ELSE [title |-> Sent(flow[f].title, @.title),
                                        queries |-> Sent(flow[f].queries, @.queries)]])
    /\ End(f, "done")
    /\ UNCHANGED <<Server, drifted, had>>

\* ADD_PLAN and DUPLICATE_PLAN, from the answer, or with the copied queries; the
\* screen goes to the new plan.
ConfirmCreate(f) ==
    /\ At(f, "create", "answered") \/ At(f, "duplicate", "answered")
    /\ LET b == Owner[f]
           queries == IF flow[f].op = "create" THEN <<Static({})>> ELSE flow[f].queries
       IN Show(b, [screen[b] EXCEPT !.plans[f] = [title |-> flow[f].title,
                                                  queries |-> queries],
                                    !.form = IF flow[f].op = "create" THEN "none" ELSE @,
                                    !.open = f])
    /\ End(f, "done")
    /\ UNCHANGED <<Server, drifted, had>>

\* DELETE_PLAN.
ConfirmDelete(f) ==
    /\ At(f, "delete", "answered")
    /\ LET b == Owner[f]
       IN Show(b, [screen[b] EXCEPT !.plans[flow[f].plan] = None])
    /\ End(f, "done")
    /\ UNCHANGED <<Server, drifted, had>>

\* ADD_RUN, and the screen goes to the run.
ConfirmSpawn(f) ==
    /\ At(f, "spawn", "answered")
    /\ Show(Owner[f], [screen[Owner[f]] EXCEPT !.form = "none", !.open = None])
    /\ End(f, "done")
    /\ UNCHANGED <<Server, drifted, had>>

-----------------------------------------------------------------------------
(* Syncs, and the cases *)

Sync(f) ==
    /\ flow[f] = Idle
    /\ flow' = [flow EXCEPT ![f] = [op |-> "sync", pc |-> "read",
                                    cases |-> None, rows |-> None, lists |-> None]]
    /\ UNCHANGED <<Server, screen, drifted, had>>

Reading(f, field) == At(f, "sync", "read") /\ flow[f][field] = None

\* fetchRealCases: cases that are not archived.
ReadCases(f) ==
    /\ Reading(f, "cases")
    /\ flow' = [flow EXCEPT ![f].cases = lib]
    /\ UNCHANGED <<Server, screen, drifted, had>>

\* listPlans: the rows that are not archived, and then their cases.
ReadPlans(f) ==
    /\ Reading(f, "rows")
    /\ flow' = [flow EXCEPT ![f].rows =
                   [p \in Plans |-> IF plan[p] = None \/ plan[p].archived
                                    THEN None ELSE plan[p]]]
    /\ UNCHANGED <<Server, screen, drifted, had>>

ReadLists(f) ==
    /\ Reading(f, "lists") /\ flow[f].rows # None
    /\ flow' = [flow EXCEPT ![f].lists = members]
    /\ UNCHANGED <<Server, screen, drifted, had>>

\* SYNC_REAL_PROJECT_DATA: plans and cases are replaced; what is pending on the
\* screen is not.
ConfirmSync(f) ==
    /\ At(f, "sync", "read") /\ flow[f].cases # None /\ flow[f].lists # None
    /\ LET row == flow[f].rows
       IN Show(Owner[f], [screen[Owner[f]] EXCEPT
                              !.cases = flow[f].cases,
                              !.plans = [p \in Plans |->
                                  IF row[p] = None THEN None
                                  ELSE [title |-> row[p].title,
                                        queries |-> Local(row[p], flow[f].lists[p])]]])
    /\ flow' = [flow EXCEPT ![f] = Past]
    /\ UNCHANGED <<Server, drifted, had>>

\* A case is added, archived or taken out of the archive by a browser; no plan
\* is told, and what is being saved was resolved without it.
ChangeCases(b, f) ==
    /\ flow[f] = Idle /\ ~FormSeen(b)
    /\ \E c \in Cases :
          /\ lib' = IF c \in lib THEN lib \ {c} ELSE lib \cup {c}
          /\ Show(b, [screen[b] EXCEPT !.cases = IF c \in lib THEN @ \ {c} ELSE @ \cup {c}])
    /\ drifted' = {p \in Plans : plan[p] # None}
    /\ flow' = [g \in Flows |->
                  IF g = f THEN Past
                  ELSE IF Open(g) /\ flow[g].op # "sync"
                  THEN [flow[g] EXCEPT !.clean = FALSE] ELSE flow[g]]
    /\ UNCHANGED <<plan, members, audit, had>>

Next ==
    \/ \E b \in Browsers :
          \/ Navigate(b) \/ OpenEdit(b) \/ CloseEdit(b)
          \/ OpenCreate(b) \/ CloseCreate(b) \/ OpenSpawn(b) \/ CloseSpawn(b)
    \/ \E f \in Flows : LET b == Owner[f] IN
          \/ AddPlan(b, f) \/ SaveEdit(b, f) \/ DeletePlan(b, f)
          \/ AddGroup(b, f) \/ UpdateGroup(b, f) \/ RemoveGroup(b, f)
          \/ DuplicatePlan(b, f) \/ SpawnRun(b, f) \/ Sync(f)
          \/ ChangeCases(b, f)
    \/ \E f \in Flows :
          \/ PatchRow(f) \/ PatchAudit(f) \/ PutCases(f)
          \/ CreatePlan(f) \/ ArchiveRow(f) \/ ArchiveAudit(f)
          \/ CreateRun(f) \/ Fail(f)
          \/ ConfirmUpdate(f) \/ ConfirmCreate(f) \/ ConfirmDelete(f)
          \/ ConfirmSpawn(f)
          \/ ReadCases(f) \/ ReadPlans(f) \/ ReadLists(f) \/ ConfirmSync(f)

Spec == Init /\ [][Next]_vars

-----------------------------------------------------------------------------
(* Properties *)

\* The cases stored with a plan are those its stored queries find, if since the
\* last save that nothing crossed no case has come or gone, no save has stopped
\* between its two calls, and no copy was made of what a browser no longer
\* sees truly (FreshProvider.tsx:2006-2011, plan-client.ts:100-125).
PlansResolve ==
    \A p \in Plans : plan[p] # None /\ p \notin drifted =>
        members[p] = Resolve(Local(plan[p], members[p]), lib)

\* A title or a list of queries that a screen has of a plan was stored once,
\* whichever saves failed, crossed or were overtaken by a sync: writes are
\* confirmed "before they land in state" (FreshProvider.tsx:1446-1448).
ScreensShowStored ==
    \A b \in Browsers, p \in Plans : screen[b].plans[p] # None =>
        /\ screen[b].plans[p].title \in had[p].titles
        /\ screen[b].plans[p].queries \in had[p].queries

\* Every plan's title, queries and archiving are named by an audit row, unless
\* the handler that wrote them stands, or has stopped, between its two
\* statements (TestPlanService.ts:458-470, 551-560).
PlansAudited ==
    \A p \in Plans : plan[p] # None =>
        LET Logged(f, action) == \/ <<f, action>> \in audit
                                 \/ flow[f].pc \in {"audit", "unaudited"}
            Updates == {f \in Flows : flow[f].op = "update" /\ flow[f].plan = p}
        IN /\ plan[p].title # p =>
                 \E f \in Updates : flow[f].title = plan[p].title /\ Logged(f, "updated")
           /\ plan[p].queries # None =>
                 \/ \E f \in Updates : /\ flow[f].queries = plan[p].queries
                                       /\ Logged(f, "updated")
                 \/ p \in Flows /\ flow[p].queries = plan[p].queries
           /\ plan[p].archived =>
                 \E f \in Flows : /\ flow[f].op = "delete" /\ flow[f].plan = p
                                  /\ Logged(f, "archived")

=============================================================================
