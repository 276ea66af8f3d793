---------------------------- MODULE PlanSyncProofs ----------------------------
(***************************************************************************)
(* For any browsers, plans, cases, folders and saves: the variables keep   *)
(* their types, what a screen shows of a plan was stored once, every plan  *)
(* is audited, and the cases stored with a plan are those its queries find *)
(* unless a named thing has come between.                                  *)
(***************************************************************************)
EXTENDS PlanSync, SequenceTheorems, TLAPS

-----------------------------------------------------------------------------
(* What is inductive with TypeOK: Rooted; with both, Stored, Audited and Saves *)

WriteOps == {"create", "update", "delete", "duplicate", "spawn"}

\* What flow f, which stands at h, refers to among the rows of test_plans.
RootedFlow(rows, f, h) ==
    /\ h.op \in {"update", "delete", "spawn"} => rows[h.plan] # None
    /\ h.op \in {"create", "duplicate"} =>
          /\ h.plan = f /\ h.title = f
          /\ h.pc = "answered" => rows[f] # None
    /\ h.op = "create" => h.queries = Absent /\ h.ids = {}
    /\ h.op = "duplicate" => h.queries \in Queries
    /\ h.op = "sync" =>
          /\ h.lists # None => h.rows # None
          /\ h.rows # None => \A p \in Plans : h.rows[p] # None => rows[p] # None

RootedScreen(rows, s) ==
    /\ s.open # None => s.plans[s.open] # None
    /\ \A p \in Plans : s.plans[p] # None => rows[p] # None

\* Rows of test_plans are not deleted, so what was known of one stays.
Rooted ==
    /\ \A f \in Flows : RootedFlow(plan, f, flow[f])
    /\ \A b \in Browsers : RootedScreen(plan, screen[b])

\* What history has of plan p.
HadTitle(p, title) == title \in had[p].titles
HadQueries(p, queries) == queries \in had[p].queries

\* What flow f knows to be stored, or to have been.
StoredFlow(f) ==
    LET h == flow[f] IN
    /\ h.op = "update" /\ h.pc \in {"audit", "put", "answered"} =>
          /\ h.title # Absent => HadTitle(h.plan, h.title)
          /\ h.queries # Absent => HadQueries(h.plan, h.queries)
    /\ h.op \in {"create", "duplicate"} /\ h.pc = "answered" =>
          /\ HadTitle(f, f)
          /\ HadQueries(f, IF h.op = "create" THEN <<Static({})>> ELSE h.queries)
    /\ h.op = "sync" /\ h.rows # None =>
          \A p \in Plans : h.rows[p] # None =>
             /\ HadTitle(p, h.rows[p].title)
             /\ h.rows[p].queries # None => HadQueries(p, h.rows[p].queries)
             /\ h.lists # None => HadQueries(p, <<Static(h.lists[p])>>)

StoredPlan(p) ==
    plan[p] # None =>
        /\ HadTitle(p, plan[p].title)
        /\ plan[p].queries # None => HadQueries(p, plan[p].queries)
        /\ HadQueries(p, <<Static(members[p])>>)

Stored ==
    /\ \A p \in Plans : StoredPlan(p)
    /\ \A f \in Flows : StoredFlow(f)
    /\ ScreensShowStored

Logged(f, action) == <<f, action>> \in audit \/ flow[f].pc \in {"audit", "unaudited"}

Updating(f, p) == flow[f].op = "update" /\ flow[f].plan = p

\* As PlansAudited, but a plan whose queries no update has written was created
\* with them.
AuditedPlan(p) ==
    plan[p] # None =>
        /\ plan[p].title # p =>
              \E f \in Flows : /\ Updating(f, p) /\ Logged(f, "updated")
                               /\ flow[f].title = plan[p].title
        /\ plan[p].queries # None =>
              \/ \E f \in Flows : /\ Updating(f, p) /\ Logged(f, "updated")
                                  /\ flow[f].queries = plan[p].queries
              \/ /\ p \in Flows /\ flow[p].op = "duplicate"
                 /\ flow[p].queries = plan[p].queries
        /\ plan[p].archived =>
              \E f \in Flows : /\ flow[f].op = "delete" /\ flow[f].plan = p
                               /\ Logged(f, "archived")

Audited == \A p \in Plans : AuditedPlan(p)

Saving(f) == flow[f].op = "update" /\ flow[f].queries # Absent

\* A clean save of queries is alone, has resolved them among the cases there
\* are, and once it has written them no other save has.  Between its two calls
\* the plan has drifted, clean or not.
SaveSound(f) ==
    LET h == flow[f] IN
    Saving(f) =>
      /\ h.clean /\ Open(f) =>
            /\ \A g \in Flows \ {f} : ~Crosses(g, h.plan)
            /\ h.pc \in {"write", "audit", "put"} => h.ids = Resolve(h.queries, lib)
            /\ h.pc \in {"audit", "put"} => plan[h.plan].queries = h.queries
      /\ h.pc \in {"audit", "put"} => h.plan \in drifted

\* So has a clean copy.
CopySound(f) ==
    LET h == flow[f] IN
    h.op = "duplicate" /\ h.clean /\ h.pc = "write" => h.ids = Resolve(h.queries, lib)

\* The plan of a call is made by it, and by it only; and only a save of queries
\* sends cases.
Making(f) ==
    /\ plan[f] # None => flow[f].op \in {"create", "duplicate"} /\ flow[f].pc # "write"
    /\ At(f, "update", "put") => flow[f].queries # Absent

Saves ==
    /\ \A f \in Flows : SaveSound(f) /\ CopySound(f) /\ Making(f)
    /\ PlansResolve

-----------------------------------------------------------------------------
(* Flows and screens keep their types *)

FlowType == {Idle, Past} \cup Writes \cup Syncs

LEMMA Kinds ==
    ASSUME TypeOK, NEW f \in Flows
    PROVE  /\ flow[f] \in FlowType
           /\ flow[f].op \in WriteOps => flow[f] \in Writes
           /\ flow[f].op = "sync" => flow[f] \in Syncs
           /\ flow[f].pc = "read" => flow[f] \in Syncs
           /\ Open(f) /\ flow[f].op # "sync" => flow[f] \in Writes
<1>1. flow[f] \in FlowType  BY DEF TypeOK, FlowType
<1>2. CASE flow[f] \in {Idle, Past}  BY <1>2, <1>1 DEF Idle, Past, WriteOps, Open
<1>3. CASE flow[f] \in Writes
  <2>1. flow[f].op \in WriteOps /\ flow[f].pc # "read"  BY <1>3 DEF Writes, WriteOps
  <2>2. QED  BY <1>3, <2>1, <1>1 DEF WriteOps
<1>4. CASE flow[f] \in Syncs  BY <1>4, <1>1 DEF Syncs, WriteOps
<1>5. QED  BY <1>1, <1>2, <1>3, <1>4 DEF FlowType

LEMMA OneFlow ==
    ASSUME TypeOK, NEW f \in Flows, NEW x, flow' = [flow EXCEPT ![f] = x]
    PROVE  /\ flow'[f] = x
           /\ \A g \in Flows \ {f} : flow'[g] = flow[g]
           /\ x \in FlowType => flow' \in [Flows -> FlowType]
BY DEF TypeOK, FlowType

\* A flow that goes on keeps what it was sent with.
LEMMA GotoKeeps ==
    ASSUME TypeOK, NEW f \in Flows, flow[f] \in Writes, Goto(f, "answered")
             \/ Goto(f, "audit") \/ Goto(f, "put")
    PROVE  /\ flow' \in [Flows -> FlowType]
           /\ flow'[f] = [flow[f] EXCEPT !.pc = flow'[f].pc] /\ flow'[f] \in Writes
           /\ \A g \in Flows \ {f} : flow'[g] = flow[g]
           /\ Goto(f, "answered") => flow'[f].pc = "answered"
           /\ Goto(f, "audit") => flow'[f].pc = "audit"
           /\ Goto(f, "put") => flow'[f].pc = "put"
<1>1. ASSUME NEW pc \in {"answered", "audit", "put"}, Goto(f, pc)
      PROVE  /\ flow' \in [Flows -> FlowType]
             /\ flow'[f] = [flow[f] EXCEPT !.pc = pc] /\ flow'[f] \in Writes
             /\ flow'[f].pc = pc
             /\ \A g \in Flows \ {f} : flow'[g] = flow[g]
  <2>1. flow' = [flow EXCEPT ![f] = [flow[f] EXCEPT !.pc = pc]]  BY <1>1 DEF Goto
  <2>2. [flow[f] EXCEPT !.pc = pc] \in Writes
        /\ [flow[f] EXCEPT !.pc = pc].pc = pc  BY <1>1 DEF Writes
  <2>3. QED  BY <2>1, <2>2, OneFlow DEF FlowType
<1>2. QED  BY <1>1

LEMMA EndKeeps ==
    ASSUME TypeOK, NEW f \in Flows, flow[f] \in Writes,
           NEW pc \in {"done", "failed", "unaudited"}, End(f, pc)
    PROVE  /\ flow' \in [Flows -> FlowType]
           /\ flow'[f] = [flow[f] EXCEPT !.pc = pc, !.ids = {}, !.clean = FALSE]
           /\ flow'[f] \in Writes
           /\ \A g \in Flows \ {f} : flow'[g] = flow[g]
<1>1. flow' = [flow EXCEPT ![f] = [flow[f] EXCEPT !.pc = pc, !.ids = {}, !.clean = FALSE]]
  BY DEF End, TypeOK
<1>2. [flow[f] EXCEPT !.pc = pc, !.ids = {}, !.clean = FALSE] \in Writes
  BY DEF Writes
<1>3. QED  BY <1>1, <1>2, OneFlow DEF FlowType

LEMMA ShowKeeps ==
    ASSUME TypeOK, NEW b \in Browsers, NEW new \in Screen, Show(b, new)
    PROVE  /\ screen' \in [Browsers -> Screen]
           /\ screen'[b].plans = new.plans
           /\ screen'[b].open # None => screen'[b].plans[screen'[b].open] # None
           /\ \A c \in Browsers \ {b} : screen'[c] = screen[c]
<1> DEFINE open == IF new.open # None /\ new.plans[new.open] # None THEN new.open ELSE None
           pending == IF open = screen[b].open THEN new.pending ELSE None
           settled == [new EXCEPT !.open = open, !.pending = pending]
<1>1. screen' = [screen EXCEPT ![b] = settled]
  <2>1. Settled(screen[b], new) = settled  BY DEF Settled, Screen
  <2>2. QED  BY <2>1 DEF Show, TypeOK
<1>2. open \in Plans \cup {None} /\ pending \in {None} \cup Queries  BY DEF Screen
<1>3. settled \in Screen /\ settled.plans = new.plans /\ settled.open = open
  <2> HIDE DEF open, pending
  <2>1. QED  BY <1>2 DEF Screen
<1>4. open # None => new.plans[open] # None  OBVIOUS
<1> HIDE DEF settled, open
<1>5. QED  BY <1>1, <1>3, <1>4 DEF TypeOK

-----------------------------------------------------------------------------
(* Steps that only look, and steps that begin a call *)

\* Screens go on holding the same plans.
SamePlans ==
    /\ screen' \in [Browsers -> Screen]
    /\ \A b \in Browsers : /\ screen'[b].plans = screen[b].plans
                           /\ screen'[b].open # None =>
                                 screen'[b].plans[screen'[b].open] # None

LEMMA ShowSamePlans ==
    ASSUME TypeOK, Rooted, NEW b \in Browsers, NEW new \in Screen, Show(b, new),
           new.plans = screen[b].plans
    PROVE  SamePlans
<1>1. \A c \in Browsers : screen[c].open # None => screen[c].plans[screen[c].open] # None
  BY DEF Rooted, RootedScreen
<1>2. QED  BY <1>1, ShowKeeps DEF SamePlans

LEMMA UnchangedSamePlans ==
    ASSUME TypeOK, Rooted, screen' = screen
    PROVE  SamePlans
BY DEF SamePlans, TypeOK, Rooted, RootedScreen

Browsing == SamePlans /\ UNCHANGED <<Server, flow, drifted, had>>

LEMMA Browses ==
    ASSUME TypeOK, Rooted, NEW b \in Browsers,
           \/ Navigate(b) \/ OpenEdit(b) \/ CloseEdit(b)
           \/ OpenCreate(b) \/ CloseCreate(b) \/ OpenSpawn(b) \/ CloseSpawn(b)
    PROVE  Browsing
<1>0. screen[b] \in Screen  BY DEF TypeOK
<1>1. CASE Navigate(b)
  <2>1. PICK p \in Plans \cup {None} : Show(b, [screen[b] EXCEPT !.open = p])
    BY <1>1 DEF Navigate
  <2>2. [screen[b] EXCEPT !.open = p] \in Screen
        /\ [screen[b] EXCEPT !.open = p].plans = screen[b].plans  BY <1>0 DEF Screen
  <2>3. QED  BY <1>1, <2>1, <2>2, ShowSamePlans DEF Navigate, Browsing
<1>2. CASE OpenEdit(b)
  <2>1. PICK p \in Plans : /\ screen[b].plans[p] # None
                           /\ Show(b, [screen[b] EXCEPT !.edit = screen[b].plans[p].title])
    BY <1>2 DEF OpenEdit
  <2>2. screen[b].plans[p] \in LocalPlan  BY <1>0, <2>1 DEF Screen
  <2>3. screen[b].plans[p].title \in Title \cup {Absent}  BY <2>2 DEF LocalPlan
  <2>4. [screen[b] EXCEPT !.edit = screen[b].plans[p].title] \in Screen
        /\ [screen[b] EXCEPT !.edit = screen[b].plans[p].title].plans = screen[b].plans
    BY <1>0, <2>3 DEF Screen
  <2>5. QED  BY <1>2, <2>1, <2>4, ShowSamePlans DEF OpenEdit, Browsing
<1>3. CASE CloseEdit(b)
  <2>1. [screen[b] EXCEPT !.edit = Absent] \in Screen
        /\ [screen[b] EXCEPT !.edit = Absent].plans = screen[b].plans  BY <1>0 DEF Screen
  <2>2. QED  BY <1>3, <2>1, ShowSamePlans DEF CloseEdit, Browsing
<1>4. ASSUME NEW form \in {"none", "create", "spawn"},
             Show(b, [screen[b] EXCEPT !.form = form]),
             UNCHANGED <<Server, flow, drifted, had>>
      PROVE  Browsing
  <2>1. [screen[b] EXCEPT !.form = form] \in Screen
        /\ [screen[b] EXCEPT !.form = form].plans = screen[b].plans  BY <1>0 DEF Screen
  <2>2. QED  BY <1>4, <2>1, ShowSamePlans DEF Browsing
<1>5. QED
  BY <1>1, <1>2, <1>3, <1>4 DEF OpenCreate, CloseCreate, OpenSpawn, CloseSpawn

\* A call begins, at the click; saves of the same queries are sullied by it.
Clicking(f) ==
    LET h == flow'[f]
        Crossed(g) == h.op = "update" /\ h.queries # Absent /\ Crosses(g, h.plan)
    IN /\ UNCHANGED <<Server, drifted, had>> /\ SamePlans
       /\ flow[f] = Idle /\ flow' \in [Flows -> FlowType]
       /\ h \in Writes /\ h.pc = "write" /\ RootedFlow(plan, f, h)
       /\ \A g \in Flows \ {f} : flow'[g] = IF Crossed(g)
                                            THEN [flow[g] EXCEPT !.clean = FALSE]
                                            ELSE flow[g]
       /\ h.clean => \A g \in Flows \ {f} : ~Crossed(g)
       /\ h.clean /\ (h.op = "duplicate" \/ (h.op = "update" /\ h.queries # Absent)) =>
             h.ids = Resolve(h.queries, lib)

LEMMA BeginKeeps ==
    ASSUME TypeOK, NEW f \in Flows, NEW b \in Browsers, flow[f] = Idle,
           NEW op \in WriteOps, NEW p \in Plans, NEW title \in Title \cup {Absent},
           NEW queries \in Queries \cup {Absent}, NEW ids \in SUBSET Cases,
           Begin(f, b, op, p, title, queries, ids),
           op \in {"update", "delete", "spawn"} => plan[p] # None,
           op \in {"create", "duplicate"} => p = f /\ title = f,
           op = "create" => queries = Absent /\ ids = {},
           op = "duplicate" => queries \in Queries,
           op = "duplicate" \/ (op = "update" /\ queries # Absent) =>
               ids = Resolve(queries, screen[b].cases),
           SamePlans, UNCHANGED <<Server, drifted, had>>
    PROVE  Clicking(f)
<1> DEFINE crossed == {g \in Flows : op = "update" /\ queries # Absent /\ Crosses(g, p)}
           clean == Current(b) /\ crossed = {}
           mine == [op |-> op, pc |-> "write", plan |-> p, title |-> title,
                    queries |-> queries, ids |-> ids, clean |-> clean]
<1>1. flow' = [g \in Flows |-> IF g = f THEN mine
                               ELSE IF g \in crossed THEN [flow[g] EXCEPT !.clean = FALSE]
                               ELSE flow[g]]
  BY DEF Begin
<1>2. clean \in BOOLEAN  BY DEF Current
<1>3. clean => screen[b].cases = lib /\ \A g \in Flows : g \notin crossed
  BY DEF Current
<1>4. /\ crossed \subseteq Flows
      /\ \A g \in Flows : g \in crossed <=>
            op = "update" /\ queries # Absent /\ Crosses(g, p)
  OBVIOUS
<1> HIDE DEF crossed, clean
<1>5. mine \in Writes
  BY <1>2 DEF Writes, WriteOps
<1>6. \A g \in crossed : flow[g] \in Writes
  BY <1>4, Kinds DEF Crosses, WriteOps
<1>7. \A g \in crossed : [flow[g] EXCEPT !.clean = FALSE] \in Writes
  BY <1>6 DEF Writes
<1>8. flow' \in [Flows -> FlowType]
  <2>1. mine \in FlowType /\ \A g \in crossed : [flow[g] EXCEPT !.clean = FALSE] \in FlowType
    BY <1>5, <1>7 DEF FlowType
  <2>2. \A g \in Flows : flow[g] \in FlowType  BY Kinds
  <2> HIDE DEF mine
  <2>3. QED  BY <1>1, <2>1, <2>2
<1>9. flow'[f] = mine /\ \A g \in Flows \ {f} :
         flow'[g] = IF g \in crossed THEN [flow[g] EXCEPT !.clean = FALSE] ELSE flow[g]
  BY <1>1
<1>10. /\ mine.op = op /\ mine.pc = "write" /\ mine.plan = p /\ mine.title = title
       /\ mine.queries = queries /\ mine.ids = ids /\ mine.clean = clean
  OBVIOUS
<1> HIDE DEF mine
<1>11. RootedFlow(plan, f, mine)  BY <1>10 DEF RootedFlow, WriteOps
<1>12. QED
  BY <1>3, <1>4, <1>5, <1>8, <1>9, <1>10, <1>11 DEF Clicking

LEMMA ShownQueries ==
    ASSUME TypeOK, Rooted, NEW b \in Browsers, Selected(b) # None
    PROVE  /\ Selected(b) \in Plans /\ plan[Selected(b)] # None
           /\ Shown(b) \in Queries
           /\ screen[b].plans[Selected(b)] \in LocalPlan
<1>1. screen[b] \in Screen  BY DEF TypeOK
<1>2. Selected(b) \in Plans  BY <1>1 DEF Screen, Selected
<1>3. screen[b].plans[Selected(b)] # None /\ plan[Selected(b)] # None
  BY <1>2 DEF Rooted, RootedScreen, Selected
<1>4. screen[b].plans[Selected(b)] \in LocalPlan  BY <1>1, <1>2, <1>3 DEF Screen
<1>5. screen[b].plans[Selected(b)].queries \in Queries  BY <1>4 DEF LocalPlan
<1>6. screen[b].pending \in {None} \cup Queries  BY <1>1 DEF Screen
<1>7. QED  BY <1>2, <1>3, <1>4, <1>5, <1>6 DEF Shown

LEMMA ResolveIsSubset ==
    ASSUME NEW queries, NEW cases
    PROVE  Resolve(queries, cases) \subseteq cases
BY DEF Resolve

\* Whatever the next list of queries is, committing it begins a save of it.
LEMMA CommitClicks ==
    ASSUME TypeOK, Rooted, NEW b \in Browsers, NEW f \in Flows, Selected(b) # None,
           NEW next \in Queries, CommitQueries(b, f, next)
    PROVE  Clicking(f)
<1>1. screen[b] \in Screen  BY DEF TypeOK
<1>2. [screen[b] EXCEPT !.pending = next] \in Screen
      /\ [screen[b] EXCEPT !.pending = next].plans = screen[b].plans
  BY <1>1 DEF Screen
<1>3. SamePlans  BY <1>2, ShowSamePlans DEF CommitQueries
<1>4. screen[b].cases \in SUBSET Cases  BY <1>1 DEF Screen
<1>5. Resolved(b, Selected(b), next) \in SUBSET Cases
  BY <1>4, ResolveIsSubset DEF Resolved
<1>6. QED
  BY <1>3, <1>5, ShownQueries, BeginKeeps DEF CommitQueries, Resolved, WriteOps

LEMMA GroupShape ==
    ASSUME NEW g \in Group
    PROVE  /\ g = [type |-> g.type, ids |-> g.ids]
           /\ g.type \in {"static", "folder", "condition"}
           /\ g.type = "static" => g.ids \subseteq Cases
           /\ g.type = "folder" => g.ids \subseteq Folders \cup {None}
           /\ g.type = "condition" => g.ids \subseteq Conditions
BY DEF Group

LEMMA GroupOf ==
    ASSUME NEW type, NEW ids,
           \/ type = "static" /\ ids \subseteq Cases
           \/ type = "folder" /\ ids \subseteq Folders \cup {None}
           \/ type = "condition" /\ ids \subseteq Conditions
    PROVE  [type |-> type, ids |-> ids] \in Group
BY DEF Group

\* What an edit makes of a group is a group of that kind.
LEMMA EditedGroup ==
    ASSUME TypeOK, NEW b \in Browsers, NEW g \in Group, NEW ids \in Edited(b, g)
    PROVE  [g EXCEPT !.ids = ids] \in Group
<1>1. screen[b].cases \subseteq Cases  BY DEF TypeOK, Screen
<1>2. [g EXCEPT !.ids = ids] = [type |-> g.type, ids |-> ids]  BY GroupShape
<1>3. CASE g.type = "static"
  <2>1. ids \subseteq Cases  BY <1>1, <1>3, GroupShape DEF Edited, Ticked
  <2>2. QED  BY <1>2, <1>3, <2>1, GroupOf
<1>4. CASE g.type = "folder"
  <2>1. ids \subseteq Folders \cup {None}  BY <1>4, GroupShape DEF Edited, Chosen
  <2>2. QED  BY <1>2, <1>4, <2>1, GroupOf
<1>5. CASE g.type = "condition"
  <2>1. ids \subseteq Conditions  BY <1>5, GroupShape, PlanAssumption DEF Edited, Rewritten
  <2>2. QED  BY <1>2, <1>5, <2>1, GroupOf
<1>6. QED  BY <1>3, <1>4, <1>5, GroupShape

LEMMA GroupClicks ==
    ASSUME TypeOK, Rooted, NEW b \in Browsers, NEW f \in Flows,
           AddGroup(b, f) \/ UpdateGroup(b, f) \/ RemoveGroup(b, f)
    PROVE  Clicking(f)
<1>1. Selected(b) # None  BY DEF AddGroup, UpdateGroup, RemoveGroup
<1>2. Shown(b) \in Seq(Group)  BY <1>1, ShownQueries DEF Queries
<1>3. DOMAIN Shown(b) = 1 .. Len(Shown(b)) /\ Len(Shown(b)) \in Nat
  BY <1>2, LenProperties
<1>4. CASE AddGroup(b, f)
  <2>1. PICK type \in {"static", "folder", "condition"} :
           CommitQueries(b, f, Append(Shown(b),
              [type |-> type, ids |-> IF type = "condition" THEN {Blank} ELSE {}]))
    BY <1>4 DEF AddGroup
  <2>2. [type |-> type, ids |-> IF type = "condition" THEN {Blank} ELSE {}] \in Group
    BY GroupOf, PlanAssumption
  <2>3. Append(Shown(b), [type |-> type, ids |-> IF type = "condition" THEN {Blank} ELSE {}])
           \in Queries
    BY <1>2, <2>2, AppendProperties DEF Queries
  <2>4. QED  BY <1>1, <2>1, <2>3, CommitClicks
<1>5. CASE UpdateGroup(b, f)
  <2>0. PICK i \in DOMAIN Shown(b) : \E ids \in Edited(b, Shown(b)[i]) :
           CommitQueries(b, f, [Shown(b) EXCEPT ![i].ids = ids])
    BY <1>5 DEF UpdateGroup
  <2>1. PICK ids \in Edited(b, Shown(b)[i]) :
           CommitQueries(b, f, [Shown(b) EXCEPT ![i].ids = ids])
    BY <2>0
  <2>2. Shown(b)[i] \in Group  BY <1>2, <1>3, ElementOfSeq
  <2>3. [Shown(b)[i] EXCEPT !.ids = ids] \in Group  BY <2>1, <2>2, EditedGroup
  <2>4. [Shown(b) EXCEPT ![i] = [Shown(b)[i] EXCEPT !.ids = ids]] \in Queries
    BY <1>2, <1>3, <2>3, ExceptSeq DEF Queries
  <2>5. [Shown(b) EXCEPT ![i].ids = ids]
           = [Shown(b) EXCEPT ![i] = [Shown(b)[i] EXCEPT !.ids = ids]]
    OBVIOUS
  <2>6. QED  BY <1>1, <2>1, <2>4, <2>5, CommitClicks
<1>6. CASE RemoveGroup(b, f)
  <2>1. PICK i \in DOMAIN Shown(b) :
           CommitQueries(b, f, SubSeq(Shown(b), 1, i - 1)
                                 \o SubSeq(Shown(b), i + 1, Len(Shown(b))))
    BY <1>6 DEF RemoveGroup
  <2>2. i \in 1 .. Len(Shown(b)) /\ i \in Int  BY <1>3
  <2>3. \A j \in 1 .. Len(Shown(b)) : Shown(b)[j] \in Group  BY <1>2, ElementOfSeq
  <2>4. SubSeq(Shown(b), 1, i - 1) \in Seq(Group)
    <3>1. \A j \in 1 .. i - 1 : Shown(b)[j] \in Group  BY <1>3, <2>2, <2>3
    <3>2. QED  BY <2>2, <3>1, SubSeqProperties
  <2>5. SubSeq(Shown(b), i + 1, Len(Shown(b))) \in Seq(Group)
    <3>1. \A j \in i + 1 .. Len(Shown(b)) : Shown(b)[j] \in Group  BY <1>3, <2>2, <2>3
    <3>2. QED  BY <1>3, <2>2, <3>1, SubSeqProperties
  <2>6. SubSeq(Shown(b), 1, i - 1) \o SubSeq(Shown(b), i + 1, Len(Shown(b))) \in Queries
    BY <2>4, <2>5, ConcatProperties DEF Queries
  <2>7. QED  BY <1>1, <2>1, <2>6, CommitClicks
<1>7. QED  BY <1>4, <1>5, <1>6

LEMMA FormClicks ==
    ASSUME TypeOK, Rooted, NEW b \in Browsers, NEW f \in Flows,
           \/ AddPlan(b, f) \/ SaveEdit(b, f) \/ DeletePlan(b, f)
           \/ DuplicatePlan(b, f) \/ SpawnRun(b, f)
    PROVE  Clicking(f)
<1>1. screen[b] \in Screen /\ screen[b].cases \subseteq Cases  BY DEF TypeOK, Screen
<1>2. f \in Plans /\ f \in Title  BY DEF Plans, Title
<1>3. \A queries : Resolve(queries, screen[b].cases) \in SUBSET Cases
  BY <1>1, ResolveIsSubset
<1>4. {} \in SUBSET Cases  OBVIOUS
<1>5. CASE AddPlan(b, f)
  <2>1. SamePlans  BY <1>5, UnchangedSamePlans DEF AddPlan
  <2>2. QED  BY <1>2, <1>4, <1>5, <2>1, BeginKeeps DEF AddPlan, WriteOps
<1>6. CASE SaveEdit(b, f)
  <2>1. PICK title \in {f, screen[b].edit} :
           Begin(f, b, "update", Selected(b), title, Absent, {})
    BY <1>6 DEF SaveEdit
  <2>2. title \in Title \cup {Absent}  BY <1>1, <1>2 DEF Screen
  <2>3. [screen[b] EXCEPT !.edit = Absent] \in Screen
        /\ [screen[b] EXCEPT !.edit = Absent].plans = screen[b].plans  BY <1>1 DEF Screen
  <2>4. SamePlans  BY <1>6, <2>3, ShowSamePlans DEF SaveEdit
  <2>5. Selected(b) # None  BY <1>6 DEF SaveEdit
  <2>6. QED
    BY <1>4, <1>6, <2>1, <2>2, <2>4, <2>5, ShownQueries, BeginKeeps DEF SaveEdit, WriteOps
<1>7. CASE DeletePlan(b, f)
  <2>1. PICK p \in Plans :
          /\ screen[b].plans[p] # None
          /\ Begin(f, b, "delete", p, Absent, Absent, {})
          /\ Show(b, [screen[b] EXCEPT !.open = IF @ = p THEN None ELSE @])
    BY <1>7 DEF DeletePlan
  <2> DEFINE new == [screen[b] EXCEPT !.open = IF @ = p THEN None ELSE @]
  <2>2. new \in Screen /\ new.plans = screen[b].plans  BY <1>1 DEF Screen
  <2> HIDE DEF new
  <2>3. SamePlans  BY <2>1, <2>2, ShowSamePlans DEF new
  <2>4. plan[p] # None  BY <2>1 DEF Rooted, RootedScreen
  <2>5. QED  BY <1>4, <1>7, <2>1, <2>3, <2>4, BeginKeeps DEF DeletePlan, WriteOps
<1>8. CASE DuplicatePlan(b, f)
  <2>1. PICK p \in Plans :
          /\ screen[b].plans[p] # None
          /\ Begin(f, b, "duplicate", f, f, screen[b].plans[p].queries,
                   Resolve(screen[b].plans[p].queries, screen[b].cases))
    BY <1>8 DEF DuplicatePlan
  <2>2. screen[b].plans[p] \in LocalPlan  BY <1>1, <2>1 DEF Screen
  <2>3. screen[b].plans[p].queries \in Queries  BY <2>2 DEF LocalPlan
  <2>4. SamePlans  BY <1>8, UnchangedSamePlans DEF DuplicatePlan
  <2>5. QED
    BY <1>2, <1>3, <1>8, <2>1, <2>3, <2>4, BeginKeeps DEF DuplicatePlan, WriteOps
<1>9. CASE SpawnRun(b, f)
  <2>1. SamePlans  BY <1>9, UnchangedSamePlans DEF SpawnRun
  <2>2. Selected(b) # None  BY <1>9 DEF SpawnRun
  <2>3. QED
    BY <1>3, <1>9, <2>1, <2>2, ShownQueries, BeginKeeps DEF SpawnRun, WriteOps
<1>10. QED  BY <1>5, <1>6, <1>7, <1>8, <1>9

-----------------------------------------------------------------------------
(* Types and references, step by step *)

Had == [titles: SUBSET Title, queries: SUBSET Queries]

\* Rows are made, and never deleted.
PlansLast == \A p \in Plans : plan[p] # None => plan'[p] # None

LEMMA FlowKinds ==
    ASSUME NEW h \in FlowType
    PROVE  /\ h.op \in WriteOps => h \in Writes
           /\ h.op = "sync" => h \in Syncs
BY DEF FlowType, Idle, Past, Writes, Syncs, WriteOps

LEMMA RootedLasts ==
    ASSUME PlansLast, NEW f \in Flows, NEW h \in FlowType, RootedFlow(plan, f, h)
    PROVE  RootedFlow(plan', f, h)
<1>1. h.op \in WriteOps => h.plan \in Plans  BY FlowKinds DEF Writes
<1>2. f \in Plans  BY DEF Plans
<1>3. QED  BY <1>1, <1>2 DEF RootedFlow, PlansLast, WriteOps

\* One flow and the screens have changed.
LEMMA RootedStep ==
    ASSUME TypeOK, Rooted, PlansLast, NEW f \in Flows,
           RootedFlow(plan', f, flow'[f]),
           \A g \in Flows \ {f} : flow'[g] = flow[g],
           \A b \in Browsers : RootedScreen(plan', screen'[b])
    PROVE  Rooted'
<1>1. \A g \in Flows \ {f} : RootedFlow(plan', g, flow'[g])
  BY RootedLasts, Kinds DEF Rooted
<1>2. QED  BY <1>1 DEF Rooted

LEMMA RootedScreens ==
    ASSUME TypeOK, Rooted, PlansLast, SamePlans
    PROVE  \A b \in Browsers : RootedScreen(plan', screen'[b])
BY DEF Rooted, RootedScreen, SamePlans, PlansLast

LEMMA BrowsingTyped ==
    ASSUME TypeOK, Rooted, Browsing
    PROVE  TypeOK' /\ Rooted'
<1>1. TypeOK'  BY DEF TypeOK, Browsing, SamePlans, Server
<1>2. PlansLast  BY DEF PlansLast, Browsing, Server
<1>3. flow' = flow /\ plan' = plan  BY DEF Browsing, Server
<1>4. QED  BY <1>1, <1>2, <1>3, RootedScreens DEF Rooted, Browsing

LEMMA ClickingTyped ==
    ASSUME TypeOK, Rooted, NEW f \in Flows, Clicking(f)
    PROVE  TypeOK' /\ Rooted'
<1>1. TypeOK'  BY DEF TypeOK, Clicking, SamePlans, Server, FlowType
<1>2. PlansLast /\ plan' = plan  BY DEF PlansLast, Clicking, Server
<1>3. \A g \in Flows \ {f} : RootedFlow(plan', g, flow'[g])
  <2>1. ASSUME NEW g \in Flows \ {f}, flow'[g] # flow[g]
        PROVE  RootedFlow(plan, g, flow'[g])
    <3>1. flow'[g] = [flow[g] EXCEPT !.clean = FALSE] /\ Open(g) /\ flow[g].op = "update"
      BY <2>1 DEF Clicking, Crosses
    <3>2. flow[g] \in Writes  BY <3>1, Kinds DEF WriteOps
    <3>3. flow'[g].op = "update" /\ flow'[g].plan = flow[g].plan  BY <3>1, <3>2 DEF Writes
    <3>4. QED  BY <3>1, <3>3 DEF Rooted, RootedFlow
  <2>2. QED  BY <1>2, <2>1 DEF Rooted
<1>4. RootedFlow(plan', f, flow'[f])  BY <1>2 DEF Clicking
<1>5. \A b \in Browsers : RootedScreen(plan', screen'[b])
  BY <1>2, RootedScreens DEF Clicking
<1>6. QED  BY <1>1, <1>3, <1>4, <1>5 DEF Rooted

LEMMA KeepTyped ==
    ASSUME TypeOK, NEW p \in Plans, Keep(p),
           plan'[p] \in PlanRow, members'[p] \in SUBSET Cases
    PROVE  /\ had' \in [Plans -> Had]
           /\ had'[p].titles = had[p].titles \cup {plan'[p].title}
           /\ had'[p].queries = had[p].queries \cup {<<Static(members'[p])>>}
                                   \cup ({plan'[p].queries} \ {None})
           /\ \A q \in Plans \ {p} : had'[q] = had[q]
<1> DEFINE titles == had[p].titles \cup {plan'[p].title}
           queries == had[p].queries \cup {<<Static(members'[p])>>}
                         \cup ({plan'[p].queries} \ {None})
<1>1. had \in [Plans -> Had]  BY DEF TypeOK, Had
<1>2. had' = [had EXCEPT ![p] = [titles |-> titles, queries |-> queries]]
  BY <1>1 DEF Keep
<1>3. <<Static(members'[p])>> \in Queries
  <2>1. Static(members'[p]) \in Group  BY GroupOf DEF Static
  <2>2. QED  BY <2>1 DEF Queries
<1>4. titles \in SUBSET Title /\ queries \in SUBSET Queries
  <2>1. plan'[p].title \in Title /\ plan'[p].queries \in Queries \cup {None}
    BY DEF PlanRow
  <2>2. had[p].titles \subseteq Title /\ had[p].queries \subseteq Queries
    BY <1>1 DEF Had
  <2>3. QED  BY <1>3, <2>1, <2>2
<1> HIDE DEF titles, queries
<1>5. [titles |-> titles, queries |-> queries] \in Had  BY <1>4 DEF Had
<1>6. had'[p] = [titles |-> titles, queries |-> queries]  BY <1>1, <1>2
<1>7. QED  BY <1>1, <1>2, <1>5, <1>6 DEF titles, queries

\* A row that a flow refers to is a row.
LEMMA FlowRow ==
    ASSUME TypeOK, Rooted, NEW f \in Flows, flow[f].op \in {"update", "delete", "spawn"}
    PROVE  /\ flow[f] \in Writes /\ flow[f].plan \in Plans
           /\ plan[flow[f].plan] # None /\ plan[flow[f].plan] \in PlanRow
<1>1. flow[f] \in Writes  BY Kinds DEF WriteOps
<1>2. flow[f].plan \in Plans  BY <1>1 DEF Writes
<1>3. plan[flow[f].plan] # None  BY DEF Rooted, RootedFlow
<1>4. QED  BY <1>1, <1>2, <1>3 DEF TypeOK

-----------------------------------------------------------------------------
(* What the writes of the server leave *)

HadKeeps(p) ==
    /\ had' \in [Plans -> Had]
    /\ had'[p].titles = had[p].titles \cup {plan'[p].title}
    /\ had'[p].queries = had[p].queries \cup {<<Static(members'[p])>>}
                            \cup ({plan'[p].queries} \ {None})
    /\ \A q \in Plans \ {p} : had'[q] = had[q]

\* Row p is written, the others are not.
RowWritten(p) ==
    /\ p \in Plans
    /\ plan' \in [Plans -> {None} \cup PlanRow]
    /\ plan'[p] \in PlanRow /\ plan'[p] # None
    /\ \A q \in Plans \ {p} : plan'[q] = plan[q]

LEMMA PatchRowEffect ==
    ASSUME TypeOK, Rooted, NEW f \in Flows, PatchRow(f)
    PROVE  LET p == flow[f].plan IN
           /\ RowWritten(p) /\ HadKeeps(p) /\ members' = members
           /\ flow[f] \in Writes /\ plan[p] # None
           /\ plan'[p].title = Sent(flow[f].title, plan[p].title)
           /\ plan'[p].queries = Sent(flow[f].queries, plan[p].queries)
           /\ plan'[p].archived = plan[p].archived
<1> DEFINE p == flow[f].plan
           row == [plan[p] EXCEPT !.title = Sent(flow[f].title, @),
                                  !.queries = Sent(flow[f].queries, @)]
<1>0. flow[f].op = "update"  BY DEF PatchRow, PATCH, At
<1>1. flow[f] \in Writes /\ p \in Plans /\ plan[p] # None /\ plan[p] \in PlanRow
  BY <1>0, FlowRow
<1>2. /\ Sent(flow[f].title, plan[p].title) \in Title
      /\ Sent(flow[f].queries, plan[p].queries) \in Queries \cup {None}
  BY <1>1 DEF Writes, PlanRow, Sent
<1>3. /\ row \in PlanRow /\ row.title = Sent(flow[f].title, plan[p].title)
      /\ row.queries = Sent(flow[f].queries, plan[p].queries)
      /\ row.archived = plan[p].archived
  BY <1>1, <1>2 DEF PlanRow
<1>4. plan' = [plan EXCEPT ![p] = row]  BY DEF PatchRow, TypeOK
<1> HIDE DEF row
<1>5. RowWritten(p) /\ plan'[p] = row
  BY <1>1, <1>3, <1>4, NullAssumption DEF RowWritten, TypeOK
<1>6. members' = members /\ Keep(p)  BY DEF PatchRow
<1>7. HadKeeps(p)
  BY <1>1, <1>3, <1>5, <1>6, KeepTyped DEF HadKeeps, TypeOK
<1>8. QED  BY <1>1, <1>3, <1>5, <1>6, <1>7

LEMMA PutCasesEffect ==
    ASSUME TypeOK, Rooted, NEW f \in Flows, PutCases(f)
    PROVE  LET p == flow[f].plan IN
           /\ p \in Plans /\ plan' = plan /\ plan[p] # None /\ HadKeeps(p)
           /\ flow[f] \in Writes
           /\ members' \in [Plans -> SUBSET Cases] /\ members'[p] = flow[f].ids
           /\ \A q \in Plans \ {p} : members'[q] = members[q]
<1> DEFINE p == flow[f].plan
<1>0. flow[f].op = "update"  BY DEF PutCases, PUT, At
<1>1. flow[f] \in Writes /\ p \in Plans /\ plan[p] # None /\ plan[p] \in PlanRow
  BY <1>0, FlowRow
<1>2. plan' = plan /\ members' = [members EXCEPT ![p] = flow[f].ids] /\ Keep(p)
  BY DEF PutCases
<1>3. flow[f].ids \in SUBSET Cases  BY <1>1 DEF Writes
<1>4. /\ members' \in [Plans -> SUBSET Cases] /\ members'[p] = flow[f].ids
      /\ \A q \in Plans \ {p} : members'[q] = members[q]
  BY <1>1, <1>2, <1>3 DEF TypeOK
<1>5. HadKeeps(p)  BY <1>1, <1>2, <1>3, <1>4, KeepTyped DEF HadKeeps
<1>6. QED  BY <1>1, <1>2, <1>4, <1>5

LEMMA CreatePlanEffect ==
    ASSUME TypeOK, Rooted, NEW f \in Flows, CreatePlan(f)
    PROVE  /\ RowWritten(f) /\ HadKeeps(f)
           /\ flow[f] \in Writes /\ flow[f].title = f /\ flow[f].plan = f
           /\ flow[f].op \in {"create", "duplicate"} /\ flow[f].pc = "write"
           /\ plan'[f].title = f /\ ~plan'[f].archived
           /\ flow[f].op = "create" => /\ plan'[f].queries = None
                                       /\ members'[f] = {} /\ flow[f].ids = {}
           /\ flow[f].op = "duplicate" => /\ plan'[f].queries = flow[f].queries
                                          /\ plan'[f].queries \in Queries
           /\ members' \in [Plans -> SUBSET Cases] /\ members'[f] = flow[f].ids
           /\ \A q \in Plans \ {f} : members'[q] = members[q]
<1> DEFINE row == [title |-> flow[f].title, archived |-> FALSE,
                   queries |-> Sent(flow[f].queries, None)]
<1>1. flow[f].op \in {"create", "duplicate"} /\ flow[f].pc = "write"
  BY DEF CreatePlan, POST, At
<1>2. flow[f] \in Writes /\ f \in Plans  BY <1>1, Kinds DEF WriteOps, Plans
<1>3. /\ flow[f].title = f /\ flow[f].plan = f
      /\ flow[f].op = "create" => flow[f].queries = Absent /\ flow[f].ids = {}
      /\ flow[f].op = "duplicate" => flow[f].queries \in Queries
  BY <1>1 DEF Rooted, RootedFlow
<1>4. /\ flow[f].op = "create" => row.queries = None
      /\ flow[f].op = "duplicate" => row.queries = flow[f].queries
  BY <1>3, NullAssumption DEF Sent
<1>5. /\ row \in PlanRow /\ row.title = f /\ ~row.archived
  <2>1. row.queries \in Queries \cup {None} /\ flow[f].title \in Title
    BY <1>1, <1>2, <1>3, <1>4 DEF Title
  <2>2. QED  BY <1>3, <2>1 DEF PlanRow
<1>6. /\ plan' = [plan EXCEPT ![f] = row] /\ Keep(f)
      /\ members' = [members EXCEPT ![f] = flow[f].ids]
  BY DEF CreatePlan
<1> HIDE DEF row
<1>7. RowWritten(f) /\ plan'[f] = row
  BY <1>2, <1>5, <1>6, NullAssumption DEF RowWritten, TypeOK
<1>8. flow[f].ids \in SUBSET Cases  BY <1>2 DEF Writes
<1>9. /\ members' \in [Plans -> SUBSET Cases] /\ members'[f] = flow[f].ids
      /\ \A q \in Plans \ {f} : members'[q] = members[q]
  BY <1>2, <1>6, <1>8 DEF TypeOK
<1>10. HadKeeps(f)  BY <1>2, <1>5, <1>6, <1>7, <1>8, <1>9, KeepTyped DEF HadKeeps
<1>11. QED  BY <1>1, <1>2, <1>3, <1>4, <1>5, <1>7, <1>9, <1>10

LEMMA ArchiveRowEffect ==
    ASSUME TypeOK, Rooted, NEW f \in Flows, ArchiveRow(f)
    PROVE  LET p == flow[f].plan IN
           /\ RowWritten(p) /\ flow[f] \in Writes /\ plan[p] # None
           /\ plan'[p].title = plan[p].title /\ plan'[p].queries = plan[p].queries
<1> DEFINE p == flow[f].plan
           row == [plan[p] EXCEPT !.archived = TRUE]
<1>0. flow[f].op = "delete"  BY DEF ArchiveRow, DELETE, At
<1>1. flow[f] \in Writes /\ p \in Plans /\ plan[p] # None /\ plan[p] \in PlanRow
  BY <1>0, FlowRow
<1>2. row \in PlanRow /\ row.title = plan[p].title /\ row.queries = plan[p].queries
  BY <1>1 DEF PlanRow
<1>3. plan' = [plan EXCEPT ![p] = row]  BY DEF ArchiveRow, TypeOK
<1> HIDE DEF row
<1>4. RowWritten(p) /\ plan'[p] = row
  BY <1>1, <1>2, <1>3, NullAssumption DEF RowWritten, TypeOK
<1>5. QED  BY <1>1, <1>2, <1>4

LEMMA WrittenLasts ==
    ASSUME NEW p, RowWritten(p)
    PROVE  PlansLast
BY DEF RowWritten, PlansLast

\* Flow f goes on, or ends, and keeps what it was sent with.
GoneOn(f) ==
    /\ flow' \in [Flows -> FlowType] /\ \A g \in Flows \ {f} : flow'[g] = flow[g]
    /\ flow[f] \in Writes /\ flow'[f] \in Writes
    /\ flow'[f].op = flow[f].op /\ flow'[f].plan = flow[f].plan
    /\ flow'[f].title = flow[f].title /\ flow'[f].queries = flow[f].queries
    /\ \/ flow'[f].ids = flow[f].ids /\ flow'[f].clean = flow[f].clean
       \/ flow'[f].ids = {} /\ ~flow'[f].clean /\ ~Open(f)'

LEMMA GotoGoesOn ==
    ASSUME TypeOK, NEW f \in Flows, flow[f] \in Writes,
           NEW pc \in {"answered", "audit", "put"}, Goto(f, pc)
    PROVE  GoneOn(f) /\ flow'[f].pc = pc
<1>1. \A h \in Writes :
         LET k == [h EXCEPT !.pc = pc] IN
         k.op = h.op /\ k.plan = h.plan /\ k.title = h.title /\ k.queries = h.queries
           /\ k.ids = h.ids /\ k.clean = h.clean
  BY DEF Writes
<1>2. /\ flow' \in [Flows -> FlowType] /\ flow'[f] \in Writes /\ flow'[f].pc = pc
      /\ flow'[f] = [flow[f] EXCEPT !.pc = pc]
      /\ \A g \in Flows \ {f} : flow'[g] = flow[g]
  BY GotoKeeps
<1>3. QED  BY <1>1, <1>2 DEF GoneOn

LEMMA EndGoesOn ==
    ASSUME TypeOK, NEW f \in Flows, flow[f] \in Writes,
           NEW pc \in {"done", "failed", "unaudited"}, End(f, pc)
    PROVE  GoneOn(f) /\ flow'[f].pc = pc
<1>1. \A h \in Writes :
         LET k == [h EXCEPT !.pc = pc, !.ids = {}, !.clean = FALSE] IN
         k.op = h.op /\ k.plan = h.plan /\ k.title = h.title /\ k.queries = h.queries
           /\ k.ids = {} /\ ~k.clean /\ k.pc = pc
  BY DEF Writes
<1>2. /\ flow' \in [Flows -> FlowType] /\ flow'[f] \in Writes
      /\ flow'[f] = [flow[f] EXCEPT !.pc = pc, !.ids = {}, !.clean = FALSE]
      /\ \A g \in Flows \ {f} : flow'[g] = flow[g]
  BY EndKeeps
<1>3. QED  BY <1>1, <1>2 DEF GoneOn, Open

LEMMA GoneOnRooted ==
    ASSUME TypeOK, Rooted, PlansLast, NEW f \in Flows, GoneOn(f), screen' = screen,
           flow'[f].pc = "answered" /\ flow[f].op \in {"create", "duplicate"} =>
               plan'[f] # None
    PROVE  Rooted'
<1>1. RootedFlow(plan', f, flow[f])  BY Kinds, RootedLasts DEF Rooted
<1>2. flow[f].op \in WriteOps  BY DEF GoneOn, Writes, WriteOps
<1>3. RootedFlow(plan', f, flow'[f])  BY <1>1, <1>2 DEF RootedFlow, WriteOps, GoneOn
<1>4. SamePlans  BY UnchangedSamePlans
<1>5. QED  BY <1>3, <1>4, RootedScreens, RootedStep DEF GoneOn

\* The audit log gets at most a row of flow f.
AuditRow(f) ==
    audit' = audit \/ \E w \in {"created", "updated", "cases_set", "archived"} :
                         audit' = audit \cup {<<f, w>>}

LEMMA ServerFlow ==
    ASSUME TypeOK, NEW f \in Flows
    PROVE  /\ PatchRow(f) => GoneOn(f) /\ flow[f].op = "update" /\ flow'[f].pc = "audit"
           /\ PatchAudit(f) => /\ GoneOn(f) /\ flow[f].op = "update"
                               /\ flow'[f].pc \in {"answered", "put"}
           /\ PutCases(f) => /\ GoneOn(f) /\ flow[f].op = "update"
                             /\ flow'[f].pc = "answered"
           /\ CreatePlan(f) => /\ GoneOn(f) /\ flow[f].op \in {"create", "duplicate"}
                               /\ flow'[f].pc = "answered"
           /\ ArchiveRow(f) => GoneOn(f) /\ flow[f].op = "delete" /\ flow'[f].pc = "audit"
           /\ ArchiveAudit(f) => /\ GoneOn(f) /\ flow[f].op = "delete"
                                 /\ flow'[f].pc = "answered"
           /\ CreateRun(f) => /\ GoneOn(f) /\ flow[f].op = "spawn"
                              /\ flow'[f].pc \in {"failed", "answered"}
           /\ Fail(f) => /\ GoneOn(f) /\ Open(f)
                         /\ flow'[f].pc = IF flow[f].pc = "audit" THEN "unaudited"
                                                                  ELSE "failed"
<1>1. ASSUME PatchRow(f)
      PROVE  GoneOn(f) /\ flow[f].op = "update" /\ flow'[f].pc = "audit"
  <2>1. flow[f].op = "update" /\ Goto(f, "audit")  BY <1>1 DEF PatchRow, PATCH, At
  <2>2. QED  BY <2>1, Kinds, GotoGoesOn DEF WriteOps
<1>2. ASSUME PatchAudit(f)
      PROVE  GoneOn(f) /\ flow[f].op = "update" /\ flow'[f].pc \in {"answered", "put"}
  <2>1. flow[f].op = "update" /\ (Goto(f, "answered") \/ Goto(f, "put"))
    BY <1>2 DEF PatchAudit, At
  <2>2. QED  BY <2>1, Kinds, GotoGoesOn DEF WriteOps
<1>3. ASSUME PutCases(f)
      PROVE  GoneOn(f) /\ flow[f].op = "update" /\ flow'[f].pc = "answered"
  <2>1. flow[f].op = "update" /\ Goto(f, "answered")  BY <1>3 DEF PutCases, PUT, At
  <2>2. QED  BY <2>1, Kinds, GotoGoesOn DEF WriteOps
<1>4. ASSUME CreatePlan(f)
      PROVE  /\ GoneOn(f) /\ flow[f].op \in {"create", "duplicate"}
             /\ flow'[f].pc = "answered"
  <2>1. flow[f].op \in {"create", "duplicate"} /\ Goto(f, "answered")
    BY <1>4 DEF CreatePlan, POST, At
  <2>2. QED  BY <2>1, Kinds, GotoGoesOn DEF WriteOps
<1>5. ASSUME ArchiveRow(f)
      PROVE  GoneOn(f) /\ flow[f].op = "delete" /\ flow'[f].pc = "audit"
  <2>1. flow[f].op = "delete" /\ Goto(f, "audit")  BY <1>5 DEF ArchiveRow, DELETE, At
  <2>2. QED  BY <2>1, Kinds, GotoGoesOn DEF WriteOps
<1>6. ASSUME ArchiveAudit(f)
      PROVE  GoneOn(f) /\ flow[f].op = "delete" /\ flow'[f].pc = "answered"
  <2>1. flow[f].op = "delete" /\ Goto(f, "answered")  BY <1>6 DEF ArchiveAudit, At
  <2>2. QED  BY <2>1, Kinds, GotoGoesOn DEF WriteOps
<1>7. ASSUME CreateRun(f)
      PROVE  GoneOn(f) /\ flow[f].op = "spawn" /\ flow'[f].pc \in {"failed", "answered"}
  <2>1. flow[f].op = "spawn" /\ (End(f, "failed") \/ Goto(f, "answered"))
    BY <1>7 DEF CreateRun, At
  <2>2. QED  BY <2>1, Kinds, GotoGoesOn, EndGoesOn DEF WriteOps
<1>8. ASSUME Fail(f)
      PROVE  /\ GoneOn(f) /\ Open(f)
             /\ flow'[f].pc = IF flow[f].pc = "audit" THEN "unaudited" ELSE "failed"
  <2>1. Open(f) /\ flow[f] \in Writes  BY <1>8, Kinds DEF Fail
  <2>2. End(f, IF flow[f].pc = "audit" THEN "unaudited" ELSE "failed")
    BY <1>8 DEF Fail
  <2>3. QED  BY <2>1, <2>2, EndGoesOn
<1>9. QED  BY <1>1, <1>2, <1>3, <1>4, <1>5, <1>6, <1>7, <1>8

LEMMA ServerFrame ==
    ASSUME TypeOK, NEW f \in Flows
    PROVE  /\ PatchRow(f) => /\ UNCHANGED <<lib, members, audit, screen>>
                             /\ drifted' = IF flow[f].queries = Absent THEN drifted
                                           ELSE drifted \cup {flow[f].plan}
           /\ PatchAudit(f) => /\ UNCHANGED <<lib, plan, members, screen, drifted, had>>
                               /\ audit' = audit \cup {<<f, "updated">>}
           /\ PutCases(f) => /\ UNCHANGED <<lib, plan, screen>>
                             /\ audit' = audit \cup {<<f, "cases_set">>}
                             /\ drifted' = IF flow[f].clean
                                           THEN drifted \ {flow[f].plan} ELSE drifted
           /\ CreatePlan(f) => /\ UNCHANGED <<lib, screen>>
                               /\ audit' = audit \cup {<<f, "created">>}
                               /\ drifted' = IF flow[f].clean THEN drifted
                                             ELSE drifted \cup {f}
           /\ ArchiveRow(f) => UNCHANGED <<lib, members, audit, screen, drifted, had>>
           /\ ArchiveAudit(f) => /\ UNCHANGED <<lib, plan, members, screen, drifted, had>>
                                 /\ audit' = audit \cup {<<f, "archived">>}
           /\ CreateRun(f) \/ Fail(f) => UNCHANGED <<Server, screen, drifted, had>>
BY DEF PatchRow, PatchAudit, PutCases, CreatePlan, ArchiveRow, ArchiveAudit, CreateRun, Fail

LEMMA TypeStep ==
    ASSUME TypeOK, NEW f \in Flows, lib' = lib, screen' \in [Browsers -> Screen],
           plan' \in [Plans -> {None} \cup PlanRow],
           members' \in [Plans -> SUBSET Cases], had' \in [Plans -> Had],
           AuditRow(f), flow' \in [Flows -> FlowType], drifted' \subseteq Plans
    PROVE  TypeOK'
<1>1. audit' \subseteq Flows \X {"created", "updated", "cases_set", "archived"}
  BY DEF TypeOK, AuditRow
<1>2. QED  BY <1>1 DEF TypeOK, FlowType, Had

LEMMA ServerTyped ==
    ASSUME TypeOK, Rooted, NEW f \in Flows,
           \/ PatchRow(f) \/ PatchAudit(f) \/ PutCases(f) \/ CreatePlan(f)
           \/ ArchiveRow(f) \/ ArchiveAudit(f) \/ CreateRun(f) \/ Fail(f)
    PROVE  TypeOK' /\ Rooted'
<1>0. /\ screen' = screen /\ lib' = lib /\ AuditRow(f) /\ GoneOn(f)
      /\ flow'[f].pc = "answered" /\ flow[f].op \in {"create", "duplicate"} =>
            CreatePlan(f)
  <2>1. screen' = screen /\ lib' = lib /\ AuditRow(f)  BY ServerFrame DEF AuditRow, Server
  <2>2. QED  BY <2>1, ServerFlow
<1>1. /\ lib \subseteq Cases /\ plan \in [Plans -> {None} \cup PlanRow]
      /\ members \in [Plans -> SUBSET Cases] /\ had \in [Plans -> Had]
      /\ screen \in [Browsers -> Screen] /\ drifted \subseteq Plans
  BY DEF TypeOK, Had
<1>2. /\ plan' \in [Plans -> {None} \cup PlanRow] /\ PlansLast
      /\ CreatePlan(f) => plan'[f] # None
  <2>1. CASE PatchRow(f)
    <3>1. RowWritten(flow[f].plan)  BY <2>1, PatchRowEffect
    <3>2. flow[f].op = "update"  BY <2>1, ServerFlow
    <3>3. QED  BY <3>1, <3>2, ServerFlow, WrittenLasts DEF RowWritten
  <2>2. CASE CreatePlan(f)
    <3>1. RowWritten(f)  BY <2>2, CreatePlanEffect
    <3>2. QED  BY <3>1, WrittenLasts DEF RowWritten
  <2>3. CASE ArchiveRow(f)
    <3>1. RowWritten(flow[f].plan)  BY <2>3, ArchiveRowEffect
    <3>2. flow[f].op = "delete"  BY <2>3, ServerFlow
    <3>3. QED  BY <3>1, <3>2, ServerFlow, WrittenLasts DEF RowWritten
  <2>4. CASE plan' = plan /\ ~CreatePlan(f)  BY <1>1, <2>4 DEF PlansLast
  <2>5. QED  BY <2>1, <2>2, <2>3, <2>4, ServerFrame DEF Server
<1>3. members' \in [Plans -> SUBSET Cases]
  BY <1>1, ServerFrame, PutCasesEffect, CreatePlanEffect DEF Server
<1>4. had' \in [Plans -> Had]
  BY <1>1, ServerFrame, PatchRowEffect, PutCasesEffect, CreatePlanEffect DEF HadKeeps
<1>5. drifted' \subseteq Plans
  <2>1. flow[f].plan \in Plans /\ f \in Plans  BY <1>0 DEF GoneOn, Writes, Plans
  <2>2. QED  BY <1>1, <2>1, ServerFrame
<1>6. TypeOK'  BY <1>0, <1>1, <1>2, <1>3, <1>4, <1>5, TypeStep DEF GoneOn
<1>7. Rooted'  BY <1>0, <1>2, GoneOnRooted
<1>8. QED  BY <1>6, <1>7

-----------------------------------------------------------------------------
(* What the answers leave *)

\* Browser b has another row of plan p, or none; the rest is as it was.
Replaced(b, p, row) ==
    /\ b \in Browsers /\ p \in Plans
    /\ screen' \in [Browsers -> Screen]
    /\ screen'[b].plans[p] = row
    /\ \A q \in Plans \ {p} : screen'[b].plans[q] = screen[b].plans[q]
    /\ screen'[b].open # None => screen'[b].plans[screen'[b].open] # None
    /\ \A c \in Browsers \ {b} : screen'[c] = screen[c]

LEMMA ReplaceKeeps ==
    ASSUME TypeOK, NEW b \in Browsers, NEW p \in Plans, NEW row \in {None} \cup LocalPlan,
           NEW new \in Screen, new.plans = [screen[b].plans EXCEPT ![p] = row], Show(b, new)
    PROVE  Replaced(b, p, row)
<1>1. screen[b].plans \in [Plans -> {None} \cup LocalPlan]  BY DEF TypeOK, Screen
<1>2. new.plans[p] = row /\ \A q \in Plans \ {p} : new.plans[q] = screen[b].plans[q]
  BY <1>1
<1>3. QED  BY <1>2, ShowKeeps DEF Replaced

LEMMA ReplacedRooted ==
    ASSUME TypeOK, Rooted, NEW b, NEW p, NEW row, Replaced(b, p, row),
           row # None => plan[p] # None, plan' = plan
    PROVE  \A c \in Browsers : RootedScreen(plan', screen'[c])
BY DEF Rooted, RootedScreen, Replaced

LEMMA OwnerIs ==
    ASSUME TypeOK, NEW f \in Flows
    PROVE  Owner[f] \in Browsers /\ screen[Owner[f]] \in Screen
BY PlanAssumption DEF TypeOK

LEMMA ConfirmUpdateEffect ==
    ASSUME TypeOK, Rooted, NEW f \in Flows, ConfirmUpdate(f)
    PROVE  LET p == flow[f].plan
               old == screen[Owner[f]].plans[p]
           IN /\ flow[f].op = "update" /\ flow[f].pc = "answered"
              /\ GoneOn(f) /\ flow'[f].pc = "done"
              /\ Replaced(Owner[f], p,
                          IF old = None THEN None
                          ELSE [title |-> Sent(flow[f].title, old.title),
                                queries |-> Sent(flow[f].queries, old.queries)])
<1> DEFINE b == Owner[f]
           p == flow[f].plan
           old == screen[b].plans[p]
           row == IF old = None THEN None
                  ELSE [title |-> Sent(flow[f].title, old.title),
                        queries |-> Sent(flow[f].queries, old.queries)]
           new == [screen[b] EXCEPT !.plans = [screen[b].plans EXCEPT ![p] = row]]
<1>1. flow[f].op = "update" /\ flow[f].pc = "answered" /\ End(f, "done")
  BY DEF ConfirmUpdate, At
<1>2. flow[f] \in Writes /\ p \in Plans  BY <1>1, FlowRow
<1>3. b \in Browsers /\ screen[b] \in Screen  BY OwnerIs
<1>4. old \in {None} \cup LocalPlan  BY <1>2, <1>3 DEF Screen
<1>5. row \in {None} \cup LocalPlan
  BY <1>2, <1>4 DEF LocalPlan, Writes, Sent
<1>6. Show(b, new)  BY DEF ConfirmUpdate
<1> HIDE DEF row
<1>7. new \in Screen /\ new.plans = [screen[b].plans EXCEPT ![p] = row]
  BY <1>2, <1>3, <1>5 DEF Screen
<1> HIDE DEF new
<1>8. Replaced(b, p, row)  BY <1>2, <1>3, <1>5, <1>6, <1>7, ReplaceKeeps
<1>9. GoneOn(f) /\ flow'[f].pc = "done"  BY <1>1, <1>2, EndGoesOn
<1>10. QED  BY <1>1, <1>8, <1>9 DEF row

LEMMA ConfirmCreateEffect ==
    ASSUME TypeOK, Rooted, NEW f \in Flows, ConfirmCreate(f)
    PROVE  /\ flow[f].op \in {"create", "duplicate"} /\ flow[f].pc = "answered"
           /\ GoneOn(f) /\ flow'[f].pc = "done" /\ plan[f] # None
           /\ Replaced(Owner[f], f,
                       [title |-> f, queries |-> IF flow[f].op = "create"
                                                 THEN <<Static({})>> ELSE flow[f].queries])
<1> DEFINE b == Owner[f]
           queries == IF flow[f].op = "create" THEN <<Static({})>> ELSE flow[f].queries
           row == [title |-> flow[f].title, queries |-> queries]
           form == IF flow[f].op = "create" THEN "none" ELSE screen[b].form
           new == [screen[b] EXCEPT !.plans = [screen[b].plans EXCEPT ![f] = row],
                                    !.form = form, !.open = f]
<1>1. /\ flow[f].op \in {"create", "duplicate"} /\ flow[f].pc = "answered"
      /\ End(f, "done")
  BY DEF ConfirmCreate, At
<1>2. flow[f] \in Writes /\ f \in Plans  BY <1>1, Kinds DEF WriteOps, Plans
<1>3. /\ flow[f].title = f /\ plan[f] # None
      /\ flow[f].op = "duplicate" => flow[f].queries \in Queries
  BY <1>1 DEF Rooted, RootedFlow
<1>4. b \in Browsers /\ screen[b] \in Screen  BY OwnerIs
<1>5. <<Static({})>> \in Queries
  <2>1. Static({}) \in Group  BY GroupOf DEF Static
  <2>2. QED  BY <2>1 DEF Queries
<1>6. queries \in Queries  BY <1>1, <1>3, <1>5
<1> HIDE DEF queries
<1>7. row \in LocalPlan  BY <1>2, <1>3, <1>6 DEF LocalPlan, Title
<1>8. Show(b, new)  BY DEF ConfirmCreate, queries
<1>9. form \in {"none", "create", "spawn"}  BY <1>4 DEF Screen
<1> HIDE DEF row, form
<1>10. new \in Screen /\ new.plans = [screen[b].plans EXCEPT ![f] = row]
  BY <1>2, <1>4, <1>7, <1>9 DEF Screen
<1> HIDE DEF new
<1>11. Replaced(b, f, row)  BY <1>2, <1>4, <1>7, <1>8, <1>10, ReplaceKeeps
<1>12. GoneOn(f) /\ flow'[f].pc = "done"  BY <1>1, <1>2, EndGoesOn
<1>13. QED  BY <1>1, <1>3, <1>11, <1>12 DEF row, queries

LEMMA ConfirmDeleteEffect ==
    ASSUME TypeOK, Rooted, NEW f \in Flows, ConfirmDelete(f)
    PROVE  /\ flow[f].op = "delete"
           /\ GoneOn(f) /\ flow'[f].pc = "done"
           /\ Replaced(Owner[f], flow[f].plan, None)
<1> DEFINE b == Owner[f]
           p == flow[f].plan
           new == [screen[b] EXCEPT !.plans = [screen[b].plans EXCEPT ![p] = None]]
<1>1. flow[f].op = "delete" /\ End(f, "done")  BY DEF ConfirmDelete, At
<1>2. flow[f] \in Writes /\ p \in Plans  BY <1>1, FlowRow
<1>3. b \in Browsers /\ screen[b] \in Screen  BY OwnerIs
<1>4. Show(b, new)  BY DEF ConfirmDelete
<1>5. new \in Screen /\ new.plans = [screen[b].plans EXCEPT ![p] = None]
  BY <1>2, <1>3 DEF Screen
<1> HIDE DEF new
<1>6. Replaced(b, p, None)  BY <1>2, <1>3, <1>4, <1>5, ReplaceKeeps
<1>7. QED  BY <1>1, <1>2, <1>6, EndGoesOn

LEMMA ConfirmSpawnEffect ==
    ASSUME TypeOK, Rooted, NEW f \in Flows, ConfirmSpawn(f)
    PROVE  flow[f].op = "spawn" /\ GoneOn(f) /\ flow'[f].pc = "done" /\ SamePlans
<1> DEFINE b == Owner[f]
           new == [screen[b] EXCEPT !.form = "none", !.open = None]
<1>1. flow[f].op = "spawn" /\ End(f, "done")  BY DEF ConfirmSpawn, At
<1>2. flow[f] \in Writes  BY <1>1, FlowRow
<1>3. b \in Browsers /\ screen[b] \in Screen  BY OwnerIs
<1>4. Show(b, new)  BY DEF ConfirmSpawn
<1>5. new \in Screen /\ new.plans = screen[b].plans  BY <1>3 DEF Screen
<1> HIDE DEF new
<1>6. QED  BY <1>1, <1>2, <1>3, <1>4, <1>5, ShowSamePlans, EndGoesOn

Confirming(f) == ConfirmUpdate(f) \/ ConfirmCreate(f) \/ ConfirmDelete(f) \/ ConfirmSpawn(f)

LEMMA ConfirmFrame ==
    ASSUME NEW f \in Flows, Confirming(f)
    PROVE  UNCHANGED <<Server, drifted, had>>
BY DEF Confirming, ConfirmUpdate, ConfirmCreate, ConfirmDelete, ConfirmSpawn

LEMMA ConfirmTyped ==
    ASSUME TypeOK, Rooted, NEW f \in Flows, Confirming(f)
    PROVE  TypeOK' /\ Rooted'
<1>1. UNCHANGED <<Server, drifted, had>>  BY ConfirmFrame
<1>2. /\ GoneOn(f) /\ flow'[f].pc = "done"
      /\ screen' \in [Browsers -> Screen]
      /\ \A b \in Browsers : RootedScreen(plan', screen'[b])
  <2>0. PlansLast /\ plan' = plan  BY <1>1 DEF PlansLast, Server
  <2>1. CASE ConfirmUpdate(f)
    <3>1. plan[flow[f].plan] # None  BY <2>1, ConfirmUpdateEffect, FlowRow
    <3>2. PICK row : Replaced(Owner[f], flow[f].plan, row)
      BY <2>1, ConfirmUpdateEffect
    <3>3. \A b \in Browsers : RootedScreen(plan', screen'[b])
      BY <2>0, <3>1, <3>2, ReplacedRooted
    <3>4. QED  BY <2>1, <3>2, <3>3, ConfirmUpdateEffect DEF Replaced
  <2>2. CASE ConfirmCreate(f)
    <3>1. plan[f] # None  BY <2>2, ConfirmCreateEffect
    <3>2. PICK row : Replaced(Owner[f], f, row)  BY <2>2, ConfirmCreateEffect
    <3>3. \A b \in Browsers : RootedScreen(plan', screen'[b])
      BY <2>0, <3>1, <3>2, ReplacedRooted
    <3>4. QED  BY <2>2, <3>2, <3>3, ConfirmCreateEffect DEF Replaced
  <2>3. CASE ConfirmDelete(f)
    BY <2>0, <2>3, ConfirmDeleteEffect, ReplacedRooted DEF Replaced
  <2>4. CASE ConfirmSpawn(f)
    BY <2>0, <2>4, ConfirmSpawnEffect, RootedScreens DEF SamePlans
  <2>5. QED  BY <2>1, <2>2, <2>3, <2>4 DEF Confirming
<1>3. TypeOK'
  BY <1>1, <1>2, TypeStep DEF TypeOK, Server, AuditRow, GoneOn, Had
<1>4. RootedFlow(plan', f, flow'[f])
  <2>1. RootedFlow(plan, f, flow[f])  BY DEF Rooted
  <2>2. flow[f].op \in WriteOps /\ plan' = plan
    BY <1>1, <1>2 DEF GoneOn, Writes, WriteOps, Server
  <2>3. QED  BY <1>2, <2>1, <2>2 DEF RootedFlow, GoneOn, WriteOps
<1>5. PlansLast  BY <1>1 DEF PlansLast, Server
<1>6. Rooted'  BY <1>2, <1>4, <1>5, RootedStep DEF GoneOn
<1>7. QED  BY <1>3, <1>6

-----------------------------------------------------------------------------
(* Syncs, and cases that come and go *)

\* Flow f reads, or has read: no other flow is touched, and no row.
SyncFlow(f) ==
    /\ flow' \in [Flows -> FlowType] /\ \A g \in Flows \ {f} : flow'[g] = flow[g]
    /\ UNCHANGED <<Server, drifted, had>>

ActiveRows == [p \in Plans |-> IF plan[p] = None \/ plan[p].archived
                               THEN None ELSE plan[p]]

LEMMA ReadEffect ==
    ASSUME TypeOK, Rooted, NEW f \in Flows
    PROVE  /\ Sync(f) => /\ SyncFlow(f) /\ screen' = screen /\ flow[f] = Idle
                         /\ flow'[f] \in Syncs
                         /\ flow'[f].rows = None /\ flow'[f].lists = None
           /\ ReadCases(f) => /\ SyncFlow(f) /\ screen' = screen
                              /\ flow[f] \in Syncs /\ flow'[f] \in Syncs
                              /\ flow'[f].rows = flow[f].rows
                              /\ flow'[f].lists = flow[f].lists
           /\ ReadPlans(f) => /\ SyncFlow(f) /\ screen' = screen
                              /\ flow[f] \in Syncs /\ flow'[f] \in Syncs
                              /\ flow[f].rows = None /\ flow'[f].rows = ActiveRows
                              /\ flow'[f].lists = flow[f].lists
           /\ ReadLists(f) => /\ SyncFlow(f) /\ screen' = screen
                              /\ flow[f] \in Syncs /\ flow'[f] \in Syncs
                              /\ flow[f].rows # None /\ flow'[f].rows = flow[f].rows
                              /\ flow'[f].lists = members
<1>0. ASSUME NEW x \in Syncs, flow' = [flow EXCEPT ![f] = x],
             UNCHANGED <<Server, drifted, had>>
      PROVE  SyncFlow(f) /\ flow'[f] = x
  BY <1>0, OneFlow DEF SyncFlow, FlowType
<1>1. ASSUME Sync(f)
      PROVE  /\ SyncFlow(f) /\ screen' = screen /\ flow[f] = Idle
             /\ flow'[f] \in Syncs /\ flow'[f].rows = None /\ flow'[f].lists = None
  <2> DEFINE x == [op |-> "sync", pc |-> "read", cases |-> None, rows |-> None,
                   lists |-> None]
  <2>1. x \in Syncs /\ x.rows = None /\ x.lists = None  BY DEF Syncs
  <2>2. flow' = [flow EXCEPT ![f] = x]  BY <1>1 DEF Sync
  <2> HIDE DEF x
  <2>3. QED  BY <1>0, <1>1, <2>1, <2>2 DEF Sync
<1>2. ASSUME At(f, "sync", "read")  PROVE flow[f] \in Syncs
  BY <1>2, Kinds DEF At
<1>3. ASSUME ReadCases(f)
      PROVE  /\ SyncFlow(f) /\ screen' = screen /\ flow[f] \in Syncs /\ flow'[f] \in Syncs
             /\ flow'[f].rows = flow[f].rows /\ flow'[f].lists = flow[f].lists
  <2> DEFINE x == [flow[f] EXCEPT !.cases = lib]
  <2>1. flow[f] \in Syncs  BY <1>2, <1>3 DEF ReadCases, Reading
  <2>2. x \in Syncs /\ x.rows = flow[f].rows /\ x.lists = flow[f].lists
    BY <2>1 DEF Syncs, TypeOK
  <2>3. flow' = [flow EXCEPT ![f] = x]  BY <1>3 DEF ReadCases
  <2> HIDE DEF x
  <2>4. QED  BY <1>0, <1>3, <2>1, <2>2, <2>3 DEF ReadCases
<1>4. ASSUME ReadPlans(f)
      PROVE  /\ SyncFlow(f) /\ screen' = screen /\ flow[f] \in Syncs /\ flow'[f] \in Syncs
             /\ flow[f].rows = None /\ flow'[f].rows = ActiveRows
             /\ flow'[f].lists = flow[f].lists
  <2> DEFINE x == [flow[f] EXCEPT !.rows = ActiveRows]
  <2>1. flow[f] \in Syncs /\ flow[f].rows = None
    BY <1>2, <1>4 DEF ReadPlans, Reading
  <2>2. ActiveRows \in [Plans -> {None} \cup PlanRow]  BY DEF ActiveRows, TypeOK
  <2>3. flow' = [flow EXCEPT ![f] = x]  BY <1>4 DEF ReadPlans, ActiveRows
  <2>4. x \in Syncs /\ x.rows = ActiveRows /\ x.lists = flow[f].lists
    BY <2>1, <2>2 DEF Syncs
  <2> HIDE DEF x
  <2>5. QED  BY <1>0, <1>4, <2>1, <2>3, <2>4 DEF ReadPlans
<1>5. ASSUME ReadLists(f)
      PROVE  /\ SyncFlow(f) /\ screen' = screen /\ flow[f] \in Syncs /\ flow'[f] \in Syncs
             /\ flow[f].rows # None /\ flow'[f].rows = flow[f].rows
             /\ flow'[f].lists = members
  <2> DEFINE x == [flow[f] EXCEPT !.lists = members]
  <2>1. flow[f] \in Syncs  BY <1>2, <1>5 DEF ReadLists, Reading
  <2>2. x \in Syncs /\ x.rows = flow[f].rows /\ x.lists = members
    BY <2>1 DEF Syncs, TypeOK
  <2>3. flow' = [flow EXCEPT ![f] = x]  BY <1>5 DEF ReadLists
  <2> HIDE DEF x
  <2>4. /\ UNCHANGED <<Server, drifted, had>> /\ screen' = screen
        /\ flow[f].rows # None
    BY <1>5 DEF ReadLists
  <2>5. SyncFlow(f) /\ flow'[f] = x  BY <1>0, <2>2, <2>3, <2>4
  <2>6. QED  BY <2>1, <2>2, <2>4, <2>5
<1>6. QED  BY <1>1, <1>3, <1>4, <1>5

LEMMA ConfirmSyncEffect ==
    ASSUME TypeOK, Rooted, NEW f \in Flows, ConfirmSync(f)
    PROVE  LET b == Owner[f]
               rows == flow[f].rows
           IN /\ b \in Browsers /\ SyncFlow(f) /\ flow'[f] = Past
              /\ flow[f] \in Syncs /\ flow[f].op = "sync"
              /\ rows # None /\ flow[f].lists # None
              /\ rows \in [Plans -> {None} \cup PlanRow]
              /\ flow[f].lists \in [Plans -> SUBSET Cases]
              /\ screen' \in [Browsers -> Screen]
              /\ screen'[b].open # None => screen'[b].plans[screen'[b].open] # None
              /\ \A c \in Browsers \ {b} : screen'[c] = screen[c]
              /\ \A p \in Plans :
                    screen'[b].plans[p] =
                      IF rows[p] = None THEN None
                      ELSE [title |-> rows[p].title,
                            queries |-> Local(rows[p], flow[f].lists[p])]
<1> DEFINE b == Owner[f]
           rows == flow[f].rows
           lists == flow[f].lists
           plans == [p \in Plans |-> IF rows[p] = None THEN None
                                     ELSE [title |-> rows[p].title,
                                           queries |-> Local(rows[p], lists[p])]]
           new == [screen[b] EXCEPT !.cases = flow[f].cases, !.plans = plans]
<1>1. At(f, "sync", "read") /\ flow[f].cases # None /\ lists # None
  BY DEF ConfirmSync
<1>2. flow[f] \in Syncs /\ flow[f].op = "sync"  BY <1>1, Kinds DEF At
<1>3. rows # None  BY <1>1, <1>2 DEF Rooted, RootedFlow
<1>4. /\ rows \in [Plans -> {None} \cup PlanRow] /\ lists \in [Plans -> SUBSET Cases]
      /\ flow[f].cases \in SUBSET Cases
  BY <1>1, <1>2, <1>3 DEF Syncs
<1>5. b \in Browsers /\ screen[b] \in Screen  BY OwnerIs
<1>6. \A p \in Plans : Local(rows[p], lists[p]) \in Queries \/ rows[p] = None
  <2>1. ASSUME NEW p \in Plans, rows[p] # None  PROVE Local(rows[p], lists[p]) \in Queries
    <3>1. rows[p] \in PlanRow /\ lists[p] \subseteq Cases  BY <1>4, <2>1
    <3>2. rows[p].queries \in Queries \cup {None}  BY <3>1 DEF PlanRow
    <3>3. Static(lists[p]) \in Group  BY <3>1, GroupOf DEF Static
    <3>4. <<Static(lists[p])>> \in Queries  BY <3>3 DEF Queries
    <3>5. QED  BY <3>2, <3>4 DEF Local
  <2>2. QED  BY <2>1
<1>7. plans \in [Plans -> {None} \cup LocalPlan]
  <2>1. ASSUME NEW p \in Plans, rows[p] # None
        PROVE  [title |-> rows[p].title, queries |-> Local(rows[p], lists[p])] \in LocalPlan
    <3>1. rows[p].title \in Title  BY <1>4, <2>1 DEF PlanRow
    <3>2. QED  BY <1>6, <2>1, <3>1 DEF LocalPlan
  <2>2. QED  BY <2>1
<1>8. Show(b, new)  BY DEF ConfirmSync
<1>9. \A p \in Plans : plans[p] = IF rows[p] = None THEN None
                                  ELSE [title |-> rows[p].title,
                                        queries |-> Local(rows[p], lists[p])]
  OBVIOUS
<1> HIDE DEF plans
<1>10. new \in Screen /\ new.plans = plans  BY <1>4, <1>5, <1>7 DEF Screen
<1> HIDE DEF new
<1>11. SyncFlow(f) /\ flow'[f] = Past
  <2>1. flow' = [flow EXCEPT ![f] = Past]  BY DEF ConfirmSync
  <2>2. QED  BY <2>1, OneFlow DEF FlowType, ConfirmSync, SyncFlow
<1>12. QED
  BY <1>1, <1>2, <1>3, <1>4, <1>5, <1>8, <1>9, <1>10, <1>11, ShowKeeps

LEMMA SyncTyped ==
    ASSUME TypeOK, Rooted, NEW f \in Flows,
           Sync(f) \/ ReadCases(f) \/ ReadPlans(f) \/ ReadLists(f) \/ ConfirmSync(f)
    PROVE  TypeOK' /\ Rooted'
<1>1. SyncFlow(f)  BY ReadEffect, ConfirmSyncEffect
<1>2. PlansLast /\ plan' = plan  BY <1>1 DEF SyncFlow, Server, PlansLast
<1>3. screen' \in [Browsers -> Screen]
  BY ReadEffect, ConfirmSyncEffect DEF TypeOK
<1>4. TypeOK'  BY <1>1, <1>3, TypeStep DEF SyncFlow, TypeOK, Server, AuditRow, Had
<1>5. RootedFlow(plan', f, flow'[f])
  <2>1. RootedFlow(plan, f, flow[f])  BY DEF Rooted
  <2>2. \A h \in Syncs : h.op = "sync"  BY DEF Syncs
  <2>3. CASE Sync(f)  BY <2>2, <2>3, ReadEffect DEF RootedFlow
  <2>4. CASE ReadCases(f)  BY <1>2, <2>1, <2>2, <2>4, ReadEffect DEF RootedFlow
  <2>5. CASE ReadPlans(f)
    <3>1. \A p \in Plans : ActiveRows[p] # None => plan[p] # None  BY DEF ActiveRows
    <3>2. /\ flow[f] \in Syncs /\ flow'[f] \in Syncs
          /\ flow[f].rows = None /\ flow'[f].rows = ActiveRows
          /\ flow'[f].lists = flow[f].lists
      BY <2>5, ReadEffect
    <3>3. flow'[f].lists = None  BY <2>1, <2>2, <3>2 DEF RootedFlow
    <3>4. QED  BY <1>2, <2>2, <3>1, <3>2, <3>3 DEF RootedFlow
  <2>6. CASE ReadLists(f)  BY <1>2, <2>1, <2>2, <2>6, ReadEffect DEF RootedFlow
  <2>7. CASE ConfirmSync(f)  BY <2>7, ConfirmSyncEffect DEF RootedFlow, Past
  <2>8. QED  BY <2>3, <2>4, <2>5, <2>6, <2>7
<1>6. \A b \in Browsers : RootedScreen(plan', screen'[b])
  <2>1. CASE screen' = screen  BY <1>2, <2>1, UnchangedSamePlans, RootedScreens
  <2>2. CASE ConfirmSync(f)
    <3>1. \A p \in Plans : flow[f].rows[p] # None => plan[p] # None
      BY <2>2, ConfirmSyncEffect DEF Rooted, RootedFlow
    <3>2. \A p \in Plans : screen'[Owner[f]].plans[p] # None => plan[p] # None
      BY <2>2, <3>1, ConfirmSyncEffect
    <3>3. QED  BY <1>2, <2>2, <3>2, ConfirmSyncEffect DEF Rooted, RootedScreen
  <2>3. QED  BY <2>1, <2>2, ReadEffect
<1>7. QED  BY <1>1, <1>2, <1>4, <1>5, <1>6, RootedStep DEF SyncFlow

\* A case comes or goes: all plans have drifted, and no call is clean.
LEMMA ChangeEffect ==
    ASSUME TypeOK, Rooted, NEW b \in Browsers, NEW f \in Flows, ChangeCases(b, f)
    PROVE  /\ UNCHANGED <<plan, members, audit, had>> /\ SamePlans
           /\ lib' \subseteq Cases /\ drifted' = {p \in Plans : plan[p] # None}
           /\ flow[f] = Idle /\ flow'[f] = Past /\ flow' \in [Flows -> FlowType]
           /\ \A g \in Flows \ {f} :
                 \/ flow'[g] = flow[g] /\ ~(Open(g) /\ flow[g] \in Writes)
                 \/ /\ flow[g] \in Writes /\ flow'[g] \in Writes /\ ~flow'[g].clean
                    /\ flow'[g].op = flow[g].op /\ flow'[g].pc = flow[g].pc
                    /\ flow'[g].plan = flow[g].plan /\ flow'[g].title = flow[g].title
                    /\ flow'[g].queries = flow[g].queries /\ flow'[g].ids = flow[g].ids
<1>1. PICK c \in Cases :
        /\ lib' = IF c \in lib THEN lib \ {c} ELSE lib \cup {c}
        /\ Show(b, [screen[b] EXCEPT !.cases = IF c \in lib THEN @ \ {c} ELSE @ \cup {c}])
  BY DEF ChangeCases
<1>2. lib' \subseteq Cases  BY <1>1 DEF TypeOK
<1>3. SamePlans
  <2> DEFINE cases == IF c \in lib THEN screen[b].cases \ {c} ELSE screen[b].cases \cup {c}
             new == [screen[b] EXCEPT !.cases = cases]
  <2>1. screen[b] \in Screen  BY DEF TypeOK
  <2>2. cases \in SUBSET Cases  BY <2>1 DEF Screen
  <2>3. Show(b, new)  BY <1>1
  <2> HIDE DEF cases
  <2>4. new \in Screen /\ new.plans = screen[b].plans  BY <2>1, <2>2 DEF Screen
  <2> HIDE DEF new
  <2>5. QED  BY <2>3, <2>4, ShowSamePlans
<1>4. ASSUME NEW g \in Flows \ {f}, Open(g), flow[g].op # "sync"
      PROVE  /\ flow[g] \in Writes /\ flow'[g] \in Writes /\ ~flow'[g].clean
             /\ flow'[g].op = flow[g].op /\ flow'[g].pc = flow[g].pc
             /\ flow'[g].plan = flow[g].plan /\ flow'[g].title = flow[g].title
             /\ flow'[g].queries = flow[g].queries /\ flow'[g].ids = flow[g].ids
  <2>1. flow[g] \in Writes  BY <1>4, Kinds
  <2>2. flow'[g] = [flow[g] EXCEPT !.clean = FALSE]  BY <1>4 DEF ChangeCases
  <2>3. QED  BY <2>1, <2>2 DEF Writes
<1>5. ASSUME NEW g \in Flows \ {f}, ~(Open(g) /\ flow[g].op # "sync")
      PROVE  flow'[g] = flow[g] /\ ~(Open(g) /\ flow[g] \in Writes)
  <2>1. flow[g] \in Writes => flow[g].op # "sync"  BY DEF Writes
  <2>2. QED  BY <1>5, <2>1 DEF ChangeCases
<1>6. flow[f] = Idle /\ flow'[f] = Past  BY DEF ChangeCases
<1>7. flow' \in [Flows -> FlowType]
  <2>1. \A g \in Flows : flow'[g] \in FlowType
    BY <1>4, <1>5, <1>6, Kinds DEF FlowType
  <2>2. DOMAIN flow' = Flows /\ flow' = [g \in Flows |-> flow'[g]]  BY DEF ChangeCases
  <2>3. QED  BY <2>1, <2>2
<1>8. QED
  BY <1>2, <1>3, <1>4, <1>5, <1>6, <1>7 DEF ChangeCases

LEMMA ChangeTyped ==
    ASSUME TypeOK, Rooted, NEW b \in Browsers, NEW f \in Flows, ChangeCases(b, f)
    PROVE  TypeOK' /\ Rooted'
<1>0. /\ UNCHANGED <<plan, members, audit, had>> /\ SamePlans
      /\ lib' \subseteq Cases /\ drifted' = {p \in Plans : plan[p] # None}
      /\ flow' \in [Flows -> FlowType] /\ flow'[f] = Past
  BY ChangeEffect
<1>1. TypeOK'  BY <1>0 DEF TypeOK, SamePlans, FlowType
<1>2. PlansLast  BY <1>0 DEF PlansLast
<1>3. ASSUME NEW g \in Flows \ {f}  PROVE RootedFlow(plan', g, flow'[g])
  <2>1. RootedFlow(plan, g, flow[g])  BY DEF Rooted
  <2>2. CASE flow'[g] = flow[g]  BY <1>0, <2>1, <2>2
  <2>3. CASE flow'[g] # flow[g]
    <3>1. /\ flow[g] \in Writes /\ flow'[g].op = flow[g].op /\ flow'[g].pc = flow[g].pc
          /\ flow'[g].plan = flow[g].plan /\ flow'[g].title = flow[g].title
          /\ flow'[g].queries = flow[g].queries /\ flow'[g].ids = flow[g].ids
      BY <2>3, ChangeEffect
    <3>2. flow[g].op # "sync"  BY <3>1 DEF Writes
    <3>3. QED  BY <1>0, <2>1, <3>1, <3>2 DEF RootedFlow
  <2>4. QED  BY <2>2, <2>3
<1>4. RootedFlow(plan', f, flow'[f])  BY <1>0 DEF RootedFlow, Past
<1>5. \A c \in Browsers : RootedScreen(plan', screen'[c])
  BY <1>0, <1>2, RootedScreens
<1>6. QED  BY <1>1, <1>3, <1>4, <1>5 DEF Rooted

-----------------------------------------------------------------------------
(* The steps, by kind *)

Serving(f) ==
    \/ PatchRow(f) \/ PatchAudit(f) \/ PutCases(f) \/ CreatePlan(f)
    \/ ArchiveRow(f) \/ ArchiveAudit(f) \/ CreateRun(f) \/ Fail(f)

Syncing(f) ==
    Sync(f) \/ ReadCases(f) \/ ReadPlans(f) \/ ReadLists(f) \/ ConfirmSync(f)

LEMMA StepKinds ==
    ASSUME TypeOK, Rooted, Next
    PROVE  \/ Browsing
           \/ \E f \in Flows : \/ Clicking(f) \/ Serving(f) \/ Confirming(f) \/ Syncing(f)
                               \/ ChangeCases(Owner[f], f)
<1>1. CASE \E b \in Browsers :
             \/ Navigate(b) \/ OpenEdit(b) \/ CloseEdit(b)
             \/ OpenCreate(b) \/ CloseCreate(b) \/ OpenSpawn(b) \/ CloseSpawn(b)
  BY <1>1, Browses
<1>2. CASE \E f \in Flows : LET b == Owner[f] IN
             \/ AddPlan(b, f) \/ SaveEdit(b, f) \/ DeletePlan(b, f)
             \/ AddGroup(b, f) \/ UpdateGroup(b, f) \/ RemoveGroup(b, f)
             \/ DuplicatePlan(b, f) \/ SpawnRun(b, f) \/ Sync(f)
             \/ ChangeCases(b, f)
  <2>1. PICK f \in Flows : LET b == Owner[f] IN
             \/ AddPlan(b, f) \/ SaveEdit(b, f) \/ DeletePlan(b, f)
             \/ AddGroup(b, f) \/ UpdateGroup(b, f) \/ RemoveGroup(b, f)
             \/ DuplicatePlan(b, f) \/ SpawnRun(b, f) \/ Sync(f)
             \/ ChangeCases(b, f)
    BY <1>2
  <2>2. Owner[f] \in Browsers  BY OwnerIs
  <2>3. QED  BY <2>1, <2>2, FormClicks, GroupClicks DEF Syncing
<1>3. CASE \E f \in Flows :
             \/ PatchRow(f) \/ PatchAudit(f) \/ PutCases(f)
             \/ CreatePlan(f) \/ ArchiveRow(f) \/ ArchiveAudit(f)
             \/ CreateRun(f) \/ Fail(f)
             \/ ConfirmUpdate(f) \/ ConfirmCreate(f) \/ ConfirmDelete(f)
             \/ ConfirmSpawn(f)
             \/ ReadCases(f) \/ ReadPlans(f) \/ ReadLists(f) \/ ConfirmSync(f)
  BY <1>3 DEF Serving, Confirming, Syncing
<1>4. QED  BY <1>1, <1>2, <1>3 DEF Next

LEMMA TypedNext ==
    ASSUME TypeOK, Rooted, [Next]_vars
    PROVE  TypeOK' /\ Rooted'
<1>1. CASE UNCHANGED vars
  BY <1>1 DEF vars, TypeOK, Rooted
<1>2. CASE Browsing  BY <1>2, BrowsingTyped
<1>3. ASSUME NEW f \in Flows,
             \/ Clicking(f) \/ Serving(f) \/ Confirming(f) \/ Syncing(f)
             \/ ChangeCases(Owner[f], f)
      PROVE  TypeOK' /\ Rooted'
  BY <1>3, ClickingTyped, ServerTyped, ConfirmTyped, SyncTyped, ChangeTyped, OwnerIs
  DEF Serving, Syncing
<1>4. QED  BY <1>1, <1>2, <1>3, StepKinds

LEMMA TypedInit ==
    ASSUME Init
    PROVE  TypeOK /\ Rooted
<1>1. \A cases \in SUBSET Cases : <<Static(cases)>> \in Queries
  <2>1. \A cases \in SUBSET Cases : Static(cases) \in Group  BY GroupOf DEF Static
  <2>2. QED  BY <2>1 DEF Queries
<1>2. SeedCases \in SUBSET Cases  BY PlanAssumption
<1>3. plan \in [Plans -> {None} \cup PlanRow]
  BY DEF Init, PlanRow, Title, Plans
<1>4. members \in [Plans -> SUBSET Cases]  BY <1>2 DEF Init
<1>5. had \in [Plans -> Had]  BY <1>1, <1>2 DEF Init, Had, Title, Plans
<1>6. screen \in [Browsers -> Screen]
  <2> DEFINE plans == [p \in Plans |-> IF p \in SeedPlans
                                       THEN [title |-> p, queries |-> <<Static(SeedCases)>>]
                                       ELSE None]
  <2>1. plans \in [Plans -> {None} \cup LocalPlan]
    BY <1>1, <1>2 DEF LocalPlan, Title, Plans
  <2>2. \A b \in Browsers :
           screen[b] = [plans |-> plans, cases |-> SeedCases, open |-> None,
                        pending |-> None, edit |-> Absent, form |-> "none"]
    BY DEF Init
  <2> HIDE DEF plans
  <2>3. \A b \in Browsers : screen[b] \in Screen  BY <1>2, <2>1, <2>2 DEF Screen
  <2>4. screen = [b \in Browsers |-> screen[b]]  BY DEF Init
  <2>5. QED  BY <2>3, <2>4
<1>7. TypeOK
  <2>1. /\ flow \in [Flows -> FlowType] /\ lib \subseteq Cases
        /\ audit = {} /\ drifted = {}
    BY <1>2 DEF Init, FlowType
  <2>2. QED  BY <1>3, <1>4, <1>5, <1>6, <2>1 DEF TypeOK, FlowType, Had
<1>8. \A b \in Browsers : RootedScreen(plan, screen[b])
  <2>1. \A p \in SeedPlans :
           [title |-> p, queries |-> None, archived |-> FALSE] \in PlanRow
    BY DEF PlanRow, Title, Plans
  <2>2. \A p \in SeedPlans : p \in Plans /\ plan[p] # None
    BY <2>1, NullAssumption DEF Init, Plans
  <2>3. QED  BY <2>2 DEF Init, RootedScreen
<1>9. \A f \in Flows : RootedFlow(plan, f, flow[f])  BY DEF Init, RootedFlow, Idle
<1>10. QED  BY <1>7, <1>8, <1>9 DEF Rooted

\* The variables keep their types, whatever crosses: the rows, screens and
\* flows that the actions write are such (PlansScreen, FreshProvider,
\* TestPlanService).
THEOREM PlanSyncTyped == Spec => []TypeOK
<1>1. Init => TypeOK /\ Rooted  BY TypedInit
<1>2. TypeOK /\ Rooted /\ [Next]_vars => (TypeOK /\ Rooted)'  BY TypedNext
<1>3. QED  BY <1>1, <1>2, PTL DEF Spec

-----------------------------------------------------------------------------
(* What was stored *)

\* History only grows.
HadGrows ==
    \A p \in Plans : /\ had[p].titles \subseteq had'[p].titles
                     /\ had[p].queries \subseteq had'[p].queries

\* Flow g stands where it stood, with what it was sent with.
SameCall(g) ==
    \/ flow'[g] = flow[g]
    \/ /\ flow[g] \in Writes /\ flow'[g].op = flow[g].op /\ flow'[g].pc = flow[g].pc
       /\ flow'[g].plan = flow[g].plan /\ flow'[g].title = flow[g].title
       /\ flow'[g].queries = flow[g].queries

LEMMA StoredFlowLasts ==
    ASSUME TypeOK, HadGrows, NEW g \in Flows, StoredFlow(g), SameCall(g)
    PROVE  StoredFlow(g)'
<1>1. flow[g].op \in WriteOps => flow[g].plan \in Plans  BY Kinds DEF Writes
<1>2. g \in Plans  BY DEF Plans
<1>3. CASE flow'[g] = flow[g]
  BY <1>1, <1>2, <1>3 DEF StoredFlow, HadGrows, HadTitle, HadQueries, WriteOps
<1>4. CASE flow[g] \in Writes /\ flow'[g] # flow[g]
  <2>1. flow[g].op # "sync"  BY <1>4 DEF Writes
  <2>2. QED  BY <1>1, <1>2, <1>4, <2>1
             DEF SameCall, StoredFlow, HadGrows, HadTitle, HadQueries, WriteOps
<1>5. QED  BY <1>3, <1>4 DEF SameCall

LEMMA StoredPlanLasts ==
    ASSUME HadGrows, NEW p \in Plans, StoredPlan(p),
           plan'[p] = plan[p], members'[p] = members[p]
    PROVE  StoredPlan(p)'
BY DEF StoredPlan, HadGrows, HadTitle, HadQueries

LEMMA StoredScreens ==
    ASSUME HadGrows, ScreensShowStored, SamePlans \/ screen' = screen
    PROVE  ScreensShowStored'
BY DEF ScreensShowStored, SamePlans, HadGrows

\* One call has gone on.
LEMMA StoredStep ==
    ASSUME TypeOK, Stored, HadGrows, NEW f \in Flows,
           \A g \in Flows \ {f} : SameCall(g), StoredFlow(f)',
           \A p \in Plans : StoredPlan(p)', ScreensShowStored'
    PROVE  Stored'
<1>1. \A g \in Flows \ {f} : StoredFlow(g)'  BY StoredFlowLasts DEF Stored
<1>2. QED  BY <1>1 DEF Stored

LEMMA HadSame ==
    ASSUME had' = had
    PROVE  HadGrows
BY DEF HadGrows

LEMMA BrowsingStored ==
    ASSUME TypeOK, Stored, Browsing
    PROVE  Stored'
<1>1. HadGrows  BY HadSame DEF Browsing
<1>2. ScreensShowStored'  BY <1>1, StoredScreens DEF Stored, Browsing
<1>3. \A p \in Plans : StoredPlan(p)'
  BY <1>1, StoredPlanLasts DEF Stored, Browsing, Server
<1>4. \A f \in Flows : StoredFlow(f)'
  <2>1. \A g \in Flows : SameCall(g)  BY DEF SameCall, Browsing
  <2>2. QED  BY <1>1, <2>1, StoredFlowLasts DEF Stored
<1>5. QED  BY <1>2, <1>3, <1>4 DEF Stored

LEMMA ClickingSame ==
    ASSUME TypeOK, NEW f \in Flows, Clicking(f)
    PROVE  \A g \in Flows \ {f} : SameCall(g)
<1>1. ASSUME NEW g \in Flows \ {f}, flow'[g] # flow[g]  PROVE SameCall(g)
  <2>1. flow'[g] = [flow[g] EXCEPT !.clean = FALSE] /\ Open(g) /\ flow[g].op = "update"
    BY <1>1 DEF Clicking, Crosses
  <2>2. flow[g] \in Writes  BY <2>1, Kinds DEF WriteOps
  <2>3. QED  BY <2>1, <2>2 DEF SameCall, Writes
<1>2. QED  BY <1>1 DEF SameCall

LEMMA ClickingStored ==
    ASSUME TypeOK, Stored, NEW f \in Flows, Clicking(f)
    PROVE  Stored'
<1>1. HadGrows  BY HadSame DEF Clicking
<1>2. ScreensShowStored'  BY <1>1, StoredScreens DEF Stored, Clicking
<1>3. \A p \in Plans : StoredPlan(p)'
  BY <1>1, StoredPlanLasts DEF Stored, Clicking, Server
<1>4. \A g \in Flows \ {f} : SameCall(g)  BY ClickingSame
<1>5. StoredFlow(f)'
  <2>1. flow'[f].pc = "write" /\ flow'[f].op # "sync"  BY DEF Clicking, Writes
  <2>2. QED  BY <2>1 DEF StoredFlow
<1>6. QED  BY <1>1, <1>2, <1>3, <1>4, <1>5, StoredStep

LEMMA ChangeStored ==
    ASSUME TypeOK, Rooted, Stored, NEW b \in Browsers, NEW f \in Flows, ChangeCases(b, f)
    PROVE  Stored'
<1>0. /\ UNCHANGED <<plan, members, audit, had>> /\ SamePlans /\ flow'[f] = Past
      /\ \A g \in Flows \ {f} : SameCall(g)
  BY ChangeEffect DEF SameCall
<1>1. HadGrows  BY <1>0, HadSame
<1>2. ScreensShowStored'  BY <1>0, <1>1, StoredScreens DEF Stored
<1>3. \A p \in Plans : StoredPlan(p)'  BY <1>0, <1>1, StoredPlanLasts DEF Stored
<1>4. StoredFlow(f)'  BY <1>0 DEF StoredFlow, Past
<1>5. QED  BY <1>0, <1>1, <1>2, <1>3, <1>4, StoredStep

LEMMA HadKept ==
    ASSUME NEW p \in Plans, HadKeeps(p)
    PROVE  HadGrows
BY DEF HadKeeps, HadGrows

\* A row that is kept is had; the others are as they were.
LEMMA KeptPlans ==
    ASSUME Stored, NEW p \in Plans, HadKeeps(p),
           \A q \in Plans \ {p} : plan'[q] = plan[q] /\ members'[q] = members[q]
    PROVE  \A q \in Plans : StoredPlan(q)'
<1>1. StoredPlan(p)'  BY DEF StoredPlan, HadKeeps, HadTitle, HadQueries
<1>2. QED  BY <1>1, HadKept, StoredPlanLasts DEF Stored

LEMMA ServerStored ==
    ASSUME TypeOK, Rooted, Stored, NEW f \in Flows, Serving(f)
    PROVE  Stored'
<1>1. CASE PatchRow(f)
  <2> DEFINE p == flow[f].plan
  <2>0. /\ RowWritten(p) /\ HadKeeps(p) /\ members' = members /\ flow[f] \in Writes
        /\ plan'[p].title = Sent(flow[f].title, plan[p].title)
        /\ plan'[p].queries = Sent(flow[f].queries, plan[p].queries)
    BY <1>1, PatchRowEffect
  <2>1. HadGrows /\ p \in Plans  BY <2>0, HadKept DEF RowWritten
  <2>2. GoneOn(f) /\ flow[f].op = "update" /\ screen' = screen
    BY <1>1, ServerFlow, ServerFrame
  <2>3. \A q \in Plans : StoredPlan(q)'  BY <2>0, <2>1, KeptPlans DEF RowWritten
  <2>4. StoredFlow(f)'
    <3>1. flow[f].title # Absent => flow[f].title \in had'[p].titles
      BY <2>0 DEF Sent, HadKeeps
    <3>2. flow[f].queries # Absent => flow[f].queries \in had'[p].queries
      <4>1. flow[f].queries # Absent => flow[f].queries # None
        BY <2>0, NullAssumption DEF Writes
      <4>2. QED  BY <2>0, <4>1 DEF Sent, HadKeeps
    <3>3. QED  BY <2>2, <3>1, <3>2 DEF StoredFlow, GoneOn, HadTitle, HadQueries
  <2>5. ScreensShowStored'  BY <2>1, <2>2, StoredScreens DEF Stored
  <2>6. QED  BY <2>1, <2>2, <2>3, <2>4, <2>5, StoredStep DEF GoneOn, SameCall
<1>2. CASE PutCases(f)
  <2> DEFINE p == flow[f].plan
  <2>0. /\ p \in Plans /\ plan' = plan /\ HadKeeps(p)
        /\ \A q \in Plans \ {p} : members'[q] = members[q]
    BY <1>2, PutCasesEffect
  <2>1. HadGrows  BY <2>0, HadKept
  <2>2. GoneOn(f) /\ flow[f].op = "update" /\ flow[f].pc = "put" /\ screen' = screen
    BY <1>2, ServerFlow, ServerFrame DEF PutCases, PUT, At
  <2>3. \A q \in Plans : StoredPlan(q)'  BY <2>0, KeptPlans
  <2>4. StoredFlow(f)'
    BY <2>0, <2>1, <2>2 DEF Stored, StoredFlow, GoneOn, HadGrows, HadTitle, HadQueries
  <2>5. ScreensShowStored'  BY <2>1, <2>2, StoredScreens DEF Stored
  <2>6. QED  BY <2>1, <2>2, <2>3, <2>4, <2>5, StoredStep DEF GoneOn, SameCall
<1>3. CASE CreatePlan(f)
  <2>0. /\ RowWritten(f) /\ HadKeeps(f) /\ plan'[f].title = f
        /\ flow[f].op \in {"create", "duplicate"}
        /\ flow[f].op = "create" => members'[f] = {}
        /\ flow[f].op = "duplicate" => /\ plan'[f].queries = flow[f].queries
                                       /\ plan'[f].queries \in Queries
        /\ \A q \in Plans \ {f} : members'[q] = members[q]
    BY <1>3, CreatePlanEffect
  <2>1. HadGrows /\ f \in Plans  BY <2>0, HadKept DEF RowWritten
  <2>2. GoneOn(f) /\ screen' = screen  BY <1>3, ServerFlow, ServerFrame
  <2>3. \A q \in Plans : StoredPlan(q)'  BY <2>0, <2>1, KeptPlans DEF RowWritten
  <2>4. StoredFlow(f)'
    <3>1. f \in had'[f].titles  BY <2>0 DEF HadKeeps
    <3>2. flow[f].op = "create" => <<Static({})>> \in had'[f].queries
      BY <2>0 DEF HadKeeps
    <3>3. flow[f].op = "duplicate" => flow[f].queries \in had'[f].queries
      BY <2>0, NullAssumption DEF HadKeeps
    <3>4. flow'[f].op \in {"create", "duplicate"} /\ flow'[f].op = flow[f].op
          /\ flow'[f].queries = flow[f].queries
      BY <2>0, <2>2 DEF GoneOn
    <3>5. QED  BY <3>1, <3>2, <3>3, <3>4 DEF StoredFlow, HadTitle, HadQueries
  <2>5. ScreensShowStored'  BY <2>1, <2>2, StoredScreens DEF Stored
  <2>6. QED  BY <2>1, <2>2, <2>3, <2>4, <2>5, StoredStep DEF GoneOn, SameCall
<1>4. CASE PatchAudit(f) \/ ArchiveRow(f) \/ ArchiveAudit(f) \/ CreateRun(f) \/ Fail(f)
  <2>1. GoneOn(f) /\ screen' = screen /\ members' = members /\ had' = had
    BY <1>4, ServerFlow, ServerFrame DEF Server
  <2>2. HadGrows  BY <2>1, HadSame
  <2>3. \A q \in Plans : StoredPlan(q)'
    <3>1. CASE ArchiveRow(f)
      <4>1. PICK p \in Plans :
              /\ RowWritten(p) /\ plan[p] # None /\ plan'[p].title = plan[p].title
              /\ plan'[p].queries = plan[p].queries
        BY <3>1, ArchiveRowEffect DEF RowWritten
      <4>2. StoredPlan(p)'
        BY <2>1, <4>1 DEF RowWritten, Stored, StoredPlan, HadTitle, HadQueries
      <4>3. QED  BY <2>1, <2>2, <4>1, <4>2, StoredPlanLasts DEF RowWritten, Stored
    <3>2. CASE plan' = plan  BY <2>1, <2>2, <3>2, StoredPlanLasts DEF Stored
    <3>3. QED  BY <1>4, <3>1, <3>2, ServerFrame DEF Server
  <2>4. StoredFlow(f)'
    <3>1. flow'[f].op # "sync" /\ flow'[f].op = flow[f].op  BY <2>1 DEF GoneOn, Writes
    <3>2. CASE PatchAudit(f)
      <4>1. flow[f].op = "update" /\ flow[f].pc = "audit"
        BY <3>2 DEF PatchAudit, At
      <4>2. QED  BY <2>1, <4>1 DEF Stored, StoredFlow, GoneOn, HadTitle, HadQueries
    <3>3. CASE ArchiveRow(f) \/ ArchiveAudit(f) \/ CreateRun(f)
      BY <3>1, <3>3, ServerFlow DEF StoredFlow
    <3>4. CASE Fail(f)
      <4>1. flow'[f].pc \in {"unaudited", "failed"}  BY <3>4, ServerFlow
      <4>2. QED  BY <3>1, <4>1 DEF StoredFlow
    <3>5. QED  BY <1>4, <3>2, <3>3, <3>4
  <2>5. ScreensShowStored'  BY <2>1, <2>2, StoredScreens DEF Stored
  <2>6. QED  BY <2>1, <2>2, <2>3, <2>4, <2>5, StoredStep DEF GoneOn, SameCall
<1>5. QED  BY <1>1, <1>2, <1>3, <1>4 DEF Serving

\* A screen that has got one row of a plan shows what was stored, if that was.
LEMMA ReplacedStored ==
    ASSUME ScreensShowStored, NEW b, NEW p, NEW row, Replaced(b, p, row), had' = had,
           row # None => row.title \in had[p].titles /\ row.queries \in had[p].queries
    PROVE  ScreensShowStored'
BY DEF ScreensShowStored, Replaced

LEMMA ConfirmStored ==
    ASSUME TypeOK, Rooted, Stored, NEW f \in Flows, Confirming(f)
    PROVE  Stored'
<1>1. UNCHANGED <<plan, members, had>>  BY ConfirmFrame DEF Server
<1>2. HadGrows  BY <1>1, HadSame
<1>3. \A p \in Plans : StoredPlan(p)'  BY <1>1, <1>2, StoredPlanLasts DEF Stored
<1>4. GoneOn(f) /\ flow'[f].pc = "done"
  BY ConfirmUpdateEffect, ConfirmCreateEffect, ConfirmDeleteEffect, ConfirmSpawnEffect
  DEF Confirming
<1>5. StoredFlow(f)'
  <2>1. flow'[f].op # "sync"  BY <1>4 DEF GoneOn, Writes
  <2>2. QED  BY <1>4, <2>1 DEF StoredFlow
<1>6. ScreensShowStored'
  <2>0. Owner[f] \in Browsers /\ ScreensShowStored  BY OwnerIs DEF Stored
  <2>1. CASE ConfirmUpdate(f)
    <3> DEFINE p == flow[f].plan
               old == screen[Owner[f]].plans[p]
               row == IF old = None THEN None
                      ELSE [title |-> Sent(flow[f].title, old.title),
                            queries |-> Sent(flow[f].queries, old.queries)]
    <3>1. /\ flow[f].op = "update" /\ flow[f].pc = "answered"
          /\ Replaced(Owner[f], p, row)
      BY <2>1, ConfirmUpdateEffect
    <3>2. p \in Plans  BY <3>1 DEF Replaced
    <3>3. old # None => old.title \in had[p].titles /\ old.queries \in had[p].queries
      BY <2>0, <3>2 DEF ScreensShowStored
    <3>4. /\ flow[f].title # Absent => flow[f].title \in had[p].titles
          /\ flow[f].queries # Absent => flow[f].queries \in had[p].queries
      BY <3>1 DEF Stored, StoredFlow, HadTitle, HadQueries
    <3>5. row # None => row.title \in had[p].titles /\ row.queries \in had[p].queries
      BY <3>3, <3>4 DEF Sent
    <3> HIDE DEF row, p
    <3>6. QED  BY <1>1, <2>0, <3>1, <3>5, ReplacedStored
  <2>2. CASE ConfirmCreate(f)
    <3> DEFINE queries == IF flow[f].op = "create" THEN <<Static({})>>
                                                   ELSE flow[f].queries
               row == [title |-> f, queries |-> queries]
    <3>1. /\ flow[f].op \in {"create", "duplicate"} /\ flow[f].pc = "answered"
          /\ Replaced(Owner[f], f, row)
      BY <2>2, ConfirmCreateEffect
    <3>2. f \in had[f].titles /\ queries \in had[f].queries
      BY <3>1 DEF Stored, StoredFlow, HadTitle, HadQueries
    <3> HIDE DEF queries
    <3>3. row.title \in had[f].titles /\ row.queries \in had[f].queries  BY <3>2
    <3> HIDE DEF row
    <3>4. QED  BY <1>1, <2>0, <3>1, <3>3, ReplacedStored
  <2>3. CASE ConfirmDelete(f)
    <3>1. Replaced(Owner[f], flow[f].plan, None)  BY <2>3, ConfirmDeleteEffect
    <3>2. QED  BY <1>1, <2>0, <3>1, ReplacedStored
  <2>4. CASE ConfirmSpawn(f)
    <3>1. SamePlans  BY <2>4, ConfirmSpawnEffect
    <3>2. QED  BY <1>2, <2>0, <3>1, StoredScreens
  <2>5. QED  BY <2>1, <2>2, <2>3, <2>4 DEF Confirming
<1>7. QED  BY <1>2, <1>3, <1>4, <1>5, <1>6, StoredStep DEF GoneOn, SameCall

\* A sync reads the cases of plans after their rows, and a plan it has a row of
\* is a plan when it reads them.
LEMMA SyncStored ==
    ASSUME TypeOK, Rooted, Stored, NEW f \in Flows, Syncing(f)
    PROVE  Stored'
<1>1. SyncFlow(f)  BY ReadEffect, ConfirmSyncEffect DEF Syncing
<1>2. UNCHANGED <<plan, members, had>>  BY <1>1 DEF SyncFlow, Server
<1>3. HadGrows  BY <1>2, HadSame
<1>4. \A p \in Plans : StoredPlan(p)'  BY <1>2, <1>3, StoredPlanLasts DEF Stored
<1>5. \A h \in Syncs : h.op = "sync"  BY DEF Syncs
<1>6. StoredFlow(f) /\ RootedFlow(plan, f, flow[f])  BY DEF Stored, Rooted
<1>7. StoredFlow(f)'
  <2>1. CASE Sync(f)
    <3>1. flow'[f].op = "sync" /\ flow'[f].rows = None  BY <1>5, <2>1, ReadEffect
    <3>2. QED  BY <3>1 DEF StoredFlow
  <2>2. CASE ReadCases(f)
    <3>1. /\ flow[f].op = "sync" /\ flow'[f].op = "sync"
          /\ flow'[f].rows = flow[f].rows /\ flow'[f].lists = flow[f].lists
      BY <1>5, <2>2, ReadEffect
    <3>2. QED  BY <1>2, <1>6, <3>1 DEF StoredFlow, HadTitle, HadQueries
  <2>3. CASE ReadPlans(f)
    <3>1. /\ flow[f].op = "sync" /\ flow'[f].op = "sync" /\ flow[f].rows = None
          /\ flow'[f].rows = ActiveRows /\ flow'[f].lists = flow[f].lists
      BY <1>5, <2>3, ReadEffect
    <3>2. flow'[f].lists = None  BY <1>6, <3>1 DEF RootedFlow
    <3>3. \A p \in Plans : ActiveRows[p] # None => ActiveRows[p] = plan[p]
      BY DEF ActiveRows
    <3>4. QED
      BY <1>2, <3>1, <3>2, <3>3 DEF Stored, StoredPlan, StoredFlow, HadTitle, HadQueries
  <2>4. CASE ReadLists(f)
    <3>1. /\ flow[f].op = "sync" /\ flow'[f].op = "sync" /\ flow[f].rows # None
          /\ flow'[f].rows = flow[f].rows /\ flow'[f].lists = members
      BY <1>5, <2>4, ReadEffect
    <3>2. \A p \in Plans : flow[f].rows[p] # None => plan[p] # None
      BY <1>6, <3>1 DEF RootedFlow
    <3>3. QED
      BY <1>2, <1>6, <3>1, <3>2 DEF Stored, StoredPlan, StoredFlow, HadTitle, HadQueries
  <2>5. CASE ConfirmSync(f)
    <3>1. flow'[f] = Past  BY <2>5, ConfirmSyncEffect
    <3>2. QED  BY <3>1 DEF StoredFlow, Past
  <2>6. QED  BY <2>1, <2>2, <2>3, <2>4, <2>5 DEF Syncing
<1>8. ScreensShowStored'
  <2>1. CASE screen' = screen  BY <1>3, <2>1, StoredScreens DEF Stored
  <2>2. CASE ConfirmSync(f)
    <3> DEFINE b == Owner[f]
               rows == flow[f].rows
               lists == flow[f].lists
    <3>1. /\ b \in Browsers /\ flow[f].op = "sync" /\ rows # None /\ lists # None
          /\ \A c \in Browsers \ {b} : screen'[c] = screen[c]
          /\ \A p \in Plans :
                screen'[b].plans[p] = IF rows[p] = None THEN None
                                      ELSE [title |-> rows[p].title,
                                            queries |-> Local(rows[p], lists[p])]
      BY <2>2, ConfirmSyncEffect
    <3>2. ASSUME NEW p \in Plans, rows[p] # None
          PROVE  rows[p].title \in had[p].titles
                 /\ Local(rows[p], lists[p]) \in had[p].queries
      <4>1. /\ rows[p].title \in had[p].titles
            /\ rows[p].queries # None => rows[p].queries \in had[p].queries
            /\ <<Static(lists[p])>> \in had[p].queries
        BY <1>6, <3>1, <3>2 DEF StoredFlow, HadTitle, HadQueries
      <4>2. QED  BY <4>1 DEF Local
    <3>3. \A p \in Plans : screen'[b].plans[p] # None =>
             /\ screen'[b].plans[p].title \in had[p].titles
             /\ screen'[b].plans[p].queries \in had[p].queries
      <4>1. ASSUME NEW p \in Plans, screen'[b].plans[p] # None
            PROVE  /\ screen'[b].plans[p].title \in had[p].titles
                   /\ screen'[b].plans[p].queries \in had[p].queries
        <5>1. /\ rows[p] # None
              /\ screen'[b].plans[p] = [title |-> rows[p].title,
                                        queries |-> Local(rows[p], lists[p])]
          BY <3>1, <4>1
        <5>2. /\ screen'[b].plans[p].title = rows[p].title
              /\ screen'[b].plans[p].queries = Local(rows[p], lists[p])
          BY <5>1
        <5>3. QED  BY <3>2, <5>1, <5>2
      <4>2. QED  BY <4>1
    <3>4. QED  BY <1>2, <3>1, <3>3 DEF Stored, ScreensShowStored
  <2>3. QED  BY <2>1, <2>2, ReadEffect DEF Syncing
<1>9. QED  BY <1>1, <1>3, <1>4, <1>7, <1>8, StoredStep DEF SyncFlow, SameCall

LEMMA StoredNext ==
    ASSUME TypeOK, Rooted, Stored, [Next]_vars
    PROVE  Stored'
<1>1. CASE UNCHANGED vars
  BY <1>1 DEF vars, Stored, StoredPlan, StoredFlow, ScreensShowStored, HadTitle, HadQueries
<1>2. CASE Browsing  BY <1>2, BrowsingStored
<1>3. ASSUME NEW f \in Flows,
             \/ Clicking(f) \/ Serving(f) \/ Confirming(f) \/ Syncing(f)
             \/ ChangeCases(Owner[f], f)
      PROVE  Stored'
  BY <1>3, ClickingStored, ServerStored, ConfirmStored, SyncStored, ChangeStored, OwnerIs
<1>4. QED  BY <1>1, <1>2, <1>3, StepKinds

LEMMA StoredInit ==
    ASSUME Init
    PROVE  Stored
<1>1. \A p \in Plans : plan[p] # None => p \in SeedPlans  BY DEF Init
<1>2. \A p \in SeedPlans : p \in Plans  BY DEF Plans
<1>3. \A p \in Plans : StoredPlan(p)
  BY <1>1, <1>2 DEF Init, StoredPlan, HadTitle, HadQueries
<1>4. \A f \in Flows : StoredFlow(f)  BY DEF Init, Idle, StoredFlow
<1>5. ScreensShowStored  BY <1>2 DEF Init, ScreensShowStored
<1>6. QED  BY <1>3, <1>4, <1>5 DEF Stored

\* A screen shows of a plan only titles and queries that were stored: writes are
\* confirmed before they land in state, and a sync takes rows and their cases
\* from the server (FreshProvider.tsx:1446-1448, 2006-2011).
THEOREM ScreensStored == Spec => []ScreensShowStored
<1>1. Init => TypeOK /\ Rooted /\ Stored  BY TypedInit, StoredInit
<1>2. TypeOK /\ Rooted /\ Stored /\ [Next]_vars => (TypeOK /\ Rooted /\ Stored)'
  BY TypedNext, StoredNext
<1>3. Stored => ScreensShowStored  BY DEF Stored
<1>4. QED  BY <1>1, <1>2, <1>3, PTL DEF Spec

-----------------------------------------------------------------------------
(* The audit log *)

\* What the log, or the place where call g stands, tells of it stays so.
CallLasts(g) ==
    LET h == flow[g] IN
    /\ h.op \in {"update", "delete", "duplicate"} =>
          /\ flow'[g].op = h.op /\ flow'[g].plan = h.plan
          /\ flow'[g].title = h.title /\ flow'[g].queries = h.queries
    /\ h.op = "update" /\ Logged(g, "updated") => Logged(g, "updated")'
    /\ h.op = "delete" /\ Logged(g, "archived") => Logged(g, "archived")'

LEMMA AuditedLasts ==
    ASSUME NEW p \in Plans, AuditedPlan(p), plan'[p] = plan[p],
           \A g \in Flows : CallLasts(g)
    PROVE  AuditedPlan(p)'
BY DEF AuditedPlan, CallLasts, Updating

LEMMA SameCallLasts ==
    ASSUME NEW g \in Flows, SameCall(g), audit \subseteq audit'
    PROVE  CallLasts(g)
BY DEF SameCall, CallLasts, Logged

LEMMA ServerCalls ==
    ASSUME TypeOK, NEW f \in Flows, Serving(f)
    PROVE  \A g \in Flows : CallLasts(g)
<1>1. audit \subseteq audit' /\ GoneOn(f)
  BY ServerFrame, ServerFlow DEF Serving, Server
<1>2. \A g \in Flows \ {f} : CallLasts(g)  BY <1>1, SameCallLasts DEF GoneOn, SameCall
<1>3. CASE PatchRow(f)
  <2>1. flow[f].op = "update" /\ flow'[f].pc = "audit"  BY <1>3, ServerFlow
  <2>2. QED  BY <1>1, <1>2, <2>1 DEF CallLasts, Logged, GoneOn
<1>4. CASE PatchAudit(f)
  <2>1. flow[f].op = "update" /\ audit' = audit \cup {<<f, "updated">>}
    BY <1>4, ServerFlow, ServerFrame
  <2>2. QED  BY <1>1, <1>2, <2>1 DEF CallLasts, Logged, GoneOn
<1>5. CASE PutCases(f)
  <2>1. flow[f].op = "update" /\ flow[f].pc = "put"  BY <1>5 DEF PutCases, PUT, At
  <2>2. QED  BY <1>1, <1>2, <2>1 DEF CallLasts, Logged, GoneOn
<1>6. CASE CreatePlan(f) \/ CreateRun(f)
  <2>1. flow[f].op \in {"create", "duplicate", "spawn"}  BY <1>6, ServerFlow
  <2>2. QED  BY <1>1, <1>2, <2>1 DEF CallLasts, GoneOn
<1>7. CASE ArchiveRow(f)
  <2>1. flow[f].op = "delete" /\ flow'[f].pc = "audit"  BY <1>7, ServerFlow
  <2>2. QED  BY <1>1, <1>2, <2>1 DEF CallLasts, Logged, GoneOn
<1>8. CASE ArchiveAudit(f)
  <2>1. flow[f].op = "delete" /\ audit' = audit \cup {<<f, "archived">>}
    BY <1>8, ServerFlow, ServerFrame
  <2>2. QED  BY <1>1, <1>2, <2>1 DEF CallLasts, Logged, GoneOn
<1>9. CASE Fail(f)
  <2>1. /\ flow'[f].pc = IF flow[f].pc = "audit" THEN "unaudited" ELSE "failed"
        /\ flow[f].pc # "unaudited"
    BY <1>9, ServerFlow DEF Open
  <2>2. QED  BY <1>1, <1>2, <2>1 DEF CallLasts, Logged, GoneOn
<1>10. QED  BY <1>3, <1>4, <1>5, <1>6, <1>7, <1>8, <1>9 DEF Serving

LEMMA ServerAudited ==
    ASSUME TypeOK, Rooted, Audited, NEW f \in Flows, Serving(f)
    PROVE  Audited'
<1>1. \A g \in Flows : CallLasts(g)  BY ServerCalls
<1>2. GoneOn(f)  BY ServerFlow DEF Serving
<1>3. \A q \in Plans : plan'[q] = plan[q] => AuditedPlan(q)'
  BY <1>1, AuditedLasts DEF Audited
<1>4. CASE PatchRow(f)
  <2>1. PICK p \in Plans :
          /\ p = flow[f].plan /\ RowWritten(p) /\ plan[p] # None
          /\ plan'[p].title = Sent(flow[f].title, plan[p].title)
          /\ plan'[p].queries = Sent(flow[f].queries, plan[p].queries)
          /\ plan'[p].archived = plan[p].archived
    BY <1>4, PatchRowEffect DEF RowWritten
  <2>2. Updating(f, p)' /\ Logged(f, "updated")' /\ flow'[f].title = flow[f].title
        /\ flow'[f].queries = flow[f].queries
    BY <1>2, <1>4, <2>1, ServerFlow DEF Updating, Logged, GoneOn
  <2>3. AuditedPlan(p)
    BY DEF Audited
  <2>4. plan'[p].title # p =>
           \E g \in Flows : /\ Updating(g, p)' /\ Logged(g, "updated")'
                            /\ flow'[g].title = plan'[p].title
    BY <1>1, <2>1, <2>2, <2>3 DEF Sent, AuditedPlan, CallLasts, Updating
  <2>5. plan'[p].queries # None =>
           \/ \E g \in Flows : /\ Updating(g, p)' /\ Logged(g, "updated")'
                               /\ flow'[g].queries = plan'[p].queries
           \/ /\ p \in Flows /\ flow'[p].op = "duplicate"
              /\ flow'[p].queries = plan'[p].queries
    BY <1>1, <2>1, <2>2, <2>3 DEF Sent, AuditedPlan, CallLasts, Updating
  <2>6. plan'[p].archived =>
           \E g \in Flows : /\ flow'[g].op = "delete" /\ flow'[g].plan = p
                            /\ Logged(g, "archived")'
    BY <1>1, <2>1, <2>3 DEF AuditedPlan, CallLasts
  <2>7. AuditedPlan(p)'  BY <2>4, <2>5, <2>6 DEF AuditedPlan
  <2>8. QED  BY <1>3, <2>1, <2>7 DEF Audited, RowWritten
<1>5. CASE CreatePlan(f)
  <2>1. /\ RowWritten(f) /\ plan'[f].title = f /\ ~plan'[f].archived
        /\ flow[f].op \in {"create", "duplicate"}
        /\ flow[f].op = "create" => plan'[f].queries = None
        /\ flow[f].op = "duplicate" => plan'[f].queries = flow[f].queries
    BY <1>5, CreatePlanEffect
  <2>2. AuditedPlan(f)'  BY <1>2, <2>1 DEF AuditedPlan, GoneOn
  <2>3. QED  BY <1>3, <2>1, <2>2 DEF Audited, RowWritten
<1>6. CASE ArchiveRow(f)
  <2>1. PICK p \in Plans :
          /\ p = flow[f].plan /\ RowWritten(p) /\ plan[p] # None
          /\ plan'[p].title = plan[p].title /\ plan'[p].queries = plan[p].queries
    BY <1>6, ArchiveRowEffect DEF RowWritten
  <2>2. flow'[f].op = "delete" /\ flow'[f].plan = p /\ Logged(f, "archived")'
    BY <1>2, <1>6, <2>1, ServerFlow DEF Logged, GoneOn
  <2>3. AuditedPlan(p)  BY DEF Audited
  <2>4. AuditedPlan(p)'  BY <1>1, <2>1, <2>2, <2>3 DEF AuditedPlan, CallLasts, Updating
  <2>5. QED  BY <1>3, <2>1, <2>4 DEF Audited, RowWritten
<1>7. CASE plan' = plan  BY <1>3, <1>7 DEF Audited
<1>8. QED  BY <1>4, <1>5, <1>6, <1>7, ServerFrame, PutCasesEffect DEF Serving, Server

LEMMA AuditedNext ==
    ASSUME TypeOK, Rooted, Audited, [Next]_vars
    PROVE  Audited'
<1>1. ASSUME plan' = plan, \A g \in Flows : CallLasts(g)  PROVE Audited'
  BY <1>1, AuditedLasts DEF Audited
<1>2. CASE UNCHANGED vars
  <2>1. \A g \in Flows : CallLasts(g)  BY <1>2 DEF vars, CallLasts, Logged
  <2>2. QED  BY <1>1, <1>2, <2>1 DEF vars
<1>3. CASE Browsing
  <2>1. \A g \in Flows : CallLasts(g)  BY <1>3 DEF Browsing, Server, CallLasts, Logged
  <2>2. QED  BY <1>1, <1>3, <2>1 DEF Browsing, Server
<1>4. ASSUME NEW f \in Flows, Clicking(f)  PROVE Audited'
  <2>1. \A g \in Flows \ {f} : SameCall(g)  BY <1>4, ClickingSame
  <2>2. flow[f].op = "none" /\ plan' = plan /\ audit' = audit
    BY <1>4 DEF Clicking, Idle, Server
  <2>3. \A g \in Flows : CallLasts(g)  BY <2>1, <2>2, SameCallLasts DEF CallLasts
  <2>4. QED  BY <1>1, <2>2, <2>3
<1>5. ASSUME NEW f \in Flows, Serving(f)  PROVE Audited'  BY <1>5, ServerAudited
<1>6. ASSUME NEW f \in Flows, Confirming(f)  PROVE Audited'
  <2>1. plan' = plan /\ audit' = audit  BY <1>6, ConfirmFrame DEF Server
  <2>2. GoneOn(f)
    BY <1>6, ConfirmUpdateEffect, ConfirmCreateEffect, ConfirmDeleteEffect,
       ConfirmSpawnEffect DEF Confirming
  <2>3. flow[f].pc = "answered"
    BY <1>6 DEF Confirming, ConfirmUpdate, ConfirmCreate, ConfirmDelete, ConfirmSpawn, At
  <2>4. \A g \in Flows \ {f} : CallLasts(g)
    BY <2>1, <2>2, SameCallLasts DEF GoneOn, SameCall
  <2>5. CallLasts(f)  BY <2>1, <2>2, <2>3 DEF CallLasts, GoneOn, Logged
  <2>6. QED  BY <1>1, <2>1, <2>4, <2>5
<1>7. ASSUME NEW f \in Flows, Syncing(f)  PROVE Audited'
  <2>1. SyncFlow(f)  BY <1>7, ReadEffect, ConfirmSyncEffect DEF Syncing
  <2>2. plan' = plan /\ audit' = audit  BY <2>1 DEF SyncFlow, Server
  <2>3. flow[f].op \in {"none", "sync"}
    BY <1>7 DEF Syncing, Sync, ReadCases, ReadPlans, ReadLists, Reading, ConfirmSync, At,
                Idle
  <2>4. \A g \in Flows : CallLasts(g)
    BY <2>1, <2>2, <2>3, SameCallLasts DEF SyncFlow, SameCall, CallLasts
  <2>5. QED  BY <1>1, <2>2, <2>4
<1>8. ASSUME NEW f \in Flows, ChangeCases(Owner[f], f)  PROVE Audited'
  <2>1. /\ plan' = plan /\ audit' = audit /\ flow[f].op = "none"
        /\ \A g \in Flows \ {f} : SameCall(g)
    BY <1>8, ChangeEffect, OwnerIs DEF SameCall, Idle
  <2>2. \A g \in Flows : CallLasts(g)  BY <2>1, SameCallLasts DEF CallLasts
  <2>3. QED  BY <1>1, <2>1, <2>2
<1>9. QED  BY <1>2, <1>3, <1>4, <1>5, <1>6, <1>7, <1>8, StepKinds

\* Every plan's title, queries and archiving are named by an audit row, unless
\* the handler that wrote them stands, or has stopped, between its two
\* statements (TestPlanService.ts:458-470, 551-560).
THEOREM EveryPlanAudited == Spec => []PlansAudited
<1>1. Init => TypeOK /\ Rooted /\ Audited
  <2>1. Init => Audited  BY DEF Init, Audited, AuditedPlan
  <2>2. QED  BY <2>1, TypedInit
<1>2. TypeOK /\ Rooted /\ Audited /\ [Next]_vars => (TypeOK /\ Rooted /\ Audited)'
  BY TypedNext, AuditedNext
<1>3. Audited => PlansAudited
  BY DEF Audited, AuditedPlan, PlansAudited, Updating, Logged
<1>4. QED  BY <1>1, <1>2, <1>3, PTL DEF Spec

-----------------------------------------------------------------------------
(* Saves of queries and of cases *)

\* The cases of a plan without queries are found by the group that stands for
\* them, if they are cases there are.
LEMMA StaticResolves ==
    ASSUME NEW cases \in SUBSET lib
    PROVE  cases = Resolve(<<Static(cases)>>, lib)
<1>1. DOMAIN <<Static(cases)>> = {1} /\ <<Static(cases)>>[1] = Static(cases)  OBVIOUS
<1>2. Matched(Static(cases)) = cases  BY DEF Matched, Static
<1>3. UNION {Matched(<<Static(cases)>>[i]) : i \in DOMAIN <<Static(cases)>>} = cases
  BY <1>1, <1>2
<1>4. QED  BY <1>3 DEF Resolve

\* What the queries of a row find, stored with it, is what it finds.
LEMMA LocalResolves ==
    ASSUME NEW row, NEW cases,
           (row.queries = None /\ cases \in SUBSET lib) \/ cases = Resolve(row.queries, lib)
    PROVE  cases = Resolve(Local(row, cases), lib)
<1>1. cases \in SUBSET lib  BY ResolveIsSubset
<1>2. QED  BY <1>1, StaticResolves DEF Local

\* No call has come to be under way on a plan.
NoneCrosses == \A g \in Flows, p \in Plans : Crosses(g, p)' => Crosses(g, p)

\* A plan keeps what it finds unless it has drifted.
PlanLasts(p) ==
    \/ p \in drifted'
    \/ plan'[p] = None
    \/ /\ plan[p] # None /\ p \notin drifted
       /\ plan'[p].queries = plan[p].queries /\ members'[p] = members[p]
    \/ members'[p] = Resolve(Local(plan'[p], members'[p]), lib')

LEMMA PlansResolveLast ==
    ASSUME TypeOK, PlansResolve, lib' = lib, \A p \in Plans : PlanLasts(p)
    PROVE  PlansResolve'
<1>1. ASSUME NEW p \in Plans, plan'[p] # None, p \notin drifted',
             plan[p] # None, p \notin drifted,
             plan'[p].queries = plan[p].queries, members'[p] = members[p]
      PROVE  members'[p] = Resolve(Local(plan'[p], members'[p]), lib')
  BY <1>1 DEF PlansResolve, Local
<1>2. QED  BY <1>1 DEF PlansResolve, PlanLasts

\* A call that stands is as sound as it was, if nothing crosses it, and its plan
\* has drifted, and the queries of its plan, if it is clean, are still its own.
LEMMA SaveLasts ==
    ASSUME TypeOK, NEW g \in Flows, SaveSound(g), CopySound(g), lib' = lib,
           flow'[g] = flow[g], NoneCrosses,
           Saving(g) /\ flow[g].pc \in {"audit", "put"} =>
               /\ flow[g].plan \in drifted'
               /\ flow[g].clean =>
                     plan'[flow[g].plan].queries = plan[flow[g].plan].queries
    PROVE  SaveSound(g)' /\ CopySound(g)'
<1>1. Saving(g) => flow[g].plan \in Plans  BY Kinds DEF Saving, Writes, WriteOps
<1>2. Open(g)' = Open(g) /\ Saving(g)' = Saving(g)  BY DEF Open, Saving
<1>3. SaveSound(g)'  BY <1>1, <1>2 DEF SaveSound, NoneCrosses, Open
<1>4. CopySound(g)'  BY DEF CopySound
<1>5. QED  BY <1>3, <1>4

LEMMA GoneOnCrosses ==
    ASSUME NEW f \in Flows, GoneOn(f), Open(f)
    PROVE  NoneCrosses
BY DEF GoneOn, NoneCrosses, Crosses, Open

LEMMA StandsCrosses ==
    ASSUME \A g \in Flows : flow'[g] = flow[g] \/ flow'[g] \in Syncs \/ flow'[g] = Past
    PROVE  NoneCrosses
BY DEF NoneCrosses, Crosses, Open, Syncs, Past

\* A call and its plan, when other calls go on.
LEMMA MakingLasts ==
    ASSUME NEW g \in Flows, Making(g), plan'[g] # None => plan[g] # None,
           flow'[g].op = flow[g].op, flow'[g].pc = flow[g].pc,
           flow'[g].queries = flow[g].queries \/ flow[g].op # "update"
    PROVE  Making(g)'
BY DEF Making, At

LEMMA CrossingIsOpen ==
    ASSUME TypeOK, NEW g \in Flows, Saving(g), Open(g)
    PROVE  flow[g].plan \in Plans /\ Crosses(g, flow[g].plan)
BY Kinds DEF Saving, Crosses, Writes, WriteOps

LEMMA SavesUnchanged ==
    ASSUME Saves, UNCHANGED <<lib, plan, members, flow, drifted>>
    PROVE  Saves'
BY DEF Saves, SaveSound, CopySound, Making, Saving, Open, Crosses, At, PlansResolve

LEMMA ClickingSaves ==
    ASSUME TypeOK, Saves, NEW f \in Flows, Clicking(f)
    PROVE  Saves'
<1>1. UNCHANGED <<lib, plan, members, drifted>> /\ flow[f] = Idle
  BY DEF Clicking, Server
<1>2. PlansResolve'  BY <1>1 DEF Saves, PlansResolve
<1>3. \A g \in Flows \ {f} : SameCall(g) /\ (flow'[g].clean => flow[g].clean)
  <2>1. ASSUME NEW g \in Flows \ {f}, flow'[g] # flow[g]  PROVE ~flow'[g].clean
    <3>1. flow'[g] = [flow[g] EXCEPT !.clean = FALSE] /\ Open(g) /\ flow[g].op = "update"
      BY <2>1 DEF Clicking, Crosses
    <3>2. flow[g] \in Writes  BY <3>1, Kinds DEF WriteOps
    <3>3. QED  BY <3>1, <3>2 DEF Writes
  <2>2. QED  BY <2>1, ClickingSame
<1>4. \A g \in Flows \ {f}, p \in Plans : Crosses(g, p)' => Crosses(g, p)
  BY <1>3 DEF SameCall, Crosses, Open
<1>5. ASSUME NEW g \in Flows \ {f}  PROVE SaveSound(g)' /\ CopySound(g)' /\ Making(g)'
  <2>1. SaveSound(g) /\ CopySound(g) /\ Making(g) /\ SameCall(g)  BY <1>3 DEF Saves
  <2>2. Making(g)'  BY <1>1, <2>1, MakingLasts DEF SameCall
  <2>3. CASE flow'[g] = flow[g]
    <3>1. CopySound(g)'  BY <1>1, <2>1, <2>3 DEF CopySound
    <3>2. ASSUME Saving(g), flow[g].clean, Open(g)
          PROVE  \A k \in Flows \ {g} : ~Crosses(k, flow[g].plan)'
      <4>1. PICK p \in Plans : p = flow[g].plan /\ Crosses(g, p)
        BY <3>2, CrossingIsOpen
      <4>2. \A k \in Flows \ {g} : ~Crosses(k, p)  BY <2>1, <3>2, <4>1 DEF SaveSound
      <4>3. \A k \in Flows \ {f, g} : ~Crosses(k, p)'  BY <1>4, <4>1, <4>2
      <4>4. ASSUME Crosses(f, p)'  PROVE FALSE
        <5>1. /\ flow'[f].op = "update" /\ flow'[f].queries # Absent
              /\ flow'[f].plan = p
          BY <4>4 DEF Crosses
        <5>2. flow'[g] = [flow[g] EXCEPT !.clean = FALSE]
          BY <4>1, <5>1 DEF Clicking
        <5>3. flow[g] \in Writes  BY <3>2, Kinds DEF Saving, WriteOps
        <5>4. ~flow'[g].clean  BY <5>2, <5>3 DEF Writes
        <5>5. QED  BY <2>3, <3>2, <5>4
      <4>5. QED  BY <2>3, <4>1, <4>3, <4>4
    <3>3. SaveSound(g)'
      BY <1>1, <2>1, <2>3, <3>2 DEF SaveSound, Saving, Open
    <3>4. QED  BY <2>2, <3>1, <3>3
  <2>4. CASE flow'[g] # flow[g]
    <3>1. flow'[g] = [flow[g] EXCEPT !.clean = FALSE] /\ Open(g) /\ flow[g].op = "update"
      BY <2>4 DEF Clicking, Crosses
    <3>2. flow[g] \in Writes  BY <3>1, Kinds DEF WriteOps
    <3>3. ~flow'[g].clean  BY <3>1, <3>2 DEF Writes
    <3>4. QED  BY <1>1, <2>1, <2>2, <2>4, <3>3 DEF SaveSound, CopySound, Saving, SameCall
  <2>5. QED  BY <2>3, <2>4
<1>6. SaveSound(f)' /\ CopySound(f)' /\ Making(f)'
  <2>1. flow'[f].pc = "write"  BY DEF Clicking
  <2>2. plan[f] = None  BY <1>1 DEF Saves, Making, Idle
  <2>3. Making(f)'  BY <1>1, <2>1, <2>2 DEF Making, At
  <2>4. CopySound(f)'  BY <1>1 DEF Clicking, CopySound
  <2>5. ASSUME Saving(f)', flow'[f].clean
        PROVE  /\ \A g \in Flows \ {f} : ~Crosses(g, flow[f].plan)'
               /\ flow'[f].ids = Resolve(flow'[f].queries, lib)
    <3>1. flow'[f].op = "update" /\ flow'[f].queries # Absent /\ flow'[f].plan \in Plans
      BY <2>5 DEF Saving, Clicking, Writes
    <3>2. \A g \in Flows \ {f} : ~Crosses(g, flow'[f].plan)
      BY <2>5, <3>1 DEF Clicking
    <3>3. \A g \in Flows \ {f} : ~Crosses(g, flow[f].plan)'
      BY <1>4, <3>1, <3>2
    <3>4. QED  BY <2>5, <3>1, <3>3 DEF Clicking
  <2>6. SaveSound(f)'  BY <1>1, <2>1, <2>5 DEF SaveSound
  <2>7. QED  BY <2>3, <2>4, <2>6
<1>7. QED  BY <1>2, <1>5, <1>6 DEF Saves

\* Whatever comes or goes among the cases, every plan has drifted, and no save or
\* copy that is under way is clean.
LEMMA ChangeSaves ==
    ASSUME TypeOK, Rooted, Saves, NEW b \in Browsers, NEW f \in Flows, ChangeCases(b, f)
    PROVE  Saves'
<1>0. /\ plan' = plan /\ drifted' = {p \in Plans : plan[p] # None}
      /\ flow[f] = Idle /\ flow'[f] = Past
      /\ \A g \in Flows \ {f} :
            \/ flow'[g] = flow[g] /\ ~(Open(g) /\ flow[g] \in Writes)
            \/ /\ flow[g] \in Writes /\ ~flow'[g].clean
               /\ flow'[g].op = flow[g].op /\ flow'[g].pc = flow[g].pc
               /\ flow'[g].plan = flow[g].plan /\ flow'[g].queries = flow[g].queries
  BY ChangeEffect
<1>1. PlansResolve'  BY <1>0 DEF PlansResolve
<1>2. ASSUME NEW g \in Flows \ {f}  PROVE SaveSound(g)' /\ CopySound(g)' /\ Making(g)'
  <2>1. SaveSound(g) /\ CopySound(g) /\ Making(g)  BY DEF Saves
  <2>2. Making(g)'  BY <1>0, <2>1, MakingLasts
  <2>3. CASE flow'[g] = flow[g] /\ ~(Open(g) /\ flow[g] \in Writes)
    <3>1. Saving(g) \/ flow[g].op = "duplicate" => ~Open(g)
      BY <2>3, Kinds DEF Saving, WriteOps
    <3>2. SaveSound(g)'  BY <2>3, <3>1 DEF SaveSound, Saving, Open
    <3>3. CopySound(g)'  BY <2>3, <3>1 DEF CopySound, Open
    <3>4. QED  BY <2>2, <3>2, <3>3
  <2>4. CASE ~flow'[g].clean /\ flow'[g].op = flow[g].op /\ flow'[g].plan = flow[g].plan
    <3>1. flow[g].op = "update" => flow[g].plan \in drifted'
      BY <1>0, FlowRow
    <3>2. SaveSound(g)'  BY <2>4, <3>1 DEF SaveSound, Saving
    <3>3. QED  BY <2>2, <2>4, <3>2 DEF CopySound
  <2>5. QED  BY <1>0, <2>3, <2>4
<1>3. SaveSound(f)' /\ CopySound(f)' /\ Making(f)'
  <2>1. plan[f] = None  BY <1>0 DEF Saves, Making, Idle
  <2>2. QED  BY <1>0, <2>1 DEF SaveSound, CopySound, Making, Past, Saving, At
<1>4. QED  BY <1>1, <1>2, <1>3 DEF Saves

\* A call that only reads, or is answered, or begins to sync.
LEMMA OtherSaves ==
    ASSUME TypeOK, Rooted, Saves, NEW f \in Flows, Confirming(f) \/ Syncing(f)
    PROVE  Saves'
<1>1. /\ UNCHANGED <<lib, plan, members, drifted>>
      /\ \A g \in Flows \ {f} : flow'[g] = flow[g]
  <2>1. CASE Confirming(f)
    <3>1. GoneOn(f)
      BY <2>1, ConfirmUpdateEffect, ConfirmCreateEffect, ConfirmDeleteEffect,
         ConfirmSpawnEffect DEF Confirming
    <3>2. QED  BY <2>1, <3>1, ConfirmFrame DEF GoneOn, Server
  <2>2. CASE Syncing(f)
    BY <2>2, ReadEffect, ConfirmSyncEffect DEF Syncing, SyncFlow, Server
  <2>3. QED  BY <2>1, <2>2
<1>2. /\ flow'[f].op = flow[f].op \/ plan[f] = None
      /\ flow'[f].op = "update" => flow'[f].pc = "done"
      /\ flow'[f].op = "duplicate" => flow'[f].pc = "done"
      /\ flow'[f].op = "create" => flow'[f].pc = "done"
  <2>1. CASE Confirming(f)
    BY <2>1, ConfirmUpdateEffect, ConfirmCreateEffect, ConfirmDeleteEffect,
       ConfirmSpawnEffect DEF Confirming, GoneOn
  <2>2. CASE Syncing(f)
    <3>1. flow[f].op \in {"none", "sync"}
      BY <2>2 DEF Syncing, Sync, ReadCases, ReadPlans, ReadLists, Reading, ConfirmSync, At,
                  Idle
    <3>2. plan[f] = None  BY <3>1 DEF Saves, Making
    <3>3. flow'[f] \in Syncs \/ flow'[f] = Past
      BY <2>2, ReadEffect, ConfirmSyncEffect DEF Syncing
    <3>4. QED  BY <3>2, <3>3 DEF Syncs, Past
  <2>3. QED  BY <2>1, <2>2
<1>3. SaveSound(f)' /\ CopySound(f)' /\ Making(f)'
  BY <1>1, <1>2 DEF Saves, SaveSound, CopySound, Making, Saving, Open, At
<1>4. NoneCrosses
  BY <1>1, <1>2 DEF NoneCrosses, Crosses, Open
<1>5. \A g \in Flows \ {f} : SaveSound(g)' /\ CopySound(g)' /\ Making(g)'
  <2>1. ASSUME NEW g \in Flows \ {f}  PROVE SaveSound(g)' /\ CopySound(g)'
    <3>1. SaveSound(g) /\ CopySound(g)  BY DEF Saves
    <3>2. QED  BY <1>1, <1>4, <3>1, SaveLasts DEF SaveSound
  <2>2. ASSUME NEW g \in Flows \ {f}  PROVE Making(g)'
    BY <1>1, MakingLasts DEF Saves
  <2>3. QED  BY <2>1, <2>2
<1>6. PlansResolve'  BY <1>1 DEF Saves, PlansResolve
<1>7. QED  BY <1>3, <1>5, <1>6 DEF Saves

\* Where the handlers start.
LEMMA ServerStarts ==
    ASSUME TypeOK, NEW f \in Flows, Serving(f)
    PROVE  /\ Open(f)
           /\ PatchRow(f) => flow[f].pc = "write"
           /\ PatchAudit(f) => /\ flow[f].pc = "audit"
                               /\ flow'[f].pc = "put" => flow[f].queries # Absent
           /\ PutCases(f) => flow[f].pc = "put"
<1>1. ASSUME PatchAudit(f)
      PROVE  /\ Open(f) /\ flow[f].pc = "audit"
             /\ flow'[f].pc = "put" => flow[f].queries # Absent
  <2>1. flow[f].op = "update" /\ flow[f].pc = "audit"  BY <1>1 DEF PatchAudit, At
  <2>2. ASSUME flow[f].queries = Absent  PROVE flow'[f].pc = "answered"
    <3>1. Goto(f, "answered")  BY <1>1, <2>2 DEF PatchAudit
    <3>2. flow[f] \in Writes  BY <2>1, Kinds DEF WriteOps
    <3>3. QED  BY <3>1, <3>2, GotoGoesOn
  <2>3. QED  BY <2>1, <2>2 DEF Open
<1>2. ASSUME PatchRow(f)  PROVE Open(f) /\ flow[f].pc = "write"
  BY <1>2 DEF PatchRow, PATCH, At, Open
<1>3. ASSUME PutCases(f)  PROVE Open(f) /\ flow[f].pc = "put"
  BY <1>3 DEF PutCases, PUT, At, Open
<1>4. ASSUME CreatePlan(f) \/ ArchiveRow(f) \/ ArchiveAudit(f) \/ CreateRun(f) \/ Fail(f)
      PROVE  Open(f)
  BY <1>4 DEF CreatePlan, POST, ArchiveRow, DELETE, ArchiveAudit, CreateRun, Fail, At, Open
<1>5. QED  BY <1>1, <1>2, <1>3, <1>4 DEF Serving

\* A call that has gone on: itself, its plan, and those it does not touch.
LEMMA SavesStep ==
    ASSUME TypeOK, Saves, NEW f \in Flows, GoneOn(f), Open(f), lib' = lib,
           SaveSound(f)', CopySound(f)', Making(f)',
           \A g \in Flows \ {f} :
              /\ plan'[g] # None => plan[g] # None
              /\ Saving(g) /\ flow[g].pc \in {"audit", "put"} =>
                    /\ flow[g].plan \in drifted'
                    /\ flow[g].clean =>
                          plan'[flow[g].plan].queries = plan[flow[g].plan].queries,
           \A p \in Plans : PlanLasts(p)
    PROVE  Saves'
<1>1. NoneCrosses  BY GoneOnCrosses
<1>2. ASSUME NEW g \in Flows \ {f}  PROVE SaveSound(g)' /\ CopySound(g)' /\ Making(g)'
  <2>1. SaveSound(g) /\ CopySound(g) /\ Making(g) /\ flow'[g] = flow[g]
    BY DEF Saves, GoneOn
  <2>2. SaveSound(g)' /\ CopySound(g)'  BY <1>1, <2>1, SaveLasts
  <2>3. Making(g)'  BY <2>1, MakingLasts
  <2>4. QED  BY <2>2, <2>3
<1>3. PlansResolve'  BY PlansResolveLast DEF Saves
<1>4. QED  BY <1>2, <1>3 DEF Saves

\* Nothing drifts, or is written, that another save depends on.
LEMMA Unwritten ==
    ASSUME TypeOK, Saves, NEW f \in Flows, UNCHANGED <<plan, drifted>>
    PROVE  \A g \in Flows \ {f} :
              /\ plan'[g] # None => plan[g] # None
              /\ Saving(g) /\ flow[g].pc \in {"audit", "put"} =>
                    /\ flow[g].plan \in drifted'
                    /\ flow[g].clean =>
                          plan'[flow[g].plan].queries = plan[flow[g].plan].queries
BY DEF Saves, SaveSound

LEMMA PlanStays ==
    ASSUME Saves, NEW p \in Plans, lib' = lib, plan'[p] # None => plan[p] # None,
           plan[p] # None /\ plan'[p] # None => plan'[p].queries = plan[p].queries,
           members'[p] = members[p], p \in drifted => p \in drifted'
    PROVE  PlanLasts(p)
BY DEF PlanLasts

LEMMA PatchRowSaves ==
    ASSUME TypeOK, Rooted, Saves, NEW f \in Flows, PatchRow(f)
    PROVE  Saves'
<1>1. PICK p \in Plans :
        /\ p = flow[f].plan /\ RowWritten(p) /\ members' = members /\ plan[p] # None
        /\ plan'[p].queries = Sent(flow[f].queries, plan[p].queries)
  BY PatchRowEffect DEF RowWritten
<1>2. /\ GoneOn(f) /\ flow[f].op = "update" /\ flow[f].pc = "write" /\ Open(f)
      /\ flow'[f].pc = "audit"
  BY ServerFlow, ServerStarts DEF Serving
<1>3. /\ lib' = lib
      /\ drifted' = IF flow[f].queries = Absent THEN drifted ELSE drifted \cup {p}
  BY <1>1, ServerFrame
<1>4. SaveSound(f) /\ CopySound(f) /\ Making(f)  BY DEF Saves
<1>5. NoneCrosses  BY <1>2, GoneOnCrosses
<1>6. flow'[f].op = "update" /\ flow'[f].plan = p /\ flow'[f].queries = flow[f].queries
  BY <1>1, <1>2 DEF GoneOn
<1>7. SaveSound(f)'
  <2>1. ASSUME flow[f].queries # Absent  PROVE p \in drifted' /\ plan'[p].queries = flow[f].queries
    BY <1>1, <1>3, <2>1 DEF Sent
  <2>2. ASSUME flow[f].queries # Absent, flow'[f].clean
        PROVE  /\ flow'[f].ids = Resolve(flow[f].queries, lib)
               /\ \A g \in Flows \ {f} : ~Crosses(g, p)
    <3>1. flow[f].clean /\ flow'[f].ids = flow[f].ids  BY <1>2, <2>2 DEF GoneOn, Open
    <3>2. QED  BY <1>1, <1>2, <1>4, <2>2, <3>1 DEF SaveSound, Saving
  <2>3. \A g \in Flows \ {f} : ~Crosses(g, p) => ~Crosses(g, p)'  BY <1>5 DEF NoneCrosses
  <2>4. QED  BY <1>2, <1>3, <1>6, <2>1, <2>2, <2>3 DEF SaveSound, Saving
<1>8. CopySound(f)'  BY <1>6 DEF CopySound
<1>9. Making(f)'
  <2>1. plan[f] = None  BY <1>2, <1>4 DEF Making
  <2>2. f # p /\ f \in Plans  BY <1>1, <2>1 DEF Plans
  <2>3. QED  BY <1>1, <1>2, <2>1, <2>2 DEF Making, RowWritten, At
<1>10. ASSUME NEW g \in Flows \ {f}
       PROVE  /\ plan'[g] # None => plan[g] # None
              /\ Saving(g) /\ flow[g].pc \in {"audit", "put"} =>
                    /\ flow[g].plan \in drifted'
                    /\ flow[g].clean =>
                          plan'[flow[g].plan].queries = plan[flow[g].plan].queries
  <2>1. SaveSound(g) /\ g \in Plans  BY DEF Saves, Plans
  <2>2. plan'[g] # None => plan[g] # None  BY <1>1, <2>1 DEF RowWritten
  <2>3. ASSUME Saving(g), flow[g].pc \in {"audit", "put"}
        PROVE  /\ flow[g].plan \in drifted'
               /\ flow[g].clean =>
                     plan'[flow[g].plan].queries = plan[flow[g].plan].queries
    <3>1. flow[g].plan \in drifted' /\ flow[g].plan \in Plans
      BY <1>3, <2>1, <2>3 DEF SaveSound, TypeOK
    <3>2. ASSUME flow[g].clean, flow[g].plan = p, flow[f].queries # Absent  PROVE FALSE
      <4>1. Crosses(f, p)  BY <1>1, <1>2, <3>2 DEF Crosses
      <4>2. QED  BY <2>1, <2>3, <3>2, <4>1 DEF SaveSound, Open
    <3>3. QED  BY <1>1, <3>1, <3>2 DEF RowWritten, Sent
  <2>4. QED  BY <2>2, <2>3
<1>11. ASSUME NEW q \in Plans  PROVE PlanLasts(q)
  <2>1. CASE q \in drifted'  BY <2>1 DEF PlanLasts
  <2>2. CASE q \notin drifted'
    BY <1>1, <1>3, <2>2, PlanStays DEF RowWritten, Sent
  <2>3. QED  BY <2>1, <2>2
<1>12. QED
  BY <1>2, <1>3, <1>7, <1>8, <1>9, <1>10, <1>11, SavesStep

LEMMA PutCasesSaves ==
    ASSUME TypeOK, Rooted, Saves, NEW f \in Flows, PutCases(f)
    PROVE  Saves'
<1>1. PICK p \in Plans :
        /\ p = flow[f].plan /\ plan' = plan /\ plan[p] # None
        /\ members'[p] = flow[f].ids
        /\ \A q \in Plans \ {p} : members'[q] = members[q]
  BY PutCasesEffect
<1>2. /\ GoneOn(f) /\ flow[f].op = "update" /\ flow[f].pc = "put" /\ Open(f)
      /\ flow'[f].pc = "answered"
  BY ServerFlow, ServerStarts DEF Serving
<1>3. lib' = lib /\ drifted' = IF flow[f].clean THEN drifted \ {p} ELSE drifted
  BY <1>1, ServerFrame
<1>4. SaveSound(f) /\ Making(f)  BY DEF Saves
<1>5. flow[f].queries # Absent  BY <1>2, <1>4 DEF Making, At
<1>6. Saving(f) /\ Crosses(f, p)  BY <1>1, <1>2, <1>5 DEF Saving, Crosses
<1>7. NoneCrosses  BY <1>2, GoneOnCrosses
<1>8. flow'[f].op = "update" /\ flow'[f].plan = p /\ flow'[f].queries = flow[f].queries
  BY <1>1, <1>2 DEF GoneOn
<1>9. SaveSound(f)'
  <2>1. ASSUME flow'[f].clean  PROVE \A g \in Flows \ {f} : ~Crosses(g, p)'
    <3>1. flow[f].clean  BY <1>2, <2>1 DEF GoneOn
    <3>2. \A g \in Flows \ {f} : ~Crosses(g, p)  BY <1>1, <1>2, <1>4, <1>6, <3>1 DEF SaveSound
    <3>3. QED  BY <1>7, <3>2 DEF NoneCrosses
  <2>2. QED  BY <1>2, <1>8, <2>1 DEF SaveSound
<1>10. CopySound(f)' /\ Making(f)'
  BY <1>1, <1>2, <1>4, <1>8 DEF CopySound, Making, At
<1>11. ASSUME NEW g \in Flows \ {f}
       PROVE  /\ plan'[g] # None => plan[g] # None
              /\ Saving(g) /\ flow[g].pc \in {"audit", "put"} =>
                    /\ flow[g].plan \in drifted'
                    /\ flow[g].clean =>
                          plan'[flow[g].plan].queries = plan[flow[g].plan].queries
  <2>1. SaveSound(g)  BY DEF Saves
  <2>2. ASSUME Saving(g), flow[g].pc \in {"audit", "put"}  PROVE flow[g].plan \in drifted'
    <3>1. flow[g].plan \in drifted  BY <2>1, <2>2 DEF SaveSound
    <3>2. ASSUME flow[f].clean, flow[g].plan = p  PROVE FALSE
      <4>1. ~Crosses(g, p)  BY <1>1, <1>2, <1>4, <1>6, <3>2 DEF SaveSound
      <4>2. QED  BY <2>2, <3>2, <4>1 DEF Saving, Crosses, Open
    <3>3. QED  BY <1>3, <3>1, <3>2
  <2>3. QED  BY <1>1, <2>2
<1>12. ASSUME NEW q \in Plans  PROVE PlanLasts(q)
  <2>1. CASE q # p
    BY <1>1, <1>3, <2>1, PlanStays
  <2>2. CASE q = p /\ flow[f].clean
    <3>1. flow[f].ids = Resolve(flow[f].queries, lib) /\ plan[p].queries = flow[f].queries
      BY <1>1, <1>2, <1>4, <1>6, <2>2 DEF SaveSound
    <3>2. members'[p] = Resolve(plan'[p].queries, lib)  BY <1>1, <3>1
    <3>3. members'[p] = Resolve(Local(plan'[p], members'[p]), lib)  BY <3>2, LocalResolves
    <3>4. QED  BY <1>3, <2>2, <3>3 DEF PlanLasts
  <2>3. CASE q = p /\ ~flow[f].clean
    <3>1. p \in drifted  BY <1>1, <1>2, <1>4, <1>6 DEF SaveSound
    <3>2. QED  BY <1>3, <2>3, <3>1 DEF PlanLasts
  <2>4. QED  BY <2>1, <2>2, <2>3
<1>13. QED  BY <1>2, <1>3, <1>9, <1>10, <1>11, <1>12, SavesStep

LEMMA CreatePlanSaves ==
    ASSUME TypeOK, Rooted, Saves, NEW f \in Flows, CreatePlan(f)
    PROVE  Saves'
<1>1. /\ RowWritten(f) /\ f \in Plans
      /\ flow[f].op \in {"create", "duplicate"} /\ flow[f].pc = "write"
      /\ flow[f].op = "create" => plan'[f].queries = None /\ members'[f] = {}
      /\ flow[f].op = "duplicate" => plan'[f].queries = flow[f].queries
      /\ members'[f] = flow[f].ids
      /\ \A q \in Plans \ {f} : members'[q] = members[q]
  BY CreatePlanEffect DEF Plans
<1>2. GoneOn(f) /\ Open(f) /\ flow'[f].pc = "answered"
  BY ServerFlow, ServerStarts DEF Serving
<1>3. lib' = lib /\ drifted' = IF flow[f].clean THEN drifted ELSE drifted \cup {f}
  BY ServerFrame
<1>4. CopySound(f) /\ Making(f)  BY DEF Saves
<1>5. plan[f] = None  BY <1>1, <1>4 DEF Making
<1>6. flow'[f].op = flow[f].op  BY <1>2 DEF GoneOn
<1>7. SaveSound(f)' /\ CopySound(f)' /\ Making(f)'
  BY <1>1, <1>2, <1>6 DEF SaveSound, CopySound, Making, Saving, At
<1>8. ASSUME NEW g \in Flows \ {f}
      PROVE  /\ plan'[g] # None => plan[g] # None
             /\ Saving(g) /\ flow[g].pc \in {"audit", "put"} =>
                   /\ flow[g].plan \in drifted'
                   /\ flow[g].clean =>
                         plan'[flow[g].plan].queries = plan[flow[g].plan].queries
  <2>1. SaveSound(g) /\ g \in Plans  BY DEF Saves, Plans
  <2>2. ASSUME Saving(g), flow[g].pc \in {"audit", "put"}
        PROVE  /\ flow[g].plan \in drifted'
               /\ plan'[flow[g].plan] = plan[flow[g].plan]
    <3>1. flow[g].plan \in Plans /\ plan[flow[g].plan] # None
      BY <2>2, FlowRow DEF Saving
    <3>2. flow[g].plan \in drifted'  BY <1>3, <2>1, <2>2 DEF SaveSound
    <3>3. QED  BY <1>1, <1>5, <3>1, <3>2 DEF RowWritten
  <2>3. QED  BY <1>1, <2>1, <2>2 DEF RowWritten
<1>9. ASSUME NEW q \in Plans  PROVE PlanLasts(q)
  <2>1. CASE q # f  BY <1>1, <1>3, <2>1, PlanStays DEF RowWritten
  <2>2. CASE q = f /\ flow[f].clean
    <3>1. \/ plan'[f].queries = None /\ members'[f] \in SUBSET lib
          \/ members'[f] = Resolve(plan'[f].queries, lib)
      BY <1>1, <1>4, <2>2 DEF CopySound
    <3>2. members'[f] = Resolve(Local(plan'[f], members'[f]), lib)
      BY <3>1, LocalResolves
    <3>3. QED  BY <1>3, <2>2, <3>2 DEF PlanLasts
  <2>3. CASE q = f /\ ~flow[f].clean  BY <1>3, <2>3 DEF PlanLasts
  <2>4. QED  BY <2>1, <2>2, <2>3
<1>10. QED  BY <1>2, <1>3, <1>7, <1>8, <1>9, SavesStep

LEMMA ServerSaves ==
    ASSUME TypeOK, Rooted, Saves, NEW f \in Flows, Serving(f)
    PROVE  Saves'
<1>1. CASE PatchRow(f)  BY <1>1, PatchRowSaves
<1>2. CASE PutCases(f)  BY <1>2, PutCasesSaves
<1>3. CASE CreatePlan(f)  BY <1>3, CreatePlanSaves
<1>4. CASE PatchAudit(f) \/ ArchiveRow(f) \/ ArchiveAudit(f) \/ CreateRun(f) \/ Fail(f)
  <2>1. GoneOn(f) /\ Open(f) /\ lib' = lib /\ members' = members /\ drifted' = drifted
    BY <1>4, ServerFlow, ServerStarts, ServerFrame DEF Serving, Server
  <2>2. flow'[f].op = flow[f].op /\ flow'[f].plan = flow[f].plan
        /\ flow'[f].queries = flow[f].queries
    BY <2>1 DEF GoneOn
  <2>3. /\ \A q \in Plans : /\ plan'[q] # None <=> plan[q] # None
                            /\ plan[q] # None => plan'[q].queries = plan[q].queries
        /\ plan' = plan \/ ArchiveRow(f)
    <3>1. CASE ArchiveRow(f)
      <4>1. PICK p \in Plans : /\ RowWritten(p) /\ plan[p] # None
                               /\ plan'[p].queries = plan[p].queries
        BY <3>1, ArchiveRowEffect DEF RowWritten
      <4>2. QED  BY <3>1, <4>1 DEF RowWritten
    <3>2. CASE ~ArchiveRow(f)  BY <1>4, <3>2, ServerFrame DEF Server
    <3>3. QED  BY <3>1, <3>2
  <2>4. SaveSound(f) /\ CopySound(f) /\ Making(f) /\ f \in Plans  BY DEF Saves, Plans
  <2>5. NoneCrosses  BY <2>1, GoneOnCrosses
  <2>6. flow'[f].pc # "write"  BY <1>4, ServerFlow
  <2>7. SaveSound(f)'
    <3>1. CASE PatchAudit(f)
      <4>1. /\ flow[f].op = "update" /\ flow[f].pc = "audit" /\ plan' = plan
            /\ flow'[f].pc \in {"answered", "put"}
        BY <3>1, ServerFlow, ServerStarts, ServerFrame DEF Serving
      <4>2. flow'[f].clean => flow[f].clean /\ flow'[f].ids = flow[f].ids
        BY <2>1 DEF GoneOn
      <4>3. \A g \in Flows \ {f}, p \in Plans : Crosses(g, p)' => Crosses(g, p)
        BY <2>5 DEF NoneCrosses
      <4>4. flow[f].plan \in Plans  BY <4>1, FlowRow
      <4>5. QED
        BY <2>1, <2>2, <2>4, <4>1, <4>2, <4>3, <4>4 DEF SaveSound, Saving, Open
    <3>2. CASE ArchiveRow(f) \/ ArchiveAudit(f) \/ CreateRun(f)
      BY <2>2, <3>2, ServerFlow DEF SaveSound, Saving
    <3>3. CASE Fail(f)
      <4>1. flow'[f].pc \in {"unaudited", "failed"}  BY <3>3, ServerFlow
      <4>2. QED  BY <4>1 DEF SaveSound, Open
    <3>4. QED  BY <1>4, <3>1, <3>2, <3>3
  <2>8. CopySound(f)'  BY <2>6 DEF CopySound
  <2>9. Making(f)'
    <3>1. At(f, "update", "put")' => flow'[f].queries # Absent
      <4>1. CASE PatchAudit(f)  BY <2>2, <4>1, ServerStarts DEF Serving, At
      <4>2. CASE ~PatchAudit(f)  BY <1>4, <4>2, ServerFlow DEF At
      <4>3. QED  BY <4>1, <4>2
    <3>2. QED  BY <2>2, <2>3, <2>4, <2>6, <3>1 DEF Making
  <2>10. ASSUME NEW g \in Flows \ {f}
         PROVE  /\ plan'[g] # None => plan[g] # None
                /\ Saving(g) /\ flow[g].pc \in {"audit", "put"} =>
                      /\ flow[g].plan \in drifted'
                      /\ flow[g].clean =>
                            plan'[flow[g].plan].queries = plan[flow[g].plan].queries
    <3>1. SaveSound(g) /\ g \in Plans  BY DEF Saves, Plans
    <3>2. flow[g].op = "update" => flow[g].plan \in Plans /\ plan[flow[g].plan] # None
      BY FlowRow
    <3>3. QED  BY <2>1, <2>3, <3>1, <3>2 DEF SaveSound, Saving
  <2>11. \A p \in Plans : PlanLasts(p)  BY <2>1, <2>3, PlanStays
  <2>12. QED  BY <2>1, <2>7, <2>8, <2>9, <2>10, <2>11, SavesStep
<1>5. QED  BY <1>1, <1>2, <1>3, <1>4 DEF Serving

LEMMA SavesNext ==
    ASSUME TypeOK, Rooted, Saves, [Next]_vars
    PROVE  Saves'
<1>1. CASE UNCHANGED vars  BY <1>1, SavesUnchanged DEF vars
<1>2. CASE Browsing  BY <1>2, SavesUnchanged DEF Browsing, Server
<1>3. ASSUME NEW f \in Flows,
             \/ Clicking(f) \/ Serving(f) \/ Confirming(f) \/ Syncing(f)
             \/ ChangeCases(Owner[f], f)
      PROVE  Saves'
  BY <1>3, ClickingSaves, ServerSaves, OtherSaves, ChangeSaves, OwnerIs
<1>4. QED  BY <1>1, <1>2, <1>3, StepKinds

LEMMA SavesInit ==
    ASSUME Init
    PROVE  Saves
<1>1. \A f \in Flows : SaveSound(f) /\ CopySound(f)
  BY DEF Init, Idle, SaveSound, CopySound, Saving
<1>2. \A f \in Flows : Making(f)
  BY PlanAssumption DEF Init, Idle, Making, At, Plans
<1>3. PlansResolve
  <2>1. ASSUME NEW p \in Plans, plan[p] # None
        PROVE  members[p] = Resolve(Local(plan[p], members[p]), lib)
    <3>1. p \in SeedPlans  BY <2>1 DEF Init
    <3>2. plan[p].queries = None /\ members[p] \in SUBSET lib  BY <3>1 DEF Init
    <3>3. QED  BY <3>2, LocalResolves
  <2>2. QED  BY <2>1 DEF PlansResolve
<1>4. QED  BY <1>1, <1>2, <1>3 DEF Saves

\* The cases stored with a plan are those its stored queries find, unless a case
\* has come or gone since the last save that nothing crossed, a save has stopped
\* between its two calls, or a copy was made of what a browser no longer sees
\* truly (FreshProvider.tsx:2006-2011, plan-client.ts:100-125).
THEOREM CasesResolve == Spec => []PlansResolve
<1>1. Init => TypeOK /\ Rooted /\ Saves  BY TypedInit, SavesInit
<1>2. TypeOK /\ Rooted /\ Saves /\ [Next]_vars => (TypeOK /\ Rooted /\ Saves)'
  BY TypedNext, SavesNext
<1>3. Saves => PlansResolve  BY DEF Saves
<1>4. QED  BY <1>1, <1>2, <1>3, PTL DEF Spec
=============================================================================
