------------------------------ MODULE RunScreen ------------------------------
(***************************************************************************)
(* The Runs screen: the run it shows, the run its commands act on, and the *)
(* defects raised from a failed case (RunsScreen, its modals, the run and  *)
(* defect functions of FreshProvider, run-client and defect-client, and    *)
(* DefectService).                                                         *)
(*                                                                         *)
(* The run shown is the one of the address.  Results, comments and seals go *)
(* to another variable, the project's current run, which an effect sets     *)
(* when the run shown changes and ADD_RUN when a run has been created.      *)
(* Raising a defect is optimistic: it is shown with an id and a key made up *)
(* by the browser, created, renamed, and only then linked.                  *)
(*                                                                         *)
(* One project.  What recording a result does on the server is in           *)
(* RunExecution, how a run is spawned in RunSpawn; here each is one step.   *)
(***************************************************************************)
EXTENDS Naturals, FiniteSets

CONSTANTS
    Browsers,
    Cases,
    SeedRuns,      \* runs at the start; every case in them has failed
    RunCases,      \* their cases
    SeedDefects,   \* defects at the start, each linked to one case of a run
    LinkedTo,      \* that case: <<run, case>>
    Flows,         \* one command each, with all the calls it makes
    Owner,         \* the browser of a flow, unless it is another client's
                   \* unlinking; None: another client
    None,          \* SQL NULL, an absent row, nothing selected
    Absent         \* no navigation is under way

Runs == SeedRuns \cup Flows
Defects == SeedDefects \cup Flows
Links == SeedDefects \cup Flows

ASSUME ScreenAssumption ==
    /\ RunCases \in [SeedRuns -> SUBSET Cases]
    /\ LinkedTo \in [SeedDefects -> SeedRuns \X Cases]
    /\ \A d \in SeedDefects : LinkedTo[d][2] \in RunCases[LinkedTo[d][1]]
    /\ Owner \in [Flows -> Browsers \cup {None}]
    /\ SeedRuns \cap Flows = {} /\ SeedDefects \cap Flows = {}
    /\ None \notin Runs \cup Defects \cup Cases \cup Browsers
    /\ Absent \notin Runs \cup {None}

VARIABLES
    run,           \* test_runs with test_run_cases
    defect,        \* defects
    link,          \* run_defect_links
    audit,         \* audit_log: which flow logged what
    screen,        \* what each browser holds
    flow,          \* what each flow is about to do, and knows
    overtaken      \* history: browsers in which a click overtook a navigation

vars == <<run, defect, link, audit, screen, flow, overtaken>>

Server == <<run, defect, link, audit>>

-----------------------------------------------------------------------------
(* Names of defects *)

\* The id of a row, or the one a browser makes up until it knows that.
Id == Defects \X {"real", "temp"}
Real(d) == <<d, "real">>
Temp(d) == <<d, "temp">>

\* The key of a row (DEF-1), the one made up with the id (DEF-00001), or the
\* name of a defect in another system.
Ref == (Defects \X {"ref", "local"}) \cup {<<None, "ref">>}

KeyOf(id) == <<id[1], IF id[2] = "real" THEN "ref" ELSE "local">>

\* What stands in a list of defects: an id, or a name no known defect has.
Named == Id \cup Ref

-----------------------------------------------------------------------------
(* Rows, screens and flows *)

Result == {"Not run", "Passed", "Failed"}   \* Failed also stands for Blocked
Status == {"active", "sealed", "archived"}
Title == Runs                               \* the flow that gave it

RunRow == [title: Title, status: Status, result: [Cases -> Result \cup {None}]]
LinkRow == [run: Runs, case: Cases, ref: Ref, defect: Defects \cup {None},
            unlinkedBy: Flows \cup {None}]

Exec == [status: Result, defects: SUBSET Named]
DemoRun == [title: Title, sealed: BOOLEAN, archived: BOOLEAN,
            cases: SUBSET Cases, exec: [Cases -> Exec]]

Screen == [url: Runs \cup {None},             \* the run in the address
           going: Runs \cup {None, Absent},   \* where a navigation leads
           current: Runs \cup {None},         \* currentRunIdByProject
           active: Cases \cup {None},         \* activeCaseId
           chosen: Id \cup {None},            \* linkDefectId
           runs: [Runs -> {None} \cup DemoRun],
           keys: SUBSET Id,                   \* defectsById
           mapped: [Runs -> SUBSET Cases]]    \* runCaseIdsRef

\* NULL is no row, and no run of a screen.
ASSUME NullAssumption == None \notin RunRow /\ None \notin LinkRow /\ None \notin DemoRun

Idle == [op |-> "none", pc |-> "idle"]
Past == [op |-> "none", pc |-> "done"]

Writes == [op: {"result", "defect", "link", "status", "edit", "create"},
           pc: {"post", "wait", "link", "answered", "rejected", "done", "failed",
                "unsent"},
           run: Runs, case: Cases \cup {None}, defect: Defects \cup {None},
           ref: Ref \cup {None}, to: {None} \cup Result \cup Status,
           prev: {None} \cup Exec]
Unlinks == [op: {"unlink"}, pc: {"update", "audit", "done", "unaudited"},
            link: Links]
Syncs == [op: {"sync"}, pc: {"read"},
          rows: {None} \cup [Runs -> {None} \cup RunRow],
          links: {None} \cup SUBSET Links,
          defects: {None} \cup SUBSET Defects]

TypeOK ==
    /\ run \in [Runs -> {None} \cup RunRow]
    /\ defect \subseteq Defects
    /\ link \in [Links -> {None} \cup LinkRow]
    /\ audit \subseteq Flows \X {"created", "updated", "sealed", "reopened",
                                 "archived", "linked", "unlinked"}
    /\ screen \in [Browsers -> Screen]
    /\ flow \in [Flows -> {Idle, Past} \cup Writes \cup Unlinks \cup Syncs]
    /\ overtaken \subseteq Browsers

\* realRunToLocal: a defect goes by its id if its key is a known one.
Shown(ref, known) == IF ref[2] = "ref" /\ ref[1] \in known THEN Real(ref[1]) ELSE ref

\* The links of a case that are not unlinked.
Active(rows, r, c) ==
    {l \in Links : /\ rows[l] # None /\ rows[l].unlinkedBy = None
                   /\ rows[l].run = r /\ rows[l].case = c}

\* Mutant: a case without a result keeps the column's NULL.
ExecOfNull(row, r, c, rows, known) ==
    [status |-> row.result[c],
     defects |-> {Shown(rows[l].ref, known) : l \in Active(rows, r, c)}]

ExecOf(row, r, c, rows, known) ==
    [status |-> IF row.result[c] = None THEN "Not run" ELSE row.result[c],
     defects |-> {Shown(rows[l].ref, known) : l \in Active(rows, r, c)}]

CasesOf(row) == {c \in Cases : row.result[c] # None}

SeedRow(r) == [title |-> r, status |-> "active",
               result |-> [c \in Cases |-> IF c \in RunCases[r] THEN "Failed" ELSE None]]
SeedLink(d) == [run |-> LinkedTo[d][1], case |-> LinkedTo[d][2],
                ref |-> KeyOf(Real(d)), defect |-> d, unlinkedBy |-> None]

LocalRun(row, r, rows, known) ==
    [title |-> row.title, sealed |-> row.status = "sealed",
     archived |-> row.status = "archived", cases |-> CasesOf(row),
     exec |-> [c \in Cases |-> ExecOf(row, r, c, rows, known)]]

\* caseOrder[0], in an order that the model fixes.
First(cases) == IF cases = {} THEN None ELSE CHOOSE c \in cases : TRUE

Init ==
    /\ run = [r \in Runs |-> IF r \in SeedRuns THEN SeedRow(r) ELSE None]
    /\ defect = SeedDefects
    /\ link = [l \in Links |-> IF l \in SeedDefects THEN SeedLink(l) ELSE None]
    /\ audit = {}
    /\ \E r \in SeedRuns :
          screen = [b \in Browsers |->
             [url |-> r, going |-> Absent, current |-> r,
              active |-> First(RunCases[r]), chosen |-> None,
              runs |-> [q \in Runs |-> IF q \in SeedRuns
                                       THEN LocalRun(run[q], q, link, SeedDefects)
                                       ELSE None],
              keys |-> {Real(d) : d \in SeedDefects},
              mapped |-> [q \in Runs |-> IF q \in SeedRuns THEN RunCases[q] ELSE {}]]]
    /\ flow = [f \in Flows |-> Idle]
    /\ overtaken = {}

-----------------------------------------------------------------------------
(* Screens *)

\* listActiveProjectRuns.
Visible(s) == {r \in Runs : s.runs[r] # None /\ ~s.runs[r].archived}

\* Where the list's address leads: to the last current run, or to any.
Targets(s) ==
    IF s.current \in Visible(s) THEN {s.current}
    ELSE IF Visible(s) = {} THEN {None} ELSE Visible(s)

\* The effect on the run shown: it becomes the current one, and its first case
\* the active one.
Landed(s, r) ==
    IF r = None THEN [s EXCEPT !.url = None]
    ELSE [s EXCEPT !.url = r, !.current = r, !.active = First(s.runs[r].cases)]

\* The effects that follow a change of what a browser holds.  An address whose
\* run is not there is replaced by the list's, and that by a run's.
Show(b, new) ==
    IF new.url \in Visible(new)
    THEN IF new.url = screen[b].url
         THEN screen' = [screen EXCEPT ![b] = new] /\ UNCHANGED overtaken
         ELSE screen' = [screen EXCEPT ![b] = Landed(new, new.url)]
              /\ overtaken' = overtaken \ {b}
    ELSE /\ \E r \in Targets(new) : screen' = [screen EXCEPT ![b] = Landed(new, r)]
         /\ overtaken' = overtaken \ {b}

\* router.push starts a navigation, which ends one that is under way.
Pushed(b, new) ==
    /\ screen' = [screen EXCEPT ![b] = new]
    /\ overtaken' = IF screen[b].going = Absent THEN overtaken ELSE overtaken \cup {b}

\* handleSelectRun, or the list's address.
SelectRun(b) ==
    /\ \E r \in Visible(screen[b]) \cup {None} :
          /\ r # screen[b].going
          /\ r = screen[b].url => screen[b].going # Absent
          /\ Pushed(b, [screen[b] EXCEPT !.going = r])
    /\ UNCHANGED <<Server, flow>>

Arrive(b) ==
    /\ screen[b].going # Absent
    /\ Show(b, [screen[b] EXCEPT !.url = screen[b].going, !.going = Absent])
    /\ UNCHANGED <<Server, flow>>

\* A click on a row of the queue, or an arrow key (navCase).
SelectCase(b) ==
    /\ screen[b].url # None
    /\ \E c \in screen[b].runs[screen[b].url].cases \ {screen[b].active} :
          screen' = [screen EXCEPT ![b].active = c]
    /\ UNCHANGED <<Server, flow, overtaken>>

\* isRunSealed: of the current run, which need not be the one shown.
Sealed(s) == s.current \in Visible(s) /\ s.runs[s.current].sealed

\* runIsMutable.
Mutable(s, r) == r # None /\ s.runs[r] # None /\ ~s.runs[r].sealed

\* AddCasesToRunModal: ADD_CASES_TO_RUN, in the browser only.
AddCases(b) ==
    /\ screen[b].url # None
    /\ Sealed(screen[b]) => screen[b].runs[screen[b].url].cases = {}
    /\ LET r == screen[b].url
       IN \E c \in Cases \ screen[b].runs[r].cases :
             screen' = [screen EXCEPT ![b].runs[r].cases = @ \cup {c},
                                      ![b].active = IF @ = None THEN c ELSE @]
    /\ UNCHANGED <<Server, flow, overtaken>>

-----------------------------------------------------------------------------
(* Commands *)

\* canMutateDefects.
CanRaise(s) ==
    /\ ~Sealed(s) /\ s.url # None /\ s.active # None
    /\ s.runs[s.url].exec[s.active].status = "Failed"

Begin(f, new) == flow' = [flow EXCEPT ![f] = new]

\* A command on a run.
Call(op, pc, r) ==
    [op |-> op, pc |-> pc, run |-> r, case |-> None, defect |-> None,
     ref |-> None, to |-> None, prev |-> None]

\* UPDATE_RUN_EXECUTION.
Recorded(s, r, c, to) == [s EXCEPT !.runs[r].exec[c].status = to]

\* updateExecution: sent if the case of the run is known to the server.
Sending(s, r, c, to) ==
    IF c \in s.mapped[r]
    THEN [Call("result", "post", r) EXCEPT
             !.case = c, !.to = to, !.prev = s.runs[r].exec[c]]
    ELSE Past

\* setResult and clearResult: shown at once, for the active case of the run
\* shown, in the current run.
SetResult(b, f) ==
    LET s == screen[b]  r == s.current  c == s.active
    IN /\ flow[f] = Idle /\ ~Sealed(s) /\ c # None /\ s.url # None /\ Mutable(s, r)
       /\ \E to \in Result \ {s.runs[r].exec[c].status} :
             /\ screen' = [screen EXCEPT ![b] = Recorded(s, r, c, to)]
             /\ Begin(f, Sending(s, r, c, to))
       /\ UNCHANGED <<Server, overtaken>>

\* CREATE_DEFECT_AND_LINK.
WithDefect(s, r, c, id) ==
    [s EXCEPT !.runs[r].exec[c].defects = @ \cup {id}, !.keys = @ \cup {id}]

\* handleCreateDefect, createDefectFromExecution: shown with a made-up id.
CreateDefect(b, f) ==
    LET s == screen[b]  r == s.url  c == s.active
    IN /\ flow[f] = Idle /\ CanRaise(s) /\ Mutable(s, r)
       /\ screen' = [screen EXCEPT ![b] = WithDefect(s, r, c, Temp(f))]
       /\ Begin(f, [Call("defect", "post", r) EXCEPT !.case = c, !.defect = f])
       /\ UNCHANGED <<Server, overtaken>>

\* linkableDefects.
Linkable(s) == s.keys \ s.runs[s.url].exec[s.active].defects

\* The list "Link existing"; what was chosen stays when the case changes, and
\* when the id has been replaced.
Choose(b) ==
    /\ CanRaise(screen[b])
    /\ \E d \in Linkable(screen[b]) \ {screen[b].chosen} :
          screen' = [screen EXCEPT ![b].chosen = d]
    /\ UNCHANGED <<Server, flow, overtaken>>

Open(f) == flow[f].pc \in {"post", "wait", "link", "answered", "rejected"}

\* The link, if the case of the run is known to the server.
LinkIf(s, r, c) == IF c \in s.mapped[r] THEN "link" ELSE "unsent"

\* Mutant: an id that is not a row's is not waited for.
FirstCallNow(s, r, c, id) == IF id[2] = "real" THEN LinkIf(s, r, c) ELSE "done"

\* linkDefectToExecution: a made-up id waits for its creation, if that is still
\* under way.
FirstCall(s, r, c, id) ==
    IF id[2] = "real" THEN LinkIf(s, r, c)
    ELSE IF Open(id[1]) THEN "wait" ELSE "unsent"

\* handleLinkDefect, LINK_DEFECT_TO_EXECUTION: the key is the one known now.
LinkDefect(b, f) ==
    LET s == screen[b]  r == s.url  c == s.active  id == s.chosen
    IN /\ flow[f] = Idle /\ CanRaise(s) /\ id # None /\ Linkable(s) # {}
       /\ screen' = [screen EXCEPT
                       ![b] = IF Mutable(s, r) /\ id \in s.keys
                              THEN [WithDefect(s, r, c, id) EXCEPT !.chosen = None]
                              ELSE [s EXCEPT !.chosen = None]]
       /\ Begin(f, [Call("link", FirstCall(s, r, c, id), r) EXCEPT
                       !.case = c, !.defect = id[1], !.ref = KeyOf(id)])
       /\ UNCHANGED <<Server, overtaken>>

\* handleSealToggle: the other state than the one shown, for the current run.
SealToggle(b, f) ==
    LET s == screen[b]
    IN /\ flow[f] = Idle /\ s.url # None /\ s.current # None
       /\ Begin(f, [Call("status", "post", s.current) EXCEPT
                       !.to = IF s.runs[s.url].sealed THEN "active" ELSE "sealed"])
       /\ UNCHANGED <<Server, screen, overtaken>>

\* handleDelete: the run shown is archived, and the list's address opened.
DeleteRun(b, f) ==
    /\ flow[f] = Idle /\ screen[b].url # None
    /\ Begin(f, [Call("status", "post", screen[b].url) EXCEPT !.to = "archived"])
    /\ Pushed(b, [screen[b] EXCEPT !.going = None])
    /\ UNCHANGED Server

\* EditRunModal and editRun, from opening to saving.
EditRun(b, f) ==
    /\ flow[f] = Idle /\ screen[b].url # None
    /\ Begin(f, Call("edit", "post", screen[b].url))
    /\ UNCHANGED <<Server, screen, overtaken>>

\* CreateRunModal and handleDuplicate.
CreateRun(b, f) ==
    /\ flow[f] = Idle
    /\ Begin(f, Call("create", "post", f))
    /\ UNCHANGED <<Server, screen, overtaken>>

-----------------------------------------------------------------------------
(* The server *)

At(f, op, pc) == flow[f].op = op /\ flow[f].pc = pc

Goto(f, pc) == flow' = [flow EXCEPT ![f].pc = pc]

\* The end of a flow, of which nothing is needed any more but, of those about
\* a defect, what was not done.
Failed(f) == IF flow[f].op \in {"defect", "link"} THEN Goto(f, "failed") ELSE Begin(f, Past)

\* A step of the server whose answer comes, or is lost.
Answer(f, pc) == Goto(f, pc) \/ Failed(f)

\* recordCaseResult: refused in a run that is not active.
RecordResult(f) ==
    /\ At(f, "result", "post")
    /\ LET r == flow[f].run
       IN IF run[r].status = "active"
          THEN /\ run' = [run EXCEPT ![r].result[flow[f].case] = flow[f].to]
               /\ Begin(f, Past) \/ Goto(f, "rejected")
          ELSE Goto(f, "rejected") /\ UNCHANGED run
    /\ UNCHANGED <<defect, link, audit, screen, overtaken>>

\* POST .../defects, createDefect (RefCounter has its key).
InsertDefect(f) ==
    /\ At(f, "defect", "post")
    /\ defect' = defect \cup {f}
    /\ audit' = audit \cup {<<f, "created">>}
    /\ Answer(f, "answered")
    /\ UNCHANGED <<run, link, screen, overtaken>>

\* POST .../cases/[runCaseId]/defects, linkDefect: what is sent, for any status
\* of the run and of the case, and again if it is linked already.
InsertLink(f) ==
    /\ flow[f].op \in {"defect", "link"} /\ flow[f].pc = "link"
    /\ link' = [link EXCEPT ![f] = [run |-> flow[f].run, case |-> flow[f].case,
                                    ref |-> flow[f].ref, defect |-> flow[f].defect,
                                    unlinkedBy |-> None]]
    /\ audit' = audit \cup {<<f, "linked">>}
    /\ Answer(f, "done")
    /\ UNCHANGED <<run, defect, screen, overtaken>>

\* PATCH /api/runs/[runId], updateRun: nothing is written or logged if nothing
\* changes.
Logged(from, to) ==
    CASE to = "sealed" -> "sealed"
      [] to = "archived" -> "archived"
      [] to = "active" -> IF from = "sealed" THEN "reopened" ELSE "updated"

PatchStatus(f) ==
    /\ At(f, "status", "post")
    /\ LET r == flow[f].run  from == run[r].status  to == flow[f].to
       IN /\ run' = [run EXCEPT ![r].status = to]
          /\ audit' = IF from = to THEN audit ELSE audit \cup {<<f, Logged(from, to)>>}
    /\ Answer(f, "answered")
    /\ UNCHANGED <<defect, link, screen, overtaken>>

PatchTitle(f) ==
    /\ At(f, "edit", "post")
    /\ run' = [run EXCEPT ![flow[f].run].title = f]
    /\ audit' = audit \cup {<<f, "updated">>}
    /\ Answer(f, "answered")
    /\ UNCHANGED <<defect, link, screen, overtaken>>

\* POST /api/runs, createRun, of the cases that the browser knows (for a copy,
\* those of the run or of its plan), and GET of the run it has made.
InsertRun(f) ==
    /\ At(f, "create", "post")
    /\ \E cases \in SUBSET Cases \ {{}} :
          run' = [run EXCEPT ![f] =
             [title |-> f, status |-> "active",
              result |-> [c \in Cases |-> IF c \in cases THEN "Not run" ELSE None]]]
    /\ audit' = audit \cup {<<f, "created">>}
    /\ Answer(f, "answered")
    /\ UNCHANGED <<defect, link, screen, overtaken>>

\* A request that does nothing: refused, or never arrived.
Fail(f) ==
    /\ flow[f].op \in {"result", "defect", "link", "status", "edit", "create"}
    /\ flow[f].pc \in {"post", "link"}
    /\ IF flow[f].op = "result" THEN Goto(f, "rejected") ELSE Failed(f)
    /\ UNCHANGED <<Server, screen, overtaken>>

-----------------------------------------------------------------------------
(* Answers *)

\* The catch of updateExecution: the whole execution as it was at the click,
\* unless the run is sealed by now.
Rollback(f) ==
    /\ At(f, "result", "rejected")
    /\ LET b == Owner[f]  r == flow[f].run
       IN screen' = IF Mutable(screen[b], r)
                    THEN [screen EXCEPT ![b].runs[r].exec[flow[f].case] = flow[f].prev]
                    ELSE screen
    /\ Begin(f, Past)
    /\ UNCHANGED <<Server, overtaken>>

Renamed(ids, d) == IF Temp(d) \in ids THEN (ids \ {Temp(d)}) \cup {Real(d)} ELSE ids

\* RECONCILE_DEFECT: the key is known, and the id wherever the made-up one stands.
Reconciled(s, d) ==
    [s EXCEPT
        !.keys = (@ \ {Temp(d)}) \cup {Real(d)},
        !.runs = [r \in Runs |->
            IF s.runs[r] = None THEN None
            ELSE [s.runs[r] EXCEPT !.exec = [c \in Cases |->
                     [s.runs[r].exec[c] EXCEPT !.defects = Renamed(@, d)]]]]]

\* The link is posted next, with the answered key, if the case of the run is
\* known to the server.
Reconcile(f) ==
    /\ At(f, "defect", "answered")
    /\ LET b == Owner[f]
       IN /\ screen' = [screen EXCEPT ![b] = Reconciled(@, f)]
          /\ Begin(f, [flow[f] EXCEPT
                !.ref = KeyOf(Real(f)),
                !.pc = LinkIf(screen[b], flow[f].run, flow[f].case)])
    /\ UNCHANGED <<Server, overtaken>>

\* The promise of a creation settles once the defect is linked, or a call has
\* failed.
Awaited(f) ==
    /\ At(f, "link", "wait") /\ ~Open(flow[f].defect)
    /\ Goto(f, IF flow[flow[f].defect].pc = "failed" THEN "failed"
               ELSE LinkIf(screen[Owner[f]], flow[f].run, flow[f].case))
    /\ UNCHANGED <<Server, screen, overtaken>>

\* DELETE_RUN.
WithoutRun(s, r) ==
    [s EXCEPT !.runs = [q \in Runs |-> IF q = r THEN None ELSE @[q]],
              !.current = IF @ = r THEN None ELSE @]

\* SEAL_RUN, UNSEAL_RUN and DELETE_RUN.
ConfirmStatus(f) ==
    /\ At(f, "status", "answered")
    /\ LET b == Owner[f]  s == screen[b]  r == flow[f].run
       IN IF s.runs[r] = None THEN UNCHANGED <<screen, overtaken>>
          ELSE IF flow[f].to = "archived"
          THEN Show(b, WithoutRun(s, r))
          ELSE Show(b, [s EXCEPT !.runs[r].sealed = flow[f].to = "sealed"])
    /\ Begin(f, Past)
    /\ UNCHANGED Server

\* UPDATE_RUN.
ConfirmEdit(f) ==
    /\ At(f, "edit", "answered")
    /\ LET b == Owner[f]  r == flow[f].run
       IN screen' = IF screen[b].runs[r] = None THEN screen
                    ELSE [screen EXCEPT ![b].runs[r].title = f]
    /\ Begin(f, Past)
    /\ UNCHANGED <<Server, overtaken>>

\* What a browser holds once it has added a run.
WithRun(s, r) ==
    [s EXCEPT !.runs[r] = LocalRun(run[r], r, [l \in Links |-> None], {}),
              !.mapped[r] = CasesOf(run[r]), !.current = r]

\* Mutant: the screen stays where it is.
ConfirmCreateHere(f) ==
    /\ At(f, "create", "answered")
    /\ Show(Owner[f], WithRun(screen[Owner[f]], f))
    /\ Begin(f, Past)
    /\ UNCHANGED Server

\* ADD_RUN makes the new run the current one; then the screen goes there.
ConfirmCreate(f) ==
    /\ At(f, "create", "answered")
    /\ Pushed(Owner[f], [WithRun(screen[Owner[f]], f) EXCEPT !.going = f])
    /\ Begin(f, Past)
    /\ UNCHANGED Server

-----------------------------------------------------------------------------
(* Syncs, and other clients *)

Sync(f) ==
    /\ flow[f] = Idle
    /\ Begin(f, [op |-> "sync", pc |-> "read",
                 rows |-> None, links |-> None, defects |-> None])
    /\ UNCHANGED <<Server, screen, overtaken>>

Reading(f, field) == At(f, "sync", "read") /\ flow[f][field] = None

\* listProjectRuns: the runs with their cases, and then the links.
ReadRuns(f) ==
    /\ Reading(f, "rows")
    /\ flow' = [flow EXCEPT ![f].rows = run]
    /\ UNCHANGED <<Server, screen, overtaken>>

ReadLinks(f) ==
    /\ Reading(f, "links") /\ flow[f].rows # None
    /\ flow' = [flow EXCEPT ![f].links =
                   {l \in Links : link[l] # None /\ link[l].unlinkedBy = None}]
    /\ UNCHANGED <<Server, screen, overtaken>>

\* listDefects.
ReadDefects(f) ==
    /\ Reading(f, "defects")
    /\ flow' = [flow EXCEPT ![f].defects = defect]
    /\ UNCHANGED <<Server, screen, overtaken>>

\* mergeLocalOnlyRunFields: what the server has of a case replaces what the
\* browser has, if it has anything.
Merged(new, old) ==
    IF old = None THEN new
    ELSE [new EXCEPT !.exec = [c \in Cases |->
             IF @[c] = [status |-> "Not run", defects |-> {}] THEN old.exec[c] ELSE @[c]]]

\* SYNC_REAL_PROJECT_DATA, of the runs, links and defects that were read.
Synced(s, row, rows, known) ==
    [s EXCEPT
        !.runs = [r \in Runs |-> IF row[r] = None THEN None
                                 ELSE Merged(LocalRun(row[r], r, rows, known), @[r])],
        !.mapped = [r \in Runs |-> IF row[r] = None THEN @[r] ELSE CasesOf(row[r])],
        !.keys = {id \in @ : id[2] = "temp"} \cup {Real(d) : d \in known},
        !.current = IF @ # None /\ row[@] = None THEN None ELSE @]

ConfirmSync(f) ==
    /\ At(f, "sync", "read") /\ flow[f].links # None /\ flow[f].defects # None
    /\ LET b == Owner[f]
           rows == [l \in Links |-> IF l \in flow[f].links
                                    THEN [link[l] EXCEPT !.unlinkedBy = None] ELSE None]
       IN Show(b, Synced(screen[b], flow[f].rows, rows, flow[f].defects))
    /\ Begin(f, Past)
    /\ UNCHANGED Server

\* Another client seals, reopens or archives a run, or links a defect of
\* another system.
OtherStatus(f) ==
    /\ flow[f] = Idle
    /\ \E r \in Runs, to \in Status :
          /\ run[r] # None /\ run[r].status # to
          /\ run' = [run EXCEPT ![r].status = to]
          /\ audit' = audit \cup {<<f, Logged(run[r].status, to)>>}
    /\ Begin(f, Past)
    /\ UNCHANGED <<defect, link, screen, overtaken>>

OtherLink(f) ==
    /\ flow[f] = Idle
    /\ \E r \in Runs : run[r] # None /\ \E c \in CasesOf(run[r]) :
          link' = [link EXCEPT ![f] = [run |-> r, case |-> c, ref |-> <<None, "ref">>,
                                       defect |-> None, unlinkedBy |-> None]]
    /\ audit' = audit \cup {<<f, "linked">>}
    /\ Begin(f, Past)
    /\ UNCHANGED <<run, defect, screen, overtaken>>

\* Mutant: the audit row before the update.
UnlinkAuditFirst(f) ==
    /\ flow[f] = Idle
    /\ \E l \in Links :
          /\ link[l] # None /\ link[l].unlinkedBy = None
          /\ Begin(f, [op |-> "unlink", pc |-> "audit", link |-> l])
    /\ UNCHANGED <<Server, screen, overtaken>>

\* DELETE, unlinkDefect: the check ...
Unlink(f) ==
    /\ flow[f] = Idle
    /\ \E l \in Links :
          /\ link[l] # None /\ link[l].unlinkedBy = None
          /\ Begin(f, [op |-> "unlink", pc |-> "update", link |-> l])
    /\ UNCHANGED <<Server, screen, overtaken>>

\* ... the update, which checks nothing ...
UnlinkRow(f) ==
    /\ At(f, "unlink", "update")
    /\ link' = [link EXCEPT ![flow[f].link].unlinkedBy = f]
    /\ Goto(f, "audit") \/ Goto(f, "unaudited")
    /\ UNCHANGED <<run, defect, audit, screen, overtaken>>

\* ... and the audit row.
UnlinkAudit(f) ==
    /\ At(f, "unlink", "audit")
    /\ audit' = audit \cup {<<f, "unlinked">>}
    /\ Goto(f, "done")
    /\ UNCHANGED <<run, defect, link, screen, overtaken>>

Next ==
    \/ \E b \in Browsers :
          SelectRun(b) \/ Arrive(b) \/ SelectCase(b) \/ AddCases(b) \/ Choose(b)
    \/ \E f \in {g \in Flows : Owner[g] # None} : LET b == Owner[f] IN
          \/ SetResult(b, f) \/ CreateDefect(b, f) \/ LinkDefect(b, f)
          \/ SealToggle(b, f) \/ DeleteRun(b, f) \/ EditRun(b, f)
          \/ CreateRun(b, f) \/ Sync(f)
    \/ \E f \in {g \in Flows : Owner[g] = None} :
          OtherStatus(f) \/ OtherLink(f)
    \/ \E f \in Flows :
          \/ Unlink(f)
          \/ RecordResult(f) \/ InsertDefect(f) \/ InsertLink(f)
          \/ PatchStatus(f) \/ PatchTitle(f) \/ InsertRun(f) \/ Fail(f)
          \/ Rollback(f) \/ Reconcile(f) \/ Awaited(f)
          \/ ConfirmStatus(f) \/ ConfirmEdit(f) \/ ConfirmCreate(f)
          \/ ReadRuns(f) \/ ReadLinks(f) \/ ReadDefects(f) \/ ConfirmSync(f)
          \/ UnlinkRow(f) \/ UnlinkAudit(f)

Spec == Init /\ [][Next]_vars

-----------------------------------------------------------------------------
(* Properties *)

\* A defect that a screen shows on a case was linked to it on the server, by an
\* id or a key, unless the command that showed it has failed, stands before its
\* link, or could not be sent: nothing else is shown and not saved, whatever
\* was renamed, rolled back or synced meanwhile (FreshProvider.tsx:2175-2250).
ShownDefectsLinked ==
    \A b \in Browsers, r \in Runs, c \in Cases :
        screen[b].runs[r] # None =>
            \A name \in screen[b].runs[r].exec[c].defects :
                \/ \E l \in Links : /\ link[l] # None
                                    /\ link[l].run = r /\ link[l].case = c
                                    /\ name[1] = link[l].ref[1]
                \/ \E f \in Flows : /\ Owner[f] = b /\ flow[f].op \in {"defect", "link"}
                                    /\ flow[f].run = r /\ flow[f].case = c
                                    /\ flow[f].defect = name[1] /\ flow[f].pc # "done"

\* Commands go to the run that is shown, unless a navigation is under way or a
\* click on the run shown has overtaken the one to a run just created
\* (RunsScreen.tsx:180-182, FreshProvider.tsx:990-1002).
ShownIsCurrent ==
    \A b \in Browsers :
        screen[b].going = Absent /\ b \notin overtaken /\ screen[b].url # None =>
            screen[b].current = screen[b].url

\* A link is unlinked by a client that has logged it, or that stands, or has
\* stopped, between its update and its audit row; and what is logged as
\* unlinked is (DefectService.ts:454-489).
UnlinksAudited ==
    /\ \A l \in Links : link[l] # None /\ link[l].unlinkedBy # None =>
          LET f == link[l].unlinkedBy
          IN <<f, "unlinked">> \in audit \/ flow[f].pc \in {"audit", "unaudited"}
    /\ \A f \in Flows : <<f, "unlinked">> \in audit =>
          link[flow[f].link].unlinkedBy # None

=============================================================================
