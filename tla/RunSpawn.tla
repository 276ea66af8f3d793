------------------------------ MODULE RunSpawn ------------------------------
(***************************************************************************)
(* Spawning a run while plans and cases are edited.                        *)
(*                                                                         *)
(* TestRunService.createRun copies test cases into a run.  Its first phase *)
(* reads the plan, the plan's cases, the case rows and the step rows with  *)
(* four SELECTs outside any transaction; its second inserts what was read. *)
(* TestCaseService.updateCase and archiveCase, and TestPlanService's       *)
(* updatePlan, setPlanCases and archivePlan, commit between them.  None of *)
(* these five decides anything from a row that can change, so each is one  *)
(* step here, at its commit.                                               *)
(*                                                                         *)
(* A save of a case with steps DELETEs its step rows and inserts the list  *)
(* sent, with the ids sent: foreign keys drop the links of run snapshots   *)
(* to the deleted rows, and refuse a new snapshot of a row that is gone.   *)
(*                                                                         *)
(* A row is represented by the sequence of its states, the last of which   *)
(* is the row; the others are history, for the properties.  The texts of a *)
(* case are stamped with the number of the state that brought them.        *)
(***************************************************************************)
EXTENDS Naturals, Sequences

CONSTANTS
    TestCases,     \* test_cases rows of the project
    Plans,         \* test_plans rows
    StepIds,       \* ids of test_case_steps rows
    Requests,      \* one POST /runs each
    MaxStates,     \* bound on the states a row goes through
    Null

PlanStatuses == {"draft", "active", "archived"}

VARIABLES
    case,          \* states of each test_cases row and its test_case_steps
    plan,          \* states of each test_plans row and its test_plan_cases
    runOf,         \* the run each request has created, or Null
    req            \* what each request knows so far

spawnVars == <<case, plan, runOf, req>>

\* test_case_steps rows of a case: the text of each id, 0 where it has no row.
StepRows == [StepIds -> Nat]
Ids(steps) == {s \in StepIds : steps[s] # 0}

CaseState == [title: Nat, archived: BOOLEAN, steps: StepRows]
PlanState == [status: PlanStatuses, cases: SUBSET TestCases]

\* links: the steps that original_step_id still names.
Snapshot == [title: Nat, steps: StepRows, links: SUBSET StepIds]

\* since: how many states each row had gone through when the request came.
Since == [case: [TestCases -> Nat], plan: [Plans -> Nat]]

Run == [plan: Plans \cup {Null}, chosen: SUBSET TestCases, since: Since,
        snap: [TestCases -> {Null} \cup Snapshot]]

ASSUME SpawnAssumption ==
    /\ MaxStates \in Nat \ {0}
    /\ Null \notin Plans
    /\ Null \notin Snapshot
    /\ Null \notin Run

Settled == [pc |-> "settled"]

\* ids: the selected cases; titles and steps: what was read of them.
Request ==
    {[pc |-> "idle"], Settled}
    \cup [pc: {"plan", "plan cases"}, plan: Plans, chosen: SUBSET TestCases,
          since: Since]
    \cup [pc: {"cases"}, plan: Plans \cup {Null}, chosen: SUBSET TestCases,
          since: Since, ids: SUBSET TestCases]
    \cup [pc: {"steps"}, plan: Plans \cup {Null}, chosen: SUBSET TestCases,
          since: Since, ids: SUBSET TestCases, titles: [TestCases -> Nat]]
    \cup [pc: {"commit"}, plan: Plans \cup {Null}, chosen: SUBSET TestCases,
          since: Since, ids: SUBSET TestCases, titles: [TestCases -> Nat],
          steps: [TestCases -> StepRows]]

SpawnTypeOK ==
    /\ case \in [TestCases -> Seq(CaseState) \ {<<>>}]
    /\ plan \in [Plans -> Seq(PlanState) \ {<<>>}]
    /\ runOf \in [Requests -> {Null} \cup Run]
    /\ req \in [Requests -> Request]

-----------------------------------------------------------------------------
(* Rows *)

Present(states) == states[Len(states)]

\* The ids the steps of a case have ever had: a client may send any of them,
\* its copy of the case being of any age.
EverOf(c) == UNION {Ids(case[c][i].steps) : i \in DOMAIN case[c]}
Unused == StepIds \ UNION {EverOf(c) : c \in TestCases}

\* Mutant: an archived case can be run.
RunnableArchived(c) == TRUE

\* eq(testCases.isArchived, false)
Runnable(c) == ~Present(case[c]).archived

\* Mutant: no foreign key on original_step_id.
StepExistsUnchecked(s) == TRUE

\* FOREIGN KEY (original_step_id) REFERENCES test_case_steps (id)
StepExists(s) == \E c \in TestCases : s \in Ids(Present(case[c]).steps)

\* Mutant: ON DELETE NO ACTION.
UnlinkedNever(gone) == runOf

\* ON DELETE SET NULL of the same key, for the step rows deleted.
Unlinking(snap, gone) == IF snap = Null THEN Null ELSE [snap EXCEPT !.links = @ \ gone]
Unlinked(gone) ==
    [r \in Requests |->
       IF runOf[r] = Null THEN Null
       ELSE [runOf[r] EXCEPT !.snap = [c \in TestCases |-> Unlinking(runOf[r].snap[c], gone)]]]

\* Cases and plans as created: a first state with any steps, each step of
\* one case only.
SpawnInit ==
    /\ case \in [TestCases -> {<<[title |-> 1, archived |-> FALSE,
                             steps |-> [s \in StepIds |->
                                         IF s \in ids THEN 1 ELSE 0]]>> :
                              ids \in SUBSET StepIds}]
    /\ \A c, d \in TestCases : c # d => EverOf(c) \cap EverOf(d) = {}
    /\ plan \in [Plans -> {<<[status |-> "draft", cases |-> cs]>> :
                              cs \in SUBSET TestCases}]
    /\ runOf = [r \in Requests |-> Null]
    /\ req = [r \in Requests |-> [pc |-> "idle"]]

-----------------------------------------------------------------------------
(* TestRunService.createRun *)

\* No case ids and no plan is PLAN_EMPTY.
Submit(r) ==
    /\ req[r].pc = "idle"
    /\ \E p \in Plans \cup {Null}, chosen \in SUBSET TestCases :
          LET since == [case |-> [c \in TestCases |-> Len(case[c])],
                        plan |-> [q \in Plans |-> Len(plan[q])]]
          IN req' = [req EXCEPT ![r] =
                       IF p # Null
                       THEN [pc |-> "plan", plan |-> p, chosen |-> chosen,
                             since |-> since]
                       ELSE IF chosen = {} THEN Settled
                       ELSE [pc |-> "cases", plan |-> Null, chosen |-> chosen,
                             since |-> since, ids |-> chosen]]
    /\ UNCHANGED <<case, plan, runOf>>

\* Mutant: archived plans are not refused.
LoadAnyPlan(r) ==
    /\ req[r].pc = "plan"
    /\ req' = [req EXCEPT ![r].pc = "plan cases"]
    /\ UNCHANGED <<case, plan, runOf>>

\* PLAN_ARCHIVED: drafts may be run.
LoadPlan(r) ==
    /\ req[r].pc = "plan"
    /\ req' = [req EXCEPT ![r] =
                 IF Present(plan[req[r].plan]).status = "archived" THEN Settled
                 ELSE [req[r] EXCEPT !.pc = "plan cases"]]
    /\ UNCHANGED <<case, plan, runOf>>

\* PLAN_EMPTY, CASES_NOT_IN_PLAN, or all of the plan when none are chosen.
LoadPlanCases(r) ==
    /\ req[r].pc = "plan cases"
    /\ LET members == Present(plan[req[r].plan]).cases
           chosen == req[r].chosen
       IN req' = [req EXCEPT ![r] =
                    IF members = {} \/ ~(chosen \subseteq members) THEN Settled
                    ELSE [pc |-> "cases", plan |-> req[r].plan,
                          chosen |-> chosen, since |-> req[r].since,
                          ids |-> IF chosen = {} THEN members ELSE chosen]]
    /\ UNCHANGED <<case, plan, runOf>>

\* CASES_UNAVAILABLE unless every selected case can be run.
LoadCases(r) ==
    /\ req[r].pc = "cases"
    /\ req' = [req EXCEPT ![r] =
                 IF \A c \in req[r].ids : Runnable(c)
                 THEN [pc |-> "steps", plan |-> req[r].plan,
                       chosen |-> req[r].chosen, since |-> req[r].since,
                       ids |-> req[r].ids,
                       titles |-> [c \in TestCases |-> Present(case[c]).title]]
                 ELSE Settled]
    /\ UNCHANGED <<case, plan, runOf>>

\* Mutant: the steps as the client has them.
LoadStepsCached(r) ==
    /\ req[r].pc = "steps"
    /\ req' = [req EXCEPT ![r] =
                 [pc |-> "commit", plan |-> req[r].plan,
                  chosen |-> req[r].chosen, since |-> req[r].since,
                  ids |-> req[r].ids, titles |-> req[r].titles,
                  steps |-> [c \in TestCases |-> Head(case[c]).steps]]]
    /\ UNCHANGED <<case, plan, runOf>>

LoadSteps(r) ==
    /\ req[r].pc = "steps"
    /\ req' = [req EXCEPT ![r] =
                 [pc |-> "commit", plan |-> req[r].plan,
                  chosen |-> req[r].chosen, since |-> req[r].since,
                  ids |-> req[r].ids, titles |-> req[r].titles,
                  steps |-> [c \in TestCases |-> Present(case[c]).steps]]]
    /\ UNCHANGED <<case, plan, runOf>>

\* The run with its cases and step snapshots, in one transaction that fails
\* on a step deleted since it was read.
Commit(r) ==
    /\ req[r].pc = "commit"
    /\ LET h == req[r] IN
       runOf' = [runOf EXCEPT ![r] =
                  IF \A c \in h.ids : \A s \in Ids(h.steps[c]) : StepExists(s)
                  THEN [plan |-> h.plan, chosen |-> h.chosen, since |-> h.since,
                        snap |-> [c \in TestCases |->
                                    IF c \notin h.ids THEN Null
                                    ELSE [title |-> h.titles[c],
                                          steps |-> h.steps[c],
                                          links |-> Ids(h.steps[c])]]]
                  ELSE Null]
    /\ req' = [req EXCEPT ![r] = Settled]
    /\ UNCHANGED <<case, plan>>

\* A refusal the rows above have no part in (role, assignees), a failed
\* statement or a crash.
FailSpawn(r) ==
    /\ req[r].pc \notin {"idle", "settled"}
    /\ req' = [req EXCEPT ![r] = Settled]
    /\ UNCHANGED <<case, plan, runOf>>

-----------------------------------------------------------------------------
(* TestCaseService.updateCase, archiveCase *)

\* The row changes in some fields; steps, when sent, replace the whole list,
\* and a step of it may keep the text it has.
SaveCase(c) ==
    /\ Len(case[c]) < MaxStates
    /\ \E retitled, rewritten, archived \in BOOLEAN,
          ids \in SUBSET (EverOf(c) \cup Unused) :
          LET now == Present(case[c])
              n == Len(case[c]) + 1
          IN /\ case' = [case EXCEPT ![c] = Append(@,
                   [title |-> IF retitled THEN n ELSE now.title,
                    archived |-> archived,
                    steps |-> [s \in StepIds |->
                       IF s \notin ids THEN 0
                       ELSE IF rewritten \/ now.steps[s] = 0 THEN n
                       ELSE now.steps[s]]])]
             /\ runOf' = Unlinked(Ids(now.steps))
    /\ UNCHANGED <<plan, req>>

\* Mutant: a title left out is written as NULL.
PatchCaseUntitled(c) ==
    /\ Len(case[c]) < MaxStates
    /\ \E archived \in BOOLEAN :
          case' = [case EXCEPT ![c] = Append(@,
                     [Present(@) EXCEPT !.title = Null, !.archived = archived])]
    /\ UNCHANGED <<plan, runOf, req>>

\* A patch without steps, and archiveCase, leave the step rows alone.
PatchCase(c) ==
    /\ Len(case[c]) < MaxStates
    /\ \E retitled, archived \in BOOLEAN :
          LET now == Present(case[c])
          IN case' = [case EXCEPT ![c] = Append(@,
                [now EXCEPT !.title = IF retitled THEN Len(case[c]) + 1 ELSE @,
                            !.archived = archived])]
    /\ UNCHANGED <<plan, runOf, req>>

-----------------------------------------------------------------------------
(* TestPlanService.setPlanCases, updatePlan, archivePlan *)

SetPlanCases(p) ==
    /\ Len(plan[p]) < MaxStates
    /\ \E cs \in SUBSET TestCases :
          plan' = [plan EXCEPT ![p] = Append(@, [Present(@) EXCEPT !.cases = cs])]
    /\ UNCHANGED <<case, runOf, req>>

SetPlanStatus(p) ==
    /\ Len(plan[p]) < MaxStates
    /\ \E s \in PlanStatuses :
          plan' = [plan EXCEPT ![p] = Append(@, [Present(@) EXCEPT !.status = s])]
    /\ UNCHANGED <<case, runOf, req>>

SpawnNext ==
    \/ \E r \in Requests :
          \/ Submit(r) \/ LoadPlan(r) \/ LoadPlanCases(r)
          \/ LoadCases(r) \/ LoadSteps(r) \/ Commit(r) \/ FailSpawn(r)
    \/ \E c \in TestCases : SaveCase(c) \/ PatchCase(c)
    \/ \E p \in Plans : SetPlanCases(p) \/ SetPlanStatus(p)

SpawnSpec == SpawnInit /\ [][SpawnNext]_spawnVars

-----------------------------------------------------------------------------
(* Properties *)

Spawned == {r \in Requests : runOf[r] # Null}
SpawnedCases(r) == {c \in TestCases : runOf[r].snap[c] # Null}

\* Nothing in a run is older than the request for it: each case's columns
\* are those it had, unarchived, at some moment since, and its steps those
\* it had then or later (TestRunService.ts:679-728).
NothingStale ==
    \A r \in Spawned : \A c \in SpawnedCases(r) :
        LET snap == runOf[r].snap[c] IN
        \E i \in runOf[r].since.case[c]..Len(case[c]) :
            /\ case[c][i].title = snap.title
            /\ ~case[c][i].archived
            /\ \E j \in i..Len(case[c]) : case[c][j].steps = snap.steps

\* A run of a plan has the cases asked for, all of them the plan's after a
\* moment, since the request, at which it was not archived.
PlanHonoured ==
    \A r \in Spawned : runOf[r].plan # Null =>
        LET states == plan[runOf[r].plan]
            ids == SpawnedCases(r)
        IN \E i \in runOf[r].since.plan[runOf[r].plan]..Len(states) :
              /\ states[i].status # "archived"
              /\ \E j \in i..Len(states) :
                    IF runOf[r].chosen = {} THEN ids = states[j].cases
                    ELSE ids = runOf[r].chosen /\ ids \subseteq states[j].cases

\* The link of a step snapshot names a present step of the snapshot's own
\* case: the screen looks results up by it (run-client.ts:312-313).
LinksSound ==
    \A r \in Spawned : \A c \in SpawnedCases(r) :
        runOf[r].snap[c].links \subseteq Ids(Present(case[c]).steps)
=============================================================================
