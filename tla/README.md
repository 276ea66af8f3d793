# Testlane, in TLA+

Testlane is a test management tool: a Next.js application (`src/apps/web`) over a
service layer on MySQL (`src/packages/db`). People write test cases, group them
in plans, spawn runs from plans, record a result for every case and step of a
run, link defects and requirements, and finally seal the run, which is the
record of what was tested. The value of the tool is that record. The
specifications here ask whether it can be trusted when several people work at
once, when a request stops half way, when answers come late or not at all, and
when roles change under people's feet.

## 1. The system

All state that lasts is in MySQL. A request is one asynchronous function of a
service module: it reads rows with plain SELECTs, throws a `ServiceError` when
something does not hold, writes, and answers. Between two `await`s any other
request may run, so **what a handler has read can be old when it writes**. Most
services write in one transaction, and some with several statements of their
own. MySQL runs at its default isolation and lock rules; the code takes a row
lock explicitly (`FOR UPDATE`) in one place only, the reference counters.

A browser holds a copy of the project it shows, in one reducer (FreshProvider).
It is filled by syncs of several requests each, changed by the answers to
commands, and in three places (a result, a defect, a requirement) before the
answer. **What a command sends was computed from a copy that may be old, and what
its answer changes may have been replaced meanwhile.**

| Component (source under `src/`) | State it keeps | Operations | What is hard | What makes it correct | Status |
|---|---|---|---|---|---|
| Result recording, run lifecycle (`packages/db/services/ExecutionService.ts`, `TestRunService.updateRun`) | `test_runs`, `test_run_cases`, `run_step_results`, `run_case_events` | `updateCaseResult`, `updateStepResult`, `updateRun` | status check and write are not one transaction; the event is computed from an old row | a sealed run stops changing; the logs tell the history of the rows | `RunExecution` |
| Reference counters (`generate*Ref`, five copies; `seed/insert.ts`) | `ref_counters`, unique keys on refs | every create call | lock waits, timeouts, rollbacks, several kinds in one table | numbers unique and consecutive, nobody waits for ever | `RefCounter` |
| Run spawning (`TestRunService.createRun`) | `test_run_cases`, `run_case_step_snapshots` | `createRun` against edits of cases and plans | four reads before the transaction; foreign keys that unlink | a run copies cases as they were, of a plan that had them | `RunSpawn` |
| Users, roles, permission checks (`UserService.ts`, `ProjectService.ts`, `src/rbac`) | `users`, `project_roles`, `projects` | `createUser`, `updateUser`, `createProject`, `assignProjectRole` | check, count and write are separate statements | an active admin remains; nobody raises himself | `UserAdmin`, `Workspace` |
| Cases, folders, comments (`TestCaseService.ts`, `CasesScreen.tsx`) | `test_cases`, `test_case_steps`, `folders`, `case_comments` | create, update, archive, comment, list | steps replaced by delete and insert; audit outside the transaction; drafts of old copies | comments stay on their step; the audit log replays; an editor edits what is shown | `CaseLibrary`, `CaseScreen` |
| Plans (`TestPlanService.ts`, `PlansScreen.tsx`) | `test_plans`, `test_plan_cases` | create, update, set cases, archive, duplicate | a plan's queries are interpreted by the browser and saved by two calls | the stored cases are those the stored queries find | `PlanSync` |
| Defects (`DefectService.ts`, `RunsScreen.tsx`) | `defects`, `run_defect_links` | create, link, unlink | made-up ids; unlink is check, update, audit | what is shown is linked; what is unlinked is logged | `RunScreen` |
| Requirements (`RequirementService.ts`, `RequirementsScreen.tsx`) | `requirements`, `case_requirements` | create, link | a race ended by a unique key; made-up ids | one link and one audit row | `CaseLibrary`, `CaseScreen` |
| Project clone (`ProjectCloneService.ts`) | copies of most tables | `cloneProject` | thirteen reads outside the transaction | everything copied, nothing leads back | `Workspace` |
| Workspace reset (`WorkspaceResetService.ts`, `src/seed`) | every table | clear, fill | no transaction; the order of deletes | ends in the seeded state | `Workspace` |
| Admin settings (`AdminSettingsService.ts`, `admin-reducer.ts`, admin pages) | role definitions, API keys | create, update, delete | check, write, audit; made-up rows replaced by loaded ones | the screen shows the rows; the acting person stays | `OrgScreen` |
| Screen state (`apps/web/src/fresh/data/FreshProvider.tsx`) | one browser's copy | every write, syncs, reload | answers out of order, lost answers, rollbacks | a quiet screen agrees with the server | five screen modules |
| Audit log (`AuditService.ts`) | `audit_log` | append, list | which transaction appends | it names who did what | in every module that logs |
| API routes, schemas | none | parse, call | - | - | first steps and inputs of handlers |
| Local demo state (selectors, migration) | local storage | reducers | sequential | - | partly, in `OrgScreen` and `RunScreen` |
| Recent views, search; reads, dashboards; authentication; legacy screens | - | - | - | - | not modelled (section 6) |

The services call each other little: every service calls `assertMinProjectRole`
and `recordAudit`; the create calls all have a `generate*Ref`; `createRun` reads
what the plan and case services write; `updateCaseResult` reads what `createRun`
and `updateRun` write. They interact through rows and nothing else, which is why
each module models one group of rows and *all* the handlers that write them. The
screens interact with them through HTTP calls, each of which may be refused, be
answered late, or be carried out and never answered.

`PROJECT.json` lists every component with its status, and under `hazards` what is
hard to test, at its line, with the properties that cover it.

## 2. The modules

The server:

| Module | Models | State | Actions |
|---|---|---|---|
| `RunExecution` | the handlers that record results and change a run's status | `runRow`, `caseRow`, `stepRow`, `events`, `audit`; `req`: what each handler knows | `Submit*`, `Load*`, `Commit*` of three handlers, `Fail` |
| `RefAllocator` | what numbering promises (abstract) | `issued` per kind | `Issue` |
| `RefCounter` | the three statements of `generate*Ref` in their transaction | `counter`, `holder` (the row lock), `issued`, `tx` | `Begin`, `Ensure`, `Reject`, `Timeout`, `Read`, `Bump`, `InsertRow`, `Commit`, `Abort` |
| `RunSpawn` | `createRun` and the edits it races with | `case` and `plan` as sequences of states, `runOf`, `req` | one per read of `createRun`, `Commit`, `SaveCase`, `PatchCase`, `SetPlanCases`, `SetPlanStatus`, `FailSpawn` |
| `UserAdmin` | users, project roles and both permission checks | `user`, `grant`, `handler`; history `writes`, `held` | `Submit*`, `LoadTarget`, `CountOtherActiveAdmins`, `LoadRole`, `Write*`, `Fail` |
| `AuditedSet` | a set that grows one logged element at a time (abstract) | `members`, `log` | `Add` |
| `CaseLibrary` | TestCaseService and requirement links, with their routes | `folder`, `case`, `steps`, `comment`, `linked`, `caseLog`, `linkLog`, `req` | `Post*`, `Patch*`, `Delete*`, `Get*` of the routes, `Check*`, `Insert*`, `Commit*`, `Write*`, `Audit*`, four reads of `listCases`, `Abandon` |
| `Workspace` | copies of projects, new projects and the reset, over all tables and their foreign keys | `rows`, `ref` (foreign keys set), `named` (case ids in queries), `slug`, `req`; history `disturbed` | `StartReset`, `ClearRead`, `ClearDelete`, `Cleared`, `FillNext`; `StartClone`, `CloneRead`, `CloneCommit`; `StartCreate`, `InsertProject`; `Edit` (every other service) |

The browser, with the server as far as it can tell:

| Module | Models | State | Actions |
|---|---|---|---|
| `ClientRecording` | one browser that records results of a case | `sealed`, `row` on the server, `screen`, `call` in between; history `recorded`, `doubt` | `RecordResult`, `RecordStep`, `ToggleSeal`, `Sync`, `Reload`; `Check*`, `Commit*`, `ServerFail`, `Read*`; `*Accepted`, `*Rejected`; `Elsewhere*` |
| `RunScreen` | the Runs screen: the run it shows, the run commands go to, defects raised from a case | rows `run`, `defect`, `link`, `audit`; `screen` per browser; `flow`; history `overtaken` | clicks (`SetResult`, `CreateDefect`, `LinkDefect`, `SealToggle`, ...), navigation (`SelectRun`, `Arrive`), server steps, answers (`Rollback`, `Reconcile`, `Awaited`, `Confirm*`), syncs, other clients |
| `PlanSync` | plans: queries, the cases they find, and the two calls that save both | `lib`, `plan`, `members`, `audit`; `screen`, `flow`; history `drifted`, `had` | forms (`Open*`, `Close*`, `SaveEdit`), query groups, `DuplicatePlan`, `SpawnRun`; `Patch*`, `PutCases`, `Create*`, `Archive*`; `Confirm*`, `Read*` |
| `CaseScreen` | the Cases screen and the requirement list: the open case, its draft, folders, comments, links | `case`, `folder`, `reqs`, `links`, `run`; `screen`, `flow`; history `overlapped`, `misled` | `Browse`, `Click`, `Serve`, `Confirm`, each a disjunction of the functions it names |
| `OrgScreen` | users, role definitions and API keys as a browser shows them, and the person it acts as | `db`, `audit`; `screen`, `actor`, `backend`, `load`, `call`; history `unsure` | commands, server steps `Check`, `WriteUser`, `WriteRole`, `WriteKey`, `Record`, `Stop`, answers `Answer`, `Refuse`, `Lose`, other administrators, page loads |

`*Proofs` modules hold theorems and proofs, `MC*` modules instances for TLC. Two of the
former are about several components and extend them all: names are chosen so that
`RefCounter`, `Workspace` and `UserAdmin`, and `RunScreen` and `RunSpawn`, go together.

Conventions:

* `Requests` is a set of handler invocations. `req[r]` is a record: `op` is the
  method, `pc` the statement it is about to run, the other fields its local
  variables. `seen` is a row it read earlier, which may be old by now. A row that
  request r creates carries r as its id.
* One SELECT is one step. A transaction is one step when all it does is write rows
  by key: InnoDB's row locks order two transactions on the same row, and nobody
  sees half of one. The transaction of `RefCounter` is *not* one step, since it
  reads under a lock and can wait. Statements outside a transaction are a step each.
* A refused request (`ServiceError`) and a failed one leave nothing behind but
  what earlier statements had written. `Fail`, `FailSpawn`, `Abandon` and `Stop` are a rollback,
  a lost connection or a crash of the server between any two statements.
* In the screen modules the unit is a *flow*, one command with every call it makes;
  its `pc` is where it stands, in the browser or on the server. An answer may be
  lost after the server has done its part.
* `None` is SQL NULL or an absent row, `Absent` a field left out of the request.
  Texts, comments and titles are members of small sets; where it matters who wrote
  one, it is the flow that did.
* Definitions marked *Mutant* are plausible bugs in the definition below them.
  Nothing uses them: they are there to show that each property can fail.

How the modules fit: `RunSpawn` produces the rows `RunExecution` starts from;
`RefCounter` is inside the transaction of every create call; `UserAdmin` decides
the `Level` that `RunExecution` and `CaseLibrary` take as a constant. A screen
module has each handler as one step and leaves its interleavings to the module of
the service (`ClientRecording` and `RunScreen` to `RunExecution`, `CaseScreen` to
`CaseLibrary`), except where the browser makes several calls: these stay apart.
`PlanSync` keeps the handlers whose audit row is a statement of its own in two steps,
and `OrgScreen` what a handler checks, what it writes and the audit row in three;
the three SELECTs that `updateUser` checks by are apart in `UserAdmin` only, and no
property of `OrgScreen` says that an administrator is left.

What each model leaves out:

* **RunExecution.** `due_date` and the environment are one flag `due`, whether
  the patch has such a change; `updatedAt` likewise. `executed_at` goes with
  `executed_by`, both being set from one condition. `stalled`, which nothing in
  the services writes, is no status here. Roles are fixed.
* **RefCounter.** `next_value` is a natural number: `INT UNSIGNED` would need four
  billion creations. What is inserted beside the numbered row is the single step
  `InsertRow`, failing or not.
* **RunSpawn.** A case is its title, its archived flag and its steps; texts are
  stamped with the state that brought them, so that a copy can be traced to the
  state it came from. Assignees and the role check only refuse a request, which
  `FailSpawn` covers.
* **UserAdmin.** One organisation, one project. Names, job titles and avatars are
  not in the rows.
* **CaseLibrary.** Of the columns of a case, folder, title and archived: the others
  are written and audited with the title. A step is where it came from. Search
  words and filters of `listCases` are a set of folders. Fields that stay in the
  browser are left out.
* **Workspace.** A row is <<table, project, writer>>: all rows of a table that one
  flow wrote into one project. What is asked is which rows exist, which refer to
  which, and what a foreign key does with a statement. Columns are left out, but for
  slugs and the case ids in plan queries.
* **ClientRecording.** One browser, one run with one case of one step. Everybody else
  is `Elsewhere`, writes that land at once. What makes a project be fetched again is
  left open: a sync may come at any time. Assignees and defects of an entry are left
  out.
* **RunScreen.** Passed, Failed (also for Blocked) and Not run; comments, steps and
  assignees are not in an execution. Filters and the dialog states that lead to no
  call are left out.
* **PlanSync.** Conditions are the sets of cases they hold of; field, operator and
  value are in the name of a condition. Folders stand still. Positions of
  `test_plan_cases` are not modelled: their order is that of the request.
* **CaseScreen.** The columns of a case other than its folder are its version, which
  is what the body of a save has of them. What `localCasePatchToUpdateBody` drops or
  turns into something else (an empty title, steps without an action, an unknown type
  or person, ids of new steps) stays on the screen, which goes on showing the draft: it
  is the flag `local` of a copy. A comment is a general one, counted.
* **OrgScreen.** What a form sends is one of `Typed`. Names and e-mails are one set,
  passwords, avatars and masked key values none. Permissions of a role, custom
  fields, automation, profile, and the log that the browser keeps of itself are left
  out. The e-mail and the role of a user are modelled, since ids are reconciled by the
  one and the last administrator counted by the other, and not compared: the screen
  shows both as typed. Rows that answer to several lists are merged in the order of the list.

## 3. What is checked

Every run is `tlc -workers 2 -config <cfg> <module>`. Handlers and flows are
one-shot, so their number bounds a behaviour; every other bound is named below.

| Run (cfg) | Bounds | Distinct states |
|---|---|---|
| `RunExecution` | 3 handlers of any kind, 2 runs of which one has a case with one step, a viewer, a tester and an admin; patches that seal, reopen, archive or change the due date. Two handlers suffice for a stale read, the third seals while two results cross; the second run is for a case addressed through the wrong run | 685 000 |
| `RefCounter` | 4 creations over 3 kinds, one counter missing, one never accepted: a holder, two waiters, and a creation of another kind | 43 000 |
| `RunSpawn` | 2 cases, 1 plan, 2 step ids, 1 spawn, `MaxStates` 2 states per row. One edit of each row is enough to fall between any two of the reads; spawns do not read each other | 2 720 000 |
| `UserAdmin` | 2 users, 3 handlers. Two users suffice for mutual demotion, the third handler for one that is late | 767 000 |
| `CaseLibrary` | 3 handlers, a viewer and a tester, 1 seeded case with 1 step, 1 folder, 1 requirement; forms that keep, drop and add steps, move, rename, take out of the archive. Two saves and a reader or commenter between them, or two links and an archiving | 818 000 |
| `Workspace` | 1 reset, 1 copy, 1 other flow of any kind, the Demo Project and a blank one. The three are what can run at once; two copies that want one slug are a copy and a new project of that slug | 673 000 |
| `ClientRecording` | 3 calls of the browser or of others, 2 statuses, a note, an empty one and none, any number of reloads: two results that overlap and a sync, or two writes of others and a sync | 344 000 |
| `RunScreen` | 2 flows of one browser and 1 of another client, one run of 2 failed cases, 1 linked defect: a creation and the link that waits for it, a new run and a click, a seal elsewhere | 1 480 000 |
| `PlanSync` | 3 flows, 1 browser, 2 cases, 1 folder, 2 conditions, `MaxGroups` 1: two saves that cross and a sync, or a case added between them | 1 870 000 |
| `CaseScreen` | 2 flows of the browser and 1 of another client, 1 case, 1 folder, 1 requirement: a save and a sync, a requirement and its link | 1 101 000 |
| `OrgScreen` | 2 calls, 2 users, 2 roles and 1 key on the server, 3 users, 1 role and 1 key made up by the screen, one of them a person the server knows; each list loaded at any time | 1 100 000 |
| `UserAdmin_lockout_violation` | 2 users, 2 handlers | 93 000 when it stops |

What they show:

* **RunExecution.** `StatusLogged` says how far the transition log can be trusted: the
  present status occurs in it, and each event starts from a status that occurred
  before. `AuditReplaysResults`: the audit log replays to the rows, which the
  transition log does not. `SealAttributed`: a sealed run names the actor of its
  latest `run.sealed` row. `FrozenOnceDrained`: sealing takes hold when the handlers
  that had read the run as active are gone.
* **RefCounter.** Duplicates cannot happen (`NeverDuplicate`), so the five
  `DUPLICATE_*_REF` branches are dead code as the comment beside them suspects;
  numbers are consecutive in commit order even with rollbacks, because the counter
  rolls back as well (`Consecutive`, the refinement of `RefAllocator`); every
  creation ends (`EveryRequestEnds`).
* **RunSpawn.** A snapshot is not of one state of a case, but nothing in it is older
  than the request (`NothingStale`), it has the cases the plan had at a moment the
  plan was not archived (`PlanHonoured`), and a link from a snapshot to a live step
  never names the wrong case or a step that is gone (`LinksSound`).
* **UserAdmin.** The guard of the last active admin is right for one handler at a
  time (`AdminsLostOnlyByRace`), and a project role goes back to somebody who could
  administer the project (`GrantsTraceToAdmins`), though the two SELECTs of the check
  may see two states.
* **CaseLibrary.** Every comment of a case is on it or on one of its steps, though the
  step was looked up before the transaction (`TypeOK`); the audit log replays to
  folder, title and archiving although nobody reads a row again before writing it
  (`AuditReplaysCases`); a list, which reads the steps and the comments by two
  statements, hides no comment that was there when it read the steps, whatever saves
  replaced them before it read the comments (`ReadHidesOnlyNew`); linking a requirement implements `AuditedSet`
  (`LinksAudited`).
* **Workspace.** No foreign key leads from one project into another, whatever was
  written to the source between the reads and the commit (`ProjectsApart`); an
  undisturbed copy has every row and reference of its source (`AloneCopiesAll`, which
  leaves out references to defects, as `cloneProject` does; there is none, see below); an
  undisturbed reset leaves the seed, and beside it nothing but, where another reset has run, rows
  of the audit log without an organisation (`AloneRestores`); slugs are unique
  (`TypeOK`).
* **ClientRecording.** `QuietScreenAgrees` says when the screen may be wrong although
  it waits for nothing, and that these are all the cases: results of its own
  overlapped; one was recorded before the ids to send it to were known; a connection
  was lost or the page reloaded with a result in flight; a step result was refused,
  which is not rolled back, or the rollback restored less than all; somebody else
  recorded; a sync was crossed by a result.
* **RunScreen.** Commands go to the run that is shown, but for one race that the
  history variable `overtaken` names: a click on the run shown that overtakes the
  navigation to a run just created (`ShownIsCurrent`). What a screen shows as linked
  is linked, or its command is under way, failed or could not be sent
  (`ShownDefectsLinked`). Of unlinkings, `UnlinksAudited`.
* **PlanSync.** `PlansResolve`: the stored cases are those the stored queries find,
  unless saves crossed, cases came or went, or a save stopped between its calls, and
  `drifted` names the plans of which that is so. `ScreensShowStored`: nothing is shown
  that was never stored. `PlansAudited`: as for unlinking.
* **CaseScreen.** A draft is always of what is shown (`EditorCurrent`), so that a save
  does not bring back columns of an earlier copy; and a screen that waits for nothing
  and has missed nothing agrees with the server in what a save can send
  (`ScreenAgrees`).
* **OrgScreen.** `ScreenAgrees`: of a list that is loaded each row of the server is shown
  once, with its name and whether it is disabled, built in, or whose key it is, except
  rows that a command is under way about, that commands or loads overlapped on, that
  others changed, whose command or answer was lost, and the two that `AnsweredInVain`
  names: an invited user whose e-mail another row shows, and a disabling that the screen
  ignores; `ActorStays`: loading or answering,
  which give rows new ids, does not make the screen act as somebody else, where it is
  clear who acts: one row has the id, no other has the name, and no other is shown by an
  id that the server has for the name.

### What the repository says and the code does not keep

`UserAdmin_lockout_violation` checks `AdminLeft`: "Cannot demote or deactivate the last
active admin." (UserService.ts:190, and LAST_ADMIN in FRONTEND_CONTRACTS.md:193).
`updateUser` counts the other administrators by one statement and updates the user by
another, outside any transaction. Two requests, each about the administrator that the
other one counts, both pass, and none is left; that state is final (`LockoutIsFinal`).

Others were met while modelling. The properties above are stated so as to say what
holds in spite of them, and their history variables name the cases:

| Sentence | What happens |
|---|---|
| schema.ts:645, sealed runs reject all result mutations | a result whose handler read the run before the seal is committed after it (`FrozenOnceDrained` says until when) |
| schema.ts:919-925, the event log is the durable source of truth | two concurrent results leave a last event that is not the row's status (`StatusLogged`) |
| schema.ts:709, an immutable copy of the case as it existed | old title with new steps, when a save falls between two SELECTs (`NothingStale`) |
| run-client.ts:268, a null link means that the step was deleted | saving a case deletes and re-inserts its steps, unlinking every snapshot |
| schema.ts:362-364, the step of a comment is unset if the step is later removed | so it is by every save, which removes and re-inserts all steps (TestCaseService.ts:720): a comment on a step becomes a general one |
| FreshProvider.tsx:1421-1423, rolls back if the API rejects the write | the reducer ignores the rollback when the run has been sealed in between |
| FreshProvider.tsx:326-329, the server wins, entries of cases it has not seen are kept | a case that was reset looks like one it has not seen |
| FreshProvider.tsx:1418-1420, no temp-id reconciliation exists anywhere | requirements and defects are shown with made-up ids and reconciled |
| DefectService.ts:10-11, an internal link has the defect's DEF-<n> key | a link that waited for its defect stores the key made up by the browser, read from a state of before the answer (FreshProvider.tsx:2238) |
| FreshProvider.tsx:2326, an invitation takes the server's user id | RECONCILE_ADMIN_USER looks the row up by e-mail (1172-1175), and finds another one that shows the same, which an e-mail edited here alone (2343-2348) is enough for |
| case-client.ts:371, steps without an action stay local-only until given one | so they do until the next load of the cases, which shows the row |
| feature-flow.md:312, the edit form updates a plan's title | the form is of the plan shown: after a navigation it saves what was typed for another plan |

Beside these: `seed/insert.ts:201-210`, the only code that creates `ref_counters`, has an
`ENUM` without the kinds `defect` and `requirement`, so that every creation of one is
refused by the column (`RefCounter.Reject`, `Workspace.CountedTables`;
docs/database/schema-rationale.md:31-36 describes the table likewise). Were it widened,
the reset would stop at the first requirement or defect: seed/clear.ts:115 deletes the
projects, which these rows restrict, and they are deleted nowhere. The screen modules and
`CaseLibrary`, which are about what happens once the two kinds exist, let their creation
succeed as well as fail. A run of an
empty folder is a run of all cases (CasesScreen.tsx:565-570, FreshProvider.tsx:1812-1816).
A copy's plan queries keep an id they cannot map (`?? id`). A reset that crashes after
the users are gone cannot be retried by anybody. A project created during a reset
makes the deletion of the organisation fail. An admin form opened before the users
are loaded is saved with an id no row has any more, and nobody is told
(FreshProvider.tsx:2337). The number of users of a role is stale when the users load
after the roles (admin-role-client.ts:13-14). Rows created before the backend is known
stay in the browser. The server carries out a disabling that the screen then ignores, if
by its own rows that was the last administrator (`AnsweredInVain`,
admin-reducer.ts:240-243): the person is disabled and shown as active. A list of users or
roles that is empty is not shown at all (FreshProvider.tsx:1506, 1524): the made-up rows
stay. And a load of users
follows the person who acts from row to row, comparing the id it has already moved
(FreshProvider.tsx:1117-1123). Let the screen show user u as "Shaun", the server have u
renamed to "Demo User" and another user v to "Shaun": who acts as "Demo User" becomes u,
and then, u being the row shown as "Shaun", v. The browser acts as somebody else, which is
what the conditions of `ActorKnown` exclude.

### Fairness

Only `RefCounter` has a liveness property. `FairCounterSpec` has weak fairness of
`CounterStep` for each creation that has begun: a statement that is awaited returns or rejects,
and a wait for a row lock ends with `innodb_lock_wait_timeout`. Nothing is
assumed of `Begin` (users) or `Abort` (failures). Weak fairness suffices, a
waiting `Ensure` having `Timeout` as an alternative. Handlers of the other modules
never wait for one another, so that they end follows from their shape and is not
stated; and for screens no fairness is justified, since an answer may never come.

`CHECK_DEADLOCK FALSE` is in every configuration: with a finite set of requests
the system stops when all are settled.

## 4. What is proved

TLAPS proves, for all values of the constants:

| Module | Theorems |
|---|---|
| `RunExecutionProofs` | `TypeCorrect`, `ResultsStamped`, `StatusesLogged`, `AuditReplays`, `SealsAttributed`, `SealTakesHold` |
| `CaseLibraryProofs` | `TypeCorrect`, `AuditReplays`, `ReadsHideOnlyNew`, `LinkingImplements` (refinement of `AuditedSet`) |
| `ClientRecordingProofs` | `TypeCorrect`, `QuietAgrees` |
| `PlanSyncProofs` | `PlanSyncTyped`, `ScreensStored`, `EveryPlanAudited`, `CasesResolve` |
| `RunScreenProofs` | of `RunScreen`: `RunScreenTyped`, `UnlinkingLogged`, `ShownStaysCurrent`, `DefectsShownStayLinked`; of `RunSpawn`: `RunSpawnTyped`, `LinksAreSound`, `NothingIsStale`, `PlansAreHonoured` |
| `WorkspaceProofs` | of `RefCounter`: `CountersTyped`, `ReadersAreAlone`, `DuplicatesNever`, `NumbersConsecutive` (refinement of `RefAllocator`); of `Workspace`: `WorkspaceTyped`, `ProjectsStayApart`, `AloneCopiesComplete`, `AloneRestoresSeed`; of `UserAdmin`: `UsersTyped`, `GrantsTraced`, `LossNeedsRace`, `LockoutIsFinal` |
| `CaseScreenProofs` | `CaseScreenTyped`, `EditorStaysCurrent`, `ScreenAgreesWhenQuiet` |
| `OrgScreenProofs` | `OrgScreenTyped`, `OrgScreenAgrees`, `OrgScreenActorStays` |

Assumptions are the `ASSUME`s of the modules (`ConstantsAssumption`,
`CounterAssumption`, `SpawnAssumption`, `AdminAssumption`, `LibraryAssumption`,
`RowAssumption`, `ClientAssumption`, `ScreenAssumption`, `NullAssumption`,
`PlanAssumption`, `CaseScreenAssumption`, `NoneAssumption`, `FlowsAssumption`,
`SlugsAssumption`, `SeedAssumption`, `MadeAssumption`, `TypedAssumption`,
`IdsAssumption`): constants have the types their comments say, `None` and `Absent` are
not among the values they stand beside, the rows `OrgScreen` starts from obey the unique
keys of their tables, and an id stands for one row. TLC evaluates them in every run.

* **RunExecution.** Each invariant is proved from the type invariant and, where it
  is not inductive, from one on handlers in flight. `StatusLogged` is not: a commit
  logs a transition *from the status the handler saw*. `SeenLogged` says that this
  status is in the log, and is preserved because logs only grow. For
  `SealAttributed` the point is that `updateRun` sets status and sealer in one
  UPDATE, whatever it read, and that a patch whose status equals the one read
  writes neither. `FrozenOnceDrained` is an action property: the only actions that
  change results are commits of handlers in the window, and the only way into the
  window reads the run as active. `ResultStamped` (a row has an executor iff it is
  not a reset) is proved only.
* **RefCounter.** `Working` says that a transaction past its read holds the lock,
  its `ref` is the committed counter, and `next` the counter it will commit;
  `Counting` that a counter is one more than what was issued. Together they map
  `Commit` to `RefAllocator!Issue` and every other step to a stutter. That a reader is
  alone (`ReadersExclude`) is proved only.
* **RunSpawn.** Rows only gain states, so a fact about an earlier state stays one
  (`History`, `CasesReadLasts`, `PlanReadLasts`): `CasesRead` and `PlanRead` say, for
  each place a request may be at, of which states what it knows is true, and `Dated`
  that it knows of a moment which has been. `Owned` says that a step id belongs to
  one case for ever; with it a foreign key, which does not look at the case, cannot
  hold in another case than the one read.
* **UserAdmin.** `Found` (a target that was loaded is a row, since users are never
  deleted), `Alone` (if nobody has written since the actor was checked, a handler
  about to demote or deactivate an admin still has another active admin beside the
  target) and `Granting` (an assigning actor who passed the check is in `held`). That a
  lockout is final (`LockoutLasts`) is proved only.
* **CaseLibrary.** `IInv` adds to the type: `Ready`, what a request at each place has
  checked is still so, because rows are never deleted; `Unmade`, a row that carries a
  request's name is not there before it commits; `Owned`, no step is of two cases,
  although saves insert steps with the ids they have; `Fresh`, ids a save has yet to
  give are nobody's; `Shown`, comments are on steps of their case. `Owned` and `Fresh`
  are why the foreign key of a comment, which looks at no case, suffices.
  `ReadHidesOnlyNew` takes `Kept`: a request that is over stays so, and of the comments
  there were when a list read the steps, each stands on the case or on a step that was
  read (`Anchored`). A save that deletes the step takes the comment off it, and no write
  puts a comment that exists on another step (`UnanchoredStays`), so this lasts to the
  second read. With the
  audit log the point is that a commit writes the row and its log row together,
  whatever it has read.
* **ClientRecording.** `OneAhead`: while nothing is in doubt a result in flight is the
  only one, the browser waits for it, the screen shows the row with that result
  applied, and the entry to roll back to looks like the row. `SyncExact`: what a
  sync has read, and nothing has crossed, is what the row still is. With
  `QuietScreenAgrees` they are inductive; without `OneAhead` nothing says that a
  commit brings the row to where the screen is.
* **PlanSync.** `Rooted` says that what screens and calls refer to are rows of
  `test_plans`, which are never deleted; with the types it is inductive, and the other
  three rest on it. `Stored` extends `ScreensShowStored` to the rows and to what an
  answer or a half-read list will put on the screen. `Audited` differs from
  `PlansAudited` in one point: where no update has written a plan's queries, it was
  *duplicated* with them; without it an insertion of a plan named like a flow of another
  kind would not be excluded. `Saves` is what gives `PlansResolve`: a save that nothing
  has crossed is the only one of its plan, has resolved its queries among the cases there
  are, and is between its two calls only while its plan counts as drifted; a copy likewise
  until it commits. `Making` (a plan is created by the flow it is named for, and only
  once) is needed since an insertion would otherwise overwrite such a row.
* **RunScreen.** `UnlinksAudited` and `ShownIsCurrent` need no full type, only `Shape`:
  which fields records have. `MadeOnce` (a link is made once, before anybody unlinks it:
  an insertion after an unlinking would clear `unlinkedBy`) and `ByUnlinking` (who is
  named has unlinked, and has logged it or is about to) give `UnlinksAudited`; two flows
  that unlink the same link overwrite each other, and either is logged. `Current`
  strengthens `ShownIsCurrent` to a navigation under way whose target is the run shown,
  unless overtaken: without it an arrival, which runs no effect if the address does not
  change, would not preserve it. `ShownDefectsLinked` is inductive only with `PrevGood`,
  that the same holds of the execution every result in flight would roll back to: a
  refused result shows it again, whole, whatever was reconciled meanwhile. `Rooted`
  gives both the rows they speak of.

* **Workspace.** The types and `ProjectsApart` are inductive with three more facts.
  `Stage`: a copy keeps the row of its source and, beside it, only content, and every
  reference and named case it keeps is one of a row it has read. `OrgRows`: the rows of
  the tables of an organisation are of no project. `SlugsTyped`: a slug is a path of
  copies; that a copy finds a free one among finitely many candidates (`CopySlugTyped`)
  is a pigeonhole argument over the slugs there are. A delete only takes
  references away with the rows they lead from or to, whatever it cascades to, so the
  order of the clearing matters for `AloneRestores` and not here. A copy refers within
  itself because `CopyRefs` writes no reference to a row of the project that was not
  read (one that may not be empty refuses the copy, `Remappable`); any other write because its candidates are rows of its project or the organisation's.
  `SeedClosed`: the scripts of the seed write, for every row, the rows it refers to.
  `AloneCopiesAll` takes `CopyInv`, which adds what rows are whatever is written and
  deleted (`RowsOK`: each has the keys it must have, since a delete that a key would
  survive without its row is refused or takes the child with it, `CascadeClosed`), the
  same of what a copy has read (`Took`), that no row of a copy is there before its commit
  (`Unborn`), and `Mirror`: while nobody else writes, a copy has read just the rows of the
  source in the tables it has come to, with what refers from them. So a read finds all
  there is (`ReadsAll`: each table is read for one a row must refer to, read before it),
  the commit is not refused, and what it writes is the image of the source. The proof
  corrected the property, which said that plans name copies of cases and nothing else:
  with two resets, one can delete the cases of a plan written after it had read the
  plans, when the other has deleted the entries of that plan and not yet the plan; the
  name of such a case is copied as it is (`NameCopy`).
  `AloneRestores` takes `ResetInv` beside it. While nobody else writes, a clearing has
  kept every row of the tables it has read, and of those it has deleted nothing is left
  but what need not refer to anything deleted before (`Covered`). So a delete is of the
  whole of its table (`TargetAll`), and `ClearOrder`, the one place where the 26
  statements are gone through, says that the tables with a key that restricts it were
  deleted before, but for requirements and defects (`AloneClears`), of which there are
  none, since no counter gives them a number (`CountersOK`, `CountedTables`). Without an
  organisation no row is left but of the audit log and counters (`AllGoes`). A
  filling has put in just the statements before its next one, over nothing else
  (`Filled`): each entry of the seed has a place, what it refers to has an earlier one
  (`SeedOrder`), and the counters of projects that are gone were deleted with them,
  whoever else wrote (`CountersOK`, `Tidy`), so the upsert leaves those of the seed. The
  proof corrected this property too, which said that nothing else is left: a row of the
  audit log loses its organisation when a reset deletes that, and the statement that
  clears the log finds rows by their organisation. The log is cleared whole where no
  other reset has started (`Fresh`).

* **CaseScreen.** `EditorCurrent` holds of the screen whatever it is given, as long as
  that has the right types: each answer drops the draft when it touches the open case
  (`Touched`), and `Opened`, `Selected` and a sync drop it too. The types are what takes
  an invariant: a save replaces copies by one made of the copy it was typed into, a
  requirement gets the id of a row, so `AllPlaced` says what a flow at each place has,
  `Rooted` that what rows, lists and flows refer to is there, and `Unwritten` that
  nothing in the system has come of a flow whose call is not carried out. `Alone`: a sync
  with no other flow beside it has read the present rows. `ScreenAgrees` is only about
  states in which nothing is under way, so it takes `Tracked`, which is about all of
  them. Of each case: it is shown once and its row is there (`Existence`), version and
  folder are those of the row, of the answer on its way, or of an answer that will not
  replace what it was typed into (`Fields`), comments are those of the row but for one
  on its way (`Remarked`), and the requirements shown are linked or a flow that links
  them is at a place where that is still to come, under the real id or the made-up one
  (`Linked`). Of lists: `FoldersTold`, `ReqsTold`, `RunsTold`. `Unshown` says that nothing of a
  flow is shown before its answer is, which is why an answer is never shown twice, and
  `Known` what keeps saves and reconciliations from undoing each other. A step keeps
  `Tracked` or sets `misled`; `InSyncTracked` has it again after a sync that nothing was
  beside.

* **OrgScreen.** The types are inductive with what names and ids are about: `Unborn` (the
  id a command will give is nowhere until the command is written), `TempFree` (the made-up
  id of a browser is shown by nothing else) and `Known` (wherever a user has an id of the
  server, the server has the user). `ScreenAgrees` is about rows that nothing is under way
  about; `AllTracked` is about every row the screen is sure of. While its list is loading
  no command is about it, and what was read is what the server has; once it is loaded at
  most one command is about it, and screen and server differ by just what that command is
  about to tell (`Told`), with none they agree. A list is compared row by row (`Shows`,
  `Holds`, `SameView`), and a step keeps the view of each row it is not about, so the
  merging of lists, which keeps some rows in order and adds others, is argued once
  (`OnlyList`, `ViewOfKept`, `ViewOfJoined`, `MergedView`). The proof corrected the model:
  `unsure` has to name the row of a disabling that the screen ignores, which takes more
  calls than the run has (`AnsweredInVain`). `ActorStays` is an action property
  over the types: `ActorFollows` goes along the rows of a load, in order, and says that the
  id moved from row to row is still one the server has for the name of who acted; every
  other step keeps the row or is excused by the property. Here the proof corrected the
  property, which had left out the chain of renames of section 3.

Only model-checked: `EveryRequestEnds`, since fairness and ENABLED are out of the prover's
reach. Every other property of the runs that pass is stated by a theorem.

## 5. The plan

Done: `RunExecution`, `RefCounter`, `RunSpawn`, `UserAdmin`, `ClientRecording`,
`CaseLibrary` (which took the place of the planned `CaseEdit` and of the requirement
half of `Links`), `RunScreen` (the defect half), `PlanSync`, `CaseScreen`, `Workspace`
(`ProjectClone` and `WorkspaceReset` in one, since they meet) and `OrgScreen`, with the
proofs of all of them.

Left, in this order:

1. Two browsers in `ClientRecording` in place of `Elsewhere`, so that what others see
   of a result is stated too.
2. A module that lets roles change during a result, composing `UserAdmin` with
   `RunExecution`: `assertMinProjectRole` is read before the run is.

## 6. Not modelled, and why

* **Recent views, search.** `createRun` writes a recent view without awaiting it and logs
  a failure; nothing reads the table. The search client is a stub without effect.
* **Reads and dashboards.** Queries without state. The lists that screens depend on are
  steps of the screen modules.
* **Authentication.** One read per request, and library code.
* **Browser-only state.** Project settings, custom fields, profile, the migration of old
  local storage, filters: sequential code over one browser's storage, which no other
  component depends on.
* **Legacy screens, mockups, assets; the API run page.** Rendering; the page is another
  client in the terms of `ClientRecording` and `RunExecution`.
