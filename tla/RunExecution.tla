---------------------------- MODULE RunExecution ----------------------------
(***************************************************************************)
(* Recording results in test runs while their lifecycle changes.           *)
(*                                                                         *)
(* ExecutionService.updateCaseResult, ExecutionService.updateStepResult    *)
(* and TestRunService.updateRun are request handlers of one shape: read    *)
(* the rows they need with plain SELECTs, decide, then write in one        *)
(* transaction that touches rows by primary key and re-reads nothing.      *)
(* Handlers of different requests interleave at every await, so what a     *)
(* handler decided on may be stale when its transaction commits.  A        *)
(* transaction updates one row and inserts log rows; InnoDB's row lock     *)
(* orders the transactions on that row, so a commit is one step here.      *)
(***************************************************************************)
EXTENDS Naturals, Sequences

CONSTANTS
    Runs,          \* test_runs rows of the project
    Cases,         \* test_run_cases rows
    Steps,         \* run_case_step_snapshots rows
    RunOf,         \* test_run_cases.test_run_id
    CaseOf,        \* run_case_step_snapshots.test_run_case_id
    Users,         \* actors
    Level,         \* each actor's effective role level in the project
    Requests,      \* one handler invocation each
    Results,       \* case and step result values a client may send
    Titles,        \* run titles, standing for the title and description columns
    Comments,      \* values of the comment columns, None among them
    Patches,       \* bodies of PATCH /runs/:id a client may send
    None,          \* SQL NULL, an absent row
    Absent         \* a field left out of a request

RunStatuses == {"active", "sealed", "archived"}

Patch == [status: RunStatuses \cup {Absent}, title: Titles \cup {Absent},
          due: BOOLEAN]

ASSUME ConstantsAssumption ==
    /\ RunOf \in [Cases -> Runs]
    /\ CaseOf \in [Steps -> Cases]
    /\ Level \in [Users -> 0..4]
    /\ "not_run" \in Results
    /\ Patches \subseteq Patch
    /\ None \in Comments
    /\ None \notin Users \cup Results \cup RunStatuses
    /\ Absent \notin Comments \cup Titles \cup RunStatuses

VARIABLES
    runRow,        \* test_runs: status, sealed_by, title
    caseRow,       \* test_run_cases: status, executed_by, comment
    stepRow,       \* run_step_results by step snapshot, None before the first upsert
    events,        \* run_case_events, per run case, in commit order
    audit,         \* audit_log, in commit order
    req            \* what each handler invocation knows so far

vars == <<runRow, caseRow, stepRow, events, audit, req>>

-----------------------------------------------------------------------------
(* Rows and requests *)

RunRow == [status: RunStatuses, sealedBy: Users \cup {None}, title: Titles]

\* executed_at is null exactly when executed_by is: both are set from the
\* same condition, so the user stands for the pair.
ResultRow == [status: Results, by: Users \cup {None}, comment: Comments]

Event == [from: Results, to: Results]

AuditRow ==
    [entity: Cases, action: {"result.updated"}, actor: Users,
     old: ResultRow, new: ResultRow]
    \cup
    [entity: Steps, action: {"step_result.updated"}, actor: Users,
     old: {None} \cup ResultRow, new: ResultRow]
    \cup
    [entity: Runs, actor: Users,
     action: {"run.updated", "run.sealed", "run.reopened", "run.archived"},
     old: [status: RunStatuses], new: [status: RunStatuses]]

Idle == [op |-> "none", pc |-> "idle"]
Settled == [op |-> "none", pc |-> "settled"]

\* seen is the row the handler decides on, once it has read it.
ResultHandler(pc, seen) ==
    [op: {"result"}, pc: pc, actor: Users, run: Runs, case: Cases,
     status: Results, comment: Comments \cup {Absent}, seen: seen]
StepHandler(pc, seen) ==
    [op: {"step"}, pc: pc, actor: Users, run: Runs, case: Cases,
     step: Steps, status: Results, comment: Comments \cup {Absent}, seen: seen]
RunHandler(pc, seen) ==
    [op: {"run"}, pc: pc, actor: Users, run: Runs, patch: Patches, seen: seen]

ResultRequest == ResultHandler({"load run", "load case"}, {None})
                    \cup ResultHandler({"commit"}, ResultRow)
StepRequest == StepHandler({"load run", "load case"}, {None})
                    \cup StepHandler({"commit"}, {None} \cup ResultRow)
RunRequest == RunHandler({"load run"}, {None})
                    \cup RunHandler({"commit"}, RunRow)

AnyRequest == {Idle, Settled} \cup ResultRequest \cup StepRequest \cup RunRequest

TypeOK ==
    /\ runRow \in [Runs -> RunRow]
    /\ caseRow \in [Cases -> ResultRow]
    /\ stepRow \in [Steps -> {None} \cup ResultRow]
    /\ events \in [Cases -> Seq(Event)]
    /\ audit \in Seq(AuditRow)
    /\ req \in [Requests -> AnyRequest]

\* Runs as createRun leaves them: active, every case not_run with its
\* 'created' event.  (No service writes the fourth status, 'stalled'.)
Init ==
    /\ runRow \in [Runs -> [status: {"active"}, sealedBy: {None}, title: Titles]]
    /\ caseRow = [c \in Cases |-> [status |-> "not_run", by |-> None,
                                 comment |-> None]]
    /\ stepRow = [s \in Steps |-> None]
    /\ events = [c \in Cases |-> <<[from |-> "not_run", to |-> "not_run"]>>]
    /\ audit = <<>>
    /\ req = [r \in Requests |-> Idle]

-----------------------------------------------------------------------------
(* Helpers *)

Contributor == 2
Admin == 3

NewResult(u, n, c, s, m) ==
    [op |-> "result", pc |-> "load run", actor |-> u, run |-> n, case |-> c,
     status |-> s, comment |-> m, seen |-> None]
NewStep(u, n, c, t, s, m) ==
    [op |-> "step", pc |-> "load run", actor |-> u, run |-> n, case |-> c,
     step |-> t, status |-> s, comment |-> m, seen |-> None]
NewRun(u, n, p) ==
    [op |-> "run", pc |-> "load run", actor |-> u, run |-> n, patch |-> p,
     seen |-> None]

\* assertMinProjectRole: the handler throws unless the level suffices.
Authorized(u, min) == Level[u] >= min

\* A comment left out leaves the comment of the row, if there is one, alone.
Commented(h, row) ==
    IF h.comment # Absent THEN h.comment
    ELSE IF row = None THEN None ELSE row.comment

\* What handler h makes of a result row: executed_by is nulled by a reset to
\* not_run and is the actor otherwise.
Outcome(h, row) ==
    [status |-> h.status,
     by |-> IF h.status = "not_run" THEN None ELSE h.actor,
     comment |-> Commented(h, row)]

\* The columns updateRun sets: a field equal to the row it read is dropped.
ChangedFields(patch, seen) ==
    [status |-> IF patch.status = seen.status THEN Absent ELSE patch.status,
     title |-> IF patch.title = seen.title THEN Absent ELSE patch.title,
     due |-> patch.due]

NothingToSet == [status |-> Absent, title |-> Absent, due |-> FALSE]

\* Mutant: an absent title is written as NULL.
AppliedAbsent(row, set, u) ==
    [status |-> IF set.status = Absent THEN row.status ELSE set.status,
     sealedBy |-> IF set.status = "sealed" THEN u
                  ELSE IF set.status = "active" THEN None
                  ELSE row.sealedBy,
     title |-> set.title]

\* Mutant: reopening leaves the sealer in place.
AppliedKeepsSealer(row, set, u) ==
    [status |-> IF set.status = Absent THEN row.status ELSE set.status,
     sealedBy |-> IF set.status = "sealed" THEN u ELSE row.sealedBy,
     title |-> IF set.title = Absent THEN row.title ELSE set.title]

\* The UPDATE: only the columns in set change, whatever the row holds by now.
Applied(row, set, u) ==
    [status |-> IF set.status = Absent THEN row.status ELSE set.status,
     sealedBy |-> IF set.status = "sealed" THEN u
                  ELSE IF set.status = "active" THEN None
                  ELSE row.sealedBy,
     title |-> IF set.title = Absent THEN row.title ELSE set.title]

\* The audit action is chosen from the row that was read.
RunAction(set, seen) ==
    CASE set.status = Absent -> "run.updated"
      [] set.status = "sealed" -> "run.sealed"
      [] set.status = "active" ->
            IF seen.status = "sealed" THEN "run.reopened" ELSE "run.updated"
      [] set.status = "archived" -> "run.archived"

\* Mutant: an update that changes nothing it has read is not audited.
AuditedChange(log, e, action, u, old, new) ==
    IF old = new THEN log
    ELSE Append(log, [entity |-> e, action |-> action, actor |-> u,
                      old |-> old, new |-> new])

\* recordAudit, on the caller's transaction.
Audited(log, e, action, u, old, new) ==
    Append(log, [entity |-> e, action |-> action, actor |-> u,
                 old |-> old, new |-> new])

\* Mutant: no update is a transition.
Untransitioned(log, old, new) == log

\* A 'result' event is inserted only when the status differs from the one read.
Transitioned(log, old, new) ==
    IF new = old THEN log ELSE Append(log, [from |-> old, to |-> new])

-----------------------------------------------------------------------------
(* ExecutionService.updateCaseResult *)

SubmitResult(r) ==
    /\ req[r] = Idle
    /\ \E u \in Users, n \in Runs, c \in Cases, s \in Results,
          m \in Comments \cup {Absent} :
          req' = [req EXCEPT ![r] =
                    IF Authorized(u, Contributor)
                    THEN NewResult(u, n, c, s, m) ELSE Settled]
    /\ UNCHANGED <<runRow, caseRow, stepRow, events, audit>>

\* Mutant: only archived runs are refused.
LoadUnarchivedRun(r) ==
    /\ req[r].op \in {"result", "step"}
    /\ req[r].pc = "load run"
    /\ req' = [req EXCEPT ![r] =
                 IF runRow[req[r].run].status # "archived"
                 THEN [req[r] EXCEPT !.pc = "load case"] ELSE Settled]
    /\ UNCHANGED <<runRow, caseRow, stepRow, events, audit>>

\* Both handlers load the run and go on only when it is active.
LoadActiveRun(r) ==
    /\ req[r].op \in {"result", "step"}
    /\ req[r].pc = "load run"
    /\ req' = [req EXCEPT ![r] =
                 IF runRow[req[r].run].status = "active"
                 THEN [req[r] EXCEPT !.pc = "load case"] ELSE Settled]
    /\ UNCHANGED <<runRow, caseRow, stepRow, events, audit>>

LoadCase(r) ==
    /\ req[r].op = "result"
    /\ req[r].pc = "load case"
    /\ req' = [req EXCEPT ![r] =
                 IF RunOf[req[r].case] = req[r].run
                 THEN [req[r] EXCEPT !.pc = "commit",
                                     !.seen = caseRow[req[r].case]]
                 ELSE Settled]
    /\ UNCHANGED <<runRow, caseRow, stepRow, events, audit>>

\* The run case, its event and its audit row, in one transaction.
CommitResult(r) ==
    /\ req[r].op = "result"
    /\ req[r].pc = "commit"
    /\ LET h == req[r] IN
       /\ caseRow' = [caseRow EXCEPT ![h.case] = Outcome(h, @)]
       /\ events' = [events EXCEPT ![h.case] =
                       Transitioned(@, h.seen.status, h.status)]
       /\ audit' = Audited(audit, h.case, "result.updated", h.actor,
                           h.seen, Outcome(h, h.seen))
    /\ req' = [req EXCEPT ![r] = Settled]
    /\ UNCHANGED <<runRow, stepRow>>

-----------------------------------------------------------------------------
(* ExecutionService.updateStepResult *)

SubmitStep(r) ==
    /\ req[r] = Idle
    /\ \E u \in Users, n \in Runs, c \in Cases, t \in Steps, s \in Results,
          m \in Comments \cup {Absent} :
          req' = [req EXCEPT ![r] =
                    IF Authorized(u, Contributor)
                    THEN NewStep(u, n, c, t, s, m) ELSE Settled]
    /\ UNCHANGED <<runRow, caseRow, stepRow, events, audit>>

\* The run case, its step snapshot (both immutable) and the present result.
LoadStep(r) ==
    /\ req[r].op = "step"
    /\ req[r].pc = "load case"
    /\ req' = [req EXCEPT ![r] =
                 IF /\ RunOf[req[r].case] = req[r].run
                    /\ CaseOf[req[r].step] = req[r].case
                 THEN [req[r] EXCEPT !.pc = "commit",
                                     !.seen = stepRow[req[r].step]]
                 ELSE Settled]
    /\ UNCHANGED <<runRow, caseRow, stepRow, events, audit>>

\* INSERT ... ON DUPLICATE KEY UPDATE: inserts or overwrites the one row.
CommitStep(r) ==
    /\ req[r].op = "step"
    /\ req[r].pc = "commit"
    /\ LET h == req[r] IN
       /\ stepRow' = [stepRow EXCEPT ![h.step] = Outcome(h, @)]
       /\ audit' = Audited(audit, h.step, "step_result.updated", h.actor,
                           h.seen, Outcome(h, h.seen))
    /\ req' = [req EXCEPT ![r] = Settled]
    /\ UNCHANGED <<runRow, caseRow, events>>

-----------------------------------------------------------------------------
(* TestRunService.updateRun *)

SubmitRun(r) ==
    /\ req[r] = Idle
    /\ \E u \in Users, n \in Runs, p \in Patches :
          req' = [req EXCEPT ![r] =
                    IF Authorized(u, Admin)
                    THEN NewRun(u, n, p) ELSE Settled]
    /\ UNCHANGED <<runRow, caseRow, stepRow, events, audit>>

\* A patch that changes nothing in the row read here ends the request.
LoadRun(r) ==
    /\ req[r].op = "run"
    /\ req[r].pc = "load run"
    /\ LET seen == runRow[req[r].run] IN
       req' = [req EXCEPT ![r] =
                 IF ChangedFields(req[r].patch, seen) = NothingToSet
                 THEN Settled
                 ELSE [req[r] EXCEPT !.pc = "commit", !.seen = seen]]
    /\ UNCHANGED <<runRow, caseRow, stepRow, events, audit>>

CommitRun(r) ==
    /\ req[r].op = "run"
    /\ req[r].pc = "commit"
    /\ LET seen == req[r].seen
           set == ChangedFields(req[r].patch, seen)
       IN /\ runRow' = [runRow EXCEPT ![req[r].run] =
                          Applied(@, set, req[r].actor)]
          /\ audit' = Audited(audit, req[r].run, RunAction(set, seen),
                              req[r].actor, [status |-> seen.status],
                              [status |-> IF set.status = Absent
                                          THEN seen.status ELSE set.status])
    /\ req' = [req EXCEPT ![r] = Settled]
    /\ UNCHANGED <<caseRow, stepRow, events>>

-----------------------------------------------------------------------------
\* A failed read, a rolled back transaction (TRANSACTION_FAILED) or a crash
\* of the server: the request ends and leaves nothing behind.
Fail(r) ==
    /\ req[r] \notin {Idle, Settled}
    /\ req' = [req EXCEPT ![r] = Settled]
    /\ UNCHANGED <<runRow, caseRow, stepRow, events, audit>>

Next ==
    \E r \in Requests :
        \/ SubmitResult(r) \/ LoadCase(r) \/ CommitResult(r)
        \/ SubmitStep(r) \/ LoadStep(r) \/ CommitStep(r)
        \/ SubmitRun(r) \/ LoadRun(r) \/ CommitRun(r)
        \/ LoadActiveRun(r)
        \/ Fail(r)

Spec == Init /\ [][Next]_vars

-----------------------------------------------------------------------------
(* Properties *)

\* A result carries an executor exactly when it is not a reset: a row never
\* says 'pass' by nobody, nor 'not_run' by somebody, whatever order the
\* handlers commit in (ExecutionService.ts:186-187, 439-440).
ResultStamped ==
    /\ \A c \in Cases : caseRow[c].status = "not_run" <=> caseRow[c].by = None
    /\ \A t \in Steps : stepRow[t] # None =>
          (stepRow[t].status = "not_run" <=> stepRow[t].by = None)

\* Row i of a log is the latest one on entity e with action a.
IsLatest(log, i, e, a) ==
    /\ i \in DOMAIN log
    /\ log[i].entity = e /\ log[i].action = a
    /\ \A j \in DOMAIN log :
          log[j].entity = e /\ log[j].action = a => j <= i

\* A sealed run names as sealer the actor of its latest 'run.sealed' audit
\* row, and an active run names none, although updateRun decides from a row
\* that may be stale (TestRunService.ts:1110-1122).
SealAttributed ==
    \A n \in Runs :
        /\ runRow[n].status = "sealed" =>
              \E i \in DOMAIN audit :
                 /\ IsLatest(audit, i, n, "run.sealed")
                 /\ runRow[n].sealedBy = audit[i].actor
        /\ runRow[n].status = "active" => runRow[n].sealedBy = None

\* The statuses a transition log has given the case by its k-th event.
Logged(log, k) == {log[i].to : i \in 1..k}

\* The transition log is grounded: the status of a run case is one the log
\* records, and each event starts from a status recorded before it.  This
\* is what survives the stale comparison at ExecutionService.ts:229.
StatusLogged ==
    \A c \in Cases :
        /\ caseRow[c].status \in Logged(events[c], Len(events[c]))
        /\ \A k \in 2..Len(events[c]) :
              events[c][k].from \in Logged(events[c], k - 1)

\* Why StatusLogged is preserved: a handler that has read its run case
\* compares with, and logs a transition from, a status already logged.
SeenLogged ==
    \A r \in Requests :
        req[r].op = "result" /\ req[r].pc = "commit" =>
            LET log == events[req[r].case] IN
            req[r].seen.status \in Logged(log, Len(log))

SameResult(a, b) == a.status = b.status /\ a.by = b.by

\* The latest audit row on a run case or step gives its present status and
\* executor: in these columns the audit log, unlike the transition log,
\* replays to the state it describes.
AuditReplaysResults ==
    \A i \in DOMAIN audit :
        /\ \A c \in Cases :
              IsLatest(audit, i, c, "result.updated") =>
                 SameResult(audit[i].new, caseRow[c])
        /\ \A t \in Steps :
              IsLatest(audit, i, t, "step_result.updated") =>
                 SameResult(audit[i].new, stepRow[t])

\* Some handler has read run n as active and not yet written its result.
InWindow(h, n) ==
    h.op \in {"result", "step"} /\ h.pc \in {"load case", "commit"} /\ h.run = n
WriterInWindow(n) == \E r \in Requests : InWindow(req[r], n)

ResultsOf(n) ==
    <<[c \in {d \in Cases : RunOf[d] = n} |-> <<caseRow[c], events[c]>>],
      [t \in {s \in Steps : RunOf[CaseOf[s]] = n} |-> stepRow[t]]>>

\* Leaving 'active' takes effect once the handlers that had already read the
\* run as active are gone: from then until the run is reopened no result of
\* it changes and no handler gets ready to change one
\* (ExecutionService.ts:150-155, 366-371).
FrozenOnceDrained ==
    [][\A n \in Runs :
          runRow[n].status # "active" /\ ~WriterInWindow(n) =>
             /\ ResultsOf(n)' = ResultsOf(n)
             /\ runRow'[n].status = "active" \/ ~WriterInWindow(n)']_vars

=============================================================================
