------------------------- MODULE RunExecutionProofs -------------------------
(***************************************************************************)
(* Theorems about RunExecution for every set of runs, cases, steps, users  *)
(* and requests.                                                           *)
(***************************************************************************)
EXTENDS RunExecution, TLAPS

USE ConstantsAssumption

\* What a handler's result row says whatever row it replaces.
Stamped(row, h) ==
    row.status = h.status /\ row.by = IF h.status = "not_run" THEN None ELSE h.actor

\* A row written by either result handler is well formed.
LEMMA OutcomeType ==
    ASSUME NEW h, h.status \in Results, h.actor \in Users,
           h.comment \in Comments \cup {Absent}, NEW row \in {None} \cup ResultRow
    PROVE  Outcome(h, row) \in ResultRow /\ Stamped(Outcome(h, row), h)
  <1>1. Commented(h, row) \in Comments
    BY DEF Commented, ResultRow
  <1> QED
    BY <1>1 DEF Outcome, Stamped, ResultRow

\* updateRun's column-wise UPDATE yields a well-formed run row.
LEMMA AppliedType ==
    ASSUME NEW p \in Patches, NEW seen \in RunRow, NEW row \in RunRow,
           NEW u \in Users
    PROVE  Applied(row, ChangedFields(p, seen), u) \in RunRow
  BY DEF Applied, ChangedFields, RunRow, Patch, RunStatuses

\* The column-wise UPDATE, column by column.
LEMMA AuditStatusType ==
    ASSUME NEW p \in Patches, NEW seen \in RunRow
    PROVE  LET set == ChangedFields(p, seen) IN
           /\ (IF set.status = Absent THEN seen.status ELSE set.status)
                 \in RunStatuses
           /\ RunAction(set, seen) \in
                 {"run.updated", "run.sealed", "run.reopened", "run.archived"}
  BY DEF ChangedFields, RunRow, Patch, RunStatuses, RunAction

\* The operation field tells what kind of request a handler serves.
LEMMA RequestKind ==
    ASSUME req \in [Requests -> AnyRequest], NEW r \in Requests
    PROVE  /\ req[r].op = "result" => req[r] \in ResultRequest
           /\ req[r].op = "step" => req[r] \in StepRequest
           /\ req[r].op = "run" => req[r] \in RunRequest
  <1>1. req[r] \in AnyRequest
    OBVIOUS
  <1>2. Idle.op = "none" /\ Settled.op = "none"
    BY DEF Idle, Settled
  <1>3. /\ \A x \in ResultRequest : x.op = "result"
        /\ \A x \in StepRequest : x.op = "step"
        /\ \A x \in RunRequest : x.op = "run"
    BY DEF ResultRequest, StepRequest, RunRequest, ResultHandler, StepHandler,
           RunHandler
  <1> QED
    BY <1>1, <1>2, <1>3 DEF AnyRequest

\* Runs start with rows the schema admits.
LEMMA TypeInit == Init => TypeOK
  <1> SUFFICES ASSUME Init PROVE TypeOK
    OBVIOUS
  <1>1. \A c \in Cases : events[c] \in Seq(Event)
    BY DEF Init, Event
  <1> QED
    <2>1. events \in [Cases -> Seq(Event)]
      BY <1>1 DEF Init
    <2>2. audit \in Seq(AuditRow)
      BY DEF Init
    <2>3. runRow \in [Runs -> RunRow]
      BY DEF Init, RunRow, RunStatuses
    <2>4. caseRow \in [Cases -> ResultRow]
      BY DEF Init, ResultRow
    <2>5. req \in [Requests -> AnyRequest]
      BY DEF Init, AnyRequest
    <2> QED
      BY <2>1, <2>2, <2>3, <2>4, <2>5 DEF Init, TypeOK

\* updateCaseResult commits with the run case it has read, and appends one
\* audit row whose new value is the result it writes.
LEMMA ResultCommit ==
    ASSUME TypeOK, NEW r \in Requests, CommitResult(r)
    PROVE  /\ req[r] \in ResultHandler({"commit"}, ResultRow)
           /\ \E new \in ResultRow :
                 /\ Stamped(new, req[r])
                 /\ caseRow' = [caseRow EXCEPT ![req[r].case] = new]
           /\ \E row \in AuditRow :
                 /\ audit' = Append(audit, row)
                 /\ row.entity = req[r].case /\ row.action = "result.updated"
                 /\ Stamped(row.new, req[r])
  <1> DEFINE h == req[r]
             new == Outcome(h, h.seen)
             row == [entity |-> h.case, action |-> "result.updated",
                     actor |-> h.actor, old |-> h.seen, new |-> new]
  <1>1. h \in ResultHandler({"commit"}, ResultRow)
    BY RequestKind DEF TypeOK, CommitResult, ResultRequest, ResultHandler
  <1>2. /\ h.case \in Cases /\ h.status \in Results /\ h.actor \in Users
        /\ h.comment \in Comments \cup {Absent}
        /\ h.seen \in {None} \cup ResultRow
        /\ caseRow[h.case] \in {None} \cup ResultRow
    BY <1>1 DEF ResultHandler, TypeOK
  <1>3. new \in ResultRow /\ Stamped(new, h)
    BY <1>2, OutcomeType
  <1>4. row \in AuditRow
    BY <1>1, <1>3 DEF ResultHandler, AuditRow
  <1>5. audit' = Append(audit, row)
    BY DEF CommitResult, Audited
  <1>6. /\ Outcome(h, caseRow[h.case]) \in ResultRow
        /\ Stamped(Outcome(h, caseRow[h.case]), h)
    BY <1>2, OutcomeType
  <1>7. caseRow' = [caseRow EXCEPT ![h.case] = Outcome(h, caseRow[h.case])]
    BY <1>2 DEF CommitResult, TypeOK
  <1>8. row.entity = h.case /\ row.action = "result.updated" /\ row.new = new
    OBVIOUS
  <1> HIDE DEF h, new, row
  <1> QED
    BY <1>1, <1>3, <1>4, <1>5, <1>6, <1>7, <1>8 DEF h

\* updateStepResult likewise.
LEMMA StepCommit ==
    ASSUME TypeOK, NEW r \in Requests, CommitStep(r)
    PROVE  /\ req[r] \in StepHandler({"commit"}, {None} \cup ResultRow)
           /\ \E new \in ResultRow :
                 /\ Stamped(new, req[r])
                 /\ stepRow' = [stepRow EXCEPT ![req[r].step] = new]
           /\ \E row \in AuditRow :
                 /\ audit' = Append(audit, row)
                 /\ row.entity = req[r].step /\ row.action = "step_result.updated"
                 /\ Stamped(row.new, req[r])
  <1> DEFINE h == req[r]
             new == Outcome(h, h.seen)
             row == [entity |-> h.step, action |-> "step_result.updated",
                     actor |-> h.actor, old |-> h.seen, new |-> new]
  <1>1. h \in StepHandler({"commit"}, {None} \cup ResultRow)
    BY RequestKind DEF TypeOK, CommitStep, StepRequest, StepHandler
  <1>2. /\ h.step \in Steps /\ h.status \in Results /\ h.actor \in Users
        /\ h.comment \in Comments \cup {Absent}
        /\ h.seen \in {None} \cup ResultRow
        /\ stepRow[h.step] \in {None} \cup ResultRow
    BY <1>1 DEF StepHandler, TypeOK
  <1>3. new \in ResultRow /\ Stamped(new, h)
    BY <1>2, OutcomeType
  <1>4. row \in AuditRow
    BY <1>1, <1>3 DEF StepHandler, AuditRow
  <1>5. audit' = Append(audit, row)
    BY DEF CommitStep, Audited
  <1>6. /\ Outcome(h, stepRow[h.step]) \in ResultRow
        /\ Stamped(Outcome(h, stepRow[h.step]), h)
    BY <1>2, OutcomeType
  <1>7. stepRow' = [stepRow EXCEPT ![h.step] = Outcome(h, stepRow[h.step])]
    BY <1>2 DEF CommitStep, TypeOK
  <1>8. row.entity = h.step /\ row.action = "step_result.updated" /\ row.new = new
    OBVIOUS
  <1> HIDE DEF h, new, row
  <1> QED
    BY <1>1, <1>3, <1>4, <1>5, <1>6, <1>7, <1>8 DEF h

\* updateRun commits with the run it has read, and appends one audit row
\* with the action chosen from it.
LEMMA RunCommit ==
    ASSUME TypeOK, NEW r \in Requests, CommitRun(r)
    PROVE  /\ req[r] \in RunHandler({"commit"}, RunRow)
           /\ \E row \in AuditRow :
                 /\ audit' = Append(audit, row)
                 /\ row.entity = req[r].run /\ row.actor = req[r].actor
                 /\ row.action = RunAction(ChangedFields(req[r].patch, req[r].seen),
                                           req[r].seen)
                 /\ row.action \in {"run.updated", "run.sealed",
                                    "run.reopened", "run.archived"}
  <1> DEFINE n == req[r].run
             seen == req[r].seen
             set == ChangedFields(req[r].patch, seen)
             row == [entity |-> n, action |-> RunAction(set, seen),
                     actor |-> req[r].actor, old |-> [status |-> seen.status],
                     new |-> [status |-> IF set.status = Absent THEN seen.status
                                         ELSE set.status]]
  <1>1. req[r] \in RunHandler({"commit"}, RunRow)
    BY RequestKind DEF TypeOK, CommitRun, RunRequest, RunHandler
  <1>2. n \in Runs /\ seen \in RunRow /\ req[r].patch \in Patches
                   /\ req[r].actor \in Users
    BY <1>1 DEF RunHandler
  <1>3. (IF set.status = Absent THEN seen.status ELSE set.status) \in RunStatuses
    BY <1>2, AuditStatusType
  <1>4. RunAction(set, seen) \in
           {"run.updated", "run.sealed", "run.reopened", "run.archived"}
    BY <1>2, AuditStatusType
  <1>5. seen.status \in RunStatuses
    BY <1>2 DEF RunRow
  <1>6. audit' = Append(audit, row)
    BY DEF CommitRun, Audited
  <1>7. row.entity = n /\ row.actor = req[r].actor /\ row.action = RunAction(set, seen)
    OBVIOUS
  <1>8. row \in AuditRow
    <2> HIDE DEF set, seen, n
    <2> QED
      BY <1>2, <1>3, <1>4, <1>5 DEF AuditRow
  <1> HIDE DEF row
  <1> QED
    BY <1>1, <1>4, <1>6, <1>7, <1>8

\* Every step writes rows the schema admits, whatever the handler saw.
LEMMA TypeStep == TypeOK /\ [Next]_vars => TypeOK'
  <1> SUFFICES ASSUME TypeOK, [Next]_vars PROVE TypeOK'
    OBVIOUS
  <1>0. req \in [Requests -> AnyRequest]
    BY DEF TypeOK, AnyRequest
  <1>1. ASSUME NEW r \in Requests, SubmitResult(r) PROVE TypeOK'
    <2> PICK u \in Users, n \in Runs, c \in Cases, s \in Results,
            m \in Comments \cup {Absent} :
           req' = [req EXCEPT ![r] = IF Authorized(u, Contributor)
                                     THEN NewResult(u, n, c, s, m)
                                     ELSE Settled]
      BY <1>1 DEF SubmitResult
    <2>2. NewResult(u, n, c, s, m) \in ResultRequest
      BY DEF ResultRequest, ResultHandler, NewResult
    <2>1. req' \in [Requests -> AnyRequest]
      BY <1>0, <2>2 DEF AnyRequest
    <2> QED
      BY <1>1, <2>1 DEF SubmitResult, TypeOK, AnyRequest
  <1>2. ASSUME NEW r \in Requests, LoadActiveRun(r) PROVE TypeOK'
    <2>1. req[r] \in ResultRequest \cup StepRequest
      BY <1>0, <1>2, RequestKind DEF LoadActiveRun
    <2>2. [req[r] EXCEPT !.pc = "load case"] \in AnyRequest
      BY <1>2, <2>1 DEF LoadActiveRun, AnyRequest, ResultRequest, StepRequest, ResultHandler,
             StepHandler
    <2>3. req' \in [Requests -> AnyRequest]
      BY <1>0, <1>2, <2>2 DEF LoadActiveRun, AnyRequest
    <2> QED
      BY <1>2, <2>3 DEF LoadActiveRun, TypeOK, AnyRequest
  <1>3. ASSUME NEW r \in Requests, LoadCase(r) PROVE TypeOK'
    <2>1. req[r] \in ResultRequest
      BY <1>0, <1>3, RequestKind DEF LoadCase
    <2>2. caseRow[req[r].case] \in ResultRow
      BY <2>1 DEF TypeOK, ResultRequest, ResultHandler
    <2>3. [req[r] EXCEPT !.pc = "commit", !.seen = caseRow[req[r].case]]
             \in AnyRequest
      BY <2>1, <2>2 DEF AnyRequest, ResultRequest, ResultHandler
    <2>4. req' \in [Requests -> AnyRequest]
      BY <1>0, <1>3, <2>3 DEF LoadCase, AnyRequest
    <2> QED
      BY <1>3, <2>4 DEF LoadCase, TypeOK, AnyRequest
  <1>4. ASSUME NEW r \in Requests, CommitResult(r) PROVE TypeOK'
    <2> DEFINE c == req[r].case
               event == [from |-> req[r].seen.status, to |-> req[r].status]
    <2>1. /\ req[r] \in ResultHandler({"commit"}, ResultRow)
          /\ \E new \in ResultRow : caseRow' = [caseRow EXCEPT ![c] = new]
      BY <1>4, ResultCommit
    <2>2. c \in Cases /\ event \in Event
      BY <2>1 DEF ResultHandler, Event, ResultRow
    <2>3. /\ caseRow' \in [Cases -> ResultRow]
          /\ events' = [events EXCEPT ![c] = Transitioned(@, req[r].seen.status,
                                                          req[r].status)]
          /\ UNCHANGED <<runRow, stepRow>>
      BY <1>4, <2>1 DEF CommitResult, TypeOK
    <2>4. Transitioned(events[c], req[r].seen.status, req[r].status)
             \in {events[c], Append(events[c], event)}
      BY DEF Transitioned
    <2>5. req' \in [Requests -> AnyRequest]
      BY <1>0, <1>4 DEF CommitResult, AnyRequest
    <2>6. audit' \in Seq(AuditRow)
      <3>1. \E row \in AuditRow : audit' = Append(audit, row)
        BY <1>4, ResultCommit
      <3> QED
        BY <3>1 DEF TypeOK
    <2> HIDE DEF event, c
    <2>7. Append(events[c], event) \in Seq(Event)
      BY <2>2 DEF TypeOK
    <2>8. events' \in [Cases -> Seq(Event)]
      <3>1. events[c] \in Seq(Event)
        BY <2>2 DEF TypeOK
      <3>2. Transitioned(events[c], req[r].seen.status, req[r].status) \in Seq(Event)
        BY <2>4, <2>7, <3>1
      <3> QED
        BY <2>2, <2>3, <3>2 DEF TypeOK
    <2> QED
      BY <2>2, <2>3, <2>5, <2>6, <2>8 DEF TypeOK
  <1>5. ASSUME NEW r \in Requests, SubmitStep(r) PROVE TypeOK'
    <2> PICK u \in Users, n \in Runs, c \in Cases, t \in Steps, s \in Results,
            m \in Comments \cup {Absent} :
           req' = [req EXCEPT ![r] = IF Authorized(u, Contributor)
                                     THEN NewStep(u, n, c, t, s, m)
                                     ELSE Settled]
      BY <1>5 DEF SubmitStep
    <2>2. NewStep(u, n, c, t, s, m) \in StepRequest
      BY DEF StepRequest, StepHandler, NewStep
    <2>1. req' \in [Requests -> AnyRequest]
      BY <1>0, <2>2 DEF AnyRequest
    <2> QED
      BY <1>5, <2>1 DEF SubmitStep, TypeOK, AnyRequest
  <1>6. ASSUME NEW r \in Requests, LoadStep(r) PROVE TypeOK'
    <2>1. req[r] \in StepRequest
      BY <1>0, <1>6, RequestKind DEF LoadStep
    <2>2. stepRow[req[r].step] \in {None} \cup ResultRow
      BY <2>1 DEF TypeOK, StepRequest, StepHandler
    <2>3. [req[r] EXCEPT !.pc = "commit", !.seen = stepRow[req[r].step]]
             \in AnyRequest
      BY <2>1, <2>2 DEF AnyRequest, StepRequest, StepHandler
    <2>4. req' \in [Requests -> AnyRequest]
      BY <1>0, <1>6, <2>3 DEF LoadStep, AnyRequest
    <2> QED
      BY <1>6, <2>4 DEF LoadStep, TypeOK, AnyRequest
  <1>7. ASSUME NEW r \in Requests, CommitStep(r) PROVE TypeOK'
    <2>1. PICK new \in ResultRow :
             stepRow' = [stepRow EXCEPT ![req[r].step] = new]
      BY <1>7, StepCommit
    <2>2. stepRow' \in [Steps -> {None} \cup ResultRow]
      BY <2>1 DEF TypeOK
    <2>3. UNCHANGED <<runRow, caseRow, events>>
      BY <1>7 DEF CommitStep
    <2>4. req' \in [Requests -> AnyRequest]
      BY <1>0, <1>7 DEF CommitStep, AnyRequest
    <2>5. audit' \in Seq(AuditRow)
      <3>1. \E row \in AuditRow : audit' = Append(audit, row)
        BY <1>7, StepCommit
      <3> QED
        BY <3>1 DEF TypeOK
    <2> QED
      BY <2>2, <2>3, <2>4, <2>5 DEF TypeOK
  <1>8. ASSUME NEW r \in Requests, SubmitRun(r) PROVE TypeOK'
    <2> PICK u \in Users, n \in Runs, p \in Patches :
           req' = [req EXCEPT ![r] = IF Authorized(u, Admin)
                                     THEN NewRun(u, n, p)
                                     ELSE Settled]
      BY <1>8 DEF SubmitRun
    <2>2. NewRun(u, n, p) \in RunRequest
      BY DEF RunRequest, RunHandler, NewRun
    <2>1. req' \in [Requests -> AnyRequest]
      BY <1>0, <2>2 DEF AnyRequest
    <2> QED
      BY <1>8, <2>1 DEF SubmitRun, TypeOK, AnyRequest
  <1>9. ASSUME NEW r \in Requests, LoadRun(r) PROVE TypeOK'
    <2>1. req[r] \in RunRequest
      BY <1>0, <1>9, RequestKind DEF LoadRun
    <2>2. runRow[req[r].run] \in RunRow
      BY <2>1 DEF TypeOK, RunRequest, RunHandler
    <2>3. [req[r] EXCEPT !.pc = "commit", !.seen = runRow[req[r].run]]
             \in AnyRequest
      BY <2>1, <2>2 DEF AnyRequest, RunRequest, RunHandler
    <2>4. req' \in [Requests -> AnyRequest]
      BY <1>0, <1>9, <2>3 DEF LoadRun, AnyRequest
    <2> QED
      BY <1>9, <2>4 DEF LoadRun, TypeOK, AnyRequest
  <1>10. ASSUME NEW r \in Requests, CommitRun(r) PROVE TypeOK'
    <2> DEFINE n == req[r].run
               set == ChangedFields(req[r].patch, req[r].seen)
    <2>1. req[r] \in RunHandler({"commit"}, RunRow)
      BY <1>10, RunCommit
    <2>2. n \in Runs /\ req[r].seen \in RunRow /\ req[r].patch \in Patches
                     /\ req[r].actor \in Users /\ runRow[n] \in RunRow
      BY <2>1 DEF RunHandler, TypeOK
    <2>3. Applied(runRow[n], set, req[r].actor) \in RunRow
      BY <2>2, AppliedType
    <2>4. /\ runRow' = [runRow EXCEPT ![n] = Applied(@, set, req[r].actor)]
          /\ UNCHANGED <<caseRow, stepRow, events>>
      BY <1>10 DEF CommitRun
    <2>5. req' \in [Requests -> AnyRequest]
      BY <1>0, <1>10 DEF CommitRun, AnyRequest
    <2>6. audit' \in Seq(AuditRow)
      <3>1. \E row \in AuditRow : audit' = Append(audit, row)
        BY <1>10, RunCommit
      <3> QED
        BY <3>1 DEF TypeOK
    <2> HIDE DEF set
    <2>7. runRow' \in [Runs -> RunRow]
      BY <2>2, <2>3, <2>4 DEF TypeOK
    <2> QED
      BY <2>4, <2>5, <2>6, <2>7 DEF TypeOK
  <1>11. ASSUME NEW r \in Requests, Fail(r) PROVE TypeOK'
    BY <1>0, <1>11 DEF Fail, TypeOK, AnyRequest
  <1>12. CASE UNCHANGED vars
    BY <1>12 DEF vars, TypeOK
  <1> QED
    BY <1>1, <1>2, <1>3, <1>4, <1>5, <1>6, <1>7, <1>8, <1>9, <1>10, <1>11,
       <1>12 DEF Next

\* The variables keep their types (TypeOK).
THEOREM TypeCorrect == Spec => []TypeOK
  BY TypeInit, TypeStep, PTL DEF Spec

\* The steps that only read: they leave every table as it was.
Reading(r) ==
    \/ SubmitResult(r) \/ LoadActiveRun(r) \/ LoadCase(r)
    \/ SubmitStep(r) \/ LoadStep(r)
    \/ SubmitRun(r) \/ LoadRun(r)
    \/ Fail(r)

\* Reads change neither rows nor logs.
LEMMA ReadingReads ==
    ASSUME NEW r \in Requests, Reading(r)
    PROVE  UNCHANGED <<runRow, caseRow, stepRow, events, audit>>
  BY DEF Reading, SubmitResult, LoadActiveRun, LoadCase, SubmitStep, LoadStep,
         SubmitRun, LoadRun, Fail

\* A submitted handler starts before its first read, or ends at the role check.
LEMMA SubmitFresh ==
    ASSUME req \in [Requests -> AnyRequest], NEW r \in Requests,
           SubmitResult(r) \/ SubmitStep(r) \/ SubmitRun(r)
    PROVE  req'[r].pc \in {"load run", "settled"}
  <1>1. Settled.pc = "settled"
    BY DEF Settled
  <1>2. CASE SubmitResult(r)
    <2> PICK u \in Users, n \in Runs, c \in Cases, s \in Results,
            m \in Comments \cup {Absent} :
           req' = [req EXCEPT ![r] = IF Authorized(u, Contributor)
                                     THEN NewResult(u, n, c, s, m) ELSE Settled]
      BY <1>2 DEF SubmitResult
    <2>1. req'[r] = NewResult(u, n, c, s, m) \/ req'[r] = Settled
      OBVIOUS
    <2>2. NewResult(u, n, c, s, m).pc = "load run"
      BY DEF NewResult
    <2> QED
      BY <1>1, <2>1, <2>2
  <1>3. CASE SubmitStep(r)
    <2> PICK u \in Users, n \in Runs, c \in Cases, t \in Steps, s \in Results,
            m \in Comments \cup {Absent} :
           req' = [req EXCEPT ![r] = IF Authorized(u, Contributor)
                                     THEN NewStep(u, n, c, t, s, m) ELSE Settled]
      BY <1>3 DEF SubmitStep
    <2>1. req'[r] = NewStep(u, n, c, t, s, m) \/ req'[r] = Settled
      OBVIOUS
    <2>2. NewStep(u, n, c, t, s, m).pc = "load run"
      BY DEF NewStep
    <2> QED
      BY <1>1, <2>1, <2>2
  <1>4. CASE SubmitRun(r)
    <2> PICK u \in Users, n \in Runs, p \in Patches :
           req' = [req EXCEPT ![r] = IF Authorized(u, Admin)
                                     THEN NewRun(u, n, p) ELSE Settled]
      BY <1>4 DEF SubmitRun
    <2>1. req'[r] = NewRun(u, n, p) \/ req'[r] = Settled
      OBVIOUS
    <2>2. NewRun(u, n, p).pc = "load run"
      BY DEF NewRun
    <2> QED
      BY <1>1, <2>1, <2>2
  <1> QED
    BY <1>2, <1>3, <1>4

\* A reading step concerns one handler, and gets a result handler ready to
\* commit only by reading the run case it will update.
LEMMA ReadingRequest ==
    ASSUME TypeOK, NEW r \in Requests, Reading(r)
    PROVE  /\ req' \in [Requests -> AnyRequest]
           /\ \A q \in Requests \ {r} : req'[q] = req[q]
           /\ req'[r].op = "result" /\ req'[r].pc = "commit" =>
                 /\ req'[r].case \in Cases
                 /\ req'[r].seen = caseRow[req'[r].case]
  <1>0. TypeOK'
    BY TypeStep DEF Next, Reading
  <1>1. req \in [Requests -> AnyRequest] /\ req' \in [Requests -> AnyRequest]
    BY <1>0 DEF TypeOK
  <1>2. \A q \in Requests \ {r} : req'[q] = req[q]
    BY <1>1 DEF Reading, SubmitResult, LoadActiveRun, LoadCase, SubmitStep, LoadStep,
           SubmitRun, LoadRun, Fail
  <1>3. Settled.op = "none"
    BY DEF Settled
  <1>4. CASE SubmitResult(r) \/ SubmitStep(r) \/ SubmitRun(r)
    <2>1. req'[r].pc # "commit"
      BY <1>1, <1>4, SubmitFresh
    <2> QED
      BY <1>1, <1>2, <2>1
  <1>5. CASE LoadActiveRun(r)
    <2>1. req[r] \in ResultRequest \cup StepRequest
      BY <1>1, <1>5, RequestKind DEF LoadActiveRun
    <2>2. [req[r] EXCEPT !.pc = "load case"].pc = "load case"
      BY <2>1 DEF ResultRequest, StepRequest, ResultHandler, StepHandler
    <2> QED
      BY <1>1, <1>2, <1>3, <1>5, <2>2 DEF LoadActiveRun
  <1>6. CASE LoadCase(r)
    <2>1. req[r] \in ResultRequest
      BY <1>1, <1>6, RequestKind DEF LoadCase
    <2> DEFINE next == [req[r] EXCEPT !.pc = "commit",
                                      !.seen = caseRow[req[r].case]]
    <2>2. /\ next.case = req[r].case /\ req[r].case \in Cases
          /\ next.seen = caseRow[req[r].case]
      BY <2>1 DEF ResultRequest, ResultHandler
    <2>3. req'[r] = next \/ req'[r] = Settled
      BY <1>1, <1>6 DEF LoadCase
    <2> HIDE DEF next
    <2> QED
      BY <1>1, <1>2, <1>3, <2>2, <2>3
  <1>7. CASE LoadStep(r)
    <2>1. req[r] \in StepRequest
      BY <1>1, <1>7, RequestKind DEF LoadStep
    <2>2. [req[r] EXCEPT !.pc = "commit", !.seen = stepRow[req[r].step]].op = "step"
      BY <2>1 DEF StepRequest, StepHandler
    <2> QED
      BY <1>1, <1>2, <1>3, <1>7, <2>2 DEF LoadStep
  <1>8. CASE LoadRun(r)
    <2>1. req[r] \in RunRequest
      BY <1>1, <1>8, RequestKind DEF LoadRun
    <2>2. [req[r] EXCEPT !.pc = "commit", !.seen = runRow[req[r].run]].op = "run"
      BY <2>1 DEF RunRequest, RunHandler
    <2> QED
      BY <1>1, <1>2, <1>3, <1>8, <2>2 DEF LoadRun
  <1>9. CASE Fail(r)
    BY <1>1, <1>2, <1>3, <1>9 DEF Fail
  <1> QED
    BY <1>4, <1>5, <1>6, <1>7, <1>8, <1>9 DEF Reading

-----------------------------------------------------------------------------
(* Executors *)

\* No result row ever names an executor for a reset, nor a result without
\* one (ResultStamped), in any interleaving of any number of handlers.
THEOREM ResultsStamped == Spec => []ResultStamped
  <1>1. Init => ResultStamped
    BY DEF Init, ResultStamped
  <1>2. TypeOK /\ ResultStamped /\ [Next]_vars => ResultStamped'
    <2> SUFFICES ASSUME TypeOK, ResultStamped, [Next]_vars
                 PROVE  ResultStamped'
      OBVIOUS
    <2>1. ASSUME NEW r \in Requests, Reading(r) PROVE ResultStamped'
      BY <2>1, ReadingReads DEF ResultStamped
    <2>2. ASSUME NEW r \in Requests, CommitResult(r) PROVE ResultStamped'
      <3>1. PICK new \in ResultRow :
               /\ Stamped(new, req[r])
               /\ caseRow' = [caseRow EXCEPT ![req[r].case] = new]
        BY <2>2, ResultCommit
      <3>2. req[r].actor \in Users
        BY <2>2, ResultCommit DEF ResultHandler
      <3>3. new.status = "not_run" <=> new.by = None
        BY <3>1, <3>2 DEF Stamped
      <3>4. UNCHANGED stepRow
        BY <2>2 DEF CommitResult
      <3> QED
        BY <3>1, <3>3, <3>4 DEF ResultStamped, TypeOK
    <2>3. ASSUME NEW r \in Requests, CommitStep(r) PROVE ResultStamped'
      <3>1. PICK new \in ResultRow :
               /\ Stamped(new, req[r])
               /\ stepRow' = [stepRow EXCEPT ![req[r].step] = new]
        BY <2>3, StepCommit
      <3>2. req[r].actor \in Users
        BY <2>3, StepCommit DEF StepHandler
      <3>3. new.status = "not_run" <=> new.by = None
        BY <3>1, <3>2 DEF Stamped
      <3>4. UNCHANGED caseRow
        BY <2>3 DEF CommitStep
      <3> QED
        BY <3>1, <3>3, <3>4 DEF ResultStamped, TypeOK
    <2>4. ASSUME NEW r \in Requests, CommitRun(r) PROVE ResultStamped'
      BY <2>4 DEF CommitRun, ResultStamped
    <2>5. CASE UNCHANGED vars
      BY <2>5 DEF vars, ResultStamped
    <2> QED
      BY <2>1, <2>2, <2>3, <2>4, <2>5 DEF Next, Reading
  <1> QED
    BY <1>1, <1>2, TypeCorrect, PTL DEF Spec

-----------------------------------------------------------------------------
(* The transition log *)

\* Appending an event extends what the log has said by one status.
LEMMA LoggedAppend ==
    ASSUME NEW log \in Seq(Event), NEW e \in Event
    PROVE  /\ Len(Append(log, e)) = Len(log) + 1
           /\ Append(log, e)[Len(log) + 1] = e
           /\ \A k \in 1..Len(log) : Append(log, e)[k] = log[k]
           /\ \A k \in 0..Len(log) : Logged(Append(log, e), k) = Logged(log, k)
           /\ Logged(Append(log, e), Len(log) + 1) =
                 Logged(log, Len(log)) \cup {e.to}
  <1>1. /\ Len(log) \in Nat
        /\ Len(Append(log, e)) = Len(log) + 1
        /\ Append(log, e)[Len(log) + 1] = e
        /\ \A k \in 1..Len(log) : Append(log, e)[k] = log[k]
    OBVIOUS
  <1>2. \A k \in 0..Len(log) : Logged(Append(log, e), k) = Logged(log, k)
    BY <1>1 DEF Logged
  <1>3. 1..(Len(log) + 1) = 1..Len(log) \cup {Len(log) + 1}
    BY <1>1
  <1>4. Logged(Append(log, e), Len(log) + 1) = Logged(log, Len(log)) \cup {e.to}
    BY <1>1, <1>3 DEF Logged
  <1> QED
    BY <1>1, <1>2, <1>4

LogInv == StatusLogged /\ SeenLogged

\* Although CommitResult compares with a row read before its transaction,
\* the status of a run case is always one its log has recorded and every
\* event continues from a recorded status (StatusLogged).
THEOREM StatusesLogged == Spec => []StatusLogged
  <1>1. TypeOK /\ Init => LogInv
    <2> SUFFICES ASSUME TypeOK, Init PROVE LogInv
      OBVIOUS
    <2>1. \A c \in Cases : Len(events[c]) = 1 /\ events[c][1].to = "not_run"
      BY DEF Init
    <2>2. StatusLogged
      BY <2>1 DEF StatusLogged, Logged, Init
    <2>3. SeenLogged
      BY DEF SeenLogged, Init, Idle
    <2> QED
      BY <2>2, <2>3 DEF LogInv
  <1>2. TypeOK /\ LogInv /\ [Next]_vars => LogInv'
    <2> SUFFICES ASSUME TypeOK, LogInv, [Next]_vars PROVE LogInv'
      OBVIOUS
    <2>1. ASSUME NEW r \in Requests, Reading(r) PROVE LogInv'
      <3>1. StatusLogged'
        BY <2>1, ReadingReads DEF StatusLogged, LogInv
      <3>2. SeenLogged'
        BY <2>1, ReadingReads, ReadingRequest DEF StatusLogged, SeenLogged, LogInv
      <3> QED
        BY <3>1, <3>2 DEF LogInv
    <2>2. ASSUME NEW r \in Requests, CommitResult(r) PROVE LogInv'
      <3> DEFINE c == req[r].case
                 s == req[r].status
                 old == req[r].seen
                 log == events[c]
                 e == [from |-> old.status, to |-> s]
      <3>1. req[r] \in ResultHandler({"commit"}, ResultRow)
        BY <2>2, ResultCommit
      <3>2. /\ c \in Cases /\ s \in Results /\ old \in ResultRow
            /\ req[r].actor \in Users /\ req[r].op = "result"
            /\ req[r].pc = "commit" /\ log \in Seq(Event) /\ e \in Event
        BY <3>1 DEF ResultHandler, TypeOK, Event, ResultRow
      <3>3. /\ \E new \in ResultRow : /\ new.status = s
                                      /\ caseRow' = [caseRow EXCEPT ![c] = new]
            /\ req' = [req EXCEPT ![r] = Settled]
            /\ events' = [events EXCEPT ![c] = Transitioned(@, old.status, s)]
        BY <2>2, ResultCommit DEF CommitResult, Stamped
      <3>4. old.status \in Logged(log, Len(log))
        BY <3>2 DEF LogInv, SeenLogged
      <3>5. \A d \in Cases \ {c} : events'[d] = events[d] /\ caseRow'[d] = caseRow[d]
        BY <3>2, <3>3 DEF TypeOK
      <3>6. caseRow'[c].status = s
        BY <3>2, <3>3 DEF TypeOK
      <3>7. events'[c] = IF s = old.status THEN log ELSE Append(log, e)
        <4>1. events'[c] = Transitioned(log, old.status, s)
          BY <3>2, <3>3 DEF TypeOK
        <4> QED
          BY <4>1 DEF Transitioned
      <3> e.from = old.status /\ e.to = s
        OBVIOUS
      <3> HIDE DEF c, s, old, log, e
      <3>8. s \in Logged(events'[c], Len(events'[c]))
        <4>1. CASE s = old.status
          BY <3>4, <3>7, <4>1
        <4>2. CASE s # old.status
          <5>1. events'[c] = Append(log, e) /\ Len(events'[c]) = Len(log) + 1
            BY <3>2, <3>7, <4>2, LoggedAppend
          <5>2. Logged(events'[c], Len(events'[c])) = Logged(log, Len(log)) \cup {e.to}
            BY <3>2, <5>1, LoggedAppend
          <5> QED
            BY <5>2
        <4> QED
          BY <4>1, <4>2
      <3>9. Logged(log, Len(log)) \subseteq Logged(events'[c], Len(events'[c]))
        BY <3>2, <3>7, LoggedAppend
      <3>10. \A k \in 2..Len(events'[c]) :
                events'[c][k].from \in Logged(events'[c], k - 1)
        <4>1. \A k \in 2..Len(log) : log[k].from \in Logged(log, k - 1)
          BY <3>2 DEF LogInv, StatusLogged, log
        <4>2. CASE s = old.status
          BY <3>7, <4>1, <4>2
        <4>3. CASE s # old.status
          <5>1. events'[c] = Append(log, e) /\ Len(log) \in Nat
            BY <3>2, <3>7, <4>3
          <5>2. SUFFICES ASSUME NEW k \in 2..(Len(log) + 1)
                         PROVE  Append(log, e)[k].from \in Logged(Append(log, e), k - 1)
            BY <3>2, <5>1, LoggedAppend
          <5>3. CASE k = Len(log) + 1
            <6>1. k - 1 = Len(log) /\ Append(log, e)[k] = e
              BY <3>2, <5>1, <5>3, LoggedAppend
            <6>2. Logged(Append(log, e), k - 1) = Logged(log, Len(log))
              BY <3>2, <5>1, <6>1, LoggedAppend
            <6> QED
              BY <3>4, <6>1, <6>2
          <5>4. CASE k # Len(log) + 1
            <6>1. k \in 2..Len(log) /\ k \in 1..Len(log) /\ k - 1 \in 0..Len(log)
              BY <5>1, <5>4
            <6>2. Append(log, e)[k] = log[k]
              BY <3>2, <6>1, LoggedAppend
            <6>3. Logged(Append(log, e), k - 1) = Logged(log, k - 1)
              BY <3>2, <6>1, LoggedAppend
            <6> QED
              BY <4>1, <6>1, <6>2, <6>3
          <5> QED
            BY <5>3, <5>4
        <4> QED
          BY <4>2, <4>3
      <3>11. StatusLogged'
        BY <3>2, <3>5, <3>6, <3>8, <3>10 DEF StatusLogged, LogInv
      <3>12. SeenLogged'
        <4> SUFFICES ASSUME NEW q \in Requests,
                            req'[q].op = "result", req'[q].pc = "commit"
                     PROVE  req'[q].seen.status \in
                               Logged(events'[req'[q].case], Len(events'[req'[q].case]))
          BY DEF SeenLogged
        <4>1. req'[q] = req[q]
          BY <3>3 DEF TypeOK, Settled
        <4>2. req[q] \in ResultRequest /\ req[q].case \in Cases
          BY <4>1, RequestKind DEF TypeOK, ResultRequest, ResultHandler
        <4>3. req[q].seen.status \in
                 Logged(events[req[q].case], Len(events[req[q].case]))
          BY <4>1 DEF LogInv, SeenLogged
        <4> QED
          BY <3>5, <3>9, <4>1, <4>2, <4>3 DEF log
      <3> QED
        BY <3>11, <3>12 DEF LogInv
    <2>3. ASSUME NEW r \in Requests, CommitStep(r) \/ CommitRun(r) PROVE LogInv'
      <3>1. /\ UNCHANGED <<caseRow, events>>
            /\ req' = [req EXCEPT ![r] = Settled]
        BY <2>3 DEF CommitStep, CommitRun
      <3>2. \A q \in Requests : req'[q] = req[q] \/ req'[q].op = "none"
        BY <3>1 DEF TypeOK, Settled
      <3> QED
        BY <3>1, <3>2 DEF LogInv, StatusLogged, SeenLogged
    <2>5. CASE UNCHANGED vars
      BY <2>5 DEF vars, LogInv, StatusLogged, SeenLogged
    <2> QED
      BY <2>1, <2>2, <2>3, <2>5 DEF Next, Reading
  <1> QED
    BY <1>1, <1>2, TypeCorrect, PTL DEF Spec, LogInv

-----------------------------------------------------------------------------
(* The audit log *)

\* Appending a row makes it the latest of its kind on its entity.
LEMMA LatestNew ==
    ASSUME NEW log \in Seq(AuditRow), NEW row \in AuditRow
    PROVE  /\ Len(log) + 1 \in DOMAIN Append(log, row)
           /\ Append(log, row)[Len(log) + 1] = row
           /\ IsLatest(Append(log, row), Len(log) + 1, row.entity, row.action)
           /\ \A i \in Nat :
                 IsLatest(Append(log, row), i, row.entity, row.action) =>
                    Append(log, row)[i] = row
  <1> DEFINE next == Append(log, row)
  <1>1. /\ Len(log) \in Nat
        /\ DOMAIN next = 1..(Len(log) + 1)
        /\ next[Len(log) + 1] = row
    OBVIOUS
  <1> HIDE DEF next
  <1>2. IsLatest(next, Len(log) + 1, row.entity, row.action)
    BY <1>1 DEF IsLatest
  <1>3. ASSUME NEW i \in Nat, IsLatest(next, i, row.entity, row.action)
        PROVE  next[i] = row
    <2>1. i \in 1..(Len(log) + 1) /\ Len(log) + 1 <= i
      BY <1>1, <1>3 DEF IsLatest
    <2> QED
      BY <1>1, <2>1
  <1>4. Len(log) + 1 \in DOMAIN next
    BY <1>1
  <1> QED
    BY <1>1, <1>2, <1>3, <1>4, Zenon DEF next

\* It leaves the latest row of every other kind or entity as it was.
LEMMA LatestKept ==
    ASSUME NEW log \in Seq(AuditRow), NEW row \in AuditRow,
           NEW e, NEW a, row.entity # e \/ row.action # a, NEW i \in Nat
    PROVE  /\ IsLatest(Append(log, row), i, e, a) <=> IsLatest(log, i, e, a)
           /\ IsLatest(log, i, e, a) =>
                 /\ i \in DOMAIN log /\ i \in DOMAIN Append(log, row)
                 /\ Append(log, row)[i] = log[i]
  <1> DEFINE next == Append(log, row)
  <1>1. /\ Len(log) \in Nat
        /\ DOMAIN log = 1..Len(log)
        /\ DOMAIN next = 1..(Len(log) + 1)
        /\ \A j \in 1..Len(log) : next[j] = log[j]
        /\ next[Len(log) + 1] = row
    OBVIOUS
  <1> HIDE DEF next
  <1>2. IsLatest(next, i, e, a) => IsLatest(log, i, e, a)
    BY <1>1 DEF IsLatest
  <1>3. ASSUME IsLatest(log, i, e, a) PROVE IsLatest(next, i, e, a)
    <2>1. /\ i \in 1..Len(log) /\ log[i].entity = e /\ log[i].action = a
          /\ \A j \in 1..Len(log) :
                log[j].entity = e /\ log[j].action = a => j <= i
      BY <1>1, <1>3 DEF IsLatest
    <2>2. i \in DOMAIN next /\ next[i].entity = e /\ next[i].action = a
      BY <1>1, <2>1
    <2>3. ASSUME NEW j \in DOMAIN next, next[j].entity = e, next[j].action = a
          PROVE  j <= i
      <3>1. j \in 1..Len(log)
        BY <1>1, <2>3
      <3> QED
        BY <1>1, <2>1, <2>3, <3>1
    <2> QED
      BY <2>2, <2>3 DEF IsLatest
  <1>4. IsLatest(log, i, e, a) =>
           i \in DOMAIN log /\ i \in DOMAIN next /\ next[i] = log[i]
    BY <1>1 DEF IsLatest
  <1> QED
    BY <1>2, <1>3, <1>4 DEF next

\* The latest audit row on a run case or step is its present result
\* (AuditReplaysResults): row and result commit together.
THEOREM AuditReplays == Spec => []AuditReplaysResults
  <1>1. Init => AuditReplaysResults
    BY DEF Init, AuditReplaysResults, IsLatest
  <1>2. TypeOK /\ AuditReplaysResults /\ [Next]_vars => AuditReplaysResults'
    <2> SUFFICES ASSUME TypeOK, AuditReplaysResults, [Next]_vars
                 PROVE  AuditReplaysResults'
      OBVIOUS
    <2>1. ASSUME NEW r \in Requests, Reading(r) PROVE AuditReplaysResults'
      BY <2>1, ReadingReads DEF AuditReplaysResults, IsLatest
    <2>2. ASSUME NEW r \in Requests, CommitResult(r) PROVE AuditReplaysResults'
      <3> PICK row \in AuditRow :
             /\ audit' = Append(audit, row)
             /\ row.entity = req[r].case /\ row.action = "result.updated"
             /\ Stamped(row.new, req[r])
        BY <2>2, ResultCommit
      <3>1. row.entity \in Cases /\ audit \in Seq(AuditRow)
        BY <2>2, ResultCommit DEF ResultHandler, TypeOK
      <3> PICK new \in ResultRow :
             /\ Stamped(new, req[r])
             /\ caseRow' = [caseRow EXCEPT ![row.entity] = new]
        BY <2>2, ResultCommit
      <3>2. SameResult(row.new, new) /\ UNCHANGED stepRow
        BY <2>2 DEF CommitResult, Stamped, SameResult
      <3>3. ASSUME NEW c \in Cases, NEW i \in Nat, IsLatest(audit', i, c, "result.updated")
            PROVE  SameResult(audit'[i].new, caseRow'[c])
        <4>1. CASE c = row.entity
          <5>1. IsLatest(audit', i, row.entity, row.action)
            BY <3>3, <4>1
          <5>2. audit'[i] = row
            BY <3>1, <5>1, LatestNew
          <5> QED
            BY <3>1, <3>2, <4>1, <5>2 DEF TypeOK
        <4>2. CASE c # row.entity
          <5>1. /\ IsLatest(audit, i, c, "result.updated") /\ i \in DOMAIN audit
                /\ audit'[i] = audit[i]
            BY <3>1, <3>3, <4>2, LatestKept
          <5> QED
            BY <3>1, <3>2, <4>2, <5>1 DEF TypeOK, AuditReplaysResults
        <4> QED
          BY <4>1, <4>2
      <3>4. ASSUME NEW t \in Steps, NEW i \in Nat,
                   IsLatest(audit', i, t, "step_result.updated")
            PROVE  SameResult(audit'[i].new, stepRow'[t])
        <4>1. /\ IsLatest(audit, i, t, "step_result.updated") /\ i \in DOMAIN audit
              /\ audit'[i] = audit[i]
          BY <3>1, <3>4, LatestKept
        <4> QED
          BY <3>2, <4>1 DEF AuditReplaysResults
      <3> QED
        BY <3>3, <3>4 DEF AuditReplaysResults
    <2>3. ASSUME NEW r \in Requests, CommitStep(r) PROVE AuditReplaysResults'
      <3> PICK row \in AuditRow :
             /\ audit' = Append(audit, row)
             /\ row.entity = req[r].step /\ row.action = "step_result.updated"
             /\ Stamped(row.new, req[r])
        BY <2>3, StepCommit
      <3>1. row.entity \in Steps /\ audit \in Seq(AuditRow)
        BY <2>3, StepCommit DEF StepHandler, TypeOK
      <3> PICK new \in ResultRow :
             /\ Stamped(new, req[r])
             /\ stepRow' = [stepRow EXCEPT ![row.entity] = new]
        BY <2>3, StepCommit
      <3>2. SameResult(row.new, new) /\ UNCHANGED caseRow
        BY <2>3 DEF CommitStep, Stamped, SameResult
      <3>3. ASSUME NEW t \in Steps, NEW i \in Nat,
                   IsLatest(audit', i, t, "step_result.updated")
            PROVE  SameResult(audit'[i].new, stepRow'[t])
        <4>1. CASE t = row.entity
          <5>1. IsLatest(audit', i, row.entity, row.action)
            BY <3>3, <4>1
          <5>2. audit'[i] = row
            BY <3>1, <5>1, LatestNew
          <5> QED
            BY <3>1, <3>2, <4>1, <5>2 DEF TypeOK
        <4>2. CASE t # row.entity
          <5>1. /\ IsLatest(audit, i, t, "step_result.updated")
                /\ i \in DOMAIN audit /\ audit'[i] = audit[i]
            BY <3>1, <3>3, <4>2, LatestKept
          <5> QED
            BY <3>1, <3>2, <4>2, <5>1 DEF TypeOK, AuditReplaysResults
        <4> QED
          BY <4>1, <4>2
      <3>4. ASSUME NEW c \in Cases, NEW i \in Nat, IsLatest(audit', i, c, "result.updated")
            PROVE  SameResult(audit'[i].new, caseRow'[c])
        <4>1. /\ IsLatest(audit, i, c, "result.updated") /\ i \in DOMAIN audit
              /\ audit'[i] = audit[i]
          BY <3>1, <3>4, LatestKept
        <4> QED
          BY <3>2, <4>1 DEF AuditReplaysResults
      <3> QED
        BY <3>3, <3>4 DEF AuditReplaysResults
    <2>4. ASSUME NEW r \in Requests, CommitRun(r) PROVE AuditReplaysResults'
      <3> PICK row \in AuditRow :
             /\ audit' = Append(audit, row)
             /\ row.action \in {"run.updated", "run.sealed",
                                "run.reopened", "run.archived"}
        BY <2>4, RunCommit
      <3>1. UNCHANGED <<caseRow, stepRow>> /\ audit \in Seq(AuditRow)
        BY <2>4 DEF CommitRun, TypeOK
      <3>2. ASSUME NEW e, NEW i \in Nat, NEW a \in {"result.updated", "step_result.updated"},
                   IsLatest(audit', i, e, a)
            PROVE  /\ IsLatest(audit, i, e, a) /\ i \in DOMAIN audit
                   /\ audit'[i] = audit[i]
        <4>1. row.action # a
          OBVIOUS
        <4> QED
          BY <3>1, <3>2, <4>1, LatestKept
      <3> QED
        BY <3>1, <3>2 DEF AuditReplaysResults
    <2>5. CASE UNCHANGED vars
      BY <2>5 DEF vars, AuditReplaysResults, IsLatest
    <2> QED
      BY <2>1, <2>2, <2>3, <2>4, <2>5 DEF Next, Reading
  <1> QED
    BY <1>1, <1>2, TypeCorrect, PTL DEF Spec

\* Sealed runs are attributed to the actor of their latest 'run.sealed'
\* row, active runs to nobody (SealAttributed).
THEOREM SealsAttributed == Spec => []SealAttributed
  <1>1. Init => SealAttributed
    BY DEF Init, SealAttributed
  <1>2. TypeOK /\ SealAttributed /\ [Next]_vars => SealAttributed'
    <2> SUFFICES ASSUME TypeOK, SealAttributed, [Next]_vars
                 PROVE  SealAttributed'
      OBVIOUS
    <2>1. ASSUME NEW r \in Requests, Reading(r) PROVE SealAttributed'
      BY <2>1, ReadingReads DEF SealAttributed, IsLatest
    <2>2. ASSUME NEW r \in Requests, CommitResult(r) \/ CommitStep(r)
          PROVE  SealAttributed'
      <3> PICK row \in AuditRow : /\ audit' = Append(audit, row)
                                  /\ row.action # "run.sealed"
        BY <2>2, ResultCommit, StepCommit
      <3>1. UNCHANGED runRow /\ audit \in Seq(AuditRow)
        BY <2>2 DEF CommitResult, CommitStep, TypeOK
      <3>2. ASSUME NEW n, NEW i \in Nat, IsLatest(audit, i, n, "run.sealed")
            PROVE  /\ IsLatest(audit', i, n, "run.sealed")
                   /\ i \in DOMAIN audit' /\ audit'[i] = audit[i]
        BY <3>1, <3>2, LatestKept
      <3> QED
        BY <3>1, <3>2 DEF SealAttributed
    <2>4. ASSUME NEW r \in Requests, CommitRun(r) PROVE SealAttributed'
      <3> DEFINE m == req[r].run
                 seen == req[r].seen
                 set == ChangedFields(req[r].patch, seen)
      <3>1. /\ m \in Runs /\ seen \in RunRow /\ req[r].patch \in Patches
            /\ req[r].actor \in Users /\ runRow[m] \in RunRow
        BY <2>4, RunCommit DEF RunHandler, TypeOK
      <3>2. runRow' = [runRow EXCEPT ![m] = Applied(@, set, req[r].actor)]
        BY <2>4 DEF CommitRun
      <3>3. /\ \A n \in Runs \ {m} : runRow'[n] = runRow[n]
            /\ runRow'[m] = Applied(runRow[m], set, req[r].actor)
        BY <3>1, <3>2 DEF TypeOK
      <3>4. PICK row \in AuditRow :
               /\ audit' = Append(audit, row)
               /\ row.entity = m /\ row.actor = req[r].actor
               /\ row.action = RunAction(set, seen)
        BY <2>4, RunCommit
      <3>5. set.status \in {Absent, "active", "sealed", "archived"}
        BY <3>1 DEF ChangedFields, Patch, RunStatuses
      <3> HIDE DEF m, seen, set
      <3>6. row.action = "run.sealed" <=> set.status = "sealed"
        BY <3>4, <3>5 DEF RunAction, RunStatuses
      <3>7. ASSUME NEW n \in Runs, n # m \/ set.status # "sealed", NEW i \in Nat,
                   IsLatest(audit, i, n, "run.sealed")
            PROVE  /\ IsLatest(audit', i, n, "run.sealed")
                   /\ i \in DOMAIN audit' /\ audit'[i] = audit[i]
        <4>1. row.entity # n \/ row.action # "run.sealed"
          BY <3>4, <3>6, <3>7
        <4>2. audit \in Seq(AuditRow)
          BY DEF TypeOK
        <4> QED
          BY <3>4, <3>7, <4>1, <4>2, LatestKept
      <3> SUFFICES ASSUME NEW n \in Runs
                   PROVE  /\ runRow'[n].status = "sealed" =>
                                \E i \in DOMAIN audit' :
                                   /\ IsLatest(audit', i, n, "run.sealed")
                                   /\ runRow'[n].sealedBy = audit'[i].actor
                          /\ runRow'[n].status = "active" =>
                                runRow'[n].sealedBy = None
        BY DEF SealAttributed
      <3> DEFINE Sealer == \E i \in DOMAIN audit :
                              /\ IsLatest(audit, i, n, "run.sealed")
                              /\ runRow[n].sealedBy = audit[i].actor
      <3>8. ASSUME n # m \/ set.status # "sealed", Sealer,
                   runRow'[n].sealedBy = runRow[n].sealedBy
            PROVE  \E i \in DOMAIN audit' :
                      /\ IsLatest(audit', i, n, "run.sealed")
                      /\ runRow'[n].sealedBy = audit'[i].actor
        <4>1. PICK i \in DOMAIN audit : /\ IsLatest(audit, i, n, "run.sealed")
                                        /\ runRow[n].sealedBy = audit[i].actor
          BY <3>8
        <4>2. i \in Nat
          BY DEF TypeOK
        <4> QED
          BY <3>7, <3>8, <4>1, <4>2
      <3>9. /\ runRow[n].status = "sealed" => Sealer
            /\ runRow[n].status = "active" => runRow[n].sealedBy = None
        BY DEF SealAttributed
      <3> HIDE DEF Sealer
      <3>10. CASE n # m
        BY <3>3, <3>8, <3>9, <3>10
      <3>11. CASE n = m /\ set.status = "sealed"
        <4>1. runRow'[n].status = "sealed" /\ runRow'[n].sealedBy = row.actor
          BY <3>3, <3>4, <3>11 DEF Applied, RunStatuses
        <4>2. audit \in Seq(AuditRow) /\ row.entity = n /\ row.action = "run.sealed"
          BY <3>4, <3>6, <3>11 DEF TypeOK
        <4>3. /\ IsLatest(audit', Len(audit) + 1, n, "run.sealed")
              /\ Len(audit) + 1 \in DOMAIN audit'
              /\ audit'[Len(audit) + 1] = row
          BY <3>4, <4>2, LatestNew
        <4>4. runRow'[n].status # "active"
          BY <4>1
        <4> QED
          BY <4>1, <4>3, <4>4
      <3>12. CASE n = m /\ set.status = "active"
        BY <3>3, <3>12 DEF Applied, RunStatuses
      <3>13. CASE n = m /\ set.status = "archived"
        BY <3>3, <3>13 DEF Applied, RunStatuses
      <3>14. CASE n = m /\ set.status = Absent
        <4>1. /\ runRow'[n].status = runRow[n].status
              /\ runRow'[n].sealedBy = runRow[n].sealedBy
          BY <3>3, <3>14 DEF Applied, RunStatuses
        <4>2. set.status # "sealed"
          BY <3>14 DEF RunStatuses
        <4> QED
          BY <3>8, <3>9, <4>1, <4>2
      <3> QED
        BY <3>5, <3>10, <3>11, <3>12, <3>13, <3>14
    <2>5. CASE UNCHANGED vars
      BY <2>5 DEF vars, SealAttributed, IsLatest
    <2> QED
      BY <2>1, <2>2, <2>4, <2>5 DEF Next, Reading
  <1> QED
    BY <1>1, <1>2, TypeCorrect, PTL DEF Spec

-----------------------------------------------------------------------------
(* The seal *)

\* A handler about to commit addresses a case, and a step, of its run.
Addressed(h) ==
    /\ h.op = "result" /\ h.pc = "commit" => RunOf[h.case] = h.run
    /\ h.op = "step" /\ h.pc = "commit" =>
          RunOf[h.case] = h.run /\ CaseOf[h.step] = h.case

AllAddressed == \A r \in Requests : Addressed(req[r])

\* A reading step gets ready to commit only at a case and step of its run,
\* and enters the window only by reading the run as active.
LEMMA ReadingAdvance ==
    ASSUME TypeOK, NEW r \in Requests, Reading(r)
    PROVE  /\ Addressed(req'[r])
           /\ \A n \in Runs : InWindow(req'[r], n) =>
                 InWindow(req[r], n) \/ runRow[n].status = "active"
  <1>1. req \in [Requests -> AnyRequest]
    BY DEF TypeOK
  <1>2. Settled.op = "none" /\ Settled.pc = "settled"
    BY DEF Settled
  <1>3. CASE SubmitResult(r) \/ SubmitStep(r) \/ SubmitRun(r)
    BY <1>1, <1>3, SubmitFresh DEF Addressed, InWindow
  <1>4. CASE LoadActiveRun(r)
    <2> DEFINE next == [req[r] EXCEPT !.pc = "load case"]
    <2>1. req[r] \in ResultRequest \cup StepRequest
      BY <1>1, <1>4, RequestKind DEF LoadActiveRun
    <2>2. next.pc = "load case" /\ next.run = req[r].run
      BY <2>1 DEF ResultRequest, StepRequest, ResultHandler, StepHandler
    <2>3. \/ req'[r] = next /\ runRow[req[r].run].status = "active"
          \/ req'[r] = Settled
      BY <1>1, <1>4 DEF LoadActiveRun
    <2> HIDE DEF next
    <2> QED
      BY <1>2, <2>2, <2>3 DEF Addressed, InWindow
  <1>5. CASE LoadCase(r)
    <2> DEFINE next == [req[r] EXCEPT !.pc = "commit",
                                      !.seen = caseRow[req[r].case]]
    <2>1. req[r] \in ResultRequest
      BY <1>1, <1>5, RequestKind DEF LoadCase
    <2>2. /\ next.op = "result" /\ next.run = req[r].run
          /\ next.case = req[r].case
      BY <1>5, <2>1 DEF ResultRequest, ResultHandler
    <2>3. \/ req'[r] = next /\ RunOf[req[r].case] = req[r].run
          \/ req'[r] = Settled
      BY <1>1, <1>5 DEF LoadCase
    <2>4. req[r].op = "result" /\ req[r].pc = "load case"
      BY <1>5 DEF LoadCase
    <2> HIDE DEF next
    <2> QED
      BY <1>2, <2>2, <2>3, <2>4 DEF Addressed, InWindow
  <1>6. CASE LoadStep(r)
    <2> DEFINE next == [req[r] EXCEPT !.pc = "commit",
                                      !.seen = stepRow[req[r].step]]
    <2>1. req[r] \in StepRequest
      BY <1>1, <1>6, RequestKind DEF LoadStep
    <2>2. /\ next.op = "step" /\ next.run = req[r].run
          /\ next.case = req[r].case /\ next.step = req[r].step
      BY <1>6, <2>1 DEF StepRequest, StepHandler
    <2>3. \/ /\ req'[r] = next
             /\ RunOf[req[r].case] = req[r].run
             /\ CaseOf[req[r].step] = req[r].case
          \/ req'[r] = Settled
      BY <1>1, <1>6 DEF LoadStep
    <2>4. req[r].op = "step" /\ req[r].pc = "load case"
      BY <1>6 DEF LoadStep
    <2> HIDE DEF next
    <2> QED
      BY <1>2, <2>2, <2>3, <2>4 DEF Addressed, InWindow
  <1>7. CASE LoadRun(r)
    <2> DEFINE next == [req[r] EXCEPT !.pc = "commit",
                                      !.seen = runRow[req[r].run]]
    <2>1. req[r] \in RunRequest
      BY <1>1, <1>7, RequestKind DEF LoadRun
    <2>2. next.op = "run"
      BY <2>1 DEF RunRequest, RunHandler
    <2>3. req'[r] = next \/ req'[r] = Settled
      BY <1>1, <1>7 DEF LoadRun
    <2> HIDE DEF next
    <2> QED
      BY <1>2, <2>2, <2>3 DEF Addressed, InWindow
  <1>8. CASE Fail(r)
    BY <1>1, <1>2, <1>8 DEF Fail, Addressed, InWindow
  <1> QED
    BY <1>3, <1>4, <1>5, <1>6, <1>7, <1>8 DEF Reading

\* A commit ends its own handler and no other.
LEMMA CommitSettles ==
    ASSUME TypeOK, NEW r \in Requests,
           CommitResult(r) \/ CommitStep(r) \/ CommitRun(r)
    PROVE  \A q \in Requests : req'[q] = req[q] \/ req'[q].op = "none"
  BY DEF TypeOK, CommitResult, CommitStep, CommitRun, Settled

\* A result about to be written is for a case of its run, or a step of its case.
LEMMA AddressedAlways == Spec => []AllAddressed
  <1>1. Init => AllAddressed
    BY DEF Init, AllAddressed, Addressed, Idle
  <1>2. TypeOK /\ AllAddressed /\ [Next]_vars => AllAddressed'
    <2> SUFFICES ASSUME TypeOK, AllAddressed, [Next]_vars PROVE AllAddressed'
      OBVIOUS
    <2>1. ASSUME NEW r \in Requests, Reading(r) PROVE AllAddressed'
      BY <2>1, ReadingAdvance, ReadingRequest DEF AllAddressed
    <2>2. ASSUME NEW r \in Requests,
                 CommitResult(r) \/ CommitStep(r) \/ CommitRun(r)
          PROVE  AllAddressed'
      BY <2>2, CommitSettles DEF AllAddressed, Addressed
    <2>3. CASE UNCHANGED vars
      BY <2>3 DEF vars, AllAddressed
    <2> QED
      BY <2>1, <2>2, <2>3 DEF Next, Reading
  <1> QED
    BY <1>1, <1>2, TypeCorrect, PTL DEF Spec

\* Once a run is not active and no handler is past the status check, its
\* results stay as they are until it is reopened (FrozenOnceDrained).
THEOREM SealTakesHold == Spec => FrozenOnceDrained
  <1> DEFINE Frozen(n) == /\ ResultsOf(n)' = ResultsOf(n)
                          /\ runRow'[n].status = "active" \/ ~WriterInWindow(n)'
  <1>1. ASSUME TypeOK, AllAddressed, Next,
               NEW n \in Runs, runRow[n].status # "active", ~WriterInWindow(n)
        PROVE  Frozen(n)
    <2>1. ASSUME NEW r \in Requests, Reading(r) PROVE Frozen(n)
      <3>1. ResultsOf(n)' = ResultsOf(n)
        BY <2>1, ReadingReads DEF ResultsOf
      <3>2. ASSUME NEW q \in Requests PROVE ~InWindow(req'[q], n)
        <4>1. ~InWindow(req[q], n)
          BY <1>1 DEF WriterInWindow
        <4> QED
          BY <1>1, <2>1, <4>1, ReadingAdvance, ReadingRequest
      <3> QED
        BY <3>1, <3>2 DEF WriterInWindow
    <2>2. ASSUME NEW r \in Requests,
                 CommitResult(r) \/ CommitStep(r) \/ CommitRun(r)
          PROVE  ~WriterInWindow(n)'
      BY <1>1, <2>2, CommitSettles DEF WriterInWindow, InWindow
    <2>3. ASSUME NEW r \in Requests, CommitResult(r) PROVE Frozen(n)
      <3>1. req[r].case \in Cases
        BY <1>1, <2>3, ResultCommit DEF ResultHandler
      <3>2. RunOf[req[r].case] # n
        BY <1>1, <2>3 DEF AllAddressed, Addressed, CommitResult, WriterInWindow,
                          InWindow
      <3>3. \A c \in Cases : RunOf[c] = n =>
               caseRow'[c] = caseRow[c] /\ events'[c] = events[c]
        BY <1>1, <2>3, <3>1, <3>2 DEF CommitResult, TypeOK
      <3>4. UNCHANGED stepRow
        BY <2>3 DEF CommitResult
      <3> QED
        BY <2>2, <2>3, <3>3, <3>4 DEF ResultsOf
    <2>4. ASSUME NEW r \in Requests, CommitStep(r) PROVE Frozen(n)
      <3>1. req[r].step \in Steps
        BY <1>1, <2>4, StepCommit DEF StepHandler
      <3>2. RunOf[CaseOf[req[r].step]] # n
        <4>1. req[r].op = "step" /\ req[r].pc = "commit"
          BY <2>4 DEF CommitStep
        <4>2. RunOf[req[r].case] = req[r].run /\ CaseOf[req[r].step] = req[r].case
          BY <1>1, <4>1 DEF AllAddressed, Addressed
        <4>3. req[r].run # n
          BY <1>1, <4>1 DEF WriterInWindow, InWindow
        <4> QED
          BY <4>2, <4>3
      <3>3. \A t \in Steps : RunOf[CaseOf[t]] = n => stepRow'[t] = stepRow[t]
        BY <1>1, <2>4, <3>1, <3>2 DEF CommitStep, TypeOK
      <3>4. UNCHANGED <<caseRow, events>>
        BY <2>4 DEF CommitStep
      <3> QED
        BY <2>2, <2>4, <3>3, <3>4 DEF ResultsOf
    <2>5. ASSUME NEW r \in Requests, CommitRun(r) PROVE Frozen(n)
      BY <2>2, <2>5 DEF CommitRun, ResultsOf
    <2> QED
      BY <1>1, <2>1, <2>3, <2>4, <2>5 DEF Next, Reading
  <1>2. TypeOK /\ AllAddressed /\ [Next]_vars =>
           [\A n \in Runs : runRow[n].status # "active" /\ ~WriterInWindow(n) =>
               Frozen(n)]_vars
    BY <1>1
  <1> QED
    BY <1>2, TypeCorrect, AddressedAlways, PTL DEF Spec, FrozenOnceDrained
=============================================================================
