---------------------------- MODULE CaseLibrary ----------------------------
(***************************************************************************)
(* Folders, test cases, their steps and comments, and the requirements     *)
(* linked to them: TestCaseService and linkRequirementToCase, with the     *)
(* routes that call them and the adapters through which a browser writes   *)
(* and reads cases (case-client.ts).                                       *)
(*                                                                         *)
(* A handler reads what it needs with plain SELECTs and then writes in one *)
(* transaction that re-reads nothing.  archiveCase and createFolder write  *)
(* outside a transaction, one statement per step.  Handlers interleave at  *)
(* every await; a commit is one step, since the transactions of one case   *)
(* are ordered by its row locks.  A row created by request r carries r as  *)
(* its id, so an id is never given twice.                                  *)
(*                                                                         *)
(* One project is modelled; its rows are never deleted (cases are          *)
(* archived), but the steps of a case are, with every save.                *)
(***************************************************************************)
EXTENDS Naturals, Sequences, FiniteSets

CONSTANTS
    SeedFolders,   \* folders at the start
    SeedCases,     \* test cases at the start
    SeedSteps,     \* how many steps each of them has
    Requirements,  \* requirements of the project
    SeedLinks,     \* <<case, requirement>> pairs linked at the start
    Users,         \* actors
    Level,         \* each actor's effective role level in the project
    Requests,      \* one handler invocation each
    Edits,         \* what a form sends of a case, see Edit
    None,          \* SQL NULL, an absent row
    Absent         \* a field left out of a request

Folders == SeedFolders \cup Requests
Cases == SeedCases \cup Requests

\* A step list as a form holds it: the places of the saved steps it keeps, and
\* 0 for each step typed in.  Steps left blank are not sent.
Edit == [folder: Folders \cup {None, Absent}, title: BOOLEAN,
         archived: BOOLEAN \cup {Absent}, steps: Seq(Nat) \cup {Absent}]

ASSUME LibraryAssumption ==
    /\ Level \in [Users -> 0..4]
    /\ SeedSteps \in [SeedCases -> Nat]
    /\ SeedLinks \subseteq SeedCases \X Requirements
    /\ Edits \subseteq Edit
    /\ Requests \cap (SeedCases \cup SeedFolders) = {}
    /\ None \notin Folders \cup Cases
    /\ Absent \notin Folders \cup BOOLEAN \cup {None}
    /\ Absent \notin Seq(Nat)

VARIABLES
    folder,        \* folders: the parent of each, None at the top; Absent if no row
    case,          \* test_cases: folder, title, archived; None if there is no row
    steps,         \* test_case_steps of each case, by position
    comment,       \* case_comments, by the request that added them
    linked,        \* case_requirements
    caseLog,       \* audit_log rows of test cases, in commit order
    linkLog,       \* audit_log rows of requirement links, in commit order
    req            \* what each handler invocation knows so far

vars == <<folder, case, steps, comment, linked, caseLog, linkLog, req>>

-----------------------------------------------------------------------------
(* Rows and requests *)

\* A title is known by the request that sent it.
Sender == Requests \cup {None}

CaseRow == [folder: Folders \cup {None}, title: Sender, archived: BOOLEAN]

\* A step's id is what made it, a request or the seed of a case, and its place
\* there.
StepId == Cases \X Nat
Step == [id: StepId]

CommentRow == [case: Cases, step: StepId \cup {None}, author: Users]

ASSUME RowAssumption ==
    None \notin CaseRow /\ None \notin CommentRow /\ Absent \notin Seq(Step)

Fields == [folder: Folders \cup {None, Absent}, title: Requests \cup {Absent},
           archived: BOOLEAN \cup {Absent}]

LogRow == [case: Cases, actor: Users, set: Fields,
           action: {"case.created", "case.updated", "case.archived",
                    "case_comment.created"}]

Idle == [op |-> "none", pc |-> "idle"]
Settled == [op |-> "none", pc |-> "settled"]

FolderRequest ==
    [op: {"folder"}, pc: {"check", "insert"}, actor: Users,
     parent: Folders \cup {None}]
SaveRequest ==
    [op: {"create", "update"}, pc: {"check", "commit"}, actor: Users,
     case: Cases, fields: Fields, steps: Seq(Step) \cup {Absent}]
ArchiveRequest ==
    [op: {"archive"}, pc: {"check", "write", "audit", "unaudited"},
     actor: Users, case: Cases]
CommentRequest ==
    [op: {"comment"}, pc: {"check", "check step", "commit"}, actor: Users,
     case: Cases, step: StepId \cup {None}]
LinkRequest ==
    [op: {"link"}, pc: {"check", "check link", "commit"}, actor: Users,
     case: Cases, requirement: Requirements]
\* seen is history: the comments there were when the steps were read.
ReadRequest ==
    [op: {"read"}, pc: {"rows"}, only: SUBSET Cases, under: Folders \cup {None, Absent},
     archived: BOOLEAN]
    \cup [op: {"read"}, pc: {"steps", "comments", "links"}, found: SUBSET Cases,
          steps: [Cases -> Seq(Step)], seen: SUBSET Requests]

AnyRequest == {Idle, Settled} \cup FolderRequest \cup SaveRequest
    \cup ArchiveRequest \cup CommentRequest \cup LinkRequest \cup ReadRequest

Init ==
    /\ folder = [f \in Folders |-> IF f \in SeedFolders THEN None ELSE Absent]
    /\ case = [c \in Cases |->
                 IF c \in SeedCases
                 THEN [folder |-> None, title |-> None, archived |-> FALSE]
                 ELSE None]
    /\ steps = [c \in Cases |->
                  IF c \in SeedCases
                  THEN [i \in 1..SeedSteps[c] |-> [id |-> <<c, i>>]]
                  ELSE <<>>]
    /\ comment = [r \in Requests |-> None]
    /\ linked = SeedLinks
    /\ caseLog = <<>>
    /\ linkLog = <<>>
    /\ req = [r \in Requests |-> Idle]

-----------------------------------------------------------------------------
(* Helpers *)

Contributor == 2
Viewer == 1

\* assertMinProjectRole.
Authorized(u, min) == Level[u] >= min

Ids(list) == {list[i].id : i \in DOMAIN list}

Settle(r) == req' = [req EXCEPT ![r] = Settled]
Goto(r, pc) == req' = [req EXCEPT ![r].pc = pc]

\* localStepsToReal, and the ids the server gives to the steps sent without one.
\* old is the list the form was opened on.
Sent(r, places, old) ==
    [i \in DOMAIN places |->
        [id |-> IF places[i] \in DOMAIN old THEN old[places[i]].id ELSE <<r, i>>]]

\* localCaseToCreateBody and localCasePatchToUpdateBody.
Body(r, e) ==
    [folder |-> e.folder, title |-> IF e.title THEN r ELSE Absent,
     archived |-> e.archived]
Nothing == [folder |-> Absent, title |-> Absent, archived |-> Absent]

\* updateCase deletes the steps of the case and inserts those sent, if any are.
Replaced(list, sent) == IF sent = Absent THEN list ELSE sent

\* Mutant: a field left out is written too.
PatchedAll(row, set) ==
    [row EXCEPT !.folder = IF set.folder = Absent THEN None ELSE set.folder,
                !.title = IF set.title = Absent THEN row.title ELSE set.title,
                !.archived = IF set.archived = Absent THEN row.archived
                             ELSE set.archived]

\* UPDATE test_cases SET the fields of the patch.
Patched(row, set) ==
    [folder |-> IF set.folder = Absent THEN row.folder ELSE set.folder,
     title |-> IF set.title = Absent THEN row.title ELSE set.title,
     archived |-> IF set.archived = Absent THEN row.archived ELSE set.archived]

\* Mutant: a comment on a step that is replaced moves to the last of the new ones.
UnanchoredMoved(c, sent) ==
    IF sent = Absent THEN comment
    ELSE [r \in Requests |->
            IF comment[r] # None /\ comment[r].step \in Ids(steps[c])
            THEN [comment[r] EXCEPT !.step = IF sent = <<>> THEN None
                                             ELSE sent[Len(sent)].id]
            ELSE comment[r]]

\* DELETE FROM test_case_steps: the foreign key of the comments on them is set
\* to NULL, though the step may come back with the same id.
Unanchored(c, sent) ==
    IF sent = Absent THEN comment
    ELSE [r \in Requests |->
            IF comment[r] # None /\ comment[r].step \in Ids(steps[c])
            THEN [comment[r] EXCEPT !.step = None]
            ELSE comment[r]]

Logged(c, action, u, set) ==
    Append(caseLog, [case |-> c, action |-> action, actor |-> u, set |-> set])

-----------------------------------------------------------------------------
(* Folders *)

PostFolder(r) ==
    /\ req[r] = Idle
    /\ \E u \in Users, p \in Folders \cup {None} :
          req' = [req EXCEPT ![r] = [op |-> "folder", pc |-> "check",
                                     actor |-> u, parent |-> p]]
    /\ UNCHANGED <<folder, case, steps, comment, linked, caseLog, linkLog>>

CheckFolder(r) ==
    /\ req[r].op = "folder" /\ req[r].pc = "check"
    /\ IF Authorized(req[r].actor, Contributor)
          /\ (req[r].parent # None => folder[req[r].parent] # Absent)
       THEN Goto(r, "insert")
       ELSE Settle(r)
    /\ UNCHANGED <<folder, case, steps, comment, linked, caseLog, linkLog>>

InsertFolder(r) ==
    /\ req[r].op = "folder" /\ req[r].pc = "insert"
    /\ folder' = [folder EXCEPT ![r] = req[r].parent]
    /\ Settle(r)
    /\ UNCHANGED <<case, steps, comment, linked, caseLog, linkLog>>

-----------------------------------------------------------------------------
(* Cases *)

\* POST /cases, from the form of a new case: no field is left out.
PostCase(r) ==
    /\ req[r] = Idle
    /\ \E u \in Users, e \in Edits :
          /\ e.folder # Absent /\ e.steps # Absent
          /\ req' = [req EXCEPT ![r] =
                [op |-> "create", pc |-> "check", actor |-> u, case |-> r,
                 fields |-> [folder |-> e.folder, title |-> r, archived |-> FALSE],
                 steps |-> Sent(r, e.steps, <<>>)]]
    /\ UNCHANGED <<folder, case, steps, comment, linked, caseLog, linkLog>>

\* PATCH /cases/:id, from a form opened on the steps the case has now.
PatchCase(r) ==
    /\ req[r] = Idle
    /\ \E u \in Users, c \in Cases, e \in Edits :
          /\ Body(r, e) # Nothing \/ e.steps # Absent
          /\ req' = [req EXCEPT ![r] =
                [op |-> "update", pc |-> "check", actor |-> u, case |-> c,
                 fields |-> Body(r, e),
                 steps |-> IF e.steps = Absent THEN Absent
                           ELSE Sent(r, e.steps, steps[c])]]
    /\ UNCHANGED <<folder, case, steps, comment, linked, caseLog, linkLog>>

\* The folder named, if one is, has a row.
FolderFound(f) == f \in Folders => folder[f] # Absent

CheckSave(r) ==
    /\ req[r].op \in {"create", "update"} /\ req[r].pc = "check"
    /\ IF /\ Authorized(req[r].actor, Contributor)
          /\ req[r].op = "update" => case[req[r].case] # None
          /\ FolderFound(req[r].fields.folder)
       THEN Goto(r, "commit")
       ELSE Settle(r)
    /\ UNCHANGED <<folder, case, steps, comment, linked, caseLog, linkLog>>

\* The handler goes on to read the case it has written (getCase).
ReadBack(c) == [op |-> "read", pc |-> "rows", only |-> {c}, under |-> Absent,
                archived |-> TRUE]

CommitCreate(r) ==
    /\ req[r].op = "create" /\ req[r].pc = "commit"
    /\ case' = [case EXCEPT ![r] = req[r].fields]
    /\ steps' = [steps EXCEPT ![r] = req[r].steps]
    /\ caseLog' = Logged(r, "case.created", req[r].actor, req[r].fields)
    /\ req' = [req EXCEPT ![r] = ReadBack(r)]
    /\ UNCHANGED <<folder, comment, linked, linkLog>>

CommitUpdate(r) ==
    LET h == req[r] IN
    /\ h.op = "update" /\ h.pc = "commit"
    /\ case' = [case EXCEPT ![h.case] = Patched(@, h.fields)]
    /\ steps' = [steps EXCEPT ![h.case] = Replaced(@, h.steps)]
    /\ comment' = Unanchored(h.case, h.steps)
    /\ caseLog' = Logged(h.case, "case.updated", h.actor, h.fields)
    /\ req' = [req EXCEPT ![r] = ReadBack(h.case)]
    /\ UNCHANGED <<folder, linked, linkLog>>

DeleteCase(r) ==
    /\ req[r] = Idle
    /\ \E u \in Users, c \in Cases :
          req' = [req EXCEPT ![r] = [op |-> "archive", pc |-> "check",
                                     actor |-> u, case |-> c]]
    /\ UNCHANGED <<folder, case, steps, comment, linked, caseLog, linkLog>>

CheckArchive(r) ==
    /\ req[r].op = "archive" /\ req[r].pc = "check"
    /\ IF Authorized(req[r].actor, Contributor) /\ case[req[r].case] # None
       THEN Goto(r, "write")
       ELSE Settle(r)
    /\ UNCHANGED <<folder, case, steps, comment, linked, caseLog, linkLog>>

WriteArchived(r) ==
    /\ req[r].op = "archive" /\ req[r].pc = "write"
    /\ case' = [case EXCEPT ![req[r].case].archived = TRUE]
    /\ Goto(r, "audit")
    /\ UNCHANGED <<folder, steps, comment, linked, caseLog, linkLog>>

AuditArchived(r) ==
    /\ req[r].op = "archive" /\ req[r].pc = "audit"
    /\ caseLog' = Logged(req[r].case, "case.archived", req[r].actor,
                         [Nothing EXCEPT !.archived = TRUE])
    /\ Settle(r)
    /\ UNCHANGED <<folder, case, steps, comment, linked, linkLog>>

-----------------------------------------------------------------------------
(* Comments *)

\* A comment is typed on the case, or on a step of it that the screen shows.
PostComment(r) ==
    /\ req[r] = Idle
    /\ \E u \in Users, c \in Cases : \E s \in Ids(steps[c]) \cup {None} :
          req' = [req EXCEPT ![r] = [op |-> "comment", pc |-> "check",
                                     actor |-> u, case |-> c, step |-> s]]
    /\ UNCHANGED <<folder, case, steps, comment, linked, caseLog, linkLog>>

CheckCommented(r) ==
    /\ req[r].op = "comment" /\ req[r].pc = "check"
    /\ IF Authorized(req[r].actor, Contributor) /\ case[req[r].case] # None
       THEN Goto(r, IF req[r].step = None THEN "commit" ELSE "check step")
       ELSE Settle(r)
    /\ UNCHANGED <<folder, case, steps, comment, linked, caseLog, linkLog>>

CheckStep(r) ==
    /\ req[r].op = "comment" /\ req[r].pc = "check step"
    /\ IF req[r].step \in Ids(steps[req[r].case]) THEN Goto(r, "commit") ELSE Settle(r)
    /\ UNCHANGED <<folder, case, steps, comment, linked, caseLog, linkLog>>

\* Mutant: the foreign key is not there.
ReferencesAny(s) == TRUE

\* The foreign key of test_case_step_id: some case has such a step.
References(s) == s = None \/ \E c \in Cases : s \in Ids(steps[c])

CommitComment(r) ==
    LET h == req[r] IN
    /\ h.op = "comment" /\ h.pc = "commit"
    /\ References(h.step)
    /\ comment' = [comment EXCEPT ![r] = [case |-> h.case, step |-> h.step,
                                          author |-> h.actor]]
    /\ caseLog' = Logged(h.case, "case_comment.created", h.actor, Nothing)
    /\ Settle(r)
    /\ UNCHANGED <<folder, case, steps, linked, linkLog>>

-----------------------------------------------------------------------------
(* Requirement links *)

PostLink(r) ==
    /\ req[r] = Idle
    /\ \E u \in Users, c \in Cases, q \in Requirements :
          req' = [req EXCEPT ![r] = [op |-> "link", pc |-> "check", actor |-> u,
                                     case |-> c, requirement |-> q]]
    /\ UNCHANGED <<folder, case, steps, comment, linked, caseLog, linkLog>>

CheckLinkedCase(r) ==
    /\ req[r].op = "link" /\ req[r].pc = "check"
    /\ IF Authorized(req[r].actor, Contributor) /\ case[req[r].case] # None
       THEN Goto(r, "check link")
       ELSE Settle(r)
    /\ UNCHANGED <<folder, case, steps, comment, linked, caseLog, linkLog>>

CheckLink(r) ==
    /\ req[r].op = "link" /\ req[r].pc = "check link"
    /\ IF <<req[r].case, req[r].requirement>> \in linked
       THEN Settle(r)
       ELSE Goto(r, "commit")
    /\ UNCHANGED <<folder, case, steps, comment, linked, caseLog, linkLog>>

\* Mutant: a duplicate is written over, and audited again.
UniqueNot(pair) == TRUE

\* The unique key of case_requirements.
Unique(pair) == pair \notin linked

CommitLink(r) ==
    LET pair == <<req[r].case, req[r].requirement>> IN
    /\ req[r].op = "link" /\ req[r].pc = "commit"
    /\ Unique(pair)
    /\ linked' = linked \cup {pair}
    /\ linkLog' = Append(linkLog, pair)
    /\ Settle(r)
    /\ UNCHANGED <<folder, case, steps, comment, caseLog>>

-----------------------------------------------------------------------------
(* Failures and reads *)

\* A statement fails, its transaction is rolled back, or the process ends: the
\* handler goes no further.  (A foreign or unique key that refuses a commit is
\* one of the reasons; for a link it is answered as a link already there.)
Abandon(r) ==
    /\ req[r].pc \notin {"idle", "settled", "unaudited"}
    /\ IF req[r].op = "archive" /\ req[r].pc = "audit"
       THEN Goto(r, "unaudited")
       ELSE Settle(r)
    /\ UNCHANGED <<folder, case, steps, comment, linked, caseLog, linkLog>>

\* GET /cases, of one folder, of no folder (None) or of the project (Absent).
GetCases(r) ==
    /\ req[r] = Idle
    /\ \E f \in Folders \cup {None, Absent}, a \in BOOLEAN :
          req' = [req EXCEPT ![r] = [op |-> "read", pc |-> "rows", only |-> Cases,
                                     under |-> f, archived |-> a]]
    /\ UNCHANGED <<folder, case, steps, comment, linked, caseLog, linkLog>>

GetCase(r) ==
    /\ req[r] = Idle
    /\ \E c \in Cases : req' = [req EXCEPT ![r] = ReadBack(c)]
    /\ UNCHANGED <<folder, case, steps, comment, linked, caseLog, linkLog>>

\* resolveFolderAndDescendantIds: the queue takes in the children of what it
\* holds until no folder is left.
Below(f) ==
    LET level[n \in 0..Cardinality(Folders)] ==
          IF n = 0 THEN {f}
          ELSE level[n - 1] \cup {g \in Folders : folder[g] \in level[n - 1]}
    IN level[Cardinality(Folders)]

Listed(h) ==
    {c \in h.only : /\ case[c] # None
                    /\ case[c].archived => h.archived
                    /\ CASE h.under = Absent -> TRUE
                         [] h.under = None -> case[c].folder = None
                         [] OTHER -> case[c].folder \in Below(h.under)}

ReadRows(r) ==
    /\ req[r].op = "read" /\ req[r].pc = "rows"
    /\ IF Listed(req[r]) = {}
       THEN Settle(r)
       ELSE req' = [req EXCEPT ![r] =
                      [op |-> "read", pc |-> "steps", found |-> Listed(req[r]),
                       steps |-> [c \in Cases |-> <<>>], seen |-> {}]]
    /\ UNCHANGED <<folder, case, steps, comment, linked, caseLog, linkLog>>

ReadSteps(r) ==
    /\ req[r].op = "read" /\ req[r].pc = "steps"
    /\ req' = [req EXCEPT ![r] =
                 [@ EXCEPT !.pc = "comments",
                           !.steps = [c \in Cases |-> IF c \in req[r].found
                                                      THEN steps[c] ELSE <<>>],
                           !.seen = {q \in Requests : comment[q] # None}]]
    /\ UNCHANGED <<folder, case, steps, comment, linked, caseLog, linkLog>>

CommentsOf(c) == {q \in Requests : comment[q] # None /\ comment[q].case = c}

\* realCaseToLocal: the comments that the screen shows of those found, on the
\* case or on a step of the list.
Visible(list, found) ==
    {q \in found : comment[q].step = None \/ comment[q].step \in Ids(list)}

\* loadCaseComments.
ReadComments(r) ==
    /\ req[r].op = "read" /\ req[r].pc = "comments"
    /\ Goto(r, "links")
    /\ UNCHANGED <<folder, case, steps, comment, linked, caseLog, linkLog>>

\* loadRequirementIdsByCase, and the answer.
ReadLinks(r) ==
    /\ req[r].op = "read" /\ req[r].pc = "links"
    /\ Settle(r)
    /\ UNCHANGED <<folder, case, steps, comment, linked, caseLog, linkLog>>

Next ==
    \E r \in Requests :
        \/ PostFolder(r) \/ CheckFolder(r) \/ InsertFolder(r)
        \/ PostCase(r) \/ PatchCase(r) \/ CheckSave(r)
        \/ CommitCreate(r) \/ CommitUpdate(r)
        \/ DeleteCase(r) \/ CheckArchive(r) \/ WriteArchived(r) \/ AuditArchived(r)
        \/ PostComment(r) \/ CheckCommented(r) \/ CheckStep(r) \/ CommitComment(r)
        \/ PostLink(r) \/ CheckLinkedCase(r) \/ CheckLink(r) \/ CommitLink(r)
        \/ GetCases(r) \/ GetCase(r)
        \/ ReadRows(r) \/ ReadSteps(r) \/ ReadComments(r) \/ ReadLinks(r)
        \/ Abandon(r)

Spec == Init /\ [][Next]_vars

-----------------------------------------------------------------------------
(* Properties *)

\* Rows, links, audit rows and requests are what the code declares; and every
\* comment of a case can be shown, being on the case or on a step the case has,
\* whatever saves have replaced the steps between the checks of addCaseComment
\* and its insertion.
TypeOK ==
    /\ folder \in [Folders -> Folders \cup {None, Absent}]
    /\ case \in [Cases -> {None} \cup CaseRow]
    /\ steps \in [Cases -> Seq(Step)]
    /\ comment \in [Requests -> {None} \cup CommentRow]
    /\ linked \subseteq Cases \X Requirements
    /\ caseLog \in Seq(LogRow)
    /\ linkLog \in Seq(Cases \X Requirements)
    /\ req \in [Requests -> AnyRequest]
    /\ \A c \in Cases : Visible(steps[c], CommentsOf(c)) = CommentsOf(c)

\* The steps and the comments of a list are read by separate statements
\* (TestCaseService.ts:488-509), and realCaseToLocal drops a comment whose step
\* is not in the list.  Whatever saves have replaced the steps in between, it
\* drops no comment that was there when the steps were read: one whose step is
\* gone has lost it (ON DELETE SET NULL) and is shown with the case.
ReadHidesOnlyNew ==
    [][\A r \in Requests : ReadComments(r) =>
         \A c \in req[r].found :
            CommentsOf(c) \cap req[r].seen
                \subseteq Visible(req[r].steps[c], CommentsOf(c))]_vars

\* The rows of the audit log that set field f of case c.
Sets(c, f) ==
    {i \in DOMAIN caseLog : caseLog[i].case = c /\ caseLog[i].set[f] # Absent}

\* Read in order, the audit log of a case gives its folder and title, whatever
\* the handlers knew of the row; and an archived case is logged so, unless
\* archiveCase stands, or has stopped, between its two statements.
AuditReplaysCases ==
    \A c \in Cases : case[c] # None =>
        /\ \A f \in {"folder", "title"} :
              \A i \in Sets(c, f) :
                  (\A j \in Sets(c, f) : j <= i) => caseLog[i].set[f] = case[c][f]
        /\ case[c].archived =>
              \/ \E i \in Sets(c, "archived") : caseLog[i].set.archived
              \/ \E r \in Requests : /\ req[r].op = "archive" /\ req[r].case = c
                                     /\ req[r].pc \in {"audit", "unaudited"}

\* Links are a set that grows one logged pair at a time, however many requests
\* pass the check for the same pair (RequirementService.ts:383-412).
Links == INSTANCE AuditedSet
           WITH Elements <- Cases \X Requirements, Given <- SeedLinks,
                members <- linked, log <- linkLog
LinksAudited == Links!Spec
=============================================================================
