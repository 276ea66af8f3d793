--------------------------- MODULE ClientRecording ---------------------------
(***************************************************************************)
(* What a browser shows of a run case while results are recorded.          *)
(*                                                                         *)
(* FreshProvider keeps a copy of the project in the browser.  A write      *)
(* waits for the server before the copy changes, except updateExecution,   *)
(* which changes it first and rolls back if the POST rejects.  The copy is *)
(* refreshed by a sync of several reads when a project is opened.  Calls   *)
(* overlap and are answered in any order; a connection can be lost while   *)
(* the server goes on, and the page be reloaded.                           *)
(*                                                                         *)
(* One browser and one run with one case of one step are modelled; other   *)
(* people are the two actions Elsewhere and ElsewhereSeal.  The server's   *)
(* handlers are those of RunExecution, reduced to what a browser can tell: *)
(* a result is refused when the run is read as sealed.  Somebody else's    *)
(* write is one step: it has its own handler, and may land whenever.       *)
(***************************************************************************)
EXTENDS Naturals

CONSTANTS
    Calls,         \* one HTTP call each, the browser's or somebody else's
    Statuses,      \* of cases and steps; the screen's names are one to one
    Notes,         \* contents of the comment column, None and "" among them
    None,          \* SQL NULL, a missing key or entry
    Absent         \* a field left out of a request

\* A CaseExecution; step "not_run" stands for a missing key of stepResults.
Exec == [status: Statuses, notes: Notes, step: Statuses]

ASSUME ClientAssumption ==
    /\ "not_run" \in Statuses
    /\ {None, ""} \subseteq Notes
    /\ None # ""
    /\ None \notin Exec
    /\ Absent \notin Statuses \cup Notes

VARIABLES
    sealed,        \* test_runs.status = 'sealed'
    row,           \* test_run_cases: status, comment; run_step_results: status
    screen,        \* the browser's copy of the run and its execution entry
    call,          \* calls in flight
    doubt          \* history: the screen may be wrong, for a reason named below

vars == <<sealed, row, screen, call, doubt>>

-----------------------------------------------------------------------------
(* Data *)

Blank == [status |-> "not_run", notes |-> None, step |-> "not_run"]

\* What the screen shows for an entry or its absence.
Shown(exec) == IF exec = None THEN Blank ELSE exec

\* An empty comment and none look alike, and a sync makes them so.
Seen(exec) == [Shown(exec) EXCEPT !.notes = IF @ = "" THEN None ELSE @]

\* The text area for the notes starts from them.
Draft(notes) == IF notes = None THEN "" ELSE notes

\* mapped: the ids that writes are addressed by.  A reload forgets them, a
\* sync brings them all, creating a run brings those of its cases only.
Screen == [sealed: BOOLEAN, exec: {None} \cup Exec,
           mapped: {"none", "cases", "all"}]

Idle == [op |-> "none", pc |-> "idle"]
Settled == [op |-> "none", pc |-> "settled"]

\* open: the browser still waits for the answer and will act on it.
\* prev: the entry to roll back to.  crossed: history, something has changed
\* since the sync started.
ResultCall ==
    [op: {"result"}, pc: {"sent", "checked", "ok", "refused"}, open: BOOLEAN,
     status: Statuses, notes: {Absent} \cup Notes, prev: {None} \cup Exec]
StepCall ==
    [op: {"step"}, pc: {"sent", "checked", "ok", "refused"}, open: BOOLEAN,
     status: Statuses]
SealCall ==
    [op: {"seal"}, pc: {"sent", "checked", "ok", "refused"}, open: BOOLEAN,
     sealed: BOOLEAN]
SyncCall ==
    [op: {"sync"}, pc: {"sent", "runs", "cases", "ok"}, sealed: BOOLEAN,
     read: Exec, crossed: BOOLEAN]

Call == {Idle, Settled} \cup ResultCall \cup StepCall \cup SealCall \cup SyncCall

TypeOK ==
    /\ sealed \in BOOLEAN
    /\ row \in Exec
    /\ screen \in Screen
    /\ call \in [Calls -> Call]
    /\ doubt \in BOOLEAN

\* A run just created, on the screen that created it or on one that has
\* synchronised since.
Init ==
    /\ sealed = FALSE
    /\ row = Blank
    /\ screen \in [sealed: {FALSE}, exec: {None}, mapped: {"cases", "all"}]
    /\ call = [k \in Calls |-> Idle]
    /\ doubt = FALSE

-----------------------------------------------------------------------------
(* Helpers *)

\* A result is still being answered or, unheard, processed.
Busy == \E k \in Calls : call[k].op \in {"result", "step"}

\* Mutant: a comment that is not sent is written all the same.
StoredUnsent(h) ==
    IF h.op = "step" THEN [row EXCEPT !.step = h.status]
    ELSE [row EXCEPT !.status = h.status, !.notes = h.notes]

\* What the server makes of the row.
Stored(h) ==
    IF h.op = "step" THEN [row EXCEPT !.step = h.status]
    ELSE [row EXCEPT !.status = h.status,
                     !.notes = IF h.notes = Absent THEN @ ELSE h.notes]

\* UPDATE_RUN_EXECUTION: a sealed run is left as it is.
Updated(exec) == IF screen.sealed THEN screen ELSE [screen EXCEPT !.exec = exec]

\* { ...prev, ...prevExecution }: a note is overwritten but never removed.
RolledBack(prev) ==
    Updated([status |-> Shown(prev).status,
             notes |-> IF Shown(prev).notes = None THEN Shown(screen.exec).notes
                       ELSE Shown(prev).notes,
             step |-> Shown(prev).step])

\* Mutant: the local entry, where there is one, wins.
MergedLocal(h) ==
    [sealed |-> h.sealed, mapped |-> "all",
     exec |-> IF screen.exec # None \/ Seen(h.read) = Blank THEN screen.exec
              ELSE Seen(h.read)]

\* realRunToLocal leaves out a case without a result, and
\* mergeLocalOnlyRunFields keeps the local entry where there is none.
Merged(h) ==
    [sealed |-> h.sealed, mapped |-> "all",
     exec |-> IF Seen(h.read) = Blank THEN screen.exec ELSE Seen(h.read)]

\* A change crosses the syncs in flight.
Crossed ==
    [k \in Calls |-> IF call[k].op = "sync"
                     THEN [call[k] EXCEPT !.crossed = TRUE] ELSE call[k]]

\* The server is done with call k; nobody may be waiting for it any more.
Answered(k, outcome) ==
    IF call[k].open THEN [call[k] EXCEPT !.pc = outcome] ELSE Settled

\* The browser is done with call k; the server may not be, unless it reads.
Closed(k) ==
    IF call[k].op = "sync" \/ call[k].pc \in {"ok", "refused"} THEN Settled
    ELSE [call[k] EXCEPT !.open = FALSE]

-----------------------------------------------------------------------------
(* The screen: updateExecution, sealRun and unsealRun, sync, reload *)

\* A status, or notes with the status the screen happens to show.
RecordResult(k) ==
    /\ call[k] = Idle
    /\ ~screen.sealed
    /\ LET now == Shown(screen.exec)
           Send(s, n) ==
              /\ screen' = Updated([now EXCEPT !.status = s,
                                               !.notes = IF n = Absent THEN @ ELSE n])
              /\ call' = IF screen.mapped = "none" THEN Crossed
                         ELSE [Crossed EXCEPT ![k] =
                                 [op |-> "result", pc |-> "sent", open |-> TRUE,
                                  status |-> s, notes |-> n,
                                  prev |-> screen.exec]]
       IN \/ \E s \in Statuses : Send(s, Absent)
          \/ \E n \in Notes \ {None, Draft(now.notes)} : Send(now.status, n)
    /\ doubt' = (doubt \/ Busy \/ screen.mapped = "none")
    /\ UNCHANGED <<sealed, row>>

\* setStepR; a step is never set back, and is posted when it differs.
RecordStep(k) ==
    /\ call[k] = Idle
    /\ ~screen.sealed
    /\ \E s \in Statuses \ {"not_run", Shown(screen.exec).step} :
          /\ screen' = Updated([Shown(screen.exec) EXCEPT !.step = s])
          /\ call' = IF screen.mapped # "all" THEN Crossed
                     ELSE [Crossed EXCEPT ![k] =
                             [op |-> "step", pc |-> "sent", open |-> TRUE,
                              status |-> s]]
    /\ doubt' = (doubt \/ Busy \/ screen.mapped # "all")
    /\ UNCHANGED <<sealed, row>>

\* pushRunStatus: the screen waits.
ToggleSeal(k) ==
    /\ call[k] = Idle
    /\ call' = [call EXCEPT ![k] = [op |-> "seal", pc |-> "sent", open |-> TRUE,
                                    sealed |-> ~screen.sealed]]
    /\ UNCHANGED <<sealed, row, screen, doubt>>

\* The project is opened, once more: a sync under way is cancelled.
Sync(k) ==
    /\ call[k] = Idle
    /\ call' = [j \in Calls |->
                  IF j = k
                  THEN [op |-> "sync", pc |-> "sent", sealed |-> FALSE,
                        read |-> Blank, crossed |-> FALSE]
                  ELSE IF call[j].op = "sync" THEN Settled ELSE call[j]]
    /\ UNCHANGED <<sealed, row, screen, doubt>>

\* The entries come back from local storage, the ids and calls do not.
Reload ==
    /\ screen' = [screen EXCEPT !.mapped = "none"]
    /\ call' = [k \in Calls |->
                  IF call[k] \in {Idle, Settled} THEN call[k] ELSE Closed(k)]
    /\ doubt' = (doubt \/ Busy)
    /\ UNCHANGED <<sealed, row>>

-----------------------------------------------------------------------------
(* The server *)

CheckRun(k) ==
    /\ call[k].op \in {"result", "step"}
    /\ call[k].pc = "sent"
    /\ call' = [call EXCEPT ![k] =
                  IF sealed THEN Answered(k, "refused")
                  ELSE [call[k] EXCEPT !.pc = "checked"]]
    /\ UNCHANGED <<sealed, row, screen, doubt>>

Commit(k) ==
    /\ call[k].op \in {"result", "step"}
    /\ call[k].pc = "checked"
    /\ row' = Stored(call[k])
    /\ call' = [Crossed EXCEPT ![k] = Answered(k, "ok")]
    /\ UNCHANGED <<sealed, screen, doubt>>

\* updateRun answers at once when the status it reads is the one asked for.
CheckSeal(k) ==
    /\ call[k].op = "seal"
    /\ call[k].pc = "sent"
    /\ call' = [call EXCEPT ![k] =
                  IF sealed = call[k].sealed THEN Answered(k, "ok")
                  ELSE [call[k] EXCEPT !.pc = "checked"]]
    /\ UNCHANGED <<sealed, row, screen, doubt>>

CommitSeal(k) ==
    /\ call[k].op = "seal"
    /\ call[k].pc = "checked"
    /\ sealed' = call[k].sealed
    /\ call' = [call EXCEPT ![k] = Answered(k, "ok")]
    /\ UNCHANGED <<row, screen, doubt>>

\* A failed statement, a rolled back transaction, a crash.
ServerFail(k) ==
    /\ call[k].op \in {"result", "step", "seal"}
    /\ call[k].pc \in {"sent", "checked"}
    /\ call' = [call EXCEPT ![k] = Answered(k, "refused")]
    /\ UNCHANGED <<sealed, row, screen, doubt>>

\* listProjectRuns reads the runs, then their cases, then the step results.
ReadRuns(k) ==
    /\ call[k].op = "sync"
    /\ call[k].pc = "sent"
    /\ call' = [call EXCEPT ![k] = [@ EXCEPT !.pc = "runs", !.sealed = sealed]]
    /\ UNCHANGED <<sealed, row, screen, doubt>>

ReadCases(k) ==
    /\ call[k].op = "sync"
    /\ call[k].pc = "runs"
    /\ call' = [call EXCEPT ![k] =
                  [@ EXCEPT !.pc = "cases", !.read.status = row.status,
                            !.read.notes = row.notes]]
    /\ UNCHANGED <<sealed, row, screen, doubt>>

ReadSteps(k) ==
    /\ call[k].op = "sync"
    /\ call[k].pc = "cases"
    /\ call' = [call EXCEPT ![k] = [@ EXCEPT !.pc = "ok", !.read.step = row.step]]
    /\ UNCHANGED <<sealed, row, screen, doubt>>

\* Somebody else's result, a call of theirs; the browser is not told.
Elsewhere(k) ==
    /\ call[k] = Idle
    /\ \/ \E s \in Statuses, n \in Notes :
             row' = [row EXCEPT !.status = s, !.notes = n]
       \/ \E s \in Statuses : row' = [row EXCEPT !.step = s]
    /\ row' # row
    /\ call' = [Crossed EXCEPT ![k] = Settled]
    /\ doubt' = TRUE
    /\ UNCHANGED <<sealed, screen>>

ElsewhereSeal(k) ==
    /\ call[k] = Idle
    /\ sealed' = ~sealed
    /\ call' = [call EXCEPT ![k] = Settled]
    /\ UNCHANGED <<row, screen, doubt>>

-----------------------------------------------------------------------------
(* Answers *)

\* A result that is accepted was on the screen already.
ResultAccepted(k) ==
    /\ call[k].op \in {"result", "step"}
    /\ call[k].pc = "ok"
    /\ call' = [call EXCEPT ![k] = Settled]
    /\ UNCHANGED <<sealed, row, screen, doubt>>

\* The server refused, or the connection is lost and it goes on by itself.
ResultRejected(k) ==
    /\ call[k].op = "result"
    /\ call[k].open
    /\ screen' = RolledBack(call[k].prev)
    /\ call' = [Crossed EXCEPT ![k] = Closed(k)]
    /\ doubt' = (\/ doubt
                 \/ call[k].pc # "refused"
                 \/ Seen(screen'.exec) # Seen(call[k].prev))
    /\ UNCHANGED <<sealed, row>>

\* A step result is not rolled back.
StepRejected(k) ==
    /\ call[k].op = "step"
    /\ call[k].open
    /\ call' = [call EXCEPT ![k] = Closed(k)]
    /\ doubt' = TRUE
    /\ UNCHANGED <<sealed, row, screen>>

SealAccepted(k) ==
    /\ call[k].op = "seal"
    /\ call[k].pc = "ok"
    /\ screen' = [screen EXCEPT !.sealed = call[k].sealed]
    /\ call' = [call EXCEPT ![k] = Settled]
    /\ UNCHANGED <<sealed, row, doubt>>

SealRejected(k) ==
    /\ call[k].op = "seal"
    /\ call[k].open
    /\ call' = [call EXCEPT ![k] = Closed(k)]
    /\ UNCHANGED <<sealed, row, screen, doubt>>

\* SYNC_REAL_PROJECT_DATA.  A sync that nothing crossed, and that finds
\* something, ends every doubt.
SyncAccepted(k) ==
    /\ call[k].op = "sync"
    /\ call[k].pc = "ok"
    /\ screen' = Merged(call[k])
    /\ doubt' = IF call[k].crossed \/ Busy THEN TRUE
                ELSE doubt /\ Seen(call[k].read) = Blank
    /\ call' = [call EXCEPT ![k] = Settled]
    /\ UNCHANGED <<sealed, row>>

SyncRejected(k) ==
    /\ call[k].op = "sync"
    /\ call' = [call EXCEPT ![k] = Settled]
    /\ UNCHANGED <<sealed, row, screen, doubt>>

Next ==
    \/ \E k \in Calls :
          \/ RecordResult(k) \/ RecordStep(k) \/ ToggleSeal(k) \/ Sync(k)
          \/ CheckRun(k) \/ Commit(k) \/ CheckSeal(k) \/ CommitSeal(k)
          \/ ServerFail(k)
          \/ ReadRuns(k) \/ ReadCases(k) \/ ReadSteps(k)
          \/ ResultAccepted(k) \/ ResultRejected(k) \/ StepRejected(k)
          \/ SealAccepted(k) \/ SealRejected(k)
          \/ SyncAccepted(k) \/ SyncRejected(k)
          \/ Elsewhere(k) \/ ElsewhereSeal(k)
    \/ Reload

Spec == Init /\ [][Next]_vars

-----------------------------------------------------------------------------
(* Properties *)

\* A screen that waits for nothing shows what the server has, unless since a
\* sync put it right: results of its own overlapped; one had no id to be
\* sent to; a connection was lost; a step was refused, or a rollback
\* restored less than all; somebody else recorded; a sync was crossed by a
\* result (FreshProvider.tsx:1673-1731, 319-338).
QuietScreenAgrees == ~doubt /\ ~Busy => Seen(screen.exec) = Seen(row)
=============================================================================
