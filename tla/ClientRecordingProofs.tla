------------------------ MODULE ClientRecordingProofs ------------------------
(***************************************************************************)
(* A quiet screen agrees with the server, for any number of calls, any     *)
(* statuses and any notes.  The types come first, then what a sync has     *)
(* read (SyncExact), then how far a result puts the screen ahead of the    *)
(* row (OneAhead).                                                         *)
(***************************************************************************)
EXTENDS ClientRecording, TLAPS

-----------------------------------------------------------------------------
(* The inductive invariant *)

Writing(h) == h.op \in {"result", "step"}

\* While nothing is in doubt, a result in flight is the only one, the browser
\* waits for it, and the screen is ahead of the row by that result.
Ahead(k) ==
    /\ call[k].open
    /\ \A j \in Calls : Writing(call[j]) => j = k
    /\ call[k].pc = "ok" => Seen(screen.exec) = Seen(row)
    /\ call[k].pc # "ok" => Seen(screen.exec) = Seen(Stored(call[k]))
    /\ call[k].pc # "ok" /\ call[k].op = "result" =>
          Seen(call[k].prev) = Seen(row)

OneAhead == ~doubt => \A k \in Calls : Writing(call[k]) => Ahead(k)

\* What a sync that nothing crossed has read is what the row still is.
Exact(h) ==
    /\ h.pc \in {"cases", "ok"} => /\ h.read.status = row.status
                                   /\ h.read.notes = row.notes
    /\ h.pc = "ok" => h.read.step = row.step

SyncExact == \A k \in Calls : call[k].op = "sync" /\ ~call[k].crossed => Exact(call[k])

IInv == TypeOK /\ QuietScreenAgrees /\ OneAhead /\ SyncExact

-----------------------------------------------------------------------------
(* Calls by what they are for *)

\* A call has the fields of its operation.
LEMMA CallKinds ==
    ASSUME NEW h \in Call
    PROVE  /\ h.op = "result" => h \in ResultCall
           /\ h.op = "step" => h \in StepCall
           /\ h.op = "seal" => h \in SealCall
           /\ h.op = "sync" => h \in SyncCall
           /\ h.op \notin {"result", "step", "seal", "sync"} => h \in {Idle, Settled}
BY DEF Call, ResultCall, StepCall, SealCall, SyncCall, Idle, Settled

\* Calls that have ended are for nothing.
LEMMA EndedCalls ==
    /\ Idle \in Call /\ Settled \in Call
    /\ Idle.op = "none" /\ Settled.op = "none"
BY DEF Call, Idle, Settled

\* A write to the server moves on, and remains the same write.
LEMMA MovedType ==
    ASSUME NEW h \in Call, h.op \in {"result", "step", "seal"},
           NEW pc \in {"sent", "checked", "ok", "refused"}
    PROVE  /\ [h EXCEPT !.pc = pc] \in Call
           /\ [h EXCEPT !.pc = pc].op = h.op
<1>1. CASE h.op = "result"
  <2>1. h \in ResultCall  BY <1>1, CallKinds
  <2>2. [h EXCEPT !.pc = pc] \in ResultCall  BY <2>1 DEF ResultCall
  <2>3. QED  BY <2>1, <2>2 DEF Call, ResultCall
<1>2. CASE h.op = "step"
  <2>1. h \in StepCall  BY <1>2, CallKinds
  <2>2. [h EXCEPT !.pc = pc] \in StepCall  BY <2>1 DEF StepCall
  <2>3. QED  BY <2>1, <2>2 DEF Call, StepCall
<1>3. CASE h.op = "seal"
  <2>1. h \in SealCall  BY <1>3, CallKinds
  <2>2. [h EXCEPT !.pc = pc] \in SealCall  BY <2>1 DEF SealCall
  <2>3. QED  BY <2>1, <2>2 DEF Call, SealCall
<1>4. QED  BY <1>1, <1>2, <1>3

\* A write that nobody waits for is still that write.
LEMMA UnheardType ==
    ASSUME NEW h \in Call, h.op \in {"result", "step", "seal"}
    PROVE  /\ [h EXCEPT !.open = FALSE] \in Call
           /\ [h EXCEPT !.open = FALSE].op = h.op
<1>1. CASE h.op = "result"
  <2>1. h \in ResultCall  BY <1>1, CallKinds
  <2>2. [h EXCEPT !.open = FALSE] \in ResultCall  BY <2>1 DEF ResultCall
  <2>3. QED  BY <2>1, <2>2 DEF Call, ResultCall
<1>2. CASE h.op = "step"
  <2>1. h \in StepCall  BY <1>2, CallKinds
  <2>2. [h EXCEPT !.open = FALSE] \in StepCall  BY <2>1 DEF StepCall
  <2>3. QED  BY <2>1, <2>2 DEF Call, StepCall
<1>3. CASE h.op = "seal"
  <2>1. h \in SealCall  BY <1>3, CallKinds
  <2>2. [h EXCEPT !.open = FALSE] \in SealCall  BY <2>1 DEF SealCall
  <2>3. QED  BY <2>1, <2>2 DEF Call, SealCall
<1>4. QED  BY <1>1, <1>2, <1>3

\* Crossing marks the syncs, and leaves the other calls as they are.
LEMMA CrossedType ==
    ASSUME call \in [Calls -> Call]
    PROVE  /\ Crossed \in [Calls -> Call]
           /\ \A k \in Calls : call[k].op # "sync" => Crossed[k] = call[k]
           /\ \A k \in Calls : call[k].op = "sync" =>
                 Crossed[k].op = "sync" /\ Crossed[k].crossed = TRUE
<1>1. \A k \in Calls : call[k].op # "sync" => Crossed[k] = call[k]
  BY DEF Crossed
<1>2. ASSUME NEW k \in Calls, call[k].op = "sync"
      PROVE  /\ Crossed[k] \in Call
             /\ Crossed[k].op = "sync" /\ Crossed[k].crossed = TRUE
  <2>1. call[k] \in SyncCall  BY <1>2, CallKinds
  <2>2. Crossed[k] = [call[k] EXCEPT !.crossed = TRUE]  BY <1>2 DEF Crossed
  <2>3. QED  BY <2>1, <2>2 DEF SyncCall, Call
<1>3. Crossed \in [Calls -> Call]
  BY <1>1, <1>2 DEF Crossed
<1>4. QED  BY <1>1, <1>2, <1>3

\* An answer is heard, or the call has ended.
LEMMA AnsweredType ==
    ASSUME call \in [Calls -> Call],
           NEW k \in Calls, call[k].op \in {"result", "step", "seal"},
           NEW outcome \in {"ok", "refused"}
    PROVE  /\ Answered(k, outcome) \in Call
           /\ Answered(k, outcome).op \in {call[k].op, "none"}
BY MovedType, EndedCalls DEF Answered

\* So is a call that the browser closes.
LEMMA ClosedType ==
    ASSUME call \in [Calls -> Call],
           NEW k \in Calls, call[k].op \in {"result", "step", "seal", "sync"}
    PROVE  /\ Closed(k) \in Call
           /\ Closed(k).op \in {call[k].op, "none"} \ {"sync"}
BY UnheardType, EndedCalls DEF Closed

-----------------------------------------------------------------------------
(* Entries *)

\* What is shown of an entry, and what is seen of it, is a row of the case.
LEMMA EntryType ==
    ASSUME NEW exec \in {None} \cup Exec
    PROVE  /\ Shown(exec) \in Exec
           /\ Seen(exec) \in Exec
           /\ Seen(exec).status = Shown(exec).status
           /\ Seen(exec).step = Shown(exec).step
           /\ Seen(exec).notes = IF Shown(exec).notes = "" THEN None
                                 ELSE Shown(exec).notes
<1>1. Shown(exec) \in Exec
  BY ClientAssumption DEF Shown, Blank, Exec
<1>2. QED  BY <1>1, ClientAssumption DEF Seen, Exec

\* Nothing more is lost by looking again.
LEMMA SeenOnce ==
    ASSUME NEW exec \in Exec
    PROVE  /\ Shown(exec) = exec
           /\ Seen(Seen(exec)) = Seen(exec)
<1>1. /\ exec # None /\ Seen(exec) \in Exec /\ Seen(exec) # None
  BY EntryType, ClientAssumption
<1>2. /\ Shown(exec) = exec /\ Shown(Seen(exec)) = Seen(exec)
  BY <1>1 DEF Shown
<1>3. QED  BY <1>1, <1>2, ClientAssumption DEF Seen, Exec

\* What the server stores is a row.
LEMMA StoredType ==
    ASSUME row \in Exec, NEW h \in ResultCall \cup StepCall
    PROVE  Stored(h) \in Exec
<1>1. CASE h \in ResultCall
  <2>1. /\ h.op = "result" /\ h.status \in Statuses /\ h.notes \in {Absent} \cup Notes
    BY <1>1 DEF ResultCall
  <2>2. QED  BY <2>1 DEF Stored, Exec
<1>2. CASE h \in StepCall
  <2>1. /\ h.op = "step" /\ h.status \in Statuses
    BY <1>2 DEF StepCall
  <2>2. QED  BY <2>1 DEF Stored, Exec
<1>3. QED  BY <1>1, <1>2

\* The reducer leaves a sealed run as it is, and writes an entry otherwise.
LEMMA UpdatedType ==
    ASSUME screen \in Screen, NEW exec \in Exec
    PROVE  /\ Updated(exec) \in Screen
           /\ ~screen.sealed => Updated(exec).exec = exec
BY DEF Updated, Screen

\* So does a rollback.
LEMMA RolledBackType ==
    ASSUME screen \in Screen, NEW prev \in {None} \cup Exec
    PROVE  RolledBack(prev) \in Screen
<1>1. Shown(prev) \in Exec /\ Shown(screen.exec) \in Exec
  BY EntryType DEF Screen
<1>2. PICK exec : exec = [status |-> Shown(prev).status,
                          notes |-> IF Shown(prev).notes = None
                                    THEN Shown(screen.exec).notes
                                    ELSE Shown(prev).notes,
                          step |-> Shown(prev).step]
  OBVIOUS
<1>3. exec \in Exec  BY <1>1, <1>2 DEF Exec
<1>4. RolledBack(prev) = Updated(exec)  BY <1>2 DEF RolledBack
<1>5. QED  BY <1>3, <1>4, UpdatedType

\* And a sync.
LEMMA MergedType ==
    ASSUME screen \in Screen, NEW h \in SyncCall
    PROVE  Merged(h) \in Screen
<1>1. Seen(h.read) \in Exec  BY EntryType DEF SyncCall
<1>2. QED  BY <1>1 DEF Merged, Screen, SyncCall

-----------------------------------------------------------------------------
(* Types *)

\* The initial state is well formed.
LEMMA InitType == Init => TypeOK
<1> SUFFICES ASSUME Init PROVE TypeOK  OBVIOUS
<1>1. row \in Exec  BY ClientAssumption DEF Init, Blank, Exec
<1>2. screen \in Screen  BY DEF Init, Screen
<1>3. call \in [Calls -> Call]  BY EndedCalls DEF Init
<1>4. QED  BY <1>1, <1>2, <1>3 DEF Init, TypeOK

\* A result goes out well formed, and the screen with it.
LEMMA RecordResultType ==
    ASSUME TypeOK, NEW k \in Calls, RecordResult(k)
    PROVE  TypeOK'
<1>1. PICK now : now = Shown(screen.exec)  OBVIOUS
<1>2. now \in Exec  BY <1>1, EntryType DEF TypeOK, Screen
<1>3. PICK s \in Statuses, n \in {Absent} \cup Notes :
        /\ screen' = Updated([now EXCEPT !.status = s,
                                         !.notes = IF n = Absent THEN @ ELSE n])
        /\ call' = IF screen.mapped = "none" THEN Crossed
                   ELSE [Crossed EXCEPT ![k] =
                           [op |-> "result", pc |-> "sent", open |-> TRUE,
                            status |-> s, notes |-> n, prev |-> screen.exec]]
  <2>1. CASE \E s \in Statuses :
               /\ screen' = Updated([now EXCEPT !.status = s,
                                       !.notes = IF Absent = Absent THEN @ ELSE Absent])
               /\ call' = IF screen.mapped = "none" THEN Crossed
                          ELSE [Crossed EXCEPT ![k] =
                                 [op |-> "result", pc |-> "sent", open |-> TRUE,
                                  status |-> s, notes |-> Absent,
                                  prev |-> screen.exec]]
    BY <2>1
  <2>2. CASE \E n \in Notes \ {None, Draft(now.notes)} :
               /\ screen' = Updated([now EXCEPT !.status = now.status,
                                       !.notes = IF n = Absent THEN @ ELSE n])
               /\ call' = IF screen.mapped = "none" THEN Crossed
                          ELSE [Crossed EXCEPT ![k] =
                                 [op |-> "result", pc |-> "sent", open |-> TRUE,
                                  status |-> now.status, notes |-> n,
                                  prev |-> screen.exec]]
    <3>1. now.status \in Statuses  BY <1>2 DEF Exec
    <3>2. QED  BY <2>2, <3>1
  <2>3. QED  BY <1>1, <2>1, <2>2 DEF RecordResult
<1>4. PICK exec : exec = [now EXCEPT !.status = s,
                                     !.notes = IF n = Absent THEN @ ELSE n]
  OBVIOUS
<1>5. exec \in Exec  BY <1>2, <1>3, <1>4 DEF Exec
<1>6. screen' \in Screen  BY <1>3, <1>4, <1>5, UpdatedType DEF TypeOK
<1>7. [op |-> "result", pc |-> "sent", open |-> TRUE,
       status |-> s, notes |-> n, prev |-> screen.exec] \in Call
  BY <1>3 DEF TypeOK, Screen, Call, ResultCall
<1>8. call' \in [Calls -> Call]
  BY <1>3, <1>7, CrossedType DEF TypeOK
<1>9. QED  BY <1>6, <1>8 DEF TypeOK, RecordResult, Busy

\* So does a step result.
LEMMA RecordStepType ==
    ASSUME TypeOK, NEW k \in Calls, RecordStep(k)
    PROVE  TypeOK'
<1>1. PICK s \in Statuses :
        /\ screen' = Updated([Shown(screen.exec) EXCEPT !.step = s])
        /\ call' = IF screen.mapped # "all" THEN Crossed
                   ELSE [Crossed EXCEPT ![k] =
                           [op |-> "step", pc |-> "sent", open |-> TRUE,
                            status |-> s]]
  BY DEF RecordStep
<1>2. Shown(screen.exec) \in Exec  BY EntryType DEF TypeOK, Screen
<1>3. [Shown(screen.exec) EXCEPT !.step = s] \in Exec  BY <1>1, <1>2 DEF Exec
<1>4. screen' \in Screen  BY <1>1, <1>3, UpdatedType DEF TypeOK
<1>5. [op |-> "step", pc |-> "sent", open |-> TRUE, status |-> s] \in Call
  BY <1>1 DEF Call, StepCall
<1>6. call' \in [Calls -> Call]  BY <1>1, <1>5, CrossedType DEF TypeOK
<1>7. QED  BY <1>4, <1>6 DEF TypeOK, RecordStep, Busy

\* The calls that start without a result: seals and syncs.
LEMMA StartType ==
    ASSUME TypeOK, NEW k \in Calls, ToggleSeal(k) \/ Sync(k)
    PROVE  TypeOK'
<1>1. CASE ToggleSeal(k)
  <2>1. [op |-> "seal", pc |-> "sent", open |-> TRUE, sealed |-> ~screen.sealed]
           \in Call
    BY DEF TypeOK, Screen, Call, SealCall
  <2>2. QED  BY <1>1, <2>1 DEF ToggleSeal, TypeOK
<1>2. CASE Sync(k)
  <2>1. [op |-> "sync", pc |-> "sent", sealed |-> FALSE,
         read |-> Blank, crossed |-> FALSE] \in Call
    BY ClientAssumption DEF Call, SyncCall, Blank, Exec
  <2>2. call' \in [Calls -> Call]  BY <1>2, <2>1, EndedCalls DEF Sync, TypeOK
  <2>3. QED  BY <1>2, <2>2 DEF Sync, TypeOK
<1>3. QED  BY <1>1, <1>2

\* A reload closes what is open.
LEMMA ReloadType ==
    ASSUME TypeOK, Reload
    PROVE  TypeOK'
<1>1. \A k \in Calls :
         call[k] \in {Idle, Settled} \/ call[k].op \in {"result", "step", "seal", "sync"}
  BY CallKinds DEF TypeOK
<1>2. call' \in [Calls -> Call]  BY <1>1, ClosedType DEF Reload, TypeOK
<1>3. screen' \in Screen  BY DEF Reload, TypeOK, Screen
<1>4. QED  BY <1>2, <1>3 DEF Reload, TypeOK, Busy

\* The statements of the server's handlers, and what happens elsewhere.
LEMMA ServerType ==
    ASSUME TypeOK, NEW k \in Calls,
           \/ CheckRun(k) \/ Commit(k) \/ CheckSeal(k) \/ CommitSeal(k)
           \/ ServerFail(k) \/ Elsewhere(k) \/ ElsewhereSeal(k)
    PROVE  TypeOK'
<1>1. CASE CheckRun(k)
  <2>1. Answered(k, "refused") \in Call /\ [call[k] EXCEPT !.pc = "checked"] \in Call
    BY <1>1, AnsweredType, MovedType DEF CheckRun, TypeOK
  <2>2. QED  BY <1>1, <2>1 DEF CheckRun, TypeOK
<1>2. CASE Commit(k)
  <2>1. Answered(k, "ok") \in Call
    BY <1>2, AnsweredType DEF Commit, TypeOK
  <2>2. call[k] \in ResultCall \cup StepCall
    BY <1>2, CallKinds DEF Commit, TypeOK
  <2>3. row' \in Exec  BY <1>2, <2>2, StoredType DEF Commit, TypeOK
  <2>4. call' \in [Calls -> Call]
    BY <1>2, <2>1, CrossedType DEF Commit, TypeOK
  <2>5. QED  BY <1>2, <2>3, <2>4 DEF Commit, TypeOK
<1>3. CASE CheckSeal(k)
  <2>1. Answered(k, "ok") \in Call /\ [call[k] EXCEPT !.pc = "checked"] \in Call
    BY <1>3, AnsweredType, MovedType DEF CheckSeal, TypeOK
  <2>2. QED  BY <1>3, <2>1 DEF CheckSeal, TypeOK
<1>4. CASE CommitSeal(k)
  <2>1. Answered(k, "ok") \in Call /\ call[k] \in SealCall
    BY <1>4, AnsweredType, CallKinds DEF CommitSeal, TypeOK
  <2>2. QED  BY <1>4, <2>1 DEF CommitSeal, TypeOK, SealCall
<1>5. CASE ServerFail(k)
  <2>1. Answered(k, "refused") \in Call
    BY <1>5, AnsweredType DEF ServerFail, TypeOK
  <2>2. QED  BY <1>5, <2>1 DEF ServerFail, TypeOK
<1>6. CASE Elsewhere(k)
  <2>1. row' \in Exec
    <3>1. \A s \in Statuses, n \in Notes :
             [row EXCEPT !.status = s, !.notes = n] \in Exec
      BY DEF TypeOK, Exec
    <3>2. \A s \in Statuses : [row EXCEPT !.step = s] \in Exec
      BY DEF TypeOK, Exec
    <3>3. QED  BY <1>6, <3>1, <3>2 DEF Elsewhere
  <2>2. call' \in [Calls -> Call]
    BY <1>6, EndedCalls, CrossedType DEF Elsewhere, TypeOK
  <2>3. QED  BY <1>6, <2>1, <2>2 DEF Elsewhere, TypeOK
<1>7. CASE ElsewhereSeal(k)
  BY <1>7, EndedCalls DEF ElsewhereSeal, TypeOK
<1>8. QED  BY <1>1, <1>2, <1>3, <1>4, <1>5, <1>6, <1>7

\* The reads of a sync.
LEMMA ReadType ==
    ASSUME TypeOK, NEW k \in Calls, ReadRuns(k) \/ ReadCases(k) \/ ReadSteps(k)
    PROVE  TypeOK'
<1>1. call[k] \in SyncCall
  BY CallKinds DEF ReadRuns, ReadCases, ReadSteps, TypeOK
<1>2. CASE ReadRuns(k)
  <2>1. [call[k] EXCEPT !.pc = "runs", !.sealed = sealed] \in SyncCall
    BY <1>1 DEF SyncCall, TypeOK
  <2>2. QED  BY <1>2, <2>1 DEF ReadRuns, TypeOK, Call
<1>3. CASE ReadCases(k)
  <2>1. [call[k] EXCEPT !.pc = "cases", !.read.status = row.status,
                        !.read.notes = row.notes] \in SyncCall
    BY <1>1 DEF SyncCall, TypeOK, Exec
  <2>2. QED  BY <1>3, <2>1 DEF ReadCases, TypeOK, Call
<1>4. CASE ReadSteps(k)
  <2>1. [call[k] EXCEPT !.pc = "ok", !.read.step = row.step] \in SyncCall
    BY <1>1 DEF SyncCall, TypeOK, Exec
  <2>2. QED  BY <1>4, <2>1 DEF ReadSteps, TypeOK, Call
<1>5. QED  BY <1>2, <1>3, <1>4

\* The answers.
LEMMA AnswerType ==
    ASSUME TypeOK, NEW k \in Calls,
           \/ ResultAccepted(k) \/ ResultRejected(k) \/ StepRejected(k)
           \/ SealAccepted(k) \/ SealRejected(k)
           \/ SyncAccepted(k) \/ SyncRejected(k)
    PROVE  TypeOK'
<1>1. CASE ResultAccepted(k)
  BY <1>1, EndedCalls DEF ResultAccepted, TypeOK
<1>2. CASE ResultRejected(k)
  <2>1. call[k].prev \in {None} \cup Exec
    BY <1>2, CallKinds DEF ResultRejected, TypeOK, ResultCall
  <2>2. screen' \in Screen
    BY <1>2, <2>1, RolledBackType DEF ResultRejected, TypeOK
  <2>3. Closed(k) \in Call  BY <1>2, ClosedType DEF ResultRejected, TypeOK
  <2>4. call' \in [Calls -> Call]
    BY <1>2, <2>3, CrossedType DEF ResultRejected, TypeOK
  <2>5. QED  BY <1>2, <2>2, <2>4 DEF ResultRejected, TypeOK
<1>3. CASE StepRejected(k)
  BY <1>3, ClosedType DEF StepRejected, TypeOK
<1>4. CASE SealAccepted(k)
  <2>1. call[k] \in SealCall  BY <1>4, CallKinds DEF SealAccepted, TypeOK
  <2>2. screen' \in Screen  BY <1>4, <2>1 DEF SealAccepted, TypeOK, SealCall, Screen
  <2>3. QED  BY <1>4, <2>2, EndedCalls DEF SealAccepted, TypeOK
<1>5. CASE SealRejected(k)
  BY <1>5, ClosedType DEF SealRejected, TypeOK
<1>6. CASE SyncAccepted(k)
  <2>1. call[k] \in SyncCall  BY <1>6, CallKinds DEF SyncAccepted, TypeOK
  <2>2. screen' \in Screen  BY <1>6, <2>1, MergedType DEF SyncAccepted, TypeOK
  <2>3. QED  BY <1>6, <2>2, EndedCalls DEF SyncAccepted, TypeOK
<1>7. CASE SyncRejected(k)
  BY <1>7, EndedCalls DEF SyncRejected, TypeOK
<1>8. QED  BY <1>1, <1>2, <1>3, <1>4, <1>5, <1>6, <1>7

\* Every step keeps the types.
LEMMA NextType == TypeOK /\ [Next]_vars => TypeOK'
<1> SUFFICES ASSUME TypeOK, [Next]_vars PROVE TypeOK'  OBVIOUS
<1>1. CASE UNCHANGED vars  BY <1>1 DEF vars, TypeOK
<1>2. CASE Next
  BY <1>2, RecordResultType, RecordStepType, StartType, ReloadType, ServerType,
     ReadType, AnswerType DEF Next
<1>3. QED  BY <1>1, <1>2

\* Screen, row and calls are well formed, for any calls, statuses and notes
\* (FreshProvider.tsx:614-646, run-client.ts:285-370).
THEOREM TypeCorrect == Spec => []TypeOK
<1>1. QED  BY InitType, NextType, PTL DEF Spec

-----------------------------------------------------------------------------
(* Syncs *)

\* A sync goes on being exact while the row stays and it does.
LEMMA SyncKept ==
    ASSUME SyncExact, row' = row,
           \A j \in Calls : call'[j].op = "sync" /\ ~call'[j].crossed =>
              call'[j] = call[j]
    PROVE  SyncExact'
BY DEF SyncExact, Exact

\* And so it does when everything is crossed.
LEMMA SyncCrossed ==
    ASSUME TypeOK, NEW k \in Calls, NEW h, h.op # "sync",
           call' = [Crossed EXCEPT ![k] = h]
    PROVE  SyncExact'
<1>1. \A j \in Calls : call'[j].op = "sync" => call'[j].crossed = TRUE
  BY CrossedType DEF TypeOK
<1>2. QED  BY <1>1 DEF SyncExact

\* Every step keeps syncs exact.
LEMMA NextSyncExact ==
    ASSUME TypeOK, SyncExact, [Next]_vars
    PROVE  SyncExact'
<1>1. CASE UNCHANGED vars  BY <1>1, SyncKept DEF vars
<1>2. CASE Reload
  <2>1. \A j \in Calls : call'[j].op # "sync"
    <3>1. TAKE j \in Calls
    <3>2. CASE call[j] \in {Idle, Settled}
      BY <1>2, <3>2, EndedCalls DEF Reload
    <3>3. CASE call[j] \notin {Idle, Settled}
      <4>1. call[j].op \in {"result", "step", "seal", "sync"}
        BY <3>3, CallKinds DEF TypeOK
      <4>2. Closed(j).op # "sync"  BY <4>1, ClosedType DEF TypeOK
      <4>3. QED  BY <1>2, <3>3, <4>2 DEF Reload
    <3>4. QED  BY <3>2, <3>3
  <2>2. QED  BY <2>1 DEF SyncExact
<1>3. ASSUME NEW k \in Calls, RecordResult(k)
      PROVE  SyncExact'
  <2>1. row' = row  BY <1>3 DEF RecordResult
  <2>2. PICK h : /\ h.op = "result"
                 /\ call' = IF screen.mapped = "none" THEN Crossed
                            ELSE [Crossed EXCEPT ![k] = h]
    <3>1. CASE \E s \in Statuses :
                 call' = IF screen.mapped = "none" THEN Crossed
                         ELSE [Crossed EXCEPT ![k] =
                                [op |-> "result", pc |-> "sent", open |-> TRUE,
                                 status |-> s, notes |-> Absent,
                                 prev |-> screen.exec]]
      BY <3>1
    <3>2. CASE \E n \in Notes :
                 call' = IF screen.mapped = "none" THEN Crossed
                         ELSE [Crossed EXCEPT ![k] =
                                [op |-> "result", pc |-> "sent", open |-> TRUE,
                                 status |-> Shown(screen.exec).status, notes |-> n,
                                 prev |-> screen.exec]]
      BY <3>2
    <3>3. QED  BY <1>3, <3>1, <3>2 DEF RecordResult
  <2>3. \A j \in Calls : call'[j].op = "sync" => call'[j].crossed = TRUE
    BY <2>2, CrossedType DEF TypeOK
  <2>4. QED  BY <2>3 DEF SyncExact
<1>4. ASSUME NEW k \in Calls, RecordStep(k)
      PROVE  SyncExact'
  <2>1. PICK h : /\ h.op = "step"
                 /\ call' = IF screen.mapped # "all" THEN Crossed
                            ELSE [Crossed EXCEPT ![k] = h]
    BY <1>4 DEF RecordStep
  <2>2. \A j \in Calls : call'[j].op = "sync" => call'[j].crossed = TRUE
    BY <2>1, CrossedType DEF TypeOK
  <2>3. QED  BY <2>2 DEF SyncExact
<1>5. ASSUME NEW k \in Calls, ToggleSeal(k) \/ ElsewhereSeal(k)
      PROVE  SyncExact'
  BY <1>5, SyncKept, EndedCalls DEF ToggleSeal, ElsewhereSeal, TypeOK
<1>6. ASSUME NEW k \in Calls, Sync(k)
      PROVE  SyncExact'
  <2>1. row' = row  BY <1>6 DEF Sync
  <2>2. call'[k].pc = "sent"  BY <1>6 DEF Sync
  <2>3. \A j \in Calls : j # k => call'[j].op # "sync"
    BY <1>6, EndedCalls DEF Sync
  <2>4. QED  BY <2>2, <2>3 DEF SyncExact, Exact
<1>7. ASSUME NEW k \in Calls,
             CheckRun(k) \/ CheckSeal(k) \/ CommitSeal(k) \/ ServerFail(k)
      PROVE  SyncExact'
  <2>1. call[k].op \in {"result", "step", "seal"}
    BY <1>7 DEF CheckRun, CheckSeal, CommitSeal, ServerFail
  <2>2. /\ \A o \in {"ok", "refused"} : Answered(k, o).op # "sync"
        /\ [call[k] EXCEPT !.pc = "checked"].op # "sync"
    BY <2>1, AnsweredType, MovedType DEF TypeOK
  <2>3. /\ row' = row
        /\ \A j \in Calls : j # k => call'[j] = call[j]
        /\ call'[k].op # "sync"
    BY <1>7, <2>2 DEF CheckRun, CheckSeal, CommitSeal, ServerFail, TypeOK
  <2>4. QED  BY <2>3, SyncKept
<1>8. ASSUME NEW k \in Calls, Commit(k)
      PROVE  SyncExact'
  <2>1. Answered(k, "ok").op # "sync"
    BY <1>8, AnsweredType DEF Commit, TypeOK
  <2>2. QED  BY <1>8, <2>1, SyncCrossed DEF Commit
<1>9. ASSUME NEW k \in Calls, Elsewhere(k)
      PROVE  SyncExact'
  BY <1>9, SyncCrossed, EndedCalls DEF Elsewhere
<1>10. ASSUME NEW k \in Calls, ReadRuns(k) \/ ReadCases(k) \/ ReadSteps(k)
       PROVE  SyncExact'
  <2>1. call[k] \in SyncCall
    BY <1>10, CallKinds DEF ReadRuns, ReadCases, ReadSteps, TypeOK
  <2>2. /\ row' = row
        /\ \A j \in Calls : j # k => call'[j] = call[j]
    BY <1>10 DEF ReadRuns, ReadCases, ReadSteps, TypeOK
  <2>3. call[k].read \in Exec  BY <2>1 DEF SyncCall
  <2>4. call'[k].op = "sync" /\ ~call'[k].crossed => Exact(call[k])
    BY <1>10, <2>1 DEF ReadRuns, ReadCases, ReadSteps, TypeOK, SyncCall, SyncExact
  <2>5. Exact(call[k]) => Exact(call'[k])
    <3>1. CASE ReadRuns(k)
      BY <2>1, <3>1 DEF ReadRuns, TypeOK, SyncCall, Exact
    <3>2. CASE ReadCases(k)
      BY <2>1, <2>3, <3>2 DEF ReadCases, TypeOK, SyncCall, Exact, Exec
    <3>3. CASE ReadSteps(k)
      BY <2>1, <2>3, <3>3 DEF ReadSteps, TypeOK, SyncCall, Exact, Exec
    <3>4. QED  BY <1>10, <3>1, <3>2, <3>3
  <2>6. QED  BY <2>2, <2>4, <2>5 DEF SyncExact, Exact
<1>11. ASSUME NEW k \in Calls,
              ResultAccepted(k) \/ SealAccepted(k) \/ SyncAccepted(k) \/ SyncRejected(k)
       PROVE  SyncExact'
  <2>1. /\ row' = row
        /\ \A j \in Calls : j # k => call'[j] = call[j]
        /\ call'[k] = Settled
    BY <1>11 DEF ResultAccepted, SealAccepted, SyncAccepted, SyncRejected, TypeOK
  <2>2. QED  BY <2>1, SyncKept, EndedCalls
<1>12. ASSUME NEW k \in Calls, ResultRejected(k)
       PROVE  SyncExact'
  <2>1. Closed(k).op # "sync"
    BY <1>12, ClosedType DEF ResultRejected, TypeOK
  <2>2. QED  BY <1>12, <2>1, SyncCrossed DEF ResultRejected
<1>13. ASSUME NEW k \in Calls, StepRejected(k) \/ SealRejected(k)
       PROVE  SyncExact'
  <2>1. Closed(k).op # "sync"
    BY <1>13, ClosedType DEF StepRejected, SealRejected, TypeOK
  <2>2. /\ row' = row
        /\ \A j \in Calls : j # k => call'[j] = call[j]
        /\ call'[k] = Closed(k)
    BY <1>13 DEF StepRejected, SealRejected, TypeOK
  <2>3. QED  BY <2>1, <2>2, SyncKept
<1>14. QED
  BY <1>1, <1>2, <1>3, <1>4, <1>5, <1>6, <1>7, <1>8, <1>9, <1>10, <1>11, <1>12,
     <1>13 DEF Next

-----------------------------------------------------------------------------
(* Results *)

Agreeing == QuietScreenAgrees /\ OneAhead

\* Nothing is claimed of a screen in doubt.
LEMMA InDoubt == doubt' => Agreeing'
BY DEF Agreeing, QuietScreenAgrees, OneAhead

\* What neither touches a result nor the row nor the entry changes nothing.
LEMMA AgreeingKept ==
    ASSUME Agreeing, row' = row, screen'.exec = screen.exec, doubt => doubt',
           \A j \in Calls : Writing(call[j]) \/ Writing(call'[j]) =>
              call'[j] = call[j]
    PROVE  Agreeing'
<1>1. Busy' <=> Busy  BY DEF Busy, Writing
<1>2. QuietScreenAgrees'  BY <1>1 DEF Agreeing, QuietScreenAgrees
<1>3. OneAhead'
  <2> SUFFICES ASSUME ~doubt', NEW k \in Calls, Writing(call'[k])
               PROVE  Ahead(k)'
    BY DEF OneAhead
  <2>1. call'[k] = call[k] /\ Ahead(k)
    BY DEF Agreeing, OneAhead, Writing
  <2>2. \A j \in Calls : Writing(call'[j]) => j = k
    BY <2>1 DEF Ahead
  <2>3. Stored(call[k])' = Stored(call[k])  BY <2>1 DEF Stored
  <2>4. QED  BY <2>1, <2>2, <2>3 DEF Ahead
<1>4. QED  BY <1>2, <1>3 DEF Agreeing

\* A result goes out from a quiet screen: the screen is ahead by it.
LEMMA SentAhead ==
    ASSUME TypeOK, Agreeing, ~doubt, ~Busy, row' = row, NEW k \in Calls,
           NEW h \in ResultCall \cup StepCall,
           h.pc = "sent", h.open, h.op = "result" => h.prev = screen.exec,
           call' = [Crossed EXCEPT ![k] = h],
           Seen(screen'.exec) = Seen(Stored(h))
    PROVE  Agreeing'
<1>1. Writing(h)  BY DEF Writing, ResultCall, StepCall
<1>2. call'[k] = h  BY CrossedType DEF TypeOK
<1>3. \A j \in Calls : j # k => ~Writing(call'[j])
  BY CrossedType DEF Busy, Writing, TypeOK
<1>4. Seen(screen.exec) = Seen(row)
  BY DEF Agreeing, QuietScreenAgrees
<1>5. Stored(h)' = Stored(h)  BY DEF Stored
<1>6. OneAhead'  BY <1>1, <1>2, <1>3, <1>4, <1>5 DEF OneAhead, Ahead
<1>7. QuietScreenAgrees'
  BY <1>1, <1>2 DEF QuietScreenAgrees, Busy, Writing
<1>8. QED  BY <1>6, <1>7 DEF Agreeing

\* Entries are seen alike when they differ by an empty comment at most.
Alike(a, b) ==
    /\ a.status = b.status
    /\ a.step = b.step
    /\ (IF a.notes = "" THEN None ELSE a.notes)
          = (IF b.notes = "" THEN None ELSE b.notes)

\* Two executions look the same when they agree in all that is seen.
LEMMA SeenAlike ==
    ASSUME NEW a \in Exec, NEW b \in Exec
    PROVE  Seen(a) = Seen(b) <=> Alike(a, b)
<1>1. Seen(a) \in Exec /\ Seen(b) \in Exec  BY EntryType
<1>2. Shown(a) = a /\ Shown(b) = b  BY SeenOnce
<1>3. /\ Seen(a).status = a.status /\ Seen(a).step = a.step
      /\ Seen(a).notes = IF a.notes = "" THEN None ELSE a.notes
  BY <1>2, EntryType
<1>4. /\ Seen(b).status = b.status /\ Seen(b).step = b.step
      /\ Seen(b).notes = IF b.notes = "" THEN None ELSE b.notes
  BY <1>2, EntryType
<1>5. PICK sa, sb : sa = Seen(a) /\ sb = Seen(b)  OBVIOUS
<1>6. sa \in Exec /\ sb \in Exec  BY <1>1, <1>5
<1>7. sa = sb <=> sa.status = sb.status /\ sa.step = sb.step /\ sa.notes = sb.notes
  BY <1>6 DEF Exec
<1>8. QED  BY <1>3, <1>4, <1>5, <1>7 DEF Alike

\* What an absent entry shows is what is seen of it.
LEMMA SeenShown ==
    ASSUME NEW exec \in {None} \cup Exec
    PROVE  Seen(Shown(exec)) = Seen(exec)
<1>1. Shown(exec) \in Exec  BY EntryType
<1>2. Shown(Shown(exec)) = Shown(exec)  BY <1>1, SeenOnce
<1>3. QED  BY <1>2 DEF Seen

\* A result does to the screen what it will do to the row.
LEMMA ResultOnBoth ==
    ASSUME TypeOK, Seen(screen.exec) = Seen(row),
           NEW h \in ResultCall, NEW a \in Exec,
           a.status = h.status, a.step = Shown(screen.exec).step,
           a.notes = IF h.notes = Absent THEN Shown(screen.exec).notes ELSE h.notes
    PROVE  Seen(a) = Seen(Stored(h))
<1>1. PICK now : now = Shown(screen.exec)  OBVIOUS
<1>2. now \in Exec /\ row \in Exec
  BY <1>1, EntryType DEF TypeOK, Screen
<1>3. Seen(now) = Seen(row)  BY <1>1, SeenShown DEF TypeOK, Screen
<1>4. Alike(now, row)  BY <1>2, <1>3, SeenAlike
<1>5. PICK b : b = [row EXCEPT !.status = h.status,
                               !.notes = IF h.notes = Absent THEN @ ELSE h.notes]
  OBVIOUS
<1>6. Stored(h) = b  BY <1>5 DEF Stored, ResultCall
<1>7. b \in Exec  BY <1>2, <1>5 DEF Exec, ResultCall
<1>8. Alike(a, b)  BY <1>1, <1>2, <1>4, <1>5 DEF Alike, Exec
<1>9. QED  BY <1>6, <1>7, <1>8, SeenAlike

\* So does a step result.
LEMMA StepOnBoth ==
    ASSUME TypeOK, Seen(screen.exec) = Seen(row),
           NEW s \in Statuses, NEW h, h.op = "step", h.status = s,
           NEW a, a = [Shown(screen.exec) EXCEPT !.step = s]
    PROVE  Seen(a) = Seen(Stored(h))
<1>1. PICK now : now = Shown(screen.exec)  OBVIOUS
<1>2. now \in Exec /\ row \in Exec
  BY <1>1, EntryType DEF TypeOK, Screen
<1>3. Seen(now) = Seen(row)  BY <1>1, SeenShown DEF TypeOK, Screen
<1>4. Alike(now, row)  BY <1>2, <1>3, SeenAlike
<1>5. PICK b : b = [row EXCEPT !.step = s]  OBVIOUS
<1>6. Stored(h) = b  BY <1>5 DEF Stored
<1>7. a \in Exec /\ b \in Exec  BY <1>1, <1>2, <1>5 DEF Exec
<1>8. Alike(a, b)  BY <1>1, <1>2, <1>4, <1>5 DEF Alike, Exec
<1>9. QED  BY <1>6, <1>7, <1>8, SeenAlike

\* A case result is sent.
LEMMA RecordResultAgrees ==
    ASSUME TypeOK, Agreeing, NEW k \in Calls, RecordResult(k)
    PROVE  Agreeing'
<1> SUFFICES ASSUME ~doubt' PROVE Agreeing'  BY InDoubt
<1>1. /\ ~doubt /\ ~Busy /\ screen.mapped # "none" /\ ~screen.sealed /\ row' = row
  BY DEF RecordResult
<1>2. PICK now : now = Shown(screen.exec)  OBVIOUS
<1>3. now \in Exec  BY <1>2, EntryType DEF TypeOK, Screen
<1>4. PICK s \in Statuses, n \in {Absent} \cup Notes :
        /\ screen' = Updated([now EXCEPT !.status = s,
                                         !.notes = IF n = Absent THEN @ ELSE n])
        /\ call' = [Crossed EXCEPT ![k] =
                           [op |-> "result", pc |-> "sent", open |-> TRUE,
                            status |-> s, notes |-> n, prev |-> screen.exec]]
  <2>1. CASE \E s \in Statuses :
               /\ screen' = Updated([now EXCEPT !.status = s,
                                       !.notes = IF Absent = Absent THEN @ ELSE Absent])
               /\ call' = [Crossed EXCEPT ![k] =
                                 [op |-> "result", pc |-> "sent", open |-> TRUE,
                                  status |-> s, notes |-> Absent,
                                  prev |-> screen.exec]]
    BY <2>1
  <2>2. CASE \E n \in Notes \ {None, Draft(now.notes)} :
               /\ screen' = Updated([now EXCEPT !.status = now.status,
                                       !.notes = IF n = Absent THEN @ ELSE n])
               /\ call' = [Crossed EXCEPT ![k] =
                                 [op |-> "result", pc |-> "sent", open |-> TRUE,
                                  status |-> now.status, notes |-> n,
                                  prev |-> screen.exec]]
    <3>1. now.status \in Statuses  BY <1>3 DEF Exec
    <3>2. QED  BY <2>2, <3>1
  <2>3. QED  BY <1>1, <1>2, <2>1, <2>2 DEF RecordResult
<1>5. PICK exec : exec = [now EXCEPT !.status = s,
                                     !.notes = IF n = Absent THEN @ ELSE n]
  OBVIOUS
<1>6. PICK h : h = [op |-> "result", pc |-> "sent", open |-> TRUE,
                    status |-> s, notes |-> n, prev |-> screen.exec]
  OBVIOUS
<1>7. exec \in Exec  BY <1>3, <1>4, <1>5 DEF Exec
<1>8. screen'.exec = exec  BY <1>1, <1>4, <1>5, <1>7, UpdatedType DEF TypeOK
<1>9. /\ h \in ResultCall /\ h.pc = "sent" /\ h.open /\ h.prev = screen.exec
      /\ h.op = "result" /\ h.status = s /\ h.notes = n
  BY <1>4, <1>6 DEF ResultCall, TypeOK, Screen
<1>10. Seen(screen.exec) = Seen(row)
  BY <1>1 DEF Agreeing, QuietScreenAgrees
<1>11. Seen(exec) = Seen(Stored(h))
  <2>1. /\ exec.status = h.status /\ exec.step = now.step
        /\ exec.notes = IF h.notes = Absent THEN now.notes ELSE h.notes
    BY <1>3, <1>5, <1>9 DEF Exec
  <2>2. QED  BY <1>2, <1>7, <1>9, <1>10, <2>1, ResultOnBoth
<1>12. call' = [Crossed EXCEPT ![k] = h]  BY <1>4, <1>6
<1>13. QED  BY <1>1, <1>8, <1>9, <1>11, <1>12, SentAhead

\* A step result is sent.
LEMMA RecordStepAgrees ==
    ASSUME TypeOK, Agreeing, NEW k \in Calls, RecordStep(k)
    PROVE  Agreeing'
<1> SUFFICES ASSUME ~doubt' PROVE Agreeing'  BY InDoubt
<1>1. /\ ~doubt /\ ~Busy /\ screen.mapped = "all" /\ ~screen.sealed /\ row' = row
  BY DEF RecordStep
<1>2. PICK s \in Statuses :
        /\ screen' = Updated([Shown(screen.exec) EXCEPT !.step = s])
        /\ call' = [Crossed EXCEPT ![k] =
                      [op |-> "step", pc |-> "sent", open |-> TRUE, status |-> s]]
  BY <1>1 DEF RecordStep
<1>3. PICK exec : exec = [Shown(screen.exec) EXCEPT !.step = s]  OBVIOUS
<1>4. PICK h : h = [op |-> "step", pc |-> "sent", open |-> TRUE, status |-> s]
  OBVIOUS
<1>5. Shown(screen.exec) \in Exec  BY EntryType DEF TypeOK, Screen
<1>6. exec \in Exec  BY <1>2, <1>3, <1>5 DEF Exec
<1>7. screen'.exec = exec  BY <1>1, <1>2, <1>3, <1>6, UpdatedType DEF TypeOK
<1>8. /\ h \in StepCall /\ h.pc = "sent" /\ h.open
      /\ h.op = "step" /\ h.status = s
  BY <1>2, <1>4 DEF StepCall
<1>9. Seen(screen.exec) = Seen(row)
  BY <1>1 DEF Agreeing, QuietScreenAgrees
<1>10. Seen(exec) = Seen(Stored(h))
  BY <1>2, <1>3, <1>8, <1>9, StepOnBoth
<1>11. call' = [Crossed EXCEPT ![k] = h]  BY <1>2, <1>4
<1>12. QED  BY <1>1, <1>7, <1>8, <1>10, <1>11, SentAhead

\* A result in flight when nothing is in doubt is ahead, and so not unheard.
LEMMA InFlight ==
    ASSUME Agreeing, ~doubt, NEW k \in Calls, Writing(call[k])
    PROVE  Ahead(k)
BY DEF Agreeing, OneAhead

\* A result that is checked or refused is still ahead.
LEMMA StillAhead ==
    ASSUME TypeOK, Agreeing, ~doubt, ~doubt', row' = row, screen' = screen,
           NEW k \in Calls, Writing(call[k]), call[k].pc # "ok",
           NEW pc \in {"checked", "refused"},
           call' = [call EXCEPT ![k] = [call[k] EXCEPT !.pc = pc]]
    PROVE  Agreeing'
<1>1. Ahead(k)  BY InFlight
<1>2. call[k] \in ResultCall \cup StepCall
  BY CallKinds DEF Writing, TypeOK
<1>3. PICK h : h = [call[k] EXCEPT !.pc = pc]  OBVIOUS
<1>4. /\ h.op = call[k].op /\ h.open = call[k].open /\ h.pc = pc
      /\ h.status = call[k].status
      /\ h.op = "result" => h.notes = call[k].notes /\ h.prev = call[k].prev
      /\ h.op \in {"result", "step"}
  BY <1>2, <1>3 DEF ResultCall, StepCall
<1>5. call'[k] = h /\ \A j \in Calls : j # k => call'[j] = call[j]
  BY <1>3 DEF TypeOK
<1>6. Stored(h)' = Stored(call[k])
  BY <1>4 DEF Stored
<1>7. \A j \in Calls : Writing(call'[j]) => j = k
  BY <1>1, <1>5 DEF Ahead
<1>8. Ahead(k)'  BY <1>1, <1>4, <1>5, <1>6, <1>7 DEF Ahead
<1>9. OneAhead'  BY <1>7, <1>8 DEF OneAhead
<1>10. QuietScreenAgrees'
  BY <1>4, <1>5 DEF QuietScreenAgrees, Busy
<1>11. QED  BY <1>9, <1>10 DEF Agreeing

\* CheckRun and ServerFail of a result.
LEMMA CheckedAgrees ==
    ASSUME TypeOK, Agreeing, NEW k \in Calls, Writing(call[k]),
           CheckRun(k) \/ ServerFail(k)
    PROVE  Agreeing'
<1> SUFFICES ASSUME ~doubt' PROVE Agreeing'  BY InDoubt
<1>1. ~doubt /\ row' = row /\ screen' = screen
  BY DEF CheckRun, ServerFail
<1>2. call[k].open  BY <1>1, InFlight DEF Ahead
<1>3. call[k].pc # "ok"  BY DEF CheckRun, ServerFail
<1>4. PICK pc \in {"checked", "refused"} :
         call' = [call EXCEPT ![k] = [call[k] EXCEPT !.pc = pc]]
  BY <1>2 DEF CheckRun, ServerFail, Answered
<1>5. QED  BY <1>1, <1>3, <1>4, StillAhead

\* The row catches up with the screen.
LEMMA CommitAgrees ==
    ASSUME TypeOK, Agreeing, NEW k \in Calls, Commit(k)
    PROVE  Agreeing'
<1> SUFFICES ASSUME ~doubt' PROVE Agreeing'  BY InDoubt
<1>1. ~doubt /\ screen' = screen /\ Writing(call[k])
  BY DEF Commit, Writing
<1>2. Ahead(k)  BY <1>1, InFlight
<1>3. PICK h : h = [call[k] EXCEPT !.pc = "ok"]  OBVIOUS
<1>4. call[k] \in ResultCall \cup StepCall
  BY <1>1, CallKinds DEF Writing, TypeOK
<1>5. h.op = call[k].op /\ h.open = call[k].open /\ h.pc = "ok"
  BY <1>3, <1>4 DEF ResultCall, StepCall
<1>6. call' = [Crossed EXCEPT ![k] = h]
  BY <1>2, <1>3 DEF Commit, Answered, Ahead
<1>7. call'[k] = h /\ \A j \in Calls : j # k => ~Writing(call'[j])
  <2>1. call'[k] = h  BY <1>6, CrossedType DEF TypeOK
  <2>2. ASSUME NEW j \in Calls, j # k
        PROVE  ~Writing(call'[j])
    <3>1. call'[j] = Crossed[j]  BY <1>6, <2>2, CrossedType DEF TypeOK
    <3>2. ~Writing(call[j])  BY <1>2, <2>2 DEF Ahead
    <3>3. QED  BY <3>1, <3>2, CrossedType DEF TypeOK, Writing
  <2>3. QED  BY <2>1, <2>2
<1>8. Seen(screen'.exec) = Seen(row')
  BY <1>1, <1>2 DEF Commit, Ahead
<1>9. OneAhead'  BY <1>2, <1>5, <1>7, <1>8 DEF OneAhead, Ahead
<1>10. QuietScreenAgrees'  BY <1>8 DEF QuietScreenAgrees
<1>11. QED  BY <1>9, <1>10 DEF Agreeing

\* When the last result has ended, the screen agrees if its entry does.
LEMMA EndedAgrees ==
    ASSUME \A j \in Calls : ~Writing(call'[j]), Seen(screen'.exec) = Seen(row')
    PROVE  Agreeing'
BY DEF Agreeing, QuietScreenAgrees, OneAhead

\* An accepted result changes nothing, a rejected one is rolled back.
LEMMA ResultAnswerAgrees ==
    ASSUME TypeOK, Agreeing, NEW k \in Calls,
           ResultAccepted(k) \/ ResultRejected(k) \/ StepRejected(k)
    PROVE  Agreeing'
<1> SUFFICES ASSUME ~doubt' PROVE Agreeing'  BY InDoubt
<1>1. CASE ResultAccepted(k)
  <2>1. ~doubt /\ row' = row /\ screen' = screen /\ Writing(call[k])
    BY <1>1 DEF ResultAccepted, Writing
  <2>2. Ahead(k) /\ Seen(screen.exec) = Seen(row)
    BY <1>1, <2>1, InFlight DEF Ahead, ResultAccepted
  <2>3. \A j \in Calls : ~Writing(call'[j])
    BY <1>1, <2>2, EndedCalls DEF ResultAccepted, Ahead, Writing, TypeOK
  <2>4. QED  BY <2>1, <2>2, <2>3, EndedAgrees
<1>2. CASE ResultRejected(k)
  <2>1. /\ ~doubt /\ row' = row /\ call[k].pc = "refused" /\ call[k].op = "result"
        /\ Seen(screen'.exec) = Seen(call[k].prev) /\ Writing(call[k])
    BY <1>2 DEF ResultRejected, Writing
  <2>2. Ahead(k)  BY <2>1, InFlight
  <2>3. Seen(call[k].prev) = Seen(row)  BY <2>1, <2>2 DEF Ahead
  <2>4. Closed(k) = Settled  BY <2>1 DEF Closed
  <2>5. ASSUME NEW j \in Calls
        PROVE  ~Writing(call'[j])
    <3>1. CASE j = k
      BY <1>2, <2>4, <3>1, CrossedType, EndedCalls DEF ResultRejected, Writing, TypeOK
    <3>2. CASE j # k
      <4>1. call'[j] = Crossed[j]
        BY <1>2, <3>2, CrossedType DEF ResultRejected, TypeOK
      <4>2. ~Writing(call[j])  BY <2>2, <3>2 DEF Ahead
      <4>3. QED  BY <4>1, <4>2, CrossedType DEF TypeOK, Writing
    <3>3. QED  BY <3>1, <3>2
  <2>6. QED  BY <2>1, <2>3, <2>5, EndedAgrees
<1>3. CASE StepRejected(k)  BY <1>3 DEF StepRejected
<1>4. QED  BY <1>1, <1>2, <1>3

\* A sync brings the row, or leaves what agreed.
LEMMA SyncAgrees ==
    ASSUME TypeOK, Agreeing, SyncExact, NEW k \in Calls, SyncAccepted(k)
    PROVE  Agreeing'
<1> SUFFICES ASSUME ~doubt' PROVE Agreeing'  BY InDoubt
<1>1. /\ ~call[k].crossed /\ ~Busy /\ row' = row
      /\ doubt => Seen(call[k].read) # Blank
      /\ call' = [call EXCEPT ![k] = Settled]
      /\ screen' = Merged(call[k])
  BY DEF SyncAccepted
<1>2. call[k] \in SyncCall  BY CallKinds DEF SyncAccepted, TypeOK
<1>3. call[k].read \in Exec /\ row \in Exec  BY <1>2 DEF SyncCall, TypeOK
<1>4. call[k].read = row
  <2>1. Exact(call[k]) /\ call[k].pc = "ok"
    BY <1>1 DEF SyncAccepted, SyncExact
  <2>2. /\ call[k].read.status = row.status /\ call[k].read.notes = row.notes
        /\ call[k].read.step = row.step
    BY <2>1 DEF Exact
  <2>3. PICK read : read = call[k].read  OBVIOUS
  <2>4. read \in Exec /\ read.status = row.status /\ read.notes = row.notes
        /\ read.step = row.step
    BY <1>3, <2>2, <2>3
  <2>5. read = row  BY <1>3, <2>4 DEF Exec
  <2>6. QED  BY <2>3, <2>5
<1>5. Seen(screen'.exec) = Seen(row)
  <2>1. CASE Seen(row) = Blank
    <3>1. screen'.exec = screen.exec  BY <1>1, <1>4, <2>1 DEF Merged
    <3>2. ~doubt  BY <1>1, <1>4, <2>1
    <3>3. QED  BY <1>1, <3>1, <3>2 DEF Agreeing, QuietScreenAgrees
  <2>2. CASE Seen(row) # Blank
    <3>1. screen'.exec = Seen(row)  BY <1>1, <1>4, <2>2 DEF Merged
    <3>2. QED  BY <1>3, <3>1, SeenOnce
  <2>3. QED  BY <2>1, <2>2
<1>6. \A j \in Calls : ~Writing(call'[j])
  BY <1>1, EndedCalls DEF Busy, Writing, TypeOK
<1>7. QED  BY <1>1, <1>5, <1>6, EndedAgrees

\* A reload forgets what it waits for.
LEMMA ReloadAgrees ==
    ASSUME TypeOK, Agreeing, Reload
    PROVE  Agreeing'
<1> SUFFICES ASSUME ~doubt' PROVE Agreeing'  BY InDoubt
<1>1. ~doubt /\ ~Busy /\ row' = row /\ screen'.exec = screen.exec
  BY DEF Reload, TypeOK, Screen
<1>2. ASSUME NEW j \in Calls
      PROVE  ~Writing(call'[j])
  <2>1. CASE call[j] \in {Idle, Settled}
    BY <2>1, EndedCalls DEF Reload, Writing
  <2>2. CASE call[j] \notin {Idle, Settled}
    <3>1. call[j].op \in {"seal", "sync"}
      BY <1>1, <2>2, CallKinds DEF TypeOK, Busy
    <3>2. Closed(j).op \in {"seal", "none"}
      BY <3>1, ClosedType DEF TypeOK
    <3>3. QED  BY <2>2, <3>2 DEF Reload, Writing
  <2>3. QED  BY <2>1, <2>2
<1>3. Seen(screen.exec) = Seen(row)
  BY <1>1 DEF Agreeing, QuietScreenAgrees
<1>4. QED  BY <1>1, <1>2, <1>3, EndedAgrees

\* Seals, syncs and their answers leave results alone.
LEMMA OtherAgrees ==
    ASSUME TypeOK, Agreeing, NEW k \in Calls,
           \/ ToggleSeal(k) \/ Sync(k) \/ CheckSeal(k) \/ CommitSeal(k)
           \/ ServerFail(k) /\ ~Writing(call[k])
           \/ ReadRuns(k) \/ ReadCases(k) \/ ReadSteps(k)
           \/ SealAccepted(k) \/ SealRejected(k) \/ SyncRejected(k)
           \/ ElsewhereSeal(k)
    PROVE  Agreeing'
<1>1. row' = row /\ doubt' = doubt
  BY DEF ToggleSeal, Sync, CheckSeal, CommitSeal, ServerFail, ReadRuns, ReadCases,
         ReadSteps, SealAccepted, SealRejected, SyncRejected, ElsewhereSeal
<1>2. screen'.exec = screen.exec
  BY DEF ToggleSeal, Sync, CheckSeal, CommitSeal, ServerFail, ReadRuns, ReadCases,
         ReadSteps, SealAccepted, SealRejected, SyncRejected, ElsewhereSeal,
         TypeOK, Screen
<1>3. CASE Sync(k)
  <2>1. \A j \in Calls : Writing(call[j]) \/ Writing(call'[j]) => call'[j] = call[j]
    BY <1>3, EndedCalls DEF Sync, Writing, TypeOK
  <2>2. QED  BY <1>1, <1>2, <2>1, AgreeingKept
<1>4. CASE ~Sync(k)
  <2>1. \A j \in Calls : j # k => call'[j] = call[j]
    BY <1>4 DEF ToggleSeal, CheckSeal, CommitSeal, ServerFail, ReadRuns, ReadCases,
         ReadSteps, SealAccepted, SealRejected, SyncRejected, ElsewhereSeal, TypeOK
  <2>2. ~Writing(call[k])
    BY <1>4, EndedCalls DEF ToggleSeal, CheckSeal, CommitSeal, ReadRuns, ReadCases,
         ReadSteps, SealAccepted, SealRejected, SyncRejected, ElsewhereSeal, Writing
  <2>3. ~Writing(call'[k])
    <3>1. CASE ToggleSeal(k)  BY <3>1 DEF ToggleSeal, Writing, TypeOK
    <3>2. CASE CheckSeal(k) \/ CommitSeal(k) \/ ServerFail(k)
      <4>1. call[k].op = "seal"
        BY <2>2, <3>2 DEF CheckSeal, CommitSeal, ServerFail, Writing
      <4>2. \A o \in {"ok", "refused"} : Answered(k, o).op \in {"seal", "none"}
        BY <4>1, AnsweredType DEF TypeOK
      <4>3. [call[k] EXCEPT !.pc = "checked"].op = "seal"
        BY <4>1, MovedType DEF TypeOK
      <4>4. QED
        BY <3>2, <4>2, <4>3
        DEF CheckSeal, CommitSeal, ServerFail, Writing, TypeOK
    <3>3. CASE ReadRuns(k) \/ ReadCases(k) \/ ReadSteps(k)
      <4>1. call[k] \in SyncCall
        BY <3>3, CallKinds DEF ReadRuns, ReadCases, ReadSteps, TypeOK
      <4>2. call'[k].op = "sync"
        BY <3>3, <4>1 DEF ReadRuns, ReadCases, ReadSteps, TypeOK, SyncCall
      <4>3. QED  BY <4>2 DEF Writing
    <3>4. CASE SealAccepted(k) \/ SyncRejected(k) \/ ElsewhereSeal(k)
      BY <3>4, EndedCalls
      DEF SealAccepted, SyncRejected, ElsewhereSeal, Writing, TypeOK
    <3>5. CASE SealRejected(k)
      <4>1. Closed(k).op \in {"seal", "none"}
        BY <3>5, ClosedType DEF SealRejected, TypeOK
      <4>2. QED  BY <3>5, <4>1 DEF SealRejected, Writing, TypeOK
    <3>6. QED  BY <1>4, <3>1, <3>2, <3>3, <3>4, <3>5
  <2>4. QED  BY <1>1, <1>2, <2>1, <2>2, <2>3, AgreeingKept
<1>5. QED  BY <1>3, <1>4

-----------------------------------------------------------------------------
(* The theorem *)

\* Every step keeps the screen in agreement.
LEMMA NextAgrees ==
    ASSUME TypeOK, Agreeing, SyncExact, [Next]_vars
    PROVE  Agreeing'
<1>1. CASE UNCHANGED vars  BY <1>1, AgreeingKept DEF vars
<1>2. CASE Reload  BY <1>2, ReloadAgrees
<1>3. ASSUME NEW k \in Calls, Elsewhere(k)
      PROVE  Agreeing'
  BY <1>3, InDoubt DEF Elsewhere
<1>4. ASSUME NEW k \in Calls, CheckRun(k) \/ ServerFail(k)
      PROVE  Agreeing'
  <2>1. CASE Writing(call[k])  BY <1>4, <2>1, CheckedAgrees
  <2>2. CASE ~Writing(call[k])
    BY <1>4, <2>2, OtherAgrees DEF CheckRun, Writing
  <2>3. QED  BY <2>1, <2>2
<1>5. QED
  BY <1>1, <1>2, <1>3, <1>4, RecordResultAgrees, RecordStepAgrees, CommitAgrees,
     ResultAnswerAgrees, SyncAgrees, OtherAgrees DEF Next

\* The initial state agrees.
LEMMA InitAgrees == Init => Agreeing /\ SyncExact
<1> SUFFICES ASSUME Init PROVE Agreeing /\ SyncExact  OBVIOUS
<1>1. \A k \in Calls : call[k] = Idle /\ ~Writing(call[k])
  BY EndedCalls DEF Init, Writing
<1>2. Seen(screen.exec) = Seen(row)
  <2>1. screen.exec = None /\ row = Blank  BY DEF Init
  <2>2. Blank \in Exec  BY ClientAssumption DEF Blank, Exec
  <2>3. Shown(None) = Blank /\ Shown(Blank) = Blank  BY DEF Shown
  <2>4. QED  BY <2>1, <2>3 DEF Seen
<1>3. Agreeing  BY <1>1, <1>2 DEF Agreeing, QuietScreenAgrees, OneAhead
<1>4. SyncExact  BY <1>1, EndedCalls DEF SyncExact
<1>5. QED  BY <1>3, <1>4

\* A screen that waits for nothing and is not in doubt shows what the server
\* has (FreshProvider.tsx:1673-1731 and 319-338), in every instance.
THEOREM QuietAgrees == Spec => []QuietScreenAgrees
<1>1. Init => IInv  BY InitType, InitAgrees DEF IInv, Agreeing
<1>2. IInv /\ [Next]_vars => IInv'
  BY NextType, NextAgrees, NextSyncExact DEF IInv, Agreeing
<1>3. IInv => QuietScreenAgrees  BY DEF IInv
<1>4. QED  BY <1>1, <1>2, <1>3, PTL DEF Spec
=============================================================================
