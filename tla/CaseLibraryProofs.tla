------------------------- MODULE CaseLibraryProofs -------------------------
(***************************************************************************)
(* What the library of cases keeps, for any folders, cases, requirements,  *)
(* actors, forms and number of requests.  A step id is known of one case   *)
(* only (Owned), so the foreign key of a comment, which does not look at   *)
(* the case, holds in the case commented on; and what a check has found    *)
(* stays so, rows being never deleted (Ready).  What a list has seen it    *)
(* shows (Kept).                                                           *)
(***************************************************************************)
EXTENDS CaseLibrary, TLAPS

-----------------------------------------------------------------------------
(* The inductive invariant *)

\* The part of TypeOK that is about types.
Typed ==
    /\ folder \in [Folders -> Folders \cup {None, Absent}]
    /\ case \in [Cases -> {None} \cup CaseRow]
    /\ steps \in [Cases -> Seq(Step)]
    /\ comment \in [Requests -> {None} \cup CommentRow]
    /\ linked \subseteq Cases \X Requirements
    /\ caseLog \in Seq(LogRow)
    /\ linkLog \in Seq(Cases \X Requirements)
    /\ req \in [Requests -> AnyRequest]

\* The part that is about comments.
Shown == \A c \in Cases : Visible(steps[c], CommentsOf(c)) = CommentsOf(c)

\* A creation has every field; a request past its check writes to a row.
ReadyBy(r, h) ==
    /\ h.op = "create" => /\ h.case = r
                          /\ h.fields \in CaseRow
                          /\ h.steps \in Seq(Step)
    /\ h.op = "update" /\ h.pc = "commit" => case[h.case] \in CaseRow
    /\ h.op = "archive" /\ h.pc # "check" => case[h.case] \in CaseRow

Ready == \A r \in Requests : ReadyBy(r, req[r])

\* A request past its check of case c, on which it may write.
WritesTo(h, c) ==
    /\ h.op \in {"update", "comment", "archive"}
    /\ h.pc # "check" /\ h.case = c

\* The case of a request that has not made it: nobody has found it.
Making(r) == req[r] = Idle \/ req[r].op = "create"
UnmadeBy(r) ==
    Making(r) =>
        /\ case[r] = None
        /\ \A q \in Requests :
              ~WritesTo(req[q], r) /\ (comment[q] # None => comment[q].case # r)

Unmade == \A r \in Requests : UnmadeBy(r)

\* A request knows step s of case c: it would write it, or a comment on it.
KnownBy(h, s, c) ==
    \/ /\ h.op \in {"create", "update"} /\ h.case = c
       /\ h.steps # Absent /\ s \in Ids(h.steps)
    \/ h.op = "comment" /\ h.case = c /\ h.step = s /\ s # None

Known(s, c) ==
    \/ s \in Ids(steps[c])
    \/ \E r \in Requests : KnownBy(req[r], s, c)

\* No step is known of two cases.
Owned ==
    \A s \in StepId : \A c, d \in Cases : Known(s, c) /\ Known(s, d) => c = d

\* A request that has not come has given no step its id.
Fresh ==
    \A r \in Requests : req[r] = Idle =>
        \A n \in Nat : \A c \in Cases : ~Known(<<r, n>>, c)

IInv == Typed /\ Ready /\ Unmade /\ Owned /\ Fresh /\ Shown /\ AuditReplaysCases

-----------------------------------------------------------------------------
(* Types *)

rows == <<folder, case, steps, comment, linked, caseLog, linkLog>>

\* The steps that write nothing but what the request itself knows.
Quiet(r) ==
    \/ PostFolder(r) \/ CheckFolder(r)
    \/ PostCase(r) \/ PatchCase(r) \/ CheckSave(r)
    \/ DeleteCase(r) \/ CheckArchive(r)
    \/ PostComment(r) \/ CheckCommented(r) \/ CheckStep(r)
    \/ PostLink(r) \/ CheckLinkedCase(r) \/ CheckLink(r)
    \/ GetCases(r) \/ GetCase(r)
    \/ ReadRows(r) \/ ReadSteps(r) \/ ReadComments(r) \/ ReadLinks(r)
    \/ Abandon(r)

\* What a request has, by its method.
LEMMA Kinds ==
    ASSUME NEW h \in AnyRequest
    PROVE  /\ h.op = "folder" => h \in FolderRequest
           /\ h.op \in {"create", "update"} => h \in SaveRequest
           /\ h.op = "archive" => h \in ArchiveRequest
           /\ h.op = "comment" => h \in CommentRequest
           /\ h.op = "link" => h \in LinkRequest
           /\ h.op = "read" => h \in ReadRequest
           /\ h.pc = "idle" => h = Idle
           /\ h.pc = "settled" => h = Settled
<1>1. CASE h = Idle \/ h = Settled
  <2>1. h = Idle => h.op = "none" /\ h.pc = "idle"  BY DEF Idle
  <2>2. h = Settled => h.op = "none" /\ h.pc = "settled"  BY DEF Settled
  <2>3. QED  BY <1>1, <2>1, <2>2
<1> USE DEF FolderRequest, SaveRequest, ArchiveRequest, CommentRequest,
            LinkRequest, ReadRequest
<1>2. CASE h \in FolderRequest  BY <1>2
<1>3. CASE h \in SaveRequest  BY <1>3
<1>4. CASE h \in ArchiveRequest  BY <1>4
<1>5. CASE h \in CommentRequest  BY <1>5
<1>6. CASE h \in LinkRequest  BY <1>6
<1>7. CASE h \in ReadRequest  BY <1>7
<1>8. QED
  <2>1. \/ h = Idle \/ h = Settled \/ h \in FolderRequest \/ h \in SaveRequest
        \/ h \in ArchiveRequest \/ h \in CommentRequest \/ h \in LinkRequest
        \/ h \in ReadRequest
    BY Zenon DEF AnyRequest
  <2>2. QED  BY <1>1, <1>2, <1>3, <1>4, <1>5, <1>6, <1>7, <2>1

\* A request of a kind stays one of it when it goes on.
LEMMA GoesOn ==
    ASSUME NEW h, NEW pc
    PROVE  /\ h \in FolderRequest /\ pc \in {"check", "insert"} =>
                 [h EXCEPT !.pc = pc] \in FolderRequest
           /\ h \in SaveRequest /\ pc \in {"check", "commit"} =>
                 [h EXCEPT !.pc = pc] \in SaveRequest
           /\ h \in ArchiveRequest /\ pc \in {"check", "write", "audit", "unaudited"} =>
                 [h EXCEPT !.pc = pc] \in ArchiveRequest
           /\ h \in CommentRequest /\ pc \in {"check", "check step", "commit"} =>
                 [h EXCEPT !.pc = pc] \in CommentRequest
           /\ h \in LinkRequest /\ pc \in {"check", "check link", "commit"} =>
                 [h EXCEPT !.pc = pc] \in LinkRequest
           /\ h \in ReadRequest /\ h.pc # "rows" /\ pc \in {"steps", "comments", "links"} =>
                 [h EXCEPT !.pc = pc] \in ReadRequest
BY DEF FolderRequest, SaveRequest, ArchiveRequest, CommentRequest, LinkRequest,
       ReadRequest

\* The ids of a list of steps.
LEMMA StepIds ==
    ASSUME NEW list \in Seq(Step)
    PROVE  Ids(list) \subseteq StepId
<1>1. ASSUME NEW i \in DOMAIN list  PROVE list[i].id \in StepId
  <2>1. list[i] \in Step  OBVIOUS
  <2>2. QED  BY <2>1 DEF Step
<1>2. QED  BY <1>1 DEF Ids

\* What a form sends is a list of steps, each with the id of a step of the list
\* that the form was opened on or with one that the request makes.
LEMMA SentTyped ==
    ASSUME NEW r \in Requests, NEW places \in Seq(Nat), NEW old \in Seq(Step)
    PROVE  /\ Sent(r, places, old) \in Seq(Step)
           /\ \A s \in Ids(Sent(r, places, old)) :
                 s \in Ids(old) \/ \E n \in Nat : s = <<r, n>>
<1>1. r \in Cases  BY DEF Cases
<1>2. DOMAIN places = 1..Len(places) /\ Len(places) \in Nat
  OBVIOUS
<1>3. ASSUME NEW i \in DOMAIN places
      PROVE  LET s == IF places[i] \in DOMAIN old THEN old[places[i]].id ELSE <<r, i>>
             IN /\ s \in StepId
                /\ s \in Ids(old) \/ \E n \in Nat : s = <<r, n>>
  <2>1. i \in Nat  BY <1>2
  <2>2. ASSUME places[i] \in DOMAIN old
        PROVE  old[places[i]].id \in StepId /\ old[places[i]].id \in Ids(old)
    <3>1. old[places[i]] \in Step  BY <2>2
    <3>2. QED  BY <2>2, <3>1 DEF Step, Ids
  <2>3. <<r, i>> \in StepId  BY <1>1, <2>1 DEF StepId
  <2>4. CASE places[i] \in DOMAIN old  BY <2>2, <2>4
  <2>5. CASE places[i] \notin DOMAIN old  BY <2>1, <2>3, <2>5
  <2>6. QED  BY <2>4, <2>5
<1>4. Sent(r, places, old) \in [1..Len(places) -> Step]
  BY <1>2, <1>3 DEF Sent, Step
<1>5. QED
  <2>1. Sent(r, places, old) \in Seq(Step)
    <3> DEFINE list == Sent(r, places, old)
    <3>1. list \in [1..Len(places) -> Step]  BY <1>4
    <3> HIDE DEF list
    <3>2. list \in Seq(Step)  BY <1>2, <3>1
    <3>3. QED  BY <3>2 DEF list
  <2>2. DOMAIN Sent(r, places, old) = DOMAIN places  BY DEF Sent
  <2>3. \A i \in DOMAIN places : Sent(r, places, old)[i].id =
            IF places[i] \in DOMAIN old THEN old[places[i]].id ELSE <<r, i>>
    BY DEF Sent
  <2>4. QED  BY <1>3, <2>1, <2>2, <2>3 DEF Ids

-----------------------------------------------------------------------------
(* Quiet steps *)

\* The archiving of c is written and not yet logged, or never will be.
Unlogged(h, c) == h.op = "archive" /\ h.case = c /\ h.pc \in {"audit", "unaudited"}

\* What r knows after a quiet step: nothing about a step that was not known,
\* unless it has just come and made the step.
Moves(r, x) ==
    /\ UNCHANGED rows
    /\ req' = [req EXCEPT ![r] = x]
    /\ x \in AnyRequest
    /\ x # Idle
    /\ ReadyBy(r, x)
    /\ \A s \in StepId : \A c \in Cases : KnownBy(x, s, c) =>
          \/ Known(s, c)
          \/ req[r] = Idle /\ x.case = c /\ \E n \in Nat : s = <<r, n>>
    /\ \A c \in Cases : Unlogged(req[r], c) => Unlogged(x, c)
    /\ \A c \in Cases : WritesTo(x, c) => WritesTo(req[r], c) \/ case[c] # None
    /\ x.op = "create" => Making(r)

\* A request that ends, that reads, or that has only its method and its case.
LEMMA ForgetMoves ==
    ASSUME NEW r \in Requests, NEW x \in AnyRequest, UNCHANGED rows,
           req' = [req EXCEPT ![r] = x], x # Idle,
           x.op \notin {"create", "update", "comment", "archive"},
           req[r].op # "archive" \/ req[r].pc \notin {"audit", "unaudited"}
    PROVE  Moves(r, x)
BY DEF Moves, ReadyBy, KnownBy, Unlogged, WritesTo

LEMMA SettleMoves ==
    ASSUME NEW r \in Requests, UNCHANGED rows, Settle(r),
           req[r].op # "archive" \/ req[r].pc \notin {"audit", "unaudited"}
    PROVE  Moves(r, Settled)
<1>1. Settled \in AnyRequest /\ Settled # Idle /\ Settled.op = "none"
  BY DEF AnyRequest, Settled, Idle
<1>2. req' = [req EXCEPT ![r] = Settled]  BY DEF Settle
<1>3. QED  BY <1>1, <1>2, ForgetMoves

\* A request that goes on knows what it knew.
LEMMA GotoMoves ==
    ASSUME NEW r \in Requests, Typed, Ready, UNCHANGED rows, NEW pc, Goto(r, pc),
           [req[r] EXCEPT !.pc = pc] \in AnyRequest, pc # "idle",
           req[r].op \in {"folder", "create", "update", "archive", "comment",
                          "link", "read"},
           req[r].op = "update" /\ pc = "commit" => case[req[r].case] \in CaseRow,
           req[r].op = "archive" =>
               /\ case[req[r].case] \in CaseRow
               /\ req[r].pc \in {"audit", "unaudited"} => pc \in {"audit", "unaudited"},
           req[r].op \in {"update", "comment", "archive"} /\ req[r].pc = "check" =>
               case[req[r].case] # None
    PROVE  Moves(r, [req[r] EXCEPT !.pc = pc])
<1> DEFINE h == req[r]
           x == [h EXCEPT !.pc = pc]
<1>1. h \in AnyRequest /\ ReadyBy(r, h)  BY DEF Typed, Ready
<1>2. \/ h \in FolderRequest \/ h \in SaveRequest \/ h \in ArchiveRequest
      \/ h \in CommentRequest \/ h \in LinkRequest \/ h \in ReadRequest
  BY <1>1, Kinds
<1>3. req' = [req EXCEPT ![r] = x]
  BY DEF Goto
<1>4. x \in AnyRequest  OBVIOUS
<1>5. /\ h.op = "update" /\ pc = "commit" => case[h.case] \in CaseRow
      /\ h.op = "archive" =>
            /\ case[h.case] \in CaseRow
            /\ h.pc \in {"audit", "unaudited"} => pc \in {"audit", "unaudited"}
      /\ h.op \in {"update", "comment", "archive"} /\ h.pc = "check" =>
            case[h.case] # None
      /\ pc # "idle"
  OBVIOUS
<1>6. req[r] = h  OBVIOUS
<1> HIDE DEF h
<1>7. x.op = h.op /\ x.pc = pc
  BY <1>2 DEF FolderRequest, SaveRequest, ArchiveRequest, CommentRequest,
              LinkRequest, ReadRequest
<1>8. h.op \in {"create", "update"} =>
         x.case = h.case /\ x.fields = h.fields /\ x.steps = h.steps
  BY <1>2 DEF FolderRequest, SaveRequest, ArchiveRequest, CommentRequest,
              LinkRequest, ReadRequest
<1>9. h.op = "archive" => x.case = h.case
  BY <1>2 DEF FolderRequest, SaveRequest, ArchiveRequest, CommentRequest,
              LinkRequest, ReadRequest
<1>10. h.op = "comment" => x.case = h.case /\ x.step = h.step
  BY <1>2 DEF FolderRequest, SaveRequest, ArchiveRequest, CommentRequest,
              LinkRequest, ReadRequest
<1> HIDE DEF x
<1>11. x # Idle  BY <1>5, <1>7 DEF Idle
<1>12. ReadyBy(r, x)
  BY <1>1, <1>5, <1>7, <1>8, <1>9 DEF ReadyBy
<1>13. ASSUME NEW s \in StepId, NEW c \in Cases, KnownBy(x, s, c)
       PROVE  Known(s, c)
  BY <1>6, <1>7, <1>8, <1>10, <1>13 DEF KnownBy, Known
<1>14. \A c \in Cases : Unlogged(req[r], c) => Unlogged(x, c)
  BY <1>5, <1>6, <1>7, <1>9 DEF Unlogged
<1>15. /\ \A c \in Cases : WritesTo(x, c) => WritesTo(req[r], c) \/ case[c] # None
       /\ x.op = "create" => Making(r)
  BY <1>5, <1>6, <1>7, <1>8, <1>9, <1>10 DEF WritesTo, Making
<1>16. Moves(r, x)
  BY <1>3, <1>4, <1>11, <1>12, <1>13, <1>14, <1>15 DEF Moves
<1>17. QED  BY <1>6, <1>16 DEF x

\* The edit of a form, and the fields it sends.
LEMMA EditTyped ==
    ASSUME NEW r \in Requests, NEW e \in Edits
    PROVE  /\ e.folder \in Folders \cup {None, Absent}
           /\ e.archived \in BOOLEAN \cup {Absent}
           /\ e.steps \in Seq(Nat) \cup {Absent}
           /\ Body(r, e) \in Fields
           /\ r \in Cases /\ r \in Folders
<1>1. e \in Edit  BY LibraryAssumption
<1>2. QED  BY <1>1 DEF Edit, Body, Fields, Cases, Folders

\* A handler that goes on to read.
LEMMA ReadBackTyped ==
    ASSUME NEW c \in Cases
    PROVE  /\ ReadBack(c) \in AnyRequest
           /\ ReadBack(c).op = "read" /\ ReadBack(c).pc = "rows"
BY DEF ReadBack, AnyRequest, ReadRequest

\* A quiet step is one of those, or brings in a request.
LEMMA QuietMoves ==
    ASSUME Typed, Ready, NEW r \in Requests, Quiet(r)
    PROVE  \E x \in AnyRequest : Moves(r, x)
<1> DEFINE h == req[r]
<1>1. h \in AnyRequest /\ ReadyBy(r, h)  BY DEF Typed, Ready
<1>2. req = [q \in Requests |-> req[q]]  BY DEF Typed
<1>3. Idle.op = "none" /\ Idle.pc = "idle"  BY DEF Idle
<1>4. CASE PostFolder(r)
  <2>1. PICK u \in Users, p \in Folders \cup {None} :
           req' = [req EXCEPT ![r] = [op |-> "folder", pc |-> "check",
                                      actor |-> u, parent |-> p]]
    BY <1>4 DEF PostFolder
  <2> DEFINE x == [op |-> "folder", pc |-> "check", actor |-> u, parent |-> p]
  <2>2. x \in AnyRequest /\ x.op = "folder" /\ x.pc # "idle"
    BY DEF AnyRequest, FolderRequest
  <2> HIDE DEF x
  <2>3. x # Idle  BY <2>2, <1>3
  <2>4. req' = [req EXCEPT ![r] = x]  BY <2>1 DEF x
  <2>5. UNCHANGED rows /\ h = Idle  BY <1>4 DEF PostFolder, rows
  <2>6. Moves(r, x)  BY <2>2, <2>3, <2>4, <2>5, <1>3, ForgetMoves
  <2>7. QED  BY <2>2, <2>6
<1>5. CASE CheckFolder(r)
  <2>1. UNCHANGED rows /\ (Goto(r, "insert") \/ Settle(r))
    BY <1>5 DEF CheckFolder, rows
  <2>2. h.op = "folder" /\ h.pc = "check"
    BY <1>5 DEF CheckFolder
  <2>3. h \in FolderRequest
    BY <1>1, <2>2, Kinds
  <2>4. CASE Goto(r, "insert")
    <3>1. [h EXCEPT !.pc = "insert"] \in AnyRequest
      BY <2>3, GoesOn DEF AnyRequest
    <3>3. Moves(r, [h EXCEPT !.pc = "insert"])
      BY <2>1, <2>2, <2>4, <3>1, GotoMoves
    <3>4. QED  BY <3>1, <3>3
  <2>5. CASE Settle(r)
    <3>1. Moves(r, Settled)  BY <2>1, <2>2, <2>5, SettleMoves
    <3>2. QED  BY <3>1 DEF Moves
  <2>6. QED  BY <2>1, <2>4, <2>5
<1>6. CASE PostCase(r)
  <2>1. PICK u \in Users, e \in Edits :
           /\ e.folder # Absent /\ e.steps # Absent
           /\ req' = [req EXCEPT ![r] =
                 [op |-> "create", pc |-> "check", actor |-> u, case |-> r,
                  fields |-> [folder |-> e.folder, title |-> r, archived |-> FALSE],
                  steps |-> Sent(r, e.steps, <<>>)]]
    BY <1>6 DEF PostCase
  <2> DEFINE list == Sent(r, e.steps, <<>>)
             fields == [folder |-> e.folder, title |-> r, archived |-> FALSE]
             x == [op |-> "create", pc |-> "check", actor |-> u, case |-> r,
                   fields |-> fields, steps |-> list]
  <2>2. /\ list \in Seq(Step)
        /\ \A s \in Ids(list) : \E n \in Nat : s = <<r, n>>
    <3>1. e.steps \in Seq(Nat)  BY <2>1, EditTyped
    <3>2. <<>> \in Seq(Step) /\ Ids(<<>>) = {}  BY DEF Ids
    <3>3. QED  BY <3>1, <3>2, SentTyped
  <2>3. fields \in CaseRow /\ fields \in Fields
    BY <2>1, EditTyped DEF CaseRow, Sender, Fields
  <2>4. req' = [req EXCEPT ![r] = x]  BY <2>1
  <2> HIDE DEF list, fields
  <2>5. x \in SaveRequest
    BY <2>2, <2>3, EditTyped DEF SaveRequest
  <2>6. /\ x.op = "create" /\ x.pc = "check" /\ x.case = r
        /\ x.fields = fields /\ x.steps = list
    OBVIOUS
  <2> HIDE DEF x
  <2>7. x \in AnyRequest /\ x # Idle  BY <2>5, <2>6, <1>3 DEF AnyRequest
  <2>8. UNCHANGED rows /\ h = Idle  BY <1>6 DEF PostCase, rows
  <2>9. ReadyBy(r, x)  BY <2>2, <2>3, <2>6 DEF ReadyBy
  <2>10. ASSUME NEW s \in StepId, NEW c \in Cases, KnownBy(x, s, c)
         PROVE  x.case = c /\ \E n \in Nat : s = <<r, n>>
    BY <2>2, <2>6, <2>10 DEF KnownBy
  <2>11. \A c \in Cases : ~Unlogged(h, c)  BY <2>8, <1>3 DEF Unlogged
  <2>12. Making(r) /\ \A c \in Cases : ~WritesTo(x, c)
    BY <2>6, <2>8 DEF Making, WritesTo
  <2>13. Moves(r, x)
    BY <2>4, <2>7, <2>8, <2>9, <2>10, <2>11, <2>12 DEF Moves
  <2>14. QED  BY <2>7, <2>13
<1>7. CASE PatchCase(r)
  <2>1. PICK u \in Users, c \in Cases, e \in Edits :
           req' = [req EXCEPT ![r] =
                 [op |-> "update", pc |-> "check", actor |-> u, case |-> c,
                  fields |-> Body(r, e),
                  steps |-> IF e.steps = Absent THEN Absent
                            ELSE Sent(r, e.steps, steps[c])]]
    BY <1>7 DEF PatchCase
  <2> DEFINE list == IF e.steps = Absent THEN Absent ELSE Sent(r, e.steps, steps[c])
             x == [op |-> "update", pc |-> "check", actor |-> u, case |-> c,
                   fields |-> Body(r, e), steps |-> list]
  <2>2. /\ list \in Seq(Step) \cup {Absent}
        /\ list # Absent =>
              \A s \in Ids(list) : s \in Ids(steps[c]) \/ \E n \in Nat : s = <<r, n>>
    <3>1. CASE e.steps = Absent  BY <3>1
    <3>2. CASE e.steps # Absent
      <4>1. e.steps \in Seq(Nat)  BY <3>2, EditTyped
      <4>2. steps[c] \in Seq(Step)  BY DEF Typed
      <4>3. QED  BY <3>2, <4>1, <4>2, SentTyped
    <3>3. QED  BY <3>1, <3>2
  <2>3. req' = [req EXCEPT ![r] = x]  BY <2>1
  <2> HIDE DEF list
  <2>4. x \in SaveRequest
    BY <2>2, EditTyped DEF SaveRequest
  <2>5. /\ x.op = "update" /\ x.pc = "check" /\ x.case = c /\ x.steps = list
    OBVIOUS
  <2> HIDE DEF x
  <2>6. x \in AnyRequest /\ x # Idle  BY <2>4, <2>5, <1>3 DEF AnyRequest
  <2>7. UNCHANGED rows /\ h = Idle  BY <1>7 DEF PatchCase, rows
  <2>8. ReadyBy(r, x)  BY <2>5 DEF ReadyBy
  <2>9. ASSUME NEW s \in StepId, NEW d \in Cases, KnownBy(x, s, d)
         PROVE  \/ Known(s, d)
                \/ x.case = d /\ \E n \in Nat : s = <<r, n>>
    BY <2>2, <2>5, <2>9 DEF KnownBy, Known
  <2>10. \A d \in Cases : ~Unlogged(h, d)  BY <2>7, <1>3 DEF Unlogged
  <2>11. Making(r) /\ \A d \in Cases : ~WritesTo(x, d)
    BY <2>5, <2>7 DEF Making, WritesTo
  <2>12. Moves(r, x)
    BY <2>3, <2>6, <2>7, <2>8, <2>9, <2>10, <2>11 DEF Moves
  <2>13. QED  BY <2>6, <2>12
<1>8. CASE CheckSave(r)
  <2>1. UNCHANGED rows /\ (Goto(r, "commit") \/ Settle(r))
    BY <1>8 DEF CheckSave, rows
  <2>2. h.op \in {"create", "update"} /\ h.pc = "check"
    BY <1>8 DEF CheckSave
  <2>3. h \in SaveRequest
    BY <1>1, <2>2, Kinds
  <2>4. CASE Goto(r, "commit")
    <3>1. [h EXCEPT !.pc = "commit"] \in AnyRequest
      BY <2>3, GoesOn DEF AnyRequest
    <3>2. h.op = "update" => case[h.case] # None /\ case[h.case] \in CaseRow
      BY <1>8, <2>3, <2>4 DEF CheckSave, Typed, SaveRequest, Goto, Settle, Settled
    <3>3. Moves(r, [h EXCEPT !.pc = "commit"])
      BY <2>1, <2>2, <2>4, <3>1, <3>2, GotoMoves
    <3>4. QED  BY <3>1, <3>3
  <2>5. CASE Settle(r)
    <3>1. Moves(r, Settled)  BY <2>1, <2>2, <2>5, SettleMoves
    <3>2. QED  BY <3>1 DEF Moves
  <2>6. QED  BY <2>1, <2>4, <2>5
<1>9. CASE DeleteCase(r)
  <2>1. PICK u \in Users, c \in Cases :
           req' = [req EXCEPT ![r] = [op |-> "archive", pc |-> "check",
                                      actor |-> u, case |-> c]]
    BY <1>9 DEF DeleteCase
  <2> DEFINE x == [op |-> "archive", pc |-> "check", actor |-> u, case |-> c]
  <2>2. x \in AnyRequest /\ x.op = "archive" /\ x.pc = "check"
    BY DEF AnyRequest, ArchiveRequest
  <2> HIDE DEF x
  <2>3. req' = [req EXCEPT ![r] = x]  BY <2>1 DEF x
  <2>4. UNCHANGED rows /\ h = Idle  BY <1>9 DEF DeleteCase, rows
  <2>5. x # Idle /\ ReadyBy(r, x)  BY <2>2, <1>3 DEF ReadyBy
  <2>6. \A s \in StepId : \A d \in Cases : ~KnownBy(x, s, d)
    BY <2>2 DEF KnownBy
  <2>7. \A d \in Cases : ~Unlogged(h, d)  BY <2>4, <1>3 DEF Unlogged
  <2>8. Making(r) /\ \A d \in Cases : ~WritesTo(x, d)
    BY <2>2, <2>4 DEF Making, WritesTo
  <2>9. Moves(r, x)  BY <2>2, <2>3, <2>4, <2>5, <2>6, <2>7, <2>8 DEF Moves
  <2>10. QED  BY <2>2, <2>9
<1>10. CASE CheckArchive(r)
  <2>1. UNCHANGED rows /\ (Goto(r, "write") \/ Settle(r))
    BY <1>10 DEF CheckArchive, rows
  <2>2. h.op = "archive" /\ h.pc = "check"
    BY <1>10 DEF CheckArchive
  <2>3. h \in ArchiveRequest
    BY <1>1, <2>2, Kinds
  <2>4. CASE Goto(r, "write")
    <3>1. [h EXCEPT !.pc = "write"] \in AnyRequest
      BY <2>3, GoesOn DEF AnyRequest
    <3>2. case[h.case] # None /\ case[h.case] \in CaseRow
      BY <1>10, <2>3, <2>4 DEF CheckArchive, Typed, ArchiveRequest, Goto, Settle, Settled
    <3>3. Moves(r, [h EXCEPT !.pc = "write"])
      BY <2>1, <2>2, <2>4, <3>1, <3>2, GotoMoves
    <3>4. QED  BY <3>1, <3>3
  <2>5. CASE Settle(r)
    <3>1. Moves(r, Settled)  BY <2>1, <2>2, <2>5, SettleMoves
    <3>2. QED  BY <3>1 DEF Moves
  <2>6. QED  BY <2>1, <2>4, <2>5
<1>11. CASE PostComment(r)
  <2>1. PICK u \in Users, c \in Cases : \E s \in Ids(steps[c]) \cup {None} :
           req' = [req EXCEPT ![r] = [op |-> "comment", pc |-> "check",
                                      actor |-> u, case |-> c, step |-> s]]
    BY <1>11 DEF PostComment
  <2>2. PICK t \in Ids(steps[c]) \cup {None} :
           req' = [req EXCEPT ![r] = [op |-> "comment", pc |-> "check",
                                      actor |-> u, case |-> c, step |-> t]]
    BY <2>1
  <2> DEFINE x == [op |-> "comment", pc |-> "check", actor |-> u, case |-> c,
                   step |-> t]
  <2>3. t \in StepId \cup {None}
    <3>1. steps[c] \in Seq(Step)  BY DEF Typed
    <3>2. QED  BY <3>1, StepIds
  <2>4. /\ x \in AnyRequest /\ x.op = "comment" /\ x.pc = "check"
        /\ x.case = c /\ x.step = t
    BY <2>3 DEF AnyRequest, CommentRequest
  <2> HIDE DEF x
  <2>5. req' = [req EXCEPT ![r] = x]  BY <2>2 DEF x
  <2>6. UNCHANGED rows /\ h = Idle  BY <1>11 DEF PostComment, rows
  <2>7. x # Idle /\ ReadyBy(r, x)  BY <2>4, <1>3 DEF ReadyBy
  <2>8. ASSUME NEW s \in StepId, NEW d \in Cases, KnownBy(x, s, d)
        PROVE  Known(s, d)
    BY <2>2, <2>4, <2>8 DEF KnownBy, Known
  <2>9. \A d \in Cases : ~Unlogged(h, d)  BY <2>6, <1>3 DEF Unlogged
  <2>10. Making(r) /\ \A d \in Cases : ~WritesTo(x, d)
    BY <2>4, <2>6 DEF Making, WritesTo
  <2>11. Moves(r, x)
    BY <2>4, <2>5, <2>6, <2>7, <2>8, <2>9, <2>10 DEF Moves
  <2>12. QED  BY <2>4, <2>11
<1>12. CASE CheckCommented(r)
  <2>1. UNCHANGED rows /\ (Goto(r, "commit") \/ Goto(r, "check step") \/ Settle(r))
    BY <1>12 DEF CheckCommented, rows
  <2>2. h.op = "comment" /\ h.pc = "check"
    BY <1>12 DEF CheckCommented
  <2>3. h \in CommentRequest
    BY <1>1, <2>2, Kinds
  <2>4. CASE Goto(r, "commit")
    <3>1. [h EXCEPT !.pc = "commit"] \in AnyRequest
      BY <2>3, GoesOn DEF AnyRequest
    <3>2. case[h.case] # None
      BY <1>12, <2>3, <2>4 DEF CheckCommented, Typed, CommentRequest, Goto, Settle, Settled
    <3>3. Moves(r, [h EXCEPT !.pc = "commit"])
      BY <2>1, <2>2, <2>4, <3>1, <3>2, GotoMoves
    <3>4. QED  BY <3>1, <3>3
  <2>5. CASE Goto(r, "check step")
    <3>1. [h EXCEPT !.pc = "check step"] \in AnyRequest
      BY <2>3, GoesOn DEF AnyRequest
    <3>2. case[h.case] # None
      BY <1>12, <2>3, <2>5 DEF CheckCommented, Typed, CommentRequest, Goto, Settle, Settled
    <3>3. Moves(r, [h EXCEPT !.pc = "check step"])
      BY <2>1, <2>2, <2>5, <3>1, <3>2, GotoMoves
    <3>4. QED  BY <3>1, <3>3
  <2>6. CASE Settle(r)
    <3>1. Moves(r, Settled)  BY <2>1, <2>2, <2>6, SettleMoves
    <3>2. QED  BY <3>1 DEF Moves
  <2>7. QED  BY <2>1, <2>4, <2>5, <2>6
<1>13. CASE CheckStep(r)
  <2>1. UNCHANGED rows /\ (Goto(r, "commit") \/ Settle(r))
    BY <1>13 DEF CheckStep, rows
  <2>2. h.op = "comment" /\ h.pc = "check step"
    BY <1>13 DEF CheckStep
  <2>3. h \in CommentRequest
    BY <1>1, <2>2, Kinds
  <2>4. CASE Goto(r, "commit")
    <3>1. [h EXCEPT !.pc = "commit"] \in AnyRequest
      BY <2>3, GoesOn DEF AnyRequest
    <3>3. Moves(r, [h EXCEPT !.pc = "commit"])
      BY <2>1, <2>2, <2>4, <3>1, GotoMoves
    <3>4. QED  BY <3>1, <3>3
  <2>5. CASE Settle(r)
    <3>1. Moves(r, Settled)  BY <2>1, <2>2, <2>5, SettleMoves
    <3>2. QED  BY <3>1 DEF Moves
  <2>6. QED  BY <2>1, <2>4, <2>5
<1>14. CASE PostLink(r)
  <2>1. PICK u \in Users, c \in Cases, q \in Requirements :
           req' = [req EXCEPT ![r] = [op |-> "link", pc |-> "check", actor |-> u,
                                      case |-> c, requirement |-> q]]
    BY <1>14 DEF PostLink
  <2> DEFINE x == [op |-> "link", pc |-> "check", actor |-> u,
                                      case |-> c, requirement |-> q]
  <2>2. x \in AnyRequest /\ x.op = "link" /\ x.pc # "idle"
    BY DEF AnyRequest, LinkRequest
  <2> HIDE DEF x
  <2>3. x # Idle  BY <2>2, <1>3
  <2>4. req' = [req EXCEPT ![r] = x]  BY <2>1 DEF x
  <2>5. UNCHANGED rows /\ h = Idle  BY <1>14 DEF PostLink, rows
  <2>6. Moves(r, x)  BY <2>2, <2>3, <2>4, <2>5, <1>3, ForgetMoves
  <2>7. QED  BY <2>2, <2>6
<1>15. CASE CheckLinkedCase(r)
  <2>1. UNCHANGED rows /\ (Goto(r, "check link") \/ Settle(r))
    BY <1>15 DEF CheckLinkedCase, rows
  <2>2. h.op = "link" /\ h.pc = "check"
    BY <1>15 DEF CheckLinkedCase
  <2>3. h \in LinkRequest
    BY <1>1, <2>2, Kinds
  <2>4. CASE Goto(r, "check link")
    <3>1. [h EXCEPT !.pc = "check link"] \in AnyRequest
      BY <2>3, GoesOn DEF AnyRequest
    <3>3. Moves(r, [h EXCEPT !.pc = "check link"])
      BY <2>1, <2>2, <2>4, <3>1, GotoMoves
    <3>4. QED  BY <3>1, <3>3
  <2>5. CASE Settle(r)
    <3>1. Moves(r, Settled)  BY <2>1, <2>2, <2>5, SettleMoves
    <3>2. QED  BY <3>1 DEF Moves
  <2>6. QED  BY <2>1, <2>4, <2>5
<1>16. CASE CheckLink(r)
  <2>1. UNCHANGED rows /\ (Goto(r, "commit") \/ Settle(r))
    BY <1>16 DEF CheckLink, rows
  <2>2. h.op = "link" /\ h.pc = "check link"
    BY <1>16 DEF CheckLink
  <2>3. h \in LinkRequest
    BY <1>1, <2>2, Kinds
  <2>4. CASE Goto(r, "commit")
    <3>1. [h EXCEPT !.pc = "commit"] \in AnyRequest
      BY <2>3, GoesOn DEF AnyRequest
    <3>3. Moves(r, [h EXCEPT !.pc = "commit"])
      BY <2>1, <2>2, <2>4, <3>1, GotoMoves
    <3>4. QED  BY <3>1, <3>3
  <2>5. CASE Settle(r)
    <3>1. Moves(r, Settled)  BY <2>1, <2>2, <2>5, SettleMoves
    <3>2. QED  BY <3>1 DEF Moves
  <2>6. QED  BY <2>1, <2>4, <2>5
<1>17. CASE GetCases(r)
  <2>1. PICK f \in Folders \cup {None, Absent}, a \in BOOLEAN :
           req' = [req EXCEPT ![r] = [op |-> "read", pc |-> "rows", only |-> Cases,
                                      under |-> f, archived |-> a]]
    BY <1>17 DEF GetCases
  <2> DEFINE x == [op |-> "read", pc |-> "rows", only |-> Cases,
                                      under |-> f, archived |-> a]
  <2>2. x \in AnyRequest /\ x.op = "read" /\ x.pc # "idle"
    BY DEF AnyRequest, ReadRequest
  <2> HIDE DEF x
  <2>3. x # Idle  BY <2>2, <1>3
  <2>4. req' = [req EXCEPT ![r] = x]  BY <2>1 DEF x
  <2>5. UNCHANGED rows /\ h = Idle  BY <1>17 DEF GetCases, rows
  <2>6. Moves(r, x)  BY <2>2, <2>3, <2>4, <2>5, <1>3, ForgetMoves
  <2>7. QED  BY <2>2, <2>6
<1>18. CASE GetCase(r)
  <2>1. PICK c \in Cases : req' = [req EXCEPT ![r] = ReadBack(c)]
    BY <1>18 DEF GetCase
  <2>2. /\ ReadBack(c) \in AnyRequest
        /\ ReadBack(c).op = "read" /\ ReadBack(c).pc = "rows"
    BY ReadBackTyped
  <2>3. ReadBack(c) # Idle  BY <2>2, <1>3
  <2>4. UNCHANGED rows /\ h = Idle  BY <1>18 DEF GetCase, rows
  <2>5. Moves(r, ReadBack(c))  BY <2>1, <2>2, <2>3, <2>4, <1>3, ForgetMoves
  <2>6. QED  BY <2>2, <2>5
<1>19. CASE ReadRows(r)
  <2>1. UNCHANGED rows /\ h.op = "read" /\ h.pc = "rows"
    BY <1>19 DEF ReadRows, rows
  <2>2. CASE Settle(r)
    <3>1. Moves(r, Settled)  BY <2>1, <2>2, SettleMoves
    <3>2. QED  BY <3>1 DEF Moves
  <2>3. CASE ~Settle(r)
    <3> DEFINE x == [op |-> "read", pc |-> "steps", found |-> Listed(h),
                     steps |-> [c \in Cases |-> <<>>], seen |-> {}]
    <3>1. req' = [req EXCEPT ![r] = x]  BY <1>19, <2>3 DEF ReadRows
    <3>2. Listed(h) \in SUBSET Cases
      <4>1. h \in ReadRequest  BY <1>1, <2>1, Kinds
      <4>2. h.only \in SUBSET Cases  BY <2>1, <4>1 DEF ReadRequest
      <4>3. QED  BY <4>2 DEF Listed
    <3>3. [c \in Cases |-> <<>>] \in [Cases -> Seq(Step)]
      <4>1. <<>> \in Seq(Step)  OBVIOUS
      <4>2. QED  BY <4>1
    <3>4. x \in AnyRequest /\ x.op = "read" /\ x.pc = "steps"
      BY <3>2, <3>3 DEF AnyRequest, ReadRequest
    <3> HIDE DEF x
    <3>5. x # Idle  BY <3>4, <1>3
    <3>6. Moves(r, x)  BY <2>1, <3>1, <3>4, <3>5, ForgetMoves
    <3>7. QED  BY <3>4, <3>6
  <2>4. QED  BY <2>2, <2>3
<1>20. CASE ReadSteps(r)
  <2> DEFINE list == [c \in Cases |-> IF c \in h.found THEN steps[c] ELSE <<>>]
             seen == {q \in Requests : comment[q] # None}
             x == [h EXCEPT !.pc = "comments", !.steps = list, !.seen = seen]
  <2>1. UNCHANGED rows /\ h.op = "read" /\ h.pc = "steps" /\ req' = [req EXCEPT ![r] = x]
    BY <1>20 DEF ReadSteps, rows
  <2>2. list \in [Cases -> Seq(Step)]
    <3>1. <<>> \in Seq(Step)  OBVIOUS
    <3>2. QED  BY <3>1 DEF Typed
  <2>3. h \in ReadRequest  BY <1>1, <2>1, Kinds
  <2> seen \in SUBSET Requests  OBVIOUS
  <2> HIDE DEF list, h, seen
  <2>4. x \in ReadRequest /\ x.op = "read" /\ x.pc = "comments"
    BY <2>1, <2>2, <2>3 DEF ReadRequest
  <2>5. x \in AnyRequest /\ x # Idle  BY <2>4, <1>3 DEF AnyRequest
  <2> HIDE DEF x
  <2>6. h = req[r]  BY DEF h
  <2>7. Moves(r, x)  BY <2>1, <2>4, <2>5, <2>6, ForgetMoves
  <2>8. QED  BY <2>5, <2>7
<1>21. CASE ReadComments(r)
  <2>1. UNCHANGED rows /\ h.op = "read" /\ h.pc = "comments" /\ Goto(r, "links")
    BY <1>21 DEF ReadComments, rows
  <2>2. h \in ReadRequest  BY <1>1, <2>1, Kinds
  <2>3. [h EXCEPT !.pc = "links"] \in AnyRequest
    BY <2>1, <2>2, GoesOn DEF AnyRequest
  <2>4. Moves(r, [h EXCEPT !.pc = "links"])  BY <2>1, <2>3, GotoMoves
  <2>5. QED  BY <2>3, <2>4
<1>22. CASE ReadLinks(r)
  <2>1. UNCHANGED rows /\ h.op = "read" /\ Settle(r)
    BY <1>22 DEF ReadLinks, rows
  <2>2. Moves(r, Settled)  BY <2>1, SettleMoves
  <2>3. QED  BY <2>2 DEF Moves
<1>23. CASE Abandon(r)
  <2>1. UNCHANGED rows  BY <1>23 DEF Abandon, rows
  <2>2. CASE h.op = "archive" /\ h.pc = "audit"
    <3>1. Goto(r, "unaudited")  BY <1>23, <2>2 DEF Abandon
    <3>2. h \in ArchiveRequest  BY <1>1, <2>2, Kinds
    <3>3. [h EXCEPT !.pc = "unaudited"] \in AnyRequest
      BY <3>2, GoesOn DEF AnyRequest
    <3>4. case[h.case] \in CaseRow  BY <1>1, <2>2 DEF ReadyBy
    <3>5. Moves(r, [h EXCEPT !.pc = "unaudited"])
      BY <2>1, <2>2, <3>1, <3>3, <3>4, GotoMoves
    <3>6. QED  BY <3>3, <3>5
  <2>3. CASE ~(h.op = "archive" /\ h.pc = "audit")
    <3>1. Settle(r) /\ h.pc # "unaudited"  BY <1>23, <2>3 DEF Abandon
    <3>2. Moves(r, Settled)  BY <2>1, <2>3, <3>1, SettleMoves
    <3>3. QED  BY <3>2 DEF Moves
  <2>4. QED  BY <2>2, <2>3
<1>24. QED
  BY <1>4, <1>5, <1>6, <1>7, <1>8, <1>9, <1>10, <1>11, <1>12, <1>13, <1>14, <1>15, <1>16, <1>17, <1>18, <1>19, <1>20, <1>21, <1>22, <1>23 DEF Quiet

-----------------------------------------------------------------------------
(* What keeps each part of the invariant *)

\* A step of r after which it knows no step that was not known, unless it has
\* just come.
Learns(r) ==
    /\ req'[r] # Idle
    /\ \A q \in Requests \ {r} : req'[q] = req[q]
    /\ \A s \in StepId : \A c \in Cases : Known(s, c)' =>
          \/ Known(s, c)
          \/ req[r] = Idle /\ req'[r].case = c /\ \E n \in Nat : s = <<r, n>>

LEMMA OwnedKept ==
    ASSUME NEW r \in Requests, Learns(r), Owned, Fresh
    PROVE  Owned' /\ Fresh'
<1>1. ASSUME NEW s \in StepId, NEW c \in Cases, NEW d \in Cases,
             Known(s, c)', Known(s, d)'
      PROVE  c = d
  <2>1. CASE Known(s, c) /\ Known(s, d)  BY <2>1 DEF Owned
  <2>2. CASE ~Known(s, c) /\ ~Known(s, d)  BY <1>1, <2>2 DEF Learns
  <2>3. CASE ~Known(s, c) /\ Known(s, d)
    <3>1. req[r] = Idle /\ \E n \in Nat : s = <<r, n>>  BY <1>1, <2>3 DEF Learns
    <3>2. QED  BY <2>3, <3>1 DEF Fresh
  <2>4. CASE Known(s, c) /\ ~Known(s, d)
    <3>1. req[r] = Idle /\ \E n \in Nat : s = <<r, n>>  BY <1>1, <2>4 DEF Learns
    <3>2. QED  BY <2>4, <3>1 DEF Fresh
  <2>5. QED  BY <2>1, <2>2, <2>3, <2>4
<1>2. ASSUME NEW q \in Requests, req'[q] = Idle, NEW n \in Nat, NEW c \in Cases,
             Known(<<q, n>>, c)'
      PROVE  FALSE
  <2>1. q # r /\ req[q] = Idle  BY <1>2 DEF Learns
  <2>2. <<q, n>> \in StepId  BY DEF StepId, Cases
  <2>3. ~Known(<<q, n>>, c)  BY <2>1 DEF Fresh
  <2>4. \E m \in Nat : <<q, n>> = <<r, m>>  BY <1>2, <2>2, <2>3 DEF Learns
  <2>5. QED  BY <2>1, <2>4
<1>3. Owned'  BY <1>1 DEF Owned
<1>4. Fresh'  BY <1>2 DEF Fresh
<1>5. QED  BY <1>3, <1>4

\* Rows stay rows, and a request that goes on is ready.
LEMMA ReadyKept ==
    ASSUME Typed, Ready, NEW r \in Requests, NEW x \in AnyRequest,
           req' = [req EXCEPT ![r] = x], ReadyBy(r, x)',
           \A c \in Cases : case[c] \in CaseRow => case'[c] \in CaseRow
    PROVE  Ready'
<1>1. req'[r] = x  BY DEF Typed
<1>2. ASSUME NEW q \in Requests, q # r  PROVE ReadyBy(q, req[q])'
  <2>1. PICK h : h = req[q]  OBVIOUS
  <2>2. req'[q] = h  BY <1>2, <2>1 DEF Typed
  <2>3. h \in AnyRequest /\ ReadyBy(q, h)  BY <2>1 DEF Typed, Ready
  <2>4. /\ h.op = "update" => h.case \in Cases
        /\ h.op = "archive" => h.case \in Cases
    BY <2>3, Kinds DEF SaveRequest, ArchiveRequest
  <2>5. QED  BY <2>2, <2>3, <2>4 DEF ReadyBy
<1>3. ReadyBy(r, req[r])'  BY <1>1 DEF ReadyBy
<1>4. QED  BY <1>2, <1>3 DEF Ready

\* Only a case that was found is written to or commented on, and only its own
\* request makes a case.
LEMMA UnmadeKept ==
    ASSUME Typed, Unmade, NEW r \in Requests, NEW x \in AnyRequest,
           req' = [req EXCEPT ![r] = x], x # Idle,
           x.op = "create" => Making(r),
           \A c \in Cases : WritesTo(x, c) => WritesTo(req[r], c) \/ case[c] # None,
           \A c \in Cases : case'[c] # case[c] =>
               WritesTo(req[r], c) \/ (c = r /\ x.op # "create"),
           \A q \in Requests : comment'[q] # None =>
               \/ comment[q] # None /\ comment'[q].case = comment[q].case
               \/ comment'[q].case \in Cases /\ WritesTo(req[r], comment'[q].case)
    PROVE  Unmade'
<1> SUFFICES ASSUME NEW p \in Requests, Making(p)'
             PROVE  /\ case'[p] = None
                    /\ \A q \in Requests : /\ ~WritesTo(req'[q], p)
                                           /\ comment'[q] # None => comment'[q].case # p
  BY DEF Unmade, UnmadeBy, WritesTo
<1>1. req'[r] = x /\ \A q \in Requests \ {r} : req'[q] = req[q]  BY DEF Typed
<1>2. Making(p)
  BY <1>1 DEF Making
<1>3. /\ case[p] = None
      /\ \A q \in Requests : /\ ~WritesTo(req[q], p)
                             /\ comment[q] # None => comment[q].case # p
  BY <1>2 DEF Unmade, UnmadeBy
<1>4. p \in Cases  BY DEF Cases
<1>5. p = r => x.op = "create"
  BY <1>1 DEF Making
<1>6. case'[p] = None  BY <1>3, <1>4, <1>5
<1>7. ASSUME NEW q \in Requests
      PROVE  ~WritesTo(req'[q], p) /\ (comment'[q] # None => comment'[q].case # p)
  BY <1>1, <1>3, <1>4
<1>8. QED  BY <1>6, <1>7

\* Each comment is on its case, or on a step of it.
ShownAt(q) ==
    comment[q] # None => \/ comment[q].step = None
                         \/ comment[q].step \in Ids(steps[comment[q].case])

LEMMA ShownEach ==
    ASSUME Typed
    PROVE  Shown <=> \A q \in Requests : ShownAt(q)
<1>1. \A q \in Requests : comment[q] # None => comment[q].case \in Cases
  BY DEF Typed, CommentRow
<1>2. QED  BY <1>1, Zenon DEF Shown, ShownAt, Visible, CommentsOf

LEMMA ShownEachNext ==
    ASSUME Typed'
    PROVE  Shown' <=> \A q \in Requests : ShownAt(q)'
<1>1. \A q \in Requests : comment'[q] # None => comment'[q].case \in Cases
  BY DEF Typed, CommentRow
<1>2. QED  BY <1>1, Zenon DEF Shown, ShownAt, Visible, CommentsOf

LEMMA QuietKeeps ==
    ASSUME IInv, NEW r \in Requests, NEW x \in AnyRequest, Moves(r, x)
    PROVE  IInv'
<1>1. /\ req' = [req EXCEPT ![r] = x] /\ UNCHANGED rows
      /\ folder' = folder /\ case' = case /\ steps' = steps /\ comment' = comment
      /\ linked' = linked /\ caseLog' = caseLog /\ linkLog' = linkLog
  BY DEF Moves, rows
<1>2. req'[r] = x /\ \A q \in Requests \ {r} : req'[q] = req[q]
  BY <1>1 DEF IInv, Typed
<1>3. Typed'  BY <1>1 DEF IInv, Typed
<1>4. Ready'
  <2>1. ReadyBy(r, x)'  BY <1>1 DEF Moves, ReadyBy
  <2>2. QED  BY <1>1, <2>1, ReadyKept DEF IInv
<1>5. Unmade'
  BY <1>1, UnmadeKept DEF IInv, Moves
<1>6. Learns(r)
  <2>1. ASSUME NEW s \in StepId, NEW c \in Cases, Known(s, c)'
        PROVE  \/ Known(s, c)
               \/ req[r] = Idle /\ x.case = c /\ \E n \in Nat : s = <<r, n>>
    <3>1. \/ s \in Ids(steps[c])
          \/ \E q \in Requests : KnownBy(req'[q], s, c)
      BY <1>1, <2>1 DEF Known, KnownBy
    <3>2. CASE s \in Ids(steps[c])  BY <3>2 DEF Known
    <3>3. CASE \E q \in Requests : KnownBy(req'[q], s, c)
      <4>1. PICK q \in Requests : KnownBy(req'[q], s, c)  BY <3>3
      <4>2. CASE q = r  BY <1>2, <4>1, <4>2 DEF Moves
      <4>3. CASE q # r  BY <1>2, <4>1, <4>3 DEF Known
      <4>4. QED  BY <4>2, <4>3
    <3>4. QED  BY <3>1, <3>2, <3>3
  <2>2. QED  BY <1>2, <2>1 DEF Learns, Moves
<1>7. Owned' /\ Fresh'  BY <1>6, OwnedKept DEF IInv
<1>8. Shown'  BY <1>1 DEF IInv, Shown, Visible, CommentsOf
<1>9. AuditReplaysCases'
  <2>1. \A f : \A c \in Cases : Sets(c, f)' = Sets(c, f)  BY <1>1 DEF Sets
  <2>2. ASSUME NEW c \in Cases, \E q \in Requests : Unlogged(req[q], c)
        PROVE  \E q \in Requests : Unlogged(req'[q], c)
    BY <1>2, <2>2 DEF Moves
  <2>3. QED
    BY <1>1, <2>2 DEF IInv, AuditReplaysCases, Sets, Unlogged
<1>10. QED  BY <1>3, <1>4, <1>5, <1>7, <1>8, <1>9 DEF IInv

\* A request that makes no step known, and rows with no step that was not.
LEMMA ForgetLearns ==
    ASSUME Typed, NEW r \in Requests, NEW x \in AnyRequest,
           req' = [req EXCEPT ![r] = x], x # Idle,
           x.op \notin {"create", "update", "comment"},
           \A c \in Cases : \A s \in Ids(steps'[c]) : Known(s, c)
    PROVE  Learns(r)
<1>1. req'[r] = x /\ \A q \in Requests \ {r} : req'[q] = req[q]  BY DEF Typed
<1>2. ASSUME NEW s \in StepId, NEW c \in Cases, Known(s, c)'
      PROVE  Known(s, c)
  <2>1. \/ s \in Ids(steps'[c])
        \/ \E q \in Requests : KnownBy(req'[q], s, c)
    BY <1>2 DEF Known, KnownBy, Ids
  <2>2. CASE s \in Ids(steps'[c])  BY <2>2
  <2>3. CASE \E q \in Requests : KnownBy(req'[q], s, c)
    <3>1. PICK q \in Requests : KnownBy(req'[q], s, c)  BY <2>3
    <3>2. q # r  BY <1>1, <3>1 DEF KnownBy
    <3>3. QED  BY <1>1, <3>1, <3>2 DEF Known
  <2>4. QED  BY <2>1, <2>2, <2>3
<1>3. QED  BY <1>1, <1>2 DEF Learns

\* A row added to the audit log of cases.
LEMMA LogAppended ==
    ASSUME Typed, NEW e \in LogRow, caseLog' = Append(caseLog, e)
    PROVE  /\ caseLog' \in Seq(LogRow)
           /\ DOMAIN caseLog = 1..Len(caseLog) /\ Len(caseLog) \in Nat
           /\ DOMAIN caseLog' = 1..(Len(caseLog) + 1)
           /\ \A i \in DOMAIN caseLog : caseLog'[i] = caseLog[i]
           /\ caseLog'[Len(caseLog) + 1] = e
BY DEF Typed

LEMMA SetsAppended ==
    ASSUME Typed, NEW e \in LogRow, caseLog' = Append(caseLog, e),
           NEW f, NEW c \in Cases
    PROVE  /\ Sets(c, f) \subseteq DOMAIN caseLog
           /\ e.case = c /\ e.set[f] # Absent =>
                 Sets(c, f)' = Sets(c, f) \cup {Len(caseLog) + 1}
           /\ ~(e.case = c /\ e.set[f] # Absent) => Sets(c, f)' = Sets(c, f)
<1>1. Len(caseLog) + 1 \notin DOMAIN caseLog
  BY LogAppended
<1>2. DOMAIN caseLog' = DOMAIN caseLog \cup {Len(caseLog) + 1}
  BY LogAppended
<1>3. QED  BY <1>1, <1>2, LogAppended DEF Sets

\* The last row that sets a field, and the row of the case.
LEMMA FieldReplays ==
    ASSUME Typed, NEW e \in LogRow, caseLog' = Append(caseLog, e),
           NEW f \in {"folder", "title"}, NEW c \in Cases,
           \/ e.case = c /\ e.set[f] # Absent /\ e.set[f] = case'[c][f]
           \/ /\ ~(e.case = c /\ e.set[f] # Absent)
              /\ case'[c][f] = case[c][f]
              /\ \A i \in Sets(c, f) :
                    (\A j \in Sets(c, f) : j <= i) => caseLog[i].set[f] = case[c][f],
           NEW i \in Sets(c, f)', \A j \in Sets(c, f)' : j <= i
    PROVE  caseLog'[i].set[f] = case'[c][f]
<1>1. CASE e.case = c /\ e.set[f] # Absent /\ e.set[f] = case'[c][f]
  <2>1. Len(caseLog) + 1 \in Sets(c, f)'  BY <1>1, SetsAppended
  <2>2. i \in 1..(Len(caseLog) + 1)  BY LogAppended DEF Sets
  <2>3. i = Len(caseLog) + 1  BY <2>1, <2>2, LogAppended
  <2>4. QED  BY <1>1, <2>3, LogAppended
<1>2. CASE ~(e.case = c /\ e.set[f] # Absent)
  <2>1. Sets(c, f)' = Sets(c, f) /\ Sets(c, f) \subseteq DOMAIN caseLog
    BY <1>2, SetsAppended
  <2>2. caseLog'[i] = caseLog[i]  BY <2>1, LogAppended
  <2>3. QED  BY <1>2, <2>1, <2>2
<1>3. QED  BY <1>1, <1>2

\* Field f of the case is as it was, or as the new row e sets it.
Follows(e, f, c) ==
    \/ e.case = c /\ e.set[f] # Absent /\ e.set[f] = case'[c][f]
    \/ /\ ~(e.case = c /\ e.set[f] # Absent)
       /\ case[c] # None /\ case'[c][f] = case[c][f]

LogsArchived(e, c) ==
    e.case = c /\ e.set.archived # Absent /\ e.set.archived

LEMMA ReplaysKept ==
    ASSUME Typed, AuditReplaysCases, NEW r \in Requests, NEW e \in LogRow,
           caseLog' = Append(caseLog, e),
           \A q \in Requests \ {r} : req'[q] = req[q],
           \A c \in Cases : case'[c] # None =>
              /\ Follows(e, "folder", c) /\ Follows(e, "title", c)
              /\ case'[c].archived =>
                    LogsArchived(e, c) \/ (case[c] # None /\ case[c].archived)
              /\ Unlogged(req[r], c) => LogsArchived(e, c)
    PROVE  AuditReplaysCases'
<1> SUFFICES ASSUME NEW c \in Cases, case'[c] # None
             PROVE  /\ \A f \in {"folder", "title"} :
                          \A i \in Sets(c, f)' :
                             (\A j \in Sets(c, f)' : j <= i) =>
                                 caseLog'[i].set[f] = case'[c][f]
                    /\ case'[c].archived =>
                          \/ \E i \in Sets(c, "archived")' : caseLog'[i].set.archived
                          \/ \E q \in Requests : Unlogged(req'[q], c)
  BY DEF AuditReplaysCases, Unlogged
<1>1. ASSUME NEW f \in {"folder", "title"}, NEW i \in Sets(c, f)',
             \A j \in Sets(c, f)' : j <= i
      PROVE  caseLog'[i].set[f] = case'[c][f]
  <2>1. Follows(e, f, c)  OBVIOUS
  <2>2. case[c] # None => \A k \in Sets(c, f) :
            (\A j \in Sets(c, f) : j <= k) => caseLog[k].set[f] = case[c][f]
    BY DEF AuditReplaysCases
  <2>3. QED  BY <1>1, <2>1, <2>2, FieldReplays DEF Follows
<1>2. ASSUME case'[c].archived
      PROVE  \/ \E i \in Sets(c, "archived")' : caseLog'[i].set.archived
             \/ \E q \in Requests : Unlogged(req'[q], c)
  <2>1. CASE LogsArchived(e, c)
    <3>1. e.set["archived"] = e.set.archived  OBVIOUS
    <3>2. Len(caseLog) + 1 \in Sets(c, "archived")'
      BY <2>1, <3>1, SetsAppended DEF LogsArchived
    <3>3. caseLog'[Len(caseLog) + 1].set.archived
      BY <2>1, LogAppended DEF LogsArchived
    <3>4. QED  BY <3>2, <3>3
  <2>2. CASE ~LogsArchived(e, c)
    <3>1. case[c] # None /\ case[c].archived /\ ~Unlogged(req[r], c)
      BY <1>2, <2>2
    <3>2. \/ \E i \in Sets(c, "archived") : caseLog[i].set.archived
          \/ \E q \in Requests : Unlogged(req[q], c)
      BY <3>1 DEF AuditReplaysCases, Unlogged
    <3>3. ASSUME NEW i \in Sets(c, "archived"), caseLog[i].set.archived
          PROVE  i \in Sets(c, "archived")' /\ caseLog'[i].set.archived
      <4>1. i \in DOMAIN caseLog /\ Sets(c, "archived") \subseteq Sets(c, "archived")'
        BY SetsAppended
      <4>2. QED  BY <3>3, <4>1, LogAppended
    <3>4. QED  BY <3>1, <3>2, <3>3
  <2>3. QED  BY <2>1, <2>2
<1>3. QED  BY <1>1, <1>2

LEMMA ReplaysStay ==
    ASSUME AuditReplaysCases, NEW r \in Requests, caseLog' = caseLog,
           \A q \in Requests \ {r} : req'[q] = req[q],
           \A c \in Cases : Unlogged(req[r], c) => Unlogged(req'[r], c),
           \A c \in Cases : case'[c] # None =>
              /\ case[c] # None
              /\ case'[c].folder = case[c].folder /\ case'[c].title = case[c].title
              /\ case'[c].archived => case[c].archived \/ Unlogged(req'[r], c)
    PROVE  AuditReplaysCases'
<1> SUFFICES ASSUME NEW c \in Cases, case'[c] # None
             PROVE  /\ \A f \in {"folder", "title"} :
                          \A i \in Sets(c, f) :
                             (\A j \in Sets(c, f) : j <= i) =>
                                 caseLog[i].set[f] = case'[c][f]
                    /\ case'[c].archived =>
                          \/ \E i \in Sets(c, "archived") : caseLog[i].set.archived
                          \/ \E q \in Requests : Unlogged(req'[q], c)
  BY DEF AuditReplaysCases, Unlogged, Sets
<1>1. \A f \in {"folder", "title"} : case'[c][f] = case[c][f]
  OBVIOUS
<1>2. \/ \E i \in Sets(c, "archived") : caseLog[i].set.archived
      \/ \E q \in Requests : Unlogged(req[q], c)
      \/ ~case[c].archived
  BY DEF AuditReplaysCases, Unlogged
<1>3. (\E q \in Requests : Unlogged(req[q], c)) => \E q \in Requests : Unlogged(req'[q], c)
  OBVIOUS
<1>4. QED  BY <1>1, <1>2, <1>3 DEF AuditReplaysCases

-----------------------------------------------------------------------------
(* The steps that write *)

\* The end of a request that wrote.
LEMMA SettledEnd ==
    /\ Settled \in AnyRequest /\ Settled # Idle /\ Settled.op = "none"
BY DEF AnyRequest, Settled, Idle

LEMMA InsertFolderKeeps ==
    ASSUME IInv, NEW r \in Requests, InsertFolder(r)
    PROVE  IInv'
<1> USE DEF IInv
<1>1. /\ req' = [req EXCEPT ![r] = Settled]
      /\ case' = case /\ steps' = steps /\ comment' = comment /\ linked' = linked
      /\ caseLog' = caseLog /\ linkLog' = linkLog
      /\ req[r].op = "folder"
      /\ folder' = [folder EXCEPT ![r] = req[r].parent]
  BY DEF InsertFolder, Settle
<1>2. req'[r] = Settled /\ \A q \in Requests \ {r} : req'[q] = req[q]
  BY <1>1 DEF Typed
<1>3. Typed'
  <2>1. req[r] \in FolderRequest  BY <1>1, Kinds DEF Typed
  <2>2. folder' \in [Folders -> Folders \cup {None, Absent}]
    BY <1>1, <2>1 DEF Typed, FolderRequest
  <2>3. QED  BY <1>1, <2>2, SettledEnd DEF Typed
<1>4. Ready'
  <2>1. ReadyBy(r, Settled)'  BY SettledEnd DEF ReadyBy
  <2>2. QED  BY <1>1, <2>1, SettledEnd, ReadyKept
<1>5. Unmade'
  BY <1>1, SettledEnd, UnmadeKept DEF WritesTo
<1>6. Learns(r)
  BY <1>1, SettledEnd, ForgetLearns DEF Known
<1>7. Owned' /\ Fresh'  BY <1>6, OwnedKept
<1>8. Shown'  BY <1>1 DEF Shown, Visible, CommentsOf
<1>9. AuditReplaysCases'
  BY <1>1, <1>2, ReplaysStay DEF Unlogged
<1>10. QED  BY <1>3, <1>4, <1>5, <1>7, <1>8, <1>9

LEMMA CommitLinkKeeps ==
    ASSUME IInv, NEW r \in Requests, CommitLink(r)
    PROVE  IInv'
<1> USE DEF IInv
<1>1. /\ req' = [req EXCEPT ![r] = Settled]
      /\ folder' = folder /\ case' = case /\ steps' = steps /\ comment' = comment
      /\ caseLog' = caseLog
      /\ req[r].op = "link"
      /\ linked' = linked \cup {<<req[r].case, req[r].requirement>>}
      /\ linkLog' = Append(linkLog, <<req[r].case, req[r].requirement>>)
  BY DEF CommitLink, Settle
<1>2. req'[r] = Settled /\ \A q \in Requests \ {r} : req'[q] = req[q]
  BY <1>1 DEF Typed
<1>3. Typed'
  <2>1. req[r] \in LinkRequest  BY <1>1, Kinds DEF Typed
  <2>2. <<req[r].case, req[r].requirement>> \in Cases \X Requirements
    BY <2>1 DEF LinkRequest
  <2>3. linked' \subseteq Cases \X Requirements /\ linkLog' \in Seq(Cases \X Requirements)
    BY <1>1, <2>2 DEF Typed
  <2>4. QED  BY <1>1, <2>3, SettledEnd DEF Typed
<1>4. Ready'
  <2>1. ReadyBy(r, Settled)'  BY SettledEnd DEF ReadyBy
  <2>2. QED  BY <1>1, <2>1, SettledEnd, ReadyKept
<1>5. Unmade'
  BY <1>1, SettledEnd, UnmadeKept DEF WritesTo
<1>6. Learns(r)
  BY <1>1, SettledEnd, ForgetLearns DEF Known
<1>7. Owned' /\ Fresh'  BY <1>6, OwnedKept
<1>8. Shown'  BY <1>1 DEF Shown, Visible, CommentsOf
<1>9. AuditReplaysCases'
  BY <1>1, <1>2, ReplaysStay DEF Unlogged
<1>10. QED  BY <1>3, <1>4, <1>5, <1>7, <1>8, <1>9

LEMMA WriteArchivedKeeps ==
    ASSUME IInv, NEW r \in Requests, WriteArchived(r)
    PROVE  IInv'
<1> USE DEF IInv
<1>1. PICK h \in AnyRequest : h = req[r]  BY DEF Typed
<1>2. PICK c \in Cases : c = h.case
  BY <1>1, Kinds DEF WriteArchived, ArchiveRequest
<1>3. /\ h.op = "archive" /\ h.pc = "write" /\ h \in ArchiveRequest
      /\ case[c] \in CaseRow
  BY <1>1, <1>2, Kinds DEF WriteArchived, Ready, ReadyBy
<1>4. PICK x : x = [h EXCEPT !.pc = "audit"]  OBVIOUS
<1>5. /\ x \in AnyRequest /\ x # Idle
      /\ x.op = "archive" /\ x.pc = "audit" /\ x.case = c
  <2>1. x \in ArchiveRequest  BY <1>3, <1>4, GoesOn
  <2>2. x.op = "archive" /\ x.pc = "audit" /\ x.case = c
    BY <1>2, <1>3, <1>4 DEF ArchiveRequest
  <2>3. QED  BY <2>1, <2>2 DEF AnyRequest, Idle
<1>6. /\ req' = [req EXCEPT ![r] = x]
      /\ case' = [case EXCEPT ![c].archived = TRUE]
      /\ folder' = folder /\ steps' = steps /\ comment' = comment /\ linked' = linked
      /\ caseLog' = caseLog /\ linkLog' = linkLog
  BY <1>1, <1>2, <1>4 DEF WriteArchived, Goto
<1>7. req'[r] = x /\ \A q \in Requests \ {r} : req'[q] = req[q]
  BY <1>6 DEF Typed
<1>8. /\ \A d \in Cases \ {c} : case'[d] = case[d]
      /\ case'[c] \in CaseRow
      /\ case'[c].folder = case[c].folder /\ case'[c].title = case[c].title
      /\ case[c] # None /\ case'[c] # None
  BY <1>3, <1>6, RowAssumption DEF Typed, CaseRow
<1>9. Typed'
  <2>1. case' \in [Cases -> {None} \cup CaseRow]  BY <1>6, <1>8 DEF Typed
  <2>2. QED  BY <1>5, <1>6, <2>1 DEF Typed
<1>10. Ready'
  <2>1. ReadyBy(r, x)'  BY <1>5, <1>8 DEF ReadyBy
  <2>2. QED  BY <1>5, <1>6, <1>8, <2>1, ReadyKept
<1>11. Unmade'
  <2>1. \A d \in Cases : WritesTo(x, d) => WritesTo(req[r], d)
    BY <1>1, <1>2, <1>3, <1>5 DEF WritesTo
  <2>2. \A d \in Cases : case'[d] # case[d] => WritesTo(req[r], d)
    BY <1>1, <1>2, <1>3, <1>8 DEF WritesTo
  <2>3. \A q \in Requests : comment'[q] # None =>
            comment[q] # None /\ comment'[q].case = comment[q].case
    BY <1>6
  <2>4. QED  BY <1>5, <1>6, <2>1, <2>2, <2>3, UnmadeKept
<1>12. Learns(r)
  BY <1>5, <1>6, ForgetLearns DEF Known
<1>13. Owned' /\ Fresh'  BY <1>12, OwnedKept
<1>14. Shown'  BY <1>6 DEF Shown, Visible, CommentsOf
<1>15. AuditReplaysCases'
  BY <1>1, <1>3, <1>5, <1>6, <1>7, <1>8, ReplaysStay DEF Unlogged
<1>16. QED  BY <1>9, <1>10, <1>11, <1>13, <1>14, <1>15

LEMMA AuditArchivedKeeps ==
    ASSUME IInv, NEW r \in Requests, AuditArchived(r)
    PROVE  IInv'
<1> USE DEF IInv
<1>1. PICK h \in AnyRequest : h = req[r]  BY DEF Typed
<1>2. h.op = "archive" /\ h.pc = "audit" /\ h \in ArchiveRequest
  BY <1>1, Kinds DEF AuditArchived
<1>3. PICK c \in Cases : c = h.case  BY <1>2 DEF ArchiveRequest
<1>4. PICK e : e = [case |-> c, action |-> "case.archived", actor |-> h.actor,
                    set |-> [Nothing EXCEPT !.archived = TRUE]]
  OBVIOUS
<1>5. /\ e \in LogRow /\ e.case = c
      /\ e.set.folder = Absent /\ e.set.title = Absent
      /\ e.set.archived = TRUE
  BY <1>2, <1>4 DEF LogRow, Fields, Nothing, ArchiveRequest
<1>6. TRUE # Absent  BY LibraryAssumption
<1>7. /\ req' = [req EXCEPT ![r] = Settled]
      /\ caseLog' = Append(caseLog, e)
      /\ folder' = folder /\ case' = case /\ steps' = steps /\ comment' = comment
      /\ linked' = linked /\ linkLog' = linkLog
  BY <1>1, <1>3, <1>4 DEF AuditArchived, Logged, Settle
<1>8. req'[r] = Settled /\ \A q \in Requests \ {r} : req'[q] = req[q]
  BY <1>7 DEF Typed
<1>9. Typed'
  BY <1>5, <1>7, LogAppended, SettledEnd DEF Typed
<1>10. Ready'
  <2>1. ReadyBy(r, Settled)'  BY SettledEnd DEF ReadyBy
  <2>2. QED  BY <1>7, <2>1, SettledEnd, ReadyKept
<1>11. Unmade'
  BY <1>7, SettledEnd, UnmadeKept DEF WritesTo
<1>12. Learns(r)
  BY <1>7, SettledEnd, ForgetLearns DEF Known
<1>13. Owned' /\ Fresh'  BY <1>12, OwnedKept
<1>14. Shown'  BY <1>7 DEF Shown, Visible, CommentsOf
<1>15. AuditReplaysCases'
  <2>1. \A d \in Cases : case'[d] # None =>
            Follows(e, "folder", d) /\ Follows(e, "title", d)
    BY <1>5, <1>7 DEF Follows
  <2>2. \A d \in Cases : Unlogged(req[r], d) => LogsArchived(e, d)
    BY <1>1, <1>3, <1>5, <1>6 DEF Unlogged, LogsArchived
  <2>3. QED  BY <1>5, <1>7, <1>8, <2>1, <2>2, ReplaysKept
<1>16. QED  BY <1>9, <1>10, <1>11, <1>13, <1>14, <1>15

LEMMA CommitCommentKeeps ==
    ASSUME IInv, NEW r \in Requests, CommitComment(r)
    PROVE  IInv'
<1> USE DEF IInv
<1>1. PICK h \in AnyRequest : h = req[r]  BY DEF Typed
<1>2. h.op = "comment" /\ h.pc = "commit" /\ h \in CommentRequest
  BY <1>1, Kinds DEF CommitComment
<1>3. PICK c \in Cases : c = h.case  BY <1>2 DEF CommentRequest
<1>4. PICK t \in StepId \cup {None} : t = h.step  BY <1>2 DEF CommentRequest
<1>5. PICK m : m = [case |-> c, step |-> t, author |-> h.actor]  OBVIOUS
<1>6. m \in CommentRow /\ m.case = c /\ m.step = t
  BY <1>2, <1>5 DEF CommentRow, CommentRequest
<1>7. PICK e : e = [case |-> c, action |-> "case_comment.created",
                    actor |-> h.actor, set |-> Nothing]
  OBVIOUS
<1>8. /\ e \in LogRow
      /\ e.set.folder = Absent /\ e.set.title = Absent /\ e.set.archived = Absent
  BY <1>2, <1>7 DEF LogRow, Fields, Nothing, CommentRequest
<1>9. /\ req' = [req EXCEPT ![r] = Settled]
      /\ caseLog' = Append(caseLog, e)
      /\ comment' = [comment EXCEPT ![r] = m]
      /\ folder' = folder /\ case' = case /\ steps' = steps
      /\ linked' = linked /\ linkLog' = linkLog
      /\ References(t)
  BY <1>1, <1>3, <1>4, <1>5, <1>7 DEF CommitComment, Logged, Settle
<1>10. /\ req'[r] = Settled /\ \A q \in Requests \ {r} : req'[q] = req[q]
       /\ comment'[r] = m /\ \A q \in Requests \ {r} : comment'[q] = comment[q]
  BY <1>9 DEF Typed
<1>11. Typed'
  <2>1. comment' \in [Requests -> {None} \cup CommentRow]  BY <1>6, <1>9 DEF Typed
  <2>2. QED  BY <1>8, <1>9, <2>1, LogAppended, SettledEnd DEF Typed
<1>12. Ready'
  <2>1. ReadyBy(r, Settled)'  BY SettledEnd DEF ReadyBy
  <2>2. QED  BY <1>9, <2>1, SettledEnd, ReadyKept
<1>13. Unmade'
  <2>1. WritesTo(req[r], c)  BY <1>1, <1>2, <1>3 DEF WritesTo
  <2>2. \A q \in Requests : comment'[q] # None =>
            \/ comment[q] # None /\ comment'[q].case = comment[q].case
            \/ comment'[q].case \in Cases /\ WritesTo(req[r], comment'[q].case)
    BY <1>6, <1>10, <2>1
  <2>3. ~WritesTo(Settled, c) /\ \A d \in Cases : ~WritesTo(Settled, d)
    BY SettledEnd DEF WritesTo
  <2>4. QED  BY <1>9, <2>2, <2>3, SettledEnd, UnmadeKept
<1>14. Learns(r)
  BY <1>9, SettledEnd, ForgetLearns DEF Known
<1>15. Owned' /\ Fresh'  BY <1>14, OwnedKept
<1>16. Shown'
  <2>1. t = None \/ t \in Ids(steps[c])
    <3>1. CASE t # None
      <4>1. PICK d \in Cases : t \in Ids(steps[d])  BY <1>9, <3>1 DEF References
      <4>2. Known(t, d)  BY <4>1 DEF Known
      <4>3. Known(t, c)  BY <1>1, <1>2, <1>3, <1>4, <3>1 DEF Known, KnownBy
      <4>4. c = d  BY <3>1, <4>2, <4>3 DEF Owned
      <4>5. QED  BY <4>1, <4>4
    <3>2. QED  BY <3>1
  <2>2. \A q \in Requests : ShownAt(q)  BY ShownEach
  <2>3. \A q \in Requests : ShownAt(q)'
    BY <1>6, <1>9, <1>10, <2>1, <2>2 DEF ShownAt, Ids
  <2>4. QED  BY <1>11, <2>3, ShownEachNext
<1>17. AuditReplaysCases'
  <2>1. \A d \in Cases : case'[d] # None =>
            Follows(e, "folder", d) /\ Follows(e, "title", d)
    BY <1>8, <1>9 DEF Follows
  <2>2. \A d \in Cases : ~Unlogged(req[r], d)
    BY <1>1, <1>2 DEF Unlogged
  <2>3. QED  BY <1>8, <1>9, <1>10, <2>1, <2>2, ReplaysKept
<1>18. QED  BY <1>11, <1>12, <1>13, <1>15, <1>16, <1>17

LEMMA CommitCreateKeeps ==
    ASSUME IInv, NEW r \in Requests, CommitCreate(r)
    PROVE  IInv'
<1> USE DEF IInv
<1>1. PICK h \in AnyRequest : h = req[r]  BY DEF Typed
<1>2. /\ h.op = "create" /\ h.pc = "commit" /\ h \in SaveRequest
      /\ h.case = r /\ h.fields \in CaseRow /\ h.steps \in Seq(Step)
  BY <1>1, Kinds DEF CommitCreate, Ready, ReadyBy
<1>3. r \in Cases  BY DEF Cases
<1>4. PICK e : e = [case |-> r, action |-> "case.created", actor |-> h.actor,
                    set |-> h.fields]
  OBVIOUS
<1>5. /\ e \in LogRow /\ e.case = r /\ e.set = h.fields
      /\ h.fields.folder # Absent /\ h.fields.title # Absent
      /\ h.fields.archived \in BOOLEAN /\ h.fields.archived # Absent
  <2>1. /\ h.fields.folder \in Folders \cup {None}
        /\ h.fields.title \in Requests \cup {None}
        /\ h.fields.archived \in BOOLEAN
    BY <1>2 DEF CaseRow, Sender
  <2>2. Absent \notin Folders \cup BOOLEAN \cup {None} \cup Requests
    BY LibraryAssumption DEF Folders
  <2>3. h.fields \in Fields /\ h.actor \in Users  BY <1>2 DEF SaveRequest
  <2>4. e \in LogRow  BY <1>3, <1>4, <2>3 DEF LogRow
  <2>5. QED  BY <1>4, <2>1, <2>2, <2>4
<1>6. PICK x : x = ReadBack(r)  OBVIOUS
<1>7. x \in AnyRequest /\ x.op = "read" /\ x # Idle
  BY <1>3, <1>6, ReadBackTyped DEF Idle
<1>8. /\ req' = [req EXCEPT ![r] = x]
      /\ case' = [case EXCEPT ![r] = h.fields]
      /\ steps' = [steps EXCEPT ![r] = h.steps]
      /\ caseLog' = Append(caseLog, e)
      /\ folder' = folder /\ comment' = comment /\ linked' = linked
      /\ linkLog' = linkLog
  BY <1>1, <1>4, <1>6 DEF CommitCreate, Logged
<1>9. /\ req'[r] = x /\ \A q \in Requests \ {r} : req'[q] = req[q]
      /\ case'[r] = h.fields /\ \A d \in Cases \ {r} : case'[d] = case[d]
      /\ steps'[r] = h.steps /\ \A d \in Cases \ {r} : steps'[d] = steps[d]
  BY <1>3, <1>8 DEF Typed
<1>10. Typed'
  <2>1. case' \in [Cases -> {None} \cup CaseRow]  BY <1>2, <1>8 DEF Typed
  <2>2. steps' \in [Cases -> Seq(Step)]  BY <1>2, <1>8 DEF Typed
  <2>3. QED  BY <1>5, <1>7, <1>8, <2>1, <2>2, LogAppended DEF Typed
<1>11. Ready'
  <2>1. ReadyBy(r, x)'  BY <1>7 DEF ReadyBy
  <2>2. \A d \in Cases : case[d] \in CaseRow => case'[d] \in CaseRow
    BY <1>2, <1>9
  <2>3. QED  BY <1>7, <1>8, <2>1, <2>2, ReadyKept
<1>12. Unmade'
  <2>1. \A d \in Cases : ~WritesTo(x, d)  BY <1>7 DEF WritesTo
  <2>2. \A d \in Cases : case'[d] # case[d] => d = r  BY <1>9
  <2>3. QED  BY <1>7, <1>8, <2>1, <2>2, UnmadeKept
<1>13. Learns(r)
  <2>1. \A s \in Ids(h.steps) : Known(s, r)
    <3>1. ASSUME h.steps = Absent  PROVE FALSE
      BY <1>2, <3>1, RowAssumption
    <3>2. QED  BY <1>1, <1>2, <3>1 DEF Known, KnownBy
  <2>2. \A d \in Cases : \A s \in Ids(steps'[d]) : Known(s, d)
    BY <1>9, <2>1 DEF Known
  <2>3. QED  BY <1>7, <1>8, <2>2, ForgetLearns
<1>14. Owned' /\ Fresh'  BY <1>13, OwnedKept
<1>15. Shown'
  <2>1. \A q \in Requests : comment[q] # None => comment[q].case # r
    BY <1>1, <1>2 DEF Unmade, UnmadeBy, Making
  <2>2. \A q \in Requests : comment[q] # None => comment[q].case \in Cases
    BY DEF Typed, CommentRow
  <2>3. \A q \in Requests : ShownAt(q)  BY ShownEach
  <2>4. \A q \in Requests : ShownAt(q)'
    BY <1>8, <1>9, <2>1, <2>2, <2>3 DEF ShownAt, Ids
  <2>5. QED  BY <1>10, <2>4, ShownEachNext
<1>16. AuditReplaysCases'
  <2>1. /\ h.fields["folder"] = h.fields.folder
        /\ h.fields["title"] = h.fields.title
    OBVIOUS
  <2>2. \A d \in Cases : case'[d] # None =>
            Follows(e, "folder", d) /\ Follows(e, "title", d)
    BY <1>5, <1>9, <2>1 DEF Follows
  <2>3. \A d \in Cases : case'[d] # None /\ case'[d].archived =>
            LogsArchived(e, d) \/ (case[d] # None /\ case[d].archived)
    BY <1>5, <1>9 DEF LogsArchived
  <2>4. \A d \in Cases : ~Unlogged(req[r], d)
    BY <1>1, <1>2 DEF Unlogged
  <2>5. QED  BY <1>5, <1>8, <1>9, <2>2, <2>3, <2>4, ReplaysKept
<1>17. QED  BY <1>10, <1>11, <1>12, <1>14, <1>15, <1>16

\* A row after a patch.
LEMMA PatchedRow ==
    ASSUME NEW row \in CaseRow, NEW set \in Fields
    PROVE  /\ Patched(row, set) \in CaseRow
           /\ Patched(row, set) # None
           /\ Patched(row, set).folder =
                 IF set.folder = Absent THEN row.folder ELSE set.folder
           /\ Patched(row, set).title =
                 IF set.title = Absent THEN row.title ELSE set.title
           /\ Patched(row, set).archived =
                 IF set.archived = Absent THEN row.archived ELSE set.archived
<1>1. /\ row.folder \in Folders \cup {None} /\ row.title \in Sender
      /\ row.archived \in BOOLEAN
  BY DEF CaseRow
<1>2. /\ set.folder \in Folders \cup {None, Absent}
      /\ set.title \in Requests \cup {Absent}
      /\ set.archived \in BOOLEAN \cup {Absent}
  BY DEF Fields
<1>3. Patched(row, set) \in CaseRow
  BY <1>1, <1>2 DEF Patched, CaseRow, Sender
<1>4. QED  BY <1>3, RowAssumption DEF Patched

\* The comments after the steps of c are replaced: those on them lose their
\* step, and the others keep theirs.
LEMMA UnanchoredEach ==
    ASSUME Typed, NEW c \in Cases, NEW sent, comment' = Unanchored(c, sent)
    PROVE  /\ comment' \in [Requests -> {None} \cup CommentRow]
           /\ \A q \in Requests : comment'[q] # None =>
                 /\ comment[q] # None /\ comment'[q].case = comment[q].case
                 /\ \/ comment'[q].step = None
                    \/ /\ comment'[q] = comment[q]
                       /\ sent # Absent => comment[q].step \notin Ids(steps[c])
<1>1. CASE sent = Absent
  BY <1>1 DEF Unanchored, Typed
<1>2. CASE sent # Absent
  <2>1. comment' = [q \in Requests |->
            IF comment[q] # None /\ comment[q].step \in Ids(steps[c])
            THEN [comment[q] EXCEPT !.step = None] ELSE comment[q]]
    BY <1>2 DEF Unanchored
  <2>2. ASSUME NEW q \in Requests
        PROVE  /\ comment'[q] \in {None} \cup CommentRow
               /\ comment'[q] # None =>
                    /\ comment[q] # None /\ comment'[q].case = comment[q].case
                    /\ \/ comment'[q].step = None
                       \/ /\ comment'[q] = comment[q]
                          /\ comment[q].step \notin Ids(steps[c])
    <3>1. CASE comment[q] # None /\ comment[q].step \in Ids(steps[c])
      <4>1. comment[q] \in CommentRow  BY <3>1 DEF Typed
      <4>2. PICK m \in CommentRow : m = comment[q]  BY <4>1
      <4>3. comment'[q] = [m EXCEPT !.step = None]  BY <2>1, <3>1, <4>2
      <4>4. /\ [m EXCEPT !.step = None] \in CommentRow
            /\ [m EXCEPT !.step = None].step = None
            /\ [m EXCEPT !.step = None].case = m.case
        BY DEF CommentRow
      <4>5. QED  BY <3>1, <4>2, <4>3, <4>4
    <3>2. CASE ~(comment[q] # None /\ comment[q].step \in Ids(steps[c]))
      <4>1. comment'[q] = comment[q]  BY <2>1, <3>2
      <4>2. comment[q] \in {None} \cup CommentRow  BY DEF Typed
      <4>3. QED  BY <3>2, <4>1, <4>2
    <3>3. QED  BY <3>1, <3>2
  <2>3. QED  BY <1>2, <2>1, <2>2
<1>3. QED  BY <1>1, <1>2

\* No comment is deleted with a step.
LEMMA UnanchoredStays ==
    ASSUME Typed, NEW c \in Cases, NEW sent, comment' = Unanchored(c, sent)
    PROVE  \A q \in Requests : comment[q] # None => comment'[q] # None
<1>1. CASE sent = Absent
  BY <1>1 DEF Unanchored
<1>2. CASE sent # Absent
  <2>1. ASSUME NEW q \in Requests, comment[q] # None  PROVE comment'[q] # None
    <3>1. comment' = [p \in Requests |->
              IF comment[p] # None /\ comment[p].step \in Ids(steps[c])
              THEN [comment[p] EXCEPT !.step = None] ELSE comment[p]]
      BY <1>2 DEF Unanchored
    <3>2. CASE comment[q].step \in Ids(steps[c])
      <4>1. PICK m \in CommentRow : m = comment[q]  BY <2>1 DEF Typed
      <4>2. comment'[q] = [m EXCEPT !.step = None]  BY <2>1, <3>1, <3>2, <4>1
      <4>3. [m EXCEPT !.step = None] \in CommentRow  BY DEF CommentRow
      <4>4. QED  BY <4>2, <4>3, RowAssumption
    <3>3. CASE comment[q].step \notin Ids(steps[c])
      BY <2>1, <3>1, <3>3
    <3>4. QED  BY <3>2, <3>3
  <2>2. QED  BY <2>1
<1>3. QED  BY <1>1, <1>2

LEMMA CommitUpdateKeeps ==
    ASSUME IInv, NEW r \in Requests, CommitUpdate(r)
    PROVE  IInv'
<1> USE DEF IInv
<1>1. PICK h \in AnyRequest : h = req[r]  BY DEF Typed
<1>2. /\ h.op = "update" /\ h.pc = "commit" /\ h \in SaveRequest
      /\ h.steps \in Seq(Step) \cup {Absent} /\ h.fields \in Fields
  BY <1>1, Kinds DEF CommitUpdate, SaveRequest
<1>3. PICK c \in Cases : c = h.case  BY <1>2 DEF SaveRequest
<1>4. PICK row \in CaseRow : row = case[c]
  BY <1>1, <1>2, <1>3 DEF Ready, ReadyBy
<1>5. PICK e : e = [case |-> c, action |-> "case.updated", actor |-> h.actor,
                    set |-> h.fields]
  OBVIOUS
<1>6. e \in LogRow /\ e.case = c /\ e.set = h.fields
  BY <1>2, <1>5 DEF LogRow, SaveRequest
<1>7. PICK x : x = ReadBack(c)  OBVIOUS
<1>8. x \in AnyRequest /\ x.op = "read" /\ x # Idle
  BY <1>7, ReadBackTyped DEF Idle
<1>9. /\ req' = [req EXCEPT ![r] = x]
      /\ case' = [case EXCEPT ![c] = Patched(case[c], h.fields)]
      /\ steps' = [steps EXCEPT ![c] = Replaced(steps[c], h.steps)]
      /\ comment' = Unanchored(c, h.steps)
      /\ caseLog' = Append(caseLog, e)
      /\ folder' = folder /\ linked' = linked /\ linkLog' = linkLog
  BY <1>1, <1>3, <1>5, <1>7 DEF CommitUpdate, Logged
<1>10. PICK new \in CaseRow : new = Patched(row, h.fields)
  BY <1>2, PatchedRow
<1>11. /\ req'[r] = x /\ \A q \in Requests \ {r} : req'[q] = req[q]
       /\ case'[c] = new /\ \A d \in Cases \ {c} : case'[d] = case[d]
       /\ \A d \in Cases \ {c} : steps'[d] = steps[d]
       /\ steps'[c] = Replaced(steps[c], h.steps)
  BY <1>4, <1>9, <1>10 DEF Typed
<1>12. Replaced(steps[c], h.steps) \in Seq(Step)
  BY <1>2 DEF Replaced, Typed
<1>13. Typed'
  <2>1. case' \in [Cases -> {None} \cup CaseRow]  BY <1>4, <1>9, <1>10 DEF Typed
  <2>2. steps' \in [Cases -> Seq(Step)]  BY <1>9, <1>12 DEF Typed
  <2>3. comment' \in [Requests -> {None} \cup CommentRow]  BY <1>9, UnanchoredEach
  <2>4. QED  BY <1>6, <1>8, <1>9, <2>1, <2>2, <2>3, LogAppended DEF Typed
<1>14. Ready'
  <2>1. ReadyBy(r, x)'  BY <1>8 DEF ReadyBy
  <2>2. \A d \in Cases : case[d] \in CaseRow => case'[d] \in CaseRow
    BY <1>11
  <2>3. QED  BY <1>8, <1>9, <2>1, <2>2, ReadyKept
<1>15. Unmade'
  <2>1. \A d \in Cases : ~WritesTo(x, d)  BY <1>8 DEF WritesTo
  <2>2. \A d \in Cases : case'[d] # case[d] => WritesTo(req[r], d)
    BY <1>1, <1>2, <1>3, <1>11 DEF WritesTo
  <2>3. \A q \in Requests : comment'[q] # None =>
            comment[q] # None /\ comment'[q].case = comment[q].case
    BY <1>9, UnanchoredEach
  <2>4. QED  BY <1>8, <1>9, <2>1, <2>2, <2>3, UnmadeKept
<1>16. Learns(r)
  <2>1. ASSUME NEW s \in Ids(steps'[c])  PROVE Known(s, c)
    <3>1. CASE h.steps = Absent
      BY <1>11, <2>1, <3>1 DEF Replaced, Known
    <3>2. CASE h.steps # Absent
      BY <1>1, <1>2, <1>3, <1>11, <2>1, <3>2 DEF Replaced, Known, KnownBy
    <3>3. QED  BY <3>1, <3>2
  <2>2. \A d \in Cases : \A s \in Ids(steps'[d]) : Known(s, d)
    BY <1>11, <2>1 DEF Known
  <2>3. QED  BY <1>8, <1>9, <2>2, ForgetLearns
<1>17. Owned' /\ Fresh'  BY <1>16, OwnedKept
<1>18. Shown'
  <2>1. ASSUME NEW q \in Requests, comment'[q] # None
        PROVE  \/ comment'[q].step = None
               \/ comment'[q].step \in Ids(steps'[comment'[q].case])
    <3>1. ShownAt(q)  BY ShownEach
    <3>2. /\ comment[q] # None /\ comment'[q].case = comment[q].case
          /\ \/ comment'[q].step = None
             \/ /\ comment'[q] = comment[q]
                /\ h.steps # Absent => comment[q].step \notin Ids(steps[c])
      BY <1>9, <2>1, UnanchoredEach
    <3>3. comment[q].case \in Cases  BY <3>2 DEF Typed, CommentRow
    <3>4. CASE comment[q].case # c
      BY <1>11, <3>1, <3>2, <3>3, <3>4 DEF ShownAt
    <3>5. CASE comment[q].case = c /\ h.steps = Absent
      BY <1>11, <3>1, <3>2, <3>5 DEF ShownAt, Replaced
    <3>6. CASE comment[q].case = c /\ h.steps # Absent
      BY <3>1, <3>2, <3>6 DEF ShownAt
    <3>7. QED  BY <3>4, <3>5, <3>6
  <2>2. \A q \in Requests : ShownAt(q)'
    BY <2>1 DEF ShownAt, Ids
  <2>3. QED  BY <1>13, <2>2, ShownEachNext
<1>19. AuditReplaysCases'
  <2>1. /\ h.fields["folder"] = h.fields.folder /\ h.fields["title"] = h.fields.title
        /\ \A d \in Cases : /\ case'[d]["folder"] = case'[d].folder
                            /\ case'[d]["title"] = case'[d].title
                            /\ case[d]["folder"] = case[d].folder
                            /\ case[d]["title"] = case[d].title
    OBVIOUS
  <2>2. case[c] # None  BY <1>4, RowAssumption
  <2>3. /\ new.folder = IF h.fields.folder = Absent THEN row.folder ELSE h.fields.folder
        /\ new.title = IF h.fields.title = Absent THEN row.title ELSE h.fields.title
        /\ new.archived = IF h.fields.archived = Absent THEN row.archived
                          ELSE h.fields.archived
    BY <1>2, <1>10, PatchedRow
  <2>4. \A d \in Cases : case'[d] # None =>
            Follows(e, "folder", d) /\ Follows(e, "title", d)
    BY <1>4, <1>6, <1>11, <2>1, <2>2, <2>3 DEF Follows
  <2>5. \A d \in Cases : case'[d] # None /\ case'[d].archived =>
            LogsArchived(e, d) \/ (case[d] # None /\ case[d].archived)
    BY <1>4, <1>6, <1>11, <2>2, <2>3 DEF LogsArchived
  <2>6. \A d \in Cases : ~Unlogged(req[r], d)
    BY <1>1, <1>2 DEF Unlogged
  <2>7. QED  BY <1>6, <1>9, <1>11, <2>4, <2>5, <2>6, ReplaysKept
<1>20. QED  BY <1>13, <1>14, <1>15, <1>17, <1>18, <1>19

-----------------------------------------------------------------------------
(* The beginning *)

LEMMA InitInv == Init => IInv
<1> SUFFICES ASSUME Init PROVE IInv  OBVIOUS
<1>1. \A r \in Requests : req[r] = Idle  BY DEF Init
<1>2. Idle \in AnyRequest /\ Idle.op = "none"  BY DEF AnyRequest, Idle
<1>3. \A c \in Cases : \A s \in Ids(steps[c]) :
          c \in SeedCases /\ \E n \in Nat : s = <<c, n>>
  <2>1. ASSUME NEW c \in Cases, NEW s \in Ids(steps[c])
        PROVE  c \in SeedCases /\ \E n \in Nat : s = <<c, n>>
    <3>1. CASE c \in SeedCases
      <4>1. steps[c] = [i \in 1..SeedSteps[c] |-> [id |-> <<c, i>>]]
        BY <3>1 DEF Init
      <4>2. SeedSteps[c] \in Nat  BY <3>1, LibraryAssumption
      <4>3. QED  BY <2>1, <3>1, <4>1, <4>2 DEF Ids
    <3>2. CASE c \notin SeedCases
      <4>1. steps[c] = <<>>  BY <3>2 DEF Init
      <4>2. QED  BY <2>1, <4>1 DEF Ids
    <3>3. QED  BY <3>1, <3>2
  <2>2. QED  BY <2>1
<1>4. \A s \in StepId : \A c \in Cases : Known(s, c) => s \in Ids(steps[c])
  BY <1>1, <1>2 DEF Known, KnownBy
<1>5. Typed
  <2>1. case \in [Cases -> {None} \cup CaseRow]
    BY DEF Init, CaseRow, Sender
  <2>2. ASSUME NEW c \in Cases  PROVE steps[c] \in Seq(Step)
    <3>1. CASE c \in SeedCases
      <4>1. PICK n \in Nat : n = SeedSteps[c]  BY <3>1, LibraryAssumption
      <4>2. steps[c] = [i \in 1..n |-> [id |-> <<c, i>>]]
        BY <3>1, <4>1 DEF Init
      <4>3. \A i \in 1..n : [id |-> <<c, i>>] \in Step
        BY DEF Step, StepId
      <4>4. QED  BY <4>2, <4>3
    <3>2. CASE c \notin SeedCases  BY <3>2 DEF Init
    <3>3. QED  BY <3>1, <3>2
  <2>3. steps \in [Cases -> Seq(Step)]  BY <2>2 DEF Init
  <2>4. folder \in [Folders -> Folders \cup {None, Absent}]  BY DEF Init
  <2>5. linked \subseteq Cases \X Requirements
    BY LibraryAssumption DEF Init, Cases
  <2>6. /\ comment \in [Requests -> {None} \cup CommentRow]
        /\ caseLog \in Seq(LogRow) /\ linkLog \in Seq(Cases \X Requirements)
        /\ req \in [Requests -> AnyRequest]
    BY <1>2 DEF Init
  <2>7. QED  BY <2>1, <2>3, <2>4, <2>5, <2>6 DEF Typed
<1>6. Ready  BY <1>1, <1>2 DEF Ready, ReadyBy
<1>7. Unmade
  <2>1. \A r \in Requests : r \notin SeedCases /\ r \in Cases
    BY LibraryAssumption DEF Cases
  <2>2. \A r \in Requests : case[r] = None /\ comment[r] = None
    BY <2>1 DEF Init
  <2>3. QED  BY <1>1, <1>2, <2>2 DEF Unmade, UnmadeBy, WritesTo
<1>8. Owned  BY <1>3, <1>4 DEF Owned
<1>9. Fresh
  <2>1. ASSUME NEW r \in Requests, NEW n \in Nat, NEW c \in Cases, Known(<<r, n>>, c)
        PROVE  FALSE
    <3>1. <<r, n>> \in StepId  BY DEF StepId, Cases
    <3>2. PICK m \in Nat : c \in SeedCases /\ <<r, n>> = <<c, m>>
      BY <1>3, <1>4, <2>1, <3>1
    <3>3. QED  BY <3>2, LibraryAssumption
  <2>2. QED  BY <2>1 DEF Fresh
<1>10. Shown
  BY DEF Init, Shown, Visible, CommentsOf
<1>11. AuditReplaysCases
  <2>1. \A f : \A c \in Cases : Sets(c, f) = {}  BY DEF Init, Sets
  <2>2. \A c \in Cases : case[c] # None => ~case[c].archived  BY DEF Init
  <2>3. QED  BY <2>1, <2>2 DEF AuditReplaysCases
<1>12. QED  BY <1>5, <1>6, <1>7, <1>8, <1>9, <1>10, <1>11 DEF IInv

-----------------------------------------------------------------------------
(* Every step *)

LEMMA NextInv == IInv /\ [Next]_vars => IInv'
<1> SUFFICES ASSUME IInv, [Next]_vars PROVE IInv'  OBVIOUS
<1>1. CASE UNCHANGED vars
  BY <1>1 DEF vars, IInv, Typed, Ready, ReadyBy, Unmade, UnmadeBy, Making, WritesTo,
              Owned, Fresh, Known, KnownBy, Shown, Visible, CommentsOf,
              AuditReplaysCases, Sets, Ids
<1>2. ASSUME NEW r \in Requests, Quiet(r)  PROVE IInv'
  <2>1. PICK x \in AnyRequest : Moves(r, x)  BY <1>2, QuietMoves DEF IInv
  <2>2. QED  BY <2>1, QuietKeeps
<1>3. ASSUME Next
      PROVE  \E r \in Requests :
                \/ Quiet(r) \/ InsertFolder(r) \/ CommitCreate(r) \/ CommitUpdate(r)
                \/ WriteArchived(r) \/ AuditArchived(r) \/ CommitComment(r)
                \/ CommitLink(r)
  BY <1>3 DEF Next, Quiet
<1>4. CASE Next
  BY <1>2, <1>3, <1>4, InsertFolderKeeps, CommitCreateKeeps, CommitUpdateKeeps,
     WriteArchivedKeeps, AuditArchivedKeeps, CommitCommentKeeps, CommitLinkKeeps
<1>5. QED  BY <1>1, <1>4

LEMMA Invariance == Spec => []IInv
<1>1. QED  BY InitInv, NextInv, PTL DEF Spec

-----------------------------------------------------------------------------
(* Lists *)

\* A comment is the last thing that its request has written.
Ended == \A q \in Requests : comment[q] # None => req[q] = Settled

\* The comments that h has seen of a case it has found are on the case or on one
\* of the steps that h has read of it.
AnchoredIn(h) ==
    \A q \in h.seen :
        /\ comment[q] # None
        /\ comment[q].case \in h.found =>
              \/ comment[q].step = None
              \/ comment[q].step \in Ids(h.steps[comment[q].case])

ReadsComments(h) == h.op = "read" /\ h.pc = "comments"

Anchored == \A r \in Requests : ReadsComments(req[r]) => AnchoredIn(req[r])

Kept == Ended /\ Anchored

\* Only ReadSteps brings a request to its comments.
LEMMA NotYet ==
    ASSUME Typed, NEW r \in Requests, Quiet(r), ~ReadSteps(r)
    PROVE  ~ReadsComments(req'[r])
<1>1. PICK h \in AnyRequest : h = req[r]  BY DEF Typed
<1>2. ASSUME NEW pc, Goto(r, pc), h.op \in {"folder", "create", "update", "archive",
                                            "comment", "link", "read"},
             pc # "comments"
      PROVE  ~ReadsComments(req'[r])
  <2>1. \/ h \in FolderRequest \/ h \in SaveRequest \/ h \in ArchiveRequest
        \/ h \in CommentRequest \/ h \in LinkRequest \/ h \in ReadRequest
    BY <1>2, Kinds
  <2>2. [h EXCEPT !.pc = pc].pc = pc
    BY <2>1 DEF FolderRequest, SaveRequest, ArchiveRequest, CommentRequest,
                LinkRequest, ReadRequest
  <2>3. req'[r] = [h EXCEPT !.pc = pc]  BY <1>1, <1>2 DEF Goto, Typed
  <2>4. QED  BY <1>2, <2>2, <2>3 DEF ReadsComments
<1>3. ASSUME Settle(r)  PROVE ~ReadsComments(req'[r])
  BY <1>3 DEF Settle, Settled, ReadsComments, Typed
<1>4. CASE PostFolder(r) \/ PostCase(r) \/ PatchCase(r) \/ DeleteCase(r)
           \/ PostComment(r) \/ PostLink(r) \/ GetCases(r) \/ GetCase(r)
  BY <1>4 DEF PostFolder, PostCase, PatchCase, DeleteCase, PostComment, PostLink,
              GetCases, GetCase, ReadBack, ReadsComments, Typed
<1>5. CASE CheckFolder(r) \/ CheckSave(r) \/ CheckArchive(r)
  BY <1>1, <1>2, <1>3, <1>5 DEF CheckFolder, CheckSave, CheckArchive
<1>6. CASE CheckCommented(r) \/ CheckStep(r) \/ CheckLinkedCase(r) \/ CheckLink(r)
  BY <1>1, <1>2, <1>3, <1>6 DEF CheckCommented, CheckStep, CheckLinkedCase, CheckLink
<1>7. CASE ReadRows(r)
  <2>1. CASE Settle(r)  BY <1>3, <2>1
  <2>2. CASE ~Settle(r)
    <3>1. req' = [req EXCEPT ![r] =
                    [op |-> "read", pc |-> "steps", found |-> Listed(req[r]),
                     steps |-> [c \in Cases |-> <<>>], seen |-> {}]]
      BY <1>7, <2>2 DEF ReadRows
    <3>2. req'[r].pc = "steps"  BY <3>1 DEF Typed
    <3>3. QED  BY <3>2 DEF ReadsComments
  <2>3. QED  BY <2>1, <2>2
<1>8. CASE ReadComments(r) \/ ReadLinks(r)
  BY <1>1, <1>2, <1>3, <1>8 DEF ReadComments, ReadLinks
<1>9. CASE Abandon(r)
  BY <1>1, <1>2, <1>3, <1>9 DEF Abandon
<1>10. QED
  BY <1>4, <1>5, <1>6, <1>7, <1>8, <1>9 DEF Quiet

\* A request that takes a step has not ended.
LEMMA NotEnded ==
    ASSUME NEW r \in Requests,
           \/ Quiet(r) \/ InsertFolder(r) \/ CommitCreate(r) \/ CommitUpdate(r)
           \/ WriteArchived(r) \/ AuditArchived(r) \/ CommitComment(r) \/ CommitLink(r)
    PROVE  req[r] # Settled
<1>1. Settled.op = "none" /\ Settled.pc = "settled" /\ Idle # Settled
  BY DEF Idle, Settled
<1>2. CASE ~Quiet(r)
  BY <1>1, <1>2 DEF InsertFolder, CommitCreate, CommitUpdate, WriteArchived,
     AuditArchived, CommitComment, CommitLink
<1>3. CASE Quiet(r)
  BY <1>1, <1>3 DEF Quiet, PostFolder, CheckFolder, PostCase, PatchCase, CheckSave,
     DeleteCase, CheckArchive, PostComment, CheckCommented, CheckStep, PostLink,
     CheckLinkedCase, CheckLink, GetCases, GetCase, ReadRows, ReadSteps, ReadComments,
     ReadLinks, Abandon
<1>4. QED  BY <1>2, <1>3

\* The other requests keep what they know, and the comments stay, are added by
\* this one, or lose their step.
Adds(r) ==
    /\ \A q \in Requests \ {r} : req'[q] = req[q]
    /\ \A q \in Requests \ {r} : comment'[q] # None =>
          /\ comment[q] # None /\ comment'[q].case = comment[q].case
          /\ comment'[q].step = None \/ comment'[q].step = comment[q].step
    /\ \A q \in Requests \ {r} : comment[q] # None => comment'[q] # None
    /\ comment'[r] # None => req'[r] = Settled

LEMMA KeptBy ==
    ASSUME Kept, Typed, NEW r \in Requests, comment[r] = None, Adds(r),
           ReadsComments(req'[r]) => AnchoredIn(req[r])'
    PROVE  Kept'
<1>1. Ended'  BY DEF Ended, Kept, Adds
<1>2. ASSUME NEW p \in Requests, ReadsComments(req'[p])  PROVE AnchoredIn(req[p])'
  <2>1. CASE p = r  BY <1>2, <2>1
  <2>2. CASE p # r
    <3>1. req'[p] = req[p]  BY <2>2 DEF Adds
    <3>2. AnchoredIn(req[p])  BY <1>2, <3>1 DEF Kept, Anchored
    <3>3. req[p].seen \subseteq Requests
      <4>1. PICK h \in AnyRequest : h = req[p]  BY DEF Typed
      <4>2. h \in ReadRequest /\ h.pc = "comments"
        BY <1>2, <3>1, <4>1, Kinds DEF ReadsComments
      <4>3. h.seen \subseteq Requests  BY <4>2 DEF ReadRequest
      <4>4. QED  BY <4>1, <4>3
    <3>4. ASSUME NEW q \in req[p].seen
          PROVE  /\ comment'[q] # None
                 /\ comment'[q].case \in req[p].found =>
                       \/ comment'[q].step = None
                       \/ comment'[q].step \in Ids(req[p].steps[comment'[q].case])
      BY <3>2, <3>3, <3>4 DEF AnchoredIn, Adds
    <3>5. QED  BY <3>1, <3>4 DEF AnchoredIn, Ids
  <2>3. QED  BY <2>1, <2>2
<1>3. QED  BY <1>1, <1>2 DEF Kept, Anchored, ReadsComments

\* When the steps are read, every comment is on its case or on one of its steps.
LEMMA ReadStepsAnchored ==
    ASSUME IInv, NEW r \in Requests, ReadSteps(r)
    PROVE  AnchoredIn(req[r])'
<1>1. PICK h \in AnyRequest : h = req[r]  BY DEF IInv, Typed
<1>2. h \in ReadRequest /\ h.pc = "steps"  BY <1>1, <1>1, Kinds DEF ReadSteps
<1>3. PICK list : list = [c \in Cases |-> IF c \in h.found THEN steps[c] ELSE <<>>]
  OBVIOUS
<1>4. PICK seen : seen = {q \in Requests : comment[q] # None}  OBVIOUS
<1>5. PICK x : x = [h EXCEPT !.pc = "comments", !.steps = list, !.seen = seen]
  OBVIOUS
<1>6. req' = [req EXCEPT ![r] = x]
  BY <1>1, <1>3, <1>4, <1>5 DEF ReadSteps
<1>7. req'[r] = x  BY <1>6 DEF IInv, Typed
<1>8. x.steps = list /\ x.seen = seen /\ x.found = h.found
  BY <1>2, <1>5 DEF ReadRequest
<1>9. comment' = comment  BY DEF ReadSteps
<1>10. ASSUME NEW q \in seen
       PROVE  /\ comment[q] # None
              /\ comment[q].case \in x.found =>
                    \/ comment[q].step = None
                    \/ comment[q].step \in Ids(x.steps[comment[q].case])
  <2>1. q \in Requests /\ comment[q] # None  BY <1>4
  <2>2. comment[q].case \in Cases  BY <2>1 DEF IInv, Typed, CommentRow
  <2>3. ShownAt(q)  BY <2>1, ShownEach DEF IInv
  <2>4. comment[q].case \in x.found => x.steps[comment[q].case] = steps[comment[q].case]
    BY <1>3, <1>8, <2>2
  <2>5. QED  BY <2>1, <2>3, <2>4 DEF ShownAt
<1>11. QED  BY <1>7, <1>8, <1>9, <1>10 DEF AnchoredIn, Ids

\* No step hides from a list what it has seen.
LEMMA NextKept == IInv /\ Kept /\ [Next]_vars => Kept'
<1> SUFFICES ASSUME IInv, Kept, [Next]_vars PROVE Kept'  OBVIOUS
<1>1. CASE UNCHANGED vars
  BY <1>1 DEF vars, Kept, Ended, Anchored, AnchoredIn, ReadsComments, Ids
<1>2. ASSUME NEW r \in Requests,
             \/ Quiet(r) \/ InsertFolder(r) \/ CommitCreate(r) \/ CommitUpdate(r)
             \/ WriteArchived(r) \/ AuditArchived(r) \/ CommitComment(r) \/ CommitLink(r)
      PROVE  Kept'
  <2>1. Typed  BY DEF IInv
  <2>2. comment[r] = None  BY <1>2, NotEnded DEF Kept, Ended
  <2>3. CASE Quiet(r)
    <3>1. comment' = comment /\ \A q \in Requests \ {r} : req'[q] = req[q]
      <4>1. PICK x \in AnyRequest : Moves(r, x)  BY <2>3, QuietMoves DEF IInv
      <4>2. QED  BY <4>1 DEF Moves, rows, IInv, Typed
    <3>2. Adds(r)  BY <2>2, <3>1 DEF Adds
    <3>3. ReadsComments(req'[r]) => AnchoredIn(req[r])'
      BY <2>1, <2>3, NotYet, ReadStepsAnchored
    <3>4. QED  BY <2>1, <2>2, <3>2, <3>3, KeptBy
  <2>4. CASE InsertFolder(r) \/ AuditArchived(r) \/ CommitLink(r)
    <3>1. comment' = comment /\ Settle(r)
      BY <2>4 DEF InsertFolder, AuditArchived, CommitLink
    <3>2. req'[r] = Settled /\ \A q \in Requests \ {r} : req'[q] = req[q]
      BY <2>1, <3>1 DEF Settle, Typed
    <3>3. Adds(r)  BY <3>1, <3>2 DEF Adds
    <3>4. ~ReadsComments(req'[r])  BY <3>2 DEF ReadsComments, Settled
    <3>5. QED  BY <2>1, <2>2, <3>3, <3>4, KeptBy
  <2>5. CASE WriteArchived(r)
    <3>1. PICK h \in AnyRequest : h = req[r]  BY <2>1 DEF Typed
    <3>2. h.op = "archive" /\ comment' = comment /\ Goto(r, "audit")
      BY <2>5, <3>1 DEF WriteArchived
    <3>3. /\ req'[r] = [h EXCEPT !.pc = "audit"]
          /\ \A q \in Requests \ {r} : req'[q] = req[q]
      BY <2>1, <3>1, <3>2 DEF Goto, Typed
    <3>4. Adds(r)  BY <2>2, <3>2, <3>3 DEF Adds
    <3>5. h \in ArchiveRequest  BY <3>2, Kinds
    <3>6. [h EXCEPT !.pc = "audit"].pc = "audit"  BY <3>5 DEF ArchiveRequest
    <3>7. ~ReadsComments(req'[r])  BY <3>3, <3>6 DEF ReadsComments
    <3>8. QED  BY <2>1, <2>2, <3>4, <3>7, KeptBy
  <2>6. CASE CommitCreate(r)
    <3>1. comment' = comment /\ req' = [req EXCEPT ![r] = ReadBack(r)]
      BY <2>6 DEF CommitCreate
    <3>2. req'[r] = ReadBack(r) /\ \A q \in Requests \ {r} : req'[q] = req[q]
      BY <2>1, <3>1 DEF Typed
    <3>3. Adds(r)  BY <2>2, <3>1, <3>2 DEF Adds
    <3>4. ~ReadsComments(req'[r])  BY <3>2 DEF ReadsComments, ReadBack
    <3>5. QED  BY <2>1, <2>2, <3>3, <3>4, KeptBy
  <2>7. CASE CommitUpdate(r)
    <3>1. PICK h \in AnyRequest : h = req[r]  BY <2>1 DEF Typed
    <3>2. h \in SaveRequest  BY <2>7, <3>1, Kinds DEF CommitUpdate
    <3>3. PICK c \in Cases : c = h.case  BY <3>2 DEF SaveRequest
    <3>4. comment' = Unanchored(c, h.steps) /\ req' = [req EXCEPT ![r] = ReadBack(c)]
      BY <2>7, <3>1, <3>3 DEF CommitUpdate
    <3>5. req'[r] = ReadBack(c) /\ \A q \in Requests \ {r} : req'[q] = req[q]
      BY <2>1, <3>4 DEF Typed
    <3>6. \A q \in Requests : comment'[q] # None =>
             /\ comment[q] # None /\ comment'[q].case = comment[q].case
             /\ comment'[q].step = None \/ comment'[q].step = comment[q].step
      BY <2>1, <3>4, UnanchoredEach
    <3>7. \A q \in Requests : comment[q] # None => comment'[q] # None
      BY <2>1, <3>4, UnanchoredStays
    <3>8. Adds(r)  BY <2>2, <3>5, <3>6, <3>7 DEF Adds
    <3>9. ~ReadsComments(req'[r])  BY <3>5 DEF ReadsComments, ReadBack
    <3>10. QED  BY <2>1, <2>2, <3>8, <3>9, KeptBy
  <2>8. CASE CommitComment(r)
    <3>1. /\ \A q \in Requests \ {r} : comment'[q] = comment[q]
          /\ Settle(r)
      BY <2>1, <2>8 DEF CommitComment, Typed
    <3>2. req'[r] = Settled /\ \A q \in Requests \ {r} : req'[q] = req[q]
      BY <2>1, <3>1 DEF Settle, Typed
    <3>3. Adds(r)  BY <3>1, <3>2 DEF Adds
    <3>4. ~ReadsComments(req'[r])  BY <3>2 DEF ReadsComments, Settled
    <3>5. QED  BY <2>1, <2>2, <3>3, <3>4, KeptBy
  <2>9. QED  BY <1>2, <2>3, <2>4, <2>5, <2>6, <2>7, <2>8
<1>3. ASSUME Next
      PROVE  \E r \in Requests :
                \/ Quiet(r) \/ InsertFolder(r) \/ CommitCreate(r) \/ CommitUpdate(r)
                \/ WriteArchived(r) \/ AuditArchived(r) \/ CommitComment(r)
                \/ CommitLink(r)
  BY <1>3 DEF Next, Quiet
<1>4. QED  BY <1>1, <1>2, <1>3

LEMMA KeptAlways == Spec => [](IInv /\ Kept)
<1>1. Init => Kept
  BY DEF Init, Kept, Ended, Anchored, ReadsComments, Idle
<1>2. IInv /\ Kept /\ [Next]_vars => IInv' /\ Kept'
  BY NextInv, NextKept
<1>3. QED  BY <1>1, <1>2, InitInv, PTL DEF Spec

-----------------------------------------------------------------------------
(* The theorems *)

\* Types are right, and every comment of a case can be shown: the foreign key of
\* a comment's step (schema.ts:375-378) is checked when the comment is inserted,
\* and no step is of two cases, so what addCaseComment has checked before its
\* transaction (TestCaseService.ts:809-818) cannot go wrong in between.
THEOREM TypeCorrect == Spec => []TypeOK
<1>1. IInv => TypeOK
  BY DEF IInv, Typed, Shown, TypeOK
<1>2. QED  BY <1>1, Invariance, PTL

\* The audit log gives the folder and the title of every case, though handlers
\* write without reading again what they have checked; and archiving is logged,
\* but for the handlers of archiveCase stopped between their two statements.
THEOREM AuditReplays == Spec => []AuditReplaysCases
<1>1. IInv => AuditReplaysCases
  BY DEF IInv
<1>2. QED  BY <1>1, Invariance, PTL

\* A list of cases, read while cases are saved, hides no comment that was there
\* when it read the steps: a step deleted since has left its comments to the
\* case, and the others still stand on a step of the list.
THEOREM ReadsHideOnlyNew == Spec => ReadHidesOnlyNew
<1>1. IInv /\ Kept /\ [Next]_vars =>
        [\A r \in Requests : ReadComments(r) =>
           \A c \in req[r].found :
              CommentsOf(c) \cap req[r].seen
                  \subseteq Visible(req[r].steps[c], CommentsOf(c))]_vars
  <2> SUFFICES ASSUME Kept, NEW r \in Requests, ReadComments(r), NEW c \in req[r].found
               PROVE  CommentsOf(c) \cap req[r].seen
                          \subseteq Visible(req[r].steps[c], CommentsOf(c))
    OBVIOUS
  <2>1. AnchoredIn(req[r])  BY DEF Kept, Anchored, ReadComments, ReadsComments
  <2>2. ASSUME NEW q \in Requests, q \in req[r].seen,
               comment[q] # None, comment[q].case = c
        PROVE  comment[q].step = None \/ comment[q].step \in Ids(req[r].steps[c])
    BY <2>1, <2>2 DEF AnchoredIn
  <2>3. QED  BY <2>2 DEF CommentsOf, Visible
<1>2. QED  BY <1>1, KeptAlways, PTL DEF Spec, ReadHidesOnlyNew

\* Linking implements a set with a log: a pair is added and logged once, in one
\* step, however many requests have found it missing (RequirementService.ts:383-412).
THEOREM LinkingImplements == Spec => LinksAudited
<1>1. Init => Links!Init
  BY DEF Init, Links!Init
<1>2. IInv /\ [Next]_vars =>
        [\E e \in Cases \X Requirements : Links!Add(e)]_<<linked, linkLog>>
  <2> SUFFICES ASSUME IInv, Next,
                      <<linked, linkLog>>' # <<linked, linkLog>>
               PROVE  \E e \in Cases \X Requirements : Links!Add(e)
    BY DEF vars
  <2>1. PICK r \in Requests : \/ Quiet(r) \/ InsertFolder(r) \/ CommitCreate(r)
                              \/ CommitUpdate(r) \/ WriteArchived(r)
                              \/ AuditArchived(r) \/ CommitComment(r) \/ CommitLink(r)
    BY DEF Next, Quiet
  <2>2. ~Quiet(r)
    BY QuietMoves DEF IInv, Moves, rows
  <2>3. CommitLink(r)
    BY <2>1, <2>2 DEF InsertFolder, CommitCreate, CommitUpdate, WriteArchived,
                      AuditArchived, CommitComment
  <2> DEFINE e == <<req[r].case, req[r].requirement>>
  <2>4. e \in Cases \X Requirements
    <3>1. PICK h \in AnyRequest : h = req[r]  BY DEF IInv, Typed
    <3>2. h \in LinkRequest  BY <2>3, <3>1, Kinds DEF CommitLink
    <3>3. QED  BY <3>1, <3>2 DEF LinkRequest
  <2>5. Links!Add(e)
    BY <2>3 DEF CommitLink, Unique, Links!Add
  <2>6. QED  BY <2>4, <2>5
<1>3. QED  BY <1>1, <1>2, Invariance, PTL DEF Spec, LinksAudited, Links!Spec
=============================================================================
