-------------------------- MODULE CaseScreenProofs --------------------------
(***************************************************************************)
(* What the Cases screen edits and what it shows, for any rows, any number *)
(* of flows, and answers and syncs in any order.                           *)
(*                                                                         *)
(* TypeOK and EditorCurrent are not inductive: a step that shows an answer *)
(* needs that the flow has what the call took (AllPlaced), that what it    *)
(* refers to is there (Rooted), that nothing has come of flows whose call  *)
(* is not carried out (Unwritten), and that a sync with nobody beside it   *)
(* has read what the server has (Alone).  Even joins them.                 *)
(*                                                                         *)
(* ScreenAgrees is about quiet states only; Tracked says what holds        *)
(* between them: row by row and list by list, the screen has what the      *)
(* server has, up to the answers on their way.  A step keeps that, or it   *)
(* misleads the screen; a sync with nothing beside it restores that.       *)
(***************************************************************************)
EXTENDS CaseScreen, TLAPS

\* A flow's op and where it is.
Op(f) == flow[f].op
Pc(f) == flow[f].pc
At(f, op, pc) == flow[f].op = op /\ flow[f].pc = pc

\* The calls that write, and those of them about one case.
CommandOps == {"create", "folder", "save", "delete", "comment", "require", "link", "run"}
AboutCase == {"save", "delete", "comment", "require", "link"}

\* What a flow at each place has.
Placed(f) ==
    /\ Op(f) \in {"create", "folder", "save", "delete", "comment", "run"} =>
          Pc(f) \in {"post", "answered"}
    /\ Op(f) = "require" => Pc(f) \in {"post", "answered", "link", "linked"} /\ flow[f].req = f
    /\ Op(f) = "link" => Pc(f) \in {"wait", "link", "linked"} /\ flow[f].req # None
    /\ Op(f) = "create" => flow[f].new # None
    /\ Op(f) \in AboutCase => flow[f].case # None /\ case[flow[f].case] # None
    /\ Op(f) = "save" =>
          /\ flow[f].was # <<>> /\ flow[f].new # None
          /\ flow[f].new = Typed(Head(flow[f].was), f, flow[f].new.folder, flow[f].new.local)
    /\ Pc(f) \in {"link", "linked"} => flow[f].req \in reqs
    /\ Pc(f) = "wait" =>
          /\ flow[f].req \in Flows /\ Pc(flow[f].req) # "idle"
          /\ Temp(flow[f].req) \in screen.reqs \/ flow[f].req \in reqs
    /\ Op(f) = "require" /\ Pc(f) \in {"post", "answered"} => Temp(f) \in screen.reqs
    /\ At(f, "require", "answered") => f \in reqs
    /\ At(f, "create", "answered") => case[f] # None

-----------------------------------------------------------------------------
(* Sequences *)

\* A nonempty sequence begins with one of its elements.
LEMMA HeadIn ==
    ASSUME NEW S, NEW s \in Seq(S), s # <<>>
    PROVE  /\ Head(s) = s[1] /\ Head(s) \in S
           /\ 1 \in DOMAIN s /\ Len(s) \in Nat \ {0}
<1>1. Len(s) \in Nat /\ Len(s) # 0  OBVIOUS
<1>2. QED  BY <1>1

\* A function on the places of a sequence is one of the same length.
LEMMA SamePlaces ==
    ASSUME NEW S, NEW T, NEW s \in Seq(S), NEW t \in [DOMAIN s -> T]
    PROVE  /\ t \in Seq(T) /\ Len(t) = Len(s)
           /\ (s = <<>> <=> t = <<>>)
           /\ s # <<>> => Head(t) = t[1]
<1>1. Len(s) \in Nat /\ DOMAIN s = 1..Len(s)  OBVIOUS
<1>2. t \in Seq(T) /\ Len(t) = Len(s)  BY <1>1
<1>3. s = <<>> <=> t = <<>>  BY <1>1, <1>2
<1>4. s # <<>> => Head(t) = t[1]  BY <1>2, <1>3
<1>5. QED  BY <1>2, <1>3, <1>4

\* An element put at the end leaves the head.
LEMMA AppendHead ==
    ASSUME NEW S, NEW s \in Seq(S), NEW e \in S
    PROVE  /\ Append(s, e) \in Seq(S) /\ Append(s, e) # <<>>
           /\ Len(Append(s, e)) = Len(s) + 1
           /\ s # <<>> => Head(Append(s, e)) = Head(s)
           /\ s = <<>> => Append(s, e) = <<e>> /\ Head(Append(s, e)) = e
<1>1. /\ Append(s, e) \in Seq(S) /\ Len(Append(s, e)) = Len(s) + 1
      /\ Len(s) \in Nat
  OBVIOUS
<1>2. Append(s, e) # <<>>  BY <1>1
<1>3. s # <<>> => Head(Append(s, e)) = Head(s)  BY <1>1, <1>2
<1>4. s = <<>> => Append(s, e) = <<e>> /\ Head(Append(s, e)) = e  BY <1>1, <1>2
<1>5. QED  BY <1>1, <1>2, <1>3, <1>4

-----------------------------------------------------------------------------
(* What the browser holds *)

\* A draft is of what the panel shows.
Editing(s) == s.draft # None => Detail(s) /\ s.draft = Shown(s)
Good(s) == s \in Screen /\ Editing(s)

\* What is synchronised of a screen.
SameContent(s, t) ==
    s.cases = t.cases /\ s.folders = t.folders /\ s.reqs = t.reqs /\ s.runs = t.runs

\* A panel that drops its draft (CaseDetail on caseData) edits nothing stale.
LEMMA ResetGood ==
    ASSUME NEW s \in Screen
    PROVE  Good(Reset(s)) /\ SameContent(Reset(s), s) /\ Reset(s).open = s.open
<1>1. Reset(s) \in Screen  BY DEF Reset, Screen
<1>2. Reset(s).draft = None  BY DEF Reset, Screen
<1>3. SameContent(Reset(s), s) /\ Reset(s).open = s.open  BY DEF Reset, Screen, SameContent
<1>4. QED  BY <1>1, <1>2, <1>3 DEF Good, Editing

\* Another open case: the panel edits nothing.
LEMMA OpenedGood ==
    ASSUME NEW s, Good(s), NEW c \in Cases \cup {None}
    PROVE  Good(Opened(s, c)) /\ SameContent(Opened(s, c), s) /\ Opened(s, c).open = c
<1>1. CASE c = s.open  BY <1>1 DEF Opened, SameContent
<1>2. CASE c # s.open
  <2> DEFINE t == [s EXCEPT !.open = c, !.pending = None]
  <2>1. t \in Screen /\ SameContent(t, s) /\ t.open = c  BY DEF Good, Screen, SameContent
  <2>2. Opened(s, c) = Reset(t)  BY <1>2 DEF Opened
  <2> HIDE DEF t
  <2>3. QED  BY <2>1, <2>2, ResetGood DEF SameContent
<1>3. QED  BY <1>1, <1>2

\* Another folder: the panel is closed.
LEMMA SelectedGood ==
    ASSUME NEW s, Good(s), NEW g \in Folders \cup {None, Missing}
    PROVE  Good(Selected(s, g)) /\ SameContent(Selected(s, g), s)
<1> DEFINE t == Opened(s, None)
<1>1. Good(t) /\ SameContent(t, s) /\ t.open = None  BY OpenedGood
<1> HIDE DEF t
<1>2. [t EXCEPT !.selected = g] \in Screen  BY <1>1 DEF Good, Screen
<1>3. /\ SameContent([t EXCEPT !.selected = g], t)
      /\ [t EXCEPT !.selected = g].draft = t.draft
      /\ [t EXCEPT !.selected = g].open = t.open
  BY <1>1 DEF Good, Screen, SameContent
<1>4. Editing([t EXCEPT !.selected = g])
  BY <1>1, <1>3 DEF Good, Editing, SameContent, Detail, Shown
<1>5. QED  BY <1>1, <1>2, <1>3, <1>4 DEF Selected, SameContent, t, Good

\* An answer changes copies: of the open case only where the draft is dropped.
LEMMA TouchedGood ==
    ASSUME NEW s, Good(s), NEW t \in Screen, NEW X,
           t.open = s.open, t.draft = s.draft,
           \A c \in Cases : c \notin X => t.cases[c] = s.cases[c]
    PROVE  Good(Touched(t, X)) /\ SameContent(Touched(t, X), t)
<1>1. CASE t.open \in X  BY <1>1, ResetGood DEF Touched
<1>2. CASE t.open \notin X
  <2>1. t.open \in Cases \cup {None}  BY DEF Screen
  <2>2. Editing(t)
    BY <1>2, <2>1 DEF Good, Editing, Detail, Shown
  <2>3. QED  BY <1>2, <2>2 DEF Touched, Good, SameContent
<1>3. QED  BY <1>1, <1>2

\* What the panel shows is the copy of a listed case.
LEMMA ShownTyped ==
    ASSUME NEW s \in Screen, Detail(s)
    PROVE  s.open \in ListedCases(s) /\ Shown(s) \in Copy
<1>1. s.open \in Cases /\ s.cases[s.open] \in Seq(Copy) /\ s.cases[s.open] # <<>>
  BY DEF Screen, Detail
<1>2. QED  BY <1>1, HeadIn DEF Shown, ListedCases

\* The draft that the menu of a case begins is of what the panel shows.
LEMMA MenuGood ==
    ASSUME NEW s, Good(s), NEW c \in ListedCases(s)
    PROVE  Good(EditFromMenu(s, c)) /\ SameContent(EditFromMenu(s, c), s)
<1> DEFINE u == Opened(s, c)
           p == IF c = s.open THEN c ELSE None
           to == [u EXCEPT !.pending = p]
           last == [to EXCEPT !.draft = Shown(to)]
<1>1. c \in Cases /\ s.cases[c] # <<>>  BY DEF ListedCases
<1>2. Good(u) /\ SameContent(u, s) /\ u.open = c  BY <1>1, OpenedGood
<1>3. p \in Cases \cup {None}  BY <1>1
<1>4. EditFromMenu(s, c) = IF Detail(s) /\ s.pending = s.open THEN to ELSE last
  BY DEF EditFromMenu
<1> HIDE DEF u, p
<1>5. to \in Screen /\ SameContent(to, u) /\ to.open = u.open /\ to.draft = u.draft
  BY <1>2, <1>3 DEF Good, Screen, SameContent
<1>6. Good(to)  BY <1>2, <1>5 DEF Good, Editing, SameContent, Detail, Shown
<1> HIDE DEF to
<1>7. Detail(to)
  BY <1>1, <1>2, <1>5, CaseScreenAssumption DEF SameContent, Detail
<1>8. Shown(to) \in Copy  BY <1>5, <1>7, ShownTyped
<1>9. last \in Screen /\ SameContent(last, to) /\ last.open = to.open /\ last.draft = Shown(to)
  BY <1>5, <1>8 DEF Screen, SameContent
<1>10. Good(last)  BY <1>7, <1>9 DEF Good, Editing, SameContent, Detail, Shown
<1> HIDE DEF last
<1>11. QED  BY <1>2, <1>4, <1>5, <1>6, <1>9, <1>10 DEF SameContent

-----------------------------------------------------------------------------
(* Types, and the flows *)

\* Types, for the part of TypeOK and EditorCurrent that a step may disturb.
FlowState == {Idle, Past} \cup Commands \cup Syncs

FlowTyped == flow \in [Flows -> FlowState]

ServerTyped ==
    /\ case \in [Cases -> {None} \cup CaseRow]
    /\ folder \in [Folders -> Folders \cup {None, Missing}]
    /\ reqs \subseteq Reqs
    /\ links \subseteq Cases \X Reqs
    /\ run \in [Flows -> {None} \cup SUBSET Cases]

Fine == ServerTyped /\ Good(screen) /\ FlowTyped /\ misled \in BOOLEAN

\* What the invariant says of types is the type invariant and EditorCurrent.
LEMMA FineMeans ==
    /\ TypeOK /\ EditorCurrent <=> Fine /\ overlapped \subseteq Flows
    /\ (TypeOK /\ EditorCurrent <=> Fine /\ overlapped \subseteq Flows)'
<1>1. TypeOK /\ EditorCurrent <=> Fine /\ overlapped \subseteq Flows
  BY DEF TypeOK, EditorCurrent, Fine, Good, Editing, ServerTyped, FlowTyped, FlowState
<1>2. (TypeOK /\ EditorCurrent <=> Fine /\ overlapped \subseteq Flows)'
  BY DEF TypeOK, EditorCurrent, Fine, Good, Editing, ServerTyped, FlowTyped, FlowState
<1>3. QED  BY <1>1, <1>2

\* A server that has not changed.
LEMMA ServerStays ==
    ASSUME Fine, UNCHANGED Server
    PROVE  ServerTyped'
BY DEF Fine, Server, ServerTyped

\* The kind of a flow is known by its op.
LEMMA Kinds ==
    ASSUME FlowTyped, NEW f \in Flows
    PROVE  /\ flow[f] \in FlowState
           /\ Op(f) \in CommandOps => flow[f] \in Commands
           /\ Op(f) = "sync" => flow[f] \in Syncs /\ Pc(f) = "read"
           /\ Op(f) \in CommandOps \cup {"sync", "none"}
           /\ Op(f) = "none" => flow[f] \in {Idle, Past} /\ Pc(f) \in {"idle", "done"}
           /\ Pc(f) = "idle" <=> flow[f] = Idle
           /\ Pc(f) = "done" <=> flow[f] = Past
           /\ Pc(f) = "read" <=> Op(f) = "sync"
           /\ Op(f) \in CommandOps <=>
                 Pc(f) \in {"post", "wait", "link", "answered", "linked"}
<1>1. flow[f] \in FlowState  BY DEF FlowTyped
<1>2. CASE flow[f] \in {Idle, Past}
  BY <1>2 DEF Idle, Past, Op, Pc, FlowState, CommandOps
<1>3. CASE flow[f] \in Commands
  BY <1>3 DEF Idle, Past, Op, Pc, FlowState, CommandOps, Commands
<1>4. CASE flow[f] \in Syncs
  BY <1>4 DEF Idle, Past, Op, Pc, FlowState, CommandOps, Syncs
<1>5. QED  BY <1>1, <1>2, <1>3, <1>4 DEF FlowState

\* The flows alike but for what is opened at the end.
AlikeFlow(h, k) ==
    /\ h.op = k.op /\ h.pc = k.pc /\ h.case = k.case /\ h.req = k.req
    /\ h.was = k.was /\ h.new = k.new /\ h.cases = k.cases /\ h.folder = k.folder
    /\ h.op = "sync" => h = k

\* The flows that a step of f leaves alone.
Alike(g) == AlikeFlow(flow'[g], flow[g])
OthersAlike(f) == \A g \in Flows \ {f} : Alike(g)

\* A flow that is assigned a new state; the others keep theirs.
LEMMA Moves ==
    ASSUME FlowTyped, NEW f \in Flows, NEW x \in FlowState,
           flow' = [flow EXCEPT ![f] = x]
    PROVE  /\ FlowTyped' /\ flow'[f] = x
           /\ \A g \in Flows \ {f} : flow'[g] = flow[g]
           /\ OthersAlike(f)
BY DEF FlowTyped, OthersAlike, Alike, AlikeFlow

\* The command that f is, at another place.
Onward(f, pc) ==
    /\ flow'[f] = [flow[f] EXCEPT !.pc = pc]
    /\ flow'[f].op = flow[f].op /\ flow'[f].pc = pc /\ flow'[f].case = flow[f].case
    /\ flow'[f].req = flow[f].req /\ flow'[f].was = flow[f].was
    /\ flow'[f].new = flow[f].new /\ flow'[f].cases = flow[f].cases
    /\ flow'[f].folder = flow[f].folder /\ flow'[f].opens = flow[f].opens

\* A command that goes on.
LEMMA Goes ==
    ASSUME FlowTyped, NEW f \in Flows, Op(f) \in CommandOps,
           NEW pc \in {"post", "wait", "link", "answered", "linked"}, Goto(f, pc)
    PROVE  /\ FlowTyped' /\ Onward(f, pc)
           /\ \A g \in Flows \ {f} : flow'[g] = flow[g]
           /\ OthersAlike(f)
<1>1. flow[f] \in Commands  BY Kinds
<1> DEFINE x == [flow[f] EXCEPT !.pc = pc]
<1>2. x \in Commands /\ x.op = flow[f].op /\ x.pc = pc /\ x.case = flow[f].case
      /\ x.req = flow[f].req /\ x.was = flow[f].was
      /\ x.new = flow[f].new /\ x.cases = flow[f].cases
      /\ x.folder = flow[f].folder /\ x.opens = flow[f].opens
  BY <1>1 DEF Commands
<1>3. flow' = [flow EXCEPT ![f] = x]  BY DEF Goto
<1> HIDE DEF x
<1>4. x \in FlowState  BY <1>2 DEF FlowState
<1>5. /\ FlowTyped' /\ flow'[f] = x
      /\ \A g \in Flows \ {f} : flow'[g] = flow[g]
      /\ OthersAlike(f)
  BY <1>3, <1>4, Moves
<1>6. QED  BY <1>2, <1>5 DEF Onward, x

\* A flow that ends.
LEMMA Ends ==
    ASSUME FlowTyped, NEW f \in Flows, End(f)
    PROVE  /\ FlowTyped' /\ flow'[f] = Past
           /\ flow'[f].op = "none" /\ flow'[f].pc = "done"
           /\ \A g \in Flows \ {f} : flow'[g] = flow[g]
           /\ OthersAlike(f)
<1>1. Past \in FlowState  BY DEF FlowState
<1>2. flow' = [flow EXCEPT ![f] = Past]  BY DEF End
<1>3. /\ FlowTyped' /\ flow'[f] = Past
      /\ \A g \in Flows \ {f} : flow'[g] = flow[g]
      /\ OthersAlike(f)
  BY <1>1, <1>2, Moves
<1>4. QED  BY <1>3 DEF Past

-----------------------------------------------------------------------------
(* What the user does *)

\* The clicks that call nothing change what is open and edited, and no more.
LEMMA BrowseFine ==
    ASSUME Fine, Browse
    PROVE  Fine' /\ SameContent(screen', screen) /\ UNCHANGED <<Server, flow, misled>>
<1>1. UNCHANGED <<Server, flow, misled>>
  BY DEF Browse, OpenCase, SelectFolder, StartEdit, CancelEdit, MenuEdit
<1>2. Good(screen') /\ SameContent(screen', screen)
  <2>1. CASE OpenCase
    <3>1. PICK c \in Cases \cup {None} : screen' = Opened(screen, c)
      BY <2>1 DEF OpenCase, ListedCases
    <3>2. QED  BY <3>1, OpenedGood DEF Fine
  <2>2. CASE SelectFolder
    <3>1. PICK g \in Folders \cup {None, Missing} : screen' = Selected(screen, g)
      BY <2>2 DEF SelectFolder, ListedFolders
    <3>2. QED  BY <3>1, SelectedGood DEF Fine
  <2>3. CASE StartEdit
    <3>1. Detail(screen) /\ screen' = [screen EXCEPT !.draft = Shown(screen)]
      BY <2>3 DEF StartEdit
    <3>2. Shown(screen) \in Copy  BY <3>1, ShownTyped DEF Fine, Good
    <3>3. /\ screen' \in Screen /\ SameContent(screen', screen)
          /\ screen'.open = screen.open /\ screen'.draft = Shown(screen)
      BY <3>1, <3>2 DEF Fine, Good, Screen, SameContent
    <3>4. QED  BY <3>1, <3>3 DEF Good, Editing, SameContent, Detail, Shown
  <2>4. CASE CancelEdit
    BY <2>4, ResetGood DEF CancelEdit, Fine, Good
  <2>5. CASE MenuEdit
    <3>1. PICK c \in ListedCases(screen) : screen' = EditFromMenu(screen, c)
      BY <2>5 DEF MenuEdit
    <3>2. QED  BY <3>1, MenuGood DEF Fine
  <2>6. QED  BY <2>1, <2>2, <2>3, <2>4, <2>5 DEF Browse
<1>3. ServerTyped'  BY <1>1, ServerStays
<1>4. QED  BY <1>1, <1>2, <1>3 DEF Fine, FlowTyped

\* A command as it begins.
LEMMA CommandTyped ==
    ASSUME NEW op \in CommandOps,
           NEW pc \in {"post", "wait", "link", "answered", "linked"}
    PROVE  /\ Command(op, pc) \in Commands
           /\ Command(op, pc).op = op /\ Command(op, pc).pc = pc
<1>1. <<>> \in Seq(Copy)  OBVIOUS
<1>2. QED  BY <1>1 DEF Command, Commands, CommandOps

\* A case to be created: a new one, or a copy of one that is shown.
NewOrCopy(f, new) ==
    /\ new \in Copy
    /\ \/ new.ver = f /\ new.comments = NoComment /\ new.reqs = {}
       \/ \E c \in ListedCases(screen) :
             new = [Head(screen.cases[c]) EXCEPT !.reqs = {}, !.local = FALSE]

\* What is known of a flow that begins with nothing shown.
Begun(f) ==
    LET x == flow'[f]
    IN /\ Pc(f) = "idle" /\ f \notin Others
       /\ x.op \in {"create", "folder", "save", "delete", "comment", "run", "sync"}
       /\ x.pc = IF x.op = "sync" THEN "read" ELSE "post"
       /\ x.op = "create" => NewOrCopy(f, x.new)
       /\ x.op \in {"save", "delete", "comment"} => x.case \in ListedCases(screen)
       /\ x.op = "save" =>
             /\ x.was = screen.cases[x.case] /\ x.new \in Copy
             /\ x.new = Typed(Head(x.was), f, x.new.folder, x.new.local)
       /\ x.op = "sync" => /\ x.cases = None /\ x.folders = None
                           /\ x.reqs = None /\ x.runs = None

\* The handlers that show nothing before the answer.
Quiet(f) ==
    QuickCreate(f) \/ CreateCase(f) \/ Duplicate(f) \/ AddFolder(f) \/ SaveEdit(f)
    \/ DeleteCase(f) \/ AddComment(f) \/ CreateRun(f) \/ Sync(f)

\* A flow begins once.
LEMMA Begins ==
    ASSUME FlowTyped, NEW f \in Flows, Ready(f), NEW x \in Commands \cup Syncs,
           Begin(f, x)
    PROVE  /\ FlowTyped' /\ flow'[f] = x
           /\ \A g \in Flows \ {f} : flow'[g] = flow[g]
           /\ OthersAlike(f) /\ Pc(f) = "idle" /\ f \notin Others
<1>1. x \in FlowState  BY DEF FlowState
<1>2. flow' = [flow EXCEPT ![f] = x]  BY DEF Begin
<1>3. /\ FlowTyped' /\ flow'[f] = x
      /\ \A g \in Flows \ {f} : flow'[g] = flow[g]
      /\ OthersAlike(f)
  BY <1>1, <1>2, Moves
<1>4. Pc(f) = "idle" /\ f \notin Others  BY DEF Ready, Pc, Idle
<1>5. QED  BY <1>3, <1>4

\* What a command leaves open at its end is no part of what the others have.
LEMMA LeftAlike ==
    ASSUME FlowTyped, NEW f \in Flows, NEW x \in Commands, Left(x, f)
    PROVE  FlowTyped' /\ flow'[f] = x /\ OthersAlike(f)
<1>1. flow'[f] = x  BY DEF Left
<1>2. ASSUME NEW g \in Flows \ {f}  PROVE flow'[g] \in FlowState /\ Alike(g)
  <2>1. flow'[g] = IF flow[g].op \in {"create", "folder"}
                   THEN [flow[g] EXCEPT !.opens = FALSE] ELSE flow[g]
    BY <1>2 DEF Left
  <2>2. CASE flow[g].op \in {"create", "folder"}
    <3>1. flow[g] \in Commands  BY <1>2, <2>2, Kinds DEF Op, CommandOps
    <3>2. PICK h : h = flow[g]  OBVIOUS
    <3>3. PICK k : k = [h EXCEPT !.opens = FALSE]  OBVIOUS
    <3>4. /\ k \in Commands
          /\ k.op = h.op /\ k.pc = h.pc /\ k.case = h.case /\ k.req = h.req
          /\ k.was = h.was /\ k.new = h.new /\ k.cases = h.cases /\ k.folder = h.folder
      BY <3>1, <3>2, <3>3 DEF Commands
    <3>5. flow'[g] = k  BY <2>1, <2>2, <3>2, <3>3
    <3>6. QED  BY <2>2, <3>2, <3>4, <3>5 DEF Alike, AlikeFlow, FlowState
  <2>3. CASE flow[g].op \notin {"create", "folder"}
    BY <1>2, <2>1, <2>3, Kinds DEF Alike, AlikeFlow
  <2>4. QED  BY <2>2, <2>3
<1>3. \A g \in Flows : flow'[g] \in FlowState  BY <1>1, <1>2 DEF FlowState
<1>4. FlowTyped'
  <2>1. flow' = [g \in Flows |-> flow'[g]]  BY DEF Left
  <2>2. QED  BY <1>3, <2>1 DEF FlowTyped
<1>5. QED  BY <1>1, <1>2, <1>4 DEF OthersAlike

\* A folder to create in is one, or none.
LEMMA FolderTarget ==
    ASSUME NEW g \in Folders \cup {None, Missing}
    PROVE  Target(g) \in Folders \cup {None}
BY DEF Target

\* A case that is created is a new one.
LEMMA NewCaseTyped ==
    ASSUME NEW f \in Flows, NEW g \in Folders \cup {None}
    PROVE  /\ NewCase(f, g) \in Commands
           /\ NewCase(f, g).op = "create" /\ NewCase(f, g).pc = "post"
           /\ NewOrCopy(f, NewCase(f, g).new)
<1> DEFINE new == [ver |-> f, folder |-> g, comments |-> NoComment, reqs |-> {},
                   local |-> FALSE]
<1>1. NoComment \in Comments  BY DEF NoComment, Comments
<1>2. new \in Copy  BY <1>1 DEF Copy, Version
<1>3. new.ver = f /\ new.comments = NoComment /\ new.reqs = {}  OBVIOUS
<1>4. PICK x : x = Command("create", "post")  OBVIOUS
<1>5. x \in Commands /\ x.op = "create" /\ x.pc = "post"
  BY <1>4, CommandTyped DEF CommandOps
<1>6. NewCase(f, g) = [x EXCEPT !.new = new]  BY <1>4 DEF NewCase
<1> HIDE DEF new
<1>7. /\ [x EXCEPT !.new = new] \in Commands
      /\ [x EXCEPT !.new = new].op = "create" /\ [x EXCEPT !.new = new].pc = "post"
      /\ [x EXCEPT !.new = new].new = new
  BY <1>2, <1>5 DEF Commands
<1>8. QED  BY <1>2, <1>3, <1>6, <1>7 DEF NewOrCopy

\* The handlers that show nothing before the answer: the flow begins, and the
\* screen has what it had.
LEMMA QuietFine ==
    ASSUME Fine, NEW f \in Flows, Quiet(f)
    PROVE  /\ Fine' /\ SameContent(screen', screen) /\ UNCHANGED <<Server, misled>>
           /\ Begun(f) /\ OthersAlike(f)
<1> USE DEF Begun
<1>1. UNCHANGED <<Server, misled>> /\ Ready(f)
  BY DEF Quiet, QuickCreate, CreateCase, Duplicate, AddFolder, SaveEdit, DeleteCase,
         AddComment, CreateRun, Sync
<1>2. /\ FlowTyped /\ Good(screen) /\ screen \in Screen /\ Editing(screen)
      /\ screen.selected \in Folders \cup {None, Missing}
      /\ screen.open \in Cases \cup {None}
  BY DEF Fine, Good, Screen
<1>3. ServerTyped' /\ misled' \in BOOLEAN  BY <1>1, ServerStays DEF Fine
<1>4. ASSUME NEW c \in ListedCases(screen)
      PROVE  /\ c \in Cases /\ c # None /\ screen.cases[c] \in Seq(Copy)
             /\ screen.cases[c] # <<>> /\ Head(screen.cases[c]) \in Copy
  <2>1. c \in Cases /\ screen.cases[c] \in Seq(Copy) /\ screen.cases[c] # <<>>
    BY <1>2, <1>4 DEF Screen, ListedCases
  <2>2. QED  BY <2>1, HeadIn, CaseScreenAssumption
<1>5. SameContent(screen, screen)  BY DEF SameContent
<1>6. CASE QuickCreate(f) \/ CreateCase(f)
  <2>1. PICK g \in Folders \cup {None} : Begin(f, NewCase(f, g))
    BY <1>2, <1>6, FolderTarget DEF QuickCreate, CreateCase, ListedFolders
  <2>2. screen' = screen  BY <1>6 DEF QuickCreate, CreateCase
  <2>3. PICK x : x = NewCase(f, g)  OBVIOUS
  <2>4. x \in Commands /\ x.op = "create" /\ x.pc = "post" /\ NewOrCopy(f, x.new)
    BY <2>3, NewCaseTyped
  <2>5. FlowTyped' /\ flow'[f] = x /\ OthersAlike(f) /\ Pc(f) = "idle" /\ f \notin Others
    BY <1>1, <1>2, <2>1, <2>3, <2>4, Begins
  <2>6. QED  BY <1>1, <1>2, <1>3, <1>5, <2>2, <2>4, <2>5 DEF Fine
<1>7. CASE Duplicate(f)
  <2>1. PICK c \in ListedCases(screen) :
           Begin(f, [Command("create", "post") EXCEPT
                        !.new = [Head(screen.cases[c]) EXCEPT !.reqs = {},
                                                              !.local = FALSE],
                        !.opens = TRUE])
    BY <1>7 DEF Duplicate
  <2>2. screen' = screen  BY <1>7 DEF Duplicate
  <2>3. PICK new : new = [Head(screen.cases[c]) EXCEPT !.reqs = {}, !.local = FALSE]
    OBVIOUS
  <2>4. new \in Copy  BY <1>4, <2>3 DEF Copy
  <2>5. PICK y : y = Command("create", "post")  OBVIOUS
  <2>6. y \in Commands /\ y.op = "create" /\ y.pc = "post"
    BY <2>5, CommandTyped DEF CommandOps
  <2>7. PICK x : x = [y EXCEPT !.new = new, !.opens = TRUE]  OBVIOUS
  <2>8. x \in Commands /\ x.op = "create" /\ x.pc = "post" /\ x.new = new
    BY <2>4, <2>6, <2>7 DEF Commands
  <2>9. Begin(f, x)  BY <2>1, <2>3, <2>5, <2>7
  <2>10. FlowTyped' /\ flow'[f] = x /\ OthersAlike(f) /\ Pc(f) = "idle" /\ f \notin Others
    BY <1>1, <1>2, <2>8, <2>9, Begins
  <2>11. NewOrCopy(f, x.new)  BY <2>3, <2>4, <2>8 DEF NewOrCopy
  <2>12. QED  BY <1>1, <1>2, <1>3, <1>5, <2>2, <2>8, <2>10, <2>11 DEF Fine
<1>8. CASE AddFolder(f)
  <2>1. PICK g \in Folders \cup {None} :
           Begin(f, [Command("folder", "post") EXCEPT !.folder = g, !.opens = TRUE])
    BY <1>2, <1>8, FolderTarget DEF AddFolder
  <2>2. screen' = screen  BY <1>8 DEF AddFolder
  <2>3. PICK y : y = Command("folder", "post")  OBVIOUS
  <2>4. y \in Commands /\ y.op = "folder" /\ y.pc = "post"
    BY <2>3, CommandTyped DEF CommandOps
  <2>5. PICK x : x = [y EXCEPT !.folder = g, !.opens = TRUE]  OBVIOUS
  <2>6. x \in Commands /\ x.op = "folder" /\ x.pc = "post"
    BY <2>4, <2>5 DEF Commands
  <2>7. Begin(f, x)  BY <2>1, <2>3, <2>5
  <2>8. FlowTyped' /\ flow'[f] = x /\ OthersAlike(f) /\ Pc(f) = "idle" /\ f \notin Others
    BY <1>1, <1>2, <2>6, <2>7, Begins
  <2>9. QED  BY <1>1, <1>2, <1>3, <1>5, <2>2, <2>6, <2>8 DEF Fine
<1>9. CASE SaveEdit(f)
  <2>1. PICK g \in Folders \cup {None}, local \in BOOLEAN :
           Begin(f, [Command("save", "post") EXCEPT
                       !.case = screen.open, !.was = screen.cases[screen.open],
                       !.new = Typed(screen.draft, f, g, local)])
    BY <1>9 DEF SaveEdit, ListedFolders
  <2>2. screen' = Reset(screen) /\ screen.draft # None  BY <1>9 DEF SaveEdit
  <2>3. PICK c : c = screen.open  OBVIOUS
  <2>4. c \in ListedCases(screen) /\ screen.draft = Head(screen.cases[c])
    BY <1>2, <2>2, <2>3, ShownTyped DEF Editing, Shown
  <2>5. PICK new : new = Typed(screen.draft, f, g, local)  OBVIOUS
  <2>6. new \in Copy /\ new.folder = g /\ new.local = local
    BY <1>4, <2>4, <2>5 DEF Copy, Typed, Version
  <2>7. PICK y : y = Command("save", "post")  OBVIOUS
  <2>8. y \in Commands /\ y.op = "save" /\ y.pc = "post"
    BY <2>7, CommandTyped DEF CommandOps
  <2>9. PICK x : x = [y EXCEPT !.case = c, !.was = screen.cases[c], !.new = new]
    OBVIOUS
  <2>10. /\ x \in Commands /\ x.op = "save" /\ x.pc = "post"
         /\ x.case = c /\ x.was = screen.cases[c] /\ x.new = new
    BY <1>4, <2>4, <2>6, <2>8, <2>9 DEF Commands
  <2>11. Begin(f, x)  BY <2>1, <2>3, <2>5, <2>7, <2>9
  <2>12. FlowTyped' /\ flow'[f] = x /\ OthersAlike(f) /\ Pc(f) = "idle" /\ f \notin Others
    BY <1>1, <1>2, <2>10, <2>11, Begins
  <2>13. x.new = Typed(Head(x.was), f, x.new.folder, x.new.local)
    BY <2>4, <2>5, <2>6, <2>10
  <2>14. Good(screen') /\ SameContent(screen', screen)  BY <1>2, <2>2, ResetGood
  <2>15. QED  BY <1>1, <1>2, <1>3, <2>4, <2>6, <2>10, <2>12, <2>13, <2>14 DEF Fine
<1>10. CASE DeleteCase(f)
  <2>1. PICK c \in ListedCases(screen) :
           /\ Begin(f, [Command("delete", "post") EXCEPT !.case = c])
           /\ screen' = IF screen.open = c THEN Opened(screen, None) ELSE screen
    BY <1>10 DEF DeleteCase
  <2>2. PICK y : y = Command("delete", "post")  OBVIOUS
  <2>3. y \in Commands /\ y.op = "delete" /\ y.pc = "post"
    BY <2>2, CommandTyped DEF CommandOps
  <2>4. PICK x : x = [y EXCEPT !.case = c]  OBVIOUS
  <2>5. x \in Commands /\ x.op = "delete" /\ x.pc = "post" /\ x.case = c
    BY <1>4, <2>3, <2>4 DEF Commands
  <2>6. Begin(f, x)  BY <2>1, <2>2, <2>4
  <2>7. FlowTyped' /\ flow'[f] = x /\ OthersAlike(f) /\ Pc(f) = "idle" /\ f \notin Others
    BY <1>1, <1>2, <2>5, <2>6, Begins
  <2>8. Good(screen') /\ SameContent(screen', screen)
    BY <1>2, <1>5, <2>1, OpenedGood
  <2>9. QED  BY <1>1, <1>2, <1>3, <2>1, <2>5, <2>7, <2>8 DEF Fine
<1>11. CASE AddComment(f)
  <2>1. PICK c \in ListedCases(screen), g \in Folders :
           /\ Left([Command("comment", "post") EXCEPT !.case = c], f)
           /\ screen' = Selected(screen, g)
    BY <1>11 DEF AddComment, ListedFolders
  <2>2. PICK y : y = Command("comment", "post")  OBVIOUS
  <2>3. y \in Commands /\ y.op = "comment" /\ y.pc = "post"
    BY <2>2, CommandTyped DEF CommandOps
  <2>4. PICK x : x = [y EXCEPT !.case = c]  OBVIOUS
  <2>5. x \in Commands /\ x.op = "comment" /\ x.pc = "post" /\ x.case = c
    BY <1>4, <2>3, <2>4 DEF Commands
  <2>6. Left(x, f)  BY <2>1, <2>2, <2>4
  <2>7. FlowTyped' /\ flow'[f] = x /\ OthersAlike(f)
    BY <1>2, <2>5, <2>6, LeftAlike
  <2>8. Good(screen') /\ SameContent(screen', screen)
    BY <1>2, <2>1, SelectedGood
  <2>9. Pc(f) = "idle" /\ f \notin Others  BY <1>1 DEF Ready, Pc, Idle
  <2>10. QED  BY <1>1, <1>2, <1>3, <2>1, <2>5, <2>7, <2>8, <2>9 DEF Fine
<1>12. CASE CreateRun(f)
  <2>1. PICK cases \in SUBSET Cases :
           Begin(f, [Command("run", "post") EXCEPT !.cases = cases])
    <3>1. \A scope \in {FolderCases(screen), {}} : Chosen(scope) \subseteq Cases
      BY DEF Chosen, FolderCases, ListedCases
    <3>2. QED  BY <1>12, <3>1 DEF CreateRun
  <2>2. screen' = screen  BY <1>12 DEF CreateRun
  <2>3. PICK y : y = Command("run", "post")  OBVIOUS
  <2>4. y \in Commands /\ y.op = "run" /\ y.pc = "post"
    BY <2>3, CommandTyped DEF CommandOps
  <2>5. PICK x : x = [y EXCEPT !.cases = cases]  OBVIOUS
  <2>6. x \in Commands /\ x.op = "run" /\ x.pc = "post"
    BY <2>4, <2>5 DEF Commands
  <2>7. Begin(f, x)  BY <2>1, <2>3, <2>5
  <2>8. FlowTyped' /\ flow'[f] = x /\ OthersAlike(f) /\ Pc(f) = "idle" /\ f \notin Others
    BY <1>1, <1>2, <2>6, <2>7, Begins
  <2>9. QED  BY <1>1, <1>2, <1>3, <1>5, <2>2, <2>6, <2>8 DEF Fine
<1>13. CASE Sync(f)
  <2>1. PICK x : x = [op |-> "sync", pc |-> "read", cases |-> None, folders |-> None,
                      reqs |-> None, runs |-> None]
    OBVIOUS
  <2>2. /\ x \in Syncs /\ x.op = "sync" /\ x.pc = "read" /\ x.cases = None
        /\ x.folders = None /\ x.reqs = None /\ x.runs = None
    BY <2>1 DEF Syncs
  <2>3. Begin(f, x) /\ screen' = screen  BY <1>13, <2>1 DEF Sync
  <2>4. FlowTyped' /\ flow'[f] = x /\ OthersAlike(f) /\ Pc(f) = "idle" /\ f \notin Others
    BY <1>1, <1>2, <2>2, <2>3, Begins
  <2>5. QED  BY <1>1, <1>2, <1>3, <1>5, <2>2, <2>3, <2>4 DEF Fine
<1>14. QED
  BY <1>6, <1>7, <1>8, <1>9, <1>10, <1>11, <1>12, <1>13 DEF Quiet

\* The copies of case c are changed, the first of them to new.
InPlace(c, new) ==
    /\ c \in Cases /\ Len(screen'.cases[c]) = Len(screen.cases[c])
    /\ screen'.cases[c] = <<>> <=> screen.cases[c] = <<>>
    /\ screen.cases[c] # <<>> => Head(screen'.cases[c]) = new
    /\ \A d \in Cases \ {c} : screen'.cases[d] = screen.cases[d]
    /\ screen'.folders = screen.folders /\ screen'.runs = screen.runs

\* A link adds one requirement to a copy and changes nothing else.
LEMMA LinkedTyped ==
    ASSUME NEW cp \in Copy, NEW q \in Id
    PROVE  /\ LinkedTo(cp, q) \in Copy /\ LinkedTo(cp, q).reqs = cp.reqs \cup {q}
           /\ LinkedTo(cp, q).ver = cp.ver /\ LinkedTo(cp, q).folder = cp.folder
           /\ LinkedTo(cp, q).comments = cp.comments
BY DEF LinkedTo, Copy

\* The copies of a case, each with one more link.
LEMMA AllLinked ==
    ASSUME NEW s \in Seq(Copy), NEW q \in Id, NEW t \in [DOMAIN s -> Copy],
           \A i \in DOMAIN s : t[i] = LinkedTo(s[i], q)
    PROVE  /\ t \in Seq(Copy) /\ Len(t) = Len(s) /\ (t = <<>> <=> s = <<>>)
           /\ s # <<>> => Head(t) = LinkedTo(Head(s), q)
<1>1. \A i \in DOMAIN s : s[i] \in Copy  OBVIOUS
<1>3. /\ t \in Seq(Copy) /\ Len(t) = Len(s) /\ (t = <<>> <=> s = <<>>)
      /\ s # <<>> => Head(t) = t[1]
  BY SamePlaces
<1>4. s # <<>> => Head(s) = s[1] /\ 1 \in DOMAIN s  BY HeadIn
<1>5. QED  BY <1>3, <1>4

\* A link is added to what the screen has of one case.
LEMMA WithLinkGood ==
    ASSUME NEW s, Good(s), NEW c \in Cases, NEW q \in Id, NEW t, t = WithLink(s, c, q)
    PROVE  /\ Good(t)
           /\ Len(t.cases[c]) = Len(s.cases[c]) /\ (t.cases[c] = <<>> <=> s.cases[c] = <<>>)
           /\ s.cases[c] # <<>> => Head(t.cases[c]) = LinkedTo(Head(s.cases[c]), q)
           /\ \A d \in Cases \ {c} : t.cases[d] = s.cases[d]
           /\ t.folders = s.folders /\ t.runs = s.runs /\ t.reqs = s.reqs
<1> DEFINE e == [i \in DOMAIN s.cases[c] |-> LinkedTo(s.cases[c][i], q)]
           k == [s.cases EXCEPT ![c] = e]
           u == [s EXCEPT !.cases = k]
<1>1. s \in Screen /\ s.cases \in [Cases -> Seq(Copy)]  BY DEF Good, Screen
<1>2. t = Touched(u, {c})  BY DEF WithLink
<1>3. /\ e \in Seq(Copy) /\ Len(e) = Len(s.cases[c]) /\ (e = <<>> <=> s.cases[c] = <<>>)
      /\ s.cases[c] # <<>> => Head(e) = LinkedTo(Head(s.cases[c]), q)
  <2>1. PICK r : r = s.cases[c]  OBVIOUS
  <2>2. r \in Seq(Copy)  BY <1>1, <2>1
  <2>3. e \in [DOMAIN r -> Copy] /\ \A i \in DOMAIN r : e[i] = LinkedTo(r[i], q)
    BY <2>1, <2>2, LinkedTyped
  <2> HIDE DEF e
  <2>4. QED  BY <2>1, <2>2, <2>3, AllLinked
<1> HIDE DEF e
<1>4. k \in [Cases -> Seq(Copy)] /\ k[c] = e /\ \A d \in Cases : d \notin {c} => k[d] = s.cases[d]
  BY <1>1, <1>3
<1> HIDE DEF k
<1>5. /\ u \in Screen /\ u.open = s.open /\ u.draft = s.draft /\ u.cases = k
      /\ u.folders = s.folders /\ u.runs = s.runs /\ u.reqs = s.reqs
  BY <1>1, <1>4 DEF Screen
<1> HIDE DEF u
<1>6. Good(Touched(u, {c})) /\ SameContent(Touched(u, {c}), u)
  BY <1>4, <1>5, TouchedGood
<1>7. QED  BY <1>2, <1>3, <1>4, <1>5, <1>6 DEF SameContent

\* A requirement made on the open case, shown at once with its link.
LEMMA CreateRequirementFine ==
    ASSUME Fine, NEW f \in Flows, CreateRequirement(f)
    PROVE  /\ Fine' /\ UNCHANGED <<Server, misled>> /\ OthersAlike(f)
           /\ Pc(f) = "idle" /\ f \notin Others
           /\ flow'[f].op = "require" /\ flow'[f].pc = "post" /\ flow'[f].req = f
           /\ flow'[f].case \in ListedCases(screen)
           /\ screen'.reqs = screen.reqs \cup {Temp(f)}
           /\ InPlace(flow'[f].case, LinkedTo(Head(screen.cases[flow'[f].case]), Temp(f)))
<1>1. UNCHANGED <<Server, misled>> /\ Ready(f) /\ Detail(screen)
  BY DEF CreateRequirement
<1>2. FlowTyped /\ Good(screen) /\ screen \in Screen  BY DEF Fine, Good
<1>3. ServerTyped' /\ misled' \in BOOLEAN  BY <1>1, ServerStays DEF Fine
<1>4. PICK c : c = screen.open  OBVIOUS
<1>5. c \in ListedCases(screen) /\ c \in Cases
  BY <1>1, <1>2, <1>4, ShownTyped DEF ListedCases
<1>6. PICK y : y = Command("require", "post")  OBVIOUS
<1>7. y \in Commands /\ y.op = "require" /\ y.pc = "post"
  BY <1>6, CommandTyped DEF CommandOps
<1>8. PICK x : x = [y EXCEPT !.case = c, !.req = f]  OBVIOUS
<1>9. /\ x \in Commands /\ x.op = "require" /\ x.pc = "post" /\ x.case = c /\ x.req = f
  BY <1>5, <1>7, <1>8 DEF Commands, Reqs
<1>10. Begin(f, x)  BY <1>4, <1>6, <1>8 DEF CreateRequirement
<1>11. FlowTyped' /\ flow'[f] = x /\ OthersAlike(f) /\ Pc(f) = "idle" /\ f \notin Others
  BY <1>1, <1>2, <1>9, <1>10, Begins
<1>12. PICK s : s = WithRequirement(screen, f)  OBVIOUS
<1>13. Temp(f) \in Id  BY DEF Temp, Id, Reqs
<1>14. /\ s \in Screen /\ s.cases = screen.cases /\ s.folders = screen.folders
       /\ s.runs = screen.runs /\ s.open = screen.open /\ s.draft = screen.draft
       /\ s.reqs = screen.reqs \cup {Temp(f)}
  BY <1>2, <1>12, <1>13 DEF WithRequirement, Screen
<1>15. Good(s)  BY <1>2, <1>14 DEF Good, Editing, Detail, Shown
<1>16. screen' = WithLink(s, c, Temp(f))  BY <1>4, <1>12 DEF CreateRequirement
<1>17. /\ Good(screen')
       /\ Len(screen'.cases[c]) = Len(s.cases[c])
       /\ screen'.cases[c] = <<>> <=> s.cases[c] = <<>>
       /\ s.cases[c] # <<>> => Head(screen'.cases[c]) = LinkedTo(Head(s.cases[c]), Temp(f))
       /\ \A d \in Cases \ {c} : screen'.cases[d] = s.cases[d]
       /\ screen'.folders = s.folders /\ screen'.runs = s.runs /\ screen'.reqs = s.reqs
  BY <1>5, <1>13, <1>15, <1>16, WithLinkGood
<1>18. InPlace(c, LinkedTo(Head(screen.cases[c]), Temp(f)))  BY <1>5, <1>14, <1>17 DEF InPlace
<1>19. QED
  BY <1>1, <1>3, <1>5, <1>9, <1>11, <1>14, <1>17, <1>18 DEF Fine

\* A requirement of the list linked to the open case, shown at once.
LEMMA LinkRequirementFine ==
    ASSUME Fine, NEW f \in Flows, LinkRequirement(f)
    PROVE  /\ Fine' /\ UNCHANGED <<Server, misled>> /\ OthersAlike(f)
           /\ Pc(f) = "idle" /\ f \notin Others
           /\ flow'[f].op = "link" /\ flow'[f].req \in Reqs
           /\ flow'[f].case \in ListedCases(screen)
           /\ screen'.reqs = screen.reqs
           /\ \E q \in screen.reqs :
                 /\ q \in Id /\ q[1] = flow'[f].req
                 /\ q \notin Head(screen.cases[flow'[f].case]).reqs
                 /\ flow'[f].pc = IF q[2] = "real" THEN "link" ELSE "wait"
                 /\ q = IF q[2] = "real" THEN Real(q[1]) ELSE Temp(q[1])
                 /\ InPlace(flow'[f].case, LinkedTo(Head(screen.cases[flow'[f].case]), q))
<1>1. UNCHANGED <<Server, misled>> /\ Ready(f) /\ Detail(screen)
  BY DEF LinkRequirement
<1>2. FlowTyped /\ Good(screen) /\ screen \in Screen /\ screen.reqs \subseteq Id
  BY DEF Fine, Good, Screen
<1>3. ServerTyped' /\ misled' \in BOOLEAN  BY <1>1, ServerStays DEF Fine
<1>4. PICK c : c = screen.open  OBVIOUS
<1>5. c \in ListedCases(screen) /\ c \in Cases
  BY <1>1, <1>2, <1>4, ShownTyped DEF ListedCases
<1>6. PICK q \in screen.reqs :
         /\ q \notin Head(screen.cases[c]).reqs
         /\ screen' = WithLink(screen, c, q) /\ Begin(f, LinkCall(c, q))
  BY <1>4 DEF LinkRequirement, Linkable, Shown
<1>7. q \in Id /\ q[1] \in Reqs /\ q[2] \in {"real", "temp"}
      /\ q = IF q[2] = "real" THEN Real(q[1]) ELSE Temp(q[1])
  BY <1>2 DEF Id, Real, Temp
<1>8. PICK pc : pc = IF q[2] = "real" THEN "link" ELSE "wait"  OBVIOUS
<1>9. pc \in {"link", "wait"}  BY <1>8
<1>10. PICK y : y = Command("link", pc)  OBVIOUS
<1>11. y \in Commands /\ y.op = "link" /\ y.pc = pc
  BY <1>9, <1>10, CommandTyped DEF CommandOps
<1>12. PICK x : x = [y EXCEPT !.case = c, !.req = q[1]]  OBVIOUS
<1>13. /\ x \in Commands /\ x.op = "link" /\ x.pc = pc /\ x.case = c /\ x.req = q[1]
  BY <1>5, <1>7, <1>11, <1>12 DEF Commands
<1>14. Begin(f, x)  BY <1>6, <1>8, <1>10, <1>12 DEF LinkCall
<1>15. FlowTyped' /\ flow'[f] = x /\ OthersAlike(f) /\ Pc(f) = "idle" /\ f \notin Others
  BY <1>1, <1>2, <1>13, <1>14, Begins
<1>16. /\ Good(screen')
       /\ Len(screen'.cases[c]) = Len(screen.cases[c])
       /\ screen'.cases[c] = <<>> <=> screen.cases[c] = <<>>
       /\ screen.cases[c] # <<>> => Head(screen'.cases[c]) = LinkedTo(Head(screen.cases[c]), q)
       /\ \A d \in Cases \ {c} : screen'.cases[d] = screen.cases[d]
       /\ screen'.folders = screen.folders /\ screen'.runs = screen.runs
       /\ screen'.reqs = screen.reqs
  BY <1>2, <1>5, <1>6, <1>7, WithLinkGood
<1>17. InPlace(c, LinkedTo(Head(screen.cases[c]), q))  BY <1>5, <1>16 DEF InPlace
<1>18. QED
  BY <1>1, <1>3, <1>5, <1>6, <1>7, <1>8, <1>13, <1>15, <1>16, <1>17 DEF Fine

-----------------------------------------------------------------------------
(* What the server does *)

\* Every flow has what its place needs.
AllPlaced == \A f \in Flows : Placed(f)

\* Of the cases, only the row of c is written.
OnlyRow(c) ==
    /\ c \in Cases /\ case'[c] \in CaseRow /\ case'[c] # None
    /\ \A d \in Cases \ {c} : case'[d] = case[d]

\* A statement about one row of cases.
LEMMA RowWritten ==
    ASSUME Fine, NEW c \in Cases, NEW row \in CaseRow,
           case' = [case EXCEPT ![c] = row], UNCHANGED <<folder, reqs, links, run>>
    PROVE  ServerTyped' /\ OnlyRow(c) /\ case'[c] = row
<1>1. case \in [Cases -> {None} \cup CaseRow]  BY DEF Fine, ServerTyped
<1>2. case' \in [Cases -> {None} \cup CaseRow] /\ OnlyRow(c) /\ case'[c] = row
  BY <1>1, NoneAssumption DEF OnlyRow
<1>3. QED  BY <1>2 DEF Fine, ServerTyped

\* A command that the server has carried out.
LEMMA Posts ==
    ASSUME Fine, NEW f \in Flows, NEW op \in CommandOps, Posted(f, op),
           Goto(f, "answered")
    PROVE  /\ FlowTyped' /\ OthersAlike(f) /\ Onward(f, "answered") /\ At(f, op, "post")
           /\ flow[f] \in Commands
<1>1. FlowTyped /\ Op(f) = op /\ Pc(f) = "post"  BY DEF Fine, Posted, Op, Pc
<1>2. QED  BY <1>1, Goes, Kinds DEF At, Op, Pc

\* POST /cases: a row, with the fields that were sent.
LEMMA InsertCaseFine ==
    ASSUME Fine, AllPlaced, NEW f \in Flows, InsertCase(f)
    PROVE  /\ Fine' /\ UNCHANGED <<folder, reqs, links, run, screen, misled>>
           /\ OthersAlike(f) /\ Onward(f, "answered") /\ At(f, "create", "post")
           /\ OnlyRow(f) /\ flow[f].new \in Copy
           /\ case'[f].ver = flow[f].new.ver /\ case'[f].folder = flow[f].new.folder
           /\ ~case'[f].archived /\ case'[f].comments = NoComment
<1>1. UNCHANGED <<folder, reqs, links, run, screen, misled>>  BY DEF InsertCase
<1>2. /\ FlowTyped' /\ OthersAlike(f) /\ Onward(f, "answered") /\ At(f, "create", "post")
      /\ flow[f] \in Commands
  BY Posts DEF InsertCase, CommandOps
<1>3. flow[f].new \in Copy
  BY <1>2 DEF AllPlaced, Placed, At, Op, Commands
<1>4. PICK new : new = flow[f].new  OBVIOUS
<1>5. PICK row : row = [ver |-> new.ver, folder |-> new.folder,
                        archived |-> FALSE, comments |-> NoComment]
  OBVIOUS
<1>6. NoComment \in Comments  BY DEF NoComment, Comments
<1>7. row \in CaseRow  BY <1>3, <1>4, <1>5, <1>6 DEF CaseRow, Copy
<1>8. case' = [case EXCEPT ![f] = row]  BY <1>4, <1>5 DEF InsertCase, Inserted
<1>9. ServerTyped' /\ OnlyRow(f) /\ case'[f] = row
  BY <1>1, <1>7, <1>8, RowWritten DEF Cases
<1>10. QED  BY <1>1, <1>2, <1>3, <1>4, <1>5, <1>9 DEF Fine

\* POST /folders: a row.
LEMMA InsertFolderFine ==
    ASSUME Fine, NEW f \in Flows, InsertFolder(f)
    PROVE  /\ Fine' /\ UNCHANGED <<case, reqs, links, run, screen, misled>>
           /\ OthersAlike(f) /\ Onward(f, "answered") /\ At(f, "folder", "post")
           /\ folder'[f] # Missing /\ \A g \in Folders \ {f} : folder'[g] = folder[g]
<1>1. UNCHANGED <<case, reqs, links, run, screen, misled>>  BY DEF InsertFolder
<1>2. /\ FlowTyped' /\ OthersAlike(f) /\ Onward(f, "answered") /\ At(f, "folder", "post")
      /\ flow[f] \in Commands
  BY Posts DEF InsertFolder, CommandOps
<1>3. flow[f].folder \in Folders \cup {None}  BY <1>2 DEF Commands
<1>4. flow[f].folder # Missing  BY <1>3, CaseScreenAssumption
<1>5. folder' = [folder EXCEPT ![f] = flow[f].folder]  BY DEF InsertFolder
<1>6. f \in Folders  BY DEF Folders
<1>7. /\ folder' \in [Folders -> Folders \cup {None, Missing}]
      /\ folder'[f] # Missing /\ \A g \in Folders \ {f} : folder'[g] = folder[g]
  BY <1>3, <1>4, <1>5, <1>6 DEF Fine, ServerTyped
<1>8. QED  BY <1>1, <1>2, <1>7 DEF Fine, ServerTyped

\* A save has what the panel showed and what was typed.
LEMMA SaveTyped ==
    ASSUME AllPlaced, FlowTyped, NEW f \in Flows, Op(f) = "save"
    PROVE  /\ flow[f] \in Commands /\ flow[f].new \in Copy
           /\ flow[f].was \in Seq(Copy) /\ flow[f].was # <<>> /\ Head(flow[f].was) \in Copy
           /\ flow[f].case \in Cases
           /\ flow[f].new.ver = f /\ flow[f].new.comments = Head(flow[f].was).comments
           /\ flow[f].new.reqs = Head(flow[f].was).reqs
<1>1. flow[f] \in Commands  BY Kinds DEF CommandOps
<1>2. PICK h : h = flow[f]  OBVIOUS
<1>3. /\ h.new \in {None} \cup Copy /\ h.was \in Seq(Copy) /\ h.case \in Cases \cup {None}
  BY <1>1, <1>2 DEF Commands
<1>4. /\ h.new # None /\ h.was # <<>> /\ h.case # None
      /\ h.new = Typed(Head(h.was), f, h.new.folder, h.new.local)
  BY <1>2 DEF AllPlaced, Placed, AboutCase, Op
<1>5. Head(h.was) \in Copy  BY <1>3, <1>4, HeadIn
<1>6. /\ h.new.ver = f /\ h.new.comments = Head(h.was).comments
      /\ h.new.reqs = Head(h.was).reqs
  BY <1>4, <1>5 DEF Typed, Copy
<1>7. QED  BY <1>1, <1>2, <1>3, <1>4, <1>5, <1>6

\* A flow about a case has one, with a row.
LEMMA AboutRow ==
    ASSUME AllPlaced, Fine, NEW f \in Flows, Op(f) \in AboutCase
    PROVE  flow[f] \in Commands /\ flow[f].case \in Cases /\ case[flow[f].case] \in CaseRow
<1>1. flow[f] \in Commands  BY Kinds DEF Fine, CommandOps, AboutCase
<1>2. flow[f].case \in Cases \cup {None}  BY <1>1 DEF Commands
<1>3. flow[f].case # None /\ case[flow[f].case] # None  BY DEF AllPlaced, Placed
<1>4. QED  BY <1>1, <1>2, <1>3 DEF Fine, ServerTyped

\* PATCH /cases/:id writes the fields and leaves the comments.
LEMMA PatchCaseFine ==
    ASSUME Fine, AllPlaced, NEW f \in Flows, PatchCase(f)
    PROVE  /\ Fine' /\ UNCHANGED <<folder, reqs, links, run, screen, misled>>
           /\ OthersAlike(f) /\ Onward(f, "answered") /\ At(f, "save", "post")
           /\ OnlyRow(flow[f].case) /\ flow[f].new.ver = f
           /\ \E c : /\ c = flow[f].case /\ case[c] # None
                     /\ case'[c].ver = flow[f].new.ver /\ case'[c].folder = flow[f].new.folder
                     /\ case'[c].archived = case[c].archived
                     /\ case'[c].comments = case[c].comments
<1>1. UNCHANGED <<folder, reqs, links, run, screen, misled>>  BY DEF PatchCase
<1>2. /\ FlowTyped' /\ OthersAlike(f) /\ Onward(f, "answered") /\ At(f, "save", "post")
      /\ flow[f] \in Commands
  BY Posts DEF PatchCase, CommandOps
<1>3. Op(f) = "save"  BY <1>2 DEF At, Op
<1>4. PICK c : c = flow[f].case  OBVIOUS
<1>5. c \in Cases /\ case[c] \in CaseRow  BY <1>3, <1>4, AboutRow DEF AboutCase
<1>6. PICK new : new = flow[f].new  OBVIOUS
<1>7. new \in Copy /\ new.ver = f  BY <1>3, <1>6, SaveTyped DEF Fine
<1>8. PICK old : old = case[c]  OBVIOUS
<1>9. PICK row : row = [old EXCEPT !.ver = new.ver, !.folder = new.folder]  OBVIOUS
<1>10. /\ row \in CaseRow /\ row.ver = new.ver /\ row.folder = new.folder
       /\ row.archived = old.archived /\ row.comments = old.comments
  BY <1>5, <1>7, <1>8, <1>9 DEF CaseRow, Copy
<1>11. case' = [case EXCEPT ![c] = row]
  <2>1. case' = [case EXCEPT ![c].ver = new.ver, ![c].folder = new.folder]
    BY <1>4, <1>6 DEF PatchCase
  <2>2. case \in [Cases -> {None} \cup CaseRow]  BY DEF Fine, ServerTyped
  <2>3. QED  BY <1>5, <1>8, <1>9, <2>1, <2>2
<1>12. ServerTyped' /\ OnlyRow(c) /\ case'[c] = row
  BY <1>1, <1>5, <1>10, <1>11, RowWritten
<1>13. case[c] # None  BY <1>5, NoneAssumption
<1>14. QED
  BY <1>1, <1>2, <1>4, <1>6, <1>7, <1>8, <1>10, <1>12, <1>13 DEF Fine

\* DELETE /cases/:id marks the row and leaves the rest.
LEMMA ArchiveCaseFine ==
    ASSUME Fine, AllPlaced, NEW f \in Flows, ArchiveCase(f)
    PROVE  /\ Fine' /\ UNCHANGED <<folder, reqs, links, run, screen, misled>>
           /\ OthersAlike(f) /\ Onward(f, "answered") /\ At(f, "delete", "post")
           /\ OnlyRow(flow[f].case)
           /\ \E c : /\ c = flow[f].case /\ case[c] # None
                     /\ case'[c].ver = case[c].ver /\ case'[c].folder = case[c].folder
                     /\ case'[c].archived
                     /\ case'[c].comments = case[c].comments
<1>1. UNCHANGED <<folder, reqs, links, run, screen, misled>>  BY DEF ArchiveCase
<1>2. /\ FlowTyped' /\ OthersAlike(f) /\ Onward(f, "answered") /\ At(f, "delete", "post")
      /\ flow[f] \in Commands
  BY Posts DEF ArchiveCase, CommandOps
<1>3. Op(f) \in AboutCase  BY <1>2 DEF At, Op, AboutCase
<1>4. PICK c : c = flow[f].case  OBVIOUS
<1>5. c \in Cases /\ case[c] \in CaseRow  BY <1>3, <1>4, AboutRow
<1>6. PICK old : old = case[c]  OBVIOUS
<1>7. PICK row : row = [old EXCEPT !.archived = TRUE]  OBVIOUS
<1>8. /\ row \in CaseRow /\ row.ver = old.ver /\ row.folder = old.folder
      /\ row.archived /\ row.comments = old.comments
  BY <1>5, <1>6, <1>7 DEF CaseRow
<1>9. case' = [case EXCEPT ![c] = row]
  <2>1. case' = [case EXCEPT ![c].archived = TRUE]  BY <1>4 DEF ArchiveCase
  <2>2. QED  BY <1>6, <1>7, <2>1
<1>10. ServerTyped' /\ OnlyRow(c) /\ case'[c] = row
  BY <1>1, <1>5, <1>8, <1>9, RowWritten
<1>11. case[c] # None  BY <1>5, NoneAssumption
<1>12. QED  BY <1>1, <1>2, <1>4, <1>6, <1>8, <1>10, <1>11 DEF Fine

\* POST /cases/:id/comments: the one comment of the flow.
LEMMA InsertCommentFine ==
    ASSUME Fine, AllPlaced, NEW f \in Flows, InsertComment(f)
    PROVE  /\ Fine' /\ UNCHANGED <<folder, reqs, links, run, screen, misled>>
           /\ OthersAlike(f) /\ Onward(f, "answered") /\ At(f, "comment", "post")
           /\ OnlyRow(flow[f].case)
           /\ \E c : /\ c = flow[f].case /\ case[c] # None
                     /\ case'[c].ver = case[c].ver /\ case'[c].folder = case[c].folder
                     /\ case'[c].archived = case[c].archived
                     /\ case'[c].comments[f] = 1
                     /\ \A g \in Flows \ {f} : case'[c].comments[g] = case[c].comments[g]
<1>1. UNCHANGED <<folder, reqs, links, run, screen, misled>>  BY DEF InsertComment
<1>2. /\ FlowTyped' /\ OthersAlike(f) /\ Onward(f, "answered") /\ At(f, "comment", "post")
      /\ flow[f] \in Commands
  BY Posts DEF InsertComment, CommandOps
<1>3. Op(f) \in AboutCase  BY <1>2 DEF At, Op, AboutCase
<1>4. PICK c : c = flow[f].case  OBVIOUS
<1>5. c \in Cases /\ case[c] \in CaseRow  BY <1>3, <1>4, AboutRow
<1>6. PICK old : old = case[c]  OBVIOUS
<1>7. PICK said : said = [old.comments EXCEPT ![f] = 1]  OBVIOUS
<1>8. /\ said \in Comments /\ said[f] = 1
      /\ \A g \in Flows \ {f} : said[g] = old.comments[g]
  BY <1>5, <1>6, <1>7 DEF CaseRow, Comments
<1>9. PICK row : row = [old EXCEPT !.comments = said]  OBVIOUS
<1>10. /\ row \in CaseRow /\ row.ver = old.ver /\ row.folder = old.folder
       /\ row.archived = old.archived /\ row.comments = said
  BY <1>5, <1>6, <1>8, <1>9 DEF CaseRow
<1>11. case' = [case EXCEPT ![c] = row]
  <2>1. case' = [case EXCEPT ![c].comments[f] = 1]  BY <1>4 DEF InsertComment
  <2>2. QED  BY <1>6, <1>7, <1>9, <2>1
<1>12. ServerTyped' /\ OnlyRow(c) /\ case'[c] = row
  BY <1>1, <1>5, <1>10, <1>11, RowWritten
<1>13. case[c] # None  BY <1>5, NoneAssumption
<1>14. QED  BY <1>1, <1>2, <1>4, <1>6, <1>8, <1>10, <1>12, <1>13 DEF Fine

\* POST /requirements: a row.
LEMMA InsertRequirementFine ==
    ASSUME Fine, NEW f \in Flows, InsertRequirement(f)
    PROVE  /\ Fine' /\ UNCHANGED <<case, folder, links, run, screen, misled>>
           /\ OthersAlike(f) /\ Onward(f, "answered") /\ At(f, "require", "post")
           /\ reqs' = reqs \cup {f}
<1>1. UNCHANGED <<case, folder, links, run, screen, misled>> /\ reqs' = reqs \cup {f}
  BY DEF InsertRequirement
<1>2. /\ FlowTyped' /\ OthersAlike(f) /\ Onward(f, "answered") /\ At(f, "require", "post")
  BY Posts DEF InsertRequirement, CommandOps
<1>3. QED  BY <1>1, <1>2 DEF Fine, ServerTyped, Reqs

\* POST of a link: a pair.
LEMMA InsertLinkFine ==
    ASSUME Fine, AllPlaced, NEW f \in Flows, InsertLink(f)
    PROVE  /\ Fine' /\ UNCHANGED <<case, folder, reqs, run, screen, misled>>
           /\ OthersAlike(f) /\ Onward(f, "linked")
           /\ Op(f) \in {"require", "link"} /\ Pc(f) = "link"
           /\ links' = links \cup {<<flow[f].case, flow[f].req>>}
<1>1. /\ UNCHANGED <<case, folder, reqs, run, screen, misled>>
      /\ links' = links \cup {<<flow[f].case, flow[f].req>>}
      /\ Pc(f) = "link" /\ Goto(f, "linked")
  BY DEF InsertLink, Pc
<1>2. FlowTyped  BY DEF Fine
<1>3. Op(f) \in CommandOps  BY <1>1, <1>2, Kinds
<1>4. Op(f) \in {"require", "link"}
  BY <1>1, <1>3 DEF CommandOps, AllPlaced, Placed
<1>5. FlowTyped' /\ OthersAlike(f) /\ Onward(f, "linked")  BY <1>1, <1>2, <1>3, Goes
<1>6. flow[f].case \in Cases  BY <1>4, AboutRow DEF AboutCase
<1>7. flow[f].req \in Reqs
  BY <1>1 DEF AllPlaced, Placed, Fine, ServerTyped
<1>8. QED  BY <1>1, <1>4, <1>5, <1>6, <1>7 DEF Fine, ServerTyped

\* POST /runs: a run of the cases that were sent.
LEMMA InsertRunFine ==
    ASSUME Fine, NEW f \in Flows, InsertRun(f)
    PROVE  /\ Fine' /\ UNCHANGED <<case, folder, reqs, links, screen, misled>>
           /\ OthersAlike(f) /\ Onward(f, "answered") /\ At(f, "run", "post")
           /\ run'[f] = flow[f].cases /\ run'[f] # None
           /\ \A r \in Flows \ {f} : run'[r] = run[r]
<1>1. /\ UNCHANGED <<case, folder, reqs, links, screen, misled>>
      /\ run' = [run EXCEPT ![f] = flow[f].cases]
  BY DEF InsertRun
<1>2. /\ FlowTyped' /\ OthersAlike(f) /\ Onward(f, "answered") /\ At(f, "run", "post")
      /\ flow[f] \in Commands
  BY Posts DEF InsertRun, CommandOps
<1>3. flow[f].cases \in SUBSET Cases  BY <1>2 DEF Commands
<1>4. flow[f].cases # None  BY <1>3, NoneAssumption
<1>5. QED  BY <1>1, <1>2, <1>3, <1>4 DEF Fine, ServerTyped

-----------------------------------------------------------------------------
(* What the screen does with an answer *)

\* A flow that ends leaves the server as it is.
LEMMA Dones ==
    ASSUME Fine, NEW f \in Flows, Done(f)
    PROVE  /\ ServerTyped' /\ FlowTyped' /\ UNCHANGED Server
           /\ flow'[f] = Past /\ flow'[f].op = "none" /\ flow'[f].pc = "done"
           /\ \A g \in Flows \ {f} : flow'[g] = flow[g]
           /\ OthersAlike(f)
BY Ends, ServerStays DEF Fine, Done

\* The copies of case c, and what else the screen holds.
CopiesOf(c, e) ==
    /\ c \in Cases /\ screen'.cases[c] = e
    /\ \A d \in Cases \ {c} : screen'.cases[d] = screen.cases[d]
    /\ screen'.folders = screen.folders /\ screen'.reqs = screen.reqs
    /\ screen'.runs = screen.runs

\* Other copies of case c.
SetCopies(s, c, e) == [s EXCEPT !.cases[c] = e]

\* Other copies of one case.
LEMMA CopiesTyped ==
    ASSUME NEW s \in Screen, NEW c \in Cases, NEW e \in Seq(Copy), NEW t,
           t = SetCopies(s, c, e)
    PROVE  /\ t \in Screen /\ t.cases[c] = e
           /\ t.folders = s.folders /\ t.reqs = s.reqs /\ t.runs = s.runs
           /\ t.open = s.open /\ t.draft = s.draft
           /\ \A d \in Cases : d # c => t.cases[d] = s.cases[d]
<1>1. PICK k : k = [s.cases EXCEPT ![c] = e]  OBVIOUS
<1>2. k \in [Cases -> Seq(Copy)] /\ k[c] = e /\ \A d \in Cases : d # c => k[d] = s.cases[d]
  BY <1>1 DEF Screen
<1>3. t = [s EXCEPT !.cases = k]  BY <1>1 DEF SetCopies
<1>4. QED  BY <1>1, <1>2, <1>3 DEF Screen

\* The answer to a new case puts it on the screen, after what is there.
LEMMA ConfirmCreateFine ==
    ASSUME Fine, AllPlaced, NEW f \in Flows, ConfirmCreate(f)
    PROVE  /\ Fine' /\ UNCHANGED Server /\ flow'[f] = Past /\ OthersAlike(f)
           /\ At(f, "create", "answered") /\ flow[f].new \in Copy
           /\ CopiesOf(f, Append(screen.cases[f], flow[f].new))
           /\ ~misled' => ~misled /\ flow[f].new.comments = NoComment
<1>1. /\ ServerTyped' /\ FlowTyped' /\ UNCHANGED Server
      /\ flow'[f] = Past /\ OthersAlike(f)
  BY Dones DEF ConfirmCreate
<1>2. /\ At(f, "create", "answered")
      /\ misled' = (misled \/ flow[f].new.comments # NoComment)
  BY DEF ConfirmCreate, Answered, At
<1>3. flow[f] \in Commands  BY <1>2, Kinds DEF Fine, At, Op, CommandOps
<1>4. PICK new : new = flow[f].new  OBVIOUS
<1>5. new \in Copy  BY <1>2, <1>3, <1>4 DEF AllPlaced, Placed, At, Op, Commands
<1>6. PICK old : old = screen.cases[f]  OBVIOUS
<1>7. f \in Cases /\ screen \in Screen /\ Good(screen)  BY DEF Cases, Fine, Good
<1>8. old \in Seq(Copy)  BY <1>6, <1>7 DEF Screen
<1>9. PICK e : e = Append(old, new)  OBVIOUS
<1>10. e \in Seq(Copy) /\ e # <<>> /\ (old # <<>> => Head(e) = Head(old))
  BY <1>5, <1>8, <1>9, AppendHead
<1>11. PICK t : t = SetCopies(screen, f, e)  OBVIOUS
<1>12. /\ t \in Screen /\ t.cases[f] = e
       /\ t.folders = screen.folders /\ t.reqs = screen.reqs /\ t.runs = screen.runs
       /\ t.open = screen.open /\ t.draft = screen.draft
       /\ \A d \in Cases : d # f => t.cases[d] = screen.cases[d]
  BY <1>7, <1>10, <1>11, CopiesTyped
<1>15. Good(t)
  <2>1. ASSUME t.draft # None  PROVE Detail(t) /\ t.draft = Shown(t)
    <3>1. Detail(screen) /\ screen.draft = Shown(screen) /\ screen.open \in Cases
      BY <1>7, <1>12, <2>1 DEF Good, Editing, Screen, Detail
    <3>2. CASE screen.open = f
      BY <1>6, <1>10, <1>12, <3>1, <3>2 DEF Detail, Shown
    <3>3. CASE screen.open # f  BY <1>12, <3>1, <3>3 DEF Detail, Shown
    <3>4. QED  BY <3>2, <3>3
  <2>2. QED  BY <1>12, <2>1 DEF Good, Editing
<1>16. screen' = IF flow[f].opens THEN Opened(t, f) ELSE t
  BY <1>4, <1>6, <1>9, <1>11 DEF ConfirmCreate, SetCopies
<1>17. Good(screen') /\ SameContent(screen', t)
  BY <1>7, <1>15, <1>16, OpenedGood DEF SameContent
<1>18. CopiesOf(f, e)  BY <1>7, <1>12, <1>17 DEF CopiesOf, SameContent
<1>19. QED
  BY <1>1, <1>2, <1>4, <1>5, <1>6, <1>9, <1>17, <1>18 DEF Fine

\* The answer to a new folder.
LEMMA ConfirmFolderFine ==
    ASSUME Fine, NEW f \in Flows, ConfirmFolder(f)
    PROVE  /\ Fine' /\ UNCHANGED <<Server, misled>> /\ flow'[f] = Past /\ OthersAlike(f)
           /\ At(f, "folder", "answered")
           /\ screen'.folders = [screen.folders EXCEPT ![f] = @ + 1]
           /\ screen'.cases = screen.cases /\ screen'.reqs = screen.reqs
           /\ screen'.runs = screen.runs
<1>1. /\ ServerTyped' /\ FlowTyped' /\ UNCHANGED Server /\ misled' = misled
      /\ flow'[f] = Past /\ OthersAlike(f)
  BY Dones DEF ConfirmFolder
<1>2. At(f, "folder", "answered")  BY DEF ConfirmFolder, Answered, At
<1>3. screen \in Screen /\ Good(screen)  BY DEF Fine, Good
<1>4. PICK k : k = [screen.folders EXCEPT ![f] = @ + 1]  OBVIOUS
<1>5. f \in Folders  BY DEF Folders
<1>6. k \in [Folders -> Nat]  BY <1>3, <1>4, <1>5 DEF Screen
<1>7. PICK t : t = [screen EXCEPT !.folders = k]  OBVIOUS
<1>8. /\ t \in Screen /\ t.folders = k /\ t.cases = screen.cases
      /\ t.reqs = screen.reqs /\ t.runs = screen.runs
      /\ t.open = screen.open /\ t.draft = screen.draft
  BY <1>3, <1>6, <1>7 DEF Screen
<1>9. Good(t)  BY <1>3, <1>8 DEF Good, Editing, Detail, Shown
<1>10. screen' = IF flow[f].opens THEN Selected(t, f) ELSE t
  BY <1>4, <1>7 DEF ConfirmFolder
<1>11. Good(screen') /\ SameContent(screen', t)
  BY <1>5, <1>9, <1>10, SelectedGood DEF SameContent
<1>12. QED  BY <1>1, <1>2, <1>4, <1>8, <1>11 DEF SameContent, Fine

\* The answer to a save replaces each copy by what was typed; the screen is
\* misled unless that is what it showed when the save began.
LEMMA ConfirmSaveFine ==
    ASSUME Fine, AllPlaced, NEW f \in Flows, ConfirmSave(f)
    PROVE  /\ Fine' /\ UNCHANGED Server /\ flow'[f] = Past /\ OthersAlike(f)
           /\ At(f, "save", "answered")
           /\ InPlace(flow[f].case, flow[f].new) /\ screen'.reqs = screen.reqs
           /\ ~misled' => ~misled /\ screen.cases[flow[f].case] = flow[f].was
<1>1. /\ ServerTyped' /\ FlowTyped' /\ UNCHANGED Server
      /\ flow'[f] = Past /\ OthersAlike(f)
  BY Dones DEF ConfirmSave
<1>2. /\ At(f, "save", "answered")
      /\ misled' = (misled \/ screen.cases[flow[f].case] # flow[f].was)
  BY DEF ConfirmSave, Answered, At
<1>3. PICK c : c = flow[f].case  OBVIOUS
<1>4. PICK new : new = flow[f].new  OBVIOUS
<1>5. c \in Cases /\ new \in Copy
  BY <1>2, <1>3, <1>4, SaveTyped DEF At, Op, Fine
<1>6. screen \in Screen /\ Good(screen)  BY DEF Fine, Good
<1>7. PICK old : old = screen.cases[c]  OBVIOUS
<1>8. old \in Seq(Copy)  BY <1>5, <1>6, <1>7 DEF Screen
<1>9. PICK e : e = [i \in DOMAIN old |-> new]  OBVIOUS
<1>10. e \in [DOMAIN old -> Copy]  BY <1>5, <1>9
<1>11. /\ e \in Seq(Copy) /\ Len(e) = Len(old) /\ (e = <<>> <=> old = <<>>)
       /\ e # <<>> => Head(e) = new
  <2>1. /\ e \in Seq(Copy) /\ Len(e) = Len(old) /\ (e = <<>> <=> old = <<>>)
        /\ old # <<>> => Head(e) = e[1]
    BY <1>8, <1>10, SamePlaces
  <2>2. old # <<>> => 1 \in DOMAIN old  BY <1>8, HeadIn
  <2>3. QED  BY <1>9, <2>1, <2>2
<1>12. PICK t : t = SetCopies(screen, c, e)  OBVIOUS
<1>13. /\ t \in Screen /\ t.cases[c] = e
       /\ t.folders = screen.folders /\ t.reqs = screen.reqs /\ t.runs = screen.runs
       /\ t.open = screen.open /\ t.draft = screen.draft
       /\ \A d \in Cases : d # c => t.cases[d] = screen.cases[d]
  BY <1>5, <1>6, <1>11, <1>12, CopiesTyped
<1>14. screen' = Touched(t, {c})
  BY <1>3, <1>4, <1>7, <1>9, <1>12 DEF ConfirmSave, SetCopies
<1>15. Good(screen') /\ SameContent(screen', t)
  BY <1>6, <1>13, <1>14, TouchedGood
<1>16. CopiesOf(c, e)  BY <1>5, <1>13, <1>15 DEF CopiesOf, SameContent
<1>17. InPlace(c, new) /\ screen'.reqs = screen.reqs
  BY <1>5, <1>7, <1>11, <1>16 DEF CopiesOf, InPlace
<1>18. ~misled' => ~misled /\ screen.cases[flow[f].case] = flow[f].was  BY <1>2
<1>19. Fine'  BY <1>1, <1>2, <1>15 DEF Fine
<1>20. QED  BY <1>1, <1>2, <1>3, <1>4, <1>17, <1>18, <1>19

\* The answer to a delete takes the case off the screen, out of the runs too.
LEMMA ConfirmDeleteFine ==
    ASSUME Fine, AllPlaced, NEW f \in Flows, ConfirmDelete(f)
    PROVE  /\ Fine' /\ UNCHANGED Server /\ flow'[f] = Past /\ OthersAlike(f)
           /\ At(f, "delete", "answered") /\ flow[f].case \in Cases
           /\ screen'.cases[flow[f].case] = <<>>
           /\ \A c \in Cases \ {flow[f].case} : screen'.cases[c] = screen.cases[c]
           /\ screen'.folders = screen.folders /\ screen'.reqs = screen.reqs
           /\ \A r \in Flows : screen'.runs[r] = None <=> screen.runs[r] = None
           /\ ~misled' => ~misled /\ screen'.runs = screen.runs
<1>1. /\ ServerTyped' /\ FlowTyped' /\ UNCHANGED Server
      /\ flow'[f] = Past /\ OthersAlike(f)
  BY Dones DEF ConfirmDelete
<1>2. PICK c : c = flow[f].case  OBVIOUS
<1>3. /\ At(f, "delete", "answered")
      /\ misled' = (misled \/ \E r \in Flows : screen.runs[r] # None
                                               /\ c \in screen.runs[r])
  BY <1>2 DEF ConfirmDelete, Answered, At
<1>4. c \in Cases  BY <1>2, <1>3, AboutRow DEF At, Op, AboutCase
<1>5. screen \in Screen /\ Good(screen)  BY DEF Fine, Good
<1>6. PICK runs : runs = [r \in Flows |-> IF screen.runs[r] = None THEN None
                                          ELSE screen.runs[r] \ {c}]
  OBVIOUS
<1>7. screen.runs \in [Flows -> {None} \cup SUBSET Cases]  BY <1>5 DEF Screen
<1>8. \A r \in Flows : screen.runs[r] = None \/ screen.runs[r] \ {c} \in SUBSET Cases
  BY <1>7
<1>9. /\ runs \in [Flows -> {None} \cup SUBSET Cases]
      /\ \A r \in Flows : runs[r] = None <=> screen.runs[r] = None
  BY <1>6, <1>8, NoneAssumption
<1>10. ASSUME ~misled'  PROVE runs = screen.runs
  <2>1. \A r \in Flows : screen.runs[r] # None => c \notin screen.runs[r]
    BY <1>3, <1>10
  <2>2. \A r \in Flows : screen.runs[r] # None => screen.runs[r] \ {c} = screen.runs[r]
    BY <1>7, <2>1
  <2>3. \A r \in Flows : runs[r] = screen.runs[r]  BY <1>6, <2>2
  <2>4. QED  BY <1>7, <1>9, <2>3
<1>11. <<>> \in Seq(Copy)  OBVIOUS
<1>12. PICK none \in Seq(Copy) : none = <<>>  BY <1>11
<1>20. PICK u : u = SetCopies(screen, c, none)  OBVIOUS
<1>13. /\ u \in Screen /\ u.cases[c] = none
       /\ u.folders = screen.folders /\ u.reqs = screen.reqs /\ u.runs = screen.runs
       /\ u.open = screen.open /\ u.draft = screen.draft
       /\ \A d \in Cases : d # c => u.cases[d] = screen.cases[d]
  BY <1>4, <1>5, <1>20, CopiesTyped
<1>14. PICK t : t = [u EXCEPT !.runs = runs]  OBVIOUS
<1>15. /\ t \in Screen /\ t.cases = u.cases /\ t.folders = u.folders /\ t.reqs = u.reqs
       /\ t.runs = runs /\ t.open = u.open /\ t.draft = u.draft
  BY <1>9, <1>13, <1>14 DEF Screen
<1>16. screen' = Touched(t, {c})
  <2>1. screen' = Touched([screen EXCEPT !.cases[c] = <<>>, !.runs = runs], {c})
    BY <1>2, <1>6 DEF ConfirmDelete
  <2>2. [screen EXCEPT !.cases[c] = <<>>, !.runs = runs] = t
    BY <1>12, <1>14, <1>20 DEF SetCopies
  <2>3. QED  BY <2>1, <2>2
<1>17. Good(screen') /\ SameContent(screen', t)
  <2>1. \A d \in Cases : d \notin {c} => t.cases[d] = screen.cases[d]
    BY <1>13, <1>15
  <2>2. t.open = screen.open /\ t.draft = screen.draft  BY <1>13, <1>15
  <2>3. QED  BY <1>5, <1>15, <1>16, <2>1, <2>2, TouchedGood
<1>18. QED
  BY <1>1, <1>2, <1>3, <1>4, <1>9, <1>10, <1>12, <1>13, <1>15, <1>17 DEF Fine, SameContent

\* A comment is counted once, and changes nothing else.
LEMMA CommentedTyped ==
    ASSUME NEW cp \in Copy, NEW f \in Flows
    PROVE  /\ Commented(cp, f) \in Copy
           /\ Commented(cp, f).ver = cp.ver /\ Commented(cp, f).folder = cp.folder
           /\ Commented(cp, f).reqs = cp.reqs
           /\ Commented(cp, f).comments[f] = cp.comments[f] + 1
           /\ \A g \in Flows \ {f} : Commented(cp, f).comments[g] = cp.comments[g]
<1>1. cp.comments \in [Flows -> Nat]  BY DEF Copy, Comments
<1>2. PICK k : k = [cp.comments EXCEPT ![f] = @ + 1]  OBVIOUS
<1>3. /\ k \in Comments /\ k[f] = cp.comments[f] + 1
      /\ \A g \in Flows \ {f} : k[g] = cp.comments[g]
  BY <1>1, <1>2 DEF Comments
<1>4. Commented(cp, f) = [cp EXCEPT !.comments = k]  BY <1>2 DEF Commented
<1>5. QED  BY <1>3, <1>4 DEF Copy

\* The answer to a comment counts it in what is shown of the case.
LEMMA ConfirmCommentFine ==
    ASSUME Fine, AllPlaced, NEW f \in Flows, ConfirmComment(f)
    PROVE  /\ Fine' /\ UNCHANGED <<Server, misled>> /\ flow'[f] = Past /\ OthersAlike(f)
           /\ At(f, "comment", "answered")
           /\ InPlace(flow[f].case, Commented(Head(screen.cases[flow[f].case]), f))
           /\ screen'.reqs = screen.reqs
<1>1. /\ ServerTyped' /\ FlowTyped' /\ UNCHANGED Server /\ misled' = misled
      /\ flow'[f] = Past /\ OthersAlike(f)
  BY Dones DEF ConfirmComment
<1>2. At(f, "comment", "answered")  BY DEF ConfirmComment, Answered, At
<1>3. PICK c : c = flow[f].case  OBVIOUS
<1>4. c \in Cases  BY <1>2, <1>3, AboutRow DEF At, Op, AboutCase
<1>5. screen \in Screen /\ Good(screen)  BY DEF Fine, Good
<1>6. PICK old : old = screen.cases[c]  OBVIOUS
<1>7. old \in Seq(Copy)  BY <1>4, <1>5, <1>6 DEF Screen
<1>8. PICK e : e = [i \in DOMAIN old |-> Commented(old[i], f)]  OBVIOUS
<1>9. \A i \in DOMAIN old : old[i] \in Copy  BY <1>7
<1>10. e \in [DOMAIN old -> Copy]  BY <1>8, <1>9, CommentedTyped
<1>11. /\ e \in Seq(Copy) /\ Len(e) = Len(old) /\ (e = <<>> <=> old = <<>>)
       /\ old # <<>> => Head(e) = Commented(Head(old), f)
  <2>1. /\ e \in Seq(Copy) /\ Len(e) = Len(old) /\ (e = <<>> <=> old = <<>>)
        /\ old # <<>> => Head(e) = e[1]
    BY <1>7, <1>10, SamePlaces
  <2>2. old # <<>> => 1 \in DOMAIN old /\ Head(old) = old[1]  BY <1>7, HeadIn
  <2>3. QED  BY <1>8, <2>1, <2>2
<1>12. PICK t : t = SetCopies(screen, c, e)  OBVIOUS
<1>13. /\ t \in Screen /\ t.cases[c] = e
       /\ t.folders = screen.folders /\ t.reqs = screen.reqs /\ t.runs = screen.runs
       /\ t.open = screen.open /\ t.draft = screen.draft
       /\ \A d \in Cases : d # c => t.cases[d] = screen.cases[d]
  BY <1>4, <1>5, <1>11, <1>12, CopiesTyped
<1>14. screen' = Touched(t, {c})
  BY <1>3, <1>6, <1>8, <1>12 DEF ConfirmComment, SetCopies
<1>15. Good(screen') /\ SameContent(screen', t)
  BY <1>5, <1>13, <1>14, TouchedGood
<1>16. /\ InPlace(c, Commented(Head(screen.cases[c]), f)) /\ screen'.reqs = screen.reqs
  BY <1>4, <1>6, <1>11, <1>13, <1>15 DEF SameContent, InPlace
<1>17. Fine'  BY <1>1, <1>15 DEF Fine
<1>18. QED  BY <1>1, <1>2, <1>3, <1>16, <1>17

\* A copy once requirement f has its id.
NamedIn(cp, f) == [cp EXCEPT !.reqs = Named(@, f)]

\* A requirement that gets its id changes the list of requirements alone.
LEMMA NamedTyped ==
    ASSUME NEW cp \in Copy, NEW f \in Flows
    PROVE  /\ NamedIn(cp, f) \in Copy
           /\ NamedIn(cp, f).ver = cp.ver /\ NamedIn(cp, f).folder = cp.folder
           /\ NamedIn(cp, f).comments = cp.comments
           /\ NamedIn(cp, f).reqs = Named(cp.reqs, f)
           /\ Temp(f) \notin cp.reqs => NamedIn(cp, f) = cp
<1>1. Real(f) \in Id  BY DEF Real, Id, Reqs
<1>2. PICK k : k = Named(cp.reqs, f)  OBVIOUS
<1>3. k \in SUBSET Id /\ (Temp(f) \notin cp.reqs => k = cp.reqs)
  BY <1>1, <1>2 DEF Named, Copy
<1>4. NamedIn(cp, f) = [cp EXCEPT !.reqs = k]  BY <1>2 DEF NamedIn
<1>5. QED  BY <1>2, <1>3, <1>4 DEF Copy

\* The same, in each copy of a case.
LEMMA AllNamed ==
    ASSUME NEW s \in Seq(Copy), NEW f \in Flows, NEW t \in [DOMAIN s -> Copy],
           \A i \in DOMAIN s : t[i] = NamedIn(s[i], f)
    PROVE  /\ t \in Seq(Copy) /\ Len(t) = Len(s) /\ (t = <<>> <=> s = <<>>)
           /\ s # <<>> => Head(t) = NamedIn(Head(s), f)
           /\ (\A i \in DOMAIN s : Temp(f) \notin s[i].reqs) => t = s
<1>1. \A i \in DOMAIN s : s[i] \in Copy  OBVIOUS
<1>2. /\ t \in Seq(Copy) /\ Len(t) = Len(s) /\ (t = <<>> <=> s = <<>>)
      /\ s # <<>> => Head(t) = t[1]
  BY SamePlaces
<1>3. s # <<>> => Head(s) = s[1] /\ 1 \in DOMAIN s  BY HeadIn
<1>4. ASSUME \A i \in DOMAIN s : Temp(f) \notin s[i].reqs  PROVE t = s
  <2>1. \A i \in DOMAIN s : t[i] = s[i]  BY <1>1, <1>4, NamedTyped
  <2>2. s \in [DOMAIN s -> Copy]  BY <1>1
  <2>3. QED  BY <2>1, <2>2
<1>5. QED  BY <1>2, <1>3, <1>4

\* The copies of every case are changed so.
NamedAll(f) ==
    /\ \A c \in Cases :
          /\ Len(screen'.cases[c]) = Len(screen.cases[c])
          /\ screen'.cases[c] = <<>> <=> screen.cases[c] = <<>>
          /\ screen.cases[c] # <<>> => Head(screen'.cases[c]) = NamedIn(Head(screen.cases[c]), f)
          /\ (\A i \in DOMAIN screen.cases[c] : Temp(f) \notin screen.cases[c][i].reqs)
                => screen'.cases[c] = screen.cases[c]
    /\ screen'.folders = screen.folders /\ screen'.runs = screen.runs
    /\ screen'.reqs = (screen.reqs \ {Temp(f)}) \cup {Real(f)}

\* The answer to a new requirement replaces the made-up id everywhere.
LEMMA ReconcileFine ==
    ASSUME Fine, NEW f \in Flows, Reconcile(f)
    PROVE  /\ Fine' /\ UNCHANGED <<Server, misled>> /\ OthersAlike(f)
           /\ At(f, "require", "answered") /\ Onward(f, "link") /\ NamedAll(f)
<1>1. UNCHANGED <<Server, misled>> /\ At(f, "require", "answered") /\ Goto(f, "link")
  BY DEF Reconcile, Answered, At
<1>2. FlowTyped' /\ OthersAlike(f) /\ Onward(f, "link")
  BY <1>1, Goes DEF Fine, At, Op, CommandOps
<1>3. ServerTyped'  BY <1>1, ServerStays
<1>4. screen \in Screen /\ Good(screen)  BY DEF Fine, Good
<1>5. PICK k : k = [c \in Cases |-> [i \in DOMAIN screen.cases[c] |->
                                        NamedIn(screen.cases[c][i], f)]]
  OBVIOUS
<1>6. ASSUME NEW c \in Cases
      PROVE  /\ k[c] \in Seq(Copy) /\ Len(k[c]) = Len(screen.cases[c])
             /\ k[c] = <<>> <=> screen.cases[c] = <<>>
             /\ screen.cases[c] # <<>> => Head(k[c]) = NamedIn(Head(screen.cases[c]), f)
             /\ (\A i \in DOMAIN screen.cases[c] : Temp(f) \notin screen.cases[c][i].reqs)
                    => k[c] = screen.cases[c]
  <2>1. PICK s : s = screen.cases[c]  OBVIOUS
  <2>2. s \in Seq(Copy)  BY <1>4, <2>1 DEF Screen
  <2>3. PICK t : t = k[c]  OBVIOUS
  <2>4. t = [i \in DOMAIN s |-> NamedIn(s[i], f)]  BY <1>5, <2>1, <2>3
  <2>5. \A i \in DOMAIN s : s[i] \in Copy  BY <2>2
  <2>6. t \in [DOMAIN s -> Copy] /\ \A i \in DOMAIN s : t[i] = NamedIn(s[i], f)
    BY <2>4, <2>5, NamedTyped
  <2>7. QED  BY <2>1, <2>2, <2>3, <2>6, AllNamed
<1>7. PICK q : q = (screen.reqs \ {Temp(f)}) \cup {Real(f)}  OBVIOUS
<1>8. q \in SUBSET Id  BY <1>4, <1>7 DEF Screen, Id, Real, Reqs
<1>9. PICK t : t = [screen EXCEPT !.reqs = q, !.cases = k]  OBVIOUS
<1>10. k \in [Cases -> Seq(Copy)]  BY <1>5, <1>6
<1>11. /\ t \in Screen /\ t.cases = k /\ t.reqs = q
       /\ t.folders = screen.folders /\ t.runs = screen.runs
       /\ t.open = screen.open /\ t.draft = screen.draft
  BY <1>4, <1>8, <1>9, <1>10 DEF Screen
<1>12. PICK X : X = {c \in Cases : \E i \in DOMAIN screen.cases[c] :
                                      Temp(f) \in screen.cases[c][i].reqs}
  OBVIOUS
<1>13. screen' = Touched(t, X)
  <2>1. screen' = Reconciled(screen, f)  BY DEF Reconcile
  <2>2. Reconciled(screen, f) = Touched(t, X)
    BY <1>5, <1>7, <1>9, <1>12 DEF Reconciled, NamedIn
  <2>3. QED  BY <2>1, <2>2
<1>14. \A c \in Cases : c \notin X => t.cases[c] = screen.cases[c]
  BY <1>6, <1>11, <1>12
<1>15. Good(screen') /\ SameContent(screen', t)
  BY <1>4, <1>11, <1>13, <1>14, TouchedGood
<1>16. NamedAll(f)
  BY <1>6, <1>7, <1>11, <1>15 DEF SameContent, NamedAll
<1>17. Fine'  BY <1>1, <1>2, <1>3, <1>15 DEF Fine
<1>18. QED  BY <1>1, <1>2, <1>16, <1>17

\* A link to a requirement with a made-up id waits, and goes on under the real
\* id, or is dropped and the screen misled.
LEMMA AwaitedFine ==
    ASSUME Fine, NEW f \in Flows, Awaited(f)
    PROVE  /\ Fine' /\ UNCHANGED <<Server, screen>> /\ OthersAlike(f) /\ Pc(f) = "wait"
           /\ \/ Temp(flow[f].req) \notin screen.reqs /\ Onward(f, "link") /\ misled' = misled
              \/ flow'[f] = Past /\ misled'
<1>1. UNCHANGED <<Server, screen>> /\ Pc(f) = "wait"  BY DEF Awaited, Pc
<1>2. FlowTyped /\ Op(f) \in CommandOps  BY <1>1, Kinds DEF Fine
<1>3. CASE Temp(flow[f].req) \notin screen.reqs /\ Goto(f, "link") /\ misled' = misled
  <2>1. FlowTyped' /\ OthersAlike(f) /\ Onward(f, "link")  BY <1>2, <1>3, Goes
  <2>2. QED  BY <1>1, <1>3, <2>1, ServerStays DEF Fine
<1>4. CASE End(f) /\ misled' = TRUE
  <2>1. FlowTyped' /\ OthersAlike(f) /\ flow'[f] = Past  BY <1>2, <1>4, Ends
  <2>2. QED  BY <1>1, <1>4, <2>1, ServerStays DEF Fine
<1>5. QED  BY <1>3, <1>4 DEF Awaited

\* The answer to a link changes nothing that is shown.
LEMMA ConfirmLinkFine ==
    ASSUME Fine, NEW f \in Flows, ConfirmLink(f)
    PROVE  /\ Fine' /\ UNCHANGED <<Server, screen, misled>> /\ OthersAlike(f)
           /\ flow'[f] = Past /\ Pc(f) = "linked"
<1>1. /\ ServerTyped' /\ FlowTyped' /\ UNCHANGED <<Server, screen, misled>>
      /\ flow'[f] = Past /\ OthersAlike(f) /\ Pc(f) = "linked"
  BY Dones DEF ConfirmLink, Pc
<1>2. QED  BY <1>1 DEF Fine

\* The answer to a new run.
LEMMA ConfirmRunFine ==
    ASSUME Fine, NEW f \in Flows, ConfirmRun(f)
    PROVE  /\ Fine' /\ UNCHANGED <<Server, misled>> /\ OthersAlike(f)
           /\ flow'[f] = Past /\ At(f, "run", "answered")
           /\ screen'.runs[f] = flow[f].cases
           /\ \A r \in Flows \ {f} : screen'.runs[r] = screen.runs[r]
           /\ screen'.cases = screen.cases /\ screen'.reqs = screen.reqs
           /\ screen'.folders = screen.folders
<1>1. /\ ServerTyped' /\ FlowTyped' /\ UNCHANGED <<Server, misled>>
      /\ flow'[f] = Past /\ OthersAlike(f) /\ At(f, "run", "answered")
  BY Dones DEF ConfirmRun, Answered, At
<1>2. flow[f] \in Commands  BY <1>1, Kinds DEF Fine, At, Op, CommandOps
<1>3. flow[f].cases \in SUBSET Cases  BY <1>2 DEF Commands
<1>4. screen \in Screen /\ Good(screen)  BY DEF Fine, Good
<1>5. PICK k : k = [screen.runs EXCEPT ![f] = flow[f].cases]  OBVIOUS
<1>6. /\ k \in [Flows -> {None} \cup SUBSET Cases] /\ k[f] = flow[f].cases
      /\ \A r \in Flows \ {f} : k[r] = screen.runs[r]
  BY <1>3, <1>4, <1>5 DEF Screen
<1>7. screen' = [screen EXCEPT !.runs = k]  BY <1>5 DEF ConfirmRun
<1>8. /\ screen' \in Screen /\ screen'.runs = k /\ screen'.cases = screen.cases
      /\ screen'.reqs = screen.reqs /\ screen'.folders = screen.folders
      /\ screen'.open = screen.open /\ screen'.draft = screen.draft
  BY <1>4, <1>6, <1>7 DEF Screen
<1>9. Good(screen')  BY <1>4, <1>8 DEF Good, Editing, Detail, Shown
<1>10. QED  BY <1>1, <1>6, <1>8, <1>9 DEF Fine

-----------------------------------------------------------------------------
(* Syncs, failures, and other clients *)

\* The ids of requirements, real and made up.
LEMMA Ids ==
    /\ \A q \in Reqs : Real(q) \in Id /\ Temp(q) \in Id
    /\ \A q : /\ Real(q)[1] = q /\ Real(q)[2] = "real"
              /\ Temp(q)[1] = q /\ Temp(q)[2] = "temp"
    /\ \A x \in Id : /\ x[1] \in Reqs
                      /\ \/ x[2] = "real" /\ x = Real(x[1])
                         \/ x[2] = "temp" /\ x = Temp(x[1])
BY DEF Real, Temp, Id

\* What GET /cases answers of a row.
LEMMA CopyOfTyped ==
    ASSUME ServerTyped, NEW c \in Cases, case[c] # None
    PROVE  /\ CopyOf(c) \in Copy
           /\ CopyOf(c).ver = case[c].ver /\ CopyOf(c).folder = case[c].folder
           /\ CopyOf(c).comments = case[c].comments /\ ~CopyOf(c).local
           /\ CopyOf(c).reqs = {Real(q) : q \in {p \in Reqs : <<c, p>> \in links}}
<1>1. case[c] \in CaseRow  BY DEF ServerTyped
<1>2. PICK k : k = {Real(q) : q \in {p \in Reqs : <<c, p>> \in links}}  OBVIOUS
<1>3. k \subseteq Id  BY <1>2, Ids
<1>4. PICK row : row = case[c]  OBVIOUS
<1>5. CopyOf(c) = [ver |-> row.ver, folder |-> row.folder, comments |-> row.comments,
                   reqs |-> k, local |-> FALSE]
  BY <1>2, <1>4 DEF CopyOf
<1>6. QED  BY <1>1, <1>2, <1>3, <1>4, <1>5 DEF CaseRow, Copy

\* GET /cases answers each row that is not archived, once.
LEMMA ListedTyped ==
    ASSUME ServerTyped
    PROVE  /\ Listed \in [Cases -> Seq(Copy)]
           /\ \A c \in Cases : Listed[c] = IF case[c] = None \/ case[c].archived THEN <<>>
                                           ELSE <<CopyOf(c)>>
<1>1. \A c \in Cases : Listed[c] = IF case[c] = None \/ case[c].archived THEN <<>>
                                   ELSE <<CopyOf(c)>>
  BY DEF Listed
<1>2. ASSUME NEW c \in Cases  PROVE Listed[c] \in Seq(Copy)
  <2>1. CASE case[c] = None \/ case[c].archived
    <3>1. <<>> \in Seq(Copy)  OBVIOUS
    <3>2. QED  BY <1>1, <2>1, <3>1
  <2>2. CASE ~(case[c] = None \/ case[c].archived)
    <3>1. CopyOf(c) \in Copy  BY <2>2, CopyOfTyped
    <3>2. PICK x : x = CopyOf(c)  OBVIOUS
    <3>3. <<x>> \in Seq(Copy)  BY <3>1, <3>2
    <3>4. QED  BY <1>1, <2>2, <3>2, <3>3
  <2>3. QED  BY <2>1, <2>2
<1>3. Listed = [c \in Cases |-> Listed[c]]  BY DEF Listed
<1>4. QED  BY <1>1, <1>2, <1>3

\* A sync reads.
Reads(f) == ReadFolders(f) \/ ReadCases(f) \/ ReadRequirements(f) \/ ReadRuns(f)

\* A sync that has read one list more.
ReadOne(f) ==
    LET x == flow'[f]
        y == flow[f]
    IN /\ y.op = "sync" /\ x.op = "sync" /\ x.pc = "read"
       /\ x.cases = y.cases \/ x.cases = Listed
       /\ x.folders = y.folders \/ x.folders = FolderRows
       /\ x.reqs = y.reqs \/ x.reqs = reqs
       /\ x.runs = y.runs \/ x.runs = run

\* A sync that reads one list.
LEMMA ReadsFine ==
    ASSUME Fine, NEW f \in Flows, Reads(f)
    PROVE  /\ Fine' /\ UNCHANGED <<Server, screen, misled>> /\ OthersAlike(f)
           /\ ReadOne(f)
<1>1. UNCHANGED <<Server, screen, misled>> /\ Op(f) = "sync"
  BY DEF Reads, ReadFolders, ReadCases, ReadRequirements, ReadRuns, Reading, Op
<1>2. PICK y : y = flow[f]  OBVIOUS
<1>3. y \in Syncs /\ y.op = "sync" /\ y.pc = "read"
  BY <1>1, <1>2, Kinds DEF Fine, Op, Pc
<1>4. \E x \in Syncs :
         /\ flow' = [flow EXCEPT ![f] = x] /\ x.op = "sync" /\ x.pc = "read"
         /\ x.cases = y.cases \/ x.cases = Listed
         /\ x.folders = y.folders \/ x.folders = FolderRows
         /\ x.reqs = y.reqs \/ x.reqs = reqs
         /\ x.runs = y.runs \/ x.runs = run
  <2>1. CASE ReadFolders(f)
    <3>1. PICK k : k = FolderRows  OBVIOUS
    <3>2. k \in SUBSET Folders  BY <3>1 DEF FolderRows
    <3>3. PICK x : x = [y EXCEPT !.folders = k]  OBVIOUS
    <3>4. flow' = [flow EXCEPT ![f] = x]  BY <1>2, <2>1, <3>1, <3>3 DEF ReadFolders
    <3>5. /\ x \in Syncs /\ x.op = "sync" /\ x.pc = "read" /\ x.cases = y.cases
          /\ x.folders = k /\ x.reqs = y.reqs /\ x.runs = y.runs
      BY <1>3, <3>2, <3>3 DEF Syncs
    <3>6. QED  BY <3>1, <3>4, <3>5
  <2>2. CASE ReadCases(f)
    <3>1. PICK k : k = Listed  OBVIOUS
    <3>2. k \in [Cases -> Seq(Copy)]  BY <3>1, ListedTyped DEF Fine
    <3>3. PICK x : x = [y EXCEPT !.cases = k]  OBVIOUS
    <3>4. flow' = [flow EXCEPT ![f] = x]  BY <1>2, <2>2, <3>1, <3>3 DEF ReadCases
    <3>5. /\ x \in Syncs /\ x.op = "sync" /\ x.pc = "read" /\ x.cases = k
          /\ x.folders = y.folders /\ x.reqs = y.reqs /\ x.runs = y.runs
      BY <1>3, <3>2, <3>3 DEF Syncs
    <3>6. QED  BY <3>1, <3>4, <3>5
  <2>3. CASE ReadRequirements(f)
    <3>1. reqs \in SUBSET Reqs  BY DEF Fine, ServerTyped
    <3>2. PICK x : x = [y EXCEPT !.reqs = reqs]  OBVIOUS
    <3>3. flow' = [flow EXCEPT ![f] = x]  BY <1>2, <2>3, <3>2 DEF ReadRequirements
    <3>4. /\ x \in Syncs /\ x.op = "sync" /\ x.pc = "read" /\ x.cases = y.cases
          /\ x.folders = y.folders /\ x.reqs = reqs /\ x.runs = y.runs
      BY <1>3, <3>1, <3>2 DEF Syncs
    <3>5. QED  BY <3>3, <3>4
  <2>4. CASE ReadRuns(f)
    <3>1. run \in [Flows -> {None} \cup SUBSET Cases]  BY DEF Fine, ServerTyped
    <3>2. PICK x : x = [y EXCEPT !.runs = run]  OBVIOUS
    <3>3. flow' = [flow EXCEPT ![f] = x]  BY <1>2, <2>4, <3>2 DEF ReadRuns
    <3>4. /\ x \in Syncs /\ x.op = "sync" /\ x.pc = "read" /\ x.cases = y.cases
          /\ x.folders = y.folders /\ x.reqs = y.reqs /\ x.runs = run
      BY <1>3, <3>1, <3>2 DEF Syncs
    <3>5. QED  BY <3>3, <3>4
  <2>5. QED  BY <2>1, <2>2, <2>3, <2>4 DEF Reads
<1>5. PICK x \in Syncs :
         /\ flow' = [flow EXCEPT ![f] = x] /\ x.op = "sync" /\ x.pc = "read"
         /\ x.cases = y.cases \/ x.cases = Listed
         /\ x.folders = y.folders \/ x.folders = FolderRows
         /\ x.reqs = y.reqs \/ x.reqs = reqs
         /\ x.runs = y.runs \/ x.runs = run
  BY <1>4
<1>6. x \in FlowState  BY DEF FlowState
<1>7. FlowTyped' /\ flow'[f] = x /\ OthersAlike(f)
  BY <1>5, <1>6, Moves DEF Fine
<1>8. ReadOne(f)  BY <1>2, <1>3, <1>5, <1>7 DEF ReadOne
<1>9. QED  BY <1>1, <1>7, <1>8, ServerStays DEF Fine

\* A sync that is done replaces the lists, but for pending requirements; the
\* screen is misled when another flow was beside it.
LEMMA ConfirmSyncFine ==
    ASSUME Fine, NEW f \in Flows, ConfirmSync(f)
    PROVE  /\ Fine' /\ UNCHANGED Server /\ OthersAlike(f)
           /\ flow'[f] = Past /\ Op(f) = "sync"
           /\ flow[f].cases # None /\ flow[f].folders # None /\ flow[f].reqs # None
           /\ flow[f].runs # None
           /\ screen'.cases = flow[f].cases /\ screen'.folders = Counted(flow[f].folders)
           /\ screen'.runs = flow[f].runs
           /\ screen'.reqs = {Real(q) : q \in flow[f].reqs} \cup Pending(screen)
           /\ ~misled' => f \notin overlapped
<1>1. /\ ServerTyped' /\ FlowTyped' /\ UNCHANGED Server
      /\ flow'[f] = Past /\ OthersAlike(f)
  BY Dones DEF ConfirmSync
<1>2. /\ Op(f) = "sync" /\ misled' = (f \in overlapped)
      /\ flow[f].cases # None /\ flow[f].folders # None /\ flow[f].reqs # None
      /\ flow[f].runs # None
  BY DEF ConfirmSync, Reading, Op
<1>3. PICK h : h = flow[f]  OBVIOUS
<1>4. h \in Syncs  BY <1>2, <1>3, Kinds DEF Fine
<1>5. /\ h.cases \in [Cases -> Seq(Copy)] /\ h.folders \in SUBSET Folders
      /\ h.reqs \in SUBSET Reqs /\ h.runs \in [Flows -> {None} \cup SUBSET Cases]
  BY <1>2, <1>3, <1>4 DEF Syncs
<1>6. screen \in Screen  BY DEF Fine, Good
<1>7. PICK folders : folders = Counted(h.folders)  OBVIOUS
<1>8. folders \in [Folders -> Nat]  BY <1>7 DEF Counted
<1>9. PICK ids : ids = {Real(q) : q \in h.reqs} \cup Pending(screen)  OBVIOUS
<1>10. ids \in SUBSET Id  BY <1>5, <1>6, <1>9 DEF Pending, Real, Id, Screen
<1>11. PICK t : t = [screen EXCEPT !.cases = h.cases, !.folders = folders,
                                   !.runs = h.runs, !.reqs = ids]
  OBVIOUS
<1>12. /\ t \in Screen /\ t.cases = h.cases /\ t.folders = folders /\ t.runs = h.runs
       /\ t.reqs = ids
  BY <1>5, <1>6, <1>8, <1>10, <1>11 DEF Screen
<1>13. screen' = Reset(t)
  BY <1>3, <1>7, <1>9, <1>11 DEF ConfirmSync, Synced
<1>14. Good(screen') /\ SameContent(screen', t)  BY <1>12, <1>13, ResetGood
<1>15. Fine'  BY <1>1, <1>2, <1>14 DEF Fine
<1>16. QED  BY <1>1, <1>2, <1>3, <1>7, <1>9, <1>12, <1>14, <1>15 DEF SameContent

\* A flow that fails: with nothing written and nothing shown, or misled.
LEMMA FailFine ==
    ASSUME Fine, NEW f \in Flows, Fail(f)
    PROVE  /\ Fine' /\ UNCHANGED <<Server, screen>> /\ OthersAlike(f)
           /\ flow'[f] = Past /\ Pc(f) \in {"post", "link", "answered", "linked", "read"}
           /\ ~misled' => /\ ~misled /\ Pc(f) \in {"post", "read"}
                          /\ Op(f) # "require"
<1>1. /\ UNCHANGED <<Server, screen>> /\ End(f)
      /\ Pc(f) \in {"post", "link", "answered", "linked", "read"}
      /\ misled' = (misled \/ Pc(f) \in {"answered", "linked", "link"} \/ Op(f) = "require")
  BY DEF Fail, Op, Pc
<1>2. FlowTyped' /\ flow'[f] = Past /\ OthersAlike(f)  BY <1>1, Ends DEF Fine
<1>3. QED  BY <1>1, <1>2, ServerStays DEF Fine

\* Rows are added, and written by f only.
Grows(f) ==
    /\ \A c \in Cases : case[c] # None => case'[c] # None
    /\ \A c \in Cases \ {f} : case'[c] # None => case[c] # None
    /\ reqs \subseteq reqs' /\ reqs' \subseteq reqs \cup {f}
    /\ \A g \in Folders \ {f} : folder'[g] = folder[g]
    /\ \A r \in Flows \ {f} : run'[r] = run[r]
    /\ \A k \in links' : k \in links \/ (case[k[1]] # None /\ k[2] \in reqs)

\* What another flow g has not written stays unwritten by it.
WrittenBy(f) ==
    \A c \in Cases, g \in Flows \ {f} : case'[c] # None =>
        /\ \/ case[c] # None /\ case'[c].ver = case[c].ver
           \/ case'[c].ver # g
        /\ \/ case[c] # None /\ case'[c].comments[g] = case[c].comments[g]
           \/ case'[c].comments[g] = 0

\* Another client writes, and the screen is not told.
LEMMA OtherFine ==
    ASSUME Fine, NEW f \in Flows, Other(f)
    PROVE  /\ Fine' /\ UNCHANGED screen /\ OthersAlike(f) /\ misled'
           /\ flow'[f] = Past /\ Pc(f) = "idle"
           /\ Grows(f) /\ WrittenBy(f)
<1>1. /\ UNCHANGED <<run, screen>> /\ End(f) /\ misled' = TRUE /\ Pc(f) = "idle"
  BY DEF Other, Pc, Idle
<1>2. FlowTyped' /\ flow'[f] = Past /\ OthersAlike(f)  BY <1>1, Ends DEF Fine
<1>3. FolderRows \cup {None} \subseteq Folders \cup {None}  BY DEF FolderRows
<1>4. /\ case \in [Cases -> {None} \cup CaseRow]
      /\ folder \in [Folders -> Folders \cup {None, Missing}]
  BY DEF Fine, ServerTyped
<1>5. f \in Cases /\ f \in Folders /\ f \in Reqs  BY DEF Cases, Folders, Reqs
<1>6. ServerTyped' /\ Grows(f) /\ WrittenBy(f)
  <2>1. ASSUME NEW g \in FolderRows \cup {None}, Inserted(f, [ver |-> f, folder |-> g]),
               UNCHANGED <<folder, reqs, links>>
        PROVE  ServerTyped' /\ Grows(f) /\ WrittenBy(f)
    <3>1. PICK row : row = [ver |-> f, folder |-> g, archived |-> FALSE,
                            comments |-> NoComment]
      OBVIOUS
    <3>2. case' = [case EXCEPT ![f] = row]  BY <2>1, <3>1 DEF Inserted
    <3>3. NoComment \in Comments /\ \A h \in Flows : NoComment[h] = 0
      BY DEF NoComment, Comments
    <3>4. row \in CaseRow /\ row.ver = f /\ row.comments = NoComment
      BY <1>3, <3>1, <3>3 DEF CaseRow, Version
    <3>5. ServerTyped' /\ OnlyRow(f) /\ case'[f] = row
      BY <1>1, <1>5, <2>1, <3>2, <3>4, RowWritten
    <3>6. Grows(f)  BY <1>1, <2>1, <3>5 DEF OnlyRow, Grows
    <3>7. WrittenBy(f)  BY <3>3, <3>4, <3>5 DEF OnlyRow, WrittenBy
    <3>8. QED  BY <3>5, <3>6, <3>7
  <2>2. ASSUME NEW c \in Cases, NEW g \in FolderRows \cup {None}, case[c] # None,
               \/ case' = [case EXCEPT ![c].ver = f, ![c].folder = g]
               \/ case' = [case EXCEPT ![c].archived = TRUE]
               \/ case' = [case EXCEPT ![c].comments[f] = 1],
               UNCHANGED <<folder, reqs, links>>
        PROVE  ServerTyped' /\ Grows(f) /\ WrittenBy(f)
    <3>1. PICK old : old = case[c]  OBVIOUS
    <3>2. old \in CaseRow  BY <1>4, <2>2, <3>1
    <3>3. PICK said : said = [old.comments EXCEPT ![f] = 1]  OBVIOUS
    <3>4. /\ said \in Comments
          /\ \A h \in Flows \ {f} : said[h] = old.comments[h]
      BY <3>2, <3>3 DEF CaseRow, Comments
    <3>5. \E row \in CaseRow : /\ case' = [case EXCEPT ![c] = row]
                               /\ row.ver = f \/ row.ver = old.ver
                               /\ row.comments = said \/ row.comments = old.comments
      <4>1. CASE case' = [case EXCEPT ![c].ver = f, ![c].folder = g]
        <5>1. PICK row : row = [old EXCEPT !.ver = f, !.folder = g]  OBVIOUS
        <5>2. row \in CaseRow /\ row.ver = f /\ row.comments = old.comments
          BY <1>3, <3>2, <5>1 DEF CaseRow, Version
        <5>3. case' = [case EXCEPT ![c] = row]  BY <1>4, <2>2, <3>1, <4>1, <5>1
        <5>4. QED  BY <5>2, <5>3
      <4>2. CASE case' = [case EXCEPT ![c].archived = TRUE]
        <5>1. PICK row : row = [old EXCEPT !.archived = TRUE]  OBVIOUS
        <5>2. row \in CaseRow /\ row.ver = old.ver /\ row.comments = old.comments
          BY <3>2, <5>1 DEF CaseRow
        <5>3. case' = [case EXCEPT ![c] = row]  BY <3>1, <4>2, <5>1
        <5>4. QED  BY <5>2, <5>3
      <4>3. CASE case' = [case EXCEPT ![c].comments[f] = 1]
        <5>1. PICK row : row = [old EXCEPT !.comments = said]  OBVIOUS
        <5>2. row \in CaseRow /\ row.ver = old.ver /\ row.comments = said
          BY <3>2, <3>4, <5>1 DEF CaseRow
        <5>3. case' = [case EXCEPT ![c] = row]  BY <3>1, <3>3, <4>3, <5>1
        <5>4. QED  BY <5>2, <5>3
      <4>4. QED  BY <2>2, <4>1, <4>2, <4>3
    <3>6. PICK row \in CaseRow : /\ case' = [case EXCEPT ![c] = row]
                                 /\ row.ver = f \/ row.ver = old.ver
                                 /\ row.comments = said \/ row.comments = old.comments
      BY <3>5
    <3>7. ServerTyped' /\ OnlyRow(c) /\ case'[c] = row
      BY <1>1, <2>2, <3>6, RowWritten
    <3>8. Grows(f)  BY <1>1, <2>2, <3>7 DEF OnlyRow, Grows
    <3>9. WrittenBy(f)
      BY <2>2, <3>1, <3>4, <3>6, <3>7 DEF OnlyRow, WrittenBy
    <3>10. QED  BY <3>7, <3>8, <3>9
  <2>3. ASSUME NEW g \in FolderRows \cup {None}, folder' = [folder EXCEPT ![f] = g],
               UNCHANGED <<case, reqs, links>>
        PROVE  ServerTyped' /\ Grows(f) /\ WrittenBy(f)
    <3>1. /\ folder' \in [Folders -> Folders \cup {None, Missing}]
          /\ \A d \in Folders \ {f} : folder'[d] = folder[d]
      BY <1>3, <1>4, <1>5, <2>3
    <3>2. ServerTyped'  BY <1>1, <2>3, <3>1 DEF Fine, ServerTyped
    <3>3. Grows(f)  BY <1>1, <2>3, <3>1 DEF Grows
    <3>4. WrittenBy(f)  BY <2>3 DEF WrittenBy
    <3>5. QED  BY <3>2, <3>3, <3>4
  <2>4. ASSUME reqs' = reqs \cup {f}, UNCHANGED <<case, folder, links>>
        PROVE  ServerTyped' /\ Grows(f) /\ WrittenBy(f)
    <3>1. ServerTyped'  BY <1>1, <1>5, <2>4 DEF Fine, ServerTyped
    <3>2. Grows(f)  BY <1>1, <2>4 DEF Grows
    <3>3. WrittenBy(f)  BY <2>4 DEF WrittenBy
    <3>4. QED  BY <3>1, <3>2, <3>3
  <2>5. ASSUME NEW c \in Cases, NEW q \in reqs, case[c] # None,
               links' = links \cup {<<c, q>>}, UNCHANGED <<case, folder, reqs>>
        PROVE  ServerTyped' /\ Grows(f) /\ WrittenBy(f)
    <3>1. ServerTyped'  BY <1>1, <2>5 DEF Fine, ServerTyped
    <3>2. Grows(f)  BY <1>1, <2>5 DEF Grows
    <3>3. WrittenBy(f)  BY <2>5 DEF WrittenBy
    <3>4. QED  BY <3>1, <3>2, <3>3
  <2>6. QED  BY <2>1, <2>2, <2>3, <2>4, <2>5 DEF Other
<1>7. QED  BY <1>1, <1>2, <1>6 DEF Fine

-----------------------------------------------------------------------------
(* Rows and what refers to them *)

\* A flow whose call is not carried out.
Fresh(g) == Pc(g) \in {"idle", "post"}

\* Nothing has come of a flow whose call is not carried out.
Unwritten(g) ==
    Fresh(g) =>
        /\ case[g] = None /\ folder[g] = Missing /\ g \notin reqs /\ run[g] = None
        /\ \A c \in Cases : case[c] # None => case[c].ver # g /\ case[c].comments[g] = 0
        /\ \A c \in Cases : screen.cases[c] # <<>> => Head(screen.cases[c]).ver # g
        /\ \A h \in Flows : Op(h) = "sync" /\ flow[h].cases # None =>
              \A c \in Cases : flow[h].cases[c] # <<>> => Head(flow[h].cases[c]).ver # g
        /\ \A h \in Flows \ {g} : Op(h) = "create" => flow[h].new.ver # g

\* What refers to rows, refers to rows that are there.
Rooted ==
    /\ \A c \in Cases : screen.cases[c] # <<>> => case[c] # None
    /\ \A h \in Flows : Op(h) = "sync" =>
          /\ flow[h].cases # None => \A c \in Cases : flow[h].cases[c] # <<>> => case[c] # None
          /\ flow[h].reqs # None => flow[h].reqs \subseteq reqs
    /\ \A q \in Reqs : Real(q) \in screen.reqs => q \in reqs
    /\ \A q \in Reqs : Temp(q) \in screen.reqs => q \in Flows /\ Pc(q) # "idle"
    /\ \A k \in links : case[k[1]] # None /\ k[2] \in reqs
    /\ \A g \in Flows : case[g] # None => Pc(g) = "done" \/ At(g, "create", "answered")

\* The three hold together.
Settled == AllPlaced /\ Rooted /\ \A g \in Flows : Unwritten(g)

\* What a step of f has to keep of the screen,
ScreenRooted(f) ==
    /\ \A c \in Cases : screen'.cases[c] # <<>> => case'[c] # None
    /\ \A q \in Reqs : Real(q) \in screen'.reqs => q \in reqs'
    /\ \A q \in Reqs : Temp(q) \in screen'.reqs => Temp(q) \in screen.reqs \/ q = f
    /\ \A q \in Reqs \ {f} : Temp(q) \in screen.reqs => Temp(q) \in screen'.reqs
    /\ Temp(f) \in screen.reqs => Temp(f) \in screen'.reqs \/ f \in reqs'
\* of the copies,
HeadsFresh ==
    \A g \in Flows : Fresh(g) =>
        \A c \in Cases : screen'.cases[c] # <<>> => Head(screen'.cases[c]).ver # g
\* of the rows,
RowsFresh(f) ==
    \A g \in Flows : Fresh(g) /\ (g = f => flow'[f].pc = "post") =>
        /\ case'[g] = None /\ folder'[g] = Missing /\ g \notin reqs' /\ run'[g] = None
        /\ \A c \in Cases : case'[c] # None => case'[c].ver # g /\ case'[c].comments[g] = 0
\* and of the flow itself.
FlowSettled(f) ==
    LET x == flow'[f]
    IN /\ Placed(f)'
       /\ x.pc # "idle" /\ (x.pc = "post" => Fresh(f))
       /\ case'[f] # None => x.pc = "done" \/ (x.op = "create" /\ x.pc = "answered")
       /\ x.op = "sync" =>
             /\ x.cases # None => \A c \in Cases : x.cases[c] # <<>> =>
                   /\ case'[c] # None
                   /\ \A g \in Flows : Fresh(g) => Head(x.cases[c]).ver # g
             /\ x.reqs # None => x.reqs \subseteq reqs'
       /\ x.op = "create" => \A g \in Flows \ {f} : Fresh(g) => x.new.ver # g

\* It is kept by a step that keeps its parts.
LEMMA SettledStep ==
    ASSUME Fine, Settled, Fine', NEW f \in Flows, OthersAlike(f), Grows(f),
           ScreenRooted(f), HeadsFresh, RowsFresh(f), FlowSettled(f)
    PROVE  Settled'
<1>1. \A g \in Flows \ {f} :
         /\ flow'[g].op = flow[g].op /\ flow'[g].pc = flow[g].pc
         /\ flow'[g].case = flow[g].case /\ flow'[g].req = flow[g].req
         /\ flow'[g].was = flow[g].was /\ flow'[g].new = flow[g].new
         /\ flow[g].op = "sync" => flow'[g] = flow[g]
  BY DEF OthersAlike, Alike, AlikeFlow
<1>2. Placed(f)' /\ flow'[f].pc # "idle" /\ (flow'[f].pc = "post" => Fresh(f))
  BY DEF FlowSettled
<1>3. \A g \in Flows : flow'[g].pc \in {"idle", "post"} =>
         Fresh(g) /\ (g = f => flow'[f].pc = "post")
  BY <1>1, <1>2 DEF Fresh, Pc
<1>4. AllPlaced'
  <2>1. ASSUME NEW g \in Flows \ {f}  PROVE Placed(g)'
    <3>1. Placed(g)  BY DEF Settled, AllPlaced
    <3>2. Op(g) \in AboutCase =>
             (flow[g].case # None /\ case[flow[g].case] # None => case'[flow[g].case] # None)
      <4>1. ASSUME Op(g) \in AboutCase, flow[g].case # None
            PROVE  flow[g].case \in Cases
        BY <4>1, AboutRow DEF Settled
      <4>2. QED  BY <4>1 DEF Grows
    <3>3. Op(g)' = Op(g) /\ Pc(g)' = Pc(g)  BY <1>1 DEF Op, Pc
    <3>4. ASSUME Pc(g) = "wait"
          PROVE  /\ flow'[g].req \in Flows /\ Pc(flow[g].req)' # "idle"
                 /\ Temp(flow[g].req) \in screen'.reqs \/ flow[g].req \in reqs'
      <4>1. PICK q : q = flow[g].req  OBVIOUS
      <4>2. /\ q \in Flows /\ Pc(q) # "idle"
            /\ Temp(q) \in screen.reqs \/ q \in reqs
        BY <3>1, <3>4, <4>1 DEF Placed
      <4>3. Pc(q)' # "idle"  BY <1>1, <1>2, <4>2 DEF Pc
      <4>4. q \in Reqs  BY <4>2 DEF Reqs
      <4>5. Temp(q) \in screen'.reqs \/ q \in reqs'
        BY <4>2, <4>4 DEF ScreenRooted, Grows
      <4>6. QED  BY <1>1, <4>1, <4>2, <4>3, <4>5
    <3>5. Temp(g) \in screen.reqs => Temp(g) \in screen'.reqs
      BY DEF ScreenRooted, Reqs
    <3>6. \A q : q \in reqs => q \in reqs'  BY DEF Grows
    <3>7. case[g] # None => case'[g] # None  BY DEF Grows, Cases
    <3>8. QED
      BY <1>1, <3>1, <3>2, <3>3, <3>4, <3>5, <3>6, <3>7 DEF Placed, At, Op, Pc
  <2>2. QED  BY <1>2, <2>1 DEF AllPlaced
<1>5. Rooted'
  <2>1. \A c \in Cases : screen'.cases[c] # <<>> => case'[c] # None
    BY DEF ScreenRooted
  <2>2. ASSUME NEW h \in Flows, flow'[h].op = "sync"
        PROVE  /\ flow'[h].cases # None =>
                      \A c \in Cases : flow'[h].cases[c] # <<>> => case'[c] # None
               /\ flow'[h].reqs # None => flow'[h].reqs \subseteq reqs'
    <3>1. CASE h = f  BY <2>2, <3>1 DEF FlowSettled
    <3>2. CASE h # f
      <4>1. flow'[h] = flow[h] /\ Op(h) = "sync"  BY <1>1, <2>2, <3>2 DEF Op
      <4>2. QED  BY <4>1 DEF Settled, Rooted, Grows
    <3>3. QED  BY <3>1, <3>2
  <2>3. \A q \in Reqs : Real(q) \in screen'.reqs => q \in reqs'
    BY DEF ScreenRooted
  <2>4. ASSUME NEW q \in Reqs, Temp(q) \in screen'.reqs
        PROVE  q \in Flows /\ flow'[q].pc # "idle"
    <3>1. q = f \/ Temp(q) \in screen.reqs  BY <2>4 DEF ScreenRooted
    <3>2. q \in Flows /\ (q = f \/ Pc(q) # "idle")  BY <3>1 DEF Settled, Rooted
    <3>3. QED  BY <1>1, <1>2, <3>2 DEF Pc
  <2>5. \A k \in links' : case'[k[1]] # None /\ k[2] \in reqs'
    <3>1. ASSUME NEW k \in links'  PROVE case[k[1]] # None /\ k[2] \in reqs
      BY DEF Grows, Settled, Rooted
    <3>2. \A k \in links' : k[1] \in Cases  BY DEF Fine, ServerTyped
    <3>3. QED  BY <3>1, <3>2 DEF Grows
  <2>6. ASSUME NEW g \in Flows, case'[g] # None
        PROVE  flow'[g].pc = "done" \/ At(g, "create", "answered")'
    <3>1. CASE g = f  BY <2>6, <3>1 DEF FlowSettled, At
    <3>2. CASE g # f
      <4>1. case[g] # None  BY <2>6, <3>2 DEF Grows, Cases
      <4>2. Pc(g) = "done" \/ At(g, "create", "answered")  BY <4>1 DEF Settled, Rooted
      <4>3. QED  BY <1>1, <3>2, <4>2 DEF Pc, At
    <3>3. QED  BY <3>1, <3>2
  <2>7. QED  BY <2>1, <2>2, <2>3, <2>4, <2>5, <2>6 DEF Rooted, Op, Pc
<1>6. ASSUME NEW g \in Flows  PROVE Unwritten(g)'
  <2>1. SUFFICES ASSUME flow'[g].pc \in {"idle", "post"}
                 PROVE  Unwritten(g)'
    BY DEF Unwritten, Fresh, Pc
  <2>2. Fresh(g) /\ (g = f => flow'[f].pc = "post")  BY <1>3, <2>1
  <2>3. /\ case'[g] = None /\ folder'[g] = Missing /\ g \notin reqs' /\ run'[g] = None
        /\ \A c \in Cases : case'[c] # None => case'[c].ver # g /\ case'[c].comments[g] = 0
    BY <2>2 DEF RowsFresh
  <2>4. \A c \in Cases : screen'.cases[c] # <<>> => Head(screen'.cases[c]).ver # g
    BY <2>2 DEF HeadsFresh
  <2>5. ASSUME NEW h \in Flows, flow'[h].op = "sync", flow'[h].cases # None,
               NEW c \in Cases, flow'[h].cases[c] # <<>>
        PROVE  Head(flow'[h].cases[c]).ver # g
    <3>1. CASE h = f  BY <2>2, <2>5, <3>1 DEF FlowSettled
    <3>2. CASE h # f
      <4>1. flow'[h] = flow[h] /\ Op(h) = "sync"  BY <1>1, <2>5, <3>2 DEF Op
      <4>2. QED  BY <2>2, <2>5, <4>1 DEF Settled, Unwritten
    <3>3. QED  BY <3>1, <3>2
  <2>6. ASSUME NEW h \in Flows \ {g}, flow'[h].op = "create"
        PROVE  flow'[h].new.ver # g
    <3>1. CASE h = f  BY <2>2, <2>6, <3>1 DEF FlowSettled
    <3>2. CASE h # f
      <4>1. flow'[h].new = flow[h].new /\ Op(h) = "create"  BY <1>1, <2>6, <3>2 DEF Op
      <4>2. QED  BY <2>2, <2>6, <4>1 DEF Settled, Unwritten
    <3>3. QED  BY <3>1, <3>2
  <2>7. QED  BY <2>3, <2>4, <2>5, <2>6 DEF Unwritten, Op
<1>7. QED  BY <1>4, <1>5, <1>6 DEF Settled

\* A screen that shows the same.
LEMMA SameScreen ==
    ASSUME Fine, Settled, NEW f \in Flows, Grows(f), SameContent(screen', screen)
    PROVE  ScreenRooted(f) /\ HeadsFresh
<1>1. ScreenRooted(f)  BY DEF Settled, Rooted, Grows, SameContent, ScreenRooted
<1>2. HeadsFresh  BY DEF Settled, Unwritten, SameContent, HeadsFresh
<1>3. QED  BY <1>1, <1>2

\* A server that has not changed.
LEMMA SameRows ==
    ASSUME Fine, Settled, NEW f \in Flows, UNCHANGED Server
    PROVE  Grows(f) /\ RowsFresh(f)
<1>1. Grows(f)  BY DEF Server, Grows
<1>2. RowsFresh(f)  BY DEF Settled, Unwritten, Server, RowsFresh
<1>3. QED  BY <1>1, <1>2

\* A flow that ends.
LEMMA EndSettled ==
    ASSUME NEW f \in Flows, flow'[f] = Past
    PROVE  FlowSettled(f)
<1>1. flow'[f].op = "none" /\ flow'[f].pc = "done"  BY DEF Past
<1>2. Placed(f)'  BY <1>1 DEF Placed, At, Op, Pc, AboutCase
<1>3. QED  BY <1>1, <1>2 DEF FlowSettled

\* A command that the server has carried out is placed so.
LEMMA QuietSettled ==
    ASSUME Fine, Settled, NEW f \in Flows, Quiet(f)
    PROVE  Settled'
<1>1. /\ Fine' /\ SameContent(screen', screen) /\ UNCHANGED Server
      /\ Begun(f) /\ OthersAlike(f)
  BY QuietFine
<1>2. Grows(f) /\ RowsFresh(f)  BY <1>1, SameRows
<1>3. ScreenRooted(f) /\ HeadsFresh  BY <1>1, <1>2, SameScreen
<1>4. PICK x : x = flow'[f]  OBVIOUS
<1>5. /\ Pc(f) = "idle"
      /\ x.op \in {"create", "folder", "save", "delete", "comment", "run", "sync"}
      /\ x.pc = IF x.op = "sync" THEN "read" ELSE "post"
      /\ x.op = "create" => NewOrCopy(f, x.new)
      /\ x.op \in {"save", "delete", "comment"} => x.case \in ListedCases(screen)
      /\ x.op = "save" =>
            /\ x.was = screen.cases[x.case] /\ x.new # None
            /\ x.new = Typed(Head(x.was), f, x.new.folder, x.new.local)
      /\ x.op = "sync" => x.cases = None /\ x.reqs = None
  BY <1>1, <1>4, NoneAssumption DEF Begun
<1>6. \A c \in ListedCases(screen) :
         /\ c \in Cases /\ c # None /\ case[c] # None /\ case'[c] # None
         /\ screen.cases[c] # <<>>
  BY <1>1, CaseScreenAssumption DEF Settled, Rooted, ListedCases, Server
<1>7. /\ x.op = "save" => x.was # <<>>
      /\ x.op = "create" => x.new # None
  BY <1>5, <1>6, NoneAssumption DEF NewOrCopy
<1>8. Placed(f)'
  BY <1>4, <1>5, <1>6, <1>7 DEF Placed, At, Op, Pc, AboutCase
<1>9. x.op = "create" => \A g \in Flows \ {f} : Fresh(g) => x.new.ver # g
  <2>1. ASSUME x.op = "create", NEW g \in Flows \ {f}, Fresh(g)  PROVE x.new.ver # g
    <3>1. CASE x.new.ver = f  BY <3>1
    <3>2. ASSUME NEW c \in ListedCases(screen),
                 x.new = [Head(screen.cases[c]) EXCEPT !.reqs = {}, !.local = FALSE]
          PROVE  x.new.ver # g
      <4>1. screen.cases[c] \in Seq(Copy) /\ screen.cases[c] # <<>> /\ c \in Cases
        BY <1>6 DEF Fine, Good, Screen
      <4>2. Head(screen.cases[c]) \in Copy  BY <4>1, HeadIn
      <4>3. x.new.ver = Head(screen.cases[c]).ver  BY <3>2, <4>2 DEF Copy
      <4>4. QED  BY <2>1, <4>1, <4>3 DEF Settled, Unwritten
    <3>3. QED  BY <1>5, <2>1, <3>1, <3>2 DEF NewOrCopy
  <2>2. QED  BY <2>1
<1>10. case'[f] = None
  BY <1>1, <1>5 DEF Settled, Unwritten, Fresh, Server
<1>11. FlowSettled(f)
  BY <1>4, <1>5, <1>8, <1>9, <1>10 DEF FlowSettled, Fresh
<1>12. QED  BY <1>1, <1>2, <1>3, <1>11, SettledStep

\* The first copies keep their ver.
SameVers ==
    \A c \in Cases : /\ screen'.cases[c] # <<>> => screen.cases[c] # <<>>
                     /\ screen'.cases[c] # <<>> =>
                           Head(screen'.cases[c]).ver = Head(screen.cases[c]).ver

\* Copies of the versions that were there are of no flow to come.
LEMMA SameVersFresh ==
    ASSUME Settled, SameVers
    PROVE  HeadsFresh
BY DEF Settled, Unwritten, SameVers, HeadsFresh

\* The first copy of a case is a copy.
LEMMA HeadTyped ==
    ASSUME Fine, NEW c \in Cases, screen.cases[c] # <<>>
    PROVE  Head(screen.cases[c]) \in Copy
<1>1. screen.cases[c] \in Seq(Copy)  BY DEF Fine, Good, Screen
<1>2. QED  BY <1>1, HeadIn

\* Copies replaced by ones of the same version.
LEMMA InPlaceVers ==
    ASSUME NEW c, NEW new, InPlace(c, new),
           screen.cases[c] # <<>> => new.ver = Head(screen.cases[c]).ver
    PROVE  SameVers
BY DEF InPlace, SameVers

\* A link that is shown before it is made refers to what is there.
LEMMA LinksSettled ==
    ASSUME Fine, Settled, NEW f \in Flows, CreateRequirement(f) \/ LinkRequirement(f)
    PROVE  Settled'
<1>1. /\ Fine' /\ UNCHANGED Server /\ OthersAlike(f) /\ Pc(f) = "idle"
      /\ flow'[f].case \in ListedCases(screen)
  BY CreateRequirementFine, LinkRequirementFine
<1>2. Grows(f) /\ RowsFresh(f)  BY <1>1, SameRows
<1>3. PICK c : c = flow'[f].case  OBVIOUS
<1>4. c \in Cases /\ c # None /\ case[c] # None /\ case'[c] # None /\ screen.cases[c] # <<>>
  BY <1>1, <1>3, CaseScreenAssumption DEF Settled, Rooted, ListedCases, Server
<1>5. Head(screen.cases[c]) \in Copy  BY <1>4, HeadTyped
<1>6. case'[f] = None  BY <1>1 DEF Settled, Unwritten, Fresh, Server
<1>7. f \in Reqs /\ Temp(f) \in Id  BY Ids DEF Reqs
<1>8. CASE CreateRequirement(f)
  <2>1. /\ flow'[f].op = "require" /\ flow'[f].pc = "post" /\ flow'[f].req = f
        /\ screen'.reqs = screen.reqs \cup {Temp(f)}
        /\ InPlace(c, LinkedTo(Head(screen.cases[c]), Temp(f)))
    BY <1>3, <1>8, CreateRequirementFine
  <2>2. SameVers  BY <1>5, <1>7, <2>1, LinkedTyped, InPlaceVers
  <2>3. \A d \in Cases : screen'.cases[d] # <<>> => screen.cases[d] # <<>>
    BY <2>2 DEF SameVers
  <2>4. \A q \in Reqs : /\ Real(q) \in screen'.reqs <=> Real(q) \in screen.reqs
                        /\ Temp(q) \in screen'.reqs <=> Temp(q) \in screen.reqs \/ q = f
    BY <2>1, Ids
  <2>5. ScreenRooted(f)
    BY <1>1, <1>7, <2>3, <2>4 DEF Settled, Rooted, ScreenRooted, Server
  <2>6. Placed(f)'
    BY <1>3, <1>4, <2>1 DEF Placed, At, Op, Pc, AboutCase
  <2>7. FlowSettled(f)  BY <1>1, <1>6, <2>1, <2>6 DEF FlowSettled, Fresh
  <2>8. QED  BY <1>1, <1>2, <2>2, <2>5, <2>7, SameVersFresh, SettledStep
<1>9. CASE LinkRequirement(f)
  <2>1. /\ flow'[f].op = "link" /\ flow'[f].req \in Reqs /\ screen'.reqs = screen.reqs
    BY <1>9, LinkRequirementFine
  <2>2. PICK q \in screen.reqs :
           /\ q \in Id /\ q[1] = flow'[f].req
           /\ flow'[f].pc = IF q[2] = "real" THEN "link" ELSE "wait"
           /\ q = IF q[2] = "real" THEN Real(q[1]) ELSE Temp(q[1])
           /\ InPlace(c, LinkedTo(Head(screen.cases[c]), q))
    BY <1>3, <1>9, LinkRequirementFine
  <2>3. SameVers  BY <1>5, <2>2, LinkedTyped, InPlaceVers
  <2>4. \A d \in Cases : screen'.cases[d] # <<>> => screen.cases[d] # <<>>
    BY <2>3 DEF SameVers
  <2>5. ScreenRooted(f)
    BY <1>1, <1>7, <2>1, <2>4 DEF Settled, Rooted, ScreenRooted, Server
  <2>6. PICK r : r = flow'[f].req  OBVIOUS
  <2>7. ASSUME q[2] = "real"  PROVE FlowSettled(f)
    <3>1. flow'[f].pc = "link" /\ r \in reqs  BY <2>1, <2>2, <2>6, <2>7 DEF Settled, Rooted
    <3>2. r # None /\ r \in reqs'
      BY <1>1, <2>1, <2>6, <3>1, CaseScreenAssumption DEF Server
    <3>3. Placed(f)'
      BY <1>3, <1>4, <2>1, <2>6, <3>1, <3>2 DEF Placed, At, Op, Pc, AboutCase
    <3>4. QED  BY <1>6, <2>1, <3>1, <3>3 DEF FlowSettled
  <2>8. ASSUME q[2] # "real"  PROVE FlowSettled(f)
    <3>1. flow'[f].pc = "wait" /\ Temp(r) \in screen'.reqs
      BY <2>1, <2>2, <2>6, <2>8
    <3>2. r \in Flows /\ Pc(r) # "idle" /\ r # None
      BY <2>1, <2>2, <2>6, <2>8, CaseScreenAssumption DEF Settled, Rooted
    <3>3. Pc(r)' # "idle"
      BY <1>1, <3>1, <3>2 DEF OthersAlike, Alike, AlikeFlow, Pc
    <3>4. Placed(f)'
      BY <1>3, <1>4, <2>1, <2>6, <3>1, <3>2, <3>3 DEF Placed, At, Op, Pc, AboutCase
    <3>5. QED  BY <1>6, <2>1, <3>1, <3>4 DEF FlowSettled
  <2>9. FlowSettled(f)  BY <2>7, <2>8
  <2>10. QED  BY <1>1, <1>2, <2>3, <2>5, <2>9, SameVersFresh, SettledStep
<1>10. QED  BY <1>8, <1>9

\* The calls that have come to the server.
Serves(f) ==
    InsertCase(f) \/ InsertFolder(f) \/ PatchCase(f) \/ ArchiveCase(f)
    \/ InsertComment(f) \/ InsertRequirement(f) \/ InsertLink(f) \/ InsertRun(f)

\* A row that the flow of its own call has written.
LEMMA RowFresh ==
    ASSUME Fine, Settled, NEW f \in Flows, NEW c, OnlyRow(c), Pc(f)' # "post",
           UNCHANGED <<folder, reqs, run>>, c = f \/ case[c] # None,
           \A g \in Flows \ {f} : Fresh(g) =>
               case'[c].ver # g /\ case'[c].comments[g] = 0
    PROVE  RowsFresh(f)
<1>1. ASSUME NEW g \in Flows \ {f}, Fresh(g)
      PROVE  /\ case'[g] = None /\ folder'[g] = Missing /\ g \notin reqs' /\ run'[g] = None
             /\ \A d \in Cases : case'[d] # None => case'[d].ver # g /\ case'[d].comments[g] = 0
  <2>1. /\ case[g] = None /\ folder[g] = Missing /\ g \notin reqs /\ run[g] = None
        /\ \A d \in Cases : case[d] # None => case[d].ver # g /\ case[d].comments[g] = 0
    BY <1>1 DEF Settled, Unwritten
  <2>2. g # c /\ g \in Cases  BY <2>1 DEF Cases
  <2>3. QED  BY <1>1, <2>1, <2>2 DEF OnlyRow
<1>2. QED  BY <1>1 DEF RowsFresh, Pc

\* A flow that has been answered, or has been linked, is placed so.
LEMMA OnwardPlaced ==
    ASSUME Fine, Settled, NEW f \in Flows, Pc(f) \in {"post", "link"}, Grows(f),
           UNCHANGED screen, Onward(f, IF Pc(f) = "link" THEN "linked" ELSE "answered"),
           Op(f) = "require" /\ Pc(f) = "post" => f \in reqs',
           Op(f) = "create" => case'[f] # None
    PROVE  Placed(f)'
<1>1. Placed(f)  BY DEF Settled, AllPlaced
<1>2. Op(f) \in CommandOps  BY Kinds DEF Fine
<1>3. Op(f) \in AboutCase =>
         flow[f].case # None /\ case'[flow[f].case] # None
  <2>1. ASSUME Op(f) \in AboutCase
        PROVE  flow[f].case # None /\ case'[flow[f].case] # None
    <3>1. flow[f].case \in Cases /\ case[flow[f].case] # None /\ flow[f].case # None
      BY <1>1, <2>1, AboutRow DEF Settled, Placed
    <3>2. QED  BY <3>1 DEF Grows
  <2>2. QED  BY <2>1
<1>4. \A q : q \in reqs => q \in reqs'  BY DEF Grows
<1>5. /\ Op(f)' = Op(f) /\ flow'[f].case = flow[f].case /\ flow'[f].req = flow[f].req
      /\ flow'[f].was = flow[f].was /\ flow'[f].new = flow[f].new
      /\ Pc(f)' = IF Pc(f) = "link" THEN "linked" ELSE "answered"
  BY DEF Onward, Op, Pc
<1>6. CASE Pc(f) = "link"
  <2>1. Op(f) \in {"require", "link"} /\ flow[f].req \in reqs /\ Pc(f)' = "linked"
    BY <1>1, <1>2, <1>5, <1>6 DEF Placed, CommandOps
  <2>2. QED
    BY <1>1, <1>3, <1>4, <1>5, <2>1 DEF Placed, At, Op, Pc, AboutCase
<1>7. CASE Pc(f) = "post"
  <2>1. Op(f) # "link" /\ Pc(f)' = "answered"  BY <1>1, <1>5, <1>7 DEF Placed
  <2>2. Op(f) = "require" => Temp(f) \in screen'.reqs /\ f \in reqs'
    BY <1>1, <1>7 DEF Placed
  <2>3. QED
    BY <1>1, <1>3, <1>4, <1>5, <1>7, <2>1, <2>2 DEF Placed, At, Op, Pc, AboutCase
<1>8. QED  BY <1>6, <1>7

\* A flow that the server has answered has what comes of its call.
LEMMA OnwardSettled ==
    ASSUME Fine, Settled, NEW f \in Flows, Pc(f) \in {"post", "link"}, Grows(f),
           UNCHANGED screen, Onward(f, IF Pc(f) = "link" THEN "linked" ELSE "answered"),
           Op(f) = "require" /\ Pc(f) = "post" => f \in reqs',
           case'[f] # None <=> Op(f) = "create"
    PROVE  FlowSettled(f)
<1>1. Placed(f)'  BY OnwardPlaced
<1>2. Op(f) # "sync"  BY Kinds DEF Fine
<1>3. /\ flow'[f].op = Op(f) /\ flow'[f].new = flow[f].new
      /\ flow'[f].pc = IF Pc(f) = "link" THEN "linked" ELSE "answered"
  BY DEF Onward, Op, Pc
<1>4. Op(f) = "create" => \A g \in Flows \ {f} : Fresh(g) => flow[f].new.ver # g
  BY DEF Settled, Unwritten
<1>5. Op(f) = "create" => Pc(f) = "post"  BY DEF Settled, AllPlaced, Placed
<1>6. QED  BY <1>1, <1>2, <1>3, <1>4, <1>5 DEF FlowSettled

\* A call that is carried out.
LEMMA ServesSettled ==
    ASSUME Fine, Settled, NEW f \in Flows, Serves(f)
    PROVE  Settled'
<1>1. AllPlaced /\ f \in Cases /\ f \in Folders /\ f \in Reqs
  BY DEF Settled, Cases, Folders, Reqs
<1>2. SUFFICES ASSUME Pc(f) \in {"post", "link"}, Fine', OthersAlike(f), UNCHANGED screen,
                      Onward(f, IF Pc(f) = "link" THEN "linked" ELSE "answered")
               PROVE  /\ Grows(f) /\ RowsFresh(f)
                      /\ Op(f) = "require" /\ Pc(f) = "post" => f \in reqs'
                      /\ case'[f] # None <=> Op(f) = "create"
  <2>1. /\ Pc(f) \in {"post", "link"} /\ Fine' /\ OthersAlike(f) /\ UNCHANGED screen
        /\ Onward(f, IF Pc(f) = "link" THEN "linked" ELSE "answered")
    BY <1>1, InsertCaseFine, InsertFolderFine, PatchCaseFine, ArchiveCaseFine,
       InsertCommentFine, InsertRequirementFine, InsertLinkFine, InsertRunFine
    DEF Serves, At, Pc
  <2>2. ASSUME Grows(f), RowsFresh(f),
               Op(f) = "require" /\ Pc(f) = "post" => f \in reqs',
               case'[f] # None <=> Op(f) = "create"
        PROVE  Settled'
    <3>1. SameContent(screen', screen)  BY <2>1 DEF SameContent
    <3>2. ScreenRooted(f) /\ HeadsFresh  BY <2>2, <3>1, SameScreen
    <3>3. FlowSettled(f)  BY <2>1, <2>2, OnwardSettled
    <3>4. QED  BY <2>1, <2>2, <3>2, <3>3, SettledStep
  <2>3. QED  BY <2>1, <2>2
<1>3. Pc(f)' # "post" /\ flow'[f].pc # "post"  BY <1>2 DEF Onward, Pc
<1>4. \A g \in Flows \ {f} : Fresh(g) =>
         /\ case[g] = None /\ folder[g] = Missing /\ g \notin reqs /\ run[g] = None
         /\ \A d \in Cases : case[d] # None => case[d].ver # g /\ case[d].comments[g] = 0
  BY DEF Settled, Unwritten
<1>5. case[f] = None
  BY <1>2 DEF Settled, Rooted, Unwritten, Fresh, At, Pc
<1>6. CASE InsertCase(f)
  <2>1. /\ UNCHANGED <<folder, reqs, links, run>> /\ OnlyRow(f) /\ At(f, "create", "post")
        /\ case'[f].ver = flow[f].new.ver /\ case'[f].comments = NoComment
    BY <1>1, <1>6, InsertCaseFine
  <2>2. \A g \in Flows \ {f} : Fresh(g) => flow[f].new.ver # g
    BY <2>1 DEF Settled, Unwritten, At, Op
  <2>3. \A g \in Flows : NoComment[g] = 0  BY DEF NoComment
  <2>4. RowsFresh(f)  BY <1>3, <2>1, <2>2, <2>3, RowFresh
  <2>5. Grows(f)  BY <2>1 DEF OnlyRow, Grows
  <2>6. QED  BY <2>1, <2>4, <2>5 DEF At, Op, Pc, OnlyRow
<1>7. CASE InsertFolder(f)
  <2>1. /\ UNCHANGED <<case, reqs, links, run>> /\ At(f, "folder", "post")
        /\ \A g \in Folders \ {f} : folder'[g] = folder[g]
    BY <1>7, InsertFolderFine
  <2>2. RowsFresh(f)  BY <1>3, <1>4, <2>1 DEF RowsFresh, Folders
  <2>3. Grows(f)  BY <2>1 DEF Grows
  <2>4. QED  BY <1>5, <2>1, <2>2, <2>3 DEF At, Op, Pc
<1>8. CASE PatchCase(f)
  <2>1. /\ UNCHANGED <<folder, reqs, links, run>> /\ At(f, "save", "post")
        /\ OnlyRow(flow[f].case)
    BY <1>1, <1>8, PatchCaseFine
  <2>2. PICK c : /\ c = flow[f].case /\ case[c] # None /\ case'[c].ver = flow[f].new.ver
                 /\ flow[f].new.ver = f /\ case'[c].comments = case[c].comments
    BY <1>1, <1>8, PatchCaseFine
  <2>3. c \in Cases  BY <2>1, <2>2 DEF OnlyRow
  <2>4. RowsFresh(f)  BY <1>3, <1>4, <2>1, <2>2, <2>3, RowFresh
  <2>5. Grows(f)  BY <2>1, <2>2, <2>3 DEF OnlyRow, Grows
  <2>6. case'[f] = None  BY <1>1, <1>5, <2>1, <2>2 DEF OnlyRow
  <2>7. QED  BY <2>1, <2>4, <2>5, <2>6 DEF At, Op, Pc
<1>9. CASE ArchiveCase(f)
  <2>1. /\ UNCHANGED <<folder, reqs, links, run>> /\ At(f, "delete", "post")
        /\ OnlyRow(flow[f].case)
    BY <1>1, <1>9, ArchiveCaseFine
  <2>2. PICK c : /\ c = flow[f].case /\ case[c] # None /\ case'[c].ver = case[c].ver
                 /\ case'[c].comments = case[c].comments
    BY <1>1, <1>9, ArchiveCaseFine
  <2>3. c \in Cases  BY <2>1, <2>2 DEF OnlyRow
  <2>4. RowsFresh(f)  BY <1>3, <1>4, <2>1, <2>2, <2>3, RowFresh
  <2>5. Grows(f)  BY <2>1, <2>2, <2>3 DEF OnlyRow, Grows
  <2>6. case'[f] = None  BY <1>1, <1>5, <2>1, <2>2 DEF OnlyRow
  <2>7. QED  BY <2>1, <2>4, <2>5, <2>6 DEF At, Op, Pc
<1>10. CASE InsertComment(f)
  <2>1. /\ UNCHANGED <<folder, reqs, links, run>> /\ At(f, "comment", "post")
        /\ OnlyRow(flow[f].case)
    BY <1>1, <1>10, InsertCommentFine
  <2>2. PICK c : /\ c = flow[f].case /\ case[c] # None /\ case'[c].ver = case[c].ver
                 /\ \A g \in Flows \ {f} : case'[c].comments[g] = case[c].comments[g]
    BY <1>1, <1>10, InsertCommentFine
  <2>3. c \in Cases  BY <2>1, <2>2 DEF OnlyRow
  <2>4. RowsFresh(f)  BY <1>3, <1>4, <2>1, <2>2, <2>3, RowFresh
  <2>5. Grows(f)  BY <2>1, <2>2, <2>3 DEF OnlyRow, Grows
  <2>6. case'[f] = None  BY <1>1, <1>5, <2>1, <2>2 DEF OnlyRow
  <2>7. QED  BY <2>1, <2>4, <2>5, <2>6 DEF At, Op, Pc
<1>11. CASE InsertRequirement(f)
  <2>1. /\ UNCHANGED <<case, folder, links, run>> /\ At(f, "require", "post")
        /\ reqs' = reqs \cup {f}
    BY <1>11, InsertRequirementFine
  <2>2. RowsFresh(f)  BY <1>3, <1>4, <2>1 DEF RowsFresh
  <2>3. Grows(f)  BY <2>1 DEF Grows
  <2>4. QED  BY <1>5, <2>1, <2>2, <2>3 DEF At, Op
<1>12. CASE InsertLink(f)
  <2>1. /\ UNCHANGED <<case, folder, reqs, run>>
        /\ Op(f) \in {"require", "link"} /\ Pc(f) = "link"
        /\ links' = links \cup {<<flow[f].case, flow[f].req>>}
    BY <1>1, <1>12, InsertLinkFine
  <2>2. RowsFresh(f)  BY <1>3, <1>4, <2>1 DEF RowsFresh
  <2>3. case[flow[f].case] # None /\ flow[f].req \in reqs
    BY <1>1, <2>1 DEF AllPlaced, Placed, AboutCase
  <2>4. Grows(f)  BY <2>1, <2>3 DEF Grows
  <2>5. QED  BY <1>5, <2>1, <2>2, <2>4
<1>13. CASE InsertRun(f)
  <2>1. /\ UNCHANGED <<case, folder, reqs, links>> /\ At(f, "run", "post")
        /\ \A r \in Flows \ {f} : run'[r] = run[r]
    BY <1>13, InsertRunFine
  <2>2. RowsFresh(f)  BY <1>3, <1>4, <2>1 DEF RowsFresh
  <2>3. Grows(f)  BY <2>1 DEF Grows
  <2>4. QED  BY <1>5, <2>1, <2>2, <2>3 DEF At, Op
<1>14. QED
  BY <1>6, <1>7, <1>8, <1>9, <1>10, <1>11, <1>12, <1>13 DEF Serves

\* A click that calls nothing.
LEMMA BrowseSettled ==
    ASSUME Fine, Settled, Browse
    PROVE  Settled'
<1>1. SameContent(screen', screen) /\ UNCHANGED <<Server, flow>>  BY BrowseFine
<1>2. AllPlaced'
  BY <1>1 DEF Settled, AllPlaced, Placed, SameContent, Server, Op, Pc, At
<1>3. Rooted'  BY <1>1 DEF Settled, Rooted, SameContent, Server, Op, Pc, At
<1>4. \A g \in Flows : Unwritten(g)'
  BY <1>1 DEF Settled, Unwritten, SameContent, Server, Op, Pc, Fresh
<1>5. QED  BY <1>2, <1>3, <1>4 DEF Settled

\* What the screen shows is of rows that are there, and of what is settled.
LEMMA ShownSettled ==
    ASSUME Fine, Settled, Fine', NEW f \in Flows, OthersAlike(f), UNCHANGED Server,
           flow'[f] = Past, HeadsFresh,
           \A c \in Cases : screen'.cases[c] # <<>> => case[c] # None,
           screen'.reqs = screen.reqs
    PROVE  Settled'
<1>1. Grows(f) /\ RowsFresh(f)  BY SameRows
<1>2. f \in Reqs  BY DEF Reqs
<1>3. ScreenRooted(f)  BY DEF ScreenRooted, Settled, Rooted, Server
<1>4. FlowSettled(f)  BY EndSettled
<1>5. QED  BY <1>1, <1>3, <1>4, SettledStep

\* An answer that is shown.
LEMMA ConfirmsSettled ==
    ASSUME Fine, Settled, NEW f \in Flows,
           \/ ConfirmCreate(f) \/ ConfirmFolder(f) \/ ConfirmSave(f)
           \/ ConfirmDelete(f) \/ ConfirmComment(f) \/ ConfirmRun(f)
    PROVE  Settled'
<1>1. AllPlaced  BY DEF Settled
<1>2. SUFFICES
        ASSUME Fine', OthersAlike(f), UNCHANGED Server, flow'[f] = Past, ~Fresh(f)
        PROVE  /\ screen'.reqs = screen.reqs
               /\ \A c \in Cases : screen'.cases[c] # <<>> =>
                     /\ case[c] # None
                     /\ \A g \in Flows : Fresh(g) => Head(screen'.cases[c]).ver # g
  <2>1. Fine' /\ OthersAlike(f) /\ UNCHANGED Server /\ flow'[f] = Past /\ ~Fresh(f)
    BY <1>1, ConfirmCreateFine, ConfirmFolderFine, ConfirmSaveFine, ConfirmDeleteFine,
       ConfirmCommentFine, ConfirmRunFine
    DEF At, Fresh, Pc
  <2>2. ASSUME screen'.reqs = screen.reqs,
               \A c \in Cases : screen'.cases[c] # <<>> =>
                     /\ case[c] # None
                     /\ \A g \in Flows : Fresh(g) => Head(screen'.cases[c]).ver # g
        PROVE  Settled'
    <3>1. HeadsFresh  BY <2>2 DEF HeadsFresh
    <3>2. QED  BY <2>1, <2>2, <3>1, ShownSettled
  <2>3. QED  BY <2>1, <2>2
<1>3. \A c \in Cases : screen.cases[c] # <<>> =>
         /\ case[c] # None
         /\ \A g \in Flows : Fresh(g) => Head(screen.cases[c]).ver # g
  BY DEF Settled, Rooted, Unwritten
<1>4. CASE ConfirmCreate(f)
  <2>1. /\ At(f, "create", "answered") /\ flow[f].new \in Copy
        /\ CopiesOf(f, Append(screen.cases[f], flow[f].new))
    BY <1>1, <1>4, ConfirmCreateFine
  <2>2. f \in Cases /\ screen.cases[f] \in Seq(Copy)
    BY DEF Cases, Fine, Good, Screen
  <2>3. PICK old, new : old = screen.cases[f] /\ new = flow[f].new  OBVIOUS
  <2>4. PICK e : e = Append(old, new)  OBVIOUS
  <2>5. /\ old # <<>> => Head(e) = Head(old)
        /\ old = <<>> => Head(e) = new
    BY <2>1, <2>2, <2>3, <2>4, AppendHead
  <2>6. \A g \in Flows : Fresh(g) => new.ver # g
    BY <1>2, <2>1, <2>3 DEF Settled, Unwritten, At, Op
  <2>7. CopiesOf(f, e) /\ screen'.cases[f] = e  BY <2>1, <2>3, <2>4 DEF CopiesOf
  <2>8. \A g \in Flows : Fresh(g) => Head(e).ver # g
    BY <1>3, <2>2, <2>3, <2>5, <2>6
  <2>9. case[f] # None  BY <1>1, <2>1 DEF AllPlaced, Placed
  <2>10. QED  BY <1>3, <2>7, <2>8, <2>9 DEF CopiesOf
<1>5. CASE ConfirmFolder(f) \/ ConfirmRun(f)
  <2>1. screen'.cases = screen.cases /\ screen'.reqs = screen.reqs
    BY <1>5, ConfirmFolderFine, ConfirmRunFine
  <2>2. QED  BY <1>3, <2>1
<1>6. CASE ConfirmSave(f)
  <2>1. /\ At(f, "save", "answered") /\ screen'.reqs = screen.reqs
        /\ InPlace(flow[f].case, flow[f].new)
    BY <1>1, <1>6, ConfirmSaveFine
  <2>2. flow[f].new.ver = f  BY <1>1, <2>1, SaveTyped DEF At, Op, Fine
  <2>3. QED  BY <1>2, <1>3, <2>1, <2>2 DEF InPlace
<1>7. CASE ConfirmDelete(f)
  <2>1. /\ screen'.cases[flow[f].case] = <<>> /\ screen'.reqs = screen.reqs
        /\ \A c \in Cases \ {flow[f].case} : screen'.cases[c] = screen.cases[c]
    BY <1>1, <1>7, ConfirmDeleteFine
  <2>2. QED  BY <1>3, <2>1
<1>8. CASE ConfirmComment(f)
  <2>1. /\ screen'.reqs = screen.reqs
        /\ InPlace(flow[f].case, Commented(Head(screen.cases[flow[f].case]), f))
    BY <1>1, <1>8, ConfirmCommentFine
  <2>2. PICK c : c = flow[f].case  OBVIOUS
  <2>3. c \in Cases  BY <2>1, <2>2 DEF InPlace
  <2>4. screen.cases[c] # <<>> =>
           Commented(Head(screen.cases[c]), f).ver = Head(screen.cases[c]).ver
    BY <2>3, HeadTyped, CommentedTyped
  <2>5. QED  BY <1>3, <2>1, <2>2, <2>3, <2>4 DEF InPlace
<1>9. QED  BY <1>4, <1>5, <1>6, <1>7, <1>8

\* A requirement that gets its id.
LEMMA ReconcileSettled ==
    ASSUME Fine, Settled, NEW f \in Flows, Reconcile(f)
    PROVE  Settled'
<1>1. /\ Fine' /\ UNCHANGED Server /\ OthersAlike(f)
      /\ At(f, "require", "answered") /\ Onward(f, "link") /\ NamedAll(f)
  BY ReconcileFine
<1>2. Grows(f) /\ RowsFresh(f)  BY <1>1, SameRows
<1>3. SameVers
  <2>1. ASSUME NEW c \in Cases, screen'.cases[c] # <<>>
        PROVE  /\ screen.cases[c] # <<>>
               /\ Head(screen'.cases[c]).ver = Head(screen.cases[c]).ver
    BY <1>1, <2>1, HeadTyped, NamedTyped DEF NamedAll
  <2>2. QED  BY <2>1 DEF SameVers
<1>4. HeadsFresh  BY <1>3, SameVersFresh
<1>5. f \in Reqs /\ f \in reqs /\ Placed(f)
  BY <1>1 DEF Reqs, Settled, AllPlaced, Placed
<1>6. \A q \in Reqs : /\ Real(q) \in screen'.reqs <=> Real(q) \in screen.reqs \/ q = f
                      /\ Temp(q) \in screen'.reqs <=> Temp(q) \in screen.reqs /\ q # f
  BY <1>1, <1>5, Ids DEF NamedAll
<1>7. ScreenRooted(f)
  BY <1>1, <1>3, <1>5, <1>6 DEF SameVers, ScreenRooted, Settled, Rooted, Server
<1>8. /\ flow'[f].op = "require" /\ flow'[f].pc = "link"
      /\ flow'[f].case = flow[f].case /\ flow'[f].req = flow[f].req
  BY <1>1 DEF At, Onward
<1>9. Placed(f)'
  BY <1>1, <1>5, <1>8 DEF Placed, At, Op, Pc, AboutCase, Server
<1>10. case'[f] = None
  BY <1>1 DEF Settled, Rooted, At, Pc, Server
<1>11. FlowSettled(f)  BY <1>8, <1>9, <1>10 DEF FlowSettled
<1>12. QED  BY <1>1, <1>2, <1>4, <1>7, <1>11, SettledStep

\* A link that waited.
LEMMA AwaitedSettled ==
    ASSUME Fine, Settled, NEW f \in Flows, Awaited(f)
    PROVE  Settled'
<1>1. /\ Fine' /\ UNCHANGED <<Server, screen>> /\ OthersAlike(f) /\ Pc(f) = "wait"
      /\ \/ Temp(flow[f].req) \notin screen.reqs /\ Onward(f, "link")
         \/ flow'[f] = Past
  BY AwaitedFine
<1>2. Grows(f) /\ RowsFresh(f)  BY <1>1, SameRows
<1>3. SameContent(screen', screen)  BY <1>1 DEF SameContent
<1>4. ScreenRooted(f) /\ HeadsFresh  BY <1>2, <1>3, SameScreen
<1>5. ASSUME Temp(flow[f].req) \notin screen.reqs, Onward(f, "link")
      PROVE  FlowSettled(f)
  <2>1. Placed(f)  BY DEF Settled, AllPlaced
  <2>2. Op(f) \in CommandOps  BY <1>1, Kinds DEF Fine
  <2>3. Op(f) = "link" /\ flow[f].req \in reqs
    BY <1>1, <1>5, <2>1, <2>2 DEF Placed, CommandOps
  <2>4. /\ flow'[f].op = "link" /\ flow'[f].pc = "link"
        /\ flow'[f].case = flow[f].case /\ flow'[f].req = flow[f].req
    BY <1>5, <2>3 DEF Onward, Op
  <2>5. Placed(f)'
    BY <1>1, <2>1, <2>3, <2>4 DEF Placed, At, Op, Pc, AboutCase, Server
  <2>6. case'[f] = None
    BY <1>1 DEF Settled, Rooted, At, Pc, Server
  <2>7. QED  BY <2>4, <2>5, <2>6 DEF FlowSettled
<1>6. FlowSettled(f)  BY <1>1, <1>5, EndSettled
<1>7. QED  BY <1>1, <1>2, <1>4, <1>6, SettledStep

\* A flow that ends with its last answer, or fails.
LEMMA ClosesSettled ==
    ASSUME Fine, Settled, NEW f \in Flows, ConfirmLink(f) \/ Fail(f)
    PROVE  Settled'
<1>1. Fine' /\ UNCHANGED <<Server, screen>> /\ OthersAlike(f) /\ flow'[f] = Past
  BY ConfirmLinkFine, FailFine
<1>2. SameContent(screen', screen)  BY <1>1 DEF SameContent
<1>3. Grows(f) /\ RowsFresh(f)  BY <1>1, SameRows
<1>4. ScreenRooted(f) /\ HeadsFresh  BY <1>2, <1>3, SameScreen
<1>5. QED  BY <1>1, <1>3, <1>4, EndSettled, SettledStep

\* A list that a sync has read.
LEMMA ReadsSettled ==
    ASSUME Fine, Settled, NEW f \in Flows, Reads(f)
    PROVE  Settled'
<1>1. Fine' /\ UNCHANGED <<Server, screen>> /\ OthersAlike(f) /\ ReadOne(f)
  BY ReadsFine
<1>2. SameContent(screen', screen)  BY <1>1 DEF SameContent
<1>3. Grows(f) /\ RowsFresh(f)  BY <1>1, SameRows
<1>4. ScreenRooted(f) /\ HeadsFresh  BY <1>2, <1>3, SameScreen
<1>5. /\ flow[f].op = "sync" /\ flow'[f].op = "sync" /\ flow'[f].pc = "read"
      /\ flow'[f].cases = flow[f].cases \/ flow'[f].cases = Listed
      /\ flow'[f].reqs = flow[f].reqs \/ flow'[f].reqs = reqs
  BY <1>1 DEF ReadOne
<1>6. Placed(f)'  BY <1>5 DEF Placed, At, Op, Pc, AboutCase
<1>7. Pc(f) = "read"  BY <1>5, Kinds DEF Fine, Op
<1>8. case'[f] = None  BY <1>1, <1>7 DEF Settled, Rooted, At, Pc, Server
<1>9. ASSUME flow'[f].cases # None, NEW c \in Cases, flow'[f].cases[c] # <<>>
      PROVE  /\ case'[c] # None
             /\ \A g \in Flows : Fresh(g) => Head(flow'[f].cases[c]).ver # g
  <2>1. CASE flow'[f].cases = flow[f].cases
    BY <1>1, <1>5, <1>9, <2>1 DEF Settled, Rooted, Unwritten, Op, Server
  <2>2. CASE flow'[f].cases = Listed
    <3>1. case[c] # None /\ Listed[c] = <<CopyOf(c)>>
      BY <1>9, <2>2, ListedTyped DEF Fine
    <3>2. CopyOf(c).ver = case[c].ver  BY <3>1, CopyOfTyped DEF Fine
    <3>3. PICK x : x = CopyOf(c)  OBVIOUS
    <3>4. Head(<<x>>) = x  OBVIOUS
    <3>5. \A g \in Flows : Fresh(g) => x.ver # g
      BY <3>1, <3>2, <3>3 DEF Settled, Unwritten
    <3>6. QED  BY <1>1, <2>2, <3>1, <3>3, <3>4, <3>5 DEF Server
  <2>3. QED  BY <1>5, <2>1, <2>2
<1>10. flow'[f].reqs # None => flow'[f].reqs \subseteq reqs'
  BY <1>1, <1>5 DEF Settled, Rooted, Op, Server
<1>11. FlowSettled(f)  BY <1>5, <1>6, <1>8, <1>9, <1>10 DEF FlowSettled
<1>12. QED  BY <1>1, <1>3, <1>4, <1>11, SettledStep

\* A sync that is shown.
LEMMA ConfirmSyncSettled ==
    ASSUME Fine, Settled, NEW f \in Flows, ConfirmSync(f)
    PROVE  Settled'
<1>1. /\ Fine' /\ UNCHANGED Server /\ OthersAlike(f) /\ flow'[f] = Past
      /\ Op(f) = "sync" /\ flow[f].cases # None /\ flow[f].reqs # None
      /\ screen'.cases = flow[f].cases
      /\ screen'.reqs = {Real(q) : q \in flow[f].reqs} \cup Pending(screen)
  BY ConfirmSyncFine
<1>2. Grows(f) /\ RowsFresh(f)  BY <1>1, SameRows
<1>3. flow[f].reqs \subseteq reqs  BY <1>1 DEF Settled, Rooted
<1>4. \A q \in Reqs : /\ Real(q) \in screen'.reqs => q \in reqs
                      /\ Temp(q) \in screen'.reqs <=> Temp(q) \in screen.reqs
  BY <1>1, <1>3, Ids DEF Pending
<1>5. \A c \in Cases : screen'.cases[c] # <<>> => case[c] # None
  BY <1>1 DEF Settled, Rooted
<1>6. f \in Reqs  BY DEF Reqs
<1>7. ScreenRooted(f)  BY <1>1, <1>4, <1>5, <1>6 DEF ScreenRooted, Server
<1>8. HeadsFresh  BY <1>1 DEF HeadsFresh, Settled, Unwritten
<1>9. QED  BY <1>1, <1>2, <1>7, <1>8, EndSettled, SettledStep

\* A write of another client.
LEMMA OtherSettled ==
    ASSUME Fine, Settled, NEW f \in Flows, Other(f)
    PROVE  Settled'
<1>1. /\ Fine' /\ UNCHANGED screen /\ OthersAlike(f) /\ flow'[f] = Past
      /\ Grows(f) /\ WrittenBy(f)
  BY OtherFine
<1>2. SameContent(screen', screen)  BY <1>1 DEF SameContent
<1>3. ScreenRooted(f) /\ HeadsFresh  BY <1>1, <1>2, SameScreen
<1>4. flow'[f].pc # "post"  BY <1>1 DEF Past
<1>5. RowsFresh(f)
  <2>1. ASSUME NEW g \in Flows \ {f}, Fresh(g)
        PROVE  /\ case'[g] = None /\ folder'[g] = Missing /\ g \notin reqs' /\ run'[g] = None
               /\ \A c \in Cases : case'[c] # None =>
                     case'[c].ver # g /\ case'[c].comments[g] = 0
    <3>1. /\ case[g] = None /\ folder[g] = Missing /\ g \notin reqs /\ run[g] = None
          /\ \A c \in Cases : case[c] # None => case[c].ver # g /\ case[c].comments[g] = 0
      BY <2>1 DEF Settled, Unwritten
    <3>2. case'[g] = None /\ folder'[g] = Missing /\ g \notin reqs' /\ run'[g] = None
      BY <1>1, <3>1 DEF Grows, Cases, Folders
    <3>3. QED  BY <1>1, <3>1, <3>2 DEF WrittenBy
  <2>2. QED  BY <1>4, <2>1 DEF RowsFresh
<1>6. QED  BY <1>1, <1>3, <1>5, EndSettled, SettledStep

\* The answers that are shown at once.
Answers(f) ==
    \/ ConfirmCreate(f) \/ ConfirmFolder(f) \/ ConfirmSave(f)
    \/ ConfirmDelete(f) \/ ConfirmComment(f) \/ ConfirmRun(f)

\* A step is of the user alone, or of one flow.
FlowStep(f) ==
    \/ Quiet(f) \/ CreateRequirement(f) \/ LinkRequirement(f) \/ Serves(f) \/ Reads(f)
    \/ Fail(f) \/ Other(f) \/ Answers(f) \/ Reconcile(f) \/ Awaited(f) \/ ConfirmLink(f)
    \/ ConfirmSync(f)

\* The steps are these.
LEMMA Steps ==
    ASSUME Next
    PROVE  (Browse \/ \E f \in Flows : FlowStep(f)) /\ overlapped' = Overlapped
BY DEF Next, Click, Serve, Confirm, FlowStep, Quiet, Serves, Reads, Answers

\* Each keeps the types, and what refers to rows.
LEMMA FlowSettles ==
    ASSUME Fine, Settled, NEW f \in Flows, FlowStep(f)
    PROVE  Fine' /\ Settled'
<1>1. AllPlaced  BY DEF Settled
<1>2. Fine'
  BY <1>1, QuietFine, CreateRequirementFine, LinkRequirementFine, InsertCaseFine,
     InsertFolderFine, PatchCaseFine, ArchiveCaseFine, InsertCommentFine,
     InsertRequirementFine, InsertLinkFine, InsertRunFine, ReadsFine, FailFine, OtherFine,
     ConfirmCreateFine, ConfirmFolderFine, ConfirmSaveFine, ConfirmDeleteFine,
     ConfirmCommentFine, ConfirmRunFine, ReconcileFine, AwaitedFine, ConfirmLinkFine,
     ConfirmSyncFine
  DEF FlowStep, Serves, Answers
<1>3. Settled'
  BY QuietSettled, LinksSettled, ServesSettled, ReadsSettled, ClosesSettled, OtherSettled,
     ConfirmsSettled, ReconcileSettled, AwaitedSettled, ConfirmSyncSettled
  DEF FlowStep, Answers
<1>4. QED  BY <1>2, <1>3

\* A sync that is not overlapped: nobody else is under way, and what it has read
\* is still so.
Alone(g) ==
    Op(g) = "sync" /\ g \notin overlapped =>
        /\ \A h \in Flows \ {g} : ~Open(h)
        /\ flow[g].cases # None => flow[g].cases = Listed
        /\ flow[g].folders # None => flow[g].folders = FolderRows
        /\ flow[g].reqs # None => flow[g].reqs = reqs
        /\ flow[g].runs # None => flow[g].runs = run

\* A step of f is seen by a sync beside it.
LEMMA Noticed ==
    ASSUME Fine, Settled, NEW f \in Flows, FlowStep(f)
    PROVE  /\ Open(f) \/ flow'[f] # flow[f]
           /\ flow'[f].op = "sync" =>
                 /\ UNCHANGED Server
                 /\ \/ /\ flow'[f].cases = None /\ flow'[f].folders = None
                       /\ flow'[f].reqs = None /\ flow'[f].runs = None
                    \/ ReadOne(f)
<1>1. AllPlaced  BY DEF Settled
<1>2. CASE Quiet(f)
  <2>1. Begun(f) /\ UNCHANGED Server  BY <1>2, QuietFine
  <2>2. flow'[f].pc # flow[f].pc  BY <2>1 DEF Begun, Pc
  <2>3. QED  BY <2>1, <2>2 DEF Begun
<1>3. CASE CreateRequirement(f)
  <2>1. Pc(f) = "idle" /\ flow'[f].op = "require" /\ flow'[f].pc = "post"
    BY <1>3, CreateRequirementFine
  <2>2. QED  BY <2>1 DEF Pc
<1>4. CASE LinkRequirement(f)
  <2>1. Pc(f) = "idle" /\ flow'[f].op = "link" /\ flow'[f].pc # "idle"
    BY <1>4, LinkRequirementFine
  <2>2. QED  BY <2>1 DEF Pc
<1>5. CASE Serves(f)
  <2>1. /\ Pc(f) \in {"post", "link"}
        /\ Onward(f, IF Pc(f) = "link" THEN "linked" ELSE "answered")
    BY <1>1, <1>5, InsertCaseFine, InsertFolderFine, PatchCaseFine, ArchiveCaseFine,
       InsertCommentFine, InsertRequirementFine, InsertLinkFine, InsertRunFine
    DEF Serves, At, Pc
  <2>2. Op(f) # "sync"  BY <2>1, Kinds DEF Fine
  <2>3. QED  BY <2>1, <2>2 DEF Onward, Op, Pc, Open
<1>6. CASE Reads(f)
  <2>1. UNCHANGED Server /\ ReadOne(f)  BY <1>6, ReadsFine
  <2>2. Op(f) = "sync"  BY <2>1 DEF ReadOne, Op
  <2>3. Open(f)  BY <2>2, Kinds DEF Fine, Open, Pc
  <2>4. QED  BY <2>1, <2>3
<1>7. CASE Reconcile(f) \/ Awaited(f)
  <2>1. At(f, "require", "answered") \/ Pc(f) = "wait"
    BY <1>7, ReconcileFine, AwaitedFine
  <2>2. Onward(f, "link") \/ flow'[f] = Past  BY <1>7, ReconcileFine, AwaitedFine
  <2>3. Op(f) # "sync" /\ Open(f)  BY <2>1, Kinds DEF Fine, At, Open, Pc, Op
  <2>4. flow'[f].op # "sync"  BY <2>2, <2>3 DEF Onward, Op, Past
  <2>5. QED  BY <2>3, <2>4
<1>8. CASE Fail(f) \/ Other(f) \/ Answers(f) \/ ConfirmLink(f) \/ ConfirmSync(f)
  <2>1. flow'[f] = Past /\ Pc(f) # "done"
    BY <1>1, <1>8, FailFine, OtherFine, ConfirmCreateFine, ConfirmFolderFine,
       ConfirmSaveFine, ConfirmDeleteFine, ConfirmCommentFine, ConfirmRunFine,
       ConfirmLinkFine, ConfirmSyncFine, Kinds
    DEF Answers, At, Pc, Fine
  <2>2. QED  BY <2>1 DEF Past, Pc
<1>9. QED  BY <1>2, <1>3, <1>4, <1>5, <1>6, <1>7, <1>8 DEF FlowStep

\* A sync with nobody beside it has what the server has.
LEMMA FlowAlone ==
    ASSUME Fine, Settled, \A g \in Flows : Alone(g), NEW f \in Flows, FlowStep(f),
           overlapped' = Overlapped
    PROVE  \A g \in Flows : Alone(g)'
<1>1. SUFFICES ASSUME NEW g \in Flows, flow'[g].op = "sync", g \notin overlapped'
               PROVE  /\ \A h \in Flows \ {g} : ~Open(h)'
                      /\ flow'[g].cases # None => flow'[g].cases = Listed'
                      /\ flow'[g].folders # None => flow'[g].folders = FolderRows'
                      /\ flow'[g].reqs # None => flow'[g].reqs = reqs'
                      /\ flow'[g].runs # None => flow'[g].runs = run'
  BY DEF Alone, Op
<1>2. /\ g \notin overlapped
      /\ \A h \in Flows \ {g} : ~Open(h) /\ flow'[h] = flow[h]
  BY <1>1 DEF Overlapped
<1>3. \A h \in Flows \ {g} : ~Open(h)'  BY <1>2 DEF Open
<1>4. f = g  BY <1>2, Noticed
<1>5. UNCHANGED Server  BY <1>1, <1>4, Noticed
<1>6. /\ Listed' = Listed /\ FolderRows' = FolderRows /\ reqs' = reqs /\ run' = run
  BY <1>5 DEF Server, Listed, CopyOf, FolderRows
<1>7. CASE ReadOne(g)
  <2>1. Op(g) = "sync"  BY <1>7 DEF ReadOne, Op
  <2>2. /\ flow[g].cases # None => flow[g].cases = Listed
        /\ flow[g].folders # None => flow[g].folders = FolderRows
        /\ flow[g].reqs # None => flow[g].reqs = reqs
        /\ flow[g].runs # None => flow[g].runs = run
    BY <1>2, <2>1 DEF Alone
  <2>3. QED  BY <1>3, <1>6, <1>7, <2>2 DEF ReadOne
<1>8. CASE /\ flow'[g].cases = None /\ flow'[g].folders = None
           /\ flow'[g].reqs = None /\ flow'[g].runs = None
  BY <1>3, <1>8
<1>9. QED  BY <1>1, <1>4, <1>7, <1>8, Noticed

\* So it has after a click.
LEMMA BrowseAlone ==
    ASSUME \A g \in Flows : Alone(g), UNCHANGED <<Server, flow>>, overlapped' = Overlapped
    PROVE  \A g \in Flows : Alone(g)'
<1>1. SUFFICES ASSUME NEW g \in Flows, Op(g)' = "sync", g \notin overlapped'
               PROVE  /\ \A h \in Flows \ {g} : ~Open(h)'
                      /\ flow'[g].cases # None => flow'[g].cases = Listed'
                      /\ flow'[g].folders # None => flow'[g].folders = FolderRows'
                      /\ flow'[g].reqs # None => flow'[g].reqs = reqs'
                      /\ flow'[g].runs # None => flow'[g].runs = run'
  BY DEF Alone
<1>2. g \notin overlapped /\ Op(g) = "sync"  BY <1>1 DEF Overlapped, Op
<1>3. /\ Listed' = Listed /\ FolderRows' = FolderRows /\ reqs' = reqs /\ run' = run
      /\ flow' = flow
  BY DEF Server, Listed, CopyOf, FolderRows
<1>4. /\ \A h \in Flows \ {g} : ~Open(h)
      /\ flow[g].cases # None => flow[g].cases = Listed
      /\ flow[g].folders # None => flow[g].folders = FolderRows
      /\ flow[g].reqs # None => flow[g].reqs = reqs
      /\ flow[g].runs # None => flow[g].runs = run
  BY <1>2 DEF Alone
<1>5. QED  BY <1>3, <1>4 DEF Open

\* At the start.
LEMMA InitSettled ==
    ASSUME Init
    PROVE  Fine /\ Settled /\ \A g \in Flows : Alone(g)
<1>1. \A f \in Flows : /\ flow[f] = Idle /\ Op(f) = "none" /\ Pc(f) = "idle"
  BY DEF Init, Idle, Op, Pc
<1>2. /\ \A c \in Cases : case[c] = IF c \in SeedCases THEN SeedRow(c) ELSE None
      /\ \A g \in Folders : folder[g] = IF g \in SeedFolders THEN None ELSE Missing
      /\ reqs = SeedReqs /\ links = {} /\ \A r \in Flows : run[r] = None
  <2>1. case = [c \in Cases |-> IF c \in SeedCases THEN SeedRow(c) ELSE None]
    BY DEF Init
  <2>2. folder = [g \in Folders |-> IF g \in SeedFolders THEN None ELSE Missing]
    BY DEF Init
  <2>3. run = [r \in Flows |-> None] /\ reqs = SeedReqs /\ links = {}  BY DEF Init
  <2>4. \A c \in Cases : case[c] = IF c \in SeedCases THEN SeedRow(c) ELSE None
    BY <2>1
  <2>5. \A g \in Folders : folder[g] = IF g \in SeedFolders THEN None ELSE Missing
    BY <2>2
  <2>6. \A r \in Flows : run[r] = None  BY <2>3
  <2>7. QED  BY <2>3, <2>4, <2>5, <2>6
<1>3. \A f \in Flows : NoComment[f] = 0  BY DEF NoComment
<1>4. \A c \in SeedCases : SeedRow(c) \in CaseRow
  <2>1. NoComment \in Comments  BY DEF NoComment, Comments
  <2>2. \A c \in SeedCases : Filed[c] \in Folders  BY CaseScreenAssumption DEF Folders
  <2>3. QED  BY <2>1, <2>2 DEF SeedRow, CaseRow, Version
<1>5. ServerTyped
  <2>1. case \in [Cases -> {None} \cup CaseRow]
    <3>1. case = [c \in Cases |-> case[c]]  BY DEF Init
    <3>2. \A c \in Cases : case[c] \in {None} \cup CaseRow  BY <1>2, <1>4
    <3>3. QED  BY <3>1, <3>2
  <2>2. folder \in [Folders -> Folders \cup {None, Missing}]  BY DEF Init
  <2>3. reqs \subseteq Reqs /\ links \subseteq Cases \X Reqs  BY <1>2 DEF Reqs
  <2>4. run \in [Flows -> {None} \cup SUBSET Cases]  BY DEF Init
  <2>5. QED  BY <2>1, <2>2, <2>3, <2>4 DEF ServerTyped
<1>6. PICK g \in SeedFolders :
         screen = [cases |-> Listed, folders |-> Counted(SeedFolders),
                   reqs |-> {Real(q) : q \in SeedReqs},
                   runs |-> [r \in Flows |-> None],
                   selected |-> g, open |-> None, pending |-> None, draft |-> None]
  BY Zenon DEF Init
<1>7. Good(screen)
  <2>1. PICK k : k = Listed  OBVIOUS
  <2>2. k \in [Cases -> Seq(Copy)]  BY <1>5, <2>1, ListedTyped
  <2>3. PICK ids : ids = {Real(q) : q \in SeedReqs}  OBVIOUS
  <2>4. ids \in SUBSET Id  BY <2>3, Ids DEF Reqs
  <2>5. PICK n : n = Counted(SeedFolders)  OBVIOUS
  <2>6. n \in [Folders -> Nat]  BY <2>5 DEF Counted
  <2>7. g \in Folders  BY DEF Folders
  <2>8. screen \in Screen  BY <1>6, <2>1, <2>2, <2>3, <2>4, <2>5, <2>6, <2>7 DEF Screen
  <2>9. screen.draft = None  BY <1>6
  <2>10. QED  BY <2>8, <2>9 DEF Good, Editing
<1>8. Fine
  <2>1. FlowTyped  BY <1>1 DEF Init, FlowTyped, FlowState
  <2>2. misled \in BOOLEAN  BY DEF Init
  <2>3. QED  BY <1>5, <1>7, <2>1, <2>2 DEF Fine
<1>9. screen.cases = Listed /\ screen.reqs = {Real(q) : q \in SeedReqs}  BY <1>6
<1>10. AllPlaced  BY <1>1 DEF AllPlaced, Placed, At, Op, Pc, AboutCase
<1>11. \A c \in Cases : screen.cases[c] # <<>> =>
          /\ case[c] # None /\ c \in SeedCases
          /\ Head(screen.cases[c]).ver = None
  <2>1. ASSUME NEW c \in Cases, screen.cases[c] # <<>>
        PROVE  /\ case[c] # None /\ c \in SeedCases
               /\ Head(screen.cases[c]).ver = None
    <3>1. case[c] # None /\ Listed[c] = <<CopyOf(c)>>
      BY <1>5, <1>9, <2>1, ListedTyped
    <3>2. c \in SeedCases /\ case[c] = SeedRow(c)  BY <1>2, <3>1
    <3>3. CopyOf(c).ver = None  BY <1>5, <3>1, <3>2, CopyOfTyped DEF SeedRow
    <3>4. PICK x : x = CopyOf(c)  OBVIOUS
    <3>5. Head(<<x>>) = x  OBVIOUS
    <3>6. QED  BY <1>9, <3>1, <3>2, <3>3, <3>4, <3>5
  <2>2. QED  BY <2>1
<1>12. \A f \in Flows : /\ f \notin SeedCases /\ f \notin SeedFolders /\ f \notin SeedReqs
                        /\ f # None /\ f \in Cases /\ f \in Folders
  BY CaseScreenAssumption DEF Cases, Folders
<1>13. Rooted
  <2>1. \A q \in Reqs : /\ Real(q) \in screen.reqs => q \in reqs
                        /\ Temp(q) \notin screen.reqs
    BY <1>2, <1>9, Ids
  <2>2. QED  BY <1>1, <1>2, <1>11, <1>12, <2>1 DEF Rooted
<1>14. \A f \in Flows : Unwritten(f)
  <2>1. ASSUME NEW f \in Flows  PROVE Unwritten(f)
    <3>1. case[f] = None /\ folder[f] = Missing /\ f \notin reqs /\ run[f] = None
      BY <1>2, <1>12
    <3>2. \A c \in Cases : case[c] # None => case[c].ver # f /\ case[c].comments[f] = 0
      <4>1. ASSUME NEW c \in Cases, case[c] # None
            PROVE  case[c].ver # f /\ case[c].comments[f] = 0
        <5>1. case[c] = SeedRow(c)  BY <1>2, <4>1
        <5>2. SeedRow(c).ver = None /\ SeedRow(c).comments = NoComment  BY DEF SeedRow
        <5>3. QED  BY <1>3, <1>12, <5>1, <5>2
      <4>2. QED  BY <4>1
    <3>3. QED  BY <1>1, <1>11, <1>12, <3>1, <3>2 DEF Unwritten
  <2>2. QED  BY <2>1
<1>15. \A f \in Flows : Alone(f)  BY <1>1 DEF Alone
<1>16. QED  BY <1>8, <1>10, <1>13, <1>14, <1>15 DEF Settled

\* The inductive invariant of TypeOK and EditorCurrent.
Even == Fine /\ Settled /\ (\A g \in Flows : Alone(g)) /\ overlapped \subseteq Flows

\* The invariant of the types and of EditorCurrent is inductive.
LEMMA NextSettled ==
    ASSUME Even, [Next]_vars
    PROVE  Even'
<1>1. CASE Next
  <2>1. overlapped' \subseteq Flows  BY <1>1, Steps DEF Overlapped
  <2>2. CASE Browse
    <3>1. Fine' /\ UNCHANGED <<Server, flow>>  BY <2>2, BrowseFine DEF Even
    <3>2. Settled'  BY <2>2, BrowseSettled DEF Even
    <3>3. \A g \in Flows : Alone(g)'  BY <1>1, <3>1, Steps, BrowseAlone DEF Even
    <3>4. QED  BY <2>1, <3>1, <3>2, <3>3 DEF Even
  <2>3. ASSUME NEW f \in Flows, FlowStep(f)  PROVE Even'
    <3>1. Fine' /\ Settled'  BY <2>3, FlowSettles DEF Even
    <3>2. \A g \in Flows : Alone(g)'  BY <1>1, <2>3, Steps, FlowAlone DEF Even
    <3>3. QED  BY <2>1, <3>1, <3>2 DEF Even
  <2>4. QED  BY <1>1, <2>2, <2>3, Steps
<1>2. CASE UNCHANGED vars
  <2>1. Fine' BY <1>2 DEF vars, Even, Fine, ServerTyped, FlowTyped
  <2>2. AllPlaced'
    BY <1>2 DEF vars, Even, Settled, AllPlaced, Placed, Op, Pc, At
  <2>3. Rooted'  BY <1>2 DEF vars, Even, Settled, Rooted, Op, Pc, At
  <2>4. \A g \in Flows : Unwritten(g)'
    BY <1>2 DEF vars, Even, Settled, Unwritten, Op, Pc, Fresh
  <2>5. Listed' = Listed /\ FolderRows' = FolderRows
    BY <1>2 DEF vars, Listed, CopyOf, FolderRows
  <2>6. \A g \in Flows : Alone(g)'
    BY <1>2, <2>5 DEF vars, Even, Alone, Op, Open
  <2>7. overlapped' \subseteq Flows  BY <1>2 DEF vars, Even
  <2>8. QED  BY <2>1, <2>2, <2>3, <2>4, <2>6, <2>7 DEF Even, Settled
<1>3. QED  BY <1>1, <1>2

\* It holds throughout.
LEMMA SettledAlways == Spec => []Even
<1>1. Init => Even
  <2>1. Init => overlapped \subseteq Flows  BY DEF Init
  <2>2. QED  BY <2>1, InitSettled DEF Even
<1>2. Even /\ [Next]_vars => Even'  BY NextSettled
<1>3. QED  BY <1>1, <1>2, PTL DEF Spec

\* The rows of the server, the lists and the draft that FreshProvider and
\* CasesScreen keep, and the flows of their calls are well formed, for any rows
\* and any number of flows.
THEOREM CaseScreenTyped == Spec => []TypeOK
<1>1. Even => TypeOK  BY FineMeans DEF Even
<1>2. QED  BY <1>1, SettledAlways, PTL

\* The draft of CaseDetail is of the copy that is shown, whatever answers and
\* syncs come in while it is open: the effect on caseData closes it in time
\* (CasesScreen.tsx:1458).
THEOREM EditorStaysCurrent == Spec => []EditorCurrent
<1>1. Even => EditorCurrent  BY FineMeans DEF Even
<1>2. QED  BY <1>1, SettledAlways, PTL

-----------------------------------------------------------------------------
(* What the screen shows, while it is told of every change *)

\* What is shown of case c.
OnScreen(c) == screen.cases[c] # <<>>
First(c) == Head(screen.cases[c])

\* A copy that shows nothing of g.
Clear(cp, g) == cp.ver # g /\ cp.comments[g] = 0 /\ Real(g) \notin cp.reqs

\* A copy that may be shown or saved before g is: once g has begun, its
\* requirement may be there under the made-up id.
Before(cp, g) == Clear(cp, g) /\ (Pc(g) = "idle" => Temp(g) \notin cp.reqs)

\* A flow whose answer is not shown.
Early(g) == Pc(g) \in {"idle", "post", "answered"}

\* Nothing of a flow that is yet to be confirmed is shown.
Unshown(g) ==
    Early(g) =>
        /\ screen.cases[g] = <<>> /\ screen.folders[g] = 0 /\ screen.runs[g] = None
        /\ Real(g) \notin screen.reqs
        /\ \A c \in Cases : OnScreen(c) => Before(First(c), g)
        /\ \A h \in Flows : Op(h) = "save" => Before(Head(flow[h].was), g)
        /\ \A h \in Flows \ {g} : Op(h) = "create" => Clear(flow[h].new, g)

\* A flow about a case is about one that was shown; a save has seen no link
\* that the copy does not have, but those that have got their ids.
Known(g) ==
    /\ Op(g) \in AboutCase /\ flow[g].case \in Flows => Pc(flow[g].case) = "done"
    /\ Op(g) = "create" => flow[g].new.reqs = {}
    /\ Op(g) = "save" =>
          /\ Len(flow[g].was) = 1
          /\ OnScreen(flow[g].case) =>
               \A x \in Head(flow[g].was).reqs :
                  x \in First(flow[g].case).reqs \/ x \notin screen.reqs

\* Case c is shown once, unless its row is deleted or not shown yet.
Existence(c) ==
    /\ Len(screen.cases[c]) <= 1
    /\ OnScreen(c) /\ case[c].archived =>
          \E g \in Flows : At(g, "delete", "answered") /\ flow[g].case = c
    /\ \A g \in Flows : At(g, "delete", "answered") /\ flow[g].case = c => case[c].archived
    /\ ~OnScreen(c) =>
          \/ case[c] = None \/ case[c].archived
          \/ c \in Flows /\ At(c, "create", "answered")
    /\ c \in Flows /\ At(c, "create", "answered") =>
          /\ case[c].ver = flow[c].new.ver /\ case[c].folder = flow[c].new.folder
          /\ ~case[c].archived /\ case[c].comments = NoComment
          /\ \A q \in Reqs : <<c, q>> \notin links

\* The saves whose answer is on its way, and those that no longer replace what
\* they were typed into.
Saves(c) == {g \in Flows : At(g, "save", "answered") /\ flow[g].case = c}
Crossed(g) == flow[g].was # screen.cases[flow[g].case]

\* Its fields are those of the row, or an answer is on its way with them, or
\* one that will not be believed.
Fields(c) ==
    OnScreen(c) =>
        \/ \E g \in Saves(c) : Crossed(g)
        \/ /\ Saves(c) = {}
           /\ case[c].ver = First(c).ver /\ case[c].folder = First(c).folder
        \/ \E g \in Saves(c) : /\ case[c].ver = flow[g].new.ver
                               /\ case[c].folder = flow[g].new.folder

\* Its comments are those of the row, but for one that is not shown yet.
Remarked(c) ==
    OnScreen(c) =>
        \A g \in Flows :
            IF At(g, "comment", "answered") /\ flow[g].case = c
            THEN case[c].comments[g] = 1
            ELSE case[c].comments[g] = First(c).comments[g]

\* The flows that link q to c.
Links(c, q) ==
    {g \in Flows : Op(g) \in {"require", "link"} /\ flow[g].case = c /\ flow[g].req = q}

\* What its list of requirements has for one of these flows.
Promised(c, g) ==
    LET q == flow[g].req
    IN /\ Pc(g) \in {"post", "answered"} => Temp(q) \in First(c).reqs
       /\ Pc(g) = "wait" => \/ Temp(q) \in First(c).reqs
                            \/ Temp(q) \notin screen.reqs /\ Real(q) \in First(c).reqs
       /\ Pc(g) \in {"link", "linked"} => Real(q) \in First(c).reqs

\* Its requirements are those of the row, but for links that are on their way.
Linked(c) ==
    OnScreen(c) =>
        /\ \A q \in Reqs : <<c, q>> \in links => Real(q) \in First(c).reqs
        /\ \A q \in Reqs : Real(q) \in First(c).reqs =>
              <<c, q>> \in links \/ \E g \in Links(c, q) : Pc(g) \in {"wait", "link"}
        /\ \A q \in Reqs : Temp(q) \in First(c).reqs =>
              /\ Temp(q) \in screen.reqs
              /\ \E g \in Links(c, q) : Pc(g) \in {"post", "answered", "wait"}
        /\ \A q \in Reqs : \A g \in Links(c, q) : Promised(c, g)

\* Folders, requirements and runs are shown but for those whose answer is on
\* its way.
FoldersTold ==
    /\ \A g \in Folders : screen.folders[g] =
          IF folder[g] = Missing \/ (g \in Flows /\ At(g, "folder", "answered")) THEN 0 ELSE 1
    /\ \A g \in Flows : At(g, "folder", "answered") => folder[g] # Missing

ReqsTold ==
    \A q \in Reqs : Real(q) \in screen.reqs <=>
        q \in reqs /\ ~(q \in Flows /\ At(q, "require", "answered"))

RunsTold ==
    \A r \in Flows : IF At(r, "run", "answered") THEN run[r] = flow[r].cases
                     ELSE screen.runs[r] = run[r]

\* The screen has what the server has, up to the answers on their way.
Tracked ==
    /\ \A g \in Flows : Unshown(g) /\ Known(g)
    /\ \A c \in Cases : Existence(c) /\ Fields(c) /\ Remarked(c) /\ Linked(c)
    /\ FoldersTold /\ ReqsTold /\ RunsTold

\* What is kept by the other flows of a step.
LEMMA Kept ==
    ASSUME NEW f \in Flows, OthersAlike(f), NEW g \in Flows \ {f}
    PROVE  /\ flow'[g].op = flow[g].op /\ flow'[g].pc = flow[g].pc
           /\ flow'[g].case = flow[g].case /\ flow'[g].req = flow[g].req
           /\ flow'[g].was = flow[g].was /\ flow'[g].new = flow[g].new
           /\ flow'[g].cases = flow[g].cases
BY DEF OthersAlike, Alike, AlikeFlow

\* The screen shows nothing of what is early yet.
ShowsNone(f) ==
    \A g \in Flows : Early(g) /\ (g = f => flow'[f].pc \in {"post", "answered"}) =>
        /\ screen'.cases[g] = <<>> /\ screen'.folders[g] = 0 /\ screen'.runs[g] = None
        /\ Real(g) \notin screen'.reqs
        /\ \A c \in Cases : screen'.cases[c] # <<>> =>
              /\ Clear(Head(screen'.cases[c]), g)
              /\ (Pc(g) = "idle" /\ g # f) => Temp(g) \notin Head(screen'.cases[c]).reqs

\* Nor does what f is about to save or to create.
BringsNone(f) ==
    \A g \in Flows : Early(g) =>
        /\ flow'[f].op = "save" => Before(Head(flow'[f].was), g)
        /\ flow'[f].op = "create" /\ g # f => Clear(flow'[f].new, g)

\* Nothing of a flow that is early is shown, when a step shows and brings none.
LEMMA UnshownStep ==
    ASSUME NEW f \in Flows, OthersAlike(f), \A g \in Flows : Unshown(g),
           flow'[f].pc # "idle", flow'[f].pc \in {"post", "answered"} => Early(f),
           ShowsNone(f), BringsNone(f)
    PROVE  \A g \in Flows : Unshown(g)'
<1>1. SUFFICES ASSUME NEW g \in Flows, flow'[g].pc \in {"idle", "post", "answered"}
               PROVE  Unshown(g)'
  BY DEF Unshown, Early, Pc
<1>2. /\ Early(g) /\ (g = f => flow'[f].pc \in {"post", "answered"})
      /\ flow'[g].pc = "idle" => Pc(g) = "idle" /\ g # f
  <2>1. CASE g = f  BY <1>1, <2>1 DEF Early, Pc
  <2>2. CASE g # f  BY <1>1, <2>2, Kept DEF Early, Pc
  <2>3. QED  BY <2>1, <2>2
<1>3. /\ screen'.cases[g] = <<>> /\ screen'.folders[g] = 0 /\ screen'.runs[g] = None
      /\ Real(g) \notin screen'.reqs
      /\ \A c \in Cases : screen'.cases[c] # <<>> =>
            /\ Clear(Head(screen'.cases[c]), g)
            /\ (Pc(g) = "idle" /\ g # f) => Temp(g) \notin Head(screen'.cases[c]).reqs
  BY <1>2 DEF ShowsNone
<1>4. \A c \in Cases : OnScreen(c)' => Before(First(c), g)'
  BY <1>2, <1>3 DEF OnScreen, First, Before, Clear, Pc
<1>5. ASSUME NEW h \in Flows, flow'[h].op = "save"  PROVE Before(Head(flow[h].was), g)'
  <2>1. Before(Head(flow'[h].was), g)
    <3>1. CASE h = f  BY <1>2, <1>5, <3>1 DEF BringsNone
    <3>2. CASE h # f
      <4>1. flow'[h].was = flow[h].was /\ Op(h) = "save"  BY <1>5, <3>2, Kept DEF Op
      <4>2. QED  BY <1>2, <4>1 DEF Unshown
    <3>3. QED  BY <3>1, <3>2
  <2>2. QED  BY <1>2, <2>1 DEF Before, Clear, Pc
<1>6. ASSUME NEW h \in Flows \ {g}, flow'[h].op = "create"  PROVE Clear(flow'[h].new, g)
  <2>1. CASE h = f  BY <1>2, <1>6, <2>1 DEF BringsNone
  <2>2. CASE h # f
    <3>1. flow'[h].new = flow[h].new /\ Op(h) = "create"  BY <1>6, <2>2, Kept DEF Op
    <3>2. QED  BY <1>2, <1>6, <3>1 DEF Unshown
  <2>3. QED  BY <2>1, <2>2
<1>7. (\A h \in Flows \ {g} : Op(h) = "create" => Clear(flow[h].new, g))'
  BY <1>6 DEF Op, Clear
<1>8. QED  BY <1>3, <1>4, <1>5, <1>7 DEF Unshown, Op

\* A flow that goes on brings nothing that it did not have.
LEMMA OnBrings ==
    ASSUME NEW f \in Flows, \A g \in Flows : Unshown(g),
           \/ flow'[f].op \notin {"save", "create"}
           \/ /\ flow'[f].op = flow[f].op /\ flow'[f].was = flow[f].was
              /\ flow'[f].new = flow[f].new
    PROVE  BringsNone(f)
BY DEF BringsNone, Unshown, Op

\* The same screen shows nothing more.
LEMMA SameShows ==
    ASSUME NEW f \in Flows, \A g \in Flows : Unshown(g), SameContent(screen', screen)
    PROVE  ShowsNone(f)
BY DEF ShowsNone, Unshown, SameContent, OnScreen, First, Before

\* The case that a new flow is about has been confirmed.
LEMMA OnScreenDone ==
    ASSUME Settled, \A g \in Flows : Unshown(g), NEW c \in Cases, OnScreen(c), c \in Flows
    PROVE  Pc(c) = "done"
<1>1. case[c] # None  BY DEF Settled, Rooted, OnScreen
<1>2. ~Early(c)  BY DEF Unshown, OnScreen
<1>3. Pc(c) = "done" \/ At(c, "create", "answered")  BY <1>1 DEF Settled, Rooted
<1>4. QED  BY <1>2, <1>3 DEF Early, At, Pc

\* What the other flows are about stays known.
LEMMA KnownOthers ==
    ASSUME Fine, Settled, NEW f \in Flows, OthersAlike(f), Pc(f) # "done",
           \A g \in Flows : Known(g), NEW g \in Flows \ {f},
           Op(g) = "save" /\ screen'.cases[flow[g].case] # <<>> =>
               \A x \in Head(flow[g].was).reqs :
                   x \in Head(screen'.cases[flow[g].case]).reqs \/ x \notin screen'.reqs
    PROVE  Known(g)'
<1>1. /\ flow'[g].op = flow[g].op /\ flow'[g].case = flow[g].case
      /\ flow'[g].was = flow[g].was /\ flow'[g].new = flow[g].new
  BY Kept
<1>2. Op(g) \in AboutCase /\ flow[g].case \in Flows => Pc(flow[g].case)' = "done"
  <2>1. ASSUME Op(g) \in AboutCase, flow[g].case \in Flows
        PROVE  Pc(flow[g].case)' = "done"
    <3>1. PICK c : c = flow[g].case  OBVIOUS
    <3>2. Pc(c) = "done" /\ c \in Flows /\ c # f  BY <2>1, <3>1 DEF Known
    <3>3. flow'[c].pc = "done"  BY <3>2, Kept DEF Pc
    <3>4. QED  BY <1>1, <3>1, <3>3 DEF Pc
  <2>2. QED  BY <2>1
<1>3. Known(g)  OBVIOUS
<1>4. QED  BY <1>1, <1>2, <1>3 DEF Known, Op, OnScreen, First

\* A flow that has gone on, or has ended.
LEMMA KnownSelf ==
    ASSUME Fine, Settled, NEW f \in Flows, OthersAlike(f), \A g \in Flows : Known(g),
           \/ flow'[f].op \notin AboutCase \cup {"create"}
           \/ \E pc : Onward(f, pc),
           Op(f) = "save" /\ flow'[f].op = "save" /\ screen'.cases[flow[f].case] # <<>> =>
               \A x \in Head(flow[f].was).reqs :
                   x \in Head(screen'.cases[flow[f].case]).reqs \/ x \notin screen'.reqs,
           Op(f) \in AboutCase => flow[f].case # f
    PROVE  Known(f)'
<1>1. CASE flow'[f].op \notin AboutCase \cup {"create"}
  BY <1>1 DEF Known, Op, AboutCase
<1>2. ASSUME NEW pc, Onward(f, pc)  PROVE Known(f)'
  <2>1. /\ flow'[f].op = flow[f].op /\ flow'[f].case = flow[f].case
        /\ flow'[f].was = flow[f].was /\ flow'[f].new = flow[f].new
    BY <1>2 DEF Onward
  <2>2. ASSUME Op(f) \in AboutCase, flow[f].case \in Flows
        PROVE  flow'[flow[f].case].pc = "done"
    <3>1. PICK c : c = flow[f].case  OBVIOUS
    <3>2. Pc(c) = "done" /\ c \in Flows \ {f}  BY <2>2, <3>1 DEF Known
    <3>3. flow'[c].pc = flow[c].pc  BY <3>2, Kept
    <3>4. QED  BY <3>1, <3>2, <3>3 DEF Pc
  <2>3. Known(f)  OBVIOUS
  <2>4. QED  BY <2>1, <2>2, <2>3 DEF Known, Op, Pc, OnScreen, First
<1>3. QED  BY <1>1, <1>2

\* The case that a flow is about is not its own.
LEMMA NotOwn ==
    ASSUME Fine, NEW f \in Flows, Known(f), Op(f) \in AboutCase
    PROVE  flow[f].case # f
<1>1. Op(f) \in CommandOps  BY DEF AboutCase, CommandOps
<1>2. Pc(f) # "done"  BY <1>1, Kinds DEF Fine
<1>3. QED  BY <1>2 DEF Known

\* Steps that no answer comes of or goes with, on the same screen and rows.
Calm(f) ==
    /\ OthersAlike(f) /\ SameContent(screen', screen) /\ UNCHANGED Server
    /\ Pc(f) \notin {"answered", "done"} /\ flow'[f].pc \notin {"answered", "idle"}

\* The answers of one kind that are on their way stay the same.
Steady(op) ==
    \A g \in Flows :
        /\ At(g, op, "answered")' <=> At(g, op, "answered")
        /\ At(g, op, "answered") =>
              /\ flow'[g].case = flow[g].case /\ flow'[g].was = flow[g].was
              /\ flow'[g].new = flow[g].new /\ flow'[g].cases = flow[g].cases

\* A step that neither takes nor leaves an answer of a kind.
LEMMA SteadyBy ==
    ASSUME NEW f \in Flows, OthersAlike(f), NEW op, ~At(f, op, "answered"),
           ~(flow'[f].op = op /\ flow'[f].pc = "answered")
    PROVE  Steady(op)
<1>1. ASSUME NEW g \in Flows
      PROVE  /\ At(g, op, "answered")' <=> At(g, op, "answered")
             /\ At(g, op, "answered") =>
                   /\ flow'[g].case = flow[g].case /\ flow'[g].was = flow[g].was
                   /\ flow'[g].new = flow[g].new /\ flow'[g].cases = flow[g].cases
  <2>1. CASE g = f  BY <2>1 DEF At
  <2>2. CASE g # f  BY <2>2, Kept DEF At
  <2>3. QED  BY <2>1, <2>2
<1>2. QED  BY <1>1 DEF Steady

\* Rows and screen have the same cases after a step about something else.
LEMMA ExistenceStays ==
    ASSUME NEW c \in Cases, Existence(c), Steady("delete"), Steady("create"),
           case'[c] = case[c], links' = links,
           Len(screen'.cases[c]) = Len(screen.cases[c]),
           screen'.cases[c] = <<>> <=> screen.cases[c] = <<>>
    PROVE  Existence(c)'
<1>1. (\E g \in Flows : At(g, "delete", "answered") /\ flow[g].case = c)
         => (\E g \in Flows : At(g, "delete", "answered") /\ flow[g].case = c)'
  BY DEF Steady
<1>2. \A g \in Flows : (At(g, "delete", "answered") /\ flow[g].case = c)'
         => At(g, "delete", "answered") /\ flow[g].case = c
  BY DEF Steady
<1>3. c \in Flows => (At(c, "create", "answered")' <=> At(c, "create", "answered"))
                     /\ (At(c, "create", "answered") => flow'[c].new = flow[c].new)
  BY DEF Steady
<1>4. QED  BY <1>1, <1>2, <1>3 DEF Existence, OnScreen

\* So they do with the fields of a case,
LEMMA FieldsStay ==
    ASSUME NEW c \in Cases, Fields(c), Steady("save"),
           case'[c].ver = case[c].ver, case'[c].folder = case[c].folder,
           screen'.cases[c] = screen.cases[c]
    PROVE  Fields(c)'
<1>1. \A g \in Flows : g \in Saves(c)' <=> g \in Saves(c)  BY DEF Saves, Steady
<1>2. Saves(c)' = Saves(c)  BY <1>1 DEF Saves
<1>3. \A g \in Saves(c) : /\ Crossed(g)' <=> Crossed(g)
                          /\ flow'[g].new = flow[g].new
  BY DEF Saves, Crossed, Steady
<1>4. QED  BY <1>2, <1>3 DEF Fields, OnScreen, First

\* with its comments,
LEMMA RemarksStay ==
    ASSUME NEW c \in Cases, Remarked(c), Steady("comment"), case'[c] = case[c],
           screen'.cases[c] # <<>> =>
               screen.cases[c] # <<>> /\ Head(screen'.cases[c]).comments = First(c).comments
    PROVE  Remarked(c)'
<1>1. \A g \in Flows : (At(g, "comment", "answered") /\ flow[g].case = c)'
         <=> At(g, "comment", "answered") /\ flow[g].case = c
  BY DEF Steady
<1>2. QED  BY <1>1 DEF Remarked, OnScreen, First

\* with the folders,
LEMMA FoldersStay ==
    ASSUME FoldersTold, Steady("folder"), folder' = folder,
           screen'.folders = screen.folders
    PROVE  FoldersTold'
BY DEF FoldersTold, Steady

\* with the requirements,
LEMMA ReqsStay ==
    ASSUME ReqsTold, Steady("require"), reqs' = reqs,
           \A q \in Reqs : Real(q) \in screen'.reqs <=> Real(q) \in screen.reqs
    PROVE  ReqsTold'
BY DEF ReqsTold, Steady

\* and with the runs.
LEMMA RunsStay ==
    ASSUME RunsTold, Steady("run"), run' = run, screen'.runs = screen.runs
    PROVE  RunsTold'
BY DEF RunsTold, Steady

\* The links: f is not about one, or its link is there already.
LEMMA LinkedStays ==
    ASSUME NEW f \in Flows, OthersAlike(f), NEW c \in Cases, Linked(c),
           Op(f) \notin {"require", "link"} \/ Pc(f) = "linked",
           flow'[f].op \notin {"require", "link"},
           links' = links, screen'.reqs = screen.reqs,
           screen'.cases[c] # <<>> =>
               screen.cases[c] # <<>> /\ Head(screen'.cases[c]).reqs = First(c).reqs
    PROVE  Linked(c)'
<1>1. SUFFICES ASSUME OnScreen(c)'  PROVE Linked(c)'
  BY DEF Linked
<1>2. OnScreen(c) /\ First(c)'.reqs = First(c).reqs
  BY <1>1 DEF First, OnScreen
<1>3. ASSUME NEW q \in Reqs, NEW g \in Links(c, q), g # f
      PROVE  g \in Links(c, q)' /\ Pc(g)' = Pc(g)
  BY <1>3, Kept DEF Links, Op, Pc
<1>4. ASSUME NEW q \in Reqs, NEW g \in Links(c, q)'
      PROVE  g \in Links(c, q) /\ flow'[g].req = flow[g].req /\ Pc(g)' = Pc(g)
  BY <1>4, Kept DEF Links, Op, Pc
<1>5. \A q \in Reqs : f \in Links(c, q) => Pc(f) = "linked"  BY DEF Links
<1>6. ASSUME NEW q \in Reqs
      PROVE  /\ <<c, q>> \in links' => Real(q) \in First(c)'.reqs
             /\ Real(q) \in First(c)'.reqs =>
                   <<c, q>> \in links' \/ \E g \in Links(c, q)' : Pc(g)' \in {"wait", "link"}
             /\ Temp(q) \in First(c)'.reqs =>
                   /\ Temp(q) \in screen'.reqs
                   /\ \E g \in Links(c, q)' : Pc(g)' \in {"post", "answered", "wait"}
             /\ \A g \in Links(c, q)' : Promised(c, g)'
  <2>1. <<c, q>> \in links' => Real(q) \in First(c)'.reqs
    BY <1>2 DEF Linked
  <2>2. Real(q) \in First(c)'.reqs =>
           <<c, q>> \in links' \/ \E g \in Links(c, q)' : Pc(g)' \in {"wait", "link"}
    BY <1>2, <1>3, <1>5 DEF Linked
  <2>3. Temp(q) \in First(c)'.reqs =>
           /\ Temp(q) \in screen'.reqs
           /\ \E g \in Links(c, q)' : Pc(g)' \in {"post", "answered", "wait"}
    BY <1>2, <1>3, <1>5 DEF Linked
  <2>4. ASSUME NEW g \in Links(c, q)'  PROVE Promised(c, g)'
    <3>1. g \in Links(c, q) /\ flow'[g].req = flow[g].req /\ Pc(g)' = Pc(g)
      BY <1>4
    <3>2. Promised(c, g)  BY <1>2, <3>1 DEF Linked
    <3>3. QED  BY <1>2, <3>1, <3>2 DEF Promised
  <2>5. QED  BY <2>1, <2>2, <2>3, <2>4
<1>7. QED  BY <1>6 DEF Linked

\* A click, a call that was not carried out, a read, or a link that is told.
LEMMA CalmTracked ==
    ASSUME Even, Tracked, NEW f \in Flows,
           Quiet(f) \/ Reads(f) \/ ConfirmLink(f) \/ (Fail(f) /\ ~misled')
    PROVE  Tracked'
<1>1. /\ Fine /\ Settled /\ AllPlaced /\ \A g \in Flows : Unshown(g) /\ Known(g)
  BY DEF Even, Settled, Tracked
<1>2. Calm(f) /\ (Op(f) \notin {"require", "link"} \/ Pc(f) = "linked")
      /\ flow'[f].op \notin {"require", "link"}
  <2>1. CASE Quiet(f)
    <3>1. SameContent(screen', screen) /\ UNCHANGED Server /\ Begun(f) /\ OthersAlike(f)
      BY <1>1, <2>1, QuietFine
    <3>2. Op(f) = "none"  BY <1>1, <3>1, Kinds DEF Begun, Fine, Idle, Op
    <3>3. QED  BY <3>1, <3>2 DEF Calm, Begun
  <2>2. CASE Reads(f)
    <3>1. UNCHANGED <<Server, screen>> /\ OthersAlike(f) /\ ReadOne(f)
      BY <1>1, <2>2, ReadsFine
    <3>2. Op(f) = "sync" /\ Pc(f) = "read" /\ flow'[f].op = "sync" /\ flow'[f].pc = "read"
      BY <1>1, <3>1, Kinds DEF Fine, ReadOne, Op
    <3>3. QED  BY <3>1, <3>2 DEF Calm, SameContent
  <2>3. CASE ConfirmLink(f) \/ (Fail(f) /\ ~misled')
    <3>1. /\ UNCHANGED <<Server, screen>> /\ OthersAlike(f) /\ flow'[f] = Past
          /\ \/ Pc(f) = "linked"
             \/ Pc(f) \in {"post", "read"} /\ Op(f) # "require"
      BY <1>1, <2>3, ConfirmLinkFine, FailFine
    <3>2. Pc(f) \in {"post", "read"} => Op(f) # "link"
      BY <1>1 DEF AllPlaced, Placed
    <3>3. QED  BY <3>1, <3>2 DEF Calm, SameContent, Past
  <2>4. QED  BY <2>1, <2>2, <2>3
<1>5. OthersAlike(f) /\ SameContent(screen', screen) /\ Pc(f) # "done" /\ flow'[f].pc # "idle"
  BY <1>2 DEF Calm
<1>9. /\ screen'.cases = screen.cases /\ screen'.folders = screen.folders
      /\ screen'.reqs = screen.reqs /\ screen'.runs = screen.runs
      /\ case' = case /\ links' = links /\ folder' = folder /\ reqs' = reqs /\ run' = run
  BY <1>2 DEF Calm, SameContent, Server
<1>10. \A op : Steady(op)
  <2>1. ~\E op : At(f, op, "answered")  BY <1>2 DEF Calm, At, Pc
  <2>2. flow'[f].pc # "answered"  BY <1>2 DEF Calm
  <2>3. QED  BY <1>5, <2>1, <2>2, SteadyBy
<1>3. \A c \in Cases : Existence(c)' /\ Fields(c)' /\ Remarked(c)' /\ Linked(c)'
  BY <1>2, <1>5, <1>9, <1>10, ExistenceStays, FieldsStay, RemarksStay, LinkedStays
  DEF Tracked, First
<1>4. FoldersTold' /\ ReqsTold' /\ RunsTold'
  BY <1>9, <1>10, FoldersStay, ReqsStay, RunsStay DEF Tracked
<1>6. \A g \in Flows : Unshown(g)'
  <2>1. ShowsNone(f)  BY <1>1, <1>5, SameShows
  <2>2. flow'[f].pc \in {"post", "answered"} => Early(f)
    <3>1. CASE Quiet(f)  BY <1>1, <3>1, QuietFine DEF Begun, Early
    <3>2. CASE ~Quiet(f)
      BY <1>1, <3>2, ReadsFine, ConfirmLinkFine, FailFine DEF ReadOne, Past
    <3>3. QED  BY <3>1, <3>2
  <2>3. BringsNone(f)
    <3>1. CASE Quiet(f)
      <4>1. Begun(f)  BY <1>1, <3>1, QuietFine
      <4>2. ASSUME NEW g \in Flows, Early(g), flow'[f].op = "save"
            PROVE  Before(Head(flow'[f].was), g)
        <5>1. PICK c : c = flow'[f].case  OBVIOUS
        <5>2. c \in Cases /\ OnScreen(c) /\ flow'[f].was = screen.cases[c]
          BY <4>1, <4>2, <5>1 DEF Begun, ListedCases, OnScreen
        <5>3. QED  BY <1>1, <4>2, <5>2 DEF Unshown, First
      <4>3. ASSUME NEW g \in Flows \ {f}, Early(g), flow'[f].op = "create"
            PROVE  Clear(flow'[f].new, g)
        <5>1. NewOrCopy(f, flow'[f].new)  BY <4>1, <4>3 DEF Begun
        <5>2. PICK new : new = flow'[f].new  OBVIOUS
        <5>3. CASE new.ver = f /\ new.comments = NoComment /\ new.reqs = {}
          BY <4>3, <5>2, <5>3 DEF Clear, NoComment
        <5>4. ASSUME NEW c \in ListedCases(screen),
                     new = [Head(screen.cases[c]) EXCEPT !.reqs = {}, !.local = FALSE]
              PROVE  Clear(new, g)
          <6>1. c \in Cases /\ OnScreen(c)  BY DEF ListedCases, OnScreen
          <6>2. First(c) \in Copy  BY <1>1, <6>1, HeadTyped DEF OnScreen, First
          <6>3. /\ new.ver = First(c).ver /\ new.comments = First(c).comments
                /\ new.reqs = {}
            BY <5>4, <6>2 DEF First, Copy
          <6>4. Clear(First(c), g)  BY <1>1, <4>3, <6>1 DEF Unshown, Before
          <6>5. QED  BY <6>3, <6>4 DEF Clear
        <5>5. QED  BY <5>1, <5>2, <5>3, <5>4 DEF NewOrCopy
      <4>4. QED  BY <4>2, <4>3 DEF BringsNone
    <3>2. CASE ~Quiet(f)
      <4>1. flow'[f].op \notin {"save", "create"}
        BY <1>1, <3>2, ReadsFine, ConfirmLinkFine, FailFine DEF ReadOne, Past
      <4>2. QED  BY <1>1, <4>1, OnBrings
    <3>3. QED  BY <3>1, <3>2
  <2>4. QED  BY <1>1, <1>5, <2>1, <2>2, <2>3, UnshownStep
<1>7. ASSUME NEW g \in Flows  PROVE Known(g)'
  <2>1. CASE g # f
    <3>1. Known(g)  BY <1>1
    <3>2. Op(g) = "save" /\ screen'.cases[flow[g].case] # <<>> =>
              \A x \in Head(flow[g].was).reqs :
                  x \in Head(screen'.cases[flow[g].case]).reqs \/ x \notin screen'.reqs
      BY <1>5, <3>1 DEF Known, SameContent, OnScreen, First
    <3>3. QED  BY <1>1, <1>5, <2>1, <3>2, KnownOthers
  <2>2. CASE g = f /\ Quiet(f)
    <3>1. Begun(f)  BY <1>1, <2>2, QuietFine
    <3>2. PICK x : x = flow'[f]  OBVIOUS
    <3>3. /\ x.op \notin {"require", "link"}
          /\ x.op \in {"save", "delete", "comment"} => x.case \in ListedCases(screen)
          /\ x.op = "save" => x.was = screen.cases[x.case]
          /\ x.op = "create" => NewOrCopy(f, x.new)
      BY <3>1, <3>2 DEF Begun
    <3>4. x.op = "create" => x.new.reqs = {}
      <4>1. \A c \in ListedCases(screen) : Head(screen.cases[c]) \in Copy
        BY <1>1, HeadTyped DEF ListedCases
      <4>2. \A c \in ListedCases(screen) :
               x.new = [Head(screen.cases[c]) EXCEPT !.reqs = {}, !.local = FALSE]
               => x.new.reqs = {}
        BY <4>1 DEF Copy
      <4>3. QED  BY <3>3, <4>2 DEF NewOrCopy
    <3>5. ASSUME x.op \in {"save", "delete", "comment"}
          PROVE  /\ x.case \in Cases /\ OnScreen(x.case)
                 /\ x.case \in Flows => flow'[x.case].pc = "done"
      <4>1. PICK c : c = x.case  OBVIOUS
      <4>2. c \in Cases /\ OnScreen(c)  BY <3>3, <3>5, <4>1 DEF ListedCases, OnScreen
      <4>3. c \in Flows => Pc(c) = "done"  BY <1>1, <4>2, OnScreenDone
      <4>4. c \in Flows => c # f  BY <1>5, <4>3
      <4>5. c \in Flows => flow'[c].pc = "done"  BY <1>5, <4>3, <4>4, Kept DEF Pc
      <4>6. QED  BY <4>1, <4>2, <4>5
    <3>6. x.op = "save" => /\ Len(x.was) = 1
                           /\ Head(x.was) = Head(screen'.cases[x.case])
      <4>1. ASSUME x.op = "save"
            PROVE  /\ Len(x.was) = 1 /\ Head(x.was) = Head(screen'.cases[x.case])
        <5>1. PICK c : c = x.case  OBVIOUS
        <5>2. c \in Cases /\ OnScreen(c) /\ x.was = screen.cases[c]
          BY <3>3, <3>5, <4>1, <5>1
        <5>3. Len(screen.cases[c]) <= 1  BY <5>2 DEF Tracked, Existence
        <5>4. screen.cases[c] \in Seq(Copy) /\ screen.cases[c] # <<>>
          BY <1>1, <5>2 DEF Fine, Good, Screen, OnScreen
        <5>5. Len(screen.cases[c]) \in Nat \ {0}  BY <5>4, HeadIn
        <5>6. Len(screen.cases[c]) = 1
          <6>1. PICK n : n = Len(screen.cases[c])  OBVIOUS
          <6>2. n \in Nat \ {0} /\ n <= 1  BY <5>3, <5>5, <6>1
          <6>3. n = 1  BY <6>2
          <6>4. QED  BY <6>1, <6>3
        <5>7. screen'.cases[c] = screen.cases[c]  BY <1>5 DEF SameContent
        <5>8. QED  BY <5>1, <5>2, <5>6, <5>7
      <4>2. QED  BY <4>1
    <3>7. QED
      BY <2>2, <3>2, <3>3, <3>4, <3>5, <3>6 DEF Known, Op, Pc, AboutCase, First
  <2>3. CASE g = f /\ ~Quiet(f)
    <3>1. flow'[f].op \notin AboutCase \cup {"create"}
      BY <1>1, <2>3, ReadsFine, ConfirmLinkFine, FailFine DEF ReadOne, Past, AboutCase
    <3>2. QED  BY <2>3, <3>1 DEF Known, Op, AboutCase
  <2>4. QED  BY <2>1, <2>2, <2>3
<1>8. QED  BY <1>3, <1>4, <1>6, <1>7 DEF Tracked

\* The user alone, or nobody.
LEMMA StillTracked ==
    ASSUME Tracked, UNCHANGED <<Server, flow>>, SameContent(screen', screen)
    PROVE  Tracked'
<1>1. /\ screen'.cases = screen.cases /\ screen'.folders = screen.folders
      /\ screen'.reqs = screen.reqs /\ screen'.runs = screen.runs
      /\ case' = case /\ folder' = folder /\ reqs' = reqs /\ links' = links /\ run' = run
      /\ flow' = flow
  BY DEF Server, SameContent
<1>2. \A g \in Flows : Unshown(g)' /\ Known(g)'
  BY <1>1 DEF Tracked, Unshown, Known, Early, Before, Clear, OnScreen, First, Op, Pc
<1>3. \A c \in Cases : Existence(c)' /\ Remarked(c)'
  BY <1>1 DEF Tracked, Existence, Remarked, OnScreen, First, At
<1>4. ASSUME NEW c \in Cases  PROVE Fields(c)'
  <2>1. Saves(c)' = Saves(c) /\ \A g : Crossed(g)' = Crossed(g)
    BY <1>1 DEF Saves, Crossed, At
  <2>2. QED  BY <1>1, <2>1 DEF Tracked, Fields, OnScreen, First
<1>5. ASSUME NEW c \in Cases  PROVE Linked(c)'
  <2>1. \A q : Links(c, q)' = Links(c, q)  BY <1>1 DEF Links, Op
  <2>2. \A g : Promised(c, g)' = Promised(c, g)  BY <1>1 DEF Promised, First, Pc
  <2>3. QED  BY <1>1, <2>1, <2>2 DEF Tracked, Linked, OnScreen, First, Pc
<1>6. FoldersTold' /\ ReqsTold' /\ RunsTold'
  BY <1>1 DEF Tracked, FoldersTold, ReqsTold, RunsTold, At
<1>7. QED  BY <1>2, <1>3, <1>4, <1>5, <1>6 DEF Tracked

\* What a call changes of the row of case c.
RowServed(f, c) ==
    /\ case[c] # None =>
          /\ IF Op(f) = "save" /\ flow[f].case = c
             THEN case'[c].ver = flow[f].new.ver /\ case'[c].folder = flow[f].new.folder
             ELSE case'[c].ver = case[c].ver /\ case'[c].folder = case[c].folder
          /\ IF Op(f) = "delete" /\ flow[f].case = c
             THEN case'[c].archived ELSE case'[c].archived = case[c].archived
          /\ \A g \in Flows :
                IF Op(f) = "comment" /\ flow[f].case = c /\ g = f
                THEN case'[c].comments[g] = 1
                ELSE case'[c].comments[g] = case[c].comments[g]
    /\ case[c] = None => case'[c] = None \/ (c = f /\ Op(f) = "create")
    /\ c # f /\ (Op(f) \in AboutCase => flow[f].case # c) => case'[c] = case[c]
    /\ c = f /\ Op(f) = "create" =>
          /\ case'[c].ver = flow[f].new.ver /\ case'[c].folder = flow[f].new.folder
          /\ ~case'[c].archived /\ case'[c].comments = NoComment

\* And of the other rows.
ListsServed(f) ==
    /\ \A g \in Folders \ {f} : folder'[g] = folder[g]
    /\ IF Op(f) = "folder" THEN folder'[f] # Missing ELSE folder'[f] = folder[f]
    /\ \A q : q \in reqs' <=> q \in reqs \/ (q = f /\ At(f, "require", "post"))
    /\ \A r \in Flows \ {f} : run'[r] = run[r]
    /\ run'[f] = IF Op(f) = "run" THEN flow[f].cases ELSE run[f]
    /\ \A c, q : <<c, q>> \in links' <=>
          <<c, q>> \in links \/ (Pc(f) = "link" /\ flow[f].case = c /\ flow[f].req = q)

\* What a call that is carried out leaves behind, whichever it is.
LEMMA Served ==
    ASSUME Fine, Settled, NEW f \in Flows, Serves(f)
    PROVE  /\ UNCHANGED screen /\ OthersAlike(f) /\ Pc(f) \in {"post", "link"}
           /\ Onward(f, IF Pc(f) = "link" THEN "linked" ELSE "answered")
           /\ ListsServed(f) /\ \A c \in Cases : RowServed(f, c)
<1>1. AllPlaced /\ f \in Cases  BY DEF Settled, Cases
<1>2. /\ UNCHANGED screen /\ OthersAlike(f) /\ Pc(f) \in {"post", "link"}
      /\ Onward(f, IF Pc(f) = "link" THEN "linked" ELSE "answered")
  BY <1>1, InsertCaseFine, InsertFolderFine, PatchCaseFine, ArchiveCaseFine,
     InsertCommentFine, InsertRequirementFine, InsertLinkFine, InsertRunFine
  DEF Serves, At, Pc
<1>3. CASE InsertCase(f)
  <2>1. /\ UNCHANGED <<folder, reqs, links, run>> /\ At(f, "create", "post") /\ OnlyRow(f)
        /\ case'[f].ver = flow[f].new.ver /\ case'[f].folder = flow[f].new.folder
        /\ ~case'[f].archived /\ case'[f].comments = NoComment
    BY <1>1, <1>3, InsertCaseFine
  <2>2. ListsServed(f)  BY <2>1 DEF ListsServed, At, Op, Pc
  <2>3. case[f] = None  BY <2>1 DEF Settled, Unwritten, Fresh, At, Pc
  <2>4. \A c \in Cases : RowServed(f, c)
    BY <2>1, <2>3 DEF RowServed, OnlyRow, At, Op, AboutCase
  <2>5. QED  BY <1>2, <2>2, <2>4
<1>4. CASE InsertFolder(f)
  <2>1. /\ UNCHANGED <<case, reqs, links, run>> /\ At(f, "folder", "post")
        /\ folder'[f] # Missing /\ \A g \in Folders \ {f} : folder'[g] = folder[g]
    BY <1>4, InsertFolderFine
  <2>2. ListsServed(f)  BY <2>1 DEF ListsServed, At, Op, Pc
  <2>3. \A c \in Cases : RowServed(f, c)  BY <2>1 DEF RowServed, At, Op
  <2>4. QED  BY <1>2, <2>2, <2>3
<1>5. CASE PatchCase(f)
  <2>1. /\ UNCHANGED <<folder, reqs, links, run>> /\ At(f, "save", "post")
        /\ OnlyRow(flow[f].case)
    BY <1>1, <1>5, PatchCaseFine
  <2>2. PICK c : /\ c = flow[f].case /\ case[c] # None
                 /\ case'[c].ver = flow[f].new.ver /\ case'[c].folder = flow[f].new.folder
                 /\ case'[c].archived = case[c].archived
                 /\ case'[c].comments = case[c].comments
    BY <1>1, <1>5, PatchCaseFine
  <2>3. ListsServed(f)  BY <2>1 DEF ListsServed, At, Op, Pc
  <2>4. \A d \in Cases : RowServed(f, d)
    BY <2>1, <2>2 DEF RowServed, OnlyRow, At, Op, AboutCase
  <2>5. QED  BY <1>2, <2>3, <2>4
<1>6. CASE ArchiveCase(f)
  <2>1. /\ UNCHANGED <<folder, reqs, links, run>> /\ At(f, "delete", "post")
        /\ OnlyRow(flow[f].case)
    BY <1>1, <1>6, ArchiveCaseFine
  <2>2. PICK c : /\ c = flow[f].case /\ case[c] # None
                 /\ case'[c].ver = case[c].ver /\ case'[c].folder = case[c].folder
                 /\ case'[c].archived /\ case'[c].comments = case[c].comments
    BY <1>1, <1>6, ArchiveCaseFine
  <2>3. ListsServed(f)  BY <2>1 DEF ListsServed, At, Op, Pc
  <2>4. \A d \in Cases : RowServed(f, d)
    BY <2>1, <2>2 DEF RowServed, OnlyRow, At, Op, AboutCase
  <2>5. QED  BY <1>2, <2>3, <2>4
<1>7. CASE InsertComment(f)
  <2>1. /\ UNCHANGED <<folder, reqs, links, run>> /\ At(f, "comment", "post")
        /\ OnlyRow(flow[f].case)
    BY <1>1, <1>7, InsertCommentFine
  <2>2. PICK c : /\ c = flow[f].case /\ case[c] # None
                 /\ case'[c].ver = case[c].ver /\ case'[c].folder = case[c].folder
                 /\ case'[c].archived = case[c].archived /\ case'[c].comments[f] = 1
                 /\ \A g \in Flows \ {f} : case'[c].comments[g] = case[c].comments[g]
    BY <1>1, <1>7, InsertCommentFine
  <2>3. ListsServed(f)  BY <2>1 DEF ListsServed, At, Op, Pc
  <2>4. \A d \in Cases : RowServed(f, d)
    BY <2>1, <2>2 DEF RowServed, OnlyRow, At, Op, AboutCase
  <2>5. QED  BY <1>2, <2>3, <2>4
<1>8. CASE InsertRequirement(f)
  <2>1. /\ UNCHANGED <<case, folder, links, run>> /\ At(f, "require", "post")
        /\ reqs' = reqs \cup {f}
    BY <1>8, InsertRequirementFine
  <2>2. ListsServed(f)  BY <2>1 DEF ListsServed, At, Op, Pc
  <2>3. \A c \in Cases : RowServed(f, c)  BY <2>1 DEF RowServed, At, Op
  <2>4. QED  BY <1>2, <2>2, <2>3
<1>9. CASE InsertLink(f)
  <2>1. /\ UNCHANGED <<case, folder, reqs, run>>
        /\ Op(f) \in {"require", "link"} /\ Pc(f) = "link"
        /\ links' = links \cup {<<flow[f].case, flow[f].req>>}
    BY <1>1, <1>9, InsertLinkFine
  <2>2. ListsServed(f)
    <3>1. \A c, q : <<c, q>> = <<flow[f].case, flow[f].req>> <=>
                       flow[f].case = c /\ flow[f].req = q
      OBVIOUS
    <3>2. QED  BY <2>1, <3>1 DEF ListsServed, At, Op, Pc
  <2>3. \A c \in Cases : RowServed(f, c)  BY <2>1 DEF RowServed, Op
  <2>4. QED  BY <1>2, <2>2, <2>3
<1>10. CASE InsertRun(f)
  <2>1. /\ UNCHANGED <<case, folder, reqs, links>> /\ At(f, "run", "post")
        /\ run'[f] = flow[f].cases /\ \A r \in Flows \ {f} : run'[r] = run[r]
    BY <1>10, InsertRunFine
  <2>2. ListsServed(f)  BY <2>1 DEF ListsServed, At, Op, Pc
  <2>3. \A c \in Cases : RowServed(f, c)  BY <2>1 DEF RowServed, At, Op
  <2>4. QED  BY <1>2, <2>2, <2>3
<1>11. QED
  BY <1>3, <1>4, <1>5, <1>6, <1>7, <1>8, <1>9, <1>10 DEF Serves

\* What is answered after a call.
LEMMA ServedAnswers ==
    ASSUME NEW f \in Flows, OthersAlike(f), Pc(f) \in {"post", "link"},
           Onward(f, IF Pc(f) = "link" THEN "linked" ELSE "answered"), NEW g \in Flows
    PROVE  /\ flow'[g].op = flow[g].op /\ flow'[g].case = flow[g].case
           /\ flow'[g].req = flow[g].req /\ flow'[g].was = flow[g].was
           /\ flow'[g].new = flow[g].new /\ flow'[g].cases = flow[g].cases
           /\ flow'[g].pc = IF g # f THEN flow[g].pc
                            ELSE IF Pc(f) = "link" THEN "linked" ELSE "answered"
           /\ \A op : At(g, op, "answered")' <=>
                         At(g, op, "answered") \/ (g = f /\ At(f, op, "post"))
<1>1. CASE g = f  BY <1>1 DEF Onward, At, Pc
<1>2. CASE g # f  BY <1>2, Kept DEF At
<1>3. QED  BY <1>1, <1>2

\* The answers on their way tell of each call that is carried out.
LEMMA ServesTracked ==
    ASSUME Even, Tracked, NEW f \in Flows, Serves(f)
    PROVE  Tracked'
<1>1. /\ Fine /\ Settled /\ AllPlaced /\ \A g \in Flows : Unshown(g) /\ Known(g)
  BY DEF Even, Settled, Tracked
<1>2. /\ screen' = screen /\ OthersAlike(f) /\ Pc(f) \in {"post", "link"}
      /\ Onward(f, IF Pc(f) = "link" THEN "linked" ELSE "answered")
      /\ ListsServed(f) /\ \A c \in Cases : RowServed(f, c)
  BY <1>1, Served
<1>3. \A g \in Flows :
         /\ flow'[g].op = flow[g].op /\ flow'[g].case = flow[g].case
         /\ flow'[g].req = flow[g].req /\ flow'[g].was = flow[g].was
         /\ flow'[g].new = flow[g].new /\ flow'[g].cases = flow[g].cases
         /\ flow'[g].pc = IF g # f THEN flow[g].pc
                          ELSE IF Pc(f) = "link" THEN "linked" ELSE "answered"
         /\ \A op : At(g, op, "answered")' <=>
                       At(g, op, "answered") \/ (g = f /\ At(f, op, "post"))
  BY <1>2, ServedAnswers
<1>4. Op(f) \in AboutCase => flow[f].case # f  BY <1>1, NotOwn
<1>5. \A g \in Flows : Unshown(g)'
  <2>1. SameContent(screen', screen)  BY <1>2 DEF SameContent
  <2>2. ShowsNone(f)  BY <1>1, <2>1, SameShows
  <2>3. BringsNone(f)  BY <1>1, <1>3, OnBrings
  <2>4. flow'[f].pc # "idle" /\ (flow'[f].pc \in {"post", "answered"} => Early(f))
    BY <1>2, <1>3 DEF Early
  <2>5. QED  BY <1>1, <1>2, <2>2, <2>3, <2>4, UnshownStep
<1>6. ASSUME NEW g \in Flows  PROVE Known(g)'
  <2>1. Known(g)  BY <1>1
  <2>2. Op(g) = "save" /\ screen'.cases[flow[g].case] # <<>> =>
            \A x \in Head(flow[g].was).reqs :
                x \in Head(screen'.cases[flow[g].case]).reqs \/ x \notin screen'.reqs
    BY <1>2, <2>1 DEF Known, OnScreen, First
  <2>3. CASE g # f  BY <1>1, <1>2, <2>2, <2>3, KnownOthers
  <2>4. CASE g = f  BY <1>1, <1>2, <1>4, <2>2, <2>4, KnownSelf
  <2>5. QED  BY <2>3, <2>4
<1>7. ASSUME NEW c \in Cases
      PROVE  /\ OnScreen(c)' <=> OnScreen(c)
             /\ First(c)' = First(c) /\ RowServed(f, c)
             /\ OnScreen(c) => case[c] # None
  BY <1>1, <1>2 DEF OnScreen, First, Settled, Rooted
<1>8. ASSUME NEW c \in Cases  PROVE Existence(c)'
  <2>1. Existence(c)  BY DEF Tracked
  <2>2. Len(screen'.cases[c]) <= 1  BY <1>2, <2>1 DEF Existence
  <2>3. OnScreen(c)' /\ case'[c].archived =>
           \E g \in Flows : At(g, "delete", "answered")' /\ flow'[g].case = c
    <3>1. ASSUME OnScreen(c), case'[c].archived
          PROVE  \E g \in Flows : At(g, "delete", "answered")' /\ flow'[g].case = c
      <4>1. CASE Op(f) = "delete" /\ flow[f].case = c
        <5>1. At(f, "delete", "post")
          BY <1>1, <1>2, <4>1 DEF AllPlaced, Placed, At, Op, Pc
        <5>2. QED  BY <1>3, <4>1, <5>1
      <4>2. CASE ~(Op(f) = "delete" /\ flow[f].case = c)
        <5>1. case[c].archived  BY <1>7, <3>1, <4>2 DEF RowServed
        <5>2. QED  BY <1>3, <2>1, <3>1, <5>1 DEF Existence
      <4>3. QED  BY <4>1, <4>2
    <3>2. QED  BY <1>7, <3>1
  <2>4. ASSUME NEW g \in Flows, At(g, "delete", "answered")', flow'[g].case = c
        PROVE  case'[c].archived
    <3>1. flow[g].case = c /\ Op(g) = "delete"  BY <1>3, <2>4 DEF At, Op
    <3>2. case[c] # None  BY <1>1, <3>1 DEF AllPlaced, Placed, AboutCase
    <3>3. CASE g = f  BY <1>7, <3>1, <3>2, <3>3 DEF RowServed
    <3>4. CASE g # f
      <4>1. case[c].archived  BY <1>3, <2>1, <2>4, <3>1, <3>4 DEF Existence
      <4>2. QED  BY <1>7, <3>2, <4>1 DEF RowServed
    <3>5. QED  BY <3>3, <3>4
  <2>5. ASSUME ~OnScreen(c)
        PROVE  \/ case'[c] = None \/ case'[c].archived
               \/ c \in Flows /\ At(c, "create", "answered")'
    <3>1. CASE case[c] = None
      <4>1. case'[c] = None \/ (c = f /\ Op(f) = "create")
        BY <1>7, <3>1 DEF RowServed
      <4>2. Op(f) = "create" => At(f, "create", "post")
        BY <1>1, <1>2 DEF AllPlaced, Placed, At, Op, Pc
      <4>3. QED  BY <1>3, <4>1, <4>2
    <3>2. CASE case[c] # None /\ case[c].archived
      BY <1>7, <3>2 DEF RowServed
    <3>3. CASE c \in Flows /\ At(c, "create", "answered")  BY <1>3, <3>3
    <3>4. QED  BY <2>1, <2>5, <3>1, <3>2, <3>3 DEF Existence
  <2>6. ASSUME c \in Flows, At(c, "create", "answered")'
        PROVE  /\ case'[c].ver = flow'[c].new.ver /\ case'[c].folder = flow'[c].new.folder
               /\ ~case'[c].archived /\ case'[c].comments = NoComment
               /\ \A q \in Reqs : <<c, q>> \notin links'
    <3>1. CASE c = f
      <4>1. At(f, "create", "post")  BY <1>2, <1>3, <2>6, <3>1 DEF At, Pc
      <4>2. case[f] = None  BY <1>1, <4>1 DEF Settled, Unwritten, Fresh, At, Pc
      <4>3. \A q \in Reqs : <<f, q>> \notin links
        BY <1>1, <4>2 DEF Settled, Rooted
      <4>4. \A q \in Reqs : <<f, q>> \notin links'
        BY <1>2, <4>1, <4>3 DEF ListsServed, At, Pc
      <4>5. QED  BY <1>3, <1>7, <3>1, <4>1, <4>4 DEF RowServed, At, Op
    <3>2. CASE c # f
      <4>1. At(c, "create", "answered")  BY <1>3, <2>6, <3>2
      <4>2. Op(f) \in AboutCase => flow[f].case # c
        BY <1>1, <2>6, <4>1 DEF Known, At, Pc
      <4>3. case'[c] = case[c]  BY <1>7, <3>2, <4>2 DEF RowServed
      <4>4. Pc(f) = "link" => Op(f) \in AboutCase
        BY <1>1, Kinds DEF AllPlaced, Placed, Fine, CommandOps, AboutCase
      <4>5. \A q \in Reqs : <<c, q>> \notin links'
        BY <1>2, <2>1, <2>6, <4>1, <4>2, <4>4 DEF ListsServed, Existence
      <4>6. QED  BY <1>3, <2>1, <2>6, <4>1, <4>3, <4>5 DEF Existence
    <3>3. QED  BY <3>1, <3>2
  <2>7. QED  BY <1>7, <2>2, <2>3, <2>4, <2>5, <2>6 DEF Existence
<1>9. ASSUME NEW c \in Cases  PROVE Fields(c)'
  <2>1. SUFFICES ASSUME OnScreen(c)  PROVE Fields(c)'
    BY <1>7 DEF Fields
  <2>2. case[c] # None /\ Fields(c)  BY <1>7, <2>1 DEF Tracked
  <2>3. \A g \in Flows : /\ Crossed(g)' <=> Crossed(g)
                         /\ g \in Saves(c)' <=> g \in Saves(c)
                               \/ (g = f /\ At(f, "save", "post") /\ flow[f].case = c)
    BY <1>2, <1>3 DEF Crossed, Saves
  <2>4. Saves(c) \subseteq Flows /\ Saves(c)' \subseteq Flows  BY DEF Saves
  <2>5. Op(f) = "save" => At(f, "save", "post")
    BY <1>1, <1>2 DEF AllPlaced, Placed, At, Op, Pc
  <2>6. CASE Op(f) = "save" /\ flow[f].case = c
    <3>1. f \in Saves(c)'  BY <2>3, <2>5, <2>6
    <3>2. case'[c].ver = flow'[f].new.ver /\ case'[c].folder = flow'[f].new.folder
      BY <1>3, <1>7, <2>2, <2>6 DEF RowServed
    <3>3. QED  BY <3>1, <3>2 DEF Fields
  <2>7. CASE ~(Op(f) = "save" /\ flow[f].case = c)
    <3>1. case'[c].ver = case[c].ver /\ case'[c].folder = case[c].folder
      BY <1>7, <2>2, <2>7 DEF RowServed
    <3>2. Saves(c)' = Saves(c)  BY <2>3, <2>4, <2>7 DEF At, Op
    <3>3. \A g \in Saves(c) : (Crossed(g)' <=> Crossed(g)) /\ flow'[g].new = flow[g].new
      BY <1>3, <2>3, <2>4
    <3>4. QED  BY <1>7, <2>1, <2>2, <3>1, <3>2, <3>3 DEF Fields
  <2>8. QED  BY <2>6, <2>7
<1>10. ASSUME NEW c \in Cases  PROVE Remarked(c)'
  <2>1. SUFFICES ASSUME OnScreen(c), NEW g \in Flows
                 PROVE  IF At(g, "comment", "answered")' /\ flow'[g].case = c
                        THEN case'[c].comments[g] = 1
                        ELSE case'[c].comments[g] = First(c)'.comments[g]
    BY <1>7 DEF Remarked
  <2>2. case[c] # None /\ Remarked(c)  BY <1>7, <2>1 DEF Tracked
  <2>3. IF At(g, "comment", "answered") /\ flow[g].case = c
        THEN case[c].comments[g] = 1
        ELSE case[c].comments[g] = First(c).comments[g]
    BY <2>1, <2>2 DEF Remarked
  <2>4. Op(f) = "comment" => At(f, "comment", "post")
    BY <1>1, <1>2 DEF AllPlaced, Placed, At, Op, Pc
  <2>5. CASE Op(f) = "comment" /\ flow[f].case = c /\ g = f
    <3>1. case'[c].comments[g] = 1  BY <1>7, <2>2, <2>5 DEF RowServed
    <3>2. At(g, "comment", "answered")' /\ flow'[g].case = c  BY <1>3, <2>4, <2>5
    <3>3. QED  BY <3>1, <3>2
  <2>6. CASE ~(Op(f) = "comment" /\ flow[f].case = c /\ g = f)
    <3>1. case'[c].comments[g] = case[c].comments[g]  BY <1>7, <2>2, <2>6 DEF RowServed
    <3>2. (At(g, "comment", "answered")' /\ flow'[g].case = c) <=>
             At(g, "comment", "answered") /\ flow[g].case = c
      BY <1>3, <2>6 DEF At, Op
    <3>3. First(c)' = First(c)  BY <1>7
    <3>4. QED  BY <2>3, <3>1, <3>2, <3>3
  <2>7. QED  BY <2>5, <2>6
<1>11. ASSUME NEW c \in Cases  PROVE Linked(c)'
  <2>1. SUFFICES ASSUME OnScreen(c)  PROVE Linked(c)'
    BY <1>7 DEF Linked
  <2>2. Linked(c) /\ First(c)' = First(c)  BY <1>7 DEF Tracked
  <2>3. ASSUME NEW q \in Reqs
        PROVE  /\ <<c, q>> \in links' => Real(q) \in First(c)'.reqs
               /\ Real(q) \in First(c)'.reqs =>
                     <<c, q>> \in links' \/ \E g \in Links(c, q)' : Pc(g)' \in {"wait", "link"}
               /\ Temp(q) \in First(c)'.reqs =>
                     /\ Temp(q) \in screen'.reqs
                     /\ \E g \in Links(c, q)' : Pc(g)' \in {"post", "answered", "wait"}
               /\ \A g \in Links(c, q)' : Promised(c, g)'
    <3>1. Links(c, q)' = Links(c, q)  BY <1>3 DEF Links, Op
    <3>2. Links(c, q) \subseteq Flows  BY DEF Links
    <3>3. \A g \in Flows \ {f} : Pc(g)' = Pc(g)  BY <1>3 DEF Pc
    <3>4. Pc(f)' = IF Pc(f) = "link" THEN "linked" ELSE "answered"  BY <1>3 DEF Pc
    <3>5. <<c, q>> \in links' <=>
             <<c, q>> \in links \/ (Pc(f) = "link" /\ flow[f].case = c /\ flow[f].req = q)
      BY <1>2 DEF ListsServed
    <3>6. Pc(f) = "link" => Op(f) \in {"require", "link"}
      BY <1>1, Kinds DEF AllPlaced, Placed, Fine, CommandOps
    <3>7. Pc(f) = "link" /\ flow[f].case = c /\ flow[f].req = q => f \in Links(c, q)
      BY <3>6 DEF Links
    <3>8. \A g \in Links(c, q) : flow[g].case = c /\ flow[g].req = q  BY DEF Links
    <3>9. ASSUME <<c, q>> \in links'  PROVE Real(q) \in First(c)'.reqs
      <4>1. CASE <<c, q>> \in links  BY <2>1, <2>2, <4>1 DEF Linked
      <4>2. CASE Pc(f) = "link" /\ flow[f].case = c /\ flow[f].req = q
        <5>1. Promised(c, f)  BY <2>1, <2>2, <3>7, <4>2 DEF Linked
        <5>2. QED  BY <2>2, <4>2, <5>1 DEF Promised
      <4>3. QED  BY <3>5, <3>9, <4>1, <4>2
    <3>10. ASSUME Real(q) \in First(c)'.reqs
           PROVE  <<c, q>> \in links' \/ \E g \in Links(c, q)' : Pc(g)' \in {"wait", "link"}
      <4>1. <<c, q>> \in links \/ \E g \in Links(c, q) : Pc(g) \in {"wait", "link"}
        BY <2>1, <2>2, <3>10 DEF Linked
      <4>2. ASSUME NEW g \in Links(c, q), Pc(g) \in {"wait", "link"}
            PROVE  <<c, q>> \in links' \/ \E h \in Links(c, q)' : Pc(h)' \in {"wait", "link"}
        <5>1. CASE g = f  BY <1>2, <3>5, <3>8, <4>2, <5>1
        <5>2. CASE g # f  BY <3>1, <3>2, <3>3, <4>2, <5>2
        <5>3. QED  BY <5>1, <5>2
      <4>3. QED  BY <3>5, <4>1, <4>2
    <3>11. ASSUME Temp(q) \in First(c)'.reqs
           PROVE  /\ Temp(q) \in screen'.reqs
                  /\ \E g \in Links(c, q)' : Pc(g)' \in {"post", "answered", "wait"}
      <4>1. Temp(q) \in screen'.reqs  BY <1>2, <2>1, <2>2, <3>11 DEF Linked
      <4>2. PICK g \in Links(c, q) : Pc(g) \in {"post", "answered", "wait"}
        BY <2>1, <2>2, <3>11 DEF Linked
      <4>3. Pc(g)' \in {"post", "answered", "wait"}
        BY <3>2, <3>3, <3>4, <4>2
      <4>4. QED  BY <3>1, <4>1, <4>3
    <3>12. ASSUME NEW g \in Links(c, q)'  PROVE Promised(c, g)'
      <4>1. g \in Links(c, q) /\ Promised(c, g)  BY <2>1, <2>2, <3>1, <3>12 DEF Linked
      <4>2. flow'[g].req = flow[g].req /\ screen'.reqs = screen.reqs  BY <1>2, <1>3, <3>2, <4>1
      <4>3. CASE g = f
        BY <1>2, <2>2, <3>4, <4>1, <4>2, <4>3 DEF Promised
      <4>4. CASE g # f
        <5>1. Pc(g)' = Pc(g)  BY <3>2, <3>3, <4>1, <4>4
        <5>2. QED  BY <2>2, <4>1, <4>2, <5>1 DEF Promised
      <4>5. QED  BY <4>3, <4>4
    <3>13. QED  BY <3>9, <3>10, <3>11, <3>12
  <2>4. QED  BY <2>3 DEF Linked
<1>12. FoldersTold'
  <2>1. Op(f) = "folder" => folder[f] = Missing
    BY <1>1, <1>2 DEF AllPlaced, Placed, Settled, Unwritten, Fresh
  <2>2. Op(f) = "folder" => At(f, "folder", "post")
    BY <1>1, <1>2 DEF AllPlaced, Placed, At, Op, Pc
  <2>3. \A g \in Flows \ {f} : At(g, "folder", "answered")' <=> At(g, "folder", "answered")
    BY <1>3
  <2>4. /\ Op(f) = "folder" => At(f, "folder", "answered")'
        /\ Op(f) # "folder" => ~At(f, "folder", "answered")'
        /\ ~At(f, "folder", "answered")
    BY <1>2, <1>3, <2>2 DEF At, Op, Pc
  <2>5. FoldersTold /\ screen'.folders = screen.folders  BY <1>2 DEF Tracked
  <2>6. /\ \A g \in Folders \ {f} : folder'[g] = folder[g]
        /\ IF Op(f) = "folder" THEN folder'[f] # Missing ELSE folder'[f] = folder[f]
    BY <1>2 DEF ListsServed
  <2>7. Flows \subseteq Folders  BY DEF Folders
  <2>8. QED  BY <2>1, <2>3, <2>4, <2>5, <2>6, <2>7 DEF FoldersTold
<1>13. ReqsTold'
  <2>1. At(f, "require", "post") => f \notin reqs
    BY <1>1 DEF Settled, Unwritten, Fresh, At, Pc
  <2>2. \A q : q \in reqs' <=> q \in reqs \/ (q = f /\ At(f, "require", "post"))
    BY <1>2 DEF ListsServed
  <2>3. ReqsTold /\ screen'.reqs = screen.reqs  BY <1>2 DEF Tracked
  <2>4. ~At(f, "require", "answered")  BY <1>2 DEF At, Pc
  <2>5. QED  BY <1>3, <2>1, <2>2, <2>3, <2>4 DEF ReqsTold
<1>14. RunsTold'
  <2>1. Op(f) = "run" => At(f, "run", "post")
    BY <1>1, <1>2 DEF AllPlaced, Placed, At, Op, Pc
  <2>2. ~At(f, "run", "answered") /\ (Op(f) # "run" => ~At(f, "run", "answered")')
    BY <1>2, <1>3 DEF At, Op, Pc
  <2>3. RunsTold /\ screen'.runs = screen.runs  BY <1>2 DEF Tracked
  <2>4. /\ \A r \in Flows \ {f} : run'[r] = run[r]
        /\ run'[f] = IF Op(f) = "run" THEN flow[f].cases ELSE run[f]
    BY <1>2 DEF ListsServed
  <2>5. QED  BY <1>3, <2>1, <2>2, <2>3, <2>4 DEF RunsTold
<1>15. QED
  BY <1>5, <1>6, <1>8, <1>9, <1>10, <1>11, <1>12, <1>13, <1>14 DEF Tracked

\* A requirement x is shown with case c at once, and the flow f begins for it.
LinkShown(f, c, x) ==
    /\ OthersAlike(f) /\ UNCHANGED Server /\ Pc(f) = "idle"
    /\ c \in Cases /\ OnScreen(c) /\ flow'[f].case = c
    /\ x \in Id /\ x \notin First(c).reqs /\ flow'[f].req = x[1]
    /\ InPlace(c, LinkedTo(First(c), x))
    /\ screen'.reqs = screen.reqs \cup {x}
    /\ x = Temp(f) \/ x \in screen.reqs
    /\ flow'[f].op \in {"require", "link"}
    /\ \/ x = Temp(x[1]) /\ flow'[f].pc \in {"post", "wait"}
       \/ x = Real(x[1]) /\ flow'[f].pc = "link"

\* The two handlers that link a requirement show it before they call.
LEMMA LinksShown ==
    ASSUME Fine, Settled, Tracked, NEW f \in Flows,
           CreateRequirement(f) \/ LinkRequirement(f)
    PROVE  \E c, x : LinkShown(f, c, x)
<1>1. \A q \in Reqs : Temp(q) \in Id /\ Temp(q)[1] = q  BY Ids
<1>2. f \in Reqs  BY DEF Reqs
<1>3. CASE CreateRequirement(f)
  <2>1. /\ UNCHANGED Server /\ OthersAlike(f) /\ Pc(f) = "idle"
        /\ flow'[f].op = "require" /\ flow'[f].pc = "post" /\ flow'[f].req = f
        /\ flow'[f].case \in ListedCases(screen)
        /\ screen'.reqs = screen.reqs \cup {Temp(f)}
        /\ InPlace(flow'[f].case, LinkedTo(Head(screen.cases[flow'[f].case]), Temp(f)))
    BY <1>3, CreateRequirementFine
  <2>2. PICK c : c = flow'[f].case  OBVIOUS
  <2>3. c \in Cases /\ OnScreen(c)  BY <2>1, <2>2 DEF ListedCases, OnScreen
  <2>4. PICK x : x = Temp(f)  OBVIOUS
  <2>5. x \in Id /\ x[1] = f /\ x = Temp(x[1])  BY <1>1, <1>2, <2>4
  <2>6. x \notin First(c).reqs
    BY <2>1, <2>3, <2>4 DEF Tracked, Unshown, Early, Before
  <2>7. InPlace(c, LinkedTo(First(c), x))  BY <2>1, <2>2, <2>4 DEF First
  <2>8. LinkShown(f, c, x)
    BY <2>1, <2>2, <2>3, <2>4, <2>5, <2>6, <2>7 DEF LinkShown
  <2>9. QED  BY <2>8
<1>4. CASE LinkRequirement(f)
  <2>1. /\ UNCHANGED Server /\ OthersAlike(f) /\ Pc(f) = "idle"
        /\ flow'[f].op = "link" /\ flow'[f].case \in ListedCases(screen)
        /\ screen'.reqs = screen.reqs
    BY <1>4, LinkRequirementFine
  <2>2. PICK c : c = flow'[f].case  OBVIOUS
  <2>3. c \in Cases /\ OnScreen(c)  BY <2>1, <2>2 DEF ListedCases, OnScreen
  <2>4. PICK x \in screen.reqs :
           /\ x \in Id /\ x[1] = flow'[f].req
           /\ x \notin Head(screen.cases[flow'[f].case]).reqs
           /\ flow'[f].pc = IF x[2] = "real" THEN "link" ELSE "wait"
           /\ x = IF x[2] = "real" THEN Real(x[1]) ELSE Temp(x[1])
           /\ InPlace(flow'[f].case, LinkedTo(Head(screen.cases[flow'[f].case]), x))
    BY <1>4, LinkRequirementFine
  <2>5. \/ x = Temp(x[1]) /\ flow'[f].pc \in {"post", "wait"}
        \/ x = Real(x[1]) /\ flow'[f].pc = "link"
    BY <2>4
  <2>6. InPlace(c, LinkedTo(First(c), x)) /\ x \notin First(c).reqs
    BY <2>2, <2>4 DEF First
  <2>7. screen'.reqs = screen.reqs \cup {x}  BY <2>1
  <2>8. LinkShown(f, c, x)
    BY <2>1, <2>2, <2>3, <2>4, <2>5, <2>6, <2>7 DEF LinkShown
  <2>9. QED  BY <2>8
<1>5. QED  BY <1>3, <1>4

\* A made-up id is no row's, nor that of another requirement.
LEMMA IdsDiffer ==
    ASSUME NEW q, NEW p
    PROVE  /\ Real(q) # Temp(p) /\ Temp(p) # Real(q)
           /\ (Real(q) = Real(p) <=> q = p) /\ (Temp(q) = Temp(p) <=> q = p)
BY DEF Real, Temp

\* What the case shows then.
LEMMA LinkShownFirst ==
    ASSUME Fine, NEW f \in Flows, NEW c, NEW x, LinkShown(f, c, x)
    PROVE  /\ OnScreen(c)' /\ First(c)'.reqs = First(c).reqs \cup {x}
           /\ First(c)'.ver = First(c).ver /\ First(c)'.comments = First(c).comments
           /\ First(c)'.folder = First(c).folder
           /\ \A d \in Cases : /\ OnScreen(d)' <=> OnScreen(d)
                               /\ d # c => screen'.cases[d] = screen.cases[d]
                                           /\ First(d)' = First(d)
           /\ screen'.runs = screen.runs /\ screen'.folders = screen.folders
<1>1. c \in Cases /\ OnScreen(c) /\ x \in Id /\ InPlace(c, LinkedTo(First(c), x))
  BY DEF LinkShown
<1>2. First(c) \in Copy  BY <1>1, HeadTyped DEF OnScreen, First
<1>3. PICK y : y = LinkedTo(First(c), x)  OBVIOUS
<1>4. /\ y.reqs = First(c).reqs \cup {x} /\ y.ver = First(c).ver
      /\ y.folder = First(c).folder /\ y.comments = First(c).comments
  BY <1>1, <1>2, <1>3, LinkedTyped
<1>5. /\ screen.cases[c] # <<>> /\ screen'.cases[c] # <<>> /\ Head(screen'.cases[c]) = y
      /\ \A d \in Cases \ {c} : screen'.cases[d] = screen.cases[d]
      /\ screen'.folders = screen.folders /\ screen'.runs = screen.runs
  BY <1>1, <1>3 DEF InPlace, OnScreen
<1>6. QED  BY <1>4, <1>5 DEF OnScreen, First

\* The links, then.
LEMMA LinkShownLinked ==
    ASSUME Fine, Settled, Tracked, NEW f \in Flows, NEW c, NEW x, LinkShown(f, c, x),
           NEW d \in Cases
    PROVE  Linked(d)'
<1>1. /\ links' = links /\ OthersAlike(f) /\ Pc(f) = "idle" /\ flow'[f].case = c
      /\ flow'[f].req = x[1] /\ screen'.reqs = screen.reqs \cup {x}
      /\ x = Temp(f) \/ x \in screen.reqs
      /\ flow'[f].op \in {"require", "link"} /\ x \in Id
      /\ \/ x = Temp(x[1]) /\ flow'[f].pc \in {"post", "wait"}
         \/ x = Real(x[1]) /\ flow'[f].pc = "link"
  BY DEF LinkShown, Server
<1>2. /\ First(c)'.reqs = First(c).reqs \cup {x}
      /\ OnScreen(d)' <=> OnScreen(d)
      /\ d # c => First(d)' = First(d)
  BY LinkShownFirst
<1>3. SUFFICES ASSUME OnScreen(d)  PROVE Linked(d)'
  BY <1>2 DEF Linked
<1>4. Linked(d)  BY DEF Tracked
<1>5. Op(f) = "none"  BY <1>1, Kinds DEF Fine, Op, Pc, Idle
<1>6. ASSUME NEW q \in Reqs
      PROVE  /\ \A g \in Links(d, q) : /\ g \in Flows \ {f} /\ g \in Links(d, q)'
                                        /\ Pc(g)' = Pc(g) /\ flow'[g].req = flow[g].req
             /\ \A g \in Links(d, q)' : \/ g \in Links(d, q)
                                        \/ g = f /\ d = c /\ q = x[1]
  BY <1>1, <1>5, Kept DEF Links, Op, Pc
<1>7. ASSUME NEW q \in Reqs, d = c, q = x[1]
      PROVE  f \in Links(d, q)' /\ Pc(f)' = flow'[f].pc
  BY <1>1, <1>7 DEF Links, Op, Pc
<1>8. \A y \in First(d)'.reqs : y \in First(d).reqs \/ (d = c /\ y = x)
  BY <1>2
<1>9. First(d).reqs \subseteq First(d)'.reqs  BY <1>2
<1>10. ASSUME NEW q \in Reqs
       PROVE  /\ <<d, q>> \in links' => Real(q) \in First(d)'.reqs
              /\ Real(q) \in First(d)'.reqs =>
                    <<d, q>> \in links' \/ \E g \in Links(d, q)' : Pc(g)' \in {"wait", "link"}
              /\ Temp(q) \in First(d)'.reqs =>
                    /\ Temp(q) \in screen'.reqs
                    /\ \E g \in Links(d, q)' : Pc(g)' \in {"post", "answered", "wait"}
              /\ \A g \in Links(d, q)' : Promised(d, g)'
  <2>1. <<d, q>> \in links' => Real(q) \in First(d)'.reqs
    BY <1>1, <1>3, <1>4, <1>9 DEF Linked
  <2>2. ASSUME Real(q) \in First(d)'.reqs
        PROVE  <<d, q>> \in links' \/ \E g \in Links(d, q)' : Pc(g)' \in {"wait", "link"}
    <3>1. CASE Real(q) \in First(d).reqs
      BY <1>1, <1>3, <1>4, <1>6, <3>1 DEF Linked
    <3>2. CASE d = c /\ Real(q) = x
      <4>1. x = Real(x[1]) /\ q = x[1] /\ flow'[f].pc = "link"
        BY <1>1, <3>2, IdsDiffer
      <4>2. QED  BY <1>7, <3>2, <4>1
    <3>3. QED  BY <1>8, <2>2, <3>1, <3>2
  <2>3. ASSUME Temp(q) \in First(d)'.reqs
        PROVE  /\ Temp(q) \in screen'.reqs
               /\ \E g \in Links(d, q)' : Pc(g)' \in {"post", "answered", "wait"}
    <3>1. CASE Temp(q) \in First(d).reqs
      BY <1>1, <1>3, <1>4, <1>6, <3>1 DEF Linked
    <3>2. CASE d = c /\ Temp(q) = x
      <4>1. x = Temp(x[1]) /\ q = x[1] /\ flow'[f].pc \in {"post", "wait"}
        BY <1>1, <3>2, IdsDiffer
      <4>2. QED  BY <1>1, <1>7, <3>2, <4>1
    <3>3. QED  BY <1>8, <2>3, <3>1, <3>2
  <2>4. ASSUME NEW g \in Links(d, q)'  PROVE Promised(d, g)'
    <3>1. CASE g \in Links(d, q)
      <4>1. Promised(d, g) /\ Pc(g)' = Pc(g) /\ flow'[g].req = flow[g].req
        BY <1>3, <1>4, <1>6, <3>1 DEF Linked
      <4>2. flow[g].req = q /\ g \in Flows  BY <3>1 DEF Links
      <4>3. Pc(g) = "wait" => q # f
        BY <1>1, <4>2 DEF Settled, AllPlaced, Placed
      <4>4. ASSUME Pc(g) = "wait", Temp(q) \notin screen.reqs
            PROVE  Temp(q) \notin screen'.reqs
        BY <1>1, <4>3, <4>4, IdsDiffer
      <4>5. QED  BY <1>9, <4>1, <4>2, <4>4 DEF Promised
    <3>2. CASE g = f /\ d = c /\ q = x[1]
      <4>1. x \in First(d)'.reqs  BY <1>2, <3>2
      <4>2. QED  BY <1>1, <3>2, <4>1 DEF Promised, Pc
    <3>3. QED  BY <1>6, <3>1, <3>2
  <2>5. QED  BY <2>1, <2>2, <2>3, <2>4
<1>11. QED  BY <1>10 DEF Linked

\* Nothing more is shown of the flows that are yet to be confirmed,
LEMMA LinkShownNone ==
    ASSUME Fine, Settled, Tracked, NEW f \in Flows, NEW c, NEW x, LinkShown(f, c, x)
    PROVE  ShowsNone(f)
<1>1. /\ c \in Cases /\ screen'.reqs = screen.reqs \cup {x}
      /\ x = Temp(f) \/ x \in screen.reqs
  BY DEF LinkShown
<1>2. /\ OnScreen(c)' /\ First(c)'.reqs = First(c).reqs \cup {x}
      /\ First(c)'.ver = First(c).ver /\ First(c)'.comments = First(c).comments
      /\ \A d \in Cases : /\ OnScreen(d)' <=> OnScreen(d)
                          /\ d # c => First(d)' = First(d)
      /\ screen'.runs = screen.runs /\ screen'.folders = screen.folders
  BY LinkShownFirst
<1>3. SUFFICES ASSUME NEW g \in Flows, Early(g)
               PROVE  /\ screen'.cases[g] = <<>> /\ screen'.folders[g] = 0
                      /\ screen'.runs[g] = None /\ Real(g) \notin screen'.reqs
                      /\ \A d \in Cases : screen'.cases[d] # <<>> =>
                            /\ Clear(Head(screen'.cases[d]), g)
                            /\ (Pc(g) = "idle" /\ g # f) =>
                                  Temp(g) \notin Head(screen'.cases[d]).reqs
  BY DEF ShowsNone
<1>4. g \in Cases /\ g \in Reqs  BY DEF Cases, Reqs
<1>5. /\ screen.cases[g] = <<>> /\ screen.folders[g] = 0 /\ screen.runs[g] = None
      /\ Real(g) \notin screen.reqs
      /\ \A d \in Cases : OnScreen(d) => Before(First(d), g)
  BY <1>3 DEF Tracked, Unshown
<1>6. x # Real(g)  BY <1>1, <1>5, IdsDiffer
<1>7. Pc(g) = "idle" /\ g # f => x # Temp(g)
  BY <1>1, <1>4, IdsDiffer DEF Settled, Rooted
<1>8. ASSUME NEW d \in Cases, OnScreen(d)'
      PROVE  /\ Clear(First(d)', g)
             /\ (Pc(g) = "idle" /\ g # f) => Temp(g) \notin First(d)'.reqs
  <2>1. Before(First(d), g)  BY <1>2, <1>5, <1>8
  <2>2. CASE d # c  BY <1>2, <2>1, <2>2 DEF Before
  <2>3. CASE d = c  BY <1>2, <1>6, <1>7, <2>1, <2>3 DEF Before, Clear
  <2>4. QED  BY <2>2, <2>3
<1>9. screen'.cases[g] = <<>>  BY <1>2, <1>4, <1>5 DEF OnScreen
<1>10. QED  BY <1>1, <1>2, <1>5, <1>6, <1>8, <1>9 DEF OnScreen, First

\* and no save has seen the link.
LEMMA LinkUnseen ==
    ASSUME Tracked, NEW f \in Flows, NEW c, NEW x, LinkShown(f, c, x),
           NEW g \in Flows, Op(g) = "save"
    PROVE  /\ \A y \in Head(flow[g].was).reqs : y \notin screen.reqs => y # x
           /\ flow[g].case = c => x \notin Head(flow[g].was).reqs
<1>1. /\ OnScreen(c) /\ x \notin First(c).reqs /\ Pc(f) = "idle"
      /\ x = Temp(f) \/ x \in screen.reqs
  BY DEF LinkShown
<1>2. Temp(f) \notin Head(flow[g].was).reqs
  BY <1>1 DEF Tracked, Unshown, Early, Before
<1>3. Known(g)  BY DEF Tracked
<1>4. QED  BY <1>1, <1>2, <1>3 DEF Known

\* A requirement and its link are shown at once: no list tells of the step.
LEMMA LinksTracked ==
    ASSUME Even, Tracked, NEW f \in Flows, CreateRequirement(f) \/ LinkRequirement(f)
    PROVE  Tracked'
<1>1. /\ Fine /\ Settled /\ \A g \in Flows : Unshown(g) /\ Known(g)
  BY DEF Even, Tracked
<1>2. PICK c, x : LinkShown(f, c, x)  BY <1>1, LinksShown
<1>3. /\ OthersAlike(f) /\ Pc(f) = "idle" /\ c \in Cases /\ OnScreen(c)
      /\ flow'[f].case = c /\ screen'.reqs = screen.reqs \cup {x}
      /\ x \notin First(c).reqs
      /\ x = Temp(f) \/ x \in screen.reqs
      /\ flow'[f].op \in {"require", "link"} /\ flow'[f].pc \in {"post", "wait", "link"}
      /\ case' = case /\ folder' = folder /\ reqs' = reqs /\ links' = links /\ run' = run
      /\ InPlace(c, LinkedTo(First(c), x))
  BY <1>2 DEF LinkShown, Server
<1>4. /\ OnScreen(c)' /\ First(c)'.reqs = First(c).reqs \cup {x}
      /\ First(c)'.ver = First(c).ver /\ First(c)'.comments = First(c).comments
      /\ First(c)'.folder = First(c).folder
      /\ \A d \in Cases : /\ OnScreen(d)' <=> OnScreen(d)
                          /\ d # c => screen'.cases[d] = screen.cases[d]
                                      /\ First(d)' = First(d)
      /\ screen'.runs = screen.runs /\ screen'.folders = screen.folders
  BY <1>1, <1>2, LinkShownFirst
<1>5. \A op : Steady(op)
  <2>1. ~\E op : At(f, op, "answered")  BY <1>3 DEF At, Pc
  <2>2. QED  BY <1>3, <2>1, SteadyBy
<1>6. \A g \in Flows : Unshown(g)'
  <2>1. ShowsNone(f)  BY <1>1, <1>2, LinkShownNone
  <2>2. BringsNone(f)  BY <1>1, <1>3, OnBrings
  <2>3. Early(f)  BY <1>3 DEF Early
  <2>4. QED  BY <1>1, <1>3, <2>1, <2>2, <2>3, UnshownStep
<1>7. ASSUME NEW g \in Flows  PROVE Known(g)'
  <2>1. CASE g # f
    <3>1. ASSUME Op(g) = "save", screen'.cases[flow[g].case] # <<>>,
                 NEW y \in Head(flow[g].was).reqs, y \in screen'.reqs
          PROVE  y \in Head(screen'.cases[flow[g].case]).reqs
      <4>1. PICK d : d = flow[g].case  OBVIOUS
      <4>2. Op(g) \in CommandOps  BY <3>1 DEF CommandOps
      <4>3. d \in Cases  BY <1>1, <3>1, <4>1, SaveTyped DEF Fine, Settled
      <4>4. y \in screen.reqs
        BY <1>2, <1>3, <3>1, LinkUnseen
      <4>5. OnScreen(d)  BY <1>4, <3>1, <4>1, <4>3 DEF OnScreen
      <4>6. y \in First(d).reqs  BY <1>1, <3>1, <4>1, <4>4, <4>5 DEF Known
      <4>7. y \in First(d)'.reqs  BY <1>4, <4>3, <4>6
      <4>8. QED  BY <4>1, <4>7 DEF First
    <3>2. Pc(f) # "done"  BY <1>3
    <3>3. QED  BY <1>1, <1>3, <2>1, <3>1, <3>2, KnownOthers
  <2>2. CASE g = f
    <3>1. c \in Flows => Pc(c) = "done"  BY <1>1, <1>3, OnScreenDone
    <3>2. c \in Flows => c # f  BY <1>3, <3>1
    <3>3. c \in Flows => flow'[c].pc = "done"  BY <1>3, <3>1, <3>2, Kept DEF Pc
    <3>4. QED  BY <1>3, <2>2, <3>3 DEF Known, Op, Pc
  <2>3. QED  BY <2>1, <2>2
<1>8. ASSUME NEW d \in Cases  PROVE Existence(d)' /\ Remarked(d)' /\ Linked(d)'
  <2>1. Existence(d) /\ Remarked(d)  BY DEF Tracked
  <2>2. Len(screen'.cases[d]) = Len(screen.cases[d])  BY <1>3, <1>4 DEF InPlace
  <2>3. screen'.cases[d] = <<>> <=> screen.cases[d] = <<>>  BY <1>4 DEF OnScreen
  <2>4. case'[d] = case[d]  BY <1>3
  <2>5. Existence(d)'  BY <1>3, <1>5, <2>1, <2>2, <2>3, <2>4, ExistenceStays
  <2>6. screen'.cases[d] # <<>> =>
           screen.cases[d] # <<>> /\ Head(screen'.cases[d]).comments = First(d).comments
    BY <1>4, <2>3 DEF First
  <2>7. Remarked(d)'  BY <1>5, <2>1, <2>4, <2>6, RemarksStay
  <2>8. QED  BY <1>1, <1>2, <2>5, <2>7, LinkShownLinked
<1>9. ASSUME NEW d \in Cases  PROVE Fields(d)'
  <2>1. Fields(d)  BY DEF Tracked
  <2>2. CASE d # c
    <3>1. screen'.cases[d] = screen.cases[d]  BY <1>4, <2>2
    <3>2. QED  BY <1>3, <1>5, <2>1, <3>1, FieldsStay
  <2>3. CASE d = c
    <3>1. \A g \in Flows : g \in Saves(c)' <=> g \in Saves(c)
      BY <1>5 DEF Saves, Steady
    <3>2. Saves(c)' = Saves(c)  BY <3>1 DEF Saves
    <3>3. CASE Saves(c) = {}
      BY <1>3, <1>4, <2>1, <2>3, <3>2, <3>3 DEF Fields
    <3>4. ASSUME NEW g \in Saves(c)  PROVE Crossed(g)'
      <4>1. g \in Flows /\ Op(g) = "save" /\ flow[g].case = c /\ At(g, "save", "answered")
        BY DEF Saves, At, Op
      <4>2. x \notin Head(flow[g].was).reqs  BY <1>2, <4>1, LinkUnseen
      <4>3. flow'[g].was = flow[g].was /\ flow'[g].case = c  BY <1>5, <4>1 DEF Steady
      <4>4. x \in Head(screen'.cases[c]).reqs  BY <1>4 DEF First
      <4>5. QED  BY <4>2, <4>3, <4>4 DEF Crossed
    <3>5. QED  BY <2>3, <3>2, <3>3, <3>4 DEF Fields
  <2>4. QED  BY <2>2, <2>3
<1>10. FoldersTold' /\ RunsTold'
  BY <1>3, <1>4, <1>5, FoldersStay, RunsStay DEF Tracked
<1>11. ReqsTold'
  <2>1. \A q \in Reqs : Real(q) \in screen'.reqs <=> Real(q) \in screen.reqs
    BY <1>3, IdsDiffer
  <2>2. QED  BY <1>3, <1>5, <2>1, ReqsStay DEF Tracked
<1>12. QED  BY <1>6, <1>7, <1>8, <1>9, <1>10, <1>11 DEF Tracked

\* A link whose requirement has its id is sent.
LEMMA AwaitedTracked ==
    ASSUME Even, Tracked, NEW f \in Flows, Awaited(f), ~misled'
    PROVE  Tracked'
<1>1. /\ Fine /\ Settled /\ \A g \in Flows : Unshown(g) /\ Known(g)
  BY DEF Even, Tracked
<1>2. /\ UNCHANGED <<Server, screen>> /\ OthersAlike(f) /\ Pc(f) = "wait"
      /\ Temp(flow[f].req) \notin screen.reqs /\ Onward(f, "link")
  BY <1>1, AwaitedFine
<1>3. /\ screen' = screen /\ case' = case /\ folder' = folder /\ reqs' = reqs
      /\ links' = links /\ run' = run
  BY <1>2 DEF Server
<1>4. Op(f) = "link"
  <2>1. Op(f) \in CommandOps  BY <1>1, <1>2, Kinds DEF Fine
  <2>2. QED  BY <1>1, <1>2, <2>1 DEF Settled, AllPlaced, Placed, CommandOps
<1>5. \A g \in Flows :
         /\ flow'[g].op = flow[g].op /\ flow'[g].case = flow[g].case
         /\ flow'[g].req = flow[g].req /\ flow'[g].was = flow[g].was
         /\ flow'[g].new = flow[g].new /\ flow'[g].cases = flow[g].cases
         /\ flow'[g].pc = IF g = f THEN "link" ELSE flow[g].pc
  <2>1. ASSUME NEW g \in Flows
        PROVE  /\ flow'[g].op = flow[g].op /\ flow'[g].case = flow[g].case
               /\ flow'[g].req = flow[g].req /\ flow'[g].was = flow[g].was
               /\ flow'[g].new = flow[g].new /\ flow'[g].cases = flow[g].cases
               /\ flow'[g].pc = IF g = f THEN "link" ELSE flow[g].pc
    <3>1. CASE g = f  BY <1>2, <3>1 DEF Onward
    <3>2. CASE g # f  BY <1>2, <3>2, Kept
    <3>3. QED  BY <3>1, <3>2
  <2>2. QED  BY <2>1
<1>6. \A op : Steady(op)
  <2>1. ~\E op : At(f, op, "answered")  BY <1>2 DEF At, Pc
  <2>2. flow'[f].pc # "answered"  BY <1>5
  <2>3. QED  BY <1>2, <2>1, <2>2, SteadyBy
<1>7. \A g \in Flows : Unshown(g)'
  <2>1. ShowsNone(f)
    <3>1. SameContent(screen', screen)  BY <1>3 DEF SameContent
    <3>2. QED  BY <1>1, <3>1, SameShows
  <2>2. BringsNone(f)  BY <1>1, <1>5, OnBrings
  <2>3. flow'[f].pc \notin {"idle", "post", "answered"}  BY <1>5
  <2>4. QED  BY <1>1, <1>2, <2>1, <2>2, <2>3, UnshownStep
<1>8. ASSUME NEW g \in Flows  PROVE Known(g)'
  <2>1. Known(g)  BY <1>1
  <2>2. Op(g) = "save" /\ screen'.cases[flow[g].case] # <<>> =>
            \A y \in Head(flow[g].was).reqs :
                y \in Head(screen'.cases[flow[g].case]).reqs \/ y \notin screen'.reqs
    BY <1>3, <2>1 DEF Known, OnScreen, First
  <2>3. CASE g # f  BY <1>1, <1>2, <2>2, <2>3, KnownOthers
  <2>4. Op(f) \in AboutCase => flow[f].case # f  BY <1>1, NotOwn
  <2>5. CASE g = f  BY <1>1, <1>2, <2>2, <2>4, <2>5, KnownSelf
  <2>6. QED  BY <2>3, <2>5
<1>9. ASSUME NEW c \in Cases  PROVE Existence(c)' /\ Remarked(c)' /\ Fields(c)'
  BY <1>3, <1>6, ExistenceStays, RemarksStay, FieldsStay DEF Tracked, First
<1>10. FoldersTold' /\ RunsTold' /\ ReqsTold'
  BY <1>3, <1>6, FoldersStay, RunsStay, ReqsStay DEF Tracked
<1>11. ASSUME NEW c \in Cases, OnScreen(c)  PROVE Linked(c)'
  <2>1. Linked(c) /\ First(c)' = First(c)  BY <1>3 DEF Tracked, First
  <2>2. ASSUME NEW q \in Reqs
        PROVE  /\ <<c, q>> \in links' => Real(q) \in First(c)'.reqs
               /\ Real(q) \in First(c)'.reqs =>
                     <<c, q>> \in links' \/ \E g \in Links(c, q)' : Pc(g)' \in {"wait", "link"}
               /\ Temp(q) \in First(c)'.reqs =>
                     /\ Temp(q) \in screen'.reqs
                     /\ \E g \in Links(c, q)' : Pc(g)' \in {"post", "answered", "wait"}
               /\ \A g \in Links(c, q)' : Promised(c, g)'
    <3>1. Links(c, q)' = Links(c, q)  BY <1>5 DEF Links, Op
    <3>2. Links(c, q) \subseteq Flows /\ \A g \in Links(c, q) : flow[g].req = q
      BY DEF Links
    <3>3. \A g \in Flows : Pc(g)' = IF g = f THEN "link" ELSE Pc(g)  BY <1>5 DEF Pc
    <3>4. <<c, q>> \in links' => Real(q) \in First(c)'.reqs
      BY <1>3, <1>11, <2>1 DEF Linked
    <3>5. ASSUME Real(q) \in First(c)'.reqs
          PROVE  <<c, q>> \in links' \/ \E g \in Links(c, q)' : Pc(g)' \in {"wait", "link"}
      BY <1>3, <1>11, <2>1, <3>1, <3>2, <3>3, <3>5 DEF Linked
    <3>6. ASSUME Temp(q) \in First(c)'.reqs
          PROVE  /\ Temp(q) \in screen'.reqs
                 /\ \E g \in Links(c, q)' : Pc(g)' \in {"post", "answered", "wait"}
      <4>1. Temp(q) \in screen.reqs  BY <1>11, <2>1, <3>6 DEF Linked
      <4>2. f \notin Links(c, q)  BY <1>2, <3>2, <4>1
      <4>3. PICK g \in Links(c, q) : Pc(g) \in {"post", "answered", "wait"}
        BY <1>11, <2>1, <3>6 DEF Linked
      <4>4. QED  BY <1>3, <3>1, <3>2, <3>3, <4>1, <4>2, <4>3
    <3>7. ASSUME NEW g \in Links(c, q)  PROVE Promised(c, g)'
      <4>1. Promised(c, g) /\ flow'[g].req = flow[g].req
        BY <1>5, <1>11, <2>1, <3>2 DEF Linked
      <4>2. CASE g = f
        <5>1. Temp(flow[f].req) \notin First(c).reqs
          <6>1. flow[f].req = q  BY <3>2, <4>2
          <6>2. QED  BY <1>2, <1>11, <2>1, <6>1 DEF Linked
        <5>2. QED  BY <1>2, <2>1, <3>3, <4>1, <4>2, <5>1 DEF Promised
      <4>3. CASE g # f
        <5>1. Pc(g)' = Pc(g)  BY <3>2, <3>3, <4>3
        <5>2. QED  BY <1>3, <2>1, <4>1, <5>1 DEF Promised
      <4>4. QED  BY <4>2, <4>3
    <3>8. QED  BY <3>1, <3>4, <3>5, <3>6, <3>7
  <2>3. QED  BY <2>2 DEF Linked
<1>12. \A c \in Cases : Linked(c)'
  <2>1. \A c \in Cases : OnScreen(c)' <=> OnScreen(c)  BY <1>3 DEF OnScreen
  <2>2. QED  BY <1>11, <2>1 DEF Linked
<1>13. QED  BY <1>7, <1>8, <1>9, <1>10, <1>12 DEF Tracked

\* The ids in a list in which the requirement f has got its own.
LEMMA NamedIds ==
    ASSUME NEW f, NEW ids, NEW y
    PROVE  y \in Named(ids, f) <=>
               (y \in ids /\ y # Temp(f)) \/ (y = Real(f) /\ Temp(f) \in ids)
BY DEF Named

\* A requirement f that gets its id.
NamedStep(f) ==
    /\ OthersAlike(f) /\ UNCHANGED Server
    /\ At(f, "require", "answered") /\ Onward(f, "link") /\ NamedAll(f)

\* What a case shows once a requirement has got its id.
LEMMA NamedFirst ==
    ASSUME Fine, Tracked, NEW f \in Flows, NamedStep(f), NEW d \in Cases
    PROVE  /\ OnScreen(d)' <=> OnScreen(d)
           /\ OnScreen(d) =>
                 /\ Real(f) \notin First(d).reqs
                 /\ First(d)'.ver = First(d).ver /\ First(d)'.folder = First(d).folder
                 /\ First(d)'.comments = First(d).comments
                 /\ \A y : y \in First(d)'.reqs <=>
                       (y \in First(d).reqs /\ y # Temp(f))
                       \/ (y = Real(f) /\ Temp(f) \in First(d).reqs)
                 /\ Temp(f) \notin First(d).reqs => screen'.cases[d] = screen.cases[d]
<1>1. NamedAll(f) /\ Early(f)  BY DEF NamedStep, At, Early, Pc
<1>2. OnScreen(d)' <=> OnScreen(d)  BY <1>1 DEF NamedAll, OnScreen
<1>3. ASSUME OnScreen(d)
      PROVE  /\ Real(f) \notin First(d).reqs
             /\ First(d)'.ver = First(d).ver /\ First(d)'.folder = First(d).folder
             /\ First(d)'.comments = First(d).comments
             /\ \A y : y \in First(d)'.reqs <=>
                   (y \in First(d).reqs /\ y # Temp(f))
                   \/ (y = Real(f) /\ Temp(f) \in First(d).reqs)
             /\ Temp(f) \notin First(d).reqs => screen'.cases[d] = screen.cases[d]
  <2>1. First(d) \in Copy  BY <1>3, HeadTyped DEF OnScreen, First
  <2>2. First(d)' = NamedIn(First(d), f)  BY <1>1, <1>3 DEF NamedAll, OnScreen, First
  <2>3. /\ First(d)'.ver = First(d).ver /\ First(d)'.folder = First(d).folder
        /\ First(d)'.comments = First(d).comments
        /\ First(d)'.reqs = Named(First(d).reqs, f)
    BY <2>1, <2>2, NamedTyped
  <2>4. Real(f) \notin First(d).reqs  BY <1>1, <1>3 DEF Tracked, Unshown, Before, Clear
  <2>5. ASSUME Temp(f) \notin First(d).reqs  PROVE screen'.cases[d] = screen.cases[d]
    <3>1. PICK s : s = screen.cases[d]  OBVIOUS
    <3>2. s \in Seq(Copy) /\ s # <<>> /\ Head(s) = First(d)
      BY <1>3, <3>1 DEF Fine, Good, Screen, OnScreen, First
    <3>3. Len(s) <= 1  BY <3>1 DEF Tracked, Existence
    <3>4. \A i \in DOMAIN s : s[i] = Head(s)
      <4>1. Len(s) \in Nat /\ DOMAIN s = 1..Len(s) /\ Head(s) = s[1]  BY <3>2, HeadIn
      <4>2. PICK n : n = Len(s)  OBVIOUS
      <4>3. \A i \in 1..n : i = 1  BY <3>3, <4>1, <4>2
      <4>4. QED  BY <4>1, <4>2, <4>3
    <3>5. \A i \in DOMAIN s : Temp(f) \notin s[i].reqs  BY <2>5, <3>2, <3>4
    <3>6. QED  BY <1>1, <3>1, <3>5 DEF NamedAll
  <2>6. QED  BY <2>3, <2>4, <2>5, NamedIds
<1>4. QED  BY <1>2, <1>3

\* The links under the made-up id are links under the real one.
LEMMA NamedLinked ==
    ASSUME Fine, Settled, Tracked, NEW f \in Flows, NamedStep(f), NEW d \in Cases
    PROVE  Linked(d)'
<1>1. /\ OthersAlike(f) /\ links' = links /\ Op(f) = "require" /\ Pc(f) = "answered"
      /\ screen'.reqs = (screen.reqs \ {Temp(f)}) \cup {Real(f)}
      /\ Onward(f, "link")
  BY DEF NamedStep, At, Op, Pc, NamedAll, Server
<1>2. flow[f].req = f  BY <1>1 DEF Settled, AllPlaced, Placed
<1>3. OnScreen(d)' <=> OnScreen(d)  BY NamedFirst
<1>4. SUFFICES ASSUME OnScreen(d)  PROVE Linked(d)'
  BY <1>3 DEF Linked
<1>5. /\ Linked(d)
      /\ \A y : y \in First(d)'.reqs <=>
            (y \in First(d).reqs /\ y # Temp(f))
            \/ (y = Real(f) /\ Temp(f) \in First(d).reqs)
  BY <1>4, NamedFirst DEF Tracked
<1>6. \A g \in Flows : /\ Op(g)' = Op(g) /\ flow'[g].case = flow[g].case
                       /\ flow'[g].req = flow[g].req
                       /\ Pc(g)' = IF g = f THEN "link" ELSE Pc(g)
  <2>1. ASSUME NEW g \in Flows
        PROVE  /\ Op(g)' = Op(g) /\ flow'[g].case = flow[g].case
               /\ flow'[g].req = flow[g].req
               /\ Pc(g)' = IF g = f THEN "link" ELSE Pc(g)
    <3>1. CASE g = f  BY <1>1, <3>1 DEF Onward, Op, Pc
    <3>2. CASE g # f  BY <1>1, <3>2, Kept DEF Op, Pc
    <3>3. QED  BY <3>1, <3>2
  <2>2. QED  BY <2>1
<1>7. ASSUME NEW q \in Reqs
      PROVE  /\ <<d, q>> \in links' => Real(q) \in First(d)'.reqs
             /\ Real(q) \in First(d)'.reqs =>
                   <<d, q>> \in links' \/ \E g \in Links(d, q)' : Pc(g)' \in {"wait", "link"}
             /\ Temp(q) \in First(d)'.reqs =>
                   /\ Temp(q) \in screen'.reqs
                   /\ \E g \in Links(d, q)' : Pc(g)' \in {"post", "answered", "wait"}
             /\ \A g \in Links(d, q)' : Promised(d, g)'
  <2>1. Links(d, q)' = Links(d, q)  BY <1>6 DEF Links
  <2>2. \A g \in Links(d, q) :
           /\ g \in Flows /\ flow[g].req = q /\ flow'[g].req = q
           /\ Pc(g) \in {"post", "answered"} => g = q
           /\ Op(g) = "link" => Pc(g) \in {"wait", "link", "linked"}
           /\ Op(g) = "link" \/ Op(g) = "require"
           /\ g = f => q = f
    BY <1>2, <1>6 DEF Links, Settled, AllPlaced, Placed
  <2>3. <<d, q>> \in links' => Real(q) \in First(d)'.reqs
    BY <1>1, <1>4, <1>5, IdsDiffer DEF Linked
  <2>4. ASSUME Real(q) \in First(d)'.reqs
        PROVE  <<d, q>> \in links' \/ \E g \in Links(d, q)' : Pc(g)' \in {"wait", "link"}
    <3>1. CASE Real(q) \in First(d).reqs
      <4>1. <<d, q>> \in links \/ \E g \in Links(d, q) : Pc(g) \in {"wait", "link"}
        BY <1>4, <1>5, <3>1 DEF Linked
      <4>2. QED  BY <1>1, <1>6, <2>1, <2>2, <4>1
    <3>2. CASE Real(q) = Real(f) /\ Temp(f) \in First(d).reqs
      <4>1. q = f  BY <3>2, IdsDiffer
      <4>2. PICK g \in Links(d, q) : Pc(g) \in {"post", "answered", "wait"}
        BY <1>4, <1>5, <3>2, <4>1 DEF Linked
      <4>3. Pc(g)' \in {"wait", "link"}  BY <1>6, <2>2, <4>1, <4>2
      <4>4. QED  BY <2>1, <4>3
    <3>3. QED  BY <1>5, <2>4, <3>1, <3>2
  <2>5. ASSUME Temp(q) \in First(d)'.reqs
        PROVE  /\ Temp(q) \in screen'.reqs
               /\ \E g \in Links(d, q)' : Pc(g)' \in {"post", "answered", "wait"}
    <3>1. Temp(q) \in First(d).reqs /\ q # f  BY <1>5, <2>5, IdsDiffer
    <3>2. Temp(q) \in screen.reqs /\ \E g \in Links(d, q) : Pc(g) \in {"post", "answered", "wait"}
      BY <1>4, <1>5, <3>1 DEF Linked
    <3>3. Temp(q) \in screen'.reqs  BY <1>1, <3>1, <3>2, IdsDiffer
    <3>4. QED  BY <1>6, <2>1, <2>2, <3>1, <3>2, <3>3
  <2>6. ASSUME NEW g \in Links(d, q)  PROVE Promised(d, g)'
    <3>1. Promised(d, g)  BY <1>4, <1>5 DEF Linked
    <3>2. /\ flow[g].req = q /\ flow'[g].req = q
          /\ Pc(g)' = IF g = f THEN "link" ELSE Pc(g)
      BY <1>6, <2>2
    <3>3. CASE g = f
      <4>1. q = f /\ Temp(f) \in First(d).reqs
        BY <1>1, <2>2, <3>1, <3>2, <3>3 DEF Promised
      <4>2. Real(q) \in First(d)'.reqs  BY <1>5, <4>1
      <4>3. QED  BY <3>2, <3>3, <4>2 DEF Promised
    <3>4. CASE g # f
      <4>1. Pc(g) \in {"post", "answered"} => Temp(q) \in First(d)'.reqs
        BY <1>5, <2>2, <3>1, <3>2, <3>4, IdsDiffer DEF Promised
      <4>2. ASSUME Pc(g) = "wait"
            PROVE  \/ Temp(q) \in First(d)'.reqs
                   \/ Temp(q) \notin screen'.reqs /\ Real(q) \in First(d)'.reqs
        <5>1. CASE Temp(q) \in First(d).reqs /\ q = f
          BY <1>1, <1>5, <5>1, IdsDiffer
        <5>2. CASE Temp(q) \in First(d).reqs /\ q # f
          BY <1>5, <5>2, IdsDiffer
        <5>3. CASE Temp(q) \notin screen.reqs /\ Real(q) \in First(d).reqs
          BY <1>1, <1>5, <5>3, IdsDiffer
        <5>4. QED  BY <3>1, <3>2, <4>2, <5>1, <5>2, <5>3 DEF Promised
      <4>3. Pc(g) \in {"link", "linked"} => Real(q) \in First(d)'.reqs
        BY <1>5, <3>1, <3>2, IdsDiffer DEF Promised
      <4>4. QED  BY <3>2, <3>4, <4>1, <4>2, <4>3 DEF Promised
    <3>5. QED  BY <3>3, <3>4
  <2>7. QED  BY <2>1, <2>3, <2>4, <2>5, <2>6
<1>8. QED  BY <1>7 DEF Linked

\* A requirement gets its id on the whole screen.
LEMMA ReconcileTracked ==
    ASSUME Even, Tracked, NEW f \in Flows, Reconcile(f)
    PROVE  Tracked'
<1>1. /\ Fine /\ Settled /\ AllPlaced /\ \A g \in Flows : Unshown(g) /\ Known(g)
  BY DEF Even, Settled, Tracked
<1>2. NamedStep(f)  BY <1>1, ReconcileFine DEF NamedStep
<1>3. /\ OthersAlike(f) /\ case' = case /\ folder' = folder /\ reqs' = reqs
      /\ links' = links /\ run' = run
      /\ Op(f) = "require" /\ Pc(f) = "answered" /\ Onward(f, "link")
      /\ flow'[f].op = "require" /\ flow'[f].pc = "link" /\ NamedAll(f)
      /\ screen'.folders = screen.folders /\ screen'.runs = screen.runs
      /\ screen'.reqs = (screen.reqs \ {Temp(f)}) \cup {Real(f)}
  BY <1>2 DEF NamedStep, At, Op, Pc, NamedAll, Server, Onward
<1>4. \A d \in Cases :
         /\ OnScreen(d)' <=> OnScreen(d)
         /\ OnScreen(d) =>
               /\ First(d)'.ver = First(d).ver /\ First(d)'.folder = First(d).folder
               /\ First(d)'.comments = First(d).comments
               /\ \A y : y \in First(d)'.reqs <=>
                     (y \in First(d).reqs /\ y # Temp(f))
                     \/ (y = Real(f) /\ Temp(f) \in First(d).reqs)
               /\ Temp(f) \notin First(d).reqs => screen'.cases[d] = screen.cases[d]
  BY <1>1, <1>2, NamedFirst
<1>5. ASSUME NEW op, op # "require"  PROVE Steady(op)
  <2>1. ~At(f, op, "answered") /\ ~(flow'[f].op = op /\ flow'[f].pc = "answered")
    BY <1>3, <1>5 DEF At, Op
  <2>2. QED  BY <1>3, <2>1, SteadyBy
<1>6. \A g \in Flows : Unshown(g)'
  <2>1. ShowsNone(f)
    <3>1. SUFFICES ASSUME NEW g \in Flows \ {f}, Early(g)
                   PROVE  /\ screen'.cases[g] = <<>> /\ screen'.folders[g] = 0
                          /\ screen'.runs[g] = None /\ Real(g) \notin screen'.reqs
                          /\ \A d \in Cases : screen'.cases[d] # <<>> =>
                                /\ Clear(Head(screen'.cases[d]), g)
                                /\ (Pc(g) = "idle" /\ g # f) =>
                                      Temp(g) \notin Head(screen'.cases[d]).reqs
      BY <1>3 DEF ShowsNone
    <3>2. g \in Cases  BY DEF Cases
    <3>3. /\ screen.cases[g] = <<>> /\ screen.folders[g] = 0 /\ screen.runs[g] = None
          /\ Real(g) \notin screen.reqs
          /\ \A d \in Cases : OnScreen(d) => Before(First(d), g)
      BY <1>1, <3>1 DEF Unshown
    <3>4. Real(g) \notin screen'.reqs  BY <1>3, <3>3, IdsDiffer
    <3>5. ASSUME NEW d \in Cases, OnScreen(d)'
          PROVE  Before(First(d)', g)
      <4>1. Before(First(d), g) /\ OnScreen(d)  BY <1>4, <3>3, <3>5
      <4>2. QED  BY <1>4, <4>1, IdsDiffer DEF Before, Clear
    <3>6. screen'.cases[g] = <<>>  BY <1>4, <3>2, <3>3 DEF OnScreen
    <3>7. QED  BY <1>3, <3>3, <3>4, <3>5, <3>6 DEF OnScreen, First, Before
  <2>2. BringsNone(f)  BY <1>1, <1>3, OnBrings
  <2>3. QED  BY <1>1, <1>3, <2>1, <2>2, UnshownStep
<1>7. ASSUME NEW g \in Flows  PROVE Known(g)'
  <2>1. CASE g # f
    <3>1. ASSUME Op(g) = "save", screen'.cases[flow[g].case] # <<>>,
                 NEW y \in Head(flow[g].was).reqs, y \in screen'.reqs
          PROVE  y \in Head(screen'.cases[flow[g].case]).reqs
      <4>1. PICK d : d = flow[g].case  OBVIOUS
      <4>2. d \in Cases  BY <1>1, <3>1, <4>1, SaveTyped DEF Fine
      <4>3. OnScreen(d)  BY <1>4, <3>1, <4>1, <4>2 DEF OnScreen
      <4>4. Early(f)  BY <1>3 DEF Early
      <4>5. y # Real(f)  BY <1>1, <3>1, <4>4 DEF Unshown, Before, Clear
      <4>6. y \in screen.reqs /\ y # Temp(f)  BY <1>3, <3>1, <4>5, IdsDiffer
      <4>7. y \in First(d).reqs  BY <1>1, <3>1, <4>1, <4>3, <4>6 DEF Known
      <4>8. y \in First(d)'.reqs  BY <1>4, <4>2, <4>3, <4>6, <4>7
      <4>9. QED  BY <4>1, <4>8 DEF First
    <3>2. Pc(f) # "done"  BY <1>3
    <3>3. QED  BY <1>1, <1>3, <2>1, <3>1, <3>2, KnownOthers
  <2>2. CASE g = f
    <3>1. Op(f) # "save" /\ (Op(f) \in AboutCase => flow[f].case # f)
      BY <1>1, <1>3, NotOwn
    <3>2. QED  BY <1>1, <1>3, <2>2, <3>1, KnownSelf
  <2>3. QED  BY <2>1, <2>2
<1>8. ASSUME NEW d \in Cases  PROVE Existence(d)' /\ Remarked(d)' /\ Linked(d)'
  <2>1. Existence(d) /\ Remarked(d)  BY DEF Tracked
  <2>2. /\ Len(screen'.cases[d]) = Len(screen.cases[d])
        /\ screen'.cases[d] = <<>> <=> screen.cases[d] = <<>>
    BY <1>3 DEF NamedAll
  <2>3. Existence(d)'
    BY <1>3, <1>5, <2>1, <2>2, ExistenceStays
  <2>4. screen'.cases[d] # <<>> =>
           screen.cases[d] # <<>> /\ Head(screen'.cases[d]).comments = First(d).comments
    BY <1>4 DEF OnScreen, First
  <2>5. Remarked(d)'  BY <1>3, <1>5, <2>1, <2>4, RemarksStay
  <2>6. QED  BY <1>1, <1>2, <2>3, <2>5, NamedLinked
<1>9. ASSUME NEW d \in Cases  PROVE Fields(d)'
  <2>1. Fields(d) /\ Steady("save")  BY <1>5 DEF Tracked
  <2>2. SUFFICES ASSUME OnScreen(d)  PROVE Fields(d)'
    BY <1>4 DEF Fields
  <2>3. CASE Temp(f) \notin First(d).reqs
    <3>1. screen'.cases[d] = screen.cases[d]  BY <1>4, <2>2, <2>3
    <3>2. QED  BY <1>3, <2>1, <3>1, FieldsStay
  <2>4. CASE Temp(f) \in First(d).reqs
    <3>1. \A g \in Flows : g \in Saves(d)' <=> g \in Saves(d)
      BY <2>1 DEF Saves, Steady
    <3>2. Saves(d)' = Saves(d)  BY <3>1 DEF Saves
    <3>3. CASE Saves(d) = {}
      BY <1>3, <1>4, <2>1, <2>2, <3>2, <3>3 DEF Fields
    <3>4. ASSUME NEW g \in Saves(d)  PROVE Crossed(g)'
      <4>1. g \in Flows /\ Op(g) = "save" /\ flow[g].case = d /\ At(g, "save", "answered")
        BY DEF Saves, At, Op
      <4>2. Early(f)  BY <1>3 DEF Early
      <4>3. Real(f) \notin Head(flow[g].was).reqs
        BY <1>1, <4>1, <4>2 DEF Unshown, Before, Clear
      <4>4. flow'[g].was = flow[g].was /\ flow'[g].case = d  BY <2>1, <4>1 DEF Steady
      <4>5. Real(f) \in Head(screen'.cases[d]).reqs  BY <1>4, <2>2, <2>4 DEF First
      <4>6. QED  BY <4>3, <4>4, <4>5 DEF Crossed
    <3>5. QED  BY <3>2, <3>3, <3>4 DEF Fields
  <2>5. QED  BY <2>3, <2>4
<1>10. FoldersTold' /\ RunsTold'
  BY <1>3, <1>5, FoldersStay, RunsStay DEF Tracked
<1>11. ReqsTold'
  <2>1. ASSUME NEW q \in Reqs
        PROVE  Real(q) \in screen'.reqs <=>
                  q \in reqs' /\ ~(q \in Flows /\ At(q, "require", "answered")')
    <3>1. CASE q = f
      <4>1. f \in reqs  BY <1>1, <1>3 DEF AllPlaced, Placed, At, Op, Pc
      <4>2. QED  BY <1>3, <3>1, <4>1 DEF At
    <3>2. CASE q # f
      <4>1. Real(q) \in screen'.reqs <=> Real(q) \in screen.reqs
        BY <1>3, <3>2, IdsDiffer
      <4>2. q \in Flows => (At(q, "require", "answered")' <=> At(q, "require", "answered"))
        BY <1>3, <3>2, Kept DEF At
      <4>3. QED  BY <1>3, <4>1, <4>2 DEF Tracked, ReqsTold
    <3>3. QED  BY <3>1, <3>2
  <2>2. QED  BY <2>1 DEF ReqsTold
<1>12. QED  BY <1>6, <1>7, <1>8, <1>9, <1>10, <1>11 DEF Tracked

\* The answer of f has been shown.
Told(f) ==
    /\ OthersAlike(f) /\ flow'[f] = Past /\ UNCHANGED Server
    /\ Pc(f) = "answered" /\ screen'.reqs = screen.reqs

\* Early flows are not shown by the answer of another.
EarlyHidden(f) ==
    \A g \in Flows \ {f} : Early(g) =>
        /\ screen'.cases[g] = <<>> /\ screen'.folders[g] = 0 /\ screen'.runs[g] = None
        /\ \A c \in Cases : OnScreen(c)' => Before(First(c)', g)

\* An answer shows nothing of flows that are early.
LEMMA ToldUnshown ==
    ASSUME Tracked, NEW f \in Flows, Told(f), EarlyHidden(f)
    PROVE  \A g \in Flows : Unshown(g)'
<1>1. /\ OthersAlike(f) /\ flow'[f].pc = "done" /\ flow'[f].op = "none"
      /\ screen'.reqs = screen.reqs
  BY DEF Told, Past
<1>2. \A g \in Flows : Unshown(g)  BY DEF Tracked
<1>3. ShowsNone(f)
  BY <1>1, <1>2 DEF EarlyHidden, ShowsNone, Unshown, OnScreen, First, Before
<1>4. BringsNone(f)  BY <1>1, <1>2, OnBrings
<1>5. QED  BY <1>1, <1>2, <1>3, <1>4, UnshownStep

\* The links of a case stay, or it is the one that f has created.
LEMMA ToldKnown ==
    ASSUME Fine, Settled, Tracked, NEW f \in Flows, Told(f),
           \A c \in Cases : OnScreen(c)' =>
               \/ OnScreen(c) /\ First(c)'.reqs = First(c).reqs
               \/ c = f
    PROVE  \A g \in Flows : Known(g)'
<1>1. /\ OthersAlike(f) /\ flow'[f].op = "none" /\ Pc(f) = "answered"
      /\ screen'.reqs = screen.reqs
  BY DEF Told, Past
<1>2. \A g \in Flows : Known(g)  BY DEF Tracked
<1>3. ASSUME NEW g \in Flows \ {f}  PROVE Known(g)'
  <2>1. ASSUME Op(g) = "save", screen'.cases[flow[g].case] # <<>>
        PROVE  \A y \in Head(flow[g].was).reqs :
                   y \in Head(screen'.cases[flow[g].case]).reqs \/ y \notin screen'.reqs
    <3>1. PICK d : d = flow[g].case  OBVIOUS
    <3>2. d \in Cases  BY <2>1, <3>1, SaveTyped DEF Fine, Settled
    <3>3. d # f  BY <1>1, <1>2, <2>1, <3>1 DEF Known, AboutCase
    <3>4. OnScreen(d) /\ First(d)'.reqs = First(d).reqs
      BY <2>1, <3>1, <3>2, <3>3 DEF OnScreen
    <3>5. QED  BY <1>1, <1>2, <2>1, <3>1, <3>4 DEF Known, First
  <2>2. Pc(f) # "done"  BY <1>1
  <2>3. QED  BY <1>1, <1>2, <2>1, <2>2, KnownOthers
<1>4. Known(f)'  BY <1>1 DEF Known, Op, AboutCase
<1>5. QED  BY <1>3, <1>4

\* A case that f is not about, and has not created.
LEMMA ToldApart ==
    ASSUME Tracked, NEW f \in Flows, Told(f), NEW d \in Cases,
           Op(f) \notin {"require", "link"},
           Op(f) = "create" => d # f, Op(f) \in AboutCase => flow[f].case # d,
           screen'.cases[d] = screen.cases[d]
    PROVE  Existence(d)' /\ Fields(d)' /\ Remarked(d)' /\ Linked(d)'
<1>1. /\ OthersAlike(f) /\ flow'[f].op = "none" /\ flow'[f].pc = "done"
      /\ screen'.reqs = screen.reqs
      /\ case' = case /\ links' = links
  BY DEF Told, Past, Server
<1>2. /\ OnScreen(d)' <=> OnScreen(d)
      /\ First(d)' = First(d)
  BY DEF OnScreen, First
<1>3. Existence(d) /\ Fields(d) /\ Remarked(d) /\ Linked(d)  BY DEF Tracked
<1>4. \A g \in Flows \ {f} : /\ flow'[g].case = flow[g].case /\ flow'[g].was = flow[g].was
                             /\ flow'[g].new = flow[g].new
                             /\ \A op : At(g, op, "answered")' <=> At(g, op, "answered")
  BY <1>1, Kept DEF At
<1>5. \A op : ~At(f, op, "answered")'  BY <1>1 DEF At
<1>6. ASSUME NEW op \in {"save", "delete", "comment"}, NEW g \in Flows
      PROVE  (At(g, op, "answered") /\ flow[g].case = d)
                <=> (At(g, op, "answered") /\ flow[g].case = d)'
  <2>1. CASE g = f  BY <1>5, <2>1 DEF At, Op, AboutCase
  <2>2. CASE g # f  BY <1>4, <2>2
  <2>3. QED  BY <2>1, <2>2
<1>7. ASSUME d \in Flows
      PROVE  /\ At(d, "create", "answered")' <=> At(d, "create", "answered")
             /\ At(d, "create", "answered") => flow'[d].new = flow[d].new
  <2>1. CASE d = f  BY <1>5, <2>1 DEF At, Op
  <2>2. CASE d # f  BY <1>4, <1>7, <2>2
  <2>3. QED  BY <2>1, <2>2
<1>8. Existence(d)'
  <2>1. OnScreen(d) /\ case[d].archived =>
           \E g \in Flows : (At(g, "delete", "answered") /\ flow[g].case = d)'
    BY <1>3, <1>6 DEF Existence
  <2>2. \A g \in Flows : (At(g, "delete", "answered") /\ flow[g].case = d)' => case[d].archived
    BY <1>3, <1>6 DEF Existence
  <2>3. QED  BY <1>1, <1>2, <1>3, <1>7, <2>1, <2>2 DEF Existence
<1>9. Fields(d)'
  <2>1. Saves(d)' = Saves(d) /\ \A g \in Saves(d) : g \in Flows /\ g # f
    <3>1. \A g \in Flows : g \in Saves(d)' <=> g \in Saves(d)  BY <1>6 DEF Saves
    <3>2. f \notin Saves(d)  BY <3>1, <1>5 DEF Saves
    <3>3. QED  BY <3>1, <3>2 DEF Saves
  <2>2. \A g \in Saves(d) : (Crossed(g)' <=> Crossed(g)) /\ flow'[g].new = flow[g].new
    <3>1. \A g \in Saves(d) : flow[g].case = d  BY DEF Saves
    <3>2. QED  BY <1>4, <2>1, <3>1 DEF Crossed
  <2>3. QED  BY <1>1, <1>2, <1>3, <2>1, <2>2 DEF Fields
<1>10. Remarked(d)'  BY <1>1, <1>2, <1>3, <1>6 DEF Remarked
<1>11. Linked(d)'  BY <1>1, <1>2, <1>3, LinkedStays DEF First
<1>12. QED  BY <1>8, <1>9, <1>10, <1>11

\* An answer about one list leaves the others.
LEMMA ToldLists ==
    ASSUME Tracked, NEW f \in Flows, Told(f)
    PROVE  /\ Op(f) # "require" => ReqsTold'
           /\ Op(f) # "folder" /\ screen'.folders = screen.folders => FoldersTold'
           /\ Op(f) # "run" /\ screen'.runs = screen.runs => RunsTold'
<1>1. /\ OthersAlike(f) /\ flow'[f].pc = "done"
      /\ screen'.reqs = screen.reqs /\ folder' = folder /\ reqs' = reqs /\ run' = run
  BY DEF Told, Past, Server
<1>2. \A op : op # Op(f) => Steady(op)
  <2>1. ASSUME NEW op, op # Op(f)  PROVE Steady(op)
    <3>1. ~At(f, op, "answered") /\ flow'[f].pc # "answered"  BY <1>1, <2>1 DEF At, Op
    <3>2. QED  BY <1>1, <3>1, SteadyBy
  <2>2. QED  BY <2>1
<1>3. QED  BY <1>1, <1>2, ReqsStay, FoldersStay, RunsStay DEF Tracked

\* What a new case shows.
LEMMA ConfirmCreateTracked ==
    ASSUME Even, Tracked, NEW f \in Flows, ConfirmCreate(f), ~misled'
    PROVE  Tracked'
<1>1. /\ Fine /\ Settled /\ AllPlaced /\ \A g \in Flows : Unshown(g) /\ Known(g)
  BY DEF Even, Settled, Tracked
<1>2. /\ UNCHANGED Server /\ flow'[f] = Past /\ OthersAlike(f)
      /\ At(f, "create", "answered") /\ flow[f].new \in Copy
      /\ CopiesOf(f, Append(screen.cases[f], flow[f].new))
      /\ flow[f].new.comments = NoComment
  BY <1>1, ConfirmCreateFine
<1>3. Op(f) = "create" /\ Pc(f) = "answered" /\ Early(f) /\ f \in Cases
  BY <1>2 DEF At, Op, Pc, Early, Cases
<1>4. PICK new : new = flow[f].new  OBVIOUS
<1>5. /\ screen'.cases[f] = <<new>> /\ new \in Copy
      /\ new.comments = NoComment /\ new.reqs = {}
  <2>1. screen.cases[f] = <<>>  BY <1>1, <1>3 DEF Unshown
  <2>2. <<>> \in Seq(Copy)  OBVIOUS
  <2>3. Append(screen.cases[f], new) = <<new>>  BY <1>2, <1>4, <2>1, <2>2, AppendHead
  <2>4. QED  BY <1>1, <1>2, <1>3, <1>4, <2>3 DEF CopiesOf, Known
<1>6. OnScreen(f)' /\ First(f)' = new /\ Len(screen'.cases[f]) = 1
  <2>1. <<new>> # <<>> /\ Head(<<new>>) = new /\ Len(<<new>>) = 1  OBVIOUS
  <2>2. QED  BY <1>5, <2>1 DEF OnScreen, First
<1>7. /\ \A d \in Cases \ {f} : screen'.cases[d] = screen.cases[d]
      /\ screen'.folders = screen.folders /\ screen'.runs = screen.runs
      /\ screen'.reqs = screen.reqs
  BY <1>2 DEF CopiesOf
<1>8. Told(f)  BY <1>2, <1>3, <1>7 DEF Told
<1>9. EarlyHidden(f)
  <2>1. ASSUME NEW g \in Flows \ {f}, Early(g)
        PROVE  /\ screen'.cases[g] = <<>> /\ screen'.folders[g] = 0 /\ screen'.runs[g] = None
               /\ \A c \in Cases : OnScreen(c)' => Before(First(c)', g)
    <3>1. Unshown(g) /\ g \in Cases  BY <1>1 DEF Cases
    <3>2. Clear(new, g)  BY <1>3, <1>4, <2>1, <3>1 DEF Unshown
    <3>3. Before(First(f)', g)  BY <1>5, <1>6, <3>2 DEF Before
    <3>4. QED  BY <1>7, <2>1, <3>1, <3>3 DEF Unshown, OnScreen, First
  <2>2. QED  BY <2>1 DEF EarlyHidden
<1>10. \A g \in Flows : Unshown(g)'  BY <1>8, <1>9, ToldUnshown
<1>11. \A g \in Flows : Known(g)'
  <2>1. \A c \in Cases : OnScreen(c)' =>
           (OnScreen(c) /\ First(c)'.reqs = First(c).reqs) \/ c = f
    BY <1>7 DEF OnScreen, First
  <2>2. QED  BY <1>1, <1>8, <2>1, ToldKnown
<1>12. ASSUME NEW d \in Cases \ {f}
       PROVE  Existence(d)' /\ Fields(d)' /\ Remarked(d)' /\ Linked(d)'
  <2>1. Op(f) \notin AboutCase  BY <1>3 DEF AboutCase
  <2>2. Op(f) \notin {"require", "link"}  BY <1>3
  <2>3. QED  BY <1>7, <1>8, <2>1, <2>2, ToldApart
<1>13. \A g \in Flows : Op(g) \in AboutCase => flow[g].case # f
  BY <1>1, <1>3 DEF Known
<1>14. \A g \in Flows : Op(g)' \in AboutCase => flow'[g].case # f
  <2>1. ASSUME NEW g \in Flows, Op(g)' \in AboutCase  PROVE flow'[g].case # f
    <3>1. g # f  BY <1>2, <2>1 DEF Past, Op, AboutCase
    <3>2. QED  BY <1>2, <1>13, <2>1, <3>1, Kept DEF Op
  <2>2. QED  BY <2>1
<1>15. \A op : ~At(f, op, "answered")'  BY <1>2 DEF Past, At
<1>16. \A g \in Flows, op \in AboutCase : ~(At(g, op, "answered") /\ flow[g].case = f)'
  BY <1>14 DEF At, Op
<1>17. /\ case' = case /\ links' = links /\ folder' = folder
       /\ case[f].ver = new.ver /\ case[f].folder = new.folder
       /\ ~case[f].archived /\ case[f].comments = NoComment
       /\ \A q \in Reqs : <<f, q>> \notin links
  BY <1>2, <1>3, <1>4 DEF Server, Tracked, Existence
<1>18. Existence(f)'
  <2>1. \A g \in Flows : ~(At(g, "delete", "answered") /\ flow[g].case = f)'
    BY <1>16 DEF AboutCase
  <2>2. QED  BY <1>6, <1>15, <1>17, <2>1 DEF Existence
<1>19. Fields(f)'
  <2>1. Saves(f)' = {}  BY <1>16 DEF Saves, AboutCase
  <2>2. QED  BY <1>6, <1>17, <2>1 DEF Fields
<1>20. Remarked(f)'
  <2>1. \A g \in Flows : ~(At(g, "comment", "answered") /\ flow[g].case = f)'
    BY <1>16 DEF AboutCase
  <2>2. QED  BY <1>5, <1>6, <1>17, <2>1 DEF Remarked
<1>21. Linked(f)'
  <2>1. \A q \in Reqs : Links(f, q)' = {}  BY <1>14 DEF Links, Op, AboutCase
  <2>2. First(f)'.reqs = {}  BY <1>5, <1>6
  <2>3. QED  BY <1>17, <2>1, <2>2 DEF Linked
<1>22. FoldersTold' /\ ReqsTold' /\ RunsTold'
  BY <1>3, <1>7, <1>8, ToldLists
<1>23. QED
  BY <1>10, <1>11, <1>12, <1>18, <1>19, <1>20, <1>21, <1>22 DEF Tracked

\* An answer about no case leaves the cases.
LEMMA ToldCases ==
    ASSUME Fine, Settled, Tracked, NEW f \in Flows, Told(f),
           Op(f) \notin AboutCase \cup {"create"}, screen'.cases = screen.cases,
           \A g \in Flows \ {f} : Early(g) =>
               screen'.folders[g] = screen.folders[g] /\ screen'.runs[g] = screen.runs[g]
    PROVE  /\ \A g \in Flows : Unshown(g)' /\ Known(g)'
           /\ \A d \in Cases : Existence(d)' /\ Fields(d)' /\ Remarked(d)' /\ Linked(d)'
<1>1. EarlyHidden(f)
  BY DEF EarlyHidden, Tracked, Unshown, OnScreen, First
<1>2. \A c \in Cases : OnScreen(c)' => OnScreen(c) /\ First(c)'.reqs = First(c).reqs
  BY DEF OnScreen, First
<1>3. \A g \in Flows : Unshown(g)' /\ Known(g)'  BY <1>1, <1>2, ToldUnshown, ToldKnown
<1>4. ASSUME NEW d \in Cases
      PROVE  Existence(d)' /\ Fields(d)' /\ Remarked(d)' /\ Linked(d)'
  <2>1. Op(f) \notin {"require", "link"} /\ Op(f) # "create" /\ Op(f) \notin AboutCase
    BY DEF AboutCase
  <2>2. QED  BY <2>1, ToldApart
<1>5. QED  BY <1>3, <1>4

\* The answer to a new folder tells of it.
LEMMA ConfirmFolderTracked ==
    ASSUME Even, Tracked, NEW f \in Flows, ConfirmFolder(f)
    PROVE  Tracked'
<1>1. /\ Fine /\ Settled /\ \A g \in Flows : Unshown(g) /\ Known(g)
  BY DEF Even, Tracked
<1>2. /\ UNCHANGED Server /\ flow'[f] = Past /\ OthersAlike(f)
      /\ At(f, "folder", "answered")
      /\ screen'.folders = [screen.folders EXCEPT ![f] = @ + 1]
      /\ screen'.cases = screen.cases /\ screen'.reqs = screen.reqs
      /\ screen'.runs = screen.runs
  BY <1>1, ConfirmFolderFine
<1>3. Op(f) = "folder" /\ Pc(f) = "answered" /\ Early(f) /\ f \in Folders
  BY <1>2 DEF At, Op, Pc, Early, Folders
<1>4. Told(f)  BY <1>2, <1>3 DEF Told
<1>5. /\ screen'.folders[f] = 1
      /\ \A g \in Folders \ {f} : screen'.folders[g] = screen.folders[g]
  <2>1. PICK k : k = screen.folders  OBVIOUS
  <2>2. k \in [Folders -> Nat]  BY <1>1, <2>1 DEF Fine, Good, Screen
  <2>3. k[f] = 0  BY <1>1, <1>3, <2>1 DEF Unshown
  <2>4. screen'.folders = [k EXCEPT ![f] = @ + 1]  BY <1>2, <2>1
  <2>5. screen'.folders[f] = k[f] + 1  BY <1>3, <2>2, <2>4
  <2>6. QED  BY <2>1, <2>2, <2>3, <2>4, <2>5
<1>6. /\ \A g \in Flows : Unshown(g)' /\ Known(g)'
      /\ \A d \in Cases : Existence(d)' /\ Fields(d)' /\ Remarked(d)' /\ Linked(d)'
  <2>1. Op(f) \notin AboutCase \cup {"create"}  BY <1>3 DEF AboutCase
  <2>2. \A g \in Flows \ {f} : screen'.folders[g] = screen.folders[g]
                               /\ screen'.runs[g] = screen.runs[g]
    BY <1>2, <1>5 DEF Folders
  <2>3. QED  BY <1>1, <1>2, <1>4, <2>1, <2>2, ToldCases
<1>7. ReqsTold' /\ RunsTold'  BY <1>2, <1>3, <1>4, ToldLists
<1>8. FoldersTold'
  <2>1. \A g \in Flows \ {f} : At(g, "folder", "answered")' <=> At(g, "folder", "answered")
    BY <1>2, Kept DEF At
  <2>2. ~At(f, "folder", "answered")'  BY <1>2 DEF At, Past
  <2>3. folder' = folder /\ FoldersTold  BY <1>2 DEF Server, Tracked
  <2>4. QED  BY <1>2, <1>3, <1>5, <2>1, <2>2, <2>3 DEF FoldersTold
<1>9. QED  BY <1>6, <1>7, <1>8 DEF Tracked

\* The answer to a new run tells of it.
LEMMA ConfirmRunTracked ==
    ASSUME Even, Tracked, NEW f \in Flows, ConfirmRun(f)
    PROVE  Tracked'
<1>1. /\ Fine /\ Settled /\ \A g \in Flows : Unshown(g) /\ Known(g)
  BY DEF Even, Tracked
<1>2. /\ UNCHANGED Server /\ flow'[f] = Past /\ OthersAlike(f)
      /\ At(f, "run", "answered")
      /\ screen'.runs[f] = flow[f].cases
      /\ \A r \in Flows \ {f} : screen'.runs[r] = screen.runs[r]
      /\ screen'.cases = screen.cases /\ screen'.reqs = screen.reqs
      /\ screen'.folders = screen.folders
  BY <1>1, ConfirmRunFine
<1>3. Op(f) = "run" /\ Pc(f) = "answered"  BY <1>2 DEF At, Op, Pc
<1>4. Told(f)  BY <1>2, <1>3 DEF Told
<1>5. /\ \A g \in Flows : Unshown(g)' /\ Known(g)'
      /\ \A d \in Cases : Existence(d)' /\ Fields(d)' /\ Remarked(d)' /\ Linked(d)'
  <2>1. Op(f) \notin AboutCase \cup {"create"}  BY <1>3 DEF AboutCase
  <2>2. QED  BY <1>1, <1>2, <1>4, <2>1, ToldCases
<1>6. ReqsTold' /\ FoldersTold'  BY <1>2, <1>3, <1>4, ToldLists
<1>7. RunsTold'
  <2>1. \A r \in Flows \ {f} : /\ At(r, "run", "answered")' <=> At(r, "run", "answered")
                               /\ flow'[r].cases = flow[r].cases
    BY <1>2, Kept DEF At
  <2>2. ~At(f, "run", "answered")'  BY <1>2 DEF At, Past
  <2>3. run' = run /\ RunsTold  BY <1>2 DEF Server, Tracked
  <2>4. QED  BY <1>2, <2>1, <2>2, <2>3 DEF RunsTold
<1>8. QED  BY <1>5, <1>6, <1>7 DEF Tracked

\* A deleted case goes.
LEMMA ConfirmDeleteTracked ==
    ASSUME Even, Tracked, NEW f \in Flows, ConfirmDelete(f), ~misled'
    PROVE  Tracked'
<1>1. /\ Fine /\ Settled /\ AllPlaced /\ \A g \in Flows : Unshown(g) /\ Known(g)
  BY DEF Even, Settled, Tracked
<1>2. /\ UNCHANGED Server /\ flow'[f] = Past /\ OthersAlike(f)
      /\ At(f, "delete", "answered") /\ flow[f].case \in Cases
      /\ screen'.cases[flow[f].case] = <<>>
      /\ \A d \in Cases \ {flow[f].case} : screen'.cases[d] = screen.cases[d]
      /\ screen'.folders = screen.folders /\ screen'.reqs = screen.reqs
      /\ screen'.runs = screen.runs
  BY <1>1, ConfirmDeleteFine
<1>3. Op(f) = "delete" /\ Pc(f) = "answered"  BY <1>2 DEF At, Op, Pc
<1>4. Told(f)  BY <1>2, <1>3 DEF Told
<1>5. PICK c : c = flow[f].case  OBVIOUS
<1>6. /\ c \in Cases /\ screen'.cases[c] = <<>> /\ ~OnScreen(c)'
      /\ \A d \in Cases : d # c => screen'.cases[d] = screen.cases[d]
  BY <1>2, <1>5 DEF OnScreen
<1>7. EarlyHidden(f)
  BY <1>1, <1>2, <1>6 DEF EarlyHidden, Unshown, OnScreen, First, Cases
<1>8. \A g \in Flows : Unshown(g)' /\ Known(g)'
  <2>1. \A d \in Cases : OnScreen(d)' => OnScreen(d) /\ First(d)'.reqs = First(d).reqs
    BY <1>6 DEF OnScreen, First
  <2>2. QED  BY <1>1, <1>4, <1>7, <2>1, ToldUnshown, ToldKnown
<1>9. ASSUME NEW d \in Cases
      PROVE  Existence(d)' /\ Fields(d)' /\ Remarked(d)' /\ Linked(d)'
  <2>1. CASE d # c
    <3>1. Op(f) \notin {"require", "link"} /\ Op(f) # "create"  BY <1>3
    <3>2. QED  BY <1>4, <1>5, <1>6, <2>1, <3>1, ToldApart
  <2>2. CASE d = c
    <3>1. Fields(d)' /\ Remarked(d)' /\ Linked(d)'
      BY <1>6, <2>2 DEF Fields, Remarked, Linked
    <3>2. case' = case /\ links' = links /\ case[c].archived /\ Existence(c)
      BY <1>2, <1>5, <1>6 DEF Server, Tracked, Existence
    <3>3. c \in Flows => Pc(c) = "done" /\ c # f
      BY <1>1, <1>3, <1>5 DEF Known, AboutCase
    <3>4. c \in Flows => ~At(c, "create", "answered")'
      BY <1>2, <3>3, Kept DEF At, Pc
    <3>5. Len(screen'.cases[c]) = 0  BY <1>6
    <3>6. Existence(c)'  BY <1>6, <3>2, <3>4, <3>5 DEF Existence
    <3>7. QED  BY <2>2, <3>1, <3>6
  <2>3. QED  BY <2>1, <2>2
<1>10. FoldersTold' /\ ReqsTold' /\ RunsTold'
  BY <1>2, <1>3, <1>4, ToldLists
<1>11. QED  BY <1>8, <1>9, <1>10 DEF Tracked

\* The case that an answer is about is shown as before but for its first copy,
\* which the fields or one comment of f are new in.
Rewritten(f, c, new) ==
    /\ Told(f) /\ Op(f) \in {"save", "comment"} /\ flow[f].case = c
    /\ InPlace(c, new)
    /\ OnScreen(c) =>
          /\ new.reqs = First(c).reqs
          /\ new.ver \in {First(c).ver, f}
          /\ \A g \in Flows \ {f} : new.comments[g] = First(c).comments[g]

\* An answer about a case leaves all the rest.
LEMMA RewrittenRest ==
    ASSUME Even, Tracked, NEW f \in Flows, NEW c, NEW new, Rewritten(f, c, new)
    PROVE  /\ \A g \in Flows : Unshown(g)' /\ Known(g)'
           /\ \A d \in Cases : Existence(d)' /\ Linked(d)'
           /\ \A d \in Cases \ {c} : Fields(d)' /\ Remarked(d)'
           /\ FoldersTold' /\ ReqsTold' /\ RunsTold'
           /\ OnScreen(c)' <=> OnScreen(c)
           /\ OnScreen(c) => First(c)' = new
           /\ case' = case
<1>1. /\ Fine /\ Settled /\ \A g \in Flows : Unshown(g) /\ Known(g)
  BY DEF Even, Tracked
<1>2. /\ Told(f) /\ Op(f) \in {"save", "comment"} /\ flow[f].case = c
      /\ UNCHANGED Server /\ flow'[f] = Past /\ OthersAlike(f)
      /\ screen'.reqs = screen.reqs
  BY DEF Rewritten, Told
<1>3. /\ c \in Cases /\ Len(screen'.cases[c]) = Len(screen.cases[c])
      /\ screen'.cases[c] = <<>> <=> screen.cases[c] = <<>>
      /\ OnScreen(c) => First(c)' = new
      /\ \A d \in Cases \ {c} : screen'.cases[d] = screen.cases[d]
      /\ screen'.folders = screen.folders /\ screen'.runs = screen.runs
      /\ OnScreen(c)' <=> OnScreen(c)
  BY DEF Rewritten, InPlace, OnScreen, First
<1>4. OnScreen(c) =>
          /\ new.reqs = First(c).reqs
          /\ new.ver \in {First(c).ver, f}
          /\ \A g \in Flows \ {f} : new.comments[g] = First(c).comments[g]
  BY DEF Rewritten
<1>5. EarlyHidden(f)
  <2>1. ASSUME NEW g \in Flows \ {f}, Early(g)
        PROVE  /\ screen'.cases[g] = <<>> /\ screen'.folders[g] = 0 /\ screen'.runs[g] = None
               /\ \A d \in Cases : OnScreen(d)' => Before(First(d)', g)
    <3>1. Unshown(g) /\ g \in Cases  BY <1>1 DEF Cases
    <3>2. OnScreen(c) => Before(new, g)
      BY <1>3, <1>4, <2>1, <3>1 DEF Unshown, Before, Clear
    <3>3. QED  BY <1>3, <2>1, <3>1, <3>2 DEF Unshown, OnScreen, First
  <2>2. QED  BY <2>1 DEF EarlyHidden
<1>6. \A d \in Cases : OnScreen(d)' => OnScreen(d) /\ First(d)'.reqs = First(d).reqs
  BY <1>3, <1>4 DEF OnScreen, First
<1>7. \A g \in Flows : Unshown(g)' /\ Known(g)'
  BY <1>1, <1>2, <1>5, <1>6, ToldUnshown, ToldKnown
<1>8. \A d \in Cases \ {c} : Existence(d)' /\ Fields(d)' /\ Remarked(d)' /\ Linked(d)'
  <2>1. Op(f) \notin {"require", "link"} /\ Op(f) # "create"  BY <1>2
  <2>2. QED  BY <1>2, <1>3, <2>1, ToldApart
<1>9. \A op : op \notin {"save", "comment"} => Steady(op)
  <2>1. ASSUME NEW op, op \notin {"save", "comment"}  PROVE Steady(op)
    <3>1. ~At(f, op, "answered") /\ flow'[f].pc # "answered"
      BY <1>2, <2>1 DEF At, Op, Past
    <3>2. QED  BY <1>2, <3>1, SteadyBy
  <2>2. QED  BY <2>1
<1>10. case' = case /\ links' = links  BY <1>2 DEF Server
<1>11. Existence(c)'
  <2>1. Existence(c) /\ case'[c] = case[c]  BY <1>3, <1>10 DEF Tracked
  <2>2. Steady("delete") /\ Steady("create")  BY <1>9
  <2>3. QED  BY <1>3, <1>10, <2>1, <2>2, ExistenceStays
<1>12. Linked(c)'
  <2>1. Op(f) \notin {"require", "link"} /\ flow'[f].op \notin {"require", "link"}
    BY <1>2 DEF Past
  <2>2. Linked(c)  BY <1>3 DEF Tracked
  <2>3. screen'.cases[c] # <<>> =>
           screen.cases[c] # <<>> /\ Head(screen'.cases[c]).reqs = First(c).reqs
    BY <1>3, <1>6 DEF OnScreen, First
  <2>4. QED  BY <1>2, <1>3, <1>10, <2>1, <2>2, <2>3, LinkedStays
<1>13. FoldersTold' /\ ReqsTold' /\ RunsTold'
  BY <1>2, <1>3, ToldLists
<1>14. QED  BY <1>3, <1>7, <1>8, <1>10, <1>11, <1>12, <1>13

\* A comment is added to what is shown.
LEMMA ConfirmCommentTracked ==
    ASSUME Even, Tracked, NEW f \in Flows, ConfirmComment(f)
    PROVE  Tracked'
<1>1. /\ Fine /\ Settled /\ AllPlaced /\ \A g \in Flows : Unshown(g) /\ Known(g)
  BY DEF Even, Settled, Tracked
<1>2. /\ UNCHANGED Server /\ flow'[f] = Past /\ OthersAlike(f)
      /\ At(f, "comment", "answered")
      /\ InPlace(flow[f].case, Commented(Head(screen.cases[flow[f].case]), f))
      /\ screen'.reqs = screen.reqs
  BY <1>1, ConfirmCommentFine
<1>3. Op(f) = "comment" /\ Pc(f) = "answered" /\ Early(f)
  BY <1>2 DEF At, Op, Pc, Early
<1>4. Told(f)  BY <1>2, <1>3 DEF Told
<1>5. PICK c : c = flow[f].case  OBVIOUS
<1>6. PICK new : new = Commented(First(c), f)  OBVIOUS
<1>7. InPlace(c, new) /\ c \in Cases  BY <1>2, <1>5, <1>6 DEF First, InPlace
<1>8. OnScreen(c) =>
         /\ new.reqs = First(c).reqs /\ new.ver = First(c).ver
         /\ new.folder = First(c).folder /\ new.comments[f] = 1
         /\ \A g \in Flows \ {f} : new.comments[g] = First(c).comments[g]
  <2>1. ASSUME OnScreen(c)
        PROVE  /\ new.reqs = First(c).reqs /\ new.ver = First(c).ver
               /\ new.folder = First(c).folder /\ new.comments[f] = 1
               /\ \A g \in Flows \ {f} : new.comments[g] = First(c).comments[g]
    <3>1. First(c) \in Copy  BY <1>1, <1>7, <2>1, HeadTyped DEF OnScreen, First
    <3>2. First(c).comments[f] = 0
      BY <1>1, <1>3, <1>7, <2>1 DEF Unshown, Before, Clear
    <3>3. new.comments[f] = First(c).comments[f] + 1  BY <1>6, <3>1, CommentedTyped
    <3>4. new.comments[f] = 1  BY <3>2, <3>3
    <3>5. QED  BY <1>6, <3>1, <3>4, CommentedTyped
  <2>2. QED  BY <2>1
<1>9. Rewritten(f, c, new)  BY <1>3, <1>4, <1>5, <1>7, <1>8 DEF Rewritten
<1>10. /\ \A g \in Flows : Unshown(g)' /\ Known(g)'
       /\ \A d \in Cases : Existence(d)' /\ Linked(d)'
       /\ \A d \in Cases \ {c} : Fields(d)' /\ Remarked(d)'
       /\ FoldersTold' /\ ReqsTold' /\ RunsTold'
       /\ OnScreen(c)' <=> OnScreen(c)
       /\ OnScreen(c) => First(c)' = new
       /\ case' = case
  BY <1>9, RewrittenRest
<1>11. Remarked(c)'
  <2>1. SUFFICES ASSUME OnScreen(c), NEW g \in Flows
                 PROVE  IF (At(g, "comment", "answered") /\ flow[g].case = c)'
                        THEN case[c].comments[g] = 1
                        ELSE case[c].comments[g] = new.comments[g]
    BY <1>10 DEF Remarked
  <2>2. IF At(g, "comment", "answered") /\ flow[g].case = c
        THEN case[c].comments[g] = 1
        ELSE case[c].comments[g] = First(c).comments[g]
    BY <1>7, <2>1 DEF Tracked, Remarked
  <2>3. CASE g = f
    <3>1. ~At(g, "comment", "answered")'  BY <1>2, <2>3 DEF At, Past
    <3>2. QED  BY <1>2, <1>5, <1>8, <2>1, <2>2, <2>3, <3>1
  <2>4. CASE g # f
    <3>1. (At(g, "comment", "answered") /\ flow[g].case = c)'
             <=> At(g, "comment", "answered") /\ flow[g].case = c
      BY <1>2, <2>4, Kept DEF At
    <3>2. QED  BY <1>8, <2>1, <2>2, <2>4, <3>1
  <2>5. QED  BY <2>3, <2>4
<1>12. Fields(c)'
  <2>1. SUFFICES ASSUME OnScreen(c)  PROVE Fields(c)'
    BY <1>10 DEF Fields
  <2>2. Steady("save")
    <3>1. ~At(f, "save", "answered") /\ flow'[f].pc # "answered"
      BY <1>2, <1>3 DEF At, Op, Past
    <3>2. QED  BY <1>2, <3>1, SteadyBy
  <2>3. \A g \in Flows : g \in Saves(c)' <=> g \in Saves(c)  BY <2>2 DEF Saves, Steady
  <2>4. Saves(c)' = Saves(c)  BY <2>3 DEF Saves
  <2>5. Fields(c)  BY <1>7 DEF Tracked
  <2>6. CASE Saves(c) = {}
    BY <1>8, <1>10, <2>1, <2>4, <2>5, <2>6 DEF Fields
  <2>7. ASSUME NEW g \in Saves(c)  PROVE Crossed(g)'
    <3>1. g \in Flows /\ Op(g) = "save" /\ flow[g].case = c /\ At(g, "save", "answered")
      BY DEF Saves, At, Op
    <3>2. Head(flow[g].was).comments[f] = 0
      BY <1>1, <1>3, <3>1 DEF Unshown, Before, Clear
    <3>3. flow'[g].was = flow[g].was /\ flow'[g].case = c  BY <2>2, <3>1 DEF Steady
    <3>4. Head(screen'.cases[c]).comments[f] = 1  BY <1>8, <1>10, <2>1 DEF First
    <3>5. QED  BY <3>2, <3>3, <3>4 DEF Crossed
  <2>8. QED  BY <2>4, <2>6, <2>7 DEF Fields
<1>13. QED  BY <1>10, <1>11, <1>12 DEF Tracked

\* A draft is shown where nothing has happened to what it was made of.
LEMMA ConfirmSaveTracked ==
    ASSUME Even, Tracked, NEW f \in Flows, ConfirmSave(f), ~misled'
    PROVE  Tracked'
<1>1. /\ Fine /\ Settled /\ AllPlaced /\ FlowTyped
      /\ \A g \in Flows : Unshown(g) /\ Known(g)
  BY DEF Even, Settled, Tracked, Fine
<1>2. /\ UNCHANGED Server /\ flow'[f] = Past /\ OthersAlike(f)
      /\ At(f, "save", "answered")
      /\ InPlace(flow[f].case, flow[f].new) /\ screen'.reqs = screen.reqs
      /\ screen.cases[flow[f].case] = flow[f].was
  BY <1>1, ConfirmSaveFine
<1>3. Op(f) = "save" /\ Pc(f) = "answered" /\ Early(f)
  BY <1>2 DEF At, Op, Pc, Early
<1>4. Told(f)  BY <1>2, <1>3 DEF Told
<1>5. PICK c : c = flow[f].case  OBVIOUS
<1>6. PICK new : new = flow[f].new  OBVIOUS
<1>7. InPlace(c, new) /\ c \in Cases  BY <1>2, <1>5, <1>6 DEF InPlace
<1>8. /\ OnScreen(c) /\ new.ver = f /\ new.comments = First(c).comments
      /\ new.reqs = First(c).reqs
  <2>1. /\ flow[f].was # <<>> /\ new.ver = f
        /\ new.comments = Head(flow[f].was).comments
        /\ new.reqs = Head(flow[f].was).reqs
    BY <1>1, <1>3, <1>6, SaveTyped
  <2>2. QED  BY <1>2, <1>5, <2>1 DEF OnScreen, First
<1>9. Rewritten(f, c, new)  BY <1>3, <1>4, <1>5, <1>7, <1>8 DEF Rewritten
<1>10. /\ \A g \in Flows : Unshown(g)' /\ Known(g)'
       /\ \A d \in Cases : Existence(d)' /\ Linked(d)'
       /\ \A d \in Cases \ {c} : Fields(d)' /\ Remarked(d)'
       /\ FoldersTold' /\ ReqsTold' /\ RunsTold'
       /\ OnScreen(c)' /\ First(c)' = new /\ case' = case
  BY <1>8, <1>9, RewrittenRest
<1>11. Remarked(c)'
  <2>1. Steady("comment")
    <3>1. ~At(f, "comment", "answered") /\ flow'[f].pc # "answered"
      BY <1>2, <1>3 DEF At, Op, Past
    <3>2. QED  BY <1>2, <3>1, SteadyBy
  <2>2. Remarked(c) /\ case'[c] = case[c]  BY <1>7, <1>10 DEF Tracked
  <2>3. screen.cases[c] # <<>> /\ Head(screen'.cases[c]).comments = First(c).comments
    BY <1>8, <1>10 DEF OnScreen, First
  <2>4. QED  BY <1>7, <2>1, <2>2, <2>3, RemarksStay
<1>12. Fields(c)'
  <2>1. \A g \in Flows \ {f} : /\ flow'[g].case = flow[g].case /\ flow'[g].was = flow[g].was
                               /\ At(g, "save", "answered")' <=> At(g, "save", "answered")
    BY <1>2, Kept DEF At
  <2>2. ~At(f, "save", "answered")'  BY <1>2 DEF At, Past
  <2>3. f \in Saves(c)  BY <1>2, <1>5 DEF Saves
  <2>4. Saves(c)' = Saves(c) \ {f}
    <3>1. \A g \in Flows : g \in Saves(c)' <=> g \in Saves(c) /\ g # f
      BY <2>1, <2>2 DEF Saves
    <3>2. QED  BY <3>1 DEF Saves
  <2>5. CASE Saves(c) = {f}
    <3>1. Fields(c)  BY <1>7 DEF Tracked
    <3>2. ~Crossed(f)  BY <1>2 DEF Crossed
    <3>3. case[c].ver = new.ver /\ case[c].folder = new.folder
      BY <1>6, <1>8, <2>5, <3>1, <3>2 DEF Fields
    <3>4. QED  BY <1>10, <2>4, <2>5, <3>3 DEF Fields
  <2>6. ASSUME NEW g \in Saves(c), g # f  PROVE g \in Saves(c)' /\ Crossed(g)'
    <3>1. g \in Flows /\ Op(g) = "save" /\ flow[g].case = c  BY DEF Saves, At, Op
    <3>2. Head(flow[g].was).ver # f  BY <1>1, <1>3, <3>1 DEF Unshown, Before, Clear
    <3>3. flow'[g].was = flow[g].was /\ flow'[g].case = c  BY <2>1, <2>6, <3>1
    <3>4. Head(screen'.cases[c]).ver = f  BY <1>8, <1>10 DEF First
    <3>5. QED  BY <2>4, <2>6, <3>2, <3>3, <3>4 DEF Crossed
  <2>7. QED  BY <2>3, <2>5, <2>6 DEF Fields
<1>13. QED  BY <1>10, <1>11, <1>12 DEF Tracked

-----------------------------------------------------------------------------
(* The screen and the server when nothing is under way *)

\* What a sync shows that nothing was beside, and what is shown at the start.
InSync ==
    /\ screen.cases = Listed /\ screen.folders = Counted(FolderRows)
    /\ screen.runs = run
    /\ \A q \in Reqs : Real(q) \in screen.reqs <=> q \in reqs
    /\ \A h \in Flows : Op(h) = "none"

\* Then everything is tracked.
LEMMA InSyncTracked == Even /\ InSync => Tracked
<1> SUFFICES ASSUME Even, InSync  PROVE Tracked
  OBVIOUS
<1>1. /\ Fine /\ ServerTyped /\ Settled /\ \A g \in Flows : Unwritten(g)
  BY DEF Even, Fine, Settled
<1>2. \A h \in Flows : /\ Op(h) = "none" /\ Pc(h) \in {"idle", "done"}
                       /\ \A op : ~At(h, op, "answered")
  <2>1. ASSUME NEW h \in Flows
        PROVE  /\ Op(h) = "none" /\ Pc(h) \in {"idle", "done"}
               /\ \A op : ~At(h, op, "answered")
    <3>1. Op(h) = "none" /\ Pc(h) \in {"idle", "done"}
      BY <1>1, Kinds DEF InSync, Fine
    <3>2. QED  BY <3>1 DEF At, Pc
  <2>2. QED  BY <2>1
<1>3. \A c \in Cases :
         screen.cases[c] = IF case[c] = None \/ case[c].archived THEN <<>> ELSE <<CopyOf(c)>>
  BY <1>1, ListedTyped DEF InSync
<1>4. ASSUME NEW c \in Cases, OnScreen(c)
      PROVE  /\ case[c] # None /\ ~case[c].archived
             /\ First(c).ver = case[c].ver /\ First(c).folder = case[c].folder
             /\ First(c).comments = case[c].comments
             /\ \A q \in Reqs : /\ Real(q) \in First(c).reqs <=> <<c, q>> \in links
                                /\ Temp(q) \notin First(c).reqs
  <2>1. case[c] # None /\ ~case[c].archived /\ screen.cases[c] = <<CopyOf(c)>>
    BY <1>3, <1>4 DEF OnScreen
  <2>2. PICK x : x = CopyOf(c)  OBVIOUS
  <2>3. Head(<<x>>) = x  OBVIOUS
  <2>4. First(c) = x  BY <2>1, <2>2, <2>3 DEF First
  <2>5. /\ x.ver = case[c].ver /\ x.folder = case[c].folder
        /\ x.comments = case[c].comments
        /\ x.reqs = {Real(q) : q \in {p \in Reqs : <<c, p>> \in links}}
    BY <1>1, <2>1, <2>2, CopyOfTyped
  <2>6. \A q \in Reqs : /\ Real(q) \in x.reqs <=> <<c, q>> \in links
                        /\ Temp(q) \notin x.reqs
    BY <2>5, IdsDiffer
  <2>7. QED  BY <2>1, <2>4, <2>5, <2>6
<1>5. \A c \in Cases : Len(screen.cases[c]) <= 1
                       /\ (~OnScreen(c) => case[c] = None \/ case[c].archived)
  <2>1. \A x : Len(<<x>>) = 1 /\ <<x>> # <<>>  OBVIOUS
  <2>2. Len(<<>>) = 0  OBVIOUS
  <2>3. \A c \in Cases : Len(screen.cases[c]) \in {0, 1}  BY <1>3, <2>1, <2>2
  <2>4. \A n : n \in {0, 1} => n <= 1  OBVIOUS
  <2>5. \A c \in Cases : Len(screen.cases[c]) <= 1  BY <2>3, <2>4
  <2>6. \A c \in Cases : ~OnScreen(c) => case[c] = None \/ case[c].archived
    BY <1>3, <2>1 DEF OnScreen
  <2>7. QED  BY <2>5, <2>6
<1>6. ASSUME NEW g \in Flows  PROVE Unshown(g) /\ Known(g)
  <2>1. Known(g)  BY <1>2 DEF Known, AboutCase
  <2>2. ASSUME Early(g)
        PROVE  /\ screen.cases[g] = <<>> /\ screen.folders[g] = 0 /\ screen.runs[g] = None
               /\ Real(g) \notin screen.reqs
               /\ \A c \in Cases : OnScreen(c) => Before(First(c), g)
    <3>1. g \in Cases /\ g \in Folders /\ g \in Reqs  BY DEF Cases, Folders, Reqs
    <3>2. Fresh(g)  BY <1>2, <2>2 DEF Early, Fresh
    <3>3. /\ case[g] = None /\ folder[g] = Missing /\ g \notin reqs /\ run[g] = None
          /\ \A c \in Cases : case[c] # None => case[c].ver # g /\ case[c].comments[g] = 0
      BY <1>1, <3>2 DEF Unwritten
    <3>4. screen.cases[g] = <<>> /\ screen.runs[g] = None /\ Real(g) \notin screen.reqs
      BY <1>3, <3>1, <3>3 DEF InSync
    <3>5. screen.folders[g] = 0  BY <3>1, <3>3 DEF InSync, Counted, FolderRows
    <3>6. ASSUME NEW c \in Cases, OnScreen(c)  PROVE Before(First(c), g)
      <4>1. <<c, g>> \notin links
        <5>1. \A k \in links : k[2] \in reqs  BY <1>1 DEF Settled, Rooted
        <5>2. QED  BY <3>3, <5>1
      <4>2. QED  BY <1>4, <3>1, <3>3, <3>6, <4>1 DEF Before, Clear
    <3>7. QED  BY <3>4, <3>5, <3>6
  <2>3. QED  BY <1>2, <2>1, <2>2 DEF Unshown
<1>7. ASSUME NEW c \in Cases
      PROVE  Existence(c) /\ Fields(c) /\ Remarked(c) /\ Linked(c)
  <2>1. Existence(c)  BY <1>2, <1>4, <1>5 DEF Existence
  <2>2. Saves(c) = {}  BY <1>2 DEF Saves
  <2>3. Fields(c)  BY <1>4, <2>2 DEF Fields
  <2>4. Remarked(c)  BY <1>2, <1>4 DEF Remarked
  <2>5. \A q \in Reqs : Links(c, q) = {}  BY <1>2 DEF Links
  <2>6. Linked(c)  BY <1>4, <2>5 DEF Linked
  <2>7. QED  BY <2>1, <2>3, <2>4, <2>6
<1>8. FoldersTold
  BY <1>2 DEF FoldersTold, InSync, Counted, FolderRows
<1>9. ReqsTold /\ RunsTold  BY <1>2 DEF ReqsTold, RunsTold, InSync
<1>10. QED  BY <1>6, <1>7, <1>8, <1>9 DEF Tracked

\* The same, of the next state.
LEMMA InSyncTrackedNext == Even' /\ InSync' => Tracked'
BY InSyncTracked, PTL

\* The screen begins with what the server has.
LEMMA InitTracked ==
    ASSUME Init
    PROVE  Even /\ Tracked
<1>1. Even
  <2>1. overlapped \subseteq Flows  BY DEF Init
  <2>2. QED  BY <2>1, InitSettled DEF Even
<1>2. PICK g \in SeedFolders :
         screen = [cases |-> Listed, folders |-> Counted(SeedFolders),
                   reqs |-> {Real(q) : q \in SeedReqs},
                   runs |-> [r \in Flows |-> None],
                   selected |-> g, open |-> None, pending |-> None, draft |-> None]
  BY Zenon DEF Init
<1>3. /\ screen.cases = Listed /\ screen.folders = Counted(SeedFolders)
      /\ screen.runs = [r \in Flows |-> None]
      /\ screen.reqs = {Real(q) : q \in SeedReqs}
  BY <1>2
<1>4. run = [r \in Flows |-> None] /\ reqs = SeedReqs  BY DEF Init
<1>5. FolderRows = SeedFolders
  <2>1. folder = [h \in Folders |-> IF h \in SeedFolders THEN None ELSE Missing]
    BY DEF Init
  <2>2. \A h \in Folders : folder[h] # Missing <=> h \in SeedFolders
    BY <2>1, CaseScreenAssumption
  <2>3. SeedFolders \subseteq Folders  BY DEF Folders
  <2>4. QED  BY <2>2, <2>3 DEF FolderRows
<1>6. \A h \in Flows : Op(h) = "none"  BY DEF Init, Idle, Op
<1>7. \A q \in Reqs : Real(q) \in screen.reqs <=> q \in reqs
  BY <1>3, <1>4, IdsDiffer
<1>8. InSync  BY <1>3, <1>4, <1>5, <1>6, <1>7 DEF InSync
<1>9. QED  BY <1>1, <1>8, InSyncTracked

\* A sync that was alone shows all.
LEMMA ConfirmSyncTracked ==
    ASSUME Even, NEW f \in Flows, ConfirmSync(f), ~misled', Even'
    PROVE  Tracked'
<1>1. /\ UNCHANGED Server /\ OthersAlike(f) /\ flow'[f] = Past /\ Op(f) = "sync"
      /\ flow[f].cases # None /\ flow[f].folders # None /\ flow[f].reqs # None
      /\ flow[f].runs # None
      /\ screen'.cases = flow[f].cases /\ screen'.folders = Counted(flow[f].folders)
      /\ screen'.runs = flow[f].runs
      /\ screen'.reqs = {Real(q) : q \in flow[f].reqs} \cup Pending(screen)
      /\ f \notin overlapped
  BY ConfirmSyncFine DEF Even
<1>2. /\ \A h \in Flows \ {f} : ~Open(h)
      /\ flow[f].cases = Listed /\ flow[f].folders = FolderRows
      /\ flow[f].reqs = reqs /\ flow[f].runs = run
  BY <1>1 DEF Even, Alone
<1>3. Listed' = Listed /\ FolderRows' = FolderRows /\ run' = run /\ reqs' = reqs
  BY <1>1 DEF Server, Listed, CopyOf, FolderRows
<1>4. ASSUME NEW h \in Flows  PROVE Op(h)' = "none"
  <2>1. CASE h = f  BY <1>1, <2>1 DEF Op, Past
  <2>2. CASE h # f
    <3>1. Pc(h) \in {"idle", "done"}  BY <1>2, <2>2 DEF Open, Pc
    <3>2. flow[h] = Idle \/ flow[h] = Past  BY <3>1, Kinds DEF Even, Fine
    <3>3. Op(h) = "none"  BY <3>2 DEF Idle, Past, Op
    <3>4. QED  BY <1>1, <2>2, <3>3, Kept DEF Op
  <2>3. QED  BY <2>1, <2>2
<1>5. ASSUME NEW q \in Reqs  PROVE Real(q) \in screen'.reqs <=> q \in reqs
  <2>1. Real(q) \notin Pending(screen)  BY Ids DEF Pending
  <2>2. QED  BY <1>1, <1>2, <2>1, IdsDiffer
<1>6. screen'.cases = Listed' /\ screen'.folders = Counted(FolderRows')
      /\ screen'.runs = run'
  BY <1>1, <1>2, <1>3
<1>7. InSync'  BY <1>3, <1>4, <1>5, <1>6 DEF InSync, Counted
<1>8. QED  BY <1>7, InSyncTrackedNext

\* Once the screen was not told of a change, only a sync makes up for it.
LEMMA MisledStays ==
    ASSUME Even, NEW f \in Flows, FlowStep(f), ~ConfirmSync(f), ~misled'
    PROVE  ~misled
<1>1. Fine /\ AllPlaced  BY DEF Even, Settled
<1>2. CASE Quiet(f)
  BY <1>2 DEF Quiet, QuickCreate, CreateCase, Duplicate, AddFolder, SaveEdit,
     DeleteCase, AddComment, CreateRun, Sync
<1>3. CASE CreateRequirement(f) \/ LinkRequirement(f)
  BY <1>3 DEF CreateRequirement, LinkRequirement
<1>4. CASE Serves(f)
  BY <1>4 DEF Serves, InsertCase, InsertFolder, PatchCase, ArchiveCase, InsertComment,
     InsertRequirement, InsertLink, InsertRun
<1>5. CASE Reads(f) \/ Fail(f) \/ Other(f)
  BY <1>1, <1>5, ReadsFine, FailFine, OtherFine
<1>6. CASE Answers(f)
  BY <1>1, <1>6, ConfirmCreateFine, ConfirmFolderFine, ConfirmSaveFine, ConfirmDeleteFine,
     ConfirmCommentFine, ConfirmRunFine DEF Answers
<1>7. CASE Reconcile(f) \/ Awaited(f) \/ ConfirmLink(f)
  BY <1>1, <1>7, ReconcileFine, AwaitedFine, ConfirmLinkFine
<1>8. QED  BY <1>2, <1>3, <1>4, <1>5, <1>6, <1>7 DEF FlowStep

\* What is shown is tracked after each step of a flow, unless that misleads it.
LEMMA FlowTracked ==
    ASSUME Even, Even', misled \/ Tracked, NEW f \in Flows, FlowStep(f)
    PROVE  misled' \/ Tracked'
<1> SUFFICES ASSUME ~misled'  PROVE Tracked'
  OBVIOUS
<1>1. CASE ConfirmSync(f)  BY <1>1, ConfirmSyncTracked
<1>2. CASE ~ConfirmSync(f)
  <2>1. Tracked  BY <1>2, MisledStays
  <2>2. ~Other(f)  BY OtherFine DEF Even
  <2>3. QED
    BY <1>2, <2>1, <2>2, CalmTracked, LinksTracked, ServesTracked, ReconcileTracked,
       AwaitedTracked, ConfirmCreateTracked, ConfirmFolderTracked, ConfirmSaveTracked,
       ConfirmDeleteTracked, ConfirmCommentTracked, ConfirmRunTracked
    DEF FlowStep, Answers
<1>3. QED  BY <1>1, <1>2

\* The invariant of ScreenAgrees is inductive.
LEMMA NextTracked ==
    ASSUME Even, misled \/ Tracked, [Next]_vars
    PROVE  Even' /\ (misled' \/ Tracked')
<1>1. Even'  BY NextSettled
<1>2. CASE Next
  <2>1. CASE Browse
    <3>1. SameContent(screen', screen) /\ UNCHANGED <<Server, flow, misled>>
      BY <2>1, BrowseFine DEF Even
    <3>2. QED  BY <1>1, <3>1, StillTracked
  <2>2. ASSUME NEW f \in Flows, FlowStep(f)  PROVE misled' \/ Tracked'
    BY <1>1, <2>2, FlowTracked
  <2>3. QED  BY <1>1, <1>2, <2>1, <2>2, Steps
<1>3. CASE UNCHANGED vars
  <2>1. SameContent(screen', screen) /\ UNCHANGED <<Server, flow, misled>>
    BY <1>3 DEF vars, SameContent, Server
  <2>2. QED  BY <1>1, <2>1, StillTracked
<1>4. QED  BY <1>2, <1>3

\* It holds throughout.
LEMMA TrackedAlways == Spec => [](Even /\ (misled \/ Tracked))
<1>1. Init => Even /\ (misled \/ Tracked)  BY InitTracked
<1>2. Even /\ (misled \/ Tracked) /\ [Next]_vars => (Even /\ (misled \/ Tracked))'
  BY NextTracked
<1>3. QED  BY <1>1, <1>2, PTL DEF Spec

\* A sequence of one element.
LEMMA OneElement ==
    ASSUME NEW S, NEW s \in Seq(S), s # <<>>, Len(s) <= 1
    PROVE  s = <<Head(s)>>
<1>1. Len(s) \in Nat \ {0} /\ Head(s) = s[1] /\ s[1] \in S  BY HeadIn
<1>2. Len(s) = 1
  <2>1. PICK n : n = Len(s)  OBVIOUS
  <2>2. n \in Nat \ {0} /\ n <= 1  BY <1>1, <2>1
  <2>3. n = 1  BY <2>2
  <2>4. QED  BY <2>1, <2>3
<1>3. s = [i \in 1..1 |-> s[1]]
  <2>1. s = [i \in 1..Len(s) |-> s[i]]  OBVIOUS
  <2>2. QED  BY <1>2, <2>1
<1>4. QED  BY <1>1, <1>2, <1>3

\* Nothing is under way: what is tracked is there.
LEMMA TrackedAgrees ==
    ASSUME Even, Tracked, \A f \in Flows : ~Open(f)
    PROVE  /\ \A c \in Cases : screen.cases[c] \in AsShown(c)
           /\ screen.folders = Counted(FolderRows)
           /\ {q \in Reqs : Real(q) \in screen.reqs} = reqs
           /\ screen.runs = run
<1>1. /\ Fine /\ ServerTyped /\ Settled /\ screen \in Screen
  BY DEF Even, Fine, Good
<1>2. \A h \in Flows : /\ Pc(h) \in {"idle", "done"}
                       /\ \A op : ~At(h, op, "answered")
  BY DEF Open, Pc, At
<1>3. ASSUME NEW c \in Cases  PROVE screen.cases[c] \in AsShown(c)
  <2>1. Existence(c) /\ Fields(c) /\ Remarked(c) /\ Linked(c)  BY DEF Tracked
  <2>2. CASE ~OnScreen(c)
    <3>1. case[c] = None \/ case[c].archived  BY <1>2, <2>1, <2>2 DEF Existence
    <3>2. QED  BY <2>2, <3>1 DEF AsShown, OnScreen
  <2>3. CASE OnScreen(c)
    <3>1. case[c] # None  BY <1>1, <2>3 DEF Settled, Rooted, OnScreen
    <3>2. ~case[c].archived
      <4>1. ~\E g \in Flows : At(g, "delete", "answered") /\ flow[g].case = c
        BY <1>2
      <4>2. case[c].archived \in BOOLEAN
        BY <1>1, <3>1 DEF ServerTyped, CaseRow
      <4>3. QED  BY <2>1, <2>3, <4>1, <4>2 DEF Existence
    <3>3. AsShown(c) = {<<[CopyOf(c) EXCEPT !.local = local]>> : local \in BOOLEAN}
      BY <3>1, <3>2 DEF AsShown
    <3>4. PICK x : x = CopyOf(c)  OBVIOUS
    <3>5. /\ x \in Copy /\ x.ver = case[c].ver /\ x.folder = case[c].folder
          /\ x.comments = case[c].comments
          /\ x.reqs = {Real(q) : q \in {p \in Reqs : <<c, p>> \in links}}
      BY <1>1, <3>1, <3>4, CopyOfTyped
    <3>6. PICK y : y = First(c)  OBVIOUS
    <3>7. y \in Copy  BY <1>1, <2>3, <3>6, HeadTyped DEF OnScreen, First
    <3>8. y.ver = x.ver /\ y.folder = x.folder
      <4>1. Saves(c) = {}  BY <1>2 DEF Saves
      <4>2. QED  BY <2>1, <2>3, <3>5, <3>6, <4>1 DEF Fields
    <3>9. y.comments = x.comments
      <4>1. y.comments \in [Flows -> Nat] /\ x.comments \in [Flows -> Nat]
        BY <3>5, <3>7 DEF Copy, Comments
      <4>2. \A g \in Flows : x.comments[g] = y.comments[g]
        BY <1>2, <2>1, <2>3, <3>5, <3>6 DEF Remarked
      <4>3. QED  BY <4>1, <4>2
    <3>10. y.reqs = x.reqs
      <4>1. y.reqs \subseteq Id  BY <3>7 DEF Copy
      <4>2. \A q \in Reqs : \A g \in Links(c, q) : Pc(g) \in {"idle", "done"}
        BY <1>2 DEF Links
      <4>3. \A q \in Reqs : /\ Real(q) \in y.reqs <=> <<c, q>> \in links
                            /\ Temp(q) \notin y.reqs
        BY <2>1, <2>3, <3>6, <4>2 DEF Linked
      <4>4. \A z \in y.reqs : z \in x.reqs
        <5>1. ASSUME NEW z \in y.reqs  PROVE z \in x.reqs
          <6>1. z[1] \in Reqs /\ (z = Real(z[1]) \/ z = Temp(z[1]))
            BY <4>1, Ids
          <6>2. PICK q : q = z[1]  OBVIOUS
          <6>3. q \in Reqs /\ z = Real(q)  BY <4>3, <6>1, <6>2
          <6>4. <<c, q>> \in links  BY <4>3, <6>3
          <6>5. QED  BY <3>5, <6>3, <6>4
        <5>2. QED  BY <5>1
      <4>5. \A z \in x.reqs : z \in y.reqs  BY <3>5, <4>3
      <4>6. QED  BY <4>4, <4>5
    <3>11. y.local \in BOOLEAN /\ y = [x EXCEPT !.local = y.local]
      BY <3>5, <3>7, <3>8, <3>9, <3>10 DEF Copy
    <3>12. screen.cases[c] = <<y>>
      <4>1. PICK s : s = screen.cases[c]  OBVIOUS
      <4>2. s \in Seq(Copy) /\ s # <<>> /\ Len(s) <= 1 /\ Head(s) = y
        BY <1>1, <2>1, <2>3, <3>6, <4>1 DEF Screen, OnScreen, First, Existence
      <4>3. s = <<Head(s)>>  BY <4>2, OneElement
      <4>4. QED  BY <4>1, <4>2, <4>3
    <3>13. QED  BY <3>3, <3>4, <3>11, <3>12
  <2>4. QED  BY <2>2, <2>3
<1>4. screen.folders = Counted(FolderRows)
  <2>1. screen.folders \in [Folders -> Nat]  BY <1>1 DEF Screen
  <2>2. \A g \in Folders : screen.folders[g] = IF folder[g] = Missing THEN 0 ELSE 1
    BY <1>2 DEF Tracked, FoldersTold
  <2>3. \A g \in Folders : screen.folders[g] = IF g \in FolderRows THEN 1 ELSE 0
    BY <2>2 DEF FolderRows
  <2>4. QED  BY <2>1, <2>3 DEF Counted
<1>5. {q \in Reqs : Real(q) \in screen.reqs} = reqs
  <2>1. \A q \in Reqs : Real(q) \in screen.reqs <=> q \in reqs
    BY <1>2 DEF Tracked, ReqsTold
  <2>2. reqs \subseteq Reqs  BY <1>1 DEF ServerTyped
  <2>3. QED  BY <2>1, <2>2
<1>6. screen.runs = run
  <2>1. screen.runs \in [Flows -> {None} \cup SUBSET Cases]  BY <1>1 DEF Screen
  <2>2. run \in [Flows -> {None} \cup SUBSET Cases]  BY <1>1 DEF ServerTyped
  <2>3. \A r \in Flows : screen.runs[r] = run[r]  BY <1>2 DEF Tracked, RunsTold
  <2>4. QED  BY <2>1, <2>2, <2>3
<1>7. QED  BY <1>3, <1>4, <1>5, <1>6

\* When no call of FreshProvider is under way, the screen has what the server
\* has, for any rows and any number of flows that overlap in any order, unless
\* a change of another client, a lost answer, or an answer or a sync that came
\* late misled it.  What a save could not send of a draft
\* (localCasePatchToUpdateBody) is not compared; nothing else can differ.
THEOREM ScreenAgreesWhenQuiet == Spec => []ScreenAgrees
<1>1. Even /\ (misled \/ Tracked) => ScreenAgrees
  BY TrackedAgrees DEF ScreenAgrees
<1>2. QED  BY <1>1, TrackedAlways, PTL
=============================================================================
