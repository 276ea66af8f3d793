----------------------------- MODULE CaseScreen -----------------------------
(***************************************************************************)
(* The Cases screen and the list of requirements: the folders, cases and   *)
(* requirements a browser holds, the case that is open and edited there,   *)
(* and the commands it sends (CasesScreen, CreateCaseModal,                *)
(* RequirementsScreen, the case, folder, comment and requirement functions *)
(* of FreshProvider, case-client and requirement-client).                  *)
(*                                                                         *)
(* Cases, folders and comments are shown when the server has answered; a   *)
(* requirement and its link are shown at once, with an id made up by the   *)
(* browser until the row has one.  A sync replaces all of it.              *)
(*                                                                         *)
(* One project and one browser; other clients change the rows too.  What a *)
(* command does on the server, and who may do it, is in CaseLibrary: here  *)
(* it is one step.  A comment of a case is a general one: those of a step  *)
(* follow the steps of the case.                                           *)
(***************************************************************************)
EXTENDS Naturals, FiniteSets, Sequences

CONSTANTS
    SeedCases, SeedFolders, SeedReqs,   \* rows at the start
    Filed,         \* the folder of each of these cases
    Flows,         \* one command each, with all the calls it makes
    Others,        \* those of other clients
    None,          \* SQL NULL, an absent row, nothing open
    Missing        \* the folder "f-import", which no project has

Cases == SeedCases \cup Flows
Folders == SeedFolders \cup Flows
Reqs == SeedReqs \cup Flows

ASSUME CaseScreenAssumption ==
    /\ Filed \in [SeedCases -> SeedFolders]
    /\ Others \subseteq Flows
    /\ SeedCases \cap Flows = {} /\ SeedFolders \cap Flows = {}
    /\ SeedReqs \cap Flows = {}
    /\ None \notin Cases \cup Folders \cup Reqs
    /\ Missing \notin Folders \cup {None}

VARIABLES
    case,          \* test_cases, with case_comments
    folder,        \* folders: their parent
    reqs,          \* requirements
    links,         \* case_requirements
    run,           \* test_runs: the cases of those created here
    screen,        \* what the browser holds
    flow,          \* what each flow is about to do, and knows
    overlapped,    \* history: syncs under way that others ran beside
    misled         \* history: the screen was not told of some change

vars == <<case, folder, reqs, links, run, screen, flow, overlapped, misled>>

Server == <<case, folder, reqs, links, run>>

-----------------------------------------------------------------------------
(* Rows, screens and flows *)

\* The id of a requirement, or the one made up until it is known.
Id == Reqs \X {"real", "temp"}
Real(q) == <<q, "real">>
Temp(q) == <<q, "temp">>

Version == Flows \cup {None}                \* the flow that wrote the fields
Comments == [Flows -> Nat]                  \* how often each is listed

CaseRow == [ver: Version, folder: Folders \cup {None}, archived: BOOLEAN,
            comments: Comments]

\* What is typed and has no place in a call stays in the copy alone: a step with
\* no action, an empty title, a type or an assignee that the server does not
\* know, blanks, and the made-up ids of new steps.
Copy == [ver: Version, folder: Folders \cup {None}, comments: Comments,
         reqs: SUBSET Id, local: BOOLEAN]

Screen == [cases: [Cases -> Seq(Copy)],     \* a case may be listed twice
           folders: [Folders -> Nat],       \* and a folder
           reqs: SUBSET Id,                 \* requirementsById
           runs: [Flows -> {None} \cup SUBSET Cases],
           selected: Folders \cup {None, Missing},   \* None: "__unfiled__"
           open: Cases \cup {None},         \* detailCaseId
           pending: Cases \cup {None},      \* pendingEditRef
           draft: {None} \cup Copy]         \* None: not editing

Idle == [op |-> "none", pc |-> "idle"]
Past == [op |-> "none", pc |-> "done"]

Commands == [op: {"create", "folder", "save", "delete", "comment", "require",
                  "link", "run"},
             pc: {"post", "wait", "link", "answered", "linked"},
             case: Cases \cup {None}, folder: Folders \cup {None},
             req: Reqs \cup {None}, was: Seq(Copy), new: {None} \cup Copy,
             cases: SUBSET Cases, opens: BOOLEAN]

Syncs == [op: {"sync"}, pc: {"read"},
          cases: {None} \cup [Cases -> Seq(Copy)],
          folders: {None} \cup SUBSET Folders,
          reqs: {None} \cup SUBSET Reqs,
          runs: {None} \cup [Flows -> {None} \cup SUBSET Cases]]

ASSUME NoneAssumption ==
    /\ None \notin CaseRow /\ None \notin Copy
    /\ None \notin [Cases -> Seq(Copy)]
    /\ None \notin [Flows -> {None} \cup SUBSET Cases]
    /\ \A S \in SUBSET Cases \cup SUBSET Folders \cup SUBSET Reqs : None # S

TypeOK ==
    /\ case \in [Cases -> {None} \cup CaseRow]
    /\ folder \in [Folders -> Folders \cup {None, Missing}]   \* Missing: no row
    /\ reqs \subseteq Reqs
    /\ links \subseteq Cases \X Reqs
    /\ run \in [Flows -> {None} \cup SUBSET Cases]
    /\ screen \in Screen
    /\ flow \in [Flows -> {Idle, Past} \cup Commands \cup Syncs]
    /\ overlapped \subseteq Flows
    /\ misled \in BOOLEAN

NoComment == [f \in Flows |-> 0]

SeedRow(c) == [ver |-> None, folder |-> Filed[c], archived |-> FALSE,
               comments |-> NoComment]

\* realCaseToLocal, and mergeLocalOnlyCaseFields.
CopyOf(c) == [ver |-> case[c].ver, folder |-> case[c].folder,
              comments |-> case[c].comments,
              reqs |-> {Real(q) : q \in {p \in Reqs : <<c, p>> \in links}},
              local |-> FALSE]

\* The answer of the list: archived cases are not in it.
Listed == [c \in Cases |-> IF case[c] = None \/ case[c].archived THEN <<>>
                           ELSE <<CopyOf(c)>>]

FolderRows == {g \in Folders : folder[g] # Missing}

Counted(rows) == [g \in Folders |-> IF g \in rows THEN 1 ELSE 0]

Init ==
    /\ case = [c \in Cases |-> IF c \in SeedCases THEN SeedRow(c) ELSE None]
    /\ folder = [g \in Folders |-> IF g \in SeedFolders THEN None ELSE Missing]
    /\ reqs = SeedReqs
    /\ links = {}
    /\ run = [r \in Flows |-> None]
    /\ \E g \in SeedFolders :
          screen = [cases |-> Listed, folders |-> Counted(SeedFolders),
                    reqs |-> {Real(q) : q \in SeedReqs},
                    runs |-> [r \in Flows |-> None],
                    selected |-> g, open |-> None, pending |-> None, draft |-> None]
    /\ flow = [f \in Flows |-> Idle]
    /\ overlapped = {}
    /\ misled = FALSE

-----------------------------------------------------------------------------
(* The screen *)

ListedCases(s) == {c \in Cases : s.cases[c] # <<>>}
ListedFolders(s) == {g \in Folders : s.folders[g] > 0}

\* detail: the first copy of the open case, if there is one.
Detail(s) == s.open # None /\ s.cases[s.open] # <<>>
Shown(s) == Head(s.cases[s.open])

\* folderDescendantIds.
Below(s, g) ==
    LET level[n \in 0..Cardinality(Folders)] ==
            IF n = 0 THEN {g}
            ELSE level[n - 1] \cup {d \in ListedFolders(s) : folder[d] \in level[n - 1]}
    IN level[Cardinality(Folders)]

\* casesInFolder.
FolderCases(s) ==
    {c \in ListedCases(s) :
        \E i \in DOMAIN s.cases[c] :
            IF s.selected = None THEN s.cases[c][i].folder = None
            ELSE s.cases[c][i].folder \in Below(s, s.selected)}

\* The effect of CaseDetail on the case it is given: it drops the draft.
Reset(s) == [s EXCEPT !.draft = None]

\* A reducer made new objects of the copies of these cases.
Touched(s, cases) == IF s.open \in cases THEN Reset(s) ELSE s

\* setDetailCaseId; an effect clears pendingEditRef when it has changed.
Opened(s, c) ==
    IF c = s.open THEN s ELSE Reset([s EXCEPT !.open = c, !.pending = None])

\* A click on a row of the list, the arrows, or the cross of the panel.
OpenCase ==
    /\ \E c \in (ListedCases(screen) \cup {None}) \ {screen.open} :
          screen' = Opened(screen, c)
    /\ UNCHANGED <<Server, flow, misled>>

\* selectFolder.
Selected(s, g) == [Opened(s, None) EXCEPT !.selected = g]

\* A click on a folder or on "Unfiled", "Open folder" of the menu, and the
\* button "Import".
SelectFolder ==
    /\ \E g \in (ListedFolders(screen) \cup {None, Missing}) \ {screen.selected} :
          screen' = Selected(screen, g)
    /\ UNCHANGED <<Server, flow, misled>>

\* startEdit.
StartEdit ==
    /\ Detail(screen) /\ screen.draft = None
    /\ screen' = [screen EXCEPT !.draft = Shown(screen)]
    /\ UNCHANGED <<Server, flow, misled>>

CancelEdit ==
    /\ screen.draft # None
    /\ screen' = Reset(screen)
    /\ UNCHANGED <<Server, flow, misled>>

\* "Edit" of the menu.  The panel starts to edit when startEditOnMount becomes
\* true, or when it appears with it.
EditFromMenu(s, c) ==
    LET to == [Opened(s, c) EXCEPT !.pending = IF c = s.open THEN c ELSE None]
    IN IF Detail(s) /\ s.pending = s.open THEN to
       ELSE [to EXCEPT !.draft = Shown(to)]

MenuEdit ==
    /\ \E c \in ListedCases(screen) : screen' = EditFromMenu(screen, c)
    /\ UNCHANGED <<Server, flow, misled>>

-----------------------------------------------------------------------------
(* Commands *)

Begin(f, new) == flow' = [flow EXCEPT ![f] = new]

Command(op, pc) == [op |-> op, pc |-> pc, case |-> None, folder |-> None,
                    req |-> None, was |-> <<>>, new |-> None, cases |-> {},
                    opens |-> FALSE]

Ready(f) == flow[f] = Idle /\ f \notin Others

\* Mutant: the selected folder is sent whatever it is.
TargetAny(g) == g

\* isRealId: a folder that is no row's is not sent.
Target(g) == IF g = Missing THEN None ELSE g

NewCase(f, g) ==
    [Command("create", "post") EXCEPT
        !.new = [ver |-> f, folder |-> g, comments |-> NoComment, reqs |-> {},
                 local |-> FALSE]]

\* addQuickCase, in the selected folder.
QuickCreate(f) ==
    /\ Ready(f)
    /\ Begin(f, NewCase(f, Target(screen.selected)))
    /\ UNCHANGED <<Server, screen, misled>>

\* CreateCaseModal, in any folder.
CreateCase(f) ==
    /\ Ready(f)
    /\ \E g \in ListedFolders(screen) \cup {None} : Begin(f, NewCase(f, g))
    /\ UNCHANGED <<Server, screen, misled>>

\* "Duplicate" of the menu: the copy is opened when it is there.  What the body
\* of the call leaves out is not in the answer that is shown.
Duplicate(f) ==
    /\ Ready(f)
    /\ \E c \in ListedCases(screen) :
          Begin(f, [Command("create", "post") EXCEPT
                       !.new = [Head(screen.cases[c]) EXCEPT !.reqs = {},
                                                             !.local = FALSE],
                       !.opens = TRUE])
    /\ UNCHANGED <<Server, screen, misled>>

\* startCreateFolder, commitNewFolder: selected when it is there.
AddFolder(f) ==
    /\ Ready(f)
    /\ Begin(f, [Command("folder", "post") EXCEPT
                    !.folder = Target(screen.selected), !.opens = TRUE])
    /\ UNCHANGED <<Server, screen, misled>>

\* The form: what is typed is known by the flow that saves it, and has parts
\* that cannot be sent or has none.
Typed(draft, f, g, local) == [draft EXCEPT !.ver = f, !.folder = g, !.local = local]

\* saveEdit: the draft is sent, and closed.
SaveEdit(f) ==
    /\ Ready(f) /\ screen.draft # None
    /\ \E g \in ListedFolders(screen) \cup {None}, local \in BOOLEAN :
          Begin(f, [Command("save", "post") EXCEPT
                       !.case = screen.open, !.was = screen.cases[screen.open],
                       !.new = Typed(screen.draft, f, g, local)])
    /\ screen' = Reset(screen)
    /\ UNCHANGED <<Server, misled>>

\* "Delete" of the menu, confirmed.
DeleteCase(f) ==
    /\ Ready(f)
    /\ \E c \in ListedCases(screen) :
          /\ Begin(f, [Command("delete", "post") EXCEPT !.case = c])
          /\ screen' = IF screen.open = c THEN Opened(screen, None) ELSE screen
    /\ UNCHANGED <<Server, misled>>

\* The screen is left: a folder or a copy that arrives later opens nothing.
Left(new, f) ==
    flow' = [g \in Flows |->
                IF g = f THEN new
                ELSE IF flow[g].op \in {"create", "folder"}
                     THEN [flow[g] EXCEPT !.opens = FALSE] ELSE flow[g]]

\* addGeneralComment, sent from the Runs screen; the Cases screen that is
\* shown after it is a new one.
AddComment(f) ==
    /\ Ready(f)
    /\ \E c \in ListedCases(screen), g \in ListedFolders(screen) :
          /\ Left([Command("comment", "post") EXCEPT !.case = c], f)
          /\ screen' = Selected(screen, g)
    /\ UNCHANGED <<Server, misled>>

LinkedTo(copy, q) == [copy EXCEPT !.reqs = @ \cup {q}]

\* LINK_REQUIREMENT_TO_CASE.
WithLink(s, c, q) ==
    Touched([s EXCEPT !.cases[c] = [i \in DOMAIN @ |-> LinkedTo(@[i], q)]], {c})

\* createRequirement: shown with a made-up id.
WithRequirement(s, f) == [s EXCEPT !.reqs = @ \cup {Temp(f)}]

\* "Create & link": both shown at once.
CreateRequirement(f) ==
    /\ Ready(f) /\ Detail(screen)
    /\ Begin(f, [Command("require", "post") EXCEPT !.case = screen.open, !.req = f])
    /\ screen' = WithLink(WithRequirement(screen, f), screen.open, Temp(f))
    /\ UNCHANGED <<Server, misled>>

Linkable(s) == s.reqs \ Shown(s).reqs

\* linkRequirementToCase: sent when the id is a row's.
LinkCall(c, q) ==
    [Command("link", IF q[2] = "real" THEN "link" ELSE "wait") EXCEPT
        !.case = c, !.req = q[1]]

\* "Link existing", shown at once.
LinkRequirement(f) ==
    /\ Ready(f) /\ Detail(screen)
    /\ \E q \in Linkable(screen) :
          /\ screen' = WithLink(screen, screen.open, q)
          /\ Begin(f, LinkCall(screen.open, q))
    /\ UNCHANGED <<Server, misled>>

\* createRun: an empty list stands for every case, also that of a folder.
Chosen(cases) == IF cases = {} THEN ListedCases(screen) ELSE cases

\* doCreateRun, for the folder or for all cases.
CreateRun(f) ==
    /\ Ready(f) /\ ListedCases(screen) # {}
    /\ \E scope \in {FolderCases(screen), {}} :
          Begin(f, [Command("run", "post") EXCEPT !.cases = Chosen(scope)])
    /\ UNCHANGED <<Server, screen, misled>>

-----------------------------------------------------------------------------
(* The server *)

Answered(f, op) == flow[f].op = op /\ flow[f].pc = "answered"
Posted(f, op) == flow[f].op = op /\ flow[f].pc = "post"
Goto(f, pc) == flow' = [flow EXCEPT ![f].pc = pc]
End(f) == flow' = [flow EXCEPT ![f] = Past]

Inserted(c, new) ==
    case' = [case EXCEPT ![c] = [ver |-> new.ver, folder |-> new.folder,
                                 archived |-> FALSE, comments |-> NoComment]]

InsertCase(f) ==
    /\ Posted(f, "create")
    /\ Inserted(f, flow[f].new)
    /\ Goto(f, "answered")
    /\ UNCHANGED <<folder, reqs, links, run, screen, misled>>

InsertFolder(f) ==
    /\ Posted(f, "folder")
    /\ folder' = [folder EXCEPT ![f] = flow[f].folder]
    /\ Goto(f, "answered")
    /\ UNCHANGED <<case, reqs, links, run, screen, misled>>

\* localCasePatchToUpdateBody: what of the draft can be sent; its comments and
\* links are not columns, and what is local is left out or replaced.
PatchCase(f) ==
    /\ Posted(f, "save")
    /\ case' = [case EXCEPT ![flow[f].case].ver = flow[f].new.ver,
                            ![flow[f].case].folder = flow[f].new.folder]
    /\ Goto(f, "answered")
    /\ UNCHANGED <<folder, reqs, links, run, screen, misled>>

ArchiveCase(f) ==
    /\ Posted(f, "delete")
    /\ case' = [case EXCEPT ![flow[f].case].archived = TRUE]
    /\ Goto(f, "answered")
    /\ UNCHANGED <<folder, reqs, links, run, screen, misled>>

InsertComment(f) ==
    /\ Posted(f, "comment")
    /\ case' = [case EXCEPT ![flow[f].case].comments[f] = 1]
    /\ Goto(f, "answered")
    /\ UNCHANGED <<folder, reqs, links, run, screen, misled>>

InsertRequirement(f) ==
    /\ Posted(f, "require")
    /\ reqs' = reqs \cup {f}
    /\ Goto(f, "answered")
    /\ UNCHANGED <<case, folder, links, run, screen, misled>>

\* Linking a pair that is linked is no error.
InsertLink(f) ==
    /\ flow[f].pc = "link"
    /\ links' = links \cup {<<flow[f].case, flow[f].req>>}
    /\ Goto(f, "linked")
    /\ UNCHANGED <<case, folder, reqs, run, screen, misled>>

InsertRun(f) ==
    /\ Posted(f, "run")
    /\ run' = [run EXCEPT ![f] = flow[f].cases]
    /\ Goto(f, "answered")
    /\ UNCHANGED <<case, folder, reqs, links, screen, misled>>

\* The call is refused, or lost, or its answer is: the user is told, and what
\* was shown stays.
Fail(f) ==
    /\ flow[f].pc \in {"post", "link", "answered", "linked", "read"}
    /\ End(f)
    /\ misled' = (misled \/ flow[f].pc \in {"answered", "linked", "link"}
                         \/ flow[f].op = "require")
    /\ UNCHANGED <<Server, screen>>

-----------------------------------------------------------------------------
(* What the screen does with an answer *)

Done(f) ==
    /\ End(f)
    /\ UNCHANGED Server

\* ADD_CASE, with the comments that the copy brought along.
ConfirmCreate(f) ==
    LET shown == [screen EXCEPT !.cases[f] = Append(@, flow[f].new)]
    IN /\ Answered(f, "create")
       /\ screen' = IF flow[f].opens THEN Opened(shown, f) ELSE shown
       /\ misled' = (misled \/ flow[f].new.comments # NoComment)
       /\ Done(f)

\* ADD_FOLDER.
ConfirmFolder(f) ==
    LET shown == [screen EXCEPT !.folders[f] = @ + 1]
    IN /\ Answered(f, "folder")
       /\ screen' = IF flow[f].opens THEN Selected(shown, f) ELSE shown
       /\ Done(f) /\ UNCHANGED misled

\* REPLACE_CASE: not the answer but the draft replaces every copy, with what is
\* local, and with the comments and links of the time it was begun.
ConfirmSave(f) ==
    LET c == flow[f].case
    IN /\ Answered(f, "save")
       /\ screen' = Touched([screen EXCEPT !.cases[c] = [i \in DOMAIN @ |-> flow[f].new]],
                            {c})
       /\ misled' = (misled \/ screen.cases[c] # flow[f].was)
       /\ Done(f)

\* DELETE_CASE: also from the runs, where the server keeps it.
ConfirmDelete(f) ==
    LET c == flow[f].case
        without(r) == IF screen.runs[r] = None THEN None ELSE screen.runs[r] \ {c}
    IN /\ Answered(f, "delete")
       /\ screen' = Touched([screen EXCEPT !.cases[c] = <<>>,
                                           !.runs = [r \in Flows |-> without(r)]], {c})
       /\ misled' = (misled \/ \E r \in Flows : screen.runs[r] # None
                                               /\ c \in screen.runs[r])
       /\ Done(f)

Commented(copy, f) == [copy EXCEPT !.comments[f] = @ + 1]

\* ADD_GENERAL_COMMENT.
ConfirmComment(f) ==
    LET c == flow[f].case
    IN /\ Answered(f, "comment")
       /\ screen' = Touched([screen EXCEPT !.cases[c] =
                                  [i \in DOMAIN @ |-> Commented(@[i], f)]], {c})
       /\ Done(f) /\ UNCHANGED misled

Named(ids, f) == IF Temp(f) \in ids THEN (ids \ {Temp(f)}) \cup {Real(f)} ELSE ids

\* Mutant: only the list of requirements learns the id.
ReconciledList(s, f) == [s EXCEPT !.reqs = (@ \ {Temp(f)}) \cup {Real(f)}]

\* RECONCILE_REQUIREMENT.
Reconciled(s, f) ==
    Touched([s EXCEPT !.reqs = (@ \ {Temp(f)}) \cup {Real(f)},
                      !.cases = [c \in Cases |->
                          [i \in DOMAIN s.cases[c] |->
                             [s.cases[c][i] EXCEPT !.reqs = Named(@, f)]]]],
            {c \in Cases : \E i \in DOMAIN s.cases[c] : Temp(f) \in s.cases[c][i].reqs})

\* The link that waited for it is sent.
Reconcile(f) ==
    /\ Answered(f, "require")
    /\ screen' = Reconciled(screen, f)
    /\ Goto(f, "link")
    /\ UNCHANGED <<Server, misled>>

\* A link to a requirement that another click created; one whose creation has
\* failed leads to no call.
Awaited(f) ==
    /\ flow[f].pc = "wait"
    /\ \/ /\ Temp(flow[f].req) \notin screen.reqs
          /\ Goto(f, "link")
          /\ UNCHANGED misled
       \/ /\ Temp(flow[f].req) \in screen.reqs /\ flow[flow[f].req] = Past
          /\ End(f)
          /\ misled' = TRUE
    /\ UNCHANGED <<Server, screen>>

ConfirmLink(f) ==
    /\ flow[f].pc = "linked"
    /\ Done(f) /\ UNCHANGED <<screen, misled>>

ConfirmRun(f) ==
    /\ Answered(f, "run")
    /\ screen' = [screen EXCEPT !.runs[f] = flow[f].cases]
    /\ Done(f) /\ UNCHANGED misled

-----------------------------------------------------------------------------
(* Syncs, and other clients *)

Reading(f) == flow[f].op = "sync"

\* The project is activated again, or loaded.
Sync(f) ==
    /\ Ready(f)
    /\ Begin(f, [op |-> "sync", pc |-> "read", cases |-> None, folders |-> None,
                 reqs |-> None, runs |-> None])
    /\ UNCHANGED <<Server, screen, misled>>

ReadFolders(f) ==
    /\ Reading(f) /\ flow[f].folders = None
    /\ flow' = [flow EXCEPT ![f].folders = FolderRows]
    /\ UNCHANGED <<Server, screen, misled>>

ReadCases(f) ==
    /\ Reading(f) /\ flow[f].cases = None
    /\ flow' = [flow EXCEPT ![f].cases = Listed]
    /\ UNCHANGED <<Server, screen, misled>>

ReadRequirements(f) ==
    /\ Reading(f) /\ flow[f].reqs = None
    /\ flow' = [flow EXCEPT ![f].reqs = reqs]
    /\ UNCHANGED <<Server, screen, misled>>

ReadRuns(f) ==
    /\ Reading(f) /\ flow[f].runs = None
    /\ flow' = [flow EXCEPT ![f].runs = run]
    /\ UNCHANGED <<Server, screen, misled>>

\* Requirements without a row are kept.
Pending(s) == {q \in s.reqs : q[2] = "temp"}

\* Mutant: a draft outlives the copy it was made of.
SyncedDraft(s, h) ==
    [s EXCEPT !.cases = h.cases, !.folders = Counted(h.folders),
              !.runs = h.runs,
              !.reqs = {Real(q) : q \in h.reqs} \cup Pending(s)]

\* SYNC_REAL_PROJECT_DATA: every copy is a new object.
Synced(s, h) ==
    Reset([s EXCEPT !.cases = h.cases, !.folders = Counted(h.folders),
                    !.runs = h.runs,
                    !.reqs = {Real(q) : q \in h.reqs} \cup Pending(s)])

ConfirmSync(f) ==
    /\ Reading(f)
    /\ flow[f].cases # None /\ flow[f].folders # None /\ flow[f].reqs # None
    /\ flow[f].runs # None
    /\ screen' = Synced(screen, flow[f])
    /\ misled' = (f \in overlapped)
    /\ Done(f)

\* Another client, through the same routes.
Other(f) ==
    /\ f \in Others /\ flow[f] = Idle
    /\ \/ \E g \in FolderRows \cup {None} :
            /\ Inserted(f, [ver |-> f, folder |-> g])
            /\ UNCHANGED <<folder, reqs, links>>
       \/ \E c \in Cases, g \in FolderRows \cup {None} :
            /\ case[c] # None
            /\ \/ case' = [case EXCEPT ![c].ver = f, ![c].folder = g]
               \/ case' = [case EXCEPT ![c].archived = TRUE]
               \/ case' = [case EXCEPT ![c].comments[f] = 1]
            /\ UNCHANGED <<folder, reqs, links>>
       \/ \E g \in FolderRows \cup {None} :
            /\ folder' = [folder EXCEPT ![f] = g]
            /\ UNCHANGED <<case, reqs, links>>
       \/ /\ reqs' = reqs \cup {f}
          /\ UNCHANGED <<case, folder, links>>
       \/ \E c \in Cases, q \in reqs :
            /\ case[c] # None /\ <<c, q>> \notin links
            /\ links' = links \cup {<<c, q>>}
            /\ UNCHANGED <<case, folder, reqs>>
    /\ End(f)
    /\ misled' = TRUE
    /\ UNCHANGED <<run, screen>>

-----------------------------------------------------------------------------
(* The specification *)

Browse == OpenCase \/ SelectFolder \/ StartEdit \/ CancelEdit \/ MenuEdit

Click(f) ==
    \/ QuickCreate(f) \/ CreateCase(f) \/ Duplicate(f) \/ AddFolder(f) \/ SaveEdit(f)
    \/ DeleteCase(f) \/ AddComment(f) \/ CreateRequirement(f) \/ LinkRequirement(f)
    \/ CreateRun(f) \/ Sync(f)

Serve(f) ==
    \/ InsertCase(f) \/ InsertFolder(f) \/ PatchCase(f) \/ ArchiveCase(f)
    \/ InsertComment(f) \/ InsertRequirement(f) \/ InsertLink(f) \/ InsertRun(f)
    \/ ReadFolders(f) \/ ReadCases(f) \/ ReadRequirements(f) \/ ReadRuns(f)
    \/ Fail(f) \/ Other(f)

Confirm(f) ==
    \/ ConfirmCreate(f) \/ ConfirmFolder(f) \/ ConfirmSave(f) \/ ConfirmDelete(f)
    \/ ConfirmComment(f) \/ Reconcile(f) \/ Awaited(f) \/ ConfirmLink(f)
    \/ ConfirmRun(f) \/ ConfirmSync(f)

Open(f) == flow[f].pc \notin {"idle", "done"}

\* A sync is overlapped by a flow that is under way or moves meanwhile.
Overlapped ==
    {f \in Flows : /\ flow'[f].op = "sync"
                   /\ \/ f \in overlapped
                      \/ \E g \in Flows \ {f} : Open(g) \/ flow'[g] # flow[g]}

Next ==
    /\ Browse \/ \E f \in Flows : Click(f) \/ Serve(f) \/ Confirm(f)
    /\ overlapped' = Overlapped

Spec == Init /\ [][Next]_vars

-----------------------------------------------------------------------------
(* Properties *)

\* A case is edited from what the screen shows of it: an answer that changed
\* the copy, and every sync, has closed the draft, so a save never writes back
\* the columns of an earlier copy (the effect of CaseDetail on caseData).
EditorCurrent ==
    screen.draft # None => Detail(screen) /\ screen.draft = Shown(screen)

\* The ways in which a case may be shown.
AsShown(c) ==
    IF case[c] = None \/ case[c].archived THEN {<<>>}
    ELSE {<<[CopyOf(c) EXCEPT !.local = local]>> : local \in BOOLEAN}

\* When nothing is under way, the screen shows each case once and with the
\* version, folder, comments and requirements it has on the server, and each
\* folder, requirement and run, unless it was never told of a change: of
\* another client's, of one whose answer was lost, or that a late answer
\* overwrote.  The two may differ in what the body of a save leaves out of the
\* draft: the screen goes on showing that ("they stay local-only until given an
\* action", case-client.ts:371).
ScreenAgrees ==
    (misled \/ \E f \in Flows : Open(f)) \/
    (/\ \A c \in Cases : screen.cases[c] \in AsShown(c)
     /\ screen.folders = Counted(FolderRows)
     /\ {q \in Reqs : Real(q) \in screen.reqs} = reqs
     /\ screen.runs = run)
=============================================================================
