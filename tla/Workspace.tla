------------------------------ MODULE Workspace ------------------------------
(***************************************************************************)
(* The projects of the workspace as a whole: their deep copy               *)
(* (ProjectCloneService), their creation (ProjectService), and the reset   *)
(* of everything to the seed (WorkspaceResetService, seed/), beside the    *)
(* writes of other users.                                                  *)
(*                                                                         *)
(* A row is <<table, project, writer>>, with Org for the project of the    *)
(* tables of the organisation: it stands for all the rows of the table     *)
(* which that flow wrote into that project.  Rows of the seed with an id   *)
(* that is always the same have Org for their writer.  What these flows    *)
(* depend on is which rows exist, which refer to which, and what the       *)
(* foreign keys of schema.ts do with a statement.                          *)
(***************************************************************************)
EXTENDS Naturals, Sequences, FiniteSets, FiniteSetsExt, SequencesExt

CONSTANTS Org,        \* the owner of the rows of no project
          Demo,       \* the seeded Demo Project, slug dp
          Blank,      \* the seeded projects without content
          Resets,     \* flows that reset the workspace
          Clones,     \* flows that copy a project, each the id of its copy
          Others,     \* flows that create a project, each the id of it, or
                      \* write one thing into one
          Sources,    \* the projects that are copied and written to
          NewSlugs    \* the slugs typed for a new project

ASSUME FlowsAssumption ==
  /\ Org \notin {Demo} \cup Blank \cup Clones \cup Others
  /\ IsFiniteSet(Blank) /\ IsFiniteSet(Clones) /\ IsFiniteSet(Others)
  /\ Demo \notin Blank \cup Resets \cup Clones \cup Others
  /\ Blank \cap (Resets \cup Clones \cup Others) = {}
  /\ Resets \cap (Clones \cup Others) = {} /\ Clones \cap Others = {}

Seeded == {Demo} \cup Blank
Project == Seeded \cup Clones \cup Others
Flow == Resets \cup Clones \cup Others

(* A slug is typed as a path of copies, like those that are generated.     *)
ASSUME SlugsAssumption == NewSlugs \subseteq Seq(Project \cup Nat)

VARIABLES rows,     \* the rows that exist
          ref,      \* the foreign keys set, from row to row
          named,    \* <<r, c>>: the query of plan r names case c, by its id
          slug,     \* the slug of each project row, as a path of copies
          req,      \* the request of each flow
          disturbed \* the running flows during which another one wrote

data == <<rows, ref, named, slug>>
vars == <<rows, ref, named, slug, req, disturbed>>

-----------------------------------------------------------------------------
(* Foreign keys of schema.ts: <<child table, parent table, on delete>>.     *)

OrganisationKeys == { <<"users", "organisations", "restrict">>,
                      <<"projects", "organisations", "restrict">>,
                      <<"projects", "users", "setNull">> }

ProjectKeys == { <<"roles", "projects", "cascade">>, <<"roles", "users", "cascade">>,
                 <<"folders", "projects", "cascade">> }

CaseKeys == { <<"cases", "projects", "restrict">>, <<"cases", "folders", "setNull">>,
              <<"steps", "cases", "cascade">> }

RequirementKeys == { <<"requirements", "projects", "restrict">>,
                     <<"caseRequirements", "cases", "cascade">>,
                     <<"caseRequirements", "requirements", "cascade">> }

DefectKeys == { <<"defects", "projects", "restrict">> }

PlanKeys == { <<"plans", "projects", "restrict">>, <<"planCases", "plans", "cascade">>,
              <<"planCases", "cases", "restrict">> }

RunKeys == { <<"runs", "projects", "restrict">>, <<"runs", "plans", "setNull">> }

RunCaseKeys == { <<"runCases", "runs", "cascade">>, <<"runCases", "cases", "restrict">> }

SnapshotKeys == { <<"snapshots", "runCases", "cascade">>, <<"snapshots", "steps", "setNull">>,
                  <<"stepResults", "runCases", "cascade">>,
                  <<"stepResults", "snapshots", "cascade">> }

EventKeys == { <<"events", "runCases", "cascade">>, <<"assignees", "runs", "cascade">>,
               <<"assignees", "users", "cascade">> }

LinkKeys == { <<"defectLinks", "runCases", "cascade">>, <<"defectLinks", "defects", "setNull">>,
              <<"execComments", "runCases", "cascade">> }

AuditKeys == { <<"audit", "organisations", "setNull">> }

AdminKeys == { <<"roleDefs", "organisations", "cascade">>, <<"apiKeys", "organisations", "cascade">> }

Keys == UNION { OrganisationKeys, ProjectKeys, CaseKeys, RequirementKeys, DefectKeys, PlanKeys,
                RunKeys, RunCaseKeys, SnapshotKeys, EventKeys, LinkKeys, AuditKeys, AdminKeys }

OrgTable == {"organisations", "users", "roleDefs", "apiKeys", "audit"}

(* counters is the one table without a foreign key.                        *)
Table == {"organisations", "counters"} \cup { k[1] : k \in Keys }

Writer == {Org} \cup Flow

Row == (Table \X Project \X Writer) \cup (OrgTable \X {Org} \X Writer)

(* The foreign keys a row of table t must have, and those it may leave     *)
(* empty.                                                                  *)
Required == [t \in Table |-> { k[2] : k \in { k \in Keys : k[1] = t /\ k[3] # "setNull" } }]
Optional == [t \in Table |-> { k[2] : k \in { k \in Keys : k[1] = t /\ k[3] = "setNull" } }]

(* What the delete of the row k[2] does to the row k[1] that refers to it.  *)
OnDelete == [ct \in Table \X Table |->
               IF \E k \in Keys : <<k[1], k[2]>> = ct
               THEN (CHOOSE k \in Keys : <<k[1], k[2]>> = ct)[3] ELSE "noKey"]

Rule(k) == OnDelete[<<k[1][1], k[2][1]>>]

-----------------------------------------------------------------------------
(* Statements.                                                             *)

(* The rows a delete of R takes with it.                                   *)
CascadedOnce(R) == R \cup { k[1] : k \in { k \in ref : k[2] \in R /\ Rule(k) = "cascade" } }

(* The longest chain of cascades: runs, run cases, snapshots, step results. *)
Cascaded(R) ==
  LET once == CascadedOnce(R)
      twice == CascadedOnce(once)
  IN  CascadedOnce(twice)

(* A row that refers to one of them by a RESTRICT key, and does not go     *)
(* with them, refuses the statement.                                       *)
Refused(gone) == \E k \in ref : k[2] \in gone /\ k[1] \notin gone /\ Rule(k) = "restrict"

Delete(gone) ==
  /\ rows' = rows \ gone
  /\ ref' = { k \in ref : k[1] \notin gone /\ k[2] \notin gone }
  /\ named' = { n \in named : n[1] \notin gone }
  /\ slug' = [p \in { p \in DOMAIN slug : <<"projects", p, Org>> \notin gone } |-> slug[p]]

(* An insert of the rows R with the references F is refused for a key that *)
(* exists or a parent that does not.                                       *)
Fits(R, F) == R \cap rows = {} /\ \A k \in F : k[2] \in rows \cup R

(* Mutant: without the unique key of organisation and slug.                *)
SlugFreeAlways(s) == TRUE

SlugFree(s) == \A p \in DOMAIN slug : slug[p] # s

Insert(R, F) == rows' = rows \cup R /\ ref' = ref \cup F

-----------------------------------------------------------------------------
(* The seed.  Every row refers to all it can, except that the defect links *)
(* of the Demo Project name issues of another tracker.                     *)

SetBySeed == [t \in Table |-> Required[t] \cup (Optional[t] \ {"defects"})]

(* The tables whose seeded rows have ids of their own (ids.ts).            *)
FixedId == {"organisations", "users", "roleDefs", "apiKeys", "projects", "counters", "plans"}

(* The row of table t that writer w seeds for project p.                   *)
SeedRow(t, p, w) ==
  <<t, IF t \in OrgTable THEN Org ELSE p, IF t \in FixedId THEN Org ELSE w>>

SeedRefs(R) == UNION { { <<r, SeedRow(t, r[2], r[3])>> : t \in SetBySeed[r[1]] } : r \in R }

SeedOrganisation == << { <<"organisations", Org>> }, { <<"users", Org>> } >>

SeedProjects == << { <<"projects", p>> : p \in Blank }, { <<"roles", p>> : p \in Blank } >>

DemoProject == << { <<"projects", Demo>> }, { <<"roles", Demo>> } >>
DemoFolders == << { <<"folders", Demo>> } >>
DemoCases == << { <<"cases", Demo>> } >>
DemoSteps == << { <<"steps", Demo>> } >>
DemoPlans == << { <<"plans", Demo>> }, { <<"planCases", Demo>> } >>
DemoRuns == << { <<"runs", Demo>> }, { <<"runCases", Demo>> } >>
DemoResults == << { <<"snapshots", Demo>> }, { <<"stepResults", Demo>> }, { <<"defectLinks", Demo>> } >>
DemoPeople == << { <<"assignees", Demo>> }, { <<"events", Demo>> } >>

DemoScript == DemoProject \o DemoFolders \o DemoCases \o DemoSteps \o DemoPlans
                \o DemoRuns \o DemoResults \o DemoPeople

SeedAdmin == << { <<"roleDefs", Org>> }, { <<"apiKeys", Org>> } >>

SeedCounters == << { <<"counters", p>> : p \in Seeded } >>

InsertScript == SeedOrganisation \o SeedProjects \o DemoScript \o SeedAdmin \o SeedCounters

SeedRows(tp, w) == { SeedRow(x[1], x[2], w) : x \in tp }

Baseline(w) == SeedRows(UNION Range(InsertScript), w)

(* The one plan of the seed whose query names cases.                       *)
SeedNames(w) == { <<SeedRow("plans", Demo, w), SeedRow("cases", Demo, w)>> }

SeedSlug(p) == <<p>>

Quiet == [pc |-> "idle", step |-> 0, src |-> Org, ids |-> {}, refs |-> {}, names |-> {},
          slug |-> << >>]

Init ==
  /\ rows = Baseline(Org)
  /\ ref = SeedRefs(Baseline(Org))
  /\ named = SeedNames(Org)
  /\ slug = [p \in Seeded |-> SeedSlug(p)]
  /\ req = [f \in Flow |-> Quiet]
  /\ disturbed = {}

Running(f) == req[f].pc \in {"reading", "clearing", "filling", "checked"}

(* What a request still knows when it has answered: only its outcome.      *)
Answer(f, outcome) == req' = [req EXCEPT ![f] = [Quiet EXCEPT !.pc = outcome]]

Organisation == <<"organisations", Org, Org>>
Users == <<"users", Org, Org>>
ProjectRow(p) == <<"projects", p, Org>>

ActorActive == Users \in rows

-----------------------------------------------------------------------------
(* resetWorkspace: clearSeedData, then insertSeedData, each a sequence of  *)
(* statements with no transaction around them.                             *)

(* "read" keeps the rows of a table that belong to rows kept before;       *)
(* "delete" removes the rows of the first table that belong to kept rows   *)
(* of the second.                                                          *)
(* Mutant: the cases before the plans that list them.                      *)
ClearScriptCasesFirst ==
  << <<"read", "organisations", "organisations">>, <<"read", "projects", "organisations">>,
     <<"read", "runs", "projects">>, <<"delete", "runs", "runs">>,
     <<"read", "cases", "projects">>, <<"delete", "cases", "cases">>,
     <<"read", "plans", "projects">>, <<"delete", "plans", "plans">>,
     <<"delete", "folders", "projects">>, <<"delete", "roles", "projects">>,
     <<"delete", "audit", "organisations">>, <<"delete", "counters", "projects">>,
     <<"delete", "projects", "projects">>, <<"delete", "users", "organisations">>,
     <<"delete", "organisations", "organisations">> >>

ClearScript ==
  << <<"read", "organisations", "organisations">>, <<"read", "projects", "organisations">>,
     <<"read", "runs", "projects">>, <<"read", "runCases", "runs">>,
     <<"delete", "execComments", "runCases">>, <<"delete", "defectLinks", "runCases">>,
     <<"delete", "stepResults", "runCases">>, <<"delete", "snapshots", "runCases">>,
     <<"delete", "runCases", "runCases">>, <<"delete", "assignees", "runs">>,
     <<"delete", "runs", "runs">>,
     <<"read", "plans", "projects">>, <<"delete", "planCases", "plans">>,
     <<"delete", "plans", "plans">>,
     <<"read", "cases", "projects">>, <<"delete", "steps", "cases">>,
     <<"delete", "cases", "cases">>,
     <<"delete", "folders", "projects">>, <<"delete", "roles", "projects">>,
     <<"delete", "audit", "organisations">>, <<"delete", "counters", "projects">>,
     <<"delete", "projects", "projects">>, <<"delete", "apiKeys", "organisations">>,
     <<"delete", "roleDefs", "organisations">>, <<"delete", "users", "organisations">>,
     <<"delete", "organisations", "organisations">> >>

(* Rows of table t that refer to rows of table by that request q keeps.    *)
Children(q, t, by) ==
  { k[1] : k \in { k \in ref : k[1][1] = t /\ k[2][1] = by /\ k[2] \in q.ids } }

(* Rows of table t that belong to rows of table by that request q keeps.   *)
Belonging(q, t, by) ==
  { r \in rows : /\ r[1] = t
                 /\ \/ t = by /\ (r \in q.ids \/ t = "organisations")
                    \/ t = "counters" /\ ProjectRow(r[2]) \in q.ids }
    \cup Children(q, t, by)

(* The next statement: an organisation that is absent ends the clearing,   *)
(* one without projects goes straight to its users.                        *)
After(q, kept) ==
  IF q.step = 1 /\ kept = {} THEN Len(ClearScript) + 1
  ELSE IF q.step = 2 /\ kept = {}
       THEN CHOOSE i \in DOMAIN ClearScript : ClearScript[i][2] = "users"
       ELSE q.step + 1

StartReset(f) ==
  /\ f \in Resets /\ req[f].pc = "idle"
  /\ IF ActorActive THEN req' = [req EXCEPT ![f].pc = "clearing", ![f].step = 1]
                    ELSE Answer(f, "failed")
  /\ UNCHANGED data

ClearRead(f) ==
  LET q == req[f] IN
  /\ q.pc = "clearing" /\ q.step \in DOMAIN ClearScript /\ ClearScript[q.step][1] = "read"
  /\ LET kept == Belonging(q, ClearScript[q.step][2], ClearScript[q.step][3])
     IN  req' = [req EXCEPT ![f].ids = @ \cup kept, ![f].step = After(q, kept)]
  /\ UNCHANGED data

ClearDelete(f) ==
  LET q == req[f] IN
  /\ q.pc = "clearing" /\ q.step \in DOMAIN ClearScript /\ ClearScript[q.step][1] = "delete"
  /\ \E gone \in {Cascaded(Belonging(q, ClearScript[q.step][2], ClearScript[q.step][3]))} :
       IF Refused(gone) THEN Answer(f, "failed") /\ UNCHANGED data
       ELSE Delete(gone) /\ req' = [req EXCEPT ![f].step = @ + 1]

Cleared(f) ==
  /\ req[f].pc = "clearing" /\ req[f].step > Len(ClearScript)
  /\ req' = [req EXCEPT ![f] = [Quiet EXCEPT !.pc = "filling", !.step = 1]]
  /\ UNCHANGED data

(* The counters are upserted, all the rest must be new.                    *)
NewOf(R) == { r \in R : r[1] = "counters" => r \notin rows }

FillNext(f) ==
  LET q == req[f]
      R == NewOf(SeedRows(InsertScript[q.step], f))
      P == { r[2] : r \in { r \in R : r[1] = "projects" } }
  IN
  /\ q.pc = "filling"
  /\ IF Fits(R, SeedRefs(R)) /\ \A p \in P : SlugFree(SeedSlug(p))
     THEN /\ Insert(R, SeedRefs(R))
          /\ slug' = [p \in DOMAIN slug \cup P |-> IF p \in P THEN SeedSlug(p) ELSE slug[p]]
          /\ named' = named \cup { n \in SeedNames(f) : n[1] \in R }
          /\ IF q.step = Len(InsertScript) THEN Answer(f, "done")
                                           ELSE req' = [req EXCEPT ![f].step = @ + 1]
     ELSE Answer(f, "failed") /\ UNCHANGED data

-----------------------------------------------------------------------------
(* cloneProject.                                                           *)

(* The tables it reads, one after the other, and the table whose rows they *)
(* are read for.                                                           *)
CloneScript == << "folders", "cases", "steps", "plans", "planCases", "runs", "runCases",
                  "snapshots", "stepResults", "defectLinks", "events", "assignees" >>

ReadFor(t) ==
  CASE t = "steps" -> "cases" [] t = "planCases" -> "plans" [] t = "runCases" -> "runs"
    [] t \in {"snapshots", "stepResults", "defectLinks", "events"} -> "runCases"
    [] t = "assignees" -> "runs" [] OTHER -> "projects"

(* dp2, dp3, ...: the first that no project has.                           *)
CopySlug(p) ==
  LET n == CHOOSE n \in 2 .. Cardinality(Project) + 2 :
             /\ SlugFree(Append(slug[p], n))
             /\ \A i \in 2 .. n - 1 : ~SlugFree(Append(slug[p], i))
  IN  Append(slug[p], n)

(* The checks and the slug; the source row itself is read.                 *)
StartClone(f, p) ==
  /\ f \in Clones /\ req[f].pc = "idle"
  /\ IF ActorActive /\ ProjectRow(p) \in rows
     THEN req' = [req EXCEPT ![f] = [Quiet EXCEPT !.pc = "reading", !.step = 1, !.src = p,
                                       !.ids = {ProjectRow(p)}, !.slug = CopySlug(p)]]
     ELSE Answer(f, "failed")
  /\ UNCHANGED data

CloneRead(f) ==
  LET q == req[f]
      t == CloneScript[q.step]
      R == Children(q, t, ReadFor(t))
  IN
  /\ q.pc = "reading" /\ q.step <= Len(CloneScript)
  /\ req' = [req EXCEPT ![f].ids = @ \cup R,
                        ![f].refs = @ \cup { k \in ref : k[1] \in R },
                        ![f].names = @ \cup { n \in named : n[1] \in R },
                        ![f].step = @ + 1]
  /\ UNCHANGED data

(* The ids maps give a row that was read its copy.                         *)
Copy(r, f) == <<r[1], f, r[3]>>

(* The rows of the copy: the role of the actor and the counters are new.   *)
CopyRows(q, f) == { <<"roles", f, f>>, <<"counters", f, Org>> } \cup { Copy(r, f) : r \in q.ids }

NewProjectRefs(f) ==
  { <<ProjectRow(f), Organisation>>, <<ProjectRow(f), Users>>,
    <<<<"roles", f, f>>, ProjectRow(f)>>, <<<<"roles", f, f>>, Users>> }

(* A key that must be set and has no copy is undefined, which the insert   *)
(* refuses.                                                                *)
Remappable(q) ==
  \A k \in q.refs : Rule(k) # "setNull" /\ k[2][2] # Org => k[2] \in q.ids

(* Mutant: a key that may be empty keeps the row of the source.            *)
CopyRefsOrSource(q, f) ==
  { <<Copy(k[1], f), IF k[2][2] # Org /\ k[2] \in q.ids THEN Copy(k[2], f) ELSE k[2]>> : k \in q.refs }

(* One that may be empty is: the link to a defect always is, and so drops  *)
(* out here, no defect being read.                                         *)
CopyRefs(q, f) ==
  { <<Copy(k[1], f), IF k[2][2] = Org THEN k[2] ELSE Copy(k[2], f)>> :
       k \in { k \in q.refs : k[2][2] = Org \/ k[2] \in q.ids } }

(* Mutant: the query is copied as it is.                                   *)
CopyNamesAsIs(q, f) == { <<Copy(n[1], f), n[2]>> : n \in q.names }

(* A case named in a query keeps its id when it was not read.              *)
CopyNames(q, f) ==
  { <<Copy(n[1], f), IF n[2] \in q.ids THEN Copy(n[2], f) ELSE n[2]>> : n \in q.names }

(* One transaction.                                                        *)
CloneCommit(f) ==
  LET q == req[f]
      R == CopyRows(q, f)
      F == NewProjectRefs(f) \cup CopyRefs(q, f)
  IN
  /\ q.pc = "reading" /\ q.step > Len(CloneScript)
  /\ IF Remappable(q) /\ Fits(R, F) /\ SlugFree(q.slug)
     THEN /\ Insert(R, F)
          /\ named' = named \cup CopyNames(q, f)
          /\ slug' = [p \in DOMAIN slug \cup {f} |-> IF p = f THEN q.slug ELSE slug[p]]
          /\ Answer(f, "done")
     ELSE Answer(f, "failed") /\ UNCHANGED data

-----------------------------------------------------------------------------
(* createProject: the check, then the insert of the row alone.             *)

StartCreate(f, s) ==
  /\ f \in Others /\ req[f].pc = "idle"
  /\ IF ActorActive THEN req' = [req EXCEPT ![f] = [Quiet EXCEPT !.pc = "checked", !.slug = s]]
                    ELSE Answer(f, "failed")
  /\ UNCHANGED data

InsertProject(f) ==
  LET R == {ProjectRow(f)}
      F == { <<ProjectRow(f), Organisation>>, <<ProjectRow(f), Users>> }
  IN
  /\ f \in Others /\ req[f].pc = "checked"
  /\ IF Fits(R, F) /\ SlugFree(req[f].slug)
     THEN /\ Insert(R, F)
          /\ slug' = [p \in DOMAIN slug \cup {f} |-> IF p = f THEN req[f].slug ELSE slug[p]]
          /\ Answer(f, "done")
          /\ UNCHANGED named
     ELSE Answer(f, "failed") /\ UNCHANGED data

-----------------------------------------------------------------------------
(* What the other services write into a project, with its audit row, each  *)
(* in one step here.                                                       *)

Writes == { {"folders"}, {"cases", "steps"}, {"requirements"}, {"plans"}, {"plans", "planCases"},
            {"runs", "runCases", "snapshots", "events"}, {"defects"}, {"defectLinks"},
            {"execComments"} }

(* Rows of these tables get a reference, R-12, of a counter; the seed makes *)
(* the table of the counters for three of them, and its ENUM refuses the   *)
(* others.                                                                 *)
Numbered == {"cases", "runs", "plans", "requirements", "defects"}
CountedTables == {"cases", "runs", "plans"}

Written(t, p, f) == <<t, IF t \in OrgTable THEN Org ELSE p, f>>

ParentTables(T) == UNION { Required[t] \cup Optional[t] : t \in T }

(* The rows of project p that new rows in the tables T may refer to.       *)
Candidates(T, p) ==
  { r \in rows : r[1] \in ParentTables(T) \ T /\ (r[2] = p \/ r[1] \in OrgTable) }

(* One of each kind that there is.                                         *)
Selections(T, p) ==
  LET C == Candidates(T, p)
  IN  { S \in kSubset(Cardinality({ r[1] : r \in C }), C) :
          \A r, s \in S : r[1] = s[1] => r = s }

NewRefs(R, S) ==
  UNION { { <<r, s>> : s \in { s \in R \cup S : s[1] \in ParentTables({r[1]}) } } : r \in R }

Edit(f, p, T) ==
  /\ f \in Others /\ req[f].pc = "idle"
  /\ ActorActive /\ ProjectRow(p) \in rows
  /\ IF T \cap Numbered \subseteq CountedTables
     THEN /\ \E S \in Selections(T \cup {"audit"}, p) :
               LET R == { Written(t, p, f) : t \in T \cup {"audit"} } IN
               /\ \A t \in T : Required[t] \subseteq { r[1] : r \in R \cup S }
               /\ Insert(R, NewRefs(R, S))
               /\ named' = named \cup { <<Written("plans", p, f), s>> :
                                          s \in { s \in S : "planCases" \in T /\ s[1] = "cases" } }
          /\ UNCHANGED slug
          /\ Answer(f, "done")
     ELSE Answer(f, "failed") /\ UNCHANGED data

-----------------------------------------------------------------------------
Step(f) ==
  \/ StartReset(f) \/ ClearRead(f) \/ ClearDelete(f) \/ Cleared(f) \/ FillNext(f)
  \/ \E p \in Sources : StartClone(f, p)
  \/ CloneRead(f) \/ CloneCommit(f)
  \/ \E s \in NewSlugs : StartCreate(f, s)
  \/ InsertProject(f)
  \/ \E p \in Sources, T \in Writes : Edit(f, p, T)

(* Which flows ran while another one wrote.                                *)
Watch(f) ==
  disturbed' = { g \in Flow : /\ Running(g)'
                              /\ \/ g \in disturbed
                                 \/ g # f /\ Running(g) /\ data' # data }

Next == \E f \in Flow : Step(f) /\ Watch(f)

Spec == Init /\ [][Next]_vars

-----------------------------------------------------------------------------
Request == [pc : {"idle", "reading", "clearing", "filling", "checked", "done", "failed"},
            step : 0 .. Len(ClearScript) + 1, src : Project \cup {Org}, ids : SUBSET Row,
            refs : SUBSET (Row \X Row), names : SUBSET (Row \X Row),
            slug : Seq(Project \cup Nat)]

(* The variables have the values the tables admit: a foreign key refers    *)
(* from a row that exists to one that exists, and a project row has a slug *)
(* that no other has.                                                      *)
TypeOK ==
  /\ rows \subseteq Row
  /\ ref \subseteq rows \X rows
  /\ named \subseteq Row \X Row /\ \A n \in named : n[1] \in rows
  /\ DOMAIN slug = { p \in Project : ProjectRow(p) \in rows }
  /\ \A p, q \in DOMAIN slug : slug[p] = slug[q] => p = q
  /\ DOMAIN req = Flow /\ \A f \in Flow : req[f] \in Request
  /\ disturbed \subseteq Flow

(* No foreign key leads from one project into another: a copy, whatever    *)
(* was written to its source between the reads and the commit, shares no   *)
(* case, step, plan or defect with it (cloneProject's remapping).          *)
ProjectsApart == \A k \in ref : k[2][2] \in {Org, k[1][2]}

Content(p) == { r \in rows : r[2] = p /\ r[1] \in Range(CloneScript) }

KeysOf(p) == { k \in ref : k[1] \in Content(p) /\ k[2][1] # "defects" }

CopyOf(k, f) == <<Copy(k[1], f), IF k[2][2] = Org THEN k[2] ELSE Copy(k[2], f)>>

(* A case that is not in the source is named as it was: of two resets one  *)
(* deleted it before the other came to the plan.                           *)
NameCopy(n, f, p) == <<Copy(n[1], f), IF n[2] \in Content(p) THEN Copy(n[2], f) ELSE n[2]>>

(* A copy made while nobody wrote succeeds and has every row and reference *)
(* of its source, references to defects apart, and its plans name the      *)
(* copies of the cases, not the cases (cloneProject).                      *)
AloneCopiesAll ==
  [][ \A f \in Clones :
        LET p == req[f].src IN
        req[f].pc = "reading" /\ ~Running(f)' /\ f \notin disturbed =>
          /\ req'[f].pc = "done"
          /\ Content(f)' = { Copy(r, f) : r \in Content(p) }
          /\ KeysOf(f)' = { CopyOf(k, f) : k \in KeysOf(p) }
          /\ { n \in named' : n[1][2] = f }
               = { NameCopy(n, f, p) : n \in { n \in named : n[1][2] = p } }
    ]_vars

(* A reset during which nobody wrote gets to its end, and leaves the seed:  *)
(* the order of the deletes never meets a key that restricts them          *)
(* (clearSeedData, insertSeedData), for the requirements and defects that  *)
(* it does not delete cannot be created.  Nothing else is left but, where  *)
(* another reset has run, rows of the audit log that this one left without *)
(* an organisation.                                                        *)
AloneRestores ==
  [][ \A f \in Resets :
        Running(f) /\ ~Running(f)' /\ f \notin disturbed =>
          /\ req'[f].pc = "done"
          /\ { r \in rows' : r[1] # "audit" } = Baseline(f)
          /\ ref' = SeedRefs(Baseline(f)) /\ named' = SeedNames(f)
          /\ slug' = [p \in Seeded |-> SeedSlug(p)]
          /\ (\A g \in Resets \ {f} : req[g].pc = "idle") => rows' = Baseline(f)
    ]_vars
=============================================================================
