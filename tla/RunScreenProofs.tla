--------------------------- MODULE RunScreenProofs ---------------------------
(***************************************************************************)
(* Runs, as they are spawned and as they are shown.                        *)
(*                                                                         *)
(* RunScreen: for any browsers, runs, cases, defects and commands:         *)
(* unlinking is logged, whoever unlinks the same link at once              *)
(* (UnlinksAudited), commands go to the run that is shown                  *)
(* (ShownIsCurrent), and a defect shown on a case is linked to it or still *)
(* claimed by its command (ShownDefectsLinked).  The first two need of the *)
(* types only that some fields are there (Shape); the third needs the      *)
(* whole of them (TypeOK, Rooted), and that a link is made once (MadeOnce, *)
(* from the first part).                                                   *)
(*                                                                         *)
(* RunSpawn: what a spawned run may hold, for any cases, plans, step ids,  *)
(* requests and number of edits.  Rows only gain states, so a read that    *)
(* was right stays right of a moment since the request (CasesRead,         *)
(* PlanRead); a step id belongs to one case for ever (Owned), so a foreign *)
(* key that holds holds in the case that was read.                         *)
(***************************************************************************)
EXTENDS RunScreen, RunSpawn, TLAPS

-----------------------------------------------------------------------------
(* RunScreen: the inductive invariant *)

Formed(h) ==
    /\ {"op", "pc"} \subseteq DOMAIN h
    /\ h.op = "status" => "to" \in DOMAIN h /\ h.to \in Status
    /\ h.op = "unlink" => /\ "link" \in DOMAIN h /\ h.link \in Links
                          /\ h.pc \in {"update", "audit", "done", "unaudited"}

\* The fields of a screen that the proofs are about, and those that say what
\* run is shown.
Fields == {"url", "going", "current", "runs"}
ShownFields == {"url", "going", "current"}

Shape ==
    /\ DOMAIN flow = Flows /\ DOMAIN link = Links /\ DOMAIN screen = Browsers
    /\ \A f \in Flows : Formed(flow[f])
    /\ \A b \in Browsers : Fields \subseteq DOMAIN screen[b]
    /\ \A l \in Links : link[l] # None => "unlinkedBy" \in DOMAIN link[l]

\* A flow that has not inserted the link it may insert.
Pending(h) ==
    \/ h = Idle
    \/ h.op \in {"defect", "link"} /\ h.pc \in {"post", "wait", "link", "answered"}

\* A link is made once, and unlinked afterwards.
MadeOnce ==
    /\ \A f \in Flows : Pending(flow[f]) => link[f] = None
    /\ \A f \in Flows : flow[f].op = "unlink" =>
          /\ "unlinkedBy" \in DOMAIN link[flow[f].link]
          /\ flow[f].link \in Flows => ~Pending(flow[flow[f].link])

\* Unlinked by a flow that unlinks, and logged by one that has.
ByUnlinking ==
    /\ \A l \in Links : link[l] # None /\ link[l].unlinkedBy # None =>
          LET f == link[l].unlinkedBy
          IN /\ f \in Flows /\ flow[f].op = "unlink"
             /\ <<f, "unlinked">> \in audit \/ flow[f].pc \in {"audit", "unaudited"}
    /\ \A f \in Flows :
          /\ <<f, "unlinked">> \in audit => flow[f].op = "unlink" /\ flow[f].pc = "done"
          /\ flow[f].op = "unlink" /\ flow[f].pc # "update" =>
                link[flow[f].link].unlinkedBy # None

\* The run shown is the current one, also if the navigation under way, which no
\* click has overtaken, leads to the run shown.
CurrentAt(s, over) ==
    (s.going = Absent \/ s.going = s.url) /\ ~over /\ s.url # None => s.current = s.url

Current == \A b \in Browsers : CurrentAt(screen[b], b \in overtaken)

Sound == Shape /\ MadeOnce /\ ByUnlinking

-----------------------------------------------------------------------------
(* Flows that do not unlink *)

\* Flow f goes on to x, and logs what is not an unlinking.
Plain(f, x) ==
    /\ flow' = [flow EXCEPT ![f] = x]
    /\ Formed(x)
    /\ flow[f].op # "unlink" /\ x.op # "unlink"
    /\ Pending(x) => Pending(flow[f])
    /\ \/ audit' = audit
       \/ \E w : w # "unlinked" /\ audit' = audit \cup {<<f, w>>}

\* The link that f inserts.
Linking(f, x, new) ==
    /\ Pending(flow[f]) /\ ~Pending(x)
    /\ "unlinkedBy" \in DOMAIN new /\ new.unlinkedBy = None
    /\ link' = [link EXCEPT ![f] = new]

ScreensKept ==
    /\ DOMAIN screen' = Browsers
    /\ \A b \in Browsers : Fields \subseteq DOMAIN screen'[b]

LEMMA PlainSound ==
    ASSUME Sound, ScreensKept, NEW f \in Flows, NEW x, Plain(f, x),
           link' = link \/ \E new : Linking(f, x, new)
    PROVE  Sound'
<1> USE DEF Sound
<1>1. /\ DOMAIN flow' = Flows /\ flow'[f] = x
      /\ \A g \in Flows \ {f} : flow'[g] = flow[g]
  BY DEF Plain, Shape
<1>2. /\ DOMAIN link' = Links
      /\ \A l \in Links \ {f} : link'[l] = link[l]
      /\ link'[f] = link[f] \/ \E new : Linking(f, x, new) /\ link'[f] = new
  BY DEF Linking, Shape, Links
<1>3. f \in Links  BY DEF Links
<1>4. \A g \in Flows : flow'[g].op = "unlink" <=> flow[g].op = "unlink" /\ g # f
  BY <1>1 DEF Plain
<1>5. \A g \in Flows : <<g, "unlinked">> \in audit' <=> <<g, "unlinked">> \in audit
  BY DEF Plain
<1>6. \A g \in Flows : Pending(flow'[g]) => Pending(flow[g])
  BY <1>1 DEF Plain
<1>7. \A g \in Flows : flow[g].op = "unlink" /\ flow[g].link = f =>
          link'[f] = link[f]
  BY <1>2 DEF MadeOnce, Linking
<1>8. Shape'
  <2>1. \A g \in Flows : Formed(flow'[g])  BY <1>1 DEF Plain, Shape
  <2>2. \A l \in Links : link'[l] # None => "unlinkedBy" \in DOMAIN link'[l]
    BY <1>2 DEF Shape, Linking
  <2>3. QED  BY <1>1, <1>2, <2>1, <2>2 DEF Shape, ScreensKept, Formed
<1>9. MadeOnce'
  <2>1. ASSUME NEW g \in Flows, Pending(flow'[g])  PROVE link'[g] = None
    <3>1. link[g] = None  BY <1>6, <2>1 DEF MadeOnce
    <3>2. g \in Links  BY DEF Links
    <3>3. CASE g # f  BY <1>2, <3>1, <3>2, <3>3
    <3>4. CASE g = f  BY <1>1, <1>2, <2>1, <3>1, <3>4 DEF Linking
    <3>5. QED  BY <3>3, <3>4
  <2>2. ASSUME NEW g \in Flows, flow'[g].op = "unlink"
        PROVE  /\ "unlinkedBy" \in DOMAIN link'[flow'[g].link]
               /\ flow'[g].link \in Flows => ~Pending(flow'[flow'[g].link])
    <3>1. flow[g].op = "unlink" /\ flow'[g] = flow[g]  BY <1>1, <1>4, <2>2
    <3>2. flow[g].link \in Links  BY <3>1 DEF Shape, Formed
    <3>3. link'[flow[g].link] = link[flow[g].link]  BY <1>2, <1>7, <3>1, <3>2
    <3>4. QED  BY <1>6, <3>1, <3>3 DEF MadeOnce
  <2>3. QED  BY <2>1, <2>2 DEF MadeOnce, Pending
<1>10. ByUnlinking'
  <2>1. ASSUME NEW l \in Links, link'[l] # None, link'[l].unlinkedBy # None
        PROVE  LET g == link'[l].unlinkedBy
               IN /\ g \in Flows /\ flow'[g].op = "unlink"
                  /\ \/ <<g, "unlinked">> \in audit'
                     \/ flow'[g].pc \in {"audit", "unaudited"}
    <3>1. link'[l] = link[l]  BY <1>2, <2>1 DEF Linking
    <3>2. PICK g : g = link[l].unlinkedBy  OBVIOUS
    <3>3. /\ g \in Flows /\ flow[g].op = "unlink"
          /\ <<g, "unlinked">> \in audit \/ flow[g].pc \in {"audit", "unaudited"}
      BY <2>1, <3>1, <3>2 DEF ByUnlinking
    <3>4. flow'[g] = flow[g]  BY <1>1, <1>4, <3>3 DEF Plain
    <3>5. QED  BY <1>5, <3>1, <3>2, <3>3, <3>4
  <2>2. ASSUME NEW g \in Flows, <<g, "unlinked">> \in audit'
        PROVE  flow'[g].op = "unlink" /\ flow'[g].pc = "done"
    <3>1. flow[g].op = "unlink" /\ flow[g].pc = "done"
      BY <1>5, <2>2 DEF ByUnlinking
    <3>2. QED  BY <1>1, <3>1 DEF Plain
  <2>3. ASSUME NEW g \in Flows, flow'[g].op = "unlink", flow'[g].pc # "update"
        PROVE  link'[flow'[g].link].unlinkedBy # None
    <3>1. flow[g].op = "unlink" /\ flow'[g] = flow[g]  BY <1>1, <1>4, <2>3
    <3>2. flow[g].link \in Links  BY <3>1 DEF Shape, Formed
    <3>3. link'[flow[g].link] = link[flow[g].link]  BY <1>2, <1>7, <3>1, <3>2
    <3>4. link[flow[g].link].unlinkedBy # None  BY <2>3, <3>1 DEF ByUnlinking
    <3>5. QED  BY <3>1, <3>3, <3>4
  <2>4. QED  BY <2>1, <2>2, <2>3 DEF ByUnlinking
<1>11. QED  BY <1>8, <1>9, <1>10

-----------------------------------------------------------------------------
(* Screens *)

\* Nothing that is about the run shown.
LEMMA SameKeeps ==
    ASSUME Shape, Current, DOMAIN screen' = Browsers, overtaken' = overtaken,
           \A b \in Browsers : /\ DOMAIN screen'[b] = DOMAIN screen[b]
                               /\ \A k \in ShownFields : screen'[b][k] = screen[b][k]
    PROVE  ScreensKept /\ Current'
<1>1. \A b \in Browsers : /\ screen'[b].url = screen[b].url
                          /\ screen'[b].going = screen[b].going
                          /\ screen'[b].current = screen[b].current
  BY DEF ShownFields, Fields
<1>2. Current'  BY <1>1 DEF Current, CurrentAt
<1>3. QED  BY <1>2 DEF ScreensKept, Shape

LEMMA OneKeeps ==
    ASSUME Shape, Current, NEW b, NEW new,
           screen' = [screen EXCEPT ![b] = new], overtaken' = overtaken,
           b \in Browsers => /\ DOMAIN new = DOMAIN screen[b]
                             /\ \A k \in ShownFields : new[k] = screen[b][k]
    PROVE  ScreensKept /\ Current'
<1>1. /\ DOMAIN screen' = Browsers
      /\ \A c \in Browsers : screen'[c] = IF c = b THEN new ELSE screen[c]
  BY DEF Shape
<1>2. \A c \in Browsers : /\ DOMAIN screen'[c] = DOMAIN screen[c]
                          /\ \A k \in ShownFields : screen'[c][k] = screen[c][k]
  BY <1>1
<1>3. QED  BY <1>1, <1>2, SameKeeps

LEMMA ShowKeeps ==
    ASSUME Shape, Current, NEW b, NEW new, Show(b, new),
           b \in Browsers => Fields \subseteq DOMAIN new,
           b \in Browsers /\ new.url \in Visible(new) /\ new.url = screen[b].url =>
               CurrentAt(new, b \in overtaken)
    PROVE  ScreensKept /\ Current'
<1>1. ASSUME NEW r, b \in Browsers
      PROVE  /\ Fields \subseteq DOMAIN Landed(new, r)
             /\ \A over : CurrentAt(Landed(new, r), over)
  <2>1. CASE r = None
    <3>1. Landed(new, r) = [new EXCEPT !.url = None]  BY <2>1 DEF Landed
    <3>2. /\ Fields \subseteq DOMAIN [new EXCEPT !.url = None]
          /\ [new EXCEPT !.url = None].url = None
      BY <1>1 DEF ShownFields, Fields
    <3>3. QED  BY <3>1, <3>2 DEF CurrentAt
  <2>2. CASE r # None
    <3> DEFINE first == First(new.runs[r].cases)
               there == [new EXCEPT !.url = r, !.current = r, !.active = first]
    <3>1. Landed(new, r) = there  BY <2>2 DEF Landed
    <3> HIDE DEF first
    <3>2. /\ Fields \subseteq DOMAIN there
          /\ there.url = r /\ there.current = r
      BY <1>1 DEF ShownFields, Fields
    <3>3. QED  BY <3>1, <3>2 DEF CurrentAt
  <2>3. QED  BY <2>1, <2>2
<1>2. PICK after :
         /\ screen' = [screen EXCEPT ![b] = after]
         /\ \/ after = new /\ overtaken' = overtaken
               /\ new.url \in Visible(new) /\ new.url = screen[b].url
            \/ overtaken' = overtaken \ {b} /\ \E r : after = Landed(new, r)
  BY DEF Show
<1>3. b \in Browsers => Fields \subseteq DOMAIN after
  BY <1>1, <1>2
<1>4. /\ DOMAIN screen' = Browsers
      /\ \A c \in Browsers : screen'[c] = IF c = b THEN after ELSE screen[c]
  BY <1>2 DEF Shape
<1>5. ScreensKept  BY <1>3, <1>4 DEF ScreensKept, Shape, ShownFields, Fields
<1>6. ASSUME NEW c \in Browsers  PROVE CurrentAt(screen'[c], c \in overtaken')
  <2>1. CASE c # b
    <3>1. screen'[c] = screen[c] /\ (c \in overtaken' <=> c \in overtaken)
      BY <1>2, <1>4, <2>1
    <3>2. QED  BY <3>1 DEF Current, CurrentAt
  <2>2. CASE c = b /\ after = new /\ overtaken' = overtaken
             /\ new.url \in Visible(new) /\ new.url = screen[b].url
    BY <1>4, <2>2
  <2>3. CASE c = b /\ \E r : after = Landed(new, r)
    BY <1>1, <1>4, <2>3
  <2>4. QED  BY <1>2, <2>1, <2>2, <2>3
<1>7. QED  BY <1>5, <1>6 DEF Current

LEMMA PushKeeps ==
    ASSUME Shape, Current, NEW b, NEW new, Pushed(b, new),
           b \in Browsers =>
               /\ Fields \subseteq DOMAIN new
               /\ new.going # Absent
               /\ screen[b].going = Absent /\ new.going = new.url =>
                     new.current = new.url
    PROVE  ScreensKept /\ Current'
<1>1. /\ DOMAIN screen' = Browsers
      /\ \A c \in Browsers : screen'[c] = IF c = b THEN new ELSE screen[c]
  BY DEF Pushed, Shape
<1>2. ScreensKept  BY <1>1 DEF ScreensKept, Shape, ShownFields, Fields
<1>3. ASSUME NEW c \in Browsers  PROVE CurrentAt(screen'[c], c \in overtaken')
  <2>1. CASE c # b
    <3>1. screen'[c] = screen[c] /\ (c \in overtaken' <=> c \in overtaken)
      BY <1>1, <2>1 DEF Pushed
    <3>2. QED  BY <3>1 DEF Current, CurrentAt
  <2>2. CASE c = b
    <3>1. screen'[c] = new  BY <1>1, <2>2
    <3>2. screen[b].going # Absent => c \in overtaken'  BY <2>2 DEF Pushed
    <3>3. QED  BY <2>2, <3>1, <3>2 DEF CurrentAt
  <2>3. QED  BY <2>1, <2>2
<1>4. QED  BY <1>2, <1>3 DEF Current

-----------------------------------------------------------------------------
(* What browsers do by themselves *)

LEMMA BrowserSteps ==
    ASSUME Shape, Current, NEW b \in Browsers,
           SelectRun(b) \/ Arrive(b) \/ SelectCase(b) \/ AddCases(b) \/ Choose(b)
    PROVE  UNCHANGED <<Server, flow>> /\ ScreensKept /\ Current'
<1>1. PICK s : s = screen[b]  OBVIOUS
<1>2. Fields \subseteq DOMAIN s  BY <1>1 DEF Shape, ShownFields, Fields
<1>3. CASE SelectRun(b)
  <2>1. PICK r \in Visible(s) \cup {None} :
           /\ r = s.url => s.going # Absent
           /\ Pushed(b, [s EXCEPT !.going = r])
    BY <1>1, <1>3 DEF SelectRun
  <2>2. r # Absent  BY ScreenAssumption DEF Visible, Runs
  <2>3. PICK new : new = [s EXCEPT !.going = r]  OBVIOUS
  <2>4. /\ Fields \subseteq DOMAIN new
        /\ new.going = r /\ new.url = s.url
    BY <1>2, <2>3 DEF ShownFields, Fields
  <2>5. ScreensKept /\ Current'
    BY <1>1, <2>1, <2>2, <2>3, <2>4, PushKeeps
  <2>6. QED  BY <1>3, <2>5 DEF SelectRun
<1>4. CASE Arrive(b)
  <2>1. PICK new : new = [s EXCEPT !.url = s.going, !.going = Absent]  OBVIOUS
  <2>2. /\ Fields \subseteq DOMAIN new
        /\ new.going = Absent /\ new.url = s.going /\ new.current = s.current
    BY <1>2, <2>1 DEF ShownFields, Fields
  <2>3. new.url = s.url => CurrentAt(new, b \in overtaken)
    BY <1>1, <2>2 DEF Current, CurrentAt
  <2>4. Show(b, new)  BY <1>1, <1>4, <2>1 DEF Arrive
  <2>5. ScreensKept /\ Current'  BY <1>1, <2>2, <2>3, <2>4, ShowKeeps
  <2>6. QED  BY <1>4, <2>5 DEF Arrive
<1>5. CASE SelectCase(b) \/ AddCases(b) \/ Choose(b)
  <2>1. PICK new :
           /\ screen' = [screen EXCEPT ![b] = new] /\ overtaken' = overtaken
           /\ DOMAIN new = DOMAIN s
           /\ \A k \in ShownFields : new[k] = s[k]
    <3>1. CASE SelectCase(b)
      <4>1. PICK c : screen' = [screen EXCEPT ![b].active = c]
        BY <3>1 DEF SelectCase
      <4>2. screen' = [screen EXCEPT ![b] = [s EXCEPT !.active = c]]
        BY <1>1, <4>1
      <4>3. PICK new : new = [s EXCEPT !.active = c]  OBVIOUS
      <4>4. /\ DOMAIN new = DOMAIN s
            /\ \A k \in ShownFields : new[k] = s[k]
        BY <1>2, <4>3 DEF ShownFields, Fields
      <4>5. overtaken' = overtaken  BY <3>1 DEF SelectCase
      <4>6. QED  BY <4>2, <4>3, <4>4, <4>5
    <3>2. CASE AddCases(b)
      <4>1. PICK r, c : screen' = [screen EXCEPT
                           ![b].runs[r].cases = @ \cup {c},
                           ![b].active = IF @ = None THEN c ELSE @]
        BY <3>2 DEF AddCases
      <4>2. PICK runs, active :
               screen' = [screen EXCEPT ![b] = [s EXCEPT !.runs = runs, !.active = active]]
        BY <1>1, <4>1
      <4>3. PICK new : new = [s EXCEPT !.runs = runs, !.active = active]  OBVIOUS
      <4>4. /\ DOMAIN new = DOMAIN s
            /\ \A k \in ShownFields : new[k] = s[k]
        BY <1>2, <4>3 DEF ShownFields, Fields
      <4>5. overtaken' = overtaken  BY <3>2 DEF AddCases
      <4>6. QED  BY <4>2, <4>3, <4>4, <4>5
    <3>3. CASE Choose(b)
      <4>1. PICK d : screen' = [screen EXCEPT ![b].chosen = d]
        BY <3>3 DEF Choose
      <4>2. screen' = [screen EXCEPT ![b] = [s EXCEPT !.chosen = d]]
        BY <1>1, <4>1
      <4>3. PICK new : new = [s EXCEPT !.chosen = d]  OBVIOUS
      <4>4. /\ DOMAIN new = DOMAIN s
            /\ \A k \in ShownFields : new[k] = s[k]
        BY <1>2, <4>3 DEF ShownFields, Fields
      <4>5. overtaken' = overtaken  BY <3>3 DEF Choose
      <4>6. QED  BY <4>2, <4>3, <4>4, <4>5
    <3>4. QED  BY <1>5, <3>1, <3>2, <3>3
  <2>2. ScreensKept /\ Current'
    BY <1>1, <2>1, OneKeeps
  <2>3. QED  BY <1>5, <2>2 DEF SelectCase, AddCases, Choose
<1>6. QED  BY <1>3, <1>4, <1>5

-----------------------------------------------------------------------------
(* Commands, and other clients *)

\* A flow that begins, as none that unlinks and with a known status.
LEMMA Begins ==
    ASSUME NEW f \in Flows, NEW x, flow[f] = Idle, Begin(f, x),
           {"op", "pc"} \subseteq DOMAIN x, x.op # "unlink",
           x.op = "status" => "to" \in DOMAIN x /\ x.to \in Status,
           audit' = audit \/ \E w : w # "unlinked" /\ audit' = audit \cup {<<f, w>>}
    PROVE  Plain(f, x)
<1>1. flow[f].op # "unlink" /\ Pending(flow[f])  BY DEF Idle, Pending
<1>2. QED  BY <1>1 DEF Plain, Begin, Formed

LEMMA PastFormed ==
    /\ {"op", "pc"} \subseteq DOMAIN Past /\ Past.op = "none" /\ Past.pc = "done"
BY DEF Past

LEMMA CommandSteps ==
    ASSUME Shape, Current, NEW f \in Flows, NEW b,
           \/ SetResult(b, f) \/ CreateDefect(b, f) \/ LinkDefect(b, f)
           \/ SealToggle(b, f) \/ DeleteRun(b, f) \/ EditRun(b, f)
           \/ CreateRun(b, f) \/ Sync(f)
    PROVE  ScreensKept /\ Current' /\ UNCHANGED link /\ \E x : Plain(f, x)
<1>1. PICK s : s = screen[b]  OBVIOUS
<1>2. b \in Browsers => Fields \subseteq DOMAIN s  BY <1>1 DEF Shape, ShownFields, Fields
<1>3. UNCHANGED <<screen, overtaken>> => ScreensKept /\ Current'
  BY SameKeeps DEF Shape
<1>4. CASE SetResult(b, f)
  <2>1. PICK r, c, to :
           /\ screen' = [screen EXCEPT ![b] = Recorded(s, r, c, to)]
           /\ Begin(f, Sending(s, r, c, to))
    BY <1>1, <1>4 DEF SetResult
  <2>2. UNCHANGED Server /\ overtaken' = overtaken /\ flow[f] = Idle
    BY <1>4 DEF SetResult
  <2>3. PICK new : new = Recorded(s, r, c, to)  OBVIOUS
  <2>4. b \in Browsers => /\ DOMAIN new = DOMAIN s
                          /\ \A k \in ShownFields : new[k] = s[k]
    <3>1. PICK runs : new = [s EXCEPT !.runs = runs]  BY <2>3 DEF Recorded
    <3>2. QED  BY <1>2, <3>1 DEF ShownFields, Fields
  <2>5. ScreensKept /\ Current'  BY <1>1, <2>1, <2>2, <2>3, <2>4, OneKeeps
  <2>6. PICK x : x = Sending(s, r, c, to)  OBVIOUS
  <2>7. {"op", "pc"} \subseteq DOMAIN x /\ x.op \in {"result", "none"}
    <3>1. CASE x = Past  BY <3>1, PastFormed
    <3>2. CASE x # Past
      <4>1. PICK prev : x = [Call("result", "post", r) EXCEPT
                                !.case = c, !.to = to, !.prev = prev]
        BY <2>6, <3>2 DEF Sending
      <4>2. QED  BY <4>1 DEF Call
    <3>3. QED  BY <3>1, <3>2
  <2>8. Plain(f, x)  BY <2>1, <2>2, <2>6, <2>7, Begins DEF Server
  <2>9. QED  BY <2>2, <2>5, <2>8 DEF Server
<1>5. CASE CreateDefect(b, f)
  <2>1. PICK r, c :
           /\ screen' = [screen EXCEPT ![b] = WithDefect(s, r, c, Temp(f))]
           /\ Begin(f, [Call("defect", "post", r) EXCEPT !.case = c, !.defect = f])
    BY <1>1, <1>5 DEF CreateDefect
  <2>2. UNCHANGED Server /\ overtaken' = overtaken /\ flow[f] = Idle
    BY <1>5 DEF CreateDefect
  <2>3. PICK new : new = WithDefect(s, r, c, Temp(f))  OBVIOUS
  <2>4. b \in Browsers => /\ DOMAIN new = DOMAIN s
                          /\ \A k \in ShownFields : new[k] = s[k]
    <3>1. PICK runs, keys : new = [s EXCEPT !.runs = runs, !.keys = keys]
      BY <2>3 DEF WithDefect
    <3>2. QED  BY <1>2, <3>1 DEF ShownFields, Fields
  <2>5. ScreensKept /\ Current'  BY <1>1, <2>1, <2>2, <2>3, <2>4, OneKeeps
  <2>6. PICK x : x = [Call("defect", "post", r) EXCEPT !.case = c, !.defect = f]
    OBVIOUS
  <2>7. {"op", "pc"} \subseteq DOMAIN x /\ x.op = "defect"  BY <2>6 DEF Call
  <2>8. Plain(f, x)  BY <2>1, <2>2, <2>6, <2>7, Begins DEF Server
  <2>9. QED  BY <2>2, <2>5, <2>8 DEF Server
<1>6. CASE LinkDefect(b, f)
  <2>1. PICK r, c, id :
           /\ screen' = [screen EXCEPT
                           ![b] = IF Mutable(s, r) /\ id \in s.keys
                                  THEN [WithDefect(s, r, c, id) EXCEPT !.chosen = None]
                                  ELSE [s EXCEPT !.chosen = None]]
           /\ Begin(f, [Call("link", FirstCall(s, r, c, id), r) EXCEPT
                           !.case = c, !.defect = id[1], !.ref = KeyOf(id)])
    BY <1>1, <1>6 DEF LinkDefect
  <2>2. UNCHANGED Server /\ overtaken' = overtaken /\ flow[f] = Idle
    BY <1>6 DEF LinkDefect
  <2>3. PICK new : new = IF Mutable(s, r) /\ id \in s.keys
                         THEN [WithDefect(s, r, c, id) EXCEPT !.chosen = None]
                         ELSE [s EXCEPT !.chosen = None]
    OBVIOUS
  <2>4. b \in Browsers => /\ DOMAIN new = DOMAIN s
                          /\ \A k \in ShownFields : new[k] = s[k]
    <3>1. CASE Mutable(s, r) /\ id \in s.keys
      <4>1. PICK runs, keys :
               new = [[s EXCEPT !.runs = runs, !.keys = keys] EXCEPT !.chosen = None]
        BY <2>3, <3>1 DEF WithDefect
      <4>2. QED  BY <1>2, <4>1 DEF ShownFields, Fields
    <3>2. CASE ~(Mutable(s, r) /\ id \in s.keys)
      <4>1. new = [s EXCEPT !.chosen = None]  BY <2>3, <3>2
      <4>2. QED  BY <1>2, <4>1 DEF ShownFields, Fields
    <3>3. QED  BY <3>1, <3>2
  <2>5. ScreensKept /\ Current'  BY <1>1, <2>1, <2>2, <2>3, <2>4, OneKeeps
  <2>6. PICK pc : pc = FirstCall(s, r, c, id)  OBVIOUS
  <2>7. PICK x : x = [Call("link", pc, r) EXCEPT
                         !.case = c, !.defect = id[1], !.ref = KeyOf(id)]
    OBVIOUS
  <2>8. {"op", "pc"} \subseteq DOMAIN x /\ x.op = "link"  BY <2>7 DEF Call
  <2>9. Plain(f, x)  BY <2>1, <2>2, <2>6, <2>7, <2>8, Begins DEF Server
  <2>10. QED  BY <2>2, <2>5, <2>9 DEF Server
<1>7. CASE SealToggle(b, f)
  <2>1. PICK to \in {"active", "sealed"} :
           Begin(f, [Call("status", "post", s.current) EXCEPT !.to = to])
    BY <1>1, <1>7 DEF SealToggle
  <2>2. UNCHANGED <<Server, screen, overtaken>> /\ flow[f] = Idle
    BY <1>7 DEF SealToggle
  <2>3. PICK x : x = [Call("status", "post", s.current) EXCEPT !.to = to]  OBVIOUS
  <2>4. {"op", "pc", "to"} \subseteq DOMAIN x /\ x.op = "status" /\ x.to \in Status
    BY <2>3 DEF Call, Status
  <2>5. Plain(f, x)  BY <2>1, <2>2, <2>3, <2>4, Begins DEF Server
  <2>6. QED  BY <1>3, <2>2, <2>5 DEF Server
<1>8. CASE DeleteRun(b, f)
  <2>1. /\ Begin(f, [Call("status", "post", s.url) EXCEPT !.to = "archived"])
        /\ Pushed(b, [s EXCEPT !.going = None])
        /\ UNCHANGED Server /\ flow[f] = Idle /\ s.url # None
    BY <1>1, <1>8 DEF DeleteRun
  <2>2. PICK new : new = [s EXCEPT !.going = None]  OBVIOUS
  <2>3. None # Absent  BY ScreenAssumption
  <2>4. b \in Browsers => /\ Fields \subseteq DOMAIN new
                          /\ new.going = None /\ new.url = s.url
    BY <1>2, <2>2 DEF ShownFields, Fields
  <2>5. PICK x : x = [Call("status", "post", s.url) EXCEPT !.to = "archived"]  OBVIOUS
  <2>6. {"op", "pc", "to"} \subseteq DOMAIN x /\ x.op = "status" /\ x.to \in Status
    BY <2>5 DEF Call, Status
  <2>7. Plain(f, x)  BY <2>1, <2>5, <2>6, Begins DEF Server
  <2>8. ScreensKept /\ Current'
    BY <1>1, <2>1, <2>2, <2>3, <2>4, PushKeeps
  <2>9. QED  BY <2>1, <2>7, <2>8 DEF Server
<1>9. CASE EditRun(b, f) \/ CreateRun(b, f)
  <2>1. PICK op, r : /\ op \in {"edit", "create"}
                     /\ Begin(f, Call(op, "post", r))
    BY <1>9 DEF EditRun, CreateRun
  <2>2. UNCHANGED <<Server, screen, overtaken>> /\ flow[f] = Idle
    BY <1>9 DEF EditRun, CreateRun
  <2>3. PICK x : x = Call(op, "post", r)  OBVIOUS
  <2>4. {"op", "pc"} \subseteq DOMAIN x /\ x.op \in {"edit", "create"}
    BY <2>1, <2>3 DEF Call
  <2>5. Plain(f, x)  BY <2>1, <2>2, <2>3, <2>4, Begins DEF Server
  <2>6. QED  BY <1>3, <2>2, <2>5 DEF Server
<1>10. CASE Sync(f)
  <2>1. PICK x : x = [op |-> "sync", pc |-> "read",
                      rows |-> None, links |-> None, defects |-> None]
    OBVIOUS
  <2>2. Begin(f, x) /\ UNCHANGED <<Server, screen, overtaken>> /\ flow[f] = Idle
    BY <1>10, <2>1 DEF Sync
  <2>3. {"op", "pc"} \subseteq DOMAIN x /\ x.op = "sync"  BY <2>1
  <2>4. Plain(f, x)  BY <2>2, <2>3, Begins DEF Server
  <2>5. QED  BY <1>3, <2>2, <2>4 DEF Server
<1>11. QED  BY <1>4, <1>5, <1>6, <1>7, <1>8, <1>9, <1>10

-----------------------------------------------------------------------------
(* The server, and answers *)

\* What is logged, but for unlinking.
Logs(f) == audit' = audit \/ \E w : w # "unlinked" /\ audit' = audit \cup {<<f, w>>}

InProgress == {"post", "wait", "link", "answered"}

\* A flow that goes on.
LEMMA GotoPlain ==
    ASSUME Shape, NEW f \in Flows, NEW pc, Goto(f, pc), Logs(f),
           flow[f].op \notin {"none", "unlink"}, pc # "idle",
           flow[f].op \in {"defect", "link"} /\ pc \in InProgress =>
               flow[f].pc \in InProgress
    PROVE  /\ Plain(f, [flow[f] EXCEPT !.pc = pc])
           /\ flow[f].op \in {"defect", "link"} /\ pc \notin InProgress =>
                 ~Pending([flow[f] EXCEPT !.pc = pc])
<1>1. PICK h : h = flow[f]  OBVIOUS
<1>2. Formed(h)  BY <1>1 DEF Shape
<1>3. PICK x : x = [h EXCEPT !.pc = pc]  OBVIOUS
<1>4. /\ DOMAIN x = DOMAIN h /\ x.op = h.op /\ x.pc = pc
      /\ h.op = "status" => x.to = h.to
  BY <1>2, <1>3 DEF Formed
<1>5. Formed(x)  BY <1>1, <1>2, <1>4 DEF Formed
<1>6. x # Idle  BY <1>4 DEF Idle
<1>7. flow' = [flow EXCEPT ![f] = x]  BY <1>1, <1>3 DEF Goto
<1>8. Pending(x) => Pending(h)  BY <1>1, <1>4, <1>6 DEF Pending, InProgress
<1>9. Plain(f, x)  BY <1>1, <1>4, <1>5, <1>7, <1>8 DEF Plain, Logs
<1>10. h.op \in {"defect", "link"} /\ pc \notin InProgress => ~Pending(x)
  BY <1>4, <1>6 DEF Pending, InProgress
<1>11. QED  BY <1>1, <1>3, <1>9, <1>10

\* A flow that ends.
LEMMA PastPlain ==
    ASSUME NEW f \in Flows, Begin(f, Past), Logs(f), flow[f].op # "unlink"
    PROVE  Plain(f, Past) /\ ~Pending(Past)
<1>1. Past # Idle  BY DEF Past, Idle
<1>2. QED  BY <1>1, PastFormed DEF Plain, Begin, Logs, Formed, Pending

LEMMA AnswerPlain ==
    ASSUME Shape, NEW f \in Flows, NEW pc, Answer(f, pc) \/ Failed(f), Logs(f),
           flow[f].op \notin {"none", "unlink"}, pc # "idle",
           flow[f].op \in {"defect", "link"} /\ pc \in InProgress =>
               flow[f].pc \in InProgress
    PROVE  \E x : /\ Plain(f, x)
                  /\ flow[f].op \in {"defect", "link"} /\ pc \notin InProgress => ~Pending(x)
<1>1. CASE Goto(f, pc)  BY <1>1, GotoPlain
<1>2. CASE Failed(f)
  <2>1. CASE flow[f].op \in {"defect", "link"}
    <3>1. Goto(f, "failed") /\ "failed" \notin InProgress
      BY <1>2, <2>1 DEF Failed, InProgress
    <3>2. QED  BY <3>1, GotoPlain
  <2>2. CASE flow[f].op \notin {"defect", "link"}
    <3>1. Begin(f, Past)  BY <1>2, <2>2 DEF Failed
    <3>2. QED  BY <3>1, PastPlain
  <2>3. QED  BY <2>1, <2>2
<1>3. QED  BY <1>1, <1>2 DEF Answer

LEMMA ServerSteps ==
    ASSUME Shape, Current, NEW f \in Flows,
           \/ RecordResult(f) \/ InsertDefect(f) \/ PatchStatus(f) \/ PatchTitle(f)
           \/ InsertRun(f) \/ Fail(f) \/ OtherStatus(f)
    PROVE  ScreensKept /\ Current' /\ UNCHANGED link /\ \E x : Plain(f, x)
<1>1. UNCHANGED <<link, screen, overtaken>>
  BY DEF RecordResult, InsertDefect, PatchStatus, PatchTitle, InsertRun, Fail,
         OtherStatus, Server
<1>2. ScreensKept /\ Current'  BY <1>1, SameKeeps DEF Shape
<1>3. CASE RecordResult(f)
  <2>1. flow[f].op = "result" /\ Logs(f) /\ (Begin(f, Past) \/ Goto(f, "rejected"))
    BY <1>3 DEF RecordResult, At, Logs
  <2>2. QED  BY <1>1, <1>2, <2>1, PastPlain, GotoPlain
<1>4. CASE InsertDefect(f)
  <2>1. /\ flow[f].op = "defect" /\ flow[f].pc \in InProgress
        /\ Answer(f, "answered") /\ audit' = audit \cup {<<f, "created">>}
    BY <1>4 DEF InsertDefect, At, InProgress
  <2>2. Logs(f)  BY <2>1 DEF Logs
  <2>3. QED  BY <1>1, <1>2, <2>1, <2>2, AnswerPlain
<1>5. CASE PatchStatus(f)
  <2>1. flow[f].op = "status" /\ Answer(f, "answered")
    BY <1>5 DEF PatchStatus, At
  <2>2. PICK from, to : /\ to = flow[f].to
                        /\ \/ audit' = audit
                           \/ audit' = audit \cup {<<f, Logged(from, to)>>}
    BY <1>5 DEF PatchStatus
  <2>3. to \in Status  BY <2>1, <2>2 DEF Shape, Formed
  <2>4. Logged(from, to) # "unlinked"  BY <2>3 DEF Logged, Status
  <2>5. Logs(f)  BY <2>2, <2>4 DEF Logs
  <2>6. QED  BY <1>1, <1>2, <2>1, <2>5, AnswerPlain
<1>6. CASE PatchTitle(f)
  <2>1. /\ flow[f].op = "edit" /\ Answer(f, "answered")
        /\ audit' = audit \cup {<<f, "updated">>}
    BY <1>6 DEF PatchTitle, At
  <2>2. Logs(f)  BY <2>1 DEF Logs
  <2>3. QED  BY <1>1, <1>2, <2>1, <2>2, AnswerPlain
<1>7. CASE InsertRun(f)
  <2>1. /\ flow[f].op = "create" /\ Answer(f, "answered")
        /\ audit' = audit \cup {<<f, "created">>}
    BY <1>7 DEF InsertRun, At
  <2>2. Logs(f)  BY <2>1 DEF Logs
  <2>3. QED  BY <1>1, <1>2, <2>1, <2>2, AnswerPlain
<1>8. CASE Fail(f)
  <2>1. /\ flow[f].op \in {"result", "defect", "link", "status", "edit", "create"}
        /\ Logs(f) /\ ((Goto(f, "rejected") /\ flow[f].op = "result") \/ Failed(f))
    BY <1>8 DEF Fail, Logs, Server
  <2>2. CASE Goto(f, "rejected") /\ flow[f].op = "result"
    BY <1>1, <1>2, <2>1, <2>2, GotoPlain
  <2>3. CASE Failed(f)
    <3>1. "failed" \notin InProgress  BY DEF InProgress
    <3>2. \E x : Plain(f, x)  BY <2>1, <2>3, <3>1, AnswerPlain
    <3>3. QED  BY <1>1, <1>2, <3>2
  <2>4. QED  BY <2>1, <2>2, <2>3
<1>9. CASE OtherStatus(f)
  <2>1. PICK r \in Runs, to \in Status : audit' = audit \cup {<<f, Logged(run[r].status, to)>>}
    BY <1>9 DEF OtherStatus
  <2>2. Logged(run[r].status, to) # "unlinked"  BY <2>1 DEF Logged, Status
  <2>3. Logs(f)  BY <2>1, <2>2 DEF Logs
  <2>4. Begin(f, Past) /\ flow[f].op = "none"  BY <1>9 DEF OtherStatus, Idle
  <2>5. QED  BY <1>1, <1>2, <2>3, <2>4, PastPlain
<1>10. QED  BY <1>3, <1>4, <1>5, <1>6, <1>7, <1>8, <1>9

\* The link that is inserted, by a flow that had not inserted one.
LEMMA LinkSteps ==
    ASSUME Shape, Current, NEW f \in Flows, InsertLink(f) \/ OtherLink(f)
    PROVE  /\ ScreensKept /\ Current'
           /\ \E x : Plain(f, x) /\ \E new : Linking(f, x, new)
<1>1. UNCHANGED <<screen, overtaken>>
  BY DEF InsertLink, OtherLink
<1>2. ScreensKept /\ Current'  BY <1>1, SameKeeps DEF Shape
<1>3. audit' = audit \cup {<<f, "linked">>}
  BY DEF InsertLink, OtherLink
<1>4. Logs(f)  BY <1>3 DEF Logs
<1>5. PICK r, c, ref, d :
         link' = [link EXCEPT ![f] = [run |-> r, case |-> c, ref |-> ref, defect |-> d,
                                      unlinkedBy |-> None]]
  <2>1. CASE InsertLink(f)  BY <2>1 DEF InsertLink
  <2>2. CASE OtherLink(f)
    <3>1. PICK r \in Runs : \E c \in CasesOf(run[r]) :
             link' = [link EXCEPT ![f] = [run |-> r, case |-> c, ref |-> <<None, "ref">>,
                                          defect |-> None, unlinkedBy |-> None]]
      BY <2>2 DEF OtherLink
    <3>2. QED  BY <3>1
  <2>3. QED  BY <2>1, <2>2
<1>6. PICK new : new = [run |-> r, case |-> c, ref |-> ref, defect |-> d,
                        unlinkedBy |-> None]
  OBVIOUS
<1>7. /\ link' = [link EXCEPT ![f] = new]
      /\ "unlinkedBy" \in DOMAIN new /\ new.unlinkedBy = None
  BY <1>5, <1>6
<1>8. Pending(flow[f]) /\ \E x : Plain(f, x) /\ ~Pending(x)
  <2>1. CASE InsertLink(f)
    <3>1. /\ flow[f].op \in {"defect", "link"} /\ flow[f].pc = "link"
          /\ Answer(f, "done")
      BY <2>1 DEF InsertLink
    <3>2. "done" \notin InProgress  BY DEF InProgress
    <3>3. Pending(flow[f])  BY <3>1 DEF Pending
    <3>4. QED  BY <1>4, <3>1, <3>2, <3>3, AnswerPlain
  <2>2. CASE OtherLink(f)
    <3>1. flow[f] = Idle /\ Begin(f, Past)  BY <2>2 DEF OtherLink
    <3>2. Pending(flow[f]) /\ flow[f].op = "none"  BY <3>1 DEF Pending, Idle
    <3>3. QED  BY <1>4, <3>1, <3>2, PastPlain
  <2>3. QED  BY <2>1, <2>2
<1>9. QED  BY <1>2, <1>7, <1>8 DEF Linking

LEMMA AnswerSteps ==
    ASSUME Shape, Current, NEW f \in Flows,
           \/ Rollback(f) \/ Reconcile(f) \/ Awaited(f)
           \/ ConfirmStatus(f) \/ ConfirmEdit(f) \/ ConfirmCreate(f)
           \/ ReadRuns(f) \/ ReadLinks(f) \/ ReadDefects(f) \/ ConfirmSync(f)
    PROVE  ScreensKept /\ Current' /\ UNCHANGED link /\ \E x : Plain(f, x)
<1>1. UNCHANGED Server
  BY DEF Rollback, Reconcile, Awaited, ConfirmStatus, ConfirmEdit, ConfirmCreate,
         ReadRuns, ReadLinks, ReadDefects, ConfirmSync
<1>2. UNCHANGED link /\ Logs(f)  BY <1>1 DEF Server, Logs
<1>3. PICK b : b = Owner[f]  OBVIOUS
<1>4. PICK s : s = screen[b]  OBVIOUS
<1>5. b \in Browsers => Fields \subseteq DOMAIN s  BY <1>4 DEF Shape, ShownFields, Fields
<1>6. UNCHANGED <<screen, overtaken>> => ScreensKept /\ Current'
  BY SameKeeps DEF Shape
<1>7. CASE Rollback(f)
  <2>1. flow[f].op = "result" /\ Begin(f, Past) /\ overtaken' = overtaken
    BY <1>7 DEF Rollback, At
  <2>2. \E x : Plain(f, x)  BY <1>2, <2>1, PastPlain
  <2>3. CASE screen' = screen  BY <1>2, <1>6, <2>1, <2>2, <2>3
  <2>4. CASE screen' # screen
    <3>1. PICK r, c, prev : screen' = [screen EXCEPT ![b].runs[r].exec[c] = prev]
      BY <1>3, <1>7, <2>4 DEF Rollback
    <3>2. PICK runs : screen' = [screen EXCEPT ![b] = [s EXCEPT !.runs = runs]]
      BY <1>4, <3>1
    <3>3. PICK new : new = [s EXCEPT !.runs = runs]  OBVIOUS
    <3>4. b \in Browsers => /\ DOMAIN new = DOMAIN s
                            /\ \A k \in ShownFields : new[k] = s[k]
      BY <1>5, <3>3 DEF ShownFields, Fields
    <3>5. ScreensKept /\ Current'
      BY <1>4, <2>1, <3>2, <3>3, <3>4, OneKeeps
    <3>6. QED  BY <1>2, <2>2, <3>5
  <2>5. QED  BY <2>3, <2>4
<1>8. CASE Reconcile(f)
  <2>1. flow[f].op = "defect" /\ flow[f].pc = "answered" /\ overtaken' = overtaken
    BY <1>8 DEF Reconcile, At
  <2>2. PICK h : h = flow[f]  OBVIOUS
  <2>3. PICK ref, pc : /\ flow' = [flow EXCEPT ![f] = [h EXCEPT !.ref = ref, !.pc = pc]]
                       /\ pc \in {"link", "unsent"}
    BY <1>8, <2>2 DEF Reconcile, Begin, LinkIf
  <2>4. PICK x : x = [h EXCEPT !.ref = ref, !.pc = pc]  OBVIOUS
  <2>5. Formed(h)  BY <2>2 DEF Shape
  <2>6. {"op", "pc"} \subseteq DOMAIN x /\ x.op = "defect" /\ x.pc = pc
    BY <2>1, <2>2, <2>4, <2>5 DEF Formed
  <2>7. Pending(h)  BY <2>1, <2>2 DEF Pending
  <2>8. Plain(f, x)
    BY <1>2, <2>1, <2>2, <2>3, <2>4, <2>6, <2>7 DEF Plain, Formed, Logs
  <2>9. PICK runs, keys :
           screen' = [screen EXCEPT ![b] = [s EXCEPT !.keys = keys, !.runs = runs]]
    <3>1. screen' = [screen EXCEPT ![b] = Reconciled(s, f)]
      BY <1>3, <1>4, <1>8 DEF Reconcile
    <3>2. QED  BY <3>1 DEF Reconciled
  <2>10. PICK new : new = [s EXCEPT !.keys = keys, !.runs = runs]  OBVIOUS
  <2>11. b \in Browsers => /\ DOMAIN new = DOMAIN s
                           /\ \A k \in ShownFields : new[k] = s[k]
    BY <1>5, <2>10 DEF ShownFields, Fields
  <2>12. ScreensKept /\ Current'
    BY <1>4, <2>1, <2>9, <2>10, <2>11, OneKeeps
  <2>13. QED  BY <1>2, <2>8, <2>12
<1>9. CASE Awaited(f)
  <2>1. PICK pc \in {"failed", "link", "unsent"} : Goto(f, pc)
    BY <1>9 DEF Awaited, LinkIf
  <2>2. /\ flow[f].op = "link" /\ flow[f].pc \in InProgress
        /\ UNCHANGED <<screen, overtaken>>
    BY <1>9 DEF Awaited, At, InProgress
  <2>3. QED  BY <1>2, <1>6, <2>1, <2>2, GotoPlain
<1>10. CASE ConfirmStatus(f)
  <2>1. flow[f].op = "status" /\ Begin(f, Past)  BY <1>10 DEF ConfirmStatus, At
  <2>2. \E x : Plain(f, x)  BY <1>2, <2>1, PastPlain
  <2>3. PICK r : r = flow[f].run  OBVIOUS
  <2>4. \/ UNCHANGED <<screen, overtaken>>
        \/ Show(b, WithoutRun(s, r))
        \/ \E v : Show(b, [s EXCEPT !.runs[r].sealed = v])
    BY <1>3, <1>4, <1>10, <2>3, Zenon DEF ConfirmStatus
  <2>5. CASE Show(b, WithoutRun(s, r))
    <3>1. PICK new : new = WithoutRun(s, r)  OBVIOUS
    <3>2. b \in Browsers =>
             /\ Fields \subseteq DOMAIN new
             /\ new.url = s.url /\ new.going = s.going
             /\ new.current = s.current \/ s.current = r
             /\ r \notin Visible(new)
      <4>1. ASSUME b \in Browsers
            PROVE  /\ Fields \subseteq DOMAIN new
                   /\ new.url = s.url /\ new.going = s.going
                   /\ new.current = s.current \/ s.current = r
        BY <1>5, <3>1, <4>1 DEF WithoutRun, ShownFields, Fields
      <4>2. ASSUME b \in Browsers  PROVE r \notin Visible(new)
        <5>1. PICK runs : runs = [q \in Runs |-> IF q = r THEN None ELSE s.runs[q]]
          OBVIOUS
        <5>2. PICK current : new = [s EXCEPT !.runs = runs, !.current = current]
          BY <3>1, <5>1 DEF WithoutRun
        <5>3. new.runs = runs  BY <1>5, <4>2, <5>2 DEF Fields
        <5>4. QED  BY <5>1, <5>3 DEF Visible
      <4>3. QED  BY <4>1, <4>2
    <3>3. b \in Browsers /\ new.url \in Visible(new) /\ new.url = screen[b].url =>
              CurrentAt(new, b \in overtaken)
      BY <1>4, <3>2 DEF Current, CurrentAt
    <3>4. Show(b, new)  BY <2>5, <3>1
    <3>5. ScreensKept /\ Current'  BY <1>4, <3>2, <3>3, <3>4, ShowKeeps
    <3>6. QED  BY <1>2, <2>2, <3>5
  <2>6. CASE \E v : Show(b, [s EXCEPT !.runs[r].sealed = v])
    <3>1. PICK v : Show(b, [s EXCEPT !.runs[r].sealed = v])  BY <2>6
    <3>2. PICK new : new = [s EXCEPT !.runs[r].sealed = v]  OBVIOUS
    <3>3. b \in Browsers =>
             /\ Fields \subseteq DOMAIN new
             /\ new.url = s.url /\ new.going = s.going /\ new.current = s.current
      BY <1>5, <3>2 DEF ShownFields, Fields
    <3>4. b \in Browsers /\ new.url = screen[b].url => CurrentAt(new, b \in overtaken)
      BY <1>4, <3>3 DEF Current, CurrentAt
    <3>5. Show(b, new)  BY <3>1, <3>2
    <3>6. ScreensKept /\ Current'  BY <1>4, <3>3, <3>4, <3>5, ShowKeeps
    <3>7. QED  BY <1>2, <2>2, <3>6
  <2>7. QED  BY <1>2, <1>6, <2>2, <2>4, <2>5, <2>6
<1>11. CASE ConfirmEdit(f)
  <2>1. flow[f].op = "edit" /\ Begin(f, Past) /\ overtaken' = overtaken
    BY <1>11 DEF ConfirmEdit, At
  <2>2. \E x : Plain(f, x)  BY <1>2, <2>1, PastPlain
  <2>3. CASE screen' = screen  BY <1>2, <1>6, <2>1, <2>2, <2>3
  <2>4. CASE screen' # screen
    <3>1. PICK r : screen' = [screen EXCEPT ![b].runs[r].title = f]
      BY <1>3, <1>11, <2>4 DEF ConfirmEdit
    <3>2. PICK runs : screen' = [screen EXCEPT ![b] = [s EXCEPT !.runs = runs]]
      BY <1>4, <3>1
    <3>3. PICK new : new = [s EXCEPT !.runs = runs]  OBVIOUS
    <3>4. b \in Browsers => /\ DOMAIN new = DOMAIN s
                            /\ \A k \in ShownFields : new[k] = s[k]
      BY <1>5, <3>3 DEF ShownFields, Fields
    <3>5. ScreensKept /\ Current'
      BY <1>4, <2>1, <3>2, <3>3, <3>4, OneKeeps
    <3>6. QED  BY <1>2, <2>2, <3>5
  <2>5. QED  BY <2>3, <2>4
<1>12. CASE ConfirmCreate(f)
  <2>1. flow[f].op = "create" /\ Begin(f, Past)  BY <1>12 DEF ConfirmCreate, At
  <2>2. \E x : Plain(f, x)  BY <1>2, <2>1, PastPlain
  <2>3. PICK new : new = [WithRun(s, f) EXCEPT !.going = f]  OBVIOUS
  <2>4. Pushed(b, new)  BY <1>3, <1>4, <1>12, <2>3 DEF ConfirmCreate
  <2>5. b \in Browsers =>
           /\ Fields \subseteq DOMAIN new
           /\ new.going = f /\ new.current = f
    <3>1. PICK there, cases :
             WithRun(s, f) = [s EXCEPT !.runs[f] = there, !.mapped[f] = cases,
                                       !.current = f]
      BY DEF WithRun
    <3>2. QED  BY <1>5, <2>3, <3>1 DEF ShownFields, Fields
  <2>6. f # Absent  BY ScreenAssumption DEF Runs
  <2>7. ScreensKept /\ Current'
    BY <1>4, <2>4, <2>5, <2>6, PushKeeps
  <2>8. QED  BY <1>2, <2>2, <2>7
<1>13. CASE ReadRuns(f) \/ ReadLinks(f) \/ ReadDefects(f)
  <2>1. UNCHANGED <<screen, overtaken>> /\ flow[f].op = "sync"
    BY <1>13 DEF ReadRuns, ReadLinks, ReadDefects, Reading, At
  <2>2. PICK h : h = flow[f]  OBVIOUS
  <2>3. Formed(h)  BY <2>2 DEF Shape
  <2>4. PICK x : /\ flow' = [flow EXCEPT ![f] = x]
                 /\ DOMAIN x = DOMAIN h /\ x.op = h.op
    <3>1. CASE ReadRuns(f)
      <4>1. PICK x : x = [h EXCEPT !.rows = run]  OBVIOUS
      <4>2. DOMAIN x = DOMAIN h /\ x.op = h.op  BY <2>3, <4>1 DEF Formed
      <4>3. flow' = [flow EXCEPT ![f] = x]  BY <2>2, <3>1, <4>1 DEF ReadRuns
      <4>4. QED  BY <4>2, <4>3
    <3>2. CASE ReadLinks(f)
      <4>1. PICK found :
               flow' = [flow EXCEPT ![f].links = found]
        BY <3>2 DEF ReadLinks
      <4>2. PICK x : x = [h EXCEPT !.links = found]  OBVIOUS
      <4>3. DOMAIN x = DOMAIN h /\ x.op = h.op  BY <2>3, <4>2 DEF Formed
      <4>4. flow' = [flow EXCEPT ![f] = x]  BY <2>2, <4>1, <4>2
      <4>5. QED  BY <4>3, <4>4
    <3>3. CASE ReadDefects(f)
      <4>1. PICK x : x = [h EXCEPT !.defects = defect]  OBVIOUS
      <4>2. DOMAIN x = DOMAIN h /\ x.op = h.op  BY <2>3, <4>1 DEF Formed
      <4>3. flow' = [flow EXCEPT ![f] = x]  BY <2>2, <3>3, <4>1 DEF ReadDefects
      <4>4. QED  BY <4>2, <4>3
    <3>4. QED  BY <1>13, <3>1, <3>2, <3>3
  <2>5. x.op = "sync" /\ Formed(x)  BY <2>1, <2>2, <2>3, <2>4 DEF Formed
  <2>6. ~Pending(x)  BY <2>5 DEF Pending, Idle
  <2>7. Plain(f, x)  BY <1>2, <2>1, <2>4, <2>5, <2>6 DEF Plain, Logs
  <2>8. QED  BY <1>2, <1>6, <2>1, <2>7
<1>14. CASE ConfirmSync(f)
  <2>1. flow[f].op = "sync" /\ Begin(f, Past)  BY <1>14 DEF ConfirmSync, At
  <2>2. \E x : Plain(f, x)  BY <1>2, <2>1, PastPlain
  <2>3. PICK row : row = flow[f].rows  OBVIOUS
  <2>4. PICK runs, mapped, keys, new :
           /\ \A r \in Runs : row[r] = None => runs[r] = None
           /\ new = [s EXCEPT !.runs = runs, !.mapped = mapped, !.keys = keys,
                       !.current = IF @ # None /\ row[@] = None THEN None ELSE @]
           /\ Show(b, new)
    <3>1. PICK rows, known : Show(b, Synced(s, row, rows, known))
      BY <1>3, <1>4, <1>14, <2>3, Zenon DEF ConfirmSync
    <3>2. PICK runs : runs = [r \in Runs |->
                         IF row[r] = None THEN None
                         ELSE Merged(LocalRun(row[r], r, rows, known), s.runs[r])]
      OBVIOUS
    <3>3. \A r \in Runs : row[r] = None => runs[r] = None  BY <3>2
    <3>4. PICK mapped, keys :
             Synced(s, row, rows, known) =
                 [s EXCEPT !.runs = runs, !.mapped = mapped, !.keys = keys,
                       !.current = IF @ # None /\ row[@] = None THEN None ELSE @]
      BY <3>2 DEF Synced
    <3>5. PICK new : new = [s EXCEPT !.runs = runs, !.mapped = mapped, !.keys = keys,
                              !.current = IF @ # None /\ row[@] = None THEN None ELSE @]
      OBVIOUS
    <3>6. Show(b, new)  BY <3>1, <3>4, <3>5
    <3>7. QED  BY <3>3, <3>5, <3>6
  <2>5. b \in Browsers =>
           /\ Fields \subseteq DOMAIN new
           /\ new.url = s.url /\ new.going = s.going /\ new.runs = runs
           /\ new.current = IF s.current # None /\ row[s.current] = None
                            THEN None ELSE s.current
    BY <1>5, <2>4 DEF Fields
  <2>6. ASSUME b \in Browsers, new.url \in Visible(new), new.url = screen[b].url
        PROVE  CurrentAt(new, b \in overtaken)
    <3>1. new.url \in Runs /\ row[new.url] # None  BY <2>4, <2>5, <2>6 DEF Visible
    <3>2. CurrentAt(s, b \in overtaken)  BY <1>4, <2>6 DEF Current
    <3>3. QED  BY <1>4, <2>5, <2>6, <3>1, <3>2 DEF CurrentAt
  <2>7. ScreensKept /\ Current'  BY <1>4, <2>4, <2>5, <2>6, ShowKeeps
  <2>8. QED  BY <1>2, <2>2, <2>7
<1>15. QED
  BY <1>7, <1>8, <1>9, <1>10, <1>11, <1>12, <1>13, <1>14

-----------------------------------------------------------------------------
(* Unlinking *)

LEMMA UnlinkSteps ==
    ASSUME Sound, ScreensKept, NEW f \in Flows,
           Unlink(f) \/ UnlinkRow(f) \/ UnlinkAudit(f)
    PROVE  Sound'
<1> USE DEF Sound
<1>1. f # None  BY ScreenAssumption DEF Runs
<1>2. PICK x : /\ flow' = [flow EXCEPT ![f] = x]
               /\ Formed(x) /\ x.op = "unlink" /\ ~Pending(x)
               /\ \/ /\ Unlink(f) /\ x.pc = "update" /\ link[x.link] # None
                  \/ /\ UnlinkRow(f) /\ x.pc \in {"audit", "unaudited"}
                     /\ flow[f].op = "unlink" /\ x.link = flow[f].link
                  \/ /\ UnlinkAudit(f) /\ x.pc = "done"
                     /\ flow[f].op = "unlink" /\ x.link = flow[f].link
  <2>1. CASE Unlink(f)
    <3>1. PICK l \in Links :
             /\ link[l] # None
             /\ Begin(f, [op |-> "unlink", pc |-> "update", link |-> l])
      BY <2>1 DEF Unlink
    <3>2. PICK x : x = [op |-> "unlink", pc |-> "update", link |-> l]  OBVIOUS
    <3>3. Formed(x) /\ x.op = "unlink" /\ x.pc = "update" /\ x.link = l
      BY <3>2 DEF Formed
    <3>4. ~Pending(x)  BY <3>3 DEF Pending, Idle
    <3>5. flow' = [flow EXCEPT ![f] = x]  BY <3>1, <3>2 DEF Begin
    <3>6. QED  BY <2>1, <3>1, <3>3, <3>4, <3>5
  <2>2. ASSUME NEW pc \in {"audit", "unaudited", "done"}, At(f, "unlink", "update")
                  \/ At(f, "unlink", "audit"), Goto(f, pc)
        PROVE  \E x : /\ flow' = [flow EXCEPT ![f] = x]
                      /\ Formed(x) /\ x.op = "unlink" /\ ~Pending(x) /\ x.pc = pc
                      /\ flow[f].op = "unlink" /\ x.link = flow[f].link
    <3>1. PICK h : h = flow[f]  OBVIOUS
    <3>2. Formed(h) /\ h.op = "unlink"  BY <2>2, <3>1 DEF Shape, At
    <3>3. PICK x : x = [h EXCEPT !.pc = pc]  OBVIOUS
    <3>4. /\ DOMAIN x = DOMAIN h /\ x.op = "unlink" /\ x.pc = pc
          /\ x.link = h.link
      BY <3>2, <3>3 DEF Formed
    <3>5. Formed(x)  BY <2>2, <3>2, <3>4 DEF Formed
    <3>6. ~Pending(x)  BY <3>4 DEF Pending, Idle
    <3>7. flow' = [flow EXCEPT ![f] = x]  BY <2>2, <3>1, <3>3 DEF Goto
    <3>8. QED  BY <3>1, <3>2, <3>4, <3>5, <3>6, <3>7
  <2>3. CASE UnlinkRow(f)
    <3>1. /\ At(f, "unlink", "update")
          /\ \E pc \in {"audit", "unaudited"} : Goto(f, pc)
      BY <2>3 DEF UnlinkRow
    <3>2. QED  BY <2>2, <2>3, <3>1
  <2>4. CASE UnlinkAudit(f)
    <3>1. At(f, "unlink", "audit") /\ Goto(f, "done")  BY <2>4 DEF UnlinkAudit
    <3>2. QED  BY <2>2, <2>4, <3>1
  <2>5. QED  BY <2>1, <2>3, <2>4
<1>3. /\ DOMAIN flow' = Flows /\ flow'[f] = x
      /\ \A g \in Flows \ {f} : flow'[g] = flow[g]
  BY <1>2 DEF Shape
<1>4. x.link \in Links  BY <1>2 DEF Formed
<1>5. \A g \in Flows : Pending(flow'[g]) => g # f /\ Pending(flow[g])
  BY <1>2, <1>3
\* The link unlinked has been made, by a flow that is not pending.
<1>6. /\ "unlinkedBy" \in DOMAIN link[x.link]
      /\ x.link \in Flows => ~Pending(flow[x.link])
  <2>1. CASE Unlink(f) /\ link[x.link] # None
    BY <1>4, <2>1 DEF Shape, MadeOnce
  <2>2. CASE flow[f].op = "unlink" /\ x.link = flow[f].link
    BY <2>2 DEF MadeOnce
  <2>3. QED  BY <1>2, <2>1, <2>2
<1>7. /\ DOMAIN link' = Links
      /\ \A l \in Links : l # x.link \/ ~UnlinkRow(f) => link'[l] = link[l]
      /\ "unlinkedBy" \in DOMAIN link'[x.link]
      /\ UnlinkRow(f) => link'[x.link].unlinkedBy = f
  <2>1. CASE UnlinkRow(f)
    <3>1. flow[f].op = "unlink" /\ x.link = flow[f].link
      BY <1>2, <2>1 DEF Unlink, UnlinkRow, UnlinkAudit, At, Idle
    <3>2. link' = [link EXCEPT ![x.link].unlinkedBy = f]
      BY <2>1, <3>1 DEF UnlinkRow
    <3>3. PICK old : old = link[x.link]  OBVIOUS
    <3>4. PICK new : new = [old EXCEPT !.unlinkedBy = f]  OBVIOUS
    <3>5. link' = [link EXCEPT ![x.link] = new]  BY <3>2, <3>3, <3>4
    <3>6. DOMAIN new = DOMAIN old /\ new.unlinkedBy = f
      BY <1>6, <3>3, <3>4
    <3>7. QED  BY <1>4, <1>6, <2>1, <3>3, <3>5, <3>6 DEF Shape
  <2>2. CASE ~UnlinkRow(f)
    <3>1. link' = link  BY <2>2 DEF Unlink, UnlinkAudit, Server
    <3>2. QED  BY <1>6, <2>2, <3>1 DEF Shape
  <2>3. QED  BY <2>1, <2>2
<1>8. Shape'
  <2>1. \A g \in Flows : Formed(flow'[g])  BY <1>2, <1>3 DEF Shape
  <2>2. \A l \in Links : link'[l] # None => "unlinkedBy" \in DOMAIN link'[l]
    BY <1>7 DEF Shape
  <2>3. QED  BY <1>3, <1>7, <2>1, <2>2 DEF Shape, ScreensKept, Formed
<1>9. MadeOnce'
  <2>1. ASSUME NEW g \in Flows, Pending(flow'[g])  PROVE link'[g] = None
    <3>1. g \in Links /\ link[g] = None  BY <1>5, <2>1 DEF MadeOnce, Links
    <3>2. g # x.link  BY <1>5, <1>6, <2>1
    <3>3. QED  BY <1>7, <3>1, <3>2
  <2>2. ASSUME NEW g \in Flows, flow'[g].op = "unlink"
        PROVE  /\ "unlinkedBy" \in DOMAIN link'[flow'[g].link]
               /\ flow'[g].link \in Flows => ~Pending(flow'[flow'[g].link])
    <3>1. CASE g = f  BY <1>3, <1>5, <1>6, <1>7, <3>1
    <3>2. CASE g # f
      <4>1. flow'[g] = flow[g] /\ flow[g].op = "unlink"  BY <1>3, <2>2, <3>2
      <4>2. flow[g].link \in Links  BY <4>1 DEF Shape, Formed
      <4>3. "unlinkedBy" \in DOMAIN link'[flow[g].link]
        BY <1>7, <4>1, <4>2 DEF MadeOnce
      <4>4. QED  BY <1>5, <4>1, <4>3 DEF MadeOnce
    <3>3. QED  BY <3>1, <3>2
  <2>3. QED  BY <2>1, <2>2 DEF MadeOnce, Pending
<1>10. ByUnlinking'
  <2>1. \A g \in Flows : <<g, "unlinked">> \in audit' <=>
            <<g, "unlinked">> \in audit \/ (g = f /\ UnlinkAudit(f))
    BY DEF Unlink, UnlinkRow, UnlinkAudit, Server, At, Idle
  <2>2. \A g \in Flows : <<g, "unlinked">> \in audit => g # f
    BY <1>2 DEF ByUnlinking, Unlink, UnlinkRow, UnlinkAudit, At, Idle
  <2>3. ASSUME NEW l \in Links, link'[l] # None, link'[l].unlinkedBy # None
        PROVE  LET g == link'[l].unlinkedBy
               IN /\ g \in Flows /\ flow'[g].op = "unlink"
                  /\ \/ <<g, "unlinked">> \in audit'
                     \/ flow'[g].pc \in {"audit", "unaudited"}
    <3>1. CASE l = x.link /\ UnlinkRow(f)
      <4>1. x.pc \in {"audit", "unaudited"}
        BY <1>2, <3>1 DEF Unlink, UnlinkRow, UnlinkAudit, At, Idle
      <4>2. QED  BY <1>2, <1>3, <1>7, <3>1, <4>1
    <3>2. CASE ~(l = x.link /\ UnlinkRow(f))
      <4>1. link'[l] = link[l]  BY <1>7, <3>2
      <4>2. PICK g : g = link[l].unlinkedBy  OBVIOUS
      <4>3. /\ g \in Flows /\ flow[g].op = "unlink"
            /\ <<g, "unlinked">> \in audit \/ flow[g].pc \in {"audit", "unaudited"}
        BY <2>3, <4>1, <4>2 DEF ByUnlinking
      <4>4. CASE g # f  BY <1>3, <2>1, <4>1, <4>2, <4>3, <4>4
      <4>5. CASE g = f
        <5>1. x.pc \in {"audit", "unaudited"} \/ UnlinkAudit(f)
          BY <1>2, <4>3, <4>5 DEF Unlink, Idle
        <5>2. QED  BY <1>2, <1>3, <2>1, <4>1, <4>2, <4>5, <5>1
      <4>6. QED  BY <4>4, <4>5
    <3>3. QED  BY <3>1, <3>2
  <2>4. ASSUME NEW g \in Flows, <<g, "unlinked">> \in audit'
        PROVE  flow'[g].op = "unlink" /\ flow'[g].pc = "done"
    <3>1. CASE <<g, "unlinked">> \in audit
      BY <1>3, <2>2, <3>1 DEF ByUnlinking
    <3>2. CASE g = f /\ UnlinkAudit(f)
      <4>1. x.pc = "done"  BY <1>2, <3>2 DEF Unlink, UnlinkRow, UnlinkAudit, At, Idle
      <4>2. QED  BY <1>2, <1>3, <3>2, <4>1
    <3>3. QED  BY <2>1, <2>4, <3>1, <3>2
  <2>5. ASSUME NEW g \in Flows, flow'[g].op = "unlink", flow'[g].pc # "update"
        PROVE  link'[flow'[g].link].unlinkedBy # None
    <3>1. CASE g # f
      <4>1. flow'[g] = flow[g] /\ flow[g].op = "unlink"  BY <1>3, <2>5, <3>1
      <4>2. flow[g].link \in Links /\ link[flow[g].link].unlinkedBy # None
        BY <2>5, <4>1 DEF Shape, Formed, ByUnlinking
      <4>3. QED  BY <1>1, <1>7, <4>1, <4>2
    <3>2. CASE g = f /\ UnlinkRow(f)  BY <1>1, <1>3, <1>7, <3>2
    <3>3. CASE g = f /\ ~UnlinkRow(f)
      <4>1. UnlinkAudit(f) /\ x.link = flow[f].link /\ flow[f].op = "unlink"
        BY <1>2, <1>3, <2>5, <3>3
      <4>2. flow[f].pc # "update"  BY <4>1 DEF UnlinkAudit, At
      <4>3. link[x.link].unlinkedBy # None  BY <4>1, <4>2 DEF ByUnlinking
      <4>4. QED  BY <1>3, <1>4, <1>7, <3>3, <4>3
    <3>4. QED  BY <3>1, <3>2, <3>3
  <2>6. QED  BY <2>3, <2>4, <2>5 DEF ByUnlinking
<1>11. QED  BY <1>8, <1>9, <1>10

-----------------------------------------------------------------------------
(* Every step *)

LEMMA InitInv == Init => Sound /\ Current
<1> SUFFICES ASSUME Init  PROVE Sound /\ Current
  OBVIOUS
<1>1. PICK r \in SeedRuns :
         screen = [b \in Browsers |->
             [url |-> r, going |-> Absent, current |-> r,
              active |-> First(RunCases[r]), chosen |-> None,
              runs |-> [q \in Runs |-> IF q \in SeedRuns
                                       THEN LocalRun(run[q], q, link, SeedDefects)
                                       ELSE None],
              keys |-> {Real(d) : d \in SeedDefects},
              mapped |-> [q \in Runs |-> IF q \in SeedRuns THEN RunCases[q] ELSE {}]]]
  BY Zenon DEF Init
<1>2. /\ DOMAIN screen = Browsers
      /\ \A b \in Browsers : /\ Fields \subseteq DOMAIN screen[b]
                             /\ screen[b].url = r /\ screen[b].current = r
  BY <1>1 DEF Fields
<1>3. DOMAIN flow = Flows /\ \A f \in Flows : flow[f] = Idle  BY DEF Init
<1>4. Formed(Idle) /\ Pending(Idle) /\ Idle.op = "none"  BY DEF Formed, Pending, Idle
<1>5. /\ DOMAIN link = Links
      /\ \A l \in Links : link[l] = IF l \in SeedDefects THEN SeedLink(l) ELSE None
  BY DEF Init
<1>6. \A d : "unlinkedBy" \in DOMAIN SeedLink(d) /\ SeedLink(d).unlinkedBy = None
  BY DEF SeedLink
<1>7. Shape  BY <1>2, <1>3, <1>4, <1>5, <1>6 DEF Shape
<1>8. MadeOnce
  <2>1. \A f \in Flows : link[f] = None  BY <1>5, ScreenAssumption DEF Links
  <2>2. QED  BY <1>3, <1>4, <2>1 DEF MadeOnce
<1>9. ByUnlinking
  <2>1. \A l \in Links : link[l] # None => link[l].unlinkedBy = None
    BY <1>5, <1>6
  <2>2. audit = {}  BY DEF Init
  <2>3. QED  BY <1>3, <1>4, <2>1, <2>2 DEF ByUnlinking
<1>10. Current  BY <1>2 DEF Current, CurrentAt
<1>11. QED  BY <1>7, <1>8, <1>9, <1>10 DEF Sound

LEMMA NextInv == Sound /\ Current /\ [Next]_vars => Sound' /\ Current'
<1> SUFFICES ASSUME Sound, Current, [Next]_vars  PROVE Sound' /\ Current'
  OBVIOUS
<1>1. Shape  BY DEF Sound
<1>2. UNCHANGED <<screen, overtaken>> => ScreensKept /\ Current'
  BY <1>1, SameKeeps DEF Shape
<1>3. ASSUME UNCHANGED <<link, flow, audit>>, ScreensKept  PROVE Sound'
  BY <1>3 DEF Sound, Shape, MadeOnce, ByUnlinking, ScreensKept, Pending, Formed
<1>4. ASSUME NEW b \in Browsers,
             SelectRun(b) \/ Arrive(b) \/ SelectCase(b) \/ AddCases(b) \/ Choose(b)
      PROVE  Sound' /\ Current'
  <2>1. UNCHANGED <<Server, flow>> /\ ScreensKept /\ Current'
    BY <1>1, <1>4, BrowserSteps
  <2>2. QED  BY <1>3, <2>1 DEF Server
<1>5. ASSUME NEW f \in Flows, NEW b,
             \/ SetResult(b, f) \/ CreateDefect(b, f) \/ LinkDefect(b, f)
             \/ SealToggle(b, f) \/ DeleteRun(b, f) \/ EditRun(b, f)
             \/ CreateRun(b, f) \/ Sync(f)
      PROVE  Sound' /\ Current'
  BY <1>1, <1>5, CommandSteps, PlainSound
<1>6. ASSUME NEW f \in Flows,
             \/ RecordResult(f) \/ InsertDefect(f) \/ PatchStatus(f) \/ PatchTitle(f)
             \/ InsertRun(f) \/ Fail(f) \/ OtherStatus(f)
      PROVE  Sound' /\ Current'
  BY <1>1, <1>6, ServerSteps, PlainSound
<1>7. ASSUME NEW f \in Flows, InsertLink(f) \/ OtherLink(f)
      PROVE  Sound' /\ Current'
  BY <1>1, <1>7, LinkSteps, PlainSound
<1>8. ASSUME NEW f \in Flows,
             \/ Rollback(f) \/ Reconcile(f) \/ Awaited(f)
             \/ ConfirmStatus(f) \/ ConfirmEdit(f) \/ ConfirmCreate(f)
             \/ ReadRuns(f) \/ ReadLinks(f) \/ ReadDefects(f) \/ ConfirmSync(f)
      PROVE  Sound' /\ Current'
  BY <1>1, <1>8, AnswerSteps, PlainSound
<1>9. ASSUME NEW f \in Flows, Unlink(f) \/ UnlinkRow(f) \/ UnlinkAudit(f)
      PROVE  Sound' /\ Current'
  <2>1. UNCHANGED <<screen, overtaken>>
    BY <1>9 DEF Unlink, UnlinkRow, UnlinkAudit
  <2>2. QED  BY <1>2, <1>9, <2>1, UnlinkSteps
<1>10. CASE UNCHANGED vars  BY <1>2, <1>3, <1>10 DEF vars
<1>11. CASE Next
  BY <1>4, <1>5, <1>6, <1>7, <1>8, <1>9, <1>11 DEF Next
<1>12. QED  BY <1>10, <1>11

LEMMA Invariance == Spec => [](Sound /\ Current)
BY InitInv, NextInv, PTL DEF Spec

\* However many clients unlink the same link at once, each one that has written
\* the row has logged it, or stands, or has stopped, just before
\* (DefectService.ts:454-489).
THEOREM UnlinkingLogged == Spec => []UnlinksAudited
<1>1. Sound => UnlinksAudited
  <2> SUFFICES ASSUME Sound  PROVE UnlinksAudited
    OBVIOUS
  <2>1. ASSUME NEW f \in Flows, <<f, "unlinked">> \in audit
        PROVE  link[flow[f].link].unlinkedBy # None
    BY <2>1 DEF Sound, ByUnlinking
  <2>2. QED  BY <2>1 DEF Sound, ByUnlinking, UnlinksAudited
<1>2. QED  BY <1>1, Invariance, PTL

\* Whatever the browsers, the runs and the commands are, commands go to the run
\* shown while no navigation is under way, unless a click has overtaken one
\* (RunsScreen.tsx:180-182, FreshProvider.tsx:990-1002).
THEOREM ShownStaysCurrent == Spec => []ShownIsCurrent
<1>1. Current => ShownIsCurrent  BY DEF Current, CurrentAt, ShownIsCurrent
<1>2. QED  BY <1>1, Invariance, PTL

-----------------------------------------------------------------------------
(* Types, and the defects shown: what is inductive *)

FlowType == {Idle, Past} \cup Writes \cup Unlinks \cup Syncs

DefectOps == {"defect", "link"}
RunOps == {"result", "defect", "link", "status", "edit"}

\* What flow f, which stands at h, refers to among the rows; and whose it is.
RootedFlow(rows, links, f, h) ==
    /\ h.op \in RunOps \cup {"create", "sync"} => Owner[f] \in Browsers
    /\ h.op \in RunOps => rows[h.run] # None
    /\ h.op = "create" => h.run = f /\ (h.pc = "answered" => rows[f] # None)
    /\ h.op = "result" => h.case \in Cases /\ h.to \in Result /\ h.prev \in Exec
    /\ h.op = "status" => h.to \in Status
    /\ h.op \in DefectOps => h.case \in Cases /\ h.defect \in Defects
    /\ h.op = "defect" => h.defect = f
    /\ h.op = "link" \/ (h.op = "defect" /\ h.pc = "link") =>
          h.ref \in Ref /\ h.ref[1] = h.defect
    /\ h.op = "unlink" => links[h.link] # None
    /\ h.op = "sync" =>
          /\ h.rows # None => \A r \in Runs : h.rows[r] # None => rows[r] # None
          /\ h.links # None => /\ h.rows # None
                               /\ \A l \in h.links : links[l] # None

RootedScreen(rows, s) ==
    /\ s.url # None => s.runs[s.url] # None
    /\ s.current # None => s.runs[s.current] # None
    /\ \A r \in Runs : s.runs[r] # None => rows[r] # None

Rooted ==
    /\ \A f \in Flows : RootedFlow(run, link, f, flow[f])
    /\ \A b \in Browsers : RootedScreen(run, screen[b])

\* What is linked, or is claimed by a command that has not linked it.
Good(b, r, c, name) ==
    \/ \E l \in Links : /\ link[l] # None
                        /\ link[l].run = r /\ link[l].case = c
                        /\ name[1] = link[l].ref[1]
    \/ \E f \in Flows : /\ Owner[f] = b /\ flow[f].op \in DefectOps
                        /\ flow[f].run = r /\ flow[f].case = c
                        /\ flow[f].defect = name[1] /\ flow[f].pc # "done"

\* What a result that is refused will show again.
PrevGood(f) ==
    flow[f].op = "result" =>
        \A name \in flow[f].prev.defects : Good(Owner[f], flow[f].run, flow[f].case, name)

Defensible == (\A f \in Flows : PrevGood(f)) /\ ShownDefectsLinked

LEMMA FlowKinds ==
    ASSUME NEW h \in FlowType
    PROVE  /\ h.op \in RunOps \cup {"create"} => h \in Writes
           /\ h.op \in DefectOps => h \in Writes
           /\ h.op = "unlink" => h \in Unlinks
           /\ h.op = "sync" => h \in Syncs
           /\ h \in Writes => h.op \in RunOps \cup {"create"}
BY DEF FlowType, Idle, Past, Writes, Unlinks, Syncs, RunOps, DefectOps

\* Rows of runs are not deleted, nor are those of links, and these go on linking
\* what they linked.
RowsLast == \A r \in Runs : run[r] # None => run'[r] # None

LinksLast ==
    \A l \in Links : link[l] # None =>
        /\ link'[l] # None /\ link'[l].run = link[l].run
        /\ link'[l].case = link[l].case /\ link'[l].ref = link[l].ref

\* A command goes on claiming a defect until it is linked.
ClaimLasts(g) ==
    flow[g].op \in DefectOps /\ flow[g].pc # "done" =>
        \/ /\ flow'[g].op \in DefectOps /\ flow'[g].run = flow[g].run
           /\ flow'[g].case = flow[g].case /\ flow'[g].defect = flow[g].defect
           /\ flow'[g].pc # "done"
        \/ /\ g \in Links /\ link'[g] # None /\ link'[g].run = flow[g].run
           /\ link'[g].case = flow[g].case /\ link'[g].ref[1] = flow[g].defect

LEMMA GoodLasts ==
    ASSUME LinksLast, \A g \in Flows : ClaimLasts(g),
           NEW b, NEW r, NEW c, NEW name, Good(b, r, c, name)
    PROVE  Good(b, r, c, name)'
BY DEF Good, LinksLast, ClaimLasts

LEMMA RootedLasts ==
    ASSUME RowsLast, LinksLast, NEW f \in Flows, NEW h \in FlowType,
           RootedFlow(run, link, f, h)
    PROVE  RootedFlow(run', link', f, h)
<1>1. h.op \in RunOps \cup {"create"} => h.run \in Runs  BY FlowKinds DEF Writes
<1>2. h.op = "unlink" => h.link \in Links  BY FlowKinds DEF Unlinks
<1>3. h.op = "sync" /\ h.links # None => h.links \subseteq Links
  BY FlowKinds DEF Syncs
<1>4. f \in Runs  BY DEF Runs
<1>5. QED  BY <1>1, <1>2, <1>3, <1>4 DEF RootedFlow, RowsLast, LinksLast, RunOps

\* Screens keep their type and show runs there are, and names that were shown
\* before, or are linked or claimed now.
Showing(s, r, c, name) == s.runs[r] # None /\ name \in s.runs[r].exec[c].defects

ScreensStep ==
    /\ screen' \in [Browsers -> Screen]
    /\ \A b \in Browsers : RootedScreen(run', screen'[b])
    /\ \A b \in Browsers, r \in Runs, c \in Cases : \A name :
          Showing(screen'[b], r, c, name) =>
              Showing(screen[b], r, c, name) \/ Good(b, r, c, name)'

ServerTyped ==
    /\ run' \in [Runs -> {None} \cup RunRow] /\ defect' \subseteq Defects
    /\ link' \in [Links -> {None} \cup LinkRow]
    /\ audit' \subseteq Flows \X {"created", "updated", "sealed", "reopened",
                                  "archived", "linked", "unlinked"}

LEMMA NamesStay ==
    ASSUME Defensible, ScreensStep, LinksLast, \A g \in Flows : ClaimLasts(g)
    PROVE  ShownDefectsLinked'
<1>1. ASSUME NEW b \in Browsers, NEW r \in Runs, NEW c \in Cases, NEW name,
             Showing(screen'[b], r, c, name)
      PROVE  Good(b, r, c, name)'
  <2>1. CASE Showing(screen[b], r, c, name)
    <3>1. Good(b, r, c, name)
      BY <2>1 DEF Defensible, ShownDefectsLinked, Showing, Good, DefectOps
    <3>2. QED  BY <3>1, GoodLasts
  <2>2. QED  BY <1>1, <2>1 DEF ScreensStep
<1>2. QED  BY <1>1 DEF ShownDefectsLinked, Showing, Good, DefectOps

\* One flow has gone on.
LEMMA FlowStep ==
    ASSUME TypeOK, Rooted, Defensible, NEW f \in Flows, NEW x \in FlowType,
           flow' = [flow EXCEPT ![f] = x], ServerTyped, overtaken' \subseteq Browsers,
           RowsLast, LinksLast, ScreensStep, ClaimLasts(f),
           RootedFlow(run', link', f, x), PrevGood(f)'
    PROVE  TypeOK' /\ Rooted' /\ Defensible'
<1>1. /\ flow' \in [Flows -> FlowType] /\ flow'[f] = x
      /\ \A g \in Flows \ {f} : flow'[g] = flow[g]
  BY DEF TypeOK, FlowType
<1>2. TypeOK'  BY <1>1 DEF TypeOK, FlowType, ServerTyped, ScreensStep
<1>3. \A g \in Flows \ {f} : RootedFlow(run', link', g, flow'[g])
  BY <1>1, RootedLasts DEF Rooted, TypeOK, FlowType
<1>4. Rooted'  BY <1>1, <1>3 DEF Rooted, ScreensStep
<1>5. \A g \in Flows : ClaimLasts(g)  BY <1>1 DEF ClaimLasts
<1>6. ASSUME NEW g \in Flows \ {f}  PROVE PrevGood(g)'
  <2>1. PrevGood(g)  BY DEF Defensible
  <2>2. QED  BY <1>1, <1>5, <2>1, GoodLasts DEF PrevGood
<1>7. QED  BY <1>2, <1>4, <1>5, <1>6, NamesStay DEF Defensible

LEMMA SameServer ==
    ASSUME TypeOK, UNCHANGED Server
    PROVE  ServerTyped /\ RowsLast /\ LinksLast
BY DEF TypeOK, Server, ServerTyped, RowsLast, LinksLast

LEMMA SameScreens ==
    ASSUME TypeOK, Rooted, RowsLast, screen' = screen
    PROVE  ScreensStep
BY DEF TypeOK, Rooted, RootedScreen, RowsLast, ScreensStep

LEMMA FirstCase ==
    ASSUME NEW cases \in SUBSET Cases
    PROVE  First(cases) \in Cases \cup {None}
BY DEF First

\* Browser b has new runs, each of which it had, or is there; the names in them
\* it showed, or they are linked or claimed.
NewRuns(b, runs) ==
    /\ \A r \in Runs : runs[r] # None => run'[r] # None
    /\ \A r \in Runs, c \in Cases : \A name :
          runs[r] # None /\ name \in runs[r].exec[c].defects =>
              Showing(screen[b], r, c, name) \/ Good(b, r, c, name)'

LEMMA OneScreen ==
    ASSUME TypeOK, Rooted, RowsLast, NEW b \in Browsers, NEW new \in Screen,
           screen' = [screen EXCEPT ![b] = new], NewRuns(b, new.runs),
           new.url # None => new.runs[new.url] # None,
           new.current # None => new.runs[new.current] # None
    PROVE  ScreensStep
<1>1. /\ screen' \in [Browsers -> Screen] /\ screen'[b] = new
      /\ \A c \in Browsers \ {b} : screen'[c] = screen[c]
  BY DEF TypeOK
<1>2. RootedScreen(run', screen'[b])  BY <1>1 DEF RootedScreen, NewRuns
<1>3. \A c \in Browsers \ {b} : RootedScreen(run', screen'[c])
  BY <1>1 DEF Rooted, RootedScreen, RowsLast
<1>4. QED  BY <1>1, <1>2, <1>3 DEF ScreensStep, NewRuns, Showing

LEMMA ShowTyped ==
    ASSUME TypeOK, Rooted, RowsLast, NEW b \in Browsers, NEW new \in Screen, Show(b, new),
           NewRuns(b, new.runs), new.current # None => new.runs[new.current] # None
    PROVE  ScreensStep /\ overtaken' \subseteq Browsers
<1>1. \A r \in Visible(new) : r \in Runs /\ new.runs[r] # None  BY DEF Visible
<1>2. ASSUME NEW r \in Visible(new) \cup {None}
      PROVE  /\ Landed(new, r) \in Screen /\ Landed(new, r).runs = new.runs
             /\ Landed(new, r).url = r
             /\ Landed(new, r).current # None => new.runs[Landed(new, r).current] # None
  <2>1. CASE r = None
    <3>1. Landed(new, r) = [new EXCEPT !.url = None]  BY <2>1 DEF Landed
    <3>2. QED  BY <2>1, <3>1 DEF Screen
  <2>2. CASE r # None
    <3>1. r \in Runs /\ new.runs[r] # None  BY <1>1, <2>2
    <3>2. new.runs[r] \in DemoRun  BY <3>1 DEF Screen
    <3>3. PICK first \in Cases \cup {None} : first = First(new.runs[r].cases)
      BY <3>2, FirstCase DEF DemoRun
    <3>4. Landed(new, r) = [new EXCEPT !.url = r, !.current = r, !.active = first]
      BY <2>2, <3>3 DEF Landed
    <3>5. QED  BY <2>2, <3>1, <3>4 DEF Screen
  <2>3. QED  BY <2>1, <2>2
<1> DEFINE Reaches(after) ==
             /\ screen' = [screen EXCEPT ![b] = after] /\ after.runs = new.runs
             /\ after.url # None => new.runs[after.url] # None
             /\ after.current # None => new.runs[after.current] # None
<1>3. \E after \in Screen : Reaches(after)
  <2>1. CASE new.url \in Visible(new) /\ new.url = screen[b].url
    <3>1. screen' = [screen EXCEPT ![b] = new]  BY <2>1 DEF Show
    <3>2. Reaches(new)  BY <3>1, <1>1, <2>1
    <3>3. QED  BY <3>2
  <2>2. CASE new.url \in Visible(new) /\ new.url # screen[b].url
    <3> DEFINE after == Landed(new, new.url)
    <3>1. screen' = [screen EXCEPT ![b] = after]  BY <2>2 DEF Show
    <3>2. /\ after \in Screen /\ after.runs = new.runs /\ after.url = new.url
          /\ after.current # None => new.runs[after.current] # None
      BY <1>2, <2>2
    <3> HIDE DEF after
    <3>3. Reaches(after)  BY <3>1, <3>2, <1>1, <2>2
    <3>4. QED  BY <3>2, <3>3
  <2>3. CASE new.url \notin Visible(new)
    <3>1. PICK r \in Targets(new) : screen' = [screen EXCEPT ![b] = Landed(new, r)]
      BY <2>3 DEF Show
    <3>2. r \in Visible(new) \cup {None}  BY DEF Targets
    <3> DEFINE after == Landed(new, r)
    <3>3. /\ after \in Screen /\ after.runs = new.runs /\ after.url = r
          /\ after.current # None => new.runs[after.current] # None
      BY <1>2, <3>2
    <3>4. screen' = [screen EXCEPT ![b] = after]  BY <3>1
    <3> HIDE DEF after
    <3>5. Reaches(after)  BY <3>2, <3>3, <3>4, <1>1
    <3>6. QED  BY <3>3, <3>5
  <2>4. QED  BY <2>1, <2>2, <2>3
<1>4. ScreensStep
  <2>1. PICK after \in Screen : Reaches(after)  BY <1>3
  <2>2. QED  BY <2>1, OneScreen
<1>5. overtaken' \subseteq Browsers  BY DEF Show, TypeOK
<1>6. QED  BY <1>4, <1>5

LEMMA SameRuns ==
    ASSUME TypeOK, Rooted, RowsLast, NEW b \in Browsers
    PROVE  NewRuns(b, screen[b].runs)
<1>1. screen[b] \in Screen  BY DEF TypeOK
<1>2. RootedScreen(run, screen[b])  BY DEF Rooted
<1>3. QED  BY <1>1, <1>2 DEF RootedScreen, RowsLast, NewRuns, Showing

\* A browser that stays where it is, with the runs it had.
LEMMA StaysThere ==
    ASSUME TypeOK, Rooted, RowsLast, NEW b \in Browsers, NEW new \in Screen,
           screen' = [screen EXCEPT ![b] = new], NewRuns(b, new.runs),
           new.url = screen[b].url, new.current = screen[b].current,
           \A r \in Runs : screen[b].runs[r] # None => new.runs[r] # None
    PROVE  ScreensStep
<1>1. RootedScreen(run, screen[b])  BY DEF Rooted
<1>2. screen[b] \in Screen  BY DEF TypeOK
<1>3. /\ screen[b].url \in Runs \cup {None}
      /\ screen[b].current \in Runs \cup {None}
  BY <1>2 DEF Screen
<1>4. QED  BY <1>1, <1>3, OneScreen DEF RootedScreen

\* What a case is to show was shown there, or is linked or claimed.
ExecGood(b, r, c, e) ==
    \A name \in e.defects :
        name \in screen[b].runs[r].exec[c].defects \/ Good(b, r, c, name)'

\* Another execution of one case.
Instead(runs, r, c, e) == [runs EXCEPT ![r].exec[c] = e]

LEMMA ExecChanged ==
    ASSUME TypeOK, Rooted, RowsLast, NEW b \in Browsers, NEW r \in Runs, NEW c \in Cases,
           NEW e \in Exec, screen[b].runs[r] # None, ExecGood(b, r, c, e),
           NEW runs, runs = Instead(screen[b].runs, r, c, e)
    PROVE  /\ runs \in [Runs -> {None} \cup DemoRun] /\ NewRuns(b, runs)
           /\ \A q \in Runs : screen[b].runs[q] # None => runs[q] # None
<1>1. PICK old : old = screen[b].runs  OBVIOUS
<1>2. old \in [Runs -> {None} \cup DemoRun]  BY <1>1 DEF TypeOK, Screen
<1>3. old[r] \in DemoRun  BY <1>1, <1>2
<1>4. PICK there : there = [old[r] EXCEPT !.exec[c] = e]  OBVIOUS
<1>5. /\ there \in DemoRun /\ there.exec[c] = e
      /\ \A d \in Cases \ {c} : there.exec[d] = old[r].exec[d]
  BY <1>3, <1>4 DEF DemoRun
<1>6. runs = [old EXCEPT ![r] = there]  BY <1>1, <1>4 DEF Instead
<1>7. /\ runs \in [Runs -> {None} \cup DemoRun] /\ runs[r] = there
      /\ \A q \in Runs \ {r} : runs[q] = old[q]
  BY <1>2, <1>5, <1>6
<1>8. there # None  BY <1>5, NullAssumption
<1>9. NewRuns(b, screen[b].runs)  BY SameRuns
<1>10. ASSUME NEW q \in Runs, NEW d \in Cases, NEW name,
              runs[q] # None, name \in runs[q].exec[d].defects
       PROVE  Showing(screen[b], q, d, name) \/ Good(b, q, d, name)'
  <2>1. CASE q = r /\ d = c
    BY <1>1, <1>5, <1>7, <1>10, <2>1 DEF Showing, ExecGood
  <2>2. CASE q # r \/ d # c
    <3>1. old[q] # None /\ runs[q].exec[d] = old[q].exec[d]
      BY <1>1, <1>5, <1>7, <1>10, <2>2
    <3>2. QED  BY <1>1, <1>10, <3>1 DEF Showing
  <2>3. QED  BY <2>1, <2>2
<1>11. \A q \in Runs : runs[q] # None <=> old[q] # None  BY <1>1, <1>7, <1>8
<1>12. QED  BY <1>1, <1>7, <1>9, <1>10, <1>11 DEF NewRuns

-----------------------------------------------------------------------------
(* Browsers, again *)

\* A navigation of browser b, from screen s.
LEMMA PushStays ==
    ASSUME TypeOK, Rooted, RowsLast, NEW b \in Browsers, NEW r \in Runs \cup {None},
           Pushed(b, [screen[b] EXCEPT !.going = r])
    PROVE  ScreensStep /\ overtaken' \subseteq Browsers
<1>1. PICK s \in Screen : s = screen[b]  BY DEF TypeOK
<1>2. PICK new : new = [s EXCEPT !.going = r]  OBVIOUS
<1>3. /\ new \in Screen /\ new.runs = s.runs /\ new.url = s.url
      /\ new.current = s.current
  BY <1>2 DEF Screen
<1>4. screen' = [screen EXCEPT ![b] = new] /\ overtaken' \subseteq Browsers
  BY <1>1, <1>2 DEF Pushed, TypeOK
<1>5. QED  BY <1>1, <1>3, <1>4, SameRuns, StaysThere

LEMMA FlowsStay ==
    ASSUME TypeOK, Rooted, Defensible, UNCHANGED <<Server, flow>>, ScreensStep,
           overtaken' \subseteq Browsers
    PROVE  TypeOK' /\ Rooted' /\ Defensible'
<1>1. ServerTyped /\ RowsLast /\ LinksLast  BY SameServer
<1>2. TypeOK'  BY <1>1 DEF TypeOK, ServerTyped, ScreensStep
<1>3. run' = run /\ link' = link  BY DEF Server
<1>4. Rooted'  BY <1>3 DEF Rooted, ScreensStep
<1>5. \A g \in Flows : ClaimLasts(g)  BY DEF ClaimLasts
<1>6. \A g \in Flows : PrevGood(g)'
  BY <1>1, <1>5, GoodLasts DEF Defensible, PrevGood
<1>7. QED  BY <1>1, <1>2, <1>4, <1>5, <1>6, NamesStay DEF Defensible

LEMMA BrowsersType ==
    ASSUME TypeOK, Rooted, Defensible, NEW b \in Browsers,
           SelectRun(b) \/ Arrive(b) \/ SelectCase(b) \/ AddCases(b) \/ Choose(b)
    PROVE  TypeOK' /\ Rooted' /\ Defensible'
<1>1. UNCHANGED <<Server, flow>>
  BY DEF SelectRun, Arrive, SelectCase, AddCases, Choose
<1>2. RowsLast  BY <1>1, SameServer
<1>3. PICK s \in Screen : s = screen[b]  BY DEF TypeOK
<1>4. RootedScreen(run, s)  BY <1>3 DEF Rooted
<1>5. NewRuns(b, s.runs)  BY <1>2, <1>3, SameRuns
<1>6. ScreensStep /\ overtaken' \subseteq Browsers
  <2>1. CASE SelectRun(b)
    <3>1. PICK r \in Visible(s) \cup {None} : Pushed(b, [s EXCEPT !.going = r])
      BY <1>3, <2>1 DEF SelectRun
    <3>2. r \in Runs \cup {None}  BY DEF Visible
    <3>3. QED  BY <1>2, <1>3, <3>1, <3>2, PushStays
  <2>2. CASE Arrive(b)
    <3>1. PICK new : new = [s EXCEPT !.url = s.going, !.going = Absent]  OBVIOUS
    <3>2. s.going # Absent /\ Show(b, new)  BY <1>3, <2>2, <3>1 DEF Arrive
    <3>3. new \in Screen /\ new.runs = s.runs /\ new.current = s.current
      BY <3>1, <3>2 DEF Screen
    <3>4. QED  BY <1>2, <1>4, <1>5, <3>2, <3>3, ShowTyped DEF RootedScreen
  <2>3. CASE SelectCase(b)
    <3>1. s.url \in Runs /\ s.runs[s.url] \in DemoRun
      BY <1>3, <1>4, <2>3 DEF SelectCase, RootedScreen, Screen
    <3>2. PICK c \in s.runs[s.url].cases : screen' = [screen EXCEPT ![b].active = c]
      BY <1>3, <2>3 DEF SelectCase
    <3>3. c \in Cases  BY <3>1 DEF DemoRun
    <3>4. PICK new : new = [s EXCEPT !.active = c]  OBVIOUS
    <3>5. /\ new \in Screen /\ new.runs = s.runs /\ new.url = s.url
          /\ new.current = s.current
      BY <3>3, <3>4 DEF Screen
    <3>6. screen' = [screen EXCEPT ![b] = new]  BY <1>3, <3>2, <3>4
    <3>7. ScreensStep  BY <1>2, <1>3, <1>5, <3>5, <3>6, StaysThere
    <3>8. QED  BY <2>3, <3>7 DEF SelectCase, TypeOK
  <2>4. CASE AddCases(b)
    <3>1. PICK r \in Runs : r = s.url /\ s.runs[r] \in DemoRun
      BY <1>3, <1>4, <2>4 DEF AddCases, RootedScreen, Screen
    <3>2. PICK c \in Cases : screen' = [screen EXCEPT
                           ![b].runs[r].cases = @ \cup {c},
                           ![b].active = IF @ = None THEN c ELSE @]
      BY <1>3, <2>4, <3>1 DEF AddCases
    <3>3. PICK there : there = [s.runs[r] EXCEPT !.cases = @ \cup {c}]  OBVIOUS
    <3>4. there \in DemoRun /\ there.exec = s.runs[r].exec  BY <3>1, <3>3 DEF DemoRun
    <3>5. PICK runs : runs = [s.runs EXCEPT ![r] = there]  OBVIOUS
    <3>6. /\ runs \in [Runs -> {None} \cup DemoRun] /\ runs[r] = there
          /\ \A q \in Runs \ {r} : runs[q] = s.runs[q]
      BY <3>4, <3>5 DEF Screen
    <3>7. PICK active \in Cases \cup {None} : active = IF s.active = None THEN c ELSE s.active
      BY DEF Screen
    <3>8. PICK new : new = [s EXCEPT !.runs = runs, !.active = active]  OBVIOUS
    <3>9. screen' = [screen EXCEPT ![b] = new]
      BY <1>3, <3>2, <3>3, <3>5, <3>7, <3>8
    <3>10. /\ new \in Screen /\ new.runs = runs /\ new.url = s.url
           /\ new.current = s.current
      BY <3>6, <3>7, <3>8 DEF Screen
    <3>11. there # None /\ s.runs[r] # None  BY <3>1, <3>4, NullAssumption
    <3>12. NewRuns(b, runs)
      BY <1>3, <1>5, <3>4, <3>6, <3>11 DEF NewRuns, Showing
    <3>13. \A q \in Runs : s.runs[q] # None => runs[q] # None  BY <3>6, <3>11
    <3>14. ScreensStep
      BY <1>2, <1>3, <3>9, <3>10, <3>12, <3>13, StaysThere
    <3>15. QED  BY <2>4, <3>14 DEF AddCases, TypeOK
  <2>5. CASE Choose(b)
    <3>1. PICK id \in s.keys : screen' = [screen EXCEPT ![b].chosen = id]
      BY <1>3, <2>5 DEF Choose, Linkable
    <3>2. id \in Id  BY DEF Screen
    <3>3. PICK new : new = [s EXCEPT !.chosen = id]  OBVIOUS
    <3>4. /\ new \in Screen /\ new.runs = s.runs /\ new.url = s.url
          /\ new.current = s.current
      BY <3>2, <3>3 DEF Screen
    <3>5. screen' = [screen EXCEPT ![b] = new]  BY <1>3, <3>1, <3>3
    <3>6. ScreensStep  BY <1>2, <1>3, <1>5, <3>4, <3>5, StaysThere
    <3>7. QED  BY <2>5, <3>6 DEF Choose, TypeOK
  <2>6. QED  BY <2>1, <2>2, <2>3, <2>4, <2>5
<1>7. QED  BY <1>1, <1>6, FlowsStay

-----------------------------------------------------------------------------
(* Commands, again *)

\* Flow f begins, as x.
LEMMA BeginsTyped ==
    ASSUME TypeOK, Rooted, Defensible, NEW f \in Flows, NEW x \in FlowType,
           flow[f] = Idle, Begin(f, x), UNCHANGED Server, ScreensStep,
           overtaken' \subseteq Browsers, RootedFlow(run, link, f, x),
           x.op = "result" =>
               \A name \in x.prev.defects : Good(Owner[f], x.run, x.case, name)
    PROVE  TypeOK' /\ Rooted' /\ Defensible'
<1>1. ServerTyped /\ RowsLast /\ LinksLast  BY SameServer
<1>2. RootedFlow(run', link', f, x)  BY DEF Server
<1>3. /\ flow' = [flow EXCEPT ![f] = x] /\ flow'[f] = x
      /\ \A g \in Flows \ {f} : flow'[g] = flow[g]
  BY DEF Begin, TypeOK
<1>4. ClaimLasts(f)  BY DEF ClaimLasts, Idle, DefectOps
<1>5. \A g \in Flows : ClaimLasts(g)  BY <1>3, <1>4 DEF ClaimLasts
<1>6. PrevGood(f)'
  <2>1. ASSUME x.op = "result", NEW name \in x.prev.defects
        PROVE  Good(Owner[f], x.run, x.case, name)'
    <3>1. PICK b, r, c : b = Owner[f] /\ r = x.run /\ c = x.case  OBVIOUS
    <3>2. Good(b, r, c, name)  BY <2>1, <3>1
    <3>3. Good(b, r, c, name)'  BY <1>1, <1>5, <3>2, GoodLasts
    <3>4. QED  BY <3>1, <3>3
  <2>2. QED  BY <1>3, <2>1 DEF PrevGood
<1>7. QED  BY <1>1, <1>2, <1>3, <1>4, <1>6, FlowStep

LEMMA CallTyped ==
    ASSUME NEW op \in RunOps \cup {"create"}, NEW r \in Runs,
           NEW pc \in {"post", "wait", "link", "unsent"}
    PROVE  /\ Call(op, pc, r) \in Writes
           /\ Call(op, pc, r).op = op /\ Call(op, pc, r).run = r
           /\ Call(op, pc, r).pc = pc
BY DEF Call, Writes, RunOps

LEMMA SetResultTypes ==
    ASSUME TypeOK, Rooted, Defensible, NEW f \in Flows, NEW b \in Browsers, Owner[f] = b,
           SetResult(b, f)
    PROVE  TypeOK' /\ Rooted' /\ Defensible'
<1>1. UNCHANGED Server /\ flow[f] = Idle /\ overtaken' \subseteq Browsers
  BY DEF SetResult, TypeOK
<1>2. RowsLast  BY <1>1, SameServer
<1>3. PICK s \in Screen : s = screen[b]  BY DEF TypeOK
<1>4. RootedScreen(run, s)  BY <1>3 DEF Rooted
<1>5. PICK r, c, to :
        /\ r = s.current /\ c = s.active /\ c # None /\ Mutable(s, r) /\ to \in Result
        /\ screen' = [screen EXCEPT ![b] = Recorded(s, r, c, to)]
        /\ Begin(f, Sending(s, r, c, to))
  <2>1. PICK to \in Result :
          /\ screen' = [screen EXCEPT ![b] = Recorded(s, s.current, s.active, to)]
          /\ Begin(f, Sending(s, s.current, s.active, to))
    BY <1>3 DEF SetResult
  <2>2. s.active # None /\ Mutable(s, s.current)  BY <1>3 DEF SetResult
  <2>3. QED  BY <2>1, <2>2
<1>6. r \in Runs /\ c \in Cases /\ s.runs[r] \in DemoRun /\ s.runs[r] # None
  BY <1>5 DEF Mutable, Screen
<1>7. PICK old \in Exec : old = s.runs[r].exec[c]  BY <1>6 DEF DemoRun
<1>8. PICK e : e = [old EXCEPT !.status = to]  OBVIOUS
<1>9. e \in Exec /\ e.defects = old.defects  BY <1>5, <1>8 DEF Exec
<1>10. PICK runs : runs = [s.runs EXCEPT ![r].exec[c] = e]  OBVIOUS
<1>11. /\ runs \in [Runs -> {None} \cup DemoRun] /\ NewRuns(b, runs)
       /\ \A q \in Runs : s.runs[q] # None => runs[q] # None
  <2>1. ExecGood(b, r, c, e)  BY <1>3, <1>7, <1>9 DEF ExecGood
  <2>2. screen[b].runs[r] # None /\ runs = Instead(screen[b].runs, r, c, e)
    BY <1>3, <1>6, <1>10 DEF Instead
  <2>3. /\ runs \in [Runs -> {None} \cup DemoRun] /\ NewRuns(b, runs)
        /\ \A q \in Runs : screen[b].runs[q] # None => runs[q] # None
    BY <1>2, <1>6, <1>9, <2>1, <2>2, ExecChanged
  <2>4. QED  BY <1>3, <2>3
<1>12. PICK new : new = [s EXCEPT !.runs = runs]  OBVIOUS
<1>13. /\ new \in Screen /\ new.runs = runs /\ new.url = s.url
       /\ new.current = s.current
  BY <1>11, <1>12 DEF Screen
<1>14. screen' = [screen EXCEPT ![b] = new]
  BY <1>5, <1>7, <1>8, <1>10, <1>12 DEF Recorded
<1>15. ScreensStep  BY <1>2, <1>3, <1>11, <1>13, <1>14, StaysThere
<1>16. PICK x : x = Sending(s, r, c, to)  OBVIOUS
<1>17. CASE x = Past
  <2>1. x \in FlowType /\ x.op = "none"  BY <1>17 DEF FlowType, Past
  <2>2. RootedFlow(run, link, f, x)  BY <2>1 DEF RootedFlow, RunOps, DefectOps
  <2>3. QED  BY <1>1, <1>5, <1>15, <1>16, <2>1, <2>2, BeginsTyped
<1>18. CASE x # Past
  <2>1. PICK h : h = Call("result", "post", r)  OBVIOUS
  <2>2. h \in Writes /\ h.op = "result" /\ h.run = r
    BY <1>6, <2>1, CallTyped DEF RunOps
  <2>3. x = [h EXCEPT !.case = c, !.to = to, !.prev = old]
    BY <1>7, <1>16, <1>18, <2>1 DEF Sending
  <2>4. /\ x \in Writes /\ x.op = "result" /\ x.run = r /\ x.case = c /\ x.to = to
        /\ x.prev = old
    BY <1>5, <1>6, <2>2, <2>3 DEF Writes
  <2>5. x \in FlowType  BY <2>4 DEF FlowType
  <2>6. RootedFlow(run, link, f, x)
    <3>1. run[r] # None  BY <1>4, <1>6 DEF RootedScreen
    <3>2. QED  BY <1>5, <1>6, <2>4, <3>1 DEF RootedFlow, RunOps, DefectOps
  <2>7. \A name \in old.defects : Good(b, r, c, name)
    BY <1>3, <1>5, <1>6, <1>7 DEF Defensible, ShownDefectsLinked, Good, DefectOps
  <2>8. QED  BY <1>1, <1>5, <1>15, <1>16, <2>4, <2>5, <2>6, <2>7, BeginsTyped
<1>19. QED  BY <1>17, <1>18

\* Another defect on the active case of the run shown, that flow f claims.
LEMMA WithDefectTyped ==
    ASSUME TypeOK, Rooted, RowsLast, NEW b \in Browsers, NEW r \in Runs,
           NEW c \in Cases, NEW id \in Id, screen[b].runs[r] # None,
           Good(b, r, c, id)', NEW new, new = WithDefect(screen[b], r, c, id)
    PROVE  /\ new \in Screen /\ NewRuns(b, new.runs)
           /\ new.url = screen[b].url /\ new.current = screen[b].current
           /\ \A q \in Runs : screen[b].runs[q] # None => new.runs[q] # None
<1>1. PICK s \in Screen : s = screen[b]  BY DEF TypeOK
<1>2. s.runs[r] \in DemoRun  BY <1>1 DEF Screen
<1>3. PICK old \in Exec : old = s.runs[r].exec[c]  BY <1>2 DEF DemoRun
<1>4. PICK e : e = [old EXCEPT !.defects = @ \cup {id}]  OBVIOUS
<1>5. e \in Exec /\ e.defects = old.defects \cup {id}  BY <1>4 DEF Exec, Named
<1>6. PICK runs : runs = [s.runs EXCEPT ![r].exec[c] = e]  OBVIOUS
<1>7. /\ runs \in [Runs -> {None} \cup DemoRun] /\ NewRuns(b, runs)
      /\ \A q \in Runs : s.runs[q] # None => runs[q] # None
  <2>1. ASSUME NEW name \in e.defects
        PROVE  name \in screen[b].runs[r].exec[c].defects \/ Good(b, r, c, name)'
    <3>1. CASE name \in old.defects  BY <1>1, <1>3, <3>1
    <3>2. CASE name = id
      <4>1. PICK d : d = id  OBVIOUS
      <4>2. Good(b, r, c, id)'  OBVIOUS
      <4>3. QED  BY <3>2, <4>2
    <3>3. QED  BY <1>5, <3>1, <3>2
  <2>2. runs = Instead(screen[b].runs, r, c, e)  BY <1>1, <1>6 DEF Instead
  <2>3. ExecGood(b, r, c, e)  BY <2>1 DEF ExecGood
  <2>4. /\ runs \in [Runs -> {None} \cup DemoRun] /\ NewRuns(b, runs)
        /\ \A q \in Runs : screen[b].runs[q] # None => runs[q] # None
    BY <1>5, <2>2, <2>3, ExecChanged
  <2>5. QED  BY <1>1, <2>4
<1>8. PICK keys : keys = s.keys \cup {id}  OBVIOUS
<1>9. keys \subseteq Id  BY <1>8 DEF Screen
<1>10. new = [s EXCEPT !.runs = runs, !.keys = keys]
  BY <1>1, <1>3, <1>4, <1>6, <1>8 DEF WithDefect
<1>11. new \in Screen /\ new.runs = runs /\ new.url = s.url /\ new.current = s.current
  BY <1>7, <1>9, <1>10 DEF Screen
<1>12. QED  BY <1>1, <1>7, <1>11

LEMMA CreateDefectTypes ==
    ASSUME TypeOK, Rooted, Defensible, NEW f \in Flows, NEW b \in Browsers, Owner[f] = b,
           CreateDefect(b, f)
    PROVE  TypeOK' /\ Rooted' /\ Defensible'
<1>1. UNCHANGED Server /\ flow[f] = Idle /\ overtaken' \subseteq Browsers
  BY DEF CreateDefect, TypeOK
<1>2. RowsLast  BY <1>1, SameServer
<1>3. PICK s \in Screen : s = screen[b]  BY DEF TypeOK
<1>4. RootedScreen(run, s)  BY <1>3 DEF Rooted
<1>5. PICK r, c :
        /\ r = s.url /\ c = s.active /\ c # None /\ r # None /\ s.runs[r] # None
        /\ screen' = [screen EXCEPT ![b] = WithDefect(s, r, c, Temp(f))]
        /\ Begin(f, [Call("defect", "post", r) EXCEPT !.case = c, !.defect = f])
  BY <1>3 DEF CreateDefect, CanRaise, Mutable
<1>6. r \in Runs /\ c \in Cases  BY <1>5 DEF Screen
<1>7. PICK h : h = Call("defect", "post", r)  OBVIOUS
<1>8. h \in Writes /\ h.op = "defect" /\ h.run = r /\ h.pc = "post"
  BY <1>6, <1>7, CallTyped DEF RunOps
<1>9. PICK x : x = [h EXCEPT !.case = c, !.defect = f]  OBVIOUS
<1>10. f \in Defects  BY DEF Defects
<1>11. /\ x \in Writes /\ x.op = "defect" /\ x.run = r /\ x.case = c /\ x.defect = f
       /\ x.pc = "post"
  BY <1>6, <1>8, <1>9, <1>10 DEF Writes
<1>12. RootedFlow(run, link, f, x)
  BY <1>4, <1>5, <1>6, <1>10, <1>11 DEF RootedFlow, RootedScreen, RunOps, DefectOps
<1>13. Temp(f) \in Id /\ Temp(f)[1] = f  BY <1>10 DEF Temp, Id
<1>14. flow'[f] = x  BY <1>5, <1>7, <1>9 DEF Begin, TypeOK
<1>15. Good(b, r, c, Temp(f))'  BY <1>11, <1>13, <1>14 DEF Good, DefectOps, Temp
<1>16. PICK new : new = WithDefect(s, r, c, Temp(f))  OBVIOUS
<1>17. /\ new \in Screen /\ NewRuns(b, new.runs)
       /\ new.url = s.url /\ new.current = s.current
       /\ \A q \in Runs : s.runs[q] # None => new.runs[q] # None
  <2>1. PICK id \in Id : id = Temp(f)  BY <1>13
  <2>2. Good(b, r, c, id)'
    <3>1. id' = id /\ Temp(f)' = Temp(f)  BY DEF Temp
    <3>2. QED  BY <1>15, <2>1, <3>1
  <2>3. QED  BY <1>2, <1>3, <1>5, <1>6, <1>16, <2>1, <2>2, WithDefectTyped
<1>18. ScreensStep  BY <1>2, <1>3, <1>5, <1>16, <1>17, StaysThere
<1>19. x \in FlowType  BY <1>11 DEF FlowType
<1>20. Begin(f, x)  BY <1>5, <1>7, <1>9
<1>21. QED  BY <1>1, <1>11, <1>12, <1>18, <1>19, <1>20, BeginsTyped

LEMMA LinkDefectTypes ==
    ASSUME TypeOK, Rooted, Defensible, NEW f \in Flows, NEW b \in Browsers, Owner[f] = b,
           LinkDefect(b, f)
    PROVE  TypeOK' /\ Rooted' /\ Defensible'
<1>1. UNCHANGED Server /\ flow[f] = Idle /\ overtaken' \subseteq Browsers
  BY DEF LinkDefect, TypeOK
<1>2. RowsLast  BY <1>1, SameServer
<1>3. PICK s \in Screen : s = screen[b]  BY DEF TypeOK
<1>4. RootedScreen(run, s)  BY <1>3 DEF Rooted
<1>5. PICK r, c, id :
        /\ r = s.url /\ c = s.active /\ c # None /\ r # None
        /\ id = s.chosen /\ id # None
        /\ screen' = [screen EXCEPT
                        ![b] = IF Mutable(s, r) /\ id \in s.keys
                               THEN [WithDefect(s, r, c, id) EXCEPT !.chosen = None]
                               ELSE [s EXCEPT !.chosen = None]]
        /\ Begin(f, [Call("link", FirstCall(s, r, c, id), r) EXCEPT
                        !.case = c, !.defect = id[1], !.ref = KeyOf(id)])
  BY <1>3 DEF LinkDefect, CanRaise
<1>6. r \in Runs /\ c \in Cases /\ id \in Id  BY <1>5 DEF Screen
<1>7. s.runs[r] # None  BY <1>4, <1>5 DEF RootedScreen
<1>8. id[1] \in Defects /\ KeyOf(id) \in Ref /\ KeyOf(id)[1] = id[1]
  BY <1>6 DEF Id, Ref, KeyOf
<1>9. PICK pc \in {"link", "wait", "unsent"} : pc = FirstCall(s, r, c, id)
  BY DEF FirstCall, LinkIf
<1>10. PICK h : h = Call("link", pc, r)  OBVIOUS
<1>11. h \in Writes /\ h.op = "link" /\ h.run = r /\ h.pc = pc
  BY <1>6, <1>10, CallTyped DEF RunOps
<1>12. PICK x : x = [h EXCEPT !.case = c, !.defect = id[1], !.ref = KeyOf(id)]  OBVIOUS
<1>13. /\ x \in Writes /\ x.op = "link" /\ x.run = r /\ x.case = c /\ x.pc = pc
       /\ x.defect = id[1] /\ x.ref = KeyOf(id)
  BY <1>6, <1>8, <1>11, <1>12 DEF Writes
<1>14. RootedFlow(run, link, f, x)
  BY <1>4, <1>5, <1>6, <1>8, <1>13 DEF RootedFlow, RootedScreen, RunOps, DefectOps
<1>15. Begin(f, x)  BY <1>5, <1>9, <1>10, <1>12
<1>16. flow'[f] = x  BY <1>15 DEF Begin, TypeOK
<1>17. Good(b, r, c, id)'  BY <1>13, <1>16 DEF Good, DefectOps
<1>18. PICK new \in Screen :
        /\ screen' = [screen EXCEPT ![b] = new] /\ NewRuns(b, new.runs)
        /\ new.url = s.url /\ new.current = s.current
        /\ \A q \in Runs : s.runs[q] # None => new.runs[q] # None
  <2>1. CASE Mutable(s, r) /\ id \in s.keys
    <3>1. PICK with : with = WithDefect(s, r, c, id)  OBVIOUS
    <3>2. /\ with \in Screen /\ NewRuns(b, with.runs)
          /\ with.url = s.url /\ with.current = s.current
          /\ \A q \in Runs : s.runs[q] # None => with.runs[q] # None
      BY <1>2, <1>3, <1>6, <1>7, <1>17, <3>1, WithDefectTyped
    <3>3. PICK new : new = [with EXCEPT !.chosen = None]  OBVIOUS
    <3>4. /\ new \in Screen /\ new.runs = with.runs
          /\ new.url = with.url /\ new.current = with.current
      BY <3>2, <3>3 DEF Screen
    <3>5. screen' = [screen EXCEPT ![b] = new]  BY <1>5, <2>1, <3>1, <3>3
    <3>6. QED  BY <3>2, <3>4, <3>5
  <2>2. CASE ~(Mutable(s, r) /\ id \in s.keys)
    <3>1. PICK new : new = [s EXCEPT !.chosen = None]  OBVIOUS
    <3>2. /\ new \in Screen /\ new.runs = s.runs
          /\ new.url = s.url /\ new.current = s.current
      BY <3>1 DEF Screen
    <3>3. screen' = [screen EXCEPT ![b] = new]  BY <1>5, <2>2, <3>1
    <3>4. QED  BY <1>2, <1>3, <3>2, <3>3, SameRuns
  <2>3. QED  BY <2>1, <2>2
<1>19. ScreensStep  BY <1>2, <1>3, <1>18, StaysThere
<1>20. x \in FlowType  BY <1>13 DEF FlowType
<1>21. QED  BY <1>1, <1>13, <1>14, <1>15, <1>19, <1>20, BeginsTyped

LEMMA CommandsType ==
    ASSUME TypeOK, Rooted, Defensible, NEW f \in Flows, NEW b \in Browsers, Owner[f] = b,
           \/ SetResult(b, f) \/ CreateDefect(b, f) \/ LinkDefect(b, f)
           \/ SealToggle(b, f) \/ DeleteRun(b, f) \/ EditRun(b, f)
           \/ CreateRun(b, f) \/ Sync(f)
    PROVE  TypeOK' /\ Rooted' /\ Defensible'
<1>1. PICK s \in Screen : s = screen[b]  BY DEF TypeOK
<1>2. RootedScreen(run, s)  BY <1>1 DEF Rooted
<1>3. UNCHANGED <<Server, screen, overtaken>> => ScreensStep /\ overtaken' \subseteq Browsers
  BY SameServer, SameScreens DEF TypeOK
<1>4. CASE SealToggle(b, f)
  <2>1. PICK r, to :
          /\ r = s.current /\ r # None /\ to \in {"active", "sealed"}
          /\ Begin(f, [Call("status", "post", r) EXCEPT !.to = to])
    <3>1. PICK to \in {"active", "sealed"} :
             Begin(f, [Call("status", "post", s.current) EXCEPT !.to = to])
      BY <1>1, <1>4 DEF SealToggle
    <3>2. s.current # None  BY <1>1, <1>4 DEF SealToggle
    <3>3. QED  BY <3>1, <3>2
  <2>2. UNCHANGED <<Server, screen, overtaken>> /\ flow[f] = Idle
    BY <1>4 DEF SealToggle
  <2>3. r \in Runs /\ run[r] # None  BY <1>2, <2>1 DEF RootedScreen, Screen
  <2>4. PICK h : h = Call("status", "post", r)  OBVIOUS
  <2>5. h \in Writes /\ h.op = "status" /\ h.run = r
    BY <2>3, <2>4, CallTyped DEF RunOps
  <2>6. PICK x : x = [h EXCEPT !.to = to]  OBVIOUS
  <2>7. x \in Writes /\ x.op = "status" /\ x.run = r /\ x.to = to
    BY <2>1, <2>5, <2>6 DEF Writes, Status
  <2>8. RootedFlow(run, link, f, x)
    BY <2>1, <2>3, <2>7 DEF RootedFlow, DefectOps, Status
  <2>9. x \in FlowType  BY <2>7 DEF FlowType
  <2>10. Begin(f, x)  BY <2>1, <2>4, <2>6
  <2>11. QED  BY <1>3, <2>2, <2>7, <2>8, <2>9, <2>10, BeginsTyped
<1>5. CASE DeleteRun(b, f)
  <2>1. PICK r :
          /\ r = s.url /\ r # None
          /\ Begin(f, [Call("status", "post", r) EXCEPT !.to = "archived"])
    BY <1>1, <1>5 DEF DeleteRun
  <2>2. UNCHANGED Server /\ flow[f] = Idle /\ Pushed(b, [screen[b] EXCEPT !.going = None])
    BY <1>5 DEF DeleteRun
  <2>3. r \in Runs /\ run[r] # None  BY <1>2, <2>1 DEF RootedScreen, Screen
  <2>4. PICK h : h = Call("status", "post", r)  OBVIOUS
  <2>5. h \in Writes /\ h.op = "status" /\ h.run = r
    BY <2>3, <2>4, CallTyped DEF RunOps
  <2>6. PICK x : x = [h EXCEPT !.to = "archived"]  OBVIOUS
  <2>7. x \in Writes /\ x.op = "status" /\ x.run = r /\ x.to = "archived"
    BY <2>5, <2>6 DEF Writes, Status
  <2>8. RootedFlow(run, link, f, x)
    BY <2>3, <2>7 DEF RootedFlow, DefectOps, Status
  <2>9. x \in FlowType  BY <2>7 DEF FlowType
  <2>10. Begin(f, x)  BY <2>1, <2>4, <2>6
  <2>11. ScreensStep /\ overtaken' \subseteq Browsers  BY <2>2, SameServer, PushStays
  <2>12. QED  BY <2>2, <2>7, <2>8, <2>9, <2>10, <2>11, BeginsTyped
<1>6. CASE EditRun(b, f) \/ CreateRun(b, f)
  <2>1. PICK op, r : /\ Begin(f, Call(op, "post", r))
                     /\ \/ op = "edit" /\ r = s.url /\ r # None
                        \/ op = "create" /\ r = f
    BY <1>1, <1>6 DEF EditRun, CreateRun
  <2>2. UNCHANGED <<Server, screen, overtaken>> /\ flow[f] = Idle
    BY <1>6 DEF EditRun, CreateRun
  <2>3. r \in Runs /\ (op = "edit" => run[r] # None)
    BY <1>2, <2>1 DEF RootedScreen, Screen, Runs
  <2>4. PICK x : x = Call(op, "post", r)  OBVIOUS
  <2>5. x \in Writes /\ x.op = op /\ x.run = r /\ x.pc = "post"
    BY <2>1, <2>3, <2>4, CallTyped DEF RunOps
  <2>6. RootedFlow(run, link, f, x)
    BY <2>1, <2>3, <2>5 DEF RootedFlow, DefectOps, RunOps
  <2>7. x \in FlowType /\ x.op # "result"  BY <2>1, <2>5 DEF FlowType
  <2>8. Begin(f, x)  BY <2>1, <2>4
  <2>9. QED  BY <1>3, <2>2, <2>6, <2>7, <2>8, BeginsTyped
<1>7. CASE Sync(f)
  <2>1. PICK x : x = [op |-> "sync", pc |-> "read",
                      rows |-> None, links |-> None, defects |-> None]
    OBVIOUS
  <2>2. Begin(f, x) /\ UNCHANGED <<Server, screen, overtaken>> /\ flow[f] = Idle
    BY <1>7, <2>1 DEF Sync
  <2>3. x \in FlowType /\ x.op = "sync" /\ x.rows = None /\ x.links = None
    BY <2>1 DEF FlowType, Syncs
  <2>4. RootedFlow(run, link, f, x)  BY <2>3 DEF RootedFlow, DefectOps, RunOps
  <2>5. QED  BY <1>3, <2>2, <2>3, <2>4, BeginsTyped
<1>8. QED
  BY <1>4, <1>5, <1>6, <1>7, SetResultTypes, CreateDefectTypes, LinkDefectTypes

-----------------------------------------------------------------------------
(* Flows that go on, again *)

Stages == {"post", "wait", "link", "answered", "rejected", "done", "failed", "unsent"}

LEMMA StageTyped ==
    ASSUME NEW h \in Writes, NEW pc \in Stages, NEW x, x = [h EXCEPT !.pc = pc]
    PROVE  /\ x \in Writes /\ x.pc = pc /\ x.op = h.op /\ x.run = h.run
           /\ x.case = h.case /\ x.defect = h.defect /\ x.ref = h.ref
           /\ x.to = h.to /\ x.prev = h.prev
BY DEF Writes, Stages

LEMMA GoesTyped ==
    ASSUME TypeOK, Rooted, Defensible, NEW f \in Flows, flow[f] \in Writes,
           NEW pc \in Stages, Goto(f, pc), ServerTyped, RowsLast, LinksLast,
           ScreensStep, overtaken' \subseteq Browsers,
           flow[f].op \in DefectOps /\ pc = "done" =>
               /\ f \in Links /\ link'[f] # None /\ link'[f].run = flow[f].run
               /\ link'[f].case = flow[f].case /\ link'[f].ref[1] = flow[f].defect,
           flow[f].op = "create" /\ pc = "answered" => run'[f] # None,
           flow[f].op = "defect" => pc # "link"
    PROVE  TypeOK' /\ Rooted' /\ Defensible'
<1>1. PICK h \in Writes : h = flow[f]  OBVIOUS
<1>2. PICK x : x = [h EXCEPT !.pc = pc]  OBVIOUS
<1>3. /\ x \in Writes /\ x.pc = pc /\ x.op = h.op /\ x.run = h.run
      /\ x.case = h.case /\ x.defect = h.defect /\ x.ref = h.ref
      /\ x.to = h.to /\ x.prev = h.prev
  BY <1>2, StageTyped
<1>4. x \in FlowType /\ h \in FlowType  BY <1>3 DEF FlowType
<1>5. flow' = [flow EXCEPT ![f] = x]  BY <1>1, <1>2 DEF Goto
<1>6. flow'[f] = x /\ \A g \in Flows \ {f} : flow'[g] = flow[g]  BY <1>5 DEF TypeOK
<1>7. RootedFlow(run', link', f, h)  BY <1>1, <1>4, RootedLasts DEF Rooted
<1>8. h.op \notin {"unlink", "sync"}  BY DEF Writes
<1>9. RootedFlow(run', link', f, x)
  <2>1. h.op = "create" => h.run = f /\ (pc = "answered" => run'[f] # None)
    BY <1>1, <1>7 DEF RootedFlow
  <2>2. QED  BY <1>1, <1>3, <1>7, <1>8, <2>1 DEF RootedFlow
<1>10. ClaimLasts(f)  BY <1>1, <1>3, <1>6 DEF ClaimLasts
<1>11. \A g \in Flows : ClaimLasts(g)  BY <1>6, <1>10 DEF ClaimLasts
<1>12. PrevGood(f)'
  <2>1. PrevGood(f)  BY DEF Defensible
  <2>2. QED  BY <1>1, <1>3, <1>6, <1>11, <2>1, GoodLasts DEF PrevGood
<1>13. QED  BY <1>4, <1>5, <1>9, <1>10, <1>12, FlowStep

LEMMA EndsTyped ==
    ASSUME TypeOK, Rooted, Defensible, NEW f \in Flows, Begin(f, Past),
           flow[f].op \notin DefectOps, ServerTyped, RowsLast, LinksLast,
           ScreensStep, overtaken' \subseteq Browsers
    PROVE  TypeOK' /\ Rooted' /\ Defensible'
<1>1. PICK x : x = Past  OBVIOUS
<1>2. x \in FlowType /\ x.op = "none"  BY <1>1 DEF FlowType, Past
<1>3. flow' = [flow EXCEPT ![f] = x] /\ flow'[f] = x  BY <1>1 DEF Begin, TypeOK
<1>4. RootedFlow(run', link', f, x)  BY <1>2 DEF RootedFlow, DefectOps, RunOps
<1>5. ClaimLasts(f)  BY DEF ClaimLasts
<1>6. PrevGood(f)'  BY <1>2, <1>3 DEF PrevGood
<1>7. QED  BY <1>2, <1>3, <1>4, <1>5, <1>6, FlowStep

LEMMA FailsTyped ==
    ASSUME TypeOK, Rooted, Defensible, NEW f \in Flows, flow[f] \in Writes, Failed(f),
           ServerTyped, RowsLast, LinksLast, ScreensStep, overtaken' \subseteq Browsers
    PROVE  TypeOK' /\ Rooted' /\ Defensible'
<1>1. CASE flow[f].op \in DefectOps
  <2>1. Goto(f, "failed")  BY <1>1 DEF Failed, DefectOps
  <2>2. "failed" \in Stages  BY DEF Stages
  <2>3. QED  BY <2>1, <2>2, GoesTyped
<1>2. CASE flow[f].op \notin DefectOps
  <2>1. Begin(f, Past)  BY <1>2 DEF Failed, DefectOps
  <2>2. QED  BY <1>2, <2>1, EndsTyped
<1>3. QED  BY <1>1, <1>2

LEMMA AnswersTyped ==
    ASSUME TypeOK, Rooted, Defensible, NEW f \in Flows, flow[f] \in Writes,
           Answer(f, "answered"), ServerTyped, RowsLast, LinksLast, screen' = screen,
           overtaken' = overtaken, flow[f].op = "create" => run'[f] # None
    PROVE  TypeOK' /\ Rooted' /\ Defensible'
<1>1. ScreensStep /\ overtaken' \subseteq Browsers  BY SameScreens DEF TypeOK
<1>2. "answered" \in Stages  BY DEF Stages
<1>3. CASE Goto(f, "answered")  BY <1>1, <1>2, <1>3, GoesTyped
<1>4. CASE Failed(f)  BY <1>1, <1>4, FailsTyped
<1>5. QED  BY <1>3, <1>4 DEF Answer

-----------------------------------------------------------------------------
(* The server, again *)

\* A row of a run is written again.
LEMMA RunWritten ==
    ASSUME TypeOK, NEW r \in Runs, NEW row \in RunRow, run' = [run EXCEPT ![r] = row],
           UNCHANGED link, defect' \subseteq Defects, NEW f \in Flows,
           \/ audit' = audit
           \/ \E w \in {"created", "updated", "sealed", "reopened", "archived"} :
                 audit' = audit \cup {<<f, w>>}
    PROVE  ServerTyped /\ RowsLast /\ LinksLast /\ run'[r] # None
<1>1. /\ run' \in [Runs -> {None} \cup RunRow] /\ run'[r] = row
      /\ \A q \in Runs \ {r} : run'[q] = run[q]
  BY DEF TypeOK
<1>2. row # None  BY NullAssumption
<1>3. RowsLast  BY <1>1, <1>2 DEF RowsLast
<1>4. LinksLast  BY DEF LinksLast
<1>5. audit' \subseteq Flows \X {"created", "updated", "sealed", "reopened",
                                 "archived", "linked", "unlinked"}
  BY DEF TypeOK
<1>6. QED  BY <1>1, <1>2, <1>3, <1>4, <1>5 DEF ServerTyped, TypeOK

LEMMA LoggedKinds ==
    ASSUME NEW from, NEW to \in Status
    PROVE  Logged(from, to) \in {"updated", "sealed", "reopened", "archived"}
BY DEF Logged, Status

\* The row of a run that a command is about.
LEMMA RowThere ==
    ASSUME TypeOK, Rooted, NEW f \in Flows, flow[f] \in Writes, flow[f].op \in RunOps
    PROVE  flow[f].run \in Runs /\ run[flow[f].run] \in RunRow
<1>1. flow[f].run \in Runs  BY DEF Writes
<1>2. RootedFlow(run, link, f, flow[f])  BY DEF Rooted
<1>3. QED  BY <1>1, <1>2 DEF RootedFlow, TypeOK

LEMMA RunWritesType ==
    ASSUME TypeOK, Rooted, Defensible, NEW f \in Flows,
           RecordResult(f) \/ PatchStatus(f) \/ PatchTitle(f) \/ InsertRun(f)
    PROVE  TypeOK' /\ Rooted' /\ Defensible'
<1>1. flow[f].op \in {"result", "status", "edit", "create"}
  BY DEF RecordResult, PatchStatus, PatchTitle, InsertRun, At
<1>2. PICK h \in Writes : h = flow[f]
  BY <1>1, FlowKinds DEF TypeOK, FlowType, RunOps
<1>3. screen' = screen /\ overtaken' = overtaken /\ link' = link /\ defect' = defect
  BY DEF RecordResult, PatchStatus, PatchTitle, InsertRun
<1>4. defect' \subseteq Defects /\ overtaken' \subseteq Browsers  BY <1>3 DEF TypeOK
<1>5. RootedFlow(run, link, f, h)  BY <1>2 DEF Rooted
<1>6. CASE RecordResult(f)
  <2>1. h.op = "result" /\ audit' = audit  BY <1>2, <1>6 DEF RecordResult, At
  <2>2. PICK r \in Runs : r = h.run /\ run[r] \in RunRow
    BY <1>2, <2>1, RowThere DEF RunOps
  <2>3. PICK c \in Cases, to \in Result : c = h.case /\ to = h.to
    BY <1>5, <2>1 DEF RootedFlow
  <2>4. ServerTyped /\ RowsLast /\ LinksLast
    <3>1. CASE UNCHANGED run  BY <1>3, <2>1, <3>1, SameServer DEF Server
    <3>2. CASE run' = [run EXCEPT ![r].result[c] = to]
      <4>1. PICK row : row = [run[r] EXCEPT !.result[c] = to]  OBVIOUS
      <4>2. row \in RunRow  BY <2>2, <4>1 DEF RunRow
      <4>3. run' = [run EXCEPT ![r] = row]  BY <3>2, <4>1
      <4>4. QED  BY <1>3, <1>4, <2>1, <4>2, <4>3, RunWritten
    <3>3. QED  BY <1>2, <1>6, <2>2, <2>3, <3>1, <3>2 DEF RecordResult
  <2>5. ScreensStep  BY <1>3, <2>4, SameScreens
  <2>6. "rejected" \in Stages /\ "result" \notin DefectOps  BY DEF Stages, DefectOps
  <2>7. CASE Goto(f, "rejected")
    BY <1>2, <1>4, <2>1, <2>4, <2>5, <2>6, <2>7, GoesTyped
  <2>8. CASE Begin(f, Past)
    BY <1>2, <1>4, <2>1, <2>4, <2>5, <2>6, <2>8, EndsTyped
  <2>9. QED  BY <1>6, <2>7, <2>8 DEF RecordResult
<1>7. CASE PatchStatus(f)
  <2>1. h.op = "status" /\ Answer(f, "answered")  BY <1>2, <1>7 DEF PatchStatus, At
  <2>2. PICK r \in Runs : r = h.run /\ run[r] \in RunRow
    BY <1>2, <2>1, RowThere DEF RunOps
  <2>3. PICK to \in Status : to = h.to  BY <1>5, <2>1 DEF RootedFlow
  <2>4. PICK row : row = [run[r] EXCEPT !.status = to]  OBVIOUS
  <2>5. row \in RunRow  BY <2>2, <2>4 DEF RunRow
  <2>6. run' = [run EXCEPT ![r] = row]
    BY <1>2, <1>7, <2>2, <2>3, <2>4 DEF PatchStatus
  <2>7. \/ audit' = audit
        \/ audit' = audit \cup {<<f, Logged(run[r].status, to)>>}
    BY <1>2, <1>7, <2>2, <2>3 DEF PatchStatus
  <2>8. Logged(run[r].status, to) \in {"updated", "sealed", "reopened", "archived"}
    BY LoggedKinds
  <2>9. ServerTyped /\ RowsLast /\ LinksLast
    BY <1>3, <1>4, <2>5, <2>6, <2>7, <2>8, RunWritten
  <2>10. QED  BY <1>2, <1>3, <2>1, <2>9, AnswersTyped
<1>8. CASE PatchTitle(f)
  <2>1. h.op = "edit" /\ Answer(f, "answered") /\ audit' = audit \cup {<<f, "updated">>}
    BY <1>2, <1>8 DEF PatchTitle, At
  <2>2. PICK r \in Runs : r = h.run /\ run[r] \in RunRow
    BY <1>2, <2>1, RowThere DEF RunOps
  <2>3. PICK row : row = [run[r] EXCEPT !.title = f]  OBVIOUS
  <2>4. row \in RunRow  BY <2>2, <2>3 DEF RunRow, Title, Runs
  <2>5. run' = [run EXCEPT ![r] = row]  BY <1>2, <1>8, <2>2, <2>3 DEF PatchTitle
  <2>6. ServerTyped /\ RowsLast /\ LinksLast
    BY <1>3, <1>4, <2>1, <2>4, <2>5, RunWritten
  <2>7. QED  BY <1>2, <1>3, <2>1, <2>6, AnswersTyped
<1>9. CASE InsertRun(f)
  <2>1. h.op = "create" /\ Answer(f, "answered") /\ audit' = audit \cup {<<f, "created">>}
    BY <1>2, <1>9 DEF InsertRun, At
  <2>2. PICK cases \in SUBSET Cases :
          run' = [run EXCEPT ![f] =
             [title |-> f, status |-> "active",
              result |-> [c \in Cases |-> IF c \in cases THEN "Not run" ELSE None]]]
    BY <1>9 DEF InsertRun
  <2>3. PICK result : result = [c \in Cases |-> IF c \in cases THEN "Not run" ELSE None]
    OBVIOUS
  <2>4. result \in [Cases -> Result \cup {None}]  BY <2>3 DEF Result
  <2>5. PICK row : row = [title |-> f, status |-> "active", result |-> result]  OBVIOUS
  <2>6. f \in Runs /\ row \in RunRow
    BY <2>4, <2>5 DEF RunRow, Title, Runs, Status
  <2>7. run' = [run EXCEPT ![f] = row]  BY <2>2, <2>3, <2>5
  <2>8. ServerTyped /\ RowsLast /\ LinksLast /\ run'[f] # None
    BY <1>3, <1>4, <2>1, <2>6, <2>7, RunWritten
  <2>9. QED  BY <1>2, <1>3, <2>1, <2>8, AnswersTyped
<1>10. QED  BY <1>6, <1>7, <1>8, <1>9

\* A link is made, by a flow that had not made one.
LEMMA LinkMade ==
    ASSUME TypeOK, NEW f \in Flows, link[f] = None, NEW row \in LinkRow,
           link' = [link EXCEPT ![f] = row], UNCHANGED <<run, defect>>,
           audit' = audit \cup {<<f, "linked">>}
    PROVE  /\ ServerTyped /\ RowsLast /\ LinksLast
           /\ f \in Links /\ link'[f] = row /\ row # None
<1>1. f \in Links  BY DEF Links
<1>2. /\ link' \in [Links -> {None} \cup LinkRow] /\ link'[f] = row
      /\ \A l \in Links \ {f} : link'[l] = link[l]
  BY <1>1 DEF TypeOK
<1>3. RowsLast  BY DEF RowsLast
<1>4. LinksLast  BY <1>2 DEF LinksLast
<1>5. audit' \subseteq Flows \X {"created", "updated", "sealed", "reopened",
                                 "archived", "linked", "unlinked"}
  BY DEF TypeOK
<1>6. row # None  BY NullAssumption
<1>7. QED  BY <1>1, <1>2, <1>3, <1>4, <1>5, <1>6 DEF ServerTyped, TypeOK

LEMMA InsertLinkTypes ==
    ASSUME TypeOK, Rooted, Defensible, MadeOnce, NEW f \in Flows, InsertLink(f)
    PROVE  TypeOK' /\ Rooted' /\ Defensible'
<1>1. flow[f].op \in DefectOps /\ flow[f].pc = "link" /\ Answer(f, "done")
  BY DEF InsertLink, DefectOps
<1>2. PICK h \in Writes : h = flow[f]  BY <1>1, FlowKinds DEF TypeOK, FlowType
<1>3. link[f] = None  BY <1>1 DEF MadeOnce, Pending, DefectOps
<1>4. RootedFlow(run, link, f, h)  BY <1>2 DEF Rooted
<1>5. h.ref \in Ref /\ h.ref[1] = h.defect  BY <1>1, <1>2, <1>4 DEF RootedFlow, DefectOps
<1>6. h.run \in Runs /\ h.case \in Cases /\ h.defect \in Defects
  BY <1>1, <1>2, <1>4 DEF RootedFlow, Writes
<1>7. PICK row : row = [run |-> h.run, case |-> h.case, ref |-> h.ref,
                        defect |-> h.defect, unlinkedBy |-> None]
  OBVIOUS
<1>8. /\ row \in LinkRow /\ row.run = h.run /\ row.case = h.case /\ row.ref = h.ref
  BY <1>5, <1>6, <1>7 DEF LinkRow
<1>9. /\ link' = [link EXCEPT ![f] = row] /\ UNCHANGED <<run, defect, screen, overtaken>>
      /\ audit' = audit \cup {<<f, "linked">>}
  BY <1>2, <1>7 DEF InsertLink
<1>10. /\ ServerTyped /\ RowsLast /\ LinksLast
       /\ f \in Links /\ link'[f] = row /\ row # None
  BY <1>3, <1>8, <1>9, LinkMade
<1>11. ScreensStep /\ overtaken' \subseteq Browsers
  BY <1>9, <1>10, SameScreens DEF TypeOK
<1>12. CASE Goto(f, "done")
  <2>1. "done" \in Stages  BY DEF Stages
  <2>2. /\ link'[f] # None /\ link'[f].run = flow[f].run
        /\ link'[f].case = flow[f].case /\ link'[f].ref[1] = flow[f].defect
    BY <1>2, <1>5, <1>8, <1>10
  <2>3. QED  BY <1>2, <1>10, <1>11, <1>12, <2>1, <2>2, GoesTyped
<1>13. CASE Failed(f)  BY <1>2, <1>10, <1>11, <1>13, FailsTyped
<1>14. QED  BY <1>1, <1>12, <1>13 DEF Answer

LEMMA OthersType ==
    ASSUME TypeOK, Rooted, Defensible, MadeOnce, NEW f \in Flows,
           OtherStatus(f) \/ OtherLink(f)
    PROVE  TypeOK' /\ Rooted' /\ Defensible'
<1>1. /\ flow[f] = Idle /\ Begin(f, Past) /\ screen' = screen
      /\ overtaken' = overtaken /\ defect' = defect
  BY DEF OtherStatus, OtherLink
<1>2. flow[f].op \notin DefectOps  BY <1>1 DEF Idle, DefectOps
<1>3. defect' \subseteq Defects /\ overtaken' \subseteq Browsers  BY <1>1 DEF TypeOK
<1>4. ServerTyped /\ RowsLast /\ LinksLast
  <2>1. CASE OtherStatus(f)
    <3>1. PICK r \in Runs, to \in Status :
            /\ run[r] # None /\ run' = [run EXCEPT ![r].status = to]
            /\ audit' = audit \cup {<<f, Logged(run[r].status, to)>>}
      BY <2>1 DEF OtherStatus
    <3>2. run[r] \in RunRow  BY <3>1 DEF TypeOK
    <3>3. PICK row : row = [run[r] EXCEPT !.status = to]  OBVIOUS
    <3>4. row \in RunRow /\ run' = [run EXCEPT ![r] = row]
      BY <3>1, <3>2, <3>3 DEF RunRow
    <3>5. Logged(run[r].status, to) \in {"updated", "sealed", "reopened", "archived"}
      BY LoggedKinds
    <3>6. UNCHANGED link  BY <2>1 DEF OtherStatus
    <3>7. QED  BY <1>3, <3>1, <3>4, <3>5, <3>6, RunWritten
  <2>2. CASE OtherLink(f)
    <3>1. PICK r \in Runs : \E c \in CasesOf(run[r]) :
             link' = [link EXCEPT ![f] = [run |-> r, case |-> c, ref |-> <<None, "ref">>,
                                          defect |-> None, unlinkedBy |-> None]]
      BY <2>2 DEF OtherLink
    <3>2. PICK c \in CasesOf(run[r]) :
             link' = [link EXCEPT ![f] = [run |-> r, case |-> c, ref |-> <<None, "ref">>,
                                          defect |-> None, unlinkedBy |-> None]]
      BY <3>1
    <3>3. c \in Cases  BY DEF CasesOf
    <3>4. PICK row : row = [run |-> r, case |-> c, ref |-> <<None, "ref">>,
                            defect |-> None, unlinkedBy |-> None]
      OBVIOUS
    <3>5. row \in LinkRow  BY <3>3, <3>4 DEF LinkRow, Ref
    <3>6. link[f] = None  BY <1>1 DEF MadeOnce, Pending
    <3>7. run' = run /\ audit' = audit \cup {<<f, "linked">>}  BY <2>2 DEF OtherLink
    <3>8. QED  BY <1>1, <3>2, <3>4, <3>5, <3>6, <3>7, LinkMade
  <2>3. QED  BY <2>1, <2>2
<1>5. ScreensStep  BY <1>1, <1>4, SameScreens
<1>6. QED  BY <1>1, <1>2, <1>3, <1>4, <1>5, EndsTyped

LEMMA DefectWritesType ==
    ASSUME TypeOK, Rooted, Defensible, NEW f \in Flows, InsertDefect(f) \/ Fail(f)
    PROVE  TypeOK' /\ Rooted' /\ Defensible'
<1>1. flow[f].op \in RunOps \cup {"create"}
  BY DEF InsertDefect, Fail, At, RunOps
<1>2. PICK h \in Writes : h = flow[f]  BY <1>1, FlowKinds DEF TypeOK, FlowType
<1>3. screen' = screen /\ overtaken' = overtaken /\ run' = run /\ link' = link
  BY DEF InsertDefect, Fail, Server
<1>4. RowsLast /\ LinksLast  BY <1>3 DEF RowsLast, LinksLast
<1>5. ScreensStep /\ overtaken' \subseteq Browsers
  BY <1>3, <1>4, SameScreens DEF TypeOK
<1>6. CASE InsertDefect(f)
  <2>1. /\ flow[f].op = "defect" /\ Answer(f, "answered")
        /\ defect' = defect \cup {f} /\ audit' = audit \cup {<<f, "created">>}
    BY <1>6 DEF InsertDefect, At
  <2>2. ServerTyped  BY <1>3, <2>1 DEF ServerTyped, TypeOK, Defects
  <2>3. QED  BY <1>2, <1>3, <1>4, <2>1, <2>2, AnswersTyped
<1>7. CASE Fail(f)
  <2>1. /\ UNCHANGED Server
        /\ (Goto(f, "rejected") /\ flow[f].op = "result") \/ Failed(f)
    BY <1>7 DEF Fail
  <2>2. ServerTyped  BY <2>1, SameServer
  <2>3. CASE Goto(f, "rejected") /\ flow[f].op = "result"
    <3>1. "rejected" \in Stages  BY DEF Stages
    <3>2. QED  BY <1>2, <1>4, <1>5, <2>2, <2>3, <3>1, GoesTyped DEF DefectOps
  <2>4. CASE Failed(f)  BY <1>2, <1>4, <1>5, <2>2, <2>4, FailsTyped
  <2>5. QED  BY <2>1, <2>3, <2>4
<1>8. QED  BY <1>6, <1>7

LEMMA UnlinkingTypes ==
    ASSUME TypeOK, Rooted, Defensible, NEW f \in Flows,
           Unlink(f) \/ UnlinkRow(f) \/ UnlinkAudit(f)
    PROVE  TypeOK' /\ Rooted' /\ Defensible'
<1>1. screen' = screen /\ overtaken' = overtaken /\ run' = run /\ defect' = defect
  BY DEF Unlink, UnlinkRow, UnlinkAudit, Server
<1>2. overtaken' \subseteq Browsers /\ RowsLast  BY <1>1 DEF TypeOK, RowsLast
<1>3. ScreensStep  BY <1>1, <1>2, SameScreens
<1>4. CASE Unlink(f)
  <2>1. PICK l \in Links :
          /\ link[l] # None
          /\ Begin(f, [op |-> "unlink", pc |-> "update", link |-> l])
    BY <1>4 DEF Unlink
  <2>2. UNCHANGED Server /\ flow[f] = Idle  BY <1>4 DEF Unlink
  <2>3. PICK x : x = [op |-> "unlink", pc |-> "update", link |-> l]  OBVIOUS
  <2>4. x \in FlowType /\ x.op = "unlink" /\ x.link = l
    BY <2>3 DEF FlowType, Unlinks
  <2>5. RootedFlow(run, link, f, x)
    BY <2>1, <2>4 DEF RootedFlow, DefectOps, RunOps
  <2>6. QED  BY <1>2, <1>3, <2>1, <2>2, <2>3, <2>4, <2>5, BeginsTyped
<1>5. CASE UnlinkRow(f) \/ UnlinkAudit(f)
  <2>1. flow[f].op = "unlink"  BY <1>5 DEF UnlinkRow, UnlinkAudit, At
  <2>2. PICK h \in Unlinks : h = flow[f]  BY <2>1, FlowKinds DEF TypeOK, FlowType
  <2>3. PICK pc \in {"audit", "unaudited", "done"} : Goto(f, pc)
    BY <1>5 DEF UnlinkRow, UnlinkAudit
  <2>4. PICK x : x = [h EXCEPT !.pc = pc]  OBVIOUS
  <2>5. x \in Unlinks /\ x.op = "unlink" /\ x.link = h.link /\ h.link \in Links
    BY <2>4 DEF Unlinks
  <2>6. x \in FlowType  BY <2>5 DEF FlowType
  <2>7. flow' = [flow EXCEPT ![f] = x] /\ flow'[f] = x
    BY <2>2, <2>3, <2>4 DEF Goto, TypeOK
  <2>8. link[h.link] \in LinkRow /\ link[h.link] # None
    BY <2>1, <2>2, <2>5 DEF Rooted, RootedFlow, TypeOK
  <2>9. /\ link' \in [Links -> {None} \cup LinkRow] /\ LinksLast
    <3>1. CASE UnlinkRow(f)
      <4>1. PICK row : row = [link[h.link] EXCEPT !.unlinkedBy = f]  OBVIOUS
      <4>2. /\ row \in LinkRow /\ row.run = link[h.link].run
            /\ row.case = link[h.link].case /\ row.ref = link[h.link].ref
        BY <2>8, <4>1 DEF LinkRow
      <4>3. link' = [link EXCEPT ![h.link] = row]
        BY <2>2, <3>1, <4>1 DEF UnlinkRow
      <4>4. row # None  BY <4>2, NullAssumption
      <4>5. /\ link' \in [Links -> {None} \cup LinkRow] /\ link'[h.link] = row
            /\ \A l \in Links \ {h.link} : link'[l] = link[l]
        BY <2>5, <4>2, <4>3 DEF TypeOK
      <4>6. QED  BY <4>2, <4>4, <4>5 DEF LinksLast
    <3>2. CASE UnlinkAudit(f)  BY <3>2 DEF UnlinkAudit, TypeOK, LinksLast
    <3>3. QED  BY <1>5, <3>1, <3>2
  <2>10. audit' \subseteq Flows \X {"created", "updated", "sealed", "reopened",
                                    "archived", "linked", "unlinked"}
    BY <1>5 DEF UnlinkRow, UnlinkAudit, TypeOK
  <2>11. ServerTyped  BY <1>1, <2>9, <2>10 DEF ServerTyped, TypeOK
  <2>12. RootedFlow(run', link', f, x)
    BY <2>5, <2>8, <2>9 DEF RootedFlow, DefectOps, RunOps, LinksLast
  <2>13. ClaimLasts(f)  BY <2>1 DEF ClaimLasts, DefectOps
  <2>14. PrevGood(f)'  BY <2>5, <2>7 DEF PrevGood
  <2>15. QED
    BY <1>2, <1>3, <2>6, <2>7, <2>9, <2>11, <2>12, <2>13, <2>14, FlowStep
<1>6. QED  BY <1>4, <1>5

-----------------------------------------------------------------------------
(* Answers, again *)

LEMMA EndsClaims ==
    ASSUME TypeOK, NEW f \in Flows, Begin(f, Past), flow[f].op \notin DefectOps
    PROVE  \A g \in Flows : ClaimLasts(g)
<1>1. \A g \in Flows \ {f} : flow'[g] = flow[g]  BY DEF Begin, TypeOK
<1>2. QED  BY <1>1 DEF ClaimLasts

\* Browser b shows of its runs what it showed.
LEMMA SameExec ==
    ASSUME TypeOK, Rooted, RowsLast, NEW b \in Browsers, NEW runs,
           \A q \in Runs : runs[q] # None =>
               screen[b].runs[q] # None /\ runs[q].exec = screen[b].runs[q].exec
    PROVE  NewRuns(b, runs)
<1>1. NewRuns(b, screen[b].runs)  BY SameRuns
<1>2. QED  BY <1>1 DEF NewRuns, Showing

LEMMA RollbackTypes ==
    ASSUME TypeOK, Rooted, Defensible, NEW f \in Flows, Rollback(f)
    PROVE  TypeOK' /\ Rooted' /\ Defensible'
<1>1. /\ flow[f].op = "result" /\ flow[f].op \notin DefectOps /\ Begin(f, Past)
      /\ UNCHANGED Server /\ overtaken' \subseteq Browsers
  BY DEF Rollback, At, DefectOps, TypeOK
<1>2. ServerTyped /\ RowsLast /\ LinksLast  BY <1>1, SameServer
<1>3. PICK h \in Writes : h = flow[f]
  BY <1>1, FlowKinds DEF TypeOK, FlowType, RunOps
<1>4. RootedFlow(run, link, f, h)  BY <1>3 DEF Rooted
<1>5. PICK b \in Browsers : b = Owner[f]  BY <1>1, <1>3, <1>4 DEF RootedFlow, RunOps
<1>6. PICK r \in Runs, c \in Cases, prev \in Exec : r = h.run /\ c = h.case /\ prev = h.prev
  BY <1>1, <1>3, <1>4 DEF RootedFlow, Writes
<1>7. PICK s \in Screen : s = screen[b]  BY DEF TypeOK
<1>8. CASE ~Mutable(s, r)
  <2>1. screen' = screen  BY <1>3, <1>5, <1>6, <1>7, <1>8 DEF Rollback
  <2>2. QED  BY <1>1, <1>2, <2>1, SameScreens, EndsTyped
<1>9. CASE Mutable(s, r)
  <2>1. s.runs[r] # None  BY <1>9 DEF Mutable
  <2>2. PICK runs : runs = Instead(s.runs, r, c, prev)  OBVIOUS
  <2>3. PICK new : new = [s EXCEPT !.runs = runs]  OBVIOUS
  <2>4. screen' = [screen EXCEPT ![b] = new]
    BY <1>3, <1>5, <1>6, <1>7, <1>9, <2>2, <2>3 DEF Rollback, Instead
  <2>5. \A name \in prev.defects : Good(b, r, c, name)
    BY <1>1, <1>3, <1>5, <1>6 DEF Defensible, PrevGood
  <2>6. \A g \in Flows : ClaimLasts(g)  BY <1>1, EndsClaims
  <2>7. ASSUME NEW name \in prev.defects  PROVE Good(b, r, c, name)'
    BY <1>2, <2>5, <2>6, GoodLasts
  <2>8. ExecGood(b, r, c, prev)  BY <2>7 DEF ExecGood
  <2>9. /\ runs \in [Runs -> {None} \cup DemoRun] /\ NewRuns(b, runs)
        /\ \A q \in Runs : screen[b].runs[q] # None => runs[q] # None
    BY <1>2, <1>7, <2>1, <2>2, <2>8, ExecChanged
  <2>10. /\ new \in Screen /\ new.runs = runs /\ new.url = s.url
         /\ new.current = s.current
    BY <2>3, <2>9 DEF Screen
  <2>11. ScreensStep  BY <1>2, <1>7, <2>4, <2>9, <2>10, StaysThere
  <2>12. QED  BY <1>1, <1>2, <2>11, EndsTyped
<1>10. QED  BY <1>8, <1>9

LEMMA RenamedNames ==
    ASSUME NEW ids \in SUBSET Named, NEW f \in Flows
    PROVE  /\ Renamed(ids, f) \subseteq Named
           /\ \A name \in Renamed(ids, f) :
                 name \in ids \/ \E old \in ids : name[1] = old[1]
<1>1. Real(f) \in Named /\ Real(f)[1] = f /\ Temp(f)[1] = f
  BY DEF Real, Temp, Named, Id, Defects
<1>2. QED  BY <1>1 DEF Renamed

LEMMA ReconcileTypes ==
    ASSUME TypeOK, Rooted, Defensible, NEW f \in Flows, Reconcile(f)
    PROVE  TypeOK' /\ Rooted' /\ Defensible'
<1>1. flow[f].op = "defect" /\ UNCHANGED Server /\ overtaken' \subseteq Browsers
  BY DEF Reconcile, At, TypeOK
<1>2. ServerTyped /\ RowsLast /\ LinksLast  BY <1>1, SameServer
<1>3. PICK h \in Writes : h = flow[f]
  BY <1>1, FlowKinds DEF TypeOK, FlowType, RunOps
<1>4. RootedFlow(run, link, f, h)  BY <1>3 DEF Rooted
<1>5. PICK b \in Browsers : b = Owner[f]  BY <1>1, <1>3, <1>4 DEF RootedFlow, RunOps
<1>6. PICK s \in Screen : s = screen[b]  BY DEF TypeOK
<1>7. PICK ref : ref = KeyOf(Real(f))  OBVIOUS
<1>8. ref \in Ref /\ ref[1] = f  BY <1>7 DEF KeyOf, Real, Ref, Defects
<1>9. PICK pc \in {"link", "unsent"} : pc = LinkIf(s, h.run, h.case)  BY DEF LinkIf
<1>10. PICK x : x = [h EXCEPT !.ref = ref, !.pc = pc]  OBVIOUS
<1>11. /\ x \in Writes /\ x.op = h.op /\ x.run = h.run /\ x.case = h.case
       /\ x.defect = h.defect /\ x.ref = ref /\ x.pc = pc
  BY <1>8, <1>10 DEF Writes
<1>12. flow' = [flow EXCEPT ![f] = x]
  BY <1>3, <1>5, <1>6, <1>7, <1>9, <1>10 DEF Reconcile, Begin
<1>13. flow'[f] = x /\ \A g \in Flows \ {f} : flow'[g] = flow[g]
  BY <1>12 DEF TypeOK
<1>14. x \in FlowType  BY <1>11 DEF FlowType
<1>15. RootedFlow(run, link, f, x)
  BY <1>1, <1>3, <1>4, <1>8, <1>11 DEF RootedFlow, RunOps, DefectOps
<1>16. RootedFlow(run', link', f, x)  BY <1>1, <1>15 DEF Server
<1>17. ClaimLasts(f)  BY <1>1, <1>3, <1>11, <1>13 DEF ClaimLasts
<1>18. \A g \in Flows : ClaimLasts(g)  BY <1>13, <1>17 DEF ClaimLasts
<1>19. PrevGood(f)'  BY <1>1, <1>3, <1>11, <1>13 DEF PrevGood
<1>20. ScreensStep
  <2>1. PICK keys : keys = (s.keys \ {Temp(f)}) \cup {Real(f)}  OBVIOUS
  <2>2. keys \subseteq Id  BY <2>1 DEF Screen, Real, Id, Defects
  <2> DEFINE Execs(r) == [c \in Cases |->
                 [s.runs[r].exec[c] EXCEPT !.defects = Renamed(@, f)]]
  <2>3. PICK runs :
           runs = [r \in Runs |->
               IF s.runs[r] = None THEN None
               ELSE [s.runs[r] EXCEPT !.exec = [c \in Cases |->
                        [s.runs[r].exec[c] EXCEPT !.defects = Renamed(@, f)]]]]
    OBVIOUS
  <2>4. PICK new : new = [s EXCEPT !.keys = keys, !.runs = runs]  OBVIOUS
  <2>5. screen' = [screen EXCEPT ![b] = new]
    <3>1. screen' = [screen EXCEPT ![b] = Reconciled(s, f)]
      BY <1>5, <1>6 DEF Reconcile
    <3>2. Reconciled(s, f) = new  BY <2>1, <2>3, <2>4 DEF Reconciled
    <3>3. QED  BY <3>1, <3>2
  <2>6. ASSUME NEW r \in Runs, s.runs[r] # None
        PROVE  /\ runs[r] \in DemoRun /\ runs[r] # None
               /\ \A c \in Cases : runs[r].exec[c].defects = Renamed(s.runs[r].exec[c].defects, f)
    <3>1. s.runs[r] \in DemoRun  BY <2>6 DEF Screen
    <3>2. ASSUME NEW c \in Cases
          PROVE  Execs(r)[c] \in Exec
                 /\ Execs(r)[c].defects = Renamed(s.runs[r].exec[c].defects, f)
      <4>1. PICK old \in Exec : old = s.runs[r].exec[c]  BY <3>1 DEF DemoRun
      <4>2. old.defects \in SUBSET Named  BY DEF Exec
      <4>3. Renamed(old.defects, f) \subseteq Named  BY <4>2, RenamedNames
      <4>4. Execs(r)[c] = [old EXCEPT !.defects = Renamed(@, f)]  BY <4>1
      <4>5. QED  BY <4>1, <4>3, <4>4 DEF Exec
    <3>3. Execs(r) \in [Cases -> Exec]  BY <3>2
    <3>4. PICK execs : execs = Execs(r)  OBVIOUS
    <3>5. runs[r] = [s.runs[r] EXCEPT !.exec = execs]
      BY <2>3, <2>6, <3>4
    <3>6. runs[r] \in DemoRun /\ runs[r].exec = execs  BY <3>1, <3>3, <3>4, <3>5 DEF DemoRun
    <3>7. QED  BY <3>2, <3>4, <3>6, NullAssumption
  <2>7. \A r \in Runs : s.runs[r] = None => runs[r] = None  BY <2>3
  <2>8. runs \in [Runs -> {None} \cup DemoRun]
    BY <2>3, <2>6, <2>7
  <2>9. ASSUME NEW r \in Runs, NEW c \in Cases, NEW name,
               runs[r] # None, name \in runs[r].exec[c].defects
        PROVE  Showing(s, r, c, name) \/ Good(b, r, c, name)'
    <3>1. s.runs[r] # None /\ s.runs[r] \in DemoRun  BY <2>7, <2>9 DEF Screen
    <3>2. name \in Renamed(s.runs[r].exec[c].defects, f)  BY <2>6, <2>9, <3>1
    <3>3. s.runs[r].exec[c].defects \in SUBSET Named  BY <3>1 DEF DemoRun, Exec
    <3>4. CASE name \in s.runs[r].exec[c].defects  BY <3>1, <3>4 DEF Showing
    <3>5. CASE \E old \in s.runs[r].exec[c].defects : name[1] = old[1]
      <4>1. PICK old \in s.runs[r].exec[c].defects : name[1] = old[1]  BY <3>5
      <4>2. Good(b, r, c, old)
        BY <1>6, <3>1, <4>1 DEF Defensible, ShownDefectsLinked, Good, DefectOps
      <4>3. Good(b, r, c, name)  BY <4>1, <4>2 DEF Good
      <4>4. QED  BY <1>2, <1>18, <4>3, GoodLasts
    <3>6. QED  BY <3>2, <3>3, <3>4, <3>5, RenamedNames
  <2>10. NewRuns(b, runs)
    <3>1. \A r \in Runs : runs[r] # None => run'[r] # None
      BY <1>2, <1>6, <2>7, SameRuns DEF NewRuns
    <3>2. QED  BY <1>6, <2>9, <3>1 DEF NewRuns
  <2>11. new \in Screen /\ new.runs = runs /\ new.url = s.url /\ new.current = s.current
    BY <2>2, <2>4, <2>8 DEF Screen
  <2>12. QED  BY <1>2, <1>6, <2>5, <2>6, <2>10, <2>11, StaysThere
<1>21. QED
  BY <1>1, <1>2, <1>12, <1>14, <1>16, <1>17, <1>19, <1>20, FlowStep

LEMMA AwaitedTypes ==
    ASSUME TypeOK, Rooted, Defensible, NEW f \in Flows, Awaited(f)
    PROVE  TypeOK' /\ Rooted' /\ Defensible'
<1>1. /\ flow[f].op = "link" /\ UNCHANGED Server /\ screen' = screen
      /\ overtaken' \subseteq Browsers
  BY DEF Awaited, At, TypeOK
<1>2. ServerTyped /\ RowsLast /\ LinksLast  BY <1>1, SameServer
<1>3. flow[f] \in Writes  BY <1>1, FlowKinds DEF TypeOK, FlowType, RunOps
<1>4. PICK pc \in {"failed", "link", "unsent"} : Goto(f, pc)  BY DEF Awaited, LinkIf
<1>5. pc \in Stages /\ pc # "done"  BY DEF Stages
<1>6. ScreensStep  BY <1>1, <1>2, SameScreens
<1>7. QED  BY <1>1, <1>2, <1>3, <1>4, <1>5, <1>6, GoesTyped

LEMMA ConfirmStatusTypes ==
    ASSUME TypeOK, Rooted, Defensible, NEW f \in Flows, ConfirmStatus(f)
    PROVE  TypeOK' /\ Rooted' /\ Defensible'
<1>1. /\ flow[f].op = "status" /\ flow[f].op \notin DefectOps /\ Begin(f, Past)
      /\ UNCHANGED Server
  BY DEF ConfirmStatus, At, DefectOps
<1>2. ServerTyped /\ RowsLast /\ LinksLast  BY <1>1, SameServer
<1>3. PICK h \in Writes : h = flow[f]
  BY <1>1, FlowKinds DEF TypeOK, FlowType, RunOps
<1>4. RootedFlow(run, link, f, h)  BY <1>3 DEF Rooted
<1>5. PICK b \in Browsers : b = Owner[f]  BY <1>1, <1>3, <1>4 DEF RootedFlow, RunOps
<1>6. PICK r \in Runs : r = h.run  BY DEF Writes
<1>7. PICK s \in Screen : s = screen[b]  BY DEF TypeOK
<1>8. RootedScreen(run, s)  BY <1>7 DEF Rooted
<1>9. PICK sealed \in BOOLEAN : sealed = (h.to = "sealed")  OBVIOUS
<1>10. \/ UNCHANGED <<screen, overtaken>>
       \/ Show(b, WithoutRun(s, r))
       \/ s.runs[r] # None /\ Show(b, [s EXCEPT !.runs[r].sealed = sealed])
  BY <1>3, <1>5, <1>6, <1>7, <1>9 DEF ConfirmStatus
<1>11. CASE UNCHANGED <<screen, overtaken>>
  <2>1. ScreensStep /\ overtaken' \subseteq Browsers
    BY <1>2, <1>11, SameScreens DEF TypeOK
  <2>2. QED  BY <1>1, <1>2, <2>1, EndsTyped
<1>12. CASE Show(b, WithoutRun(s, r))
  <2>1. PICK runs : runs = [q \in Runs |-> IF q = r THEN None ELSE s.runs[q]]  OBVIOUS
  <2>2. runs \in [Runs -> {None} \cup DemoRun]  BY <2>1 DEF Screen
  <2>3. PICK current : current = IF s.current = r THEN None ELSE s.current  OBVIOUS
  <2>4. PICK new : new = [s EXCEPT !.runs = runs, !.current = current]  OBVIOUS
  <2>5. new \in Screen /\ new.runs = runs /\ new.current = current
    BY <2>2, <2>3, <2>4 DEF Screen
  <2>6. Show(b, new)  BY <1>12, <2>1, <2>3, <2>4 DEF WithoutRun
  <2>7. NewRuns(b, runs)  BY <1>2, <1>7, <2>1, SameExec
  <2>8. current # None => runs[current] # None
    BY <1>8, <2>1, <2>3, <2>5 DEF RootedScreen, Screen
  <2>9. ScreensStep /\ overtaken' \subseteq Browsers
    BY <1>2, <2>5, <2>6, <2>7, <2>8, ShowTyped
  <2>10. QED  BY <1>1, <1>2, <2>9, EndsTyped
<1>13. CASE s.runs[r] # None /\ Show(b, [s EXCEPT !.runs[r].sealed = sealed])
  <2>1. s.runs[r] \in DemoRun  BY <1>13 DEF Screen
  <2>2. PICK there : there = [s.runs[r] EXCEPT !.sealed = sealed]  OBVIOUS
  <2>3. there \in DemoRun /\ there.exec = s.runs[r].exec /\ there # None
    <3>1. there \in DemoRun /\ there.exec = s.runs[r].exec  BY <2>1, <2>2 DEF DemoRun
    <3>2. QED  BY <3>1, NullAssumption
  <2>4. PICK runs : runs = [s.runs EXCEPT ![r] = there]  OBVIOUS
  <2>5. /\ runs \in [Runs -> {None} \cup DemoRun] /\ runs[r] = there
        /\ \A q \in Runs \ {r} : runs[q] = s.runs[q]
    BY <2>3, <2>4 DEF Screen
  <2>6. PICK new : new = [s EXCEPT !.runs = runs]  OBVIOUS
  <2>7. new \in Screen /\ new.runs = runs /\ new.current = s.current
    BY <2>5, <2>6 DEF Screen
  <2>8. Show(b, new)  BY <1>13, <2>2, <2>4, <2>6
  <2>9. NewRuns(b, runs)  BY <1>2, <1>7, <1>13, <2>3, <2>5, SameExec
  <2>10. s.current # None => runs[s.current] # None
    BY <1>8, <2>3, <2>5 DEF RootedScreen, Screen
  <2>11. ScreensStep /\ overtaken' \subseteq Browsers
    BY <1>2, <2>7, <2>8, <2>9, <2>10, ShowTyped
  <2>12. QED  BY <1>1, <1>2, <2>11, EndsTyped
<1>14. QED  BY <1>10, <1>11, <1>12, <1>13

LEMMA ConfirmEditTypes ==
    ASSUME TypeOK, Rooted, Defensible, NEW f \in Flows, ConfirmEdit(f)
    PROVE  TypeOK' /\ Rooted' /\ Defensible'
<1>1. /\ flow[f].op = "edit" /\ flow[f].op \notin DefectOps /\ Begin(f, Past)
      /\ UNCHANGED Server /\ overtaken' \subseteq Browsers
  BY DEF ConfirmEdit, At, DefectOps, TypeOK
<1>2. ServerTyped /\ RowsLast /\ LinksLast  BY <1>1, SameServer
<1>3. PICK h \in Writes : h = flow[f]
  BY <1>1, FlowKinds DEF TypeOK, FlowType, RunOps
<1>4. RootedFlow(run, link, f, h)  BY <1>3 DEF Rooted
<1>5. PICK b \in Browsers : b = Owner[f]  BY <1>1, <1>3, <1>4 DEF RootedFlow, RunOps
<1>6. PICK r \in Runs : r = h.run  BY DEF Writes
<1>7. PICK s \in Screen : s = screen[b]  BY DEF TypeOK
<1>8. CASE s.runs[r] = None
  <2>1. screen' = screen  BY <1>3, <1>5, <1>6, <1>7, <1>8 DEF ConfirmEdit
  <2>2. ScreensStep  BY <1>2, <2>1, SameScreens
  <2>3. QED  BY <1>1, <1>2, <2>2, EndsTyped
<1>9. CASE s.runs[r] # None
  <2>1. s.runs[r] \in DemoRun  BY <1>9 DEF Screen
  <2>2. PICK there : there = [s.runs[r] EXCEPT !.title = f]  OBVIOUS
  <2>3. there \in DemoRun /\ there.exec = s.runs[r].exec /\ there # None
    <3>1. there \in DemoRun /\ there.exec = s.runs[r].exec
      BY <2>1, <2>2 DEF DemoRun, Title, Runs
    <3>2. QED  BY <3>1, NullAssumption
  <2>4. PICK runs : runs = [s.runs EXCEPT ![r] = there]  OBVIOUS
  <2>5. /\ runs \in [Runs -> {None} \cup DemoRun] /\ runs[r] = there
        /\ \A q \in Runs \ {r} : runs[q] = s.runs[q]
    BY <2>3, <2>4 DEF Screen
  <2>6. PICK new : new = [s EXCEPT !.runs = runs]  OBVIOUS
  <2>7. new \in Screen /\ new.runs = runs /\ new.url = s.url /\ new.current = s.current
    BY <2>5, <2>6 DEF Screen
  <2>8. screen' = [screen EXCEPT ![b] = new]
    BY <1>3, <1>5, <1>6, <1>7, <1>9, <2>2, <2>4, <2>6 DEF ConfirmEdit
  <2>9. NewRuns(b, runs)  BY <1>2, <1>7, <1>9, <2>3, <2>5, SameExec
  <2>10. \A q \in Runs : s.runs[q] # None => runs[q] # None  BY <2>3, <2>5
  <2>11. ScreensStep  BY <1>2, <1>7, <2>7, <2>8, <2>9, <2>10, StaysThere
  <2>12. QED  BY <1>1, <1>2, <2>11, EndsTyped
<1>10. QED  BY <1>8, <1>9

-----------------------------------------------------------------------------
(* A run as a browser builds it from rows *)

LEMMA LocalRunTyped ==
    ASSUME NEW row \in RunRow, NEW r \in Runs, NEW rows \in [Links -> {None} \cup LinkRow],
           NEW known \in SUBSET Defects, NEW there, there = LocalRun(row, r, rows, known)
    PROVE  /\ there \in DemoRun /\ there # None
           /\ \A c \in Cases : \A name \in there.exec[c].defects :
                 \E l \in Links : /\ rows[l] # None /\ rows[l].run = r /\ rows[l].case = c
                                  /\ name[1] = rows[l].ref[1]
<1>1. ASSUME NEW ref \in Ref  PROVE Shown(ref, known) \in Named /\ Shown(ref, known)[1] = ref[1]
  BY DEF Shown, Real, Ref, Named, Id
<1>2. ASSUME NEW c \in Cases
      PROVE  /\ ExecOf(row, r, c, rows, known) \in Exec
             /\ \A name \in ExecOf(row, r, c, rows, known).defects :
                   \E l \in Links : /\ rows[l] # None /\ rows[l].run = r
                                    /\ rows[l].case = c /\ name[1] = rows[l].ref[1]
  <2>1. PICK status : status = IF row.result[c] = None THEN "Not run" ELSE row.result[c]
    OBVIOUS
  <2>2. status \in Result  BY <2>1 DEF RunRow, Result
  <2>3. PICK defects : defects = {Shown(rows[l].ref, known) : l \in Active(rows, r, c)}
    OBVIOUS
  <2>4. \A l \in Active(rows, r, c) :
           /\ l \in Links /\ rows[l] # None /\ rows[l].run = r /\ rows[l].case = c
           /\ rows[l].ref \in Ref
    BY DEF Active, LinkRow
  <2>5. \A name \in defects : \E l \in Active(rows, r, c) : name = Shown(rows[l].ref, known)
    BY <2>3
  <2>6. ASSUME NEW name \in defects
        PROVE  /\ name \in Named
               /\ \E l \in Links : /\ rows[l] # None /\ rows[l].run = r
                                   /\ rows[l].case = c /\ name[1] = rows[l].ref[1]
    <3>1. PICK l \in Active(rows, r, c) : name = Shown(rows[l].ref, known)  BY <2>5
    <3>2. PICK ref \in Ref : ref = rows[l].ref  BY <2>4
    <3>3. QED  BY <1>1, <2>4, <3>1, <3>2
  <2>7. ExecOf(row, r, c, rows, known) = [status |-> status, defects |-> defects]
    BY <2>1, <2>3 DEF ExecOf
  <2>8. QED  BY <2>2, <2>6, <2>7 DEF Exec
<1>3. PICK exec : exec = [c \in Cases |-> ExecOf(row, r, c, rows, known)]  OBVIOUS
<1>4. exec \in [Cases -> Exec]  BY <1>2, <1>3
<1>5. row.title \in Title /\ CasesOf(row) \subseteq Cases  BY DEF RunRow, CasesOf
<1>6. there = [title |-> row.title, sealed |-> row.status = "sealed",
               archived |-> row.status = "archived", cases |-> CasesOf(row),
               exec |-> exec]
  BY <1>3 DEF LocalRun
<1>7. there \in DemoRun /\ there.exec = exec  BY <1>4, <1>5, <1>6 DEF DemoRun
<1>8. there # None  BY <1>7, NullAssumption
<1>9. QED  BY <1>2, <1>3, <1>7, <1>8

LEMMA ConfirmCreateTypes ==
    ASSUME TypeOK, Rooted, Defensible, NEW f \in Flows, ConfirmCreate(f)
    PROVE  TypeOK' /\ Rooted' /\ Defensible'
<1>1. /\ flow[f].op = "create" /\ flow[f].pc = "answered" /\ flow[f].op \notin DefectOps
      /\ Begin(f, Past) /\ UNCHANGED Server
  BY DEF ConfirmCreate, At, DefectOps
<1>2. ServerTyped /\ RowsLast /\ LinksLast  BY <1>1, SameServer
<1>3. RootedFlow(run, link, f, flow[f])  BY DEF Rooted
<1>4. PICK b \in Browsers : b = Owner[f]  BY <1>1, <1>3 DEF RootedFlow
<1>5. f \in Runs /\ run[f] # None  BY <1>1, <1>3 DEF RootedFlow, Runs
<1>6. PICK row \in RunRow : row = run[f]  BY <1>5 DEF TypeOK
<1>7. PICK s \in Screen : s = screen[b]  BY DEF TypeOK
<1>8. PICK rows : rows = [l \in Links |-> None]  OBVIOUS
<1>9. rows \in [Links -> {None} \cup LinkRow]  BY <1>8
<1>10. PICK there : there = LocalRun(row, f, rows, {})  OBVIOUS
<1>11. /\ there \in DemoRun /\ there # None
       /\ \A c \in Cases : \A name \in there.exec[c].defects :
             \E l \in Links : /\ rows[l] # None /\ rows[l].run = f /\ rows[l].case = c
                              /\ name[1] = rows[l].ref[1]
  BY <1>5, <1>9, <1>10, LocalRunTyped
<1>12. \A c \in Cases : there.exec[c].defects = {}  BY <1>8, <1>11
<1>13. PICK runs : runs = [s.runs EXCEPT ![f] = there]  OBVIOUS
<1>14. /\ runs \in [Runs -> {None} \cup DemoRun] /\ runs[f] = there
       /\ \A q \in Runs \ {f} : runs[q] = s.runs[q]
  BY <1>5, <1>11, <1>13 DEF Screen
<1>15. PICK mapped : mapped = [s.mapped EXCEPT ![f] = CasesOf(row)]  OBVIOUS
<1>16. mapped \in [Runs -> SUBSET Cases]  BY <1>15 DEF Screen, CasesOf
<1>17. PICK new : new = [s EXCEPT !.runs = runs, !.mapped = mapped, !.current = f,
                                  !.going = f]
  OBVIOUS
<1>18. /\ new \in Screen /\ new.runs = runs /\ new.url = s.url /\ new.current = f
  BY <1>5, <1>14, <1>16, <1>17 DEF Screen
<1>19. Pushed(b, new)
  <2>1. WithRun(s, f) = [s EXCEPT !.runs = runs, !.mapped = mapped, !.current = f]
    BY <1>6, <1>8, <1>10, <1>13, <1>15 DEF WithRun
  <2>2. [WithRun(s, f) EXCEPT !.going = f] = new  BY <1>17, <2>1 DEF Screen
  <2>3. QED  BY <1>4, <1>7, <2>2 DEF ConfirmCreate
<1>20. screen' = [screen EXCEPT ![b] = new] /\ overtaken' \subseteq Browsers
  BY <1>19 DEF Pushed, TypeOK
<1>21. NewRuns(b, runs)
  <2>1. NewRuns(b, s.runs)  BY <1>2, <1>7, SameRuns
  <2>2. run'[f] # None  BY <1>2, <1>5 DEF RowsLast
  <2>3. QED  BY <1>12, <1>14, <2>1, <2>2 DEF NewRuns
<1>22. RootedScreen(run, s)  BY <1>7 DEF Rooted
<1>23. new.url # None => runs[new.url] # None
  BY <1>11, <1>14, <1>18, <1>22 DEF RootedScreen, Screen
<1>24. ScreensStep
  BY <1>2, <1>7, <1>11, <1>14, <1>18, <1>20, <1>21, <1>23, OneScreen
<1>25. QED  BY <1>1, <1>2, <1>20, <1>24, EndsTyped

LEMMA ReadsType ==
    ASSUME TypeOK, Rooted, Defensible, NEW f \in Flows,
           ReadRuns(f) \/ ReadLinks(f) \/ ReadDefects(f)
    PROVE  TypeOK' /\ Rooted' /\ Defensible'
<1>1. /\ flow[f].op = "sync" /\ UNCHANGED Server /\ screen' = screen
      /\ overtaken' \subseteq Browsers
  BY DEF ReadRuns, ReadLinks, ReadDefects, Reading, At, TypeOK
<1>2. ServerTyped /\ RowsLast /\ LinksLast  BY <1>1, SameServer
<1>3. PICK h \in Syncs : h = flow[f]  BY <1>1, FlowKinds DEF TypeOK, FlowType
<1>4. RootedFlow(run, link, f, h)  BY <1>3 DEF Rooted
<1>5. PICK x \in Syncs : flow' = [flow EXCEPT ![f] = x] /\ RootedFlow(run, link, f, x)
  <2>1. CASE ReadRuns(f)
    <3>1. PICK x : x = [h EXCEPT !.rows = run]  OBVIOUS
    <3>2. x \in Syncs /\ x.op = "sync" /\ x.rows = run /\ x.links = h.links
      BY <3>1 DEF Syncs, TypeOK
    <3>3. flow' = [flow EXCEPT ![f] = x]  BY <1>3, <2>1, <3>1 DEF ReadRuns
    <3>4. h.rows = None  BY <1>3, <2>1 DEF ReadRuns, Reading
    <3>5. h.links = None /\ Owner[f] \in Browsers
      BY <1>1, <1>3, <1>4, <3>4 DEF RootedFlow
    <3>6. RootedFlow(run, link, f, x)
      BY <3>2, <3>5 DEF RootedFlow, RunOps, DefectOps
    <3>7. QED  BY <3>2, <3>3, <3>6
  <2>2. CASE ReadLinks(f)
    <3>1. PICK found : found = {l \in Links : link[l] # None /\ link[l].unlinkedBy = None}
      OBVIOUS
    <3>2. PICK x : x = [h EXCEPT !.links = found]  OBVIOUS
    <3>3. x \in Syncs /\ x.op = "sync" /\ x.rows = h.rows /\ x.links = found
      BY <3>1, <3>2 DEF Syncs
    <3>4. flow' = [flow EXCEPT ![f] = x]  BY <1>3, <2>2, <3>1, <3>2 DEF ReadLinks
    <3>5. h.rows # None  BY <1>3, <2>2 DEF ReadLinks
    <3>6. /\ Owner[f] \in Browsers
          /\ \A r \in Runs : h.rows[r] # None => run[r] # None
      BY <1>1, <1>3, <1>4, <3>5 DEF RootedFlow
    <3>7. \A l \in found : link[l] # None  BY <3>1
    <3>8. RootedFlow(run, link, f, x)
      BY <3>3, <3>5, <3>6, <3>7 DEF RootedFlow, RunOps, DefectOps
    <3>9. QED  BY <3>3, <3>4, <3>8
  <2>3. CASE ReadDefects(f)
    <3>1. PICK x : x = [h EXCEPT !.defects = defect]  OBVIOUS
    <3>2. x \in Syncs /\ x.op = "sync" /\ x.rows = h.rows /\ x.links = h.links
      BY <3>1 DEF Syncs, TypeOK
    <3>3. flow' = [flow EXCEPT ![f] = x]  BY <1>3, <2>3, <3>1 DEF ReadDefects
    <3>4. RootedFlow(run, link, f, x)
      BY <1>1, <1>3, <1>4, <3>2 DEF RootedFlow, RunOps, DefectOps
    <3>5. QED  BY <3>2, <3>3, <3>4
  <2>4. QED  BY <2>1, <2>2, <2>3
<1>6. flow'[f] = x /\ x \in FlowType  BY <1>5 DEF TypeOK, FlowType
<1>7. RootedFlow(run', link', f, x)  BY <1>1, <1>5 DEF Server
<1>8. ClaimLasts(f)  BY <1>1 DEF ClaimLasts, DefectOps
<1>9. x.op # "result"  BY <1>5 DEF Syncs
<1>10. PrevGood(f)'  BY <1>6, <1>9 DEF PrevGood
<1>11. ScreensStep  BY <1>1, <1>2, SameScreens
<1>12. QED  BY <1>1, <1>2, <1>5, <1>6, <1>7, <1>8, <1>10, <1>11, FlowStep

\* A run as a sync leaves it: the one of the server, with what the browser had on
\* the cases of which the server has nothing.
LEMMA MergedTyped ==
    ASSUME NEW there \in DemoRun, NEW old \in {None} \cup DemoRun,
           NEW both, both = Merged(there, old)
    PROVE  /\ both \in DemoRun /\ both # None
           /\ \A c \in Cases : \A name \in both.exec[c].defects :
                 \/ name \in there.exec[c].defects
                 \/ old # None /\ name \in old.exec[c].defects
<1>1. CASE old = None
  <2>1. both = there  BY <1>1 DEF Merged
  <2>2. QED  BY <2>1, NullAssumption
<1>2. CASE old # None
  <2>1. old \in DemoRun  BY <1>2
  <2>2. PICK exec : exec = [c \in Cases |->
             IF there.exec[c] = [status |-> "Not run", defects |-> {}]
             THEN old.exec[c] ELSE there.exec[c]]
    OBVIOUS
  <2>3. exec \in [Cases -> Exec]  BY <2>1, <2>2 DEF DemoRun
  <2>4. both = [there EXCEPT !.exec = exec]  BY <1>2, <2>2 DEF Merged
  <2>5. both \in DemoRun /\ both.exec = exec  BY <2>3, <2>4 DEF DemoRun
  <2>6. both # None  BY <2>5, NullAssumption
  <2>7. \A c \in Cases : exec[c] = there.exec[c] \/ exec[c] = old.exec[c]  BY <2>2
  <2>8. QED  BY <1>2, <2>5, <2>6, <2>7
<1>3. QED  BY <1>1, <1>2

LEMMA ConfirmSyncTypes ==
    ASSUME TypeOK, Rooted, Defensible, NEW f \in Flows, ConfirmSync(f)
    PROVE  TypeOK' /\ Rooted' /\ Defensible'
<1>1. /\ flow[f].op = "sync" /\ flow[f].op \notin DefectOps /\ Begin(f, Past)
      /\ UNCHANGED Server /\ flow[f].links # None /\ flow[f].defects # None
  BY DEF ConfirmSync, At, DefectOps
<1>2. ServerTyped /\ RowsLast /\ LinksLast  BY <1>1, SameServer
<1>3. PICK h \in Syncs : h = flow[f]  BY <1>1, FlowKinds DEF TypeOK, FlowType
<1>4. RootedFlow(run, link, f, h)  BY <1>3 DEF Rooted
<1>5. PICK b \in Browsers : b = Owner[f]  BY <1>1, <1>3, <1>4 DEF RootedFlow
<1>6. PICK s \in Screen : s = screen[b]  BY DEF TypeOK
<1>7. h.rows # None /\ \A r \in Runs : h.rows[r] # None => run[r] # None
  BY <1>1, <1>3, <1>4 DEF RootedFlow
<1>8. PICK row \in [Runs -> {None} \cup RunRow] : row = h.rows  BY <1>7 DEF Syncs
<1>9. PICK known \in SUBSET Defects : known = h.defects  BY <1>1, <1>3 DEF Syncs
<1>10. PICK read \in SUBSET Links : read = h.links /\ \A l \in read : link[l] # None
  BY <1>1, <1>3, <1>4 DEF RootedFlow, Syncs
<1>11. PICK rows : rows = [l \in Links |-> IF l \in read
                                           THEN [link[l] EXCEPT !.unlinkedBy = None] ELSE None]
  OBVIOUS
<1>12. ASSUME NEW l \in read
       PROVE  /\ [link[l] EXCEPT !.unlinkedBy = None] \in LinkRow
              /\ [link[l] EXCEPT !.unlinkedBy = None].run = link[l].run
              /\ [link[l] EXCEPT !.unlinkedBy = None].case = link[l].case
              /\ [link[l] EXCEPT !.unlinkedBy = None].ref = link[l].ref
  <2>1. link[l] \in LinkRow  BY <1>10 DEF TypeOK
  <2>2. QED  BY <2>1 DEF LinkRow
<1>13. /\ rows \in [Links -> {None} \cup LinkRow]
       /\ \A l \in Links : rows[l] # None =>
             /\ link[l] # None /\ rows[l].run = link[l].run
             /\ rows[l].case = link[l].case /\ rows[l].ref = link[l].ref
  BY <1>10, <1>11, <1>12
<1>14. PICK runs : runs = [r \in Runs |->
             IF row[r] = None THEN None
             ELSE Merged(LocalRun(row[r], r, rows, known), s.runs[r])]
  OBVIOUS
<1>15. ASSUME NEW r \in Runs, row[r] # None
       PROVE  /\ runs[r] \in DemoRun /\ runs[r] # None
              /\ \A c \in Cases : \A name \in runs[r].exec[c].defects :
                    Showing(s, r, c, name) \/ Good(b, r, c, name)
  <2>1. PICK there : there = LocalRun(row[r], r, rows, known)  OBVIOUS
  <2>2. PICK q \in RunRow : q = row[r]  BY <1>15
  <2>3. /\ there \in DemoRun
        /\ \A c \in Cases : \A name \in there.exec[c].defects :
              \E l \in Links : /\ rows[l] # None /\ rows[l].run = r /\ rows[l].case = c
                               /\ name[1] = rows[l].ref[1]
    BY <1>13, <2>1, <2>2, LocalRunTyped
  <2>4. \A c \in Cases : \A name \in there.exec[c].defects : Good(b, r, c, name)
    BY <1>13, <2>3 DEF Good
  <2>5. PICK old \in {None} \cup DemoRun : old = s.runs[r]  BY DEF Screen
  <2>6. runs[r] = Merged(there, old)  BY <1>14, <1>15, <2>1, <2>5
  <2>7. /\ runs[r] \in DemoRun /\ runs[r] # None
        /\ \A c \in Cases : \A name \in runs[r].exec[c].defects :
              \/ name \in there.exec[c].defects
              \/ old # None /\ name \in old.exec[c].defects
    BY <2>3, <2>6, MergedTyped
  <2>8. QED  BY <2>4, <2>5, <2>7 DEF Showing
<1>16. \A r \in Runs : row[r] = None => runs[r] = None  BY <1>14
<1>17. runs \in [Runs -> {None} \cup DemoRun]  BY <1>14, <1>15, <1>16
<1>18. \A g \in Flows : ClaimLasts(g)  BY <1>1, EndsClaims
<1>19. NewRuns(b, runs)
  <2>1. \A r \in Runs : runs[r] # None => run'[r] # None
    BY <1>2, <1>7, <1>8, <1>16 DEF RowsLast
  <2>2. ASSUME NEW r \in Runs, NEW c \in Cases, NEW name,
               runs[r] # None, name \in runs[r].exec[c].defects
        PROVE  Showing(s, r, c, name) \/ Good(b, r, c, name)'
    <3>1. Showing(s, r, c, name) \/ Good(b, r, c, name)  BY <1>15, <1>16, <2>2
    <3>2. Good(b, r, c, name) => Good(b, r, c, name)'  BY <1>2, <1>18, GoodLasts
    <3>3. QED  BY <3>1, <3>2
  <2>3. QED  BY <1>6, <2>1, <2>2 DEF NewRuns
<1>20. PICK mapped : mapped = [r \in Runs |->
             IF row[r] = None THEN s.mapped[r] ELSE CasesOf(row[r])]
  OBVIOUS
<1>21. mapped \in [Runs -> SUBSET Cases]  BY <1>20 DEF Screen, CasesOf
<1>22. PICK keys : keys = {id \in s.keys : id[2] = "temp"} \cup {Real(d) : d \in known}
  OBVIOUS
<1>23. keys \subseteq Id  BY <1>22 DEF Screen, Real, Id
<1>24. PICK current : current = IF s.current # None /\ row[s.current] = None
                                THEN None ELSE s.current
  OBVIOUS
<1>25. current \in Runs \cup {None} /\ (current # None => runs[current] # None)
  BY <1>15, <1>24 DEF Screen
<1>26. PICK new : new = [s EXCEPT !.runs = runs, !.mapped = mapped, !.keys = keys,
                                  !.current = current]
  OBVIOUS
<1>27. new \in Screen /\ new.runs = runs /\ new.current = current
  BY <1>17, <1>21, <1>23, <1>25, <1>26 DEF Screen
<1>28. Show(b, new)
  <2>1. Synced(s, row, rows, known) = new
    BY <1>14, <1>20, <1>22, <1>24, <1>26 DEF Synced
  <2>2. Show(b, Synced(s, row, rows, known))
    BY <1>3, <1>5, <1>6, <1>8, <1>9, <1>10, <1>11 DEF ConfirmSync
  <2>3. QED  BY <2>1, <2>2
<1>29. ScreensStep /\ overtaken' \subseteq Browsers
  BY <1>2, <1>19, <1>25, <1>27, <1>28, ShowTyped
<1>30. QED  BY <1>1, <1>2, <1>29, EndsTyped

-----------------------------------------------------------------------------
(* Every step, again *)

LEMMA InitTypes == Init => TypeOK /\ Rooted /\ Defensible
<1> SUFFICES ASSUME Init  PROVE TypeOK /\ Rooted /\ Defensible
  OBVIOUS
<1>1. SeedRuns \subseteq Runs /\ SeedDefects \subseteq Defects /\ SeedDefects \subseteq Links
  BY DEF Runs, Defects, Links
<1>2. ASSUME NEW r \in SeedRuns
      PROVE  SeedRow(r) \in RunRow /\ SeedRow(r) # None /\ RunCases[r] \in SUBSET Cases
  <2>1. RunCases[r] \in SUBSET Cases  BY ScreenAssumption
  <2>2. PICK result : result = [c \in Cases |-> IF c \in RunCases[r] THEN "Failed" ELSE None]
    OBVIOUS
  <2>3. result \in [Cases -> Result \cup {None}]  BY <2>2 DEF Result
  <2>4. SeedRow(r) = [title |-> r, status |-> "active", result |-> result]
    BY <2>2 DEF SeedRow
  <2>5. SeedRow(r) \in RunRow  BY <1>1, <2>3, <2>4 DEF RunRow, Title, Status
  <2>6. QED  BY <2>1, <2>5, NullAssumption
<1>3. /\ run \in [Runs -> {None} \cup RunRow]
      /\ \A r \in SeedRuns : run[r] \in RunRow /\ run[r] # None
  <2>1. run = [r \in Runs |-> IF r \in SeedRuns THEN SeedRow(r) ELSE None]  BY DEF Init
  <2>2. QED  BY <1>1, <1>2, <2>1
<1>4. ASSUME NEW d \in SeedDefects  PROVE SeedLink(d) \in LinkRow
  <2>1. LinkedTo[d][1] \in SeedRuns /\ LinkedTo[d][2] \in Cases
    <3>1. LinkedTo[d] \in SeedRuns \X Cases  BY ScreenAssumption
    <3>2. QED  BY <3>1
  <2>2. KeyOf(Real(d)) \in Ref  BY <1>1 DEF KeyOf, Real, Ref
  <2>3. QED  BY <1>1, <2>1, <2>2 DEF SeedLink, LinkRow
<1>5. link \in [Links -> {None} \cup LinkRow]
  <2>1. link = [l \in Links |-> IF l \in SeedDefects THEN SeedLink(l) ELSE None]
    BY DEF Init
  <2>2. QED  BY <1>4, <2>1
<1>6. PICK r \in SeedRuns :
         screen = [b \in Browsers |->
             [url |-> r, going |-> Absent, current |-> r,
              active |-> First(RunCases[r]), chosen |-> None,
              runs |-> [q \in Runs |-> IF q \in SeedRuns
                                       THEN LocalRun(run[q], q, link, SeedDefects)
                                       ELSE None],
              keys |-> {Real(d) : d \in SeedDefects},
              mapped |-> [q \in Runs |-> IF q \in SeedRuns THEN RunCases[q] ELSE {}]]]
  BY Zenon DEF Init
<1>7. PICK runs : runs = [q \in Runs |-> IF q \in SeedRuns
                                         THEN LocalRun(run[q], q, link, SeedDefects)
                                         ELSE None]
  OBVIOUS
<1>8. ASSUME NEW q \in SeedRuns
      PROVE  /\ runs[q] \in DemoRun /\ runs[q] # None
             /\ \A c \in Cases : \A name \in runs[q].exec[c].defects :
                   \E l \in Links : /\ link[l] # None /\ link[l].run = q
                                    /\ link[l].case = c /\ name[1] = link[l].ref[1]
  <2>1. PICK row \in RunRow : row = run[q]  BY <1>3
  <2>2. PICK known \in SUBSET Defects : known = SeedDefects  BY <1>1
  <2>3. runs[q] = LocalRun(row, q, link, known)  BY <1>1, <1>7, <2>1, <2>2
  <2>4. q \in Runs  BY <1>1
  <2>5. QED  BY <1>5, <2>3, <2>4, LocalRunTyped
<1>9. \A q \in Runs : runs[q] # None => q \in SeedRuns  BY <1>7
<1>10. runs \in [Runs -> {None} \cup DemoRun]  BY <1>7, <1>8, <1>9
<1>11. PICK mapped : mapped = [q \in Runs |-> IF q \in SeedRuns THEN RunCases[q] ELSE {}]
  OBVIOUS
<1>12. mapped \in [Runs -> SUBSET Cases]  BY <1>2, <1>11
<1>13. PICK active \in Cases \cup {None} : active = First(RunCases[r])  BY <1>2, FirstCase
<1>14. PICK keys \in SUBSET Id : keys = {Real(d) : d \in SeedDefects}
  <2>1. \A d \in SeedDefects : Real(d) \in Id  BY <1>1 DEF Real, Id
  <2>2. {Real(d) : d \in SeedDefects} \subseteq Id  BY <2>1
  <2>3. QED  BY <2>2
<1>15. PICK s : s = [url |-> r, going |-> Absent, current |-> r, active |-> active,
                     chosen |-> None, runs |-> runs, keys |-> keys, mapped |-> mapped]
  OBVIOUS
<1>16. /\ s \in Screen /\ s.url = r /\ s.current = r /\ s.runs = runs
  BY <1>1, <1>10, <1>12, <1>15 DEF Screen
<1>17. screen = [b \in Browsers |-> s]
  BY <1>6, <1>7, <1>11, <1>13, <1>14, <1>15
<1>18. flow = [f \in Flows |-> Idle] /\ defect = SeedDefects /\ audit = {} /\ overtaken = {}
  BY DEF Init
<1>19. TypeOK
  <2>1. screen \in [Browsers -> Screen]  BY <1>16, <1>17
  <2>2. QED  BY <1>1, <1>3, <1>5, <1>18, <2>1 DEF TypeOK
<1>20. Idle.op = "none"  BY DEF Idle
<1>21. Rooted
  <2>1. RootedScreen(run, s)  BY <1>1, <1>3, <1>8, <1>9, <1>16 DEF RootedScreen
  <2>2. \A f \in Flows : RootedFlow(run, link, f, flow[f])
    BY <1>18, <1>20 DEF RootedFlow, RunOps, DefectOps
  <2>3. QED  BY <1>17, <2>1, <2>2 DEF Rooted
<1>22. Defensible
  <2>1. \A f \in Flows : PrevGood(f)  BY <1>18, <1>20 DEF PrevGood
  <2>2. ShownDefectsLinked  BY <1>8, <1>9, <1>16, <1>17 DEF ShownDefectsLinked
  <2>3. QED  BY <2>1, <2>2 DEF Defensible
<1>23. QED  BY <1>19, <1>21, <1>22

LEMMA NextTypes ==
    Sound /\ TypeOK /\ Rooted /\ Defensible /\ [Next]_vars => TypeOK' /\ Rooted' /\ Defensible'
<1> SUFFICES ASSUME Sound, TypeOK, Rooted, Defensible, [Next]_vars
             PROVE  TypeOK' /\ Rooted' /\ Defensible'
  OBVIOUS
<1>1. MadeOnce  BY DEF Sound
<1>2. ASSUME NEW b \in Browsers,
             SelectRun(b) \/ Arrive(b) \/ SelectCase(b) \/ AddCases(b) \/ Choose(b)
      PROVE  TypeOK' /\ Rooted' /\ Defensible'
  BY <1>2, BrowsersType
<1>3. ASSUME NEW f \in Flows, Owner[f] # None, NEW b, b = Owner[f],
             \/ SetResult(b, f) \/ CreateDefect(b, f) \/ LinkDefect(b, f)
             \/ SealToggle(b, f) \/ DeleteRun(b, f) \/ EditRun(b, f)
             \/ CreateRun(b, f) \/ Sync(f)
      PROVE  TypeOK' /\ Rooted' /\ Defensible'
  <2>1. b \in Browsers  BY <1>3, ScreenAssumption
  <2>2. QED  BY <1>3, <2>1, CommandsType
<1>4. ASSUME NEW f \in Flows, OtherStatus(f) \/ OtherLink(f)
      PROVE  TypeOK' /\ Rooted' /\ Defensible'
  BY <1>1, <1>4, OthersType
<1>5. ASSUME NEW f \in Flows, Unlink(f) \/ UnlinkRow(f) \/ UnlinkAudit(f)
      PROVE  TypeOK' /\ Rooted' /\ Defensible'
  BY <1>5, UnlinkingTypes
<1>6. ASSUME NEW f \in Flows,
             \/ RecordResult(f) \/ InsertDefect(f) \/ InsertLink(f)
             \/ PatchStatus(f) \/ PatchTitle(f) \/ InsertRun(f) \/ Fail(f)
      PROVE  TypeOK' /\ Rooted' /\ Defensible'
  BY <1>1, <1>6, RunWritesType, DefectWritesType, InsertLinkTypes
<1>7. ASSUME NEW f \in Flows,
             \/ Rollback(f) \/ Reconcile(f) \/ Awaited(f)
             \/ ConfirmStatus(f) \/ ConfirmEdit(f) \/ ConfirmCreate(f)
             \/ ReadRuns(f) \/ ReadLinks(f) \/ ReadDefects(f) \/ ConfirmSync(f)
      PROVE  TypeOK' /\ Rooted' /\ Defensible'
  BY <1>7, RollbackTypes, ReconcileTypes, AwaitedTypes, ConfirmStatusTypes,
     ConfirmEditTypes, ConfirmCreateTypes, ReadsType, ConfirmSyncTypes
<1>8. CASE UNCHANGED vars
  <2>1. UNCHANGED <<Server, flow, screen, overtaken>>  BY <1>8 DEF vars, Server
  <2>2. ScreensStep /\ overtaken' \subseteq Browsers
    BY <2>1, SameServer, SameScreens DEF TypeOK
  <2>3. QED  BY <2>1, <2>2, FlowsStay
<1>9. CASE Next
  BY <1>2, <1>3, <1>4, <1>5, <1>6, <1>7, <1>9 DEF Next
<1>10. QED  BY <1>8, <1>9

LEMMA TypesInvariance == Spec => [](TypeOK /\ Rooted /\ Defensible)
BY InitTypes, NextTypes, Invariance, PTL DEF Spec

\* The rows, the screens and the flows keep their type: whatever is read, awaited,
\* rolled back or synced meanwhile, no answer finds a run, a case or a status it
\* has no place for, and no case is left with the column's NULL for a result.
THEOREM RunScreenTyped == Spec => []TypeOK
BY TypesInvariance, PTL

\* Whatever the browsers, the runs and the commands are, and however refused
\* results, renamed defects, syncs and unlinkings interleave, a defect shown on a
\* case was linked to it, or its command has failed, stands before its link, or
\* could not be sent (FreshProvider.tsx:2175-2250).
THEOREM DefectsShownStayLinked == Spec => []ShownDefectsLinked
<1>1. Defensible => ShownDefectsLinked  BY DEF Defensible
<1>2. QED  BY <1>1, TypesInvariance, PTL

-----------------------------------------------------------------------------
(* RunSpawn: the inductive invariant *)

\* A step id belongs to one case for ever.
Owned == \A c, d \in TestCases : c # d => EverOf(c) \cap EverOf(d) = {}

\* A request that has come knows a state of each row that has been reached.
SinceOK(since) ==
    /\ \A c \in TestCases : since.case[c] \in 1..Len(case[c])
    /\ \A p \in Plans : since.plan[p] \in 1..Len(plan[p])

Dated ==
    /\ \A r \in Requests :
          req[r].pc \notin {"idle", "settled"} => SinceOK(req[r].since)
    /\ \A r \in Spawned : SinceOK(runOf[r].since)

\* State i of the case, not before the request came, has the title that was
\* read and is not archived.
TitleAt(h, c, i) ==
    /\ h.since.case[c] <= i
    /\ case[c][i].title = h.titles[c]
    /\ ~case[c][i].archived

\* So it was when its steps were read: then, or in a later state j.
StepsAt(h, c, i) ==
    /\ TitleAt(h, c, i)
    /\ \E j \in i..Len(case[c]) : case[c][j].steps = h.steps[c]

\* The cases selected have been read.
CasesReadBy(h) ==
    /\ h.pc = "steps" =>
          \A c \in h.ids : \E i \in 1..Len(case[c]) : TitleAt(h, c, i)
    /\ h.pc = "commit" =>
          /\ \A c \in h.ids : \E i \in 1..Len(case[c]) : StepsAt(h, c, i)
          /\ \A c \in TestCases : Ids(h.steps[c]) \subseteq EverOf(c)

CasesRead == \A r \in Requests : CasesReadBy(req[r])

\* State i of the plan, not before the request came, is not archived.
ActiveAt(h, i) == h.since.plan[h.plan] <= i /\ plan[h.plan][i].status # "archived"

\* The cases ids are those that state j of the plan gives the request.
Selected(h, ids, j) ==
    IF h.chosen = {} THEN ids = plan[h.plan][j].cases
    ELSE ids = h.chosen /\ ids \subseteq plan[h.plan][j].cases

SelectedAt(h, ids, i) ==
    /\ ActiveAt(h, i)
    /\ \E j \in i..Len(plan[h.plan]) : Selected(h, ids, j)

\* The plan has been read.
PlanReadBy(h) ==
    /\ h.pc = "plan cases" => \E i \in 1..Len(plan[h.plan]) : ActiveAt(h, i)
    /\ h.pc \in {"cases", "steps", "commit"} /\ h.plan # Null =>
          \E i \in 1..Len(plan[h.plan]) : SelectedAt(h, h.ids, i)

PlanRead == \A r \in Requests : PlanReadBy(req[r])

IInv ==
    /\ SpawnTypeOK /\ Owned /\ Dated /\ CasesRead /\ PlanRead
    /\ LinksSound /\ NothingStale /\ PlanHonoured

-----------------------------------------------------------------------------
(* Histories *)

\* A row that gains a state keeps those it had.
Extends(s, t) ==
    /\ Len(s) <= Len(t)
    /\ \A i \in 1..Len(s) : t[i] = s[i]

\* A history with one more state.
LEMMA Appended ==
    ASSUME NEW S, NEW s \in Seq(S) \ {<<>>}, NEW e \in S
    PROVE  /\ Append(s, e) \in Seq(S) \ {<<>>}
           /\ Len(Append(s, e)) = Len(s) + 1
           /\ Present(Append(s, e)) = e
           /\ Append(s, e)[Len(s) + 1] = e
           /\ Extends(s, Append(s, e))
<1>1. /\ Append(s, e) \in Seq(S) /\ Append(s, e) # <<>>
      /\ Len(Append(s, e)) = Len(s) + 1
      /\ Append(s, e)[Len(s) + 1] = e
      /\ \A i \in 1..Len(s) : Append(s, e)[i] = s[i]
  OBVIOUS
<1>2. Len(s) \in Nat  OBVIOUS
<1>3. QED  BY <1>1, <1>2 DEF Present, Extends

\* The present state is the last, and there is one.
LEMMA Presents ==
    ASSUME NEW S, NEW s \in Seq(S) \ {<<>>}
    PROVE  /\ Len(s) \in Nat /\ Len(s) >= 1
           /\ DOMAIN s = 1..Len(s)
           /\ Present(s) = s[Len(s)]
           /\ Present(s) \in S
           /\ Extends(s, s)
<1>1. Len(s) \in Nat /\ Len(s) # 0 /\ DOMAIN s = 1..Len(s)
  OBVIOUS
<1>2. Len(s) \in 1..Len(s)  BY <1>1
<1>3. s[Len(s)] \in S  BY <1>1, <1>2
<1>4. QED  BY <1>1, <1>3 DEF Present, Extends

\* The ids of a case, state by state.
LEMMA EverOfStates ==
    ASSUME NEW c \in TestCases, case[c] \in Seq(CaseState) \ {<<>>}
    PROVE  \A s : s \in EverOf(c) <=>
                     \E i \in 1..Len(case[c]) : s \in Ids(case[c][i].steps)
<1>1. DOMAIN case[c] = 1..Len(case[c])  BY Presents
<1>2. QED  BY <1>1 DEF EverOf

\* The present steps of a case are among them.
LEMMA PresentIds ==
    ASSUME NEW c \in TestCases, case[c] \in Seq(CaseState) \ {<<>>}
    PROVE  Ids(Present(case[c]).steps) \subseteq EverOf(c)
<1>1. Len(case[c]) \in 1..Len(case[c]) /\ Present(case[c]) = case[c][Len(case[c])]
  BY Presents
<1>2. QED  BY <1>1, EverOfStates DEF Ids

-----------------------------------------------------------------------------
(* Types *)

\* What a request has, by where it is.
LEMMA RequestKinds ==
    ASSUME NEW h \in Request
    PROVE  /\ h.pc \in {"idle", "settled", "plan", "plan cases", "cases", "steps",
                        "commit"}
           /\ h.pc \notin {"idle", "settled"} =>
                 /\ h.plan \in Plans \cup {Null}
                 /\ h.chosen \in SUBSET TestCases
                 /\ h.since \in Since
           /\ h.pc \in {"plan", "plan cases"} => h.plan \in Plans
           /\ h.pc \in {"cases", "steps", "commit"} => h.ids \in SUBSET TestCases
           /\ h.pc \in {"steps", "commit"} => h.titles \in [TestCases -> Nat]
           /\ h.pc = "commit" => h.steps \in [TestCases -> StepRows]
<1>1. CASE h \in {[pc |-> "idle"], Settled}
  <2>1. h.pc \in {"idle", "settled"}  BY <1>1 DEF Settled
  <2>2. QED  BY <2>1
<1>2. CASE h \in [pc: {"plan", "plan cases"}, plan: Plans, chosen: SUBSET TestCases,
                 since: Since]
  BY <1>2
<1>3. CASE h \in [pc: {"cases"}, plan: Plans \cup {Null}, chosen: SUBSET TestCases,
                 since: Since, ids: SUBSET TestCases]
  BY <1>3
<1>4. CASE h \in [pc: {"steps"}, plan: Plans \cup {Null}, chosen: SUBSET TestCases,
                 since: Since, ids: SUBSET TestCases, titles: [TestCases -> Nat]]
  BY <1>4
<1>5. CASE h \in [pc: {"commit"}, plan: Plans \cup {Null}, chosen: SUBSET TestCases,
                 since: Since, ids: SUBSET TestCases, titles: [TestCases -> Nat],
                 steps: [TestCases -> StepRows]]
  BY <1>5
<1>6. QED  BY <1>1, <1>2, <1>3, <1>4, <1>5 DEF Request

\* A request that looks at the plan knows no more than which.
LEMMA PlanRequests ==
    ASSUME NEW h \in Request, h.pc \in {"plan", "plan cases"}
    PROVE  h \in [pc: {"plan", "plan cases"}, plan: Plans, chosen: SUBSET TestCases,
                  since: Since]
<1>1. h \notin {[pc |-> "idle"], Settled}
  <2>1. h # [pc |-> "idle"]
    <3>1. CASE h = [pc |-> "idle"]
      <4>1. h.pc = "idle"  BY <3>1
      <4>2. QED  BY <4>1
    <3>2. QED  BY <3>1
  <2>2. h # Settled
    <3>1. CASE h = Settled
      <4>1. h.pc = "settled"  BY <3>1 DEF Settled
      <4>2. QED  BY <4>1
    <3>2. QED  BY <3>1
  <2>3. QED  BY <2>1, <2>2
<1>2. h \notin [pc: {"cases"}, plan: Plans \cup {Null}, chosen: SUBSET TestCases,
                since: Since, ids: SUBSET TestCases]
  OBVIOUS
<1>3. h \notin [pc: {"steps"}, plan: Plans \cup {Null}, chosen: SUBSET TestCases,
                since: Since, ids: SUBSET TestCases, titles: [TestCases -> Nat]]
  OBVIOUS
<1>4. h \notin [pc: {"commit"}, plan: Plans \cup {Null}, chosen: SUBSET TestCases,
                since: Since, ids: SUBSET TestCases, titles: [TestCases -> Nat],
                steps: [TestCases -> StepRows]]
  OBVIOUS
<1>5. QED  BY <1>1, <1>2, <1>3, <1>4 DEF Request

\* The initial state is well formed.
LEMMA InitType == SpawnInit => SpawnTypeOK
<1> SUFFICES ASSUME SpawnInit PROVE SpawnTypeOK  OBVIOUS
<1>1. ASSUME NEW ids \in SUBSET StepIds
      PROVE  <<[title |-> 1, archived |-> FALSE,
                steps |-> [s \in StepIds |-> IF s \in ids THEN 1 ELSE 0]]>>
             \in Seq(CaseState) \ {<<>>}
  BY DEF CaseState, StepRows
<1>2. case \in [TestCases -> Seq(CaseState) \ {<<>>}]
  <2>1. ASSUME NEW c \in TestCases
        PROVE  case[c] \in Seq(CaseState) \ {<<>>}
    <3>1. PICK ids \in SUBSET StepIds :
             case[c] = <<[title |-> 1, archived |-> FALSE,
                          steps |-> [s \in StepIds |-> IF s \in ids THEN 1 ELSE 0]]>>
      <4>1. case[c] \in {<<[title |-> 1, archived |-> FALSE,
                            steps |-> [s \in StepIds |-> IF s \in ids THEN 1 ELSE 0]]>> :
                         ids \in SUBSET StepIds}
        BY DEF SpawnInit
      <4>2. QED  BY <4>1
    <3>2. QED  BY <1>1, <3>1
  <2>2. case = [c \in TestCases |-> case[c]]  BY DEF SpawnInit
  <2>3. QED  BY <2>1, <2>2
<1>3. ASSUME NEW cs \in SUBSET TestCases
      PROVE  <<[status |-> "draft", cases |-> cs]>> \in Seq(PlanState) \ {<<>>}
  BY DEF PlanState, PlanStatuses
<1>4. plan \in [Plans -> Seq(PlanState) \ {<<>>}]
  <2>1. ASSUME NEW p \in Plans
        PROVE  plan[p] \in Seq(PlanState) \ {<<>>}
    <3>1. PICK cs \in SUBSET TestCases : plan[p] = <<[status |-> "draft", cases |-> cs]>>
      BY DEF SpawnInit
    <3>2. QED  BY <1>3, <3>1
  <2>2. plan = [p \in Plans |-> plan[p]]  BY DEF SpawnInit
  <2>3. QED  BY <2>1, <2>2
<1>5. QED  BY <1>2, <1>4 DEF SpawnInit, SpawnTypeOK, Request

\* A row that is deleted unlinks snapshots and nothing else.
LEMMA UnlinkedType ==
    ASSUME runOf \in [Requests -> {Null} \cup Run], NEW gone \in SUBSET StepIds
    PROVE  /\ Unlinked(gone) \in [Requests -> {Null} \cup Run]
           /\ \A r \in Requests :
                 /\ runOf[r] = Null => Unlinked(gone)[r] = Null
                 /\ runOf[r] # Null =>
                       /\ Unlinked(gone)[r] # Null
                       /\ Unlinked(gone)[r].plan = runOf[r].plan
                       /\ Unlinked(gone)[r].chosen = runOf[r].chosen
                       /\ Unlinked(gone)[r].since = runOf[r].since
                       /\ \A c \in TestCases :
                             /\ Unlinked(gone)[r].snap[c] = Null
                                   <=> runOf[r].snap[c] = Null
                             /\ runOf[r].snap[c] # Null =>
                                   Unlinked(gone)[r].snap[c] =
                                      [title |-> runOf[r].snap[c].title,
                                       steps |-> runOf[r].snap[c].steps,
                                       links |-> runOf[r].snap[c].links \ gone]
<1>1. ASSUME NEW r \in Requests, runOf[r] # Null
      PROVE  /\ Unlinked(gone)[r] \in Run
             /\ Unlinked(gone)[r].plan = runOf[r].plan
             /\ Unlinked(gone)[r].chosen = runOf[r].chosen
             /\ Unlinked(gone)[r].since = runOf[r].since
             /\ \A c \in TestCases :
                   /\ Unlinked(gone)[r].snap[c] = Null <=> runOf[r].snap[c] = Null
                   /\ runOf[r].snap[c] # Null =>
                         Unlinked(gone)[r].snap[c] =
                            [title |-> runOf[r].snap[c].title,
                             steps |-> runOf[r].snap[c].steps,
                             links |-> runOf[r].snap[c].links \ gone]
  <2>1. PICK u : u = [c \in TestCases |-> Unlinking(runOf[r].snap[c], gone)]
    OBVIOUS
  <2>2. runOf[r] \in Run  BY <1>1
  <2>3. Unlinked(gone)[r] = [runOf[r] EXCEPT !.snap = u]
    BY <1>1, <2>1 DEF Unlinked
  <2>4. ASSUME NEW c \in TestCases, runOf[r].snap[c] # Null
        PROVE  /\ u[c] \in Snapshot
               /\ u[c] = [title |-> runOf[r].snap[c].title,
                          steps |-> runOf[r].snap[c].steps,
                          links |-> runOf[r].snap[c].links \ gone]
    <3>1. runOf[r].snap[c] \in Snapshot  BY <2>2, <2>4 DEF Run
    <3>2. u[c] = [runOf[r].snap[c] EXCEPT !.links = @ \ gone]
      BY <2>1, <2>4 DEF Unlinking
    <3>3. QED  BY <3>1, <3>2 DEF Snapshot
  <2>5. \A c \in TestCases : runOf[r].snap[c] = Null => u[c] = Null
    BY <2>1 DEF Unlinking
  <2>6. \A c \in TestCases : u[c] = Null <=> runOf[r].snap[c] = Null
    BY <2>4, <2>5, SpawnAssumption DEF Snapshot, StepRows
  <2>7. u \in [TestCases -> {Null} \cup Snapshot]  BY <2>1, <2>4, <2>5
  <2>8. Unlinked(gone)[r] \in Run  BY <2>2, <2>3, <2>7 DEF Run
  <2>9. /\ Unlinked(gone)[r].plan = runOf[r].plan
        /\ Unlinked(gone)[r].chosen = runOf[r].chosen
        /\ Unlinked(gone)[r].since = runOf[r].since
        /\ Unlinked(gone)[r].snap = u
    BY <2>2, <2>3 DEF Run
  <2>10. QED  BY <2>4, <2>6, <2>8, <2>9
<1>2. \A r \in Requests : runOf[r] = Null => Unlinked(gone)[r] = Null
  BY DEF Unlinked
<1>3. Null \notin Run  BY SpawnAssumption
<1>4. Unlinked(gone) \in [Requests -> {Null} \cup Run]
  BY <1>1, <1>2 DEF Unlinked
<1>5. QED  BY <1>1, <1>2, <1>3, <1>4

\* What the rows hold.
LEMMA Rows ==
    ASSUME SpawnTypeOK
    PROVE  /\ \A c \in TestCases :
                 /\ case[c] \in Seq(CaseState) \ {<<>>}
                 /\ Len(case[c]) \in Nat /\ Len(case[c]) >= 1
                 /\ Present(case[c]) = case[c][Len(case[c])]
                 /\ Present(case[c]) \in CaseState
                 /\ Present(case[c]).title \in Nat
                 /\ Present(case[c]).steps \in StepRows
                 /\ \A i \in 1..Len(case[c]) : case[c][i] \in CaseState
           /\ \A p \in Plans :
                 /\ plan[p] \in Seq(PlanState) \ {<<>>}
                 /\ Len(plan[p]) \in Nat /\ Len(plan[p]) >= 1
                 /\ Present(plan[p]) = plan[p][Len(plan[p])]
                 /\ Present(plan[p]) \in PlanState
                 /\ Present(plan[p]).cases \in SUBSET TestCases
                 /\ Present(plan[p]).status \in PlanStatuses
<1>1. ASSUME NEW c \in TestCases
      PROVE  /\ case[c] \in Seq(CaseState) \ {<<>>}
             /\ Present(case[c]) \in CaseState
             /\ \A i \in 1..Len(case[c]) : case[c][i] \in CaseState
  <2>1. case[c] \in Seq(CaseState) \ {<<>>}  BY DEF SpawnTypeOK
  <2>2. Present(case[c]) \in CaseState  BY <2>1, Presents
  <2>3. QED  BY <2>1, <2>2
<1>2. ASSUME NEW p \in Plans
      PROVE  /\ plan[p] \in Seq(PlanState) \ {<<>>}
             /\ Present(plan[p]) \in PlanState
  <2>1. plan[p] \in Seq(PlanState) \ {<<>>}  BY DEF SpawnTypeOK
  <2>2. QED  BY <2>1, Presents
<1>3. \A e \in CaseState : e.title \in Nat /\ e.steps \in StepRows
  BY DEF CaseState
<1>4. \A e \in PlanState : e.cases \in SUBSET TestCases /\ e.status \in PlanStatuses
  BY DEF PlanState
<1>5. QED  BY <1>1, <1>2, <1>3, <1>4, Presents

\* Reads of a request leave the rest alone, and are requests.
LEMMA ReadType ==
    ASSUME SpawnTypeOK, NEW r \in Requests,
           \/ Submit(r) \/ LoadPlan(r) \/ LoadPlanCases(r) \/ LoadCases(r)
           \/ LoadSteps(r) \/ FailSpawn(r)
    PROVE  SpawnTypeOK'
<1>1. req[r] \in Request /\ Settled \in Request
  BY DEF SpawnTypeOK, Request
<1>2. PICK h : /\ h \in Request
               /\ req' = [req EXCEPT ![r] = h]
  <2>1. CASE Submit(r)
    <3>0. PICK since : since = [case |-> [c \in TestCases |-> Len(case[c])],
                                plan |-> [q \in Plans |-> Len(plan[q])]]
      OBVIOUS
    <3>1. PICK p \in Plans \cup {Null}, chosen \in SUBSET TestCases :
            req' = [req EXCEPT ![r] =
                      IF p # Null
                      THEN [pc |-> "plan", plan |-> p, chosen |-> chosen,
                            since |-> since]
                      ELSE IF chosen = {} THEN Settled
                      ELSE [pc |-> "cases", plan |-> Null, chosen |-> chosen,
                            since |-> since, ids |-> chosen]]
      BY <2>1, <3>0 DEF Submit
    <3>2. since \in Since  BY <3>0, Rows DEF Since
    <3>3. CASE p # Null
      <4>1. [pc |-> "plan", plan |-> p, chosen |-> chosen, since |-> since] \in Request
        BY <3>2, <3>3 DEF Request
      <4>2. QED  BY <3>1, <3>3, <4>1
    <3>4. CASE p = Null /\ chosen = {}  BY <1>1, <3>1, <3>4
    <3>5. CASE p = Null /\ chosen # {}
      <4>1. [pc |-> "cases", plan |-> Null, chosen |-> chosen,
             since |-> since, ids |-> chosen] \in Request
        BY <3>2 DEF Request
      <4>2. QED  BY <3>1, <3>5, <4>1
    <3>6. QED  BY <3>3, <3>4, <3>5
  <2>2. CASE LoadPlan(r)
    <3>1. req[r].pc = "plan"  BY <2>2 DEF LoadPlan
    <3>2. req[r] \in [pc: {"plan", "plan cases"}, plan: Plans,
                      chosen: SUBSET TestCases, since: Since]
      BY <1>1, <3>1, PlanRequests
    <3>3. [req[r] EXCEPT !.pc = "plan cases"] \in Request
      BY <3>2 DEF Request
    <3>4. QED  BY <1>1, <2>2, <3>3 DEF LoadPlan
  <2>3. CASE LoadPlanCases(r)
    <3>1. req[r].pc = "plan cases" /\ req[r].plan \in Plans
      BY <1>1, <2>3, RequestKinds DEF LoadPlanCases
    <3>2. Present(plan[req[r].plan]).cases \in SUBSET TestCases
      BY <3>1, Rows
    <3>3. PICK ids : ids = IF req[r].chosen = {} THEN Present(plan[req[r].plan]).cases
                           ELSE req[r].chosen
      OBVIOUS
    <3>4. [pc |-> "cases", plan |-> req[r].plan, chosen |-> req[r].chosen,
           since |-> req[r].since, ids |-> ids] \in Request
      BY <1>1, <3>1, <3>2, <3>3, RequestKinds DEF Request
    <3>5. QED  BY <1>1, <2>3, <3>3, <3>4 DEF LoadPlanCases
  <2>4. CASE LoadCases(r)
    <3>1. req[r].pc = "cases"  BY <2>4 DEF LoadCases
    <3>2. PICK titles : titles = [c \in TestCases |-> Present(case[c]).title]  OBVIOUS
    <3>3. titles \in [TestCases -> Nat]  BY <3>2, Rows
    <3>4. [pc |-> "steps", plan |-> req[r].plan, chosen |-> req[r].chosen,
           since |-> req[r].since, ids |-> req[r].ids, titles |-> titles] \in Request
      BY <1>1, <3>1, <3>3, RequestKinds DEF Request
    <3>5. QED  BY <1>1, <2>4, <3>2, <3>4 DEF LoadCases
  <2>5. CASE LoadSteps(r)
    <3>1. req[r].pc = "steps"  BY <2>5 DEF LoadSteps
    <3>2. PICK steps : steps = [c \in TestCases |-> Present(case[c]).steps]  OBVIOUS
    <3>3. steps \in [TestCases -> StepRows]  BY <3>2, Rows
    <3>4. [pc |-> "commit", plan |-> req[r].plan, chosen |-> req[r].chosen,
           since |-> req[r].since, ids |-> req[r].ids, titles |-> req[r].titles,
           steps |-> steps] \in Request
      BY <1>1, <3>1, <3>3, RequestKinds DEF Request
    <3>5. QED  BY <2>5, <3>2, <3>4 DEF LoadSteps
  <2>6. CASE FailSpawn(r)  BY <1>1, <2>6 DEF FailSpawn
  <2>7. QED  BY <2>1, <2>2, <2>3, <2>4, <2>5, <2>6
<1>3. UNCHANGED <<case, plan, runOf>>
  BY DEF Submit, LoadPlan, LoadPlanCases, LoadCases, LoadSteps, FailSpawn
<1>4. QED  BY <1>2, <1>3 DEF SpawnTypeOK

\* The run that a request creates.
NewRun(h) ==
    [plan |-> h.plan, chosen |-> h.chosen, since |-> h.since,
     snap |-> [c \in TestCases |->
                 IF c \notin h.ids THEN Null
                 ELSE [title |-> h.titles[c], steps |-> h.steps[c],
                       links |-> Ids(h.steps[c])]]]

\* A commit creates a run, or nothing.
LEMMA CommitMoves ==
    ASSUME SpawnTypeOK, NEW r \in Requests, Commit(r)
    PROVE  /\ req[r].pc = "commit" /\ req[r] \in Request
           /\ req' = [req EXCEPT ![r] = Settled]
           /\ UNCHANGED <<case, plan>>
           /\ NewRun(req[r]) \in Run
           /\ \/ runOf' = [runOf EXCEPT ![r] = Null]
              \/ /\ runOf' = [runOf EXCEPT ![r] = NewRun(req[r])]
                 /\ \A c \in req[r].ids : \A s \in Ids(req[r].steps[c]) : StepExists(s)
<1>1. req[r].pc = "commit" /\ req[r] \in Request
  BY DEF Commit, SpawnTypeOK
<1>2. PICK snap : snap = [c \in TestCases |->
                            IF c \notin req[r].ids THEN Null
                            ELSE [title |-> req[r].titles[c], steps |-> req[r].steps[c],
                                  links |-> Ids(req[r].steps[c])]]
  OBVIOUS
<1>3. snap \in [TestCases -> {Null} \cup Snapshot]
  BY <1>1, <1>2, RequestKinds DEF Snapshot, Ids
<1>4. NewRun(req[r]) = [plan |-> req[r].plan, chosen |-> req[r].chosen,
                        since |-> req[r].since, snap |-> snap]
  BY <1>2 DEF NewRun
<1>5. /\ req[r].plan \in Plans \cup {Null} /\ req[r].chosen \in SUBSET TestCases
      /\ req[r].since \in Since
  BY <1>1, RequestKinds
<1>6. NewRun(req[r]) \in Run  BY <1>3, <1>4, <1>5 DEF Run
<1>7. QED  BY <1>1, <1>6 DEF Commit, NewRun

\* A commit keeps the types.
LEMMA CommitType ==
    ASSUME SpawnTypeOK, NEW r \in Requests, Commit(r)
    PROVE  SpawnTypeOK'
<1>1. Settled \in Request  BY DEF Request
<1>2. QED  BY <1>1, CommitMoves DEF SpawnTypeOK

\* A save adds a state to a case, with ids it may have.
LEMMA SaveMoves ==
    ASSUME SpawnTypeOK, NEW c \in TestCases, SaveCase(c)
    PROVE  \E e \in CaseState :
              /\ case' = [case EXCEPT ![c] = Append(case[c], e)]
              /\ Ids(e.steps) \subseteq EverOf(c) \cup Unused
              /\ runOf' = Unlinked(Ids(Present(case[c]).steps))
              /\ UNCHANGED <<plan, req>>
<1>1. PICK now, n : now = Present(case[c]) /\ n = Len(case[c]) + 1
  OBVIOUS
<1>2. PICK retitled, rewritten, archived \in BOOLEAN,
           ids \in SUBSET (EverOf(c) \cup Unused) :
        /\ case' = [case EXCEPT ![c] = Append(case[c],
              [title |-> IF retitled THEN n ELSE now.title,
               archived |-> archived,
               steps |-> [s \in StepIds |->
                  IF s \notin ids THEN 0
                  ELSE IF rewritten \/ now.steps[s] = 0 THEN n
                  ELSE now.steps[s]]])]
        /\ runOf' = Unlinked(Ids(now.steps))
  <2>1. PICK retitled, rewritten, archived \in BOOLEAN,
             ids \in SUBSET (EverOf(c) \cup Unused) :
          /\ case' = [case EXCEPT ![c] = Append(case[c],
                [title |-> IF retitled THEN Len(case[c]) + 1 ELSE Present(case[c]).title,
                 archived |-> archived,
                 steps |-> [s \in StepIds |->
                    IF s \notin ids THEN 0
                    ELSE IF rewritten \/ Present(case[c]).steps[s] = 0
                         THEN Len(case[c]) + 1
                    ELSE Present(case[c]).steps[s]]])]
          /\ runOf' = Unlinked(Ids(Present(case[c]).steps))
    BY Zenon DEF SaveCase
  <2>2. QED  BY <1>1, <2>1
<1>3. PICK steps : steps = [s \in StepIds |->
                   IF s \notin ids THEN 0
                   ELSE IF rewritten \/ now.steps[s] = 0 THEN n
                   ELSE now.steps[s]]
  OBVIOUS
<1>4. PICK e : e = [title |-> IF retitled THEN n ELSE now.title,
                    archived |-> archived, steps |-> steps]
  OBVIOUS
<1>5. now.title \in Nat /\ now.steps \in StepRows /\ n \in Nat
  BY <1>1, Rows
<1>6. steps \in StepRows  BY <1>3, <1>5 DEF StepRows
<1>7. e \in CaseState  BY <1>4, <1>5, <1>6 DEF CaseState
<1>8. Ids(e.steps) \subseteq ids  BY <1>3, <1>4 DEF Ids
<1>9. case' = [case EXCEPT ![c] = Append(case[c], e)]
  BY <1>2, <1>3, <1>4
<1>10. UNCHANGED <<plan, req>>  BY DEF SaveCase
<1>11. QED  BY <1>1, <1>2, <1>7, <1>8, <1>9, <1>10

\* A patch adds a state with the steps there are.
LEMMA PatchMoves ==
    ASSUME SpawnTypeOK, NEW c \in TestCases, PatchCase(c)
    PROVE  \E e \in CaseState :
              /\ case' = [case EXCEPT ![c] = Append(case[c], e)]
              /\ e.steps = Present(case[c]).steps
              /\ UNCHANGED <<plan, runOf, req>>
<1>1. PICK now, n : now = Present(case[c]) /\ n = Len(case[c]) + 1
  OBVIOUS
<1>2. PICK retitled, archived \in BOOLEAN :
        case' = [case EXCEPT ![c] = Append(case[c],
                   [now EXCEPT !.title = IF retitled THEN n ELSE @,
                               !.archived = archived])]
  BY <1>1 DEF PatchCase
<1>3. PICK e : e = [now EXCEPT !.title = IF retitled THEN n ELSE @,
                               !.archived = archived]
  OBVIOUS
<1>4. now \in CaseState /\ n \in Nat  BY <1>1, Rows
<1>5. e \in CaseState /\ e.steps = now.steps  BY <1>3, <1>4 DEF CaseState
<1>6. case' = [case EXCEPT ![c] = Append(case[c], e)]  BY <1>2, <1>3
<1>7. QED  BY <1>1, <1>5, <1>6 DEF PatchCase

\* A plan gains a state.
LEMMA PlanMoves ==
    ASSUME SpawnTypeOK, NEW p \in Plans, SetPlanCases(p) \/ SetPlanStatus(p)
    PROVE  \E e \in PlanState :
              /\ plan' = [plan EXCEPT ![p] = Append(plan[p], e)]
              /\ UNCHANGED <<case, runOf, req>>
<1>1. PICK now : now = Present(plan[p])  OBVIOUS
<1>2. now \in PlanState  BY <1>1, Presents DEF SpawnTypeOK
<1>3. CASE SetPlanCases(p)
  <2>1. PICK cs \in SUBSET TestCases :
           plan' = [plan EXCEPT ![p] = Append(plan[p], [now EXCEPT !.cases = cs])]
    BY <1>1, <1>3 DEF SetPlanCases
  <2>2. [now EXCEPT !.cases = cs] \in PlanState  BY <1>2, <2>1 DEF PlanState
  <2>3. QED  BY <1>3, <2>1, <2>2 DEF SetPlanCases
<1>4. CASE SetPlanStatus(p)
  <2>1. PICK s \in PlanStatuses :
           plan' = [plan EXCEPT ![p] = Append(plan[p], [now EXCEPT !.status = s])]
    BY <1>1, <1>4 DEF SetPlanStatus
  <2>2. [now EXCEPT !.status = s] \in PlanState  BY <1>2, <2>1 DEF PlanState
  <2>3. QED  BY <1>4, <2>1, <2>2 DEF SetPlanStatus
<1>5. QED  BY <1>3, <1>4

\* Every step keeps the types.
LEMMA NextType ==
    ASSUME SpawnTypeOK, [SpawnNext]_spawnVars
    PROVE  SpawnTypeOK'
<1>1. ASSUME NEW r \in Requests,
             \/ Submit(r) \/ LoadPlan(r) \/ LoadPlanCases(r) \/ LoadCases(r)
             \/ LoadSteps(r) \/ FailSpawn(r)
      PROVE  SpawnTypeOK'
  BY <1>1, ReadType
<1>2. ASSUME NEW r \in Requests, Commit(r) PROVE SpawnTypeOK'
  BY <1>2, CommitType
<1>3. ASSUME NEW c \in TestCases, SaveCase(c) PROVE SpawnTypeOK'
  <2>1. PICK e \in CaseState :
           /\ case' = [case EXCEPT ![c] = Append(case[c], e)]
           /\ runOf' = Unlinked(Ids(Present(case[c]).steps))
           /\ UNCHANGED <<plan, req>>
    BY <1>3, SaveMoves
  <2>2. Append(case[c], e) \in Seq(CaseState) \ {<<>>}  BY Rows, Appended
  <2>3. Ids(Present(case[c]).steps) \in SUBSET StepIds  BY DEF Ids
  <2>4. runOf' \in [Requests -> {Null} \cup Run]
    BY <2>1, <2>3, UnlinkedType DEF SpawnTypeOK
  <2>5. QED  BY <2>1, <2>2, <2>4 DEF SpawnTypeOK
<1>4. ASSUME NEW c \in TestCases, PatchCase(c) PROVE SpawnTypeOK'
  <2>1. PICK e \in CaseState :
           /\ case' = [case EXCEPT ![c] = Append(case[c], e)]
           /\ UNCHANGED <<plan, runOf, req>>
    BY <1>4, PatchMoves
  <2>2. Append(case[c], e) \in Seq(CaseState) \ {<<>>}  BY Rows, Appended
  <2>3. QED  BY <2>1, <2>2 DEF SpawnTypeOK
<1>5. ASSUME NEW p \in Plans, SetPlanCases(p) \/ SetPlanStatus(p) PROVE SpawnTypeOK'
  <2>1. PICK e \in PlanState :
           /\ plan' = [plan EXCEPT ![p] = Append(plan[p], e)]
           /\ UNCHANGED <<case, runOf, req>>
    BY <1>5, PlanMoves
  <2>2. Append(plan[p], e) \in Seq(PlanState) \ {<<>>}  BY Rows, Appended
  <2>3. QED  BY <2>1, <2>2 DEF SpawnTypeOK
<1>6. CASE UNCHANGED spawnVars  BY <1>6 DEF SpawnTypeOK, spawnVars
<1>7. QED  BY <1>1, <1>2, <1>3, <1>4, <1>5, <1>6 DEF SpawnNext

\* Cases, plans, runs and requests hold what their tables allow, whatever is
\* saved while runs are created.
THEOREM RunSpawnTyped == SpawnSpec => []SpawnTypeOK
<1>1. SpawnInit => SpawnTypeOK  BY InitType
<1>2. SpawnTypeOK /\ [SpawnNext]_spawnVars => SpawnTypeOK'  BY NextType
<1>3. QED  BY <1>1, <1>2, PTL DEF SpawnSpec

-----------------------------------------------------------------------------
(* What a step may do *)

\* Rows only gain states.
LEMMA History ==
    ASSUME SpawnTypeOK, [SpawnNext]_spawnVars
    PROVE  /\ \A c \in TestCases : Extends(case[c], case'[c])
           /\ \A p \in Plans : Extends(plan[p], plan'[p])
<1>1. /\ \A c \in TestCases : Extends(case[c], case[c])
      /\ \A p \in Plans : Extends(plan[p], plan[p])
  BY Rows DEF Extends
<1>2. ASSUME NEW c \in TestCases, SaveCase(c) \/ PatchCase(c)
      PROVE  /\ \A d \in TestCases : Extends(case[d], case'[d])
             /\ plan' = plan
  <2>1. PICK e \in CaseState :
           /\ case' = [case EXCEPT ![c] = Append(case[c], e)]
           /\ plan' = plan
    BY <1>2, SaveMoves, PatchMoves
  <2>2. Extends(case[c], Append(case[c], e))  BY Rows, Appended
  <2>3. \A d \in TestCases : case'[d] = IF d = c THEN Append(case[c], e) ELSE case[d]
    BY <2>1 DEF SpawnTypeOK
  <2>4. QED  BY <1>1, <2>1, <2>2, <2>3
<1>3. ASSUME NEW p \in Plans, SetPlanCases(p) \/ SetPlanStatus(p)
      PROVE  /\ \A q \in Plans : Extends(plan[q], plan'[q])
             /\ case' = case
  <2>1. PICK e \in PlanState :
           /\ plan' = [plan EXCEPT ![p] = Append(plan[p], e)]
           /\ case' = case
    BY <1>3, PlanMoves
  <2>2. Extends(plan[p], Append(plan[p], e))  BY Rows, Appended
  <2>3. \A q \in Plans : plan'[q] = IF q = p THEN Append(plan[p], e) ELSE plan[q]
    BY <2>1 DEF SpawnTypeOK
  <2>4. QED  BY <1>1, <2>1, <2>2, <2>3
<1>4. ASSUME NEW r \in Requests,
             \/ Submit(r) \/ LoadPlan(r) \/ LoadPlanCases(r) \/ LoadCases(r)
             \/ LoadSteps(r) \/ FailSpawn(r) \/ Commit(r)
      PROVE  case' = case /\ plan' = plan
  BY <1>4 DEF Submit, LoadPlan, LoadPlanCases, LoadCases, LoadSteps, FailSpawn, Commit
<1>5. QED  BY <1>1, <1>2, <1>3, <1>4 DEF SpawnNext, spawnVars

\* A run stays what it is, but for links it may lose.
RunKept(r) ==
    \/ runOf[r] = Null /\ runOf'[r] = Null
    \/ /\ runOf[r] # Null /\ runOf'[r] # Null
       /\ runOf'[r].plan = runOf[r].plan
       /\ runOf'[r].chosen = runOf[r].chosen
       /\ runOf'[r].since = runOf[r].since
       /\ \A c \in TestCases :
             /\ runOf'[r].snap[c] = Null <=> runOf[r].snap[c] = Null
             /\ runOf[r].snap[c] # Null =>
                   /\ runOf'[r].snap[c].title = runOf[r].snap[c].title
                   /\ runOf'[r].snap[c].steps = runOf[r].snap[c].steps

\* Only its own commit makes another run of a request's.
LEMMA RunMoves ==
    ASSUME SpawnTypeOK, [SpawnNext]_spawnVars, NEW r \in Requests
    PROVE  RunKept(r) \/ Commit(r)
<1>1. CASE runOf'[r] = runOf[r]  BY <1>1 DEF RunKept
<1>2. ASSUME NEW c \in TestCases, SaveCase(c) PROVE RunKept(r)
  <2>1. PICK gone : gone = Ids(Present(case[c]).steps)  OBVIOUS
  <2>2. runOf' = Unlinked(gone)  BY <1>2, <2>1, SaveMoves
  <2>3. gone \in SUBSET StepIds /\ runOf \in [Requests -> {Null} \cup Run]
    BY <2>1 DEF Ids, SpawnTypeOK
  <2>4. CASE runOf[r] = Null  BY <2>2, <2>3, <2>4, UnlinkedType DEF RunKept
  <2>5. CASE runOf[r] # Null
    <3>1. /\ runOf'[r] # Null
          /\ runOf'[r].plan = runOf[r].plan
          /\ runOf'[r].chosen = runOf[r].chosen
          /\ runOf'[r].since = runOf[r].since
          /\ \A d \in TestCases : runOf'[r].snap[d] = Null <=> runOf[r].snap[d] = Null
      BY <2>2, <2>3, <2>5, UnlinkedType
    <3>2. ASSUME NEW d \in TestCases, runOf[r].snap[d] # Null
          PROVE  /\ runOf'[r].snap[d].title = runOf[r].snap[d].title
                 /\ runOf'[r].snap[d].steps = runOf[r].snap[d].steps
      <4>1. runOf'[r].snap[d] = [title |-> runOf[r].snap[d].title,
                                steps |-> runOf[r].snap[d].steps,
                                links |-> runOf[r].snap[d].links \ gone]
        BY <2>2, <2>3, <2>5, <3>2, UnlinkedType
      <4>2. QED  BY <4>1
    <3>3. QED  BY <2>5, <3>1, <3>2 DEF RunKept
  <2>6. QED  BY <2>4, <2>5
<1>3. ASSUME NEW c \in TestCases, PatchCase(c) PROVE runOf' = runOf
  BY <1>3 DEF PatchCase
<1>4. ASSUME NEW p \in Plans, SetPlanCases(p) \/ SetPlanStatus(p) PROVE runOf' = runOf
  BY <1>4 DEF SetPlanCases, SetPlanStatus
<1>5. ASSUME NEW q \in Requests,
             \/ Submit(q) \/ LoadPlan(q) \/ LoadPlanCases(q) \/ LoadCases(q)
             \/ LoadSteps(q) \/ FailSpawn(q)
      PROVE  runOf' = runOf
  BY <1>5 DEF Submit, LoadPlan, LoadPlanCases, LoadCases, LoadSteps, FailSpawn
<1>6. ASSUME NEW q \in Requests, q # r, Commit(q) PROVE runOf'[r] = runOf[r]
  BY <1>6, CommitMoves DEF SpawnTypeOK
<1>7. QED  BY <1>1, <1>2, <1>3, <1>4, <1>5, <1>6 DEF SpawnNext, spawnVars

\* Only its own steps change what a request knows.
LEMMA RequestMoves ==
    ASSUME SpawnTypeOK, [SpawnNext]_spawnVars, NEW r \in Requests
    PROVE  \/ req'[r] = req[r]
           \/ Submit(r) \/ LoadPlan(r) \/ LoadPlanCases(r) \/ LoadCases(r)
           \/ LoadSteps(r)
           \/ req'[r] = Settled
<1>1. ASSUME NEW q \in Requests, q # r,
             \/ Submit(q) \/ LoadPlan(q) \/ LoadPlanCases(q) \/ LoadCases(q)
             \/ LoadSteps(q) \/ FailSpawn(q) \/ Commit(q)
      PROVE  req'[r] = req[r]
  BY <1>1 DEF SpawnTypeOK, Submit, LoadPlan, LoadPlanCases, LoadCases, LoadSteps,
     FailSpawn, Commit
<1>2. ASSUME FailSpawn(r) \/ Commit(r) PROVE req'[r] = Settled
  BY <1>2 DEF SpawnTypeOK, FailSpawn, Commit
<1>3. ASSUME NEW c \in TestCases, SaveCase(c) \/ PatchCase(c) PROVE req' = req
  BY <1>3 DEF SaveCase, PatchCase
<1>4. ASSUME NEW p \in Plans, SetPlanCases(p) \/ SetPlanStatus(p) PROVE req' = req
  BY <1>4 DEF SetPlanCases, SetPlanStatus
<1>5. QED  BY <1>1, <1>2, <1>3, <1>4 DEF SpawnNext, spawnVars

-----------------------------------------------------------------------------
(* What was read stays read *)

\* A moment since a request came stays one.
LEMMA SinceLasts ==
    ASSUME SpawnTypeOK, SpawnTypeOK', NEW since, SinceOK(since),
           \A c \in TestCases : Extends(case[c], case'[c]),
           \A p \in Plans : Extends(plan[p], plan'[p])
    PROVE  SinceOK(since)'
<1>1. ASSUME NEW c \in TestCases PROVE since.case[c] \in 1..Len(case'[c])
  <2>1. /\ since.case[c] \in 1..Len(case[c])
        /\ Len(case[c]) <= Len(case'[c])
        /\ Len(case[c]) \in Nat /\ Len(case'[c]) \in Nat
    BY Rows DEF SinceOK, Extends, SpawnTypeOK
  <2>2. QED  BY <2>1
<1>2. ASSUME NEW p \in Plans PROVE since.plan[p] \in 1..Len(plan'[p])
  <2>1. /\ since.plan[p] \in 1..Len(plan[p])
        /\ Len(plan[p]) <= Len(plan'[p])
        /\ Len(plan[p]) \in Nat /\ Len(plan'[p]) \in Nat
    BY Rows DEF SinceOK, Extends, SpawnTypeOK
  <2>2. QED  BY <2>1
<1>3. QED  BY <1>1, <1>2 DEF SinceOK

\* States of a row that extends another.
LEMMA StatesLast ==
    ASSUME NEW s, NEW t, Extends(s, t), Len(s) \in Nat, Len(t) \in Nat,
           NEW i \in 1..Len(s)
    PROVE  /\ i \in 1..Len(t)
           /\ t[i] = s[i]
           /\ \A j \in i..Len(s) : j \in i..Len(t) /\ t[j] = s[j]
<1>1. Len(s) <= Len(t)  BY DEF Extends
<1>2. \A j \in i..Len(s) : j \in 1..Len(s)  OBVIOUS
<1>3. QED  BY <1>1, <1>2 DEF Extends

\* A case keeps the ids it has had, and has those of its states.
LEMMA EverLasts ==
    ASSUME SpawnTypeOK, SpawnTypeOK', NEW c \in TestCases, Extends(case[c], case'[c])
    PROVE  EverOf(c) \subseteq EverOf(c)'
<1>1. /\ case[c] \in Seq(CaseState) \ {<<>>}
      /\ case'[c] \in Seq(CaseState) \ {<<>>}
  BY DEF SpawnTypeOK
<1>2. /\ DOMAIN case[c] = 1..Len(case[c]) /\ Len(case[c]) \in Nat
      /\ DOMAIN case'[c] = 1..Len(case'[c]) /\ Len(case'[c]) \in Nat
  BY <1>1, Presents
<1>3. SUFFICES ASSUME NEW s \in EverOf(c) PROVE s \in EverOf(c)'
  OBVIOUS
<1>4. PICK i \in 1..Len(case[c]) : s \in Ids(case[c][i].steps)
  BY <1>2 DEF EverOf
<1>5. i \in 1..Len(case'[c]) /\ case'[c][i] = case[c][i]
  BY <1>2, <1>4, StatesLast
<1>6. s \in Ids(case'[c][i].steps)  BY <1>4, <1>5
<1>7. QED  BY <1>2, <1>5, <1>6 DEF EverOf, Ids

\* A case that gains a state gains its ids.
LEMMA EverGrows ==
    ASSUME SpawnTypeOK, SpawnTypeOK', NEW c \in TestCases, NEW e \in CaseState,
           case' = [case EXCEPT ![c] = Append(case[c], e)]
    PROVE  /\ EverOf(c)' \subseteq EverOf(c) \cup Ids(e.steps)
           /\ \A d \in TestCases : d # c => EverOf(d)' = EverOf(d)
<1>1. case[c] \in Seq(CaseState) \ {<<>>}  BY DEF SpawnTypeOK
<1>2. case'[c] = Append(case[c], e)  BY DEF SpawnTypeOK
<1>3. case'[c] \in Seq(CaseState) \ {<<>>}  BY DEF SpawnTypeOK
<1>4. /\ DOMAIN case[c] = 1..Len(case[c]) /\ Len(case[c]) \in Nat
      /\ DOMAIN case'[c] = 1..Len(case'[c])
  BY <1>1, <1>3, Presents
<1>5. /\ Len(case'[c]) = Len(case[c]) + 1
      /\ case'[c][Len(case[c]) + 1] = e
      /\ \A i \in 1..Len(case[c]) : case'[c][i] = case[c][i]
  BY <1>1, <1>2, Appended DEF Extends
<1>6. ASSUME NEW s \in EverOf(c)' PROVE s \in EverOf(c) \cup Ids(e.steps)
  <2>1. PICK i \in 1..Len(case'[c]) : s \in Ids(case'[c][i].steps)
    BY <1>4, <1>6 DEF EverOf, Ids
  <2>2. i \in 1..Len(case[c]) \/ i = Len(case[c]) + 1  BY <1>4, <1>5
  <2>3. CASE i \in 1..Len(case[c])
    <3>1. s \in Ids(case[c][i].steps)  BY <1>5, <2>1, <2>3
    <3>2. QED  BY <1>4, <2>3, <3>1 DEF EverOf
  <2>4. CASE i = Len(case[c]) + 1  BY <1>5, <2>1, <2>4
  <2>5. QED  BY <2>2, <2>3, <2>4
<1>7. \A d \in TestCases : d # c => case'[d] = case[d]  BY DEF SpawnTypeOK
<1>8. QED  BY <1>6, <1>7 DEF EverOf, Ids

\* The case rows a request has read keep the state they were read in.
LEMMA CasesReadLasts ==
    ASSUME SpawnTypeOK, SpawnTypeOK', NEW h \in Request, CasesReadBy(h),
           \A c \in TestCases : Extends(case[c], case'[c])
    PROVE  CasesReadBy(h)'
<1>1. \A c \in TestCases : Len(case[c]) \in Nat /\ Len(case'[c]) \in Nat
  <2>1. \A c \in TestCases : /\ case[c] \in Seq(CaseState) \ {<<>>}
                             /\ case'[c] \in Seq(CaseState) \ {<<>>}
    BY DEF SpawnTypeOK
  <2>2. QED  BY <2>1, Presents
<1>2. ASSUME NEW c \in TestCases, NEW i \in 1..Len(case[c])
      PROVE  /\ i \in 1..Len(case'[c])
             /\ TitleAt(h, c, i) => TitleAt(h, c, i)'
             /\ StepsAt(h, c, i) => StepsAt(h, c, i)'
  <2>1. /\ i \in 1..Len(case'[c]) /\ case'[c][i] = case[c][i]
        /\ \A j \in i..Len(case[c]) :
              j \in i..Len(case'[c]) /\ case'[c][j] = case[c][j]
    BY <1>1, <1>2, StatesLast
  <2>2. TitleAt(h, c, i) => TitleAt(h, c, i)'  BY <2>1 DEF TitleAt
  <2>3. ASSUME StepsAt(h, c, i) PROVE StepsAt(h, c, i)'
    <3>1. PICK j \in i..Len(case[c]) : case[c][j].steps = h.steps[c]
      BY <2>3 DEF StepsAt
    <3>2. j \in i..Len(case'[c]) /\ case'[c][j].steps = h.steps[c]
      BY <2>1, <3>1
    <3>3. QED  BY <2>2, <2>3, <3>2 DEF StepsAt
  <2>4. QED  BY <2>1, <2>2, <2>3
<1>3. h.pc \in {"steps", "commit"} => h.ids \subseteq TestCases  BY RequestKinds
<1>4. \A c \in TestCases : EverOf(c) \subseteq EverOf(c)'  BY EverLasts
<1>5. ASSUME h.pc = "steps", NEW c \in h.ids
      PROVE  \E i \in 1..Len(case'[c]) : TitleAt(h, c, i)'
  <2>1. PICK i \in 1..Len(case[c]) : TitleAt(h, c, i)
    BY <1>5 DEF CasesReadBy
  <2>2. QED  BY <1>2, <1>3, <1>5, <2>1
<1>6. ASSUME h.pc = "commit", NEW c \in h.ids
      PROVE  \E i \in 1..Len(case'[c]) : StepsAt(h, c, i)'
  <2>1. PICK i \in 1..Len(case[c]) : StepsAt(h, c, i)
    BY <1>6 DEF CasesReadBy
  <2>2. QED  BY <1>2, <1>3, <1>6, <2>1
<1>7. ASSUME h.pc = "commit", NEW c \in TestCases PROVE Ids(h.steps[c]) \subseteq EverOf(c)'
  BY <1>4, <1>7 DEF CasesReadBy
<1>8. QED  BY <1>5, <1>6, <1>7 DEF CasesReadBy, Ids

\* The plan a request has read keeps the state it was read in.
LEMMA PlanStatesLast ==
    ASSUME SpawnTypeOK, SpawnTypeOK', NEW h, h.plan \in Plans, NEW ids,
           \A p \in Plans : Extends(plan[p], plan'[p]),
           NEW i \in 1..Len(plan[h.plan])
    PROVE  /\ i \in 1..Len(plan'[h.plan])
           /\ ActiveAt(h, i) => ActiveAt(h, i)'
           /\ SelectedAt(h, ids, i) => SelectedAt(h, ids, i)'
<1>1. /\ plan[h.plan] \in Seq(PlanState) \ {<<>>}
      /\ plan'[h.plan] \in Seq(PlanState) \ {<<>>}
  BY DEF SpawnTypeOK
<1>2. Len(plan[h.plan]) \in Nat /\ Len(plan'[h.plan]) \in Nat
  BY <1>1, Presents
<1>3. /\ i \in 1..Len(plan'[h.plan]) /\ plan'[h.plan][i] = plan[h.plan][i]
      /\ \A j \in i..Len(plan[h.plan]) :
            j \in i..Len(plan'[h.plan]) /\ plan'[h.plan][j] = plan[h.plan][j]
  BY <1>2, StatesLast
<1>4. ActiveAt(h, i) => ActiveAt(h, i)'  BY <1>3 DEF ActiveAt
<1>5. ASSUME SelectedAt(h, ids, i) PROVE SelectedAt(h, ids, i)'
  <2>1. PICK j \in i..Len(plan[h.plan]) : Selected(h, ids, j)
    BY <1>5 DEF SelectedAt
  <2>2. j \in i..Len(plan'[h.plan]) /\ Selected(h, ids, j)'
    BY <1>3, <2>1 DEF Selected
  <2>3. QED  BY <1>4, <1>5, <2>2 DEF SelectedAt
<1>6. QED  BY <1>3, <1>4, <1>5

\* So what it has selected remains what the plan gave it.
LEMMA PlanReadLasts ==
    ASSUME SpawnTypeOK, SpawnTypeOK', NEW h \in Request, PlanReadBy(h),
           \A p \in Plans : Extends(plan[p], plan'[p])
    PROVE  PlanReadBy(h)'
<1>1. ASSUME h.pc = "plan cases"
      PROVE  \E i \in 1..Len(plan'[h.plan]) : ActiveAt(h, i)'
  <2>1. PICK i \in 1..Len(plan[h.plan]) : ActiveAt(h, i)
    BY <1>1 DEF PlanReadBy
  <2>2. h.plan \in Plans  BY <1>1, RequestKinds
  <2>3. QED  BY <2>1, <2>2, PlanStatesLast
<1>2. ASSUME h.pc \in {"cases", "steps", "commit"}, h.plan # Null
      PROVE  \E i \in 1..Len(plan'[h.plan]) : SelectedAt(h, h.ids, i)'
  <2>1. PICK i \in 1..Len(plan[h.plan]) : SelectedAt(h, h.ids, i)
    BY <1>2 DEF PlanReadBy
  <2>2. h.plan \in Plans  BY <1>2, RequestKinds
  <2>3. QED  BY <2>1, <2>2, PlanStatesLast
<1>3. QED  BY <1>1, <1>2 DEF PlanReadBy

-----------------------------------------------------------------------------
(* The inductive invariant, conjunct by conjunct *)

\* Ids sent are the case's own, or of no case.
LEMMA OwnedLasts ==
    ASSUME SpawnTypeOK, SpawnTypeOK', Owned, [SpawnNext]_spawnVars
    PROVE  Owned'
<1>1. CASE case' = case  BY <1>1 DEF Owned, EverOf, Ids
<1>2. ASSUME NEW c \in TestCases, NEW e \in CaseState,
             case' = [case EXCEPT ![c] = Append(case[c], e)],
             Ids(e.steps) \subseteq EverOf(c) \cup Unused
      PROVE  Owned'
  <2>1. /\ EverOf(c)' \subseteq EverOf(c) \cup Unused
        /\ \A d \in TestCases : d # c => EverOf(d)' = EverOf(d)
    BY <1>2, EverGrows
  <2>2. \A d \in TestCases : Unused \cap EverOf(d) = {}  BY DEF Unused
  <2>3. \A d \in TestCases : d # c => EverOf(c)' \cap EverOf(d)' = {}
    BY <2>1, <2>2 DEF Owned
  <2>4. \A d, f \in TestCases : d # f => EverOf(d)' \cap EverOf(f)' = {}
    BY <2>1, <2>3 DEF Owned
  <2>5. QED  BY <2>4 DEF Owned
<1>3. ASSUME NEW c \in TestCases, SaveCase(c) PROVE Owned'
  BY <1>2, <1>3, SaveMoves
<1>4. ASSUME NEW c \in TestCases, PatchCase(c) PROVE Owned'
  <2>1. PICK e \in CaseState :
           /\ case' = [case EXCEPT ![c] = Append(case[c], e)]
           /\ e.steps = Present(case[c]).steps
    BY <1>4, PatchMoves
  <2>2. Ids(Present(case[c]).steps) \subseteq EverOf(c)
    BY PresentIds DEF SpawnTypeOK
  <2>3. QED  BY <1>2, <2>1, <2>2
<1>5. ASSUME NEW r \in Requests,
             \/ Submit(r) \/ LoadPlan(r) \/ LoadPlanCases(r) \/ LoadCases(r)
             \/ LoadSteps(r) \/ FailSpawn(r) \/ Commit(r)
      PROVE  case' = case
  BY <1>5 DEF Submit, LoadPlan, LoadPlanCases, LoadCases, LoadSteps, FailSpawn, Commit
<1>6. ASSUME NEW p \in Plans, SetPlanCases(p) \/ SetPlanStatus(p) PROVE case' = case
  BY <1>6 DEF SetPlanCases, SetPlanStatus
<1>7. QED  BY <1>1, <1>3, <1>4, <1>5, <1>6 DEF SpawnNext, spawnVars

\* A request that comes notes the present length of each row.
LEMMA SubmitMoves ==
    ASSUME SpawnTypeOK, NEW r \in Requests, Submit(r)
    PROVE  \/ req'[r] = Settled
           \/ /\ req'[r].pc \in {"plan", "cases"}
              /\ req'[r].pc = "cases" => req'[r].plan = Null
              /\ req'[r].since = [case |-> [c \in TestCases |-> Len(case[c])],
                                  plan |-> [p \in Plans |-> Len(plan[p])]]
<1>1. PICK since : since = [case |-> [c \in TestCases |-> Len(case[c])],
                            plan |-> [p \in Plans |-> Len(plan[p])]]
  OBVIOUS
<1>2. PICK p \in Plans \cup {Null}, chosen \in SUBSET TestCases :
         req' = [req EXCEPT ![r] =
                   IF p # Null
                   THEN [pc |-> "plan", plan |-> p, chosen |-> chosen,
                         since |-> since]
                   ELSE IF chosen = {} THEN Settled
                   ELSE [pc |-> "cases", plan |-> Null, chosen |-> chosen,
                         since |-> since, ids |-> chosen]]
  BY <1>1 DEF Submit
<1>3. req'[r] = IF p # Null
                THEN [pc |-> "plan", plan |-> p, chosen |-> chosen, since |-> since]
                ELSE IF chosen = {} THEN Settled
                ELSE [pc |-> "cases", plan |-> Null, chosen |-> chosen,
                      since |-> since, ids |-> chosen]
  BY <1>2 DEF SpawnTypeOK
<1>4. CASE p # Null
  <2>1. req'[r] = [pc |-> "plan", plan |-> p, chosen |-> chosen, since |-> since]
    BY <1>3, <1>4
  <2>2. req'[r].pc = "plan" /\ req'[r].since = since  BY <2>1
  <2>3. QED  BY <1>1, <2>2
<1>5. CASE p = Null /\ chosen = {}  BY <1>3, <1>5
<1>6. CASE p = Null /\ chosen # {}
  <2>1. req'[r] = [pc |-> "cases", plan |-> Null, chosen |-> chosen,
                   since |-> since, ids |-> chosen]
    BY <1>3, <1>6
  <2>2. req'[r].pc = "cases" /\ req'[r].plan = Null /\ req'[r].since = since
    BY <2>1
  <2>3. QED  BY <1>1, <2>2
<1>7. QED  BY <1>4, <1>5, <1>6

\* LoadPlan refuses, or remembers a plan that is not archived.
LEMMA LoadPlanMoves ==
    ASSUME SpawnTypeOK, NEW r \in Requests, LoadPlan(r)
    PROVE  /\ req[r].pc = "plan"
           /\ \/ req'[r] = Settled
              \/ /\ Present(plan[req[r].plan]).status # "archived"
                 /\ req'[r].pc = "plan cases"
                 /\ req'[r].plan = req[r].plan
                 /\ req'[r].since = req[r].since
<1>1. req[r].pc = "plan" /\ req[r] \in Request  BY DEF SpawnTypeOK, LoadPlan
<1>2. req[r] \in [pc: {"plan", "plan cases"}, plan: Plans, chosen: SUBSET TestCases,
                  since: Since]
  BY <1>1, PlanRequests
<1>3. req'[r] = IF Present(plan[req[r].plan]).status = "archived" THEN Settled
                ELSE [req[r] EXCEPT !.pc = "plan cases"]
  BY DEF SpawnTypeOK, LoadPlan
<1>4. CASE Present(plan[req[r].plan]).status # "archived"
  <2>1. req'[r] = [req[r] EXCEPT !.pc = "plan cases"]  BY <1>3, <1>4
  <2>2. QED  BY <1>1, <1>2, <1>4, <2>1
<1>5. QED  BY <1>1, <1>3, <1>4

\* LoadPlanCases refuses, or selects from the present state of the plan.
LEMMA LoadPlanCasesMoves ==
    ASSUME SpawnTypeOK, NEW r \in Requests, LoadPlanCases(r)
    PROVE  /\ req[r].pc = "plan cases"
           /\ \/ req'[r] = Settled
              \/ \E ids :
                    /\ req'[r] = [pc |-> "cases", plan |-> req[r].plan,
                                  chosen |-> req[r].chosen,
                                  since |-> req[r].since, ids |-> ids]
                    /\ Selected(req[r], ids, Len(plan[req[r].plan]))
<1>1. req[r].pc = "plan cases" /\ req[r] \in Request  BY DEF SpawnTypeOK, LoadPlanCases
<1>2. req[r].plan \in Plans  BY <1>1, RequestKinds
<1>3. PICK members : members = Present(plan[req[r].plan]).cases  OBVIOUS
<1>4. PICK ids : ids = IF req[r].chosen = {} THEN members ELSE req[r].chosen
  OBVIOUS
<1>5. \/ req'[r] = Settled
      \/ /\ req[r].chosen \subseteq members
         /\ req'[r] = [pc |-> "cases", plan |-> req[r].plan,
                       chosen |-> req[r].chosen,
                       since |-> req[r].since, ids |-> ids]
  BY <1>3, <1>4 DEF SpawnTypeOK, LoadPlanCases
<1>6. members = plan[req[r].plan][Len(plan[req[r].plan])].cases
  BY <1>2, <1>3, Rows
<1>7. req[r].chosen \subseteq members =>
         Selected(req[r], ids, Len(plan[req[r].plan]))
  BY <1>4, <1>6 DEF Selected
<1>8. QED  BY <1>1, <1>5, <1>7

\* LoadCases refuses, or copies the present titles of cases that can be run.
LEMMA LoadCasesMoves ==
    ASSUME SpawnTypeOK, NEW r \in Requests, LoadCases(r)
    PROVE  /\ req[r].pc = "cases"
           /\ \/ req'[r] = Settled
              \/ /\ \A c \in req[r].ids : Runnable(c)
                 /\ req'[r] = [pc |-> "steps", plan |-> req[r].plan,
                               chosen |-> req[r].chosen, since |-> req[r].since,
                               ids |-> req[r].ids,
                               titles |-> [c \in TestCases |-> Present(case[c]).title]]
  BY DEF SpawnTypeOK, LoadCases

\* LoadSteps copies the present steps.
LEMMA LoadStepsMoves ==
    ASSUME SpawnTypeOK, NEW r \in Requests, LoadSteps(r)
    PROVE  /\ req[r].pc = "steps"
           /\ req'[r] = [pc |-> "commit", plan |-> req[r].plan,
                         chosen |-> req[r].chosen, since |-> req[r].since,
                         ids |-> req[r].ids, titles |-> req[r].titles,
                         steps |-> [c \in TestCases |-> Present(case[c]).steps]]
  BY DEF SpawnTypeOK, LoadSteps

\* The moment a request came is carried from read to read, and into the run.
LEMMA DatedLasts ==
    ASSUME SpawnTypeOK, SpawnTypeOK', Dated, [SpawnNext]_spawnVars
    PROVE  Dated'
<1>1. ASSUME NEW since, SinceOK(since) PROVE SinceOK(since)'
  BY <1>1, History, SinceLasts
<1>2. ASSUME NEW r \in Requests, req'[r].pc \notin {"idle", "settled"}
      PROVE  SinceOK(req[r].since)'
  <2>1. PICK since : since = req'[r].since  OBVIOUS
  <2>2. SinceOK(since)'
    <3>0. req'[r] # Settled
      <4>1. CASE req'[r] = Settled
        <5>1. req'[r].pc = "settled"  BY <4>1 DEF Settled
        <5>2. QED  BY <1>2, <5>1
      <4>2. QED  BY <4>1
    <3>1. CASE req'[r].since = req[r].since /\ req[r].pc \notin {"idle", "settled"}
      <4>1. SinceOK(since)  BY <2>1, <3>1 DEF Dated
      <4>2. QED  BY <1>1, <4>1
    <3>2. CASE req'[r] = req[r]  BY <1>2, <3>1, <3>2
    <3>3. CASE Submit(r)
      <4>1. since = [case |-> [c \in TestCases |-> Len(case[c])],
                     plan |-> [p \in Plans |-> Len(plan[p])]]
        BY <2>1, <3>0, <3>3, SubmitMoves
      <4>2. \A c \in TestCases : since.case[c] = Len(case[c])  BY <4>1
      <4>3. \A p \in Plans : since.plan[p] = Len(plan[p])  BY <4>1
      <4>4. SinceOK(since)  BY <4>2, <4>3, Rows DEF SinceOK
      <4>5. QED  BY <1>1, <4>4
    <3>4. CASE LoadPlan(r)
      <4>1. req[r].pc = "plan" /\ req'[r].since = req[r].since
        BY <3>0, <3>4, LoadPlanMoves
      <4>2. req[r].pc \notin {"idle", "settled"}  BY <4>1
      <4>3. QED  BY <3>1, <4>1, <4>2
    <3>5. CASE LoadPlanCases(r)
      <4>1. req[r].pc = "plan cases"  BY <3>5, LoadPlanCasesMoves
      <4>2. PICK ids : req'[r] = [pc |-> "cases", plan |-> req[r].plan,
                                  chosen |-> req[r].chosen,
                                  since |-> req[r].since, ids |-> ids]
        BY <3>0, <3>5, LoadPlanCasesMoves
      <4>3. req'[r].since = req[r].since  BY <4>2
      <4>4. QED  BY <3>1, <4>1, <4>3
    <3>6. CASE LoadCases(r)
      <4>1. req[r].pc = "cases"  BY <3>6, LoadCasesMoves
      <4>2. req'[r] = [pc |-> "steps", plan |-> req[r].plan,
                       chosen |-> req[r].chosen, since |-> req[r].since,
                       ids |-> req[r].ids,
                       titles |-> [c \in TestCases |-> Present(case[c]).title]]
        BY <3>0, <3>6, LoadCasesMoves
      <4>3. req'[r].since = req[r].since  BY <4>2
      <4>4. QED  BY <3>1, <4>1, <4>3
    <3>7. CASE LoadSteps(r)
      <4>1. req[r].pc = "steps"  BY <3>7, LoadStepsMoves
      <4>2. req'[r] = [pc |-> "commit", plan |-> req[r].plan,
                       chosen |-> req[r].chosen, since |-> req[r].since,
                       ids |-> req[r].ids, titles |-> req[r].titles,
                       steps |-> [c \in TestCases |-> Present(case[c]).steps]]
        BY <3>7, LoadStepsMoves
      <4>3. req'[r].since = req[r].since  BY <4>2
      <4>4. QED  BY <3>1, <4>1, <4>3
    <3>8. QED
      BY <3>0, <3>2, <3>3, <3>4, <3>5, <3>6, <3>7, RequestMoves
  <2>3. QED  BY <2>1, <2>2 DEF SinceOK
<1>3. ASSUME NEW r \in Requests, runOf'[r] # Null
      PROVE  SinceOK(runOf[r].since)'
  <2>1. PICK since : since = runOf'[r].since  OBVIOUS
  <2>2. CASE RunKept(r)
    <3>1. SinceOK(since)  BY <1>3, <2>1, <2>2 DEF RunKept, Dated, Spawned
    <3>2. SinceOK(since)'  BY <1>1, <3>1
    <3>3. QED  BY <2>1, <3>2 DEF SinceOK
  <2>3. CASE Commit(r)
    <3>1. runOf'[r] = NewRun(req[r]) /\ req[r].pc = "commit"
      BY <1>3, <2>3, CommitMoves DEF SpawnTypeOK
    <3>2. since = req[r].since  BY <2>1, <3>1 DEF NewRun
    <3>3. SinceOK(since)  BY <3>1, <3>2 DEF Dated
    <3>4. SinceOK(since)'  BY <1>1, <3>3
    <3>5. QED  BY <2>1, <3>4 DEF SinceOK
  <2>4. QED  BY <2>2, <2>3, RunMoves
<1>4. QED  BY <1>2, <1>3 DEF Dated, Spawned

\* A read sees a state that is present when it is read.
LEMMA CasesReadNext ==
    ASSUME SpawnTypeOK, SpawnTypeOK', Dated, CasesRead, [SpawnNext]_spawnVars
    PROVE  CasesRead'
<1> SUFFICES ASSUME NEW r \in Requests PROVE CasesReadBy(req[r])'
  BY DEF CasesRead
<1>1. PICK h : h = req[r]  OBVIOUS
<1>2. h \in Request /\ CasesReadBy(h)
  BY <1>1 DEF SpawnTypeOK, CasesRead, CasesReadBy
<1>3. CasesReadBy(h)'  BY <1>2, History, CasesReadLasts
<1>4. CASE req'[r] = req[r]
  <2>1. req'[r] = h  BY <1>1, <1>4
  <2>2. QED  BY <1>3, <2>1 DEF CasesReadBy, TitleAt, StepsAt, Ids
<1>5. CASE req'[r].pc \notin {"steps", "commit"}
  BY <1>5 DEF CasesReadBy
<1>6. CASE req'[r] = Settled
  <2>1. req'[r].pc = "settled"  BY <1>6 DEF Settled
  <2>2. QED  BY <1>5, <2>1
<1>7. CASE LoadCases(r) /\ req'[r] # Settled
  <2>1. /\ \A c \in h.ids : Runnable(c)
        /\ req'[r] = [pc |-> "steps", plan |-> h.plan,
                      chosen |-> h.chosen, since |-> h.since, ids |-> h.ids,
                      titles |-> [c \in TestCases |-> Present(case[c]).title]]
        /\ h.pc = "cases"
    BY <1>1, <1>7, LoadCasesMoves
  <2>2. case' = case  BY <1>7 DEF LoadCases
  <2>3. h.ids \subseteq TestCases  BY <1>2, <2>1, RequestKinds
  <2>4. SinceOK(h.since)  BY <1>1, <2>1 DEF Dated
  <2>5. ASSUME NEW c \in h.ids
        PROVE  \E i \in 1..Len(case[c]) : TitleAt(req[r], c, i)'
    <3>1. c \in TestCases  BY <2>3
    <3>2. /\ Len(case[c]) \in 1..Len(case[c])
          /\ Present(case[c]) = case[c][Len(case[c])]
      BY <3>1, Rows
    <3>3. h.since.case[c] <= Len(case[c])  BY <2>4, <3>1, <3>2 DEF SinceOK
    <3>4. /\ req'[r].titles[c] = case[c][Len(case[c])].title
          /\ req'[r].since.case[c] = h.since.case[c]
      BY <2>1, <3>1, <3>2
    <3>5. ~case[c][Len(case[c])].archived
      BY <2>1, <3>2 DEF Runnable
    <3>6. TitleAt(req[r], c, Len(case[c]))'
      BY <2>2, <3>3, <3>4, <3>5 DEF TitleAt
    <3>7. QED  BY <2>2, <3>2, <3>6
  <2>6. req'[r].ids = h.ids /\ req'[r].pc = "steps"  BY <2>1
  <2>7. QED  BY <2>2, <2>5, <2>6 DEF CasesReadBy
<1>8. CASE LoadSteps(r)
  <2>1. /\ req'[r] = [pc |-> "commit", plan |-> h.plan,
                      chosen |-> h.chosen, since |-> h.since, ids |-> h.ids,
                      titles |-> h.titles,
                      steps |-> [c \in TestCases |-> Present(case[c]).steps]]
        /\ h.pc = "steps"
    BY <1>1, <1>8, LoadStepsMoves
  <2>2. case' = case  BY <1>8 DEF LoadSteps
  <2>3. h.ids \subseteq TestCases  BY <1>2, <2>1, RequestKinds
  <2>4. /\ req'[r].pc = "commit" /\ req'[r].ids = h.ids
        /\ req'[r].since = h.since /\ req'[r].titles = h.titles
    BY <2>1
  <2>5. \A c \in TestCases : req'[r].steps[c] = Present(case[c]).steps
    BY <2>1
  <2>6. ASSUME NEW c \in h.ids
        PROVE  \E i \in 1..Len(case[c]) : StepsAt(req[r], c, i)'
    <3>1. PICK i \in 1..Len(case[c]) : TitleAt(h, c, i)
      BY <1>2, <2>1, <2>6 DEF CasesReadBy
    <3>2. c \in TestCases /\ Len(case[c]) \in Nat /\ Len(case[c]) \in i..Len(case[c])
      BY <2>3, <3>1, Rows
    <3>3. case[c][Len(case[c])].steps = req'[r].steps[c]
      BY <2>5, <3>2, Rows
    <3>4. TitleAt(req[r], c, i)'  BY <2>2, <2>4, <3>1 DEF TitleAt
    <3>5. StepsAt(req[r], c, i)'  BY <2>2, <3>2, <3>3, <3>4 DEF StepsAt
    <3>6. QED  BY <3>5
  <2>7. \A c \in TestCases : Ids(req'[r].steps[c]) \subseteq EverOf(c)
    BY <2>5, PresentIds DEF SpawnTypeOK
  <2>8. QED  BY <2>2, <2>4, <2>6, <2>7 DEF CasesReadBy, EverOf, Ids
<1>9. CASE Submit(r)
  <2>1. req'[r] = Settled \/ req'[r].pc \in {"plan", "cases"}
    BY <1>9, SubmitMoves
  <2>2. QED  BY <1>5, <1>6, <2>1
<1>10. CASE LoadPlan(r)
  <2>1. req'[r] = Settled \/ req'[r].pc = "plan cases"
    BY <1>10, LoadPlanMoves
  <2>2. QED  BY <1>5, <1>6, <2>1
<1>11. CASE LoadPlanCases(r)
  <2>1. CASE req'[r] = Settled  BY <1>6, <2>1
  <2>2. CASE \E ids : req'[r] = [pc |-> "cases", plan |-> req[r].plan,
                                 chosen |-> req[r].chosen,
                                 since |-> req[r].since, ids |-> ids]
    <3>1. req'[r].pc = "cases"  BY <2>2
    <3>2. QED  BY <1>5, <3>1
  <2>3. QED  BY <1>11, <2>1, <2>2, LoadPlanCasesMoves
<1>12. QED
  BY <1>4, <1>7, <1>8, <1>9, <1>10, <1>11, <1>6, RequestMoves

\* So does a read of the plan, and what is selected is what it gave.
LEMMA PlanReadNext ==
    ASSUME SpawnTypeOK, SpawnTypeOK', Dated, PlanRead, [SpawnNext]_spawnVars
    PROVE  PlanRead'
<1> SUFFICES ASSUME NEW r \in Requests PROVE PlanReadBy(req[r])'
  BY DEF PlanRead
<1>1. PICK h : h = req[r]  OBVIOUS
<1>2. h \in Request /\ PlanReadBy(h)
  <2>1. h \in Request  BY <1>1 DEF SpawnTypeOK
  <2>2. PlanReadBy(req[r])  BY DEF PlanRead
  <2>3. QED  BY <1>1, <2>1, <2>2
<1>3. PlanReadBy(h)'  BY <1>2, History, PlanReadLasts
<1>4. CASE req'[r] = req[r]
  <2>1. req'[r] = h  BY <1>1, <1>4
  <2>2. QED
    BY <1>3, <2>1 DEF PlanReadBy, ActiveAt, SelectedAt, Selected
<1>5. CASE /\ req'[r].pc # "plan cases"
           /\ req'[r].pc \in {"cases", "steps", "commit"} => req'[r].plan = Null
  BY <1>5 DEF PlanReadBy
<1>6. CASE req'[r] = Settled
  <2>1. req'[r].pc = "settled"  BY <1>6 DEF Settled
  <2>2. QED  BY <1>5, <2>1
<1>7. CASE Submit(r)
  <2>1. CASE req'[r].pc = "plan"  BY <1>5, <2>1
  <2>2. CASE req'[r].pc = "cases" /\ req'[r].plan = Null  BY <1>5, <2>2
  <2>3. QED  BY <1>6, <1>7, <2>1, <2>2, SubmitMoves
<1>8. CASE LoadPlan(r) /\ req'[r] # Settled
  <2>1. /\ h.pc = "plan"
        /\ Present(plan[h.plan]).status # "archived"
        /\ req'[r].pc = "plan cases"
        /\ req'[r].plan = h.plan /\ req'[r].since = h.since
    BY <1>1, <1>8, LoadPlanMoves
  <2>2. plan' = plan  BY <1>8 DEF LoadPlan
  <2>3. h.plan \in Plans  BY <1>2, <2>1, RequestKinds
  <2>4. SinceOK(h.since)  BY <1>1, <2>1 DEF Dated
  <2>5. /\ Len(plan[h.plan]) \in 1..Len(plan[h.plan])
        /\ Present(plan[h.plan]) = plan[h.plan][Len(plan[h.plan])]
    BY <2>3, Rows
  <2>6. h.since.plan[h.plan] <= Len(plan[h.plan])
    BY <2>3, <2>4, <2>5 DEF SinceOK
  <2>7. ActiveAt(req[r], Len(plan[h.plan]))'
    BY <2>1, <2>2, <2>5, <2>6 DEF ActiveAt
  <2>8. QED  BY <2>1, <2>2, <2>5, <2>7 DEF PlanReadBy
<1>9. CASE LoadPlanCases(r) /\ req'[r] # Settled
  <2>1. PICK ids :
           /\ req'[r] = [pc |-> "cases", plan |-> h.plan, chosen |-> h.chosen,
                         since |-> h.since, ids |-> ids]
           /\ Selected(h, ids, Len(plan[h.plan]))
    BY <1>1, <1>9, LoadPlanCasesMoves
  <2>2. h.pc = "plan cases"  BY <1>1, <1>9, LoadPlanCasesMoves
  <2>3. plan' = plan  BY <1>9 DEF LoadPlanCases
  <2>4. h.plan \in Plans  BY <1>2, <2>2, RequestKinds
  <2>5. PICK i \in 1..Len(plan[h.plan]) : ActiveAt(h, i)
    BY <1>2, <2>2 DEF PlanReadBy
  <2>6. Len(plan[h.plan]) \in i..Len(plan[h.plan])  BY <2>4, <2>5, Rows
  <2>7. /\ req'[r].pc = "cases" /\ req'[r].plan = h.plan
        /\ req'[r].chosen = h.chosen /\ req'[r].since = h.since
        /\ req'[r].ids = ids
    BY <2>1
  <2>8. /\ ActiveAt(req[r], i)'
        /\ Selected(req[r], req[r].ids, Len(plan[h.plan]))'
    BY <2>1, <2>3, <2>5, <2>7 DEF ActiveAt, Selected
  <2>9. SelectedAt(req[r], req[r].ids, i)'
    BY <2>3, <2>6, <2>7, <2>8 DEF SelectedAt
  <2>10. QED  BY <2>3, <2>5, <2>7, <2>9 DEF PlanReadBy
<1>10. ASSUME req'[r].pc \in {"steps", "commit"}, h.pc \in {"cases", "steps"},
              req'[r].plan = h.plan, req'[r].chosen = h.chosen,
              req'[r].since = h.since, req'[r].ids = h.ids
       PROVE  PlanReadBy(req[r])'
  BY <1>3, <1>10 DEF PlanReadBy, ActiveAt, SelectedAt, Selected
<1>11. CASE LoadCases(r) /\ req'[r] # Settled
  <2>1. /\ req'[r] = [pc |-> "steps", plan |-> h.plan,
                      chosen |-> h.chosen, since |-> h.since, ids |-> h.ids,
                      titles |-> [c \in TestCases |-> Present(case[c]).title]]
        /\ h.pc = "cases"
    BY <1>1, <1>11, LoadCasesMoves
  <2>2. /\ req'[r].pc = "steps" /\ req'[r].plan = h.plan
        /\ req'[r].chosen = h.chosen /\ req'[r].since = h.since
        /\ req'[r].ids = h.ids
    BY <2>1
  <2>3. QED  BY <1>10, <2>1, <2>2
<1>12. CASE LoadSteps(r)
  <2>1. /\ req'[r] = [pc |-> "commit", plan |-> h.plan,
                      chosen |-> h.chosen, since |-> h.since, ids |-> h.ids,
                      titles |-> h.titles,
                      steps |-> [c \in TestCases |-> Present(case[c]).steps]]
        /\ h.pc = "steps"
    BY <1>1, <1>12, LoadStepsMoves
  <2>2. /\ req'[r].pc = "commit" /\ req'[r].plan = h.plan
        /\ req'[r].chosen = h.chosen /\ req'[r].since = h.since
        /\ req'[r].ids = h.ids
    BY <2>1
  <2>3. QED  BY <1>10, <2>1, <2>2
<1>13. QED
  BY <1>4, <1>6, <1>7, <1>8, <1>9, <1>11, <1>12, RequestMoves

\* The cases of the run a commit creates, and what is copied of them.
LEMMA NewRunCases ==
    ASSUME SpawnTypeOK, NEW r \in Requests, Commit(r), runOf'[r] # Null
    PROVE  /\ req[r].pc = "commit"
           /\ runOf'[r].plan = req[r].plan
           /\ runOf'[r].chosen = req[r].chosen
           /\ runOf'[r].since = req[r].since
           /\ req[r].ids \subseteq TestCases
           /\ \A c \in TestCases : runOf'[r].snap[c] # Null <=> c \in req[r].ids
           /\ \A c \in req[r].ids :
                 /\ runOf'[r].snap[c].title = req[r].titles[c]
                 /\ runOf'[r].snap[c].steps = req[r].steps[c]
                 /\ runOf'[r].snap[c].links = Ids(req[r].steps[c])
           /\ \A c \in req[r].ids : \A s \in Ids(req[r].steps[c]) : StepExists(s)
<1>1. PICK h : h = req[r]  OBVIOUS
<1>2. h.pc = "commit" /\ h \in Request  BY <1>1, CommitMoves
<1>3. runOf'[r] = NewRun(h) /\ runOf'[r] \in Run
  BY <1>1, CommitMoves DEF SpawnTypeOK
<1>4. \A c \in req[r].ids : \A s \in Ids(req[r].steps[c]) : StepExists(s)
  <2>1. runOf' # [runOf EXCEPT ![r] = Null]  BY DEF SpawnTypeOK
  <2>2. QED  BY <2>1, CommitMoves
<1>5. PICK snap : snap = [c \in TestCases |->
                            IF c \notin h.ids THEN Null
                            ELSE [title |-> h.titles[c], steps |-> h.steps[c],
                                  links |-> Ids(h.steps[c])]]
  OBVIOUS
<1>6. runOf'[r] = [plan |-> h.plan, chosen |-> h.chosen, since |-> h.since,
                  snap |-> snap]
  BY <1>3, <1>5 DEF NewRun
<1>7. /\ runOf'[r].plan = h.plan /\ runOf'[r].chosen = h.chosen
      /\ runOf'[r].since = h.since /\ runOf'[r].snap = snap
  BY <1>6
<1>8. h.ids \subseteq TestCases /\ snap \in [TestCases -> {Null} \cup Snapshot]
  BY <1>2, <1>3, <1>7, RequestKinds DEF Run
<1>9. ASSUME NEW c \in h.ids
      PROVE  /\ snap[c] = [title |-> h.titles[c], steps |-> h.steps[c],
                           links |-> Ids(h.steps[c])]
             /\ snap[c] # Null
  <2>1. h.titles \in [TestCases -> Nat] /\ h.steps \in [TestCases -> StepRows]
    BY <1>2, RequestKinds
  <2>2. [title |-> h.titles[c], steps |-> h.steps[c],
         links |-> Ids(h.steps[c])] \in Snapshot
    BY <1>8, <1>9, <2>1 DEF Snapshot, Ids
  <2>3. snap[c] = [title |-> h.titles[c], steps |-> h.steps[c],
                   links |-> Ids(h.steps[c])]
    BY <1>5, <1>8, <1>9
  <2>4. QED  BY <2>2, <2>3, SpawnAssumption
<1>10. \A c \in TestCases : c \notin h.ids => snap[c] = Null  BY <1>5
<1>11. ASSUME NEW c \in h.ids
       PROVE  /\ snap[c].title = h.titles[c]
              /\ snap[c].steps = h.steps[c]
              /\ snap[c].links = Ids(h.steps[c])
  <2>1. snap[c] = [title |-> h.titles[c], steps |-> h.steps[c],
                   links |-> Ids(h.steps[c])]
    BY <1>9
  <2>2. QED  BY <2>1
<1>12. QED  BY <1>1, <1>2, <1>4, <1>7, <1>8, <1>9, <1>10, <1>11

\* A foreign key that holds when the run is inserted names a step of the
\* case that was read; a step deleted takes the links to it along.
LEMMA LinksNext ==
    ASSUME SpawnTypeOK, SpawnTypeOK', Owned, CasesRead, LinksSound, [SpawnNext]_spawnVars
    PROVE  LinksSound'
<1> SUFFICES ASSUME NEW r \in Requests, runOf'[r] # Null,
                    NEW c \in TestCases, runOf'[r].snap[c] # Null
             PROVE  runOf'[r].snap[c].links \subseteq Ids(Present(case[c]).steps)'
  BY DEF LinksSound, Spawned, SpawnedCases
<1>1. ASSUME runOf[r] # Null, runOf[r].snap[c] # Null
      PROVE  runOf[r].snap[c].links \subseteq Ids(Present(case[c]).steps)
  BY <1>1 DEF LinksSound, Spawned, SpawnedCases
<1>2. CASE runOf'[r] = runOf[r] /\ Present(case'[c]).steps = Present(case[c]).steps
  BY <1>1, <1>2 DEF Ids, Present
<1>3. ASSUME NEW d \in TestCases, SaveCase(d)
      PROVE  runOf'[r].snap[c].links \subseteq Ids(Present(case[c]).steps)'
  <2>1. PICK gone : gone = Ids(Present(case[d]).steps)  OBVIOUS
  <2>2. PICK e \in CaseState :
           /\ case' = [case EXCEPT ![d] = Append(case[d], e)]
           /\ runOf' = Unlinked(gone)
    BY <1>3, <2>1, SaveMoves
  <2>3. gone \in SUBSET StepIds /\ runOf \in [Requests -> {Null} \cup Run]
    BY <2>1 DEF Ids, SpawnTypeOK
  <2>4. runOf[r] # Null  BY <2>2, <2>3, UnlinkedType
  <2>5. runOf[r].snap[c] # Null
    BY <2>2, <2>3, <2>4, UnlinkedType
  <2>6. runOf'[r].snap[c] = [title |-> runOf[r].snap[c].title,
                            steps |-> runOf[r].snap[c].steps,
                            links |-> runOf[r].snap[c].links \ gone]
    BY <2>2, <2>3, <2>4, <2>5, UnlinkedType
  <2>7. runOf'[r].snap[c].links = runOf[r].snap[c].links \ gone  BY <2>6
  <2>8. CASE c = d
    <3>1. runOf'[r].snap[c].links = {}  BY <1>1, <2>1, <2>4, <2>5, <2>7, <2>8
    <3>2. QED  BY <3>1
  <2>9. CASE c # d
    <3>1. case'[c] = case[c]  BY <2>2, <2>9 DEF SpawnTypeOK
    <3>2. QED  BY <1>1, <2>4, <2>5, <2>7, <3>1 DEF Ids, Present
  <2>10. QED  BY <2>8, <2>9
<1>4. ASSUME NEW d \in TestCases, PatchCase(d)
      PROVE  runOf'[r] = runOf[r] /\ Present(case'[c]).steps = Present(case[c]).steps
  <2>1. PICK e \in CaseState :
           /\ case' = [case EXCEPT ![d] = Append(case[d], e)]
           /\ e.steps = Present(case[d]).steps
           /\ runOf' = runOf
    BY <1>4, PatchMoves
  <2>2. Present(Append(case[d], e)) = e  BY Rows, Appended
  <2>3. case'[c] = IF c = d THEN Append(case[d], e) ELSE case[c]
    BY <2>1 DEF SpawnTypeOK
  <2>4. QED  BY <2>1, <2>2, <2>3
<1>5. CASE Commit(r)
  <2>1. /\ req[r].pc = "commit" /\ c \in req[r].ids
        /\ runOf'[r].snap[c].links = Ids(req[r].steps[c])
        /\ \A s \in Ids(req[r].steps[c]) : StepExists(s)
    BY <1>5, NewRunCases
  <2>2. Ids(req[r].steps[c]) \subseteq EverOf(c)
    BY <2>1 DEF CasesRead, CasesReadBy
  <2>3. ASSUME NEW s \in Ids(req[r].steps[c])
        PROVE  s \in Ids(Present(case[c]).steps)
    <3>1. PICK d \in TestCases : s \in Ids(Present(case[d]).steps)
      BY <2>1, <2>3 DEF StepExists
    <3>2. s \in EverOf(d)  BY <3>1, PresentIds DEF SpawnTypeOK
    <3>3. d = c  BY <2>2, <2>3, <3>2 DEF Owned
    <3>4. QED  BY <3>1, <3>3
  <2>4. case' = case  BY <1>5 DEF Commit
  <2>5. QED  BY <2>1, <2>3, <2>4 DEF Ids, Present
<1>6. ASSUME NEW q \in Requests, q # r, Commit(q)
      PROVE  runOf'[r] = runOf[r] /\ case' = case
  BY <1>6, CommitMoves DEF SpawnTypeOK
<1>7. ASSUME NEW q \in Requests,
             \/ Submit(q) \/ LoadPlan(q) \/ LoadPlanCases(q) \/ LoadCases(q)
             \/ LoadSteps(q) \/ FailSpawn(q)
      PROVE  runOf' = runOf /\ case' = case
  BY <1>7 DEF Submit, LoadPlan, LoadPlanCases, LoadCases, LoadSteps, FailSpawn
<1>8. ASSUME NEW p \in Plans, SetPlanCases(p) \/ SetPlanStatus(p)
      PROVE  runOf' = runOf /\ case' = case
  BY <1>8 DEF SetPlanCases, SetPlanStatus
<1>9. CASE UNCHANGED spawnVars  BY <1>2, <1>9 DEF spawnVars
<1>10. QED
  BY <1>2, <1>3, <1>4, <1>5, <1>6, <1>7, <1>8, <1>9 DEF SpawnNext

\* A run that was not stale when it was created does not become so: the
\* states it was copied from are still behind the present one.
LEMMA StaleNext ==
    ASSUME SpawnTypeOK, SpawnTypeOK', Dated, CasesRead, NothingStale, [SpawnNext]_spawnVars
    PROVE  NothingStale'
<1> SUFFICES ASSUME NEW r \in Requests, runOf'[r] # Null,
                    NEW c \in TestCases, runOf'[r].snap[c] # Null
             PROVE  \E i \in runOf'[r].since.case[c]..Len(case'[c]) :
                       /\ case'[c][i].title = runOf'[r].snap[c].title
                       /\ ~case'[c][i].archived
                       /\ \E j \in i..Len(case'[c]) :
                             case'[c][j].steps = runOf'[r].snap[c].steps
  BY DEF NothingStale, Spawned, SpawnedCases
<1>1. Extends(case[c], case'[c])  BY History
<1>2. Len(case[c]) \in Nat /\ Len(case'[c]) \in Nat
  <2>1. /\ case[c] \in Seq(CaseState) \ {<<>>}
        /\ case'[c] \in Seq(CaseState) \ {<<>>}
    BY DEF SpawnTypeOK
  <2>2. QED  BY <2>1, Presents
<1>3. ASSUME NEW i \in 1..Len(case[c]), NEW j \in i..Len(case[c]),
             runOf'[r].since.case[c] <= i, runOf'[r].since.case[c] \in Nat,
             case[c][i].title = runOf'[r].snap[c].title, ~case[c][i].archived,
             case[c][j].steps = runOf'[r].snap[c].steps
      PROVE  \E k \in runOf'[r].since.case[c]..Len(case'[c]) :
                /\ case'[c][k].title = runOf'[r].snap[c].title
                /\ ~case'[c][k].archived
                /\ \E l \in k..Len(case'[c]) :
                      case'[c][l].steps = runOf'[r].snap[c].steps
  <2>1. /\ i \in 1..Len(case'[c]) /\ case'[c][i] = case[c][i]
        /\ j \in i..Len(case'[c]) /\ case'[c][j] = case[c][j]
    BY <1>1, <1>2, <1>3, StatesLast
  <2>2. i \in runOf'[r].since.case[c]..Len(case'[c])  BY <1>3, <2>1
  <2>3. QED  BY <1>3, <2>1, <2>2
<1>4. CASE RunKept(r)
  <2>1. /\ runOf[r] # Null /\ runOf[r].snap[c] # Null
        /\ runOf'[r].since = runOf[r].since
        /\ runOf'[r].snap[c].title = runOf[r].snap[c].title
        /\ runOf'[r].snap[c].steps = runOf[r].snap[c].steps
    BY <1>4 DEF RunKept
  <2>2. PICK i \in runOf[r].since.case[c]..Len(case[c]) :
           /\ case[c][i].title = runOf[r].snap[c].title
           /\ ~case[c][i].archived
           /\ \E j \in i..Len(case[c]) : case[c][j].steps = runOf[r].snap[c].steps
    BY <2>1 DEF NothingStale, Spawned, SpawnedCases
  <2>3. PICK j \in i..Len(case[c]) : case[c][j].steps = runOf[r].snap[c].steps
    BY <2>2
  <2>4. runOf[r].since.case[c] \in 1..Len(case[c])
    BY <2>1 DEF Dated, SinceOK, Spawned
  <2>5. i \in 1..Len(case[c]) /\ runOf[r].since.case[c] <= i
    BY <1>2, <2>2, <2>4
  <2>6. QED  BY <1>3, <2>1, <2>2, <2>3, <2>4, <2>5
<1>5. CASE Commit(r)
  <2>1. /\ req[r].pc = "commit" /\ c \in req[r].ids
        /\ runOf'[r].since = req[r].since
        /\ runOf'[r].snap[c].title = req[r].titles[c]
        /\ runOf'[r].snap[c].steps = req[r].steps[c]
    BY <1>5, NewRunCases
  <2>2. PICK i \in 1..Len(case[c]) : StepsAt(req[r], c, i)
    BY <2>1 DEF CasesRead, CasesReadBy
  <2>3. PICK j \in i..Len(case[c]) : case[c][j].steps = req[r].steps[c]
    BY <2>2 DEF StepsAt
  <2>4. /\ req[r].since.case[c] <= i
        /\ case[c][i].title = req[r].titles[c] /\ ~case[c][i].archived
    BY <2>2 DEF StepsAt, TitleAt
  <2>5. req[r].since.case[c] \in Nat  BY <2>1 DEF Dated, SinceOK
  <2>6. QED  BY <1>3, <2>1, <2>3, <2>4, <2>5
<1>6. QED  BY <1>4, <1>5, RunMoves

\* Nor does a run cease to be what its plan gave.
LEMMA PlanNext ==
    ASSUME SpawnTypeOK, SpawnTypeOK', Dated, PlanRead, PlanHonoured, [SpawnNext]_spawnVars
    PROVE  PlanHonoured'
<1> SUFFICES ASSUME NEW r \in Requests, runOf'[r] # Null, runOf'[r].plan # Null
             PROVE  \E i \in runOf'[r].since.plan[runOf'[r].plan]
                                ..Len(plan'[runOf'[r].plan]) :
                       /\ plan'[runOf'[r].plan][i].status # "archived"
                       /\ \E j \in i..Len(plan'[runOf'[r].plan]) :
                             IF runOf'[r].chosen = {}
                             THEN SpawnedCases(r)' = plan'[runOf'[r].plan][j].cases
                             ELSE /\ SpawnedCases(r)' = runOf'[r].chosen
                                  /\ SpawnedCases(r)' \subseteq
                                        plan'[runOf'[r].plan][j].cases
  BY DEF PlanHonoured, Spawned
<1>1. PICK made : made = runOf'[r]  OBVIOUS
<1>2. PICK ids : ids = SpawnedCases(r)'  OBVIOUS
<1>3. made.plan \in Plans
  <2>1. made \in Run  BY <1>1 DEF SpawnTypeOK
  <2>2. QED  BY <1>1, <2>1 DEF Run
<1>4. SUFFICES ASSUME made.since.plan[made.plan] \in Nat =>
                         ~ \E i \in 1..Len(plan[made.plan]) : SelectedAt(made, ids, i)
               PROVE  FALSE
  <2>1. ASSUME made.since.plan[made.plan] \in Nat,
               NEW i \in 1..Len(plan[made.plan]), SelectedAt(made, ids, i)
        PROVE  \E k \in made.since.plan[made.plan]..Len(plan'[made.plan]) :
                  /\ plan'[made.plan][k].status # "archived"
                  /\ \E j \in k..Len(plan'[made.plan]) :
                        IF made.chosen = {} THEN ids = plan'[made.plan][j].cases
                        ELSE ids = made.chosen /\ ids \subseteq plan'[made.plan][j].cases
    <3>1. i \in 1..Len(plan'[made.plan]) /\ SelectedAt(made, ids, i)'
      BY <1>3, <2>1, History, PlanStatesLast
    <3>2. Len(plan'[made.plan]) \in Nat
      <4>1. plan'[made.plan] \in Seq(PlanState) \ {<<>>}  BY <1>3 DEF SpawnTypeOK
      <4>2. QED  BY <4>1, Presents
    <3>3. made.since.plan[made.plan] <= i /\ plan'[made.plan][i].status # "archived"
      BY <3>1 DEF SelectedAt, ActiveAt
    <3>4. i \in made.since.plan[made.plan]..Len(plan'[made.plan])
      BY <2>1, <3>1, <3>2, <3>3
    <3>5. PICK j \in i..Len(plan'[made.plan]) : Selected(made, ids, j)'
      BY <3>1 DEF SelectedAt
    <3>6. QED  BY <3>3, <3>4, <3>5 DEF Selected
  <2>2. QED  BY <1>1, <1>2, <2>1
<1>5. CASE RunKept(r)
  <2>1. /\ runOf[r] # Null
        /\ made.plan = runOf[r].plan /\ made.chosen = runOf[r].chosen
        /\ made.since = runOf[r].since
    BY <1>1, <1>5 DEF RunKept
  <2>2. ids = SpawnedCases(r)  BY <1>2, <1>5, <2>1 DEF RunKept, SpawnedCases
  <2>3. made.plan # Null  BY <1>1
  <2>4. PICK i \in made.since.plan[made.plan]..Len(plan[made.plan]) :
           /\ plan[made.plan][i].status # "archived"
           /\ \E j \in i..Len(plan[made.plan]) :
                 IF made.chosen = {} THEN ids = plan[made.plan][j].cases
                 ELSE ids = made.chosen /\ ids \subseteq plan[made.plan][j].cases
    BY <2>1, <2>2, <2>3 DEF PlanHonoured, Spawned
  <2>5. made.since.plan[made.plan] \in 1..Len(plan[made.plan])
    BY <1>3, <2>1 DEF Dated, SinceOK, Spawned
  <2>6. Len(plan[made.plan]) \in Nat  BY <1>3, Rows
  <2>7. i \in 1..Len(plan[made.plan]) /\ made.since.plan[made.plan] <= i
    BY <2>4, <2>5, <2>6
  <2>8. SelectedAt(made, ids, i)
    BY <2>4, <2>7 DEF SelectedAt, ActiveAt, Selected
  <2>9. QED  BY <1>4, <2>5, <2>7, <2>8
<1>6. CASE Commit(r)
  <2>1. PICK h : h = req[r]  OBVIOUS
  <2>2. /\ h.pc = "commit"
        /\ made.plan = h.plan /\ made.chosen = h.chosen /\ made.since = h.since
        /\ h.ids \subseteq TestCases
        /\ \A c \in TestCases : runOf'[r].snap[c] # Null <=> c \in h.ids
    BY <1>1, <1>6, <2>1, NewRunCases
  <2>3. ids = h.ids  BY <1>2, <2>2 DEF SpawnedCases
  <2>4. made.plan # Null  BY <1>1
  <2>5. PICK i \in 1..Len(plan[h.plan]) : SelectedAt(h, h.ids, i)
    BY <2>1, <2>2, <2>4 DEF PlanRead, PlanReadBy
  <2>6. SelectedAt(made, ids, i)
    BY <2>2, <2>3, <2>5 DEF SelectedAt, ActiveAt, Selected
  <2>7. made.since.plan[made.plan] \in Nat
    BY <1>3, <2>1, <2>2 DEF Dated, SinceOK
  <2>8. QED  BY <1>4, <2>2, <2>5, <2>6, <2>7
<1>7. QED  BY <1>5, <1>6, RunMoves

-----------------------------------------------------------------------------
(* RunSpawn: the theorems *)

\* The inductive invariant holds at first.
LEMMA InitIInv == SpawnInit => IInv
<1> SUFFICES ASSUME SpawnInit PROVE IInv  OBVIOUS
<1>1. SpawnTypeOK  BY InitType
<1>2. Owned  BY DEF SpawnInit, Owned
<1>3. \A r \in Requests : runOf[r] = Null /\ req[r].pc = "idle"
  BY DEF SpawnInit
<1>4. Dated  BY <1>3 DEF Dated, Spawned
<1>5. CasesRead  BY <1>3 DEF CasesRead, CasesReadBy
<1>6. PlanRead  BY <1>3 DEF PlanRead, PlanReadBy
<1>7. LinksSound /\ NothingStale /\ PlanHonoured
  BY <1>3 DEF LinksSound, NothingStale, PlanHonoured, Spawned
<1>8. QED  BY <1>1, <1>2, <1>4, <1>5, <1>6, <1>7 DEF IInv

\* It is inductive.
LEMMA NextIInv == IInv /\ [SpawnNext]_spawnVars => IInv'
<1> SUFFICES ASSUME IInv, [SpawnNext]_spawnVars PROVE IInv'  OBVIOUS
<1>1. /\ SpawnTypeOK /\ Owned /\ Dated /\ CasesRead /\ PlanRead
      /\ LinksSound /\ NothingStale /\ PlanHonoured
  BY DEF IInv
<1>2. SpawnTypeOK'  BY <1>1, NextType
<1>3. Owned'  BY <1>1, <1>2, OwnedLasts
<1>4. Dated'  BY <1>1, <1>2, DatedLasts
<1>5. CasesRead'  BY <1>1, <1>2, CasesReadNext
<1>6. PlanRead'  BY <1>1, <1>2, PlanReadNext
<1>7. LinksSound'  BY <1>1, <1>2, LinksNext
<1>8. NothingStale'  BY <1>1, <1>2, StaleNext
<1>9. PlanHonoured'  BY <1>1, <1>2, PlanNext
<1>10. QED  BY <1>2, <1>3, <1>4, <1>5, <1>6, <1>7, <1>8, <1>9 DEF IInv

\* A link of a run's step always names a present step of the case it was
\* copied from, whatever lists of steps are saved (schema.ts
\* original_step_id, TestCaseService.updateCase).
THEOREM LinksAreSound == SpawnSpec => []LinksSound
<1>1. IInv => LinksSound  BY DEF IInv
<1>2. QED  BY InitIInv, NextIInv, <1>1, PTL DEF SpawnSpec

\* No run holds a case or a step older than the request for it, nor a case
\* archived all the while (TestRunService.createRun).
THEOREM NothingIsStale == SpawnSpec => []NothingStale
<1>1. IInv => NothingStale  BY DEF IInv
<1>2. QED  BY InitIInv, NextIInv, <1>1, PTL DEF SpawnSpec

\* A run of a plan holds what the plan had at a moment since the request,
\* and the plan was not archived all the while (TestRunService.createRun).
THEOREM PlansAreHonoured == SpawnSpec => []PlanHonoured
<1>1. IInv => PlanHonoured  BY DEF IInv
<1>2. QED  BY InitIInv, NextIInv, <1>1, PTL DEF SpawnSpec
=============================================================================
