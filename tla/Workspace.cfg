SPECIFICATION Spec
CONSTANTS
  dp = dp  e1 = e1  r1 = r1  c1 = c1  c2 = c2  w1 = w1  w2 = w2
  Org = Org
  Demo = dp
  Blank = {e1}
  Resets = {r1}
  Clones = {c1}
  Others = {w1}
  Sources = {dp}
  NewSlugs <- TypedSlugs
INVARIANTS TypeOK ProjectsApart
PROPERTIES AloneCopiesAll AloneRestores
CHECK_DEADLOCK FALSE
