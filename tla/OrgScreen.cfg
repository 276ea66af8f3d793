SPECIFICATION Spec
CONSTANTS
  u1 = u1  u2 = u2  r1 = r1  r2 = r2  k1 = k1  f1 = f1  f2 = f2
  d0 = d0  d1 = d1  d2 = d2  b1 = b1  s1 = s1
  None = None
  SeedUsers <- UsersThere
  SeedRoles <- RolesThere
  SeedKeys <- KeysThere
  Session = u1
  MadeUsers <- UsersMade
  MadeRoles <- RolesMade
  MadeKeys <- KeysMade
  Demo = d0
  Calls = {f1, f2}
  People = {"Demo", "Shaun", "Elena", "Priya", "Tom"}
  Typed <- TypedUsers
  TypedNames = {"Owner", "Tester"}
  RoleNames = {"Owner", "Auditor", "Tester"}
INVARIANTS TypeOK ScreenAgrees
PROPERTIES ActorStays
CHECK_DEADLOCK FALSE
