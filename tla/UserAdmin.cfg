SPECIFICATION AdminSpec
CONSTANTS
  Emails = {u1, u2}
  Handlers = {r1, r2, r3}
  Patches <- PatchesAll
  NoRow = NoRow
  Absent = Absent
SYMMETRY Symmetry
INVARIANTS AdminTypeOK GrantsTraceToAdmins
PROPERTIES AdminsLostOnlyByRace
CHECK_DEADLOCK FALSE
