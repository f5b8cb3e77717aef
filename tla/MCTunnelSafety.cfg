SPECIFICATION Spec
CONSTANTS
  Callers = {c1, c2}
  UDIDs = {u1}
  Procs = {p1, p2}
  Budget = 1
  NoProc = NoProc
  NoUDID = NoUDID
  Nobody = Nobody
SYMMETRY Symmetry
INVARIANTS RegistryHonest WaitsOnRegistered Tracked
CHECK_DEADLOCK FALSE
