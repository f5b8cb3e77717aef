SPECIFICATION FairSpec
CONSTANTS
  Callers = {c1, c2}
  UDIDs = {u1}
  Procs = {p1}
  Budget = 1
  NoProc = NoProc
  NoUDID = NoUDID
  Nobody = Nobody
CHECK_DEADLOCK FALSE
PROPERTIES CloseEndsWrappers ImplementsService
