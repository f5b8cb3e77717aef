SPECIFICATION FairSpec
CONSTANTS
  a = a
  b = b
  c = c
  core = core
  src = src
  hub = hub
  d1 = d1
  d2 = d2
  Ids <- MCIds
  Core = {core}
  Versions = {1, 2, 3}
  SafeVersion <- MCSafe
  Builds = {1, 2}
  Repos = {src, hub, d1, d2}
  Sources <- MCSources
  Defaults <- MCDefaults
  Worlds <- MCWorlds
  Requests <- MCRequests
  NoPin = none
  MaxRuns = 2
INVARIANTS Closed HashedIsRight
PROPERTY RunEnds
CHECK_DEADLOCK FALSE
