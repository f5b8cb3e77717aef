SPECIFICATION CommandSpec
CONSTANTS
  present = present
  absent = absent
  old = old
  new = new
  Unset = Unset
  Files <- MCFiles
  Absent <- MCAbsent
  Size <- MCSize
  Chunk = 2
  MaxAsks = 2
  Devices <- MCDevices
  ProductVersion <- MCProduct
  Versions <- MCVersions
  Invocations <- MCInvocations
INVARIANTS DeviceSatisfied RestoresWhatWasJudged
PROPERTIES DeviceIsAnswered
CHECK_DEADLOCK FALSE
