SPECIFICATION Spec
CONSTANTS
  Readers = {r1, r2}
  Modes = {"long-poll", "sse"}
  MeasureStart = 1
  Deadline = 2
  MaxLog = 2
  MaxTime = 3
  MaxFaults = 1
  Headerless = FALSE
  Now = Now
  None = None
INVARIANTS TypeOK CountedAtFirstSight NoSilentLoss
CHECK_DEADLOCK FALSE
