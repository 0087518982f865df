SPECIFICATION Spec
CONSTANTS
  m1 = m1  p1 = p1  p2 = p2
  Tasks = {m1}
  Paths = {p1, p2}
  NoPath = NoPath
  Garbage = Garbage
  MaxFd = 5
  MaxInterrupts = 2
  MaxReloads = 2
  MaxStarts = 2
INVARIANTS TypeOK PathWasOffered BusOutlivesTasks Detached OnlyStreams LostOnlyOverlapped
PROPERTIES TwoInterruptsEnd
CHECK_DEADLOCK FALSE
