SPECIFICATION AgentSpec
CONSTANTS
  t1 = t1  t2 = t2  r1 = r1  r2 = r2  r3 = r3  r4 = r4  n1 = n1  n2 = n2
  Threads = {t1, t2}
  NoThread = NoThread
  Names = {n1, n2}
  MaxId = 5
  InitialFiles <- MCInitialFiles
  Faults = {}
  Requests = {r1, r2, r3, r4}
  NoRequest = NoRequest
  Commands <- Lists
  Outages = {}
SYMMETRY MCSymmetry
INVARIANTS AnnouncedFirst EventsAgreeWhenQuiet ListHonest
CHECK_DEADLOCK FALSE
