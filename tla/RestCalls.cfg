SPECIFICATION RestSpec
CONSTANTS
  t1 = t1  t2 = t2  h1 = h1  h2 = h2  h3 = h3  n1 = n1  n2 = n2
  r1 = r1  r2 = r2  r3 = r3  r4 = r4  r5 = r5  r6 = r6
  Threads = {t1, t2}
  NoThread = NoThread
  Names = {n1, n2}
  MaxId = 4
  InitialFiles <- MCInitialFiles
  Faults = {"kill"}
  Requests = {r1, r2, r3, r4, r5, r6}
  NoRequest = NoRequest
  Commands <- MCCommands
  Outages = {"reply"}
  Handlers = {h1, h2}
  Calls <- Everything
  ReadLimit = 3
  NetFaults = {"init", "misroute"}
SYMMETRY SafetySymmetry
INVARIANTS AnswersTheCall RestListHonest ReadsStored SavesStored
PROPERTIES ImplementsRemote
CHECK_DEADLOCK FALSE
