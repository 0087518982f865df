SPECIFICATION FairAgentSpec
CONSTANTS
  t1 = t1  t2 = t2  r1 = r1  r2 = r2  r3 = r3  r4 = r4  n1 = n1  n2 = n2
  Threads = {t1, t2}
  NoThread = NoThread
  Names = {n1, n2}
  MaxId = 4
  InitialFiles <- MCInitialFiles
  Faults = {"write"}
  Requests = {r1, r2}
  NoRequest = NoRequest
  Commands <- AllCommands
  Outages = {}
PROPERTIES EveryRequestAnswered
CHECK_DEADLOCK FALSE
