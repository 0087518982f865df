SPECIFICATION AgentSpec
CONSTANTS
  t1 = t1  t2 = t2  r1 = r1  r2 = r2  r3 = r3  r4 = r4  n1 = n1  n2 = n2
  Threads = {t1, t2}
  NoThread = NoThread
  Names = {n1, n2}
  MaxId = 5
  InitialFiles <- MCInitialFiles
  Faults = {"kill"}
  Requests = {r1, r2, r3, r4}
  NoRequest = NoRequest
  Commands <- Changes
  Outages = {}
SYMMETRY MCSymmetry
INVARIANTS GoneForever ConfirmedSurvives FreshIds DurableWhenIdle
PROPERTIES ImplementsCatalog
