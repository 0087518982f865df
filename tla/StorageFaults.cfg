SPECIFICATION Spec
CONSTANTS
  t1 = t1  t2 = t2  n1 = n1  n2 = n2
  Threads = {t1, t2}
  NoThread = NoThread
  Names = {n1, n2}
  MaxId = 2
  InitialFiles <- MCInitialFiles
  Faults = {"kill", "tear", "write", "load"}
SYMMETRY MCSymmetry
INVARIANTS TypeOK IdsSound
