SPECIFICATION Spec
CONSTANTS
  Elements = {1, 2, 3, 4}
  Values <- MCValues
  Within <- MCWithin
  Begins <- MCBegins
  InitialInventories <- MCInventories
  RuleSets <- MCRuleSets
  MaxChanges = 2
  ExtOf <- MovingExtOf
  TextsOf <- MovingTextsOf
  DbFails = TRUE
INVARIANTS TypeOK UntouchedExact NeverInvented
CHECK_DEADLOCK FALSE
