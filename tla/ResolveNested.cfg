SPECIFICATION Spec
CONSTANTS
  Elements = {1, 2, 3, 4}
  Values <- MCValues
  Within <- MCWithin
  Begins <- MCBegins
  InitialInventories <- MCInventories
  RuleSets <- NestedRuleSets
  MaxChanges = 0
  ExtOf <- MCExtOf
  TextsOf <- MCTextsOf
  DbFails = FALSE
INVARIANT NestedResolves
CHECK_DEADLOCK FALSE
