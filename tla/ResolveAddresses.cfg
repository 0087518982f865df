SPECIFICATION Spec
CONSTANTS
  Elements = {1, 2, 3, 4}
  Values <- MCValues
  Within <- MCWithin
  Begins <- MCBegins
  InitialInventories <- TwoAddressesInventories
  RuleSets <- AlternativesRuleSets
  MaxChanges = 0
  ExtOf <- TwoAddressesExtOf
  TextsOf <- MCTextsOf
  DbFails = FALSE
INVARIANT AddressAlternatives
CHECK_DEADLOCK FALSE
