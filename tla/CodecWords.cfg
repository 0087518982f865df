SPECIFICATION Spec
CONSTANTS
  Texts <- MCTexts  None = None
INVARIANTS ShownIsMeant ErrorsArrive
PROPERTIES RestartKeepsRule
CHECK_DEADLOCK FALSE
