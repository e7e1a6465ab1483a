SPECIFICATION Spec
CONSTANTS
  Arguments <- CommandLines
  Nothing = Nothing
INVARIANTS
  OptionsAreTheLast
  StatusTellsOutcome
