CONSTANTS
  b1 = b1
  b2 = b2
  c1 = c1
  c2 = c2
  Browsers <- MCBrowsers
  Callers <- MCCallers
  MaxTokens = 3
  MaxFaults = 1
SPECIFICATION Spec
SYMMETRY MCSymmetry
INVARIANTS
  TypeOK
  RevocationHasCause
  SessionSurvives
  LiveSessionsBounded
CHECK_DEADLOCK FALSE
