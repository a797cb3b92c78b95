\* A stop between git add and git commit.
CONSTANTS
  c1 = c1
  c2 = c2
  c3 = c3
  f1 = f1
  f2 = f2
  f3 = f3
  None = None
  Capture = {c1, c2, c3}
  Fact = {f1, f2, f3}
  FactsOf <- MCFactsOf
  StopPoints <- AtCommit
  MaxStops = 1
SPECIFICATION FairSpec
PROPERTY ResumedTransactionCompletes
CHECK_DEADLOCK FALSE
