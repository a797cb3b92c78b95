\* A stop between the manifest and git add.
CONSTANTS
  c1 = c1
  c2 = c2
  c3 = c3
  f1 = f1
  f2 = f2
  f3 = f3
  None = None
  Capture = {c1, c2, c3}
  Fact = {f1, f2, f3}
  FactsOf <- MCFactsOf
  StopPoints <- AtAdd
  MaxStops = 1
SPECIFICATION Spec
INVARIANT NothingForgotten
