CONSTANTS
  Machine = {m1, m2}
  Capture = {c1, c2}
  Bad = Bad
  NoRef = NoRef
  Founder = m1
  StopPoints <- AtValidation
  MaxFailures = 1
SPECIFICATION Spec
INVARIANT NeverStranded
