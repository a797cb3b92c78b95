CONSTANTS
  Machine = {m1, m2}
  Capture = {c1, c2}
  Bad = Bad
  NoRef = NoRef
  Founder = m1
  StopPoints <- BeforeMerge
  MaxFailures = 1
SPECIFICATION FairSpec
INVARIANTS TypeOK OwnCapturesKept ReportedIsShared NeverStranded
PROPERTIES RemoteGrows EventuallyExchanged
