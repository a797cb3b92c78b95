\* What survives a stop at any place of the transaction, stores it wedges included.
CONSTANTS
  c1 = c1
  c2 = c2
  c3 = c3
  f1 = f1
  f2 = f2
  f3 = f3
  None = None
  Capture = {c1, c2, c3}
  Fact = {f1, f2, f3}
  FactsOf <- MCFactsOf
  StopPoints <- Anywhere
  MaxStops = 2
SPECIFICATION Spec
INVARIANTS TypeOK HistoryComplete OwnKnowledge
PROPERTY ManifestsImmutable
\* A store with staged additions stays as it is: see snapshot_wedge.
CHECK_DEADLOCK FALSE
