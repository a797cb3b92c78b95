\* Stops before the manifest is linked: nothing is forgotten, all is committed.
CONSTANTS
  c1 = c1
  c2 = c2
  c3 = c3
  f1 = f1
  f2 = f2
  f3 = f3
  None = None
  Capture = {c1, c2, c3}
  Fact = {f1, f2, f3}
  FactsOf <- MCFactsOf
  StopPoints <- BeforeManifest
  MaxStops = 2
SPECIFICATION FairSpec
INVARIANT LinearParents
PROPERTIES ImplementsKnowledgeLog EventuallyCommitted
