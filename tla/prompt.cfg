CONSTANTS
  h1 = h1  h2 = h2  s1 = s1
  l1 = l1  l2 = l2  l3 = l3  l4 = l4  f1 = f1  f2 = f2  f3 = f3  f4 = f4  g1 = g1  g2 = g2  d1 = d1
  None = None
  Hook = {h1, h2}
  Session = {s1}
  Line = {l1, l2, l3, l4}
  Fact = {f1, f2, f3, f4}
  FactOf <- MCFactOf
  Key <- MCKey
  Source = {g1, g2, d1}
  SourceOf <- MCSourceOf
  KindOf <- MCKindOf
  TierOf <- MCTierOf
  Catalog <- MCCatalog
  MaxTier = 3
  FoundIn <- MCFoundIn
  MaxGuides = 2
  Retention = 1
  MaxPrompts = 2
  MaxTears = 0
  MaxDeaths = 0
SPECIFICATION PromptSpec
CHECK_DEADLOCK FALSE
INVARIANTS PromptTypeOK BestAreRead WarnedOnce
PROPERTIES PrintedIsSupported CommitsThroughLedger HookEnds
