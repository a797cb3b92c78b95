SPECIFICATION ComponentsSpec
CONSTANTS
  NoGuide = NoGuide  Nobody = Nobody
  Actor = {a1, a2}  Subject = {A, B}  Nil = Nil
  Dirs = 3  MaxOps = 3  MaxKilled = 1
  Doc = {"d"}  Guide = {"g"}  Capture = {"c"}
  MaxChanges = 2  MaxFailures = 1
  Hook = {h1, h2}  Session = {s1, s2}  None = None
  Line = {"l1", "l2"}  Fact = {"f"}  FactOf <- OneFact
  Scribe = {"w1", "w2"}  Claim = {"c1", "c2", "c3"}  Point <- ClaimPoints
  Near = 2  Budget = 2  MaxTaps = 3  MaxKills = 1
  Retention = 1  MaxPrompts = 3  MaxTears = 1  MaxDeaths = 1
  Server = {sv1, sv2}  Client = {k1, k2}  NoServer = NoServer
  Slug = {"a", "b"}  WikiClaim = {"c"}  Old = {"o1", "o2", "o3"}
  GuideHeading = {"H", "K", "See also", "Retired"}  LevelOf <- WikiLevels
  SeeAlso = "See also"  Retired = "Retired"  CaptureJob = "capture"  Pass = {"pass"}
  NoFile = NoFile  FirstGuides <- FirstWikis
  MaxAttempts = 2  MaxPasses = 1  MaxFaults = 1
  CardSession = {1}  Date = {1}  Arc = {1}  Answers <- CardAnswers  Akin <- Related
  MaxStages = 2  MaxHalts = 1
  Logger = {"w1", "w2"}  Limit = 2  LogRetention = 1  Room = 1  MaxEvents = 3
  PoolSize = 2  Retries = 3  MaxCalls = 2  MaxRefills = 1  MaxCrashes = 1
INVARIANTS
  ComponentsTypeOK PoolSafe BindingSafe  LedgerSafe WikiSafe
  CardsSafe LogSafe  RealnessSafe IndexSafe
   RecallSafe TranscriptSafe
 
CHECK_DEADLOCK FALSE
