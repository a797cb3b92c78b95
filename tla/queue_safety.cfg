\* Two captures in one inbox: two live workers, two hook invocations, a daemon,
\* one failure, one crash and one change of the configuration.
CONSTANTS
  Capture = {c1, c2}
  Worker = {w1, w2}
  Hook = {h1, h2}
  None = None
  Daemon = {d1}
  MaxToggles = 1
  MaxFailures = 1
  MaxCrashes = 1
SPECIFICATION Spec
SYMMETRY Symmetry
INVARIANTS TypeOK CommittedOnce NoCaptureLost NoWorkAfterCommit
PROPERTY ImplementsDurableCapture
