\* One capture, two daemons that both lease it, one failure and one crash.
CONSTANTS
  Capture = {c1}
  Worker = {w1, w2}
  Hook = {h1}
  None = None
  Daemon = {d1, d2}
  MaxToggles = 0
  MaxFailures = 1
  MaxCrashes = 1
SPECIFICATION FairSpec
PROPERTY EventuallySettled
