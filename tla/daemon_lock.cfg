\* Two hooks start a daemon; readings and writings of the file do not overlap.
CONSTANTS
  Hook = {h1, h2}
  Process = {p1, p2}
  Root = Root
  None = None
  Overlap = FALSE
SPECIFICATION Spec
INVARIANT AtMostOneDaemon
CHECK_DEADLOCK FALSE
