\* Two captures of one session, or two attempts at one; nothing fails or is killed.
CONSTANTS
  Noun = {"n", "m"}
  Session = {"s"}
  Talk <- MCTalk
  MaxRefs = 3
  Chunk = 2
  Windows <- MCWindows
  MaxAttempts = 2
  MaxKills = 0
SPECIFICATION RealSpec
INVARIANT CountedOnce
CHECK_DEADLOCK FALSE
