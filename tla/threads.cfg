SPECIFICATION Spec
CONSTANTS
  CondUsers = {c1, c2, c3}
  MaxItems = 2
  MaxConds = 2
  NoUser = nobody
  OnceCallers = {o1, o2, o3}
  SemUsers = {s1, s2}
  MaxCount = 2
  MaxClock = 3
  TickModulus = 5
  Swappers = {w1, w2, w3}
  MaxAttrs = 3
  ErrnoThreads = {e1, e2}
  errno_translation <- MCTable
  UnknownErrnos = {EFTYPE}
  StoredCodes = {0}
  LogThreads = {main, l1}
  Main = main
INVARIANTS
  OnceHolds
  TokensAreExchanged
  ObjectsAreReal
  LinesAndErrorsAreOwn
PROPERTY WaitersAreServed
CHECK_DEADLOCK FALSE
