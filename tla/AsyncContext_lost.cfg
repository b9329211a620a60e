\* A notification between isFlagged() and unlock().
CONSTANTS
  c1 = c1
  c2 = c2
  k1 = k1
  k2 = k2
  Call = {c1, c2}
  Key = {k1, k2}
  Worker = {w1, w2}
  Handler = {h1}
  NoCall = NoCall
  NoKey = NoKey
  KeyOf <- OneToOne
  Smpp = {}
  Timed = {}
  TimeoutOk = {}
  MayFail = {}
  MaxPosts = 1
  MaxClears = 0
SPECIFICATION Spec
\* the calls are finite and the threads then wait for ever
CHECK_DEADLOCK FALSE
PROPERTY FlaggedIsNotReleased
