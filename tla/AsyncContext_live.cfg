\* Progress: a timed call and one that may fail, the queue is never cleared.
CONSTANTS
  c1 = c1
  c2 = c2
  k1 = k1
  k2 = k2
  Call = {c1, c2}
  Key = {k1, k2}
  Worker = {w1, w2}
  Handler = {h1}
  NoCall = NoCall
  NoKey = NoKey
  KeyOf <- OneToOne
  Smpp = {}
  Timed = {c1}
  TimeoutOk = {c1}
  MayFail = {c2}
  MaxPosts = 2
  MaxClears = 0
SPECIFICATION FairSpec
\* the calls are finite and the threads then wait for ever
CHECK_DEADLOCK FALSE
PROPERTIES
  TimedCallLeaves
  TokenIsServed
