\* All the races: timeouts, failures, duplicated notifications, a cleared queue.
CONSTANTS
  c1 = c1
  c2 = c2
  k1 = k1
  k2 = k2
  Call = {c1, c2}
  Key = {k1, k2}
  Worker = {w1, w2}
  Handler = {h1, h2}
  NoCall = NoCall
  NoKey = NoKey
  KeyOf <- OneToOne
  Smpp = {}
  Timed = {c1, c2}
  TimeoutOk = {c2}
  MayFail = {c1}
  MaxPosts = 2
  MaxClears = 1
SPECIFICATION Spec
\* the calls are finite and the threads then wait for ever
CHECK_DEADLOCK FALSE
SYMMETRY ThreadSymmetry
INVARIANTS
  TypeOK
  ExclusiveContext
  CallInv
PROPERTY LedgerSpec
