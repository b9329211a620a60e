\* Two parallel requests, late and repeated notifications, the cleaner.
CONSTANTS
  r1 = r1
  r2 = r2
  k1 = k1
  k2 = k2
  n1 = n1
  n2 = n2
  Reg = {r1, r2}
  Key = {k1, k2}
  Name = {n1, n2}
  Request = {q1, q2}
  NoReg = NoReg
  NoKey = NoKey
  KeyOf <- OneToOne
  NameOf <- TwoNames
  Count <- TwoAndOne
  NoExpiry = {r2}
  PathKey = {k1}
  MaxNotify <- ThreeAndOne
SPECIFICATION FairSpec
\* the registrations and the notifications are finite
CHECK_DEADLOCK FALSE
INVARIANTS
  TypeOK
  RemovalIsAccounted
  CompleteMessage
  OneMessage
PROPERTIES
  ExpiredLeaves
  LastNotificationArrives
