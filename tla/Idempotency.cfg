SPECIFICATION FairSpec
CONSTANTS
  k1 = k1
  k2 = k2
  k3 = k3
  Keys = {k1, k2, k3}
  KindOf <- MCKindOf
  Clients = {c1, c2}
  Hashes = {h1, h2}
  Ids = {i1, i2, i3}
  NoKey = NoKey
  NoId = NoId
  NoTx = NoTx
  NoHash = NoHash
  MaxCrashes = 2
INVARIANTS TypeOK AnswersAreDurable
PROPERTIES ActsOnce Answered
CHECK_DEADLOCK FALSE
