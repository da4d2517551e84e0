SPECIFICATION FairSpec
CHECK_DEADLOCK TRUE
CONSTANTS
  a = a
  b = b
  c = c
  u1 = u1
  b1 = b1
  ka = ka
  kb = kb
  kc = kc
  shared = shared
  Workflows <- TheWorkflows
  Users = {u1}
  Batches = {b1}
  NoBatch = NoBatch
  GitKeys <- TheKeys
  OwnerOf <- TheOwner
  BatchOf <- TheBatch
  KeysOf <- TheKeysOf
  Rank <- TheRank
  Cap = 1
  UserCap = 1
  Moves = {}
PROPERTY EveryoneGetsATurn
