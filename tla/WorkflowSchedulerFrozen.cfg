SPECIFICATION Spec
CHECK_DEADLOCK TRUE
CONSTANTS
  a = a
  b = b
  c = c
  u1 = u1
  b1 = b1
  ka = ka
  kb = kb
  kc = kc
  shared = shared
  Workflows <- OneWorkflow
  Users = {u1}
  Batches = {b1}
  NoBatch = NoBatch
  GitKeys <- TheKeys
  OwnerOf <- TheOwner
  BatchOf <- TheBatch
  KeysOf <- TheKeysOf
  Rank <- TheRank
  Cap = 2
  UserCap = 1
  Moves = {"pause", "resume", "done"}
INVARIANT FrozenAgentsCanResume
