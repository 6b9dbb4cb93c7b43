CONSTANTS
  d1 = d1
  register1 = register1  unregister1 = unregister1
  seed1 = seed1  seed2 = seed2
  Definitions = {d1}
  Operations = {register1, unregister1, seed1, seed2}
  Payload <- Payloads
  Commits = {c1}
  Inodes = {1, 2}
  MaxIncarnation = 3
  MaxGeneration = 2
  MaxTroubles = 2
SPECIFICATION Spec
CHECK_DEADLOCK FALSE
INVARIANTS DecidesFromDurableState LossIsFlagged RuntimeEndsWithProcess
PROPERTIES DurableRegistry SeedsRespectHistory
