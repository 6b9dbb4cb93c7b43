CONSTANTS
  u1 = u1  u2 = u2  NoUser = NoUser
  Users = {u1, u2}
  FirstUsers = {u1}
  MaxSwitches = 2  MaxRemovals = 1  MaxTroubles = 1  MaxRequests = 1
SPECIFICATION FairSpec
CHECK_DEADLOCK FALSE
INVARIANTS ReadyFollowsManager RacedGrantsAreRetired ApprovalsEndWithTheirUser
PROPERTIES SentForActiveProfile Resynchronizes
