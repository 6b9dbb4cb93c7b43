CONSTANTS
  d1 = d1  d2 = d2  p1 = p1  r1 = r1  r2 = r2  o1 = o1  o2 = o2
  NoSession = NoSession
  Definitions = {d1}
  Packages = {p1}
  PackageOf <- OnePackage
  ModesOf <- SessionOrTimed
  RetentionOf <- Retention1
  Sessions = {s1}
  Requests = {r1}
  Operations = {}
  Derived = {}
  MaxNow = 2
  MaxPolicy = 1
  MaxText = 2
  MaxIdentity = 2
  MaxGeneration = 3
  MaxToken = 1
  Lifecycles = {"CONNECTION_BOUND", "RESUMABLE_CONVERSATION"}
  Lifetimes = {2}
  Lease = 1
  Grace = 1
  Waits = {1}
  Durations = {1}
  Contexts <- OnlyUnversioned
  RowSets <- SingleRows
  Instances = {}
  CallSessions = {s1}
  SessionCapacity = 2
  PendingCapacity = 2
  ArtifactCapacity = 3
SPECIFICATION Spec
INVARIANTS NothingOutlivesItsSession LiveGrantIsCurrent DeadlinesWithinReach
PROPERTIES CachedDecisionLossIsAnnounced
