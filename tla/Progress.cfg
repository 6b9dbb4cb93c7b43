CONSTANTS
  d1 = d1  d2 = d2  p1 = p1  r1 = r1  r2 = r2  o1 = o1  o2 = o2
  NoSession = NoSession
  Definitions = {d1}
  Packages = {p1}
  PackageOf <- OnePackage
  ModesOf <- PersistentOnly
  RetentionOf <- Retention1
  Sessions = {s1}
  Requests = {r1}
  Operations = {o1}
  Derived = {}
  MaxNow = 1
  MaxPolicy = 1
  MaxText = 1
  MaxIdentity = 1
  MaxGeneration = 2
  MaxToken = 1
  Lifecycles = {"RESUMABLE_CONVERSATION"}
  Lifetimes = {1}
  Lease = 1
  Grace = 1
  Waits = {1}
  Durations = {}
  Contexts <- OnlyUnversioned
  RowSets <- SingleRows
  Instances = {1}
  CallSessions = {s1, NoSession}
  SessionCapacity = 2
  PendingCapacity = 2
  ArtifactCapacity = 3
SPECIFICATION FairSpec
PROPERTIES PendingEnds SessionEnds
