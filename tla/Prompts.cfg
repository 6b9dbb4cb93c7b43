CONSTANTS
  d1 = d1  d2 = d2  p1 = p1  r1 = r1  r2 = r2  o1 = o1  o2 = o2
  NoSession = NoSession
  Definitions = {d1, d2}
  Packages = {p1}
  PackageOf <- OnePackage
  ModesOf <- TimedOnly
  RetentionOf <- NoRetention
  Sessions = {}
  Requests = {r1, r2}
  Operations = {}
  Derived = {}
  MaxNow = 1
  MaxPolicy = 1
  MaxText = 1
  MaxIdentity = 1
  MaxGeneration = 1
  MaxToken = 2
  Lifecycles = {}
  Lifetimes = {}
  Lease = 1
  Grace = 1
  Waits = {2}
  Durations = {}
  Contexts <- TimedAhead
  RowSets <- AllRows
  Instances = {}
  CallSessions = {NoSession}
  SessionCapacity = 2
  PendingCapacity = 2
  ArtifactCapacity = 3
SPECIFICATION Spec
SYMMETRY NameSymmetry
PROPERTIES InformedConsent PreapprovalLastsAsAsked
