CONSTANTS
  d1 = d1  d2 = d2  p1 = p1  r1 = r1  r2 = r2  o1 = o1  o2 = o2
  NoSession = NoSession
  Definitions = {d1, d2}
  Packages = {p1}
  PackageOf <- OnePackage
  ModesOf <- OnceOrPersistent
  RetentionOf <- ShortAndLong
  Sessions = {s1}
  Requests = {r1}
  Operations = {o1, o2}
  Derived = {x1}
  MaxNow = 0
  MaxPolicy = 1
  MaxText = 1
  MaxIdentity = 1
  MaxGeneration = 1
  MaxToken = 1
  Lifecycles = {"CONNECTION_BOUND"}
  Lifetimes = {1}
  Lease = 1
  Grace = 1
  Waits = {1}
  Durations = {}
  Contexts <- ChosenOnce
  RowSets <- ShortOrBoth
  Instances = {1}
  CallSessions = {s1}
  SessionCapacity = 2
  PendingCapacity = 2
  ArtifactCapacity = 3
SPECIFICATION Spec
SYMMETRY OperationSymmetry
INVARIANTS OnceSpentOnce ReceiptCoversRows ActiveDataIsCovered ClosedIsClean NoDanglingSource DerivedWithinParents
PROPERTIES FinishedRequestsStay NothingComesBack
