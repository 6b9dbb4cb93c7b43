CONSTANTS
  a = a  b = b  helloA = helloA  helloB = helloB  ask1 = ask1  ask2 = ask2  change = change
  Clients = {a}
  Ops = {helloA, ask1, ask2}
  Owner <- Owned
  Method <- Methods
  Asynchronous = {ask1}
  SocketRoom = 1
  MaxConnections = 1  MaxJobs = 1  MaxInflight = 1  MaxOutput = 1  MaxSources = 2
  MaxRevision = 1  MaxEpoch = 1  MaxTroubles = 1  MaxTimeouts = 3
  MaxPending = 1  MaxFrames = 1  MaxStarted = 3
SPECIFICATION FairSpec
CHECK_DEADLOCK FALSE
INVARIANT DefiniteFailureMeansNotRun
PROPERTIES OperationsEnd ShutdownEnds
