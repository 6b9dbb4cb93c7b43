CONSTANTS
  a = a  b = b  helloA = helloA  helloB = helloB  ask1 = ask1  ask2 = ask2  change = change
  Clients = {a, b}
  Ops = {helloA, helloB, ask1, change}
  Owner <- Owned
  Method <- Methods
  Asynchronous = {}
  SocketRoom = 1
  MaxConnections = 2  MaxJobs = 2  MaxInflight = 1  MaxOutput = 1  MaxSources = 3
  MaxRevision = 2  MaxEpoch = 2  MaxTroubles = 1  MaxTimeouts = 0
  MaxPending = 1  MaxFrames = 1  MaxStarted = 4
SPECIFICATION Spec
CHECK_DEADLOCK FALSE
INVARIANTS EventPrecedesReply CacheLagsOnlyBehindNews CountersAreExact
