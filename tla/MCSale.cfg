\* An auction opened, paused, bid on, closed and settled by two of everybody.
SPECIFICATION CoreSpec
CONSTANTS
  w1 = w1  w2 = w2
  c1 = c1  c2 = c2
  o1 = o1  o2 = o2
  l1 = l1  l2 = l2
  ann = ann  bob = bob
  k1 = k1
  Null = Null
  Workers = {w1, w2}
  Closers = {c1, c2}
  Operators = {o1, o2}
  Sessions = {w1, w2, c1, c2, o1, o2}
  Lots = {l1, l2}
  Bidders = {ann, bob}
  Keys = {k1}
  IncrementTable <- SmallTable
  FinalIncrement = 2
  InitialLots <- SaleLots
  ReservePrice <- SaleReserve
  AntiSnipeWindow = 2
  AntiSnipeExtension = 1
  MaxTime = 0
  Requests <- SaleRequests
  Registration <- AllVerified
  RequireVerification = FALSE
  AllowProxyBids = TRUE
  MaxProxyIterations = 50
  MaxSubmissions = 2
  MaxFailures = 1
  BatchLimit = 20
  MaxCloserFailures = 1
  ScheduledEnd = 0
  MaxOrders = 2
SYMMETRY SessionSymmetry
INVARIANTS
  CoreTypeOK
  LocksProtectTheWork
  SettledByTheBook
  AnnouncementsStand
  ReserveMetMeansSold
  NoCircularWait
  WorkGoesOn
PROPERTIES
  KeepsTheLedger
  StatusFollowsTransitions
