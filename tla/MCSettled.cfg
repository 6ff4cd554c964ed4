\* Lots are settled by the book, and every due lot is, under FairCoreSpec.
SPECIFICATION FairCoreSpec
CONSTANTS
  w1 = w1  w2 = w2
  c1 = c1  c2 = c2
  o1 = o1  o2 = o2
  l1 = l1  l2 = l2
  ann = ann  bob = bob
  k1 = k1
  Null = Null
  Workers = {w1}
  Closers = {c1, c2}
  Operators = {o1}
  Sessions = {w1, c1, c2, o1}
  Lots = {l1, l2}
  Bidders = {ann, bob}
  Keys = {k1}
  IncrementTable <- SmallTable
  FinalIncrement = 2
  InitialLots <- LiveLots
  ReservePrice <- SaleReserve
  AntiSnipeWindow = 2
  AntiSnipeExtension = 1
  MaxTime = 1
  Requests <- SaleRequests
  Registration <- AllVerified
  RequireVerification = FALSE
  AllowProxyBids = TRUE
  MaxProxyIterations = 50
  MaxSubmissions = 2
  MaxFailures = 0
  BatchLimit = 20
  MaxCloserFailures = 1
  ScheduledEnd = 2
  MaxOrders = 1
INVARIANTS
  SettledByTheBook
  AuditTrailOfSale
PROPERTY
  DueLotsAreSettled
