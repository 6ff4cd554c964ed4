\* A proxy bid placed over another one.
SPECIFICATION BidSpec
CONSTANTS
  w1 = w1  w2 = w2
  l1 = l1  l2 = l2
  ann = ann  bob = bob  cat = cat  dan = dan  eve = eve
  k1 = k1  k2 = k2
  Null = Null
  Workers = {w1, w2}
  Sessions = {w1, w2}
  Lots = {l1}
  Bidders = {ann, bob, cat, dan, eve}
  Keys = {k1, k2}
  IncrementTable <- SmallTable
  FinalIncrement = 2
  InitialLots <- RulesLots
  ReservePrice <- RulesReserve
  AntiSnipeWindow = 2
  AntiSnipeExtension = 1
  MaxTime = 0
  Requests <- WarRequests
  Registration <- RulesRegistration
  RequireVerification = FALSE
  AllowProxyBids = TRUE
  MaxProxyIterations = 50
  MaxSubmissions = 2
  MaxFailures = 0
INVARIANT
  EveryBidIsCountered
