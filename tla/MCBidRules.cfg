\* A proxy war near the deadline among every reason to refuse a bid, one failure.
SPECIFICATION FairBidSpec
CONSTANTS
  w1 = w1  w2 = w2
  l1 = l1  l2 = l2
  ann = ann  bob = bob  cat = cat  dan = dan  eve = eve
  k1 = k1  k2 = k2
  Null = Null
  Workers = {w1, w2}
  Sessions = {w1, w2}
  Lots = {l1}
  Bidders = {ann, bob, cat, dan, eve}
  Keys = {k1, k2}
  IncrementTable <- SmallTable
  FinalIncrement = 2
  InitialLots <- RulesLots
  ReservePrice <- RulesReserve
  AntiSnipeWindow = 3
  AntiSnipeExtension = 1
  MaxTime = 0
  Requests <- RulesRequests
  Registration <- RulesRegistration
  RequireVerification = FALSE
  AllowProxyBids = TRUE
  MaxProxyIterations = 3
  MaxSubmissions = 3
  MaxFailures = 1
INVARIANTS
  OneBidPerKey
  NoRivalProxyLeft
  AuditTrailComplete
  FeedTellsOfCommittedBids
  CeilingsAreKept
PROPERTIES
  KeepsTheLedger
  RequestsAreAnswered
