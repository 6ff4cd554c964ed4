\* A repeated request while the first one is in flight.
SPECIFICATION FairBidSpec
CONSTANTS
  w1 = w1  w2 = w2
  l1 = l1  l2 = l2
  ann = ann  bob = bob  cat = cat  dan = dan  eve = eve
  k1 = k1  k2 = k2
  Null = Null
  Workers = {w1, w2}
  Sessions = {w1, w2}
  Lots = {l1, l2}
  Bidders = {ann, bob}
  Keys = {k1}
  IncrementTable <- SmallTable
  FinalIncrement = 2
  InitialLots <- RaceLots
  ReservePrice <- RaceReserve
  AntiSnipeWindow = 2
  AntiSnipeExtension = 1
  MaxTime = 0
  Requests <- RaceRequests
  Registration <- RaceRegistration
  RequireVerification = FALSE
  AllowProxyBids = TRUE
  MaxProxyIterations = 50
  MaxSubmissions = 2
  MaxFailures = 0
PROPERTY
  DuplicateIsRefused
