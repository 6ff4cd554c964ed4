\* Two connections, four submissions of three requests, one failure.
SPECIFICATION BidSpec
CONSTANTS
  w1 = w1  w2 = w2
  l1 = l1  l2 = l2
  ann = ann  bob = bob  cat = cat  dan = dan  eve = eve
  k1 = k1  k2 = k2
  Null = Null
  Workers = {w1, w2}
  Sessions = {w1, w2}
  Lots = {l1, l2}
  Bidders = {ann, bob}
  Keys = {k1}
  IncrementTable <- SmallTable
  FinalIncrement = 2
  InitialLots <- RaceLots
  ReservePrice <- RaceReserve
  AntiSnipeWindow = 2
  AntiSnipeExtension = 1
  MaxTime = 1
  Requests <- RaceRequests
  Registration <- RaceRegistration
  RequireVerification = FALSE
  AllowProxyBids = TRUE
  MaxProxyIterations = 50
  MaxSubmissions = 4
  MaxFailures = 1
SYMMETRY WorkerSymmetry
INVARIANTS
  BidTypeOK
  LocksProtectTheWork
  LotAgreesWithBids
  OneBidPerKey
  AnswersAreDurable
