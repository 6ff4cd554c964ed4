\* One bid, Redis down.
SPECIFICATION ApiSpec
CONSTANTS
  b1 = b1  b2 = b2  b3 = b3  b4 = b4
  s1 = s1  s2 = s2  s3 = s3
  f1 = f1  f2 = f2  f3 = f3
  l1 = l1  l2 = l2  l3 = l3
  ann = ann
  r1 = r1  r2 = r2
  a1 = a1  a2 = a2
  Null = Null
  Bids = {b1, b2, b3, b4}
  BidderOf <- BidBidder
  LotOf <- BidLot
  Window = 3
  GlobalMax = 2
  LotMax = 1
  MaxDelay = 1
  MaxClock = 3
  MaxOutages = 1
  Sockets = {s1, s2, s3}
  RoomOf <- SocketRoom
  Applications = {f1, f2, f3}
  ApplicantOf <- FormBidder
  SaleOf <- FormSale
  Tiers = {"basic", "verified"}
  NewTier = "basic"
  Scenarios <- OutageScenarios
INVARIANT
  BidsProcessWithoutRedis
