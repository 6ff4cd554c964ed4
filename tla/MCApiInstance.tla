---------------------------- MODULE MCApiInstance ----------------------------
(***************************************************************************)
(* TLC instances of ApiInstance.  Each scenario looks at what some of the  *)
(* visitors do to one another, so that the cases add up instead of         *)
(* multiplying.                                                            *)
(***************************************************************************)
EXTENDS ApiInstance, TLC

CONSTANTS b1, b2, b3, b4, s1, s2, s3, f1, f2, f3, l1, l2, l3, ann, r1, r2, a1, a2

(* One bidder: two bids on one lot, and one on each of two others.         *)
BidBidder == [r \in Bids |-> ann]
BidLot == (b1 :> l1 @@ b2 :> l1 @@ b3 :> l2 @@ b4 :> l3)

(* One bidder registers for two auctions, and for one of them again.       *)
FormBidder == [f \in Applications |-> ann]
FormSale == (f1 :> a1 @@ f2 :> a2 @@ f3 :> a1)

(* Two sockets follow one auction, a third another.                        *)
SocketRoom == (s1 :> r1 @@ s2 :> r1 @@ s3 :> r2)

AllScenarios ==
  {{b1, b2, b3}, {b1, b3, b4}, {s1, s2}, {s2, s3}, {f1, f2}, {f1, f3},
   {b1, "SIGTERM"}, {f1, "SIGTERM"}, {s1, "SIGTERM", "SIGINT"}}
OutageScenarios == {{b1}}
=============================================================================
