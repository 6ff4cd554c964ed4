--------------------------- MODULE MCAuctionCore ---------------------------
(***************************************************************************)
(* TLC instances of AuctionCore.                                           *)
(***************************************************************************)
EXTENDS AuctionCore, TLC

CONSTANTS w1, w2, c1, c2, o1, o2, l1, l2, ann, bob, k1

SmallTable == <<[threshold |-> 6, increment |-> 1]>>

Row(status, opening, closing) ==
  [status |-> status, currentBid |-> opening, winner |-> Null, bidCount |-> 0,
   closingAt |-> closing, soldPrice |-> Null]

Bid(key, bidder, l, amount) ==
  [key |-> key, bidder |-> bidder, lot |-> l, type |-> "live",
   amount |-> amount, max |-> Null]

AllVerified == [b \in Bidders |-> "verified"]

(* A live auction as the seed creates it: one lot is closing, its deadline *)
(* ahead, and the other is open until the operator closes the auction.     *)
LiveLots == {(l1 :> Row("open", 1, 2) @@ l2 :> Row("closing", 1, 1))}

(* One lot near its deadline and one past it, or a scheduled auction, which *)
(* an operator may open.                                                   *)
SaleLots ==
  {(l1 :> Row("open", 1, 1) @@ l2 :> Row("closing", 1, 0)),
   (l1 :> Row("pending", 1, Null) @@ l2 :> Row("pending", 1, Null))}

(* The bids on l1 miss its reserve and meet it; bob uses his key on both   *)
(* lots.                                                                   *)
SaleRequests == {Bid(k1, ann, l1, 2), Bid(k1, bob, l1, 3), Bid(k1, bob, l2, 2)}
SaleReserve == (l1 :> 3 @@ l2 :> Null)

SessionSymmetry ==
  Permutations(Workers) \cup Permutations(Closers) \cup Permutations(Operators)
=============================================================================
