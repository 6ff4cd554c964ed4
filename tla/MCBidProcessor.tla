--------------------------- MODULE MCBidProcessor ---------------------------
(***************************************************************************)
(* TLC instances of BidProcessor: small lots tables, increment table and   *)
(* sets of submissions.  The prices are a few units and the increment      *)
(* grows once, so that both branches of the table are met.                 *)
(***************************************************************************)
EXTENDS BidProcessor, TLC

CONSTANTS w1, w2, l1, l2, ann, bob, cat, dan, eve, k1, k2

SmallTable == <<[threshold |-> 6, increment |-> 1]>>

Row(status, opening, closing) ==
  [status |-> status, currentBid |-> opening, winner |-> Null, bidCount |-> 0,
   closingAt |-> closing, soldPrice |-> Null]

Bid(key, bidder, l, amount) ==
  [key |-> key, bidder |-> bidder, lot |-> l, type |-> "live",
   amount |-> amount, max |-> Null]

ProxyBid(key, bidder, l, amount, max) ==
  [Bid(key, bidder, l, amount) EXCEPT !.type = "proxy", !.max = max]

(* Two bidders race for l1, one of them also uses the same key on l2, and  *)
(* every submission may be repeated, at once or later.                     *)
RaceLots ==
  {(l1 :> Row("open", 1, 1) @@ l2 :> Row(status, 1, 2)) : status \in {"open", "sold"}}
RaceRequests ==
  {Bid(k1, ann, l1, 2), Bid(k1, ann, l2, 3), Bid(k1, bob, l1, 3)}
RaceRegistration == [b \in Bidders |-> "verified"]
RaceReserve == (l1 :> 3 @@ l2 :> Null)

(* A lot that takes bids, before and after its deadline, and lots that     *)
(* take none.                                                              *)
RulesLots ==
  {(l1 :> Row("closing", 1, closing)) : closing \in {0, 1}}
    \cup {(l1 :> Row(status, 1, Null)) : status \in {"pending", "sold", "withdrawn"}}

(* Two proxy bids and a live one fight over l1, from 4 for more rounds     *)
(* than the loop has, from 6 for fewer; ann also bids live against her own *)
(* proxy bid.                                                              *)
WarRequests ==
  {ProxyBid(k1, ann, l1, 2, 11), ProxyBid(k1, bob, l1, 3, 11),
   Bid(k1, cat, l1, 4), Bid(k2, cat, l1, 6), Bid(k2, ann, l1, 3)}

(* Requests that are refused whatever the state of l1.                     *)
DeskRequests ==
  {Bid(k1, ann, l2, 2), ProxyBid(k2, bob, l1, 3, 2),
   [ProxyBid(k2, bob, l1, 3, 2) EXCEPT !.max = Null],
   Bid(k1, dan, l1, 2), Bid(k1, eve, l1, 2)}
RulesRequests == WarRequests \cup DeskRequests
RulesRegistration ==
  (ann :> "verified" @@ bob :> "basic" @@ cat :> "verified"
     @@ dan :> "unregistered" @@ eve :> "ineligible")
RulesReserve == (l1 :> 5)

WorkerSymmetry == Permutations(Workers)
=============================================================================
