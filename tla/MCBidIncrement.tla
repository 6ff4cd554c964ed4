--------------------------- MODULE MCBidIncrement ---------------------------
(***************************************************************************)
(* TLC instance of BidIncrement with the table the program ships.  A lot   *)
(* climbs by minimum bids from a starting price, through all the tiers, up *)
(* to MaxPrice.  The starting prices are the ends of the tiers, in cents,  *)
(* and a few prices that no increment divides.                             *)
(***************************************************************************)
EXTENDS BidIncrement, Functions

CONSTANT MaxPrice   \* the climb stops at the first price above this bound

VARIABLE price

(* INCREMENT_TABLE of increment.ts: thresholds and increments in cents.    *)
ShippedTable == <<
  [threshold |->    10000, increment |->    500],
  [threshold |->    50000, increment |->   1000],
  [threshold |->   100000, increment |->   2500],
  [threshold |->   500000, increment |->   5000],
  [threshold |->  2000000, increment |->  25000],
  [threshold |-> 10000000, increment |-> 100000] >>

ShippedFinalIncrement == 500000

(* The increments rise with the tiers.                                     *)
ASSUME ShippedTableRises == RisingTable

StartingPrices ==
  {0, 1, 99, 1234} \cup
  UNION {{t.threshold - 1, t.threshold, t.threshold + 1} : t \in Range(ShippedTable)}

Init == price \in StartingPrices

(* The next bidder offers exactly the minimum the processor accepts.       *)
Climb == price <= MaxPrice /\ price' = GetMinimumNextBid(price)

(* The ladder has an end only because of the bound.                        *)
AtTop == price > MaxPrice /\ UNCHANGED price

Next == Climb \/ AtTop

Spec == Init /\ [][Next]_price

-----------------------------------------------------------------------------
(* Properties.                                                             *)

(* The bands of the table in increment.ts and README.md, in dollars; a     *)
(* price belongs to the band that its whole dollars fall in.               *)
Bands ==
  {[from |-> 0,     to |-> 99,    step |-> 5],
   [from |-> 100,   to |-> 499,   step |-> 10],
   [from |-> 500,   to |-> 999,   step |-> 25],
   [from |-> 1000,  to |-> 4999,  step |-> 50],
   [from |-> 5000,  to |-> 19999, step |-> 250],
   [from |-> 20000, to |-> 99999, step |-> 1000]}

(* The increment is the documented one for every price, at both ends of    *)
(* every band and with cents that do not make a whole dollar.              *)
DocumentedIncrements ==
  LET dollars == price \div 100
      band == {b \in Bands : dollars \in b.from .. b.to}
  IN GetBidIncrement(price) =
       100 * (IF band = {} THEN 5000 ELSE (CHOOSE b \in band : TRUE).step)

(* A higher price never makes a lower bid acceptable, in particular where  *)
(* the increment changes.                                                  *)
MinimumNeverFalls ==
  \A before \in {price - 1, price - 500} :
    before >= 0 => GetMinimumNextBid(before) <= GetMinimumNextBid(price)
=============================================================================
