-------------------------- MODULE IncrementProofs --------------------------
(***************************************************************************)
(* Proofs about the increment table the program ships, for every price.    *)
(***************************************************************************)
EXTENDS MCBidIncrement, TLAPS

(* The constants are those of increment.ts.                                *)
TableShipped ==
  IncrementTable = ShippedTable /\ FinalIncrement = ShippedFinalIncrement

(* The tiers of the shipped table, one by one.                             *)
LEMMA ShippedTiers ==
  ASSUME TableShipped
  PROVE  /\ Len(IncrementTable) = 6
         /\ \A i \in 1..6 :
              /\ i = 1 => IncrementTable[i] = [threshold |->    10000, increment |->    500]
              /\ i = 2 => IncrementTable[i] = [threshold |->    50000, increment |->   1000]
              /\ i = 3 => IncrementTable[i] = [threshold |->   100000, increment |->   2500]
              /\ i = 4 => IncrementTable[i] = [threshold |->   500000, increment |->   5000]
              /\ i = 5 => IncrementTable[i] = [threshold |->  2000000, increment |->  25000]
              /\ i = 6 => IncrementTable[i] = [threshold |-> 10000000, increment |-> 100000]
BY DEF TableShipped, ShippedTable

(* The tier found is the first one that applies.                           *)
LEMMA FirstTierApplies ==
  ASSUME NEW p \in Nat, NEW k \in 1..Len(IncrementTable), Len(IncrementTable) \in Nat,
         p < IncrementTable[k].threshold,
         \A i \in 1..Len(IncrementTable) : i < k => ~(p < IncrementTable[i].threshold)
  PROVE  GetBidIncrement(p) = IncrementTable[k].increment
<1>. DEFINE T == TiersAbove(p)
<1>1. k \in T /\ T \subseteq 1..Len(IncrementTable)
  BY DEF TiersAbove
<1>2. \A i \in T : k <= i
  BY DEF TiersAbove
<1>. HIDE DEF T
<1>3. \A m \in T : (\A i \in T : m <= i) => m = k
  BY <1>1, <1>2
<1>4. Min(T) = k
  BY <1>1, <1>2, <1>3, Zenon DEF Min
<1>. QED
  BY <1>1, <1>4 DEF GetBidIncrement, T

(* getBidIncrement with the shipped table, as a list of cases.             *)
LEMMA ShippedIncrement ==
  ASSUME TableShipped, NEW p \in Nat
  PROVE  GetBidIncrement(p) =
           IF p < 10000 THEN 500
           ELSE IF p < 50000 THEN 1000
           ELSE IF p < 100000 THEN 2500
           ELSE IF p < 500000 THEN 5000
           ELSE IF p < 2000000 THEN 25000
           ELSE IF p < 10000000 THEN 100000
           ELSE 500000
<1>1. /\ Len(IncrementTable) = 6
      /\ IncrementTable[1].threshold = 10000    /\ IncrementTable[1].increment = 500
      /\ IncrementTable[2].threshold = 50000    /\ IncrementTable[2].increment = 1000
      /\ IncrementTable[3].threshold = 100000   /\ IncrementTable[3].increment = 2500
      /\ IncrementTable[4].threshold = 500000   /\ IncrementTable[4].increment = 5000
      /\ IncrementTable[5].threshold = 2000000  /\ IncrementTable[5].increment = 25000
      /\ IncrementTable[6].threshold = 10000000 /\ IncrementTable[6].increment = 100000
  BY ShippedTiers
<1>2. ASSUME NEW k \in 1..6,
             p < IncrementTable[k].threshold,
             \A i \in 1..6 : i < k => ~(p < IncrementTable[i].threshold)
      PROVE  GetBidIncrement(p) = IncrementTable[k].increment
  BY <1>1, <1>2, FirstTierApplies
<1>3. ASSUME \A i \in 1..6 : ~(p < IncrementTable[i].threshold)
      PROVE  GetBidIncrement(p) = 500000
  <2>1. TiersAbove(p) = {}
    BY <1>1, <1>3 DEF TiersAbove
  <2>. QED
    BY <2>1 DEF GetBidIncrement, TableShipped, ShippedFinalIncrement
<1>4. \A i \in 1..6 : i = 1 \/ i = 2 \/ i = 3 \/ i = 4 \/ i = 5 \/ i = 6
  OBVIOUS
<1>5. CASE p < 10000
  BY <1>1, <1>2, <1>4, <1>5
<1>6. CASE p >= 10000 /\ p < 50000
  BY <1>1, <1>2, <1>4, <1>6
<1>7. CASE p >= 50000 /\ p < 100000
  BY <1>1, <1>2, <1>4, <1>7
<1>8. CASE p >= 100000 /\ p < 500000
  BY <1>1, <1>2, <1>4, <1>8
<1>9. CASE p >= 500000 /\ p < 2000000
  BY <1>1, <1>2, <1>4, <1>9
<1>10. CASE p >= 2000000 /\ p < 10000000
  BY <1>1, <1>2, <1>4, <1>10
<1>11. CASE p >= 10000000
  BY <1>1, <1>3, <1>4, <1>11
<1>. QED
  BY <1>5, <1>6, <1>7, <1>8, <1>9, <1>10, <1>11

(* The price of a lot that climbs is a number, however far it climbs.      *)
LEMMA PriceIsNumber ==
  ASSUME TableShipped
  PROVE  Spec => [](price \in Nat)
<1>1. Init => price \in Nat
  <2>1. ASSUME NEW t \in Range(ShippedTable) PROVE t.threshold \in Nat \ {0}
    BY DEF Range, ShippedTable
  <2>. QED
    BY <2>1 DEF Init, StartingPrices
<1>2. price \in Nat /\ [Next]_price => (price \in Nat)'
  BY ShippedIncrement DEF Next, Climb, AtTop, GetMinimumNextBid
<1>. QED
  BY <1>1, <1>2, PTL DEF Spec

(* The table in increment.ts is the one its comment and README.md give in  *)
(* dollars, for every price and every number of cents.                     *)
THEOREM IncrementsAsDocumented ==
  ASSUME TableShipped
  PROVE  Spec => []DocumentedIncrements
<1>1. ASSUME price \in Nat PROVE DocumentedIncrements
  <2>. DEFINE dollars == price \div 100
              band == {b \in Bands : dollars \in b.from .. b.to}
              step == (CHOOSE b \in band : TRUE).step
  <2>1. /\ dollars \in Nat
        /\ \A n \in Nat : price < 100 * n <=> dollars <= n - 1
    BY <1>1
  <2>2. ASSUME NEW b \in Bands, dollars \in b.from .. b.to
        PROVE  step = b.step
    <3>1. band = {b}
      BY <2>1, <2>2 DEF Bands
    <3>. QED
      BY <3>1
  <2>3. dollars > 99999 => band = {}
    BY <2>1 DEF Bands
  <2>4. \A b \in Bands : dollars \in b.from .. b.to => band # {}
    OBVIOUS
  <2>. HIDE DEF step, band, dollars
  <2>5. GetBidIncrement(price) = 100 * (IF band = {} THEN 5000 ELSE step)
    BY <1>1, <2>1, <2>2, <2>3, <2>4, ShippedIncrement DEF Bands
  <2>. QED
    BY <2>5 DEF DocumentedIncrements, step, band, dollars
<1>. QED
  BY <1>1, PriceIsNumber, PTL

(* A higher price never makes a lower bid acceptable, whatever the price.  *)
THEOREM MinimumRises ==
  ASSUME TableShipped
  PROVE  Spec => []MinimumNeverFalls
<1>1. ASSUME price \in Nat PROVE MinimumNeverFalls
  BY <1>1, ShippedIncrement DEF MinimumNeverFalls, GetMinimumNextBid
<1>. QED
  BY <1>1, PriceIsNumber, PTL
=============================================================================
