---------------------------- MODULE BidIncrement ----------------------------
(***************************************************************************)
(* The bid increment table: src/internal/bidding/increment.ts.             *)
(*                                                                         *)
(* A table is a sequence of tiers in the order the code scans them; a tier *)
(* applies to the prices strictly below its threshold and the first tier   *)
(* that applies wins.  Amounts are integers, in cents in the program.      *)
(***************************************************************************)
EXTENDS Integers, Sequences, FiniteSetsExt

CONSTANTS
  IncrementTable,   \* sequence of [threshold, increment] records
  FinalIncrement    \* increment from the last threshold upwards

Tier == [threshold: Nat, increment: Nat \ {0}]

ASSUME IncrementAssumption ==
  /\ IncrementTable \in Seq(Tier)
  /\ FinalIncrement \in Nat \ {0}

(* Mutant: a threshold belongs to the tier below it.                       *)
TiersFrom(price) ==
  {i \in 1..Len(IncrementTable) : price <= IncrementTable[i].threshold}

(* Mutant: the comparison is turned round.                                 *)
TiersBelow(price) ==
  {i \in 1..Len(IncrementTable) : price >= IncrementTable[i].threshold}

(* Indexes of the tiers that apply to a lot at this price. *)
TiersAbove(price) ==
  {i \in 1..Len(IncrementTable) : price < IncrementTable[i].threshold}

GetBidIncrement(price) ==
  IF TiersAbove(price) = {}
  THEN FinalIncrement
  ELSE IncrementTable[Min(TiersAbove(price))].increment

GetMinimumNextBid(price) == price + GetBidIncrement(price)

IsValidBidAmount(price, proposed) == proposed >= GetMinimumNextBid(price)

-----------------------------------------------------------------------------
(* What is asked of a table.                                               *)

(* No tier has a larger increment than a later one.                        *)
RisingTable ==
  \A i \in 1..Len(IncrementTable) :
    /\ IncrementTable[i].increment <= FinalIncrement
    /\ \A j \in i..Len(IncrementTable) :
         IncrementTable[i].increment <= IncrementTable[j].increment
=============================================================================
