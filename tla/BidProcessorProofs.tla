------------------------- MODULE BidProcessorProofs -------------------------
(***************************************************************************)
(* Proofs about BidProcessor, for any number of workers, lots, bidders and *)
(* submissions, any increment table and any bounds.                        *)
(***************************************************************************)
EXTENDS BidProcessor, SequenceTheorems, WellFoundedInduction, TLAPS

-----------------------------------------------------------------------------
(* The operators the processor is built from.                              *)

(* A set of numbers has a least one.                                       *)
LEMMA LeastNatural ==
  ASSUME NEW S \in SUBSET Nat, S # {}
  PROVE  \E m \in S : \A k \in S : m <= k
<1>1. PICK m \in S : \A k \in S : <<k, m>> \notin OpToRel(<, Nat)
  BY NatLessThanWellFounded, WFMin
<1>2. \A k, j \in Nat : k < j => <<k, j>> \in OpToRel(<, Nat)
  BY Zenon DEF OpToRel
<1>3. \A k \in S : ~(k < m)
  BY <1>1, <1>2, Zenon
<1>. QED
  BY <1>3

(* Every price has a tier of its own or lies above all of them.            *)
LEMMA IncrementFromTable ==
  ASSUME NEW p \in Nat
  PROVE  \/ GetBidIncrement(p) = FinalIncrement
         \/ \E i \in 1..Len(IncrementTable) : GetBidIncrement(p) = IncrementTable[i].increment
<1>1. CASE TiersAbove(p) # {}
  <2>1. TiersAbove(p) \subseteq 1..Len(IncrementTable) /\ TiersAbove(p) \subseteq Nat
    BY IncrementAssumption DEF TiersAbove
  <2>2. Min(TiersAbove(p)) \in TiersAbove(p)
    BY <1>1, <2>1, LeastNatural DEF Min
  <2>. QED
    BY <1>1, <2>1, <2>2 DEF GetBidIncrement
<1>. QED
  BY <1>1 DEF GetBidIncrement

(* Every price has a positive increment: getBidIncrement always finds a    *)
(* tier, or falls back on the final one.                                   *)
LEMMA IncrementPositive ==
  ASSUME NEW p \in Nat
  PROVE  GetBidIncrement(p) \in Nat \ {0}
<1>1. \A i \in 1..Len(IncrementTable) : IncrementTable[i].increment \in Nat \ {0}
  <2>1. \A i \in 1..Len(IncrementTable) : IncrementTable[i] \in Tier
    BY IncrementAssumption, ElementOfSeq
  <2>. QED
    BY <2>1 DEF Tier
<1>. QED
  BY <1>1, IncrementFromTable, IncrementAssumption

(* So the next bid is always higher than the price.                        *)
LEMMA MinimumNextBidHigher ==
  ASSUME NEW p \in Nat
  PROVE  GetMinimumNextBid(p) \in Nat /\ GetMinimumNextBid(p) > p
BY IncrementPositive DEF GetMinimumNextBid

(* Where increments rise with the tiers, a bid that is high enough for a   *)
(* price is high enough for every lower price: the minimum falls nowhere,  *)
(* not at a threshold either.                                              *)
THEOREM HigherPriceHigherMinimum ==
  ASSUME RisingTable, NEW p \in Nat, NEW q \in Nat, p <= q
  PROVE  GetMinimumNextBid(p) <= GetMinimumNextBid(q)
<1>. DEFINE n == Len(IncrementTable)
<1>1. /\ TiersAbove(q) \subseteq TiersAbove(p)
      /\ TiersAbove(p) \subseteq 1..n /\ 1..n \subseteq Nat
  <2>1. \A i \in 1..n : IncrementTable[i] \in Tier
    BY IncrementAssumption, ElementOfSeq
  <2>2. \A i \in 1..n : IncrementTable[i].threshold \in Nat
    BY <2>1 DEF Tier
  <2>. QED
    BY <2>2, IncrementAssumption DEF TiersAbove
<1>2. ASSUME NEW x \in Nat, TiersAbove(x) \subseteq 1..n, TiersAbove(x) # {}
      PROVE  /\ Min(TiersAbove(x)) \in TiersAbove(x)
             /\ \A k \in TiersAbove(x) : Min(TiersAbove(x)) <= k
  BY <1>1, <1>2, LeastNatural DEF Min
<1>3. GetBidIncrement(p) \in Nat /\ GetBidIncrement(q) \in Nat
  BY IncrementPositive
<1>4. GetBidIncrement(p) <= GetBidIncrement(q)
  <2>1. CASE TiersAbove(p) = {}
    BY <1>1, <2>1, <1>3 DEF GetBidIncrement
  <2>2. CASE TiersAbove(p) # {} /\ TiersAbove(q) = {}
    BY <1>1, <1>2, <2>2 DEF GetBidIncrement, RisingTable
  <2>3. CASE TiersAbove(q) # {}
    <3>1. /\ TiersAbove(p) # {}
          /\ Min(TiersAbove(p)) \in 1..n /\ Min(TiersAbove(q)) \in 1..n
          /\ Min(TiersAbove(p)) <= Min(TiersAbove(q))
      BY <1>1, <1>2, <2>3
    <3>2. Min(TiersAbove(q)) \in Min(TiersAbove(p))..n
      BY <3>1
    <3>. QED
      BY <2>3, <3>1, <3>2 DEF GetBidIncrement, RisingTable
  <2>. QED
    BY <2>1, <2>2, <2>3
<1>. QED
  BY <1>3, <1>4 DEF GetMinimumNextBid

(* Marking bids outbid neither adds, removes nor reorders them.            *)
LEMMA OutbidProperties ==
  ASSUME NEW bs \in Seq(BidRow), NEW b
  PROVE  /\ Outbid(bs, b) \in Seq(BidRow)
         /\ Len(Outbid(bs, b)) = Len(bs)
         /\ \A i \in 1..Len(bs) :
              Outbid(bs, b)[i] =
                IF bs[i].bidder = b /\ bs[i].status = "accepted" /\ bs[i].type # "proxy"
                THEN [bs[i] EXCEPT !.status = "outbid"]
                ELSE bs[i]
<1>1. DOMAIN bs = 1..Len(bs) /\ Len(bs) \in Nat
  BY LenProperties
<1>2. \A i \in 1..Len(bs) : bs[i] \in BidRow
  BY ElementOfSeq
<1>3. \A i \in 1..Len(bs) : [bs[i] EXCEPT !.status = "outbid"] \in BidRow
  BY <1>2 DEF BidRow
<1>4. Outbid(bs, b) \in [1..Len(bs) -> BidRow]
  BY <1>1, <1>2, <1>3 DEF Outbid
<1>5. Outbid(bs, b) \in Seq(BidRow)
  BY <1>1, <1>4
<1>6. Len(Outbid(bs, b)) = Len(bs)
  BY <1>1, <1>4, <1>5, LenProperties
<1>. QED
  BY <1>1, <1>5, <1>6 DEF Outbid

(* The UPDATE of a lot for a new leading bid sets the price and the leader *)
(* and counts the bid.                                                     *)
LEMMA LedType ==
  ASSUME NEW row \in LotRow, NEW bidder \in Bidders, NEW amount \in Nat
  PROVE  /\ Led(row, bidder, amount) \in LotRow
         /\ Led(row, bidder, amount).currentBid = amount
         /\ Led(row, bidder, amount).winner = bidder
         /\ Led(row, bidder, amount).bidCount = row.bidCount + 1
<1>. DEFINE r1 == [row EXCEPT !.currentBid = amount]
            r2 == [r1 EXCEPT !.winner = bidder]
            r3 == [r2 EXCEPT !.bidCount = @ + 1]
<1>1. r1 \in LotRow /\ r1.currentBid = amount /\ r1.bidCount = row.bidCount
  BY DEF LotRow
<1>2. r2 \in LotRow /\ r2.currentBid = amount /\ r2.bidCount = row.bidCount
        /\ r2.winner = bidder
  <2>. HIDE DEF r1
  <2>. QED  BY <1>1 DEF LotRow
<1>3. Led(row, bidder, amount) = r3
  BY DEF Led, LotRow
<1>. HIDE DEF r2
<1>. QED
  BY <1>2, <1>3 DEF LotRow

(* The anti-snipe check changes at most the deadline, the status and the   *)
(* events of a lot: its bids and its price stay.                           *)
LEMMA ExtendedType ==
  ASSUME NEW wk \in Work, NEW i \in Nat, now \in Nat
  PROVE  LET new == Extended(wk, i) IN
         /\ new \in Work
         /\ new.bids = wk.bids
         /\ new.bid = wk.bid
         /\ new.iterations = wk.iterations
         /\ new.lot.currentBid = wk.lot.currentBid
         /\ new.lot.winner = wk.lot.winner
         /\ new.lot.bidCount = wk.lot.bidCount
<1>. DEFINE closing == wk.lot.closingAt
            deadline == closing + AntiSnipeExtension
            event == EventOf("ANTI_SNIPE_TRIGGERED", i, deadline)
            row == [[wk.lot EXCEPT !.closingAt = deadline] EXCEPT !.status = "open"]
            short == closing # Null /\ closing - now < AntiSnipeWindow /\ closing > now
<1>1. CASE ~short
  BY <1>1 DEF Extended
<1>2. CASE short
  <2>1. wk.lot \in LotRow /\ wk.events \in Seq(EventRow) /\ closing \in Nat
    BY <1>2 DEF Work, LotRow, Time
  <2>2. deadline \in Nat
    BY <2>1, StoreAssumption
  <2>3. event \in EventRow
    BY <2>2 DEF EventOf, EventRow
  <2>4. Append(wk.events, event) \in Seq(EventRow)
    BY <2>1, <2>3, AppendProperties
  <2>. HIDE DEF event
  <2>5. row \in LotRow /\ row.currentBid = wk.lot.currentBid
          /\ row.winner = wk.lot.winner /\ row.bidCount = wk.lot.bidCount
    BY <2>1, <2>2 DEF LotRow, LotStatus, Time
  <2>. HIDE DEF deadline, closing
  <2>6. Extended(wk, i) = [wk EXCEPT !.lot = row, !.events = Append(@, event),
                                    !.extended = TRUE]
    BY <1>2 DEF Extended, event, deadline, closing, Work, LotRow
  <2>. HIDE DEF row
  <2>. QED
    BY <2>4, <2>5, <2>6 DEF Work
<1>. QED
  BY <1>1, <1>2

(* The bid that a request enters, and the bid that answers it for the      *)
(* proxy bid at p.                                                         *)
BidOf(r, placed) ==
  [bidder |-> r.bidder, type |-> r.type, amount |-> r.amount, max |-> r.max,
   status |-> "accepted", key |-> r.key, placedAt |-> placed]

CounterOf(wk, p, placed) ==
  [bidder |-> wk.bids[p].bidder, type |-> "auto_increment",
   amount |-> GetMinimumNextBid(wk.lot.currentBid),
   max |-> Null, status |-> "accepted", key |-> Null, placedAt |-> placed]

(* A request names a registered key and bidder and asks for a whole price. *)
LEMMA RequestType ==
  ASSUME NEW r \in Requests
  PROVE  /\ KeyOf(r) \in KeyIds
         /\ r.bidder \in Bidders
         /\ r.amount \in Nat
         /\ r.key \in Keys
         /\ r.type \in {"live", "proxy"}
         /\ r.max \in Nat \cup {Null}
BY BidAssumption DEF RequestOn, KeyOf, KeyIds

(* The row that processBid inserts for a request is a row of bids.         *)
LEMMA BidOfType ==
  ASSUME NEW r \in Requests, NEW placed \in Time
  PROVE  BidOf(r, placed) \in BidRow
BY RequestType DEF BidOf, BidRow, BidType

(* The row that the proxy loop inserts is a row of bids.                   *)
LEMMA CounterOfType ==
  ASSUME NEW wk \in Work, NEW p \in DOMAIN wk.bids, NEW placed \in Time
  PROVE  CounterOf(wk, p, placed) \in BidRow
<1>1. wk.bids \in Seq(BidRow) /\ wk.lot.currentBid \in Nat
  BY DEF Work, LotRow
<1>2. p \in 1..Len(wk.bids)
  BY <1>1, LenProperties
<1>3. wk.bids[p].bidder \in Bidders
  <2>1. wk.bids[p] \in BidRow
    BY <1>1, <1>2, ElementOfSeq
  <2>. QED  BY <2>1 DEF BidRow
<1>4. GetMinimumNextBid(wk.lot.currentBid) \in Nat
  BY <1>1, MinimumNextBidHigher
<1>. QED
  BY <1>3, <1>4 DEF CounterOf, BidRow, BidType

(* Steps 5 to 7 of processBid.                                             *)
LEMMA WithBidProperties ==
  ASSUME NEW wk \in Work, NEW r \in Requests, NEW placed \in Time
  PROVE  LET new == WithBid(wk, r, placed)
             inserted == Append(wk.bids, BidOf(r, placed))
         IN /\ new \in Work
            /\ new.lot = Led(wk.lot, r.bidder, r.amount)
            /\ new.bids = IF wk.lot.winner \in {Null, r.bidder} THEN inserted
                          ELSE Outbid(inserted, wk.lot.winner)
            /\ Len(new.bids) = Len(wk.bids) + 1
            /\ new.bid = Len(wk.bids) + 1
            /\ new.iterations = wk.iterations
<1>. DEFINE new == WithBid(wk, r, placed)
            inserted == Append(wk.bids, BidOf(r, placed))
            newBids == IF wk.lot.winner \in {Null, r.bidder} THEN inserted
                       ELSE Outbid(inserted, wk.lot.winner)
            row == Led(wk.lot, r.bidder, r.amount)
            pos == Len(wk.bids) + 1
            met == ReservePrice[r.lot] # Null /\ r.amount >= ReservePrice[r.lot]
<1>1. wk.lot \in LotRow /\ wk.bids \in Seq(BidRow)
  BY DEF Work
<1>2. row \in LotRow
  BY <1>1, RequestType, LedType
<1>3. inserted \in Seq(BidRow) /\ Len(inserted) = Len(wk.bids) + 1
  BY <1>1, BidOfType, AppendProperties
<1>4. newBids \in Seq(BidRow) /\ Len(newBids) = Len(wk.bids) + 1
  BY <1>3, OutbidProperties
<1>5. pos \in Nat
  BY <1>1, LenProperties
<1>6. new = [wk EXCEPT !.lot = row, !.bids = newBids, !.bid = pos, !.reserveMet = met]
  BY Zenon DEF WithBid, BidOf
<1>7. met \in BOOLEAN
  OBVIOUS
<1>. HIDE DEF new, newBids, row, pos, met
<1>8. /\ new \in Work /\ new.lot = row /\ new.bids = newBids /\ new.bid = pos
      /\ new.iterations = wk.iterations
  BY <1>2, <1>4, <1>5, <1>6, <1>7 DEF Work
<1>. QED
  BY <1>4, <1>8 DEF new, newBids, row, pos

(* One iteration of the proxy loop, before the anti-snipe check.           *)
LEMMA WithCounterProperties ==
  ASSUME NEW wk \in Work, NEW p \in DOMAIN wk.bids, NEW placed \in Time
  PROVE  LET new == WithCounter(wk, p, placed) IN
         /\ new \in Work
         /\ new.lot = Led(wk.lot, wk.bids[p].bidder, GetMinimumNextBid(wk.lot.currentBid))
         /\ new.bids = Append(Outbid(wk.bids, wk.lot.winner), CounterOf(wk, p, placed))
         /\ Len(new.bids) = Len(wk.bids) + 1
         /\ new.bid = wk.bid
         /\ new.iterations = wk.iterations + 1
<1>. DEFINE new == WithCounter(wk, p, placed)
            row == Led(wk.lot, wk.bids[p].bidder, GetMinimumNextBid(wk.lot.currentBid))
            newBids == Append(Outbid(wk.bids, wk.lot.winner), CounterOf(wk, p, placed))
            round == wk.iterations + 1
<1>1. /\ wk.lot \in LotRow /\ wk.lot.currentBid \in Nat
      /\ wk.bids \in Seq(BidRow) /\ wk.iterations \in Nat
  BY DEF Work, LotRow
<1>2. p \in 1..Len(wk.bids)
  BY <1>1, LenProperties
<1>3. wk.bids[p].bidder \in Bidders
  <2>1. wk.bids[p] \in BidRow
    BY <1>1, <1>2, ElementOfSeq
  <2>. QED  BY <2>1 DEF BidRow
<1>4. row \in LotRow
  BY <1>1, <1>3, LedType, MinimumNextBidHigher
<1>5. newBids \in Seq(BidRow) /\ Len(newBids) = Len(wk.bids) + 1
  BY <1>1, OutbidProperties, CounterOfType, AppendProperties
<1>6. new = [wk EXCEPT !.lot = row, !.bids = newBids, !.iterations = round]
  BY Zenon DEF WithCounter, CounterOf
<1>7. round \in Nat
  BY <1>1
<1>. HIDE DEF new, newBids, row, round
<1>8. /\ new \in Work /\ new.lot = row /\ new.bids = newBids /\ new.bid = wk.bid
      /\ new.iterations = round
  BY <1>4, <1>5, <1>6, <1>7 DEF Work
<1>. QED
  BY <1>5, <1>8 DEF new, newBids, row, round

-----------------------------------------------------------------------------
(* Type correctness.                                                       *)

(* What a worker has in hand at each place of processBid: its request, the *)
(* rows of an existing lot, a key that is stored.                          *)
WorkersAreEquipped ==
  \A w \in Workers :
    /\ pc[w] # "idle" => req[w] \in Requests
    /\ pc[w] \in {"validate", "resolve", "commit", "publish"} =>
         work[w] \in Work /\ req[w].lot \in Lots
    /\ pc[w] \in {"select", "replay"} => keyRow[KeyOf(req[w])] # Null

TypeInv == BidTypeOK /\ WorkersAreEquipped

(* The program starts well-typed.                                          *)
LEMMA TypeInvInit == BidInit => TypeInv
<1>. SUFFICES ASSUME BidInit PROVE TypeInv
  OBVIOUS
<1>. USE DEF BidInit, StoreInit, KeyInit
<1>1. StoreTypeOK
  <2>1. lot \in [Lots -> LotRow]
    BY StoreAssumption DEF FreshLotRow, LotRow
  <2>2. bids \in [Lots -> Seq(BidRow)] /\ events \in [Lots -> Seq(EventRow)]
    BY EmptySeq
  <2>. QED
    BY <2>1, <2>2 DEF StoreTypeOK, Time
<1>2. BidTypeOK
  BY <1>1 DEF BidTypeOK, Time
<1>. QED
  BY <1>2 DEF TypeInv, WorkersAreEquipped

(* Freeing the locks of a session keeps the lock tables well-formed.       *)
LEMMA FreedTypes ==
  ASSUME BidTypeOK, NEW w \in Workers
  PROVE  /\ LotsFreed(w) \in [Lots -> Sessions \cup {Null}]
         /\ KeysFreed(w) \in [KeyIds -> Workers \cup {Null}]
BY DEF BidTypeOK, StoreTypeOK, LotsFreed, KeysFreed

(* What a successful transaction stores and answers.                       *)
LEMMA ResultType ==
  ASSUME TypeInv, NEW w \in Workers, pc[w] \in {"commit", "publish"}
  PROVE  /\ ResultOf(w) \in Response
         /\ ReleasedRow(ResultOf(w)) \in KeyRow
<1>1. work[w].lot \in LotRow /\ work[w].bid \in Nat /\ req[w].lot \in Lots
  BY DEF TypeInv, WorkersAreEquipped, Work
<1>2. SnapshotOf(req[w].lot, work[w].lot) \in Snapshot
  <2>. DEFINE row == work[w].lot
              reserve == ReservePrice[req[w].lot]
              met == reserve # Null /\ row.currentBid >= reserve
  <2>1. met \in BOOLEAN
    OBVIOUS
  <2>2. /\ row.currentBid \in Nat /\ row.bidCount \in Nat
        /\ row.status \in LotStatus /\ row.closingAt \in Time \cup {Null}
    BY <1>1 DEF LotRow
  <2>3. SnapshotOf(req[w].lot, row) =
          [currentBid |-> row.currentBid, bidCount |-> row.bidCount,
           status |-> row.status, closingAt |-> row.closingAt, reserveMet |-> met]
    BY Zenon DEF SnapshotOf
  <2>. HIDE DEF met, row
  <2>4. SnapshotOf(req[w].lot, row) \in Snapshot
    BY <2>1, <2>2, <2>3 DEF Snapshot
  <2>. QED  BY <2>4 DEF row
<1>3. ResultOf(w) \in Response
  BY <1>1, <1>2 DEF ResultOf, Response
<1>. QED
  BY <1>3 DEF ReleasedRow, KeyRow

(* What is published about an accepted bid.                                *)
LEMMA MessagesType ==
  ASSUME TypeInv, NEW w \in Workers, pc[w] = "publish"
  PROVE  MessagesOf(w) \subseteq Message
<1>1. work[w].lot \in LotRow /\ work[w].reserveMet \in BOOLEAN /\ req[w].lot \in Lots
  BY DEF TypeInv, WorkersAreEquipped, Work
<1>. DEFINE row == work[w].lot
            accepted ==
              [type |-> "BID_ACCEPTED", lot |-> req[w].lot, price |-> row.currentBid,
               count |-> row.bidCount, closingAt |-> row.closingAt,
               reserveMet |-> work[w].reserveMet]
            extension ==
              [type |-> "ANTI_SNIPE", lot |-> req[w].lot, price |-> Null,
               count |-> Null, closingAt |-> row.closingAt, reserveMet |-> FALSE]
<1>2. /\ row.currentBid \in Nat /\ row.bidCount \in Nat
      /\ row.closingAt \in Time \cup {Null}
  BY <1>1 DEF LotRow
<1>3. accepted \in Message
  BY <1>1, <1>2 DEF Message
<1>4. extension \in Message
  BY <1>1, <1>2 DEF Message
<1>. QED
  BY <1>3, <1>4 DEF MessagesOf

(* Every worker other than the one that moves keeps what it has in hand.   *)
LEMMA OthersStayEquipped ==
  ASSUME TypeInv, BidTypeOK', NEW w \in Workers,
         \A v \in Workers \ {w} :
           pc'[v] = pc[v] /\ req'[v] = req[v] /\ work'[v] = work[v],
         \A k \in KeyIds : keyRow[k] # Null => keyRow'[k] # Null,
         pc'[w] # "idle" => req'[w] \in Requests,
         pc'[w] \in {"validate", "resolve", "commit", "publish"} =>
           work'[w] \in Work /\ req'[w].lot \in Lots,
         pc'[w] \in {"select", "replay"} => keyRow'[KeyOf(req'[w])] # Null
  PROVE  TypeInv'
<1>1. ASSUME NEW v \in Workers \ {w},
             pc'[v] \in {"select", "replay"}
      PROVE  keyRow'[KeyOf(req'[v])] # Null
  <2>1. KeyOf(req[v]) \in KeyIds /\ keyRow[KeyOf(req[v])] # Null
    BY <1>1, RequestType DEF TypeInv, WorkersAreEquipped
  <2>. QED
    BY <1>1, <2>1
<1>. QED
  BY <1>1 DEF TypeInv, WorkersAreEquipped

(* The end of a transaction without effect, whatever the worker answers.   *)
LEMMA RolledBackTypes ==
  ASSUME TypeInv, NEW w \in Workers, RolledBack(w),
         pc' \in [Workers -> InTransaction \cup {"idle", "publish", "unlock"}],
         reply' \in [Workers -> Reply \cup {Null}], failures' \in Nat,
         UNCHANGED <<req, startedAt, submitted>>,
         \A v \in Workers \ {w} : pc'[v] = pc[v],
         pc'[w] = "idle" \/ (pc'[w] = "unlock" /\ pc[w] # "idle")
  PROVE  TypeInv'
<1>1. BidTypeOK'
  BY FreedTypes DEF TypeInv, BidTypeOK, StoreTypeOK, RolledBack
<1>2. /\ \A v \in Workers \ {w} : req'[v] = req[v] /\ work'[v] = work[v]
      /\ keyRow' = keyRow
  BY DEF TypeInv, BidTypeOK, RolledBack
<1>3. pc'[w] # "idle" => req'[w] \in Requests
  BY DEF TypeInv, WorkersAreEquipped
<1>. QED
  BY <1>1, <1>2, <1>3, OthersStayEquipped

(* A refusal is an answer without a stored response.                       *)
LEMMA RefusalType ==
  ASSUME NEW code \in ReplyCode
  PROVE  Refusal(code) \in Reply
BY DEF Refusal, Reply

(* Every reason to refuse a bid is one of the codes a client may get.      *)
LEMMA RejectionType ==
  ASSUME NEW r, NEW row, Rejection(r, row) # "none"
  PROVE  Rejection(r, row) \in RejectionCode
BY DEF Rejection, RejectionCode

(* Every step of a worker keeps the types.                                 *)
LEMMA WorkerStepTypes ==
  ASSUME TypeInv, NEW w \in Workers, Begin(w) \/ WorkerStep(w) \/ WorkerFailure(w)
  PROVE  TypeInv'
<1>. USE DEF BidTypeOK, StoreTypeOK
<1>0. /\ pc[w] # "idle" => req[w] \in Requests /\ KeyOf(req[w]) \in KeyIds
      /\ w \in Sessions
  BY RequestType, BidAssumption DEF TypeInv, WorkersAreEquipped
<1>1. CASE Begin(w)
  <2>1. BidTypeOK'
    BY <1>1 DEF TypeInv, Begin, Goes, Answers, storeVars, keyVars, InTransaction, Time
  <2>. QED
    BY <1>1, <2>1, OthersStayEquipped DEF TypeInv, Begin, Goes, storeVars, keyVars
<1>2. CASE InsertKey(w)
  <2>1. BidTypeOK'
    BY <1>0, <1>2 DEF TypeInv, InsertKey, KeyInserted, Goes, storeVars, InTransaction
  <2>. QED
    BY <1>0, <1>2, <2>1, OthersStayEquipped
    DEF TypeInv, WorkersAreEquipped, InsertKey, KeyInserted, Goes, storeVars
<1>3. CASE InsertFindsKey(w)
  <2>1. BidTypeOK'
    BY <1>3 DEF TypeInv, InsertFindsKey, Goes, storeVars, keyVars, InTransaction
  <2>. QED
    BY <1>0, <1>3, <2>1, OthersStayEquipped
    DEF TypeInv, WorkersAreEquipped, InsertFindsKey, KeyConflicts, Goes, storeVars, keyVars
<1>4. CASE SelectCompleted(w)
  <2>1. BidTypeOK'
    BY <1>0, <1>4 DEF TypeInv, SelectCompleted, KeyCompleted, Goes, storeVars, InTransaction
  <2>. QED
    BY <1>0, <1>4, <2>1, OthersStayEquipped
    DEF TypeInv, WorkersAreEquipped, SelectCompleted, KeyCompleted, Goes, storeVars
<1>5. CASE SelectInFlight(w)
  <2>1. Refusal("concurrent_request") \in Reply
    BY RefusalType DEF ReplyCode
  <2>. QED
    BY <1>5, <2>1, RolledBackTypes DEF TypeInv, SelectInFlight, Goes, Answers
<1>6. CASE Replay(w)
  <2>1. keyRow[KeyOf(req[w])] \in KeyRow
    BY <1>0, <1>6 DEF TypeInv, WorkersAreEquipped, Replay, Goes
  <2>2. [code |-> "replayed", response |-> keyRow[KeyOf(req[w])].response] \in Reply
    BY <2>1 DEF KeyRow, Reply, ReplyCode
  <2>. QED
    BY <1>6, <2>2, RolledBackTypes DEF TypeInv, Replay, Goes, Answers
<1>7. CASE LockLot(w)
  <2>1. WorkOn(req[w].lot) \in Work
    BY <1>7 DEF TypeInv, LockLot, WorkOn, Work
  <2>2. BidTypeOK'
    BY <1>0, <1>7, <2>1 DEF TypeInv, LockLot, Goes, keyVars, InTransaction
  <2>. QED
    BY <1>0, <1>7, <2>1, <2>2, OthersStayEquipped DEF TypeInv, LockLot, Goes, keyVars
<1>8. CASE LotNotFound(w)
  <2>1. Refusal("lot_not_found") \in Reply
    BY RefusalType DEF ReplyCode
  <2>. QED
    BY <1>8, <2>1, RolledBackTypes DEF TypeInv, LotNotFound, Goes, Answers
<1>9. CASE RejectBid(w)
  <2>1. Refusal(Rejection(req[w], work[w].lot)) \in Reply
    BY <1>9, RejectionType, RefusalType DEF RejectBid, ReplyCode
  <2>. QED
    BY <1>9, <2>1, RolledBackTypes DEF TypeInv, RejectBid, Goes, Answers
<1>10. CASE AcceptBid(w)
  <2>. DEFINE with == WithBid(work[w], req[w], startedAt[w])
  <2>1. with \in Work /\ with.bid \in Nat
    BY <1>0, <1>10, WithBidProperties
    DEF TypeInv, WorkersAreEquipped, AcceptBid, Goes, Work
  <2>2. Extended(with, with.bid) \in Work
    BY <2>1, ExtendedType DEF TypeInv, Time
  <2>3. BidTypeOK'
    BY <1>10, <2>2 DEF TypeInv, AcceptBid, Goes, storeVars, keyVars, InTransaction
  <2>. QED
    BY <1>10, <2>2, <2>3, OthersStayEquipped
    DEF TypeInv, WorkersAreEquipped, AcceptBid, Goes, storeVars, keyVars
<1>11. CASE ProxyCounters(w)
  <2>1. PICK p \in Counters(work[w]) :
               work' = [work EXCEPT ![w] =
                 LET i == Len(work[w].bids) + 1
                     wk == Extended(WithCounter(work[w], p, startedAt[w]), i)
                     event == EventOf("PROXY_RESOLVED", i, wk.lot.currentBid)
                 IN [wk EXCEPT !.events = Append(@, event)]]
    BY <1>11 DEF ProxyCounters
  <2>. DEFINE i == Len(work[w].bids) + 1
              with == WithCounter(work[w], p, startedAt[w])
              wk == Extended(with, i)
              event == EventOf("PROXY_RESOLVED", i, wk.lot.currentBid)
              new == [wk EXCEPT !.events = Append(@, event)]
  <2>2. work[w] \in Work /\ req[w].lot \in Lots
    BY <1>11 DEF TypeInv, WorkersAreEquipped, ProxyCounters
  <2>3. p \in DOMAIN work[w].bids /\ i \in Nat
    BY <2>2, LenProperties DEF Counters, BestProxies, Competing, Work
  <2>4. wk \in Work
    BY <2>2, <2>3, WithCounterProperties, ExtendedType DEF TypeInv, Time
  <2>. HIDE DEF wk, i
  <2>5. event \in EventRow
    BY <2>3, <2>4 DEF EventOf, EventRow, Work, LotRow
  <2>. HIDE DEF event
  <2>6. Append(wk.events, event) \in Seq(EventRow)
    BY <2>4, <2>5, AppendProperties DEF Work
  <2>7. new \in Work
    BY <2>4, <2>6 DEF Work
  <2>8. work' = [work EXCEPT ![w] = new]
    BY <2>1, Zenon DEF wk, i, event
  <2>. HIDE DEF new
  <2>9. BidTypeOK'
    BY <1>11, <2>7, <2>8 DEF TypeInv, ProxyCounters, storeVars, keyVars
  <2>. QED
    BY <1>0, <1>11, <2>2, <2>7, <2>8, <2>9, OthersStayEquipped
    DEF TypeInv, ProxyCounters, storeVars, keyVars
<1>12. CASE RecordBid(w)
  <2>. DEFINE event == EventOf("BID_ACCEPTED", work[w].bid, req[w].amount)
              new == [work[w] EXCEPT !.events = Append(@, event)]
  <2>1. work[w] \in Work /\ req[w].lot \in Lots
    BY <1>12 DEF TypeInv, WorkersAreEquipped, RecordBid, Goes
  <2>2. event \in EventRow
    BY <1>0, <1>12, <2>1, RequestType DEF RecordBid, Goes, EventOf, EventRow, Work
  <2>. HIDE DEF event
  <2>3. Append(work[w].events, event) \in Seq(EventRow)
    BY <2>1, <2>2, AppendProperties DEF Work
  <2>4. new \in Work
    BY <2>1, <2>3 DEF Work
  <2>5. work' = [work EXCEPT ![w] = new]
    BY <1>12, Zenon DEF RecordBid, event
  <2>. HIDE DEF new
  <2>6. /\ pc[w] = "resolve" /\ pc' = [pc EXCEPT ![w] = "commit"]
        /\ UNCHANGED <<storeVars, keyVars, req, startedAt, reply, submitted, failures>>
    BY <1>12 DEF RecordBid, Goes
  <2>7. BidTypeOK'
    BY <2>4, <2>5, <2>6 DEF TypeInv, storeVars, keyVars, InTransaction
  <2>. QED
    BY <1>0, <2>1, <2>4, <2>5, <2>6, <2>7, OthersStayEquipped
    DEF TypeInv, storeVars, keyVars
<1>13. CASE Commit(w)
  <2>1. /\ work[w].lot \in LotRow /\ work[w].bids \in Seq(BidRow)
        /\ work[w].events \in Seq(EventRow) /\ req[w].lot \in Lots /\ work[w] \in Work
    BY <1>13 DEF TypeInv, WorkersAreEquipped, Commit, Goes, Work
  <2>2. ReleasedRow(ResultOf(w)) \in KeyRow
    BY <1>13, ResultType DEF Commit, Goes
  <2>3. ReleasedRow(ResultOf(w)) # Null
    BY <2>2, BidAssumption
  <2>4. BidTypeOK'
    BY <1>0, <1>13, <2>1, <2>2, FreedTypes DEF TypeInv, Commit, Committed, Goes
  <2>. QED
    BY <1>0, <1>13, <2>1, <2>3, <2>4, OthersStayEquipped DEF TypeInv, Commit, Committed, Goes
<1>14. CASE Publish(w)
  <2>1. [code |-> "accepted", response |-> ResultOf(w)] \in Reply
    BY <1>14, ResultType DEF Publish, Goes, Reply, ReplyCode
  <2>2. feed' \subseteq Message
    BY <1>14, MessagesType DEF TypeInv, Publish, Goes
  <2>3. BidTypeOK'
    BY <1>14, <2>1, <2>2 DEF TypeInv, Publish, Goes, Answers, keyVars
  <2>. QED
    BY <1>14, <2>3, OthersStayEquipped DEF TypeInv, Publish, Goes, keyVars
<1>15. CASE ForceUnlock(w)
  <2>1. Refusal("error") \in Reply
    BY RefusalType DEF ReplyCode
  <2>2. /\ keyRow' \in [KeyIds -> KeyRow \cup {Null}] /\ keyLock' = keyLock
        /\ \A k \in KeyIds : keyRow[k] # Null => keyRow'[k] # Null
    <3>. DEFINE k == KeyOf(req[w])
                opened == [keyRow[k] EXCEPT !.locked = FALSE]
    <3>1. CASE keyRow' = keyRow
      BY <1>15, <3>1 DEF TypeInv, ForceUnlock, KeyForcedOpen, keyVars
    <3>2. CASE keyRow[k] # Null /\ keyRow' = [keyRow EXCEPT ![k] = opened]
      <4>1. k \in KeyIds /\ keyRow[k] \in KeyRow
        BY <1>0, <1>15, <3>2 DEF TypeInv, ForceUnlock, Goes
      <4>2. opened \in KeyRow
        BY <4>1 DEF KeyRow
      <4>. HIDE DEF opened, k
      <4>. QED
        BY <1>15, <3>2, <4>1, <4>2, BidAssumption
        DEF TypeInv, ForceUnlock, KeyForcedOpen, keyVars
    <3>. QED
      BY <1>15, <3>1, <3>2 DEF ForceUnlock, KeyForcedOpen, keyVars
  <2>3. BidTypeOK'
    BY <1>15, <2>1, <2>2 DEF TypeInv, ForceUnlock, Goes, Answers, storeVars
  <2>. QED
    BY <1>15, <2>2, <2>3, OthersStayEquipped DEF TypeInv, ForceUnlock, Goes, storeVars
<1>16. CASE StatementFails(w)
  <2>1. failures' \in Nat /\ pc[w] # "idle"
    BY <1>16 DEF TypeInv, StatementFails, InTransaction
  <2>. QED
    BY <1>16, <2>1, RolledBackTypes DEF TypeInv, StatementFails
<1>17. CASE CommitUnacknowledged(w)
  <2>1. /\ work[w].lot \in LotRow /\ work[w].bids \in Seq(BidRow)
        /\ work[w].events \in Seq(EventRow) /\ req[w].lot \in Lots
    BY <1>17 DEF TypeInv, WorkersAreEquipped, CommitUnacknowledged, Goes, Work
  <2>2. ReleasedRow(ResultOf(w)) \in KeyRow
    BY <1>17, ResultType DEF CommitUnacknowledged, Goes
  <2>3. ReleasedRow(ResultOf(w)) # Null
    BY <2>2, BidAssumption
  <2>4. BidTypeOK'
    BY <1>0, <1>17, <2>1, <2>2, FreedTypes DEF TypeInv, CommitUnacknowledged, Committed, Goes
  <2>. QED
    BY <1>0, <1>17, <2>1, <2>3, <2>4, OthersStayEquipped
    DEF TypeInv, CommitUnacknowledged, Committed, Goes
<1>. QED
  BY <1>1, <1>2, <1>3, <1>4, <1>5, <1>6, <1>7, <1>8, <1>9, <1>10, <1>11, <1>12,
     <1>13, <1>14, <1>15, <1>16, <1>17 DEF WorkerStep, WorkerFailure

(* Every step of BidSpec keeps the type invariant.                         *)
LEMMA TypeInvKept == TypeInv /\ [BidNext]_bidVars => TypeInv'
<1>. SUFFICES ASSUME TypeInv, [BidNext]_bidVars PROVE TypeInv'
  OBVIOUS
<1>1. CASE BidStep
  BY <1>1, WorkerStepTypes DEF BidStep
<1>2. CASE ClockTicks /\ UNCHANGED <<keyVars, workerVars>>
  BY <1>2
  DEF TypeInv, WorkersAreEquipped, BidTypeOK, StoreTypeOK, ClockTicks, keyVars,
      workerVars, Time
<1>3. CASE UNCHANGED bidVars
  BY <1>3
  DEF TypeInv, WorkersAreEquipped, BidTypeOK, StoreTypeOK, bidVars, storeVars,
      keyVars, workerVars
<1>. QED
  BY <1>1, <1>2, <1>3 DEF BidNext, AllAnswered

(* What is typed, and what the workers have in hand, always holds.         *)
LEMMA TypeInvHolds == BidSpec => []TypeInv
BY TypeInvInit, TypeInvKept, PTL DEF BidSpec

(* Type correctness, whatever the constants: every table, every request in *)
(* progress and every answer has its type in every reachable state.        *)
THEOREM BidTypesCorrect == BidSpec => []BidTypeOK
<1>1. TypeInv => BidTypeOK
  BY DEF TypeInv
<1>. QED
  BY <1>1, TypeInvHolds, PTL

-----------------------------------------------------------------------------
(* Row locks.                                                              *)

(* A step of one worker that touches only rows it holds leaves the others' *)
(* work protected.                                                         *)
LEMMA OthersStayProtected ==
  ASSUME TypeInv, LocksProtectTheWork, NEW w \in Workers,
         \A v \in Workers \ {w} :
           /\ pc'[v] = pc[v] /\ req'[v] = req[v] /\ work'[v] = work[v]
           /\ \A l \in Lots : lotLock'[l] = v <=> lotLock[l] = v
           /\ \A k \in KeyIds : keyLock'[k] = v <=> keyLock[k] = v,
         \A l \in Lots : lotLock[l] # w =>
           lot'[l] = lot[l] /\ bids'[l] = bids[l] /\ events'[l] = events[l],
         WorkIsProtected(w)'
  PROVE  LocksProtectTheWork'
<1>. SUFFICES ASSUME NEW v \in Workers \ {w} PROVE WorkIsProtected(v)'
  BY DEF LocksProtectTheWork
<1>1. WorkIsProtected(v)
  BY DEF LocksProtectTheWork
<1>2. /\ \A l \in Lots : lotLock'[l] = v <=>
                pc'[v] \in {"validate", "resolve", "commit"} /\ req'[v].lot = l
      /\ \A k \in KeyIds : keyLock'[k] = v <=>
                /\ pc'[v] \in {"replay", "lockLot", "validate", "resolve", "commit"}
                /\ KeyOf(req'[v]) = k
  BY <1>1 DEF WorkIsProtected
<1>3. ASSUME pc[v] \in {"validate", "resolve", "commit"}
      PROVE  LET l == req[v].lot IN
             lot'[l] = lot[l] /\ bids'[l] = bids[l] /\ events'[l] = events[l]
  <2>1. req[v].lot \in Lots
    BY <1>3 DEF TypeInv, WorkersAreEquipped
  <2>2. lotLock[req[v].lot] = v
    BY <1>1, <1>3, <2>1 DEF WorkIsProtected
  <2>. QED
    BY <2>1, <2>2
<1>4. pc'[v] = "validate" =>
        work'[v] = [lot |-> lot'[req'[v].lot], bids |-> bids'[req'[v].lot],
                    events |-> events'[req'[v].lot], bid |-> 0, reserveMet |-> FALSE,
                    extended |-> FALSE, iterations |-> 0]
  BY <1>1, <1>3 DEF WorkIsProtected, WorkOn
<1>5. pc'[v] \in {"resolve", "commit"} =>
        Len(work'[v].bids) = Len(bids'[req'[v].lot]) + 1 + work'[v].iterations
  BY <1>1, <1>3 DEF WorkIsProtected
<1>. QED
  BY <1>2, <1>4, <1>5 DEF WorkIsProtected, WorkOn

(* A worker whose transaction ends holds nothing, and nobody else loses a  *)
(* lock.                                                                   *)
LEMMA FreedLocks ==
  ASSUME TypeInv, NEW w \in Workers
  PROVE  /\ \A l \in Lots : LotsFreed(w)[l] # w
         /\ \A k \in KeyIds : KeysFreed(w)[k] # w
         /\ \A v \in Workers \ {w} :
              /\ \A l \in Lots : LotsFreed(w)[l] = v <=> lotLock[l] = v
              /\ \A k \in KeyIds : KeysFreed(w)[k] = v <=> keyLock[k] = v
BY BidAssumption, StoreAssumption DEF LotsFreed, KeysFreed

(* After a ROLLBACK the rows of every worker are protected.                *)
LEMMA RolledBackLocks ==
  ASSUME TypeInv, LocksProtectTheWork, NEW w \in Workers, RolledBack(w),
         \A v \in Workers \ {w} : pc'[v] = pc[v], UNCHANGED req,
         pc'[w] \in {"idle", "unlock"}
  PROVE  LocksProtectTheWork'
<1>1. \A v \in Workers \ {w} : work'[v] = work[v]
  BY DEF RolledBack, TypeInv, BidTypeOK
<1>2. WorkIsProtected(w)'
  BY FreedLocks DEF WorkIsProtected, RolledBack
<1>. QED
  BY <1>1, <1>2, FreedLocks, OthersStayProtected DEF RolledBack

(* So they are after a COMMIT, which changes only the lot that the worker  *)
(* itself holds.                                                           *)
LEMMA CommittedLocks ==
  ASSUME TypeInv, LocksProtectTheWork, NEW w \in Workers, Committed(w),
         pc[w] = "commit",
         \A v \in Workers \ {w} : pc'[v] = pc[v] /\ work'[v] = work[v], UNCHANGED req,
         pc'[w] \in {"publish", "unlock"}
  PROVE  LocksProtectTheWork'
<1>1. lotLock[req[w].lot] = w
  BY DEF LocksProtectTheWork, WorkIsProtected, TypeInv, WorkersAreEquipped
<1>2. \A l \in Lots : lotLock[l] # w =>
        lot'[l] = lot[l] /\ bids'[l] = bids[l] /\ events'[l] = events[l]
  BY <1>1 DEF Committed, TypeInv, BidTypeOK, StoreTypeOK
<1>3. WorkIsProtected(w)'
  BY FreedLocks DEF WorkIsProtected, Committed
<1>. QED
  BY <1>2, <1>3, FreedLocks, OthersStayProtected DEF Committed

(* Every step of a worker keeps every worker's rows protected.             *)
LEMMA WorkerStepLocks ==
  ASSUME TypeInv, LocksProtectTheWork, NEW w \in Workers,
         Begin(w) \/ WorkerStep(w) \/ WorkerFailure(w)
  PROVE  LocksProtectTheWork'
<1>. USE DEF Goes
<1>0. /\ WorkIsProtected(w)
      /\ pc \in [Workers -> InTransaction \cup {"idle", "publish", "unlock"}]
      /\ DOMAIN req = Workers /\ DOMAIN work = Workers
      /\ lotLock \in [Lots -> Sessions \cup {Null}]
      /\ keyLock \in [KeyIds -> Workers \cup {Null}]
      /\ \A v \in Workers : v # Null
  BY BidAssumption, StoreAssumption DEF LocksProtectTheWork, TypeInv, BidTypeOK, StoreTypeOK
<1>18. pc[w] # "idle" => KeyOf(req[w]) \in KeyIds
  BY RequestType DEF TypeInv, WorkersAreEquipped
<1>1. CASE Begin(w)
  <2>1. WorkIsProtected(w)'
    BY <1>0, <1>1 DEF Begin, WorkIsProtected, storeVars, keyVars
  <2>. QED
    BY <1>0, <1>1, <2>1, OthersStayProtected DEF Begin, storeVars, keyVars
<1>2. CASE InsertKey(w)
  <2>1. WorkIsProtected(w)'
    BY <1>0, <1>2, <1>18 DEF InsertKey, KeyInserted, WorkIsProtected, storeVars
  <2>2. \A v \in Workers \ {w}, k \in KeyIds : keyLock'[k] = v <=> keyLock[k] = v
    BY <1>0, <1>2, <1>18 DEF InsertKey, KeyInserted
  <2>. QED
    BY <1>0, <1>2, <2>1, <2>2, OthersStayProtected DEF InsertKey, storeVars
<1>3. CASE InsertFindsKey(w)
  <2>1. WorkIsProtected(w)'
    BY <1>0, <1>3 DEF InsertFindsKey, WorkIsProtected, storeVars, keyVars
  <2>. QED
    BY <1>0, <1>3, <2>1, OthersStayProtected DEF InsertFindsKey, storeVars, keyVars
<1>4. CASE SelectCompleted(w)
  <2>1. WorkIsProtected(w)'
    BY <1>0, <1>4, <1>18 DEF SelectCompleted, KeyCompleted, WorkIsProtected, storeVars
  <2>2. \A v \in Workers \ {w}, k \in KeyIds : keyLock'[k] = v <=> keyLock[k] = v
    BY <1>0, <1>4, <1>18 DEF SelectCompleted, KeyCompleted
  <2>. QED
    BY <1>0, <1>4, <2>1, <2>2, OthersStayProtected DEF SelectCompleted, storeVars
<1>5. CASE SelectInFlight(w)
  BY <1>0, <1>5, RolledBackLocks DEF SelectInFlight
<1>6. CASE Replay(w)
  BY <1>0, <1>6, RolledBackLocks DEF Replay
<1>7. CASE LockLot(w)
  <2>1. WorkIsProtected(w)'
    BY <1>0, <1>7 DEF LockLot, WorkIsProtected, WorkOn, keyVars
  <2>2. \A v \in Workers \ {w}, l \in Lots : lotLock'[l] = v <=> lotLock[l] = v
    BY <1>0, <1>7 DEF LockLot
  <2>. QED
    BY <1>0, <1>7, <2>1, <2>2, OthersStayProtected DEF LockLot, keyVars
<1>8. CASE LotNotFound(w)
  BY <1>0, <1>8, RolledBackLocks DEF LotNotFound
<1>9. CASE RejectBid(w)
  BY <1>0, <1>9, RolledBackLocks DEF RejectBid
<1>10. CASE AcceptBid(w)
  <2>. DEFINE with == WithBid(work[w], req[w], startedAt[w])
              new == Extended(with, with.bid)
  <2>1. /\ work[w] \in Work /\ req[w] \in Requests /\ startedAt[w] \in Time
        /\ now \in Nat
    BY <1>10 DEF AcceptBid, TypeInv, WorkersAreEquipped, BidTypeOK, StoreTypeOK, Time
  <2>2. /\ with \in Work /\ with.bid \in Nat
        /\ Len(with.bids) = Len(work[w].bids) + 1 /\ with.iterations = work[w].iterations
    BY <2>1, WithBidProperties DEF Work
  <2>3. Len(new.bids) = Len(work[w].bids) + 1 /\ new.iterations = work[w].iterations
    BY <2>1, <2>2, ExtendedType
  <2>4. work[w].bids = bids[req[w].lot] /\ work[w].iterations = 0
    BY <1>0, <1>10 DEF AcceptBid, WorkIsProtected, WorkOn
  <2>5. work' = [work EXCEPT ![w] = new]
    BY <1>10 DEF AcceptBid
  <2>6. /\ pc[w] = "validate" /\ pc' = [pc EXCEPT ![w] = "resolve"]
        /\ UNCHANGED <<storeVars, keyVars, req>>
    BY <1>10 DEF AcceptBid
  <2>7. Len(bids[req[w].lot]) \in Nat
    BY <2>1, <2>4, LenProperties DEF Work
  <2>. HIDE DEF new
  <2>8. WorkIsProtected(w)'
    BY <1>0, <2>3, <2>4, <2>5, <2>6, <2>7 DEF WorkIsProtected, storeVars, keyVars
  <2>. QED
    BY <1>0, <2>5, <2>6, <2>8, OthersStayProtected DEF storeVars, keyVars
<1>11. CASE ProxyCounters(w)
  <2>1. PICK p \in Counters(work[w]) :
               work' = [work EXCEPT ![w] =
                 LET i == Len(work[w].bids) + 1
                     wk == Extended(WithCounter(work[w], p, startedAt[w]), i)
                     event == EventOf("PROXY_RESOLVED", i, wk.lot.currentBid)
                 IN [wk EXCEPT !.events = Append(@, event)]]
    BY <1>11 DEF ProxyCounters
  <2>. DEFINE i == Len(work[w].bids) + 1
              with == WithCounter(work[w], p, startedAt[w])
              wk == Extended(with, i)
              events1 == Append(wk.events, EventOf("PROXY_RESOLVED", i, wk.lot.currentBid))
              new == [wk EXCEPT !.events = events1]
  <2>2. /\ work[w] \in Work /\ startedAt[w] \in Time /\ now \in Nat
        /\ work[w].bids \in Seq(BidRow) /\ work[w].iterations \in Nat
    BY <1>11 DEF TypeInv, WorkersAreEquipped, ProxyCounters, BidTypeOK, StoreTypeOK, Time, Work
  <2>3. p \in DOMAIN work[w].bids /\ i \in Nat
    BY <2>2, LenProperties DEF Counters, BestProxies, Competing
  <2>4. with \in Work /\ Len(with.bids) = i /\ with.iterations = work[w].iterations + 1
    BY <2>2, <2>3, WithCounterProperties
  <2>5. wk \in Work /\ Len(wk.bids) = i /\ wk.iterations = work[w].iterations + 1
    BY <2>2, <2>3, <2>4, ExtendedType
  <2>6. work' = [work EXCEPT ![w] = new]
    BY <2>1, Zenon
  <2>. HIDE DEF wk, events1
  <2>7. Len(new.bids) = i /\ new.iterations = work[w].iterations + 1
    BY <2>5 DEF Work
  <2>8. Len(work[w].bids) = Len(bids[req[w].lot]) + 1 + work[w].iterations
    BY <1>0, <1>11 DEF WorkIsProtected, ProxyCounters
  <2>9. /\ pc[w] = "resolve" /\ UNCHANGED <<storeVars, keyVars, pc, req>>
    BY <1>11 DEF ProxyCounters
  <2>10. Len(bids[req[w].lot]) \in Nat
    BY <2>9, LenProperties DEF TypeInv, WorkersAreEquipped, BidTypeOK, StoreTypeOK
  <2>. HIDE DEF new
  <2>11. WorkIsProtected(w)'
    BY <1>0, <2>2, <2>6, <2>7, <2>8, <2>9, <2>10 DEF WorkIsProtected, storeVars, keyVars
  <2>. QED
    BY <1>0, <2>6, <2>9, <2>11, OthersStayProtected DEF storeVars, keyVars
<1>12. CASE RecordBid(w)
  <2>. DEFINE events1 == Append(work[w].events,
                                EventOf("BID_ACCEPTED", work[w].bid, req[w].amount))
              new == [work[w] EXCEPT !.events = events1]
  <2>1. work[w] \in Work
    BY <1>12 DEF TypeInv, WorkersAreEquipped, RecordBid
  <2>2. work' = [work EXCEPT ![w] = new]
    BY <1>12, Zenon DEF RecordBid
  <2>. HIDE DEF events1
  <2>3. new.bids = work[w].bids /\ new.iterations = work[w].iterations
    BY <2>1 DEF Work
  <2>4. /\ pc[w] = "resolve" /\ pc' = [pc EXCEPT ![w] = "commit"]
        /\ UNCHANGED <<storeVars, keyVars, req>>
    BY <1>12 DEF RecordBid
  <2>. HIDE DEF new
  <2>5. WorkIsProtected(w)'
    BY <1>0, <2>2, <2>3, <2>4 DEF WorkIsProtected, storeVars, keyVars
  <2>. QED
    BY <1>0, <2>2, <2>4, <2>5, OthersStayProtected DEF storeVars, keyVars
<1>13. CASE Commit(w)
  BY <1>0, <1>13, CommittedLocks DEF Commit
<1>14. CASE Publish(w)
  <2>1. WorkIsProtected(w)'
    BY <1>0, <1>14 DEF Publish, WorkIsProtected, keyVars
  <2>. QED
    BY <1>0, <1>14, <2>1, OthersStayProtected DEF Publish, keyVars
<1>15. CASE ForceUnlock(w)
  <2>1. keyLock' = keyLock
    BY <1>15 DEF ForceUnlock, KeyForcedOpen, keyVars
  <2>2. WorkIsProtected(w)'
    BY <1>0, <1>15, <2>1 DEF ForceUnlock, WorkIsProtected, storeVars
  <2>. QED
    BY <1>0, <1>15, <2>1, <2>2, OthersStayProtected DEF ForceUnlock, storeVars
<1>16. CASE StatementFails(w)
  BY <1>0, <1>16, RolledBackLocks DEF StatementFails
<1>17. CASE CommitUnacknowledged(w)
  BY <1>0, <1>17, CommittedLocks DEF CommitUnacknowledged
<1>. QED
  BY <1>1, <1>2, <1>3, <1>4, <1>5, <1>6, <1>7, <1>8, <1>9, <1>10, <1>11, <1>12,
     <1>13, <1>14, <1>15, <1>16, <1>17 DEF WorkerStep, WorkerFailure

(* At the start nobody holds anything.                                     *)
LEMMA LocksInit == BidInit => LocksProtectTheWork
<1>. SUFFICES ASSUME BidInit, NEW w \in Workers PROVE WorkIsProtected(w)
  BY DEF LocksProtectTheWork
<1>1. pc[w] = "idle" /\ \A v \in Workers : v # Null
  BY BidAssumption, StoreAssumption DEF BidInit
<1>. QED
  BY <1>1 DEF BidInit, StoreInit, KeyInit, WorkIsProtected

(* Every step of BidSpec keeps the rows protected.                         *)
LEMMA LocksKept ==
  TypeInv /\ LocksProtectTheWork /\ [BidNext]_bidVars => LocksProtectTheWork'
<1>. SUFFICES ASSUME TypeInv, LocksProtectTheWork, [BidNext]_bidVars
              PROVE  LocksProtectTheWork'
  OBVIOUS
<1>1. CASE BidStep
  BY <1>1, WorkerStepLocks DEF BidStep
<1>2. CASE ClockTicks /\ UNCHANGED <<keyVars, workerVars>>
  BY <1>2
  DEF LocksProtectTheWork, WorkIsProtected, WorkOn, ClockTicks, keyVars, workerVars
<1>3. CASE UNCHANGED bidVars
  BY <1>3
  DEF LocksProtectTheWork, WorkIsProtected, WorkOn, bidVars, storeVars, keyVars,
      workerVars
<1>. QED
  BY <1>1, <1>2, <1>3 DEF BidNext, AllAnswered

(* The row locks do their work: whatever the interleaving and the failures, *)
(* what a worker read under its locks is what it commits over.             *)
THEOREM BidLocksHold == BidSpec => []LocksProtectTheWork
BY LocksInit, LocksKept, TypeInvHolds, PTL DEF BidSpec
=============================================================================
