--------------------------- MODULE BidBookProofs ---------------------------
(***************************************************************************)
(* Proof that the row of a lot always agrees with its bids: accepting a    *)
(* bid and answering it for proxy bids keep the agreement inside a         *)
(* transaction, and the row locks carry it over to the tables.  Then, that *)
(* the proxy loop leaves no rival proxy bid standing that could answer.    *)
(***************************************************************************)
EXTENDS BidProcessorProofs

-----------------------------------------------------------------------------
(* The agreement inside a transaction.                                     *)

(* A lot and its bids still agree when one more bid leads, provided that   *)
(* no bid but proxy bids and the leader's own stays accepted.              *)
LEMMA BookGrows ==
  ASSUME NEW row \in LotRow, NEW bs \in Seq(BidRow), RowAgreesWithBids(row, bs),
         NEW new \in LotRow, NEW nbs \in Seq(BidRow), NEW b \in BidRow,
         Len(nbs) = Len(bs) + 1,
         /\ new.bidCount = row.bidCount + 1
         /\ new.winner = b.bidder
         /\ new.currentBid = b.amount,
         b.status = "accepted",
         nbs[Len(bs) + 1] = b,
         \A i \in 1..Len(bs) :
           nbs[i].status = "accepted" /\ nbs[i].type # "proxy" =>
             nbs[i].bidder = b.bidder
  PROVE  RowAgreesWithBids(new, nbs)
<1>1. /\ Len(bs) \in Nat /\ DOMAIN nbs = 1 .. Len(bs) + 1 /\ nbs # <<>>
  BY LenProperties
<1>2. b.bidder # Null
  BY StoreAssumption DEF BidRow
<1>3. row.bidCount = Len(bs)
  BY DEF RowAgreesWithBids
<1>4. \A i \in DOMAIN nbs :
        nbs[i].status = "accepted" /\ nbs[i].type # "proxy" => nbs[i].bidder = b.bidder
  <2>. SUFFICES ASSUME NEW i \in DOMAIN nbs,
                       nbs[i].status = "accepted" /\ nbs[i].type # "proxy"
                PROVE  nbs[i].bidder = b.bidder
    OBVIOUS
  <2>1. i \in 1..Len(bs) \/ i = Len(bs) + 1
    BY <1>1
  <2>. QED
    BY <2>1
<1>. QED
  BY <1>1, <1>2, <1>3, <1>4 DEF RowAgreesWithBids

(* An accepted bid takes the lead.                                         *)
LEMMA AcceptedBidAgrees ==
  ASSUME NEW wk \in Work, NEW r \in Requests, NEW placed \in Time,
         RowAgreesWithBids(wk.lot, wk.bids)
  PROVE  LET new == WithBid(wk, r, placed) IN RowAgreesWithBids(new.lot, new.bids)
<1>. DEFINE new == WithBid(wk, r, placed)
            b == BidOf(r, placed)
            inserted == Append(wk.bids, b)
            n == Len(wk.bids)
<1>1. wk.lot \in LotRow /\ wk.bids \in Seq(BidRow) /\ n \in Nat
  BY LenProperties DEF Work
<1>2. /\ b \in BidRow
      /\ b.bidder = r.bidder /\ b.amount = r.amount /\ b.status = "accepted"
  BY BidOfType DEF BidOf
<1>3. /\ inserted \in Seq(BidRow) /\ Len(inserted) = n + 1 /\ inserted[n + 1] = b
      /\ \A i \in 1..n : inserted[i] = wk.bids[i]
  BY <1>1, <1>2, AppendProperties
<1>4. \A i \in 1..n :
        wk.bids[i].status = "accepted" /\ wk.bids[i].type # "proxy" =>
          wk.bids[i].bidder = wk.lot.winner
  BY <1>1, LenProperties DEF RowAgreesWithBids
<1>5. /\ new \in Work /\ new.lot = Led(wk.lot, r.bidder, r.amount)
      /\ new.bids = IF wk.lot.winner \in {Null, r.bidder} THEN inserted
                    ELSE Outbid(inserted, wk.lot.winner)
      /\ Len(new.bids) = n + 1
  BY WithBidProperties
<1>. HIDE DEF new, b, inserted, n
<1>6. /\ new.lot \in LotRow /\ new.bids \in Seq(BidRow)
      /\ new.lot.bidCount = wk.lot.bidCount + 1
      /\ new.lot.winner = b.bidder /\ new.lot.currentBid = b.amount
  <2>1. new.lot \in LotRow /\ new.bids \in Seq(BidRow)
    BY <1>5 DEF Work
  <2>2. r.bidder \in Bidders /\ r.amount \in Nat
    BY RequestType
  <2>3. /\ Led(wk.lot, r.bidder, r.amount).bidCount = wk.lot.bidCount + 1
        /\ Led(wk.lot, r.bidder, r.amount).winner = r.bidder
        /\ Led(wk.lot, r.bidder, r.amount).currentBid = r.amount
    BY <1>1, <2>2, LedType
  <2>. QED
    BY <1>2, <1>5, <2>1, <2>3
<1>7. /\ new.bids[n + 1] = b
      /\ \A i \in 1..n :
           new.bids[i].status = "accepted" /\ new.bids[i].type # "proxy" =>
             new.bids[i].bidder = b.bidder
  <2>1. CASE wk.lot.winner = Null
    <3>1. wk.bids = <<>>
      BY <2>1 DEF RowAgreesWithBids
    <3>2. n = 0
      BY <3>1 DEF n
    <3>. QED
      BY <1>3, <1>5, <2>1, <3>2
  <2>2. CASE wk.lot.winner = r.bidder
    BY <1>2, <1>3, <1>4, <1>5, <2>2
  <2>3. CASE wk.lot.winner \notin {Null, r.bidder}
    <3>1. new.bids = Outbid(inserted, wk.lot.winner)
      BY <1>5, <2>3
    <3>2. new.bids[n + 1] = b
      <4>1. n + 1 \in 1..Len(inserted) /\ b.bidder # wk.lot.winner
        BY <1>1, <1>2, <1>3, <2>3
      <4>2. Outbid(inserted, wk.lot.winner)[n + 1] =
              IF /\ inserted[n + 1].bidder = wk.lot.winner
                 /\ inserted[n + 1].status = "accepted"
                 /\ inserted[n + 1].type # "proxy"
              THEN [inserted[n + 1] EXCEPT !.status = "outbid"]
              ELSE inserted[n + 1]
        BY <1>3, <4>1, OutbidProperties
      <4>. QED
        BY <1>3, <3>1, <4>1, <4>2
    <3>3. ASSUME NEW i \in 1..n
          PROVE  ~(new.bids[i].status = "accepted" /\ new.bids[i].type # "proxy")
      <4>1. i \in 1..Len(inserted) /\ inserted[i] = wk.bids[i]
        BY <1>1, <1>3
      <4>2. new.bids[i] =
              IF /\ wk.bids[i].bidder = wk.lot.winner
                 /\ wk.bids[i].status = "accepted"
                 /\ wk.bids[i].type # "proxy"
              THEN [wk.bids[i] EXCEPT !.status = "outbid"]
              ELSE wk.bids[i]
        BY <1>3, <3>1, <4>1, OutbidProperties
      <4>3. wk.bids[i] \in BidRow
        BY <1>1, ElementOfSeq DEF n
      <4>4. [wk.bids[i] EXCEPT !.status = "outbid"].status = "outbid"
        BY <4>3 DEF BidRow
      <4>. QED
        BY <1>4, <4>2, <4>4
    <3>. QED
      BY <3>2, <3>3
  <2>. QED
    BY <2>1, <2>2, <2>3
<1>. QED
  BY <1>1, <1>2, <1>5, <1>6, <1>7, BookGrows DEF new, n

(* So does a bid entered for a competing proxy bid.                        *)
LEMMA CounterBidAgrees ==
  ASSUME NEW wk \in Work, NEW p \in DOMAIN wk.bids, NEW placed \in Time,
         RowAgreesWithBids(wk.lot, wk.bids)
  PROVE  LET new == WithCounter(wk, p, placed) IN RowAgreesWithBids(new.lot, new.bids)
<1>. DEFINE new == WithCounter(wk, p, placed)
            b == CounterOf(wk, p, placed)
            outbid == Outbid(wk.bids, wk.lot.winner)
            n == Len(wk.bids)
<1>1. /\ wk.lot \in LotRow /\ wk.bids \in Seq(BidRow) /\ n \in Nat
      /\ DOMAIN wk.bids = 1..n
  BY LenProperties DEF Work
<1>2. b \in BidRow /\ b.status = "accepted"
  BY CounterOfType DEF CounterOf
<1>3. /\ outbid \in Seq(BidRow) /\ Len(outbid) = n
      /\ \A i \in 1..n :
           outbid[i] =
             IF /\ wk.bids[i].bidder = wk.lot.winner
                /\ wk.bids[i].status = "accepted"
                /\ wk.bids[i].type # "proxy"
             THEN [wk.bids[i] EXCEPT !.status = "outbid"]
             ELSE wk.bids[i]
  BY <1>1, OutbidProperties
<1>4. /\ new \in Work
      /\ new.lot = Led(wk.lot, wk.bids[p].bidder, GetMinimumNextBid(wk.lot.currentBid))
      /\ new.bids = Append(outbid, b)
      /\ Len(new.bids) = n + 1
  BY WithCounterProperties
<1>5. /\ wk.bids[p].bidder = b.bidder /\ wk.bids[p].bidder \in Bidders
      /\ GetMinimumNextBid(wk.lot.currentBid) = b.amount /\ b.amount \in Nat
  BY <1>2 DEF CounterOf, BidRow
<1>. HIDE DEF new, b, outbid, n
<1>6. /\ new.lot \in LotRow /\ new.bids \in Seq(BidRow)
      /\ new.lot.bidCount = wk.lot.bidCount + 1
      /\ new.lot.winner = b.bidder /\ new.lot.currentBid = b.amount
  <2>1. new.lot \in LotRow /\ new.bids \in Seq(BidRow)
    BY <1>4 DEF Work
  <2>. DEFINE row == Led(wk.lot, wk.bids[p].bidder, GetMinimumNextBid(wk.lot.currentBid))
  <2>2. /\ row.bidCount = wk.lot.bidCount + 1
        /\ row.winner = wk.bids[p].bidder
        /\ row.currentBid = GetMinimumNextBid(wk.lot.currentBid)
    <3>1. \A bidder \in Bidders, amount \in Nat :
            LET led == Led(wk.lot, bidder, amount) IN
            /\ led.bidCount = wk.lot.bidCount + 1
            /\ led.winner = bidder
            /\ led.currentBid = amount
      BY <1>1, LedType
    <3>2. wk.bids[p].bidder \in Bidders /\ GetMinimumNextBid(wk.lot.currentBid) \in Nat
      BY <1>5
    <3>. QED
      BY <3>1, <3>2, Zenon
  <2>. HIDE DEF row
  <2>3. new.lot = row
    BY <1>4 DEF row
  <2>. QED
    BY <1>5, <2>1, <2>2, <2>3
<1>7. /\ new.bids[n + 1] = b
      /\ \A i \in 1..n : new.bids[i] = outbid[i]
  BY <1>2, <1>3, <1>4, AppendProperties
<1>8. ASSUME NEW i \in 1..n
      PROVE  ~(outbid[i].status = "accepted" /\ outbid[i].type # "proxy")
  <2>1. wk.bids[i] \in BidRow
    BY <1>1, ElementOfSeq DEF n
  <2>2. [wk.bids[i] EXCEPT !.status = "outbid"].status = "outbid"
    BY <2>1 DEF BidRow
  <2>3. wk.bids[i].status = "accepted" /\ wk.bids[i].type # "proxy" =>
          wk.bids[i].bidder = wk.lot.winner
    BY <1>1 DEF RowAgreesWithBids
  <2>. QED
    BY <1>3, <2>2, <2>3
<1>9. \A i \in 1..n :
        new.bids[i].status = "accepted" /\ new.bids[i].type # "proxy" =>
          new.bids[i].bidder = b.bidder
  BY <1>7, <1>8
<1>10. RowAgreesWithBids(new.lot, new.bids)
  <2>1. /\ Len(new.bids) = Len(wk.bids) + 1
        /\ new.bids[Len(wk.bids) + 1] = b
        /\ \A i \in 1..Len(wk.bids) :
             new.bids[i].status = "accepted" /\ new.bids[i].type # "proxy" =>
               new.bids[i].bidder = b.bidder
    BY <1>4, <1>7, <1>9 DEF n
  <2>. HIDE DEF n
  <2>2. wk.lot \in LotRow /\ wk.bids \in Seq(BidRow)
    BY <1>1
  <2>. DEFINE old == wk.lot
              bs == wk.bids
              row == new.lot
              nbs == new.bids
  <2>3. /\ row \in LotRow /\ nbs \in Seq(BidRow) /\ Len(nbs) = Len(bs) + 1
        /\ row.bidCount = old.bidCount + 1
        /\ row.winner = b.bidder /\ row.currentBid = b.amount
        /\ nbs[Len(bs) + 1] = b
        /\ \A i \in 1..Len(bs) :
             nbs[i].status = "accepted" /\ nbs[i].type # "proxy" =>
               nbs[i].bidder = b.bidder
    BY <1>6, <2>1
  <2>4. old \in LotRow /\ bs \in Seq(BidRow) /\ RowAgreesWithBids(old, bs)
    BY <2>2
  <2>. HIDE DEF old, bs, row, nbs
  <2>5. RowAgreesWithBids(row, nbs)
    BY <1>2, <2>3, <2>4, BookGrows
  <2>. QED
    BY <2>5 DEF row, nbs
<1>. QED
  BY <1>10 DEF new

(* An anti-snipe extension changes neither the bids nor what the row says  *)
(* about them.                                                             *)
LEMMA ExtensionAgrees ==
  ASSUME NEW wk \in Work, NEW i \in Nat, now \in Nat,
         RowAgreesWithBids(wk.lot, wk.bids)
  PROVE  LET new == Extended(wk, i) IN RowAgreesWithBids(new.lot, new.bids)
<1>. DEFINE new == Extended(wk, i)
<1>1. /\ new.bids = wk.bids
      /\ new.lot.currentBid = wk.lot.currentBid
      /\ new.lot.winner = wk.lot.winner
      /\ new.lot.bidCount = wk.lot.bidCount
  BY ExtendedType
<1>. HIDE DEF new
<1>2. RowAgreesWithBids(new.lot, new.bids)
  BY <1>1 DEF RowAgreesWithBids
<1>. QED
  BY <1>2 DEF new

-----------------------------------------------------------------------------
(* The agreement in the tables.                                            *)

(* The strengthening that is inductive: a lot agrees with its bids in the  *)
(* tables, and in the version that a worker is about to commit.            *)
WorkAgreesWithBids ==
  \A w \in Workers :
    pc[w] \in {"resolve", "commit"} => RowAgreesWithBids(work[w].lot, work[w].bids)

BookInv == TypeInv /\ LocksProtectTheWork /\ LotAgreesWithBids /\ WorkAgreesWithBids

(* A step that leaves the tables alone and brings no worker in front of    *)
(* its COMMIT keeps the agreement.                                         *)
LEMMA TablesUntouched ==
  ASSUME BookInv, NEW w \in Workers, UNCHANGED <<lot, bids>>,
         \A v \in Workers \ {w} : pc'[v] = pc[v] /\ work'[v] = work[v],
         pc'[w] \in {"resolve", "commit"} => RowAgreesWithBids(work'[w].lot, work'[w].bids)
  PROVE  LotAgreesWithBids' /\ WorkAgreesWithBids'
BY DEF BookInv, LotAgreesWithBids, WorkAgreesWithBids, RowAgreesWithBids

(* COMMIT puts an agreeing version in the place of the lot.                *)
LEMMA TablesCommitted ==
  ASSUME BookInv, NEW w \in Workers, Committed(w), pc[w] = "commit",
         \A v \in Workers \ {w} : pc'[v] = pc[v] /\ work'[v] = work[v],
         pc'[w] \in {"publish", "unlock"}
  PROVE  LotAgreesWithBids' /\ WorkAgreesWithBids'
<1>1. req[w].lot \in Lots /\ RowAgreesWithBids(work[w].lot, work[w].bids)
  BY DEF BookInv, TypeInv, WorkersAreEquipped, WorkAgreesWithBids
<1>2. ASSUME NEW l \in Lots PROVE RowAgreesWithBids(lot'[l], bids'[l])
  <2>1. /\ lot'[l] = IF l = req[w].lot THEN work[w].lot ELSE lot[l]
        /\ bids'[l] = IF l = req[w].lot THEN work[w].bids ELSE bids[l]
    BY DEF Committed, BookInv, TypeInv, BidTypeOK, StoreTypeOK
  <2>. QED
    BY <1>1, <2>1 DEF BookInv, LotAgreesWithBids
<1>. QED
  BY <1>2 DEF LotAgreesWithBids, WorkAgreesWithBids, RowAgreesWithBids, BookInv

(* Every step of a worker keeps the tables and the versions in agreement.  *)
LEMMA WorkerStepBooks ==
  ASSUME BookInv, NEW w \in Workers,
         Begin(w) \/ WorkerStep(w) \/ WorkerFailure(w)
  PROVE  LotAgreesWithBids' /\ WorkAgreesWithBids'
<1>. USE DEF Goes
<1>0. /\ pc \in [Workers -> InTransaction \cup {"idle", "publish", "unlock"}]
      /\ DOMAIN work = Workers
  BY DEF BookInv, TypeInv, BidTypeOK
<1>1. CASE AcceptBid(w)
  <2>. DEFINE with == WithBid(work[w], req[w], startedAt[w])
              new == Extended(with, with.bid)
  <2>1. /\ work[w] \in Work /\ req[w] \in Requests /\ startedAt[w] \in Time
        /\ req[w].lot \in Lots /\ now \in Nat
    BY <1>1 DEF AcceptBid, BookInv, TypeInv, WorkersAreEquipped, BidTypeOK, StoreTypeOK, Time
  <2>2. work[w].lot = lot[req[w].lot] /\ work[w].bids = bids[req[w].lot]
    <3>1. WorkIsProtected(w) /\ pc[w] = "validate"
      BY <1>1 DEF AcceptBid, BookInv, LocksProtectTheWork
    <3>2. work[w] = WorkOn(req[w].lot)
      BY <3>1 DEF WorkIsProtected
    <3>. QED
      BY <3>2 DEF WorkOn
  <2>3. RowAgreesWithBids(work[w].lot, work[w].bids)
    BY <2>1, <2>2 DEF BookInv, LotAgreesWithBids
  <2>4. RowAgreesWithBids(with.lot, with.bids)
    BY <2>1, <2>3, AcceptedBidAgrees
  <2>5. with \in Work /\ with.bid \in Nat
    BY <2>1, WithBidProperties DEF Work
  <2>. HIDE DEF with
  <2>6. RowAgreesWithBids(new.lot, new.bids)
    BY <2>1, <2>4, <2>5, ExtensionAgrees
  <2>7. work' = [work EXCEPT ![w] = new]
    BY <1>1 DEF AcceptBid, with
  <2>8. /\ UNCHANGED <<lot, bids>>
        /\ \A v \in Workers \ {w} : pc'[v] = pc[v] /\ work'[v] = work[v]
        /\ work'[w] = new
    BY <1>0, <1>1, <2>7 DEF AcceptBid, storeVars
  <2>. HIDE DEF new
  <2>. QED
    BY <2>6, <2>8, TablesUntouched
<1>2. CASE ProxyCounters(w)
  <2>1. PICK p \in Counters(work[w]) :
               work' = [work EXCEPT ![w] =
                 LET i == Len(work[w].bids) + 1
                     wk == Extended(WithCounter(work[w], p, startedAt[w]), i)
                     event == EventOf("PROXY_RESOLVED", i, wk.lot.currentBid)
                 IN [wk EXCEPT !.events = Append(@, event)]]
    BY <1>2 DEF ProxyCounters
  <2>. DEFINE i == Len(work[w].bids) + 1
              with == WithCounter(work[w], p, startedAt[w])
              wk == Extended(with, i)
              events1 == Append(wk.events, EventOf("PROXY_RESOLVED", i, wk.lot.currentBid))
              new == [wk EXCEPT !.events = events1]
  <2>2. /\ work[w] \in Work /\ startedAt[w] \in Time /\ now \in Nat
        /\ work[w].bids \in Seq(BidRow)
    BY <1>2
    DEF ProxyCounters, BookInv, TypeInv, WorkersAreEquipped, BidTypeOK, StoreTypeOK, Time,
        Work
  <2>3. p \in DOMAIN work[w].bids /\ i \in Nat
    BY <2>2, LenProperties DEF Counters, BestProxies, Competing
  <2>4. RowAgreesWithBids(work[w].lot, work[w].bids)
    BY <1>2 DEF ProxyCounters, BookInv, WorkAgreesWithBids
  <2>5. with \in Work
    BY <2>2, <2>3, WithCounterProperties
  <2>6. RowAgreesWithBids(with.lot, with.bids)
    BY <2>2, <2>3, <2>4, CounterBidAgrees
  <2>. HIDE DEF with, i
  <2>7. wk \in Work
    BY <2>2, <2>3, <2>5, ExtendedType
  <2>8. RowAgreesWithBids(wk.lot, wk.bids)
    BY <2>2, <2>3, <2>5, <2>6, ExtensionAgrees
  <2>9. work' = [work EXCEPT ![w] = new]
    BY <2>1, Zenon DEF with, i
  <2>. HIDE DEF wk, events1
  <2>10. new.lot = wk.lot /\ new.bids = wk.bids
    BY <2>7 DEF Work
  <2>11. /\ UNCHANGED <<lot, bids>>
         /\ \A v \in Workers \ {w} : pc'[v] = pc[v] /\ work'[v] = work[v]
         /\ work'[w] = new
    BY <1>0, <1>2, <2>9 DEF ProxyCounters, storeVars
  <2>. HIDE DEF new
  <2>. QED
    BY <2>8, <2>10, <2>11, TablesUntouched
<1>3. CASE RecordBid(w)
  <2>. DEFINE events1 == Append(work[w].events,
                                EventOf("BID_ACCEPTED", work[w].bid, req[w].amount))
              new == [work[w] EXCEPT !.events = events1]
  <2>1. work[w] \in Work /\ RowAgreesWithBids(work[w].lot, work[w].bids)
    BY <1>3 DEF BookInv, TypeInv, WorkersAreEquipped, WorkAgreesWithBids, RecordBid
  <2>2. work' = [work EXCEPT ![w] = new]
    BY <1>3, Zenon DEF RecordBid
  <2>. HIDE DEF events1
  <2>3. new.lot = work[w].lot /\ new.bids = work[w].bids
    BY <2>1 DEF Work
  <2>4. /\ UNCHANGED <<lot, bids>>
        /\ \A v \in Workers \ {w} : pc'[v] = pc[v] /\ work'[v] = work[v]
        /\ work'[w] = new
    BY <1>0, <1>3, <2>2 DEF RecordBid, storeVars
  <2>. HIDE DEF new
  <2>. QED
    BY <2>1, <2>3, <2>4, TablesUntouched
<1>4. CASE Commit(w) \/ CommitUnacknowledged(w)
  BY <1>0, <1>4, TablesCommitted DEF Commit, CommitUnacknowledged
<1>5. CASE \/ SelectInFlight(w) \/ Replay(w) \/ LotNotFound(w) \/ RejectBid(w)
           \/ StatementFails(w)
  BY <1>0, <1>5, TablesUntouched
  DEF SelectInFlight, Replay, LotNotFound, RejectBid, StatementFails, RolledBack
<1>6. CASE \/ Begin(w) \/ InsertKey(w) \/ InsertFindsKey(w) \/ SelectCompleted(w)
           \/ ForceUnlock(w)
  BY <1>0, <1>6, TablesUntouched
  DEF Begin, InsertKey, InsertFindsKey, SelectCompleted, ForceUnlock, storeVars
<1>7. CASE LockLot(w) \/ Publish(w)
  BY <1>0, <1>7, TablesUntouched DEF LockLot, Publish
<1>. QED
  BY <1>1, <1>2, <1>3, <1>4, <1>5, <1>6, <1>7 DEF WorkerStep, WorkerFailure

(* A lot that nobody has bid on agrees with its empty book.                *)
LEMMA BooksInit == BidInit => LotAgreesWithBids /\ WorkAgreesWithBids
<1>. SUFFICES ASSUME BidInit PROVE LotAgreesWithBids /\ WorkAgreesWithBids
  OBVIOUS
<1>1. ASSUME NEW l \in Lots PROVE RowAgreesWithBids(lot[l], bids[l])
  <2>1. lot[l] \in FreshLotRow /\ bids[l] = <<>>
    BY StoreAssumption DEF BidInit, StoreInit
  <2>2. lot[l].bidCount = 0 /\ lot[l].winner = Null
    BY <2>1 DEF FreshLotRow
  <2>. QED
    BY <2>1, <2>2 DEF RowAgreesWithBids
<1>. QED
  BY <1>1 DEF BidInit, LotAgreesWithBids, WorkAgreesWithBids

(* Every step of BidSpec keeps the agreement.                              *)
LEMMA BooksKept ==
  BookInv /\ [BidNext]_bidVars => LotAgreesWithBids' /\ WorkAgreesWithBids'
<1>. SUFFICES ASSUME BookInv, [BidNext]_bidVars
              PROVE  LotAgreesWithBids' /\ WorkAgreesWithBids'
  OBVIOUS
<1>1. CASE BidStep
  BY <1>1, WorkerStepBooks DEF BidStep
<1>2. CASE UNCHANGED <<lot, bids, pc, work>>
  BY <1>2 DEF BookInv, LotAgreesWithBids, WorkAgreesWithBids, RowAgreesWithBids
<1>. QED
  BY <1>1, <1>2
  DEF BidNext, AllAnswered, ClockTicks, bidVars, storeVars, workerVars

(* The strengthened agreement holds from the start and is kept.            *)
LEMMA BookInvHolds == BidSpec => []BookInv
BY BooksInit, BooksKept, TypeInvHolds, BidLocksHold, PTL DEF BidSpec, BookInv

(* However many bids, proxy wars, rollbacks and lost acknowledgements have *)
(* happened, and whoever ran at the same time, the row of a lot counts its *)
(* bids and names the bidder and the amount of the last one, and nobody    *)
(* else has a live bid that is still accepted.                             *)
THEOREM BidBookAgrees == BidSpec => []LotAgreesWithBids
<1>1. BookInv => LotAgreesWithBids
  BY DEF BookInv
<1>. QED
  BY <1>1, BookInvHolds, PTL

-----------------------------------------------------------------------------
(* The proxy loop.                                                         *)

(* No standing proxy bid of somebody else can afford the next increment.   *)
NoRival(row, bs) ==
  \A i \in DOMAIN bs :
    bs[i].type = "proxy" /\ bs[i].status = "accepted" /\ bs[i].bidder # row.winner =>
      ~(bs[i].max >= GetMinimumNextBid(row.currentBid))

(* Every proxy bid has a ceiling that some client has asked for.           *)
CeilingsKnown(bs) ==
  \A i \in DOMAIN bs :
    bs[i].type = "proxy" => \E r \in Requests : r.max # Null /\ bs[i].max = r.max

(* A worker after its bid is accepted: only a live bid can be answered, so *)
(* that the last bid is a proxy bid unless the request is live; each round *)
(* has added one counter bid at the end.                                   *)
CountersAtEnd(bs, n) ==
  /\ Len(bs) > n
  /\ \A i \in DOMAIN bs : i > Len(bs) - n => bs[i].type = "auto_increment"

RoundsTold(wk, r) ==
  /\ CeilingsKnown(wk.bids)
  /\ wk.bids[Len(wk.bids)].type # "proxy" => ResolvesProxies(r)
  /\ CountersAtEnd(wk.bids, wk.iterations)

(* A worker in front of its COMMIT: the loop is over.                      *)
LoopOver(wk) ==
  wk.bids[Len(wk.bids)].type # "proxy" =>
    LoopRanToCap(wk.bids) \/ NoRival(wk.lot, wk.bids)

WorkTold(w) ==
  /\ pc[w] \in {"resolve", "commit"} => RoundsTold(work[w], req[w])
  /\ pc[w] = "commit" => LoopOver(work[w])

RivalInv ==
  /\ \A l \in Lots : CeilingsKnown(bids[l])
  /\ \A w \in Workers : WorkTold(w)
  /\ NoRivalProxyLeft

(* The ceilings of a table's proxy bids have an upper bound: of the rows   *)
(* up to which they had none, there would be a first.                      *)
LEMMA CeilingsBounded ==
  ASSUME NEW bs \in Seq(BidRow), CeilingsKnown(bs)
  PROVE  \E top \in Nat : \A i \in DOMAIN bs : bs[i].type = "proxy" => bs[i].max <= top
<1>. DEFINE Bounds(top, n) == \A i \in 1 .. n : bs[i].type = "proxy" => bs[i].max <= top
            S == {n \in 0 .. Len(bs) : ~ \E top \in Nat : Bounds(top, n)}
<1>1. Len(bs) \in Nat /\ DOMAIN bs = 1 .. Len(bs)
  BY LenProperties
<1>2. \A i \in 1 .. Len(bs) : bs[i].type = "proxy" => bs[i].max \in Nat
  <2>1. \A i \in 1 .. Len(bs) : bs[i].type = "proxy" =>
          \E r \in Requests : r.max # Null /\ bs[i].max = r.max
    BY <1>1 DEF CeilingsKnown
  <2>. QED BY <2>1, RequestType
<1>3. CASE S = {}
  <2>1. Len(bs) \in 0 .. Len(bs)
    BY <1>1
  <2>2. PICK top \in Nat : Bounds(top, Len(bs))
    BY <1>3, <2>1
  <2>. QED BY <1>1, <2>2
<1>4. CASE S # {}
  <2>1. S \in SUBSET Nat
    BY <1>1
  <2>2. PICK m \in S : \A n \in S : m <= n
    BY <1>4, <2>1, LeastNatural
  <2>3. m \in 0 .. Len(bs) /\ ~ \E top \in Nat : Bounds(top, m)
    BY <2>2
  <2>4. Bounds(0, 0)
    OBVIOUS
  <2>5. \A n \in 0 .. Len(bs) : n \notin S => \E top \in Nat : Bounds(top, n)
    OBVIOUS
  <2>6. \A top, n : Bounds(top, n) <=> \A i \in 1 .. n : bs[i].type = "proxy" => bs[i].max <= top
    OBVIOUS
  <2>. HIDE DEF S, Bounds
  <2>7. m \in 1 .. Len(bs) /\ m - 1 \in 0 .. Len(bs) /\ m - 1 \notin S
    <3>1. m # 0
      BY <2>3, <2>4
    <3>2. m \in 1 .. Len(bs) /\ m - 1 \in 0 .. Len(bs) /\ ~(m <= m - 1)
      BY <1>1, <2>3, <3>1
    <3>. QED BY <2>2, <3>2
  <2>8. PICK top \in Nat : Bounds(top, m - 1)
    BY <2>5, <2>7
  <2>9. \A i \in 1 .. m : i \in 1 .. Len(bs) /\ (i \in 1 .. m - 1 \/ i = m)
    BY <1>1, <2>7
  <2>10. \A i \in 1 .. m - 1 : bs[i].type = "proxy" => bs[i].max \in Nat /\ bs[i].max <= top
    BY <1>1, <1>2, <2>6, <2>7, <2>8
  <2>11. CASE bs[m].type = "proxy" /\ bs[m].max > top
    <3>1. bs[m].max \in Nat
      BY <1>2, <2>7, <2>11
    <3>2. \A i \in 1 .. m : bs[i].type = "proxy" => bs[i].max <= bs[m].max
      BY <2>9, <2>10, <2>11, <3>1
    <3>. QED BY <2>3, <2>6, <3>1, <3>2
  <2>12. CASE ~(bs[m].type = "proxy" /\ bs[m].max > top)
    <3>1. \A i \in 1 .. m : bs[i].type = "proxy" => bs[i].max <= top
      BY <1>2, <2>7, <2>9, <2>10, <2>12
    <3>. QED BY <2>3, <2>6, <3>1
  <2>. QED BY <2>11, <2>12
<1>. QED BY <1>3, <1>4

(* Of the proxy bids that compete, there is a best one: the highest, and   *)
(* the earliest among the highest.                                         *)
LEMMA BestProxyExists ==
  ASSUME NEW wk \in Work, CeilingsKnown(wk.bids), Competing(wk) # {}
  PROVE  \E b \in BestProxies(wk) : \A i \in Competing(wk) : wk.bids[i].max <= wk.bids[b].max
<1>. DEFINE max(i) == wk.bids[i].max
            placed(i) == wk.bids[i].placedAt
            C == Competing(wk)
<1>0. PICK top \in Nat : \A i \in DOMAIN wk.bids : wk.bids[i].type = "proxy" => max(i) <= top
  <2>1. wk.bids \in Seq(BidRow)
    BY DEF Work
  <2>. QED BY <2>1, CeilingsBounded
<1>1. \A i \in C : max(i) \in Nat /\ max(i) <= top /\ placed(i) \in Nat
  <2>1. wk.bids \in Seq(BidRow) /\ DOMAIN wk.bids = 1..Len(wk.bids)
    BY DEF Work
  <2>2. \A i \in C : wk.bids[i] \in BidRow /\ i \in DOMAIN wk.bids /\ wk.bids[i].type = "proxy"
    BY <2>1, ElementOfSeq DEF Competing
  <2>3. \A i \in C : placed(i) \in Nat
    BY <2>2 DEF BidRow, Time
  <2>4. \A i \in C : \E r \in Requests : r.max # Null /\ max(i) = r.max
    BY <2>2 DEF CeilingsKnown
  <2>5. \A i \in C : max(i) <= top
    BY <1>0, <2>2
  <2>. HIDE DEF C, max
  <2>. QED BY <2>3, <2>4, <2>5, RequestType
<1>. HIDE DEF C, max, placed
<1>2. PICK h \in C : \A i \in C : max(i) <= max(h)
  <2>. DEFINE S == {top - max(i) : i \in C}
  <2>1. S \in SUBSET Nat /\ S # {}
    BY <1>1 DEF C
  <2>2. PICK m \in S : \A k \in S : m <= k
    BY <2>1, LeastNatural
  <2>3. PICK h \in C : m = top - max(h)
    BY <2>2
  <2>4. \A i \in C : top - max(h) <= top - max(i)
    BY <2>2, <2>3
  <2>. QED BY <1>1, <2>4
<1>3. PICK b \in C : max(b) = max(h) /\ \A i \in C : max(i) = max(h) => placed(b) <= placed(i)
  <2>. DEFINE S == {placed(i) : i \in {j \in C : max(j) = max(h)}}
  <2>1. S \in SUBSET Nat /\ S # {}
    BY <1>1
  <2>2. PICK m \in S : \A k \in S : m <= k
    BY <2>1, LeastNatural
  <2>. QED BY <2>2
<1>4. \A i \in C : max(i) < max(b) \/ (max(i) = max(b) /\ placed(b) <= placed(i))
  BY <1>1, <1>2, <1>3
<1>5. b \in BestProxies(wk)
  BY <1>4 DEF BestProxies, C, max, placed
<1>. QED BY <1>2, <1>3, <1>5 DEF C, max

(* Below its cap the loop ends only when no rival is left: the best proxy  *)
(* bid cannot afford the next increment.                                   *)
LEMMA NoRivalAtTheEnd ==
  ASSUME NEW wk \in Work, CeilingsKnown(wk.bids), Counters(wk) = {}
  PROVE  NoRival(wk.lot, wk.bids)
<1>1. /\ wk.lot.currentBid \in Nat
      /\ GetMinimumNextBid(wk.lot.currentBid) \in Nat
      /\ GetMinimumNextBid(wk.lot.currentBid) > wk.lot.currentBid
  <2>1. wk.lot.currentBid \in Nat
    BY DEF Work, LotRow
  <2>. QED BY <2>1, MinimumNextBidHigher, BidAssumption
<1>. SUFFICES ASSUME NEW i \in DOMAIN wk.bids,
                     wk.bids[i].type = "proxy", wk.bids[i].status = "accepted",
                     wk.bids[i].bidder # wk.lot.winner,
                     wk.bids[i].max >= GetMinimumNextBid(wk.lot.currentBid)
              PROVE  FALSE
  BY DEF NoRival
<1>2. wk.bids[i].max \in Nat
  <2>1. PICK r \in Requests : r.max # Null /\ wk.bids[i].max = r.max
    BY DEF CeilingsKnown
  <2>. QED BY <2>1, RequestType
<1>3. wk.bids[i].max > wk.lot.currentBid
  BY <1>1, <1>2
<1>4. i \in Competing(wk)
  BY <1>3 DEF Competing
<1>5. PICK b \in BestProxies(wk) :
             \A j \in Competing(wk) : wk.bids[j].max <= wk.bids[b].max
  BY <1>4, BestProxyExists
<1>6. wk.bids[b].max \in Nat
  <2>1. b \in DOMAIN wk.bids /\ wk.bids[b].type = "proxy"
    BY DEF BestProxies, Competing
  <2>2. PICK r \in Requests : r.max # Null /\ wk.bids[b].max = r.max
    BY <2>1 DEF CeilingsKnown
  <2>. QED BY <2>2, RequestType
<1>7. wk.bids[b].max >= GetMinimumNextBid(wk.lot.currentBid)
  BY <1>1, <1>2, <1>4, <1>5, <1>6
<1>. QED BY <1>7 DEF Counters

(* Marking bids outbid leaves the ceilings as they are.                    *)
LEMMA OutbidCeilings ==
  ASSUME NEW bs \in Seq(BidRow), CeilingsKnown(bs), NEW b
  PROVE  /\ CeilingsKnown(Outbid(bs, b))
         /\ \A i \in 1..Len(bs) : Outbid(bs, b)[i].type = bs[i].type
<1>1. DOMAIN bs = 1..Len(bs) /\ DOMAIN Outbid(bs, b) = 1..Len(bs)
  BY DEF Outbid
<1>2. \A i \in 1..Len(bs) : /\ Outbid(bs, b)[i].type = bs[i].type
                            /\ Outbid(bs, b)[i].max = bs[i].max
  <2>1. \A i \in 1..Len(bs) : bs[i] \in BidRow
    BY ElementOfSeq
  <2>2. ASSUME NEW i \in 1..Len(bs)
        PROVE  Outbid(bs, b)[i].type = bs[i].type /\ Outbid(bs, b)[i].max = bs[i].max
    <3>1. \/ Outbid(bs, b)[i] = bs[i]
          \/ Outbid(bs, b)[i] = [bs[i] EXCEPT !.status = "outbid"]
      BY OutbidProperties
    <3>. QED BY <2>1, <3>1 DEF BidRow
  <2>. QED BY <2>2
<1>. QED BY <1>1, <1>2 DEF CeilingsKnown

(* One more bid has a known ceiling if it is a proxy bid.                  *)
LEMMA AppendCeilings ==
  ASSUME NEW bs \in Seq(BidRow), CeilingsKnown(bs), NEW b \in BidRow,
         b.type = "proxy" => \E r \in Requests : r.max # Null /\ b.max = r.max
  PROVE  /\ CeilingsKnown(Append(bs, b))
         /\ Append(bs, b)[Len(bs) + 1] = b
<1>1. /\ Len(bs) \in Nat /\ DOMAIN bs = 1..Len(bs)
      /\ DOMAIN Append(bs, b) = 1 .. Len(bs) + 1
      /\ Append(bs, b)[Len(bs) + 1] = b
      /\ \A i \in 1..Len(bs) : Append(bs, b)[i] = bs[i]
  BY AppendProperties
<1>2. \A i \in DOMAIN Append(bs, b) : i \in DOMAIN bs \/ i = Len(bs) + 1
  BY <1>1
<1>. QED BY <1>1, <1>2 DEF CeilingsKnown

(* The accepted bid starts the count of the rounds.                        *)
LEMMA AcceptTold ==
  ASSUME NEW wk \in Work, NEW r \in Requests, NEW placed \in Time,
         CeilingsKnown(wk.bids), wk.iterations = 0,
         r.type = "proxy" => r.max # Null
  PROVE  RoundsTold(WithBid(wk, r, placed), r)
<1>. DEFINE new == WithBid(wk, r, placed)
            inserted == Append(wk.bids, BidOf(r, placed))
<1>1. wk.bids \in Seq(BidRow) /\ BidOf(r, placed) \in BidRow /\ Len(wk.bids) + 1 \in Nat
  BY BidOfType, LenProperties DEF Work
<1>2. /\ inserted \in Seq(BidRow) /\ Len(inserted) = Len(wk.bids) + 1
      /\ CeilingsKnown(inserted) /\ inserted[Len(wk.bids) + 1].type = r.type
  BY <1>1, AppendCeilings, AppendProperties DEF BidOf
<1>3. /\ new \in Work /\ new.lot = Led(wk.lot, r.bidder, r.amount)
      /\ new.bids = IF wk.lot.winner \in {Null, r.bidder} THEN inserted
                    ELSE Outbid(inserted, wk.lot.winner)
      /\ Len(new.bids) = Len(wk.bids) + 1
      /\ new.iterations = 0
  BY WithBidProperties
<1>. HIDE DEF new, inserted
<1>4. CeilingsKnown(new.bids) /\ new.bids[Len(new.bids)].type = r.type
  <2>1. Len(wk.bids) + 1 \in 1..Len(inserted)
    BY <1>1, <1>2, LenProperties
  <2>2. /\ CeilingsKnown(Outbid(inserted, wk.lot.winner))
        /\ Outbid(inserted, wk.lot.winner)[Len(wk.bids) + 1].type = r.type
    BY <1>2, <2>1, OutbidCeilings
  <2>. QED BY <1>2, <1>3, <2>2
<1>5. new.bids[Len(new.bids)].type # "proxy" => ResolvesProxies(r)
  BY <1>4, RequestType DEF ResolvesProxies
<1>6. CountersAtEnd(new.bids, new.iterations)
  <2>1. Len(new.bids) \in Nat /\ Len(new.bids) > 0 /\ DOMAIN new.bids = 1 .. Len(new.bids)
    BY <1>1, <1>3, LenProperties DEF Work
  <2>. QED BY <1>3, <2>1 DEF CountersAtEnd
<1>7. RoundsTold(new, r)
  BY <1>4, <1>5, <1>6 DEF RoundsTold
<1>. QED BY <1>7 DEF new

(* Each round adds one more counter bid at the end.                        *)
LEMMA CounterTold ==
  ASSUME NEW wk \in Work, NEW p \in DOMAIN wk.bids, NEW placed \in Time,
         NEW r \in Requests, ResolvesProxies(r), RoundsTold(wk, r)
  PROVE  RoundsTold(WithCounter(wk, p, placed), r)
<1>. DEFINE new == WithCounter(wk, p, placed)
            outbid == Outbid(wk.bids, wk.lot.winner)
            b == CounterOf(wk, p, placed)
            price == wk.lot.currentBid
<1>1. /\ wk.bids \in Seq(BidRow) /\ b \in BidRow /\ wk.iterations \in Nat
      /\ wk.lot \in LotRow /\ price \in Nat /\ wk.bids[p].bidder \in Bidders
      /\ GetMinimumNextBid(price) \in Nat
  <2>1. wk.bids \in Seq(BidRow) /\ wk.lot \in LotRow /\ price \in Nat /\ wk.iterations \in Nat
    BY DEF Work, LotRow
  <2>2. wk.bids[p] \in BidRow
    BY <2>1, ElementOfSeq
  <2>. QED BY <2>1, <2>2, CounterOfType, MinimumNextBidHigher DEF BidRow
<1>2. /\ CeilingsKnown(outbid) /\ outbid \in Seq(BidRow) /\ Len(outbid) = Len(wk.bids)
      /\ \A i \in 1 .. Len(wk.bids) : outbid[i].type = wk.bids[i].type
  BY <1>1, OutbidCeilings, OutbidProperties DEF RoundsTold
<1>3. CeilingsKnown(Append(outbid, b))
  BY <1>1, <1>2, AppendCeilings DEF CounterOf
<1>4. /\ new.lot = Led(wk.lot, wk.bids[p].bidder, GetMinimumNextBid(price))
      /\ new.bids = Append(outbid, b)
      /\ new.iterations = wk.iterations + 1
  BY WithCounterProperties
<1>. HIDE DEF new
<1>5. CountersAtEnd(Append(outbid, b), wk.iterations + 1)
  <2>. DEFINE longer == Append(outbid, b)
              n == Len(wk.bids)
  <2>1. /\ n \in Nat /\ n > wk.iterations /\ DOMAIN wk.bids = 1 .. n
        /\ \A i \in 1 .. n : i > n - wk.iterations => wk.bids[i].type = "auto_increment"
    BY <1>1, LenProperties DEF RoundsTold, CountersAtEnd
  <2>2. /\ Len(longer) = n + 1 /\ DOMAIN longer = 1 .. n + 1 /\ longer[n + 1] = b
        /\ \A i \in 1 .. n : longer[i] = outbid[i]
    BY <1>1, <1>2, AppendProperties
  <2>3. b.type = "auto_increment"
    BY DEF CounterOf
  <2>. HIDE DEF longer, n, b, outbid
  <2>4. \A i \in 1 .. n : i > n - wk.iterations => longer[i].type = "auto_increment"
    BY <1>2, <2>1, <2>2 DEF n
  <2>. QED BY <1>1, <2>1, <2>2, <2>3, <2>4 DEF CountersAtEnd, longer
<1>6. RoundsTold(new, r)
  BY <1>3, <1>4, <1>5 DEF RoundsTold
<1>. QED BY <1>6 DEF new

(* The extension of a deadline and an event touch nothing of this.         *)
LEMMA SameRounds ==
  ASSUME NEW old, NEW new, NEW r, RoundsTold(old, r),
         new.bids = old.bids, new.iterations = old.iterations
  PROVE  RoundsTold(new, r)
BY DEF RoundsTold

(* A step that leaves the tables alone.                                    *)
LEMMA RivalsUntouched ==
  ASSUME RivalInv, NEW w \in Workers, UNCHANGED <<lot, bids>>,
         \A v \in Workers \ {w} : pc'[v] = pc[v] /\ work'[v] = work[v] /\ req'[v] = req[v],
         WorkTold(w)'
  PROVE  RivalInv'
<1>1. \A v \in Workers : WorkTold(v)'
  <2>1. ASSUME NEW v \in Workers, v # w PROVE WorkTold(v)'
    <3>1. pc'[v] = pc[v] /\ work'[v] = work[v] /\ req'[v] = req[v] /\ WorkTold(v)
      BY <2>1 DEF RivalInv
    <3>. QED BY <3>1 DEF WorkTold
  <2>. QED BY <2>1
<1>. QED BY <1>1 DEF RivalInv, NoRivalProxyLeft

(* COMMIT publishes a version whose loop is over.                          *)
LEMMA RivalsCommitted ==
  ASSUME BookInv, RivalInv, NEW w \in Workers, Committed(w), pc[w] = "commit",
         \A v \in Workers \ {w} : pc'[v] = pc[v] /\ work'[v] = work[v] /\ req'[v] = req[v],
         pc'[w] \in {"publish", "unlock"}
  PROVE  RivalInv'
<1>1. req[w].lot \in Lots /\ CeilingsKnown(work[w].bids) /\ LoopOver(work[w])
  BY DEF BookInv, TypeInv, WorkersAreEquipped, RivalInv, WorkTold, RoundsTold
<1>2. \A l \in Lots : /\ lot'[l] = IF l = req[w].lot THEN work[w].lot ELSE lot[l]
                      /\ bids'[l] = IF l = req[w].lot THEN work[w].bids ELSE bids[l]
  BY DEF Committed, BookInv, TypeInv, BidTypeOK, StoreTypeOK
<1>3. \A l \in Lots : CeilingsKnown(bids'[l])
  BY <1>1, <1>2 DEF RivalInv
<1>4. ASSUME NEW l \in Lots, bids'[l][Len(bids'[l])].type # "proxy", bids'[l] # <<>>
      PROVE  LoopRanToCap(bids'[l]) \/ NoRival(lot'[l], bids'[l])
  BY <1>1, <1>2, <1>4, SMTT(30) DEF LoopOver, RivalInv, NoRivalProxyLeft, NoRival
<1>5. \A v \in Workers : WorkTold(v)'
  <2>1. ASSUME NEW v \in Workers, v # w PROVE WorkTold(v)'
    <3>1. pc'[v] = pc[v] /\ work'[v] = work[v] /\ req'[v] = req[v] /\ WorkTold(v)
      BY <2>1 DEF RivalInv
    <3>. QED BY <3>1 DEF WorkTold
  <2>. QED BY <2>1 DEF WorkTold
<1>. QED BY <1>3, <1>4, <1>5 DEF RivalInv, NoRivalProxyLeft, NoRival

(* Every step of a worker.                                                 *)
LEMMA WorkerStepRivals ==
  ASSUME BookInv, RivalInv,
         NEW w \in Workers, Begin(w) \/ WorkerStep(w) \/ WorkerFailure(w)
  PROVE  RivalInv'
<1>. USE DEF Goes
<1>0. /\ pc \in [Workers -> InTransaction \cup {"idle", "publish", "unlock"}]
      /\ DOMAIN work = Workers /\ DOMAIN req = Workers
  BY DEF BookInv, TypeInv, BidTypeOK
<1>1. CASE AcceptBid(w)
  <2>. DEFINE with == WithBid(work[w], req[w], startedAt[w])
              new == Extended(with, with.bid)
  <2>1. /\ work[w] \in Work /\ req[w] \in Requests /\ startedAt[w] \in Time
        /\ req[w].lot \in Lots /\ now \in Nat
    BY <1>1 DEF AcceptBid, BookInv, TypeInv, WorkersAreEquipped, BidTypeOK, StoreTypeOK, Time
  <2>2. work[w].bids = bids[req[w].lot] /\ work[w].iterations = 0
    <3>1. WorkIsProtected(w) /\ pc[w] = "validate"
      BY <1>1 DEF AcceptBid, BookInv, LocksProtectTheWork
    <3>2. work[w] = WorkOn(req[w].lot)
      BY <3>1 DEF WorkIsProtected
    <3>. QED
      BY <3>2 DEF WorkOn
  <2>3. CeilingsKnown(work[w].bids)
    BY <2>1, <2>2 DEF RivalInv
  <2>4. req[w].type = "proxy" => req[w].max # Null
    BY <1>1 DEF AcceptBid, Rejection
  <2>5. RoundsTold(with, req[w])
    BY <2>1, <2>2, <2>3, <2>4, AcceptTold
  <2>6. with \in Work /\ with.bid \in Nat
    BY <2>1, WithBidProperties DEF Work
  <2>. HIDE DEF with
  <2>7. /\ new.bids = with.bids /\ new.iterations = with.iterations
        /\ new.lot.currentBid = with.lot.currentBid
    BY <2>1, <2>6, ExtendedType
  <2>. HIDE DEF new
  <2>8. RoundsTold(new, req[w])
    BY <2>5, <2>7, SameRounds
  <2>9. work' = [work EXCEPT ![w] = new]
    BY <1>1 DEF AcceptBid, with, new
  <2>10. /\ UNCHANGED <<lot, bids>>
         /\ \A v \in Workers \ {w} : pc'[v] = pc[v] /\ work'[v] = work[v] /\ req'[v] = req[v]
         /\ work'[w] = new /\ req'[w] = req[w] /\ pc'[w] = "resolve"
    BY <1>0, <1>1, <2>9 DEF AcceptBid, storeVars
  <2>11. WorkTold(w)'
    BY <2>8, <2>10 DEF WorkTold
  <2>. QED
    BY <2>10, <2>11, RivalsUntouched
<1>2. CASE ProxyCounters(w)
  <2>1. PICK p \in Counters(work[w]) :
               work' = [work EXCEPT ![w] =
                 LET i == Len(work[w].bids) + 1
                     wk == Extended(WithCounter(work[w], p, startedAt[w]), i)
                     event == EventOf("PROXY_RESOLVED", i, wk.lot.currentBid)
                 IN [wk EXCEPT !.events = Append(@, event)]]
    BY <1>2 DEF ProxyCounters
  <2>. DEFINE i == Len(work[w].bids) + 1
              with == WithCounter(work[w], p, startedAt[w])
              wk == Extended(with, i)
              events1 == Append(wk.events, EventOf("PROXY_RESOLVED", i, wk.lot.currentBid))
              new == [wk EXCEPT !.events = events1]
  <2>2. /\ work[w] \in Work /\ startedAt[w] \in Time /\ now \in Nat /\ req[w] \in Requests
        /\ work[w].bids \in Seq(BidRow)
    BY <1>2
    DEF ProxyCounters, BookInv, TypeInv, WorkersAreEquipped, BidTypeOK, StoreTypeOK, Time,
        Work
  <2>3. p \in DOMAIN work[w].bids /\ i \in Nat
    BY <2>2, LenProperties DEF Counters, BestProxies, Competing
  <2>4. RoundsTold(work[w], req[w]) /\ ResolvesProxies(req[w])
    BY <1>2 DEF ProxyCounters, RivalInv, WorkTold
  <2>5. with \in Work
    BY <2>2, <2>3, WithCounterProperties
  <2>6. RoundsTold(with, req[w])
    BY <2>2, <2>3, <2>4, CounterTold
  <2>. HIDE DEF with, i
  <2>7. /\ wk \in Work /\ wk.bids = with.bids /\ wk.iterations = with.iterations
        /\ wk.lot.currentBid = with.lot.currentBid
    BY <2>2, <2>3, <2>5, ExtendedType
  <2>8. work' = [work EXCEPT ![w] = new]
    BY <2>1, Zenon DEF with, i
  <2>. HIDE DEF wk, events1
  <2>9. new.lot = wk.lot /\ new.bids = wk.bids /\ new.iterations = wk.iterations
    BY <2>7 DEF Work
  <2>. HIDE DEF new
  <2>10. RoundsTold(new, req[w])
    BY <2>6, <2>7, <2>9, SameRounds
  <2>11. /\ UNCHANGED <<lot, bids>>
         /\ \A v \in Workers \ {w} : pc'[v] = pc[v] /\ work'[v] = work[v] /\ req'[v] = req[v]
         /\ work'[w] = new /\ req'[w] = req[w] /\ pc'[w] = "resolve"
    BY <1>0, <1>2, <2>8 DEF ProxyCounters, storeVars
  <2>12. WorkTold(w)'
    BY <2>10, <2>11 DEF WorkTold
  <2>. QED
    BY <2>11, <2>12, RivalsUntouched
<1>3. CASE RecordBid(w)
  <2>. DEFINE events1 == Append(work[w].events,
                                EventOf("BID_ACCEPTED", work[w].bid, req[w].amount))
              new == [work[w] EXCEPT !.events = events1]
  <2>1. work[w] \in Work /\ RoundsTold(work[w], req[w])
    BY <1>3 DEF BookInv, TypeInv, WorkersAreEquipped, RivalInv, WorkTold, RecordBid
  <2>2. LoopOver(work[w])
    <3>. SUFFICES ASSUME work[w].bids[Len(work[w].bids)].type # "proxy"
                  PROVE  LoopRanToCap(work[w].bids) \/ NoRival(work[w].lot, work[w].bids)
      BY DEF LoopOver
    <3>1. work[w].iterations = MaxProxyIterations \/ Counters(work[w]) = {}
      BY <1>3, <2>1 DEF RecordBid, RoundsTold
    <3>. QED BY <2>1, <3>1, NoRivalAtTheEnd DEF RoundsTold, CountersAtEnd, LoopRanToCap
  <2>3. work' = [work EXCEPT ![w] = new]
    BY <1>3, Zenon DEF RecordBid
  <2>. HIDE DEF events1
  <2>4. new.lot = work[w].lot /\ new.bids = work[w].bids /\ new.iterations = work[w].iterations
    BY <2>1 DEF Work
  <2>5. /\ UNCHANGED <<lot, bids>>
        /\ \A v \in Workers \ {w} : pc'[v] = pc[v] /\ work'[v] = work[v] /\ req'[v] = req[v]
        /\ work'[w] = new /\ req'[w] = req[w]
    BY <1>0, <1>3, <2>3 DEF RecordBid, storeVars
  <2>. HIDE DEF new
  <2>6. RoundsTold(new, req[w]) /\ LoopOver(new)
    BY <2>1, <2>2, <2>4, SameRounds DEF LoopOver
  <2>7. WorkTold(w)'
    BY <2>5, <2>6 DEF WorkTold
  <2>. QED
    BY <2>5, <2>7, RivalsUntouched
<1>4. CASE Commit(w) \/ CommitUnacknowledged(w)
  BY <1>0, <1>4, RivalsCommitted DEF Commit, CommitUnacknowledged
<1>5. ASSUME UNCHANGED <<lot, bids>>, pc'[w] \notin {"resolve", "commit"},
             \A v \in Workers \ {w} : pc'[v] = pc[v] /\ work'[v] = work[v] /\ req'[v] = req[v]
      PROVE  RivalInv'
  <2>1. WorkTold(w)'
    BY <1>5 DEF WorkTold
  <2>. QED BY <1>5, <2>1, RivalsUntouched
<1>6. CASE \/ SelectInFlight(w) \/ Replay(w) \/ LotNotFound(w) \/ RejectBid(w)
           \/ StatementFails(w)
  BY <1>0, <1>5, <1>6
  DEF SelectInFlight, Replay, LotNotFound, RejectBid, StatementFails, RolledBack
<1>7. CASE \/ Begin(w) \/ InsertKey(w) \/ InsertFindsKey(w) \/ SelectCompleted(w)
           \/ ForceUnlock(w)
  BY <1>0, <1>5, <1>7
  DEF Begin, InsertKey, InsertFindsKey, SelectCompleted, ForceUnlock, storeVars
<1>8. CASE LockLot(w) \/ Publish(w)
  BY <1>0, <1>5, <1>8 DEF LockLot, Publish
<1>. QED
  BY <1>1, <1>2, <1>3, <1>4, <1>6, <1>7, <1>8 DEF WorkerStep, WorkerFailure

(* A step that touches neither bids nor workers, nor the price or winner   *)
(* of a lot, makes no rival.                                               *)
LEMMA RivalsUndisturbed ==
  ASSUME RivalInv, UNCHANGED <<bids, pc, work, req>>,
         \A l \in Lots : /\ lot'[l].winner = lot[l].winner
                         /\ lot'[l].currentBid = lot[l].currentBid
  PROVE  RivalInv'
<1>1. \A l \in Lots : CeilingsKnown(bids'[l])
  BY DEF RivalInv
<1>2. \A w \in Workers : WorkTold(w)'
  BY DEF RivalInv, WorkTold
<1>3. NoRivalProxyLeft'
  BY DEF RivalInv, NoRivalProxyLeft
<1>. QED
  BY <1>1, <1>2, <1>3 DEF RivalInv, CeilingsKnown

(* Initially there are no bids.                                            *)
LEMMA RivalsInit ==
  ASSUME BidInit
  PROVE  RivalInv
<1>1. \A l \in Lots : bids[l] = <<>>
  BY DEF BidInit, StoreInit
<1>. QED BY <1>1 DEF BidInit, RivalInv, CeilingsKnown, WorkTold, NoRivalProxyLeft

(* However many proxy bids meet, with whatever ceilings and in whatever    *)
(* order, once a live bid is dealt with none of them could still afford    *)
(* the next increment unless the loop has made all its rounds: for any     *)
(* increment table and any cap, whatever fails and whoever else bids.      *)
THEOREM LiveBidsAreCountered == BidSpec => []NoRivalProxyLeft
<1>1. BidInit => RivalInv
  BY RivalsInit
<1>2. BookInv /\ RivalInv /\ [BidNext]_bidVars => RivalInv'
  <2>. SUFFICES ASSUME BookInv, RivalInv, [BidNext]_bidVars PROVE RivalInv'
    OBVIOUS
  <2>1. CASE BidStep
    BY <2>1, WorkerStepRivals DEF BidStep
  <2>2. CASE UNCHANGED <<lot, bids, pc, work, req>>
    BY <2>2, RivalsUndisturbed
  <2>. QED
    BY <2>1, <2>2 DEF BidNext, AllAnswered, ClockTicks, bidVars, storeVars, workerVars
<1>3. RivalInv => NoRivalProxyLeft
  BY DEF RivalInv
<1>. QED
  BY <1>1, <1>2, <1>3, BookInvHolds, PTL DEF BidSpec
=============================================================================
