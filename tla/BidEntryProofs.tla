--------------------------- MODULE BidEntryProofs ---------------------------
(***************************************************************************)
(* Proofs about what a transaction of the bid processor adds to the table  *)
(* bids: entries that climb, one of them for the request, the others for   *)
(* proxy bids.  From this follow the promises about idempotency keys, the  *)
(* published messages and the ledger.                                      *)
(***************************************************************************)
EXTENDS BidBookProofs, FiniteSetTheorems

-----------------------------------------------------------------------------
(* The entries of a transaction.                                           *)

(* What never changes in a row of bids.                                    *)
SameEntry(b, c) == b.key = c.key /\ b.bidder = c.bidder /\ b.amount = c.amount

Biddable == {"open", "closing"}

(* wk is the version of a lot, with committed row row and bids bs, of a    *)
(* transaction that has entered the bid of r.                              *)
Continues(wk, r, row, bs) ==
  LET n == Len(bs)
      m == Len(wk.bids)
  IN /\ row.status \in Biddable /\ wk.lot.status \in {row.status, "open"}
     /\ wk.bid = n + 1 /\ m >= n + 1
     /\ \A i \in 1..n : SameEntry(wk.bids[i], bs[i])
     /\ wk.bids[n + 1].key = r.key
     /\ wk.bids[n + 1].bidder = r.bidder
     /\ wk.bids[n + 1].amount = r.amount
     /\ \A i \in n + 2 .. m : wk.bids[i].key = Null
     /\ \A i \in n + 1 .. m :
          wk.bids[i].amount >=
            GetMinimumNextBid(IF i = 1 THEN row.currentBid ELSE wk.bids[i - 1].amount)

WorkContinues ==
  \A w \in Workers :
    pc[w] \in {"resolve", "commit"} =>
      Continues(work[w], req[w], lot[req[w].lot], bids[req[w].lot])

(* Nobody else can store a key that a worker has inserted.                 *)
KeysInHand ==
  \A w \in Workers :
    pc[w] \in {"lockLot", "validate", "resolve", "commit"} =>
      keyRow[KeyOf(req[w])] = Null

EntryInv == BookInv /\ WorkContinues /\ KeysInHand

(* The bids of a key, as pairs of a lot and a position.                    *)
Entered(k) ==
  UNION {{l} \X {i \in DOMAIN bids[l] : <<bids[l][i].key, bids[l][i].bidder>> = k} :
           l \in Lots}

(* A stored response names one of the bids of its key.                     *)
KeysTellOfBids ==
  \A k \in KeyIds :
    keyRow[k] # Null =>
      \E l \in Lots : <<l, keyRow[k].response.bid>> \in Entered(k)

(* A worker that is about to publish has stored its result.                *)
ResultsAreStored ==
  \A w \in Workers :
    pc[w] = "publish" =>
      /\ keyRow[KeyOf(req[w])] # Null
      /\ keyRow[KeyOf(req[w])].response = ResultOf(w)

AnswersAreStored ==
  \A w \in Workers :
    reply[w] # Null /\ reply[w].code \in {"accepted", "replayed"} =>
      /\ keyRow[KeyOf(req[w])] # Null
      /\ keyRow[KeyOf(req[w])].response = reply[w].response
      /\ req[w] \in Requests

(* What a worker is about to publish is in the tables.                     *)
NewsIsCommitted ==
  \A w \in Workers :
    pc[w] = "publish" =>
      LET book == bids[req[w].lot]
          row == work[w].lot
      IN row.bidCount \in DOMAIN book /\ book[row.bidCount].amount = row.currentBid

-----------------------------------------------------------------------------
(* The operators.                                                          *)

(* Marking bids outbid changes neither whose they are nor their amounts.   *)
LEMMA OutbidKeepsEntries ==
  ASSUME NEW bs \in Seq(BidRow), NEW b, NEW i \in 1..Len(bs)
  PROVE  SameEntry(Outbid(bs, b)[i], bs[i])
<1>1. bs[i] \in BidRow
  BY ElementOfSeq
<1>2. SameEntry([bs[i] EXCEPT !.status = "outbid"], bs[i])
  <2>1. \A x \in BidRow : SameEntry([x EXCEPT !.status = "outbid"], x)
    BY DEF BidRow, SameEntry
  <2>. QED
    BY <1>1, <2>1
<1>3. SameEntry(bs[i], bs[i])
  BY DEF SameEntry
<1>4. Outbid(bs, b)[i] =
        IF bs[i].bidder = b /\ bs[i].status = "accepted" /\ bs[i].type # "proxy"
        THEN [bs[i] EXCEPT !.status = "outbid"]
        ELSE bs[i]
  BY OutbidProperties
<1>. QED
  BY <1>2, <1>3, <1>4

(* A bid is accepted only on a lot that takes bids, and only if it is at   *)
(* least the minimum next bid.                                             *)
LEMMA AcceptedOnMerit ==
  ASSUME NEW r, NEW row, Rejection(r, row) = "none"
  PROVE  row.status \in Biddable /\ r.amount >= GetMinimumNextBid(row.currentBid)
BY DEF Rejection, Biddable, IsValidBidAmount

(* The UPDATE for a new leading bid leaves the status alone.               *)
LEMMA LedStatus ==
  ASSUME NEW row \in LotRow, NEW bidder \in Bidders, NEW amount \in Nat
  PROVE  Led(row, bidder, amount).status = row.status
<1>. DEFINE r1 == [row EXCEPT !.currentBid = amount]
            r2 == [r1 EXCEPT !.winner = bidder]
            r3 == [r2 EXCEPT !.bidCount = @ + 1]
<1>1. r1 \in LotRow /\ r1.status = row.status
  BY DEF LotRow
<1>2. r2 \in LotRow /\ r2.status = row.status
  <2>. HIDE DEF r1
  <2>. QED  BY <1>1 DEF LotRow
<1>3. Led(row, bidder, amount) = r3
  BY DEF Led, LotRow
<1>. HIDE DEF r2
<1>. QED
  BY <1>2, <1>3 DEF LotRow

(* An extension opens a lot or leaves its status alone.                    *)
LEMMA ExtensionStatus ==
  ASSUME NEW wk \in Work, NEW i \in Nat
  PROVE  Extended(wk, i).lot.status \in {wk.lot.status, "open"}
<1>. DEFINE closing == wk.lot.closingAt
            deadline == closing + AntiSnipeExtension
            short == closing # Null /\ closing - now < AntiSnipeWindow /\ closing > now
            trail == Append(wk.events, EventOf("ANTI_SNIPE_TRIGGERED", i, deadline))
            row == [[wk.lot EXCEPT !.closingAt = deadline] EXCEPT !.status = "open"]
<1>1. CASE ~short
  BY <1>1 DEF Extended
<1>2. CASE short
  <2>1. Extended(wk, i) = [wk EXCEPT !.lot = row, !.events = trail, !.extended = TRUE]
    BY <1>2 DEF Extended, Work, LotRow
  <2>2. row.status = "open"
    BY DEF Work, LotRow
  <2>. HIDE DEF row, trail
  <2>3. Extended(wk, i).lot = row
    BY <2>1 DEF Work
  <2>. QED
    BY <2>2, <2>3
<1>. QED
  BY <1>1, <1>2

(* The bid of a request continues the book it was checked against.         *)
LEMMA AcceptContinues ==
  ASSUME NEW wk \in Work, NEW r \in Requests, NEW placed \in Time,
         RowAgreesWithBids(wk.lot, wk.bids), Rejection(r, wk.lot) = "none"
  PROVE  Continues(WithBid(wk, r, placed), r, wk.lot, wk.bids)
<1>. DEFINE new == WithBid(wk, r, placed)
            b == BidOf(r, placed)
            inserted == Append(wk.bids, b)
            n == Len(wk.bids)
<1>1. wk.lot \in LotRow /\ wk.bids \in Seq(BidRow) /\ n \in Nat
  BY LenProperties DEF Work
<1>2. /\ b \in BidRow
      /\ b.key = r.key /\ b.bidder = r.bidder /\ b.amount = r.amount
  BY BidOfType DEF BidOf
<1>3. /\ inserted \in Seq(BidRow) /\ Len(inserted) = n + 1 /\ inserted[n + 1] = b
      /\ \A i \in 1..n : inserted[i] = wk.bids[i]
  BY <1>1, <1>2, AppendProperties
<1>4. /\ new.lot = Led(wk.lot, r.bidder, r.amount)
      /\ new.bids = IF wk.lot.winner \in {Null, r.bidder} THEN inserted
                    ELSE Outbid(inserted, wk.lot.winner)
      /\ Len(new.bids) = n + 1 /\ new.bid = n + 1
  BY WithBidProperties
<1>5. /\ wk.lot.status \in Biddable
      /\ r.amount >= GetMinimumNextBid(wk.lot.currentBid)
  BY AcceptedOnMerit
<1>6. new.lot.status = wk.lot.status
  BY <1>1, <1>4, RequestType, LedStatus
<1>. HIDE DEF new, b, inserted, n
<1>7. \A i \in 1 .. n + 1 : SameEntry(new.bids[i], inserted[i])
  BY <1>3, <1>4, OutbidKeepsEntries DEF SameEntry
<1>8. \A i \in 1..n : SameEntry(new.bids[i], wk.bids[i])
  BY <1>1, <1>3, <1>7
<1>9. /\ new.bids[n + 1].key = r.key
      /\ new.bids[n + 1].bidder = r.bidder
      /\ new.bids[n + 1].amount = r.amount
  BY <1>1, <1>2, <1>3, <1>7 DEF SameEntry
<1>10. new.bids[n + 1].amount >=
         GetMinimumNextBid(IF n + 1 = 1 THEN wk.lot.currentBid ELSE new.bids[n].amount)
  <2>1. CASE n = 0
    BY <1>5, <1>9, <2>1
  <2>2. CASE n # 0
    <3>1. n \in 1..n /\ wk.bids # <<>>
      BY <1>1, <2>2, EmptySeq DEF n
    <3>2. wk.bids[n].amount = wk.lot.currentBid
      BY <3>1 DEF RowAgreesWithBids, n
    <3>. QED
      BY <1>1, <1>5, <1>8, <1>9, <2>2, <3>1, <3>2 DEF SameEntry
  <2>. QED
    BY <2>1, <2>2
<1>11. \A i \in n + 1 .. n + 1 :
         new.bids[i].amount >=
           GetMinimumNextBid(IF i = 1 THEN wk.lot.currentBid ELSE new.bids[i - 1].amount)
  <2>1. \A i \in n + 1 .. n + 1 : i = n + 1 /\ i - 1 = n
    BY <1>1
  <2>. QED
    BY <1>1, <1>10, <2>1
<1>. QED
  BY <1>1, <1>4, <1>5, <1>6, <1>8, <1>9, <1>11 DEF Continues, n, new

(* A bid for a proxy bid continues it further.                             *)
LEMMA CounterContinues ==
  ASSUME NEW wk \in Work, NEW p \in DOMAIN wk.bids, NEW placed \in Time,
         NEW r \in Requests, NEW row \in LotRow, NEW bs \in Seq(BidRow),
         RowAgreesWithBids(wk.lot, wk.bids), Continues(wk, r, row, bs)
  PROVE  Continues(WithCounter(wk, p, placed), r, row, bs)
<1>. DEFINE new == WithCounter(wk, p, placed)
            b == CounterOf(wk, p, placed)
            outbid == Outbid(wk.bids, wk.lot.winner)
            n == Len(bs)
            m == Len(wk.bids)
<1>1. /\ wk.lot \in LotRow /\ wk.bids \in Seq(BidRow) /\ n \in Nat /\ m \in Nat
      /\ DOMAIN wk.bids = 1..m
  BY LenProperties DEF Work
<1>2. /\ b \in BidRow /\ b.key = Null
      /\ b.amount = GetMinimumNextBid(wk.lot.currentBid)
  BY CounterOfType DEF CounterOf
<1>3. outbid \in Seq(BidRow) /\ Len(outbid) = m
  BY <1>1, OutbidProperties
<1>4. \A i \in 1..m : SameEntry(outbid[i], wk.bids[i])
  BY <1>1, OutbidKeepsEntries
<1>5. /\ new.lot = Led(wk.lot, wk.bids[p].bidder, GetMinimumNextBid(wk.lot.currentBid))
      /\ new.bids = Append(outbid, b)
      /\ Len(new.bids) = m + 1 /\ new.bid = wk.bid
  BY WithCounterProperties
<1>6. new.lot.status = wk.lot.status
  <2>1. wk.bids[p] \in BidRow /\ wk.lot.currentBid \in Nat
    BY <1>1, ElementOfSeq DEF LotRow
  <2>2. wk.bids[p].bidder \in Bidders /\ GetMinimumNextBid(wk.lot.currentBid) \in Nat
    BY <2>1, MinimumNextBidHigher DEF BidRow
  <2>. QED
    BY <1>1, <1>5, <2>2, LedStatus
<1>. HIDE DEF new, b, outbid, n, m
<1>7. /\ new.bids[m + 1] = b
      /\ \A i \in 1..m : SameEntry(new.bids[i], wk.bids[i])
  BY <1>2, <1>3, <1>4, <1>5, AppendProperties
<1>8. /\ row.status \in Biddable /\ wk.lot.status \in {row.status, "open"}
      /\ wk.bid = n + 1 /\ m >= n + 1
      /\ \A i \in 1..n : SameEntry(wk.bids[i], bs[i])
      /\ wk.bids[n + 1].key = r.key
      /\ wk.bids[n + 1].bidder = r.bidder
      /\ wk.bids[n + 1].amount = r.amount
      /\ \A i \in n + 2 .. m : wk.bids[i].key = Null
      /\ \A i \in n + 1 .. m :
           wk.bids[i].amount >=
             GetMinimumNextBid(IF i = 1 THEN row.currentBid ELSE wk.bids[i - 1].amount)
  BY DEF Continues, n, m
<1>9. wk.bids[m].amount = wk.lot.currentBid
  <2>1. wk.bids # <<>>
    BY <1>1, <1>8, EmptySeq DEF m
  <2>. QED
    BY <2>1 DEF RowAgreesWithBids, m
<1>10. ASSUME NEW i \in 1..n PROVE SameEntry(new.bids[i], bs[i])
  <2>1. i \in 1..m
    BY <1>1, <1>8
  <2>. QED
    BY <1>7, <1>8, <2>1 DEF SameEntry
<1>11. /\ new.bids[n + 1].key = r.key
       /\ new.bids[n + 1].bidder = r.bidder
       /\ new.bids[n + 1].amount = r.amount
  <2>1. n + 1 \in 1..m
    BY <1>1, <1>8
  <2>. QED
    BY <1>7, <1>8, <2>1 DEF SameEntry
<1>12. ASSUME NEW i \in n + 2 .. m + 1 PROVE new.bids[i].key = Null
  <2>1. CASE i = m + 1
    BY <1>2, <1>7, <2>1
  <2>2. CASE i # m + 1
    <3>1. i \in 1..m /\ i \in n + 2 .. m
      BY <1>1, <2>2
    <3>. QED
      BY <1>7, <1>8, <3>1 DEF SameEntry
  <2>. QED
    BY <2>1, <2>2
<1>13. ASSUME NEW i \in n + 1 .. m + 1
       PROVE  new.bids[i].amount >=
                GetMinimumNextBid(IF i = 1 THEN row.currentBid ELSE new.bids[i - 1].amount)
  <2>1. CASE i = m + 1
    <3>1. i # 1 /\ i - 1 = m /\ m \in 1..m
      BY <1>1, <1>8, <2>1
    <3>2. new.bids[m].amount = wk.lot.currentBid
      BY <1>7, <1>9, <3>1 DEF SameEntry
    <3>3. b.amount \in Nat
      BY <1>2 DEF BidRow
    <3>. QED
      BY <1>2, <1>7, <2>1, <3>1, <3>2, <3>3
  <2>2. CASE i # m + 1
    <3>1. i \in 1..m /\ i \in n + 1 .. m /\ (i # 1 => i - 1 \in 1..m)
      BY <1>1, <2>2
    <3>2. new.bids[i].amount = wk.bids[i].amount
      BY <1>7, <3>1 DEF SameEntry
    <3>3. i # 1 => new.bids[i - 1].amount = wk.bids[i - 1].amount
      BY <1>7, <3>1 DEF SameEntry
    <3>. QED
      BY <1>8, <3>1, <3>2, <3>3
  <2>. QED
    BY <2>1, <2>2
<1>14. new.bid = n + 1 /\ Len(new.bids) = m + 1 /\ m + 1 >= n + 1
  BY <1>1, <1>5, <1>8
<1>15. row.status \in Biddable /\ new.lot.status \in {row.status, "open"}
  BY <1>6, <1>8
<1>. QED
  BY <1>10, <1>11, <1>12, <1>13, <1>14, <1>15 DEF Continues, n, new

(* Continuing is a matter of the status, the bids and the position.        *)
LEMMA ContinuesAlike ==
  ASSUME NEW wk, NEW new, NEW r, NEW row, NEW bs,
         Continues(wk, r, row, bs), new.lot.status \in {wk.lot.status, "open"},
         new.bids = wk.bids, new.bid = wk.bid
  PROVE  Continues(new, r, row, bs)
BY DEF Continues

-----------------------------------------------------------------------------
(* What the workers have in hand.                                          *)

(* The lot of a worker that has entered its bid stays as it was, because   *)
(* nobody changes a lot that another session holds.                        *)
LEMMA OthersContinue ==
  ASSUME EntryInv, NEW w \in Workers,
         \A v \in Workers \ {w} :
           pc'[v] = pc[v] /\ req'[v] = req[v] /\ work'[v] = work[v],
         \A l \in Lots : lotLock[l] # w => lot'[l] = lot[l] /\ bids'[l] = bids[l],
         pc'[w] \in {"resolve", "commit"} =>
           Continues(work'[w], req'[w], lot'[req'[w].lot], bids'[req'[w].lot])
  PROVE  WorkContinues'
<1>. SUFFICES ASSUME NEW v \in Workers, pc'[v] \in {"resolve", "commit"}
              PROVE  Continues(work'[v], req'[v], lot'[req'[v].lot], bids'[req'[v].lot])
  BY DEF WorkContinues, Continues, SameEntry
<1>1. CASE v # w
  <2>1. /\ pc[v] = pc'[v] /\ req'[v] = req[v] /\ work'[v] = work[v]
        /\ WorkIsProtected(v) /\ req[v].lot \in Lots
    BY <1>1 DEF EntryInv, BookInv, TypeInv, WorkersAreEquipped, LocksProtectTheWork
  <2>2. lotLock[req[v].lot] = v
    BY <2>1 DEF WorkIsProtected
  <2>3. lot'[req[v].lot] = lot[req[v].lot] /\ bids'[req[v].lot] = bids[req[v].lot]
    BY <1>1, <2>1, <2>2
  <2>4. Continues(work[v], req[v], lot[req[v].lot], bids[req[v].lot])
    BY <2>1 DEF EntryInv, WorkContinues
  <2>. QED
    BY <2>1, <2>3, <2>4
<1>. QED
  BY <1>1

(* Its key stays its own, too.                                             *)
LEMMA OthersKeepKeys ==
  ASSUME EntryInv, NEW w \in Workers,
         \A v \in Workers \ {w} : pc'[v] = pc[v] /\ req'[v] = req[v],
         \A k \in KeyIds : keyLock[k] # w => (keyRow[k] = Null => keyRow'[k] = Null),
         pc'[w] \in {"lockLot", "validate", "resolve", "commit"} =>
           keyRow'[KeyOf(req'[w])] = Null
  PROVE  KeysInHand'
<1>. SUFFICES ASSUME NEW v \in Workers \ {w},
                     pc'[v] \in {"lockLot", "validate", "resolve", "commit"}
              PROVE  keyRow'[KeyOf(req'[v])] = Null
  BY DEF KeysInHand, KeyOf
<1>1. /\ pc[v] = pc'[v] /\ req'[v] = req[v]
      /\ WorkIsProtected(v) /\ KeyOf(req[v]) \in KeyIds
  BY RequestType DEF EntryInv, BookInv, TypeInv, WorkersAreEquipped, LocksProtectTheWork
<1>2. keyLock[KeyOf(req[v])] = v
  BY <1>1 DEF WorkIsProtected
<1>3. keyRow[KeyOf(req[v])] = Null
  BY <1>1 DEF EntryInv, KeysInHand
<1>. QED
  BY <1>1, <1>2, <1>3 DEF KeyOf

(* A worker that is about to commit holds its lot and its key.             *)
LEMMA CommitterHolds ==
  ASSUME EntryInv, NEW w \in Workers, pc[w] \in {"resolve", "commit"}
  PROVE  /\ req[w] \in Requests /\ req[w].lot \in Lots /\ work[w] \in Work
         /\ KeyOf(req[w]) \in KeyIds
         /\ lotLock[req[w].lot] = w /\ keyLock[KeyOf(req[w])] = w
         /\ keyRow[KeyOf(req[w])] = Null
         /\ RowAgreesWithBids(work[w].lot, work[w].bids)
         /\ RowAgreesWithBids(lot[req[w].lot], bids[req[w].lot])
         /\ Continues(work[w], req[w], lot[req[w].lot], bids[req[w].lot])
<1>1. /\ req[w] \in Requests /\ req[w].lot \in Lots /\ work[w] \in Work
      /\ WorkIsProtected(w)
  BY DEF EntryInv, BookInv, TypeInv, WorkersAreEquipped, LocksProtectTheWork
<1>2. KeyOf(req[w]) \in KeyIds
  BY <1>1, RequestType
<1>. QED
  BY <1>1, <1>2
  DEF EntryInv, BookInv, WorkContinues, KeysInHand, WorkAgreesWithBids,
      LotAgreesWithBids, WorkIsProtected

(* What COMMIT does to the tables.                                         *)
LEMMA CommittedTables ==
  ASSUME EntryInv, NEW w \in Workers, pc[w] = "commit", Committed(w)
  PROVE  /\ \A l \in Lots : l # req[w].lot =>
              lot'[l] = lot[l] /\ bids'[l] = bids[l] /\ events'[l] = events[l]
         /\ lot'[req[w].lot] = work[w].lot
         /\ bids'[req[w].lot] = work[w].bids
         /\ events'[req[w].lot] = work[w].events
         /\ \A k \in KeyIds : k # KeyOf(req[w]) => keyRow'[k] = keyRow[k]
         /\ keyRow'[KeyOf(req[w])] = ReleasedRow(ResultOf(w))
         /\ ReleasedRow(ResultOf(w)) \in KeyRow
         /\ ReleasedRow(ResultOf(w)) # Null
         /\ feed' = feed
<1>1. req[w].lot \in Lots /\ KeyOf(req[w]) \in KeyIds
  BY CommitterHolds
<1>2. ReleasedRow(ResultOf(w)) \in KeyRow
  BY ResultType DEF EntryInv, BookInv
<1>3. ReleasedRow(ResultOf(w)) # Null
  BY <1>2, BidAssumption
<1>4. /\ lot \in [Lots -> LotRow] /\ bids \in [Lots -> Seq(BidRow)]
      /\ events \in [Lots -> Seq(EventRow)]
      /\ keyRow \in [KeyIds -> KeyRow \cup {Null}]
  BY DEF EntryInv, BookInv, TypeInv, BidTypeOK, StoreTypeOK
<1>. QED
  BY <1>1, <1>2, <1>3, <1>4 DEF Committed

(* Every other step of a worker leaves the lots and their bids alone, and  *)
(* the keys but for a column that is clear already.                        *)
LEMMA QuietStep ==
  ASSUME EntryInv, NEW w \in Workers, Begin(w) \/ WorkerStep(w) \/ WorkerFailure(w),
         ~Commit(w), ~CommitUnacknowledged(w)
  PROVE  /\ UNCHANGED <<lot, bids, events>>
         /\ ~ForceUnlock(w) => UNCHANGED keyRow
         /\ ~Publish(w) => UNCHANGED feed
         /\ \A k \in KeyIds :
              /\ keyRow[k] = Null => keyRow'[k] = Null
              /\ keyRow[k] # Null =>
                   /\ keyRow'[k] # Null
                   /\ keyRow'[k].response = keyRow[k].response
                   /\ ~keyRow[k].locked => ~keyRow'[k].locked
<1>. DEFINE KeysAlike ==
       \A k \in KeyIds :
         /\ keyRow[k] = Null => keyRow'[k] = Null
         /\ keyRow[k] # Null =>
              /\ keyRow'[k] # Null
              /\ keyRow'[k].response = keyRow[k].response
              /\ ~keyRow[k].locked => ~keyRow'[k].locked
<1>1. CASE ForceUnlock(w)
  <2>1. UNCHANGED storeVars
    BY <1>1 DEF ForceUnlock
  <2>2. CASE UNCHANGED keyRow
    BY <2>1, <2>2 DEF storeVars
  <2>3. CASE keyRow' # keyRow
    <3>. DEFINE key == KeyOf(req[w])
    <3>1. keyRow[key] # Null /\ keyRow' = [keyRow EXCEPT ![key].locked = FALSE]
      BY <1>1, <2>3 DEF ForceUnlock, KeyForcedOpen, keyVars
    <3>2. keyRow \in [KeyIds -> KeyRow \cup {Null}] /\ key \in KeyIds
      BY <1>1, RequestType
      DEF EntryInv, BookInv, TypeInv, BidTypeOK, WorkersAreEquipped, ForceUnlock, Goes
    <3>. DEFINE opened == [keyRow[key] EXCEPT !.locked = FALSE]
    <3>3. \A x \in KeyRow :
            LET o == [x EXCEPT !.locked = FALSE] IN
            o \in KeyRow /\ o.response = x.response /\ ~o.locked
      BY DEF KeyRow
    <3>4. opened \in KeyRow /\ opened.response = keyRow[key].response /\ ~opened.locked
      BY <3>1, <3>2, <3>3
    <3>5. opened # Null
      BY <3>4, BidAssumption
    <3>6. keyRow' = [keyRow EXCEPT ![key] = opened]
      BY <3>1
    <3>. HIDE DEF opened, key
    <3>7. KeysAlike
      BY <3>1, <3>2, <3>4, <3>5, <3>6
    <3>. QED
      BY <1>1, <2>1, <3>7 DEF storeVars
  <2>. QED
    BY <2>2, <2>3
<1>2. CASE \/ SelectInFlight(w) \/ Replay(w) \/ LotNotFound(w) \/ RejectBid(w)
           \/ StatementFails(w)
  BY <1>2
  DEF SelectInFlight, Replay, LotNotFound, RejectBid, StatementFails, RolledBack
<1>3. CASE \/ Begin(w) \/ InsertKey(w) \/ InsertFindsKey(w) \/ SelectCompleted(w)
  BY <1>3
  DEF Begin, InsertKey, InsertFindsKey, SelectCompleted, KeyInserted, KeyCompleted,
      storeVars, keyVars
<1>4. CASE LockLot(w) \/ AcceptBid(w) \/ ProxyCounters(w) \/ RecordBid(w)
  BY <1>4 DEF LockLot, AcceptBid, ProxyCounters, RecordBid, storeVars, keyVars
<1>5. CASE Publish(w)
  BY <1>5 DEF Publish, keyVars
<1>. QED
  BY <1>1, <1>2, <1>3, <1>4, <1>5 DEF WorkerStep, WorkerFailure

(* Every step of a worker keeps what the workers have entered and the keys *)
(* they have inserted.                                                     *)
LEMMA WorkerStepEntries ==
  ASSUME EntryInv, NEW w \in Workers, Begin(w) \/ WorkerStep(w) \/ WorkerFailure(w)
  PROVE  WorkContinues' /\ KeysInHand'
<1>. USE DEF Goes
<1>0. /\ pc \in [Workers -> InTransaction \cup {"idle", "publish", "unlock"}]
      /\ DOMAIN work = Workers /\ DOMAIN req = Workers
      /\ TypeInv /\ now \in Nat
  BY DEF EntryInv, BookInv, TypeInv, BidTypeOK, StoreTypeOK, Time
<1>1. CASE AcceptBid(w)
  <2>. DEFINE with == WithBid(work[w], req[w], startedAt[w])
              new == Extended(with, with.bid)
              row == lot[req[w].lot]
              book == bids[req[w].lot]
  <2>1. /\ work[w] \in Work /\ req[w] \in Requests /\ startedAt[w] \in Time
        /\ req[w].lot \in Lots
    BY <1>0, <1>1 DEF AcceptBid, TypeInv, WorkersAreEquipped, BidTypeOK
  <2>2. work[w].lot = row /\ work[w].bids = book
    <3>1. WorkIsProtected(w) /\ pc[w] = "validate"
      BY <1>1 DEF AcceptBid, EntryInv, BookInv, LocksProtectTheWork
    <3>2. work[w] = WorkOn(req[w].lot)
      BY <3>1 DEF WorkIsProtected
    <3>. QED
      BY <3>2 DEF WorkOn
  <2>3. RowAgreesWithBids(work[w].lot, work[w].bids)
    BY <2>1, <2>2 DEF EntryInv, BookInv, LotAgreesWithBids
  <2>4. Rejection(req[w], work[w].lot) = "none"
    BY <1>1 DEF AcceptBid
  <2>5. Continues(with, req[w], work[w].lot, work[w].bids)
    BY <2>1, <2>3, <2>4, AcceptContinues
  <2>6. with \in Work /\ with.bid \in Nat
    BY <2>1, WithBidProperties DEF Work
  <2>. HIDE DEF with
  <2>7. /\ new.bids = with.bids /\ new.bid = with.bid
        /\ new.lot.status \in {with.lot.status, "open"}
    BY <1>0, <2>6, ExtendedType, ExtensionStatus
  <2>8. work' = [work EXCEPT ![w] = new]
    BY <1>1 DEF AcceptBid, with
  <2>. HIDE DEF new, row, book
  <2>9. Continues(new, req[w], row, book)
    BY <2>2, <2>5, <2>7, ContinuesAlike
  <2>10. /\ UNCHANGED <<lot, bids, keyRow, req>> /\ pc[w] = "validate"
         /\ \A v \in Workers \ {w} : pc'[v] = pc[v] /\ work'[v] = work[v]
         /\ work'[w] = new
    BY <1>0, <1>1, <2>8 DEF AcceptBid, storeVars, keyVars
  <2>11. WorkContinues'
    BY <2>9, <2>10, OthersContinue DEF row, book
  <2>12. KeysInHand'
    BY <2>10, OthersKeepKeys DEF EntryInv, KeysInHand
  <2>. QED
    BY <2>11, <2>12
<1>2. CASE ProxyCounters(w)
  <2>1. PICK p \in Counters(work[w]) :
               work' = [work EXCEPT ![w] =
                 LET i == Len(work[w].bids) + 1
                     wk == Extended(WithCounter(work[w], p, startedAt[w]), i)
                     event == EventOf("PROXY_RESOLVED", i, wk.lot.currentBid)
                 IN [wk EXCEPT !.events = Append(@, event)]]
    BY <1>2 DEF ProxyCounters
  <2>. DEFINE i == Len(work[w].bids) + 1
              with == WithCounter(work[w], p, startedAt[w])
              wk == Extended(with, i)
              events1 == Append(wk.events, EventOf("PROXY_RESOLVED", i, wk.lot.currentBid))
              new == [wk EXCEPT !.events = events1]
              row == lot[req[w].lot]
              book == bids[req[w].lot]
  <2>2. /\ work[w] \in Work /\ startedAt[w] \in Time /\ req[w] \in Requests
        /\ work[w].bids \in Seq(BidRow) /\ row \in LotRow /\ book \in Seq(BidRow)
    BY <1>0, <1>2
    DEF ProxyCounters, TypeInv, WorkersAreEquipped, BidTypeOK, StoreTypeOK, Work
  <2>3. p \in DOMAIN work[w].bids /\ i \in Nat
    BY <2>2, LenProperties DEF Counters, BestProxies, Competing
  <2>4. /\ RowAgreesWithBids(work[w].lot, work[w].bids)
        /\ Continues(work[w], req[w], row, book)
    BY <1>2, CommitterHolds DEF ProxyCounters
  <2>. HIDE DEF row, book
  <2>5. with \in Work /\ Continues(with, req[w], row, book)
    BY <2>2, <2>3, <2>4, WithCounterProperties, CounterContinues
  <2>. HIDE DEF with, i
  <2>7. /\ wk \in Work /\ wk.bids = with.bids /\ wk.bid = with.bid
        /\ wk.lot.status \in {with.lot.status, "open"}
    BY <1>0, <2>3, <2>5, ExtendedType, ExtensionStatus
  <2>8. work' = [work EXCEPT ![w] = new]
    BY <2>1, Zenon DEF with, i
  <2>. HIDE DEF wk, events1
  <2>9. new.lot = wk.lot /\ new.bids = wk.bids /\ new.bid = wk.bid
    BY <2>7 DEF Work
  <2>. HIDE DEF new
  <2>10. Continues(new, req[w], row, book)
    BY <2>5, <2>7, <2>9, ContinuesAlike
  <2>11. /\ UNCHANGED <<lot, bids, keyRow, req, pc>> /\ pc[w] = "resolve"
         /\ \A v \in Workers \ {w} : work'[v] = work[v]
         /\ work'[w] = new
    BY <1>0, <1>2, <2>8 DEF ProxyCounters, storeVars, keyVars
  <2>12. WorkContinues'
    BY <2>10, <2>11, OthersContinue DEF row, book
  <2>13. KeysInHand'
    BY <2>11, OthersKeepKeys DEF EntryInv, KeysInHand
  <2>. QED
    BY <2>12, <2>13
<1>3. CASE RecordBid(w)
  <2>. DEFINE events1 == Append(work[w].events,
                                EventOf("BID_ACCEPTED", work[w].bid, req[w].amount))
              new == [work[w] EXCEPT !.events = events1]
              row == lot[req[w].lot]
              book == bids[req[w].lot]
  <2>1. work[w] \in Work /\ Continues(work[w], req[w], row, book)
    BY <1>3, CommitterHolds DEF RecordBid
  <2>2. work' = [work EXCEPT ![w] = new]
    BY <1>3, Zenon DEF RecordBid
  <2>. HIDE DEF events1, row, book
  <2>3. new.lot = work[w].lot /\ new.bids = work[w].bids /\ new.bid = work[w].bid
    BY <2>1 DEF Work
  <2>. HIDE DEF new
  <2>5. Continues(new, req[w], row, book)
    BY <2>1, <2>3, ContinuesAlike
  <2>6. /\ UNCHANGED <<lot, bids, keyRow, req>> /\ pc[w] = "resolve"
        /\ \A v \in Workers \ {w} : pc'[v] = pc[v] /\ work'[v] = work[v]
        /\ work'[w] = new
    BY <1>0, <1>3, <2>2 DEF RecordBid, storeVars, keyVars
  <2>7. WorkContinues'
    BY <2>5, <2>6, OthersContinue DEF row, book
  <2>8. KeysInHand'
    BY <2>6, OthersKeepKeys DEF EntryInv, KeysInHand
  <2>. QED
    BY <2>7, <2>8
<1>4. CASE Commit(w) \/ CommitUnacknowledged(w)
  <2>1. /\ pc[w] = "commit" /\ Committed(w) /\ pc'[w] \in {"publish", "unlock"}
        /\ UNCHANGED req
        /\ \A v \in Workers \ {w} : pc'[v] = pc[v] /\ work'[v] = work[v]
    BY <1>0, <1>4 DEF Commit, CommitUnacknowledged
  <2>2. /\ \A l \in Lots : lotLock[l] # w => lot'[l] = lot[l] /\ bids'[l] = bids[l]
        /\ \A k \in KeyIds : keyLock[k] # w => keyRow'[k] = keyRow[k]
    BY <2>1, CommitterHolds, CommittedTables
  <2>3. WorkContinues'
    BY <2>1, <2>2, OthersContinue
  <2>4. KeysInHand'
    BY <2>1, <2>2, OthersKeepKeys
  <2>. QED
    BY <2>3, <2>4
<1>5. CASE InsertKey(w)
  <2>1. /\ UNCHANGED <<lot, bids, keyRow, req, work>>
        /\ pc'[w] = "lockLot" /\ keyRow[KeyOf(req[w])] = Null
        /\ \A v \in Workers \ {w} : pc'[v] = pc[v]
    BY <1>0, <1>5 DEF InsertKey, KeyInserted, storeVars
  <2>. QED
    BY <2>1, OthersContinue, OthersKeepKeys
<1>6. CASE LockLot(w)
  <2>1. /\ UNCHANGED <<lot, bids, keyRow, req>>
        /\ pc[w] = "lockLot" /\ pc'[w] = "validate"
        /\ \A v \in Workers \ {w} : pc'[v] = pc[v] /\ work'[v] = work[v]
    BY <1>0, <1>6 DEF LockLot, keyVars
  <2>2. keyRow'[KeyOf(req'[w])] = Null
    BY <2>1 DEF EntryInv, KeysInHand
  <2>. QED
    BY <2>1, <2>2, OthersContinue, OthersKeepKeys
<1>7. CASE \/ Begin(w) \/ InsertFindsKey(w) \/ SelectCompleted(w) \/ Publish(w)
           \/ ForceUnlock(w)
  <2>1. /\ UNCHANGED <<lot, bids>>
        /\ \A k \in KeyIds : keyRow[k] = Null => keyRow'[k] = Null
    BY <1>7, QuietStep DEF WorkerStep, Begin, InsertFindsKey, SelectCompleted, Publish,
       ForceUnlock, Commit, CommitUnacknowledged
  <2>2. /\ pc'[w] \in {"idle", "acquire", "select", "replay"}
        /\ \A v \in Workers \ {w} :
             pc'[v] = pc[v] /\ req'[v] = req[v] /\ work'[v] = work[v]
    BY <1>0, <1>7 DEF Begin, InsertFindsKey, SelectCompleted, Publish, ForceUnlock
  <2>. QED
    BY <2>1, <2>2, OthersContinue, OthersKeepKeys
<1>8. CASE \/ SelectInFlight(w) \/ Replay(w) \/ LotNotFound(w) \/ RejectBid(w)
           \/ StatementFails(w)
  <2>1. RolledBack(w) /\ pc'[w] \in {"idle", "unlock"} /\ UNCHANGED req
    BY <1>0, <1>8 DEF SelectInFlight, Replay, LotNotFound, RejectBid, StatementFails
  <2>2. \A v \in Workers \ {w} : pc'[v] = pc[v]
    BY <1>0, <1>8 DEF SelectInFlight, Replay, LotNotFound, RejectBid, StatementFails
  <2>3. UNCHANGED <<lot, bids, keyRow>> /\ \A v \in Workers \ {w} : work'[v] = work[v]
    BY <1>0, <2>1 DEF RolledBack
  <2>. QED
    BY <2>1, <2>2, <2>3, OthersContinue, OthersKeepKeys
<1>. QED
  BY <1>1, <1>2, <1>3, <1>4, <1>5, <1>6, <1>7, <1>8 DEF WorkerStep, WorkerFailure

(* No worker has entered anything at the start.                            *)
LEMMA EntryInvInit == BidInit => EntryInv
<1>1. BidInit => WorkContinues /\ KeysInHand
  BY DEF BidInit, WorkContinues, KeysInHand
<1>. QED
  BY <1>1, TypeInvInit, LocksInit, BooksInit DEF EntryInv, BookInv

(* Every step of BidSpec keeps all of the invariant.                       *)
LEMMA EntryInvKept == EntryInv /\ [BidNext]_bidVars => EntryInv'
<1>. SUFFICES ASSUME EntryInv, [BidNext]_bidVars PROVE EntryInv'
  OBVIOUS
<1>1. WorkContinues' /\ KeysInHand'
  <2>1. CASE BidStep
    BY <2>1, WorkerStepEntries DEF BidStep
  <2>2. CASE UNCHANGED <<lot, bids, keyRow, pc, req, work>>
    BY <2>2
    DEF EntryInv, WorkContinues, KeysInHand, Continues, SameEntry, KeyOf
  <2>. QED
    BY <2>1, <2>2
    DEF BidNext, AllAnswered, ClockTicks, bidVars, storeVars, keyVars, workerVars
<1>. QED
  BY <1>1, TypeInvKept, LocksKept, BooksKept DEF EntryInv, BookInv

(* What the workers have entered and inserted, at any time.               *)
LEMMA EntryInvHolds == BidSpec => []EntryInv
BY EntryInvInit, EntryInvKept, PTL DEF BidSpec

-----------------------------------------------------------------------------
(* The table bids only grows.                                              *)

(* A step adds bids to a lot and leaves those that are there.              *)
LEMMA BidsGrow ==
  ASSUME EntryInv, NEW w \in Workers, Begin(w) \/ WorkerStep(w) \/ WorkerFailure(w),
         NEW l \in Lots
  PROVE  /\ DOMAIN bids[l] \subseteq DOMAIN bids'[l]
         /\ \A i \in DOMAIN bids[l] : SameEntry(bids'[l][i], bids[l][i])
<1>1. CASE Commit(w) \/ CommitUnacknowledged(w)
  <2>1. pc[w] = "commit" /\ Committed(w)
    BY <1>1 DEF Commit, CommitUnacknowledged, Goes
  <2>2. CASE l # req[w].lot
    BY <2>1, <2>2, CommittedTables DEF SameEntry
  <2>3. CASE l = req[w].lot
    <3>1. /\ bids'[l] = work[w].bids /\ work[w].bids \in Seq(BidRow)
          /\ bids[l] \in Seq(BidRow) /\ Continues(work[w], req[w], lot[l], bids[l])
      BY <2>1, <2>3, CommittedTables, CommitterHolds
      DEF EntryInv, BookInv, TypeInv, BidTypeOK, StoreTypeOK, Work
    <3>2. /\ DOMAIN bids[l] = 1..Len(bids[l])
          /\ DOMAIN work[w].bids = 1..Len(work[w].bids)
          /\ Len(bids[l]) \in Nat /\ Len(work[w].bids) \in Nat
      BY <3>1, LenProperties
    <3>. QED
      BY <3>1, <3>2 DEF Continues
  <2>. QED
    BY <2>2, <2>3
<1>2. CASE ~Commit(w) /\ ~CommitUnacknowledged(w)
  BY <1>2, QuietStep DEF SameEntry
<1>. QED
  BY <1>1, <1>2

-----------------------------------------------------------------------------
(* Idempotency keys.                                                       *)

(* The bids of a key, one by one.                                          *)
LEMMA EnteredMembers ==
  ASSUME NEW k, NEW l, NEW i
  PROVE  <<l, i>> \in Entered(k) <=>
           /\ l \in Lots /\ i \in DOMAIN bids[l]
           /\ <<bids[l][i].key, bids[l][i].bidder>> = k
BY DEF Entered

(* The same in the next state.                                             *)
LEMMA EnteredNext ==
  ASSUME NEW CONSTANT k, NEW CONSTANT l, NEW CONSTANT i
  PROVE  <<l, i>> \in Entered(k)' <=>
           /\ l \in Lots /\ i \in DOMAIN bids'[l]
           /\ <<bids'[l][i].key, bids'[l][i].bidder>> = k
BY DEF Entered

(* What is entered under a key is a place in the book of a lot.            *)
LEMMA EnteredPairs ==
  ASSUME NEW CONSTANT k
  PROVE  /\ \A x \in Entered(k) : \E l \in Lots : \E i \in DOMAIN bids[l] : x = <<l, i>>
         /\ \A x \in Entered(k)' : \E l \in Lots : \E i \in DOMAIN bids'[l] : x = <<l, i>>
BY DEF Entered

(* COMMIT enters one bid under the key of its request, and none under any  *)
(* other key.                                                              *)
LEMMA EnteredByCommit ==
  ASSUME EntryInv, NEW w \in Workers, pc[w] = "commit", Committed(w),
         NEW CONSTANT k \in KeyIds
  PROVE  Entered(k)' = Entered(k) \cup
           IF k = KeyOf(req[w]) THEN {<<req[w].lot, work[w].bid>>} ELSE {}
<1>. DEFINE target == req[w].lot
            n == Len(bids[target])
            new == IF k = KeyOf(req[w]) THEN {<<target, work[w].bid>>} ELSE {}
<1>1. /\ target \in Lots /\ req[w] \in Requests /\ work[w] \in Work
      /\ Continues(work[w], req[w], lot[target], bids[target])
  BY CommitterHolds
<1>2. /\ \A l \in Lots : l # target => bids'[l] = bids[l]
      /\ bids'[target] = work[w].bids
  BY CommittedTables
<1>3. /\ DOMAIN bids[target] = 1..n /\ n \in Nat
      /\ DOMAIN bids'[target] = 1..Len(work[w].bids) /\ Len(work[w].bids) \in Nat
  BY <1>1, <1>2, LenProperties
  DEF EntryInv, BookInv, TypeInv, BidTypeOK, StoreTypeOK, Work
<1>4. k[1] # Null
  BY StoreAssumption DEF KeyIds
<1>8. /\ work[w].bid = n + 1 /\ Len(work[w].bids) >= n + 1
      /\ \A i \in 1..n : SameEntry(work[w].bids[i], bids[target][i])
      /\ work[w].bids[n + 1].key = req[w].key
      /\ work[w].bids[n + 1].bidder = req[w].bidder
      /\ \A i \in n + 2 .. Len(work[w].bids) : work[w].bids[i].key = Null
  BY <1>1 DEF Continues
<1>. HIDE DEF n
<1>5. ASSUME NEW CONSTANT l \in Lots, NEW CONSTANT i
      PROVE  <<l, i>> \in Entered(k)' <=> <<l, i>> \in Entered(k) \cup new
  <2>1. CASE l # target
    BY <1>2, <2>1, EnteredMembers, EnteredNext
  <2>2. CASE l = target
    <3>1. CASE i \in 1..n
      <4>1. SameEntry(bids'[l][i], bids[l][i]) /\ i \in DOMAIN bids'[l]
        BY <1>2, <1>3, <1>8, <2>2, <3>1
      <4>2. i # work[w].bid
        BY <1>3, <1>8, <3>1
      <4>. QED
        BY <1>3, <2>2, <3>1, <4>1, <4>2, EnteredMembers, EnteredNext DEF SameEntry
    <3>2. CASE i = n + 1
      <4>1. /\ i \in DOMAIN bids'[l] /\ i \notin DOMAIN bids[l] /\ work[w].bid = i
            /\ bids'[l][i].key = req[w].key /\ bids'[l][i].bidder = req[w].bidder
        BY <1>2, <1>3, <1>8, <2>2, <3>2
      <4>2. <<l, i>> \notin Entered(k)
        BY <4>1, EnteredMembers
      <4>3. <<l, i>> \in Entered(k)' <=> KeyOf(req[w]) = k
        <5>1. <<bids'[l][i].key, bids'[l][i].bidder>> = KeyOf(req[w])
          BY <4>1 DEF KeyOf
        <5>. QED
          BY <4>1, <5>1, EnteredNext
      <4>4. <<l, i>> \in new <=> KeyOf(req[w]) = k
        BY <2>2, <4>1
      <4>. QED
        BY <4>2, <4>3, <4>4
    <3>3. CASE i \notin 1 .. n + 1
      <4>1. i \in DOMAIN bids'[l] => bids'[l][i].key = Null
        BY <1>2, <1>3, <1>8, <2>2, <3>3
      <4>2. i \notin DOMAIN bids[l] /\ work[w].bid = n + 1 /\ n + 1 \in 1 .. n + 1
        BY <1>3, <1>8, <2>2, <3>3
      <4>3. <<l, i>> \notin Entered(k)'
        <5>. SUFFICES ASSUME <<l, i>> \in Entered(k)' PROVE FALSE
          OBVIOUS
        <5>1. i \in DOMAIN bids'[l] /\ <<bids'[l][i].key, bids'[l][i].bidder>> = k
          BY EnteredNext
        <5>2. k[1] = Null
          BY <4>1, <5>1
        <5>. QED
          BY <1>4, <5>2
      <4>4. <<l, i>> \notin Entered(k) /\ <<l, i>> \notin new
        BY <3>3, <4>2, EnteredMembers
      <4>. QED
        BY <4>3, <4>4
    <3>. QED
      BY <1>3, <3>1, <3>2, <3>3
  <2>. QED
    BY <2>1, <2>2
<1>6. ASSUME NEW x \in Entered(k)' PROVE x \in Entered(k) \cup new
  BY <1>5, EnteredPairs
<1>7. ASSUME NEW x \in Entered(k) \cup new PROVE x \in Entered(k)'
  BY <1>1, <1>5, EnteredPairs
<1>. QED
  BY <1>6, <1>7

(* OneBidPerKey, of one key.                                               *)
KeyMatchesBids(k) ==
  IF keyRow[k] = Null THEN Entered(k) = {}
  ELSE Cardinality(Entered(k)) = 1 /\ ~keyRow[k].locked

(* OneBidPerKey taken key by key, before and after a step.                 *)
LEMMA KeysMatch ==
  /\ OneBidPerKey <=> \A k \in KeyIds : KeyMatchesBids(k)
  /\ OneBidPerKey' <=> \A k \in KeyIds : KeyMatchesBids(k)'
BY DEF OneBidPerKey, KeyMatchesBids, Entered

(* The promise about keys, with what is stored and told.                   *)
KeyInv ==
  EntryInv /\ OneBidPerKey /\ KeysTellOfBids /\ ResultsAreStored /\ AnswersAreStored

(* A key is stored by the COMMIT that enters its bid, and by no other      *)
(* step, and what is stored stays.                                         *)
LEMMA StepKeepsKeys ==
  ASSUME KeyInv, NEW w \in Workers, Begin(w) \/ WorkerStep(w) \/ WorkerFailure(w)
  PROVE  OneBidPerKey' /\ KeysTellOfBids'
<1>1. CASE Commit(w) \/ CommitUnacknowledged(w)
  <2>. DEFINE row == ReleasedRow(ResultOf(w))
              pos == work[w].bid
              target == req[w].lot
  <2>1. pc[w] = "commit" /\ Committed(w) /\ EntryInv
    BY <1>1 DEF Commit, CommitUnacknowledged, Goes, KeyInv
  <2>2. /\ row # Null /\ ~row.locked /\ row.response.bid = pos
        /\ keyRow'[KeyOf(req[w])] = row
        /\ \A k \in KeyIds : k # KeyOf(req[w]) => keyRow'[k] = keyRow[k]
    BY <2>1, CommittedTables DEF ReleasedRow, ResultOf
  <2>3. /\ keyRow[KeyOf(req[w])] = Null /\ KeyOf(req[w]) \in KeyIds /\ target \in Lots
    BY <2>1, CommitterHolds
  <2>. HIDE DEF row, pos, target
  <2>4. ASSUME NEW CONSTANT k \in KeyIds, k = KeyOf(req[w])
        PROVE  KeyMatchesBids(k)' /\ <<target, keyRow'[k].response.bid>> \in Entered(k)'
    <3>1. Entered(k) = {}
      BY <2>3, <2>4, KeysMatch DEF KeyInv, KeyMatchesBids
    <3>2. Entered(k)' = {<<target, pos>>}
      BY <2>1, <2>4, <3>1, EnteredByCommit DEF target, pos
    <3>3. Cardinality(Entered(k)') = 1
      BY <3>2, FS_Singleton
    <3>. QED
      BY <2>2, <2>4, <3>2, <3>3 DEF KeyMatchesBids
  <2>5. ASSUME NEW CONSTANT k \in KeyIds, k # KeyOf(req[w])
        PROVE  Entered(k)' = Entered(k) /\ keyRow'[k] = keyRow[k]
    BY <2>1, <2>2, <2>5, EnteredByCommit
  <2>6. ASSUME NEW CONSTANT k \in KeyIds PROVE KeyMatchesBids(k)'
    <3>1. CASE k = KeyOf(req[w])
      BY <2>4, <3>1
    <3>2. CASE k # KeyOf(req[w])
      <4>1. KeyMatchesBids(k)
        BY KeysMatch DEF KeyInv
      <4>. QED
        BY <2>5, <3>2, <4>1 DEF KeyMatchesBids
    <3>. QED
      BY <3>1, <3>2
  <2>7. ASSUME NEW CONSTANT k \in KeyIds, keyRow'[k] # Null
        PROVE  \E l \in Lots : <<l, keyRow'[k].response.bid>> \in Entered(k)'
    <3>1. CASE k = KeyOf(req[w])
      BY <2>3, <2>4, <3>1
    <3>2. CASE k # KeyOf(req[w])
      <4>1. keyRow[k] # Null
        BY <2>5, <2>7, <3>2
      <4>2. PICK l \in Lots : <<l, keyRow[k].response.bid>> \in Entered(k)
        BY <4>1 DEF KeyInv, KeysTellOfBids
      <4>. QED
        BY <2>5, <3>2, <4>2
    <3>. QED
      BY <3>1, <3>2
  <2>8. OneBidPerKey'
    BY <2>6, KeysMatch
  <2>. QED
    BY <2>7, <2>8 DEF KeysTellOfBids
<1>2. CASE ~Commit(w) /\ ~CommitUnacknowledged(w)
  <2>1. /\ UNCHANGED bids
        /\ \A k \in KeyIds :
             /\ keyRow[k] = Null => keyRow'[k] = Null
             /\ keyRow[k] # Null =>
                  /\ keyRow'[k] # Null
                  /\ keyRow'[k].response = keyRow[k].response
                  /\ ~keyRow[k].locked => ~keyRow'[k].locked
    BY <1>2, QuietStep DEF KeyInv
  <2>2. ASSUME NEW CONSTANT k \in KeyIds PROVE Entered(k)' = Entered(k)
    BY <2>1 DEF Entered
  <2>3. ASSUME NEW CONSTANT k \in KeyIds PROVE KeyMatchesBids(k)'
    <3>1. KeyMatchesBids(k)
      BY KeysMatch DEF KeyInv
    <3>. QED
      BY <2>1, <2>2, <3>1 DEF KeyMatchesBids
  <2>4. OneBidPerKey'
    BY <2>3, KeysMatch
  <2>5. ASSUME NEW CONSTANT k \in KeyIds, keyRow'[k] # Null
        PROVE  \E l \in Lots : <<l, keyRow'[k].response.bid>> \in Entered(k)'
    BY <2>1, <2>2, <2>5 DEF KeyInv, KeysTellOfBids
  <2>. QED
    BY <2>4, <2>5 DEF KeysTellOfBids
<1>. QED
  BY <1>1, <1>2

(* Once a key is stored, its response stays.                               *)
LEMMA ResponsesStay ==
  ASSUME EntryInv, NEW w \in Workers, Begin(w) \/ WorkerStep(w) \/ WorkerFailure(w),
         NEW CONSTANT k \in KeyIds, keyRow[k] # Null
  PROVE  keyRow'[k] # Null /\ keyRow'[k].response = keyRow[k].response
<1>1. CASE Commit(w) \/ CommitUnacknowledged(w)
  <2>1. pc[w] = "commit" /\ Committed(w)
    BY <1>1 DEF Commit, CommitUnacknowledged, Goes
  <2>2. k # KeyOf(req[w])
    BY <2>1, CommitterHolds
  <2>. QED
    BY <2>1, <2>2, CommittedTables
<1>2. CASE ~Commit(w) /\ ~CommitUnacknowledged(w)
  BY <1>2, QuietStep
<1>. QED
  BY <1>1, <1>2

(* A worker publishes and answers what it has stored under its key, and a  *)
(* replay answers what it finds there.                                     *)
LEMMA StepKeepsAnswers ==
  ASSUME KeyInv, NEW w \in Workers, Begin(w) \/ WorkerStep(w) \/ WorkerFailure(w)
  PROVE  ResultsAreStored' /\ AnswersAreStored'
<1>. USE DEF Goes, Answers
<1>0. /\ pc \in [Workers -> InTransaction \cup {"idle", "publish", "unlock"}]
      /\ DOMAIN work = Workers /\ DOMAIN req = Workers /\ DOMAIN reply = Workers
      /\ TypeInv /\ EntryInv /\ TypeInv'
  BY WorkerStepTypes DEF KeyInv, EntryInv, BookInv, TypeInv, BidTypeOK
<1>1. ASSUME NEW v \in Workers \ {w}
      PROVE  /\ pc'[v] = pc[v] /\ req'[v] = req[v]
             /\ work'[v] = work[v] /\ reply'[v] = reply[v]
  BY <1>0
  DEF WorkerStep, WorkerFailure, Begin, InsertKey, InsertFindsKey, SelectCompleted,
      SelectInFlight, Replay, LockLot, LotNotFound, RejectBid, AcceptBid, ProxyCounters,
      RecordBid, Commit, Publish, ForceUnlock, StatementFails, CommitUnacknowledged,
      RolledBack
<1>2. ASSUME pc'[w] = "publish"
      PROVE  /\ keyRow'[KeyOf(req'[w])] # Null
             /\ keyRow'[KeyOf(req'[w])].response = ResultOf(w)'
  <2>1. Commit(w)
    BY <1>0, <1>2
    DEF WorkerStep, WorkerFailure, Begin, InsertKey, InsertFindsKey, SelectCompleted,
        SelectInFlight, Replay, LockLot, LotNotFound, RejectBid, AcceptBid,
        ProxyCounters, RecordBid, Publish, ForceUnlock, StatementFails,
        CommitUnacknowledged
  <2>2. /\ pc[w] = "commit" /\ Committed(w) /\ UNCHANGED <<req, work>>
    BY <2>1 DEF Commit
  <2>3. /\ keyRow'[KeyOf(req[w])] = ReleasedRow(ResultOf(w))
        /\ ReleasedRow(ResultOf(w)) # Null
    BY <1>0, <2>2, CommittedTables
  <2>4. ResultOf(w)' = ResultOf(w)
    BY <2>2 DEF ResultOf, SnapshotOf
  <2>. QED
    BY <2>2, <2>3, <2>4 DEF ReleasedRow, KeyOf
<1>3. ASSUME reply'[w] # Null, reply'[w].code \in {"accepted", "replayed"}
      PROVE  /\ keyRow'[KeyOf(req'[w])] # Null
             /\ keyRow'[KeyOf(req'[w])].response = reply'[w].response
             /\ req'[w] \in Requests
  <2>1. CASE Publish(w)
    <3>1. /\ req' = req /\ keyRow' = keyRow /\ pc[w] = "publish"
          /\ reply'[w] = [code |-> "accepted", response |-> ResultOf(w)]
      BY <1>0, <2>1 DEF Publish, keyVars
    <3>2. req[w] \in Requests
      BY <1>0, <3>1 DEF TypeInv, WorkersAreEquipped
    <3>3. /\ keyRow[KeyOf(req[w])] # Null
          /\ keyRow[KeyOf(req[w])].response = ResultOf(w)
      BY <3>1 DEF KeyInv, ResultsAreStored
    <3>. QED
      BY <3>1, <3>2, <3>3 DEF KeyOf
  <2>2. CASE Replay(w)
    <3>1. /\ req' = req /\ keyRow' = keyRow /\ pc[w] = "replay"
          /\ reply'[w] =
               [code |-> "replayed", response |-> keyRow[KeyOf(req[w])].response]
      BY <1>0, <2>2 DEF Replay, RolledBack
    <3>2. req[w] \in Requests /\ keyRow[KeyOf(req[w])] # Null
      BY <1>0, <3>1 DEF TypeInv, WorkersAreEquipped
    <3>. QED
      BY <3>1, <3>2 DEF KeyOf
  <2>3. CASE \/ Begin(w) \/ SelectInFlight(w) \/ LotNotFound(w) \/ RejectBid(w)
             \/ ForceUnlock(w)
    <3>1. \A code : Refusal(code).code = code
      BY DEF Refusal
    <3>2. reply'[w] = Null \/ reply'[w].code \in RejectionCode \cup
            {"concurrent_request", "lot_not_found", "error"}
      BY <1>0, <2>3, <3>1, RejectionType
      DEF Begin, SelectInFlight, LotNotFound, RejectBid, ForceUnlock
    <3>. QED
      BY <1>3, <3>2 DEF RejectionCode
  <2>4. CASE ~(\/ Begin(w) \/ SelectInFlight(w) \/ LotNotFound(w) \/ RejectBid(w)
               \/ ForceUnlock(w) \/ Replay(w) \/ Publish(w))
    <3>1. reply' = reply /\ req' = req
      BY <2>4
      DEF WorkerStep, WorkerFailure, InsertKey, InsertFindsKey, SelectCompleted,
          LockLot, AcceptBid, ProxyCounters, RecordBid, Commit, StatementFails,
          CommitUnacknowledged
    <3>2. /\ keyRow[KeyOf(req[w])] # Null
          /\ keyRow[KeyOf(req[w])].response = reply[w].response
          /\ req[w] \in Requests /\ KeyOf(req[w]) \in KeyIds
      BY <1>3, <3>1, RequestType DEF KeyInv, AnswersAreStored
    <3>. QED
      BY <1>0, <3>1, <3>2, ResponsesStay DEF KeyOf
  <2>. QED
    BY <2>1, <2>2, <2>3, <2>4
<1>4. ASSUME NEW v \in Workers \ {w}, pc'[v] = "publish"
      PROVE  /\ keyRow'[KeyOf(req'[v])] # Null
             /\ keyRow'[KeyOf(req'[v])].response = ResultOf(v)'
  <2>1. pc[v] = "publish" /\ req'[v] = req[v] /\ work'[v] = work[v]
    BY <1>1, <1>4
  <2>2. /\ keyRow[KeyOf(req[v])] # Null
        /\ keyRow[KeyOf(req[v])].response = ResultOf(v)
        /\ KeyOf(req[v]) \in KeyIds
    BY <1>0, <2>1, RequestType DEF KeyInv, ResultsAreStored, TypeInv, WorkersAreEquipped
  <2>3. ResultOf(v)' = ResultOf(v)
    BY <2>1 DEF ResultOf, SnapshotOf
  <2>. QED
    BY <1>0, <2>1, <2>2, <2>3, ResponsesStay DEF KeyOf
<1>5. ASSUME NEW v \in Workers \ {w},
             reply'[v] # Null, reply'[v].code \in {"accepted", "replayed"}
      PROVE  /\ keyRow'[KeyOf(req'[v])] # Null
             /\ keyRow'[KeyOf(req'[v])].response = reply'[v].response
             /\ req'[v] \in Requests
  <2>1. req'[v] = req[v] /\ reply'[v] = reply[v]
    BY <1>1
  <2>2. /\ keyRow[KeyOf(req[v])] # Null
        /\ keyRow[KeyOf(req[v])].response = reply[v].response
        /\ req[v] \in Requests /\ KeyOf(req[v]) \in KeyIds
    BY <1>5, <2>1, RequestType DEF KeyInv, AnswersAreStored
  <2>. QED
    BY <1>0, <2>1, <2>2, ResponsesStay DEF KeyOf
<1>6. ResultsAreStored'
  BY <1>2, <1>4 DEF ResultsAreStored
<1>7. AnswersAreStored'
  BY <1>3, <1>5 DEF AnswersAreStored
<1>. QED
  BY <1>6, <1>7

(* Initially no key is stored and nobody is answered.                      *)
LEMMA KeysInit ==
  BidInit => OneBidPerKey /\ KeysTellOfBids /\ ResultsAreStored /\ AnswersAreStored
<1>. SUFFICES ASSUME BidInit
              PROVE  OneBidPerKey /\ KeysTellOfBids /\ ResultsAreStored /\ AnswersAreStored
  OBVIOUS
<1>1. ASSUME NEW k \in KeyIds PROVE KeyMatchesBids(k)
  <2>1. \A l \in Lots : DOMAIN bids[l] = {}
    BY DEF BidInit, StoreInit
  <2>2. Entered(k) = {}
    BY <2>1 DEF Entered
  <2>. QED
    BY <2>2 DEF KeyMatchesBids, BidInit, KeyInit
<1>2. OneBidPerKey
  BY <1>1, KeysMatch
<1>. QED
  BY <1>2
  DEF BidInit, KeyInit, KeysTellOfBids, ResultsAreStored, AnswersAreStored

(* A step that touches neither bids nor keys nor workers touches nothing   *)
(* of the promise.                                                         *)
LEMMA KeysUntouched ==
  ASSUME KeyInv, EntryInv', UNCHANGED <<bids, keyRow, pc, req, work, reply>>
  PROVE  KeyInv'
<1>1. OneBidPerKey'
  BY DEF KeyInv, OneBidPerKey
<1>2. KeysTellOfBids'
  <2>1. ASSUME NEW CONSTANT k \in KeyIds PROVE Entered(k)' = Entered(k)
    BY DEF Entered
  <2>. QED
    BY <2>1 DEF KeyInv, KeysTellOfBids
<1>3. ResultsAreStored'
  BY DEF KeyInv, ResultsAreStored, ResultOf, SnapshotOf, KeyOf
<1>4. AnswersAreStored'
  BY DEF KeyInv, AnswersAreStored, KeyOf
<1>. QED
  BY <1>1, <1>2, <1>3, <1>4 DEF KeyInv

(* The strengthened promise about keys holds from the start and is kept.   *)
LEMMA KeyInvHolds == BidSpec => []KeyInv
<1>1. EntryInv' /\ KeyInv /\ [BidNext]_bidVars => KeyInv'
  <2>. SUFFICES ASSUME EntryInv', KeyInv, [BidNext]_bidVars PROVE KeyInv'
    OBVIOUS
  <2>1. CASE BidStep
    BY <2>1, StepKeepsKeys, StepKeepsAnswers DEF BidStep, KeyInv
  <2>2. CASE UNCHANGED <<bids, keyRow, pc, req, work, reply>>
    BY <2>2, KeysUntouched
  <2>. QED
    BY <2>1, <2>2
    DEF BidNext, AllAnswered, ClockTicks, bidVars, storeVars, keyVars, workerVars
<1>. QED
  BY <1>1, KeysInit, EntryInvHolds, PTL DEF BidSpec, KeyInv

(* What is stored under a key is what its clients are told, and it names   *)
(* one of the bids of the key.                                             *)
LEMMA KeysGiveAnswers == KeyInv => AnswersAreDurable
<1>. SUFFICES ASSUME KeyInv, NEW w \in Workers, reply[w] # Null,
                     reply[w].code \in {"accepted", "replayed"}
              PROVE  LET k == KeyOf(req[w])
                         answer == reply[w].response
                     IN /\ keyRow[k] # Null
                        /\ keyRow[k].response = answer
                        /\ \E l \in Lots :
                             /\ answer.bid \in DOMAIN bids[l]
                             /\ <<bids[l][answer.bid].key,
                                  bids[l][answer.bid].bidder>> = k
  BY DEF AnswersAreDurable
<1>. DEFINE k == KeyOf(req[w])
<1>1. /\ keyRow[k] # Null /\ keyRow[k].response = reply[w].response
      /\ k \in KeyIds
  BY RequestType DEF KeyInv, AnswersAreStored
<1>2. PICK l \in Lots : <<l, keyRow[k].response.bid>> \in Entered(k)
  BY <1>1 DEF KeyInv, KeysTellOfBids
<1>3. /\ keyRow[k].response.bid \in DOMAIN bids[l]
      /\ <<bids[l][keyRow[k].response.bid].key,
           bids[l][keyRow[k].response.bid].bidder>> = k
  BY <1>2, EnteredMembers
<1>. QED
  BY <1>1, <1>3

(* However many workers serve the same request at once or again, after     *)
(* rollbacks and lost acknowledgements, a key enters at most one bid, and  *)
(* it is stored, ready to be replayed, exactly when that bid is committed. *)
THEOREM KeysEnterOnce == BidSpec => []OneBidPerKey
<1>1. KeyInv => OneBidPerKey
  BY DEF KeyInv
<1>. QED
  BY <1>1, KeyInvHolds, PTL

(* Every success that processBid answers, the first time or as a replay,   *)
(* is the response stored under the key, and it names a committed bid of   *)
(* that key: later steps of whatever worker never make it untrue.          *)
THEOREM AnswersStayTrue == BidSpec => []AnswersAreDurable
BY KeyInvHolds, KeysGiveAnswers, PTL

-----------------------------------------------------------------------------
(* Published messages.                                                     *)

(* The messages sent are true, and so are those about to be sent.          *)
FeedInv == EntryInv /\ NewsIsCommitted /\ FeedTellsOfCommittedBids

(* What is committed, or published, before a step is so after it.          *)
LEMMA StepKeepsNews ==
  ASSUME FeedInv, NEW w \in Workers, Begin(w) \/ WorkerStep(w) \/ WorkerFailure(w)
  PROVE  NewsIsCommitted' /\ FeedTellsOfCommittedBids'
<1>. USE DEF Goes
<1>0. /\ pc \in [Workers -> InTransaction \cup {"idle", "publish", "unlock"}]
      /\ DOMAIN work = Workers /\ DOMAIN req = Workers
      /\ TypeInv /\ EntryInv /\ feed \subseteq Message
  BY DEF FeedInv, EntryInv, BookInv, TypeInv, BidTypeOK, StoreTypeOK
<1>1. ASSUME NEW l \in Lots, NEW i \in DOMAIN bids[l]
      PROVE  i \in DOMAIN bids'[l] /\ bids'[l][i].amount = bids[l][i].amount
  BY <1>0, BidsGrow DEF SameEntry
<1>2. ASSUME NEW v \in Workers, pc[v] = "publish", UNCHANGED <<req, work>>
      PROVE  LET book == bids'[req'[v].lot]
                 row == work'[v].lot
             IN row.bidCount \in DOMAIN book /\ book[row.bidCount].amount = row.currentBid
  <2>1. /\ req[v].lot \in Lots
        /\ work[v].lot.bidCount \in DOMAIN bids[req[v].lot]
        /\ bids[req[v].lot][work[v].lot.bidCount].amount = work[v].lot.currentBid
    BY <1>0, <1>2 DEF FeedInv, NewsIsCommitted, TypeInv, WorkersAreEquipped
  <2>. QED
    BY <1>1, <1>2, <2>1
<1>3. NewsIsCommitted'
  <2>. SUFFICES ASSUME NEW v \in Workers, pc'[v] = "publish"
                PROVE  LET book == bids'[req'[v].lot]
                           row == work'[v].lot
                       IN /\ row.bidCount \in DOMAIN book
                          /\ book[row.bidCount].amount = row.currentBid
    BY DEF NewsIsCommitted
  <2>1. CASE v = w
    <3>1. Commit(w)
      BY <1>0, <2>1
      DEF WorkerStep, WorkerFailure, Begin, InsertKey, InsertFindsKey, SelectCompleted,
          SelectInFlight, Replay, LockLot, LotNotFound, RejectBid, AcceptBid,
          ProxyCounters, RecordBid, Publish, ForceUnlock, StatementFails,
          CommitUnacknowledged
    <3>2. /\ pc[w] = "commit" /\ Committed(w) /\ UNCHANGED <<req, work>>
      BY <3>1 DEF Commit
    <3>3. /\ bids'[req[w].lot] = work[w].bids
          /\ RowAgreesWithBids(work[w].lot, work[w].bids)
          /\ Continues(work[w], req[w], lot[req[w].lot], bids[req[w].lot])
          /\ work[w] \in Work /\ req[w].lot \in Lots
      BY <1>0, <3>2, CommitterHolds, CommittedTables
    <3>4. /\ DOMAIN work[w].bids = 1..Len(work[w].bids)
          /\ Len(work[w].bids) \in Nat /\ Len(bids[req[w].lot]) \in Nat
      BY <1>0, <3>3, LenProperties DEF Work, TypeInv, BidTypeOK, StoreTypeOK
    <3>5. Len(work[w].bids) >= 1 /\ work[w].bids # <<>>
      BY <3>3, <3>4, EmptySeq DEF Continues
    <3>6. /\ work[w].lot.bidCount = Len(work[w].bids)
          /\ work[w].bids[Len(work[w].bids)].amount = work[w].lot.currentBid
      BY <3>3, <3>5 DEF RowAgreesWithBids
    <3>. QED
      BY <2>1, <3>2, <3>3, <3>4, <3>5, <3>6
  <2>2. CASE v # w
    <3>1. pc[v] = "publish" /\ req'[v] = req[v] /\ work'[v] = work[v]
      BY <1>0, <2>2
      DEF WorkerStep, WorkerFailure, Begin, InsertKey, InsertFindsKey, SelectCompleted,
          SelectInFlight, Replay, LockLot, LotNotFound, RejectBid, AcceptBid,
          ProxyCounters, RecordBid, Commit, Publish, ForceUnlock, StatementFails,
          CommitUnacknowledged, RolledBack
    <3>2. /\ req[v].lot \in Lots
          /\ work[v].lot.bidCount \in DOMAIN bids[req[v].lot]
          /\ bids[req[v].lot][work[v].lot.bidCount].amount = work[v].lot.currentBid
      BY <1>0, <3>1 DEF FeedInv, NewsIsCommitted, TypeInv, WorkersAreEquipped
    <3>. QED
      BY <1>1, <3>1, <3>2
  <2>. QED
    BY <2>1, <2>2
<1>4. FeedTellsOfCommittedBids'
  <2>. SUFFICES ASSUME NEW m \in feed', m.type = "BID_ACCEPTED"
                PROVE  /\ m.count \in DOMAIN bids'[m.lot]
                       /\ bids'[m.lot][m.count].amount = m.price
    BY DEF FeedTellsOfCommittedBids
  <2>1. CASE m \in feed
    <3>1. m.lot \in Lots
      BY <1>0, <2>1 DEF Message
    <3>. QED
      BY <1>1, <2>1, <3>1 DEF FeedInv, FeedTellsOfCommittedBids
  <2>2. CASE m \notin feed
    <3>1. Publish(w)
      BY <1>0, <2>2, QuietStep, CommittedTables
      DEF Commit, CommitUnacknowledged
    <3>2. pc[w] = "publish" /\ m \in MessagesOf(w) /\ UNCHANGED bids
      BY <2>2, <3>1 DEF Publish
    <3>3. /\ m.lot = req[w].lot /\ m.price = work[w].lot.currentBid
          /\ m.count = work[w].lot.bidCount
      BY <3>2 DEF MessagesOf
    <3>. QED
      BY <3>2, <3>3 DEF FeedInv, NewsIsCommitted
  <2>. QED
    BY <2>1, <2>2
<1>. QED
  BY <1>3, <1>4

(* Nobody is told of a bid by a step that touches neither bids nor workers *)
(* and publishes other messages at most.                                   *)
LEMMA NewsUntouched ==
  ASSUME NewsIsCommitted, FeedTellsOfCommittedBids, UNCHANGED <<bids, pc, req, work>>,
         \A m \in feed' : m \in feed \/ m.type # "BID_ACCEPTED"
  PROVE  NewsIsCommitted' /\ FeedTellsOfCommittedBids'
BY DEF NewsIsCommitted, FeedTellsOfCommittedBids

(* Initially nothing is told.                                              *)
LEMMA NewsInit == BidInit => NewsIsCommitted /\ FeedTellsOfCommittedBids
BY DEF BidInit, StoreInit, NewsIsCommitted, FeedTellsOfCommittedBids

(* A message that a bid was accepted carries the number and the amount of  *)
(* a bid that is in the tables, although it is put together from variables *)
(* of processBid after the locks are gone.                                 *)
THEOREM FeedIsTrue == BidSpec => []FeedTellsOfCommittedBids
<1>1. FeedInv /\ [BidNext]_bidVars => NewsIsCommitted' /\ FeedTellsOfCommittedBids'
  <2>. SUFFICES ASSUME FeedInv, [BidNext]_bidVars
                PROVE  NewsIsCommitted' /\ FeedTellsOfCommittedBids'
    OBVIOUS
  <2>1. CASE BidStep
    BY <2>1, StepKeepsNews DEF BidStep
  <2>2. CASE UNCHANGED <<bids, feed, pc, req, work>>
    BY <2>2, NewsUntouched DEF FeedInv
  <2>. QED
    BY <2>1, <2>2
    DEF BidNext, AllAnswered, ClockTicks, bidVars, storeVars, keyVars, workerVars
<1>2. FeedInv => FeedTellsOfCommittedBids
  BY DEF FeedInv
<1>. QED
  BY <1>1, <1>2, NewsInit, EntryInvHolds, PTL DEF BidSpec, FeedInv

-----------------------------------------------------------------------------
(* The bid processor implements LotLedger: a COMMIT raises one lot by the  *)
(* bids of its transaction, and every other step is a stutter.             *)

Entry == [bidder: Bidders, amount: Nat]

(* The lot's entry in the book, price list and outcomes of the ledger.     *)
EntryOf(b) == [bidder |-> b.bidder, amount |-> b.amount]
BookOf(bs) == [i \in DOMAIN bs |-> EntryOf(bs[i])]
OutcomeOf(row) == IF row.status \in {"sold", "passed"} THEN row.status ELSE "running"

(* A book has an entry for every bid.                                      *)
LEMMA BookType ==
  ASSUME NEW bs \in Seq(BidRow)
  PROVE  /\ BookOf(bs) \in Seq(Entry)
         /\ Len(BookOf(bs)) = Len(bs)
         /\ \A i \in 1..Len(bs) : BookOf(bs)[i] = EntryOf(bs[i])
<1>1. DOMAIN bs = 1..Len(bs) /\ Len(bs) \in Nat
  BY LenProperties
<1>2. \A i \in 1..Len(bs) : EntryOf(bs[i]) \in Entry
  <2>1. \A b \in BidRow : EntryOf(b) \in Entry
    BY DEF BidRow, EntryOf, Entry
  <2>2. \A i \in 1..Len(bs) : bs[i] \in BidRow
    BY ElementOfSeq
  <2>. QED
    BY <2>1, <2>2
<1>3. BookOf(bs) \in [1..Len(bs) -> Entry]
  BY <1>1, <1>2 DEF BookOf
<1>4. BookOf(bs) \in Seq(Entry)
  BY <1>1, <1>3
<1>5. Len(BookOf(bs)) = Len(bs)
  BY <1>1, <1>3, <1>4, LenProperties
<1>. QED
  BY <1>1, <1>4, <1>5 DEF BookOf

(* A longer sequence with the same elements to begin with has the shorter  *)
(* one as a prefix.                                                        *)
LEMMA PrefixByElements ==
  ASSUME NEW S, NEW s \in Seq(S), NEW t \in Seq(S), Len(s) < Len(t),
         \A i \in 1..Len(s) : t[i] = s[i]
  PROVE  Ledger!IsStrictPrefix(s, t)
<1>. DEFINE n == Len(s)
<1>1. n \in Nat /\ Len(t) \in Nat /\ DOMAIN s = 1..n /\ DOMAIN t = 1..Len(t)
  BY LenProperties
<1>2. /\ \A i \in 1..n : s[i] \in S
      /\ \A i \in 1..n : t[i] \in S
  BY <1>1, ElementOfSeq
<1>3. /\ SubSeq(s, 1, n) \in Seq(S) /\ Len(SubSeq(s, 1, n)) = n
      /\ \A i \in 1..n : SubSeq(s, 1, n)[i] = s[i]
  <2>1. /\ SubSeq(s, 1, n) \in Seq(S)
        /\ Len(SubSeq(s, 1, n)) = IF 1 <= n THEN n - 1 + 1 ELSE 0
        /\ \A i \in 1 .. n - 1 + 1 : SubSeq(s, 1, n)[i] = s[1 + i - 1]
    BY <1>1, <1>2, SubSeqProperties
  <2>. QED
    BY <1>1, <2>1
<1>4. /\ SubSeq(t, 1, n) \in Seq(S) /\ Len(SubSeq(t, 1, n)) = n
      /\ \A i \in 1..n : SubSeq(t, 1, n)[i] = t[i]
  <2>1. /\ SubSeq(t, 1, n) \in Seq(S)
        /\ Len(SubSeq(t, 1, n)) = IF 1 <= n THEN n - 1 + 1 ELSE 0
        /\ \A i \in 1 .. n - 1 + 1 : SubSeq(t, 1, n)[i] = t[1 + i - 1]
    BY <1>1, <1>2, SubSeqProperties
  <2>. QED
    BY <1>1, <2>1
<1>. HIDE DEF n
<1>5. SubSeq(s, 1, n) = SubSeq(t, 1, n)
  <2>. DEFINE a == SubSeq(s, 1, n)
              b == SubSeq(t, 1, n)
  <2>1. a \in Seq(S) /\ b \in Seq(S) /\ Len(a) = Len(b)
    BY <1>3, <1>4
  <2>2. \A i \in 1..Len(a) : a[i] = b[i]
    BY <1>3, <1>4 DEF n
  <2>. HIDE DEF a, b
  <2>3. a = b
    BY <2>1, <2>2, SeqEqual
  <2>. QED
    BY <2>3 DEF a, b
<1>6. s # t
  BY <1>1 DEF n
<1>. QED
  BY <1>1, <1>5, <1>6 DEF Ledger!IsStrictPrefix, Ledger!IsPrefix, n

(* Steps of the ledger, in terms of the tables.                            *)

(* A lot whose row and bids stay keeps its place in the ledger.            *)
LEMMA LedgerKeeps ==
  ASSUME NEW CONSTANT l \in Lots, bids'[l] = bids[l],
         lot'[l].currentBid = lot[l].currentBid, OutcomeOf(lot'[l]) = OutcomeOf(lot[l])
  PROVE  Ledger!Keep(l)
BY DEF Ledger!Keep, OutcomeOf

(* What makes a step a raise.                                              *)
LEMMA LedgerRaises ==
  ASSUME NEW CONSTANT l \in Lots,
         OutcomeOf(lot[l]) = "running", OutcomeOf(lot'[l]) = "running",
         Ledger!IsStrictPrefix(BookOf(bids[l]), BookOf(bids'[l])),
         \A i \in Len(BookOf(bids[l])) + 1 .. Len(BookOf(bids'[l])) :
           BookOf(bids'[l])[i].amount >=
             GetMinimumNextBid(IF i = 1 THEN lot[l].currentBid
                               ELSE BookOf(bids'[l])[i - 1].amount),
         lot'[l].currentBid = BookOf(bids'[l])[Len(BookOf(bids'[l]))].amount
  PROVE  Ledger!Raise(l)
<1>. DEFINE old == BookOf(bids[l])
            new == BookOf(bids'[l])
<1>1. /\ old = [l_1 \in Lots |-> [i \in DOMAIN bids[l_1] |->
                 [bidder |-> bids[l_1][i].bidder, amount |-> bids[l_1][i].amount]]][l]
      /\ new = [l_1 \in Lots |-> [i \in DOMAIN bids'[l_1] |->
                 [bidder |-> bids'[l_1][i].bidder, amount |-> bids'[l_1][i].amount]]][l]
  BY DEF BookOf, EntryOf
<1>2. \A p : Ledger!GetMinimumNextBid(p) = GetMinimumNextBid(p)
  <2>1. ASSUME NEW p PROVE Ledger!TiersAbove(p) = TiersAbove(p)
    BY DEF Ledger!TiersAbove, TiersAbove
  <2>2. ASSUME NEW S PROVE Ledger!Min(S) = Min(S)
    BY Zenon DEF Ledger!Min, Min
  <2>. QED
    BY <2>1, <2>2
    DEF Ledger!GetMinimumNextBid, GetMinimumNextBid, Ledger!GetBidIncrement,
        GetBidIncrement
<1>. QED
  BY <1>1, <1>2 DEF Ledger!Raise, Ledger!Last, OutcomeOf

(* Two entries with the same bidder and amount are the same in the book.   *)
LEMMA SameEntries ==
  ASSUME NEW b, NEW c, SameEntry(b, c)
  PROVE  EntryOf(b) = EntryOf(c) /\ EntryOf(b).amount = c.amount
BY DEF SameEntry, EntryOf

(* COMMIT raises the worker's lot and keeps the others.                    *)
LEMMA CommitRaises ==
  ASSUME EntryInv, NEW w \in Workers, pc[w] = "commit", Committed(w),
         NEW CONSTANT l \in Lots
  PROVE  Ledger!Raise(l) \/ Ledger!Keep(l)
<1>1. /\ req[w].lot \in Lots /\ work[w] \in Work
      /\ RowAgreesWithBids(work[w].lot, work[w].bids)
      /\ Continues(work[w], req[w], lot[req[w].lot], bids[req[w].lot])
  BY CommitterHolds
<1>2. /\ l # req[w].lot => lot'[l] = lot[l] /\ bids'[l] = bids[l]
      /\ l = req[w].lot => lot'[l] = work[w].lot /\ bids'[l] = work[w].bids
  BY CommittedTables
<1>3. CASE l # req[w].lot
  BY <1>2, <1>3, LedgerKeeps
<1>4. CASE l = req[w].lot
  <2>. DEFINE n == Len(bids[l])
              m == Len(bids'[l])
              old == BookOf(bids[l])
              new == BookOf(bids'[l])
  <2>1. /\ lot[l].status \in Biddable /\ lot'[l].status \in Biddable
        /\ m >= n + 1
        /\ \A i \in 1..n : SameEntry(bids'[l][i], bids[l][i])
        /\ \A i \in n + 1 .. m :
             bids'[l][i].amount >=
               GetMinimumNextBid(IF i = 1 THEN lot[l].currentBid
                                 ELSE bids'[l][i - 1].amount)
    BY <1>1, <1>2, <1>4 DEF Continues, Biddable
  <2>2. bids[l] \in Seq(BidRow) /\ bids'[l] \in Seq(BidRow)
    BY <1>1, <1>2, <1>4 DEF EntryInv, BookInv, TypeInv, BidTypeOK, StoreTypeOK, Work
  <2>3. n \in Nat /\ m \in Nat
    BY <2>2, LenProperties
  <2>4. /\ old \in Seq(Entry) /\ new \in Seq(Entry) /\ Len(old) = n /\ Len(new) = m
        /\ \A i \in 1..n : old[i] = EntryOf(bids[l][i])
        /\ \A i \in 1..m : new[i] = EntryOf(bids'[l][i])
    BY <2>2, BookType
  <2>5. \A i \in 1..m : new[i].amount = bids'[l][i].amount
    <3>1. \A b : EntryOf(b).amount = b.amount
      BY DEF EntryOf
    <3>. QED
      BY <2>4, <3>1
  <2>. HIDE DEF n, m, old, new
  <2>6. Ledger!IsStrictPrefix(old, new)
    <3>1. \A i \in 1..n : new[i] = old[i]
      BY <2>1, <2>3, <2>4, SameEntries
    <3>2. Len(old) < Len(new)
      BY <2>1, <2>3, <2>4
    <3>. QED
      BY <2>4, <3>1, <3>2, PrefixByElements
  <2>7. ASSUME NEW i \in n + 1 .. m
        PROVE  new[i].amount >=
                 GetMinimumNextBid(IF i = 1 THEN lot[l].currentBid ELSE new[i - 1].amount)
    <3>1. i \in 1..m /\ (i # 1 => i - 1 \in 1..m)
      BY <2>3
    <3>. QED
      BY <2>1, <2>5, <3>1
  <2>8. lot'[l].currentBid = new[m].amount
    <3>1. m \in 1..m /\ bids'[l] # <<>>
      BY <2>1, <2>3, EmptySeq DEF m
    <3>2. bids'[l][m].amount = lot'[l].currentBid
      BY <1>1, <1>2, <1>4, <3>1 DEF RowAgreesWithBids, m
    <3>. QED
      BY <2>5, <3>1, <3>2
  <2>9. OutcomeOf(lot[l]) = "running" /\ OutcomeOf(lot'[l]) = "running"
    BY <2>1 DEF OutcomeOf, Biddable
  <2>. QED
    BY <2>4, <2>6, <2>7, <2>8, <2>9, LedgerRaises DEF old, new
<1>. QED
  BY <1>3, <1>4

(* Every step of a worker keeps or raises every lot.                       *)
LEMMA WorkerStepLedger ==
  ASSUME EntryInv, NEW w \in Workers, Begin(w) \/ WorkerStep(w) \/ WorkerFailure(w)
  PROVE  Ledger!LedgerNext
<1>. SUFFICES ASSUME NEW CONSTANT l \in Lots PROVE Ledger!Raise(l) \/ Ledger!Keep(l)
  BY DEF Ledger!LedgerNext
<1>1. CASE Commit(w) \/ CommitUnacknowledged(w)
  BY <1>1, CommitRaises DEF Commit, CommitUnacknowledged, Goes
<1>2. CASE ~Commit(w) /\ ~CommitUnacknowledged(w)
  BY <1>2, QuietStep, LedgerKeeps
<1>. QED
  BY <1>1, <1>2

(* The tables start as a ledger does.                                      *)
LEMMA LedgerStarts == BidInit => Ledger!LedgerInit
<1>. SUFFICES ASSUME BidInit PROVE Ledger!LedgerInit
  OBVIOUS
<1>1. \A l \in Lots : lot[l] \in LotRow /\ bids[l] = <<>>
  BY TypeInvInit DEF TypeInv, BidTypeOK, StoreTypeOK, BidInit, StoreInit
<1>2. \A l \in Lots : lot[l].currentBid \in Nat
  BY <1>1 DEF LotRow
<1>. QED
  BY <1>1, <1>2 DEF Ledger!LedgerInit

(* The bid processor keeps the promises of LotLedger: the book of a lot    *)
(* only grows, each entry is at least the minimum after the one before it, *)
(* the price is the last entry, and a lot that is closed changes no more,  *)
(* whoever bids, however the requests interleave and whatever fails.       *)
THEOREM LedgerIsKept == BidSpec => KeepsTheLedger
<1>1. EntryInv /\ [BidNext]_bidVars => [Ledger!LedgerNext]_(Ledger!ledgerVars)
  <2>. SUFFICES ASSUME EntryInv, [BidNext]_bidVars
                PROVE  [Ledger!LedgerNext]_(Ledger!ledgerVars)
    OBVIOUS
  <2>1. CASE BidStep
    BY <2>1, WorkerStepLedger DEF BidStep
  <2>2. CASE UNCHANGED <<lot, bids>>
    BY <2>2 DEF Ledger!ledgerVars
  <2>. QED
    BY <2>1, <2>2
    DEF BidNext, AllAnswered, ClockTicks, bidVars, storeVars
<1>. QED
  BY <1>1, LedgerStarts, EntryInvHolds, PTL
  DEF BidSpec, KeepsTheLedger, Ledger!LedgerSpec

-----------------------------------------------------------------------------
(* What a step leaves in the hands of its worker.                          *)

MeetsReserve(r) == ReservePrice[r.lot] # Null /\ r.amount >= ReservePrice[r.lot]

(* The reserve is compared once, with the amount of the request.           *)
LEMMA ReserveMetOnce ==
  ASSUME NEW wk \in Work, NEW placed, now \in Nat
  PROVE  /\ \A r : WithBid(wk, r, placed).reserveMet = MeetsReserve(r)
         /\ \A p : WithCounter(wk, p, placed).reserveMet = wk.reserveMet
         /\ \A i \in Nat : Extended(wk, i).reserveMet = wk.reserveMet
<1>1. ASSUME NEW r PROVE WithBid(wk, r, placed).reserveMet = MeetsReserve(r)
  <2>. DEFINE inserted == Append(wk.bids, BidOf(r, placed))
              entered == IF wk.lot.winner \in {Null, r.bidder} THEN inserted
                         ELSE Outbid(inserted, wk.lot.winner)
              row == Led(wk.lot, r.bidder, r.amount)
              pos == Len(wk.bids) + 1
              met == MeetsReserve(r)
  <2>1. WithBid(wk, r, placed) =
          [wk EXCEPT !.lot = row, !.bids = entered, !.bid = pos, !.reserveMet = met]
    BY Zenon DEF WithBid, BidOf, MeetsReserve
  <2>. HIDE DEF entered, row, pos
  <2>. QED
    BY <2>1 DEF Work
<1>2. ASSUME NEW p PROVE WithCounter(wk, p, placed).reserveMet = wk.reserveMet
  <2>. DEFINE row == Led(wk.lot, wk.bids[p].bidder, GetMinimumNextBid(wk.lot.currentBid))
              more == Append(Outbid(wk.bids, wk.lot.winner), CounterOf(wk, p, placed))
              round == wk.iterations + 1
  <2>1. WithCounter(wk, p, placed) =
          [wk EXCEPT !.lot = row, !.bids = more, !.iterations = round]
    BY Zenon DEF WithCounter, CounterOf
  <2>. HIDE DEF row, more, round
  <2>. QED
    BY <2>1 DEF Work
<1>3. ASSUME NEW i \in Nat PROVE Extended(wk, i).reserveMet = wk.reserveMet
  <2>. DEFINE deadline == wk.lot.closingAt + AntiSnipeExtension
              row == [[wk.lot EXCEPT !.closingAt = deadline] EXCEPT !.status = "open"]
              more == Append(wk.events, EventOf("ANTI_SNIPE_TRIGGERED", i, deadline))
  <2>1. wk.lot \in LotRow
    BY DEF Work
  <2>2. \/ Extended(wk, i) = wk
        \/ Extended(wk, i) = [wk EXCEPT !.lot = row, !.events = more, !.extended = TRUE]
    BY <2>1 DEF Extended, Work, LotRow
  <2>. HIDE DEF row, more
  <2>. QED
    BY <2>2 DEF Work
<1>. QED
  BY <1>1, <1>2, <1>3

(* The price, the leader and the reserve of a version in progress.         *)
Leads(wk, bidder, amount, met) ==
  /\ wk.lot.winner = bidder /\ wk.lot.currentBid = amount /\ wk.reserveMet = met

(* A worker has come to resolve with the bid of its request,               *)
HandsAccepted(w) ==
  LET r == req[w] IN
  /\ Rejection(r, lot[r.lot]) = "none"
  /\ work[w] \in Work /\ work[w].bids = bids[r.lot]
  /\ work'[w].bids = WithBid(work[w], r, startedAt[w]).bids
  /\ Leads(work'[w], r.bidder, r.amount, MeetsReserve(r))

(* stays there with a counter bid for the proxy bid at p, ...              *)
HandsCountered(w, p) ==
  LET wk == work[w] IN
  /\ pc[w] = "resolve"
  /\ wk \in Work /\ p \in Counters(wk)
  /\ work'[w].bids = Append(Outbid(wk.bids, wk.lot.winner), CounterOf(wk, p, startedAt[w]))
  /\ Leads(work'[w], wk.bids[p].bidder, GetMinimumNextBid(wk.lot.currentBid), wk.reserveMet)

(* ... or is about to commit what it has.                                  *)
HandsKept(w) ==
  /\ pc[w] = "resolve"
  /\ work'[w].bids = work[w].bids
  /\ Leads(work'[w], work[w].lot.winner, work[w].lot.currentBid, work[w].reserveMet)

(* A worker comes to resolve and to commit in these three ways only, and   *)
(* has no part in what the others have in hand.                            *)
LEMMA HandsMove ==
  ASSUME EntryInv, NEW w \in Workers, Begin(w) \/ WorkerStep(w) \/ WorkerFailure(w)
  PROVE  /\ pc'[w] \in {"resolve", "commit"} =>
              /\ UNCHANGED <<lot, bids, feed>> /\ req'[w] = req[w] /\ req[w] \in Requests
              /\ req[w].lot \in Lots /\ startedAt[w] \in Time
              /\ HandsAccepted(w) \/ (\E p : HandsCountered(w, p)) \/ HandsKept(w)
         /\ \A v \in Workers \ {w} :
              pc'[v] = pc[v] /\ work'[v] = work[v] /\ req'[v] = req[v]
<1>. DEFINE Comes ==
       /\ UNCHANGED <<lot, bids, feed>> /\ req'[w] = req[w] /\ req[w] \in Requests
       /\ req[w].lot \in Lots /\ startedAt[w] \in Time
       /\ HandsAccepted(w) \/ (\E p : HandsCountered(w, p)) \/ HandsKept(w)
<1>. USE DEF Goes
<1>0. /\ pc \in [Workers -> InTransaction \cup {"idle", "publish", "unlock"}]
      /\ DOMAIN work = Workers /\ DOMAIN req = Workers
      /\ now \in Nat /\ startedAt[w] \in Time
  BY DEF EntryInv, BookInv, TypeInv, BidTypeOK, StoreTypeOK, Time
<1>1. ASSUME AcceptBid(w) PROVE Comes
  <2>. DEFINE with == WithBid(work[w], req[w], startedAt[w])
              new == Extended(with, with.bid)
              met == MeetsReserve(req[w])
  <2>1. /\ work[w] \in Work /\ req[w] \in Requests /\ req[w].lot \in Lots
        /\ work[w].lot \in LotRow
    BY <1>1 DEF AcceptBid, EntryInv, BookInv, TypeInv, WorkersAreEquipped, Work
  <2>2. work[w].bids = bids[req[w].lot] /\ work[w].lot = lot[req[w].lot]
    <3>1. work[w] = WorkOn(req[w].lot)
      BY <1>1 DEF AcceptBid, EntryInv, BookInv, LocksProtectTheWork, WorkIsProtected
    <3>. QED
      BY <3>1 DEF WorkOn
  <2>3. req[w].bidder \in Bidders /\ req[w].amount \in Nat
    BY <2>1, RequestType
  <2>4. /\ with \in Work /\ with.bid \in Nat
        /\ with.lot = Led(work[w].lot, req[w].bidder, req[w].amount)
        /\ with.reserveMet = met
    <3>1. with.reserveMet = met
      BY <1>0, <2>1, ReserveMetOnce
    <3>2. /\ with \in Work
          /\ with.lot = Led(work[w].lot, req[w].bidder, req[w].amount)
      BY <1>0, <2>1, WithBidProperties
    <3>3. with.bid \in Nat
      BY <3>2 DEF Work
    <3>. QED
      BY <3>1, <3>2, <3>3
  <2>5. Leads(with, req[w].bidder, req[w].amount, met)
    BY <2>1, <2>3, <2>4, LedType DEF Leads
  <2>6. work' = [work EXCEPT ![w] = new]
    BY <1>1, Zenon DEF AcceptBid
  <2>. HIDE DEF with, met
  <2>7. new.bids = with.bids /\ Leads(new, req[w].bidder, req[w].amount, met)
    BY <1>0, <2>4, <2>5, ExtendedType, ReserveMetOnce DEF Leads
  <2>. HIDE DEF new
  <2>8. work'[w] = new
    BY <1>0, <2>6
  <2>9. HandsAccepted(w)
    BY <1>1, <2>1, <2>2, <2>7, <2>8 DEF HandsAccepted, AcceptBid, with, met
  <2>. QED
    BY <1>0, <1>1, <2>1, <2>9 DEF AcceptBid, storeVars
<1>2. ASSUME ProxyCounters(w) PROVE Comes
  <2>1. PICK p \in Counters(work[w]) :
               work' = [work EXCEPT ![w] =
                 LET i == Len(work[w].bids) + 1
                     wk == Extended(WithCounter(work[w], p, startedAt[w]), i)
                     event == EventOf("PROXY_RESOLVED", i, wk.lot.currentBid)
                 IN [wk EXCEPT !.events = Append(@, event)]]
    BY <1>2 DEF ProxyCounters
  <2>. DEFINE i == Len(work[w].bids) + 1
              with == WithCounter(work[w], p, startedAt[w])
              wk == Extended(with, i)
              events1 == Append(wk.events, EventOf("PROXY_RESOLVED", i, wk.lot.currentBid))
              new == [wk EXCEPT !.events = events1]
              bidder == work[w].bids[p].bidder
              amount == GetMinimumNextBid(work[w].lot.currentBid)
              more == Append(Outbid(work[w].bids, work[w].lot.winner),
                             CounterOf(work[w], p, startedAt[w]))
  <2>2. /\ work[w] \in Work /\ req[w] \in Requests /\ req[w].lot \in Lots
        /\ work[w].bids \in Seq(BidRow) /\ work[w].lot \in LotRow
        /\ work[w].lot.currentBid \in Nat /\ pc[w] = "resolve"
    BY <1>2
    DEF ProxyCounters, EntryInv, BookInv, TypeInv, WorkersAreEquipped, Work, LotRow
  <2>3. p \in DOMAIN work[w].bids /\ p \in 1..Len(work[w].bids) /\ i \in Nat
    BY <2>2, LenProperties DEF Counters, BestProxies, Competing
  <2>4. bidder \in Bidders /\ amount \in Nat
    <3>1. work[w].bids[p] \in BidRow
      BY <2>2, <2>3, ElementOfSeq
    <3>. QED
      BY <2>2, <3>1, MinimumNextBidHigher DEF BidRow
  <2>5. /\ with \in Work /\ with.lot = Led(work[w].lot, bidder, amount)
        /\ with.bids = more /\ with.reserveMet = work[w].reserveMet
    BY <1>0, <2>2, <2>3, WithCounterProperties, ReserveMetOnce
  <2>. HIDE DEF bidder, amount, more, with, i
  <2>6. with.bids = more /\ Leads(with, bidder, amount, work[w].reserveMet)
    BY <2>2, <2>4, <2>5, LedType DEF Leads
  <2>7. /\ wk \in Work /\ wk.bids = more
        /\ Leads(wk, bidder, amount, work[w].reserveMet)
    BY <1>0, <2>3, <2>5, <2>6, ExtendedType, ReserveMetOnce DEF Leads
  <2>8. work' = [work EXCEPT ![w] = new]
    BY <2>1, Zenon DEF with, i
  <2>. HIDE DEF wk, events1
  <2>9. new.bids = more /\ Leads(new, bidder, amount, work[w].reserveMet)
    BY <2>7 DEF Work, Leads
  <2>. HIDE DEF new
  <2>10. work'[w] = new
    BY <1>0, <2>8
  <2>11. HandsCountered(w, p)
    BY <2>1, <2>2, <2>9, <2>10 DEF HandsCountered, more, bidder, amount
  <2>. QED
    BY <1>0, <1>2, <2>2, <2>11 DEF ProxyCounters, storeVars
<1>3. ASSUME RecordBid(w) PROVE Comes
  <2>. DEFINE events1 == Append(work[w].events,
                                EventOf("BID_ACCEPTED", work[w].bid, req[w].amount))
              new == [work[w] EXCEPT !.events = events1]
  <2>1. /\ work[w] \in Work /\ req[w] \in Requests /\ req[w].lot \in Lots
        /\ pc[w] = "resolve"
    BY <1>3 DEF RecordBid, EntryInv, BookInv, TypeInv, WorkersAreEquipped
  <2>2. work' = [work EXCEPT ![w] = new]
    BY <1>3, Zenon DEF RecordBid
  <2>. HIDE DEF events1
  <2>3. /\ new.bids = work[w].bids
        /\ Leads(new, work[w].lot.winner, work[w].lot.currentBid, work[w].reserveMet)
    BY <2>1 DEF Work, Leads
  <2>. HIDE DEF new
  <2>4. HandsKept(w)
    BY <1>0, <2>1, <2>2, <2>3 DEF HandsKept
  <2>. QED
    BY <1>0, <1>3, <2>1, <2>4 DEF RecordBid, storeVars
<1>4. ASSUME ~AcceptBid(w), ~ProxyCounters(w), ~RecordBid(w)
      PROVE  pc'[w] \notin {"resolve", "commit"}
  BY <1>0, <1>4
  DEF WorkerStep, WorkerFailure, Begin, InsertKey, InsertFindsKey, SelectCompleted,
      SelectInFlight, Replay, LockLot, LotNotFound, RejectBid, Commit, Publish, ForceUnlock,
      StatementFails, CommitUnacknowledged
<1>5. \A v \in Workers \ {w} : pc'[v] = pc[v] /\ work'[v] = work[v] /\ req'[v] = req[v]
  <2>1. CASE \/ Begin(w) \/ InsertKey(w) \/ InsertFindsKey(w) \/ SelectCompleted(w)
             \/ LockLot(w) \/ Commit(w) \/ Publish(w) \/ ForceUnlock(w)
             \/ CommitUnacknowledged(w)
    BY <1>0, <2>1
    DEF Begin, InsertKey, InsertFindsKey, SelectCompleted, LockLot, Commit, Publish,
        ForceUnlock, CommitUnacknowledged
  <2>2. CASE \/ SelectInFlight(w) \/ Replay(w) \/ LotNotFound(w) \/ RejectBid(w)
             \/ StatementFails(w)
    BY <1>0, <2>2
    DEF SelectInFlight, Replay, LotNotFound, RejectBid, StatementFails, RolledBack
  <2>3. CASE AcceptBid(w) \/ ProxyCounters(w) \/ RecordBid(w)
    BY <1>0, <2>3, Zenon DEF AcceptBid, ProxyCounters, RecordBid
  <2>. QED
    BY <2>1, <2>2, <2>3 DEF WorkerStep, WorkerFailure
<1>. QED
  BY <1>1, <1>2, <1>3, <1>4, <1>5

-----------------------------------------------------------------------------
(* What the bidders have allowed.                                          *)

(* CeilingsAreKept for one lot, whose bids may still be in hand.           *)
Within(bs) ==
  \A i \in DOMAIN bs :
    bs[i].type = "auto_increment" =>
      \E j \in 1 .. i - 1 :
        /\ bs[j].type = "proxy"
        /\ bs[j].bidder = bs[i].bidder
        /\ bs[j].max >= bs[i].amount

CeilingInv ==
  /\ CeilingsAreKept
  /\ \A w \in Workers : pc[w] \in {"resolve", "commit"} => Within(work[w].bids)

(* Bids stay within the ceilings when some of them are outbid.             *)
LEMMA OutbidWithin ==
  ASSUME NEW bs \in Seq(BidRow), Within(bs), NEW b
  PROVE  Within(Outbid(bs, b))
<1>1. DOMAIN bs = 1..Len(bs) /\ DOMAIN Outbid(bs, b) = 1..Len(bs) /\ Len(bs) \in Nat
  BY LenProperties DEF Outbid
<1>2. ASSUME NEW i \in 1..Len(bs)
      PROVE  /\ Outbid(bs, b)[i].type = bs[i].type
             /\ Outbid(bs, b)[i].max = bs[i].max
             /\ Outbid(bs, b)[i].bidder = bs[i].bidder
             /\ Outbid(bs, b)[i].amount = bs[i].amount
  <2>1. bs[i] \in BidRow
    BY ElementOfSeq
  <2>2. \/ Outbid(bs, b)[i] = bs[i]
        \/ Outbid(bs, b)[i] = [bs[i] EXCEPT !.status = "outbid"]
    BY OutbidProperties
  <2>. QED
    BY <2>1, <2>2 DEF BidRow
<1>3. ASSUME NEW i \in 1..Len(bs), bs[i].type = "auto_increment"
      PROVE  \E j \in 1 .. i - 1 :
               /\ Outbid(bs, b)[j].type = "proxy"
               /\ Outbid(bs, b)[j].bidder = Outbid(bs, b)[i].bidder
               /\ Outbid(bs, b)[j].max >= Outbid(bs, b)[i].amount
  <2>1. PICK j \in 1 .. i - 1 : /\ bs[j].type = "proxy"
                                /\ bs[j].bidder = bs[i].bidder
                                /\ bs[j].max >= bs[i].amount
    BY <1>1, <1>3 DEF Within
  <2>2. j \in 1..Len(bs)
    BY <1>1
  <2>. QED
    BY <1>2, <2>1, <2>2
<1>. QED
  BY <1>1, <1>2, <1>3 DEF Within

(* So they do when one more is added that is within a ceiling itself.      *)
LEMMA AppendWithin ==
  ASSUME NEW bs \in Seq(BidRow), Within(bs), NEW b \in BidRow,
         b.type = "auto_increment" =>
           \E j \in 1..Len(bs) :
             bs[j].type = "proxy" /\ bs[j].bidder = b.bidder /\ bs[j].max >= b.amount
  PROVE  Within(Append(bs, b))
<1>. DEFINE more == Append(bs, b)
<1>1. /\ Len(bs) \in Nat /\ DOMAIN bs = 1..Len(bs)
      /\ DOMAIN more = 1 .. Len(bs) + 1
      /\ more[Len(bs) + 1] = b
      /\ \A i \in 1..Len(bs) : more[i] = bs[i]
  BY LenProperties, AppendProperties
<1>. HIDE DEF more
<1>2. ASSUME NEW i \in 1 .. Len(bs) + 1, more[i].type = "auto_increment"
      PROVE  \E j \in 1 .. i - 1 : /\ more[j].type = "proxy"
                                    /\ more[j].bidder = more[i].bidder
                                    /\ more[j].max >= more[i].amount
  <2>1. CASE i = Len(bs) + 1
    <3>1. PICK j \in 1..Len(bs) :
            bs[j].type = "proxy" /\ bs[j].bidder = b.bidder /\ bs[j].max >= b.amount
      BY <1>1, <1>2, <2>1
    <3>2. j \in 1 .. i - 1
      BY <1>1, <2>1
    <3>. QED
      BY <1>1, <2>1, <3>1, <3>2
  <2>2. CASE i # Len(bs) + 1
    <3>1. i \in 1..Len(bs)
      BY <1>1, <2>2
    <3>2. PICK j \in 1 .. i - 1 : /\ bs[j].type = "proxy"
                                  /\ bs[j].bidder = bs[i].bidder
                                  /\ bs[j].max >= bs[i].amount
      BY <1>1, <1>2, <3>1 DEF Within
    <3>3. j \in 1..Len(bs)
      BY <1>1, <3>1
    <3>. QED
      BY <1>1, <3>1, <3>2, <3>3
  <2>. QED
    BY <2>1, <2>2
<1>. QED
  BY <1>1, <1>2 DEF Within, more

(* The bid of a request is no counter bid.                                 *)
LEMMA AcceptWithin ==
  ASSUME NEW wk \in Work, Within(wk.bids), NEW r \in Requests, NEW placed \in Time
  PROVE  Within(WithBid(wk, r, placed).bids)
<1>. DEFINE inserted == Append(wk.bids, BidOf(r, placed))
<1>1. wk.bids \in Seq(BidRow) /\ BidOf(r, placed) \in BidRow
  BY BidOfType DEF Work
<1>2. BidOf(r, placed).type # "auto_increment"
  BY RequestType DEF BidOf
<1>3. inserted \in Seq(BidRow) /\ Within(inserted)
  BY <1>1, <1>2, AppendProperties, AppendWithin
<1>4. WithBid(wk, r, placed).bids \in {inserted, Outbid(inserted, wk.lot.winner)}
  BY WithBidProperties
<1>. QED
  BY <1>3, <1>4, OutbidWithin

(* A proxy bid that the loop takes up can pay for its counter bid.         *)
LEMMA CounterWithin ==
  ASSUME NEW wk \in Work, Within(wk.bids), NEW p \in Counters(wk), NEW placed \in Time
  PROVE  Within(Append(Outbid(wk.bids, wk.lot.winner), CounterOf(wk, p, placed)))
<1>. DEFINE outbid == Outbid(wk.bids, wk.lot.winner)
            b == CounterOf(wk, p, placed)
<1>1. /\ wk.bids \in Seq(BidRow) /\ p \in DOMAIN wk.bids /\ p \in 1..Len(wk.bids)
      /\ wk.bids[p].type = "proxy"
      /\ wk.bids[p].max >= GetMinimumNextBid(wk.lot.currentBid)
  BY LenProperties DEF Work, Counters, BestProxies, Competing
<1>2. wk.bids[p] \in BidRow
  BY <1>1, ElementOfSeq
<1>3. /\ outbid \in Seq(BidRow) /\ Len(outbid) = Len(wk.bids) /\ Within(outbid)
      /\ outbid[p] = wk.bids[p]
  BY <1>1, OutbidProperties, OutbidWithin
<1>4. /\ b \in BidRow /\ b.bidder = wk.bids[p].bidder
      /\ b.amount = GetMinimumNextBid(wk.lot.currentBid)
  BY <1>1, CounterOfType DEF CounterOf
<1>. HIDE DEF outbid, b
<1>5. \E j \in 1..Len(outbid) :
        outbid[j].type = "proxy" /\ outbid[j].bidder = b.bidder /\ outbid[j].max >= b.amount
  <2>1. p \in 1..Len(outbid)
    BY <1>1, <1>3
  <2>2. outbid[p].max >= b.amount
    BY <1>1, <1>3, <1>4
  <2>. QED
    BY <1>1, <1>3, <1>4, <2>1, <2>2
<1>6. Within(Append(outbid, b))
  BY <1>3, <1>4, <1>5, AppendWithin
<1>. QED
  BY <1>6 DEF outbid, b

(* Every step of a worker.                                                 *)
LEMMA StepKeepsCeilings ==
  ASSUME EntryInv, CeilingInv, NEW w \in Workers,
         Begin(w) \/ WorkerStep(w) \/ WorkerFailure(w)
  PROVE  CeilingInv'
<1>1. \A l \in Lots : Within(bids[l])
  BY DEF CeilingInv, CeilingsAreKept, Within
<1>2. ASSUME pc'[w] \in {"resolve", "commit"} PROVE Within(work'[w].bids)
  <2>1. /\ req[w] \in Requests /\ req[w].lot \in Lots /\ startedAt[w] \in Time
        /\ HandsAccepted(w) \/ (\E p : HandsCountered(w, p)) \/ HandsKept(w)
    BY <1>2, HandsMove
  <2>2. CASE HandsAccepted(w)
    BY <1>1, <2>1, <2>2, AcceptWithin DEF HandsAccepted
  <2>3. ASSUME NEW p, HandsCountered(w, p) PROVE Within(work'[w].bids)
    BY <2>1, <2>3, CounterWithin DEF HandsCountered, CeilingInv
  <2>4. CASE HandsKept(w)
    BY <2>4 DEF HandsKept, CeilingInv
  <2>. QED
    BY <2>1, <2>2, <2>3, <2>4
<1>3. ASSUME NEW CONSTANT v \in Workers, pc'[v] \in {"resolve", "commit"}
      PROVE  Within(work'[v].bids)
  <2>1. CASE v # w
    <3>1. pc'[v] = pc[v] /\ work'[v] = work[v]
      BY <2>1, HandsMove
    <3>. QED
      BY <1>3, <3>1 DEF CeilingInv
  <2>. QED
    BY <1>2, <1>3, <2>1
<1>4. ASSUME NEW CONSTANT l \in Lots PROVE Within(bids'[l])
  <2>1. CASE Commit(w) \/ CommitUnacknowledged(w)
    <3>1. pc[w] = "commit" /\ Committed(w)
      BY <2>1 DEF Commit, CommitUnacknowledged, Goes
    <3>2. bids'[l] = bids[l] \/ bids'[l] = work[w].bids
      BY <3>1, CommittedTables
    <3>. QED
      BY <1>1, <3>1, <3>2 DEF CeilingInv
  <2>2. CASE ~Commit(w) /\ ~CommitUnacknowledged(w)
    BY <1>1, <2>2, QuietStep
  <2>. QED
    BY <2>1, <2>2
<1>. QED
  BY <1>3, <1>4 DEF CeilingInv, CeilingsAreKept, Within

(* A step that leaves bids and workers alone.                              *)
LEMMA CeilingsUntouched ==
  ASSUME CeilingInv, UNCHANGED <<bids, pc, work>>
  PROVE  CeilingInv'
BY DEF CeilingInv, CeilingsAreKept, Within

(* Initially there are no bids.                                            *)
LEMMA CeilingsInit == BidInit => CeilingInv
BY DEF BidInit, StoreInit, CeilingInv, CeilingsAreKept

(* However long a proxy war lasts, whoever starts it and however its       *)
(* rounds interleave with other submissions, the loop bids for a bidder    *)
(* only within the ceiling of a proxy bid of that bidder.                  *)
THEOREM CeilingsBind == BidSpec => []CeilingsAreKept
<1>1. EntryInv /\ CeilingInv /\ [BidNext]_bidVars => CeilingInv'
  <2>. SUFFICES ASSUME EntryInv, CeilingInv, [BidNext]_bidVars PROVE CeilingInv'
    OBVIOUS
  <2>1. CASE BidStep
    BY <2>1, StepKeepsCeilings DEF BidStep
  <2>2. CASE UNCHANGED <<bids, pc, work>>
    BY <2>2, CeilingsUntouched
  <2>. QED
    BY <2>1, <2>2 DEF BidNext, AllAnswered, ClockTicks, bidVars, storeVars, workerVars
<1>2. CeilingInv => CeilingsAreKept
  BY DEF CeilingInv
<1>. QED
  BY <1>1, <1>2, CeilingsInit, EntryInvHolds, PTL DEF BidSpec
=============================================================================
