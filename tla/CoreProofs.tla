----------------------------- MODULE CoreProofs -----------------------------
(***************************************************************************)
(* Proofs about AuctionCore: the bid processor, the lot closers and the    *)
(* operator's requests on the tables they share, for any number of each.   *)
(***************************************************************************)
EXTENDS AuctionCore, AuditProofs

-----------------------------------------------------------------------------
(* The invariants.                                                         *)

(* A closer holds the lots of its batch until it commits, as it read them. *)
ClosersHold ==
  \A c \in Closers : \A l \in Lots :
    /\ lotLock[l] = c <=> cpc[c] = "settling" /\ l \in DOMAIN batch[c]
    /\ lotLock[l] = c => batch[c][l] = lot[l] /\ lot[l].status = "closing"

(* An operator holds lots that its order is about.                         *)
Concerns(order, row) ==
  \/ order = "opening" /\ row.status = "pending"
  \/ order = "closing" /\ row.status = "open"

OperatorsHold ==
  \A o \in Operators : \A l \in Lots : lotLock[l] = o => Concerns(opc[o], lot[l])

TargetsOrdered == \A o \in Operators : opc[o] = "idle" => targets[o] = {}

CoreInv ==
  /\ EntryInv
  /\ CloserTypeOK /\ DOMAIN batch = Closers
  /\ LifecycleTypeOK
  /\ ClosersHold /\ OperatorsHold /\ TargetsOrdered

Closed == {"sold", "passed"}
Closings(es) == {e \in DOMAIN es : es[e].type \in {"LOT_SOLD", "LOT_PASSED"}}

(* No transaction of a bid writes that a lot is closed.                    *)
WorkClosesNothing ==
  \A w \in Workers :
    pc[w] \in {"resolve", "commit"} => Closings(work[w].events) = {}

(* The lot is closed as its row demands, with one event, and invoiced when *)
(* it is sold.                                                             *)
ClosedByItsRow(l) ==
  LET row == lot[l] IN
  /\ invoice[l] # Null <=> row.status = "sold"
  /\ row.status = "sold" =>
       /\ IsSold(l, row)
       /\ row.soldPrice = row.currentBid
       /\ invoice[l] = [bidder |-> row.winner, hammerPrice |-> row.currentBid]
  /\ row.status = "passed" => ~IsSold(l, row)
  /\ row.status \notin Closed => Closings(events[l]) = {}
  /\ row.status \in Closed => \E e \in DOMAIN events[l] : Closings(events[l]) = {e}

(* What was decided for a lot, and what is still to be announced, stands.  *)
IsClosedAs(row, price) ==
  IF price = Null THEN row.status = "passed"
  ELSE row.status = "sold" /\ row.soldPrice = price

BatchesStand ==
  \A c \in Closers : cpc[c] = "announcing" =>
    \A l \in DOMAIN batch[c] :
      IsClosedAs(lot[l], IF IsSold(l, batch[c][l]) THEN batch[c][l].currentBid ELSE Null)

SaleInv ==
  /\ CoreInv
  /\ WorkClosesNothing
  /\ \A l \in Lots : ClosedByItsRow(l)
  /\ BatchesStand /\ AnnouncementsStand

-----------------------------------------------------------------------------
(* Sessions do not interfere.                                              *)

(* A step of session s takes no lock from another session, and changes     *)
(* only lots that it holds.                                                *)
MindsLocks(s) ==
  \A l \in Lots :
    /\ \A t \in Sessions \ {s} : lotLock'[l] = t <=> lotLock[l] = t
    /\ lotLock[l] # s => UNCHANGED <<lot[l], bids[l], events[l]>>

OperatorTurn(o) == StartOpen(o) \/ StartClose(o) \/ Pause(o) \/ OperatorWork(o)
CloserTurn(c) == CloserWork(c) \/ CycleFails(c)
WorkerTurn(w) == Begin(w) \/ WorkerStep(w) \/ WorkerFailure(w)

(* Ending a transaction frees the locks of the session and no others.      *)
LEMMA FreedForOthers ==
  ASSUME NEW s, NEW t \in Sessions \ {s}, NEW l \in Lots
  PROVE  LotsFreed(s)[l] = t <=> lotLock[l] = t
BY StoreAssumption DEF LotsFreed

(* A step of processBid takes no lock from others and changes only lots    *)
(* that its worker has locked.                                             *)
LEMMA WorkerMindsLocks ==
  ASSUME EntryInv, NEW w \in Workers, WorkerTurn(w)
  PROVE  MindsLocks(w)
<1>1. lotLock \in [Lots -> Sessions \cup {Null}] /\ Null \notin Sessions
  BY StoreAssumption DEF EntryInv, BookInv, TypeInv, BidTypeOK, StoreTypeOK
<1>2. CASE Commit(w) \/ CommitUnacknowledged(w)
  <2>1. pc[w] = "commit" /\ Committed(w)
    BY <1>2 DEF Commit, CommitUnacknowledged, Goes
  <2>2. lotLock' = LotsFreed(w) /\ lotLock[req[w].lot] = w
    BY <2>1, CommitterHolds DEF Committed
  <2>. QED
    BY <2>1, <2>2, CommittedTables, FreedForOthers DEF MindsLocks
<1>3. CASE ~Commit(w) /\ ~CommitUnacknowledged(w)
  <2>1. UNCHANGED <<lot, bids, events>>
    BY <1>3, QuietStep DEF WorkerTurn
  <2>2. ASSUME NEW l \in Lots, NEW t \in Sessions \ {w}
        PROVE  lotLock'[l] = t <=> lotLock[l] = t
    <3>1. CASE \/ SelectInFlight(w) \/ Replay(w) \/ LotNotFound(w) \/ RejectBid(w)
               \/ StatementFails(w)
      BY <3>1, FreedForOthers
      DEF SelectInFlight, Replay, LotNotFound, RejectBid, StatementFails, RolledBack
    <3>2. CASE LockLot(w)
      BY <1>1, <3>2 DEF LockLot
    <3>3. CASE \/ Begin(w) \/ InsertKey(w) \/ InsertFindsKey(w) \/ SelectCompleted(w)
               \/ AcceptBid(w) \/ ProxyCounters(w) \/ RecordBid(w) \/ Publish(w)
               \/ ForceUnlock(w)
      BY <3>3
      DEF Begin, InsertKey, InsertFindsKey, SelectCompleted, AcceptBid, ProxyCounters,
          RecordBid, Publish, ForceUnlock, storeVars
    <3>. QED
      BY <1>3, <3>1, <3>2, <3>3 DEF WorkerTurn, WorkerStep, WorkerFailure
  <2>. QED
    BY <2>1, <2>2 DEF MindsLocks
<1>. QED
  BY <1>2, <1>3

(* Nor does a step of a closer.                                            *)
LEMMA CloserMindsLocks ==
  ASSUME CoreInv, NEW c \in Closers, CloserTurn(c)
  PROVE  MindsLocks(c)
<1>1. lotLock \in [Lots -> Sessions \cup {Null}] /\ Null \notin Sessions
  BY StoreAssumption DEF CoreInv, EntryInv, BookInv, TypeInv, BidTypeOK, StoreTypeOK
<1>2. CASE SelectDueLots(c)
  <2>. DEFINE free == {l \in Lots : IsDue(l) /\ lotLock[l] = Null}
  <2>1. PICK chosen \in SUBSET free :
               lotLock' = [l \in Lots |-> IF l \in chosen THEN c ELSE lotLock[l]]
    BY <1>2, Zenon DEF SelectDueLots, kSubset
  <2>. QED
    BY <1>1, <1>2, <2>1 DEF SelectDueLots, MindsLocks
<1>3. CASE SettleBatch(c)
  <2>1. \A l \in Lots : lotLock[l] # c => l \notin DOMAIN batch[c]
    BY <1>3 DEF CoreInv, ClosersHold, SettleBatch
  <2>2. \A l \in Lots : l \notin DOMAIN batch[c] =>
          lot'[l] = lot[l] /\ events'[l] = events[l] /\ bids'[l] = bids[l]
    BY <1>3 DEF SettleBatch
  <2>. QED
    BY <1>3, <2>1, <2>2, FreedForOthers DEF SettleBatch, MindsLocks
<1>4. CASE AnnounceBatch(c)
  BY <1>4 DEF AnnounceBatch, MindsLocks
<1>5. CASE CycleFails(c)
  BY <1>5, FreedForOthers DEF CycleFails, MindsLocks
<1>6. CASE ShareAuction(c)
  BY <1>6 DEF ShareAuction, storeVars, MindsLocks
<1>. QED
  BY <1>2, <1>3, <1>4, <1>5, <1>6 DEF CloserTurn, CloserWork

(* Nor does a step of an operator.                                         *)
LEMMA OperatorMindsLocks ==
  ASSUME CoreInv, NEW o \in Operators, OperatorTurn(o)
  PROVE  MindsLocks(o)
<1>1. lotLock \in [Lots -> Sessions \cup {Null}] /\ Null \notin Sessions
  BY StoreAssumption DEF CoreInv, EntryInv, BookInv, TypeInv, BidTypeOK, StoreTypeOK
<1>2. CASE StartOpen(o) \/ StartClose(o) \/ Pause(o)
  BY <1>2 DEF StartOpen, StartClose, StartOrder, Pause, storeVars, MindsLocks
<1>3. CASE VisitLot(o)
  BY <1>1, <1>3 DEF VisitLot, MindsLocks
<1>4. CASE FinishOpen(o)
  BY <1>4, FreedForOthers DEF FinishOpen, FinishOrder, Held, MindsLocks
<1>5. CASE FinishClose(o)
  BY <1>5, FreedForOthers DEF FinishClose, FinishOrder, Held, MindsLocks
<1>. QED
  BY <1>2, <1>3, <1>4, <1>5 DEF OperatorTurn, OperatorWork

(* What the price of a lot depends on.                                     *)
SamePrice(old, new) ==
  /\ new.currentBid = old.currentBid
  /\ new.winner = old.winner
  /\ new.bidCount = old.bidCount

(* A session that minds the locks, enters no bid and changes no price      *)
(* disturbs no bid in progress.                                            *)
LEMMA BidsUndisturbed ==
  ASSUME EntryInv, NEW s \in Sessions \ Workers, MindsLocks(s),
         UNCHANGED <<keyVars, workerVars, bids, now>>,
         lot' \in [Lots -> LotRow], events' \in [Lots -> Seq(EventRow)],
         lotLock' \in [Lots -> Sessions \cup {Null}], feed' \subseteq Message,
         \A l \in Lots : SamePrice(lot[l], lot'[l])
  PROVE  EntryInv'
<1>1. UNCHANGED <<keyRow, keyLock, pc, req, startedAt, work, reply, submitted, failures>>
  BY DEF keyVars, workerVars
<1>2. TypeInv'
  BY <1>1
  DEF EntryInv, BookInv, TypeInv, BidTypeOK, StoreTypeOK, WorkersAreEquipped
<1>3. ASSUME NEW w \in Workers, pc[w] \in {"validate", "resolve", "commit"}
      PROVE  LET l == req[w].lot IN
             /\ l \in Lots
             /\ lot'[l] = lot[l] /\ bids'[l] = bids[l] /\ events'[l] = events[l]
  <2>1. req[w].lot \in Lots
    BY <1>3 DEF EntryInv, BookInv, TypeInv, WorkersAreEquipped
  <2>2. lotLock[req[w].lot] = w
    BY <1>3, <2>1 DEF EntryInv, BookInv, LocksProtectTheWork, WorkIsProtected
  <2>. QED
    BY <2>1, <2>2 DEF MindsLocks
<1>4. LocksProtectTheWork'
  <2>. SUFFICES ASSUME NEW w \in Workers PROVE WorkIsProtected(w)'
    BY DEF LocksProtectTheWork
  <2>1. WorkIsProtected(w)
    BY DEF EntryInv, BookInv, LocksProtectTheWork
  <2>2. \A l \in Lots : lotLock'[l] = w <=> lotLock[l] = w
    BY BidAssumption DEF MindsLocks
  <2>3. pc[w] = "validate" =>
          work[w] = [lot |-> lot'[req[w].lot], bids |-> bids'[req[w].lot],
                     events |-> events'[req[w].lot], bid |-> 0, reserveMet |-> FALSE,
                     extended |-> FALSE, iterations |-> 0]
    BY <1>3, <2>1 DEF WorkIsProtected, WorkOn
  <2>. QED
    BY <1>1, <2>1, <2>2, <2>3 DEF WorkIsProtected, WorkOn
<1>5. LotAgreesWithBids' /\ WorkAgreesWithBids'
  <2>1. ASSUME NEW l \in Lots PROVE RowAgreesWithBids(lot'[l], bids'[l])
    BY DEF EntryInv, BookInv, LotAgreesWithBids, RowAgreesWithBids, SamePrice
  <2>. QED
    BY <1>1, <2>1
    DEF EntryInv, BookInv, LotAgreesWithBids, WorkAgreesWithBids, RowAgreesWithBids
<1>6. WorkContinues'
  <2>1. ASSUME NEW w \in Workers, pc'[w] \in {"resolve", "commit"}
        PROVE  Continues(work'[w], req'[w], lot'[req'[w].lot], bids'[req'[w].lot])
    <3>1. Continues(work[w], req[w], lot[req[w].lot], bids[req[w].lot])
      BY <1>1, <2>1 DEF EntryInv, WorkContinues
    <3>2. lot'[req[w].lot] = lot[req[w].lot] /\ bids'[req[w].lot] = bids[req[w].lot]
      BY <1>1, <1>3, <2>1
    <3>. QED
      BY <1>1, <3>1, <3>2
  <2>. QED
    BY <2>1 DEF WorkContinues, Continues, SameEntry
<1>7. KeysInHand'
  BY <1>1 DEF EntryInv, KeysInHand, KeyOf
<1>. QED
  BY <1>2, <1>4, <1>5, <1>6, <1>7 DEF EntryInv, BookInv

(* A step of one session leaves what the closers and the operators among   *)
(* the other sessions hold.                                                *)
LEMMA OtherClosersHold ==
  ASSUME CoreInv, NEW s \in Sessions, MindsLocks(s), NEW c \in Closers, c # s,
         cpc'[c] = cpc[c], batch'[c] = batch[c], NEW l \in Lots
  PROVE  /\ lotLock'[l] = c <=> cpc'[c] = "settling" /\ l \in DOMAIN batch'[c]
         /\ lotLock'[l] = c => batch'[c][l] = lot'[l] /\ lot'[l].status = "closing"
BY CloserAssumption DEF CoreInv, ClosersHold, MindsLocks

(* A step of another session leaves the lots that an order has visited as  *)
(* the order wants them.                                                   *)
LEMMA OtherOperatorsHold ==
  ASSUME CoreInv, NEW s \in Sessions, MindsLocks(s), NEW o \in Operators, o # s,
         opc'[o] = opc[o], NEW l \in Lots
  PROVE  lotLock'[l] = o => Concerns(opc'[o], lot'[l])
<1>1. o \in Sessions \ {s}
  BY LifecycleAssumption
<1>2. lotLock'[l] = o => lotLock[l] = o /\ lot'[l] = lot[l]
  BY <1>1 DEF MindsLocks
<1>3. lotLock[l] = o => Concerns(opc[o], lot[l])
  BY DEF CoreInv, OperatorsHold
<1>. QED
  BY <1>2, <1>3

-----------------------------------------------------------------------------
(* What the closer writes.                                                 *)

(* The row that closeLot leaves is closed, at the price the lot had.       *)
LEMMA ClosedRowFields ==
  ASSUME NEW l \in Lots, NEW row \in LotRow, lot[l] \in LotRow
  PROVE  LET new == ClosedRow(l, row) IN
         /\ new \in LotRow /\ SamePrice(lot[l], new)
         /\ new.status = IF IsSold(l, row) THEN "sold" ELSE "passed"
         /\ IsSold(l, row) => new.soldPrice = row.currentBid
<1>. DEFINE r1 == [lot[l] EXCEPT !.status = "sold"]
            r2 == [r1 EXCEPT !.soldPrice = row.currentBid]
            r3 == [lot[l] EXCEPT !.status = "passed"]
<1>1. row.currentBid \in Nat
  BY DEF LotRow
<1>2. r1 \in LotRow /\ SamePrice(lot[l], r1) /\ r1.status = "sold"
  BY DEF LotRow, LotStatus, SamePrice
<1>3. r3 \in LotRow /\ SamePrice(lot[l], r3) /\ r3.status = "passed"
  BY DEF LotRow, LotStatus, SamePrice
<1>4. r2 \in LotRow /\ SamePrice(lot[l], r2) /\ r2.status = "sold"
        /\ r2.soldPrice = row.currentBid
  <2>. HIDE DEF r1
  <2>. QED
    BY <1>1, <1>2 DEF LotRow, SamePrice
<1>5. ClosedRow(l, row) = IF IsSold(l, row) THEN r2 ELSE r3
  BY DEF ClosedRow, LotRow
<1>. HIDE DEF r2, r3
<1>. QED
  BY <1>3, <1>4, <1>5

(* The event that closeLot writes is the sale of the lot or its passing.   *)
LEMMA ClosingEventType ==
  ASSUME NEW l \in Lots, NEW row \in LotRow
  PROVE  /\ ClosingEvent(l, row) \in EventRow
         /\ ClosingEvent(l, row).type \in {"LOT_SOLD", "LOT_PASSED"}
<1>1. row.currentBid \in Nat
  BY DEF LotRow
<1>. QED
  BY <1>1 DEF ClosingEvent, EventRow

(* closeLot writes an invoice or leaves the one that is there.             *)
LEMMA InvoiceForType ==
  ASSUME NEW l \in Lots, NEW row \in LotRow, invoice[l] \in Invoice \cup {Null}
  PROVE  InvoiceFor(l, row) \in Invoice \cup {Null}
<1>1. row.currentBid \in Nat /\ row.winner \in Bidders \cup {Null}
  BY DEF LotRow
<1>. QED
  BY <1>1 DEF InvoiceFor, IsSold, Invoice

(* What is announced of a lot is a message.                                *)
LEMMA LotClosedType ==
  ASSUME NEW l \in Lots, NEW row \in LotRow
  PROVE  LotClosed(l, row) \in Message
<1>1. row.currentBid \in Nat
  BY DEF LotRow
<1>. QED
  BY <1>1 DEF LotClosed, Message

(* The row of a lot that an order is about.                                *)
LEMMA OrderedRowFields ==
  ASSUME NEW row \in LotRow, NEW status \in LotStatus, NEW deadline \in Time
  PROVE  LET new == [row EXCEPT !.status = status, !.closingAt = deadline] IN
         /\ new \in LotRow /\ SamePrice(row, new) /\ new.status = status
         /\ new.soldPrice = row.soldPrice
<1>. DEFINE r1 == [row EXCEPT !.status = status]
            r2 == [r1 EXCEPT !.closingAt = deadline]
<1>1. r1 \in LotRow /\ SamePrice(row, r1) /\ r1.status = status
        /\ r1.soldPrice = row.soldPrice
  BY DEF LotRow, SamePrice
<1>2. r2 \in LotRow /\ SamePrice(row, r2) /\ r2.status = status
        /\ r2.soldPrice = row.soldPrice
  <2>. HIDE DEF r1
  <2>. QED
    BY <1>1 DEF LotRow, SamePrice
<1>3. [row EXCEPT !.status = status, !.closingAt = deadline] = r2
  BY DEF LotRow
<1>. HIDE DEF r2
<1>. QED
  BY <1>2, <1>3

-----------------------------------------------------------------------------
(* Every step keeps the rows that each session holds in its hands.         *)

(* A step is one worker's, one closer's, one operator's or the clock's,    *)
(* and leaves the variables of the others alone.                           *)
LEMMA CoreSteps ==
  CoreNext =>
    \/ /\ \E w \in Workers : WorkerTurn(w)
       /\ UNCHANGED <<closerVars, lifecycleVars>>
    \/ /\ \E c \in Closers : CloserTurn(c)
       /\ UNCHANGED <<keyVars, workerVars, lifecycleVars>>
    \/ /\ \E o \in Operators : OperatorTurn(o)
       /\ UNCHANGED <<keyVars, workerVars, closerVars>>
    \/ ClockTicks /\ UNCHANGED <<keyVars, workerVars, closerVars, lifecycleVars>>
    \/ UNCHANGED coreVars
BY DEF CoreNext, BidStep, CloserStep, OperatorStep, AllDone, WorkerTurn, CloserTurn,
       OperatorTurn

(* A worker leaves the batches and the orders alone.                       *)
LEMMA WorkerKeepsCore ==
  ASSUME CoreInv, NEW w \in Workers, WorkerTurn(w),
         UNCHANGED <<closerVars, lifecycleVars>>
  PROVE  CoreInv'
<1>1. EntryInv'
  BY EntryInvKept DEF CoreInv, BidNext, BidStep, WorkerTurn
<1>2. MindsLocks(w) /\ w \in Sessions
  BY WorkerMindsLocks, BidAssumption DEF CoreInv
<1>3. /\ UNCHANGED <<cpc, batch, invoice, closerFailures, auctionShare>>
      /\ UNCHANGED <<auction, auctionLock, opc, openedAt, targets, orders>>
  BY DEF closerVars, lifecycleVars
<1>4. CloserTypeOK' /\ LifecycleTypeOK' /\ DOMAIN batch' = Closers
  BY <1>3 DEF CoreInv, CloserTypeOK, LifecycleTypeOK
<1>5. ClosersHold'
  <2>1. \A c \in Closers : c # w
    BY SessionAssumption
  <2>. QED
    BY <1>2, <1>3, <2>1, OtherClosersHold DEF ClosersHold
<1>6. OperatorsHold'
  <2>1. \A o \in Operators : o # w
    BY SessionAssumption
  <2>. QED
    BY <1>2, <1>3, <2>1, OtherOperatorsHold DEF OperatorsHold
<1>7. TargetsOrdered'
  BY <1>3 DEF CoreInv, TargetsOrdered
<1>. QED
  BY <1>1, <1>4, <1>5, <1>6, <1>7 DEF CoreInv

(* A step of a closer: what it writes is well-typed and it knows what it   *)
(* holds.                                                                  *)
LEMMA CloserKeepsCore ==
  ASSUME CoreInv, NEW c \in Closers, CloserTurn(c),
         UNCHANGED <<keyVars, workerVars, lifecycleVars>>
  PROVE  CoreInv'
<1>0. /\ lot \in [Lots -> LotRow] /\ events \in [Lots -> Seq(EventRow)]
      /\ lotLock \in [Lots -> Sessions \cup {Null}] /\ feed \subseteq Message
      /\ c \in Sessions /\ Null \notin Sessions /\ EntryInv /\ CloserTypeOK
      /\ DOMAIN batch = Closers
  BY StoreAssumption, CloserAssumption
  DEF CoreInv, EntryInv, BookInv, TypeInv, BidTypeOK, StoreTypeOK
<1>. DEFINE Mine == \A l \in Lots :
              /\ lotLock'[l] = c <=> cpc'[c] = "settling" /\ l \in DOMAIN batch'[c]
              /\ lotLock'[l] = c => batch'[c][l] = lot'[l] /\ lot'[l].status = "closing"
            Written ==
              /\ lot' \in [Lots -> LotRow] /\ events' \in [Lots -> Seq(EventRow)]
              /\ lotLock' \in [Lots -> Sessions \cup {Null}] /\ feed' \subseteq Message
              /\ \A l \in Lots : SamePrice(lot[l], lot'[l])
              /\ bids' = bids /\ now' = now
            Others == \A d \in Closers \ {c} : cpc'[d] = cpc[d] /\ batch'[d] = batch[d]
            Good == Mine /\ Written /\ Others /\ CloserTypeOK' /\ DOMAIN batch' = Closers
<1>1. ASSUME SelectDueLots(c) PROVE Good
  <2>. DEFINE free == {l \in Lots : IsDue(l) /\ lotLock[l] = Null}
  <2>1. PICK chosen \in SUBSET free :
               /\ batch' = [batch EXCEPT ![c] = [l \in chosen |-> lot[l]]]
               /\ lotLock' = [l \in Lots |-> IF l \in chosen THEN c ELSE lotLock[l]]
    BY <1>1, Zenon DEF SelectDueLots, kSubset
  <2>2. /\ cpc[c] = "waiting" /\ cpc' = [cpc EXCEPT ![c] = "settling"]
        /\ UNCHANGED <<lot, bids, events, feed, now, invoice, closerFailures, auctionShare>>
    BY <1>1 DEF SelectDueLots
  <2>3. \A l \in chosen : l \in Lots /\ lot[l].status = "closing"
    BY DEF IsDue
  <2>4. \A l \in Lots : lotLock[l] # c
    BY <2>2 DEF CoreInv, ClosersHold
  <2>5. batch'[c] = [l \in chosen |-> lot[l]] /\ cpc'[c] = "settling"
    BY <1>0, <2>1, <2>2 DEF CloserTypeOK
  <2>6. Mine
    BY <1>0, <2>1, <2>2, <2>3, <2>4, <2>5
  <2>7. Written
    BY <1>0, <2>1, <2>2 DEF SamePrice
  <2>8. Others /\ DOMAIN batch' = Closers
    BY <1>0, <2>1, <2>2 DEF CloserTypeOK
  <2>9. CloserTypeOK'
    BY <1>0, <2>2, <2>3, <2>5, <2>8 DEF CloserTypeOK
  <2>. QED
    BY <2>6, <2>7, <2>8, <2>9
<1>2. ASSUME SettleBatch(c) PROVE Good
  <2>. DEFINE rows == batch[c]
  <2>1. \A l \in DOMAIN rows : l \in Lots /\ rows[l] \in LotRow
    BY <1>0 DEF CloserTypeOK
  <2>2. lot' \in [Lots -> LotRow] /\ \A l \in Lots : SamePrice(lot[l], lot'[l])
    <3>1. \A l \in Lots : lot'[l] = IF l \in DOMAIN rows THEN ClosedRow(l, rows[l])
                                   ELSE lot[l]
      BY <1>2 DEF SettleBatch
    <3>2. \A l \in DOMAIN rows :
            ClosedRow(l, rows[l]) \in LotRow /\ SamePrice(lot[l], ClosedRow(l, rows[l]))
      BY <1>0, <2>1, ClosedRowFields
    <3>3. \A l \in Lots : lot'[l] \in LotRow
      BY <1>0, <3>1, <3>2
    <3>4. lot' = [l \in Lots |-> lot'[l]]
      BY <1>2 DEF SettleBatch
    <3>. QED
      BY <3>1, <3>2, <3>3, <3>4 DEF SamePrice
  <2>3. events' \in [Lots -> Seq(EventRow)]
    <3>1. \A l \in DOMAIN rows : Append(events[l], ClosingEvent(l, rows[l])) \in Seq(EventRow)
      BY <1>0, <2>1, ClosingEventType, AppendProperties
    <3>. QED
      BY <1>0, <1>2, <3>1 DEF SettleBatch
  <2>4. invoice' \in [Lots -> Invoice \cup {Null}]
    <3>1. \A l \in DOMAIN rows : InvoiceFor(l, rows[l]) \in Invoice \cup {Null}
      BY <1>0, <2>1, InvoiceForType DEF CloserTypeOK
    <3>. QED
      BY <1>0, <1>2, <3>1 DEF SettleBatch, CloserTypeOK
  <2>5. /\ lotLock' = LotsFreed(c) /\ cpc' = [cpc EXCEPT ![c] = "announcing"]
        /\ auctionShare' = auctionShare \ {c}
        /\ UNCHANGED <<bids, feed, now, batch, closerFailures>>
    BY <1>2 DEF SettleBatch
  <2>6. /\ \A l \in Lots : lotLock'[l] # c
        /\ lotLock' \in [Lots -> Sessions \cup {Null}]
    BY <1>0, <2>5 DEF LotsFreed
  <2>7. CloserTypeOK' /\ Others /\ cpc'[c] = "announcing"
    BY <1>0, <2>4, <2>5 DEF CloserTypeOK
  <2>. QED
    BY <1>0, <2>2, <2>3, <2>5, <2>6, <2>7
<1>3. ASSUME AnnounceBatch(c) PROVE Good
  <2>. DEFINE messages == {LotClosed(l, batch[c][l]) : l \in DOMAIN batch[c]}
  <2>1. messages \subseteq Message
    BY <1>0, LotClosedType DEF CloserTypeOK
  <2>2. feed' \subseteq Message
    BY <1>0, <1>3, <2>1 DEF AnnounceBatch
  <2>3. /\ cpc[c] = "announcing" /\ cpc' = [cpc EXCEPT ![c] = "waiting"]
        /\ batch' = [batch EXCEPT ![c] = <<>>]
        /\ UNCHANGED <<lot, bids, events, lotLock, now>>
        /\ UNCHANGED <<invoice, closerFailures, auctionShare>>
    BY <1>3 DEF AnnounceBatch
  <2>4. \A l \in Lots : lotLock[l] # c
    BY <2>3 DEF CoreInv, ClosersHold
  <2>5. cpc'[c] = "waiting" /\ DOMAIN batch'[c] = {} /\ Others /\ DOMAIN batch' = Closers
    BY <1>0, <2>3 DEF CloserTypeOK
  <2>6. CloserTypeOK'
    BY <1>0, <2>3, <2>5 DEF CloserTypeOK
  <2>. QED
    BY <1>0, <2>2, <2>3, <2>4, <2>5, <2>6 DEF SamePrice
<1>4. ASSUME CycleFails(c) PROVE Good
  <2>1. /\ cpc' = [cpc EXCEPT ![c] = "waiting"] /\ batch' = [batch EXCEPT ![c] = <<>>]
        /\ lotLock' = LotsFreed(c) /\ closerFailures' = closerFailures + 1
        /\ auctionShare' = auctionShare \ {c}
        /\ UNCHANGED <<lot, bids, events, feed, now, invoice>>
    BY <1>4 DEF CycleFails
  <2>2. /\ \A l \in Lots : lotLock'[l] # c
        /\ lotLock' \in [Lots -> Sessions \cup {Null}]
    BY <1>0, <2>1 DEF LotsFreed
  <2>3. cpc'[c] = "waiting" /\ DOMAIN batch'[c] = {} /\ Others /\ DOMAIN batch' = Closers
    BY <1>0, <2>1 DEF CloserTypeOK
  <2>4. CloserTypeOK'
    BY <1>0, <2>1, <2>3 DEF CloserTypeOK
  <2>. QED
    BY <1>0, <2>1, <2>2, <2>3, <2>4 DEF SamePrice
<1>5. Good
  <2>1. ASSUME ShareAuction(c) PROVE Good
    <3>1. /\ UNCHANGED <<storeVars, cpc, batch, invoice, closerFailures>>
          /\ auctionShare' = auctionShare \cup {c}
      BY <2>1 DEF ShareAuction
    <3>2. Mine
      BY <3>1 DEF storeVars, CoreInv, ClosersHold
    <3>. QED
      BY <1>0, <3>1, <3>2 DEF storeVars, CloserTypeOK, SamePrice
  <2>. QED
    BY <1>1, <1>2, <1>3, <1>4, <2>1 DEF CloserTurn, CloserWork
<1>6. MindsLocks(c) /\ c \notin Workers
  BY CloserMindsLocks, SessionAssumption
<1>7. EntryInv'
  BY <1>0, <1>5, <1>6, BidsUndisturbed
<1>8. UNCHANGED <<auction, auctionLock, opc, openedAt, targets, orders>>
  BY DEF lifecycleVars
<1>9. ClosersHold'
  <2>1. ASSUME NEW d \in Closers, NEW l \in Lots
        PROVE  /\ lotLock'[l] = d <=> cpc'[d] = "settling" /\ l \in DOMAIN batch'[d]
               /\ lotLock'[l] = d => batch'[d][l] = lot'[l] /\ lot'[l].status = "closing"
    <3>1. CASE d = c
      BY <1>5, <3>1
    <3>2. CASE d # c
      BY <1>0, <1>5, <1>6, <3>2, OtherClosersHold
    <3>. QED
      BY <3>1, <3>2
  <2>. QED
    BY <2>1 DEF ClosersHold
<1>10. OperatorsHold'
  <2>1. \A o \in Operators : o # c
    BY SessionAssumption
  <2>. QED
    BY <1>0, <1>6, <1>8, <2>1, OtherOperatorsHold DEF OperatorsHold
<1>11. LifecycleTypeOK' /\ TargetsOrdered'
  BY <1>8 DEF CoreInv, LifecycleTypeOK, TargetsOrdered
<1>. QED
  BY <1>5, <1>7, <1>9, <1>10, <1>11 DEF CoreInv

(* A step of an operator.                                                  *)
LEMMA OperatorKeepsCore ==
  ASSUME CoreInv, NEW o \in Operators, OperatorTurn(o),
         UNCHANGED <<keyVars, workerVars, closerVars>>
  PROVE  CoreInv'
<1>0. /\ lot \in [Lots -> LotRow] /\ events \in [Lots -> Seq(EventRow)]
      /\ lotLock \in [Lots -> Sessions \cup {Null}] /\ feed \subseteq Message
      /\ now \in Time /\ o \in Sessions /\ Null \notin Sessions
      /\ EntryInv /\ LifecycleTypeOK
  BY StoreAssumption, LifecycleAssumption
  DEF CoreInv, EntryInv, BookInv, TypeInv, BidTypeOK, StoreTypeOK
<1>. DEFINE Mine == \A l \in Lots : lotLock'[l] = o => Concerns(opc'[o], lot'[l])
            Written ==
              /\ lot' \in [Lots -> LotRow] /\ events' \in [Lots -> Seq(EventRow)]
              /\ lotLock' \in [Lots -> Sessions \cup {Null}] /\ feed' \subseteq Message
              /\ \A l \in Lots : SamePrice(lot[l], lot'[l])
              /\ bids' = bids /\ now' = now
            Others == \A p \in Operators \ {o} : opc'[p] = opc[p]
            Good == Mine /\ Written /\ Others /\ LifecycleTypeOK' /\ TargetsOrdered'
<1>1. ASSUME StartOpen(o) \/ StartClose(o) PROVE Good
  <2>1. PICK order \in {"opening", "closing"}, status \in LotStatus :
               StartOrder(o, order, status)
    BY <1>1 DEF StartOpen, StartClose, LotStatus
  <2>2. opc[o] = "idle" /\ UNCHANGED <<lot, bids, events, lotLock, feed, now, auction>>
    BY <2>1 DEF StartOrder, storeVars
  <2>3. \A l \in Lots : lotLock[l] # o
    BY <2>2 DEF CoreInv, OperatorsHold, Concerns
  <2>4. Others /\ LifecycleTypeOK' /\ TargetsOrdered'
    BY <1>0, <2>1, <2>2 DEF StartOrder, LifecycleTypeOK, CoreInv, TargetsOrdered
  <2>. QED
    BY <1>0, <2>2, <2>3, <2>4 DEF SamePrice
<1>2. ASSUME Pause(o) PROVE Good
  <2>1. UNCHANGED <<lot, bids, events, lotLock, feed, now, opc>> /\ opc[o] = "idle"
    BY <1>2 DEF Pause, storeVars
  <2>2. \A l \in Lots : lotLock[l] # o
    BY <2>1 DEF CoreInv, OperatorsHold, Concerns
  <2>3. LifecycleTypeOK' /\ TargetsOrdered'
    BY <1>0, <1>2 DEF Pause, LifecycleTypeOK, AuctionStatus, CoreInv, TargetsOrdered
  <2>. QED
    BY <1>0, <2>1, <2>2, <2>3 DEF SamePrice
<1>3. ASSUME VisitLot(o) PROVE Good
  <2>. DEFINE wanted == IF opc[o] = "opening" THEN "pending" ELSE "open"
  <2>1. PICK x \in targets[o] :
               /\ lotLock[x] = Null
               /\ lotLock' = IF lot[x].status = wanted THEN [lotLock EXCEPT ![x] = o]
                             ELSE lotLock
               /\ targets' = [targets EXCEPT ![o] = @ \ {x}]
    BY <1>3 DEF VisitLot
  <2>2. UNCHANGED <<lot, bids, events, feed, now, auction, auctionLock, opc, openedAt, orders>>
    BY <1>3 DEF VisitLot
  <2>3. x \in Lots /\ opc[o] \in {"idle", "opening", "closing"}
    BY <1>0, <2>1 DEF LifecycleTypeOK
  <2>4. opc[o] # "idle"
    BY <2>1 DEF CoreInv, TargetsOrdered
  <2>5. Mine
    <3>1. \A l \in Lots : lotLock[l] = o => Concerns(opc[o], lot[l])
      BY DEF CoreInv, OperatorsHold
    <3>2. lot[x].status = wanted => Concerns(opc[o], lot[x])
      BY <2>3, <2>4 DEF Concerns
    <3>. HIDE DEF wanted
    <3>. QED
      BY <1>0, <2>1, <2>2, <2>3, <3>1, <3>2
  <2>6. LifecycleTypeOK' /\ Others /\ TargetsOrdered'
    <3>. HIDE DEF wanted
    <3>. QED
      BY <1>0, <2>1, <2>2, <2>4 DEF LifecycleTypeOK, CoreInv, TargetsOrdered
  <2>7. Written
    <3>. HIDE DEF wanted
    <3>. QED
      BY <1>0, <2>1, <2>2, <2>3 DEF SamePrice
  <2>. QED
    BY <2>5, <2>6, <2>7
<1>4. ASSUME FinishOpen(o) \/ FinishClose(o) PROVE Good
  <2>1. PICK order \in {"opening", "closing"}, status \in {"open", "closing"},
             deadline \in Time : FinishOrder(o, order, status, deadline)
    BY <1>0, <1>4, LifecycleAssumption DEF FinishOpen, FinishClose, LifecycleTypeOK, Time
  <2>2. /\ lotLock' = LotsFreed(o) /\ auctionLock' = Null
        /\ opc' = [opc EXCEPT ![o] = "idle"]
        /\ UNCHANGED <<bids, feed, now, openedAt, targets, orders>>
    BY <2>1 DEF FinishOrder
  <2>3. lot' = [l \in Lots |->
                  IF l \in Held(o)
                  THEN [lot[l] EXCEPT !.status = status, !.closingAt = deadline]
                  ELSE lot[l]]
    BY <2>1, Zenon DEF FinishOrder
  <2>4. \A l \in Lots :
          LET new == [lot[l] EXCEPT !.status = status, !.closingAt = deadline] IN
          new \in LotRow /\ SamePrice(lot[l], new)
    BY <1>0, OrderedRowFields, ZenonT(60) DEF LotStatus
  <2>5. lot' \in [Lots -> LotRow] /\ \A l \in Lots : SamePrice(lot[l], lot'[l])
    <3>. DEFINE new(l) == [lot[l] EXCEPT !.status = status, !.closingAt = deadline]
    <3>1. \A l \in Lots : new(l) \in LotRow /\ SamePrice(lot[l], new(l))
      BY <2>4
    <3>2. lot' = [l \in Lots |-> IF l \in Held(o) THEN new(l) ELSE lot[l]]
      BY <2>3
    <3>. HIDE DEF new
    <3>. QED
      BY <1>0, <3>1, <3>2 DEF SamePrice
  <2>6. events' \in [Lots -> Seq(EventRow)]
    <3>. DEFINE event == [type |-> "LOT_OPENED", bid |-> 0, value |-> 0]
    <3>1. \A l \in Lots : Append(events[l], event) \in Seq(EventRow)
      <4>1. event \in EventRow
        BY DEF EventRow
      <4>. HIDE DEF event
      <4>. QED
        BY <1>0, <4>1, AppendProperties
    <3>. QED
      BY <1>0, <1>4, <3>1 DEF FinishOpen, FinishClose
  <2>7. /\ \A l \in Lots : lotLock'[l] # o
        /\ lotLock' \in [Lots -> Sessions \cup {Null}]
    BY <1>0, <2>2 DEF LotsFreed
  <2>8. auction' \in AuctionStatus
    BY <1>4 DEF FinishOpen, FinishClose, AuctionStatus
  <2>9. LifecycleTypeOK' /\ Others /\ TargetsOrdered'
    BY <1>0, <2>1, <2>2, <2>8 DEF LifecycleTypeOK, CoreInv, TargetsOrdered, FinishOrder
  <2>. QED
    BY <1>0, <2>2, <2>5, <2>6, <2>7, <2>9
<1>5. Good
  BY <1>1, <1>2, <1>3, <1>4 DEF OperatorTurn, OperatorWork
<1>6. MindsLocks(o) /\ o \notin Workers
  BY OperatorMindsLocks, SessionAssumption
<1>7. EntryInv'
  BY <1>0, <1>5, <1>6, BidsUndisturbed
<1>8. UNCHANGED <<cpc, batch, invoice, closerFailures, auctionShare>>
  BY DEF closerVars
<1>9. ClosersHold'
  <2>1. \A c \in Closers : c # o
    BY SessionAssumption
  <2>. QED
    BY <1>0, <1>6, <1>8, <2>1, OtherClosersHold DEF ClosersHold
<1>10. OperatorsHold'
  <2>1. ASSUME NEW p \in Operators, NEW l \in Lots
        PROVE  lotLock'[l] = p => Concerns(opc'[p], lot'[l])
    <3>1. CASE p = o
      BY <1>5, <3>1
    <3>2. CASE p # o
      BY <1>0, <1>5, <1>6, <3>2, OtherOperatorsHold
    <3>. QED
      BY <3>1, <3>2
  <2>. QED
    BY <2>1 DEF OperatorsHold
<1>11. CloserTypeOK' /\ DOMAIN batch' = Closers
  BY <1>8 DEF CoreInv, CloserTypeOK
<1>. QED
  BY <1>5, <1>7, <1>9, <1>10, <1>11 DEF CoreInv

(* Nobody holds anything at the start.                                     *)
LEMMA CoreInvInit == CoreInit => CoreInv
<1>. SUFFICES ASSUME CoreInit PROVE CoreInv
  OBVIOUS
<1>1. EntryInv
  BY EntryInvInit DEF CoreInit
<1>2. CloserTypeOK /\ DOMAIN batch = Closers
  BY DEF CoreInit, CloserInit, CloserTypeOK
<1>3. LifecycleTypeOK /\ TargetsOrdered
  BY DEF CoreInit, LifecycleInit, LifecycleTypeOK, TargetsOrdered, AuctionStatus, Time
<1>4. \A s \in Sessions, l \in Lots : lotLock[l] # s
  BY StoreAssumption DEF CoreInit, BidInit, StoreInit
<1>5. ClosersHold /\ OperatorsHold
  BY <1>4, CloserAssumption, LifecycleAssumption
  DEF CoreInit, CloserInit, ClosersHold, OperatorsHold
<1>. QED
  BY <1>1, <1>2, <1>3, <1>5 DEF CoreInv

(* Every step of CoreSpec keeps what the sessions hold.                    *)
LEMMA CoreInvKept == CoreInv /\ [CoreNext]_coreVars => CoreInv'
<1>. SUFFICES ASSUME CoreInv, [CoreNext]_coreVars PROVE CoreInv'
  OBVIOUS
<1>1. ASSUME NEW w \in Workers, WorkerTurn(w), UNCHANGED <<closerVars, lifecycleVars>>
      PROVE  CoreInv'
  BY <1>1, WorkerKeepsCore
<1>2. ASSUME NEW c \in Closers, CloserTurn(c),
             UNCHANGED <<keyVars, workerVars, lifecycleVars>>
      PROVE  CoreInv'
  BY <1>2, CloserKeepsCore
<1>3. ASSUME NEW o \in Operators, OperatorTurn(o),
             UNCHANGED <<keyVars, workerVars, closerVars>>
      PROVE  CoreInv'
  BY <1>3, OperatorKeepsCore
<1>4. CASE \/ ClockTicks /\ UNCHANGED <<keyVars, workerVars, closerVars, lifecycleVars>>
           \/ UNCHANGED coreVars
  <2>1. EntryInv'
    BY <1>4, EntryInvKept DEF CoreInv, BidNext, coreVars
  <2>2. UNCHANGED <<lot, lotLock, closerVars, lifecycleVars>>
    BY <1>4 DEF ClockTicks, coreVars, bidVars, storeVars
  <2>. QED
    BY <2>1, <2>2
    DEF CoreInv, CloserTypeOK, LifecycleTypeOK, ClosersHold, OperatorsHold, TargetsOrdered,
        closerVars, lifecycleVars
<1>. QED
  BY <1>1, <1>2, <1>3, <1>4, CoreSteps

(* CoreInv holds in every state of the composition.                        *)
LEMMA CoreInvHolds == CoreSpec => []CoreInv
BY CoreInvInit, CoreInvKept, PTL DEF CoreSpec

(* Bid processor, closers and operators together keep every table, every   *)
(* batch and every order well-typed, whatever their number.                *)
THEOREM CoreTypesCorrect == CoreSpec => []CoreTypeOK
<1>1. CoreInv => CoreTypeOK
  BY DEF CoreInv, EntryInv, BookInv, TypeInv, CoreTypeOK
<1>. QED
  BY <1>1, CoreInvHolds, PTL

(* The row locks protect the work of processBid against the closers and    *)
(* the operator's requests, too: no lot is settled, opened or closed to    *)
(* bids between the SELECT ... FOR UPDATE of a bid and its COMMIT.         *)
THEOREM CoreLocksHold == CoreSpec => []LocksProtectTheWork
<1>1. CoreInv => LocksProtectTheWork
  BY DEF CoreInv, EntryInv, BookInv
<1>. QED
  BY <1>1, CoreInvHolds, PTL

-----------------------------------------------------------------------------
(* What a step does to a lot.                                              *)

LotKept(l) == UNCHANGED <<lot[l], bids[l], events[l], invoice[l]>>

LotBidOn(l) ==
  /\ lot[l].status \in Biddable /\ lot'[l].status \in {lot[l].status, "open"}
  /\ Closings(events'[l]) = {}
  /\ UNCHANGED invoice[l]

LotOrdered(l) ==
  /\ \/ lot[l].status = "pending" /\ lot'[l].status = "open"
     \/ lot[l].status = "open" /\ lot'[l].status = "closing"
  /\ SamePrice(lot[l], lot'[l])
  /\ Closings(events'[l]) = Closings(events[l])
  /\ \/ UNCHANGED events[l]
     \/ \E ev \in EventRow : ev.type = "LOT_OPENED" /\ events'[l] = Append(events[l], ev)
  /\ UNCHANGED <<bids[l], invoice[l]>>

LotSettled(l) ==
  /\ lot[l].status = "closing"
  /\ lot'[l] = ClosedRow(l, lot[l])
  /\ events'[l] = Append(events[l], ClosingEvent(l, lot[l]))
  /\ invoice'[l] = InvoiceFor(l, lot[l])
  /\ UNCHANGED bids[l]

(* One more event.                                                         *)
LEMMA ClosingsAppended ==
  ASSUME NEW es \in Seq(EventRow), NEW ev \in EventRow
  PROVE  Closings(Append(es, ev)) =
           Closings(es) \cup
             IF ev.type \in {"LOT_SOLD", "LOT_PASSED"} THEN {Len(es) + 1} ELSE {}
<1>1. /\ Len(es) \in Nat /\ DOMAIN es = 1..Len(es)
      /\ DOMAIN Append(es, ev) = 1 .. Len(es) + 1
      /\ \A e \in 1..Len(es) : Append(es, ev)[e] = es[e]
      /\ Append(es, ev)[Len(es) + 1] = ev
  BY LenProperties, AppendProperties
<1>2. \A e : e \in 1 .. Len(es) + 1 <=> e \in 1..Len(es) \/ e = Len(es) + 1
  BY <1>1
<1>3. Len(es) + 1 \notin 1..Len(es)
  BY <1>1
<1>. QED
  BY <1>1, <1>2, <1>3 DEF Closings

(* An extension of the deadline writes no closing event.                   *)
LEMMA ExtendedCloses ==
  ASSUME NEW wk \in Work, NEW i \in Nat, now \in Nat
  PROVE  Closings(Extended(wk, i).events) = Closings(wk.events)
<1>. DEFINE closing == wk.lot.closingAt
            deadline == closing + AntiSnipeExtension
            event == EventOf("ANTI_SNIPE_TRIGGERED", i, deadline)
            short == closing # Null /\ closing - now < AntiSnipeWindow /\ closing > now
<1>1. CASE ~short
  BY <1>1 DEF Extended
<1>2. CASE short
  <2>1. wk.lot \in LotRow /\ wk.events \in Seq(EventRow) /\ closing \in Nat
    BY <1>2 DEF Work, LotRow, Time
  <2>2. event \in EventRow /\ event.type = "ANTI_SNIPE_TRIGGERED"
    BY <2>1, StoreAssumption DEF EventOf, EventRow
  <2>3. Extended(wk, i).events = Append(wk.events, event)
    BY <1>2 DEF Extended, Work
  <2>. HIDE DEF event
  <2>. QED
    BY <2>1, <2>2, <2>3, ClosingsAppended
<1>. QED
  BY <1>1, <1>2

(* Entering a bid writes its event later.                                  *)
LEMMA EnteringWritesNothing ==
  ASSUME NEW wk \in Work, NEW placed
  PROVE  /\ \A r : WithBid(wk, r, placed).events = wk.events
         /\ \A p : WithCounter(wk, p, placed).events = wk.events
<1>1. ASSUME NEW r PROVE WithBid(wk, r, placed).events = wk.events
  <2>. DEFINE inserted == Append(wk.bids, BidOf(r, placed))
              entered == IF wk.lot.winner \in {Null, r.bidder} THEN inserted
                         ELSE Outbid(inserted, wk.lot.winner)
              row == Led(wk.lot, r.bidder, r.amount)
              pos == Len(wk.bids) + 1
              met == ReservePrice[r.lot] # Null /\ r.amount >= ReservePrice[r.lot]
  <2>1. WithBid(wk, r, placed) =
          [wk EXCEPT !.lot = row, !.bids = entered, !.bid = pos, !.reserveMet = met]
    BY Zenon DEF WithBid, BidOf
  <2>. HIDE DEF entered, row, pos, met
  <2>. QED
    BY <2>1 DEF Work
<1>2. ASSUME NEW p PROVE WithCounter(wk, p, placed).events = wk.events
  <2>. DEFINE row == Led(wk.lot, wk.bids[p].bidder, GetMinimumNextBid(wk.lot.currentBid))
              more == Append(Outbid(wk.bids, wk.lot.winner), CounterOf(wk, p, placed))
              round == wk.iterations + 1
  <2>1. WithCounter(wk, p, placed) =
          [wk EXCEPT !.lot = row, !.bids = more, !.iterations = round]
    BY Zenon DEF WithCounter, CounterOf
  <2>. HIDE DEF row, more, round
  <2>. QED
    BY <2>1 DEF Work
<1>. QED
  BY <1>1, <1>2

(* A bid's own events never say that the lot is closed.                    *)
LEMMA WorkerClosesNothing ==
  ASSUME SaleInv, NEW w \in Workers, WorkerTurn(w)
  PROVE  WorkClosesNothing'
<1>0. /\ pc \in [Workers -> InTransaction \cup {"idle", "publish", "unlock"}]
      /\ DOMAIN work = Workers /\ now \in Nat /\ EntryInv /\ TypeInv
      /\ startedAt \in [Workers -> Time]
  BY DEF SaleInv, CoreInv, EntryInv, BookInv, TypeInv, BidTypeOK, StoreTypeOK, Time
<1>. DEFINE Silent == pc'[w] \in {"resolve", "commit"} => Closings(work'[w].events) = {}
<1>. SUFFICES /\ Silent
              /\ \A v \in Workers \ {w} : pc'[v] = pc[v] /\ work'[v] = work[v]
  BY DEF SaleInv, WorkClosesNothing
<1>. USE DEF Goes
<1>1. ASSUME AcceptBid(w) PROVE Silent
  <2>. DEFINE with == WithBid(work[w], req[w], startedAt[w])
              l == req[w].lot
  <2>1. /\ work[w] \in Work /\ req[w] \in Requests /\ l \in Lots
        /\ startedAt[w] \in Time
    BY <1>0, <1>1 DEF AcceptBid, TypeInv, WorkersAreEquipped
  <2>2. work[w].lot = lot[l] /\ work[w].events = events[l]
    <3>1. WorkIsProtected(w) /\ pc[w] = "validate"
      BY <1>0, <1>1 DEF AcceptBid, EntryInv, BookInv, LocksProtectTheWork
    <3>2. work[w] = WorkOn(l)
      BY <3>1 DEF WorkIsProtected
    <3>. QED
      BY <3>2 DEF WorkOn
  <2>3. lot[l].status \in Biddable
    BY <1>1, <2>2, AcceptedOnMerit DEF AcceptBid
  <2>4. Closings(work[w].events) = {}
    BY <2>1, <2>2, <2>3 DEF SaleInv, ClosedByItsRow, Closed, Biddable
  <2>5. with \in Work /\ with.bid \in Nat
    BY <2>1, WithBidProperties DEF Work
  <2>6. with.events = work[w].events
    BY <2>1, EnteringWritesNothing
  <2>. HIDE DEF with
  <2>7. Closings(Extended(with, with.bid).events) = {}
    BY <1>0, <2>4, <2>5, <2>6, ExtendedCloses
  <2>. QED
    BY <1>0, <1>1, <2>7 DEF AcceptBid, with
<1>2. ASSUME ProxyCounters(w) PROVE Silent
  <2>1. PICK p \in Counters(work[w]) :
               work' = [work EXCEPT ![w] =
                 LET i == Len(work[w].bids) + 1
                     wk == Extended(WithCounter(work[w], p, startedAt[w]), i)
                     event == EventOf("PROXY_RESOLVED", i, wk.lot.currentBid)
                 IN [wk EXCEPT !.events = Append(@, event)]]
    BY <1>2 DEF ProxyCounters
  <2>. DEFINE i == Len(work[w].bids) + 1
              with == WithCounter(work[w], p, startedAt[w])
              wk == Extended(with, i)
              ev == EventOf("PROXY_RESOLVED", i, wk.lot.currentBid)
              events1 == Append(wk.events, ev)
              new == [wk EXCEPT !.events = events1]
  <2>2. /\ work[w] \in Work /\ startedAt[w] \in Time
        /\ work[w].bids \in Seq(BidRow) /\ pc[w] = "resolve"
    BY <1>0, <1>2 DEF ProxyCounters, TypeInv, WorkersAreEquipped, Work
  <2>3. p \in DOMAIN work[w].bids /\ i \in Nat
    BY <2>2, LenProperties DEF Counters, BestProxies, Competing
  <2>4. with \in Work /\ with.events = work[w].events
    BY <2>2, <2>3, WithCounterProperties, EnteringWritesNothing
  <2>5. Closings(work[w].events) = {}
    BY <2>2 DEF SaleInv, WorkClosesNothing
  <2>. HIDE DEF i, with
  <2>6. wk \in Work /\ Closings(wk.events) = {}
    BY <1>0, <2>3, <2>4, <2>5, ExtendedType, ExtendedCloses
  <2>. HIDE DEF wk
  <2>7. ev \in EventRow /\ ev.type = "PROXY_RESOLVED"
    BY <2>3, <2>6 DEF EventOf, EventRow, Work, LotRow
  <2>. HIDE DEF ev
  <2>8. Closings(events1) = {}
    BY <2>6, <2>7, ClosingsAppended DEF Work
  <2>. HIDE DEF events1
  <2>9. new.events = events1
    BY <2>6 DEF Work
  <2>10. work' = [work EXCEPT ![w] = new]
    BY <2>1, Zenon DEF i, with, wk, ev, events1
  <2>. HIDE DEF new
  <2>. QED
    BY <1>0, <2>8, <2>9, <2>10
<1>3. ASSUME RecordBid(w) PROVE Silent
  <2>. DEFINE ev == EventOf("BID_ACCEPTED", work[w].bid, req[w].amount)
              events1 == Append(work[w].events, ev)
              new == [work[w] EXCEPT !.events = events1]
  <2>1. /\ work[w] \in Work /\ req[w] \in Requests /\ pc[w] = "resolve"
        /\ pc' = [pc EXCEPT ![w] = "commit"]
    BY <1>0, <1>3 DEF RecordBid, TypeInv, WorkersAreEquipped
  <2>2. Closings(work[w].events) = {}
    BY <2>1 DEF SaleInv, WorkClosesNothing
  <2>3. ev \in EventRow /\ ev.type = "BID_ACCEPTED"
    BY <2>1, RequestType DEF EventOf, EventRow, Work
  <2>. HIDE DEF ev
  <2>4. Closings(events1) = {}
    BY <2>1, <2>2, <2>3, ClosingsAppended DEF Work
  <2>. HIDE DEF events1
  <2>5. new.events = events1
    BY <2>1 DEF Work
  <2>6. work' = [work EXCEPT ![w] = new]
    BY <1>3, Zenon DEF RecordBid, ev, events1
  <2>. HIDE DEF new
  <2>. QED
    BY <1>0, <2>4, <2>5, <2>6
<1>4. ASSUME ~AcceptBid(w), ~ProxyCounters(w), ~RecordBid(w) PROVE Silent
  <2>1. pc'[w] \notin {"resolve", "commit"}
    BY <1>0, <1>4
    DEF WorkerTurn, WorkerStep, WorkerFailure, Begin, InsertKey, InsertFindsKey,
        SelectCompleted, SelectInFlight, Replay, LockLot, LotNotFound, RejectBid, Commit,
        Publish, ForceUnlock, StatementFails, CommitUnacknowledged
  <2>. QED
    BY <2>1
<1>5. \A v \in Workers \ {w} : pc'[v] = pc[v] /\ work'[v] = work[v]
  <2>1. CASE \/ Begin(w) \/ InsertKey(w) \/ InsertFindsKey(w) \/ SelectCompleted(w)
             \/ LockLot(w) \/ Commit(w) \/ Publish(w) \/ ForceUnlock(w)
             \/ CommitUnacknowledged(w)
    BY <1>0, <2>1
    DEF Begin, InsertKey, InsertFindsKey, SelectCompleted, LockLot, Commit, Publish,
        ForceUnlock, CommitUnacknowledged
  <2>2. CASE \/ SelectInFlight(w) \/ Replay(w) \/ LotNotFound(w) \/ RejectBid(w)
             \/ StatementFails(w)
    BY <1>0, <2>2
    DEF SelectInFlight, Replay, LotNotFound, RejectBid, StatementFails, RolledBack
  <2>3. CASE AcceptBid(w) \/ ProxyCounters(w) \/ RecordBid(w)
    BY <1>0, <2>3, Zenon DEF AcceptBid, ProxyCounters, RecordBid
  <2>. QED
    BY <2>1, <2>2, <2>3 DEF WorkerTurn, WorkerStep, WorkerFailure
<1>. QED
  BY <1>1, <1>2, <1>3, <1>4, <1>5

(* A worker bids on a lot that is open to bids, or leaves it.              *)
LEMMA WorkerMovesLots ==
  ASSUME SaleInv, NEW w \in Workers, WorkerTurn(w), UNCHANGED invoice, NEW l \in Lots
  PROVE  LotKept(l) \/ LotBidOn(l)
<1>0. EntryInv
  BY DEF SaleInv, CoreInv
<1>1. CASE Commit(w) \/ CommitUnacknowledged(w)
  <2>1. pc[w] = "commit" /\ Committed(w)
    BY <1>1 DEF Commit, CommitUnacknowledged, Goes
  <2>2. CASE l # req[w].lot
    BY <1>0, <2>1, <2>2, CommittedTables DEF LotKept
  <2>3. CASE l = req[w].lot
    <3>1. /\ lot'[l] = work[w].lot /\ events'[l] = work[w].events
          /\ Continues(work[w], req[w], lot[l], bids[l])
      BY <1>0, <2>1, <2>3, CommittedTables, CommitterHolds
    <3>2. lot[l].status \in Biddable /\ work[w].lot.status \in {lot[l].status, "open"}
      BY <3>1 DEF Continues
    <3>3. Closings(work[w].events) = {}
      BY <2>1 DEF SaleInv, WorkClosesNothing
    <3>. QED
      BY <3>1, <3>2, <3>3 DEF LotBidOn
  <2>. QED
    BY <2>2, <2>3
<1>2. CASE ~Commit(w) /\ ~CommitUnacknowledged(w)
  BY <1>0, <1>2, QuietStep DEF WorkerTurn, LotKept
<1>. QED
  BY <1>1, <1>2

(* A closer settles the lots of its batch as they are in the tables.       *)
LEMMA CloserMovesLots ==
  ASSUME CoreInv, NEW c \in Closers, CloserTurn(c), NEW l \in Lots
  PROVE  LotKept(l) \/ LotSettled(l)
<1>1. CASE SettleBatch(c)
  <2>1. CASE l \in DOMAIN batch[c]
    <3>1. batch[c][l] = lot[l] /\ lot[l].status = "closing"
      BY <1>1, <2>1 DEF SettleBatch, CoreInv, ClosersHold
    <3>2. /\ lot'[l] = ClosedRow(l, batch[c][l])
          /\ events'[l] = Append(events[l], ClosingEvent(l, batch[c][l]))
          /\ invoice'[l] = InvoiceFor(l, batch[c][l])
          /\ bids'[l] = bids[l]
      BY <1>1, <2>1 DEF SettleBatch
    <3>. QED
      BY <3>1, <3>2 DEF LotSettled
  <2>2. CASE l \notin DOMAIN batch[c]
    BY <1>1, <2>2 DEF SettleBatch, LotKept
  <2>. QED
    BY <2>1, <2>2
<1>2. CASE SelectDueLots(c) \/ ShareAuction(c) \/ AnnounceBatch(c) \/ CycleFails(c)
  BY <1>2 DEF SelectDueLots, ShareAuction, AnnounceBatch, CycleFails, LotKept, storeVars
<1>. QED
  BY <1>1, <1>2 DEF CloserTurn, CloserWork

(* An operator opens pending lots, and closes open lots to bids.           *)
LEMMA OperatorMovesLots ==
  ASSUME CoreInv, NEW o \in Operators, OperatorTurn(o), UNCHANGED invoice, NEW l \in Lots
  PROVE  LotKept(l) \/ LotOrdered(l)
<1>0. lot[l] \in LotRow /\ events[l] \in Seq(EventRow) /\ openedAt[o] \in Time
  BY DEF CoreInv, LifecycleTypeOK, EntryInv, BookInv, TypeInv, BidTypeOK, StoreTypeOK
<1>1. CASE FinishOpen(o)
  <2>1. CASE l \in Held(o)
    <3>. DEFINE new == [lot[l] EXCEPT !.status = "open", !.closingAt = ScheduledEnd]
                event == [type |-> "LOT_OPENED", bid |-> 0, value |-> 0]
    <3>1. lot'[l] = new /\ events'[l] = Append(events[l], event) /\ bids'[l] = bids[l]
      BY <1>1, <2>1 DEF FinishOpen, FinishOrder
    <3>2. SamePrice(lot[l], new) /\ new.status = "open"
      BY <1>0, LifecycleAssumption, OrderedRowFields DEF LotStatus, Time
    <3>3. event \in EventRow /\ event.type = "LOT_OPENED"
      BY DEF EventRow
    <3>. HIDE DEF event, new
    <3>4. Closings(events'[l]) = Closings(events[l])
      BY <1>0, <3>1, <3>3, ClosingsAppended
    <3>5. lot[l].status = "pending"
      BY <1>1, <2>1
      DEF CoreInv, OperatorsHold, Concerns, Held, FinishOpen, FinishOrder
    <3>. QED
      BY <3>1, <3>2, <3>3, <3>4, <3>5 DEF LotOrdered
  <2>2. CASE l \notin Held(o)
    BY <1>1, <2>2 DEF FinishOpen, FinishOrder, LotKept
  <2>. QED
    BY <2>1, <2>2
<1>2. CASE FinishClose(o)
  <2>1. CASE l \in Held(o)
    <3>. DEFINE new == [lot[l] EXCEPT !.status = "closing", !.closingAt = openedAt[o]]
    <3>1. lot'[l] = new /\ events'[l] = events[l] /\ bids'[l] = bids[l]
      BY <1>2, <2>1 DEF FinishClose, FinishOrder
    <3>2. SamePrice(lot[l], new) /\ new.status = "closing"
      BY <1>0, OrderedRowFields DEF LotStatus
    <3>. HIDE DEF new
    <3>3. lot[l].status = "open"
      BY <1>2, <2>1
      DEF CoreInv, OperatorsHold, Concerns, Held, FinishClose, FinishOrder
    <3>. QED
      BY <3>1, <3>2, <3>3 DEF LotOrdered
  <2>2. CASE l \notin Held(o)
    BY <1>2, <2>2 DEF FinishClose, FinishOrder, LotKept
  <2>. QED
    BY <2>1, <2>2
<1>3. CASE StartOpen(o) \/ StartClose(o) \/ Pause(o) \/ VisitLot(o)
  BY <1>3 DEF StartOpen, StartClose, StartOrder, Pause, VisitLot, storeVars, LotKept
<1>. QED
  BY <1>1, <1>2, <1>3 DEF OperatorTurn, OperatorWork

(* So a step of the whole system bids on a lot, opens it or closes it to   *)
(* bids, settles it, or leaves it as it is.                                *)
LEMMA LotsMove ==
  ASSUME SaleInv, [CoreNext]_coreVars, NEW l \in Lots
  PROVE  LotKept(l) \/ LotBidOn(l) \/ LotOrdered(l) \/ LotSettled(l)
<1>1. CoreInv
  BY DEF SaleInv
<1>2. CASE \/ ClockTicks /\ UNCHANGED <<keyVars, workerVars, closerVars, lifecycleVars>>
           \/ UNCHANGED coreVars
  BY <1>2 DEF ClockTicks, coreVars, bidVars, storeVars, closerVars, LotKept
<1>. QED
  BY <1>1, <1>2, CoreSteps, WorkerMovesLots, CloserMovesLots, OperatorMovesLots
  DEF closerVars

-----------------------------------------------------------------------------
(* The sale of a lot.                                                      *)

(* Whether a lot is sold depends on its price and winner only.             *)
LEMMA SoldAlike ==
  ASSUME NEW l, NEW old, NEW new, SamePrice(old, new)
  PROVE  IsSold(l, new) <=> IsSold(l, old)
BY DEF IsSold, SamePrice

(* Every step closes lots as their rows demand, or not at all.             *)
LEMMA ClosedByItsRowKept ==
  ASSUME SaleInv, [CoreNext]_coreVars, NEW l \in Lots
  PROVE  ClosedByItsRow(l)'
<1>0. /\ ClosedByItsRow(l) /\ lot[l] \in LotRow /\ events[l] \in Seq(EventRow)
      /\ Len(events[l]) \in Nat
  BY LenProperties DEF SaleInv, CoreInv, EntryInv, BookInv, TypeInv, BidTypeOK, StoreTypeOK
<1>1. CASE LotKept(l)
  BY <1>0, <1>1 DEF LotKept, ClosedByItsRow, IsSold, Closings
<1>2. CASE LotBidOn(l)
  BY <1>0, <1>2 DEF LotBidOn, ClosedByItsRow, Closed, Biddable
<1>3. CASE LotOrdered(l)
  BY <1>0, <1>3 DEF LotOrdered, ClosedByItsRow, Closed
<1>4. CASE LotSettled(l)
  <2>. DEFINE row == lot[l]
              new == ClosedRow(l, row)
              event == ClosingEvent(l, row)
  <2>1. invoice[l] = Null /\ Closings(events[l]) = {}
    BY <1>0, <1>4 DEF LotSettled, ClosedByItsRow, Closed
  <2>2. /\ new \in LotRow /\ SamePrice(row, new)
        /\ new.status = IF IsSold(l, row) THEN "sold" ELSE "passed"
        /\ IsSold(l, row) => new.soldPrice = row.currentBid
    BY <1>0, ClosedRowFields
  <2>3. IsSold(l, new) <=> IsSold(l, row)
    BY <2>2, SoldAlike
  <2>4. event \in EventRow /\ event.type \in {"LOT_SOLD", "LOT_PASSED"}
    BY <1>0, ClosingEventType
  <2>5. Closings(events'[l]) = {Len(events[l]) + 1}
    BY <1>0, <1>4, <2>1, <2>4, ClosingsAppended DEF LotSettled
  <2>6. invoice'[l] = IF IsSold(l, row)
                      THEN [bidder |-> row.winner, hammerPrice |-> row.currentBid]
                      ELSE Null
    BY <1>4, <2>1 DEF LotSettled, InvoiceFor
  <2>7. IsSold(l, row) => invoice'[l] # Null
    <3>1. IsSold(l, row) => row.winner \in Bidders /\ row.currentBid \in Nat
      BY <1>0 DEF IsSold, LotRow
    <3>. QED
      BY <2>6, <3>1, CloserAssumption DEF Invoice
  <2>8. lot'[l] = new
    BY <1>4 DEF LotSettled
  <2>9. Len(events[l]) + 1 \in DOMAIN events'[l]
    BY <2>5 DEF Closings
  <2>. HIDE DEF new, row, event
  <2>10. new.currentBid = row.currentBid /\ new.winner = row.winner
    BY <2>2 DEF SamePrice
  <2>. QED
    BY <2>2, <2>3, <2>5, <2>6, <2>7, <2>8, <2>9, <2>10
    DEF ClosedByItsRow, Closed, IsSold
<1>. QED
  BY <1>1, <1>2, <1>3, <1>4, LotsMove

(* A lot that is closed stays as it is.                                    *)
LEMMA ClosedForGood ==
  ASSUME SaleInv, [CoreNext]_coreVars, NEW l \in Lots, lot[l].status \in Closed
  PROVE  lot'[l] = lot[l]
BY LotsMove DEF LotKept, LotBidOn, LotOrdered, LotSettled, Closed, Biddable

(* A lot closed at a price stays closed at that price.                     *)
LEMMA ClosedAsBefore ==
  ASSUME SaleInv, [CoreNext]_coreVars, NEW l \in Lots, NEW price, IsClosedAs(lot[l], price)
  PROVE  IsClosedAs(lot'[l], price)
BY ClosedForGood DEF IsClosedAs, Closed

(* Batches change only in the closer's hands.                              *)
LEMMA BatchesStandKept ==
  ASSUME SaleInv, [CoreNext]_coreVars
  PROVE  BatchesStand'
<1>0. CoreInv /\ CloserTypeOK /\ DOMAIN batch = Closers
  BY DEF SaleInv, CoreInv
<1>. DEFINE Price(l, row) == IF IsSold(l, row) THEN row.currentBid ELSE Null
<1>. SUFFICES ASSUME NEW d \in Closers, cpc'[d] = "announcing", NEW l \in DOMAIN batch'[d]
              PROVE  IsClosedAs(lot'[l], Price(l, batch'[d][l]))
  BY DEF BatchesStand, IsClosedAs, IsSold
<1>1. CASE cpc[d] = "announcing" /\ batch'[d] = batch[d]
  <2>1. IsClosedAs(lot[l], Price(l, batch[d][l])) /\ l \in Lots
    BY <1>0, <1>1 DEF SaleInv, BatchesStand, CloserTypeOK
  <2>2. lot[l].status \in Closed
    BY <2>1 DEF IsClosedAs, Closed
  <2>3. lot'[l] = lot[l]
    BY <2>1, <2>2, ClosedForGood
  <2>. QED
    BY <1>1, <2>1, <2>3 DEF IsClosedAs, IsSold
<1>2. ASSUME SettleBatch(d) PROVE IsClosedAs(lot'[l], Price(l, batch'[d][l]))
  <2>1. batch'[d] = batch[d] /\ cpc[d] = "settling"
    BY <1>2 DEF SettleBatch
  <2>2. l \in Lots /\ batch[d][l] \in LotRow
    BY <1>0, <2>1 DEF CloserTypeOK
  <2>3. lot'[l] = ClosedRow(l, batch[d][l])
    BY <1>2, <2>1, <2>2 DEF SettleBatch
  <2>4. lot[l] \in LotRow
    BY <1>0, <2>2 DEF CoreInv, EntryInv, BookInv, TypeInv, BidTypeOK, StoreTypeOK
  <2>5. /\ lot'[l].status = IF IsSold(l, batch[d][l]) THEN "sold" ELSE "passed"
        /\ IsSold(l, batch[d][l]) => lot'[l].soldPrice = batch[d][l].currentBid
    BY <2>2, <2>3, <2>4, ClosedRowFields
  <2>6. IsSold(l, batch[d][l]) => batch[d][l].currentBid # Null
    BY <2>2, StoreAssumption DEF LotRow
  <2>. QED
    BY <2>1, <2>5, <2>6 DEF IsClosedAs, IsSold
<1>3. SettleBatch(d) \/ (cpc[d] = "announcing" /\ batch'[d] = batch[d])
  <2>1. CASE UNCHANGED <<cpc, batch>>
    BY <2>1
  <2>2. ASSUME NEW c \in Closers, CloserTurn(c)
        PROVE  SettleBatch(d) \/ (cpc[d] = "announcing" /\ batch'[d] = batch[d])
    <3>1. ASSUME d # c PROVE cpc'[d] = cpc[d] /\ batch'[d] = batch[d]
      <4>1. CASE SelectDueLots(c)
        BY <1>0, <3>1, <4>1 DEF SelectDueLots, CloserTypeOK
      <4>2. CASE ShareAuction(c) \/ SettleBatch(c) \/ AnnounceBatch(c) \/ CycleFails(c)
        BY <1>0, <3>1, <4>2
        DEF ShareAuction, SettleBatch, AnnounceBatch, CycleFails, CloserTypeOK
      <4>. QED
        BY <2>2, <4>1, <4>2 DEF CloserTurn, CloserWork
    <3>2. ASSUME d = c, ~SettleBatch(c) PROVE FALSE
      BY <1>0, <2>2, <3>2
      DEF CloserTurn, CloserWork, SelectDueLots, ShareAuction, AnnounceBatch, CycleFails,
          CloserTypeOK
    <3>. QED
      BY <3>1, <3>2
  <2>. QED
    BY <2>1, <2>2, CoreSteps DEF closerVars, coreVars
<1>. QED
  BY <1>1, <1>2, <1>3

(* What the closers send is what they have committed.                      *)
LEMMA AnnouncementsStandKept ==
  ASSUME SaleInv, [CoreNext]_coreVars
  PROVE  AnnouncementsStand'
<1>0. CoreInv /\ EntryInv /\ TypeInv /\ CloserTypeOK /\ feed \subseteq Message
  BY DEF SaleInv, CoreInv, EntryInv, BookInv, TypeInv, BidTypeOK, StoreTypeOK
<1>. SUFFICES ASSUME NEW m, m \in feed', m.type = "LOT_CLOSED"
              PROVE  IsClosedAs(lot'[m.lot], m.price)
  BY DEF AnnouncementsStand, IsClosedAs
<1>1. CASE m \in feed
  <2>1. m.lot \in Lots
    BY <1>0, <1>1 DEF Message
  <2>2. IsClosedAs(lot[m.lot], m.price)
    BY <1>1 DEF SaleInv, AnnouncementsStand, IsClosedAs
  <2>. QED
    BY <2>1, <2>2, ClosedAsBefore
<1>2. ASSUME NEW c \in Closers, AnnounceBatch(c), m \notin feed
      PROVE  IsClosedAs(lot'[m.lot], m.price)
  <2>1. PICK l \in DOMAIN batch[c] : m = LotClosed(l, batch[c][l])
    BY <1>2 DEF AnnounceBatch
  <2>2. /\ m.lot = l
        /\ m.price = IF IsSold(l, batch[c][l]) THEN batch[c][l].currentBid ELSE Null
    BY <2>1 DEF LotClosed
  <2>3. l \in Lots
    BY <1>0, <2>1 DEF CloserTypeOK
  <2>4. IsClosedAs(lot[m.lot], m.price)
    BY <1>2, <2>1, <2>2 DEF SaleInv, BatchesStand, AnnounceBatch
  <2>. QED
    BY <2>2, <2>3, <2>4, ClosedAsBefore
<1>3. m \in feed \/ \E c \in Closers : AnnounceBatch(c)
  <2>1. ASSUME NEW w \in Workers, WorkerTurn(w) PROVE m \in feed
    <3>1. CASE Publish(w)
      <4>1. \A x \in MessagesOf(w) : x.type # "LOT_CLOSED"
        BY DEF MessagesOf
      <4>. QED
        BY <3>1, <4>1 DEF Publish
    <3>2. CASE Commit(w) \/ CommitUnacknowledged(w)
      BY <3>2 DEF Commit, CommitUnacknowledged, Committed
    <3>3. CASE ~Publish(w) /\ ~Commit(w) /\ ~CommitUnacknowledged(w)
      BY <1>0, <2>1, <3>3, QuietStep DEF WorkerTurn
    <3>. QED
      BY <3>1, <3>2, <3>3
  <2>2. ASSUME NEW c \in Closers, CloserTurn(c), ~AnnounceBatch(c) PROVE m \in feed
    BY <2>2
    DEF CloserTurn, CloserWork, SelectDueLots, ShareAuction, SettleBatch, CycleFails, storeVars
  <2>3. ASSUME NEW o \in Operators, OperatorTurn(o) PROVE m \in feed
    BY <2>3
    DEF OperatorTurn, OperatorWork, StartOpen, StartClose, StartOrder, Pause, VisitLot,
        FinishOpen, FinishClose, FinishOrder, storeVars
  <2>4. CASE ClockTicks \/ UNCHANGED coreVars
    BY <2>4 DEF ClockTicks, coreVars, bidVars, storeVars
  <2>. QED
    BY <2>1, <2>2, <2>3, <2>4, CoreSteps
<1>. QED
  BY <1>1, <1>2, <1>3

(* Initially no batch is under way and nothing is announced.               *)
LEMMA SaleInvInit == CoreInit => SaleInv
<1>. SUFFICES ASSUME CoreInit PROVE SaleInv
  OBVIOUS
<1>1. CoreInv
  BY CoreInvInit
<1>2. WorkClosesNothing
  BY DEF CoreInit, BidInit, WorkClosesNothing
<1>3. ASSUME NEW l \in Lots PROVE ClosedByItsRow(l)
  <2>1. lot \in InitialLots /\ invoice[l] = Null /\ events[l] = <<>>
    BY DEF CoreInit, BidInit, StoreInit, CloserInit
  <2>2. lot[l].status \notin Closed
    BY <2>1, InitialLotsAssumption DEF Closed
  <2>3. Closings(events[l]) = {}
    BY <2>1 DEF Closings
  <2>. QED
    BY <2>1, <2>2, <2>3 DEF ClosedByItsRow, Closed
<1>4. BatchesStand /\ AnnouncementsStand
  BY DEF CoreInit, BidInit, StoreInit, CloserInit, BatchesStand, AnnouncementsStand
<1>. QED
  BY <1>1, <1>2, <1>3, <1>4 DEF SaleInv

(* Every step keeps SaleInv.                                               *)
LEMMA SaleInvKept == SaleInv /\ [CoreNext]_coreVars => SaleInv'
<1>. SUFFICES ASSUME SaleInv, [CoreNext]_coreVars PROVE SaleInv'
  OBVIOUS
<1>1. CoreInv'
  BY CoreInvKept DEF SaleInv
<1>2. WorkClosesNothing'
  <2>1. CASE UNCHANGED workerVars
    BY <2>1 DEF SaleInv, WorkClosesNothing, workerVars
  <2>. QED
    BY <2>1, WorkerClosesNothing, CoreSteps DEF coreVars, bidVars
<1>3. \A l \in Lots : ClosedByItsRow(l)'
  BY ClosedByItsRowKept
<1>. QED
  BY <1>1, <1>2, <1>3, BatchesStandKept, AnnouncementsStandKept DEF SaleInv

(* SaleInv holds in every state of the composition.                        *)
LEMMA SaleInvHolds == CoreSpec => []SaleInv
BY SaleInvInit, SaleInvKept, PTL DEF CoreSpec

(* However many closers run, whatever fails and whoever bids meanwhile,    *)
(* every lot is settled at most once, for the bidder and the price that    *)
(* its book of bids ends with and for nobody when the reserve is missed,   *)
(* and exactly the lots that are sold are invoiced.                        *)
THEOREM SalesGoByTheBook == CoreSpec => []SettledByTheBook
<1>1. SaleInv => SettledByTheBook
  <2>. SUFFICES ASSUME SaleInv, NEW l \in Lots
                PROVE
         LET row == lot[l]
             last == bids[l][Len(bids[l])]
             closings == {e \in DOMAIN events[l] :
                            events[l][e].type \in {"LOT_SOLD", "LOT_PASSED"}}
         IN /\ invoice[l] # Null <=> row.status = "sold"
            /\ row.status = "sold" =>
                 /\ bids[l] # <<>>
                 /\ row.soldPrice = last.amount
                 /\ invoice[l] = [bidder |-> last.bidder, hammerPrice |-> last.amount]
                 /\ ReservePrice[l] # Null => last.amount >= ReservePrice[l]
            /\ row.status = "passed" /\ bids[l] # <<>> =>
                 ReservePrice[l] # Null /\ last.amount < ReservePrice[l]
            /\ Cardinality(closings) = IF row.status \in {"sold", "passed"} THEN 1 ELSE 0
    BY DEF SettledByTheBook
  <2>1. ClosedByItsRow(l) /\ RowAgreesWithBids(lot[l], bids[l])
    BY DEF SaleInv, CoreInv, EntryInv, BookInv, LotAgreesWithBids
  <2>2. lot[l].currentBid \in Nat /\ ReservePrice[l] \in Nat \cup {Null}
    BY StoreAssumption
    DEF SaleInv, CoreInv, EntryInv, BookInv, TypeInv, BidTypeOK, StoreTypeOK, LotRow
  <2>3. Cardinality(Closings(events[l])) = IF lot[l].status \in Closed THEN 1 ELSE 0
    BY <2>1, FS_EmptySet, FS_Singleton DEF ClosedByItsRow
  <2>. QED
    BY <2>1, <2>2, <2>3
    DEF ClosedByItsRow, RowAgreesWithBids, IsSold, Closings, Closed
<1>. QED
  BY <1>1, SaleInvHolds, PTL

(* What subscribers are told of a closed lot is true for good.             *)
THEOREM AnnouncementsAreTrue == CoreSpec => []AnnouncementsStand
<1>1. SaleInv => AnnouncementsStand
  BY DEF SaleInv
<1>. QED
  BY <1>1, SaleInvHolds, PTL

(* Bid processor, closers and operators together never ask for a change of *)
(* status that the trigger lot_state_guard would reject.                   *)
THEOREM StatusIsGuarded == CoreSpec => StatusFollowsTransitions
<1>1. SaleInv /\ [CoreNext]_coreVars =>
        [\A l \in Lots : \/ lot'[l].status = lot[l].status
                         \/ <<lot[l].status, lot'[l].status>> \in LotTransitions]_lot
  <2>. SUFFICES ASSUME SaleInv, [CoreNext]_coreVars, NEW l \in Lots
                PROVE  \/ lot'[l].status = lot[l].status
                       \/ <<lot[l].status, lot'[l].status>> \in LotTransitions
    OBVIOUS
  <2>1. CASE LotKept(l)
    BY <2>1 DEF LotKept
  <2>2. CASE LotBidOn(l)
    BY <2>2 DEF LotBidOn, Biddable, LotTransitions
  <2>3. CASE LotOrdered(l)
    BY <2>3 DEF LotOrdered, LotTransitions
  <2>4. CASE LotSettled(l)
    <3>1. lot[l] \in LotRow
      BY DEF SaleInv, CoreInv, EntryInv, BookInv, TypeInv, BidTypeOK, StoreTypeOK
    <3>2. lot[l].status = "closing" /\ lot'[l].status \in {"sold", "passed"}
      BY <2>4, <3>1, ClosedRowFields DEF LotSettled
    <3>. QED
      BY <3>2 DEF LotTransitions
  <2>. QED
    BY <2>1, <2>2, <2>3, <2>4, LotsMove
<1>. QED
  BY <1>1, SaleInvHolds, PTL DEF CoreSpec, StatusFollowsTransitions

-----------------------------------------------------------------------------
(* The ledger.                                                             *)

(* Settling a lot in the tables settles it in the ledger.                  *)
LEMMA LedgerSettles ==
  ASSUME NEW CONSTANT l \in Lots, bids[l] \in Seq(BidRow),
         OutcomeOf(lot[l]) = "running",
         OutcomeOf(lot'[l]) =
           IF bids[l] # <<>> /\ (ReservePrice[l] = Null \/ lot[l].currentBid >= ReservePrice[l])
           THEN "sold" ELSE "passed",
         bids'[l] = bids[l], lot'[l].currentBid = lot[l].currentBid
  PROVE  Ledger!Settle(l)
<1>. DEFINE book == [l_1 \in Lots |-> [i \in DOMAIN bids[l_1] |->
                      [bidder |-> bids[l_1][i].bidder, amount |-> bids[l_1][i].amount]]]
<1>1. book[l] = BookOf(bids[l])
  BY DEF BookOf, EntryOf
<1>2. BookOf(bids[l]) = <<>> <=> bids[l] = <<>>
  BY BookType, EmptySeq
<1>. QED
  BY <1>1, <1>2 DEF Ledger!Settle, Ledger!ReserveMet, OutcomeOf

(* A step of the whole system keeps, raises or settles every lot.          *)
LEMMA CoreStepLedger ==
  ASSUME SaleInv, [CoreNext]_coreVars
  PROVE  Ledger!LedgerNext
<1>0. CoreInv /\ EntryInv
  BY DEF SaleInv, CoreInv
<1>1. ASSUME NEW w \in Workers, WorkerTurn(w) PROVE Ledger!LedgerNext
  BY <1>0, <1>1, WorkerStepLedger DEF WorkerTurn
<1>2. ASSUME NEW CONSTANT l \in Lots, LotKept(l) \/ LotOrdered(l) \/ LotSettled(l)
      PROVE  Ledger!Settle(l) \/ Ledger!Keep(l)
  <2>1. lot[l] \in LotRow /\ bids[l] \in Seq(BidRow) /\ RowAgreesWithBids(lot[l], bids[l])
    BY <1>0 DEF EntryInv, BookInv, TypeInv, BidTypeOK, StoreTypeOK, LotAgreesWithBids
  <2>2. CASE LotKept(l)
    BY <2>2, LedgerKeeps DEF LotKept
  <2>3. CASE LotOrdered(l)
    BY <2>3 DEF LotOrdered, SamePrice, Ledger!Keep
  <2>4. CASE LotSettled(l)
    <3>1. /\ SamePrice(lot[l], lot'[l])
          /\ lot'[l].status = IF IsSold(l, lot[l]) THEN "sold" ELSE "passed"
      BY <2>1, <2>4, ClosedRowFields DEF LotSettled
    <3>2. bids[l] # <<>> <=> lot[l].winner # Null
      BY <2>1 DEF RowAgreesWithBids
    <3>. QED
      BY <2>1, <2>4, <3>1, <3>2, LedgerSettles DEF LotSettled, IsSold, OutcomeOf, SamePrice
  <2>. QED
    BY <1>2, <2>2, <2>3, <2>4
<1>3. ASSUME ~ \E w \in Workers : WorkerTurn(w) PROVE Ledger!LedgerNext
  <2>1. ASSUME NEW CONSTANT l \in Lots
        PROVE  LotKept(l) \/ LotOrdered(l) \/ LotSettled(l)
    <3>1. CASE \/ ClockTicks /\ UNCHANGED <<keyVars, workerVars, closerVars, lifecycleVars>>
               \/ UNCHANGED coreVars
      BY <3>1 DEF ClockTicks, coreVars, bidVars, storeVars, closerVars, LotKept
    <3>. QED
      BY <1>0, <1>3, <3>1, CoreSteps, CloserMovesLots, OperatorMovesLots DEF closerVars
  <2>. QED
    BY <1>2, <2>1 DEF Ledger!LedgerNext
<1>. QED
  BY <1>1, <1>3

(* The whole system keeps the promises of LotLedger: bids only add to the  *)
(* book and climb, a lot closes once, for its last bidder at its last      *)
(* price when the reserve is met, and nothing changes afterwards, whatever *)
(* bidders, closers and operators do at once and whatever fails.           *)
THEOREM CoreLedgerIsKept == CoreSpec => KeepsTheLedger
<1>1. CoreInit => Ledger!LedgerInit
  BY LedgerStarts DEF CoreInit
<1>2. SaleInv /\ [CoreNext]_coreVars => [Ledger!LedgerNext]_(Ledger!ledgerVars)
  BY CoreStepLedger
<1>. QED
  BY <1>1, <1>2, SaleInvHolds, PTL DEF CoreSpec, KeepsTheLedger, Ledger!LedgerSpec

-----------------------------------------------------------------------------
(* What the processor promises alone it promises in company.               *)

(* Closers, operators and the clock enter no bid, tell of none, of no      *)
(* reserve that is met either, and change no price.                        *)
LEMMA OthersBidNothing ==
  ASSUME CoreInv, [CoreNext]_coreVars, ~ \E w \in Workers : WorkerTurn(w)
  PROVE  /\ UNCHANGED <<bids, keyVars, workerVars>>
         /\ \A m \in feed' : m \in feed \/ (m.type # "BID_ACCEPTED" /\ ~m.reserveMet)
         /\ \A l \in Lots : SamePrice(lot[l], lot'[l])
<1>. DEFINE Tells ==
              \A m \in feed' : m \in feed \/ (m.type # "BID_ACCEPTED" /\ ~m.reserveMet)
            Prices == \A l \in Lots : SamePrice(lot[l], lot'[l])
<1>1. ASSUME NEW c \in Closers, CloserTurn(c) PROVE UNCHANGED bids /\ Tells /\ Prices
  <2>1. UNCHANGED bids
    BY <1>1
    DEF CloserTurn, CloserWork, SelectDueLots, ShareAuction, SettleBatch, AnnounceBatch,
        CycleFails, storeVars
  <2>2. Tells
    BY <1>1
    DEF CloserTurn, CloserWork, SelectDueLots, ShareAuction, SettleBatch, AnnounceBatch,
        CycleFails, LotClosed, storeVars
  <2>3. Prices
    <3>1. ASSUME NEW l \in Lots PROVE SamePrice(lot[l], lot'[l])
      <4>1. lot[l] \in LotRow
        BY DEF CoreInv, EntryInv, BookInv, TypeInv, BidTypeOK, StoreTypeOK
      <4>2. LotKept(l) => SamePrice(lot[l], lot'[l])
        BY DEF LotKept, SamePrice
      <4>3. LotSettled(l) => SamePrice(lot[l], lot'[l])
        BY <4>1, ClosedRowFields DEF LotSettled
      <4>. QED
        BY <1>1, <4>2, <4>3, CloserMovesLots
    <3>. QED
      BY <3>1
  <2>. QED
    BY <2>1, <2>2, <2>3
<1>2. ASSUME NEW o \in Operators, OperatorTurn(o), UNCHANGED invoice
      PROVE  UNCHANGED bids /\ Tells /\ Prices
  <2>1. UNCHANGED <<bids, feed>>
    BY <1>2
    DEF OperatorTurn, OperatorWork, StartOpen, StartClose, StartOrder, Pause, VisitLot,
        FinishOpen, FinishClose, FinishOrder, storeVars
  <2>2. ASSUME NEW l \in Lots PROVE SamePrice(lot[l], lot'[l])
    BY <1>2, OperatorMovesLots DEF LotKept, LotOrdered, SamePrice
  <2>. QED
    BY <2>1, <2>2
<1>3. CASE \/ ClockTicks /\ UNCHANGED <<keyVars, workerVars, closerVars, lifecycleVars>>
           \/ UNCHANGED coreVars
  BY <1>3 DEF ClockTicks, coreVars, bidVars, storeVars, SamePrice
<1>. QED
  BY <1>1, <1>2, <1>3, CoreSteps DEF coreVars, bidVars, closerVars

(* The promise about keys holds of the composition.                        *)
LEMMA CoreKeysHold == CoreSpec => []KeyInv
<1>1. CoreInit => OneBidPerKey /\ KeysTellOfBids /\ ResultsAreStored /\ AnswersAreStored
  BY KeysInit DEF CoreInit
<1>2. CoreInv /\ CoreInv' /\ KeyInv /\ [CoreNext]_coreVars => KeyInv'
  <2>. SUFFICES ASSUME CoreInv, CoreInv', KeyInv, [CoreNext]_coreVars PROVE KeyInv'
    OBVIOUS
  <2>1. EntryInv'
    BY DEF CoreInv
  <2>2. ASSUME NEW w \in Workers, WorkerTurn(w) PROVE KeyInv'
    BY <2>1, <2>2, StepKeepsKeys, StepKeepsAnswers DEF WorkerTurn, KeyInv
  <2>3. CASE ~ \E w \in Workers : WorkerTurn(w)
    BY <2>1, <2>3, OthersBidNothing, KeysUntouched DEF keyVars, workerVars
  <2>. QED
    BY <2>2, <2>3
<1>3. CoreInv => EntryInv
  BY DEF CoreInv
<1>. QED
  BY <1>1, <1>2, <1>3, CoreInvHolds, PTL DEF CoreSpec, KeyInv

(* Opening, closing and settling lots between the statements of a bid, its *)
(* repetition and their failures does not let a key enter a second bid.    *)
THEOREM CoreKeysEnterOnce == CoreSpec => []OneBidPerKey
<1>1. KeyInv => OneBidPerKey
  BY DEF KeyInv
<1>. QED
  BY <1>1, CoreKeysHold, PTL

(* Nor is an answer ever taken back, of a lot that is sold meanwhile       *)
(* either.                                                                 *)
THEOREM CoreAnswersStayTrue == CoreSpec => []AnswersAreDurable
BY CoreKeysHold, KeysGiveAnswers, PTL

(* The messages of bids remain true beside those of closers: each carries  *)
(* the number and the amount of a bid in the tables.                       *)
THEOREM CoreFeedIsTrue == CoreSpec => []FeedTellsOfCommittedBids
<1>1. CoreInit => NewsIsCommitted /\ FeedTellsOfCommittedBids
  BY NewsInit DEF CoreInit
<1>2. CoreInv /\ NewsIsCommitted /\ FeedTellsOfCommittedBids /\ [CoreNext]_coreVars
        => NewsIsCommitted' /\ FeedTellsOfCommittedBids'
  <2>. SUFFICES ASSUME CoreInv, NewsIsCommitted, FeedTellsOfCommittedBids,
                       [CoreNext]_coreVars
                PROVE  NewsIsCommitted' /\ FeedTellsOfCommittedBids'
    OBVIOUS
  <2>1. ASSUME NEW w \in Workers, WorkerTurn(w)
        PROVE  NewsIsCommitted' /\ FeedTellsOfCommittedBids'
    BY <2>1, StepKeepsNews DEF WorkerTurn, FeedInv, CoreInv
  <2>2. CASE ~ \E w \in Workers : WorkerTurn(w)
    BY <2>2, OthersBidNothing, NewsUntouched DEF workerVars
  <2>. QED
    BY <2>1, <2>2
<1>. QED
  BY <1>1, <1>2, CoreInvHolds, PTL DEF CoreSpec

(* A lot that is opened, closed to bids or settled is left with no rival   *)
(* proxy bid either, unless the loop has made all its rounds.              *)
THEOREM CoreBidsAreCountered == CoreSpec => []NoRivalProxyLeft
<1>1. CoreInit => RivalInv
  BY RivalsInit DEF CoreInit
<1>2. CoreInv /\ RivalInv /\ [CoreNext]_coreVars => RivalInv'
  <2>. SUFFICES ASSUME CoreInv, RivalInv, [CoreNext]_coreVars PROVE RivalInv'
    OBVIOUS
  <2>1. ASSUME NEW w \in Workers, WorkerTurn(w) PROVE RivalInv'
    BY <2>1, WorkerStepRivals DEF WorkerTurn, CoreInv, EntryInv
  <2>2. CASE ~ \E w \in Workers : WorkerTurn(w)
    BY <2>2, OthersBidNothing, RivalsUndisturbed DEF workerVars, SamePrice
  <2>. QED
    BY <2>1, <2>2
<1>3. RivalInv => NoRivalProxyLeft
  BY DEF RivalInv
<1>. QED
  BY <1>1, <1>2, <1>3, CoreInvHolds, PTL DEF CoreSpec

(* No bid that is entered beside openings, closings and settlements is     *)
(* beyond what its bidder has allowed.                                     *)
LEMMA CoreCeilingsHold == CoreSpec => []CeilingInv
<1>1. CoreInit => CeilingInv
  BY CeilingsInit DEF CoreInit
<1>2. CoreInv /\ CeilingInv /\ [CoreNext]_coreVars => CeilingInv'
  <2>. SUFFICES ASSUME CoreInv, CeilingInv, [CoreNext]_coreVars PROVE CeilingInv'
    OBVIOUS
  <2>1. ASSUME NEW w \in Workers, WorkerTurn(w) PROVE CeilingInv'
    BY <2>1, StepKeepsCeilings DEF WorkerTurn, CoreInv
  <2>2. CASE ~ \E w \in Workers : WorkerTurn(w)
    BY <2>2, OthersBidNothing, CeilingsUntouched DEF workerVars
  <2>. QED
    BY <2>1, <2>2
<1>. QED
  BY <1>1, <1>2, CoreInvHolds, PTL DEF CoreSpec

(* The ceilings bind the loop in company, too.                             *)
THEOREM CoreCeilingsBind == CoreSpec => []CeilingsAreKept
<1>1. CeilingInv => CeilingsAreKept
  BY DEF CeilingInv
<1>. QED
  BY <1>1, CoreCeilingsHold, PTL

(* A bidder has offered an amount with a bid of that amount, or with a     *)
(* proxy bid whose ceiling is not below it.                                *)
Offered(l, bidder, amount) ==
  \E i \in DOMAIN bids[l] :
    LET b == bids[l][i] IN
    /\ b.bidder = bidder /\ b.type \in {"live", "proxy"}
    /\ b.amount = amount \/ (b.type = "proxy" /\ b.max >= amount)

(* So nobody is ever invoiced an amount that he has not offered for the    *)
(* lot himself, whoever's bids ran the price up to it.                     *)
THEOREM InvoicesAreOffered ==
  CoreSpec => [](\A l \in Lots :
                   invoice[l] # Null =>
                     Offered(l, invoice[l].bidder, invoice[l].hammerPrice))
<1>1. CoreInv /\ CeilingInv /\ SettledByTheBook =>
        \A l \in Lots :
          invoice[l] # Null => Offered(l, invoice[l].bidder, invoice[l].hammerPrice)
  <2>. SUFFICES ASSUME CoreInv, CeilingInv, SettledByTheBook, NEW l \in Lots,
                       invoice[l] # Null
                PROVE  Offered(l, invoice[l].bidder, invoice[l].hammerPrice)
    OBVIOUS
  <2>. DEFINE n == Len(bids[l])
              last == bids[l][n]
  <2>1. /\ bids[l] # <<>> /\ bids[l] \in Seq(BidRow)
        /\ invoice[l] = [bidder |-> last.bidder, hammerPrice |-> last.amount]
    BY DEF SettledByTheBook, CoreInv, EntryInv, BookInv, TypeInv, BidTypeOK, StoreTypeOK
  <2>2. n \in Nat /\ n \in DOMAIN bids[l] /\ DOMAIN bids[l] = 1..n /\ last \in BidRow
    BY <2>1, LenProperties, EmptySeq, ElementOfSeq
  <2>3. CASE last.type = "auto_increment"
    <3>1. PICK j \in 1 .. n - 1 : /\ bids[l][j].type = "proxy"
                                  /\ bids[l][j].bidder = last.bidder
                                  /\ bids[l][j].max >= last.amount
      BY <2>2, <2>3 DEF CeilingInv, CeilingsAreKept
    <3>2. j \in DOMAIN bids[l]
      BY <2>2
    <3>. HIDE DEF last, n
    <3>. QED
      BY <2>1, <3>1, <3>2 DEF Offered
  <2>4. CASE last.type # "auto_increment"
    <3>1. last.type \in {"live", "proxy"}
      BY <2>2, <2>4 DEF BidRow, BidType
    <3>. QED
      BY <2>1, <2>2, <3>1 DEF Offered
  <2>. QED
    BY <2>3, <2>4
<1>. QED
  BY <1>1, CoreInvHolds, CoreCeilingsHold, SalesGoByTheBook, PTL

-----------------------------------------------------------------------------
(* The reserve.                                                            *)

(* A version in progress has not lost the price its lot has, and if its    *)
(* reserve is called met, the lot would be sold as it is; so would a lot   *)
(* that a message about to be sent, or sent already, calls so.             *)
WorkRises(w) ==
  pc[w] \in {"resolve", "commit"} =>
    /\ work[w].lot.winner # Null
    /\ work[w].lot.currentBid >= lot[req[w].lot].currentBid
    /\ work[w].reserveMet => IsSold(req[w].lot, work[w].lot)

NewsSells(w) ==
  pc[w] = "publish" /\ work[w].reserveMet => IsSold(req[w].lot, lot[req[w].lot])

FeedSells == \A m \in feed : m.reserveMet => IsSold(m.lot, lot[m.lot])

ReserveInv == (\A w \in Workers : WorkRises(w) /\ NewsSells(w)) /\ FeedSells

(* What would be sold would be sold for more.                              *)
LEMMA SoldAtMore ==
  ASSUME NEW l \in Lots, NEW old \in LotRow, NEW new \in LotRow, IsSold(l, old),
         new.winner # Null, new.currentBid >= old.currentBid
  PROVE  IsSold(l, new)
BY StoreAssumption DEF IsSold, LotRow

(* A worker's own version rises.                                           *)
LEMMA HandsRise ==
  ASSUME CoreInv, ReserveInv, NEW w \in Workers, WorkerTurn(w),
         pc'[w] \in {"resolve", "commit"}
  PROVE  /\ work'[w].lot.winner # Null
         /\ work'[w].lot.currentBid >= lot'[req'[w].lot].currentBid
         /\ work'[w].reserveMet => IsSold(req'[w].lot, work'[w].lot)
<1>. DEFINE l == req[w].lot
<1>1. /\ EntryInv /\ TypeInv /\ lot \in [Lots -> LotRow]
      /\ \A v \in Workers : pc[v] \in {"resolve", "commit"} => work[v] \in Work
  BY DEF CoreInv, EntryInv, BookInv, TypeInv, BidTypeOK, StoreTypeOK, WorkersAreEquipped
<1>2. /\ req'[w] = req[w] /\ lot' = lot /\ l \in Lots /\ req[w] \in Requests
      /\ HandsAccepted(w) \/ (\E p : HandsCountered(w, p)) \/ HandsKept(w)
  BY <1>1, HandsMove DEF WorkerTurn
<1>3. lot[l] \in LotRow /\ lot[l].currentBid \in Nat
  BY <1>1, <1>2 DEF LotRow
<1>4. CASE HandsAccepted(w)
  <2>1. /\ work'[w].lot.winner = req[w].bidder
        /\ work'[w].lot.currentBid = req[w].amount
        /\ work'[w].reserveMet = MeetsReserve(req[w])
    BY <1>4 DEF HandsAccepted, Leads
  <2>2. req[w].bidder # Null /\ req[w].amount \in Nat
    BY <1>2, RequestType, StoreAssumption
  <2>3. req[w].amount >= GetMinimumNextBid(lot[l].currentBid)
    BY <1>4, AcceptedOnMerit DEF HandsAccepted
  <2>4. req[w].amount >= lot[l].currentBid
    BY <1>3, <2>2, <2>3, MinimumNextBidHigher
  <2>5. MeetsReserve(req[w]) => IsSold(l, work'[w].lot)
    BY <2>1, <2>2 DEF MeetsReserve, IsSold
  <2>. QED
    BY <1>2, <2>1, <2>2, <2>4, <2>5
<1>5. ASSUME pc[w] \in {"resolve", "commit"}
      PROVE  /\ work[w].lot \in LotRow /\ work[w].lot.currentBid \in Nat
             /\ work[w].lot.winner # Null
             /\ work[w].lot.currentBid >= lot[l].currentBid
             /\ work[w].reserveMet => IsSold(l, work[w].lot)
  BY <1>1, <1>5 DEF ReserveInv, WorkRises, Work, LotRow
<1>6. ASSUME NEW p, HandsCountered(w, p)
      PROVE  /\ work'[w].lot.winner # Null
             /\ work'[w].lot.currentBid >= lot[l].currentBid
             /\ work'[w].reserveMet => IsSold(l, work'[w].lot)
  <2>1. /\ pc[w] = "resolve" /\ work[w] \in Work /\ p \in DOMAIN work[w].bids
        /\ work'[w].lot.winner = work[w].bids[p].bidder
        /\ work'[w].lot.currentBid = GetMinimumNextBid(work[w].lot.currentBid)
        /\ work'[w].reserveMet = work[w].reserveMet
    BY <1>6 DEF HandsCountered, Leads, Counters, BestProxies, Competing
  <2>2. work[w].bids[p].bidder # Null
    <3>1. work[w].bids \in Seq(BidRow) /\ p \in 1..Len(work[w].bids)
      BY <2>1, LenProperties DEF Work
    <3>2. work[w].bids[p] \in BidRow
      BY <3>1, ElementOfSeq
    <3>. QED
      BY <3>2, StoreAssumption DEF BidRow
  <2>3. /\ GetMinimumNextBid(work[w].lot.currentBid) \in Nat
        /\ GetMinimumNextBid(work[w].lot.currentBid) >= work[w].lot.currentBid
    BY <1>5, <2>1, MinimumNextBidHigher
  <2>4. work'[w].lot.currentBid >= lot[l].currentBid
    BY <1>3, <1>5, <2>1, <2>3
  <2>5. IsSold(l, work[w].lot) => IsSold(l, work'[w].lot)
    BY <1>2, <1>5, <2>1, <2>2, <2>3, StoreAssumption DEF IsSold
  <2>. QED
    BY <1>5, <2>1, <2>2, <2>4, <2>5
<1>7. CASE HandsKept(w)
  <2>1. /\ pc[w] = "resolve"
        /\ work'[w].lot.winner = work[w].lot.winner
        /\ work'[w].lot.currentBid = work[w].lot.currentBid
        /\ work'[w].reserveMet = work[w].reserveMet
    BY <1>7 DEF HandsKept, Leads
  <2>2. IsSold(l, work[w].lot) => IsSold(l, work'[w].lot)
    BY <2>1 DEF IsSold
  <2>. QED
    BY <1>2, <1>5, <2>1, <2>2
<1>. QED
  BY <1>2, <1>4, <1>6, <1>7

(* Every step of a worker leaves sold what would be sold.                  *)
LEMMA WorkerKeepsSold ==
  ASSUME CoreInv, ReserveInv, NEW w \in Workers, WorkerTurn(w), NEW l \in Lots,
         IsSold(l, lot[l])
  PROVE  IsSold(l, lot'[l])
<1>1. EntryInv /\ lot[l] \in LotRow
  BY DEF CoreInv, EntryInv, BookInv, TypeInv, BidTypeOK, StoreTypeOK
<1>2. CASE Commit(w) \/ CommitUnacknowledged(w)
  <2>1. pc[w] = "commit" /\ Committed(w)
    BY <1>2 DEF Commit, CommitUnacknowledged, Goes
  <2>2. CASE l # req[w].lot
    BY <1>1, <2>1, <2>2, CommittedTables
  <2>3. CASE l = req[w].lot
    <3>1. lot'[l] = work[w].lot /\ work[w].lot \in LotRow
      BY <1>1, <2>1, <2>3, CommittedTables, CommitterHolds DEF Work
    <3>2. work[w].lot.winner # Null /\ work[w].lot.currentBid >= lot[l].currentBid
      BY <2>1, <2>3 DEF ReserveInv, WorkRises
    <3>. QED
      BY <1>1, <3>1, <3>2, SoldAtMore
  <2>. QED
    BY <2>2, <2>3
<1>3. CASE ~Commit(w) /\ ~CommitUnacknowledged(w)
  BY <1>1, <1>3, QuietStep DEF WorkerTurn
<1>. QED
  BY <1>2, <1>3

(* Every step of a worker keeps the reserve where it was met.              *)
LEMMA WorkerKeepsReserve ==
  ASSUME CoreInv, ReserveInv, NEW w \in Workers, WorkerTurn(w)
  PROVE  ReserveInv'
<1>0. /\ EntryInv /\ feed \subseteq Message
      /\ pc \in [Workers -> InTransaction \cup {"idle", "publish", "unlock"}]
      /\ \A v \in Workers : pc[v] = "publish" => req[v].lot \in Lots
  BY DEF CoreInv, EntryInv, BookInv, TypeInv, BidTypeOK, StoreTypeOK, WorkersAreEquipped
<1>1. \A v \in Workers \ {w} : pc'[v] = pc[v] /\ work'[v] = work[v] /\ req'[v] = req[v]
  BY <1>0, HandsMove DEF WorkerTurn
<1>2. ASSUME NEW v \in Workers, pc'[v] \in {"resolve", "commit"}
      PROVE  /\ work'[v].lot.winner # Null
             /\ work'[v].lot.currentBid >= lot'[req'[v].lot].currentBid
             /\ work'[v].reserveMet => IsSold(req'[v].lot, work'[v].lot)
  <2>1. CASE v # w
    <3>1. /\ pc[v] \in {"resolve", "commit"} /\ WorkRises(v)
          /\ work'[v] = work[v] /\ req'[v] = req[v]
      BY <1>1, <1>2, <2>1 DEF ReserveInv
    <3>2. lot'[req[v].lot] = lot[req[v].lot]
      <4>1. req[v].lot \in Lots /\ lotLock[req[v].lot] = v
        BY <1>0, <3>1, CommitterHolds
      <4>. QED
        BY <1>0, <2>1, <4>1, WorkerMindsLocks DEF MindsLocks
    <3>. QED
      BY <3>1, <3>2 DEF WorkRises
  <2>. QED
    BY <1>2, <2>1, HandsRise
<1>3. ASSUME NEW v \in Workers, pc'[v] = "publish", work'[v].reserveMet
      PROVE  IsSold(req'[v].lot, lot'[req'[v].lot])
  <2>1. CASE v # w
    <3>1. /\ pc[v] = "publish" /\ work[v].reserveMet /\ req'[v] = req[v]
          /\ req[v].lot \in Lots
      BY <1>0, <1>1, <1>3, <2>1
    <3>2. IsSold(req[v].lot, lot[req[v].lot])
      BY <3>1 DEF ReserveInv, NewsSells
    <3>. QED
      BY <3>1, <3>2, WorkerKeepsSold
  <2>2. CASE v = w
    <3>1. Commit(w)
      BY <1>0, <1>3, <2>2
      DEF WorkerTurn, WorkerStep, WorkerFailure, Begin, InsertKey, InsertFindsKey,
          SelectCompleted, SelectInFlight, Replay, LockLot, LotNotFound, RejectBid,
          AcceptBid, ProxyCounters, RecordBid, Publish, ForceUnlock, StatementFails,
          CommitUnacknowledged, Goes, InTransaction
    <3>2. /\ pc[w] = "commit" /\ Committed(w) /\ UNCHANGED <<req, work>>
      BY <3>1 DEF Commit, Goes
    <3>3. lot'[req[w].lot] = work[w].lot
      BY <1>0, <3>2, CommittedTables
    <3>4. IsSold(req[w].lot, work[w].lot)
      BY <1>3, <2>2, <3>2 DEF ReserveInv, WorkRises
    <3>. QED
      BY <2>2, <3>2, <3>3, <3>4
  <2>. QED
    BY <2>1, <2>2
<1>4. ASSUME NEW m \in feed', m.reserveMet PROVE IsSold(m.lot, lot'[m.lot])
  <2>1. CASE m \in feed
    <3>1. m.lot \in Lots /\ IsSold(m.lot, lot[m.lot])
      BY <1>0, <1>4, <2>1 DEF ReserveInv, FeedSells, Message
    <3>. QED
      BY <3>1, WorkerKeepsSold
  <2>2. CASE m \notin feed
    <3>1. Publish(w)
      <4>1. CASE Commit(w) \/ CommitUnacknowledged(w)
        BY <2>2, <4>1 DEF Commit, CommitUnacknowledged, Committed
      <4>2. CASE ~Commit(w) /\ ~CommitUnacknowledged(w)
        BY <1>0, <2>2, <4>2, QuietStep DEF WorkerTurn
      <4>. QED
        BY <4>1, <4>2
    <3>2. m \in MessagesOf(w) /\ pc[w] = "publish" /\ UNCHANGED lot
      BY <2>2, <3>1 DEF Publish, Goes
    <3>3. m.lot = req[w].lot /\ work[w].reserveMet
      BY <1>4, <3>2 DEF MessagesOf
    <3>. QED
      BY <3>2, <3>3 DEF ReserveInv, NewsSells
  <2>. QED
    BY <2>1, <2>2
<1>5. (\A v \in Workers : WorkRises(v) /\ NewsSells(v))' /\ FeedSells'
  BY <1>2, <1>3, <1>4 DEF WorkRises, NewsSells, FeedSells, IsSold
<1>. QED
  BY <1>5 DEF ReserveInv

(* Closers and operators change no price.                                  *)
LEMMA OthersKeepReserve ==
  ASSUME CoreInv, ReserveInv, [CoreNext]_coreVars, ~ \E w \in Workers : WorkerTurn(w)
  PROVE  ReserveInv'
<1>0. /\ feed \subseteq Message
      /\ \A v \in Workers :
           pc[v] \in {"resolve", "commit", "publish"} => req[v].lot \in Lots
  BY DEF CoreInv, EntryInv, BookInv, TypeInv, BidTypeOK, StoreTypeOK, WorkersAreEquipped
<1>1. /\ UNCHANGED <<pc, req, work>>
      /\ \A m \in feed' : m \in feed \/ ~m.reserveMet
      /\ \A l \in Lots : SamePrice(lot[l], lot'[l])
  BY OthersBidNothing DEF workerVars
<1>2. \A l \in Lots : IsSold(l, lot[l]) => IsSold(l, lot'[l])
  BY <1>1, SoldAlike
<1>3. ASSUME NEW v \in Workers, pc'[v] \in {"resolve", "commit"}
      PROVE  /\ work'[v].lot.winner # Null
             /\ work'[v].lot.currentBid >= lot'[req'[v].lot].currentBid
             /\ work'[v].reserveMet => IsSold(req'[v].lot, work'[v].lot)
  <2>1. WorkRises(v) /\ req[v].lot \in Lots
    BY <1>0, <1>1, <1>3 DEF ReserveInv
  <2>. QED
    BY <1>1, <1>3, <2>1 DEF WorkRises, SamePrice
<1>4. ASSUME NEW v \in Workers, pc'[v] = "publish", work'[v].reserveMet
      PROVE  IsSold(req'[v].lot, lot'[req'[v].lot])
  BY <1>0, <1>1, <1>2, <1>4 DEF ReserveInv, NewsSells
<1>5. ASSUME NEW m \in feed', m.reserveMet PROVE IsSold(m.lot, lot'[m.lot])
  BY <1>0, <1>1, <1>2, <1>5 DEF ReserveInv, FeedSells, Message
<1>6. (\A v \in Workers : WorkRises(v) /\ NewsSells(v))' /\ FeedSells'
  BY <1>3, <1>4, <1>5 DEF WorkRises, NewsSells, FeedSells, IsSold
<1>. QED
  BY <1>6 DEF ReserveInv

(* Whatever is bid between a message that calls the reserve met and the    *)
(* end of the lot, and however late the message comes, the closer sells.   *)
THEOREM ReserveMetIsSold == CoreSpec => []ReserveMetMeansSold
<1>1. CoreInit => ReserveInv
  BY DEF CoreInit, BidInit, StoreInit, ReserveInv, WorkRises, NewsSells, FeedSells
<1>2. CoreInv /\ ReserveInv /\ [CoreNext]_coreVars => ReserveInv'
  BY WorkerKeepsReserve, OthersKeepReserve
<1>3. SaleInv /\ ReserveInv => ReserveMetMeansSold
  <2>. SUFFICES ASSUME SaleInv, ReserveInv, NEW m \in feed, m.reserveMet
                PROVE  lot[m.lot].status # "passed"
    BY DEF ReserveMetMeansSold
  <2>1. m.lot \in Lots
    BY DEF SaleInv, CoreInv, EntryInv, BookInv, TypeInv, BidTypeOK, StoreTypeOK, Message
  <2>2. IsSold(m.lot, lot[m.lot])
    BY DEF ReserveInv, FeedSells
  <2>. QED
    BY <2>1, <2>2 DEF SaleInv, ClosedByItsRow
<1>. QED
  BY <1>1, <1>2, <1>3, CoreInvHolds, SaleInvHolds, PTL DEF CoreSpec

-----------------------------------------------------------------------------
(* The audit trail.                                                        *)

StatusTypes == {"LOT_OPENED", "LOT_SOLD", "LOT_PASSED"}

(* A lot that is still to be opened has taken no bid that could extend it. *)
PendingUnextended ==
  \A l \in Lots : lot[l].status = "pending" => Extensions(events[l]) = {}

TrailInv ==
  SaleInv /\ TablesTell(FALSE) /\ WorkTells(FALSE) /\ PendingUnextended

(* An event about the status of the lot tells of no bid and no deadline.   *)
LEMMA StatusEventTells ==
  ASSUME NEW es \in Seq(EventRow), NEW bs, NEW skip, NEW deadlines,
         TellsOf(es, bs, skip, deadlines),
         NEW ev \in EventRow, ev.type \in StatusTypes
  PROVE  TellsOf(Append(es, ev), bs, skip, deadlines)
<1>. DEFINE n == Len(es)
            more == Append(es, ev)
<1>1. ev.type \notin PricedTypes /\ ev.type # "ANTI_SNIPE_TRIGGERED"
  BY DEF PricedTypes, StatusTypes
<1>2. /\ \A e \in DOMAIN es : more[e] = es[e]
      /\ Priced(more) = Priced(es) /\ Extensions(more) = Extensions(es)
  <2>1. /\ \A e \in DOMAIN es : more[e] = es[e] /\ e <= n + 1
        /\ Priced(more) =
             Priced(es) \cup IF ev.type \in PricedTypes THEN {n + 1} ELSE {}
        /\ Extensions(more) =
             Extensions(es) \cup IF ev.type = "ANTI_SNIPE_TRIGGERED" THEN {n + 1} ELSE {}
    BY OneMoreEvent
  <2>. HIDE DEF n, more
  <2>. QED
    BY <1>1, <2>1
<1>. HIDE DEF more
<1>3. \A e \in Priced(es) \cup Extensions(es) : more[e] = es[e]
  BY <1>2 DEF Priced, Extensions
<1>4. TellsOf(more, bs, skip, deadlines)
  BY <1>2, <1>3 DEF TellsOf
<1>. QED
  BY <1>4 DEF more

(* What is told of a deadline is told of some deadline.                    *)
LEMMA SomeDeadlineTold ==
  ASSUME NEW es \in Seq(EventRow), NEW bs, NEW skip, NEW deadlines,
         TellsOf(es, bs, skip, deadlines)
  PROVE  /\ TellsOf(es, bs, skip, Nat)
         /\ Extensions(es) = {} => \A others : TellsOf(es, bs, skip, others)
<1>1. DOMAIN es = 1..Len(es) /\ \A e \in 1..Len(es) : es[e] \in EventRow
  BY LenProperties, ElementOfSeq
<1>2. \A e \in Extensions(es) : es[e].value \in Nat
  BY <1>1 DEF Extensions, EventRow
<1>. QED
  BY <1>2 DEF TellsOf

(* An order or a closer leaves a lot whose events tell what they should.   *)
LEMMA OthersTellOfLot ==
  ASSUME TrailInv, NEW CONSTANT l \in Lots, LotKept(l) \/ LotOrdered(l) \/ LotSettled(l)
  PROVE  TellsOf(events'[l], bids'[l], {}, DeadlinesOf(lot'[l], FALSE))
<1>1. /\ TellsOf(events[l], bids[l], {}, DeadlinesOf(lot[l], FALSE))
      /\ lot[l] \in LotRow /\ events[l] \in Seq(EventRow)
  BY DEF TrailInv, TablesTell, SaleInv, CoreInv, EntryInv, BookInv, TypeInv, BidTypeOK,
         StoreTypeOK
<1>2. CASE LotKept(l)
  BY <1>1, <1>2 DEF LotKept
<1>3. CASE LotOrdered(l)
  <2>1. bids'[l] = bids[l]
    BY <1>3 DEF LotOrdered
  <2>2. TellsOf(events[l], bids[l], {}, DeadlinesOf(lot'[l], FALSE))
    <3>1. CASE lot[l].status = "pending" /\ lot'[l].status = "open"
      <4>1. Extensions(events[l]) = {}
        BY <3>1 DEF TrailInv, PendingUnextended
      <4>. QED
        BY <1>1, <4>1, SomeDeadlineTold
    <3>2. CASE lot[l].status = "open" /\ lot'[l].status = "closing"
      <4>1. DeadlinesOf(lot'[l], FALSE) = Nat
        BY <3>2 DEF DeadlinesOf
      <4>. QED
        BY <1>1, <4>1, SomeDeadlineTold
    <3>. QED
      BY <1>3, <3>1, <3>2 DEF LotOrdered
  <2>3. CASE UNCHANGED events[l]
    BY <2>1, <2>2, <2>3
  <2>4. ASSUME NEW ev \in EventRow, ev.type = "LOT_OPENED",
               events'[l] = Append(events[l], ev)
        PROVE  TellsOf(events'[l], bids'[l], {}, DeadlinesOf(lot'[l], FALSE))
    BY <1>1, <2>1, <2>2, <2>4, StatusEventTells DEF StatusTypes
  <2>. QED
    BY <1>3, <2>3, <2>4 DEF LotOrdered
<1>4. CASE LotSettled(l)
  <2>. DEFINE ev == ClosingEvent(l, lot[l])
  <2>1. ev \in EventRow /\ ev.type \in StatusTypes
    BY <1>1, ClosingEventType DEF StatusTypes
  <2>2. events'[l] = Append(events[l], ev) /\ bids'[l] = bids[l]
    BY <1>4 DEF LotSettled
  <2>. HIDE DEF ev
  <2>3. lot[l].status = "closing" /\ lot'[l].status \in Closed
    BY <1>1, <1>4, ClosedRowFields DEF LotSettled, Closed
  <2>4. DeadlinesOf(lot[l], FALSE) = Nat /\ DeadlinesOf(lot'[l], FALSE) = Nat
    BY <2>3 DEF DeadlinesOf, Closed
  <2>5. TellsOf(events[l], bids[l], {}, Nat)
    BY <1>1, <2>4
  <2>6. TellsOf(Append(events[l], ev), bids[l], {}, Nat)
    BY <1>1, <2>1, <2>5, StatusEventTells
  <2>. QED
    BY <2>2, <2>4, <2>6
<1>. QED
  BY <1>2, <1>3, <1>4

(* Steps of closers, of operators and of the clock keep the trail.         *)
LEMMA OthersKeepTrail ==
  ASSUME TrailInv, [CoreNext]_coreVars, ~ \E w \in Workers : WorkerTurn(w)
  PROVE  TablesTell(FALSE)' /\ WorkTells(FALSE)'
<1>0. CoreInv
  BY DEF TrailInv, SaleInv
<1>1. ASSUME NEW CONSTANT l \in Lots
      PROVE  TellsOf(events'[l], bids'[l], {}, DeadlinesOf(lot'[l], FALSE))
  <2>1. LotKept(l) \/ LotOrdered(l) \/ LotSettled(l)
    <3>1. CASE \/ ClockTicks /\ UNCHANGED <<keyVars, workerVars, closerVars, lifecycleVars>>
               \/ UNCHANGED coreVars
      BY <3>1 DEF ClockTicks, coreVars, bidVars, storeVars, closerVars, LotKept
    <3>. QED
      BY <1>0, <3>1, CoreSteps, CloserMovesLots, OperatorMovesLots DEF closerVars
  <2>. QED
    BY <2>1, OthersTellOfLot
<1>2. TablesTell(FALSE)'
  BY <1>1 DEF TablesTell, TellsOf, Priced, Extensions, DeadlinesOf
<1>3. UNCHANGED <<pc, work>>
  BY <1>0, OthersBidNothing DEF workerVars
<1>4. ASSUME NEW v \in Workers, pc'[v] \in {"resolve", "commit"}
      PROVE  TellsOf(work'[v].events, work'[v].bids,
                     IF pc'[v] = "resolve" THEN {work'[v].bid} ELSE {},
                     DeadlinesOf(work'[v].lot, FALSE))
  BY <1>3, <1>4 DEF TrailInv, WorkTells, Untold
<1>5. WorkTells(FALSE)'
  BY <1>4 DEF WorkTells, Untold, TellsOf, Priced, Extensions, DeadlinesOf
<1>. QED
  BY <1>2, <1>5

(* Closers and operators add their events to the trail and disturb none:   *)
(* each bid is told of once, with its amount, and what the trail tells of  *)
(* the deadline of an open lot is true.                                    *)
THEOREM CoreTrailIsComplete == CoreSpec => []AuditTrailOfSale
<1>1. CoreInit => TrailInv
  <2>. SUFFICES ASSUME CoreInit PROVE TrailInv
    OBVIOUS
  <2>1. TablesTell(FALSE) /\ WorkTells(FALSE)
    BY AuditInit DEF CoreInit
  <2>2. PendingUnextended
    BY DEF CoreInit, BidInit, StoreInit, PendingUnextended, Extensions
  <2>. QED
    BY <2>1, <2>2, SaleInvInit DEF TrailInv
<1>2. TrailInv /\ [CoreNext]_coreVars => TrailInv'
  <2>. SUFFICES ASSUME TrailInv, [CoreNext]_coreVars PROVE TrailInv'
    OBVIOUS
  <2>1. SaleInv'
    BY SaleInvKept DEF TrailInv
  <2>2. TablesTell(FALSE)' /\ WorkTells(FALSE)'
    <3>1. ASSUME NEW w \in Workers, WorkerTurn(w)
          PROVE  TablesTell(FALSE)' /\ WorkTells(FALSE)'
      BY <3>1, WorkerStepTells DEF WorkerTurn, AuditInv, TrailInv, SaleInv, CoreInv
    <3>. QED
      BY <3>1, OthersKeepTrail
  <2>3. PendingUnextended'
    <3>1. ASSUME NEW l \in Lots, lot'[l].status = "pending"
          PROVE  lot[l].status = "pending" /\ events'[l] = events[l]
      <4>1. lot[l] \in LotRow
        BY DEF TrailInv, SaleInv, CoreInv, EntryInv, BookInv, TypeInv, BidTypeOK, StoreTypeOK
      <4>2. LotSettled(l) => lot'[l].status \in Closed
        BY <4>1, ClosedRowFields DEF LotSettled, Closed
      <4>. QED
        BY <3>1, <4>2, LotsMove
        DEF TrailInv, LotKept, LotBidOn, LotOrdered, Biddable, Closed
    <3>. QED
      BY <3>1 DEF TrailInv, PendingUnextended, Extensions
  <2>. QED
    BY <2>1, <2>2, <2>3 DEF TrailInv
<1>3. TrailInv => AuditTrailOfSale
  BY TellsOfLot DEF TrailInv, AuditInv, SaleInv, CoreInv, AuditTrailOfSale
<1>. QED
  BY <1>1, <1>2, <1>3, PTL DEF CoreSpec
-----------------------------------------------------------------------------
(* Who waits for whom.                                                     *)

(* An order holds its auction from start to end, and a lot that it has     *)
(* taken is none that it has still to visit.                               *)
OrdersHold ==
  \A o \in Operators :
    /\ opc[o] # "idle" <=> auctionLock = o
    /\ \A l \in targets[o] : lotLock[l] # o

(* A step of another session leaves the lots that an order has yet to      *)
(* visit without the order's lock.                                         *)
LEMMA OtherOrdersHold ==
  ASSUME CoreInv, NEW s \in Sessions, MindsLocks(s), NEW o \in Operators, o # s,
         \A l \in targets[o] : lotLock[l] # o, targets'[o] = targets[o]
  PROVE  \A l \in targets'[o] : lotLock'[l] # o
<1>1. targets[o] \subseteq Lots /\ o \in Sessions \ {s}
  BY LifecycleAssumption DEF CoreInv, LifecycleTypeOK
<1>. QED
  BY <1>1 DEF MindsLocks

(* Operators take the auction one at a time, and visit a lot once.         *)
LEMMA OperatorKeepsOrders ==
  ASSUME CoreInv, OrdersHold, NEW o \in Operators, OperatorTurn(o)
  PROVE  OrdersHold'
<1>0. /\ LifecycleTypeOK /\ Null \notin Operators /\ o \in Sessions
      /\ lotLock \in [Lots -> Sessions \cup {Null}]
  BY StoreAssumption, LifecycleAssumption
  DEF CoreInv, EntryInv, BookInv, TypeInv, BidTypeOK, StoreTypeOK
<1>. DEFINE Mine == /\ opc'[o] # "idle" <=> auctionLock' = o
                    /\ \A l \in targets'[o] : lotLock'[l] # o
            Others == \A p \in Operators \ {o} :
                        /\ opc'[p] = opc[p] /\ targets'[p] = targets[p]
                        /\ auctionLock' = p <=> auctionLock = p
<1>1. ASSUME StartOpen(o) \/ StartClose(o) PROVE Mine /\ Others
  <2>1. PICK order \in {"opening", "closing"}, status \in LotStatus :
               StartOrder(o, order, status)
    BY <1>1 DEF StartOpen, StartClose, LotStatus
  <2>2. /\ opc[o] = "idle" /\ auctionLock = Null /\ auctionLock' = o
        /\ opc' = [opc EXCEPT ![o] = order]
        /\ targets' = [targets EXCEPT ![o] = {l \in Lots : lot[l].status = status}]
        /\ UNCHANGED lotLock
    BY <2>1 DEF StartOrder, AuctionRowIsFree, storeVars
  <2>3. \A l \in Lots : lotLock[l] # o
    BY <2>2 DEF CoreInv, OperatorsHold, Concerns
  <2>4. /\ opc'[o] = order /\ targets'[o] \subseteq Lots
        /\ \A p \in Operators \ {o} : opc'[p] = opc[p] /\ targets'[p] = targets[p]
    BY <1>0, <2>2 DEF LifecycleTypeOK
  <2>. QED
    BY <1>0, <2>2, <2>3, <2>4
<1>2. ASSUME Pause(o) PROVE Mine /\ Others
  BY <1>2 DEF Pause, storeVars, OrdersHold
<1>3. ASSUME VisitLot(o) PROVE Mine /\ Others
  <2>1. PICK x \in targets[o] :
               /\ lotLock' \in {lotLock, [lotLock EXCEPT ![x] = o]}
               /\ targets' = [targets EXCEPT ![o] = @ \ {x}]
               /\ UNCHANGED <<opc, auctionLock>>
    BY <1>3 DEF VisitLot
  <2>2. /\ targets'[o] = targets[o] \ {x} /\ targets[o] \subseteq Lots
        /\ \A p \in Operators \ {o} : targets'[p] = targets[p]
        /\ \A l \in Lots \ {x} : lotLock'[l] = lotLock[l]
    BY <1>0, <2>1 DEF LifecycleTypeOK
  <2>. QED
    BY <2>1, <2>2 DEF OrdersHold
<1>4. ASSUME FinishOpen(o) \/ FinishClose(o) PROVE Mine /\ Others
  <2>1. /\ opc[o] # "idle" /\ targets[o] = {} /\ auctionLock' = Null
        /\ opc' = [opc EXCEPT ![o] = "idle"] /\ targets' = targets
    BY <1>4 DEF FinishOpen, FinishClose, FinishOrder
  <2>2. auctionLock = o
    BY <2>1 DEF OrdersHold
  <2>3. opc'[o] = "idle" /\ \A p \in Operators \ {o} : opc'[p] = opc[p]
    BY <1>0, <2>1 DEF LifecycleTypeOK
  <2>. QED
    BY <1>0, <2>1, <2>2, <2>3
<1>5. Mine /\ Others
  BY <1>1, <1>2, <1>3, <1>4 DEF OperatorTurn, OperatorWork
<1>6. ASSUME NEW p \in Operators, p # o
      PROVE  /\ opc'[p] # "idle" <=> auctionLock' = p
             /\ \A l \in targets'[p] : lotLock'[l] # p
  BY <1>0, <1>5, <1>6, OperatorMindsLocks, OtherOrdersHold DEF OrdersHold
<1>. QED
  BY <1>5, <1>6 DEF OrdersHold

(* Steps of the other sessions leave the orders alone.                     *)
LEMMA OrdersHoldKept ==
  ASSUME CoreInv, OrdersHold, [CoreNext]_coreVars
  PROVE  OrdersHold'
<1>1. ASSUME NEW s \in Sessions \ Operators, MindsLocks(s), UNCHANGED lifecycleVars
      PROVE  OrdersHold'
  <2>1. UNCHANGED <<opc, auctionLock, targets>>
    BY <1>1 DEF lifecycleVars
  <2>2. ASSUME NEW o \in Operators PROVE \A l \in targets'[o] : lotLock'[l] # o
    BY <1>1, <2>1, OtherOrdersHold DEF OrdersHold
  <2>. QED
    BY <2>1, <2>2 DEF OrdersHold
<1>2. ASSUME NEW w \in Workers, WorkerTurn(w), UNCHANGED lifecycleVars PROVE OrdersHold'
  BY <1>1, <1>2, WorkerMindsLocks, BidAssumption, SessionAssumption DEF CoreInv
<1>3. ASSUME NEW c \in Closers, CloserTurn(c), UNCHANGED lifecycleVars PROVE OrdersHold'
  BY <1>1, <1>3, CloserMindsLocks, CloserAssumption, SessionAssumption
<1>4. CASE \/ ClockTicks /\ UNCHANGED <<keyVars, workerVars, closerVars, lifecycleVars>>
           \/ UNCHANGED coreVars
  BY <1>4 DEF ClockTicks, coreVars, bidVars, storeVars, lifecycleVars, OrdersHold
<1>. QED
  BY <1>2, <1>3, <1>4, CoreSteps, OperatorKeepsOrders

(* No order is under way at the start.                                     *)
LEMMA OrdersHoldInit == CoreInit => OrdersHold
BY StoreAssumption, LifecycleAssumption DEF CoreInit, LifecycleInit, OrdersHold

(* OrdersHold holds in every state of the composition.                     *)
LEMMA OrdersHoldAlways == CoreSpec => []OrdersHold
<1>1. CoreInit => OrdersHold
  BY OrdersHoldInit
<1>2. CoreInv /\ OrdersHold /\ [CoreNext]_coreVars => OrdersHold'
  BY OrdersHoldKept
<1>. QED
  BY <1>1, <1>2, CoreInvHolds, PTL DEF CoreSpec

(* An order visits lots that are not closing: a bid opens a lot or leaves  *)
(* its status alone, and only orders close lots to bids.                   *)
OrdersAvoidClosers ==
  \A o \in Operators : \A l \in targets[o] : lot[l].status \in {"pending", "open"}

(* This is so in every state: there is one order at a time.                *)
LEMMA OrdersAvoidClosersAlways == CoreSpec => []OrdersAvoidClosers
<1>1. CoreInit => OrdersAvoidClosers
  BY DEF CoreInit, LifecycleInit, OrdersAvoidClosers
<1>2. SaleInv /\ OrdersHold /\ OrdersAvoidClosers /\ [CoreNext]_coreVars => OrdersAvoidClosers'
  <2>. SUFFICES ASSUME SaleInv, OrdersHold, OrdersAvoidClosers, [CoreNext]_coreVars,
                       NEW o \in Operators, NEW l \in targets'[o]
                PROVE  lot'[l].status \in {"pending", "open"}
    BY DEF OrdersAvoidClosers
  <2>1. /\ CoreInv /\ LifecycleTypeOK /\ Null \notin Operators
        /\ targets[o] \subseteq Lots
    BY StoreAssumption, LifecycleAssumption DEF SaleInv, CoreInv, LifecycleTypeOK
  <2>2. CASE l \in targets[o] /\ lot'[l] = lot[l]
    BY <2>2 DEF OrdersAvoidClosers
  <2>3. ASSUME NEW p \in Operators, OperatorTurn(p)
        PROVE  lot'[l].status \in {"pending", "open"}
    <3>1. CASE StartOpen(p) \/ StartClose(p)
      BY <2>1, <2>2, <3>1 DEF StartOpen, StartClose, StartOrder, storeVars, LifecycleTypeOK
    <3>2. CASE Pause(p) \/ VisitLot(p)
      BY <2>1, <2>2, <3>2 DEF Pause, VisitLot, storeVars, LifecycleTypeOK
    <3>3. CASE FinishOpen(p) \/ FinishClose(p)
      <4>1. opc[p] # "idle" /\ targets[p] = {} /\ targets' = targets
        BY <3>3 DEF FinishOpen, FinishClose, FinishOrder
      <4>2. opc[o] # "idle"
        BY <2>1, <4>1 DEF CoreInv, TargetsOrdered
      <4>. QED
        BY <4>1, <4>2 DEF OrdersHold
    <3>. QED
      BY <2>3, <3>1, <3>2, <3>3 DEF OperatorTurn, OperatorWork
  <2>4. CASE UNCHANGED targets
    <3>1. l \in Lots /\ lot[l].status \in {"pending", "open"}
      BY <2>1, <2>4 DEF OrdersAvoidClosers
    <3>2. CASE \/ ClockTicks /\ UNCHANGED <<keyVars, workerVars, closerVars, lifecycleVars>>
               \/ UNCHANGED coreVars
      BY <2>2, <2>4, <3>2 DEF ClockTicks, coreVars, bidVars, storeVars
    <3>3. ASSUME NEW w \in Workers, WorkerTurn(w), UNCHANGED invoice
          PROVE  lot'[l].status \in {"pending", "open"}
      BY <3>1, <3>3, WorkerMovesLots DEF LotKept, LotBidOn
    <3>4. ASSUME NEW c \in Closers, CloserTurn(c)
          PROVE  lot'[l].status \in {"pending", "open"}
      BY <2>1, <3>1, <3>4, CloserMovesLots DEF LotKept, LotSettled
    <3>. QED
      BY <2>3, <3>2, <3>3, <3>4, CoreSteps DEF closerVars
  <2>. QED
    BY <2>3, <2>4, CoreSteps DEF lifecycleVars, coreVars
<1>. QED
  BY <1>1, <1>2, SaleInvHolds, OrdersHoldAlways, PTL DEF CoreSpec

(* Whoever shares the auction's row is a closer that settles its batch.    *)
SharersSettle == \A c \in auctionShare : c \in Closers /\ cpc[c] = "settling"

(* This is so in every state: COMMIT and ROLLBACK give the row up.         *)
LEMMA SharersSettleAlways == CoreSpec => []SharersSettle
<1>1. CoreInit => SharersSettle
  BY DEF CoreInit, CloserInit, SharersSettle
<1>2. CoreInv /\ SharersSettle /\ [CoreNext]_coreVars => SharersSettle'
  <2>. SUFFICES ASSUME CoreInv, SharersSettle, [CoreNext]_coreVars PROVE SharersSettle'
    OBVIOUS
  <2>1. ASSUME NEW c \in Closers, CloserTurn(c) PROVE SharersSettle'
    <3>1. cpc \in [Closers -> {"waiting", "settling", "announcing"}]
      BY DEF CoreInv, CloserTypeOK
    <3>. QED
      BY <2>1, <3>1
      DEF SharersSettle, CloserTurn, CloserWork, SelectDueLots, ShareAuction, SettleBatch,
          AnnounceBatch, CycleFails
  <2>2. CASE UNCHANGED <<cpc, auctionShare>>
    BY <2>2 DEF SharersSettle
  <2>. QED
    BY <2>1, <2>2, CoreSteps DEF closerVars, coreVars
<1>. QED
  BY <1>1, <1>2, CoreInvHolds, PTL DEF CoreSpec

(* Nobody but workers, closers and operators takes a lot.                  *)
HoldersHaveJobs ==
  \A l \in Lots : lotLock[l] \in Workers \cup Closers \cup Operators \cup {Null}

(* This is so in every state: a step takes locks for its own session only. *)
LEMMA HoldersHaveJobsAlways == CoreSpec => []HoldersHaveJobs
<1>1. CoreInit => HoldersHaveJobs
  BY DEF CoreInit, BidInit, StoreInit, HoldersHaveJobs
<1>2. CoreInv /\ CoreInv' /\ HoldersHaveJobs /\ [CoreNext]_coreVars => HoldersHaveJobs'
  <2>. SUFFICES ASSUME CoreInv, CoreInv', HoldersHaveJobs, [CoreNext]_coreVars
                PROVE  HoldersHaveJobs'
    OBVIOUS
  <2>1. \A l \in Lots : lotLock'[l] \in Sessions \cup {Null}
    BY DEF CoreInv, EntryInv, BookInv, TypeInv, BidTypeOK, StoreTypeOK
  <2>2. ASSUME NEW s \in Workers \cup Closers \cup Operators, MindsLocks(s)
        PROVE  HoldersHaveJobs'
    BY <2>1, <2>2 DEF HoldersHaveJobs, MindsLocks
  <2>3. CASE ClockTicks \/ UNCHANGED coreVars
    BY <2>3 DEF ClockTicks, coreVars, bidVars, storeVars, HoldersHaveJobs
  <2>4. ASSUME NEW w \in Workers, WorkerTurn(w) PROVE HoldersHaveJobs'
    BY <2>2, <2>4, WorkerMindsLocks DEF CoreInv
  <2>5. ASSUME NEW c \in Closers, CloserTurn(c) PROVE HoldersHaveJobs'
    BY <2>2, <2>5, CloserMindsLocks
  <2>6. ASSUME NEW o \in Operators, OperatorTurn(o) PROVE HoldersHaveJobs'
    BY <2>2, <2>6, OperatorMindsLocks
  <2>. QED
    BY <2>3, <2>4, <2>5, <2>6, CoreSteps
<1>. QED
  BY <1>1, <1>2, CoreInvHolds, PTL DEF CoreSpec

(* The key of a request that is being served.                              *)
LEMMA KeyOfServed ==
  ASSUME TypeInv, NEW w \in Workers, pc[w] # "idle"
  PROVE  KeyOf(req[w]) \in KeyIds
<1>1. req[w] \in Requests
  BY DEF TypeInv, WorkersAreEquipped
<1>2. req[w] \in RequestOn({req[w].lot})
  BY <1>1, BidAssumption
<1>. QED
  BY <1>2 DEF KeyOf, KeyIds, RequestOn

(* A session is waited for as the holder of a lot, a key or the auction's  *)
(* row.                                                                    *)
LEMMA WaitedForHolds ==
  ASSUME CoreInv, NEW s \in Sessions, NEW t \in Sessions, WaitsFor(s, t)
  PROVE  \/ \E l \in Lots : lotLock[l] = t
         \/ \E k \in KeyIds : keyLock[k] = t
         \/ auctionLock = t
         \/ t \in auctionShare
<1>1. TypeInv /\ \A o \in Operators : targets[o] \subseteq Lots
  BY DEF CoreInv, EntryInv, BookInv, LifecycleTypeOK
<1>. QED
  BY <1>1, KeyOfServed DEF WaitsFor

(* Who holds a key is a worker that knows its lot or sends the stored      *)
(* response again.                                                         *)
LEMMA KeyHolders ==
  ASSUME CoreInv, NEW t \in Sessions, NEW k \in KeyIds, keyLock[k] = t
  PROVE  /\ t \in Workers
         /\ pc[t] \in {"replay", "lockLot", "validate", "resolve", "commit"}
<1>1. keyLock \in [KeyIds -> Workers \cup {Null}] /\ LocksProtectTheWork
  BY DEF CoreInv, EntryInv, BookInv, TypeInv, BidTypeOK
<1>2. t \in Workers
  BY <1>1, StoreAssumption
<1>. QED
  BY <1>1, <1>2 DEF LocksProtectTheWork, WorkIsProtected

(* Who holds a lot is a worker on its way to COMMIT, a closer that settles *)
(* its batch, or an order under way.                                       *)
LEMMA LotHolders ==
  ASSUME CoreInv, NEW t \in Sessions, NEW l \in Lots, lotLock[l] = t
  PROVE  /\ t \in Workers => pc[t] \in {"validate", "resolve", "commit"}
         /\ t \in Closers => cpc[t] = "settling"
         /\ t \in Operators => opc[t] # "idle"
<1>1. LocksProtectTheWork /\ ClosersHold /\ OperatorsHold
  BY DEF CoreInv, EntryInv, BookInv
<1>2. t \in Workers => pc[t] \in {"validate", "resolve", "commit"}
  BY <1>1 DEF LocksProtectTheWork, WorkIsProtected
<1>. QED
  BY <1>1, <1>2 DEF ClosersHold, OperatorsHold, Concerns

(* A worker that holds a lot waits for nobody.                             *)
LEMMA BidderWithLotRuns ==
  ASSUME CoreInv, NEW w \in Workers, NEW l \in Lots, lotLock[l] = w, NEW t
  PROVE  ~WaitsFor(w, t)
<1>1. pc[w] \in {"validate", "resolve", "commit"} /\ w \notin Closers \cup Operators
  BY LotHolders, SessionAssumption, BidAssumption
<1>. QED
  BY <1>1 DEF WaitsFor

(* Whoever holds the auction FOR UPDATE waits at most for a worker that    *)
(* holds a lot: there is no second order, and the closers' lots are none   *)
(* that an order visits.                                                   *)
LEMMA OrderWaitsForBids ==
  ASSUME CoreInv, OrdersHold, OrdersAvoidClosers, NEW o \in Sessions, auctionLock = o,
         NEW t \in Sessions, WaitsFor(o, t)
  PROVE  t \notin Closers \cup Operators /\ \E l \in Lots : lotLock[l] = t
<1>1. o \in Operators /\ opc[o] # "idle"
  BY StoreAssumption DEF CoreInv, LifecycleTypeOK, OrdersHold
<1>2. o \notin Workers \cup Closers
  BY <1>1, SessionAssumption
<1>3. PICK l \in targets[o] : lotLock[l] = t
  BY <1>1, <1>2 DEF WaitsFor
<1>4. l \in Lots /\ t # o /\ lot[l].status # "closing"
  BY <1>1, <1>3 DEF CoreInv, LifecycleTypeOK, OrdersHold, OrdersAvoidClosers
<1>5. t \notin Closers
  BY <1>3, <1>4 DEF CoreInv, ClosersHold
<1>6. t \notin Operators
  BY <1>3, <1>4, LotHolders DEF OrdersHold
<1>. QED
  BY <1>3, <1>4, <1>5, <1>6

(* So it is in no circle.                                                  *)
LEMMA NoOrderInCircle ==
  ASSUME CoreInv, OrdersHold, OrdersAvoidClosers, NEW circle \in SUBSET Sessions,
         \A s \in circle : \E t \in circle : WaitsFor(s, t)
  PROVE  auctionLock \notin circle
<1>. SUFFICES ASSUME auctionLock \in circle PROVE FALSE
  OBVIOUS
<1>1. PICK t \in circle : WaitsFor(auctionLock, t)
  OBVIOUS
<1>2. t \notin Closers \cup Operators /\ \E l \in Lots : lotLock[l] = t
  BY <1>1, OrderWaitsForBids
<1>3. PICK u \in circle : WaitsFor(t, u)
  OBVIOUS
<1>4. t \in Workers
  BY <1>2, <1>3 DEF WaitsFor
<1>. QED
  BY <1>2, <1>3, <1>4, BidderWithLotRuns

(* A closer waits for an order only, and an order that has not begun for   *)
(* an order or a closer: neither is in a circle.                           *)
LEMMA OnlyBidsInCircle ==
  ASSUME CoreInv, OrdersHold, OrdersAvoidClosers, SharersSettle,
         NEW circle \in SUBSET Sessions,
         \A s \in circle : \E t \in circle : WaitsFor(s, t)
  PROVE  circle \subseteq Workers
<1>1. auctionLock \notin circle
  BY NoOrderInCircle
<1>2. \A c \in circle : c \notin Closers
  BY <1>1, SessionAssumption DEF WaitsFor
<1>3. ASSUME NEW o \in circle, o \in Operators PROVE FALSE
  <2>1. PICK t \in circle : WaitsFor(o, t)
    OBVIOUS
  <2>2. o \notin Workers \cup Closers
    BY <1>3, SessionAssumption
  <2>3. opc[o] # "idle"
    BY <1>1, <1>2, <1>3, <2>1, <2>2 DEF WaitsFor, SharersSettle, CoreInv, TargetsOrdered
  <2>. QED
    BY <1>1, <1>3, <2>3 DEF OrdersHold
<1>. QED
  BY <1>2, <1>3 DEF WaitsFor

(* Workers wait for keys while they hold none and for a lot while they     *)
(* hold none, so whoever waits last holds a lot, and waits for nobody.     *)
LEMMA NoCircle ==
  CoreInv /\ OrdersHold /\ OrdersAvoidClosers /\ SharersSettle => NoCircularWait
<1>. SUFFICES ASSUME CoreInv, OrdersHold, OrdersAvoidClosers, SharersSettle,
                     NEW circle \in SUBSET Sessions,
                     \A s \in circle : \E t \in circle : WaitsFor(s, t),
                     NEW s \in circle
              PROVE  FALSE
  BY DEF NoCircularWait
<1>1. circle \subseteq Workers /\ auctionLock \notin circle
  BY OnlyBidsInCircle, NoOrderInCircle
<1>2. \A t \in circle : \A l \in Lots : lotLock[l] # t
  BY <1>1, BidderWithLotRuns
<1>3. PICK t \in circle : WaitsFor(s, t)
  OBVIOUS
<1>4. t \notin auctionShare
  BY <1>1, SessionAssumption DEF SharersSettle
<1>5. PICK k \in KeyIds : keyLock[k] = t
  BY <1>1, <1>2, <1>3, <1>4, WaitedForHolds
<1>6. t \in Workers /\ pc[t] \notin {"acquire", "unlock"}
  BY <1>5, KeyHolders
<1>7. PICK u \in circle : WaitsFor(t, u)
  OBVIOUS
<1>8. t \notin Closers \cup Operators
  BY <1>6, SessionAssumption
<1>. QED
  BY <1>2, <1>6, <1>7, <1>8 DEF WaitsFor

(* Bids, closers and orders never wait for one another in a circle,        *)
(* however many there are and however many lots an order has to visit: no  *)
(* transaction is ever ended by the database as the victim of a deadlock.  *)
THEOREM NobodyIsDeadlocked == CoreSpec => []NoCircularWait
BY NoCircle, CoreInvHolds, OrdersHoldAlways, OrdersAvoidClosersAlways, SharersSettleAlways,
   PTL

(* Nor does anyone wait for a session that is over: whoever is waited for, *)
(* as the holder of a key, a lot or the auction, has a transaction open.   *)
THEOREM HoldersAreAtWork ==
  CoreSpec => [](\A s, t \in Sessions : WaitsFor(s, t) => AtWork(t))
<1>1. CoreInv /\ OrdersHold /\ HoldersHaveJobs /\ SharersSettle =>
        \A s, t \in Sessions : WaitsFor(s, t) => AtWork(t)
  <2>. SUFFICES ASSUME CoreInv, OrdersHold, HoldersHaveJobs, SharersSettle,
                       NEW s \in Sessions, NEW t \in Sessions, WaitsFor(s, t)
                PROVE  AtWork(t)
    OBVIOUS
  <2>1. ASSUME NEW l \in Lots, lotLock[l] = t PROVE AtWork(t)
    <3>1. t \in Workers \cup Closers \cup Operators
      BY <2>1, StoreAssumption DEF HoldersHaveJobs
    <3>. QED
      BY <2>1, <3>1, LotHolders DEF AtWork
  <2>2. ASSUME NEW k \in KeyIds, keyLock[k] = t PROVE AtWork(t)
    BY <2>2, KeyHolders DEF AtWork
  <2>3. CASE auctionLock = t
    <3>1. t \in Operators
      BY <2>3, StoreAssumption DEF CoreInv, LifecycleTypeOK
    <3>. QED
      BY <2>3, <3>1 DEF OrdersHold, AtWork
  <2>4. CASE t \in auctionShare
    BY <2>4 DEF SharersSettle, AtWork
  <2>. QED
    BY <2>1, <2>2, <2>3, <2>4, WaitedForHolds
<1>. QED
  BY <1>1, CoreInvHolds, OrdersHoldAlways, HoldersHaveJobsAlways, SharersSettleAlways, PTL
=============================================================================
