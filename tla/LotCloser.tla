------------------------------ MODULE LotCloser ------------------------------
(***************************************************************************)
(* The background job of src/internal/settlement/lot-closer.ts: in every   *)
(* instance of the service it takes the lots whose deadline has passed,    *)
(* settles each of them as sold or passed, and invoices the winner, in one *)
(* transaction for the whole batch.                                        *)
(*                                                                         *)
(* A closer runs one cycle at a time (isRunning).  A cycle that finds no   *)
(* lot changes nothing and has no action.                                  *)
(***************************************************************************)
EXTENDS AuctionRow, FiniteSetsExt

CONSTANTS
  Closers,            \* the sessions that run the job, one per instance
  BatchLimit,         \* LIMIT of the query
  MaxCloserFailures   \* bound: transactions that fail in a behaviour

VARIABLES
  cpc,              \* closer -> "waiting", "settling" or "announcing"
  batch,            \* closer -> the rows it selected, by lot
  invoice,          \* settlement_invoices: lot -> its invoice, or Null
  closerFailures    \* failures so far

closerVars == <<cpc, batch, invoice, closerFailures, auctionShare>>

Invoice == [bidder: Bidders, hammerPrice: Nat]

ASSUME CloserAssumption ==
  /\ Closers \subseteq Sessions
  /\ BatchLimit \in Nat \ {0}
  /\ MaxCloserFailures \in Nat
  /\ Null \notin Invoice

CloserInit ==
  /\ cpc = [c \in Closers |-> "waiting"]
  /\ batch = [c \in Closers |-> <<>>]
  /\ invoice = [l \in Lots |-> Null]
  /\ closerFailures = 0
  /\ auctionShare = {}

(* Mutant: lots that are still open are due as well.                       *)
IsPastDeadline(l) ==
  /\ lot[l].status \in {"open", "closing"}
  /\ lot[l].closingAt # Null
  /\ lot[l].closingAt <= now

(* The WHERE clause of the query.                                          *)
IsDue(l) ==
  /\ lot[l].status = "closing"
  /\ lot[l].closingAt # Null
  /\ lot[l].closingAt <= now

(* Mutant: the lots are read without FOR UPDATE.                           *)
ReadDueLots(c) ==
  LET free == {l \in Lots : IsDue(l) /\ lotLock[l] = Null} IN
  /\ cpc[c] = "waiting"
  /\ free # {}
  /\ \E chosen \in kSubset(Min({BatchLimit, Cardinality(free)}), free) :
       batch' = [batch EXCEPT ![c] = [l \in chosen |-> lot[l]]]
  /\ cpc' = [cpc EXCEPT ![c] = "settling"]
  /\ UNCHANGED <<storeVars, invoice, closerFailures, auctionShare>>

(* SELECT ... LIMIT 20 FOR UPDATE OF l SKIP LOCKED                         *)
SelectDueLots(c) ==
  LET free == {l \in Lots : IsDue(l) /\ lotLock[l] = Null} IN
  /\ cpc[c] = "waiting"
  /\ free # {}
  /\ \E chosen \in kSubset(Min({BatchLimit, Cardinality(free)}), free) :
       /\ batch' = [batch EXCEPT ![c] = [l \in chosen |-> lot[l]]]
       /\ lotLock' = [l \in Lots |-> IF l \in chosen THEN c ELSE lotLock[l]]
  /\ cpc' = [cpc EXCEPT ![c] = "settling"]
  /\ UNCHANGED <<lot, bids, events, feed, now>>
  /\ UNCHANGED <<invoice, closerFailures, auctionShare>>

(* Mutant: a lot without a winner is sold when it has no reserve.          *)
IsSoldUnbid(l, row) == ReservePrice[l] = Null \/ row.currentBid >= ReservePrice[l]

(* Mutant: the reserve is forgotten.                                       *)
IsSoldAtAnyPrice(l, row) == row.winner # Null

(* Mutant: a price that just meets the reserve does not.                   *)
IsSoldAbove(l, row) ==
  /\ row.winner # Null
  /\ ReservePrice[l] = Null \/ row.currentBid > ReservePrice[l]

(* What closeLot decides from the row it was given.                        *)
IsSold(l, row) ==
  /\ row.winner # Null
  /\ ReservePrice[l] = Null \/ row.currentBid >= ReservePrice[l]

ClosedRow(l, row) ==
  IF IsSold(l, row)
  THEN [lot[l] EXCEPT !.status = "sold", !.soldPrice = row.currentBid]
  ELSE [lot[l] EXCEPT !.status = "passed"]

ClosingEvent(l, row) ==
  [type |-> IF IsSold(l, row) THEN "LOT_SOLD" ELSE "LOT_PASSED",
   bid |-> 0, value |-> row.currentBid]

(* createInvoice: ON CONFLICT (lot_id) DO NOTHING.                         *)
InvoiceFor(l, row) ==
  IF IsSold(l, row) /\ invoice[l] = Null
  THEN [bidder |-> row.winner, hammerPrice |-> row.currentBid]
  ELSE invoice[l]

LotsToInvoice(c) == {l \in DOMAIN batch[c] : IsSold(l, batch[c][l])}

(* The INSERT of the batch's first invoice waits, with the batch's lots    *)
(* locked, until no order holds the auction's row, and shares the row.     *)
ShareAuction(c) ==
  /\ cpc[c] = "settling"
  /\ LotsToInvoice(c) # {}
  /\ c \notin auctionShare
  /\ auctionLock = Null
  /\ auctionShare' = auctionShare \cup {c}
  /\ UNCHANGED <<storeVars, cpc, batch, invoice, closerFailures>>

(* closeLot for every lot of the batch, and COMMIT.                        *)
SettleBatch(c) ==
  LET rows == batch[c] IN
  /\ cpc[c] = "settling"
  /\ LotsToInvoice(c) # {} => c \in auctionShare
  /\ lot' = [l \in Lots |->
               IF l \in DOMAIN rows THEN ClosedRow(l, rows[l]) ELSE lot[l]]
  /\ events' = [l \in Lots |->
                  IF l \in DOMAIN rows
                  THEN Append(events[l], ClosingEvent(l, rows[l])) ELSE events[l]]
  /\ invoice' = [l \in Lots |->
                   IF l \in DOMAIN rows THEN InvoiceFor(l, rows[l]) ELSE invoice[l]]
  /\ lotLock' = LotsFreed(c)
  /\ auctionShare' = auctionShare \ {c}
  /\ cpc' = [cpc EXCEPT ![c] = "announcing"]
  /\ UNCHANGED <<bids, feed, now, batch, closerFailures>>

(* LOT_CLOSED for each lot, in best effort: each message arrives or is     *)
(* lost.  A COMMIT whose acknowledgement is lost behaves like a COMMIT     *)
(* after which every message is lost.                                      *)
LotClosed(l, row) ==
  [type |-> "LOT_CLOSED", lot |-> l,
   price |-> IF IsSold(l, row) THEN row.currentBid ELSE Null,
   count |-> Null, closingAt |-> Null, reserveMet |-> FALSE]

(* Mutant: the lots are announced before COMMIT.                           *)
AnnounceEarly(c) ==
  LET messages == {LotClosed(l, batch[c][l]) : l \in DOMAIN batch[c]} IN
  /\ \/ cpc[c] = "settling" /\ UNCHANGED <<cpc, batch>>
     \/ /\ cpc[c] = "announcing"
        /\ cpc' = [cpc EXCEPT ![c] = "waiting"]
        /\ batch' = [batch EXCEPT ![c] = <<>>]
  /\ \E sent \in SUBSET messages : feed' = feed \cup sent
  /\ UNCHANGED <<lot, bids, events, lotLock, now>>
  /\ UNCHANGED <<invoice, closerFailures, auctionShare>>

AnnounceBatch(c) ==
  LET messages == {LotClosed(l, batch[c][l]) : l \in DOMAIN batch[c]} IN
  /\ cpc[c] = "announcing"
  /\ \E sent \in SUBSET messages : feed' = feed \cup sent
  /\ cpc' = [cpc EXCEPT ![c] = "waiting"]
  /\ batch' = [batch EXCEPT ![c] = <<>>]
  /\ UNCHANGED <<lot, bids, events, lotLock, now>>
  /\ UNCHANGED <<invoice, closerFailures, auctionShare>>

(* Mutant: the failed cycle keeps its locks.                               *)
CycleFailsLocked(c) ==
  /\ closerFailures < MaxCloserFailures
  /\ cpc[c] = "settling"
  /\ cpc' = [cpc EXCEPT ![c] = "waiting"]
  /\ batch' = [batch EXCEPT ![c] = <<>>]
  /\ closerFailures' = closerFailures + 1
  /\ auctionShare' = auctionShare \ {c}
  /\ UNCHANGED <<storeVars, invoice>>

(* Any statement of the cycle fails, for any one lot: the whole batch is   *)
(* rolled back.                                                            *)
CycleFails(c) ==
  /\ closerFailures < MaxCloserFailures
  /\ cpc[c] = "settling"
  /\ cpc' = [cpc EXCEPT ![c] = "waiting"]
  /\ batch' = [batch EXCEPT ![c] = <<>>]
  /\ lotLock' = LotsFreed(c)
  /\ auctionShare' = auctionShare \ {c}
  /\ closerFailures' = closerFailures + 1
  /\ UNCHANGED <<lot, bids, events, feed, now, invoice>>

CloserWork(c) ==
  SelectDueLots(c) \/ ShareAuction(c) \/ SettleBatch(c) \/ AnnounceBatch(c)

CloserStep == \E c \in Closers : CloserWork(c) \/ CycleFails(c)

-----------------------------------------------------------------------------
(* Properties.                                                             *)

CloserTypeOK ==
  /\ cpc \in [Closers -> {"waiting", "settling", "announcing"}]
  /\ \A c \in Closers : /\ DOMAIN batch[c] \subseteq Lots
                        /\ \A l \in DOMAIN batch[c] : batch[c][l] \in LotRow
  /\ invoice \in [Lots -> Invoice \cup {Null}]
  /\ closerFailures \in Nat
  /\ auctionShare \subseteq Closers

(* What is settled is settled for the bidder and the price that the book   *)
(* of bids ends with: no bid slips in between the closer's decision and    *)
(* its commit, no lot is settled twice by two closers, and money is asked  *)
(* for exactly the lots that are sold, once, from their last bidder.       *)
SettledByTheBook ==
  \A l \in Lots :
    LET row == lot[l]
        last == bids[l][Len(bids[l])]
        closings == {e \in DOMAIN events[l] :
                       events[l][e].type \in {"LOT_SOLD", "LOT_PASSED"}}
    IN /\ invoice[l] # Null <=> row.status = "sold"
       /\ row.status = "sold" =>
            /\ bids[l] # <<>>
            /\ row.soldPrice = last.amount
            /\ invoice[l] = [bidder |-> last.bidder, hammerPrice |-> last.amount]
            /\ ReservePrice[l] # Null => last.amount >= ReservePrice[l]
       /\ row.status = "passed" /\ bids[l] # <<>> =>
            ReservePrice[l] # Null /\ last.amount < ReservePrice[l]
       /\ Cardinality(closings) = IF row.status \in {"sold", "passed"} THEN 1 ELSE 0

(* A LOT_CLOSED message is true and stays true.                            *)
AnnouncementsStand ==
  \A m \in feed :
    m.type = "LOT_CLOSED" =>
      IF m.price = Null
      THEN lot[m.lot].status = "passed"
      ELSE lot[m.lot].status = "sold" /\ lot[m.lot].soldPrice = m.price

(* Whatever the processor, the closers and the operators do at once, no    *)
(* lot goes from one status to another that lot_state_transitions does not *)
(* list, so the trigger lot_state_guard never rejects a statement.         *)
StatusFollowsTransitions ==
  [][\A l \in Lots : \/ lot'[l].status = lot[l].status
                     \/ <<lot[l].status, lot'[l].status>> \in LotTransitions]_lot
=============================================================================
