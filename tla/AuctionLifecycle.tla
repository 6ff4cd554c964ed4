-------------------------- MODULE AuctionLifecycle --------------------------
(***************************************************************************)
(* The operator's requests of src/routes/auctions.ts: open, pause and      *)
(* close an auction, each one transaction of withTransaction.  The module  *)
(* models one auction and its lots: requests on different auctions lock    *)
(* different rows.                                                         *)
(*                                                                         *)
(* The bulk UPDATE of the lots runs under READ COMMITTED: it goes through  *)
(* the lots that match when the statement starts, waits for each row that  *)
(* is locked, and leaves out a row that no longer matches once it has it.  *)
(* A lot that comes to match while the statement runs is not seen.         *)
(***************************************************************************)
EXTENDS AuctionRow

CONSTANTS
  Operators,       \* the sessions that serve operators
  ScheduledEnd,    \* auctions.scheduled_end
  MaxOrders        \* bound: requests made in a behaviour

VARIABLES
  auction,      \* auctions.status
  opc,          \* operator -> "idle", "opening" or "closing"
  openedAt,     \* operator -> NOW() of its transaction
  targets,      \* operator -> lots the UPDATE has still to visit
  orders        \* requests made so far

lifecycleVars == <<auction, auctionLock, opc, openedAt, targets, orders>>

ASSUME LifecycleAssumption ==
  /\ Operators \subseteq Sessions
  /\ ScheduledEnd \in Nat
  /\ MaxOrders \in Nat

AuctionStatus ==
  {"scheduled", "preview", "live", "paused", "closing", "closed", "settled", "cancelled"}

(* Lots become open only with their auction: those of a scheduled or       *)
(* previewed auction, which are treated alike, are pending.                *)
LifecycleInit ==
  /\ auction \in {"scheduled", "live"}
  /\ auction = "scheduled" <=> \A l \in Lots : lot[l].status = "pending"
  /\ auctionLock = Null
  /\ opc = [o \in Operators |-> "idle"]
  /\ openedAt = [o \in Operators |-> 0]
  /\ targets = [o \in Operators |-> {}]
  /\ orders = 0

(* Mutant: the UPDATE waits for lots that are closing, too.                *)
StartOrderOnClosing(o, order, status) ==
  /\ orders < MaxOrders
  /\ opc[o] = "idle"
  /\ AuctionRowIsFree
  /\ auctionLock' = o
  /\ opc' = [opc EXCEPT ![o] = order]
  /\ openedAt' = [openedAt EXCEPT ![o] = now]
  /\ targets' = [targets EXCEPT ![o] = {l \in Lots : lot[l].status \in {status, "closing"}}]
  /\ orders' = orders + 1
  /\ UNCHANGED <<storeVars, auction>>

(* SELECT ... FROM auctions ... FOR UPDATE, which waits for another order  *)
(* and for a closer that is inserting invoices, and the start of the       *)
(* UPDATE of the lots that have this status.  BEGIN is taken together with *)
(* the lock: an order that waits for the auction has an earlier NOW(), but *)
(* a closing deadline in the past is in the past whichever it is.          *)
StartOrder(o, order, status) ==
  /\ orders < MaxOrders
  /\ opc[o] = "idle"
  /\ AuctionRowIsFree
  /\ auctionLock' = o
  /\ opc' = [opc EXCEPT ![o] = order]
  /\ openedAt' = [openedAt EXCEPT ![o] = now]
  /\ targets' = [targets EXCEPT ![o] = {l \in Lots : lot[l].status = status}]
  /\ orders' = orders + 1
  /\ UNCHANGED <<storeVars, auction>>

StartOpen(o) == auction \in {"scheduled", "preview"} /\ StartOrder(o, "opening", "pending")

(* Closing asks nothing of the auction's status.                           *)
StartClose(o) == StartOrder(o, "closing", "open")

(* Mutant: the UPDATE does not wait for row locks.                         *)
VisitHeldLot(o) ==
  \E l \in targets[o] :
    /\ lotLock' = [lotLock EXCEPT ![l] = o]
    /\ targets' = [targets EXCEPT ![o] = @ \ {l}]
    /\ UNCHANGED <<lot, bids, events, feed, now>>
    /\ UNCHANGED <<auction, auctionLock, opc, openedAt, orders>>

(* The UPDATE visits a lot that nobody else holds.                         *)
VisitLot(o) ==
  \E l \in targets[o] :
    /\ lotLock[l] = Null
    /\ lotLock' = IF lot[l].status = (IF opc[o] = "opening" THEN "pending" ELSE "open")
                  THEN [lotLock EXCEPT ![l] = o]
                  ELSE lotLock
    /\ targets' = [targets EXCEPT ![o] = @ \ {l}]
    /\ UNCHANGED <<lot, bids, events, feed, now>>
    /\ UNCHANGED <<auction, auctionLock, opc, openedAt, orders>>

Held(o) == {l \in Lots : lotLock[l] = o}

(* The end of the transaction, whose lots become row.                      *)
FinishOrder(o, order, status, deadline) ==
  /\ opc[o] = order
  /\ targets[o] = {}
  /\ lot' = [l \in Lots |->
               IF l \in Held(o)
               THEN [lot[l] EXCEPT !.status = status, !.closingAt = deadline]
               ELSE lot[l]]
  /\ lotLock' = LotsFreed(o)
  /\ auctionLock' = Null
  /\ opc' = [opc EXCEPT ![o] = "idle"]
  /\ UNCHANGED <<bids, feed, now, openedAt, targets, orders>>

(* LOT_OPENED is inserted for every lot that is open, which are the lots   *)
(* just opened.                                                            *)
FinishOpen(o) ==
  /\ FinishOrder(o, "opening", "open", ScheduledEnd)
  /\ auction' = "live"
  /\ events' = [l \in Lots |->
                  IF l \in Held(o)
                  THEN Append(events[l], [type |-> "LOT_OPENED", bid |-> 0, value |-> 0])
                  ELSE events[l]]

FinishClose(o) ==
  /\ FinishOrder(o, "closing", "closing", openedAt[o])
  /\ auction' = "closed"
  /\ UNCHANGED events

(* live to paused; no lot is touched.                                      *)
Pause(o) ==
  /\ orders < MaxOrders
  /\ opc[o] = "idle"
  /\ AuctionRowIsFree
  /\ auction = "live"
  /\ auction' = "paused"
  /\ orders' = orders + 1
  /\ UNCHANGED <<storeVars, auctionLock, opc, openedAt, targets>>

OperatorWork(o) == VisitLot(o) \/ FinishOpen(o) \/ FinishClose(o)

OperatorStep ==
  \E o \in Operators : StartOpen(o) \/ StartClose(o) \/ Pause(o) \/ OperatorWork(o)

-----------------------------------------------------------------------------
(* Properties.                                                             *)

LifecycleTypeOK ==
  /\ auction \in AuctionStatus
  /\ auctionLock \in Operators \cup {Null}
  /\ opc \in [Operators -> {"idle", "opening", "closing"}]
  /\ openedAt \in [Operators -> Time]
  /\ targets \in [Operators -> SUBSET Lots]
  /\ orders \in Nat

(* auctions.ts says of the close request that it closes all open and       *)
(* closing lots: a closed auction has no lot that is open to bids, for     *)
(* which no closer comes unless the auction is closed once more.           *)
ClosedAuctionHasNoOpenLot ==
  auction = "closed" => \A l \in Lots : lot[l].status # "open"
=============================================================================
