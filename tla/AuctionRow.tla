----------------------------- MODULE AuctionRow -----------------------------
(***************************************************************************)
(* The lock on the row of the auction (table auctions), where closers and  *)
(* operators meet besides the lots.  An operator's request takes it FOR    *)
(* UPDATE.  An invoice refers to its auction (settlement_invoices.         *)
(* auction_id REFERENCES auctions), so that inserting one takes the row    *)
(* FOR KEY SHARE: shared among closers, but never beside FOR UPDATE.       *)
(***************************************************************************)
EXTENDS AuctionStore

VARIABLES
  auctionLock,   \* the session that holds the row FOR UPDATE, or Null
  auctionShare   \* the sessions that hold it FOR KEY SHARE

(* Nobody holds the row in any way, as FOR UPDATE demands.                 *)
AuctionRowIsFree == auctionLock = Null /\ auctionShare = {}
=============================================================================
