---------------------------- MODULE AuctionStore ----------------------------
(***************************************************************************)
(* The PostgreSQL tables that the bid processor, the lot closer and the    *)
(* auction routes share (db/migrations/001_schema.sql), the row locks on   *)
(* lots, the channel of published messages and the clock.                  *)
(*                                                                         *)
(* lot, bids and events hold COMMITTED data.  A transaction keeps its own  *)
(* version of the rows it changes and installs it when it commits; nobody  *)
(* else sees that version before.  Every statement that changes a lot, its *)
(* bids or its events runs under the FOR UPDATE lock on the lot, lotLock.  *)
(* Columns that nothing reads back (version, sold_at, outbid_at) are left  *)
(* out.                                                                    *)
(***************************************************************************)
EXTENDS Integers, Sequences, FiniteSets

CONSTANTS
  Lots,                 \* the rows of table lots
  Bidders,              \* the rows of table bidders
  Keys,                 \* the values of the Idempotency-Key header
  Sessions,             \* database connections: whoever can hold a lock
  Null,                 \* SQL NULL, and "nobody"
  ReservePrice,         \* reserve_price of each lot, Null for no reserve
  AntiSnipeWindow,      \* anti_snipe_window_secs of the auctions
  AntiSnipeExtension,   \* anti_snipe_extension_secs of the auctions
  InitialLots,          \* the contents the lots table may start with
  MaxTime               \* bound: the clock stops here

VARIABLES
  lot,       \* lots: lot -> its row
  bids,      \* bids: lot -> its bids in the order they were inserted
  events,    \* auction_events: lot -> its events in the order of their ids
  lotLock,   \* lot -> the session that holds the row lock, or Null
  feed,      \* every message Redis has passed on to the subscribers
  now        \* NOW() and Date.now()

storeVars == <<lot, bids, events, lotLock, feed, now>>

Time == Nat
LotStatus == {"pending", "open", "closing", "sold", "passed", "withdrawn"}
BidType == {"live", "proxy", "auto_increment"}

LotRow ==
  [status: LotStatus, currentBid: Nat, winner: Bidders \cup {Null},
   bidCount: Nat, closingAt: Time \cup {Null}, soldPrice: Nat \cup {Null}]

BidRow ==
  [bidder: Bidders, type: BidType, amount: Nat, max: Nat \cup {Null},
   status: {"accepted", "outbid"}, key: Keys \cup {Null}, placedAt: Time]

(* bid is the position of the bid that the event is about, 0 for none, and *)
(* value its amount, the sale price, or the new deadline of an extension.  *)
EventRow ==
  [type: {"BID_ACCEPTED", "PROXY_RESOLVED", "ANTI_SNIPE_TRIGGERED",
          "LOT_OPENED", "LOT_SOLD", "LOT_PASSED"},
   bid: Nat, value: Nat]

(* count is Null in a LOT_CLOSED message and price is Null when nothing    *)
(* was sold; an ANTI_SNIPE message carries only the deadline.              *)
Message ==
  [type: {"BID_ACCEPTED", "ANTI_SNIPE", "LOT_CLOSED"}, lot: Lots,
   price: Nat \cup {Null}, count: Nat \cup {Null},
   closingAt: Time \cup {Null}, reserveMet: BOOLEAN]

(* lot_state_transitions, the table behind the trigger lot_state_guard.    *)
LotTransitions ==
  {<<"pending", "open">>, <<"open", "closing">>, <<"open", "withdrawn">>,
   <<"closing", "sold">>, <<"closing", "passed">>, <<"closing", "open">>}

(* A lot nobody has bid on: the state in which lots are inserted.          *)
FreshLotRow ==
  [status: LotStatus, currentBid: Nat, winner: {Null}, bidCount: {0},
   closingAt: Time \cup {Null}, soldPrice: {Null}]

ASSUME StoreAssumption ==
  /\ Null \notin Bidders \cup Keys \cup Sessions \cup Nat
  /\ ReservePrice \in [Lots -> Nat \cup {Null}]
  /\ AntiSnipeWindow \in Nat
  /\ AntiSnipeExtension \in Nat
  /\ MaxTime \in Nat
  /\ InitialLots \subseteq [Lots -> FreshLotRow]

-----------------------------------------------------------------------------

StoreInit ==
  /\ lot \in InitialLots
  /\ bids = [l \in Lots |-> <<>>]
  /\ events = [l \in Lots |-> <<>>]
  /\ lotLock = [l \in Lots |-> Null]
  /\ feed = {}
  /\ now = 0

(* Time passes, whatever the sessions are doing.                           *)
ClockTicks ==
  /\ now < MaxTime
  /\ now' = now + 1
  /\ UNCHANGED <<lot, bids, events, lotLock, feed>>

(* COMMIT and ROLLBACK free every lot the session holds.                   *)
LotsFreed(s) == [l \in Lots |-> IF lotLock[l] = s THEN Null ELSE lotLock[l]]

StoreTypeOK ==
  /\ lot \in [Lots -> LotRow]
  /\ bids \in [Lots -> Seq(BidRow)]
  /\ events \in [Lots -> Seq(EventRow)]
  /\ lotLock \in [Lots -> Sessions \cup {Null}]
  /\ feed \subseteq Message
  /\ now \in Time
=============================================================================
