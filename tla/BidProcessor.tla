---------------------------- MODULE BidProcessor ----------------------------
(***************************************************************************)
(* processBid of src/internal/bidding/processor.ts: one bid submission as  *)
(* one PostgreSQL transaction, run by any number of workers at once.       *)
(*                                                                         *)
(* A worker is a request being served on a pooled connection, in whichever *)
(* instance of the service.  An action is what the program does between    *)
(* two points at which another session can interfere: a statement that may *)
(* wait for a row, the iterations of the proxy loop, COMMIT, and the       *)
(* messages published after it.                                            *)
(*                                                                         *)
(*   idle -> acquire -> lockLot -> validate -> resolve -> commit           *)
(*                 \-> select -> replay            ... -> publish -> idle  *)
(*   any of these -> unlock -> idle   when a statement or COMMIT fails     *)
(***************************************************************************)
EXTENDS BidIncrement, IdempotencyKeys

CONSTANTS
  Workers,               \* the sessions that run processBid
  Requests,              \* the submissions clients may make, and repeat
  Registration,          \* bidder -> how it is registered for the auction
  RequireVerification,   \* auctions.require_verification
  AllowProxyBids,        \* auctions.allow_proxy_bids
  MaxProxyIterations,    \* MAX_PROXY_ITERATIONS
  MaxSubmissions,        \* bound: requests started in a behaviour
  MaxFailures            \* bound: statements that fail in a behaviour

VARIABLES
  pc,            \* worker -> the statement it is about to run
  req,           \* worker -> the request it serves, or served last
  startedAt,     \* worker -> NOW() of its transaction
  work,          \* worker -> the rows as its transaction sees them
  reply,         \* worker -> its answer to req, Null until there is one
  submitted,     \* requests started so far
  failures       \* failures so far

workerVars == <<pc, req, startedAt, work, reply, submitted, failures>>
bidVars == <<storeVars, keyVars, workerVars>>

(* How the join of auction_registrations and bidders answers for a bidder: *)
(* no row, is_eligible false, verification_tier basic, or any better tier. *)
Standing == {"unregistered", "ineligible", "basic", "verified"}

(* A body as the route lets it through: live or proxy, positive amount.    *)
(* The lot of a request need not exist.                                    *)
RequestOn(L) ==
  [key: Keys, bidder: Bidders, lot: L, type: {"live", "proxy"},
   amount: Nat \ {0}, max: Nat \cup {Null}]

KeyOf(r) == <<r.key, r.bidder>>

Snapshot ==
  [currentBid: Nat, bidCount: Nat, status: LotStatus,
   closingAt: Time \cup {Null}, reserveMet: BOOLEAN]
Response == [bid: Nat, lot: Snapshot]
KeyRow == [locked: BOOLEAN, response: Response]

(* bid is the position of the accepted bid, settled says that the proxy    *)
(* loop is over, extended that an anti-snipe extension took place.         *)
Work ==
  [lot: LotRow, bids: Seq(BidRow), events: Seq(EventRow), bid: Nat,
   reserveMet: BOOLEAN, extended: BOOLEAN, iterations: Nat]

ASSUME BidAssumption ==
  /\ Workers \subseteq Sessions
  /\ \A r \in Requests : r \in RequestOn({r.lot})
  /\ Registration \in [Bidders -> Standing]
  /\ RequireVerification \in BOOLEAN
  /\ AllowProxyBids \in BOOLEAN
  /\ MaxProxyIterations \in Nat
  /\ MaxSubmissions \in Nat
  /\ MaxFailures \in Nat
  /\ Null \notin KeyRow
  /\ Null \notin Requests

RejectionCode ==
  {"lot_closed", "lot_not_active", "not_registered", "rejected_ineligible",
   "proxy_not_allowed", "invalid_proxy_bid", "rejected_increment"}
ReplyCode ==
  RejectionCode \cup {"accepted", "replayed", "concurrent_request",
                      "lot_not_found", "error"}
Reply == [code: ReplyCode, response: Response \cup {Null}]

Refusal(code) == [code |-> code, response |-> Null]

BidInit ==
  /\ StoreInit
  /\ KeyInit
  /\ pc = [w \in Workers |-> "idle"]
  /\ req = [w \in Workers |-> Null]
  /\ startedAt = [w \in Workers |-> 0]
  /\ work = [w \in Workers |-> Null]
  /\ reply = [w \in Workers |-> Null]
  /\ submitted = 0
  /\ failures = 0

-----------------------------------------------------------------------------
(* The transaction's own rows.                                             *)

WorkOn(l) ==
  [lot |-> lot[l], bids |-> bids[l], events |-> events[l], bid |-> 0,
   reserveMet |-> FALSE, extended |-> FALSE, iterations |-> 0]

EventOf(type, bid, value) == [type |-> type, bid |-> bid, value |-> value]

(* UPDATE bids SET status = 'outbid' for a bidder's standing live and      *)
(* auto_increment bids.  A proxy bid stays accepted.                       *)
Outbid(bs, bidder) ==
  [i \in DOMAIN bs |->
     IF bs[i].bidder = bidder /\ bs[i].status = "accepted" /\ bs[i].type # "proxy"
     THEN [bs[i] EXCEPT !.status = "outbid"]
     ELSE bs[i]]

(* The UPDATE of the lot that a new leading bid causes.                    *)
Led(row, bidder, amount) ==
  [row EXCEPT !.currentBid = amount, !.winner = bidder, !.bidCount = @ + 1]

(* Mutant: the new deadline is counted from the time of the bid.           *)
ExtendedFromNow(wk, i) ==
  LET closing == wk.lot.closingAt
      deadline == closing + AntiSnipeExtension
  IN IF closing # Null /\ closing - now < AntiSnipeWindow /\ closing > now
     THEN [wk EXCEPT !.lot.closingAt = now + AntiSnipeExtension, !.lot.status = "open",
                     !.events = Append(@, EventOf("ANTI_SNIPE_TRIGGERED", i, deadline)),
                     !.extended = TRUE]
     ELSE wk

(* The anti-snipe check made for the bid at position i.                    *)
Extended(wk, i) ==
  LET closing == wk.lot.closingAt
      deadline == closing + AntiSnipeExtension
  IN IF closing # Null /\ closing - now < AntiSnipeWindow /\ closing > now
     THEN [wk EXCEPT !.lot.closingAt = deadline, !.lot.status = "open",
                     !.events = Append(@, EventOf("ANTI_SNIPE_TRIGGERED", i, deadline)),
                     !.extended = TRUE]
     ELSE wk

(* The proxy bids that the loop's query orders, and those it may return:   *)
(* the highest ceiling, the earlier placed_at among equals.                *)
Competing(wk) ==
  {i \in DOMAIN wk.bids :
     /\ wk.bids[i].type = "proxy"
     /\ wk.bids[i].status = "accepted"
     /\ wk.bids[i].max > wk.lot.currentBid
     /\ wk.bids[i].bidder # wk.lot.winner}

BestProxies(wk) ==
  {i \in Competing(wk) : \A j \in Competing(wk) :
     \/ wk.bids[j].max < wk.bids[i].max
     \/ wk.bids[j].max = wk.bids[i].max /\ wk.bids[i].placedAt <= wk.bids[j].placedAt}

(* Mutant: it is enough that the ceiling is above the price.               *)
UncheckedCounters(wk) == BestProxies(wk)

(* The proxy bids that make the loop go round once more.                   *)
Counters(wk) ==
  {i \in BestProxies(wk) : wk.bids[i].max >= GetMinimumNextBid(wk.lot.currentBid)}

(* Why a request is refused once its lot is locked, in the code's order.   *)
Rejection(r, row) ==
  LET standing == Registration[r.bidder] IN
  IF row.status \in {"sold", "passed"} THEN "lot_closed"
  ELSE IF row.status \notin {"open", "closing"} THEN "lot_not_active"
  ELSE IF standing = "unregistered" THEN "not_registered"
  ELSE IF standing = "ineligible" \/ (RequireVerification /\ standing = "basic")
       THEN "rejected_ineligible"
  ELSE IF r.type = "proxy" /\ ~AllowProxyBids THEN "proxy_not_allowed"
  ELSE IF r.type = "proxy" /\ (r.max = Null \/ r.max < r.amount)
       THEN "invalid_proxy_bid"
  ELSE IF ~IsValidBidAmount(row.currentBid, r.amount) THEN "rejected_increment"
  ELSE "none"

-----------------------------------------------------------------------------
(* Steps of a worker.                                                      *)

Goes(w, from, to) == pc[w] = from /\ pc' = [pc EXCEPT ![w] = to]

Answers(w, answer) == reply' = [reply EXCEPT ![w] = answer]

(* ROLLBACK, or the end of the connection: the locks go, the work is lost. *)
RolledBack(w) ==
  /\ lotLock' = LotsFreed(w)
  /\ keyLock' = KeysFreed(w)
  /\ work' = [work EXCEPT ![w] = Null]
  /\ UNCHANGED <<lot, bids, events, feed, now, keyRow>>

(* A client submits a request, for the first time or again; BEGIN.         *)
Begin(w) ==
  /\ submitted < MaxSubmissions
  /\ Goes(w, "idle", "acquire")
  /\ \E r \in Requests : req' = [req EXCEPT ![w] = r]
  /\ startedAt' = [startedAt EXCEPT ![w] = now]
  /\ Answers(w, Null)
  /\ submitted' = submitted + 1
  /\ UNCHANGED <<storeVars, keyVars, work, failures>>

(* acquireLock, the INSERT.                                                *)
InsertKey(w) ==
  /\ Goes(w, "acquire", "lockLot")
  /\ KeyInserted(w, KeyOf(req[w]))
  /\ UNCHANGED <<storeVars, req, startedAt, work, reply, submitted, failures>>

InsertFindsKey(w) ==
  /\ Goes(w, "acquire", "select")
  /\ KeyConflicts(KeyOf(req[w]))
  /\ UNCHANGED <<storeVars, keyVars, req, startedAt, work, reply, submitted, failures>>

(* acquireLock, the SELECT: a completed request ...                        *)
SelectCompleted(w) ==
  /\ Goes(w, "select", "replay")
  /\ KeyCompleted(w, KeyOf(req[w]))
  /\ UNCHANGED <<storeVars, req, startedAt, work, reply, submitted, failures>>

(* Mutant: the key's row is sent instead of the response in it.            *)
ReplayRow(w) ==
  /\ Goes(w, "replay", "idle")
  /\ Answers(w, [code |-> "replayed", response |-> keyRow[KeyOf(req[w])]])
  /\ RolledBack(w)
  /\ UNCHANGED <<req, startedAt, submitted, failures>>

(* ... whose response is sent again ...                                    *)
Replay(w) ==
  /\ Goes(w, "replay", "idle")
  /\ Answers(w, [code |-> "replayed", response |-> keyRow[KeyOf(req[w])].response])
  /\ RolledBack(w)
  /\ UNCHANGED <<req, startedAt, submitted, failures>>

(* ... or a row that someone else holds.                                   *)
SelectInFlight(w) ==
  /\ Goes(w, "select", "idle")
  /\ KeyInFlight(KeyOf(req[w]))
  /\ Answers(w, Refusal("concurrent_request"))
  /\ RolledBack(w)
  /\ UNCHANGED <<req, startedAt, submitted, failures>>

(* Mutant: the lot is read without FOR UPDATE.                             *)
ReadLot(w) ==
  LET l == req[w].lot IN
  /\ Goes(w, "lockLot", "validate")
  /\ l \in Lots
  /\ lotLock' = [lotLock EXCEPT ![l] = w]
  /\ work' = [work EXCEPT ![w] = WorkOn(l)]
  /\ UNCHANGED <<lot, bids, events, feed, now, keyVars>>
  /\ UNCHANGED <<req, startedAt, reply, submitted, failures>>

(* SELECT ... FOR UPDATE OF l waits for the lot, and returns its row as it *)
(* is when the wait is over.                                               *)
LockLot(w) ==
  LET l == req[w].lot IN
  /\ Goes(w, "lockLot", "validate")
  /\ l \in Lots
  /\ lotLock[l] = Null
  /\ lotLock' = [lotLock EXCEPT ![l] = w]
  /\ work' = [work EXCEPT ![w] = WorkOn(l)]
  /\ UNCHANGED <<lot, bids, events, feed, now, keyVars>>
  /\ UNCHANGED <<req, startedAt, reply, submitted, failures>>

LotNotFound(w) ==
  /\ Goes(w, "lockLot", "idle")
  /\ req[w].lot \notin Lots
  /\ Answers(w, Refusal("lot_not_found"))
  /\ RolledBack(w)
  /\ UNCHANGED <<req, startedAt, submitted, failures>>

(* Mutant: the refusal is stored under the key.                            *)
RejectAndRemember(w) ==
  LET code == Rejection(req[w], work[w].lot)
      k == KeyOf(req[w])
  IN /\ Goes(w, "validate", "idle")
     /\ code # "none"
     /\ Answers(w, Refusal(code))
     /\ keyRow' = [keyRow EXCEPT ![k] = [locked |-> FALSE, response |-> Null]]
     /\ lotLock' = LotsFreed(w)
     /\ keyLock' = KeysFreed(w)
     /\ work' = [work EXCEPT ![w] = Null]
     /\ UNCHANGED <<lot, bids, events, feed, now>>
     /\ UNCHANGED <<req, startedAt, submitted, failures>>

(* Mutant: the refusal returns without ROLLBACK.                           *)
RejectAndKeepLocks(w) ==
  LET code == Rejection(req[w], work[w].lot) IN
  /\ Goes(w, "validate", "idle")
  /\ code # "none"
  /\ Answers(w, Refusal(code))
  /\ UNCHANGED <<storeVars, keyVars, req, startedAt, work, submitted, failures>>

(* A BidError: nothing of the transaction remains, its key included.       *)
RejectBid(w) ==
  LET code == Rejection(req[w], work[w].lot) IN
  /\ Goes(w, "validate", "idle")
  /\ code # "none"
  /\ Answers(w, Refusal(code))
  /\ RolledBack(w)
  /\ UNCHANGED <<req, startedAt, submitted, failures>>

(* Mutant: the previous winner's bids stay accepted.                       *)
WithBidOnly(wk, r, placed) ==
  LET reserve == ReservePrice[r.lot] IN
  [wk EXCEPT
     !.lot = Led(wk.lot, r.bidder, r.amount),
     !.bids = Append(@,
       [bidder |-> r.bidder, type |-> r.type, amount |-> r.amount, max |-> r.max,
        status |-> "accepted", key |-> r.key, placedAt |-> placed]),
     !.bid = Len(wk.bids) + 1,
     !.reserveMet = reserve # Null /\ r.amount >= reserve]

(* Steps 5 to 8: the bid is inserted, the previous winner's bids outbid,   *)
(* the lot updated, its deadline extended.                                 *)
WithBid(wk, r, placed) ==
  LET row == wk.lot
      reserve == ReservePrice[r.lot]
      inserted == Append(wk.bids,
        [bidder |-> r.bidder, type |-> r.type, amount |-> r.amount, max |-> r.max,
         status |-> "accepted", key |-> r.key, placedAt |-> placed])
  IN [wk EXCEPT
        !.lot = Led(row, r.bidder, r.amount),
        !.bids = IF row.winner \in {Null, r.bidder} THEN inserted
                 ELSE Outbid(inserted, row.winner),
        !.bid = Len(wk.bids) + 1,
        !.reserveMet = reserve # Null /\ r.amount >= reserve]

AcceptBid(w) ==
  LET with == WithBid(work[w], req[w], startedAt[w]) IN
  /\ Goes(w, "validate", "resolve")
  /\ Rejection(req[w], work[w].lot) = "none"
  /\ work' = [work EXCEPT ![w] = Extended(with, with.bid)]
  /\ UNCHANGED <<storeVars, keyVars, req, startedAt, reply, submitted, failures>>

(* Mutant: the proxy bid answers with one unit more.                       *)
WithSmallCounter(wk, p, placed) ==
  LET bidder == wk.bids[p].bidder
      amount == wk.lot.currentBid + 1
      bid == [bidder |-> bidder, type |-> "auto_increment", amount |-> amount,
              max |-> Null, status |-> "accepted", key |-> Null, placedAt |-> placed]
  IN [wk EXCEPT
        !.lot = Led(wk.lot, bidder, amount),
        !.bids = Append(Outbid(wk.bids, wk.lot.winner), bid),
        !.iterations = @ + 1]

(* One iteration of resolveProxyBids on behalf of the proxy bid at p.      *)
WithCounter(wk, p, placed) ==
  LET bidder == wk.bids[p].bidder
      amount == GetMinimumNextBid(wk.lot.currentBid)
      bid == [bidder |-> bidder, type |-> "auto_increment", amount |-> amount,
              max |-> Null, status |-> "accepted", key |-> Null, placedAt |-> placed]
  IN [wk EXCEPT
        !.lot = Led(wk.lot, bidder, amount),
        !.bids = Append(Outbid(wk.bids, wk.lot.winner), bid),
        !.iterations = @ + 1]

ResolvesProxies(r) == r.type = "live"

ProxyCounters(w) ==
  /\ pc[w] = "resolve"
  /\ ResolvesProxies(req[w])
  /\ work[w].iterations < MaxProxyIterations
  /\ \E p \in Counters(work[w]) :
       LET i == Len(work[w].bids) + 1
           wk == Extended(WithCounter(work[w], p, startedAt[w]), i)
           event == EventOf("PROXY_RESOLVED", i, wk.lot.currentBid)
       IN work' = [work EXCEPT ![w] = [wk EXCEPT !.events = Append(@, event)]]
  /\ UNCHANGED <<storeVars, keyVars, pc, req, startedAt, reply, submitted, failures>>

(* Mutant: the loop is an if.                                              *)
RecordBidAfterOneRound(w) ==
  /\ Goes(w, "resolve", "commit")
  /\ \/ ~ResolvesProxies(req[w])
     \/ work[w].iterations = 1
     \/ Counters(work[w]) = {}
  /\ work' = [work EXCEPT ![w].events =
                Append(@, EventOf("BID_ACCEPTED", work[w].bid, req[w].amount))]
  /\ UNCHANGED <<storeVars, keyVars, req, startedAt, reply, submitted, failures>>

(* Mutant: the event carries the price at the end of the loop.             *)
RecordFinalPrice(w) ==
  /\ Goes(w, "resolve", "commit")
  /\ \/ ~ResolvesProxies(req[w])
     \/ work[w].iterations = MaxProxyIterations
     \/ Counters(work[w]) = {}
  /\ work' = [work EXCEPT ![w].events =
                Append(@, EventOf("BID_ACCEPTED", work[w].bid, work[w].lot.currentBid))]
  /\ UNCHANGED <<storeVars, keyVars, req, startedAt, reply, submitted, failures>>

(* The loop is over, or was not entered: step 10.                          *)
RecordBid(w) ==
  /\ Goes(w, "resolve", "commit")
  /\ \/ ~ResolvesProxies(req[w])
     \/ work[w].iterations = MaxProxyIterations
     \/ Counters(work[w]) = {}
  /\ work' = [work EXCEPT ![w].events =
                Append(@, EventOf("BID_ACCEPTED", work[w].bid, req[w].amount))]
  /\ UNCHANGED <<storeVars, keyVars, req, startedAt, reply, submitted, failures>>

(* buildLotSnapshot, and the result stored with the key and sent back.     *)
SnapshotOf(l, row) ==
  [currentBid |-> row.currentBid, bidCount |-> row.bidCount,
   status |-> row.status, closingAt |-> row.closingAt,
   reserveMet |-> ReservePrice[l] # Null /\ row.currentBid >= ReservePrice[l]]

ResultOf(w) == [bid |-> work[w].bid, lot |-> SnapshotOf(req[w].lot, work[w].lot)]

(* releaseLock and COMMIT: the work becomes what everyone sees.            *)
Committed(w) ==
  LET l == req[w].lot IN
  /\ lot' = [lot EXCEPT ![l] = work[w].lot]
  /\ bids' = [bids EXCEPT ![l] = work[w].bids]
  /\ events' = [events EXCEPT ![l] = work[w].events]
  /\ keyRow' = [keyRow EXCEPT ![KeyOf(req[w])] = ReleasedRow(ResultOf(w))]
  /\ lotLock' = LotsFreed(w)
  /\ keyLock' = KeysFreed(w)
  /\ UNCHANGED <<feed, now>>

(* Mutant: COMMIT is not awaited, and may fail unnoticed.                  *)
CommitUnawaited(w) ==
  /\ Goes(w, "commit", "publish")
  /\ Committed(w) \/ /\ lotLock' = LotsFreed(w)
                     /\ keyLock' = KeysFreed(w)
                     /\ UNCHANGED <<lot, bids, events, feed, now, keyRow>>
  /\ UNCHANGED <<req, startedAt, work, reply, submitted, failures>>

Commit(w) ==
  /\ Goes(w, "commit", "publish")
  /\ Committed(w)
  /\ UNCHANGED <<req, startedAt, work, reply, submitted, failures>>

(* Mutant: the message carries the amount of the request.                  *)
MessagesOfRequest(w) ==
  {[type |-> "BID_ACCEPTED", lot |-> req[w].lot, price |-> req[w].amount,
    count |-> work[w].lot.bidCount, closingAt |-> work[w].lot.closingAt,
    reserveMet |-> work[w].reserveMet]}

(* What is published is computed from variables of processBid, not read    *)
(* from the tables again.                                                  *)
MessagesOf(w) ==
  LET row == work[w].lot
      accepted ==
        [type |-> "BID_ACCEPTED", lot |-> req[w].lot, price |-> row.currentBid,
         count |-> row.bidCount, closingAt |-> row.closingAt,
         reserveMet |-> work[w].reserveMet]
      extension ==
        [type |-> "ANTI_SNIPE", lot |-> req[w].lot, price |-> Null, count |-> Null,
         closingAt |-> row.closingAt, reserveMet |-> FALSE]
  IN {accepted} \cup (IF work[w].extended THEN {extension} ELSE {})

(* Publishing is best effort: each message arrives or is lost.             *)
Publish(w) ==
  /\ Goes(w, "publish", "idle")
  /\ \E sent \in SUBSET MessagesOf(w) : feed' = feed \cup sent
  /\ Answers(w, [code |-> "accepted", response |-> ResultOf(w)])
  /\ work' = [work EXCEPT ![w] = Null]
  /\ UNCHANGED <<lot, bids, events, lotLock, now, keyVars>>
  /\ UNCHANGED <<req, startedAt, submitted, failures>>

-----------------------------------------------------------------------------
(* Failures.                                                               *)

InTransaction ==
  {"acquire", "select", "replay", "lockLot", "validate", "resolve", "commit"}

(* A statement fails, or the connection does: the catch block rolls back.  *)
StatementFails(w) ==
  /\ failures < MaxFailures
  /\ pc[w] \in InTransaction
  /\ pc' = [pc EXCEPT ![w] = "unlock"]
  /\ RolledBack(w)
  /\ failures' = failures + 1
  /\ UNCHANGED <<req, startedAt, reply, submitted>>

(* The connection fails after the server has committed: the program takes  *)
(* the same path, and its ROLLBACK changes nothing.                        *)
CommitUnacknowledged(w) ==
  /\ failures < MaxFailures
  /\ Goes(w, "commit", "unlock")
  /\ Committed(w)
  /\ work' = [work EXCEPT ![w] = Null]
  /\ failures' = failures + 1
  /\ UNCHANGED <<req, startedAt, reply, submitted>>

(* The attempt to clear locked may fail in its turn.                       *)
ForceUnlock(w) ==
  /\ Goes(w, "unlock", "idle")
  /\ KeyForcedOpen(KeyOf(req[w])) \/ UNCHANGED keyVars
  /\ Answers(w, Refusal("error"))
  /\ UNCHANGED <<storeVars, req, startedAt, work, submitted, failures>>

-----------------------------------------------------------------------------

(* What a worker does of its own accord, and what befalls it.              *)
WorkerStep(w) ==
  \/ InsertKey(w) \/ InsertFindsKey(w)
  \/ SelectCompleted(w) \/ SelectInFlight(w) \/ Replay(w)
  \/ LockLot(w) \/ LotNotFound(w)
  \/ RejectBid(w) \/ AcceptBid(w)
  \/ ProxyCounters(w) \/ RecordBid(w)
  \/ Commit(w) \/ Publish(w)
  \/ ForceUnlock(w)

WorkerFailure(w) == StatementFails(w) \/ CommitUnacknowledged(w)

(* The bounds on submissions end a behaviour when every worker is idle.    *)
AllAnswered ==
  /\ submitted = MaxSubmissions
  /\ \A w \in Workers : pc[w] = "idle"
  /\ UNCHANGED bidVars

BidStep == \E w \in Workers : Begin(w) \/ WorkerStep(w) \/ WorkerFailure(w)

BidNext ==
  \/ BidStep
  \/ ClockTicks /\ UNCHANGED <<keyVars, workerVars>>
  \/ AllAnswered

BidSpec == BidInit /\ [][BidNext]_bidVars

(* A connection's statements are executed, and PostgreSQL grants a row     *)
(* lock to those that wait for it in turn, so nobody waits forever for a   *)
(* lock that is free again and again.                                      *)
FairBidSpec ==
  BidSpec /\ \A w \in Workers : SF_bidVars(WorkerStep(w))

-----------------------------------------------------------------------------
(* Properties.                                                             *)

BidTypeOK ==
  /\ StoreTypeOK
  /\ keyRow \in [KeyIds -> KeyRow \cup {Null}]
  /\ keyLock \in [KeyIds -> Workers \cup {Null}]
  /\ pc \in [Workers -> InTransaction \cup {"idle", "publish", "unlock"}]
  /\ req \in [Workers -> Requests \cup {Null}]
  /\ startedAt \in [Workers -> Time]
  /\ work \in [Workers -> Work \cup {Null}]
  /\ reply \in [Workers -> Reply \cup {Null}]
  /\ submitted \in Nat
  /\ failures \in Nat

(* The rows that a worker holds are those it is entitled to at its place   *)
(* in processBid, and what it read under the lock is what is committed:    *)
(* no other session changes a lot, its bids or its events between the      *)
(* SELECT ... FOR UPDATE and the COMMIT, so no accepted bid is lost.       *)
WorkIsProtected(w) ==
  /\ \A l \in Lots :
       lotLock[l] = w <=> pc[w] \in {"validate", "resolve", "commit"} /\ req[w].lot = l
  /\ \A k \in KeyIds :
       keyLock[k] = w <=>
         /\ pc[w] \in {"replay", "lockLot", "validate", "resolve", "commit"}
         /\ KeyOf(req[w]) = k
  /\ pc[w] = "validate" => work[w] = WorkOn(req[w].lot)
  /\ pc[w] \in {"resolve", "commit"} =>
       Len(work[w].bids) = Len(bids[req[w].lot]) + 1 + work[w].iterations

LocksProtectTheWork == \A w \in Workers : WorkIsProtected(w)

(* The lot row is the summary of its bids that every reader takes it for:  *)
(* it counts them, names the bidder and the amount of the last one, and no *)
(* other bidder still has a live bid standing.  This must survive          *)
(* concurrent submissions, proxy wars, rollbacks and lost COMMITs.         *)
RowAgreesWithBids(row, bs) ==
  /\ row.bidCount = Len(bs)
  /\ row.winner = Null <=> bs = <<>>
  /\ bs # <<>> => /\ bs[Len(bs)].bidder = row.winner
                  /\ bs[Len(bs)].amount = row.currentBid
                  /\ bs[Len(bs)].status = "accepted"
  /\ \A i \in DOMAIN bs :
       bs[i].status = "accepted" /\ bs[i].type # "proxy" => bs[i].bidder = row.winner

LotAgreesWithBids == \A l \in Lots : RowAgreesWithBids(lot[l], bids[l])

(* However often a client repeats a request, at once or after an error or  *)
(* a lost answer, its key enters at most one bid, on whichever lot; and    *)
(* the key is stored, ready to be replayed, exactly when that bid is.      *)
OneBidPerKey ==
  \A k \in KeyIds :
    LET of(l) == {i \in DOMAIN bids[l] : <<bids[l][i].key, bids[l][i].bidder>> = k}
        entered == UNION {{l} \X of(l) : l \in Lots}
    IN IF keyRow[k] = Null
       THEN entered = {}
       ELSE Cardinality(entered) = 1 /\ ~keyRow[k].locked

(* Every success a client is told of, the first time or as a replay, is    *)
(* the one stored under its key, and tells of a committed bid of its own.  *)
AnswersAreDurable ==
  \A w \in Workers :
    reply[w] # Null /\ reply[w].code \in {"accepted", "replayed"} =>
      LET k == KeyOf(req[w])
          answer == reply[w].response
      IN /\ keyRow[k] # Null
         /\ keyRow[k].response = answer
         /\ \E l \in Lots : /\ answer.bid \in DOMAIN bids[l]
                            /\ <<bids[l][answer.bid].key, bids[l][answer.bid].bidder>> = k

(* The last bids are as many counter bids as the loop has rounds.  They    *)
(* are of one loop, since each request begins with a bid of its own.       *)
LoopRanToCap(bs) ==
  /\ Len(bs) > MaxProxyIterations
  /\ \A i \in DOMAIN bs :
       i > Len(bs) - MaxProxyIterations => bs[i].type = "auto_increment"

(* Once a live bid is dealt with, no rival proxy bid that could afford the *)
(* next increment is left standing, unless the loop made all the rounds    *)
(* that its cap allows.                                                    *)
NoRivalProxyLeft ==
  \A l \in Lots :
    bids[l] # <<>> /\ bids[l][Len(bids[l])].type # "proxy" =>
      \/ LoopRanToCap(bids[l])
      \/ ~ \E i \in DOMAIN bids[l] :
              /\ bids[l][i].type = "proxy"
              /\ bids[l][i].status = "accepted"
              /\ bids[l][i].bidder # lot[l].winner
              /\ bids[l][i].max >= GetMinimumNextBid(lot[l].currentBid)

(* No bid is made in a bidder's name beyond what the bidder has allowed:   *)
(* a counter bid is within the ceiling of a proxy bid that the same bidder *)
(* placed on the lot before, whoever's request the loop ran for.           *)
CeilingsAreKept ==
  \A l \in Lots : \A i \in DOMAIN bids[l] :
    bids[l][i].type = "auto_increment" =>
      \E j \in 1 .. i - 1 :
        /\ bids[l][j].type = "proxy"
        /\ bids[l][j].bidder = bids[l][i].bidder
        /\ bids[l][j].max >= bids[l][i].amount

(* README.md describes the loop as running for every accepted bid ("while  *)
(* bid accepted"), so that no bid of any type leaves a rival proxy bid     *)
(* standing that could afford the next increment.                          *)
EveryBidIsCountered ==
  \A l \in Lots : \A i \in DOMAIN bids[l] :
    /\ bids[l][i].type = "proxy"
    /\ bids[l][i].bidder # lot[l].winner
    => bids[l][i].max < GetMinimumNextBid(lot[l].currentBid)

(* The parts of AuditTrailComplete, for one lot.                           *)
EventsOf(l, types) == {e \in DOMAIN events[l] : events[l][e].type \in types}

BidsAreTold(l) ==
  LET priced == EventsOf(l, {"BID_ACCEPTED", "PROXY_RESOLVED"}) IN
  /\ \A i \in DOMAIN bids[l] :
       \E e \in priced : events[l][e].bid = i /\ events[l][e].value = bids[l][i].amount
  /\ Cardinality(priced) = Len(bids[l])

DeadlineIsTold(l) ==
  LET extensions == EventsOf(l, {"ANTI_SNIPE_TRIGGERED"}) IN
  extensions # {} => events[l][Max(extensions)].value = lot[l].closingAt

(* The audit trail tells of every bid exactly once, with its amount, and   *)
(* the last extension it tells of is the deadline the lot really has.      *)
AuditTrailComplete == \A l \in Lots : BidsAreTold(l) /\ DeadlineIsTold(l)

(* A message never tells of a price that is not committed: it names the    *)
(* amount of the bid whose number it carries.                              *)
FeedTellsOfCommittedBids ==
  \A m \in feed :
    m.type = "BID_ACCEPTED" =>
      m.count \in DOMAIN bids[m.lot] /\ bids[m.lot][m.count].amount = m.price

(* Bids keep the lot's book as LotLedger promises.                         *)
Ledger == INSTANCE LotLedger WITH
  book <- [l \in Lots |->
             [i \in DOMAIN bids[l] |->
                [bidder |-> bids[l][i].bidder, amount |-> bids[l][i].amount]]],
  price <- [l \in Lots |-> lot[l].currentBid],
  outcome <- [l \in Lots |->
                IF lot[l].status \in {"sold", "passed"} THEN lot[l].status ELSE "running"]

KeepsTheLedger == Ledger!LedgerSpec

(* A submission is answered in the end: workers that wait for one another's *)
(* keys and lots, and proxy wars, all come to an end.                      *)
RequestsAreAnswered ==
  \A w \in Workers : pc[w] = "acquire" ~> pc[w] = "idle"

(* README.md: a request whose key is in flight in another request is       *)
(* answered 409.                                                           *)
DuplicateIsRefused ==
  \A v, w \in Workers :
    (/\ v # w
     /\ pc[v] \in {"lockLot", "validate", "resolve", "commit"}
     /\ pc[w] = "acquire"
     /\ KeyOf(req[v]) = KeyOf(req[w]))
      ~> (reply[w] # Null /\ reply[w].code = "concurrent_request")
=============================================================================
