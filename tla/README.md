# AuctionCore: verification project

TLA+ modules, TLC configurations and TLAPS proofs for AuctionCore, a service
that runs timed auctions: bidders submit bids over HTTP, bids near a deadline
extend it, proxy bids answer other bids, a background job sells the lots whose
deadline has passed, and every change is pushed to WebSocket clients. The
service runs in several instances on one PostgreSQL database and one Redis.

Paths below are relative to the repository. The program is under `src/`, the
schema under `db/`, the documentation is `README.md`.

1. [The system](#1-the-system)
2. [The modules](#2-the-modules)
3. [The runs](#3-the-runs)
4. [Fairness](#4-fairness)
5. [The proofs](#5-the-proofs)
6. [What the code does that its documents do not say](#6-what-the-code-does-that-its-documents-do-not-say)
7. [What is not modelled](#7-what-is-not-modelled)
8. [Plan](#8-plan)

## 1. The system

| component | state | operations | interacts with | what is hard | what makes it correct |
|---|---|---|---|---|---|
| Increment table (`internal/bidding/increment.ts`) | none | increment, minimum next bid, validity | bid processor | ends of the tiers, cents | the documented increment for every price; the minimum grows with the price |
| Bid processor (`internal/bidding/processor.ts`) | rows of `lots`, `bids`, `auction_events` in one transaction | `processBid`, `resolveProxyBids` | keys, lot closer and operators through row locks; Redis after COMMIT | concurrent bids, failures at every statement, lost COMMIT acknowledgements, proxy wars, extensions | no bid lost, the lot's row agrees with its bids, prices climb by increments |
| Idempotency keys (`internal/idempotency/service.ts`) | `bid_idempotency_keys` | acquire, release, force-unlock | bid processor | retries in flight, after an error, after a lost answer | at most one bid per key and bidder, replays are what was committed |
| Lot closer (`internal/settlement/lot-closer.ts`) | `isRunning`; rows of `lots`, `settlement_invoices` | cycle every 5 s: select, close, invoice, announce | bids and other closers through `SKIP LOCKED`, operators through the auction's row | bids and several closers at a deadline, an order that holds the auction, failure of one lot of a batch | settled once, to the last bidder at the last price, reserve respected, invoice exactly when sold |
| Auction lifecycle (`routes/auctions.ts`) | `auctions.status` | open, pause, close | changes all lots of the auction | bulk UPDATEs among running bids and closers | only listed transitions; no lot forgotten |
| Schema (`db/migrations/001_schema.sql`) | tables, `lot_state_transitions` and the trigger on it | - | all | - | the trigger never has to reject a statement |
| Bid route (`routes/bids.ts`) | none | validation, error mapping | rate limiter, bid processor | - | every refusal has its answer |
| Payment engine (`internal/settlement/payment.ts`, `routes/settlement.ts`) | rows of `settlement_invoices`, as read before a call | cycle every 10 min, pay route | gateway | overlapping engines, timeouts after a capture, a failing UPDATE, stale `retry_count` | references are those of captures, every invoice is paid or overdue; one charge where no outcome is lost and no payers overlap |
| Rate limiter (`internal/ratelimit/service.ts`) | two sorted sets in Redis | check and consume, roll back | bid route | two scripts and a roll back that are not one step; scripts that run late, twice or not at all | no more than the limit per window; an admitted bid counts, a refused one does not |
| Broadcaster (`internal/websocket/broadcaster.ts`, `routes/websocket.ts`) | sockets by auction, a gauge | add, remove, fan out | Redis subscription | close, error and fan-out of one socket | fan-out reaches every open socket and keeps no closed one; the gauge never shows too many |
| Registration (`routes/bidders.ts`) | `auction_registrations`, `bidders` | register | identity verification | verdicts that differ and are stored in any order | tier and registrations come from the same verdicts |
| Shutdown (`server.ts`, `app.ts`) | progress of `shutdown`, timers | SIGTERM, SIGINT | requests, sockets, jobs, pool, Redis | what is not waited for, clients that leave, a second signal | every client that waits has its answer, no transaction is cut off; the process ends |

The rest (set-up, metrics, read-only routes, configuration, migrations, seed)
keeps no state that a property could be about.

The parts fall into two groups. The bid processor, the closers, the operators
and the payment engine meet in the database, and an invoice leaves the first
three for the last. What one process keeps for itself is the rest: the requests
it serves and their way through the rate limiter, its sockets, its timers and
its shutdown.

The processor, the closers and the operators meet nowhere but in the database.
So the models treat a request or a job as a *session*: a database connection in
whichever instance, whose steps are the points at which another session can
come in between. READ COMMITTED and row locks are PostgreSQL's, and are
modelled as the code's statements use them:

- `SELECT ... FOR UPDATE` waits for the row and returns it as it then is;
- `FOR UPDATE SKIP LOCKED` passes over rows that are held;
- `INSERT ... ON CONFLICT DO NOTHING` waits for a transaction that has inserted
  the same key and not ended, and does not wait for a mere row lock;
- a bulk `UPDATE` goes through the rows that match when it starts, waits for
  each that is held and leaves out those that no longer match afterwards;
- an `INSERT` of a row that refers to another (a foreign key) shares that row
  (`FOR KEY SHARE`) until COMMIT: it waits for whoever holds it `FOR UPDATE`, and
  is waited for in turn, but not among its like;
- COMMIT and ROLLBACK free all of a session's rows.

One foreign key matters: that of an invoice on its auction
(`001_schema.sql:178`), which the orders hold `FOR UPDATE`. Those of a bid are its
lot, which it holds already, and its bidder, a row that nobody changes but by a
registration's UPDATE of the tier, which does not conflict. A registration shares
its auction with its last statement: it may wait for an order, and an order for
it, but all it holds is its bidder's row, for which only other registrations
wait. Events, keys, and an invoice's lot and bidder are not foreign keys.

## 2. The modules

```
BidIncrement   AuctionStore                       LotLedger (abstract)
      \          /   |    \                           ^
       \ IdempotencyKeys    AuctionRow                | refinement
        \      |            /        \                |
        BidProcessor   LotCloser  AuctionLifecycle    |
          |      \__________|__________/              |
          |            AuctionCore -------------------+
   BidProcessorProofs       |
          |                 |
     BidBookProofs          |       RateLimiter  Broadcaster  Registration
          |                 |               \________  |  ________/
    BidEntryProofs          |                     ApiInstance
          |                 |                         |
     AuditProofs            |                      ApiProofs
             \_____________ |
                    CoreProofs      Settlement --refinement--> Billing (abstract)
                                        |
BidIncrement -- MCBidIncrement    SettlementProofs
                     |
              IncrementProofs
```

**BidIncrement** — `increment.ts`. The table is a constant; a tier applies
below its threshold and the first one wins. `GetBidIncrement`,
`GetMinimumNextBid`, `IsValidBidAmount` keep the source's names.

**AuctionStore** — the tables every component shares. A lot's row, its bids in
the order of insertion, its events in the order of their ids, the row lock of
the lot, the messages published (`feed`) and the clock. Columns nothing reads
back are left out. `LotTransitions` is the table of allowed transitions.

**IdempotencyKeys** — the key table. `keyRow` is committed data and `keyLock`
the session that holds the row or has inserted it and not committed.

**BidProcessor** — `processBid`. A worker's `pc` is the statement it runs next,
`work` the rows as its transaction sees them (committed as one at `Commit`,
dropped by `RolledBack`).

| action | code |
|---|---|
| `Begin` | a client submits, or repeats, one of `Requests`; BEGIN |
| `InsertKey`, `InsertFindsKey`, `SelectCompleted`, `SelectInFlight`, `Replay` | `acquireLock` and the two early returns |
| `LockLot`, `LotNotFound` | the `SELECT ... FOR UPDATE OF l` |
| `RejectBid` | steps 2 to 4: every `BidError`, in the code's order (`Rejection`) |
| `AcceptBid` | steps 5 to 8: insert, outbid, reserve, lot, anti-snipe |
| `ProxyCounters` | one iteration of `resolveProxyBids` |
| `RecordBid` | the end of the loop, and the event of step 10 |
| `Commit`, `Publish` | `releaseLock` and COMMIT; the messages, each of which may be lost |
| `StatementFails`, `CommitUnacknowledged`, `ForceUnlock` | the catch block, also after a COMMIT that took effect |

Statements that run under the lot's lock and can neither wait nor be seen are
taken together: no other session can tell. A failure among them is a failure
before the next action, since all of their effects are rolled back alike.

**LotLedger** — the abstract specification: a lot's book of bids is append-only
and climbs by at least the increment, a lot is settled once, as sold exactly
when there is a bid and the reserve is met, and then never changes. It knows
nothing of keys, locks, proxies, deadlines or failures. `BidProcessor` defines
the refinement mapping (`Ledger`): the book is the bidder and amount of
each bid, the price `currentBid`, and the outcome `running` unless sold or
passed.

**AuctionRow** — the row of the auction, as orders lock it and invoices share it.

**LotCloser** — `runLotCloserCycle` and `closeLot`: `SelectDueLots` (with
`SKIP LOCKED` and the limit), `ShareAuction` (the INSERT of the first invoice of
the batch, which waits while an order holds the auction, with the lots of the
batch locked), `SettleBatch` (all lots of the batch and COMMIT), `AnnounceBatch`,
`CycleFails` (any statement for any lot: the batch is lost). Where in the batch
the first sold lot comes makes no difference: nobody sees the rows before COMMIT.

**AuctionLifecycle** — the operator's requests on one auction. `StartOpen` and
`StartClose` take the auction's row, which waits for other orders and for closers
that share it, and begin the bulk UPDATE, `VisitLot` takes
one lot (or leaves it out), `FinishOpen` and `FinishClose` commit. `Pause` is
one step.

**AuctionCore** — all of them on one database, with the clock. `WaitsFor(s, t)`
says, of any two sessions, that the next statement of one waits in PostgreSQL for
the other's transaction to end.

**Settlement** — `payment.ts` and the pay route. A *payer* is a cycle of an
engine (`StartCycle`) or a pay request (`AskToPay`, `ReadInvoice`). `pay` holds
where it is and the rows it has still to do, *as it has read them*: the code
holds no lock across the call to the gateway, and each statement is a
transaction of its own.

| action | code |
|---|---|
| `CreateInvoice` | `createInvoice` of the lot closer |
| `StartCycle` | the query of `processPendingInvoices` |
| `AskToPay`, `ReadInvoice` | the pay route's SELECT, and that of `processInvoiceById` |
| `SkipInvoice` | the early return on a `payment_ref` |
| `GatewayApproves`, `GatewayRefuses`, `GatewayIsSilent`, `LateCapture` | `callPaymentGateway`: an answer, or none in ten seconds, in which case the gateway may carry the call out later or never |
| `RecordOutcome` | the UPDATE to paid, or `handleDecline` (`RefusedRow`) |
| `RetryDue` | `next_retry_at` passes |
| `UpdateFails`, `SelectFails`, `CutOff` | a statement fails (also after taking effect), the process ends |

**Billing** — the abstract specification of an invoice: charged at most once,
paid when charged, overdue after `RetryMax` refusals. The program keeps this
promise only while it is told the outcome of its calls and no two payers work
on the invoice at once; from then on an invoice is *disputed* and Billing says
nothing more about it. The refinement maps `disputed` to the history variable
`doubtful`, which grows in exactly three cases: a payer reads a row that
another has in hand, a call stays without an answer, an approval cannot be
written down. So `KeepsTheBill` says precisely where the promise ends; what
remains true beyond it is `PaymentsAreReal` and `InvoicesAreSettled`.

**RateLimiter** — a script is atomic in Redis, so `EvalGlobal`, `EvalLot` and
`RollbackGlobal` are one action each; both scripts are sent at once on one
connection and so run in this order, with those of other requests in between.
Each uses the time at which its request started, which may be up to `MaxDelay`
ago. A command may be carried out and its answer lost, and ioredis then sends
it again (`Answered`), or it is given up (`RedisFails`). A bid that passes is
`connecting` until it has a client of the pool (`BidBegins`) and `processing` then.

**Broadcaster** — `sock` is the connection as `ws` knows it and
`connections`, `mapped` and `gauge` what the program keeps. A socket that is
`closing` is no longer open to `fanOut` and its close event is still to come.

**Registration** — `POST /bidders/:id/register`: the status check, the call to
the verification service, a client of the pool (`RegisterBegins`), then the UPDATE,
which keeps the bidder's row, and the upsert with COMMIT. Its outcome is the
constant `Registration` of `BidProcessor`.

**ApiInstance** — one process: the three above, whether a closer's batch or an
engine's call is under way, and `shutdown`. `HttpServerCloses` is the end of
`await app.close()`, which waits for connections: for the sockets, and for the
requests whose clients are still there. A client may close its connection at any
time (`ClientLeaves`); its handler goes on, and `gone` remembers it. `JobsStop` is
`waitForCurrentIteration`; `PoolEnds` is the end of `pool.end()`, which waits for
clients of the pool in use, so for open transactions; from its call on
`pool.connect()` is rejected (`PoolIsOpen`), and a bid or registration that gets there then fails
(`BidFails`, `RegisterFails`). The in-flight counter of `app.ts` has no variable, as
nothing ever increments it.

The **MC** modules hold the instances for TLC, and a comment on each set.
Operators under a comment that begins with `Mutant:` are faulty variants of the
definition that follows them, with the kind of mistake a change to the code
could make; each has been put in its place to see that the property it is
listed with in `PROJECT.json` notices.

## 3. The runs

`Bounds` are the constants that cut the behaviours (`MaxSubmissions`,
`MaxFailures`, `MaxTime`, `MaxOrders`, `MaxCloserFailures`, `MaxEvents`,
`MaxClock`, `MaxOutages`), all guards on counters, and the `Scenarios` of
`ApiInstance`; nothing else limits the state. Prices are a few units with one tier
change at 6, as increments act on nothing else. Deadlock is checked in every
run: the bounds end in the stuttering steps `AllAnswered`, `AllDone`,
`SettlementDone` and `ApiDone`, which ask that every session be idle, every
invoice settled, or the process ended, so a session that waits for good is a
deadlock.

| run | question | instance |
|---|---|---|
| `increments` | Does the shipped table give the documented increments, and is it monotone? | from both ends of every tier and odd cents, by minimum bids up to $120,000 (beyond the last tier) |
| `bid_race` | Are bids lost, doubled or misreported when requests race, repeat and fail? | 2 connections, 4 submissions of 3 requests: two bidders on one lot, one key on two lots (the second open or already sold); one failure of any statement or COMMIT; deadline and clock |
| `bid_rules` | What do proxy bids leave behind, what do events and messages tell, does a refusal leave no trace, and is everybody answered? | two equal proxy bids, two live bids of a third, a live bid over the bidder's own proxy, and one request per reason to be refused (unknown lot included); lot closing, before or after its deadline, pending, sold or withdrawn; 3 submissions on 2 connections, one failure; extensions that may repeat; a cap of 3 rounds, which the answer to a live bid of 4 runs into and that to one of 6 does not |
| `sale` | Is every lot sold right, whoever opens, pauses, closes, bids or fails, and does nobody wait without end? | two lots (pending, with the scheduled end reached, or one near its deadline and one past it), 2 connections with 2 submissions of 3 requests, 2 closers, 2 orders at once, one failed bid and one failed batch |
| `settled` | Is every lot settled by the book while deadlines pass, and is a due lot settled in the end? | the live auction, one connection with 2 submissions, 2 closers, an order to close, one failed batch, under fairness |
| `settlement` | Do the engines keep the promise about invoices, and is every invoice settled? | two engine cycles and one pay request at a time, two invoices, `RetryMax` 2, 3 events (invoices, pay requests, silent calls, failed statements, payers cut off) |
| `instance` | Do the limiter, the sockets, registration and shutdown of one process hold up? | one scenario per interaction (`AllScenarios`): three bids of one bidder, two of them on one lot, or each on a lot of its own; two sockets of one auction, or of two; two registrations for two auctions, or for one; a bid or a registration, whose client may leave, and a signal; a socket and two signals. Limits of 2 and 1 in a window of 3 ticks, scripts up to one tick late, one lost answer |
| `in_flight`, `proxy_answered`, `closed_auction`, `double_capture`, `redis_down` | statements of the repository that the code does not keep | [section 6](#6-what-the-code-does-that-its-documents-do-not-say) |

Why these bounds are enough to mean something: two sessions are what every
conflict here takes, since each takes one key and one lot and a third would
only wait in the same queue; four submissions allow a bid, its rival, a repetition
and a repetition after a failure in every order; one failure at each place
shows each rollback, and the state after it is again an initial one for the
next; extensions and counters need the deadline one or two ticks ahead. Proxy
wars end at their ceilings, after one round and after several, and in `bid_rules`
at the cap of the loop as well, which is 3 there instead of 50; in the other runs
it is 50, and never reached.

In `sale` there are two of everybody, so that each can meet its like and every
other: two bids on one key, two orders on one auction, two closers on one lot.
Its clock stands still, one lot being extendable and one due from the start;
the clock moves in `settled` (and in `bid_race`), with one connection and one
order. Connections, closers and orders that do the same are interchangeable
(`SessionSymmetry`); `settled` has no symmetry, which liveness would not allow.

For invoices, two payers are what an overlap takes, and the third (the desk)
covers requests that arrive during one; two invoices make a cycle with a rest
that a fault cuts off; two refusals exhaust the retries; three events allow
both invoices and a fault, or one invoice, a pay request and a fault.

In `instance` a scenario names the visitors of a behaviour. The visitors of
different scenarios share no state (a bid touches only the buckets, a socket
only the map, a registration only its rows, and a signal all of them), so that
one scenario per interaction shows what all together would, and the product of
their states is not explored. Two bids on one lot and one on another meet the
lot's limit of one; three on three lots meet the global limit of two, which the
lots' limits do not imply there; three ticks let a window pass.

What the properties say:

- `LocksProtectTheWork`: a session holds exactly the rows its place in the
  code entitles it to, and what it has read under the lot's lock is still what
  is committed. This is the fact the whole processor rests on.
- `LotAgreesWithBids`: the row of a lot summarises its bids.
- `OneBidPerKey`, `AnswersAreDurable`: a key enters one bid, and every success
  told to a client is committed and is what a replay would tell.
- `NoRivalProxyLeft`: after a live bid no rival proxy bid is left that could
  afford the next increment, unless the loop has made all the rounds of its cap
  (`LoopRanToCap`: the last bids are that many counter bids).
- `CeilingsAreKept`: the loop never bids in a bidder's name beyond the ceiling of
  a proxy bid that the same bidder placed on the lot before.
- `AuditTrailComplete`: each bid has one event, with its amount, and the last
  extension told of is the deadline of the lot. `AuditTrailOfSale` is what of it
  holds beside closers and operators: a closing order sets a deadline of its own
  and writes no event about it (`routes/auctions.ts`), so that the deadline is
  claimed of open lots only.
- `FeedTellsOfCommittedBids`, `AnnouncementsStand`: messages, in whatever order
  they arrive, tell only of what is committed, and a sale stands.
- `KeepsTheLedger`: the refinement of `LotLedger`.
- `SettledByTheBook`: invoice exactly when sold, to the last bidder for the
  last amount, reserve respected, one closing event. `ReserveMetMeansSold`: once a
  message has said that the reserve of a lot is met, the lot is not passed,
  though `reserveMet` is computed before the loop, sent after COMMIT and compared
  again by the closer.
- `StatusFollowsTransitions`: no statement would be rejected by the trigger.
- `NoCircularWait`, `WorkGoesOn`: no sessions wait for one another in a circle,
  and whoever is at work or waited for, and waits for nobody, has a step. Together
  they say that while anybody is at work somebody can go on, which is the safety
  that liveness rests on.
- `RequestsAreAnswered`, `DueLotsAreSettled`: the liveness of both sides.
- `KeepsTheBill`: the refinement of `Billing`; `PaymentsAreReal`: a reference
  written down is that of a capture that took place, whatever overlaps or fails;
  `InvoicesAreSettled`: stale retry counts, refusals and faults never keep an
  invoice pending for good, and a capture that is not doubtful is written down.
- `WithinLimit`: however scripts interleave, no bidder has more bids through
  in a window than the limits say. The window that is guarded is shorter than
  the configured one by the delay of a script, since a late script trims by an
  older time. `BucketsRemember`: an admitted bid stays counted while it is
  recent, a bid refused by the lot's window does not count.
- `OpenSocketsAreRegistered`, `GaugeErrsLow`, `SilentClientsAreDropped`: the
  map has every open socket and no closed one; the gauge never shows too many
  and its shortfall is accounted for by errors and by dead sockets that fan-out
  removed; the heartbeat finds clients that are gone.
- `RegisteredAsVerified`: a bidder's tier is one its registrations were made
  with; nothing of a failed request remains.
- `StopsCleanly`, `ShutdownCompletes`: when the pool is being closed, every
  client that has waited has its answer, every socket was told and no batch is
  under way, although nothing counts requests in flight; a request that is still
  served is one whose client has gone. When Redis is left, and at a regular
  exit, no transaction is open either. And a signal always ends the process,
  silent clients and second signals included.
- `DocumentedIncrements`, `MinimumNeverFalls`: the table, against a definition
  by bands of whole dollars that is written independently of it.

## 4. Fairness

- Workers and operators: strong fairness (`FairBidSpec`, `FairCoreSpec`). Their
  statements *queue* for a row: PostgreSQL grants a row lock to waiters in
  turn, so a step that is enabled again and again is taken. Weak fairness
  would let others take a lock each time it is free, which the queue excludes.
- Closers: only weak fairness. `SKIP LOCKED` does not queue, so nothing
  promises a closer a lot that is held each time it looks.
  `DueLotsAreSettled` holds because a bid that holds the lot ends, and the
  number of bids in a behaviour is bounded; in the program it is the deadline
  and the increments that make bidding stop.
  Its wait for the auction's row, with an invoice, is a wait for an order: an
  order ends, since it never waits for lots of a closer, and the bound on orders
  stands for the queue that the closer's INSERT has joined.
- No fairness of clients (`Begin`), of orders, of the clock or of failures.
- Payers (`FairSettlementSpec`): weak fairness. They wait for no lock; a timer
  starts a cycle while something is payable, a call ends within ten seconds,
  and an hour passes (`RetryDue`). The gateway need never approve, and need not
  carry out a call that was given up.
- One process (`FairApiSpec`): weak fairness of serving the requests that have
  arrived, of each socket's timers and close event, of a batch and an UPDATE
  that are under way, and of `shutdown`. The engine's call to the gateway needs
  none: shutdown does not wait for it. Close events come for silent clients
  because `ws` ends a connection it has closed after 30 seconds. Clients need
  not connect, answer or leave.

## 5. The proofs

`tlapm M.tla` checks all obligations of each of the eight `*Proofs` modules.
The theorems hold for any sets of sessions, lots, bidders, keys, closers,
operators, invoices, payers, requests and sockets, any table of positive
increments and any bounds. They use the named `ASSUME`s of the modules they are
about, which TLC evaluates in the runs: the types of the constants, `Null` being
none of the values, the numbers of the limiter, and two that say something of
the system: lots are not closed before the closers exist
(`InitialLotsAssumption`), and the sets of invoices, requests and sockets are finite. One
hypothesis is stated in theorems themselves: `TableShipped` (the constants are
the table of `increment.ts`), in the two about that table; the run satisfies it.

| theorem | states | for |
|---|---|---|
| `BidTypesCorrect`, `BidLocksHold` | `BidTypeOK`, `LocksProtectTheWork` | `BidSpec` |
| `IncrementsAsDocumented`, `MinimumRises` | `DocumentedIncrements`, `MinimumNeverFalls`, for prices of any size | the shipped table |
| `HigherPriceHigherMinimum` | the minimum next bid never falls as the price rises | every `RisingTable` |
| `BidBookAgrees`, `LiveBidsAreCountered` | `LotAgreesWithBids`, `NoRivalProxyLeft` | `BidSpec`, every table, ceiling and cap |
| `KeysEnterOnce`, `AnswersStayTrue`, `FeedIsTrue` | `OneBidPerKey`, `AnswersAreDurable`, `FeedTellsOfCommittedBids` | `BidSpec` |
| `CeilingsBind` | `CeilingsAreKept` | `BidSpec`, every table and cap |
| `LedgerIsKept` | `KeepsTheLedger`, the refinement of `LotLedger` | `BidSpec` |
| `AuditIsComplete` | `AuditTrailComplete` | `BidSpec` |
| `CoreTypesCorrect`, `CoreLocksHold`, `SalesGoByTheBook`, `AnnouncementsAreTrue`, `StatusIsGuarded`, `CoreLedgerIsKept` | `CoreTypeOK`, `LocksProtectTheWork`, `SettledByTheBook`, `AnnouncementsStand`, `StatusFollowsTransitions`, `KeepsTheLedger` | `CoreSpec` |
| `CoreKeysEnterOnce`, `CoreAnswersStayTrue`, `CoreFeedIsTrue`, `CoreBidsAreCountered` | `OneBidPerKey`, `AnswersAreDurable`, `FeedTellsOfCommittedBids`, `NoRivalProxyLeft` | `CoreSpec` |
| `CoreCeilingsBind`, `CoreTrailIsComplete`, `ReserveMetIsSold` | `CeilingsAreKept`, `AuditTrailOfSale`, `ReserveMetMeansSold` | `CoreSpec` |
| `InvoicesAreOffered` | every invoice is for an amount its bidder has bid, or covered with a ceiling, on that lot | `CoreSpec` |
| `NobodyIsDeadlocked`, `HoldersAreAtWork` | `NoCircularWait`; whoever is waited for is in the middle of its work | `CoreSpec` |
| `SettlementTypesCorrect`, `PaymentsTrulyMade`, `BillIsKept` | `SettlementTypeOK`, `PaymentsAreReal`, `KeepsTheBill` (the refinement of `Billing`) | `SettlementSpec` |
| `InstanceTypesCorrect`, `LimitsAreKept`, `TokensAreKept`, `FanOutReachesAll`, `GaugeIsBounded`, `TiersAreEarned`, `ShutdownIsClean` | `ApiTypeOK`, `WithinLimit`, `BucketsRemember`, `OpenSocketsAreRegistered`, `GaugeErrsLow`, `RegisteredAsVerified`, `StopsCleanly` | `ApiSpec` |

**One bid processor** (`BidProcessorProofs`, `BidBookProofs`). `BidTypeOK` is not
inductive: a step of a worker whose `work` is `Null` would give anything.
`TypeInv` adds what each worker is equipped with at its place (a request when
not idle, rows from `validate` on, a lot that exists once it is locked).
`LocksProtectTheWork` is inductive relative to it: a step changes the worker's
own locks as its new place requires (`WorkerStepLocks`), and can change rows
that another has read only by holding the same lock (`OthersStayProtected`). The
committed row agrees with the bids because the uncommitted one does all along:
`BookInv` adds that the rows of every worker's `work` agree.

**The proxy loop** (`BidBookProofs`). `RivalInv` says for a worker in the loop
that every bid's ceiling is one that a request named, that a last bid which is
not a proxy's is one that the loop deals with, and that after `n` rounds the
last `n` bids are counter bids. So when the loop stops at its cap the bids show
it (`LoopRanToCap`), and otherwise it stops because the best competing proxy bid
cannot go on: then no rival can. A best one exists (`BestProxyExists`) because
the ceilings of a book are bounded (`CeilingsBounded`). The exception cannot be
dropped: with the shipped table the loop can reach its cap for ceilings of a few
hundred dollars, depending on the price it starts from. Section 6 has an example.

**Keys, answers and messages** (`BidEntryProofs`). `EntryInv` relates a worker's
uncommitted bids to the committed book it will replace: a prefix of it, followed
by one bid of the request and by counter bids under no key (`WorkContinues`), and
no one else has stored a key that a worker has inserted (`KeysInHand`). `KeyInv`
adds that stored responses name a bid of their key, so that COMMIT enters one
bid under one key and no other step enters any (`EnteredByCommit`). `FeedInv`
adds that what a worker is about to publish is committed.

**Ceilings** (`BidEntryProofs`). `CeilingInv` says of the uncommitted bids of
every worker what `CeilingsAreKept` says of the committed ones. It holds at the
cap of the loop and for any ceilings, since a counter bid is checked against the
ceiling of the proxy bid it is made for (`CounterWithin`); the price may be
anything. With `SettledByTheBook` it follows that nobody is invoiced an amount
he has not offered himself (`InvoicesAreOffered`), whoever ran the price up.

**The shipped table** (`IncrementProofs`). `DocumentedIncrements` is defined by
bands of whole dollars, the code by thresholds in cents; they agree because
`price \div 100` lies in a band exactly when the price is below one threshold and
not below the one before. The price itself is only ever a natural number.

**The ledger** (`BidEntryProofs`). `EntryInv` is all a step simulation needs: `Commit`
maps to a step of the ledger, every other step to a stutter.

**The audit trail** (`AuditProofs`). `AuditInv` follows the events of a
transaction: while the loop runs, exactly the request's own bid is untold
(`Untold`), and the last extension written is the deadline of the worker's row.

**All on one database** (`CoreProofs`). Sessions do not interfere: a step of one
takes no lock from another and changes only lots it has locked (`MindsLocks`, for
workers, closers and operators). From that, `CoreInv` carries the processor's
`EntryInv` over to the composition, with what closers and operators hold
(`ClosersHold`, `OperatorsHold`). A lemma about how a lot may change in one step
(kept, bid on, moved by an order, settled by the closer that holds it) then
gives the transitions and the ledger at once. `SaleInv` adds that a closed lot
is closed as its own row demands, with one closing event, and that what a
closer is about to announce stands; `SettledByTheBook` follows with
`LotAgreesWithBids`, which says what the row has to do with the bids. As closers
and operators enter no bid, tell of none and change no price (`OthersBidNothing`),
the lemmas about a worker's step carry what is proved of the processor alone over
to the composition. For the audit trail the closers' and operators' own events
are added: none of them has the type of a bid's or an extension's, and none is
taken away (`AuditTrailOfSale`).

**Who waits for whom** (`CoreProofs`). A closer holds lots while its first invoice
waits for the auction, and an order holds the auction while it waits for lots.
They do not meet: the lots that an order has still to visit were not closing when
it began, nothing else makes a lot closing, so no closer holds one of them
(`OrdersAvoidClosers`). An order that has begun therefore waits only for bids that
hold a lot (`OrderWaitsForBids`), no other order being under way and no closer
sharing the auction beside it; such a bid takes its lot last and waits for nobody
(`BidderWithLotRuns`). So no order that has begun is in a circle (`NoOrderInCircle`).
A closer waits for such an order only, and an order that has not begun for one or
for a closer that already shares the auction, which waits for nobody
(`SharersSettle`): neither is in a circle (`OnlyBidsInCircle`). Bids that wait for
keys hold none, and the holder of a key waits for a lot at most (`NoCircle`). The
bulk UPDATE may visit the lots in any order: the argument needs the lock of the
auction and the status of the lots, not their order. `AuctionCore` has one
auction; a batch with lots of several shares several auctions, and each order
still waits for bids alone once it has begun.

**The reserve** (`CoreProofs`). `ReserveInv` says that a worker's uncommitted price
is not below the committed one, and that any lot that `work.reserveMet` or a
message in hand or sent calls met would be sold as its row stands: it has a
winner, and `IsSold` is monotone in the price (`SoldAtMore`). Prices rise through
the loop and at COMMIT (`HandsRise`), and the closer uses the row it holds.

**Settlement** (`SettlementProofs`). `RealInv` adds to the types that an answer in a
payer's hands is the number of a capture. `BillInv` says where the promise of
`Billing` stands while an invoice is not doubtful: at most one payer has it in
hand, the row it has read is the current one, and captures exceed references
only between its answer and its UPDATE (`Undisputed`). Every action then maps to
a step of `Billing` or to a stutter (`BillKept`).

**One process** (`ApiProofs`). Each component's actions keep the others'
invariants (`StepsApart`), so that `InstanceInv` is a conjunction. For the
limiter, `TokensInv` says that every request granted within the window has its
token; the requests granted within any guarded window are then injected into the
bucket that the last of them found, which is smaller than the limit
(`LimitsInv`). For the sockets, `SocketsInv` says exactly which are registered,
and `GaugeInv` pays for each decrement without a removal with a socket that an
error or fan-out removed before; `GaugeErrsLow` is weaker and not inductive. For
shutdown, `ShutdownInv` says what each phase has waited for: from app.close() on
nobody is connected and whoever is served has gone (`Deserted`), which no step
undoes (`BidsOnlyEnd`, `FormsOnlyEnd`), and after pool.end() no transaction begins.

TLC checked each of these inductive invariants first, as an invariant of the run
of its component (of `TypeInv` in `SettlementProofs` only the parts that it can
evaluate).

Only model-checked:

- liveness (`RequestsAreAnswered`, `DueLotsAreSettled`, `InvoicesAreSettled`,
  `SilentClientsAreDropped`, `ShutdownCompletes`): fairness and `ENABLED` are
  out of the prover's reach;
- `WorkGoesOn`, which is stated with `ENABLED`; `HoldersAreAtWork` is the part of
  it that needs none;
- the five statements that section 6 shows to be false.

Induction over data is out of the prover's reach as well. The modules use no
recursive operators, and the proofs need it only for a least element of a set of
numbers and a best one of a set of bids, which the library's well-foundedness of
the naturals gives.


## 6. What the code does that its documents do not say

Each of these is a run that TLC finds violated.

- `in_flight`: a repeated request whose key is in flight is to be refused with
  409 (`README.md:243`, `:304`). The INSERT waits for the first request's
  transaction, so the repetition is answered with the stored response, or is
  processed if the first one failed. 409 remains for two replays of a
  completed request at the same moment.
- `proxy_answered`: the loop is described as running for every accepted bid
  (`README.md:329`); it runs for live bids only, so a proxy bid over another is
  not answered before the next live bid.
- `closed_auction`: the closing request is said to close all open and closing
  lots (`routes/auctions.ts:106`). Lots already closing are not touched, and a
  bid in the anti-snipe window opens one again after the auction is closed;
  its deadline then closes it no more, only another closing order would.
- `double_capture`: an invoice whose `payment_ref` is set is said to be skipped,
  which "prevents duplicate captures" (`README.md:346`). The test is made on
  the row as it was read, before any lock and before the call: two engines
  capture the same invoice, and the second reference replaces the first.
- `redis_down`: bids are said to be processed normally without Redis
  (`README.md:357`). The limiter in front of them needs it, and its failure is
  the bid's.

Two need no model checker. A test calls $105 the minimum next bid from $100
and expects it to be accepted (`tests/bid-processor.test.ts:151`), where the
table asks $110 (the same file, :102); that test is skipped without a database.
The proxy loop is said to end long before its cap (`processor.ts:25`) and to
repeat until no competing proxy bids remain (`:340`); two ceilings of $1,000
above a price of $15 reach the cap with the loser able to go on.

A third is in `ApiInstance`, without a run of its own. Shutdown is to "wait for
in-flight bid transactions" (`server.ts:31`), but the counter it asks
(`app.ts:15`) is never incremented. What protects a bid is `app.close()` while
its client waits, and `pool.end()` once it has a client of the pool. A bid whose
client has left and that is still before Redis or before `pool.connect()` when
the pool is ended is not waited for: it fails, with a 500 that nobody receives
(`BidFails`). No transaction is cut off by it, as `StopsCleanly` shows; a
repetition with the same key finds nothing and is processed.

Other behaviour worth knowing, on which the repository says nothing that could be
held against it: pausing an auction does not stop bids; bids are accepted after
the deadline until a closer takes the lot; a lot without an order to close
never leaves `open`; replaying `auction_events` by id ends at the amount
of the bid and not at the price its counter bids led to; `BID_ACCEPTED` carries
a `reserve_met` computed before the counter bids; a key reused on another
lot is answered with the first lot's bid (which `OneBidPerKey` and
`AnswersAreDurable` allow); an approval whose UPDATE fails is
counted as a refusal; a second signal makes `pool.end()` reject and ends the
process before Redis has quit; a bidder may be registered for an auction that
closed during the verification call; tokens of bids that the global window
refused, or whose command was lost, stay in the lot's window.

## 7. What is not modelled

- Set-up of the application and its auth hook, read-only routes, metrics,
  configuration, migrations and the seed: no state that the rest of the program
  changes or that a property could be about. `POST /bidders` is one INSERT that
  a unique constraint guards.
- The mock services: `Settlement` and `Registration` model any service behind
  the same calls.
- The expiry of a whole bucket in Redis, a second after its window, and the
  counts and times the limiter reports to the client.
- Redis losing its data, and the subscription of the broadcaster: a message that
  is lost is lost in `Publish` and `AnnounceBatch`.
- `ApiInstance` does not repeat the steps of `BidProcessor`, `LotCloser` and
  `Settlement`: a bid that is being processed, a batch and an engine's call are
  one state each there. What being cut off does to them is in those modules.
- The size of the pool and its limit of 5 seconds for a connection: a bid
  that gets none has changed nothing yet, and counts in `RateLimiter` as processed
  like any other that was refused; a registration is one that failed
  (`RegisterFails`). Clients that leave while no
  shutdown is under way: nothing depends on it.
- Failing statements of the operator's requests (a rollback leaves nothing),
  and lots that are withdrawn or inserted while the service runs (no route does
  either; lots may be withdrawn from the start).
- `forceUnlock` and `cleanupExpiredKeys` of the idempotency service: exported
  and called from nowhere, so keys do not expire.
- The skew between the application's clock, with which deadlines are compared,
  and the database's; in the model there is one clock.
- Buyer's premium, due dates, currencies, display names, wording, logging and
  metrics.
- Crashes of an instance: to the database they are the end of the connection,
  which is `StatementFails`, `CommitUnacknowledged` or `CycleFails`, and the
  session that goes on may be any instance's.

## 8. Plan

Done: all the modules that were planned, their runs, and a theorem for every
invariant and every safety action property that the passing runs check, except
`WorkGoesOn`, which needs `ENABLED`. What is left is out of the prover's reach
(section 5), or would need the program to promise more: that a paid invoice
stays paid, that a closed auction's lots stay closing, and that equal ceilings
are ranked in the order in which the lot was locked.
