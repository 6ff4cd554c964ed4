----------------------------- MODULE RateLimiter -----------------------------
(***************************************************************************)
(* The rate limiter of src/internal/ratelimit/service.ts in front of       *)
(* processBid: two sliding windows kept in Redis, one per bidder and one   *)
(* per bidder and lot, each a sorted set of the tokens of recent requests. *)
(*                                                                         *)
(* A script is atomic, but a request runs two of them, both with the time  *)
(* at which it started: global, then lot, on one connection.  Redis is     *)
(* shared by all instances, so the scripts of several requests run in any  *)
(* order.  The expiry of a key (PEXPIRE, a second after its window) takes  *)
(* only tokens that no longer count and is not modelled.                   *)
(*                                                                         *)
(*   absent -> global -> lot -> connecting -> processing -> processed      *)
(*                          \-> refusedGlobal                              *)
(*                          \-> rollback -> refusedLot                     *)
(*   global, lot, rollback -> error           when Redis does not answer   *)
(*   connecting -> error                      when the pool has ended      *)
(***************************************************************************)
EXTENDS Integers, FiniteSets

CONSTANTS
  Bids,         \* requests at POST /lots/:id/bids
  BidderOf,     \* request -> the bidder who makes it
  LotOf,        \* request -> the lot it is for
  Window,       \* RATE_LIMIT_WINDOW_MS, in ticks
  GlobalMax,    \* RATE_LIMIT_GLOBAL_MAX
  LotMax,       \* RATE_LIMIT_LOT_MAX
  MaxDelay,     \* ticks a script may run after its request started
  MaxClock,     \* bound: ticks in a behaviour
  MaxOutages    \* bound: answers of Redis that are lost or do not come

VARIABLES
  call,           \* request -> where it is, when it started, the global verdict
  globalBucket,   \* bidder -> tokens of ratelimit:global:
  lotBucket,      \* bidder and lot -> tokens of ratelimit:lot:
  clock,          \* Date.now()
  outages

bucketVars == <<globalBucket, lotBucket>>
limiterVars == <<call, globalBucket, lotBucket, clock, outages>>

ASSUME LimiterAssumption ==
  /\ IsFiniteSet(Bids)
  /\ Window \in Nat /\ MaxDelay \in Nat /\ MaxDelay < Window
  /\ GlobalMax \in Nat \ {0} /\ LotMax \in Nat \ {0}
  /\ MaxClock \in Nat /\ MaxOutages \in Nat

Limited == {BidderOf[r] : r \in Bids}
LotKey(r) == <<BidderOf[r], LotOf[r]>>
Token == [bid: Bids, at: Nat]

BidFinal == {"processed", "refusedGlobal", "refusedLot", "error", "unavailable"}
BidStage ==
  {"absent", "global", "lot", "rollback", "connecting", "processing"} \cup BidFinal

LimiterInit ==
  /\ call = [r \in Bids |-> [at |-> "absent", now |-> 0, ok |-> FALSE]]
  /\ globalBucket = [b \in Limited |-> {}]
  /\ lotBucket = [k \in {LotKey(r) : r \in Bids} |-> {}]
  /\ clock = 0
  /\ outages = 0

InRedis(r) == call[r].at \in {"global", "lot", "rollback"}

(* The script runs at most MaxDelay after Date.now() was read; time stands *)
(* still once every request is answered.                                   *)
ClockAdvances ==
  /\ clock < MaxClock
  /\ \E r \in Bids : call[r].at \notin BidFinal
  /\ \A r \in Bids : InRedis(r) => clock < call[r].now + MaxDelay
  /\ clock' = clock + 1
  /\ UNCHANGED <<call, bucketVars, outages>>

BidArrives(r) ==
  /\ call[r].at = "absent"
  /\ call' = [call EXCEPT ![r] = [at |-> "global", now |-> clock, ok |-> FALSE]]
  /\ UNCHANGED <<bucketVars, clock, outages>>

(* SLIDING_WINDOW_LUA: trim, count, and add a token if there is room.      *)
Counted(tokens, r) == {k \in tokens : k.at > call[r].now - Window}

(* Mutant: one request too many.                                           *)
AdmitsOneMore(tokens, r, max) == Cardinality(Counted(tokens, r)) <= max

Admits(tokens, r, max) == Cardinality(Counted(tokens, r)) < max

(* Mutant: the token has no name, only a time.                             *)
EvaluatedUnnamed(tokens, r, max) ==
  Counted(tokens, r) \cup IF Admits(tokens, r, max) THEN {[at |-> call[r].now]} ELSE {}

Evaluated(tokens, r, max) ==
  Counted(tokens, r)
    \cup IF Admits(tokens, r, max) THEN {[bid |-> r, at |-> call[r].now]} ELSE {}

(* The answer arrives and the request goes on as c; or the connection is   *)
(* lost after the command was carried out, and ioredis sends it again.     *)
Answered(r, c) ==
  \/ call' = [call EXCEPT ![r] = c] /\ UNCHANGED outages
  \/ outages < MaxOutages /\ outages' = outages + 1 /\ UNCHANGED call

EvalGlobal(r) ==
  LET tokens == globalBucket[BidderOf[r]] IN
  /\ call[r].at = "global"
  /\ globalBucket' = [globalBucket EXCEPT ![BidderOf[r]] = Evaluated(tokens, r, GlobalMax)]
  /\ Answered(r, [call[r] EXCEPT !.at = "lot", !.ok = Admits(tokens, r, GlobalMax)])
  /\ UNCHANGED <<lotBucket, clock>>

(* The lot's token stays when the global window is the one that refuses.   *)
EvalLot(r) ==
  LET tokens == lotBucket[LotKey(r)] IN
  /\ call[r].at = "lot"
  /\ lotBucket' = [lotBucket EXCEPT ![LotKey(r)] = Evaluated(tokens, r, LotMax)]
  /\ Answered(r, [call[r] EXCEPT
                    !.at = IF ~call[r].ok THEN "refusedGlobal"
                           ELSE IF Admits(tokens, r, LotMax) THEN "connecting" ELSE "rollback"])
  /\ UNCHANGED <<globalBucket, clock>>

(* Mutant: the token is removed by its time and not by its name.           *)
RollbackByTime(r) ==
  /\ call[r].at = "rollback"
  /\ globalBucket' = [globalBucket EXCEPT ![BidderOf[r]] =
                        {k \in @ : k.at # call[r].now}]
  /\ Answered(r, [call[r] EXCEPT !.at = "refusedLot"])
  /\ UNCHANGED <<lotBucket, clock>>

(* ZREM of the global token, since the lot's window refused.               *)
RollbackGlobal(r) ==
  /\ call[r].at = "rollback"
  /\ globalBucket' = [globalBucket EXCEPT ![BidderOf[r]] = {k \in @ : k.bid # r}]
  /\ Answered(r, [call[r] EXCEPT !.at = "refusedLot"])
  /\ UNCHANGED <<lotBucket, clock>>

(* maxRetriesPerRequest is reached: the command is rejected, and the route *)
(* answers 500.                                                            *)
RedisFails(r) ==
  /\ InRedis(r)
  /\ outages < MaxOutages
  /\ call' = [call EXCEPT ![r].at = "error"]
  /\ outages' = outages + 1
  /\ UNCHANGED <<bucketVars, clock>>

(* processBid begins its transaction on a client of the pool.              *)
BidBegins(r) ==
  /\ call[r].at = "connecting"
  /\ call' = [call EXCEPT ![r].at = "processing"]
  /\ UNCHANGED <<bucketVars, clock, outages>>

(* The pool has ended, or Redis quits: the route answers 500.              *)
BidFails(r) ==
  /\ call[r].at = "connecting" \/ InRedis(r)
  /\ call' = [call EXCEPT ![r].at = "error"]
  /\ UNCHANGED <<bucketVars, clock, outages>>

(* processBid and the answer, whatever it is: BidProcessor has its steps.  *)
BidProcessed(r) ==
  /\ call[r].at = "processing"
  /\ call' = [call EXCEPT ![r].at = "processed"]
  /\ UNCHANGED <<bucketVars, clock, outages>>

LimiterStep(r) ==
  EvalGlobal(r) \/ EvalLot(r) \/ RollbackGlobal(r) \/ RedisFails(r) \/ BidProcessed(r)

-----------------------------------------------------------------------------
(* Properties.                                                             *)

LimiterTypeOK ==
  /\ \A r \in Bids : call[r].at \in BidStage /\ call[r].now \in 0 .. clock
  /\ \A b \in Limited : globalBucket[b] \subseteq Token
  /\ \A r \in Bids : lotBucket[LotKey(r)] \subseteq Token
  /\ clock \in 0 .. MaxClock
  /\ outages \in 0 .. MaxOutages

Passed(r) == call[r].at \in {"connecting", "processing", "processed"}
Recent(r, t) == t - (Window - MaxDelay) < call[r].now /\ call[r].now <= t

(* However the scripts of requests interleave, no bidder gets more than    *)
(* GlobalMax bids through in a window, nor LotMax on a lot.  A script that *)
(* runs late is judged by an older time than a script before it, so the    *)
(* window that is guarded is shorter by the delay.                         *)
WithinLimit ==
  \A r \in Bids : Passed(r) =>
    LET others == {s \in Bids : Passed(s) /\ BidderOf[s] = BidderOf[r]
                                /\ Recent(s, call[r].now)} IN
    /\ Cardinality(others) <= GlobalMax
    /\ Cardinality({s \in others : LotOf[s] = LotOf[r]}) <= LotMax

(* A bid that went through counts in both windows as long as it is recent, *)
(* whatever was trimmed or rolled back meanwhile; a bid that the lot's     *)
(* window refused does not count against the bidder's other lots.          *)
BucketsRemember ==
  \A r \in Bids :
    LET token == [bid |-> r, at |-> call[r].now] IN
    /\ Passed(r) /\ call[r].now > clock - Window =>
         token \in globalBucket[BidderOf[r]] \cap lotBucket[LotKey(r)]
    /\ call[r].at = "refusedLot" => token \notin globalBucket[BidderOf[r]]

(* src/README.md: "If Redis goes down: bids still process normally".  The  *)
(* rate limiter does not let a bid through without Redis.                  *)
BidsProcessWithoutRedis == \A r \in Bids : call[r].at # "error"
=============================================================================
