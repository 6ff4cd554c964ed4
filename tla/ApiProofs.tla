------------------------------ MODULE ApiProofs ------------------------------
(***************************************************************************)
(* Proofs about ApiInstance and the modules it is made of: RateLimiter,    *)
(* Broadcaster, Registration and the shutdown.  Each component has an      *)
(* inductive invariant of its own; the visitors of an instance share no    *)
(* state but the phase of the shutdown, so that the components' invariants *)
(* are kept by their own steps and by everybody else's.                    *)
(***************************************************************************)
EXTENDS ApiInstance, FiniteSetTheorems, TLAPS

-----------------------------------------------------------------------------
(* The rate limiter.                                                       *)

Call == [at: BidStage, now: Nat, ok: BOOLEAN]
LotKeys == {LotKey(r) : r \in Bids}
TokenOf(r) == [bid |-> r, at |-> call[r].now]

(* The types, and the delay of a script.                                   *)
CallsInv ==
  /\ call \in [Bids -> Call]
  /\ globalBucket \in [Limited -> SUBSET Token]
  /\ lotBucket \in [LotKeys -> SUBSET Token]
  /\ clock \in 0 .. MaxClock
  /\ outages \in 0 .. MaxOutages
  /\ \A r \in Bids : /\ call[r].now <= clock
                     /\ InRedis(r) => clock <= call[r].now + MaxDelay

(* A request the global window has let through, and did not lose again.    *)
Granted(r) == Passed(r) \/ (call[r].at = "lot" /\ call[r].ok)

(* A token is that of a request which has been made, with its time; the    *)
(* windows hold those of the requests they let through, while they count.  *)
TokensInv ==
  /\ \A b \in Limited : \A k \in globalBucket[b] :
       k = TokenOf(k.bid) /\ call[k.bid].at # "absent"
  /\ \A q \in LotKeys : \A k \in lotBucket[q] :
       k = TokenOf(k.bid) /\ call[k.bid].at # "absent"
  /\ \A r \in Bids : Granted(r) /\ call[r].now > clock - Window =>
       TokenOf(r) \in globalBucket[BidderOf[r]]
  /\ \A r \in Bids : Passed(r) /\ call[r].now > clock - Window =>
       TokenOf(r) \in lotBucket[LotKey(r)]
  /\ \A r \in Bids : call[r].at = "refusedLot" =>
       TokenOf(r) \notin globalBucket[BidderOf[r]]

(* The requests let through in the guarded window that ends at t.          *)
GrantedIn(b, t) == {s \in Bids : Granted(s) /\ BidderOf[s] = b /\ Recent(s, t)}
PassedIn(q, t) == {s \in Bids : Passed(s) /\ LotKey(s) = q /\ Recent(s, t)}

LimitsInv ==
  /\ \A b \in Limited : \A t \in 0 .. MaxClock : Cardinality(GrantedIn(b, t)) <= GlobalMax
  /\ \A q \in LotKeys : \A t \in 0 .. MaxClock : Cardinality(PassedIn(q, t)) <= LotMax

LimiterInv == CallsInv /\ TokensInv /\ LimitsInv

-----------------------------------------------------------------------------
(* The broadcaster.                                                        *)

(* A connection that nobody has removed yet.                               *)
Kept(s) == Up(s) /\ ~sock[s].failed /\ ~sock[s].swept
KeptSockets == {s \in Sockets : Kept(s)}

(* removeConnection was called a second time by the error event of a       *)
(* socket that fan-out had removed, or by the close event of one that      *)
(* either had removed: at most so often did the gauge fall too far.        *)
ErredAfterSweep == {s \in Sockets : sock[s].failed /\ sock[s].swept}
ClosedAfterRemoval ==
  {s \in Sockets : sock[s].state = "closed" /\ (sock[s].failed \/ sock[s].swept)}

SocketsInv ==
  /\ BroadcasterTypeOK
  /\ \A s \in Sockets : sock[s].state \in {"absent", "open"} => ~sock[s].failed /\ ~sock[s].swept
  /\ \A a \in Rooms : connections[a] = {s \in Sockets : RoomOf[s] = a /\ Kept(s)}
  /\ \A s \in Sockets : Kept(s) => RoomOf[s] \in mapped
GaugeInv ==
  /\ gauge <= Cardinality(KeptSockets)
  /\ gauge >= Cardinality(KeptSockets) - Cardinality(ErredAfterSweep)
                                       - Cardinality(ClosedAfterRemoval)

-----------------------------------------------------------------------------
(* Registration, and the shutdown.                                         *)

(* A form that is being stored has its verdict.                            *)
Judged == {"connecting", "updating", "inserting"}
FormsInv ==
  /\ RegistrationTypeOK
  /\ \A f \in Applications : form[f].at \in Judged => form[f].verdict # Null

(* A client of the pool is in use.                                         *)
InTransaction ==
  \/ \E r \in Bids : BidInTransaction(r)
  \/ \E f \in Applications : FormInTransaction(f)
  \/ engine = "writing"

(* Nobody is connected, and who is still served has gone.                  *)
Deserted == Served \subseteq gone /\ \A s \in Sockets : ~Up(s)

Stopping == phase \notin {"running", "closing"}
PoolHasEnded == phase \in {"quitting", "exited"}

(* Once app.close() is over the server is deserted, once the closer's last *)
(* iteration is over no batch of lots is open, and once the pool has ended *)
(* no transaction is.                                                      *)
ShutdownInv ==
  /\ phase \in {"running", "closing", "stopping", "ending", "quitting", "exited", "crashed"}
  /\ signals \subseteq Signal
  /\ closer \in {"waiting", "settling"}
  /\ engine \in {"waiting", "calling", "writing"}
  /\ gone \subseteq Bids \cup Applications
  /\ Stopping => Deserted
  /\ ~PoolIsOpen => closer = "waiting"
  /\ PoolHasEnded => ~InTransaction

-----------------------------------------------------------------------------
(* The limiter's proofs.                                                   *)

(* Where a request is, and that final places are not in Redis.             *)
LEMMA Places ==
  /\ BidStage = {"absent", "global", "lot", "rollback", "connecting", "processing",
                 "processed", "refusedGlobal", "refusedLot", "error", "unavailable"}
  /\ \A r \in Bids : BidderOf[r] \in Limited /\ LotKey(r) \in LotKeys
BY DEF BidStage, BidFinal, Limited, LotKeys

(* The script keeps the tokens that may still count, adds no other than    *)
(* the request's own, and adds that one when it admits the request.        *)
LEMMA ScriptFacts ==
  ASSUME CallsInv, NEW r \in Bids, NEW tokens \in SUBSET Token, NEW max
  PROVE  /\ Evaluated(tokens, r, max) \in SUBSET Token
         /\ \A k \in Evaluated(tokens, r, max) : k \in tokens \/ k = TokenOf(r)
         /\ \A k \in tokens : k.at > clock - Window => k \in Evaluated(tokens, r, max)
         /\ Admits(tokens, r, max) => TokenOf(r) \in Evaluated(tokens, r, max)
<1>1. call[r].now \in Nat /\ clock \in Nat /\ Window \in Nat /\ call[r].now <= clock
  BY LimiterAssumption DEF CallsInv, Call
<1>2. TokenOf(r) \in Token
  BY <1>1 DEF TokenOf, Token
<1>3. \A k \in tokens : k.at \in Nat
  BY DEF Token
<1>4. \A k \in tokens : k.at > clock - Window => k \in Counted(tokens, r)
  BY <1>1, <1>3 DEF Counted
<1>5. Counted(tokens, r) \subseteq tokens
  BY DEF Counted
<1>. QED
  BY <1>2, <1>4, <1>5 DEF Evaluated, TokenOf

(* A window that admits a request has room for it: if each of the requests *)
(* of G has a token that it counts, they are with r no more than max.      *)
LEMMA RoomForOne ==
  ASSUME NEW r \in Bids, NEW tokens \in SUBSET Token, NEW max \in Nat,
         \A k \in tokens : k = TokenOf(k.bid),
         Admits(tokens, r, max),
         NEW G \in SUBSET Bids,
         \A s \in G : TokenOf(s) \in Counted(tokens, r)
  PROVE  /\ IsFiniteSet(G \cup {r})
         /\ Cardinality(G \cup {r}) <= max
<1>. DEFINE C == Counted(tokens, r)
            owner == [k \in C |-> k.bid]
            token == [s \in G |-> TokenOf(s)]
<1>1. C \subseteq tokens
  BY DEF Counted
<1>2. owner \in Injection(C, Bids)
  <2>1. \A k \in C : k.bid \in Bids
    BY <1>1 DEF Token
  <2>2. \A k, l \in C : k.bid = l.bid => k = l
    BY <1>1
  <2>. QED BY <2>1, <2>2 DEF Injection, IsInjective
<1>3. IsFiniteSet(Bids)
  BY LimiterAssumption
<1>4. IsFiniteSet(C)
  BY <1>2, <1>3, FS_Injection
<1>5. token \in Injection(G, C)
  <2>1. \A s, u \in G : TokenOf(s) = TokenOf(u) => s = u
    BY DEF TokenOf
  <2>. QED BY <2>1 DEF Injection, IsInjective
<1>6. IsFiniteSet(G) /\ Cardinality(G) <= Cardinality(C)
  BY <1>4, <1>5, FS_Injection
<1>7. Cardinality(G) \in Nat /\ Cardinality(C) \in Nat
  BY <1>4, <1>6, FS_CardinalityType
<1>8. Cardinality(C) < max
  BY DEF Admits
<1>9. IsFiniteSet(G \cup {r}) /\ Cardinality(G \cup {r}) <= Cardinality(G) + 1
  <2>1. /\ IsFiniteSet(G \cup {r})
        /\ Cardinality(G \cup {r}) = IF r \in G THEN Cardinality(G) ELSE Cardinality(G) + 1
    BY <1>6, FS_AddElement
  <2>. QED BY <1>7, <2>1
<1>10. Cardinality(G \cup {r}) \in Nat
  BY <1>9, FS_CardinalityType
<1>. QED BY <1>6, <1>7, <1>8, <1>9, <1>10

(* A step of the instance, as the limiter sees it.                         *)
Refused(r) ==
  /\ call[r].at = "absent"
  /\ call' = [call EXCEPT ![r].at = "unavailable"]
  /\ UNCHANGED <<bucketVars, clock, outages>>

LimiterMoves ==
  \/ \E r \in Bids : BidArrives(r) \/ Refused(r) \/ LimiterStep(r) \/ BidBegins(r) \/ BidFails(r)
  \/ ClockAdvances
  \/ UNCHANGED limiterVars

(* An answer of Redis, or its loss, moves nothing but the request's place. *)
LEMMA AnswerKept ==
  ASSUME CallsInv, NEW r \in Bids, InRedis(r), NEW c \in Call, c.now = call[r].now,
         Answered(r, c), UNCHANGED clock
  PROVE  /\ call' \in [Bids -> Call] /\ clock' \in 0 .. MaxClock
         /\ outages' \in 0 .. MaxOutages
         /\ \A s \in Bids : /\ call'[s].now <= clock'
                            /\ InRedis(s)' => clock' <= call'[s].now + MaxDelay
<1>1. CASE call' = [call EXCEPT ![r] = c] /\ UNCHANGED outages
  BY <1>1 DEF CallsInv, InRedis
<1>2. CASE outages < MaxOutages /\ outages' = outages + 1 /\ UNCHANGED call
  BY <1>2, LimiterAssumption DEF CallsInv, InRedis
<1>. QED BY <1>1, <1>2 DEF Answered

(* Every step keeps the types, and a request's time.                       *)
LEMMA CallsKept ==
  ASSUME CallsInv, LimiterMoves
  PROVE  CallsInv'
<1>. USE LimiterAssumption, Places
<1>. DEFINE T == /\ call' \in [Bids -> Call] /\ clock' \in 0 .. MaxClock
                 /\ outages' \in 0 .. MaxOutages
                 /\ \A r \in Bids : /\ call'[r].now <= clock'
                                    /\ InRedis(r)' => clock' <= call'[r].now + MaxDelay
<1>1. ASSUME NEW r \in Bids, BidArrives(r) PROVE CallsInv'
  BY <1>1 DEF CallsInv, Call, BidArrives, bucketVars, InRedis
<1>2. ASSUME NEW r \in Bids, Refused(r) PROVE CallsInv'
  BY <1>2 DEF CallsInv, Call, Refused, bucketVars, InRedis
<1>3. ASSUME NEW r \in Bids, EvalGlobal(r) PROVE CallsInv'
  <2>1. globalBucket' \in [Limited -> SUBSET Token]
    <3>1. Evaluated(globalBucket[BidderOf[r]], r, GlobalMax) \in SUBSET Token
      BY ScriptFacts DEF CallsInv
    <3>. QED BY <1>3, <3>1 DEF CallsInv, EvalGlobal
  <2>2. T
    <3>. DEFINE c == [call[r] EXCEPT !.at = "lot", !.ok = Admits(globalBucket[BidderOf[r]], r, GlobalMax)]
    <3>1. c \in Call /\ c.now = call[r].now
      <4>1. Admits(globalBucket[BidderOf[r]], r, GlobalMax) \in BOOLEAN
        BY DEF Admits
      <4>. QED BY <4>1 DEF CallsInv, Call
    <3>2. InRedis(r) /\ Answered(r, c) /\ UNCHANGED clock
      BY <1>3 DEF EvalGlobal, InRedis
    <3>. HIDE DEF c
    <3>. QED BY <3>1, <3>2, AnswerKept
  <2>. QED BY <1>3, <2>1, <2>2 DEF CallsInv, EvalGlobal
<1>4. ASSUME NEW r \in Bids, EvalLot(r) PROVE CallsInv'
  <2>1. lotBucket' \in [LotKeys -> SUBSET Token]
    <3>1. Evaluated(lotBucket[LotKey(r)], r, LotMax) \in SUBSET Token
      BY ScriptFacts DEF CallsInv
    <3>. QED BY <1>4, <3>1 DEF CallsInv, EvalLot
  <2>2. T
    <3>. DEFINE c == [call[r] EXCEPT
              !.at = IF ~call[r].ok THEN "refusedGlobal"
                     ELSE IF Admits(lotBucket[LotKey(r)], r, LotMax)
                          THEN "connecting" ELSE "rollback"]
    <3>1. c \in Call /\ c.now = call[r].now
      BY DEF CallsInv, Call
    <3>2. InRedis(r) /\ Answered(r, c) /\ UNCHANGED clock
      BY <1>4 DEF EvalLot, InRedis
    <3>. HIDE DEF c
    <3>. QED BY <3>1, <3>2, AnswerKept
  <2>. QED BY <1>4, <2>1, <2>2 DEF CallsInv, EvalLot
<1>5. ASSUME NEW r \in Bids, RollbackGlobal(r) PROVE CallsInv'
  <2>1. globalBucket' \in [Limited -> SUBSET Token]
    BY <1>5 DEF CallsInv, RollbackGlobal
  <2>2. T
    <3>. DEFINE c == [call[r] EXCEPT !.at = "refusedLot"]
    <3>1. c \in Call /\ c.now = call[r].now
      BY DEF CallsInv, Call
    <3>2. InRedis(r) /\ Answered(r, c) /\ UNCHANGED clock
      BY <1>5 DEF RollbackGlobal, InRedis
    <3>. HIDE DEF c
    <3>. QED BY <3>1, <3>2, AnswerKept
  <2>. QED BY <1>5, <2>1, <2>2 DEF CallsInv, RollbackGlobal
<1>6. ASSUME NEW r \in Bids, RedisFails(r) PROVE CallsInv'
  BY <1>6 DEF CallsInv, Call, RedisFails, bucketVars, InRedis
<1>7. ASSUME NEW r \in Bids, BidProcessed(r) PROVE CallsInv'
  BY <1>7 DEF CallsInv, Call, BidProcessed, bucketVars, InRedis
<1>10. ASSUME NEW r \in Bids, BidBegins(r) \/ BidFails(r) PROVE CallsInv'
  BY <1>10 DEF CallsInv, Call, BidBegins, BidFails, bucketVars, InRedis
<1>8. CASE ClockAdvances
  BY <1>8 DEF CallsInv, Call, ClockAdvances, bucketVars, InRedis
<1>9. CASE UNCHANGED limiterVars
  BY <1>9 DEF CallsInv, limiterVars, bucketVars, InRedis
<1>. QED
  BY <1>1, <1>2, <1>3, <1>4, <1>5, <1>6, <1>7, <1>8, <1>9, <1>10 DEF LimiterMoves, LimiterStep

(* What a step that lets nobody through does to the calls.                 *)
LetsNobodyThrough ==
  \A r \in Bids : /\ call[r].at # "absent" => call'[r].now = call[r].now /\ call'[r].at # "absent"
                  /\ Granted(r)' => Granted(r)
                  /\ Passed(r)' => Passed(r)

(* The limits stand while nobody is let through.                           *)
LEMMA GlobalLimitStands ==
  ASSUME LimitsInv, NEW b \in Limited, NEW t \in 0 .. MaxClock,
         \A s \in Bids : Granted(s)' => Granted(s) /\ call'[s].now = call[s].now
  PROVE  Cardinality(GrantedIn(b, t)') <= GlobalMax
<1>1. GrantedIn(b, t)' \subseteq GrantedIn(b, t)
  BY DEF GrantedIn, Recent
<1>2. GrantedIn(b, t) \subseteq Bids /\ IsFiniteSet(GrantedIn(b, t))
  BY LimiterAssumption, FS_Subset DEF GrantedIn
<1>3. IsFiniteSet(GrantedIn(b, t)') /\ Cardinality(GrantedIn(b, t)') <= Cardinality(GrantedIn(b, t))
  BY <1>1, <1>2, FS_Subset
<1>4. Cardinality(GrantedIn(b, t)') \in Nat /\ Cardinality(GrantedIn(b, t)) \in Nat
  BY <1>2, <1>3, FS_CardinalityType
<1>. QED BY <1>3, <1>4, LimiterAssumption DEF LimitsInv

(* Where no request is let through anew, the bids let through on a lot     *)
(* stay within its limit, in every window.                                 *)
LEMMA LotLimitStands ==
  ASSUME LimitsInv, NEW q \in LotKeys, NEW t \in 0 .. MaxClock,
         \A s \in Bids : Passed(s)' => Passed(s) /\ call'[s].now = call[s].now
  PROVE  Cardinality(PassedIn(q, t)') <= LotMax
<1>1. PassedIn(q, t)' \subseteq PassedIn(q, t)
  BY DEF PassedIn, Recent, LotKey
<1>2. PassedIn(q, t) \subseteq Bids /\ IsFiniteSet(PassedIn(q, t))
  BY LimiterAssumption, FS_Subset DEF PassedIn
<1>3. IsFiniteSet(PassedIn(q, t)') /\ Cardinality(PassedIn(q, t)') <= Cardinality(PassedIn(q, t))
  BY <1>1, <1>2, FS_Subset
<1>4. Cardinality(PassedIn(q, t)') \in Nat /\ Cardinality(PassedIn(q, t)) \in Nat
  BY <1>2, <1>3, FS_CardinalityType
<1>. QED BY <1>3, <1>4, LimiterAssumption DEF LimitsInv

(* Both limits stand when a step lets nobody through.                      *)
LEMMA LimitsStand ==
  ASSUME LimitsInv, LetsNobodyThrough
  PROVE  LimitsInv'
<1>1. \A s \in Bids : /\ Granted(s)' => Granted(s) /\ call'[s].now = call[s].now
                      /\ Passed(s)' => Passed(s) /\ call'[s].now = call[s].now
  BY DEF LetsNobodyThrough, Granted, Passed
<1>2. \A b \in Limited : \A t \in 0 .. MaxClock : Cardinality(GrantedIn(b, t)') <= GlobalMax
  BY <1>1, GlobalLimitStands
<1>3. \A q \in LotKeys : \A t \in 0 .. MaxClock : Cardinality(PassedIn(q, t)') <= LotMax
  BY <1>1, LotLimitStands
<1>. QED BY <1>2, <1>3 DEF LimitsInv

(* The tokens stand while the windows are untouched, too.                  *)
LEMMA TokensStand ==
  ASSUME CallsInv, CallsInv', TokensInv, LetsNobodyThrough, UNCHANGED bucketVars,
         clock <= clock', \A r \in Bids : call'[r].at = "refusedLot" => call[r].at = "refusedLot"
  PROVE  TokensInv'
<1>1. \A r \in Bids : Granted(r) => call'[r].now = call[r].now
  BY DEF LetsNobodyThrough, Granted, Passed
<1>2. \A r \in Bids : call[r].at # "absent" => TokenOf(r)' = TokenOf(r) /\ call'[r].at # "absent"
  BY DEF LetsNobodyThrough, TokenOf
<1>3. /\ clock \in Nat /\ clock' \in Nat /\ Window \in Nat
      /\ \A r \in Bids : call[r].now \in Nat /\ call'[r].now \in Nat
  BY LimiterAssumption DEF CallsInv, Call
<1>4. /\ \A b \in Limited : \A k \in globalBucket[b] : k.bid \in Bids
      /\ \A q \in LotKeys : \A k \in lotBucket[q] : k.bid \in Bids
  BY DEF CallsInv, Token
<1>5. /\ globalBucket' = globalBucket /\ lotBucket' = lotBucket
      /\ \A r \in Bids : LotKey(r)' = LotKey(r)
  BY DEF bucketVars, LotKey
<1>6. /\ \A b \in Limited : \A k \in globalBucket'[b] :
           k = TokenOf(k.bid)' /\ call'[k.bid].at # "absent"
      /\ \A q \in LotKeys : \A k \in lotBucket'[q] :
           k = TokenOf(k.bid)' /\ call'[k.bid].at # "absent"
  BY <1>2, <1>4, <1>5 DEF TokensInv
<1>7. \A r \in Bids : Granted(r)' /\ call'[r].now > clock' - Window =>
        Granted(r) /\ call[r].now > clock - Window /\ TokenOf(r)' = TokenOf(r)
  BY <1>1, <1>2, <1>3 DEF LetsNobodyThrough, Granted, Passed
<1>8. \A r \in Bids : Passed(r)' /\ call'[r].now > clock' - Window =>
        Passed(r) /\ call[r].now > clock - Window /\ TokenOf(r)' = TokenOf(r)
  BY <1>7 DEF LetsNobodyThrough, Granted
<1>9. \A r \in Bids : call'[r].at = "refusedLot" =>
        call[r].at = "refusedLot" /\ TokenOf(r)' = TokenOf(r)
  BY <1>2
<1>. QED BY <1>5, <1>6, <1>7, <1>8, <1>9, Places DEF TokensInv

(* A script adds its token to the global window, and its answer may say    *)
(* that the request goes on.                                               *)
LEMMA GlobalScript ==
  ASSUME CallsInv, TokensInv, LimitsInv, NEW r \in Bids, EvalGlobal(r)
  PROVE  TokensInv' /\ LimitsInv'
<1>. DEFINE b == BidderOf[r]
            old == globalBucket[b]
            new == Evaluated(old, r, GlobalMax)
            admitted == Admits(old, r, GlobalMax)
<1>1. /\ b \in Limited /\ old \in SUBSET Token
      /\ globalBucket' = [globalBucket EXCEPT ![b] = new]
      /\ lotBucket' = lotBucket /\ clock' = clock
      /\ \A s \in Bids : LotKey(s)' = LotKey(s)
  BY Places DEF CallsInv, EvalGlobal, LotKey
<1>2. \A s \in Bids : /\ call'[s].now = call[s].now
                      /\ call[s].at # "absent" <=> call'[s].at # "absent"
                      /\ call[s].at = "refusedLot" <=> call'[s].at = "refusedLot"
                      /\ Passed(s)' <=> Passed(s)
                      /\ Granted(s)' => Granted(s) \/ (s = r /\ admitted)
  <2>. HIDE DEF admitted
  <2>1. \/ call' = [call EXCEPT ![r] = [call[r] EXCEPT !.at = "lot", !.ok = admitted]]
        \/ call' = call
    BY DEF EvalGlobal, Answered, admitted
  <2>2. call[r].at = "global" /\ call \in [Bids -> Call]
    BY DEF EvalGlobal, CallsInv
  <2>3. CASE call' = [call EXCEPT ![r] = [call[r] EXCEPT !.at = "lot", !.ok = admitted]]
    <3>1. \A s \in Bids : s # r => call'[s] = call[s]
      BY <2>2, <2>3
    <3>2. call'[r].at = "lot" /\ call'[r].now = call[r].now /\ (call'[r].ok <=> admitted)
      BY <2>2, <2>3 DEF Call
    <3>. QED BY <2>2, <3>1, <3>2 DEF Passed, Granted
  <2>4. CASE call' = call
    BY <2>4 DEF Passed, Granted
  <2>. QED BY <2>1, <2>3, <2>4
<1>3. \A s \in Bids : TokenOf(s)' = TokenOf(s)
  BY <1>2 DEF TokenOf
<1>4. /\ \A k \in new : k \in old \/ k = TokenOf(r)
      /\ \A k \in old : k.at > clock - Window => k \in new
      /\ admitted => TokenOf(r) \in new
  BY <1>1, ScriptFacts
<1>5. /\ \A a \in Limited : \A k \in globalBucket[a] : k.bid \in Bids
      /\ \A q \in LotKeys : \A k \in lotBucket[q] : k.bid \in Bids
  BY DEF CallsInv, Token
<1>6. call[r].at = "global" /\ TokenOf(r).bid = r
  BY DEF EvalGlobal, TokenOf
<1>. HIDE DEF new, old, admitted, b
<1>7. globalBucket'[b] = new /\ globalBucket[b] = old /\ b = BidderOf[r]
      /\ \A a \in Limited : a # b => globalBucket'[a] = globalBucket[a]
  BY <1>1 DEF CallsInv, old, b
<1>8. TokensInv'
  <2>1. \A a \in Limited : \A k \in globalBucket'[a] :
          k = TokenOf(k.bid)' /\ call'[k.bid].at # "absent"
    <3>1. \A k \in new : k = TokenOf(k.bid) /\ call[k.bid].at # "absent" /\ k.bid \in Bids
      BY <1>1, <1>4, <1>5, <1>6, <1>7 DEF TokensInv
    <3>2. ASSUME NEW a \in Limited, NEW k \in globalBucket'[a]
          PROVE  k = TokenOf(k.bid) /\ call[k.bid].at # "absent" /\ k.bid \in Bids
      BY <3>1, <1>5, <1>7 DEF TokensInv
    <3>. QED BY <3>2, <1>2, <1>3
  <2>2. \A q \in LotKeys : \A k \in lotBucket'[q] :
          k = TokenOf(k.bid)' /\ call'[k.bid].at # "absent"
    BY <1>1, <1>2, <1>3, <1>5 DEF TokensInv
  <2>3. \A s \in Bids : Granted(s)' /\ call'[s].now > clock' - Window =>
          TokenOf(s)' \in globalBucket'[BidderOf[s]]
    <3>1. ASSUME NEW s \in Bids, Granted(s), call[s].now > clock - Window
          PROVE  TokenOf(s) \in globalBucket'[BidderOf[s]]
      <4>1. TokenOf(s) \in globalBucket[BidderOf[s]] /\ TokenOf(s).at = call[s].now
        BY <3>1 DEF TokensInv, TokenOf
      <4>. QED BY <4>1, <3>1, <1>4, <1>7, Places
    <3>. QED BY <3>1, <1>1, <1>2, <1>3, <1>4, <1>7
  <2>4. \A s \in Bids : Passed(s)' /\ call'[s].now > clock' - Window =>
          TokenOf(s)' \in lotBucket'[LotKey(s)]
    BY <1>1, <1>2, <1>3 DEF TokensInv
  <2>5. \A s \in Bids : call'[s].at = "refusedLot" => TokenOf(s)' \notin globalBucket'[BidderOf[s]]
    <3>1. \A s \in Bids : call[s].at = "refusedLot" => TokenOf(s) # TokenOf(r)
      BY <1>6 DEF TokenOf
    <3>. QED BY <3>1, <1>2, <1>3, <1>4, <1>7, Places DEF TokensInv
  <2>. QED BY <2>1, <2>2, <2>3, <2>4, <2>5, <1>1 DEF TokensInv
<1>9. LimitsInv'
  <2>1. ASSUME NEW a \in Limited, NEW t \in 0 .. MaxClock
        PROVE  Cardinality(GrantedIn(a, t)') <= GlobalMax
    <3>1. CASE \A s \in Bids : Granted(s)' => Granted(s)
      BY <3>1, <1>2, GlobalLimitStands
    <3>2. CASE ~ \A s \in Bids : Granted(s)' => Granted(s)
      <4>1. admitted
        BY <3>2, <1>2
      <4>. DEFINE G == GrantedIn(a, t)
      <4>2. CASE r \in G' /\ a = b
        <5>1. G' \subseteq G \cup {r}
          BY <1>2 DEF GrantedIn, Recent
        <5>2. ASSUME NEW s \in G
              PROVE  TokenOf(s) \in Counted(old, r)
          <6>1. /\ s \in Bids /\ Granted(s) /\ BidderOf[s] = b
                /\ t - (Window - MaxDelay) < call[s].now
            BY <4>2 DEF GrantedIn, Recent
          <6>2. call[r].now <= t /\ call[r].now <= clock /\ clock <= call[r].now + MaxDelay
            BY <4>2, <1>2, <1>6 DEF GrantedIn, Recent, CallsInv, InRedis
          <6>3. /\ call[s].now \in Nat /\ call[r].now \in Nat /\ clock \in Nat /\ t \in Nat
                /\ Window \in Nat /\ MaxDelay \in Nat
            BY <6>1, LimiterAssumption DEF CallsInv, Call
          <6>4. call[s].now > clock - Window /\ call[s].now > call[r].now - Window
            BY <6>1, <6>2, <6>3
          <6>5. TokenOf(s) \in old
            BY <6>1, <6>4, <1>7 DEF TokensInv
          <6>. QED BY <6>4, <6>5 DEF Counted, TokenOf
        <5>3. /\ G \in SUBSET Bids /\ GlobalMax \in Nat
              /\ \A k \in old : k = TokenOf(k.bid)
          BY <1>1, <1>7, LimiterAssumption DEF GrantedIn, TokensInv
        <5>4. IsFiniteSet(G \cup {r}) /\ Cardinality(G \cup {r}) <= GlobalMax
          BY <4>1, <5>2, <5>3, <1>1, RoomForOne DEF admitted
        <5>5. IsFiniteSet(G') /\ Cardinality(G') <= Cardinality(G \cup {r})
          BY <5>1, <5>4, FS_Subset
        <5>6. Cardinality(G') \in Nat /\ Cardinality(G \cup {r}) \in Nat /\ GlobalMax \in Nat
          BY <5>3, <5>4, <5>5, FS_CardinalityType
        <5>. HIDE DEF G
        <5>7. Cardinality(G') <= GlobalMax
          BY <5>4, <5>5, <5>6
        <5>. QED BY <5>7 DEF G
      <4>3. CASE ~(r \in G' /\ a = b)
        <5>1. G' \subseteq G
          BY <4>3, <1>2, <1>7 DEF GrantedIn, Recent
        <5>2. IsFiniteSet(G)
          BY LimiterAssumption, FS_Subset DEF GrantedIn
        <5>3. IsFiniteSet(G') /\ Cardinality(G') <= Cardinality(G)
          BY <5>1, <5>2, FS_Subset
        <5>4. Cardinality(G') \in Nat /\ Cardinality(G) \in Nat
          BY <5>2, <5>3, FS_CardinalityType
        <5>5. Cardinality(G) <= GlobalMax
          BY DEF LimitsInv
        <5>. HIDE DEF G
        <5>6. Cardinality(G') <= GlobalMax
          BY <5>3, <5>4, <5>5, LimiterAssumption
        <5>. QED BY <5>6 DEF G
      <4>. QED BY <4>2, <4>3
    <3>. QED BY <3>1, <3>2
  <2>2. \A q \in LotKeys : \A t \in 0 .. MaxClock : Cardinality(PassedIn(q, t)') <= LotMax
    BY <1>2, LotLimitStands
  <2>. QED BY <2>1, <2>2 DEF LimitsInv
<1>. QED BY <1>8, <1>9

(* The same for the window of the lot, which only a granted request passes. *)
LEMMA LotScript ==
  ASSUME CallsInv, TokensInv, LimitsInv, NEW r \in Bids, EvalLot(r)
  PROVE  TokensInv' /\ LimitsInv'
<1>. DEFINE q == LotKey(r)
            old == lotBucket[q]
            new == Evaluated(old, r, LotMax)
            admitted == Admits(old, r, LotMax)
<1>1. /\ q \in LotKeys /\ old \in SUBSET Token
      /\ lotBucket' = [lotBucket EXCEPT ![q] = new]
      /\ globalBucket' = globalBucket /\ clock' = clock
      /\ \A s \in Bids : LotKey(s)' = LotKey(s)
  BY Places DEF CallsInv, EvalLot, LotKey
<1>2. \A s \in Bids : /\ call'[s].now = call[s].now
                      /\ call[s].at # "absent" <=> call'[s].at # "absent"
                      /\ call[s].at = "refusedLot" <=> call'[s].at = "refusedLot"
                      /\ Granted(s)' => Granted(s)
                      /\ Passed(s)' => Passed(s) \/ (s = r /\ admitted)
  <2>. DEFINE at == IF ~call[r].ok THEN "refusedGlobal"
                    ELSE IF admitted THEN "connecting" ELSE "rollback"
  <2>. HIDE DEF admitted
  <2>1. call' = [call EXCEPT ![r] = [call[r] EXCEPT !.at = at]] \/ call' = call
    BY DEF EvalLot, Answered, admitted
  <2>2. call[r].at = "lot" /\ call \in [Bids -> Call]
    BY DEF EvalLot, CallsInv
  <2>3. CASE call' = [call EXCEPT ![r] = [call[r] EXCEPT !.at = at]]
    <3>1. \A s \in Bids : s # r => call'[s] = call[s]
      BY <2>2, <2>3
    <3>2. call'[r].at = at /\ call'[r].now = call[r].now
      BY <2>2, <2>3 DEF Call
    <3>. QED BY <2>2, <3>1, <3>2 DEF Passed, Granted
  <2>4. CASE call' = call
    BY <2>4 DEF Passed, Granted
  <2>. QED BY <2>1, <2>3, <2>4
<1>3. \A s \in Bids : TokenOf(s)' = TokenOf(s)
  BY <1>2 DEF TokenOf
<1>4. /\ \A k \in new : k \in old \/ k = TokenOf(r)
      /\ \A k \in old : k.at > clock - Window => k \in new
      /\ admitted => TokenOf(r) \in new
  BY <1>1, ScriptFacts
<1>5. /\ \A a \in Limited : \A k \in globalBucket[a] : k.bid \in Bids
      /\ \A p \in LotKeys : \A k \in lotBucket[p] : k.bid \in Bids
  BY DEF CallsInv, Token
<1>6. call[r].at = "lot" /\ TokenOf(r).bid = r
  BY DEF EvalLot, TokenOf
<1>. HIDE DEF new, old, admitted, q
<1>7. lotBucket'[q] = new /\ lotBucket[q] = old /\ q = LotKey(r)
      /\ \A p \in LotKeys : p # q => lotBucket'[p] = lotBucket[p]
  BY <1>1 DEF CallsInv, old, q
<1>8. TokensInv'
  <2>1. \A p \in LotKeys : \A k \in lotBucket'[p] :
          k = TokenOf(k.bid)' /\ call'[k.bid].at # "absent"
    <3>1. \A k \in new : k = TokenOf(k.bid) /\ call[k.bid].at # "absent" /\ k.bid \in Bids
      BY <1>1, <1>4, <1>5, <1>6, <1>7 DEF TokensInv
    <3>2. ASSUME NEW p \in LotKeys, NEW k \in lotBucket'[p]
          PROVE  k = TokenOf(k.bid) /\ call[k.bid].at # "absent" /\ k.bid \in Bids
      BY <3>1, <1>5, <1>7 DEF TokensInv
    <3>. QED BY <3>2, <1>2, <1>3
  <2>2. \A a \in Limited : \A k \in globalBucket'[a] :
          k = TokenOf(k.bid)' /\ call'[k.bid].at # "absent"
    BY <1>1, <1>2, <1>3, <1>5 DEF TokensInv
  <2>3. \A s \in Bids : Granted(s)' /\ call'[s].now > clock' - Window =>
          TokenOf(s)' \in globalBucket'[BidderOf[s]]
    BY <1>1, <1>2, <1>3 DEF TokensInv
  <2>4. \A s \in Bids : Passed(s)' /\ call'[s].now > clock' - Window =>
          TokenOf(s)' \in lotBucket'[LotKey(s)]
    <3>1. ASSUME NEW s \in Bids, Passed(s), call[s].now > clock - Window
          PROVE  TokenOf(s) \in lotBucket'[LotKey(s)]
      <4>1. TokenOf(s) \in lotBucket[LotKey(s)] /\ TokenOf(s).at = call[s].now
        BY <3>1 DEF TokensInv, TokenOf
      <4>. QED BY <4>1, <3>1, <1>4, <1>7, Places
    <3>. QED BY <3>1, <1>1, <1>2, <1>3, <1>4, <1>7
  <2>5. \A s \in Bids : call'[s].at = "refusedLot" => TokenOf(s)' \notin globalBucket'[BidderOf[s]]
    BY <1>1, <1>2, <1>3 DEF TokensInv
  <2>6. \A s \in Bids : LotKey(s)' = LotKey(s)
    BY <1>1
  <2>. QED BY <2>1, <2>2, <2>3, <2>4, <2>5, <2>6 DEF TokensInv
<1>9. LimitsInv'
  <2>1. ASSUME NEW p \in LotKeys, NEW t \in 0 .. MaxClock
        PROVE  Cardinality(PassedIn(p, t)') <= LotMax
    <3>1. CASE \A s \in Bids : Passed(s)' => Passed(s)
      BY <3>1, <1>2, LotLimitStands
    <3>2. CASE ~ \A s \in Bids : Passed(s)' => Passed(s)
      <4>1. admitted
        BY <3>2, <1>2
      <4>. DEFINE G == PassedIn(p, t)
      <4>2. CASE r \in G' /\ p = q
        <5>1. G' \subseteq G \cup {r}
          BY <1>2 DEF PassedIn, Recent, LotKey
        <5>2. ASSUME NEW s \in G
              PROVE  TokenOf(s) \in Counted(old, r)
          <6>1. /\ s \in Bids /\ Passed(s) /\ LotKey(s) = q
                /\ t - (Window - MaxDelay) < call[s].now
            BY <4>2 DEF PassedIn, Recent
          <6>2. call[r].now <= t /\ call[r].now <= clock /\ clock <= call[r].now + MaxDelay
            BY <4>2, <1>2, <1>6 DEF PassedIn, Recent, CallsInv, InRedis
          <6>3. /\ call[s].now \in Nat /\ call[r].now \in Nat /\ clock \in Nat /\ t \in Nat
                /\ Window \in Nat /\ MaxDelay \in Nat
            BY <6>1, LimiterAssumption DEF CallsInv, Call
          <6>4. call[s].now > clock - Window /\ call[s].now > call[r].now - Window
            BY <6>1, <6>2, <6>3
          <6>5. TokenOf(s) \in old
            BY <6>1, <6>4, <1>7 DEF TokensInv
          <6>. QED BY <6>4, <6>5 DEF Counted, TokenOf
        <5>3. /\ G \in SUBSET Bids /\ LotMax \in Nat
              /\ \A k \in old : k = TokenOf(k.bid)
          BY <1>1, <1>7, LimiterAssumption DEF PassedIn, TokensInv
        <5>4. IsFiniteSet(G \cup {r}) /\ Cardinality(G \cup {r}) <= LotMax
          BY <4>1, <5>2, <5>3, <1>1, RoomForOne DEF admitted
        <5>5. IsFiniteSet(G') /\ Cardinality(G') <= Cardinality(G \cup {r})
          BY <5>1, <5>4, FS_Subset
        <5>6. Cardinality(G') \in Nat /\ Cardinality(G \cup {r}) \in Nat /\ LotMax \in Nat
          BY <5>3, <5>4, <5>5, FS_CardinalityType
        <5>. HIDE DEF G
        <5>7. Cardinality(G') <= LotMax
          BY <5>4, <5>5, <5>6
        <5>. QED BY <5>7 DEF G
      <4>3. CASE ~(r \in G' /\ p = q)
        <5>1. G' \subseteq G
          BY <4>3, <1>2, <1>7 DEF PassedIn, Recent, LotKey
        <5>2. IsFiniteSet(G)
          BY LimiterAssumption, FS_Subset DEF PassedIn
        <5>3. IsFiniteSet(G') /\ Cardinality(G') <= Cardinality(G)
          BY <5>1, <5>2, FS_Subset
        <5>4. Cardinality(G') \in Nat /\ Cardinality(G) \in Nat
          BY <5>2, <5>3, FS_CardinalityType
        <5>5. Cardinality(G) <= LotMax
          BY DEF LimitsInv
        <5>. HIDE DEF G
        <5>6. Cardinality(G') <= LotMax
          BY <5>3, <5>4, <5>5, LimiterAssumption
        <5>. QED BY <5>6 DEF G
      <4>. QED BY <4>2, <4>3
    <3>. QED BY <3>1, <3>2
  <2>2. \A b \in Limited : \A t \in 0 .. MaxClock : Cardinality(GrantedIn(b, t)') <= GlobalMax
    BY <1>2, GlobalLimitStands
  <2>. QED BY <2>1, <2>2 DEF LimitsInv
<1>. QED BY <1>8, <1>9

(* The token that is taken back is that of a request that is refused.      *)
LEMMA RollbackScript ==
  ASSUME CallsInv, TokensInv, LimitsInv, NEW r \in Bids, RollbackGlobal(r)
  PROVE  TokensInv' /\ LimitsInv'
<1>1. \A s \in Bids : /\ call'[s].now = call[s].now
                      /\ call[s].at # "absent" <=> call'[s].at # "absent"
                      /\ call'[s].at = "refusedLot" => call[s].at = "refusedLot" \/ s = r
                      /\ Granted(s)' <=> Granted(s)
                      /\ Passed(s)' <=> Passed(s)
                      /\ Granted(s) => s # r
  BY DEF CallsInv, Call, RollbackGlobal, Answered, Passed, Granted
<1>2. \A s \in Bids : TokenOf(s)' = TokenOf(s) /\ TokenOf(s).bid = s
  BY <1>1 DEF TokenOf
<1>3. /\ globalBucket' = [globalBucket EXCEPT ![BidderOf[r]] = {k \in @ : k.bid # r}]
      /\ lotBucket' = lotBucket /\ clock' = clock
      /\ \A s \in Bids : LotKey(s)' = LotKey(s)
  BY DEF RollbackGlobal, LotKey
<1>4. /\ \A a \in Limited : globalBucket'[a] \subseteq globalBucket[a]
      /\ \A a \in Limited : \A k \in globalBucket[a] : k.bid # r => k \in globalBucket'[a]
      /\ \A k \in globalBucket'[BidderOf[r]] : k.bid # r
  BY <1>3, Places DEF CallsInv
<1>5. /\ \A a \in Limited : \A k \in globalBucket[a] : k.bid \in Bids
      /\ \A p \in LotKeys : \A k \in lotBucket[p] : k.bid \in Bids
  BY DEF CallsInv, Token
<1>6. TokensInv'
  <2>1. /\ \A a \in Limited : \A k \in globalBucket'[a] :
             k = TokenOf(k.bid)' /\ call'[k.bid].at # "absent"
        /\ \A p \in LotKeys : \A k \in lotBucket'[p] :
             k = TokenOf(k.bid)' /\ call'[k.bid].at # "absent"
    <3>1. ASSUME NEW a \in Limited, NEW k \in globalBucket'[a]
          PROVE  k = TokenOf(k.bid) /\ call[k.bid].at # "absent" /\ k.bid \in Bids
      BY <1>4, <1>5 DEF TokensInv
    <3>2. ASSUME NEW p \in LotKeys, NEW k \in lotBucket'[p]
          PROVE  k = TokenOf(k.bid) /\ call[k.bid].at # "absent" /\ k.bid \in Bids
      BY <1>3, <1>5 DEF TokensInv
    <3>. QED BY <3>1, <3>2, <1>1, <1>2
  <2>2. \A s \in Bids : Granted(s)' /\ call'[s].now > clock' - Window =>
          TokenOf(s)' \in globalBucket'[BidderOf[s]]
    BY <1>1, <1>2, <1>3, <1>4, Places DEF TokensInv
  <2>3. \A s \in Bids : Passed(s)' /\ call'[s].now > clock' - Window =>
          TokenOf(s)' \in lotBucket'[LotKey(s)]
    BY <1>1, <1>2, <1>3 DEF TokensInv
  <2>4. \A s \in Bids : call'[s].at = "refusedLot" => TokenOf(s)' \notin globalBucket'[BidderOf[s]]
    BY <1>1, <1>2, <1>4, Places DEF TokensInv
  <2>. QED BY <1>3, <2>1, <2>2, <2>3, <2>4 DEF TokensInv
<1>7. LimitsInv'
  BY <1>1, LimitsStand DEF LetsNobodyThrough
<1>. QED BY <1>6, <1>7

(* Every step of the instance keeps the limiter's invariant.               *)
LEMMA LimiterInvKept ==
  ASSUME LimiterInv, LimiterMoves
  PROVE  LimiterInv'
<1>. USE DEF LimiterInv
<1>1. CallsInv'
  BY CallsKept
<1>. DEFINE Quiet == /\ LetsNobodyThrough /\ UNCHANGED bucketVars /\ clock <= clock'
                     /\ \A r \in Bids : call'[r].at = "refusedLot" => call[r].at = "refusedLot"
<1>2. Quiet => LimiterInv'
  BY <1>1, TokensStand, LimitsStand
<1>3. clock \in Nat
  BY LimiterAssumption DEF CallsInv
<1>4. ASSUME NEW r \in Bids,
             \/ BidArrives(r) \/ Refused(r) \/ RedisFails(r)
             \/ BidBegins(r) \/ BidFails(r) \/ BidProcessed(r)
      PROVE  Quiet
  <2>. USE <1>3 DEF LetsNobodyThrough, Granted, Passed, CallsInv, Call, bucketVars
  <2>1. CASE BidArrives(r)
    BY <2>1 DEF BidArrives
  <2>2. CASE Refused(r)
    BY <2>2 DEF Refused
  <2>3. CASE RedisFails(r)
    BY <2>3 DEF RedisFails, InRedis
  <2>4. CASE BidProcessed(r)
    BY <2>4 DEF BidProcessed
  <2>5. CASE BidBegins(r) \/ BidFails(r)
    BY <2>5 DEF BidBegins, BidFails, InRedis
  <2>. QED BY <1>4, <2>1, <2>2, <2>3, <2>4, <2>5
<1>5. ASSUME NEW r \in Bids, EvalGlobal(r) \/ EvalLot(r) \/ RollbackGlobal(r)
      PROVE  LimiterInv'
  BY <1>1, <1>5, GlobalScript, LotScript, RollbackScript
<1>6. CASE ClockAdvances
  BY <1>2, <1>3, <1>6
     DEF ClockAdvances, LetsNobodyThrough, Granted, Passed, bucketVars
<1>7. CASE UNCHANGED limiterVars
  BY <1>2, <1>3, <1>7
     DEF limiterVars, LetsNobodyThrough, Granted, Passed, bucketVars
<1>. QED BY <1>2, <1>4, <1>5, <1>6, <1>7 DEF LimiterMoves, LimiterStep

(* No request is made yet, and both windows are empty.                     *)
LEMMA LimiterInvInit ==
  ASSUME LimiterInit
  PROVE  LimiterInv
<1>1. CallsInv
  BY LimiterAssumption, Places DEF LimiterInit, CallsInv, Call, InRedis, LotKeys
<1>2. TokensInv
  BY Places DEF LimiterInit, TokensInv, Granted, Passed, LotKeys
<1>3. LimitsInv
  <2>1. \A s \in Bids : ~Granted(s) /\ ~Passed(s)
    BY DEF LimiterInit, Granted, Passed
  <2>2. /\ \A b, t : GrantedIn(b, t) = {}
        /\ \A q, t : PassedIn(q, t) = {}
    BY <2>1 DEF GrantedIn, PassedIn
  <2>. QED BY <2>2, FS_EmptySet, LimiterAssumption DEF LimitsInv
<1>. QED BY <1>1, <1>2, <1>3 DEF LimiterInv

(* What the runs check follows from the invariant.                         *)
LEMMA LimiterPromises ==
  ASSUME LimiterInv
  PROVE  LimiterTypeOK /\ WithinLimit /\ BucketsRemember
<1>. USE DEF LimiterInv
<1>1. LimiterTypeOK
  BY LimiterAssumption, Places DEF LimiterTypeOK, CallsInv, Call
<1>2. BucketsRemember
  BY DEF BucketsRemember, TokensInv, TokenOf, Granted
<1>3. WithinLimit
  <2>. SUFFICES ASSUME NEW r \in Bids, Passed(r)
                PROVE  LET others == {s \in Bids : Passed(s) /\ BidderOf[s] = BidderOf[r]
                                                   /\ Recent(s, call[r].now)} IN
                       /\ Cardinality(others) <= GlobalMax
                       /\ Cardinality({s \in others : LotOf[s] = LotOf[r]}) <= LotMax
    BY DEF WithinLimit
  <2>. DEFINE t == call[r].now
              others == {s \in Bids : Passed(s) /\ BidderOf[s] = BidderOf[r] /\ Recent(s, t)}
              G == GrantedIn(BidderOf[r], t)
              P == PassedIn(LotKey(r), t)
  <2>1. BidderOf[r] \in Limited /\ LotKey(r) \in LotKeys /\ t \in 0 .. MaxClock
    BY Places, LimiterAssumption DEF CallsInv, Call
  <2>2. Cardinality(G) <= GlobalMax /\ Cardinality(P) <= LotMax
    BY <2>1 DEF LimitsInv
  <2>3. others \subseteq G
    BY DEF GrantedIn, Granted
  <2>4. {s \in others : LotOf[s] = LotOf[r]} = P
    BY DEF PassedIn, LotKey
  <2>5. IsFiniteSet(G)
    BY LimiterAssumption, FS_Subset DEF GrantedIn
  <2>6. IsFiniteSet(others) /\ Cardinality(others) <= Cardinality(G)
    BY <2>3, <2>5, FS_Subset
  <2>7. Cardinality(others) \in Nat /\ Cardinality(G) \in Nat
    BY <2>5, <2>6, FS_CardinalityType
  <2>. HIDE DEF others, G, P
  <2>8. Cardinality(others) <= GlobalMax
    BY <2>2, <2>6, <2>7, LimiterAssumption
  <2>. QED BY <2>2, <2>4, <2>8 DEF others
<1>. QED BY <1>1, <1>2, <1>3

-----------------------------------------------------------------------------
(* The broadcaster's proofs.                                               *)

(* A step of the instance, as the broadcaster sees it.                     *)
BroadcasterMoves ==
  \/ \E s \in Sockets : Connect(s) \/ SocketStep(s)
  \/ \E a \in Rooms : FanOut(a)
  \/ CloseAllSockets /\ UNCHANGED mapVars
  \/ UNCHANGED broadcasterVars

(* The sets the gauge is compared with.                                    *)
LEMMA SocketSetsFinite ==
  /\ \A T \in SUBSET Sockets : IsFiniteSet(T) /\ Cardinality(T) \in Nat
  /\ KeptSockets \in SUBSET Sockets
  /\ ErredAfterSweep \in SUBSET Sockets
  /\ ClosedAfterRemoval \in SUBSET Sockets
BY BroadcasterAssumption, FS_Subset, FS_CardinalityType
   DEF KeptSockets, ErredAfterSweep, ClosedAfterRemoval

(* What fan-out reaches is every connection nobody has removed.            *)
LEMMA RegisteredAreKept ==
  ASSUME SocketsInv
  PROVE  Registered = KeptSockets
BY DEF SocketsInv, Registered, KeptSockets, Rooms

(* The counts while the same connections are kept, removed and closed.     *)
LEMMA GaugeStands ==
  ASSUME GaugeInv, UNCHANGED gauge,
         KeptSockets' = KeptSockets, ErredAfterSweep' = ErredAfterSweep,
         ClosedAfterRemoval' = ClosedAfterRemoval
  PROVE  GaugeInv'
BY DEF GaugeInv

(* A connection is made.                                                   *)
LEMMA ConnectKeeps ==
  ASSUME SocketsInv, GaugeInv, NEW s \in Sockets, Connect(s)
  PROVE  SocketsInv' /\ GaugeInv'
<1>. USE DEF SocketsInv, BroadcasterTypeOK, Socket, Kept, Up
<1>1. /\ \A u \in Sockets : u # s => sock'[u] = sock[u]
      /\ sock[s].state = "absent" /\ ~sock[s].failed /\ ~sock[s].swept
      /\ sock'[s].state = "open" /\ ~sock'[s].failed /\ ~sock'[s].swept
  BY DEF Connect
<1>2. RoomOf[s] \in Rooms
  BY DEF Rooms
<1>3. \A u \in Sockets : Kept(u)' <=> Kept(u) \/ u = s
  BY <1>1
<1>4. SocketsInv'
  <2>1. BroadcasterTypeOK'
    BY <1>2 DEF Connect
  <2>2. \A u \in Sockets : sock'[u].state \in {"absent", "open"} =>
          ~sock'[u].failed /\ ~sock'[u].swept
    BY <1>1
  <2>3. \A a \in Rooms : connections'[a] = {u \in Sockets : RoomOf[u] = a /\ Kept(u)'}
    <3>. HIDE DEF Kept
    <3>. QED BY <1>2, <1>3 DEF Connect
  <2>4. \A u \in Sockets : Kept(u)' => RoomOf[u] \in mapped'
    <3>. HIDE DEF Kept
    <3>. QED BY <1>3 DEF Connect
  <2>. QED BY <2>1, <2>2, <2>3, <2>4
<1>5. GaugeInv'
  <2>1. KeptSockets' = KeptSockets \cup {s} /\ s \notin KeptSockets
    BY <1>1 DEF KeptSockets
  <2>2. ErredAfterSweep' = ErredAfterSweep /\ ClosedAfterRemoval' = ClosedAfterRemoval
    BY <1>1 DEF ErredAfterSweep, ClosedAfterRemoval
  <2>3. Cardinality(KeptSockets') = Cardinality(KeptSockets) + 1
    BY <2>1, SocketSetsFinite, FS_AddElement
  <2>4. gauge' = gauge + 1 /\ gauge \in Int
    BY DEF Connect
  <2>5. /\ Cardinality(KeptSockets) \in Nat /\ Cardinality(ErredAfterSweep) \in Nat
        /\ Cardinality(ClosedAfterRemoval) \in Nat
    BY SocketSetsFinite
  <2>. QED BY <2>2, <2>3, <2>4, <2>5 DEF GaugeInv
<1>. QED BY <1>4, <1>5

(* The heartbeat, the client and the closing server end connections and    *)
(* remove none.                                                            *)
LEMMA EndingKeeps ==
  ASSUME SocketsInv, GaugeInv, UNCHANGED mapVars, sock' \in [Sockets -> Socket],
         \A u \in Sockets : /\ sock'[u].failed = sock[u].failed /\ sock'[u].swept = sock[u].swept
                            /\ \/ sock'[u].state = sock[u].state
                               \/ Up(u) /\ sock'[u].state = "closing"
  PROVE  SocketsInv' /\ GaugeInv'
<1>. USE DEF SocketsInv, BroadcasterTypeOK, Kept, Up, mapVars
<1>1. \A u \in Sockets : Kept(u)' <=> Kept(u)
  OBVIOUS
<1>2. SocketsInv'
  <2>1. \A a \in Rooms : connections'[a] = {u \in Sockets : RoomOf[u] = a /\ Kept(u)'}
    <3>. HIDE DEF Kept
    <3>. QED BY <1>1
  <2>2. \A u \in Sockets : sock'[u].state \in {"absent", "open"} =>
          ~sock'[u].failed /\ ~sock'[u].swept
    OBVIOUS
  <2>. QED BY <1>1, <2>1, <2>2
<1>3. KeptSockets' = KeptSockets
  BY <1>1 DEF KeptSockets
<1>4. ErredAfterSweep' = ErredAfterSweep /\ ClosedAfterRemoval' = ClosedAfterRemoval
  BY DEF ErredAfterSweep, ClosedAfterRemoval
<1>. QED BY <1>2, <1>3, <1>4, GaugeStands

(* removeConnection takes a socket off the map, and off the gauge whenever *)
(* there is an entry for its auction; the error and the close event call   *)
(* it, and have it that the socket is not kept any longer.                 *)
LEMMA RemovalKeeps ==
  ASSUME SocketsInv, NEW s \in Sockets, RemoveConnection(s), sock' \in [Sockets -> Socket],
         \A u \in Sockets : u # s => sock'[u] = sock[u],
         ~Kept(s)', sock'[s].state \in {"closing", "closed"}
  PROVE  /\ SocketsInv'
         /\ KeptSockets' = KeptSockets \ {s}
         /\ gauge' \in {gauge, gauge - 1}
         /\ Kept(s) => gauge' = gauge - 1
<1>1. RoomOf[s] \in Rooms
  BY DEF Rooms
<1>2. \A u \in Sockets : Kept(u)' <=> Kept(u) /\ u # s
  BY DEF Kept, Up
<1>3. connections[RoomOf[s]] = {u \in Sockets : RoomOf[u] = RoomOf[s] /\ Kept(u)}
  BY <1>1 DEF SocketsInv
<1>4. BroadcasterTypeOK'
  BY <1>1 DEF SocketsInv, BroadcasterTypeOK, RemoveConnection
<1>5. \A u \in Sockets : sock'[u].state \in {"absent", "open"} =>
        ~sock'[u].failed /\ ~sock'[u].swept
  BY DEF SocketsInv
<1>6. \A a \in Rooms : connections'[a] = {u \in Sockets : RoomOf[u] = a /\ Kept(u)'}
  BY <1>1, <1>2 DEF SocketsInv, BroadcasterTypeOK, RemoveConnection
<1>7. \A u \in Sockets : Kept(u)' => RoomOf[u] \in mapped'
  <2>. SUFFICES ASSUME NEW u \in Sockets, Kept(u), u # s
                PROVE  RoomOf[u] \in mapped'
    BY <1>2
  <2>1. RoomOf[u] \in mapped
    BY DEF SocketsInv
  <2>2. RoomOf[u] = RoomOf[s] => u \in connections[RoomOf[s]]
    BY <1>3
  <2>. QED BY <2>1, <2>2 DEF RemoveConnection
<1>8. KeptSockets' = KeptSockets \ {s}
  BY <1>2 DEF KeptSockets
<1>. QED BY <1>4, <1>5, <1>6, <1>7, <1>8 DEF SocketsInv, RemoveConnection

(* An error removes its socket from the room it is in, and from no other,  *)
(* and takes one off the gauge at most.                                    *)
LEMMA SocketErrorKeeps ==
  ASSUME SocketsInv, GaugeInv, NEW s \in Sockets, SocketError(s)
  PROVE  SocketsInv' /\ GaugeInv'
<1>1. /\ sock \in [Sockets -> Socket] /\ gauge \in Int
      /\ sock' \in [Sockets -> Socket]
      /\ \A u \in Sockets : u # s => sock'[u] = sock[u]
      /\ sock'[s].failed /\ sock'[s].swept = sock[s].swept /\ sock'[s].state = "closing"
      /\ Up(s) /\ ~sock[s].failed /\ RemoveConnection(s)
  <2>1. sock \in [Sockets -> Socket] /\ gauge \in Int /\ sock[s] \in Socket
    BY DEF SocketsInv, BroadcasterTypeOK
  <2>2. /\ sock' = [sock EXCEPT ![s] = [sock[s] EXCEPT !.failed = TRUE, !.pinged = FALSE,
                                                      !.state = "closing"]]
        /\ Up(s) /\ ~sock[s].failed /\ RemoveConnection(s)
    BY <2>1 DEF SocketError
  <2>. QED BY <2>1, <2>2 DEF Socket
<1>2. /\ SocketsInv'
      /\ KeptSockets' = KeptSockets \ {s}
      /\ gauge' \in {gauge, gauge - 1}
      /\ Kept(s) => gauge' = gauge - 1
  BY <1>1, RemovalKeeps DEF Kept
<1>3. ClosedAfterRemoval' = ClosedAfterRemoval
  BY <1>1 DEF ClosedAfterRemoval, Up
<1>4. /\ Cardinality(KeptSockets) \in Nat /\ Cardinality(ErredAfterSweep) \in Nat
      /\ Cardinality(ClosedAfterRemoval) \in Nat
  BY SocketSetsFinite
<1>5. CASE Kept(s)
  <2>1. ErredAfterSweep' = ErredAfterSweep
    BY <1>1, <1>5 DEF ErredAfterSweep, Kept
  <2>2. s \in KeptSockets
    BY <1>5 DEF KeptSockets
  <2>3. Cardinality(KeptSockets') = Cardinality(KeptSockets) - 1
    BY <1>2, <2>2, SocketSetsFinite, FS_RemoveElement
  <2>4. gauge' = gauge - 1
    BY <1>2, <1>5
  <2>5. GaugeInv'
    BY <1>1, <1>3, <1>4, <2>1, <2>3, <2>4 DEF GaugeInv
  <2>. QED BY <1>2, <2>5
<1>6. CASE ~Kept(s)
  <2>1. ErredAfterSweep' = ErredAfterSweep \cup {s} /\ s \notin ErredAfterSweep
    BY <1>1, <1>6 DEF ErredAfterSweep, Kept
  <2>2. KeptSockets' = KeptSockets
    BY <1>2, <1>6 DEF KeptSockets
  <2>3. Cardinality(ErredAfterSweep') = Cardinality(ErredAfterSweep) + 1
    BY <2>1, SocketSetsFinite, FS_AddElement
  <2>4. GaugeInv'
    <3>1. gauge' <= gauge /\ gauge' >= gauge - 1 /\ gauge' \in Int /\ gauge \in Int
      BY <1>1, <1>2
    <3>. QED BY <1>3, <1>4, <2>2, <2>3, <3>1 DEF GaugeInv
  <2>. QED BY <1>2, <2>4
<1>. QED BY <1>5, <1>6

(* So does the close event, which may find its socket already removed.     *)
LEMMA CloseEventKeeps ==
  ASSUME SocketsInv, GaugeInv, NEW s \in Sockets, CloseEvent(s)
  PROVE  SocketsInv' /\ GaugeInv'
<1>1. /\ sock \in [Sockets -> Socket] /\ gauge \in Int
      /\ sock' \in [Sockets -> Socket]
      /\ \A u \in Sockets : u # s => sock'[u] = sock[u]
      /\ sock'[s].failed = sock[s].failed /\ sock'[s].swept = sock[s].swept
      /\ sock'[s].state = "closed" /\ sock[s].state = "closing" /\ RemoveConnection(s)
  BY ZenonT(60) DEF CloseEvent, SocketsInv, BroadcasterTypeOK, Socket
<1>2. /\ SocketsInv'
      /\ KeptSockets' = KeptSockets \ {s}
      /\ gauge' \in {gauge, gauge - 1}
      /\ Kept(s) => gauge' = gauge - 1
  BY <1>1, RemovalKeeps DEF Kept, Up
<1>3. ErredAfterSweep' = ErredAfterSweep
  BY <1>1 DEF ErredAfterSweep
<1>4. /\ Cardinality(KeptSockets) \in Nat /\ Cardinality(ErredAfterSweep) \in Nat
      /\ Cardinality(ClosedAfterRemoval) \in Nat
  BY SocketSetsFinite
<1>5. CASE Kept(s)
  <2>1. ClosedAfterRemoval' = ClosedAfterRemoval
    BY <1>1, <1>5 DEF ClosedAfterRemoval, Kept
  <2>2. s \in KeptSockets
    BY <1>5 DEF KeptSockets
  <2>3. Cardinality(KeptSockets') = Cardinality(KeptSockets) - 1
    BY <1>2, <2>2, SocketSetsFinite, FS_RemoveElement
  <2>4. gauge' = gauge - 1
    BY <1>2, <1>5
  <2>5. GaugeInv'
    BY <1>1, <1>3, <1>4, <2>1, <2>3, <2>4 DEF GaugeInv
  <2>. QED BY <1>2, <2>5
<1>6. CASE ~Kept(s)
  <2>1. ClosedAfterRemoval' = ClosedAfterRemoval \cup {s} /\ s \notin ClosedAfterRemoval
    BY <1>1, <1>6 DEF ClosedAfterRemoval, Kept, Up
  <2>2. KeptSockets' = KeptSockets
    BY <1>2, <1>6 DEF KeptSockets
  <2>3. Cardinality(ClosedAfterRemoval') = Cardinality(ClosedAfterRemoval) + 1
    BY <2>1, SocketSetsFinite, FS_AddElement
  <2>4. GaugeInv'
    BY <1>1, <1>2, <1>3, <1>4, <2>2, <2>3 DEF GaugeInv
  <2>. QED BY <1>2, <2>4
<1>. QED BY <1>5, <1>6

(* Fan-out takes the sockets it finds dead off the map and off the gauge.  *)
LEMMA FanOutKeeps ==
  ASSUME SocketsInv, GaugeInv, NEW a \in Rooms, FanOut(a)
  PROVE  SocketsInv' /\ GaugeInv'
<1>. DEFINE D == Dead(a)
<1>1. /\ sock \in [Sockets -> Socket] /\ gauge \in Int
      /\ connections \in [Rooms -> SUBSET Sockets]
      /\ connections[a] = {u \in Sockets : RoomOf[u] = a /\ Kept(u)}
  BY DEF SocketsInv, BroadcasterTypeOK
<1>2. D = {u \in Sockets : RoomOf[u] = a /\ Kept(u) /\ sock[u].state # "open"}
  BY <1>1 DEF Dead
<1>3. \A u \in Sockets : /\ sock'[u].state = sock[u].state /\ sock'[u].failed = sock[u].failed
                         /\ sock'[u].swept <=> sock[u].swept \/ u \in D
  BY <1>1 DEF FanOut, Socket
<1>4. \A u \in Sockets : Kept(u)' <=> Kept(u) /\ u \notin D
  BY <1>3 DEF Kept, Up
<1>5. sock' \in [Sockets -> Socket]
  <2>1. \A u \in Sockets : (sock[u].swept \/ u \in D) \in BOOLEAN
    BY <1>1 DEF Socket
  <2>. HIDE DEF D
  <2>. QED BY <1>1, <2>1, ZenonT(60) DEF FanOut, Socket, D
<1>. HIDE DEF D
<1>6. SocketsInv'
  <2>1. gauge' \in Int
    <3>1. D \in SUBSET Sockets
      BY <1>2
    <3>2. Cardinality(D) \in Nat
      BY <3>1, SocketSetsFinite
    <3>. QED BY <1>1, <3>2 DEF FanOut, D
  <2>2. connections' \in [Rooms -> SUBSET Sockets] /\ mapped' \in SUBSET Rooms
    BY <1>1 DEF FanOut, SocketsInv, BroadcasterTypeOK
  <2>3. \A c \in Rooms : connections'[c] = {u \in Sockets : RoomOf[u] = c /\ Kept(u)'}
    BY <1>1, <1>2, <1>4 DEF FanOut, SocketsInv, D
  <2>4. \A u \in Sockets : sock'[u].state \in {"absent", "open"} =>
          ~sock'[u].failed /\ ~sock'[u].swept
    BY <1>2, <1>3 DEF SocketsInv, Kept, Up
  <2>5. \A u \in Sockets : Kept(u)' => RoomOf[u] \in mapped'
    BY <1>4 DEF SocketsInv, FanOut
  <2>. QED BY <1>5, <2>1, <2>2, <2>3, <2>4, <2>5 DEF SocketsInv, BroadcasterTypeOK
<1>7. GaugeInv'
  <2>1. KeptSockets' = KeptSockets \ D /\ D \in SUBSET KeptSockets
    BY <1>2, <1>4 DEF KeptSockets
  <2>2. ErredAfterSweep' = ErredAfterSweep
    BY <1>2, <1>3 DEF ErredAfterSweep, Kept
  <2>3. ClosedAfterRemoval' = ClosedAfterRemoval
    BY <1>2, <1>3 DEF ClosedAfterRemoval, Kept, Up
  <2>4. /\ IsFiniteSet(KeptSockets) /\ IsFiniteSet(D)
        /\ Cardinality(KeptSockets) \in Nat /\ Cardinality(ErredAfterSweep) \in Nat
        /\ Cardinality(ClosedAfterRemoval) \in Nat /\ Cardinality(D) \in Nat
    BY <2>1, SocketSetsFinite, FS_Subset, FS_CardinalityType
  <2>5. Cardinality(KeptSockets') = Cardinality(KeptSockets) - Cardinality(D)
    <3>1. KeptSockets \cap D = D
      BY <2>1
    <3>. QED BY <2>1, <2>4, <3>1, FS_Difference, ZenonT(60)
  <2>6. gauge' = gauge - Cardinality(D)
    BY DEF FanOut, D
  <2>. QED BY <1>1, <2>2, <2>3, <2>4, <2>5, <2>6 DEF GaugeInv
<1>. QED BY <1>6, <1>7

(* Every step of the instance keeps the sockets and the gauge in order.    *)
LEMMA BroadcasterInvKept ==
  ASSUME SocketsInv, GaugeInv, BroadcasterMoves
  PROVE  SocketsInv' /\ GaugeInv'
<1>1. ASSUME NEW s \in Sockets, SocketStep(s)
      PROVE  SocketsInv' /\ GaugeInv'
  <2>1. sock \in [Sockets -> Socket] /\ sock[s] \in Socket
    BY DEF SocketsInv, BroadcasterTypeOK
  <2>2. CASE Heartbeat(s)
    BY <2>1, <2>2, EndingKeeps DEF Heartbeat, Socket
  <2>3. CASE PongTimeout(s)
    BY <2>1, <2>3, EndingKeeps DEF PongTimeout, Socket, Up
  <2>4. CASE Pong(s)
    BY <2>1, <2>4, EndingKeeps DEF Pong, Socket
  <2>5. CASE GoSilent(s)
    BY <2>1, <2>5, EndingKeeps DEF GoSilent, Socket
  <2>6. CASE ClientCloses(s)
    BY <2>1, <2>6, EndingKeeps DEF ClientCloses, Socket, Up
  <2>7. CASE SocketError(s)
    BY <2>7, SocketErrorKeeps
  <2>8. CASE CloseEvent(s)
    BY <2>8, CloseEventKeeps
  <2>. QED BY <1>1, <2>2, <2>3, <2>4, <2>5, <2>6, <2>7, <2>8 DEF SocketStep, SocketTimers
<1>2. CASE CloseAllSockets /\ UNCHANGED mapVars
  <2>1. sock \in [Sockets -> Socket]
    BY DEF SocketsInv, BroadcasterTypeOK
  <2>2. /\ sock' \in [Sockets -> Socket]
        /\ \A u \in Sockets : /\ sock'[u].failed = sock[u].failed
                              /\ sock'[u].swept = sock[u].swept
                              /\ \/ sock'[u].state = sock[u].state
                                 \/ Up(u) /\ sock'[u].state = "closing"
    BY <1>2, <2>1 DEF CloseAllSockets, Socket, Up
  <2>. QED BY <1>2, <2>2, EndingKeeps
<1>3. CASE UNCHANGED broadcasterVars
  BY <1>3, EndingKeeps DEF broadcasterVars, SocketsInv, BroadcasterTypeOK
<1>. QED BY <1>1, <1>2, <1>3, ConnectKeeps, FanOutKeeps DEF BroadcasterMoves

(* Nobody is connected yet.                                                *)
LEMMA BroadcasterInvInit ==
  ASSUME BroadcasterInit
  PROVE  SocketsInv /\ GaugeInv
<1>1. SocketsInv
  BY DEF BroadcasterInit, SocketsInv, BroadcasterTypeOK, Kept, Up, Absent, Socket
<1>2. KeptSockets = {} /\ ErredAfterSweep = {} /\ ClosedAfterRemoval = {}
  BY DEF BroadcasterInit, KeptSockets, ErredAfterSweep, ClosedAfterRemoval, Kept, Up, Absent
<1>3. GaugeInv
  BY <1>2, FS_EmptySet DEF GaugeInv, BroadcasterInit
<1>. QED BY <1>1, <1>3

(* What the runs check.  Every socket that erred or was swept may have     *)
(* cost the gauge one, and one that did both may have cost it two.         *)
LEMMA BroadcasterPromises ==
  ASSUME SocketsInv, GaugeInv
  PROVE  BroadcasterTypeOK /\ OpenSocketsAreRegistered /\ GaugeErrsLow
<1>1. OpenSocketsAreRegistered
  <2>1. \A s \in Sockets : sock[s].state = "open" => s \in Registered
    BY RegisteredAreKept DEF SocketsInv, KeptSockets, Kept, Up
  <2>2. \A a \in Rooms : \A s \in connections[a] : a \in mapped /\ RoomOf[s] = a /\ Up(s)
    BY DEF SocketsInv, Kept
  <2>. QED BY <2>1, <2>2 DEF OpenSocketsAreRegistered
<1>2. GaugeErrsLow
  <2>. DEFINE F == {s \in Sockets : sock[s].failed}
              S == {s \in Sockets : sock[s].swept}
  <2>1. F \in SUBSET Sockets /\ S \in SUBSET Sockets
    OBVIOUS
  <2>2. ErredAfterSweep = F \cap S /\ ClosedAfterRemoval \in SUBSET (F \cup S)
    BY DEF ErredAfterSweep, ClosedAfterRemoval
  <2>. HIDE DEF F, S
  <2>3. /\ IsFiniteSet(F) /\ IsFiniteSet(S) /\ IsFiniteSet(F \cup S)
        /\ Cardinality(F) \in Nat /\ Cardinality(S) \in Nat /\ Cardinality(F \cup S) \in Nat
        /\ Cardinality(F \cap S) \in Nat
        /\ Cardinality(ClosedAfterRemoval) \in Nat /\ Cardinality(KeptSockets) \in Nat
    BY <2>1, SocketSetsFinite
  <2>4. Cardinality(F \cup S) = Cardinality(F) + Cardinality(S) - Cardinality(F \cap S)
    BY <2>3, FS_Union
  <2>5. Cardinality(ClosedAfterRemoval) <= Cardinality(F \cup S)
    BY <2>2, <2>3, FS_Subset
  <2>6. gauge \in Int
    BY DEF SocketsInv, BroadcasterTypeOK
  <2>7. /\ gauge <= Cardinality(KeptSockets)
        /\ gauge >= Cardinality(KeptSockets) - Cardinality(F) - Cardinality(S)
    BY <2>2, <2>3, <2>4, <2>5, <2>6 DEF GaugeInv
  <2>. QED BY <2>7, RegisteredAreKept DEF GaugeErrsLow, F, S
<1>. QED BY <1>1, <1>2 DEF SocketsInv

-----------------------------------------------------------------------------
(* The proofs of registration.                                             *)

(* A step of the instance, as the registration route sees it.              *)
TurnedAway(f) ==
  /\ form[f].at = "absent"
  /\ form' = [form EXCEPT ![f].at = "unavailable"]
  /\ UNCHANGED <<saleOpen, tier, registration>>

RegistrationMoves ==
  \/ \E f \in Applications : Apply(f) \/ TurnedAway(f) \/ RegistrationStep(f)
                             \/ RegisterBegins(f) \/ SaleEnds(SaleOf[f])
  \/ UNCHANGED registrationVars

(* The tier changes only together with a registration of the same verdict. *)
LEMMA RegistrationKept ==
  ASSUME FormsInv, RegisteredAsVerified, RegistrationMoves
  PROVE  FormsInv' /\ RegisteredAsVerified'
<1>. USE DEF FormsInv, RegistrationTypeOK
<1>1. \A f \in Applications : ApplicantOf[f] \in Applicants /\ SaleOf[f] \in Sales
  BY DEF Applicants, Sales
<1>2. Null \notin Verdict
  BY RegistrationAssumption DEF Verdict
<1>3. ASSUME UNCHANGED <<tier, registration>>
      PROVE  RegisteredAsVerified'
  <2>1. \A b \in Applicants :
          {registration'[b][a] : a \in Sales} = {registration[b][a] : a \in Sales}
    BY <1>3
  <2>. QED BY <1>3, <2>1 DEF RegisteredAsVerified
<1>4. ASSUME NEW f \in Applications,
             \/ Apply(f) \/ TurnedAway(f) \/ NotVerified(f)
             \/ RegisterBegins(f) \/ UpdateTier(f) \/ RegisterFails(f)
      PROVE  FormsInv' /\ RegisteredAsVerified'
  <2>1. \E at \in FormStage : /\ form' = [form EXCEPT ![f].at = at]
                              /\ at \in Judged => form[f].at \in Judged
    <3>. USE DEF FormStage, FormFinal, Judged
    <3>1. CASE Apply(f) /\ saleOpen[SaleOf[f]]
      <4>1. form' = [form EXCEPT ![f].at = "verifying"]
        BY <3>1 DEF Apply
      <4>. QED BY <4>1
    <3>2. CASE Apply(f) /\ ~saleOpen[SaleOf[f]]
      <4>1. form' = [form EXCEPT ![f].at = "closed"]
        BY <3>2 DEF Apply
      <4>. QED BY <4>1
    <3>3. CASE TurnedAway(f)
      BY <3>3 DEF TurnedAway
    <3>4. CASE NotVerified(f)
      BY <3>4 DEF NotVerified
    <3>5. CASE UpdateTier(f)
      BY <3>5 DEF UpdateTier
    <3>6. CASE RegisterFails(f)
      BY <3>6 DEF RegisterFails
    <3>7. CASE RegisterBegins(f)
      BY <3>7 DEF RegisterBegins
    <3>. QED BY <1>4, <3>1, <3>2, <3>3, <3>4, <3>5, <3>6, <3>7
  <2>2. UNCHANGED <<tier, registration>> /\ UNCHANGED saleOpen
    BY <1>4 DEF Apply, TurnedAway, NotVerified, RegisterBegins, UpdateTier, RegisterFails
  <2>. QED BY <1>3, <2>1, <2>2
<1>5. ASSUME NEW f \in Applications, Verified(f)
      PROVE  FormsInv' /\ RegisteredAsVerified'
  <2>1. PICK v \in Verdict : form' = [form EXCEPT ![f] = [at |-> "connecting", verdict |-> v]]
    BY <1>5 DEF Verified
  <2>2. UNCHANGED <<tier, registration>> /\ UNCHANGED saleOpen
    BY <1>5 DEF Verified
  <2>3. "connecting" \in FormStage
    BY DEF FormStage
  <2>4. form' \in [Applications -> [at: FormStage, verdict: Verdict \cup {Null}]]
    BY <2>1, <2>3
  <2>5. \A g \in Applications : form'[g].at \in Judged => form'[g].verdict # Null
    BY <1>2, <2>1
  <2>. QED BY <1>3, <2>2, <2>4, <2>5
<1>6. ASSUME NEW f \in Applications, SaleEnds(SaleOf[f])
      PROVE  FormsInv' /\ RegisteredAsVerified'
  BY <1>3, <1>6 DEF SaleEnds
<1>7. ASSUME NEW f \in Applications, Register(f)
      PROVE  FormsInv' /\ RegisteredAsVerified'
  <2>. DEFINE b == ApplicantOf[f]
              c == SaleOf[f]
              v == form[f].verdict
  <2>1. b \in Applicants /\ c \in Sales /\ v \in Verdict /\ v.tier \in Tiers /\ v # Null
    BY <1>1, <1>2, <1>7 DEF Register, Verdict, Judged
  <2>2. /\ tier' = [tier EXCEPT ![b] = v.tier]
        /\ registration' = [registration EXCEPT ![b][c] = v]
        /\ form' = [form EXCEPT ![f].at = "registered"]
        /\ saleOpen' = saleOpen
    BY <1>7 DEF Register
  <2>. HIDE DEF b, c, v
  <2>3. FormsInv'
    BY <2>1, <2>2 DEF FormStage, FormFinal, Judged
  <2>4. ASSUME NEW d \in Applicants
        PROVE  LET made == {registration'[d][a] : a \in Sales} \ {Null} IN
               IF made = {} THEN tier'[d] = NewTier ELSE \E w \in made : w.tier = tier'[d]
    <3>1. CASE d = b
      <4>1. registration'[d][c] = v /\ tier'[d] = v.tier
        BY <2>1, <2>2, <3>1
      <4>2. v \in {registration'[d][a] : a \in Sales} \ {Null}
        BY <2>1, <4>1
      <4>3. \E w \in {registration'[d][a] : a \in Sales} \ {Null} : w.tier = tier'[d]
        BY <4>1, <4>2
      <4>. QED BY <4>3
    <3>2. CASE d # b
      <4>1. registration'[d] = registration[d] /\ tier'[d] = tier[d]
        BY <2>2, <3>2
      <4>2. {registration'[d][a] : a \in Sales} = {registration[d][a] : a \in Sales}
        BY <4>1
      <4>. QED BY <4>1, <4>2 DEF RegisteredAsVerified
    <3>. QED BY <3>1, <3>2
  <2>5. RegisteredAsVerified'
    BY <2>4 DEF RegisteredAsVerified
  <2>. QED BY <2>3, <2>5
<1>8. CASE UNCHANGED registrationVars
  BY <1>3, <1>8 DEF registrationVars
<1>. QED BY <1>4, <1>5, <1>6, <1>7, <1>8 DEF RegistrationMoves, RegistrationStep

(* Nobody has applied yet.                                                 *)
LEMMA RegistrationInvInit ==
  ASSUME RegistrationInit
  PROVE  FormsInv /\ RegisteredAsVerified
BY RegistrationAssumption
   DEF RegistrationInit, FormsInv, RegistrationTypeOK, RegisteredAsVerified, FormStage,
       FormFinal, Judged

-----------------------------------------------------------------------------
(* The instance as a whole.                                                *)

InstanceInv ==
  /\ LimiterInv
  /\ SocketsInv /\ GaugeInv
  /\ FormsInv /\ RegisteredAsVerified
  /\ ShutdownInv

(* Each step of the instance is a step or a stutter of every component.    *)
LEMMA StepsApart ==
  ASSUME [ApiNext]_apiVars
  PROVE  LimiterMoves /\ BroadcasterMoves /\ RegistrationMoves
<1>1. ASSUME NEW r \in Bids, BidStep(r)
      PROVE  LimiterMoves /\ BroadcasterMoves /\ RegistrationMoves
  BY <1>1 DEF BidStep, LimiterMoves, Refused, BroadcasterMoves, RegistrationMoves
<1>2. ASSUME NEW f \in Applications, FormStep(f)
      PROVE  LimiterMoves /\ BroadcasterMoves /\ RegistrationMoves
  BY <1>2 DEF FormStep, LimiterMoves, BroadcasterMoves, RegistrationMoves, TurnedAway
<1>3. CASE SocketsMove
  BY <1>3 DEF SocketsMove, LimiterMoves, BroadcasterMoves, RegistrationMoves
<1>4. CASE Environment
  BY <1>4 DEF Environment, LimiterMoves, BroadcasterMoves, RegistrationMoves
<1>5. CASE ClientLeaves \/ JobStarts \/ CloserEnds \/ EngineWrites \/ EngineEnds
  BY <1>5 DEF ClientLeaves, JobStarts, CloserEnds, EngineWrites, EngineEnds,
              LimiterMoves, BroadcasterMoves, RegistrationMoves
<1>6. ASSUME NEW g \in Signal, ReceiveSignal(g)
      PROVE  LimiterMoves /\ BroadcasterMoves /\ RegistrationMoves
  BY <1>6 DEF ReceiveSignal, Unchanged, LimiterMoves, BroadcasterMoves, RegistrationMoves,
              broadcasterVars
<1>7. CASE Shutdown
  BY <1>7 DEF Shutdown, HttpServerCloses, JobsStop, PoolEnds, RedisQuits, SecondEndRejected,
              Unchanged, LimiterMoves, BroadcasterMoves, RegistrationMoves, broadcasterVars
<1>8. CASE UNCHANGED apiVars
  BY <1>8 DEF apiVars, LimiterMoves, BroadcasterMoves, RegistrationMoves
<1>. QED
  BY <1>1, <1>2, <1>3, <1>4, <1>5, <1>6, <1>7, <1>8 DEF ApiNext, ApiDone

(* In a server that stops, a bid's step moves that bid alone; a bid is     *)
(* served after it only if it was before, and begins no transaction when   *)
(* the pool has ended.                                                     *)
LEMMA BidsOnlyEnd ==
  ASSUME CallsInv, Stopping, NEW r \in Bids, BidStep(r), NEW s \in Bids
  PROVE  /\ ServedBid(s)' => ServedBid(s)
         /\ ~PoolIsOpen /\ BidInTransaction(s)' => BidInTransaction(s)
<1>. USE DEF CallsInv, Call
<1>1. CASE LimiterStep(r)
  <2>1. ServedBid(r) /\ \A q \in Bids : q # r => call'[q] = call[q]
    BY <1>1 DEF LimiterStep, EvalGlobal, EvalLot, RollbackGlobal, RedisFails, BidProcessed,
                Answered, InRedis, ServedBid, BidFinal
  <2>2. BidInTransaction(r)' => BidInTransaction(r)
    BY <1>1 DEF LimiterStep, EvalGlobal, EvalLot, RollbackGlobal, RedisFails, BidProcessed,
                Answered, InRedis, BidInTransaction
  <2>. QED BY <2>1, <2>2 DEF ServedBid, BidInTransaction
<1>2. CASE BidBegins(r) /\ PoolIsOpen
  BY <1>2 DEF BidBegins, ServedBid, BidFinal
<1>3. CASE BidFails(r)
  BY <1>3 DEF BidFails, InRedis, ServedBid, BidFinal, BidInTransaction
<1>4. CASE call' = [call EXCEPT ![r].at = "unavailable"]
  BY <1>4 DEF ServedBid, BidFinal, BidInTransaction
<1>. QED BY <1>1, <1>2, <1>3, <1>4 DEF BidStep, Stopping

(* The same for a registration.                                            *)
LEMMA FormsOnlyEnd ==
  ASSUME FormsInv, Stopping, NEW f \in Applications, FormStep(f), NEW g \in Applications
  PROVE  /\ ServedForm(g)' => ServedForm(g)
         /\ ~PoolIsOpen /\ FormInTransaction(g)' => FormInTransaction(g)
<1>. USE DEF FormsInv, RegistrationTypeOK, ServedForm, FormFinal, FormInTransaction
<1>1. CASE RegistrationStep(f)
  <2>1. /\ ServedForm(f) /\ \A h \in Applications : h # f => form'[h] = form[h]
        /\ FormInTransaction(f)' => FormInTransaction(f)
    <3>1. CASE Verified(f)
      BY <3>1 DEF Verified
    <3>2. CASE ~Verified(f)
      BY <1>1, <3>2 DEF RegistrationStep, NotVerified, UpdateTier, Register, RegisterFails
    <3>. QED BY <3>1, <3>2
  <2>. QED BY <2>1
<1>2. CASE RegisterBegins(f) /\ PoolIsOpen
  BY <1>2 DEF RegisterBegins
<1>3. CASE form' = [form EXCEPT ![f].at = "unavailable"]
  BY <1>3
<1>. QED BY <1>1, <1>2, <1>3 DEF FormStep, Stopping

(* Once the server is closed, its visitors stay away: a step of theirs is  *)
(* one of a request that is being served, or one that is turned away.      *)
LEMMA DesertedStays ==
  ASSUME InstanceInv, Stopping, Deserted, [ApiNext]_apiVars
  PROVE  Deserted' /\ (~PoolIsOpen => (InTransaction' => InTransaction))
<1>. DEFINE Goal == Deserted' /\ (~PoolIsOpen => (InTransaction' => InTransaction))
<1>1. UNCHANGED sock => (\A s \in Sockets : ~Up(s))'
  BY DEF Deserted, Up
<1>2. /\ UNCHANGED call => \A r \in Bids : /\ ServedBid(r)' <=> ServedBid(r)
                                           /\ BidInTransaction(r)' <=> BidInTransaction(r)
      /\ UNCHANGED form => \A f \in Applications : /\ ServedForm(f)' <=> ServedForm(f)
                                                   /\ FormInTransaction(f)' <=> FormInTransaction(f)
  BY DEF ServedBid, ServedForm, BidInTransaction, FormInTransaction
<1>3. ASSUME UNCHANGED sock, gone \subseteq gone',
             ~PoolIsOpen => (engine' = "writing" => engine = "writing"),
             \A r \in Bids : /\ ServedBid(r)' => ServedBid(r)
                             /\ ~PoolIsOpen /\ BidInTransaction(r)' => BidInTransaction(r),
             \A f \in Applications : /\ ServedForm(f)' => ServedForm(f)
                                     /\ ~PoolIsOpen /\ FormInTransaction(f)' => FormInTransaction(f)
      PROVE  Goal
  <2>1. Served' \subseteq Served
    BY <1>3 DEF Served
  <2>2. Deserted'
    BY <1>1, <1>3, <2>1 DEF Deserted
  <2>3. ~PoolIsOpen => (InTransaction' => InTransaction)
    BY <1>3 DEF InTransaction
  <2>. QED BY <2>2, <2>3
<1>. HIDE DEF Goal
<1>4. ASSUME NEW r \in Bids, BidStep(r)
      PROVE  Goal
  <2>1. UNCHANGED form /\ UNCHANGED sock /\ UNCHANGED gone /\ UNCHANGED engine
    BY <1>4 DEF BidStep, broadcasterVars, registrationVars, shutdownVars, jobVars
  <2>. QED BY <1>2, <1>3, <1>4, <2>1, BidsOnlyEnd DEF InstanceInv, LimiterInv
<1>5. ASSUME NEW f \in Applications, FormStep(f)
      PROVE  Goal
  <2>1. UNCHANGED call /\ UNCHANGED sock /\ UNCHANGED gone /\ UNCHANGED engine
    BY <1>5 DEF FormStep, broadcasterVars, limiterVars, shutdownVars, jobVars
  <2>. QED BY <1>2, <1>3, <1>5, <2>1, FormsOnlyEnd DEF InstanceInv
<1>6. CASE SocketsMove
  <2>1. \A s \in Sockets : ~SocketStep(s)
    BY DEF SocketStep, SocketTimers, Heartbeat, PongTimeout, CloseEvent, Pong, GoSilent,
           ClientCloses, SocketError, Up, Deserted
  <2>2. \A a \in Rooms : ~FanOut(a)
    BY DEF FanOut, Dead, InstanceInv, SocketsInv, Kept, Deserted
  <2>. QED BY <1>6, <2>1, <2>2 DEF SocketsMove, Stopping
<1>7. CASE \/ Environment \/ ClientLeaves \/ UNCHANGED apiVars
           \/ JobStarts \/ CloserEnds \/ EngineWrites \/ EngineEnds
  <2>1. UNCHANGED call /\ UNCHANGED form /\ UNCHANGED sock
    BY <1>7 DEF Environment, ClockAdvances, SaleEnds, ClientLeaves, JobStarts, CloserEnds,
                EngineWrites, EngineEnds, registrationVars, limiterVars, broadcasterVars, apiVars
  <2>2. /\ gone \subseteq gone'
        /\ ~PoolIsOpen => (engine' = "writing" => engine = "writing")
    BY <1>7 DEF Environment, ClientLeaves, JobStarts, CloserEnds, EngineWrites, EngineEnds,
                shutdownVars, jobVars, apiVars
  <2>. QED BY <1>2, <1>3, <2>1, <2>2 DEF Goal
<1>8. ASSUME Shutdown \/ \E g \in Signal : ReceiveSignal(g)
      PROVE  Goal
  <2>1. UNCHANGED call /\ UNCHANGED form /\ UNCHANGED sock /\ UNCHANGED gone /\ UNCHANGED engine
    BY <1>8 DEF Shutdown, HttpServerCloses, JobsStop, PoolEnds, RedisQuits, SecondEndRejected,
                ReceiveSignal, Stopping, Unchanged, limiterVars, registrationVars, jobVars
  <2>. QED BY <1>2, <1>3, <2>1
<1>. QED
  BY <1>4, <1>5, <1>6, <1>7, <1>8 DEF ApiNext, ApiDone, Goal

(* The shutdown waits for the server, for the closer and for the pool, one *)
(* after the other, and no batch begins once the timers are cleared.       *)
LEMMA ShutdownKept ==
  ASSUME InstanceInv, [ApiNext]_apiVars
  PROVE  ShutdownInv'
<1>. USE DEF ShutdownInv, InstanceInv, Stopping, PoolIsOpen, PoolHasEnded
<1>1. CASE Shutdown
  <2>1. /\ UNCHANGED <<call, form, sock, closer, engine, signals, gone>>
    BY <1>1 DEF Shutdown, HttpServerCloses, JobsStop, PoolEnds, RedisQuits, SecondEndRejected,
                Unchanged, limiterVars, registrationVars, jobVars
  <2>2. (Deserted' <=> Deserted) /\ (InTransaction' <=> InTransaction)
    BY <2>1 DEF Deserted, Served, ServedBid, ServedForm, Up, InTransaction, BidInTransaction,
                FormInTransaction
  <2>3. HttpServerCloses => Deserted
    BY DEF HttpServerCloses, Deserted
  <2>4. PoolEnds => ~InTransaction
    BY DEF PoolEnds, InTransaction
  <2>. QED
    BY <1>1, <2>1, <2>2, <2>3, <2>4
       DEF Shutdown, HttpServerCloses, JobsStop, PoolEnds, RedisQuits, SecondEndRejected
<1>2. ASSUME UNCHANGED phase
      PROVE  (Stopping' => Deserted') /\ (PoolHasEnded' => ~InTransaction')
  BY <1>2, DesertedStays
<1>3. ASSUME NEW g \in Signal, ReceiveSignal(g)
      PROVE  ShutdownInv'
  BY <1>2, <1>3 DEF ReceiveSignal, Unchanged, jobVars
<1>4. CASE JobStarts \/ CloserEnds \/ EngineWrites \/ EngineEnds
  BY <1>2, <1>4 DEF JobStarts, CloserEnds, EngineWrites, EngineEnds, shutdownVars
<1>5. CASE ClientLeaves
  BY <1>2, <1>5 DEF ClientLeaves, Served, jobVars
<1>6. CASE UNCHANGED shutdownVars /\ UNCHANGED jobVars
  BY <1>2, <1>6 DEF shutdownVars, jobVars
<1>. QED
  BY <1>1, <1>3, <1>4, <1>5, <1>6
     DEF ApiNext, ApiDone, BidStep, FormStep, SocketsMove, Environment, apiVars

(* Every reachable state satisfies the invariant.                          *)
LEMMA InstanceInvHolds == ApiSpec => []InstanceInv
<1>1. ApiInit => InstanceInv
  BY LimiterInvInit, BroadcasterInvInit, RegistrationInvInit
     DEF ApiInit, InstanceInv, ShutdownInv, Signal, Stopping, PoolIsOpen, PoolHasEnded
<1>2. InstanceInv /\ [ApiNext]_apiVars => InstanceInv'
  BY StepsApart, LimiterInvKept, BroadcasterInvKept, RegistrationKept, ShutdownKept
     DEF InstanceInv
<1>. QED BY <1>1, <1>2, PTL DEF ApiSpec

-----------------------------------------------------------------------------
(* The theorems.                                                           *)

(* Every variable of an instance keeps its type.                           *)
THEOREM InstanceTypesCorrect == ApiSpec => []ApiTypeOK
<1>1. InstanceInv => ApiTypeOK
  BY LimiterPromises, BroadcasterPromises DEF InstanceInv, ApiTypeOK, FormsInv, ShutdownInv
<1>. QED BY <1>1, InstanceInvHolds, PTL

(* In no guarded window does a bidder get more than GlobalMax bids through, *)
(* nor more than LotMax on one lot, for any number of concurrent requests, *)
(* lost answers of Redis and delays of the scripts.                        *)
THEOREM LimitsAreKept == ApiSpec => []WithinLimit
<1>1. InstanceInv => WithinLimit
  BY LimiterPromises DEF InstanceInv
<1>. QED BY <1>1, InstanceInvHolds, PTL

(* Trimming and the rollback of other requests take no token that counts,  *)
(* and leave none of a bid that the lot's window refused.                  *)
THEOREM TokensAreKept == ApiSpec => []BucketsRemember
<1>1. InstanceInv => BucketsRemember
  BY LimiterPromises DEF InstanceInv
<1>. QED BY <1>1, InstanceInvHolds, PTL

(* Every open connection gets the messages of its auction, and none is     *)
(* kept after its close event, in whatever order the close, the error,     *)
(* fan-out and the pong timeout meet.                                      *)
THEOREM FanOutReachesAll == ApiSpec => []OpenSocketsAreRegistered
<1>1. InstanceInv => OpenSocketsAreRegistered
  BY BroadcasterPromises DEF InstanceInv
<1>. QED BY <1>1, InstanceInvHolds, PTL

(* The gauge of connections errs on the low side only, and by no more than *)
(* the removals that came before the close event's.                        *)
THEOREM GaugeIsBounded == ApiSpec => []GaugeErrsLow
<1>1. InstanceInv => GaugeErrsLow
  BY BroadcasterPromises DEF InstanceInv
<1>. QED BY <1>1, InstanceInvHolds, PTL

(* A bidder's tier is that of one of the bidder's registrations, however   *)
(* its requests interleave and whichever of their statements fail.         *)
THEOREM TiersAreEarned == ApiSpec => []RegisteredAsVerified
<1>1. InstanceInv => RegisteredAsVerified
  BY DEF InstanceInv
<1>. QED BY <1>1, InstanceInvHolds, PTL

(* From pool.end() on only requests whose clients have gone are served, no *)
(* batch is being settled and every socket was told; Redis is left, and    *)
(* the process exits, with no transaction open: for any number of          *)
(* requests, clients that leave at any moment, sockets and signals.        *)
THEOREM ShutdownIsClean == ApiSpec => []StopsCleanly
<1>1. InstanceInv => StopsCleanly
  <2>1. (\A s \in Sockets : ~Up(s)) => KeptSockets = {}
    BY DEF KeptSockets, Kept
  <2>. QED
    BY <2>1, RegisteredAreKept DEF InstanceInv, ShutdownInv, StopsCleanly, Stopping, Deserted,
                                   PoolIsOpen, PoolHasEnded, InTransaction
<1>. QED BY <1>1, InstanceInvHolds, PTL

=============================================================================
