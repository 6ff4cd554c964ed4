----------------------------- MODULE ApiInstance -----------------------------
(***************************************************************************)
(* One instance of the service from its start to its end: the requests it  *)
(* serves and its WebSocket connections (src/app.ts), its background jobs  *)
(* and the graceful shutdown of src/server.ts.                             *)
(*                                                                         *)
(*   running -> closing -> stopping -> ending -> quitting -> exited        *)
(*                                           \-> crashed                   *)
(*                                                                         *)
(* closing waits for app.close(), stopping for the closer's iteration,     *)
(* ending for pool.end(), quitting for Redis.  The step between closing    *)
(* and stopping waits for the in-flight counter, which is always 0:        *)
(* nothing calls incrementInflight.  So a request whose client has gone is *)
(* waited for by nobody until it has a client of the pool.                 *)
(***************************************************************************)
EXTENDS RateLimiter, Broadcaster, Registration

CONSTANTS
  Scenarios   \* bound: which visitors, and whether signals, a behaviour has

VARIABLES
  visitors,   \* the requests, sockets and signals of this behaviour
  phase,
  signals,    \* SIGTERM and SIGINT received
  gone,       \* requests whose client closed its connection before the answer
  closer,     \* lot closer: "waiting" or "settling"
  engine      \* payment engine: "waiting", "calling" or "writing"

shutdownVars == <<phase, signals, gone>>
jobVars == <<closer, engine>>
apiVars == <<limiterVars, broadcasterVars, registrationVars, visitors, shutdownVars, jobVars>>

Signal == {"SIGTERM", "SIGINT"}

ApiInit ==
  /\ LimiterInit /\ BroadcasterInit /\ RegistrationInit
  /\ visitors \in Scenarios
  /\ phase = "running"
  /\ signals = {}
  /\ gone = {}
  /\ closer = "waiting"
  /\ engine = "waiting"

-----------------------------------------------------------------------------
(* Requests and connections.                                               *)

ServedBid(r) == call[r].at \notin {"absent"} \cup BidFinal
ServedForm(f) == form[f].at \notin {"absent"} \cup FormFinal
Served == {r \in Bids : ServedBid(r)} \cup {f \in Applications : ServedForm(f)}

(* pool.connect() is rejected once pool.end() has been called.             *)
PoolIsOpen == phase \in {"running", "closing", "stopping"}

(* While it closes, Fastify answers 503 on connections that are still      *)
(* there; afterwards there is nobody to connect to.                        *)
BidStep(r) ==
  /\ \/ phase = "running" /\ r \in visitors /\ BidArrives(r)
     \/ /\ phase # "running" /\ r \in visitors /\ call[r].at = "absent"
        /\ call' = [call EXCEPT ![r].at = "unavailable"]
        /\ UNCHANGED <<bucketVars, clock, outages>>
     \/ LimiterStep(r)
     \/ PoolIsOpen /\ BidBegins(r)
     \/ ~PoolIsOpen /\ (InRedis(r) => phase = "quitting") /\ BidFails(r)
  /\ UNCHANGED <<broadcasterVars, registrationVars, visitors, shutdownVars, jobVars>>

FormStep(f) ==
  /\ \/ phase = "running" /\ f \in visitors /\ Apply(f)
     \/ /\ phase # "running" /\ f \in visitors /\ form[f].at = "absent"
        /\ form' = [form EXCEPT ![f].at = "unavailable"]
        /\ UNCHANGED <<saleOpen, tier, registration>>
     \/ RegistrationStep(f)
     \/ PoolIsOpen /\ RegisterBegins(f)
  /\ UNCHANGED <<limiterVars, broadcasterVars, visitors, shutdownVars, jobVars>>

(* A client closes its connection; the handler goes on and does not know.  *)
(* Modelled where shutdown is: elsewhere nothing depends on it.            *)
ClientLeaves ==
  /\ Signal \cap visitors # {}
  /\ \E x \in Served \ gone : gone' = gone \cup {x}
  /\ UNCHANGED <<limiterVars, broadcasterVars, registrationVars, visitors, phase, signals, jobVars>>

SocketsMove ==
  /\ \/ \E s \in Sockets \cap visitors : phase = "running" /\ Connect(s)
     \/ \E s \in Sockets : SocketStep(s)
     \/ \E a \in Rooms : FanOut(a)
  /\ UNCHANGED <<limiterVars, registrationVars, visitors, shutdownVars, jobVars>>

Environment ==
  /\ \/ ClockAdvances /\ UNCHANGED <<registrationVars>>
     \/ \E f \in Applications \cap visitors : SaleEnds(SaleOf[f]) /\ UNCHANGED limiterVars
  /\ UNCHANGED <<broadcasterVars, visitors, shutdownVars, jobVars>>

-----------------------------------------------------------------------------
(* Background jobs.  Their timers run until stopping; they are modelled    *)
(* where shutdown is, and in full in LotCloser and Settlement.             *)

JobStarts ==
  /\ phase \in {"running", "closing"}
  /\ Signal \cap visitors # {}
  /\ \/ closer = "waiting" /\ closer' = "settling" /\ UNCHANGED engine
     \/ engine = "waiting" /\ engine' = "calling" /\ UNCHANGED closer
  /\ UNCHANGED <<limiterVars, broadcasterVars, registrationVars, visitors, shutdownVars>>

CloserEnds ==
  /\ closer = "settling"
  /\ closer' = "waiting"
  /\ UNCHANGED <<limiterVars, broadcasterVars, registrationVars, visitors, shutdownVars, engine>>

(* The gateway answers.  After pool.end() the outcome cannot be written:   *)
(* the cycle fails, as CutOff in Settlement.                               *)
EngineWrites ==
  /\ engine = "calling"
  /\ engine' = IF PoolIsOpen THEN "writing" ELSE "waiting"
  /\ UNCHANGED <<limiterVars, broadcasterVars, registrationVars, visitors, shutdownVars, closer>>

EngineEnds ==
  /\ engine = "writing"
  /\ engine' = "waiting"
  /\ UNCHANGED <<limiterVars, broadcasterVars, registrationVars, visitors, shutdownVars, closer>>

-----------------------------------------------------------------------------
(* Shutdown.                                                               *)

Unchanged == UNCHANGED <<limiterVars, registrationVars, mapVars, visitors, gone, jobVars>>

(* The first signal begins the shutdown.  A second one begins another that *)
(* waits for the same things.                                              *)
ReceiveSignal(g) ==
  /\ g \in visitors \ signals
  /\ phase \notin {"exited", "crashed"}
  /\ signals' = signals \cup {g}
  /\ IF phase = "running" THEN phase' = "closing" /\ CloseAllSockets
                          ELSE UNCHANGED <<phase, sock>>
  /\ Unchanged

(* Mutant: the server does not wait for its requests.                      *)
HttpServerClosesAtOnce ==
  /\ phase = "closing"
  /\ phase' = "stopping"
  /\ UNCHANGED <<signals, sock>>
  /\ Unchanged

(* A client of the pool is in use for it: a transaction is open.           *)
BidInTransaction(r) == call[r].at = "processing"
FormInTransaction(f) == form[f].at \in {"updating", "inserting"}

(* app.close(): every connection has ended, so every request is answered   *)
(* whose client waited for it.  Then the timers of the jobs are cleared.   *)
HttpServerCloses ==
  /\ phase = "closing"
  /\ Served \subseteq gone
  /\ \A s \in Sockets : ~Up(s)
  /\ phase' = "stopping"
  /\ UNCHANGED <<signals, sock>>
  /\ Unchanged

(* waitForCurrentIteration()                                               *)
JobsStop ==
  /\ phase = "stopping"
  /\ closer = "waiting"
  /\ phase' = "ending"
  /\ UNCHANGED <<signals, sock>>
  /\ Unchanged

(* pool.end(): every client that is in use is returned.                    *)
PoolEnds ==
  /\ phase = "ending"
  /\ engine # "writing"
  /\ \A r \in Bids : ~BidInTransaction(r)
  /\ \A f \in Applications : ~FormInTransaction(f)
  /\ phase' = "quitting"
  /\ UNCHANGED <<signals, sock>>
  /\ Unchanged

RedisQuits ==
  /\ phase = "quitting"
  /\ phase' = "exited"
  /\ UNCHANGED <<signals, sock>>
  /\ Unchanged

(* The second shutdown calls pool.end() again, which is rejected, and an   *)
(* unhandled rejection ends the process.                                   *)
SecondEndRejected ==
  /\ phase \in {"ending", "quitting"}
  /\ signals = Signal
  /\ phase' = "crashed"
  /\ UNCHANGED <<signals, sock>>
  /\ Unchanged

Shutdown ==
  HttpServerCloses \/ JobsStop \/ PoolEnds \/ RedisQuits \/ SecondEndRejected

Over == phase \in {"exited", "crashed"}

(* A behaviour may end when the process has, or with nothing left to do.   *)
ApiDone ==
  /\ \/ Over
     \/ Signal \cap visitors = {} /\ \A r \in Bids \cap visitors : call[r].at \in BidFinal
  /\ UNCHANGED apiVars

ApiNext ==
  \/ /\ ~Over
     /\ \/ \E r \in Bids : BidStep(r)
        \/ \E f \in Applications : FormStep(f)
        \/ ClientLeaves \/ SocketsMove \/ Environment
        \/ JobStarts \/ CloserEnds \/ EngineWrites \/ EngineEnds
        \/ \E g \in Signal : ReceiveSignal(g)
        \/ Shutdown
  \/ ApiDone

ApiSpec == ApiInit /\ [][ApiNext]_apiVars

(* Requests, cycles and calls end, timers fire; nobody need visit.  A      *)
(* request has finitely many steps, so fairness for all of them together   *)
(* is enough.                                                              *)
FairApiSpec ==
  /\ ApiSpec
  /\ WF_apiVars(\E r \in Bids : ServedBid(r) /\ BidStep(r))
  /\ WF_apiVars(\E f \in Applications : ServedForm(f) /\ FormStep(f))
  /\ \A s \in Sockets :
       WF_apiVars(SocketTimers(s) /\ UNCHANGED
         <<limiterVars, registrationVars, visitors, shutdownVars, jobVars>>)
  /\ WF_apiVars(CloserEnds)
  /\ WF_apiVars(EngineEnds)
  /\ WF_apiVars(Shutdown)

-----------------------------------------------------------------------------
(* Properties.                                                             *)

ApiTypeOK ==
  /\ LimiterTypeOK /\ BroadcasterTypeOK /\ RegistrationTypeOK
  /\ phase \in {"running", "closing", "stopping", "ending", "quitting", "exited", "crashed"}
  /\ signals \subseteq Signal
  /\ gone \subseteq Bids \cup Applications
  /\ closer \in {"waiting", "settling"}
  /\ engine \in {"waiting", "calling", "writing"}

(* From pool.end() on every client that waited has its answer and every    *)
(* socket has been told, and no batch of lots is being settled; a request  *)
(* that is still served is one whose client has gone.  Redis is left, and  *)
(* the process exits, with no transaction open: such a request has ended   *)
(* its transaction, or it never gets one.                                  *)
StopsCleanly ==
  /\ phase \in {"ending", "quitting", "exited", "crashed"} =>
       /\ Served \subseteq gone
       /\ Registered = {}
       /\ closer = "waiting"
  /\ phase \in {"quitting", "exited"} =>
       /\ \A r \in Bids : ~BidInTransaction(r)
       /\ \A f \in Applications : ~FormInTransaction(f)
       /\ engine # "writing"

(* A signal ends the process, whatever is in flight, connected or silent.  *)
ShutdownCompletes == signals # {} ~> Over
=============================================================================
