----------------------------- MODULE AuctionCore -----------------------------
(***************************************************************************)
(* The bid processor, the lot closers and the operator's requests together *)
(* on the tables they share.  They meet in nothing but the database: the   *)
(* row locks on lots and on the auction, and the status and deadline of    *)
(* the rows.                                                               *)
(***************************************************************************)
EXTENDS BidProcessor, LotCloser, AuctionLifecycle

coreVars == <<bidVars, closerVars, lifecycleVars>>

(* A session does one of the three jobs.                                   *)
ASSUME SessionAssumption ==
  /\ Workers \cap Closers = {}
  /\ Workers \cap Operators = {}
  /\ Closers \cap Operators = {}

(* An auction that is scheduled or live starts with lots still to be sold: *)
(* the seed gives sold and passed lots to closed auctions only.            *)
ASSUME InitialLotsAssumption ==
  \A rows \in InitialLots : \A l \in Lots : rows[l].status \notin {"sold", "passed"}

CoreInit == BidInit /\ CloserInit /\ LifecycleInit

(* The bounds on submissions and orders end a behaviour here.              *)
AllDone ==
  /\ submitted = MaxSubmissions
  /\ \A w \in Workers : pc[w] = "idle"
  /\ \A c \in Closers : cpc[c] = "waiting"
  /\ \A o \in Operators : opc[o] = "idle"
  /\ UNCHANGED coreVars

CoreNext ==
  \/ BidStep /\ UNCHANGED <<closerVars, lifecycleVars>>
  \/ CloserStep /\ UNCHANGED <<keyVars, workerVars, lifecycleVars>>
  \/ OperatorStep /\ UNCHANGED <<keyVars, workerVars, closerVars>>
  \/ ClockTicks /\ UNCHANGED <<keyVars, workerVars, closerVars, lifecycleVars>>
  \/ AllDone

CoreSpec == CoreInit /\ [][CoreNext]_coreVars

(* Statements are executed, time passes, and the interval timer of every   *)
(* instance starts a cycle again.  Row locks are granted in turn, but the  *)
(* closer's SKIP LOCKED does not queue: for it only weak fairness holds.   *)
FairCoreSpec ==
  /\ CoreSpec
  /\ \A w \in Workers :
       SF_coreVars(WorkerStep(w) /\ UNCHANGED <<closerVars, lifecycleVars>>)
  /\ \A o \in Operators :
       SF_coreVars(OperatorWork(o) /\ UNCHANGED <<keyVars, workerVars, closerVars>>)
  /\ \A c \in Closers :
       WF_coreVars(CloserWork(c) /\ UNCHANGED <<keyVars, workerVars, lifecycleVars>>)

-----------------------------------------------------------------------------
(* Properties.                                                             *)

CoreTypeOK == BidTypeOK /\ CloserTypeOK /\ LifecycleTypeOK

(* Beside closers and operators, too, the audit trail tells of every bid   *)
(* once and with its amount, and while a lot is open the last extension it *)
(* tells of is the deadline the lot has.  A closing order sets a deadline  *)
(* that no event tells of.                                                 *)
AuditTrailOfSale ==
  \A l \in Lots : BidsAreTold(l) /\ (lot[l].status = "open" => DeadlineIsTold(l))

(* A lot whose reserve subscribers were told is met is never passed:       *)
(* reserveMet is computed before the proxy loop, and may arrive late, but  *)
(* prices do not fall, and the closer compares the reserve as the          *)
(* processor does.                                                         *)
ReserveMetMeansSold ==
  \A m \in feed : m.reserveMet => lot[m.lot].status # "passed"

(* The statement that session s is about to run waits until t ends its     *)
(* transaction.  An order's UPDATE waits for any lot it has still to       *)
(* visit.  A closer waits for no lot, with SKIP LOCKED, but its first      *)
(* invoice waits for the order that holds the auction's row, and an order  *)
(* that starts waits for the closers that have inserted one.               *)
WaitsFor(s, t) ==
  \/ /\ s \in Workers /\ pc[s] = "acquire"
     /\ keyRow[KeyOf(req[s])] = Null /\ keyLock[KeyOf(req[s])] = t
  \/ /\ s \in Workers /\ pc[s] = "unlock"
     /\ keyRow[KeyOf(req[s])] # Null /\ keyLock[KeyOf(req[s])] = t
  \/ /\ s \in Workers /\ pc[s] = "lockLot"
     /\ req[s].lot \in Lots /\ lotLock[req[s].lot] = t
  \/ /\ s \in Closers /\ cpc[s] = "settling" /\ s \notin auctionShare
     /\ LotsToInvoice(s) # {} /\ auctionLock = t
  \/ s \in Operators /\ opc[s] = "idle" /\ (auctionLock = t \/ t \in auctionShare)
  \/ s \in Operators /\ \E l \in targets[s] : lotLock[l] = t

(* No sessions wait for one another in a circle.  Keys are taken before    *)
(* lots, and a bid takes no second lot.  A closer takes lots before the    *)
(* auction's row and an order takes them after it, but they never want the *)
(* same: a closer holds lots that are closing, an order waits for others.  *)
NoCircularWait ==
  ~ \E circle \in SUBSET Sessions :
      circle # {} /\ \A s \in circle : \E t \in circle : WaitsFor(s, t)

AtWork(s) ==
  \/ s \in Workers /\ pc[s] # "idle"
  \/ s \in Closers /\ cpc[s] # "waiting"
  \/ s \in Operators /\ opc[s] # "idle"

(* A session that is at work, or that others wait for, and that waits for  *)
(* nobody itself can go on, so that with NoCircularWait somebody always    *)
(* can: nobody waits for a session that is over.                           *)
WorkGoesOn ==
  \A s \in Sessions :
    /\ AtWork(s) \/ \E t \in Sessions : WaitsFor(t, s)
    /\ ~ \E t \in Sessions : WaitsFor(s, t)
    => \/ s \in Workers /\ ENABLED WorkerStep(s)
       \/ s \in Closers /\ ENABLED CloserWork(s)
       \/ s \in Operators /\ ENABLED OperatorWork(s)

(* A lot that a closer ought to settle is settled, or an accepted bid has  *)
(* extended its deadline and opened it again: a lot cannot be skipped      *)
(* forever, nor can one failing batch keep it from closing.                *)
DueLotsAreSettled ==
  \A l \in Lots :
    IsDue(l) ~> lot[l].status \in {"sold", "passed", "open"}
=============================================================================
