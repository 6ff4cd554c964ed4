----------------------------- MODULE Settlement -----------------------------
(***************************************************************************)
(* src/internal/settlement/payment.ts: the engine that captures the        *)
(* payment of pending invoices every ten minutes, in every instance of the *)
(* service, and POST /invoices/:id/pay, which does the same for one        *)
(* invoice on request.                                                     *)
(*                                                                         *)
(* A payer is a cycle of an engine or a request at the pay desk.  It works *)
(* on rows as it has read them, without a lock, across a call to the       *)
(* payment gateway; every statement is a transaction of its own.           *)
(*                                                                         *)
(*   idle -> (asked ->) calling -> approved -> calling or idle             *)
(*                              \-> refused -/                             *)
(*                              \-> failed -/                              *)
(*                                                                         *)
(* calling is from the start of processInvoice to the gateway's answer:    *)
(* that the call is sent can be seen only by what the gateway does.        *)
(* failed is the catch block of processInvoice.  An hour of backoff is a   *)
(* flag that falls at some time, since no statement has a time limit.      *)
(***************************************************************************)
EXTENDS Integers, FiniteSets

CONSTANTS
  Null,
  Invoices,     \* numbers of the invoices, by created_at
  Engines,      \* the cycles of settlement engines that may overlap
  Desks,        \* the pay requests that may overlap
  RetryMax,     \* SETTLEMENT_RETRY_MAX
  CycleLimit,   \* LIMIT of the engine's query
  MaxEvents     \* bound: invoices created, pay requests, unanswered calls,
                \* failed statements and payers cut off in a behaviour

VARIABLES
  invoice,      \* settlement_invoices: invoice -> its row, Null before it exists
  pay,          \* payer -> where it is, the rows it has still to do, its answer
  charges,      \* gateway: invoice -> captures made
  unanswered,   \* gateway: invoice -> calls given up that it may still carry out
  doubtful,     \* history: invoices whose outcome was lost or that two payers
                \* worked on at the same time
  happened      \* of the events that MaxEvents bounds, so far

gatewayVars == <<charges, unanswered>>
settlementVars == <<invoice, pay, charges, unanswered, doubtful, happened>>

Payers == Engines \cup Desks

Status == {"pending", "paid", "overdue"}

(* A payment_ref is the number of the capture it belongs to.               *)
InvoiceRow ==
  [status: Status, ref: Nat \cup {Null}, retries: Nat, waiting: BOOLEAN]

ASSUME SettlementAssumption ==
  /\ Invoices \subseteq Nat
  /\ IsFiniteSet(Invoices)
  /\ Engines \cap Desks = {}
  /\ RetryMax \in Nat \ {0}
  /\ CycleLimit \in Nat \ {0}
  /\ MaxEvents \in Nat
  /\ Null \notin Nat \cup InvoiceRow \cup [status: Status, charges: Nat, tries: Nat]

FreshInvoice ==
  [status |-> "pending", ref |-> Null, retries |-> 0, waiting |-> FALSE]

Idle == [at |-> "idle", todo |-> <<>>, answer |-> Null]

SettlementInit ==
  /\ invoice = [i \in Invoices |-> Null]
  /\ pay = [p \in Payers |-> Idle]
  /\ charges = [i \in Invoices |-> 0]
  /\ unanswered = [i \in Invoices |-> 0]
  /\ doubtful = {}
  /\ happened = 0

Issued(i) == invoice[i] # Null

(* createInvoice of the lot closer.                                        *)
CreateInvoice(i) ==
  /\ ~Issued(i)
  /\ \A j \in Invoices : j < i => Issued(j)
  /\ happened < MaxEvents
  /\ invoice' = [invoice EXCEPT ![i] = FreshInvoice]
  /\ happened' = happened + 1
  /\ UNCHANGED <<pay, gatewayVars, doubtful>>

-----------------------------------------------------------------------------
(* A payer takes invoices in hand.                                         *)

Holders(i) == {p \in Payers : pay[p].at \notin {"idle", "asked"} /\ i \in DOMAIN pay[p].todo}

(* p reads the rows of S: those another payer has in hand become doubtful. *)
TakesInHand(p, S) ==
  /\ pay' = [pay EXCEPT ![p] = [Idle EXCEPT !.at = "calling",
                                            !.todo = [i \in S |-> invoice[i]]]]
  /\ doubtful' = doubtful \cup {i \in S : Holders(i) # {}}

(* The WHERE clause of the engine's query.                                 *)
IsPayable(i) ==
  /\ Issued(i)
  /\ invoice[i].status = "pending"
  /\ invoice[i].ref = Null
  /\ ~invoice[i].waiting

(* processPendingInvoices: ORDER BY created_at LIMIT CycleLimit            *)
StartCycle(e) ==
  LET payable == {i \in Invoices : IsPayable(i)}
      chosen == {i \in payable : Cardinality({j \in payable : j < i}) < CycleLimit} IN
  /\ pay[e].at = "idle"
  /\ chosen # {}
  /\ TakesInHand(e, chosen)
  /\ UNCHANGED <<invoice, gatewayVars, happened>>

(* The pay route reads the status; a paid invoice is answered at once.     *)
AskToPay(d, i) ==
  /\ pay[d].at = "idle"
  /\ happened < MaxEvents
  /\ Issued(i)
  /\ invoice[i].status # "paid"
  /\ pay' = [pay EXCEPT ![d] = [Idle EXCEPT !.at = "asked",
                                            !.todo = [j \in {i} |-> invoice[j]]]]
  /\ happened' = happened + 1
  /\ UNCHANGED <<invoice, gatewayVars, doubtful>>

(* processInvoiceById reads the row again.                                 *)
ReadInvoice(d) ==
  /\ pay[d].at = "asked"
  /\ TakesInHand(d, DOMAIN pay[d].todo)
  /\ UNCHANGED <<invoice, gatewayVars, happened>>

-----------------------------------------------------------------------------
(* processInvoice.                                                         *)

(* The invoice that p works on, and its row as p has read it.              *)
Current(p) ==
  CHOOSE i \in DOMAIN pay[p].todo : \A j \in DOMAIN pay[p].todo : i <= j
RowRead(p) == pay[p].todo[Current(p)]

(* Mutant: the engine believes it is done after one invoice.               *)
IsDoneAfterOne(p) ==
  pay' = [pay EXCEPT ![p].at = "idle", ![p].answer = Null,
                     ![p].todo = [i \in DOMAIN @ \ {Current(p)} |-> @[i]]]

(* p goes on with the next invoice of its cycle.                           *)
GoesOn(p) ==
  LET rest == DOMAIN pay[p].todo \ {Current(p)} IN
  pay' = [pay EXCEPT ![p] =
            IF rest = {} THEN Idle
            ELSE [Idle EXCEPT !.at = "calling", !.todo = [i \in rest |-> pay[p].todo[i]]]]

(* if (invoice.payment_ref) return                                         *)
SkipInvoice(p) ==
  /\ pay[p].at = "calling"
  /\ RowRead(p).ref # Null
  /\ GoesOn(p)
  /\ UNCHANGED <<invoice, gatewayVars, doubtful, happened>>

Calls(p) == pay[p].at = "calling" /\ RowRead(p).ref = Null

GatewayApproves(p) ==
  LET i == Current(p) IN
  /\ Calls(p)
  /\ charges' = [charges EXCEPT ![i] = @ + 1]
  /\ pay' = [pay EXCEPT ![p].at = "approved", ![p].answer = charges[i] + 1]
  /\ UNCHANGED <<invoice, unanswered, doubtful, happened>>

GatewayRefuses(p) ==
  /\ Calls(p)
  /\ pay' = [pay EXCEPT ![p].at = "refused"]
  /\ UNCHANGED <<invoice, gatewayVars, doubtful, happened>>

(* Mutant: a call without an answer counts as approved.                    *)
GatewayPresumed(p) ==
  LET i == Current(p) IN
  /\ Calls(p)
  /\ happened < MaxEvents
  /\ pay' = [pay EXCEPT ![p].at = "approved", ![p].answer = charges[i] + 1]
  /\ doubtful' = doubtful \cup {i}
  /\ happened' = happened + 1
  /\ UNCHANGED <<invoice, gatewayVars>>

(* No answer in ten seconds, or one that is no JSON: the gateway may have  *)
(* carried out the call, may still do so, or never will.                   *)
GatewayIsSilent(p) ==
  LET i == Current(p) IN
  /\ Calls(p)
  /\ happened < MaxEvents
  /\ pay' = [pay EXCEPT ![p].at = "failed"]
  /\ unanswered' = [unanswered EXCEPT ![i] = @ + 1]
  /\ doubtful' = doubtful \cup {i}
  /\ happened' = happened + 1
  /\ UNCHANGED <<invoice, charges>>

LateCapture(i) ==
  /\ unanswered[i] > 0
  /\ unanswered' = [unanswered EXCEPT ![i] = @ - 1]
  /\ charges' = [charges EXCEPT ![i] = @ + 1]
  /\ UNCHANGED <<invoice, pay, doubtful, happened>>

-----------------------------------------------------------------------------
(* The outcome is written down.                                            *)

PaidRow(p) ==
  [invoice[Current(p)] EXCEPT !.status = "paid", !.ref = pay[p].answer]

(* Mutant: one attempt too many.                                           *)
RefusedRowLate(p) ==
  LET count == RowRead(p).retries + 1 IN
  IF count > RetryMax
  THEN [invoice[Current(p)] EXCEPT !.status = "overdue", !.retries = count]
  ELSE [invoice[Current(p)] EXCEPT !.retries = count, !.waiting = TRUE]

(* Mutant: the attempts are not counted.                                   *)
RefusedRowUncounted(p) == [invoice[Current(p)] EXCEPT !.waiting = TRUE]

(* handleDecline: the count is that of the row as it was read.             *)
RefusedRow(p) ==
  LET count == RowRead(p).retries + 1 IN
  IF count >= RetryMax
  THEN [invoice[Current(p)] EXCEPT !.status = "overdue", !.retries = count]
  ELSE [invoice[Current(p)] EXCEPT !.retries = count, !.waiting = TRUE]

Update(p) == IF pay[p].at = "approved" THEN PaidRow(p) ELSE RefusedRow(p)

RecordOutcome(p) ==
  /\ pay[p].at \in {"approved", "refused", "failed"}
  /\ invoice' = [invoice EXCEPT ![Current(p)] = Update(p)]
  /\ GoesOn(p)
  /\ UNCHANGED <<gatewayVars, doubtful, happened>>

(* next_retry_at passes.                                                   *)
RetryDue(i) ==
  /\ Issued(i)
  /\ invoice[i].waiting
  /\ invoice' = [invoice EXCEPT ![i].waiting = FALSE]
  /\ UNCHANGED <<pay, gatewayVars, doubtful, happened>>

-----------------------------------------------------------------------------
(* Faults.                                                                 *)

(* The UPDATE fails, or takes effect and is not acknowledged.  In the try  *)
(* block that is a decline, in the catch block it ends the cycle.          *)
UpdateFails(p) ==
  LET i == Current(p) IN
  /\ pay[p].at \in {"approved", "refused", "failed"}
  /\ happened < MaxEvents
  /\ invoice' \in {invoice, [invoice EXCEPT ![i] = Update(p)]}
  /\ pay' = [pay EXCEPT ![p] = IF pay[p].at = "failed" THEN Idle
                               ELSE [pay[p] EXCEPT !.at = "failed", !.answer = Null]]
  /\ doubtful' = doubtful \cup {j \in {i} : pay[p].at = "approved"}
  /\ happened' = happened + 1
  /\ UNCHANGED <<gatewayVars>>

(* A SELECT fails: that of the pay route, or of the lot's title before the *)
(* try block.  The rest of the cycle is left to a later one.               *)
SelectFails(p) ==
  /\ pay[p].at \in {"asked", "calling"}
  /\ happened < MaxEvents
  /\ pay' = [pay EXCEPT ![p] = Idle]
  /\ happened' = happened + 1
  /\ UNCHANGED <<invoice, gatewayVars, doubtful>>

(* The instance crashes, or is shut down, while p waits for the gateway or *)
(* is about to write the outcome down; it starts again.                    *)
CutOff(p) ==
  LET i == Current(p) IN
  /\ Calls(p) \/ pay[p].at \in {"approved", "refused", "failed"}
  /\ happened < MaxEvents
  /\ pay' = [pay EXCEPT ![p] = Idle]
  /\ unanswered' = IF Calls(p) THEN [unanswered EXCEPT ![i] = @ + 1] ELSE unanswered
  /\ doubtful' = doubtful \cup {j \in {i} : Calls(p) \/ pay[p].at = "approved"}
  /\ happened' = happened + 1
  /\ UNCHANGED <<invoice, charges>>

-----------------------------------------------------------------------------
PayerStep(p) ==
  \/ SkipInvoice(p)
  \/ GatewayApproves(p) \/ GatewayRefuses(p) \/ GatewayIsSilent(p)
  \/ RecordOutcome(p)

EngineStep(e) == StartCycle(e) \/ PayerStep(e)

DeskStep(d) == ReadInvoice(d) \/ PayerStep(d)

(* Nothing is left to do: here a behaviour may end.                        *)
SettlementDone ==
  /\ \A p \in Payers : pay[p].at = "idle"
  /\ \A i \in Invoices : Issued(i) => invoice[i].status # "pending"
  /\ UNCHANGED settlementVars

SettlementNext ==
  \/ \E i \in Invoices : CreateInvoice(i) \/ RetryDue(i) \/ LateCapture(i)
  \/ \E e \in Engines : StartCycle(e)
  \/ \E d \in Desks : ReadInvoice(d) \/ \E i \in Invoices : AskToPay(d, i)
  \/ \E p \in Payers : PayerStep(p) \/ UpdateFails(p) \/ SelectFails(p) \/ CutOff(p)
  \/ SettlementDone

SettlementSpec == SettlementInit /\ [][SettlementNext]_settlementVars

(* The interval timer starts cycles, calls end within ten seconds, and an  *)
(* hour passes.  The gateway need never approve, nor carry out a call that *)
(* was given up.                                                           *)
FairSettlementSpec ==
  /\ SettlementSpec
  /\ \A e \in Engines : WF_settlementVars(EngineStep(e))
  /\ \A d \in Desks : WF_settlementVars(DeskStep(d))
  /\ \A i \in Invoices : WF_settlementVars(RetryDue(i))

-----------------------------------------------------------------------------
(* Properties.                                                             *)

(* Rows, payers and counters keep their shape: a payer at rest has nothing *)
(* in hand, and it has a payment reference exactly while it is to be       *)
(* written down.                                                           *)
SettlementTypeOK ==
  /\ invoice \in [Invoices -> InvoiceRow \cup {Null}]
  /\ \A p \in Payers :
       /\ pay[p].at \in {"idle", "asked", "calling", "approved", "refused", "failed"}
       /\ DOMAIN pay[p].todo \subseteq Invoices
       /\ \A i \in DOMAIN pay[p].todo : pay[p].todo[i] \in InvoiceRow
       /\ pay[p].at = "idle" <=> DOMAIN pay[p].todo = {}
       /\ IF pay[p].at = "approved" THEN pay[p].answer \in Nat ELSE pay[p].answer = Null
  /\ charges \in [Invoices -> Nat]
  /\ unanswered \in [Invoices -> Nat]
  /\ doubtful \subseteq Invoices
  /\ happened \in 0 .. MaxEvents

(* A payment reference is that of a capture that took place, and only paid *)
(* invoices lack none, whatever payers overlap and whatever fails.         *)
PaymentsAreReal ==
  \A i \in Invoices : Issued(i) =>
    /\ invoice[i].ref # Null => invoice[i].ref \in 1 .. charges[i]
    /\ invoice[i].status = "paid" => invoice[i].ref # Null

(* The engines and the desk implement Billing: an invoice whose calls were *)
(* all answered and that one payer at a time worked on is charged at most  *)
(* once, and overdue after RetryMax refusals.                              *)
Bills == INSTANCE Billing WITH
  disputed <- doubtful,
  bill <- [i \in Invoices |->
             IF Issued(i)
             THEN [status |-> invoice[i].status, charges |-> charges[i],
                   tries |-> invoice[i].retries]
             ELSE Null]
KeepsTheBill == Bills!BillingSpec

(* Every invoice is paid or given up as overdue, although writers with a   *)
(* stale retry_count set it back and cycles are cut off; and a capture is  *)
(* written down, unless its invoice is doubtful.                           *)
InvoicesAreSettled ==
  \A i \in Invoices :
    Issued(i) ~> /\ Issued(i)
                 /\ invoice[i].status \in {"paid", "overdue"}
                 /\ \/ charges[i] = 0
                    \/ invoice[i].status = "paid"
                    \/ i \in doubtful

(* src/README.md: "payment skipped if payment_ref already set (prevents    *)
(* duplicate captures)".  Two engines read the same row before either has  *)
(* written its reference.                                                  *)
ChargedOnce == \A i \in Invoices : charges[i] <= 1
=============================================================================
