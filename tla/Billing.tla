------------------------------- MODULE Billing -------------------------------
(***************************************************************************)
(* What settlement promises about an invoice: it is charged at most once,  *)
(* paid exactly when its charge is recorded, and overdue only after        *)
(* RetryMax refusals.                                                      *)
(*                                                                         *)
(* The promise ends where the program cannot keep it: once the outcome of  *)
(* a call to the gateway is lost, or two payers work on an invoice at the  *)
(* same time, the invoice is disputed and nothing is promised about it.    *)
(***************************************************************************)
EXTENDS Integers

CONSTANTS
  Invoices,
  Null,
  RetryMax   \* refusals after which an invoice is overdue

VARIABLES
  bill,      \* invoice -> its status, charges and refusals, Null if not issued
  disputed   \* the invoices nothing is promised about

billingVars == <<bill, disputed>>

BillingInit ==
  /\ bill = [i \in Invoices |-> Null]
  /\ disputed = {}

Promised(i) == bill[i] # Null /\ i \notin disputed

Issue(i) ==
  /\ bill[i] = Null
  /\ bill' = [bill EXCEPT ![i] = [status |-> "pending", charges |-> 0, tries |-> 0]]
  /\ UNCHANGED disputed

Charge(i) ==
  /\ Promised(i)
  /\ bill[i].charges = 0
  /\ bill' = [bill EXCEPT ![i].charges = 1]
  /\ UNCHANGED disputed

Settle(i) ==
  /\ Promised(i)
  /\ bill[i].charges = 1
  /\ bill' = [bill EXCEPT ![i].status = "paid"]
  /\ UNCHANGED disputed

(* An overdue invoice may still be tried, on request.                      *)
Refuse(i) ==
  /\ Promised(i)
  /\ bill[i].charges = 0
  /\ bill' = [bill EXCEPT ![i].tries = @ + 1,
                          ![i].status = IF bill[i].tries + 1 >= RetryMax
                                        THEN "overdue" ELSE "pending"]
  /\ UNCHANGED disputed

(* Invoices become disputed, or change after they are.                     *)
Dispute ==
  /\ disputed' # {}
  /\ disputed \subseteq disputed'
  /\ \A i \in Invoices \ disputed' : UNCHANGED bill[i]

BillingNext ==
  \/ \E i \in Invoices : Issue(i) \/ Charge(i) \/ Settle(i) \/ Refuse(i)
  \/ Dispute

BillingSpec == BillingInit /\ [][BillingNext]_billingVars
=============================================================================
