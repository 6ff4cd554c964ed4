-------------------------- MODULE SettlementProofs --------------------------
(***************************************************************************)
(* Proofs about Settlement, for any number of invoices, engines and desks, *)
(* and any bounds.                                                         *)
(***************************************************************************)
EXTENDS Settlement, FiniteSetTheorems, WellFoundedInduction, TLAPS

-----------------------------------------------------------------------------
(* Type correctness.                                                       *)

Places == {"idle", "asked", "calling", "approved", "refused", "failed"}

(* Rows that a payer has read.                                             *)
Reads == {<<>>} \cup UNION {[S -> InvoiceRow] : S \in SUBSET Invoices}

Payer == [at: Places, todo: Reads, answer: Nat \cup {Null}]

(* Every payer is a record, and has read the rows of issued invoices only. *)
PayersAreEquipped ==
  /\ pay \in [Payers -> Payer]
  /\ \A p \in Payers : \A i \in DOMAIN pay[p].todo : Issued(i)

TypeInv == SettlementTypeOK /\ PayersAreEquipped

(* A payer that is not idle works on one of the invoices in its hands.     *)
LEMMA CurrentInHand ==
  ASSUME TypeInv, NEW p \in Payers, pay[p].at # "idle"
  PROVE  /\ Current(p) \in DOMAIN pay[p].todo
         /\ Current(p) \in Invoices
         /\ Issued(Current(p))
         /\ RowRead(p) \in InvoiceRow
<1>. DEFINE S == DOMAIN pay[p].todo
<1>1. S # {} /\ S \subseteq Invoices /\ \A i \in S : Issued(i) /\ pay[p].todo[i] \in InvoiceRow
  BY DEF TypeInv, SettlementTypeOK, PayersAreEquipped
<1>2. S \subseteq Nat
  BY <1>1, SettlementAssumption
<1>. HIDE DEF S
<1>3. PICK m \in S : \A k \in S : <<k, m>> \notin OpToRel(<, Nat)
  BY <1>1, <1>2, NatLessThanWellFounded, WFMin
<1>4. \A k, j \in Nat : k < j => <<k, j>> \in OpToRel(<, Nat)
  BY Zenon DEF OpToRel
<1>5. \A k \in S : ~(k < m)
  BY <1>2, <1>3, <1>4, Zenon
<1>6. \A k \in S : m <= k
  BY <1>2, <1>5
<1>7. Current(p) \in S
  BY <1>6 DEF Current, S
<1>. QED
  BY <1>1, <1>7 DEF S, RowRead

(* What a payer has read is a row for each invoice in its hands.           *)
LEMMA ReadsAreRows ==
  ASSUME NEW f \in Reads
  PROVE  /\ DOMAIN f \subseteq Invoices
         /\ \A i \in DOMAIN f : f[i] \in InvoiceRow
BY DEF Reads

(* Rows that are picked from stored or from read rows can be read.         *)
LEMMA RowsAreReads ==
  ASSUME NEW S \in SUBSET Invoices, NEW f, \A i \in S : f[i] \in InvoiceRow
  PROVE  [i \in S |-> f[i]] \in Reads
BY DEF Reads

(* The payer p takes up the rows of S.                                     *)
LEMMA TakenUp ==
  ASSUME TypeInv, NEW p \in Payers, NEW place \in Places, NEW read \in Reads,
         pay' = [pay EXCEPT ![p] = [Idle EXCEPT !.at = place, !.todo = read]]
  PROVE  /\ pay' \in [Payers -> Payer]
         /\ \A q \in Payers \ {p} : pay'[q] = pay[q]
         /\ pay'[p].at = place /\ pay'[p].todo = read /\ pay'[p].answer = Null
<1>. DEFINE next == [Idle EXCEPT !.at = place, !.todo = read]
<1>1. Idle \in Payer /\ Idle.answer = Null
  BY DEF Idle, Payer, Reads, Places
<1>2. next \in Payer /\ next.at = place /\ next.todo = read /\ next.answer = Null
  BY <1>1 DEF Payer
<1>. HIDE DEF next
<1>. QED
  BY <1>2 DEF TypeInv, PayersAreEquipped, next

(* The payer p lets go of everything.                                      *)
LEMMA LetGo ==
  ASSUME TypeInv, NEW p \in Payers, pay' = [pay EXCEPT ![p] = Idle]
  PROVE  /\ pay' \in [Payers -> Payer]
         /\ \A q \in Payers \ {p} : pay'[q] = pay[q]
         /\ pay'[p].at = "idle" /\ DOMAIN pay'[p].todo = {} /\ pay'[p].answer = Null
<1>1. Idle \in Payer /\ DOMAIN Idle.todo = {}
  BY DEF Idle, Payer, Reads, Places
<1>. QED
  BY <1>1 DEF TypeInv, PayersAreEquipped, Idle

(* The payer p goes on with the rest of its invoices, if there are any.    *)
LEMMA WentOn ==
  ASSUME TypeInv, NEW p \in Payers, GoesOn(p), pay[p].at # "idle"
  PROVE  LET rest == DOMAIN pay[p].todo \ {Current(p)} IN
         /\ pay' \in [Payers -> Payer]
         /\ \A q \in Payers \ {p} : pay'[q] = pay[q]
         /\ pay'[p].at = IF rest = {} THEN "idle" ELSE "calling"
         /\ pay'[p].answer = Null
         /\ DOMAIN pay'[p].todo = rest
         /\ \A i \in rest : pay'[p].todo[i] = pay[p].todo[i]
<1>. DEFINE rest == DOMAIN pay[p].todo \ {Current(p)}
            read == [i \in rest |-> pay[p].todo[i]]
<1>1. rest \in SUBSET Invoices /\ \A i \in rest : pay[p].todo[i] \in InvoiceRow
  BY DEF TypeInv, SettlementTypeOK
<1>2. CASE rest = {}
  BY <1>2, LetGo DEF GoesOn
<1>3. CASE rest # {}
  <2>1. read \in Reads
    BY <1>1, RowsAreReads
  <2>2. pay' = [pay EXCEPT ![p] = [Idle EXCEPT !.at = "calling", !.todo = read]]
    BY <1>3 DEF GoesOn
  <2>3. "calling" \in Places
    BY DEF Places
  <2>4. DOMAIN read = rest /\ \A i \in rest : read[i] = pay[p].todo[i]
    OBVIOUS
  <2>. HIDE DEF read
  <2>5. /\ pay' \in [Payers -> Payer]
        /\ \A q \in Payers \ {p} : pay'[q] = pay[q]
        /\ pay'[p].at = "calling" /\ pay'[p].todo = read /\ pay'[p].answer = Null
    BY <2>1, <2>2, <2>3, TakenUp, Zenon
  <2>. QED
    BY <1>3, <2>4, <2>5
<1>. QED
  BY <1>2, <1>3

(* A step that only moves the payer p on, from place to place, with what   *)
(* it has read.                                                            *)
Moved(p, place, answer) ==
  /\ pay' \in [Payers -> Payer]
  /\ \A q \in Payers \ {p} : pay'[q] = pay[q]
  /\ pay'[p].at = place
  /\ pay'[p].todo = pay[p].todo
  /\ pay'[p].answer = answer

(* The forms in which the actions move a payer on come to the same.        *)
LEMMA MovedOn ==
  ASSUME TypeInv, NEW p \in Payers, NEW place \in Places, NEW answer \in Nat \cup {Null},
         \/ pay' = [pay EXCEPT ![p].at = place] /\ answer = pay[p].answer
         \/ pay' = [pay EXCEPT ![p].at = place, ![p].answer = answer]
         \/ pay' = [pay EXCEPT ![p] = [pay[p] EXCEPT !.at = place, !.answer = answer]]
  PROVE  Moved(p, place, answer)
<1>1. pay \in [Payers -> Payer] /\ pay[p] \in Payer
  BY DEF TypeInv, PayersAreEquipped
<1>. QED
  BY <1>1, ZenonT(60) DEF Payer, Moved

(* After a step of p alone, payers keep their shape if p does.             *)
LEMMA PayersKept ==
  ASSUME TypeInv, NEW p \in Payers,
         pay' \in [Payers -> Payer],
         \A q \in Payers \ {p} : pay'[q] = pay[q],
         \A i \in Invoices : Issued(i) => Issued(i)',
         \A i \in DOMAIN pay'[p].todo : Issued(i)',
         pay'[p].at = "idle" <=> DOMAIN pay'[p].todo = {},
         IF pay'[p].at = "approved" THEN pay'[p].answer \in Nat ELSE pay'[p].answer = Null
  PROVE  /\ PayersAreEquipped'
         /\ \A q \in Payers :
              /\ pay'[q].at \in Places
              /\ DOMAIN pay'[q].todo \subseteq Invoices
              /\ \A i \in DOMAIN pay'[q].todo : pay'[q].todo[i] \in InvoiceRow
              /\ pay'[q].at = "idle" <=> DOMAIN pay'[q].todo = {}
              /\ IF pay'[q].at = "approved" THEN pay'[q].answer \in Nat
                 ELSE pay'[q].answer = Null
<1>1. \A q \in Payers : pay'[q].todo \in Reads /\ pay'[q].at \in Places
  BY DEF Payer
<1>2. \A q \in Payers : /\ DOMAIN pay'[q].todo \subseteq Invoices
                        /\ \A i \in DOMAIN pay'[q].todo : pay'[q].todo[i] \in InvoiceRow
  BY <1>1, ReadsAreRows
<1>3. \A q \in Payers : \A i \in DOMAIN pay'[q].todo : Issued(i)'
  <2>. SUFFICES ASSUME NEW q \in Payers \ {p}, NEW i \in DOMAIN pay'[q].todo
                PROVE  Issued(i)'
    OBVIOUS
  <2>. QED  BY <1>2 DEF TypeInv, PayersAreEquipped
<1>. QED
  BY <1>1, <1>2, <1>3 DEF TypeInv, PayersAreEquipped, SettlementTypeOK

(* Writing a row keeps the table.                                          *)
LEMMA RowWritten ==
  ASSUME TypeInv, NEW i \in Invoices, NEW row \in InvoiceRow,
         invoice' = [invoice EXCEPT ![i] = row]
  PROVE  /\ invoice' \in [Invoices -> InvoiceRow \cup {Null}]
         /\ Issued(i)'
         /\ invoice'[i] = row
         /\ \A j \in Invoices : j # i => invoice'[j] = invoice[j]
         /\ \A j \in Invoices : Issued(j) => Issued(j)'
BY SettlementAssumption DEF TypeInv, SettlementTypeOK, Issued

(* Initially every row and every payer is well-typed.                      *)
LEMMA TypeInvInit == SettlementInit => TypeInv
<1>. SUFFICES ASSUME SettlementInit PROVE TypeInv
  OBVIOUS
<1>1. Idle \in Payer /\ Idle.at = "idle" /\ DOMAIN Idle.todo = {} /\ Idle.answer = Null
  BY DEF Idle, Payer, Reads, Places
<1>. QED
  BY <1>1, SettlementAssumption DEF SettlementInit, TypeInv, SettlementTypeOK, PayersAreEquipped

(* The row that a payer writes is a row.                                   *)
LEMMA UpdateIsRow ==
  ASSUME TypeInv, NEW p \in Payers, pay[p].at \in {"approved", "refused", "failed"}
  PROVE  Update(p) \in InvoiceRow
<1>1. invoice[Current(p)] \in InvoiceRow /\ RowRead(p) \in InvoiceRow
  BY CurrentInHand DEF TypeInv, SettlementTypeOK, Issued
<1>2. pay[p].at = "approved" => pay[p].answer \in Nat
  BY DEF TypeInv, SettlementTypeOK
<1>3. RowRead(p).retries + 1 \in Nat
  BY <1>1 DEF InvoiceRow, Status
<1>. QED
  BY <1>1, <1>2, <1>3 DEF Update, PaidRow, RefusedRow, InvoiceRow, Status

(* Every step keeps the types.                                             *)
LEMMA TypeInvKept ==
  ASSUME TypeInv, [SettlementNext]_settlementVars
  PROVE  TypeInv'
<1>. USE SettlementAssumption
<1>1. ASSUME NEW i \in Invoices, CreateInvoice(i) \/ RetryDue(i) \/ LateCapture(i)
      PROVE  TypeInv'
  <2>1. FreshInvoice \in InvoiceRow
    BY DEF FreshInvoice, InvoiceRow, Status
  <2>2. CASE CreateInvoice(i)
    BY <2>1, <2>2 DEF CreateInvoice, gatewayVars, TypeInv, SettlementTypeOK, PayersAreEquipped,
                      Issued
  <2>3. CASE RetryDue(i)
    <3>1. [invoice[i] EXCEPT !.waiting = FALSE] \in InvoiceRow
      <4>1. invoice[i] \in InvoiceRow
        BY <2>3 DEF RetryDue, Issued, TypeInv, SettlementTypeOK
      <4>. QED
        BY <4>1 DEF InvoiceRow
    <3>2. invoice' = [invoice EXCEPT ![i] = [invoice[i] EXCEPT !.waiting = FALSE]]
      BY <2>3 DEF RetryDue
    <3>3. /\ invoice' \in [Invoices -> InvoiceRow \cup {Null}]
          /\ \A j \in Invoices : Issued(j) => Issued(j)'
      BY <3>1, <3>2, RowWritten
    <3>. QED
      BY <2>3, <3>3 DEF RetryDue, gatewayVars, TypeInv, SettlementTypeOK, PayersAreEquipped
  <2>4. CASE LateCapture(i)
    <3>1. charges' \in [Invoices -> Nat] /\ unanswered' \in [Invoices -> Nat]
      BY <2>4 DEF LateCapture, TypeInv, SettlementTypeOK
    <3>. QED
      BY <2>4, <3>1 DEF LateCapture, TypeInv, SettlementTypeOK, PayersAreEquipped, Issued
  <2>. QED
    BY <1>1, <2>2, <2>3, <2>4
<1>2. ASSUME NEW p \in Payers, NEW S \in SUBSET Invoices, S # {}, \A i \in S : Issued(i),
             TakesInHand(p, S), UNCHANGED <<invoice, gatewayVars, happened>>
      PROVE  TypeInv'
  <2>. DEFINE read == [i \in S |-> invoice[i]]
  <2>1. read \in Reads
    BY <1>2, RowsAreReads DEF TypeInv, SettlementTypeOK, Issued
  <2>2. pay' = [pay EXCEPT ![p] = [Idle EXCEPT !.at = "calling", !.todo = read]]
    BY <1>2 DEF TakesInHand
  <2>3. DOMAIN read = S
    OBVIOUS
  <2>. HIDE DEF read
  <2>4. /\ pay' \in [Payers -> Payer]
        /\ \A q \in Payers \ {p} : pay'[q] = pay[q]
        /\ pay'[p].at = "calling" /\ pay'[p].todo = read /\ pay'[p].answer = Null
    BY <2>1, <2>2, TakenUp, Zenon DEF Places
  <2>. QED
    <3>1. doubtful' \subseteq Invoices /\ UNCHANGED <<invoice, charges, unanswered, happened>>
      BY <1>2 DEF TakesInHand, gatewayVars, TypeInv, SettlementTypeOK
    <3>2. \A i \in DOMAIN pay'[p].todo : Issued(i)'
      BY <1>2, <2>3, <2>4, <3>1 DEF Issued
    <3>3. /\ pay'[p].at = "idle" <=> DOMAIN pay'[p].todo = {}
          /\ IF pay'[p].at = "approved" THEN pay'[p].answer \in Nat ELSE pay'[p].answer = Null
      BY <1>2, <2>3, <2>4
    <3>. QED
      BY <2>4, <3>1, <3>2, <3>3, PayersKept DEF TypeInv, SettlementTypeOK, Issued, Places
<1>3. ASSUME NEW d \in Desks, NEW i \in Invoices, AskToPay(d, i)
      PROVE  TypeInv'
  <2>. DEFINE read == [j \in {i} |-> invoice[j]]
  <2>1. d \in Payers /\ "asked" \in Places
    BY DEF Payers, Places
  <2>2. read \in Reads
    BY <1>3, RowsAreReads, SMTT(30) DEF AskToPay, TypeInv, SettlementTypeOK, Issued
  <2>3. pay' = [pay EXCEPT ![d] = [Idle EXCEPT !.at = "asked", !.todo = read]]
    BY <1>3 DEF AskToPay
  <2>4. DOMAIN read = {i}
    OBVIOUS
  <2>. HIDE DEF read
  <2>5. /\ pay' \in [Payers -> Payer]
        /\ \A q \in Payers \ {d} : pay'[q] = pay[q]
        /\ pay'[d].at = "asked" /\ pay'[d].todo = read /\ pay'[d].answer = Null
    BY <2>1, <2>2, <2>3, TakenUp, Zenon
  <2>6. /\ UNCHANGED <<invoice, charges, unanswered, doubtful>>
        /\ happened' \in 0 .. MaxEvents
        /\ \A j \in DOMAIN pay'[d].todo : Issued(j)'
    BY <1>3, <2>4, <2>5 DEF AskToPay, gatewayVars, TypeInv, SettlementTypeOK, Issued
  <2>7. /\ pay'[d].at = "idle" <=> DOMAIN pay'[d].todo = {}
        /\ IF pay'[d].at = "approved" THEN pay'[d].answer \in Nat ELSE pay'[d].answer = Null
    BY <2>4, <2>5
  <2>. QED
    BY <2>1, <2>5, <2>6, <2>7, PayersKept DEF TypeInv, SettlementTypeOK, Issued, Places
<1>4. ASSUME NEW p \in Payers, GoesOn(p), pay[p].at # "idle",
             invoice' \in [Invoices -> InvoiceRow \cup {Null}],
             \A j \in Invoices : Issued(j) => Issued(j)',
             UNCHANGED <<gatewayVars, doubtful, happened>>
      PROVE  TypeInv'
  <2>. DEFINE rest == DOMAIN pay[p].todo \ {Current(p)}
  <2>1. /\ pay' \in [Payers -> Payer]
        /\ \A q \in Payers \ {p} : pay'[q] = pay[q]
        /\ pay'[p].at = IF rest = {} THEN "idle" ELSE "calling"
        /\ pay'[p].answer = Null
        /\ DOMAIN pay'[p].todo = rest
    BY <1>4, WentOn
  <2>2. \A i \in DOMAIN pay'[p].todo : Issued(i)'
    BY <1>4, <2>1 DEF TypeInv, PayersAreEquipped, SettlementTypeOK
  <2>3. /\ pay'[p].at = "idle" <=> DOMAIN pay'[p].todo = {}
        /\ IF pay'[p].at = "approved" THEN pay'[p].answer \in Nat ELSE pay'[p].answer = Null
    BY <2>1
  <2>. QED
    BY <1>4, <2>1, <2>2, <2>3, PayersKept
       DEF gatewayVars, TypeInv, SettlementTypeOK, Places
<1>5. ASSUME NEW p \in Payers, pay' = [pay EXCEPT ![p] = Idle],
             invoice' \in [Invoices -> InvoiceRow \cup {Null}],
             \A j \in Invoices : Issued(j) => Issued(j)',
             charges' = charges, unanswered' \in [Invoices -> Nat],
             doubtful' \subseteq Invoices, happened' \in 0 .. MaxEvents
      PROVE  TypeInv'
  <2>1. /\ pay' \in [Payers -> Payer]
        /\ \A q \in Payers \ {p} : pay'[q] = pay[q]
        /\ pay'[p].at = "idle" /\ DOMAIN pay'[p].todo = {} /\ pay'[p].answer = Null
    BY <1>5, LetGo
  <2>. QED
    BY <1>5, <2>1, PayersKept DEF TypeInv, SettlementTypeOK, Places
<1>6. ASSUME NEW p \in Payers, NEW place \in Places \ {"idle"}, NEW answer \in Nat \cup {Null},
             Moved(p, place, answer), pay[p].at # "idle",
             IF place = "approved" THEN answer \in Nat ELSE answer = Null,
             invoice' \in [Invoices -> InvoiceRow \cup {Null}],
             \A j \in Invoices : Issued(j) => Issued(j)',
             charges' \in [Invoices -> Nat], unanswered' \in [Invoices -> Nat],
             doubtful' \subseteq Invoices, happened' \in 0 .. MaxEvents
      PROVE  TypeInv'
  <2>1. \A i \in DOMAIN pay'[p].todo : Issued(i)'
    BY <1>6 DEF Moved, TypeInv, PayersAreEquipped, SettlementTypeOK
  <2>2. /\ pay'[p].at = "idle" <=> DOMAIN pay'[p].todo = {}
        /\ IF pay'[p].at = "approved" THEN pay'[p].answer \in Nat ELSE pay'[p].answer = Null
    BY <1>6 DEF Moved, TypeInv, SettlementTypeOK
  <2>. QED
    BY <1>6, <2>1, <2>2, PayersKept DEF Moved, TypeInv, SettlementTypeOK, Places
<1>7. ASSUME NEW p \in Payers, PayerStep(p)
      PROVE  TypeInv'
  <2>1. CASE SkipInvoice(p)
    BY <2>1, <1>4 DEF SkipInvoice, TypeInv, SettlementTypeOK, Issued
  <2>2. CASE GatewayApproves(p)
    <3>1. Moved(p, "approved", charges[Current(p)] + 1)
      <4>1. charges[Current(p)] + 1 \in Nat
        BY <2>2, CurrentInHand DEF GatewayApproves, Calls, TypeInv, SettlementTypeOK
      <4>. QED
        BY <2>2, <4>1, MovedOn DEF GatewayApproves, Places
    <3>2. /\ charges[Current(p)] + 1 \in Nat
          /\ charges' \in [Invoices -> Nat]
      BY <2>2, CurrentInHand DEF GatewayApproves, Calls, TypeInv, SettlementTypeOK
    <3>. QED
      BY <2>2, <3>1, <3>2, <1>6
         DEF GatewayApproves, Calls, TypeInv, SettlementTypeOK, Issued, Places
  <2>3. CASE GatewayRefuses(p)
    <3>1. Moved(p, "refused", Null)
      BY <2>3, MovedOn DEF GatewayRefuses, Calls, TypeInv, SettlementTypeOK, Places
    <3>. QED
      BY <2>3, <3>1, <1>6
         DEF GatewayRefuses, Calls, gatewayVars, TypeInv, SettlementTypeOK, Issued, Places
  <2>4. CASE GatewayIsSilent(p)
    <3>1. Moved(p, "failed", Null)
      BY <2>4, MovedOn DEF GatewayIsSilent, Calls, TypeInv, SettlementTypeOK, Places
    <3>2. /\ unanswered' \in [Invoices -> Nat]
          /\ doubtful' \subseteq Invoices /\ happened' \in 0 .. MaxEvents
      BY <2>4, CurrentInHand DEF GatewayIsSilent, Calls, TypeInv, SettlementTypeOK
    <3>. QED
      BY <2>4, <3>1, <3>2, <1>6
         DEF GatewayIsSilent, Calls, TypeInv, SettlementTypeOK, Issued, Places
  <2>5. CASE RecordOutcome(p)
    <3>1. /\ invoice' \in [Invoices -> InvoiceRow \cup {Null}]
          /\ \A j \in Invoices : Issued(j) => Issued(j)'
      BY <2>5, CurrentInHand, UpdateIsRow, RowWritten DEF RecordOutcome
    <3>. QED
      BY <2>5, <3>1, <1>4 DEF RecordOutcome
  <2>. QED
    BY <1>7, <2>1, <2>2, <2>3, <2>4, <2>5 DEF PayerStep
<1>8. ASSUME NEW p \in Payers, UpdateFails(p) \/ SelectFails(p) \/ CutOff(p)
      PROVE  TypeInv'
  <2>1. CASE UpdateFails(p)
    <3>1. /\ invoice' \in [Invoices -> InvoiceRow \cup {Null}]
          /\ \A j \in Invoices : Issued(j) => Issued(j)'
      BY <2>1, CurrentInHand, UpdateIsRow, RowWritten
         DEF UpdateFails, TypeInv, SettlementTypeOK, Issued
    <3>2. /\ UNCHANGED <<charges, unanswered>> /\ unanswered' \in [Invoices -> Nat]
          /\ charges' \in [Invoices -> Nat]
          /\ doubtful' \subseteq Invoices /\ happened' \in 0 .. MaxEvents
      BY <2>1, CurrentInHand DEF UpdateFails, gatewayVars, TypeInv, SettlementTypeOK
    <3>3. CASE pay[p].at = "failed"
      <4>1. pay' = [pay EXCEPT ![p] = Idle]
        BY <2>1, <3>3 DEF UpdateFails
      <4>. QED
        BY <3>1, <3>2, <4>1, <1>5
    <3>4. CASE pay[p].at # "failed"
      <4>1. pay' = [pay EXCEPT ![p] = [pay[p] EXCEPT !.at = "failed", !.answer = Null]]
        BY <2>1, <3>4 DEF UpdateFails
      <4>2. Moved(p, "failed", Null)
        BY <4>1, MovedOn DEF Places
      <4>. QED
        BY <2>1, <3>1, <3>2, <4>2, <1>6 DEF UpdateFails, Places
    <3>. QED
      BY <3>3, <3>4
  <2>2. CASE SelectFails(p)
    <3>1. /\ pay' = [pay EXCEPT ![p] = Idle] /\ UNCHANGED <<invoice, charges, unanswered, doubtful>>
          /\ happened' \in 0 .. MaxEvents
      BY <2>2 DEF SelectFails, gatewayVars, TypeInv, SettlementTypeOK
    <3>. QED
      BY <3>1, <1>5 DEF TypeInv, SettlementTypeOK, Issued
  <2>3. CASE CutOff(p)
    <3>1. pay[p].at # "idle"
      BY <2>3 DEF CutOff, Calls
    <3>2. Current(p) \in Invoices
      BY <3>1, CurrentInHand
    <3>3. /\ unanswered' \in [Invoices -> Nat]
          /\ doubtful' \subseteq Invoices /\ happened' \in 0 .. MaxEvents
      <4>1. /\ Calls(p) => unanswered' = [unanswered EXCEPT ![Current(p)] = @ + 1]
            /\ ~Calls(p) => unanswered' = unanswered
        BY <2>3 DEF CutOff
      <4>2. unanswered' \in [Invoices -> Nat]
        BY <3>2, <4>1 DEF TypeInv, SettlementTypeOK
      <4>3. doubtful' \subseteq doubtful \cup {Current(p)} /\ happened < MaxEvents
              /\ happened' = happened + 1
        BY <2>3 DEF CutOff
      <4>. QED
        BY <3>2, <4>2, <4>3 DEF TypeInv, SettlementTypeOK
    <3>4. pay' = [pay EXCEPT ![p] = Idle] /\ UNCHANGED <<invoice, charges>>
      BY <2>3 DEF CutOff
    <3>. QED
      BY <3>3, <3>4, <1>5 DEF TypeInv, SettlementTypeOK, Issued
  <2>. QED
    BY <1>8, <2>1, <2>2, <2>3
<1>9. ASSUME NEW e \in Engines, StartCycle(e)
      PROVE  TypeInv'
  <2>. DEFINE payable == {i \in Invoices : IsPayable(i)}
              chosen == {i \in payable : Cardinality({j \in payable : j < i}) < CycleLimit}
  <2>1. chosen # {} /\ TakesInHand(e, chosen) /\ UNCHANGED <<invoice, gatewayVars, happened>>
    BY <1>9 DEF StartCycle
  <2>2. chosen \in SUBSET Invoices /\ \A i \in chosen : Issued(i)
    BY DEF IsPayable
  <2>3. e \in Payers
    BY DEF Payers
  <2>. HIDE DEF chosen
  <2>. QED
    BY <2>1, <2>2, <2>3, <1>2
<1>10. ASSUME NEW d \in Desks, ReadInvoice(d)
       PROVE  TypeInv'
  <2>. DEFINE S == DOMAIN pay[d].todo
  <2>1. d \in Payers
    BY DEF Payers
  <2>2. S \in SUBSET Invoices /\ S # {} /\ \A i \in S : Issued(i)
    BY <1>10, <2>1 DEF ReadInvoice, TypeInv, SettlementTypeOK, PayersAreEquipped
  <2>. QED
    BY <1>10, <2>1, <2>2, <1>2 DEF ReadInvoice
<1>11. CASE UNCHANGED settlementVars
  BY <1>11 DEF settlementVars, TypeInv, SettlementTypeOK, PayersAreEquipped, Issued
<1>. QED
  BY <1>1, <1>3, <1>7, <1>8, <1>9, <1>10, <1>11 DEF SettlementNext, SettlementDone

(* Types hold throughout.                                                  *)
THEOREM SettlementTypesCorrect == SettlementSpec => []SettlementTypeOK
<1>1. TypeInv /\ [SettlementNext]_settlementVars => TypeInv'
  BY TypeInvKept
<1>2. TypeInv => SettlementTypeOK
  BY DEF TypeInv
<1>. QED
  BY TypeInvInit, <1>1, <1>2, PTL DEF SettlementSpec

-----------------------------------------------------------------------------
(* What the rows say of the captures.                                      *)

(* An approved payer has the number of a capture of its invoice.           *)
AnswersAreReal ==
  \A p \in Payers : pay[p].at = "approved" => pay[p].answer \in 1 .. charges[Current(p)]

RealInv == TypeInv /\ PaymentsAreReal /\ AnswersAreReal

(* Initially no payment is claimed and no answer is held.                  *)
LEMMA RealInvInit == SettlementInit => RealInv
BY TypeInvInit DEF SettlementInit, RealInv, PaymentsAreReal, AnswersAreReal, Issued, Idle

(* Captures are not taken back, and a payer that has one answer keeps it.  *)
LEMMA AnswersKept ==
  ASSUME RealInv, TypeInv', NEW p \in Payers,
         \A q \in Payers \ {p} : pay'[q] = pay[q],
         pay'[p].at # "approved" \/ pay'[p] = pay[p],
         \A i \in Invoices : charges[i] <= charges'[i]
  PROVE  AnswersAreReal'
<1>. SUFFICES ASSUME NEW q \in Payers, pay'[q].at = "approved"
              PROVE  pay'[q].answer \in 1 .. charges'[Current(q)']
  BY DEF AnswersAreReal
<1>1. pay'[q] = pay[q]
  OBVIOUS
<1>2. Current(q)' = Current(q) /\ Current(q) \in Invoices
  BY <1>1, CurrentInHand DEF Current, RealInv
<1>3. pay[q].answer \in 1 .. charges[Current(q)]
  BY <1>1 DEF RealInv, AnswersAreReal
<1>4. charges[Current(q)] \in Nat /\ charges'[Current(q)] \in Nat
  BY <1>2 DEF RealInv, TypeInv, SettlementTypeOK
<1>. QED
  BY <1>1, <1>2, <1>3, <1>4

(* A row that keeps its status and its reference keeps its promise.        *)
LEMMA PaymentsKept ==
  ASSUME RealInv, TypeInv', \A i \in Invoices : charges[i] <= charges'[i],
         \A i \in Invoices : Issued(i)' =>
            \/ invoice'[i].ref = Null /\ invoice'[i].status # "paid"
            \/ /\ Issued(i)
               /\ invoice'[i].ref = invoice[i].ref
               /\ invoice'[i].status = "paid" => invoice[i].status = "paid"
            \/ invoice'[i].ref \in 1 .. charges[i]
  PROVE  PaymentsAreReal'
<1>. SUFFICES ASSUME NEW i \in Invoices, Issued(i)'
              PROVE  /\ invoice'[i].ref # Null => invoice'[i].ref \in 1 .. charges'[i]
                     /\ invoice'[i].status = "paid" => invoice'[i].ref # Null
  BY DEF PaymentsAreReal
<1>1. charges[i] \in Nat /\ charges'[i] \in Nat
  BY DEF RealInv, TypeInv, SettlementTypeOK
<1>. QED
  BY <1>1, SettlementAssumption DEF RealInv, PaymentsAreReal

(* Every step keeps references and answers real.                           *)
LEMMA RealInvKept ==
  ASSUME RealInv, [SettlementNext]_settlementVars
  PROVE  RealInv'
<1>1. TypeInv /\ TypeInv'
  BY TypeInvKept DEF RealInv
<1>2. \A i \in Invoices : charges[i] \in Nat
  BY <1>1 DEF TypeInv, SettlementTypeOK
<1>3. ASSUME UNCHANGED <<invoice, pay, charges>> PROVE RealInv'
  BY <1>1, <1>3 DEF RealInv, PaymentsAreReal, AnswersAreReal, Issued, Current
<1>4. ASSUME NEW p \in Payers, UNCHANGED <<invoice, charges>>,
             \A q \in Payers \ {p} : pay'[q] = pay[q], pay'[p].at # "approved"
      PROVE  RealInv'
  BY <1>1, <1>2, <1>4, AnswersKept, PaymentsKept DEF RealInv, Issued
<1>5. ASSUME NEW i \in Invoices, CreateInvoice(i) \/ RetryDue(i) \/ LateCapture(i)
      PROVE  RealInv'
  <2>1. UNCHANGED pay
    BY <1>5 DEF CreateInvoice, RetryDue, LateCapture
  <2>2. \A j \in Invoices : charges[j] <= charges'[j]
    BY <1>1, <1>2, <1>5
       DEF CreateInvoice, RetryDue, LateCapture, gatewayVars, TypeInv, SettlementTypeOK
  <2>3. AnswersAreReal'
    <3>. SUFFICES ASSUME NEW q \in Payers, pay[q].at = "approved"
                  PROVE  pay[q].answer \in 1 .. charges'[Current(q)]
      BY <2>1 DEF AnswersAreReal, Current
    <3>1. Current(q) \in Invoices /\ pay[q].answer \in 1 .. charges[Current(q)]
      BY <1>1, CurrentInHand DEF RealInv, AnswersAreReal
    <3>. QED
      BY <1>1, <1>2, <2>2, <3>1 DEF TypeInv, SettlementTypeOK
  <2>4. \A j \in Invoices : Issued(j)' =>
          \/ invoice'[j].ref = Null /\ invoice'[j].status # "paid"
          \/ Issued(j) /\ invoice'[j].ref = invoice[j].ref /\ invoice'[j].status = invoice[j].status
    <3>1. CASE CreateInvoice(i)
      BY <1>1, <3>1 DEF CreateInvoice, FreshInvoice, Issued, TypeInv, SettlementTypeOK
    <3>2. CASE RetryDue(i)
      BY <1>1, <3>2 DEF RetryDue, Issued, TypeInv, SettlementTypeOK, InvoiceRow
    <3>3. CASE LateCapture(i)
      BY <3>3 DEF LateCapture, Issued
    <3>. QED
      BY <1>5, <3>1, <3>2, <3>3
  <2>. QED
    BY <1>1, <2>2, <2>3, <2>4, PaymentsKept DEF RealInv
<1>6. ASSUME NEW p \in Payers, GatewayApproves(p)
      PROVE  RealInv'
  <2>1. Moved(p, "approved", charges[Current(p)] + 1) /\ Current(p) \in Invoices
    <3>1. Current(p) \in Invoices /\ charges[Current(p)] + 1 \in Nat
      BY <1>1, <1>2, <1>6, CurrentInHand DEF GatewayApproves, Calls
    <3>. QED
      BY <1>1, <1>6, <3>1, MovedOn DEF GatewayApproves, Places
  <2>2. charges' = [charges EXCEPT ![Current(p)] = @ + 1] /\ UNCHANGED invoice
    BY <1>6 DEF GatewayApproves
  <2>3. \A i \in Invoices : charges[i] <= charges'[i]
    BY <1>1, <1>2, <2>2 DEF TypeInv, SettlementTypeOK
  <2>4. ASSUME NEW q \in Payers, pay'[q].at = "approved"
        PROVE  pay'[q].answer \in 1 .. charges'[Current(q)']
    <3>1. Current(q)' = Current(q)
      BY <2>1 DEF Moved, Current
    <3>2. CASE q = p
      BY <1>1, <1>2, <2>1, <2>2, <3>1, <3>2 DEF Moved, TypeInv, SettlementTypeOK
    <3>3. CASE q # p
      <4>1. pay[q].at = "approved" /\ pay'[q] = pay[q]
        BY <2>1, <2>4, <3>3 DEF Moved
      <4>2. Current(q) \in Invoices /\ pay[q].answer \in 1 .. charges[Current(q)]
        BY <1>1, <4>1, CurrentInHand DEF RealInv, AnswersAreReal
      <4>3. charges'[Current(q)] \in Nat
        BY <1>1, <4>2 DEF TypeInv, SettlementTypeOK
      <4>. QED
        BY <1>2, <2>3, <3>1, <4>1, <4>2, <4>3
    <3>. QED
      BY <3>2, <3>3
  <2>. QED
    BY <1>1, <2>2, <2>3, <2>4, PaymentsKept DEF RealInv, AnswersAreReal, Issued
<1>7. ASSUME NEW p \in Payers, pay[p].at \in {"approved", "refused", "failed"},
             invoice' = [invoice EXCEPT ![Current(p)] = Update(p)],
             UNCHANGED charges,
             \A q \in Payers \ {p} : pay'[q] = pay[q], pay'[p].at # "approved"
      PROVE  RealInv'
  <2>. DEFINE c == Current(p)
  <2>1. c \in Invoices /\ Issued(c) /\ Update(p) \in InvoiceRow
    BY <1>1, <1>7, CurrentInHand, UpdateIsRow
  <2>2. invoice'[c] = Update(p) /\ \A j \in Invoices : j # c => invoice'[j] = invoice[j]
    BY <1>1, <1>7, <2>1, RowWritten
  <2>3. \/ Update(p).ref \in 1 .. charges[c]
        \/ /\ Update(p).ref = invoice[c].ref
           /\ Update(p).status = "paid" => invoice[c].status = "paid"
    <3>1. invoice[c] \in InvoiceRow
      BY <1>1, <2>1 DEF TypeInv, SettlementTypeOK, Issued
    <3>2. CASE pay[p].at = "approved"
      BY <3>1, <3>2 DEF Update, PaidRow, InvoiceRow, RealInv, AnswersAreReal
    <3>3. CASE pay[p].at # "approved"
      BY <3>1, <3>3 DEF Update, RefusedRow, InvoiceRow
    <3>. QED
      BY <3>2, <3>3
  <2>4. \A j \in Invoices : Issued(j)' =>
          \/ /\ Issued(j)
             /\ invoice'[j].ref = invoice[j].ref
             /\ invoice'[j].status = "paid" => invoice[j].status = "paid"
          \/ invoice'[j].ref \in 1 .. charges[j]
    BY <2>1, <2>2, <2>3 DEF Issued
  <2>5. \A i \in Invoices : charges[i] <= charges'[i]
    BY <1>2, <1>7
  <2>6. PaymentsAreReal'
    BY <1>1, <2>4, <2>5, PaymentsKept
  <2>7. AnswersAreReal'
    BY <1>1, <1>7, <2>5, AnswersKept
  <2>. QED
    BY <1>1, <2>6, <2>7 DEF RealInv
<1>8. ASSUME NEW p \in Payers, PayerStep(p)
      PROVE  RealInv'
  <2>1. CASE SkipInvoice(p)
    <3>1. GoesOn(p) /\ pay[p].at # "idle" /\ UNCHANGED <<invoice, charges>>
      BY <2>1 DEF SkipInvoice, gatewayVars
    <3>. QED
      BY <1>1, <1>4, <3>1, WentOn
  <2>2. CASE GatewayApproves(p)
    BY <2>2, <1>6
  <2>3. CASE GatewayRefuses(p) \/ GatewayIsSilent(p)
    <3>1. PICK place \in {"refused", "failed"} :
               pay' = [pay EXCEPT ![p].at = place] /\ UNCHANGED <<invoice, charges>>
      BY <2>3 DEF GatewayRefuses, GatewayIsSilent, gatewayVars
    <3>2. pay[p].answer \in Nat \cup {Null}
      BY <1>1 DEF TypeInv, SettlementTypeOK
    <3>3. Moved(p, place, pay[p].answer)
      BY <1>1, <3>1, <3>2, MovedOn DEF Places
    <3>. QED
      BY <1>4, <3>1, <3>3 DEF Moved
  <2>4. CASE RecordOutcome(p)
    <3>1. /\ \A q \in Payers \ {p} : pay'[q] = pay[q]
          /\ pay'[p].at # "approved"
      BY <1>1, <2>4, WentOn DEF RecordOutcome
    <3>. QED
      BY <2>4, <3>1, <1>7 DEF RecordOutcome, gatewayVars
  <2>. QED
    BY <1>8, <2>1, <2>2, <2>3, <2>4 DEF PayerStep
<1>9. ASSUME NEW p \in Payers, UpdateFails(p) \/ SelectFails(p) \/ CutOff(p)
      PROVE  RealInv'
  <2>1. UNCHANGED charges
    BY <1>9 DEF UpdateFails, SelectFails, CutOff, gatewayVars
  <2>2. /\ \A q \in Payers \ {p} : pay'[q] = pay[q]
        /\ pay'[p].at # "approved"
    <3>1. CASE pay' = [pay EXCEPT ![p] = Idle]
      BY <1>1, <3>1, LetGo
    <3>2. CASE pay' = [pay EXCEPT ![p] = [pay[p] EXCEPT !.at = "failed", !.answer = Null]]
      <4>1. Moved(p, "failed", Null)
        BY <1>1, <3>2, MovedOn DEF Places
      <4>. QED
        BY <4>1 DEF Moved
    <3>. QED
      BY <1>9, <3>1, <3>2 DEF UpdateFails, SelectFails, CutOff
  <2>3. CASE UNCHANGED invoice
    BY <1>4, <2>1, <2>2, <2>3
  <2>4. CASE UpdateFails(p) /\ invoice' = [invoice EXCEPT ![Current(p)] = Update(p)]
    BY <1>7, <2>1, <2>2, <2>4 DEF UpdateFails
  <2>. QED
    BY <1>9, <2>3, <2>4 DEF UpdateFails, SelectFails, CutOff
<1>10. ASSUME NEW p \in Payers, NEW read \in Reads, NEW place \in {"asked", "calling"},
              pay' = [pay EXCEPT ![p] = [Idle EXCEPT !.at = place, !.todo = read]],
              UNCHANGED <<invoice, charges>>
       PROVE  RealInv'
  <2>1. (\A q \in Payers \ {p} : pay'[q] = pay[q]) /\ pay'[p].at = place
    BY <1>1, <1>10, TakenUp DEF Places
  <2>. QED
    BY <1>4, <1>10, <2>1
<1>11. ASSUME NEW p \in Payers, NEW S \in SUBSET Invoices, \A i \in S : Issued(i),
              TakesInHand(p, S), UNCHANGED <<invoice, charges>>
       PROVE  RealInv'
  <2>. DEFINE read == [i \in S |-> invoice[i]]
  <2>1. read \in Reads
    BY <1>1, <1>11, RowsAreReads DEF TypeInv, SettlementTypeOK, Issued
  <2>2. pay' = [pay EXCEPT ![p] = [Idle EXCEPT !.at = "calling", !.todo = read]]
    BY <1>11 DEF TakesInHand
  <2>. HIDE DEF read
  <2>. QED
    BY <1>10, <1>11, <2>1, <2>2
<1>12. ASSUME NEW e \in Engines, StartCycle(e)
       PROVE  RealInv'
  <2>1. PICK S \in SUBSET {i \in Invoices : IsPayable(i)} : TakesInHand(e, S)
    BY <1>12 DEF StartCycle
  <2>2. S \in SUBSET Invoices /\ \A i \in S : Issued(i)
    BY DEF IsPayable
  <2>. QED
    BY <1>11, <1>12, <2>1, <2>2 DEF StartCycle, gatewayVars, Payers
<1>13. ASSUME NEW d \in Desks, ReadInvoice(d)
       PROVE  RealInv'
  <2>1. d \in Payers
    BY DEF Payers
  <2>2. DOMAIN pay[d].todo \in SUBSET Invoices /\ \A i \in DOMAIN pay[d].todo : Issued(i)
    BY <1>1, <2>1 DEF TypeInv, SettlementTypeOK, PayersAreEquipped
  <2>. QED
    BY <1>11, <1>13, <2>1, <2>2 DEF ReadInvoice, gatewayVars
<1>14. ASSUME NEW d \in Desks, NEW i \in Invoices, AskToPay(d, i)
       PROVE  RealInv'
  <2>. DEFINE read == [j \in {i} |-> invoice[j]]
  <2>1. read \in Reads
    BY <1>1, <1>14, RowsAreReads DEF AskToPay, TypeInv, SettlementTypeOK, Issued
  <2>2. pay' = [pay EXCEPT ![d] = [Idle EXCEPT !.at = "asked", !.todo = read]]
    BY <1>14 DEF AskToPay
  <2>. HIDE DEF read
  <2>. QED
    BY <1>10, <1>14, <2>1, <2>2 DEF AskToPay, gatewayVars, Payers
<1>15. CASE UNCHANGED settlementVars
  BY <1>3, <1>15 DEF settlementVars
<1>. QED
  BY <1>5, <1>8, <1>9, <1>12, <1>13, <1>14, <1>15 DEF SettlementNext, SettlementDone

(* Payment references are those of captures, in every reachable state.     *)
THEOREM PaymentsTrulyMade == SettlementSpec => []PaymentsAreReal
<1>1. RealInv /\ [SettlementNext]_settlementVars => RealInv'
  BY RealInvKept
<1>2. RealInv => PaymentsAreReal
  BY DEF RealInv
<1>. QED
  BY RealInvInit, <1>1, <1>2, PTL DEF SettlementSpec

-----------------------------------------------------------------------------
(* The refinement of Billing.                                              *)

WorksOn(p, i) == p \in Holders(i) /\ i = Current(p)

(* The row of i is as p has read it; or p has refused it, but has not been *)
(* told that the refusal is stored.                                        *)
AsRead(i, p) ==
  LET row == invoice[i]
      read == pay[p].todo[i] IN
  /\ row.ref = read.ref
  /\ \/ row.status = read.status /\ row.retries = read.retries
     \/ /\ pay[p].at = "failed"
        /\ i = Current(p)
        /\ row.retries = read.retries + 1
        /\ row.status = IF row.retries >= RetryMax THEN "overdue" ELSE read.status

(* Of an undisputed invoice: no call is open, at most one payer has it in  *)
(* hand and knows its row, it is charged at most once, and the charge is   *)
(* on the row or in the hand of its payer.                                 *)
Undisputed(i) ==
  /\ unanswered[i] = 0
  /\ charges[i] <= 1
  /\ \A p, q \in Holders(i) : p = q
  /\ Issued(i) =>
       /\ invoice[i].ref # Null => invoice[i].status = "paid"
       /\ invoice[i].status = "overdue" => invoice[i].retries >= RetryMax
       /\ \A p \in Holders(i) : AsRead(i, p)
       /\ \A p \in Payers :
            WorksOn(p, i) /\ pay[p].at # "calling" => pay[p].todo[i].ref = Null
       /\ charges[i] = 0 \/ invoice[i].ref # Null
            \/ \E p \in Payers : WorksOn(p, i) /\ pay[p].at = "approved"

(* Nothing is charged before it is invoiced.                               *)
NothingInAdvance ==
  \A i \in Invoices : ~Issued(i) => charges[i] = 0 /\ unanswered[i] = 0

BillInv ==
  /\ RealInv
  /\ NothingInAdvance
  /\ \A i \in Invoices \ doubtful : Undisputed(i)

(* Initially nothing is charged and no invoice is disputed.                *)
LEMMA BillInvInit == SettlementInit => BillInv
<1>. SUFFICES ASSUME SettlementInit PROVE BillInv
  OBVIOUS
<1>1. RealInv /\ \A i \in Invoices : charges[i] = 0 /\ unanswered[i] = 0 /\ ~Issued(i)
  BY RealInvInit DEF SettlementInit, Issued
<1>2. \A i \in Invoices : Holders(i) = {}
  BY DEF SettlementInit, Holders, Idle
<1>. QED
  BY <1>1, <1>2 DEF BillInv, NothingInAdvance, Undisputed

(* Only payers with an invoice in hand hold it, and it is issued.          *)
LEMMA HoldersProperties ==
  ASSUME TypeInv, NEW i, NEW p \in Holders(i)
  PROVE  /\ p \in Payers
         /\ pay[p].at \notin {"idle", "asked"}
         /\ i \in DOMAIN pay[p].todo
         /\ Issued(i)
         /\ i \in Invoices
BY DEF Holders, TypeInv, PayersAreEquipped, SettlementTypeOK

(* An invoice stays undisputed through a step of p that leaves its row and *)
(* its captures alone, when p does not work on it.                         *)
LEMMA StaysUndisputed ==
  ASSUME TypeInv, TypeInv', NEW p \in Payers, NEW i \in Invoices,
         Undisputed(i),
         invoice'[i] = invoice[i], charges'[i] = charges[i], unanswered'[i] = unanswered[i],
         \A q \in Payers \ {p} : pay'[q] = pay[q],
         ~WorksOn(p, i),
         p \in Holders(i)' => /\ p \in Holders(i)
                              /\ pay'[p].todo[i] = pay[p].todo[i]
                              /\ pay'[p].at = "calling" \/ ~WorksOn(p, i)'
  PROVE  Undisputed(i)'
<1>1. \A q \in Payers \ {p} : /\ q \in Holders(i)' <=> q \in Holders(i)
                              /\ Current(q)' = Current(q)
                              /\ WorksOn(q, i)' <=> WorksOn(q, i)
  BY DEF Holders, Current, WorksOn
<1>2. \A q \in Holders(i)' : q \in Holders(i) /\ q \in Payers
  <2>1. \A q \in Holders(i)' : q \in Payers
    BY DEF Holders
  <2>. SUFFICES ASSUME NEW q \in Holders(i)' PROVE q \in Holders(i)
    BY <2>1
  <2>2. CASE q = p
    BY <2>2
  <2>3. CASE q # p
    BY <1>1, <2>1, <2>3
  <2>. QED
    BY <2>2, <2>3
<1>3. ASSUME Issued(i)'
      PROVE  /\ invoice'[i].ref # Null => invoice'[i].status = "paid"
             /\ invoice'[i].status = "overdue" => invoice'[i].retries >= RetryMax
             /\ \A q \in Holders(i)' : AsRead(i, q)'
             /\ \A q \in Payers :
                  WorksOn(q, i)' /\ pay'[q].at # "calling" => pay'[q].todo[i].ref = Null
             /\ charges'[i] = 0 \/ invoice'[i].ref # Null
                  \/ \E q \in Payers : WorksOn(q, i)' /\ pay'[q].at = "approved"
  <2>1. Issued(i)
    BY <1>3 DEF Issued
  <2>2. ASSUME NEW q \in Holders(i)' PROVE AsRead(i, q)'
    <3>1. AsRead(i, q)
      BY <1>2, <2>1, <2>2 DEF Undisputed
    <3>2. CASE q = p
      <4>1. p \in Holders(i) /\ i # Current(p) /\ pay'[p].todo[i] = pay[p].todo[i]
        BY <2>2, <3>2 DEF WorksOn
      <4>2. /\ invoice[i].ref = pay[p].todo[i].ref
            /\ invoice[i].status = pay[p].todo[i].status
            /\ invoice[i].retries = pay[p].todo[i].retries
        BY <3>1, <3>2, <4>1 DEF AsRead
      <4>3. AsRead(i, p)'
        BY <4>1, <4>2 DEF AsRead
      <4>. QED
        BY <3>2, <4>3
    <3>3. CASE q # p
      <4>1. pay'[q] = pay[q] /\ Current(q)' = Current(q)
        BY <1>1, <1>2, <2>2, <3>3
      <4>. QED
        BY <3>1, <4>1 DEF AsRead
    <3>. QED
      BY <3>2, <3>3
  <2>3. ASSUME NEW q \in Payers, WorksOn(q, i)', pay'[q].at # "calling"
        PROVE  pay'[q].todo[i].ref = Null
    <3>1. q # p
      BY <2>3 DEF WorksOn
    <3>. QED
      BY <1>1, <2>1, <2>3, <3>1 DEF Undisputed
  <2>4. \A q \in Payers : WorksOn(q, i) /\ pay[q].at = "approved" =>
                           WorksOn(q, i)' /\ pay'[q].at = "approved"
    BY <1>1
  <2>. QED
    BY <2>1, <2>2, <2>3, <2>4 DEF Undisputed
<1>. QED
  BY <1>2, <1>3 DEF Undisputed

(* When p lets go of the invoice it works on, the row has to tell whether  *)
(* it was charged.                                                         *)
LEMMA ReleasedUndisputed ==
  ASSUME TypeInv, TypeInv', NEW p \in Payers, NEW i \in Invoices,
         Undisputed(i), WorksOn(p, i),
         \A q \in Payers \ {p} : pay'[q] = pay[q],
         p \notin Holders(i)',
         charges'[i] = charges[i], unanswered'[i] = unanswered[i],
         invoice'[i].ref # Null => invoice'[i].status = "paid",
         invoice'[i].status = "overdue" => invoice'[i].retries >= RetryMax,
         charges[i] = 0 \/ invoice'[i].ref # Null
  PROVE  Undisputed(i)'
<1>1. \A q \in Payers \ {p} : q \in Holders(i)' <=> q \in Holders(i)
  BY DEF Holders
<1>2. Holders(i)' = {}
  BY <1>1 DEF Undisputed, WorksOn, Holders
<1>. QED
  BY <1>2 DEF Undisputed, WorksOn

(* A payer with nothing in hand takes up the rows of S.                    *)
LEMMA TakenUndisputed ==
  ASSUME BillInv, RealInv', NEW p \in Payers, NEW S \in SUBSET Invoices,
         \A i \in S : Issued(i),
         pay[p].at \in {"idle", "asked"},
         TakesInHand(p, S), UNCHANGED <<invoice, charges, unanswered>>,
         NEW i \in Invoices \ doubtful'
  PROVE  Undisputed(i)'
<1>. DEFINE read == [j \in S |-> invoice[j]]
<1>1. TypeInv /\ TypeInv' /\ PaymentsAreReal
  BY DEF BillInv, RealInv
<1>2. read \in Reads
  BY <1>1, RowsAreReads DEF TypeInv, SettlementTypeOK, Issued
<1>3. pay' = [pay EXCEPT ![p] = [Idle EXCEPT !.at = "calling", !.todo = read]]
  BY DEF TakesInHand
<1>4. DOMAIN read = S /\ \A j \in S : read[j] = invoice[j]
  OBVIOUS
<1>. HIDE DEF read
<1>5. /\ \A q \in Payers \ {p} : pay'[q] = pay[q]
      /\ pay'[p].at = "calling" /\ pay'[p].todo = read
  BY <1>1, <1>2, <1>3, TakenUp, Zenon DEF Places
<1>6. i \notin doubtful /\ (i \in S => Holders(i) = {})
  BY DEF TakesInHand
<1>7. Undisputed(i)
  BY <1>6 DEF BillInv
<1>8. p \notin Holders(i)
  BY DEF Holders
<1>9. CASE i \notin S
  <2>1. p \notin Holders(i)' /\ ~WorksOn(p, i)
    BY <1>4, <1>5, <1>8, <1>9 DEF Holders, WorksOn
  <2>. QED
    BY <1>1, <1>5, <1>7, <2>1, StaysUndisputed
<1>10. CASE i \in S
  <2>1. Holders(i)' = {p}
    BY <1>4, <1>5, <1>6, <1>10 DEF Holders
  <2>2. charges[i] = 0 \/ invoice[i].ref # Null
    BY <1>6, <1>7, <1>10 DEF Undisputed, WorksOn
  <2>3. AsRead(i, p)'
    BY <1>4, <1>5, <1>10 DEF AsRead
  <2>. QED
    BY <1>5, <1>7, <1>10, <2>1, <2>2, <2>3 DEF Undisputed, WorksOn, Issued
<1>. QED
  BY <1>9, <1>10

(* A payer lets go of the invoice it works on, and keeps at most the rest. *)
LEMMA RestUndisputed ==
  ASSUME BillInv, RealInv', NEW p \in Payers, pay[p].at # "idle",
         \/ GoesOn(p) /\ pay[p].at # "asked"
         \/ pay' = [pay EXCEPT ![p] = Idle],
         NEW i \in Invoices \ doubtful,
         i # Current(p) \/ pay[p].at = "asked",
         invoice'[i] = invoice[i], charges'[i] = charges[i], unanswered'[i] = unanswered[i]
  PROVE  Undisputed(i)'
<1>1. TypeInv /\ TypeInv' /\ Undisputed(i)
  BY DEF BillInv, RealInv
<1>2. ~WorksOn(p, i)
  BY DEF WorksOn, Holders
<1>3. CASE pay' = [pay EXCEPT ![p] = Idle]
  <2>1. (\A q \in Payers \ {p} : pay'[q] = pay[q]) /\ p \notin Holders(i)'
    BY <1>1, <1>3, LetGo DEF Holders
  <2>. QED
    BY <1>1, <1>2, <2>1, StaysUndisputed
<1>4. CASE GoesOn(p) /\ pay[p].at # "asked"
  <2>. DEFINE rest == DOMAIN pay[p].todo \ {Current(p)}
  <2>1. /\ \A q \in Payers \ {p} : pay'[q] = pay[q]
        /\ pay'[p].at = IF rest = {} THEN "idle" ELSE "calling"
        /\ DOMAIN pay'[p].todo = rest
        /\ \A j \in rest : pay'[p].todo[j] = pay[p].todo[j]
    BY <1>1, <1>4, WentOn
  <2>2. p \in Holders(i)' => /\ p \in Holders(i)
                             /\ pay'[p].todo[i] = pay[p].todo[i]
                             /\ pay'[p].at = "calling"
    BY <1>4, <2>1 DEF Holders
  <2>. QED
    BY <1>1, <1>2, <2>1, <2>2, StaysUndisputed
<1>. QED
  BY <1>3, <1>4

(* A payer moves on with the invoice it works on: the others stay as they  *)
(* are.                                                                    *)
LEMMA MovedUndisputed ==
  ASSUME BillInv, RealInv', NEW p \in Payers, NEW place \in Places, NEW answer,
         Moved(p, place, answer),
         pay[p].at \notin {"idle", "asked"},
         NEW i \in Invoices \ doubtful, i # Current(p),
         invoice'[i] = invoice[i], charges'[i] = charges[i], unanswered'[i] = unanswered[i]
  PROVE  Undisputed(i)'
<1>1. TypeInv /\ TypeInv' /\ Undisputed(i)
  BY DEF BillInv, RealInv
<1>2. Current(p)' = Current(p)
  BY DEF Moved, Current
<1>3. ~WorksOn(p, i) /\ ~WorksOn(p, i)'
  BY <1>2 DEF WorksOn
<1>4. p \in Holders(i)' => p \in Holders(i) /\ pay'[p].todo[i] = pay[p].todo[i]
  BY DEF Moved, Holders
<1>. QED
  BY <1>1, <1>3, <1>4, StaysUndisputed DEF Moved

(* What the invoice that p works on says, while it is undisputed.          *)
LEMMA WorkedOn ==
  ASSUME BillInv, NEW p \in Payers, pay[p].at \notin {"idle", "asked"},
         Current(p) \notin doubtful
  PROVE  LET i == Current(p) IN
         /\ i \in Invoices /\ Issued(i) /\ Undisputed(i) /\ WorksOn(p, i)
         /\ invoice[i] \in InvoiceRow /\ RowRead(p) \in InvoiceRow
         /\ AsRead(i, p)
         /\ charges[i] \in {0, 1}
         /\ pay[p].at # "calling" => RowRead(p).ref = Null
         /\ pay[p].at = "approved" => charges[i] = 1
         /\ pay[p].at # "approved" => (charges[i] = 0 <=> invoice[i].ref = Null)
         /\ invoice[i].status = "paid" <=> invoice[i].ref # Null
<1>. DEFINE i == Current(p)
<1>1. TypeInv /\ PaymentsAreReal /\ AnswersAreReal
  BY DEF BillInv, RealInv
<1>2. i \in Invoices /\ Issued(i) /\ i \in DOMAIN pay[p].todo /\ RowRead(p) \in InvoiceRow
  BY <1>1, CurrentInHand
<1>3. Undisputed(i) /\ WorksOn(p, i)
  BY <1>2 DEF BillInv, WorksOn, Holders
<1>4. invoice[i] \in InvoiceRow /\ charges[i] \in Nat
  BY <1>1, <1>2 DEF TypeInv, SettlementTypeOK, Issued
<1>5. charges[i] \in {0, 1}
  BY <1>3, <1>4 DEF Undisputed
<1>6. AsRead(i, p) /\ (invoice[i].status = "paid" <=> invoice[i].ref # Null)
  BY <1>1, <1>2, <1>3 DEF Undisputed, PaymentsAreReal, WorksOn
<1>7. pay[p].at # "calling" => RowRead(p).ref = Null
  BY <1>2, <1>3 DEF Undisputed, RowRead
<1>8. pay[p].at = "approved" => charges[i] = 1
  BY <1>1, <1>5 DEF AnswersAreReal
<1>9. ASSUME pay[p].at # "approved" PROVE charges[i] = 0 <=> invoice[i].ref = Null
  <2>1. ~\E q \in Payers : WorksOn(q, i) /\ pay[q].at = "approved"
    BY <1>3, <1>9 DEF Undisputed, WorksOn
  <2>2. charges[i] = 0 \/ invoice[i].ref # Null
    BY <1>2, <1>3, <2>1 DEF Undisputed
  <2>3. invoice[i].ref # Null => invoice[i].ref \in 1 .. charges[i]
    BY <1>1, <1>2 DEF PaymentsAreReal
  <2>. QED
    BY <1>5, <2>2, <2>3
<1>. QED
  BY <1>2, <1>3, <1>4, <1>5, <1>6, <1>7, <1>8, <1>9

-----------------------------------------------------------------------------
(* Steps of Billing.                                                       *)

Billed(i) ==
  IF Issued(i)
  THEN [status |-> invoice[i].status, charges |-> charges[i], tries |-> invoice[i].retries]
  ELSE Null

BillStep == [Bills!BillingNext]_(Bills!billingVars)

(* Whatever happens to disputed invoices alone is a dispute.               *)
LEMMA DisputeStep ==
  ASSUME doubtful \subseteq doubtful',
         \A i \in Invoices \ doubtful' : Billed(i)' = Billed(i)
  PROVE  BillStep
<1>1. CASE doubtful' = {}
  BY <1>1 DEF BillStep, Bills!billingVars, Billed
<1>2. CASE doubtful' # {}
  <2>1. Bills!Dispute
    BY <1>2 DEF Bills!Dispute, Billed
  <2>. QED
    BY <2>1 DEF BillStep, Bills!BillingNext
<1>. QED
  BY <1>1, <1>2

(* An invoice shows the abstract bill a status, its captures and its       *)
(* tries, and an invoice that is not issued shows nothing.                 *)
LEMMA BilledType ==
  ASSUME TypeInv, NEW i \in Invoices
  PROVE  IF Issued(i) THEN Billed(i) \in [status: Status, charges: Nat, tries: Nat]
                           /\ Billed(i) # Null
         ELSE Billed(i) = Null
BY SettlementAssumption DEF Billed, TypeInv, SettlementTypeOK, Issued, InvoiceRow

(* A capture of an undisputed invoice that has none.                       *)
LEMMA ChargeStep ==
  ASSUME TypeInv, NEW i \in Invoices \ doubtful, Issued(i), charges[i] = 0,
         charges' = [charges EXCEPT ![i] = @ + 1], UNCHANGED <<invoice, doubtful>>
  PROVE  BillStep
<1>. DEFINE B == [j \in Invoices |-> Billed(j)]
<1>1. B' = [B EXCEPT ![i] = [@ EXCEPT !.charges = 1]]
  <2>1. B' = [j \in Invoices |-> Billed(j)']
    OBVIOUS
  <2>2. Billed(i)' = [Billed(i) EXCEPT !.charges = 1]
    BY DEF Billed, Issued, TypeInv, SettlementTypeOK
  <2>3. \A j \in Invoices : j # i => Billed(j)' = Billed(j)
    BY DEF Billed, Issued, TypeInv, SettlementTypeOK
  <2>. QED
    BY <2>1, <2>2, <2>3
<1>2. Bills!Charge(i)
  <2>1. Billed(i) # Null /\ Billed(i).charges = 0
    BY BilledType DEF Billed
  <2>. QED
    BY <1>1, <2>1 DEF Bills!Charge, Bills!Promised, Billed
<1>. QED
  BY <1>2 DEF BillStep, Bills!BillingNext

(* A new row of an undisputed invoice, and what it is on the bill.         *)
LEMMA RowStep ==
  ASSUME TypeInv, NEW i \in Invoices \ doubtful, Issued(i), NEW row \in InvoiceRow,
         invoice' = [invoice EXCEPT ![i] = row], UNCHANGED <<charges, doubtful>>,
         \/ row.status = invoice[i].status /\ row.retries = invoice[i].retries
         \/ charges[i] = 1 /\ row.status = "paid" /\ row.retries = invoice[i].retries
         \/ /\ charges[i] = 0
            /\ row.retries = invoice[i].retries + 1
            /\ row.status = IF row.retries >= RetryMax THEN "overdue" ELSE "pending"
  PROVE  BillStep
<1>. DEFINE B == [j \in Invoices |-> Billed(j)]
            new == [status |-> row.status, charges |-> charges[i], tries |-> row.retries]
<1>1. B[i] = Billed(i) /\ Billed(i) # Null /\ i \in Invoices
  BY BilledType
<1>2. /\ Billed(i).status = invoice[i].status /\ Billed(i).charges = charges[i]
      /\ Billed(i).tries = invoice[i].retries
  BY DEF Billed
<1>3. B' = [B EXCEPT ![i] = new]
  <2>1. B' = [j \in Invoices |-> Billed(j)']
    OBVIOUS
  <2>2. Billed(i)' = new
    BY RowWritten DEF Billed
  <2>3. \A j \in Invoices : j # i => Billed(j)' = Billed(j)
    BY RowWritten DEF Billed, Issued
  <2>. QED
    BY <2>1, <2>2, <2>3
<1>4. CASE row.status = invoice[i].status /\ row.retries = invoice[i].retries
  <2>1. new = Billed(i)
    BY <1>4 DEF Billed
  <2>2. B' = B
    BY <1>1, <1>3, <2>1
  <2>. QED
    BY <2>2 DEF BillStep, Bills!billingVars, Billed
<1>5. CASE charges[i] = 1 /\ row.status = "paid" /\ row.retries = invoice[i].retries
  <2>1. new = [Billed(i) EXCEPT !.status = "paid"]
    BY <1>5 DEF Billed
  <2>2. B' = [B EXCEPT ![i] = [@ EXCEPT !.status = "paid"]]
    BY <1>1, <1>3, <2>1
  <2>3. Bills!Settle(i)
    BY <1>1, <1>2, <1>5, <2>2 DEF Bills!Settle, Bills!Promised, Billed
  <2>. QED
    BY <2>3 DEF BillStep, Bills!BillingNext
<1>6. CASE /\ charges[i] = 0
           /\ row.retries = invoice[i].retries + 1
           /\ row.status = IF row.retries >= RetryMax THEN "overdue" ELSE "pending"
  <2>. DEFINE tries == invoice[i].retries + 1
              b1 == [status |-> invoice[i].status, charges |-> charges[i], tries |-> tries]
              B1 == [B EXCEPT ![i].tries = @ + 1]
  <2>1. B1 = [B EXCEPT ![i] = b1]
    <3>1. [Billed(i) EXCEPT !.tries = Billed(i).tries + 1] = b1
      BY DEF Billed
    <3>. QED
      BY <1>1, <3>1
  <2>2. new = [b1 EXCEPT !.status = IF tries >= RetryMax THEN "overdue" ELSE "pending"]
    BY <1>6
  <2>. HIDE DEF b1, B, new
  <2>3. B' = [B1 EXCEPT ![i].status = IF tries >= RetryMax THEN "overdue" ELSE "pending"]
    BY <1>1, <1>3, <2>1, <2>2 DEF B
  <2>4. Bills!Refuse(i)
    BY <1>1, <1>2, <1>6, <2>3 DEF Bills!Refuse, Bills!Promised, Billed, B
  <2>. QED
    BY <2>4 DEF BillStep, Bills!BillingNext
<1>. QED
  BY <1>4, <1>5, <1>6

(* An invoice is issued.                                                   *)
LEMMA IssueStep ==
  ASSUME BillInv, NEW i \in Invoices, CreateInvoice(i)
  PROVE  BillStep
<1>. DEFINE B == [j \in Invoices |-> Billed(j)]
            new == [status |-> "pending", charges |-> 0, tries |-> 0]
<1>1. charges[i] = 0 /\ B[i] = Null /\ ~Issued(i)
  BY DEF BillInv, NothingInAdvance, CreateInvoice, Billed
<1>2. FreshInvoice \in InvoiceRow
  BY DEF FreshInvoice, InvoiceRow, Status
<1>3. B' = [B EXCEPT ![i] = new]
  <2>1. B' = [j \in Invoices |-> Billed(j)']
    OBVIOUS
  <2>2. Billed(i)' = new
    BY <1>1, <1>2, RowWritten DEF CreateInvoice, Billed, FreshInvoice, gatewayVars, BillInv, RealInv
  <2>3. \A j \in Invoices : j # i => Billed(j)' = Billed(j)
    BY <1>2, RowWritten DEF CreateInvoice, Billed, Issued, gatewayVars, BillInv, RealInv
  <2>. QED
    BY <2>1, <2>2, <2>3
<1>4. Bills!Issue(i)
  BY <1>1, <1>3 DEF Bills!Issue, CreateInvoice, Billed
<1>. QED
  BY <1>4 DEF BillStep, Bills!BillingNext

-----------------------------------------------------------------------------
(* Every step keeps the bill.                                              *)

(* No payer moves, and the row stays but for its waiting flag.             *)
LEMMA QuietUndisputed ==
  ASSUME NEW i \in Invoices, Undisputed(i), UNCHANGED pay,
         Issued(i)' => /\ Issued(i)
                       /\ invoice'[i].status = invoice[i].status
                       /\ invoice'[i].ref = invoice[i].ref
                       /\ invoice'[i].retries = invoice[i].retries,
         charges'[i] = charges[i], unanswered'[i] = unanswered[i]
  PROVE  Undisputed(i)'
<1>1. /\ Holders(i)' = Holders(i)
      /\ \A p \in Payers : WorksOn(p, i)' <=> WorksOn(p, i)
      /\ \A p \in Payers : Current(p)' = Current(p)
  BY DEF Holders, WorksOn, Current
<1>2. Holders(i) \subseteq Payers
  BY DEF Holders
<1>3. ASSUME Issued(i)', NEW p \in Holders(i) PROVE AsRead(i, p)'
  <2>1. AsRead(i, p) /\ Current(p)' = Current(p)
    BY <1>1, <1>2, <1>3 DEF Undisputed
  <2>. QED
    BY <1>3, <2>1 DEF AsRead
<1>. QED
  BY <1>1, <1>3 DEF Undisputed

(* The payer p lets go of its invoice; the row tells whether it is charged.*)
LEMMA LetGoUndisputed ==
  ASSUME BillInv, RealInv', NEW p \in Payers, pay[p].at \notin {"idle", "asked"},
         GoesOn(p) \/ pay' = [pay EXCEPT ![p] = Idle],
         doubtful \subseteq doubtful',
         UNCHANGED charges,
         \A j \in Invoices \ doubtful' : unanswered'[j] = unanswered[j],
         \A j \in Invoices : j # Current(p) => invoice'[j] = invoice[j],
         Current(p) \notin doubtful' =>
            /\ invoice'[Current(p)].ref # Null => invoice'[Current(p)].status = "paid"
            /\ invoice'[Current(p)].status = "overdue" =>
                 invoice'[Current(p)].retries >= RetryMax
            /\ charges[Current(p)] = 0 \/ invoice'[Current(p)].ref # Null
  PROVE  \A i \in Invoices \ doubtful' : Undisputed(i)'
<1>. SUFFICES ASSUME NEW i \in Invoices \ doubtful' PROVE Undisputed(i)'
  OBVIOUS
<1>1. CASE i # Current(p)
  BY <1>1, RestUndisputed
<1>2. CASE i = Current(p)
  <2>1. TypeInv /\ TypeInv'
    BY DEF BillInv, RealInv
  <2>2. Undisputed(i) /\ WorksOn(p, i)
    BY <1>2, WorkedOn
  <2>3. (\A q \in Payers \ {p} : pay'[q] = pay[q]) /\ p \notin Holders(i)'
    BY <1>2, <2>1, WentOn, LetGo DEF Holders
  <2>4. charges'[i] = charges[i] /\ unanswered'[i] = unanswered[i]
    OBVIOUS
  <2>. QED
    BY <1>2, <2>1, <2>2, <2>3, <2>4, ReleasedUndisputed
<1>. QED
  BY <1>1, <1>2

(* The payer p keeps its invoice in hand.                                  *)
LEMMA HeldUndisputed ==
  ASSUME BillInv, NEW p \in Payers, NEW place \in Places \ {"idle", "asked"}, NEW answer,
         pay[p].at \notin {"idle", "asked"},
         Moved(p, place, answer),
         NEW i \in Invoices \ doubtful, i = Current(p),
         unanswered'[i] = unanswered[i],
         charges'[i] <= 1,
         invoice'[i].ref # Null => invoice'[i].status = "paid",
         invoice'[i].status = "overdue" => invoice'[i].retries >= RetryMax,
         AsRead(i, p)',
         RowRead(p).ref = Null,
         charges'[i] = 0 \/ invoice'[i].ref # Null \/ place = "approved"
  PROVE  Undisputed(i)'
<1>1. Undisputed(i) /\ WorksOn(p, i)
  BY WorkedOn
<1>2. Current(p)' = Current(p)
  BY DEF Moved, Current
<1>3. Holders(i)' = Holders(i)
  BY DEF Moved, Holders
<1>4. Holders(i) = {p}
  BY <1>1 DEF Undisputed, WorksOn
<1>5. WorksOn(p, i)' /\ pay'[p].at = place /\ pay'[p].todo[i].ref = Null
  BY <1>1, <1>2, <1>3 DEF WorksOn, Moved, RowRead
<1>6. \A q \in Payers : WorksOn(q, i)' => q = p
  BY <1>3, <1>4 DEF WorksOn
<1>. QED
  BY <1>1, <1>3, <1>4, <1>5, <1>6 DEF Undisputed

(* The invoice in the hand of p, when p writes its outcome down.           *)
LEMMA OutcomeUndisputed ==
  ASSUME BillInv, NEW p \in Payers, pay[p].at \in {"approved", "refused", "failed"},
         Current(p) \notin doubtful,
         invoice' = [invoice EXCEPT ![Current(p)] = Update(p)]
  PROVE  LET i == Current(p)
             row == invoice'[i] IN
         /\ row = Update(p)
         /\ row \in InvoiceRow
         /\ row.ref # Null => row.status = "paid"
         /\ row.status = "overdue" => row.retries >= RetryMax
         /\ charges[i] = 0 \/ row.ref # Null
         /\ \/ row.status = invoice[i].status /\ row.retries = invoice[i].retries
            \/ charges[i] = 1 /\ row.status = "paid" /\ row.retries = invoice[i].retries
            \/ /\ charges[i] = 0
               /\ row.retries = invoice[i].retries + 1
               /\ row.status = IF row.retries >= RetryMax THEN "overdue" ELSE "pending"
<1>. DEFINE i == Current(p)
            old == invoice[i]
            count == RowRead(p).retries + 1
<1>1. /\ i \in Invoices /\ Issued(i) /\ old \in InvoiceRow /\ RowRead(p) \in InvoiceRow
      /\ AsRead(i, p) /\ Undisputed(i)
      /\ RowRead(p).ref = Null
      /\ pay[p].at = "approved" => charges[i] = 1
      /\ pay[p].at # "approved" => (charges[i] = 0 <=> old.ref = Null)
      /\ old.status = "paid" <=> old.ref # Null
  BY WorkedOn
<1>2. TypeInv /\ (pay[p].at = "approved" => pay[p].answer \in Nat)
  BY DEF BillInv, RealInv, TypeInv, SettlementTypeOK
<1>3. invoice'[i] = Update(p) /\ Update(p) \in InvoiceRow
  BY <1>1, <1>2, UpdateIsRow, RowWritten
<1>4. old.ref = Null /\ old.status # "paid"
  BY <1>1 DEF AsRead, RowRead
<1>5. CASE pay[p].at = "approved"
  <2>1. Update(p).status = "paid" /\ Update(p).ref = pay[p].answer
          /\ Update(p).retries = old.retries
    BY <1>1, <1>5 DEF Update, PaidRow, InvoiceRow
  <2>2. pay[p].answer # Null
    BY <1>2, <1>5, SettlementAssumption
  <2>. QED
    BY <1>1, <1>3, <1>5, <2>1, <2>2
<1>6. CASE pay[p].at # "approved"
  <2>1. charges[i] = 0
    BY <1>1, <1>4, <1>6
  <2>2. /\ Update(p).ref = Null
        /\ Update(p).status = IF count >= RetryMax THEN "overdue" ELSE old.status
        /\ Update(p).retries = count
    BY <1>1, <1>4, <1>6 DEF Update, RefusedRow, InvoiceRow
  <2>3. old.status = "overdue" => old.retries >= RetryMax
    BY <1>1 DEF Undisputed
  <2>4. /\ old.status \in {"pending", "overdue"}
        /\ old.retries \in Nat /\ RowRead(p).retries \in Nat
    BY <1>1, <1>4 DEF InvoiceRow, Status
  <2>5. CASE old.status = RowRead(p).status /\ old.retries = RowRead(p).retries
    BY <1>3, <2>1, <2>2, <2>3, <2>4, <2>5, SettlementAssumption
  <2>6. CASE /\ old.retries = count
             /\ old.status = IF old.retries >= RetryMax THEN "overdue" ELSE RowRead(p).status
    BY <1>3, <2>1, <2>2, <2>3, <2>4, <2>6, SettlementAssumption
  <2>. QED
    BY <1>1, <2>5, <2>6 DEF AsRead, RowRead
<1>. QED
  BY <1>5, <1>6

(* Writing the outcome of an undisputed invoice is a step of Billing, and  *)
(* that of a disputed one is beyond it.                                    *)
LEMMA OutcomeStep ==
  ASSUME BillInv, NEW p \in Payers, pay[p].at \in {"approved", "refused", "failed"},
         invoice' = [invoice EXCEPT ![Current(p)] = Update(p)],
         UNCHANGED charges,
         doubtful \subseteq doubtful',
         Current(p) \in doubtful' \/ doubtful' = doubtful
  PROVE  BillStep
<1>. DEFINE i == Current(p)
<1>1. TypeInv /\ i \in Invoices /\ Issued(i) /\ Update(p) \in InvoiceRow
  BY CurrentInHand, UpdateIsRow DEF BillInv, RealInv
<1>2. CASE i \in doubtful'
  <2>1. \A j \in Invoices \ doubtful' : Billed(j)' = Billed(j)
    BY <1>1, <1>2, RowWritten DEF Billed, Issued
  <2>. QED
    BY <2>1, DisputeStep
<1>3. CASE i \notin doubtful'
  <2>1. doubtful' = doubtful /\ i \notin doubtful
    BY <1>3
  <2>2. \/ Update(p).status = invoice[i].status /\ Update(p).retries = invoice[i].retries
        \/ charges[i] = 1 /\ Update(p).status = "paid" /\ Update(p).retries = invoice[i].retries
        \/ /\ charges[i] = 0
           /\ Update(p).retries = invoice[i].retries + 1
           /\ Update(p).status = IF Update(p).retries >= RetryMax THEN "overdue" ELSE "pending"
    BY <2>1, OutcomeUndisputed
  <2>. QED
    BY <1>1, <2>1, <2>2, RowStep
<1>. QED
  BY <1>2, <1>3

(* The steps of a payer that works on an invoice.                          *)
LEMMA PayerStepBills ==
  ASSUME BillInv, RealInv', NEW p \in Payers, PayerStep(p)
  PROVE  /\ \A i \in Invoices \ doubtful' : Undisputed(i)'
         /\ BillStep
<1>. DEFINE c == Current(p)
<1>1. TypeInv /\ TypeInv'
  BY DEF BillInv, RealInv
<1>2. pay[p].at \notin {"idle", "asked"}
  BY DEF PayerStep, SkipInvoice, GatewayApproves, GatewayRefuses, GatewayIsSilent,
         RecordOutcome, Calls
<1>3. c \in Invoices /\ Issued(c) /\ RowRead(p) \in InvoiceRow
  BY <1>1, <1>2, CurrentInHand
<1>4. CASE SkipInvoice(p)
  <2>1. GoesOn(p) /\ UNCHANGED <<invoice, charges, unanswered, doubtful>>
    BY <1>4 DEF SkipInvoice, gatewayVars
  <2>2. ASSUME c \notin doubtful
        PROVE  /\ invoice[c].ref # Null => invoice[c].status = "paid"
               /\ invoice[c].status = "overdue" => invoice[c].retries >= RetryMax
               /\ charges[c] = 0 \/ invoice[c].ref # Null
    <3>1. AsRead(c, p) /\ Undisputed(c)
      BY <1>2, <2>2, WorkedOn
    <3>. QED
      BY <1>3, <1>4, <3>1 DEF AsRead, RowRead, SkipInvoice, Undisputed
  <2>3. \A i \in Invoices \ doubtful' : Undisputed(i)'
    BY <1>2, <2>1, <2>2, LetGoUndisputed
  <2>4. BillStep
    BY <2>1, DisputeStep DEF Billed, Issued
  <2>. QED
    BY <2>3, <2>4
<1>5. CASE GatewayApproves(p)
  <2>1. Moved(p, "approved", charges[c] + 1)
    <3>1. charges[c] + 1 \in Nat
      BY <1>1, <1>3 DEF TypeInv, SettlementTypeOK
    <3>. QED
      BY <1>1, <1>5, <3>1, MovedOn DEF GatewayApproves, Places
  <2>2. /\ UNCHANGED <<invoice, unanswered, doubtful>>
        /\ charges' = [charges EXCEPT ![c] = @ + 1]
        /\ RowRead(p).ref = Null /\ pay[p].at = "calling"
    BY <1>5 DEF GatewayApproves, Calls
  <2>3. /\ \A i \in Invoices : i # c => charges'[i] = charges[i]
        /\ charges'[c] = charges[c] + 1
    BY <1>1, <1>3, <2>2 DEF TypeInv, SettlementTypeOK
  <2>4. ASSUME NEW i \in Invoices \ doubtful, i = c
        PROVE  Undisputed(i)' /\ charges[i] = 0
    <3>1. AsRead(i, p) /\ Undisputed(i) /\ (charges[i] = 0 <=> invoice[i].ref = Null)
      BY <1>2, <2>2, <2>4, WorkedOn
    <3>2. charges[i] = 0
      BY <2>2, <2>4, <3>1 DEF AsRead, RowRead
    <3>3. AsRead(i, p)'
      <4>1. pay[p].at # "failed" /\ Current(p)' = Current(p)
        BY <2>1, <2>2 DEF Moved, Current
      <4>. QED
        BY <2>1, <2>2, <3>1, <4>1 DEF AsRead, Moved
    <3>4. /\ "approved" \in Places \ {"idle", "asked"}
          /\ unanswered'[i] = unanswered[i] /\ charges'[i] <= 1
          /\ invoice'[i].ref # Null => invoice'[i].status = "paid"
          /\ invoice'[i].status = "overdue" => invoice'[i].retries >= RetryMax
      BY <1>3, <2>2, <2>3, <2>4, <3>1, <3>2 DEF Undisputed, Places
    <3>5. charges'[i] = 0 \/ invoice'[i].ref # Null \/ "approved" = "approved"
      BY <2>2
    <3>6. Undisputed(i)'
      BY <1>2, <1>3, <2>1, <2>2, <2>4, <3>3, <3>4, <3>5, HeldUndisputed
    <3>. QED
      BY <3>2, <3>6
  <2>5. ASSUME NEW i \in Invoices \ doubtful' PROVE Undisputed(i)'
    <3>1. i \in Invoices \ doubtful
      BY <2>2
    <3>2. CASE i = c
      BY <2>4, <3>1, <3>2
    <3>3. CASE i # c
      <4>1. /\ invoice'[i] = invoice[i] /\ charges'[i] = charges[i]
            /\ unanswered'[i] = unanswered[i] /\ "approved" \in Places
        BY <2>2, <2>3, <3>3 DEF Places
      <4>. QED
        BY <1>2, <2>1, <3>1, <3>3, <4>1, MovedUndisputed
    <3>. QED
      BY <3>2, <3>3
  <2>6. CASE c \in doubtful
    <3>1. \A j \in Invoices \ doubtful' : Billed(j)' = Billed(j)
      BY <2>2, <2>3, <2>6 DEF Billed, Issued
    <3>. QED
      BY <2>2, <2>5, <3>1, DisputeStep
  <2>7. CASE c \notin doubtful
    BY <1>1, <1>3, <2>2, <2>4, <2>5, <2>7, ChargeStep
  <2>. QED
    BY <2>6, <2>7
<1>6. CASE GatewayRefuses(p)
  <2>1. Moved(p, "refused", Null)
    BY <1>1, <1>6, MovedOn DEF GatewayRefuses, Calls, TypeInv, SettlementTypeOK, Places
  <2>2. /\ UNCHANGED <<invoice, charges, unanswered, doubtful>>
        /\ RowRead(p).ref = Null /\ pay[p].at = "calling"
    BY <1>6 DEF GatewayRefuses, Calls, gatewayVars
  <2>3. ASSUME NEW i \in Invoices \ doubtful, i = c
        PROVE  Undisputed(i)'
    <3>1. AsRead(i, p) /\ Undisputed(i) /\ (charges[i] = 0 <=> invoice[i].ref = Null)
      BY <1>2, <2>2, <2>3, WorkedOn
    <3>2. charges[i] = 0
      BY <2>2, <2>3, <3>1 DEF AsRead, RowRead
    <3>3. AsRead(i, p)'
      <4>1. pay[p].at # "failed" /\ Current(p)' = Current(p)
        BY <2>1, <2>2 DEF Moved, Current
      <4>. QED
        BY <2>1, <2>2, <3>1, <4>1 DEF AsRead, Moved
    <3>4. /\ "refused" \in Places \ {"idle", "asked"}
          /\ unanswered'[i] = unanswered[i] /\ charges'[i] <= 1
          /\ invoice'[i].ref # Null => invoice'[i].status = "paid"
          /\ invoice'[i].status = "overdue" => invoice'[i].retries >= RetryMax
      BY <1>3, <2>2, <2>3, <3>1, <3>2 DEF Undisputed, Places
    <3>5. charges'[i] = 0 \/ invoice'[i].ref # Null \/ "refused" = "approved"
      BY <2>2, <3>2
    <3>6. Undisputed(i)'
      BY <1>2, <1>3, <2>1, <2>2, <2>3, <3>3, <3>4, <3>5, HeldUndisputed
    <3>. QED
      BY <3>2, <3>6
  <2>4. ASSUME NEW i \in Invoices \ doubtful' PROVE Undisputed(i)'
    <3>1. i \in Invoices \ doubtful
      BY <2>2
    <3>2. CASE i = c
      BY <2>3, <3>1, <3>2
    <3>3. CASE i # c
      <4>1. /\ invoice'[i] = invoice[i] /\ charges'[i] = charges[i]
            /\ unanswered'[i] = unanswered[i] /\ "refused" \in Places
        BY <2>2, <3>3 DEF Places
      <4>. QED
        BY <1>2, <2>1, <3>1, <3>3, <4>1, MovedUndisputed
    <3>. QED
      BY <3>2, <3>3
  <2>. QED
    BY <2>2, <2>4, DisputeStep DEF Billed, Issued
<1>7. CASE GatewayIsSilent(p)
  <2>1. Moved(p, "failed", Null)
    BY <1>1, <1>7, MovedOn DEF GatewayIsSilent, Calls, TypeInv, SettlementTypeOK, Places
  <2>2. /\ UNCHANGED <<invoice, charges>>
        /\ doubtful' = doubtful \cup {c}
        /\ \A i \in Invoices : i # c => unanswered'[i] = unanswered[i]
    BY <1>1, <1>3, <1>7 DEF GatewayIsSilent, TypeInv, SettlementTypeOK
  <2>3. \A i \in Invoices \ doubtful' : Undisputed(i)'
    BY <1>2, <2>1, <2>2, MovedUndisputed DEF Places
  <2>. QED
    BY <2>2, <2>3, DisputeStep DEF Billed, Issued
<1>8. CASE RecordOutcome(p)
  <2>1. /\ pay[p].at \in {"approved", "refused", "failed"} /\ GoesOn(p)
        /\ invoice' = [invoice EXCEPT ![c] = Update(p)]
        /\ UNCHANGED <<charges, unanswered, doubtful>>
    BY <1>8 DEF RecordOutcome, gatewayVars
  <2>2. \A j \in Invoices : j # c => invoice'[j] = invoice[j]
    BY <1>1, <1>3, <2>1, UpdateIsRow, RowWritten
  <2>3. \A i \in Invoices \ doubtful' : Undisputed(i)'
    BY <1>2, <2>1, <2>2, OutcomeUndisputed, LetGoUndisputed
  <2>. QED
    BY <2>1, <2>3, OutcomeStep
<1>. QED
  BY <1>4, <1>5, <1>6, <1>7, <1>8 DEF PayerStep

(* A statement of a payer fails, or the payer is cut off.                  *)
LEMMA FaultBills ==
  ASSUME BillInv, RealInv', NEW p \in Payers, UpdateFails(p) \/ SelectFails(p) \/ CutOff(p)
  PROVE  /\ \A i \in Invoices \ doubtful' : Undisputed(i)'
         /\ BillStep
<1>. DEFINE c == Current(p)
<1>1. TypeInv /\ TypeInv'
  BY DEF BillInv, RealInv
<1>2. pay[p].at # "idle"
  BY DEF UpdateFails, SelectFails, CutOff, Calls
<1>3. c \in Invoices /\ Issued(c) /\ RowRead(p) \in InvoiceRow
  BY <1>1, <1>2, CurrentInHand
<1>4. ASSUME pay' = [pay EXCEPT ![p] = Idle], UNCHANGED <<invoice, charges>>,
             doubtful \subseteq doubtful',
             \A j \in Invoices \ doubtful' : unanswered'[j] = unanswered[j],
             pay[p].at = "approved" => c \in doubtful'
      PROVE  /\ \A i \in Invoices \ doubtful' : Undisputed(i)'
             /\ BillStep
  <2>1. CASE pay[p].at = "asked"
    BY <1>2, <1>4, <2>1, RestUndisputed, DisputeStep DEF Billed, Issued
  <2>2. CASE pay[p].at # "asked"
    <3>1. ASSUME c \notin doubtful'
          PROVE  /\ invoice[c].ref # Null => invoice[c].status = "paid"
                 /\ invoice[c].status = "overdue" => invoice[c].retries >= RetryMax
                 /\ charges[c] = 0 \/ invoice[c].ref # Null
      <4>1. c \notin doubtful /\ pay[p].at # "approved"
        BY <1>4, <3>1
      <4>2. Undisputed(c) /\ (charges[c] = 0 <=> invoice[c].ref = Null)
        BY <1>2, <2>2, <4>1, WorkedOn
      <4>. QED
        BY <1>3, <4>2 DEF Undisputed
    <3>. QED
      BY <1>2, <1>4, <2>2, <3>1, LetGoUndisputed, DisputeStep DEF Billed, Issued
  <2>. QED
    BY <2>1, <2>2
<1>5. CASE SelectFails(p)
  <2>1. /\ pay' = [pay EXCEPT ![p] = Idle]
        /\ UNCHANGED <<invoice, charges, unanswered, doubtful>>
        /\ pay[p].at # "approved"
    BY <1>5 DEF SelectFails, gatewayVars
  <2>. QED
    BY <1>4, <2>1
<1>6. CASE CutOff(p)
  <2>1. /\ pay' = [pay EXCEPT ![p] = Idle]
        /\ UNCHANGED <<invoice, charges>>
        /\ doubtful \subseteq doubtful'
        /\ pay[p].at = "approved" => c \in doubtful'
    BY <1>6 DEF CutOff
  <2>2. \A j \in Invoices \ doubtful' : unanswered'[j] = unanswered[j]
    <3>1. CASE Calls(p)
      <4>1. unanswered' = [unanswered EXCEPT ![c] = @ + 1] /\ c \in doubtful'
        BY <1>6, <3>1 DEF CutOff
      <4>. QED
        BY <1>1, <4>1 DEF TypeInv, SettlementTypeOK
    <3>2. CASE ~Calls(p)
      BY <1>6, <3>2 DEF CutOff
    <3>. QED
      BY <3>1, <3>2
  <2>. QED
    BY <1>4, <2>1, <2>2
<1>7. CASE UpdateFails(p) /\ pay[p].at = "failed"
  <2>1. /\ pay' = [pay EXCEPT ![p] = Idle]
        /\ UNCHANGED <<charges, unanswered>> /\ doubtful' = doubtful
    BY <1>7 DEF UpdateFails, gatewayVars
  <2>2. CASE UNCHANGED invoice
    BY <1>4, <1>7, <2>1, <2>2
  <2>3. CASE invoice' = [invoice EXCEPT ![c] = Update(p)]
    <3>1. \A j \in Invoices : j # c => invoice'[j] = invoice[j]
      BY <1>1, <1>3, <1>7, <2>3, UpdateIsRow, RowWritten
    <3>2. \A i \in Invoices \ doubtful' : Undisputed(i)'
      BY <1>7, <2>1, <2>3, <3>1, OutcomeUndisputed, LetGoUndisputed
    <3>. QED
      BY <1>7, <2>1, <2>3, <3>2, OutcomeStep
  <2>. QED
    BY <1>7, <2>2, <2>3 DEF UpdateFails
<1>8. CASE UpdateFails(p) /\ pay[p].at # "failed"
  <2>1. /\ pay' = [pay EXCEPT ![p] = [pay[p] EXCEPT !.at = "failed", !.answer = Null]]
        /\ UNCHANGED <<charges, unanswered>>
        /\ pay[p].at \in {"approved", "refused"}
        /\ doubtful' = doubtful \cup {j \in {c} : pay[p].at = "approved"}
        /\ invoice' = invoice \/ invoice' = [invoice EXCEPT ![c] = Update(p)]
    BY <1>8 DEF UpdateFails, gatewayVars
  <2>2. Moved(p, "failed", Null)
    BY <1>1, <2>1, MovedOn DEF Places
  <2>3. \A j \in Invoices : j # c => invoice'[j] = invoice[j]
    BY <1>1, <1>3, <2>1, UpdateIsRow, RowWritten
  <2>4. ASSUME NEW i \in Invoices \ doubtful', i = c
        PROVE  Undisputed(i)'
    <3>1. i \notin doubtful /\ pay[p].at = "refused"
      BY <2>1, <2>4
    <3>2. /\ AsRead(i, p) /\ Undisputed(i) /\ invoice[i] \in InvoiceRow
          /\ RowRead(p) = pay[p].todo[i] /\ RowRead(p).ref = Null
          /\ charges[i] = 0 <=> invoice[i].ref = Null
      BY <1>2, <2>4, <3>1, WorkedOn DEF RowRead
    <3>3. charges[i] = 0 /\ invoice[i].ref = Null
      BY <3>2 DEF AsRead
    <3>4. Current(p)' = Current(p) /\ pay'[p].todo = pay[p].todo /\ pay'[p].at = "failed"
      BY <2>2 DEF Moved, Current
    <3>5. /\ AsRead(i, p)'
          /\ invoice'[i].ref # Null => invoice'[i].status = "paid"
          /\ invoice'[i].status = "overdue" => invoice'[i].retries >= RetryMax
      <4>1. CASE invoice' = invoice
        BY <1>3, <2>4, <3>1, <3>2, <3>4, <4>1 DEF AsRead, Undisputed
      <4>2. CASE invoice' = [invoice EXCEPT ![c] = Update(p)]
        <5>1. /\ invoice'[i] = Update(p)
              /\ invoice'[i].ref # Null => invoice'[i].status = "paid"
              /\ invoice'[i].status = "overdue" => invoice'[i].retries >= RetryMax
          BY <2>1, <2>4, <3>1, <4>2, OutcomeUndisputed
        <5>2. /\ invoice[i].status = RowRead(p).status
              /\ invoice[i].retries = RowRead(p).retries
          BY <3>1, <3>2 DEF AsRead
        <5>3. /\ Update(p).ref = Null
              /\ Update(p).retries = RowRead(p).retries + 1
              /\ Update(p).status = IF Update(p).retries >= RetryMax THEN "overdue"
                                    ELSE RowRead(p).status
          BY <1>3, <2>4, <3>1, <3>2, <3>3, <5>2 DEF Update, RefusedRow, InvoiceRow
        <5>. QED
          BY <2>4, <3>2, <3>4, <5>1, <5>3 DEF AsRead
      <4>. QED
        BY <2>1, <4>1, <4>2
    <3>. QED
      BY <1>2, <2>1, <2>2, <2>4, <3>1, <3>2, <3>3, <3>5, HeldUndisputed DEF Places
  <2>5. ASSUME NEW i \in Invoices \ doubtful' PROVE Undisputed(i)'
    <3>1. CASE i = c
      BY <2>4, <3>1
    <3>2. CASE i # c
      <4>1. /\ invoice'[i] = invoice[i] /\ charges'[i] = charges[i]
            /\ unanswered'[i] = unanswered[i] /\ "failed" \in Places
            /\ i \in Invoices \ doubtful
        BY <2>1, <2>3, <3>2 DEF Places
      <4>. QED
        BY <1>2, <2>1, <2>2, <3>2, <4>1, MovedUndisputed
    <3>. QED
      BY <3>1, <3>2
  <2>6. BillStep
    <3>1. CASE invoice' = invoice
      BY <2>1, <3>1, DisputeStep DEF Billed, Issued
    <3>2. CASE invoice' = [invoice EXCEPT ![c] = Update(p)]
      <4>1. c \in doubtful' \/ doubtful' = doubtful
        BY <2>1
      <4>. QED
        BY <2>1, <3>2, <4>1, OutcomeStep
    <3>. QED
      BY <2>1, <3>1, <3>2
  <2>. QED
    BY <2>5, <2>6
<1>. QED
  BY <1>5, <1>6, <1>7, <1>8

(* Every step keeps BillInv and is a step of Billing or a stutter.         *)
LEMMA BillKept ==
  ASSUME BillInv, [SettlementNext]_settlementVars
  PROVE  BillInv' /\ BillStep
<1>1. RealInv /\ RealInv' /\ TypeInv /\ TypeInv'
  BY RealInvKept DEF BillInv, RealInv
<1>2. SUFFICES /\ NothingInAdvance'
               /\ \A i \in Invoices \ doubtful' : Undisputed(i)'
               /\ BillStep
  BY <1>1 DEF BillInv
<1>3. ASSUME UNCHANGED <<invoice, charges, unanswered>>
      PROVE  NothingInAdvance'
  BY <1>3 DEF NothingInAdvance, BillInv, Issued
<1>4. ASSUME NEW i \in Invoices, CreateInvoice(i)
      PROVE  NothingInAdvance' /\ (\A j \in Invoices \ doubtful' : Undisputed(j)') /\ BillStep
  <2>1. FreshInvoice \in InvoiceRow
    BY DEF FreshInvoice, InvoiceRow, Status
  <2>2. /\ ~Issued(i) /\ invoice' = [invoice EXCEPT ![i] = FreshInvoice]
        /\ UNCHANGED <<pay, charges, unanswered, doubtful>>
    BY <1>4 DEF CreateInvoice, gatewayVars
  <2>3. /\ invoice'[i] = FreshInvoice
        /\ \A j \in Invoices : j # i => invoice'[j] = invoice[j]
        /\ \A j \in Invoices : Issued(j) => Issued(j)'
    BY <1>1, <2>1, <2>2, RowWritten
  <2>4. NothingInAdvance'
    BY <2>2, <2>3 DEF NothingInAdvance, BillInv
  <2>5. ASSUME NEW j \in Invoices \ doubtful' PROVE Undisputed(j)'
    <3>1. Undisputed(j)
      BY <2>2 DEF BillInv
    <3>2. CASE j = i
      <4>1. Holders(j) = {} /\ charges[j] = 0 /\ unanswered[j] = 0
        BY <1>1, <2>2, <3>2, HoldersProperties DEF BillInv, NothingInAdvance
      <4>2. Holders(j)' = {}
        BY <2>2, <4>1 DEF Holders
      <4>. QED
        BY <2>2, <2>3, <3>2, <4>1, <4>2 DEF Undisputed, FreshInvoice, WorksOn
    <3>3. CASE j # i
      BY <2>2, <2>3, <3>1, <3>3, QuietUndisputed DEF Issued
    <3>. QED
      BY <3>2, <3>3
  <2>. QED
    BY <1>4, <2>4, <2>5, IssueStep
<1>5. ASSUME NEW i \in Invoices, RetryDue(i)
      PROVE  NothingInAdvance' /\ (\A j \in Invoices \ doubtful' : Undisputed(j)') /\ BillStep
  <2>1. /\ \A j \in Invoices : Issued(j)' <=> Issued(j)
        /\ \A j \in Invoices : Issued(j) =>
             /\ invoice'[j].status = invoice[j].status
             /\ invoice'[j].ref = invoice[j].ref
             /\ invoice'[j].retries = invoice[j].retries
    <3>1. invoice[i] \in InvoiceRow /\ Issued(i)
      BY <1>1, <1>5 DEF RetryDue, Issued, TypeInv, SettlementTypeOK
    <3>. DEFINE row == [invoice[i] EXCEPT !.waiting = FALSE]
    <3>2. /\ row \in InvoiceRow /\ row.status = invoice[i].status
          /\ row.ref = invoice[i].ref /\ row.retries = invoice[i].retries
      BY <3>1 DEF InvoiceRow
    <3>3. invoice' = [invoice EXCEPT ![i] = row]
      BY <1>5 DEF RetryDue
    <3>. HIDE DEF row
    <3>. QED
      BY <1>1, <3>1, <3>2, <3>3, RowWritten DEF Issued
  <2>2. UNCHANGED <<pay, charges, unanswered, doubtful>>
    BY <1>5 DEF RetryDue, gatewayVars
  <2>3. NothingInAdvance'
    BY <2>1, <2>2 DEF NothingInAdvance, BillInv
  <2>4. \A j \in Invoices \ doubtful' : Undisputed(j)'
    BY <2>1, <2>2, QuietUndisputed DEF BillInv
  <2>5. \A j \in Invoices : Billed(j)' = Billed(j)
    BY <2>1, <2>2 DEF Billed
  <2>. QED
    BY <2>2, <2>3, <2>4, <2>5, DisputeStep
<1>6. ASSUME NEW i \in Invoices, LateCapture(i)
      PROVE  NothingInAdvance' /\ (\A j \in Invoices \ doubtful' : Undisputed(j)') /\ BillStep
  <2>1. /\ UNCHANGED <<invoice, pay, doubtful>> /\ unanswered[i] > 0
        /\ \A j \in Invoices : j # i => charges'[j] = charges[j] /\ unanswered'[j] = unanswered[j]
    BY <1>1, <1>6 DEF LateCapture, TypeInv, SettlementTypeOK
  <2>2. i \in doubtful /\ Issued(i)
    BY <2>1 DEF BillInv, NothingInAdvance, Undisputed
  <2>3. NothingInAdvance'
    BY <2>1, <2>2 DEF NothingInAdvance, BillInv, Issued
  <2>4. \A j \in Invoices \ doubtful' : Undisputed(j)'
    BY <2>1, <2>2, QuietUndisputed DEF BillInv, Issued
  <2>5. \A j \in Invoices \ doubtful' : Billed(j)' = Billed(j)
    BY <2>1, <2>2 DEF Billed, Issued
  <2>. QED
    BY <2>1, <2>3, <2>4, <2>5, DisputeStep
<1>7. ASSUME NEW p \in Payers, NEW S \in SUBSET Invoices, \A i \in S : Issued(i),
             pay[p].at \in {"idle", "asked"}, TakesInHand(p, S),
             UNCHANGED <<invoice, charges, unanswered>>
      PROVE  (\A j \in Invoices \ doubtful' : Undisputed(j)') /\ BillStep
  <2>1. doubtful \subseteq doubtful'
    BY <1>7 DEF TakesInHand
  <2>. QED
    BY <1>1, <1>7, <2>1, TakenUndisputed, DisputeStep DEF Billed, Issued
<1>8. ASSUME NEW e \in Engines, StartCycle(e)
      PROVE  NothingInAdvance' /\ (\A j \in Invoices \ doubtful' : Undisputed(j)') /\ BillStep
  <2>1. PICK S \in SUBSET {i \in Invoices : IsPayable(i)} : TakesInHand(e, S)
    BY <1>8 DEF StartCycle
  <2>2. S \in SUBSET Invoices /\ \A i \in S : Issued(i)
    BY DEF IsPayable
  <2>3. /\ e \in Payers /\ pay[e].at = "idle"
        /\ UNCHANGED <<invoice, charges, unanswered>>
    BY <1>8 DEF StartCycle, gatewayVars, Payers
  <2>. QED
    BY <1>3, <1>7, <2>1, <2>2, <2>3
<1>9. ASSUME NEW d \in Desks, ReadInvoice(d)
       PROVE  NothingInAdvance' /\ (\A j \in Invoices \ doubtful' : Undisputed(j)') /\ BillStep
  <2>. DEFINE S == DOMAIN pay[d].todo
  <2>1. d \in Payers
    BY DEF Payers
  <2>2. S \in SUBSET Invoices /\ \A i \in S : Issued(i)
    BY <1>1, <2>1 DEF TypeInv, SettlementTypeOK, PayersAreEquipped
  <2>3. /\ pay[d].at = "asked" /\ TakesInHand(d, S)
        /\ UNCHANGED <<invoice, charges, unanswered>>
    BY <1>9 DEF ReadInvoice, gatewayVars
  <2>. QED
    BY <1>3, <1>7, <2>1, <2>2, <2>3
<1>10. ASSUME NEW d \in Desks, NEW i \in Invoices, AskToPay(d, i)
       PROVE  NothingInAdvance' /\ (\A j \in Invoices \ doubtful' : Undisputed(j)') /\ BillStep
  <2>. DEFINE read == [j \in {i} |-> invoice[j]]
  <2>1. d \in Payers /\ "asked" \in Places
    BY DEF Payers, Places
  <2>2. read \in Reads
    BY <1>1, <1>10, RowsAreReads DEF AskToPay, TypeInv, SettlementTypeOK, Issued
  <2>3. pay' = [pay EXCEPT ![d] = [Idle EXCEPT !.at = "asked", !.todo = read]]
    BY <1>10 DEF AskToPay
  <2>. HIDE DEF read
  <2>4. /\ \A q \in Payers \ {d} : pay'[q] = pay[q]
        /\ pay'[d].at = "asked"
    BY <1>1, <2>1, <2>2, <2>3, TakenUp, Zenon
  <2>5. /\ UNCHANGED <<invoice, charges, unanswered, doubtful>> /\ pay[d].at = "idle"
    BY <1>10 DEF AskToPay, gatewayVars
  <2>6. ASSUME NEW j \in Invoices \ doubtful' PROVE Undisputed(j)'
    <3>1. d \notin Holders(j)' /\ d \notin Holders(j) /\ Undisputed(j)
      BY <2>4, <2>5 DEF Holders, BillInv
    <3>. QED
      BY <1>1, <2>1, <2>4, <2>5, <3>1, StaysUndisputed DEF WorksOn
  <2>. QED
    BY <1>3, <2>5, <2>6, DisputeStep DEF Billed, Issued
<1>11. ASSUME NEW p \in Payers, PayerStep(p) \/ UpdateFails(p) \/ SelectFails(p) \/ CutOff(p)
       PROVE  NothingInAdvance' /\ (\A j \in Invoices \ doubtful' : Undisputed(j)') /\ BillStep
  <2>1. CASE SelectFails(p)
    BY <1>3, <2>1, FaultBills, <1>1 DEF SelectFails, gatewayVars
  <2>2. CASE ~SelectFails(p)
    <3>1. pay[p].at # "idle"
      BY <1>11, <2>2 DEF PayerStep, SkipInvoice, GatewayApproves, GatewayRefuses,
                         GatewayIsSilent, RecordOutcome, UpdateFails, CutOff, Calls
    <3>2. Current(p) \in Invoices /\ Issued(Current(p))
      BY <1>1, <3>1, CurrentInHand
    <3>3. \A j \in Invoices : Issued(j) => Issued(j)'
      <4>1. CASE UNCHANGED invoice
        BY <4>1 DEF Issued
      <4>2. CASE /\ invoice' = [invoice EXCEPT ![Current(p)] = Update(p)]
                 /\ pay[p].at \in {"approved", "refused", "failed"}
        BY <1>1, <3>2, <4>2, UpdateIsRow, RowWritten
      <4>. QED
        BY <1>11, <2>2, <4>1, <4>2
           DEF PayerStep, SkipInvoice, GatewayApproves, GatewayRefuses,
               GatewayIsSilent, RecordOutcome, UpdateFails, CutOff
    <3>4. \A j \in Invoices : j # Current(p) =>
                                charges'[j] = charges[j] /\ unanswered'[j] = unanswered[j]
      <4>1. /\ \/ UNCHANGED charges
               \/ charges' = [charges EXCEPT ![Current(p)] = @ + 1]
            /\ \/ UNCHANGED unanswered
               \/ unanswered' = [unanswered EXCEPT ![Current(p)] = @ + 1]
        BY <1>11, <2>2
           DEF PayerStep, SkipInvoice, GatewayApproves, GatewayRefuses, GatewayIsSilent,
               RecordOutcome, UpdateFails, CutOff, gatewayVars
      <4>. QED
        BY <1>1, <4>1 DEF TypeInv, SettlementTypeOK
    <3>5. NothingInAdvance'
      BY <3>2, <3>3, <3>4 DEF NothingInAdvance, BillInv
    <3>. QED
      BY <1>1, <1>11, <3>5, PayerStepBills, FaultBills
  <2>. QED
    BY <2>1, <2>2
<1>12. CASE UNCHANGED settlementVars
  <2>1. UNCHANGED <<invoice, pay, charges, unanswered, doubtful>>
    BY <1>12 DEF settlementVars
  <2>2. \A j \in Invoices \ doubtful' : Undisputed(j)'
    BY <2>1, QuietUndisputed DEF BillInv, Issued
  <2>. QED
    BY <1>3, <2>1, <2>2, DisputeStep DEF Billed, Issued
<1>. QED
  BY <1>4, <1>5, <1>6, <1>8, <1>9, <1>10, <1>11, <1>12 DEF SettlementNext, SettlementDone

(* The engines and the desk implement Billing.                             *)
THEOREM BillIsKept == SettlementSpec => KeepsTheBill
<1>1. SettlementInit => Bills!BillingInit
  BY DEF SettlementInit, Bills!BillingInit, Issued
<1>2. BillInv /\ [SettlementNext]_settlementVars => BillInv' /\ BillStep
  BY BillKept
<1>. QED
  BY BillInvInit, <1>1, <1>2, PTL DEF SettlementSpec, KeepsTheBill, Bills!BillingSpec, BillStep
=============================================================================
