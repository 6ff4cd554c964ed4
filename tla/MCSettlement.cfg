\* Two engines and the pay desk, a call without an answer, and a fault.
SPECIFICATION FairSettlementSpec
CONSTANTS
  e1 = e1  e2 = e2  d1 = d1
  Null = Null
  Invoices <- TwoInvoices
  Engines = {e1, e2}
  Desks = {d1}
  RetryMax = 2
  CycleLimit = 2
  MaxEvents = 3
INVARIANTS
  SettlementTypeOK
  PaymentsAreReal
PROPERTIES
  KeepsTheBill
  InvoicesAreSettled
