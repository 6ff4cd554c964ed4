\* Two engines, every call answered, no fault.
SPECIFICATION SettlementSpec
CONSTANTS
  e1 = e1  e2 = e2  d1 = d1
  Null = Null
  Invoices <- TwoInvoices
  Engines = {e1, e2}
  Desks = {d1}
  RetryMax = 2
  CycleLimit = 2
  MaxEvents = 1
INVARIANT
  ChargedOnce
