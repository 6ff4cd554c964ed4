\* The shipped increment table, climbed from the ends of its tiers.
SPECIFICATION Spec
CONSTANTS
  IncrementTable <- ShippedTable
  FinalIncrement <- ShippedFinalIncrement
  MaxPrice = 12000000
INVARIANTS
  DocumentedIncrements
  MinimumNeverFalls
