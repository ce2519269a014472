SPECIFICATION Spec
CONSTANTS
  a = a
  b = b
  Lots = {a, b}
  NoLot = NoLot
  EntryQty <- MCEntryQty
  Outside = 0
  Dust = 0
  MaxOrders = 3
  MaxDays = 0
  MaxSold = 0
  MaxCrashes = 0
  MaxErrs = 0
INVARIANT OwnShares
