SPECIFICATION Spec
CONSTRAINT MCOneKind
CONSTANTS
  a = a
  b = b
  Lots = {a, b}
  NoLot = NoLot
  EntryQty <- MCEntryQty
  Outside = 0
  Dust = 2
  MaxOrders = 2
  MaxDays = 1
  MaxSold = 1
  MaxCrashes = 1
  MaxErrs = 1
INVARIANT TypeOK
INVARIANT OfferedOnce
INVARIANT OwnSharesKept
INVARIANT LedgerTrue
PROPERTY NeverGrows
