SPECIFICATION Spec
CONSTANTS
  d1 = d1
  c1 = c1
  n1 = n1
  None = None
  SourceOrder <- MCSourceOrder
  Intents = {d1, c1, n1}
  Targets <- MCTargets
  Wants <- MCWants
  Exchange <- MCExchange
  Price <- MCPrice
  Weight <- MCWeight
  Due <- MCDue
  Book <- MCBook
  Capitals = {80, 40}
  OvernightPct = 50
  BorrowX = 2
  ReserveTrades = 1
  MinOrderValue = 15
  MaxOrders = 2
  Legacy = {n1}
  Renumbered = {n1}
  Bars <- MCBars
  MaxDay = 1
CONSTRAINT MCOneKind
INVARIANT TypeOK
INVARIANT EnteredOnce
INVARIANT KeptShare
INVARIANT Obeyed
PROPERTY WithinMeans
PROPERTY ReserveKept
