SPECIFICATION FairSpec
CONSTANTS
  Intents = {i1}
  NoIntent = NoIntent
  MaxAttempts = 2
  Qty = 2
  MaxCrashes = 2
  MaxErrs = 1
INVARIANT TypeOK
INVARIANT NoRebuy
INVARIANT Booked
INVARIANT IInv
PROPERTY ClosedNeverBought
PROPERTY KeepsPromise
PROPERTY Settled
