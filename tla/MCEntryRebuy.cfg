SPECIFICATION Spec
CONSTANTS
  Intents = {i1}
  NoIntent = NoIntent
  MaxAttempts = 2
  Qty = 2
  MaxCrashes = 1
  MaxErrs = 0
INVARIANT BoughtOnce
