SPECIFICATION Spec
CONSTANTS
  Sources = {s1}
  NoSource = NoSource
  Actions = {"pause"}
  Life = 1
  MaxSkew = 2
  DayLength = 2
  MaxNow = 2
  MaxSeq = 0
  MaxCmds = 1
  MaxReqs = 1
  MaxCrashes = 1
  MaxErrs = 0
INVARIANT BreakerReleased
