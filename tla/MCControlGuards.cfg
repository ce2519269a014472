SPECIFICATION Spec
CONSTANTS
  Sources = {s1}
  NoSource = NoSource
  Actions = {"liquidate", "resume"}
  Life = 1
  MaxSkew = 2
  DayLength = 2
  MaxNow = 2
  MaxSeq = 0
  MaxCmds = 2
  MaxReqs = 2
  MaxCrashes = 1
  MaxErrs = 1
INVARIANT DeriskOnce
INVARIANT PauseSticks
