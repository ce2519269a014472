SPECIFICATION FairSpec
CONSTANTS
  Sources = {s1}
  NoSource = NoSource
  Actions = {"pause"}
  Life = 1
  MaxSkew = 2
  DayLength = 2
  MaxNow = 3
  MaxSeq = 2
  MaxCmds = 0
  MaxReqs = 1
  MaxCrashes = 1
  MaxErrs = 1
INVARIANT TypeOK
INVARIANT IInv
INVARIANT NoStepBack
INVARIANT RetainedTaken
PROPERTY LossTrips
PROPERTY LossReleases
