SPECIFICATION Spec
CONSTANTS
  Feeds = {f1}
  MaxVersion = 2
  Content <- Reverts
  MaxFaults = 1
  MaxCrashes = 0
  MaxRaces = 0
INVARIANTS UnchangedIsCurrent
