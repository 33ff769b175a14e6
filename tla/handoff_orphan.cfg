SPECIFICATION Spec
CONSTANTS
  Feeds = {f1}
  MaxVersion = 2
  Content <- Reverts
  MaxFaults = 0
  MaxCrashes = 1
  MaxRaces = 0
INVARIANTS NoOrphan
