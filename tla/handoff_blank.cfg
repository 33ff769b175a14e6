SPECIFICATION Spec
CONSTANTS
  Feeds = {f1}
  MaxVersion = 2
  Content <- Reverts
  MaxFaults = 0
  MaxCrashes = 0
  MaxRaces = 1
INVARIANTS NoInventedBody
