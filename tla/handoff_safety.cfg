SPECIFICATION Spec
CONSTANTS
  Feeds = {f1}
  MaxVersion = 3
  Content <- Reverts
  MaxFaults = 2
  MaxCrashes = 1
  MaxRaces = 0
INVARIANTS TypeOK StagedNotForgotten ClaimedNotForgotten UnchangedInCalm BodyOrder LatestBacked
PROPERTIES NoRegression NewestKept RegisterSpec
