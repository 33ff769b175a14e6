CONSTANTS
  MaxRuns = 3
  MaxWorkers = 3
SPECIFICATION FairSpec
INVARIANTS TypeOK ToldIsSaved
PROPERTIES OnlyAdvances Returns
