CONSTANTS
  Feeds = {f1, f2}
  Known = {f1, f2}
  MaxVersion = 2
  MaxBatch = 1
  Slots = 2
SPECIFICATION Spec
SYMMETRY FeedSymmetry
INVARIANTS TypeOK NothingStale
PROPERTIES NeverOlder
