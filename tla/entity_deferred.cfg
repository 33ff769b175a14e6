CONSTANTS
  Feeds = {f1}
  Known = {f1}
  MaxVersion = 2
  MaxBatch = 1
  Slots = 1
SPECIFICATION Spec
INVARIANTS SidecarExists
