CONSTANTS
  Bits = 3
  MaxAddr = 7
  Targets = {1, 2}
  ASes = {1, 2}
  a1 = a1
  a2 = a2
  Addrs <- const_Addrs
  Times <- const_Times
  MaxFaults = 1
  MaxRepeats = 1
SPECIFICATION Spec
SYMMETRY Symmetry
INVARIANTS TypeOK LedgersAgree Heals RemovalsRecorded
