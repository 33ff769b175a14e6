SPECIFICATION FairSpec
CONSTANTS
  Items = {i1, i2, i3}
  Keys = {k1}
  NoKey = NoKey
  NoItem = NoItem
  MaxLimit = 2
INVARIANTS TypeOK WorkConserving KeyOwner Answered Quiesced
PROPERTIES Settles
