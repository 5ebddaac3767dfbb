\* Two writers race for the channel and overflow it; one subscriber resyncs.
SPECIFICATION FairSpec
CONSTANTS
  Uuid = {box, part}
  Writer = {owner, operator}
  Subscriber = {viewer}
  BufferSize = 1
  MaxSets = 2
INVARIANTS TypeOK ViewAgrees ChangesAddUp
PROPERTIES CallsReturn
