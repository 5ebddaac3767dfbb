\* One writer, one subscriber that resyncs.
SPECIFICATION Spec
CONSTANTS
  Uuid = {box}
  Writer = {owner}
  Subscriber = {viewer}
  BufferSize = 1
  MaxSets = 3
INVARIANTS ResyncRestores
