CONSTANTS
  MaxHandle = 4
  Types = {source}
  SourceType = source
  NoType = NoType
  Merges <- ProperMerges
  MaxBatch = 1
SPECIFICATION Spec
INVARIANT
  LowestIsMaster
