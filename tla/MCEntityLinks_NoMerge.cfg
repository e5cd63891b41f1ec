CONSTANTS
  MaxHandle = 4
  Types = {source}
  SourceType = source
  NoType = NoType
  Merges <- NoMerge
  MaxBatch = 2
SPECIFICATION Spec
INVARIANTS
  LowestIsMaster
  SelectsAnswer
