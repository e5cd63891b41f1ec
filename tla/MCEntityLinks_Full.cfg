CONSTANTS
  MaxHandle = 3
  Types = {source, person}
  SourceType = source
  NoType = NoType
  Merges <- AnyMerge
  MaxBatch = 2
SPECIFICATION Spec
INVARIANTS
  LinksSymmetric
  MemoryMatchesDisk
  NewHandleIsUnused
  StatusFollowsGraph
PROPERTIES
  LinkedIsNotDeleted
