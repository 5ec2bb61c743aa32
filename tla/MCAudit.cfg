SPECIFICATION FairSpec
CONSTANTS
  Rows <- OneRow
  Direct <- DirectEvents
  BufferSize = 1
  BatchSize = 2
  DrainSize = 1
  PageSize = 3
  MaxBatch = 2
  MaxFaults = 3
CHECK_DEADLOCK FALSE
 
PROPERTIES DeletesOnlyArchived  
