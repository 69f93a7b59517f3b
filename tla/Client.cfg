SPECIFICATION ClientSpec
CONSTANTS
  Null = Null
  Refused = Refused
  TableColumns <- MCColumns
  ShardKey <- K
  Statements <- MCStatements
  Uploads <- MCUploads
  ParquetFiles <- MCParquetFiles
  Contents <- MCContents
  RowsPerBatch = 2
  FileChunkBytes = 3
  MaxFirstRecordBytes = 8
  MaxInFlight = 2
  Slots = {s1}
  Nothing = Nothing
  NoPlan = NoPlan
  Unset = Unset
  None = None
  MaxChanges = 2
  MaxWrites = 1
  MaxColumns = 2
INVARIANTS
  
  CopyStaysInStep
  ReadsAreTruthful
  
  
  
  
CHECK_DEADLOCK FALSE
