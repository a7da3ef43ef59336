SPECIFICATION FairSpec
CONSTANTS
  b1 = b1
  s1 = s1
  d1 = d1
  g1 = g1
  folderA = folderA
  Null = Null
  Global = Global
  Buffered <- OneBuffered
  Streams <- OneStream
  Existing = {}
  Deletes <- OneDelete
  Downloads <- OneDownload
  Folders <- OneFolder
  FolderOf <- FileFolder
  SizeOf <- UnitSize
  LimitOf <- Limits
  UploadTimeout = 1
  ReservationTtl = 2
  FailureThreshold = 2
  SuccessThreshold = 2
  HalfOpenMaxCalls = 2
  OpenTicks = 1
INVARIANTS
  StorageInv
  QuotaKept
  ReportMatchesRow
  RowHasObject
  DeletedIsGone
PROPERTIES
  BufferedReturns
