SPECIFICATION RoutesSpec
CONSTANTS
  x = x
  Bucket = {b1}
  Key = {k}
  Letter = {x}
  MaxSize = 4
  UploadId = {u}
  PartNumber = {1, 2}
  Bodies <- TwoBodies
  Features <- SomeFeatures
  Queries <- AllQueries
  Ranges <- SomeRanges
  Locks <- OneLock
  Retentions <- TwoRetentions
  Keys <- SomeKeys
  Delimiter = 0
  ListPrefixes <- SomePrefixes
  PageSizes = {1, 2}
  MaxNow = 2
  MaxVersions = 2
  MaxFailures = 0
PROPERTY ChangesAsDocumented
CHECK_DEADLOCK FALSE
