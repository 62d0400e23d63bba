SPECIFICATION MCSpec
CONSTANTS
  x = x
  Bucket = {b1, b2}
  Key = {k}
  Letter = {x}
  MaxSize = 4
  UploadId = {u}
  PartNumber = {1, 2}
  Bodies <- TwoBodies
  Features <- SomeFeatures
  Queries <- SomeQueries
  Ranges <- SomeRanges
  Locks <- OneLock
  Retentions <- TwoRetentions
  Keys <- SomeKeys
  Delimiter = 0
  ListPrefixes <- SomePrefixes
  PageSizes = {1, 2}
  MaxNow = 2
  MaxVersions = 2
  MaxFailures = 1
SYMMETRY Alike
INVARIANT VersionsHaveContent
CHECK_DEADLOCK FALSE
