SPECIFICATION RestartSpec
CONSTANTS
  src = src
  target = target
  QueueName = {src, target}
  MsgId = {1}
  Group = {1}
  DedupId = {1}
  NoQueue = NoQueue
  NoGroup = 0
  NoDedup = NoDedup
  DefaultVisibility = 1
  DedupWindow = 1
  Cooldown = 2
  MaxWait = 0
  MaxBatch = 2
  OfferedAttributes <- RestartAttributes
  Requests <- RestartRequests
  Batches <- RestartBatches
  ReceiveSizes = {1}
  Visibilities = {0, 2}
  MaxNow = 4
  MaxAttempts = 2
  MaxPhantoms = 2
  MaxFailures = 1
INVARIANTS GrantedLeaseHonoured RemovalIsFinal
PROPERTY SavedIsKept
CHECK_DEADLOCK FALSE
