SPECIFICATION QueuesSpec
CONSTANTS
  src = src
  target = target
  QueueName = {src, target}
  MsgId = {1, 2}
  Group = {1}
  DedupId = {1}
  NoQueue = NoQueue
  NoGroup = 0
  NoDedup = NoDedup
  DefaultVisibility = 1
  DedupWindow = 1
  Cooldown = 2
  MaxWait = 1
  MaxBatch = 2
  OfferedAttributes <- QueuesAttributes
  Requests <- QueuesRequests
  Batches <- NoBatches
  ReceiveSizes = {1, 2}
  Visibilities = {0, 2}
  MaxNow = 4
  MaxAttempts = 3
  MaxPhantoms = 0
INVARIANTS TypeOK LeaseHonoured IncarnationIsolation RedriveRecorded
PROPERTIES RedriveLimit CooldownHonoured ExhaustedIsRedriven PoolSpec
CHECK_DEADLOCK FALSE
