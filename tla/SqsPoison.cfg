SPECIFICATION PoisonSpec
CONSTANTS
  src = src
  target = target
  QueueName = {src}
  MsgId = {1, 2}
  Group = {1}
  DedupId = {1, 2}
  NoQueue = NoQueue
  NoGroup = 0
  NoDedup = NoDedup
  DefaultVisibility = 1
  DedupWindow = 1
  Cooldown = 2
  MaxWait = 0
  MaxBatch = 2
  OfferedAttributes <- PoisonAttributes
  Requests <- PoisonRequests
  Batches <- PoisonBatches
  ReceiveSizes = {1}
  Visibilities = {0}
  MaxNow = 1
  MaxAttempts = 1
  MaxPhantoms = 2
  MaxFailures = 0
INVARIANT AcceptedKept
CHECK_DEADLOCK FALSE
