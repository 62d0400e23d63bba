SPECIFICATION FifoSpec
CONSTANTS
  src = src
  target = target
  QueueName = {src}
  MsgId = {1, 2, 3}
  Group = {1, 2}
  DedupId = {1, 2}
  NoQueue = NoQueue
  NoGroup = 0
  NoDedup = NoDedup
  DefaultVisibility = 1
  DedupWindow = 1
  Cooldown = 2
  MaxWait = 0
  MaxBatch = 3
  OfferedAttributes <- FifoAttributes
  Requests <- FifoRequests
  Batches <- FifoBatches
  ReceiveSizes = {1, 2}
  Visibilities = {0}
  MaxNow = 4
  MaxAttempts = 2
  MaxPhantoms = 1
INVARIANTS FifoOrder DedupHonoured
CHECK_DEADLOCK FALSE
