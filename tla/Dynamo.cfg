SPECIFICATION MCSpec
CONSTANTS
  t = t
  a = a
  b = b
  b2 = b2
  Table = {t}
  DocKey = {a, b, b2}
  NoKey = NoKey
  KeyText <- OneText
  Partition <- OnePartition
  KeyRank <- ByAttributes
  Index = {i}
  MaxVal = 2
  Requests <- SmallRequests
  Batches <- SmallBatches
  BatchLimit = 2
  TransactLimit = 3
  ActivationDelay = 1
  MaxNow = 1
  Queries <- SmallQueries
  Limits = {1, 3}
  Client = {c1, c2}
  Offers <- SmallOffers
  Setting = {"protection", "ttl"}
SYMMETRY Clients
INVARIANTS MemoryIsDurable ReadIsComplete
PROPERTY DurableSpec
CHECK_DEADLOCK FALSE
