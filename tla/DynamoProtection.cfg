SPECIFICATION AdapterSpec
CONSTANTS
  t = t
  a = a
  b = b
  b2 = b2
  Table = {t}
  DocKey = {a, b, b2}
  NoKey = NoKey
  KeyText <- OneText
  Partition <- OnePartition
  KeyRank <- ByAttributes
  Index = {}
  MaxVal = 0
  Requests = {}
  Batches = {}
  BatchLimit = 2
  TransactLimit = 3
  ActivationDelay = 0
  MaxNow = 0
  Queries = {}
  Limits = {1}
  Client = {c1}
  Offers <- ProtectedTable
  Setting = {"protection"}
INVARIANT ProtectionKept
CHECK_DEADLOCK FALSE
