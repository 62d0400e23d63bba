SPECIFICATION MCSpec

CONSTANTS
  queue = queue
  site = site
  Client = {c1, c2}
  Topic = {"t", "t.fifo"}
  FifoTopic = {"t.fifo"}
  Endpoint = {queue, site}
  SqsEndpoint = {queue}
  FifoQueue = {queue}
  Nameless = {}
  HttpEndpoint = {site}
  LocalHttp = {site}
  Attribute = {"ContentBasedDeduplication", "MessageGroupScope"}
  Label = {"l"}
  MaxTags = 1
  Filters <- TwoFilters
  FilterCondition <- Conditions
  Policies <- AnyPolicy
  FilterMessages <- AnyMessage
  FilterKeys = {"kind"}
  MaxArn = 3
  Group = {"g1", "g2"}
  DedupId <- OneDedup
  Content <- OneContent
  Window = 1
  PageSize = 1
  Bridge = TRUE
  Batches <- OneBatch
  MaxMessage = 3
  MaxNow = 2
  Platform = {"APNS"}
  AppName = {"app"}
  DeviceToken = {"x", "y"}
  Setting = {"s"}
  Phone = {"p"}
  Lifetime = 1
  MaxEndpoint = 2

SYMMETRY Alike

INVARIANTS
  PlatformTypeOK
  OneSubscriptionPerEndpoint
  DeletedTopicsAreForgotten
  ConfirmedByToken
  FilterLaws
  OnlyOverlappingPublishesRepeat
  SequencesIncrease
  EverySubscriberOnce
  EndpointsConsistent
  VerifiedInTime

PROPERTIES
  OnlyOvertakenUpdatesLose
  HandedToSubscribers

CHECK_DEADLOCK FALSE
