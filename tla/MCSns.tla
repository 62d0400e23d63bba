-------------------------------- MODULE MCSns --------------------------------
(***************************************************************************)
(* Small instances of SnsPlatform, with all that it extends, and of        *)
(* SnsFiltering.                                                           *)
(***************************************************************************)
EXTENDS SnsPlatform, SnsFiltering, TLC

CONSTANTS queue, site

(* A behaviour is about one part of the service.                           *)
VARIABLE about

(* Texts are sequences of letters: "xy", "1" and "true". *)
Word == Value(<<"x", "y">>, {}, {})
One == Value(<<"1">>, {1}, {TRUE})
True == Value(<<"true">>, {}, {TRUE})

IsWord == [kind |-> "text", text |-> Word.text]
IsMissing == [kind |-> "exists", exists |-> FALSE]

Conditions ==
  {IsWord, IsMissing, [kind |-> "number", number |-> 1], [kind |-> "bool", bool |-> TRUE],
   [kind |-> "prefix", text |-> <<"x">>], [kind |-> "exists", exists |-> TRUE],
   [kind |-> "numeric", pairs |-> <<[operator |-> ">=", reference |-> 1], [operator |-> "<", reference |-> 2]>>],
   [kind |-> "anything-but", conditions |-> <<[kind |-> "number", number |-> 1]>>]}

SomeOf(keys, values) == UNION {[some -> values] : some \in SUBSET keys}

AnyPolicy ==
  {[valid |-> TRUE, scope |-> scope, rules |-> rules] :
     scope \in {"MessageAttributes", "MessageBody"},
     rules \in SomeOf({"kind", "size"}, {<<>>} \cup {<<condition>> : condition \in Conditions})}

AnyMessage ==
  {[attributes |-> values, body |-> ("size" :> Word)] : values \in SomeOf({"kind", "size"}, {Word, One, True})}

(* A message that has a kind, and a policy that wants none. *)
Kind == [attributes |-> ("kind" :> Word), body |-> <<>>]
OneContent == {Kind}
Unwanting == [NoFilter EXCEPT !.rules = ("kind" :> <<IsMissing>>)]
TwoFilters == {NoFilter, Unwanting}
OneDedup == {<<"d">>}
Plain == [group |-> None, dedup |-> NoId, content |-> Kind]
ById == [group |-> "g1", dedup |-> <<"d">>, content |-> Kind]
OneBatch == {<<[ById EXCEPT !.dedup = NoId], ById>>}

Empty == topics = <<>> /\ subscriptions = <<>> /\ drawn = {} /\ mailed = {}

OneTopic(t, attributes) == topics = (t :> [attributes |-> attributes, policy |-> {}, tags |-> {}])

TwoSubscribers ==
  LET to(e) == [topic |-> "t", endpoint |-> e, filter |-> NoFilter, status |-> "Confirmed", token |-> NoToken]
  IN  subscriptions = <<to(queue), to(site)>> /\ drawn = {1, 2} /\ mailed = {2}

MCInit ==
  /\ \/ about \in {"topics", "subscriptions", "applications", "phones", "filter"} /\ Empty
     \/ /\ about = "fifo"
        /\ \E scope \in {{}, {"MessageGroupScope"}} : OneTopic("t.fifo", {ContentBased} \cup scope)
        /\ subscriptions = <<>> /\ drawn = {} /\ mailed = {}
     \/ about = "dispatch" /\ OneTopic("t", {}) /\ TwoSubscribers
  /\ FilterInit
  /\ rivals = {} /\ late = {}
  /\ request = [c \in Client |-> Idle] /\ noticed = [c \in Client |-> Unnoticed]
  /\ messages = {} /\ attempts = {} /\ now = 0 /\ handed = {} /\ missed = {}
  /\ steady = [c \in Client |-> {}] /\ wanting = [c \in Client |-> {}]
  /\ applications = <<>> /\ endpoints = <<>> /\ issued = {} /\ phones = <<>>
  /\ sms = [attributes |-> {}, optedIn |-> {}] /\ seen = [c \in Client |-> Unseen]
  /\ twins = {} /\ retokened = {} /\ strays = {} /\ revived = {}

UnderWay == {c \in Client : Publishing(request'[c])}

(* Publishes to the FIFO topic, and one of its lives after another. *)
FifoStep(c) ==
  \/ Cardinality(messages) < 2 /\ Publish(c, "t.fifo", ById)
  \/ Cardinality(messages) = 1 /\ Publish(c, "t.fifo", [ById EXCEPT !.group = "g2"])
  \/ /\ messages = {} /\ \A d \in Client : ~Publishing(request[d]) /\ ~At(d, "next entry")
     /\ \E batch \in Batches : PublishBatch(c, "t.fifo", batch)
  \/ PublishProgress(c)
  \/ /\ Cardinality(messages) = 1
     /\ DeleteTopic(c, "t.fifo") \/ InsertTopic(c) \/ CreateTopic(c, "t.fifo", {ContentBased})
     /\ UNCHANGED publishTables

(* One publish to subscriptions that come and go meanwhile. *)
DispatchStep(c) ==
  \/ /\ Publish(c, "t", Plain) \/ PublishProgress(c)
     /\ Cardinality(UnderWay) < 2
  \/ SubscriptionStep(c) /\ (\E d \in Client : Dispatching(request[d])) /\ UNCHANGED publishTables

MCPublishNext ==
  /\ \/ \E c \in Client :
          \/ about = "topics" /\ TopicStep(c) /\ UNCHANGED publishTables
          \/ about = "topics" /\ PublishToTarget(c, Kind)
          \/ /\ about = "subscriptions"
             /\ SubscriptionStep(c) \/ CreateTopic(c, "t", {}) \/ InsertTopic(c) \/ DeleteTopic(c, "t")
             /\ UNCHANGED publishTables
          \/ about = "fifo" /\ FifoStep(c)
          \/ about = "dispatch" /\ DispatchStep(c)
          \/ about \in {"topics", "subscriptions"} /\ Fail(c) /\ UNCHANGED publishTables
     \/ about = "fifo" /\ Tick /\ Cardinality(messages) < 2 /\ (messages # {} \/ UnderWay # {})
  /\ CASE about = "topics" -> DOMAIN topics' \subseteq {"t.fifo"} /\ Cardinality(messages') < 2
       [] about = "subscriptions" -> drawn' \subseteq 1 .. 2
       [] about = "fifo" -> Cardinality(messages') < 3
       [] OTHER -> Cardinality(messages') < 2
  /\ ObservePublish
  /\ UNCHANGED <<platformTables, platformHistory>>

(* Few tags and settings: those of one endpoint, and of an application *)
(* that has none yet.                                                  *)
FewSettings ==
  /\ endpoints' # <<>> => \A a \in DOMAIN applications' : applications'[a].settings = {} /\ applications'[a].tags = {}
  /\ \A e \in DOMAIN endpoints' : endpoints'[e].settings = {} /\ (e = 1 \/ endpoints'[e].tags = {})
  /\ \A c \in Client : request'[c].step = "find endpoint" => request'[c].settings = {}

MCPlatformNext ==
  /\ \/ /\ \E c \in Client :
             \/ about = "applications" /\ ApplicationStep(c)
             \/ about = "phones" /\ PhoneStep(c)
             \/ about \in {"applications", "phones"} /\ Fail(c) /\ UNCHANGED platformTables
        /\ UNCHANGED <<tables, publishTables>>
     \/ about = "phones" /\ Tick /\ UNCHANGED platformTables
  /\ FewSettings
  /\ ObservePlatform
  /\ UNCHANGED <<history, publishHistory>>

(* Each evaluation once. *)
MCFilterNext ==
  /\ about = "filter"
  /\ filtering = NoFiltering
  /\ FilterNext
  /\ UNCHANGED platformVars

MCNext ==
  /\ \/ (MCPublishNext \/ MCPlatformNext) /\ UNCHANGED filtering
     \/ MCFilterNext
  /\ UNCHANGED about

MCSpec == MCInit /\ [][MCNext]_<<platformVars, about, filtering>>

Alike == Permutations(Client)
=============================================================================
