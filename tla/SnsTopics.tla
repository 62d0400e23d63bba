------------------------------ MODULE SnsTopics ------------------------------
(***************************************************************************)
(* SNS topics and subscriptions (topic_service.go, subscription_service.go *)
(* and their repositories).  The service has no lock: a request is a       *)
(* sequence of SQL statements, each of them atomic, and the statements of  *)
(* several requests interleave.  An update writes the whole row it read.   *)
(* Outside of the model: the tenant, of which there is one, and the copy   *)
(* of the list of topics that the state hook shows.                        *)
(***************************************************************************)
EXTENDS Integers, FiniteSets, Functions, SnsFilter

CONSTANTS
  Client,       \* requests that can be under way at one time
  Topic,        \* names of topics, each with its ARN
  FifoTopic,    \* those that end in .fifo
  Endpoint,     \* what can be subscribed, each with its protocol
  SqsEndpoint,  \* ARNs of queues
  FifoQueue,    \* those of queues that end in .fifo
  HttpEndpoint, \* http and https URLs
  LocalHttp,    \* those on this host
  Attribute,    \* attributes of topics that are set or not
  Label,        \* labels of permissions, keys of tags
  MaxTags,      \* tags that a topic can have
  Filters,      \* filter policies that are subscribed with
  MaxArn        \* bound: subscriptions ever made

ASSUME TopicAssumption ==
  /\ FifoTopic \subseteq Topic
  /\ FifoQueue \subseteq SqsEndpoint /\ LocalHttp \subseteq HttpEndpoint
  /\ SqsEndpoint \cup HttpEndpoint \subseteq Endpoint
  /\ SqsEndpoint \cap HttpEndpoint = {}
  /\ MaxTags \in Nat /\ MaxArn \in Nat

ContentBased == "ContentBasedDeduplication"

(* Subscription ARNs end in a random number, and lists are in their order. *)
Arn == 1 .. MaxArn
NoToken == 0

Row == [attributes : SUBSET (Attribute \cup {"DataProtectionPolicy"}),
        policy : SUBSET Label, tags : SUBSET Label]
Subscription == [topic : Topic, endpoint : Endpoint, filter : Filters,
                 status : {"PendingConfirmation", "Confirmed"}, token : Arn \cup {NoToken}]

VARIABLES
  topics,         \* the rows of topics, by their ARN
  subscriptions,  \* the rows of subscriptions, by their ARN
  drawn,          \* the ARNs that were given to subscriptions
  mailed,         \* the tokens that were posted to their endpoint
  request,        \* the request of each client: its next statement
  noticed,        \* what happened since a request began; see Observe
  rivals,         \* pairs of subscriptions that were made at one time
  late            \* subscriptions made while their topic was deleted

tables == <<topics, subscriptions, drawn, mailed>>
history == <<noticed, rivals, late>>
topicVars == <<tables, request, history>>

Idle == [step |-> "idle"]
Unnoticed == [inserted |-> {}, gone |-> FALSE, written |-> FALSE]

TopicsInit ==
  /\ topics = <<>> /\ subscriptions = <<>> /\ drawn = {} /\ mailed = {}
  /\ request = [c \in Client |-> Idle]
  /\ noticed = [c \in Client |-> Unnoticed] /\ rivals = {} /\ late = {}

Of(t) == {a \in DOMAIN subscriptions : subscriptions[a].topic = t}

(* The next statement of c is next; the tables stay as they are. *)
Goto(c, next) == request' = [request EXCEPT ![c] = next]
Proceed(c, next) == Goto(c, next) /\ UNCHANGED tables

At(c, step) == request[c].step = step
Ready(c) == At(c, "idle")

(* Tables: a row that is new, and the place of one that is there. *)
Inserted(table, key, row) == [k \in DOMAIN table \cup {key} |-> IF k = key THEN row ELSE table[k]]
Overwritten(table, key, row) == [k \in DOMAIN table |-> IF k = key THEN row ELSE table[k]]
Deleted(table, keys) == Restrict(table, DOMAIN table \ keys)

(* A statement fails, or the process ends: what was written stays.  A      *)
(* request that finds nothing (NotFound) ends in the same way.             *)
Fail(c) == ~Ready(c) /\ Proceed(c, Idle)
-----------------------------------------------------------------------------
(* Topics.  CreateTopic returns the topic of that name if there is one;    *)
(* the insert of a second is refused by the table's index.                 *)
ValidAttributes(t, attributes) == ContentBased \in attributes => t \in FifoTopic

CreateTopic(c, t, attributes) ==
  /\ Ready(c) /\ t \notin DOMAIN topics /\ ValidAttributes(t, attributes)
  /\ Proceed(c, [step |-> "insert topic", topic |-> t, attributes |-> attributes])

InsertTopic(c) ==
  /\ At(c, "insert topic")
  /\ Goto(c, Idle)
  /\ LET t == request[c].topic
         row == [attributes |-> request[c].attributes, policy |-> {}, tags |-> {}]
     IN  topics' = IF t \in DOMAIN topics THEN topics ELSE Inserted(topics, t, row)
  /\ UNCHANGED <<subscriptions, drawn, mailed>>

(* Mistaken variant of DeleteTopic: its subscriptions stay. *)
DeleteTopicAlone(c, t) ==
  /\ Ready(c) /\ t \in DOMAIN topics
  /\ topics' = Deleted(topics, {t})
  /\ UNCHANGED <<subscriptions, drawn, mailed, request>>

(* One transaction: the subscriptions of the topic, then the topic. *)
DeleteTopic(c, t) ==
  /\ Ready(c) /\ t \in DOMAIN topics
  /\ subscriptions' = Deleted(subscriptions, Of(t))
  /\ topics' = Deleted(topics, {t})
  /\ UNCHANGED <<drawn, mailed, request>>

(* What c is about to write in the place of t. *)
Overwrite(c, t, row) == Proceed(c, [step |-> "update topic", topic |-> t, row |-> row])

(* Mistaken variant of SetTopicAttributes: the other attributes are lost. *)
SetTopicAttributesOnly(c, t, name, on) ==
  /\ Ready(c) /\ t \in DOMAIN topics
  /\ LET attributes == IF on THEN {name} ELSE {}
     IN  ValidAttributes(t, attributes) /\ Overwrite(c, t, [topics[t] EXCEPT !.attributes = attributes])

SetTopicAttributes(c, t, name, on) ==
  /\ Ready(c) /\ t \in DOMAIN topics
  /\ LET attributes == IF on THEN topics[t].attributes \cup {name} ELSE topics[t].attributes \ {name}
     IN  ValidAttributes(t, attributes) /\ Overwrite(c, t, [topics[t] EXCEPT !.attributes = attributes])

PutDataProtectionPolicy(c, t) ==
  /\ Ready(c) /\ t \in DOMAIN topics
  /\ Overwrite(c, t, [topics[t] EXCEPT !.attributes = @ \cup {"DataProtectionPolicy"}])

(* The code keeps the policy twice, the second time as an attribute, which *)
(* is left out: nothing that is modelled reads it.                         *)
AddPermission(c, t, label) ==
  /\ Ready(c) /\ t \in DOMAIN topics
  /\ Overwrite(c, t, [topics[t] EXCEPT !.policy = @ \cup {label}])

RemovePermission(c, t, label) ==
  /\ Ready(c) /\ t \in DOMAIN topics /\ label \in topics[t].policy
  /\ Overwrite(c, t, [topics[t] EXCEPT !.policy = @ \ {label}])

(* Tags are read, then put into the row that is read after them. *)
ReplaceTagsOf(c, t, tags) == Proceed(c, [step |-> "replace tags", topic |-> t, tags |-> tags])

TagResource(c, t, keys) ==
  /\ Ready(c) /\ t \in DOMAIN topics /\ keys # {}
  /\ Cardinality(topics[t].tags \cup keys) <= MaxTags
  /\ ReplaceTagsOf(c, t, topics[t].tags \cup keys)

UntagResource(c, t, keys) ==
  /\ Ready(c) /\ t \in DOMAIN topics /\ keys # {}
  /\ ReplaceTagsOf(c, t, topics[t].tags \ keys)

ReplaceTags(c) ==
  /\ At(c, "replace tags") /\ request[c].topic \in DOMAIN topics
  /\ Overwrite(c, request[c].topic, [topics[request[c].topic] EXCEPT !.tags = request[c].tags])

UpdateTopic(c) ==
  /\ At(c, "update topic")
  /\ Goto(c, Idle)
  /\ topics' = Overwritten(topics, request[c].topic, request[c].row)
  /\ UNCHANGED <<subscriptions, drawn, mailed>>
-----------------------------------------------------------------------------
(* Subscriptions.  A FIFO topic takes no queue that is not FIFO. *)
CanSubscribe(t, e) == t \in FifoTopic /\ e \in SqsEndpoint => e \in FifoQueue

Subscribe(c, t, e, filter) ==
  /\ Ready(c) /\ t \in DOMAIN topics /\ CanSubscribe(t, e)
  /\ Proceed(c, [step |-> "find subscription", topic |-> t, endpoint |-> e, filter |-> filter])

Confirmed(row) == [row EXCEPT !.status = "Confirmed", !.token = NoToken]
UpdateTo(c, a, row) == Proceed(c, [step |-> "update subscription", arn |-> a, row |-> row])

(* Mistaken variant of AutoConfirms: an endpoint on this host is trusted. *)
AutoConfirmsLocal(e) == e \notin HttpEndpoint \ LocalHttp

AutoConfirms(e) == e \notin HttpEndpoint

(* The subscription is there.  An http endpoint is sent the token, unless  *)
(* the client wants the ARN, and the post may fail; another endpoint is    *)
(* confirmed with the row's own token, which a confirmed row has no more:  *)
(* that is an error.                                                       *)
Persisted(c, a) ==
  LET row == subscriptions[a] IN
  \/ /\ ~AutoConfirms(row.endpoint)
     /\ Goto(c, Idle)
     /\ mailed' \in {mailed} \cup {mailed \cup {row.token} : e \in LocalHttp \cap {row.endpoint}}
     /\ UNCHANGED <<topics, subscriptions, drawn>>
  \/ /\ AutoConfirms(row.endpoint)
     /\ IF row.status = "PendingConfirmation" THEN UpdateTo(c, a, Confirmed(row)) ELSE Proceed(c, Idle)

SameSubscription(t, e) == {a \in Of(t) : subscriptions[a].endpoint = e}

(* Mistaken variant of FindSubscription: one that is pending is not found. *)
FindConfirmedSubscription(c) ==
  /\ At(c, "find subscription")
  /\ LET same == {a \in SameSubscription(request[c].topic, request[c].endpoint) :
                    subscriptions[a].status = "Confirmed"}
     IN  IF same = {} THEN Proceed(c, [request[c] EXCEPT !.step = "insert subscription"])
         ELSE \E a \in same : Persisted(c, a)

(* The oldest of several, by times of creation whose text does not order   *)
(* those of one second: any of them.                                       *)
FindSubscription(c) ==
  /\ At(c, "find subscription")
  /\ LET same == SameSubscription(request[c].topic, request[c].endpoint)
     IN  IF same = {} THEN Proceed(c, [request[c] EXCEPT !.step = "insert subscription"])
         ELSE \E a \in same : Persisted(c, a)

InsertSubscription(c) ==
  /\ At(c, "insert subscription")
  /\ \E a \in Arn \ drawn :
       LET row == [topic |-> request[c].topic, endpoint |-> request[c].endpoint,
                   filter |-> request[c].filter, status |-> "PendingConfirmation", token |-> a]
       IN  /\ subscriptions' = Inserted(subscriptions, a, row)
           /\ drawn' = drawn \cup {a}
           /\ Goto(c, [step |-> "read subscription", arn |-> a])
  /\ UNCHANGED <<topics, mailed>>

ReadSubscription(c) ==
  /\ At(c, "read subscription") /\ request[c].arn \in DOMAIN subscriptions
  /\ Persisted(c, request[c].arn)

(* The token comes from the endpoint: nobody else knows it. *)
ConfirmSubscription(c, t, token) ==
  /\ Ready(c) /\ t \in DOMAIN topics /\ token \in mailed \ {NoToken}
  /\ Proceed(c, [step |-> "find token", topic |-> t, token |-> token])

FindToken(c) ==
  /\ At(c, "find token")
  /\ \E a \in Of(request[c].topic) :
       /\ subscriptions[a].token = request[c].token
       /\ subscriptions[a].status = "PendingConfirmation"
       /\ UpdateTo(c, a, Confirmed(subscriptions[a]))

Unsubscribe(c, a) ==
  /\ Ready(c) /\ a \in DOMAIN subscriptions
  /\ subscriptions' = Deleted(subscriptions, {a})
  /\ UNCHANGED <<topics, drawn, mailed, request>>

SetSubscriptionAttributes(c, a, filter) ==
  /\ Ready(c) /\ a \in DOMAIN subscriptions
  /\ UpdateTo(c, a, [subscriptions[a] EXCEPT !.filter = filter])

UpdateSubscription(c) ==
  /\ At(c, "update subscription")
  /\ Goto(c, Idle)
  /\ subscriptions' = Overwritten(subscriptions, request[c].arn, request[c].row)
  /\ UNCHANGED <<topics, drawn, mailed>>
-----------------------------------------------------------------------------
TopicStep(c) ==
  \/ \E t \in Topic :
       \/ \E attributes \in SUBSET Attribute : CreateTopic(c, t, attributes)
       \/ \E name \in Attribute, on \in BOOLEAN : SetTopicAttributes(c, t, name, on)
       \/ \E label \in Label : AddPermission(c, t, label) \/ RemovePermission(c, t, label)
       \/ \E keys \in SUBSET Label : TagResource(c, t, keys) \/ UntagResource(c, t, keys)
       \/ DeleteTopic(c, t) \/ PutDataProtectionPolicy(c, t)
  \/ InsertTopic(c) \/ ReplaceTags(c) \/ UpdateTopic(c)

SubscriptionStep(c) ==
  \/ \E t \in Topic :
       \/ \E e \in Endpoint, filter \in Filters : Subscribe(c, t, e, filter)
       \/ \E token \in Arn : ConfirmSubscription(c, t, token)
  \/ \E a \in Arn, filter \in Filters : SetSubscriptionAttributes(c, a, filter)
  \/ \E a \in Arn : Unsubscribe(c, a)
  \/ FindSubscription(c) \/ InsertSubscription(c) \/ ReadSubscription(c)
  \/ FindToken(c) \/ UpdateSubscription(c)

(* What a request does not see: that since it began its topic was deleted, *)
(* that the row it is going to write was changed, and, since it looked for *)
(* a subscription, which ones were made.                                   *)
Changed(table, new, key) ==
  \/ (key \in DOMAIN table) # (key \in DOMAIN new)
  \/ key \in DOMAIN table /\ table[key] # new[key]

RowChanged(r) ==
  \/ r.step \in {"replace tags", "update topic"} /\ Changed(topics, topics', r.topic)
  \/ r.step = "update subscription" /\ Changed(subscriptions, subscriptions', r.arn)

Observe ==
  /\ noticed' = [c \in Client |->
       IF request'[c].step = "idle" \/ At(c, "idle") THEN Unnoticed
       ELSE [inserted |-> IF At(c, "insert subscription") THEN noticed[c].inserted \cup (drawn' \ drawn) ELSE {},
             gone |-> noticed[c].gone \/ (/\ request[c].step \in {"find subscription", "insert subscription"}
                                          /\ request[c].topic \notin DOMAIN topics'),
             written |-> noticed[c].written \/ RowChanged(request[c])]]
  /\ LET inserting == {c \in Client : At(c, "insert subscription") /\ request'[c].step = "read subscription"}
         pairs == UNION {{{a, request'[c].arn} : a \in noticed[c].inserted} : c \in inserting}
         made == {request'[c].arn : c \in {d \in inserting : noticed[d].gone}}
     IN  /\ rivals' = {pair \in rivals \cup pairs : pair \subseteq DOMAIN subscriptions'}
         /\ late' = (late \cup made) \cap DOMAIN subscriptions'

TopicsNext == (\E c \in Client : TopicStep(c) \/ SubscriptionStep(c) \/ Fail(c)) /\ Observe

TopicsSpec == TopicsInit /\ [][TopicsNext]_topicVars
-----------------------------------------------------------------------------
TopicsTypeOK ==
  /\ DOMAIN topics \subseteq Topic /\ \A t \in DOMAIN topics : topics[t] \in Row
  /\ DOMAIN subscriptions \subseteq drawn /\ drawn \subseteq Arn
  /\ \A a \in DOMAIN subscriptions : subscriptions[a] \in Subscription
  /\ mailed \subseteq drawn \cup {NoToken}
  /\ rivals \subseteq SUBSET drawn /\ late \subseteq drawn

(* An endpoint has one subscription to a topic: a second is made only if   *)
(* two Subscribe requests looked for it before either had made it.  With   *)
(* two, each message is delivered twice.                                   *)
OneSubscriptionPerEndpoint ==
  \A a, b \in DOMAIN subscriptions :
    /\ a # b /\ subscriptions[a].topic = subscriptions[b].topic
    /\ subscriptions[a].endpoint = subscriptions[b].endpoint
    => {a, b} \in rivals

(* DeleteTopic leaves no subscription behind, which a topic created later  *)
(* under the same name would deliver to, but for one whose Subscribe had   *)
(* found the topic before and inserts it after.                            *)
DeletedTopicsAreForgotten ==
  \A a \in DOMAIN subscriptions \ late : subscriptions[a].topic \in DOMAIN topics

(* A subscription is confirmed or holds the token that confirms it; that   *)
(* of an http endpoint is not confirmed before its token was posted there. *)
ConfirmedByToken ==
  \A a \in DOMAIN subscriptions :
    /\ subscriptions[a].token = IF subscriptions[a].status = "Confirmed" THEN NoToken ELSE a
    /\ subscriptions[a].status = "Confirmed" /\ subscriptions[a].endpoint \in HttpEndpoint => a \in mailed

(* An update that no other one overtook between its first read and its     *)
(* write changes one thing: an attribute, a permission or the tags of a    *)
(* topic, the filter of a subscription or its status, to confirmed.  Only  *)
(* an update that was overtaken takes back what another one wrote.         *)
OneEntry(old, new) == Cardinality((old \ new) \cup (new \ old)) <= 1

OnlyOvertakenUpdatesLose ==
  [][\A c \in Client : ~noticed[c].written =>
       /\ At(c, "update topic") /\ request[c].topic \in DOMAIN topics /\ request'[c] = Idle =>
            LET old == topics[request[c].topic]
                new == topics'[request[c].topic]
            IN  \/ OneEntry(old.attributes, new.attributes) /\ new = [old EXCEPT !.attributes = new.attributes]
                \/ OneEntry(old.policy, new.policy) /\ new = [old EXCEPT !.policy = new.policy]
                \/ new = [old EXCEPT !.tags = new.tags]
       /\ At(c, "update subscription") /\ request[c].arn \in DOMAIN subscriptions /\ request'[c] = Idle =>
            LET old == subscriptions[request[c].arn]
                new == subscriptions'[request[c].arn]
            IN  new = Confirmed(old) \/ new = [old EXCEPT !.filter = new.filter]
    ]_topicVars
=============================================================================
