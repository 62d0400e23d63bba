------------------------------ MODULE SnsProofs -------------------------------
(***************************************************************************)
(* Theorems about SnsTopics, for any number of requests, topics, endpoints *)
(* and subscriptions: an endpoint has one subscription to a topic and a    *)
(* deleted topic none, unless requests overlapped; an http endpoint is     *)
(* confirmed by its token; only an overtaken update loses another one.     *)
(* And about SnsFilter: the laws of filter policies, for every policy.     *)
(***************************************************************************)
EXTENDS SnsTopics, SnsFiltering, FiniteSetTheorems, TLAPS

(* The statements that read or write topics and subscriptions.             *)
OwnSteps ==
  {"insert topic", "update topic", "replace tags", "find subscription", "insert subscription",
   "read subscription", "find token", "update subscription"}

Subscribing ==
  [step : {"find subscription", "insert subscription"},
   topic : Topic, endpoint : Endpoint, filter : Filters]

(* What a request carries, by its next statement.                          *)
RequestOK(r) ==
  /\ r.step = "insert topic" => r.topic \in Topic /\ r.attributes \in SUBSET Attribute
  /\ r.step = "update topic" => r.topic \in Topic /\ r.row \in Row
  /\ r.step = "replace tags" => r.topic \in Topic /\ r.tags \in SUBSET Label
  /\ r.step \in {"find subscription", "insert subscription"} => r \in Subscribing
  /\ r.step = "find token" => r.topic \in Topic /\ r.token \in mailed \ {NoToken}
  /\ r.step = "update subscription" => r.arn \in drawn /\ r.row \in Subscription

Notice == [inserted : SUBSET Arn, gone : BOOLEAN, written : BOOLEAN]

TypesInv ==
  /\ TopicsTypeOK
  /\ DOMAIN request = Client
  /\ \A c \in Client : RequestOK(request[c])
  /\ noticed \in [Client -> Notice]

(* Subscriptions to what c is about to subscribe were made meanwhile.      *)
InsertInv ==
  \A c \in Client : At(c, "insert subscription") =>
    \A a \in DOMAIN subscriptions :
      /\ subscriptions[a].topic = request[c].topic
      /\ subscriptions[a].endpoint = request[c].endpoint
      => a \in noticed[c].inserted

(* A Subscribe whose topic is not there has seen it go.                    *)
GoneInv ==
  \A c \in Client : request[c].step \in {"find subscription", "insert subscription"} =>
    request[c].topic \in DOMAIN topics \/ noticed[c].gone

(* The row that is written over a subscription is one of the same topic    *)
(* and endpoint, with the token of its status, confirmed by its token.     *)
RowInv ==
  \A c \in Client : At(c, "update subscription") =>
    LET a == request[c].arn
        row == request[c].row
    IN  /\ a \in DOMAIN subscriptions =>
             row.topic = subscriptions[a].topic /\ row.endpoint = subscriptions[a].endpoint
        /\ row.token = IF row.status = "Confirmed" THEN NoToken ELSE a
        /\ row.status = "Confirmed" /\ row.endpoint \in HttpEndpoint => a \in mailed

(* An update that was not overtaken writes one change of the row there is. *)
OneTopicChange(old, new) ==
  \/ OneEntry(old.attributes, new.attributes) /\ new = [old EXCEPT !.attributes = new.attributes]
  \/ OneEntry(old.policy, new.policy) /\ new = [old EXCEPT !.policy = new.policy]
  \/ new = [old EXCEPT !.tags = new.tags]

OneSubscriptionChange(old, new) ==
  new = Confirmed(old) \/ new = [old EXCEPT !.filter = new.filter]

ChangeInv ==
  \A c \in Client : ~noticed[c].written =>
    /\ At(c, "update topic") /\ request[c].topic \in DOMAIN topics =>
         OneTopicChange(topics[request[c].topic], request[c].row)
    /\ At(c, "update subscription") /\ request[c].arn \in DOMAIN subscriptions =>
         OneSubscriptionChange(subscriptions[request[c].arn], request[c].row)

TopicsInv ==
  /\ TypesInv /\ InsertInv /\ GoneInv /\ RowInv /\ ChangeInv
  /\ OneSubscriptionPerEndpoint /\ DeletedTopicsAreForgotten /\ ConfirmedByToken
-----------------------------------------------------------------------------
(* How a request goes on without a write: with a change of a row it reads, *)
(* having found no subscription, or in some other way.                     *)
ReadsTopic(next) ==
  /\ next.step = "update topic" /\ next.topic \in DOMAIN topics
  /\ next.row \in Row /\ OneTopicChange(topics[next.topic], next.row)

ReadsSubscription(next) ==
  /\ next.step = "update subscription" /\ next.arn \in DOMAIN subscriptions
  /\ LET old == subscriptions[next.arn]
     IN  \/ /\ next.row = Confirmed(old) /\ old.status = "PendingConfirmation"
            /\ old.endpoint \in HttpEndpoint => next.arn \in mailed
         \/ \E filter \in Filters : next.row = [old EXCEPT !.filter = filter]

FindsNone(c, next) ==
  /\ next.step = "insert subscription" /\ next \in Subscribing
  /\ request[c].step = "find subscription" /\ next.topic = request[c].topic
  /\ SameSubscription(next.topic, next.endpoint) = {}

BeginsToSubscribe(next) ==
  next.step = "find subscription" /\ next \in Subscribing /\ next.topic \in DOMAIN topics

GoesOn(c, next) ==
  \/ next.step \notin OwnSteps
  \/ next.step \in {"insert topic", "replace tags", "find token", "read subscription"} /\ RequestOK(next)
  \/ ReadsTopic(next) \/ ReadsSubscription(next) \/ FindsNone(c, next) \/ BeginsToSubscribe(next)

(* Tokens may be posted by the way.                                        *)
Posts == mailed' = mailed \/ \E a \in DOMAIN subscriptions : mailed' = mailed \cup {subscriptions[a].token}

Passes(c) ==
  /\ \E next : GoesOn(c, next) /\ Goto(c, next)
  /\ UNCHANGED <<topics, subscriptions, drawn>> /\ Posts

Writes(c) ==
  \/ InsertTopic(c) \/ UpdateTopic(c) \/ InsertSubscription(c) \/ UpdateSubscription(c)
  \/ \E t \in Topic : DeleteTopic(c, t)
  \/ \E a \in Arn : Unsubscribe(c, a)
-----------------------------------------------------------------------------
LEMMA OneEntryAdded ==
  ASSUME NEW S, NEW e
  PROVE  OneEntry(S, S) /\ OneEntry(S, S \cup {e}) /\ OneEntry(S, S \ {e})
  <1>1. ASSUME NEW T, T = {} \/ T = {e}
        PROVE  Cardinality(T) <= 1
    <2>1. Cardinality({e}) = 1
      BY FS_Singleton
    <2>2. Cardinality({}) = 0
      BY FS_EmptySet
    <2> QED
      BY <1>1, <2>1, <2>2
  <1>2. (S \ S) \cup (S \ S) = {}
    OBVIOUS
  <1>3. LET D == (S \ (S \cup {e})) \cup ((S \cup {e}) \ S) IN D = {} \/ D = {e}
    OBVIOUS
  <1>4. LET D == (S \ (S \ {e})) \cup ((S \ {e}) \ S) IN D = {} \/ D = {e}
    OBVIOUS
  <1> QED
    BY <1>1, <1>2, <1>3, <1>4 DEF OneEntry

(* The requests that read a topic write back one change of its row.        *)
LEMMA TopicReads ==
  ASSUME TypesInv, NEW t \in DOMAIN topics, NEW next,
         next.step = "update topic", next.topic = t,
         \/ \E name \in Attribute \cup {"DataProtectionPolicy"} :
              \/ next.row = [topics[t] EXCEPT !.attributes = topics[t].attributes \cup {name}]
              \/ next.row = [topics[t] EXCEPT !.attributes = topics[t].attributes \ {name}]
         \/ \E label \in Label :
              \/ next.row = [topics[t] EXCEPT !.policy = topics[t].policy \cup {label}]
              \/ next.row = [topics[t] EXCEPT !.policy = topics[t].policy \ {label}]
         \/ \E tags \in SUBSET Label : next.row = [topics[t] EXCEPT !.tags = tags]
  PROVE  ReadsTopic(next)
  <1> DEFINE old == topics[t]
  <1>1. old \in Row
    BY DEF TypesInv, TopicsTypeOK
  <1>2. ASSUME NEW name \in Attribute \cup {"DataProtectionPolicy"}, NEW S,
               S = old.attributes \cup {name} \/ S = old.attributes \ {name},
               next.row = [old EXCEPT !.attributes = S]
        PROVE  next.row \in Row /\ OneTopicChange(old, next.row)
    <2>1. OneEntry(old.attributes, S)
      <3>1. OneEntry(old.attributes, old.attributes \cup {name}) /\ OneEntry(old.attributes, old.attributes \ {name})
        BY OneEntryAdded
      <3> QED
        BY <1>2, <3>1
    <2>2. S \in SUBSET (Attribute \cup {"DataProtectionPolicy"})
      BY <1>1, <1>2 DEF Row
    <2>3. next.row \in Row /\ next.row.attributes = S
      BY <1>1, <1>2, <2>2 DEF Row
    <2> QED
      BY <1>2, <2>1, <2>3 DEF OneTopicChange
  <1>3. ASSUME NEW label \in Label, NEW S,
               S = old.policy \cup {label} \/ S = old.policy \ {label},
               next.row = [old EXCEPT !.policy = S]
        PROVE  next.row \in Row /\ OneTopicChange(old, next.row)
    <2>1. OneEntry(old.policy, S)
      <3>1. OneEntry(old.policy, old.policy \cup {label}) /\ OneEntry(old.policy, old.policy \ {label})
        BY OneEntryAdded
      <3> QED
        BY <1>3, <3>1
    <2>2. S \in SUBSET Label
      BY <1>1, <1>3 DEF Row
    <2>3. next.row \in Row /\ next.row.policy = S
      BY <1>1, <1>3, <2>2 DEF Row
    <2> QED
      BY <1>3, <2>1, <2>3 DEF OneTopicChange
  <1>4. ASSUME NEW tags \in SUBSET Label, next.row = [old EXCEPT !.tags = tags]
        PROVE  next.row \in Row /\ OneTopicChange(old, next.row)
    <2>1. next.row \in Row /\ next.row.tags = tags
      BY <1>1, <1>4 DEF Row
    <2> QED
      BY <1>4, <2>1 DEF OneTopicChange
  <1> QED
    BY <1>2, <1>3, <1>4 DEF ReadsTopic

(* Topics: a step passes or writes.                                        *)
LEMMA TopicStepKinds ==
  ASSUME TypesInv, NEW c \in Client, TopicStep(c)
  PROVE  Passes(c) \/ Writes(c)
  <1> USE DEF Proceed, Overwrite, tables
  <1>1. ASSUME NEW t \in Topic, NEW attributes \in SUBSET Attribute, CreateTopic(c, t, attributes)
        PROVE  Passes(c)
    BY <1>1 DEF CreateTopic, Passes, Posts, GoesOn, RequestOK, Idle
  <1>2. ASSUME NEW t \in Topic, NEW name \in Attribute, NEW on \in BOOLEAN,
               SetTopicAttributes(c, t, name, on)
        PROVE  Passes(c)
    <2> DEFINE attributes == IF on THEN topics[t].attributes \cup {name} ELSE topics[t].attributes \ {name}
               next == [step |-> "update topic", topic |-> t, row |-> [topics[t] EXCEPT !.attributes = attributes]]
    <2>1. t \in DOMAIN topics /\ Goto(c, next) /\ UNCHANGED tables
      BY <1>2 DEF SetTopicAttributes
    <2>2. ReadsTopic(next)
      BY <2>1, TopicReads
    <2> QED
      BY <2>1, <2>2 DEF Passes, Posts, GoesOn
  <1>3. ASSUME NEW t \in Topic, PutDataProtectionPolicy(c, t)
        PROVE  Passes(c)
    <2> DEFINE next == [step |-> "update topic", topic |-> t,
                        row |-> [topics[t] EXCEPT !.attributes = topics[t].attributes \cup {"DataProtectionPolicy"}]]
    <2>1. t \in DOMAIN topics /\ Goto(c, next) /\ UNCHANGED tables
      BY <1>3 DEF PutDataProtectionPolicy
    <2>2. ReadsTopic(next)
      BY <2>1, TopicReads
    <2> QED
      BY <2>1, <2>2 DEF Passes, Posts, GoesOn
  <1>4. ASSUME NEW t \in Topic, NEW label \in Label,
               AddPermission(c, t, label) \/ RemovePermission(c, t, label)
        PROVE  Passes(c)
    <2> DEFINE next(S) == [step |-> "update topic", topic |-> t, row |-> [topics[t] EXCEPT !.policy = S]]
    <2>1. /\ t \in DOMAIN topics /\ UNCHANGED tables
          /\ \/ Goto(c, next(topics[t].policy \cup {label}))
             \/ Goto(c, next(topics[t].policy \ {label}))
      BY <1>4 DEF AddPermission, RemovePermission
    <2>2. ReadsTopic(next(topics[t].policy \cup {label})) /\ ReadsTopic(next(topics[t].policy \ {label}))
      BY <2>1, TopicReads
    <2> QED
      BY <2>1, <2>2 DEF Passes, Posts, GoesOn
  <1>5. ASSUME NEW t \in Topic, NEW keys \in SUBSET Label,
               TagResource(c, t, keys) \/ UntagResource(c, t, keys)
        PROVE  Passes(c)
    <2> DEFINE next(S) == [step |-> "replace tags", topic |-> t, tags |-> S]
    <2>1. /\ t \in DOMAIN topics /\ UNCHANGED tables
          /\ \/ Goto(c, next(topics[t].tags \cup keys)) \/ Goto(c, next(topics[t].tags \ keys))
      BY <1>5 DEF TagResource, UntagResource, ReplaceTagsOf
    <2>2. topics[t].tags \in SUBSET Label
      BY <2>1 DEF TypesInv, TopicsTypeOK, Row
    <2>3. ASSUME NEW S \in SUBSET Label
          PROVE  RequestOK(next(S))
      BY DEF RequestOK
    <2> QED
      BY <2>1, <2>2, <2>3 DEF Passes, Posts, GoesOn
  <1>6. ASSUME ReplaceTags(c)
        PROVE  Passes(c)
    <2> DEFINE t == request[c].topic
               next == [step |-> "update topic", topic |-> t, row |-> [topics[t] EXCEPT !.tags = request[c].tags]]
    <2>1. t \in DOMAIN topics /\ Goto(c, next) /\ UNCHANGED tables /\ request[c].step = "replace tags"
      BY <1>6 DEF ReplaceTags, At
    <2>2. request[c].tags \in SUBSET Label
      BY <2>1 DEF TypesInv, RequestOK
    <2>3. ReadsTopic(next)
      BY <2>1, <2>2, TopicReads
    <2> QED
      BY <2>1, <2>3 DEF Passes, Posts, GoesOn
  <1> QED
    BY <1>1, <1>2, <1>3, <1>4, <1>5, <1>6 DEF TopicStep, Writes

(* What happens when the subscription of a Subscribe is there.             *)
LEMMA PersistedKinds ==
  ASSUME TypesInv, ConfirmedByToken, NEW c \in Client, NEW a \in DOMAIN subscriptions, Persisted(c, a)
  PROVE  Passes(c)
  <1> DEFINE row == subscriptions[a]
  <1> USE DEF Proceed, tables
  <1>1. row \in Subscription /\ a \in Arn
    BY DEF TypesInv, TopicsTypeOK
  <1>2. CASE /\ Goto(c, Idle)
             /\ mailed' \in {mailed} \cup {mailed \cup {row.token} : e \in LocalHttp \cap {row.endpoint}}
             /\ UNCHANGED <<topics, subscriptions, drawn>>
    <2>1. Idle.step \notin OwnSteps
      BY DEF Idle, OwnSteps
    <2>2. Posts
      BY <1>2 DEF Posts
    <2> QED
      BY <1>2, <2>1, <2>2 DEF Passes, GoesOn
  <1>3. CASE /\ AutoConfirms(row.endpoint) /\ row.status = "PendingConfirmation"
             /\ UpdateTo(c, a, Confirmed(row))
    <2> DEFINE next == [step |-> "update subscription", arn |-> a, row |-> Confirmed(row)]
    <2>1. ReadsSubscription(next)
      BY <1>3 DEF ReadsSubscription, AutoConfirms
    <2>2. Goto(c, next) /\ UNCHANGED tables
      BY <1>3 DEF UpdateTo
    <2> QED
      BY <2>1, <2>2 DEF Passes, Posts, GoesOn
  <1>4. CASE Proceed(c, Idle)
    BY <1>4 DEF Passes, Posts, GoesOn, OwnSteps, Idle
  <1> QED
    BY <1>2, <1>3, <1>4 DEF Persisted

(* Subscriptions: a step passes or writes.                                 *)
LEMMA SubscriptionStepKinds ==
  ASSUME TypesInv, ConfirmedByToken, NEW c \in Client, SubscriptionStep(c)
  PROVE  Passes(c) \/ Writes(c)
  <1> USE DEF Proceed, tables
  <1>1. ASSUME NEW t \in Topic, NEW e \in Endpoint, NEW filter \in Filters, Subscribe(c, t, e, filter)
        PROVE  Passes(c)
    BY <1>1 DEF Subscribe, Passes, Posts, GoesOn, BeginsToSubscribe, Subscribing
  <1>2. ASSUME NEW t \in Topic, NEW token \in Arn, ConfirmSubscription(c, t, token)
        PROVE  Passes(c)
    BY <1>2 DEF ConfirmSubscription, Passes, Posts, GoesOn, RequestOK
  <1>3. ASSUME NEW a \in Arn, NEW filter \in Filters, SetSubscriptionAttributes(c, a, filter)
        PROVE  Passes(c)
    BY <1>3 DEF SetSubscriptionAttributes, UpdateTo, Passes, Posts, GoesOn, ReadsSubscription
  <1>4. ASSUME FindSubscription(c)
        PROVE  Passes(c)
    <2> DEFINE r == request[c]
               same == SameSubscription(r.topic, r.endpoint)
               next == [r EXCEPT !.step = "insert subscription"]
    <2>1. r.step = "find subscription" /\ r \in Subscribing
      BY <1>4 DEF FindSubscription, At, TypesInv, RequestOK
    <2>2. CASE same = {}
      <3>1. Goto(c, next) /\ UNCHANGED tables
        BY <1>4, <2>2 DEF FindSubscription
      <3>2. /\ next \in Subscribing /\ next.step = "insert subscription"
            /\ next.topic = r.topic /\ next.endpoint = r.endpoint
        BY <2>1 DEF Subscribing
      <3>3. FindsNone(c, next)
        BY <2>1, <2>2, <3>2 DEF FindsNone
      <3> QED
        BY <3>1, <3>3 DEF Passes, Posts, GoesOn
    <2>3. CASE same # {}
      <3>1. PICK a \in same : Persisted(c, a)
        BY <1>4, <2>3 DEF FindSubscription
      <3>2. a \in DOMAIN subscriptions
        BY DEF SameSubscription, Of
      <3> QED
        BY <3>1, <3>2, PersistedKinds
    <2> QED
      BY <2>2, <2>3
  <1>5. ASSUME ReadSubscription(c)
        PROVE  Passes(c)
    BY <1>5, PersistedKinds DEF ReadSubscription
  <1>6. ASSUME FindToken(c)
        PROVE  Passes(c)
    <2> DEFINE r == request[c]
    <2>1. r.step = "find token" /\ r.token \in mailed \ {NoToken}
      BY <1>6 DEF FindToken, At, TypesInv, RequestOK
    <2>2. PICK a \in Of(r.topic) : /\ subscriptions[a].token = r.token
                                   /\ subscriptions[a].status = "PendingConfirmation"
                                   /\ UpdateTo(c, a, Confirmed(subscriptions[a]))
      BY <1>6 DEF FindToken
    <2>3. a \in DOMAIN subscriptions /\ a \in mailed
      BY <2>1, <2>2 DEF Of, ConfirmedByToken
    <2> QED
      BY <2>2, <2>3 DEF UpdateTo, Passes, Posts, GoesOn, ReadsSubscription
  <1> QED
    BY <1>1, <1>2, <1>3, <1>4, <1>5, <1>6 DEF SubscriptionStep, Writes

-----------------------------------------------------------------------------
(* A table whose keys and rows are of some kind.                           *)
Rows(table, keys, rows) == DOMAIN table \subseteq keys /\ \A k \in DOMAIN table : table[k] \in rows

LEMMA RowsKept ==
  ASSUME NEW table, NEW keys, NEW rows, Rows(table, keys, rows), NEW key, NEW row \in rows, NEW gone
  PROVE  /\ Rows(Inserted(table, key, row), keys \cup {key}, rows)
         /\ Rows(Overwritten(table, key, row), keys, rows)
         /\ Rows(Deleted(table, gone), keys, rows)
  BY DEF Rows, Inserted, Overwritten, Deleted, Restrict

(* Only the request of the client that moves is another one.               *)
LEMMA WritesEnd ==
  ASSUME NEW c \in Client, Writes(c)
  PROVE  \/ request' = request /\ Ready(c)
         \/ \E next : Goto(c, next) /\ next.step \in {"idle", "read subscription"}
  <1>1. Idle.step = "idle"
    BY DEF Idle
  <1>2. CASE InsertTopic(c) \/ UpdateTopic(c) \/ UpdateSubscription(c)
    BY <1>1, <1>2 DEF InsertTopic, UpdateTopic, UpdateSubscription
  <1>3. CASE InsertSubscription(c)
    <2> DEFINE next(a) == [step |-> "read subscription", arn |-> a]
    <2>1. \A a : next(a).step = "read subscription"
      OBVIOUS
    <2> HIDE DEF next
    <2>2. PICK a : Goto(c, next(a))
      BY <1>3 DEF InsertSubscription, next
    <2> QED
      BY <2>1, <2>2
  <1>4. CASE (\E t \in Topic : DeleteTopic(c, t)) \/ (\E a \in Arn : Unsubscribe(c, a))
    BY <1>4 DEF DeleteTopic, Unsubscribe
  <1> QED
    BY <1>2, <1>3, <1>4 DEF Writes

LEMMA OneMoves ==
  ASSUME TypesInv, NEW c \in Client, Passes(c) \/ Writes(c)
  PROVE  /\ DOMAIN request' = Client
         /\ \A d \in Client \ {c} : request'[d] = request[d]
         /\ Writes(c) => request'[c].step \in {"idle", "read subscription"}
  <1>1. ASSUME NEW next, Goto(c, next)
        PROVE  DOMAIN request' = Client /\ (\A d \in Client \ {c} : request'[d] = request[d]) /\ request'[c] = next
    BY <1>1 DEF Goto, TypesInv
  <1>2. ASSUME request' = request
        PROVE  DOMAIN request' = Client /\ \A d \in Client \ {c} : request'[d] = request[d]
    BY <1>2 DEF TypesInv
  <1>3. Passes(c) => \E next : Goto(c, next)
    BY DEF Passes
  <1> QED
    BY <1>1, <1>2, <1>3, WritesEnd DEF Ready, At

(* The rows after a step.                                                  *)
RowsOK ==
  /\ Rows(topics, Topic, Row) /\ Rows(subscriptions, drawn, Subscription)
  /\ drawn \subseteq Arn /\ mailed \subseteq drawn \cup {NoToken}

LEMMA RowsStep ==
  ASSUME TypesInv, ConfirmedByToken, NEW c \in Client, Passes(c) \/ Writes(c)
  PROVE  RowsOK' /\ drawn \subseteq drawn' /\ mailed \subseteq mailed'
  <1> DEFINE r == request[c]
  <1>0. RowsOK /\ RequestOK(r)
    BY DEF TypesInv, TopicsTypeOK, RowsOK, Rows
  <1>1. CASE Passes(c)
    <2>1. \A a \in DOMAIN subscriptions : subscriptions[a].token \in drawn \cup {NoToken}
      BY <1>0 DEF ConfirmedByToken, RowsOK, Rows
    <2>2. UNCHANGED <<topics, subscriptions, drawn>>
      BY <1>1 DEF Passes
    <2>3. Rows(topics, Topic, Row)' /\ Rows(subscriptions, drawn, Subscription)'
      BY <1>0, <2>2 DEF RowsOK, Rows
    <2> QED
      BY <1>0, <1>1, <2>1, <2>2, <2>3 DEF Passes, Posts, RowsOK
  <1>2. CASE InsertTopic(c)
    <2> DEFINE row == [attributes |-> r.attributes, policy |-> {}, tags |-> {}]
    <2>1. r.topic \in Topic /\ r.attributes \in SUBSET Attribute
      BY <1>0, <1>2 DEF InsertTopic, At, RequestOK
    <2>2. row \in Row
      BY <2>1 DEF Row
    <2>3. Rows(Inserted(topics, r.topic, row), Topic \cup {r.topic}, Row)
      BY <1>0, <2>2, RowsKept DEF RowsOK
    <2>4. topics' = topics \/ topics' = Inserted(topics, r.topic, row)
      BY <1>2 DEF InsertTopic
    <2>5. Rows(topics', Topic, Row)
      BY <1>0, <2>1, <2>3, <2>4 DEF Rows, RowsOK
    <2> QED
      BY <1>0, <1>2, <2>5 DEF InsertTopic, RowsOK, Rows
  <1>3. CASE UpdateTopic(c)
    <2>1. r.row \in Row
      BY <1>0, <1>3 DEF UpdateTopic, At, RequestOK
    <2>2. Rows(topics', Topic, Row)
      BY <1>0, <1>3, <2>1, RowsKept DEF UpdateTopic, RowsOK
    <2> QED
      BY <1>0, <1>3, <2>2 DEF UpdateTopic, RowsOK, Rows
  <1>4. ASSUME NEW t \in Topic, DeleteTopic(c, t)
        PROVE  RowsOK' /\ drawn' = drawn /\ mailed' = mailed
    <2>1. Rows(topics', Topic, Row) /\ Rows(subscriptions', drawn, Subscription)
      BY <1>0, <1>4 DEF DeleteTopic, RowsOK, Rows, Deleted, Restrict
    <2> QED
      BY <1>0, <1>4, <2>1 DEF DeleteTopic, RowsOK, Rows
  <1>5. ASSUME NEW a \in Arn, Unsubscribe(c, a)
        PROVE  RowsOK' /\ drawn' = drawn /\ mailed' = mailed
    <2>1. Rows(subscriptions', drawn, Subscription)
      BY <1>0, <1>5 DEF Unsubscribe, RowsOK, Rows, Deleted, Restrict
    <2> QED
      BY <1>0, <1>5, <2>1 DEF Unsubscribe, RowsOK, Rows
  <1>6. CASE UpdateSubscription(c)
    <2>1. r.row \in Subscription
      BY <1>0, <1>6 DEF UpdateSubscription, At, RequestOK
    <2>2. Rows(subscriptions', drawn, Subscription)
      BY <1>0, <1>6, <2>1, RowsKept DEF UpdateSubscription, RowsOK
    <2> QED
      BY <1>0, <1>6, <2>2 DEF UpdateSubscription, RowsOK, Rows
  <1>7. CASE InsertSubscription(c)
    <2>1. r \in Subscribing
      BY <1>0, <1>7 DEF InsertSubscription, At, RequestOK
    <2> DEFINE row(a) == [topic |-> r.topic, endpoint |-> r.endpoint,
                          filter |-> r.filter, status |-> "PendingConfirmation", token |-> a]
    <2>2. PICK a \in Arn \ drawn : subscriptions' = Inserted(subscriptions, a, row(a)) /\ drawn' = drawn \cup {a}
      BY <1>7 DEF InsertSubscription
    <2>3. row(a) \in Subscription
      BY <2>1 DEF Subscribing, Subscription
    <2>4. UNCHANGED <<topics, mailed>>
      BY <1>7 DEF InsertSubscription
    <2> HIDE DEF row
    <2>5. Rows(subscriptions', drawn', Subscription)
      BY <1>0, <2>2, <2>3, RowsKept DEF RowsOK
    <2> QED
      BY <1>0, <2>2, <2>4, <2>5 DEF RowsOK, Rows
  <1> QED
    BY <1>1, <1>2, <1>3, <1>4, <1>5, <1>6, <1>7 DEF Writes, InsertTopic, UpdateTopic, UpdateSubscription,
       InsertSubscription

(* What a request that moves to a statement has for it.                    *)
LEMMA NextOK ==
  ASSUME TypesInv, NEW c \in Client, NEW next, GoesOn(c, next)
  PROVE  RequestOK(next)
  <1>1. CASE next.step \notin OwnSteps
    BY <1>1 DEF RequestOK, OwnSteps
  <1>2. CASE ReadsTopic(next)
    BY <1>2 DEF ReadsTopic, RequestOK, TypesInv, TopicsTypeOK
  <1>3. CASE ReadsSubscription(next)
    <2> DEFINE old == subscriptions[next.arn]
    <2>1. old \in Subscription /\ next.arn \in drawn /\ next.step = "update subscription"
      BY <1>3 DEF ReadsSubscription, TypesInv, TopicsTypeOK
    <2>2. next.row \in Subscription
      BY <1>3, <2>1 DEF ReadsSubscription, Confirmed, Subscription, NoToken
    <2> QED
      BY <2>1, <2>2 DEF RequestOK
  <1>4. CASE FindsNone(c, next) \/ BeginsToSubscribe(next)
    BY <1>4 DEF FindsNone, BeginsToSubscribe, RequestOK
  <1> QED
    BY <1>1, <1>2, <1>3, <1>4 DEF GoesOn

LEMMA RequestsStep ==
  ASSUME TypesInv, ConfirmedByToken, NEW c \in Client, Passes(c) \/ Writes(c)
  PROVE  \A d \in Client : RequestOK(request[d])' 
  <1>1. drawn \subseteq drawn' /\ mailed \subseteq mailed'
    BY RowsStep
  <1>2. ASSUME NEW r, RequestOK(r)
        PROVE  /\ r.step = "find token" => r.topic \in Topic /\ r.token \in mailed' \ {NoToken}
               /\ r.step = "update subscription" => r.arn \in drawn' /\ r.row \in Subscription
    BY <1>1, <1>2 DEF RequestOK
  <1>3. ASSUME NEW d \in Client, RequestOK(request'[d])
        PROVE  RequestOK(request[d])'
    BY <1>2, <1>3 DEF RequestOK
  <1>4. \A d \in Client \ {c} : RequestOK(request'[d])
    BY OneMoves DEF TypesInv
  <1>5. CASE Passes(c)
    BY <1>3, <1>4, <1>5, NextOK DEF Passes, Goto, TypesInv
  <1>6. CASE Writes(c)
    <2>1. RequestOK(request'[c])
      BY <1>6, OneMoves DEF RequestOK
    <2> QED
      BY <1>3, <1>4, <2>1
  <1> QED
    BY <1>5, <1>6

LEMMA NoticedType ==
  ASSUME TypesInv, Observe, drawn' \subseteq Arn
  PROVE  noticed' \in [Client -> Notice]
  <1> DEFINE seen(d) ==
        [inserted |-> IF At(d, "insert subscription") THEN noticed[d].inserted \cup (drawn' \ drawn) ELSE {},
         gone |-> noticed[d].gone \/ (/\ request[d].step \in {"find subscription", "insert subscription"}
                                      /\ request[d].topic \notin DOMAIN topics'),
         written |-> noticed[d].written \/ RowChanged(request[d])]
  <1>1. ASSUME NEW d \in Client
        PROVE  seen(d) \in Notice /\ Unnoticed \in Notice
    <2>1. noticed[d] \in Notice
      BY DEF TypesInv
    <2>2. (noticed[d].written \/ RowChanged(request[d])) \in BOOLEAN
      OBVIOUS
    <2> QED
      BY <2>1, <2>2 DEF Notice, Unnoticed
  <1>2. noticed' = [d \in Client |-> IF request'[d].step = "idle" \/ At(d, "idle") THEN Unnoticed ELSE seen(d)]
    BY DEF Observe
  <1> HIDE DEF seen
  <1> QED
    BY <1>1, <1>2

LEMMA TypesStep ==
  ASSUME TypesInv, ConfirmedByToken, NEW c \in Client, Passes(c) \/ Writes(c), Observe
  PROVE  TypesInv'
  <1>1. RowsOK'
    BY RowsStep
  <1>2. rivals' \subseteq SUBSET DOMAIN subscriptions' /\ late' \subseteq DOMAIN subscriptions'
    BY DEF Observe
  <1>3. noticed' \in [Client -> Notice]
    BY <1>1, NoticedType DEF RowsOK
  <1>4. TopicsTypeOK'
    BY <1>1, <1>2 DEF RowsOK, Rows, TopicsTypeOK
  <1> QED
    BY <1>3, <1>4, OneMoves, RequestsStep DEF TypesInv

-----------------------------------------------------------------------------
(* The row that c inserts under a new ARN.                                 *)
Inserts(c, a) ==
  /\ request[c] \in Subscribing /\ At(c, "insert subscription")
  /\ a \in Arn \ drawn /\ drawn' = drawn \cup {a} /\ topics' = topics
  /\ DOMAIN subscriptions' = DOMAIN subscriptions \cup {a}
  /\ subscriptions'[a].topic = request[c].topic
  /\ subscriptions'[a].endpoint = request[c].endpoint
  /\ subscriptions'[a].status = "PendingConfirmation" /\ subscriptions'[a].token = a
  /\ \A b \in DOMAIN subscriptions : subscriptions'[b] = subscriptions[b]
  /\ request'[c].step = "read subscription" /\ request'[c].arn = a

LEMMA Inserting ==
  ASSUME TypesInv, NEW c \in Client, InsertSubscription(c)
  PROVE  \E a \in Arn : Inserts(c, a)
  <1> DEFINE r == request[c]
             row(a) == [topic |-> r.topic, endpoint |-> r.endpoint, filter |-> r.filter,
                        status |-> "PendingConfirmation", token |-> a]
             next(a) == [step |-> "read subscription", arn |-> a]
  <1>1. r \in Subscribing /\ At(c, "insert subscription")
    BY DEF InsertSubscription, At, TypesInv, RequestOK
  <1>2. DOMAIN subscriptions \subseteq drawn /\ DOMAIN request = Client
    BY DEF TypesInv, TopicsTypeOK
  <1>3. PICK a \in Arn \ drawn :
          /\ subscriptions' = Inserted(subscriptions, a, row(a)) /\ drawn' = drawn \cup {a}
          /\ Goto(c, next(a)) /\ topics' = topics
    BY DEF InsertSubscription
  <1>4. /\ row(a).topic = r.topic /\ row(a).endpoint = r.endpoint
        /\ row(a).status = "PendingConfirmation" /\ row(a).token = a
        /\ next(a).step = "read subscription" /\ next(a).arn = a
    OBVIOUS
  <1> HIDE DEF row, next
  <1>5. request'[c] = next(a)
    BY <1>2, <1>3 DEF Goto
  <1>6. /\ DOMAIN subscriptions' = DOMAIN subscriptions \cup {a} /\ subscriptions'[a] = row(a)
        /\ \A b \in DOMAIN subscriptions : subscriptions'[b] = subscriptions[b]
    BY <1>2, <1>3 DEF Inserted
  <1> QED
    BY <1>1, <1>3, <1>4, <1>5, <1>6 DEF Inserts

(* What becomes of subscriptions: one that is there was there, of the same *)
(* topic and endpoint, or is new.                                          *)
Stays(a) ==
  /\ a \in DOMAIN subscriptions
  /\ subscriptions'[a].topic = subscriptions[a].topic
  /\ subscriptions'[a].endpoint = subscriptions[a].endpoint

LEMMA SubscriptionFate ==
  ASSUME TypesInv, RowInv, NEW c \in Client, Passes(c) \/ Writes(c), NEW a \in DOMAIN subscriptions'
  PROVE  Stays(a) \/ Inserts(c, a)
  <1>1. CASE Passes(c) \/ InsertTopic(c) \/ UpdateTopic(c)
    BY <1>1 DEF Passes, InsertTopic, UpdateTopic, Stays
  <1>2. CASE InsertSubscription(c)
    <2>1. PICK b \in Arn : Inserts(c, b)
      BY <1>2, Inserting
    <2>2. CASE a = b
      BY <2>1, <2>2
    <2>3. CASE a # b
      <3>1. a \in DOMAIN subscriptions /\ subscriptions'[a] = subscriptions[a]
        BY <2>1, <2>3 DEF Inserts
      <3> QED
        BY <3>1 DEF Stays
    <2> QED
      BY <2>2, <2>3
  <1>3. CASE UpdateSubscription(c)
    <2>1. /\ DOMAIN subscriptions' = DOMAIN subscriptions
          /\ subscriptions'[a] = IF a = request[c].arn THEN request[c].row ELSE subscriptions[a]
      BY <1>3 DEF UpdateSubscription, Overwritten
    <2>2. At(c, "update subscription")
      BY <1>3 DEF UpdateSubscription
    <2> QED
      BY <2>1, <2>2 DEF RowInv, Stays
  <1>4. ASSUME NEW keys, subscriptions' = Deleted(subscriptions, keys)
        PROVE  Stays(a)
    BY <1>4 DEF Deleted, Restrict, Stays
  <1> QED
    BY <1>1, <1>2, <1>3, <1>4 DEF Writes, DeleteTopic, Unsubscribe

(* What becomes of topics: one that goes takes its subscriptions along.    *)
LEMMA TopicFate ==
  ASSUME TypesInv, NEW c \in Client, Passes(c) \/ Writes(c), NEW t \in DOMAIN topics \ DOMAIN topics'
  PROVE  \A a \in DOMAIN subscriptions' : a \in DOMAIN subscriptions /\ subscriptions[a].topic # t
  <1>1. CASE Passes(c) \/ UpdateSubscription(c) \/ InsertSubscription(c)
    BY <1>1 DEF Passes, UpdateSubscription, InsertSubscription
  <1>2. CASE InsertTopic(c) \/ UpdateTopic(c)
    BY <1>2 DEF InsertTopic, UpdateTopic, Inserted, Overwritten
  <1>3. ASSUME NEW a \in Arn, Unsubscribe(c, a)
        PROVE  FALSE
    BY <1>3 DEF Unsubscribe
  <1>4. ASSUME NEW s \in Topic, DeleteTopic(c, s)
        PROVE  \A a \in DOMAIN subscriptions' : a \in DOMAIN subscriptions /\ subscriptions[a].topic # t
    <2>1. s = t
      BY <1>4 DEF DeleteTopic, Deleted, Restrict
    <2> QED
      BY <1>4, <2>1 DEF DeleteTopic, Deleted, Restrict, Of
  <1> QED
    BY <1>1, <1>2, <1>3, <1>4 DEF Writes

(* What is noticed of a step by a request that goes on.                    *)
LEMMA Noticed ==
  ASSUME Observe, NEW d \in Client, ~At(d, "idle"), request'[d].step # "idle"
  PROVE  /\ noticed'[d].inserted = IF At(d, "insert subscription") THEN noticed[d].inserted \cup (drawn' \ drawn)
                                   ELSE {}
         /\ noticed'[d].gone = (noticed[d].gone \/
              (/\ request[d].step \in {"find subscription", "insert subscription"}
               /\ request[d].topic \notin DOMAIN topics'))
         /\ noticed'[d].written = (noticed[d].written \/ RowChanged(request[d]))
  BY DEF Observe

(* The statement that a request goes on to.                                *)
LEMMA Onto ==
  ASSUME TypesInv, NEW c \in Client, Passes(c) \/ Writes(c)
  PROVE  /\ request'[c].step = "insert subscription" => Passes(c) /\ FindsNone(c, request'[c])
         /\ request'[c].step = "find subscription" => Passes(c) /\ BeginsToSubscribe(request'[c])
         /\ request'[c].step = "update topic" => Passes(c) /\ ReadsTopic(request'[c])
         /\ request'[c].step = "update subscription" => Passes(c) /\ ReadsSubscription(request'[c])
  <1>1. CASE Passes(c)
    <2>1. GoesOn(c, request'[c])
      BY <1>1 DEF Passes, Goto, TypesInv
    <2> QED
      BY <1>1, <2>1 DEF GoesOn, OwnSteps, ReadsTopic, ReadsSubscription, FindsNone, BeginsToSubscribe
  <1>2. CASE Writes(c)
    BY <1>2, OneMoves
  <1> QED
    BY <1>1, <1>2

-----------------------------------------------------------------------------
(* The parts of TopicsInv, over a step.                                    *)
LEMMA InsertStep ==
  ASSUME TopicsInv, NEW c \in Client, Passes(c) \/ Writes(c), Observe
  PROVE  InsertInv'
  <1> SUFFICES ASSUME NEW d \in Client, request'[d].step = "insert subscription",
                      NEW a \in DOMAIN subscriptions',
                      subscriptions'[a].topic = request'[d].topic,
                      subscriptions'[a].endpoint = request'[d].endpoint
               PROVE  a \in noticed'[d].inserted
    BY DEF InsertInv, At
  <1>1. CASE d = c
    <2>1. Passes(c) /\ SameSubscription(request'[c].topic, request'[c].endpoint) = {}
      BY <1>1, Onto DEF TopicsInv, FindsNone
    <2>2. subscriptions' = subscriptions
      BY <2>1 DEF Passes
    <2> QED
      BY <1>1, <2>1, <2>2 DEF SameSubscription, Of
  <1>2. CASE d # c
    <2>1. request'[d] = request[d] /\ At(d, "insert subscription")
      BY <1>2, OneMoves DEF TopicsInv, At
    <2>2. noticed'[d].inserted = noticed[d].inserted \cup (drawn' \ drawn)
      BY <2>1, Noticed DEF At
    <2>3. CASE Stays(a)
      BY <2>1, <2>2, <2>3 DEF Stays, TopicsInv, InsertInv
    <2>4. CASE Inserts(c, a)
      BY <2>2, <2>4 DEF Inserts
    <2> QED
      BY <2>3, <2>4, SubscriptionFate DEF TopicsInv
  <1> QED
    BY <1>1, <1>2

LEMMA GoneStep ==
  ASSUME TopicsInv, NEW c \in Client, Passes(c) \/ Writes(c), Observe
  PROVE  GoneInv'
  <1> SUFFICES ASSUME NEW d \in Client, request'[d].step \in {"find subscription", "insert subscription"}
               PROVE  request'[d].topic \in DOMAIN topics' \/ noticed'[d].gone
    BY DEF GoneInv
  <1>1. CASE d = c /\ request'[c].step = "find subscription"
    BY <1>1, Onto DEF TopicsInv, BeginsToSubscribe, Passes
  <1>2. CASE d = c /\ request'[c].step = "insert subscription"
    <2>1. /\ request[c].step = "find subscription" /\ request'[c].topic = request[c].topic
          /\ topics' = topics
      BY <1>2, Onto DEF TopicsInv, FindsNone, Passes
    <2>2. request[c].topic \in DOMAIN topics \/ noticed[c].gone
      BY <2>1 DEF TopicsInv, GoneInv
    <2>3. noticed[c].gone => noticed'[c].gone
      BY <1>2, <2>1, Noticed DEF At
    <2> QED
      BY <1>2, <2>1, <2>2, <2>3
  <1>3. CASE d # c
    <2>1. request'[d] = request[d]
      BY <1>3, OneMoves DEF TopicsInv
    <2> QED
      BY <2>1, Noticed DEF At
  <1> QED
    BY <1>1, <1>2, <1>3

LEMMA OneStep ==
  ASSUME TopicsInv, NEW c \in Client, Passes(c) \/ Writes(c), Observe
  PROVE  OneSubscriptionPerEndpoint'
  <1> SUFFICES ASSUME NEW a \in DOMAIN subscriptions', NEW b \in DOMAIN subscriptions', a # b,
                      subscriptions'[a].topic = subscriptions'[b].topic,
                      subscriptions'[a].endpoint = subscriptions'[b].endpoint
               PROVE  {a, b} \in rivals'
    BY DEF OneSubscriptionPerEndpoint
  <1> DEFINE inserting == {d \in Client : At(d, "insert subscription") /\ request'[d].step = "read subscription"}
             pairs == UNION {{{x, request'[d].arn} : x \in noticed[d].inserted} : d \in inserting}
  <1>1. rivals' = {pair \in rivals \cup pairs : pair \subseteq DOMAIN subscriptions'}
    BY DEF Observe
  <1>2. ASSUME Stays(a), Stays(b)
        PROVE  {a, b} \in rivals
    BY <1>2 DEF Stays, TopicsInv, OneSubscriptionPerEndpoint
  <1>3. ASSUME NEW x \in DOMAIN subscriptions', NEW y \in DOMAIN subscriptions',
               subscriptions'[x].topic = subscriptions'[y].topic,
               subscriptions'[x].endpoint = subscriptions'[y].endpoint,
               Stays(x), Inserts(c, y)
        PROVE  {x, y} \in pairs
    <2>1. At(c, "insert subscription") /\ request'[c].step = "read subscription" /\ request'[c].arn = y
      BY <1>3 DEF Inserts, At
    <2>2. x \in noticed[c].inserted
      BY <1>3, <2>1 DEF Inserts, Stays, TopicsInv, InsertInv
    <2>3. c \in inserting
      BY <2>1
    <2>4. {x, y} \in {{z, request'[c].arn} : z \in noticed[c].inserted}
      BY <2>1, <2>2
    <2> HIDE DEF inserting
    <2> QED
      BY <2>3, <2>4
  <1>4. ~(Inserts(c, a) /\ Inserts(c, b))
    BY DEF Inserts
  <1>5. {a, b} = {b, a}
    OBVIOUS
  <1>6. {a, b} \in rivals \cup pairs
    <2>1. (Stays(a) \/ Inserts(c, a)) /\ (Stays(b) \/ Inserts(c, b))
      BY SubscriptionFate DEF TopicsInv
    <2> HIDE DEF pairs
    <2> QED
      BY <1>2, <1>3, <1>4, <1>5, <2>1
  <1> HIDE DEF pairs
  <1> QED
    BY <1>1, <1>6

LEMMA ForgottenStep ==
  ASSUME TopicsInv, NEW c \in Client, Passes(c) \/ Writes(c), Observe
  PROVE  DeletedTopicsAreForgotten'
  <1> SUFFICES ASSUME NEW a \in DOMAIN subscriptions', a \notin late'
               PROVE  subscriptions'[a].topic \in DOMAIN topics'
    BY DEF DeletedTopicsAreForgotten
  <1> DEFINE inserting == {d \in Client : At(d, "insert subscription") /\ request'[d].step = "read subscription"}
             made == {request'[d].arn : d \in {e \in inserting : noticed[e].gone}}
  <1>1. late' = (late \cup made) \cap DOMAIN subscriptions'
    BY DEF Observe
  <1>2. CASE Stays(a)
    <2>1. a \notin late
      BY <1>1
    <2>2. subscriptions[a].topic \in DOMAIN topics
      BY <1>2, <2>1 DEF Stays, TopicsInv, DeletedTopicsAreForgotten
    <2>3. subscriptions[a].topic \notin DOMAIN topics \ DOMAIN topics'
      BY TopicFate DEF TopicsInv
    <2> QED
      BY <1>2, <2>2, <2>3 DEF Stays
  <1>3. CASE Inserts(c, a)
    <2>1. At(c, "insert subscription") /\ request'[c].step = "read subscription" /\ request'[c].arn = a
      BY <1>3 DEF Inserts, At
    <2>2. noticed[c].gone => a \in made
      BY <2>1
    <2>3. ~noticed[c].gone
      <3> HIDE DEF made
      <3> QED BY <1>1, <2>2
    <2>4. request[c].topic \in DOMAIN topics
      BY <2>1, <2>3 DEF TopicsInv, GoneInv, At
    <2> QED
      BY <1>3, <2>4 DEF Inserts
  <1> QED
    BY <1>2, <1>3, SubscriptionFate DEF TopicsInv

LEMMA ConfirmedStep ==
  ASSUME TopicsInv, NEW c \in Client, Passes(c) \/ Writes(c), Observe
  PROVE  ConfirmedByToken'
  <1> DEFINE Good(a, row) ==
        /\ row.token = IF row.status = "Confirmed" THEN NoToken ELSE a
        /\ row.status = "Confirmed" /\ row.endpoint \in HttpEndpoint => a \in mailed
  <1>1. mailed \subseteq mailed'
    BY RowsStep DEF TopicsInv
  <1>2. \A a \in DOMAIN subscriptions : Good(a, subscriptions[a])
    BY DEF TopicsInv, ConfirmedByToken
  <1>3. ASSUME NEW a \in DOMAIN subscriptions'
        PROVE  \/ Good(a, subscriptions'[a])
               \/ subscriptions'[a].status = "PendingConfirmation" /\ subscriptions'[a].token = a
    <2>1. CASE Passes(c) \/ InsertTopic(c) \/ UpdateTopic(c)
      BY <1>2, <2>1 DEF Passes, InsertTopic, UpdateTopic
    <2>2. CASE UpdateSubscription(c)
      <3>1. At(c, "update subscription")
        BY <2>2 DEF UpdateSubscription
      <3>2. Good(request[c].arn, request[c].row)
        BY <3>1 DEF TopicsInv, RowInv
      <3>3. /\ DOMAIN subscriptions' = DOMAIN subscriptions
            /\ subscriptions'[a] = IF a = request[c].arn THEN request[c].row ELSE subscriptions[a]
        BY <2>2 DEF UpdateSubscription, Overwritten
      <3> QED
        BY <1>2, <3>2, <3>3
    <2>3. CASE InsertSubscription(c)
      <3>1. PICK b \in Arn : Inserts(c, b)
        BY <2>3, Inserting DEF TopicsInv
      <3>2. a = b \/ (a \in DOMAIN subscriptions /\ subscriptions'[a] = subscriptions[a])
        BY <3>1 DEF Inserts
      <3> QED
        BY <1>2, <3>1, <3>2 DEF Inserts
    <2>4. ASSUME NEW keys, subscriptions' = Deleted(subscriptions, keys)
          PROVE  Good(a, subscriptions'[a])
      BY <1>2, <2>4 DEF Deleted, Restrict
    <2> QED
      BY <2>1, <2>2, <2>3, <2>4 DEF Writes, DeleteTopic, Unsubscribe
  <1> QED
    BY <1>1, <1>3 DEF ConfirmedByToken

LEMMA ConfirmedRow ==
  ASSUME NEW row \in Subscription
  PROVE  /\ Confirmed(row).topic = row.topic /\ Confirmed(row).endpoint = row.endpoint
         /\ Confirmed(row).status = "Confirmed" /\ Confirmed(row).token = NoToken
  BY DEF Confirmed, Subscription

LEMMA WrittenRowStep ==
  ASSUME TopicsInv, NEW c \in Client, Passes(c) \/ Writes(c)
  PROVE  RowInv'
  <1> SUFFICES ASSUME NEW d \in Client, request'[d].step = "update subscription"
               PROVE  LET a == request'[d].arn
                          row == request'[d].row
                      IN  /\ a \in DOMAIN subscriptions' =>
                               row.topic = subscriptions'[a].topic /\ row.endpoint = subscriptions'[a].endpoint
                          /\ row.token = IF row.status = "Confirmed" THEN NoToken ELSE a
                          /\ row.status = "Confirmed" /\ row.endpoint \in HttpEndpoint => a \in mailed'
    BY DEF RowInv, At
  <1> DEFINE a == request'[d].arn
             row == request'[d].row
  <1>0. mailed \subseteq mailed'
    BY RowsStep DEF TopicsInv
  <1>1. CASE d = c
    <2>1. Passes(c) /\ ReadsSubscription(request'[c])
      BY <1>1, Onto DEF TopicsInv
    <2>2. subscriptions' = subscriptions /\ a \in DOMAIN subscriptions
      BY <1>1, <2>1 DEF Passes, ReadsSubscription
    <2> DEFINE old == subscriptions[a]
    <2>3. /\ old \in Subscription
          /\ old.token = IF old.status = "Confirmed" THEN NoToken ELSE a
          /\ old.status = "Confirmed" /\ old.endpoint \in HttpEndpoint => a \in mailed
      BY <2>2 DEF TopicsInv, ConfirmedByToken, TypesInv, TopicsTypeOK
    <2>4. CASE row = Confirmed(old) /\ (old.endpoint \in HttpEndpoint => a \in mailed)
      <3>1. row.topic = old.topic /\ row.endpoint = old.endpoint /\ row.status = "Confirmed" /\ row.token = NoToken
        BY <2>3, <2>4, ConfirmedRow
      <3> QED
        BY <1>0, <2>2, <2>4, <3>1
    <2>5. ASSUME NEW filter, row = [old EXCEPT !.filter = filter]
          PROVE  row.topic = old.topic /\ row.endpoint = old.endpoint /\ row.status = old.status /\ row.token = old.token
      BY <2>3, <2>5 DEF Subscription
    <2>6. \/ row = Confirmed(old) /\ (old.endpoint \in HttpEndpoint => a \in mailed)
          \/ \E filter \in Filters : row = [old EXCEPT !.filter = filter]
      BY <1>1, <2>1 DEF ReadsSubscription
    <2> QED
      BY <1>0, <2>2, <2>3, <2>4, <2>5, <2>6
  <1>2. CASE d # c
    <2>1. request'[d] = request[d]
      BY <1>2, OneMoves DEF TopicsInv
    <2>2. a \in drawn
      BY <2>1 DEF TopicsInv, TypesInv, RequestOK
    <2>3. /\ a \in DOMAIN subscriptions =>
               row.topic = subscriptions[a].topic /\ row.endpoint = subscriptions[a].endpoint
          /\ row.token = IF row.status = "Confirmed" THEN NoToken ELSE a
          /\ row.status = "Confirmed" /\ row.endpoint \in HttpEndpoint => a \in mailed
      BY <2>1 DEF TopicsInv, RowInv, At
    <2>4. a \in DOMAIN subscriptions' => Stays(a)
      BY <2>2, SubscriptionFate DEF TopicsInv, Inserts
    <2> QED
      BY <1>0, <2>3, <2>4 DEF Stays
  <1> QED
    BY <1>1, <1>2

LEMMA ChangeStep ==
  ASSUME TopicsInv, NEW c \in Client, Passes(c) \/ Writes(c), Observe
  PROVE  ChangeInv'
  <1> SUFFICES ASSUME NEW d \in Client, ~noticed'[d].written
               PROVE  /\ request'[d].step = "update topic" /\ request'[d].topic \in DOMAIN topics' =>
                           OneTopicChange(topics'[request'[d].topic], request'[d].row)
                      /\ request'[d].step = "update subscription" /\ request'[d].arn \in DOMAIN subscriptions' =>
                           OneSubscriptionChange(subscriptions'[request'[d].arn], request'[d].row)
    BY DEF ChangeInv, At
  <1>1. CASE d = c
    <2>0. TypesInv
      BY DEF TopicsInv
    <2>1. ASSUME request'[c].step = "update topic"
          PROVE  OneTopicChange(topics'[request'[c].topic], request'[c].row)
      BY <2>0, <2>1, Onto DEF ReadsTopic, Passes
    <2>2. ASSUME request'[c].step = "update subscription"
          PROVE  OneSubscriptionChange(subscriptions'[request'[c].arn], request'[c].row)
      <3>1. ReadsSubscription(request'[c]) /\ subscriptions' = subscriptions
        BY <2>0, <2>2, Onto DEF Passes
      <3> DEFINE old == subscriptions[request'[c].arn]
                 row == request'[c].row
      <3>2. old \in Subscription
        BY <2>0, <3>1 DEF TypesInv, TopicsTypeOK, ReadsSubscription
      <3>3. row = Confirmed(old) \/ \E filter \in Filters : row = [old EXCEPT !.filter = filter]
        BY <3>1 DEF ReadsSubscription
      <3> HIDE DEF old, row
      <3>4. \A filter : [old EXCEPT !.filter = filter].filter = filter
        BY <3>2 DEF Subscription
      <3>5. OneSubscriptionChange(old, row)
        BY <3>3, <3>4 DEF OneSubscriptionChange
      <3> QED
        BY <3>1, <3>5 DEF old, row
    <2> QED
      BY <1>1, <2>1, <2>2
  <1>2. CASE d # c
    <2>1. request'[d] = request[d]
      BY <1>2, OneMoves DEF TopicsInv
    <2>2. ASSUME request[d].step \in {"update topic", "update subscription"}
          PROVE  ~noticed[d].written /\ ~RowChanged(request[d])
      BY <2>1, <2>2, Noticed DEF At
    <2>3. ASSUME At(d, "update topic"), request[d].topic \in DOMAIN topics'
          PROVE  OneTopicChange(topics'[request[d].topic], request[d].row)
      BY <2>2, <2>3 DEF At, RowChanged, Changed, TopicsInv, ChangeInv
    <2>4. ASSUME At(d, "update subscription"), request[d].arn \in DOMAIN subscriptions'
          PROVE  OneSubscriptionChange(subscriptions'[request[d].arn], request[d].row)
      BY <2>2, <2>4 DEF At, RowChanged, Changed, TopicsInv, ChangeInv
    <2> QED
      BY <2>1, <2>3, <2>4 DEF At
  <1> QED
    BY <1>1, <1>2

-----------------------------------------------------------------------------
(* Whatever a client does, its request passes or writes.                   *)
LEMMA StepKinds ==
  ASSUME TopicsInv, NEW c \in Client, TopicStep(c) \/ SubscriptionStep(c) \/ Fail(c)
  PROVE  Passes(c) \/ Writes(c)
  <1>1. CASE Fail(c)
    <2>1. Idle.step \notin OwnSteps
      BY DEF Idle, OwnSteps
    <2> QED
      BY <1>1, <2>1 DEF Fail, Proceed, tables, Passes, GoesOn, Posts
  <1> QED
    BY <1>1, TopicStepKinds, SubscriptionStepKinds DEF TopicsInv

(* A request of topics or subscriptions goes on with one, or is done.      *)
LEMMA OwnStepsOnly ==
  ASSUME TypesInv, NEW c \in Client, TopicStep(c) \/ SubscriptionStep(c) \/ Fail(c)
  PROVE  request'[c].step \in OwnSteps \cup {"idle"}
  <1> DEFINE Own == OwnSteps \cup {"idle"}
  <1>0. Idle.step \in Own /\ (Ready(c) => request[c].step \in Own)
    BY DEF Idle, Ready, At
  <1>1. ASSUME NEW next, Goto(c, next), next.step \in Own
        PROVE  request'[c].step \in Own
    BY <1>1 DEF Goto, TypesInv
  <1>2. ASSUME request' = request, Ready(c)
        PROVE  request'[c].step \in Own
    BY <1>0, <1>2
  <1> USE DEF Proceed, OwnSteps
  <1>3. ASSUME NEW t, NEW row, Overwrite(c, t, row)
        PROVE  request'[c].step \in Own
    BY <1>1, <1>3 DEF Overwrite
  <1>4. ASSUME NEW t, NEW tags, ReplaceTagsOf(c, t, tags)
        PROVE  request'[c].step \in Own
    BY <1>1, <1>4 DEF ReplaceTagsOf
  <1>5. ASSUME NEW a, NEW row, UpdateTo(c, a, row)
        PROVE  request'[c].step \in Own
    BY <1>1, <1>5 DEF UpdateTo
  <1>6. ASSUME NEW a, Persisted(c, a)
        PROVE  request'[c].step \in Own
    BY <1>0, <1>1, <1>5, <1>6 DEF Persisted
  <1>7. ASSUME InsertTopic(c) \/ UpdateTopic(c) \/ UpdateSubscription(c) \/ Fail(c)
        PROVE  request'[c].step \in Own
    BY <1>0, <1>1, <1>7 DEF InsertTopic, UpdateTopic, UpdateSubscription, Fail
  <1>8. ASSUME NEW t, NEW attributes, CreateTopic(c, t, attributes)
        PROVE  request'[c].step \in Own
    BY <1>1, <1>8 DEF CreateTopic
  <1>9. ASSUME NEW t, NEW e, NEW filter, Subscribe(c, t, e, filter)
        PROVE  request'[c].step \in Own
    BY <1>1, <1>9 DEF Subscribe
  <1>10. ASSUME NEW t, NEW token, ConfirmSubscription(c, t, token)
         PROVE  request'[c].step \in Own
    BY <1>1, <1>10 DEF ConfirmSubscription
  <1>11. ASSUME FindSubscription(c)
         PROVE  request'[c].step \in Own
    <2> DEFINE r == request[c]
               next == [r EXCEPT !.step = "insert subscription"]
    <2>1. r \in Subscribing
      BY <1>11 DEF FindSubscription, At, TypesInv, RequestOK
    <2>2. next.step \in Own
      BY <2>1 DEF Subscribing
    <2>3. Goto(c, next) \/ \E a : Persisted(c, a)
      BY <1>11 DEF FindSubscription
    <2> QED
      BY <1>1, <1>6, <2>2, <2>3
  <1>12. ASSUME InsertSubscription(c)
         PROVE  request'[c].step \in Own
    <2>1. PICK a : Inserts(c, a)
      BY <1>12, Inserting
    <2> QED
      BY <2>1 DEF Inserts
  <1>13. ASSUME FindToken(c) \/ ReadSubscription(c)
         PROVE  request'[c].step \in Own
    BY <1>5, <1>6, <1>13 DEF FindToken, ReadSubscription
  <1>14. ASSUME NEW t, NEW name, NEW on, SetTopicAttributes(c, t, name, on)
         PROVE  request'[c].step \in Own
    BY <1>3, <1>14 DEF SetTopicAttributes
  <1>15. ASSUME NEW t, NEW label, AddPermission(c, t, label) \/ RemovePermission(c, t, label)
                                  \/ PutDataProtectionPolicy(c, t)
         PROVE  request'[c].step \in Own
    BY <1>3, <1>15 DEF AddPermission, RemovePermission, PutDataProtectionPolicy
  <1>16. ASSUME NEW t, NEW keys, TagResource(c, t, keys) \/ UntagResource(c, t, keys)
         PROVE  request'[c].step \in Own
    BY <1>4, <1>16 DEF TagResource, UntagResource
  <1>17. ASSUME ReplaceTags(c)
         PROVE  request'[c].step \in Own
    BY <1>3, <1>17 DEF ReplaceTags
  <1>18. ASSUME NEW t, DeleteTopic(c, t)
         PROVE  request'[c].step \in Own
    BY <1>2, <1>18 DEF DeleteTopic
  <1>19. ASSUME NEW a, Unsubscribe(c, a)
         PROVE  request'[c].step \in Own
    BY <1>2, <1>19 DEF Unsubscribe
  <1>20. ASSUME NEW a, NEW filter, SetSubscriptionAttributes(c, a, filter)
         PROVE  request'[c].step \in Own
    BY <1>5, <1>20 DEF SetSubscriptionAttributes
  <1> HIDE DEF Own
  <1>21. TopicStep(c) => request'[c].step \in Own
    BY <1>7, <1>8, <1>14, <1>15, <1>16, <1>17, <1>18 DEF TopicStep
  <1>22. SubscriptionStep(c) => request'[c].step \in Own
    BY <1>7, <1>9, <1>10, <1>11, <1>12, <1>13, <1>19, <1>20 DEF SubscriptionStep
  <1> QED
    BY <1>7, <1>21, <1>22 DEF Own

LEMMA TopicsInvInit ==
  TopicsInit => TopicsInv
  <1> SUFFICES ASSUME TopicsInit
               PROVE  TopicsInv
    OBVIOUS
  <1>1. \A c \in Client : request[c].step = "idle"
    BY DEF TopicsInit, Idle
  <1>2. noticed \in [Client -> Notice]
    BY DEF TopicsInit, Notice, Unnoticed
  <1>3. DOMAIN topics = {} /\ DOMAIN subscriptions = {}
    BY DEF TopicsInit
  <1>4. TypesInv
    BY <1>1, <1>2, <1>3 DEF TypesInv, TopicsTypeOK, RequestOK, TopicsInit
  <1> QED
    BY <1>1, <1>3, <1>4 DEF TopicsInv, InsertInv, GoneInv, RowInv, ChangeInv, At,
       OneSubscriptionPerEndpoint, DeletedTopicsAreForgotten, ConfirmedByToken

LEMMA TopicsInvStep ==
  ASSUME TopicsInv, NEW c \in Client, Passes(c) \/ Writes(c), Observe
  PROVE  TopicsInv'
  BY TypesStep, InsertStep, GoneStep, WrittenRowStep, ChangeStep, OneStep, ForgottenStep, ConfirmedStep DEF TopicsInv

LEMMA TopicsInvStutter ==
  ASSUME TopicsInv, UNCHANGED topicVars
  PROVE  TopicsInv'
  <1>1. /\ topics' = topics /\ subscriptions' = subscriptions /\ drawn' = drawn /\ mailed' = mailed
        /\ request' = request /\ noticed' = noticed /\ rivals' = rivals /\ late' = late
    BY DEF topicVars, tables, history
  <1>2. TypesInv'
    BY <1>1 DEF TopicsInv, TypesInv, TopicsTypeOK, RequestOK
  <1>3. InsertInv' /\ GoneInv' /\ RowInv' /\ ChangeInv'
    BY <1>1 DEF TopicsInv, InsertInv, GoneInv, RowInv, ChangeInv, At
  <1>4. OneSubscriptionPerEndpoint' /\ DeletedTopicsAreForgotten' /\ ConfirmedByToken'
    BY <1>1 DEF TopicsInv, OneSubscriptionPerEndpoint, DeletedTopicsAreForgotten, ConfirmedByToken
  <1> QED
    BY <1>2, <1>3, <1>4 DEF TopicsInv

(* Nor does a step of something else that leaves the requests alone.       *)
LEMMA TopicsInvRests ==
  ASSUME TopicsInv, UNCHANGED <<tables, request>>, Observe
  PROVE  TopicsInv'
  <1>1. /\ topics' = topics /\ subscriptions' = subscriptions /\ drawn' = drawn /\ mailed' = mailed
        /\ request' = request
    BY DEF tables
  <1>2. rivals' \subseteq SUBSET DOMAIN subscriptions' /\ late' \subseteq DOMAIN subscriptions'
    BY DEF Observe
  <1>3. TypesInv'
    <2>1. noticed' \in [Client -> Notice]
      BY <1>1, NoticedType DEF TopicsInv, TypesInv, TopicsTypeOK
    <2> QED
      BY <1>1, <1>2, <2>1 DEF TopicsInv, TypesInv, TopicsTypeOK, RequestOK
  <1>4. \A d \in Client : ~RowChanged(request[d])
    BY <1>1 DEF RowChanged, Changed
  <1>5. InsertInv' /\ GoneInv' /\ RowInv' /\ ChangeInv'
    <2>1. ASSUME NEW d \in Client, request[d].step # "idle"
          PROVE  /\ At(d, "insert subscription") => noticed[d].inserted \subseteq noticed'[d].inserted
                 /\ noticed[d].gone => noticed'[d].gone
                 /\ ~noticed'[d].written => ~noticed[d].written
      BY <1>1, <2>1, Noticed DEF At
    <2> QED
      BY <1>1, <2>1 DEF TopicsInv, InsertInv, GoneInv, RowInv, ChangeInv, At
  <1>6. OneSubscriptionPerEndpoint'
    <2>1. \A pair \in rivals : pair \subseteq DOMAIN subscriptions' => pair \in rivals'
      BY DEF Observe
    <2> QED
      BY <1>1, <2>1 DEF TopicsInv, OneSubscriptionPerEndpoint
  <1>7. DeletedTopicsAreForgotten'
    <2>1. late \cap DOMAIN subscriptions' \subseteq late'
      BY DEF Observe
    <2> QED
      BY <1>1, <2>1 DEF TopicsInv, DeletedTopicsAreForgotten
  <1>8. ConfirmedByToken'
    BY <1>1 DEF TopicsInv, ConfirmedByToken
  <1> QED
    BY <1>3, <1>5, <1>6, <1>7, <1>8 DEF TopicsInv

LEMMA TopicsInvNext ==
  TopicsInv /\ [TopicsNext]_topicVars => TopicsInv'
  BY StepKinds, TopicsInvStep, TopicsInvStutter DEF TopicsNext

LEMMA TopicsInvAlways ==
  TopicsSpec => []TopicsInv
  BY TopicsInvInit, TopicsInvNext, PTL DEF TopicsSpec

(* The tables of topics and subscriptions, and the history kept of them,   *)
(* hold rows of their kinds under ARNs that were given out.                *)
THEOREM TopicTypes ==
  TopicsSpec => []TopicsTypeOK
  <1>1. TopicsInv => TopicsTypeOK
    BY DEF TopicsInv, TypesInv
  <1> QED
    BY <1>1, TopicsInvAlways, PTL

(* Two subscriptions of one endpoint to one topic come only from Subscribe *)
(* requests that both looked for it before either made it: find and insert *)
(* in subscription_service.go are two statements under no lock.            *)
THEOREM OneSubscription ==
  TopicsSpec => []OneSubscriptionPerEndpoint
  <1>1. TopicsInv => OneSubscriptionPerEndpoint
    BY DEF TopicsInv
  <1> QED
    BY <1>1, TopicsInvAlways, PTL

(* The subscriptions of a deleted topic go with it, in DeleteTopic's one   *)
(* transaction, but for one whose Subscribe had found the topic before.    *)
THEOREM TopicsForgotten ==
  TopicsSpec => []DeletedTopicsAreForgotten
  <1>1. TopicsInv => DeletedTopicsAreForgotten
    BY DEF TopicsInv
  <1> QED
    BY <1>1, TopicsInvAlways, PTL

(* A pending subscription holds its own token, and that of an http         *)
(* endpoint is confirmed only after its token was posted there: neither    *)
(* overtaken updates of the row nor a Subscribe that repeats confirm it.   *)
THEOREM ConfirmationByToken ==
  TopicsSpec => []ConfirmedByToken
  <1>1. TopicsInv => ConfirmedByToken
    BY DEF TopicsInv
  <1> QED
    BY <1>1, TopicsInvAlways, PTL

(* A row that stays as it is has changed in one thing at most.             *)
LEMMA SameRows ==
  ASSUME TopicsInv
  PROVE  /\ \A t \in DOMAIN topics : OneTopicChange(topics[t], topics[t])
         /\ \A a \in DOMAIN subscriptions : OneSubscriptionChange(subscriptions[a], subscriptions[a])
  <1>1. ASSUME NEW t \in DOMAIN topics
        PROVE  OneTopicChange(topics[t], topics[t])
    <2>1. topics[t] \in Row
      BY DEF TopicsInv, TypesInv, TopicsTypeOK
    <2>2. topics[t] = [topics[t] EXCEPT !.tags = topics[t].tags]
      BY <2>1 DEF Row
    <2> QED
      BY <2>2 DEF OneTopicChange
  <1>2. ASSUME NEW a \in DOMAIN subscriptions
        PROVE  OneSubscriptionChange(subscriptions[a], subscriptions[a])
    <2>1. subscriptions[a] \in Subscription
      BY DEF TopicsInv, TypesInv, TopicsTypeOK
    <2>2. subscriptions[a] = [subscriptions[a] EXCEPT !.filter = subscriptions[a].filter]
      BY <2>1 DEF Subscription
    <2> QED
      BY <2>2 DEF OneSubscriptionChange
  <1> QED
    BY <1>1, <1>2

(* What the last statement of an update does to the row it writes.         *)
WritesOneChange ==
  \A c \in Client : ~noticed[c].written =>
    /\ At(c, "update topic") /\ request[c].topic \in DOMAIN topics /\ request'[c] = Idle =>
         OneTopicChange(topics[request[c].topic], topics'[request[c].topic])
    /\ At(c, "update subscription") /\ request[c].arn \in DOMAIN subscriptions /\ request'[c] = Idle =>
         OneSubscriptionChange(subscriptions[request[c].arn], subscriptions'[request[c].arn])

LEMMA RestWritesOneChange ==
  ASSUME TopicsInv, topics' = topics, subscriptions' = subscriptions
  PROVE  WritesOneChange
  BY SameRows DEF WritesOneChange

LEMMA StepWritesOneChange ==
  ASSUME TopicsInv, NEW c \in Client, Passes(c) \/ Writes(c)
  PROVE  WritesOneChange
  <1>1. ASSUME NEW d \in Client, request[d].step \in {"update topic", "update subscription"}, request'[d] = Idle
        PROVE  d = c
    <2>1. Idle.step = "idle"
      BY DEF Idle
    <2> QED
      BY <1>1, <2>1, OneMoves DEF TopicsInv
  <1>2. ASSUME At(c, "update topic"), request[c].topic \in DOMAIN topics
        PROVE  topics'[request[c].topic] \in {topics[request[c].topic], request[c].row}
    BY <1>2 DEF Passes, Writes, At, Ready, InsertTopic, UpdateTopic, InsertSubscription, UpdateSubscription,
       DeleteTopic, Unsubscribe, Overwritten
  <1>3. ASSUME At(c, "update subscription"), request[c].arn \in DOMAIN subscriptions
        PROVE  subscriptions'[request[c].arn] \in {subscriptions[request[c].arn], request[c].row}
    BY <1>3 DEF Passes, Writes, At, Ready, InsertTopic, UpdateTopic, InsertSubscription, UpdateSubscription,
       DeleteTopic, Unsubscribe, Overwritten
  <1> QED
    BY <1>1, <1>2, <1>3, SameRows DEF WritesOneChange, TopicsInv, ChangeInv, At

(* An update of a topic or a subscription writes the whole row it read     *)
(* before: it takes back another's change only if that came in between.    *)
THEOREM UpdatesLoseOnlyWhenOvertaken ==
  TopicsSpec => OnlyOvertakenUpdatesLose
  <1>1. TopicsInv /\ [TopicsNext]_topicVars => [WritesOneChange]_topicVars
    BY StepKinds, StepWritesOneChange DEF TopicsNext
  <1>2. TopicsSpec => [][WritesOneChange]_topicVars
    BY <1>1, TopicsInvAlways, PTL DEF TopicsSpec
  <1>3. [][WritesOneChange]_topicVars => OnlyOvertakenUpdatesLose
    BY PTL DEF OnlyOvertakenUpdatesLose, WritesOneChange, OneTopicChange, OneSubscriptionChange
  <1> QED
    BY <1>2, <1>3, PTL
-----------------------------------------------------------------------------
(* The rules with other conditions on one key. *)
WithRule(rules, key, conditions) ==
  [k \in DOMAIN rules \cup {key} |-> IF k = key THEN conditions ELSE rules[k]]

Policy(valid, scope, rules) == [valid |-> valid, scope |-> scope, rules |-> rules]

(* Such a policy serves what its new conditions and its other keys serve. *)
LEMMA WithRuleServes ==
  ASSUME NEW valid, NEW scope, NEW rules, NEW message, NEW key, NEW conditions
  PROVE  EvaluateFilter(Policy(valid, scope, WithRule(rules, key, conditions)), message) <=>
           /\ RuleSet(conditions, key, ScopeValues(scope, message))
           /\ \A k \in DOMAIN rules \ {key} : RuleSet(rules[k], k, ScopeValues(scope, message))
<1> DEFINE with == WithRule(rules, key, conditions)
<1>1. /\ DOMAIN with = DOMAIN rules \cup {key}
      /\ with[key] = conditions
      /\ \A k \in DOMAIN rules \ {key} : with[k] = rules[k]
  BY DEF WithRule
<1>2. Policy(valid, scope, with).rules = with /\ Policy(valid, scope, with).scope = scope
  BY DEF Policy
<1> HIDE DEF with
<1>3. EvaluateFilter(Policy(valid, scope, with), message) <=>
        \A k \in DOMAIN with : RuleSet(with[k], k, ScopeValues(scope, message))
  BY <1>2, Zenon DEF EvaluateFilter
<1>4. EvaluateFilter(Policy(valid, scope, with), message) <=>
        \A k \in DOMAIN rules \cup {key} : RuleSet(with[k], k, ScopeValues(scope, message))
  BY <1>1, <1>3
<1>5. RuleSet(with[key], key, ScopeValues(scope, message)) <=> RuleSet(conditions, key, ScopeValues(scope, message))
  BY <1>1
<1>6. \A k \in DOMAIN rules \ {key} :
        RuleSet(with[k], k, ScopeValues(scope, message)) <=> RuleSet(rules[k], k, ScopeValues(scope, message))
  BY <1>1
<1>7. (\A k \in DOMAIN rules \cup {key} : RuleSet(with[k], k, ScopeValues(scope, message))) <=>
        /\ RuleSet(conditions, key, ScopeValues(scope, message))
        /\ \A k \in DOMAIN rules \ {key} : RuleSet(rules[k], k, ScopeValues(scope, message))
  BY <1>5, <1>6
<1> QED BY <1>4, <1>7 DEF with

LEMMA OneRule ==
  ASSUME NEW c, NEW key, NEW values
  PROVE  RuleSet(<<c>>, key, values) <=> Condition(c, key, values)
<1>1. DOMAIN <<c>> = {1} /\ <<c>>[1] = c
  OBVIOUS
<1> QED BY <1>1 DEF RuleSet

(* An anything-but serves the values of a key that its condition does not. *)
LEMMA AnythingButIsOther ==
  ASSUME NEW c, c.kind # "anything-but", NEW key, NEW values, key \in DOMAIN values
  PROVE  Condition([kind |-> "anything-but", conditions |-> <<c>>], key, values) <=> ~Condition(c, key, values)
<1> DEFINE other == [kind |-> "anything-but", conditions |-> <<c>>]
<1>1. DOMAIN <<c>> = {1} /\ <<c>>[1] = c
  OBVIOUS
<1>2. other.kind = "anything-but" /\ other.conditions = <<c>>
  OBVIOUS
<1> HIDE DEF other
<1>3. ~PlainCondition(other, values[key])
  BY <1>2 DEF PlainCondition, LiteralCondition
<1>4. Condition(other, key, values) <=> AnythingBut(<<c>>, values[key])
  BY <1>2, <1>3 DEF Condition
<1>5. AnythingBut(<<c>>, values[key]) <=> ~PlainCondition(c, values[key])
  BY <1>1 DEF AnythingBut
<1>6. Condition(c, key, values) <=> PlainCondition(c, values[key])
  BY DEF Condition
<1> QED BY <1>4, <1>5, <1>6 DEF other

LEMMA MoreConditions ==
  ASSUME NEW S, NEW conditions \in Seq(S), NEW c \in S, NEW key, NEW values, RuleSet(conditions, key, values)
  PROVE  RuleSet(Append(conditions, c), key, values)
<1>1. PICK i \in DOMAIN conditions : Condition(conditions[i], key, values)
  BY DEF RuleSet
<1>2. i \in DOMAIN Append(conditions, c) /\ Append(conditions, c)[i] = conditions[i]
  OBVIOUS
<1> QED BY <1>1, <1>2 DEF RuleSet

(* What subscribers expect of a filter holds of every policy, whatever its *)
(* keys and conditions and whatever message it is evaluated on.            *)
THEOREM FilterLawsHold ==
  ASSUME NEW S, NEW K, NEW rules \in [K -> Seq(S)], NEW valid, NEW scope,
         NEW message, NEW key, NEW condition \in S
  PROVE  Laws(Policy(valid, scope, rules), message, key, condition)
<1> DEFINE policy == Policy(valid, scope, rules)
           values == ScopeValues(scope, message)
           with(conditions) == Policy(valid, scope, WithRule(rules, key, conditions))
           dropped == [k \in DOMAIN rules \ {key} |-> rules[k]]
           without == Policy(valid, scope, dropped)
           other == [kind |-> "anything-but", conditions |-> <<condition>>]
           Rest == \A k \in DOMAIN rules \ {key} : RuleSet(rules[k], k, values)
<1>1. policy.rules = rules /\ policy.scope = scope
  BY DEF Policy
<1>2. \A conditions : EvaluateFilter(with(conditions), message) <=> RuleSet(conditions, key, values) /\ Rest
  BY WithRuleServes
<1>3. EvaluateFilter(without, message) <=> Rest
  <2>1. DOMAIN dropped = DOMAIN rules \ {key} /\ \A k \in DOMAIN rules \ {key} : dropped[k] = rules[k]
    OBVIOUS
  <2>2. without.rules = dropped /\ without.scope = scope
    BY DEF Policy
  <2> HIDE DEF dropped, without
  <2>3. EvaluateFilter(without, message) <=> \A k \in DOMAIN dropped : RuleSet(dropped[k], k, values)
    BY <2>2, Zenon DEF EvaluateFilter
  <2> QED BY <2>1, <2>3
<1>4. ASSUME key \in DOMAIN rules, EvaluateFilter(policy, message)
      PROVE  EvaluateFilter(with(Append(rules[key], condition)), message)
  <2>1. \A k \in DOMAIN rules : RuleSet(rules[k], k, values)
    BY <1>1, <1>4, Zenon DEF EvaluateFilter
  <2>2. rules[key] \in Seq(S)
    BY <1>4
  <2>3. RuleSet(Append(rules[key], condition), key, values)
    BY <1>4, <2>1, <2>2, MoreConditions
  <2> QED BY <1>2, <2>1, <2>3
<1>5. ~EvaluateFilter(with(<<>>), message)
  <2>1. ~RuleSet(<<>>, key, values)
    BY DEF RuleSet
  <2> QED BY <1>2, <2>1
<1>6. ASSUME Rest, key \in DOMAIN values, condition.kind # "anything-but"
      PROVE  EvaluateFilter(with(<<condition>>), message) # EvaluateFilter(with(<<other>>), message)
  <2>1. EvaluateFilter(with(<<condition>>), message) <=> Condition(condition, key, values)
    BY <1>2, <1>6, OneRule
  <2>2. EvaluateFilter(with(<<other>>), message) <=> Condition(other, key, values)
    BY <1>2, <1>6, OneRule
  <2>3. Condition(other, key, values) <=> ~Condition(condition, key, values)
    BY <1>6, AnythingButIsOther
  <2> QED BY <2>1, <2>2, <2>3
<1>7. \A f : [policy EXCEPT !.rules = f] = Policy(valid, scope, f)
  BY DEF Policy
<1>8. \A conditions :
        [policy EXCEPT !.rules = [k \in DOMAIN policy.rules \cup {key} |->
                                    IF k = key THEN conditions ELSE policy.rules[k]]] = with(conditions)
  BY <1>1, <1>7 DEF WithRule
<1>9. [policy EXCEPT !.rules = [k \in DOMAIN policy.rules \ {key} |-> policy.rules[k]]] = without
  BY <1>1, <1>7
<1> HIDE DEF policy, with, without, other, values
<1>10. Laws(policy, message, key, condition)
  BY <1>1, <1>2, <1>3, <1>4, <1>5, <1>6, <1>8, <1>9 DEF Laws, values, other
<1> QED BY <1>10 DEF policy

(* An evaluation is none or one of the calls.                              *)
FilterTypeOK == filtering \in Filterings \cup {NoFiltering}

(* The laws hold of every evaluation of every policy (SnsFiltering).       *)
THEOREM EveryEvaluationLawful == FilterSpec => []FilterLaws
<1>1. FilterInit => FilterTypeOK
  BY DEF FilterInit, FilterTypeOK
<1>2. FilterTypeOK /\ [FilterNext]_filtering => FilterTypeOK'
  BY DEF FilterTypeOK, FilterNext, Filter, Filterings, NoFiltering
<1>3. FilterTypeOK => FilterLaws
  <2> SUFFICES ASSUME FilterTypeOK, filtering # NoFiltering
               PROVE  Laws(filtering.policy, filtering.message, filtering.key, filtering.condition)
    BY DEF FilterLaws
  <2> DEFINE policy == filtering.policy
  <2>1. filtering \in Filterings
    BY DEF FilterTypeOK
  <2>2. policy \in Policies /\ filtering.condition \in FilterCondition
    BY <2>1 DEF Filterings
  <2>3. /\ policy = Policy(TRUE, policy.scope, policy.rules)
        /\ policy.rules \in [DOMAIN policy.rules -> Seq(FilterCondition)]
    BY <2>2, PoliciesAssumption DEF Policy
  <2> HIDE DEF policy
  <2>4. Laws(Policy(TRUE, policy.scope, policy.rules), filtering.message, filtering.key, filtering.condition)
    BY <2>2, <2>3, FilterLawsHold
  <2> QED BY <2>3, <2>4, Zenon DEF policy
<1> QED BY <1>1, <1>2, <1>3, PTL DEF FilterSpec
=============================================================================
