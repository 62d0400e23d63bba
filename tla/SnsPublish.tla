------------------------------ MODULE SnsPublish ------------------------------
(***************************************************************************)
(* Publishing to SNS topics (publish_service.go, delivery_dispatcher.go,   *)
(* publish_repository.go), among the requests of SnsTopics.  A publish     *)
(* looks for a duplicate, takes a sequence number, saves its message,      *)
(* lists the subscriptions page by page and delivers to each that is       *)
(* confirmed, recording every attempt after it was made.  Nothing holds    *)
(* these statements together, and other requests come between them.        *)
(* Queues and http endpoints are outside: an endpoint takes what is handed *)
(* to it, and the answer may be lost or be an error.                       *)
(***************************************************************************)
EXTENDS SnsTopics

CONSTANTS
  Group,       \* message groups
  DedupId,     \* deduplication ids that publishers choose
  Content,     \* contents of messages: what filters see, and the payload
  Window,      \* how long a deduplication id is remembered, 300 seconds
  PageSize,    \* subscriptions in one page, a hundred
  Bridge,      \* whether the SQS service takes messages
  Nameless,    \* ARNs that name no queue
  Batches,     \* batches that are published: sequences of entries
  MaxMessage,  \* bound: messages ever saved
  MaxNow       \* bound: time

ASSUME PublishAssumption ==
  /\ Window \in Nat /\ PageSize \in Nat \ {0} /\ Bridge \in BOOLEAN
  /\ MaxMessage \in Nat /\ MaxNow \in Nat /\ Nameless \subseteq SqsEndpoint

(* What a message has instead of a topic or a group. *)
None == "none"

ASSUME NoneAssumption == None \notin Topic \cup Group
MessageId == 1 .. MaxMessage

(* A deduplication id is a sequence, of one part, or of two if it is the   *)
(* hash of a payload, which publishers could choose too.                   *)
NoId == <<>>
HashOf(content) == <<"sha256", content.body>>

VARIABLES
  messages,  \* the saved messages, never deleted
  attempts,  \* the recorded delivery attempts
  now,       \* time, in seconds
  handed,    \* what endpoints were given: message, subscription
  steady,    \* subscriptions confirmed since a publish began to list them
  wanting,   \* those that at some moment of it were confirmed and matched
  missed     \* what was answered and not tried: message, subscription

publishTables == <<messages, attempts, now, handed>>
publishHistory == <<steady, wanting, missed>>
publishVars == <<topicVars, publishTables, publishHistory>>

PublishInit ==
  /\ TopicsInit
  /\ messages = {} /\ attempts = {} /\ now = 0 /\ handed = {}
  /\ steady = [c \in Client |-> {}] /\ wanting = [c \in Client |-> {}]
  /\ missed = {}

(* The statements of a publish that has an id, once it is saved and before. *)
Dispatching(r) == r.step \in {"list", "deliver", "record"}
Publishing(r) == r.step \in {"look", "sequence", "save", "answer"} \/ Dispatching(r)

SavedIds == {m.id : m \in messages}
UsedIds == SavedIds \cup {request[c].id : c \in {d \in Client : Publishing(request[d])}}

(* An entry: a group, a deduplication id or none, and a content. *)
Entry == [group : Group \cup {None}, dedup : DedupId \cup {NoId}, content : Content]

ASSUME BatchAssumption == Batches \subseteq Seq(Entry)

(* How a publish goes on: with the rest of its batch, if it is part of one. *)
Rest(t, rest) == IF rest = <<>> THEN Idle ELSE [step |-> "next entry", topic |-> t, rest |-> rest]
-----------------------------------------------------------------------------
(* applyFIFORules *)
Accepts(t, entry) ==
  t \in FifoTopic =>
    /\ entry.group # None
    /\ entry.dedup # NoId \/ ContentBased \in topics[t].attributes

DeduplicationId(t, entry) ==
  IF t \in FifoTopic /\ entry.dedup = NoId THEN HashOf(entry.content) ELSE entry.dedup

ScopeKey(t, entry) ==
  IF t \notin FifoTopic THEN <<>>
  ELSE IF "MessageGroupScope" \in topics[t].attributes THEN <<t, entry.group>> ELSE <<t>>

(* c publishes entry with a message id of its own. *)
Begin(c, t, entry, rest) ==
  /\ t \in DOMAIN topics /\ Accepts(t, entry)
  /\ \E id \in MessageId \ UsedIds :
       /\ \A other \in MessageId \ UsedIds : id <= other
       /\ Proceed(c, [step |-> IF t \in FifoTopic THEN "look" ELSE "save",
                      topic |-> t, group |-> entry.group, dedup |-> DeduplicationId(t, entry),
                      scope |-> ScopeKey(t, entry), content |-> entry.content,
                      id |-> id, sequence |-> 0, at |-> now, rest |-> rest,
                      known |-> SavedIds, looked |-> now])
  /\ UNCHANGED publishTables

Publish(c, t, entry) == Ready(c) /\ Begin(c, t, entry, <<>>)

(* A message for a phone or a platform endpoint is saved and goes nowhere. *)
PublishToTarget(c, content) ==
  /\ Ready(c)
  /\ \E id \in MessageId \ UsedIds :
       /\ \A other \in MessageId \ UsedIds : id <= other
       /\ messages' = messages \cup
            {[id |-> id, topic |-> None, group |-> None, dedup |-> NoId, scope |-> <<>>,
              sequence |-> 0, at |-> now, content |-> content, known |-> SavedIds, looked |-> now]}
  /\ UNCHANGED <<tables, request, attempts, now, handed>>

PublishBatch(c, t, batch) ==
  /\ Ready(c) /\ t \in DOMAIN topics
  /\ Proceed(c, Rest(t, batch))
  /\ UNCHANGED publishTables

(* An entry that cannot be published is reported, and the next one comes. *)
NextEntry(c) ==
  /\ At(c, "next entry")
  /\ LET t == request[c].topic
         entry == Head(request[c].rest)
         rest == Tail(request[c].rest)
     IN  \/ Begin(c, t, entry, rest)
         \/ /\ ~(t \in DOMAIN topics /\ Accepts(t, entry))
            /\ Proceed(c, Rest(t, rest)) /\ UNCHANGED publishTables

FailPublish(c) ==
  /\ Publishing(request[c]) \/ At(c, "next entry")
  /\ Proceed(c, IF At(c, "next entry") THEN Idle ELSE Rest(request[c].topic, request[c].rest))
  /\ UNCHANGED publishTables

(* The saved messages that r repeats, since a time.  Time is in seconds.   *)
Repeated(r, since) ==
  {m \in messages : m.topic = r.topic /\ m.scope = r.scope /\ m.dedup = r.dedup /\ m.at >= since}

(* What the query may find.  It compares times as text, whose fraction of  *)
(* a second loses its trailing zeros, so within the second in which the    *)
(* window begins an earlier time may be the greater text.                  *)
Duplicates(r) == Repeated(r, now - Window)

(* Mistaken variant of SureDuplicates: the window is a second shorter. *)
SureDuplicatesWithin(r) == Repeated(r, now - Window + 2)

(* What it finds in any case: messages of a later second. *)
SureDuplicates(r) == Repeated(r, now - Window + 1)

(* Mistaken variant of LookForDuplicate: a duplicate is saved, with the    *)
(* message id that it is answered with.                                    *)
LookAndSave(c) ==
  /\ At(c, "look")
  /\ \/ \E m \in Duplicates(request[c]) : Proceed(c, [request[c] EXCEPT !.step = "save", !.id = m.id])
     \/ /\ SureDuplicates(request[c]) = {}
        /\ Proceed(c, [request[c] EXCEPT !.step = "sequence", !.looked = now])
  /\ UNCHANGED publishTables

(* A duplicate is answered with the message it repeats, and is not saved. *)
LookForDuplicate(c) ==
  /\ At(c, "look")
  /\ \/ Duplicates(request[c]) # {} /\ Proceed(c, Rest(request[c].topic, request[c].rest))
     \/ /\ SureDuplicates(request[c]) = {}
        /\ Proceed(c, [request[c] EXCEPT !.step = "sequence", !.looked = now])
  /\ UNCHANGED publishTables

(* Mistaken variant of TakeSequence: numbers of each group on its own. *)
TakeGroupSequence(c) ==
  /\ At(c, "sequence")
  /\ Proceed(c, [request[c] EXCEPT !.step = "save",
                   !.sequence = Cardinality({m \in messages : m.topic = request[c].topic
                                                                /\ m.group = request[c].group}) + 1])
  /\ UNCHANGED publishTables

(* One more than the largest of the topic, of any group and of any life of *)
(* the topic.                                                              *)
TakeSequence(c) ==
  /\ At(c, "sequence")
  /\ LET numbers == {m.sequence : m \in {n \in messages : n.topic = request[c].topic}} \cup {0}
     IN  \E largest \in numbers :
           /\ \A other \in numbers : other <= largest
           /\ Proceed(c, [request[c] EXCEPT !.step = "save", !.sequence = largest + 1])
  /\ UNCHANGED publishTables

SaveMessage(c) ==
  /\ At(c, "save")
  /\ LET r == request[c]
     IN  /\ messages' = messages \cup
              {[id |-> r.id, topic |-> r.topic, group |-> r.group, dedup |-> r.dedup, scope |-> r.scope,
                sequence |-> r.sequence, at |-> r.at, content |-> r.content,
                known |-> r.known, looked |-> r.looked]}
         /\ Goto(c, [step |-> "list", topic |-> r.topic, content |-> r.content, id |-> r.id,
                     rest |-> r.rest, after |-> 0, page |-> <<>>, more |-> TRUE, to |-> 0, status |-> None])
  /\ UNCHANGED <<tables, attempts, now, handed>>
-----------------------------------------------------------------------------
(* Delivery.  r goes on with what is left of its page, then with the next  *)
(* page, then it is answered.                                              *)
Onward(r, page, after, more) ==
  [r EXCEPT !.step = IF DOMAIN page # {} THEN "deliver" ELSE IF more THEN "list" ELSE "answer",
            !.page = page, !.after = after, !.more = more]

(* The rows of t after an ARN, in the order of ARNs, PageSize at most. *)
PageOf(t, after) ==
  LET left == {a \in Of(t) : a > after}
  IN  {a \in left : Cardinality({b \in left : b < a}) < PageSize}

(* The rows of a page that are delivered to. *)
ConfirmedRows(arns) == Restrict(subscriptions, {a \in arns : subscriptions[a].status = "Confirmed"})

(* Mistaken variant of ListPage: the token of the last page is not kept. *)
ListPageAgain(c) ==
  /\ At(c, "list")
  /\ LET r == request[c]
         listed == PageOf(r.topic, r.after)
         more == \E a \in Of(r.topic) : a > r.after /\ a \notin listed
     IN  Proceed(c, Onward(r, ConfirmedRows(listed), r.after + 1, more))
  /\ UNCHANGED publishTables

(* One SELECT: what the rows say now is what is delivered by. *)
ListPage(c) ==
  /\ At(c, "list")
  /\ LET r == request[c]
         listed == PageOf(r.topic, r.after)
     IN  \E last \in listed \cup {r.after} :
           /\ \A a \in listed : a <= last
           /\ Proceed(c, Onward(r, ConfirmedRows(listed), last, \E a \in Of(r.topic) : a > last))
  /\ UNCHANGED publishTables

Reaches(e) == (e \in SqsEndpoint \ Nameless /\ Bridge) \/ e \in LocalHttp

(* Mistaken variant of Outcomes: the filter is not asked. *)
OutcomesUnfiltered(row, content) ==
  IF ~Reaches(row.endpoint) THEN {<<"Skipped", FALSE>>}
  ELSE {<<"Delivered", TRUE>>, <<"Failed", FALSE>>, <<"Failed", TRUE>>}

(* The status of an attempt, and whether the endpoint was given the        *)
(* message: an endpoint that was may still answer with an error, or late.  *)
Outcomes(row, content) ==
  IF FilterFails(row.filter) \/ (row.endpoint \in Nameless /\ EvaluateFilter(row.filter, content))
  THEN {<<"Failed", FALSE>>}
  ELSE IF ~EvaluateFilter(row.filter, content) THEN {<<"FilteredOut", FALSE>>}
  ELSE IF ~Reaches(row.endpoint) THEN {<<"Skipped", FALSE>>}
  ELSE {<<"Delivered", TRUE>>, <<"Failed", FALSE>>, <<"Failed", TRUE>>}

(* The subscriptions of a page are taken in the order of their ARNs. *)
Deliver(c) ==
  /\ At(c, "deliver")
  /\ LET r == request[c]
     IN  \E a \in DOMAIN r.page : \E outcome \in Outcomes(r.page[a], r.content) :
           /\ \A b \in DOMAIN r.page : a <= b
           /\ handed' = IF outcome[2] THEN handed \cup {<<r.id, a>>} ELSE handed
           /\ Goto(c, [r EXCEPT !.step = "record", !.to = a, !.status = outcome[1]])
  /\ UNCHANGED <<tables, messages, attempts, now>>

RecordAttempt(c) ==
  /\ At(c, "record")
  /\ LET r == request[c]
     IN  /\ attempts' = attempts \cup {[message |-> r.id, subscription |-> r.to, status |-> r.status]}
         /\ Goto(c, Onward([r EXCEPT !.to = 0, !.status = None], Deleted(r.page, {r.to}), r.after, r.more))
  /\ UNCHANGED <<tables, messages, now, handed>>

Tick ==
  /\ now < MaxNow /\ now' = now + 1
  /\ UNCHANGED <<tables, request, messages, attempts, handed>>

Answer(c) ==
  /\ At(c, "answer")
  /\ Proceed(c, Rest(request[c].topic, request[c].rest))
  /\ UNCHANGED publishTables
-----------------------------------------------------------------------------
PublishProgress(c) ==
  \/ NextEntry(c) \/ LookForDuplicate(c) \/ TakeSequence(c) \/ SaveMessage(c)
  \/ ListPage(c) \/ Deliver(c) \/ RecordAttempt(c) \/ Answer(c) \/ FailPublish(c)

PublishStep(c) ==
  \/ \E t \in Topic, entry \in Entry : Publish(c, t, entry)
  \/ \E t \in Topic, batch \in Batches : PublishBatch(c, t, batch)
  \/ \E content \in Content : PublishToTarget(c, content)
  \/ PublishProgress(c)

RowStep(c) == (TopicStep(c) \/ SubscriptionStep(c) \/ Fail(c)) /\ UNCHANGED publishTables

Attempted(id) == {a.subscription : a \in {b \in attempts : b.message = id}}

(* While a publish lists and delivers, who is confirmed, and who wants the *)
(* message.                                                                *)
ConfirmedOn(t) == {a \in Of(t) : subscriptions[a].status = "Confirmed"}

Wants(r) ==
  {a \in ConfirmedOn(r.topic) :
     ~FilterFails(subscriptions[a].filter) /\ EvaluateFilter(subscriptions[a].filter, r.content)}

ObservePublish ==
  /\ Observe
  /\ steady' = [c \in Client |->
       IF ~Dispatching(request'[c]) THEN {}
       ELSE IF Dispatching(request[c]) THEN steady[c] \cap ConfirmedOn(request[c].topic)'
       ELSE ConfirmedOn(request[c].topic)']
  /\ wanting' = [c \in Client |->
       IF ~Dispatching(request'[c]) THEN {} ELSE wanting[c] \cup Wants(request[c])']
  /\ missed' = missed \cup
       UNION {{<<request[c].id, a>> : a \in steady[c] \ Attempted(request[c].id)'}
                : c \in {d \in Client : Dispatching(request[d]) /\ request'[d].step = "answer"}}

PublishNext == (Tick \/ \E c \in Client : PublishStep(c) \/ RowStep(c)) /\ ObservePublish

PublishSpec == PublishInit /\ [][PublishNext]_publishVars
-----------------------------------------------------------------------------
Message == [id : MessageId, topic : Topic \cup {None}, group : Group \cup {None},
            dedup : DedupId \cup {NoId} \cup {HashOf(content) : content \in Content},
            scope : {<<>>} \cup {<<t>> : t \in Topic} \cup (Topic \X Group),
            sequence : Nat, at : 0 .. MaxNow, content : Content,
            known : SUBSET MessageId, looked : 0 .. MaxNow]

PublishTypeOK ==
  /\ TopicsTypeOK
  /\ messages \subseteq Message /\ \A m, n \in messages : m.id = n.id => m = n
  /\ attempts \subseteq [message : SavedIds, subscription : drawn,
                         status : {"Delivered", "Failed", "FilteredOut", "Skipped"}]
  /\ handed \subseteq SavedIds \X drawn

(* A deduplication id is accepted once in its window and scope, in any     *)
(* group of a topic that deduplicates as a whole, after failed deliveries  *)
(* and in later lives of the topic: a second message is saved only if its  *)
(* publish began before the first was saved.  The second in which the      *)
(* window ends is not promised: see Duplicates.                            *)
OnlyOverlappingPublishesRepeat ==
  \A m, n \in messages :
    /\ m.id \in n.known /\ m.topic \in FifoTopic
    /\ m.topic = n.topic /\ m.scope = n.scope /\ m.dedup = n.dedup
    => n.looked - m.at >= Window

(* The messages of a FIFO topic are numbered in the order they were        *)
(* published, over all its groups and lives, as far as their publishes did *)
(* not overlap.                                                            *)
SequencesIncrease ==
  \A m, n \in messages :
    m.id \in n.known /\ m.topic = n.topic /\ m.topic \in FifoTopic => m.sequence < n.sequence

(* A publish that is answered was tried at every subscription that was     *)
(* confirmed from its first page to its last; and no subscription gets a   *)
(* message again, however subscriptions come and go between the pages.     *)
EverySubscriberOnce ==
  /\ missed = {}
  /\ \A c \in Client : At(c, "deliver") =>
       \A a \in DOMAIN request[c].page :
         <<request[c].id, a>> \notin handed /\ a \notin Attempted(request[c].id)

(* A message is handed only to a subscription that, at some moment since   *)
(* its publish began to list them, was confirmed, had a filter that lets   *)
(* it through, and belonged to its topic.                                  *)
HandedToSubscribers ==
  [][\A pair \in handed' \ handed :
       \E c \in Client : At(c, "deliver") /\ request[c].id = pair[1] /\ pair[2] \in wanting[c]
    ]_publishVars
=============================================================================
