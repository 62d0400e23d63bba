--------------------------- MODULE SnsPublishProofs ---------------------------
(***************************************************************************)
(* Theorems about SnsPublish: publishes among the requests of SnsTopics,   *)
(* for any number of them, of messages and of subscriptions.               *)
(***************************************************************************)
EXTENDS SnsPublish, SnsProofs

(* A publish before its message is saved, and after.                       *)
Draft ==
  [step : {"look", "sequence", "save"}, topic : Topic, group : Group \cup {None},
   dedup : DedupId \cup {NoId} \cup {HashOf(content) : content \in Content},
   scope : {<<>>} \cup {<<t>> : t \in Topic} \cup (Topic \X Group),
   content : Content, id : MessageId, sequence : Nat, at : 0 .. MaxNow, rest : Seq(Entry),
   known : SUBSET MessageId, looked : 0 .. MaxNow]

Page == UNION {[arns -> Subscription] : arns \in SUBSET Arn}
Status == {"Delivered", "Failed", "FilteredOut", "Skipped"}

Dispatch ==
  [step : {"list", "deliver", "record", "answer"}, topic : Topic, content : Content, id : MessageId,
   rest : Seq(Entry), after : 0 .. MaxArn, page : Page, more : BOOLEAN,
   to : 0 .. MaxArn, status : Status \cup {None}]

Drafting(r) == r.step \in {"look", "sequence", "save"}

(* What the request of a publish carries.                                  *)
PublishOK(r) ==
  /\ Drafting(r) => r \in Draft
  /\ Dispatching(r) \/ r.step = "answer" => r \in Dispatch /\ DOMAIN r.page \subseteq drawn
  /\ r.step = "record" => r.status \in Status /\ r.to \in DOMAIN r.page
  /\ r.step = "list" => DOMAIN r.page = {}
  /\ r.step = "next entry" => r.topic \in Topic /\ r.rest \in Seq(Entry) /\ r.rest # <<>>

PublishTypesInv ==
  /\ PublishTypeOK /\ now \in 0 .. MaxNow
  /\ \A c \in Client : PublishOK(request[c])
  /\ DOMAIN steady = Client /\ DOMAIN wanting = Client

(* Ids: no two messages, or publishes that are under way, have the same    *)
(* one; what a publish knew when it began was saved before it.             *)
IdsInv ==
  /\ \A c \in Client : Drafting(request[c]) =>
       request[c].id \notin SavedIds /\ request[c].known \subseteq SavedIds
  /\ \A c \in Client : Dispatching(request[c]) \/ At(c, "answer") => request[c].id \in SavedIds
  /\ \A c, d \in Client : Publishing(request[c]) /\ Publishing(request[d]) /\ c # d => request[c].id # request[d].id
  /\ \A m \in messages : m.known \subseteq SavedIds \ {m.id}

(* A publish to a FIFO topic that has looked for duplicates: those it knew *)
(* of are as old as the window; its number is larger than theirs.          *)
RepeatInv ==
  \A c \in Client : request[c].step \in {"sequence", "save"} /\ request[c].topic \in FifoTopic =>
    \A m \in messages :
      /\ m.id \in request[c].known
      /\ m.topic = request[c].topic /\ m.scope = request[c].scope /\ m.dedup = request[c].dedup
      => request[c].looked - m.at >= Window

SequenceInv ==
  \A c \in Client : At(c, "save") /\ request[c].topic \in FifoTopic =>
    \A m \in messages :
      m.id \in request[c].known /\ m.topic = request[c].topic => m.sequence < request[c].sequence

(* The subscriptions up to the last one listed were tried or are in the    *)
(* page, and no other was; after the last page there is no other.          *)
Handed(id) == {pair[2] : pair \in {p \in handed : p[1] = id}}

TriedInv(c) ==
  LET r == request[c]
      tried == Attempted(r.id)
      open == IF At(c, "record") THEN DOMAIN r.page \ {r.to} ELSE DOMAIN r.page
  IN  /\ steady[c] \subseteq ConfirmedOn(r.topic)
      /\ \A a \in steady[c] : a <= r.after => a \in tried \cup DOMAIN r.page
      /\ ~r.more => \A a \in steady[c] : a <= r.after
      /\ \A a \in tried : a <= r.after /\ a \notin DOMAIN r.page
      /\ \A a \in Handed(r.id) : a <= r.after /\ a \notin open
      /\ \A a \in DOMAIN r.page : a <= r.after

Wanted(row, content) == ~FilterFails(row.filter) /\ EvaluateFilter(row.filter, content)

WantedInv(c) ==
  LET r == request[c]
  IN  \A a \in DOMAIN r.page : Wanted(r.page[a], r.content) => a \in wanting[c]

DispatchInv ==
  /\ missed = {}
  /\ \A c \in Client : Dispatching(request[c]) => TriedInv(c) /\ WantedInv(c)

PublishInv ==
  /\ TopicsInv /\ PublishTypesInv /\ IdsInv /\ RepeatInv /\ SequenceInv /\ DispatchInv
  /\ OnlyOverlappingPublishesRepeat /\ SequencesIncrease
-----------------------------------------------------------------------------
(* The steps of a publish, by what they change.                            *)
Quiet == UNCHANGED <<messages, attempts, handed>>

Begins(c) ==
  LET r == request'[c]
  IN  /\ ~Publishing(request[c]) /\ r.step \in {"look", "save"} /\ r \in Draft
      /\ r.topic \in FifoTopic => r.step = "look"
      /\ r.id \notin UsedIds /\ r.known = SavedIds
      /\ Quiet

Alike(r, s) ==
  /\ r.id = s.id /\ r.topic = s.topic /\ r.scope = s.scope /\ r.dedup = s.dedup
  /\ r.at = s.at /\ r.known = s.known

Looks(c) ==
  /\ At(c, "look") /\ request'[c].step = "sequence" /\ request'[c] \in Draft
  /\ Alike(request'[c], request[c]) /\ request'[c].looked = now
  /\ SureDuplicates(request[c]) = {} /\ Quiet

Takes(c) ==
  /\ At(c, "sequence") /\ request'[c].step = "save" /\ request'[c] \in Draft
  /\ Alike(request'[c], request[c]) /\ request'[c].looked = request[c].looked
  /\ \A m \in messages : m.topic = request[c].topic => m.sequence < request'[c].sequence
  /\ Quiet

Saves(c, m) ==
  LET r == request[c]
      s == request'[c]
  IN  /\ At(c, "save") /\ messages' = messages \cup {m} /\ UNCHANGED <<attempts, handed>>
      /\ m \in Message /\ Alike(m, r) /\ m.looked = r.looked /\ m.sequence = r.sequence
      /\ s.step = "list" /\ s \in Dispatch
      /\ s.id = r.id /\ s.topic = r.topic
      /\ s.after = 0 /\ DOMAIN s.page = {} /\ s.more

Sends(r, s) == r.id = s.id /\ r.topic = s.topic /\ r.content = s.content

Lists(c) ==
  LET r == request[c]
      s == request'[c]
      listed == PageOf(r.topic, r.after)
  IN  /\ At(c, "list") /\ Quiet
      /\ s.step \in {"list", "deliver", "answer"} /\ s \in Dispatch /\ Sends(s, r)
      /\ s.page = ConfirmedRows(listed)
      /\ s.after \in listed \cup {r.after} /\ \A a \in listed : a <= s.after
      /\ s.more = (\E a \in Of(r.topic) : a > s.after)
      /\ s.step \in {"list", "answer"} => DOMAIN s.page = {}
      /\ s.step = "answer" => ~s.more

Delivers(c) ==
  LET r == request[c]
      s == request'[c]
  IN  /\ At(c, "deliver") /\ s.step = "record" /\ s \in Dispatch /\ Sends(s, r)
      /\ s.page = r.page /\ s.after = r.after /\ s.more = r.more
      /\ s.to \in DOMAIN r.page /\ s.status \in Status
      /\ \/ handed' = handed
         \/ handed' = handed \cup {<<r.id, s.to>>} /\ Wanted(r.page[s.to], r.content)
      /\ UNCHANGED <<messages, attempts>>

Records(c) ==
  LET r == request[c]
      s == request'[c]
  IN  /\ At(c, "record") /\ UNCHANGED <<messages, handed>>
      /\ attempts' = attempts \cup {[message |-> r.id, subscription |-> r.to, status |-> r.status]}
      /\ s.step \in {"list", "deliver", "answer"} /\ s \in Dispatch /\ Sends(s, r)
      /\ s.page = Deleted(r.page, {r.to}) /\ s.after = r.after /\ s.more = r.more
      /\ s.step \in {"list", "answer"} => DOMAIN s.page = {}
      /\ s.step = "answer" => ~s.more

(* To a target, without a request of more than one statement.              *)
Aims(m) ==
  /\ request' = request /\ UNCHANGED <<attempts, handed>>
  /\ messages' = messages \cup {m} /\ m \in Message /\ m.topic = None
  /\ m.id \notin UsedIds /\ m.known = SavedIds

(* The request of c is no publish with an id afterwards.                   *)
Leaves(c) ==
  /\ ~Publishing(request'[c]) /\ Quiet
  /\ request'[c].step = "next entry" =>
       request'[c].topic \in Topic /\ request'[c].rest \in Seq(Entry) /\ request'[c].rest # <<>>

Ends(c) == Leaves(c) /\ request'[c].step \in {"idle", "next entry"}

Works(c) ==
  \/ Begins(c) \/ Looks(c) \/ Takes(c) \/ (\E m \in Message : Saves(c, m))
  \/ Lists(c) \/ Delivers(c) \/ Records(c)

-----------------------------------------------------------------------------
(* The request that moves, and those that do not.                          *)
LEMMA Moves ==
  ASSUME DOMAIN request = Client, NEW c \in Client, NEW next, Goto(c, next)
  PROVE  /\ DOMAIN request' = Client /\ request'[c] = next
         /\ \A d \in Client \ {c} : request'[d] = request[d]
  BY DEF Goto

LEMMA BeginsKind ==
  ASSUME PublishTypesInv, DOMAIN request = Client, NEW c \in Client, NEW t \in Topic, NEW entry \in Entry,
         NEW rest \in Seq(Entry), ~Publishing(request[c]), Begin(c, t, entry, rest)
  PROVE  Begins(c)
  <1> DEFINE next(id) ==
        [step |-> IF t \in FifoTopic THEN "look" ELSE "save",
         topic |-> t, group |-> entry.group, dedup |-> DeduplicationId(t, entry),
         scope |-> ScopeKey(t, entry), content |-> entry.content,
         id |-> id, sequence |-> 0, at |-> now, rest |-> rest, known |-> SavedIds, looked |-> now]
  <1>1. PICK id \in MessageId \ UsedIds : Goto(c, next(id)) /\ UNCHANGED publishTables
    BY DEF Begin, Proceed
  <1>2. entry.group \in Group \cup {None} /\ entry.content \in Content /\ entry.dedup \in DedupId \cup {NoId}
    BY DEF Entry
  <1>3. DeduplicationId(t, entry) \in DedupId \cup {NoId} \cup {HashOf(content) : content \in Content}
    BY <1>2 DEF DeduplicationId
  <1>4. ScopeKey(t, entry) \in {<<>>} \cup {<<s>> : s \in Topic} \cup (Topic \X Group)
    <2>1. t \in FifoTopic => entry.group \in Group
      BY <1>2 DEF Begin, Accepts
    <2> QED
      BY <2>1 DEF ScopeKey
  <1>5. SavedIds \subseteq MessageId /\ now \in 0 .. MaxNow
    BY DEF PublishTypesInv, PublishTypeOK, Message, SavedIds
  <1>6. next(id) \in Draft
    BY <1>2, <1>3, <1>4, <1>5 DEF Draft
  <1>7. /\ next(id).step = (IF t \in FifoTopic THEN "look" ELSE "save") /\ next(id).topic = t
        /\ next(id).id = id /\ next(id).known = SavedIds
    OBVIOUS
  <1> HIDE DEF next
  <1>8. request'[c] = next(id)
    BY <1>1, Moves
  <1> QED
    BY <1>1, <1>6, <1>7, <1>8 DEF Begins, publishTables, Quiet

LEMMA RestNext ==
  ASSUME NEW t \in Topic, NEW rest \in Seq(Entry)
  PROVE  LET next == Rest(t, rest)
         IN  /\ next.step \in {"idle", "next entry"}
             /\ next.step = "next entry" => next.topic \in Topic /\ next.rest \in Seq(Entry) /\ next.rest # <<>>
  BY DEF Rest, Idle

LEMMA RestEnds ==
  ASSUME DOMAIN request = Client, NEW c \in Client, NEW t \in Topic, NEW rest \in Seq(Entry),
         Proceed(c, Rest(t, rest)), Quiet
  PROVE  Ends(c)
  <1>1. request'[c] = Rest(t, rest)
    BY Moves DEF Proceed
  <1> HIDE DEF Rest
  <1> QED
    BY <1>1, RestNext DEF Ends, Leaves, Publishing, Dispatching

LEMMA LooksKind ==
  ASSUME PublishTypesInv, DOMAIN request = Client, NEW c \in Client, LookForDuplicate(c)
  PROVE  Looks(c) \/ Ends(c)
  <1> DEFINE r == request[c]
             next == [r EXCEPT !.step = "sequence", !.looked = now]
  <1>1. r \in Draft /\ r.step = "look" /\ now \in 0 .. MaxNow
    BY DEF LookForDuplicate, At, PublishTypesInv, PublishOK, Drafting
  <1>2. Quiet
    BY DEF LookForDuplicate, publishTables, Quiet
  <1>3. CASE Proceed(c, Rest(r.topic, r.rest))
    BY <1>1, <1>2, <1>3, RestEnds DEF Draft
  <1>4. CASE SureDuplicates(r) = {} /\ Proceed(c, next)
    <2>1. next \in Draft
      BY <1>1 DEF Draft
    <2>2. next.step = "sequence" /\ next.looked = now /\ Alike(next, r)
      BY <1>1 DEF Draft, Alike
    <2>3. Goto(c, next)
      BY <1>4 DEF Proceed
    <2> HIDE DEF next
    <2>4. request'[c] = next
      BY <2>3, Moves
    <2> QED
      BY <1>1, <1>2, <1>4, <2>1, <2>2, <2>4 DEF Looks, At
  <1> QED
    BY <1>3, <1>4 DEF LookForDuplicate

LEMMA TakesKind ==
  ASSUME PublishTypesInv, DOMAIN request = Client, NEW c \in Client, TakeSequence(c)
  PROVE  Takes(c)
  <1> DEFINE r == request[c]
             numbers == {m.sequence : m \in {n \in messages : n.topic = r.topic}} \cup {0}
             next(n) == [r EXCEPT !.step = "save", !.sequence = n + 1]
  <1>1. r \in Draft /\ At(c, "sequence") /\ Quiet
    BY DEF TakeSequence, At, PublishTypesInv, PublishOK, Drafting, publishTables, Quiet
  <1>2. PICK largest \in numbers : (\A other \in numbers : other <= largest) /\ Goto(c, next(largest))
    BY DEF TakeSequence, Proceed
  <1>3. numbers \subseteq Nat /\ \A m \in messages : m.topic = r.topic => m.sequence \in numbers
    BY DEF PublishTypesInv, PublishTypeOK, Message
  <1> HIDE DEF numbers
  <1>4. largest \in Nat /\ largest + 1 \in Nat
    BY <1>2, <1>3
  <1>5. /\ next(largest) \in Draft
        /\ next(largest).step = "save" /\ Alike(next(largest), r) /\ next(largest).looked = r.looked
        /\ next(largest).sequence = largest + 1
    BY <1>1, <1>4 DEF Draft, Alike
  <1>6. \A m \in messages : m.topic = r.topic => m.sequence < largest + 1
    BY <1>2, <1>3, <1>4
  <1> HIDE DEF next
  <1>7. request'[c] = next(largest)
    BY <1>2, Moves
  <1> QED
    BY <1>1, <1>5, <1>6, <1>7 DEF Takes

LEMMA SavesKind ==
  ASSUME PublishTypesInv, DOMAIN request = Client, NEW c \in Client, SaveMessage(c)
  PROVE  \E m \in Message : Saves(c, m)
  <1> DEFINE r == request[c]
             m == [id |-> r.id, topic |-> r.topic, group |-> r.group, dedup |-> r.dedup, scope |-> r.scope,
                   sequence |-> r.sequence, at |-> r.at, content |-> r.content,
                   known |-> r.known, looked |-> r.looked]
             next == [step |-> "list", topic |-> r.topic, content |-> r.content, id |-> r.id,
                      rest |-> r.rest, after |-> 0, page |-> <<>>, more |-> TRUE, to |-> 0, status |-> None]
  <1>1. r \in Draft /\ At(c, "save")
    BY DEF SaveMessage, At, PublishTypesInv, PublishOK, Drafting
  <1>2. m \in Message /\ Alike(m, r) /\ m.looked = r.looked /\ m.sequence = r.sequence
    BY <1>1 DEF Draft, Message, Alike
  <1>3. next \in Dispatch
    <2>1. <<>> \in Page
      <3>1. <<>> \in [{} -> Subscription] /\ {} \in SUBSET Arn
        OBVIOUS
      <3> QED
        BY <3>1 DEF Page
    <2> QED
      BY <1>1, <2>1, TopicAssumption DEF Draft, Dispatch
  <1>4. /\ next.step = "list" /\ next.id = r.id /\ next.topic = r.topic
        /\ next.after = 0 /\ DOMAIN next.page = {} /\ next.more
    OBVIOUS
  <1>5. messages' = messages \cup {m} /\ Goto(c, next) /\ UNCHANGED <<attempts, handed>>
    BY DEF SaveMessage
  <1> HIDE DEF next, m
  <1>6. request'[c] = next
    BY <1>5, Moves
  <1> QED
    BY <1>1, <1>2, <1>3, <1>4, <1>5, <1>6 DEF Saves

LEMMA OnwardNext ==
  ASSUME NEW r \in Dispatch, NEW page \in Page, NEW after \in 0 .. MaxArn, NEW more \in BOOLEAN
  PROVE  LET next == Onward(r, page, after, more)
         IN  /\ next \in Dispatch /\ Sends(next, r)
             /\ next.page = page /\ next.after = after /\ next.more = more
             /\ next.step \in {"list", "deliver", "answer"}
             /\ next.step \in {"list", "answer"} => DOMAIN page = {}
             /\ next.step = "answer" => ~more
             /\ next.to = r.to /\ next.status = r.status
  <1> DEFINE step == IF DOMAIN page # {} THEN "deliver" ELSE IF more THEN "list" ELSE "answer"
             next == [r EXCEPT !.step = step, !.page = page, !.after = after, !.more = more]
  <1>1. /\ step \in {"list", "deliver", "answer"}
        /\ step \in {"list", "answer"} => DOMAIN page = {}
        /\ step = "answer" => ~more
    OBVIOUS
  <1>2. Onward(r, page, after, more) = next
    BY DEF Onward
  <1> HIDE DEF step
  <1>3. next \in Dispatch
    BY <1>1 DEF Dispatch
  <1>4. /\ next.page = page /\ next.after = after /\ next.more = more /\ next.step = step
        /\ next.to = r.to /\ next.status = r.status
        /\ next.id = r.id /\ next.topic = r.topic /\ next.content = r.content
    BY DEF Dispatch
  <1> HIDE DEF next
  <1> QED
    BY <1>1, <1>2, <1>3, <1>4 DEF Sends

(* The rows of a page: confirmed subscriptions of the topic.               *)
LEMMA ConfirmedRowsOf ==
  ASSUME TopicsInv, NEW t, NEW after
  PROVE  LET listed == PageOf(t, after)
             page == ConfirmedRows(listed)
         IN  /\ listed \subseteq Of(t) /\ Of(t) \subseteq Arn /\ page \in Page
             /\ DOMAIN page = {a \in listed : subscriptions[a].status = "Confirmed"}
             /\ DOMAIN page \subseteq drawn
             /\ \A a \in DOMAIN page : page[a] = subscriptions[a]
  <1> DEFINE listed == PageOf(t, after)
             arns == {a \in listed : subscriptions[a].status = "Confirmed"}
  <1>1. listed \subseteq Of(t) /\ Of(t) \subseteq DOMAIN subscriptions
    BY DEF PageOf, Of
  <1>2. DOMAIN subscriptions \subseteq drawn /\ drawn \subseteq Arn
    BY DEF TopicsInv, TypesInv, TopicsTypeOK
  <1>3. \A a \in arns : subscriptions[a] \in Subscription
    BY <1>1 DEF TopicsInv, TypesInv, TopicsTypeOK
  <1>4. ConfirmedRows(listed) = [a \in arns |-> subscriptions[a]]
    BY DEF ConfirmedRows, Restrict
  <1>5. arns \in SUBSET Arn
    BY <1>1, <1>2
  <1> HIDE DEF listed, arns
  <1>6. [a \in arns |-> subscriptions[a]] \in [arns -> Subscription]
    BY <1>3
  <1>7. [a \in arns |-> subscriptions[a]] \in Page
    BY <1>5, <1>6 DEF Page
  <1> QED
    BY <1>1, <1>2, <1>4, <1>7 DEF listed, arns

LEMMA ListsKind ==
  ASSUME TopicsInv, PublishTypesInv, DOMAIN request = Client, NEW c \in Client, ListPage(c)
  PROVE  Lists(c)
  <1> DEFINE r == request[c]
             listed == PageOf(r.topic, r.after)
             page == ConfirmedRows(listed)
             more(last) == \E a \in Of(r.topic) : a > last
  <1>1. r \in Dispatch /\ At(c, "list") /\ Quiet
    BY DEF ListPage, At, PublishTypesInv, PublishOK, Dispatching, publishTables, Quiet
  <1>2. PICK last \in listed \cup {r.after} :
          (\A a \in listed : a <= last) /\ Goto(c, Onward(r, page, last, more(last)))
    BY DEF ListPage, Proceed
  <1>3. page \in Page /\ listed \subseteq Arn
    BY ConfirmedRowsOf
  <1>4. last \in 0 .. MaxArn
    BY <1>1, <1>2, <1>3, TopicAssumption DEF Dispatch, Arn
  <1>5. more(last) \in BOOLEAN
    OBVIOUS
  <1>6. request'[c] = Onward(r, page, last, more(last))
    BY <1>2, Moves
  <1> HIDE DEF listed, page, more
  <1>7. LET next == request'[c]
        IN  /\ next \in Dispatch /\ Sends(next, r)
            /\ next.page = page /\ next.after = last /\ next.more = more(last)
            /\ next.step \in {"list", "deliver", "answer"}
            /\ next.step \in {"list", "answer"} => DOMAIN page = {}
            /\ next.step = "answer" => ~more(last)
    BY <1>1, <1>3, <1>4, <1>5, <1>6, OnwardNext
  <1> QED
    BY <1>1, <1>2, <1>7 DEF Lists, listed, page, more

LEMMA OutcomesOf ==
  ASSUME NEW row, NEW content, NEW outcome \in Outcomes(row, content)
  PROVE  outcome[1] \in Status /\ (outcome[2] => Wanted(row, content))
  <1>1. ASSUME NEW status, NEW given, outcome = <<status, given>>
        PROVE  outcome[1] = status
    BY <1>1
  <1>2. ASSUME NEW status, outcome = <<status, FALSE>>
        PROVE  ~outcome[2]
    BY <1>2
  <1>3. \/ outcome \in {<<"Failed", FALSE>>, <<"FilteredOut", FALSE>>, <<"Skipped", FALSE>>}
        \/ Wanted(row, content) /\ outcome \in {<<"Delivered", TRUE>>, <<"Failed", FALSE>>, <<"Failed", TRUE>>}
    BY Zenon DEF Outcomes, Wanted
  <1>4. outcome[1] \in Status
    <2>1. /\ "Delivered" \in Status /\ "Failed" \in Status
          /\ "FilteredOut" \in Status /\ "Skipped" \in Status
      BY DEF Status
    <2>2. \E status \in Status : outcome \in {<<status, TRUE>>, <<status, FALSE>>}
      BY <1>3, <2>1, Zenon
    <2> QED
      BY <1>1, <2>2, Zenon
  <1>5. outcome[2] => Wanted(row, content)
    BY <1>2, <1>3, Zenon
  <1> QED
    BY <1>4, <1>5

LEMMA DeliversKind ==
  ASSUME PublishTypesInv, DOMAIN request = Client, NEW c \in Client, Deliver(c)
  PROVE  Delivers(c)
  <1> DEFINE r == request[c]
             next(a, status) == [r EXCEPT !.step = "record", !.to = a, !.status = status]
  <1>1. r \in Dispatch /\ At(c, "deliver") /\ UNCHANGED <<messages, attempts>>
    BY DEF Deliver, At, PublishTypesInv, PublishOK, Dispatching
  <1>a. PICK a \in DOMAIN r.page : \E outcome \in Outcomes(r.page[a], r.content) :
          /\ handed' = IF outcome[2] THEN handed \cup {<<r.id, a>>} ELSE handed
          /\ Goto(c, next(a, outcome[1]))
    BY DEF Deliver
  <1>2. PICK outcome \in Outcomes(r.page[a], r.content) :
          /\ handed' = IF outcome[2] THEN handed \cup {<<r.id, a>>} ELSE handed
          /\ Goto(c, next(a, outcome[1]))
    BY <1>a
  <1>3. outcome[1] \in Status /\ (outcome[2] => Wanted(r.page[a], r.content))
    BY <1>2, OutcomesOf
  <1> DEFINE status == outcome[1]
  <1>4. a \in 0 .. MaxArn
    BY <1>1, <1>2, TopicAssumption DEF Dispatch, Page, Arn
  <1> HIDE DEF status
  <1>5. /\ next(a, status) \in Dispatch /\ next(a, status).step = "record" /\ Sends(next(a, status), r)
        /\ next(a, status).page = r.page /\ next(a, status).after = r.after /\ next(a, status).more = r.more
        /\ next(a, status).to = a /\ next(a, status).status = status
    BY <1>1, <1>3, <1>4 DEF Dispatch, Sends, status
  <1> HIDE DEF next
  <1>6. request'[c] = next(a, status)
    BY <1>2, Moves DEF status
  <1> QED
    BY <1>1, <1>2, <1>3, <1>5, <1>6 DEF Delivers, status

LEMMA RecordsKind ==
  ASSUME PublishTypesInv, DOMAIN request = Client, NEW c \in Client, RecordAttempt(c)
  PROVE  Records(c)
  <1> DEFINE r == request[c]
             after == [r EXCEPT !.to = 0, !.status = None]
             page == Deleted(r.page, {r.to})
  <1>1. r \in Dispatch /\ At(c, "record") /\ UNCHANGED <<messages, handed>>
    BY DEF RecordAttempt, At, PublishTypesInv, PublishOK, Dispatching
  <1>2. /\ attempts' = attempts \cup {[message |-> r.id, subscription |-> r.to, status |-> r.status]}
        /\ Goto(c, Onward(after, page, r.after, r.more))
    BY DEF RecordAttempt
  <1>3. after \in Dispatch /\ Sends(after, r)
    <2>1. 0 \in 0 .. MaxArn /\ None \in Status \cup {None}
      BY TopicAssumption
    <2> QED
      BY <1>1, <2>1 DEF Dispatch, Sends
  <1>4. r.page \in Page /\ r.after \in 0 .. MaxArn /\ r.more \in BOOLEAN
    BY <1>1 DEF Dispatch
  <1>5. page \in Page
    <2>1. PICK arns \in SUBSET Arn : r.page \in [arns -> Subscription]
      BY <1>4 DEF Page
    <2>2. page \in [arns \ {r.to} -> Subscription]
      BY <2>1 DEF Deleted, Restrict
    <2> QED
      BY <2>1, <2>2 DEF Page
  <1>6. request'[c] = Onward(after, page, r.after, r.more)
    BY <1>2, Moves
  <1> HIDE DEF after, page
  <1>7. LET next == request'[c]
        IN  /\ next \in Dispatch /\ Sends(next, after)
            /\ next.page = page /\ next.after = r.after /\ next.more = r.more
            /\ next.step \in {"list", "deliver", "answer"}
            /\ next.step \in {"list", "answer"} => DOMAIN page = {}
            /\ next.step = "answer" => ~r.more
    BY <1>3, <1>4, <1>5, <1>6, OnwardNext
  <1> QED
    BY <1>1, <1>2, <1>3, <1>7 DEF Records, Sends, page

LEMMA AimsKind ==
  ASSUME PublishTypesInv, NEW c \in Client, NEW content \in Content, PublishToTarget(c, content)
  PROVE  \E m \in Message : Aims(m)
  <1> DEFINE m(id) == [id |-> id, topic |-> None, group |-> None, dedup |-> NoId, scope |-> <<>>, sequence |-> 0,
                       at |-> now, content |-> content, known |-> SavedIds, looked |-> now]
  <1>1. PICK id \in MessageId \ UsedIds : messages' = messages \cup {m(id)}
    BY DEF PublishToTarget
  <1>2. request' = request /\ UNCHANGED <<attempts, handed>>
    BY DEF PublishToTarget
  <1>3. SavedIds \subseteq MessageId /\ now \in 0 .. MaxNow
    BY DEF PublishTypesInv, PublishTypeOK, Message, SavedIds
  <1>4. m(id) \in Message
    BY <1>3 DEF Message
  <1>5. m(id).topic = None /\ m(id).id = id /\ m(id).known = SavedIds
    OBVIOUS
  <1> HIDE DEF m
  <1> QED
    BY <1>1, <1>2, <1>4, <1>5 DEF Aims

(* A step of a publish is one of these, and leaves the tables alone.       *)
LEMMA PublishKinds ==
  ASSUME TopicsInv, PublishTypesInv, NEW c \in Client, PublishStep(c)
  PROVE  Works(c) \/ Ends(c) \/ \E m \in Message : Aims(m)
  <1> DEFINE r == request[c]
  <1>0. DOMAIN request = Client /\ <<>> \in Seq(Entry)
    BY DEF TopicsInv, TypesInv
  <1>1. ASSUME NEW t \in Topic, NEW entry \in Entry, Publish(c, t, entry)
        PROVE  Begins(c)
    <2>1. ~Publishing(r)
      BY <1>1 DEF Publish, Ready, At, Publishing, Dispatching
    <2> QED
      BY <1>0, <1>1, <2>1, BeginsKind DEF Publish
  <1>2. ASSUME NEW t \in Topic, NEW batch \in Batches, PublishBatch(c, t, batch)
        PROVE  Ends(c)
    BY <1>0, <1>2, RestEnds, BatchAssumption DEF PublishBatch, publishTables, Quiet
  <1>3. CASE NextEntry(c)
    <2>1. /\ r.topic \in Topic /\ r.rest \in Seq(Entry) /\ r.rest # <<>> /\ ~Publishing(r)
      BY <1>3 DEF NextEntry, At, PublishTypesInv, PublishOK, Publishing, Dispatching
    <2>2. Head(r.rest) \in Entry /\ Tail(r.rest) \in Seq(Entry)
      BY <2>1
    <2>3. CASE Begin(c, r.topic, Head(r.rest), Tail(r.rest))
      BY <1>0, <2>1, <2>2, <2>3, BeginsKind DEF Works
    <2>4. CASE Proceed(c, Rest(r.topic, Tail(r.rest))) /\ UNCHANGED publishTables
      BY <1>0, <2>1, <2>2, <2>4, RestEnds DEF publishTables, Quiet
    <2> QED
      BY <1>3, <2>3, <2>4 DEF NextEntry
  <1>4. CASE FailPublish(c)
    <2>1. CASE At(c, "next entry")
      <3>1. request'[c] = Idle /\ Idle.step = "idle"
        BY <1>0, <1>4, <2>1, Moves DEF FailPublish, Proceed, Idle
      <3> QED
        BY <1>4, <3>1 DEF FailPublish, publishTables, Quiet, Ends, Leaves, Publishing, Dispatching
    <2>2. CASE ~At(c, "next entry")
      <3>1. r \in Draft \/ r \in Dispatch
        BY <1>4, <2>2 DEF FailPublish, Publishing, Drafting, PublishTypesInv, PublishOK
      <3>2. r.topic \in Topic /\ r.rest \in Seq(Entry)
        BY <3>1 DEF Draft, Dispatch
      <3> QED
        BY <1>0, <1>4, <2>2, <3>2, RestEnds DEF FailPublish, publishTables, Quiet
    <2> QED
      BY <2>1, <2>2
  <1>5. CASE Answer(c)
    <2>1. r \in Dispatch
      BY <1>5 DEF Answer, At, PublishTypesInv, PublishOK
    <2>2. r.topic \in Topic /\ r.rest \in Seq(Entry)
      BY <2>1 DEF Dispatch
    <2> QED
      BY <1>0, <1>5, <2>2, RestEnds DEF Answer, publishTables, Quiet
  <1> QED
    BY <1>0, <1>1, <1>2, <1>3, <1>4, <1>5, AimsKind, LooksKind, TakesKind, SavesKind, ListsKind, DeliversKind,
       RecordsKind DEF PublishStep, PublishProgress, Works

LEMMA PublishMoves ==
  ASSUME DOMAIN request = Client, NEW c \in Client, PublishStep(c)
  PROVE  /\ UNCHANGED tables /\ now' = now
         /\ request' = request \/ \E next : Goto(c, next)
  <1> USE DEF Proceed, publishTables
  <1>1. ASSUME NEW t, NEW entry, NEW rest, Begin(c, t, entry, rest)
        PROVE  UNCHANGED tables /\ now' = now /\ \E next : Goto(c, next)
    BY <1>1 DEF Begin
  <1>2. ASSUME NEW t, NEW batch, PublishBatch(c, t, batch)
        PROVE  UNCHANGED tables /\ now' = now /\ \E next : Goto(c, next)
    BY <1>2 DEF PublishBatch
  <1>3. ASSUME NEW content, PublishToTarget(c, content)
        PROVE  UNCHANGED tables /\ now' = now /\ request' = request
    BY <1>3 DEF PublishToTarget
  <1>4. ASSUME LookForDuplicate(c) \/ FailPublish(c) \/ Answer(c) \/ SaveMessage(c) \/ RecordAttempt(c)
        PROVE  UNCHANGED tables /\ now' = now /\ \E next : Goto(c, next)
    BY <1>4 DEF LookForDuplicate, FailPublish, Answer, SaveMessage, RecordAttempt
  <1>5. ASSUME TakeSequence(c)
        PROVE  UNCHANGED tables /\ now' = now /\ \E next : Goto(c, next)
    BY <1>5 DEF TakeSequence
  <1>6. ASSUME ListPage(c)
        PROVE  UNCHANGED tables /\ now' = now /\ \E next : Goto(c, next)
    BY <1>6 DEF ListPage
  <1>7. ASSUME Deliver(c)
        PROVE  UNCHANGED tables /\ now' = now /\ \E next : Goto(c, next)
    BY <1>7 DEF Deliver
  <1>8. ASSUME NextEntry(c)
        PROVE  UNCHANGED tables /\ now' = now /\ \E next : Goto(c, next)
    BY <1>1, <1>8 DEF NextEntry
  <1> QED
    BY <1>1, <1>2, <1>3, <1>4, <1>5, <1>6, <1>7, <1>8 DEF PublishStep, PublishProgress, Publish

-----------------------------------------------------------------------------
(* Topics and subscriptions are as SnsProofs has them, whatever publishes. *)
LEMMA TopicsInvPublish ==
  ASSUME TopicsInv, PublishTypesInv, PublishNext
  PROVE  TopicsInv'
  <1>0. Observe /\ DOMAIN request = Client
    BY DEF PublishNext, ObservePublish, TopicsInv, TypesInv
  <1>1. CASE Tick
    BY <1>0, <1>1, TopicsInvRests DEF Tick
  <1>2. ASSUME NEW c \in Client, RowStep(c)
        PROVE  TopicsInv'
    BY <1>0, <1>2, StepKinds, TopicsInvStep DEF RowStep
  <1>3. ASSUME NEW c \in Client, PublishStep(c)
        PROVE  TopicsInv'
    <2>1. UNCHANGED tables /\ (request' = request \/ \E next : Goto(c, next))
      BY <1>0, <1>3, PublishMoves
    <2>2. CASE request' = request
      BY <1>0, <2>1, <2>2, TopicsInvRests
    <2>3. CASE \E next : Goto(c, next)
      <3>1. PICK next : Goto(c, next)
        BY <2>3
      <3>2. request'[c] = next
        BY <1>0, <3>1, Moves
      <3>3. next.step \notin OwnSteps \/ request' = request
        BY <1>3, <3>2, PublishKinds DEF Works, Ends, Begins, Looks, Takes, Saves, Lists, Delivers, Records, Aims,
           OwnSteps
      <3>4. next.step \notin OwnSteps => Passes(c)
        BY <2>1, <3>1 DEF Passes, GoesOn, tables, Posts
      <3> QED
        BY <1>0, <2>1, <2>2, <3>3, <3>4, TopicsInvStep
    <2> QED
      BY <2>1, <2>2, <2>3
  <1> QED
    BY <1>1, <1>2, <1>3 DEF PublishNext

(* Every other request stays where it is.                                  *)
Others(c) == DOMAIN request' = Client /\ \A d \in Client \ {c} : request'[d] = request[d]

LEMMA ClientSteps ==
  ASSUME TopicsInv, PublishTypesInv, NEW c \in Client, PublishStep(c) \/ RowStep(c)
  PROVE  /\ Others(c) /\ now' = now
         /\ (Works(c) /\ UNCHANGED tables) \/ Leaves(c) \/ \E m \in Message : Aims(m)
  <1>0. DOMAIN request = Client
    BY DEF TopicsInv, TypesInv
  <1>1. CASE PublishStep(c)
    <2>1. UNCHANGED tables /\ now' = now /\ (request' = request \/ \E next : Goto(c, next))
      BY <1>0, <1>1, PublishMoves
    <2>2. Others(c)
      BY <1>0, <2>1, Moves DEF Others
    <2> QED
      BY <1>1, <2>1, <2>2, PublishKinds DEF Ends
  <1>2. CASE RowStep(c)
    <2>1. Others(c)
      BY <1>2, StepKinds, OneMoves DEF RowStep, TopicsInv, Others
    <2>2. request'[c].step \in OwnSteps \cup {"idle"}
      BY <1>2, OwnStepsOnly DEF RowStep, TopicsInv
    <2>3. UNCHANGED publishTables
      BY <1>2 DEF RowStep
    <2>4. Leaves(c)
      BY <2>2, <2>3 DEF Leaves, publishTables, Quiet, OwnSteps, Publishing, Dispatching
    <2> QED
      BY <2>1, <2>3, <2>4 DEF publishTables
  <1> QED
    BY <1>1, <1>2

-----------------------------------------------------------------------------
(* A message that is added is new to all that are there.                   *)
Fresh(m) ==
  /\ m \in Message /\ m.id \notin SavedIds /\ m.known \subseteq SavedIds
  /\ m.topic \in FifoTopic => \A n \in messages :
       n.id \in m.known /\ n.topic = m.topic =>
         /\ n.sequence < m.sequence
         /\ n.scope = m.scope /\ n.dedup = m.dedup => m.looked - n.at >= Window

Adds == messages' = messages \/ \E m : Fresh(m) /\ messages' = messages \cup {m}

LEMMA AddsFresh ==
  ASSUME PublishInv, NEW c \in Client, NEW m \in Message, Saves(c, m) \/ Aims(m)
  PROVE  Fresh(m)
  <1>1. CASE Saves(c, m)
    <2> DEFINE r == request[c]
    <2>1. Drafting(r) /\ r.step = "save"
      BY <1>1 DEF Saves, At, Drafting
    <2>2. r.id \notin SavedIds /\ r.known \subseteq SavedIds
      BY <2>1 DEF PublishInv, IdsInv
    <2>3. /\ m.id = r.id /\ m.known = r.known /\ m.topic = r.topic /\ m.scope = r.scope /\ m.dedup = r.dedup
          /\ m.looked = r.looked /\ m.sequence = r.sequence
      BY <1>1 DEF Saves, Alike
    <2>4. ASSUME r.topic \in FifoTopic, NEW n \in messages, n.id \in r.known, n.topic = r.topic
          PROVE  n.sequence < r.sequence /\ (n.scope = r.scope /\ n.dedup = r.dedup => r.looked - n.at >= Window)
      BY <2>1, <2>4 DEF PublishInv, RepeatInv, SequenceInv, At
    <2> QED
      BY <2>2, <2>3, <2>4 DEF Fresh
  <1>2. CASE Aims(m)
    <2>1. None \notin FifoTopic
      BY NoneAssumption, TopicAssumption
    <2> QED
      BY <1>2, <2>1 DEF Aims, Fresh, UsedIds
  <1> QED
    BY <1>1, <1>2

LEMMA StepAdds ==
  ASSUME PublishInv, NEW c \in Client, Works(c) \/ Leaves(c) \/ \E m \in Message : Aims(m)
  PROVE  Adds
  <1>1. CASE Leaves(c) \/ Begins(c) \/ Looks(c) \/ Takes(c) \/ Lists(c) \/ Delivers(c) \/ Records(c)
    BY <1>1 DEF Leaves, Begins, Looks, Takes, Lists, Delivers, Records, Quiet, Adds
  <1>2. ASSUME NEW m \in Message, Saves(c, m) \/ Aims(m)
        PROVE  Adds
    <2>1. messages' = messages \cup {m}
      BY <1>2 DEF Saves, Aims
    <2> QED
      BY <1>2, <2>1, AddsFresh DEF Adds
  <1> QED
    BY <1>1, <1>2 DEF Works

(* The messages after one is added.                                        *)
LEMMA MessagesStep ==
  ASSUME PublishInv, Adds
  PROVE  /\ messages' \subseteq Message /\ SavedIds \subseteq SavedIds'
         /\ \A m, n \in messages' : m.id = n.id => m = n
         /\ \A m \in messages' : m.known \subseteq SavedIds' \ {m.id}
         /\ OnlyOverlappingPublishesRepeat' /\ SequencesIncrease'
  <1>0. /\ messages \subseteq Message /\ (\A m, n \in messages : m.id = n.id => m = n)
        /\ \A m \in messages : m.known \subseteq SavedIds \ {m.id}
        /\ OnlyOverlappingPublishesRepeat /\ SequencesIncrease
    BY DEF PublishInv, PublishTypesInv, PublishTypeOK, IdsInv
  <1>1. CASE messages' = messages
    BY <1>0, <1>1 DEF SavedIds, OnlyOverlappingPublishesRepeat, SequencesIncrease
  <1>2. ASSUME NEW m, Fresh(m), messages' = messages \cup {m}
        PROVE  /\ messages' \subseteq Message /\ SavedIds \subseteq SavedIds'
               /\ \A k, n \in messages' : k.id = n.id => k = n
               /\ \A k \in messages' : k.known \subseteq SavedIds' \ {k.id}
               /\ OnlyOverlappingPublishesRepeat' /\ SequencesIncrease'
    <2>1. SavedIds' = SavedIds \cup {m.id}
      BY <1>2 DEF SavedIds
    <2>2. \A k \in messages : k.id \in SavedIds /\ k.id # m.id /\ m.id \notin k.known
      BY <1>0, <1>2 DEF SavedIds, Fresh
    <2>3. \A k, n \in messages' : k.id = n.id => k = n
      BY <1>0, <1>2, <2>2
    <2>4. m.id \notin m.known /\ m.known \subseteq SavedIds
      BY <1>2 DEF Fresh
    <2>5. \A k \in messages' : k.known \subseteq SavedIds' \ {k.id}
      BY <1>0, <1>2, <2>1, <2>2, <2>4
    <2>6. ASSUME NEW k \in messages', NEW n \in messages', k.id \in n.known
          PROVE  k \in messages /\ (n \in messages \/ n = m)
      BY <1>2, <2>2, <2>4, <2>6
    <2>7. OnlyOverlappingPublishesRepeat'
      BY <1>0, <1>2, <2>6 DEF OnlyOverlappingPublishesRepeat, Fresh
    <2>8. SequencesIncrease'
      BY <1>0, <1>2, <2>6 DEF SequencesIncrease, Fresh
    <2>9. messages' \subseteq Message
      BY <1>0, <1>2 DEF Fresh
    <2> QED
      BY <2>1, <2>3, <2>5, <2>7, <2>8, <2>9
  <1> QED
    BY <1>1, <1>2 DEF Adds

(* What a request knew was there before a message that is added.           *)
LEMMA KnownStays ==
  ASSUME PublishInv, Adds, NEW d \in Client, Drafting(request[d]), NEW m \in messages', m.id \in request[d].known
  PROVE  m \in messages
  <1>1. request[d].known \subseteq SavedIds
    BY DEF PublishInv, IdsInv
  <1> QED
    BY <1>1 DEF Adds, Fresh

(* The requests of others that draft keep their ids to themselves.         *)
LEMMA IdsStep ==
  ASSUME PublishInv, NEW c \in Client, Works(c) \/ Leaves(c) \/ (\E m \in Message : Aims(m)), Others(c)
  PROVE  IdsInv'
  <1>0. /\ Adds /\ SavedIds \subseteq SavedIds'
        /\ \A m \in messages' : m.known \subseteq SavedIds' \ {m.id}
    BY StepAdds, MessagesStep
  <1>1. ASSUME NEW d \in Client, Publishing(request'[d])
        PROVE  \/ Publishing(request[d]) /\ request'[d].id = request[d].id
               \/ d = c /\ Begins(c)
    <2>1. CASE request'[d] = request[d]
      BY <1>1, <2>1
    <2>2. CASE d = c /\ Works(c)
      BY <2>2 DEF Works, Looks, Takes, Saves, Lists, Delivers, Records, Alike, Sends, At, Publishing, Dispatching
    <2>3. CASE d = c /\ Leaves(c)
      BY <1>1, <2>3 DEF Leaves
    <2> QED
      BY <2>1, <2>2, <2>3 DEF Others, Aims
  <1>2. Begins(c) => request'[c].id \notin UsedIds
    BY DEF Begins
  <1>3. \A d \in Client : Publishing(request[d]) => request[d].id \in UsedIds
    BY DEF UsedIds
  <1>4. \A d, e \in Client : Publishing(request'[d]) /\ Publishing(request'[e]) /\ d # e => request'[d].id # request'[e].id
    BY <1>1, <1>2, <1>3 DEF PublishInv, IdsInv
  <1>5. ASSUME NEW d \in Client, Drafting(request'[d])
        PROVE  request'[d].id \notin SavedIds' /\ request'[d].known \subseteq SavedIds'
    <2>1. ASSUME NEW m \in Message, Saves(c, m), d # c
          PROVE  request'[d].id # m.id
      BY <1>5, <2>1 DEF Saves, Alike, Others, PublishInv, IdsInv, Publishing, Drafting, Dispatching, At
    <2>2. ASSUME NEW m \in Message, Aims(m)
          PROVE  request'[d].id # m.id
      <3>1. request'[d] = request[d] /\ Publishing(request[d])
        BY <1>5, <2>2 DEF Aims, Drafting, Publishing
      <3> QED
        BY <1>3, <2>2, <3>1 DEF Aims
    <2>3. \/ Drafting(request[d]) /\ request'[d].id = request[d].id /\ request'[d].known = request[d].known
          \/ d = c /\ Begins(c)
      <3>1. CASE request'[d] = request[d]
        BY <1>5, <3>1
      <3>2. CASE d = c /\ Works(c)
        BY <1>5, <3>2 DEF Works, Looks, Takes, Saves, Lists, Delivers, Records, Alike, Drafting, At
      <3>3. CASE d = c /\ Leaves(c)
        BY <1>5, <3>3 DEF Leaves, Drafting, Publishing
      <3> QED
        BY <3>1, <3>2, <3>3 DEF Others, Aims
    <2>4. request'[d].id \notin SavedIds /\ request'[d].known \subseteq SavedIds
      BY <2>3 DEF PublishInv, IdsInv, Begins, UsedIds
    <2>5. ASSUME NEW m \in messages', m.id = request'[d].id
          PROVE  FALSE
      <3>1. m \notin messages
        BY <2>4, <2>5 DEF SavedIds
      <3>2. messages' # messages
        BY <3>1
      <3>3. (\E k \in Message : Saves(c, k)) \/ (\E k \in Message : Aims(k))
        BY <3>2 DEF Works, Leaves, Begins, Looks, Takes, Lists, Delivers, Records, Quiet
      <3>4. ASSUME NEW k \in Message, Saves(c, k)
            PROVE  k.id # request'[d].id /\ messages' = messages \cup {k}
        <4>1. d # c
          BY <1>5, <3>4 DEF Saves, Drafting
        <4> QED
          BY <2>1, <3>4, <4>1 DEF Saves
      <3>5. ASSUME NEW k \in Message, Aims(k)
            PROVE  k.id # request'[d].id /\ messages' = messages \cup {k}
        BY <2>2, <3>5 DEF Aims
      <3> QED
        BY <2>5, <3>1, <3>3, <3>4, <3>5
    <2> QED
      BY <1>0, <2>4, <2>5 DEF SavedIds
  <1>6. ASSUME NEW d \in Client, Dispatching(request'[d]) \/ request'[d].step = "answer"
        PROVE  request'[d].id \in SavedIds'
    <2>1. CASE request'[d] = request[d]
      BY <1>0, <1>6, <2>1 DEF PublishInv, IdsInv, At
    <2>2. ASSUME NEW m \in Message, Saves(c, m)
          PROVE  request'[c].id \in SavedIds'
      BY <2>2 DEF Saves, Alike, SavedIds
    <2>3. ASSUME Lists(c) \/ Delivers(c) \/ Records(c)
          PROVE  request'[c].id \in SavedIds'
      <3>1. request[c].id \in SavedIds /\ request'[c].id = request[c].id
        BY <2>3 DEF Lists, Delivers, Records, Sends, PublishInv, IdsInv, At, Dispatching
      <3> QED
        BY <1>0, <3>1
    <2>4. d = c => ~(Begins(c) \/ Looks(c) \/ Takes(c) \/ Leaves(c))
      BY <1>6 DEF Begins, Looks, Takes, Leaves, Dispatching, Publishing
    <2> QED
      BY <1>0, <2>1, <2>2, <2>3, <2>4 DEF Others, Aims, Works
  <1> QED
    BY <1>0, <1>4, <1>5, <1>6 DEF IdsInv, At

LEMMA RequestStep ==
  ASSUME PublishInv, NEW c \in Client, Works(c) \/ Leaves(c) \/ (\E m \in Message : Aims(m)), Others(c),
         NEW d \in Client, Drafting(request'[d])
  PROVE  \/ Drafting(request[d]) /\ request'[d] = request[d]
         \/ d = c /\ (Begins(c) \/ Looks(c) \/ Takes(c))
  <1>1. CASE request'[d] = request[d]
    BY <1>1
  <1>2. CASE d = c /\ Works(c)
    BY <1>2 DEF Works, Saves, Lists, Delivers, Records, Drafting
  <1>3. CASE d = c /\ Leaves(c)
    BY <1>3 DEF Leaves, Drafting, Publishing
  <1> QED
    BY <1>1, <1>2, <1>3 DEF Others, Aims

LEMMA RepeatStep ==
  ASSUME PublishInv, NEW c \in Client, Works(c) \/ Leaves(c) \/ (\E m \in Message : Aims(m)), Others(c)
  PROVE  RepeatInv'
  <1>0. Adds
    BY StepAdds
  <1> SUFFICES ASSUME NEW d \in Client, request'[d].step \in {"sequence", "save"}, request'[d].topic \in FifoTopic,
                      NEW m \in messages', m.id \in request'[d].known, m.topic = request'[d].topic,
                      m.scope = request'[d].scope, m.dedup = request'[d].dedup
               PROVE  request'[d].looked - m.at >= Window
    BY DEF RepeatInv
  <1>1. CASE Drafting(request[d]) /\ request'[d] = request[d]
    BY <1>0, <1>1, KnownStays DEF PublishInv, RepeatInv
  <1>2. CASE d = c /\ Begins(c)
    BY <1>2 DEF Begins
  <1>3. CASE d = c /\ Looks(c)
    <2>1. m \in messages /\ m \in Message
      BY <1>3 DEF Looks, Quiet, PublishInv, PublishTypesInv, PublishTypeOK
    <2>2. m \notin SureDuplicates(request[c]) /\ request'[c].looked = now
      BY <1>3 DEF Looks
    <2>3. ~(m.at >= now - Window + 1)
      BY <1>3, <2>1, <2>2 DEF Looks, Alike, SureDuplicates, Repeated
    <2>4. m.at \in Nat /\ now \in Nat /\ Window \in Nat
      BY <2>1, PublishAssumption DEF Message, PublishInv, PublishTypesInv
    <2> QED
      BY <1>3, <2>2, <2>3, <2>4
  <1>4. CASE d = c /\ Takes(c)
    <2>1. m \in messages
      BY <1>4 DEF Takes, Quiet
    <2> QED
      BY <1>4, <2>1 DEF Takes, Alike, At, PublishInv, RepeatInv
  <1> QED
    BY <1>1, <1>2, <1>3, <1>4, RequestStep DEF Drafting

LEMMA SequenceStep ==
  ASSUME PublishInv, NEW c \in Client, Works(c) \/ Leaves(c) \/ (\E m \in Message : Aims(m)), Others(c)
  PROVE  SequenceInv'
  <1>0. Adds
    BY StepAdds
  <1> SUFFICES ASSUME NEW d \in Client, request'[d].step = "save", request'[d].topic \in FifoTopic,
                      NEW m \in messages', m.id \in request'[d].known, m.topic = request'[d].topic
               PROVE  m.sequence < request'[d].sequence
    BY DEF SequenceInv, At
  <1>1. CASE Drafting(request[d]) /\ request'[d] = request[d]
    BY <1>0, <1>1, KnownStays DEF PublishInv, SequenceInv, At
  <1>2. CASE d = c /\ (Begins(c) \/ Looks(c))
    BY <1>2 DEF Begins, Looks
  <1>3. CASE d = c /\ Takes(c)
    BY <1>3 DEF Takes, Quiet, Alike
  <1> QED
    BY <1>1, <1>2, <1>3, RequestStep DEF Drafting

LEMMA PublishTypesStep ==
  ASSUME PublishInv, TopicsInv', NEW c \in Client, Works(c) \/ Leaves(c) \/ (\E m \in Message : Aims(m)), Others(c),
         now' \in 0 .. MaxNow, drawn \subseteq drawn', ObservePublish
  PROVE  PublishTypesInv'
  <1>0. /\ messages' \subseteq Message /\ SavedIds \subseteq SavedIds'
        /\ \A m, n \in messages' : m.id = n.id => m = n
    BY StepAdds, MessagesStep
  <1>1. DOMAIN steady' = Client /\ DOMAIN wanting' = Client
    BY DEF ObservePublish
  <1>2. ASSUME NEW d \in Client
        PROVE  PublishOK(request[d])'
    <2>0. PublishOK(request[d])
      BY DEF PublishInv, PublishTypesInv
    <2>1. CASE request'[d] = request[d]
      BY <2>0, <2>1 DEF PublishOK
    <2>2. CASE d = c /\ (Begins(c) \/ Looks(c) \/ Takes(c))
      BY <2>2 DEF Begins, Looks, Takes, PublishOK, Drafting, Dispatching
    <2>3. CASE d = c /\ \E m \in Message : Saves(c, m)
      BY <2>3 DEF Saves, PublishOK, Drafting, Dispatching
    <2>4. CASE d = c /\ Leaves(c)
      BY <2>4 DEF Leaves, PublishOK, Publishing, Drafting, Dispatching
    <2>5. CASE d = c /\ Lists(c)
      <3>1. DOMAIN request'[c].page \subseteq drawn
        BY <2>5, ConfirmedRowsOf DEF Lists, PublishInv
      <3>2. request'[c] \in Dispatch /\ request'[c].step \in {"list", "deliver", "answer"}
        BY <2>5 DEF Lists
      <3>3. request'[c].step = "list" => DOMAIN request'[c].page = {}
        BY <2>5 DEF Lists
      <3> QED
        BY <2>5, <3>1, <3>2, <3>3 DEF PublishOK, Drafting, Dispatching
    <2>6. CASE d = c /\ Delivers(c)
      <3>1. DOMAIN request[c].page \subseteq drawn
        BY <2>0, <2>6 DEF Delivers, PublishOK, Dispatching, At
      <3> QED
        BY <2>6, <3>1 DEF Delivers, PublishOK, Drafting, Dispatching
    <2>7. CASE d = c /\ Records(c)
      <3>1. DOMAIN request[c].page \subseteq drawn
        BY <2>0, <2>7 DEF Records, PublishOK, Dispatching, At
      <3>2. DOMAIN request'[c].page \subseteq DOMAIN request[c].page
        BY <2>7 DEF Records, Deleted, Restrict
      <3>3. request'[c] \in Dispatch /\ request'[c].step \in {"list", "deliver", "answer"}
        BY <2>7 DEF Records
      <3>4. request'[c].step = "list" => DOMAIN request'[c].page = {}
        BY <2>7 DEF Records
      <3> QED
        BY <2>7, <3>1, <3>2, <3>3, <3>4 DEF PublishOK, Drafting, Dispatching
    <2> QED
      BY <2>1, <2>2, <2>3, <2>4, <2>5, <2>6, <2>7 DEF Others, Aims, Works
  <1>3. attempts' \subseteq [message : SavedIds', subscription : drawn', status : Status]
    <2>0. attempts \subseteq [message : SavedIds, subscription : drawn, status : Status]
      BY DEF PublishInv, PublishTypesInv, PublishTypeOK, Status
    <2>1. CASE attempts' = attempts
      BY <1>0, <2>0, <2>1
    <2>2. CASE Records(c)
      <3> DEFINE r == request[c]
      <3>1. r.id \in SavedIds /\ r.to \in drawn /\ r.status \in Status
        BY <2>2 DEF Records, At, PublishInv, IdsInv, PublishTypesInv, PublishOK, Dispatching
      <3>2. attempts' = attempts \cup {[message |-> r.id, subscription |-> r.to, status |-> r.status]}
        BY <2>2 DEF Records
      <3> QED
        BY <1>0, <2>0, <3>1, <3>2
    <2> QED
      BY <2>1, <2>2 DEF Works, Begins, Looks, Takes, Saves, Lists, Delivers, Leaves, Aims, Quiet
  <1>4. handed' \subseteq SavedIds' \X drawn'
    <2>0. handed \subseteq SavedIds \X drawn
      BY DEF PublishInv, PublishTypesInv, PublishTypeOK
    <2>1. CASE handed' = handed
      BY <1>0, <2>0, <2>1
    <2>2. CASE Delivers(c)
      <3> DEFINE r == request[c]
                 to == request'[c].to
      <3>1. r.id \in SavedIds /\ to \in drawn
        BY <2>2 DEF Delivers, At, PublishInv, IdsInv, PublishTypesInv, PublishOK, Dispatching
      <3>2. handed' \subseteq handed \cup {<<r.id, to>>}
        BY <2>2 DEF Delivers
      <3> QED
        BY <1>0, <2>0, <3>1, <3>2
    <2> QED
      BY <2>1, <2>2 DEF Works, Begins, Looks, Takes, Saves, Lists, Records, Leaves, Aims, Quiet
  <1> QED
    BY <1>0, <1>1, <1>2, <1>3, <1>4 DEF PublishTypesInv, PublishTypeOK, Status, TopicsInv, TypesInv

-----------------------------------------------------------------------------
(* What is observed of a publish that lists and delivers.                  *)
LEMMA Observed ==
  ASSUME ObservePublish, NEW d \in Client, Dispatching(request'[d])
  PROVE  /\ steady'[d] \subseteq ConfirmedOn(request[d].topic)'
         /\ Dispatching(request[d]) => steady'[d] \subseteq steady[d]
         /\ wanting'[d] = wanting[d] \cup Wants(request[d])'
  <1>1. steady'[d] = IF Dispatching(request[d]) THEN steady[d] \cap ConfirmedOn(request[d].topic)'
                     ELSE ConfirmedOn(request[d].topic)'
    BY DEF ObservePublish
  <1>2. wanting'[d] = wanting[d] \cup Wants(request[d])'
    BY DEF ObservePublish
  <1> QED
    BY <1>1, <1>2

(* A page leaves out no subscription up to its last one.                   *)
LEMMA PageCovers ==
  ASSUME TopicsInv, NEW t, NEW after \in 0 .. MaxArn, NEW last \in PageOf(t, after) \cup {after},
         NEW a \in Of(t), a <= last, a > after
  PROVE  a \in PageOf(t, after)
  <1> DEFINE left == {b \in Of(t) : b > after}
             below(x) == {b \in left : b < x}
  <1>1. Of(t) \subseteq Arn /\ MaxArn \in Nat
    BY TopicAssumption DEF Of, TopicsInv, TypesInv, TopicsTypeOK
  <1>2. last \in PageOf(t, after)
    BY <1>1 DEF Arn, PageOf
  <1>3. last \in left /\ Cardinality(below(last)) < PageSize
    BY <1>2 DEF PageOf
  <1>4. IsFiniteSet(below(last))
    <2>1. IsFiniteSet(1 .. MaxArn)
      BY <1>1, FS_Interval
    <2>2. below(last) \subseteq 1 .. MaxArn
      BY <1>1 DEF Arn
    <2> QED
      BY <2>1, <2>2, FS_Subset
  <1>5. below(a) \subseteq below(last)
    BY <1>1, <1>3 DEF Arn
  <1>6. /\ Cardinality(below(a)) \in Nat /\ Cardinality(below(last)) \in Nat
        /\ Cardinality(below(a)) <= Cardinality(below(last))
    BY <1>4, <1>5, FS_Subset, FS_CardinalityType
  <1>7. Cardinality(below(a)) < PageSize
    BY <1>3, <1>6, PublishAssumption
  <1> QED
    BY <1>7 DEF PageOf

(* A page has what is confirmed of what it covers, all of it new.          *)
LEMMA Listing ==
  ASSUME PublishInv, NEW c \in Client, Lists(c)
  PROVE  LET r == request[c]
             s == request'[c]
         IN  /\ r.after \in Nat /\ s.after \in Nat /\ r.after <= s.after
             /\ Of(r.topic) \subseteq Nat
             /\ \A a \in DOMAIN s.page : a \in ConfirmedOn(r.topic) /\ r.after < a /\ a <= s.after
             /\ \A a \in DOMAIN s.page : s.page[a] = subscriptions[a]
             /\ \A a \in ConfirmedOn(r.topic) : a <= s.after => a <= r.after \/ a \in DOMAIN s.page
  <1> DEFINE r == request[c]
             s == request'[c]
             listed == PageOf(r.topic, r.after)
  <1>1. r \in Dispatch /\ r.after \in 0 .. MaxArn
    BY DEF Lists, At, PublishInv, PublishTypesInv, PublishOK, Dispatching, Dispatch
  <1>2. s.after \in listed \cup {r.after} /\ s.page = ConfirmedRows(listed) /\ \A a \in listed : a <= s.after
    BY DEF Lists
  <1>3. /\ listed \subseteq Of(r.topic) /\ Of(r.topic) \subseteq Arn
        /\ DOMAIN s.page = {a \in listed : subscriptions[a].status = "Confirmed"}
        /\ \A a \in DOMAIN s.page : s.page[a] = subscriptions[a]
    <2> DEFINE page == ConfirmedRows(listed)
    <2>1. /\ listed \subseteq Of(r.topic) /\ Of(r.topic) \subseteq Arn
          /\ DOMAIN page = {a \in listed : subscriptions[a].status = "Confirmed"}
          /\ \A a \in DOMAIN page : page[a] = subscriptions[a]
      <3>1. TopicsInv
        BY DEF PublishInv
      <3>2. listed \subseteq Of(r.topic)
        BY <3>1, ConfirmedRowsOf
      <3>3. Of(r.topic) \subseteq Arn
        BY <3>1, ConfirmedRowsOf
      <3>4. DOMAIN page = {a \in listed : subscriptions[a].status = "Confirmed"}
        BY <3>1, ConfirmedRowsOf
      <3>5. \A a \in DOMAIN page : page[a] = subscriptions[a]
        BY DEF ConfirmedRows, Restrict
      <3> QED
        BY <3>2, <3>3, <3>4, <3>5
    <2> HIDE DEF page, listed
    <2>2. s.page = page
      BY <1>2 DEF page
    <2> QED
      BY <2>1, <2>2
  <1>4. \A a \in listed : a > r.after
    BY DEF PageOf
  <1>5. Arn \subseteq Nat /\ MaxArn \in Nat
    BY TopicAssumption DEF Arn
  <1>6. r.after \in Nat /\ s.after \in Nat /\ r.after <= s.after
    <2>1. r.after \in Nat
      BY <1>1, <1>5
    <2>2. CASE s.after = r.after
      BY <2>1, <2>2
    <2>3. CASE s.after \in listed
      <3>1. s.after \in Nat /\ s.after > r.after
        BY <1>3, <1>4, <1>5, <2>3
      <3> QED
        BY <2>1, <3>1
    <2> QED
      BY <1>2, <2>2, <2>3
  <1>7. ASSUME NEW a \in ConfirmedOn(r.topic), a <= s.after, ~(a <= r.after)
        PROVE  a \in DOMAIN s.page
    <2>1. a \in Of(r.topic) /\ subscriptions[a].status = "Confirmed" /\ a > r.after
      <3>1. a \in Of(r.topic) /\ subscriptions[a].status = "Confirmed"
        BY <1>7 DEF ConfirmedOn
      <3>2. a \in Nat
        BY <1>3, <1>5, <3>1
      <3> QED
        BY <1>6, <1>7, <3>1, <3>2
    <2>2. a \in listed
      BY <1>1, <1>2, <1>7, <2>1, PageCovers DEF PublishInv
    <2> QED
      BY <1>3, <2>1, <2>2
  <1>8. \A a \in DOMAIN s.page : a \in ConfirmedOn(r.topic) /\ r.after < a /\ a <= s.after
    BY <1>2, <1>3, <1>4, <1>5, <1>6 DEF ConfirmedOn
  <1> QED
    BY <1>3, <1>5, <1>6, <1>7, <1>8

(* What was tried and handed of a message is as it was, but for the        *)
(* publish that delivers it.                                               *)
TriedOf(id) == {a \in attempts : a.message = id}
HandedOf(id) == {pair \in handed : pair[1] = id}

LEMMA OthersTried ==
  ASSUME PublishInv, NEW c \in Client, Works(c) \/ Leaves(c) \/ (\E m \in Message : Aims(m)), Others(c),
         NEW d \in Client, Dispatching(request[d]), request'[d] = request[d]
  PROVE  /\ {a \in attempts' : a.message = request[d].id} = TriedOf(request[d].id)
         /\ {pair \in handed' : pair[1] = request[d].id} = HandedOf(request[d].id)
  <1>1. CASE attempts' = attempts /\ handed' = handed
    BY <1>1 DEF TriedOf, HandedOf
  <1>2. ASSUME Delivers(c) \/ Records(c)
        PROVE  request[c].id # request[d].id
    <2>1. Publishing(request[c]) /\ Publishing(request[d]) /\ request'[c].step # request[c].step
      BY <1>2 DEF Delivers, Records, At, Publishing, Dispatching
    <2> QED
      BY <2>1 DEF PublishInv, IdsInv
  <1>3. CASE Delivers(c)
    <2>1. attempts' = attempts /\ \A pair \in handed' \ handed : pair = <<request[c].id, request'[c].to>>
      BY <1>3 DEF Delivers
    <2>2. handed \subseteq handed'
      BY <1>3 DEF Delivers
    <2>3. \A pair \in handed' \ handed : pair[1] # request[d].id
      BY <1>2, <1>3, <2>1
    <2> QED
      BY <2>1, <2>2, <2>3 DEF TriedOf, HandedOf
  <1>4. CASE Records(c)
    <2> DEFINE attempt == [message |-> request[c].id, subscription |-> request[c].to, status |-> request[c].status]
    <2>1. handed' = handed /\ attempts' = attempts \cup {attempt}
      BY <1>4 DEF Records
    <2>2. attempt.message # request[d].id
      BY <1>2, <1>4
    <2> HIDE DEF attempt
    <2> QED
      BY <2>1, <2>2 DEF TriedOf, HandedOf
  <1> QED
    BY <1>1, <1>3, <1>4 DEF Works, Leaves, Begins, Looks, Takes, Saves, Lists, Aims, Quiet

LEMMA TriedStays ==
  ASSUME PublishInv, ObservePublish, NEW d \in Client, Dispatching(request[d]), request'[d] = request[d],
         {a \in attempts' : a.message = request[d].id} = TriedOf(request[d].id),
         {pair \in handed' : pair[1] = request[d].id} = HandedOf(request[d].id)
  PROVE  TriedInv(d)' /\ WantedInv(d)'
  <1> DEFINE r == request[d]
  <1>1. TriedInv(d) /\ WantedInv(d)
    BY DEF PublishInv, DispatchInv
  <1>2. /\ steady'[d] \subseteq ConfirmedOn(request[d].topic)' /\ steady'[d] \subseteq steady[d]
        /\ wanting[d] \subseteq wanting'[d]
    BY Observed
  <1>3. Attempted(request[d].id)' = Attempted(r.id)
    BY DEF Attempted, TriedOf
  <1>4. Handed(request[d].id)' = Handed(r.id)
    BY DEF Handed, HandedOf
  <1>5. TriedInv(d)'
    BY <1>1, <1>2, <1>3, <1>4 DEF TriedInv, At
  <1>6. WantedInv(d)'
    BY <1>1, <1>2 DEF WantedInv
  <1> QED
    BY <1>5, <1>6

LEMMA TriedSaves ==
  ASSUME PublishInv, TopicsInv', NEW c \in Client, NEW m \in Message, Saves(c, m), ObservePublish
  PROVE  TriedInv(c)' /\ WantedInv(c)'
  <1> DEFINE s == request'[c]
  <1>1. /\ s.step = "list" /\ s.id = request[c].id /\ s.after = 0 /\ DOMAIN s.page = {} /\ s.more
        /\ UNCHANGED <<attempts, handed>>
    BY DEF Saves
  <1>2. s.id \notin SavedIds
    BY <1>1 DEF Saves, At, Drafting, PublishInv, IdsInv
  <1>3. Attempted(request[c].id)' = {} /\ Handed(request[c].id)' = {}
    BY <1>1, <1>2 DEF Attempted, Handed, PublishInv, PublishTypesInv, PublishTypeOK
  <1>4. steady'[c] \subseteq ConfirmedOn(request[c].topic)'
    BY <1>1, Observed DEF Dispatching
  <1>5. \A a \in steady'[c] : ~(a <= 0)
    <2>1. DOMAIN subscriptions' \subseteq Arn
      BY DEF TopicsInv, TypesInv, TopicsTypeOK
    <2> QED
      BY <1>4, <2>1, TopicAssumption DEF ConfirmedOn, Of, Arn
  <1>6. TriedInv(c)'
    BY <1>1, <1>3, <1>4, <1>5 DEF TriedInv
  <1>7. WantedInv(c)'
    BY <1>1 DEF WantedInv
  <1> QED
    BY <1>6, <1>7

(* The sets TriedInv is about, when the tables stay as they are.           *)
LEMMA SameTables ==
  ASSUME NEW c \in Client, UNCHANGED tables, Sends(request'[c], request[c])
  PROVE  /\ ConfirmedOn(request[c].topic)' = ConfirmedOn(request[c].topic)
         /\ Wants(request[c])' = Wants(request[c])
  BY DEF tables, Sends, ConfirmedOn, Of, Wants

LEMMA TriedLists ==
  ASSUME PublishInv, NEW c \in Client, Lists(c), UNCHANGED tables, ObservePublish
  PROVE  /\ Dispatching(request'[c]) => TriedInv(c)' /\ WantedInv(c)'
         /\ request'[c].step = "answer" => steady[c] \subseteq Attempted(request[c].id)'
  <1> DEFINE r == request[c]
             s == request'[c]
             tried == Attempted(r.id)
  <1>1. /\ r.step = "list" /\ Sends(s, r) /\ UNCHANGED <<attempts, handed>>
        /\ s.more = (\E a \in Of(r.topic) : a > s.after)
        /\ s.step \in {"list", "deliver", "answer"}
        /\ s.step = "answer" => ~s.more /\ DOMAIN s.page = {}
    BY DEF Lists, At, Quiet
  <1>2. TriedInv(c) /\ DOMAIN r.page = {}
    BY <1>1 DEF PublishInv, DispatchInv, Dispatching, PublishTypesInv, PublishOK
  <1>3. /\ steady[c] \subseteq ConfirmedOn(r.topic) /\ ConfirmedOn(r.topic) \subseteq Of(r.topic)
        /\ \A a \in steady[c] : a <= r.after => a \in tried
        /\ \A a \in tried \cup Handed(r.id) : a <= r.after
    BY <1>1, <1>2 DEF TriedInv, At, ConfirmedOn
  <1>4. /\ r.after \in Nat /\ s.after \in Nat /\ r.after <= s.after
        /\ Of(r.topic) \subseteq Nat
        /\ \A a \in DOMAIN s.page : a \in ConfirmedOn(r.topic) /\ r.after < a /\ a <= s.after
        /\ \A a \in DOMAIN s.page : s.page[a] = subscriptions[a]
        /\ \A a \in ConfirmedOn(r.topic) : a <= s.after => a <= r.after \/ a \in DOMAIN s.page
    BY Listing
  <1>5. Attempted(request[c].id)' = tried /\ Handed(request[c].id)' = Handed(r.id)
    BY <1>1 DEF Attempted, Handed, Sends
  <1>6. tried \cup Handed(r.id) \subseteq Nat
    <2>1. \A a \in attempts : a.subscription \in drawn
      BY DEF PublishInv, PublishTypesInv, PublishTypeOK
    <2>2. \A pair \in handed : pair[2] \in drawn
      BY DEF PublishInv, PublishTypesInv, PublishTypeOK
    <2>3. drawn \subseteq Nat
      BY TopicAssumption DEF PublishInv, TopicsInv, TypesInv, TopicsTypeOK, Arn
    <2> QED
      BY <2>1, <2>2, <2>3 DEF Attempted, Handed
  <1>7. ~s.more => \A a \in steady[c] : a <= s.after
    <2>1. ASSUME NEW a \in steady[c], ~s.more
          PROVE  a <= s.after
      <3>1. a \in Of(r.topic) /\ a \in Nat
        BY <1>3, <1>4, <2>1
      <3>2. ~(a > s.after)
        BY <1>1, <2>1, <3>1
      <3> QED
        BY <1>4, <3>1, <3>2
    <2> QED
      BY <2>1
  <1>8. \A a \in steady[c] : a <= s.after => a \in tried \cup DOMAIN s.page
    BY <1>3, <1>4
  <1>9. s.step = "answer" => steady[c] \subseteq Attempted(request[c].id)'
    BY <1>1, <1>5, <1>7, <1>8
  <1>10. ASSUME Dispatching(s)
         PROVE  TriedInv(c)' /\ WantedInv(c)'
    <2>1. /\ steady'[c] \subseteq ConfirmedOn(request[c].topic)' /\ steady'[c] \subseteq steady[c]
          /\ wanting'[c] = wanting[c] \cup Wants(request[c])'
      BY <1>1, <1>10, Observed DEF Dispatching
    <2>2. Wants(request[c])' = Wants(r)
      BY <1>1, SameTables
    <2>3. ASSUME NEW a \in tried \cup Handed(r.id)
          PROVE  a <= s.after /\ a \notin DOMAIN s.page
      <3>1. a \in Nat /\ a <= r.after
        BY <1>3, <1>6
      <3> QED
        BY <1>4, <3>1
    <2>4. TriedInv(c)'
      BY <1>1, <1>4, <1>5, <1>7, <1>8, <2>1, <2>3 DEF TriedInv, At
    <2>5. WantedInv(c)'
      <3>1. ASSUME NEW a \in DOMAIN s.page, Wanted(s.page[a], s.content)
            PROVE  a \in Wants(r)
        BY <1>1, <1>4, <3>1 DEF Wants, Wanted, Sends
      <3> QED
        BY <2>1, <2>2, <3>1 DEF WantedInv
    <2> QED
      BY <2>4, <2>5
  <1> QED
    BY <1>9, <1>10

LEMMA TriedDelivers ==
  ASSUME PublishInv, NEW c \in Client, Delivers(c), UNCHANGED tables, ObservePublish
  PROVE  TriedInv(c)' /\ WantedInv(c)'
  <1> DEFINE r == request[c]
             s == request'[c]
  <1>1. /\ r.step = "deliver" /\ s.step = "record" /\ Sends(s, r) /\ attempts' = attempts
        /\ s.page = r.page /\ s.after = r.after /\ s.more = r.more /\ s.to \in DOMAIN r.page
        /\ handed' \subseteq handed \cup {<<r.id, s.to>>}
    BY DEF Delivers, At
  <1>2. TriedInv(c) /\ WantedInv(c)
    BY <1>1 DEF PublishInv, DispatchInv, Dispatching
  <1>3. /\ steady'[c] \subseteq ConfirmedOn(request[c].topic)' /\ steady'[c] \subseteq steady[c]
        /\ wanting[c] \subseteq wanting'[c]
    BY <1>1, Observed DEF Dispatching
  <1>4. Attempted(request[c].id)' = Attempted(r.id)
    BY <1>1 DEF Attempted, Sends
  <1>5. Handed(request[c].id)' \subseteq Handed(r.id) \cup {s.to}
    BY <1>1 DEF Handed, Sends
  <1>6. TriedInv(c)'
    BY <1>1, <1>2, <1>3, <1>4, <1>5 DEF TriedInv, At
  <1>7. WantedInv(c)'
    BY <1>1, <1>2, <1>3 DEF WantedInv, Sends
  <1> QED
    BY <1>6, <1>7

LEMMA TriedRecords ==
  ASSUME PublishInv, NEW c \in Client, Records(c), UNCHANGED tables, ObservePublish
  PROVE  /\ Dispatching(request'[c]) => TriedInv(c)' /\ WantedInv(c)'
         /\ request'[c].step = "answer" => steady[c] \subseteq Attempted(request[c].id)'
  <1> DEFINE r == request[c]
             s == request'[c]
             attempt == [message |-> r.id, subscription |-> r.to, status |-> r.status]
  <1>1. /\ r.step = "record" /\ Sends(s, r) /\ handed' = handed
        /\ s.page = Deleted(r.page, {r.to}) /\ s.after = r.after /\ s.more = r.more
        /\ s.step \in {"list", "deliver", "answer"}
        /\ s.step = "answer" => ~s.more /\ DOMAIN s.page = {}
    BY DEF Records, At
  <1>2. TriedInv(c) /\ WantedInv(c) /\ r.to \in DOMAIN r.page
    BY <1>1 DEF PublishInv, DispatchInv, Dispatching, PublishTypesInv, PublishOK
  <1>3. DOMAIN s.page = DOMAIN r.page \ {r.to} /\ \A a \in DOMAIN s.page : s.page[a] = r.page[a]
    BY <1>1 DEF Deleted, Restrict
  <1>4. Attempted(request[c].id)' = Attempted(r.id) \cup {r.to}
    <2>1. attempts' = attempts \cup {attempt} /\ s.id = r.id
      BY <1>1 DEF Records, Sends
    <2>2. attempt.message = r.id /\ attempt.subscription = r.to
      OBVIOUS
    <2> HIDE DEF attempt
    <2>3. {a \in attempts' : a.message = s.id} = {a \in attempts : a.message = r.id} \cup {attempt}
      BY <2>1, <2>2
    <2> QED
      BY <2>2, <2>3 DEF Attempted
  <1>5. Handed(request[c].id)' = Handed(r.id)
    BY <1>1 DEF Handed, Sends
  <1>6. s.step = "answer" => steady[c] \subseteq Attempted(request[c].id)'
    BY <1>1, <1>2, <1>3, <1>4 DEF TriedInv
  <1>7. ASSUME Dispatching(s)
        PROVE  TriedInv(c)' /\ WantedInv(c)'
    <2>1. /\ steady'[c] \subseteq ConfirmedOn(request[c].topic)' /\ steady'[c] \subseteq steady[c]
          /\ wanting[c] \subseteq wanting'[c]
      BY <1>1, <1>7, Observed DEF Dispatching
    <2>2. TriedInv(c)'
      BY <1>1, <1>2, <1>3, <1>4, <1>5, <2>1 DEF TriedInv, At
    <2>3. WantedInv(c)'
      BY <1>1, <1>2, <1>3, <2>1 DEF WantedInv, Sends
    <2> QED
      BY <2>2, <2>3
  <1> QED
    BY <1>6, <1>7

LEMMA DispatchStep ==
  ASSUME PublishInv, TopicsInv', NEW c \in Client,
         (Works(c) /\ UNCHANGED tables) \/ Leaves(c) \/ (\E m \in Message : Aims(m)), Others(c), ObservePublish
  PROVE  DispatchInv'
  <1>1. ASSUME NEW d \in Client, Dispatching(request'[d])
        PROVE  TriedInv(d)' /\ WantedInv(d)'
    <2>1. CASE request'[d] = request[d]
      BY <1>1, <2>1, OthersTried, TriedStays
    <2>2. CASE d = c /\ Works(c) /\ UNCHANGED tables
      <3>1. ~(Begins(c) \/ Looks(c) \/ Takes(c))
        BY <1>1, <2>2 DEF Begins, Looks, Takes, Dispatching
      <3> QED
        BY <1>1, <2>2, <3>1, TriedSaves, TriedLists, TriedDelivers, TriedRecords DEF Works
    <2>3. CASE d = c /\ Leaves(c)
      BY <1>1, <2>3 DEF Leaves, Publishing
    <2> QED
      BY <2>1, <2>2, <2>3 DEF Others, Aims
  <1>2. ASSUME NEW d \in Client, Dispatching(request[d]), request'[d].step = "answer"
        PROVE  steady[d] \subseteq Attempted(request[d].id)'
    <2>1. request'[d] # request[d]
      BY <1>2 DEF Dispatching
    <2>2. CASE d = c /\ Works(c) /\ UNCHANGED tables
      <3>1. ~(Begins(c) \/ Looks(c) \/ Takes(c) \/ (\E m \in Message : Saves(c, m)) \/ Delivers(c))
        BY <1>2, <2>2 DEF Begins, Looks, Takes, Saves, Delivers
      <3> QED
        BY <1>2, <2>2, <3>1, TriedLists, TriedRecords DEF Works
    <2>3. CASE d = c /\ Leaves(c)
      BY <1>2, <2>3 DEF Leaves, Publishing
    <2> QED
      BY <2>1, <2>2, <2>3 DEF Others, Aims
  <1>3. missed' = {}
    <2>1. missed = {}
      BY DEF PublishInv, DispatchInv
    <2> DEFINE left(d) == {<<request[d].id, a>> : a \in steady[d] \ Attempted(request[d].id)'}
               done == {d \in Client : Dispatching(request[d]) /\ request'[d].step = "answer"}
    <2>2. missed' = missed \cup UNION {left(d) : d \in done}
      BY DEF ObservePublish
    <2>3. \A d \in done : left(d) = {}
      BY <1>2
    <2> HIDE DEF left, done
    <2> QED
      BY <2>1, <2>2, <2>3
  <1> QED
    BY <1>1, <1>3 DEF DispatchInv
-----------------------------------------------------------------------------
LEMMA PublishInvInit ==
  PublishInit => PublishInv
  <1> SUFFICES ASSUME PublishInit
               PROVE  PublishInv
    OBVIOUS
  <1>1. TopicsInv
    BY TopicsInvInit DEF PublishInit
  <1>2. \A c \in Client : request[c].step = "idle"
    BY DEF PublishInit, TopicsInit, Idle
  <1>3. messages = {} /\ attempts = {} /\ handed = {} /\ now = 0 /\ missed = {} /\ SavedIds = {}
    BY DEF PublishInit, SavedIds
  <1>4. PublishTypesInv
    <2>1. \A c \in Client : PublishOK(request[c])
      BY <1>2 DEF PublishOK, Drafting, Dispatching
    <2>2. PublishTypeOK
      BY <1>1, <1>3 DEF PublishTypeOK, TopicsInv, TypesInv
    <2> QED
      BY <1>3, <2>1, <2>2, PublishAssumption DEF PublishTypesInv, PublishInit
  <1>5. IdsInv /\ RepeatInv /\ SequenceInv /\ DispatchInv
    BY <1>2, <1>3 DEF IdsInv, RepeatInv, SequenceInv, DispatchInv, Drafting, Dispatching, Publishing, At
  <1>6. OnlyOverlappingPublishesRepeat /\ SequencesIncrease
    BY <1>3 DEF OnlyOverlappingPublishesRepeat, SequencesIncrease
  <1> QED
    BY <1>1, <1>4, <1>5, <1>6 DEF PublishInv

LEMMA PublishInvClient ==
  ASSUME PublishInv, TopicsInv', drawn \subseteq drawn', now' \in 0 .. MaxNow, NEW c \in Client,
         (Works(c) /\ UNCHANGED tables) \/ Leaves(c) \/ (\E m \in Message : Aims(m)), Others(c), ObservePublish
  PROVE  PublishInv'
  <1>1. Works(c) \/ Leaves(c) \/ \E m \in Message : Aims(m)
    OBVIOUS
  <1>2. PublishTypesInv' /\ IdsInv' /\ RepeatInv' /\ SequenceInv'
    BY <1>1, PublishTypesStep, IdsStep, RepeatStep, SequenceStep
  <1>3. OnlyOverlappingPublishesRepeat' /\ SequencesIncrease'
    BY <1>1, StepAdds, MessagesStep
  <1>4. DispatchInv'
    BY DispatchStep
  <1> QED
    BY <1>2, <1>3, <1>4 DEF PublishInv

LEMMA PublishInvTick ==
  ASSUME PublishInv, TopicsInv', Tick, ObservePublish
  PROVE  PublishInv'
  <1>1. /\ topics' = topics /\ subscriptions' = subscriptions /\ drawn' = drawn /\ mailed' = mailed
        /\ request' = request /\ messages' = messages /\ attempts' = attempts /\ handed' = handed
    BY DEF Tick, tables
  <1>2. now' \in 0 .. MaxNow
    BY PublishAssumption DEF Tick, PublishInv, PublishTypesInv
  <1>3. PublishTypesInv'
    <2>1. PublishTypeOK'
      BY <1>1 DEF PublishInv, PublishTypesInv, PublishTypeOK, TopicsInv, TypesInv, SavedIds
    <2>2. DOMAIN steady' = Client /\ DOMAIN wanting' = Client
      BY DEF ObservePublish
    <2> QED
      BY <1>1, <1>2, <2>1, <2>2 DEF PublishInv, PublishTypesInv, PublishOK
  <1>4. IdsInv' /\ RepeatInv' /\ SequenceInv' /\ OnlyOverlappingPublishesRepeat' /\ SequencesIncrease'
    BY <1>1 DEF PublishInv, IdsInv, RepeatInv, SequenceInv, OnlyOverlappingPublishesRepeat, SequencesIncrease,
       SavedIds, At
  <1>5. DispatchInv'
    <2>1. \A d \in Client : Dispatching(request'[d]) => TriedInv(d)' /\ WantedInv(d)'
      BY <1>1, TriedStays DEF TriedOf, HandedOf
    <2>2. missed' = missed
      <3>1. {d \in Client : Dispatching(request[d]) /\ request'[d].step = "answer"} = {}
        BY <1>1 DEF Dispatching
      <3> QED
        BY <3>1 DEF ObservePublish
    <2> QED
      BY <2>1, <2>2 DEF PublishInv, DispatchInv
  <1> QED
    BY <1>3, <1>4, <1>5 DEF PublishInv

LEMMA PublishInvStutter ==
  ASSUME PublishInv, UNCHANGED publishVars
  PROVE  PublishInv'
  <1>1. /\ topics' = topics /\ subscriptions' = subscriptions /\ drawn' = drawn /\ mailed' = mailed
        /\ request' = request /\ messages' = messages /\ attempts' = attempts /\ handed' = handed
        /\ now' = now /\ steady' = steady /\ wanting' = wanting /\ missed' = missed
    BY DEF publishVars, topicVars, tables, publishTables, publishHistory
  <1>2. TopicsInv'
    BY TopicsInvStutter DEF publishVars, PublishInv
  <1>3. PublishTypesInv'
    BY <1>1, <1>2 DEF PublishInv, PublishTypesInv, PublishTypeOK, TopicsInv, TypesInv, SavedIds, PublishOK
  <1>4. IdsInv' /\ RepeatInv' /\ SequenceInv' /\ OnlyOverlappingPublishesRepeat' /\ SequencesIncrease'
    BY <1>1 DEF PublishInv, IdsInv, RepeatInv, SequenceInv, OnlyOverlappingPublishesRepeat, SequencesIncrease,
       SavedIds, At
  <1>5. DispatchInv'
    BY <1>1 DEF PublishInv, DispatchInv, TriedInv, WantedInv, Attempted, Handed, ConfirmedOn, Of, At
  <1> QED
    BY <1>2, <1>3, <1>4, <1>5 DEF PublishInv

LEMMA PublishInvNext ==
  PublishInv /\ [PublishNext]_publishVars => PublishInv'
  <1> SUFFICES ASSUME PublishInv, PublishNext
               PROVE  PublishInv'
    BY PublishInvStutter
  <1>1. TopicsInv' /\ ObservePublish
    BY TopicsInvPublish DEF PublishInv, PublishNext
  <1>2. ASSUME NEW c \in Client, PublishStep(c) \/ RowStep(c)
        PROVE  PublishInv'
    <2>1. /\ Others(c) /\ now' \in 0 .. MaxNow
          /\ (Works(c) /\ UNCHANGED tables) \/ Leaves(c) \/ \E m \in Message : Aims(m)
      BY <1>2, ClientSteps DEF PublishInv, PublishTypesInv
    <2>2. drawn \subseteq drawn'
      <3>1. CASE PublishStep(c)
        BY <3>1, PublishMoves DEF PublishInv, TopicsInv, TypesInv, tables
      <3>2. CASE RowStep(c)
        BY <3>2, StepKinds, RowsStep DEF RowStep, PublishInv, TopicsInv
      <3> QED
        BY <1>2, <3>1, <3>2
    <2> QED
      BY <1>1, <2>1, <2>2, PublishInvClient
  <1> QED
    BY <1>1, <1>2, PublishInvTick DEF PublishNext

LEMMA PublishInvAlways ==
  PublishSpec => []PublishInv
  BY PublishInvInit, PublishInvNext, PTL DEF PublishSpec

(* The stored messages, attempts and deliveries are of their kinds; no two *)
(* messages share an id, and nothing is recorded of an unsaved one.        *)
THEOREM PublishTypes ==
  PublishSpec => []PublishTypeOK
  <1>1. PublishInv => PublishTypeOK
    BY DEF PublishInv, PublishTypesInv
  <1> QED
    BY <1>1, PublishInvAlways, PTL

(* The look-up of FindRecentByDedupID and the insert are two statements: a *)
(* deduplication id repeats inside its window only when the publishes      *)
(* overlapped, over any groups, failed deliveries and lives of a topic.    *)
THEOREM OverlapOnlyRepeats ==
  PublishSpec => []OnlyOverlappingPublishesRepeat
  <1>1. PublishInv => OnlyOverlappingPublishesRepeat
    BY DEF PublishInv
  <1> QED
    BY <1>1, PublishInvAlways, PTL

(* NextSequenceNumber reads the largest number before the insert: numbers  *)
(* increase in the order of publishing unless the publishes overlapped.    *)
THEOREM NumbersIncrease ==
  PublishSpec => []SequencesIncrease
  <1>1. PublishInv => SequencesIncrease
    BY DEF PublishInv
  <1> QED
    BY <1>1, PublishInvAlways, PTL

LEMMA EveryOnce ==
  PublishInv => EverySubscriberOnce
  <1> SUFFICES ASSUME PublishInv, NEW c \in Client, At(c, "deliver"), NEW a \in DOMAIN request[c].page
               PROVE  <<request[c].id, a>> \notin handed /\ a \notin Attempted(request[c].id)
    BY DEF EverySubscriberOnce, PublishInv, DispatchInv
  <1>1. TriedInv(c)
    BY DEF PublishInv, DispatchInv, Dispatching, At
  <1>2. a \notin Handed(request[c].id) /\ a \notin Attempted(request[c].id)
    BY <1>1 DEF TriedInv, At
  <1> QED
    BY <1>2 DEF Handed

(* Over all pages, while subscriptions come and go between them, none that *)
(* stays confirmed is left out and none is tried or handed a message twice.*)
THEOREM SubscribersOnce ==
  PublishSpec => []EverySubscriberOnce
  BY EveryOnce, PublishInvAlways, PTL

(* The pairs that a step hands: their subscription wants the message.      *)
Deserved ==
  \A pair \in handed' \ handed :
    \E c \in Client : At(c, "deliver") /\ request[c].id = pair[1] /\ pair[2] \in wanting[c]

LEMMA DeservedStep ==
  ASSUME PublishInv, PublishNext
  PROVE  Deserved
  <1>1. CASE Tick
    BY <1>1 DEF Tick, Deserved
  <1>2. ASSUME NEW c \in Client, PublishStep(c) \/ RowStep(c)
        PROVE  Deserved
    <2>1. Works(c) \/ Leaves(c) \/ \E m \in Message : Aims(m)
      BY <1>2, ClientSteps DEF PublishInv
    <2>2. CASE Delivers(c) /\ handed' # handed
      <3>1. /\ At(c, "deliver") /\ request'[c].to \in DOMAIN request[c].page
            /\ handed' = handed \cup {<<request[c].id, request'[c].to>>}
            /\ Wanted(request[c].page[request'[c].to], request[c].content)
        BY <2>2 DEF Delivers
      <3>2. WantedInv(c)
        BY <3>1 DEF PublishInv, DispatchInv, Dispatching, At
      <3>3. request'[c].to \in wanting[c]
        BY <3>1, <3>2 DEF WantedInv
      <3> QED
        BY <3>1, <3>3 DEF Deserved
    <2>3. ~(Delivers(c) /\ handed' # handed) => handed' = handed
      BY <2>1 DEF Works, Leaves, Begins, Looks, Takes, Saves, Lists, Records, Aims, Quiet
    <2> QED
      BY <2>2, <2>3 DEF Deserved
  <1> QED
    BY <1>1, <1>2 DEF PublishNext

(* A page is delivered by the rows it was read with: whoever is handed the *)
(* message was a confirmed subscriber that wants it while the publish ran. *)
THEOREM HandedOnlyToSubscribers ==
  PublishSpec => HandedToSubscribers
  <1>1. PublishInv /\ [PublishNext]_publishVars => [Deserved]_publishVars
    BY DeservedStep
  <1>2. PublishSpec => [][Deserved]_publishVars
    BY <1>1, PublishInvAlways, PTL DEF PublishSpec
  <1>3. [][Deserved]_publishVars => HandedToSubscribers
    BY PTL DEF HandedToSubscribers, Deserved
  <1> QED
    BY <1>2, <1>3, PTL
=============================================================================
