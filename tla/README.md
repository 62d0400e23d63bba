# MildStack: specifications of the core

MildStack emulates four AWS services (S3, DynamoDB, SQS, SNS) in one local Go
process per instance. These modules specify the program's own logic: what each
service promises of the state it keeps, across interleaved requests, timers,
failed writes, crashes and re-created names, and what the commands that start,
stop and delete instances do to each other. Paths are relative to the
repository; `core/` abbreviates `src/core/internal/`.

## The system

```
CLI (cobra): start, stop, delete - one process each, sharing ports, record files, data
   start -> HTTP server (gin) -> native adapters -> S3 | DynamoDB | SQS | SNS services
                                                             SNS -> SQS (bridge)
   each service: state in memory or in rows -> repository (file or SQLite)
                                            -> StateHook (snapshot for observers)
```

| Component | State | Operations | What makes it correct |
|---|---|---|---|
| **SQS delivery rules** (`core/resources/sqs/application/delivery_state.go`, helpers of `service.go`) | none | delay, lease, redrive eligibility, order of a message | a lease ends exactly at its deadline; FIFO order is total within a group |
| **SQS queues and messages** (`.../sqs/application/service.go`) | `State.Queues`, `State.Messages`, `State.RecoveryMetadata`, one mutex | create, delete, purge, set attributes; send, receive (long poll), delete, change visibility, and their batches; dead-letter sweep | exclusive leases, redrive limit, group order, deduplication, isolation of the lives of a queue name |
| **SQS worker** (`worker.go`) | a goroutine between `Start` and `Stop` | sweep on a timer | exhausted messages leave their queue without a poll |
| **SQS governance** (`service.go` 422-720) | tags, permissions, move tasks, by queue name | set, remove, start, cancel | not modelled, see below |
| **SQS persistence** (`repository_sqlite.go`, `service_persistence.go`) | SQLite tables rewritten whole by each Save | load, save, close | a restart shows the last state whose Save succeeded; a refused change is not made |
| **SNS topics, subscriptions** (`core/resources/sns/application/{topic,subscription}_service.go`, `infrastructure/`) | SQLite rows; no lock, statements interleave | create, attributes, permissions, tags, subscribe, confirm, filter, delete | one subscription per endpoint; only confirmed ones receive; deleting a topic takes them along; an update loses no other update |
| **SNS publish and delivery** (`publish_service.go`, `delivery_dispatcher.go`, filter evaluation) | saved messages, delivery attempts; no lock | publish, batch, dispatch page by page, record an attempt | every confirmed subscriber is tried, once, with what its filter lets through; FIFO deduplication and numbering |
| **SNS platform, SMS, administration** | SQLite rows | applications, endpoints, tags, sandbox numbers, SMS attributes | an endpoint belongs to an application and is its token's only one; a number is verified in time |
| **S3** (`core/resources/s3/application/service_*.go`, `domain/state*.go`) | buckets, objects, versions, locks, multipart uploads (memory only); mutex in put and copy alone | bucket and object operations, versions, locks, multipart, listings | a named payload exists; a locked object is neither replaced nor removed; versions keep number and content; listings lose nothing |
| **S3 persistence** (`payload_store.go`, `repository_fs.go`) | `state.json` (temporary file, then rename), payload files | prune, validate, save, load, store, delete | after a crash every object reads as answered |
| **DynamoDB** (`core/resources/dynamodb/application/service*.go`, `domain/state.go`) | tables, items; copy, save, then replace, under one mutex | table and item operations, batches, transactions, reads page by page | writes are all or nothing, in memory and on disk; a read page by page loses and repeats nothing |
| **Instance runtime** (`core/delivery/cli`, `core/application/runtime`, `core/composition`, `src/core/cmd/mildstack`) | records in `active/` and `saved/`, data directories, ports | start, detached start, stop, delete, with `--all` | a port keeps its instance; a running server can be found; a deleted instance does not come back |
| **HTTP adapters** (`core/delivery/http`) | DynamoDB: table metadata in maps; the others: none | dispatch, conditional writes, ranges | a request does what it is documented to do; nothing durable lives in the adapter |
| **CLI presentation, desktop app, web site** | none that the core depends on | display | not modelled, see below |

Hard behaviour, by component, is the `hazards` list of `PROJECT.json`, each at
its line. In short: every SQS request is serialised by one mutex, so what is
hard there is not races on memory but long legal sequences (receive, expire,
receive again, redrive; delete and re-create), clock readings taken before the
mutex, and a Save that is refused after the change was made. SNS has no lock at
all: each request is a sequence of statements that others come between. S3 has a mutex in two
operations only, and two stores (payloads, state) written one after the other.
DynamoDB commits copies, but its adapter reads, decides and writes in separate
calls. The commands that manage instances are processes that read, decide and
write files nobody locks.

## Modules

| Module | Models | Notes |
|---|---|---|
| `MessagePool` | the promise of SQS | a pool that lends each message to one client at a time until it is removed |
| `SqsDelivery` | the delivery rules | operators: records of queues and messages, visibility, lease deadline, eligibility, order |
| `SqsQueue` | the SQS service | one action per operation; `EXTENDS SqsDelivery`; implements `MessagePool` (`Pool == INSTANCE MessagePool WITH ...`) |
| `SqsPersistence` | the service and its SQLite file | every change with its Save, failed writes, restarts; `EXTENDS SqsQueue` |
| `MCSqsQueue`, `MCSqs`, `MCSqsPersistence` | small instances | initial states, requests and next-state relations of the `sqs_` runs |
| `SqsQueueProofs`, `SqsLifeProofs` | theorems on `SqsQueue` and `SqsPersistence` | types, leases, order, deduplication; lives of a queue, recovery records, cooldowns, redrive limit, the pool; what failed writes and restarts cannot undo |
| `TableStore` | the promise of DynamoDB | a durable store in which a request happens whole or not at all |
| `DynamoTables` | the DynamoDB service and its file | implements `TableStore` (`Durable == INSTANCE TableStore WITH ...`) |
| `DynamoReads` | Query and Scan, page by page | `EXTENDS DynamoTables` |
| `DynamoRequests` | the DynamoDB adapter | handlers of several calls, its metadata; `EXTENDS DynamoReads` |
| `MCDynamo` | small instances | |
| `DynamoProofs` | theorems on `DynamoTables`, `DynamoReads`, `DynamoRequests` | types, durability, the refinements, complete reads, deletion protection |
| `S3State` | `domain.State`, and what is pruned, validated and loaded | operators only |
| `S3Objects` | the S3 service, its payload files and its state file | `EXTENDS S3State` |
| `S3Requests` | the S3 adapter | dispatch, the two steps of a GET, ranges; `EXTENDS S3Objects` |
| `S3Listing` | the pages of a listing | |
| `S3Proofs` | theorems on `S3Objects`, `S3Requests` and `S3Listing` | types, reads, structures, payloads, locks, versions; what a GET answers; what a listing returns |
| `MCS3` | small instances | |
| `SnsFilter` | filter policies | operators only |
| `SnsFiltering` | their evaluations | the variable `filtering` is the evaluation made last; `EXTENDS SnsFilter` |
| `SnsTopics` | topics and subscriptions | statement by statement; `EXTENDS SnsFilter` |
| `SnsPublish` | publish, deduplication, dispatch | `EXTENDS SnsTopics` |
| `SnsPlatform` | applications, endpoints, phone numbers | `EXTENDS SnsPublish` |
| `SnsProofs` | theorems on `SnsTopics` and `SnsFiltering` | one subscription, deleted topics, confirmation, updates; the laws of filters |
| `SnsPublishProofs` | theorems on `SnsPublish` | repeats, numbers, dispatch; `EXTENDS SnsProofs` |
| `SnsPlatformProofs` | theorems on `SnsPlatform` | endpoints, phone numbers; the others in the whole service; `EXTENDS SnsPublishProofs` |
| `MCSns` | small instances | |
| `InstanceRuntime` | the commands on instances | one process per command |
| `MCInstances` | small instances | |
| `InstanceProofs` | theorems on `InstanceRuntime` | types, listeners, instances of a port, deletion, hidden servers |

### How `SqsQueue` corresponds to the code

*State.* `queues`, `messages` and `recovery` are `State.Queues`,
`State.Messages` and `State.RecoveryMetadata`; `now` is the service's clock.
`messages` is a function of message ids; an id that is not in the state maps to
`Absent`. A queue keeps its place under its name after deletion, with
`deletedAt` set, as in the code. `phantoms` counts the records with an empty
queue and id that a FIFO batch appends for each duplicate. `sends`, `ordinal`,
`due`, `lastPurge` and `lastDelete` are history: properties read them and no
guard does, except that `Fresh` takes message ids that were never used (they
are random UUIDs).

*Actions.* Each operation takes `s.mu`, checks, changes the state and commits
before it lets go, so each is one action. A long poll locks once per poll; each
poll is one action, `ReceiveMessage` or `ReceiveNothing`. Both contain the
dead-letter sweep that the code runs first, for all queues. Requests that fail
or change nothing are stuttering steps. The polls and the worker read the clock
before they lock: their actions take a time `t` from `Readings`, the last
`MaxWait` clock values. `MaxWait < Cooldown` (60 s in the code) is assumed: a
request does not wait a minute for a mutex that is held for one save.

*Data.* Message bodies, attributes, MD5 sums and URLs are left out; a body
appears as the hash that content-based deduplication uses. A receipt handle is
the pair of the message and the number of the receive that issued it. 0 is Go's
zero time, as well as a number the code treats as missing. Attribute maps are
records of the attributes the service reads. `SetQueueAttributes` merges maps,
and any map may result. Sequence numbers and message ids are chosen by the
environment (`\E n`, `\E m`) and fixed by the action's guard. Sort ties are
broken by id, as in the code.

### How `SqsPersistence` corresponds to the code

*State.* `disk` is what the four tables hold, a copy of the state in memory
(`Memory`). `accepted`, `released`, `removed` and `held` are history: what
clients were told, and what they asked to remove. `failures` counts the writes
that failed for a reason outside the program.

*Actions.* `Stored...` is the action of `SqsQueue` with the Save that ends it.
`Save(ok)` replaces `disk` or leaves it, in one transaction; `Commit(ok)`
reports the outcome, and memory stays changed either way, as in
`commitStateLocked`. A receive that redrives something saves twice
and ignores the first result, so a failed receive may leave the redrive
written (`CommitSweptOnly`). A batch that cannot be saved fails as a whole,
although memory has changed. `RepeatedSend`, a duplicate on a FIFO queue, is
an action here although it changes nothing: it tells the client that the
message was sent. `Savable` is the primary key of `sqs_messages`; foreign keys
are not enforced, because no `PRAGMA` turns them on. `Restart` ends the process
between two requests and loads the file.

### How the DynamoDB modules correspond to the code

*State.* `memory` is `Service.state`, `disk` what the SQLite file holds, `open`
whether the service has its repository. A table is its status, the time it
becomes active and its indexes; a deleted table keeps its record and its items,
as in the code. An item is found under its table and the *text* that joins its
key attributes (`KeyText`), which two different keys may share; of its
attributes two are kept, the key and one more, which is what conditions,
updates, filters and an index look at.

*Actions.* `CreateTable` ... `TransactWriteItems` are the methods of the
service: copy, change the copy, save it, make it the state, under one mutex and
so one action each. A failed Save changes nothing and is no step; `Commit` saves
only while the service has a repository, since after `Stop` it answers on
without one. `Restart` loads the file. In `DynamoReads` each page of a Query or
Scan is one action that finds its start key in the items as they are then.
`DynamoRequests` models the handlers of the adapter: they describe the table,
read the item, decide, and write, in calls that others come between; `meta` is
the adapter's own map.

### How the S3 modules correspond to the code

*State.* `memory` is `domain.State`, one record with the fields of the same
name; `uploads` the multipart uploads, `disk` the contents of `state.json`,
`payloads` the payload files. A payload file is named by a hash of the object's
name and of its content, so it is the pair of both. `putting` is the put that holds
the mutex, `up` whether the process runs. `may`, `promise`, `known` and `torn`
are history: what clients were told, and which payloads a delete removed
without a save since. `meanwhile` and `overtaken` are history as well: what was done to
the put under way by requests that it does not know of, and the puts that
finished in spite of it.

*Actions.* A request changes memory and then saves everything (`Persist`):
missing payload files first, then the file, if the state is valid
(`validateState`) and the disk takes it. A refused Save leaves the change in
memory. A put is three actions (checks, the payload file, the state), since its
body arrives while other requests are served; all other requests are one
action. The lock-free requests run on Go's memory as if one at a time: a torn
map is not modelled. No request but a copy or another put waits for a put, so between the
put's checks and its record clients delete its bucket or its object, complete
an upload of its name, or protect what it is about to replace. Three things go
wrong then, and the model has them all:

* `DeleteBucket` removes the bucket, and the put adds an object without one.
  `validateState` refuses every Save until the bucket is created again
  (`ObjectsHaveBuckets`).
* A delete of an object with the same name and content removes the payload file
  that the put has stored and is about to record, so later reads of the object fail.
* A hold or a retention that is acknowledged while the body is received is
  cleared when the put records its object (`clearObjectProtection`).

`overtaken` marks these puts as long as the effect shows, and the properties
except what is marked and nothing else. `Crash` loses memory at any step; `Start` needs every
payload that the file names, as `Load` does. `S3Requests` is `dispatch`: the operation that a
method, a path and the names of query parameters lead to; a GET is two actions.
`S3Listing` has the keys of one bucket and a listing whose pages are requests of
their own.

### How the SNS modules correspond to the code

*State.* The rows of the tables, by ARN: `topics`, `subscriptions`, `messages`,
`attempts`, `applications`, `endpoints`, `phones`. ARNs of subscriptions are
random in the code and drawn from `Arn` here, tokens of pending subscriptions
likewise. `request[c]` is where the request of a client stands: the next
statement with the values it read before.

*Actions.* Each SQL statement, or transaction, is one action; a request is a
sequence of them, and `Fail` ends it between any two (an error of the database
or the end of the process). An update writes the whole row it read. `Deliver`
hands a message to an endpoint and `RecordAttempt` writes the attempt; the
outcome of the transport is any of those that its kind of endpoint allows, an answer may be lost. Times
are whole seconds. The code compares them as text that drops trailing zeros of
the fraction, which orders two times of one second wrongly, so a message of the
second in which the window begins may be found or not (`Duplicates`, `SureDuplicates`).
Deduplication looks at the saved messages, so it survives a deletion of the topic. After a
dispatch that failed, a FIFO retry is a duplicate and reaches nobody: no
property denies this, it is what the code promises.

*History.* `noticed`, `rivals`, `late`, `steady`, `wanting`, `missed`, `seen`,
`twins`, `retokened`, `strays` and `revived` record which requests overlapped.
Many properties say that something can go wrong only for requests that did:
without locks they cannot say more, and with the exception named exactly they
say what the statements do guarantee.

### How `InstanceRuntime` corresponds to the code

*State.* `active` and `saved` are the record files, `data` the directories of
data, `proc` the processes: which command, its next step, the port it tries and
the last it may try, its id, the summaries it works off. Nothing locks them.

*Actions.* Each read or write of a record, each probe and each listen is an
action. A start probes its port by listening and closing again (three tries from 4566
if none was named), resolves the id of the port, opens the services' stores,
listens, writes the saved and the active record, reports ready and serves; what ends the server is
recorded as an error. A detached start resolves an id and opens its stores
before its child does the same again. `Interrupt` is Ctrl-C or a kill, at any
step: no signal is handled, so records stay. Stop and delete load all records
first, then kill, unlist, unsave and wipe one instance after another.

*Left out.* Process ids are not reused and no other program has a port; records are written in one
step; records of older versions, named by port, do not occur.

*Mistaken variants.* In all modules, operators so marked differ from the
definition that follows them by one plausible slip (a dropped guard, an
off-by-one). No action uses them. Each property of a run was seen to fail when
one of them takes the place of its original.

## What the runs check

| Run | Instance | Shows |
|---|---|---|
| `sqs_queues` | a source with a redrive policy and its target, two messages of which the second is plain (no delay, one receive), late polls, changing attributes; or both names created and one of them deleted, one purged and created again while one message moves between them; a worker; clock to 4, cooldown 2, waits up to 1, three receives | `TypeOK`, `LeaseHonoured`, `RedriveLimit`, `IncarnationIsolation`, `RedriveRecorded`, `CooldownHonoured`, `ExhaustedIsRedriven`, `PoolSpec` (refinement) |
| `sqs_fifo` | one FIFO queue, deduplicating by content over the queue or by id within a group; three messages, two groups, two ids, a batch of three entries of which one is invalid and two can collide; clock to 4, window 1 | `FifoOrder`, `DedupHonoured` |
| `sqs_no_worker` | the first queue of `sqs_queues` with one message, clock to 6, and no worker | `ExhaustedIsRedriven` **fails**, see below |
| `sqs_restart` | one message; a queue with a redrive policy whose attributes, life and leases change while one write may fail, or a FIFO queue with sends, repeated sends and batches that leave up to two phantoms; clock to 4, two receives, any number of restarts | `GrantedLeaseHonoured`, `RemovalIsFinal`, `SavedIsKept` |
| `sqs_poison` | a FIFO queue, two messages, every write possible | `AcceptedKept` **fails** |
| `dynamo` | one table, three keys of which two share a text, values 0..2; either two clients with requests of the adapter, or reads in pages of 1 and 3 among single calls, or single calls, batches past the limit of 2, transactions, `Stop` and restarts | `MemoryIsDurable`, `ReadIsComplete`, `DurableSpec` (refinement) |
| `dynamo_protection` | the table created with deletion protection | `ProtectionKept` **fails** |
| `s3` | two alike buckets, one key in each, an empty and a full body; by subject: buckets with subresources, of which one has versions or a lock, contents under every choice of versioning, multipart uploads of two parts, locks, requests through the adapter with ranges, listings of five keys in pages of 1 and 2; two versions, one failed Save, clock to 2, any number of crashes | `TypeOK`, `StructuresConsistent`, `PayloadsKept`, `ReadsAreJustified`, `LocksHonoured`, `VersionsKept`, `GetIsJustified`, `ListingIsComplete` |
| `s3_multipart` | the same | `VersionsHaveContent` **fails** |
| `s3_routes` | one bucket, requests with the parameters of documented subresources | `ChangesAsDocumented` **fails** |
| `sns` | two alike clients whose requests interleave; by subject: a topic and its attributes, subscriptions of a queue and a site under two ARNs, a FIFO topic over its lives with publishes and a batch, the dispatch of a publish to two subscriptions in pages of 1, filter policies over two keys, applications and endpoints, phone numbers | `PlatformTypeOK`, `OneSubscriptionPerEndpoint`, `DeletedTopicsAreForgotten`, `ConfirmedByToken`, `FilterLaws`, `OnlyOverlappingPublishesRepeat`, `SequencesIncrease`, `EverySubscriberOnce`, `EndpointsConsistent`, `VerifiedInTime`, `OnlyOvertakenUpdatesLose`, `HandedToSubscribers` |
| `instances` | three commands from an empty base directory, with a named port, the default port and one to fall back on; or three commands against an instance that is served already | `RuntimeTypeOK`, `OneInstancePerPort`, `DeletedForGood`, `OnlyRivalsHideServers` |

The properties, in words (their comments name the code):

*SQS.*

* `LeaseHonoured` - while the client that last received a message may keep it,
  no poll of any queue returns it and no sweep moves it, even one that read the
  clock earlier, whatever happens to the attributes of the queue and whoever
  presents an older handle.
* `RedriveLimit` - a message is not handed out more often than a complete
  redrive policy says, worker or not.
* `FifoOrder`, `DedupHonoured` - nothing of a group is handed out before an
  earlier send of it left the queue, although sequence numbers are reused and
  shared; two requests with one deduplication id bring two messages into the
  group only if they are more than the window apart.
* `IncarnationIsolation` - a name that is created again starts empty: every
  message came to its queue in the queue's present life.
* `RedriveRecorded` - a redriven message has its recovery record unless an end
  of its redrive was purged or deleted since.
* `CooldownHonoured` - purges of one name, and deletes of one name, are a
  cooldown apart, also across deletion and re-creation, which reset the times
  the code compares with.
* `ExhaustedIsRedriven` - an exhausted message leaves its queue eventually.
* `AcceptedKept` - a message whose send was answered with success is in the
  service until a client asks to remove it, across failed writes and restarts. It
  fails of FIFO queues (`sqs_poison`).
* `GrantedLeaseHonoured` - `LeaseHonoured` for what clients were told: a lease
  that was answered with success is honoured after a restart too, whatever
  changes were refused in between.
* `RemovalIsFinal` - a removal that was answered with success is not undone by a
  failed write or a restart.
* `SavedIsKept` - what the file has stays in it and in memory until a client asks to
  remove it, in queues of any kind; and a send that is answered with success has
  written its message, or repeats one that was in memory. So what `sqs_poison` loses
  is a message that only a repeated send was answered for.
* `PoolSpec` - whatever is done to queues, groups and dead letters, the messages are a
  `MessagePool`: none is lost, copied, lent while it is lent, or brought back after its
  removal, and the number of its loans is forgotten only with the message.

*DynamoDB.*

* `DurableSpec` - the file moves by whole requests whose conditions all held
  when they took effect, through failed saves, `Stop` and restarts.
* `MemoryIsDurable` - until it is stopped, the service never knows more than its file.
* `ReadIsComplete` - a read that was completed page by page returned every item
  that it matched from start to end, and once, whatever was written between the
  pages.

*S3.*

* `StructuresConsistent` - nothing is left of a deleted bucket or object, and
  what versioning gates has it; except the object of a put whose bucket was
  deleted under way. The exception is needed: `ObjectsHaveBuckets` fails, see below.
* `PayloadsKept` - what memory and `state.json` name has its payload file,
  although versions share files; except the payload that was deleted while a put
  was about to record it, and in the file what a delete removed whose Save failed.
  The exceptions are needed: `FileCanBeLoaded` fails, see below.
* `ReadsAreJustified` - an object reads as the last answered request left it,
  after a crash too; a request answered with an error happened or did not.
* `LocksHonoured` - while a client may rely on a hold or a retention, nothing
  replaces or removes the object, except a put that had checked it before the
  client was told. A promise that was broken stands: replacing the object does not mend it.
* `VersionsKept` - a saved version keeps its number and its content, which can
  be read unless its payload was deleted before the put recorded it.
* `GetIsJustified` - a GET answers with what the name held since it began, or
  with the bytes of it that Range asks for; it fails only if the object was
  deleted meanwhile, or its payload before it was recorded.
* `ListingIsComplete` - a finished listing returned every key that stayed and
  nothing that never was, and repeated only a common prefix under which
  objects were put meanwhile.

*SNS.*

* `OneSubscriptionPerEndpoint`, `EndpointsConsistent` - an endpoint has one
  subscription to a topic, a device token one platform endpoint, but for
  requests that overlapped (or, for tokens, an endpoint that was given another token).
* `DeletedTopicsAreForgotten` - a deleted topic leaves no subscription to a
  later topic of its name.
* `ConfirmedByToken` - an http endpoint is not confirmed before its token was
  posted there.
* `OnlyOvertakenUpdatesLose` - an update changes one thing, and takes back
  another's change only if that came between its read and its write.
* `OnlyOverlappingPublishesRepeat`, `SequencesIncrease` - a FIFO deduplication id is
  accepted once in its window, but for the second in which that ends, and numbers
  follow the order of publishes, as far as publishes did not overlap.
* `EverySubscriberOnce`, `HandedToSubscribers` - an answered publish was tried
  once at every subscription that stayed confirmed, and handed only to those
  that wanted it at some moment of it.
* `FilterLaws` - of every evaluation of a policy: one more condition
  of a key lets no message out that came in, one more key lets none in, and of a
  value and its anything-but exactly one serves a message that has the key (`Laws`).
* `VerifiedInTime` - a number is verified with the password of its own row,
  while it is good.

*Instances.*

* `OneInstancePerPort` - a port has one instance, unless two starts overlapped.
* `OnlyRivalsHideServers` - the record of a running server, which is what stop
  and delete find it by, is lost only to a command that was under way when it
  was written.
* `DeletedForGood` - a deleted instance does not come back.

*Are the bounds enough?* SQS: two messages are the fewest that compete for a
batch of one and for a sweep, and one of them is enough to be delayed and received again; three are needed for a first send, a collision and
a restart of sequence numbers in one group beside another group. Three receives
go one past the limit of the policy in use, which is 1. A clock to 4 lets a
lease of 1 or 2 start, end and start again, and a queue be created, deleted and
created again after the cooldown. `MaxWait` 1 puts one clock step between a
reading and its use. `sqs_restart` asks of each message alone what became of it,
so one is followed; what a second adds (a send that fails because of the first)
is `sqs_poison`. `MaxSends` ends batches of duplicates, which a restart makes
possible again. `sqs_fifo` has no late readings, which `sqs_queues` covers for
leases and the proofs for all. DynamoDB: two keys with one text and a third in
another place of the order are what start keys and batches can confuse;
transactions of three writes have a check between two writes of one item. S3:
two versions are the fewest that share a payload; two buckets the fewest for copies and replication.
A VIEW leaves out the two variables that only `s3_routes` looks at. Sequences
of two letters have every kind of range: whole, inner, suffix, past the end.
SNS: two clients are the fewest that overlap, two ARNs the fewest that collide; two messages the fewest that repeat. Instances: three commands are
two that compete and one that observes or removes; with a server there may be two under
way at once, and no server fails while it writes its records (the first half has that).
`MaxNow`, `MaxAttempts`, `MaxPhantoms`, `MaxFailures`, `MaxSends`, `MaxVal`, `MaxVersions`,
`MaxSize`, `MaxArn`, `MaxMessage`, `MaxEndpoint` and `MaxTags` are all the bounds; all but
`MaxTags`, a limit of the code, are of the model. The theorems hold for every value of those
their modules have. The `about` variable of an MC module splits a run into its subjects; a subject
drops the actions and values that cannot matter to it, as the MC module says.
Symmetry is used for names and clients that no constant tells apart, and not in
the run that checks liveness. All runs set `CHECK_DEADLOCK FALSE`: a server
without requests stands still, and so does a model once its clock or its ids end.

*Fairness.* `QueuesSpec` assumes weak fairness of `WorkerAdvance`: after `Start` the worker loops over a timer of at most its tick
and sweeps each time, until `Stop`. No client is assumed to do anything.
`NoWorkerSpec` assumes that time passes (`WF_vars(Tick)`) and nothing else, since the
program never starts the worker. The other modules state safety only: what their requests
complete depends on clients and on a disk, of which the code may assume nothing.

*Seven disagreements with the documentation.*

1. `docs/architecture-core.md` says that SQS runs a background worker;
   `Service.Start`, which would start it, is called by tests only, so a message
   that used up its receives waits for the next poll of any queue
   (`sqs_no_worker`).
2. The same document says that SQS persists its data in SQLite. A batch that
   repeats two stored messages of a FIFO queue appends two records without queue
   or id, which no table with that primary key can hold; from then on every Save
   fails. A send is refused but stays in memory, its retry is answered with
   success as a duplicate without a Save, and a restart loses the message
   (`sqs_poison`).
3. `docs/data-models-core.md` says that repositories are authoritative for
   durable state and that delivery layers do not own it; the DynamoDB adapter
   keeps deletion protection in a map of its own, and a restart lifts it
   (`dynamo_protection`).
4. It also says that an S3 object or version has a body or a payload reference;
   completing a multipart upload in a versioned bucket records a version with
   neither, after which no state can be saved (`s3_multipart`).
5. The README of S3 documents `?retention` and `DELETE ?uploadId`; the adapter
   does not look at them, so the first replaces the object and the second
   deletes it (`s3_routes`).
6. `docs/data-models-core.md` says that an object must reference an existing
   bucket; `DeleteBucket` takes no mutex and removes the bucket under a put, which
   then leaves an object without one, and no state can be saved (`ObjectsHaveBuckets`).
7. The README of the program promises persistent local state; a delete removes the
   payload before it saves, and if that Save fails and the process ends, the file names
   a payload that is gone and the service does not start (`FileCanBeLoaded`).

The last two have no run of their own: with `INVARIANT ObjectsHaveBuckets`, or
`FileCanBeLoaded`, in `S3.cfg` TLC finds them violated after five and four steps.

## What is proved

### SQS

`SqsQueueProofs` and `SqsLifeProofs` prove, from `DeliveryAssumption` and
`ServiceAssumption` alone (the types of the constants, `MaxWait < Cooldown`),
for every set of names, messages and requests, every window and every bound:

| Theorem | Statement |
|---|---|
| `TypeCorrect` | `Spec => []TypeOK` |
| `LeaseExclusive` | `Spec => []LeaseHonoured` |
| `OrderKept` | `Spec => []FifoOrder` |
| `Deduplicated` | `Spec => []DedupHonoured` |
| `LivesApart` | `Spec => []IncarnationIsolation` |
| `RedrivesOnRecord` | `Spec => []RedriveRecorded` |
| `CooldownsKept` | `Spec => CooldownHonoured` |
| `ReceivesLimited` | `Spec => RedriveLimit` |
| `ImplementsPool` | `Spec => PoolSpec` |
| `RestartsTyped` | `PersistentSpec => []PersistentTypeOK` |
| `LeasesOutliveRestarts` | `PersistentSpec => []GrantedLeaseHonoured` |
| `RemovalsOutliveRestarts` | `PersistentSpec => []RemovalIsFinal` |
| `SavedMessagesAreKept` | `PersistentSpec => SavedIsKept` |
| `LossNeedsRefusedSave` | `PersistentSpec => [][AcceptedKept => AcceptedKept' \/ (Restart /\ disk.messages # messages)]_persistentVars` |
| `SavesKeepAccepted` | `PersistentSpec /\ [](disk.messages = messages) => []AcceptedKept` |
| `StandardQueuesKeep` | `StandardOnly /\ PersistentSpec => []AcceptedKept` |
| `OrderOutlivesRestarts` | `PersistentSpec => []FifoOrder` |
| `DeduplicationOutlivesRestarts` | `PersistentSpec => []DedupHonoured` |

`LeaseHonoured`, `FifoOrder` and `DedupHonoured` are not inductive. `Invariance` proves the invariant they
follow from,

    IInv == TypeOK /\ IdsInv /\ LeaseInv /\ SequenceInv /\ FifoOrder /\ DedupHonoured

* `IdsInv`: a message that is present has an ordinal between 1 and `sends`, and an
  id that was never used has no lease; so a new message is later than every other.
* `LeaseInv`: while a client's `due` lies ahead, the message carries the same
  lease itself: it was received, has a timeout of its own, and `due` is
  `receivedAt + lease`. This is why a lease survives changes of the queue's
  attributes: the timeout is written into the message at each receive and
  preferred from then on. A reading `t <= now` that is before the deadline sees
  the message leased; and one before the receive sees it leased as well.
* `SequenceInv`: among siblings (same queue and group, not redriven, sent while
  the queue was FIFO) a later send has a larger sequence number, a batch
  excepted, whose entries share it. Numbers are reused only when every sibling
  is gone.

The proof is organised by what a step does to a message rather than by
action: `MessageFate` shows that each action leaves a message as it was but for
its lease, removes it, redrives it, or brings it new; the steps of `LeaseInv`,
`SequenceInv`, `FifoOrder` and `DedupHonoured` are then one case per fate.
`FifoOrder` needs that a message that is handed out was not blocked, hence has
no earlier sibling (`SiblingsBefore`).

`SqsLifeProofs` proves a second invariant,

    LifeInv == TypeOK /\ CooldownInv /\ IncarnationIsolation /\ RecordInv

`IncarnationIsolation` is inductive once types are known: a new life needs a
deleted queue, a deleted queue is empty, and only a live queue takes messages.
`RecordInv` is `RedriveRecorded` with the fact that the source of a redrive is
a queue name. `CooldownInv` says what the queue record still tells of the last
purge and delete: it equals the recorded time while there is one, and once
deletion and re-creation have reset it, the queue's `createdAt` is a cooldown
later than both. `RedriveLimit` needs only types: a receive selects from the
state its own sweep left. Here the steps are split by what they do to the
place of a message (`MessagePlace`: it stays, moves, comes or goes).

`PersistentSpec` is the service with its file, from an empty one: every action of
`SqsQueue` with the Save that ends it, failed writes and restarts. Two lemmas
carry its proofs: a step that is no restart is one of the service
(`ServiceStep`), and afterwards the file holds what it held, what memory holds
now, or what memory held after a sweep (`DiskFate`).

    PersistentInv == PersistentTypeOK /\ HeldInv /\ UnusedInv /\ GoneInv

* `HeldInv`: until the time that a client was told of, the message carries a lease
  that lasts at least so long, in memory and in the file, which may hold two
  different ones. It takes the place of `LeaseInv`, which a restart breaks: `due`
  remembers a lease that was never saved, and nobody was told of.
* `UnusedInv`: an id that was never used is nowhere. Ids are not drawn twice, so what
  is in neither memory nor file does not come back (`OutStays`), which is
  `GoneInv`, and with it `RemovalIsFinal`.
* `OrderInv` states the invariant behind `FifoOrder` and `DedupHonoured` of memory and
  of the file alike (`Ordered`); the file is an earlier state of memory, or that
  state swept, and later sends have later ordinals (`OrderedStays`). Numbers that a
  restart forgets are given again, and order survives it.

`AcceptedKept` is no theorem of every service, as `sqs_poison` shows: a FIFO queue
answers a repeated send with a message that a failed Save left in memory only. The
theorems say what it takes. A send is answered with success once the file has its
message, or repeats one in memory (`AcceptedSaved`), and only a request to remove a
message takes it out of either (`PresentStays`, `SavedStays`). Hence what was saved is
kept (`SavedInv`: what is in the file and was not to be removed is in memory); a step
that loses an accepted message is a restart from a file behind memory, which a refused Save leaves; and
no message is lost where `StandardOnly` says that no client asks for a FIFO queue,
since then there is no repeat.

`ImplementsPool` rests on `IInv`: what the service lends is past its `due` (`LeaseInv`,
through `LeaseHonoured`), and a message that was never used is not in the pool
(`IdsInv`). A sweep, which moves messages between queues, is a stutter of the pool
(`SweptLoans`); a receive is `Pool!Hand` (`PoolHands`), since its sweep keeps the count
of loans and a lease is positive.

### DynamoDB

`DynamoProofs` proves, from the types of the constants alone (`TablesAssumption`,
`ReadsAssumption`, `RequestsAssumption`), for all tables, keys, texts and orders of
keys, requests, batches, page sizes and limits:

| Theorem | Statement |
|---|---|
| `TypesKept` | `TablesSpec => []TablesTypeOK` |
| `Durability` | `TablesSpec => []MemoryIsDurable` |
| `Implements` | `TablesSpec => DurableSpec` |
| `AdapterRefines` | `DynamoSpec => TablesSpec` |
| `CompleteReads` | `DynamoSpec => []ReadIsComplete` |
| `ProtectionWithoutRestart` | `DynamoSpec /\ [][~ProcessRestart]_dynamoVars /\ []OneByOne => []ProtectionKept` |

The invariant is `TablesInv == TablesTypeOK /\ MemoryIsDurable`. `Implements` needs
it because a request is decided from memory while the store of the refinement
is the file: `MemoryIsDurable` makes them equal while the repository is open, and once it
is closed the file does not move. Each service operation is then either a
whole request of `TableStore` (`RequestStep`, `BatchStep`) or leaves the items
alone (`TableStep`). A batch is a request of its own with the entries up to
the limit (`Processed`).

`AdapterRefines` carries these results to the adapter: a request under way is one
that was offered (`RequestsTyped`), so each of its calls is an operation of the
service. `CompleteReads` needs two more parts in the invariant. `KeysInv`: in
memory and in the file an item is kept under the text of the key attributes it
carries, if it carries any; `CopyAfter` makes its copies one after another, so this goes
through a first copy for which it would fail. Hence only one item can carry a
cursor's attributes, and a page that finds it goes on exactly behind the place
the last page ended, although other items of the same text may have been there
in between. `ReadingInv`: an item that is to be returned and has not changed has been
returned once if the cursor has passed its place and not at all otherwise;
`FollowsIsOrder` says that places are totally ordered, in either direction.

`ProtectionKept` fails in `dynamo_protection`, where a restart empties the adapter's map.
`ProtectionWithoutRestart` shows that this, or two overlapping requests
that change one table (`OneByOne` excludes them; it fails with two clients otherwise), is
what it takes. `ProtectionInv`: the adapter remembers what it promised, a request that is
about to delete a table found no protection that still stands, and a table lives on while
a request is about to store its settings.

### S3

`S3Proofs` proves, from the types of the constants alone (`S3Assumption`,
`RequestsAssumption`, `ListingAssumption`), for
all buckets, keys, bodies, uploads, subresources, locks and retentions,
whatever saves fail and whenever the process ends:

| Theorem | Statement |
|---|---|
| `S3Types` | `Spec => []TypeOK` |
| `S3Reads` | `Spec => []ReadsAreJustified` |
| `S3Structures` | `Spec => []StructuresConsistent` |
| `S3Payloads` | `Spec => []PayloadsKept` |
| `S3Locks` | `Spec => []LocksHonoured` |
| `S3Versions` | `Spec => []VersionsKept` |
| `ContentForgottenByUploads` | `Spec => OnlyUploadsForgetContent`: only completing a multipart upload in a bucket with versions leaves a version without its content |
| `ContentWithoutUploads` | `Spec /\ [][~CompletesAmongVersions]_vars => []VersionsHaveContent` |
| `S3RequestsRefine` | `RequestsSpec => Spec` |
| `S3Gets` | `RequestsSpec => []GetIsJustified` |
| `S3Listings` | `ListingSpec => []ListingIsComplete` |

Nothing is assumed of clients: whatever they send while a put is under way is
served. The invariant has two halves. `S3Inv` is about what was saved and told:

* `TypesInv`: types, and in memory and file each version has its own number
  and one number is the greatest (`Numbered`), so that `nextSequence` has one
  that is new.
* `DownInv`: without a process there is no put and no upload.
* `ReadsInv`: the file is a state that `validateState` takes, and holds of each
  name what a client may expect, as does memory.
* `VersionsInv`: what was saved as a version is in the file, and in memory with
  its reference.

`SafeInv` is about what requests without the mutex could break:

* `ConsistentInv`: `StructuresConsistent` of memory, and of the file, which a
  restart makes the memory and whose objects all have buckets.
* `UploadsInv`, `PutInv`: an upload's bucket exists. The bucket of a put under
  way exists, nobody relies on the protection of its name, and its payload file
  is there once it was stored - or `meanwhile` says which of these a request has
  changed, and the put is marked in `overtaken` when it finishes (`PutOvertaken`).
* `PayloadsKept`, which is inductive with the others.
* `GuardInv`: what a client was promised is in memory and in the file, with the
  hold or with a date no earlier than the one it was told; or the name is that of an
  overtaken put.

A mark is dropped only when its effect does not show any more
(`StandingBucket`, `StandingPayloads`, `StandingProtection`), so an exception never has
to be given up too early.

A request is reduced to `Requests`: it makes some next state from memory and
persists it (`Persist`), and that state adds versions under new numbers, changes
no other name's content (`Follows`), and leaves the structures consistent, the payloads
kept and what is relied on alone, but for what is marked (`Orderly`). `RequestsKeep` is proved once, for a save that succeeds and for one
that fails; each operation then only shows what its state operators do
(`Puts`, `Removes`, `OnlyProtection`). `NormalKeeps` and `LoadedKeeps` say the
same of what goes to the file and comes back. Steps that save nothing
(`Unsaved`), `Crash`, `Start` and `Tick` have lemmas of their own.

`ContentForgottenByUploads` bounds the fourth disagreement with the documentation: a
put or a copy names a payload before its version is recorded (`PutRemembers`), a delete
records a marker (`DeleteRemembers`), and what a start loads was valid when it was saved
(`ReadsInv`). Without such an upload the property that `s3_multipart` violates is
invariant.

`S3Gets` adds `GetInv`: the payload of the record a GET has taken is there or
was lost to an overtaken put, or the name has held nothing at some moment since the GET began. `PayloadsKept` gives it when the GET
begins; afterwards a payload goes only with its object (`OthersKeep`,
`DeleteKeepsOthers`). `RangesServed` is the arithmetic of `Range`, for every
size and range, and `RequestIsStep` that the adapter does nothing but steps of
the service.

`S3Listings` rests on three facts about strings and pages. The order of keys is
total and strict (`BeforeIsOrder`, by the first position where two strings
differ). The keys of a common prefix are neighbours in it
(`EntryIsContiguous`), and different keys share an entry only as a common
prefix (`SharedEntry`). So a page is an initial part of the candidates with all
keys of an entry or none (`PageIsInitial`), and its last key, which is there
because a bucket has finitely many keys (`LastKey`), separates what was returned
from what comes. The invariant `ListingInv` says so of every moment: what is
not behind `startAfter` and was there all the time has been returned, and what
was returned stands for a key that is not behind it; without changes no entry is half
returned (`NoneAhead`).

### SNS

`SnsProofs`, `SnsPublishProofs` and `SnsPlatformProofs` prove, from the
assumptions on the constants (`NoneAssumption`, `TopicAssumption`,
`PublishAssumption`, `BatchAssumption`, `PlatformAssumption`, `PoliciesAssumption`), for any number of clients whose requests interleave statement by statement and
fail between any two:

| Theorem | Statement |
|---|---|
| `TopicTypes` | `TopicsSpec => []TopicsTypeOK` |
| `OneSubscription` | `TopicsSpec => []OneSubscriptionPerEndpoint` |
| `TopicsForgotten` | `TopicsSpec => []DeletedTopicsAreForgotten` |
| `ConfirmationByToken` | `TopicsSpec => []ConfirmedByToken` |
| `UpdatesLoseOnlyWhenOvertaken` | `TopicsSpec => OnlyOvertakenUpdatesLose` |
| `PublishTypes` | `PublishSpec => []PublishTypeOK` |
| `OverlapOnlyRepeats` | `PublishSpec => []OnlyOverlappingPublishesRepeat` |
| `NumbersIncrease` | `PublishSpec => []SequencesIncrease` |
| `SubscribersOnce` | `PublishSpec => []EverySubscriberOnce` |
| `HandedOnlyToSubscribers` | `PublishSpec => HandedToSubscribers` |
| `PlatformTypes` | `PlatformSpec => []PlatformTypeOK` |
| `EndpointsBelong` | `PlatformSpec => []EndpointsConsistent` |
| `NumbersInTime` | `PlatformSpec => []VerifiedInTime` |
| `FilterLawsHold` | `Laws` of every policy, message, key and condition |
| `EveryEvaluationLawful` | `FilterSpec => []FilterLaws` |
| `PublishesAmongPlatform` | `PlatformSpec` gives the properties above of topics and publishes |

Since nothing is locked, the invariants say what the values a request has read
are still worth. `TopicsInv` consists of the three state properties and of

* `InsertInv`: a subscription of the endpoint that a Subscribe did not find was
  inserted since it looked; `GoneInv`: the topic that it found is there or was
  deleted since.
* `RowInv`: the row that an update is about to write is of the topic, endpoint
  and token of the subscription it overwrites, and is confirmed only if the
  token was posted or the endpoint needs none.
* `ChangeInv`: it differs from the stored row in one thing, unless another
  update wrote the row since it was read.

`PublishInv` adds, of the messages: an id belongs to one publish and what it
`known` was saved before (`IdsInv`); between its look-up and its insert, any
saved message with the same deduplication id that it knew is out of the window
(`RepeatInv`), and its number is larger than that of every message of the topic that
it knew (`SequenceInv`). Of the dispatch (`DispatchInv`): the subscriptions up to
the last ARN listed were tried or are in the page, and no other was (`TriedInv`),
and what is in the page wanted the message while the publish ran (`WantedInv`).
`PageCovers` says of the list by ARN what the next page may leave out:
nothing below its last ARN.

The steps are first reduced to what they change: a request reads on (`Passes`)
or ends with a write (`Writes`), and what a write does to a row is one of a few
fates (`SubscriptionFate`, `TopicFate`); of a publish, `Begins`, `Looks`, `Takes`,
`Saves`, `Lists`, `Delivers`, `Records`, `Leaves`. The invariants are then proved
by these kinds.

`PlatformSpec` is the whole service, which the run `sns` checks. Its steps either
are those of `PublishSpec`, which leave the requests of applications, endpoints
and numbers where they are (`PublishKeeps`), or move one client between such
statements and `"idle"`, which disturbs nothing of the others
(`PublishInvPlatform`). `PlatformInv` adds to `PublishInv`, again, what a request
has read is still worth:

* `ApplicationInv`: the application that a CreatePlatformEndpoint found is there, or
  was deleted since; `TokenInv`: an endpoint that has its token, and was not given it
  by an update, was made since it looked.
* `EndpointRowInv`: an update writes a row of the application that the endpoint
  is of, if the endpoint is still there.
* `PhoneInv`: a number that is about to be written as verified is there, and its
  time lies in the life of the stored row's password, or the number was deleted
  since it was read. The row's time of creation is not overwritten, so a
  verification can be stale in no other way.

### Instances

`InstanceProofs` proves, from `RuntimeAssumption` alone (ports are positive, a
start tries at least one, `NoId` and `NoProcess` name nothing), for any number
of processes, instances and ports, from an empty base directory:

| Theorem | Statement |
|---|---|
| `RuntimeTypeCorrect` | `RuntimeSpec => []RuntimeTypeOK` |
| `PortsKeepInstance` | `RuntimeSpec => []OneInstancePerPort` |
| `DeletedStaysDeleted` | `RuntimeSpec => []DeletedForGood` |
| `ServersVisible` | `RuntimeSpec => OnlyRivalsHideServers` |

Four invariants carry them, each with its own reason:

* `TypeInv` says, besides the types, what a process holds at each step
  (`StepInv`), that an instance has one port, that of every process that ever
  held it and of its records (`PortInv`), and that a process that a record or
  a removal names held that instance (`PidInv`; hence no removal ends itself).
  One listener per port follows because every path to a listener passes
  `~Occupied`.
* `RivalInv` and `RemovalInv`: while a server listens, whoever is past the
  probe on its port was under way when the server wrote its record, because a
  later probe fails; and a removal either has the server's process in its
  summary, and ends it before it touches the record, or was under way as well.
  So only rivals can hide the record.
* `OverlapInv`: two instances with one port, both recorded or one recorded and
  one held, belong to starts that overlapped. A new id is drawn only if the
  port has no recorded instance, and the write of a first record finds every
  other holder under way, or already serving, and then `RivalInv` makes the
  writer that holder's rival.
* `QuietInv`: an instance that a delete found abandoned stays so, its id is
  never drawn again (`UnusedIds`), and it cannot be found by its port once the
  records are removed; nobody but a holder writes records or data.

`ActionKinds` reduces the actions to eight kinds of assignment to `proc`;
`StepEffects` says once what each does to ids, ports and listeners
(`Effect`) and to the order of the steps (`Path`). The rest cites those.

### Only model-checked

`ExhaustedIsRedriven` stays with TLC: liveness under fairness is out of the prover's
reach, which has neither `ENABLED` nor, hence, `WF_vars`. Of `AcceptedKept` on FIFO
queues only what the theorems above say can be proved, since it fails of some. The
properties of the five runs that fail are no theorems either; where the failure has a
precise cause, a theorem says that nothing else brings it about (`LossNeedsRefusedSave`,
`ProtectionWithoutRestart`, `ContentWithoutUploads`).

## What is not modelled, and why

* Tags, permissions and message move tasks of SQS: maps by queue name that
  single requests set and read back. They decide nothing about queues or
  messages; a move task is recorded and moves nothing.
* `Stop` of SQS, which closes the file while requests may still run, the length
  of the worker's sleeps and its shutdown timeout; schema
  migrations of all services.
* Races on Go's memory in S3, whose requests without the mutex share maps: their outcome is
  undefined, and the model serves such requests one at a time.
* What answers say besides the data a property is about: names, URLs, hashes,
  metadata and headers of objects, wording of errors, lists of SQS and SNS.
* The syntax of DynamoDB expressions, a parser and evaluator without state,
  covered by unit tests; the encoding of attributes in its file.
* SNS: observability counters, the one tenant, the copy of the state that the hook
  shows, the transport of a delivery other than its outcome.
* Instances: process ids the system gives out again, records of older versions,
  the manager's list of its own ports, which one process fills once.
* The adapters of SQS and SNS, and the encoding of requests and answers of all
  four: they translate and keep no state, and what they can ask is what the
  inputs of the models enumerate. CLI presentation, the desktop application and
  the web site only show or call what the core does.
