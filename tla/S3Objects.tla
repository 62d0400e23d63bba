------------------------------ MODULE S3Objects -----------------------------
(***************************************************************************)
(* The S3 service: its state in memory, the state file and the payload     *)
(* files.  A request changes memory, then saves all of it; a Save that     *)
(* fails is answered with an error and leaves the change in memory.        *)
(*                                                                         *)
(* Only a put and a copy take the service's mutex.  A put holds it while   *)
(* its body is received, and all other requests but copies are served      *)
(* meanwhile, about the put's own bucket and name as well.                 *)
(***************************************************************************)
EXTENDS S3State

CONSTANTS
  UploadId, PartNumber,
  Bodies,         \* the bodies that clients send
  Features, Locks, Retentions,    \* the subresources, lock configurations and retentions they set
  MaxNow, MaxVersions, MaxFailures    \* bounds of the model

ASSUME S3Assumption ==
  /\ PartNumber \subseteq Nat \ {0}
  /\ Bodies \subseteq Body /\ Features \subseteq Feature
  /\ Locks \subseteq Lock \ {NoLock} /\ Retentions \subseteq [mode : Mode, until : Nat]
  /\ {MaxSize, MaxNow, MaxVersions, MaxFailures} \subseteq Nat

VARIABLES
  memory,     \* Service.state
  uploads,    \* Service.multipartUploads
  disk,       \* state.json
  payloads,   \* the payload files
  putting,    \* the put that holds Service.mu
  up,         \* the process runs
  now,
  failures    \* the saves that failed for a reason outside the program

(* History: what clients were told. *)
VARIABLES
  may,        \* the contents that a client may expect of a name
  promise,    \* the protection that clients were told a name has
  known,      \* the versions that were saved
  torn        \* the payloads of objects that were deleted while no state was saved since

(* History: the requests that were served while a put was under way. *)
VARIABLES
  meanwhile,  \* what they did that the put under way does not know of
  overtaken   \* the puts that finished although they did, while it still shows

s3Vars == <<memory, uploads, disk, payloads, putting, up, now, failures>>
toldVars == <<may, promise, known, torn>>
raceVars == <<meanwhile, overtaken>>
vars == <<s3Vars, toldVars, raceVars>>

NoUpload == [name |-> <<>>, parts |-> [p \in {} |-> p]]
Upload == [name : Name, parts : UNION {[numbers -> Body] : numbers \in SUBSET PartNumber}]
NoPut == [stage |-> "none"]
Put == [stage : {"receiving", "stored"}, name : Name, content : Body]
NoPromise == [content |-> <<>>, hold |-> FALSE, until |-> 0]
Promise == [content : Body, hold : BOOLEAN, until : Nat]

(* The bucket of the put was deleted, its payload file was deleted after   *)
(* the put had stored it, or clients were told that its name is protected. *)
Overtaking == {"bucket", "payload", "protection"}

Init ==
  /\ memory = EmptyState
  /\ uploads = [id \in UploadId |-> NoUpload]
  /\ disk = EmptyState
  /\ payloads = {}
  /\ putting = NoPut
  /\ up = TRUE
  /\ now = 0
  /\ failures = 0
  /\ may = [n \in Name |-> {{}}]
  /\ promise = [n \in Name |-> NoPromise]
  /\ known = {}
  /\ torn = {}
  /\ meanwhile = {} /\ overtaken = {}
-----------------------------------------------------------------------------
(* What a client knows after an answer about some names.  A date it was    *)
(* told stands, and so does a promise that was broken.  After an error the *)
(* change may be there or not; a hold that it asked to lift is off for it. *)
Protects(p) == p.hold \/ p.until > now
Relied(n) == Protects(promise[n])
Broken(m, n) == Relied(n) /\ Contents(m, n) # {promise[n].content}

Protection(m, n) ==
  IF Broken(m, n) THEN promise[n]
  ELSE IF HasObject(m, n)
  THEN [content |-> m.objects[n].content, hold |-> m.legalHold[n] = "ON",
        until |-> IF m.retention[n].until > promise[n].until THEN m.retention[n].until ELSE promise[n].until]
  ELSE NoPromise

Lifted(p, m, n) == [p EXCEPT !.hold = p.hold /\ (m.legalHold[n] = "ON" \/ Broken(m, n))]

VersionId(v) == [name |-> v.name, seq |-> v.seq, marker |-> v.marker, content |-> v.content]
VersionIds(m) == {VersionId(v) : v \in m.history}

Acknowledge(next, names) ==
  /\ may' = [n \in Name |-> IF n \in names THEN {Contents(next, n)} ELSE may[n]]
  /\ promise' = [n \in Name |-> IF n \in names THEN Protection(next, n) ELSE promise[n]]
  /\ known' = known \cup VersionIds(next)
  /\ torn' = {}

Refuse(next, names, deleted) ==
  /\ may' = [n \in Name |-> IF n \in names THEN may[n] \cup {Contents(next, n)} ELSE may[n]]
  /\ promise' = [n \in Name |-> IF n \in names THEN Lifted(promise[n], next, n) ELSE promise[n]]
  /\ torn' = torn \cup deleted
  /\ UNCHANGED known

(* persist: the payload files that are missing, then the state, which is   *)
(* renamed into place.  Either can fail.  files are the payload files that *)
(* the request leaves.                                                     *)
Save(ok, next, files) ==
  \/ /\ ok
     /\ ValidState(Normal(next))
     /\ disk' = Normal(next)
     /\ payloads' = files \cup NewPayloads(next)
     /\ UNCHANGED failures
  \/ /\ ~ok
     /\ \/ ~ValidState(Normal(next)) /\ UNCHANGED failures
        \/ failures < MaxFailures /\ failures' = failures + 1
     /\ disk' = disk
     /\ payloads' \in {files, files \cup NewPayloads(next)}

(* Mistaken variant of Persist: the client is not told of a failed Save.   *)
PersistUnchecked(ok, next, files, names) ==
  /\ memory' = next
  /\ Save(ok, next, files)
  /\ Acknowledge(next, names)

(* What a request does that makes next of memory, about some names. *)
Persist(ok, next, files, names) ==
  /\ memory' = next
  /\ Save(ok, next, files)
  /\ IF ok THEN Acknowledge(next, names) ELSE Refuse(next, names, payloads \ files)

(* History: what a request about n does to a put of n that is under way,   *)
(* and the overtaken puts of which it still shows.                         *)
PutUnderWay == putting # NoPut
PutInto(b) == PutUnderWay /\ BucketOf(putting.name) = b

Overtakes(n, files) ==
  {by \in Overtaking \ {"bucket"} :
     /\ PutUnderWay /\ putting.name = n
     /\ by = "payload" => putting.stage = "stored" /\ <<n, putting.content>> \in payloads \ files
     /\ by = "protection" => Protects(promise'[n])}

Standing ==
  {o \in overtaken :
     /\ o.by = "bucket" => BucketOf(o.name) \notin memory.buckets
     /\ o.by = "payload" => <<o.name, o.content>> \notin payloads
     /\ o.by = "protection" => Relied(o.name)}

Overtake(n, files) == meanwhile' = meanwhile \cup Overtakes(n, files) /\ overtaken' = Standing

(* A request that changes no object, and one that does. *)
Change(next) ==
  /\ \E ok \in BOOLEAN : Persist(ok, next, payloads, {})
  /\ UNCHANGED <<uploads, putting, up, now, raceVars>>

ChangeObject(n, next, files) ==
  /\ \E ok \in BOOLEAN : Persist(ok, next, files, {n})
  /\ Overtake(n, files)
  /\ UNCHANGED <<uploads, putting, up, now>>

Room == Cardinality(memory.history) < MaxVersions
-----------------------------------------------------------------------------
(* Buckets. *)
CreateBucket(b) ==
  /\ up /\ b \notin memory.buckets
  /\ Change([memory EXCEPT !.buckets = @ \cup {b}])

DeleteBucket(b) ==
  /\ up /\ b \in memory.buckets
  /\ BucketIsEmpty(memory, b)
  /\ uploads' = [id \in UploadId |->
       IF uploads[id] # NoUpload /\ BucketOf(uploads[id].name) = b THEN NoUpload ELSE uploads[id]]
  /\ \E ok \in BOOLEAN : Persist(ok, WithoutBucket(memory, b), payloads, {})
  /\ meanwhile' = IF PutInto(b) THEN meanwhile \cup {"bucket"} ELSE meanwhile
  /\ UNCHANGED <<putting, up, now, overtaken>>

PutBucketVersioning(b, status) ==
  /\ up /\ b \in memory.buckets
  /\ Change([memory EXCEPT !.versioning[b] = status])

(* Replication is gated by versioning, at both ends. *)
ReplicationAllowed(b, destination) ==
  /\ memory.versioning[b] = "Enabled"
  /\ destination \in memory.buckets => memory.versioning[destination] = "Enabled"

PutBucketFeature(b, f, destination) ==
  /\ up /\ b \in memory.buckets
  /\ f = "replication" => ReplicationAllowed(b, destination)
  /\ Change(SetFeature(memory, b, f))

DeleteBucketFeature(b, f) ==
  /\ up /\ b \in memory.buckets /\ f \notin Undeletable
  /\ <<b, f>> \in memory.features
  /\ Change(DeleteFeature(memory, b, f))

PutObjectLockConfiguration(b, lock) ==
  /\ up /\ b \in memory.buckets
  /\ memory.versioning[b] = "Enabled"
  /\ Change([memory EXCEPT !.locks[b] = lock])
-----------------------------------------------------------------------------
(* Objects.  PutObjectWithMetadata checks, receives the body into a        *)
(* payload file, and then changes the state.                               *)
BeginPut(n, content) ==
  /\ up /\ ~PutUnderWay
  /\ BucketOf(n) \in memory.buckets
  /\ ~Blocked(memory, n, now)
  /\ putting' = [stage |-> "receiving", name |-> n, content |-> content]
  /\ UNCHANGED <<memory, uploads, disk, payloads, up, now, failures, toldVars, raceVars>>

StorePayload ==
  /\ up /\ putting.stage = "receiving"
  /\ putting' = [putting EXCEPT !.stage = "stored"]
  /\ payloads' = payloads \cup {<<putting.name, putting.content>>}
  /\ UNCHANGED <<memory, uploads, disk, up, now, failures, toldVars, raceVars>>

(* The body does not arrive, or the file cannot be written. *)
BodyFails ==
  /\ up /\ putting.stage = "receiving"
  /\ putting' = NoPut /\ meanwhile' = {}
  /\ UNCHANGED <<memory, uploads, disk, payloads, up, now, failures, toldVars, overtaken>>

Stored(content) == [content |-> content, named |-> TRUE, held |-> FALSE]

(* storeObject, clearObjectProtection, applyDefaultRetention. *)
Replaced(m, n, object) ==
  ApplyDefaultRetention(ClearObjectProtection(StoreObject(m, n, object), n), n, now)

(* The put changes the state as it is now, whatever it had checked. *)
FinishPut ==
  LET n == putting.name
  IN  /\ up /\ putting.stage = "stored"
      /\ Room
      /\ \E ok \in BOOLEAN : Persist(ok, Replaced(memory, n, Stored(putting.content)), payloads, {n})
      /\ putting' = NoPut /\ meanwhile' = {}
      /\ overtaken' = Standing \cup [by : meanwhile, name : {n}, content : {putting.content}]
      /\ UNCHANGED <<uploads, up, now>>

(* CopyObjectWithOptions.  A source with a PayloadRef is read from its     *)
(* file, and one without from memory, which must not be empty.             *)
CopyObject(n, source) ==
  LET object == memory.objects[source]
      copied == CopyObjectProtection(
                  ClearObjectProtection(StoreObject(memory, n, Stored(object.content)), n), n, source)
  IN  /\ up /\ ~PutUnderWay
      /\ BucketOf(n) \in memory.buckets
      /\ ~Blocked(memory, n, now)
      /\ HasObject(memory, source)
      /\ IF object.named THEN <<source, object.content>> \in payloads ELSE object.held
      /\ Room
      /\ ChangeObject(n, ApplyDefaultRetention(copied, n, now), payloads \cup {<<n, object.content>>})

(* Mistaken variant of PayloadToDelete: a version still needs the payload. *)
AnyPayload(m, n) == {<<x, m.objects[x].content>> : x \in {y \in {n} \cap Names(m) : m.objects[y].named}}

(* The payload is kept if the bucket is versioned. *)
PayloadToDelete(m, n) ==
  {<<x, m.objects[x].content>> :
     x \in {y \in {n} \cap Names(m) : m.objects[y].named /\ ~VersioningEnabled(m, BucketOf(n))}}

(* removeObject: DeleteObject, and DeleteObjects for each of its keys.     *)
(* The payload is deleted before the state is saved.                       *)
DeleteObject(n) ==
  LET marked == IF VersioningEnabled(memory, BucketOf(n)) THEN RecordDeleteMarker(memory, n) ELSE memory
  IN  /\ up /\ BucketOf(n) \in memory.buckets
      /\ ~Blocked(memory, n, now)
      /\ Room
      /\ ChangeObject(n, DeleteObjectOf(marked, n), payloads \ PayloadToDelete(memory, n))

PutObjectAspect(n, aspect) ==
  /\ up /\ BucketOf(n) \in memory.buckets /\ HasObject(memory, n)
  /\ ChangeObject(n, SetAspect(memory, n, aspect), payloads)

DeleteObjectTagging(n) ==
  /\ up /\ <<n, "tagging">> \in memory.aspects
  /\ BucketOf(n) \in memory.buckets /\ HasObject(memory, n)
  /\ ChangeObject(n, [memory EXCEPT !.aspects = @ \ {<<n, "tagging">>}], payloads)

Lockable(n) ==
  /\ up /\ BucketOf(n) \in memory.buckets /\ HasObject(memory, n)
  /\ memory.locks[BucketOf(n)] # NoLock

(* Mistaken variant of PutObjectRetention: only the mode is compared.      *)
PutObjectRetentionAnyDate(n, retention) ==
  /\ Lockable(n)
  /\ ~(memory.retention[n].mode = "COMPLIANCE" /\ retention.mode = "GOVERNANCE")
  /\ ChangeObject(n, [memory EXCEPT !.retention[n] = retention], payloads)

(* A retention may be prolonged, not shortened, nor weakened. *)
PutObjectRetention(n, retention) ==
  /\ Lockable(n)
  /\ memory.retention[n] # NoRetention =>
       /\ retention.until >= memory.retention[n].until
       /\ ~(memory.retention[n].mode = "COMPLIANCE" /\ retention.mode = "GOVERNANCE")
  /\ ChangeObject(n, [memory EXCEPT !.retention[n] = retention], payloads)

PutObjectLegalHold(n, status) ==
  /\ Lockable(n)
  /\ ChangeObject(n, [memory EXCEPT !.legalHold[n] = status], payloads)
-----------------------------------------------------------------------------
(* Multipart uploads, in memory only. *)
CreateMultipartUpload(id, n) ==
  /\ up /\ BucketOf(n) \in memory.buckets
  /\ uploads[id] = NoUpload
  /\ uploads' = [uploads EXCEPT ![id] = [name |-> n, parts |-> [p \in {} |-> p]]]
  /\ UNCHANGED <<memory, disk, payloads, putting, up, now, failures, toldVars, raceVars>>

UploadPart(id, number, body) ==
  LET parts == uploads[id].parts
  IN  /\ up /\ uploads[id] # NoUpload
      /\ uploads' = [uploads EXCEPT ![id].parts =
           [p \in DOMAIN parts \cup {number} |-> IF p = number THEN body ELSE parts[p]]]
      /\ UNCHANGED <<memory, disk, payloads, putting, up, now, failures, toldVars, raceVars>>

AbortMultipartUpload(id) ==
  /\ up /\ uploads[id] # NoUpload
  /\ uploads' = [uploads EXCEPT ![id] = NoUpload]
  /\ UNCHANGED <<memory, disk, payloads, putting, up, now, failures, toldVars, raceVars>>

(* The parts in the order of their numbers, of which the model has two at  *)
(* most.                                                                   *)
Assembled(parts) ==
  LET lowest == CHOOSE p \in DOMAIN parts : \A q \in DOMAIN parts : p <= q
      rest == DOMAIN parts \ {lowest}
  IN  IF rest = {} THEN parts[lowest] ELSE parts[lowest] \o parts[CHOOSE p \in rest : TRUE]

(* The upload goes only when the state was saved. *)
CompleteMultipartUpload(id) ==
  LET n == uploads[id].name
      body == Assembled(uploads[id].parts)
  IN  /\ uploads[id] # NoUpload /\ DOMAIN uploads[id].parts # {} /\ body \in Body
      /\ up /\ BucketOf(n) \in memory.buckets
      /\ ~Blocked(memory, n, now)
      /\ Room
      /\ \E ok \in BOOLEAN :
           /\ Persist(ok, Replaced(memory, n, [content |-> body, named |-> FALSE, held |-> body # <<>>]),
                      payloads, {n})
           /\ uploads' = IF ok THEN [uploads EXCEPT ![id] = NoUpload] ELSE uploads
      /\ Overtake(n, payloads)
      /\ UNCHANGED <<putting, up, now>>
-----------------------------------------------------------------------------
(* The process ends at any moment; it starts if every payload that the     *)
(* file names can be read.                                                 *)
Crash ==
  /\ up
  /\ up' = FALSE
  /\ memory' = EmptyState
  /\ uploads' = [id \in UploadId |-> NoUpload]
  /\ putting' = NoPut /\ meanwhile' = {}
  /\ UNCHANGED <<disk, payloads, now, failures, toldVars, overtaken>>

Start ==
  /\ ~up
  /\ NamedPayloads(disk) \subseteq payloads
  /\ up' = TRUE
  /\ memory' = Loaded(disk)
  /\ UNCHANGED <<disk, payloads, uploads, putting, now, failures, toldVars, raceVars>>

Tick ==
  /\ now < MaxNow
  /\ now' = now + 1
  /\ UNCHANGED <<memory, uploads, disk, payloads, putting, up, failures, toldVars, raceVars>>

BucketNext ==
  \E b \in Bucket :
    \/ CreateBucket(b) \/ DeleteBucket(b)
    \/ \E status \in {"Enabled", "Suspended"} : PutBucketVersioning(b, status)

SubresourceNext ==
  \E b \in Bucket :
    \/ \E f \in Features :
         \/ \E destination \in Bucket : PutBucketFeature(b, f, destination)
         \/ DeleteBucketFeature(b, f)
    \/ \E lock \in Locks : PutObjectLockConfiguration(b, lock)

ObjectNext ==
  \/ \E n \in Name :
       \/ \E content \in Bodies : BeginPut(n, content)
       \/ \E source \in Name : CopyObject(n, source)
       \/ DeleteObject(n)
  \/ StorePayload \/ BodyFails \/ FinishPut

GovernanceNext ==
  \E n \in Name : DeleteObjectTagging(n) \/ \E aspect \in Aspect : PutObjectAspect(n, aspect)

ProtectionNext ==
  \E n \in Name :
    \/ \E retention \in Retentions : PutObjectRetention(n, retention)
    \/ \E status \in {"ON", "OFF"} : PutObjectLegalHold(n, status)

MultipartNext ==
  \E id \in UploadId :
    \/ \E n \in Name : CreateMultipartUpload(id, n)
    \/ \E number \in PartNumber, body \in Bodies : UploadPart(id, number, body)
    \/ AbortMultipartUpload(id) \/ CompleteMultipartUpload(id)

Next ==
  \/ BucketNext \/ SubresourceNext \/ ObjectNext \/ GovernanceNext \/ ProtectionNext
  \/ MultipartNext \/ Crash \/ Start \/ Tick

Spec == Init /\ [][Next]_vars
-----------------------------------------------------------------------------
TypeOK ==
  /\ memory \in State /\ disk \in State
  /\ uploads \in [UploadId -> Upload \cup {NoUpload}]
  /\ payloads \subseteq Ref
  /\ putting \in Put \cup {NoPut}
  /\ up \in BOOLEAN /\ now \in Nat /\ failures \in Nat
  /\ overtaken \subseteq [by : Overtaking, name : Name, content : Body]

(* data-models-core.md, of the S3 state: "object must reference existing   *)
(* bucket".  A put that DeleteBucket overtakes breaks it.                  *)
ObjectsHaveBuckets == \A n \in Names(memory) : BucketOf(n) \in memory.buckets

(* What an overtaken put has left: see Overtaking.                         *)
Excused(by, n) == \E o \in overtaken : o.by = by /\ o.name = n
LostPayloads == {<<o.name, o.content>> : o \in {x \in overtaken : x.by = "payload"}}

(* data-models-core.md: "versioning and object-lock structures must be     *)
(* internally consistent".                                                 *)
(* Whatever requests, failed saves and restarts come in between, nothing   *)
(* is left of a deleted bucket or object (UpsertObject, DeleteBucket,      *)
(* removeBucketGovernance, removeMultipartUploads), and what versioning    *)
(* gates has it - but for the object itself of a put whose bucket was      *)
(* deleted after the put had looked for it: DeleteBucket takes no mutex.   *)
StructuresConsistent ==
  LET m == memory
  IN  /\ \A n \in Names(m) : BucketOf(n) \in m.buckets \/ Excused("bucket", n)
      /\ \A v \in m.history : BucketOf(v.name) \in m.buckets /\ m.versioning[BucketOf(v.name)] # ""
      /\ \A b \in Bucket : m.versioning[b] # "" => b \in m.buckets
      /\ \A f \in m.features : f[1] \in m.buckets /\ (f[2] = "replication" => m.versioning[f[1]] # "")
      /\ \A b \in Bucket : m.locks[b] # NoLock => m.versioning[b] # ""
      /\ \A a \in m.aspects : HasObject(m, a[1])
      /\ \A n \in Name : m.retention[n] # NoRetention \/ m.legalHold[n] # "none" => HasObject(m, n)
      /\ \A id \in UploadId : uploads[id] # NoUpload => BucketOf(uploads[id].name) \in m.buckets

(* A payload is shared by the records of one name with one content, and is *)
(* deleted when one of them goes: whatever memory and state.json name is   *)
(* still there (removeObject, ensurePayloadRefs, migrateLoadedPayloads),   *)
(* so that reads and the next start succeed.  The code breaks this in two  *)
(* ways, and in no other: an object with the content of a put is deleted   *)
(* between the put's StorePayload and its record; and the file names what  *)
(* a delete removed whose save failed, until a save succeeds.              *)
PayloadsKept ==
  /\ NamedPayloads(memory) \subseteq payloads \cup LostPayloads
  /\ NamedPayloads(disk) \subseteq payloads \cup LostPayloads \cup torn

(* README.md: "persistent local state".  The payloads that the file names  *)
(* can be read, as the next start needs (Load, migrateLoadedPayloads).     *)
(* Both exceptions of PayloadsKept break it.                               *)
FileCanBeLoaded == NamedPayloads(disk) \subseteq payloads

(* An object reads as the last answered request about it left it, also     *)
(* after a crash; a request answered with an error has happened or has not *)
(* (persist, Save, Load; PutObject, CopyObject, DeleteObject, multipart).  *)
ReadsAreJustified == up => \A n \in Name : Contents(memory, n) \in may[n]

(* While a client may rely on a legal hold or a retention it was told of,  *)
(* nothing replaces or removes the object, and no restart does             *)
(* (objectMutationBlocked before every change, clearObjectProtection and   *)
(* applyDefaultRetention after it, PutObjectRetention's refusals).  Only a *)
(* put that had checked the object before the client was told, and whose   *)
(* body was still being received, replaces it and clears the protection.   *)
LocksHonoured == up => \A n \in Name : Broken(memory, n) => Excused("protection", n)

(* A version that was saved stays listed under its number with its         *)
(* content, which can be read, across restarts and lost saves, and no      *)
(* other version gets its number (RecordObjectVersion, nextSequence,       *)
(* DeleteBucket, Load).  Its content is lost only if it is that of a put   *)
(* whose payload was deleted before the version was recorded.              *)
VersionsKept ==
  up =>
    /\ known \subseteq VersionIds(memory)
    /\ \A v, w \in memory.history : v.seq = w.seq => v = w
    /\ \A v \in memory.history :
         VersionId(v) \in known /\ ~v.marker => v.held \/ <<v.name, v.content>> \in payloads \cup LostPayloads

(* data-models-core.md, of the S3 state: "object must have body or payload *)
(* reference"; README.md of the service: complete multipart upload         *)
(* "assembles the final object".  Every version recorded has its content.  *)
VersionsHaveContent == VersionsNamePayloads(memory)
=============================================================================
