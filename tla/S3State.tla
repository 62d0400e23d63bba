------------------------------- MODULE S3State ------------------------------
(***************************************************************************)
(* domain.State of the S3 service: buckets with their subresources and     *)
(* object locks, objects with their protection, and the version history.   *)
(* The operators are the methods of State, and what the file repository    *)
(* makes of a state before it writes it.                                   *)
(***************************************************************************)
EXTENDS Integers, Sequences, FiniteSets, TLC

CONSTANTS Bucket, Key,
          Letter,   (* what bodies are made of *)
          MaxSize   (* bound of the model: the letters of a body *)

(* The subresources of a bucket that keep one body.  Three have no delete. *)
Undeletable == {"acl", "notification", "logging"}
Feature == {"policy", "encryption", "lifecycle", "cors", "tagging", "ownership",
            "public_access", "replication"} \cup Undeletable
Aspect == {"acl", "tagging"}
Mode == {"GOVERNANCE", "COMPLIANCE"}

Name == Bucket \X Key
BucketOf(n) == n[1]
Body == UNION {[1..size -> Letter] : size \in 0..MaxSize}

(* named: PayloadRef is set; held: Body is kept with the record and not    *)
(* empty.  A PayloadRef is a hash of the name and one of the body.         *)
Object == [content : Body, named : BOOLEAN, held : BOOLEAN]
Version == [name : Name, seq : Nat, marker : BOOLEAN, content : Body, named : BOOLEAN, held : BOOLEAN]
Ref == Name \X Body
Objects == UNION {[names -> Object] : names \in SUBSET Name}

NoLock == [mode |-> "none", days |-> 0]
LockOnly == [mode |-> "any", days |-> 0]      \* enabled, without default retention
Lock == {NoLock, LockOnly} \cup [mode : Mode, days : Nat \ {0}]
NoRetention == [mode |-> "none", until |-> 0]
Retention == {NoRetention} \cup [mode : Mode, until : Nat]

State ==
  [buckets : SUBSET Bucket,
   versioning : [Bucket -> {"", "Enabled", "Suspended"}],
   features : SUBSET (Bucket \X Feature),
   locks : [Bucket -> Lock],
   objects : Objects,
   aspects : SUBSET (Name \X Aspect),
   retention : [Name -> Retention],
   legalHold : [Name -> {"none", "ON", "OFF"}],
   history : SUBSET Version]

EmptyState ==
  [buckets |-> {}, versioning |-> [b \in Bucket |-> ""], features |-> {},
   locks |-> [b \in Bucket |-> NoLock], objects |-> [n \in {} |-> n], aspects |-> {},
   retention |-> [n \in Name |-> NoRetention], legalHold |-> [n \in Name |-> "none"],
   history |-> {}]
-----------------------------------------------------------------------------
Names(m) == DOMAIN m.objects
HasObject(m, n) == n \in Names(m)

(* Suspended counts as enabled: versions are still recorded. *)
VersioningEnabled(m, b) == m.versioning[b] # ""

(* The content of a name: one body, or none. *)
Contents(m, n) == {m.objects[x].content : x \in {n} \cap Names(m)}

UpsertObject(m, n, object) ==
  [m EXCEPT !.objects = [x \in Names(m) \cup {n} |-> IF x = n THEN object ELSE m.objects[x]]]

(* The setters and deleters of one subresource of a bucket or object. *)
SetFeature(m, b, f) == [m EXCEPT !.features = @ \cup {<<b, f>>}]
DeleteFeature(m, b, f) == [m EXCEPT !.features = @ \ {<<b, f>>}]
SetAspect(m, n, aspect) == [m EXCEPT !.aspects = @ \cup {<<n, aspect>>}]

(* What is kept by the names of objects is forgotten for some of them. *)
WithoutAspects(m, names) == [m EXCEPT !.aspects = {a \in m.aspects : a[1] \notin names}]

WithoutProtection(m, names) ==
  [m EXCEPT
     !.retention = [n \in Name |-> IF n \in names THEN NoRetention ELSE m.retention[n]],
     !.legalHold = [n \in Name |-> IF n \in names THEN "none" ELSE m.legalHold[n]]]

ClearObjectProtection(m, n) == WithoutProtection(m, {n})

DeleteObjectOf(m, n) ==
  [WithoutAspects(ClearObjectProtection(m, n), {n}) EXCEPT
     !.objects = [x \in Names(m) \ {n} |-> m.objects[x]]]

(* A bucket with objects or with a history is not deleted. *)
BucketIsEmpty(m, b) ==
  /\ \A n \in Names(m) : BucketOf(n) # b
  /\ \A v \in m.history : BucketOf(v.name) # b

(* Mistaken variant of WithoutBucket: the lock configuration survives. *)
WithoutBucketButLock(m, b) ==
  [m EXCEPT
     !.buckets = m.buckets \ {b},
     !.versioning[b] = "",
     !.features = {f \in m.features : f[1] # b}]

(* removeBucketVersioning and removeBucketGovernance. *)
WithoutGovernance(m, b) ==
  LET names == {n \in Name : BucketOf(n) = b}
  IN  [WithoutProtection(WithoutAspects(m, names), names) EXCEPT
         !.versioning[b] = "",
         !.features = {f \in m.features : f[1] # b},
         !.locks[b] = NoLock]

WithoutBucket(m, b) == [WithoutGovernance(m, b) EXCEPT !.buckets = @ \ {b}]

(* The greatest sequence number of all buckets. *)
GreatestSequence(m) ==
  CHOOSE s \in {0} \cup {v.seq : v \in m.history} : \A v \in m.history : v.seq <= s

(* Mistaken variant of NextSequence: the number of the latest version.     *)
LatestSequence(m) == GreatestSequence(m)

NextSequence(m) == GreatestSequence(m) + 1

RecordVersion(m, n, marker, content, named) ==
  [m EXCEPT !.history = m.history \cup
     {[name |-> n, seq |-> NextSequence(m), marker |-> marker,
       content |-> content, named |-> named, held |-> FALSE]}]

RecordDeleteMarker(m, n) == RecordVersion(m, n, TRUE, <<>>, FALSE)

(* storeObject: the version is recorded after the body was dropped, so it  *)
(* has its content only if it has a PayloadRef.                            *)
StoreObject(m, n, object) ==
  LET stored == UpsertObject(m, n, object)
  IN  IF VersioningEnabled(m, BucketOf(n))
      THEN RecordVersion(stored, n, FALSE, object.content, object.named)
      ELSE stored

(* objectMutationBlocked *)
Retained(m, n, now) == m.retention[n] # NoRetention /\ m.retention[n].until > now
Blocked(m, n, now) == HasObject(m, n) /\ (m.legalHold[n] = "ON" \/ Retained(m, n, now))

(* Mistaken variant of ApplyDefaultRetention: the configuration is taken   *)
(* to have a default.                                                      *)
ApplyAnyRetention(m, n, now) ==
  LET lock == m.locks[BucketOf(n)]
  IN  IF lock # NoLock /\ m.retention[n] = NoRetention
      THEN [m EXCEPT !.retention[n] = [mode |-> lock.mode, until |-> now + lock.days]]
      ELSE m

(* The bucket's default applies unless the object has a retention, expired *)
(* or not.                                                                 *)
ApplyDefaultRetention(m, n, now) ==
  LET lock == m.locks[BucketOf(n)]
  IN  IF lock.days > 0 /\ m.retention[n] = NoRetention
      THEN [m EXCEPT !.retention[n] = [mode |-> lock.mode, until |-> now + lock.days]]
      ELSE m

CopyObjectProtection(m, n, source) ==
  [m EXCEPT !.retention[n] = m.retention[source], !.legalHold[n] = m.legalHold[source]]
-----------------------------------------------------------------------------
(* normalizeState and ensurePayloadRefs: what the file gets.  What belongs *)
(* to no bucket or object is dropped, and a body gets a payload file.      *)
PrunedBuckets(m) ==
  [m EXCEPT
     !.features = {f \in m.features : f[1] \in m.buckets},
     !.locks = [b \in Bucket |-> IF b \in m.buckets THEN m.locks[b] ELSE NoLock]]

Present(m) == {n \in Names(m) : BucketOf(n) \in m.buckets}
Pruned(m) == WithoutProtection(WithoutAspects(PrunedBuckets(m), Name \ Present(m)), Name \ Present(m))

WithPayloadRefs(m) ==
  [m EXCEPT
     !.objects = [n \in Names(m) |->
        [m.objects[n] EXCEPT !.named = m.objects[n].named \/ m.objects[n].held, !.held = FALSE]],
     !.history = {[v EXCEPT !.held = FALSE] : v \in m.history}]

Normal(m) == WithPayloadRefs(Pruned(m))

(* The payload files that ensurePayloadRefs writes. *)
NewPayloads(m) ==
  {<<n, m.objects[n].content>> : n \in {x \in Names(m) : m.objects[x].held /\ ~m.objects[x].named}}

(* validateState: a state that is not valid is neither saved nor loaded. *)
ValidObjects(m) == \A n \in Names(m) : BucketOf(n) \in m.buckets /\ m.objects[n].named

VersionsNamePayloads(m) == \A v \in m.history : v.marker \/ v.named

ValidVersions(m) ==
  /\ \A b \in Bucket : m.versioning[b] # "" => b \in m.buckets
  /\ \A v \in m.history : BucketOf(v.name) \in m.buckets
  /\ VersionsNamePayloads(m)

(* Governance and locks are of buckets and objects that exist. *)
ValidGovernance(m) ==
  /\ \A f \in m.features : f[1] \in m.buckets
  /\ \A a \in m.aspects : a[1] \in Present(m)

ValidLocks(m) ==
  /\ \A b \in Bucket : m.locks[b] # NoLock => b \in m.buckets
  /\ \A n \in Name : m.retention[n] # NoRetention \/ m.legalHold[n] # "none" => n \in Present(m)

ValidState(m) == ValidObjects(m) /\ ValidVersions(m) /\ ValidGovernance(m) /\ ValidLocks(m)

(* The payloads that a state names, and migrateLoadedPayloads, which reads *)
(* them: bodies are kept in memory from then on.                           *)
NamedPayloads(m) ==
  {<<n, m.objects[n].content>> : n \in {x \in Names(m) : m.objects[x].named}}
  \cup {<<v.name, v.content>> : v \in {x \in m.history : x.named}}

Loaded(m) ==
  [m EXCEPT
     !.objects = [n \in Names(m) |-> [m.objects[n] EXCEPT !.held = @ \/ m.objects[n].content # <<>>]],
     !.history = {[v EXCEPT !.held = ~v.marker /\ v.content # <<>>] : v \in m.history}]
=============================================================================
