------------------------------ MODULE S3Proofs ------------------------------
(***************************************************************************)
(* Proofs about S3Objects: for all buckets, keys, bodies, retentions and   *)
(* bounds, whatever saves fail and whenever the process ends; about the    *)
(* requests of S3Requests; and about S3Listing, for all strings.           *)
(***************************************************************************)
EXTENDS S3Requests, S3Listing, FiniteSetTheorems, SequenceTheorems, TLAPS

(* Sequence numbers tell versions apart, and one of them is the greatest.  *)
Numbered(m) ==
  /\ \E s \in {0} \cup {v.seq : v \in m.history} : \A v \in m.history : v.seq <= s
  /\ \A v, w \in m.history : v.seq = w.seq => v = w

(* StructuresConsistent, of memory or of what was read from the file, but  *)
(* for the buckets of the objects.                                         *)
VersionsConsistent(m) ==
  /\ \A v \in m.history : BucketOf(v.name) \in m.buckets /\ m.versioning[BucketOf(v.name)] # ""
  /\ \A b \in Bucket : m.versioning[b] # "" => b \in m.buckets
  /\ \A b \in Bucket : m.locks[b] # NoLock => m.versioning[b] # ""

ObjectsConsistent(m) ==
  /\ \A a \in m.aspects : HasObject(m, a[1])
  /\ \A n \in Name : m.retention[n] # NoRetention \/ m.legalHold[n] # "none" => HasObject(m, n)

FeaturesConsistent(m) ==
  \A f \in m.features : f[1] \in m.buckets /\ (f[2] = "replication" => m.versioning[f[1]] # "")

Consistent(m) == VersionsConsistent(m) /\ ObjectsConsistent(m) /\ FeaturesConsistent(m)

(* What is saved also has these. *)
HaveBuckets(m) == \A n \in Names(m) : BucketOf(n) \in m.buckets
-----------------------------------------------------------------------------
(* The parts of a state. *)
LEMMA StateFields ==
  ASSUME NEW m \in State
  PROVE  /\ m.buckets \subseteq Bucket /\ m.versioning \in [Bucket -> {"", "Enabled", "Suspended"}]
         /\ m.features \subseteq Bucket \X Feature /\ m.locks \in [Bucket -> Lock]
         /\ m.objects \in Objects /\ m.aspects \subseteq Name \X Aspect
         /\ m.retention \in [Name -> Retention] /\ m.legalHold \in [Name -> {"none", "ON", "OFF"}]
         /\ m.history \subseteq Version
  BY DEF State

LEMMA ObjectTable ==
  ASSUME NEW t \in Objects
  PROVE  t = [x \in DOMAIN t |-> t[x]] /\ DOMAIN t \subseteq Name /\ \A x \in DOMAIN t : t[x] \in Object
  BY DEF Objects

LEMMA IsTable ==
  ASSUME NEW names \in SUBSET Name, NEW t \in [names -> Object]
  PROVE  t \in Objects
  BY DEF Objects

LEMMA ContentsOf ==
  ASSUME NEW m, NEW n
  PROVE  Contents(m, n) = IF HasObject(m, n) THEN {m.objects[n].content} ELSE {}
  BY DEF Contents, HasObject

LEMMA EmptyIsState ==
  /\ EmptyState \in State
  /\ \A n : Contents(EmptyState, n) = {} /\ ~HasObject(EmptyState, n)
  /\ Numbered(EmptyState) /\ Consistent(EmptyState) /\ HaveBuckets(EmptyState) /\ ValidState(EmptyState)
  /\ EmptyState.history = {} /\ NamedPayloads(EmptyState) = {}
  <1> DEFINE none == [n \in {} |-> n]
  <1>1. none \in Objects /\ DOMAIN none = {}
    <2>1. none \in [{} -> Object]
      OBVIOUS
    <2> QED
      BY <2>1, IsTable
  <1>2. EmptyState.objects = none /\ Names(EmptyState) = {}
    BY <1>1 DEF EmptyState, Names
  <1> HIDE DEF none
  <1>3. EmptyState \in State
    BY <1>1 DEF State, EmptyState, Lock, Retention, none
  <1>4. \A n : Contents(EmptyState, n) = {} /\ ~HasObject(EmptyState, n)
    BY <1>2 DEF Contents, HasObject
  <1>5. Numbered(EmptyState)
    BY DEF Numbered, EmptyState
  <1>6. Consistent(EmptyState) /\ HaveBuckets(EmptyState)
    BY <1>2 DEF HaveBuckets, Consistent, VersionsConsistent, ObjectsConsistent, FeaturesConsistent, EmptyState
  <1>7. ValidState(EmptyState)
    BY <1>2 DEF ValidState, ValidObjects, ValidVersions, ValidGovernance, ValidLocks, VersionsNamePayloads,
       Present, EmptyState
  <1>8. EmptyState.history = {} /\ NamedPayloads(EmptyState) = {}
    BY <1>2 DEF NamedPayloads, EmptyState
  <1> QED
    BY <1>3, <1>4, <1>5, <1>6, <1>7, <1>8

-----------------------------------------------------------------------------
(* What a request leaves as it is of a state. *)
SameRest(m, r) ==
  /\ r.buckets = m.buckets /\ r.versioning = m.versioning /\ r.features = m.features /\ r.locks = m.locks

SameProtection(m, r, n) == r.retention[n] = m.retention[n] /\ r.legalHold[n] = m.legalHold[n]

LEMMA WithoutProtectionOf ==
  ASSUME NEW m \in State, NEW names
  PROVE  LET r == WithoutProtection(m, names)
         IN  /\ r \in State /\ SameRest(m, r)
             /\ r.objects = m.objects /\ r.aspects = m.aspects /\ r.history = m.history
             /\ \A n \in Name \ names : SameProtection(m, r, n)
             /\ \A n \in Name \cap names : r.retention[n] = NoRetention /\ r.legalHold[n] = "none"
  <1> DEFINE retention == [n \in Name |-> IF n \in names THEN NoRetention ELSE m.retention[n]]
             legalHold == [n \in Name |-> IF n \in names THEN "none" ELSE m.legalHold[n]]
             r == WithoutProtection(m, names)
  <1>1. retention \in [Name -> Retention] /\ legalHold \in [Name -> {"none", "ON", "OFF"}]
    BY StateFields DEF Retention
  <1>2. /\ r = [m EXCEPT !.retention = retention, !.legalHold = legalHold]
        /\ r.retention = retention /\ r.legalHold = legalHold
    BY StateFields DEF WithoutProtection, State
  <1>3. /\ \A n \in Name \ names : retention[n] = m.retention[n] /\ legalHold[n] = m.legalHold[n]
        /\ \A n \in Name \cap names : retention[n] = NoRetention /\ legalHold[n] = "none"
    OBVIOUS
  <1> HIDE DEF retention, legalHold
  <1>4. /\ r \in State /\ SameRest(m, r)
        /\ r.objects = m.objects /\ r.aspects = m.aspects /\ r.history = m.history
    BY <1>1, <1>2 DEF State, SameRest
  <1> QED
    BY <1>2, <1>3, <1>4 DEF SameProtection

LEMMA WithoutAspectsOf ==
  ASSUME NEW m \in State, NEW names
  PROVE  LET r == WithoutAspects(m, names)
         IN  /\ r \in State /\ SameRest(m, r)
             /\ r.objects = m.objects /\ r.history = m.history
             /\ r.retention = m.retention /\ r.legalHold = m.legalHold
             /\ r.aspects = {a \in m.aspects : a[1] \notin names}
  BY DEF WithoutAspects, State, SameRest

LEMMA PrunedBucketsOf ==
  ASSUME NEW m \in State
  PROVE  LET r == PrunedBuckets(m)
         IN  /\ r \in State /\ r.buckets = m.buckets /\ r.versioning = m.versioning
             /\ r.objects = m.objects /\ r.history = m.history /\ r.aspects = m.aspects
             /\ r.retention = m.retention /\ r.legalHold = m.legalHold
             /\ r.features \subseteq m.features
             /\ \A b \in Bucket : r.locks[b] \in {m.locks[b], NoLock}
  <1> DEFINE locks == [b \in Bucket |-> IF b \in m.buckets THEN m.locks[b] ELSE NoLock]
             features == {f \in m.features : f[1] \in m.buckets}
             r == PrunedBuckets(m)
  <1>1. locks \in [Bucket -> Lock] /\ \A b \in Bucket : locks[b] \in {m.locks[b], NoLock}
    BY StateFields DEF Lock
  <1>2. r = [m EXCEPT !.features = features, !.locks = locks]
    BY DEF PrunedBuckets
  <1>3. features \subseteq m.features
    OBVIOUS
  <1> HIDE DEF locks, features, r
  <1>4. features \in SUBSET (Bucket \X Feature)
    BY <1>3, StateFields
  <1>5. r \in State
    BY <1>1, <1>2, <1>4 DEF State
  <1>6. /\ r.buckets = m.buckets /\ r.versioning = m.versioning /\ r.objects = m.objects
        /\ r.history = m.history /\ r.aspects = m.aspects /\ r.retention = m.retention
        /\ r.legalHold = m.legalHold /\ r.features = features /\ r.locks = locks
    BY <1>2 DEF State
  <1> QED
    BY <1>1, <1>3, <1>5, <1>6 DEF r

(* The records of one history with or without their bodies. *)
SameVersions(m, r) ==
  /\ \A v \in m.history : \E w \in r.history : VersionId(w) = VersionId(v) /\ w.named = v.named
  /\ \A w \in r.history : \E v \in m.history : VersionId(w) = VersionId(v) /\ w.named = v.named
  /\ Numbered(m) => Numbered(r)

LEMMA HeldVersions ==
  ASSUME NEW m \in State, NEW r, NEW held \in [m.history -> BOOLEAN],
         r.history = {[v EXCEPT !.held = held[v]] : v \in m.history}
  PROVE  r.history \subseteq Version /\ SameVersions(m, r)
  <1> DEFINE With(v) == [v EXCEPT !.held = held[v]]
  <1>1. \A v \in m.history : /\ With(v) \in Version /\ VersionId(With(v)) = VersionId(v)
                             /\ With(v).named = v.named /\ With(v).seq = v.seq
    <2> SUFFICES ASSUME NEW v \in m.history
                 PROVE  /\ With(v) \in Version /\ VersionId(With(v)) = VersionId(v)
                        /\ With(v).named = v.named /\ With(v).seq = v.seq
      OBVIOUS
    <2>1. v \in Version /\ held[v] \in BOOLEAN
      BY StateFields
    <2>2. With(v) \in Version
      BY <2>1 DEF Version
    <2> QED
      BY <2>1, <2>2 DEF Version, VersionId
  <1>2. r.history = {With(v) : v \in m.history}
    OBVIOUS
  <1> HIDE DEF With
  <1>3. ASSUME Numbered(m)
        PROVE  Numbered(r)
    <2>1. PICK s \in {0} \cup {v.seq : v \in m.history} : \A v \in m.history : v.seq <= s
      BY <1>3 DEF Numbered
    <2>2. s \in {0} \cup {v.seq : v \in r.history}
      BY <2>1, <1>1, <1>2
    <2>3. \A v \in r.history : v.seq <= s
      BY <2>1, <1>1, <1>2
    <2>4. ASSUME NEW v \in r.history, NEW w \in r.history, v.seq = w.seq
          PROVE  v = w
      BY <2>4, <1>1, <1>2, <1>3 DEF Numbered
    <2> QED
      BY <2>2, <2>3, <2>4 DEF Numbered
  <1>4. r.history \subseteq Version
    BY <1>1, <1>2
  <1>5. /\ \A v \in m.history : \E w \in r.history : VersionId(w) = VersionId(v) /\ w.named = v.named
        /\ \A w \in r.history : \E v \in m.history : VersionId(w) = VersionId(v) /\ w.named = v.named
    BY <1>1, <1>2
  <1> QED
    BY <1>3, <1>4, <1>5 DEF SameVersions

LEMMA WithPayloadRefsOf ==
  ASSUME NEW m \in State
  PROVE  LET r == WithPayloadRefs(m)
         IN  /\ r \in State /\ SameRest(m, r)
             /\ r.aspects = m.aspects /\ r.retention = m.retention /\ r.legalHold = m.legalHold
             /\ Names(r) = Names(m)
             /\ \A n \in Names(m) : /\ r.objects[n].content = m.objects[n].content
                                    /\ r.objects[n].named = (m.objects[n].named \/ m.objects[n].held)
             /\ SameVersions(m, r)
  <1> DEFINE objects == [n \in Names(m) |->
               [m.objects[n] EXCEPT !.named = m.objects[n].named \/ m.objects[n].held, !.held = FALSE]]
             history == {[v EXCEPT !.held = FALSE] : v \in m.history}
             r == WithPayloadRefs(m)
  <1>1. Names(m) \subseteq Name /\ \A n \in Names(m) : m.objects[n] \in Object
    BY StateFields, ObjectTable DEF Names
  <1>2. /\ DOMAIN objects = Names(m) /\ objects \in [Names(m) -> Object]
        /\ \A n \in Names(m) : /\ objects[n].content = m.objects[n].content
                               /\ objects[n].named = (m.objects[n].named \/ m.objects[n].held)
    BY <1>1 DEF Object
  <1>3. objects \in Objects
    BY <1>1, <1>2, IsTable
  <1>4. r = [m EXCEPT !.objects = objects, !.history = history] /\ r.history = history
    BY DEF WithPayloadRefs, State
  <1>5. history \subseteq Version /\ SameVersions(m, r)
    <2> DEFINE held == [v \in m.history |-> FALSE]
    <2>1. held \in [m.history -> BOOLEAN] /\ history = {[v EXCEPT !.held = held[v]] : v \in m.history}
      OBVIOUS
    <2> HIDE DEF held, history, r
    <2> QED
      BY <2>1, <1>4, HeldVersions
  <1> HIDE DEF objects, history
  <1> QED
    BY <1>2, <1>3, <1>4, <1>5 DEF State, SameRest, Names

LEMMA PrunedOf ==
  ASSUME NEW m \in State
  PROVE  LET r == Pruned(m)
         IN  /\ r \in State /\ r.buckets = m.buckets /\ r.versioning = m.versioning
             /\ r.objects = m.objects /\ r.history = m.history
             /\ r.aspects \subseteq m.aspects /\ r.features \subseteq m.features
             /\ \A b \in Bucket : r.locks[b] \in {m.locks[b], NoLock}
             /\ \A n \in Present(m) : SameProtection(m, r, n)
             /\ \A n \in Name \ Present(m) : r.retention[n] = NoRetention /\ r.legalHold[n] = "none"
  <1> DEFINE absent == Name \ Present(m)
             first == PrunedBuckets(m)
             second == WithoutAspects(first, absent)
             r == WithoutProtection(second, absent)
  <1>1. Present(m) \subseteq Name
    BY StateFields, ObjectTable DEF Present, Names
  <1>2. /\ first \in State /\ first.buckets = m.buckets /\ first.versioning = m.versioning
        /\ first.objects = m.objects /\ first.history = m.history /\ first.aspects = m.aspects
        /\ first.retention = m.retention /\ first.legalHold = m.legalHold
        /\ first.features \subseteq m.features
        /\ \A b \in Bucket : first.locks[b] \in {m.locks[b], NoLock}
    BY PrunedBucketsOf
  <1> HIDE DEF first, absent
  <1>3. /\ second \in State /\ SameRest(first, second)
        /\ second.objects = first.objects /\ second.history = first.history
        /\ second.retention = first.retention /\ second.legalHold = first.legalHold
        /\ second.aspects \subseteq first.aspects
    BY <1>2, WithoutAspectsOf
  <1> HIDE DEF second
  <1>4. /\ r \in State /\ SameRest(second, r)
        /\ r.objects = second.objects /\ r.aspects = second.aspects /\ r.history = second.history
        /\ \A n \in Name \ absent : SameProtection(second, r, n)
        /\ \A n \in Name \cap absent : r.retention[n] = NoRetention /\ r.legalHold[n] = "none"
    BY <1>3, WithoutProtectionOf
  <1>5. r = Pruned(m)
    BY DEF Pruned, first, second, absent
  <1> HIDE DEF r
  <1> QED
    BY <1>1, <1>2, <1>3, <1>4, <1>5 DEF SameRest, SameProtection, absent

(* What the file gets of a state. *)
LEMMA NormalOf ==
  ASSUME NEW m \in State
  PROVE  LET r == Normal(m)
         IN  /\ r \in State /\ r.buckets = m.buckets /\ r.versioning = m.versioning
             /\ Names(r) = Names(m)
             /\ \A n \in Names(m) : /\ r.objects[n].content = m.objects[n].content
                                    /\ r.objects[n].named = (m.objects[n].named \/ m.objects[n].held)
             /\ \A n : Contents(r, n) = Contents(m, n) /\ HasObject(r, n) = HasObject(m, n)
             /\ SameVersions(m, r)
             /\ r.aspects \subseteq m.aspects /\ r.features \subseteq m.features
             /\ \A b \in Bucket : r.locks[b] \in {m.locks[b], NoLock}
             /\ \A n \in Present(m) : SameProtection(m, r, n)
             /\ \A n \in Name \ Present(m) : r.retention[n] = NoRetention /\ r.legalHold[n] = "none"
  <1> DEFINE pruned == Pruned(m)
             r == WithPayloadRefs(pruned)
  <1>1. /\ pruned \in State /\ pruned.buckets = m.buckets /\ pruned.versioning = m.versioning
        /\ pruned.objects = m.objects /\ pruned.history = m.history
        /\ pruned.aspects \subseteq m.aspects /\ pruned.features \subseteq m.features
        /\ \A b \in Bucket : pruned.locks[b] \in {m.locks[b], NoLock}
        /\ \A n \in Present(m) : SameProtection(m, pruned, n)
        /\ \A n \in Name \ Present(m) : pruned.retention[n] = NoRetention /\ pruned.legalHold[n] = "none"
    BY PrunedOf
  <1> HIDE DEF pruned
  <1>2. /\ r \in State /\ SameRest(pruned, r)
        /\ r.aspects = pruned.aspects /\ r.retention = pruned.retention /\ r.legalHold = pruned.legalHold
        /\ Names(r) = Names(pruned)
        /\ \A n \in Names(pruned) : /\ r.objects[n].content = pruned.objects[n].content
                                    /\ r.objects[n].named = (pruned.objects[n].named \/ pruned.objects[n].held)
        /\ SameVersions(pruned, r)
    BY <1>1, WithPayloadRefsOf
  <1>3. r = Normal(m)
    BY DEF Normal, pruned
  <1> HIDE DEF r
  <1>4. Names(pruned) = Names(m)
    BY <1>1 DEF Names
  <1>5. SameVersions(m, r)
    BY <1>1, <1>2 DEF SameVersions, Numbered
  <1>6. \A n : Contents(r, n) = Contents(m, n) /\ HasObject(r, n) = HasObject(m, n)
    BY <1>1, <1>2, <1>4, ContentsOf DEF HasObject
  <1> QED
    BY <1>1, <1>2, <1>3, <1>4, <1>5, <1>6 DEF SameRest, SameProtection

LEMMA LoadedOf ==
  ASSUME NEW m \in State
  PROVE  LET r == Loaded(m)
         IN  /\ r \in State /\ SameRest(m, r)
             /\ Names(r) = Names(m)
             /\ \A n \in Names(m) : /\ r.objects[n].content = m.objects[n].content
                                    /\ r.objects[n].named = m.objects[n].named
             /\ \A n : Contents(r, n) = Contents(m, n) /\ HasObject(r, n) = HasObject(m, n)
             /\ SameVersions(m, r)
             /\ r.aspects = m.aspects /\ r.retention = m.retention /\ r.legalHold = m.legalHold
  <1> DEFINE objects == [n \in Names(m) |-> [m.objects[n] EXCEPT !.held = @ \/ m.objects[n].content # <<>>]]
             history == {[v EXCEPT !.held = ~v.marker /\ v.content # <<>>] : v \in m.history}
             r == Loaded(m)
  <1>1. Names(m) \subseteq Name /\ \A n \in Names(m) : m.objects[n] \in Object
    BY StateFields, ObjectTable DEF Names
  <1>2. /\ DOMAIN objects = Names(m) /\ objects \in [Names(m) -> Object]
        /\ \A n \in Names(m) : /\ objects[n].content = m.objects[n].content
                               /\ objects[n].named = m.objects[n].named
    BY <1>1 DEF Object
  <1>3. objects \in Objects
    BY <1>1, <1>2, IsTable
  <1>4. r = [m EXCEPT !.objects = objects, !.history = history] /\ r.history = history
    BY DEF Loaded, State
  <1>5. history \subseteq Version /\ SameVersions(m, r)
    <2> DEFINE held == [v \in m.history |-> ~v.marker /\ v.content # <<>>]
    <2>1. held \in [m.history -> BOOLEAN] /\ history = {[v EXCEPT !.held = held[v]] : v \in m.history}
      OBVIOUS
    <2> HIDE DEF held, history, r
    <2> QED
      BY <2>1, <1>4, HeldVersions
  <1> HIDE DEF objects, history
  <1>6. /\ r \in State /\ SameRest(m, r) /\ r.objects = objects
        /\ r.aspects = m.aspects /\ r.retention = m.retention /\ r.legalHold = m.legalHold
    BY <1>3, <1>4, <1>5 DEF State, SameRest
  <1>7. Names(r) = Names(m)
    BY <1>2, <1>6 DEF Names
  <1> HIDE DEF r
  <1>8. \A n : Contents(r, n) = Contents(m, n) /\ HasObject(r, n) = HasObject(m, n)
    BY <1>2, <1>6, <1>7, ContentsOf DEF HasObject
  <1> QED
    BY <1>2, <1>5, <1>6, <1>7, <1>8 DEF r

(* The version ids of a history are those of its records. *)
LEMMA SameIds ==
  ASSUME NEW m, NEW r, SameVersions(m, r)
  PROVE  VersionIds(r) = VersionIds(m)
  BY DEF SameVersions, VersionIds

LEMMA VersionFields ==
  ASSUME NEW v, NEW w, VersionId(v) = VersionId(w)
  PROVE  v.name = w.name /\ v.seq = w.seq /\ v.marker = w.marker /\ v.content = w.content
  BY DEF VersionId

(* A consistent state is saved as it is. *)
LEMMA NormalKeeps ==
  ASSUME NEW m \in State, Consistent(m), ValidState(Normal(m))
  PROVE  /\ Consistent(Normal(m))
         /\ \A n \in Name : SameProtection(m, Normal(m), n)
         /\ NamedPayloads(Normal(m)) \subseteq NamedPayloads(m) \cup NewPayloads(m)
  <1> DEFINE r == Normal(m)
  <1>1. /\ r \in State /\ r.buckets = m.buckets /\ r.versioning = m.versioning
        /\ Names(r) = Names(m)
        /\ \A n \in Names(m) : /\ r.objects[n].content = m.objects[n].content
                               /\ r.objects[n].named = (m.objects[n].named \/ m.objects[n].held)
        /\ \A n : HasObject(r, n) = HasObject(m, n)
        /\ SameVersions(m, r)
        /\ r.aspects \subseteq m.aspects /\ r.features \subseteq m.features
        /\ \A b \in Bucket : r.locks[b] \in {m.locks[b], NoLock}
        /\ \A n \in Present(m) : SameProtection(m, r, n)
        /\ \A n \in Name \ Present(m) : r.retention[n] = NoRetention /\ r.legalHold[n] = "none"
    BY NormalOf
  <1>2. Present(m) = Names(m)
    BY <1>1 DEF ValidState, ValidObjects, Present
  <1> HIDE DEF r
  <1>3. \A n \in Name : SameProtection(m, r, n)
    BY <1>1, <1>2 DEF Consistent, ObjectsConsistent, SameProtection, HasObject
  <1>4. VersionsConsistent(r)
    <2>1. ASSUME NEW w \in r.history
          PROVE  BucketOf(w.name) \in r.buckets /\ r.versioning[BucketOf(w.name)] # ""
      <3>1. PICK v \in m.history : VersionId(w) = VersionId(v)
        BY <1>1, <2>1 DEF SameVersions
      <3>2. w.name = v.name
        BY <3>1, VersionFields
      <3> QED
        BY <3>2, <1>1 DEF Consistent, VersionsConsistent
    <2> QED
      BY <2>1, <1>1 DEF Consistent, VersionsConsistent
  <1>5. ObjectsConsistent(r)
    BY <1>1, <1>3 DEF Consistent, ObjectsConsistent, SameProtection
  <1>6. FeaturesConsistent(r)
    BY <1>1 DEF Consistent, FeaturesConsistent
  <1>7. NamedPayloads(r) \subseteq NamedPayloads(m) \cup NewPayloads(m)
    <2> SUFFICES ASSUME NEW ref \in NamedPayloads(r)
                 PROVE  ref \in NamedPayloads(m) \cup NewPayloads(m)
      OBVIOUS
    <2>1. CASE \E n \in Names(r) : r.objects[n].named /\ ref = <<n, r.objects[n].content>>
      <3>1. PICK n \in Names(m) : r.objects[n].named /\ ref = <<n, m.objects[n].content>>
        BY <2>1, <1>1
      <3>2. m.objects[n].named \/ (m.objects[n].held /\ ~m.objects[n].named)
        BY <3>1, <1>1
      <3> QED
        BY <3>1, <3>2 DEF NamedPayloads, NewPayloads
    <2>2. CASE \E w \in r.history : w.named /\ ref = <<w.name, w.content>>
      <3>1. PICK w \in r.history : w.named /\ ref = <<w.name, w.content>>
        BY <2>2
      <3>2. PICK v \in m.history : VersionId(w) = VersionId(v) /\ w.named = v.named
        BY <1>1 DEF SameVersions
      <3>3. v.named /\ ref = <<v.name, v.content>>
        BY <3>1, <3>2, VersionFields
      <3> QED
        BY <3>3 DEF NamedPayloads
    <2> QED
      BY <2>1, <2>2 DEF NamedPayloads
  <1> QED
    BY <1>3, <1>4, <1>5, <1>6, <1>7 DEF Consistent, r

LEMMA LoadedKeeps ==
  ASSUME NEW m \in State, Consistent(m)
  PROVE  /\ Consistent(Loaded(m))
         /\ \A n \in Name : SameProtection(m, Loaded(m), n)
         /\ NamedPayloads(Loaded(m)) \subseteq NamedPayloads(m)
  <1> DEFINE r == Loaded(m)
  <1>1. /\ r \in State /\ SameRest(m, r)
        /\ Names(r) = Names(m)
        /\ \A n \in Names(m) : /\ r.objects[n].content = m.objects[n].content
                               /\ r.objects[n].named = m.objects[n].named
        /\ \A n : HasObject(r, n) = HasObject(m, n)
        /\ SameVersions(m, r)
        /\ r.aspects = m.aspects /\ r.retention = m.retention /\ r.legalHold = m.legalHold
    BY LoadedOf
  <1> HIDE DEF r
  <1>2. VersionsConsistent(r)
    <2>1. ASSUME NEW w \in r.history
          PROVE  BucketOf(w.name) \in r.buckets /\ r.versioning[BucketOf(w.name)] # ""
      <3>1. PICK v \in m.history : VersionId(w) = VersionId(v)
        BY <1>1, <2>1 DEF SameVersions
      <3>2. w.name = v.name
        BY <3>1, VersionFields
      <3> QED
        BY <3>2, <1>1 DEF Consistent, VersionsConsistent, SameRest
    <2> QED
      BY <2>1, <1>1 DEF Consistent, VersionsConsistent, SameRest
  <1>3. ObjectsConsistent(r) /\ FeaturesConsistent(r)
    BY <1>1 DEF Consistent, ObjectsConsistent, FeaturesConsistent, SameRest
  <1>4. NamedPayloads(r) \subseteq NamedPayloads(m)
    <2> SUFFICES ASSUME NEW ref \in NamedPayloads(r)
                 PROVE  ref \in NamedPayloads(m)
      OBVIOUS
    <2>1. CASE \E n \in Names(r) : r.objects[n].named /\ ref = <<n, r.objects[n].content>>
      BY <2>1, <1>1 DEF NamedPayloads
    <2>2. CASE \E w \in r.history : w.named /\ ref = <<w.name, w.content>>
      <3>1. PICK w \in r.history : w.named /\ ref = <<w.name, w.content>>
        BY <2>2
      <3>2. PICK v \in m.history : VersionId(w) = VersionId(v) /\ w.named = v.named
        BY <1>1 DEF SameVersions
      <3>3. v.named /\ ref = <<v.name, v.content>>
        BY <3>1, <3>2, VersionFields
      <3> QED
        BY <3>3 DEF NamedPayloads
    <2> QED
      BY <2>1, <2>2 DEF NamedPayloads
  <1> QED
    BY <1>1, <1>2, <1>3, <1>4 DEF Consistent, SameProtection, r

-----------------------------------------------------------------------------
(* What puts and deletes make of a state. *)
Others(m, r, n) ==
  /\ Names(r) \ {n} = Names(m) \ {n}
  /\ \A x \in Names(m) \ {n} : r.objects[x] = m.objects[x]

(* At most one version of n is added, with the greatest number. *)
AddsVersion(m, r, n, content, named) ==
  \E v \in Version :
    /\ v.name = n /\ v.content = content /\ v.named = named
    /\ r.history = m.history \cup {v}
    /\ \A w \in m.history : w.seq < v.seq

Adds(m, r, n, content, named) ==
  /\ \/ r.history = m.history
     \/ VersioningEnabled(m, BucketOf(n)) /\ AddsVersion(m, r, n, content, named)
  /\ Numbered(r)

OnlyProtection(m, r, n) ==
  /\ r \in State /\ SameRest(m, r)
  /\ r.objects = m.objects /\ r.aspects = m.aspects /\ r.history = m.history
  /\ \A x \in Name \ {n} : SameProtection(m, r, x)

Puts(m, r, n, object) ==
  /\ r \in State /\ SameRest(m, r) /\ r.aspects = m.aspects
  /\ n \in Names(r) /\ r.objects[n] = object /\ Others(m, r, n)
  /\ \A x \in Name \ {n} : SameProtection(m, r, x)
  /\ Adds(m, r, n, object.content, object.named)

LEMMA EmptyBody ==
  <<>> \in Body
  <1>1. <<>> \in [1..0 -> Letter]
    OBVIOUS
  <1>2. 0 \in 0..MaxSize
    BY S3Assumption
  <1> QED
    BY <1>1, <1>2 DEF Body

LEMMA GreatestOf ==
  ASSUME NEW m \in State, Numbered(m)
  PROVE  NextSequence(m) \in Nat /\ \A v \in m.history : v.seq < NextSequence(m)
  <1> DEFINE numbers == {0} \cup {v.seq : v \in m.history}
             s == GreatestSequence(m)
  <1>1. s \in numbers /\ \A v \in m.history : v.seq <= s
    BY DEF Numbered, GreatestSequence
  <1>2. \A v \in m.history : v.seq \in Nat
    BY StateFields DEF Version
  <1>3. s \in Nat
    BY <1>1, <1>2
  <1> HIDE DEF s
  <1> QED
    BY <1>1, <1>2, <1>3 DEF NextSequence, s

LEMMA RecordVersionOf ==
  ASSUME NEW m \in State, Numbered(m), NEW n \in Name, NEW marker \in BOOLEAN,
         NEW content \in Body, NEW named \in BOOLEAN
  PROVE  LET r == RecordVersion(m, n, marker, content, named)
         IN  /\ r \in State /\ SameRest(m, r) /\ r.objects = m.objects /\ r.aspects = m.aspects
             /\ r.retention = m.retention /\ r.legalHold = m.legalHold
             /\ AddsVersion(m, r, n, content, named) /\ Numbered(r)
  <1> DEFINE v == [name |-> n, seq |-> NextSequence(m), marker |-> marker,
                   content |-> content, named |-> named, held |-> FALSE]
             r == RecordVersion(m, n, marker, content, named)
  <1>1. NextSequence(m) \in Nat /\ \A w \in m.history : w.seq < NextSequence(m)
    BY GreatestOf
  <1>2. v \in Version /\ v.name = n /\ v.seq = NextSequence(m) /\ v.content = content /\ v.named = named
    BY <1>1 DEF Version
  <1>3. r = [m EXCEPT !.history = m.history \cup {v}]
    BY DEF RecordVersion
  <1> HIDE DEF v, r
  <1>4. r.history = m.history \cup {v}
    BY <1>3 DEF State
  <1>5. /\ r \in State /\ SameRest(m, r) /\ r.objects = m.objects /\ r.aspects = m.aspects
        /\ r.retention = m.retention /\ r.legalHold = m.legalHold
    BY <1>2, <1>3 DEF State, SameRest
  <1>6. AddsVersion(m, r, n, content, named)
    BY <1>1, <1>2, <1>4 DEF AddsVersion
  <1>7. \A w \in m.history : w.seq \in Nat
    BY StateFields DEF Version
  <1>8. Numbered(r)
    <2>1. v.seq \in {0} \cup {w.seq : w \in r.history}
      BY <1>4
    <2>2. \A w \in r.history : w.seq <= v.seq
      BY <1>1, <1>2, <1>4, <1>7
    <2>3. \A u, w \in r.history : u.seq = w.seq => u = w
      BY <1>1, <1>2, <1>4, <1>7 DEF Numbered
    <2> QED
      BY <2>1, <2>2, <2>3 DEF Numbered
  <1> QED
    BY <1>5, <1>6, <1>8 DEF r

LEMMA UpsertOf ==
  ASSUME NEW m \in State, NEW n \in Name, NEW object \in Object
  PROVE  LET r == UpsertObject(m, n, object)
         IN  /\ r \in State /\ SameRest(m, r) /\ r.aspects = m.aspects /\ r.history = m.history
             /\ r.retention = m.retention /\ r.legalHold = m.legalHold
             /\ n \in Names(r) /\ r.objects[n] = object /\ Others(m, r, n)
  <1> DEFINE objects == [x \in Names(m) \cup {n} |-> IF x = n THEN object ELSE m.objects[x]]
             r == UpsertObject(m, n, object)
  <1>1. Names(m) \subseteq Name /\ \A x \in Names(m) : m.objects[x] \in Object
    BY StateFields, ObjectTable DEF Names
  <1>2. /\ objects \in [Names(m) \cup {n} -> Object] /\ DOMAIN objects = Names(m) \cup {n}
        /\ objects[n] = object /\ \A x \in Names(m) \ {n} : objects[x] = m.objects[x]
    BY <1>1
  <1>3. objects \in Objects
    BY <1>1, <1>2, IsTable
  <1>4. r = [m EXCEPT !.objects = objects]
    BY DEF UpsertObject
  <1> HIDE DEF objects, r
  <1>5. /\ r \in State /\ SameRest(m, r) /\ r.aspects = m.aspects /\ r.history = m.history
        /\ r.retention = m.retention /\ r.legalHold = m.legalHold /\ r.objects = objects
    BY <1>3, <1>4 DEF State, SameRest
  <1>6. Names(r) = Names(m) \cup {n}
    BY <1>2, <1>5 DEF Names
  <1> QED
    BY <1>2, <1>5, <1>6 DEF Others, r

LEMMA StoreObjectOf ==
  ASSUME NEW m \in State, Numbered(m), NEW n \in Name, NEW object \in Object
  PROVE  Puts(m, StoreObject(m, n, object), n, object)
  <1> DEFINE stored == UpsertObject(m, n, object)
             content == object.content
             named == object.named
             r == RecordVersion(stored, n, FALSE, content, named)
  <1>1. /\ stored \in State /\ SameRest(m, stored) /\ stored.aspects = m.aspects /\ stored.history = m.history
        /\ stored.retention = m.retention /\ stored.legalHold = m.legalHold
        /\ n \in Names(stored) /\ stored.objects[n] = object /\ Others(m, stored, n)
    BY UpsertOf
  <1> HIDE DEF stored
  <1>2. Numbered(stored)
    BY <1>1 DEF Numbered
  <1>3. content \in Body /\ named \in BOOLEAN /\ FALSE \in BOOLEAN
    BY DEF Object
  <1> HIDE DEF content, named
  <1>4. /\ r \in State /\ SameRest(stored, r) /\ r.objects = stored.objects /\ r.aspects = stored.aspects
        /\ r.retention = stored.retention /\ r.legalHold = stored.legalHold
        /\ AddsVersion(stored, r, n, content, named) /\ Numbered(r)
    BY <1>1, <1>2, <1>3, RecordVersionOf
  <1>5. StoreObject(m, n, object) = IF VersioningEnabled(m, BucketOf(n)) THEN r ELSE stored
    BY <1>1 DEF StoreObject, stored, VersioningEnabled, SameRest, content, named
  <1> HIDE DEF r
  <1>6. CASE VersioningEnabled(m, BucketOf(n))
    <2>1. AddsVersion(m, r, n, object.content, object.named)
      BY <1>1, <1>4 DEF AddsVersion, content, named
    <2>2. Puts(m, r, n, object)
      BY <1>1, <1>4, <1>6, <2>1 DEF Puts, Adds, SameRest, SameProtection, Others, Names
    <2> QED
      BY <1>5, <1>6, <2>2
  <1>7. CASE ~VersioningEnabled(m, BucketOf(n))
    <2>1. Puts(m, stored, n, object)
      BY <1>1, <1>2 DEF Puts, Adds, SameProtection
    <2> QED
      BY <1>5, <1>7, <2>1
  <1> QED
    BY <1>6, <1>7

LEMMA PutsThenProtects ==
  ASSUME NEW m, NEW r, NEW s, NEW n, NEW object, Puts(m, r, n, object), OnlyProtection(r, s, n)
  PROVE  Puts(m, s, n, object)
  BY DEF Puts, OnlyProtection, Adds, AddsVersion, SameRest, SameProtection, Others, Names, Numbered

LEMMA ClearObjectProtectionOf ==
  ASSUME NEW m \in State, NEW n
  PROVE  OnlyProtection(m, ClearObjectProtection(m, n), n)
  BY WithoutProtectionOf DEF OnlyProtection, ClearObjectProtection

LEMMA ApplyDefaultRetentionOf ==
  ASSUME NEW m \in State, NEW n \in Name, NEW time \in Nat
  PROVE  OnlyProtection(m, ApplyDefaultRetention(m, n, time), n)
  <1> DEFINE lock == m.locks[BucketOf(n)]
             due == [mode |-> lock.mode, until |-> time + lock.days]
             retention == [m.retention EXCEPT ![n] = due]
             r == [m EXCEPT !.retention = retention]
  <1>1. BucketOf(n) \in Bucket
    BY DEF Name, BucketOf
  <1>2. lock \in Lock
    BY <1>1, StateFields
  <1>3. ASSUME lock.days > 0
        PROVE  OnlyProtection(m, r, n)
    <2>1. lock \in [mode : Mode, days : Nat \ {0}]
      BY <1>2, <1>3 DEF Lock, NoLock, LockOnly
    <2>2. due \in Retention
      BY <2>1 DEF Retention
    <2> HIDE DEF due
    <2>3. retention \in [Name -> Retention] /\ \A x \in Name \ {n} : retention[x] = m.retention[x]
      BY <2>2, StateFields
    <2> HIDE DEF retention
    <2> QED
      BY <2>3 DEF State, OnlyProtection, SameRest, SameProtection
  <1>4. OnlyProtection(m, m, n)
    BY DEF OnlyProtection, SameRest, SameProtection
  <1>5. ApplyDefaultRetention(m, n, time) = IF lock.days > 0 /\ m.retention[n] = NoRetention THEN r ELSE m
    BY DEF ApplyDefaultRetention
  <1> QED
    BY <1>3, <1>4, <1>5

LEMMA CopyObjectProtectionOf ==
  ASSUME NEW m \in State, NEW n \in Name, NEW source \in Name
  PROVE  OnlyProtection(m, CopyObjectProtection(m, n, source), n)
  <1> DEFINE retention == [m.retention EXCEPT ![n] = m.retention[source]]
             legalHold == [m.legalHold EXCEPT ![n] = m.legalHold[source]]
  <1>1. /\ retention \in [Name -> Retention] /\ \A x \in Name \ {n} : retention[x] = m.retention[x]
        /\ legalHold \in [Name -> {"none", "ON", "OFF"}] /\ \A x \in Name \ {n} : legalHold[x] = m.legalHold[x]
    BY StateFields
  <1>2. CopyObjectProtection(m, n, source) = [m EXCEPT !.retention = retention, !.legalHold = legalHold]
    BY DEF CopyObjectProtection
  <1> HIDE DEF retention, legalHold
  <1> QED
    BY <1>1, <1>2 DEF State, OnlyProtection, SameRest, SameProtection

LEMMA ReplacedOf ==
  ASSUME NEW m \in State, Numbered(m), NEW n \in Name, NEW object \in Object, now \in Nat
  PROVE  Puts(m, Replaced(m, n, object), n, object)
  <1> DEFINE first == StoreObject(m, n, object)
             second == ClearObjectProtection(first, n)
             third == ApplyDefaultRetention(second, n, now)
  <1>1. Puts(m, first, n, object) /\ first \in State
    BY StoreObjectOf DEF Puts
  <1> HIDE DEF first
  <1>2. OnlyProtection(first, second, n) /\ second \in State
    BY <1>1, ClearObjectProtectionOf DEF OnlyProtection
  <1> HIDE DEF second
  <1>3. OnlyProtection(second, third, n)
    BY <1>2, ApplyDefaultRetentionOf
  <1>4. third = Replaced(m, n, object)
    BY DEF Replaced, second, first
  <1> HIDE DEF third
  <1> QED
    BY <1>1, <1>2, <1>3, <1>4, PutsThenProtects

LEMMA CopiedOf ==
  ASSUME NEW m \in State, Numbered(m), NEW n \in Name, NEW source \in Name, NEW object \in Object, now \in Nat
  PROVE  Puts(m, ApplyDefaultRetention(CopyObjectProtection(
                   ClearObjectProtection(StoreObject(m, n, object), n), n, source), n, now), n, object)
  <1> DEFINE first == StoreObject(m, n, object)
             second == ClearObjectProtection(first, n)
             third == CopyObjectProtection(second, n, source)
             fourth == ApplyDefaultRetention(third, n, now)
  <1>1. Puts(m, first, n, object) /\ first \in State
    BY StoreObjectOf DEF Puts
  <1> HIDE DEF first
  <1>2. OnlyProtection(first, second, n) /\ second \in State
    BY <1>1, ClearObjectProtectionOf DEF OnlyProtection
  <1> HIDE DEF second
  <1>3. OnlyProtection(second, third, n) /\ third \in State
    BY <1>2, CopyObjectProtectionOf DEF OnlyProtection
  <1> HIDE DEF third
  <1>4. OnlyProtection(third, fourth, n)
    BY <1>3, ApplyDefaultRetentionOf
  <1>5. Puts(m, fourth, n, object)
    BY <1>1, <1>2, <1>3, <1>4, PutsThenProtects
  <1> QED
    BY <1>5 DEF first, second, third

Removes(m, r, n) ==
  /\ r \in State /\ SameRest(m, r)
  /\ n \notin Names(r) /\ Others(m, r, n)
  /\ r.aspects = {a \in m.aspects : a[1] # n}
  /\ \A x \in Name \ {n} : SameProtection(m, r, x)
  /\ r.retention[n] = NoRetention /\ r.legalHold[n] = "none"
  /\ Adds(m, r, n, <<>>, FALSE)

LEMMA DeleteObjectOfOf ==
  ASSUME NEW m \in State, NEW n \in Name
  PROVE  LET r == DeleteObjectOf(m, n)
         IN  /\ r \in State /\ SameRest(m, r) /\ r.history = m.history
             /\ n \notin Names(r) /\ Others(m, r, n)
             /\ r.aspects = {a \in m.aspects : a[1] # n}
             /\ \A x \in Name \ {n} : SameProtection(m, r, x)
             /\ r.retention[n] = NoRetention /\ r.legalHold[n] = "none"
  <1> DEFINE first == ClearObjectProtection(m, n)
             second == WithoutAspects(first, {n})
             objects == [x \in Names(m) \ {n} |-> m.objects[x]]
             r == [second EXCEPT !.objects = objects]
  <1>1. /\ first \in State /\ SameRest(m, first)
        /\ first.objects = m.objects /\ first.aspects = m.aspects /\ first.history = m.history
        /\ \A x \in Name \ {n} : SameProtection(m, first, x)
        /\ first.retention[n] = NoRetention /\ first.legalHold[n] = "none"
    BY WithoutProtectionOf DEF ClearObjectProtection
  <1> HIDE DEF first
  <1>2. /\ second \in State /\ SameRest(first, second)
        /\ second.objects = first.objects /\ second.history = first.history
        /\ second.retention = first.retention /\ second.legalHold = first.legalHold
        /\ second.aspects = {a \in first.aspects : a[1] \notin {n}}
    BY <1>1, WithoutAspectsOf
  <1>3. Names(m) \subseteq Name /\ \A x \in Names(m) : m.objects[x] \in Object
    BY StateFields, ObjectTable DEF Names
  <1>4. /\ objects \in [Names(m) \ {n} -> Object] /\ DOMAIN objects = Names(m) \ {n}
        /\ \A x \in Names(m) \ {n} : objects[x] = m.objects[x]
    BY <1>3
  <1>5. objects \in Objects
    BY <1>3, <1>4, IsTable
  <1>6. DeleteObjectOf(m, n) = r
    BY DEF DeleteObjectOf, second, first
  <1> HIDE DEF second, objects, r
  <1>7. /\ r \in State /\ SameRest(second, r) /\ r.history = second.history /\ r.aspects = second.aspects
        /\ r.retention = second.retention /\ r.legalHold = second.legalHold /\ r.objects = objects
    BY <1>2, <1>5 DEF State, SameRest, r
  <1>8. Names(r) = Names(m) \ {n}
    BY <1>4, <1>7 DEF Names
  <1>9. Others(m, r, n)
    BY <1>4, <1>7, <1>8 DEF Others
  <1>10. r.aspects = {a \in m.aspects : a[1] # n}
    BY <1>1, <1>2, <1>7
  <1> QED
    BY <1>1, <1>2, <1>6, <1>7, <1>8, <1>9, <1>10 DEF SameRest, SameProtection

LEMMA RemovedOf ==
  ASSUME NEW m \in State, Numbered(m), NEW n \in Name
  PROVE  Removes(m, DeleteObjectOf(
                      IF VersioningEnabled(m, BucketOf(n)) THEN RecordDeleteMarker(m, n) ELSE m, n), n)
  <1> DEFINE marked == IF VersioningEnabled(m, BucketOf(n)) THEN RecordDeleteMarker(m, n) ELSE m
             r == DeleteObjectOf(marked, n)
  <1>1. /\ marked \in State /\ SameRest(m, marked) /\ marked.objects = m.objects /\ marked.aspects = m.aspects
        /\ marked.retention = m.retention /\ marked.legalHold = m.legalHold
        /\ Adds(m, marked, n, <<>>, FALSE)
    <2>1. CASE VersioningEnabled(m, BucketOf(n))
      <3> DEFINE s == RecordVersion(m, n, TRUE, <<>>, FALSE)
      <3>1. marked = s
        BY <2>1 DEF RecordDeleteMarker
      <3> HIDE DEF marked
      <3>2. TRUE \in BOOLEAN /\ FALSE \in BOOLEAN /\ <<>> \in Body
        BY EmptyBody
      <3>3. /\ s \in State /\ SameRest(m, s) /\ s.objects = m.objects /\ s.aspects = m.aspects
            /\ s.retention = m.retention /\ s.legalHold = m.legalHold
            /\ AddsVersion(m, s, n, <<>>, FALSE) /\ Numbered(s)
        BY <3>2, RecordVersionOf
      <3> QED
        BY <2>1, <3>1, <3>3 DEF Adds
    <2>2. CASE ~VersioningEnabled(m, BucketOf(n))
      BY <2>2 DEF Adds, SameRest
    <2> QED
      BY <2>1, <2>2
  <1> HIDE DEF marked
  <1>2. /\ r \in State /\ SameRest(marked, r) /\ r.history = marked.history
        /\ n \notin Names(r) /\ Others(marked, r, n)
        /\ r.aspects = {a \in marked.aspects : a[1] # n}
        /\ \A x \in Name \ {n} : SameProtection(marked, r, x)
        /\ r.retention[n] = NoRetention /\ r.legalHold[n] = "none"
    BY <1>1, DeleteObjectOfOf
  <1> HIDE DEF r
  <1>3. Others(m, r, n)
    BY <1>1, <1>2 DEF Others, Names
  <1>4. Adds(m, r, n, <<>>, FALSE)
    BY <1>1, <1>2 DEF Adds, AddsVersion, Numbered
  <1>5. Removes(m, r, n)
    BY <1>1, <1>2, <1>3, <1>4 DEF Removes, SameRest, SameProtection
  <1> QED
    BY <1>5 DEF r, marked

(* r is m without the bucket b, and without what was set of its objects.   *)
Abandons(m, r, b) ==
  LET names == {n \in Name : BucketOf(n) = b}
  IN  /\ r \in State /\ r.buckets = m.buckets \ {b} /\ r.objects = m.objects /\ r.history = m.history
      /\ r.versioning[b] = "" /\ \A x \in Bucket \ {b} : r.versioning[x] = m.versioning[x]
      /\ r.locks[b] = NoLock /\ \A x \in Bucket \ {b} : r.locks[x] = m.locks[x]
      /\ r.features = {f \in m.features : f[1] # b}
      /\ r.aspects = {a \in m.aspects : a[1] \notin names}
      /\ \A n \in Name \ names : SameProtection(m, r, n)
      /\ \A n \in Name \cap names : r.retention[n] = NoRetention /\ r.legalHold[n] = "none"

LEMMA WithoutBucketOf ==
  ASSUME NEW m \in State, NEW b \in Bucket
  PROVE  Abandons(m, WithoutBucket(m, b), b)
  <1> DEFINE names == {n \in Name : BucketOf(n) = b}
             first == WithoutAspects(m, names)
             second == WithoutProtection(first, names)
             versioning == [m.versioning EXCEPT ![b] = ""]
             locks == [m.locks EXCEPT ![b] = NoLock]
             features == {f \in m.features : f[1] # b}
             buckets == m.buckets \ {b}
             r == [second EXCEPT !.versioning = versioning, !.features = features, !.locks = locks,
                                 !.buckets = buckets]
  <1> HIDE DEF names
  <1>1. /\ first \in State /\ SameRest(m, first)
        /\ first.objects = m.objects /\ first.history = m.history
        /\ first.retention = m.retention /\ first.legalHold = m.legalHold
        /\ first.aspects = {a \in m.aspects : a[1] \notin names}
    BY WithoutAspectsOf
  <1> HIDE DEF first
  <1>2. /\ second \in State /\ SameRest(first, second)
        /\ second.objects = first.objects /\ second.aspects = first.aspects /\ second.history = first.history
        /\ \A n \in Name \ names : SameProtection(first, second, n)
        /\ \A n \in Name \cap names : second.retention[n] = NoRetention /\ second.legalHold[n] = "none"
    BY <1>1, WithoutProtectionOf
  <1> HIDE DEF second
  <1>3. /\ versioning \in [Bucket -> {"", "Enabled", "Suspended"}]
        /\ versioning[b] = "" /\ \A x \in Bucket \ {b} : versioning[x] = m.versioning[x]
    BY StateFields
  <1>4. /\ locks \in [Bucket -> Lock]
        /\ locks[b] = NoLock /\ \A x \in Bucket \ {b} : locks[x] = m.locks[x]
    BY StateFields DEF Lock
  <1>5. features \subseteq Bucket \X Feature /\ buckets \subseteq Bucket
    BY StateFields
  <1>6. WithoutBucket(m, b) = r
    <2>1. WithoutGovernance(m, b) =
            [second EXCEPT !.versioning[b] = "", !.features = features, !.locks[b] = NoLock]
      BY DEF WithoutGovernance, second, first, names
    <2>2. second.versioning = m.versioning /\ second.locks = m.locks /\ second.buckets = m.buckets
      BY <1>1, <1>2 DEF SameRest
    <2>3. second \in State
      BY <1>2
    <2> HIDE DEF features
    <2> QED
      BY <2>1, <2>2, <2>3 DEF WithoutBucket, State
  <1> HIDE DEF versioning, locks, features, buckets, r
  <1>7. /\ r \in State /\ r.versioning = versioning /\ r.locks = locks /\ r.features = features
        /\ r.buckets = buckets /\ r.objects = second.objects /\ r.history = second.history
        /\ r.aspects = second.aspects /\ r.retention = second.retention /\ r.legalHold = second.legalHold
    <2>1. r.buckets = buckets /\ r.features = features /\ r.versioning = versioning /\ r.locks = locks
      BY <1>2 DEF State, r
    <2>2. r \in State
      BY <1>2, <1>3, <1>4, <1>5 DEF State, r
    <2> QED
      BY <1>2, <2>1, <2>2 DEF State, r
  <1>8. buckets = m.buckets \ {b} /\ features = {f \in m.features : f[1] # b}
    BY DEF buckets, features
  <1>9. r.aspects = {a \in m.aspects : a[1] \notin names}
    BY <1>1, <1>2, <1>7
  <1>10. /\ r.versioning[b] = "" /\ \A x \in Bucket \ {b} : r.versioning[x] = m.versioning[x]
         /\ r.locks[b] = NoLock /\ \A x \in Bucket \ {b} : r.locks[x] = m.locks[x]
    BY <1>3, <1>4, <1>7
  <1>11. /\ \A n \in Name \ names : SameProtection(m, r, n)
         /\ \A n \in Name \cap names : r.retention[n] = NoRetention /\ r.legalHold[n] = "none"
    BY <1>1, <1>2, <1>7 DEF SameProtection
  <1>12. r.buckets = m.buckets \ {b} /\ r.objects = m.objects /\ r.history = m.history
    BY <1>1, <1>2, <1>7, <1>8
  <1>13. r \in State /\ r.features = {f \in m.features : f[1] # b}
    BY <1>7, <1>8
  <1> HIDE DEF r
  <1>14. Abandons(m, r, b)
    BY <1>9, <1>10, <1>11, <1>12, <1>13 DEF Abandons, names
  <1> QED
    BY <1>6, <1>14

-----------------------------------------------------------------------------
(* The invariant.  Its first four parts do not need the others. *)
TypesInv ==
  /\ TypeOK
  /\ Numbered(memory) /\ Numbered(disk)
  /\ promise \in [Name -> Promise]
  /\ meanwhile \subseteq Overtaking

DownInv == ~up => putting = NoPut /\ \A id \in UploadId : uploads[id] = NoUpload

(* What a client may expect is in memory and in the file. *)
ReadsInv ==
  /\ ValidState(disk)
  /\ \A n \in Name : Contents(disk, n) \in may[n]
  /\ up => \A n \in Name : Contents(memory, n) \in may[n]

VersionsInv ==
  /\ known \subseteq VersionIds(disk)
  /\ up => /\ known \subseteq VersionIds(memory)
           /\ \A v \in memory.history : VersionId(v) \in known => v.marker \/ v.named

S3Inv == TypesInv /\ DownInv /\ ReadsInv /\ VersionsInv

(* The objects of m have their buckets, but for those of overtaken puts. *)
Housed(m) == \A n \in Names(m) : BucketOf(n) \in m.buckets \/ Excused("bucket", n)

ConsistentInv == Consistent(memory) /\ Consistent(disk) /\ Housed(memory)

UploadsInv == \A id \in UploadId : uploads[id] # NoUpload => BucketOf(uploads[id].name) \in memory.buckets

(* What the put under way had found or made is still so, or meanwhile says *)
(* that it is not.                                                         *)
PutInv ==
  PutUnderWay =>
    /\ BucketOf(putting.name) \in memory.buckets \/ "bucket" \in meanwhile
    /\ Relied(putting.name) => "protection" \in meanwhile \/ Excused("protection", putting.name)
    /\ putting.stage = "stored" => <<putting.name, putting.content>> \in payloads \/ "payload" \in meanwhile

(* What was promised of n is protected in m. *)
Guards(m, n, p) ==
  /\ p.hold => HasObject(m, n) /\ m.legalHold[n] = "ON"
  /\ p.until > now => HasObject(m, n) /\ m.retention[n].until >= p.until
  /\ p.hold \/ p.until > now => Contents(m, n) = {p.content}

Guarded(n) == Guards(disk, n, promise[n]) /\ (up => Guards(memory, n, promise[n]))
GuardInv == \A n \in Name : Guarded(n) \/ Excused("protection", n)

SafeInv == ConsistentInv /\ UploadsInv /\ PutInv /\ PayloadsKept /\ GuardInv
-----------------------------------------------------------------------------
(* What an overtaken put has left is forgotten only when it does not show  *)
(* any more.                                                               *)
LEMMA StandingProtection ==
  ASSUME Standing \subseteq overtaken', NEW n, Excused("protection", n), Relied(n)
  PROVE  Excused("protection", n)'
  <1>1. PICK o \in overtaken : o.by = "protection" /\ o.name = n
    BY DEF Excused
  <1>2. o \in overtaken'
    BY <1>1 DEF Standing
  <1> QED
    BY <1>1, <1>2 DEF Excused

LEMMA StandingBucket ==
  ASSUME Standing \subseteq overtaken', NEW n, Excused("bucket", n), BucketOf(n) \notin memory.buckets
  PROVE  Excused("bucket", n)'
  <1>1. PICK o \in overtaken : o.by = "bucket" /\ o.name = n
    BY DEF Excused
  <1>2. o \in overtaken'
    BY <1>1 DEF Standing
  <1> QED
    BY <1>1, <1>2 DEF Excused

LEMMA StandingPayloads ==
  ASSUME Standing \subseteq overtaken'
  PROVE  LostPayloads \subseteq payloads \cup LostPayloads'
  <1> SUFFICES ASSUME NEW o \in overtaken, o.by = "payload", <<o.name, o.content>> \notin payloads
               PROVE  <<o.name, o.content>> \in LostPayloads'
    BY DEF LostPayloads
  <1>1. o \in overtaken'
    BY DEF Standing
  <1> QED
    BY <1>1 DEF LostPayloads

(* Where nothing is excused after a step, promises were kept before it. *)
LEMMA GuardedNow ==
  ASSUME GuardInv, Standing \subseteq overtaken', NEW n \in Name, ~Excused("protection", n)'
  PROVE  Guarded(n)
  <1>1. CASE Relied(n)
    BY <1>1, StandingProtection DEF GuardInv
  <1>2. CASE ~Relied(n)
    BY <1>2 DEF Relied, Protects, Guarded, Guards
  <1> QED
    BY <1>1, <1>2
-----------------------------------------------------------------------------
(* What all requests do that change the state. *)
Follows(next, names) ==
  /\ Numbered(next)
  /\ memory.history \subseteq next.history
  /\ \A v \in next.history \ memory.history, w \in memory.history : w.seq < v.seq
  /\ \A n \in Name \ names : Contents(next, n) = Contents(memory, n)

(* What a client relies on is left as it is. *)
Kept(next, names, n) ==
  /\ Contents(next, n) = Contents(memory, n)
  /\ next.retention[n].until >= memory.retention[n].until
  /\ n \notin names => next.legalHold[n] = memory.legalHold[n]

Keeps(next, names) == \A n \in Name : Relied(n) => Kept(next, names, n) \/ Excused("protection", n)'

Orderly(next, files, names) ==
  /\ Consistent(next)
  /\ \A n \in Names(next) : BucketOf(n) \in next.buckets \/ Excused("bucket", n)'
  /\ NamedPayloads(next) \subseteq files \cup LostPayloads'
  /\ Keeps(next, names)

UploadsType == [UploadId -> Upload \cup {NoUpload}]

Marks == [by : Overtaking, name : Name, content : Body]

Requests ==
  /\ up /\ up' = up /\ now' = now
  /\ uploads' \in UploadsType /\ putting' \in Put \cup {NoPut}
  /\ meanwhile' \subseteq Overtaking /\ overtaken' \subseteq Marks /\ Standing \subseteq overtaken'
  /\ \E ok \in BOOLEAN, next \in State, files \in SUBSET Ref, names \in SUBSET Name :
       /\ Persist(ok, next, files, names)
       /\ Follows(next, names)
       /\ SafeInv => Orderly(next, files, names)
  /\ SafeInv => PutInv' /\ UploadsInv'

LEMMA PayloadTypes ==
  ASSUME NEW m \in State
  PROVE  NewPayloads(m) \subseteq Ref /\ \A n \in Name : m.retention[n].until \in Nat
  <1>1. \A n \in Names(m) : n \in Name /\ m.objects[n].content \in Body
    BY StateFields, ObjectTable DEF Names, Object
  <1>2. NewPayloads(m) \subseteq Ref
    BY <1>1 DEF NewPayloads, Ref
  <1>3. ASSUME NEW n \in Name
        PROVE  m.retention[n].until \in Nat
    <2>1. m.retention[n] \in Retention
      BY StateFields
    <2> QED
      BY <2>1 DEF Retention, NoRetention
  <1> QED
    BY <1>2, <1>3

LEMMA ObjectContent ==
  ASSUME NEW m \in State, NEW n \in Name, HasObject(m, n)
  PROVE  m.objects[n].content \in Body
  BY StateFields, ObjectTable DEF Names, HasObject, Object

LEMMA PersistTypes ==
  ASSUME TypesInv, NEW ok \in BOOLEAN, NEW next \in State, NEW files \in SUBSET Ref, NEW names \in SUBSET Name,
         Persist(ok, next, files, names), Numbered(next)
  PROVE  /\ memory' = next /\ disk' \in State /\ payloads' \subseteq Ref /\ failures' \in Nat
         /\ Numbered(memory') /\ Numbered(disk') /\ promise' \in [Name -> Promise]
  <1>1. /\ disk \in State /\ failures \in Nat /\ Numbered(disk) /\ promise \in [Name -> Promise]
    BY DEF TypesInv, TypeOK
  <1>2. Normal(next) \in State /\ Numbered(Normal(next))
    BY NormalOf DEF SameVersions
  <1>3. disk' \in State /\ Numbered(disk') /\ failures' \in Nat
    BY <1>1, <1>2 DEF Persist, Save
  <1>4. payloads' \subseteq Ref
    BY PayloadTypes DEF Persist, Save
  <1>5. ASSUME NEW n \in Name
        PROVE  Protection(next, n) \in Promise /\ Lifted(promise[n], next, n) \in Promise
    <2>1. promise[n] \in Promise
      BY <1>1
    <2>2. NoPromise \in Promise
      BY EmptyBody DEF NoPromise, Promise
    <2>3. Lifted(promise[n], next, n) \in Promise
      <3> DEFINE hold == promise[n].hold /\ (next.legalHold[n] = "ON" \/ Broken(next, n))
      <3>1. hold \in BOOLEAN /\ Lifted(promise[n], next, n) = [promise[n] EXCEPT !.hold = hold]
        BY DEF Lifted
      <3> HIDE DEF hold
      <3> QED
        BY <2>1, <3>1 DEF Promise
    <2>4. HasObject(next, n) => next.objects[n].content \in Body
      BY ObjectContent
    <2>5. next.retention[n].until \in Nat /\ promise[n].until \in Nat
      BY <2>1, PayloadTypes DEF Promise
    <2>6. Protection(next, n) \in Promise
      <3> DEFINE hold == next.legalHold[n] = "ON"
                 until == IF next.retention[n].until > promise[n].until
                          THEN next.retention[n].until ELSE promise[n].until
      <3>1. hold \in BOOLEAN /\ until \in Nat
        BY <2>5
      <3>2. Protection(next, n) = IF Broken(next, n) THEN promise[n]
              ELSE IF HasObject(next, n) THEN [content |-> next.objects[n].content, hold |-> hold, until |-> until]
              ELSE NoPromise
        BY DEF Protection
      <3> HIDE DEF hold, until
      <3> QED
        BY <2>1, <2>2, <2>4, <3>1, <3>2 DEF Promise
    <2> QED
      BY <2>3, <2>6
  <1>6. promise' \in [Name -> Promise]
    BY <1>1, <1>5 DEF Persist, Acknowledge, Refuse
  <1> QED
    BY <1>3, <1>4, <1>6 DEF Persist

LEMMA PersistReads ==
  ASSUME TypesInv, ReadsInv, up, NEW ok \in BOOLEAN, NEW next \in State, NEW files, NEW names \in SUBSET Name,
         Persist(ok, next, files, names), Follows(next, names)
  PROVE  ReadsInv'
  <1>1. \A n \in Name : Contents(Normal(next), n) = Contents(next, n)
    BY NormalOf
  <1>2. ValidState(disk')
    BY DEF ReadsInv, Persist, Save
  <1>3. ASSUME NEW n \in Name
        PROVE  Contents(disk', n) \in may'[n] /\ Contents(memory', n) \in may'[n]
    <2>1. /\ Contents(disk, n) \in may[n] /\ Contents(memory, n) \in may[n]
          /\ n \notin names => Contents(next, n) = Contents(memory, n)
      BY DEF ReadsInv, Follows
    <2>2. CASE ok
      <3>1. /\ may'[n] = IF n \in names THEN {Contents(next, n)} ELSE may[n]
            /\ memory' = next /\ disk' = Normal(next)
        BY <2>2 DEF Persist, Acknowledge, Save
      <3> QED
        BY <3>1, <2>1, <1>1
    <2>3. CASE ~ok
      <3>1. /\ may'[n] = IF n \in names THEN may[n] \cup {Contents(next, n)} ELSE may[n]
            /\ memory' = next /\ disk' = disk
        BY <2>3 DEF Persist, Refuse, Save
      <3> QED
        BY <3>1, <2>1
    <2> QED
      BY <2>2, <2>3
  <1> QED
    BY <1>2, <1>3 DEF ReadsInv

LEMMA PersistVersions ==
  ASSUME TypesInv, VersionsInv, up, NEW ok \in BOOLEAN, NEW next \in State, NEW files, NEW names,
         Persist(ok, next, files, names), Follows(next, names)
  PROVE  VersionsInv'
  <1>1. VersionIds(memory) \subseteq VersionIds(next)
    BY DEF Follows, VersionIds
  <1>2. SameVersions(next, Normal(next)) /\ VersionIds(Normal(next)) = VersionIds(next)
    BY NormalOf, SameIds
  <1>3. memory' = next
    BY DEF Persist
  <1>4. CASE ok
    <2>1. /\ known' = known \cup VersionIds(next) /\ disk' = Normal(next) /\ ValidState(Normal(next))
      BY <1>4 DEF Persist, Acknowledge, Save
    <2>2. ASSUME NEW v \in next.history
          PROVE  v.marker \/ v.named
      <3>1. PICK w \in Normal(next).history : VersionId(w) = VersionId(v) /\ w.named = v.named
        BY <1>2 DEF SameVersions
      <3>2. w.marker = v.marker
        BY <3>1, VersionFields
      <3>3. w.marker \/ w.named
        BY <2>1 DEF ValidState, ValidVersions, VersionsNamePayloads
      <3> QED
        BY <3>1, <3>2, <3>3
    <2>3. known' \subseteq VersionIds(next)
      BY <1>1, <2>1 DEF VersionsInv
    <2> QED
      BY <1>2, <1>3, <2>1, <2>2, <2>3 DEF VersionsInv
  <1>5. CASE ~ok
    <2>1. known' = known /\ disk' = disk
      BY <1>5 DEF Persist, Refuse, Save
    <2>2. ASSUME NEW v \in next.history, VersionId(v) \in known
          PROVE  v.marker \/ v.named
      <3>1. PICK u \in memory.history : VersionId(u) = VersionId(v)
        BY <2>2 DEF VersionsInv, VersionIds
      <3>2. u.seq = v.seq /\ u.seq \in Nat
        BY <3>1, VersionFields, StateFields DEF TypesInv, TypeOK, Version
      <3>3. v \in memory.history
        BY <3>2 DEF Follows
      <3> QED
        BY <2>2, <3>3 DEF VersionsInv
    <2> QED
      BY <1>1, <1>3, <2>1, <2>2 DEF VersionsInv
  <1> QED
    BY <1>4, <1>5

LEMMA GuardsAlike ==
  ASSUME NEW m, NEW r, NEW n, NEW p, Guards(m, n, p),
         Contents(r, n) = Contents(m, n), HasObject(r, n) = HasObject(m, n), SameProtection(m, r, n)
  PROVE  Guards(r, n, p)
  BY DEF Guards, SameProtection

LEMMA GuardsLess ==
  ASSUME NEW m, NEW n, NEW p, NEW q, Guards(m, n, p),
         q.content = p.content, q.hold => p.hold, q.until = p.until
  PROVE  Guards(m, n, q)
  BY DEF Guards

(* Until a save succeeds, a promise stands as far as memory still keeps it. *)
LEMMA LiftedOf ==
  ASSUME NEW p \in Promise, NEW m, NEW n
  PROVE  /\ Lifted(p, m, n).content = p.content /\ Lifted(p, m, n).until = p.until
         /\ Lifted(p, m, n).hold = (p.hold /\ (m.legalHold[n] = "ON" \/ Broken(m, n)))
  <1> DEFINE hold == p.hold /\ (m.legalHold[n] = "ON" \/ Broken(m, n))
  <1>1. hold \in BOOLEAN /\ Lifted(p, m, n) = [p EXCEPT !.hold = hold]
    BY DEF Lifted
  <1> HIDE DEF hold
  <1>2. Lifted(p, m, n).content = p.content /\ Lifted(p, m, n).until = p.until /\ Lifted(p, m, n).hold = hold
    BY <1>1 DEF Promise
  <1> QED
    BY <1>2 DEF hold

LEMMA ContentsAlike ==
  ASSUME NEW m, NEW r, NEW n, Contents(r, n) = Contents(m, n)
  PROVE  HasObject(r, n) <=> HasObject(m, n)
  <1>1. \A s \in {m, r} : HasObject(s, n) <=> Contents(s, n) # {}
    <2> SUFFICES ASSUME NEW s
                 PROVE  HasObject(s, n) <=> Contents(s, n) # {}
      OBVIOUS
    <2>1. Contents(s, n) = IF HasObject(s, n) THEN {s.objects[n].content} ELSE {}
      BY ContentsOf
    <2> QED
      BY <2>1
  <1> QED
    BY <1>1

LEMMA MemoryGuarded ==
  ASSUME TypesInv, NEW n \in Name, Guards(memory, n, promise[n]), NEW next \in State, NEW names,
         Relied(n) => Kept(next, names, n)
  PROVE  /\ ~Broken(next, n)
         /\ n \notin names => Guards(next, n, promise[n])
         /\ Guards(next, n, Lifted(promise[n], next, n))
         /\ Guards(next, n, Protection(next, n))
  <1> DEFINE p == promise[n]
  <1>1. p \in Promise /\ p.until \in Nat /\ now \in Nat
    BY DEF TypesInv, TypeOK, Promise
  <1>2. Guards(memory, n, p)
    OBVIOUS
  <1>3. Relied(n) = (p.hold \/ p.until > now)
    BY DEF Relied, Protects
  <1>4. next.retention[n].until \in Nat /\ memory.retention[n].until \in Nat
    BY PayloadTypes DEF TypesInv, TypeOK
  <1> HIDE DEF p
  <1>5. Relied(n) => /\ Contents(next, n) = {p.content} /\ HasObject(next, n)
                     /\ next.retention[n].until >= memory.retention[n].until
                     /\ n \notin names => next.legalHold[n] = memory.legalHold[n]
    BY <1>2, <1>3, ContentsAlike DEF Kept, Guards
  <1>6. ~Broken(next, n)
    BY <1>5 DEF Broken, p
  <1>7. ASSUME p.until > now
        PROVE  next.retention[n].until >= p.until
    <2>1. memory.retention[n].until >= p.until
      BY <1>2, <1>7 DEF Guards
    <2>2. next.retention[n].until >= memory.retention[n].until
      BY <1>3, <1>5, <1>7
    <2> QED
      BY <1>1, <1>4, <2>1, <2>2
  <1>8. n \notin names => Guards(next, n, p)
    BY <1>2, <1>3, <1>5, <1>7 DEF Guards
  <1>9. Guards(next, n, Lifted(p, next, n))
    <2>1. /\ Lifted(p, next, n).content = p.content /\ Lifted(p, next, n).until = p.until
          /\ Lifted(p, next, n).hold = (p.hold /\ next.legalHold[n] = "ON")
      BY <1>1, <1>6, LiftedOf
    <2> QED
      BY <1>3, <1>5, <1>7, <2>1 DEF Guards
  <1>10. Guards(next, n, Protection(next, n))
    <2>1. CASE HasObject(next, n)
      <3> DEFINE until == IF next.retention[n].until > p.until THEN next.retention[n].until ELSE p.until
                 q == [content |-> next.objects[n].content, hold |-> next.legalHold[n] = "ON", until |-> until]
      <3>1. Protection(next, n) = q
        BY <1>6, <2>1 DEF Protection, p
      <3>2. until > now => next.retention[n].until >= until
        BY <1>1, <1>4, <1>7
      <3>3. Contents(next, n) = {next.objects[n].content}
        BY <2>1, ContentsOf
      <3> HIDE DEF until
      <3>4. Guards(next, n, q)
        BY <2>1, <3>2, <3>3 DEF Guards
      <3> QED
        BY <3>1, <3>4
    <2>2. CASE ~HasObject(next, n)
      <3>1. Protection(next, n) = NoPromise
        BY <1>6, <2>2 DEF Protection
      <3>2. ~NoPromise.hold /\ ~(NoPromise.until > now)
        BY <1>1 DEF NoPromise
      <3> QED
        BY <3>1, <3>2 DEF Guards
    <2> QED
      BY <2>1, <2>2
  <1> QED
    BY <1>6, <1>8, <1>9, <1>10 DEF p

LEMMA PersistGuards ==
  ASSUME TypesInv, GuardInv, up, up' = up, now' = now, Standing \subseteq overtaken',
         NEW ok \in BOOLEAN, NEW next \in State,
         NEW files, NEW names, Persist(ok, next, files, names), Consistent(next), Keeps(next, names)
  PROVE  GuardInv'
  <1> SUFFICES ASSUME NEW n \in Name, ~Excused("protection", n)'
               PROVE  Guarded(n)'
    BY DEF GuardInv
  <1>1. memory' = next
    BY DEF Persist
  <1>2. /\ Guards(memory, n, promise[n]) /\ Guards(disk, n, promise[n])
        /\ Relied(n) => Kept(next, names, n)
    BY GuardedNow DEF Guarded, Keeps
  <1>3. Guards(next, n, promise'[n]) /\ Guards(disk', n, promise'[n]) => Guarded(n)'
    BY <1>1 DEF Guarded, Guards
  <1>4. CASE ok
    <2>1. /\ disk' = Normal(next) /\ ValidState(Normal(next))
          /\ promise'[n] = IF n \in names THEN Protection(next, n) ELSE promise[n]
      BY <1>4 DEF Persist, Save, Acknowledge
    <2>2. Guards(next, n, promise'[n])
      BY <1>2, <2>1, MemoryGuarded
    <2>3. /\ Contents(Normal(next), n) = Contents(next, n) /\ HasObject(Normal(next), n) = HasObject(next, n)
          /\ SameProtection(next, Normal(next), n)
      BY <2>1, NormalOf, NormalKeeps
    <2> QED
      BY <1>3, <2>1, <2>2, <2>3, GuardsAlike
  <1>5. CASE ~ok
    <2>1. /\ disk' = disk
          /\ promise'[n] = IF n \in names THEN Lifted(promise[n], next, n) ELSE promise[n]
      BY <1>5 DEF Persist, Save, Refuse
    <2>2. Guards(next, n, promise'[n])
      BY <1>2, <2>1, MemoryGuarded
    <2>3. Guards(disk, n, Lifted(promise[n], next, n))
      <3> DEFINE p == promise[n]
      <3>1. p \in Promise
        BY DEF TypesInv
      <3> HIDE DEF p
      <3>2. /\ Lifted(p, next, n).content = p.content /\ Lifted(p, next, n).until = p.until
            /\ Lifted(p, next, n).hold = (p.hold /\ (next.legalHold[n] = "ON" \/ Broken(next, n)))
        BY <3>1, LiftedOf
      <3> QED
        BY <1>2, <3>2, GuardsLess DEF p
    <2> QED
      BY <1>2, <1>3, <2>1, <2>2, <2>3
  <1> QED
    BY <1>4, <1>5

LEMMA PersistPayloads ==
  ASSUME PayloadsKept, Standing \subseteq overtaken', NEW ok \in BOOLEAN, NEW next \in State, NEW files, NEW names,
         Persist(ok, next, files, names), Consistent(next), NamedPayloads(next) \subseteq files \cup LostPayloads'
  PROVE  PayloadsKept'
  <1>1. memory' = next /\ files \subseteq payloads'
    BY DEF Persist, Save
  <1>2. NamedPayloads(disk') \subseteq payloads' \cup LostPayloads' \cup torn'
    <2>1. CASE ok
      <3>1. disk' = Normal(next) /\ ValidState(Normal(next)) /\ payloads' = files \cup NewPayloads(next)
        BY <2>1 DEF Persist, Save
      <3>2. NamedPayloads(Normal(next)) \subseteq NamedPayloads(next) \cup NewPayloads(next)
        BY <3>1, NormalKeeps
      <3> QED
        BY <3>1, <3>2
    <2>2. CASE ~ok
      <3>1. disk' = disk /\ torn' = torn \cup (payloads \ files)
        BY <2>2 DEF Persist, Save, Refuse
      <3> QED
        BY <1>1, <3>1, StandingPayloads DEF PayloadsKept
    <2> QED
      BY <2>1, <2>2
  <1> QED
    BY <1>1, <1>2 DEF PayloadsKept

LEMMA PersistHoused ==
  ASSUME NEW ok \in BOOLEAN, NEW next \in State, NEW files, NEW names, Persist(ok, next, files, names),
         Consistent(next), Consistent(disk), Standing \subseteq overtaken',
         \A n \in Names(next) : BucketOf(n) \in next.buckets \/ Excused("bucket", n)'
  PROVE  ConsistentInv'
  <1>1. memory' = next /\ (disk' = disk \/ (disk' = Normal(next) /\ ValidState(Normal(next))))
    BY DEF Persist, Save
  <1>2. Consistent(memory)' /\ Consistent(disk)'
    BY <1>1, NormalKeeps DEF Consistent, VersionsConsistent, ObjectsConsistent, FeaturesConsistent
  <1>3. Housed(memory)'
    BY <1>1 DEF Housed
  <1> QED
    BY <1>2, <1>3 DEF ConsistentInv

(* Every request that saves keeps the invariant. *)
LEMMA RequestsKeep ==
  ASSUME S3Inv, Requests
  PROVE  S3Inv' /\ (SafeInv => SafeInv')
  <1>1. PICK ok \in BOOLEAN, next \in State, files \in SUBSET Ref, names \in SUBSET Name :
          /\ Persist(ok, next, files, names)
          /\ Follows(next, names)
          /\ SafeInv => Orderly(next, files, names)
    BY DEF Requests
  <1>2. /\ up /\ up' = up /\ now' = now /\ uploads' \in UploadsType /\ putting' \in Put \cup {NoPut}
        /\ meanwhile' \subseteq Overtaking /\ overtaken' \subseteq Marks /\ Standing \subseteq overtaken'
    BY DEF Requests
  <1>3. memory' = next /\ files \subseteq payloads'
    BY <1>1 DEF Persist, Save
  <1>4. TypesInv'
    <2>1. /\ memory' \in State /\ disk' \in State /\ payloads' \subseteq Ref /\ failures' \in Nat
          /\ Numbered(memory') /\ Numbered(disk') /\ promise' \in [Name -> Promise]
      BY <1>1, <1>3, PersistTypes DEF S3Inv, Follows
    <2>2. up' \in BOOLEAN /\ now' \in Nat
      BY <1>2 DEF S3Inv, TypesInv, TypeOK
    <2> QED
      BY <1>2, <2>1, <2>2 DEF TypesInv, TypeOK, UploadsType, Numbered, Marks
  <1>5. ReadsInv' /\ VersionsInv'
    BY <1>1, <1>2, PersistReads, PersistVersions DEF S3Inv
  <1>6. DownInv'
    BY <1>2 DEF DownInv
  <1>7. ASSUME SafeInv
        PROVE  SafeInv'
    <2>1. Orderly(next, files, names) /\ PutInv' /\ UploadsInv'
      BY <1>1, <1>7 DEF Requests
    <2>2. ConsistentInv'
      BY <1>1, <1>2, <1>7, <2>1, PersistHoused DEF Orderly, SafeInv, ConsistentInv
    <2>3. PayloadsKept'
      BY <1>1, <1>2, <1>7, <2>1, PersistPayloads DEF Orderly, SafeInv
    <2>4. GuardInv'
      BY <1>1, <1>2, <1>7, <2>1, PersistGuards DEF Orderly, SafeInv, S3Inv
    <2> QED
      BY <2>1, <2>2, <2>3, <2>4 DEF SafeInv
  <1> QED
    BY <1>4, <1>5, <1>6, <1>7 DEF S3Inv

-----------------------------------------------------------------------------
(* The requests, one by one. *)
LEMMA OthersSame ==
  ASSUME NEW m, NEW r, NEW n, Others(m, r, n), NEW x, x # n
  PROVE  Contents(r, x) = Contents(m, x) /\ (HasObject(r, x) <=> HasObject(m, x))
  <1>1. x \in Names(r) <=> x \in Names(m)
    BY DEF Others
  <1>2. x \in Names(m) => r.objects[x] = m.objects[x]
    BY DEF Others
  <1>3. Contents(r, x) = IF HasObject(r, x) THEN {r.objects[x].content} ELSE {}
    BY ContentsOf
  <1>4. Contents(m, x) = IF HasObject(m, x) THEN {m.objects[x].content} ELSE {}
    BY ContentsOf
  <1> QED
    BY <1>1, <1>2, <1>3, <1>4 DEF HasObject

LEMMA PutTypes ==
  ASSUME TypesInv
  PROVE  /\ PutUnderWay => putting.name \in Name /\ putting.content \in Body
         /\ putting \in Put \cup {NoPut} /\ uploads \in UploadsType
         /\ memory \in State /\ disk \in State /\ now \in Nat /\ payloads \in SUBSET Ref /\ Numbered(memory)
         /\ \A id \in UploadId : uploads[id] # NoUpload => uploads[id] \in Upload /\ uploads[id].name \in Name
  <1>1. putting \in Put \cup {NoPut} /\ uploads \in UploadsType
    BY DEF TypesInv, TypeOK, UploadsType
  <1>2. PutUnderWay => putting.name \in Name /\ putting.content \in Body
    BY <1>1 DEF PutUnderWay, Put
  <1>3. \A id \in UploadId : uploads[id] # NoUpload => uploads[id] \in Upload
    BY <1>1 DEF UploadsType
  <1>4. \A u \in Upload : u.name \in Name
    BY DEF Upload
  <1> QED
    BY <1>1, <1>2, <1>3, <1>4 DEF TypesInv, TypeOK

(* What a client relies on is blocked: nothing replaces or removes it. *)
LEMMA ReliedIsBlocked ==
  ASSUME TypesInv, up, NEW n \in Name, Guarded(n), Relied(n)
  PROVE  Blocked(memory, n, now)
  <1>1. Guards(memory, n, promise[n]) /\ promise[n] \in Promise /\ now \in Nat
    BY DEF Guarded, TypesInv, TypeOK
  <1>2. CASE promise[n].hold
    BY <1>1, <1>2 DEF Guards, Blocked
  <1>3. CASE promise[n].until > now
    <2>1. HasObject(memory, n) /\ memory.retention[n].until >= promise[n].until
      BY <1>1, <1>3 DEF Guards
    <2>2. memory.retention[n].until \in Nat /\ promise[n].until \in Nat
      BY <1>1, PayloadTypes DEF Promise, TypesInv, TypeOK
    <2>3. memory.retention[n].until > now
      BY <1>1, <1>3, <2>1, <2>2
    <2>4. memory.retention[n] # NoRetention
      BY <1>1, <2>3 DEF NoRetention
    <2> QED
      BY <2>1, <2>3, <2>4 DEF Blocked, Retained
  <1> QED
    BY <1>2, <1>3 DEF Relied, Protects

LEMMA UnblockedIsExcused ==
  ASSUME S3Inv, SafeInv, up, Standing \subseteq overtaken', NEW n \in Name, ~Blocked(memory, n, now), Relied(n)
  PROVE  Excused("protection", n)'
  BY GuardedNow, ReliedIsBlocked DEF S3Inv, SafeInv

LEMMA KeepsElsewhere ==
  ASSUME TypesInv, NEW next, NEW n, Others(memory, next, n),
         \A x \in Name \ {n} : SameProtection(memory, next, x),
         n \in Name /\ Relied(n) => Excused("protection", n)'
  PROVE  Keeps(next, {n})
  <1> SUFFICES ASSUME NEW x \in Name, x # n
               PROVE  Kept(next, {n}, x)
    BY DEF Keeps
  <1>1. memory.retention[x].until \in Nat
    BY PayloadTypes DEF TypesInv, TypeOK
  <1>2. next.retention[x] = memory.retention[x] /\ next.legalHold[x] = memory.legalHold[x]
    BY DEF SameProtection
  <1>3. Contents(next, x) = Contents(memory, x)
    BY OthersSame
  <1> QED
    BY <1>1, <1>2, <1>3 DEF Kept

(* A put under way, and a request about an object or about none. *)
LEMMA PutOvertaken ==
  ASSUME S3Inv, PutInv, up, putting' = putting, now' = now, NEW n, NEW files,
         Standing \subseteq overtaken', meanwhile' = meanwhile \cup Overtakes(n, files),
         memory.buckets \subseteq memory'.buckets, files \subseteq payloads',
         \A ref \in payloads : ref[1] # n => ref \in files,
         \A x \in Name \ {n} : promise'[x] = promise[x]
  PROVE  PutInv'
  <1> SUFFICES ASSUME PutUnderWay
               PROVE  /\ BucketOf(putting.name) \in memory'.buckets \/ "bucket" \in meanwhile'
                      /\ Relied(putting.name)' => "protection" \in meanwhile' \/ Excused("protection", putting.name)'
                      /\ putting.stage = "stored" =>
                           <<putting.name, putting.content>> \in payloads' \/ "payload" \in meanwhile'
    BY DEF PutInv, PutUnderWay
  <1>1. putting.name \in Name
    BY PutTypes DEF S3Inv
  <1>2. Relied(putting.name)' = Protects(promise'[putting.name])
    BY DEF Relied, Protects
  <1>3. ASSUME Relied(putting.name)'
        PROVE  "protection" \in meanwhile' \/ Excused("protection", putting.name)'
    <2>1. CASE putting.name = n
      BY <1>2, <1>3, <2>1 DEF Overtakes, Overtaking
    <2>2. CASE putting.name # n
      <3>1. Relied(putting.name)
        BY <1>1, <1>2, <1>3, <2>2 DEF Relied
      <3> QED
        BY <3>1, StandingProtection DEF PutInv
    <2> QED
      BY <2>1, <2>2
  <1>4. ASSUME putting.stage = "stored"
        PROVE  <<putting.name, putting.content>> \in payloads' \/ "payload" \in meanwhile'
    BY <1>4 DEF PutInv, Overtakes, Overtaking
  <1> QED
    BY <1>3, <1>4 DEF PutInv

(* A put under way, and a request that is not about its object. *)
LEMMA UntouchedPut ==
  ASSUME S3Inv, PutInv, putting' = putting, now' = now, meanwhile \subseteq meanwhile', overtaken' = overtaken,
         PutUnderWay /\ BucketOf(putting.name) \in memory.buckets =>
           BucketOf(putting.name) \in memory'.buckets \/ "bucket" \in meanwhile',
         payloads \subseteq payloads', \A n \in Name : promise'[n] = promise[n]
  PROVE  PutInv'
  <1> SUFFICES ASSUME PutUnderWay
               PROVE  /\ BucketOf(putting.name) \in memory'.buckets \/ "bucket" \in meanwhile'
                      /\ Relied(putting.name)' => "protection" \in meanwhile' \/ Excused("protection", putting.name)'
                      /\ putting.stage = "stored" =>
                           <<putting.name, putting.content>> \in payloads' \/ "payload" \in meanwhile'
    BY DEF PutInv, PutUnderWay
  <1>1. Relied(putting.name)' => Relied(putting.name)
    BY PutTypes DEF S3Inv, Relied, Protects
  <1>2. Excused("protection", putting.name) => Excused("protection", putting.name)'
    BY DEF Excused
  <1> QED
    BY <1>1, <1>2 DEF PutInv

LEMMA SavedPromises ==
  ASSUME NEW ok \in BOOLEAN, NEW next, NEW files, NEW names, Persist(ok, next, files, names)
  PROVE  \A x \in Name \ names : promise'[x] = promise[x]
  BY DEF Persist, Acknowledge, Refuse

LEMMA ChangeSteps ==
  ASSUME S3Inv, NEW n \in Name, NEW next, NEW files, up, ChangeObject(n, next, files)
  PROVE  /\ uploads' = uploads /\ putting' = putting /\ up' = up /\ now' = now
         /\ \E ok \in BOOLEAN : Persist(ok, next, files, {n})
         /\ meanwhile' = meanwhile \cup Overtakes(n, files) /\ overtaken' = Standing
         /\ meanwhile' \subseteq Overtaking /\ overtaken' \subseteq Marks
  BY DEF ChangeObject, Overtake, Overtakes, Standing, S3Inv, TypesInv, TypeOK, Marks

LEMMA AddsFollow ==
  ASSUME TypesInv, NEW next, NEW n, NEW content, NEW named, Adds(memory, next, n, content, named),
         Others(memory, next, n)
  PROVE  Follows(next, {n})
  <1>1. \A x \in Name \ {n} : Contents(next, x) = Contents(memory, x)
    BY OthersSame
  <1> QED
    BY <1>1 DEF Follows, Adds, AddsVersion

LEMMA AddsConsistent ==
  ASSUME NEW m, NEW r, NEW n, NEW content, NEW named,
         Adds(m, r, n, content, named), SameRest(m, r), VersionsConsistent(m), BucketOf(n) \in Bucket
  PROVE  VersionsConsistent(r)
  <1>1. ASSUME NEW v \in r.history
        PROVE  BucketOf(v.name) \in r.buckets /\ r.versioning[BucketOf(v.name)] # ""
    <2>1. CASE v \in m.history
      BY <2>1 DEF VersionsConsistent, SameRest
    <2>2. CASE v \notin m.history
      <3>1. v.name = n /\ VersioningEnabled(m, BucketOf(n))
        BY <1>1, <2>2 DEF Adds, AddsVersion
      <3> QED
        BY <3>1 DEF VersioningEnabled, VersionsConsistent, SameRest
    <2> QED
      BY <2>1, <2>2
  <1> QED
    BY <1>1 DEF VersionsConsistent, SameRest

LEMMA AddsPayloads ==
  ASSUME NEW m, NEW r, NEW n, NEW content, NEW named, NEW files,
         Adds(m, r, n, content, named), Others(m, r, n),
         named => <<n, content>> \in files,
         n \in Names(r) /\ r.objects[n].named => <<n, r.objects[n].content>> \in files,
         \A ref \in NamedPayloads(m) : ref[1] # n => ref \in files,
         \A v \in m.history : v.named => <<v.name, v.content>> \in files
  PROVE  NamedPayloads(r) \subseteq files
  <1> SUFFICES ASSUME NEW ref \in NamedPayloads(r)
               PROVE  ref \in files
    OBVIOUS
  <1>1. CASE \E x \in Names(r) : r.objects[x].named /\ ref = <<x, r.objects[x].content>>
    <2>1. PICK x \in Names(r) : r.objects[x].named /\ ref = <<x, r.objects[x].content>>
      BY <1>1
    <2>2. CASE x = n
      BY <2>1, <2>2
    <2>3. CASE x # n
      <3>1. x \in Names(m) /\ r.objects[x] = m.objects[x]
        BY <2>1, <2>3 DEF Others
      <3>2. ref \in NamedPayloads(m) /\ ref[1] = x
        BY <2>1, <3>1 DEF NamedPayloads
      <3> QED
        BY <2>3, <3>2
    <2> QED
      BY <2>2, <2>3
  <1>2. CASE \E v \in r.history : v.named /\ ref = <<v.name, v.content>>
    <2>1. PICK v \in r.history : v.named /\ ref = <<v.name, v.content>>
      BY <1>2
    <2>2. CASE v \in m.history
      BY <2>1, <2>2
    <2>3. CASE v \notin m.history
      BY <2>1, <2>3 DEF Adds, AddsVersion
    <2> QED
      BY <2>2, <2>3
  <1> QED
    BY <1>1, <1>2 DEF NamedPayloads

(* A put, a copy or a completed upload. *)
LEMMA PutsOrderly ==
  ASSUME S3Inv, SafeInv, up, Standing \subseteq overtaken',
         NEW n \in Name, NEW object \in Object, NEW next, NEW files,
         Puts(memory, next, n, object), payloads \subseteq files,
         object.named => <<n, object.content>> \in files \cup LostPayloads',
         BucketOf(n) \in memory.buckets \/ Excused("bucket", n)',
         Relied(n) => Excused("protection", n)'
  PROVE  Orderly(next, files, {n})
  <1>1. /\ SameRest(memory, next) /\ next.aspects = memory.aspects
        /\ n \in Names(next) /\ next.objects[n] = object /\ Others(memory, next, n)
        /\ \A x \in Name \ {n} : SameProtection(memory, next, x)
        /\ Adds(memory, next, n, object.content, object.named)
    BY DEF Puts
  <1>2. Keeps(next, {n})
    BY <1>1, KeepsElsewhere DEF S3Inv
  <1> DEFINE kept == files \cup LostPayloads'
  <1>3. NamedPayloads(memory) \subseteq kept
    BY StandingPayloads DEF SafeInv, PayloadsKept
  <1>4. \A v \in memory.history : v.named => <<v.name, v.content>> \in kept
    BY <1>3 DEF NamedPayloads
  <1>5. object.named => <<n, object.content>> \in kept
    OBVIOUS
  <1> HIDE DEF kept
  <1>6. NamedPayloads(next) \subseteq kept
    BY <1>1, <1>3, <1>4, <1>5, AddsPayloads
  <1>7. VersionsConsistent(next)
    <2>1. BucketOf(n) \in Bucket
      BY DEF Name, BucketOf
    <2> QED
      BY <1>1, <2>1, AddsConsistent DEF SafeInv, ConsistentInv, Consistent
  <1>8. ObjectsConsistent(next)
    BY <1>1 DEF SafeInv, ConsistentInv, Consistent, ObjectsConsistent, SameRest, Others, HasObject, SameProtection
  <1>9. FeaturesConsistent(next)
    BY <1>1 DEF SafeInv, ConsistentInv, Consistent, FeaturesConsistent, SameRest
  <1>10. \A x \in Names(next) : BucketOf(x) \in next.buckets \/ Excused("bucket", x)'
    <2> SUFFICES ASSUME NEW x \in Names(next), BucketOf(x) \notin memory.buckets, x # n
                 PROVE  Excused("bucket", x)'
      BY <1>1 DEF SameRest
    <2>1. x \in Names(memory)
      BY <1>1 DEF Others
    <2> QED
      BY <2>1, StandingBucket DEF SafeInv, ConsistentInv, Housed
  <1> QED
    BY <1>2, <1>6, <1>7, <1>8, <1>9, <1>10 DEF Orderly, Consistent, kept

LEMMA FinishPutStep ==
  ASSUME S3Inv, FinishPut
  PROVE  Requests
  <1>1. PutUnderWay /\ up /\ putting.stage = "stored"
    BY DEF FinishPut, PutUnderWay, NoPut
  <1>0. PICK n \in Name, content \in Body : n = putting.name /\ content = putting.content
    BY <1>1, PutTypes DEF S3Inv
  <1> DEFINE object == Stored(content)
             next == Replaced(memory, n, object)
             marks == [by : meanwhile, name : {n}, content : {content}]
  <1>2. object \in Object /\ object.named /\ object.content = content
    BY DEF Stored, Object
  <1>3. PICK ok \in BOOLEAN : Persist(ok, next, payloads, {n})
    BY <1>0 DEF FinishPut
  <1>4. /\ putting' = NoPut /\ uploads' = uploads /\ up' = up /\ now' = now
        /\ meanwhile' = {} /\ overtaken' = Standing \cup marks
    BY <1>0 DEF FinishPut
  <1>5. meanwhile' \subseteq Overtaking /\ overtaken' \subseteq Marks /\ Standing \subseteq overtaken'
    BY <1>1, <1>4, PutTypes DEF Standing, Marks, S3Inv, TypesInv, TypeOK
  <1>6. ASSUME NEW by \in meanwhile
        PROVE  Excused(by, n)' /\ (by = "payload" => <<n, content>> \in LostPayloads')
    <2> DEFINE o == [by |-> by, name |-> n, content |-> content]
    <2>1. o \in overtaken' /\ o.by = by /\ o.name = n /\ o.content = content
      BY <1>4
    <2> HIDE DEF o
    <2> QED
      BY <2>1 DEF Excused, LostPayloads
  <1> HIDE DEF object
  <1>7. Puts(memory, next, n, object)
    BY <1>2, PutTypes, ReplacedOf DEF S3Inv
  <1> HIDE DEF next, marks
  <1>8. next \in State /\ Follows(next, {n})
    BY <1>7, AddsFollow DEF Puts, S3Inv
  <1>9. ASSUME SafeInv
        PROVE  Orderly(next, payloads, {n}) /\ PutInv' /\ UploadsInv'
    <2>1. /\ BucketOf(n) \in memory.buckets \/ Excused("bucket", n)'
          /\ <<n, object.content>> \in payloads \cup LostPayloads'
          /\ Relied(n) => Excused("protection", n)'
      BY <1>0, <1>1, <1>2, <1>5, <1>6, <1>9, StandingProtection DEF SafeInv, PutInv
    <2>2. Orderly(next, payloads, {n})
      BY <1>1, <1>2, <1>5, <1>7, <1>9, <2>1, PutsOrderly
    <2>3. memory' = next /\ next.buckets = memory.buckets
      BY <1>3, <1>7 DEF Puts, SameRest, Persist
    <2> QED
      BY <1>4, <1>9, <2>2, <2>3 DEF PutInv, PutUnderWay, SafeInv, UploadsInv
  <1>10. uploads' \in UploadsType /\ putting' \in Put \cup {NoPut} /\ payloads \in SUBSET Ref /\ {n} \in SUBSET Name
    BY <1>2, <1>4, PutTypes DEF S3Inv
  <1> QED
    BY <1>1, <1>3, <1>4, <1>5, <1>8, <1>9, <1>10 DEF Requests

LEMMA CopyObjectStep ==
  ASSUME S3Inv, NEW n \in Name, NEW source \in Name, CopyObject(n, source)
  PROVE  Requests
  <1> DEFINE content == memory.objects[source].content
             object == Stored(content)
             next == ApplyDefaultRetention(CopyObjectProtection(
                       ClearObjectProtection(StoreObject(memory, n, object), n), n, source), n, now)
             files == payloads \cup {<<n, content>>}
  <1>1. /\ up /\ ~PutUnderWay /\ BucketOf(n) \in memory.buckets /\ ~Blocked(memory, n, now)
        /\ HasObject(memory, source)
    BY DEF CopyObject
  <1>2. content \in Body
    BY <1>1, ObjectContent, PutTypes DEF S3Inv
  <1> HIDE DEF content
  <1>3. object \in Object /\ object.content = content
    BY <1>2 DEF Stored, Object
  <1>4. ChangeObject(n, next, files)
    BY DEF CopyObject, content
  <1> HIDE DEF object
  <1>5. Puts(memory, next, n, object)
    BY <1>3, PutTypes, CopiedOf DEF S3Inv
  <1> HIDE DEF next
  <1>6. /\ uploads' = uploads /\ putting' = putting /\ up' = up /\ now' = now
        /\ meanwhile' \subseteq Overtaking /\ overtaken' \subseteq Marks /\ Standing \subseteq overtaken'
    BY <1>1, <1>4, ChangeSteps
  <1>7. PICK ok \in BOOLEAN : Persist(ok, next, files, {n})
    BY <1>1, <1>4, ChangeSteps
  <1>8. next \in State /\ Follows(next, {n})
    BY <1>5, AddsFollow DEF Puts, S3Inv
  <1>9. payloads \subseteq files /\ <<n, object.content>> \in files /\ files \in SUBSET Ref
    BY <1>2, <1>3, PutTypes DEF S3Inv, Ref
  <1> HIDE DEF files
  <1>10. ASSUME SafeInv
         PROVE  Orderly(next, files, {n}) /\ PutInv' /\ UploadsInv'
    <2>1. Relied(n) => Excused("protection", n)'
      BY <1>1, <1>6, <1>10, UnblockedIsExcused
    <2>2. Orderly(next, files, {n})
      BY <1>1, <1>3, <1>5, <1>6, <1>9, <1>10, <2>1, PutsOrderly
    <2>3. memory' = next /\ next.buckets = memory.buckets
      BY <1>5, <1>7 DEF Puts, SameRest, Persist
    <2> QED
      BY <1>1, <1>6, <1>10, <2>2, <2>3 DEF PutInv, PutUnderWay, SafeInv, UploadsInv
  <1>11. uploads' \in UploadsType /\ putting' \in Put \cup {NoPut} /\ {n} \in SUBSET Name
    BY <1>6, PutTypes DEF S3Inv
  <1> QED
    BY <1>1, <1>6, <1>7, <1>8, <1>9, <1>10, <1>11 DEF Requests

LEMMA CompleteStep ==
  ASSUME S3Inv, NEW id \in UploadId, CompleteMultipartUpload(id)
  PROVE  Requests
  <1>0. PICK n \in Name : n = uploads[id].name
    BY PutTypes DEF CompleteMultipartUpload, S3Inv
  <1> DEFINE body == Assembled(uploads[id].parts)
             object == [content |-> body, named |-> FALSE, held |-> body # <<>>]
             next == Replaced(memory, n, object)
  <1>1. /\ uploads[id] # NoUpload /\ body \in Body
        /\ up /\ BucketOf(n) \in memory.buckets /\ ~Blocked(memory, n, now)
        /\ putting' = putting /\ up' = up /\ now' = now
        /\ meanwhile' = meanwhile \cup Overtakes(n, payloads) /\ overtaken' = Standing
    BY <1>0 DEF CompleteMultipartUpload, Overtake
  <1>2. PICK ok \in BOOLEAN :
          /\ Persist(ok, next, payloads, {n})
          /\ uploads' = IF ok THEN [uploads EXCEPT ![id] = NoUpload] ELSE uploads
    BY <1>0 DEF CompleteMultipartUpload
  <1> HIDE DEF body
  <1>4. object \in Object /\ ~object.named
    BY <1>1 DEF Object
  <1> HIDE DEF object
  <1>5. Puts(memory, next, n, object)
    BY <1>4, PutTypes, ReplacedOf DEF S3Inv
  <1> HIDE DEF next
  <1>6. next \in State /\ Follows(next, {n})
    BY <1>5, AddsFollow DEF Puts, S3Inv
  <1>7. uploads' \in UploadsType /\ \A i \in UploadId : uploads'[i] # NoUpload => uploads'[i] = uploads[i]
    BY <1>2, PutTypes DEF S3Inv, UploadsType
  <1>8. ASSUME SafeInv
        PROVE  Orderly(next, payloads, {n}) /\ PutInv' /\ UploadsInv'
    <2>1. Relied(n) => Excused("protection", n)'
      BY <1>1, <1>8, UnblockedIsExcused
    <2>2. Orderly(next, payloads, {n})
      BY <1>1, <1>4, <1>5, <1>8, <2>1, PutsOrderly
    <2>3. memory' = next /\ next.buckets = memory.buckets /\ payloads \subseteq payloads'
      BY <1>2, <1>5 DEF Puts, SameRest, Persist, Save
    <2>4. PutInv'
      BY <1>1, <1>2, <1>8, <2>3, SavedPromises, PutOvertaken DEF SafeInv
    <2>5. UploadsInv'
      BY <1>7, <1>8, <2>3 DEF SafeInv, UploadsInv
    <2> QED
      BY <2>2, <2>4, <2>5
  <1>9. payloads \in SUBSET Ref /\ putting' \in Put \cup {NoPut} /\ {n} \in SUBSET Name
    BY <1>1, PutTypes DEF S3Inv
  <1>10. meanwhile' \subseteq Overtaking /\ overtaken' \subseteq Marks /\ Standing \subseteq overtaken'
    BY <1>1 DEF Overtakes, Standing, S3Inv, TypesInv, TypeOK, Marks
  <1> QED
    BY <1>1, <1>2, <1>6, <1>7, <1>8, <1>9, <1>10 DEF Requests

LEMMA DeleteObjectStep ==
  ASSUME S3Inv, NEW n \in Name, DeleteObject(n)
  PROVE  Requests
  <1> DEFINE next == DeleteObjectOf(
                       IF VersioningEnabled(memory, BucketOf(n)) THEN RecordDeleteMarker(memory, n) ELSE memory, n)
             files == payloads \ PayloadToDelete(memory, n)
  <1>1. up /\ BucketOf(n) \in memory.buckets /\ ~Blocked(memory, n, now)
    BY DEF DeleteObject
  <1>2. ChangeObject(n, next, files)
    BY DEF DeleteObject
  <1>3. Removes(memory, next, n)
    BY PutTypes, RemovedOf DEF S3Inv
  <1> HIDE DEF next
  <1>4. PICK ok \in BOOLEAN : Persist(ok, next, files, {n})
    BY <1>1, <1>2, ChangeSteps
  <1>5. /\ uploads' = uploads /\ putting' = putting /\ up' = up /\ now' = now
        /\ meanwhile' = meanwhile \cup Overtakes(n, files) /\ overtaken' = Standing
        /\ meanwhile' \subseteq Overtaking /\ overtaken' \subseteq Marks /\ Standing \subseteq overtaken'
    BY <1>1, <1>2, ChangeSteps
  <1>6. next \in State /\ Follows(next, {n})
    BY <1>3, AddsFollow DEF Removes, S3Inv
  <1>7. \A ref \in payloads : ref[1] # n => ref \in files
    BY DEF PayloadToDelete
  <1>8. /\ SameRest(memory, next) /\ n \notin Names(next) /\ Others(memory, next, n)
        /\ next.aspects = {a \in memory.aspects : a[1] # n}
        /\ \A x \in Name \ {n} : SameProtection(memory, next, x)
        /\ next.retention[n] = NoRetention /\ next.legalHold[n] = "none"
        /\ Adds(memory, next, n, <<>>, FALSE)
    BY <1>3 DEF Removes
  <1>9. ASSUME SafeInv
        PROVE  Orderly(next, files, {n}) /\ PutInv' /\ UploadsInv'
    <2>1. Keeps(next, {n})
      BY <1>1, <1>5, <1>8, <1>9, UnblockedIsExcused, KeepsElsewhere DEF S3Inv
    <2>2. \A ref \in NamedPayloads(memory) : ref \in payloads \cup LostPayloads'
      BY <1>5, <1>9, StandingPayloads DEF SafeInv, PayloadsKept
    <2> DEFINE kept == files \cup LostPayloads'
    <2>3. ASSUME NEW v \in memory.history, v.named
          PROVE  <<v.name, v.content>> \in kept
      <3>1. <<v.name, v.content>> \in payloads \cup LostPayloads'
        BY <2>2, <2>3 DEF NamedPayloads
      <3>2. CASE v.name = n
        <4>1. VersioningEnabled(memory, BucketOf(n))
          BY <1>9, <3>2 DEF SafeInv, ConsistentInv, Consistent, VersionsConsistent, VersioningEnabled
        <4>2. PayloadToDelete(memory, n) = {}
          BY <4>1 DEF PayloadToDelete
        <4> QED
          BY <3>1, <4>2
      <3>3. CASE v.name # n
        BY <1>7, <3>1, <3>3
      <3> QED
        BY <3>2, <3>3
    <2>4. \A ref \in NamedPayloads(memory) : ref[1] # n => ref \in kept
      BY <1>7, <2>2
    <2> HIDE DEF kept
    <2>5. NamedPayloads(next) \subseteq kept
      BY <1>8, <2>3, <2>4, AddsPayloads
    <2>6. VersionsConsistent(next)
      <3>1. BucketOf(n) \in Bucket
        BY DEF Name, BucketOf
      <3> QED
        BY <1>8, <1>9, <3>1, AddsConsistent DEF SafeInv, ConsistentInv, Consistent
    <2>7. ObjectsConsistent(next)
      BY <1>8, <1>9 DEF SafeInv, ConsistentInv, Consistent, ObjectsConsistent, SameRest, Others, HasObject,
         SameProtection
    <2>8. FeaturesConsistent(next)
      BY <1>8, <1>9 DEF SafeInv, ConsistentInv, Consistent, FeaturesConsistent, SameRest
    <2>9. \A x \in Names(next) : BucketOf(x) \in next.buckets \/ Excused("bucket", x)'
      <3> SUFFICES ASSUME NEW x \in Names(next), BucketOf(x) \notin memory.buckets
                   PROVE  Excused("bucket", x)'
        BY <1>8 DEF SameRest
      <3>1. x \in Names(memory)
        BY <1>8 DEF Others
      <3> QED
        BY <1>5, <1>9, <3>1, StandingBucket DEF SafeInv, ConsistentInv, Housed
    <2>10. memory' = next /\ next.buckets = memory.buckets /\ files \subseteq payloads'
      BY <1>4, <1>8 DEF SameRest, Persist, Save
    <2> HIDE DEF files
    <2>11. PutInv'
      BY <1>1, <1>4, <1>5, <1>7, <1>9, <2>10, SavedPromises, PutOvertaken DEF SafeInv
    <2>12. UploadsInv'
      BY <1>5, <1>9, <2>10 DEF SafeInv, UploadsInv
    <2> QED
      BY <2>1, <2>5, <2>6, <2>7, <2>8, <2>9, <2>11, <2>12 DEF Orderly, Consistent, kept
  <1>10. /\ payloads \in SUBSET Ref /\ uploads' \in UploadsType
         /\ putting' \in Put \cup {NoPut} /\ {n} \in SUBSET Name
    BY <1>1, <1>5, PutTypes DEF S3Inv
  <1>11. files \in SUBSET Ref
    BY <1>10
  <1> HIDE DEF files
  <1> QED
    BY <1>1, <1>4, <1>5, <1>6, <1>9, <1>10, <1>11 DEF Requests

(* The requests that change no object's content. *)
LEMMA QuietFollows ==
  ASSUME S3Inv, NEW next, next.objects = memory.objects, next.history = memory.history
  PROVE  /\ \A names : Follows(next, names)
         /\ NamedPayloads(next) = NamedPayloads(memory)
         /\ Names(next) = Names(memory)
         /\ \A n : Contents(next, n) = Contents(memory, n) /\ (HasObject(next, n) <=> HasObject(memory, n))
  <1>1. Names(next) = Names(memory)
    BY DEF Names
  <1>2. \A n : Contents(next, n) = Contents(memory, n) /\ (HasObject(next, n) <=> HasObject(memory, n))
    BY <1>1 DEF Contents, HasObject
  <1>3. NamedPayloads(next) = NamedPayloads(memory)
    BY <1>1 DEF NamedPayloads
  <1>4. Numbered(next)
    BY DEF S3Inv, TypesInv, Numbered
  <1> QED
    BY <1>1, <1>2, <1>3, <1>4 DEF Follows

LEMMA QuietRequest ==
  ASSUME S3Inv, up, up' = up, now' = now, putting' = putting, uploads' \in UploadsType,
         meanwhile' \subseteq Overtaking, overtaken' \subseteq Marks, Standing \subseteq overtaken',
         NEW ok \in BOOLEAN, NEW next \in State, NEW names \in SUBSET Name, Persist(ok, next, payloads, names),
         next.objects = memory.objects, next.history = memory.history,
         \A id \in UploadId : uploads'[id] # NoUpload => uploads'[id] = uploads[id]
                                                        /\ BucketOf(uploads[id].name) \notin memory.buckets \ next.buckets,
         SafeInv =>
           /\ Consistent(next) /\ Keeps(next, names) /\ PutInv'
           /\ \A n \in Names(memory) : BucketOf(n) \notin memory.buckets \ next.buckets
  PROVE  Requests
  <1>1. Follows(next, names) /\ NamedPayloads(next) = NamedPayloads(memory) /\ Names(next) = Names(memory)
    BY QuietFollows
  <1>2. ASSUME SafeInv
        PROVE  Orderly(next, payloads, names) /\ UploadsInv'
    <2>1. NamedPayloads(next) \subseteq payloads \cup LostPayloads'
      BY <1>1, <1>2, StandingPayloads DEF SafeInv, PayloadsKept
    <2>2. \A n \in Names(next) : BucketOf(n) \in next.buckets \/ Excused("bucket", n)'
      BY <1>1, <1>2, StandingBucket DEF SafeInv, ConsistentInv, Housed
    <2>3. memory' = next
      BY DEF Persist
    <2>4. UploadsInv'
      BY <1>2, <2>3 DEF SafeInv, UploadsInv
    <2> QED
      BY <1>2, <2>1, <2>2, <2>4 DEF Orderly
  <1>3. payloads \in SUBSET Ref /\ putting' \in Put \cup {NoPut}
    BY PutTypes DEF S3Inv
  <1> QED
    BY <1>1, <1>2, <1>3 DEF Requests

(* Those about buckets leave the protection of objects as it is. *)
LEMMA KeepsAll ==
  ASSUME S3Inv, NEW next, NEW names, next.objects = memory.objects, next.history = memory.history,
         \A n \in Name : Relied(n) => SameProtection(memory, next, n) \/ Excused("protection", n)'
  PROVE  Keeps(next, names)
  <1> SUFFICES ASSUME NEW n \in Name, SameProtection(memory, next, n)
               PROVE  Kept(next, names, n)
    BY DEF Keeps
  <1>1. memory.retention[n].until \in Nat
    BY PayloadTypes DEF S3Inv, TypesInv, TypeOK
  <1> QED
    BY <1>1, QuietFollows DEF SameProtection, Kept

LEMMA QuietBucketRequest ==
  ASSUME S3Inv, NEW next \in State, up, Change(next),
         next.objects = memory.objects, next.history = memory.history, next.aspects = memory.aspects,
         next.retention = memory.retention, next.legalHold = memory.legalHold,
         memory.buckets \subseteq next.buckets,
         SafeInv => VersionsConsistent(next) /\ FeaturesConsistent(next)
  PROVE  Requests
  <1>1. PICK ok \in BOOLEAN : Persist(ok, next, payloads, {})
    BY DEF Change
  <1>2. /\ uploads' = uploads /\ putting' = putting /\ up' = up /\ now' = now
        /\ meanwhile' = meanwhile /\ overtaken' = overtaken
    BY DEF Change, raceVars
  <1>3. meanwhile' \subseteq Overtaking /\ overtaken' \subseteq Marks /\ Standing \subseteq overtaken'
    BY <1>2 DEF Standing, Marks, S3Inv, TypesInv, TypeOK
  <1>4. Keeps(next, {})
    BY KeepsAll DEF SameProtection
  <1>5. ASSUME SafeInv
        PROVE  Consistent(next) /\ PutInv'
    <2>1. Names(next) = Names(memory)
      BY QuietFollows
    <2>2. ObjectsConsistent(next)
      BY <1>5, <2>1 DEF SafeInv, ConsistentInv, Consistent, ObjectsConsistent, HasObject
    <2>3. memory' = next /\ payloads \subseteq payloads'
      BY <1>1 DEF Persist, Save
    <2>4. \A n \in Name : promise'[n] = promise[n]
      BY <1>1, SavedPromises
    <2>5. PutInv'
      BY <1>2, <1>5, <2>3, <2>4, UntouchedPut DEF SafeInv
    <2> QED
      BY <1>5, <2>2, <2>5 DEF Consistent
  <1>6. uploads' \in UploadsType /\ {} \in SUBSET Name
    BY <1>2, PutTypes DEF S3Inv
  <1> HIDE DEF Requests
  <1> QED
    BY <1>1, <1>2, <1>3, <1>4, <1>5, <1>6, QuietRequest

LEMMA CreateBucketStep ==
  ASSUME S3Inv, NEW b \in Bucket, CreateBucket(b)
  PROVE  Requests
  <1> DEFINE next == [memory EXCEPT !.buckets = memory.buckets \cup {b}]
  <1>1. memory \in State /\ up /\ Change(next)
    BY PutTypes DEF S3Inv, CreateBucket
  <1>2. /\ next \in State /\ next.objects = memory.objects /\ next.history = memory.history
        /\ next.aspects = memory.aspects /\ next.retention = memory.retention /\ next.legalHold = memory.legalHold
        /\ memory.buckets \subseteq next.buckets
        /\ next.versioning = memory.versioning /\ next.locks = memory.locks /\ next.features = memory.features
    BY <1>1 DEF State
  <1> HIDE DEF next
  <1>3. ASSUME SafeInv
        PROVE  VersionsConsistent(next) /\ FeaturesConsistent(next)
    BY <1>2, <1>3 DEF SafeInv, ConsistentInv, Consistent, VersionsConsistent, FeaturesConsistent
  <1> QED
    BY <1>1, <1>2, <1>3, QuietBucketRequest

LEMMA PutBucketVersioningStep ==
  ASSUME S3Inv, NEW b \in Bucket, NEW status \in {"Enabled", "Suspended"}, PutBucketVersioning(b, status)
  PROVE  Requests
  <1> DEFINE versioning == [memory.versioning EXCEPT ![b] = status]
             next == [memory EXCEPT !.versioning = versioning]
  <1>1. memory \in State /\ up /\ Change(next) /\ b \in memory.buckets
    BY PutTypes DEF S3Inv, PutBucketVersioning
  <1>2. /\ versioning \in [Bucket -> {"", "Enabled", "Suspended"}] /\ versioning[b] # ""
        /\ \A x \in Bucket \ {b} : versioning[x] = memory.versioning[x]
    BY <1>1, StateFields
  <1> HIDE DEF versioning
  <1>3. /\ next \in State /\ next.objects = memory.objects /\ next.history = memory.history
        /\ next.aspects = memory.aspects /\ next.retention = memory.retention /\ next.legalHold = memory.legalHold
        /\ next.buckets = memory.buckets
        /\ next.versioning = versioning /\ next.locks = memory.locks /\ next.features = memory.features
    BY <1>1, <1>2 DEF State
  <1> HIDE DEF next
  <1>4. \A x \in Bucket : memory.versioning[x] # "" => versioning[x] # ""
    BY <1>2
  <1>5. ASSUME SafeInv
        PROVE  VersionsConsistent(next) /\ FeaturesConsistent(next)
    <2>1. \A v \in memory.history : BucketOf(v.name) \in Bucket
      BY <1>1, StateFields DEF Version, Name, BucketOf
    <2>2. \A f \in memory.features : f[1] \in Bucket
      BY <1>1, StateFields
    <2>3. \A x \in Bucket : versioning[x] # "" => x \in memory.buckets
      BY <1>1, <1>2, <1>5 DEF SafeInv, ConsistentInv, Consistent, VersionsConsistent
    <2> QED
      BY <1>3, <1>4, <1>5, <2>1, <2>2, <2>3
      DEF SafeInv, ConsistentInv, Consistent, VersionsConsistent, FeaturesConsistent
  <1> QED
    BY <1>1, <1>3, <1>5, QuietBucketRequest

LEMMA FeatureStep ==
  ASSUME S3Inv, NEW b \in Bucket, NEW f \in Features,
         (\E destination \in Bucket : PutBucketFeature(b, f, destination)) \/ DeleteBucketFeature(b, f)
  PROVE  Requests
  <1> DEFINE Gated(x) ==
        /\ x = <<b, f>> /\ b \in memory.buckets
        /\ f = "replication" => memory.versioning[b] # ""
  <1>1. PICK features \in SUBSET (Bucket \X Feature) :
          /\ Change([memory EXCEPT !.features = features]) /\ up
          /\ \A x \in features : x \in memory.features \/ Gated(x)
    <2>1. f \in Feature /\ memory.features \subseteq Bucket \X Feature
      BY S3Assumption, PutTypes, StateFields DEF S3Inv
    <2>2. ASSUME NEW destination \in Bucket, PutBucketFeature(b, f, destination)
          PROVE  /\ Change([memory EXCEPT !.features = memory.features \cup {<<b, f>>}]) /\ up
                 /\ b \in memory.buckets /\ (f = "replication" => memory.versioning[b] # "")
      BY <2>2 DEF PutBucketFeature, SetFeature, ReplicationAllowed
    <2>3. ASSUME DeleteBucketFeature(b, f)
          PROVE  Change([memory EXCEPT !.features = memory.features \ {<<b, f>>}]) /\ up
      BY <2>3 DEF DeleteBucketFeature, DeleteFeature
    <2>4. CASE \E destination \in Bucket : PutBucketFeature(b, f, destination)
      <3> DEFINE features == memory.features \cup {<<b, f>>}
      <3>1. Change([memory EXCEPT !.features = features]) /\ up
              /\ b \in memory.buckets /\ (f = "replication" => memory.versioning[b] # "")
        BY <2>2, <2>4
      <3>2. features \in SUBSET (Bucket \X Feature) /\ \A x \in features : x \in memory.features \/ x = <<b, f>>
        BY <2>1
      <3> HIDE DEF features
      <3>3. \A x \in features : x \in memory.features \/ Gated(x)
        BY <3>1, <3>2
      <3> QED
        BY <3>1, <3>2, <3>3
    <2>5. CASE DeleteBucketFeature(b, f)
      <3> DEFINE features == memory.features \ {<<b, f>>}
      <3>1. Change([memory EXCEPT !.features = features]) /\ up
        BY <2>3, <2>5
      <3>2. features \in SUBSET (Bucket \X Feature) /\ \A x \in features : x \in memory.features
        BY <2>1
      <3> HIDE DEF features
      <3>3. \A x \in features : x \in memory.features \/ Gated(x)
        BY <3>1, <3>2
      <3> QED
        BY <3>1, <3>2, <3>3
    <2> QED
      BY <2>4, <2>5
  <1> DEFINE next == [memory EXCEPT !.features = features]
  <1>2. memory \in State
    BY PutTypes DEF S3Inv
  <1>3. /\ next \in State /\ next.objects = memory.objects /\ next.history = memory.history
        /\ next.aspects = memory.aspects /\ next.retention = memory.retention /\ next.legalHold = memory.legalHold
        /\ next.buckets = memory.buckets
        /\ next.versioning = memory.versioning /\ next.locks = memory.locks /\ next.features = features
    BY <1>2 DEF State
  <1> HIDE DEF next
  <1>4. ASSUME SafeInv
        PROVE  VersionsConsistent(next) /\ FeaturesConsistent(next)
    <2>1. ASSUME NEW x \in features
          PROVE  x[1] \in memory.buckets /\ (x[2] = "replication" => memory.versioning[x[1]] # "")
      <3>1. CASE x \in memory.features
        BY <1>4, <3>1 DEF SafeInv, ConsistentInv, Consistent, FeaturesConsistent
      <3>2. CASE x \notin memory.features
        <4>1. x = <<b, f>> /\ b \in memory.buckets /\ (f = "replication" => memory.versioning[b] # "")
          BY <1>1, <2>1, <3>2
        <4>2. x[1] = b /\ x[2] = f
          BY <4>1
        <4> QED
          BY <4>1, <4>2
      <3> QED
        BY <3>1, <3>2
    <2> QED
      BY <1>3, <1>4, <2>1 DEF SafeInv, ConsistentInv, Consistent, VersionsConsistent, FeaturesConsistent
  <1> QED
    BY <1>1, <1>3, <1>4, QuietBucketRequest DEF next

LEMMA LockStep ==
  ASSUME S3Inv, NEW b \in Bucket, NEW lock \in Locks, PutObjectLockConfiguration(b, lock)
  PROVE  Requests
  <1> DEFINE locks == [memory.locks EXCEPT ![b] = lock]
             next == [memory EXCEPT !.locks = locks]
  <1>1. memory \in State /\ up /\ Change(next) /\ b \in memory.buckets /\ memory.versioning[b] = "Enabled"
    BY PutTypes DEF S3Inv, PutObjectLockConfiguration
  <1>2. locks \in [Bucket -> Lock] /\ \A x \in Bucket \ {b} : locks[x] = memory.locks[x]
    BY <1>1, StateFields, S3Assumption
  <1> HIDE DEF locks
  <1>3. /\ next \in State /\ next.objects = memory.objects /\ next.history = memory.history
        /\ next.aspects = memory.aspects /\ next.retention = memory.retention /\ next.legalHold = memory.legalHold
        /\ next.buckets = memory.buckets
        /\ next.versioning = memory.versioning /\ next.locks = locks /\ next.features = memory.features
    BY <1>1, <1>2 DEF State
  <1> HIDE DEF next
  <1>4. ASSUME SafeInv
        PROVE  VersionsConsistent(next) /\ FeaturesConsistent(next)
    <2>1. \A x \in Bucket : locks[x] # NoLock => memory.versioning[x] # ""
      BY <1>1, <1>2, <1>4 DEF SafeInv, ConsistentInv, Consistent, VersionsConsistent
    <2> QED
      BY <1>3, <1>4, <2>1 DEF SafeInv, ConsistentInv, Consistent, VersionsConsistent, FeaturesConsistent
  <1> QED
    BY <1>1, <1>3, <1>4, QuietBucketRequest

LEMMA DeleteBucketStep ==
  ASSUME S3Inv, NEW b \in Bucket, DeleteBucket(b)
  PROVE  Requests
  <1> DEFINE next == WithoutBucket(memory, b)
             names == {n \in Name : BucketOf(n) = b}
  <1>1. /\ up /\ BucketIsEmpty(memory, b) /\ up' = up /\ now' = now /\ putting' = putting
        /\ uploads' = [id \in UploadId |->
             IF uploads[id] # NoUpload /\ BucketOf(uploads[id].name) = b THEN NoUpload ELSE uploads[id]]
        /\ overtaken' = overtaken /\ meanwhile' = IF PutInto(b) THEN meanwhile \cup {"bucket"} ELSE meanwhile
    BY DEF DeleteBucket
  <1>2. PICK ok \in BOOLEAN : Persist(ok, next, payloads, {})
    BY DEF DeleteBucket
  <1>3. /\ next \in State /\ next.buckets = memory.buckets \ {b}
        /\ next.objects = memory.objects /\ next.history = memory.history
        /\ next.versioning[b] = "" /\ \A x \in Bucket \ {b} : next.versioning[x] = memory.versioning[x]
        /\ next.locks[b] = NoLock /\ \A x \in Bucket \ {b} : next.locks[x] = memory.locks[x]
        /\ next.features = {f \in memory.features : f[1] # b}
        /\ next.aspects = {a \in memory.aspects : a[1] \notin names}
        /\ \A n \in Name \ names : SameProtection(memory, next, n)
        /\ \A n \in Name \cap names : next.retention[n] = NoRetention /\ next.legalHold[n] = "none"
    <2>1. memory \in State
      BY PutTypes DEF S3Inv
    <2>2. Abandons(memory, next, b)
      BY <2>1, WithoutBucketOf
    <2> HIDE DEF next
    <2> QED
      BY <2>2 DEF Abandons
  <1> HIDE DEF next
  <1>4. uploads' \in UploadsType
    BY <1>1, PutTypes DEF S3Inv, UploadsType
  <1>5. ASSUME NEW id \in UploadId, uploads'[id] # NoUpload
        PROVE  uploads'[id] = uploads[id] /\ BucketOf(uploads[id].name) \notin memory.buckets \ next.buckets
    BY <1>1, <1>3, <1>5
  <1>6. \A n \in names : ~HasObject(memory, n)
    BY <1>1 DEF BucketIsEmpty, HasObject
  <1>7. meanwhile' \subseteq Overtaking /\ overtaken' \subseteq Marks /\ Standing \subseteq overtaken'
    BY <1>1 DEF Standing, Marks, Overtaking, S3Inv, TypesInv, TypeOK
  <1>8. ASSUME SafeInv
        PROVE  /\ Consistent(next) /\ Keeps(next, {}) /\ PutInv'
               /\ \A n \in Names(memory) : BucketOf(n) \notin memory.buckets \ next.buckets
    <2>1. Keeps(next, {})
      <3>1. ASSUME NEW n \in Name, Relied(n), ~Excused("protection", n)'
            PROVE  SameProtection(memory, next, n)
        <4>1. HasObject(memory, n)
          BY <1>1, <1>7, <1>8, <3>1, GuardedNow, ReliedIsBlocked DEF SafeInv, S3Inv, Blocked
        <4> QED
          BY <1>3, <1>6, <4>1
      <3> QED
        BY <1>3, <3>1, KeepsAll
    <2>2. PutInv'
      <3>1. memory' = next /\ payloads \subseteq payloads'
        BY <1>2 DEF Persist, Save
      <3>2. \A n \in Name : promise'[n] = promise[n]
        BY <1>2, SavedPromises
      <3>3. PutUnderWay => BucketOf(putting.name) \in next.buckets \/ "bucket" \in meanwhile'
        BY <1>1, <1>3, <1>8 DEF SafeInv, PutInv, PutInto
      <3> QED
        BY <1>1, <1>8, <3>1, <3>2, <3>3, UntouchedPut DEF SafeInv
    <2>3. Names(next) = Names(memory)
      BY <1>3, QuietFollows
    <2>4. VersionsConsistent(next)
      <3>1. ASSUME NEW v \in next.history
            PROVE  BucketOf(v.name) \in next.buckets /\ next.versioning[BucketOf(v.name)] # ""
        <4>0. v \in memory.history /\ v \in Version
          BY <1>3, PutTypes, StateFields DEF S3Inv
        <4>1. BucketOf(v.name) \in Bucket /\ BucketOf(v.name) # b
          BY <1>1, <4>0 DEF Version, Name, BucketOf, BucketIsEmpty
        <4> QED
          BY <1>3, <1>8, <4>1 DEF SafeInv, ConsistentInv, Consistent, VersionsConsistent
      <3>2. \A x \in Bucket : next.versioning[x] # "" => x \in next.buckets
        BY <1>3, <1>8 DEF SafeInv, ConsistentInv, Consistent, VersionsConsistent
      <3>3. \A x \in Bucket : next.locks[x] # NoLock => next.versioning[x] # ""
        BY <1>3, <1>8 DEF SafeInv, ConsistentInv, Consistent, VersionsConsistent
      <3> QED
        BY <3>1, <3>2, <3>3 DEF VersionsConsistent
    <2>5. ObjectsConsistent(next)
      BY <1>1, <1>3, <1>8, <2>3
      DEF SafeInv, ConsistentInv, Consistent, ObjectsConsistent, BucketIsEmpty, HasObject, SameProtection
    <2>6. FeaturesConsistent(next)
      <3>1. \A f \in memory.features : f[1] \in Bucket
        BY PutTypes, StateFields DEF S3Inv
      <3> QED
        BY <1>3, <1>8, <3>1 DEF SafeInv, ConsistentInv, Consistent, FeaturesConsistent
    <2>7. \A n \in Names(memory) : BucketOf(n) # b
      BY <1>1 DEF BucketIsEmpty
    <2> QED
      BY <1>3, <2>1, <2>2, <2>4, <2>5, <2>6, <2>7 DEF Consistent
  <1>9. {} \in SUBSET Name
    OBVIOUS
  <1> QED
    BY <1>1, <1>2, <1>3, <1>4, <1>5, <1>7, <1>8, <1>9, QuietRequest

(* Requests about what an object is kept with: tags, ACL, retention, hold. *)
LEMMA GovernanceRequest ==
  ASSUME S3Inv, NEW n \in Name, NEW next \in State, up, HasObject(memory, n), ChangeObject(n, next, payloads),
         next.objects = memory.objects, next.history = memory.history, SameRest(memory, next),
         \A a \in next.aspects : a \in memory.aspects \/ a[1] = n,
         \A x \in Name \ {n} : SameProtection(memory, next, x),
         next.retention[n].until >= memory.retention[n].until
  PROVE  Requests
  <1>1. /\ uploads' = uploads /\ putting' = putting /\ up' = up /\ now' = now
        /\ meanwhile' = meanwhile \cup Overtakes(n, payloads) /\ overtaken' = Standing
        /\ meanwhile' \subseteq Overtaking /\ overtaken' \subseteq Marks /\ Standing \subseteq overtaken'
    BY ChangeSteps
  <1>2. PICK ok \in BOOLEAN : Persist(ok, next, payloads, {n})
    BY ChangeSteps
  <1>3. ASSUME SafeInv
        PROVE  Consistent(next) /\ Keeps(next, {n}) /\ PutInv'
    <2>1. Keeps(next, {n})
      <3> SUFFICES ASSUME NEW x \in Name
                   PROVE  Kept(next, {n}, x)
        BY DEF Keeps
      <3>1. memory.retention[x].until \in Nat
        BY PayloadTypes DEF S3Inv, TypesInv, TypeOK
      <3>2. Contents(next, x) = Contents(memory, x)
        BY QuietFollows
      <3> QED
        BY <3>1, <3>2 DEF SameProtection, Kept
    <2>2. Names(next) = Names(memory)
      BY QuietFollows
    <2>3. VersionsConsistent(next) /\ FeaturesConsistent(next)
      BY <1>3 DEF SafeInv, ConsistentInv, Consistent, VersionsConsistent, FeaturesConsistent, SameRest
    <2>4. ObjectsConsistent(next)
      BY <1>3, <2>2 DEF SafeInv, ConsistentInv, Consistent, ObjectsConsistent, HasObject, SameProtection, SameRest
    <2>5. memory' = next /\ next.buckets = memory.buckets /\ payloads \subseteq payloads'
      BY <1>2 DEF Persist, Save, SameRest
    <2>6. PutInv'
      BY <1>1, <1>2, <1>3, <2>5, SavedPromises, PutOvertaken DEF SafeInv
    <2> QED
      BY <2>1, <2>3, <2>4, <2>6 DEF Consistent
  <1>4. uploads' \in UploadsType /\ {n} \in SUBSET Name
    BY <1>1, PutTypes DEF S3Inv
  <1>5. next.buckets = memory.buckets
    BY DEF SameRest
  <1> QED
    BY <1>1, <1>2, <1>3, <1>4, <1>5, QuietRequest

LEMMA AspectsOf ==
  ASSUME NEW m \in State, NEW aspects \in SUBSET (Name \X Aspect)
  PROVE  LET r == [m EXCEPT !.aspects = aspects]
         IN  /\ r \in State /\ SameRest(m, r) /\ r.objects = m.objects /\ r.history = m.history
             /\ r.aspects = aspects /\ r.retention = m.retention /\ r.legalHold = m.legalHold
  BY DEF State, SameRest

LEMMA AspectStep ==
  ASSUME S3Inv, NEW n \in Name,
         DeleteObjectTagging(n) \/ \E aspect \in Aspect : PutObjectAspect(n, aspect)
  PROVE  Requests
  <1>1. memory \in State /\ memory.aspects \subseteq Name \X Aspect
    BY PutTypes, StateFields DEF S3Inv
  <1>2. up /\ HasObject(memory, n)
    BY DEF DeleteObjectTagging, PutObjectAspect
  <1>3. PICK aspects \in SUBSET (Name \X Aspect) :
          /\ ChangeObject(n, [memory EXCEPT !.aspects = aspects], payloads)
          /\ \A a \in aspects : a \in memory.aspects \/ a[1] = n
    <2>1. CASE DeleteObjectTagging(n)
      <3> DEFINE aspects == memory.aspects \ {<<n, "tagging">>}
      <3>1. ChangeObject(n, [memory EXCEPT !.aspects = aspects], payloads)
        BY <2>1 DEF DeleteObjectTagging
      <3>2. aspects \in SUBSET (Name \X Aspect) /\ \A a \in aspects : a \in memory.aspects
        BY <1>1
      <3> HIDE DEF aspects
      <3> QED
        BY <3>1, <3>2
    <2>2. ASSUME NEW aspect \in Aspect, PutObjectAspect(n, aspect)
          PROVE  \E aspects \in SUBSET (Name \X Aspect) :
                   /\ ChangeObject(n, [memory EXCEPT !.aspects = aspects], payloads)
                   /\ \A a \in aspects : a \in memory.aspects \/ a[1] = n
      <3> DEFINE aspects == memory.aspects \cup {<<n, aspect>>}
      <3>1. ChangeObject(n, [memory EXCEPT !.aspects = aspects], payloads)
        BY <2>2 DEF PutObjectAspect, SetAspect
      <3>2. aspects \in SUBSET (Name \X Aspect) /\ \A a \in aspects : a \in memory.aspects \/ a[1] = n
        BY <1>1
      <3> HIDE DEF aspects
      <3> QED
        BY <3>1, <3>2
    <2> QED
      BY <2>1, <2>2
  <1> DEFINE next == [memory EXCEPT !.aspects = aspects]
  <1>4. /\ next \in State /\ SameRest(memory, next) /\ next.objects = memory.objects
        /\ next.history = memory.history /\ next.aspects = aspects
        /\ next.retention = memory.retention /\ next.legalHold = memory.legalHold
    BY <1>1, AspectsOf
  <1>5. ChangeObject(n, next, payloads)
    BY <1>3
  <1> HIDE DEF next
  <1>6. \A x : SameProtection(memory, next, x)
    BY <1>4 DEF SameProtection
  <1>7. next.retention[n].until >= memory.retention[n].until
    BY <1>4, PayloadTypes, PutTypes DEF S3Inv
  <1> QED
    BY <1>2, <1>3, <1>4, <1>5, <1>6, <1>7, GovernanceRequest

LEMMA RetentionStep ==
  ASSUME S3Inv, NEW n \in Name, NEW due \in Retentions, PutObjectRetention(n, due)
  PROVE  Requests
  <1> DEFINE retention == [memory.retention EXCEPT ![n] = due]
             next == [memory EXCEPT !.retention = retention]
  <1>1. memory \in State /\ memory.retention \in [Name -> Retention]
    BY PutTypes, StateFields DEF S3Inv
  <1>2. /\ up /\ HasObject(memory, n) /\ ChangeObject(n, next, payloads)
        /\ memory.retention[n] # NoRetention => due.until >= memory.retention[n].until
    BY DEF PutObjectRetention, Lockable
  <1>3. due \in [mode : Mode, until : Nat]
    BY S3Assumption
  <1>4. due \in Retention /\ due.until \in Nat
    BY <1>3 DEF Retention
  <1>5. /\ retention \in [Name -> Retention] /\ retention[n] = due
        /\ \A x \in Name \ {n} : retention[x] = memory.retention[x]
    BY <1>1, <1>4
  <1>6. due.until >= memory.retention[n].until
    <2>1. memory.retention[n] = NoRetention => memory.retention[n].until = 0
      BY DEF NoRetention
    <2> QED
      BY <1>2, <1>4, <2>1
  <1> HIDE DEF retention
  <1>7. /\ next \in State /\ SameRest(memory, next) /\ next.objects = memory.objects
        /\ next.history = memory.history /\ next.aspects = memory.aspects
        /\ next.retention = retention /\ next.legalHold = memory.legalHold
    BY <1>1, <1>5 DEF State, SameRest
  <1> HIDE DEF next
  <1>8. \A x \in Name \ {n} : SameProtection(memory, next, x)
    BY <1>5, <1>7 DEF SameProtection
  <1> QED
    BY <1>2, <1>5, <1>6, <1>7, <1>8, GovernanceRequest

LEMMA LegalHoldStep ==
  ASSUME S3Inv, NEW n \in Name, NEW status \in {"ON", "OFF"}, PutObjectLegalHold(n, status)
  PROVE  Requests
  <1> DEFINE legalHold == [memory.legalHold EXCEPT ![n] = status]
             next == [memory EXCEPT !.legalHold = legalHold]
  <1>1. memory \in State /\ memory.legalHold \in [Name -> {"none", "ON", "OFF"}]
    BY PutTypes, StateFields DEF S3Inv
  <1>2. up /\ HasObject(memory, n) /\ ChangeObject(n, next, payloads)
    BY DEF PutObjectLegalHold, Lockable
  <1>3. /\ legalHold \in [Name -> {"none", "ON", "OFF"}]
        /\ \A x \in Name \ {n} : legalHold[x] = memory.legalHold[x]
    BY <1>1
  <1> HIDE DEF legalHold
  <1>4. /\ next \in State /\ SameRest(memory, next) /\ next.objects = memory.objects
        /\ next.history = memory.history /\ next.aspects = memory.aspects
        /\ next.retention = memory.retention /\ next.legalHold = legalHold
    BY <1>1, <1>3 DEF State, SameRest
  <1> HIDE DEF next
  <1>5. \A x \in Name \ {n} : SameProtection(memory, next, x)
    BY <1>3, <1>4 DEF SameProtection
  <1>6. next.retention[n].until >= memory.retention[n].until
    BY <1>4, PayloadTypes, PutTypes DEF S3Inv
  <1> QED
    BY <1>2, <1>4, <1>5, <1>6, GovernanceRequest

-----------------------------------------------------------------------------
(* The steps that save nothing. *)
Unsaved ==
  /\ up /\ UNCHANGED <<memory, disk, up, now, failures, toldVars, overtaken>>
  /\ meanwhile' \subseteq Overtaking
  /\ payloads \subseteq payloads' /\ payloads' \subseteq Ref
  /\ putting' \in Put \cup {NoPut} /\ uploads' \in UploadsType
  /\ SafeInv => PutInv' /\ UploadsInv'

LEMMA UnsavedKeeps ==
  ASSUME S3Inv, Unsaved
  PROVE  S3Inv' /\ (SafeInv => SafeInv')
  <1>1. /\ memory' = memory /\ disk' = disk /\ up' = up /\ now' = now /\ failures' = failures
        /\ may' = may /\ promise' = promise /\ known' = known /\ torn' = torn
        /\ overtaken' = overtaken
    BY DEF Unsaved, toldVars
  <1>2. TypesInv'
    BY <1>1 DEF Unsaved, S3Inv, TypesInv, TypeOK, UploadsType, Numbered
  <1>3. DownInv' /\ ReadsInv' /\ VersionsInv'
    BY <1>1 DEF Unsaved, S3Inv, DownInv, ReadsInv, VersionsInv
  <1>4. ASSUME SafeInv
        PROVE  SafeInv'
    <2>1. ConsistentInv' /\ PutInv' /\ UploadsInv'
      BY <1>1, <1>4 DEF SafeInv, Unsaved, ConsistentInv, Housed, Excused
    <2>2. PayloadsKept'
      BY <1>1, <1>4 DEF SafeInv, Unsaved, PayloadsKept, LostPayloads
    <2>3. GuardInv'
      BY <1>1, <1>4 DEF SafeInv, GuardInv, Guarded, Guards, Excused
    <2> QED
      BY <2>1, <2>2, <2>3 DEF SafeInv
  <1> QED
    BY <1>2, <1>3, <1>4 DEF S3Inv

LEMMA PutStepsUnsaved ==
  ASSUME S3Inv,
         \/ \E n \in Name, content \in Bodies : BeginPut(n, content)
         \/ StorePayload
         \/ BodyFails
  PROVE  Unsaved
  <1>1. /\ up /\ UNCHANGED <<memory, uploads, disk, up, now, failures, toldVars, overtaken>>
        /\ payloads \subseteq payloads' /\ meanwhile' \in {meanwhile, {}}
    BY DEF BeginPut, StorePayload, BodyFails, raceVars
  <1>2. uploads' \in UploadsType /\ payloads \subseteq Ref
    BY <1>1, PutTypes DEF S3Inv
  <1>3. SafeInv => UploadsInv'
    BY <1>1 DEF SafeInv, UploadsInv
  <1>4. ASSUME NEW n \in Name, NEW content \in Bodies, BeginPut(n, content)
        PROVE  putting' \in Put \cup {NoPut} /\ payloads' = payloads /\ (SafeInv => PutInv')
    <2>1. /\ putting' = [stage |-> "receiving", name |-> n, content |-> content] /\ payloads' = payloads
          /\ BucketOf(n) \in memory.buckets /\ ~Blocked(memory, n, now)
      BY <1>4 DEF BeginPut
    <2>2. content \in Body
      BY S3Assumption
    <2>3. /\ putting' \in Put
          /\ putting'.name = n /\ putting'.stage # "stored"
      BY <2>1, <2>2 DEF Put
    <2>4. SafeInv /\ Relied(n) => Excused("protection", n)
      BY <1>1, <2>1, ReliedIsBlocked DEF SafeInv, GuardInv, S3Inv
    <2>5. promise' = promise /\ memory' = memory /\ now' = now /\ overtaken' = overtaken
      BY <1>1 DEF toldVars
    <2>6. (Relied(n)' => Relied(n)) /\ (Excused("protection", n) => Excused("protection", n)')
      BY <2>5 DEF Relied, Protects, Excused
    <2>7. Relied(putting.name)' = Relied(n)' /\ Excused("protection", putting.name)' = Excused("protection", n)'
      BY <2>3 DEF Relied, Excused
    <2> QED
      BY <2>1, <2>3, <2>4, <2>5, <2>6, <2>7 DEF PutInv
  <1>5. ASSUME StorePayload
        PROVE  putting' \in Put \cup {NoPut} /\ payloads' \subseteq Ref /\ (SafeInv => PutInv')
    <2>1. /\ putting.stage = "receiving" /\ putting' = [putting EXCEPT !.stage = "stored"]
          /\ payloads' = payloads \cup {<<putting.name, putting.content>>}
      BY <1>5 DEF StorePayload
    <2>2. putting \in Put /\ PutUnderWay
      BY <2>1, PutTypes DEF S3Inv, NoPut, PutUnderWay
    <2>3. /\ putting' \in Put /\ putting'.name = putting.name /\ putting'.content = putting.content
          /\ putting.name \in Name /\ putting.content \in Body
      BY <2>1, <2>2 DEF Put
    <2>4. payloads' \subseteq Ref
      BY <1>2, <2>1, <2>3 DEF Ref
    <2>5. /\ promise' = promise /\ memory' = memory /\ now' = now /\ overtaken' = overtaken
          /\ meanwhile' = meanwhile
      BY <1>1, <1>5 DEF toldVars, StorePayload, raceVars
    <2>6. /\ Relied(putting.name)' => Relied(putting.name)
          /\ Excused("protection", putting.name) => Excused("protection", putting.name)'
      BY <2>3, <2>5 DEF Relied, Protects, Excused
    <2> QED
      BY <2>1, <2>2, <2>3, <2>4, <2>5, <2>6 DEF SafeInv, PutInv
  <1>6. ASSUME BodyFails
        PROVE  putting' \in Put \cup {NoPut} /\ payloads' = payloads /\ PutInv'
    BY <1>6 DEF BodyFails, PutInv, PutUnderWay
  <1>7. meanwhile' \subseteq Overtaking
    BY <1>1 DEF S3Inv, TypesInv
  <1> QED
    BY <1>1, <1>2, <1>3, <1>4, <1>5, <1>6, <1>7 DEF Unsaved

LEMMA UploadStepsUnsaved ==
  ASSUME S3Inv, NEW id \in UploadId,
         \/ \E n \in Name : CreateMultipartUpload(id, n)
         \/ \E number \in PartNumber, body \in Bodies : UploadPart(id, number, body)
         \/ AbortMultipartUpload(id)
  PROVE  Unsaved
  <1>1. up /\ UNCHANGED <<memory, disk, payloads, putting, up, now, failures, toldVars, meanwhile, overtaken>>
    BY DEF CreateMultipartUpload, UploadPart, AbortMultipartUpload, raceVars
  <1>2. /\ payloads \subseteq Ref /\ putting \in Put \cup {NoPut} /\ uploads \in UploadsType
        /\ uploads[id] # NoUpload => uploads[id] \in Upload
        /\ meanwhile \subseteq Overtaking
    BY PutTypes DEF S3Inv, TypesInv
  <1>3. SafeInv => PutInv'
    BY <1>1, UntouchedPut DEF SafeInv, toldVars
  <1>4. PICK u \in Upload \cup {NoUpload} :
          /\ uploads' = [uploads EXCEPT ![id] = u]
          /\ u # NoUpload => BucketOf(u.name) \in memory.buckets
                             \/ (uploads[id] # NoUpload /\ u.name = uploads[id].name)
    <2>1. ASSUME NEW n \in Name, CreateMultipartUpload(id, n)
          PROVE  \E u \in Upload : uploads' = [uploads EXCEPT ![id] = u] /\ BucketOf(u.name) \in memory.buckets
      <3> DEFINE none == [p \in {} |-> p]
                 u == [name |-> n, parts |-> none]
      <3>1. none \in [{} -> Body] /\ {} \in SUBSET PartNumber
        OBVIOUS
      <3>2. uploads' = [uploads EXCEPT ![id] = u] /\ BucketOf(n) \in memory.buckets
        BY <2>1 DEF CreateMultipartUpload
      <3> HIDE DEF none
      <3>3. u \in Upload /\ u.name = n
        BY <3>1 DEF Upload
      <3> QED
        BY <3>2, <3>3
    <2>2. ASSUME NEW number \in PartNumber, NEW body \in Bodies, UploadPart(id, number, body)
          PROVE  \E u \in Upload : /\ uploads' = [uploads EXCEPT ![id] = u]
                                   /\ uploads[id] # NoUpload /\ u.name = uploads[id].name
      <3> DEFINE parts == uploads[id].parts
                 more == [p \in DOMAIN parts \cup {number} |-> IF p = number THEN body ELSE parts[p]]
                 u == [uploads[id] EXCEPT !.parts = more]
      <3>1. uploads[id] # NoUpload /\ uploads' = [uploads EXCEPT ![id].parts = more]
        BY <2>2 DEF UploadPart
      <3>2. uploads[id] \in Upload
        BY <1>2, <3>1
      <3>3. body \in Body
        BY S3Assumption
      <3>4. PICK numbers \in SUBSET PartNumber : parts \in [numbers -> Body]
        BY <3>2 DEF Upload
      <3>5. more \in [numbers \cup {number} -> Body] /\ numbers \cup {number} \in SUBSET PartNumber
        BY <3>3, <3>4
      <3> HIDE DEF more
      <3>6. u \in Upload /\ u.name = uploads[id].name
        BY <3>2, <3>5 DEF Upload
      <3>7. uploads' = [uploads EXCEPT ![id] = u]
        BY <3>1
      <3> HIDE DEF u
      <3> QED
        BY <3>1, <3>6, <3>7
    <2>3. CASE AbortMultipartUpload(id)
      BY <2>3 DEF AbortMultipartUpload
    <2> QED
      BY <2>1, <2>2, <2>3
  <1>5. uploads' \in UploadsType
    BY <1>2, <1>4 DEF UploadsType
  <1>6. ASSUME SafeInv
        PROVE  UploadsInv'
    <2> SUFFICES ASSUME NEW i \in UploadId, uploads'[i] # NoUpload
                 PROVE  BucketOf(uploads'[i].name) \in memory.buckets
      BY <1>1 DEF UploadsInv
    <2>1. uploads'[i] = IF i = id THEN u ELSE uploads[i]
      BY <1>2, <1>4 DEF UploadsType
    <2> QED
      BY <1>4, <1>6, <2>1 DEF SafeInv, UploadsInv
  <1> QED
    BY <1>1, <1>2, <1>3, <1>5, <1>6 DEF Unsaved

LEMMA CrashKeeps ==
  ASSUME S3Inv, Crash
  PROVE  S3Inv' /\ (SafeInv => SafeInv')
  <1>1. /\ memory' = EmptyState /\ disk' = disk /\ ~up' /\ now' = now /\ failures' = failures /\ payloads' = payloads
        /\ may' = may /\ promise' = promise /\ known' = known /\ torn' = torn
        /\ overtaken' = overtaken
        /\ putting' = NoPut /\ uploads' = [id \in UploadId |-> NoUpload] /\ up' = FALSE /\ meanwhile' = {}
    BY DEF Crash, toldVars
  <1>2. TypesInv'
    BY <1>1, EmptyIsState DEF S3Inv, TypesInv, TypeOK, Numbered
  <1>3. DownInv' /\ ReadsInv' /\ VersionsInv'
    BY <1>1 DEF S3Inv, DownInv, ReadsInv, VersionsInv
  <1>4. ASSUME SafeInv
        PROVE  SafeInv'
    <2>1. Consistent(memory') /\ Consistent(disk') /\ HaveBuckets(memory')
      BY <1>1, <1>4, EmptyIsState DEF SafeInv, ConsistentInv
    <2>2. ConsistentInv'
      BY <2>1 DEF ConsistentInv, Housed, HaveBuckets, Consistent, VersionsConsistent, ObjectsConsistent, FeaturesConsistent
    <2>3. PutInv' /\ UploadsInv'
      BY <1>1 DEF PutInv, PutUnderWay, UploadsInv
    <2>4. PayloadsKept'
      BY <1>1, <1>4, EmptyIsState DEF SafeInv, PayloadsKept, LostPayloads
    <2>5. GuardInv'
      BY <1>1, <1>4 DEF SafeInv, GuardInv, Guarded, Guards, Excused
    <2> QED
      BY <2>2, <2>3, <2>4, <2>5 DEF SafeInv
  <1> QED
    BY <1>2, <1>3, <1>4 DEF S3Inv

LEMMA StartKeeps ==
  ASSUME S3Inv, Start
  PROVE  S3Inv' /\ (SafeInv => SafeInv')
  <1>1. /\ ~up /\ up' = TRUE /\ memory' = Loaded(disk) /\ NamedPayloads(disk) \subseteq payloads
        /\ disk' = disk /\ now' = now /\ failures' = failures /\ payloads' = payloads
        /\ may' = may /\ promise' = promise /\ known' = known /\ torn' = torn
        /\ overtaken' = overtaken
        /\ putting' = putting /\ uploads' = uploads
        /\ meanwhile' = meanwhile
    BY DEF Start, toldVars, raceVars
  <1>2. disk \in State
    BY DEF S3Inv, TypesInv, TypeOK
  <1>3. /\ Loaded(disk) \in State /\ SameVersions(disk, Loaded(disk))
        /\ \A n : Contents(Loaded(disk), n) = Contents(disk, n) /\ HasObject(Loaded(disk), n) = HasObject(disk, n)
    BY <1>2, LoadedOf
  <1>4. Numbered(memory')
    BY <1>1, <1>3 DEF S3Inv, TypesInv, SameVersions
  <1>5. TypesInv'
    BY <1>1, <1>3, <1>4 DEF S3Inv, TypesInv, TypeOK, Numbered
  <1>6. ReadsInv' /\ DownInv'
    BY <1>1, <1>3 DEF S3Inv, ReadsInv, DownInv
  <1>7. VersionsInv'
    <2>1. VersionIds(memory') = VersionIds(disk)
      BY <1>1, <1>3, SameIds
    <2>2. ASSUME NEW v \in memory'.history
          PROVE  v.marker \/ v.named
      <3>1. PICK w \in disk.history : VersionId(v) = VersionId(w) /\ v.named = w.named
        BY <1>1, <1>3 DEF SameVersions
      <3>2. v.marker = w.marker
        BY <3>1, VersionFields
      <3>3. w.marker \/ w.named
        BY DEF S3Inv, ReadsInv, ValidState, ValidVersions, VersionsNamePayloads
      <3> QED
        BY <3>1, <3>2, <3>3
    <2> QED
      BY <1>1, <2>1, <2>2 DEF S3Inv, VersionsInv, VersionIds
  <1>8. ASSUME SafeInv
        PROVE  SafeInv'
    <2>1. /\ Consistent(disk) /\ Consistent(Loaded(disk))
          /\ \A n \in Name : SameProtection(disk, Loaded(disk), n)
          /\ NamedPayloads(Loaded(disk)) \subseteq NamedPayloads(disk)
      BY <1>2, <1>8, LoadedKeeps DEF SafeInv, ConsistentInv
    <2>6. HaveBuckets(Loaded(disk))
      BY <1>2, LoadedOf DEF S3Inv, ReadsInv, ValidState, ValidObjects, HaveBuckets, SameRest
    <2>2. ConsistentInv'
      BY <1>1, <2>1, <2>6 DEF ConsistentInv, Housed, HaveBuckets, Consistent, VersionsConsistent, ObjectsConsistent, FeaturesConsistent
    <2>3. PutInv' /\ UploadsInv'
      BY <1>1 DEF S3Inv, DownInv, PutInv, PutUnderWay, UploadsInv
    <2>4. PayloadsKept'
      BY <1>1, <1>8, <2>1 DEF SafeInv, PayloadsKept, LostPayloads
    <2>5. GuardInv'
      <3>1. ASSUME NEW n \in Name, Guards(disk, n, promise[n])
            PROVE  Guards(Loaded(disk), n, promise[n])
        BY <1>3, <2>1, <3>1, GuardsAlike
      <3>2. ASSUME NEW n \in Name, ~Excused("protection", n)
            PROVE  Guards(disk, n, promise[n])
        BY <1>8, <3>2 DEF SafeInv, GuardInv, Guarded
      <3> QED
        BY <1>1, <3>1, <3>2 DEF GuardInv, Guarded, Guards, Excused
    <2> QED
      BY <2>2, <2>3, <2>4, <2>5 DEF SafeInv
  <1> QED
    BY <1>5, <1>6, <1>7, <1>8 DEF S3Inv

LEMMA TickKeeps ==
  ASSUME S3Inv, Tick
  PROVE  S3Inv' /\ (SafeInv => SafeInv')
  <1>1. /\ memory' = memory /\ disk' = disk /\ up' = up /\ now' = now + 1 /\ failures' = failures
        /\ payloads' = payloads /\ putting' = putting /\ uploads' = uploads
        /\ may' = may /\ promise' = promise /\ known' = known /\ torn' = torn
        /\ overtaken' = overtaken /\ meanwhile' = meanwhile
    BY DEF Tick, toldVars, raceVars
  <1>2. now \in Nat /\ now' \in Nat
    BY <1>1 DEF S3Inv, TypesInv, TypeOK
  <1>3. TypesInv'
    BY <1>1, <1>2 DEF S3Inv, TypesInv, TypeOK, Numbered
  <1>4. DownInv' /\ ReadsInv' /\ VersionsInv'
    BY <1>1 DEF S3Inv, DownInv, ReadsInv, VersionsInv
  <1>5. ASSUME NEW t \in Nat, t > now'
        PROVE  t > now
    BY <1>1, <1>2, <1>5
  <1>6. \A n \in Name : /\ promise[n].until \in Nat
                        /\ memory.retention[n].until \in Nat
    BY PayloadTypes DEF S3Inv, TypesInv, TypeOK, Promise
  <1>7. ASSUME SafeInv
        PROVE  SafeInv'
    <2>1. PutInv'
      <3>1. PutUnderWay => putting.name \in Name
        BY PutTypes DEF S3Inv
      <3> QED
        BY <1>1, <1>5, <1>6, <1>7, <3>1 DEF SafeInv, PutInv, PutUnderWay, Relied, Protects, Excused
    <2>2. GuardInv'
      BY <1>1, <1>5, <1>6, <1>7 DEF SafeInv, GuardInv, Guarded, Guards, Excused
    <2>3. ConsistentInv' /\ UploadsInv' /\ PayloadsKept'
      BY <1>1, <1>7 DEF SafeInv, ConsistentInv, Housed, Excused, UploadsInv, PayloadsKept, LostPayloads
    <2> QED
      BY <2>1, <2>2, <2>3 DEF SafeInv
  <1> QED
    BY <1>3, <1>4, <1>7 DEF S3Inv

LEMMA StutterKeeps ==
  ASSUME S3Inv, UNCHANGED vars
  PROVE  S3Inv' /\ (SafeInv => SafeInv')
  <1>1. /\ memory' = memory /\ disk' = disk /\ up' = up /\ now' = now /\ failures' = failures
        /\ payloads' = payloads /\ putting' = putting /\ uploads' = uploads
        /\ may' = may /\ promise' = promise /\ known' = known /\ torn' = torn
        /\ overtaken' = overtaken /\ meanwhile' = meanwhile
    BY DEF vars, s3Vars, toldVars, raceVars
  <1>2. TypesInv' /\ DownInv' /\ ReadsInv' /\ VersionsInv'
    BY <1>1 DEF S3Inv, TypesInv, TypeOK, Numbered, DownInv, ReadsInv, VersionsInv
  <1>3. ASSUME SafeInv
        PROVE  SafeInv'
    <2>1. PutInv' /\ GuardInv'
      BY <1>1, <1>3 DEF SafeInv, PutInv, PutUnderWay, GuardInv, Guarded, Guards, Relied, Protects, Excused
    <2>2. ConsistentInv' /\ UploadsInv' /\ PayloadsKept'
      BY <1>1, <1>3 DEF SafeInv, ConsistentInv, Housed, Excused, UploadsInv, PayloadsKept, LostPayloads
    <2> QED
      BY <2>1, <2>2 DEF SafeInv
  <1> QED
    BY <1>2, <1>3 DEF S3Inv

-----------------------------------------------------------------------------
LEMMA S3Init ==
  ASSUME Init
  PROVE  S3Inv /\ SafeInv
  <1>1. /\ memory = EmptyState /\ disk = EmptyState /\ payloads = {} /\ putting = NoPut /\ up = TRUE
        /\ now = 0 /\ failures = 0 /\ known = {} /\ torn = {}
        /\ meanwhile = {} /\ overtaken = {}
        /\ uploads = [id \in UploadId |-> NoUpload]
        /\ may = [n \in Name |-> {{}}] /\ promise = [n \in Name |-> NoPromise]
    BY DEF Init
  <1>2. NoPromise \in Promise
    BY EmptyBody DEF Promise, NoPromise
  <1>3. TypesInv
    <2>1. uploads \in [UploadId -> Upload \cup {NoUpload}] /\ promise \in [Name -> Promise]
      BY <1>1, <1>2
    <2> QED
      BY <1>1, <2>1, EmptyIsState DEF TypesInv, TypeOK
  <1>4. DownInv /\ ReadsInv /\ VersionsInv
    BY <1>1, EmptyIsState DEF DownInv, ReadsInv, VersionsInv, VersionIds
  <1>5. ConsistentInv /\ UploadsInv /\ PutInv /\ PayloadsKept
    BY <1>1, EmptyIsState DEF ConsistentInv, Housed, HaveBuckets, UploadsInv, PutInv, PutUnderWay, PayloadsKept
  <1>6. GuardInv
    BY <1>1 DEF GuardInv, Guarded, Guards, NoPromise
  <1> QED
    BY <1>3, <1>4, <1>5, <1>6 DEF S3Inv, SafeInv

(* Every step that writes the file is a request. *)
LEMMA BucketSteps ==
  ASSUME S3Inv, BucketNext \/ SubresourceNext
  PROVE  Requests
  <1>1. ASSUME BucketNext
        PROVE  Requests
    BY <1>1, CreateBucketStep, DeleteBucketStep, PutBucketVersioningStep DEF BucketNext
  <1>2. ASSUME SubresourceNext
        PROVE  Requests
    <2>1. PICK b \in Bucket :
            \/ \E f \in Features :
                 (\E destination \in Bucket : PutBucketFeature(b, f, destination)) \/ DeleteBucketFeature(b, f)
            \/ \E lock \in Locks : PutObjectLockConfiguration(b, lock)
      BY <1>2 DEF SubresourceNext
    <2> QED
      BY <2>1, FeatureStep, LockStep
  <1> QED
    BY <1>1, <1>2

LEMMA NameSteps ==
  ASSUME S3Inv, ObjectNext \/ GovernanceNext \/ ProtectionNext
  PROVE  Requests \/ Unsaved
  <1>1. ASSUME ObjectNext
        PROVE  Requests \/ Unsaved
    BY <1>1, CopyObjectStep, DeleteObjectStep, FinishPutStep, PutStepsUnsaved DEF ObjectNext
  <1>2. ASSUME GovernanceNext
        PROVE  Requests
    <2>1. PICK n \in Name : DeleteObjectTagging(n) \/ \E aspect \in Aspect : PutObjectAspect(n, aspect)
      BY <1>2 DEF GovernanceNext
    <2> QED
      BY <2>1, AspectStep
  <1>3. ASSUME ProtectionNext
        PROVE  Requests
    BY <1>3, RetentionStep, LegalHoldStep DEF ProtectionNext
  <1> QED
    BY <1>1, <1>2, <1>3

LEMMA UploadSteps ==
  ASSUME S3Inv, MultipartNext
  PROVE  Requests \/ Unsaved
  <1>1. PICK id \in UploadId :
          \/ \E n \in Name : CreateMultipartUpload(id, n)
          \/ \E number \in PartNumber, body \in Bodies : UploadPart(id, number, body)
          \/ AbortMultipartUpload(id)
          \/ CompleteMultipartUpload(id)
    BY DEF MultipartNext
  <1> QED
    BY <1>1, CompleteStep, UploadStepsUnsaved

LEMMA S3Step ==
  ASSUME S3Inv, [Next]_vars
  PROVE  S3Inv' /\ (SafeInv => SafeInv')
  <1>1. CASE Requests
    BY <1>1, RequestsKeep
  <1>2. CASE Unsaved
    BY <1>2, UnsavedKeeps
  <1>3. CASE Crash
    BY <1>3, CrashKeeps
  <1>4. CASE Start
    BY <1>4, StartKeeps
  <1>5. CASE Tick
    BY <1>5, TickKeeps
  <1>6. CASE UNCHANGED vars
    BY <1>6, StutterKeeps
  <1> QED
    BY <1>1, <1>2, <1>3, <1>4, <1>5, <1>6, BucketSteps, NameSteps, UploadSteps DEF Next
-----------------------------------------------------------------------------
(* What the parts of the invariant say of the properties. *)
LEMMA InvReads ==
  ASSUME S3Inv
  PROVE  ReadsAreJustified
  BY DEF S3Inv, ReadsInv, ReadsAreJustified

LEMMA InvStructures ==
  ASSUME S3Inv, SafeInv
  PROVE  StructuresConsistent
  BY DEF SafeInv, ConsistentInv, Housed, Consistent, VersionsConsistent, ObjectsConsistent, FeaturesConsistent,
         UploadsInv, StructuresConsistent

LEMMA InvLocks ==
  ASSUME S3Inv, SafeInv
  PROVE  LocksHonoured
  BY DEF SafeInv, GuardInv, Guarded, Guards, LocksHonoured, Broken, Relied, Protects

LEMMA InvVersions ==
  ASSUME S3Inv, SafeInv
  PROVE  VersionsKept
  <1>1. \A v, w \in memory.history : v.seq = w.seq => v = w
    BY DEF S3Inv, TypesInv, Numbered
  <1>2. ASSUME NEW v \in memory.history, v.named
        PROVE  <<v.name, v.content>> \in payloads \cup LostPayloads
    BY <1>2 DEF SafeInv, PayloadsKept, NamedPayloads
  <1> QED
    BY <1>1, <1>2 DEF S3Inv, VersionsInv, VersionsKept

-----------------------------------------------------------------------------
LEMMA S3InvStays == Spec => []S3Inv
  <1>1. Init => S3Inv
    BY S3Init
  <1>2. S3Inv /\ [Next]_vars => S3Inv'
    BY S3Step
  <1> QED
    BY <1>1, <1>2, PTL DEF Spec

LEMMA SafeInvStays == Spec => [](S3Inv /\ SafeInv)
  <1>1. Init => S3Inv /\ SafeInv
    BY S3Init
  <1>2. S3Inv /\ SafeInv /\ [Next]_vars => (S3Inv /\ SafeInv)'
    BY S3Step
  <1> QED
    BY <1>1, <1>2, PTL DEF Spec

(* The states of memory and file, the uploads and the put keep their       *)
(* types: what the methods of State build is a State again, and so is what *)
(* is written and what is loaded.                                          *)
THEOREM S3Types == Spec => []TypeOK
  <1>1. S3Inv => TypeOK
    BY DEF S3Inv, TypesInv
  <1> QED
    BY <1>1, S3InvStays, PTL

(* Whatever clients send, whatever saves fail and whenever the process     *)
(* ends, an object reads as an answered request left it, or as one that    *)
(* was answered with an error since.                                       *)
THEOREM S3Reads == Spec => []ReadsAreJustified
  <1>1. S3Inv => ReadsAreJustified
    BY InvReads
  <1> QED
    BY <1>1, S3InvStays, PTL

(* Whatever comes between the steps of requests, saves and restarts,       *)
(* nothing is left of a deleted bucket or object, but the object of a put  *)
(* whose bucket was deleted after the put had looked for it.               *)
THEOREM S3Structures == Spec => []StructuresConsistent
  <1>1. S3Inv /\ SafeInv => StructuresConsistent
    BY InvStructures
  <1> QED
    BY <1>1, SafeInvStays, PTL

(* The payloads that memory and file name are kept, but those that were    *)
(* deleted between a put's StorePayload and its record, and, of the file,  *)
(* those of a delete whose save failed.                                    *)
THEOREM S3Payloads == Spec => []PayloadsKept
  <1>1. S3Inv /\ SafeInv => PayloadsKept
    BY DEF SafeInv
  <1> QED
    BY <1>1, SafeInvStays, PTL

(* An object that a hold or a retention protects is not replaced or        *)
(* removed while a client may rely on it, but by a put that was receiving  *)
(* its body when the client was told.                                      *)
THEOREM S3Locks == Spec => []LocksHonoured
  <1>1. S3Inv /\ SafeInv => LocksHonoured
    BY InvLocks
  <1> QED
    BY <1>1, SafeInvStays, PTL

(* A version that was saved stays listed, its number is its own, and it    *)
(* can be read unless its payload was deleted before it was recorded.      *)
THEOREM S3Versions == Spec => []VersionsKept
  <1>1. S3Inv /\ SafeInv => VersionsKept
    BY InvVersions
  <1> QED
    BY <1>1, SafeInvStays, PTL

-----------------------------------------------------------------------------
(* Versions and their content.  What takes the content of a version, and   *)
(* with it every later save, is the completion of a multipart upload in a  *)
(* bucket with versions; no other request, failed save, crash or start     *)
(* does (storeObject, recordDeleteMarker, migrateLoadedPayloads).          *)
CompletesAmongVersions ==
  \E id \in UploadId :
    /\ CompleteMultipartUpload(id)
    /\ VersioningEnabled(memory, BucketOf(uploads[id].name))

OnlyUploadsForgetContent ==
  [][VersionsHaveContent => VersionsHaveContent' \/ CompletesAmongVersions]_vars

(* What each step makes of versions that have their content.               *)
Remembers == VersionsNamePayloads(memory) => VersionsNamePayloads(memory')

LEMMA SameHistoryRemembers ==
  ASSUME NEW next, next.history = memory.history, memory' = next
  PROVE  Remembers
  BY DEF Remembers, VersionsNamePayloads

LEMMA ChangeRemembers ==
  ASSUME NEW next, next.history = memory.history, Change(next) \/ \E n, files : ChangeObject(n, next, files)
  PROVE  Remembers
  <1>1. memory' = next
    BY DEF Change, ChangeObject, Persist
  <1> QED
    BY <1>1, SameHistoryRemembers

LEMMA PutRemembers ==
  ASSUME NEW n, NEW object, NEW next, Puts(memory, next, n, object), memory' = next,
         object.named \/ ~VersioningEnabled(memory, BucketOf(n))
  PROVE  Remembers
  <1>1. CASE next.history = memory.history
    BY <1>1, SameHistoryRemembers
  <1>2. CASE next.history # memory.history
    <2>1. object.named
      BY <1>2 DEF Puts, Adds
    <2>2. PICK v \in Version : v.named = object.named /\ next.history = memory.history \cup {v}
      BY <1>2 DEF Puts, Adds, AddsVersion
    <2> QED
      BY <2>1, <2>2 DEF Remembers, VersionsNamePayloads
  <1> QED
    BY <1>1, <1>2

LEMMA DeleteRemembers ==
  ASSUME S3Inv, NEW n \in Name, DeleteObject(n)
  PROVE  Remembers
  <1> DEFINE versioned == VersioningEnabled(memory, BucketOf(n))
             marker == [name |-> n, seq |-> NextSequence(memory), marker |-> TRUE,
                        content |-> <<>>, named |-> FALSE, held |-> FALSE]
             marked == RecordDeleteMarker(memory, n)
             first == IF versioned THEN marked ELSE memory
             next == DeleteObjectOf(first, n)
  <1>1. memory \in State /\ Numbered(memory)
    BY PutTypes DEF S3Inv
  <1>2. marked \in State
    <2>1. TRUE \in BOOLEAN /\ FALSE \in BOOLEAN /\ <<>> \in Body
      BY EmptyBody
    <2> QED
      BY <1>1, <2>1, RecordVersionOf DEF RecordDeleteMarker
  <1>3. marked.history = memory.history \cup {marker}
    <2>1. marked = [memory EXCEPT !.history = memory.history \cup {marker}]
      BY DEF RecordDeleteMarker, RecordVersion
    <2> HIDE DEF marker, marked
    <2> QED
      BY <1>1, <2>1 DEF State
  <1>4. marker.marker
    OBVIOUS
  <1> HIDE DEF marker, marked
  <1>5. first \in State /\ first.history \subseteq memory.history \cup {marker}
    BY <1>1, <1>2, <1>3
  <1>6. memory' = next
    BY DEF DeleteObject, ChangeObject, Persist, marked
  <1> HIDE DEF first
  <1>7. next.history = first.history
    BY <1>5, DeleteObjectOfOf
  <1> HIDE DEF next
  <1> QED
    BY <1>4, <1>5, <1>6, <1>7 DEF Remembers, VersionsNamePayloads

LEMMA StoresRemember ==
  ASSUME S3Inv, FinishPut \/ \E n, source \in Name : CopyObject(n, source)
  PROVE  Remembers
  <1>1. ASSUME FinishPut
        PROVE  Remembers
    <2> DEFINE n == putting.name
               object == Stored(putting.content)
               next == Replaced(memory, n, object)
    <2>1. PutUnderWay /\ memory' = next
      BY <1>1 DEF FinishPut, PutUnderWay, NoPut, Persist
    <2>2. n \in Name /\ object \in Object /\ object.named
      BY <2>1, PutTypes DEF S3Inv, Stored, Object
    <2> HIDE DEF object, n
    <2>3. Puts(memory, next, n, object)
      BY <2>2, PutTypes, ReplacedOf DEF S3Inv
    <2> HIDE DEF next
    <2> QED
      BY <2>1, <2>2, <2>3, PutRemembers
  <1>2. ASSUME NEW n \in Name, NEW source \in Name, CopyObject(n, source)
        PROVE  Remembers
    <2> DEFINE object == Stored(memory.objects[source].content)
               next == ApplyDefaultRetention(CopyObjectProtection(
                         ClearObjectProtection(StoreObject(memory, n, object), n), n, source), n, now)
    <2>1. HasObject(memory, source) /\ memory' = next
      BY <1>2 DEF CopyObject, ChangeObject, Persist
    <2>2. object \in Object /\ object.named
      BY <2>1, ObjectContent, PutTypes DEF S3Inv, Stored, Object
    <2> HIDE DEF object
    <2>3. Puts(memory, next, n, object)
      BY <2>2, PutTypes, CopiedOf DEF S3Inv
    <2> HIDE DEF next
    <2> QED
      BY <2>1, <2>2, <2>3, PutRemembers
  <1> QED
    BY <1>1, <1>2

LEMMA CompletesOrRemembers ==
  ASSUME S3Inv, NEW id \in UploadId, CompleteMultipartUpload(id)
  PROVE  Remembers \/ CompletesAmongVersions
  <1> DEFINE n == uploads[id].name
             body == Assembled(uploads[id].parts)
             object == [content |-> body, named |-> FALSE, held |-> body # <<>>]
             next == Replaced(memory, n, object)
  <1>1. uploads[id] # NoUpload /\ body \in Body /\ memory' = next
    BY DEF CompleteMultipartUpload, Persist
  <1>2. CASE VersioningEnabled(memory, BucketOf(n))
    BY <1>2 DEF CompletesAmongVersions
  <1>3. CASE ~VersioningEnabled(memory, BucketOf(n))
    <2>1. n \in Name
      BY <1>1, PutTypes DEF S3Inv
    <2> HIDE DEF body, n
    <2>2. object \in Object
      BY <1>1 DEF Object
    <2> HIDE DEF object
    <2>3. Puts(memory, next, n, object)
      BY <2>1, <2>2, PutTypes, ReplacedOf DEF S3Inv
    <2> HIDE DEF next
    <2> QED
      BY <1>1, <1>3, <2>3, PutRemembers DEF n
  <1> QED
    BY <1>2, <1>3

LEMMA BucketsRemember ==
  ASSUME S3Inv, BucketNext \/ SubresourceNext
  PROVE  Remembers
  <1>1. memory \in State
    BY PutTypes DEF S3Inv
  <1>2. ASSUME NEW b \in Bucket, CreateBucket(b)
        PROVE  Remembers
    <2> DEFINE next == [memory EXCEPT !.buckets = memory.buckets \cup {b}]
    <2>1. Change(next) /\ next.history = memory.history
      BY <1>1, <1>2 DEF CreateBucket, State
    <2> QED
      BY <2>1, ChangeRemembers
  <1>3. ASSUME NEW b \in Bucket, DeleteBucket(b)
        PROVE  Remembers
    <2>1. memory' = WithoutBucket(memory, b)
      BY <1>3 DEF DeleteBucket, Persist
    <2>2. WithoutBucket(memory, b).history = memory.history
      BY <1>1, WithoutBucketOf DEF Abandons
    <2> QED
      BY <2>1, <2>2, SameHistoryRemembers
  <1>4. ASSUME NEW b \in Bucket, NEW status \in {"Enabled", "Suspended"}, PutBucketVersioning(b, status)
        PROVE  Remembers
    <2> DEFINE next == [memory EXCEPT !.versioning[b] = status]
    <2>1. Change(next) /\ next.history = memory.history
      BY <1>1, <1>4 DEF PutBucketVersioning, State
    <2> QED
      BY <2>1, ChangeRemembers
  <1>5. ASSUME NEW b \in Bucket, NEW f \in Features,
               (\E destination \in Bucket : PutBucketFeature(b, f, destination)) \/ DeleteBucketFeature(b, f)
        PROVE  Remembers
    <2>1. PICK next : Change(next) /\ next.history = memory.history
      <3>1. /\ SetFeature(memory, b, f).history = memory.history
            /\ DeleteFeature(memory, b, f).history = memory.history
        BY <1>1 DEF SetFeature, DeleteFeature, State
      <3> QED
        BY <1>5, <3>1 DEF PutBucketFeature, DeleteBucketFeature
    <2> QED
      BY <2>1, ChangeRemembers
  <1>6. ASSUME NEW b \in Bucket, NEW lock \in Locks, PutObjectLockConfiguration(b, lock)
        PROVE  Remembers
    <2> DEFINE next == [memory EXCEPT !.locks[b] = lock]
    <2>1. Change(next) /\ next.history = memory.history
      BY <1>1, <1>6 DEF PutObjectLockConfiguration, State
    <2> QED
      BY <2>1, ChangeRemembers
  <1>7. ASSUME SubresourceNext
        PROVE  Remembers
    <2>1. PICK b \in Bucket :
            \/ \E f \in Features :
                 (\E destination \in Bucket : PutBucketFeature(b, f, destination)) \/ DeleteBucketFeature(b, f)
            \/ \E lock \in Locks : PutObjectLockConfiguration(b, lock)
      BY <1>7 DEF SubresourceNext
    <2> QED
      BY <1>5, <1>6, <2>1
  <1> QED
    BY <1>2, <1>3, <1>4, <1>7 DEF BucketNext

LEMMA GovernanceRemembers ==
  ASSUME S3Inv, GovernanceNext \/ ProtectionNext
  PROVE  Remembers
  <1>1. memory \in State
    BY PutTypes DEF S3Inv
  <1>2. PICK n \in Name : \E next : ChangeObject(n, next, payloads) /\ next.history = memory.history
    <2>1. ASSUME NEW n \in Name, DeleteObjectTagging(n)
          PROVE  \E next : ChangeObject(n, next, payloads) /\ next.history = memory.history
      <3> DEFINE next == [memory EXCEPT !.aspects = memory.aspects \ {<<n, "tagging">>}]
      <3>1. ChangeObject(n, next, payloads) /\ next.history = memory.history
        BY <1>1, <2>1 DEF DeleteObjectTagging, State
      <3> QED
        BY <3>1
    <2>2. ASSUME NEW n \in Name, NEW aspect \in Aspect, PutObjectAspect(n, aspect)
          PROVE  \E next : ChangeObject(n, next, payloads) /\ next.history = memory.history
      <3>1. SetAspect(memory, n, aspect).history = memory.history
        BY <1>1 DEF SetAspect, State
      <3> QED
        BY <2>2, <3>1 DEF PutObjectAspect
    <2>3. ASSUME NEW n \in Name, NEW due \in Retentions, PutObjectRetention(n, due)
          PROVE  \E next : ChangeObject(n, next, payloads) /\ next.history = memory.history
      <3> DEFINE next == [memory EXCEPT !.retention[n] = due]
      <3>1. ChangeObject(n, next, payloads) /\ next.history = memory.history
        BY <1>1, <2>3 DEF PutObjectRetention, State
      <3> QED
        BY <3>1
    <2>4. ASSUME NEW n \in Name, NEW status \in {"ON", "OFF"}, PutObjectLegalHold(n, status)
          PROVE  \E next : ChangeObject(n, next, payloads) /\ next.history = memory.history
      <3> DEFINE next == [memory EXCEPT !.legalHold[n] = status]
      <3>1. ChangeObject(n, next, payloads) /\ next.history = memory.history
        BY <1>1, <2>4 DEF PutObjectLegalHold, State
      <3> QED
        BY <3>1
    <2> QED
      BY <2>1, <2>2, <2>3, <2>4 DEF GovernanceNext, ProtectionNext
  <1> QED
    BY <1>2, ChangeRemembers

(* The service starts with the versions of the file, which was valid. *)
LEMMA StartRemembers ==
  ASSUME S3Inv, Start
  PROVE  Remembers
  <1>1. memory' = Loaded(disk) /\ disk \in State
    BY DEF S3Inv, TypesInv, TypeOK, Start
  <1>2. SameVersions(disk, Loaded(disk))
    BY <1>1, LoadedOf
  <1>3. ASSUME NEW v \in memory'.history
        PROVE  v.marker \/ v.named
    <2>1. PICK w \in disk.history : VersionId(v) = VersionId(w) /\ v.named = w.named
      BY <1>1, <1>2 DEF SameVersions
    <2>2. v.marker = w.marker
      BY <2>1, VersionFields
    <2>3. w.marker \/ w.named
      BY DEF S3Inv, ReadsInv, ValidState, ValidVersions, VersionsNamePayloads
    <2> QED
      BY <2>1, <2>2, <2>3
  <1> QED
    BY <1>3 DEF Remembers, VersionsNamePayloads

LEMMA UnmovedRemembers ==
  ASSUME memory' = memory \/ Crash
  PROVE  Remembers
  BY EmptyIsState DEF Crash, Remembers, VersionsNamePayloads

LEMMA ContentStep ==
  ASSUME S3Inv, [Next]_vars
  PROVE  Remembers \/ CompletesAmongVersions
  <1>1. CASE ObjectNext
    <2>1. CASE \E n \in Name, content \in Bodies : BeginPut(n, content)
      BY <2>1, UnmovedRemembers DEF BeginPut
    <2>2. CASE StorePayload \/ BodyFails
      BY <2>2, UnmovedRemembers DEF StorePayload, BodyFails
    <2> QED
      BY <1>1, <2>1, <2>2, StoresRemember, DeleteRemembers DEF ObjectNext
  <1>2. CASE MultipartNext
    <2>1. ASSUME NEW id \in UploadId,
                 \/ \E n \in Name : CreateMultipartUpload(id, n)
                 \/ \E number \in PartNumber, body \in Bodies : UploadPart(id, number, body)
                 \/ AbortMultipartUpload(id)
          PROVE  Remembers
      <3>1. memory' = memory
        BY <2>1 DEF CreateMultipartUpload, UploadPart, AbortMultipartUpload
      <3> QED
        BY <3>1, UnmovedRemembers
    <2> QED
      BY <1>2, <2>1, CompletesOrRemembers DEF MultipartNext
  <1>3. CASE Tick \/ UNCHANGED vars
    BY <1>3, UnmovedRemembers DEF Tick, vars, s3Vars
  <1> QED
    BY <1>1, <1>2, <1>3, BucketsRemember, GovernanceRemembers, UnmovedRemembers, StartRemembers DEF Next

(* Whatever clients send and whatever fails, only the completion of a      *)
(* multipart upload in a bucket with versions leaves a version without its *)
(* content (storeObject, which drops the body before it is recorded).      *)
THEOREM ContentForgottenByUploads == Spec => OnlyUploadsForgetContent
  <1>1. S3Inv /\ [Next]_vars => [VersionsHaveContent => VersionsHaveContent' \/ CompletesAmongVersions]_vars
    BY ContentStep DEF Remembers, VersionsHaveContent
  <1> QED
    BY <1>1, S3InvStays, PTL DEF Spec, OnlyUploadsForgetContent

(* Hence as long as none is completed there, every version recorded has    *)
(* its content, and none keeps the state from being saved (validateState). *)
THEOREM ContentWithoutUploads ==
  Spec /\ [][~CompletesAmongVersions]_vars => []VersionsHaveContent
  <1>1. Init => VersionsHaveContent
    BY EmptyIsState DEF Init, VersionsHaveContent, VersionsNamePayloads
  <1>2. VersionsHaveContent /\ UNCHANGED vars => VersionsHaveContent'
    BY DEF vars, s3Vars, VersionsHaveContent, VersionsNamePayloads
  <1> QED
    BY <1>1, <1>2, ContentForgottenByUploads, PTL DEF Spec, OnlyUploadsForgetContent

-----------------------------------------------------------------------------
(* Reads.  A GET keeps the record it took; the record's payload is there   *)
(* until the object is deleted.                                            *)
Get == [stage : {"reading"}, name : Name, object : Object, seen : SUBSET SUBSET Body]

GetInv ==
  reading # NotReading =>
    /\ up /\ reading \in Get
    /\ {reading.object.content} \in reading.seen
    /\ reading.object.named =>
         <<reading.name, reading.object.content>> \in payloads \cup LostPayloads \/ {} \in reading.seen

(* A payload goes only with its object. *)
LEMMA PersistsFiles ==
  ASSUME NEW ok \in BOOLEAN, NEW next, NEW files, NEW names, Persist(ok, next, files, names)
  PROVE  files \subseteq payloads' /\ memory' = next
  BY DEF Persist, Save

LEMMA DeleteKeepsOthers ==
  ASSUME S3Inv, NEW n \in Name, DeleteObject(n), NEW ref \in payloads
  PROVE  ref \in payloads' \/ Contents(memory', ref[1]) = {}
  <1> DEFINE next == DeleteObjectOf(
                       IF VersioningEnabled(memory, BucketOf(n)) THEN RecordDeleteMarker(memory, n) ELSE memory, n)
             files == payloads \ PayloadToDelete(memory, n)
  <1>1. PICK ok \in BOOLEAN : Persist(ok, next, files, {n})
    BY DEF DeleteObject, ChangeObject
  <1>2. n \notin Names(next)
    BY PutTypes, RemovedOf DEF S3Inv, Removes
  <1> HIDE DEF next
  <1>3. files \subseteq payloads' /\ memory' = next
    BY <1>1, PersistsFiles
  <1>4. CASE ref[1] = n
    BY <1>2, <1>3, <1>4 DEF Contents
  <1>5. CASE ref[1] # n
    BY <1>3, <1>5 DEF PayloadToDelete
  <1> QED
    BY <1>4, <1>5

LEMMA OthersKeep ==
  ASSUME [Next]_vars, ~\E n \in Name : DeleteObject(n)
  PROVE  payloads \subseteq payloads'
  <1>1. ASSUME NEW next, Change(next)
        PROVE  payloads \subseteq payloads'
    BY <1>1, PersistsFiles DEF Change
  <1>2. ASSUME NEW n, NEW next, NEW files, payloads \subseteq files, ChangeObject(n, next, files)
        PROVE  payloads \subseteq payloads'
    BY <1>2, PersistsFiles DEF ChangeObject
  <1>3. CASE BucketNext
    <2>1. ASSUME NEW b \in Bucket, DeleteBucket(b)
          PROVE  payloads \subseteq payloads'
      BY <2>1, PersistsFiles DEF DeleteBucket
    <2> QED
      BY <1>1, <1>3, <2>1 DEF BucketNext, CreateBucket, PutBucketVersioning
  <1>4. CASE SubresourceNext
    BY <1>1, <1>4 DEF SubresourceNext, PutBucketFeature, DeleteBucketFeature, PutObjectLockConfiguration
  <1>5. CASE ObjectNext
    <2>1. ASSUME NEW n \in Name, NEW source \in Name, CopyObject(n, source)
          PROVE  payloads \subseteq payloads'
      BY <1>2, <2>1 DEF CopyObject
    <2>2. ASSUME FinishPut
          PROVE  payloads \subseteq payloads'
      BY <2>2, PersistsFiles DEF FinishPut
    <2>3. StorePayload \/ BodyFails \/ (\E n \in Name, content \in Bodies : BeginPut(n, content))
            => payloads \subseteq payloads'
      BY DEF StorePayload, BodyFails, BeginPut
    <2> QED
      BY <1>5, <2>1, <2>2, <2>3 DEF ObjectNext
  <1>6. CASE GovernanceNext
    BY <1>2, <1>6 DEF GovernanceNext, DeleteObjectTagging, PutObjectAspect
  <1>7. CASE ProtectionNext
    BY <1>2, <1>7 DEF ProtectionNext, PutObjectRetention, PutObjectLegalHold
  <1>8. CASE MultipartNext
    <2>1. ASSUME NEW id \in UploadId, CompleteMultipartUpload(id)
          PROVE  payloads \subseteq payloads'
      BY <2>1, PersistsFiles DEF CompleteMultipartUpload
    <2> QED
      BY <1>8, <2>1 DEF MultipartNext, CreateMultipartUpload, UploadPart, AbortMultipartUpload
  <1>9. CASE Crash \/ Start \/ Tick \/ UNCHANGED vars
    BY <1>9 DEF Crash, Start, Tick, vars, s3Vars
  <1> QED
    BY <1>3, <1>4, <1>5, <1>6, <1>7, <1>8, <1>9 DEF Next

(* Every step keeps of the overtaken puts those that still show. *)
LEMMA StepStands ==
  ASSUME S3Inv, [Next]_vars
  PROVE  Standing \subseteq overtaken'
  <1>1. CASE Requests
    BY <1>1 DEF Requests
  <1>2. CASE Unsaved
    BY <1>2 DEF Unsaved, Standing
  <1>3. CASE Crash \/ Start \/ Tick \/ UNCHANGED vars
    BY <1>3 DEF Crash, Start, Tick, vars, raceVars, Standing
  <1> QED
    BY <1>1, <1>2, <1>3, BucketSteps, NameSteps, UploadSteps DEF Next

(* What a service step does to a GET under way, and what the GET does.     *)
LEMMA WatchedGet ==
  ASSUME S3Inv, S3Inv', GetInv, [Next]_vars, Watched
  PROVE  GetInv'
  <1> SUFFICES ASSUME reading' # NotReading
               PROVE  /\ up' /\ reading' \in Get
                      /\ {reading'.object.content} \in reading'.seen
                      /\ reading'.object.named =>
                           <<reading'.name, reading'.object.content>> \in (payloads \cup LostPayloads)' \/ {} \in reading'.seen
    BY DEF GetInv, NotReading
  <1> DEFINE read == Contents(memory', reading.name)
  <1>1. up' /\ reading # NotReading
    BY DEF Watched, NotReading
  <1>2. reading \in Get /\ reading.stage = "reading"
    BY <1>1 DEF GetInv, Get
  <1>3. reading' = [reading EXCEPT !.seen = reading.seen \cup {read}]
    BY <1>1, <1>2 DEF Watched
  <1>4. read \subseteq Body
    <2>1. memory' \in State /\ reading.name \in Name
      BY <1>2 DEF S3Inv, TypesInv, TypeOK, Get
    <2> QED
      BY <2>1, ContentsOf, ObjectContent
  <1> DEFINE ref == <<reading.name, reading.object.content>>
  <1>5. ref \in payloads => ref \in payloads' \/ read = {}
    BY DeleteKeepsOthers, OthersKeep
  <1>7. ref \in LostPayloads => ref \in LostPayloads' \/ ref \in payloads
    BY StepStands, StandingPayloads
  <1> HIDE DEF read
  <1>6. /\ reading' \in Get /\ reading'.name = reading.name /\ reading'.object = reading.object
        /\ reading'.seen = reading.seen \cup {read}
    BY <1>2, <1>3, <1>4 DEF Get
  <1> QED
    BY <1>1, <1>5, <1>6, <1>7 DEF GetInv

LEMMA GetStep ==
  ASSUME S3Inv, PayloadsKept, GetInv, ReadRequest
  PROVE  UNCHANGED vars /\ GetInv'
  <1>1. ASSUME NEW n \in Name, BeginGet(n)
        PROVE  UNCHANGED vars /\ GetInv'
    <2> DEFINE object == memory.objects[n]
               read == Contents(memory, n)
    <2>1. /\ up /\ HasObject(memory, n) /\ UNCHANGED vars
          /\ reading' = [stage |-> "reading", name |-> n, object |-> object, seen |-> {read}]
      BY <1>1 DEF BeginGet
    <2>2. read = {object.content}
      BY <2>1, ContentsOf
    <2>3. object \in Object
      BY <2>1, PutTypes, StateFields, ObjectTable DEF S3Inv, HasObject, Names
    <2>4. object.named => <<n, object.content>> \in payloads \cup LostPayloads
      BY <2>1 DEF PayloadsKept, NamedPayloads, HasObject, Names
    <2> HIDE DEF object, read
    <2>5. object.content \in Body
      BY <2>3 DEF Object
    <2>6. /\ reading' \in Get /\ reading'.name = n /\ reading'.object = object /\ reading'.seen = {read}
      BY <2>1, <2>2, <2>3, <2>5 DEF Get
    <2>7. up' = up /\ (payloads \cup LostPayloads)' = payloads \cup LostPayloads
      BY <2>1 DEF vars, s3Vars, raceVars, LostPayloads
    <2> QED
      BY <2>1, <2>2, <2>4, <2>6, <2>7 DEF GetInv
  <1>2. ASSUME FinishGet
        PROVE  UNCHANGED vars /\ GetInv'
    BY <1>2 DEF FinishGet, GetInv, NotReading
  <1> QED
    BY <1>1, <1>2 DEF ReadRequest

(* Every request that the adapter serves is a step of the service.         *)
LEMMA ObjectRequestIsStep ==
  ASSUME ObjectRequest
  PROVE  Next /\ Watched
  <1>1. PICK method \in {"PUT", "POST", "DELETE"}, query \in Queries, n \in Name, copies \in BOOLEAN :
          Dispatched(method, query, copies, n) /\ Watched
    BY DEF ObjectRequest
  <1> QED
    BY <1>1 DEF Dispatched, Next, ObjectNext, MultipartNext

LEMMA BucketRequestIsStep ==
  ASSUME BucketRequest
  PROVE  Next /\ Watched
  <1>1. PICK method \in {"PUT", "POST", "DELETE"}, b \in Bucket :
          \E query \in {{}, {"versioning"}, {"delete"}} \cup {{f} : f \in Features} :
            DispatchedToBucket(method, query, b) /\ Watched
    BY DEF BucketRequest
  <1>2. PICK query : DispatchedToBucket(method, query, b) /\ Watched
    BY <1>1
  <1>3. \A k \in Key : <<b, k>> \in Name
    BY DEF Name
  <1> QED
    BY <1>2, <1>3 DEF DispatchedToBucket, Next, BucketNext, SubresourceNext, ObjectNext

LEMMA RequestIsStep ==
  ASSUME RequestsNext
  PROVE  ReadRequest \/ (Next /\ Watched)
  <1>1. PutStep => Next /\ Watched
    BY DEF PutStep, Next, ObjectNext
  <1> QED
    BY <1>1, ObjectRequestIsStep, BucketRequestIsStep DEF RequestsNext, Next

LEMMA RequestsStep ==
  ASSUME S3Inv, SafeInv, GetInv, [RequestsNext]_requestVars
  PROVE  S3Inv' /\ SafeInv' /\ GetInv'
  <1>1. CASE ReadRequest
    BY <1>1, GetStep, S3Step DEF SafeInv
  <1>2. CASE Next /\ Watched
    BY <1>2, WatchedGet, S3Step
  <1>3. CASE UNCHANGED requestVars
    <2>1. UNCHANGED vars /\ reading' = reading
      BY <1>3 DEF requestVars
    <2>2. up' = up /\ (payloads \cup LostPayloads)' = payloads \cup LostPayloads
      BY <2>1 DEF vars, s3Vars, raceVars, LostPayloads
    <2> QED
      BY <2>1, <2>2, S3Step DEF GetInv
  <1> QED
    BY <1>1, <1>2, <1>3, RequestIsStep

(* Content-Range says which bytes are sent, and they are the bytes that    *)
(* Range asks for; a range that is refused asks for none.                  *)
LEMMA RangesServed ==
  ASSUME NEW size \in Nat, NEW range \in Ranges
  PROVE  IF Satisfiable(range, size)
         THEN /\ Slice(range, size)[1]..Slice(range, size)[2] = RequestedBytes(range, size)
              /\ Slice(range, size)[1] <= Slice(range, size)[2]
         ELSE RequestedBytes(range, size) = {}
  <1>1. range \in (Nat \cup {Open}) \X (Nat \cup {Open}) /\ range # <<Open, Open>>
    BY RequestsAssumption
  <1>2. PICK first \in Nat \cup {Open}, last \in Nat \cup {Open} :
          range = <<first, last>> /\ (first # Open \/ last # Open)
    <2>1. range = <<range[1], range[2]>> /\ range[1] \in Nat \cup {Open} /\ range[2] \in Nat \cup {Open}
      BY <1>1
    <2>2. range[1] # Open \/ range[2] # Open
      BY <1>1, <2>1
    <2> QED
      BY <2>1, <2>2
  <1>3. range[1] = first /\ range[2] = last
    BY <1>2
  <1>4. ASSUME first = Open
        PROVE  IF Satisfiable(range, size)
               THEN /\ Slice(range, size)[1]..Slice(range, size)[2] = RequestedBytes(range, size)
                    /\ Slice(range, size)[1] <= Slice(range, size)[2]
               ELSE RequestedBytes(range, size) = {}
    <2>1. last \in Nat
      BY <1>2, <1>4
    <2>2. Slice(range, size) = <<IF last > size THEN 0 ELSE size - last, size - 1>>
      BY <1>3, <1>4 DEF Slice
    <2> QED
      BY <1>3, <1>4, <2>1, <2>2 DEF Satisfiable, RequestedBytes, Open
  <1>5. ASSUME first # Open, last = Open
        PROVE  IF Satisfiable(range, size)
               THEN /\ Slice(range, size)[1]..Slice(range, size)[2] = RequestedBytes(range, size)
                    /\ Slice(range, size)[1] <= Slice(range, size)[2]
               ELSE RequestedBytes(range, size) = {}
    <2>1. first \in Nat
      BY <1>2, <1>5
    <2>2. Slice(range, size) = <<first, size - 1>>
      BY <1>3, <1>5 DEF Slice
    <2> QED
      BY <1>3, <1>5, <2>1, <2>2 DEF Satisfiable, RequestedBytes, Open
  <1>6. ASSUME first # Open, last # Open
        PROVE  IF Satisfiable(range, size)
               THEN /\ Slice(range, size)[1]..Slice(range, size)[2] = RequestedBytes(range, size)
                    /\ Slice(range, size)[1] <= Slice(range, size)[2]
               ELSE RequestedBytes(range, size) = {}
    <2>1. first \in Nat /\ last \in Nat
      BY <1>2, <1>6
    <2>2. Slice(range, size) = <<first, IF last >= size THEN size - 1 ELSE last>>
      BY <1>3, <1>6 DEF Slice
    <2> QED
      BY <1>3, <1>6, <2>1, <2>2 DEF Satisfiable, RequestedBytes, Open
  <1> QED
    BY <1>4, <1>5, <1>6

LEMMA BodyLength ==
  ASSUME NEW body \in Body
  PROVE  Len(body) \in Nat
  <1>1. PICK size \in 0..MaxSize : body \in [1..size -> Letter]
    BY DEF Body
  <1>2. MaxSize \in Nat
    BY S3Assumption
  <1>3. body \in Seq(Letter)
    BY <1>1, <1>2, IsASeq
  <1> QED
    BY <1>3, LenProperties

LEMMA InvGet ==
  ASSUME GetInv
  PROVE  GetIsJustified
  <1> DEFINE content == reading.object.content
  <1> SUFFICES ASSUME reading.stage = "reading", NEW range \in Ranges \cup {<<>>}
               PROVE  LET answer == GetAnswer(range)
                      IN  /\ answer.status = "InternalError" =>
                               {} \in reading.seen \/ <<reading.name, content>> \in LostPayloads
                          /\ answer.status # "InternalError" => {content} \in reading.seen
                          /\ answer.status = "PartialContent" =>
                               /\ answer.part[1]..answer.part[2] = RequestedBytes(range, Len(content))
                               /\ answer.part[1] <= answer.part[2]
                          /\ answer.status = "InvalidRange" => RequestedBytes(range, Len(content)) = {}
    BY DEF GetIsJustified
  <1> DEFINE size == Len(content)
  <1>1. reading # NotReading
    BY DEF NotReading
  <1>2. reading \in Get
    BY <1>1 DEF GetInv
  <1>3. size \in Nat
    BY <1>2, BodyLength DEF Get, Object
  <1>4. {content} \in reading.seen /\ (~Readable => {} \in reading.seen \/ <<reading.name, content>> \in LostPayloads)
    BY <1>1 DEF GetInv, Readable
  <1>5. CASE ~Readable
    <2>1. GetAnswer(range).status = "InternalError"
      BY <1>5 DEF GetAnswer
    <2> HIDE DEF content
    <2> QED
      BY <1>4, <1>5, <2>1
  <1>6. CASE Readable /\ range = <<>>
    <2>1. GetAnswer(range).status = "OK"
      BY <1>6 DEF GetAnswer
    <2> QED
      BY <1>4, <2>1
  <1>7. CASE Readable /\ range # <<>>
    <2>1. GetAnswer(range) = IF Satisfiable(range, size)
                             THEN [status |-> "PartialContent", part |-> Slice(range, size)]
                             ELSE [status |-> "InvalidRange", part |-> <<>>]
      BY <1>7 DEF GetAnswer
    <2>2. range \in Ranges
      BY <1>7
    <2> HIDE DEF content
    <2> QED
      BY <1>3, <1>4, <2>1, <2>2, RangesServed
  <1> QED
    BY <1>5, <1>6, <1>7

(* A GET answers with what the name held at some moment since the GET      *)
(* began, or with the bytes of it that Range asks for, and fails only if   *)
(* the object was deleted meanwhile, or if its payload was deleted before  *)
(* the object was recorded.                                                *)
THEOREM S3Gets == RequestsSpec => []GetIsJustified
  <1>1. Init /\ RequestsInit => S3Inv /\ SafeInv /\ GetInv
    BY S3Init DEF RequestsInit, GetInv
  <1>2. S3Inv /\ SafeInv /\ GetInv /\ [RequestsNext]_requestVars => (S3Inv /\ SafeInv /\ GetInv)'
    BY RequestsStep
  <1>3. GetInv => GetIsJustified
    BY InvGet
  <1> QED
    BY <1>1, <1>2, <1>3, PTL DEF RequestsSpec

(* The adapter adds nothing to what the service does, and its reads leave  *)
(* the service alone: what is proved of the service's requests holds of    *)
(* the requests that the adapter dispatches.                               *)
THEOREM S3RequestsRefine == RequestsSpec => Spec
  <1>1. [RequestsNext]_requestVars => [Next]_vars
    <2>1. ReadRequest => UNCHANGED vars
      BY DEF ReadRequest, BeginGet, FinishGet
    <2>2. UNCHANGED requestVars => UNCHANGED vars
      BY DEF requestVars
    <2> QED
      BY <2>1, <2>2, RequestIsStep
  <1> QED
    BY <1>1, PTL DEF RequestsSpec, Spec

-----------------------------------------------------------------------------
(* Listings. *)
(* The order of strings.  At reads a string beyond its end as smaller than *)
(* any letter.                                                             *)
At(s, i) == IF i <= Len(s) THEN s[i] ELSE -1

LeadsAt(s, t, i) == (\A j \in 1..i - 1 : At(s, j) = At(t, j)) /\ At(s, i) < At(t, i)

LEMMA NatMinimum ==
  ASSUME NEW T \in SUBSET Nat, T # {}
  PROVE  \E x \in T : \A y \in T : x <= y
  <1>1. PICK x \in T : \A y \in T : ~ (<<y, x>> \in OpToRel(<, Nat))
    BY NatLessThanWellFounded, WFMin
  <1>2. \A y \in T : ~(y < x)
    BY <1>1 DEF OpToRel
  <1> QED
    BY <1>2

LEMMA Letters ==
  ASSUME NEW s \in Seq(Nat)
  PROVE  /\ Len(s) \in Nat /\ DOMAIN s = 1..Len(s) /\ \A i \in 1..Len(s) : s[i] \in Nat
         /\ \A i \in Nat : At(s, i) \in Int \/ i = 0
         /\ \A i \in Nat \ {0} : At(s, i) >= -1 /\ (At(s, i) >= 0 <=> i <= Len(s))
  <1>1. /\ Len(s) \in Nat /\ DOMAIN s = 1..Len(s) /\ \A i \in 1..Len(s) : s[i] \in Nat
    BY LenProperties, ElementOfSeq
  <1> QED
    BY <1>1 DEF At

LEMMA SameLetters ==
  ASSUME NEW s \in Seq(Nat), NEW t \in Seq(Nat), \A i \in Nat \ {0} : At(s, i) = At(t, i)
  PROVE  s = t
  <1>1. /\ Len(s) \in Nat /\ DOMAIN s = 1..Len(s)
        /\ Len(t) \in Nat /\ DOMAIN t = 1..Len(t)
        /\ s \in [1..Len(s) -> Nat] /\ t \in [1..Len(t) -> Nat]
        /\ \A i \in Nat \ {0} : (At(s, i) >= 0 <=> i <= Len(s)) /\ (At(t, i) >= 0 <=> i <= Len(t))
    BY Letters, LenProperties
  <1>2. Len(s) = Len(t)
    <2>1. Len(s) # 0 => Len(s) <= Len(t)
      BY <1>1
    <2>2. Len(t) # 0 => Len(t) <= Len(s)
      BY <1>1
    <2>3. Len(s) \in Nat /\ Len(t) \in Nat
      BY <1>1
    <2> QED
      BY <2>1, <2>2, <2>3
  <1>3. \A i \in 1..Len(s) : s[i] = t[i]
    BY <1>1, <1>2 DEF At
  <1> QED
    BY <1>1, <1>2, <1>3

LEMMA FirstLetters ==
  ASSUME NEW s \in Seq(Nat), NEW n \in 0..Len(s)
  PROVE  /\ SubSeq(s, 1, n) \in Seq(Nat) /\ Len(SubSeq(s, 1, n)) = n
         /\ \A i \in 1..n : SubSeq(s, 1, n)[i] = s[i]
  <1>1. Len(s) \in Nat /\ \A i \in 1..Len(s) : s[i] \in Nat
    BY Letters
  <1> QED
    BY <1>1, SubSeqProperties

LEMMA SameStart ==
  ASSUME NEW s \in Seq(Nat), NEW t \in Seq(Nat), NEW n \in Nat, n <= Len(s), n <= Len(t)
  PROVE  SubSeq(s, 1, n) = SubSeq(t, 1, n) <=> \A i \in 1..n : s[i] = t[i]
  <1> DEFINE u == SubSeq(s, 1, n)
             v == SubSeq(t, 1, n)
  <1>1. /\ u \in Seq(Nat) /\ Len(u) = n /\ \A i \in 1..n : u[i] = s[i]
        /\ v \in Seq(Nat) /\ Len(v) = n /\ \A i \in 1..n : v[i] = t[i]
    BY FirstLetters, Letters
  <1> HIDE DEF u, v
  <1>2. u \in [1..n -> Nat] /\ v \in [1..n -> Nat]
    BY <1>1, LenProperties
  <1>3. (\A i \in 1..n : u[i] = v[i]) => u = v
    BY <1>2
  <1> QED
    BY <1>1, <1>3 DEF u, v

LEMMA PrefixAt ==
  ASSUME NEW s \in Seq(Nat), NEW t \in Seq(Nat)
  PROVE  IsPrefix(s, t) <=> \A i \in 1..Len(s) : At(s, i) = At(t, i)
  <1>1. Len(s) \in Nat /\ Len(t) \in Nat
    BY Letters
  <1>2. ASSUME IsPrefix(s, t)
        PROVE  \A i \in 1..Len(s) : At(s, i) = At(t, i)
    <2>1. Len(s) <= Len(t) /\ \A i \in 1..Len(s) : s[i] = t[i]
      BY <1>1, <1>2, SameStart DEF IsPrefix
    <2> QED
      BY <1>1, <2>1 DEF At
  <1>3. ASSUME \A i \in 1..Len(s) : At(s, i) = At(t, i)
        PROVE  IsPrefix(s, t)
    <2>1. Len(s) <= Len(t)
      <3>1. CASE Len(s) = 0
        BY <1>1, <3>1
      <3>2. CASE Len(s) # 0
        <4>1. At(s, Len(s)) = At(t, Len(s))
          BY <1>1, <1>3, <3>2
        <4> QED
          BY <1>1, <3>2, <4>1, Letters
      <3> QED
        BY <3>1, <3>2
    <2>2. \A i \in 1..Len(s) : s[i] = t[i]
      BY <1>1, <1>3, <2>1 DEF At
    <2> QED
      BY <1>1, <2>1, <2>2, SameStart DEF IsPrefix
  <1> QED
    BY <1>2, <1>3

LEMMA BeforeAt ==
  ASSUME NEW s \in Seq(Nat), NEW t \in Seq(Nat)
  PROVE  Before(s, t) <=> \E i \in Nat \ {0} : LeadsAt(s, t, i)
  <1>1. /\ Len(s) \in Nat /\ DOMAIN s = 1..Len(s) /\ \A i \in 1..Len(s) : s[i] \in Nat
        /\ Len(t) \in Nat /\ DOMAIN t = 1..Len(t) /\ \A i \in 1..Len(t) : t[i] \in Nat
    BY Letters
  <1>2. ASSUME IsStrictPrefix(s, t)
        PROVE  \E i \in Nat \ {0} : LeadsAt(s, t, i)
    <2>1. \A i \in 1..Len(s) : At(s, i) = At(t, i)
      BY <1>2, PrefixAt DEF IsStrictPrefix
    <2>2. Len(s) <= Len(t) /\ s # t
      BY <1>2 DEF IsStrictPrefix, IsPrefix
    <2>3. Len(s) # Len(t)
      <3> SUFFICES ASSUME Len(s) = Len(t)
                   PROVE  FALSE
        OBVIOUS
      <3>1. \A i \in Nat \ {0} : At(s, i) = At(t, i)
        BY <1>1, <2>1 DEF At
      <3> QED
        BY <2>2, <3>1, SameLetters
    <2>4. Len(s) + 1 \in Nat \ {0} /\ Len(s) + 1 \in 1..Len(t) /\ (Len(s) + 1) - 1 = Len(s)
      <3>1. Len(s) \in Nat /\ Len(t) \in Nat
        BY <1>1
      <3> QED
        BY <2>2, <2>3, <3>1
    <2>5. At(s, Len(s) + 1) < At(t, Len(s) + 1)
      <3>1. At(s, Len(s) + 1) = -1
        BY <1>1 DEF At
      <3>2. At(t, Len(s) + 1) \in Nat
        BY <1>1, <2>4 DEF At
      <3> QED
        BY <3>1, <3>2
    <2>6. LeadsAt(s, t, Len(s) + 1)
      BY <2>1, <2>4, <2>5 DEF LeadsAt
    <2> QED
      BY <2>4, <2>6
  <1>3. ASSUME NEW i \in DOMAIN s \cap DOMAIN t, s[i] < t[i], SubSeq(s, 1, i - 1) = SubSeq(t, 1, i - 1)
        PROVE  LeadsAt(s, t, i)
    <2>1. i - 1 \in Nat /\ i - 1 <= Len(s) /\ i - 1 <= Len(t)
      BY <1>1
    <2>2. \A j \in 1..i - 1 : s[j] = t[j]
      BY <1>3, <2>1, SameStart
    <2> QED
      BY <1>1, <1>3, <2>1, <2>2 DEF LeadsAt, At
  <1>4. ASSUME NEW i \in Nat \ {0}, LeadsAt(s, t, i)
        PROVE  Before(s, t)
    <2>1. (\A j \in 1..i - 1 : At(s, j) = At(t, j)) /\ At(s, i) < At(t, i)
      BY <1>4 DEF LeadsAt
    <2>2. i <= Len(t)
      BY <1>1, <2>1 DEF At
    <2>3. CASE i <= Len(s)
      <3>1. s[i] < t[i] /\ \A j \in 1..i - 1 : s[j] = t[j]
        BY <1>1, <2>1, <2>2, <2>3 DEF At
      <3>2. i - 1 \in Nat /\ i - 1 <= Len(s) /\ i - 1 <= Len(t)
        BY <1>1, <2>2, <2>3
      <3>3. SubSeq(s, 1, i - 1) = SubSeq(t, 1, i - 1)
        BY <3>1, <3>2, SameStart
      <3>4. i \in DOMAIN s \cap DOMAIN t
        BY <1>1, <2>2, <2>3
      <3> QED
        BY <3>1, <3>3, <3>4 DEF Before
    <2>4. CASE i > Len(s)
      <3>1. i = Len(s) + 1
        <4> SUFFICES ASSUME Len(s) + 1 < i
                     PROVE  FALSE
          BY <1>1, <2>4
        <4>1. At(s, Len(s) + 1) = At(t, Len(s) + 1) /\ Len(s) + 1 <= Len(t)
          BY <1>1, <2>1, <2>2
        <4> QED
          BY <1>1, <4>1 DEF At
      <3>2. \A j \in 1..Len(s) : At(s, j) = At(t, j)
        BY <1>1, <2>1, <3>1
      <3>3. IsPrefix(s, t) /\ s # t
        BY <1>1, <2>2, <3>1, <3>2, PrefixAt
      <3> QED
        BY <3>3 DEF Before, IsStrictPrefix
    <2> QED
      BY <1>1, <2>3, <2>4
  <1> QED
    BY <1>1, <1>2, <1>3, <1>4 DEF Before

LEMMA BeforeIsOrder ==
  ASSUME NEW s \in Seq(Nat), NEW t \in Seq(Nat), NEW u \in Seq(Nat)
  PROVE  /\ ~Before(s, s)
         /\ Before(s, t) /\ Before(t, u) => Before(s, u)
         /\ s = t \/ Before(s, t) \/ Before(t, s)
  <1>0. \A i \in Nat \ {0} : At(s, i) \in Int /\ At(t, i) \in Int /\ At(u, i) \in Int
    BY Letters
  <1>1. ~Before(s, s)
    BY <1>0, BeforeAt DEF LeadsAt
  <1>2. ASSUME Before(s, t), Before(t, u)
        PROVE  Before(s, u)
    <2>1. PICK i \in Nat \ {0} : LeadsAt(s, t, i)
      BY <1>2, BeforeAt
    <2>2. PICK j \in Nat \ {0} : LeadsAt(t, u, j)
      BY <1>2, BeforeAt
    <2>3. CASE i <= j
      <3>1. \A l \in 1..i - 1 : At(s, l) = At(u, l)
        BY <2>1, <2>2, <2>3 DEF LeadsAt
      <3>2. At(s, i) < At(t, i)
        BY <2>1 DEF LeadsAt
      <3>3. At(t, i) <= At(u, i)
        <4>1. CASE i = j
          BY <1>0, <2>2, <4>1 DEF LeadsAt
        <4>2. CASE i # j
          BY <1>0, <2>2, <2>3, <4>2 DEF LeadsAt
        <4> QED
          BY <4>1, <4>2
      <3>4. LeadsAt(s, u, i)
        BY <1>0, <3>1, <3>2, <3>3 DEF LeadsAt
      <3> QED
        BY <3>4, BeforeAt
    <2>4. CASE j < i
      <3>1. LeadsAt(s, u, j)
        BY <1>0, <2>1, <2>2, <2>4 DEF LeadsAt
      <3> QED
        BY <3>1, BeforeAt
    <2> QED
      BY <2>3, <2>4
  <1>3. ASSUME s # t
        PROVE  Before(s, t) \/ Before(t, s)
    <2> DEFINE differ == {i \in Nat \ {0} : At(s, i) # At(t, i)}
    <2>1. differ # {}
      BY <1>3, SameLetters
    <2>2. PICK i \in differ : \A j \in differ : i <= j
      BY <2>1, NatMinimum
    <2>3. \A j \in 1..i - 1 : At(s, j) = At(t, j)
      BY <2>2
    <2>4. LeadsAt(s, t, i) \/ LeadsAt(t, s, i)
      BY <1>0, <2>2, <2>3 DEF LeadsAt
    <2> QED
      BY <2>2, <2>4, BeforeAt
  <1> QED
    BY <1>1, <1>2, <1>3

(* What a key is listed as. *)
Cut(key, prefix, d) ==
  /\ d \in 1..Len(key) /\ d > Len(prefix) /\ key[d] = Delimiter
  /\ \A j \in 1..d - 1 : j > Len(prefix) => key[j] # Delimiter

LEMMA EntryOf ==
  ASSUME NEW key \in Seq(Nat), NEW prefix \in Seq(Nat), NEW delimited \in BOOLEAN
  PROVE  \/ /\ Entry(key, prefix, delimited) = key
            /\ ~delimited \/ \A d \in 1..Len(key) : d > Len(prefix) => key[d] # Delimiter
         \/ /\ delimited
            /\ \E d \in 1..Len(key) :
                 Cut(key, prefix, d) /\ Entry(key, prefix, delimited) = SubSeq(key, 1, d)
  <1> DEFINE ds == Delimiters(key, prefix)
  <1>1. DOMAIN key = 1..Len(key) /\ Len(key) \in Nat
    BY Letters
  <1>2. ds = {d \in 1..Len(key) : d > Len(prefix) /\ key[d] = Delimiter}
    BY <1>1 DEF Delimiters
  <1>3. CASE ~delimited \/ ds = {}
    <2>1. Entry(key, prefix, delimited) = key
      BY <1>3 DEF Entry
    <2> QED
      BY <1>2, <1>3, <2>1
  <1>4. CASE delimited /\ ds # {}
    <2>1. ds \subseteq Nat
      BY <1>1, <1>2
    <2> DEFINE first == CHOOSE i \in ds : \A j \in ds : i <= j
    <2>2. first \in ds /\ \A j \in ds : first <= j
      BY <1>4, <2>1, NatMinimum
    <2>3. Entry(key, prefix, delimited) = SubSeq(key, 1, first)
      BY <1>4 DEF Entry
    <2> HIDE DEF first
    <2>4. first \in 1..Len(key) /\ first > Len(prefix) /\ key[first] = Delimiter
      BY <1>2, <2>2
    <2>5. ASSUME NEW j \in 1..first - 1, j > Len(prefix)
          PROVE  key[j] # Delimiter
      <3>1. j \in 1..Len(key) /\ ~(first <= j)
        BY <1>1, <2>4, <2>5
      <3> QED
        BY <1>2, <2>2, <2>5, <3>1
    <2>6. Cut(key, prefix, first)
      BY <2>4, <2>5 DEF Cut
    <2> QED
      BY <1>4, <2>3, <2>4, <2>6
  <1> QED
    BY <1>3, <1>4

LEMMA CutOnce ==
  ASSUME NEW key \in Seq(Nat), NEW prefix \in Seq(Nat), NEW d, Cut(key, prefix, d)
  PROVE  Entry(key, prefix, TRUE) = SubSeq(key, 1, d)
  <1>1. PICK e \in 1..Len(key) : Cut(key, prefix, e) /\ Entry(key, prefix, TRUE) = SubSeq(key, 1, e)
    BY EntryOf DEF Cut
  <1>2. Len(key) \in Nat
    BY Letters
  <1>3. e = d
    BY <1>1, <1>2 DEF Cut
  <1> QED
    BY <1>1, <1>3

(* Different keys are listed as one only by a common prefix.               *)
SharedCut(s, t, prefix, d) ==
  /\ Cut(s, prefix, d) /\ Cut(t, prefix, d)
  /\ \A i \in 1..d : s[i] = t[i]

LEMMA SharedEntry ==
  ASSUME NEW s \in Seq(Nat), NEW t \in Seq(Nat), NEW prefix \in Seq(Nat), NEW delimited \in BOOLEAN,
         s # t, Entry(s, prefix, delimited) = Entry(t, prefix, delimited)
  PROVE  /\ delimited /\ Last(Entry(s, prefix, delimited)) = Delimiter
         /\ \E d \in 1..Len(s) :
              SharedCut(s, t, prefix, d) /\ Entry(s, prefix, delimited) = SubSeq(s, 1, d)
  <1>1. Len(s) \in Nat /\ Len(t) \in Nat /\ Len(prefix) \in Nat
    BY Letters
  <1>2. ASSUME NEW u \in Seq(Nat), NEW v \in Seq(Nat), NEW d \in 1..Len(u), Cut(u, prefix, d),
               v = SubSeq(u, 1, d)
        PROVE  d \in 1..Len(v) /\ d > Len(prefix) /\ v[d] = Delimiter
    <2>1. Len(u) \in Nat
      BY Letters
    <2>2. Len(v) = d /\ v[d] = u[d]
      BY <1>2, <2>1, FirstLetters
    <2> QED
      BY <1>2, <2>2 DEF Cut
  <1>3. delimited
    BY EntryOf
  <1>4. PICK d \in 1..Len(s) : Cut(s, prefix, d) /\ Entry(s, prefix, delimited) = SubSeq(s, 1, d)
    <2> SUFFICES ASSUME Entry(s, prefix, delimited) = s,
                        \A i \in 1..Len(s) : i > Len(prefix) => s[i] # Delimiter
                 PROVE  FALSE
      BY <1>3, EntryOf
    <2>1. Entry(t, prefix, delimited) = s /\ Entry(t, prefix, delimited) # t
      OBVIOUS
    <2>2. \E d \in 1..Len(t) : Cut(t, prefix, d) /\ Entry(t, prefix, delimited) = SubSeq(t, 1, d)
      BY <2>1, EntryOf
    <2>3. PICK d \in 1..Len(t) : Cut(t, prefix, d) /\ s = SubSeq(t, 1, d)
      BY <2>1, <2>2
    <2> QED
      BY <1>2, <2>3
  <1>5. PICK e \in 1..Len(t) : Cut(t, prefix, e) /\ Entry(t, prefix, delimited) = SubSeq(t, 1, e)
    <2> SUFFICES ASSUME Entry(t, prefix, delimited) = t,
                        \A i \in 1..Len(t) : i > Len(prefix) => t[i] # Delimiter
                 PROVE  FALSE
      BY <1>3, EntryOf
    <2> QED
      BY <1>2, <1>4
  <1>6. /\ Len(SubSeq(s, 1, d)) = d /\ \A i \in 1..d : SubSeq(s, 1, d)[i] = s[i]
        /\ Len(SubSeq(t, 1, e)) = e /\ \A i \in 1..e : SubSeq(t, 1, e)[i] = t[i]
    BY <1>1, FirstLetters
  <1>7. d = e
    BY <1>4, <1>5, <1>6
  <1>8. \A i \in 1..d : s[i] = t[i]
    BY <1>4, <1>5, <1>6, <1>7
  <1>9. Last(Entry(s, prefix, delimited)) = Delimiter
    BY <1>4, <1>6 DEF Last, Cut
  <1> QED
    BY <1>3, <1>4, <1>5, <1>7, <1>8, <1>9 DEF SharedCut

(* A common prefix has no other entry between two of its keys.             *)
LEMMA EntryIsContiguous ==
  ASSUME NEW s \in Seq(Nat), NEW t \in Seq(Nat), NEW u \in Seq(Nat),
         NEW prefix \in Seq(Nat), NEW delimited \in BOOLEAN,
         Before(s, t), Before(t, u), Entry(s, prefix, delimited) = Entry(u, prefix, delimited)
  PROVE  Entry(t, prefix, delimited) = Entry(s, prefix, delimited)
  <1>1. s # u
    BY BeforeIsOrder
  <1>2. /\ delimited
        /\ \E d \in 1..Len(s) : SharedCut(s, u, prefix, d) /\ Entry(s, prefix, delimited) = SubSeq(s, 1, d)
    BY <1>1, SharedEntry
  <1>3. PICK d \in 1..Len(s) : /\ Cut(s, prefix, d) /\ Cut(u, prefix, d)
                               /\ Entry(s, prefix, delimited) = SubSeq(s, 1, d)
                               /\ \A l \in 1..d : s[l] = u[l]
    BY <1>2 DEF SharedCut
  <1>4. PICK i \in Nat \ {0} : LeadsAt(s, t, i)
    BY BeforeAt
  <1>5. PICK j \in Nat \ {0} : LeadsAt(t, u, j)
    BY BeforeAt
  <1>6. /\ d \in Nat \ {0} /\ d <= Len(s) /\ d <= Len(u)
        /\ \A l \in Nat \ {0} : At(s, l) \in Int /\ At(t, l) \in Int /\ At(u, l) \in Int
    <2>1. Len(s) \in Nat /\ Len(u) \in Nat
      BY Letters
    <2>2. d <= Len(s) /\ d <= Len(u) /\ d \in Nat \ {0}
      BY <1>3, <2>1 DEF Cut
    <2>3. \A l \in Nat \ {0} : At(s, l) \in Int /\ At(t, l) \in Int /\ At(u, l) \in Int
      BY Letters
    <2> QED
      BY <2>2, <2>3
  <1>7. \A l \in 1..d : At(s, l) = At(u, l)
    <2>1. Len(s) \in Nat /\ Len(u) \in Nat
      BY Letters
    <2> QED
      BY <1>3, <1>6, <2>1 DEF At
  <1>8. i > d
    <2> SUFFICES ASSUME i <= d
                 PROVE  FALSE
      BY <1>6
    <2>1. At(s, i) < At(t, i) /\ At(s, i) = At(u, i)
      BY <1>4, <1>6, <1>7 DEF LeadsAt
    <2>2. CASE j < i
      <3>1. j \in 1..i - 1 /\ j \in 1..d
        BY <1>6, <2>2
      <3>2. At(s, j) = At(t, j) /\ At(s, j) = At(u, j)
        BY <1>4, <1>7, <3>1 DEF LeadsAt
      <3> QED
        BY <1>5, <1>6, <3>2 DEF LeadsAt
    <2>3. CASE j = i
      BY <1>5, <1>6, <2>1, <2>3 DEF LeadsAt
    <2>4. CASE i < j
      BY <1>5, <1>6, <2>1, <2>4 DEF LeadsAt
    <2> QED
      BY <2>2, <2>3, <2>4
  <1>9. \A l \in 1..d : At(s, l) = At(t, l)
    BY <1>4, <1>6, <1>8 DEF LeadsAt
  <1>10. d <= Len(t)
    BY <1>6, <1>9, Letters
  <1>11. \A l \in 1..d : s[l] = t[l]
    BY <1>6, <1>9, <1>10 DEF At
  <1>12. Cut(t, prefix, d)
    <2>1. d \in 1..Len(t) /\ \A l \in 1..d - 1 : l \in 1..d
      BY <1>6, <1>10, Letters
    <2>2. d \in 1..d
      BY <1>6
    <2> QED
      BY <1>3, <1>11, <2>1, <2>2 DEF Cut
  <1>13. SubSeq(t, 1, d) = SubSeq(s, 1, d)
    BY <1>6, <1>10, <1>11, SameStart
  <1> QED
    BY <1>2, <1>3, <1>12, <1>13, CutOnce

LEMMA EntryType ==
  ASSUME NEW key \in Seq(Nat), NEW prefix \in Seq(Nat), NEW delimited \in BOOLEAN
  PROVE  Entry(key, prefix, delimited) \in Seq(Nat)
  <1>1. ASSUME NEW d \in 1..Len(key)
        PROVE  SubSeq(key, 1, d) \in Seq(Nat)
    <2>1. d \in 0..Len(key)
      BY <1>1, Letters
    <2> QED
      BY <2>1, FirstLetters
  <1>2. \/ Entry(key, prefix, delimited) = key
        \/ \E d \in 1..Len(key) : Entry(key, prefix, delimited) = SubSeq(key, 1, d)
    BY EntryOf
  <1> QED
    BY <1>1, <1>2

-----------------------------------------------------------------------------
(* Pages. *)
LEMMA LastKey ==
  ASSUME NEW page \in SUBSET Seq(Nat), IsFiniteSet(page), page # {}
  PROVE  \E key \in page : \A other \in page : other = key \/ Before(other, key)
  <1> DEFINE Above(key) == {other \in page : Before(key, other)}
             above == {Above(key) : key \in page}
  <1>1. above \subseteq FiniteSubsetsOf(page) /\ above # {}
    <2>1. \A key \in page : Above(key) \in SUBSET page
      OBVIOUS
    <2>2. \A key \in page : IsFiniteSet(Above(key))
      BY <2>1, FS_Subset
    <2> QED
      BY <2>1, <2>2 DEF FiniteSubsetsOf
  <1>2. PICK least \in above : \A set \in above : ~(<<set, least>> \in StrictSubsetOrdering(page))
    BY <1>1, FS_StrictSubsetOrderingWellFounded, WFMin
  <1>3. PICK key \in page : least = Above(key)
    BY <1>2
  <1>4. ASSUME NEW other \in page, Before(key, other)
        PROVE  FALSE
    <2>1. Above(other) \subseteq Above(key)
      BY <1>4, BeforeIsOrder
    <2>2. other \in Above(key) /\ other \notin Above(other)
      BY <1>4, BeforeIsOrder
    <2>3. Above(other) \in above /\ Above(other) \in SUBSET page /\ Above(key) \in SUBSET page
      OBVIOUS
    <2> HIDE DEF Above, above
    <2> QED
      BY <1>2, <1>3, <2>1, <2>2, <2>3 DEF StrictSubsetOrdering
  <1> QED
    BY <1>4, BeforeIsOrder

LEMMA EarlierIsFinite ==
  ASSUME NEW candidates, IsFiniteSet(candidates), NEW key, NEW prefix, NEW delimited
  PROVE  IsFiniteSet(EarlierEntries(candidates, key, prefix, delimited))
  <1> DEFINE earlier == {o \in candidates : Before(o, key)}
             entries == {Entry(other, prefix, delimited) : other \in earlier}
             f == [other \in earlier |-> Entry(other, prefix, delimited)]
  <1>1. IsFiniteSet(earlier)
    BY FS_Subset
  <1>2. f \in Surjection(earlier, entries)
    BY DEF Surjection
  <1>3. IsFiniteSet(entries)
    BY <1>1, <1>2, FS_Surjection DEF ExistsSurjection
  <1> QED
    BY <1>3, FS_Subset DEF EarlierEntries

(* A page is the candidates up to some key, and all of an entry or none.   *)
LEMMA PageIsInitial ==
  ASSUME NEW candidates \in SUBSET Seq(Nat), IsFiniteSet(candidates), NEW prefix \in Seq(Nat),
         NEW delimited \in BOOLEAN, NEW max \in Nat,
         NEW key \in PageOf(candidates, prefix, delimited, max), NEW other \in candidates,
         \/ Before(other, key)
         \/ Before(key, other) /\ Entry(other, prefix, delimited) = Entry(key, prefix, delimited)
  PROVE  other \in PageOf(candidates, prefix, delimited, max)
  <1> DEFINE Earlier(k) == EarlierEntries(candidates, k, prefix, delimited)
             EntryAs(k) == Entry(k, prefix, delimited)
  <1>1. key \in candidates /\ Cardinality(Earlier(key)) < max
    BY DEF PageOf
  <1>2. ASSUME NEW k \in candidates, NEW e
        PROVE  e \in Earlier(k) <=> e # EntryAs(k) /\ \E o \in candidates : Before(o, k) /\ e = EntryAs(o)
    BY DEF EarlierEntries
  <1> HIDE DEF Earlier
  <1>3. ASSUME NEW e \in Earlier(other)
        PROVE  e \in Earlier(key)
    <2>1. PICK o \in candidates : Before(o, other) /\ e = EntryAs(o)
      BY <1>2, <1>3
    <2>2. e # EntryAs(other)
      BY <1>2, <1>3
    <2>3. CASE Before(other, key)
      <3>1. Before(o, key)
        BY <1>1, <2>1, <2>3, BeforeIsOrder
      <3>2. e # EntryAs(key)
        BY <1>1, <2>1, <2>2, <2>3, EntryIsContiguous
      <3> QED
        BY <1>1, <1>2, <2>1, <3>1, <3>2
    <2>4. CASE Before(key, other) /\ EntryAs(other) = EntryAs(key)
      <3>1. o # key
        BY <2>1, <2>2, <2>4
      <3>2. ~Before(key, o)
        BY <1>1, <2>1, <2>2, <2>4, EntryIsContiguous
      <3>3. Before(o, key)
        BY <1>1, <3>1, <3>2, BeforeIsOrder
      <3> QED
        BY <1>1, <1>2, <2>1, <2>2, <2>4, <3>3
    <2> QED
      BY <2>3, <2>4
  <1>4. IsFiniteSet(Earlier(key)) /\ IsFiniteSet(Earlier(other))
    BY EarlierIsFinite DEF Earlier
  <1>5. Cardinality(Earlier(other)) <= Cardinality(Earlier(key))
    BY <1>3, <1>4, FS_Subset
  <1>6. Cardinality(Earlier(key)) \in Nat /\ Cardinality(Earlier(other)) \in Nat
    BY <1>4, FS_CardinalityType
  <1>7. Cardinality(Earlier(other)) < max
    BY <1>1, <1>5, <1>6
  <1> QED
    BY <1>7 DEF PageOf, Earlier

LEMMA MarkerOf ==
  ASSUME NEW page \in SUBSET Seq(Nat), IsFiniteSet(page), page # {}, NEW prefix, NEW delimited
  PROVE  LET marker == NextMarker(page, prefix, delimited)
         IN  marker \in page /\ \A other \in page : other = marker \/ Before(other, marker)
  BY LastKey DEF NextMarker

-----------------------------------------------------------------------------
(* A listing stands at a key: what comes before has been returned.         *)
Listing ==
  [stage : {"pages", "done"}, prefix : Seq(Nat), delimited : BOOLEAN, max : Nat, startAfter : Seq(Nat),
   listed : SUBSET Seq(Nat), repeated : SUBSET Seq(Nat), stable : SUBSET Keys, was : SUBSET Keys]

EntryIn(l, key) == Entry(key, l.prefix, l.delimited)

ReturnedSoFar(l) ==
  /\ \A k \in l.stable :
       IsPrefix(l.prefix, k) /\ (l.stage = "done" \/ ~Before(l.startAfter, k)) => EntryIn(l, k) \in l.listed
  /\ \A e \in l.listed :
       \E k \in l.was : IsPrefix(l.prefix, k) /\ ~Before(l.startAfter, k) /\ e = EntryIn(l, k)

RepeatedSoFar(l) ==
  /\ l.stable = l.was => l.repeated = {}
  /\ \A e \in l.repeated : l.delimited /\ Last(e) = Delimiter

(* Without changes no entry is half returned. *)
NoneAhead(l) ==
  l.stable = l.was =>
    \A k \in l.was : IsPrefix(l.prefix, k) /\ Before(l.startAfter, k) => EntryIn(l, k) \notin l.listed

ListingInv ==
  /\ present \in SUBSET Keys /\ IsFiniteSet(present)
  /\ listing # NoListing =>
       listing \in Listing /\ listing.stable \subseteq listing.was /\ ReturnedSoFar(listing) /\ RepeatedSoFar(listing)
  /\ listing.stage = "pages" =>
       listing.stable \subseteq present /\ present \subseteq listing.was /\ NoneAhead(listing)

LEMMA KeysAreStrings ==
  ASSUME NEW k \in Keys
  PROVE  k \in Seq(Nat) /\ Before(<<>>, k)
  <1>1. k \in Seq(Nat) /\ k # <<>> /\ <<>> \in Seq(Nat) /\ Len(<<>>) = 0
    BY ListingAssumption
  <1>2. \A i \in 1..Len(<<>>) : At(<<>>, i) = At(k, i)
    BY <1>1
  <1>3. IsPrefix(<<>>, k)
    BY <1>1, <1>2, PrefixAt
  <1> QED
    BY <1>1, <1>3 DEF Before, IsStrictPrefix

LEMMA StartListingStep ==
  ASSUME ListingInv, NEW prefix \in ListPrefixes, NEW delimited \in BOOLEAN, NEW max \in PageSizes,
         StartListing(prefix, delimited, max)
  PROVE  ListingInv'
  <1>1. /\ present' = present
        /\ listing' = [stage |-> "pages", prefix |-> prefix, delimited |-> delimited, max |-> max,
                       startAfter |-> <<>>, listed |-> {}, repeated |-> {}, stable |-> present, was |-> present]
    BY DEF StartListing
  <1>2. prefix \in Seq(Nat) /\ max \in Nat /\ <<>> \in Seq(Nat) /\ present \in SUBSET Keys
    BY ListingAssumption DEF ListingInv
  <1>3. listing' \in Listing
    BY <1>1, <1>2 DEF Listing
  <1>4. /\ listing'.stage = "pages" /\ listing'.startAfter = <<>> /\ listing'.listed = {}
        /\ listing'.repeated = {} /\ listing'.stable = present /\ listing'.was = present
    BY <1>1
  <1>5. ReturnedSoFar(listing') /\ RepeatedSoFar(listing') /\ NoneAhead(listing')
    BY <1>2, <1>4, KeysAreStrings DEF ReturnedSoFar, RepeatedSoFar, NoneAhead
  <1> QED
    BY <1>1, <1>3, <1>4, <1>5 DEF ListingInv

(* Objects that come or go leave what a listing has returned.              *)
LEMMA ChangeKeysStep ==
  ASSUME ListingInv, NEW keys \in SUBSET Keys, IsFiniteSet(keys), ChangeKeys(keys)
  PROVE  ListingInv'
  <1>1. CASE listing.stage # "pages"
    BY <1>1 DEF ChangeKeys, ListingInv
  <1>2. CASE listing.stage = "pages"
    <2> DEFINE stable == listing.stable \cap keys
               was == listing.was \cup keys
    <2>1. present' = keys /\ listing' = [listing EXCEPT !.stable = stable, !.was = was]
      BY <1>2 DEF ChangeKeys
    <2>2. /\ listing \in Listing /\ listing.stable \subseteq present /\ present \subseteq listing.was
          /\ ReturnedSoFar(listing) /\ RepeatedSoFar(listing) /\ NoneAhead(listing)
      BY <1>2 DEF ListingInv, NoListing
    <2>3. stable \subseteq listing.stable /\ stable \subseteq keys /\ listing.was \subseteq was /\ keys \subseteq was
          /\ stable \in SUBSET Keys /\ was \in SUBSET Keys
          /\ (stable = was => listing.stable = listing.was /\ was = listing.was)
      BY <2>2 DEF Listing
    <2> HIDE DEF stable, was
    <2>4. /\ listing' \in Listing /\ listing'.stable = stable /\ listing'.was = was
          /\ listing'.stage = listing.stage /\ listing'.prefix = listing.prefix
          /\ listing'.delimited = listing.delimited /\ listing'.startAfter = listing.startAfter
          /\ listing'.listed = listing.listed /\ listing'.repeated = listing.repeated
      BY <2>1, <2>2, <2>3 DEF Listing
    <2>5. ReturnedSoFar(listing')
      BY <2>2, <2>3, <2>4 DEF ReturnedSoFar, EntryIn
    <2>6. RepeatedSoFar(listing')
      BY <2>2, <2>3, <2>4 DEF RepeatedSoFar
    <2>7. NoneAhead(listing')
      BY <2>2, <2>3, <2>4 DEF NoneAhead, EntryIn
    <2>8. listing'.stable \subseteq listing'.was
      BY <2>3, <2>4
    <2> QED
      BY <2>1, <2>3, <2>4, <2>5, <2>6, <2>7, <2>8 DEF ListingInv
  <1> QED
    BY <1>1, <1>2

(* What a page returns, and where the listing stands then.                 *)
PageTaken(candidates, page, marker) ==
  LET entries == {EntryIn(listing, key) : key \in page}
  IN  /\ listing' = [listing EXCEPT
           !.stage = IF page = candidates THEN "done" ELSE "pages",
           !.startAfter = marker,
           !.listed = listing.listed \cup entries,
           !.repeated = listing.repeated \cup (entries \cap listing.listed)]
      /\ marker = listing.startAfter \/ Before(listing.startAfter, marker)
      /\ \A key \in page : ~Before(marker, key)
      /\ \A key \in candidates \ page : Before(marker, key)
      /\ \A key \in page, other \in candidates \ page : EntryIn(listing, key) # EntryIn(listing, other)

LEMMA PageEffect ==
  ASSUME ListingInv, ListPage
  PROVE  \E page \in SUBSET Candidates(listing.prefix, listing.startAfter), marker \in Seq(Nat) :
           PageTaken(Candidates(listing.prefix, listing.startAfter), page, marker)
  <1> DEFINE candidates == Candidates(listing.prefix, listing.startAfter)
             page == PageOf(candidates, listing.prefix, listing.delimited, listing.max)
             entries == {EntryIn(listing, key) : key \in page}
             marker == IF page = {} THEN listing.startAfter
                       ELSE NextMarker(page, listing.prefix, listing.delimited)
  <1>1. listing.stage = "pages" /\ listing' = [listing EXCEPT
          !.stage = IF page = candidates THEN "done" ELSE "pages",
          !.startAfter = marker,
          !.listed = listing.listed \cup entries,
          !.repeated = listing.repeated \cup (entries \cap listing.listed)]
    BY DEF ListPage, EntryIn
  <1>2. listing \in Listing /\ present \in SUBSET Keys /\ IsFiniteSet(present)
    BY <1>1 DEF ListingInv, NoListing
  <1>3. candidates \in SUBSET present /\ \A key \in candidates : Before(listing.startAfter, key)
    BY DEF Candidates
  <1>4. candidates \in SUBSET Seq(Nat) /\ IsFiniteSet(candidates)
    BY <1>2, <1>3, FS_Subset, KeysAreStrings
  <1>5. /\ listing.prefix \in Seq(Nat) /\ listing.delimited \in BOOLEAN /\ listing.max \in Nat
        /\ listing.startAfter \in Seq(Nat)
    BY <1>2 DEF Listing
  <1>6. page \in SUBSET candidates /\ IsFiniteSet(page)
    BY <1>4, FS_Subset DEF PageOf
  <1> HIDE DEF candidates
  <1>7. ASSUME NEW key \in page, NEW other \in candidates \ page
        PROVE  Before(key, other) /\ EntryIn(listing, key) # EntryIn(listing, other)
    <2>1. ~Before(other, key)
      BY <1>4, <1>5, PageIsInitial
    <2>2. key # other /\ key \in Seq(Nat) /\ other \in Seq(Nat)
      BY <1>4, <1>6
    <2>3. Before(key, other)
      BY <2>1, <2>2, BeforeIsOrder
    <2>4. Entry(other, listing.prefix, listing.delimited) # Entry(key, listing.prefix, listing.delimited)
      BY <1>4, <1>5, <2>3, PageIsInitial
    <2> QED
      BY <2>3, <2>4 DEF EntryIn
  <1> HIDE DEF page
  <1>8. /\ marker \in Seq(Nat)
        /\ marker = listing.startAfter \/ Before(listing.startAfter, marker)
        /\ \A key \in page : ~Before(marker, key)
        /\ \A key \in candidates \ page : Before(marker, key)
    <2>1. CASE page = {}
      BY <1>3, <1>5, <2>1
    <2>2. CASE page # {}
      <3>1. marker \in page /\ \A other \in page : other = marker \/ Before(other, marker)
        BY <1>4, <1>6, <2>2, MarkerOf
      <3>2. marker \in Seq(Nat) /\ Before(listing.startAfter, marker) /\ \A key \in page : key \in Seq(Nat)
        BY <1>3, <1>4, <1>6, <3>1
      <3> HIDE DEF marker
      <3>3. \A key \in page : ~Before(marker, key)
        BY <3>1, <3>2, BeforeIsOrder
      <3>4. \A key \in candidates \ page : Before(marker, key)
        BY <1>7, <3>1
      <3> QED
        BY <3>2, <3>3, <3>4
    <2> QED
      BY <2>1, <2>2
  <1> HIDE DEF marker
  <1> QED
    <2>1. PageTaken(candidates, page, marker)
      BY <1>1, <1>7, <1>8 DEF PageTaken
    <2>2. page \in SUBSET candidates /\ marker \in Seq(Nat)
      BY <1>6, <1>8
    <2>3. candidates = Candidates(listing.prefix, listing.startAfter)
      BY DEF candidates
    <2>4. \E p \in SUBSET candidates, m \in Seq(Nat) : PageTaken(candidates, p, m)
      BY <2>1, <2>2
    <2> QED
      BY <2>3, <2>4

LEMMA ListPageStep ==
  ASSUME ListingInv, ListPage
  PROVE  ListingInv'
  <1> DEFINE l == listing
             candidates == Candidates(l.prefix, l.startAfter)
  <1>1. /\ listing.stage = "pages" /\ present' = present
        /\ present \in SUBSET Keys /\ IsFiniteSet(present)
        /\ l \in Listing /\ l.stable \subseteq present /\ present \subseteq l.was
        /\ ReturnedSoFar(l) /\ RepeatedSoFar(l) /\ NoneAhead(l)
    BY DEF ListPage, ListingInv, NoListing
  <1>2. PICK page \in SUBSET candidates, marker \in Seq(Nat) : PageTaken(candidates, page, marker)
    BY PageEffect
  <1>3. \A k : k \in candidates <=> k \in present /\ IsPrefix(l.prefix, k) /\ Before(l.startAfter, k)
    BY DEF Candidates
  <1> DEFINE entries == {EntryIn(l, key) : key \in page}
             stage == IF page = candidates THEN "done" ELSE "pages"
  <1> HIDE DEF candidates
  <1>4. /\ l.prefix \in Seq(Nat) /\ l.delimited \in BOOLEAN /\ l.startAfter \in Seq(Nat)
        /\ l.was \in SUBSET Keys /\ l.listed \in SUBSET Seq(Nat) /\ l.repeated \in SUBSET Seq(Nat)
        /\ \A k \in Keys : k \in Seq(Nat)
    BY <1>1, KeysAreStrings DEF Listing
  <1>5. page \subseteq present /\ \A k \in page : k \in Seq(Nat) /\ k \in l.was /\ k \in Keys
    BY <1>1, <1>2, <1>3, <1>4
  <1>6. /\ marker = l.startAfter \/ Before(l.startAfter, marker)
        /\ \A key \in page : ~Before(marker, key)
        /\ \A key \in candidates \ page : Before(marker, key)
        /\ \A key \in page, other \in candidates \ page : EntryIn(l, key) # EntryIn(l, other)
    BY <1>2 DEF PageTaken
  <1>7. entries \in SUBSET Seq(Nat)
    BY <1>4, <1>5, EntryType DEF EntryIn
  <1>8. \A e : e \in entries <=> \E k \in page : e = EntryIn(l, k)
    OBVIOUS
  <1>9. listing' = [l EXCEPT !.stage = stage, !.startAfter = marker, !.listed = l.listed \cup entries,
                             !.repeated = l.repeated \cup (entries \cap l.listed)]
    BY <1>2 DEF PageTaken
  <1>10. stage \in {"pages", "done"} /\ (stage = "done" <=> page = candidates)
    OBVIOUS
  <1> HIDE DEF entries, stage
  <1>11. /\ listing' \in Listing /\ listing'.stage = stage /\ listing'.startAfter = marker
         /\ listing'.listed = l.listed \cup entries /\ listing'.repeated = l.repeated \cup (entries \cap l.listed)
         /\ listing'.stable = l.stable /\ listing'.was = l.was
         /\ listing'.prefix = l.prefix /\ listing'.delimited = l.delimited
    BY <1>1, <1>4, <1>7, <1>9, <1>10 DEF Listing
  <1> HIDE DEF l
  <1>12. \A k : EntryIn(listing', k) = EntryIn(l, k)
    BY <1>11 DEF EntryIn
  <1>13. \A k \in Keys : Before(marker, k) => Before(l.startAfter, k)
    BY <1>2, <1>4, <1>6, BeforeIsOrder
  <1>14. ReturnedSoFar(listing')
    <2>1. ASSUME NEW k \in l.stable, IsPrefix(l.prefix, k), stage = "done" \/ ~Before(marker, k)
          PROVE  EntryIn(l, k) \in l.listed \cup entries
      <3>1. CASE ~Before(l.startAfter, k)
        BY <1>1, <2>1, <3>1 DEF ReturnedSoFar
      <3>2. CASE Before(l.startAfter, k)
        <4>1. k \in candidates
          BY <1>1, <1>3, <2>1, <3>2
        <4>2. k \in page
          BY <1>6, <1>10, <2>1, <4>1
        <4> QED
          BY <1>8, <4>2
      <3> QED
        BY <3>1, <3>2
    <2>2. ASSUME NEW e \in l.listed
          PROVE  \E k \in l.was : IsPrefix(l.prefix, k) /\ ~Before(marker, k) /\ e = EntryIn(l, k)
      <3>1. PICK k \in l.was : IsPrefix(l.prefix, k) /\ ~Before(l.startAfter, k) /\ e = EntryIn(l, k)
        BY <1>1 DEF ReturnedSoFar
      <3> QED
        BY <1>4, <1>13, <3>1
    <2>3. ASSUME NEW e \in entries
          PROVE  \E k \in l.was : IsPrefix(l.prefix, k) /\ ~Before(marker, k) /\ e = EntryIn(l, k)
      <3>1. PICK k \in page : e = EntryIn(l, k)
        BY <1>8
      <3> QED
        BY <1>2, <1>3, <1>5, <1>6, <3>1
    <2> QED
      BY <1>11, <1>12, <2>1, <2>2, <2>3 DEF ReturnedSoFar
  <1>15. RepeatedSoFar(listing')
    <2>1. ASSUME l.stable = l.was
          PROVE  entries \cap l.listed = {}
      <3> SUFFICES ASSUME NEW k \in page, EntryIn(l, k) \in l.listed
                   PROVE  FALSE
        BY <1>8
      <3>1. k \in l.was /\ IsPrefix(l.prefix, k) /\ Before(l.startAfter, k)
        BY <1>2, <1>3, <1>5
      <3> QED
        BY <1>1, <2>1, <3>1 DEF NoneAhead
    <2>2. ASSUME NEW e \in entries \cap l.listed
          PROVE  l.delimited /\ Last(e) = Delimiter
      <3>1. PICK k \in page : e = EntryIn(l, k)
        BY <1>8
      <3>2. PICK j \in l.was : ~Before(l.startAfter, j) /\ e = EntryIn(l, j)
        BY <1>1 DEF ReturnedSoFar
      <3>3. k # j /\ k \in Seq(Nat) /\ j \in Seq(Nat)
        BY <1>2, <1>3, <1>4, <1>5, <3>2
      <3>4. Entry(k, l.prefix, l.delimited) = Entry(j, l.prefix, l.delimited)
        BY <3>1, <3>2 DEF EntryIn
      <3>5. l.delimited /\ Last(Entry(k, l.prefix, l.delimited)) = Delimiter
        BY <1>4, <3>3, <3>4, SharedEntry
      <3> QED
        BY <3>1, <3>5 DEF EntryIn
    <2> QED
      BY <1>1, <1>11, <2>1, <2>2 DEF RepeatedSoFar
  <1>16. NoneAhead(listing')
    <2> SUFFICES ASSUME l.stable = l.was, NEW k \in l.was, IsPrefix(l.prefix, k), Before(marker, k)
                 PROVE  EntryIn(l, k) \notin l.listed \cup entries
      BY <1>11, <1>12 DEF NoneAhead
    <2>1. Before(l.startAfter, k)
      BY <1>4, <1>13
    <2>2. EntryIn(l, k) \notin l.listed
      BY <1>1, <2>1 DEF NoneAhead
    <2>3. k \in candidates \ page
      BY <1>1, <1>3, <1>6, <2>1
    <2> QED
      BY <1>6, <1>8, <2>2, <2>3
  <1> QED
    BY <1>1, <1>11, <1>14, <1>15, <1>16 DEF ListingInv

LEMMA ListingStep ==
  ASSUME ListingInv, [ListingNext]_listingVars
  PROVE  ListingInv'
  <1>1. ASSUME NEW key \in Keys, ChangeKeys(present \cup {key}) \/ ChangeKeys(present \ {key})
        PROVE  ListingInv'
    <2>1. /\ present \cup {key} \in SUBSET Keys /\ IsFiniteSet(present \cup {key})
          /\ present \ {key} \in SUBSET Keys /\ IsFiniteSet(present \ {key})
      BY FS_AddElement, FS_RemoveElement DEF ListingInv
    <2> QED
      BY <1>1, <2>1, ChangeKeysStep
  <1>2. ASSUME UNCHANGED listingVars
        PROVE  ListingInv'
    BY <1>2 DEF listingVars, ListingInv
  <1> QED
    BY <1>1, <1>2, StartListingStep, ListPageStep DEF ListingNext

LEMMA InvListing ==
  ASSUME ListingInv
  PROVE  ListingIsComplete
  <1> SUFFICES ASSUME listing.stage = "done"
               PROVE  ListingIsComplete
    BY DEF ListingIsComplete
  <1>1. ReturnedSoFar(listing) /\ RepeatedSoFar(listing)
    BY DEF ListingInv, NoListing
  <1>2. ASSUME NEW k \in listing.stable, IsPrefix(listing.prefix, k)
        PROVE  Entry(k, listing.prefix, listing.delimited) \in listing.listed
    BY <1>1, <1>2 DEF ReturnedSoFar, EntryIn
  <1>3. ASSUME NEW e \in listing.listed
        PROVE  \E k \in listing.was : IsPrefix(listing.prefix, k) /\ e = Entry(k, listing.prefix, listing.delimited)
    BY <1>1 DEF ReturnedSoFar, EntryIn
  <1> QED
    BY <1>1, <1>2, <1>3 DEF ListingIsComplete, RepeatedSoFar

(* Whatever objects are put and deleted between the pages of a listing,    *)
(* and of whatever size the pages are, a listing that reached its last     *)
(* page has returned every object that was there all the time, nothing     *)
(* that never was, and only common prefixes twice.                         *)
THEOREM S3Listings == ListingSpec => []ListingIsComplete
  <1>1. ListingInit => ListingInv
    BY DEF ListingInit, ListingInv, NoListing
  <1>2. ListingInv /\ [ListingNext]_listingVars => ListingInv'
    BY ListingStep
  <1>3. ListingInv => ListingIsComplete
    BY InvListing
  <1> QED
    BY <1>1, <1>2, <1>3, PTL DEF ListingSpec
=============================================================================
