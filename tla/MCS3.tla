-------------------------------- MODULE MCS3 --------------------------------
(***************************************************************************)
(* Small instances of S3Objects.                                           *)
(***************************************************************************)
EXTENDS S3Requests, S3Listing

CONSTANT x

TwoBodies == {<<>>, <<x, x>>}

OneLock == {[mode |-> "COMPLIANCE", days |-> 1]}
TwoRetentions == {[mode |-> "GOVERNANCE", until |-> 2], [mode |-> "COMPLIANCE", until |-> 1]}

(* A behaviour is about one part of the service, from a state of its own:  *)
(* the contents of objects, the life of buckets, or object locks.          *)
VARIABLE about

StartFrom(m) ==
  /\ memory = m /\ disk = m
  /\ uploads = [id \in UploadId |-> NoUpload]
  /\ payloads = {} /\ putting = NoPut /\ up = TRUE /\ now = 0 /\ failures = 0
  /\ may = [n \in Name |-> {{}}] /\ promise = [n \in Name |-> NoPromise]
  /\ known = {} /\ torn = {} /\ meanwhile = {} /\ overtaken = {}

WithBuckets(versioned) ==
  [EmptyState EXCEPT !.buckets = Bucket,
                     !.versioning = [b \in Bucket |-> IF b \in versioned THEN "Enabled" ELSE ""]]

MCInit ==
  /\ RequestsInit
  /\ \/ about = "buckets" /\ Init
     \/ about = "requests" /\ Init
     \/ about = "listing" /\ Init
     \/ /\ about = "contents"
        /\ \E versioned \in SUBSET Bucket : StartFrom(WithBuckets(versioned))
     \/ /\ about = "multipart"
        /\ \E versioned \in {{}, Bucket} : StartFrom(WithBuckets(versioned))
     \/ /\ about = "locks"
        /\ \E lock \in {LockOnly} \cup Locks :
             StartFrom([WithBuckets(Bucket) EXCEPT !.locks = [b \in Bucket |-> lock]])
  /\ listing = NoListing
  /\ IF about = "listing" THEN present \in SUBSET Keys ELSE present = {}

(* What a run needs no more of: one subresource, two of the parameters. *)
SomeFeatures == {"replication", "tagging"}
SomeQueries == {{}, {"uploads"}, {"uploadId"}, {"uploadId", "partNumber"}}
SomeRanges == {<<0, 0>>, <<1, Open>>, <<1, 2>>, <<2, 3>>, <<Open, 3>>, <<Open, 1>>}

(* "a", "a/", "a/a", "a/b" and "b". *)
SomeKeys == {<<1>>, <<1, 0>>, <<1, 0, 1>>, <<1, 0, 2>>, <<2>>}
SomePrefixes == {<<>>, <<1>>, <<1, 0>>}

OneName ==
  \E n \in Name : \A other \in Name \ {n} :
    may'[other] = {{}} /\ \A id \in UploadId : uploads'[id].name # other

(* Few objects, all alike: to the life of a bucket they are one; and one   *)
(* bucket that has versions or a lock.  Once a put was overtaken by the    *)
(* deletion of its bucket no Save succeeds, so none has to fail besides.   *)
FewObjects ==
  \E content \in Bodies :
    /\ putting' # NoPut => putting'.content = content
    /\ \A n \in Name : may'[n] \subseteq {{}, {content}}
    /\ Cardinality(memory'.history) < 2 /\ Cardinality(memory'.aspects) < 2
    /\ Cardinality(payloads') < 2
    /\ \A f \in memory'.features : f[2] # "tagging"
    /\ Cardinality({b \in Bucket : memory'.versioning[b] # "" \/ memory'.locks[b] # NoLock}) < 2
    /\ Cardinality(memory'.features) < 2
    /\ (\E id \in UploadId : uploads'[id] # NoUpload) => putting' = NoPut /\ memory'.features = {}
    /\ putting' # NoPut \/ overtaken' # {} => memory'.features = {}
    /\ overtaken' # {} => failures' = 0

(* For reads: one bucket, one object, and what a read does not depend on   *)
(* does not change while there is one; a bucket outlives a put into it.    *)
FewRequests ==
  /\ Cardinality(memory'.buckets \cup disk'.buckets) < 2
  /\ Cardinality(memory'.history) < 2
  /\ memory'.features # {} =>
       Cardinality(memory'.features) = 1 /\ Names(memory') = {} /\ reading' = NotReading /\ putting' = NoPut
  /\ \A id \in UploadId : uploads'[id] # NoUpload =>
       reading' = NotReading /\ putting' = NoPut /\ \A b \in Bucket : memory'.versioning[b] = ""
  /\ \A id \in UploadId : uploads'[id] # NoUpload => DOMAIN uploads'[id].parts \subseteq {1}
  /\ \A b \in Bucket : memory'.versioning[b] # "Suspended"
  /\ "bucket" \notin meanwhile'
  /\ overtaken' # {} => failures' = 0

MCNext ==
  /\ \/ /\ about = "buckets"
        /\ \/ BucketNext \/ GovernanceNext \/ SubresourceNext \/ ObjectNext
           \/ \E id \in UploadId, n \in Name : CreateMultipartUpload(id, n)
        /\ OneName /\ FewObjects
     \/ /\ about = "contents"
        /\ ObjectNext
     \/ /\ about = "multipart"
        /\ MultipartNext \/ \E n \in Name : DeleteObject(n)
        /\ OneName
     \/ /\ about = "locks"
        /\ ObjectNext \/ ProtectionNext \/ Tick
        /\ OneName
        /\ failures' = 0 \/ Cardinality(memory'.history) < 2
        /\ Cardinality(memory'.history) < 2 \/ \A n \in Name : memory'.retention[n].mode # "GOVERNANCE"
     \/ about \in {"buckets", "contents", "multipart", "locks"} /\ (Crash \/ Start)
     \/ /\ about = "requests"
        /\ RequestsNext
        /\ OneName /\ FewRequests
     \/ /\ about = "listing"
        /\ ListingNext /\ (listing.stage # "pages" => UNCHANGED present)
        /\ UNCHANGED vars
  /\ about # "requests" => UNCHANGED <<reading, asked, putAsked>>
  /\ about # "listing" => UNCHANGED listingVars
  /\ UNCHANGED about

MCSpec == MCInit /\ [][MCNext]_<<requestVars, listingVars, about>>

(* s3_routes: requests with the parameters of the documented subresources. *)
RoutesNext ==
  ObjectRequest \/ PutStep \/ BucketRequest

RoutesSpec ==
  /\ Init /\ RequestsInit
  /\ about = "requests" /\ listing = NoListing /\ present = {}
  /\ [][RoutesNext /\ UNCHANGED <<listingVars, about>>]_<<requestVars, listingVars, about>>

AllQueries == {{p} : p \in Param \ {"partNumber"}} \cup {{}, {"uploadId", "partNumber"}}

Alike == Permutations(Bucket)

(* asked and putAsked are looked at by s3_routes alone. *)
Looked == <<vars, reading, listingVars, about>>
=============================================================================
