----------------------------- MODULE S3Requests ------------------------------
(***************************************************************************)
(* The HTTP adapter of S3: which operation of the service a request is     *)
(* dispatched to, by its method, the depth of its path and the names of    *)
(* its query parameters, and the reads, whose record and whose payload are *)
(* taken from the service in two steps.                                    *)
(***************************************************************************)
EXTENDS S3Objects

CONSTANTS
  Queries,   \* sets of query parameters of the requests about objects
  Ranges     \* the values of Range: <<first, last>>, with Open where one is left out

Open == -1
Param == {"uploads", "uploadId", "partNumber", "retention", "legal-hold", "acl", "tagging"}

ASSUME RequestsAssumption ==
  /\ Queries \subseteq SUBSET Param
  /\ \A r \in Ranges : r \in (Nat \cup {Open}) \X (Nat \cup {Open}) /\ r # <<Open, Open>>

VARIABLES
  reading,   \* the GET between its two steps
  asked,     \* history: the request of the latest step is documented to change objects
  putAsked   \* history: and so is the request of the put under way

requestVars == <<vars, reading, asked, putAsked>>

NotReading == [stage |-> "none"]
RequestsInit == reading = NotReading /\ asked = FALSE /\ putAsked = FALSE
-----------------------------------------------------------------------------
(* dispatch, for a path with an object.  Parameters other than those of    *)
(* multipart uploads are not looked at.                                    *)
ObjectOperation(method, query, copies) ==
  CASE method = "POST" /\ "uploads" \in query -> "CreateMultipartUpload"
    [] method = "POST" /\ "uploads" \notin query /\ "uploadId" \in query -> "CompleteMultipartUpload"
    [] method = "PUT" /\ {"uploadId", "partNumber"} \subseteq query -> "UploadPart"
    [] method = "PUT" /\ ~({"uploadId", "partNumber"} \subseteq query) ->
         IF copies THEN "CopyObject" ELSE "PutObject"
    [] method \in {"GET", "HEAD"} -> "GetObject"
    [] method = "DELETE" -> "DeleteObject"
    [] OTHER -> "NotFound"

(* The operations of the resource's README that change what an object is:  *)
(* put and copy object, delete object, complete multipart upload.          *)
IsDocumentedChange(method, query) ==
  \/ method \in {"PUT", "DELETE"} /\ query = {}
  \/ method = "POST" /\ "uploadId" \in query

(* What the service does for it.  An upload is found by its id, whatever   *)
(* name the path has.                                                      *)
Dispatched(method, query, copies, n) ==
  LET operation == ObjectOperation(method, query, copies)
  IN  \/ operation = "PutObject" /\ \E content \in Bodies : BeginPut(n, content)
      \/ operation = "CopyObject" /\ \E source \in Name : CopyObject(n, source)
      \/ operation = "DeleteObject" /\ DeleteObject(n)
      \/ \E id \in UploadId :
           \/ operation = "CreateMultipartUpload" /\ CreateMultipartUpload(id, n)
           \/ operation = "CompleteMultipartUpload" /\ CompleteMultipartUpload(id)
           \/ /\ operation = "UploadPart"
              /\ \E number \in PartNumber, body \in Bodies : UploadPart(id, number, body)

(* The subresources that the adapter knows; two of them have no delete.  A *)
(* request about any other is taken for one about the bucket itself.       *)
Deletable == {"policy", "tagging", "public_access", "ownership", "encryption", "lifecycle", "cors"}
ServedSubresource(method, subresource) ==
  \/ method \in {"GET", "PUT", "DELETE"} /\ subresource \in Deletable
  \/ method \in {"GET", "PUT"} /\ subresource \in {"versioning", "acl"}

BucketOperation(method, query) ==
  CASE \E s \in query : ServedSubresource(method, s) -> "Subresource"
    [] method = "POST" -> IF "delete" \in query THEN "DeleteObjects" ELSE "NotFound"
    [] method = "HEAD" -> "HeadBucket"
    [] OTHER -> CASE method = "PUT" -> "CreateBucket"
                  [] method = "DELETE" -> "DeleteBucket"
                  [] method = "GET" -> "ListObjects"

DispatchedToBucket(method, query, b) ==
  LET operation == BucketOperation(method, query)
  IN  \/ operation = "CreateBucket" /\ CreateBucket(b)
      \/ operation = "DeleteBucket" /\ DeleteBucket(b)
      \/ operation = "DeleteObjects" /\ \E k \in Key : DeleteObject(<<b, k>>)
      \/ /\ operation = "Subresource" /\ method = "PUT"
         /\ \/ /\ query = {"versioning"}
               /\ \E status \in {"Enabled", "Suspended"} : PutBucketVersioning(b, status)
            \/ \E f \in Features \cap query : PutBucketFeature(b, f, b)
      \/ /\ operation = "Subresource" /\ method = "DELETE"
         /\ \E f \in Features \cap query : DeleteBucketFeature(b, f)
-----------------------------------------------------------------------------
(* A GET takes the object's record from the state, and then its body: from *)
(* the record, or from the payload file.                                   *)
BeginGet(n) ==
  /\ up /\ reading = NotReading /\ HasObject(memory, n)
  /\ reading' = [stage |-> "reading", name |-> n, object |-> memory.objects[n],
                 seen |-> {Contents(memory, n)}]
  /\ UNCHANGED <<vars, asked, putAsked>>

Readable ==
  LET object == reading.object
  IN  object.held \/ ~object.named \/ <<reading.name, object.content>> \in payloads

(* Mistaken variant of Slice: the last byte asked for may not exist.       *)
SliceUnclamped(range, size) ==
  CASE range[1] = Open -> <<size - range[2], size - 1>>
    [] range[2] = Open -> <<range[1], size - 1>>
    [] OTHER -> range

(* applyS3Range of a range that it accepts: what Content-Range says. *)
Slice(range, size) ==
  CASE range[1] = Open -> <<IF range[2] > size THEN 0 ELSE size - range[2], size - 1>>
    [] range[1] # Open /\ range[2] = Open -> <<range[1], size - 1>>
    [] OTHER -> <<range[1], IF range[2] >= size THEN size - 1 ELSE range[2]>>

Satisfiable(range, size) ==
  /\ size > 0
  /\ IF range[1] = Open THEN range[2] > 0
     ELSE range[1] < size /\ (range[2] # Open => range[1] <= range[2])

(* The answer, if the body is read now, and what Content-Range says.  <<>> *)
(* is no Range.                                                            *)
GetAnswer(range) ==
  LET size == Len(reading.object.content)
  IN  CASE ~Readable -> [status |-> "InternalError", part |-> <<>>]
        [] Readable /\ range = <<>> -> [status |-> "OK", part |-> <<>>]
        [] Readable /\ range # <<>> ->
             IF Satisfiable(range, size) THEN [status |-> "PartialContent", part |-> Slice(range, size)]
             ELSE [status |-> "InvalidRange", part |-> <<>>]

FinishGet ==
  /\ up /\ reading.stage = "reading"
  /\ reading' = NotReading
  /\ UNCHANGED <<vars, asked, putAsked>>

(* What the name held since the GET began; a restart ends it. *)
Watched ==
  reading' = IF ~up' THEN NotReading
             ELSE IF reading.stage = "reading"
             THEN [reading EXCEPT !.seen = @ \cup {Contents(memory', reading.name)}]
             ELSE reading

ObjectRequest ==
  \E method \in {"PUT", "POST", "DELETE"}, query \in Queries, n \in Name, copies \in BOOLEAN :
    /\ Dispatched(method, query, copies, n)
    /\ asked' = IsDocumentedChange(method, query)
    /\ putAsked' = IF PutUnderWay THEN putAsked ELSE PutUnderWay' /\ asked'
    /\ Watched

(* The steps of a put whose request was served before. *)
PutStep ==
  /\ StorePayload \/ BodyFails \/ FinishPut
  /\ asked' = putAsked /\ putAsked' = (PutUnderWay' /\ putAsked)
  /\ Watched

BucketRequest ==
  \E method \in {"PUT", "POST", "DELETE"}, b \in Bucket :
    \E query \in {{}, {"versioning"}, {"delete"}} \cup {{f} : f \in Features} :
      /\ DispatchedToBucket(method, query, b)
      /\ asked' = (query = {"delete"}) /\ UNCHANGED putAsked
      /\ Watched

ReadRequest ==
  (\E n \in Name : BeginGet(n)) \/ FinishGet

RequestsNext ==
  \/ ObjectRequest \/ PutStep \/ BucketRequest \/ ReadRequest
  \/ (Crash \/ Start) /\ Watched /\ asked' = FALSE /\ putAsked' = FALSE

RequestsSpec == Init /\ RequestsInit /\ [][RequestsNext]_requestVars
-----------------------------------------------------------------------------
(* At any moment a GET would answer with what the name held since the GET  *)
(* began, or with the bytes of it that Range asks for, and it would fail   *)
(* only if the object was deleted meanwhile, whose payload goes with it,   *)
(* or if it is that of a put whose payload was deleted before the object   *)
(* was recorded (GetObject, hydrateObject, applyS3Range, removeObject).    *)
RequestedBytes(range, size) ==
  {i \in 0..size - 1 :
     IF range[1] = Open THEN i >= size - range[2]
     ELSE i >= range[1] /\ (range[2] = Open \/ i <= range[2])}

GetIsJustified ==
  reading.stage = "reading" =>
    \A range \in Ranges \cup {<<>>} :
      LET content == reading.object.content
          answer == GetAnswer(range)
      IN  /\ answer.status = "InternalError" =>
               {} \in reading.seen \/ <<reading.name, content>> \in LostPayloads
          /\ answer.status # "InternalError" => {content} \in reading.seen
          /\ answer.status = "PartialContent" =>
               /\ answer.part[1]..answer.part[2] = RequestedBytes(range, Len(content))
               /\ answer.part[1] <= answer.part[2]
          /\ answer.status = "InvalidRange" => RequestedBytes(range, Len(content)) = {}

(* README.md of the service: `/:bucket/:object?retention` "stores          *)
(* per-object retention metadata", `DELETE /:bucket/:object?uploadId=...`  *)
(* "discards an in-progress upload".  What an object holds changes only    *)
(* through a request that is documented to change it.                      *)
ChangesAsDocumented ==
  [][up /\ up' /\ (\E n \in Name : Contents(memory', n) # Contents(memory, n)) => asked']_requestVars
=============================================================================
