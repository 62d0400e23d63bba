-------------------------- MODULE SnsPlatformProofs ---------------------------
(***************************************************************************)
(* Theorems about SnsPlatform: applications, endpoints and phone numbers,  *)
(* for any number of requests that interleave, also with those of topics   *)
(* and with publishes.                                                     *)
(***************************************************************************)
EXTENDS SnsPlatform, SnsPublishProofs

(* The statements that read or write applications, endpoints and numbers.  *)
PlatformSteps ==
  {"insert application", "update application", "find endpoint", "insert endpoint", "update endpoint",
   "write tags", "insert phone", "update phone"}

ApplicationRow == [settings : SUBSET Setting, tags : SUBSET Label]
EndpointRow == [application : Application, token : DeviceToken, settings : SUBSET Setting, tags : SUBSET Label]
PhoneRow == [verified : BOOLEAN, created : 0 .. MaxNow, expires : 0 .. MaxNow + Lifetime, at : 0 .. MaxNow]
SmsRow == [attributes : SUBSET Setting, optedIn : SUBSET Phone]

(* A request for an endpoint that looks for the token, and that makes one. *)
Seeking ==
  [step : {"find endpoint", "insert endpoint"}, application : Application, token : DeviceToken,
   settings : SUBSET Setting]

(* What a request carries, by its next statement.                          *)
PlatformOK(r) ==
  /\ r.step = "insert application" => r.application \in Application /\ r.settings \in SUBSET Setting
  /\ r.step = "update application" => r.row \in ApplicationRow
  /\ r.step \in {"find endpoint", "insert endpoint"} => r \in Seeking
  /\ r.step = "update endpoint" => r.row \in EndpointRow
  /\ r.step = "write tags" => r.tags \in SUBSET Label
  /\ r.step = "insert phone" => r.phone \in Phone /\ r.created \in 0 .. now
  /\ r.step = "update phone" => r.row \in PhoneRow

RowsOfKind ==
  /\ Rows(applications, Application, ApplicationRow)
  /\ Rows(endpoints, issued, EndpointRow) /\ issued \subseteq EndpointArn
  /\ Rows(phones, Phone, PhoneRow)
  /\ sms \in SmsRow

RequestsOfKind == \A c \in Client : PlatformOK(request[c])

(* The application that a request found is there, or was deleted since.    *)
ApplicationInv ==
  \A c \in Client : request[c].step \in {"find endpoint", "insert endpoint"} =>
    request[c].application \in DOMAIN applications \/ seen[c].gone

(* A request that found no endpoint of its token knows those made since.   *)
TokenInv ==
  \A c \in Client : At(c, "insert endpoint") =>
    \A e \in DOMAIN endpoints \ retokened :
      /\ endpoints[e].application = request[c].application
      /\ endpoints[e].token = request[c].token
      => e \in seen[c].made

(* An update leaves an endpoint with its application.                      *)
EndpointRowInv ==
  \A c \in Client : At(c, "update endpoint") =>
    LET e == request[c].arn
    IN  e \in issued /\ (e \in DOMAIN endpoints => request[c].row.application = endpoints[e].application)

(* A number that is about to be verified was given its password in time,   *)
(* unless it was deleted since.                                            *)
InTime(at, row) == at \in row.created .. row.created + Lifetime

PhoneInv ==
  \A c \in Client : At(c, "update phone") /\ ~seen[c].gone =>
    LET p == request[c].phone
    IN  /\ p \in DOMAIN phones
        /\ p \notin revived => request[c].row.verified /\ InTime(request[c].row.at, phones[p])

CreatedBefore == \A p \in DOMAIN phones : phones[p].created <= now

PlatformInv ==
  /\ PublishInv /\ RowsOfKind /\ RequestsOfKind
  /\ ApplicationInv /\ TokenInv /\ EndpointRowInv /\ PhoneInv /\ CreatedBefore
  /\ EndpointsHaveApplications /\ OneEndpointPerToken /\ VerifiedInTime
-----------------------------------------------------------------------------
(* How a request goes on without a write: for the rows it reads, or in     *)
(* some other way.                                                         *)
BeginsEndpoint(next) ==
  next.step = "find endpoint" /\ next \in Seeking /\ next.application \in DOMAIN applications

FindsNoEndpoint(c, next) ==
  /\ next.step = "insert endpoint" /\ next \in Seeking
  /\ At(c, "find endpoint") /\ next.application = request[c].application
  /\ WithToken(next.application, next.token) = {}

ReadsEndpoint(next) ==
  /\ next.step = "update endpoint" /\ next.arn \in DOMAIN endpoints
  /\ next.row \in EndpointRow /\ next.row.application = endpoints[next.arn].application

ReadsPhone(next) ==
  /\ next.step = "update phone" /\ next.phone \in DOMAIN phones /\ next.row \in PhoneRow
  /\ next.phone \notin revived => next.row.verified /\ InTime(next.row.at, phones[next.phone])

OtherSteps == {"idle", "insert application", "update application", "write tags", "insert phone"}

LooksOn(c, next) ==
  \/ next.step \in OtherSteps /\ PlatformOK(next)
  \/ BeginsEndpoint(next) \/ FindsNoEndpoint(c, next) \/ ReadsEndpoint(next) \/ ReadsPhone(next)

Reads(c) == \E next : LooksOn(c, next) /\ Read(c, next)

WritesEnding(c) ==
  \/ InsertApplication(c) \/ UpdateApplication(c) \/ InsertEndpoint(c) \/ UpdateEndpoint(c) \/ WriteTags(c)
  \/ InsertPhoneNumber(c) \/ UpdatePhoneNumber(c)

WritesAtOnce(c) ==
  \/ \E a \in Application : DeleteApplication(c, a)
  \/ \E e \in EndpointArn : DeleteEndpoint(c, e)
  \/ \E p \in Phone : DeletePhoneNumber(c, p) \/ OptInPhoneNumber(c, p)
  \/ \E settings \in SUBSET Setting : SetSMSAttributes(c, settings)
-----------------------------------------------------------------------------
LEMMA IdleStep ==
  Idle.step = "idle"
  BY DEF Idle

(* Requests of applications and endpoints that read.                       *)
LEMMA ApplicationReads ==
  ASSUME RowsOfKind, NEW c \in Client, NEW a \in Application, NEW settings \in SUBSET Setting,
         \/ CreateApplication(c, a, settings) \/ SetApplicationAttributes(c, a, settings)
         \/ \E token \in DeviceToken : CreatePlatformEndpoint(c, a, token, settings)
  PROVE  Reads(c)
  <1>1. CASE CreateApplication(c, a, settings)
    <2> DEFINE next == [step |-> "insert application", application |-> a, settings |-> settings]
    <2>1. next.step \in OtherSteps /\ PlatformOK(next)
      BY DEF OtherSteps, PlatformOK
    <2>2. Read(c, next)
      BY <1>1 DEF CreateApplication
    <2> QED
      BY <2>1, <2>2 DEF Reads, LooksOn
  <1>2. CASE SetApplicationAttributes(c, a, settings)
    <2> DEFINE row == [applications[a] EXCEPT !.settings = @ \cup settings]
               next == [step |-> "update application", application |-> a, row |-> row]
    <2>1. row \in ApplicationRow
      BY <1>2 DEF SetApplicationAttributes, RowsOfKind, Rows, ApplicationRow
    <2>2. next.step = "update application" /\ next.row = row
      OBVIOUS
    <2>3. Read(c, next)
      BY <1>2 DEF SetApplicationAttributes
    <2> HIDE DEF row, next
    <2>4. next.step \in OtherSteps /\ PlatformOK(next)
      BY <2>1, <2>2 DEF OtherSteps, PlatformOK
    <2> QED
      BY <2>3, <2>4 DEF Reads, LooksOn
  <1>3. ASSUME NEW token \in DeviceToken, CreatePlatformEndpoint(c, a, token, settings)
        PROVE  Reads(c)
    <2> DEFINE next == [step |-> "find endpoint", application |-> a, token |-> token, settings |-> settings]
    <2>1. next.step = "find endpoint" /\ next \in Seeking /\ next.application = a
      BY DEF Seeking
    <2>2. a \in DOMAIN applications /\ Read(c, next)
      BY <1>3 DEF CreatePlatformEndpoint
    <2> HIDE DEF next
    <2> QED
      BY <2>1, <2>2 DEF Reads, LooksOn, BeginsEndpoint
  <1> QED
    BY <1>1, <1>2, <1>3

LEMMA EndpointReads ==
  ASSUME RowsOfKind, RequestsOfKind, NEW c \in Client,
         \/ \E e \in EndpointArn, token \in DeviceToken, settings \in SUBSET Setting :
              SetEndpointAttributes(c, e, token, settings)
         \/ FindEndpoint(c)
  PROVE  Reads(c)
  <1>1. ASSUME NEW e \in EndpointArn, NEW token \in DeviceToken, NEW settings \in SUBSET Setting,
               SetEndpointAttributes(c, e, token, settings)
        PROVE  Reads(c)
    <2> DEFINE row == [endpoints[e] EXCEPT !.token = token, !.settings = @ \cup settings]
               next == [step |-> "update endpoint", arn |-> e, row |-> row]
    <2>1. e \in DOMAIN endpoints /\ Read(c, next)
      BY <1>1 DEF SetEndpointAttributes
    <2>2. row \in EndpointRow /\ row.application = endpoints[e].application
      BY <2>1 DEF RowsOfKind, Rows, EndpointRow
    <2>3. next.step = "update endpoint" /\ next.arn = e /\ next.row = row
      OBVIOUS
    <2> HIDE DEF row, next
    <2> QED
      BY <2>1, <2>2, <2>3 DEF Reads, LooksOn, ReadsEndpoint
  <1>2. CASE FindEndpoint(c)
    <2> DEFINE r == request[c]
               next == [r EXCEPT !.step = "insert endpoint"]
    <2>1. r \in Seeking
      BY <1>2 DEF FindEndpoint, At, RequestsOfKind, PlatformOK
    <2>2. /\ next \in Seeking /\ next.step = "insert endpoint"
          /\ next.application = r.application /\ next.token = r.token
      BY <2>1 DEF Seeking
    <2>3. CASE WithToken(r.application, r.token) # {}
      <3>1. Idle.step \in OtherSteps /\ PlatformOK(Idle)
        BY DEF Idle, OtherSteps, PlatformOK
      <3>2. Read(c, Idle)
        BY <1>2, <2>3 DEF FindEndpoint
      <3> QED
        BY <3>1, <3>2 DEF Reads, LooksOn
    <2>4. CASE WithToken(r.application, r.token) = {}
      <3>1. Read(c, next) /\ At(c, "find endpoint")
        BY <1>2, <2>4 DEF FindEndpoint
      <3> HIDE DEF next
      <3> QED
        BY <2>2, <2>4, <3>1 DEF Reads, LooksOn, FindsNoEndpoint
    <2> QED
      BY <2>3, <2>4
  <1> QED
    BY <1>1, <1>2

(* Tags are read from a table whose rows have them.                        *)
LEMMA TagReads ==
  ASSUME NEW c \in Client, NEW kind, NEW key, NEW table, NEW keys \in SUBSET Label, NEW add \in BOOLEAN,
         \A k \in DOMAIN table : table[k].tags \in SUBSET Label,
         ReadTags(c, kind, key, table, keys, add)
  PROVE  Reads(c)
  <1> DEFINE tags == IF add THEN table[key].tags \cup keys ELSE table[key].tags \ keys
             next == [step |-> "write tags", kind |-> kind, key |-> key, tags |-> tags]
  <1>1. key \in DOMAIN table /\ Read(c, next)
    BY DEF ReadTags
  <1>2. tags \in SUBSET Label
    BY <1>1
  <1>3. next.step = "write tags" /\ next.tags = tags
    OBVIOUS
  <1> HIDE DEF tags, next
  <1>4. next.step \in OtherSteps /\ PlatformOK(next)
    BY <1>2, <1>3 DEF OtherSteps, PlatformOK
  <1> QED
    BY <1>1, <1>4 DEF Reads, LooksOn

(* Requests of phone numbers that read.                                    *)
LEMMA RowVerified ==
  ASSUME NEW Verified, NEW Created, NEW Expires, NEW Times,
         NEW row \in [verified : Verified, created : Created, expires : Expires, at : Times],
         NEW verified \in Verified, NEW expires \in Expires, NEW at \in Times
  PROVE  [row EXCEPT !.verified = verified, !.expires = expires, !.at = at]
           \in [verified : Verified, created : Created, expires : Expires, at : Times]
  OBVIOUS

LEMMA PhoneReads ==
  ASSUME RowsOfKind, CreatedBefore, VerifiedInTime, now \in 0 .. MaxNow, NEW c \in Client, NEW p \in Phone,
         CreatePhoneNumber(c, p) \/ VerifyPhoneNumber(c, p)
  PROVE  Reads(c)
  <1>1. CASE CreatePhoneNumber(c, p)
    <2> DEFINE next == [step |-> "insert phone", phone |-> p, created |-> now]
    <2>1. next.step \in OtherSteps /\ PlatformOK(next)
      BY DEF OtherSteps, PlatformOK
    <2>2. Read(c, next)
      BY <1>1 DEF CreatePhoneNumber
    <2> QED
      BY <2>1, <2>2 DEF Reads, LooksOn
  <1>2. CASE VerifyPhoneNumber(c, p)
    <2> DEFINE old == phones[p]
               next(row) == [step |-> "update phone", phone |-> p, row |-> row]
    <2>1. p \in DOMAIN phones /\ old \in PhoneRow /\ old.created <= now
      BY <1>2 DEF VerifyPhoneNumber, RowsOfKind, Rows, CreatedBefore
    <2>2. ASSUME NEW row \in PhoneRow, row.verified, p \notin revived => InTime(row.at, old), Read(c, next(row))
          PROVE  Reads(c)
      <3>1. next(row).step = "update phone" /\ next(row).phone = p /\ next(row).row = row
        OBVIOUS
      <3> HIDE DEF next
      <3> QED
        BY <2>1, <2>2, <3>1 DEF Reads, LooksOn, ReadsPhone
    <2>3. CASE old.verified /\ VerifyTo(c, p, old)
      <3>1. p \notin revived => InTime(old.at, old)
        BY <2>1, <2>3 DEF VerifiedInTime, InTime
      <3> QED
        BY <2>1, <2>2, <2>3, <3>1 DEF VerifyTo
    <2>4. CASE /\ ~old.verified /\ now <= old.expires
               /\ VerifyTo(c, p, [old EXCEPT !.verified = TRUE, !.expires = 0, !.at = now])
      <3> DEFINE row == [old EXCEPT !.verified = TRUE, !.expires = 0, !.at = now]
      <3>1. row \in PhoneRow /\ row.verified /\ row.at = now
        <4>1. 0 \in 0 .. MaxNow + Lifetime
          BY PlatformAssumption, PublishAssumption
        <4>2. row \in PhoneRow
          BY <2>1, <4>1, RowVerified DEF PhoneRow
        <4>3. row.verified = TRUE /\ row.at = now
          BY <2>1 DEF PhoneRow
        <4> QED
          BY <4>2, <4>3
      <3>2. p \notin revived => old.expires = old.created + Lifetime
        BY <2>1, <2>4 DEF VerifiedInTime
      <3>3. p \notin revived => InTime(now, old)
        BY <2>1, <2>4, <3>2, PlatformAssumption DEF InTime, PhoneRow
      <3> HIDE DEF row
      <3> QED
        BY <2>2, <2>4, <3>1, <3>3 DEF VerifyTo, row
    <2> QED
      BY <1>2, <2>3, <2>4 DEF VerifyPhoneNumber
  <1> QED
    BY <1>1, <1>2

(* Whatever a request does, it reads or writes.                            *)
LEMMA PlatformKinds ==
  ASSUME PlatformInv, NEW c \in Client, PlatformStep(c)
  PROVE  Reads(c) \/ WritesEnding(c) \/ WritesAtOnce(c)
  <1>0. RowsOfKind /\ RequestsOfKind /\ CreatedBefore /\ VerifiedInTime /\ now \in 0 .. MaxNow
    BY DEF PlatformInv, PublishInv, PublishTypesInv
  <1>1. CASE ApplicationStep(c)
    <2>1. ASSUME NEW a \in Application, NEW keys \in SUBSET Label, NEW add \in BOOLEAN,
                 ReadTags(c, "application", a, applications, keys, add)
          PROVE  Reads(c)
      <3>1. \A k \in DOMAIN applications : applications[k].tags \in SUBSET Label
        BY <1>0 DEF RowsOfKind, Rows, ApplicationRow
      <3> QED
        BY <2>1, <3>1, TagReads
    <2>2. ASSUME NEW e \in EndpointArn, NEW keys \in SUBSET Label, NEW add \in BOOLEAN,
                 ReadTags(c, "endpoint", e, endpoints, keys, add)
          PROVE  Reads(c)
      <3>1. \A k \in DOMAIN endpoints : endpoints[k].tags \in SUBSET Label
        BY <1>0 DEF RowsOfKind, Rows, EndpointRow
      <3> QED
        BY <2>2, <3>1, TagReads
    <2> QED
      BY <1>0, <1>1, <2>1, <2>2, ApplicationReads, EndpointReads DEF ApplicationStep, WritesEnding, WritesAtOnce
  <1>2. CASE PhoneStep(c)
    BY <1>0, <1>2, PhoneReads DEF PhoneStep, WritesEnding, WritesAtOnce
  <1>3. CASE Fail(c) /\ UNCHANGED platformTables
    <2>1. Idle.step \in OtherSteps /\ PlatformOK(Idle)
      BY DEF Idle, OtherSteps, PlatformOK
    <2> QED
      BY <1>3, <2>1 DEF Fail, Proceed, Read, Reads, LooksOn
  <1> QED
    BY <1>1, <1>2, <1>3 DEF PlatformStep
-----------------------------------------------------------------------------
(* What a step does to the requests.                                       *)
LEMMA PlatformMoves ==
  ASSUME PlatformInv, NEW c \in Client, Reads(c) \/ WritesEnding(c) \/ WritesAtOnce(c)
  PROVE  /\ Others(c)
         /\ WritesEnding(c) => request'[c] = Idle
         /\ WritesAtOnce(c) => request' = request /\ At(c, "idle")
         /\ Reads(c) => LooksOn(c, request'[c]) /\ UNCHANGED platformTables
  <1>0. DOMAIN request = Client
    BY DEF PlatformInv, PublishInv, TopicsInv, TypesInv
  <1>1. WritesEnding(c) => Goto(c, Idle)
    BY DEF WritesEnding, InsertApplication, UpdateApplication, InsertEndpoint, UpdateEndpoint, WriteTags,
       InsertPhoneNumber, UpdatePhoneNumber
  <1>2. WritesAtOnce(c) => request' = request /\ At(c, "idle")
    BY DEF WritesAtOnce, DeleteApplication, DeleteEndpoint, DeletePhoneNumber, OptInPhoneNumber, SetSMSAttributes,
       Ready
  <1>3. Reads(c) => \E next : LooksOn(c, next) /\ Goto(c, next) /\ UNCHANGED platformTables
    BY DEF Reads, Read
  <1> QED
    BY <1>0, <1>1, <1>2, <1>3, Moves DEF Others

(* Applications: one that goes takes its endpoints with it.                *)
LEMMA ApplicationFate ==
  ASSUME PlatformInv, NEW c \in Client, Reads(c) \/ WritesEnding(c) \/ WritesAtOnce(c),
         NEW a \in DOMAIN applications, a \notin DOMAIN applications'
  PROVE  \A e \in DOMAIN endpoints' : endpoints'[e].application # a
  <1>1. applications' # applications
    OBVIOUS
  <1>2. ~Reads(c) /\ ~InsertEndpoint(c) /\ ~UpdateEndpoint(c) /\ ~InsertPhoneNumber(c) /\ ~UpdatePhoneNumber(c)
    BY <1>1 DEF Reads, Read, platformTables, InsertEndpoint, UpdateEndpoint, InsertPhoneNumber, UpdatePhoneNumber
  <1>3. ~InsertApplication(c) /\ ~UpdateApplication(c) /\ ~WriteTags(c)
    BY DEF InsertApplication, UpdateApplication, WriteTags, Tagged, Inserted, Overwritten
  <1>4. PICK b \in Application : DeleteApplication(c, b)
    BY <1>1, <1>2, <1>3 DEF WritesEnding, WritesAtOnce, DeleteEndpoint, DeletePhoneNumber, OptInPhoneNumber,
       SetSMSAttributes
  <1>5. a = b
    BY <1>4 DEF Deleted, Restrict, DeleteApplication
  <1> QED
    BY <1>4, <1>5 DEF Deleted, Restrict, DeleteApplication, EndpointsOf

(* Endpoints: one stays with its application, and with its token unless    *)
(* another is given to it; or it is new.                                   *)
Makes(c, e) ==
  /\ At(c, "insert endpoint") /\ e \notin issued /\ issued' = issued \cup {e}
  /\ applications' = applications /\ request'[c] = Idle
  /\ DOMAIN endpoints' = DOMAIN endpoints \cup {e} /\ \A f \in DOMAIN endpoints : f # e => endpoints'[f] = endpoints[f]
  /\ endpoints'[e].application = request[c].application /\ endpoints'[e].token = request[c].token

Keeps(e) ==
  /\ e \in DOMAIN endpoints /\ endpoints'[e].application = endpoints[e].application
  /\ endpoints'[e].token = endpoints[e].token

LEMMA Making ==
  ASSUME PlatformInv, NEW c \in Client, InsertEndpoint(c)
  PROVE  \E e \in EndpointArn : /\ Makes(c, e)
                                /\ endpoints' = Inserted(endpoints, e, endpoints'[e]) /\ endpoints'[e] \in EndpointRow
  <1> DEFINE r == request[c]
             row == [application |-> r.application, token |-> r.token, settings |-> r.settings, tags |-> {}]
  <1>1. PICK e \in EndpointArn \ issued : endpoints' = Inserted(endpoints, e, row) /\ issued' = issued \cup {e}
    BY DEF InsertEndpoint
  <1>2. endpoints'[e] = row /\ DOMAIN endpoints' = DOMAIN endpoints \cup {e}
        /\ \A f \in DOMAIN endpoints : f # e => endpoints'[f] = endpoints[f]
    BY <1>1 DEF Inserted
  <1>3. r \in Seeking
    BY DEF InsertEndpoint, At, PlatformInv, RequestsOfKind, PlatformOK
  <1>4. row \in EndpointRow /\ row.application = r.application /\ row.token = r.token
    BY <1>3 DEF Seeking, EndpointRow
  <1>5. request'[c] = Idle /\ applications' = applications /\ At(c, "insert endpoint")
    BY PlatformMoves DEF WritesEnding, InsertEndpoint
  <1> HIDE DEF row
  <1> QED
    BY <1>1, <1>2, <1>4, <1>5 DEF Makes

LEMMA EndpointFate ==
  ASSUME PlatformInv, NEW c \in Client, Reads(c) \/ WritesEnding(c) \/ WritesAtOnce(c),
         NEW e \in DOMAIN endpoints'
  PROVE  Keeps(e) \/ Makes(c, e)
         \/ /\ UpdateEndpoint(c) /\ e = request[c].arn /\ endpoints'[e] = request[c].row
            /\ e \in DOMAIN endpoints /\ endpoints'[e].application = endpoints[e].application
  <1>1. CASE endpoints' = endpoints
    BY <1>1 DEF Keeps
  <1>2. CASE InsertEndpoint(c)
    <2>1. PICK f \in EndpointArn : Makes(c, f)
      BY <1>2, Making
    <2> QED
      BY <2>1 DEF Makes, Keeps
  <1>3. CASE UpdateEndpoint(c)
    <2>1. endpoints' = Overwritten(endpoints, request[c].arn, request[c].row) /\ At(c, "update endpoint")
      BY <1>3 DEF UpdateEndpoint
    <2>2. e \in DOMAIN endpoints /\ endpoints'[e] = IF e = request[c].arn THEN request[c].row ELSE endpoints[e]
      BY <2>1 DEF Overwritten
    <2> QED
      BY <1>3, <2>1, <2>2 DEF Keeps, PlatformInv, EndpointRowInv
  <1>4. CASE WriteTags(c)
    <2> DEFINE r == request[c]
    <2>1. endpoints' = Tagged(endpoints, "endpoint", r)
      BY <1>4 DEF WriteTags
    <2>2. CASE r.kind = "endpoint" /\ r.key \in DOMAIN endpoints
      <3>1. endpoints' = Overwritten(endpoints, r.key, [endpoints[r.key] EXCEPT !.tags = r.tags])
        BY <2>1, <2>2 DEF Tagged
      <3>2. e \in DOMAIN endpoints
            /\ endpoints'[e] = IF e = r.key THEN [endpoints[r.key] EXCEPT !.tags = r.tags] ELSE endpoints[e]
        BY <3>1 DEF Overwritten
      <3>3. endpoints[e] \in EndpointRow
        BY <3>2 DEF PlatformInv, RowsOfKind, Rows
      <3> QED
        BY <3>2, <3>3 DEF Keeps, EndpointRow
    <2> QED
      BY <1>1, <2>1, <2>2 DEF Tagged
  <1>5. ASSUME NEW S, endpoints' = Deleted(endpoints, S)
        PROVE  Keeps(e)
    BY <1>5 DEF Deleted, Restrict, Keeps
  <1>6. WritesAtOnce(c) => endpoints' = endpoints \/ \E S : endpoints' = Deleted(endpoints, S)
    BY DEF WritesAtOnce, DeleteApplication, DeleteEndpoint, DeletePhoneNumber, OptInPhoneNumber, SetSMSAttributes
  <1>7. Reads(c) => endpoints' = endpoints
    BY DEF Reads, Read, platformTables
  <1>8. WritesEnding(c) => endpoints' = endpoints \/ InsertEndpoint(c) \/ UpdateEndpoint(c) \/ WriteTags(c)
    BY DEF WritesEnding, InsertApplication, UpdateApplication, InsertPhoneNumber, UpdatePhoneNumber
  <1> QED
    BY <1>1, <1>2, <1>3, <1>4, <1>5, <1>6, <1>7, <1>8

(* Numbers: one keeps its row, or is new, or is written with the row that  *)
(* was read.                                                               *)
Created(p) ==
  /\ p \notin DOMAIN phones /\ ~phones'[p].verified
  /\ phones'[p].created \in 0 .. now /\ phones'[p].expires = phones'[p].created + Lifetime

Updated(c, p) ==
  /\ At(c, "update phone") /\ request'[c] = Idle /\ p = request[c].phone /\ p \in DOMAIN phones
  /\ phones'[p] = [request[c].row EXCEPT !.created = phones[p].created]

LEMMA PhoneFate ==
  ASSUME PlatformInv, NEW c \in Client, Reads(c) \/ WritesEnding(c) \/ WritesAtOnce(c),
         NEW p \in DOMAIN phones'
  PROVE  (p \in DOMAIN phones /\ phones'[p] = phones[p]) \/ Created(p) \/ Updated(c, p)
  <1>1. CASE phones' = phones
    BY <1>1
  <1>2. CASE InsertPhoneNumber(c)
    <2> DEFINE r == request[c]
               row == [verified |-> FALSE, created |-> r.created, expires |-> r.created + Lifetime, at |-> 0]
    <2>1. r.created \in 0 .. now
      BY <1>2 DEF InsertPhoneNumber, At, PlatformInv, RequestsOfKind, PlatformOK
    <2>2. phones' = phones \/ (phones' = Inserted(phones, r.phone, row) /\ r.phone \notin DOMAIN phones)
      BY <1>2 DEF InsertPhoneNumber
    <2>3. ~row.verified /\ row.created = r.created /\ row.expires = r.created + Lifetime
      OBVIOUS
    <2> HIDE DEF row
    <2>4. ASSUME phones' = Inserted(phones, r.phone, row), p # r.phone
          PROVE  p \in DOMAIN phones /\ phones'[p] = phones[p]
      BY <2>4 DEF Inserted
    <2>5. ASSUME phones' = Inserted(phones, r.phone, row), r.phone \notin DOMAIN phones, p = r.phone
          PROVE  Created(p)
      BY <2>1, <2>3, <2>5 DEF Inserted, Created
    <2> QED
      BY <1>1, <2>2, <2>4, <2>5
  <1>3. CASE UpdatePhoneNumber(c)
    BY <1>3, PlatformMoves DEF UpdatePhoneNumber, Updated, WritesEnding
  <1>4. ASSUME NEW S, phones' = Deleted(phones, S)
        PROVE  p \in DOMAIN phones /\ phones'[p] = phones[p]
    BY <1>4 DEF Deleted, Restrict
  <1>5. WritesAtOnce(c) => phones' = phones \/ \E S : phones' = Deleted(phones, S)
    BY DEF WritesAtOnce, DeleteApplication, DeleteEndpoint, DeletePhoneNumber, OptInPhoneNumber, SetSMSAttributes
  <1>6. Reads(c) => phones' = phones
    BY DEF Reads, Read, platformTables
  <1>7. WritesEnding(c) => phones' = phones \/ InsertPhoneNumber(c) \/ UpdatePhoneNumber(c)
    BY DEF WritesEnding, InsertApplication, UpdateApplication, InsertEndpoint, UpdateEndpoint, WriteTags
  <1> QED
    BY <1>1, <1>2, <1>3, <1>4, <1>5, <1>6, <1>7

-----------------------------------------------------------------------------
(* The rows after a step.                                                  *)
LEMMA TaggedRows ==
  ASSUME NEW table, NEW keys, NEW rows, Rows(table, keys, rows), NEW kind, NEW r,
         \A row \in rows : [row EXCEPT !.tags = r.tags] \in rows
  PROVE  Rows(Tagged(table, kind, r), keys, rows)
  <1>1. CASE r.kind = kind /\ r.key \in DOMAIN table
    <2>1. [table[r.key] EXCEPT !.tags = r.tags] \in rows
      BY <1>1 DEF Rows
    <2> QED
      BY <1>1, <2>1, RowsKept DEF Tagged
  <1>2. CASE ~(r.kind = kind /\ r.key \in DOMAIN table)
    BY <1>2 DEF Tagged
  <1> QED
    BY <1>1, <1>2

LEMMA PlatformRows ==
  ASSUME PlatformInv, NEW c \in Client, Reads(c) \/ WritesEnding(c) \/ WritesAtOnce(c)
  PROVE  RowsOfKind'
  <1> DEFINE r == request[c]
  <1>0. RowsOfKind /\ PlatformOK(r) /\ now \in 0 .. MaxNow
    BY DEF PlatformInv, RequestsOfKind, PublishInv, PublishTypesInv
  <1>1. CASE UNCHANGED platformTables
    BY <1>0, <1>1 DEF platformTables, RowsOfKind, Rows
  <1>2. CASE InsertApplication(c)
    <2> DEFINE a == r.application
               row == [settings |-> r.settings, tags |-> {}]
    <2>1. a \in Application /\ row \in ApplicationRow
      BY <1>0, <1>2 DEF InsertApplication, At, PlatformOK, ApplicationRow
    <2>2. applications' = applications \/ applications' = Inserted(applications, a, row)
      BY <1>2 DEF InsertApplication
    <2> HIDE DEF row
    <2>3. Rows(Inserted(applications, a, row), Application \cup {a}, ApplicationRow)
      BY <1>0, <2>1, RowsKept DEF RowsOfKind
    <2>4. Application \cup {a} = Application
      BY <2>1
    <2>5. Rows(applications', Application, ApplicationRow)
      BY <1>0, <2>2, <2>3, <2>4 DEF RowsOfKind
    <2> QED
      BY <1>0, <1>2, <2>5 DEF RowsOfKind, InsertApplication, Rows
  <1>3. CASE UpdateApplication(c)
    <2>1. Rows(applications', Application, ApplicationRow)
      BY <1>0, <1>3, RowsKept DEF UpdateApplication, At, PlatformOK, RowsOfKind
    <2> QED
      BY <1>0, <1>3, <2>1 DEF RowsOfKind, UpdateApplication, Rows
  <1>4. CASE InsertEndpoint(c)
    <2>1. PICK e \in EndpointArn : /\ issued' = issued \cup {e} /\ endpoints'[e] \in EndpointRow
                                   /\ endpoints' = Inserted(endpoints, e, endpoints'[e])
      BY <1>4, Making DEF Makes
    <2>2. Rows(endpoints', issued', EndpointRow)
      BY <1>0, <2>1, RowsKept DEF RowsOfKind
    <2> QED
      BY <1>0, <1>4, <2>1, <2>2 DEF RowsOfKind, InsertEndpoint, Rows
  <1>5. CASE UpdateEndpoint(c)
    <2>1. Rows(endpoints', issued, EndpointRow)
      BY <1>0, <1>5, RowsKept DEF UpdateEndpoint, At, PlatformOK, RowsOfKind
    <2> QED
      BY <1>0, <1>5, <2>1 DEF RowsOfKind, UpdateEndpoint, Rows
  <1>6. CASE WriteTags(c)
    <2>1. r.tags \in SUBSET Label
      BY <1>0, <1>6 DEF WriteTags, At, PlatformOK
    <2>2. /\ \A row \in ApplicationRow : [row EXCEPT !.tags = r.tags] \in ApplicationRow
          /\ \A row \in EndpointRow : [row EXCEPT !.tags = r.tags] \in EndpointRow
      BY <2>1 DEF ApplicationRow, EndpointRow
    <2>3. Rows(applications', Application, ApplicationRow) /\ Rows(endpoints', issued, EndpointRow)
      BY <1>0, <1>6, <2>2, TaggedRows DEF WriteTags, RowsOfKind
    <2> QED
      BY <1>0, <1>6, <2>3 DEF RowsOfKind, WriteTags, Rows
  <1>7. CASE InsertPhoneNumber(c)
    <2> DEFINE p == r.phone
               row == [verified |-> FALSE, created |-> r.created, expires |-> r.created + Lifetime, at |-> 0]
    <2>1. /\ p \in Phone /\ r.created \in 0 .. MaxNow /\ 0 \in 0 .. MaxNow
          /\ r.created + Lifetime \in 0 .. MaxNow + Lifetime
      <3>1. p \in Phone /\ r.created \in 0 .. now
        BY <1>0, <1>7 DEF InsertPhoneNumber, At, PlatformOK
      <3>2. \A t \in 0 .. now : t \in 0 .. MaxNow /\ t + Lifetime \in 0 .. MaxNow + Lifetime
        BY <1>0, PlatformAssumption, PublishAssumption
      <3> QED
        BY <3>1, <3>2, PublishAssumption
    <2>2. row \in PhoneRow
      BY <2>1 DEF PhoneRow
    <2>3. phones' = phones \/ phones' = Inserted(phones, p, row)
      BY <1>7 DEF InsertPhoneNumber
    <2> HIDE DEF row
    <2>4. Rows(Inserted(phones, p, row), Phone \cup {p}, PhoneRow) /\ Phone \cup {p} = Phone
      BY <1>0, <2>1, <2>2, RowsKept DEF RowsOfKind
    <2>5. Rows(phones', Phone, PhoneRow)
      BY <1>0, <2>3, <2>4 DEF RowsOfKind
    <2> QED
      BY <1>0, <1>7, <2>5 DEF RowsOfKind, InsertPhoneNumber, Rows
  <1>8. CASE UpdatePhoneNumber(c)
    <2> DEFINE p == r.phone
    <2>1. r.row \in PhoneRow
      BY <1>0, <1>8 DEF UpdatePhoneNumber, At, PlatformOK
    <2>2. DOMAIN phones' = DOMAIN phones
      BY <1>8 DEF UpdatePhoneNumber
    <2>3. ASSUME NEW q \in DOMAIN phones
          PROVE  phones'[q] \in PhoneRow
      <3>1. phones[q] \in PhoneRow /\ phones[q].created \in 0 .. MaxNow
        BY <1>0 DEF RowsOfKind, Rows, PhoneRow
      <3>2. [r.row EXCEPT !.created = phones[q].created] \in PhoneRow
        BY <2>1, <3>1 DEF PhoneRow
      <3>3. phones'[q] = IF q = p THEN [r.row EXCEPT !.created = phones[p].created] ELSE phones[q]
        BY <1>8 DEF UpdatePhoneNumber
      <3> QED
        BY <3>1, <3>2, <3>3
    <2> QED
      BY <1>0, <1>8, <2>2, <2>3 DEF RowsOfKind, UpdatePhoneNumber, Rows
  <1>9. CASE WritesAtOnce(c)
    <2>1. ASSUME NEW a \in Application, DeleteApplication(c, a)
          PROVE  RowsOfKind'
      <3>1. Rows(applications', Application, ApplicationRow) /\ Rows(endpoints', issued, EndpointRow)
        BY <1>0, <2>1 DEF DeleteApplication, RowsOfKind, Rows, Deleted, Restrict
      <3> QED
        BY <1>0, <2>1, <3>1 DEF RowsOfKind, DeleteApplication, Rows
    <2>2. ASSUME NEW e \in EndpointArn, DeleteEndpoint(c, e)
          PROVE  RowsOfKind'
      <3>1. Rows(endpoints', issued, EndpointRow)
        BY <1>0, <2>2 DEF DeleteEndpoint, RowsOfKind, Rows, Deleted, Restrict
      <3> QED
        BY <1>0, <2>2, <3>1 DEF RowsOfKind, DeleteEndpoint, Rows
    <2>3. ASSUME NEW p \in Phone, DeletePhoneNumber(c, p)
          PROVE  RowsOfKind'
      <3>1. Rows(phones', Phone, PhoneRow)
        BY <1>0, <2>3 DEF DeletePhoneNumber, RowsOfKind, Rows, Deleted, Restrict
      <3> QED
        BY <1>0, <2>3, <3>1 DEF RowsOfKind, DeletePhoneNumber, Rows
    <2>4. ASSUME NEW p \in Phone, OptInPhoneNumber(c, p)
          PROVE  RowsOfKind'
      <3>1. sms' \in SmsRow
        BY <1>0, <2>4 DEF OptInPhoneNumber, RowsOfKind, SmsRow
      <3> QED
        BY <1>0, <2>4, <3>1 DEF RowsOfKind, OptInPhoneNumber, Rows
    <2>5. ASSUME NEW settings \in SUBSET Setting, SetSMSAttributes(c, settings)
          PROVE  RowsOfKind'
      <3>1. sms' \in SmsRow
        BY <1>0, <2>5 DEF SetSMSAttributes, RowsOfKind, SmsRow
      <3> QED
        BY <1>0, <2>5, <3>1 DEF RowsOfKind, SetSMSAttributes, Rows
    <2> QED
      BY <1>9, <2>1, <2>2, <2>3, <2>4, <2>5 DEF WritesAtOnce
  <1> QED
    BY <1>1, <1>2, <1>3, <1>4, <1>5, <1>6, <1>7, <1>8, <1>9 DEF WritesEnding, Reads, Read

(* The requests after a step: one that moves carries what its next         *)
(* statement needs.                                                        *)
LEMMA PlatformRequests ==
  ASSUME PlatformInv, now' = now, NEW c \in Client, Reads(c) \/ WritesEnding(c) \/ WritesAtOnce(c)
  PROVE  RequestsOfKind'
  <1>1. ASSUME NEW d \in Client
        PROVE  PlatformOK(request'[d])
    <2>1. CASE request'[d] = request[d]
      BY <2>1 DEF PlatformInv, RequestsOfKind
    <2>2. CASE d = c /\ WritesEnding(c)
      <3>1. PlatformOK(Idle)
        BY DEF PlatformOK, Idle
      <3> QED
        BY <2>2, <3>1, PlatformMoves
    <2>3. CASE d = c /\ Reads(c)
      <3>1. LooksOn(c, request'[c])
        BY <2>3, PlatformMoves
      <3> QED
        BY <2>3, <3>1 DEF LooksOn, BeginsEndpoint, FindsNoEndpoint, ReadsEndpoint, ReadsPhone, PlatformOK
    <2> QED
      BY <2>1, <2>2, <2>3, PlatformMoves DEF Others
  <1> QED
    BY <1>1 DEF RequestsOfKind, PlatformOK
-----------------------------------------------------------------------------
(* What a request that stays has seen, and what the history keeps.         *)
LEMMA Seen ==
  ASSUME ObservePlatform, NEW d \in Client, ~At(d, "idle"), request'[d].step # "idle"
  PROVE  /\ seen'[d].made = IF At(d, "insert endpoint") THEN seen[d].made \cup (issued' \ issued) ELSE {}
         /\ seen'[d].gone = (\/ seen[d].gone
                             \/ /\ request[d].step \in {"find endpoint", "insert endpoint"}
                                /\ request[d].application \notin DOMAIN applications'
                             \/ At(d, "update phone") /\ request[d].phone \notin DOMAIN phones')
  BY DEF ObservePlatform

LEMMA HistoryKept ==
  ASSUME ObservePlatform
  PROVE  /\ \A e \in DOMAIN endpoints' : e \in retokened => e \in retokened'
         /\ \A e \in DOMAIN endpoints' : e \in strays => e \in strays'
         /\ \A p \in DOMAIN phones' : p \in revived => p \in revived'
         /\ \A pair \in twins : pair \subseteq DOMAIN endpoints' => pair \in twins'
  <1>1. \E made : twins' = {pair \in twins \cup made : pair \subseteq DOMAIN endpoints'}
    BY Zenon DEF ObservePlatform
  <1>2. \E made : strays' = (strays \cup made) \cap DOMAIN endpoints'
    BY Zenon DEF ObservePlatform
  <1>3. \E made : retokened' = (retokened \cup made) \cap DOMAIN endpoints'
    BY Zenon DEF ObservePlatform
  <1>4. \E made : revived' = (revived \cup made) \cap DOMAIN phones'
    BY Zenon DEF ObservePlatform
  <1> QED
    BY <1>1, <1>2, <1>3, <1>4

LEMMA HistoryMade ==
  ASSUME ObservePlatform, NEW c \in Client, NEW e, Makes(c, e)
  PROVE  /\ seen[c].gone => e \in strays'
         /\ \A f \in seen[c].made \cap DOMAIN endpoints' : {e, f} \in twins'
  <1> DEFINE making == {d \in Client : At(d, "insert endpoint") /\ issued' # issued /\ request'[d] = Idle}
             with(x, d) == {{x, y} : y \in seen[d].made}
             all(d) == UNION {with(x, d) : x \in issued' \ issued}
             pairs == UNION {all(d) : d \in making}
             stray == UNION {issued' \ issued : d \in {g \in making : seen[g].gone}}
  <1>1. c \in making /\ e \in issued' \ issued /\ e \in DOMAIN endpoints'
    BY DEF Makes
  <1>2. strays' = (strays \cup stray) \cap DOMAIN endpoints'
    BY Zenon DEF ObservePlatform
  <1>3. twins' = {pair \in twins \cup pairs : pair \subseteq DOMAIN endpoints'}
    BY Zenon DEF ObservePlatform
  <1>4. seen[c].gone => e \in stray
    BY <1>1
  <1>5. ASSUME NEW f \in seen[c].made
        PROVE  {e, f} \in pairs
    <2>1. {e, f} \in with(e, c)
      BY <1>5
    <2> HIDE DEF with
    <2>2. {e, f} \in all(c)
      BY <1>1, <2>1
    <2> HIDE DEF all
    <2> QED
      BY <1>1, <2>2
  <1> HIDE DEF pairs, stray
  <1> QED
    BY <1>1, <1>2, <1>3, <1>4, <1>5

LEMMA HistoryUpdated ==
  ASSUME ObservePlatform, NEW c \in Client, request'[c] = Idle
  PROVE  /\ At(c, "update endpoint") /\ request[c].arn \in DOMAIN endpoints /\ request[c].arn \in DOMAIN endpoints'
              /\ request[c].row.token # endpoints[request[c].arn].token => request[c].arn \in retokened'
         /\ At(c, "update phone") /\ request[c].phone \in DOMAIN phones' /\ seen[c].gone =>
              request[c].phone \in revived'
  BY DEF ObservePlatform

(* An endpoint that has its token is the one it was, or is made by c.      *)
LEMMA TokenFate ==
  ASSUME PlatformInv, ObservePlatform, NEW c \in Client, Reads(c) \/ WritesEnding(c) \/ WritesAtOnce(c),
         NEW e \in DOMAIN endpoints' \ retokened'
  PROVE  (Keeps(e) /\ e \notin retokened) \/ Makes(c, e)
  <1>1. e \notin retokened
    BY HistoryKept
  <1>2. CASE /\ UpdateEndpoint(c) /\ e = request[c].arn /\ endpoints'[e] = request[c].row
             /\ e \in DOMAIN endpoints /\ endpoints'[e].application = endpoints[e].application
    <2>1. request'[c] = Idle /\ At(c, "update endpoint")
      BY <1>2, PlatformMoves DEF WritesEnding, UpdateEndpoint
    <2>2. endpoints'[e].token = endpoints[e].token
      BY <1>2, <2>1, HistoryUpdated
    <2> QED
      BY <1>1, <1>2, <2>2 DEF Keeps
  <1> QED
    BY <1>1, <1>2, EndpointFate

LEMMA TokenStep ==
  ASSUME PlatformInv, ObservePlatform, NEW c \in Client, Reads(c) \/ WritesEnding(c) \/ WritesAtOnce(c)
  PROVE  TokenInv' /\ OneEndpointPerToken'
  <1>1. TokenInv'
    <2> SUFFICES ASSUME NEW d \in Client, request'[d].step = "insert endpoint",
                        NEW e \in DOMAIN endpoints' \ retokened',
                        endpoints'[e].application = request'[d].application, endpoints'[e].token = request'[d].token
                 PROVE  e \in seen'[d].made
      BY DEF TokenInv, At
    <2>1. CASE request'[d] = request[d]
      <3>1. seen'[d].made = seen[d].made \cup (issued' \ issued)
        BY <2>1, Seen DEF At
      <3>2. CASE Makes(c, e)
        BY <3>1, <3>2 DEF Makes
      <3>3. CASE Keeps(e) /\ e \notin retokened
        BY <2>1, <3>1, <3>3 DEF Keeps, PlatformInv, TokenInv, At
      <3> QED
        BY <3>2, <3>3, TokenFate
    <2>2. CASE request'[d] # request[d]
      <3>1. d = c /\ ~WritesAtOnce(c)
        BY <2>2, PlatformMoves DEF Others
      <3>2. ~WritesEnding(c)
        BY <3>1, PlatformMoves, IdleStep
      <3>3. LooksOn(c, request'[c]) /\ UNCHANGED platformTables
        BY <3>1, <3>2, PlatformMoves
      <3>4. WithToken(request'[c].application, request'[c].token) = {}
        BY <3>1, <3>3 DEF LooksOn, OtherSteps, BeginsEndpoint, FindsNoEndpoint, ReadsEndpoint, ReadsPhone
      <3> QED
        BY <3>1, <3>3, <3>4 DEF WithToken, EndpointsOf, platformTables
    <2> QED
      BY <2>1, <2>2
  <1>2. OneEndpointPerToken'
    <2> SUFFICES ASSUME NEW e \in DOMAIN endpoints' \ retokened', NEW f \in DOMAIN endpoints' \ retokened', e # f,
                        endpoints'[e].application = endpoints'[f].application,
                        endpoints'[e].token = endpoints'[f].token
                 PROVE  {e, f} \in twins'
      BY DEF OneEndpointPerToken
    <2>1. ASSUME NEW x \in {e, f}, NEW y \in {e, f}, Makes(c, x), Keeps(y), y \notin retokened
          PROVE  {x, y} \in twins'
      <3>1. At(c, "insert endpoint") /\ y \in DOMAIN endpoints \ retokened
            /\ endpoints[y].application = request[c].application /\ endpoints[y].token = request[c].token
        BY <2>1 DEF Makes, Keeps
      <3>2. y \in seen[c].made
        BY <3>1 DEF PlatformInv, TokenInv
      <3> QED
        BY <2>1, <3>2, HistoryMade
    <2>2. CASE Keeps(e) /\ Keeps(f) /\ e \notin retokened /\ f \notin retokened
      <3>1. {e, f} \in twins
        BY <2>2 DEF Keeps, PlatformInv, OneEndpointPerToken
      <3> QED
        BY <3>1, HistoryKept
    <2>3. ~(Makes(c, e) /\ Makes(c, f))
      BY DEF Makes
    <2>4. {e, f} = {f, e}
      OBVIOUS
    <2> QED
      BY <2>1, <2>2, <2>3, <2>4, TokenFate
  <1> QED
    BY <1>1, <1>2

LEMMA ApplicationInvStep ==
  ASSUME PlatformInv, ObservePlatform, NEW c \in Client, Reads(c) \/ WritesEnding(c) \/ WritesAtOnce(c)
  PROVE  ApplicationInv' /\ EndpointsHaveApplications'
  <1>1. ApplicationInv'
    <2> SUFFICES ASSUME NEW d \in Client, request'[d].step \in {"find endpoint", "insert endpoint"},
                        request'[d].application \notin DOMAIN applications'
                 PROVE  seen'[d].gone
      BY DEF ApplicationInv
    <2>1. CASE request'[d] = request[d]
      BY <2>1, Seen DEF At
    <2>2. CASE request'[d] # request[d]
      <3>1. d = c /\ ~WritesAtOnce(c)
        BY <2>2, PlatformMoves DEF Others
      <3>2. ~WritesEnding(c)
        BY <3>1, PlatformMoves, IdleStep
      <3>3. LooksOn(c, request'[c]) /\ applications' = applications
        BY <3>1, <3>2, PlatformMoves DEF platformTables
      <3>4. FindsNoEndpoint(c, request'[c])
        BY <3>1, <3>3 DEF LooksOn, OtherSteps, BeginsEndpoint, ReadsEndpoint, ReadsPhone
      <3>5. request[c].step = "find endpoint" /\ request'[c].application = request[c].application
        BY <3>4 DEF FindsNoEndpoint, At
      <3>6. ~At(d, "idle") /\ request'[d].step # "idle"
        BY <3>1, <3>5 DEF At
      <3> QED
        BY <3>1, <3>5, <3>6, Seen
    <2> QED
      BY <2>1, <2>2
  <1>2. EndpointsHaveApplications'
    <2> SUFFICES ASSUME NEW e \in DOMAIN endpoints' \ strays'
                 PROVE  endpoints'[e].application \in DOMAIN applications'
      BY DEF EndpointsHaveApplications
    <2>1. CASE e \in DOMAIN endpoints /\ endpoints'[e].application = endpoints[e].application
      <3>1. e \notin strays
        BY HistoryKept
      <3>2. endpoints[e].application \in DOMAIN applications
        BY <2>1, <3>1 DEF PlatformInv, EndpointsHaveApplications
      <3> QED
        BY <2>1, <3>2, ApplicationFate
    <2>2. CASE Makes(c, e)
      <3>1. ~seen[c].gone
        BY <2>2, HistoryMade
      <3> QED
        BY <2>2, <3>1 DEF Makes, PlatformInv, ApplicationInv, At
    <2> QED
      BY <2>1, <2>2, EndpointFate DEF Keeps
  <1> QED
    BY <1>1, <1>2

LEMMA IssuedStays ==
  ASSUME PlatformInv, NEW c \in Client, Reads(c) \/ WritesEnding(c) \/ WritesAtOnce(c)
  PROVE  issued \subseteq issued'
  <1>1. InsertEndpoint(c) => issued \subseteq issued'
    BY DEF InsertEndpoint
  <1> QED
    BY <1>1 DEF Reads, Read, platformTables, WritesEnding, WritesAtOnce, InsertApplication, UpdateApplication,
       UpdateEndpoint, WriteTags, InsertPhoneNumber, UpdatePhoneNumber, DeleteApplication, DeleteEndpoint,
       DeletePhoneNumber, OptInPhoneNumber, SetSMSAttributes

LEMMA EndpointRowStep ==
  ASSUME PlatformInv, NEW c \in Client, Reads(c) \/ WritesEnding(c) \/ WritesAtOnce(c)
  PROVE  EndpointRowInv'
  <1> SUFFICES ASSUME NEW d \in Client, request'[d].step = "update endpoint"
               PROVE  LET e == request'[d].arn
                      IN  /\ e \in issued'
                          /\ e \in DOMAIN endpoints' => request'[d].row.application = endpoints'[e].application
    BY DEF EndpointRowInv, At
  <1> DEFINE e == request'[d].arn
  <1>1. CASE request'[d] = request[d]
    <2>1. e \in issued /\ (e \in DOMAIN endpoints => request[d].row.application = endpoints[e].application)
      BY <1>1 DEF PlatformInv, EndpointRowInv, At
    <2>2. ASSUME e \in DOMAIN endpoints'
          PROVE  e \in DOMAIN endpoints /\ endpoints'[e].application = endpoints[e].application
      BY <2>1, <2>2, EndpointFate DEF Keeps, Makes
    <2> QED
      BY <1>1, <2>1, <2>2, IssuedStays
  <1>2. CASE request'[d] # request[d]
    <2>1. d = c /\ ~WritesAtOnce(c)
      BY <1>2, PlatformMoves DEF Others
    <2>2. ~WritesEnding(c)
      BY <2>1, PlatformMoves, IdleStep
    <2>3. LooksOn(c, request'[c]) /\ endpoints' = endpoints /\ issued' = issued
      BY <2>1, <2>2, PlatformMoves DEF platformTables
    <2>4. ReadsEndpoint(request'[c])
      BY <2>1, <2>3 DEF LooksOn, OtherSteps, BeginsEndpoint, FindsNoEndpoint, ReadsPhone
    <2> QED
      BY <2>1, <2>3, <2>4 DEF ReadsEndpoint, PlatformInv, RowsOfKind, Rows
  <1> QED
    BY <1>1, <1>2

LEMMA PhoneStepInv ==
  ASSUME PlatformInv, ObservePlatform, now' = now, NEW c \in Client, Reads(c) \/ WritesEnding(c) \/ WritesAtOnce(c)
  PROVE  PhoneInv' /\ CreatedBefore' /\ VerifiedInTime'
  <1>0. /\ \A p \in DOMAIN phones : phones[p] \in PhoneRow /\ phones[p].created <= now
        /\ now \in 0 .. MaxNow
    BY DEF PlatformInv, RowsOfKind, Rows, CreatedBefore, PublishInv, PublishTypesInv
  <1>1. ASSUME NEW p, Updated(c, p)
        PROVE  /\ phones'[p].created = phones[p].created
               /\ phones'[p].verified = request[c].row.verified /\ phones'[p].at = request[c].row.at
    <2>1. request[c].row \in PhoneRow
      BY <1>1 DEF Updated, At, PlatformInv, RequestsOfKind, PlatformOK
    <2> QED
      BY <1>1, <2>1 DEF Updated, PhoneRow
  <1>2. ASSUME NEW p \in DOMAIN phones'
        PROVE  /\ phones'[p].created <= now
               /\ p \in DOMAIN phones => phones'[p].created = phones[p].created
    <2>1. CASE p \in DOMAIN phones /\ phones'[p] = phones[p]
      BY <1>0, <2>1
    <2>2. CASE Created(p)
      BY <1>0, <2>2 DEF Created
    <2>3. CASE Updated(c, p)
      BY <1>0, <1>1, <2>3 DEF Updated
    <2> QED
      BY <2>1, <2>2, <2>3, PhoneFate
  <1>3. CreatedBefore'
    BY <1>2 DEF CreatedBefore
  <1>4. PhoneInv'
    <2> SUFFICES ASSUME NEW d \in Client, request'[d].step = "update phone", ~seen'[d].gone
                 PROVE  LET p == request'[d].phone
                        IN  /\ p \in DOMAIN phones'
                            /\ p \notin revived' => request'[d].row.verified /\ InTime(request'[d].row.at, phones'[p])
      BY DEF PhoneInv, At
    <2> DEFINE p == request'[d].phone
    <2>1. CASE request'[d] = request[d]
      <3>1. ~seen[d].gone /\ p \in DOMAIN phones'
        BY <2>1, Seen DEF At
      <3>2. p \in DOMAIN phones /\ (p \notin revived => request[d].row.verified /\ InTime(request[d].row.at, phones[p]))
        BY <2>1, <3>1 DEF PlatformInv, PhoneInv, At
      <3>3. p \notin revived' => p \notin revived
        BY <3>1, HistoryKept
      <3>4. phones'[p].created = phones[p].created
        BY <1>2, <3>1, <3>2
      <3> QED
        BY <2>1, <3>1, <3>2, <3>3, <3>4 DEF InTime
    <2>2. CASE request'[d] # request[d]
      <3>1. d = c /\ ~WritesAtOnce(c)
        BY <2>2, PlatformMoves DEF Others
      <3>2. ~WritesEnding(c)
        BY <3>1, PlatformMoves, IdleStep
      <3>3. LooksOn(c, request'[c]) /\ phones' = phones
        BY <3>1, <3>2, PlatformMoves DEF platformTables
      <3>4. ReadsPhone(request'[c])
        BY <3>1, <3>3 DEF LooksOn, OtherSteps, BeginsEndpoint, FindsNoEndpoint, ReadsEndpoint
      <3>5. p \in DOMAIN phones' /\ (p \notin revived' => p \notin revived)
        BY <3>1, <3>3, <3>4, HistoryKept DEF ReadsPhone
      <3> QED
        BY <3>1, <3>3, <3>4, <3>5 DEF ReadsPhone
    <2> QED
      BY <2>1, <2>2
  <1>5. VerifiedInTime'
    <2> SUFFICES ASSUME NEW p \in DOMAIN phones', p \notin revived'
                 PROVE  IF phones'[p].verified
                        THEN phones'[p].at \in phones'[p].created .. phones'[p].created + Lifetime
                        ELSE phones'[p].expires = phones'[p].created + Lifetime
      BY DEF VerifiedInTime
    <2>0. p \notin revived
      BY HistoryKept
    <2>1. CASE p \in DOMAIN phones /\ phones'[p] = phones[p]
      BY <2>0, <2>1 DEF PlatformInv, VerifiedInTime
    <2>2. CASE Created(p)
      BY <2>2 DEF Created
    <2>3. CASE Updated(c, p)
      <3>1. ~seen[c].gone
        BY <2>3, HistoryUpdated DEF Updated
      <3>2. request[c].row.verified /\ InTime(request[c].row.at, phones[p])
        BY <2>0, <2>3, <3>1 DEF Updated, PlatformInv, PhoneInv
      <3> QED
        BY <1>1, <2>3, <3>2 DEF InTime
    <2> QED
      BY <2>1, <2>2, <2>3, PhoneFate
  <1> QED
    BY <1>3, <1>4, <1>5
-----------------------------------------------------------------------------
(* Topics and publishes are as SnsProofs and SnsPublishProofs have them,   *)
(* whatever platforms and numbers do.                                      *)
LEMMA PlatformNextSteps ==
  ASSUME PlatformInv, NEW c \in Client, Reads(c) \/ WritesEnding(c) \/ WritesAtOnce(c)
  PROVE  request' = request \/ request'[c].step \in PlatformSteps \cup {"idle"}
  <1>1. LooksOn(c, request'[c]) => request'[c].step \in PlatformSteps \cup {"idle"}
    BY DEF LooksOn, OtherSteps, BeginsEndpoint, FindsNoEndpoint, ReadsEndpoint, ReadsPhone, PlatformSteps
  <1> QED
    BY <1>1, PlatformMoves, IdleStep

LEMMA PublishInvPlatform ==
  ASSUME PublishInv, UNCHANGED <<tables, history, publishTables, publishHistory>>, NEW c \in Client, Others(c),
         request' = request \/ request'[c].step \in PlatformSteps \cup {"idle"}
  PROVE  PublishInv'
  <1>1. /\ topics' = topics /\ subscriptions' = subscriptions /\ drawn' = drawn /\ mailed' = mailed
        /\ noticed' = noticed /\ rivals' = rivals /\ late' = late
        /\ messages' = messages /\ attempts' = attempts /\ handed' = handed
        /\ now' = now /\ steady' = steady /\ wanting' = wanting /\ missed' = missed
    BY DEF tables, history, publishTables, publishHistory
  <1>2. \A d \in Client : request'[d] = request[d] \/ request'[d].step \in PlatformSteps \cup {"idle"}
    BY DEF Others
  <1>3. TypesInv'
    <2>1. ASSUME NEW d \in Client
          PROVE  RequestOK(request[d])'
      <3>1. CASE request'[d] = request[d]
        BY <1>1, <3>1 DEF PublishInv, TopicsInv, TypesInv, RequestOK
      <3>2. CASE request'[d].step \in PlatformSteps \cup {"idle"}
        BY <3>2 DEF RequestOK, PlatformSteps
      <3> QED
        BY <1>2, <3>1, <3>2
    <2>2. DOMAIN request' = Client
      BY DEF Others
    <2> QED
      BY <1>1, <2>1, <2>2 DEF PublishInv, TopicsInv, TypesInv, TopicsTypeOK
  <1>4. ASSUME NEW d \in Client, request'[d].step \in OwnSteps
        PROVE  request'[d] = request[d]
    BY <1>2, <1>4 DEF OwnSteps, PlatformSteps
  <1>5. InsertInv' /\ GoneInv'
    BY <1>1, <1>4 DEF PublishInv, TopicsInv, InsertInv, GoneInv, At, OwnSteps
  <1>6. RowInv' /\ ChangeInv'
    BY <1>1, <1>4 DEF PublishInv, TopicsInv, RowInv, ChangeInv, At, OwnSteps
  <1>7. OneSubscriptionPerEndpoint' /\ DeletedTopicsAreForgotten' /\ ConfirmedByToken'
    BY <1>1 DEF PublishInv, TopicsInv, OneSubscriptionPerEndpoint, DeletedTopicsAreForgotten, ConfirmedByToken
  <1>8. PublishTypesInv'
    <2>1. ASSUME NEW d \in Client
          PROVE  PublishOK(request[d])'
      <3>1. CASE request'[d] = request[d]
        BY <1>1, <3>1 DEF PublishInv, PublishTypesInv, PublishOK
      <3>2. CASE request'[d].step \in PlatformSteps \cup {"idle"}
        BY <3>2 DEF PublishOK, Drafting, Dispatching, PlatformSteps
      <3> QED
        BY <1>2, <3>1, <3>2
    <2>2. PublishTypeOK'
      BY <1>1, <1>3 DEF PublishInv, PublishTypesInv, PublishTypeOK, TypesInv, SavedIds
    <2> QED
      BY <1>1, <2>1, <2>2 DEF PublishInv, PublishTypesInv
  <1>9. ASSUME NEW d \in Client, Drafting(request'[d]) \/ Publishing(request'[d]) \/ request'[d].step = "answer"
        PROVE  request'[d] = request[d]
    BY <1>2, <1>9 DEF Drafting, Publishing, Dispatching, PlatformSteps
  <1>10. IdsInv'
    <2>1. SavedIds' = SavedIds
      BY <1>1 DEF SavedIds
    <2>2. \A d \in Client : Dispatching(request'[d]) => Publishing(request'[d])
      BY DEF Publishing
    <2> QED
      BY <1>1, <1>9, <2>1, <2>2 DEF PublishInv, IdsInv, At
  <1>11. RepeatInv' /\ SequenceInv' /\ OnlyOverlappingPublishesRepeat' /\ SequencesIncrease'
    BY <1>1, <1>9 DEF PublishInv, RepeatInv, SequenceInv, OnlyOverlappingPublishesRepeat, SequencesIncrease, At, Drafting
  <1>12. DispatchInv'
    <2>1. ASSUME NEW d \in Client, Dispatching(request'[d])
          PROVE  TriedInv(d)' /\ WantedInv(d)'
      <3>1. request'[d] = request[d]
        BY <1>9, <2>1 DEF Publishing
      <3>2. TriedInv(d) /\ WantedInv(d)
        BY <2>1, <3>1 DEF PublishInv, DispatchInv
      <3> QED
        BY <1>1, <3>1, <3>2 DEF TriedInv, WantedInv, Attempted, Handed, ConfirmedOn, Of, At
    <2> QED
      BY <1>1, <2>1 DEF PublishInv, DispatchInv
  <1> QED
    BY <1>3, <1>5, <1>6, <1>7, <1>8, <1>10, <1>11, <1>12 DEF PublishInv, TopicsInv

LEMMA PlatformInvStep ==
  ASSUME PlatformInv, NEW c \in Client, PlatformStep(c), ObservePlatform,
         UNCHANGED <<tables, history, publishTables, publishHistory>>
  PROVE  PlatformInv'
  <1>1. Reads(c) \/ WritesEnding(c) \/ WritesAtOnce(c)
    BY PlatformKinds
  <1>2. now' = now
    BY DEF publishTables
  <1>3. PublishInv'
    <2>1. Others(c)
      BY <1>1, PlatformMoves
    <2> QED
      BY <1>1, <2>1, PlatformNextSteps, PublishInvPlatform DEF PlatformInv
  <1>4. RowsOfKind' /\ RequestsOfKind'
    BY <1>1, <1>2, PlatformRows, PlatformRequests
  <1>5. TokenInv' /\ OneEndpointPerToken' /\ ApplicationInv' /\ EndpointsHaveApplications' /\ EndpointRowInv'
    BY <1>1, TokenStep, ApplicationInvStep, EndpointRowStep
  <1>6. PhoneInv' /\ CreatedBefore' /\ VerifiedInTime'
    BY <1>1, <1>2, PhoneStepInv
  <1> QED
    BY <1>3, <1>4, <1>5, <1>6 DEF PlatformInv

(* What requests of topics and publishes do leaves those of applications,  *)
(* endpoints and numbers where they are, or fails them.                    *)
LEMMA PublishKeeps ==
  ASSUME PlatformInv, PublishNext, NEW d \in Client, request'[d].step \in PlatformSteps
  PROVE  request'[d] = request[d]
  <1>1. CASE Tick
    BY <1>1 DEF Tick
  <1>2. ASSUME NEW c \in Client, RowStep(c)
        PROVE  request'[d] = request[d]
    <2>1. Others(c)
      BY <1>2, ClientSteps DEF PlatformInv, PublishInv
    <2>2. request'[c].step \in OwnSteps \cup {"idle"}
      BY <1>2, OwnStepsOnly DEF RowStep, PlatformInv, PublishInv, TopicsInv
    <2> QED
      BY <2>1, <2>2 DEF Others, OwnSteps, PlatformSteps
  <1>3. ASSUME NEW c \in Client, PublishStep(c)
        PROVE  request'[d] = request[d]
    <2>1. Others(c)
      BY <1>3, ClientSteps DEF PlatformInv, PublishInv
    <2>2. Works(c) \/ Ends(c) \/ request' = request
      BY <1>3, PublishKinds DEF Aims, PlatformInv, PublishInv, TopicsInv, TypesInv
    <2>3. Works(c) \/ Ends(c) => request'[c].step \notin PlatformSteps
      BY DEF Works, Ends, Begins, Looks, Takes, Saves, Lists, Delivers, Records, PlatformSteps
    <2> QED
      BY <2>1, <2>2, <2>3 DEF Others
  <1> QED
    BY <1>1, <1>2, <1>3 DEF PublishNext

LEMMA PlatformInvPublish ==
  ASSUME PlatformInv, PublishNext, UNCHANGED <<platformTables, platformHistory>>
  PROVE  PlatformInv'
  <1>1. /\ applications' = applications /\ endpoints' = endpoints /\ issued' = issued /\ phones' = phones
        /\ sms' = sms /\ seen' = seen /\ twins' = twins /\ retokened' = retokened /\ strays' = strays
        /\ revived' = revived
    BY DEF platformTables, platformHistory
  <1>2. PublishInv'
    BY PublishInvNext DEF PlatformInv
  <1>3. now \in Nat /\ now' \in Nat /\ now <= now'
    <2>1. now \in 0 .. MaxNow /\ now' \in 0 .. MaxNow
      BY <1>2 DEF PlatformInv, PublishInv, PublishTypesInv
    <2>2. now' = now \/ now' = now + 1
      BY ClientSteps DEF PublishNext, Tick, PlatformInv, PublishInv
    <2> QED
      BY <2>1, <2>2, PublishAssumption
  <1>4. RequestsOfKind'
    <2>1. ASSUME NEW d \in Client, request'[d].step \in PlatformSteps
          PROVE  PlatformOK(request[d])'
      <3>1. request'[d] = request[d] /\ PlatformOK(request[d])
        BY <2>1, PublishKeeps DEF PlatformInv, RequestsOfKind
      <3>2. request[d].created \in 0 .. now => request[d].created \in 0 .. now'
        BY <1>3
      <3> QED
        BY <3>1, <3>2 DEF PlatformOK
    <2>2. ASSUME NEW d \in Client, request'[d].step \notin PlatformSteps
          PROVE  PlatformOK(request[d])'
      BY <2>2 DEF PlatformOK, PlatformSteps
    <2> QED
      BY <2>1, <2>2 DEF RequestsOfKind
  <1>5. RowsOfKind' /\ EndpointsHaveApplications' /\ OneEndpointPerToken' /\ VerifiedInTime'
    BY <1>1 DEF PlatformInv, RowsOfKind, Rows, EndpointsHaveApplications, OneEndpointPerToken, VerifiedInTime
  <1>6. ApplicationInv' /\ TokenInv' /\ EndpointRowInv'
    BY <1>1, PublishKeeps DEF PlatformInv, ApplicationInv, TokenInv, EndpointRowInv, At, PlatformSteps
  <1>7. PhoneInv'
    BY <1>1, PublishKeeps DEF PlatformInv, PhoneInv, At, PlatformSteps
  <1>8. CreatedBefore'
    <2> SUFFICES ASSUME NEW p \in DOMAIN phones
                 PROVE  phones[p].created <= now'
      BY <1>1 DEF CreatedBefore
    <2>1. phones[p].created \in 0 .. MaxNow /\ phones[p].created <= now
      BY DEF PlatformInv, RowsOfKind, Rows, PhoneRow, CreatedBefore
    <2> QED
      BY <1>3, <2>1, PublishAssumption
  <1> QED
    BY <1>2, <1>4, <1>5, <1>6, <1>7, <1>8 DEF PlatformInv
-----------------------------------------------------------------------------
LEMMA PlatformInvInit ==
  PlatformInit => PlatformInv
  <1> SUFFICES ASSUME PlatformInit
               PROVE  PlatformInv
    OBVIOUS
  <1>1. PublishInv
    BY PublishInvInit DEF PlatformInit
  <1>2. \A c \in Client : request[c].step = "idle"
    BY DEF PlatformInit, PublishInit, TopicsInit, Idle
  <1>3. DOMAIN applications = {} /\ DOMAIN endpoints = {} /\ DOMAIN phones = {} /\ issued = {} /\ sms \in SmsRow
    BY DEF PlatformInit, SmsRow
  <1>4. RowsOfKind
    BY <1>3 DEF RowsOfKind, Rows
  <1>5. RequestsOfKind /\ ApplicationInv /\ TokenInv /\ EndpointRowInv /\ PhoneInv
    BY <1>2 DEF RequestsOfKind, PlatformOK, ApplicationInv, TokenInv, EndpointRowInv, PhoneInv, At
  <1>6. CreatedBefore /\ EndpointsHaveApplications /\ OneEndpointPerToken /\ VerifiedInTime
    BY <1>3 DEF CreatedBefore, EndpointsHaveApplications, OneEndpointPerToken, VerifiedInTime
  <1> QED
    BY <1>1, <1>4, <1>5, <1>6 DEF PlatformInv

LEMMA PlatformInvStutter ==
  ASSUME PlatformInv, UNCHANGED platformVars
  PROVE  PlatformInv'
  <1>1. /\ applications' = applications /\ endpoints' = endpoints /\ issued' = issued /\ phones' = phones
        /\ sms' = sms /\ seen' = seen /\ twins' = twins /\ retokened' = retokened /\ strays' = strays
        /\ revived' = revived /\ request' = request /\ now' = now
    BY DEF platformVars, platformTables, platformHistory, publishVars, topicVars, publishTables
  <1>2. PublishInv'
    BY PublishInvStutter DEF platformVars, PlatformInv
  <1>3. RowsOfKind' /\ EndpointsHaveApplications' /\ OneEndpointPerToken' /\ VerifiedInTime' /\ CreatedBefore'
    BY <1>1 DEF PlatformInv, RowsOfKind, Rows, EndpointsHaveApplications, OneEndpointPerToken, VerifiedInTime,
       CreatedBefore
  <1>4. RequestsOfKind' /\ ApplicationInv' /\ TokenInv' /\ EndpointRowInv' /\ PhoneInv'
    BY <1>1 DEF PlatformInv, RequestsOfKind, PlatformOK, ApplicationInv, TokenInv, EndpointRowInv, PhoneInv, At
  <1> QED
    BY <1>2, <1>3, <1>4 DEF PlatformInv

LEMMA PlatformInvNext ==
  PlatformInv /\ [PlatformNext]_platformVars => PlatformInv'
  BY PlatformInvStep, PlatformInvPublish, PlatformInvStutter DEF PlatformNext

LEMMA PlatformInvAlways ==
  PlatformSpec => []PlatformInv
  BY PlatformInvInit, PlatformInvNext, PTL DEF PlatformSpec

(* The rows of applications, endpoints and numbers are of their kinds,     *)
(* under ARNs that were given out, among the requests of the whole         *)
(* service.                                                                *)
THEOREM PlatformTypes ==
  PlatformSpec => []PlatformTypeOK
  <1>1. PlatformInv => PlatformTypeOK
    BY DEF PlatformInv, PublishInv, PublishTypesInv, RowsOfKind, Rows, ApplicationRow, EndpointRow, PhoneRow, SmsRow,
       PlatformTypeOK
  <1> QED
    BY <1>1, PlatformInvAlways, PTL

(* An endpoint belongs to an application that is there and is the only one *)
(* of its token, but for what platform_service.go reads and inserts in two *)
(* statements, and for a token that is set later and looked for by none.   *)
THEOREM EndpointsBelong ==
  PlatformSpec => []EndpointsConsistent
  <1>1. PlatformInv => EndpointsConsistent
    BY DEF PlatformInv, EndpointsConsistent
  <1> QED
    BY <1>1, PlatformInvAlways, PTL

(* A sandbox number is verified within the life of the password of its own *)
(* row, though the verification is written after it was checked.           *)
THEOREM NumbersInTime ==
  PlatformSpec => []VerifiedInTime
  <1>1. PlatformInv => VerifiedInTime
    BY DEF PlatformInv
  <1> QED
    BY <1>1, PlatformInvAlways, PTL

(* What a step of the service writes to topics and hands to endpoints.     *)
LEMMA ServiceSteps ==
  ASSUME PlatformInv, PlatformNext
  PROVE  (WritesOneChange /\ Deserved) \/ UNCHANGED <<topics, subscriptions, handed>>
  <1>0. PublishInv /\ TopicsInv
    BY DEF PlatformInv, PublishInv
  <1>1. CASE PublishNext
    <2>1. Deserved
      BY <1>0, <1>1, DeservedStep
    <2>2. CASE Tick
      BY <1>0, <2>1, <2>2, RestWritesOneChange DEF Tick, tables
    <2>3. ASSUME NEW c \in Client, RowStep(c)
          PROVE  WritesOneChange
      BY <1>0, <2>3, StepKinds, StepWritesOneChange DEF RowStep
    <2>4. ASSUME NEW c \in Client, PublishStep(c)
          PROVE  WritesOneChange
      <3>1. DOMAIN request = Client
        BY <1>0 DEF TopicsInv, TypesInv
      <3>2. topics' = topics /\ subscriptions' = subscriptions
        BY <2>4, <3>1, PublishMoves DEF tables
      <3> QED
        BY <1>0, <3>2, RestWritesOneChange
    <2> QED
      BY <1>1, <2>1, <2>2, <2>3, <2>4 DEF PublishNext
  <1> QED
    BY <1>1 DEF PlatformNext, tables, publishTables

(* What the theorems of topics and of publishes say holds of the whole     *)
(* service, with the requests of platforms and numbers among theirs.       *)
THEOREM PublishesAmongPlatform ==
  PlatformSpec =>
    /\ [](OneSubscriptionPerEndpoint /\ DeletedTopicsAreForgotten /\ ConfirmedByToken)
    /\ [](OnlyOverlappingPublishesRepeat /\ SequencesIncrease /\ EverySubscriberOnce)
    /\ OnlyOvertakenUpdatesLose /\ HandedToSubscribers
  <1>1. PlatformInv => /\ OneSubscriptionPerEndpoint /\ DeletedTopicsAreForgotten /\ ConfirmedByToken
                       /\ OnlyOverlappingPublishesRepeat /\ SequencesIncrease /\ EverySubscriberOnce
    BY EveryOnce DEF PlatformInv, PublishInv, TopicsInv
  <1>2. PlatformInv /\ [PlatformNext]_platformVars => [WritesOneChange]_topicVars /\ [Deserved]_publishVars
    <2> SUFFICES ASSUME PlatformInv, [PlatformNext]_platformVars
                 PROVE  [WritesOneChange]_topicVars /\ [Deserved]_publishVars
      OBVIOUS
    <2>1. CASE UNCHANGED platformVars
      BY <2>1 DEF platformVars, publishVars
    <2>2. CASE UNCHANGED <<topics, subscriptions, handed>>
      <3>1. WritesOneChange
        BY <2>2, RestWritesOneChange DEF PlatformInv, PublishInv
      <3>2. Deserved
        BY <2>2 DEF Deserved
      <3> QED
        BY <3>1, <3>2
    <2> QED
      BY <2>1, <2>2, ServiceSteps
  <1>3. PlatformSpec => [][WritesOneChange]_topicVars /\ [][Deserved]_publishVars
    BY <1>2, PlatformInvAlways, PTL DEF PlatformSpec
  <1>4. [][WritesOneChange]_topicVars => OnlyOvertakenUpdatesLose
    BY PTL DEF OnlyOvertakenUpdatesLose, WritesOneChange, OneTopicChange, OneSubscriptionChange
  <1>5. [][Deserved]_publishVars => HandedToSubscribers
    BY PTL DEF HandedToSubscribers, Deserved
  <1> QED
    BY <1>1, <1>3, <1>4, <1>5, PlatformInvAlways, PTL
=============================================================================
