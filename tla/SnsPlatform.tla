----------------------------- MODULE SnsPlatform -----------------------------
(***************************************************************************)
(* The rest of SNS (platform_service.go, sms_service.go and the tags of    *)
(* admin_service.go): applications for push notifications and their        *)
(* endpoints, and the phone numbers of the SMS sandbox.  Requests are      *)
(* sequences of statements among those of SnsPublish, with its clock.      *)
(***************************************************************************)
EXTENDS SnsPublish

CONSTANTS
  Platform,     \* platforms of applications
  AppName,      \* their names
  DeviceToken,  \* tokens of endpoints
  Setting,      \* attributes of applications, endpoints and of SMS
  Phone,        \* phone numbers
  Lifetime,     \* how long a one-time password is good, ten minutes
  MaxEndpoint   \* bound: endpoints ever made

ASSUME PlatformAssumption == Lifetime \in Nat /\ MaxEndpoint \in Nat

(* The ARN of an application is made of its platform and name. *)
Application == Platform \X AppName
EndpointArn == 1 .. MaxEndpoint

VARIABLES
  applications,  \* the rows of applications, by their ARN
  endpoints,     \* the rows of platform endpoints, by their ARN
  issued,        \* the ARNs that were given to endpoints
  phones,        \* the rows of sandbox numbers
  sms,           \* the SMS attributes, and the numbers that opted in
  seen,          \* what happened since a request began; see ObservePlatform
  twins,         \* pairs of endpoints that were made at one time
  retokened,     \* endpoints that were given another token
  strays,        \* endpoints made while their application was deleted
  revived        \* numbers updated by a request that had read an earlier row

platformTables == <<applications, endpoints, issued, phones, sms>>
platformHistory == <<seen, twins, retokened, strays, revived>>
platformVars == <<publishVars, platformTables, platformHistory>>

Unseen == [made |-> {}, gone |-> FALSE]

PlatformInit ==
  /\ PublishInit
  /\ applications = <<>> /\ endpoints = <<>> /\ issued = {} /\ phones = <<>>
  /\ sms = [attributes |-> {}, optedIn |-> {}]
  /\ seen = [c \in Client |-> Unseen]
  /\ twins = {} /\ retokened = {} /\ strays = {} /\ revived = {}

(* c goes on to next, having read. *)
Read(c, next) == Goto(c, next) /\ UNCHANGED platformTables
-----------------------------------------------------------------------------
(* Applications: an application of the name, on any platform, is returned  *)
(* instead of a new one.                                                   *)
Named(name) == {a \in DOMAIN applications : a[2] = name}

CreateApplication(c, a, settings) ==
  /\ Ready(c) /\ Named(a[2]) = {}
  /\ Read(c, [step |-> "insert application", application |-> a, settings |-> settings])

InsertApplication(c) ==
  /\ At(c, "insert application")
  /\ Goto(c, Idle)
  /\ LET a == request[c].application
     IN  applications' = IF a \in DOMAIN applications THEN applications
                         ELSE Inserted(applications, a, [settings |-> request[c].settings, tags |-> {}])
  /\ UNCHANGED <<endpoints, issued, phones, sms>>

SetApplicationAttributes(c, a, settings) ==
  /\ Ready(c) /\ a \in DOMAIN applications
  /\ Read(c, [step |-> "update application", application |-> a,
              row |-> [applications[a] EXCEPT !.settings = @ \cup settings]])

UpdateApplication(c) ==
  /\ At(c, "update application")
  /\ Goto(c, Idle)
  /\ applications' = Overwritten(applications, request[c].application, request[c].row)
  /\ UNCHANGED <<endpoints, issued, phones, sms>>

EndpointsOf(a) == {e \in DOMAIN endpoints : endpoints[e].application = a}

(* Mistaken variant of DeleteApplication: its endpoints stay. *)
DeleteApplicationAlone(c, a) ==
  /\ Ready(c) /\ a \in DOMAIN applications
  /\ applications' = Deleted(applications, {a})
  /\ UNCHANGED <<request, endpoints, issued, phones, sms>>

(* One transaction: the endpoints of the application, then the             *)
(* application.                                                            *)
DeleteApplication(c, a) ==
  /\ Ready(c) /\ a \in DOMAIN applications
  /\ endpoints' = Deleted(endpoints, EndpointsOf(a))
  /\ applications' = Deleted(applications, {a})
  /\ UNCHANGED <<request, issued, phones, sms>>
-----------------------------------------------------------------------------
(* Endpoints: one that has the token is returned instead of a new one. *)
CreatePlatformEndpoint(c, a, token, settings) ==
  /\ Ready(c) /\ a \in DOMAIN applications
  /\ Read(c, [step |-> "find endpoint", application |-> a, token |-> token, settings |-> settings])

WithToken(a, token) == {e \in EndpointsOf(a) : endpoints[e].token = token}

(* Mistaken variant of FindEndpoint: no endpoint is looked for. *)
DoNotFindEndpoint(c) ==
  /\ At(c, "find endpoint")
  /\ Read(c, [request[c] EXCEPT !.step = "insert endpoint"])

FindEndpoint(c) ==
  /\ At(c, "find endpoint")
  /\ Read(c, IF WithToken(request[c].application, request[c].token) # {} THEN Idle
             ELSE [request[c] EXCEPT !.step = "insert endpoint"])

InsertEndpoint(c) ==
  /\ At(c, "insert endpoint")
  /\ Goto(c, Idle)
  /\ \E e \in EndpointArn \ issued :
       /\ \A other \in EndpointArn \ issued : e <= other
       /\ endpoints' = Inserted(endpoints, e, [application |-> request[c].application, token |-> request[c].token,
                                               settings |-> request[c].settings, tags |-> {}])
       /\ issued' = issued \cup {e}
  /\ UNCHANGED <<applications, phones, sms>>

(* Another token is not looked for among the other endpoints. *)
SetEndpointAttributes(c, e, token, settings) ==
  /\ Ready(c) /\ e \in DOMAIN endpoints
  /\ Read(c, [step |-> "update endpoint", arn |-> e,
              row |-> [endpoints[e] EXCEPT !.token = token, !.settings = @ \cup settings]])

UpdateEndpoint(c) ==
  /\ At(c, "update endpoint")
  /\ Goto(c, Idle)
  /\ endpoints' = Overwritten(endpoints, request[c].arn, request[c].row)
  /\ UNCHANGED <<applications, issued, phones, sms>>

DeleteEndpoint(c, e) ==
  /\ Ready(c) /\ e \in DOMAIN endpoints
  /\ endpoints' = Deleted(endpoints, {e})
  /\ UNCHANGED <<request, applications, issued, phones, sms>>
-----------------------------------------------------------------------------
(* Tags of applications and endpoints, unlike those of topics, are written *)
(* without the rest of the row.                                            *)
ReadTags(c, kind, key, table, keys, add) ==
  /\ Ready(c) /\ key \in DOMAIN table /\ keys # {}
  /\ add => Cardinality(table[key].tags \cup keys) <= MaxTags
  /\ Read(c, [step |-> "write tags", kind |-> kind, key |-> key,
              tags |-> IF add THEN table[key].tags \cup keys ELSE table[key].tags \ keys])

Tagged(table, kind, r) ==
  IF r.kind = kind /\ r.key \in DOMAIN table
  THEN Overwritten(table, r.key, [table[r.key] EXCEPT !.tags = r.tags])
  ELSE table

WriteTags(c) ==
  /\ At(c, "write tags")
  /\ Goto(c, Idle)
  /\ applications' = Tagged(applications, "application", request[c])
  /\ endpoints' = Tagged(endpoints, "endpoint", request[c])
  /\ UNCHANGED <<issued, phones, sms>>
-----------------------------------------------------------------------------
(* Phone numbers.  A number that is there stays as it is. *)
CreatePhoneNumber(c, p) ==
  /\ Ready(c) /\ p \notin DOMAIN phones
  /\ Read(c, [step |-> "insert phone", phone |-> p, created |-> now])

InsertPhoneNumber(c) ==
  /\ At(c, "insert phone")
  /\ Goto(c, Idle)
  /\ LET p == request[c].phone
         created == request[c].created
         row == [verified |-> FALSE, created |-> created, expires |-> created + Lifetime, at |-> 0]
     IN  phones' = IF p \in DOMAIN phones THEN phones ELSE Inserted(phones, p, row)
  /\ UNCHANGED <<applications, endpoints, issued, sms>>

VerifyTo(c, p, row) == Read(c, [step |-> "update phone", phone |-> p, row |-> row])

(* Mistaken variant of VerifyPhoneNumber: the password does not expire. *)
VerifyAnyTime(c, p) ==
  /\ Ready(c) /\ p \in DOMAIN phones
  /\ VerifyTo(c, p, IF phones[p].verified THEN phones[p]
                    ELSE [phones[p] EXCEPT !.verified = TRUE, !.expires = 0, !.at = now])

(* With the password of the row, which is the same for all. *)
VerifyPhoneNumber(c, p) ==
  /\ Ready(c) /\ p \in DOMAIN phones
  /\ \/ phones[p].verified /\ VerifyTo(c, p, phones[p])
     \/ /\ ~phones[p].verified /\ now <= phones[p].expires
        /\ VerifyTo(c, p, [phones[p] EXCEPT !.verified = TRUE, !.expires = 0, !.at = now])

(* All but the time of creation is written. *)
UpdatePhoneNumber(c) ==
  /\ At(c, "update phone")
  /\ Goto(c, Idle)
  /\ LET p == request[c].phone
     IN  phones' = [q \in DOMAIN phones |->
                      IF q = p THEN [request[c].row EXCEPT !.created = phones[p].created] ELSE phones[q]]
  /\ UNCHANGED <<applications, endpoints, issued, sms>>

DeletePhoneNumber(c, p) ==
  /\ Ready(c) /\ p \in DOMAIN phones
  /\ phones' = Deleted(phones, {p})
  /\ UNCHANGED <<request, applications, endpoints, issued, sms>>

SetSMSAttributes(c, settings) ==
  /\ Ready(c)
  /\ sms' = [sms EXCEPT !.attributes = settings]
  /\ UNCHANGED <<request, applications, endpoints, issued, phones>>

OptInPhoneNumber(c, p) ==
  /\ Ready(c)
  /\ sms' = [sms EXCEPT !.optedIn = @ \cup {p}]
  /\ UNCHANGED <<request, applications, endpoints, issued, phones>>
-----------------------------------------------------------------------------
ApplicationStep(c) ==
  \/ \E a \in Application :
       \/ \E settings \in SUBSET Setting :
            \/ CreateApplication(c, a, settings) \/ SetApplicationAttributes(c, a, settings)
            \/ \E token \in DeviceToken : CreatePlatformEndpoint(c, a, token, settings)
       \/ DeleteApplication(c, a)
       \/ \E keys \in SUBSET Label, add \in BOOLEAN : ReadTags(c, "application", a, applications, keys, add)
  \/ \E e \in EndpointArn :
       \/ \E token \in DeviceToken, settings \in SUBSET Setting : SetEndpointAttributes(c, e, token, settings)
       \/ DeleteEndpoint(c, e)
       \/ \E keys \in SUBSET Label, add \in BOOLEAN : ReadTags(c, "endpoint", e, endpoints, keys, add)
  \/ InsertApplication(c) \/ UpdateApplication(c) \/ FindEndpoint(c)
  \/ InsertEndpoint(c) \/ UpdateEndpoint(c) \/ WriteTags(c)

PhoneStep(c) ==
  \/ \E p \in Phone :
       \/ CreatePhoneNumber(c, p) \/ VerifyPhoneNumber(c, p) \/ DeletePhoneNumber(c, p)
       \/ OptInPhoneNumber(c, p)
  \/ \E settings \in SUBSET Setting : SetSMSAttributes(c, settings)
  \/ InsertPhoneNumber(c) \/ UpdatePhoneNumber(c)

(* What a request does not see: which endpoints were made since it looked  *)
(* for one; that its application, or the number it read, was deleted.      *)
ObservePlatform ==
  /\ seen' = [c \in Client |->
       IF request'[c].step = "idle" \/ At(c, "idle") THEN Unseen
       ELSE [made |-> IF At(c, "insert endpoint") THEN seen[c].made \cup (issued' \ issued) ELSE {},
             gone |-> \/ seen[c].gone
                      \/ /\ request[c].step \in {"find endpoint", "insert endpoint"}
                         /\ request[c].application \notin DOMAIN applications'
                      \/ At(c, "update phone") /\ request[c].phone \notin DOMAIN phones']]
  /\ LET making == {c \in Client : At(c, "insert endpoint") /\ issued' # issued /\ request'[c] = Idle}
         pairs == UNION {UNION {{{e, f} : f \in seen[c].made} : e \in issued' \ issued} : c \in making}
         stray == UNION {issued' \ issued : c \in {d \in making : seen[d].gone}}
         given == {request[c].arn : c \in {d \in Client : At(d, "update endpoint") /\ request'[d] = Idle
                                             /\ request[d].arn \in DOMAIN endpoints
                                             /\ request[d].row.token # endpoints[request[d].arn].token}}
         again == {request[c].phone : c \in {d \in Client : At(d, "update phone") /\ request'[d] = Idle /\ seen[d].gone}}
     IN  /\ twins' = {pair \in twins \cup pairs : pair \subseteq DOMAIN endpoints'}
         /\ strays' = (strays \cup stray) \cap DOMAIN endpoints'
         /\ retokened' = (retokened \cup given) \cap DOMAIN endpoints'
         /\ revived' = (revived \cup again) \cap DOMAIN phones'

PlatformStep(c) ==
  \/ ApplicationStep(c) \/ PhoneStep(c)
  \/ Fail(c) /\ UNCHANGED platformTables

PlatformNext ==
  \/ PublishNext /\ UNCHANGED <<platformTables, platformHistory>>
  \/ /\ \E c \in Client : PlatformStep(c)
     /\ ObservePlatform
     /\ UNCHANGED <<tables, history, publishTables, publishHistory>>

PlatformSpec == PlatformInit /\ [][PlatformNext]_platformVars
-----------------------------------------------------------------------------
PlatformTypeOK ==
  /\ PublishTypeOK
  /\ DOMAIN applications \subseteq Application
  /\ \A a \in DOMAIN applications : applications[a] \in [settings : SUBSET Setting, tags : SUBSET Label]
  /\ DOMAIN endpoints \subseteq issued /\ issued \subseteq EndpointArn
  /\ \A e \in DOMAIN endpoints :
       endpoints[e] \in [application : Application, token : DeviceToken,
                         settings : SUBSET Setting, tags : SUBSET Label]
  /\ DOMAIN phones \subseteq Phone
  /\ \A p \in DOMAIN phones :
       phones[p] \in [verified : BOOLEAN, created : 0 .. MaxNow, expires : 0 .. MaxNow + Lifetime, at : 0 .. MaxNow]
  /\ sms \in [attributes : SUBSET Setting, optedIn : SUBSET Phone]

(* Deleting an application leaves no endpoint of it, for a later one of    *)
(* the same name to take over, but for one whose request had found the     *)
(* application before.                                                     *)
EndpointsHaveApplications ==
  \A e \in DOMAIN endpoints \ strays : endpoints[e].application \in DOMAIN applications

(* A token has one endpoint in an application, unless two requests looked  *)
(* for it before either had made it, or an endpoint was given the token    *)
(* later.                                                                  *)
OneEndpointPerToken ==
  \A e, f \in DOMAIN endpoints \ retokened :
    /\ e # f /\ endpoints[e].application = endpoints[f].application
    /\ endpoints[e].token = endpoints[f].token
    => {e, f} \in twins

(* Both: an endpoint belongs to an application and is its token's only one.*)
EndpointsConsistent == EndpointsHaveApplications /\ OneEndpointPerToken

(* A number is verified while the password of its own row is good, even if *)
(* the number was deleted and created again, unless that happened while it *)
(* was verified.                                                           *)
VerifiedInTime ==
  \A p \in DOMAIN phones \ revived :
    IF phones[p].verified THEN phones[p].at \in phones[p].created .. phones[p].created + Lifetime
    ELSE phones[p].expires = phones[p].created + Lifetime
=============================================================================
