-------------------------- MODULE ProtectedRequests --------------------------
(***************************************************************************)
(* One HTTP request to the API, from its arrival to its answer: the        *)
(* controllers of apps/api/src/index.ts, the authorization chain of        *)
(* composition.ts, the adapters of platform-http and auth/http-adapter.ts, *)
(* and what the services do between them and their stores.                 *)
(*                                                                         *)
(* A request is a plan: the calls it waits for, one after the other.  What *)
(* they look at changes while it waits: the session ends or its token      *)
(* does, an employment is closed, perhaps back-dated, a policy is          *)
(* published, the thing asked for comes and goes.  Every check reads what  *)
(* holds at its own moment, and no two of them share a transaction.        *)
(*                                                                         *)
(* A file operation puts its facts in the audit trail under its            *)
(* idempotency key; AuditTrail has the rest of that trail.  The process    *)
(* that answers is in ApiLifecycle, and what it says of its readiness in   *)
(* ApiProbes.                                                              *)
(***************************************************************************)
EXTENDS Naturals, Sequences, ApiProbes, ApiLifecycle

CONSTANTS
  HttpChanges,   \* bound: changes outside while requests wait
  HttpSends      \* bound: times the browser sends its request, under one key

VARIABLES
  outside,       \* what is true outside: [session, employed, permitted, target]
  sent,          \* the request: [op, cookie, browser, body, key]
  waiting,       \* the place in its plan, 0 when it is answered
  asOf,          \* employed as of the request's own time
  keyFact,       \* the fact on record under the idempotency key
  response,      \* the answer, by the class of its status
  effect,        \* the request did, or disclosed, what was asked
  (* observation: what held and what did not at some moment since the       *)
  (* request came, a call failed, its own record stood in its way, a        *)
  (* failure of the identity provider was taken for its refusal             *)
  heldOnce, lapsedOnce, failedOnce, clashed, misjudged, httpChanges, sends

httpVars == <<outside, sent, waiting, asOf, keyFact, response, effect,
              heldOnce, lapsedOnce, failedOnce, clashed, misjudged, httpChanges, sends>>

-----------------------------------------------------------------------------
(* What is asked.                                                          *)

\* The calls of every operation, in their order: authorize takes a principal, a workforce
\* context and a permission of every operation that is not about the session itself.
Plan ==
  [login           |-> <<"begin">>,
   callback        |-> <<"complete">>,
   session         |-> <<"principal">>,
   refresh         |-> <<"mutation", "rotate">>,
   logout          |-> <<"mutation", "revoke">>,
   loadRegistry    |-> <<"principal", "workforce", "permission", "serve">>,
   resolveDeepLink |-> <<"principal", "workforce", "permission", "find", "decide", "serve">>,
   readForm        |-> <<"principal", "workforce", "permission", "decide", "find", "serve">>,
   validateForm    |-> <<"principal", "workforce", "permission", "decide", "find", "serve">>,
   createUpload    |-> <<"mutation", "principal", "workforce", "permission", "decide", "serve",
                         "succeed">>,
   confirmUpload   |-> <<"mutation", "principal", "workforce", "permission", "decide", "find",
                         "decideOnFile", "serve", "succeed">>,
   download        |-> <<"principal", "workforce", "permission", "decide", "find", "decide",
                         "serve", "succeed">>]

Operations == DOMAIN Plan
AuthOperations == {"login", "callback", "session", "refresh", "logout"}
RegistryOps == {"loadRegistry", "resolveDeepLink"}
FormOps == {"readForm", "validateForm"}
FileOps == {"createUpload", "confirmUpload", "download"}
Mutations == {"refresh", "logout", "createUpload", "confirmUpload"}

\* Without a body, or a parameter, nothing can be wrong with it.
Bodies(op) ==
  IF op = "createUpload" THEN {"sound", "unsound", "excessive"}
  ELSE IF op \in {"session", "refresh", "logout", "loadRegistry"} THEN {"sound"}
  ELSE {"sound", "unsound"}

HttpRequests ==
  {r \in [op : Operations, cookie : {"good", "none", "malformed"},
          browser : {"trusted", "untrusted", "garbled", "foreign"},
          body : {"sound", "unsound", "excessive"}, key : BOOLEAN] :
     /\ r.body \in Bodies(r.op)
     /\ r.op \in {"login", "callback"} => r.cookie = "none"
     /\ r.op \notin Mutations => r.browser = "trusted"
     /\ r.op \notin FileOps => r.key}

NoFact == <<"none", "none">>
Fact(result, about) == <<result, about>>

HttpInit ==
  /\ outside = [session |-> "live", employed |-> TRUE, permitted |-> TRUE, target |-> "ready"]
  /\ sent = [op |-> "none"]
  /\ waiting = 0 /\ asOf = TRUE /\ keyFact = NoFact
  /\ response = "none" /\ effect = FALSE
  /\ heldOnce = {} /\ lapsedOnce = {} /\ failedOnce = FALSE /\ clashed = FALSE /\ misjudged = FALSE
  /\ httpChanges = 0 /\ sends = 0

\* What holds outside: the session is stored, and its token verifies; the person
\* is employed and permitted; the target is there, open to the caller and free.
FactsOf(o) ==
  {f \in {"stored", "session", "employed", "permitted", "found", "open", "free"} :
     \/ f = "stored" /\ o.session # "ended"
     \/ f = "session" /\ o.session = "live"
     \/ f = "employed" /\ o.employed
     \/ f = "permitted" /\ o.permitted
     \/ f = "found" /\ o.target # "missing"
     \/ f = "open" /\ o.target # "denied"
     \/ f = "free" /\ o.target # "conflict"}
AllFacts == {"stored", "session", "employed", "permitted", "found", "open", "free"}

-----------------------------------------------------------------------------
(* Errors and their answers, surface by surface.                           *)

\* errorMappings and errorResponse of auth/http-adapter.ts; the callback and CSRF
\* refusals of the controller are the same answers.
AuthStatus ==
  [callback_invalid |-> "invalid", csrf_rejected |-> "forbidden", dependency |-> "unavailable",
   refresh_in_progress |-> "conflict", refresh_rejected |-> "unauthorized",
   session_invalid |-> "unauthorized"]

\* A defect: an identity provider that is down counts as a session that is invalid.
RegistryStatusOfAnySession ==
  [dependency |-> "unauthorized", session_invalid |-> "unauthorized",
   not_employed |-> "forbidden", denied |-> "forbidden",
   invalid_input |-> "invalid", target_unavailable |-> "missing"]

\* registryAuthorizationFailure until the caller is authorized, then errorResponse of
\* the adapter.
RegistryStatus ==
  [dependency |-> "unavailable", session_invalid |-> "unauthorized",
   not_employed |-> "forbidden", denied |-> "forbidden",
   invalid_input |-> "invalid", target_unavailable |-> "missing"]

\* mapped and the failures of form-schema-http.ts.
FormStatus ==
  [invalid_input |-> "invalid", session_invalid |-> "unauthorized", dependency |-> "unavailable",
   not_employed |-> "forbidden", denied |-> "forbidden", not_found |-> "missing"]

\* errorResponse of file-center-http.ts.
FileStatus ==
  [invalid_input |-> "invalid", session_invalid |-> "unauthorized", csrf_rejected |-> "forbidden",
   dependency |-> "unavailable", not_employed |-> "forbidden", denied |-> "forbidden",
   not_found |-> "missing", operation_conflict |-> "conflict"]

StatusOf(op, e) ==
  IF op \in AuthOperations THEN AuthStatus[e]
  ELSE IF op \in RegistryOps THEN RegistryStatus[e]
  ELSE IF op \in FormOps THEN FormStatus[e] ELSE FileStatus[e]

-----------------------------------------------------------------------------
(* Arrival: what is refused before anything is waited for.                 *)

\* Queries, headers and cookies of PcAuthenticationController and parsePcSessionCredential;
\* a log-out without a cookie must still come from a page of the application.
AuthRefusals(r) ==
  {e \in DOMAIN AuthStatus :
     \/ e = "callback_invalid" /\ r.body = "unsound"
     \/ /\ e = "csrf_rejected"
        /\ \/ r.browser = "garbled"
           \/ r.op = "logout" /\ r.cookie = "none" /\ r.browser = "foreign"
     \/ /\ e = "session_invalid"
        /\ \/ r.cookie = "malformed"
           \/ r.op \in {"session", "refresh"} /\ r.cookie = "none" /\ r.browser # "garbled"}

\* Forms and files look at what they were sent before they look at who sent it; the
\* registry looks at the sender alone.
Refusals(r) ==
  IF r.op \in AuthOperations THEN AuthRefusals(r)
  ELSE IF r.op \notin RegistryOps /\ (r.body = "unsound" \/ ~r.key) THEN {"invalid_input"}
  ELSE IF r.cookie # "good" THEN {"session_invalid"} ELSE {}

\* Without a session to end, log-out clears the cookie and that is all.
AnonymousLogout(r) == r.op = "logout" /\ r.cookie = "none"

ResponseSent == sent.op # "none" /\ waiting = 0

\* The first request, or the same one again.
Arrive(r) ==
  /\ sent.op = "none" \/ (ResponseSent /\ r = sent)
  /\ sends < HttpSends
  /\ sent' = r /\ sends' = sends + 1 /\ asOf' = outside.employed
  /\ effect' = FALSE /\ failedOnce' = FALSE /\ clashed' = FALSE /\ misjudged' = FALSE
  /\ heldOnce' = FactsOf(outside) /\ lapsedOnce' = AllFacts \ FactsOf(outside)
  /\ IF Refusals(r) # {}
     THEN waiting' = 0 /\ \E e \in Refusals(r) : response' = StatusOf(r.op, e)
     ELSE IF AnonymousLogout(r) THEN waiting' = 0 /\ response' = "ok"
     ELSE waiting' = 1 /\ response' = "none"
  /\ UNCHANGED <<outside, keyFact, httpChanges>>

-----------------------------------------------------------------------------
(* The calls, one action each.                                             *)

AtCall(call) == waiting > 0 /\ Plan[sent.op][waiting] = call

Pass ==
  IF waiting = Len(Plan[sent.op]) THEN waiting' = 0 /\ response' = "ok"
  ELSE waiting' = waiting + 1 /\ UNCHANGED response

Reject(e) == waiting' = 0 /\ response' = StatusOf(sent.op, e)

\* Nothing but the place in the plan, and what is being observed.
ReadsOnly == UNCHANGED <<outside, asOf, keyFact, effect, clashed>>

\* validateBrowserMutation: an origin of the application and the session's CSRF token.
BrowserIsTrusted == sent.browser = "trusted"

\* sessionForMutation, then the browser; a file operation's own time is read
\* when it goes on to resolve its actor.
Mutation ==
  /\ AtCall("mutation")
  /\ asOf' = outside.employed
  /\ IF outside.session = "ended" THEN Reject("session_invalid")
     ELSE IF ~BrowserIsTrusted THEN Reject("csrf_rejected") ELSE Pass
  /\ UNCHANGED <<outside, keyFact, effect, clashed>>

\* loadVerifiedSession, which drops a session whose token does not verify.
Principal ==
  /\ AtCall("principal")
  /\ IF outside.session = "live" THEN Pass ELSE Reject("session_invalid")
  /\ outside' = IF outside.session = "stale" THEN [outside EXCEPT !.session = "ended"] ELSE outside
  /\ effect' = (sent.op = "session" /\ outside.session = "live")
  /\ UNCHANGED <<asOf, keyFact, clashed>>

\* resolveWorkforceContext, as of the request's own time.
Workforce ==
  /\ AtCall("workforce")
  /\ IF asOf THEN Pass ELSE Reject("not_employed")
  /\ ReadsOnly

\* deepLink: what the body of a link must be.
LinkIsUnsound == sent.op = "resolveDeepLink" /\ sent.body = "unsound"

\* requireAllowed; a deep link's shape is looked at once its sender is allowed.
Permission ==
  /\ AtCall("permission")
  /\ IF ~outside.permitted THEN Reject("denied")
     ELSE IF LinkIsUnsound THEN Reject("invalid_input")
     ELSE Pass
  /\ ReadsOnly

-----------------------------------------------------------------------------
(* What the services ask and do.                                           *)

\* fileAudit.record: the trail keeps the first meaning of a key and refuses another.
Accepted(fact) == keyFact \in {NoFact, fact}

\* What a file operation's decision is about: the owner it uploads for, the upload
\* session, the file, or the resource the file is linked to.
DecidedOn ==
  IF AtCall("decideOnFile") THEN "file"
  ELSE [createUpload |-> "owner", confirmUpload |-> "session", download |-> "target"][sent.op]

\* Who may: a link by the codes of its route, a form and a file by the permission that
\* was asked before, asked again.
RouteAllowed == outside.target # "denied"
FormAllowed == outside.permitted
FileAllowed == outside.permitted

\* authorize of the file service: decide, put it on record, then go on or refuse.
DecideOnFiles ==
  LET fact == Fact(IF FileAllowed THEN "attempted" ELSE "denied", DecidedOn) IN
  /\ IF Accepted(fact)
     THEN /\ keyFact' = fact /\ UNCHANGED clashed
          /\ IF FileAllowed THEN Pass ELSE Reject("denied")
     ELSE clashed' = TRUE /\ Reject("dependency") /\ UNCHANGED keyFact
  /\ UNCHANGED <<outside, asOf, effect>>

\* The services' own decisions.
AuthorizeCall ==
  /\ AtCall("decide") \/ AtCall("decideOnFile")
  /\ IF sent.op \in FileOps THEN DecideOnFiles
     ELSE /\ IF (sent.op \in FormOps /\ FormAllowed) \/ (sent.op \in RegistryOps /\ RouteAllowed)
             THEN Pass ELSE Reject("denied")
          /\ ReadsOnly

\* findRelease, the routes of a link, findSession, findContentVersion and findActiveLink;
\* a file that is not linked to the resource is denied on the record.
FindTarget ==
  /\ AtCall("find")
  /\ IF outside.target = "missing"
     THEN /\ Reject(IF sent.op \in RegistryOps THEN "target_unavailable" ELSE "not_found")
          /\ UNCHANGED <<keyFact, clashed>>
     ELSE IF sent.op = "download" /\ outside.target = "denied"
     THEN LET fact == Fact("denied", "target") IN
          IF Accepted(fact) THEN Reject("denied") /\ keyFact' = fact /\ UNCHANGED clashed
          ELSE Reject("dependency") /\ clashed' = TRUE /\ UNCHANGED keyFact
     ELSE Pass /\ UNCHANGED <<keyFact, clashed>>
  /\ UNCHANGED <<outside, asOf, effect>>

\* What the operation is for: the registry, the link, the release and its verdict, the
\* upload and its grant, the completion, the download's grant.  Too large an upload is
\* found out here; a grant is not yet disclosed.
Serve ==
  /\ AtCall("serve")
  /\ IF sent.op \in FileOps /\ sent.body = "excessive"
     THEN Reject("invalid_input") /\ UNCHANGED effect
     ELSE IF sent.op \in FileOps /\ outside.target = "conflict"
     THEN Reject("operation_conflict") /\ UNCHANGED effect
     ELSE Pass /\ effect' = (sent.op # "download")
  /\ UNCHANGED <<outside, asOf, keyFact, clashed>>

\* succeeded: the last fact of a file operation, under the same key as its first.
Succeed ==
  LET fact == Fact("succeeded", "file") IN
  /\ AtCall("succeed")
  /\ IF Accepted(fact)
     THEN Pass /\ keyFact' = fact /\ effect' = TRUE /\ UNCHANGED clashed
     ELSE Reject("dependency") /\ clashed' = TRUE /\ UNCHANGED <<keyFact, effect>>
  /\ UNCHANGED <<outside, asOf>>

\* refresh: another refresh has the lease, the session is gone, the provider refuses; a
\* refreshed session has another credential.
RefreshSession ==
  /\ AtCall("rotate")
  /\ IF outside.session = "ended" THEN Reject("session_invalid") /\ UNCHANGED <<outside, effect>>
     ELSE IF outside.target = "conflict"
     THEN Reject("refresh_in_progress") /\ UNCHANGED <<outside, effect>>
     ELSE IF outside.target = "denied"
     THEN Reject("refresh_rejected") /\ UNCHANGED <<outside, effect>>
     ELSE Pass /\ effect' = TRUE /\ outside' = [outside EXCEPT !.session = "ended"]
  /\ UNCHANGED <<asOf, keyFact, clashed>>

\* logout, which succeeds as well when the session has gone meanwhile.
EndSession ==
  /\ AtCall("revoke")
  /\ Pass /\ effect' = TRUE
  /\ outside' = [outside EXCEPT !.session = "ended"]
  /\ UNCHANGED <<asOf, keyFact, clashed>>

\* beginLogin.
StartLogin == AtCall("begin") /\ Pass /\ effect' = TRUE /\ UNCHANGED <<outside, asOf, keyFact, clashed>>

\* completeLogin: the transaction is consumed, then the provider asked.
FinishLogin ==
  /\ AtCall("complete")
  /\ IF outside.target = "missing"
     THEN Reject("callback_invalid") /\ UNCHANGED <<outside, effect>>
     ELSE /\ outside' = [outside EXCEPT !.target = "missing"]
          /\ IF outside.target = "denied"
             THEN /\ Reject("callback_invalid") \/ Reject("session_invalid")
                  /\ UNCHANGED effect
             ELSE Pass /\ effect' = TRUE
  /\ UNCHANGED <<asOf, keyFact, clashed>>

\* A call fails.  A refresh, a log-out or an upload may have been done all the same, and
\* a login transaction consumed.
Fail ==
  /\ waiting > 0
  /\ Reject("dependency")
  /\ effect' \in IF AtCall("serve") /\ sent.op = "createUpload"
                   /\ sent.body = "sound" /\ outside.target # "conflict"
                THEN BOOLEAN ELSE {effect}
  /\ outside' \in {outside}
       \cup (IF AtCall("rotate") \/ AtCall("revoke")
             THEN {[outside EXCEPT !.session = "ended"]} ELSE {})
       \cup (IF AtCall("complete") THEN {[outside EXCEPT !.target = "missing"]} ELSE {})
  /\ UNCHANGED <<asOf, keyFact, clashed>>

\* The identity provider fails and its failure is taken for a refusal (Logins has the
\* kinds): its token endpoint does not answer in time, or not in a way that can be read, or
\* does not know the client; or its signing keys cannot be read.  By then the login
\* transaction is consumed; a session whose token was only checked is dropped, and one that
\* was to be refreshed is not.
Misjudge ==
  /\ \/ /\ AtCall("complete") /\ outside.target # "missing"
        /\ Reject("callback_invalid") \/ Reject("session_invalid")
        /\ outside' = [outside EXCEPT !.target = "missing"]
     \/ /\ AtCall("rotate") /\ outside.session # "ended" /\ outside.target # "conflict"
        /\ Reject("refresh_rejected") \/ Reject("session_invalid")
        /\ UNCHANGED outside
     \/ /\ AtCall("principal") /\ outside.session = "live"
        /\ Reject("session_invalid")
        /\ outside' = [outside EXCEPT !.session = "ended"]
  /\ UNCHANGED <<asOf, keyFact, effect, clashed>>

-----------------------------------------------------------------------------
(* Meanwhile.                                                              *)

\* Others change what holds outside.  An employment is closed, or opened, as of now or as
\* of a time before the request's own.
Change ==
  /\ httpChanges < HttpChanges
  /\ httpChanges' = httpChanges + 1
  /\ \/ /\ outside.session # "ended"
        /\ outside' \in {[outside EXCEPT !.session = x] : x \in {"stale", "ended"}}
        /\ UNCHANGED asOf
     \/ /\ outside' = [outside EXCEPT !.employed = ~@]
        /\ asOf' \in {asOf, outside'.employed}
     \/ outside' = [outside EXCEPT !.permitted = ~@] /\ UNCHANGED asOf
     \/ /\ \E t \in {"ready", "missing", "conflict", "denied"} :
             outside' = [outside EXCEPT !.target = t]
        /\ UNCHANGED asOf
  /\ UNCHANGED <<sent, waiting, keyFact, response, effect, failedOnce, clashed, misjudged, sends>>

Call ==
  /\ \/ Mutation \/ Principal \/ Workforce \/ Permission \/ AuthorizeCall \/ FindTarget \/ Serve
     \/ Succeed \/ RefreshSession \/ EndSession \/ StartLogin \/ FinishLogin
  /\ UNCHANGED <<sent, failedOnce, misjudged, httpChanges, sends>>

\* What holds, and does not, is watched from the arrival to the answer.
Watch ==
  /\ heldOnce' = heldOnce \cup FactsOf(outside')
  /\ lapsedOnce' = lapsedOnce \cup (AllFacts \ FactsOf(outside'))

HttpNext ==
  \/ \E r \in HttpRequests : Arrive(r)
  \/ Call /\ Watch
  \/ Fail /\ failedOnce' = TRUE /\ UNCHANGED <<sent, misjudged, httpChanges, sends>> /\ Watch
  \/ Misjudge /\ misjudged' = TRUE /\ UNCHANGED <<sent, failedOnce, httpChanges, sends>> /\ Watch
  \/ waiting > 0 /\ Change /\ Watch
  \/ waiting = 0 /\ Change /\ UNCHANGED <<heldOnce, lapsedOnce>>
  \/ ResponseSent /\ sends = HttpSends /\ UNCHANGED httpVars

HttpSpec == HttpInit /\ [][HttpNext]_httpVars

-----------------------------------------------------------------------------
(* Properties.                                                             *)

\* What an operation may not do without: what its calls ask, in facts.
Needs(op) ==
  LET asked == {Plan[op][i] : i \in DOMAIN Plan[op]} IN
  {f \in AllFacts :
     \/ f = "stored" /\ op \in Mutations
     \/ f = "session" /\ "principal" \in asked
     \/ f = "employed" /\ "workforce" \in asked
     \/ f = "permitted" /\ "permission" \in asked
     \/ f = "found" /\ ("find" \in asked \/ op = "callback")
     \/ f = "open" /\ op \in {"callback", "refresh", "resolveDeepLink", "download"}
     \/ f = "free" /\ op \in {"refresh"} \cup FileOps}

\* Whatever changes while a request waits, it does nothing, and discloses nothing, unless
\* its cookie, its page and its body were good and everything the operation needs held at
\* some moment since the request came (composition.ts authorize, platform-http).
EffectsAreEarned ==
  effect =>
    /\ sent.body = "sound" /\ sent.key
    /\ sent.op \in {"login", "callback"} \/ sent.cookie = "good"
    /\ sent.op \in Mutations => sent.browser = "trusted"
    /\ Needs(sent.op) \subseteq heldOnce

\* A refusal says what was so, at some moment since the request came, and only an answer
\* of "unavailable" leaves open whether anything was done (the error tables of
\* auth/http-adapter.ts and platform-http).  The exception is a failure of the identity
\* provider that is taken for its refusal: a callback may then be called invalid, and it, a
\* refresh or a check of the session unauthorized, though nothing had lapsed
\* (auth/oidc.ts:107-146, auth/session-service.ts:201-248).
RefusalsAreTrue ==
  /\ response = "invalid" =>
       \/ sent.body # "sound" \/ ~sent.key
       \/ sent.op = "callback" /\ (misjudged \/ {"found", "open"} \cap lapsedOnce # {})
  /\ response = "unauthorized" =>
       \/ sent.cookie # "good" /\ sent.op # "callback"
       \/ "session" \in lapsedOnce
       \/ sent.op \in {"callback", "refresh"} /\ "open" \in lapsedOnce
       \/ misjudged
  /\ response = "forbidden" =>
       sent.browser # "trusted" \/ {"employed", "permitted", "open"} \cap lapsedOnce # {}
  /\ response = "missing" => "found" \in lapsedOnce
  /\ response = "conflict" => "free" \in lapsedOnce
  /\ response = "unavailable" => failedOnce \/ clashed
  /\ response \in {"invalid", "unauthorized", "forbidden", "missing", "conflict"} => ~effect
  /\ response = "ok" => effect \/ AnonymousLogout(sent)

\* What the HTTP surfaces owe their callers (index.ts:40-306).
RequestsAreHonest == EffectsAreEarned /\ RefusalsAreTrue

\* The contract of the file surface: "unavailable" says that something was
\* (contracts/http/modules/file-center.openapi.yaml:70).
UnavailableMeansFailure == response = "unavailable" => failedOnce

\* The API process: what its probes report, how it starts and ends, and what it answers
\* of a protected request (apps/api/src/composition-factory.ts:560-749,
\* apps/api/src/index.ts:144-503).
ApiIsSound == ReadinessIsEarned /\ ApiIsHonest /\ RequestsAreHonest
=============================================================================
