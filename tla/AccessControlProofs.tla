------------------------ MODULE AccessControlProofs ------------------------
(***************************************************************************)
(* Who gets through to the repository and to the metrics, for all settings *)
(* a process can be started with and all requests.                         *)
(***************************************************************************)
EXTENDS AccessControl, OrderBodyProofs, TLAPS

(* Nothing is served under settings that Settings.validate refuses. *)
Started ==
  /\ settings \in AllSettings /\ request \in AllRequests
  /\ process = "serving" => Valid
  /\ stage # "idle" => process = "serving"

Inside == {"limit", "validate", "tenant", "repository"}

(* What is left of a request at each stage: nothing of an earlier one. *)
Fresh ==
  /\ stage \in Stages
  /\ stage = "idle" => status = 0 /\ counted = {}
  /\ stage \notin {"idle", "answered"} => status = 0 /\ counted = {"requests"}
  /\ stage \in {"idle", "auth", "metrics"} => principal = None /\ reached = {}
  /\ stage \in Inside => {"repository", "metrics"} \cap reached = {}
  /\ stage \in {"auth"} \cup Inside => request.route # "metrics"
  /\ stage = "metrics" => request.route = "metrics"
  /\ stage = "tenant" => request.route # "admin" /\ UserId > 0

(* The principal is the one of the credential the settings accept. *)
Allowed ==
  \/ Skips /\ principal = None
  \/ ~Skips /\ ByKey /\ principal = KeyPrincipal(request.key) /\ May(principal)
  \/ /\ ~Skips /\ ByJwt /\ ~Refused(request.token)
     /\ principal = JwtPrincipal(request.token) /\ May(principal)

Authenticated ==
  /\ stage \in Inside \/ "repository" \in reached => request.route # "metrics" /\ Allowed
  /\ stage = "limit" => ~Skips

TenantChecked ==
  stage = "repository" \/ "repository" \in reached =>
    \/ request.route = "admin" \/ ~settings.enforce_tenant_auth
    \/ {"admin", "internal"} \cap principal.roles # {}
    \/ HasTenant

Limited ==
  (stage \in {"validate", "tenant", "repository"} \/ "repository" \in reached) /\ ~Skips =>
    settings.limiter \in {"off", "gateway"} \/ "limiter" \in reached

MetricsGuarded ==
  "metrics" \in reached => settings.metrics = "open" \/ request.metrics_token

IInv ==
  /\ Started /\ Fresh /\ Authenticated /\ TenantChecked /\ Limited /\ MetricsGuarded
  /\ EntitledServed /\ Accounted

-----------------------------------------------------------------------------
(* While a request is in hand, what it is judged by does not change. *)
LEMMA SameRequest ==
  ASSUME UNCHANGED <<settings, process, request>>
  PROVE  /\ Valid' = Valid /\ Skips' = Skips /\ ByKey' = ByKey /\ ByJwt' = ByJwt
         /\ UserId' = UserId /\ KeyEntitles' = KeyEntitles /\ IsProduction' = IsProduction
BY DEF Valid, Skips, ByKey, ByJwt, UserId, KeyEntitles, UsesKeys, UsesJwt, KnownKey, IsProduction

(* A key whose roles cover the route has the privilege, and the reverse. *)
LEMMA KeysCover ==
  ASSUME NEW k \in Keys, NEW route \in {"create", "user", "admin"}
  PROVE  /\ (Role[route] \in KeyRoles[k] \/ "admin" \in KeyRoles[k])
              <=> Privilege[k] >= Needed[route]
         /\ "internal" \in KeyRoles[k]
         /\ KeySubject[k] # "anonymous"
         /\ k # "legacy" => KeySubject[k] # "api-key-legacy"
<1>1. /\ KeyRoles["read"] = {"orders:read", "internal"}
      /\ KeyRoles["write"] = {"orders:read", "orders:write", "internal"}
      /\ KeyRoles["admin"] = Roles /\ KeyRoles["legacy"] = Roles
  BY DEF KeyRoles
<1>2. /\ Privilege["read"] = 1 /\ Privilege["write"] = 2
      /\ Privilege["admin"] = 3 /\ Privilege["legacy"] = 3
  BY DEF Privilege
<1>3. /\ KeySubject["read"] = "api-key-read" /\ KeySubject["write"] = "api-key-write"
      /\ KeySubject["admin"] = "api-key-admin" /\ KeySubject["legacy"] = "api-key-legacy"
  BY DEF KeySubject
<1>4. /\ Role["create"] = "orders:write" /\ Role["user"] = "orders:read" /\ Role["admin"] = "admin"
      /\ Needed["create"] = 2 /\ Needed["user"] = 1 /\ Needed["admin"] = 3
  BY DEF Role, Needed
<1>5. CASE k = "read"
  BY <1>5, <1>1, <1>2, <1>3, <1>4
<1>6. CASE k = "write"
  BY <1>6, <1>1, <1>2, <1>3, <1>4
<1>7. CASE k = "admin"
  BY <1>7, <1>1, <1>2, <1>3, <1>4 DEF Roles
<1>8. CASE k = "legacy"
  BY <1>8, <1>1, <1>2, <1>3, <1>4 DEF Roles
<1> QED  BY <1>5, <1>6, <1>7, <1>8 DEF Keys

LEMMA InitIInv == Init => IInv
<1> SUFFICES ASSUME Init PROVE IInv
  OBVIOUS
<1>1. request \in RequestsTried
  BY RequestsAssumption DEF Init, NoRequest
<1>2. Started
  BY <1>1, SettingsAssumption, RequestsAssumption DEF Init, Started
<1>3. Fresh /\ Authenticated /\ TenantChecked /\ Limited /\ MetricsGuarded
  BY DEF Init, Fresh, Stages, Inside, Authenticated, TenantChecked, Limited, MetricsGuarded
<1>4. EntitledServed /\ Accounted
  BY DEF Init, EntitledServed, Accounted
<1> QED  BY <1>2, <1>3, <1>4 DEF IInv

(* What an answer, and an exception, leave in the counters. *)
LEMMA AnswerAccounted ==
  ASSUME NEW code \in Nat, NEW counters, counted = {"requests"}, Answer(code, counters),
         counters \subseteq {"auth_failures", "auth_forbidden", "rate_limited"},
         "rate_limited" \in counters <=> code = 429,
         "auth_failures" \in counters => code = 401,
         "auth_forbidden" \in counters => code = 403
  PROVE  Accounted'
BY DEF Answer, Accounted

LEMMA RaiseAccounted ==
  ASSUME counted = {"requests"}, Raise
  PROVE  Accounted'
BY DEF Raise, Accounted

(* An answer keeps who was let in and where to. *)
LEMMA AnswerKeeps ==
  ASSUME IInv, stage' = "answered",
         UNCHANGED <<settings, process, request, principal>>,
         reached' \in {reached, reached \cup {"limiter"}}, stage # "idle"
  PROVE  /\ Started' /\ Fresh' /\ Authenticated' /\ TenantChecked' /\ Limited'
         /\ MetricsGuarded'
<1>1. /\ Valid' = Valid /\ Skips' = Skips /\ ByKey' = ByKey /\ ByJwt' = ByJwt
      /\ UserId' = UserId /\ KeyEntitles' = KeyEntitles /\ IsProduction' = IsProduction
  BY SameRequest
<1>2. Started'
  BY <1>1 DEF IInv, Started
<1>3. Fresh'
  BY DEF IInv, Fresh, Stages, Inside
<1>4. Allowed' = Allowed /\ HasTenant' = HasTenant
  BY <1>1 DEF Allowed, May, HasTenant
<1>5. "repository" \in reached' => "repository" \in reached
  OBVIOUS
<1>6. Authenticated'
  BY <1>4, <1>5 DEF IInv, Authenticated, Inside
<1>7. TenantChecked'
  BY <1>4, <1>5 DEF IInv, TenantChecked
<1>8. Limited'
  BY <1>1, <1>5 DEF IInv, Limited
<1>9. MetricsGuarded'
  BY DEF IInv, MetricsGuarded
<1> QED  BY <1>2, <1>3, <1>6, <1>7, <1>8, <1>9

(* Who answers other than 401 and 403 refuses nobody. *)
LEMMA Unrefused ==
  ASSUME status' \notin {401, 403}
  PROVE  EntitledServed'
BY DEF EntitledServed

LEMMA StartupStep == ASSUME IInv, Startup PROVE IInv'
<1>1. /\ UNCHANGED <<settings, request, stage, principal, status, counted, reached>>
      /\ process' = "serving" => Valid
      /\ process = "starting"
  BY DEF Startup
<1>2. stage = "idle"
  BY <1>1 DEF IInv, Started
<1>3. Valid' = Valid
  BY <1>1 DEF Valid, IsProduction, UsesKeys, UsesJwt
<1>4. Started'
  BY <1>1, <1>2, <1>3 DEF IInv, Started
<1>5. Fresh' /\ MetricsGuarded' /\ Accounted'
  BY <1>1, <1>2 DEF IInv, Fresh, Stages, Inside, MetricsGuarded, Accounted
<1>6. status' = 0 /\ reached' = {} /\ stage' = "idle"
  BY <1>1, <1>2 DEF IInv, Fresh
<1>7. Authenticated' /\ TenantChecked' /\ Limited'
  BY <1>6 DEF Authenticated, TenantChecked, Limited, Inside
<1>8. EntitledServed'
  BY <1>6, Unrefused
<1> QED  BY <1>4, <1>5, <1>7, <1>8 DEF IInv

LEMMA ReceiveStep == ASSUME IInv, NEW r \in RequestsTried, Receive(r) PROVE IInv'
<1>1. /\ process = "serving" /\ stage = "idle" /\ status = 0
      /\ principal = None /\ reached = {} /\ counted = {}
  BY DEF Receive, IInv, Fresh
<1>2. /\ request' = r /\ r \in AllRequests
      /\ UNCHANGED <<settings, process, principal, reached>>
  BY RequestsAssumption DEF Receive
<1>3. \/ stage' = "answered" /\ status' = 422 /\ counted' = {"requests", "status"}
      \/ /\ stage' = IF r.route = "metrics" THEN "metrics" ELSE "auth"
         /\ counted' = {"requests"} /\ status' = 0
  BY <1>1 DEF Receive
<1>4. Valid' = Valid
  BY <1>2 DEF Valid, IsProduction, UsesKeys, UsesJwt
<1>5. Started'
  BY <1>1, <1>2, <1>4 DEF IInv, Started
<1>6. Fresh'
  BY <1>1, <1>2, <1>3 DEF Fresh, Stages, Inside
<1>7. stage' \in {"answered", "auth", "metrics"} /\ reached' = {} /\ status' \in {0, 422}
  BY <1>1, <1>2, <1>3
<1>8. Authenticated' /\ TenantChecked' /\ Limited' /\ MetricsGuarded'
  BY <1>7 DEF Authenticated, TenantChecked, Limited, MetricsGuarded, Inside
<1>9. EntitledServed'
  BY <1>7, Unrefused
<1>10. Accounted'
  BY <1>3 DEF Accounted
<1> QED  BY <1>5, <1>6, <1>8, <1>9, <1>10 DEF IInv

LEMMA FinishStep == ASSUME IInv, Finish PROVE IInv'
<1>1. /\ request' = NoRequest /\ stage' = "idle" /\ principal' = None
      /\ status' = 0 /\ counted' = {} /\ reached' = {}
      /\ UNCHANGED <<settings, process>>
  BY DEF Finish
<1>2. NoRequest \in AllRequests
  BY RequestsAssumption DEF NoRequest
<1>3. Valid' = Valid
  BY <1>1 DEF Valid, IsProduction, UsesKeys, UsesJwt
<1>4. Started' /\ Fresh'
  BY <1>1, <1>2, <1>3 DEF IInv, Started, Fresh, Stages, Inside
<1>5. Authenticated' /\ TenantChecked' /\ Limited' /\ MetricsGuarded'
  BY <1>1 DEF Authenticated, TenantChecked, Limited, MetricsGuarded, Inside
<1>6. EntitledServed' /\ Accounted'
  BY <1>1 DEF EntitledServed, Accounted
<1> QED  BY <1>4, <1>5, <1>6 DEF IInv

(* A stage that lets a request pass leaves it as it is. *)
LEMMA MetricsStep == ASSUME IInv, Metrics PROVE IInv'
<1>1. /\ stage = "metrics" /\ request.route = "metrics" /\ reached = {} /\ counted = {"requests"}
      /\ UNCHANGED <<settings, process, request, principal>>
  BY DEF Metrics, IInv, Fresh
<1>2. EntitledServed'
  BY <1>1 DEF EntitledServed
<1>3. CASE settings.metrics = "open" \/ (settings.metrics = "token" /\ request.metrics_token)
  <2>1. Answer(200, {}) /\ reached' = {"metrics"}
    BY <1>3 DEF Metrics
  <2>2. Accounted'
    BY <1>1, <2>1, AnswerAccounted
  <2>3. stage' = "answered"
    BY <2>1 DEF Answer
  <2>4. Valid' = Valid
    BY <1>1, SameRequest
  <2>5. Started' /\ Fresh'
    BY <1>1, <2>3, <2>4 DEF IInv, Started, Fresh, Stages, Inside
  <2>6. Authenticated' /\ TenantChecked' /\ Limited'
    BY <2>1, <2>3 DEF Authenticated, TenantChecked, Limited, Inside
  <2>7. MetricsGuarded'
    BY <1>1, <1>3 DEF MetricsGuarded
  <2> QED  BY <1>2, <2>2, <2>5, <2>6, <2>7 DEF IInv
<1>4. CASE ~(settings.metrics = "open" \/ (settings.metrics = "token" /\ request.metrics_token))
  <2>1. Answer(401, {}) /\ reached' = reached
    BY <1>4 DEF Metrics
  <2>2. Accounted'
    BY <1>1, <2>1, AnswerAccounted
  <2>3. stage' = "answered"
    BY <2>1 DEF Answer
  <2> QED  BY <1>1, <1>2, <2>1, <2>2, <2>3, AnswerKeeps DEF IInv
<1> QED  BY <1>3, <1>4

LEMMA RequestTyped ==
  ASSUME IInv, request.route # "metrics"
  PROVE  /\ request.route \in {"create", "user", "admin"} /\ UserId \in Nat
         /\ request.route # "create" => UserId > 0
         /\ request.key \in Keys \cup {"none", "wrong", "non_ascii"} /\ settings.keys \subseteq Keys
         /\ request.token \in Tokens
<1>1. /\ request \in AllRequests /\ settings \in AllSettings
  BY DEF IInv, Started
<1>2. request.body \in Bodies /\ request.user_id \in Users
  BY <1>1 DEF AllRequests
<1>3. request.body.user_id \in 0 .. MaxUserId + 1
  BY <1>2 DEF Bodies
<1>4. MaxUserId \in Nat
  BY TableAssumption
<1>5. request.body.user_id \in Nat /\ request.user_id \in Nat /\ request.user_id > 0
  BY <1>2, <1>3, <1>4 DEF Users
<1>6. request.route \in {"create", "user", "admin"}
  BY <1>1 DEF AllRequests
<1>7. request.key \in Keys \cup {"none", "wrong", "non_ascii"} /\ settings.keys \subseteq Keys
  BY <1>1 DEF AllRequests, AllSettings
<1>8. request.token \in Tokens
  BY <1>1 DEF AllRequests
<1> QED  BY <1>5, <1>6, <1>7, <1>8 DEF UserId

(* The principal's tenant is one of the two claims of its token. *)
LEMMA TenantClaims ==
  ASSUME NEW t
  PROVE  TenantClaim(t) \in {t.tenant_id, t.user_id}
BY DEF TenantClaim

(* One credential that entitles makes a principal that may. *)
LEMMA EntitledKey ==
  ASSUME IInv, process = "serving", request.route # "metrics", KeyEntitles
  PROVE  ByKey /\ ~ByJwt /\ May(KeyPrincipal(request.key))
<1>1. request.route \in {"create", "user", "admin"} /\ settings.keys \subseteq Keys
  BY RequestTyped
<1>2. UsesKeys /\ request.key \in settings.keys /\ Privilege[request.key] >= Needed[request.route]
  BY DEF KeyEntitles
<1>3. request.key = "legacy" => ~IsProduction
  BY <1>2 DEF IInv, Started, Valid
<1>4. request.key # "none" /\ request.key \in Keys
  BY <1>1, <1>2 DEF Keys
<1>5. ByKey /\ ~ByJwt
  BY <1>2, <1>3, <1>4 DEF ByKey, ByJwt, KnownKey
<1>6. \/ Role[request.route] \in KeyRoles[request.key]
      \/ "admin" \in KeyRoles[request.key]
  BY <1>1, <1>2, <1>4, KeysCover
<1> QED  BY <1>5, <1>6 DEF May, KeyPrincipal

LEMMA EntitledToken ==
  ASSUME IInv, process = "serving", request.route # "metrics", request.key = "none",
         {request.token.tenant_id, request.token.user_id} \subseteq {NoClaim, 0, UserId},
         TokenEntitles({request.token.tenant_id, request.token.user_id})
  PROVE  /\ ~ByKey /\ ByJwt /\ ~Refused(request.token) /\ May(JwtPrincipal(request.token))
<1>1. UsesJwt /\ request.token.kind = "claims"
  BY DEF TokenEntitles
<1>2. ~ByKey /\ ByJwt
  BY <1>1 DEF ByKey, ByJwt
<1>3. TenantClaim(request.token) # BadClaim
  BY TenantClaims, RequestTyped DEF NoClaim, BadClaim
<1>4. May(JwtPrincipal(request.token))
  BY DEF TokenEntitles, May, JwtPrincipal
<1> QED  BY <1>1, <1>2, <1>3, <1>4 DEF Refused

Entitled ==
  /\ settings.auth_mode # "disabled" /\ request.route # "metrics"
  /\ \/ request.token.kind = "none" /\ KeyEntitles
     \/ /\ request.key = "none"
        /\ {request.token.tenant_id, request.token.user_id} \subseteq {NoClaim, 0, UserId}
        /\ TokenEntitles({request.token.tenant_id, request.token.user_id})

(* So no refusal meets one who is entitled. *)
LEMMA NotRefused ==
  ASSUME UNCHANGED <<settings, process, request>>, ~Entitled
  PROVE  EntitledServed'
<1>1. KeyEntitles' = KeyEntitles /\ UserId' = UserId
  BY SameRequest
<1>2. \A ts : TokenEntitles(ts)' = TokenEntitles(ts)
  BY <1>1 DEF TokenEntitles, UsesJwt
<1>3. Entitled' = Entitled
  BY <1>1, <1>2 DEF Entitled, TokenEntitles, UsesJwt
<1> QED  BY <1>3 DEF Entitled, EntitledServed

LEMMA EntitledPrincipal ==
  ASSUME IInv, process = "serving", Entitled
  PROVE  /\ ~Skips /\ (ByKey \/ (ByJwt /\ ~Refused(request.token)))
         /\ ByKey => May(KeyPrincipal(request.key))
         /\ ~ByKey => May(JwtPrincipal(request.token))
<1>1. ~Skips
  BY DEF Entitled, Skips
<1>2. CASE request.token.kind = "none" /\ KeyEntitles
  BY <1>1, <1>2, EntitledKey DEF Entitled
<1>3. CASE ~(request.token.kind = "none" /\ KeyEntitles)
  BY <1>1, <1>3, EntitledToken DEF Entitled
<1> QED  BY <1>2, <1>3

LEMMA AuthenticateStep == ASSUME IInv, Authenticate PROVE IInv'
<1>1. /\ stage = "auth" /\ process = "serving" /\ request.route # "metrics" /\ status = 0
      /\ principal = None /\ reached = {} /\ counted = {"requests"}
      /\ UNCHANGED <<settings, process, request, reached>>
  BY DEF Authenticate, IInv, Started, Fresh
<1>2. /\ Valid' = Valid /\ Skips' = Skips /\ ByKey' = ByKey /\ ByJwt' = ByJwt
  BY <1>1, SameRequest
<1>3. Started'
  BY <1>1, <1>2 DEF IInv, Started, Authenticate
<1>4. TenantChecked' /\ MetricsGuarded'
  <2>1. stage' # "repository"
    BY DEF Authenticate, Answer, Raise
  <2> QED  BY <2>1, <1>1 DEF TenantChecked, MetricsGuarded
<1>5. CASE Skips
  <2>1. stage' = "validate" /\ UNCHANGED <<principal, status, counted>>
    BY <1>5 DEF Authenticate
  <2>2. Fresh'
    BY <1>1, <2>1 DEF Fresh, Stages, Inside
  <2>3. Allowed'
    BY <1>1, <1>2, <1>5, <2>1 DEF Allowed
  <2>4. Authenticated' /\ Limited'
    BY <1>1, <1>2, <1>5, <2>1, <2>3 DEF Authenticated, Limited
  <2>5. EntitledServed' /\ Accounted'
    BY <1>1, <2>1 DEF EntitledServed, Accounted
  <2> QED  BY <1>3, <1>4, <2>2, <2>4, <2>5 DEF IInv
<1>6. CASE ~Skips /\ stage' = "answered"
  <2>1. UNCHANGED principal /\ reached' = {}
    BY <1>1, <1>6 DEF Authenticate
  <2>2. Raise \/ ~Entitled
    BY <1>1, <1>6, EntitledPrincipal DEF Authenticate, ByJwt
  <2>3. EntitledServed'
    BY <1>1, <2>2, NotRefused, Unrefused DEF Raise
  <2>4. Answer(401, {"auth_failures"}) \/ Answer(401, {}) \/ Answer(403, {"auth_forbidden"}) \/ Raise
    BY <1>6 DEF Authenticate
  <2>5. Accounted'
    BY <1>1, <2>4, AnswerAccounted, RaiseAccounted
  <2> QED  BY <1>1, <1>6, <2>1, <2>3, <2>5, AnswerKeeps DEF IInv
<1>7. CASE ~Skips /\ stage' # "answered"
  <2>1. PICK p : /\ p = IF ByKey THEN KeyPrincipal(request.key) ELSE JwtPrincipal(request.token)
                 /\ ByKey \/ (ByJwt /\ ~Refused(request.token))
                 /\ stage' = "limit" /\ status' = status /\ counted' = counted
                 /\ principal' = p /\ May(p)
    BY <1>7 DEF Authenticate, Answer, Raise
  <2>2. Fresh'
    BY <1>1, <2>1 DEF Fresh, Stages, Inside
  <2>3. May(principal)'
    BY <1>1, <2>1 DEF May
  <2>4. Allowed'
    <3>1. CASE ByKey
      <4>1. principal' = KeyPrincipal(request.key)'
        BY <1>1, <2>1, <3>1 DEF KeyPrincipal
      <4> QED  BY <1>2, <1>7, <2>3, <3>1, <4>1 DEF Allowed
    <3>2. CASE ~ByKey
      <4>1. principal' = JwtPrincipal(request.token)'
        BY <1>1, <2>1, <3>2 DEF JwtPrincipal, TenantClaim
      <4>2. Refused(request.token)' = Refused(request.token)
        BY <1>1 DEF Refused, TenantClaim
      <4> QED  BY <1>2, <1>7, <2>1, <2>3, <3>2, <4>1, <4>2 DEF Allowed
    <3> QED  BY <3>1, <3>2
  <2>5. Authenticated' /\ Limited'
    BY <1>1, <1>2, <1>7, <2>1, <2>4 DEF Authenticated, Limited
  <2>6. EntitledServed' /\ Accounted'
    BY <1>1, <2>1 DEF EntitledServed, Accounted
  <2> QED  BY <1>3, <1>4, <2>2, <2>5, <2>6 DEF IInv
<1> QED  BY <1>5, <1>6, <1>7

(* While a request is inside, its principal does not change either. *)
LEMMA InsideKeeps ==
  ASSUME IInv, stage \in Inside, UNCHANGED <<settings, process, request, principal>>
  PROVE  /\ process = "serving" /\ request.route # "metrics" /\ status = 0
         /\ counted = {"requests"} /\ {"repository", "metrics"} \cap reached = {} /\ Allowed
         /\ Valid' = Valid /\ Skips' = Skips /\ UserId' = UserId
         /\ Allowed' = Allowed /\ HasTenant' = HasTenant /\ Started'
<1>1. /\ Valid' = Valid /\ Skips' = Skips /\ ByKey' = ByKey /\ ByJwt' = ByJwt /\ UserId' = UserId
  BY SameRequest
<1>2. Allowed' = Allowed /\ HasTenant' = HasTenant
  BY <1>1 DEF Allowed, May, HasTenant
<1>3. process = "serving" /\ Started'
  BY <1>1 DEF IInv, Started, Inside
<1>4. request.route # "metrics" /\ Allowed
  BY DEF IInv, Authenticated
<1>5. status = 0 /\ counted = {"requests"} /\ {"repository", "metrics"} \cap reached = {}
  BY DEF IInv, Fresh, Inside
<1> QED  BY <1>1, <1>2, <1>3, <1>4, <1>5

LEMMA LimitStep == ASSUME IInv, Limit PROVE IInv'
<1>1. /\ stage = "limit" /\ stage \in Inside
      /\ UNCHANGED <<settings, process, request, principal>>
  BY DEF Limit, Inside
<1>2. /\ process = "serving" /\ request.route # "metrics" /\ status = 0
      /\ counted = {"requests"} /\ {"repository", "metrics"} \cap reached = {} /\ Allowed
      /\ Skips' = Skips /\ Allowed' = Allowed /\ Started'
  BY <1>1, InsideKeeps
<1>3. CASE stage' = "validate"
  <2>1. /\ UNCHANGED <<status, counted>> /\ reached' \in {reached, reached \cup {"limiter"}}
        /\ settings.limiter \in {"off", "gateway"} \/ "limiter" \in reached'
    BY <1>3 DEF Limit, Answer, Raise
  <2>2. Fresh' /\ TenantChecked' /\ MetricsGuarded'
    BY <1>1, <1>2, <1>3, <2>1 DEF Fresh, Stages, Inside, TenantChecked, MetricsGuarded
  <2>3. Authenticated' /\ Limited'
    BY <1>1, <1>2, <1>3, <2>1 DEF Authenticated, Limited
  <2>4. EntitledServed' /\ Accounted'
    BY <1>2, <1>3, <2>1 DEF EntitledServed, Accounted
  <2> QED  BY <1>2, <2>2, <2>3, <2>4 DEF IInv
<1>4. CASE stage' # "validate"
  <2>1. /\ Raise \/ Answer(429, {"rate_limited"}) \/ Answer(503, {})
        /\ reached' \in {reached, reached \cup {"limiter"}}
    BY <1>4 DEF Limit
  <2>2. stage' = "answered" /\ status' \in {500, 429, 503}
    BY <2>1 DEF Raise, Answer
  <2>3. Accounted'
    BY <1>2, <2>1, AnswerAccounted, RaiseAccounted
  <2>4. EntitledServed'
    BY <2>2, Unrefused
  <2> QED  BY <1>1, <2>1, <2>2, <2>3, <2>4, AnswerKeeps DEF IInv
<1> QED  BY <1>3, <1>4

LEMMA ValidateStep == ASSUME IInv, Validate PROVE IInv'
<1>1. /\ stage = "validate" /\ stage \in Inside
      /\ UNCHANGED <<settings, process, request, principal, reached>>
  BY DEF Validate, Inside
<1>2. /\ process = "serving" /\ request.route # "metrics" /\ status = 0
      /\ counted = {"requests"} /\ {"repository", "metrics"} \cap reached = {} /\ Allowed
      /\ Skips' = Skips /\ Allowed' = Allowed /\ UserId' = UserId /\ Started'
  BY <1>1, InsideKeeps
<1>3. CASE stage' = "answered"
  <2>1. Answer(422, {}) \/ Raise
    BY <1>3 DEF Validate
  <2>2. Accounted'
    BY <1>2, <2>1, AnswerAccounted, RaiseAccounted
  <2>3. EntitledServed'
    BY <2>1, Unrefused DEF Answer, Raise
  <2> QED  BY <1>1, <1>3, <2>2, <2>3, AnswerKeeps DEF IInv
<1>4. CASE stage' # "answered"
  <2>1. /\ request.route = "create" => request.body.user_id > 0
        /\ stage' = IF request.route = "admin" THEN "repository" ELSE "tenant"
        /\ UNCHANGED <<status, counted>>
    BY <1>4 DEF Validate, Answer, Raise, Acceptable
  <2>2. UserId > 0
    <3>1. request.route = "create" => UserId = request.body.user_id
      BY DEF UserId
    <3> QED  BY <1>2, <2>1, <3>1, RequestTyped
  <2>3. Fresh' /\ MetricsGuarded'
    BY <1>1, <1>2, <2>1, <2>2 DEF Fresh, Stages, Inside, MetricsGuarded
  <2>4. TenantChecked'
    BY <1>1, <1>2, <2>1 DEF TenantChecked
  <2>5. Authenticated' /\ Limited'
    BY <1>1, <1>2, <2>1 DEF IInv, Authenticated, Limited
  <2>6. EntitledServed' /\ Accounted'
    BY <1>2, <2>1 DEF EntitledServed, Accounted
  <2> QED  BY <1>2, <2>3, <2>4, <2>5, <2>6 DEF IInv
<1> QED  BY <1>3, <1>4

(* A principal that is entitled is of the tenant, or of all of them. *)
LEMMA EntitledTenant ==
  ASSUME IInv, stage = "tenant", Entitled, settings.enforce_tenant_auth
  PROVE  /\ principal # None
         /\ {"admin", "internal"} \cap principal.roles # {} \/ HasTenant
<1>1. process = "serving" /\ Allowed /\ ~Skips /\ request.route # "admin" /\ UserId > 0
  BY DEF IInv, Started, Authenticated, Inside, Fresh, Skips, Entitled
<1>2. CASE ByKey /\ principal = KeyPrincipal(request.key)
  <2>1. request.key \in Keys
    BY <1>2, RequestTyped DEF ByKey, KnownKey, Entitled
  <2>2. KeySubject[request.key] # "anonymous" /\ "internal" \in KeyRoles[request.key]
    BY <2>1, KeysCover
  <2> QED  BY <1>2, <2>2 DEF KeyPrincipal, None
<1>3. CASE ByJwt /\ principal = JwtPrincipal(request.token)
  <2>1. principal.roles = request.token.roles /\ principal.tenant_id = TenantClaim(request.token)
    BY <1>3 DEF JwtPrincipal
  <2>2. principal # None
    BY <1>3 DEF JwtPrincipal, None
  <2>3. /\ {request.token.tenant_id, request.token.user_id} \subseteq {NoClaim, 0, UserId}
        /\ TokenEntitles({request.token.tenant_id, request.token.user_id})
    BY <1>1, <1>3, EntitledKey DEF Entitled, ByJwt
  <2>4. CASE request.token.roles \cap {"admin", "internal"} # {}
    BY <2>1, <2>2, <2>4
  <2>5. CASE UserId \in {request.token.tenant_id, request.token.user_id}
    <3>1. UserId # NoClaim /\ UserId # 0
      BY <1>1, RequestTyped DEF NoClaim, Entitled
    <3>2. TenantClaim(request.token) = UserId
      BY <2>3, <2>5, <3>1 DEF TenantClaim
    <3> QED  BY <2>1, <2>2, <3>2 DEF HasTenant
  <2> QED  BY <1>1, <2>3, <2>4, <2>5 DEF TokenEntitles
<1> QED  BY <1>1, <1>2, <1>3 DEF Allowed

LEMMA CheckTenantStep == ASSUME IInv, CheckTenant PROVE IInv'
<1>1. /\ stage = "tenant" /\ stage \in Inside
      /\ UNCHANGED <<settings, process, request, principal, reached>>
  BY DEF CheckTenant, Inside
<1>2. /\ process = "serving" /\ request.route # "metrics" /\ status = 0
      /\ counted = {"requests"} /\ {"repository", "metrics"} \cap reached = {} /\ Allowed
      /\ Skips' = Skips /\ Allowed' = Allowed /\ HasTenant' = HasTenant /\ Started'
  BY <1>1, InsideKeeps
<1>3. CASE stage' = "answered"
  <2>1. /\ Answer(401, {}) \/ Answer(403, {})
        /\ settings.enforce_tenant_auth
        /\ \/ principal = None
           \/ {"admin", "internal"} \cap principal.roles = {} /\ ~HasTenant
    BY <1>3 DEF CheckTenant
  <2>2. Accounted'
    BY <1>2, <2>1, AnswerAccounted
  <2>3. EntitledServed'
    BY <1>1, <2>1, EntitledTenant, NotRefused
  <2> QED  BY <1>1, <1>3, <2>2, <2>3, AnswerKeeps DEF IInv
<1>4. CASE stage' # "answered"
  <2>1. /\ stage' = "repository" /\ UNCHANGED <<status, counted>>
        /\ \/ ~settings.enforce_tenant_auth
           \/ {"admin", "internal"} \cap principal.roles # {}
           \/ HasTenant
    BY <1>4 DEF CheckTenant, Answer
  <2>2. Fresh' /\ MetricsGuarded'
    BY <1>1, <1>2, <2>1 DEF Fresh, Stages, Inside, MetricsGuarded
  <2>3. TenantChecked'
    BY <1>1, <1>2, <2>1 DEF TenantChecked
  <2>4. Authenticated' /\ Limited'
    BY <1>1, <1>2, <2>1 DEF IInv, Authenticated, Limited
  <2>5. EntitledServed' /\ Accounted'
    BY <1>2, <2>1 DEF EntitledServed, Accounted
  <2> QED  BY <1>2, <2>2, <2>3, <2>4, <2>5 DEF IInv
<1> QED  BY <1>3, <1>4

LEMMA CallRepositoryStep == ASSUME IInv, CallRepository PROVE IInv'
<1>1. /\ stage = "repository" /\ stage \in Inside
      /\ UNCHANGED <<settings, process, request, principal>>
      /\ reached' \subseteq reached \cup {"repository", "fault", "repeat"} /\ reached \subseteq reached'
      /\ \/ Answer(200, {})
         \/ Answer(404, {})
         \/ Answer(409, {})
         \/ Raise
  BY DEF CallRepository, Inside
<1>2. /\ request.route # "metrics" /\ counted = {"requests"} /\ Allowed
      /\ {"repository", "metrics"} \cap reached = {}
      /\ Skips' = Skips /\ Allowed' = Allowed /\ HasTenant' = HasTenant /\ Started'
  BY <1>1, InsideKeeps
<1>3. stage' = "answered" /\ status' \in {200, 404, 409, 500}
  BY <1>1 DEF Answer, Raise
<1>4. Fresh' /\ MetricsGuarded'
  BY <1>1, <1>2, <1>3 DEF Fresh, Stages, Inside, MetricsGuarded
<1>5. Authenticated'
  BY <1>2, <1>1, <1>3 DEF Authenticated
<1>6. TenantChecked'
  BY <1>1, <1>2 DEF IInv, TenantChecked
<1>7. Limited'
  BY <1>1, <1>2 DEF IInv, Limited
<1>8. EntitledServed'
  BY <1>3, Unrefused
<1>9. Accounted'
  BY <1>1, <1>2, AnswerAccounted, RaiseAccounted
<1> QED  BY <1>2, <1>4, <1>5, <1>6, <1>7, <1>8, <1>9 DEF IInv

LEMMA NextIInv == IInv /\ [Next]_avars => IInv'
<1> SUFFICES ASSUME IInv, [Next]_avars PROVE IInv'
  OBVIOUS
<1>1. CASE Startup
  BY <1>1, StartupStep
<1>2. ASSUME NEW r \in RequestsTried, Receive(r) PROVE IInv'
  BY <1>2, ReceiveStep
<1>3. CASE Authenticate
  BY <1>3, AuthenticateStep
<1>4. CASE Limit
  BY <1>4, LimitStep
<1>5. CASE Validate
  BY <1>5, ValidateStep
<1>6. CASE CheckTenant
  BY <1>6, CheckTenantStep
<1>7. CASE CallRepository
  BY <1>7, CallRepositoryStep
<1>8. CASE Metrics
  BY <1>8, MetricsStep
<1>9. CASE Finish
  BY <1>9, FinishStep
<1>10. CASE UNCHANGED avars
  <2>1. UNCHANGED <<settings, process, request, stage, principal, status, counted, reached>>
    BY <1>10 DEF avars
  <2>2. /\ Valid' = Valid /\ Skips' = Skips /\ ByKey' = ByKey /\ ByJwt' = ByJwt
        /\ UserId' = UserId /\ KeyEntitles' = KeyEntitles
    BY <2>1, SameRequest
  <2>3. Allowed' = Allowed /\ HasTenant' = HasTenant
    BY <2>1, <2>2 DEF Allowed, May, HasTenant
  <2>4. Started' /\ Fresh' /\ Authenticated' /\ TenantChecked' /\ Limited' /\ MetricsGuarded'
    BY <2>1, <2>2, <2>3
       DEF IInv, Started, Fresh, Authenticated, TenantChecked, Limited, MetricsGuarded
  <2>5. EntitledServed' = EntitledServed /\ Accounted' = Accounted
    BY <2>1, <2>2 DEF EntitledServed, TokenEntitles, UsesJwt, Accounted
  <2> QED  BY <2>4, <2>5 DEF IInv
<1> QED  BY <1>1, <1>2, <1>3, <1>4, <1>5, <1>6, <1>7, <1>8, <1>9, <1>10 DEF Next, Exited

(* The inductive invariant holds of every state of a process. *)
THEOREM Invariance == Spec => []IInv
BY InitIInv, NextIInv, PTL DEF Spec

-----------------------------------------------------------------------------
LEMMA AllowedIsEntitled == IInv => OnlyEntitled
<1> SUFFICES ASSUME IInv, "repository" \in reached,
                    ~(~settings.production /\ settings.auth_mode = "disabled")
             PROVE  \/ KeyEntitles
                    \/ TokenEntitles({request.token.tenant_id, request.token.user_id})
  BY DEF OnlyEntitled
<1>1. /\ Allowed /\ ~Skips /\ request.route \in {"create", "user", "admin"}
      /\ settings.keys \subseteq Keys
  BY RequestTyped DEF IInv, Authenticated, Skips, IsProduction
<1>2. CASE ByKey /\ principal = KeyPrincipal(request.key) /\ May(principal)
  <2>1. UsesKeys /\ request.key \in settings.keys /\ request.key \in Keys
    BY <1>1, <1>2 DEF ByKey, KnownKey
  <2>2. \/ Role[request.route] \in KeyRoles[request.key]
        \/ "admin" \in KeyRoles[request.key]
    BY <1>2 DEF May, KeyPrincipal
  <2>3. Privilege[request.key] >= Needed[request.route]
    BY <1>1, <2>1, <2>2, KeysCover
  <2> QED  BY <2>1, <2>3 DEF KeyEntitles
<1>3. CASE /\ ByJwt /\ ~Refused(request.token)
           /\ principal = JwtPrincipal(request.token) /\ May(principal)
  <2>1. UsesJwt /\ request.token.kind = "claims"
    BY <1>1, <1>3, RequestTyped DEF ByJwt, Refused, Tokens
  <2>2. principal.roles = request.token.roles /\ principal.tenant_id = TenantClaim(request.token)
    BY <1>3 DEF JwtPrincipal
  <2>3. "admin" \in request.token.roles \/ Role[request.route] \in request.token.roles
    BY <1>3, <2>2 DEF May
  <2>4. \/ request.route = "admin" \/ ~settings.enforce_tenant_auth
        \/ request.token.roles \cap {"admin", "internal"} # {}
        \/ UserId = TenantClaim(request.token)
    BY <2>2 DEF IInv, TenantChecked, HasTenant
  <2> QED  BY <2>1, <2>3, <2>4, TenantClaims DEF TokenEntitles
<1> QED  BY <1>1, <1>2, <1>3 DEF Allowed

LEMMA ProductionHolds == IInv => ProductionPosture
<1> SUFFICES ASSUME IInv, settings.production
             PROVE  ProductionPosture
  BY DEF ProductionPosture
<1>1. ~Skips
  BY DEF Skips, IsProduction
<1>2. "repository" \in reached \/ "metrics" \in reached => Valid
  BY DEF IInv, Started, Fresh
<1>3. ASSUME "repository" \in reached
      PROVE  /\ principal.subject \notin {"anonymous", "api-key-legacy"}
             /\ settings.limiter = "redis" => "limiter" \in reached
             /\ settings.limiter # "memory" /\ settings.secure
  <2>1. Allowed /\ request.route # "metrics"
    BY <1>3 DEF IInv, Authenticated
  <2>2. CASE ByKey /\ principal = KeyPrincipal(request.key)
    <3>1. request.key \in Keys /\ request.key # "legacy"
      BY <2>1, <2>2, RequestTyped DEF ByKey, KnownKey, IsProduction
    <3>2. KeySubject[request.key] \notin {"anonymous", "api-key-legacy"}
      BY <3>1, KeysCover
    <3> QED  BY <1>1, <1>2, <1>3, <2>2, <3>2 DEF KeyPrincipal, IInv, Limited, Valid, IsProduction
  <2>3. CASE principal = JwtPrincipal(request.token)
    BY <1>1, <1>2, <1>3, <2>3 DEF JwtPrincipal, IInv, Limited, Valid, IsProduction
  <2> QED  BY <1>1, <2>1, <2>2, <2>3 DEF Allowed
<1>4. "metrics" \in reached => request.metrics_token
  BY <1>2 DEF IInv, MetricsGuarded, Valid, IsProduction
<1> QED  BY <1>3, <1>4 DEF ProductionPosture

-----------------------------------------------------------------------------
(* The types, which rest on the invariant for the principal only. *)
Codes == {200, 401, 403, 404, 409, 422, 429, 500, 503}

LEMMA AnswerTyped ==
  ASSUME TypeOK, NEW code \in Codes, NEW counters \in SUBSET Counters, Answer(code, counters)
  PROVE  status' = code /\ stage' \in Stages /\ counted' \subseteq Counters
BY DEF TypeOK, Answer, Counters, Stages

LEMMA RaiseTyped ==
  ASSUME TypeOK, Raise
  PROVE  status' = 500 /\ stage' \in Stages /\ counted' \subseteq Counters
BY DEF TypeOK, Raise, Counters, Stages

LEMMA PrincipalTyped ==
  ASSUME IInv, stage = "auth", ByKey \/ (ByJwt /\ ~Refused(request.token)),
         NEW p, p = IF ByKey THEN KeyPrincipal(request.key) ELSE JwtPrincipal(request.token)
  PROVE  p.roles \subseteq Roles /\ p.tenant_id \in Claims \ {BadClaim}
<1>1. request.route # "metrics"
  BY DEF IInv, Fresh
<1>2. CASE ByKey
  <2>1. request.key \in Keys
    BY <1>1, <1>2, RequestTyped DEF ByKey, KnownKey
  <2>2. KeyRoles[request.key] \subseteq Roles
    BY <2>1 DEF KeyRoles, Keys, Roles
  <2> QED  BY <1>2, <2>2 DEF KeyPrincipal, Claims, NoClaim, BadClaim
<1>3. CASE ~ByKey
  <2>1. request.token.roles \subseteq Roles /\ request.token.tenant_id \in Claims
        /\ request.token.user_id \in Claims
    BY <1>1, RequestTyped DEF Tokens
  <2>2. TenantClaim(request.token) \in Claims \ {BadClaim}
    BY <1>3, <2>1 DEF Refused, TenantClaim
  <2> QED  BY <1>3, <2>1, <2>2 DEF JwtPrincipal
<1> QED  BY <1>2, <1>3

LEMMA NextTyped == IInv /\ TypeOK /\ [Next]_avars => TypeOK'
<1> SUFFICES ASSUME IInv, TypeOK, [Next]_avars PROVE TypeOK'
  OBVIOUS
<1>0. counted \subseteq Counters /\ {} \subseteq Counters
      /\ {"auth_failures"} \subseteq Counters /\ {"auth_forbidden"} \subseteq Counters
      /\ {"rate_limited"} \subseteq Counters
  BY DEF TypeOK, Counters
<1>1. CASE Startup
  BY <1>1 DEF Startup, TypeOK
<1>2. CASE \E r \in RequestsTried : Receive(r)
  BY <1>2 DEF Receive, TypeOK, Counters, Stages
<1>3. CASE Authenticate
  <2>1. UNCHANGED <<settings, process, request, reached>>
    BY <1>3 DEF Authenticate
  <2>2. /\ stage' \in Stages /\ counted' \subseteq Counters
        /\ status' \in Codes \cup {status}
    <3>1. \/ stage' \in {"validate", "limit"} /\ UNCHANGED <<status, counted>>
          \/ Answer(401, {"auth_failures"}) \/ Answer(401, {}) \/ Answer(403, {"auth_forbidden"})
          \/ Raise
      BY <1>3 DEF Authenticate
    <3> QED  BY <1>0, <3>1, AnswerTyped, RaiseTyped DEF Stages, Codes
  <2>3. principal'.roles \subseteq Roles /\ principal'.tenant_id \in Claims \ {BadClaim}
    <3>1. CASE principal' = principal
      BY <3>1 DEF TypeOK
    <3>2. CASE principal' # principal
      <4>1. stage = "auth" /\ (ByKey \/ (ByJwt /\ ~Refused(request.token)))
        BY <1>3, <3>2 DEF Authenticate
      <4>2. principal' = IF ByKey THEN KeyPrincipal(request.key) ELSE JwtPrincipal(request.token)
        BY <1>3, <3>2 DEF Authenticate
      <4> QED  BY <4>1, <4>2, PrincipalTyped
    <3> QED  BY <3>1, <3>2
  <2> QED  BY <2>1, <2>2, <2>3 DEF TypeOK, Codes
<1>4. CASE Limit
  <2>1. \/ stage' = "validate" /\ UNCHANGED <<status, counted>>
        \/ Answer(429, {"rate_limited"}) \/ Answer(503, {}) \/ Raise
    BY <1>4 DEF Limit
  <2>2. /\ stage' \in Stages /\ counted' \subseteq Counters /\ status' \in Codes \cup {status}
    BY <1>0, <2>1, AnswerTyped, RaiseTyped DEF Stages, Codes
  <2>3. reached' \in {reached, reached \cup {"limiter"}}
        /\ UNCHANGED <<settings, process, request, principal>>
    BY <1>4 DEF Limit
  <2> QED  BY <2>2, <2>3 DEF TypeOK, Codes
<1>5. CASE Validate
  <2>1. \/ stage' \in {"repository", "tenant"} /\ UNCHANGED <<status, counted>>
        \/ Answer(422, {}) \/ Raise
    BY <1>5 DEF Validate
  <2>2. /\ stage' \in Stages /\ counted' \subseteq Counters /\ status' \in Codes \cup {status}
    BY <1>0, <2>1, AnswerTyped, RaiseTyped DEF Stages, Codes
  <2> QED  BY <1>5, <2>2 DEF Validate, TypeOK, Codes
<1>6. CASE CheckTenant
  <2>1. \/ stage' = "repository" /\ UNCHANGED <<status, counted>>
        \/ Answer(401, {}) \/ Answer(403, {})
    BY <1>6 DEF CheckTenant
  <2>2. /\ stage' \in Stages /\ counted' \subseteq Counters /\ status' \in Codes \cup {status}
    BY <1>0, <2>1, AnswerTyped DEF Stages, Codes
  <2> QED  BY <1>6, <2>2 DEF CheckTenant, TypeOK, Codes
<1>7. CASE CallRepository
  <2>1. Answer(200, {}) \/ Answer(404, {}) \/ Answer(409, {}) \/ Raise
    BY <1>7 DEF CallRepository
  <2>2. /\ stage' \in Stages /\ counted' \subseteq Counters /\ status' \in Codes
    BY <2>1, AnswerTyped, RaiseTyped DEF TypeOK, Counters, Codes
  <2>3. reached' \subseteq reached \cup {"repository", "fault", "repeat"}
        /\ UNCHANGED <<settings, process, request, principal>>
    BY <1>7 DEF CallRepository
  <2> QED  BY <2>2, <2>3 DEF TypeOK, Codes
<1>8. CASE Metrics
  <2>1. Answer(200, {}) \/ Answer(401, {})
    BY <1>8 DEF Metrics
  <2>2. /\ stage' \in Stages /\ counted' \subseteq Counters /\ status' \in Codes
    BY <2>1, AnswerTyped DEF TypeOK, Counters, Codes
  <2>3. reached' \subseteq reached \cup {"metrics"}
        /\ UNCHANGED <<settings, process, request, principal>>
    BY <1>8 DEF Metrics
  <2> QED  BY <2>2, <2>3 DEF TypeOK, Codes
<1>9. CASE Finish
  <2>1. NoRequest \in RequestsTried
    BY RequestsAssumption DEF NoRequest
  <2>2. None.roles \subseteq Roles /\ None.tenant_id \in Claims \ {BadClaim}
    BY DEF None, Claims, NoClaim, BadClaim
  <2> QED  BY <1>9, <2>1, <2>2 DEF Finish, TypeOK, Stages
<1>10. CASE UNCHANGED avars
  BY <1>10 DEF avars, TypeOK
<1> QED  BY <1>1, <1>2, <1>3, <1>4, <1>5, <1>6, <1>7, <1>8, <1>9, <1>10 DEF Next, Exited

(* Variables keep their types; the tenant of a principal is a number or none, *)
(* never what int() could not read (verify_jwt, security.py:97-101).         *)
THEOREM TypeCorrect == Spec => []TypeOK
<1>1. Init => TypeOK
  <2> SUFFICES ASSUME Init PROVE TypeOK
    OBVIOUS
  <2>1. NoRequest \in RequestsTried
    BY RequestsAssumption DEF NoRequest
  <2>2. None.roles \subseteq Roles /\ None.tenant_id \in Claims \ {BadClaim}
    BY DEF None, Claims, NoClaim, BadClaim
  <2> QED  BY <2>1, <2>2 DEF Init, TypeOK, Stages
<1> QED  BY <1>1, NextTyped, Invariance, PTL DEF Spec

-----------------------------------------------------------------------------
(* A request reaches the repository only with a credential that the settings *)
(* accept and the rules entitle to it (require_role, require_tenant_access). *)
THEOREM OnlyTheEntitled == Spec => []OnlyEntitled
BY Invariance, AllowedIsEntitled, PTL

(* One credential that entitles is answered neither 401 nor 403. *)
THEOREM TheEntitledAreServed == Spec => []EntitledServed
<1>1. IInv => EntitledServed
  BY DEF IInv
<1> QED  BY <1>1, Invariance, PTL

(* What Settings.validate demands of production is in force at every answer. *)
THEOREM ProductionIsGuarded == Spec => []ProductionPosture
BY Invariance, ProductionHolds, PTL

(* The counters of SecurityHeadersMiddleware account for every answer. *)
THEOREM AnswersAreCounted == Spec => []Accounted
<1>1. IInv => Accounted
  BY DEF IInv
<1> QED  BY <1>1, Invariance, PTL

-----------------------------------------------------------------------------
(* What the repository is called with has been validated. *)
Judged ==
  /\ request.route = "create" =>
       \/ stage \notin {"tenant", "repository"} /\ "repository" \notin reached
       \/ Acceptable(request.body, settings.max_order_amount)
  /\ status = 200 => "repository" \in reached \/ request.route = "metrics"

LEMMA RequestJudged ==
  ASSUME IInv
  PROVE  request.body \in Bodies /\ settings.max_order_amount \in Nat
<1>1. request \in AllRequests /\ settings \in AllSettings
  BY DEF IInv, Started
<1> QED  BY <1>1 DEF AllRequests, AllSettings

(* What was validated and the table refuses is in one of the named gaps. *)
LEMMA RefusedByTable ==
  ASSUME IInv, ~Storable(request.body), Acceptable(request.body, settings.max_order_amount)
  PROVE  \/ request.body.user_id > MaxUserId \/ request.body.payload = "unstorable"
         \/ settings.max_order_amount > TableMax
<1>1. request.body.user_id \in Nat /\ MaxUserId \in Nat /\ TableMax \in Nat
  BY RequestJudged, TableAssumption DEF Bodies
<1>2. ~(request.body.user_id <= MaxUserId /\ request.body.payload # "unstorable"
          /\ settings.max_order_amount <= TableMax)
  BY RequestJudged, AcceptedIsStorable
<1> QED  BY <1>1, <1>2, RequestJudged

LEMMA NextJudged == IInv /\ Judged /\ [Next]_avars => Judged'
<1> SUFFICES ASSUME IInv, Judged, [Next]_avars PROVE Judged'
  OBVIOUS
<1>0. /\ stage # "answered" => status = 0
      /\ stage \in {"idle", "auth", "metrics"} \cup Inside => "repository" \notin reached
      /\ stage = "metrics" => request.route = "metrics"
  BY DEF IInv, Fresh
<1>1. CASE Startup
  BY <1>1 DEF Startup, Judged
<1>2. ASSUME NEW r \in RequestsTried, Receive(r) PROVE Judged'
  <2>1. /\ stage' \in {"answered", "metrics", "auth"} /\ status' \in {0, 422}
        /\ "repository" \notin reached'
    BY <1>0, <1>2 DEF Receive
  <2> QED  BY <2>1 DEF Judged
<1>3. CASE Authenticate
  <2>1. /\ stage' \in {"answered", "validate", "limit"} /\ status' \in {0, 401, 403, 500}
        /\ "repository" \notin reached'
    BY <1>0, <1>3 DEF Authenticate, Answer, Raise
  <2> QED  BY <2>1 DEF Judged
<1>4. CASE Limit
  <2>1. /\ stage' \in {"answered", "validate"} /\ status' \in {0, 429, 500, 503}
        /\ "repository" \notin reached'
    BY <1>0, <1>4 DEF Limit, Answer, Raise, Inside
  <2> QED  BY <2>1 DEF Judged
<1>5. CASE Validate
  <2>1. /\ UNCHANGED <<settings, request>> /\ "repository" \notin reached'
        /\ \/ stage' = "answered" /\ status' \in {422, 500}
           \/ /\ stage' \in {"repository", "tenant"} /\ status' = 0
              /\ request.route = "create" =>
                   Acceptable(request.body, settings.max_order_amount)
    BY <1>0, <1>5 DEF Validate, Answer, Raise, Inside
  <2> QED  BY <2>1 DEF Judged
<1>6. CASE CheckTenant
  <2>1. /\ UNCHANGED <<settings, request, reached>> /\ stage = "tenant"
        /\ stage' \in {"repository", "answered"} /\ status' \in {0, 401, 403}
    BY <1>0, <1>6 DEF CheckTenant, Answer
  <2> QED  BY <2>1 DEF Judged
<1>7. CASE CallRepository
  <2>1. /\ UNCHANGED <<settings, request>> /\ stage = "repository"
        /\ "repository" \in reached'
    BY <1>7 DEF CallRepository
  <2> QED  BY <2>1 DEF Judged
<1>8. CASE Metrics
  <2>1. UNCHANGED <<settings, request>> /\ request.route = "metrics"
    BY <1>0, <1>8 DEF Metrics
  <2> QED  BY <2>1 DEF Judged
<1>9. CASE Finish
  <2>1. stage' = "idle" /\ status' = 0 /\ "repository" \notin reached'
    BY <1>9 DEF Finish
  <2> QED  BY <2>1 DEF Judged
<1>10. CASE UNCHANGED avars
  BY <1>10 DEF avars, Judged
<1> QED  BY <1>1, <1>2, <1>3, <1>4, <1>5, <1>6, <1>7, <1>8, <1>9, <1>10 DEF Next, Exited

LEMMA BodiesAreJudged == Spec => [](IInv /\ Judged)
<1>1. Init => Judged
  BY DEF Init, Judged
<1> QED  BY <1>1, InitIInv, NextIInv, NextJudged, PTL DEF Spec

(* But for the named gaps, what reaches the repository the table accepts,    *)
(* for every limit of the settings and every body (main.py:24-42,            *)
(* 0001_init_schema.py:37-41).                                              *)
THEOREM RepositoryGetsStorable == Spec => []TableAccepts
<1>1. IInv /\ Judged => TableAccepts
  BY RefusedByTable DEF Judged, TableAccepts
<1> QED  BY <1>1, BodiesAreJudged, PTL

(* The row of an order answered 200 has the amount that was sent. *)
THEOREM AmountsAreStored == Spec => []AmountsExact
<1>1. IInv /\ Judged => AmountsExact
  BY RequestJudged, StoredAsSent DEF Judged, AmountsExact
<1> QED  BY <1>1, BodiesAreJudged, PTL

(* The hash a key is bound to tells the row from any other body's. *)
THEOREM HashesNameRows == Spec => []HashNamesTheRow
<1>1. IInv /\ Judged => HashNamesTheRow
  <2> SUFFICES ASSUME IInv, Judged, request.route = "create", stage = "repository",
                      NEW b \in Bodies, Acceptable(b, settings.max_order_amount)
               PROVE  RequestHash(b) = RequestHash(request.body) <=>
                        /\ Row(b) = Row(request.body)
                        /\ b.amount.scale = request.body.amount.scale
                        /\ b.amount.sign = request.body.amount.sign
    BY DEF HashNamesTheRow
  <2>1. Acceptable(request.body, settings.max_order_amount)
    BY DEF Judged
  <2> QED  BY <2>1, RequestJudged, HashNamesRow
<1> QED  BY <1>1, BodiesAreJudged, PTL
=============================================================================
