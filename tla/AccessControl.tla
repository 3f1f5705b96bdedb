--------------------------- MODULE AccessControl ---------------------------
(***************************************************************************)
(* A process of the reader or the writer from its start to its answers:    *)
(* Settings.validate (src/app/common/settings.py), then each request       *)
(* through authentication, the rate limiter, the validation of the body,   *)
(* the tenant check and the repository (src/app/common/security.py,        *)
(* src/app/writer_service/main.py, src/app/reader_service/main.py), with   *)
(* the counters it leaves in /metrics (src/app/common/api.py).             *)
(*                                                                         *)
(* Requests share nothing here but the settings, so one is followed at a   *)
(* time.  RateLimiter says what the limiter admits, CreateOrder what the   *)
(* repository does.                                                        *)
(***************************************************************************)
EXTENDS OrderBody

CONSTANTS SettingsTried,  \* settings the process may be started with
          RequestsTried   \* requests it may be sent

Modes == {"disabled", "api_key", "jwt", "api_key_or_jwt"}
Keys == {"read", "write", "admin", "legacy"}    \* APP_API_KEY_READ ... and APP_API_KEY
Roles == {"orders:read", "orders:write", "admin", "internal"}
Users == 1 .. MaxUserId

(* A claim: a number, none, or one int() refuses.  0 counts as none. *)
NoClaim == -1
BadClaim == -2
Claims == {BadClaim, NoClaim, 0} \cup Users

(* "claims": a JWT with the signature, issuer and audience of the settings, *)
(* not expired; "invalid": any other bearer token; "none": no such header.  *)
(* roles: those the services know of a list of names.                       *)
Tokens == [kind : {"none", "invalid", "claims"}, roles : SUBSET Roles,
           tenant_id : Claims, user_id : Claims]

(* secure: a database password and a TLS mode production accepts; metrics:  *)
(* "open", "token" or "tokenless", METRICS_AUTH_ENABLED without a token.    *)
AllSettings ==
  [production : BOOLEAN, auth_mode : Modes \cup {"unknown"}, keys : SUBSET Keys,
   require_api_key : BOOLEAN, jwt_secret : BOOLEAN, enforce_tenant_auth : BOOLEAN,
   limiter : {"off", "redis", "memory", "gateway"}, redis_url : BOOLEAN,
   metrics : {"open", "token", "tokenless"}, secure : BOOLEAN, max_order_amount : Nat]

(* route "create" carries a body, "user" names a user id (the list and the  *)
(* order of a user), "admin" neither; parses: the body is JSON; key: the    *)
(* x-api-key header, "non_ascii" one with a byte over 127; keyed: there is an *)
(* Idempotency-Key; metrics_token: the header holds the metrics token.      *)
AllRequests ==
  [route : {"create", "user", "admin", "metrics"}, user_id : Users, body : Bodies,
   parses : BOOLEAN, key : Keys \cup {"none", "wrong", "non_ascii"}, token : Tokens,
   keyed : BOOLEAN, metrics_token : BOOLEAN]

ASSUME SettingsAssumption == SettingsTried \subseteq AllSettings
ASSUME RequestsAssumption == RequestsTried \subseteq AllRequests /\ RequestsTried # {}

VARIABLES
  settings,   \* of the process, fixed when it starts
  process,    \* "starting", "serving" or "refused"
  request,    \* the request in hand
  stage,      \* where it is
  principal,  \* request.state.principal, or None
  status,     \* the answer, 0 before it
  counted,    \* the counters this request has incremented
  reached     \* what the request reached: "limiter", "repository", "metrics", and in the
              \* repository a "fault" of the database or the "repeat" of a key

avars == <<settings, process, request, stage, principal, status, counted, reached>>

None == [subject |-> "anonymous", roles |-> {}, tenant_id |-> NoClaim]
NoRequest == CHOOSE r \in RequestsTried : TRUE
Stages == {"idle", "auth", "limit", "validate", "tenant", "repository", "metrics", "answered"}

Init ==
  /\ settings \in SettingsTried
  /\ process = "starting"
  /\ request = NoRequest /\ stage = "idle" /\ principal = None
  /\ status = 0 /\ counted = {} /\ reached = {}

(* Mutant: production is spelled otherwise, and none of its rules applies. *)
IsProductionTypo == FALSE

IsProduction == settings.production

UsesKeys == settings.auth_mode \in {"api_key", "api_key_or_jwt"}
UsesJwt == settings.auth_mode \in {"jwt", "api_key_or_jwt"}

Valid ==
  /\ settings.auth_mode \in Modes
  /\ settings.require_api_key => settings.keys # {}
  /\ UsesJwt => settings.jwt_secret
  /\ IsProduction =>
       /\ settings.secure
       /\ settings.auth_mode # "disabled"
       /\ UsesKeys => {"read", "write", "admin"} \subseteq settings.keys
       /\ "legacy" \notin settings.keys
       /\ settings.limiter = "redis" => settings.redis_url
       /\ settings.limiter # "memory"
       /\ settings.metrics = "token"

Startup ==
  /\ process = "starting"
  /\ process' = IF Valid THEN "serving" ELSE "refused"
  /\ UNCHANGED <<settings, request, stage, principal, status, counted, reached>>

Answer(code, counters) ==
  /\ status' = code
  /\ stage' = "answered"
  /\ counted' = counted \cup counters \cup {"status"} \cup IF code >= 500 THEN {"5xx"} ELSE {}

(* Mutant: an exception passes the middleware uncounted. *)
RaiseUncounted ==
  /\ status' = 500
  /\ stage' = "answered"
  /\ counted' = counted

(* An exception nobody handles: SecurityHeadersMiddleware counts and raises *)
(* it again, and the server answers 500.                                    *)
Raise ==
  /\ status' = 500
  /\ stage' = "answered"
  /\ counted' = counted \cup {"5xx"}

(* The middleware counts the request.  FastAPI parses a body before it      *)
(* calls a dependency, and validates what it parsed after.                  *)
Receive(r) ==
  /\ process = "serving"
  /\ stage = "idle"
  /\ request' = r
  /\ IF r.route = "create" /\ ~r.parses
       THEN /\ stage' = "answered" /\ status' = 422
            /\ counted' = {"requests", "status"}
       ELSE /\ stage' = IF r.route = "metrics" THEN "metrics" ELSE "auth"
            /\ counted' = {"requests"}
            /\ UNCHANGED status
  /\ UNCHANGED <<settings, process, principal, reached>>

KeyRoles == [read |-> {"orders:read", "internal"},
             write |-> {"orders:read", "orders:write", "internal"},
             admin |-> Roles, legacy |-> Roles]
KeySubject == [read |-> "api-key-read", write |-> "api-key-write",
               admin |-> "api-key-admin", legacy |-> "api-key-legacy"]

(* Mutant: the old single key is good in production, too. *)
KnownKeyAnywhere(k) == k \in settings.keys

KnownKey(k) == k \in settings.keys /\ (k = "legacy" => ~IsProduction)

(* Mutant: the first claim that is there is taken, be it 0. *)
TenantClaimStrict(t) == IF t.tenant_id # NoClaim THEN t.tenant_id ELSE t.user_id

(* payload.get("tenant_id") or payload.get("user_id"); int(None) is not     *)
(* reached, 0 for user_id is a tenant nobody has.                           *)
TenantClaim(t) == IF t.tenant_id \notin {NoClaim, 0} THEN t.tenant_id ELSE t.user_id

(* verify_jwt refuses the token. *)
Refused(t) == t.kind = "invalid" \/ TenantClaim(t) = BadClaim
KeyPrincipal(k) == [subject |-> KeySubject[k], roles |-> KeyRoles[k], tenant_id |-> NoClaim]
JwtPrincipal(t) == [subject |-> "sub of the JWT", roles |-> t.roles, tenant_id |-> TenantClaim(t)]

Role == [create |-> "orders:write", user |-> "orders:read", admin |-> "admin"]

May(p) == Role[request.route] \in p.roles \/ "admin" \in p.roles

Skips == settings.auth_mode = "disabled" /\ ~IsProduction

(* compare_digest takes no text but ASCII: with any key to compare it to, the *)
(* header raises TypeError.                                                 *)
Incomparable == UsesKeys /\ request.key = "non_ascii" /\ \E k \in Keys : KnownKey(k)

(* A key that is good makes the principal, whatever token comes with it;    *)
(* any other key is passed over.                                            *)
ByKey == UsesKeys /\ request.key # "none" /\ KnownKey(request.key)
ByJwt == ~ByKey /\ UsesJwt /\ request.token.kind # "none"

(* require_role as far as the limiter.  The refusal of a token is verify_jwt's *)
(* and is not counted.                                                         *)
Authenticate ==
  /\ stage = "auth"
  /\ \/ /\ Skips
        /\ stage' = "validate"
        /\ UNCHANGED <<principal, status, counted>>
     \/ /\ ~Skips /\ Incomparable
        /\ Raise
        /\ UNCHANGED principal
     \/ /\ ~Skips /\ ~Incomparable /\ ~ByKey /\ ~ByJwt
        /\ Answer(401, {"auth_failures"})
        /\ UNCHANGED principal
     \/ /\ ~Skips /\ ~Incomparable /\ ByJwt /\ Refused(request.token)
        /\ Answer(401, {})
        /\ UNCHANGED principal
     \/ /\ ~Skips /\ ~Incomparable /\ (ByKey \/ (ByJwt /\ ~Refused(request.token)))
        /\ LET p == IF ByKey THEN KeyPrincipal(request.key) ELSE JwtPrincipal(request.token)
           IN  IF May(p) THEN /\ stage' = "limit"
                              /\ principal' = p
                              /\ UNCHANGED <<status, counted>>
                         ELSE Answer(403, {"auth_forbidden"}) /\ UNCHANGED principal
  /\ UNCHANGED <<settings, process, request, reached>>

(* _enforce_rate_limit: admitted, limited, or no Redis to ask.  Without a   *)
(* REDIS_URL, which only production asks for, _redis() raises.              *)
Limit ==
  /\ stage = "limit"
  /\ \/ /\ settings.limiter \in {"off", "gateway"}
        /\ stage' = "validate"
        /\ UNCHANGED <<status, counted, reached>>
     \/ /\ settings.limiter = "redis" /\ ~settings.redis_url
        /\ Raise
        /\ UNCHANGED reached
     \/ /\ settings.limiter = "memory" \/ (settings.limiter = "redis" /\ settings.redis_url)
        /\ reached' = reached \cup {"limiter"}
        /\ \/ stage' = "validate" /\ UNCHANGED <<status, counted>>
           \/ Answer(429, {"rate_limited"})
           \/ IsProduction /\ Answer(503, {})
  /\ UNCHANGED <<settings, process, request, principal>>

(* FastAPI on the body.  A refusal is answered 422 if its report can be       *)
(* written, and raises otherwise.  FastAPI refuses a path, a limit or an      *)
(* Idempotency-Key out of range here, too; the requests tried have none.      *)
Validate ==
  /\ stage = "validate"
  /\ LET accepted == request.route = "create" => Acceptable(request.body, settings.max_order_amount)
         unprintable == Unprintable(request.body, settings.max_order_amount)
     IN  \/ /\ accepted
            /\ stage' = IF request.route = "admin" THEN "repository" ELSE "tenant"
            /\ UNCHANGED <<status, counted>>
         \/ ~accepted /\ ~unprintable /\ Answer(422, {})
         \/ ~accepted /\ unprintable /\ Raise
  /\ UNCHANGED <<settings, process, request, principal, reached>>

UserId == IF request.route = "create" THEN request.body.user_id ELSE request.user_id

(* Mutant: a principal without a tenant has access to all of them. *)
HasTenantLoose == principal.tenant_id \in {NoClaim, UserId}

HasTenant == principal.tenant_id = UserId

(* require_tenant_access *)
CheckTenant ==
  /\ stage = "tenant"
  /\ IF settings.enforce_tenant_auth /\ principal = None THEN Answer(401, {})
     ELSE IF settings.enforce_tenant_auth /\ {"admin", "internal"} \cap principal.roles = {} /\ ~HasTenant
       THEN Answer(403, {})
       ELSE stage' = "repository" /\ UNCHANGED <<status, counted>>
  /\ UNCHANGED <<settings, process, request, principal, reached>>

(* The handler's call of the repository and what it makes of it.  A create    *)
(* with a key finds the key taken, by another body (409) or, though it is no   *)
(* fault of the database, in one of the ways that end in an exception          *)
(* (CreateOrder: a replay, repository.py:84, or a lost race, :97).             *)
CallRepository ==
  /\ stage = "repository"
  /\ LET creates == request.route = "create"
     IN  \/ /\ creates => Storable(request.body)
            /\ Answer(200, {}) \/ (~creates /\ Answer(404, {}))
            /\ reached' = reached \cup {"repository"}
         \/ /\ creates /\ ~Storable(request.body)
            /\ Raise
            /\ reached' = reached \cup {"repository"}
         \/ /\ creates /\ request.keyed
            /\ \/ Answer(409, {}) /\ reached' = reached \cup {"repository"}
               \/ Raise /\ reached' = reached \cup {"repository", "repeat"}
         \/ /\ Raise
            /\ reached' = reached \cup {"repository", "fault"}
  /\ UNCHANGED <<settings, process, request, principal>>

Metrics ==
  /\ stage = "metrics"
  /\ IF settings.metrics = "open" \/ (settings.metrics = "token" /\ request.metrics_token)
       THEN Answer(200, {}) /\ reached' = {"metrics"}
       ELSE Answer(401, {}) /\ UNCHANGED reached
  /\ UNCHANGED <<settings, process, request, principal>>

(* The answer is sent, and request.state is gone with the request. *)
Finish ==
  /\ stage = "answered"
  /\ request' = NoRequest /\ stage' = "idle" /\ principal' = None
  /\ status' = 0 /\ counted' = {} /\ reached' = {}
  /\ UNCHANGED <<settings, process>>

Exited == process = "refused" /\ UNCHANGED avars

Next == \/ Startup
        \/ \E r \in RequestsTried : Receive(r)
        \/ Authenticate \/ Limit \/ Validate \/ CheckTenant \/ CallRepository
        \/ Metrics \/ Finish
        \/ Exited

Spec == Init /\ [][Next]_avars

-----------------------------------------------------------------------------
Counters == {"requests", "status", "5xx", "auth_failures", "auth_forbidden", "rate_limited"}

TypeOK ==
  /\ settings \in SettingsTried
  /\ process \in {"starting", "serving", "refused"}
  /\ request \in RequestsTried
  /\ stage \in Stages
  /\ principal.roles \subseteq Roles /\ principal.tenant_id \in Claims \ {BadClaim}
  /\ status \in {0, 200, 401, 403, 404, 409, 422, 429, 500, 503}
  /\ counted \subseteq Counters
  /\ reached \subseteq {"limiter", "repository", "metrics", "fault", "repeat"}

(* README.md:104-121 and the comment at security.py:104: a key is good for   *)
(* what its privilege covers and for all tenants; a token for its roles,     *)
(* and for its own tenant unless it is an administrator's or internal.       *)
Privilege == [read |-> 1, write |-> 2, admin |-> 3, legacy |-> 3]
Needed == [user |-> 1, create |-> 2, admin |-> 3]

KeyEntitles ==
  /\ UsesKeys /\ request.key \in settings.keys
  /\ Privilege[request.key] >= Needed[request.route]

TokenEntitles(tenants) ==
  LET t == request.token
  IN  /\ UsesJwt /\ t.kind = "claims"
      /\ "admin" \in t.roles \/ Role[request.route] \in t.roles
      /\ \/ request.route = "admin" \/ ~settings.enforce_tenant_auth
         \/ t.roles \cap {"admin", "internal"} # {}
         \/ UserId \in tenants

(* The repository is only ever called for a request that holds a credential  *)
(* the settings accept and the rules entitle to it, wherever the steps from  *)
(* the header to the handler could have mixed up key and token, roles and    *)
(* tenants; only a development process may have authentication off.          *)
OnlyEntitled ==
  "repository" \in reached =>
    \/ ~settings.production /\ settings.auth_mode = "disabled"
    \/ KeyEntitles
    \/ TokenEntitles({request.token.tenant_id, request.token.user_id})

(* And the other way round: one credential that entitles is not refused.     *)
EntitledServed ==
  /\ settings.auth_mode # "disabled"
  /\ request.route # "metrics"
  /\ \/ request.token.kind = "none" /\ KeyEntitles
     \/ /\ request.key = "none"
        /\ {request.token.tenant_id, request.token.user_id} \subseteq {NoClaim, 0, UserId}
        /\ TokenEntitles({request.token.tenant_id, request.token.user_id})
  => status \notin {401, 403}

(* What Settings.validate buys (settings.py:113-137, PRODUCTION_CHECKLIST.md *)
(* :15-20): in production no order is read or written anonymously or by the  *)
(* old single key, none passes the limiter of Redis without being counted    *)
(* there, no process counts in its own memory, and metrics need their token. *)
(* It does not buy a limiter: RATE_LIMIT_ENABLED=false starts in production  *)
(* (settings.py:130-133), against README.md:386-389, and then, as with the   *)
(* gateway's, nothing is counted here.                                       *)
ProductionPosture ==
  settings.production =>
    /\ "repository" \in reached =>
         /\ principal.subject \notin {"anonymous", "api-key-legacy"}
         /\ settings.limiter = "redis" => "limiter" \in reached
         /\ settings.limiter # "memory" /\ settings.secure
    /\ "metrics" \in reached => request.metrics_token

(* What the writer's validation lets through to the repository, the types    *)
(* and CHECKs of the table accept: the limits are written twice, in          *)
(* main.py:24-42 and 0001_init_schema.py:37-41, and a body between them is   *)
(* an order that can never be stored and a 500.  The gaps are named: a user  *)
(* id over bigint, a payload that is not JSON for jsonb, and a               *)
(* MAX_ORDER_AMOUNT over the CHECK, which nothing compares (settings.py:70). *)
TableAccepts ==
  request.route = "create" /\ "repository" \in reached =>
    \/ Storable(request.body)
    \/ request.body.user_id > MaxUserId \/ request.body.payload = "unstorable"
    \/ settings.max_order_amount > TableMax

(* An order that is answered 200 is stored with the amount that was sent:    *)
(* numeric(12, 2) has nothing to round (main.py:26).                         *)
AmountsExact ==
  request.route = "create" /\ status = 200 =>
    Whole(Row(request.body).amount) = Number(request.body.amount) * TenTo[Places]

(* The hash a key is bound to (repository.py:37-44) tells the row of this    *)
(* request from that of any other accepted body, so a replay never hides     *)
(* another order; bodies of one row differ in the hash only where the amount *)
(* has another number of digits after the point, 1.0 and 1.00, or a zero     *)
(* another sign, so that is all a retry must keep.                           *)
HashNamesTheRow ==
  request.route = "create" /\ stage = "repository" =>
    \A b \in {c \in Bodies : Acceptable(c, settings.max_order_amount)} :
      RequestHash(b) = RequestHash(request.body) <=>
        /\ Row(b) = Row(request.body)
        /\ b.amount.scale = request.body.amount.scale /\ b.amount.sign = request.body.amount.sign

(* The counters the alerts read (infra/prometheus/alerts.yml) account for    *)
(* every answer, those of an exception included; only 401s are counted as    *)
(* failures to authenticate, though not all: a bad token's is not.           *)
Accounted ==
  stage = "answered" =>
    /\ "requests" \in counted
    /\ "5xx" \in counted <=> status >= 500
    /\ "status" \notin counted => status = 500
    /\ "rate_limited" \in counted <=> status = 429
    /\ "auth_failures" \in counted => status = 401
    /\ "auth_forbidden" \in counted => status = 403

=============================================================================
