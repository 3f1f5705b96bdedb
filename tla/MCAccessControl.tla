-------------------------- MODULE MCAccessControl --------------------------
(***************************************************************************)
(* AccessControl for TLC: every accepted combination of the settings that  *)
(* a request meets, the settings that only the start meets in combination  *)
(* with a few of those, and every kind of credential, alone and in pairs.  *)
(***************************************************************************)
EXTENDS AccessControl

KeySets == {{}, {"read", "write"}, {"read", "write", "admin"}, {"legacy"}, Keys}

MCSettings ==
  {s \in [production : BOOLEAN, auth_mode : Modes \cup {"unknown"}, keys : KeySets,
          require_api_key : BOOLEAN, jwt_secret : BOOLEAN, enforce_tenant_auth : BOOLEAN,
          limiter : {"off", "redis", "memory", "gateway"}, redis_url : BOOLEAN,
          metrics : {"open", "token", "tokenless"}, secure : BOOLEAN,
          max_order_amount : 1 .. 2] :
     \/ s.production /\ s.max_order_amount = 1
     \/ /\ s.jwt_secret /\ s.secure /\ s.require_api_key /\ s.metrics = "token"
        /\ s.limiter # "gateway" /\ s.redis_url = (s.max_order_amount = 1)}

MCTokens ==
  LET claims(rs, t, u) == [kind |-> "claims", roles |-> rs, tenant_id |-> t, user_id |-> u]
  IN  {[claims({}, NoClaim, NoClaim) EXCEPT !.kind = k] : k \in {"none", "invalid"}}
      \cup {claims(rs, c[1], c[2]) :
              rs \in {{}, {"orders:read"}, {"orders:read", "orders:write"}, {"admin"},
                      {"orders:read", "internal"}},
              c \in {<<NoClaim, NoClaim>>, <<1, NoClaim>>, <<0, 1>>, <<2, 1>>, <<BadClaim, 1>>}}

Body(u, sign, units, scale, p) ==
  [user_id |-> u, amount |-> [sign |-> sign, units |-> units, scale |-> scale],
   status |-> "paid", payload |-> p]
MCBodies == {Body(3, 1, 1, 0, "{}"), Body(1, 1, 1, 0, "unstorable"), Body(1, 1, 1, 0, "large")}
            \cup {Body(1, -1, units, 1, "small") : units \in {0, 1}}
            \cup {Body(1, 1, units, scale, "absent") : units \in {0, 1, 2, 10}, scale \in 0 .. 3}

MCRequests ==
  LET req(route, body, parses, k, t, m) ==
        [route |-> route, user_id |-> 1, body |-> body, parses |-> parses, key |-> k,
         token |-> t, keyed |-> k = "write", metrics_token |-> m]
      plain == Body(1, 1, 10, 1, "small")
      noToken == CHOOSE t \in MCTokens : t.kind = "none"
      besideKeys == {t \in MCTokens : t.kind = "claims" =>
                       t.roles \in {{"orders:read"}, {"admin"}} /\ t.tenant_id = 1}
      orders == {"create", "user", "admin"}
  IN  {req(route, plain, TRUE, "none", t, FALSE) : route \in orders, t \in MCTokens}
      \cup {req(route, plain, TRUE, k, t, FALSE) :
              route \in orders, k \in Keys \cup {"wrong", "non_ascii"}, t \in besideKeys}
      \cup {req("create", b, TRUE, "write", noToken, FALSE) : b \in MCBodies}
      \cup {req("create", plain, FALSE, "none", noToken, FALSE)}
      \cup {req("metrics", plain, TRUE, "none", noToken, m) : m \in BOOLEAN}
=============================================================================
