--------------------------- MODULE Authorization ---------------------------
(* What a request is allowed to do: the scopes, the routes they open, and the
   claims of a bearer token. *)
EXTENDS FiniteSets

Scopes == {"statements/write", "statements/read", "statements/read/mine", "all/read",
           "all", "state", "state/read", "define", "activities_profile",
           "activities_profile/read", "agents_profile", "agents_profile/read"}

Paths == {"/xapi/statements", "/xapi/activities/state", "/xapi/activities/profile",
          "/xapi/agents/profile", "/xapi/agents", "/xapi/activities", "/xapi/stream"}

IsRead(method) == method \in {"GET", "HEAD"}

requiredScopes(route) ==
    LET path == route[1]
        read == IsRead(route[2])
        all == IF read THEN {"all", "all/read"} ELSE {"all"}
    IN CASE path = "/xapi/statements" ->
              all \cup IF read THEN {"statements/read", "statements/read/mine"}
                               ELSE {"statements/write"}
         [] path = "/xapi/activities/state" ->
              all \cup {"state"} \cup IF read THEN {"state/read"} ELSE {}
         [] path = "/xapi/activities/profile" ->
              all \cup {"activities_profile"}
                  \cup IF read THEN {"activities_profile/read"} ELSE {"define"}
         [] path = "/xapi/agents/profile" ->
              all \cup {"agents_profile"} \cup IF read THEN {"agents_profile/read"} ELSE {}
         [] path = "/xapi/agents" -> {"agents_profile/read", "all/read", "all"}
         [] path = "/xapi/activities" -> {"activities_profile/read", "all/read", "all"}
         [] path = "/xapi/stream" ->
              {"statements/read", "statements/read/mine", "all/read", "all"}

hasScope(granted, required) == granted \cap required # {}

(* A public or an unknown route is let through. *)
scopeMiddleware(granted, route) ==
    route[1] \in Paths => hasScope(granted, requiredScopes(route))

-----------------------------------------------------------------------------
(* A token is a record of its claims, absent fields and all; `aud', `scope' and
   `scopes' are sets, and `sound' says whether jose accepts its signature and
   its times. *)
extractScopes(claims) ==
    LET known(f) == IF f \in DOMAIN claims THEN claims[f] \cap Scopes ELSE {}
    IN  IF known("scope") # {} THEN known("scope") ELSE known("scopes")

verifyJwt(claims, issuer, audience) ==
    /\ {"iss", "aud"} \subseteq DOMAIN claims
    /\ claims.iss = issuer /\ audience \in claims.aud
    /\ claims.sound
    /\ extractScopes(claims) # {}

=============================================================================
