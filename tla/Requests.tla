------------------------------ MODULE Requests ------------------------------
(***************************************************************************)
(* The life of a request under /xapi, from the middlewares of the app to   *)
(* the handlers of statements: alternate request syntax, version, size,    *)
(* body, identity, scope and rate, then POST, PUT or GET of statements by  *)
(* id.  What the middlewares share is the rate limiter, which runs without *)
(* await, so a request is one step; the transactions of the handlers are   *)
(* the subject of StatementStore, list requests that of StatementPages.    *)
(*                                                                         *)
(* A request has a method, a path, headers and params (functions from      *)
(* their names) and a body: its size and `json' ([one |-> statement] or    *)
(* [many |-> sequence]), `parts' of multipart/mixed, `fields' of a form,   *)
(* or none of them when it is garbage.  A field named `content' holds a    *)
(* body.  An attachment's data is a record with its SHA-256 in `sha' and,  *)
(* for a JWS, `alg', `payload' and `x5c'.                                  *)
(***************************************************************************)
EXTENDS StatementSchema, Authorization

CONSTANTS Offered(_),      \* the requests clients may send when n were served
          Languages,       \* Accept-Language headers
          Credential,      \* for Basic: the credential of each key and secret
          JwtIssuer,       \* None without JWT configuration
          JwtAudience,
          LrsHomePage,
          Voided,          \* VOIDED_VERB_ID
          Signature,       \* SIGNATURE_USAGE_TYPE
          VerifySignatures,   \* xapiVerifySignatures
          MaxBody,         \* maxRequestBodyBytes
          WindowSeconds, MaxRequests,
          Second,          \* ticks of the clock
          Horizon, MaxServed, MaxBatch,   \* bounds: MaxBatch statements in a body
          None

ASSUME LimitsAssumption ==
    /\ Second \in Nat \ {0} /\ WindowSeconds \in Nat \ {0} /\ MaxRequests \in Nat \ {0}
    /\ MaxBody \in Nat /\ MaxServed \in Nat
ASSUME IdentityAssumption ==
    /\ \A k \in DOMAIN Credential : Credential[k].scopes \subseteq Scopes
    /\ iri(LrsHomePage)
    /\ JwtIssuer = None \/ iri(JwtIssuer)
ASSUME NoneAssumption == None \notin 100 .. 599      \* no status
ASSUME ParamsAssumption ==
    \A n \in 0 .. MaxServed : \A r \in Offered(n) : r.params = [p \in DOMAIN r.params |-> r.params[p]]

(* What is generated has the format it is generated for. *)
ASSUME GeneratedAssumption ==
    /\ Horizon \in Nat /\ (0 .. Horizon) \X {"Z"} \subseteq Valid["timestamp"]
    /\ MaxBatch \in Nat \ {0} /\ (0 .. MaxServed) \X (1 .. MaxBatch) \subseteq Valid["uuid"]

VARIABLES
    now,
    buckets,     \* SlidingWindowLimiter: for a key, its requests as <<served, time>>
    stored,      \* by id: payload, and how it was accepted: version, multipart
    voided,      \* ids
    attached,    \* rows <<id, hash, [contentType, data]>>
    answer,      \* status, body, and the request's key if it got as far as the limiter
    served,      \* how many requests were served
    admitted,    \* history: <<served, key, time>> of requests let through
    told         \* history: until when a refused key was told to wait

server == <<buckets, stored, voided, attached>>
vars == <<now, buckets, stored, voided, attached, answer, served, admitted, told>>

Empty == [x \in {} |-> x]
Get(f, x) == IF Has(f, x) THEN f[x] ELSE None
Header(r, name) == Get(r.headers, name)

Json == "application/json"
Form == "application/x-www-form-urlencoded"
Multipart == "multipart/mixed"      \* with a boundary

(* JSON text has arrays, a form has fields, and its content is a body again. *)
Array(x) == x \in Seq(Range(x))
OneOrMany(json) == Has(json, "one") \/ (Array(json.many) /\ Len(json.many) <= MaxBatch)
WellMade(body) ==
    /\ Field(body, "json", OneOrMany)
    /\ Field(body, "parts", Array)
    /\ Has(body, "parts") => \A i \in DOMAIN body.parts : Field(body.parts[i], "json", OneOrMany)

ASSUME BodiesAssumption ==
    /\ \A l \in Languages : Array(l)
    /\ \A n \in 0 .. MaxServed : \A r \in Offered(n) :
          /\ WellMade(r.body)
          /\ Header(r, "Content-Type") = Form =>
                Has(r.body, "fields") /\ Field(r.body.fields, "content", WellMade)

-----------------------------------------------------------------------------
(* Alternate request syntax: a POST that stands for another method. *)

ALTERNATE_HEADER_FIELDS == {"Authorization", "X-Experience-API-Version", "Content-Type",
                            "Content-Length", "If-Match", "If-None-Match"}

(* The version in the form goes before the header; 2.0 has no such syntax. *)
EffectiveVersion(r) ==
    LET field == Get(r.body.fields, "X-Experience-API-Version")
    IN  IF field # None THEN field ELSE Header(r, "X-Experience-API-Version")

IsAlternate(r) ==
    /\ r.method = "POST"
    /\ Get(r.params, "method") \in {"GET", "PUT", "DELETE"}
    /\ Header(r, "Content-Type") = Form
    /\ EffectiveVersion(r) \in Valid["version10"] \cup {None}

HasDuplicate(r) == (DOMAIN r.params \ {"method"}) \cap DOMAIN r.body.fields # {}

\* Mutant: the length of the form is kept as that of its content.
Redispatched_keepsLength(r) ==
    LET fields == r.body.fields
        headers == Over(Keep(fields, ALTERNATE_HEADER_FIELDS), r.headers)
        content == r.params["method"] = "PUT" /\ Has(fields, "content")
    IN [method |-> r.params["method"], path |-> r.path,
        params |-> Over(Drop(fields, ALTERNATE_HEADER_FIELDS \cup {"content"}),
                        Drop(r.params, {"method"})),
        headers |-> IF r.params["method"] # "PUT" THEN Drop(headers, {"Content-Type"})
                    ELSE IF content /\ ~Has(fields, "Content-Type")
                         THEN With(headers, "Content-Type", Json) ELSE headers,
        body |-> IF content THEN fields["content"] ELSE [size |-> 0]]

(* Header fields replace headers, the others but `content' become parameters,
   and content is JSON unless the form says what it is. *)
Redispatched(r) ==
    LET fields == r.body.fields
        headers == Drop(Over(Keep(fields, ALTERNATE_HEADER_FIELDS), r.headers), {"Content-Length"})
        content == r.params["method"] = "PUT" /\ Has(fields, "content")
    IN [method |-> r.params["method"], path |-> r.path,
        params |-> Over(Drop(fields, ALTERNATE_HEADER_FIELDS \cup {"content"}),
                        Drop(r.params, {"method"})),
        headers |-> IF r.params["method"] # "PUT" THEN Drop(headers, {"Content-Type"})
                    ELSE IF content /\ ~Has(fields, "Content-Type")
                         THEN With(headers, "Content-Type", Json) ELSE headers,
        body |-> IF content THEN fields["content"] ELSE [size |-> 0]]

-----------------------------------------------------------------------------
(* Version, size and body. *)

negotiate(v) == IF v \in Valid["version10"] THEN "1.0.3"
                ELSE IF v \in Valid["version20"] THEN "2.0.0" ELSE None

XapiVersion(r) == negotiate(Header(r, "X-Experience-API-Version"))

(* /about and /stream do without the header, but take no unknown version. *)
Versioned(r) ==
    \/ XapiVersion(r) # None
    \/ r.path \in {"/xapi/about", "/xapi/stream"} /\ ~Has(r.headers, "X-Experience-API-Version")

ReadsBody(r) == r.method \notin {"GET", "DELETE", "HEAD", "OPTIONS"}

TooLarge(r) ==
    \/ Has(r.headers, "Content-Length") /\ r.headers["Content-Length"] > MaxBody
    \/ ReadsBody(r) /\ r.body.size > MaxBody

(* The first part is JSON; each other has a hash and is binary. *)
WellFormed(parts) ==
    /\ parts # <<>>
    /\ parts[1].contentType = Json /\ Has(parts[1], "json")
    /\ \A i \in DOMAIN parts \ {1} : Has(parts[i], "hash") /\ Get(parts[i], "encoding") = "binary"

sanitizeAttachmentContentType(t) ==
    IF t \in {"text/html", "text/xml", "application/xhtml+xml", "image/svg+xml", "text/xsl"}
    THEN "application/octet-stream" ELSE t

(* The attachments by hash; of equal hashes the last. *)
AttachmentsOf(parts) ==
    LET at(h) == {i \in DOMAIN parts \ {1} : parts[i].hash = h}
        last(h) == parts[CHOOSE i \in at(h) : \A j \in at(h) : j <= i]
    IN  [h \in {parts[i].hash : i \in DOMAIN parts \ {1}} |->
            [contentType |-> sanitizeAttachmentContentType(last(h).contentType),
             data |-> last(h).data]]

Parsable(r) ==
    \/ ~ReadsBody(r)
    \/ CASE Header(r, "Content-Type") = Multipart -> Has(r.body, "parts") /\ WellFormed(r.body.parts)
         [] Header(r, "Content-Type") = Json -> Has(r.body, "json")
         [] OTHER -> TRUE

IsMultipart(r) == ReadsBody(r) /\ Header(r, "Content-Type") = Multipart

ParsedBody(r) ==
    IF IsMultipart(r) THEN r.body.parts[1].json
    ELSE IF ReadsBody(r) /\ Header(r, "Content-Type") = Json THEN r.body.json ELSE None

AttachmentParts(r) == IF IsMultipart(r) THEN AttachmentsOf(r.body.parts) ELSE Empty

-----------------------------------------------------------------------------
(* Identity, scope and rate. *)

AuthHeader(r) ==
    IF Has(r.headers, "Authorization") THEN r.headers["Authorization"] ELSE Empty

(* A refused token ends in an error without a status, hence in 500. *)
AuthStatus(r) ==
    LET a == AuthHeader(r) IN
    CASE Has(a, "basic") -> IF Has(Credential, a.basic) THEN 200 ELSE 401
      [] Has(a, "bearer") -> IF JwtIssuer = None THEN 401
                             ELSE IF verifyJwt(a.bearer, JwtIssuer, JwtAudience) THEN 200 ELSE 500
      [] OTHER -> 401

Auth(r) ==
    LET a == AuthHeader(r) IN
    IF Has(a, "basic")
    THEN LET c == Credential[a.basic]
         IN [key |-> <<"cred", c.id>>, homePage |-> LrsHomePage, name |-> c.account,
             scopes |-> c.scopes]
    ELSE [key |-> <<"jwt", a.bearer.sub>>, homePage |-> a.bearer.iss, name |-> a.bearer.sub,
          scopes |-> extractScopes(a.bearer)]

authorityFromAuth(auth) ==
    [objectType |-> "Agent", account |-> [homePage |-> auth.homePage, name |-> auth.name]]

Window == WindowSeconds * Second
Recent(key) == {hit \in IF Has(buckets, key) THEN buckets[key] ELSE {} : hit[2] > now - Window}
Limited(key) == Cardinality(Recent(key)) >= MaxRequests

(* The array is in the order of time: this is its first element. *)
Oldest(key) == CHOOSE t \in {hit[2] : hit \in Recent(key)} : \A hit \in Recent(key) : t <= hit[2]

\* Mutant: the rest of a second is cut off.
RetryAfter_floor(key) ==
    LET seconds == (Oldest(key) + Window - now) \div Second
    IN  IF seconds < 1 THEN 1 ELSE seconds

(* Until the oldest request leaves the window, in whole seconds. *)
RetryAfter(key) ==
    LET seconds == (Oldest(key) + Window - now + Second - 1) \div Second
    IN  IF seconds < 1 THEN 1 ELSE seconds

(* The status a middleware answers with, or None. *)
Refusal(r) ==
    IF ~Versioned(r) THEN 400
    ELSE IF TooLarge(r) THEN 413
    ELSE IF ~Parsable(r) THEN 400
    ELSE IF r.path = "/xapi/about" THEN None
    ELSE IF AuthStatus(r) # 200 THEN AuthStatus(r)
    ELSE IF ~scopeMiddleware(Auth(r).scopes, <<r.path, r.method>>) THEN 403
    ELSE None

-----------------------------------------------------------------------------
(* Statements with their attachments. *)

Attachments(s) == IF Has(s, "attachments") THEN Range(s.attachments) ELSE {}

Required(s) == {a.sha2 : a \in {b \in Attachments(s) : ~Has(b, "fileUrl")}}

(* A signature whose file came along must be a JWS of the statement. *)
validateSignedStatement(s, parts) ==
    \A a \in Attachments(s) : a.usageType = Signature =>
        /\ a.contentType = "application/octet-stream"
        /\ Has(parts, a.sha2) =>
             LET jws == parts[a.sha2].data IN
             /\ {"alg", "payload", "x5c"} \subseteq DOMAIN jws
             /\ jws.alg \in {"RS256", "RS384", "RS512"}
             /\ VerifySignatures => /\ statementsEquivalent(jws.payload, s)
                                    /\ jws.x5c \in {"none", "verifies"}

validateAttachmentParts(statements, parts) ==
    /\ DOMAIN parts \subseteq UNION {{a.sha2 : a \in Attachments(s)} : s \in statements}
    /\ UNION {Required(s) : s \in statements} \subseteq DOMAIN parts
    /\ \A h \in DOMAIN parts : parts[h].data.sha = h
    /\ \A s \in statements : validateSignedStatement(s, parts)

IsVoiding(s) == s.verb.id = Voided
Target(s) == s.object.id

(* handleVoiding: the target is a statement, and no voiding one. *)
MayVoid(s) ==
    /\ ObjectType(s.object) = "StatementRef"
    /\ Has(stored, Target(s)) => ~IsVoiding(stored[Target(s)].payload)

(* What the middlewares put in the context of a request, for its handler. *)
Context(r) ==
    [method |-> r.method, path |-> r.path, params |-> r.params,
     auth |-> Auth(r), version |-> XapiVersion(r),
     body |-> ParsedBody(r), multipart |-> IsMultipart(r), parts |-> AttachmentParts(r),
     language |-> IF Has(r.headers, "Accept-Language") THEN r.headers["Accept-Language"] ELSE <<>>]

(* A batch that is accepted: what is new is stored with its attachments, and
   what it voids is voided. *)
Stored(c, batch) ==
    LET new == {s \in batch : ~Has(stored, s.id)}
    IN [stored |-> Over(stored,
            [id \in {s.id : s \in new} |->
                [payload |-> With(With(CHOOSE s \in new : s.id = id, "stored", <<now, "Z">>),
                                  "authority", authorityFromAuth(c.auth)),
                 version |-> c.version, multipart |-> c.multipart]]),
        voided |-> voided \cup (DOMAIN stored \cap {Target(s) : s \in {x \in batch : IsVoiding(x)}}),
        attached |-> attached \cup UNION {
            {<<s.id, a.sha2, c.parts[a.sha2]>> : a \in {b \in Attachments(s) : Has(c.parts, b.sha2)}}
            : s \in new}]

Same == [stored |-> stored, voided |-> voided, attached |-> attached]
Shows(body) == [status |-> 200, body |-> body, writes |-> Same]
Fails(status) == [status |-> status, body |-> None, writes |-> Same]
Succeeds(status, writes) == [status |-> status, body |-> None, writes |-> writes]

(* Everything is checked before anything is written. *)
PostStatements(c) ==
    LET body == c.body
        raw == IF body = None THEN <<Empty>> ELSE IF Has(body, "one") THEN <<body.one>> ELSE body.many
        parsed == [i \in DOMAIN raw |-> validateStatement(raw[i], <<served, i>>, <<now, "Z">>)]
        batch == Range(parsed)
    IN IF ~Every(raw, LAMBDA s : statementSchemaFor(s, c.version)) THEN Fails(400)
       ELSE IF Cardinality({parsed[i].id : i \in DOMAIN raw}) < Len(raw) THEN Fails(400)
       ELSE IF c.multipart /\ ~validateAttachmentParts(batch, c.parts) THEN Fails(400)
       ELSE IF \E s \in batch : IsVoiding(s) /\ ~MayVoid(s) THEN Fails(400)
       ELSE IF \E s \in batch : Has(stored, s.id) /\ ~statementsMatch(stored[s.id].payload, s)
            THEN Fails(409)
       ELSE Succeeds(200, Stored(c, batch))

(* The id is the parameter's unless the statement has one; voiding is for new
   statements only. *)
PutStatement(c) ==
    LET body == c.body
        id == c.params["statementId"]
        raw == IF body = None \/ ~Has(body, "one") THEN Empty
               ELSE IF Has(body.one, "id") THEN body.one ELSE With(body.one, "id", id)
        s == validateStatement(raw, id, <<now, "Z">>)
    IN IF ~Has(c.params, "statementId") \/ ~statementSchemaFor(raw, c.version) THEN Fails(400)
       ELSE IF c.multipart /\ ~validateAttachmentParts({s}, c.parts) THEN Fails(400)
       ELSE IF s.id # id THEN Fails(409)
       ELSE IF Has(stored, id)
            THEN Fails(IF statementsMatch(stored[id].payload, s) THEN 204 ELSE 409)
       ELSE IF IsVoiding(s) /\ ~MayVoid(s) THEN Fails(400)
       ELSE Succeeds(204, Stored(c, {s}))

(* With no other scope to read, a client gets what it is the actor of. *)
hasOnlyMineScope(scopes) ==
    /\ "statements/read/mine" \in scopes
    /\ scopes \cap {"statements/read", "all/read", "all"} = {}

BelongsTo(s, auth) == Get(s.actor, "account") = authorityFromAuth(auth).account

GetStatement(c) ==
    LET wanted == DOMAIN c.params \cap {"statementId", "voidedStatementId"}
        id == c.params[CHOOSE p \in wanted : TRUE]
    IN IF \/ Cardinality(wanted) # 1
          \/ ~(DOMAIN c.params \subseteq wanted \cup {"format", "attachments"})
          \/ Has(c.params, "format") /\ c.params["format"] \notin {"exact", "ids", "canonical"}
       THEN Fails(400)
       ELSE IF ~Has(stored, id) \/ (id \in voided <=> "statementId" \in wanted) THEN Fails(404)
       ELSE IF hasOnlyMineScope(c.auth.scopes) /\ ~BelongsTo(stored[id].payload, c.auth)
            THEN Fails(403)
       ELSE Shows(formatStatement(stored[id].payload, Get(c.params, "format"), c.language))

Handled(c) ==
    CASE c.path = "/xapi/statements" /\ c.method = "POST" -> PostStatements(c)
      [] c.path = "/xapi/statements" /\ c.method = "PUT" -> PutStatement(c)
      [] c.path = "/xapi/statements" /\ c.method = "GET" -> GetStatement(c)
      [] OTHER -> Fails(404)

(* What collectAttachmentParts and buildMultipartResponse send. *)
Response(id, rows) ==
    <<[contentType |-> Json, json |-> [one |-> stored[id].payload]]>> \o
    [i \in DOMAIN rows |-> [contentType |-> rows[i][3].contentType, data |-> rows[i][3].data,
                            hash |-> rows[i][2], encoding |-> "binary"]]

-----------------------------------------------------------------------------
(* What becomes of the server, with the answer: of a request that does not get
   as far as the limiter, that is limited, and that is handled. *)
Unaffected(status) == [writes |-> Same, buckets |-> buckets, answer |-> [status |-> status]]

Delayed(key) ==
    [writes |-> Same, buckets |-> With(buckets, key, Recent(key)),
     answer |-> [status |-> 429, key |-> key, retryAfter |-> RetryAfter(key)]]

Admitted(key, h) ==
    [writes |-> h.writes, buckets |-> With(buckets, key, Recent(key) \cup {<<served, now>>}),
     answer |-> [status |-> h.status, key |-> key, body |-> h.body]]

Dispatched(r, refusal) ==
    IF refusal # None THEN Unaffected(refusal)
    ELSE IF r.path = "/xapi/about" THEN Unaffected(200)
    ELSE IF Limited(Auth(r).key) THEN Delayed(Auth(r).key)
    ELSE Admitted(Auth(r).key, Handled(Context(r)))

Received(r) == Dispatched(r, Refusal(r))

(* A request from its arrival to its answer. *)
Outcome(q) ==
    IF IsAlternate(q) /\ HasDuplicate(q) THEN Unaffected(400)
    ELSE Received(IF IsAlternate(q) THEN Redispatched(q) ELSE q)

Answered(o) ==
    /\ answer' = o.answer
    /\ buckets' = o.buckets
    /\ stored' = o.writes.stored /\ voided' = o.writes.voided /\ attached' = o.writes.attached
    /\ \/ ~Has(o.answer, "key") /\ UNCHANGED <<admitted, told>>
       \/ /\ Has(o.answer, "key") /\ o.answer.status = 429
          /\ told' = With(told, o.answer.key, now + o.answer.retryAfter * Second)
          /\ UNCHANGED admitted
       \/ /\ Has(o.answer, "key") /\ o.answer.status # 429
          /\ admitted' = admitted \cup {<<served, o.answer.key, now>>}
          /\ told' = Drop(told, {o.answer.key})

Serve(q) ==
    /\ served < MaxServed
    /\ served' = served + 1
    /\ \E o \in {Outcome(q)} : Answered(o)
    /\ UNCHANGED now

Tick ==
    /\ now < Horizon
    /\ now' = now + 1
    /\ UNCHANGED <<server, answer, served, admitted, told>>

(* Every five minutes. *)
PruneStaleKeys ==
    /\ buckets' = [k \in {x \in DOMAIN buckets : Recent(x) # {}} |-> Recent(k)]
    /\ UNCHANGED <<now, stored, voided, attached, answer, served, admitted, told>>

Init ==
    /\ now = 0
    /\ buckets = Empty
    /\ stored = Empty /\ voided = {} /\ attached = {}
    /\ answer = [status |-> None]
    /\ served = 0
    /\ admitted = {}
    /\ told = Empty

Next ==
    \/ \E q \in Offered(served) : Serve(q)
    \/ Tick
    \/ PruneStaleKeys

Spec == Init /\ [][Next]_vars

-----------------------------------------------------------------------------
(* What alternate request syntax can express: a request of 1.0 with a method
   that it stands for, its parameters none of the names the form gives another
   meaning, its content typed, and a length that is the length of its body. *)
Expressible(r) ==
    /\ r.method \in {"GET", "PUT"}
    /\ Header(r, "X-Experience-API-Version") \in Valid["version10"]
    /\ DOMAIN r.params \cap (ALTERNATE_HEADER_FIELDS \cup {"content", "method"}) = {}
    /\ r.method = "PUT" => Has(r.headers, "Content-Type")
    /\ r.method = "GET" => r.body.size = 0
    /\ Is(r.headers, "Content-Length", r.body.size)

(* r as a POST with a form: in the form the headers hs and the parameters ps. *)
FormCoding(r, hs, ps) ==
    LET needed == IF r.method = "PUT" THEN {"Content-Type"} ELSE {}
        fields == Over(Keep(r.headers, hs \cup needed), Keep(r.params, ps))
    IN [method |-> "POST", path |-> r.path,
        params |-> With(Drop(r.params, ps), "method", r.method),
        headers |-> With(With(Drop(r.headers, hs), "Content-Length", r.body.size + 1),
                         "Content-Type", Form),
        body |-> [size |-> r.body.size + 1,
                  fields |-> IF r.method = "PUT" THEN With(fields, "content", r.body) ELSE fields]]

(* Every way to do so. *)
FormCodings(r) ==
    LET may == DOMAIN r.headers \cap (ALTERNATE_HEADER_FIELDS \ {"Content-Type", "Content-Length"})
    IN {FormCoding(r, hs, ps) : hs \in SUBSET may, ps \in SUBSET DOMAIN r.params}

(* "Alternate Request Syntax": the POST with a form gets the answer of the
   request it stands for, leaves the same behind, and is counted once by the
   limiter, however headers and parameters are spread over form and request. *)
AlternateMeansTheSame ==
    \A r \in Offered(served) :
        Expressible(r) => {Outcome(q) : q \in FormCodings(r)} \subseteq {Outcome(r)}

(* What was accepted is accepted again as it is read back, in every format and
   under the version it came with: read exactly, it says what is stored; sent
   with its files, it is accepted again with the files that are returned. *)
ReadBackIsAccepted ==
    \A id \in DOMAIN stored :
        LET s == stored[id]
            again == validateStatement(s.payload, None, None)
            rows == CHOOSE f \in [1 .. Cardinality({x \in attached : x[1] = id}) ->
                                    {x \in attached : x[1] = id}] :
                       Range(f) = {x \in attached : x[1] = id}
        IN /\ \A format \in {"exact", "ids", "canonical"}, language \in Languages :
                statementSchemaFor(formatStatement(s.payload, format, language), s.version)
           /\ statementsMatch(s.payload, again)
           /\ s.multipart => /\ WellFormed(Response(id, rows))
                             /\ validateAttachmentParts({again}, AttachmentsOf(Response(id, rows)))

(* The limiter lets no key exceed its number of requests in any window, prunes
   and refusals between them notwithstanding; and a client that waited as it
   was told is not refused again unless a request of its own was let through. *)
WithinTheWindow ==
    [][/\ \A a \in admitted' :
            Cardinality({b \in admitted' : b[2] = a[2] /\ a[3] - Window < b[3] /\ b[3] <= a[3]})
                <= MaxRequests
       /\ served' > served /\ answer'.status = 429 /\ Has(told, answer'.key)
            => now < told[answer'.key]]_vars

=============================================================================
