----------------------------- MODULE MCRequests -----------------------------
(* One request of each kind as the first, so that every field of a statement is
   accepted or refused once; then reads and writes of two credentials and a
   bearer of a token, close to the limit. *)
EXTENDS Requests, TLC

MCHorizon == 5
MCMaxServed == 4
MCMaxBatch == 2
MCValid == [iri |-> {"iri:a", "iri:b", "iri:voided", "iri:signature", "iri:lrs", "iri:issuer"},
            mbox |-> {"mailto:p"}, sha1 |-> {"da39"}, duration |-> {"PT1S"},
            language |-> {<<"en">>, <<"en", "us">>, <<"fr">>},
            uuid |-> ((0 .. MCMaxServed) \X (1 .. MCMaxBatch)) \cup {<<9, 1>>, <<9, 2>>},
            timestamp |-> (0 .. MCHorizon) \X {"Z", "+01:00"},
            version10 |-> {"1.0", "1.0.3"}, version20 |-> {"2.0.0"}]

MCLanguages == {<<>>, <<[tag |-> <<"fr">>, q |-> 5], [tag |-> <<"en", "us", "x">>, q |-> 9]>>}

Basic(k) == [basic |-> k]
MCCredential == "writer" :> [id |-> 1, account |-> "w", scopes |-> {"all"}] @@
                "reader" :> [id |-> 2, account |-> "r", scopes |-> {"statements/read"}] @@
                "mine" :> [id |-> 3, account |-> "m", scopes |-> {"statements/read/mine"}]
Token == [iss |-> "iri:issuer", aud |-> {"lrs"}, sub |-> "t", sound |-> TRUE,
          scope |-> {"openid", "all"}]

-----------------------------------------------------------------------------
Texts == <<"en">> :> "a" @@ <<"fr">> :> "b" @@ <<"en", "us">> :> "c"
P == [mbox |-> "mailto:p", name |-> "P"]
Account == [objectType |-> "Agent", account |-> [homePage |-> "iri:a", name |-> "n"]]
Team == [objectType |-> "Group", name |-> "T", member |-> <<P, Account>>]
Known == [objectType |-> "Group", openid |-> "iri:b", member |-> <<P>>]
Act == [id |-> "iri:a", objectType |-> "Activity",
        definition |-> [name |-> Texts, description |-> Texts, type |-> "iri:b",
                        interactionType |-> "choice", correctResponsesPattern |-> <<"x">>,
                        choices |-> <<[id |-> "x", description |-> Texts]>>,
                        extensions |-> "iri:a" :> 1]]
Ref == [objectType |-> "StatementRef", id |-> <<9, 1>>]

S == [actor |-> P, verb |-> [id |-> "iri:b", display |-> Texts], object |-> Act]
WithContext(c) == S @@ [context |-> c]
Related == [parent |-> [one |-> Act], other |-> [many |-> <<Act, Act>>]]
Full == [registration |-> <<9, 2>>, instructor |-> Team, team |-> Known, revision |-> "1",
         language |-> <<"fr">>, statement |-> Ref, contextActivities |-> Related]
Sub == Drop(S, {}) @@ [objectType |-> "SubStatement", context |-> Full, timestamp |-> <<0, "+01:00">>]
File == [usageType |-> "iri:a", display |-> Texts, contentType |-> "text/html",
         length |-> 1, sha2 |-> "h1"]
Sign == [File EXCEPT !.usageType = "iri:signature", !.sha2 = "h2",
                     !.contentType = "application/octet-stream"]

Good ==
    {S, [S EXCEPT !.actor = Account], [S EXCEPT !.actor = Team, !.object = Known],
     [S EXCEPT !.actor = [mbox_sha1sum |-> "da39"], !.object = Account],
     [S EXCEPT !.object = Ref], [S EXCEPT !.object = Sub],
     [S EXCEPT !.object = [Sub EXCEPT !.object = Account, !.context = [instructor |-> P]]],
     [S EXCEPT !.verb = [id |-> "iri:voided"], !.object = [Ref EXCEPT !.id = <<9, 2>>]],
     S @@ [result |-> [score |-> [scaled |-> 1, raw |-> 5, min |-> 0, max |-> 5],
                       success |-> TRUE, duration |-> "PT1S"]],
     WithContext(Full), S @@ [timestamp |-> <<0, "+01:00">>, version |-> "1.0.3"],
     S @@ [authority |-> Account, stored |-> "now"],
     S @@ [attachments |-> <<File @@ [fileUrl |-> "iri:a"]>>],
     S @@ [id |-> <<9, 1>>]}

OnlyIn2 == {WithContext([contextAgents |-> <<[objectType |-> "contextAgent", agent |-> P,
                                              relevantTypes |-> <<"iri:a">>]>>]),
            S @@ [version |-> "2.0.0"]}

Bad ==
    {Drop(S, {"verb"}), S @@ [extra |-> 1], [S EXCEPT !.actor = P @@ [openid |-> "iri:a"]],
     [S EXCEPT !.actor = [Team EXCEPT !.member = <<>>]], [S EXCEPT !.object = P],
     [S EXCEPT !.object.definition = Drop(@, {"interactionType"})],
     [S EXCEPT !.verb.id = "no iri"], S @@ [timestamp |-> <<0, "-00:00">>],
     S @@ [result |-> [score |-> [raw |-> 6, max |-> 5]]],
     [S EXCEPT !.object = Ref] @@ [context |-> [revision |-> "1"]],
     [S EXCEPT !.object = [Sub EXCEPT !.object = Ref]],
     [S EXCEPT !.object = [Sub EXCEPT !.object = Sub]],
     [S EXCEPT !.verb = [id |-> "iri:voided"]],
     S @@ [authority |-> [objectType |-> "Group", member |-> <<P>>]],
     S @@ [attachments |-> <<Drop(File, {"sha2"})>>]} \cup OnlyIn2

-----------------------------------------------------------------------------
Headers(key, version, type) ==
    "Authorization" :> key @@ "X-Experience-API-Version" :> version @@ "Content-Type" :> type
Request(method, params, body) ==
    [method |-> method, path |-> "/xapi/statements", params |-> params,
     headers |-> Headers(Basic("writer"), "1.0.3", Json), body |-> body]
Post(json) == Request("POST", Empty, [size |-> 2, json |-> json])
Put(s, id) == Request("PUT", "statementId" :> id, [size |-> 2, json |-> [one |-> s]])
Read(params) == [Request("GET", params, [size |-> 0])
                    EXCEPT !.headers = Drop(@, {"Content-Type"})]
As(r, key) == [r EXCEPT !.headers = With(@, "Authorization", key)]
In(r, version) == [r EXCEPT !.headers = With(@, "X-Experience-API-Version", version)]
Typed(r, type) == [r EXCEPT !.headers = With(@, "Content-Type", type)]

Part(h, type, data) ==
    [hash |-> h, contentType |-> type, encoding |-> "binary", data |-> data]
Mixed(method, params, s, parts) ==
    Typed(Request(method, params, [size |-> 2, parts |->
              <<[contentType |-> Json, json |-> [one |-> s]]>> \o parts]), Multipart)
WithFile == S @@ [attachments |-> <<File>>]
WithUrl == S @@ [attachments |-> <<File, [File EXCEPT !.sha2 = "h3"] @@ [fileUrl |-> "iri:a"]>>]
Signed == S @@ [attachments |-> <<Sign, File>>]
Listable == WithContext([contextActivities |-> [parent |-> [one |-> Act]]])
SignedListable == Listable @@ [attachments |-> <<Sign>>]
F1 == Part("h1", "text/html", [sha |-> "h1"])
Jws(payload, alg, x5c) ==
    Part("h2", "application/octet-stream",
         [sha |-> "h2", alg |-> alg, payload |-> payload, x5c |-> x5c])

Multiparts ==
    {Mixed("POST", Empty, WithFile, <<F1>>), Mixed("PUT", "statementId" :> <<9, 1>>, WithFile, <<F1>>),
     Mixed("POST", Empty, WithUrl, <<F1>>), Mixed("POST", Empty, WithUrl, <<>>),
     Mixed("POST", Empty, S, <<F1>>),
     Mixed("POST", Empty, WithFile, <<[F1 EXCEPT !.data = [sha |-> "h3"]]>>),
     Mixed("POST", Empty, WithFile, <<Drop(F1, {"encoding"})>>),
     Mixed("POST", Empty, Signed, <<Jws(S, "RS256", "verifies"), F1>>),
     Mixed("POST", Empty, Signed, <<Jws(S, "HS256", "none"), F1>>),
     Mixed("POST", Empty, Signed, <<Jws(S, "RS256", "differs"), F1>>),
     Mixed("POST", Empty, Signed, <<Jws(Sub, "RS256", "none"), F1>>),
     Mixed("POST", Empty, SignedListable, <<Jws(Listable, "RS256", "none")>>)}

Statements == {Post([one |-> s]) : s \in Good \cup Bad} \cup
              {In(Post([one |-> s]), "2.0.0") : s \in OnlyIn2} \cup
              {Put(s, <<9, 1>>) : s \in {S, S @@ [id |-> <<9, 2>>]}}

Others ==
    {Post([many |-> <<S, S>>]), Post([many |-> <<S @@ [id |-> <<9, 1>>], S @@ [id |-> <<9, 1>>]>>]),
     Request("POST", Empty, [size |-> 2]), Typed(Post([one |-> S]), "text/plain"),
     [Put(S, <<9, 1>>) EXCEPT !.body.size = 3, !.headers = With(@, "Content-Length", 3)], In(Put(S, <<9, 1>>), "1.1"),
     Typed(Put(S, <<9, 1>>), "text/plain"), [Put(S, <<9, 1>>) EXCEPT !.params = Empty],
     As(Put(S, <<9, 1>>), Basic("reader")), As(Put(S, <<9, 1>>), Basic("nobody")),
     As(Put(S, <<9, 1>>), [bearer |-> Token]),
     As(Put(S, <<9, 1>>), [bearer |-> [Token EXCEPT !.sound = FALSE]]),
     As(Put(S, <<9, 1>>), [bearer |-> [Token EXCEPT !.scope = {"openid"}]]),
     Read("statementId" :> <<9, 1>> @@ "limit" :> "1"),
     [Read(Empty) EXCEPT !.path = "/xapi/about", !.headers = Empty],
     [method |-> "POST", path |-> "/xapi/statements",
      params |-> "method" :> "PUT" @@ "statementId" :> <<9, 1>>,
      headers |-> Headers(Basic("writer"), "1.0.3", Form),
      body |-> [size |-> 3, fields |-> "content" :> [size |-> 2, json |-> [one |-> S]]
                                         @@ "statementId" :> <<9, 1>>]],
     [method |-> "POST", path |-> "/xapi/statements",
      params |-> "method" :> "PUT" @@ "statementId" :> <<9, 1>>,
      headers |-> Headers(Basic("writer"), "2.0.0", Form),
      body |-> [size |-> 3, fields |-> "content" :> [size |-> 2, json |-> [one |-> S]]]]}

First == Statements \cup Multiparts \cup Others

Later == {Read("statementId" :> <<9, 1>>),
          As(Read("statementId" :> <<9, 1>>), Basic("mine")),
          Put([S EXCEPT !.actor = Account], <<9, 1>>),
          Put([S EXCEPT !.verb = [id |-> "iri:voided"], !.object = Ref], <<9, 2>>)}

Last == {Read("statementId" :> <<9, 1>> @@ "format" :> "ids"), Put(S, <<9, 2>>)}

MCOffered(n) == IF n = 0 THEN First ELSE IF n = 1 THEN Later ELSE Last
=============================================================================
