---------------------------- MODULE MCDocuments ----------------------------
(* Requests that meet on one document of each kind, and the deletion of all
   State documents of a registration. *)
EXTENDS Documents

CONSTANTS state, other, plain, profile

Req(method, docs, header) ==
    [method |-> method, docs |-> docs, header |-> header, v2 |-> FALSE, json |-> TRUE]

RegisteredRequests ==
    {Req("PUT", {state}, "none"), Req("PUT", {state}, "if-match"),
     [Req("PUT", {state}, "none") EXCEPT !.v2 = TRUE],
     Req("POST", {state}, "none"),
     Req("PUT", {other}, "none"), Req("DELETE ALL", {state, other}, "none")}

UnregisteredRequests ==
    {Req("PUT", {plain}, "none"), Req("POST", {plain}, "none"), Req("DELETE", {plain}, "none")}

ProfileRequests ==
    {Req("PUT", {profile}, "none"), Req("PUT", {profile}, "if-none-match"),
     Req("PUT", {profile}, "if-match"), Req("DELETE", {profile}, "if-match"),
     [Req("PUT", {profile}, "if-none-match") EXCEPT !.json = FALSE],
     Req("POST", {profile}, "none"), [Req("POST", {profile}, "none") EXCEPT !.json = FALSE]}

AllRequests == RegisteredRequests \cup UnregisteredRequests \cup ProfileRequests

(* Requests for different kinds of documents share no row and no lock: they are
   not combined. *)
OneKind ==
    \E kind \in {RegisteredRequests, UnregisteredRequests, ProfileRequests} :
        \A t \in Txns : request[t] \in kind \cup {None}

Creations == {Req("PUT", {profile}, "if-none-match")}
Replacements == {Req("PUT", {plain}, "none")}
=============================================================================
