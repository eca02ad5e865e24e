----------------------------- MODULE Documents -----------------------------
(***************************************************************************)
(* Writing State and Profile documents: PUT, POST (a JSON merge) and       *)
(* DELETE, each one transaction of withClient under READ COMMITTED that    *)
(* reads the document, checks If-Match / If-None-Match against what it     *)
(* read, and writes.  Nothing locks the document in between.               *)
(*                                                                         *)
(* What a document contains is the set of requests whose data is in it: a  *)
(* PUT leaves its own, a POST adds its own to what it read.  That set also *)
(* stands for the ETag.  A row is named after the transaction that         *)
(* inserted it.                                                            *)
(***************************************************************************)
EXTENDS FiniteSets

CONSTANTS Txns,           \* one transaction for each request received
          Registered,     \* State documents with a registration
          Unregistered,   \* State documents without
          Profiles,       \* Activity Profile and Agent Profile documents
          Requests,       \* the requests clients may send
          None

Docs == Registered \cup Unregistered \cup Profiles
Keyed == Registered \cup Profiles   \* a unique constraint covers the key

Version == [doc: Docs, data: SUBSET Txns, json: BOOLEAN]

ASSUME DocumentsAssumption ==
    /\ Registered \cap Unregistered = {}
    /\ Profiles \cap (Registered \cup Unregistered) = {}
    /\ None \notin Version \cup Requests \cup [rows: SUBSET Txns, value: Version \cup {None}]
    /\ \A rows \in SUBSET Txns : rows # None

ASSUME RequestsAssumption ==
    /\ Requests \subseteq [method: {"PUT", "POST", "DELETE", "DELETE ALL"},
                           docs: SUBSET Docs,
                           header: {"none", "if-match", "if-none-match"},
                           v2: BOOLEAN, json: BOOLEAN]
    /\ \A q \in Requests : q.method # "DELETE ALL" => \E k \in Docs : q.docs = {k}

VARIABLES
    request,    \* what each transaction serves
    expected,   \* the ETag in its If-Match
    pc,         \* the next query of the handler
    draft,      \* the version it is about to write; None for a deletion
    seen,       \* the rows a waiting UPDATE or DELETE found, or None
    write,      \* the rows it has written and not yet committed, or None
    answer,     \* the response sent
    committed,  \* the transactions that have committed
    stored,     \* the committed rows
    before      \* history: who had committed when the request arrived

vars == <<request, expected, pc, draft, seen, write, answer, committed, stored, before>>

-----------------------------------------------------------------------------
(* Rows, and who holds them. *)

RowsOf(docs) == {r \in Txns : stored[r] # None /\ stored[r].doc \in docs}
Readable(k) == {stored[r] : r \in RowsOf({k})}

(* The rows an UPDATE or DELETE is for: those committed when it started and
   not deleted while it waited. *)
Targets(t) ==
    {r \in (IF seen[t] = None THEN RowsOf(request[t].docs) ELSE seen[t]) :
        stored[r] # None}

Holders(t, rows) == {u \in Txns \ {t} : write[u] # None /\ write[u].rows \cap rows # {}}

(* The transactions with an uncommitted row of a document, which the check of
   a unique constraint waits for. *)
Writers(t, docs) ==
    {u \in Txns \ {t} :
        /\ write[u] # None
        /\ \/ write[u].rows \cap RowsOf(docs) # {}
           \/ write[u].rows # {} /\ write[u].value # None /\ write[u].value.doc \in docs}

-----------------------------------------------------------------------------
(* withClient *)

Active(t) == pc[t] \notin {"idle", "done"}

Goto(t, label) == pc' = [pc EXCEPT ![t] = label]

\* Mutant: the client is released with its transaction open.
Finish_leaked(t, response) ==
    /\ Goto(t, "done")
    /\ answer' = [answer EXCEPT ![t] = response]
    /\ seen' = [seen EXCEPT ![t] = None]
    /\ UNCHANGED <<request, expected, draft, before, write>>

Finish(t, response) ==
    /\ Goto(t, "done")
    /\ answer' = [answer EXCEPT ![t] = response]
    /\ seen' = [seen EXCEPT ![t] = None]
    /\ write' = [write EXCEPT ![t] = None]
    /\ UNCHANGED <<request, expected, draft, before>>

Rollback(t, response) == Finish(t, response) /\ UNCHANGED <<committed, stored>>

CommitAs(t, response) ==
    /\ pc[t] = "commit"
    /\ committed' = committed \cup {t}
    /\ stored' = [r \in Txns |-> IF r \in write[t].rows THEN write[t].value ELSE stored[r]]
    /\ Finish(t, response)

Commit(t) == CommitAs(t, "ok")

(* The server commits and the connection breaks before it says so. *)
CommitUnacknowledged(t) == CommitAs(t, "failed")

(* A query fails: the connection is lost, the process dies or a timeout ends
   the session. *)
Fail(t) == Active(t) /\ Rollback(t, "failed")

-----------------------------------------------------------------------------
(* A POST whose body is not JSON is refused before any transaction (db.ts).  The
   ETag of an If-Match comes from an earlier GET; {} is one of no version. *)
Receive(t, q) ==
    /\ pc[t] = "idle"
    /\ request' = [request EXCEPT ![t] = q]
    /\ before' = [before EXCEPT ![t] = committed]
    /\ \E etag \in IF q.header = "if-match"
                   THEN {{}} \cup {v.data : v \in UNION {Readable(k) : k \in q.docs}}
                   ELSE {{}} :
         expected' = [expected EXCEPT ![t] = etag]
    /\ IF q.method = "POST" /\ ~q.json
       THEN Goto(t, "done") /\ answer' = [answer EXCEPT ![t] = "refused"]
       ELSE /\ Goto(t, IF q.method = "DELETE ALL" THEN "delete" ELSE "read")
            /\ UNCHANGED answer
    /\ UNCHANGED <<draft, seen, write, committed, stored>>

(* 412, and 409 or 400 where a PUT must carry a header: always for a profile,
   for a State document that exists under xAPI 2.0. *)
requireConcurrency(t, v) ==
    /\ request[t].method = "PUT"
    /\ \/ request[t].docs \subseteq Profiles
       \/ request[t].v2 /\ v # None

\* Mutant: an If-Match for a document that does not exist goes through.
checkConcurrencyHeaders_absentPasses(t, v) ==
    /\ request[t].header = "if-match" => (v # None => v.data = expected[t])
    /\ request[t].header = "if-none-match" => v = None
    /\ request[t].header = "none" => ~requireConcurrency(t, v)

checkConcurrencyHeaders(t, v) ==
    /\ request[t].header = "if-match" => v # None /\ v.data = expected[t]
    /\ request[t].header = "if-none-match" => v = None
    /\ request[t].header = "none" => ~requireConcurrency(t, v)

\* Mutant: POST replaces the document.
Merged_replaces(t, v) ==
    [doc |-> CHOOSE k \in Docs : request[t].docs = {k}, data |-> {t}, json |-> request[t].json]

(* The version a PUT or POST writes over v. *)
Merged(t, v) ==
    [doc |-> CHOOSE k \in Docs : request[t].docs = {k},
     data |-> {t} \cup (IF request[t].method = "POST" /\ v # None THEN v.data ELSE {}),
     json |-> request[t].json]

(* The SELECT, which returns one row of the document, and what follows it up to
   the next query. *)
Read(t) ==
    /\ pc[t] = "read"
    /\ \E v \in IF RowsOf(request[t].docs) = {} THEN {None}
                ELSE {stored[r] : r \in RowsOf(request[t].docs)} :
         LET passes == /\ checkConcurrencyHeaders(t, v)
                       /\ request[t].method = "POST" /\ v # None => v.json
         IN  \/ ~passes /\ Rollback(t, "refused")
             \/ /\ passes
                /\ \/ /\ request[t].method = "DELETE"
                      /\ Goto(t, "delete")
                      /\ UNCHANGED draft
                   \/ /\ request[t].method # "DELETE"
                      /\ Goto(t, IF request[t].docs \subseteq Profiles THEN "upsert" ELSE "update")
                      /\ draft' = [draft EXCEPT ![t] = Merged(t, v)]
                /\ UNCHANGED <<request, expected, seen, write, answer,
                               committed, stored, before>>

-----------------------------------------------------------------------------
Write(t, rows, label) ==
    /\ write' = [write EXCEPT ![t] = [rows |-> rows, value |-> draft[t]]]
    /\ seen' = [seen EXCEPT ![t] = None]
    /\ Goto(t, label)
    /\ UNCHANGED <<request, expected, draft, answer, committed, stored, before>>

(* An UPDATE or DELETE finds its rows and one of them locked. *)
Wait(t) ==
    /\ pc[t] \in {"update", "retry", "delete"}
    /\ seen[t] = None
    /\ Holders(t, Targets(t)) # {}
    /\ seen' = [seen EXCEPT ![t] = Targets(t)]
    /\ UNCHANGED <<request, expected, pc, draft, write, answer, committed, stored, before>>

Update(t) ==
    /\ pc[t] = "update"
    /\ Holders(t, Targets(t)) = {}
    /\ IF Targets(t) # {} THEN Write(t, Targets(t), "commit") ELSE Write(t, {}, "insert")

(* INSERT INTO state_document; a unique violation takes it to the retry. *)
Insert(t) ==
    /\ pc[t] = "insert"
    /\ LET keyed == request[t].docs \subseteq Registered
           taken == keyed /\ RowsOf(request[t].docs) # {}
       IN  /\ keyed => Writers(t, request[t].docs) = {}
           /\ IF taken THEN Write(t, {}, "retry") ELSE Write(t, {t}, "commit")

\* Mutant: the unique violation is taken for success.
RetryUpdate_skipped(t) == pc[t] = "retry" /\ Write(t, {}, "commit")

(* The UPDATE once more, whatever it finds. *)
RetryUpdate(t) ==
    /\ pc[t] = "retry"
    /\ Holders(t, Targets(t)) = {}
    /\ Write(t, Targets(t), "commit")

(* INSERT ... ON CONFLICT DO UPDATE *)
Upsert(t) ==
    /\ pc[t] = "upsert"
    /\ Writers(t, request[t].docs) = {}
    /\ LET rows == RowsOf(request[t].docs)
       IN  Write(t, IF rows = {} THEN {t} ELSE rows, "commit")

Delete(t) ==
    /\ pc[t] = "delete"
    /\ Holders(t, Targets(t)) = {}
    /\ Write(t, Targets(t), "commit")

-----------------------------------------------------------------------------
Init ==
    /\ request = [t \in Txns |-> None]
    /\ expected = [t \in Txns |-> {}]
    /\ pc = [t \in Txns |-> "idle"]
    /\ draft = [t \in Txns |-> None]
    /\ seen = [t \in Txns |-> None]
    /\ write = [t \in Txns |-> None]
    /\ answer = [t \in Txns |-> "none"]
    /\ committed = {}
    /\ stored = [t \in Txns |-> None]
    /\ before = [t \in Txns |-> {}]

Step(t) ==
    \/ Read(t)
    \/ Update(t)
    \/ Insert(t)
    \/ RetryUpdate(t)
    \/ Upsert(t)
    \/ Delete(t)
    \/ Commit(t)

(* Every request has been answered. *)
Terminated == (\A t \in Txns : pc[t] = "done") /\ UNCHANGED vars

Next ==
    \/ \E t \in Txns :
         \/ \E q \in Requests : Receive(t, q)
         \/ Step(t)
         \/ Wait(t)
         \/ CommitUnacknowledged(t)
         \/ Fail(t)
    \/ Terminated

Spec == Init /\ [][Next]_vars

(* A handler goes on while its queries return. *)
Fairness == \A t \in Txns : WF_vars(Step(t))

FairSpec == Spec /\ Fairness

-----------------------------------------------------------------------------
(* The types of the variables; only a transaction in progress has uncommitted
   rows, and it holds them alone. *)
TypeOK ==
    /\ request \in [Txns -> Requests \cup {None}]
    /\ expected \in [Txns -> SUBSET Txns]
    /\ pc \in [Txns -> {"idle", "read", "update", "insert", "retry", "upsert",
                        "delete", "commit", "done"}]
    /\ draft \in [Txns -> Version \cup {None}]
    /\ seen \in [Txns -> {None} \cup SUBSET Txns]
    /\ write \in [Txns -> [rows: SUBSET Txns, value: Version \cup {None}] \cup {None}]
    /\ answer \in [Txns -> {"none", "ok", "refused", "failed"}]
    /\ committed \in SUBSET Txns
    /\ stored \in [Txns -> Version \cup {None}]
    /\ before \in [Txns -> SUBSET Txns]
    /\ \A t \in Txns : write[t] # None => pc[t] \in {"insert", "retry", "commit"}
    /\ \A t, u \in Txns : t # u /\ write[t] # None /\ write[u] # None =>
           write[t].rows \cap write[u].rows = {}

Writes(t) == request[t].method \in {"PUT", "POST"}
Commits(t) == t \in committed' \ committed
Meets(t, u) == request[t].docs \cap request[u].docs # {}

(* u committed while t was in progress. *)
Overtook(u, t) == u \in committed \ before[t] /\ Meets(t, u)

(* A PUT or POST that commits is what a GET of the document reads from then on,
   unless a DELETE committed meanwhile and won. *)
WinsOn(k, t) ==
    \/ Readable(k)' = {draft[t]}
    \/ \E d \in Txns : Overtook(d, t) /\ ~Writes(d)

(* 'last-write-wins' of upsertStateDocument and of the profile upserts, where a
   unique constraint makes it hold: a registered document or a profile. *)
LastWriteWins ==
    [][\A t \in Txns : Commits(t) /\ Writes(t) =>
          \A k \in request[t].docs \cap Keyed : WinsOn(k, t)]_vars

(* The same without a registration: 'a lost-update race is last-write-wins'. *)
LastWriteWinsUnregistered ==
    [][\A t \in Txns : Commits(t) /\ Writes(t) =>
          \A k \in request[t].docs \cap Unregistered : WinsOn(k, t)]_vars

(* What the headers of t ask of the document it replaces. *)
PreconditionMet(t) ==
    LET rows == {stored[r] : r \in RowsOf(request[t].docs)} IN
    /\ request[t].header = "if-match" => rows # {} /\ \A v \in rows : v.data = expected[t]
    /\ request[t].header = "if-none-match" => rows = {}
    /\ request[t].header = "none" /\ request[t].method = "PUT" =>
         ~(request[t].docs \subseteq Profiles) /\ (request[t].v2 => rows = {})

(* 'If-Match present but ETag doesn't match -> 412', 'If-None-Match: * present
   but document exists -> 412' (checkConcurrencyHeaders), for what a request
   replaces when it commits. *)
PreconditionsHold ==
    [][\A t \in Txns : Commits(t) /\ request[t].method # "DELETE ALL" => PreconditionMet(t)]_vars

(* A registered document or profile is replaced against the headers of a request
   only when another request on it commits while that one is in progress. *)
PreconditionsFailOnlyWhenOvertaken ==
    [][\A t \in Txns : Commits(t) /\ request[t].method # "DELETE ALL"
                         /\ request[t].docs \subseteq Keyed =>
          \/ PreconditionMet(t)
          \/ \E u \in Txns : Overtook(u, t)]_vars

(* The data of a committed PUT or POST is in the document for good, unless a PUT
   or a DELETE came later or another request on the document overlapped it: a
   merge loses nothing that was there when its request arrived. *)
NothingIsLostWithoutOverlap ==
    \A t \in committed : Writes(t) =>
        \A k \in request[t].docs :
           \/ Readable(k) # {} /\ \A v \in Readable(k) : t \in v.data
           \/ \E u \in committed \ (before[t] \cup {t}) :
                /\ Meets(t, u)
                /\ t \notin before[u] \/ request[u].method # "POST"

(* A request on documents is answered: row locks and unique checks make requests
   wait, but never for each other in a cycle. *)
EveryRequestIsAnswered ==
    \A t \in Txns : pc[t] # "idle" ~> answer[t] # "none"

=============================================================================
