--------------------------- MODULE StatementStore ---------------------------
(***************************************************************************)
(* Writing statements: POST and PUT /xapi/statements, each one transaction *)
(* of withClient under PostgreSQL's READ COMMITTED.  Every query is one    *)
(* step that sees what is committed when it starts and what its own        *)
(* transaction wrote; between two queries other requests run.  Voiding,    *)
(* conflict detection, StatementRef links, junction rows and attachments   *)
(* of concurrent requests meet in the same tables.                         *)
(*                                                                         *)
(* A statement is its id, whether its verb is `voided`, the statement its  *)
(* object refers to, one activity and, for the rest, a content.            *)
(***************************************************************************)
EXTENDS Naturals, Sequences, Functions

CONSTANTS Txns,        \* one transaction for each request received
          Ids, Activities, Contents,
          Requests,    \* the requests clients may send
          None

Statement == [id: Ids, voids: BOOLEAN, ref: Ids \cup {None},
              activity: Activities \cup {None}, content: Contents]

ASSUME RequestsAssumption ==
    /\ Requests \subseteq [method: {"POST", "PUT"}, body: Seq(Statement)]
    /\ \A q \in Requests : q.method = "PUT" => Len(q.body) = 1

ASSUME NoneAssumption ==
    None \notin Ids \cup Activities \cup Txns \cup Requests
            \cup [stmt: Statement, by: Txns]

VARIABLES
    request,      \* what each transaction serves
    pc,           \* the next query of the handler
    at,           \* the index in the batch its present loop has come to
    inserted,     \* ids whose row this transaction inserted
    answer,       \* the response sent
    txn,          \* "none", "open", "committed" or "aborted"
    row,          \* xapi_statement: statement and inserting transaction
    voidedBy,     \* the transaction that set is_voided, or None
    link,         \* statement_to_statement: <<ancestor, descendant>>
    junction,     \* statement_to_actor/activity rows: <<id, transaction>>
    attachment,   \* attachment rows: <<id, transaction>>
    touched,      \* activity rows updated: <<activity, transaction>>
    presentAt     \* history: ids committed when the request arrived

tables == <<row, voidedBy, link, junction, attachment, touched>>
vars == <<request, pc, at, inserted, answer, txn, presentAt,
          row, voidedBy, link, junction, attachment, touched>>

Body(t) == request[t].body
Current(t) == Body(t)[at[t]]
IsVoiding(s) == s.voids

-----------------------------------------------------------------------------
(* What a query of transaction t sees, and what makes it wait. *)

Open(t) == txn[t] = "open"
Committed(t) == txn[t] = "committed"
Sees(t, u) == u = t \/ Committed(u)
Visible(t, i) == row[i] # None /\ Sees(t, row[i].by)

(* INSERT meets an uncommitted row with the same statement_id. *)
InsertBlockers(t, i) ==
    {u \in Txns \ {t} : Open(u) /\ row[i] # None /\ row[i].by = u}

\* Mutant: the second voiding takes an uncommitted one for done.
VoidBlockers_none(t, i) == {}

(* UPDATE meets a row another open transaction has updated. *)
VoidBlockers(t, i) == {u \in Txns \ {t} : Open(u) /\ voidedBy[i] = u}

(* ON CONFLICT DO UPDATE meets an activity row another open transaction has
   inserted or updated. *)
ActivityBlockers(t, a) == {u \in Txns \ {t} : Open(u) /\ <<a, u>> \in touched}

WaitsFor(t) ==
    CASE pc[t] = "void" /\ Visible(t, Current(t).ref) ->
            VoidBlockers(t, Current(t).ref)
      [] pc[t] = "insert" -> InsertBlockers(t, Current(t).id)
      [] pc[t] = "dependents" -> ActivityBlockers(t, Current(t).activity)
      [] OTHER -> {}

Deadlocked(t) ==
    \E S \in SUBSET Txns : t \in S /\ \A u \in S : WaitsFor(u) \cap S # {}

-----------------------------------------------------------------------------
(* withClient: BEGIN, then COMMIT, or ROLLBACK when the handler throws. *)

Goto(t, label, k) ==
    /\ pc' = [pc EXCEPT ![t] = label]
    /\ at' = [at EXCEPT ![t] = k]

\* Mutant: the client is released with its transaction open.
Finish_leaked(t, outcome, response) ==
    /\ answer' = [answer EXCEPT ![t] = response]
    /\ Goto(t, "done", 0)
    /\ UNCHANGED <<request, inserted, presentAt, txn>>

Finish(t, outcome, response) ==
    /\ txn' = [txn EXCEPT ![t] = outcome]
    /\ answer' = [answer EXCEPT ![t] = response]
    /\ Goto(t, "done", 0)
    /\ UNCHANGED <<request, inserted, presentAt>>

\* Mutant: voidStatement on a connection outside the transaction.
Rollback_keepsVoiding(t, response) ==
    /\ Finish(t, "aborted", response)
    /\ row' = [i \in Ids |-> IF row[i] # None /\ row[i].by = t THEN None ELSE row[i]]
    /\ link' = {l \in link : row'[l[1]] # None}
    /\ junction' = {j \in junction : j[2] # t}
    /\ attachment' = {a \in attachment : a[2] # t}
    /\ touched' = {a \in touched : a[2] # t}
    /\ UNCHANGED voidedBy

(* Everything transaction t wrote is gone. *)
Rollback(t, response) ==
    /\ Finish(t, "aborted", response)
    /\ row' = [i \in Ids |-> IF row[i] # None /\ row[i].by = t THEN None ELSE row[i]]
    /\ voidedBy' = [i \in Ids |-> IF voidedBy[i] = t THEN None ELSE voidedBy[i]]
    /\ link' = {l \in link : row'[l[1]] # None}
    /\ junction' = {j \in junction : j[2] # t}
    /\ attachment' = {a \in attachment : a[2] # t}
    /\ touched' = {a \in touched : a[2] # t}

Commit(t) ==
    /\ pc[t] = "commit"
    /\ Finish(t, "committed", "ok")
    /\ UNCHANGED tables

(* The server commits and the connection breaks before it says so. *)
CommitUnacknowledged(t) ==
    /\ pc[t] = "commit"
    /\ Finish(t, "committed", "failed")
    /\ UNCHANGED tables

(* A query fails: the connection is lost, the process dies, a timeout ends the
   session, or PostgreSQL makes this transaction the victim of a deadlock. *)
Fail(t) == Open(t) /\ Rollback(t, "failed")

BreakDeadlock(t) == Deadlocked(t) /\ Rollback(t, "failed")

-----------------------------------------------------------------------------
(* A batch with two statements of one id is refused before any transaction. *)
DistinctIds(body) ==
    \A j, k \in DOMAIN body : body[j].id = body[k].id => j = k

(* The loop of insertStatements.  After it POST compares what it did not
   insert; PUT does not. *)
InsertFrom(t, q, k) ==
    IF k <= Len(q.body)
    THEN Goto(t, "insert", k)
    ELSE Goto(t, IF q.method = "POST" THEN "compare" ELSE "attach", 0)

(* The loop before it, which calls handleVoiding for voiding statements. *)
VoidingsFrom(body, k) == {j \in k .. Len(body) : IsVoiding(body[j])}

VoidFrom(t, q, k) ==
    \/ VoidingsFrom(q.body, k) = {} /\ InsertFrom(t, q, 1)
    \/ \E j \in VoidingsFrom(q.body, k) :
         /\ \A i \in VoidingsFrom(q.body, k) : j <= i
         /\ Goto(t, "target", j)

Receive(t, q) ==
    /\ pc[t] = "idle"
    /\ request' = [request EXCEPT ![t] = q]
    /\ presentAt' = [presentAt EXCEPT ![t] =
                        {i \in Ids : row[i] # None /\ Committed(row[i].by)}]
    /\ \/ /\ ~DistinctIds(q.body)
          /\ answer' = [answer EXCEPT ![t] = "rejected"]
          /\ Goto(t, "done", 0)
          /\ UNCHANGED txn
       \/ /\ DistinctIds(q.body)
          /\ txn' = [txn EXCEPT ![t] = "open"]
          /\ IF q.method = "PUT" THEN Goto(t, "existing", 1) ELSE VoidFrom(t, q, 1)
          /\ UNCHANGED answer
    /\ UNCHANGED <<inserted, tables>>

(* PUT looks for the statement first. *)
statementsMatch(i, s) == row[i].stmt = s

FindExisting(t) ==
    /\ pc[t] = "existing"
    /\ LET s == Current(t) IN
         \/ /\ Visible(t, s.id)
            /\ ~statementsMatch(s.id, s)
            /\ Rollback(t, "conflict")
         \/ /\ Visible(t, s.id)
            /\ statementsMatch(s.id, s)
            /\ Goto(t, "commit", 0)
            /\ UNCHANGED <<request, inserted, answer, txn, presentAt, tables>>
         \/ /\ ~Visible(t, s.id)
            /\ VoidFrom(t, request[t], 1)
            /\ UNCHANGED <<request, inserted, answer, txn, presentAt, tables>>

(* handleVoiding reads the target; an absent one is accepted. *)
ReadTarget(t) ==
    /\ pc[t] = "target"
    /\ LET target == Current(t).ref
           refused == \/ target = None
                      \/ Visible(t, target) /\ row[target].stmt.voids
       IN  \/ refused /\ Rollback(t, "rejected")
           \/ /\ ~refused
              /\ Goto(t, "void", at[t])
              /\ UNCHANGED <<request, inserted, answer, txn, presentAt, tables>>

(* UPDATE ... SET is_voided = true WHERE statement_id = $1 AND is_voided = false *)
voidStatement(t, i) ==
    voidedBy' = IF Visible(t, i) /\ voidedBy[i] = None
                THEN [voidedBy EXCEPT ![i] = t] ELSE voidedBy

VoidTarget(t) ==
    /\ pc[t] = "void"
    /\ WaitsFor(t) = {}
    /\ voidStatement(t, Current(t).ref)
    /\ VoidFrom(t, request[t], at[t] + 1)
    /\ UNCHANGED <<request, inserted, answer, txn, presentAt,
                   row, link, junction, attachment, touched>>

\* Mutant: ON CONFLICT DO UPDATE.
InsertRow_upsert(t) ==
    /\ pc[t] = "insert"
    /\ WaitsFor(t) = {}
    /\ LET s == Current(t) IN
         /\ row' = [row EXCEPT ![s.id] = [stmt |-> s, by |-> t]]
         /\ inserted' = [inserted EXCEPT ![t] = @ \cup {s.id}]
         /\ Goto(t, "dependents", at[t])
    /\ UNCHANGED <<request, answer, txn, presentAt,
                   voidedBy, link, junction, attachment, touched>>

(* INSERT ... ON CONFLICT (statement_id) DO NOTHING; the dependent rows follow
   only when the row went in. *)
InsertRow(t) ==
    /\ pc[t] = "insert"
    /\ WaitsFor(t) = {}
    /\ LET s == Current(t) IN
         \/ /\ row[s.id] = None
            /\ row' = [row EXCEPT ![s.id] = [stmt |-> s, by |-> t]]
            /\ inserted' = [inserted EXCEPT ![t] = @ \cup {s.id}]
            /\ Goto(t, "dependents", at[t])
         \/ /\ row[s.id] # None
            /\ InsertFrom(t, request[t], at[t] + 1)
            /\ UNCHANGED <<row, inserted>>
    /\ UNCHANGED <<request, answer, txn, presentAt,
                   voidedBy, link, junction, attachment, touched>>

\* Mutant: the direct link only.
Descendants_direct(t, s) ==
    {i \in Ids : i = s.ref /\ Visible(t, i)}

(* The statements s links to: its target when that exists, and all the target
   links to. *)
Descendants(t, s) ==
    {i \in Ids : i = s.ref /\ Visible(t, i)} \cup
        {l[2] : l \in {k \in link : k[1] = s.ref /\ Visible(t, s.ref)}}

InsertDependents(t) ==
    /\ pc[t] = "dependents"
    /\ WaitsFor(t) = {}
    /\ LET s == Current(t) IN
         /\ junction' = junction \cup {<<s.id, t>>}
         /\ touched' = touched \cup ({s.activity} \ {None}) \X {t}
         /\ link' = link \cup {s.id} \X Descendants(t, s)
    /\ InsertFrom(t, request[t], at[t] + 1)
    /\ UNCHANGED <<request, inserted, answer, txn, presentAt,
                   row, voidedBy, attachment>>

\* Mutant: a row that did not go in is taken for a harmless repetition.
Conflicting_never(t) == FALSE

Conflicting(t) ==
    \E s \in Range(Body(t)) :
        s.id \notin inserted[t] /\ Visible(t, s.id) /\ ~statementsMatch(s.id, s)

Compare(t) ==
    /\ pc[t] = "compare"
    /\ \/ Conflicting(t) /\ Rollback(t, "conflict")
       \/ /\ ~Conflicting(t)
          /\ Goto(t, "attach", 0)
          /\ UNCHANGED <<request, inserted, answer, txn, presentAt, tables>>

\* Mutant: attachments go in whether or not their statement did.
Attach_ungated(t) ==
    /\ pc[t] = "attach"
    /\ attachment' = attachment \cup {s.id : s \in Range(Body(t))} \X {t}
    /\ Goto(t, "commit", 0)
    /\ UNCHANGED <<request, inserted, answer, txn, presentAt,
                   row, voidedBy, link, junction, touched>>

(* Attachments go in for the statements that went in. *)
Attach(t) ==
    /\ pc[t] = "attach"
    /\ attachment' = attachment \cup inserted[t] \X {t}
    /\ Goto(t, "commit", 0)
    /\ UNCHANGED <<request, inserted, answer, txn, presentAt,
                   row, voidedBy, link, junction, touched>>

-----------------------------------------------------------------------------
Init ==
    /\ request = [t \in Txns |-> None]
    /\ pc = [t \in Txns |-> "idle"]
    /\ at = [t \in Txns |-> 0]
    /\ inserted = [t \in Txns |-> {}]
    /\ answer = [t \in Txns |-> "none"]
    /\ txn = [t \in Txns |-> "none"]
    /\ row = [i \in Ids |-> None]
    /\ voidedBy = [i \in Ids |-> None]
    /\ link = {}
    /\ junction = {}
    /\ attachment = {}
    /\ touched = {}
    /\ presentAt = [t \in Txns |-> {}]

Step(t) ==
    \/ FindExisting(t)
    \/ ReadTarget(t)
    \/ VoidTarget(t)
    \/ InsertRow(t)
    \/ InsertDependents(t)
    \/ Compare(t)
    \/ Attach(t)
    \/ Commit(t)

(* Every request has been answered. *)
Terminated == (\A t \in Txns : pc[t] = "done") /\ UNCHANGED vars

Next ==
    \/ \E t \in Txns :
         \/ \E q \in Requests : Receive(t, q)
         \/ Step(t)
         \/ CommitUnacknowledged(t)
         \/ Fail(t)
         \/ BreakDeadlock(t)
    \/ Terminated

Spec == Init /\ [][Next]_vars

(* A handler goes on while its queries return, and PostgreSQL breaks deadlocks. *)
Fairness == \A t \in Txns : WF_vars(Step(t)) /\ WF_vars(BreakDeadlock(t))

FairSpec == Spec /\ Fairness

-----------------------------------------------------------------------------
Label == {"idle", "existing", "target", "void", "insert", "dependents",
          "compare", "attach", "commit", "done"}

(* The types of the variables; what an aborted transaction wrote is gone. *)
TypeOK ==
    /\ request \in [Txns -> Requests \cup {None}]
    /\ pc \in [Txns -> Label]
    /\ at \in [Txns -> Nat]
    /\ inserted \in [Txns -> SUBSET Ids]
    /\ answer \in [Txns -> {"none", "ok", "conflict", "rejected", "failed"}]
    /\ txn \in [Txns -> {"none", "open", "committed", "aborted"}]
    /\ row \in [Ids -> [stmt: Statement, by: Txns] \cup {None}]
    /\ voidedBy \in [Ids -> Txns \cup {None}]
    /\ link \in SUBSET (Ids \X Ids)
    /\ junction \in SUBSET (Ids \X Txns)
    /\ attachment \in SUBSET (Ids \X Txns)
    /\ touched \in SUBSET (Activities \X Txns)
    /\ presentAt \in [Txns -> SUBSET Ids]
    /\ \A i \in Ids :
         /\ row[i] # None => txn[row[i].by] \in {"open", "committed"}
         /\ voidedBy[i] # None => txn[voidedBy[i]] \in {"open", "committed"}

(* Committed rows, seen from outside every transaction. *)
Stored(i) == row[i] # None /\ Committed(row[i].by)
Voided(i) == voidedBy[i] # None /\ Committed(voidedBy[i])
Linked(i, j) == <<i, j>> \in link /\ Stored(i)

Accepted(t) == answer[t] = "ok"

StoredAsSent(t) ==
    \A s \in Range(Body(t)) : Stored(s.id) /\ statementsMatch(s.id, s)

(* A POST answered 200 has every statement of its batch stored with the content
   it sent, whoever stored it first and whatever ran in between. *)
AcceptedPostIsStored ==
    \A t \in Txns : Accepted(t) /\ request[t].method = "POST" => StoredAsSent(t)

(* The same of every accepted request: 'Statement already exists with different
   content' is what a client must hear otherwise, PUT included. *)
AcceptedIsStored == \A t \in Txns : Accepted(t) => StoredAsSent(t)

(* A committed statement never changes: its content, its links, its junction
   rows and its attachments stay as committed, and it is never un-voided. *)
CommittedStatementsAreImmutable ==
    [][\A i \in Ids : Stored(i) =>
          /\ row'[i] = row[i]
          /\ Voided(i) => voidedBy'[i] = voidedBy[i]
          /\ \A j \in Ids : <<i, j>> \in link' <=> <<i, j>> \in link
          /\ \A t \in Txns : /\ <<i, t>> \in junction' <=> <<i, t>> \in junction
                             /\ <<i, t>> \in attachment' <=> <<i, t>> \in attachment]_vars

(* INSERT_STATEMENT_TO_STATEMENT keeps the links transitively closed, so that
   one join finds every statement that refers to a voided one through a chain,
   and both ends of a link are stored. *)
LinksAreClosed ==
    \A i, j \in Ids : Linked(i, j) =>
        /\ Stored(j)
        /\ \A k \in Ids : Linked(j, k) => Linked(i, k)

(* A stored statement has one set of junction rows and one of attachments, both
   written with it: a repeated or concurrent POST or PUT adds none. *)
DependentsAreStoredOnce ==
    \A i \in Ids : Stored(i) =>
        /\ {j \in junction : j[1] = i} = {<<i, row[i].by>>}
        /\ {a \in attachment : a[1] = i} = {<<i, row[i].by>>}

(* A statement that a POST voided has a stored voiding statement naming it. *)
VoidedByPostHasVoider ==
    \A i \in Ids : Voided(i) /\ request[voidedBy[i]].method = "POST" =>
        \E v \in Ids : Stored(v) /\ IsVoiding(row[v].stmt) /\ row[v].stmt.ref = i

(* A POST answered 200 has voided every target that was stored when the request
   arrived, even when other requests were voiding the same target and failed. *)
AcceptedVoidingTookEffect ==
    \A t \in Txns : Accepted(t) /\ request[t].method = "POST" =>
        \A s \in Range(Body(t)) :
            IsVoiding(s) /\ s.ref \in presentAt[t] => Voided(s.ref)

(* 'Cannot void a voiding statement' (handleVoiding). *)
NoVoidingStatementIsVoided ==
    \A i \in Ids : Stored(i) /\ Voided(i) => ~IsVoiding(row[i].stmt)

(* Every request is answered: row locks, uncommitted ids and activity upserts
   make transactions wait for each other, but never for good. *)
EveryRequestIsAnswered ==
    \A t \in Txns : pc[t] # "idle" ~> answer[t] # "none"

=============================================================================
