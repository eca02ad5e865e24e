# xapi-lrs in TLA+

xapi-lrs is an xAPI Learning Record Store: an HTTP service (Hono on Node) over
PostgreSQL, or over PGlite in the same process for development. Any number of
replicas share one database. There is no state in the process that outlives a
request except the SSE listener, the rate limiter and the connection pool, so
nearly everything that is hard about it happens between transactions of
concurrent requests.

This directory holds the TLA+ models of that behaviour, the TLC runs that check
them and the TLAPS proofs. Paths below are relative to the repository's `src/`.

    tlc -workers 2 -config consistent_through.cfg MCConsistentThrough.tla
    tlapm ConsistentThrough_proofs.tla

`PROJECT.json` lists the components, runs, mutants, theorems and hazards, and
maps every definition of a module to the lines it translates.

## 1. Inventory

| Component | State | Operations | Meets | Hard part |
|---|---|---|---|---|
| Transactions, `db.ts` (`withClient`) | a pooled session, its transaction | BEGIN, handler, COMMIT or ROLLBACK, release | every handler | a client released with its transaction open; a lost acknowledgement |
| Consistent-Through, `repositories/statements.ts`, `routes/statements.ts` | `pg_stat_activity`, `stored` | header before query, stamping | writers of all replicas | a statement that becomes visible behind a consumer's watermark |
| Statement writes, `routes/statements.ts`, `routes/statement-helpers.ts`, `repositories/statements.ts` | `xapi_statement`, junctions, links, attachments | POST, PUT, voiding | each other, through READ COMMITTED | conflict detection, voiding races, lock order |
| Statement queries, `repositories/statements.ts` | the cursor in `more` | one page, the next page | writers, voiding | a page boundary and the direct/indirect branches of voided statements |
| Documents, `routes/activities.ts`, `routes/agents.ts`, `repositories/activity-state.ts`, `*-profile.ts` | `state_document`, `*_profile_document` | GET, PUT, POST (merge), DELETE with If-Match / If-None-Match | each other | read, check, then write without a lock |
| PGlite adapter, `db-pglite.ts` | one session for all "clients" | connect, query, release, prepared cache | every handler | interleaved transactions on one session |
| Live events, `sse/*`, admin stream | LISTEN client, reconnect timer, handler sets, queues, per-IP counts | connect, notify, reconnect, on/off, stop | statement writes, shutdown | lost and reordered notifications, reconnect and stop races |
| Lifecycle, `server.ts`, `index.ts`, `app.ts` | readiness, open sockets, pool | start, SIGTERM, drain, deadline | streams, pool, listener | a stream that keeps `close` from finishing |
| Access, `middleware/authentication.ts`, `admin/repositories/credentials.ts`, `bootstrap.ts` | `lrs_credential`, `credential_to_scope`, `admin_account` | authenticate, create, rotate, revoke, bootstrap | each other, replicas | a secret rotated between two queries; a crash between credential and scopes |
| Rate limiter, `middleware/rate-limit.ts` | a window per client key | check, prune | every request | window edges, pruning at the cap |
| Authorization, `middleware/authorization.ts`, `auth/jwt.ts` | none | scope check, claims of a token | access, every request | a table that decides every request |
| Requests, `app.ts`, `xapi/versions.ts` | none of its own | alternate syntax, version, size, body, identity, scope, rate, in this order | limiter, handlers | a request taken apart and dispatched again |
| Validation and formats, `xapi/*`, `helpers/enrichment.ts` | none | schemas, defaults, multipart, signatures, formats, comparison | statement writes and reads | what is written must be accepted when it is read back |
| Admin UI, `admin/*` | sessions in signed cookies | pages, account and credential forms | access | rendering; account writes are single statements |
| Support: config, logger, metrics, tracing, migrate, db-probe, helpers, charts, docs | none or external | | | I/O and formatting |

What makes each component correct:

- **Consistent-Through**: a consumer that restarts its window at the header
  never loses a statement; the header stays below what open transactions will
  stamp; it eventually passes everything.
- **Statement writes**: a 200 means stored as sent; a stored statement never
  changes except `is_voided`; junctions, links and attachments are written once
  and with their statement; links are transitively closed; a voided statement
  has a voider; every request is answered although transactions wait for each
  other.
- **Documents**: an acknowledged write is what is read next; one document per
  key; a conditional write replaces the version its ETag names and a merge keeps
  what it found, unless another request on the document overlaps it.
- **Queries**: walking `more` yields every statement that matched all along,
  none twice, none outside the window or the scope of the first request; a voided
  statement is found through what refers to it.
- **PGlite**: a transaction's statements commit or vanish together, as under a
  pool.
- **Live events**: while a stream is open its listener listens or is about to;
  a stream gets an event once; counters count exactly the open connections.
- **Lifecycle**: SIGTERM leads to an exit with in-flight requests answered, and
  the forced exit is the exception.
- **Access**: a credential has the scopes last given to it, under its present
  secret only; a request is let in on one credential that has the scope; replicas
  that start together all come up.
- **Requests**: the two syntaxes mean the same; the limiter bounds every window.
- **Formats**: what the LRS returns, it accepts.

## 2. Plan

Ordered by weight. `[x]` is on disk.

| | Module | Composes | Run | Theorems |
|---|---|---|---|---|
| [x] | `VisibilityBound` | | | |
| [x] | `ConsistentThrough` | implements `VisibilityBound` | `consistent_through`, `consistent_through_literal` | type, no statement skipped, the bound, refinement |
| [x] | `StatementStore` | | `statement_store`, `put_race`, `voiding_race` | type and every safety property of the run |
| [x] | `Documents` | | `documents`, `create_race`, `unregistered_race` | type and every safety property of the run |
| [x] | `StatementPages` | a cursor walk over a store that grows and voids | `statement_pages` | type and every safety property of the run |
| [x] | `Listener`, `LiveService` | listeners, streams, fetches, process | `live_service` | type and every safety property of the run |
| [x] | `Authorization`, `Credentials`, `Access` | scope table, tables, bootstrap and requests on two replicas | `access` | both safety properties of the run |
| [x] | `StatementSchema`, `Requests` | schemas and formats, middlewares, limiter, handlers by id | `requests` | every property of the run; formats of an accepted statement |
| [ ] | `PgliteSession` | two `withClient` calls on one session | | see "Not modelled" |

No module that is proved about, or will be, uses a RECURSIVE operator;
parameters are CONSTANTS with named assumptions; each operation is one action.

## 3. The modules

### ConsistentThrough

`Writers` and `Readers` are database sessions, of any replica. `xactStart` is
`pg_stat_activity`. A writer's transaction (`BeginWrite`, `insertStatement`,
`CommitWrite`, `RollbackWrite`) stamps its statements with
`getTransactionTime`: `now()`, that is its `xact_start`, cut to milliseconds by
the JS `Date`. A GET is two transactions in the order of the middleware:
`BeginHeader`, `ComputeHeader`, `CommitHeader`, then `BeginQuery`,
`queryStatements`, `Respond`; either may fail (`FailRead`). The clock ticks in
microsecond-like units, `TicksPerMs` of them in a millisecond, so that
truncation and the epsilon are visible. Behind each reader stands the consumer
the README describes: `watermark` is the last header and the next `since`,
`ingested` what it received. `AtOrAfter` is the row comparison
`id > squuidMin(since)`, which includes the boundary millisecond.

`VisibilityBound` is the promise on its own: items appear, bounds are announced,
nothing appears below an announced bound. `Promise` is the refinement mapping.

Assumed of PostgreSQL, not of this code: the database clock does not run
backwards; a session's `xact_start` is listed from the instant `now()` is fixed
for its transaction until its rows are visible. Real backends publish
`xact_start` a moment after they read the clock, so the model is exact only down
to that gap.

### StatementStore

Each request is one transaction; each query of the handler is one action that
sees what was committed when it started and its own writes (`Sees`). `pc` is the
next query, `at` the index the present loop has come to in the batch. In the code's order:
`Receive` (duplicate ids refused before any transaction), PUT's `FindExisting`,
`ReadTarget` and `VoidTarget` for every voiding statement of the batch,
`InsertRow` and `InsertDependents` for every statement, POST's `Compare`,
`Attach`, and `Commit`, `Rollback`, or a COMMIT whose answer is lost
(`CommitUnacknowledged`). `Fail` is any query failing. The waits are those of
PostgreSQL: an INSERT for an uncommitted row of the same `statement_id`, an
UPDATE of `is_voided` or an activity upsert for a row another open transaction
touched; `BreakDeadlock` aborts a transaction on a cycle of waits.
`MCStatementStore` chooses requests that meet: two versions of one id, a POST
and a PUT of it, its voiding, a chain of references, two batches that insert in
opposite orders, a voiding of a voiding.

Left out: queries that only read what no property tells apart; actor upserts
(ON CONFLICT DO NOTHING, which can also wait); timestamps a validator adds when
the client sends none (a retry without a timestamp then differs in content);
PUT's refusal of a body whose id differs from the parameter (no transaction is
opened). Every statement is taken to carry one attachment. Foreign-key checks
take KEY SHARE locks, which an update of `is_voided` does not conflict with.

### Documents

Each request is one transaction of `withClient`; `pc` is the next query of its
handler: the SELECT (`Read`, with the header checks and the merge that follow it
up to the next query), then for a State document `Update`, `Insert` and, after a
unique violation, `RetryUpdate` (`upsertStateDocument`), for a profile `Upsert`
(ON CONFLICT DO UPDATE), or `Delete`, which is also the whole of a DELETE of all
State documents of a registration; then `Commit`, `CommitUnacknowledged` or
`Rollback`, and `Fail` for any query failing. The activity and the agent
profile handlers differ in names only.

A row is named after the transaction that inserted it, since a document without
a registration may have several. `stored` holds the committed rows; what a
transaction has written waits in `write` until it commits (`CommitAs`). The
contents of a version are the set of requests whose data is in it: a PUT leaves
its own, a POST adds its own to what it read. Distinct sets have distinct ETags,
so the set is also the ETag; two PUTs of equal bytes, which would share one, are
not told apart. `before` is history: who had committed when a request arrived.

The waits are those of PostgreSQL. An UPDATE or DELETE that finds one of its rows
locked keeps the rows it found (`Wait`, `seen`) and, when they are free, writes
those that still exist, and no row that was inserted meanwhile (`Targets`). An
INSERT that a unique constraint covers waits for every transaction with an
uncommitted row of the key (`Writers`). An UPDATE or DELETE of several rows takes
them in one step.

An atomic register with compare-and-set would be the natural abstract
specification; this code does not implement one (`create_race`), nor an atomic
read-modify-write. What it does promise is stated as properties of its own:
last-write-wins, and preconditions and merges that hold unless another request on
the document overlapped.

Left out: GET and listings, which change nothing; the `since` filter of the
deletion of all; requests with both headers, an If-None-Match other than `*`
(ignored by the code); `last_modified`.

### StatementPages

The store is what the queries see: `row` gives a visible statement its SQUUID as
a number in the order of `stored`, `voided` is `is_voided`, `link` is
`statement_to_statement`. `Store` is the commit of a transaction that stored one
statement; it may take a row number *below* visible ones, as a transaction that
commits late does. `Ask` sends a list request, `Page` is one page: the query,
then `more` with the last row as cursor. `AskById` is a request for one
statement, voided or not. `Selected` is the WHERE clause: the time window or the
cursor (`InTime`), the direct branch on statements that are not voided
(`MatchesContent`) and the branch that selects a statement for a voided one it
refers to (`Targeting`). `extractActors` and `extractActivities` are the rows of
the decomposition that the filters join with. A SQUUID filter's boundary
millisecond is one number here; `ConsistentThrough` has the boundary itself.
`kept` is history: what the walk's query has selected ever since it began.

Left out: the filters on registration and on verbs other than voided, which are
further conjuncts of the same shape; the encoding of the cursor in the URL.

### Listener and LiveService

`Listener` is what stands behind `pgListener.on` and `off`, with both drivers. A
*source* is a dedicated client (`PgListener`) or a subscription
(`LocalListener`); it goes from `opening` to `open` to `closed`, and `listening`
holds those that deliver. `current` is `PgListener.client` or the entry of
`LocalListener.unsubs`, and can differ from what delivers: an error drops the
client without ending it, and an `off` may overtake the promise of its `on`. The
history variable `overtaken` marks these. `ConnectionLost`, `ErrorReported`,
`TimerFires`, `Connected`, `ListenDone` and `Subscribed` are the callbacks, `stop`
and `StopEnds` the two halves of `stop()` around its await.

`LiveService` composes it with its users. A stream is `/xapi/stream` or the admin
page's; `Connect` checks and takes the limits and calls `on`, `Disconnect` is
`onAbort`, `StreamEnds` the producer's loop ending with the shutdown signal.
`Notify` is a committed NOTIFY: each source that delivers calls each handler,
and each call begins a fetch; `FetchEnds` in any order writes the event, or
nothing. The process goes through `phase`: `Serve`, `Sigterm`, `ServersClosed`
(both servers have no connection left), `ListenerStopped`, `PoolEnded`, or
`Deadline`. That handlers and counters of streams that ended with the signal stay
behind is in the model as it is in the code.

The deadline (`SHUTDOWN_DRAIN_TIMEOUT_MS`) is taken to be longer than any request or
fetch: `Deadline` fires when nothing is left that would end by itself (`Busy`). Left out: what is in
an event, heartbeat lines (a loop of a client that left runs on to its next
sleep), the probes.

### Authorization, Credentials, Access

`Authorization` is the table of scopes and routes, and what a bearer token's claims
are checked for. `Credentials` holds the three tables; each operator is one
committed query, or the queries of one transaction from its `SELECT ... FOR
UPDATE` (`LockRow`) to its commit. Random keys and secrets are numbers handed out in
order, and 0 is the configured default. `Access` has the processes: `Boot` is
`bootstrapAccounts` query by query on each replica, `Transact` the transactions of
`rotateSecret` and `setCredentialScopes` for admins and bootstrap, `Administer`
what the pages and the admin API write, `Request` the two queries of Basic
authentication and the scope check. `Crash` takes a replica with all it serves,
at any point. A query that fails on a constraint ends the bootstrap and the
process, which is started again.

Not in the model: whether an admin request is authentic (sessions, CSRF, the
password): any admin request may come at any time.

### StatementSchema and Requests

`StatementSchema` is the zod schemas of both versions, the validator, the formats
and the comparisons, as operators on JSON values: an object is a function from its
field names. Strings are members of the sets in `Valid`, one set for each format
a regular expression or parser tells apart, so a schema says *which* format a
field has and the set stands for the format itself. Numbers are integers.

`Requests` is one request from its arrival to its answer: `Outcome` runs the
middlewares in the app's order (alternate syntax, version, body limit, body,
identity, scope, rate) and the handlers of statements by id (`Handled`), which see
of a request what the middlewares put in its Hono context (`Context`). The
order of the refusals is the control that matters, since each has its status. A
request is one step: between its awaits it shares only the limiter, which runs
without one; the transactions of the handlers are the subject of `StatementStore`.
`Tick` is time, `PruneStaleKeys` the limiter's timer, at any time. A bucket of the
limiter is the set of its requests, each with its time: the code's array is in the
order of time, so its first element is `Oldest`. Of several
keys of a language map that serve a preference, the first in the object's order
is picked by the code and an arbitrary one by the model.

Abstracted: hashes (a body has a name in `sha`), JWS (what its checks look at), key
and secret of a credential (one value). What clients send is the constant
`Offered`; `BodiesAssumption` says of it that JSON has arrays, `ParamsAssumption` that
parameters are parsed to a map, and `GeneratedAssumption` that a generated id is a
UUID and the clock's time a timestamp. Left out: CORS, secure headers, request
ids; a read-back body is not measured against the limit.

## 4. The runs

| Run | Spec | What it shows | Bounds |
|---|---|---|---|
| `consistent_through` | `FairSpec` | types; no statement skipped; nothing appears below a header; the header is below open writes; every statement is ingested; the header moves on; `VisibilityBound` is implemented | 2 writers, 1 reader, 2 statements, 2 ticks a millisecond, clock to 6 |
| `consistent_through_literal` | `Spec` | violated: a statement may appear *at* the header value | the same with 1 statement |
| `statement_store` | `FairSpec` | all invariants of `StatementStore`, immutability, every request answered; deadlock checking on | 3 requests chosen among 5, 3 ids, 1 activity, 2 contents |
| `put_race` | `Spec` | violated: two PUTs of one id, both answered 204 | 2 transactions, 2 requests |
| `voiding_race` | `Spec` | violated: a voiding statement gets voided | 2 transactions, 3 requests |
| `documents` | `FairSpec` | types; a committed PUT or POST is what is read next; a precondition (of a keyed document) fails, and merged data is lost, only when requests overlap; every request answered; deadlock checking on | 3 requests chosen among 6 for registered State documents (2 documents and the deletion of both), 3 without a registration, or 7 for a profile |
| `create_race` | `Spec` | violated: two conditional creations both succeed | 2 transactions, 1 request |
| `unregistered_race` | `Spec` | violated: an acknowledged later PUT is not what is read | 2 transactions, 1 request |
| `statement_pages` | `FairSpec` | nothing twice, nothing missed, nothing outside the window or the scope, voided statements found through referrers, every walk ends | 1 client, 16 queries, 4 statements with two actors, a group, a voiding and a reference to it; pages of 1 or 2 |
| `live_service` | `FairSpec` | no stream forgotten, events once, exact counts, orderly exit, listening again, an exit after SIGTERM | both drivers, 2 + 1 streams of one address with limits 1 and 1, 3 sources, 1 event, 1 request |
| `access` | `Spec` | scopes follow the credential, admission on one live grant, every replica serves | 2 replicas, 2 admins, 1 client, 3 admin requests, 1 crash, with and without a configured admin |
| `requests` | `Spec` | alternate syntax, read-back, the limiter's window and Retry-After | 4 requests of about 70 kinds, 5 ticks of half a second, 2 requests in a window of 2 s |

Why the bounds are enough. In `consistent_through` the interesting cases need two
open writers (the oldest one bounds), two transactions beginning in one
millisecond (two ticks), a transaction that outlives a header, and three
milliseconds of clock so that a watermark can pass a statement; with the proofs
the bounds of the safety properties no longer matter. In `statement_store`
three concurrent transactions are the fewest in which one waits for a voiding
that rolls back while a third commits, and in which a chain of links is built by
three different requests.

In `documents` three transactions are the fewest in which one inserts, one fails
on the unique key and a third deletes the row before the retry, or in which two
wait for the same row. The constraint `OneKind` keeps the kinds of documents
apart: they live in different tables or under different keys, so requests for
different kinds share no row and no lock and say nothing about each other. Only
the arrival of a request can leave the constraint, so no behaviour of the kept
requests is cut short.

In `statement_pages` clients share nothing but the store, so one is enough; four
statements are the fewest in which one is voided, the voiding statement is
referred to, and another one separates pages. In `live_service` three sources allow
a client, its replacement and one more loss; limits of one make the second stream
of an address a refusal, and the third kind of stream is the one that does not
end with the signal. In `access` three admin requests are the fewest that create
a credential, rotate it and change its scopes, two of them at once. In
`requests` the first request runs through every kind, so that each field of a
statement is accepted once and refused once; the two that follow it read it back, void
it or meet the limit, in a window of two requests. An assumption run and proof need is
that the JWT issuer is an IRI (`IdentityAssumption`), see section 5.

The `None` of a cfg is a model value. `Terminated` in `StatementStore` and `Documents` is the
stuttering of a finished instance, so that any other deadlock is an error.

### Fairness

- `ConsistentThrough`: the clock ticks; a write transaction ends (`withClient`
  commits or rolls back on every path, and
  `PG_IDLE_IN_TRANSACTION_TIMEOUT_MS` ends the session of a process that
  cannot); a GET in progress goes on. Nothing obliges a client to write, and
  reads may fail for ever: liveness is claimed only for consumers whose polls
  keep being answered (`KeepsBeingAnswered`).
- `StatementStore`: a handler's queries return when they are not waiting, and
  PostgreSQL breaks deadlocks (`deadlock_timeout`). Failures are possible and
  never obliged.

- `Documents`: a handler's queries return when they are not waiting. No deadlock
  detector is assumed: `EveryRequestIsAnswered` shows that none is needed, since
  a request holds the rows of one UPDATE or DELETE, or one key, and waits for
  nothing more after it has written.

- `StatementPages`: a client that walks follows the links it gets.
- `LiveService`: handlers and fetches end, the timer fires, a connection attempt
  succeeds or fails (`ListenerActs`), and the deadline passes. Nothing obliges a
  client to connect or to leave, SIGTERM to come, or a lost connection to be the
  last, except that `Sources` bounds the losses.
- `Access`: a replica that is down is started again and its bootstrap's queries
  return; so do those of a transaction that has been begun. Requests owe nothing.
  Crashes are bounded.
- `Requests` claims no liveness.

## 5. Where code and documentation disagree

1. `consistent_through_literal`. `README.md:137` promises the bound for
   statements "at or before the header value". A transaction that begins after
   the scan but in the millisecond of `now()` stamps its statements with the
   header value itself and appears later. The strict form holds and is proved,
   and ingestion is safe because `since` includes its millisecond.
2. `put_race`. PUT looks for the statement, then inserts with ON CONFLICT DO
   NOTHING and does not compare again as POST does. Two concurrent PUTs with
   different content both answer 204; one content is lost. A losing voiding PUT
   also leaves its target voided.
3. `voiding_race`. `handleVoiding` reads the target, finds none, the target (a
   voiding statement) is committed by another request, and the UPDATE voids it,
   although 'Cannot void a voiding statement'.

4. `create_race`. `checkConcurrencyHeaders` documents 412 for `If-None-Match: *`
   on a document that exists and for an If-Match of another version. It checks a
   SELECT that locks nothing; the write that follows replaces whatever is there
   by then. Two concurrent conditional PUTs both answer 204 and one is lost.
5. `unregistered_race`. The comment in `upsertStateDocument` calls the race of two
   writers without a registration last-write-wins. Both insert: there are two
   rows, a GET returns either, and the listing names the document twice.

Observed while modelling, and not the subject of a run:

- `verifyJwt` throws errors without a status, so that a bad or expired token is
  answered 500, where `authentication.ts:107` says 401 (`AuthStatus` has it).
- `README.md:131` says that heartbeat loops exit on shutdown; the admin page's does
  not, and `OrderlyExit` allows for it: such a stream is what the forced exit cuts
  off.
- An authority made from a JWT carries its issuer as home page. If the issuer is
  not an IRI, the LRS refuses the statement it returned: `IdentityAssumption`.
- A signed payload with a single context activity is compared with the list the
  validator has made of it and refused (`signature.ts:132`; the case
  `SignedListable` of `MCRequests`).
- `validateAttachmentParts` looks at multipart requests only: a JSON statement may
  announce files that never come.
- `until` excludes the statements stored in its own millisecond, `since` includes
  them.
- A reference to a statement that is stored later never becomes a link.
- A bootstrap that stops between `createCredential` and `setCredentialScopes` leaves a
  default credential without scopes, and later starts leave it so: replicas serve
  (`EveryReplicaServes`), the key opens nothing. Two admins can delete each
  other's account at once and leave none.
- The rate limiter comes after authentication; its fallback key by address is
  never used.

## 6. The proofs

`ConsistentThrough_proofs` proves for all constants satisfying
`ConstantsAssumption` (any sets of sessions and statements, any positive
`TicksPerMs`):

- `TypeCorrect`, `IngestionSkipsNothing`, `HeaderIsABound`,
  `HeaderBelowOpenWrites`, and `Refinement`: every step of `ConsistentThrough` is
  a step or a stutter of `VisibilityBound`.

`NoStatementSkipped` is not inductive: whether a statement stays behind a
watermark is decided when the header is computed, several steps before the
window moves. The inductive invariant is

- `SessionOK`: a reader has a transaction open exactly in the two halves of its
  GET;
- `StampOK`: a pending statement carries the start of its open transaction and
  belongs to one writer; committed statements are stamped;
- `BoundOK`: every open transaction stamps at or above every header ever
  computed (`vouched`), and so will every transaction that has still to begin;
- `WindowOK`: once the query of a GET has run, its rows and what was ingested
  before cover everything visible below that GET's header,

with `TypeOK` and `NoStatementSkipped` itself. TLC checked it before it was
proved. `HeaderBound` is the arithmetic under it: a header is below the
truncation of every other open start, by `MsMonotone` and `MsMinusOne` (facts
about division by `TicksPerMs`).

`StatementStore_proofs` proves, for any set of requests with batches of any
length over any ids (`RequestsAssumption`) and any number of them at once:
`TypeCorrect`, `AcceptedIsKept`, `ClosedLinks`, `DependentsOnce`,
`VoiderIsStored`, `VoidingTakesEffect` and `Immutability`, that is every safety
property the run `statement_store` checks. Its inductive invariant says what
each step relies on:

- `ControlOK`: the transaction is open while the handler runs, its loops stay
  inside the batch, and a batch has distinct ids;
- `RowOK`: a row is a statement of the batch of the transaction that inserted
  it, and `inserted` names those rows;
- `DependentOK`: junction rows and attachments belong to the inserting
  transaction, and at COMMIT none is missing;
- `LinkOK`: both ends of a link are complete rows, the far one stored before or
  with the near one, and links are closed. That no link can reach a row whose
  own links are still to be written (`Writing`) is why copying the target's
  links once is enough;
- `VoidOK`, `PostOK`, `VoidingOK`: how far a POST has come: the ids behind it are
  visible to it, after `Compare` with the content sent, and the voidings behind
  it hold, by itself or by a committed transaction.

All steps but ROLLBACK only add rows (`Grows`), so what one request knows
survives the steps of the others (`OthersKept`); `RollbackKeeps` is the step
that removes rows, and only its own. The proof also shows where PUT falls
short: `PostOK` fails for PUT at `attach`, which is the run `put_race`.

`Documents_proofs` proves, for any requests on any documents and any number of
them at once: `TypeCorrect`, `LastWriteIsRead`, `OvertakenOrMet` and `NothingLost`,
that is every safety property the run `documents` checks. The inductive invariant
`IndInv` has for every transaction

- `ControlOK`: which queries each kind of request comes to, what it has in `draft`
  and `write` there, and that it owns a committed row only after its COMMIT;
- `RowOK`: the rows it has written, or found before it had to wait, are rows of
  its documents, except the one it inserted itself;
- `WriteOK`: a PUT or POST about to commit holds every row of its keyed document,
  or inserts the only one, or wrote nothing because a DELETE committed meanwhile;
- `CheckedOK`: once the headers of a request on a keyed document have been
  checked, the precondition still holds of the committed rows or another request
  on the document has committed;

and for all of them `KeyOK`: a keyed document has at most one row, and `HoldOK`: at
most one transaction has an uncommitted row of it, which is where the unique
constraints are used.
`NothingLost` needs a second layer, `MergeOK`: what a POST is about to write
contains everything that was there when it arrived, or that has been superseded,
and the rows it writes `Cover` the document as of its arrival. The step that could
break these facts for others is COMMIT; `CommitFacts` says what it changes, and
every other step changes one transaction only (`OnlyChanges`). TLC checked both
layers before they were proved. `LastWriteIsRead` cannot be extended to documents
without a registration: `KeyOK` fails there, which is the run `unregistered_race`.

`StatementPages_proofs` proves, for any number of clients, any queries and any
contents: `TypeCorrect`, `NothingTwice`, `NothingMissed`, `InItsWindow`,
`OnlyItsOwn` and `ReferrersAreFound`, every safety property of the run. That a
finished walk has missed nothing says nothing about a walk under way, so the
invariant speaks of each walk (`WalkInv`): `StateOK`, what an idle or refused client
has; `CursorOK`, what was returned lies on the near side of the cursor, in the
order of the query; `KeptOK`, what the query has selected ever since the walk began
still matches, and has been returned or lies ahead. `LinkOK` says that
voided statements are linked to by their voiding statement and that links are
closed. `PageIsABeginning` is the lemma on one page: it takes a beginning of what
remains, so that the cursor separates what was returned from what is still to
come.

`Access_proofs` proves, for any number of replicas, admins, clients and crashes:
`ScopesFollow` and `Admitted`, both safety properties of the run. Scopes hang on
key and secret, the grant on the credential's id, and a rotation copies them
between two queries; the invariant therefore needs that everything handed out is
new (`NumbersOK`), that keys and locks are unique (`UniqueOK`), that a transaction
past its first query holds the lock of its credential, and that what a rotation
has read is still what is stored (`HoldsOK`). `Kept` is what a step leaves of the
rows somebody else has locked; each query of `Credentials` has one lemma that
shows it, and `FrameStep` draws the conclusion for the other processes.

`LiveService_proofs` proves, for any streams, limits, events and requests and any
number of connections: `TypeCorrect`, `NobodyIsForgotten`, `Once`, `ExactCounts` and
`EndsInOrder`. The invariant about the listener is `ServedOK`, `EveryStreamIsServed`
made independent of the process, and `OneSource`: unless one was overtaken, at most
one client or subscription is opening or open, none while the timer runs, and the
open one is the one the listener knows. From it follows `FetchOK`: a stream has at
most one fetch of an event, and none once it has written it. `CountsOK` adds that
finitely many streams hold a connection. `OrderlyExit` is inductive
next to the types: the servers close only once nothing is in flight and no stream is
open, no handler begins after that, and a deadline finds the server not `Busy`, which
a request, or a stream that leaves on the signal, keeps it; what is then left open
are streams of the admin page only.

`StatementSchema_proofs` proves, for any sets of valid strings, what the formats and
the parser do to a statement the schema accepts. A context activity that is not
yet a list would be lost by the formats, so the lemmas are about statements that
parsing leaves alone (`IsListed`); that everything parsed is one is `ParsedAccepted`.
`IdsAccepted` and `CanonicalAccepted` go from the leaves of a statement up: agents and
groups keep the one identifier that makes them, activities become an id or keep
their definition with one language of each map (`PickedFromMap`), contexts and
substatements are put together again (`ContextOf`, `PartsOf`, `StatementOf`).
`ParsedAgain`: completing and stamping do not disturb what parsing looks at, and
parsing twice is parsing once (`ListedTwice`), so a stored statement is parsed to
exactly what was validated.

`Requests_proofs` proves the three properties of the run `requests` for any requests,
credentials, languages, limits and clock that the assumptions of `Requests` admit:

- `LimiterKeepsItsWord`. A bucket forgets what it refuses and what is pruned, so the
  invariant `LimiterOK` compares it with the history: a bucket holds only what was
  let through and all of it that still counts (`BucketsOK`), no window of the past
  holds more than the limit (`SparseOK`), and from the time a refused key was told, a
  window has a free place unless the key took one since (`ToldOK`). That is
  where rounding up matters (`RoundedUp`, `RetryAfterIsEnough`).
- `FormsMeanTheSame`. A form is read as a request that is alike: same method, path and
  parameters, the headers but for Content-Length, which the form does not keep, and the
  same body (`FormIsAlike`); and what Content-Length decides, the size of the body
  decides again (`AlikeAreReceivedAlike`).
- `WhatIsReadIsAccepted`. That a stored statement is acceptable does not say that it
  will be parsed to what it was, or that its files satisfy its signatures;
  the invariant `StoredOK` therefore keeps where it came from: it is a statement that
  was accepted under its version, completed by the validator, stamped with an
  authority that is an agent (`EntryOK`), and if it came with files, the rows of
  `attached` are those of its attachments, with the hash of their data and signatures
  that hold (`FilesOK`). A batch shares one set of files, of which each statement
  keeps its own; ids are distinct within it (`AllDistinct`). `FilesComeBack` reads the
  response of the rows in any order, `EntryReadsBack` puts both together.

What stays with TLC: the liveness properties (`EveryStatementIsIngested`,
`HeaderPassesEveryStatement`, `EveryRequestIsAnswered`, `EveryWalkEnds`,
`ListensAgain`, `ShutdownEnds`, `EveryReplicaServes`), since the prover handles
neither fairness nor ENABLED. Every invariant and every action property that a
passing run checks is proved.

## 7. Not modelled

- Rendering and the admin's read-only pages, configuration, logging, metrics, tracing
  and migrations: sequential code without shared state, or I/O.
- Admin sessions, CSRF tokens, the login limiter and password hashes: signed values
  that are checked where they arrive.
- The PGlite adapter: all its clients are one session, so BEGIN, COMMIT and
  ROLLBACK of two requests can meet. Which queries interleave is decided by a queue
  inside PGlite, not in this repository, and no document claims isolation for this
  development backend.
- The Person object, the merged activity definition and document listings: single
  SELECTs.

`PROJECT.json` gives the reason for each.
