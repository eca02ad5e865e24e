------------------------- MODULE ConsistentThrough -------------------------
(***************************************************************************)
(* The X-Experience-API-Consistent-Through header of GET /xapi/statements  *)
(* and the ingestion window a consumer builds on it.                       *)
(*                                                                         *)
(* Several database sessions, of any number of replicas, run at once.      *)
(* A writer's transaction stamps every statement it inserts with its own   *)
(* start time, truncated to milliseconds by the JavaScript Date it passes  *)
(* through.  A reader answers one GET with two transactions: the first     *)
(* computes the header from pg_stat_activity, the second runs the query.   *)
(* Each reader here is driven by a consumer that starts its next window at *)
(* the header of its last response (README, "Consistent-Through and        *)
(* incremental ingestion").                                                *)
(***************************************************************************)
EXTENDS Integers

CONSTANTS Writers,      \* sessions that run POST and PUT transactions
          Readers,      \* sessions that serve GET, one consumer behind each
          Statements,   \* statement ids
          TicksPerMs,   \* database clock ticks (PostgreSQL: 1 us) in 1 ms
          MaxClock,     \* bound: the clock stops here
          None

ASSUME ConstantsAssumption ==
    /\ Writers \cap Readers = {}
    /\ TicksPerMs \in Nat \ {0}
    /\ MaxClock \in Nat
    /\ None \notin Int

VARIABLES clock,      \* the database clock, in ticks
          xactStart,  \* pg_stat_activity: each session's xact_start, or None
          pending,    \* the statements a writer's open transaction inserted
          storedAt,   \* the `stored` of each inserted statement, in ms
          visible,    \* the committed statements
          pc,         \* how far a reader is with its GET
          header,     \* the header value of the GET being served, in ms
          rows,       \* the rows its query returned
          vouched,    \* history: the highest header value ever computed
          watermark,  \* the `since` of the consumer's next GET, in ms
          ingested    \* the statements the consumer has received

writeVars == <<pending, storedAt, visible>>
readVars == <<pc, header, rows, vouched, watermark, ingested>>
vars == <<clock, xactStart, pending, storedAt, visible,
          pc, header, rows, vouched, watermark, ingested>>

Sessions == Writers \cup Readers
InTransaction(b) == xactStart[b] # None

(* Date.toISOString keeps whole milliseconds of a timestamptz. *)
Ms(t) == t \div TicksPerMs

-----------------------------------------------------------------------------
(* BEGIN fixes now() for the transaction and shows it in pg_stat_activity;
   COMMIT and ROLLBACK take it away. *)
Begin(b) == xactStart' = [xactStart EXCEPT ![b] = clock]

\* Mutant: the client goes back to the pool with its transaction open.
End_leaked(b) == UNCHANGED xactStart

End(b) == xactStart' = [xactStart EXCEPT ![b] = None]

Tick ==
    /\ clock < MaxClock
    /\ clock' = clock + 1
    /\ UNCHANGED <<xactStart, writeVars, readVars>>

(***************************************************************************)
(* Writers: withClient around POST or PUT.  A transaction that inserts     *)
(* nothing stands for the role's other transactions.                       *)
(***************************************************************************)

\* Mutant: `stored` from an application clock two milliseconds behind.
getTransactionTime_appClock(w) == Ms(clock) - 2

getTransactionTime(w) == Ms(xactStart[w])

BeginWrite(w) ==
    /\ ~InTransaction(w)
    /\ Begin(w)
    /\ UNCHANGED <<clock, writeVars, readVars>>

(* The unique statement_id admits one insertion at a time. *)
insertStatement(w, s) ==
    /\ InTransaction(w)
    /\ storedAt[s] = None
    /\ storedAt' = [storedAt EXCEPT ![s] = getTransactionTime(w)]
    /\ pending' = [pending EXCEPT ![w] = @ \cup {s}]
    /\ UNCHANGED <<clock, xactStart, visible, readVars>>

CommitWrite(w) ==
    /\ InTransaction(w)
    /\ End(w)
    /\ visible' = visible \cup pending[w]
    /\ pending' = [pending EXCEPT ![w] = {}]
    /\ UNCHANGED <<clock, storedAt, readVars>>

(* An error in the handler, a lost connection, or the server's
   idle_in_transaction_session_timeout. *)
RollbackWrite(w) ==
    /\ InTransaction(w)
    /\ End(w)
    /\ storedAt' = [s \in Statements |->
                        IF s \in pending[w] THEN None ELSE storedAt[s]]
    /\ pending' = [pending EXCEPT ![w] = {}]
    /\ UNCHANGED <<clock, visible, readVars>>

(***************************************************************************)
(* Readers: the middleware's transaction, then the handler's.              *)
(***************************************************************************)
OtherXactStarts(r) ==
    {xactStart[b] : b \in {o \in Sessions \ {r} : InTransaction(o)}}

\* Mutants: the header as now(), an epsilon of 1 us, an epsilon of 2 ms.
BoundCandidates_now(r) == {xactStart[r]}

BoundCandidates_1us(r) ==
    {xactStart[r]} \cup {x - 1 : x \in OtherXactStarts(r)}

BoundCandidates_2ms(r) ==
    {xactStart[r]} \cup {x - 2 * TicksPerMs : x \in OtherXactStarts(r)}

(* LEAST(now(), COALESCE(min(xact_start) - 1 ms, now())) is the least of these. *)
BoundCandidates(r) ==
    {xactStart[r]} \cup {x - TicksPerMs : x \in OtherXactStarts(r)}

(* h is the header the middleware of reader r computes now. *)
getConsistentThrough(r, h) ==
    \E bound \in BoundCandidates(r) :
        /\ \A x \in BoundCandidates(r) : bound <= x
        /\ h = Ms(bound)

BeginHeader(r) ==
    /\ pc[r] = "idle"
    /\ Begin(r)
    /\ pc' = [pc EXCEPT ![r] = "bounding"]
    /\ UNCHANGED <<clock, writeVars, header, rows, vouched, watermark, ingested>>

ComputeHeader(r) ==
    /\ pc[r] = "bounding"
    /\ pc' = [pc EXCEPT ![r] = "bounded"]
    /\ \E h \in {Ms(x) : x \in BoundCandidates(r)} :
         /\ getConsistentThrough(r, h)
         /\ header' = [header EXCEPT ![r] = h]
         /\ vouched' = IF h > vouched THEN h ELSE vouched
    /\ UNCHANGED <<clock, xactStart, writeVars, rows, watermark, ingested>>

CommitHeader(r) ==
    /\ pc[r] = "bounded"
    /\ End(r)
    /\ pc' = [pc EXCEPT ![r] = "next"]
    /\ UNCHANGED <<clock, writeVars, header, rows, vouched, watermark, ingested>>

BeginQuery(r) ==
    /\ pc[r] = "next"
    /\ Begin(r)
    /\ pc' = [pc EXCEPT ![r] = "querying"]
    /\ UNCHANGED <<clock, writeVars, header, rows, vouched, watermark, ingested>>

\* Mutant: a cursor with the random bits set, which skips the millisecond.
AtOrAfter_exclusive(s, since) == storedAt[s] > since

(* since: id > squuidMin(since).  A row's squuid starts with its stored
   milliseconds and squuidMin sorts before every squuid of that millisecond. *)
AtOrAfter(s, since) == storedAt[s] >= since

queryStatements(r) ==
    /\ pc[r] = "querying"
    /\ pc' = [pc EXCEPT ![r] = "fetched"]
    /\ rows' = [rows EXCEPT ![r] = {s \in visible : AtOrAfter(s, watermark[r])}]
    /\ UNCHANGED <<clock, xactStart, writeVars, header, vouched, watermark, ingested>>

(* The consumer keeps the rows and starts its next window at the header. *)
Respond(r) ==
    /\ pc[r] = "fetched"
    /\ End(r)
    /\ pc' = [pc EXCEPT ![r] = "idle"]
    /\ ingested' = [ingested EXCEPT ![r] = @ \cup rows[r]]
    /\ watermark' = [watermark EXCEPT ![r] = header[r]]
    /\ header' = [header EXCEPT ![r] = 0]
    /\ rows' = [rows EXCEPT ![r] = {}]
    /\ UNCHANGED <<clock, writeVars, vouched>>

(* Either transaction fails: the consumer gets an error and keeps its window. *)
FailRead(r) ==
    /\ pc[r] # "idle"
    /\ End(r)
    /\ pc' = [pc EXCEPT ![r] = "idle"]
    /\ header' = [header EXCEPT ![r] = 0]
    /\ rows' = [rows EXCEPT ![r] = {}]
    /\ UNCHANGED <<clock, writeVars, vouched, watermark, ingested>>

-----------------------------------------------------------------------------
Init ==
    /\ clock = TicksPerMs
    /\ xactStart = [b \in Sessions |-> None]
    /\ pending = [w \in Writers |-> {}]
    /\ storedAt = [s \in Statements |-> None]
    /\ visible = {}
    /\ pc = [r \in Readers |-> "idle"]
    /\ header = [r \in Readers |-> 0]
    /\ rows = [r \in Readers |-> {}]
    /\ vouched = 0
    /\ watermark = [r \in Readers |-> 0]
    /\ ingested = [r \in Readers |-> {}]

Write(w) ==
    \/ BeginWrite(w)
    \/ \E s \in Statements : insertStatement(w, s)
    \/ CommitWrite(w)
    \/ RollbackWrite(w)

Serve(r) ==
    \/ BeginHeader(r)
    \/ ComputeHeader(r)
    \/ CommitHeader(r)
    \/ BeginQuery(r)
    \/ queryStatements(r)
    \/ Respond(r)

Read(r) == Serve(r) \/ FailRead(r)

Next ==
    \/ Tick
    \/ \E w \in Writers : Write(w)
    \/ \E r \in Readers : Read(r)

Spec == Init /\ [][Next]_vars

(***************************************************************************)
(* Time passes, a GET in progress goes on, and no transaction stays open:  *)
(* withClient ends it on every path and PG_IDLE_IN_TRANSACTION_TIMEOUT_MS  *)
(* ends it when the process cannot.  Nothing obliges a client to write,    *)
(* and nothing keeps reads from failing.                                   *)
(***************************************************************************)
Fairness ==
    /\ WF_vars(Tick)
    /\ \A w \in Writers : WF_vars(CommitWrite(w) \/ RollbackWrite(w))
    /\ \A r \in Readers : WF_vars(Serve(r))

FairSpec == Spec /\ Fairness

-----------------------------------------------------------------------------
(* The types of the variables; a header, a bound and a watermark are never
   negative although the header subtracts a millisecond. *)
TypeOK ==
    /\ clock \in Nat /\ clock >= TicksPerMs
    /\ xactStart \in [Sessions -> Nat \cup {None}]
    /\ \A b \in Sessions :
         InTransaction(b) => TicksPerMs <= xactStart[b] /\ xactStart[b] <= clock
    /\ pending \in [Writers -> SUBSET Statements]
    /\ storedAt \in [Statements -> Nat \cup {None}]
    /\ visible \in SUBSET Statements
    /\ pc \in [Readers -> {"idle", "bounding", "bounded", "next", "querying", "fetched"}]
    /\ header \in [Readers -> Nat]
    /\ rows \in [Readers -> SUBSET Statements]
    /\ vouched \in Nat
    /\ watermark \in [Readers -> Nat]
    /\ ingested \in [Readers -> SUBSET Statements]

(* The ingestion promise (README: "without risking a silently dropped
   statement").  A consumer that restarts each window at the header it last
   recorded has received every committed statement stored before its window:
   whatever commits later, and however reads and writes interleave, nothing
   ends up behind the watermark unread. *)
NoStatementSkipped ==
    \A r \in Readers, s \in visible :
        storedAt[s] < watermark[r] => s \in ingested[r]

(* No statement stored before a header value the server ever computed, by any
   session of any replica, becomes visible after that computation. *)
NothingAppearsBelowTheBound ==
    [][\A s \in visible' \ visible : storedAt[s] >= vouched]_vars

(* SELECT_CONSISTENT_THROUGH's comment: "Subtracting 1ms keeps the bound
   strictly below any such stored".  At the moment a header is computed, every
   transaction already open would stamp its statements later than the header,
   even after the truncation to milliseconds. *)
BoundIsBelowOpenWrites ==
    [][\A r \in Readers : ComputeHeader(r) =>
          \A w \in Writers : InTransaction(w) => header'[r] < getTransactionTime(w)]_vars

(* The README's guarantee read literally, "at or before the header value":
   no statement stored at a header value appears after it either. *)
NothingAppearsAtTheBound ==
    [][\A s \in visible' \ visible : storedAt[s] > vouched]_vars

KeepsBeingAnswered(r) == []<><<Respond(r)>>_vars

(* Every committed statement reaches every consumer whose polls keep being
   answered, however many of them fail in between. *)
EveryStatementIsIngested ==
    \A r \in Readers : KeepsBeingAnswered(r) =>
        \A s \in Statements : s \in visible ~> s \in ingested[r]

(* Transactions of other sessions hold the header back, but never for good:
   it passes every committed statement that is a millisecond older than the
   end of modelled time. *)
HeaderPassesEveryStatement ==
    \A r \in Readers : KeepsBeingAnswered(r) =>
        \A s \in Statements, t \in 1 .. Ms(MaxClock) - 2 :
            s \in visible /\ storedAt[s] = t ~> vouched > t

(* Refinement: committed statements are the items that appeared, and the
   highest header value is the announced bound. *)
appeared == [s \in Statements |-> IF s \in visible THEN storedAt[s] ELSE None]

Promise == INSTANCE VisibilityBound WITH
    Items <- Statements, Absent <- None, appeared <- appeared, bound <- vouched

(* The header keeps what VisibilityBound promises. *)
ImplementsPromise == Promise!Spec

=============================================================================
