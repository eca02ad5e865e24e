--------------------------- MODULE StatementPages ---------------------------
(***************************************************************************)
(* Reading statements: GET /xapi/statements by id, or as a walk over pages *)
(* whose `more` link carries the position of the last row.  Each page is a *)
(* query of its own; statements are stored and voided between two pages.   *)
(*                                                                         *)
(* A statement is what the filters see of it: the actors and activities    *)
(* that stand in its positions, whether its verb is `voided`, and the      *)
(* statement its object refers to.  `Row numbers' are the SQUUIDs, whose   *)
(* order is that of `stored'; a transaction that commits late puts its row *)
(* below rows that are visible already.                                    *)
(***************************************************************************)
EXTENDS Naturals, FiniteSets

CONSTANTS Walkers,      \* clients reading, one request or walk at a time
          Ids, Agents, Activities, Usages,
          Content,      \* what the statement of each id says
          Queries,      \* the requests clients may send
          Rows,         \* the row numbers
          DefaultLimit, MaxLimit,   \* STMT_GET_DEFAULT, STMT_GET_MAX
          None

Actor == [usage: Usages, ifi: Agents \cup {None}, members: SUBSET Agents]
Statement == [actors: SUBSET Actor, activities: SUBSET (Usages \X Activities),
              voids: BOOLEAN, ref: Ids \cup {None}]
Query == [statementId: Ids \cup {None}, voidedStatementId: Ids \cup {None},
          agent: Agents \cup {None}, relatedAgents: BOOLEAN,
          activity: Activities \cup {None}, relatedActivities: BOOLEAN,
          voidings: BOOLEAN,    \* verb=...voided, or no verb
          since: Nat \cup {None}, until: Nat \cup {None},
          limit: Nat \cup {None}, ascending: BOOLEAN,
          me: Agents, mineOnly: BOOLEAN]    \* who asks, and with what scope

ASSUME ContentAssumption ==
    /\ Content \in [Ids -> Statement]
    /\ \A s \in Ids : Content[s].voids => Content[s].ref # None
ASSUME QueriesAssumption == Queries \subseteq Query
ASSUME NumbersAssumption ==
    /\ Rows \subseteq Nat \ {0}
    /\ DefaultLimit \in Nat \ {0}
    /\ MaxLimit \in Nat \ {0}
    /\ \A q \in Queries : q.limit # 0
ASSUME FiniteAssumption == IsFiniteSet(Ids)
ASSUME NoneAssumption == None \notin Nat \cup Ids \cup Agents \cup Activities \cup Queries

VARIABLES
    row,        \* the row number of each visible statement, or None
    voided,     \* the statements whose is_voided is set
    link,       \* statement_to_statement: <<ancestor, descendant>>
    query,      \* what each client asks
    state,      \* "idle", "walking", "done", "refused", "notFound", "forbidden"
    cursor,     \* the `_cursor' of its next page, or None before the first
    times,      \* how often it got each statement: 0, 1, or 2 for more
    kept        \* history: what its query has selected ever since it began

store == <<row, voided, link>>
client == <<query, state, cursor, times>>
vars == <<row, voided, link, query, state, cursor, times, kept>>

Visible == {s \in Ids : row[s] # None}

-----------------------------------------------------------------------------
(* Decomposition: the junction rows a statement is stored with. *)

\* Mutant: members of a group get no row.
extractActors_noMembers(s) ==
    {<<a.usage, a.ifi>> : a \in {b \in Content[s].actors : b.ifi # None}}

(* Every position of the statement, a group's members under the usage of the
   group itself; an anonymous group leaves only its members. *)
extractActors(s) ==
    UNION {{a.usage} \X (({a.ifi} \cup a.members) \ {None}) : a \in Content[s].actors}

extractActivities(s) == Content[s].activities

-----------------------------------------------------------------------------
(* The WHERE clause of queryStatements. *)

\* Mutant: an agent parameter takes precedence over the scope.
EffectiveAgent_asked(q) == IF q.mineOnly /\ q.agent = None THEN q.me ELSE q.agent

(* statements/read/mine turns a list request into one for related agents. *)
EffectiveAgent(q) == IF q.mineOnly THEN q.me ELSE q.agent
EffectiveRelatedAgents(q) == q.mineOnly \/ q.relatedAgents

HasContentFilter(q) ==
    q.voidings \/ EffectiveAgent(q) # None \/ q.activity # None

MatchesContent(q, s) ==
    /\ q.voidings => Content[s].voids
    /\ EffectiveAgent(q) # None =>
         \E u \in Usages :
            /\ <<u, EffectiveAgent(q)>> \in extractActors(s)
            /\ EffectiveRelatedAgents(q) \/ u = "Actor"
    /\ q.activity # None =>
         \E u \in Usages :
            /\ <<u, q.activity>> \in extractActivities(s)
            /\ q.relatedActivities \/ u = "Object"

\* Mutant: `more' loses the bound at the far end of the walk.
InTime_noFarBound(q, cur, n) ==
    IF cur # None
    THEN IF q.ascending THEN n > cur ELSE n < cur
    ELSE /\ q.since # None => n > q.since
         /\ q.until # None => n <= q.until

\* Mutant: the row at the cursor is returned again.
InTime_inclusive(q, cur, n) ==
    /\ cur # None => IF q.ascending THEN n >= cur ELSE n <= cur
    /\ cur = None \/ ~q.ascending => (q.since # None => n > q.since)
    /\ cur = None \/ q.ascending => (q.until # None => n <= q.until)

(* A cursor stands for the bound it has passed: `more' carries `until' of an
   ascending and `since' of a descending walk only. *)
InTime(q, cur, n) ==
    /\ cur # None => IF q.ascending THEN n > cur ELSE n < cur
    /\ cur = None \/ ~q.ascending => (q.since # None => n > q.since)
    /\ cur = None \/ q.ascending => (q.until # None => n <= q.until)

(* A statement that refers, directly or along a chain, to a voided statement
   that matches is selected in its place. *)
Targeting(q, s) ==
    /\ HasContentFilter(q)
    /\ \E v \in voided : <<s, v>> \in link /\ MatchesContent(q, v)

Selected(q, cur) ==
    {s \in Visible \ voided : /\ InTime(q, cur, row[s])
                              /\ MatchesContent(q, s) \/ Targeting(q, s)}

effectiveLimit(q) ==
    LET wanted == IF q.limit = None THEN DefaultLimit ELSE q.limit
    IN  IF wanted < MaxLimit THEN wanted ELSE MaxLimit

(* ORDER BY id: s comes before t in the results. *)
Before(q, s, t) == IF q.ascending THEN row[s] < row[t] ELSE row[s] > row[t]

\* Mutant: LIMIT without the extra row that tells whether more wait.
queryStatements_noExtraRow(q, cur) ==
    LET rows == Selected(q, cur)
        place(s) == Cardinality({t \in rows : Before(q, t, s)})
    IN  [rows |-> {s \in rows : place(s) < effectiveLimit(q)}, hasMore |-> FALSE]

queryStatements(q, cur) ==
    LET rows == Selected(q, cur)
        place(s) == Cardinality({t \in rows : Before(q, t, s)})
    IN  [rows |-> {s \in rows : place(s) < effectiveLimit(q)},
         hasMore |-> \E s \in rows : place(s) >= effectiveLimit(q)]

-----------------------------------------------------------------------------
\* Mutant: the direct link only.
Descendants_direct(s) == {Content[s].ref} \cap Visible

(* The links written with s: its target if that is stored, and all the target
   is linked to. *)
Descendants(s) ==
    ({Content[s].ref} \cap Visible) \cup {l[2] : l \in {k \in link : k[1] = Content[s].ref}}

\* Mutant: a target the store does not hold is marked as voided.
Voids_absent(s) == IF Content[s].voids THEN {Content[s].ref} ELSE {}

Voids(s) == IF Content[s].voids THEN {Content[s].ref} \cap Visible ELSE {}

(* A transaction that stored s with row number n commits; the voiding verb also
   voids the target, unless that is a voiding statement itself (400). *)
Store(s, n) ==
    /\ row[s] = None
    /\ \A t \in Ids : row[t] # n
    /\ \A t \in Voids(s) : ~Content[t].voids
    /\ row' = [row EXCEPT ![s] = n]
    /\ voided' = voided \cup Voids(s)
    /\ link' = link \cup {s} \X Descendants(s)
    /\ kept' = [w \in Walkers |-> kept[w] \ Voids(s)]
    /\ UNCHANGED client

-----------------------------------------------------------------------------
Filtered(q) ==
    \/ q.agent # None \/ q.activity # None \/ q.voidings
    \/ q.relatedAgents \/ q.relatedActivities
    \/ q.since # None \/ q.until # None \/ q.limit # None \/ q.ascending

Single(q) == q.statementId # None \/ q.voidedStatementId # None

Refused(q) ==
    \/ q.statementId # None /\ q.voidedStatementId # None
    \/ Single(q) /\ Filtered(q)

(* The answer to a list request begins a walk; a statement asked for by its id
   is looked up at once. *)
Ask(w, q) ==
    /\ state[w] = "idle"
    /\ Refused(q) \/ ~Single(q)
    /\ query' = [query EXCEPT ![w] = q]
    /\ state' = [state EXCEPT ![w] = IF Refused(q) THEN "refused" ELSE "walking"]
    /\ kept' = [kept EXCEPT ![w] = IF Refused(q) THEN {} ELSE Selected(q, None)]
    /\ UNCHANGED <<store, cursor, times>>

(* assertStatementBelongsToAgent: the actor itself, not a member of it. *)
BelongsTo(s, agent) ==
    \E a \in Content[s].actors : a.usage = "Actor" /\ a.ifi = agent

Found(q, s) == s \in Visible /\ (s \in voided <=> q.statementId = None)

AskById(w, q) ==
    LET s == IF q.statementId # None THEN q.statementId ELSE q.voidedStatementId
        ok == Found(q, s) /\ (q.mineOnly => BelongsTo(s, q.me))
    IN  /\ state[w] = "idle"
        /\ Single(q) /\ ~Refused(q)
        /\ query' = [query EXCEPT ![w] = q]
        /\ state' = [state EXCEPT ![w] = IF ~Found(q, s) THEN "notFound"
                                         ELSE IF ok THEN "done" ELSE "forbidden"]
        /\ times' = [times EXCEPT ![w][s] = IF ok THEN 1 ELSE 0]
        /\ UNCHANGED <<store, cursor, kept>>

(* One page: the query, its rows, and the cursor at the last of them when more
   rows wait. *)
Page(w) ==
    LET q == query[w]
        page == queryStatements(q, cursor[w])
    IN  /\ state[w] = "walking"
        /\ times' = [times EXCEPT ![w] =
                        [s \in Ids |-> IF s \in page.rows /\ @[s] < 2 THEN @[s] + 1 ELSE @[s]]]
        /\ \/ /\ page.hasMore
              /\ \E s \in page.rows :
                   /\ \A t \in page.rows : ~Before(q, s, t)
                   /\ cursor' = [cursor EXCEPT ![w] = row[s]]
              /\ UNCHANGED state
           \/ /\ ~page.hasMore
              /\ state' = [state EXCEPT ![w] = "done"]
              /\ UNCHANGED cursor
        /\ UNCHANGED <<store, query, kept>>

-----------------------------------------------------------------------------
Init ==
    /\ row = [s \in Ids |-> None]
    /\ voided = {}
    /\ link = {}
    /\ query = [w \in Walkers |-> None]
    /\ state = [w \in Walkers |-> "idle"]
    /\ cursor = [w \in Walkers |-> None]
    /\ times = [w \in Walkers |-> [s \in Ids |-> 0]]
    /\ kept = [w \in Walkers |-> {}]

(* Every client has its answer. *)
Terminated == (\A w \in Walkers : state[w] \notin {"idle", "walking"}) /\ UNCHANGED vars

Next ==
    \/ \E s \in Ids, n \in Rows : Store(s, n)
    \/ \E w \in Walkers :
         \/ \E q \in Queries : Ask(w, q) \/ AskById(w, q)
         \/ Page(w)
    \/ Terminated

Spec == Init /\ [][Next]_vars

(* The clients follow the links they are given. *)
FairSpec == Spec /\ \A w \in Walkers : WF_vars(Page(w))

-----------------------------------------------------------------------------
(* The types of the variables; links and voided statements are visible ones. *)
TypeOK ==
    /\ row \in [Ids -> Rows \cup {None}]
    /\ voided \subseteq Visible
    /\ link \subseteq Visible \X Visible
    /\ query \in [Walkers -> Queries \cup {None}]
    /\ state \in [Walkers -> {"idle", "walking", "done", "refused", "notFound", "forbidden"}]
    /\ cursor \in [Walkers -> Rows \cup {None}]
    /\ times \in [Walkers -> [Ids -> 0 .. 2]]
    /\ kept \in [Walkers -> SUBSET Visible]
    /\ \A s, t \in Visible : row[s] = row[t] => s = t
    /\ \A w \in Walkers : state[w] # "idle" => query[w] # None

(* No statement is returned twice in one walk, whatever is stored and voided
   between its pages: the cursor of `more' is a row, not an offset. *)
ReturnedOnce == \A w \in Walkers, s \in Ids : times[w][s] <= 1

Walked(w) == state[w] = "done" /\ ~Single(query[w])

(* A walk to the end misses nothing: what its query selected when it began, and
   has selected ever since, has been returned ("a complete walk", README). *)
CompleteWalk == \A w \in Walkers : Walked(w) => \A s \in kept[w] : times[w][s] = 1

(* `more' drops one time bound and keeps the other: every page still lies in
   the window of the first request. *)
WalkStaysInWindow ==
    \A w \in Walkers, s \in Ids : times[w][s] > 0 /\ ~Single(query[w]) =>
        /\ query[w].since # None => row[s] > query[w].since
        /\ query[w].until # None => row[s] <= query[w].until

(* The agent stands somewhere in the statement, be it as member of a group. *)
Occurs(agent, s) == \E a \in Content[s].actors : agent \in {a.ifi} \cup a.members

(* A client whose scope is statements/read/mine gets only statements it occurs
   in, and those that refer to a voided one it occurs in. *)
MineSeesOnlyItsOwn ==
    \A w \in Walkers, s \in Ids : times[w][s] > 0 /\ query[w].mineOnly =>
        \/ Occurs(query[w].me, s)
        \/ \E v \in voided : <<s, v>> \in link /\ Occurs(query[w].me, v)

(* "The LRS MUST still return any Statements targeting the voided Statement":
   a filter that a voided statement matches selects its voiding statement and
   whatever refers to that one. *)
VoidedIsReachable ==
    \A q \in Queries, t \in voided :
        LET found == Selected([q EXCEPT !.since = None, !.until = None], None) IN
        /\ q.agent # None /\ q.relatedAgents /\ ~q.mineOnly
        /\ ~q.voidings /\ q.activity = None /\ Occurs(q.agent, t)
        => /\ \E v \in found : Content[v].voids /\ Content[v].ref = t
           /\ \A s \in Visible \ voided, u \in Visible :
                {<<s, u>>, <<u, t>>} \subseteq link => s \in found

(* Every walk comes to its end while the client follows its links. *)
EveryWalkEnds == \A w \in Walkers : state[w] = "walking" ~> state[w] = "done"

=============================================================================
