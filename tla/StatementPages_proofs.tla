------------------------ MODULE StatementPages_proofs ------------------------
(***************************************************************************)
(* For any number of clients, statements, queries and row numbers: a walk  *)
(* along `more' returns nothing twice, stays in its window and its scope,  *)
(* misses nothing it has selected all along; and what refers to a voided   *)
(* statement is found in its place.                                        *)
(***************************************************************************)
EXTENDS StatementPages, FiniteSetTheorems, TLAPS

(* n comes after the cursor of a walk. *)
Ahead(q, cur, n) == cur = None \/ IF q.ascending THEN n > cur ELSE n < cur

InWindow(q, n) ==
    /\ q.since # None => n > q.since
    /\ q.until # None => n <= q.until

(* The WHERE clause but for the time, of a store with these voided statements
   and links. *)
Matches(q, s, V, L) ==
    \/ MatchesContent(q, s)
    \/ HasContentFilter(q) /\ \E v \in V : <<s, v>> \in L /\ MatchesContent(q, v)

(* What a client knows it may have from its walk only. *)
StateOK(w) ==
    /\ state[w] = "idle" => cursor[w] = None /\ (\A s \in Ids : times[w][s] = 0)
    /\ state[w] = "walking" => ~Single(query[w])
    /\ \A s \in Ids : times[w][s] > 0 => s \in Visible

(* A cursor is the number of a row of the walk: it lies in the window, and all
   that has been returned lies behind it. *)
CursorOK(w) ==
    /\ cursor[w] # None => InWindow(query[w], cursor[w])
    /\ state[w] = "walking" =>
          \A s \in Ids : times[w][s] > 0 => ~Ahead(query[w], cursor[w], row[s])

(* What the query has selected all along still matches, and has been returned
   or is still ahead. *)
KeptOK(w) ==
    state[w] \in {"walking", "done"} /\ ~Single(query[w]) =>
        \A s \in kept[w] :
            /\ s \notin voided
            /\ Matches(query[w], s, voided, link)
            /\ InWindow(query[w], row[s])
            /\ times[w][s] > 0 \/ (state[w] = "walking" /\ Ahead(query[w], cursor[w], row[s]))

(* Links are transitively closed, and a voided statement has the link of the
   statement that voided it. *)
LinkOK ==
    /\ \A a, b, c \in Ids : <<a, b>> \in link /\ <<b, c>> \in link => <<a, c>> \in link
    /\ \A t \in voided :
          /\ ~Content[t].voids
          /\ \E v \in Visible : Content[v].voids /\ Content[v].ref = t /\ <<v, t>> \in link

WalkInv == \A w \in Walkers : StateOK(w) /\ CursorOK(w) /\ KeptOK(w)

IndInv ==
    /\ TypeOK /\ WalkInv /\ LinkOK
    /\ ReturnedOnce /\ WalkStaysInWindow /\ MineSeesOnlyItsOwn

-----------------------------------------------------------------------------
(* Queries and pages. *)

(* The fields of a query that are used below. *)
LEMMA QueryFields ==
    ASSUME NEW q \in Queries
    PROVE  /\ q.since \in Nat \cup {None} /\ q.until \in Nat \cup {None}
           /\ q.limit \in Nat \cup {None}
           /\ q.ascending \in BOOLEAN /\ q.mineOnly \in BOOLEAN
           /\ q.me \in Agents /\ q.me # None
           /\ q # None
BY QueriesAssumption, NoneAssumption DEF Query

LEMMA LimitType ==
    ASSUME NEW q \in Queries
    PROVE  effectiveLimit(q) \in Nat
BY QueryFields, NumbersAssumption DEF effectiveLimit

(* How many of the rows R come before s. *)
Place(q, R, s) == Cardinality({t \in R : Before(q, t, s)})

LEMMA PlaceType ==
    ASSUME NEW q, NEW R \in SUBSET Ids, NEW s
    PROVE  Place(q, R, s) \in Nat /\ IsFiniteSet({t \in R : Before(q, t, s)})
<1>1. {t \in R : Before(q, t, s)} \in SUBSET Ids
  OBVIOUS
<1>2. IsFiniteSet({t \in R : Before(q, t, s)})
  BY <1>1, FS_Subset, FiniteAssumption
<1> QED
  BY <1>2, FS_CardinalityType DEF Place

(* Of two visible statements one comes before the other. *)
LEMMA RowsOrdered ==
    ASSUME TypeOK, NEW q \in Queries, NEW s \in Visible, NEW t \in Visible, s # t
    PROVE  Before(q, s, t) \/ Before(q, t, s)
<1>1. row[s] \in Nat /\ row[t] \in Nat /\ row[s] # row[t]
  BY NumbersAssumption, NoneAssumption DEF TypeOK, Visible
<1> QED
  BY <1>1, QueryFields DEF Before

(* Who comes before s comes before all that s comes before. *)
LEMMA RowsTransitive ==
    ASSUME TypeOK, NEW q \in Queries, NEW s \in Visible, NEW t \in Visible, NEW u \in Visible,
           Before(q, s, t), Before(q, t, u)
    PROVE  Before(q, s, u)
<1>1. row[s] \in Nat /\ row[t] \in Nat /\ row[u] \in Nat
  BY NumbersAssumption, NoneAssumption DEF TypeOK, Visible
<1> QED
  BY <1>1, QueryFields DEF Before

LEMMA SelectedFacts ==
    ASSUME NEW q, NEW cur
    PROVE  /\ Selected(q, cur) \subseteq Visible \ voided
           /\ \A s \in Visible \ voided :
                s \in Selected(q, cur) <=>
                    InTime(q, cur, row[s]) /\ Matches(q, s, voided, link)
BY DEF Selected, Matches, Targeting

(* A page is the beginning of what is selected. *)
LEMMA PageIsABeginning ==
    ASSUME TypeOK, NEW q \in Queries, NEW cur,
           NEW r \in queryStatements(q, cur).rows,
           NEW s \in Selected(q, cur), s \notin queryStatements(q, cur).rows
    PROVE  r \in Selected(q, cur) /\ Before(q, r, s)
<1> DEFINE R == Selected(q, cur)
<1>1. R \subseteq Visible /\ Visible \subseteq Ids
  BY SelectedFacts DEF Visible
<1>2. queryStatements(q, cur).rows = {t \in R : Place(q, R, t) < effectiveLimit(q)}
  BY DEF queryStatements, Place
<1>3. r \in R /\ Place(q, R, r) < effectiveLimit(q) /\ ~(Place(q, R, s) < effectiveLimit(q))
  BY <1>2
<1>4. SUFFICES ASSUME ~Before(q, r, s) PROVE FALSE
  BY <1>3
<1>5. s \in Visible /\ r \in Visible /\ r # s
  BY <1>1, <1>3
<1>6. Before(q, s, r)
  BY <1>4, <1>5, RowsOrdered
<1>7. {t \in R : Before(q, t, s)} \subseteq {t \in R : Before(q, t, r)}
  BY <1>1, <1>5, <1>6, RowsTransitive
<1>8. R \in SUBSET Ids
  BY <1>1
<1>9. Place(q, R, s) <= Place(q, R, r)
  <2>1. IsFiniteSet({t \in R : Before(q, t, r)})
    BY <1>8, PlaceType
  <2> QED
    BY <1>7, <2>1, FS_Subset DEF Place
<1> HIDE DEF R
<1>10. Place(q, R, s) \in Nat /\ Place(q, R, r) \in Nat /\ effectiveLimit(q) \in Nat
  BY <1>8, PlaceType, LimitType
<1> QED
  BY <1>3, <1>9, <1>10

LEMMA LastPage ==
    ASSUME NEW q \in Queries, NEW cur, ~queryStatements(q, cur).hasMore
    PROVE  queryStatements(q, cur).rows = Selected(q, cur)
<1> DEFINE R == Selected(q, cur)
<1>1. /\ queryStatements(q, cur).rows = {t \in R : Place(q, R, t) < effectiveLimit(q)}
      /\ \A t \in R : ~(Place(q, R, t) >= effectiveLimit(q))
  BY DEF queryStatements, Place
<1>2. R \in SUBSET Ids
  BY SelectedFacts DEF Visible
<1> HIDE DEF R
<1>3. \A t \in R : Place(q, R, t) \in Nat
  BY <1>2, PlaceType
<1>4. \A t \in R : Place(q, R, t) < effectiveLimit(q)
  BY <1>1, <1>3, LimitType
<1> QED
  BY <1>1, <1>4 DEF R

-----------------------------------------------------------------------------
(* What the steps change. *)

LEMMA StoreStep ==
    ASSUME TypeOK, NEW s \in Ids, NEW n \in Rows, Store(s, n)
    PROVE  /\ s \notin Visible /\ row'[s] = n
           /\ \A t \in Ids : t # s => row'[t] = row[t]
           /\ Visible' = Visible \cup {s}
           /\ \A t \in Ids : row[t] # n
           /\ Voids(s) \subseteq Visible /\ Descendants(s) \subseteq Visible
           /\ voided' = voided \cup Voids(s)
           /\ link' = link \cup {s} \X Descendants(s)
           /\ kept' = [w \in Walkers |-> kept[w] \ Voids(s)]
           /\ UNCHANGED client
<1>1. s \notin Visible /\ row'[s] = n /\ \A t \in Ids : t # s => row'[t] = row[t]
  BY DEF Store, TypeOK, Visible
<1>2. Visible' = Visible \cup {s}
  BY <1>1, NumbersAssumption, NoneAssumption DEF Visible
<1>3. Voids(s) \subseteq Visible
  BY DEF Voids
<1>4. Descendants(s) \subseteq Visible
  BY DEF Descendants, TypeOK
<1> QED
  BY <1>1, <1>2, <1>3, <1>4 DEF Store

(* The page a client gets and what it does with it. *)
PageRows(w) == queryStatements(query[w], cursor[w]).rows

LEMMA PageStep ==
    ASSUME TypeOK, NEW w \in Walkers, Page(w)
    PROVE  /\ query[w] \in Queries /\ state[w] = "walking"
           /\ UNCHANGED <<store, query, kept>>
           /\ \A u \in Walkers : u # w =>
                state'[u] = state[u] /\ cursor'[u] = cursor[u] /\ times'[u] = times[u]
           /\ \A s \in Ids : times'[w][s] =
                IF s \in PageRows(w) /\ times[w][s] < 2 THEN times[w][s] + 1 ELSE times[w][s]
           /\ times' \in [Walkers -> [Ids -> 0 .. 2]]
           /\ \/ /\ state'[w] = "done" /\ cursor'[w] = cursor[w]
                 /\ PageRows(w) = Selected(query[w], cursor[w])
              \/ /\ state'[w] = "walking"
                 /\ \E s \in PageRows(w) : /\ \A t \in PageRows(w) : ~Before(query[w], s, t)
                                        /\ cursor'[w] = row[s]
           /\ state' \in [Walkers -> {"idle", "walking", "done", "refused", "notFound", "forbidden"}]
           /\ cursor' = [cursor EXCEPT ![w] = cursor'[w]]
<1>1. query[w] \in Queries /\ state[w] = "walking"
  BY DEF TypeOK, Page
<1>2. UNCHANGED <<store, query, kept>>
  BY DEF Page
<1>3. times' = [times EXCEPT ![w] = [s \in Ids |-> IF s \in PageRows(w) /\ @[s] < 2
                                                   THEN @[s] + 1 ELSE @[s]]]
  BY DEF Page, PageRows
<1>4. /\ \A u \in Walkers : u # w => times'[u] = times[u]
      /\ \A s \in Ids : times'[w][s] =
            IF s \in PageRows(w) /\ times[w][s] < 2 THEN times[w][s] + 1 ELSE times[w][s]
      /\ times' \in [Walkers -> [Ids -> 0 .. 2]]
  BY <1>3 DEF TypeOK
<1>5. CASE queryStatements(query[w], cursor[w]).hasMore
  <2>1. PICK s \in PageRows(w) : /\ \A t \in PageRows(w) : ~Before(query[w], s, t)
                              /\ cursor' = [cursor EXCEPT ![w] = row[s]]
    BY <1>5 DEF Page, PageRows
  <2>2. state' = state
    BY <1>5 DEF Page
  <2>3. cursor'[w] = row[s] /\ \A u \in Walkers : u # w => cursor'[u] = cursor[u]
    BY <2>1 DEF TypeOK
  <2> QED
    BY <1>1, <1>2, <1>4, <2>1, <2>2, <2>3 DEF TypeOK
<1>6. CASE ~queryStatements(query[w], cursor[w]).hasMore
  <2>1. state' = [state EXCEPT ![w] = "done"] /\ cursor' = cursor
    BY <1>6 DEF Page
  <2>2. PageRows(w) = Selected(query[w], cursor[w])
    BY <1>1, <1>6, LastPage DEF PageRows
  <2>3. /\ state'[w] = "done" /\ \A u \in Walkers : u # w => state'[u] = state[u]
        /\ cursor' = [cursor EXCEPT ![w] = cursor'[w]]
        /\ state' \in [Walkers -> {"idle", "walking", "done", "refused", "notFound", "forbidden"}]
    BY <2>1 DEF TypeOK
  <2> QED
    BY <1>1, <1>2, <1>4, <2>1, <2>2, <2>3 DEF TypeOK
<1> QED
  BY <1>5, <1>6

LEMMA RowsOfPage ==
    ASSUME TypeOK, NEW w \in Walkers, query[w] \in Queries
    PROVE  /\ PageRows(w) \subseteq Visible \ voided
           /\ \A s \in PageRows(w) : InTime(query[w], cursor[w], row[s])
                                  /\ Matches(query[w], s, voided, link)
<1>1. PageRows(w) \subseteq Selected(query[w], cursor[w])
  BY DEF PageRows, queryStatements
<1> QED
  BY <1>1, SelectedFacts

(* A request for a walk, and one that is answered at once. *)
LEMMA AskStep ==
    ASSUME TypeOK, NEW w \in Walkers, NEW q \in Queries, Ask(w, q)
    PROVE  /\ state[w] = "idle" /\ query'[w] = q
           /\ state'[w] \in {"refused", "walking"}
           /\ state'[w] = "walking" => ~Single(q)
           /\ kept'[w] = IF state'[w] = "walking" THEN Selected(q, None) ELSE {}
           /\ \A u \in Walkers : u # w =>
                query'[u] = query[u] /\ state'[u] = state[u] /\ kept'[u] = kept[u]
           /\ UNCHANGED <<store, cursor, times>>
           /\ query' \in [Walkers -> Queries \cup {None}]
           /\ state' \in [Walkers -> {"idle", "walking", "done", "refused", "notFound", "forbidden"}]
           /\ kept' = [kept EXCEPT ![w] = kept'[w]]
BY DEF Ask, TypeOK

LEMMA AskByIdStep ==
    ASSUME TypeOK, NEW w \in Walkers, NEW q \in Queries, AskById(w, q)
    PROVE  /\ state[w] = "idle" /\ query'[w] = q /\ Single(q)
           /\ state'[w] \in {"notFound", "done", "forbidden"}
           /\ \A u \in Walkers : u # w =>
                query'[u] = query[u] /\ state'[u] = state[u] /\ times'[u] = times[u]
           /\ UNCHANGED <<store, cursor, kept>>
           /\ query' \in [Walkers -> Queries \cup {None}]
           /\ state' \in [Walkers -> {"idle", "walking", "done", "refused", "notFound", "forbidden"}]
           /\ \E s \in Ids, k \in {0, 1} :
                /\ times' = [times EXCEPT ![w] = [times[w] EXCEPT ![s] = k]]
                /\ k = 1 => s \in Visible /\ (q.mineOnly => BelongsTo(s, q.me))
<1> DEFINE s == IF q.statementId # None THEN q.statementId ELSE q.voidedStatementId
           ok == Found(q, s) /\ (q.mineOnly => BelongsTo(s, q.me))
<1>1. s \in Ids /\ Single(q)
  BY QueriesAssumption DEF AskById, Single, Query
<1>2. /\ state[w] = "idle"
      /\ query' = [query EXCEPT ![w] = q]
      /\ state' = [state EXCEPT ![w] = IF ~Found(q, s) THEN "notFound"
                                       ELSE IF ok THEN "done" ELSE "forbidden"]
      /\ times' = [times EXCEPT ![w][s] = IF ok THEN 1 ELSE 0]
      /\ UNCHANGED <<store, cursor, kept>>
  BY DEF AskById
<1>3. ok => s \in Visible /\ (q.mineOnly => BelongsTo(s, q.me))
  BY DEF Found
<1>4. \E k \in {0, 1} : /\ times' = [times EXCEPT ![w] = [times[w] EXCEPT ![s] = k]]
                        /\ k = 1 => s \in Visible /\ (q.mineOnly => BelongsTo(s, q.me))
  <2>1. times' = [times EXCEPT ![w] = [times[w] EXCEPT ![s] = IF ok THEN 1 ELSE 0]]
    BY <1>2 DEF TypeOK
  <2> HIDE DEF s, ok
  <2>2. ok => times' = [times EXCEPT ![w] = [times[w] EXCEPT ![s] = 1]]
    BY <2>1
  <2>3. ~ok => times' = [times EXCEPT ![w] = [times[w] EXCEPT ![s] = 0]]
    BY <2>1
  <2> QED
    BY <1>3, <2>2, <2>3
<1> HIDE DEF s, ok
<1>5. /\ query'[w] = q /\ state'[w] \in {"notFound", "done", "forbidden"}
      /\ \A u \in Walkers : u # w => query'[u] = query[u] /\ state'[u] = state[u]
      /\ query' \in [Walkers -> Queries \cup {None}]
      /\ state' \in [Walkers -> {"idle", "walking", "done", "refused", "notFound", "forbidden"}]
  BY <1>2 DEF TypeOK
<1>6. \A u \in Walkers : u # w => times'[u] = times[u]
  BY <1>4 DEF TypeOK
<1> QED
  BY <1>1, <1>2, <1>4, <1>5, <1>6

-----------------------------------------------------------------------------
(* Types, and the store. *)

LEMMA TypeStep ==
    ASSUME TypeOK, [Next]_vars
    PROVE  TypeOK'
<1>1. CASE UNCHANGED vars
  BY <1>1 DEF vars, TypeOK, Visible
<1>2. ASSUME NEW s \in Ids, NEW n \in Rows, Store(s, n) PROVE TypeOK'
  <2>1. /\ Visible' = Visible \cup {s} /\ s \notin Visible /\ row'[s] = n
        /\ \A t \in Ids : t # s => row'[t] = row[t]
        /\ \A t \in Ids : row[t] # n
        /\ Voids(s) \subseteq Visible /\ Descendants(s) \subseteq Visible
        /\ voided' = voided \cup Voids(s)
        /\ link' = link \cup {s} \X Descendants(s)
        /\ kept' = [w \in Walkers |-> kept[w] \ Voids(s)]
        /\ UNCHANGED client
    BY <1>2, StoreStep
  <2>2. row' \in [Ids -> Rows \cup {None}]
    BY <1>2 DEF Store, TypeOK
  <2>3. voided' \subseteq Visible' /\ link' \subseteq Visible' \X Visible'
    BY <2>1 DEF TypeOK
  <2>4. kept' \in [Walkers -> SUBSET Visible']
    BY <2>1 DEF TypeOK
  <2>5. \A t, u \in Visible' : row'[t] = row'[u] => t = u
    BY <2>1 DEF TypeOK, Visible
  <2> QED
    BY <2>1, <2>2, <2>3, <2>4, <2>5 DEF TypeOK, client
<1>3. ASSUME NEW w \in Walkers, NEW q \in Queries, Ask(w, q) PROVE TypeOK'
  <2>1. kept'[w] \subseteq Visible /\ Visible' = Visible
    BY <1>3, AskStep, SelectedFacts DEF store, Visible
  <2>2. kept' \in [Walkers -> SUBSET Visible]
    BY <1>3, <2>1, AskStep DEF TypeOK
  <2>3. \A u \in Walkers : state'[u] # "idle" => query'[u] # None
    BY <1>3, AskStep, QueryFields DEF TypeOK
  <2> QED
    BY <1>3, <2>1, <2>2, <2>3, AskStep DEF TypeOK, store, client
<1>4. ASSUME NEW w \in Walkers, NEW q \in Queries, AskById(w, q) PROVE TypeOK'
  <2>1. times' \in [Walkers -> [Ids -> 0 .. 2]]
    <3>1. PICK s \in Ids, k \in {0, 1} : times' = [times EXCEPT ![w] = [times[w] EXCEPT ![s] = k]]
      BY <1>4, AskByIdStep
    <3>2. [times[w] EXCEPT ![s] = k] \in [Ids -> 0 .. 2]
      BY DEF TypeOK
    <3> QED
      BY <3>1, <3>2 DEF TypeOK
  <2>2. \A u \in Walkers : state'[u] # "idle" => query'[u] # None
    BY <1>4, AskByIdStep, QueryFields DEF TypeOK
  <2>3. Visible' = Visible
    BY <1>4, AskByIdStep DEF store, Visible
  <2> QED
    BY <1>4, <2>1, <2>2, <2>3, AskByIdStep DEF TypeOK, store, client
<1>5. ASSUME NEW w \in Walkers, Page(w) PROVE TypeOK'
  <2>1. cursor'[w] \in Rows \cup {None}
    BY <1>5, PageStep, RowsOfPage DEF TypeOK, Visible
  <2>2. cursor' \in [Walkers -> Rows \cup {None}]
    BY <1>5, <2>1, PageStep DEF TypeOK
  <2>3. \A u \in Walkers : state'[u] # "idle" => query'[u] # None
    BY <1>5, PageStep DEF TypeOK
  <2>4. Visible' = Visible
    BY <1>5, PageStep DEF store, Visible
  <2> QED
    BY <1>5, <2>2, <2>3, <2>4, PageStep DEF TypeOK, store
<1> QED
  BY <1>1, <1>2, <1>3, <1>4, <1>5 DEF Next, Terminated

LEMMA LinkStep ==
    ASSUME TypeOK, LinkOK, [Next]_vars
    PROVE  LinkOK'
<1>1. ASSUME NEW s \in Ids, NEW n \in Rows, Store(s, n) PROVE LinkOK'
  <2>1. /\ s \notin Visible /\ Visible' = Visible \cup {s}
        /\ Descendants(s) \subseteq Visible
        /\ voided' = voided \cup Voids(s)
        /\ link' = link \cup {s} \X Descendants(s)
    BY <1>1, StoreStep
  <2>2. ASSUME NEW a \in Ids, NEW b \in Ids, NEW c \in Ids,
               <<a, b>> \in link', <<b, c>> \in link'
        PROVE  <<a, c>> \in link'
    <3>1. b # s /\ <<b, c>> \in link
      BY <2>1, <2>2 DEF TypeOK
    <3>2. CASE <<a, b>> \in link
      BY <2>1, <3>1, <3>2 DEF LinkOK
    <3>3. CASE a = s /\ b \in Descendants(s)
      <4>1. b = Content[s].ref \/ <<Content[s].ref, b>> \in link
        <5>1. \A l \in link : l = <<l[1], l[2]>>
          BY DEF TypeOK
        <5> QED
          BY <3>3, <5>1 DEF Descendants
      <4>2. Content[s].ref \in Ids
        BY <4>1 DEF TypeOK, Visible
      <4>3. <<Content[s].ref, c>> \in link
        BY <3>1, <4>1, <4>2 DEF LinkOK
      <4>4. c \in Descendants(s)
        BY <4>3 DEF Descendants
      <4> QED
        BY <2>1, <3>3, <4>4
    <3> QED
      BY <2>1, <2>2, <3>2, <3>3
  <2>3. ASSUME NEW t \in voided'
        PROVE  /\ ~Content[t].voids
               /\ \E v \in Visible' : /\ Content[v].voids /\ Content[v].ref = t
                                      /\ <<v, t>> \in link'
    <3>1. CASE t \in voided
      BY <2>1, <3>1 DEF LinkOK
    <3>2. CASE t \in Voids(s)
      <4>1. Content[s].voids /\ t = Content[s].ref /\ t \in Visible
        BY <3>2 DEF Voids
      <4>2. ~Content[t].voids
        BY <1>1, <3>2 DEF Store
      <4>3. <<s, t>> \in link'
        BY <2>1, <4>1 DEF Descendants
      <4> QED
        BY <2>1, <4>1, <4>2, <4>3
    <3> QED
      BY <2>1, <2>3, <3>1, <3>2
  <2> QED
    BY <2>2, <2>3 DEF LinkOK
<1>2. CASE UNCHANGED store
  BY <1>2 DEF store, LinkOK, Visible
<1> QED
  BY <1>1, <1>2 DEF Next, Terminated, vars, store, Ask, AskById, Page

-----------------------------------------------------------------------------
(* The walks. *)

(* What one client got, and may have got. *)
GotOK(w) ==
    \A s \in Ids : times[w][s] > 0 =>
        /\ times[w][s] <= 1
        /\ ~Single(query[w]) => InWindow(query[w], row[s])
        /\ query[w].mineOnly =>
             \/ Occurs(query[w].me, s)
             \/ \E v \in voided : <<s, v>> \in link /\ Occurs(query[w].me, v)

ClientOK(w) == StateOK(w) /\ CursorOK(w) /\ KeptOK(w) /\ GotOK(w)

LEMMA ClientsOK == IndInv <=> TypeOK /\ LinkOK /\ \A w \in Walkers : ClientOK(w)
<1>1. TypeOK => \A w \in Walkers, s \in Ids : times[w][s] \in 0 .. 2
  BY DEF TypeOK
<1> QED
  BY <1>1 DEF IndInv, WalkInv, ClientOK, GotOK, ReturnedOnce, WalkStaysInWindow,
              MineSeesOnlyItsOwn, InWindow

(* The two bounds of a page, the cursor and the far one, are both bounds of
   the window when the cursor lies in it. *)
LEMMA TimeOfPage ==
    ASSUME NEW q \in Queries, NEW cur \in Nat \cup {None}, NEW n \in Nat,
           cur # None => InWindow(q, cur)
    PROVE  InTime(q, cur, n) <=> InWindow(q, n) /\ Ahead(q, cur, n)
BY QueryFields, NoneAssumption DEF InTime, InWindow, Ahead

(* Who matches a query by content occurs in it, as far as the scope goes. *)
LEMMA MineOccurs ==
    ASSUME NEW q \in Queries, q.mineOnly, NEW s, MatchesContent(q, s)
    PROVE  Occurs(q.me, s)
<1>1. EffectiveAgent(q) = q.me /\ q.me # None
  BY QueryFields DEF EffectiveAgent
<1>2. PICK u \in Usages : <<u, q.me>> \in extractActors(s)
  BY <1>1 DEF MatchesContent
<1>3. PICK a \in Content[s].actors :
        <<u, q.me>> \in {a.usage} \X (({a.ifi} \cup a.members) \ {None})
  BY <1>2 DEF extractActors
<1> QED
  BY <1>3 DEF Occurs

(* Nothing changes for a client when nothing it has, or that is stored, does. *)
LEMMA ClientUnchanged ==
    ASSUME NEW w \in Walkers, ClientOK(w), UNCHANGED store,
           query'[w] = query[w], state'[w] = state[w], cursor'[w] = cursor[w],
           times'[w] = times[w], kept'[w] = kept[w]
    PROVE  ClientOK(w)'
<1>1. Visible' = Visible /\ voided' = voided /\ link' = link /\ row' = row
  BY DEF store, Visible
<1> QED
  BY <1>1 DEF ClientOK, StateOK, CursorOK, KeptOK, GotOK

(* A statement is stored, and maybe one voided, between two pages. *)
LEMMA ClientAfterStore ==
    ASSUME TypeOK, NEW w \in Walkers, ClientOK(w), NEW s \in Ids, NEW n \in Rows, Store(s, n)
    PROVE  ClientOK(w)'
<1>1. /\ s \notin Visible /\ Visible' = Visible \cup {s}
      /\ \A t \in Visible : row'[t] = row[t]
      /\ voided' = voided \cup Voids(s) /\ link \subseteq link'
      /\ kept'[w] = kept[w] \ Voids(s) /\ kept[w] \subseteq Visible
      /\ query' = query /\ state' = state /\ cursor' = cursor /\ times' = times
  BY StoreStep DEF client, TypeOK, Visible
<1>2. StateOK(w)'
  BY <1>1 DEF ClientOK, StateOK
<1>3. \A t \in Ids : times[w][t] > 0 => row'[t] = row[t]
  BY <1>1 DEF ClientOK, StateOK
<1>4. CursorOK(w)'
  BY <1>1, <1>3 DEF ClientOK, CursorOK
<1>5. KeptOK(w)'
  <2> SUFFICES ASSUME state[w] \in {"walking", "done"}, ~Single(query[w]), NEW t \in kept'[w]
               PROVE  /\ t \notin voided'
                      /\ Matches(query[w], t, voided', link')
                      /\ InWindow(query[w], row'[t])
                      /\ \/ times[w][t] > 0
                         \/ state[w] = "walking" /\ Ahead(query[w], cursor[w], row'[t])
    BY <1>1 DEF KeptOK
  <2>1. t \in kept[w] /\ t \notin Voids(s) /\ row'[t] = row[t]
    BY <1>1
  <2>2. /\ t \notin voided /\ Matches(query[w], t, voided, link)
        /\ InWindow(query[w], row[t])
        /\ \/ times[w][t] > 0
           \/ state[w] = "walking" /\ Ahead(query[w], cursor[w], row[t])
    BY <2>1 DEF ClientOK, KeptOK
  <2>3. Matches(query[w], t, voided', link')
    BY <1>1, <2>2 DEF Matches
  <2> QED
    BY <1>1, <2>1, <2>2, <2>3
<1>6. GotOK(w)'
  BY <1>1, <1>3 DEF ClientOK, GotOK
<1> QED
  BY <1>2, <1>4, <1>5, <1>6 DEF ClientOK

LEMMA ClientAfterAsk ==
    ASSUME TypeOK, NEW w \in Walkers, ClientOK(w), NEW q \in Queries, Ask(w, q)
    PROVE  ClientOK(w)'
<1>1. /\ state[w] = "idle" /\ query'[w] = q /\ state'[w] \in {"refused", "walking"}
      /\ state'[w] = "walking" => ~Single(q)
      /\ kept'[w] = IF state'[w] = "walking" THEN Selected(q, None) ELSE {}
      /\ cursor'[w] = cursor[w] /\ times'[w] = times[w]
      /\ Visible' = Visible /\ voided' = voided /\ link' = link /\ row' = row
  BY AskStep DEF store, Visible
<1>2. cursor[w] = None /\ \A s \in Ids : times[w][s] = 0
  BY <1>1 DEF ClientOK, StateOK
<1>3. StateOK(w)' /\ CursorOK(w)' /\ GotOK(w)'
  BY <1>1, <1>2 DEF StateOK, CursorOK, GotOK
<1>4. ASSUME NEW s \in Selected(q, None)
      PROVE  s \notin voided /\ Matches(q, s, voided, link) /\ InWindow(q, row[s])
  <2>1. /\ s \in Visible \ voided
        /\ InTime(q, None, row[s]) /\ Matches(q, s, voided, link)
    BY SelectedFacts
  <2>2. row[s] \in Nat
    BY <2>1, NumbersAssumption DEF TypeOK, Visible
  <2> QED
    BY <2>1, <2>2, TimeOfPage
<1>5. KeptOK(w)'
  BY <1>1, <1>2, <1>4 DEF KeptOK, Ahead
<1> QED
  BY <1>3, <1>5 DEF ClientOK

LEMMA ClientAfterAskById ==
    ASSUME TypeOK, NEW w \in Walkers, ClientOK(w), NEW q \in Queries, AskById(w, q)
    PROVE  ClientOK(w)'
<1>1. /\ state[w] = "idle" /\ query'[w] = q /\ Single(q)
      /\ state'[w] \in {"notFound", "done", "forbidden"}
      /\ cursor'[w] = cursor[w] /\ kept'[w] = kept[w]
      /\ Visible' = Visible /\ voided' = voided /\ link' = link /\ row' = row
  BY AskByIdStep DEF store, Visible
<1>2. cursor[w] = None /\ \A s \in Ids : times[w][s] = 0
  BY <1>1 DEF ClientOK, StateOK
<1>3. PICK s \in Ids, k \in {0, 1} :
        /\ times' = [times EXCEPT ![w] = [times[w] EXCEPT ![s] = k]]
        /\ k = 1 => s \in Visible /\ (q.mineOnly => BelongsTo(s, q.me))
  BY AskByIdStep
<1>4. \A t \in Ids : times'[w][t] = IF t = s THEN k ELSE 0
  BY <1>2, <1>3 DEF TypeOK
<1>5. \A t \in Ids : times'[w][t] > 0 => t = s /\ k = 1
  BY <1>4
<1>6. BelongsTo(s, q.me) => Occurs(q.me, s)
  BY DEF BelongsTo, Occurs
<1>7. StateOK(w)' /\ CursorOK(w)' /\ KeptOK(w)'
  BY <1>1, <1>2, <1>3, <1>5 DEF StateOK, CursorOK, KeptOK
<1>8. GotOK(w)'
  BY <1>1, <1>3, <1>4, <1>5, <1>6 DEF GotOK
<1> QED
  BY <1>7, <1>8 DEF ClientOK

LEMMA ClientAfterPage ==
    ASSUME TypeOK, NEW w \in Walkers, ClientOK(w), Page(w)
    PROVE  ClientOK(w)'
<1> DEFINE q == query[w]
           cur == cursor[w]
<1>1. /\ q \in Queries /\ state[w] = "walking" /\ query'[w] = q /\ kept'[w] = kept[w]
      /\ Visible' = Visible /\ voided' = voided /\ link' = link /\ row' = row
      /\ \A s \in Ids : times'[w][s] =
            IF s \in PageRows(w) /\ times[w][s] < 2 THEN times[w][s] + 1 ELSE times[w][s]
  BY PageStep DEF store, Visible
<1>2. \A s \in Visible : row[s] \in Nat /\ row[s] # None
  BY NumbersAssumption, NoneAssumption DEF TypeOK, Visible
<1>3. cur \in Nat \cup {None} /\ (cur # None => InWindow(q, cur)) /\ ~Single(q)
  BY <1>1, NumbersAssumption DEF TypeOK, ClientOK, CursorOK, StateOK
<1>4. ASSUME NEW s \in PageRows(w)
      PROVE  /\ s \in Visible \ voided /\ s \in Ids
             /\ InWindow(q, row[s]) /\ Ahead(q, cur, row[s])
             /\ Matches(q, s, voided, link)
  <2>1. s \in Visible \ voided /\ InTime(q, cur, row[s]) /\ Matches(q, s, voided, link)
    BY <1>1, RowsOfPage
  <2> QED
    BY <1>1, <1>2, <1>3, <2>1, TimeOfPage DEF Visible
<1>5. \A s \in Ids : times[w][s] > 0 => s \in Visible /\ ~Ahead(q, cur, row[s])
  BY <1>1 DEF ClientOK, StateOK, CursorOK
<1>6. \A s \in Ids : times[w][s] \in 0 .. 2
  BY DEF TypeOK
<1>7. \A s \in Ids : /\ s \in PageRows(w) => times[w][s] = 0 /\ times'[w][s] = 1
                     /\ s \notin PageRows(w) => times'[w][s] = times[w][s]
  BY <1>1, <1>4, <1>5, <1>6
<1>8. GotOK(w)'
  <2>1. ASSUME NEW s \in PageRows(w), q.mineOnly
        PROVE  \/ Occurs(q.me, s)
               \/ \E v \in voided : <<s, v>> \in link /\ Occurs(q.me, v)
    BY <1>1, <1>4, <2>1, MineOccurs DEF Matches
  <2>2. SUFFICES ASSUME NEW s \in Ids, times'[w][s] > 0
                 PROVE  /\ times'[w][s] <= 1
                        /\ InWindow(q, row[s])
                        /\ q.mineOnly =>
                             \/ Occurs(q.me, s)
                             \/ \E v \in voided : <<s, v>> \in link /\ Occurs(q.me, v)
    BY <1>1 DEF GotOK
  <2>3. CASE s \in PageRows(w)
    BY <1>4, <1>7, <2>1, <2>3
  <2>4. CASE s \notin PageRows(w)
    BY <1>3, <1>7, <2>2, <2>4 DEF ClientOK, GotOK
  <2> QED
    BY <2>3, <2>4
<1>9. CASE state'[w] = "done" /\ cursor'[w] = cur /\ PageRows(w) = Selected(q, cur)
  <2>1. StateOK(w)' /\ CursorOK(w)'
    BY <1>1, <1>3, <1>4, <1>5, <1>7, <1>9 DEF StateOK, CursorOK
  <2>2. ASSUME NEW s \in kept[w]
        PROVE  /\ s \notin voided /\ Matches(q, s, voided, link) /\ InWindow(q, row[s])
               /\ times'[w][s] > 0
    <3>1. s \in Visible /\ s \in Ids
      BY DEF TypeOK, Visible
    <3>2. /\ s \notin voided /\ Matches(q, s, voided, link) /\ InWindow(q, row[s])
          /\ times[w][s] > 0 \/ Ahead(q, cur, row[s])
      BY <1>1, <1>3 DEF ClientOK, KeptOK
    <3>3. CASE Ahead(q, cur, row[s])
      <4>1. InTime(q, cur, row[s])
        BY <1>1, <1>2, <1>3, <3>1, <3>2, <3>3, TimeOfPage
      <4>2. s \in PageRows(w)
        BY <1>9, <3>1, <3>2, <4>1, SelectedFacts
      <4> QED
        BY <1>7, <3>1, <3>2, <4>2
    <3>4. CASE times[w][s] > 0
      BY <1>7, <3>1, <3>2, <3>4
    <3> QED
      BY <3>2, <3>3, <3>4
  <2>3. KeptOK(w)'
    BY <1>1, <2>2 DEF KeptOK
  <2> QED
    BY <1>8, <2>1, <2>3 DEF ClientOK
<1>10. ASSUME state'[w] = "walking",
              NEW last \in PageRows(w), \A t \in PageRows(w) : ~Before(q, last, t),
              cursor'[w] = row[last]
       PROVE  ClientOK(w)'
  <2>1. last \in Visible /\ last \in Ids /\ InWindow(q, row[last]) /\ Ahead(q, cur, row[last])
    BY <1>4
  <2>2. \A s \in Ids : Ahead(q, row[last], row[s]) <=> Before(q, last, s)
    BY <1>2, <2>1 DEF Ahead, Before
  <2>3. \A s \in Ids : times[w][s] > 0 => ~Before(q, last, s)
    <3> SUFFICES ASSUME NEW s \in Ids, times[w][s] > 0 PROVE ~Before(q, last, s)
      OBVIOUS
    <3>1. s \in Visible /\ ~Ahead(q, cur, row[s])
      BY <1>5
    <3>2. row[s] \in Nat /\ row[last] \in Nat
      BY <1>2, <2>1, <3>1
    <3> QED
      BY <1>1, <1>3, <2>1, <3>1, <3>2, QueryFields DEF Ahead, Before
  <2>4. StateOK(w)'
    BY <1>1, <1>3, <1>4, <1>5, <1>7, <1>10 DEF StateOK
  <2>5. CursorOK(w)'
    <3>1. \A s \in Ids : times'[w][s] > 0 => ~Ahead(q, row[last], row[s])
      BY <1>7, <1>10, <2>2, <2>3
    <3> QED
      BY <1>1, <1>10, <2>1, <3>1 DEF CursorOK
  <2>6. ASSUME NEW s \in kept[w]
        PROVE  /\ s \notin voided /\ Matches(q, s, voided, link) /\ InWindow(q, row[s])
               /\ times'[w][s] > 0 \/ Ahead(q, row[last], row[s])
    <3>1. s \in Visible /\ s \in Ids
      BY DEF TypeOK, Visible
    <3>2. /\ s \notin voided /\ Matches(q, s, voided, link) /\ InWindow(q, row[s])
          /\ times[w][s] > 0 \/ Ahead(q, cur, row[s])
      BY <1>1, <1>3 DEF ClientOK, KeptOK
    <3>3. CASE s \in PageRows(w)
      BY <1>7, <3>1, <3>2, <3>3
    <3>4. CASE s \notin PageRows(w) /\ Ahead(q, cur, row[s])
      <4>1. InTime(q, cur, row[s])
        BY <1>1, <1>2, <1>3, <3>1, <3>2, <3>4, TimeOfPage
      <4>2. s \in Selected(q, cur)
        BY <3>1, <3>2, <4>1, SelectedFacts
      <4>3. Before(q, last, s)
        BY <1>1, <3>4, <4>2, PageIsABeginning DEF PageRows
      <4> QED
        BY <2>2, <3>1, <3>2, <4>3
    <3>5. CASE s \notin PageRows(w) /\ times[w][s] > 0
      BY <1>7, <3>1, <3>2, <3>5
    <3> QED
      BY <3>2, <3>3, <3>4, <3>5
  <2>7. KeptOK(w)'
    BY <1>1, <1>10, <2>6 DEF KeptOK
  <2> QED
    BY <1>8, <2>4, <2>5, <2>7 DEF ClientOK
<1> QED
  BY <1>9, <1>10, PageStep

-----------------------------------------------------------------------------
LEMMA IndInvHolds == Spec => []IndInv
<1>1. Init => IndInv
  <2> SUFFICES ASSUME Init PROVE IndInv
    OBVIOUS
  <2>1. TypeOK /\ LinkOK
    BY DEF Init, TypeOK, LinkOK, Visible
  <2>2. \A w \in Walkers : ClientOK(w)
    BY DEF Init, ClientOK, StateOK, CursorOK, KeptOK, GotOK
  <2> QED
    BY <2>1, <2>2, ClientsOK
<1>2. IndInv /\ [Next]_vars => IndInv'
  <2> SUFFICES ASSUME IndInv, [Next]_vars PROVE IndInv'
    OBVIOUS
  <2>1. TypeOK /\ LinkOK /\ \A w \in Walkers : ClientOK(w)
    BY ClientsOK
  <2>2. TypeOK' /\ LinkOK'
    BY <2>1, TypeStep, LinkStep
  <2>3. ASSUME NEW w \in Walkers PROVE ClientOK(w)'
    <3>1. CASE UNCHANGED vars
      BY <2>1, <3>1, ClientUnchanged DEF vars, store
    <3>2. ASSUME NEW s \in Ids, NEW n \in Rows, Store(s, n) PROVE ClientOK(w)'
      BY <2>1, <3>2, ClientAfterStore
    <3>3. ASSUME NEW u \in Walkers, NEW q \in Queries, Ask(u, q) PROVE ClientOK(w)'
      <4>1. CASE u = w
        BY <2>1, <3>3, <4>1, ClientAfterAsk
      <4>2. CASE u # w
        BY <2>1, <3>3, <4>2, AskStep, ClientUnchanged
      <4> QED
        BY <4>1, <4>2
    <3>4. ASSUME NEW u \in Walkers, NEW q \in Queries, AskById(u, q) PROVE ClientOK(w)'
      <4>1. CASE u = w
        BY <2>1, <3>4, <4>1, ClientAfterAskById
      <4>2. CASE u # w
        BY <2>1, <3>4, <4>2, AskByIdStep, ClientUnchanged
      <4> QED
        BY <4>1, <4>2
    <3>5. ASSUME NEW u \in Walkers, Page(u) PROVE ClientOK(w)'
      <4>1. CASE u = w
        BY <2>1, <3>5, <4>1, ClientAfterPage
      <4>2. CASE u # w
        BY <2>1, <3>5, <4>2, PageStep, ClientUnchanged
      <4> QED
        BY <4>1, <4>2
    <3> QED
      BY <3>1, <3>2, <3>3, <3>4, <3>5 DEF Next, Terminated
  <2>4. \A w \in Walkers, s \in Ids : (times[w][s] \in 0 .. 2)'
    BY <2>2 DEF TypeOK
  <2> QED
    BY <2>2, <2>3, <2>4 DEF IndInv, WalkInv, ClientOK, GotOK, ReturnedOnce,
                            WalkStaysInWindow, MineSeesOnlyItsOwn, InWindow
<1> QED
  BY <1>1, <1>2, PTL DEF Spec

(* The variables of a walk and of the store have their types. *)
THEOREM TypeCorrect == Spec => []TypeOK
<1>1. IndInv => TypeOK
  BY DEF IndInv
<1> QED
  BY <1>1, IndInvHolds, PTL

(* Along `more' no statement is returned twice, whatever is stored or voided
   between two pages. *)
THEOREM NothingTwice == Spec => []ReturnedOnce
<1>1. IndInv => ReturnedOnce
  BY DEF IndInv
<1> QED
  BY <1>1, IndInvHolds, PTL

(* A walk to the end has returned all that its query selected when it began and
   ever since. *)
THEOREM NothingMissed == Spec => []CompleteWalk
<1>1. IndInv => CompleteWalk
  <2> SUFFICES ASSUME IndInv, NEW w \in Walkers, Walked(w), NEW s \in kept[w]
               PROVE  times[w][s] = 1
    BY DEF CompleteWalk
  <2>1. s \in Ids /\ times[w][s] \in 0 .. 2
    BY DEF IndInv, TypeOK, Visible
  <2>2. times[w][s] > 0
    BY DEF IndInv, WalkInv, KeptOK, Walked
  <2>3. times[w][s] <= 1
    BY <2>1 DEF IndInv, ReturnedOnce
  <2> QED
    BY <2>1, <2>2, <2>3
<1> QED
  BY <1>1, IndInvHolds, PTL

(* Every page of a walk lies between the `since' and `until' of its first
   request. *)
THEOREM InItsWindow == Spec => []WalkStaysInWindow
<1>1. IndInv => WalkStaysInWindow
  BY DEF IndInv
<1> QED
  BY <1>1, IndInvHolds, PTL

(* The scope statements/read/mine restricts every request and every page. *)
THEOREM OnlyItsOwn == Spec => []MineSeesOnlyItsOwn
<1>1. IndInv => MineSeesOnlyItsOwn
  BY DEF IndInv
<1> QED
  BY <1>1, IndInvHolds, PTL

(* What refers to a voided statement, the voiding statement first, is selected
   by a filter on an agent that the voided statement matches. *)
THEOREM ReferrersAreFound == Spec => []VoidedIsReachable
<1>1. IndInv => VoidedIsReachable
  <2> SUFFICES ASSUME IndInv, NEW q \in Queries, NEW t \in voided,
                      q.agent # None, q.relatedAgents, ~q.mineOnly,
                      ~q.voidings, q.activity = None, Occurs(q.agent, t)
               PROVE  LET found == Selected([q EXCEPT !.since = None, !.until = None], None)
                      IN  /\ \E v \in found : Content[v].voids /\ Content[v].ref = t
                          /\ \A s \in Visible \ voided, u \in Visible :
                               {<<s, u>>, <<u, t>>} \subseteq link => s \in found
    BY DEF VoidedIsReachable
  <2> DEFINE p == [q EXCEPT !.since = None, !.until = None]
  <2>1. /\ p.agent = q.agent /\ p.relatedAgents = q.relatedAgents /\ p.mineOnly = q.mineOnly
        /\ p.voidings = q.voidings /\ p.activity = q.activity
        /\ p.since = None /\ p.until = None
    BY QueriesAssumption DEF Query
  <2>2. t \in Ids
    BY DEF IndInv, TypeOK, Visible
  <2>3. PICK a \in Content[t].actors : q.agent \in {a.ifi} \cup a.members
    BY DEF Occurs
  <2>4. a.usage \in Usages
    BY <2>2, <2>3, ContentAssumption DEF Statement, Actor
  <2>5. <<a.usage, q.agent>> \in extractActors(t)
    BY <2>3 DEF extractActors
  <2> HIDE DEF p
  <2>6. HasContentFilter(p) /\ MatchesContent(p, t)
    BY <2>1, <2>4, <2>5 DEF HasContentFilter, MatchesContent, EffectiveAgent,
                            EffectiveRelatedAgents
  <2>7. \A s \in Visible \ voided : <<s, t>> \in link => s \in Selected(p, None)
    BY <2>1, <2>6 DEF Selected, Targeting, InTime
  <2>8. PICK v \in Visible : Content[v].voids /\ Content[v].ref = t /\ <<v, t>> \in link
    BY DEF IndInv, LinkOK
  <2>9. v \notin voided
    BY <2>8 DEF IndInv, LinkOK
  <2>10. ASSUME NEW s \in Visible \ voided, NEW u \in Visible,
                {<<s, u>>, <<u, t>>} \subseteq link
         PROVE  s \in Selected(p, None)
    <3>1. <<s, t>> \in link
      BY <2>2, <2>10 DEF IndInv, LinkOK, Visible
    <3> QED
      BY <2>7, <3>1
  <2> QED
    BY <2>7, <2>8, <2>9, <2>10 DEF p
<1> QED
  BY <1>1, IndInvHolds, PTL

=============================================================================
