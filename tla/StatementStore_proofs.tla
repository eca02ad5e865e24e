----------------------- MODULE StatementStore_proofs -----------------------
(***************************************************************************)
(* For any number of concurrent requests, of any batches over any ids:     *)
(* what an accepted POST says is stored, stored statements and their       *)
(* dependent rows never change, and links stay transitively closed.        *)
(***************************************************************************)
EXTENDS StatementStore, TLAPS

Alive(t) == Open(t) \/ Committed(t)

Looping == {"existing", "target", "void", "insert", "dependents"}
Inserting == {"insert", "dependents", "compare", "attach", "commit"}

(* Transaction t has inserted the row of i and not yet what depends on it. *)
Writing(t, i) == pc[t] = "dependents" /\ Current(t).id = i

(* The handler's transaction is open while the handler runs, and its loops
   stay inside the batch. *)
ControlOK ==
    \A t \in Txns :
        /\ Open(t) <=> pc[t] \notin {"idle", "done"}
        /\ pc[t] = "idle" <=> request[t] = None
        /\ pc[t] = "idle" => txn[t] = "none"
        /\ pc[t] \in {"idle", "existing"} => inserted[t] = {}
        /\ Alive(t) => DistinctIds(Body(t))
        /\ pc[t] \in Looping => at[t] \in DOMAIN Body(t)
        /\ pc[t] \in {"target", "void"} => IsVoiding(Current(t))
        /\ pc[t] = "void" => Current(t).ref \in Ids
        /\ answer[t] = "ok" => Committed(t)

(* A row is a statement of the request whose transaction inserted it. *)
RowOK ==
    /\ \A i \in Ids : row[i] # None =>
         /\ i \in inserted[row[i].by]
         /\ row[i].stmt.id = i
         /\ row[i].stmt \in Range(Body(row[i].by))
    /\ \A t \in Txns : Alive(t) =>
         \A i \in inserted[t] : row[i] # None /\ row[i].by = t

(* Junction rows and attachments come from the transaction that inserted the
   statement, and none is missing in the end. *)
DependentOK ==
    /\ \A i \in Ids, t \in Txns :
         <<i, t>> \in junction \cup attachment => row[i] # None /\ row[i].by = t
    /\ \A i \in Ids : row[i] # None =>
         <<i, row[i].by>> \in junction \/ Writing(row[i].by, i)
    /\ \A t \in Txns :
         /\ pc[t] = "dependents" => Current(t).id \in inserted[t]
         /\ pc[t] = "commit" \/ Committed(t) =>
              \A i \in inserted[t] : <<i, t>> \in attachment

(* Both ends of a link are complete rows, the far one stored before or with
   the near one; and links are closed, committed or not. *)
LinkOK ==
    \A i, j \in Ids : <<i, j>> \in link =>
        /\ row[i] # None /\ ~Writing(row[i].by, i)
        /\ row[j] # None /\ ~Writing(row[j].by, j)
        /\ row[j].by = row[i].by \/ Committed(row[j].by)
        /\ \A k \in Ids : <<j, k>> \in link => <<i, k>> \in link

(* A set is_voided comes from a voiding statement of the transaction's batch. *)
VoidOK ==
    \A i \in Ids : voidedBy[i] # None =>
        \E s \in Range(Body(voidedBy[i])) : IsVoiding(s) /\ s.ref = i

(* How far a POST has come with the statements of its batch. *)
Present(t, k) == Visible(t, Body(t)[k].id)
AsSent(t, k) == Present(t, k) /\ statementsMatch(Body(t)[k].id, Body(t)[k])

PostAt(t) ==
    Alive(t) /\ request[t].method = "POST" =>
        /\ pc[t] = "insert" => \A k \in DOMAIN Body(t) : k < at[t] => Present(t, k)
        /\ pc[t] = "dependents" => \A k \in DOMAIN Body(t) : k <= at[t] => Present(t, k)
        /\ pc[t] = "compare" => \A k \in DOMAIN Body(t) : Present(t, k)
        /\ pc[t] \in {"attach", "commit"} \/ Committed(t) =>
             \A k \in DOMAIN Body(t) : AsSent(t, k)

PostOK == \A t \in Txns : PostAt(t)

(* The same of its voidings: the target is voided by this transaction or by a
   committed one. *)
Effective(t, k) ==
    LET s == Body(t)[k] IN
      IsVoiding(s) /\ s.ref \in presentAt[t] =>
          voidedBy[s.ref] # None /\ Sees(t, voidedBy[s.ref])

VoidingAt(t) ==
    /\ \A i \in presentAt[t] : Stored(i)
    /\ Alive(t) /\ request[t].method = "POST" =>
         /\ pc[t] # "existing"
         /\ pc[t] \in {"target", "void"} =>
              \A k \in DOMAIN Body(t) : k < at[t] => Effective(t, k)
         /\ pc[t] \in Inserting \/ Committed(t) =>
              \A k \in DOMAIN Body(t) : Effective(t, k)

VoidingOK == \A t \in Txns : VoidingAt(t)

IndInv ==
    /\ TypeOK /\ ControlOK /\ RowOK /\ DependentOK /\ LinkOK
    /\ VoidOK /\ PostOK /\ VoidingOK

-----------------------------------------------------------------------------
(* Requests and the loops over their batches. *)

LEMMA RequestShape ==
    ASSUME NEW q \in Requests
    PROVE  /\ q \in [method: {"POST", "PUT"}, body: Seq(Statement)]
           /\ q.method \in {"POST", "PUT"}
           /\ Len(q.body) \in Nat
           /\ DOMAIN q.body = 1 .. Len(q.body)
           /\ \A k \in DOMAIN q.body : q.body[k] \in Statement
           /\ q.method = "PUT" => Len(q.body) = 1
           /\ q # None
  BY RequestsAssumption, NoneAssumption

LEMMA InsertFromGoes ==
    ASSUME NEW t, NEW q \in Requests, NEW k \in Nat \ {0}, InsertFrom(t, q, k)
    PROVE  \E label \in {"insert", "compare", "attach"}, j \in Nat :
             /\ Goto(t, label, j)
             /\ label = "insert" => j = k /\ j \in DOMAIN q.body
             /\ label # "insert" => \A i \in DOMAIN q.body : i < k
             /\ q.method = "POST" => label # "attach"
  BY RequestShape DEF InsertFrom

LEMMA VoidFromGoes ==
    ASSUME NEW t, NEW q \in Requests, NEW k \in Nat \ {0}, VoidFrom(t, q, k)
    PROVE  \E label \in {"target", "insert", "compare", "attach"}, j \in Nat :
             /\ Goto(t, label, j)
             /\ label = "target" => j \in DOMAIN q.body /\ IsVoiding(q.body[j])
             /\ \A i \in DOMAIN q.body :
                  i >= k /\ (label = "target" => i < j) => ~IsVoiding(q.body[i])
             /\ label = "insert" => j = 1 /\ j \in DOMAIN q.body
             /\ label \in {"compare", "attach"} => DOMAIN q.body = {}
             /\ q.method = "POST" => label # "attach"
<1>1. CASE VoidingsFrom(q.body, k) = {} /\ InsertFrom(t, q, 1)
  <2>1. \A i \in DOMAIN q.body : i >= k => ~IsVoiding(q.body[i])
    BY <1>1, RequestShape DEF VoidingsFrom
  <2>2. PICK label \in {"insert", "compare", "attach"}, j \in Nat :
             /\ Goto(t, label, j)
             /\ label = "insert" => j = 1 /\ j \in DOMAIN q.body
             /\ label # "insert" => \A i \in DOMAIN q.body : i < 1
             /\ q.method = "POST" => label # "attach"
    BY <1>1, InsertFromGoes
  <2>3. label # "insert" => DOMAIN q.body = {}
    BY <2>2, RequestShape
  <2> QED
    BY <2>1, <2>2, <2>3
<1>2. ASSUME NEW j \in VoidingsFrom(q.body, k),
             \A i \in VoidingsFrom(q.body, k) : j <= i,
             Goto(t, "target", j)
      PROVE  /\ j \in Nat /\ j \in DOMAIN q.body /\ IsVoiding(q.body[j])
             /\ \A i \in DOMAIN q.body : i >= k /\ i < j => ~IsVoiding(q.body[i])
  BY <1>2, RequestShape DEF VoidingsFrom
<1> QED
  BY <1>1, <1>2 DEF VoidFrom

-----------------------------------------------------------------------------
(* What a step of one request does for another one: rows and voidings it sees
   stay. *)

LEMMA PostAtOther ==
    ASSUME NEW u \in Txns, PostAt(u),
           request'[u] = request[u], pc'[u] = pc[u], at'[u] = at[u],
           txn'[u] = txn[u],
           \A i \in Ids : Visible(u, i) => Visible(u, i)' /\ row'[i] = row[i],
           \A k \in DOMAIN Body(u) : Body(u)[k].id \in Ids
    PROVE  PostAt(u)'
<1>1. Body(u)' = Body(u) /\ (Alive(u)' <=> Alive(u)) /\ (Committed(u)' <=> Committed(u))
  BY DEF Body, Alive, Open, Committed
<1>2. ASSUME NEW k \in DOMAIN Body(u)
      PROVE  (Present(u, k) => Present(u, k)') /\ (AsSent(u, k) => AsSent(u, k)')
  BY <1>1 DEF Present, AsSent, statementsMatch
<1>3. SUFFICES ASSUME Alive(u)', request[u].method = "POST"
      PROVE  /\ pc[u] = "insert" => \A k \in DOMAIN Body(u) : k < at[u] => Present(u, k)'
             /\ pc[u] = "dependents" => \A k \in DOMAIN Body(u) : k <= at[u] => Present(u, k)'
             /\ pc[u] = "compare" => \A k \in DOMAIN Body(u) : Present(u, k)'
             /\ pc[u] \in {"attach", "commit"} \/ Committed(u) =>
                  \A k \in DOMAIN Body(u) : AsSent(u, k)'
  BY <1>1, Zenon DEF PostAt
<1>4. Alive(u)
  BY <1>1, <1>3
<1>5. /\ pc[u] = "insert" => \A k \in DOMAIN Body(u) : k < at[u] => Present(u, k)
      /\ pc[u] = "dependents" => \A k \in DOMAIN Body(u) : k <= at[u] => Present(u, k)
      /\ pc[u] = "compare" => \A k \in DOMAIN Body(u) : Present(u, k)
      /\ pc[u] \in {"attach", "commit"} \/ Committed(u) =>
           \A k \in DOMAIN Body(u) : AsSent(u, k)
  BY <1>3, <1>4, Zenon DEF PostAt
<1> QED
  BY <1>2, <1>5

LEMMA VoidingAtOther ==
    ASSUME NEW u \in Txns, VoidingAt(u),
           request'[u] = request[u], pc'[u] = pc[u], at'[u] = at[u],
           txn'[u] = txn[u], presentAt'[u] = presentAt[u],
           presentAt[u] \subseteq Ids,
           \A i \in Ids : Stored(i) => Stored(i)',
           \A i \in Ids : voidedBy[i] # None /\ Sees(u, voidedBy[i]) =>
                            voidedBy'[i] # None /\ Sees(u, voidedBy[i])'
    PROVE  VoidingAt(u)'
<1>1. Body(u)' = Body(u) /\ (Alive(u)' <=> Alive(u)) /\ (Committed(u)' <=> Committed(u))
  BY DEF Body, Alive, Open, Committed
<1>2. \A k \in DOMAIN Body(u) : Effective(u, k) => Effective(u, k)'
  BY <1>1 DEF Effective
<1> QED
  BY <1>1, <1>2 DEF VoidingAt

LEMMA BodyShape ==
    ASSUME TypeOK, ControlOK, NEW t \in Txns, pc[t] # "idle"
    PROVE  /\ request[t] \in Requests
           /\ Body(t) \in Seq(Statement)
           /\ \A k \in DOMAIN Body(t) : k \in Nat \ {0} /\ Body(t)[k] \in Statement
  BY RequestShape DEF TypeOK, ControlOK, Body

-----------------------------------------------------------------------------
(* The steps of a request, by the tables they write. *)

Move(t, label, k) ==
    Goto(t, label, k) /\ UNCHANGED <<request, inserted, answer, txn, presentAt, tables>>

LEMMA RollbackKeeps ==
    ASSUME IndInv, NEW t \in Txns, Open(t),
           NEW response \in {"conflict", "rejected", "failed"}, Rollback(t, response)
    PROVE  IndInv'
<1> USE DEF IndInv, Open, Committed, Alive
<1>a. /\ txn' = [txn EXCEPT ![t] = "aborted"]
      /\ answer' = [answer EXCEPT ![t] = response]
      /\ pc' = [pc EXCEPT ![t] = "done"]
      /\ at' = [at EXCEPT ![t] = 0]
      /\ UNCHANGED <<request, inserted, presentAt>>
  BY DEF Rollback, Finish, Goto
<1>b. /\ row' = [i \in Ids |-> IF row[i] # None /\ row[i].by = t THEN None ELSE row[i]]
      /\ voidedBy' = [i \in Ids |-> IF voidedBy[i] = t THEN None ELSE voidedBy[i]]
      /\ link' = {l \in link : row'[l[1]] # None}
      /\ junction' = {j \in junction : j[2] # t}
      /\ attachment' = {a \in attachment : a[2] # t}
      /\ touched' = {a \in touched : a[2] # t}
  BY DEF Rollback
<1>1. TypeOK'
  BY <1>a, <1>b DEF TypeOK, Label
<1>2. ControlOK'
  BY <1>a DEF ControlOK, TypeOK, Body, Current, Looping
<1>3. RowOK'
  BY <1>a, <1>b DEF RowOK, TypeOK, Body
<1>4. DependentOK'
  BY <1>a, <1>b DEF DependentOK, TypeOK, Body, Writing, Current
<1>5. LinkOK'
  <2> SUFFICES ASSUME NEW i \in Ids, NEW j \in Ids, <<i, j>> \in link'
               PROVE  /\ row'[i] # None /\ ~Writing(row[i].by, i)'
                      /\ row'[j] # None /\ ~Writing(row[j].by, j)'
                      /\ row'[j].by = row'[i].by \/ Committed(row[j].by)'
                      /\ \A k \in Ids : <<j, k>> \in link' => <<i, k>> \in link'
    BY DEF LinkOK
  <2>1. <<i, j>> \in link /\ row'[i] # None
    BY <1>b
  <2>2. row[i] # None /\ row[i].by # t /\ row'[i] = row[i]
    BY <1>b, <2>1
  <2>3. row[j] # None /\ row[j].by # t /\ row'[j] = row[j]
    BY <1>b, <2>1, <2>2 DEF LinkOK
  <2>4. row[i].by \in Txns /\ row[j].by \in Txns
    BY <2>2, <2>3 DEF TypeOK
  <2>5. \A u \in Txns : u # t => pc'[u] = pc[u] /\ at'[u] = at[u] /\ txn'[u] = txn[u]
    BY <1>a DEF TypeOK
  <2>6. \A k \in Ids : <<j, k>> \in link' => <<i, k>> \in link'
    BY <1>b, <2>1 DEF LinkOK
  <2>7. ~Writing(row[i].by, i) /\ ~Writing(row[j].by, j)
    BY <2>1 DEF LinkOK
  <2>8. ~Writing(row[i].by, i)' /\ ~Writing(row[j].by, j)'
    BY <1>a, <2>2, <2>3, <2>4, <2>5, <2>7 DEF Writing, Current, Body
  <2>9. row'[j].by = row'[i].by \/ Committed(row[j].by)'
    BY <2>1, <2>2, <2>3, <2>4, <2>5 DEF LinkOK
  <2> QED
    BY <2>1, <2>2, <2>3, <2>6, <2>8, <2>9
<1>6. VoidOK'
  BY <1>a, <1>b DEF VoidOK, TypeOK, Body
<1>c. ASSUME NEW u \in Txns, u # t
      PROVE  /\ request'[u] = request[u] /\ pc'[u] = pc[u] /\ at'[u] = at[u]
             /\ txn'[u] = txn[u] /\ presentAt'[u] = presentAt[u]
             /\ \A i \in Ids : Visible(u, i) => Visible(u, i)' /\ row'[i] = row[i]
             /\ \A i \in Ids : voidedBy[i] # None /\ Sees(u, voidedBy[i]) =>
                               voidedBy'[i] # None /\ Sees(u, voidedBy[i])'
  BY <1>a, <1>b, <1>c DEF TypeOK, Visible, Sees
<1>d. \A i \in Ids : Stored(i) => Stored(i)'
  BY <1>a, <1>b DEF TypeOK, Stored
<1>7. PostOK'
  <2> SUFFICES ASSUME NEW u \in Txns, Alive(u)' PROVE PostAt(u)'
    BY DEF PostOK, PostAt
  <2>1. u # t
    BY <1>a DEF TypeOK
  <2>2. pc[u] # "idle"
    BY <2>1, <1>a DEF ControlOK, TypeOK
  <2> QED
    BY <2>1, <2>2, <1>c, BodyShape, PostAtOther DEF PostOK, Statement
<1>8. VoidingOK'
  <2> SUFFICES ASSUME NEW u \in Txns PROVE VoidingAt(u)'
    BY DEF VoidingOK
  <2>1. CASE u = t
    BY <2>1, <1>a, <1>d DEF VoidingOK, VoidingAt, TypeOK
  <2>2. CASE u # t
    BY <2>2, <1>c, <1>d, VoidingAtOther DEF VoidingOK, TypeOK
  <2> QED
    BY <2>1, <2>2
<1> QED
  BY <1>1, <1>2, <1>3, <1>4, <1>5, <1>6, <1>7, <1>8

(* Every other step leaves the rows and voidings it finds alone. *)
Grows(t) ==
    /\ \A i \in Ids : row[i] # None => row'[i] = row[i]
    /\ \A i \in Ids : voidedBy[i] # None => voidedBy'[i] = voidedBy[i]
    /\ \A u \in Txns \ {t} :
         /\ request'[u] = request[u] /\ pc'[u] = pc[u] /\ at'[u] = at[u]
         /\ txn'[u] = txn[u] /\ presentAt'[u] = presentAt[u]

LEMMA StoredKept ==
    ASSUME IndInv, NEW t \in Txns, ~Committed(t), Grows(t)
    PROVE  \A i \in Ids : Stored(i) => Stored(i)'
  BY DEF IndInv, TypeOK, Grows, Stored, Committed

LEMMA OthersKept ==
    ASSUME IndInv, NEW t \in Txns, ~Committed(t), Grows(t),
           NEW u \in Txns, u # t
    PROVE  PostAt(u)' /\ VoidingAt(u)'
<1> USE DEF IndInv
<1>1. /\ request'[u] = request[u] /\ pc'[u] = pc[u] /\ at'[u] = at[u]
      /\ txn'[u] = txn[u] /\ presentAt'[u] = presentAt[u]
  BY DEF Grows
<1>2. \A i \in Ids : Visible(u, i) => Visible(u, i)' /\ row'[i] = row[i]
  BY DEF Grows, Visible, Sees, Committed, TypeOK
<1>3. \A i \in Ids : voidedBy[i] # None /\ Sees(u, voidedBy[i]) =>
                     voidedBy'[i] # None /\ Sees(u, voidedBy[i])'
  BY DEF Grows, Sees, Committed, TypeOK
<1>4. PostAt(u)'
  <2>1. CASE pc[u] = "idle"
    BY <2>1, <1>1 DEF PostAt, ControlOK, Alive, Open, Committed
  <2>2. CASE pc[u] # "idle"
    BY <2>2, <1>1, <1>2, BodyShape, PostAtOther DEF PostOK, Statement
  <2> QED
    BY <2>1, <2>2
<1>5. VoidingAt(u)'
  BY <1>1, <1>3, StoredKept, VoidingAtOther DEF VoidingOK, TypeOK
<1> QED
  BY <1>4, <1>5

(* A step of the handler's own, with no query that writes. *)
LEMMA MoveKeeps ==
    ASSUME IndInv, NEW t \in Txns, Open(t),
           NEW label \in Label \ {"idle", "done", "existing", "dependents"}, NEW k \in Nat,
           Move(t, label, k), pc[t] # "dependents",
           label \in Looping => k \in DOMAIN Body(t),
           label \in {"target", "void"} => IsVoiding(Body(t)[k]),
           label = "void" => Body(t)[k].ref \in Ids,
           label = "commit" => \A i \in inserted[t] : <<i, t>> \in attachment,
           PostAt(t)', VoidingAt(t)'
    PROVE  IndInv'
<1> USE DEF IndInv, Open, Committed, Alive
<1>a. /\ pc' = [pc EXCEPT ![t] = label]
      /\ at' = [at EXCEPT ![t] = k]
      /\ UNCHANGED <<request, inserted, answer, txn, presentAt,
                     row, voidedBy, link, junction, attachment, touched>>
  BY DEF Move, Goto, tables
<1>b. Grows(t)
  BY <1>a DEF Grows, TypeOK
<1>1. TypeOK'
  BY <1>a DEF TypeOK
<1>2. ControlOK'
  BY <1>a DEF ControlOK, TypeOK, Body, Current, Looping
<1>3. RowOK'
  BY <1>a DEF RowOK, TypeOK, Body
<1>4. DependentOK'
  BY <1>a DEF DependentOK, TypeOK, Body, Writing, Current
<1>5. LinkOK'
  <2>1. \A i \in Ids : row[i] # None /\ ~Writing(row[i].by, i) =>
                       row'[i] # None /\ ~Writing(row[i].by, i)'
    BY <1>a DEF TypeOK, Writing, Current, Body
  <2> QED
    BY <1>a, <2>1 DEF LinkOK
<1>6. VoidOK'
  BY <1>a DEF VoidOK, TypeOK, Body
<1>7. PostOK'
  BY <1>b, OthersKept DEF PostOK
<1>8. VoidingOK'
  BY <1>b, OthersKept DEF VoidingOK
<1> QED
  BY <1>1, <1>2, <1>3, <1>4, <1>5, <1>6, <1>7, <1>8

LEMMA CommitKeeps ==
    ASSUME IndInv, NEW t \in Txns, pc[t] = "commit",
           NEW response \in {"ok", "failed"},
           Finish(t, "committed", response), UNCHANGED tables
    PROVE  IndInv'
<1> USE DEF IndInv, Open, Committed, Alive
<1>a. /\ txn' = [txn EXCEPT ![t] = "committed"]
      /\ answer' = [answer EXCEPT ![t] = response]
      /\ pc' = [pc EXCEPT ![t] = "done"]
      /\ at' = [at EXCEPT ![t] = 0]
      /\ UNCHANGED <<request, inserted, presentAt,
                     row, voidedBy, link, junction, attachment, touched>>
  BY DEF Finish, Goto, tables
<1>b. Open(t) /\ Grows(t)
  BY <1>a DEF Grows, TypeOK, ControlOK
<1>1. TypeOK'
  BY <1>a, <1>b DEF TypeOK, Label
<1>2. ControlOK'
  BY <1>a, <1>b DEF ControlOK, TypeOK, Body, Current, Looping
<1>3. RowOK'
  BY <1>a, <1>b DEF RowOK, TypeOK, Body
<1>4. DependentOK'
  BY <1>a, <1>b DEF DependentOK, TypeOK, Body, Writing, Current
<1>5. LinkOK'
  <2>1. \A i \in Ids : row[i] # None /\ ~Writing(row[i].by, i) =>
                       row'[i] # None /\ ~Writing(row[i].by, i)'
    BY <1>a DEF TypeOK, Writing, Current, Body
  <2>2. \A i \in Ids : row[i] # None /\ Committed(row[i].by) => Committed(row[i].by)'
    BY <1>a DEF TypeOK
  <2> QED
    BY <1>a, <2>1, <2>2 DEF LinkOK, TypeOK
<1>6. VoidOK'
  BY <1>a DEF VoidOK, TypeOK, Body
<1>7. PostOK'
  <2>1. PostAt(t)'
    <3>1. Body(t)' = Body(t) /\ pc'[t] = "done" /\ request'[t] = request[t]
      BY <1>a DEF Body, TypeOK
    <3>2. ASSUME NEW k \in DOMAIN Body(t), AsSent(t, k) PROVE AsSent(t, k)'
      BY <1>a, <3>1, <3>2 DEF AsSent, Present, Visible, Sees, statementsMatch, TypeOK
    <3> QED
      BY <1>b, <3>1, <3>2 DEF PostAt, PostOK
  <2> QED
    BY <1>b, <2>1, OthersKept DEF PostOK
<1>8. VoidingOK'
  <2>1. VoidingAt(t)'
    <3>1. /\ Body(t)' = Body(t) /\ pc'[t] = "done" /\ request'[t] = request[t]
          /\ presentAt'[t] = presentAt[t]
      BY <1>a DEF Body, TypeOK
    <3>2. ASSUME NEW k \in DOMAIN Body(t), Effective(t, k) PROVE Effective(t, k)'
      BY <1>a, <3>1, <3>2 DEF Effective, Sees, TypeOK
    <3>3. \A i \in presentAt[t] : Stored(i)'
      BY <1>b, StoredKept DEF VoidingOK, VoidingAt, TypeOK
    <3> QED
      BY <1>b, <3>1, <3>2, <3>3 DEF VoidingAt, VoidingOK, Inserting
  <2> QED
    BY <1>b, <2>1, OthersKept DEF VoidingOK
<1> QED
  BY <1>1, <1>2, <1>3, <1>4, <1>5, <1>6, <1>7, <1>8

LEMMA ReceiveKeeps ==
    ASSUME IndInv, NEW t \in Txns, NEW q \in Requests, Receive(t, q)
    PROVE  IndInv'
<1> USE DEF IndInv, Open, Committed, Alive
<1>0. /\ pc[t] = "idle" /\ txn[t] = "none" /\ inserted[t] = {} /\ answer[t] # "ok"
      /\ q # None
  BY RequestShape DEF Receive, ControlOK
<1>1. PICK label \in {"existing", "target", "insert", "compare", "attach", "done"},
           k \in Nat :
         /\ Goto(t, label, k)
         /\ label \in Looping => k \in DOMAIN q.body
         /\ label = "target" => IsVoiding(q.body[k])
         /\ q.method = "POST" => label \notin {"existing", "attach"}
         /\ label \in {"insert", "target"} => \A j \in DOMAIN q.body :
                (j < k /\ label = "target") \/ label = "insert" => ~IsVoiding(q.body[j])
         /\ label = "insert" => k = 1
         /\ label \in {"compare", "attach"} => DOMAIN q.body = {}
         /\ label = "done" => txn' = txn /\ answer' = [answer EXCEPT ![t] = "rejected"]
         /\ label # "done" => /\ txn' = [txn EXCEPT ![t] = "open"]
                              /\ DistinctIds(q.body) /\ answer' = answer
  <2>1. CASE ~DistinctIds(q.body)
    BY <2>1 DEF Receive, Looping
  <2>2. CASE DistinctIds(q.body) /\ q.method = "PUT"
    BY <2>2, RequestShape DEF Receive, Looping
  <2>3. CASE DistinctIds(q.body) /\ q.method # "PUT"
    <3>1. VoidFrom(t, q, 1) /\ txn' = [txn EXCEPT ![t] = "open"] /\ answer' = answer
      BY <2>3 DEF Receive
    <3>2. q.method = "POST" /\ \A i \in DOMAIN q.body : i \in Nat /\ i >= 1
      BY <2>3, RequestShape
    <3>3. PICK label \in {"target", "insert", "compare", "attach"}, j \in Nat :
             /\ Goto(t, label, j)
             /\ label = "target" => j \in DOMAIN q.body /\ IsVoiding(q.body[j])
             /\ \A i \in DOMAIN q.body :
                  i >= 1 /\ (label = "target" => i < j) => ~IsVoiding(q.body[i])
             /\ label = "insert" => j = 1 /\ j \in DOMAIN q.body
             /\ label \in {"compare", "attach"} => DOMAIN q.body = {}
             /\ q.method = "POST" => label # "attach"
      BY <3>1, VoidFromGoes
    <3> QED
      BY <2>3, <3>1, <3>2, <3>3 DEF Looping
  <2> QED
    BY <2>1, <2>2, <2>3
<1>a. /\ request' = [request EXCEPT ![t] = q]
      /\ presentAt' = [presentAt EXCEPT ![t] =
                         {i \in Ids : row[i] # None /\ Committed(row[i].by)}]
      /\ pc' = [pc EXCEPT ![t] = label]
      /\ at' = [at EXCEPT ![t] = k]
      /\ UNCHANGED <<inserted, row, voidedBy, link, junction, attachment, touched>>
  BY <1>1 DEF Receive, Goto, tables
<1>b. Grows(t)
  BY <1>a, <1>1 DEF Grows, TypeOK
<1>c. \A u \in Txns : /\ u # t => txn'[u] = txn[u] /\ answer'[u] = answer[u]
                      /\ u = t => /\ txn'[u] = IF label = "done" THEN "none" ELSE "open"
                                  /\ answer'[u] # "ok"
  BY <1>0, <1>1 DEF TypeOK
<1>2. TypeOK'
  BY <1>0, <1>a, <1>1, <1>c DEF TypeOK, Label
<1>3. ControlOK'
  BY <1>0, <1>a, <1>1, <1>c DEF ControlOK, TypeOK, Body, Current, Looping
<1>d. \A i \in Ids : /\ row[i] # None => row[i].by \in Txns /\ row[i].by # t
                     /\ voidedBy[i] # None => voidedBy[i] \in Txns /\ voidedBy[i] # t
  BY <1>0 DEF TypeOK
<1>4. RowOK'
  BY <1>0, <1>a, <1>c, <1>d DEF RowOK, TypeOK, Body
<1>5. DependentOK'
  BY <1>0, <1>1, <1>a, <1>c, <1>d DEF DependentOK, TypeOK, Body, Writing, Current
<1>6. LinkOK'
  <2>1. \A i \in Ids : row[i] # None /\ ~Writing(row[i].by, i) =>
                       row'[i] # None /\ ~Writing(row[i].by, i)'
    BY <1>a, <1>d DEF TypeOK, Writing, Current, Body
  <2>2. \A i \in Ids : row[i] # None /\ Committed(row[i].by) => Committed(row[i].by)'
    BY <1>a, <1>c, <1>d
  <2> QED
    BY <1>a, <2>1, <2>2 DEF LinkOK, TypeOK
<1>7. VoidOK'
  BY <1>a, <1>d DEF VoidOK, TypeOK, Body
<1>8. PostOK'
  <2>1. PostAt(t)'
    <3>1. Body(t)' = q.body /\ pc'[t] = label /\ at'[t] = k /\ request'[t] = q
      BY <1>a DEF Body, TypeOK
    <3> QED
      BY <1>1, <1>c, <3>1, RequestShape DEF PostAt
  <2> QED
    BY <1>0, <1>b, <2>1, OthersKept DEF PostOK
<1>9. VoidingOK'
  <2>1. VoidingAt(t)'
    <3>1. /\ Body(t)' = q.body /\ pc'[t] = label /\ at'[t] = k /\ request'[t] = q
          /\ presentAt'[t] = {i \in Ids : Stored(i)}
      BY <1>a DEF Body, TypeOK, Stored
    <3>2. \A i \in presentAt'[t] : Stored(i)'
      BY <1>0, <1>b, <3>1, StoredKept
    <3>3. ASSUME NEW j \in DOMAIN q.body, ~IsVoiding(q.body[j]) PROVE Effective(t, j)'
      BY <3>1, <3>3 DEF Effective
    <3> QED
      BY <1>1, <1>c, <3>1, <3>2, <3>3 DEF VoidingAt, Inserting
  <2> QED
    BY <1>0, <1>b, <2>1, OthersKept DEF VoidingOK
<1> QED
  BY <1>2, <1>3, <1>4, <1>5, <1>6, <1>7, <1>8, <1>9

LEMMA VoidTargetKeeps ==
    ASSUME IndInv, NEW t \in Txns, VoidTarget(t)
    PROVE  IndInv'
<1> USE DEF IndInv, Open, Committed, Alive
<1>0. /\ pc[t] = "void" /\ Open(t) /\ at[t] \in DOMAIN Body(t) /\ at[t] + 1 \in Nat \ {0}
      /\ request[t] \in Requests /\ Current(t) \in Statement
      /\ Current(t) = Body(t)[at[t]] /\ IsVoiding(Current(t)) /\ Current(t).ref \in Ids
  BY BodyShape DEF VoidTarget, ControlOK, TypeOK, Looping, Current
<1> DEFINE ref == Current(t).ref
<1>1. PICK label \in {"target", "insert", "compare", "attach"}, k \in Nat :
             /\ Goto(t, label, k)
             /\ label = "target" => k \in DOMAIN Body(t) /\ IsVoiding(Body(t)[k])
             /\ \A i \in DOMAIN Body(t) :
                  i >= at[t] + 1 /\ (label = "target" => i < k) => ~IsVoiding(Body(t)[i])
             /\ label = "insert" => k = 1 /\ k \in DOMAIN Body(t)
             /\ label \in {"compare", "attach"} => DOMAIN Body(t) = {}
             /\ request[t].method = "POST" => label # "attach"
  <2>1. VoidFrom(t, request[t], at[t] + 1)
    BY DEF VoidTarget
  <2> QED
    BY <1>0, <2>1, VoidFromGoes DEF Body
<1>a. /\ pc' = [pc EXCEPT ![t] = label]
      /\ at' = [at EXCEPT ![t] = k]
      /\ UNCHANGED <<request, inserted, answer, txn, presentAt,
                     row, link, junction, attachment, touched>>
  BY <1>1 DEF VoidTarget, Goto
<1>b. voidedBy' = IF Visible(t, ref) /\ voidedBy[ref] = None
                  THEN [voidedBy EXCEPT ![ref] = t] ELSE voidedBy
  BY DEF VoidTarget, voidStatement
<1>c. Grows(t)
  BY <1>0, <1>a, <1>b DEF Grows, TypeOK
<1>d. Visible(t, ref) => voidedBy'[ref] # None /\ (voidedBy'[ref] = t \/ Committed(voidedBy'[ref]))
  <2>1. Visible(t, ref) => VoidBlockers(t, ref) = {}
    BY <1>0 DEF VoidTarget, WaitsFor
  <2> QED
    BY <1>0, <1>b, <2>1, NoneAssumption DEF VoidBlockers, TypeOK
<1>2. TypeOK'
  BY <1>0, <1>a, <1>b DEF TypeOK, Label
<1>3. ControlOK'
  BY <1>0, <1>1, <1>a DEF ControlOK, TypeOK, Body, Current, Looping
<1>4. RowOK'
  BY <1>a DEF RowOK, TypeOK, Body
<1>5. DependentOK'
  BY <1>0, <1>a DEF DependentOK, TypeOK, Body, Writing, Current
<1>6. LinkOK'
  <2>1. \A i \in Ids : row[i] # None /\ ~Writing(row[i].by, i) =>
                       row'[i] # None /\ ~Writing(row[i].by, i)'
    BY <1>a DEF TypeOK, Writing, Current, Body
  <2> QED
    BY <1>a, <2>1 DEF LinkOK
<1>7. VoidOK'
  <2>1. Current(t) \in Range(Body(t))
    BY <1>0 DEF Range
  <2> QED
    BY <1>0, <1>a, <1>b, <2>1 DEF VoidOK, TypeOK, Body
<1>8. PostOK'
  <2>1. PostAt(t)'
    <3>1. Body(t)' = Body(t) /\ pc'[t] = label /\ at'[t] = k /\ txn'[t] = "open"
      BY <1>0, <1>a DEF Body, TypeOK
    <3>2. \A j \in DOMAIN Body(t) : j \in Nat /\ ~(j < 1)
      BY <1>0, RequestShape DEF Body
    <3> QED
      BY <1>1, <1>a, <3>1, <3>2 DEF PostAt
  <2> QED
    BY <1>0, <1>c, <2>1, OthersKept DEF PostOK
<1>9. VoidingOK'
  <2>1. VoidingAt(t)'
    <3>1. /\ Body(t)' = Body(t) /\ pc'[t] = label /\ at'[t] = k /\ txn'[t] = "open"
          /\ request'[t] = request[t] /\ presentAt'[t] = presentAt[t]
          /\ presentAt[t] \subseteq Ids
      BY <1>0, <1>a DEF Body, TypeOK
    <3>2. \A i \in presentAt[t] : Stored(i) /\ Stored(i)'
      BY <1>0, <1>c, <3>1, StoredKept DEF VoidingOK, VoidingAt
    <3>3. ASSUME NEW j \in DOMAIN Body(t), request[t].method = "POST",
                 label = "target" => j < k
          PROVE  Effective(t, j)'
      <4>1. CASE j < at[t]
        <5>1. Effective(t, j)
          BY <1>0, <3>3, <4>1 DEF VoidingOK, VoidingAt
        <5> QED
          BY <1>a, <1>c, <3>1, <5>1 DEF Effective, Sees, Grows
      <4>2. CASE j = at[t]
        <5>1. ref \in presentAt[t] => Visible(t, ref)
          BY <3>2 DEF Stored, Visible, Sees
        <5> QED
          BY <1>0, <1>a, <1>d, <3>1, <4>2, <5>1 DEF Effective, Sees
      <4>3. CASE j > at[t]
        <5>1. j >= at[t] + 1
          BY <1>0, <4>3, BodyShape
        <5> QED
          BY <1>1, <3>1, <3>3, <5>1 DEF Effective
      <4> QED
        BY <1>0, <4>1, <4>2, <4>3, RequestShape DEF Body
    <3> QED
      BY <1>1, <3>1, <3>2, <3>3 DEF VoidingAt, Inserting
  <2> QED
    BY <1>0, <1>c, <2>1, OthersKept DEF VoidingOK
<1> QED
  BY <1>2, <1>3, <1>4, <1>5, <1>6, <1>7, <1>8, <1>9

LEMMA InsertRowKeeps ==
    ASSUME IndInv, NEW t \in Txns, InsertRow(t)
    PROVE  IndInv'
<1> USE DEF IndInv, Open, Committed, Alive
<1>0. /\ pc[t] = "insert" /\ Open(t) /\ at[t] \in DOMAIN Body(t) /\ at[t] \in Nat
      /\ request[t] \in Requests /\ Current(t) \in Statement
      /\ Current(t) = Body(t)[at[t]] /\ Current(t).id \in Ids
  BY BodyShape DEF InsertRow, ControlOK, TypeOK, Looping, Current, Statement
<1> DEFINE s == Current(t)
<1>1. CASE row[s.id] # None
  <2>1. PICK label \in {"insert", "compare", "attach"}, k \in Nat :
             /\ Goto(t, label, k)
             /\ label = "insert" => k = at[t] + 1 /\ k \in DOMAIN Body(t)
             /\ label # "insert" => \A i \in DOMAIN Body(t) : i < at[t] + 1
             /\ request[t].method = "POST" => label # "attach"
    <3>1. InsertFrom(t, request[t], at[t] + 1) /\ at[t] + 1 \in Nat \ {0}
      BY <1>0, <1>1 DEF InsertRow
    <3> QED
      BY <1>0, <3>1, InsertFromGoes DEF Body
  <2>2. Move(t, label, k)
    BY <1>1, <2>1 DEF InsertRow, Move, tables
  <2>3. Visible(t, s.id)
    <3>1. InsertBlockers(t, s.id) = {}
      BY <1>0 DEF InsertRow, WaitsFor
    <3> QED
      BY <1>0, <1>1, <3>1 DEF InsertBlockers, Visible, Sees, TypeOK
  <2>a. /\ Body(t)' = Body(t) /\ pc'[t] = label /\ at'[t] = k
        /\ UNCHANGED <<request, txn, presentAt, row, voidedBy>>
    BY <2>2 DEF Move, Goto, Body, TypeOK, tables
  <2>4. PostAt(t)'
    <3>1. ASSUME NEW j \in DOMAIN Body(t), j < at[t] + 1, request[t].method = "POST"
          PROVE  Present(t, j)'
      <4>1. Present(t, j)
        <5>1. j \in Nat
          BY <1>0, BodyShape
        <5>2. CASE j < at[t]
          BY <1>0, <3>1, <5>2 DEF PostOK, PostAt
        <5>3. CASE j = at[t]
          BY <1>0, <2>3, <5>3 DEF Present
        <5> QED
          BY <1>0, <3>1, <5>1, <5>2, <5>3
      <4> QED
        BY <2>a, <4>1 DEF Present, Visible, Sees
    <3> QED
      BY <1>0, <2>1, <2>a, <3>1 DEF PostAt
  <2>5. VoidingAt(t)'
    <3>1. ASSUME NEW j \in DOMAIN Body(t), request[t].method = "POST"
          PROVE  Effective(t, j)'
      <4>1. Effective(t, j)
        BY <1>0, <3>1 DEF VoidingOK, VoidingAt, Inserting
      <4> QED
        BY <2>a, <4>1 DEF Effective, Sees
    <3> QED
      BY <1>0, <2>1, <2>a, <3>1 DEF VoidingOK, VoidingAt, Stored, Inserting
  <2> QED
    BY <1>0, <2>1, <2>2, <2>4, <2>5, MoveKeeps DEF Looping, Label
<1>2. CASE row[s.id] = None
  <2>a. /\ row' = [row EXCEPT ![s.id] = [stmt |-> s, by |-> t]]
        /\ inserted' = [inserted EXCEPT ![t] = @ \cup {s.id}]
        /\ pc' = [pc EXCEPT ![t] = "dependents"]
        /\ at' = [at EXCEPT ![t] = at[t]]
        /\ UNCHANGED <<request, answer, txn, presentAt,
                       voidedBy, link, junction, attachment, touched>>
    BY <1>2 DEF InsertRow, Goto
  <2>b. /\ row'[s.id].stmt = s /\ row'[s.id].by = t /\ row'[s.id] # None
        /\ row'[s.id] \in [stmt: Statement, by: Txns]
        /\ \A i \in Ids : i # s.id => row'[i] = row[i]
    BY <1>0, <2>a, NoneAssumption DEF TypeOK
  <2>c. Grows(t) /\ at' = at /\ Body(t)' = Body(t) /\ Current(t)' = Current(t)
    BY <1>0, <1>2, <2>a, <2>b DEF Grows, TypeOK, Current, Body
  <2>1. TypeOK'
    BY <1>0, <2>a, <2>b DEF TypeOK, Label
  <2>2. ControlOK'
    BY <1>0, <2>a DEF ControlOK, TypeOK, Body, Current, Looping
  <2>d. inserted'[t] = inserted[t] \cup {s.id} /\ \A u \in Txns : u # t => inserted'[u] = inserted[u]
    BY <2>a DEF TypeOK
  <2>e. ASSUME NEW i \in Ids, row[i] # None
        PROVE  /\ i # s.id /\ row'[i] = row[i] /\ row[i].by \in Txns
               /\ Writing(row[i].by, i)' => Writing(row[i].by, i)
    <3>1. i # s.id /\ row'[i] = row[i] /\ row[i].by \in Txns
      BY <1>2, <2>b, <2>e DEF TypeOK
    <3>2. CASE row[i].by = t
      BY <2>b, <2>c, <3>1, <3>2 DEF Writing
    <3>3. CASE row[i].by # t
      BY <2>a, <3>1, <3>3 DEF Writing, Current, Body, TypeOK
    <3> QED
      BY <3>1, <3>2, <3>3
  <2>3. RowOK'
    <3>1. s \in Range(Body(t))
      BY <1>0 DEF Range
    <3>2. ASSUME NEW i \in Ids, row'[i] # None
          PROVE  /\ i \in inserted'[row'[i].by]
                 /\ row'[i].stmt.id = i
                 /\ row'[i].stmt \in Range(request[row'[i].by].body)
      <4>1. CASE i = s.id
        BY <2>b, <2>d, <3>1, <4>1 DEF Body
      <4>2. CASE i # s.id
        <5>1. row'[i] = row[i] /\ row[i] # None /\ row[i].by \in Txns
          BY <2>b, <3>2, <4>2 DEF TypeOK
        <5> QED
          BY <2>d, <5>1 DEF RowOK, Body
      <4> QED
        BY <4>1, <4>2
    <3>3. ASSUME NEW u \in Txns, Alive(u), NEW i \in inserted'[u]
          PROVE  row'[i] # None /\ row'[i].by = u
      <4>1. CASE u = t /\ i = s.id
        BY <2>b, <4>1
      <4>2. CASE i \in inserted[u]
        BY <2>e, <3>3, <4>2 DEF RowOK, TypeOK
      <4> QED
        BY <2>d, <3>3, <4>1, <4>2
    <3> QED
      BY <2>a, <3>2, <3>3 DEF RowOK, Body
  <2>4. DependentOK'
    <3>1. \A i \in Ids, u \in Txns :
            <<i, u>> \in junction' \cup attachment' => row'[i] # None /\ row'[i].by = u
      BY <2>a, <2>e DEF DependentOK
    <3>2. ASSUME NEW i \in Ids, row'[i] # None
          PROVE  \/ <<i, row'[i].by>> \in junction'
                 \/ pc'[row'[i].by] = "dependents" /\ Current(row[i].by)'.id = i
      <4>1. CASE i = s.id
        BY <2>a, <2>b, <2>c, <4>1 DEF TypeOK
      <4>2. CASE i # s.id
        <5>1. row'[i] = row[i] /\ row[i] # None /\ row[i].by \in Txns
          BY <2>b, <3>2, <4>2 DEF TypeOK
        <5>2. CASE row[i].by = t
          BY <1>0, <2>a, <5>1, <5>2 DEF DependentOK, Writing
        <5>3. CASE row[i].by # t
          <6>1. /\ pc'[row[i].by] = pc[row[i].by] /\ at'[row[i].by] = at[row[i].by]
                /\ request' = request /\ junction' = junction
            BY <2>a, <5>1, <5>3 DEF TypeOK
          <6>2. <<i, row[i].by>> \in junction \/ Writing(row[i].by, i)
            BY <5>1 DEF DependentOK
          <6> QED
            BY <5>1, <6>1, <6>2 DEF Writing, Current, Body
        <5> QED
          BY <5>2, <5>3
      <4> QED
        BY <4>1, <4>2
    <3>3. ASSUME NEW u \in Txns
          PROVE  /\ pc'[u] = "dependents" => Current(u)'.id \in inserted'[u]
                 /\ pc'[u] = "commit" \/ Committed(u) =>
                      \A i \in inserted'[u] : <<i, u>> \in attachment'
      <4>1. CASE u = t
        BY <1>0, <2>a, <2>b, <2>c, <2>d, <4>1 DEF TypeOK
      <4>2. CASE u # t
        BY <2>a, <2>d, <4>2 DEF DependentOK, Current, Body, TypeOK
      <4> QED
        BY <4>1, <4>2
    <3> QED
      BY <2>a, <3>1, <3>2, <3>3 DEF DependentOK, Writing
  <2>5. LinkOK'
    <3> SUFFICES ASSUME NEW i \in Ids, NEW j \in Ids, <<i, j>> \in link
                 PROVE  /\ row'[i] # None /\ ~Writing(row[i].by, i)'
                        /\ row'[j] # None /\ ~Writing(row[j].by, j)'
                        /\ row'[j].by = row'[i].by \/ Committed(row'[j].by)
                        /\ \A k \in Ids : <<j, k>> \in link => <<i, k>> \in link
      BY <2>a DEF LinkOK
    <3>1. /\ row[i] # None /\ ~Writing(row[i].by, i)
          /\ row[j] # None /\ ~Writing(row[j].by, j)
          /\ row[j].by = row[i].by \/ Committed(row[j].by)
          /\ \A k \in Ids : <<j, k>> \in link => <<i, k>> \in link
      BY DEF LinkOK
    <3>2. row'[i] = row[i] /\ ~Writing(row[i].by, i)'
      BY <2>e, <3>1
    <3>3. row'[j] = row[j] /\ ~Writing(row[j].by, j)'
      BY <2>e, <3>1
    <3> QED
      BY <3>1, <3>2, <3>3
  <2>6. VoidOK'
    BY <2>a DEF VoidOK, TypeOK, Body
  <2>7. PostOK'
    <3>1. PostAt(t)'
      <4>1. ASSUME NEW j \in DOMAIN Body(t), j <= at[t], request[t].method = "POST"
            PROVE  Present(t, j)'
        <5>1. j \in Nat
          BY <1>0, BodyShape
        <5>2. CASE j < at[t]
          <6>1. Present(t, j)
            BY <1>0, <4>1, <5>2 DEF PostOK, PostAt
          <6> QED
            BY <1>0, <2>a, <2>c, <6>1, BodyShape DEF Present, Visible, Sees, Grows, Statement
        <5>3. CASE j = at[t]
          BY <1>0, <2>b, <2>c, <5>3 DEF Present, Visible, Sees
        <5> QED
          BY <1>0, <4>1, <5>1, <5>2, <5>3
      <4>2. pc'[t] = "dependents" /\ request'[t] = request[t] /\ txn'[t] = "open"
        BY <1>0, <2>a DEF TypeOK
      <4> QED
        BY <1>0, <2>c, <4>1, <4>2 DEF PostAt
    <3> QED
      BY <1>0, <2>c, <3>1, OthersKept DEF PostOK
  <2>8. VoidingOK'
    <3>1. VoidingAt(t)'
      <4>1. ASSUME NEW j \in DOMAIN Body(t), request[t].method = "POST"
            PROVE  Effective(t, j)'
        <5>1. Effective(t, j)
          BY <1>0, <4>1 DEF VoidingOK, VoidingAt, Inserting
        <5> QED
          BY <2>a, <2>c, <5>1 DEF Effective, Sees
      <4>2. \A i \in presentAt[t] : Stored(i)'
        BY <1>0, <2>c, StoredKept DEF VoidingOK, VoidingAt, TypeOK
      <4>3. /\ pc'[t] = "dependents" /\ request'[t] = request[t] /\ txn'[t] = "open"
            /\ presentAt'[t] = presentAt[t]
        BY <1>0, <2>a DEF TypeOK
      <4> QED
        BY <1>0, <2>c, <4>1, <4>2, <4>3 DEF VoidingAt, Inserting
    <3> QED
      BY <1>0, <2>c, <3>1, OthersKept DEF VoidingOK
  <2> QED
    BY <2>1, <2>2, <2>3, <2>4, <2>5, <2>6, <2>7, <2>8
<1> QED
  BY <1>1, <1>2

LEMMA InsertDependentsKeeps ==
    ASSUME IndInv, NEW t \in Txns, InsertDependents(t)
    PROVE  IndInv'
<1> USE DEF IndInv, Open, Committed, Alive
<1>0. /\ pc[t] = "dependents" /\ Open(t) /\ at[t] \in DOMAIN Body(t) /\ at[t] \in Nat
      /\ request[t] \in Requests /\ Current(t) \in Statement
      /\ Current(t) = Body(t)[at[t]] /\ Current(t).id \in Ids
  BY BodyShape DEF InsertDependents, ControlOK, TypeOK, Looping, Current, Statement
<1> DEFINE s == Current(t)
           D == Descendants(t, s)
<1>1. PICK label \in {"insert", "compare", "attach"}, k \in Nat :
             /\ Goto(t, label, k)
             /\ label = "insert" => k = at[t] + 1 /\ k \in DOMAIN Body(t)
             /\ label # "insert" => \A i \in DOMAIN Body(t) : i < at[t] + 1
             /\ request[t].method = "POST" => label # "attach"
  <2>1. InsertFrom(t, request[t], at[t] + 1) /\ at[t] + 1 \in Nat \ {0}
    BY <1>0 DEF InsertDependents
  <2> QED
    BY <1>0, <2>1, InsertFromGoes DEF Body
<1>a. /\ pc' = [pc EXCEPT ![t] = label]
      /\ at' = [at EXCEPT ![t] = k]
      /\ junction' = junction \cup {<<s.id, t>>}
      /\ touched' = touched \cup ({s.activity} \ {None}) \X {t}
      /\ link' = link \cup {s.id} \X D
      /\ UNCHANGED <<request, inserted, answer, txn, presentAt, row, voidedBy, attachment>>
  BY <1>1 DEF InsertDependents, Goto
<1>b. /\ Grows(t) /\ Body(t)' = Body(t) /\ pc'[t] = label /\ at'[t] = k
      /\ \A u \in Txns : u # t => pc'[u] = pc[u] /\ at'[u] = at[u]
  BY <1>a DEF Grows, TypeOK, Body
<1>c. row[s.id] # None /\ row[s.id].by = t
  BY <1>0 DEF DependentOK, RowOK
<1>d. ASSUME NEW i \in Ids, row[i] # None, Writing(row[i].by, i)'
      PROVE  i # s.id /\ Writing(row[i].by, i)
  <2>1. row[i].by \in Txns /\ row' = row /\ request' = request
    BY <1>a, <1>d DEF TypeOK
  <2>2. row[i].by # t
    BY <1>b, <1>d, <2>1 DEF Writing
  <2> QED
    BY <1>b, <1>c, <1>d, <2>1, <2>2 DEF Writing, Current, Body
<1>2. TypeOK'
  <2>1. D \subseteq Ids
    BY DEF Descendants, TypeOK
  <2>2. ({s.activity} \ {None}) \X {t} \subseteq Activities \X Txns
    BY <1>0 DEF Statement
  <2>3. touched' \in SUBSET (Activities \X Txns)
    BY <1>a, <2>2 DEF TypeOK
  <2>4. /\ link' \in SUBSET (Ids \X Ids)
        /\ junction' \in SUBSET (Ids \X Txns)
    BY <1>0, <1>a, <2>1 DEF TypeOK
  <2> QED
    BY <1>a, <2>3, <2>4 DEF TypeOK, Label
<1>3. ControlOK'
  BY <1>0, <1>1, <1>a DEF ControlOK, TypeOK, Body, Current, Looping
<1>4. RowOK'
  BY <1>a DEF RowOK, TypeOK, Body
<1>5. DependentOK'
  <2>1. ASSUME NEW i \in Ids, NEW u \in Txns, <<i, u>> \in junction' \cup attachment'
        PROVE  row'[i] # None /\ row'[i].by = u
    BY <1>a, <1>c, <2>1 DEF DependentOK
  <2>2. ASSUME NEW i \in Ids, row[i] # None
        PROVE  <<i, row[i].by>> \in junction' \/ Writing(row[i].by, i)'
    <3>1. row[i].by \in Txns /\ row' = row /\ request' = request
      BY <1>a, <2>2 DEF TypeOK
    <3>2. CASE <<i, row[i].by>> \in junction
      BY <1>a, <3>2
    <3>3. CASE Writing(row[i].by, i) /\ row[i].by = t
      BY <1>a, <3>3 DEF Writing
    <3>4. CASE Writing(row[i].by, i) /\ row[i].by # t
      BY <1>b, <3>1, <3>4 DEF Writing, Current, Body
    <3> QED
      BY <2>2, <3>2, <3>3, <3>4 DEF DependentOK
  <2>3. ASSUME NEW u \in Txns
        PROVE  /\ pc'[u] = "dependents" => Current(u)'.id \in inserted'[u]
               /\ pc'[u] = "commit" \/ Committed(u) =>
                    \A i \in inserted'[u] : <<i, u>> \in attachment'
    <3>1. CASE u = t
      BY <1>0, <1>b, <3>1
    <3>2. CASE u # t
      BY <1>a, <1>b, <3>2 DEF DependentOK, Current, Body
    <3> QED
      BY <3>1, <3>2
  <2> QED
    BY <1>a, <2>1, <2>2, <2>3 DEF DependentOK, Writing
<1>6. LinkOK'
  <2>1. ASSUME NEW j \in D
        PROVE  /\ j \in Ids /\ row[j] # None /\ ~Writing(row[j].by, j)'
               /\ row[j].by = t \/ Committed(row[j].by)
               /\ \A k2 \in Ids : <<j, k2>> \in link => k2 \in D
    <3>1. CASE j = s.ref /\ Visible(t, j) /\ j \in Ids
      <4>1. row[j] # None /\ (row[j].by = t \/ Committed(row[j].by))
        BY <3>1 DEF Visible, Sees
      <4>2. ~Writing(row[j].by, j)'
        <5>1. CASE row[j].by = t
          BY <1>a, <1>b, <5>1 DEF Writing
        <5>2. CASE Committed(row[j].by)
          BY <1>d, <3>1, <4>1, <5>2 DEF Writing, ControlOK, TypeOK
        <5> QED
          BY <4>1, <5>1, <5>2
      <4>3. \A k2 \in Ids : <<j, k2>> \in link => k2 \in D
        BY <3>1 DEF Descendants
      <4> QED
        BY <3>1, <4>1, <4>2, <4>3
    <3>2. CASE <<s.ref, j>> \in link /\ Visible(t, s.ref)
      <4>1. j \in Ids /\ s.ref \in Ids
        BY <3>2 DEF TypeOK
      <4>2. /\ row[j] # None /\ ~Writing(row[j].by, j)
            /\ row[j].by = row[s.ref].by \/ Committed(row[j].by)
            /\ \A k2 \in Ids : <<j, k2>> \in link => <<s.ref, k2>> \in link
        BY <3>2, <4>1 DEF LinkOK
      <4>3. row[j].by = t \/ Committed(row[j].by)
        BY <3>2, <4>2 DEF Visible, Sees
      <4>4. \A k2 \in Ids : <<j, k2>> \in link => k2 \in D
        <5> SUFFICES ASSUME NEW k2 \in Ids, <<j, k2>> \in link PROVE k2 \in D
          OBVIOUS
        <5>1. <<s.ref, k2>> \in {k3 \in link : k3[1] = s.ref /\ Visible(t, s.ref)}
          BY <3>2, <4>2
        <5> QED
          BY <5>1 DEF Descendants
      <4> QED
        BY <1>d, <4>1, <4>2, <4>3, <4>4
    <3> QED
      BY <2>1, <3>1, <3>2 DEF Descendants, TypeOK
  <2>2. SUFFICES ASSUME NEW i \in Ids, NEW j \in Ids, <<i, j>> \in link'
                 PROVE  /\ row[i] # None /\ ~Writing(row[i].by, i)'
                        /\ row[j] # None /\ ~Writing(row[j].by, j)'
                        /\ row[j].by = row[i].by \/ Committed(row[j].by)
                        /\ \A k2 \in Ids : <<j, k2>> \in link' => <<i, k2>> \in link'
    BY <1>a DEF LinkOK
  <2>3. CASE <<i, j>> \in link
    <3>1. /\ row[i] # None /\ ~Writing(row[i].by, i)
          /\ row[j] # None /\ ~Writing(row[j].by, j)
          /\ row[j].by = row[i].by \/ Committed(row[j].by)
          /\ \A k2 \in Ids : <<j, k2>> \in link => <<i, k2>> \in link
      BY <2>3 DEF LinkOK
    <3>2. j # s.id
      BY <1>0, <1>c, <3>1 DEF Writing
    <3>3. \A k2 \in Ids : <<j, k2>> \in link' => <<i, k2>> \in link'
      BY <1>a, <3>1, <3>2
    <3> QED
      BY <1>d, <3>1, <3>3
  <2>4. CASE <<i, j>> \notin link
    <3>1. i = s.id /\ j \in D
      BY <1>a, <2>2, <2>4
    <3>2. ~Writing(row[i].by, i)'
      BY <1>c, <1>d, <3>1
    <3>3. \A k2 \in Ids : <<j, k2>> \in link' => <<i, k2>> \in link'
      BY <1>a, <2>1, <3>1
    <3> QED
      BY <1>c, <2>1, <3>1, <3>2, <3>3
  <2> QED
    BY <2>3, <2>4
<1>7. VoidOK'
  BY <1>a DEF VoidOK, TypeOK, Body
<1>8. PostOK'
  <2>1. ASSUME NEW j \in DOMAIN Body(t), j < at[t] + 1, request[t].method = "POST"
        PROVE  Present(t, j)'
    <3>1. Present(t, j)
      <4>1. j \in Nat /\ j <= at[t]
        BY <1>0, <2>1, BodyShape
      <4> QED
        BY <1>0, <2>1, <4>1 DEF PostOK, PostAt
    <3> QED
      BY <1>a, <1>b, <3>1 DEF Present, Visible, Sees
  <2>2. PostAt(t)'
    BY <1>0, <1>1, <1>a, <1>b, <2>1 DEF PostAt
  <2> QED
    BY <1>0, <1>b, <2>2, OthersKept DEF PostOK
<1>9. VoidingOK'
  <2>1. ASSUME NEW j \in DOMAIN Body(t), request[t].method = "POST"
        PROVE  Effective(t, j)'
    <3>1. Effective(t, j)
      BY <1>0, <2>1 DEF VoidingOK, VoidingAt, Inserting
    <3> QED
      BY <1>a, <1>b, <3>1 DEF Effective, Sees
  <2>2. VoidingAt(t)'
    BY <1>0, <1>1, <1>a, <1>b, <2>1 DEF VoidingOK, VoidingAt, Stored, Inserting
  <2> QED
    BY <1>0, <1>b, <2>2, OthersKept DEF VoidingOK
<1> QED
  BY <1>2, <1>3, <1>4, <1>5, <1>6, <1>7, <1>8, <1>9

LEMMA AttachKeeps ==
    ASSUME IndInv, NEW t \in Txns, Attach(t)
    PROVE  IndInv'
<1> USE DEF IndInv, Open, Committed, Alive
<1>0. pc[t] = "attach" /\ Open(t)
  BY DEF Attach, ControlOK
<1>a. /\ pc' = [pc EXCEPT ![t] = "commit"]
      /\ at' = [at EXCEPT ![t] = 0]
      /\ attachment' = attachment \cup inserted[t] \X {t}
      /\ UNCHANGED <<request, inserted, answer, txn, presentAt,
                     row, voidedBy, link, junction, touched>>
  BY DEF Attach, Goto
<1>b. /\ Grows(t) /\ Body(t)' = Body(t) /\ pc'[t] = "commit" /\ at'[t] = 0
      /\ \A u \in Txns : u # t => pc'[u] = pc[u] /\ at'[u] = at[u]
  BY <1>a DEF Grows, TypeOK, Body
<1>1. TypeOK'
  BY <1>a DEF TypeOK, Label
<1>2. ControlOK'
  BY <1>0, <1>a DEF ControlOK, TypeOK, Body, Current, Looping
<1>3. RowOK'
  BY <1>a DEF RowOK, TypeOK, Body
<1>c. ASSUME NEW i \in Ids, row[i] # None
      PROVE  Writing(row[i].by, i)' <=> Writing(row[i].by, i)
  <2>1. row[i].by \in Txns /\ row' = row /\ request' = request
    BY <1>a, <1>c DEF TypeOK
  <2>2. CASE row[i].by = t
    BY <1>0, <1>b, <2>1, <2>2 DEF Writing
  <2>3. CASE row[i].by # t
    BY <1>b, <2>1, <2>3 DEF Writing, Current, Body
  <2> QED
    BY <2>2, <2>3
<1>4. DependentOK'
  <2>1. ASSUME NEW i \in Ids, NEW u \in Txns, <<i, u>> \in junction' \cup attachment'
        PROVE  row'[i] # None /\ row'[i].by = u
    BY <1>0, <1>a, <2>1 DEF DependentOK, RowOK
  <2>2. ASSUME NEW i \in Ids, row[i] # None
        PROVE  <<i, row[i].by>> \in junction' \/ Writing(row[i].by, i)'
    BY <1>a, <1>c, <2>2 DEF DependentOK
  <2>3. ASSUME NEW u \in Txns
        PROVE  /\ pc'[u] = "dependents" => Current(u)'.id \in inserted'[u]
               /\ pc'[u] = "commit" \/ Committed(u) =>
                    \A i \in inserted'[u] : <<i, u>> \in attachment'
    <3>1. CASE u = t
      BY <1>0, <1>a, <1>b, <3>1
    <3>2. CASE u # t
      BY <1>a, <1>b, <3>2 DEF DependentOK, Current, Body
    <3> QED
      BY <3>1, <3>2
  <2> QED
    BY <1>a, <2>1, <2>2, <2>3 DEF DependentOK, Writing
<1>5. LinkOK'
  <2> SUFFICES ASSUME NEW i \in Ids, NEW j \in Ids, <<i, j>> \in link
               PROVE  /\ row[i] # None /\ ~Writing(row[i].by, i)'
                      /\ row[j] # None /\ ~Writing(row[j].by, j)'
                      /\ row[j].by = row[i].by \/ Committed(row[j].by)
                      /\ \A k \in Ids : <<j, k>> \in link => <<i, k>> \in link
    BY <1>a DEF LinkOK
  <2>1. /\ row[i] # None /\ ~Writing(row[i].by, i)
        /\ row[j] # None /\ ~Writing(row[j].by, j)
        /\ row[j].by = row[i].by \/ Committed(row[j].by)
        /\ \A k \in Ids : <<j, k>> \in link => <<i, k>> \in link
    BY DEF LinkOK
  <2> QED
    BY <1>c, <2>1
<1>6. VoidOK'
  BY <1>a DEF VoidOK, TypeOK, Body
<1>7. PostOK'
  <2>1. ASSUME NEW j \in DOMAIN Body(t), request[t].method = "POST"
        PROVE  AsSent(t, j)'
    <3>1. AsSent(t, j)
      BY <1>0, <2>1 DEF PostOK, PostAt
    <3> QED
      BY <1>a, <1>b, <3>1 DEF AsSent, Present, Visible, Sees, statementsMatch
  <2>2. PostAt(t)'
    BY <1>0, <1>a, <1>b, <2>1 DEF PostAt
  <2> QED
    BY <1>0, <1>b, <2>2, OthersKept DEF PostOK
<1>8. VoidingOK'
  <2>1. ASSUME NEW j \in DOMAIN Body(t), request[t].method = "POST"
        PROVE  Effective(t, j)'
    <3>1. Effective(t, j)
      BY <1>0, <2>1 DEF VoidingOK, VoidingAt, Inserting
    <3> QED
      BY <1>a, <1>b, <3>1 DEF Effective, Sees
  <2>2. VoidingAt(t)'
    BY <1>0, <1>a, <1>b, <2>1 DEF VoidingOK, VoidingAt, Stored, Inserting
  <2> QED
    BY <1>0, <1>b, <2>2, OthersKept DEF VoidingOK
<1> QED
  BY <1>1, <1>2, <1>3, <1>4, <1>5, <1>6, <1>7, <1>8

-----------------------------------------------------------------------------
(* Every step keeps the inductive invariant. *)

LEMMA FindExistingKeeps ==
    ASSUME IndInv, NEW t \in Txns, FindExisting(t)
    PROVE  IndInv'
<1> USE DEF IndInv
<1>0. /\ pc[t] = "existing" /\ Open(t) /\ request[t] \in Requests
      /\ request[t].method # "POST" /\ inserted[t] = {}
  <2>1. pc[t] = "existing" /\ Open(t) /\ request[t] \in Requests /\ inserted[t] = {}
    BY BodyShape DEF FindExisting, ControlOK
  <2> QED
    BY <2>1 DEF VoidingOK, VoidingAt, Alive
<1>1. ASSUME NEW label \in Label \ {"idle", "done", "existing", "dependents", "void"}, NEW k \in Nat,
             Move(t, label, k),
             label \in Looping => k \in DOMAIN Body(t),
             label = "target" => IsVoiding(Body(t)[k])
      PROVE  IndInv'
  <2>1. request'[t] = request[t] /\ presentAt'[t] = presentAt[t]
        /\ UNCHANGED <<row, txn>>
    BY <1>1 DEF Move, tables
  <2>2. PostAt(t)' /\ VoidingAt(t)'
    BY <1>0, <2>1 DEF PostAt, VoidingAt, VoidingOK, Stored, Committed
  <2> QED
    BY <1>0, <1>1, <2>2, MoveKeeps
<1>2. CASE Rollback(t, "conflict")
  BY <1>0, <1>2, RollbackKeeps
<1>3. CASE Move(t, "commit", 0)
  BY <1>1, <1>3 DEF Looping, Label
<1>4. CASE VoidFrom(t, request[t], 1) /\
           UNCHANGED <<request, inserted, answer, txn, presentAt, tables>>
  <2>1. PICK label \in {"target", "insert", "compare", "attach"}, k \in Nat :
             /\ Goto(t, label, k)
             /\ label = "target" => k \in DOMAIN Body(t) /\ IsVoiding(Body(t)[k])
             /\ label = "insert" => k = 1 /\ k \in DOMAIN Body(t)
    <3>1. VoidFrom(t, request[t], 1) /\ 1 \in Nat \ {0}
      BY <1>4
    <3> QED
      BY <1>0, <3>1, VoidFromGoes DEF Body
  <2> QED
    BY <1>1, <1>4, <2>1 DEF Move, Looping, Label
<1> QED
  BY <1>2, <1>3, <1>4 DEF FindExisting, Move

LEMMA ReadTargetKeeps ==
    ASSUME IndInv, NEW t \in Txns, ReadTarget(t)
    PROVE  IndInv'
<1> USE DEF IndInv
<1>0. /\ pc[t] = "target" /\ Open(t) /\ request[t] \in Requests
      /\ at[t] \in DOMAIN Body(t) /\ at[t] \in Nat
      /\ Current(t) = Body(t)[at[t]] /\ Current(t) \in Statement /\ IsVoiding(Current(t))
  BY BodyShape DEF ReadTarget, ControlOK, Looping, Current, TypeOK
<1>1. CASE Rollback(t, "rejected")
  BY <1>0, <1>1, RollbackKeeps
<1>2. CASE Current(t).ref # None /\ Move(t, "void", at[t])
  <2>1. Current(t).ref \in Ids
    BY <1>0, <1>2 DEF Statement
  <2>2. /\ Body(t)' = Body(t) /\ pc'[t] = "void" /\ at'[t] = at[t]
        /\ UNCHANGED <<request, txn, presentAt, row, voidedBy>>
    BY <1>2 DEF Move, Goto, Body, TypeOK, tables
  <2>3. PostAt(t)'
    BY <1>0, <2>2 DEF PostAt, Open, Committed
  <2>4. VoidingAt(t)'
    <3>1. ASSUME NEW j \in DOMAIN Body(t), j < at[t], request[t].method = "POST"
          PROVE  Effective(t, j)'
      <4>1. Effective(t, j)
        BY <1>0, <3>1 DEF VoidingOK, VoidingAt, Alive
      <4> QED
        BY <2>2, <4>1 DEF Effective, Sees, Committed
    <3> QED
      BY <1>0, <2>2, <3>1 DEF VoidingOK, VoidingAt, Stored, Inserting, Open, Committed
  <2> QED
    BY <1>0, <1>2, <2>1, <2>3, <2>4, MoveKeeps DEF Looping, Label
<1> QED
  BY <1>1, <1>2 DEF ReadTarget, Move

LEMMA CompareKeeps ==
    ASSUME IndInv, NEW t \in Txns, Compare(t)
    PROVE  IndInv'
<1> USE DEF IndInv
<1>0. pc[t] = "compare" /\ Open(t) /\ request[t] \in Requests
  BY BodyShape DEF Compare, ControlOK
<1>1. CASE Rollback(t, "conflict")
  BY <1>0, <1>1, RollbackKeeps
<1>2. CASE ~Conflicting(t) /\ Move(t, "attach", 0)
  <2>2. /\ Body(t)' = Body(t) /\ pc'[t] = "attach"
        /\ UNCHANGED <<request, txn, presentAt, row, voidedBy>>
    BY <1>2 DEF Move, Goto, Body, TypeOK, tables
  <2>3. PostAt(t)'
    <3>1. ASSUME NEW j \in DOMAIN Body(t), request[t].method = "POST"
          PROVE  AsSent(t, j)'
      <4> DEFINE s == Body(t)[j]
      <4>1. Present(t, j) /\ s \in Range(Body(t)) /\ s.id \in Ids
        BY <1>0, <3>1, BodyShape DEF PostOK, PostAt, Alive, Range, Statement
      <4>2. CASE s.id \in inserted[t]
        <5>1. row[s.id] # None /\ row[s.id].by = t
          BY <1>0, <4>2 DEF RowOK, Alive
        <5>2. row[s.id].stmt.id = s.id /\ row[s.id].stmt \in Range(Body(t))
          BY <4>1, <5>1 DEF RowOK
        <5>3. PICK i \in DOMAIN Body(t) : row[s.id].stmt = Body(t)[i]
          BY <5>2 DEF Range
        <5>4. i = j
          BY <1>0, <5>2, <5>3 DEF ControlOK, Alive, DistinctIds
        <5> QED
          BY <2>2, <4>1, <5>3, <5>4 DEF AsSent, Present, Visible, Sees, statementsMatch, Committed
      <4>3. CASE s.id \notin inserted[t]
        <5>1. statementsMatch(s.id, s)
          BY <1>2, <4>1, <4>3 DEF Conflicting, Present
        <5> QED
          BY <2>2, <4>1, <5>1 DEF AsSent, Present, Visible, Sees, statementsMatch, Committed
      <4> QED
        BY <4>2, <4>3
    <3> QED
      BY <1>0, <2>2, <3>1 DEF PostAt
  <2>4. VoidingAt(t)'
    <3>1. ASSUME NEW j \in DOMAIN Body(t), request[t].method = "POST"
          PROVE  Effective(t, j)'
      <4>1. Effective(t, j)
        BY <1>0, <3>1 DEF VoidingOK, VoidingAt, Alive, Inserting
      <4> QED
        BY <2>2, <4>1 DEF Effective, Sees, Committed
    <3> QED
      BY <1>0, <2>2, <3>1 DEF VoidingOK, VoidingAt, Stored, Inserting, Open, Committed
  <2> QED
    BY <1>0, <1>2, <2>3, <2>4, MoveKeeps DEF Looping, Label
<1> QED
  BY <1>1, <1>2 DEF Compare, Move

LEMMA InitInv == Init => IndInv
<1> SUFFICES ASSUME Init PROVE IndInv
  OBVIOUS
<1>1. TypeOK
  BY DEF Init, TypeOK, Label
<1>2. ControlOK
  BY DEF Init, ControlOK, Alive, Open, Committed, Looping
<1>3. RowOK /\ DependentOK /\ LinkOK /\ VoidOK
  BY DEF Init, RowOK, DependentOK, LinkOK, VoidOK, Alive, Open, Committed
<1>4. PostOK /\ VoidingOK
  BY DEF Init, PostOK, PostAt, VoidingOK, VoidingAt, Alive, Open, Committed
<1> QED
  BY <1>1, <1>2, <1>3, <1>4 DEF IndInv

LEMMA StutterInv == IndInv /\ UNCHANGED vars => IndInv'
<1> SUFFICES ASSUME IndInv, UNCHANGED vars PROVE IndInv'
  OBVIOUS
<1> USE DEF IndInv, vars
<1>1. TypeOK' /\ ControlOK'
  BY DEF TypeOK, ControlOK, Alive, Open, Committed, Body, Current
<1>2. RowOK' /\ VoidOK'
  BY DEF RowOK, VoidOK, Alive, Open, Committed, Body
<1>3. DependentOK' /\ LinkOK'
  BY DEF DependentOK, LinkOK, Writing, Current, Committed, Body
<1>4. PostOK'
  BY DEF PostOK, PostAt, Alive, Open, Committed, Body, Present, AsSent, Visible, Sees,
         statementsMatch
<1>5. VoidingOK'
  BY DEF VoidingOK, VoidingAt, Alive, Open, Committed, Body, Effective, Sees, Stored
<1> QED
  BY <1>1, <1>2, <1>3, <1>4, <1>5

LEMMA StepInv == IndInv /\ [Next]_vars => IndInv'
<1> SUFFICES ASSUME IndInv, [Next]_vars PROVE IndInv'
  OBVIOUS
<1>1. ASSUME NEW t \in Txns, NEW q \in Requests, Receive(t, q) PROVE IndInv'
  BY <1>1, ReceiveKeeps
<1>2. ASSUME NEW t \in Txns, Step(t) PROVE IndInv'
  <2>1. CASE FindExisting(t)
    BY <2>1, FindExistingKeeps
  <2>2. CASE ReadTarget(t)
    BY <2>2, ReadTargetKeeps
  <2>3. CASE VoidTarget(t)
    BY <2>3, VoidTargetKeeps
  <2>4. CASE InsertRow(t)
    BY <2>4, InsertRowKeeps
  <2>5. CASE InsertDependents(t)
    BY <2>5, InsertDependentsKeeps
  <2>6. CASE Compare(t)
    BY <2>6, CompareKeeps
  <2>7. CASE Attach(t)
    BY <2>7, AttachKeeps
  <2>8. CASE Commit(t)
    BY <2>8, CommitKeeps DEF Commit
  <2> QED
    BY <1>2, <2>1, <2>2, <2>3, <2>4, <2>5, <2>6, <2>7, <2>8 DEF Step
<1>3. ASSUME NEW t \in Txns, CommitUnacknowledged(t) PROVE IndInv'
  BY <1>3, CommitKeeps DEF CommitUnacknowledged
<1>4. ASSUME NEW t \in Txns, Fail(t) \/ BreakDeadlock(t) PROVE IndInv'
  <2>1. Open(t)
    <3>1. Deadlocked(t) => WaitsFor(t) # {}
      BY DEF Deadlocked
    <3>2. WaitsFor(t) # {} => Open(t)
      BY DEF WaitsFor, IndInv, ControlOK
    <3> QED
      BY <1>4, <3>1, <3>2 DEF Fail, BreakDeadlock
  <2> QED
    BY <1>4, <2>1, RollbackKeeps DEF Fail, BreakDeadlock
<1>5. CASE Terminated \/ UNCHANGED vars
  BY <1>5, StutterInv DEF Terminated
<1> QED
  BY <1>1, <1>2, <1>3, <1>4, <1>5 DEF Next

THEOREM Invariance == Spec => []IndInv
  BY InitInv, StepInv, PTL DEF Spec

-----------------------------------------------------------------------------
(* TypeOK: the variables keep their types, and no row and no voiding of an
   aborted transaction remains. *)
THEOREM TypeCorrect == Spec => []TypeOK
<1>1. IndInv => TypeOK
  BY DEF IndInv
<1> QED
  BY Invariance, <1>1, PTL

LEMMA CommittedPostIsStored ==
    ASSUME IndInv, NEW t \in Txns, Committed(t), request[t].method = "POST"
    PROVE  StoredAsSent(t)
<1>1. \A k \in DOMAIN Body(t) : AsSent(t, k)
  BY DEF IndInv, PostOK, PostAt, Alive
<1>2. ASSUME NEW k \in DOMAIN Body(t)
      PROVE  Stored(Body(t)[k].id) /\ statementsMatch(Body(t)[k].id, Body(t)[k])
  BY <1>1 DEF AsSent, Present, Visible, Sees, Stored
<1> QED
  BY <1>2 DEF StoredAsSent, Range

(* AcceptedPostIsStored: a POST answered 200 has every statement of its batch
   stored as sent, for any batches, any ids and any number of requests. *)
THEOREM AcceptedIsKept == Spec => []AcceptedPostIsStored
<1>1. IndInv => AcceptedPostIsStored
  BY CommittedPostIsStored DEF AcceptedPostIsStored, Accepted, IndInv, ControlOK
<1> QED
  BY Invariance, <1>1, PTL

(* LinksAreClosed: statement_to_statement is transitively closed over the
   stored statements, whatever requests built the chain. *)
THEOREM ClosedLinks == Spec => []LinksAreClosed
<1>1. IndInv => LinksAreClosed
  <2> SUFFICES ASSUME IndInv, NEW i \in Ids, NEW j \in Ids, Linked(i, j)
               PROVE  /\ Stored(j)
                      /\ \A k \in Ids : Linked(j, k) => Linked(i, k)
    BY DEF LinksAreClosed
  <2>1. /\ row[j] # None /\ (row[j].by = row[i].by \/ Committed(row[j].by))
        /\ \A k \in Ids : <<j, k>> \in link => <<i, k>> \in link
    BY DEF IndInv, LinkOK, Linked
  <2> QED
    BY <2>1 DEF Linked, Stored
<1> QED
  BY Invariance, <1>1, PTL

(* DependentsAreStoredOnce: a stored statement has exactly the junction rows and
   the attachments its own transaction wrote. *)
THEOREM DependentsOnce == Spec => []DependentsAreStoredOnce
<1>1. IndInv => DependentsAreStoredOnce
  <2> SUFFICES ASSUME IndInv, NEW i \in Ids, Stored(i)
               PROVE  /\ {j \in junction : j[1] = i} = {<<i, row[i].by>>}
                      /\ {a \in attachment : a[1] = i} = {<<i, row[i].by>>}
    BY DEF DependentsAreStoredOnce
  <2>0. row[i] # None /\ row[i].by \in Txns /\ Committed(row[i].by)
    BY DEF Stored, IndInv, TypeOK
  <2>1. <<i, row[i].by>> \in junction
    BY <2>0 DEF IndInv, DependentOK, Writing, ControlOK, Open, Committed
  <2>2. <<i, row[i].by>> \in attachment
    BY <2>0 DEF IndInv, DependentOK, RowOK
  <2>3. ASSUME NEW d \in junction \cup attachment, d[1] = i PROVE d = <<i, row[i].by>>
    <3>1. PICK u \in Txns : d = <<i, u>>
      BY <2>3 DEF IndInv, TypeOK
    <3> QED
      BY <3>1 DEF IndInv, DependentOK
  <2> QED
    BY <2>1, <2>2, <2>3
<1> QED
  BY Invariance, <1>1, PTL

(* VoidedByPostHasVoider: what a POST voided has a stored voiding statement. *)
THEOREM VoiderIsStored == Spec => []VoidedByPostHasVoider
<1>1. IndInv => VoidedByPostHasVoider
  <2> SUFFICES ASSUME IndInv, NEW i \in Ids, Voided(i),
                      request[voidedBy[i]].method = "POST"
               PROVE  \E v \in Ids : Stored(v) /\ IsVoiding(row[v].stmt) /\ row[v].stmt.ref = i
    BY DEF VoidedByPostHasVoider
  <2>1. voidedBy[i] \in Txns /\ Committed(voidedBy[i])
    BY DEF Voided, IndInv, TypeOK
  <2>2. PICK s \in Range(Body(voidedBy[i])) : IsVoiding(s) /\ s.ref = i
    BY DEF IndInv, VoidOK, Voided
  <2>3. Stored(s.id) /\ row[s.id].stmt = s
    BY <2>1, <2>2, CommittedPostIsStored DEF StoredAsSent, statementsMatch
  <2>4. s.id \in Ids
    <3>1. pc[voidedBy[i]] # "idle"
      BY <2>1 DEF IndInv, ControlOK, Committed
    <3> QED
      BY <2>1, <2>2, <3>1, BodyShape DEF IndInv, Range, Statement
  <2> QED
    BY <2>2, <2>3, <2>4
<1> QED
  BY Invariance, <1>1, PTL

(* AcceptedVoidingTookEffect: a POST answered 200 has voided every target that
   was stored when it arrived, however voidings of one target overlap. *)
THEOREM VoidingTakesEffect == Spec => []AcceptedVoidingTookEffect
<1>1. IndInv => AcceptedVoidingTookEffect
  <2> SUFFICES ASSUME IndInv, NEW t \in Txns, Accepted(t), request[t].method = "POST",
                      NEW k \in DOMAIN Body(t),
                      IsVoiding(Body(t)[k]), Body(t)[k].ref \in presentAt[t]
               PROVE  Voided(Body(t)[k].ref)
    BY DEF AcceptedVoidingTookEffect, Range
  <2>1. Committed(t)
    BY DEF IndInv, ControlOK, Accepted
  <2>2. Effective(t, k)
    BY <2>1 DEF IndInv, VoidingOK, VoidingAt, Alive
  <2> QED
    BY <2>1, <2>2 DEF Effective, Sees, Voided
<1> QED
  BY Invariance, <1>1, PTL

-----------------------------------------------------------------------------
Unchangeable(i) ==
    /\ row'[i] = row[i]
    /\ Voided(i) => voidedBy'[i] = voidedBy[i]
    /\ \A j \in Ids : <<i, j>> \in link' <=> <<i, j>> \in link
    /\ \A t \in Txns : /\ <<i, t>> \in junction' <=> <<i, t>> \in junction
                       /\ <<i, t>> \in attachment' <=> <<i, t>> \in attachment

LEMMA RollbackSpares ==
    ASSUME IndInv, NEW t \in Txns, Open(t), NEW response, Rollback(t, response),
           NEW i \in Ids, Stored(i)
    PROVE  Unchangeable(i)
<1>1. row[i] # None /\ row[i].by # t /\ row[i].by \in Txns
  BY DEF Stored, Open, Committed, IndInv, TypeOK
<1>2. row'[i] = row[i]
  BY <1>1 DEF Rollback
<1>3. Voided(i) => voidedBy'[i] = voidedBy[i]
  BY DEF Rollback, Voided, Open, Committed
<1>4. \A j \in Ids : <<i, j>> \in link' <=> <<i, j>> \in link
  BY <1>1, <1>2 DEF Rollback
<1>5. \A u \in Txns : <<i, u>> \in junction \cup attachment => u # t
  BY <1>1 DEF IndInv, DependentOK
<1> QED
  BY <1>2, <1>3, <1>4, <1>5 DEF Rollback, Unchangeable

LEMMA TablesSpare ==
    ASSUME UNCHANGED tables, NEW i
    PROVE  Unchangeable(i)
  BY DEF tables, Unchangeable

LEMMA StepSpares ==
    ASSUME IndInv, [Next]_vars, NEW i \in Ids, Stored(i)
    PROVE  Unchangeable(i)
<1>0. row[i] # None /\ row[i].by \in Txns /\ Committed(row[i].by)
  BY DEF Stored, IndInv, TypeOK
<1>1. ASSUME NEW t \in Txns, Step(t) PROVE Unchangeable(i)
  <2>1. Open(t)
    BY <1>1 DEF Step, FindExisting, ReadTarget, VoidTarget, InsertRow, InsertDependents,
                Compare, Attach, Commit, IndInv, ControlOK
  <2>2. row[i].by # t
    BY <1>0, <2>1 DEF Open, Committed
  <2>3. CASE \E response : Rollback(t, response)
    BY <2>1, <2>3, RollbackSpares
  <2>4. CASE UNCHANGED tables
    BY <2>4, TablesSpare
  <2>5. CASE VoidTarget(t)
    <3>1. Voided(i) => voidedBy'[i] = voidedBy[i]
      BY <2>5 DEF VoidTarget, voidStatement, Voided, IndInv, TypeOK
    <3> QED
      BY <2>5, <3>1 DEF VoidTarget, Unchangeable
  <2>6. CASE InsertRow(t)
    <3>1. row'[i] = row[i]
      BY <1>0, <2>6 DEF InsertRow, IndInv, TypeOK
    <3> QED
      BY <2>6, <3>1 DEF InsertRow, Unchangeable
  <2>7. CASE InsertDependents(t)
    <3>1. Current(t).id \in inserted[t]
      BY <2>7 DEF InsertDependents, IndInv, DependentOK
    <3>2. Current(t).id # i
      BY <2>1, <2>2, <3>1 DEF IndInv, RowOK, Alive
    <3> QED
      BY <2>7, <3>2 DEF InsertDependents, Unchangeable
  <2>8. CASE Attach(t)
    <3>1. i \notin inserted[t]
      BY <2>1, <2>2 DEF IndInv, RowOK, Alive
    <3> QED
      BY <2>8, <3>1 DEF Attach, Unchangeable
  <2>9. CASE FindExisting(t) \/ ReadTarget(t) \/ Compare(t) \/ Commit(t)
    BY <2>9, <2>3, <2>4 DEF FindExisting, ReadTarget, Compare, Commit
  <2> QED
    BY <1>1, <2>5, <2>6, <2>7, <2>8, <2>9 DEF Step
<1>2. ASSUME NEW t \in Txns, Fail(t) \/ BreakDeadlock(t) PROVE Unchangeable(i)
  <2>1. Open(t)
    <3>1. Deadlocked(t) => WaitsFor(t) # {}
      BY DEF Deadlocked
    <3>2. WaitsFor(t) # {} => Open(t)
      BY DEF WaitsFor, IndInv, ControlOK
    <3> QED
      BY <1>2, <3>1, <3>2 DEF Fail, BreakDeadlock
  <2> QED
    BY <1>2, <2>1, RollbackSpares DEF Fail, BreakDeadlock
<1>3. CASE UNCHANGED tables
  BY <1>3, TablesSpare
<1>4. ASSUME NEW t \in Txns, CommitUnacknowledged(t) \/ \E q \in Requests : Receive(t, q)
      PROVE  UNCHANGED tables
  BY <1>4 DEF CommitUnacknowledged, Receive, tables
<1>5. CASE Terminated \/ UNCHANGED vars
  BY <1>3, <1>5 DEF Terminated, vars, tables
<1> QED
  BY <1>1, <1>2, <1>3, <1>4, <1>5 DEF Next

(* CommittedStatementsAreImmutable: no step of any request changes a committed
   statement, its links, its junction rows or its attachments, or un-voids it. *)
THEOREM Immutability == Spec => CommittedStatementsAreImmutable
<1>1. IndInv /\ [Next]_vars =>
        [\A i \in Ids : Stored(i) =>
          /\ row'[i] = row[i]
          /\ Voided(i) => voidedBy'[i] = voidedBy[i]
          /\ \A j \in Ids : <<i, j>> \in link' <=> <<i, j>> \in link
          /\ \A t \in Txns : /\ <<i, t>> \in junction' <=> <<i, t>> \in junction
                             /\ <<i, t>> \in attachment' <=> <<i, t>> \in attachment]_vars
  BY StepSpares DEF Unchangeable
<1> QED
  BY Invariance, <1>1, PTL DEF Spec, CommittedStatementsAreImmutable

=============================================================================
