-------------------------- MODULE Documents_proofs --------------------------
(***************************************************************************)
(* Proofs about Documents: types, last-write-wins where a unique           *)
(* constraint covers the key, and what it takes to get past a              *)
(* precondition, for any number of requests at once.                       *)
(***************************************************************************)
EXTENDS Documents, TLAPS

Writing == {"update", "insert", "retry", "upsert"}

DeletedMeanwhile(t) == \E d \in Txns : Overtook(d, t) /\ ~Writes(d)
Overtaken(t) == \E u \in Txns : Overtook(u, t)

(* Transaction t has an uncommitted row of document k. *)
Touches(t, k) ==
    /\ write[t] # None
    /\ \/ \E r \in write[t].rows : stored[r] # None /\ stored[r].doc = k
       \/ write[t].rows # {} /\ write[t].value # None /\ write[t].value.doc = k

(* What the place in the handler says of the transaction. *)
ControlOK(t) ==
    /\ pc[t] # "idle" => request[t] \in Requests
    /\ pc[t] \in {"idle", "read"} => draft[t] = None
    /\ pc[t] = "read" => request[t].method # "DELETE ALL"
    /\ pc[t] \in Writing => Writes(t) /\ draft[t] # None /\ draft[t].doc \in request[t].docs
    /\ pc[t] \in {"update", "insert", "retry"} => ~(request[t].docs \subseteq Profiles)
    /\ pc[t] = "retry" => request[t].docs \subseteq Registered
    /\ pc[t] = "upsert" => request[t].docs \subseteq Profiles
    /\ pc[t] = "delete" => ~Writes(t) /\ draft[t] = None
    /\ pc[t] \in {"insert", "retry"} => write[t] # None /\ write[t].rows = {}
    /\ pc[t] = "commit" =>
         /\ write[t] # None /\ write[t].value = draft[t]
         /\ Writes(t) => draft[t] # None /\ draft[t].doc \in request[t].docs
         /\ ~Writes(t) => draft[t] = None
    /\ seen[t] # None => pc[t] \in {"update", "retry", "delete"}
    /\ t \in committed => pc[t] = "done"
    /\ stored[t] # None => t \in committed
    /\ before[t] \subseteq committed

(* A transaction holds and waits for rows of its documents; the only row it
   holds that is not yet committed is its own. *)
RowOK(t) ==
    /\ write[t] # None => \A r \in write[t].rows :
         /\ stored[r] = None => r = t
         /\ stored[r] # None => stored[r].doc \in request[t].docs
    /\ seen[t] # None => \A r \in seen[t] :
         /\ r \in committed
         /\ stored[r] # None => stored[r].doc \in request[t].docs

(* A PUT or POST about to commit holds every row of its document, or inserts
   the only one, or has found none because of a DELETE. *)
WriteOK(t) ==
    /\ pc[t] = "retry" => Targets(t) # {} \/ DeletedMeanwhile(t)
    /\ pc[t] = "commit" /\ Writes(t) => \A k \in request[t].docs \cap Keyed :
         \/ write[t].rows # {} /\ write[t].rows = RowsOf({k})
         \/ write[t].rows = {t} /\ RowsOf({k}) = {}
         \/ write[t].rows = {} /\ DeletedMeanwhile(t)

(* Past the check of its headers, they hold of the document or another request
   on it has committed. *)
CheckedOK(t) ==
    /\ pc[t] \in Writing \cup {"delete", "commit"}
    /\ request[t].method # "DELETE ALL"
    /\ request[t].docs \subseteq Keyed
    => PreconditionMet(t) \/ Overtaken(t)

TxnOK(t) == ControlOK(t) /\ RowOK(t) /\ WriteOK(t) /\ CheckedOK(t)

(* One row for a document with a key, and one transaction writing it. *)
KeyOK == \A k \in Keyed : \A r, s \in RowsOf({k}) : r = s
HoldOK == \A k \in Keyed : \A t, u \in Txns : Touches(t, k) /\ Touches(u, k) => t = u

IndInv == TypeOK /\ (\A t \in Txns : TxnOK(t)) /\ KeyOK /\ HoldOK

-----------------------------------------------------------------------------
(* What a request that is served looks like. *)
LEMMA RequestShape ==
    ASSUME NEW q \in Requests
    PROVE  /\ q # None
           /\ q.docs \in SUBSET Docs
           /\ q.method \in {"PUT", "POST", "DELETE", "DELETE ALL"}
           /\ q.header \in {"none", "if-match", "if-none-match"}
           /\ q.v2 \in BOOLEAN /\ q.json \in BOOLEAN
           /\ q.method # "DELETE ALL" => \E k \in Docs : q.docs = {k}
<1>1. q \in [method: {"PUT", "POST", "DELETE", "DELETE ALL"}, docs: SUBSET Docs,
              header: {"none", "if-match", "if-none-match"}, v2: BOOLEAN, json: BOOLEAN]
  BY RequestsAssumption
<1>2. q.method # "DELETE ALL" => \E k \in Docs : q.docs = {k}
  BY RequestsAssumption
<1>3. q # None
  BY DocumentsAssumption
<1> QED BY <1>1, <1>2, <1>3

(* A served request, as its handler knows it. *)
LEMMA Served ==
    ASSUME IndInv, NEW t \in Txns, pc[t] # "idle"
    PROVE  /\ request[t] \in Requests
           /\ Writes(t) => \E k \in Docs : request[t].docs = {k}
<1>1. request[t] \in Requests
  BY DEF IndInv, TxnOK, ControlOK
<1> QED BY <1>1, RequestShape DEF Writes

(* Steps of t that touch no table keep what is known of another transaction. *)
LEMMA OthersKept ==
    ASSUME IndInv, NEW t \in Txns, NEW u \in Txns, u # t,
           UNCHANGED <<committed, stored>>,
           request'[u] = request[u], expected'[u] = expected[u], pc'[u] = pc[u],
           draft'[u] = draft[u], seen'[u] = seen[u], write'[u] = write[u],
           before'[u] = before[u],
           \A d \in committed : request'[d] = request[d]
    PROVE  TxnOK(u)'
<1>1. TxnOK(u)
  BY DEF IndInv
<1>2. ControlOK(u)' /\ RowOK(u)'
  BY <1>1 DEF TxnOK, ControlOK, RowOK, Writes
<1>3. \A d \in Txns : Overtook(d, u) =>
         /\ d \in committed' \ before'[u]
         /\ request'[d] = request[d]
  BY DEF Overtook
<1>4. (DeletedMeanwhile(u) => DeletedMeanwhile(u)') /\ (Overtaken(u) => Overtaken(u)')
  BY <1>3 DEF DeletedMeanwhile, Overtaken, Overtook, Meets, Writes
<1>5. Targets(u)' = Targets(u)
  BY DEF Targets, RowsOf
<1>6. ASSUME NEW k PROVE RowsOf({k})' = RowsOf({k})
  BY DEF RowsOf
<1>7. WriteOK(u)'
  BY <1>1, <1>4, <1>5, <1>6 DEF TxnOK, WriteOK, Writes
<1>8. PreconditionMet(u)' = PreconditionMet(u)
  BY DEF PreconditionMet, RowsOf
<1>9. CheckedOK(u)'
  BY <1>1, <1>4, <1>8 DEF TxnOK, CheckedOK
<1> QED BY <1>2, <1>7, <1>9 DEF TxnOK

(* t alone is changed, and takes no document that another transaction holds. *)
OnlyChanges(t) ==
    /\ UNCHANGED <<committed, stored>>
    /\ \A u \in Txns \ {t} :
         /\ request'[u] = request[u] /\ expected'[u] = expected[u] /\ pc'[u] = pc[u]
         /\ draft'[u] = draft[u] /\ seen'[u] = seen[u] /\ write'[u] = write[u]
         /\ before'[u] = before[u]
    /\ t \in committed => request'[t] = request[t]

LEMMA LocalStep ==
    ASSUME IndInv, NEW t \in Txns, OnlyChanges(t), TypeOK', TxnOK(t)',
           ASSUME NEW k \in Keyed, NEW u \in Txns \ {t}, Touches(t, k)', Touches(u, k)
           PROVE  FALSE
    PROVE  IndInv'
<1>1. ASSUME NEW u \in Txns PROVE TxnOK(u)'
  <2>1. CASE u = t
    BY <2>1
  <2>2. CASE u # t
    <3>1. \A d \in committed : d \in Txns
      BY DEF IndInv, TypeOK
    <3> QED BY <2>2, <3>1, OthersKept DEF OnlyChanges
  <2> QED BY <2>1, <2>2
<1>2. ASSUME NEW k PROVE RowsOf({k})' = RowsOf({k})
  BY DEF RowsOf, OnlyChanges
<1>3. KeyOK'
  BY <1>2 DEF KeyOK, IndInv
<1>4. ASSUME NEW k \in Keyed, NEW u \in Txns \ {t}
      PROVE  Touches(u, k)' <=> Touches(u, k)
  BY DEF Touches, OnlyChanges
<1>5. ASSUME NEW k \in Keyed, NEW u \in Txns, NEW w \in Txns, Touches(u, k)', Touches(w, k)'
      PROVE  u = w
  <2>1. CASE u # t /\ w # t
    BY <2>1, <1>4, <1>5 DEF IndInv, HoldOK
  <2>2. CASE u = t /\ w # t
    <3>1. Touches(w, k)
      BY <1>4, <1>5, <2>2
    <3> QED BY <1>5, <2>2, <3>1
  <2>3. CASE u # t /\ w = t
    <3>1. Touches(u, k)
      BY <1>4, <1>5, <2>3
    <3> QED BY <1>5, <2>3, <3>1
  <2> QED BY <2>1, <2>2, <2>3
<1>6. HoldOK'
  BY <1>5 DEF HoldOK
<1> QED BY <1>1, <1>3, <1>6 DEF IndInv

-----------------------------------------------------------------------------
(* The steps before a transaction writes. *)
LEMMA ReceiveStep ==
    ASSUME IndInv, NEW t \in Txns, NEW q \in Requests, Receive(t, q)
    PROVE  IndInv'
<1>1. pc[t] = "idle" /\ draft[t] = None /\ write[t] = None /\ seen[t] = None
      /\ t \notin committed /\ stored[t] = None
  BY DEF Receive, IndInv, TypeOK, TxnOK, ControlOK
<1>2. request'[t] = q /\ before'[t] = committed
      /\ UNCHANGED <<draft, seen, write, committed, stored>>
      /\ pc'[t] \in {"read", "delete", "done"}
      /\ (pc'[t] = "read" => q.method # "DELETE ALL")
      /\ (pc'[t] = "delete" => q.method = "DELETE ALL")
  BY DEF Receive, IndInv, TypeOK, Goto
<1>3. expected' \in [Txns -> SUBSET Txns]
  <2>1. ASSUME NEW v \in UNION {Readable(k) : k \in q.docs} PROVE v.data \in SUBSET Txns
    BY DEF Readable, RowsOf, IndInv, TypeOK, Version
  <2>2. PICK etag \in IF q.header = "if-match"
                      THEN {{}} \cup {v.data : v \in UNION {Readable(k) : k \in q.docs}}
                      ELSE {{}} :
               expected' = [expected EXCEPT ![t] = etag]
    BY DEF Receive
  <2>3. etag \in SUBSET Txns
    BY <2>1, <2>2
  <2> QED BY <2>2, <2>3 DEF IndInv, TypeOK
<1>4. TypeOK'
  <2>1. request' \in [Txns -> Requests \cup {None}] /\ before' \in [Txns -> SUBSET Txns]
    BY DEF IndInv, TypeOK, Receive
  <2>2. pc' \in [Txns -> {"idle", "read", "update", "insert", "retry", "upsert",
                          "delete", "commit", "done"}]
    <3>1. PICK label \in {"read", "delete", "done"} : pc' = [pc EXCEPT ![t] = label]
      BY DEF Receive, Goto
    <3> QED BY <3>1 DEF IndInv, TypeOK
  <2>3. answer' \in [Txns -> {"none", "ok", "refused", "failed"}]
    BY DEF IndInv, TypeOK, Receive
  <2>4. \A u \in Txns : write'[u] # None => pc'[u] \in {"insert", "retry", "commit"}
    BY <1>1, <1>2 DEF IndInv, TypeOK, Receive, Goto
  <2> QED BY <1>2, <1>3, <2>1, <2>2, <2>3, <2>4 DEF IndInv, TypeOK
<1>5. TxnOK(t)'
  BY <1>1, <1>2 DEF TxnOK, ControlOK, RowOK, WriteOK, CheckedOK, Writing, Writes
<1>6. OnlyChanges(t)
  BY <1>1, <1>2 DEF OnlyChanges, Receive, Goto, IndInv, TypeOK
<1>7. ASSUME NEW k \in Keyed, NEW u \in Txns \ {t}, Touches(t, k)', Touches(u, k)
      PROVE  FALSE
  BY <1>1, <1>2, <1>7 DEF Touches
<1> QED BY <1>4, <1>5, <1>6, <1>7, LocalStep

LEMMA RollbackStep ==
    ASSUME IndInv, NEW t \in Txns, NEW response \in {"refused", "failed"},
           Active(t), Rollback(t, response)
    PROVE  IndInv'
<1>1. pc[t] # "idle" /\ t \notin committed
  BY DEF Active, IndInv, TxnOK, ControlOK
<1>2. pc'[t] = "done" /\ write'[t] = None /\ seen'[t] = None
      /\ UNCHANGED <<request, expected, draft, before, committed, stored>>
  BY DEF Rollback, Finish, Goto, IndInv, TypeOK
<1>3. TypeOK'
  BY <1>2 DEF IndInv, TypeOK, Rollback, Finish, Goto
<1>4. TxnOK(t)'
  BY <1>1, <1>2 DEF IndInv, TxnOK, ControlOK, RowOK, WriteOK, CheckedOK, Writing, Writes
<1>5. OnlyChanges(t)
  BY <1>2 DEF OnlyChanges, Rollback, Finish, Goto, IndInv, TypeOK
<1>6. ASSUME NEW k \in Keyed, NEW u \in Txns \ {t}, Touches(t, k)', Touches(u, k)
      PROVE  FALSE
  BY <1>2, <1>6 DEF Touches
<1> QED BY <1>3, <1>4, <1>5, <1>6, LocalStep

LEMMA WaitStep ==
    ASSUME IndInv, NEW t \in Txns, Wait(t)
    PROVE  IndInv'
<1>1. seen'[t] = Targets(t) /\ Targets(t) \in SUBSET Txns
      /\ UNCHANGED <<request, expected, pc, draft, write, answer, committed, stored, before>>
  BY DEF Wait, IndInv, TypeOK, Targets, RowsOf
<1>2. pc[t] \in {"update", "retry", "delete"} /\ seen[t] = None
  BY DEF Wait
<1>3. Targets(t) # None
  BY <1>1, DocumentsAssumption
<1>4. TypeOK'
  BY <1>1 DEF IndInv, TypeOK, Wait
<1>5. \A r \in Targets(t) :
        r \in committed /\ stored[r] # None /\ stored[r].doc \in request[t].docs
  BY <1>2 DEF Targets, RowsOf, IndInv, TxnOK, ControlOK
<1>6. Targets(t)' = Targets(t)
  BY <1>1, <1>3, <1>5 DEF Targets
<1>7. (DeletedMeanwhile(t) => DeletedMeanwhile(t)') /\ (Overtaken(t) => Overtaken(t)')
      /\ (PreconditionMet(t) => PreconditionMet(t)')
  BY <1>1 DEF DeletedMeanwhile, Overtaken, Overtook, Meets, Writes, PreconditionMet, RowsOf
<1>8. TxnOK(t)'
  <2>1. TxnOK(t)
    BY DEF IndInv
  <2>2. ControlOK(t)' /\ RowOK(t)'
    BY <1>1, <1>2, <1>5, <2>1 DEF TxnOK, ControlOK, RowOK, Writes
  <2>3. WriteOK(t)'
    BY <1>1, <1>2, <1>6, <1>7, <2>1 DEF TxnOK, WriteOK
  <2>4. CheckedOK(t)'
    BY <1>1, <1>7, <2>1 DEF TxnOK, CheckedOK
  <2> QED BY <2>2, <2>3, <2>4 DEF TxnOK
<1>9. OnlyChanges(t)
  BY <1>1 DEF OnlyChanges, Wait, IndInv, TypeOK
<1>10. ASSUME NEW k \in Keyed, NEW u \in Txns \ {t}, Touches(t, k)', Touches(u, k)
       PROVE  FALSE
  BY <1>1, <1>10 DEF Touches, IndInv, HoldOK
<1> QED BY <1>4, <1>8, <1>9, <1>10, LocalStep

-----------------------------------------------------------------------------
(* The SELECT and the check of the headers. *)
LEMMA CheckPasses ==
    ASSUME IndInv, NEW t \in Txns, pc[t] = "read", request[t].docs \subseteq Keyed,
           NEW v, checkConcurrencyHeaders(t, v),
           v \in IF RowsOf(request[t].docs) = {} THEN {None}
                 ELSE {stored[r] : r \in RowsOf(request[t].docs)}
    PROVE  PreconditionMet(t)
<1> DEFINE rows == {stored[r] : r \in RowsOf(request[t].docs)}
<1>1. request[t] \in Requests /\ request[t].method # "DELETE ALL"
  BY DEF IndInv, TxnOK, ControlOK
<1>2. PICK k \in Docs : request[t].docs = {k}
  BY <1>1, RequestShape
<1>3. \A r, s \in RowsOf({k}) : r = s
  BY <1>2 DEF IndInv, KeyOK
<1>4. (v = None /\ rows = {}) \/ (v # None /\ rows = {v})
  BY <1>2, <1>3 DEF RowsOf
<1>5. request[t].method \in {"PUT", "POST", "DELETE"}
      /\ request[t].header \in {"none", "if-match", "if-none-match"}
  BY <1>1, RequestShape
<1>6. CASE request[t].header = "if-match"
  BY <1>4, <1>6 DEF checkConcurrencyHeaders, PreconditionMet
<1>7. CASE request[t].header = "if-none-match"
  BY <1>4, <1>7 DEF checkConcurrencyHeaders, PreconditionMet
<1>8. CASE request[t].header = "none"
  BY <1>4, <1>8 DEF checkConcurrencyHeaders, requireConcurrency, PreconditionMet
<1> QED BY <1>5, <1>6, <1>7, <1>8

LEMMA MergedShape ==
    ASSUME IndInv, NEW t \in Txns, pc[t] = "read", request[t].method # "DELETE",
           NEW v, v \in Version \cup {None}
    PROVE  Merged(t, v) \in Version /\ Merged(t, v).doc \in request[t].docs /\ Merged(t, v) # None
<1>1. request[t] \in Requests /\ request[t].method # "DELETE ALL"
  BY DEF IndInv, TxnOK, ControlOK
<1>2. PICK k \in Docs : request[t].docs = {k}
  BY <1>1, RequestShape
<1>3. (CHOOSE d \in Docs : request[t].docs = {d}) = k
  BY <1>2
<1>4. request[t].json \in BOOLEAN
  BY <1>1, RequestShape
<1>5. {t} \cup (IF request[t].method = "POST" /\ v # None THEN v.data ELSE {}) \in SUBSET Txns
  BY DEF Version
<1>6. Merged(t, v) \in Version
  BY <1>3, <1>4, <1>5 DEF Merged, Version
<1>7. Merged(t, v) # None
  BY <1>6, DocumentsAssumption
<1> QED BY <1>2, <1>3, <1>6, <1>7 DEF Merged

LEMMA ReadStep ==
    ASSUME IndInv, NEW t \in Txns, Read(t)
    PROVE  IndInv'
<1>1. pc[t] = "read" /\ write[t] = None /\ seen[t] = None /\ draft[t] = None
      /\ t \notin committed /\ stored[t] = None
  BY DEF Read, IndInv, TypeOK, TxnOK, ControlOK
<1>2. PICK v \in IF RowsOf(request[t].docs) = {} THEN {None}
                  ELSE {stored[r] : r \in RowsOf(request[t].docs)} :
         \/ Rollback(t, "refused")
         \/ /\ checkConcurrencyHeaders(t, v)
            /\ \/ /\ request[t].method = "DELETE"
                  /\ Goto(t, "delete")
                  /\ UNCHANGED draft
               \/ /\ request[t].method # "DELETE"
                  /\ Goto(t, IF request[t].docs \subseteq Profiles THEN "upsert" ELSE "update")
                  /\ draft' = [draft EXCEPT ![t] = Merged(t, v)]
            /\ UNCHANGED <<request, expected, seen, write, answer, committed, stored, before>>
  BY DEF Read
<1>3. CASE Rollback(t, "refused")
  BY <1>1, <1>3, RollbackStep DEF Active
<1>4. CASE ~Rollback(t, "refused")
  <2>1. v \in Version \cup {None}
    BY DEF RowsOf, IndInv, TypeOK
  <2>2. UNCHANGED <<request, expected, seen, write, answer, committed, stored, before>>
        /\ checkConcurrencyHeaders(t, v)
    BY <1>2, <1>4
  <2>3. request[t] \in Requests /\ request[t].method \in {"PUT", "POST", "DELETE"}
    BY <1>1, RequestShape DEF IndInv, TxnOK, ControlOK
  <2>4. \/ /\ request[t].method = "DELETE" /\ pc' = [pc EXCEPT ![t] = "delete"]
           /\ draft' = draft
        \/ /\ Writes(t)
           /\ pc' = [pc EXCEPT ![t] = IF request[t].docs \subseteq Profiles
                                       THEN "upsert" ELSE "update"]
           /\ draft' = [draft EXCEPT ![t] = Merged(t, v)]
           /\ Merged(t, v) \in Version /\ Merged(t, v) # None
           /\ Merged(t, v).doc \in request[t].docs
    BY <1>1, <1>2, <1>4, <2>1, <2>3, MergedShape DEF Goto, Writes
  <2>5. TypeOK'
    <3>1. draft' \in [Txns -> Version \cup {None}]
      BY <2>4 DEF IndInv, TypeOK
    <3>2. pc' \in [Txns -> {"idle", "read", "update", "insert", "retry", "upsert",
                            "delete", "commit", "done"}]
      BY <2>4 DEF IndInv, TypeOK
    <3>3. \A u \in Txns : write'[u] # None => pc'[u] \in {"insert", "retry", "commit"}
      BY <1>1, <2>2, <2>4 DEF IndInv, TypeOK
    <3> QED BY <2>2, <3>1, <3>2, <3>3 DEF IndInv, TypeOK
  <2>6. pc'[t] = IF request[t].method = "DELETE" THEN "delete"
                 ELSE IF request[t].docs \subseteq Profiles THEN "upsert" ELSE "update"
    BY <2>4 DEF IndInv, TypeOK, Writes
  <2>7. ControlOK(t)' /\ RowOK(t)' /\ WriteOK(t)'
    <3>1. request[t].method = "DELETE" => draft'[t] = None
      BY <1>1, <2>4 DEF Writes
    <3>2. request[t].method # "DELETE" =>
             Writes(t) /\ draft'[t] # None /\ draft'[t].doc \in request[t].docs
      BY <2>4 DEF IndInv, TypeOK
    <3>3. before[t] \subseteq committed
      BY DEF IndInv, TxnOK, ControlOK
    <3> QED BY <1>1, <2>2, <2>3, <2>6, <3>1, <3>2, <3>3
            DEF ControlOK, RowOK, WriteOK, Writing, Writes
  <2>8. CheckedOK(t)'
    <3>1. request[t].docs \subseteq Keyed => PreconditionMet(t)
      BY <1>1, <2>2, CheckPasses
    <3>2. PreconditionMet(t)' = PreconditionMet(t)
      BY <2>2 DEF PreconditionMet, RowsOf
    <3> QED BY <2>2, <3>1, <3>2 DEF CheckedOK
  <2>9. OnlyChanges(t)
    BY <2>2, <2>4 DEF OnlyChanges, IndInv, TypeOK
  <2>10. ASSUME NEW k \in Keyed, NEW u \in Txns \ {t}, Touches(t, k)', Touches(u, k)
         PROVE  FALSE
    BY <1>1, <2>2, <2>10 DEF Touches
  <2> QED BY <2>5, <2>7, <2>8, <2>9, <2>10, LocalStep DEF TxnOK
<1> QED BY <1>3, <1>4

-----------------------------------------------------------------------------
(* The queries that write. *)
LEMMA TargetsFound ==
    ASSUME IndInv, NEW t \in Txns, pc[t] \in {"update", "retry", "delete"}
    PROVE  /\ Targets(t) \in SUBSET Txns
           /\ Targets(t) \subseteq RowsOf(request[t].docs)
           /\ \A r \in Targets(t) : stored[r] # None
BY DEF Targets, RowsOf, IndInv, TypeOK, TxnOK, RowOK

(* A transaction with an uncommitted row of a document with a key holds the row
   of that document, or inserts it when there is none. *)
LEMMA ToucherHolds ==
    ASSUME IndInv, NEW u \in Txns, NEW k \in Keyed, Touches(u, k)
    PROVE  \/ RowsOf({k}) # {} /\ RowsOf({k}) \subseteq write[u].rows
           \/ RowsOf({k}) = {} /\ write[u].rows = {u}
<1>1. TxnOK(u) /\ write[u] # None /\ write[u].rows # {}
  BY DEF Touches, IndInv
<1>2. pc[u] = "commit" /\ write[u].value = draft[u]
  BY <1>1 DEF TxnOK, ControlOK, IndInv, TypeOK
<1>3. CASE \E r \in write[u].rows : stored[r] # None /\ stored[r].doc = k
  <2>1. PICK r \in write[u].rows : stored[r] # None /\ stored[r].doc = k
    BY <1>3
  <2>2. r \in RowsOf({k})
    BY <1>1, <2>1 DEF RowsOf, IndInv, TypeOK
  <2>3. RowsOf({k}) = {r}
    BY <2>2 DEF IndInv, KeyOK
  <2> QED BY <2>1, <2>3
<1>4. CASE write[u].value # None /\ write[u].value.doc = k
  <2>1. Writes(u) /\ k \in request[u].docs \cap Keyed
    BY <1>1, <1>2, <1>4 DEF TxnOK, ControlOK
  <2>2. \/ write[u].rows # {} /\ write[u].rows = RowsOf({k})
        \/ write[u].rows = {u} /\ RowsOf({k}) = {}
    BY <1>1, <1>2, <2>1 DEF TxnOK, WriteOK
  <2> QED BY <2>2
<1> QED BY <1>3, <1>4 DEF Touches

(* What the queries below have made sure of when they write rows. *)
MayWrite(t, rows, label) ==
    /\ rows \in SUBSET Txns
    /\ pc[t] \in Writing \cup {"delete"}
    /\ label \in {"insert", "retry", "commit"}
    /\ pc[t] = "delete" => label = "commit"
    /\ label # "commit" => rows = {}
    /\ label = "insert" => pc[t] = "update"
    /\ label = "retry" => /\ pc[t] = "insert" /\ request[t].docs \subseteq Registered
                          /\ RowsOf(request[t].docs) # {}
    /\ \A r \in rows : r = t \/ (stored[r] # None /\ stored[r].doc \in request[t].docs)
    /\ \A u \in Txns \ {t} : write[u] # None => write[u].rows \cap rows = {}
    /\ label = "commit" /\ Writes(t) => \A k \in request[t].docs \cap Keyed :
         \/ rows # {} /\ rows = RowsOf({k})
         \/ rows = {t} /\ RowsOf({k}) = {}
         \/ rows = {} /\ DeletedMeanwhile(t)
    /\ \A k \in Keyed :
         (\E r \in rows : stored[r] # None /\ stored[r].doc = k)
         \/ (Writes(t) /\ rows # {} /\ request[t].docs = {k})
         => \A u \in Txns \ {t} : ~Touches(u, k)

LEMMA WriteStep ==
    ASSUME IndInv, NEW t \in Txns, NEW rows, NEW label,
           Write(t, rows, label), MayWrite(t, rows, label)
    PROVE  IndInv'
<1> USE DEF MayWrite
<1>1. UNCHANGED <<request, expected, draft, answer, committed, stored, before>>
      /\ pc'[t] = label /\ seen'[t] = None
      /\ write'[t] = [rows |-> rows, value |-> draft[t]]
  BY DEF Write, Goto, IndInv, TypeOK
<1>2. TxnOK(t) /\ t \notin committed /\ stored[t] = None /\ request[t] \in Requests
  BY DEF IndInv, TxnOK, ControlOK, Writing
<1>3. write'[t] # None /\ write'[t].rows = rows /\ write'[t].value = draft[t]
      /\ write'[t] \in [rows: SUBSET Txns, value: Version \cup {None}]
  <2>1. write'[t] \in [rows: SUBSET Txns, value: Version \cup {None}]
    BY <1>1 DEF IndInv, TypeOK
  <2> QED BY <1>1, <2>1, DocumentsAssumption
<1>4. TypeOK'
  <2>1. write' \in [Txns -> [rows: SUBSET Txns, value: Version \cup {None}] \cup {None}]
    BY <1>1, <1>3 DEF Write, IndInv, TypeOK
  <2>2. pc' \in [Txns -> {"idle", "read", "update", "insert", "retry", "upsert",
                          "delete", "commit", "done"}]
        /\ seen' \in [Txns -> {None} \cup SUBSET Txns]
    BY DEF Write, Goto, IndInv, TypeOK
  <2>3. \A u \in Txns \ {t} : write'[u] = write[u] /\ pc'[u] = pc[u]
    BY DEF Write, Goto, IndInv, TypeOK
  <2>4. \A u \in Txns : write'[u] # None => pc'[u] \in {"insert", "retry", "commit"}
    BY <1>1, <2>3 DEF IndInv, TypeOK
  <2>5. ASSUME NEW u \in Txns, NEW w \in Txns, u # w, write'[u] # None, write'[w] # None
        PROVE  write'[u].rows \cap write'[w].rows = {}
    BY <1>3, <2>3, <2>5 DEF IndInv, TypeOK
  <2> QED BY <1>1, <2>1, <2>2, <2>4, <2>5 DEF IndInv, TypeOK
<1>5. ControlOK(t)'
  <2>1. Writes(t)' = Writes(t) /\ draft'[t] = draft[t] /\ request'[t] = request[t]
    BY <1>1 DEF Writes
  <2>2. pc[t] \in Writing => Writes(t) /\ draft[t] # None /\ draft[t].doc \in request[t].docs
    BY <1>2 DEF TxnOK, ControlOK
  <2>3. pc[t] = "delete" => ~Writes(t) /\ draft[t] = None
    BY <1>2 DEF TxnOK, ControlOK
  <2>4. label \in {"insert", "retry"} =>
           pc[t] \in Writing /\ ~(request[t].docs \subseteq Profiles)
    BY <1>2 DEF TxnOK, ControlOK, Writing
  <2>5. before'[t] \subseteq committed'
    BY <1>1, <1>2 DEF TxnOK, ControlOK
  <2> QED BY <1>1, <1>2, <1>3, <2>1, <2>2, <2>3, <2>4, <2>5 DEF ControlOK, Writing
<1>6. RowOK(t)'
  BY <1>1, <1>2, <1>3 DEF RowOK
<1>7. (DeletedMeanwhile(t) => DeletedMeanwhile(t)') /\ (Overtaken(t) => Overtaken(t)')
      /\ (PreconditionMet(t) => PreconditionMet(t)')
  BY <1>1 DEF DeletedMeanwhile, Overtaken, Overtook, Meets, Writes, PreconditionMet, RowsOf
<1>8. WriteOK(t)'
  <2>1. label = "retry" => Targets(t)' # {}
    BY <1>1 DEF Targets, RowsOf
  <2>2. ASSUME NEW k PROVE RowsOf({k})' = RowsOf({k})
    BY <1>1 DEF RowsOf
  <2>3. Writes(t)' = Writes(t)
    BY <1>1 DEF Writes
  <2> QED BY <1>1, <1>3, <1>7, <2>1, <2>2, <2>3 DEF WriteOK
<1>9. CheckedOK(t)'
  BY <1>1, <1>2, <1>7 DEF TxnOK, CheckedOK
<1>10. OnlyChanges(t)
  BY <1>1 DEF OnlyChanges, Write, Goto, IndInv, TypeOK
<1>11. ASSUME NEW k \in Keyed, NEW u \in Txns \ {t}, Touches(t, k)', Touches(u, k)
       PROVE  FALSE
  <2>1. CASE \E r \in rows : stored[r] # None /\ stored[r].doc = k
    BY <1>11, <2>1
  <2>2. CASE rows # {} /\ draft[t] # None /\ draft[t].doc = k
    <3>1. Writes(t) /\ draft[t].doc \in request[t].docs
      BY <1>2, <2>2 DEF TxnOK, ControlOK, Writing
    <3>2. PICK d \in Docs : request[t].docs = {d}
      BY <3>1, Served DEF Writing
    <3>3. request[t].docs = {k}
      BY <2>2, <3>1, <3>2
    <3> QED BY <1>11, <2>2, <3>1, <3>3
  <2> QED BY <1>1, <1>3, <1>11, <2>1, <2>2 DEF Touches
<1> QED BY <1>4, <1>5, <1>6, <1>8, <1>9, <1>10, <1>11, LocalStep DEF TxnOK

LEMMA UpdateStep ==
    ASSUME IndInv, NEW t \in Txns, pc[t] \in {"update", "retry", "delete"},
           Holders(t, Targets(t)) = {}, NEW label, Write(t, Targets(t), label),
           label = "insert" => pc[t] = "update" /\ Targets(t) = {},
           label # "insert" => label = "commit" /\ (pc[t] = "update" => Targets(t) # {})
    PROVE  IndInv'
<1>1. Targets(t) \in SUBSET Txns /\ Targets(t) \subseteq RowsOf(request[t].docs)
  BY TargetsFound
<1>2. TxnOK(t) /\ request[t] \in Requests
  BY DEF IndInv, TxnOK, ControlOK
<1>3. \A u \in Txns \ {t} : write[u] # None => write[u].rows \cap Targets(t) = {}
  BY DEF Holders
<1>4. ASSUME label = "commit", Writes(t), NEW k \in request[t].docs \cap Keyed
      PROVE  \/ Targets(t) # {} /\ Targets(t) = RowsOf({k})
             \/ Targets(t) = {} /\ DeletedMeanwhile(t)
  <2>1. request[t].docs = {k}
    <3>1. PICK d \in Docs : request[t].docs = {d}
      BY <1>4, Served
    <3> QED BY <1>4, <3>1
  <2>2. \A r, s \in RowsOf({k}) : r = s
    BY <1>4 DEF IndInv, KeyOK
  <2>3. pc[t] \in {"update", "retry"}
    BY <1>2, <1>4 DEF TxnOK, ControlOK
  <2>4. Targets(t) # {} \/ DeletedMeanwhile(t)
    BY <1>2, <1>4, <2>3 DEF TxnOK, WriteOK
  <2> QED BY <1>1, <2>1, <2>2, <2>4
<1>5. ASSUME NEW k \in Keyed, NEW u \in Txns \ {t}, Touches(u, k),
             \/ \E r \in Targets(t) : stored[r] # None /\ stored[r].doc = k
             \/ Writes(t) /\ Targets(t) # {} /\ request[t].docs = {k}
      PROVE  FALSE
  <2>1. write[u] # None /\ write[u].rows \cap Targets(t) = {}
    BY <1>3, <1>5 DEF Touches
  <2>2. PICK r \in Targets(t) : r \in RowsOf({k})
    <3>1. CASE \E r \in Targets(t) : stored[r] # None /\ stored[r].doc = k
      BY <1>1, <3>1 DEF RowsOf
    <3>2. CASE Targets(t) # {} /\ request[t].docs = {k}
      BY <1>1, <3>2
    <3> QED BY <1>5, <3>1, <3>2
  <2>3. \/ RowsOf({k}) # {} /\ RowsOf({k}) \subseteq write[u].rows
        \/ RowsOf({k}) = {} /\ write[u].rows = {u}
    BY <1>5, ToucherHolds
  <2> QED BY <2>1, <2>2, <2>3
<1>6. \A r \in Targets(t) : stored[r] # None /\ stored[r].doc \in request[t].docs
  BY <1>1 DEF RowsOf
<1>7. label \in {"insert", "commit"}
  OBVIOUS
<1>8. /\ pc[t] \in Writing \cup {"delete"}
      /\ pc[t] = "delete" => label = "commit"
      /\ label # "commit" => Targets(t) = {}
      /\ label \in {"insert", "retry", "commit"} /\ label # "retry"
  BY <1>7 DEF Writing
<1>9. label = "commit" /\ Writes(t) => \A k \in request[t].docs \cap Keyed :
              \/ Targets(t) # {} /\ Targets(t) = RowsOf({k})
              \/ Targets(t) = {t} /\ RowsOf({k}) = {}
              \/ Targets(t) = {} /\ DeletedMeanwhile(t)
  BY <1>4
<1>10. MayWrite(t, Targets(t), label)
  BY <1>1, <1>3, <1>5, <1>6, <1>8, <1>9 DEF MayWrite
<1> QED BY <1>10, WriteStep

LEMMA InsertStep ==
    ASSUME IndInv, NEW t \in Txns, Insert(t)
    PROVE  IndInv'
<1>1. pc[t] = "insert" /\ pc[t] \in Writing
  BY DEF Insert, Writing
<1>2. TxnOK(t) /\ request[t] \in Requests /\ Writes(t) /\ stored[t] = None
      /\ ~(request[t].docs \subseteq Profiles)
  BY <1>1 DEF IndInv, TxnOK, ControlOK
<1>3. PICK d \in Docs : request[t].docs = {d}
  BY <1>1, Served, <1>2
<1>4. CASE request[t].docs \subseteq Registered /\ RowsOf(request[t].docs) # {}
  <2>1. Write(t, {}, "retry")
    BY <1>4 DEF Insert
  <2>2. MayWrite(t, {}, "retry")
    BY <1>1, <1>4 DEF MayWrite
  <2> QED BY <2>1, <2>2, WriteStep
<1>5. CASE ~(request[t].docs \subseteq Registered /\ RowsOf(request[t].docs) # {})
  <2>1. Write(t, {t}, "commit")
    BY <1>5 DEF Insert
  <2>2. request[t].docs \subseteq Registered => Writers(t, request[t].docs) = {}
    BY DEF Insert
  <2>3. \A u \in Txns \ {t} : write[u] # None => write[u].rows \cap {t} = {}
    BY <1>2 DEF IndInv, TxnOK, RowOK
  <2>4. ASSUME NEW k \in request[t].docs \cap Keyed
        PROVE  request[t].docs = {k} /\ request[t].docs \subseteq Registered /\ RowsOf({k}) = {}
    <3>1. k = d /\ k \in Keyed
      BY <1>3, <2>4
    <3>2. request[t].docs \subseteq Registered
      BY <1>2, <1>3, <3>1 DEF Keyed
    <3> QED BY <1>3, <1>5, <3>1, <3>2
  <2>5. ASSUME NEW k \in Keyed, NEW u \in Txns \ {t}, Touches(u, k),
               \/ \E r \in {t} : stored[r] # None /\ stored[r].doc = k
               \/ Writes(t) /\ {t} # {} /\ request[t].docs = {k}
        PROVE  FALSE
    <3>1. k \in request[t].docs \cap Keyed
      BY <1>2, <2>5
    <3>2. Writers(t, {k}) = {}
      BY <2>2, <2>4, <3>1
    <3> QED BY <2>5, <3>2 DEF Touches, Writers, RowsOf, IndInv, TypeOK
  <2>6. \A k \in request[t].docs \cap Keyed : {t} = {t} /\ RowsOf({k}) = {}
    BY <2>4
  <2>7. pc[t] # "delete" /\ \A r \in {t} : r = t
    BY <1>1
  <2>8. MayWrite(t, {t}, "commit")
    BY <1>1, <2>3, <2>5, <2>6, <2>7 DEF MayWrite
  <2> QED BY <2>1, <2>8, WriteStep
<1> QED BY <1>4, <1>5

LEMMA UpsertStep ==
    ASSUME IndInv, NEW t \in Txns, Upsert(t)
    PROVE  IndInv'
<1>1. pc[t] = "upsert" /\ pc[t] \in Writing /\ Writers(t, request[t].docs) = {}
  BY DEF Upsert, Writing
<1>2. TxnOK(t) /\ request[t] \in Requests /\ Writes(t) /\ stored[t] = None
  BY <1>1 DEF IndInv, TxnOK, ControlOK
<1>3. PICK d \in Docs : request[t].docs = {d}
  BY <1>1, Served, <1>2
<1> DEFINE rows == IF RowsOf(request[t].docs) = {} THEN {t} ELSE RowsOf(request[t].docs)
<1>4. Write(t, rows, "commit")
  BY DEF Upsert
<1>5. rows \in SUBSET Txns /\ rows # {}
      /\ \A r \in rows : r = t \/ (stored[r] # None /\ stored[r].doc \in request[t].docs)
  BY DEF RowsOf
<1>6. \A u \in Txns \ {t} : write[u] # None => write[u].rows \cap rows = {}
  <2>1. CASE RowsOf(request[t].docs) = {}
    BY <1>2, <2>1 DEF IndInv, TxnOK, RowOK
  <2>2. CASE RowsOf(request[t].docs) # {}
    BY <1>1, <2>2 DEF Writers
  <2> QED BY <2>1, <2>2
<1>7. ASSUME NEW k \in request[t].docs \cap Keyed
      PROVE  (rows # {} /\ rows = RowsOf({k})) \/ (rows = {t} /\ RowsOf({k}) = {})
  <2>1. request[t].docs = {k}
    BY <1>3, <1>7
  <2> QED BY <1>5, <2>1
<1>8. ASSUME NEW k \in Keyed, NEW u \in Txns \ {t}, Touches(u, k),
             \/ \E r \in rows : stored[r] # None /\ stored[r].doc = k
             \/ Writes(t) /\ rows # {} /\ request[t].docs = {k}
      PROVE  FALSE
  <2>1. k \in request[t].docs
    BY <1>2, <1>5, <1>8
  <2>2. Writers(t, {k}) = {}
    BY <1>1, <1>3, <2>1
  <2> QED BY <1>8, <2>2 DEF Touches, Writers, RowsOf, IndInv, TypeOK
<1> HIDE DEF rows
<1>9. MayWrite(t, rows, "commit")
  BY <1>1, <1>5, <1>6, <1>7, <1>8 DEF MayWrite
<1> QED BY <1>4, <1>9, WriteStep

-----------------------------------------------------------------------------
(* COMMIT, the one step that changes the tables. *)
LEMMA CommitFacts ==
    ASSUME IndInv, NEW t \in Txns, NEW response, CommitAs(t, response)
    PROVE  /\ UNCHANGED <<request, expected, draft, before>>
           /\ committed' = committed \cup {t} /\ t \notin committed
           /\ pc[t] = "commit" /\ pc'[t] = "done" /\ seen'[t] = None /\ write'[t] = None
           /\ \A u \in Txns \ {t} : /\ pc'[u] = pc[u] /\ seen'[u] = seen[u]
                                    /\ write'[u] = write[u]
           /\ request[t] \in Requests /\ write[t] # None /\ write[t].value = draft[t]
           /\ write[t].rows \in SUBSET Txns
           /\ \A r \in Txns \ write[t].rows : stored'[r] = stored[r]
           /\ \A r \in write[t].rows : /\ stored'[r] = draft[t]
                                       /\ stored[r] = None => r = t
                                       /\ stored[r] # None => stored[r].doc \in request[t].docs
           /\ draft[t] \in Version \cup {None}
           /\ draft[t] # None => Writes(t) /\ draft[t].doc \in request[t].docs
           /\ Writes(t) => draft[t] # None
           /\ \A u \in Txns \ {t} : write[u] # None => write[u].rows \cap write[t].rows = {}
<1>1. TxnOK(t) /\ pc[t] = "commit"
  BY DEF IndInv, CommitAs
<1>2. pc'[t] = "done" /\ seen'[t] = None /\ write'[t] = None
      /\ UNCHANGED <<request, expected, draft, before>>
      /\ \A u \in Txns \ {t} : pc'[u] = pc[u] /\ seen'[u] = seen[u] /\ write'[u] = write[u]
  BY DEF CommitAs, Finish, Goto, IndInv, TypeOK
<1>3. request[t] \in Requests /\ write[t] # None /\ write[t].value = draft[t] /\ t \notin committed
      /\ (draft[t] # None => Writes(t) /\ draft[t].doc \in request[t].docs)
      /\ (Writes(t) => draft[t] # None)
  BY <1>1 DEF TxnOK, ControlOK
<1>4. write[t].rows \in SUBSET Txns /\ draft[t] \in Version \cup {None}
      /\ \A u \in Txns \ {t} : write[u] # None => write[u].rows \cap write[t].rows = {}
  BY <1>3 DEF IndInv, TypeOK
<1>5. \A r \in write[t].rows : /\ stored[r] = None => r = t
                               /\ stored[r] # None => stored[r].doc \in request[t].docs
  BY <1>1, <1>3 DEF TxnOK, RowOK
<1>6. /\ \A r \in Txns \ write[t].rows : stored'[r] = stored[r]
      /\ \A r \in write[t].rows : stored'[r] = draft[t]
  BY <1>3, <1>4 DEF CommitAs
<1>7. committed' = committed \cup {t}
  BY DEF CommitAs
<1> QED BY <1>1, <1>2, <1>3, <1>4, <1>5, <1>6, <1>7

(* A commit leaves the documents of other requests alone. *)
LEMMA CommitElsewhere ==
    ASSUME IndInv, NEW t \in Txns, NEW response, CommitAs(t, response),
           NEW docs, docs \cap request[t].docs = {}
    PROVE  /\ RowsOf(docs)' = RowsOf(docs)
           /\ \A r \in RowsOf(docs) : stored'[r] = stored[r]
<1>1. ASSUME NEW r \in Txns, r \in write[t].rows
      PROVE  r \notin RowsOf(docs) /\ ~(stored'[r] # None /\ stored'[r].doc \in docs)
  BY <1>1, CommitFacts DEF RowsOf
<1>2. ASSUME NEW r \in Txns, r \notin write[t].rows PROVE stored'[r] = stored[r]
  BY <1>2, CommitFacts
<1> QED BY <1>1, <1>2 DEF RowsOf

LEMMA CommitKeepsKeys ==
    ASSUME IndInv, NEW t \in Txns, NEW response, CommitAs(t, response), NEW k \in Keyed
    PROVE  /\ \A r, s \in RowsOf({k})' : r = s
           /\ Writes(t) /\ k \in request[t].docs =>
                Readable(k)' = {draft[t]} \/ DeletedMeanwhile(t)
<1>1. \A r, s \in RowsOf({k}) : r = s
  BY DEF IndInv, KeyOK
<1>2. CASE k \notin request[t].docs
  <2>1. RowsOf({k})' = RowsOf({k})
    BY <1>2, CommitElsewhere
  <2> QED BY <1>1, <1>2, <2>1
<1>3. CASE k \in request[t].docs /\ ~Writes(t)
  <2>1. ASSUME NEW r \in RowsOf({k})' PROVE r \in RowsOf({k})
    <3>1. r \in Txns /\ stored'[r] # None /\ stored'[r].doc = k
      BY <2>1 DEF RowsOf
    <3>2. r \notin write[t].rows
      BY <1>3, <3>1, CommitFacts
    <3> QED BY <3>1, <3>2, CommitFacts DEF RowsOf
  <2> QED BY <1>1, <1>3, <2>1
<1>4. CASE k \in request[t].docs /\ Writes(t)
  <2>1. request[t].docs = {k} /\ draft[t] # None /\ draft[t].doc = k
    <3>1. pc[t] # "idle"
      BY CommitFacts
    <3>2. PICK d \in Docs : request[t].docs = {d}
      BY <1>4, <3>1, Served
    <3> QED BY <1>4, <3>2, CommitFacts
  <2>2. \/ write[t].rows # {} /\ write[t].rows = RowsOf({k})
        \/ write[t].rows = {t} /\ RowsOf({k}) = {}
        \/ write[t].rows = {} /\ DeletedMeanwhile(t)
    BY <1>4, CommitFacts DEF IndInv, TxnOK, WriteOK
  <2>3. CASE write[t].rows # {} /\ (write[t].rows = RowsOf({k}) \/ (RowsOf({k}) = {} /\ write[t].rows = {t}))
    <3>1. ASSUME NEW r \in Txns
          PROVE  r \in RowsOf({k})' <=> r \in write[t].rows
      <4>1. CASE r \in write[t].rows
        BY <2>1, <4>1, CommitFacts DEF RowsOf
      <4>2. CASE r \notin write[t].rows
        <5>1. stored'[r] = stored[r] /\ r \notin RowsOf({k})
          BY <2>3, <4>2, CommitFacts
        <5> QED BY <4>2, <5>1 DEF RowsOf
      <4> QED BY <4>1, <4>2
    <3>2. RowsOf({k})' = write[t].rows
      BY <3>1, CommitFacts DEF RowsOf
    <3>3. \A r \in write[t].rows : stored'[r] = draft[t]
      BY CommitFacts
    <3>4. Readable(k)' = {draft[t]}
      BY <2>3, <3>2, <3>3 DEF Readable
    <3> QED BY <1>1, <2>3, <3>2, <3>4
  <2>4. CASE write[t].rows = {} /\ DeletedMeanwhile(t)
    <3>1. \A r \in Txns : stored'[r] = stored[r]
      BY <2>4, CommitFacts
    <3> QED BY <1>1, <2>4, <3>1 DEF RowsOf
  <2> QED BY <2>2, <2>3, <2>4
<1> QED BY <1>2, <1>3, <1>4

(* What a commit of t means to another transaction u in progress. *)
LEMMA CommitOvertakes ==
    ASSUME IndInv, NEW t \in Txns, NEW response, CommitAs(t, response),
           NEW u \in Txns, u # t, pc[u] # "idle", t \notin before[u]
    PROVE  /\ (DeletedMeanwhile(u) => DeletedMeanwhile(u)')
           /\ (Overtaken(u) => Overtaken(u)')
           /\ (Meets(u, t) => Overtaken(u)')
           /\ (Meets(u, t) /\ ~Writes(t) => DeletedMeanwhile(u)')
<1>1. UNCHANGED <<request, before>> /\ committed' = committed \cup {t}
  BY CommitFacts
<1> QED BY <1>1 DEF DeletedMeanwhile, Overtaken, Overtook, Meets, Writes

LEMMA CommitKeepsOthers ==
    ASSUME IndInv, NEW t \in Txns, NEW response, CommitAs(t, response),
           NEW u \in Txns, u # t
    PROVE  TxnOK(u)'
<1>1. TxnOK(u) /\ UNCHANGED <<request, expected, draft, before>>
      /\ pc'[u] = pc[u] /\ seen'[u] = seen[u] /\ write'[u] = write[u]
      /\ Writes(u)' = Writes(u)
  BY CommitFacts DEF IndInv, Writes
<1>2. write[u] # None => /\ pc[u] \in {"insert", "retry", "commit"}
                         /\ write[u].rows \in SUBSET Txns
                         /\ \A r \in write[u].rows : stored'[r] = stored[r]
  BY CommitFacts DEF IndInv, TypeOK
<1>3. ControlOK(u)'
  <2>1. stored[u] = None => stored'[u] = None \/ u \in write[t].rows
    BY CommitFacts
  <2>2. u \in write[t].rows /\ stored[u] = None => FALSE
    BY CommitFacts
  <2>3. (u \in committed' <=> u \in committed) /\ (stored'[u] # None => u \in committed)
    <3>1. u \in committed' <=> u \in committed
      BY CommitFacts
    <3>2. stored[u] # None => u \in committed
      BY <1>1 DEF TxnOK, ControlOK
    <3> QED BY <2>1, <2>2, <3>1, <3>2
  <2>4. before[u] \subseteq committed'
    BY <1>1, CommitFacts DEF TxnOK, ControlOK
  <2> QED BY <1>1, <2>3, <2>4 DEF TxnOK, ControlOK
<1>4. RowOK(u)'
  <2>1. write[u] # None => \A r \in write[u].rows :
          /\ stored'[r] = None => r = u
          /\ stored'[r] # None => stored'[r].doc \in request[u].docs
    BY <1>1, <1>2 DEF TxnOK, RowOK
  <2>2. ASSUME seen[u] # None, NEW r \in seen[u], stored'[r] # None
        PROVE  stored'[r].doc \in request[u].docs
    <3>1. r \in committed /\ r \in Txns /\ (stored[r] # None => stored[r].doc \in request[u].docs)
      BY <1>1, <2>2 DEF TxnOK, RowOK, IndInv, TypeOK
    <3>2. CASE r \in write[t].rows
      <4>1. stored[r] # None /\ stored[r].doc \in request[t].docs
        BY <3>1, <3>2, CommitFacts
      <4>2. Writes(t) /\ stored'[r] = draft[t] /\ draft[t].doc \in request[t].docs
        BY <2>2, <3>2, CommitFacts
      <4>3. PICK d \in Docs : request[t].docs = {d}
        BY <4>2, Served, CommitFacts
      <4> QED BY <3>1, <4>1, <4>2, <4>3
    <3>3. CASE r \notin write[t].rows
      BY <2>2, <3>1, <3>3, CommitFacts
    <3> QED BY <3>2, <3>3
  <2>3. seen[u] # None => \A r \in seen[u] : r \in committed'
    BY <1>1, CommitFacts DEF TxnOK, RowOK
  <2> QED BY <1>1, <2>1, <2>2, <2>3 DEF RowOK
<1>5. ASSUME pc[u] \in Writing \cup {"delete", "commit"}
      PROVE  t \notin before[u] /\ pc[u] # "idle"
  BY <1>1, <1>5, CommitFacts DEF TxnOK, ControlOK, Writing
<1>6. WriteOK(u)'
  <2>1. ASSUME pc[u] = "retry" PROVE Targets(u)' # {} \/ DeletedMeanwhile(u)'
    <3>1. CASE DeletedMeanwhile(u)
      BY <1>5, <2>1, <3>1, CommitOvertakes DEF Writing
    <3>2. CASE Targets(u)' # {}
      BY <3>2
    <3>3. CASE Targets(u) # {} /\ Targets(u)' = {}
      <4>1. PICK r \in Targets(u) : TRUE
        BY <3>3
      <4>2. r \in RowsOf(request[u].docs) /\ r \in Txns
        BY <2>1, <4>1, TargetsFound
      <4>3. stored'[r] = None
        <5>1. CASE seen[u] = None
          <6>1. RowsOf(request[u].docs)' = {}
            BY <1>1, <3>3, <5>1 DEF Targets, RowsOf
          <6>2. stored'[r] # None => r \in write[t].rows /\ Writes(t) /\ stored'[r] = draft[t]
            BY <4>2, <6>1, <1>1, CommitFacts DEF RowsOf
          <6>3. ASSUME stored'[r] # None PROVE FALSE
            <7>1. PICK d \in Docs : request[t].docs = {d}
              BY <6>2, <6>3, Served, CommitFacts
            <7>2. stored[r].doc = d /\ draft[t].doc = d
              BY <4>2, <6>2, <6>3, <7>1, CommitFacts DEF RowsOf
            <7> QED BY <1>1, <4>2, <6>1, <6>2, <6>3, <7>2 DEF RowsOf
          <6> QED BY <6>3
        <5>2. CASE seen[u] # None
          BY <1>1, <3>3, <4>1, <5>2 DEF Targets
        <5> QED BY <5>1, <5>2
      <4>4. r \in write[t].rows /\ draft[t] = None /\ stored[r].doc \in request[t].docs
        BY <4>2, <4>3, CommitFacts DEF RowsOf
      <4>5. Meets(u, t) /\ ~Writes(t)
        BY <4>2, <4>4, CommitFacts DEF Meets, RowsOf
      <4> QED BY <1>5, <2>1, <4>5, CommitOvertakes DEF Writing
    <3> QED BY <1>1, <2>1, <3>1, <3>2, <3>3 DEF TxnOK, WriteOK
  <2>2. ASSUME pc[u] = "commit", Writes(u), NEW k \in request[u].docs \cap Keyed
        PROVE  \/ write[u].rows # {} /\ write[u].rows = RowsOf({k})'
               \/ write[u].rows = {u} /\ RowsOf({k})' = {}
               \/ write[u].rows = {} /\ DeletedMeanwhile(u)'
    <3>1. \/ write[u].rows # {} /\ write[u].rows = RowsOf({k})
          \/ write[u].rows = {u} /\ RowsOf({k}) = {}
          \/ write[u].rows = {} /\ DeletedMeanwhile(u)
      BY <1>1, <2>2 DEF TxnOK, WriteOK
    <3>2. CASE write[u].rows = {} /\ DeletedMeanwhile(u)
      BY <1>5, <2>2, <3>2, CommitOvertakes
    <3>3. CASE write[u].rows # {}
      <4>1. Touches(u, k)
        <5>1. write[u] # None /\ write[u].value = draft[u] /\ draft[u] # None
              /\ draft[u].doc \in request[u].docs
          BY <1>1, <2>2 DEF TxnOK, ControlOK
        <5>2. PICK d \in Docs : request[u].docs = {d}
          BY <2>2, Served
        <5> QED BY <2>2, <3>3, <5>1, <5>2 DEF Touches
      <4>2. ~Touches(t, k)
        BY <4>1 DEF IndInv, HoldOK
      <4>3. RowsOf({k})' = RowsOf({k})
        <5>1. ASSUME NEW r \in write[t].rows
              PROVE  r \notin RowsOf({k}) /\ r \notin RowsOf({k})'
          <6>1. ~(stored[r] # None /\ stored[r].doc = k)
            BY <4>2, CommitFacts DEF Touches
          <6>2. ~(stored'[r] # None /\ stored'[r].doc = k)
            BY <4>2, CommitFacts DEF Touches
          <6> QED BY <6>1, <6>2 DEF RowsOf
        <5>2. \A r \in Txns \ write[t].rows : r \in RowsOf({k})' <=> r \in RowsOf({k})
          BY CommitFacts DEF RowsOf
        <5>3. RowsOf({k}) \subseteq Txns /\ RowsOf({k})' \subseteq Txns
          BY DEF RowsOf
        <5> QED BY <5>1, <5>2, <5>3
      <4> QED BY <3>1, <3>3, <4>3
    <3> QED BY <3>1, <3>2, <3>3
  <2> QED BY <1>1, <2>1, <2>2 DEF WriteOK
<1>7. CheckedOK(u)'
  <2>1. CASE ~(pc[u] \in Writing \cup {"delete", "commit"})
    BY <1>1, <2>1 DEF CheckedOK
  <2>2. CASE pc[u] \in Writing \cup {"delete", "commit"} /\ Meets(u, t)
    BY <1>5, <2>2, CommitOvertakes DEF CheckedOK
  <2>3. CASE pc[u] \in Writing \cup {"delete", "commit"} /\ ~Meets(u, t)
    <3>1. RowsOf(request[u].docs)' = RowsOf(request[u].docs)
          /\ \A r \in RowsOf(request[u].docs) : stored'[r] = stored[r]
      BY <1>1, <2>3, CommitElsewhere DEF Meets, RowsOf
    <3>2. PreconditionMet(u) => PreconditionMet(u)'
      BY <1>1, <3>1 DEF PreconditionMet
    <3> QED BY <1>1, <1>5, <2>3, <3>2, CommitOvertakes DEF TxnOK, CheckedOK
  <2> QED BY <2>1, <2>2, <2>3
<1> QED BY <1>3, <1>4, <1>6, <1>7 DEF TxnOK

LEMMA CommitStep ==
    ASSUME IndInv, NEW t \in Txns, NEW response \in {"ok", "failed"}, CommitAs(t, response)
    PROVE  IndInv'
<1>1. TypeOK'
  <2>1. /\ pc' = [pc EXCEPT ![t] = "done"] /\ answer' = [answer EXCEPT ![t] = response]
        /\ seen' = [seen EXCEPT ![t] = None] /\ write' = [write EXCEPT ![t] = None]
        /\ UNCHANGED <<request, expected, draft, before>> /\ committed' = committed \cup {t}
    BY DEF CommitAs, Finish, Goto
  <2>2. stored' \in [Txns -> Version \cup {None}]
    <3>1. write[t] # None /\ write[t].value = draft[t] /\ draft[t] \in Version \cup {None}
      BY CommitFacts
    <3>2. stored' = [r \in Txns |-> IF r \in write[t].rows THEN write[t].value ELSE stored[r]]
      BY DEF CommitAs
    <3> QED BY <3>1, <3>2 DEF IndInv, TypeOK
  <2>3. pc' \in [Txns -> {"idle", "read", "update", "insert", "retry", "upsert",
                          "delete", "commit", "done"}]
        /\ answer' \in [Txns -> {"none", "ok", "refused", "failed"}]
        /\ seen' \in [Txns -> {None} \cup SUBSET Txns]
        /\ write' \in [Txns -> [rows: SUBSET Txns, value: Version \cup {None}] \cup {None}]
    BY <2>1 DEF IndInv, TypeOK
  <2>4. \A u \in Txns : write'[u] # None => /\ u # t /\ write'[u] = write[u]
                                           /\ pc'[u] = pc[u]
    BY CommitFacts
  <2> QED BY <2>1, <2>2, <2>3, <2>4 DEF IndInv, TypeOK
<1>2. TxnOK(t)'
  <2>1. pc'[t] = "done" /\ seen'[t] = None /\ write'[t] = None /\ t \in committed'
        /\ request'[t] \in Requests /\ before'[t] = before[t] /\ committed \subseteq committed'
    BY CommitFacts
  <2>2. before[t] \subseteq committed
    BY DEF IndInv, TxnOK, ControlOK
  <2> QED BY <2>1, <2>2 DEF TxnOK, ControlOK, RowOK, WriteOK, CheckedOK, Writing
<1>3. ASSUME NEW u \in Txns PROVE TxnOK(u)'
  BY <1>2, CommitKeepsOthers
<1>4. KeyOK'
  BY CommitKeepsKeys DEF KeyOK
<1>5. ASSUME NEW k \in Keyed, NEW u \in Txns, Touches(u, k)' PROVE Touches(u, k)
  <2>1. u # t /\ write'[u] = write[u] /\ write[u] # None
    BY <1>5, CommitFacts DEF Touches
  <2>2. \A r \in write[u].rows : stored'[r] = stored[r]
    BY <2>1, CommitFacts DEF IndInv, TypeOK
  <2> QED BY <1>5, <2>1, <2>2 DEF Touches
<1>6. HoldOK'
  BY <1>5 DEF IndInv, HoldOK
<1> QED BY <1>1, <1>3, <1>4, <1>6 DEF IndInv

-----------------------------------------------------------------------------
(* IndInv is an invariant. *)
LEMMA InitHolds == Init => IndInv
<1> SUFFICES ASSUME Init PROVE IndInv
  OBVIOUS
<1>1. TypeOK
  BY DEF Init, TypeOK
<1>2. \A t \in Txns : TxnOK(t)
  BY DEF Init, TxnOK, ControlOK, RowOK, WriteOK, CheckedOK, Writing
<1>3. KeyOK /\ HoldOK
  BY DEF Init, KeyOK, HoldOK, RowsOf, Touches
<1> QED BY <1>1, <1>2, <1>3 DEF IndInv

LEMMA StutterHolds == IndInv /\ UNCHANGED vars => IndInv'
<1> SUFFICES ASSUME IndInv, UNCHANGED vars PROVE IndInv'
  OBVIOUS
<1>1. TypeOK'
  BY DEF vars, IndInv, TypeOK
<1>2. ASSUME NEW t \in Txns PROVE TxnOK(t)'
  <2>1. TxnOK(t)
    BY DEF IndInv
  <2>2. ControlOK(t)' /\ RowOK(t)'
    BY <2>1 DEF vars, TxnOK, ControlOK, RowOK, Writes
  <2>3. WriteOK(t)'
    BY <2>1 DEF vars, TxnOK, WriteOK, Targets, RowsOf, DeletedMeanwhile, Overtook, Meets, Writes
  <2>4. CheckedOK(t)'
    BY <2>1 DEF vars, TxnOK, CheckedOK, PreconditionMet, RowsOf, Overtaken, Overtook, Meets
  <2> QED BY <2>2, <2>3, <2>4 DEF TxnOK
<1>3. KeyOK' /\ HoldOK'
  BY DEF vars, IndInv, KeyOK, HoldOK, RowsOf, Touches
<1> QED BY <1>1, <1>2, <1>3 DEF IndInv

LEMMA StepHolds == IndInv /\ [Next]_vars => IndInv'
<1> SUFFICES ASSUME IndInv, [Next]_vars PROVE IndInv'
  OBVIOUS
<1>1. ASSUME NEW t \in Txns, NEW q \in Requests, Receive(t, q) PROVE IndInv'
  BY <1>1, ReceiveStep
<1>2. ASSUME NEW t \in Txns, Read(t) PROVE IndInv'
  BY <1>2, ReadStep
<1>3. ASSUME NEW t \in Txns, Update(t) PROVE IndInv'
  BY <1>3, UpdateStep DEF Update
<1>4. ASSUME NEW t \in Txns, Insert(t) PROVE IndInv'
  BY <1>4, InsertStep
<1>5. ASSUME NEW t \in Txns, RetryUpdate(t) PROVE IndInv'
  BY <1>5, UpdateStep DEF RetryUpdate
<1>6. ASSUME NEW t \in Txns, Upsert(t) PROVE IndInv'
  BY <1>6, UpsertStep
<1>7. ASSUME NEW t \in Txns, Delete(t) PROVE IndInv'
  BY <1>7, UpdateStep DEF Delete
<1>8. ASSUME NEW t \in Txns, Commit(t) \/ CommitUnacknowledged(t) PROVE IndInv'
  BY <1>8, CommitStep DEF Commit, CommitUnacknowledged
<1>9. ASSUME NEW t \in Txns, Wait(t) PROVE IndInv'
  BY <1>9, WaitStep
<1>10. ASSUME NEW t \in Txns, Fail(t) PROVE IndInv'
  BY <1>10, RollbackStep DEF Fail
<1>11. CASE UNCHANGED vars
  BY <1>11, StutterHolds
<1> QED
  BY <1>1, <1>2, <1>3, <1>4, <1>5, <1>6, <1>7, <1>8, <1>9, <1>10, <1>11
     DEF Next, Step, Terminated

THEOREM Invariance == Spec => []IndInv
BY InitHolds, StepHolds, PTL DEF Spec

(* Every variable keeps its type, only a transaction in progress has uncommitted
   rows and no two have the same one. *)
THEOREM TypeCorrect == Spec => []TypeOK
<1>1. IndInv => TypeOK
  BY DEF IndInv
<1> QED BY <1>1, Invariance, PTL

-----------------------------------------------------------------------------
(* The steps that commit are COMMITs. *)
LEMMA OnlyCommitCommits ==
    ASSUME IndInv, [Next]_vars, NEW t \in Txns, Commits(t)
    PROVE  \E response \in {"ok", "failed"} : CommitAs(t, response)
<1>1. t \in committed' /\ t \notin committed
  BY DEF Commits
<1>2. PICK u \in Txns : Commit(u) \/ CommitUnacknowledged(u)
  BY <1>1 DEF Next, Step, Terminated, vars, Receive, Read, Rollback, Wait, Update, Insert,
              RetryUpdate, Upsert, Delete, Write, Fail
<1>3. u = t
  BY <1>1, <1>2 DEF Commit, CommitUnacknowledged, CommitAs
<1> QED BY <1>2, <1>3 DEF Commit, CommitUnacknowledged

(* The last PUT or POST to commit is what is read, for every State document with
   a registration and every profile document, whichever way its rows came to be:
   UPDATE, INSERT, the retried UPDATE or the upsert. *)
THEOREM LastWriteIsRead == Spec => LastWriteWins
<1>1. ASSUME IndInv, [Next]_vars, NEW t \in Txns, Commits(t), Writes(t),
             NEW k \in request[t].docs \cap Keyed
      PROVE  WinsOn(k, t)
  <2>1. PICK response \in {"ok", "failed"} : CommitAs(t, response)
    BY <1>1, OnlyCommitCommits
  <2>2. Readable(k)' = {draft[t]} \/ DeletedMeanwhile(t)
    BY <1>1, <2>1, CommitKeepsKeys
  <2> QED BY <2>2 DEF WinsOn, DeletedMeanwhile
<1>2. IndInv /\ [Next]_vars =>
        [\A t \in Txns : Commits(t) /\ Writes(t) =>
            \A k \in request[t].docs \cap Keyed : WinsOn(k, t)]_vars
  BY <1>1
<1> QED BY <1>2, Invariance, PTL DEF Spec, LastWriteWins

(* If-Match, If-None-Match and the refusal of a PUT without either hold of what
   is replaced unless another request on the document committed meanwhile. *)
THEOREM OvertakenOrMet == Spec => PreconditionsFailOnlyWhenOvertaken
<1>1. ASSUME IndInv, [Next]_vars, NEW t \in Txns, Commits(t), request[t].method # "DELETE ALL",
             request[t].docs \subseteq Keyed
      PROVE  PreconditionMet(t) \/ \E u \in Txns : Overtook(u, t)
  <2>1. pc[t] = "commit"
    BY <1>1, OnlyCommitCommits DEF CommitAs
  <2> QED BY <1>1, <2>1 DEF IndInv, TxnOK, CheckedOK, Overtaken
<1>2. IndInv /\ [Next]_vars =>
        [\A t \in Txns : Commits(t) /\ request[t].method # "DELETE ALL"
                         /\ request[t].docs \subseteq Keyed =>
            \/ PreconditionMet(t)
            \/ \E u \in Txns : Overtook(u, t)]_vars
  BY <1>1
<1> QED BY <1>2, Invariance, PTL DEF Spec, PreconditionsFailOnlyWhenOvertaken

-----------------------------------------------------------------------------
(* That nothing is lost without overlap needs more: what a merge has read, and
   that a write misses only rows which appeared while it was in progress. *)
Superseded(s) ==
    \E u \in committed \ (before[s] \cup {s}) :
        Meets(s, u) /\ (s \notin before[u] \/ request[u].method # "POST")

Kept(s, k) == Readable(k) # {} /\ \A v \in Readable(k) : s \in v.data

(* Every row there was when t arrived is among rows. *)
Covers(t, rows) == \A r \in RowsOf(request[t].docs) : r \in rows \/ r \notin before[t]

MergeOK(t) ==
    /\ stored[t] # None => stored[t].doc \in request[t].docs
    /\ pc[t] \in Writing \cup {"commit"} /\ Writes(t) =>
         /\ t \in draft[t].data
         /\ request[t].method = "POST" => \A s \in before[t] :
                Writes(s) /\ Meets(s, t) => s \in draft[t].data \/ Superseded(s)
    /\ seen[t] # None => Covers(t, seen[t])
    /\ pc[t] = "insert" => Covers(t, {})
    /\ pc[t] = "commit" /\ Writes(t) =>
         IF write[t].rows = {} THEN DeletedMeanwhile(t) ELSE Covers(t, write[t].rows)
    /\ t \in committed /\ Writes(t) => \A k \in request[t].docs : Kept(t, k) \/ Superseded(t)

Merging == \A t \in Txns : MergeOK(t)

LEMMA PastIsFixed ==
    ASSUME IndInv, NEW t \in Txns, OnlyChanges(t)
    PROVE  /\ \A s \in committed : request'[s] = request[s]
           /\ t \notin committed => \A s \in committed : before'[s] = before[s]
           /\ committed' = committed /\ stored' = stored /\ committed \subseteq Txns
  BY DEF OnlyChanges, IndInv, TypeOK

LEMMA MergeLocal ==
    ASSUME IndInv, \A u \in Txns : MergeOK(u), NEW t \in Txns, OnlyChanges(t),
           t \notin committed, MergeOK(t)'
    PROVE  \A u \in Txns : MergeOK(u)'
<1>1. /\ \A s \in committed : request'[s] = request[s] /\ before'[s] = before[s]
      /\ committed' = committed /\ stored' = stored /\ committed \subseteq Txns
  BY PastIsFixed
<1> SUFFICES ASSUME NEW u \in Txns, u # t PROVE MergeOK(u)'
  OBVIOUS
<1>2. /\ request'[u] = request[u] /\ pc'[u] = pc[u] /\ draft'[u] = draft[u]
      /\ seen'[u] = seen[u] /\ write'[u] = write[u] /\ before'[u] = before[u]
  BY DEF OnlyChanges
<1>3. before[u] \subseteq committed
  BY DEF IndInv, TxnOK, ControlOK
<1>4. ASSUME NEW s \in Txns, s \in committed \/ s = u
      PROVE  (Superseded(s) => Superseded(s)') /\ (Meets(s, u)' = Meets(s, u))
             /\ Writes(s)' = Writes(s)
  BY <1>1, <1>2, <1>4 DEF Superseded, Meets, Writes
<1>5. DeletedMeanwhile(u) => DeletedMeanwhile(u)'
  BY <1>1, <1>2 DEF DeletedMeanwhile, Overtook, Meets, Writes
<1>6. /\ Covers(u, seen[u]) => Covers(u, seen[u])'
      /\ Covers(u, {}) => Covers(u, {})'
      /\ Covers(u, write[u].rows) => Covers(u, write[u].rows)'
  BY <1>1, <1>2 DEF Covers, RowsOf
<1>7. ASSUME NEW k PROVE Kept(u, k) => Kept(u, k)'
  BY <1>1 DEF Kept, Readable, RowsOf
<1>8. MergeOK(u) /\ (Superseded(u) => Superseded(u)') /\ Writes(u)' = Writes(u)
  BY <1>4
<1>9. pc[u] \in Writing \cup {"commit"} /\ Writes(u) =>
         /\ u \in draft[u].data
         /\ request[u].method = "POST" => \A s \in before[u] :
                Writes(s)' /\ Meets(s, u)' => s \in draft[u].data \/ Superseded(s)'
  BY <1>1, <1>3, <1>4, <1>8 DEF MergeOK
<1>10. u \in committed /\ Writes(u) => \A k \in request[u].docs : Kept(u, k)' \/ Superseded(u)'
  BY <1>7, <1>8 DEF MergeOK
<1>11. /\ seen[u] # None => Covers(u, seen[u])'
       /\ pc[u] = "insert" => Covers(u, {})'
       /\ pc[u] = "commit" /\ Writes(u) =>
            IF write[u].rows = {} THEN DeletedMeanwhile(u)' ELSE Covers(u, write[u].rows)'
  BY <1>5, <1>6, <1>8 DEF MergeOK
<1> QED BY <1>1, <1>2, <1>8, <1>9, <1>10, <1>11 DEF MergeOK

(* Steps of t that neither read nor write the tables. *)
LEMMA MergeQuiet ==
    ASSUME IndInv, \A u \in Txns : MergeOK(u), NEW t \in Txns, OnlyChanges(t),
           t \notin committed, stored[t] = None, seen'[t] = None,
           pc'[t] \in {"read", "delete", "done"}
    PROVE  \A u \in Txns : MergeOK(u)'
<1>1. t \notin committed' /\ stored'[t] = None
  BY DEF OnlyChanges
<1>2. MergeOK(t)'
  <2>1. pc'[t] = "commit" /\ Writes(t)' => FALSE
    OBVIOUS
  <2> QED BY <1>1, <2>1 DEF MergeOK, Writing
<1> QED BY <1>2, MergeLocal

LEMMA MergeReceive ==
    ASSUME IndInv, \A u \in Txns : MergeOK(u), NEW t \in Txns, NEW q \in Requests, Receive(t, q)
    PROVE  \A u \in Txns : MergeOK(u)'
<1>1. t \notin committed /\ stored[t] = None /\ seen'[t] = None
      /\ pc'[t] \in {"read", "delete", "done"}
  <2>1. pc[t] = "idle" /\ seen' = seen
    BY DEF Receive
  <2>2. t \notin committed /\ stored[t] = None /\ seen[t] = None
    BY <2>1 DEF IndInv, TxnOK, ControlOK
  <2>3. pc'[t] \in {"read", "delete", "done"}
    BY DEF Receive, Goto, IndInv, TypeOK
  <2> QED BY <2>1, <2>2, <2>3
<1>2. OnlyChanges(t)
  BY <1>1 DEF OnlyChanges, Receive, Goto, IndInv, TypeOK
<1> QED BY <1>1, <1>2, MergeQuiet

LEMMA MergeRollback ==
    ASSUME IndInv, \A u \in Txns : MergeOK(u), NEW t \in Txns, NEW response,
           Active(t), Rollback(t, response)
    PROVE  \A u \in Txns : MergeOK(u)'
<1>1. t \notin committed /\ stored[t] = None /\ seen'[t] = None /\ pc'[t] = "done"
  <2>1. t \notin committed /\ stored[t] = None
    BY DEF Active, IndInv, TxnOK, ControlOK
  <2>2. seen'[t] = None /\ pc'[t] = "done"
    BY DEF Rollback, Finish, Goto, IndInv, TypeOK
  <2> QED BY <2>1, <2>2
<1>2. OnlyChanges(t)
  BY <1>1 DEF OnlyChanges, Rollback, Finish, Goto, IndInv, TypeOK
<1> QED BY <1>1, <1>2, MergeQuiet

LEMMA MergeWait ==
    ASSUME IndInv, \A u \in Txns : MergeOK(u), NEW t \in Txns, Wait(t)
    PROVE  \A u \in Txns : MergeOK(u)'
<1>1. UNCHANGED <<request, expected, pc, draft, write, answer, committed, stored, before>>
      /\ seen'[t] = Targets(t) /\ pc[t] \in {"update", "retry", "delete"}
  BY DEF Wait, IndInv, TypeOK
<1>2. t \notin committed /\ stored[t] = None
  BY <1>1 DEF IndInv, TxnOK, ControlOK
<1>3. OnlyChanges(t)
  BY <1>1 DEF OnlyChanges, Wait, IndInv, TypeOK
<1>4. Covers(t, seen[t])'
  BY <1>1 DEF Covers, Wait, Targets, RowsOf
<1>5. \A s \in before[t] : (Superseded(s) => Superseded(s)') /\ (Meets(s, t)' = Meets(s, t))
                           /\ (Writes(s)' = Writes(s))
  BY <1>1 DEF Superseded, Meets, Writes
<1>6. Writes(t)' = Writes(t) /\ MergeOK(t)
  BY <1>1 DEF Writes
<1>7. pc[t] \in Writing \cup {"commit"} /\ Writes(t) =>
         /\ t \in draft[t].data
         /\ request[t].method = "POST" => \A s \in before[t] :
                Writes(s)' /\ Meets(s, t)' => s \in draft[t].data \/ Superseded(s)'
  BY <1>5, <1>6 DEF MergeOK
<1>8. MergeOK(t)'
  BY <1>1, <1>2, <1>4, <1>6, <1>7 DEF MergeOK
<1> QED BY <1>2, <1>3, <1>8, MergeLocal

LEMMA MergeRead ==
    ASSUME IndInv, \A u \in Txns : MergeOK(u), NEW t \in Txns, Read(t)
    PROVE  \A u \in Txns : MergeOK(u)'
<1>1. pc[t] = "read" /\ seen[t] = None /\ t \notin committed /\ stored[t] = None
      /\ request[t] \in Requests /\ request[t].method # "DELETE ALL"
      /\ before[t] \subseteq committed
  BY DEF Read, IndInv, TxnOK, ControlOK
<1>2. PICK v \in IF RowsOf(request[t].docs) = {} THEN {None}
                  ELSE {stored[r] : r \in RowsOf(request[t].docs)} :
         \/ Rollback(t, "refused")
         \/ /\ \/ Goto(t, "delete")
               \/ /\ request[t].method # "DELETE"
                  /\ Goto(t, IF request[t].docs \subseteq Profiles THEN "upsert" ELSE "update")
                  /\ draft' = [draft EXCEPT ![t] = Merged(t, v)]
            /\ \A u \in Txns \ {t} : draft'[u] = draft[u]
            /\ UNCHANGED <<request, expected, seen, write, answer, committed, stored, before>>
  BY DEF Read, IndInv, TypeOK
<1>3. CASE Rollback(t, "refused")
  BY <1>1, <1>3, MergeRollback DEF Active
<1>4. CASE ~Rollback(t, "refused")
  <2>1. UNCHANGED <<request, expected, seen, write, answer, committed, stored, before>>
        /\ \A u \in Txns \ {t} : draft'[u] = draft[u]
    BY <1>2, <1>4
  <2>2. OnlyChanges(t)
    BY <1>2, <1>4, <2>1 DEF OnlyChanges, Goto, IndInv, TypeOK
  <2>3. CASE Goto(t, "delete")
    <3>1. pc'[t] = "delete"
      BY <2>3 DEF Goto, IndInv, TypeOK
    <3> QED BY <1>1, <2>1, <2>2, <3>1, MergeQuiet
  <2>4. CASE ~Goto(t, "delete")
    <3>1. pc'[t] \in {"upsert", "update"} /\ draft'[t] = Merged(t, v)
      BY <1>2, <1>4, <2>4 DEF Goto, IndInv, TypeOK
    <3>2. Merged(t, v).data =
            {t} \cup (IF request[t].method = "POST" /\ v # None THEN v.data ELSE {})
      BY DEF Merged
    <3>3. PICK k \in Docs : request[t].docs = {k}
      BY <1>1, RequestShape
    <3>4. ASSUME request[t].method = "POST", NEW s \in before[t], Writes(s), Meets(s, t)
          PROVE  s \in Merged(t, v).data \/ Superseded(s)
      <4>1. s \in committed /\ s \in Txns /\ k \in request[s].docs
        BY <1>1, <3>3, <3>4 DEF Meets, IndInv, TypeOK
      <4>2. Kept(s, k) \/ Superseded(s)
        BY <3>4, <4>1 DEF MergeOK
      <4>3. ASSUME Kept(s, k) PROVE v # None /\ s \in v.data
        <5>1. Readable(k) = {stored[r] : r \in RowsOf(request[t].docs)}
              /\ RowsOf(request[t].docs) # {}
          BY <3>3, <4>3 DEF Kept, Readable
        <5>2. v \in Readable(k)
          BY <5>1
        <5> QED BY <4>3, <5>1, <5>2 DEF Kept, RowsOf
      <4> QED BY <3>2, <3>4, <4>2, <4>3
    <3>5. \A s \in before[t] : (Superseded(s) => Superseded(s)') /\ (Meets(s, t)' = Meets(s, t))
                               /\ (Writes(s)' = Writes(s))
      BY <2>1 DEF Superseded, Meets, Writes
    <3>6. /\ t \in draft'[t].data
          /\ request[t].method = "POST" => \A s \in before[t] :
                Writes(s)' /\ Meets(s, t)' => s \in draft'[t].data \/ Superseded(s)'
      BY <3>1, <3>2, <3>4, <3>5
    <3>7. MergeOK(t)'
      BY <1>1, <2>1, <3>1, <3>6 DEF MergeOK
    <3> QED BY <1>1, <2>2, <3>7, MergeLocal
  <2> QED BY <2>3, <2>4
<1> QED BY <1>3, <1>4

(* Targets are all the rows there were when t arrived. *)
LEMMA TargetsCover ==
    ASSUME IndInv, NEW t \in Txns, MergeOK(t)
    PROVE  Covers(t, Targets(t))
BY DEF Covers, MergeOK, Targets, RowsOf

LEMMA MergeWrite ==
    ASSUME IndInv, \A u \in Txns : MergeOK(u), NEW t \in Txns, NEW rows, NEW label,
           Write(t, rows, label), pc[t] \in Writing \cup {"delete"},
           rows \in SUBSET Txns,
           label \in {"insert", "retry", "commit"},
           label = "insert" => Covers(t, {}),
           label = "commit" /\ Writes(t) =>
               IF rows = {} THEN DeletedMeanwhile(t) ELSE Covers(t, rows)
    PROVE  \A u \in Txns : MergeOK(u)'
<1>1. UNCHANGED <<request, expected, draft, answer, committed, stored, before>>
      /\ pc'[t] = label /\ seen'[t] = None
      /\ write'[t] = [rows |-> rows, value |-> draft[t]]
  BY DEF Write, Goto, IndInv, TypeOK
<1>2. t \notin committed /\ stored[t] = None
      /\ (Writes(t) => pc[t] \in Writing)
  BY DEF IndInv, TxnOK, ControlOK, Writing
<1>3. OnlyChanges(t)
  BY <1>1 DEF OnlyChanges, Write, Goto, IndInv, TypeOK
<1>4. \A s \in before[t] : (Superseded(s) => Superseded(s)') /\ (Meets(s, t)' = Meets(s, t))
                           /\ (Writes(s)' = Writes(s))
  BY <1>1 DEF Superseded, Meets, Writes
<1>5. Writes(t)' = Writes(t) /\ MergeOK(t)
  BY <1>1 DEF Writes
<1>6. Writes(t) =>
         /\ t \in draft[t].data
         /\ request[t].method = "POST" => \A s \in before[t] :
                Writes(s)' /\ Meets(s, t)' => s \in draft[t].data \/ Superseded(s)'
  BY <1>2, <1>4, <1>5 DEF MergeOK
<1>7. /\ label = "insert" => Covers(t, {})'
      /\ label = "commit" /\ Writes(t) =>
             IF rows = {} THEN DeletedMeanwhile(t)' ELSE Covers(t, write[t].rows)'
  BY <1>1 DEF Covers, RowsOf, DeletedMeanwhile, Overtook, Meets, Writes
<1>8. write'[t].rows = rows
  BY <1>1
<1>9. MergeOK(t)'
  BY <1>1, <1>2, <1>5, <1>6, <1>7, <1>8 DEF MergeOK
<1> QED BY <1>2, <1>3, <1>9, MergeLocal

LEMMA MergeUpdate ==
    ASSUME IndInv, \A u \in Txns : MergeOK(u), NEW t \in Txns,
           pc[t] \in {"update", "retry", "delete"}, NEW label, Write(t, Targets(t), label),
           label = "insert" => Targets(t) = {},
           label # "insert" => label = "commit" /\ (pc[t] = "update" => Targets(t) # {})
    PROVE  \A u \in Txns : MergeOK(u)'
<1>1. Covers(t, Targets(t)) /\ Targets(t) \in SUBSET Txns
  BY TargetsCover, TargetsFound
<1>2. Writes(t) => pc[t] \in {"update", "retry"}
  BY DEF IndInv, TxnOK, ControlOK
<1>3. pc[t] = "retry" => Targets(t) # {} \/ DeletedMeanwhile(t)
  BY DEF IndInv, TxnOK, WriteOK
<1>4. pc[t] \in Writing \cup {"delete"} /\ label \in {"insert", "retry", "commit"}
  BY DEF Writing
<1> QED BY <1>1, <1>2, <1>3, <1>4, MergeWrite

LEMMA MergeInsert ==
    ASSUME IndInv, \A u \in Txns : MergeOK(u), NEW t \in Txns, Insert(t)
    PROVE  \A u \in Txns : MergeOK(u)'
<1>1. pc[t] = "insert" /\ pc[t] \in Writing /\ Covers(t, {})
      /\ (Write(t, {}, "retry") \/ Write(t, {t}, "commit"))
  BY DEF Insert, Writing, MergeOK
<1>2. Covers(t, {t})
  BY <1>1 DEF Covers
<1>3. {t} # {} /\ {t} \in SUBSET Txns
  OBVIOUS
<1> QED BY <1>1, <1>2, <1>3, MergeWrite

LEMMA MergeUpsert ==
    ASSUME IndInv, \A u \in Txns : MergeOK(u), NEW t \in Txns, Upsert(t)
    PROVE  \A u \in Txns : MergeOK(u)'
<1> DEFINE rows == IF RowsOf(request[t].docs) = {} THEN {t} ELSE RowsOf(request[t].docs)
<1>1. pc[t] = "upsert" /\ pc[t] \in Writing /\ Write(t, rows, "commit")
  BY DEF Upsert, Writing
<1>2. Covers(t, rows) /\ rows # {} /\ rows \in SUBSET Txns
  BY DEF Covers, RowsOf
<1> HIDE DEF rows
<1> QED BY <1>1, <1>2, MergeWrite

LEMMA MergeCommitFrame ==
    ASSUME IndInv, NEW t \in Txns, NEW response, CommitAs(t, response),
           NEW s \in committed
    PROVE  /\ Superseded(s) => Superseded(s)'
           /\ s \notin before[t] /\ Meets(s, t) => Superseded(s)'
           /\ Meets(s, t) /\ request[t].method # "POST" => Superseded(s)'
<1>1. UNCHANGED <<request, before>> /\ committed' = committed \cup {t} /\ t \notin committed
  BY CommitFacts
<1>2. t \notin before[s]
  BY <1>1 DEF IndInv, TypeOK, TxnOK, ControlOK
<1> QED BY <1>1, <1>2 DEF Superseded, Meets

(* What the commit of t leaves of the data of s, which committed before. *)
LEMMA CommitKeepsData ==
    ASSUME IndInv, \A u \in Txns : MergeOK(u), NEW t \in Txns, NEW response, CommitAs(t, response),
           NEW s \in committed, Writes(s), NEW k \in request[s].docs
    PROVE  Kept(s, k)' \/ Superseded(s)'
<1>1. s \in Txns /\ s # t /\ UNCHANGED <<request, draft, before>>
  BY CommitFacts DEF IndInv, TypeOK
<1>2. Kept(s, k) \/ Superseded(s)
  BY <1>1 DEF MergeOK
<1>3. CASE Superseded(s)
  BY <1>3, MergeCommitFrame
<1>4. CASE Kept(s, k) /\ k \notin request[t].docs
  <2>1. RowsOf({k})' = RowsOf({k}) /\ \A r \in RowsOf({k}) : stored'[r] = stored[r]
    BY <1>4, CommitElsewhere
  <2> QED BY <1>4, <2>1 DEF Kept, Readable
<1>5. CASE Kept(s, k) /\ k \in request[t].docs
  <2>1. Meets(s, t)
    BY <1>5 DEF Meets
  <2>2. CASE s \notin before[t] \/ request[t].method # "POST"
    BY <2>1, <2>2, MergeCommitFrame
  <2>3. CASE s \in before[t] /\ request[t].method = "POST"
    <3>1. pc[t] = "commit" /\ Writes(t) /\ draft[t] # None
      BY <2>3, CommitFacts DEF Writes
    <3>2. s \in draft[t].data \/ Superseded(s)
      BY <2>1, <2>3, <3>1 DEF MergeOK
    <3>3. CASE Superseded(s)
      BY <3>3, MergeCommitFrame
    <3>4. CASE s \in draft[t].data
      <4>1. ASSUME NEW r \in RowsOf({k})' PROVE s \in stored'[r].data
        <5>1. r \in Txns /\ stored'[r] # None /\ stored'[r].doc = k
          BY <4>1 DEF RowsOf
        <5>2. CASE r \in write[t].rows
          BY <3>4, <5>2, CommitFacts
        <5>3. CASE r \notin write[t].rows
          <6>1. stored'[r] = stored[r] /\ r \in RowsOf({k})
            BY <5>1, <5>3, CommitFacts DEF RowsOf
          <6> QED BY <1>5, <6>1 DEF Kept, Readable
        <5> QED BY <5>2, <5>3
      <4>2. PICK r \in RowsOf({k}) : TRUE
        BY <1>5 DEF Kept, Readable
      <4>3. PICK d \in Docs : request[t].docs = {d}
        BY <3>1, Served, CommitFacts
      <4>4. r \in RowsOf({k})'
        <5>1. CASE r \in write[t].rows
          BY <1>5, <3>1, <4>2, <4>3, <5>1, CommitFacts DEF RowsOf
        <5>2. CASE r \notin write[t].rows
          BY <4>2, <5>2, CommitFacts DEF RowsOf
        <5> QED BY <5>1, <5>2
      <4> QED BY <4>1, <4>4 DEF Kept, Readable
    <3> QED BY <3>2, <3>3, <3>4
  <2> QED BY <2>2, <2>3
<1> QED BY <1>2, <1>3, <1>4, <1>5

(* What the commit of t leaves of its own data. *)
LEMMA CommitKeepsOwnData ==
    ASSUME IndInv, \A u \in Txns : MergeOK(u), NEW t \in Txns, NEW response, CommitAs(t, response),
           Writes(t), NEW k \in request[t].docs
    PROVE  Kept(t, k)' \/ Superseded(t)'
<1>1. /\ UNCHANGED <<request, before>> /\ committed' = committed \cup {t} /\ t \notin committed
      /\ pc[t] = "commit" /\ t \in draft[t].data
      /\ committed \subseteq Txns
  BY CommitFacts DEF MergeOK, IndInv, TypeOK
<1>2. PICK d \in Docs : request[t].docs = {d}
  BY <1>1, Served
<1>3. draft[t] # None /\ draft[t].doc = k /\ request[t].docs = {k}
  BY <1>2, CommitFacts
<1>4. ASSUME NEW u \in committed \ before[t], Meets(u, t) PROVE Superseded(t)'
  <2>1. t \notin before[u]
    BY <1>1, <1>4 DEF IndInv, TxnOK, ControlOK
  <2> QED BY <1>1, <1>4, <2>1 DEF Superseded, Meets
<1>5. CASE write[t].rows = {}
  <2>1. DeletedMeanwhile(t)
    BY <1>1, <1>5 DEF MergeOK
  <2> QED BY <1>4, <2>1 DEF DeletedMeanwhile, Overtook, Meets
<1>6. CASE write[t].rows # {}
  <2>1. Covers(t, write[t].rows)
    BY <1>1, <1>6 DEF MergeOK
  <2>2. CASE \E r \in RowsOf({k}) : r \notin write[t].rows
    <3>1. PICK r \in RowsOf({k}) : r \notin write[t].rows
      BY <2>2
    <3>2. r \in Txns /\ stored[r] # None /\ stored[r].doc = k /\ r \notin before[t]
      BY <1>3, <2>1, <3>1 DEF Covers, RowsOf
    <3>3. r \in committed /\ k \in request[r].docs
      BY <3>2 DEF IndInv, TxnOK, ControlOK, MergeOK
    <3> QED BY <1>3, <1>4, <3>2, <3>3 DEF Meets
  <2>3. CASE \A r \in RowsOf({k}) : r \in write[t].rows
    <3>1. ASSUME NEW r \in RowsOf({k})' PROVE r \in write[t].rows
      <4>1. r \in Txns /\ stored'[r] # None /\ stored'[r].doc = k
        BY <3>1 DEF RowsOf
      <4>2. CASE r \notin write[t].rows
        <5>1. r \in RowsOf({k})
          BY <4>1, <4>2, CommitFacts DEF RowsOf
        <5> QED BY <2>3, <5>1
      <4> QED BY <4>2
    <3>2. ASSUME NEW r \in write[t].rows PROVE r \in RowsOf({k})' /\ stored'[r] = draft[t]
      BY <1>3, CommitFacts DEF RowsOf
    <3> QED BY <1>1, <1>6, <3>1, <3>2 DEF Kept, Readable
  <2> QED BY <2>2, <2>3
<1> QED BY <1>5, <1>6

LEMMA MergeCommit ==
    ASSUME IndInv, \A u \in Txns : MergeOK(u), NEW t \in Txns, NEW response, CommitAs(t, response)
    PROVE  \A u \in Txns : MergeOK(u)'
<1>1. /\ UNCHANGED <<request, draft, before>> /\ committed' = committed \cup {t}
      /\ pc'[t] = "done" /\ seen'[t] = None /\ committed \subseteq Txns
  BY CommitFacts DEF IndInv, TypeOK
<1>2. ASSUME NEW r \in Txns, stored'[r] # None
      PROVE  \/ r = t /\ (stored[r] = None => stored'[r].doc \in request[t].docs)
             \/ stored[r] # None /\ stored'[r].doc = stored[r].doc
  <2>1. CASE r \notin write[t].rows
    BY <1>2, <2>1, CommitFacts
  <2>2. CASE r \in write[t].rows
    <3>1. stored'[r] = draft[t] /\ Writes(t) /\ draft[t].doc \in request[t].docs
          /\ (stored[r] = None => r = t)
          /\ (stored[r] # None => stored[r].doc \in request[t].docs)
      BY <1>2, <2>2, CommitFacts
    <3>2. PICK d \in Docs : request[t].docs = {d}
      BY <3>1, Served, CommitFacts
    <3> QED BY <3>1, <3>2
  <2> QED BY <2>1, <2>2
<1>3. ASSUME NEW u \in Txns, stored'[u] # None PROVE stored'[u].doc \in request[u].docs
  <2>1. stored[u] # None => stored[u].doc \in request[u].docs
    BY DEF MergeOK
  <2>2. stored[t] = None
    BY CommitFacts DEF IndInv, TxnOK, ControlOK
  <2> QED BY <1>2, <1>3, <2>1, <2>2
<1>4. ASSUME NEW s \in committed', Writes(s)', NEW k \in request'[s].docs
      PROVE  Kept(s, k)' \/ Superseded(s)'
  <2>1. Writes(s) /\ k \in request[s].docs
    BY <1>1, <1>4 DEF Writes
  <2>2. CASE s = t
    BY <2>1, <2>2, CommitKeepsOwnData
  <2>3. CASE s # t
    <3>1. s \in committed
      BY <1>1, <1>4, <2>3
    <3> QED BY <2>1, <3>1, CommitKeepsData
  <2> QED BY <2>2, <2>3
<1>5. MergeOK(t)'
  <2>1. \A k \in request'[t].docs : Writes(t)' => Kept(t, k)' \/ Superseded(t)'
    BY <1>1, <1>4
  <2> QED BY <1>1, <1>3, <2>1 DEF MergeOK, Writing
<1>6. ASSUME NEW u \in Txns, u # t PROVE MergeOK(u)'
  <2>1. MergeOK(u) /\ pc'[u] = pc[u] /\ seen'[u] = seen[u] /\ write'[u] = write[u]
        /\ Writes(u)' = Writes(u) /\ before[u] \subseteq committed
    <3>1. pc'[u] = pc[u] /\ seen'[u] = seen[u] /\ write'[u] = write[u]
      BY <1>6, CommitFacts
    <3>2. before[u] \subseteq committed
      BY DEF IndInv, TxnOK, ControlOK
    <3>3. MergeOK(u)
      OBVIOUS
    <3>4. Writes(u)' = Writes(u)
      BY <1>1 DEF Writes
    <3> QED BY <3>1, <3>2, <3>3, <3>4
  <2>2. t \notin before[u]
    BY <2>1, CommitFacts
  <2>3. ASSUME NEW r \in RowsOf(request[u].docs)' PROVE r \in RowsOf(request[u].docs) \/ r = t
    BY <1>1, <1>2 DEF RowsOf
  <2>4. /\ Covers(u, seen[u]) => Covers(u, seen[u])'
        /\ Covers(u, {}) => Covers(u, {})'
        /\ Covers(u, write[u].rows) => Covers(u, write[u].rows)'
    BY <1>1, <2>1, <2>2, <2>3 DEF Covers
  <2>5. DeletedMeanwhile(u) => DeletedMeanwhile(u)'
    BY <1>1 DEF DeletedMeanwhile, Overtook, Meets, Writes
  <2>6. ASSUME NEW s \in before[u]
        PROVE  /\ Superseded(s) => Superseded(s)'
               /\ Meets(s, u)' = Meets(s, u) /\ Writes(s)' = Writes(s)
    BY <1>1, <2>1, MergeCommitFrame DEF Meets, Writes
  <2>7. pc[u] \in Writing \cup {"commit"} /\ Writes(u) =>
         /\ u \in draft[u].data
         /\ request[u].method = "POST" => \A s \in before[u] :
                Writes(s)' /\ Meets(s, u)' => s \in draft[u].data \/ Superseded(s)'
    BY <2>1, <2>6 DEF MergeOK
  <2>8. /\ seen[u] # None => Covers(u, seen[u])'
        /\ pc[u] = "insert" => Covers(u, {})'
        /\ pc[u] = "commit" /\ Writes(u) =>
             IF write[u].rows = {} THEN DeletedMeanwhile(u)' ELSE Covers(u, write[u].rows)'
    BY <2>1, <2>4, <2>5 DEF MergeOK
  <2>9. u \in committed' /\ Writes(u)' => \A k \in request'[u].docs : Kept(u, k)' \/ Superseded(u)'
    BY <1>4
  <2> QED BY <1>1, <1>3, <2>1, <2>7, <2>8, <2>9 DEF MergeOK
<1> QED BY <1>5, <1>6

LEMMA MergeStutter ==
    ASSUME IndInv, \A u \in Txns : MergeOK(u), UNCHANGED vars
    PROVE  \A u \in Txns : MergeOK(u)'
<1> SUFFICES ASSUME NEW u \in Txns PROVE MergeOK(u)'
  OBVIOUS
<1>1. MergeOK(u)
  OBVIOUS
<1>2. UNCHANGED <<request, pc, draft, seen, write, committed, stored, before>>
  BY DEF vars
<1> QED BY <1>1, <1>2 DEF MergeOK, Covers, RowsOf, DeletedMeanwhile, Overtook, Meets, Writes,
                         Kept, Readable, Superseded

LEMMA MergeStepHolds ==
    ASSUME IndInv, Merging, [Next]_vars
    PROVE  Merging'
<1>1. ASSUME NEW t \in Txns, NEW q \in Requests, Receive(t, q) PROVE Merging'
  BY <1>1, MergeReceive DEF Merging
<1>2. ASSUME NEW t \in Txns, Read(t) PROVE Merging'
  BY <1>2, MergeRead DEF Merging
<1>3. ASSUME NEW t \in Txns, Update(t) PROVE Merging'
  BY <1>3, MergeUpdate DEF Update, Merging
<1>4. ASSUME NEW t \in Txns, Insert(t) PROVE Merging'
  BY <1>4, MergeInsert DEF Merging
<1>5. ASSUME NEW t \in Txns, RetryUpdate(t) PROVE Merging'
  BY <1>5, MergeUpdate DEF RetryUpdate, Merging
<1>6. ASSUME NEW t \in Txns, Upsert(t) PROVE Merging'
  BY <1>6, MergeUpsert DEF Merging
<1>7. ASSUME NEW t \in Txns, Delete(t) PROVE Merging'
  BY <1>7, MergeUpdate DEF Delete, Merging
<1>8. ASSUME NEW t \in Txns, Commit(t) \/ CommitUnacknowledged(t) PROVE Merging'
  BY <1>8, MergeCommit DEF Commit, CommitUnacknowledged, Merging
<1>9. ASSUME NEW t \in Txns, Wait(t) PROVE Merging'
  BY <1>9, MergeWait DEF Merging
<1>10. ASSUME NEW t \in Txns, Fail(t) PROVE Merging'
  BY <1>10, MergeRollback DEF Fail, Merging
<1>11. CASE UNCHANGED vars
  BY <1>11, MergeStutter DEF Merging
<1> QED
  BY <1>1, <1>2, <1>3, <1>4, <1>5, <1>6, <1>7, <1>8, <1>9, <1>10, <1>11
     DEF Next, Step, Terminated

(* The data of a committed PUT or POST stays in its document until a PUT or a
   DELETE comes later, or unless another request on the document overlapped it;
   in particular a POST merges into everything that was there when it arrived. *)
THEOREM NothingLost == Spec => []NothingIsLostWithoutOverlap
<1>1. Init => Merging
  BY DEF Init, Merging, MergeOK, Writing
<1>2. IndInv /\ Merging /\ [Next]_vars => Merging'
  BY MergeStepHolds
<1>3. IndInv /\ Merging => NothingIsLostWithoutOverlap
  BY DEF IndInv, TypeOK, Merging, MergeOK, Kept, Superseded, NothingIsLostWithoutOverlap
<1> QED BY <1>1, <1>2, <1>3, Invariance, PTL DEF Spec

=============================================================================
