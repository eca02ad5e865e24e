--------------------------- MODULE Requests_proofs ---------------------------
(***************************************************************************)
(* For any requests, credentials, limits and clock: the limiter keeps its  *)
(* word, a form is answered as the request it stands for, and what is read *)
(* back, in any format, would be accepted again.                           *)
(***************************************************************************)
EXTENDS Requests, StatementSchema_proofs, SequenceTheorems

USE LimitsAssumption

-----------------------------------------------------------------------------
(* The limiter. *)

(* Of the requests of a key that were let through, those after t. *)
Since(key, t) == {a \in admitted : a[2] = key /\ a[3] > t}

InWindow(a) == {b \in admitted : b[2] = a[2] /\ a[3] - Window < b[3] /\ b[3] <= a[3]}

HistoryOK ==
    /\ now \in Nat /\ served \in Nat
    /\ IsFiniteSet(admitted)
    /\ \A a \in admitted : /\ a = <<a[1], a[2], a[3]>>
                           /\ a[1] \in Nat /\ a[1] < served
                           /\ a[3] \in Nat /\ a[3] <= now

(* A bucket holds what was let through, and all of it that still counts. *)
BucketsOK ==
    /\ \A k \in DOMAIN buckets : \A hit \in buckets[k] :
          \E a \in admitted : a[2] = k /\ hit = <<a[1], a[3]>>
    /\ \A a \in admitted : a[3] > now - Window =>
          Has(buckets, a[2]) /\ <<a[1], a[3]>> \in buckets[a[2]]

SparseOK ==
    \A a \in admitted : /\ Cardinality(Since(a[2], now - Window)) <= MaxRequests
                        /\ Cardinality(InWindow(a)) <= MaxRequests

(* Whoever waits until then finds a place, unless it is taken in between. *)
ToldOK ==
    \A k \in DOMAIN told : told[k] \in Int /\ Cardinality(Since(k, told[k] - Window)) < MaxRequests

LimiterOK == HistoryOK /\ BucketsOK /\ SparseOK /\ ToldOK

LEMMA WindowNat == Window \in Nat
BY DEF Window

(* A quotient rounded up is no less. *)
LEMMA RoundedUp ==
    ASSUME NEW x \in Int
    PROVE  /\ (x + Second - 1) \div Second \in Int
           /\ ((x + Second - 1) \div Second) * Second >= x
<1> DEFINE a == x + Second - 1
           d == a \div Second
           m == a % Second
<1>1. a \in Int
  OBVIOUS
<1>2. d \in Int /\ a = Second * d + m /\ m \in 0 .. (Second - 1)
  <2> HIDE DEF a
  <2> QED BY <1>1, SMT
<1>3. m \in Int /\ m <= Second - 1
  BY <1>2
<1> HIDE DEF d, m
<1>4. d * Second >= x
  BY <1>2, <1>3
<1> QED
  BY <1>2, <1>4 DEF d

(* What a bucket counts is what was let through in the last window. *)
LEMMA RecentIsSince ==
    ASSUME HistoryOK, BucketsOK, NEW key
    PROVE  /\ IsFiniteSet(Recent(key))
           /\ Cardinality(Recent(key)) = Cardinality(Since(key, now - Window))
           /\ \A hit \in Recent(key) : /\ hit[2] \in Nat /\ hit[2] > now - Window
                                       /\ \E a \in admitted : a[2] = key /\ hit = <<a[1], a[3]>>
           /\ \A a \in admitted : a[2] = key /\ a[3] > now - Window => <<a[1], a[3]>> \in Recent(key)
<1> DEFINE S == Since(key, now - Window)
           T == Recent(key)
           f == [a \in S |-> <<a[1], a[3]>>]
<1>1. \A hit \in T : hit[2] > now - Window /\ \E a \in admitted : a[2] = key /\ hit = <<a[1], a[3]>>
  BY DEF Recent, BucketsOK, Has
<1>2. \A a \in admitted : a[2] = key /\ a[3] > now - Window => <<a[1], a[3]>> \in T
  BY DEF Recent, BucketsOK, Has
<1>3. \A hit \in T : hit[2] \in Nat
  BY <1>1 DEF HistoryOK
<1>4. IsFiniteSet(S)
  BY FS_Subset, S \in SUBSET admitted DEF Since, HistoryOK
<1>5. f \in [S -> T]
  BY <1>2 DEF Since
<1>6. \A a, b \in S : f[a] = f[b] => a = b
  <2> SUFFICES ASSUME NEW a \in S, NEW b \in S, f[a] = f[b] PROVE a = b
    OBVIOUS
  <2>1. a = <<a[1], key, a[3]>> /\ b = <<b[1], key, b[3]>>
    BY DEF Since, HistoryOK
  <2>2. a[1] = b[1] /\ a[3] = b[3]
    OBVIOUS
  <2> QED BY <2>1, <2>2
<1>7. \A hit \in T : \E a \in S : f[a] = hit
  <2> SUFFICES ASSUME NEW hit \in T PROVE \E a \in S : f[a] = hit
    OBVIOUS
  <2>1. PICK a \in admitted : a[2] = key /\ hit = <<a[1], a[3]>>
    BY <1>1
  <2>2. hit[2] = a[3]
    BY <2>1
  <2>3. a \in S
    BY <1>1, <2>1, <2>2 DEF Since
  <2> QED BY <2>1, <2>3
<1>8. ExistsBijection(S, T)
  <2> HIDE DEF f, S, T
  <2>1. f \in Injection(S, T)
    BY <1>5, <1>6 DEF Injection, IsInjective
  <2>2. f \in Surjection(S, T)
    BY <1>5, <1>7 DEF Surjection
  <2> QED BY <2>1, <2>2 DEF ExistsBijection, Bijection
<1> HIDE DEF S, T
<1>9. IsFiniteSet(T) /\ Cardinality(T) = Cardinality(S)
  BY <1>4, <1>8, FS_Bijection
<1> QED
  BY <1>1, <1>2, <1>3, <1>9 DEF S, T

LEMMA OldestIsFirst ==
    ASSUME HistoryOK, BucketsOK, NEW key, Limited(key)
    PROVE  /\ \E hit \in Recent(key) : hit[2] = Oldest(key)
           /\ \A hit \in Recent(key) : Oldest(key) <= hit[2]
           /\ Oldest(key) \in Nat /\ Oldest(key) > now - Window
<1> DEFINE T == {hit[2] : hit \in Recent(key)}
<1>1. /\ IsFiniteSet(Recent(key))
      /\ \A hit \in Recent(key) : hit[2] \in Nat /\ hit[2] > now - Window
  BY RecentIsSince
<1>2. Recent(key) # {}
  BY <1>1, FS_EmptySet DEF Limited
<1>3. T \in SUBSET Nat /\ T # {}
  BY <1>1, <1>2
<1>4. \E x \in T : \A y \in T : x <= y
  <2> HIDE DEF T
  <2> QED BY <1>3, HasLeast
<1>5. \E x \in T : \A hit \in Recent(key) : x <= hit[2]
  BY <1>4
<1>6. Oldest(key) \in T /\ \A hit \in Recent(key) : Oldest(key) <= hit[2]
  <2> HIDE DEF T
  <2>1. Oldest(key) = CHOOSE x \in T : \A hit \in Recent(key) : x <= hit[2]
    BY DEF Oldest, T
  <2> QED BY <1>5, <2>1
<1> QED
  BY <1>1, <1>6

LEMMA RetryAfterIsEnough ==
    ASSUME HistoryOK, BucketsOK, NEW key, Limited(key)
    PROVE  /\ now + RetryAfter(key) * Second \in Int
           /\ now + RetryAfter(key) * Second >= Oldest(key) + Window
<1> DEFINE x == Oldest(key) + Window - now
           seconds == (x + Second - 1) \div Second
<1>1. x \in Int /\ x > 0
  BY OldestIsFirst, WindowNat DEF HistoryOK
<1>2. seconds \in Int /\ seconds * Second >= x
  <2> HIDE DEF x
  <2> QED BY <1>1, RoundedUp
<1>3. RetryAfter(key) = IF seconds < 1 THEN 1 ELSE seconds
  BY DEF RetryAfter
<1> HIDE DEF seconds
<1>4. seconds < 1 => seconds * Second <= 0
  BY <1>2, SMT
<1>5. RetryAfter(key) = seconds
  BY <1>1, <1>2, <1>3, <1>4
<1> HIDE DEF x
<1>6. RetryAfter(key) * Second \in Int /\ RetryAfter(key) * Second >= x
  BY <1>2, <1>5
<1> QED
  BY <1>6, OldestIsFirst, WindowNat DEF x, HistoryOK

(* The requests after a later time are among those after an earlier one. *)
LEMMA SinceShrinks ==
    ASSUME HistoryOK, NEW key, NEW s \in Int, NEW t \in Int, s <= t
    PROVE  /\ IsFiniteSet(Since(key, s)) /\ IsFiniteSet(Since(key, t))
           /\ Cardinality(Since(key, t)) \in Nat /\ Cardinality(Since(key, s)) \in Nat
           /\ Cardinality(Since(key, t)) <= Cardinality(Since(key, s))
<1>1. Since(key, s) \in SUBSET admitted /\ Since(key, t) \in SUBSET Since(key, s)
  BY DEF Since, HistoryOK
<1>2. IsFiniteSet(Since(key, s))
  BY <1>1, FS_Subset DEF HistoryOK
<1> QED
  BY <1>1, <1>2, FS_Subset, FS_CardinalityType

(* A key nobody was let through with has no request in the window. *)
LEMMA SparseForAll ==
    ASSUME HistoryOK, SparseOK, NEW key
    PROVE  Cardinality(Since(key, now - Window)) <= MaxRequests
<1>1. CASE \E a \in admitted : a[2] = key
  BY <1>1 DEF SparseOK
<1>2. CASE ~\E a \in admitted : a[2] = key
  <2>1. Since(key, now - Window) = {}
    BY <1>2 DEF Since
  <2> QED BY <2>1, FS_EmptySet
<1> QED
  BY <1>1, <1>2

-----------------------------------------------------------------------------
(* The ways a request ends. *)

LEMMA HandledStatus ==
    ASSUME NEW c
    PROVE  Handled(c).status \in {200, 204, 400, 403, 404, 409}
<1>1. \A s : Fails(s).status = s
  BY DEF Fails
<1>2. \A s, w : Succeeds(s, w).status = s
  BY DEF Succeeds
<1>3. \A b : Shows(b).status = 200
  BY DEF Shows
<1>4. PostStatements(c).status \in {200, 400, 409}
  <2> DEFINE body == c.body
             raw == IF body = None THEN <<Empty>> ELSE IF Has(body, "one") THEN <<body.one>> ELSE body.many
             parsed == [i \in DOMAIN raw |-> validateStatement(raw[i], <<served, i>>, <<now, "Z">>)]
             batch == Range(parsed)
             malformed == ~Every(raw, LAMBDA s : statementSchemaFor(s, c.version))
             repeated == Cardinality({parsed[i].id : i \in DOMAIN raw}) < Len(raw)
             misattached == c.multipart /\ ~validateAttachmentParts(batch, c.parts)
             misvoids == \E s \in batch : IsVoiding(s) /\ ~MayVoid(s)
             conflicts == \E s \in batch : Has(stored, s.id) /\ ~statementsMatch(stored[s.id].payload, s)
  <2>1. PostStatements(c) =
            IF malformed THEN Fails(400) ELSE IF repeated THEN Fails(400)
            ELSE IF misattached THEN Fails(400) ELSE IF misvoids THEN Fails(400)
            ELSE IF conflicts THEN Fails(409) ELSE Succeeds(200, Stored(c, batch))
    BY DEF PostStatements
  <2> HIDE DEF malformed, repeated, misattached, misvoids, conflicts, batch
  <2> QED BY <1>1, <1>2, <2>1
<1>5. PutStatement(c).status \in {204, 400, 409}
  BY <1>1, <1>2 DEF PutStatement
<1>6. GetStatement(c).status \in {200, 400, 403, 404}
  BY <1>1, <1>3 DEF GetStatement
<1>7. \/ Handled(c) = PostStatements(c) \/ Handled(c) = PutStatement(c)
      \/ Handled(c) = GetStatement(c) \/ Handled(c) = Fails(404)
  BY DEF Handled
<1> QED
  BY <1>1, <1>4, <1>5, <1>6, <1>7

LEMMA RefusalStatus ==
    ASSUME NEW r
    PROVE  Refusal(r) \in {400, 401, 403, 413, 500, None}
<1>1. AuthStatus(r) \in {200, 401, 500}
  BY DEF AuthStatus
<1> QED
  BY <1>1 DEF Refusal

(* A request is refused or exempt, delayed by the limiter, or let through. *)
LEMMA Outcomes ==
    ASSUME NEW q
    PROVE  \/ \E s \in {200, 400, 401, 403, 413, 500} : Outcome(q) = Unaffected(s)
           \/ \E key : Limited(key) /\ Outcome(q) = Delayed(key)
           \/ \E key, h : /\ ~Limited(key) /\ h.status # 429
                          /\ Outcome(q) = Admitted(key, h)
<1>1. ASSUME NEW r
      PROVE  \/ \E s \in {200, 400, 401, 403, 413, 500} : Received(r) = Unaffected(s)
             \/ Limited(Auth(r).key) /\ Received(r) = Delayed(Auth(r).key)
             \/ /\ ~Limited(Auth(r).key)
                /\ Received(r) = Admitted(Auth(r).key, Handled(Context(r)))
  BY RefusalStatus DEF Received, Dispatched
<1>2. \A c : Handled(c).status # 429
  BY HandledStatus
<1>3. \/ Outcome(q) = Unaffected(400)
      \/ \E r \in {q, Redispatched(q)} : Outcome(q) = Received(r)
  BY DEF Outcome
<1> QED
  BY <1>1, <1>2, <1>3

-----------------------------------------------------------------------------
(* What each way does to the limiter. *)

LEMMA UnaffectedStep ==
    ASSUME LimiterOK, now' = now, served' \in {served, served + 1},
           buckets' = buckets, admitted' = admitted, told' = told
    PROVE  LimiterOK'
<1>1. HistoryOK'
  BY DEF LimiterOK, HistoryOK
<1>2. BucketsOK'
  BY DEF LimiterOK, BucketsOK
<1>3. SparseOK'
  BY DEF LimiterOK, SparseOK, Since, InWindow
<1>4. ToldOK'
  BY DEF LimiterOK, ToldOK, Since
<1> QED
  BY <1>1, <1>2, <1>3, <1>4 DEF LimiterOK

LEMMA DelayedStep ==
    ASSUME LimiterOK, NEW key, Limited(key), now' = now, served' = served + 1,
           buckets' = With(buckets, key, Recent(key)), admitted' = admitted,
           told' = With(told, key, now + RetryAfter(key) * Second)
    PROVE  LimiterOK'
<1>1. HistoryOK'
  BY DEF LimiterOK, HistoryOK
<1>2. BucketsOK'
  <2>1. \A hit \in Recent(key) : \E a \in admitted : a[2] = key /\ hit = <<a[1], a[3]>>
    BY RecentIsSince DEF LimiterOK
  <2>2. \A a \in admitted : a[2] = key /\ a[3] > now - Window => <<a[1], a[3]>> \in Recent(key)
    BY RecentIsSince DEF LimiterOK
  <2> QED BY <2>1, <2>2 DEF LimiterOK, BucketsOK, With, Has
<1>3. SparseOK'
  BY DEF LimiterOK, SparseOK, Since, InWindow
<1>4. ToldOK'
  <2> DEFINE until == now + RetryAfter(key) * Second
  <2>1. until \in Int /\ until >= Oldest(key) + Window
    BY RetryAfterIsEnough DEF LimiterOK
  <2>2. PICK a \in admitted : a[2] = key /\ a[3] = Oldest(key)
    BY OldestIsFirst, RecentIsSince DEF LimiterOK
  <2>3. Oldest(key) \in Nat /\ Oldest(key) > now - Window
    BY OldestIsFirst DEF LimiterOK
  <2>4. now - Window \in Int /\ until - Window \in Int /\ now - Window <= until - Window
    BY <2>1, <2>3, WindowNat DEF LimiterOK, HistoryOK
  <2> HIDE DEF until
  <2>5. Cardinality(Since(key, until - Window)) < Cardinality(Since(key, now - Window))
    <3>1. a \in Since(key, now - Window)
      BY <2>2, <2>3 DEF Since
    <3>2. a \notin Since(key, until - Window)
      BY <2>1, <2>2, <2>3, WindowNat DEF Since
    <3>3. Since(key, until - Window) \in SUBSET Since(key, now - Window)
      BY <2>4 DEF Since, LimiterOK, HistoryOK
    <3>4. IsFiniteSet(Since(key, now - Window))
      BY <2>4, SinceShrinks DEF LimiterOK
    <3>5. Cardinality(Since(key, until - Window)) # Cardinality(Since(key, now - Window))
      BY <3>1, <3>2, <3>3, <3>4, FS_Subset
    <3> QED BY <2>4, <3>5, SinceShrinks DEF LimiterOK
  <2>6. Cardinality(Since(key, now - Window)) <= MaxRequests
    BY SparseForAll DEF LimiterOK
  <2>7. Cardinality(Since(key, until - Window)) < MaxRequests
    BY <2>4, <2>5, <2>6, SinceShrinks DEF LimiterOK
  <2>8. \A k, t : Since(k, t)' = Since(k, t)
    BY DEF Since
  <2>9. told' = With(told, key, until)
    BY DEF until
  <2>10. SUFFICES ASSUME NEW k \in DOMAIN told'
                  PROVE  told'[k] \in Int /\ Cardinality(Since(k, told'[k] - Window)) < MaxRequests
    BY <2>8 DEF ToldOK, Since
  <2>11. CASE k = key
    BY <2>1, <2>7, <2>9, <2>11 DEF With
  <2>12. CASE k # key
    BY <2>9, <2>12 DEF With, LimiterOK, ToldOK
  <2> QED BY <2>11, <2>12
<1> QED
  BY <1>1, <1>2, <1>3, <1>4 DEF LimiterOK

LEMMA AdmittedStep ==
    ASSUME LimiterOK, NEW key, ~Limited(key), now' = now, served' = served + 1,
           buckets' = With(buckets, key, Recent(key) \cup {<<served, now>>}),
           admitted' = admitted \cup {<<served, key, now>>},
           told' = Drop(told, {key})
    PROVE  LimiterOK'
<1> DEFINE new == <<served, key, now>>
           after(k, t) == {a \in admitted' : a[2] = k /\ a[3] > t}
           within(a) == {b \in admitted' : b[2] = a[2] /\ a[3] - Window < b[3] /\ b[3] <= a[3]}
<1>1. HistoryOK'
  <2>1. IsFiniteSet(admitted \cup {new})
    BY FS_AddElement DEF LimiterOK, HistoryOK
  <2>2. \A a \in admitted' : a \in admitted \/ a = new
    OBVIOUS
  <2> QED BY <2>1, <2>2 DEF LimiterOK, HistoryOK
<1>2. BucketsOK'
  <2>1. \A hit \in Recent(key) : \E a \in admitted : a[2] = key /\ hit = <<a[1], a[3]>>
    BY RecentIsSince DEF LimiterOK
  <2>2. \A a \in admitted : a[2] = key /\ a[3] > now - Window => <<a[1], a[3]>> \in Recent(key)
    BY RecentIsSince DEF LimiterOK
  <2> USE DEF With, Has
  <2>3. key \in DOMAIN buckets' /\ buckets'[key] = Recent(key) \cup {<<served, now>>}
    OBVIOUS
  <2>4. \A k : k # key /\ k \in DOMAIN buckets' => k \in DOMAIN buckets /\ buckets'[k] = buckets[k]
    OBVIOUS
  <2>5. \A k : k \in DOMAIN buckets /\ k # key => k \in DOMAIN buckets' /\ buckets'[k] = buckets[k]
    OBVIOUS
  <2>6. ASSUME NEW k \in DOMAIN buckets', NEW hit \in buckets'[k]
        PROVE  \E a \in admitted' : a[2] = k /\ hit = <<a[1], a[3]>>
    <3>1. CASE k # key
      BY <2>4, <3>1 DEF LimiterOK, BucketsOK
    <3>2. CASE k = key /\ hit \in Recent(key)
      BY <2>1, <3>2
    <3>3. CASE k = key /\ hit = <<served, now>>
      <4>1. new \in admitted' /\ new[2] = key /\ <<new[1], new[3]>> = <<served, now>>
        OBVIOUS
      <4> QED BY <3>3, <4>1
    <3> QED BY <2>3, <3>1, <3>2, <3>3
  <2>7. ASSUME NEW a \in admitted', a[3] > now - Window
        PROVE  a[2] \in DOMAIN buckets' /\ <<a[1], a[3]>> \in buckets'[a[2]]
    <3>1. CASE a = new
      BY <2>3, <3>1
    <3>2. CASE a \in admitted /\ a[2] = key
      BY <2>2, <2>3, <2>7, <3>2
    <3>3. CASE a \in admitted /\ a[2] # key
      BY <2>5, <2>7, <3>3 DEF LimiterOK, BucketsOK
    <3> QED BY <3>1, <3>2, <3>3
  <2> QED BY <2>6, <2>7 DEF BucketsOK
<1>3. Cardinality(Since(key, now - Window) \cup {new}) <= MaxRequests
  <2>1. Cardinality(Since(key, now - Window)) < MaxRequests
    <3>1. now - Window \in Int
      BY WindowNat DEF LimiterOK, HistoryOK
    <3> QED BY <3>1, RecentIsSince, SinceShrinks DEF LimiterOK, Limited
  <2>2. IsFiniteSet(Since(key, now - Window))
    <3>1. now - Window \in Int
      BY WindowNat DEF LimiterOK, HistoryOK
    <3> QED BY <3>1, SinceShrinks DEF LimiterOK
  <2> HIDE DEF new
  <2>3. Cardinality(Since(key, now - Window)) \in Nat
    BY <2>2, FS_CardinalityType
  <2>4. Cardinality(Since(key, now - Window) \cup {new}) <= Cardinality(Since(key, now - Window)) + 1
    BY <2>2, <2>3, FS_AddElement
  <2>5. Cardinality(Since(key, now - Window) \cup {new}) \in Nat
    BY <2>2, FS_AddElement, FS_CardinalityType
  <2> QED BY <2>1, <2>3, <2>4, <2>5
<1>4. \A k, t : k # key => after(k, t) = Since(k, t)
  BY DEF Since
<1>5. after(key, now - Window) = Since(key, now - Window) \cup {new}
  <2>1. new[2] = key /\ new[3] = now /\ now > now - Window
    BY WindowNat DEF LimiterOK, HistoryOK, Window
  <2>2. admitted' = admitted \cup {new}
    OBVIOUS
  <2> HIDE DEF new
  <2> QED BY <2>1, <2>2 DEF Since
<1>6. SparseOK'
  <2>1. SUFFICES ASSUME NEW a \in admitted'
                 PROVE  /\ Cardinality(after(a[2], now - Window)) <= MaxRequests
                        /\ Cardinality(within(a)) <= MaxRequests
    BY DEF SparseOK, Since, InWindow
  <2>2. Cardinality(after(a[2], now - Window)) <= MaxRequests
    <3>1. CASE a[2] = key
      BY <1>3, <1>5, <3>1
    <3>2. CASE a[2] # key
      <4>1. a \in admitted
        BY <3>2
      <4> HIDE DEF after
      <4> QED BY <1>4, <3>2, <4>1 DEF LimiterOK, SparseOK
    <3> QED BY <3>1, <3>2
  <2>3. a[3] <= now /\ a[3] \in Nat /\ now \in Nat
    BY DEF LimiterOK, HistoryOK
  <2>4. Cardinality(within(a)) <= MaxRequests
    <3>1. CASE a[2] = key /\ a[3] = now
      <4>1. within(a) = after(key, now - Window)
        BY <1>1, <3>1, WindowNat DEF HistoryOK
      <4> QED BY <1>3, <1>5, <4>1
    <3>2. CASE a[2] # key \/ a[3] # now
      <4>1. a \in admitted
        BY <3>2
      <4>2. within(a) = InWindow(a)
        BY <2>3, <3>2 DEF InWindow
      <4> QED BY <4>1, <4>2 DEF LimiterOK, SparseOK
    <3> QED BY <2>3, <3>1, <3>2
  <2> QED BY <2>2, <2>4
<1>7. ToldOK'
  <2>1. \A k \in DOMAIN told' : k # key /\ k \in DOMAIN told /\ told'[k] = told[k]
    BY DEF Drop, Restrict
  <2>2. SUFFICES ASSUME NEW k \in DOMAIN told'
                 PROVE  told'[k] \in Int /\ Cardinality(after(k, told'[k] - Window)) < MaxRequests
    BY DEF ToldOK, Since
  <2> HIDE DEF after
  <2> QED BY <1>4, <2>1 DEF LimiterOK, ToldOK
<1> QED
  BY <1>1, <1>2, <1>6, <1>7 DEF LimiterOK

LEMMA TickStep ==
    ASSUME LimiterOK, now' = now + 1, served' = served,
           buckets' = buckets, admitted' = admitted, told' = told
    PROVE  LimiterOK'
<1>1. HistoryOK'
  BY DEF LimiterOK, HistoryOK
<1>2. BucketsOK'
  BY WindowNat DEF LimiterOK, BucketsOK, HistoryOK
<1>3. SparseOK'
  <2> DEFINE after(k, t) == {a \in admitted' : a[2] = k /\ a[3] > t}
  <2>1. SUFFICES ASSUME NEW a \in admitted
                 PROVE  /\ Cardinality(after(a[2], now' - Window)) <= MaxRequests
                        /\ Cardinality(InWindow(a)) <= MaxRequests
    BY DEF SparseOK, Since, InWindow
  <2>4. after(a[2], now' - Window) = Since(a[2], now + 1 - Window)
    <3>1. \A t : after(a[2], t) = Since(a[2], t)
      BY DEF Since
    <3>2. now' - Window = now + 1 - Window
      BY WindowNat DEF LimiterOK, HistoryOK
    <3> HIDE DEF after
    <3> QED BY <3>1, <3>2
  <2>2. /\ now - Window \in Int /\ now + 1 - Window \in Int
        /\ now - Window <= now + 1 - Window
    BY WindowNat DEF LimiterOK, HistoryOK
  <2>3. Cardinality(Since(a[2], now - Window)) <= MaxRequests
    BY DEF LimiterOK, SparseOK
  <2> HIDE DEF after
  <2>5. Cardinality(Since(a[2], now + 1 - Window)) <= MaxRequests
    BY <2>2, <2>3, SinceShrinks DEF LimiterOK
  <2> QED BY <2>4, <2>5 DEF LimiterOK, SparseOK
<1>4. ToldOK'
  BY DEF LimiterOK, ToldOK, Since
<1> QED
  BY <1>1, <1>2, <1>3, <1>4 DEF LimiterOK

LEMMA PruneStep ==
    ASSUME LimiterOK, PruneStaleKeys
    PROVE  LimiterOK'
<1>1. UNCHANGED <<now, served, admitted, told>>
  BY DEF PruneStaleKeys
<1>2. BucketsOK'
  <2>1. buckets' = [k \in {x \in DOMAIN buckets : Recent(x) # {}} |-> Recent(k)]
    BY DEF PruneStaleKeys
  <2>2. ASSUME NEW k \in DOMAIN buckets', NEW hit \in buckets'[k]
        PROVE  \E a \in admitted : a[2] = k /\ hit = <<a[1], a[3]>>
    BY <2>1, RecentIsSince DEF LimiterOK
  <2>3. ASSUME NEW a \in admitted, a[3] > now - Window
        PROVE  a[2] \in DOMAIN buckets' /\ <<a[1], a[3]>> \in buckets'[a[2]]
    <3>1. <<a[1], a[3]>> \in Recent(a[2])
      BY <2>3, RecentIsSince DEF LimiterOK
    <3>2. a[2] \in DOMAIN buckets
      BY <2>3 DEF LimiterOK, BucketsOK, Has
    <3> QED BY <2>1, <3>1, <3>2
  <2> QED BY <1>1, <2>2, <2>3 DEF BucketsOK, Has
<1>3. HistoryOK'
  BY <1>1 DEF LimiterOK, HistoryOK
<1>4. SparseOK'
  BY <1>1 DEF LimiterOK, SparseOK, Since, InWindow
<1>5. ToldOK'
  BY <1>1 DEF LimiterOK, ToldOK, Since
<1> QED
  BY <1>2, <1>3, <1>4, <1>5 DEF LimiterOK

(* What the middlewares and the limiter do to what the invariant speaks of. *)
LEMMA ServeSteps ==
    ASSUME NEW q, Serve(q)
    PROVE  /\ now' = now /\ served' = served + 1
           /\ \/ /\ answer'.status # 429
                 /\ buckets' = buckets /\ admitted' = admitted /\ told' = told
              \/ /\ answer'.status = 429 /\ admitted' = admitted /\ Limited(answer'.key)
                 /\ buckets' = With(buckets, answer'.key, Recent(answer'.key))
                 /\ told' = With(told, answer'.key, now + RetryAfter(answer'.key) * Second)
              \/ \E key : /\ answer'.status # 429 /\ ~Limited(key)
                          /\ buckets' = With(buckets, key, Recent(key) \cup {<<served, now>>})
                          /\ admitted' = admitted \cup {<<served, key, now>>}
                          /\ told' = Drop(told, {key})
<1>1. now' = now /\ served' = served + 1 /\ Answered(Outcome(q))
  BY DEF Serve
<1>2. CASE \E s \in {200, 400, 401, 403, 413, 500} : Outcome(q) = Unaffected(s)
  <2>1. PICK s \in {200, 400, 401, 403, 413, 500} : Outcome(q) = Unaffected(s)
    BY <1>2
  <2>2. Answered(Unaffected(s))
    BY <1>1, <2>1
  <2>3. ~Has([status |-> s], "key")
    BY DEF Has
  <2>4. answer'.status # 429 /\ buckets' = buckets /\ admitted' = admitted /\ told' = told
    BY <2>2, <2>3 DEF Answered, Unaffected
  <2> QED BY <1>1, <2>4
<1>3. CASE \E key : Limited(key) /\ Outcome(q) = Delayed(key)
  <2>1. PICK key : Limited(key) /\ Outcome(q) = Delayed(key)
    BY <1>3
  <2>2. Answered(Delayed(key))
    BY <1>1, <2>1
  <2>3. Has([status |-> 429, key |-> key, retryAfter |-> RetryAfter(key)], "key")
    BY DEF Has
  <2>4. /\ answer'.status = 429 /\ answer'.key = key /\ admitted' = admitted
        /\ buckets' = With(buckets, key, Recent(key))
        /\ told' = With(told, key, now + RetryAfter(key) * Second)
    BY <2>2, <2>3 DEF Answered, Delayed
  <2> QED BY <1>1, <2>1, <2>4
<1>4. CASE \E key, h : ~Limited(key) /\ h.status # 429 /\ Outcome(q) = Admitted(key, h)
  <2>1. PICK key, h : ~Limited(key) /\ h.status # 429 /\ Outcome(q) = Admitted(key, h)
    BY <1>4
  <2>2. Answered(Admitted(key, h))
    BY <1>1, <2>1
  <2>3. Has([status |-> h.status, key |-> key, body |-> h.body], "key")
    BY DEF Has
  <2>4. /\ answer'.status # 429
        /\ buckets' = With(buckets, key, Recent(key) \cup {<<served, now>>})
        /\ admitted' = admitted \cup {<<served, key, now>>}
        /\ told' = Drop(told, {key})
    BY <2>1, <2>2, <2>3 DEF Answered, Admitted
  <2> QED BY <1>1, <2>1, <2>4
<1> QED
  BY <1>2, <1>3, <1>4, Outcomes

LEMMA LimiterInit == Init => LimiterOK
<1> SUFFICES ASSUME Init PROVE LimiterOK
  OBVIOUS
<1>1. DOMAIN told = {} /\ DOMAIN buckets = {} /\ admitted = {} /\ now = 0 /\ served = 0
  BY DEF Init, Empty
<1> QED
  BY <1>1, FS_EmptySet DEF LimiterOK, HistoryOK, BucketsOK, SparseOK, ToldOK

LEMMA LimiterStep == LimiterOK /\ [Next]_vars => LimiterOK'
<1> SUFFICES ASSUME LimiterOK, [Next]_vars PROVE LimiterOK'
  OBVIOUS
<1>1. ASSUME NEW q \in Offered(served), Serve(q) PROVE LimiterOK'
  <2> DEFINE key == answer'.key
  <2>1. now' = now /\ served' = served + 1
    BY <1>1, ServeSteps
  <2>2. CASE buckets' = buckets /\ admitted' = admitted /\ told' = told
    BY <2>1, <2>2, UnaffectedStep
  <2>3. CASE /\ admitted' = admitted /\ Limited(key)
             /\ buckets' = With(buckets, key, Recent(key))
             /\ told' = With(told, key, now + RetryAfter(key) * Second)
    <3> HIDE DEF key
    <3> QED BY <2>1, <2>3, DelayedStep
  <2>4. CASE \E k : /\ ~Limited(k)
                    /\ buckets' = With(buckets, k, Recent(k) \cup {<<served, now>>})
                    /\ admitted' = admitted \cup {<<served, k, now>>}
                    /\ told' = Drop(told, {k})
    BY <2>1, <2>4, AdmittedStep
  <2> QED BY <1>1, <2>2, <2>3, <2>4, ServeSteps
<1>2. CASE Tick
  BY <1>2, TickStep DEF Tick, server
<1>3. CASE PruneStaleKeys
  BY <1>3, PruneStep
<1>4. CASE UNCHANGED vars
  BY <1>4, UnaffectedStep DEF vars
<1> QED
  BY <1>1, <1>2, <1>3, <1>4 DEF Next

(* The limiter lets no key exceed its number of requests in any window, and
   whoever waited as told finds a place. *)
THEOREM LimiterKeepsItsWord == Spec => WithinTheWindow
<1>1. LimiterOK /\ LimiterOK' /\ [Next]_vars =>
        [/\ \A a \in admitted' :
               Cardinality({b \in admitted' : b[2] = a[2] /\ a[3] - Window < b[3] /\ b[3] <= a[3]})
                   <= MaxRequests
         /\ served' > served /\ answer'.status = 429 /\ Has(told, answer'.key)
               => now < told[answer'.key]]_vars
  <2> SUFFICES ASSUME LimiterOK, LimiterOK', Next
               PROVE  /\ \A a \in admitted' :
                            Cardinality({b \in admitted' : /\ b[2] = a[2] /\ a[3] - Window < b[3]
                                                          /\ b[3] <= a[3]}) <= MaxRequests
                      /\ served' > served /\ answer'.status = 429 /\ Has(told, answer'.key)
                            => now < told[answer'.key]
    OBVIOUS
  <2>1. \A a \in admitted' :
           Cardinality({b \in admitted' : b[2] = a[2] /\ a[3] - Window < b[3] /\ b[3] <= a[3]})
               <= MaxRequests
    BY DEF LimiterOK, SparseOK, InWindow
  <2>2. ASSUME served' > served, answer'.status = 429, Has(told, answer'.key),
               ~(now < told[answer'.key])
        PROVE  FALSE
    <3>1. PICK q \in Offered(served) : Serve(q)
      BY <2>2 DEF Next, Tick, PruneStaleKeys, LimiterOK, HistoryOK
    <3>2. Limited(answer'.key)
      BY <2>2, <3>1, ServeSteps
    <3> DEFINE key == answer'.key
    <3>3. told[key] \in Int /\ Cardinality(Since(key, told[key] - Window)) < MaxRequests
      BY <2>2 DEF LimiterOK, ToldOK, Has
    <3>4. told[key] - Window \in Int /\ now - Window \in Int /\ told[key] - Window <= now - Window
      BY <2>2, <3>3, WindowNat DEF LimiterOK, HistoryOK
    <3>5. Limited(key)
      BY <3>2
    <3> HIDE DEF key
    <3>6. Cardinality(Since(key, now - Window)) < MaxRequests
      BY <3>3, <3>4, SinceShrinks DEF LimiterOK
    <3>7. Cardinality(Since(key, now - Window)) >= MaxRequests
      BY <3>5, RecentIsSince DEF LimiterOK, Limited
    <3>8. Cardinality(Since(key, now - Window)) \in Nat
      BY <3>4, SinceShrinks DEF LimiterOK
    <3> QED BY <3>6, <3>7, <3>8
  <2> QED BY <2>1, <2>2
<1> QED
  BY <1>1, LimiterInit, LimiterStep, PTL DEF Spec, WithinTheWindow

-----------------------------------------------------------------------------
(* Alternate request syntax. *)

(* What p and r must share to be treated alike: everything but the headers
   that speak of a body r does not have, and the length of one it has. *)
Alike(p, r) ==
    /\ p.method = r.method /\ p.path = r.path /\ p.params = r.params
    /\ ~Has(p.headers, "Content-Length")
    /\ r.method = "PUT" => p.body = r.body
    /\ \A h : h # "Content-Length" /\ (r.method = "PUT" \/ h # "Content-Type") =>
          /\ Has(p.headers, h) <=> Has(r.headers, h)
          /\ Has(r.headers, h) => p.headers[h] = r.headers[h]

LEMMA FormIsAlike ==
    ASSUME NEW r, Expressible(r), r.params = [x \in DOMAIN r.params |-> r.params[x]],
           NEW q \in FormCodings(r)
    PROVE  IsAlternate(q) /\ ~HasDuplicate(q) /\ Alike(Redispatched(q), r)
<1> DEFINE needed == IF r.method = "PUT" THEN {"Content-Type"} ELSE {}
           may == DOMAIN r.headers \cap (ALTERNATE_HEADER_FIELDS \ {"Content-Type", "Content-Length"})
           fields(hs, ps) == Over(Keep(r.headers, hs \cup needed), Keep(r.params, ps))
<1>1. PICK hs \in SUBSET may, ps \in SUBSET DOMAIN r.params : q = FormCoding(r, hs, ps)
  BY DEF FormCodings
<1> DEFINE F == q.body.fields
<1>2. /\ q.method = "POST" /\ q.path = r.path
      /\ q.params = With(Drop(r.params, ps), "method", r.method)
      /\ q.headers = With(With(Drop(r.headers, hs), "Content-Length", r.body.size + 1),
                          "Content-Type", Form)
      /\ F = IF r.method = "PUT" THEN With(fields(hs, ps), "content", r.body) ELSE fields(hs, ps)
  BY <1>1 DEF FormCoding
<1> HIDE DEF F
<1>3. /\ hs \subseteq DOMAIN r.headers
      /\ hs \subseteq {"Authorization", "X-Experience-API-Version", "If-Match", "If-None-Match"}
  BY DEF ALTERNATE_HEADER_FIELDS
<1>4. /\ ps \subseteq DOMAIN r.params
      /\ DOMAIN r.params \cap {"Authorization", "X-Experience-API-Version", "Content-Type",
            "Content-Length", "If-Match", "If-None-Match", "content", "method"} = {}
  BY DEF Expressible, ALTERNATE_HEADER_FIELDS
<1>5. r.method \in {"GET", "PUT"} /\ (r.method = "PUT" => "Content-Type" \in DOMAIN r.headers)
  BY DEF Expressible, Has
(* The fields of the form. *)
<1>6. /\ DOMAIN F = hs \cup needed \cup ps \cup IF r.method = "PUT" THEN {"content"} ELSE {}
      /\ \A h \in hs \cup needed : F[h] = r.headers[h]
      /\ \A x \in ps : F[x] = r.params[x]
      /\ r.method = "PUT" => F["content"] = r.body
  BY <1>2, <1>3, <1>4, <1>5 DEF Over, Keep, Restrict, With
(* The headers and the parameters of the POST. *)
<1>7. /\ DOMAIN q.headers = (DOMAIN r.headers \ hs) \cup {"Content-Type", "Content-Length"}
      /\ q.headers["Content-Type"] = Form
      /\ \A h \in DOMAIN r.headers \ hs :
            h \notin {"Content-Type", "Content-Length"} => q.headers[h] = r.headers[h]
  BY <1>2 DEF With, Drop, Restrict
<1>8. /\ DOMAIN q.params = (DOMAIN r.params \ ps) \cup {"method"}
      /\ q.params["method"] = r.method
      /\ \A x \in DOMAIN r.params \ ps : q.params[x] = r.params[x]
  BY <1>2, <1>4 DEF With, Drop, Restrict
<1>9. IsAlternate(q)
  <2>1. Get(q.params, "method") = r.method
    BY <1>8 DEF Get, Has
  <2>2. Header(q, "Content-Type") = Form
    BY <1>7 DEF Header, Get, Has
  <2>3. Header(r, "X-Experience-API-Version") \in Valid["version10"]
    BY DEF Expressible
  <2>4. CASE "X-Experience-API-Version" \in hs
    <3>1. Get(F, "X-Experience-API-Version") = Header(r, "X-Experience-API-Version")
      BY <1>3, <1>6, <2>4 DEF Header, Get, Has
    <3>2. "X-Experience-API-Version" \notin DOMAIN q.headers
      BY <1>7, <2>4
    <3> QED BY <1>2, <1>5, <2>1, <2>2, <2>3, <3>1, <3>2
            DEF IsAlternate, EffectiveVersion, Header, Get, Has, F
  <2>5. CASE "X-Experience-API-Version" \notin hs
    <3>1. Get(F, "X-Experience-API-Version") = None
      BY <1>4, <1>6, <2>5 DEF Get, Has
    <3>2. Header(q, "X-Experience-API-Version") \in {Header(r, "X-Experience-API-Version"), None}
      BY <1>7, <2>5 DEF Header, Get, Has
    <3> QED BY <1>2, <1>5, <2>1, <2>2, <2>3, <3>1, <3>2 DEF IsAlternate, EffectiveVersion, F
  <2> QED BY <2>4, <2>5
<1>10. ~HasDuplicate(q)
  BY <1>3, <1>4, <1>6, <1>8 DEF HasDuplicate, F
<1> DEFINE p == Redispatched(q)
           H == Drop(Over(Keep(F, ALTERNATE_HEADER_FIELDS), q.headers), {"Content-Length"})
           content == r.method = "PUT" /\ Has(F, "content")
<1>11. p = [method |-> r.method, path |-> r.path,
            params |-> Over(Drop(F, ALTERNATE_HEADER_FIELDS \cup {"content"}),
                            Drop(q.params, {"method"})),
            headers |-> IF r.method # "PUT" THEN Drop(H, {"Content-Type"})
                        ELSE IF content /\ ~Has(F, "Content-Type")
                             THEN With(H, "Content-Type", Json) ELSE H,
            body |-> IF content THEN F["content"] ELSE [size |-> 0]]
  BY <1>2, <1>8 DEF Redispatched, F
<1> HIDE DEF p
<1>12. p.params = r.params
  <2>1. p.params = Over(Drop(F, ALTERNATE_HEADER_FIELDS \cup {"content"}), Drop(q.params, {"method"}))
    BY <1>11
  <2>2. DOMAIN F \ (ALTERNATE_HEADER_FIELDS \cup {"content"}) = ps
    BY <1>3, <1>4, <1>5, <1>6 DEF ALTERNATE_HEADER_FIELDS
  <2>3. DOMAIN q.params \ {"method"} = DOMAIN r.params \ ps
    BY <1>4, <1>8
  <2>4. p.params = [x \in ps \cup (DOMAIN r.params \ ps) |->
                      IF x \in ps THEN F[x] ELSE q.params[x]]
    BY <2>1, <2>2, <2>3 DEF Over, Drop, Restrict
  <2>5. p.params = [x \in DOMAIN r.params |-> r.params[x]]
    BY <1>4, <1>6, <1>8, <2>4
  <2> QED BY <2>5
<1>13. /\ DOMAIN H = (DOMAIN r.headers \cup {"Content-Type"}) \ {"Content-Length"}
       /\ \A h \in DOMAIN r.headers \ {"Content-Type", "Content-Length"} : H[h] = r.headers[h]
       /\ r.method = "PUT" => H["Content-Type"] = r.headers["Content-Type"]
  <2>1. DOMAIN F \cap ALTERNATE_HEADER_FIELDS = hs \cup needed
    BY <1>3, <1>4, <1>5, <1>6 DEF ALTERNATE_HEADER_FIELDS
  <2>2. Keep(F, ALTERNATE_HEADER_FIELDS) = [h \in hs \cup needed |-> F[h]]
    BY <2>1 DEF Keep, Restrict
  <2>3. H = [h \in ((hs \cup needed) \cup DOMAIN q.headers) \ {"Content-Length"} |->
               IF h \in hs \cup needed THEN F[h] ELSE q.headers[h]]
    BY <2>2 DEF Drop, Over, Restrict
  <2>4. ((hs \cup needed) \cup DOMAIN q.headers) \ {"Content-Length"} =
            (DOMAIN r.headers \cup {"Content-Type"}) \ {"Content-Length"}
    BY <1>3, <1>5, <1>7
  <2> HIDE DEF H
  <2> QED BY <1>3, <1>5, <1>6, <1>7, <2>3, <2>4
<1> HIDE DEF H
<1>14. CASE r.method = "PUT"
  <2>1. content /\ Has(F, "Content-Type")
    BY <1>6, <1>14 DEF Has
  <2>2. p.headers = H /\ p.body = r.body
    BY <1>6, <1>11, <1>14, <2>1
  <2>3. "Content-Type" \in DOMAIN r.headers
    BY <1>5, <1>14
  <2>4. Alike(p, r)
    BY <1>11, <1>12, <1>13, <1>14, <2>2, <2>3 DEF Alike, Has
  <2> QED BY <1>9, <1>10, <2>4 DEF p
<1>15. CASE r.method = "GET"
  <2>1. p.headers = Drop(H, {"Content-Type"})
    BY <1>11, <1>15
  <2>2. /\ DOMAIN p.headers = DOMAIN r.headers \ {"Content-Type", "Content-Length"}
        /\ \A h \in DOMAIN p.headers : p.headers[h] = r.headers[h]
    BY <1>13, <2>1 DEF Drop, Restrict
  <2>3. Alike(p, r)
    BY <1>11, <1>12, <1>15, <2>2 DEF Alike, Has
  <2> QED BY <1>9, <1>10, <2>3 DEF p
<1> QED
  BY <1>5, <1>14, <1>15

LEMMA AlikeAreReceivedAlike ==
    ASSUME NEW p, NEW r, Expressible(r), Alike(p, r)
    PROVE  Received(p) = Received(r)
<1>1. r.method \in {"GET", "PUT"} /\ p.method = r.method /\ p.path = r.path /\ p.params = r.params
  BY DEF Expressible, Alike
<1>2. ASSUME NEW h \in {"X-Experience-API-Version", "Authorization", "Accept-Language"}
      PROVE  /\ Has(p.headers, h) <=> Has(r.headers, h)
             /\ Has(r.headers, h) => p.headers[h] = r.headers[h]
             /\ Header(p, h) = Header(r, h)
  BY DEF Alike, Header, Get
<1>3. XapiVersion(p) = XapiVersion(r)
  BY <1>2 DEF XapiVersion
<1>4. Versioned(p) <=> Versioned(r)
  BY <1>1, <1>2, <1>3 DEF Versioned
<1>5. ReadsBody(p) <=> r.method = "PUT"
  BY <1>1 DEF ReadsBody
<1>6. ReadsBody(r) <=> r.method = "PUT"
  BY <1>1 DEF ReadsBody
<1>7. TooLarge(p) <=> TooLarge(r)
  <2>1. ~Has(p.headers, "Content-Length")
    BY DEF Alike
  <2>2. Has(r.headers, "Content-Length") => r.headers["Content-Length"] = r.body.size
    BY DEF Expressible, Is
  <2>3. CASE r.method = "PUT"
    BY <1>5, <1>6, <2>1, <2>2, <2>3 DEF TooLarge, Alike
  <2>4. CASE r.method = "GET"
    <3>1. r.body.size = 0 /\ ~(0 > MaxBody)
      BY <2>4 DEF Expressible
    <3> QED BY <1>5, <1>6, <2>1, <2>2, <2>4, <3>1 DEF TooLarge
  <2> QED BY <1>1, <2>3, <2>4
<1>8. r.method = "PUT" => p.body = r.body /\ Header(p, "Content-Type") = Header(r, "Content-Type")
  BY DEF Alike, Header, Get
<1>9. Parsable(p) <=> Parsable(r)
  BY <1>5, <1>6, <1>8 DEF Parsable
<1>10. IsMultipart(p) = IsMultipart(r)
  BY <1>5, <1>6, <1>8 DEF IsMultipart
<1>11. ParsedBody(p) = ParsedBody(r)
  BY <1>5, <1>6, <1>8, <1>10 DEF ParsedBody, IsMultipart
<1>12. AttachmentParts(p) = AttachmentParts(r)
  BY <1>5, <1>6, <1>8 DEF AttachmentParts, IsMultipart
<1>13. AuthHeader(p) = AuthHeader(r)
  BY <1>2 DEF AuthHeader
<1>14. AuthStatus(p) = AuthStatus(r) /\ Auth(p) = Auth(r)
  BY <1>13 DEF AuthStatus, Auth
<1>15. Context(p) = Context(r)
  BY <1>1, <1>2, <1>3, <1>10, <1>11, <1>12, <1>14 DEF Context
<1>16. Refusal(p) = Refusal(r)
  BY <1>1, <1>4, <1>7, <1>9, <1>14 DEF Refusal
<1> QED
  BY <1>1, <1>14, <1>15, <1>16 DEF Received, Dispatched

(* A form is answered as the request it stands for. *)
THEOREM FormsMeanTheSame == Spec => []AlternateMeansTheSame
<1> DEFINE Counted == served \in 0 .. MaxServed
<1>1. Init => Counted
  BY DEF Init
<1>2. Counted /\ [Next]_vars => Counted'
  <2> SUFFICES ASSUME Counted, [Next]_vars PROVE Counted'
    OBVIOUS
  <2>1. ASSUME NEW q \in Offered(served), Serve(q) PROVE Counted'
    BY <2>1 DEF Serve
  <2> QED BY <2>1 DEF Next, Tick, PruneStaleKeys, vars
<1>3. Counted => AlternateMeansTheSame
  <2> SUFFICES ASSUME Counted, NEW r \in Offered(served), Expressible(r), NEW q \in FormCodings(r)
               PROVE  Outcome(q) = Outcome(r)
    BY DEF AlternateMeansTheSame
  <2>1. r.params = [x \in DOMAIN r.params |-> r.params[x]]
    BY ParamsAssumption
  <2>2. IsAlternate(q) /\ ~HasDuplicate(q) /\ Alike(Redispatched(q), r)
    BY <2>1, FormIsAlike
  <2>3. ~IsAlternate(r)
    BY DEF IsAlternate, Expressible
  <2> QED BY <2>2, <2>3, AlikeAreReceivedAlike DEF Outcome
<1> QED
  BY <1>1, <1>2, <1>3, PTL DEF Spec

-----------------------------------------------------------------------------
(* The statements that are stored. *)

(* What validateStatement made of a statement that a version allows. *)
Accepted(t, version) ==
    \E raw, newId, at :
        /\ statementSchemaFor(raw, version) /\ Named(raw, newId) /\ timestamp(at)
        /\ t = validateStatement(raw, newId, at)

AcceptedBatch(c, batch) ==
    /\ \A t \in batch : Accepted(t, c.version)
    /\ \A t, u \in batch : t.id = u.id => t = u
    /\ c.multipart => validateAttachmentParts(batch, c.parts)

(* What a handler can rely on. *)
Sound(c) ==
    /\ c.body = None \/ OneOrMany(c.body)
    /\ authoritySchema(authorityFromAuth(c.auth))
    /\ c.multipart => IsFiniteSet(DOMAIN c.parts)
    /\ ~c.multipart => c.parts = Empty

Bounded == now \in 0 .. Horizon /\ served \in 0 .. MaxServed

(* As many values as indices: no two of them are equal. *)
LEMMA AllDistinct ==
    ASSUME NEW n \in Nat, NEW f, DOMAIN f = 1 .. n,
           ~(Cardinality({f[i] : i \in 1 .. n}) < n)
    PROVE  \A i, j \in 1 .. n : f[i] = f[j] => i = j
<1> DEFINE T == {f[i] : i \in 1 .. n}
           g == [i \in 1 .. n |-> f[i]]
<1>1. g \in Surjection(1 .. n, T)
  BY DEF Surjection
<1>2. IsFiniteSet(1 .. n) /\ Cardinality(1 .. n) = n
  BY FS_Interval
<1>3. /\ IsFiniteSet(T)
      /\ Cardinality(T) <= Cardinality(1 .. n)
      /\ Cardinality(T) = Cardinality(1 .. n) <=> g \in Injection(1 .. n, T)
  <2> HIDE DEF g, T
  <2> QED BY <1>1, <1>2, FS_Surjection
<1>4. Cardinality(T) \in Nat
  BY <1>3, FS_CardinalityType
<1>5. g \in Injection(1 .. n, T)
  <2>1. ~(Cardinality(T) < n)
    OBVIOUS
  <2> HIDE DEF g, T
  <2> QED BY <2>1, <1>2, <1>3, <1>4
<1>6. \A i, j \in 1 .. n : g[i] = g[j] => i = j
  <2> HIDE DEF g, T
  <2> QED BY <1>5 DEF Injection, IsInjective
<1> QED
  BY <1>6

LEMMA FailsWrites == \A status : Fails(status).writes = Same
BY DEF Fails

LEMMA SucceedsWrites == \A status, w : Succeeds(status, w).writes = w
BY DEF Succeeds

LEMMA PostAccepted ==
    ASSUME NEW c, Sound(c), Bounded
    PROVE  \/ PostStatements(c).writes = Same
           \/ \E batch : AcceptedBatch(c, batch) /\ PostStatements(c).writes = Stored(c, batch)
<1> DEFINE raw == IF c.body = None THEN <<Empty>>
                  ELSE IF Has(c.body, "one") THEN <<c.body.one>> ELSE c.body.many
           parsed == [i \in DOMAIN raw |-> validateStatement(raw[i], <<served, i>>, <<now, "Z">>)]
           batch == Range(parsed)
           bad == ~Every(raw, LAMBDA s : statementSchemaFor(s, c.version))
           same == Cardinality({parsed[i].id : i \in DOMAIN raw}) < Len(raw)
           unsigned == c.multipart /\ ~validateAttachmentParts(batch, c.parts)
           voids == \E s \in batch : IsVoiding(s) /\ ~MayVoid(s)
           conflicts == \E s \in batch : Has(stored, s.id) /\ ~statementsMatch(stored[s.id].payload, s)
<1>1. PostStatements(c) = IF bad THEN Fails(400) ELSE IF same THEN Fails(400)
                          ELSE IF unsigned THEN Fails(400) ELSE IF voids THEN Fails(400)
                          ELSE IF conflicts THEN Fails(409) ELSE Succeeds(200, Stored(c, batch))
  BY DEF PostStatements
<1>2. Len(raw) \in Nat /\ Len(raw) <= MaxBatch /\ DOMAIN raw = 1 .. Len(raw)
  <2>1. \A x : Len(<<x>>) = 1 /\ DOMAIN <<x>> = 1 .. 1
    OBVIOUS
  <2>2. MaxBatch \in Nat /\ 1 <= MaxBatch
    BY GeneratedAssumption
  <2>3. ASSUME c.body # None, ~Has(c.body, "one")
        PROVE  /\ Len(c.body.many) \in Nat /\ Len(c.body.many) <= MaxBatch
               /\ DOMAIN c.body.many = 1 .. Len(c.body.many)
    BY <2>3, LenProperties DEF Sound, OneOrMany, Array
  <2>4. CASE c.body = None
    BY <2>1, <2>2, <2>4
  <2>5. CASE c.body # None /\ Has(c.body, "one")
    BY <2>1, <2>2, <2>5
  <2>6. CASE c.body # None /\ ~Has(c.body, "one")
    BY <2>3, <2>6
  <2> QED
    BY <2>4, <2>5, <2>6
<1>8. bad <=> \E i \in DOMAIN raw : ~statementSchemaFor(raw[i], c.version)
  BY DEF Every
<1> HIDE DEF raw, bad
<1>3. ASSUME ~bad, NEW i \in DOMAIN raw PROVE Accepted(parsed[i], c.version)
  <2>1. statementSchemaFor(raw[i], c.version)
    BY <1>3, <1>8
  <2>2. Named(raw[i], <<served, i>>)
    BY <1>2, GeneratedAssumption DEF Named, uuid, Bounded
  <2>3. timestamp(<<now, "Z">>)
    BY GeneratedAssumption DEF timestamp, Bounded
  <2>4. parsed[i] = validateStatement(raw[i], <<served, i>>, <<now, "Z">>)
    OBVIOUS
  <2> QED
    BY <2>1, <2>2, <2>3, <2>4 DEF Accepted
<1>4. DOMAIN parsed = DOMAIN raw /\ batch = {parsed[i] : i \in DOMAIN raw}
  BY DEF Range
<1> HIDE DEF parsed, batch
<1>5. ASSUME ~same PROVE \A t, u \in batch : t.id = u.id => t = u
  <2> DEFINE f == [i \in DOMAIN raw |-> parsed[i].id]
  <2>1. DOMAIN f = 1 .. Len(raw) /\ \A i \in DOMAIN raw : f[i] = parsed[i].id
    BY <1>2
  <2>2. {f[i] : i \in 1 .. Len(raw)} = {parsed[i].id : i \in DOMAIN raw}
    BY <1>2
  <2> HIDE DEF f
  <2>3. \A i, j \in 1 .. Len(raw) : f[i] = f[j] => i = j
    BY <1>2, <1>5, <2>1, <2>2, AllDistinct
  <2> QED
    BY <1>2, <1>4, <2>1, <2>3
<1>6. CASE bad \/ same \/ unsigned \/ voids \/ conflicts
  <2> HIDE DEF same, unsigned, voids, conflicts
  <2> QED BY <1>1, <1>6, FailsWrites
<1>7. CASE ~(bad \/ same \/ unsigned \/ voids \/ conflicts)
  <2>1. \A t \in batch : Accepted(t, c.version)
    BY <1>3, <1>4, <1>7
  <2>2. AcceptedBatch(c, batch)
    BY <1>5, <1>7, <2>1 DEF AcceptedBatch
  <2> HIDE DEF same, unsigned, voids, conflicts
  <2> QED BY <1>1, <1>7, <2>2, SucceedsWrites
<1> QED
  BY <1>6, <1>7

LEMMA PutAccepted ==
    ASSUME NEW c, Sound(c), Bounded
    PROVE  \/ PutStatement(c).writes = Same
           \/ \E batch : AcceptedBatch(c, batch) /\ PutStatement(c).writes = Stored(c, batch)
<1> DEFINE body == c.body
           id == c.params["statementId"]
           raw == IF body = None \/ ~Has(body, "one") THEN Empty
                  ELSE IF Has(body.one, "id") THEN body.one ELSE With(body.one, "id", id)
           s == validateStatement(raw, id, <<now, "Z">>)
           bad == ~Has(c.params, "statementId") \/ ~statementSchemaFor(raw, c.version)
           unsigned == c.multipart /\ ~validateAttachmentParts({s}, c.parts)
           other == s.id # id
           known == Has(stored, id)
           like == statementsMatch(stored[id].payload, s)
           voids == IsVoiding(s) /\ ~MayVoid(s)
<1>1. PutStatement(c) = IF bad THEN Fails(400) ELSE IF unsigned THEN Fails(400)
                        ELSE IF other THEN Fails(409)
                        ELSE IF known THEN Fails(IF like THEN 204 ELSE 409)
                        ELSE IF voids THEN Fails(400)
                        ELSE Succeeds(204, Stored(c, {s}))
  BY DEF PutStatement
<1>2. ASSUME ~bad PROVE Named(raw, id)
  <2>1. statementSchemaFor(raw, c.version)
    BY <1>2
  <2>2. "actor" \in DOMAIN raw
    <3> HIDE DEF raw
    <3> QED BY <2>1 DEF statementSchemaFor, Object
  <2>3. Has(raw, "id")
    <3>1. DOMAIN Empty = {}
      BY DEF Empty
    <3>2. raw # Empty
      <4> HIDE DEF raw
      <4> QED BY <2>2, <3>1
    <3>3. CASE Has(body.one, "id")
      BY <3>2, <3>3
    <3>4. CASE ~Has(body.one, "id")
      <4>1. raw = With(body.one, "id", id)
        BY <3>2, <3>4
      <4>2. "id" \in DOMAIN With(body.one, "id", id)
        BY DEF With
      <4> HIDE DEF raw
      <4> QED
        BY <4>1, <4>2 DEF Has
    <3> QED
      BY <3>3, <3>4
  <2> QED
    BY <2>3 DEF Named
<1>3. timestamp(<<now, "Z">>)
  BY GeneratedAssumption DEF timestamp, Bounded
<1>4. ASSUME ~bad PROVE Accepted(s, c.version)
  <2>1. statementSchemaFor(raw, c.version) /\ Named(raw, id)
    BY <1>2, <1>4
  <2> HIDE DEF raw, id
  <2> QED BY <1>3, <2>1 DEF Accepted
<1> HIDE DEF s
<1>5. CASE bad \/ unsigned \/ other \/ known \/ voids
  <2> HIDE DEF bad, unsigned, other, known, voids, like, id
  <2> QED BY <1>1, <1>5, FailsWrites
<1>6. CASE ~(bad \/ unsigned \/ other \/ known \/ voids)
  <2>1. AcceptedBatch(c, {s})
    BY <1>4, <1>6 DEF AcceptedBatch
  <2> HIDE DEF bad, unsigned, other, known, voids, like, id
  <2> QED BY <1>1, <1>6, <2>1, SucceedsWrites
<1> QED
  BY <1>5, <1>6

LEMMA HandledAccepted ==
    ASSUME NEW c, Sound(c), Bounded
    PROVE  \/ Handled(c).writes = Same
           \/ \E batch : AcceptedBatch(c, batch) /\ Handled(c).writes = Stored(c, batch)
<1>1. GetStatement(c).writes = Same
  BY DEF GetStatement, Fails, Shows
<1>2. Handled(c) \in {PostStatements(c), PutStatement(c), GetStatement(c), Fails(404)}
  BY DEF Handled
<1> QED
  BY <1>1, <1>2, PostAccepted, PutAccepted, FailsWrites

LEMMA ImageFinite ==
    ASSUME NEW S, IsFiniteSet(S), NEW f
    PROVE  IsFiniteSet({f[x] : x \in S})
<1> DEFINE T == {f[x] : x \in S}
           g == [x \in S |-> f[x]]
<1>1. g \in Surjection(S, T)
  BY DEF Surjection
<1> HIDE DEF g, T
<1>2. IsFiniteSet(T)
  BY <1>1, FS_Surjection
<1> QED
  BY <1>2 DEF T

LEMMA AuthorityAccepted ==
    ASSUME NEW r, AuthStatus(r) = 200
    PROVE  authoritySchema(authorityFromAuth(Auth(r)))
<1>1. iri(Auth(r).homePage)
  BY IdentityAssumption DEF AuthStatus, Auth, verifyJwt
<1>2. ASSUME NEW a, iri(a.homePage) PROVE agentSchema(authorityFromAuth(a))
  <2> DEFINE o == authorityFromAuth(a)
  <2>1. /\ DOMAIN o = {"objectType", "account"} /\ o.objectType = "Agent"
        /\ DOMAIN o.account = {"homePage", "name"} /\ o.account.homePage = a.homePage
    BY DEF authorityFromAuth
  <2> HIDE DEF o
  <2>2. accountSchema(o.account)
    BY <1>2, <2>1 DEF accountSchema, Object
  <2>3. Identifier(o)
    BY <2>1, <2>2 DEF Identifier, Field, Has
  <2>4. \E ifi \in IFIs : Object(o, {ifi}, {"objectType", "name"})
    <3>1. Object(o, {"account"}, {"objectType", "name"})
      BY <2>1 DEF Object
    <3> QED
      BY <3>1 DEF IFIs
  <2>5. agentSchema(o)
    BY <2>1, <2>3, <2>4 DEF agentSchema, Is
  <2> QED
    BY <2>5 DEF o
<1> QED
  BY <1>1, <1>2 DEF authoritySchema

LEMMA ContextSound ==
    ASSUME NEW r, WellMade(r.body), Refusal(r) = None, r.path # "/xapi/about"
    PROVE  Sound(Context(r))
<1>1. Parsable(r) /\ AuthStatus(r) = 200
  <2>1. AuthStatus(r) \in {200, 401, 500}
    BY DEF AuthStatus
  <2>2. None \notin {400, 401, 403, 413, 500}
    BY NoneAssumption
  <2> QED
    BY <2>1, <2>2 DEF Refusal
<1>2. ASSUME IsMultipart(r)
      PROVE  /\ WellFormed(r.body.parts)
             /\ r.body.parts \in Seq(Range(r.body.parts))
             /\ \A i \in DOMAIN r.body.parts :
                   Has(r.body.parts[i], "json") => OneOrMany(r.body.parts[i].json)
  <2>1. Has(r.body, "parts") /\ WellFormed(r.body.parts)
    BY <1>1, <1>2 DEF IsMultipart, Parsable, Multipart, Json
  <2> QED
    BY <2>1 DEF WellMade, Field, Array
<1>3. ASSUME IsMultipart(r)
      PROVE  /\ DOMAIN r.body.parts = 1 .. Len(r.body.parts)
             /\ Len(r.body.parts) \in Nat \ {0}
  BY <1>2, <1>3, LenProperties, EmptySeq DEF WellFormed
<1>4. ParsedBody(r) = None \/ OneOrMany(ParsedBody(r))
  <2>1. CASE IsMultipart(r)
    BY <1>2, <1>3, <2>1 DEF ParsedBody, WellFormed
  <2>2. CASE ~IsMultipart(r) /\ ReadsBody(r) /\ Header(r, "Content-Type") = Json
    <3>1. Has(r.body, "json")
      BY <1>1, <2>2 DEF Parsable, IsMultipart
    <3> QED
      BY <2>2, <3>1 DEF ParsedBody, WellMade, Field
  <2>3. CASE ~IsMultipart(r) /\ ~(ReadsBody(r) /\ Header(r, "Content-Type") = Json)
    BY <2>3 DEF ParsedBody
  <2> QED
    BY <2>1, <2>2, <2>3
<1>5. IsMultipart(r) => IsFiniteSet(DOMAIN AttachmentParts(r))
  <2> SUFFICES ASSUME IsMultipart(r) PROVE IsFiniteSet(DOMAIN AttachmentParts(r))
    OBVIOUS
  <2> DEFINE parts == r.body.parts
             hash == [i \in DOMAIN parts |-> parts[i].hash]
             others == DOMAIN parts \ {1}
  <2>1. IsFiniteSet(others)
    BY <1>3, FS_Interval, FS_Subset
  <2>2. IsFiniteSet({hash[i] : i \in others})
    <3> HIDE DEF hash, others
    <3> QED BY <2>1, ImageFinite
  <2>3. {hash[i] : i \in others} = {parts[i].hash : i \in others}
    OBVIOUS
  <2>4. DOMAIN AttachmentParts(r) = {parts[i].hash : i \in others}
    BY DEF AttachmentParts, AttachmentsOf
  <2> QED
    BY <2>2, <2>3, <2>4
<1>6. ~IsMultipart(r) => AttachmentParts(r) = Empty
  BY DEF AttachmentParts
<1>7. authoritySchema(authorityFromAuth(Auth(r)))
  BY <1>1, AuthorityAccepted
<1> QED
  BY <1>4, <1>5, <1>6, <1>7 DEF Context, Sound

(* What a request makes the server write, if anything. *)
LEMMA OutcomeAccepted ==
    ASSUME Bounded, NEW q \in Offered(served)
    PROVE  \/ Outcome(q).writes = Same
           \/ \E c, batch : /\ Sound(c) /\ AcceptedBatch(c, batch)
                            /\ Outcome(q).writes = Stored(c, batch)
<1>1. ASSUME NEW r, WellMade(r.body)
      PROVE  \/ Received(r).writes = Same
             \/ \E c, batch : /\ Sound(c) /\ AcceptedBatch(c, batch)
                              /\ Received(r).writes = Stored(c, batch)
  <2>1. \A s : Unaffected(s).writes = Same
    BY DEF Unaffected
  <2>2. \A k : Delayed(k).writes = Same
    BY DEF Delayed
  <2>3. \A k, h : Admitted(k, h).writes = h.writes
    BY DEF Admitted
  <2>4. CASE Refusal(r) # None \/ r.path = "/xapi/about" \/ Limited(Auth(r).key)
    BY <2>1, <2>2, <2>4 DEF Received, Dispatched
  <2>5. CASE ~(Refusal(r) # None \/ r.path = "/xapi/about" \/ Limited(Auth(r).key))
    <3>1. Received(r).writes = Handled(Context(r)).writes
      BY <2>3, <2>5 DEF Received, Dispatched
    <3>2. Sound(Context(r))
      BY <1>1, <2>5, ContextSound
    <3> QED
      BY <3>1, <3>2, HandledAccepted
  <2> QED
    BY <2>4, <2>5
<1>2. /\ WellMade(q.body)
      /\ Header(q, "Content-Type") = Form =>
            Has(q.body, "fields") /\ Field(q.body.fields, "content", WellMade)
  BY BodiesAssumption DEF Bounded
<1>3. ASSUME IsAlternate(q) PROVE WellMade(Redispatched(q).body)
  <2>1. \/ Redispatched(q).body = q.body.fields["content"] /\ Has(q.body.fields, "content")
        \/ Redispatched(q).body = [size |-> 0]
    BY DEF Redispatched
  <2>2. WellMade([size |-> 0])
    BY DEF WellMade, Field, Has
  <2>3. Has(q.body.fields, "content") => WellMade(q.body.fields["content"])
    BY <1>2, <1>3 DEF IsAlternate, Field
  <2> QED
    BY <2>1, <2>2, <2>3
<1>4. CASE IsAlternate(q) /\ HasDuplicate(q)
  BY <1>4 DEF Outcome, Unaffected
<1>5. CASE IsAlternate(q) /\ ~HasDuplicate(q)
  <2>1. Outcome(q) = Received(Redispatched(q))
    BY <1>5 DEF Outcome
  <2> QED
    BY <1>1, <1>3, <1>5, <2>1
<1>6. CASE ~IsAlternate(q)
  <2>1. Outcome(q) = Received(q)
    BY <1>6 DEF Outcome
  <2> QED
    BY <1>1, <1>2, <2>1
<1> QED
  BY <1>4, <1>5, <1>6

(* The files of a statement, of those that came along. *)
FilesOf(id, t, parts) ==
    {<<id, a.sha2, parts[a.sha2]>> : a \in {b \in Attachments(t) : Has(parts, b.sha2)}}

FilesOK(t, parts) ==
    /\ IsFiniteSet(DOMAIN parts)
    /\ Required(t) \subseteq DOMAIN parts
    /\ \A h \in DOMAIN parts : parts[h].data.sha = h
    /\ validateSignedStatement(t, parts)

(* An entry and the rows of its files: a statement that was accepted, what the
   server added, and the files that it was accepted with. *)
EntryOK(id, entry, rows) ==
    \E t, at, authority, parts :
        /\ Accepted(t, entry.version) /\ authoritySchema(authority)
        /\ entry.payload = Stamped(t, at, authority)
        /\ entry.multipart => FilesOK(t, parts) /\ rows = FilesOf(id, t, parts)

Rows(id) == {x \in attached : x[1] = id}

StoredOK ==
    /\ Bounded
    /\ \A id \in DOMAIN stored : EntryOK(id, stored[id], Rows(id))
    /\ \A x \in attached : x[1] \in DOMAIN stored

LEMMA StoredUnchanged ==
    ASSUME StoredOK, Bounded', stored' = stored, attached' = attached
    PROVE  StoredOK'
BY DEF StoredOK, Rows

(* A batch is stored next to what is there. *)
LEMMA BatchStored ==
    ASSUME StoredOK, Bounded', NEW c, NEW batch, Sound(c), AcceptedBatch(c, batch),
           stored' = Stored(c, batch).stored, attached' = Stored(c, batch).attached
    PROVE  StoredOK'
<1> DEFINE new == {s \in batch : ~Has(stored, s.id)}
           ids == {s.id : s \in new}
           chosen(id) == CHOOSE s \in new : s.id = id
           at == <<now, "Z">>
           authority == authorityFromAuth(c.auth)
           entries == [id \in ids |-> [payload |-> With(With(chosen(id), "stored", at), "authority", authority),
                                       version |-> c.version, multipart |-> c.multipart]]
           files(s) == {<<s.id, a.sha2, c.parts[a.sha2]>> : a \in {b \in Attachments(s) : Has(c.parts, b.sha2)}}
<1>1. stored' = Over(stored, entries) /\ attached' = attached \cup UNION {files(s) : s \in new}
  BY DEF Stored
<1>2. ASSUME NEW s \in new PROVE chosen(s.id) = s
  BY DEF AcceptedBatch
<1>3. ASSUME NEW s \in new
      PROVE  /\ entries[s.id].payload = Stamped(s, at, authority)
             /\ entries[s.id].version = c.version /\ entries[s.id].multipart = c.multipart
  <2>1. s.id \in ids
    OBVIOUS
  <2> HIDE DEF new, ids, at, authority
  <2> QED BY <1>2, <2>1 DEF Stamped
<1>4. DOMAIN entries = ids
  OBVIOUS
<1>5. \A s \in new : files(s) = FilesOf(s.id, s, c.parts)
  BY DEF FilesOf
<1>6. \A s \in new : \A x \in files(s) : x[1] = s.id
  OBVIOUS
<1> HIDE DEF entries, files, chosen
<1>7. /\ DOMAIN stored' = DOMAIN stored \cup ids
      /\ \A id \in DOMAIN stored : stored'[id] = stored[id]
      /\ \A id \in ids : stored'[id] = entries[id]
  BY <1>1, <1>4 DEF Over, Has
<1>8. \A x \in attached' : x[1] \in DOMAIN stored'
  <2> SUFFICES ASSUME NEW x \in attached' PROVE x[1] \in DOMAIN stored'
    OBVIOUS
  <2>1. CASE x \in attached
    BY <1>7, <2>1 DEF StoredOK
  <2>2. CASE x \notin attached
    <3>1. PICK s \in new : x \in files(s)
      BY <1>1, <2>2
    <3>2. x[1] = s.id /\ s.id \in ids
      BY <1>6, <3>1
    <3> QED
      BY <1>7, <3>2
  <2> QED
    BY <2>1, <2>2
<1>9. ASSUME NEW id \in DOMAIN stored PROVE Rows(id)' = Rows(id)
  <2>1. \A s \in new : s.id # id
    BY <1>9 DEF Has
  <2>2. \A s \in new : \A x \in files(s) : x[1] # id
    BY <1>6, <2>1
  <2> HIDE DEF new
  <2> QED BY <1>1, <2>2 DEF Rows
<1>10. ASSUME NEW s \in new PROVE Rows(s.id)' = FilesOf(s.id, s, c.parts)
  <2>1. \A x \in attached : x[1] # s.id
    BY DEF StoredOK, Has
  <2>2. \A u \in new : u.id = s.id => u = s
    BY DEF AcceptedBatch
  <2>3. ASSUME NEW x \in attached', x[1] = s.id PROVE x \in files(s)
    <3>1. PICK u \in new : x \in files(u)
      BY <1>1, <2>1, <2>3
    <3>2. u.id = s.id
      BY <1>6, <2>3, <3>1
    <3> QED
      BY <2>2, <3>1, <3>2
  <2>4. \A x \in files(s) : x \in attached' /\ x[1] = s.id
    BY <1>1, <1>6
  <2>5. Rows(s.id)' = files(s)
    BY <2>3, <2>4 DEF Rows
  <2> QED
    BY <1>5, <2>5
<1>11. ASSUME NEW s \in new PROVE EntryOK(s.id, stored'[s.id], Rows(s.id)')
  <2>1. stored'[s.id] = entries[s.id]
    BY <1>7
  <2>2. Accepted(s, c.version) /\ authoritySchema(authority)
    BY DEF AcceptedBatch, Sound
  <2>3. c.multipart => FilesOK(s, c.parts)
    <3> SUFFICES ASSUME c.multipart PROVE FilesOK(s, c.parts)
      OBVIOUS
    <3>1. IsFiniteSet(DOMAIN c.parts) /\ validateAttachmentParts(batch, c.parts) /\ s \in batch
      BY DEF AcceptedBatch, Sound
    <3> QED
      BY <3>1 DEF FilesOK, validateAttachmentParts
  <2>4. /\ entries[s.id].payload = Stamped(s, at, authority)
        /\ entries[s.id].version = c.version /\ entries[s.id].multipart = c.multipart
    BY <1>3
  <2>5. Rows(s.id)' = FilesOf(s.id, s, c.parts)
    BY <1>10
  <2> HIDE DEF new, at, authority
  <2>6. /\ Accepted(s, stored'[s.id].version) /\ authoritySchema(authority)
        /\ stored'[s.id].payload = Stamped(s, at, authority)
        /\ stored'[s.id].multipart => FilesOK(s, c.parts) /\ Rows(s.id)' = FilesOf(s.id, s, c.parts)
    BY <2>1, <2>2, <2>3, <2>4, <2>5
  <2> QED
    BY <2>6 DEF EntryOK
<1>12. \A id \in DOMAIN stored' : EntryOK(id, stored'[id], Rows(id)')
  <2> SUFFICES ASSUME NEW id \in DOMAIN stored' PROVE EntryOK(id, stored'[id], Rows(id)')
    OBVIOUS
  <2>1. CASE id \in DOMAIN stored
    BY <1>7, <1>9, <2>1 DEF StoredOK
  <2>2. CASE id \notin DOMAIN stored
    BY <1>7, <1>11, <2>2
  <2> QED
    BY <2>1, <2>2
<1> QED
  BY <1>8, <1>12 DEF StoredOK

LEMMA StoredInit == Init => StoredOK
<1> SUFFICES ASSUME Init PROVE StoredOK
  OBVIOUS
<1>1. DOMAIN stored = {} /\ attached = {} /\ Bounded
  BY GeneratedAssumption, LimitsAssumption DEF Init, Empty, Bounded
<1> QED
  BY <1>1 DEF StoredOK

LEMMA StoredStep == StoredOK /\ [Next]_vars => StoredOK'
<1> SUFFICES ASSUME StoredOK, [Next]_vars PROVE StoredOK'
  OBVIOUS
<1> USE GeneratedAssumption, LimitsAssumption
<1>1. ASSUME NEW q \in Offered(served), Serve(q) PROVE StoredOK'
  <2>1. Bounded'
    BY <1>1 DEF Serve, StoredOK, Bounded
  <2>2. stored' = Outcome(q).writes.stored /\ attached' = Outcome(q).writes.attached
    BY <1>1 DEF Serve, Answered
  <2>3. CASE Outcome(q).writes = Same
    BY <2>1, <2>2, <2>3, StoredUnchanged DEF Same
  <2>4. CASE \E c, batch : /\ Sound(c) /\ AcceptedBatch(c, batch)
                           /\ Outcome(q).writes = Stored(c, batch)
    BY <2>1, <2>2, <2>4, BatchStored
  <2> QED
    BY <2>3, <2>4, OutcomeAccepted DEF StoredOK
<1>2. CASE Tick
  BY <1>2, StoredUnchanged DEF Tick, server, StoredOK, Bounded
<1>3. CASE PruneStaleKeys
  BY <1>3, StoredUnchanged DEF PruneStaleKeys, StoredOK, Bounded
<1>4. CASE UNCHANGED vars
  BY <1>4, StoredUnchanged DEF vars, StoredOK, Bounded
<1> QED
  BY <1>1, <1>2, <1>3, <1>4 DEF Next

LEMMA HasGreatest ==
    ASSUME NEW n \in Nat, NEW T \in SUBSET (1 .. n), T # {}
    PROVE  \E x \in T : \A y \in T : y <= x
<1> DEFINE D == {n - x : x \in T}
<1>1. D \in SUBSET Nat /\ D # {}
  <2>1. \A x \in T : n - x \in Nat
    <3>1. \A x \in 1 .. n : n - x \in Nat
      OBVIOUS
    <3> QED
      BY <3>1
  <2>2. PICK x \in T : TRUE
    OBVIOUS
  <2>3. n - x \in D
    BY <2>2
  <2> QED
    BY <2>1, <2>3
<1>2. PICK d \in D : \A e \in D : d <= e
  <2> HIDE DEF D
  <2> QED BY <1>1, HasLeast
<1>3. PICK x \in T : d = n - x
  BY <1>2
<1>4. \A y \in T : n - x <= n - y
  BY <1>2, <1>3
<1> QED
  BY <1>4

(* Some order of the rows of a statement, as collectAttachmentParts has one. *)
InSomeOrder(R) == CHOOSE f \in [1 .. Cardinality(R) -> R] : Range(f) = R

LEMMA OrderExists ==
    ASSUME NEW R, IsFiniteSet(R)
    PROVE  /\ Cardinality(R) \in Nat
           /\ InSomeOrder(R) \in [1 .. Cardinality(R) -> R]
           /\ Range(InSomeOrder(R)) = R
<1>1. Cardinality(R) \in Nat /\ ExistsBijection(1 .. Cardinality(R), R)
  BY FS_CardinalityType
<1>2. PICK f \in [1 .. Cardinality(R) -> R] : Range(f) = R
  <2>1. PICK f \in Surjection(1 .. Cardinality(R), R) : TRUE
    BY <1>1 DEF ExistsBijection, Bijection
  <2>2. f \in [1 .. Cardinality(R) -> R] /\ \A x \in R : \E i \in 1 .. Cardinality(R) : f[i] = x
    BY <2>1 DEF Surjection
  <2>3. Range(f) = R
    BY <2>2 DEF Range
  <2> QED
    BY <2>2, <2>3
<1> QED
  BY <1>1, <1>2 DEF InSomeOrder

(* The parts of the response to a statement, one by one. *)
LEMMA ResponseParts ==
    ASSUME NEW id, NEW n \in Nat, NEW rows, DOMAIN rows = 1 .. n
    PROVE  /\ DOMAIN Response(id, rows) = 1 .. n + 1
           /\ Response(id, rows) # <<>>
           /\ Response(id, rows)[1] = [contentType |-> Json, json |-> [one |-> stored[id].payload]]
           /\ \A i \in 1 .. n : Response(id, rows)[i + 1] =
                 [contentType |-> rows[i][3].contentType, data |-> rows[i][3].data,
                  hash |-> rows[i][2], encoding |-> "binary"]
<1> DEFINE first == [contentType |-> Json, json |-> [one |-> stored[id].payload]]
           part(i) == [contentType |-> rows[i][3].contentType, data |-> rows[i][3].data,
                       hash |-> rows[i][2], encoding |-> "binary"]
           S == {first} \cup {part(i) : i \in 1 .. n}
           head == <<first>>
           tail == [i \in 1 .. n |-> part(i)]
<1>1. Response(id, rows) = head \o tail
  BY DEF Response
<1>2. head \in Seq(S) /\ Len(head) = 1 /\ head[1] = first
  <2> HIDE DEF part
  <2> QED OBVIOUS
<1>3. tail \in Seq(S) /\ Len(tail) = n /\ \A i \in 1 .. n : tail[i] = part(i)
  <2> HIDE DEF part
  <2>1. tail \in [1 .. n -> S] /\ \A i \in 1 .. n : tail[i] = part(i)
    OBVIOUS
  <2> HIDE DEF tail, S
  <2>2. tail \in Seq(S) /\ Len(tail) = n
    BY <2>1
  <2> QED
    BY <2>1, <2>2
<1> HIDE DEF head, tail, S
<1>4. /\ head \o tail \in Seq(S) /\ Len(head \o tail) = n + 1
      /\ \A i \in 1 .. n + 1 : (head \o tail)[i] = IF i <= 1 THEN head[i] ELSE tail[i - 1]
  <2>1. head \in Seq(S) /\ tail \in Seq(S) /\ Len(head) = 1 /\ Len(tail) = n
    BY <1>2, <1>3
  <2>2. /\ head \o tail \in Seq(S)
        /\ Len(head \o tail) = Len(head) + Len(tail)
        /\ \A i \in 1 .. Len(head) + Len(tail) : (head \o tail)[i] =
              IF i <= Len(head) THEN head[i] ELSE tail[i - Len(head)]
    BY <2>1, ConcatProperties
  <2> QED
    BY <2>1, <2>2
<1>5. DOMAIN (head \o tail) = 1 .. n + 1
  BY <1>4, LenProperties
<1>6. head \o tail # <<>>
  BY <1>4, EmptySeq
<1>7. (head \o tail)[1] = first
  BY <1>2, <1>4
<1>8. \A i \in 1 .. n : (head \o tail)[i + 1] = part(i)
  <2> HIDE DEF part, first
  <2> QED BY <1>3, <1>4
<1> QED
  BY <1>1, <1>5, <1>6, <1>7, <1>8

(* The files come back as they were sent. *)
LEMMA FilesComeBack ==
    ASSUME NEW id, NEW t, NEW parts, FilesOK(t, parts)
    PROVE  LET response == Response(id, InSomeOrder(FilesOf(id, t, parts)))
           IN  WellFormed(response) /\ validateAttachmentParts({t}, AttachmentsOf(response))
<1> DEFINE R == FilesOf(id, t, parts)
           n == Cardinality(R)
           rows == InSomeOrder(R)
           response == Response(id, rows)
           hashes == {a.sha2 : a \in {b \in Attachments(t) : Has(parts, b.sha2)}}
           again == AttachmentsOf(response)
<1>1. IsFiniteSet(R)
  <2> DEFINE row == [h \in DOMAIN parts |-> <<id, h, parts[h]>>]
  <2>1. IsFiniteSet({row[h] : h \in DOMAIN parts})
    <3> HIDE DEF row
    <3> QED BY ImageFinite DEF FilesOK
  <2>2. R \in SUBSET {row[h] : h \in DOMAIN parts}
    BY DEF FilesOf, Has
  <2> QED
    BY <2>1, <2>2, FS_Subset
<1>2. n \in Nat /\ rows \in [1 .. n -> R] /\ Range(rows) = R
  BY <1>1, OrderExists
<1>3. \A x \in R : x = <<id, x[2], parts[x[2]]>> /\ x[2] \in hashes
  BY DEF FilesOf
<1>4. ASSUME NEW h \in hashes PROVE \E x \in R : x[2] = h
  <2>1. PICK a \in {b \in Attachments(t) : Has(parts, b.sha2)} : h = a.sha2
    OBVIOUS
  <2>2. <<id, a.sha2, parts[a.sha2]>> \in R
    BY DEF FilesOf
  <2> QED
    BY <2>1, <2>2
<1>5. hashes \subseteq DOMAIN parts
  BY DEF Has
<1> HIDE DEF rows, n, R, hashes
<1>6. DOMAIN rows = 1 .. n /\ \A i \in 1 .. n : rows[i] \in R
  BY <1>2
<1>7. /\ DOMAIN response = 1 .. n + 1
      /\ response # <<>>
      /\ response[1] = [contentType |-> Json, json |-> [one |-> stored[id].payload]]
      /\ \A i \in 1 .. n : response[i + 1] =
            [contentType |-> rows[i][3].contentType, data |-> rows[i][3].data,
             hash |-> rows[i][2], encoding |-> "binary"]
  BY <1>2, <1>6, ResponseParts
<1> HIDE DEF response
<1>8. \A i \in DOMAIN response \ {1} :
         /\ {"hash", "encoding", "data", "contentType"} = DOMAIN response[i]
         /\ response[i].encoding = "binary"
         /\ response[i].hash \in hashes
         /\ response[i].data = parts[response[i].hash].data
  <2> SUFFICES ASSUME NEW i \in DOMAIN response \ {1}
               PROVE  /\ {"hash", "encoding", "data", "contentType"} = DOMAIN response[i]
                      /\ response[i].encoding = "binary"
                      /\ response[i].hash \in hashes
                      /\ response[i].data = parts[response[i].hash].data
    OBVIOUS
  <2>1. PICK j \in 1 .. n : i = j + 1
    <3>1. i - 1 \in 1 .. n /\ i = (i - 1) + 1
      BY <1>2, <1>7
    <3> QED
      BY <3>1
  <2>2. rows[j][3] = parts[rows[j][2]] /\ rows[j][2] \in hashes
    BY <1>3, <1>6
  <2>3. response[i] = [contentType |-> rows[j][3].contentType, data |-> rows[j][3].data,
                       hash |-> rows[j][2], encoding |-> "binary"]
    BY <1>7, <2>1
  <2>4. response[i].data = rows[j][3].data /\ response[i].hash = rows[j][2]
    BY <2>3
  <2>5. DOMAIN response[i] = {"hash", "encoding", "data", "contentType"}
        /\ response[i].encoding = "binary"
    BY <2>3
  <2> QED
    BY <2>2, <2>4, <2>5
<1>9. {response[i].hash : i \in DOMAIN response \ {1}} = hashes
  <2>1. ASSUME NEW h \in hashes PROVE \E i \in DOMAIN response \ {1} : response[i].hash = h
    <3>1. PICK x \in R : x[2] = h
      BY <1>4
    <3>2. PICK j \in 1 .. n : rows[j] = x
      BY <1>2, <1>6 DEF Range
    <3>3. j + 1 \in 1 .. n + 1 /\ j + 1 # 1
      BY <1>2
    <3>4. response[j + 1] = [contentType |-> rows[j][3].contentType, data |-> rows[j][3].data,
                             hash |-> rows[j][2], encoding |-> "binary"]
      BY <1>7
    <3>5. response[j + 1].hash = h
      BY <3>1, <3>2, <3>4
    <3> QED
      BY <1>7, <3>3, <3>5
  <2> QED
    BY <1>8, <2>1
<1>10. WellFormed(response)
  BY <1>2, <1>7, <1>8 DEF WellFormed, Has, Get
<1>11. DOMAIN again = hashes
  BY <1>9 DEF AttachmentsOf
<1>12. ASSUME NEW h \in hashes PROVE again[h].data = parts[h].data
  <2> DEFINE at == {i \in DOMAIN response \ {1} : response[i].hash = h}
             last == CHOOSE i \in at : \A j \in at : j <= i
  <2>1. at # {} /\ at \in SUBSET (1 .. n + 1)
    BY <1>7, <1>9
  <2>2. last \in at
    <3> HIDE DEF at
    <3>1. n + 1 \in Nat
      BY <1>2
    <3>2. \E i \in at : \A j \in at : j <= i
      BY <2>1, <3>1, HasGreatest
    <3> QED
      BY <3>2
  <2>3. again[h].data = response[last].data
    BY <1>9 DEF AttachmentsOf
  <2> HIDE DEF last
  <2> QED
    BY <1>8, <2>2, <2>3
<1> HIDE DEF again
<1>13. validateAttachmentParts({t}, again)
  <2>1. DOMAIN again \subseteq UNION {{a.sha2 : a \in Attachments(s)} : s \in {t}}
    BY <1>11 DEF hashes
  <2>2. UNION {Required(s) : s \in {t}} \subseteq DOMAIN again
    BY <1>11 DEF hashes, FilesOK, Required, Has
  <2>3. \A h \in DOMAIN again : again[h].data.sha = h
    BY <1>5, <1>11, <1>12 DEF FilesOK
  <2>4. validateSignedStatement(t, again)
    <3>1. \A a \in Attachments(t) : Has(again, a.sha2) =>
             Has(parts, a.sha2) /\ again[a.sha2].data = parts[a.sha2].data
      BY <1>5, <1>11, <1>12 DEF Has
    <3> QED
      BY <3>1 DEF FilesOK, validateSignedStatement
  <2> QED
    BY <2>1, <2>2, <2>3, <2>4 DEF validateAttachmentParts
<1> QED
  BY <1>10, <1>13 DEF again, response, rows, R

(* An accepted statement as the server stored it: read in every format it is
   accepted again, and parsed again it is what was validated. *)
LEMMA StampedReadsBack ==
    ASSUME NEW t, NEW version, Accepted(t, version), NEW at, NEW authority, authoritySchema(authority)
    PROVE  LET p == Stamped(t, at, authority) IN
           /\ \A format \in {"exact", "ids", "canonical"}, language \in Languages :
                 statementSchemaFor(formatStatement(p, format, language), version)
           /\ validateStatement(p, None, None) = t
           /\ statementsMatch(p, t)
<1> DEFINE p == Stamped(t, at, authority)
<1>1. PICK raw, newId, when :
         /\ statementSchemaFor(raw, version) /\ Named(raw, newId) /\ timestamp(when)
         /\ t = validateStatement(raw, newId, when)
  BY DEF Accepted
<1>2. validateStatement(p, None, None) = t /\ statementsMatch(p, t)
  BY <1>1, ParsedAgain
<1>3. statementSchemaFor(t, version) /\ IsListed(t)
  BY <1>1, ValidatedAccepted
<1>4. statementSchemaFor(p, version) /\ IsListed(p)
  BY <1>3, StampedAccepted
<1> HIDE DEF p
<1>5. ASSUME NEW format \in {"exact", "ids", "canonical"}, NEW language \in Languages
      PROVE  statementSchemaFor(formatStatement(p, format, language), version)
  <2>1. DOMAIN language \subseteq Nat
    <3>1. language \in Seq(Range(language))
      BY BodiesAssumption DEF Array
    <3> QED
      BY <3>1, LenProperties
  <2>2. statementSchemaFor(formatIds(p), version)
    BY <1>4, IdsAccepted
  <2>3. statementSchemaFor(formatCanonical(p, language), version)
    BY <1>4, <2>1, CanonicalAccepted
  <2>4. formatStatement(p, format, language) \in {p, formatIds(p), formatCanonical(p, language)}
    BY DEF formatStatement
  <2> QED
    BY <1>4, <2>2, <2>3, <2>4
<1> QED
  BY <1>2, <1>5 DEF p

LEMMA EntryReadsBack ==
    ASSUME NEW id, NEW s, NEW R, EntryOK(id, s, R), s = stored[id]
    PROVE  LET again == validateStatement(s.payload, None, None) IN
           /\ \A format \in {"exact", "ids", "canonical"}, language \in Languages :
                 statementSchemaFor(formatStatement(s.payload, format, language), s.version)
           /\ statementsMatch(s.payload, again)
           /\ s.multipart =>
                 /\ WellFormed(Response(id, InSomeOrder(R)))
                 /\ validateAttachmentParts({again}, AttachmentsOf(Response(id, InSomeOrder(R))))
<1>1. PICK t, at, authority, parts :
         /\ Accepted(t, s.version) /\ authoritySchema(authority)
         /\ s.payload = Stamped(t, at, authority)
         /\ s.multipart => FilesOK(t, parts) /\ R = FilesOf(id, t, parts)
  BY DEF EntryOK
<1>2. /\ \A format \in {"exact", "ids", "canonical"}, language \in Languages :
            statementSchemaFor(formatStatement(s.payload, format, language), s.version)
      /\ validateStatement(s.payload, None, None) = t
      /\ statementsMatch(s.payload, t)
  BY <1>1, StampedReadsBack
<1>3. s.multipart =>
         /\ WellFormed(Response(id, InSomeOrder(R)))
         /\ validateAttachmentParts({t}, AttachmentsOf(Response(id, InSomeOrder(R))))
  BY <1>1, FilesComeBack
<1> QED
  BY <1>2, <1>3

(* What a client may read it may send again: a stored statement, in every
   format and under the version it came with, is accepted; exactly read it says
   what is stored; and the files that were sent with it are returned such that
   all of it is accepted again (statement-schema.ts, enrichment.ts and
   multipart.ts agree). *)
THEOREM WhatIsReadIsAccepted == Spec => []ReadBackIsAccepted
<1>1. StoredOK => ReadBackIsAccepted
  <2> SUFFICES ASSUME StoredOK, NEW id \in DOMAIN stored
               PROVE  LET s == stored[id]
                          again == validateStatement(s.payload, None, None)
                          rows == InSomeOrder(Rows(id))
                      IN /\ \A format \in {"exact", "ids", "canonical"}, language \in Languages :
                              statementSchemaFor(formatStatement(s.payload, format, language), s.version)
                         /\ statementsMatch(s.payload, again)
                         /\ s.multipart =>
                              /\ WellFormed(Response(id, rows))
                              /\ validateAttachmentParts({again}, AttachmentsOf(Response(id, rows)))
    BY DEF ReadBackIsAccepted, InSomeOrder, Rows
  <2>1. EntryOK(id, stored[id], Rows(id))
    BY DEF StoredOK
  <2> QED
    BY <2>1, EntryReadsBack
<1> QED
  BY <1>1, StoredInit, StoredStep, PTL DEF Spec

=============================================================================
