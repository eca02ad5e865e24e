---------------------- MODULE ConsistentThrough_proofs ----------------------
(***************************************************************************)
(* For any number of sessions, consumers and statements, any clock         *)
(* resolution and any length of execution: the Consistent-Through header   *)
(* is a visibility bound, and ingestion windows built on it skip nothing.  *)
(***************************************************************************)
EXTENDS ConsistentThrough, TLAPS

(* A reader has a transaction open exactly in the two halves of its GET. *)
SessionOK ==
    \A r \in Readers :
        InTransaction(r) <=> pc[r] \in {"bounding", "bounded", "querying", "fetched"}

(* Uncommitted statements belong to one open transaction and carry its start
   time; committed ones carry some time and belong to none. *)
StampOK ==
    /\ \A w \in Writers, s \in Statements : s \in pending[w] =>
         /\ InTransaction(w)
         /\ storedAt[s] = getTransactionTime(w)
         /\ s \notin visible
    /\ \A v, w \in Writers : v # w => pending[v] \cap pending[w] = {}
    /\ \A s \in visible : storedAt[s] # None

(* Nothing that is open or still to come lies below a computed header. *)
BoundOK ==
    /\ vouched <= Ms(clock)
    /\ \A w \in Writers : InTransaction(w) => vouched <= getTransactionTime(w)
    /\ \A r \in Readers : header[r] <= vouched /\ watermark[r] <= vouched

(* A response in the making holds everything of its window that can ever lie
   below its header. *)
WindowOK ==
    \A r \in Readers, s \in visible :
        pc[r] = "fetched" /\ storedAt[s] < header[r] =>
            s \in ingested[r] \/ s \in rows[r]

IndInv == TypeOK /\ SessionOK /\ StampOK /\ BoundOK /\ WindowOK /\ NoStatementSkipped

-----------------------------------------------------------------------------
(* Truncation to milliseconds. *)

LEMMA MsDivides ==
    \A t \in Int : /\ Ms(t) \in Int
                   /\ TicksPerMs * Ms(t) <= t
                   /\ t < TicksPerMs * Ms(t) + TicksPerMs
  BY ConstantsAssumption, SMT DEF Ms

LEMMA CancelTicks ==
    ASSUME NEW p \in Int, NEW q \in Int,
           TicksPerMs * p < TicksPerMs * q + TicksPerMs
    PROVE  p <= q
<1>1. SUFFICES ASSUME p > q PROVE FALSE
  OBVIOUS
<1>2. p - q - 1 \in Nat
  BY <1>1
<1>3. TicksPerMs * (p - q - 1) >= 0
  BY <1>2, ConstantsAssumption, SMT
<1> QED
  BY <1>3, ConstantsAssumption, SMT

LEMMA MsMonotone == \A t, u \in Int : t <= u => Ms(t) <= Ms(u)
<1>1. SUFFICES ASSUME NEW t \in Int, NEW u \in Int, t <= u
      PROVE  Ms(t) <= Ms(u)
  OBVIOUS
<1>2. TicksPerMs * Ms(t) < TicksPerMs * Ms(u) + TicksPerMs
  BY <1>1, MsDivides, ConstantsAssumption, SMT
<1> QED
  BY <1>2, CancelTicks, MsDivides

(* One millisecond of ticks is exactly one millisecond after truncation. *)
LEMMA MsMinusOne == \A t \in Int : Ms(t - TicksPerMs) = Ms(t) - 1
<1>1. SUFFICES ASSUME NEW t \in Int PROVE Ms(t - TicksPerMs) = Ms(t) - 1
  OBVIOUS
<1>2. t - TicksPerMs \in Int
  BY ConstantsAssumption
<1>3. TicksPerMs * (Ms(t) - 1) < TicksPerMs * Ms(t - TicksPerMs) + TicksPerMs
  BY <1>2, MsDivides, ConstantsAssumption, SMT
<1>4. TicksPerMs * Ms(t - TicksPerMs) < TicksPerMs * (Ms(t) - 1) + TicksPerMs
  BY <1>2, MsDivides, ConstantsAssumption, SMT
<1> QED
  BY <1>2, <1>3, <1>4, CancelTicks, MsDivides, SMT

LEMMA MsNat == \A t \in Nat : Ms(t) \in Nat
  BY ConstantsAssumption, SMT DEF Ms

(* A header that reader r can compute: it is a natural number, no later than
   the clock, and strictly below the start of every other open transaction. *)
LEMMA HeaderBound ==
    ASSUME TypeOK, NEW r \in Readers, InTransaction(r),
           NEW h, getConsistentThrough(r, h)
    PROVE  /\ h \in Nat
           /\ h <= Ms(clock)
           /\ \A w \in Writers : InTransaction(w) => h < getTransactionTime(w)
<1>1. PICK bound \in BoundCandidates(r) :
           /\ \A x \in BoundCandidates(r) : bound <= x
           /\ h = Ms(bound)
  BY DEF getConsistentThrough
<1>2. \A b \in Sessions : InTransaction(b) =>
          xactStart[b] \in Nat /\ TicksPerMs <= xactStart[b] /\ xactStart[b] <= clock
  BY DEF TypeOK, InTransaction
<1>3. xactStart[r] \in BoundCandidates(r) /\ r \in Sessions
  BY DEF BoundCandidates, Sessions
<1>4. BoundCandidates(r) \subseteq Nat
  <2>1. \A b \in Sessions : InTransaction(b) => xactStart[b] - TicksPerMs \in Nat
    BY <1>2, ConstantsAssumption
  <2> QED
    BY <1>2, <1>3, <2>1 DEF BoundCandidates, OtherXactStarts
<1>5. h \in Nat
  BY <1>1, <1>4, MsNat
<1>6. h <= Ms(clock)
  <2>1. bound <= clock
    BY <1>1, <1>2, <1>3, <1>4 DEF TypeOK
  <2> QED
    BY <2>1, <1>1, <1>4, MsMonotone DEF TypeOK
<1>7. ASSUME NEW w \in Writers, InTransaction(w)
      PROVE  h < getTransactionTime(w)
  <2>1. w \in Sessions \ {r}
    BY ConstantsAssumption DEF Sessions
  <2>2. xactStart[w] - TicksPerMs \in BoundCandidates(r)
    BY <1>7, <2>1 DEF BoundCandidates, OtherXactStarts
  <2>3. bound <= xactStart[w] - TicksPerMs
    BY <1>1, <2>2
  <2>4. xactStart[w] \in Nat /\ xactStart[w] - TicksPerMs \in Int
    BY <1>2, <1>7, <2>1, ConstantsAssumption
  <2>5. Ms(bound) <= Ms(xactStart[w] - TicksPerMs)
    BY <1>1, <1>4, <2>3, <2>4, MsMonotone
  <2>6. Ms(xactStart[w] - TicksPerMs) = Ms(xactStart[w]) - 1
    BY <2>4, MsMinusOne
  <2>7. Ms(xactStart[w]) \in Nat
    BY <2>4, MsNat
  <2> QED
    BY <1>1, <1>5, <2>5, <2>6, <2>7 DEF getTransactionTime
<1> QED
  BY <1>5, <1>6, <1>7

-----------------------------------------------------------------------------
(* The inductive invariant: one step per action, one leaf per conjunct. *)

LEMMA InitInv == Init => IndInv
<1> SUFFICES ASSUME Init PROVE IndInv
  OBVIOUS
<1>1. TypeOK
  BY ConstantsAssumption DEF Init, TypeOK, InTransaction
<1>2. SessionOK
  BY DEF Init, SessionOK, InTransaction, Sessions
<1>3. StampOK
  BY DEF Init, StampOK
<1>4. BoundOK
  BY ConstantsAssumption, MsNat DEF Init, BoundOK, InTransaction, Sessions
<1>5. WindowOK /\ NoStatementSkipped
  BY DEF Init, WindowOK, NoStatementSkipped
<1> QED
  BY <1>1, <1>2, <1>3, <1>4, <1>5 DEF IndInv

LEMMA TickInv == IndInv /\ Tick => IndInv'
<1> SUFFICES ASSUME IndInv, Tick PROVE IndInv'
  OBVIOUS
<1> USE DEF Tick, readVars, writeVars
<1>1. TypeOK'
  BY ConstantsAssumption DEF IndInv, TypeOK, InTransaction
<1>2. SessionOK' /\ StampOK' /\ WindowOK' /\ NoStatementSkipped'
  BY DEF IndInv, SessionOK, StampOK, WindowOK, NoStatementSkipped, InTransaction,
         getTransactionTime
<1>3. BoundOK'
  <2>1. Ms(clock) <= Ms(clock + 1) /\ Ms(clock) \in Nat /\ Ms(clock + 1) \in Nat
    BY MsMonotone, MsNat DEF IndInv, TypeOK
  <2> QED
    BY <2>1 DEF IndInv, TypeOK, BoundOK, InTransaction, getTransactionTime
<1> QED
  BY <1>1, <1>2, <1>3 DEF IndInv

LEMMA BeginWriteInv == ASSUME NEW w \in Writers PROVE IndInv /\ BeginWrite(w) => IndInv'
<1> SUFFICES ASSUME IndInv, BeginWrite(w) PROVE IndInv'
  OBVIOUS
<1> USE DEF BeginWrite, Begin, readVars, writeVars
<1>1. TypeOK'
  BY ConstantsAssumption DEF IndInv, TypeOK, InTransaction, Sessions
<1>2. SessionOK'
  BY ConstantsAssumption DEF IndInv, TypeOK, SessionOK, InTransaction, Sessions
<1>3. StampOK'
  BY DEF IndInv, TypeOK, StampOK, InTransaction, Sessions, getTransactionTime
<1>4. BoundOK'
  BY DEF IndInv, TypeOK, BoundOK, InTransaction, Sessions, getTransactionTime
<1>5. WindowOK' /\ NoStatementSkipped'
  BY DEF IndInv, WindowOK, NoStatementSkipped
<1> QED
  BY <1>1, <1>2, <1>3, <1>4, <1>5 DEF IndInv

LEMMA insertStatementInv ==
    ASSUME NEW w \in Writers, NEW s \in Statements
    PROVE  IndInv /\ insertStatement(w, s) => IndInv'
<1> SUFFICES ASSUME IndInv, insertStatement(w, s) PROVE IndInv'
  OBVIOUS
<1> USE DEF insertStatement, readVars
<1>1. TypeOK'
  <2>1. getTransactionTime(w) \in Nat
    BY MsNat DEF IndInv, TypeOK, InTransaction, Sessions, getTransactionTime
  <2> QED
    BY <2>1 DEF IndInv, TypeOK, InTransaction
<1>2. SessionOK'
  BY DEF IndInv, SessionOK, InTransaction
<1>3. StampOK'
  <2>1. getTransactionTime(w) # None
    BY MsNat, ConstantsAssumption
       DEF IndInv, TypeOK, InTransaction, Sessions, getTransactionTime
  <2>2. s \notin visible
    BY DEF IndInv, StampOK
  <2>3. \A v \in Writers : s \notin pending[v]
    BY MsNat, ConstantsAssumption
       DEF IndInv, StampOK, TypeOK, InTransaction, Sessions, getTransactionTime
  <2> QED
    BY <2>1, <2>2, <2>3 DEF IndInv, TypeOK, StampOK, InTransaction, getTransactionTime
<1>4. BoundOK'
  BY DEF IndInv, TypeOK, BoundOK, InTransaction, getTransactionTime
<1>5. WindowOK' /\ NoStatementSkipped'
  BY DEF IndInv, TypeOK, StampOK, WindowOK, NoStatementSkipped
<1> QED
  BY <1>1, <1>2, <1>3, <1>4, <1>5 DEF IndInv

LEMMA CommitWriteInv == ASSUME NEW w \in Writers PROVE IndInv /\ CommitWrite(w) => IndInv'
<1> SUFFICES ASSUME IndInv, CommitWrite(w) PROVE IndInv'
  OBVIOUS
<1> USE DEF CommitWrite, End, readVars
<1>1. TypeOK'
  BY ConstantsAssumption DEF IndInv, TypeOK, InTransaction, Sessions
<1>2. SessionOK'
  BY ConstantsAssumption DEF IndInv, TypeOK, SessionOK, InTransaction, Sessions
<1>3. StampOK'
  <2>1. \A s \in pending[w] : storedAt[s] # None
    BY MsNat, ConstantsAssumption
       DEF IndInv, StampOK, TypeOK, InTransaction, Sessions, getTransactionTime
  <2> QED
    BY <2>1 DEF IndInv, TypeOK, StampOK, InTransaction, Sessions, getTransactionTime
<1>4. BoundOK'
  BY DEF IndInv, TypeOK, BoundOK, InTransaction, Sessions, getTransactionTime
<1>5. \A s \in pending[w] : storedAt[s] \in Nat /\ vouched <= storedAt[s]
  BY MsNat DEF IndInv, TypeOK, StampOK, BoundOK, InTransaction, Sessions,
               getTransactionTime
<1>6. WindowOK' /\ NoStatementSkipped'
  BY <1>5 DEF IndInv, TypeOK, BoundOK, WindowOK, NoStatementSkipped
<1> QED
  BY <1>1, <1>2, <1>3, <1>4, <1>6 DEF IndInv

LEMMA RollbackWriteInv ==
    ASSUME NEW w \in Writers PROVE IndInv /\ RollbackWrite(w) => IndInv'
<1> SUFFICES ASSUME IndInv, RollbackWrite(w) PROVE IndInv'
  OBVIOUS
<1> USE DEF RollbackWrite, End, readVars
<1>1. TypeOK'
  BY ConstantsAssumption DEF IndInv, TypeOK, InTransaction, Sessions
<1>2. SessionOK'
  BY ConstantsAssumption DEF IndInv, TypeOK, SessionOK, InTransaction, Sessions
<1>3. StampOK'
  BY DEF IndInv, TypeOK, StampOK, InTransaction, Sessions, getTransactionTime
<1>4. BoundOK'
  BY DEF IndInv, TypeOK, BoundOK, InTransaction, Sessions, getTransactionTime
<1>5. \A s \in visible : storedAt'[s] = storedAt[s]
  BY DEF IndInv, TypeOK, StampOK
<1>6. WindowOK' /\ NoStatementSkipped'
  BY <1>5 DEF IndInv, WindowOK, NoStatementSkipped
<1> QED
  BY <1>1, <1>2, <1>3, <1>4, <1>6 DEF IndInv

LEMMA BeginReadInv ==
    ASSUME NEW r \in Readers
    PROVE  IndInv /\ (BeginHeader(r) \/ BeginQuery(r)) => IndInv'
<1> SUFFICES ASSUME IndInv, BeginHeader(r) \/ BeginQuery(r) PROVE IndInv'
  OBVIOUS
<1> USE DEF BeginHeader, BeginQuery, Begin, writeVars
<1>1. TypeOK'
  BY ConstantsAssumption DEF IndInv, TypeOK, InTransaction, Sessions
<1>2. SessionOK'
  BY ConstantsAssumption DEF IndInv, TypeOK, SessionOK, InTransaction, Sessions
<1>3. StampOK'
  BY ConstantsAssumption
     DEF IndInv, TypeOK, StampOK, InTransaction, Sessions, getTransactionTime
<1>4. BoundOK'
  BY ConstantsAssumption
     DEF IndInv, TypeOK, BoundOK, InTransaction, Sessions, getTransactionTime
<1>5. WindowOK' /\ NoStatementSkipped'
  BY DEF IndInv, TypeOK, WindowOK, NoStatementSkipped
<1> QED
  BY <1>1, <1>2, <1>3, <1>4, <1>5 DEF IndInv

LEMMA ComputeHeaderInv ==
    ASSUME NEW r \in Readers PROVE IndInv /\ ComputeHeader(r) => IndInv'
<1> SUFFICES ASSUME IndInv, ComputeHeader(r) PROVE IndInv'
  OBVIOUS
<1>1. PICK h : /\ getConsistentThrough(r, h)
               /\ header' = [header EXCEPT ![r] = h]
               /\ vouched' = IF h > vouched THEN h ELSE vouched
  BY DEF ComputeHeader
<1>2. InTransaction(r)
  BY DEF IndInv, SessionOK, ComputeHeader
<1>3. /\ h \in Nat
      /\ h <= Ms(clock)
      /\ \A w \in Writers : InTransaction(w) => h < getTransactionTime(w)
  BY <1>1, <1>2, HeaderBound DEF IndInv
<1> USE DEF ComputeHeader, writeVars
<1>4. TypeOK'
  BY <1>1, <1>3 DEF IndInv, TypeOK, InTransaction
<1>5. SessionOK' /\ StampOK'
  BY DEF IndInv, TypeOK, SessionOK, StampOK, InTransaction, getTransactionTime
<1>6. BoundOK'
  BY <1>1, <1>3, MsNat
     DEF IndInv, TypeOK, BoundOK, InTransaction, Sessions, getTransactionTime
<1>7. WindowOK' /\ NoStatementSkipped'
  BY <1>1 DEF IndInv, TypeOK, WindowOK, NoStatementSkipped
<1> QED
  BY <1>4, <1>5, <1>6, <1>7 DEF IndInv

LEMMA CommitHeaderInv ==
    ASSUME NEW r \in Readers PROVE IndInv /\ CommitHeader(r) => IndInv'
<1> SUFFICES ASSUME IndInv, CommitHeader(r) PROVE IndInv'
  OBVIOUS
<1> USE DEF CommitHeader, End, writeVars
<1>1. TypeOK'
  BY ConstantsAssumption DEF IndInv, TypeOK, InTransaction, Sessions
<1>2. SessionOK'
  BY ConstantsAssumption DEF IndInv, TypeOK, SessionOK, InTransaction, Sessions
<1>3. StampOK' /\ BoundOK'
  BY ConstantsAssumption
     DEF IndInv, TypeOK, StampOK, BoundOK, InTransaction, Sessions, getTransactionTime
<1>4. WindowOK' /\ NoStatementSkipped'
  BY DEF IndInv, TypeOK, WindowOK, NoStatementSkipped
<1> QED
  BY <1>1, <1>2, <1>3, <1>4 DEF IndInv

LEMMA queryStatementsInv ==
    ASSUME NEW r \in Readers PROVE IndInv /\ queryStatements(r) => IndInv'
<1> SUFFICES ASSUME IndInv, queryStatements(r) PROVE IndInv'
  OBVIOUS
<1> USE DEF queryStatements, writeVars
<1>1. TypeOK'
  BY DEF IndInv, TypeOK, InTransaction
<1>2. SessionOK' /\ StampOK' /\ BoundOK' /\ NoStatementSkipped'
  BY DEF IndInv, TypeOK, SessionOK, StampOK, BoundOK, NoStatementSkipped,
         InTransaction, getTransactionTime
<1>3. WindowOK'
  <2>1. \A s \in visible : storedAt[s] \in Nat
    BY DEF IndInv, TypeOK, StampOK
  <2>2. \A s \in visible : s \in rows'[r] \/ storedAt[s] < watermark[r]
    BY <2>1 DEF IndInv, TypeOK, AtOrAfter
  <2> QED
    BY <2>2 DEF IndInv, TypeOK, WindowOK, NoStatementSkipped
<1> QED
  BY <1>1, <1>2, <1>3 DEF IndInv

LEMMA EndReadInv ==
    ASSUME NEW r \in Readers PROVE IndInv /\ (Respond(r) \/ FailRead(r)) => IndInv'
<1> SUFFICES ASSUME IndInv, Respond(r) \/ FailRead(r) PROVE IndInv'
  OBVIOUS
<1> USE DEF Respond, FailRead, End, writeVars
<1>1. TypeOK'
  BY ConstantsAssumption DEF IndInv, TypeOK, InTransaction, Sessions
<1>2. SessionOK'
  BY ConstantsAssumption DEF IndInv, TypeOK, SessionOK, InTransaction, Sessions
<1>3. StampOK'
  BY ConstantsAssumption
     DEF IndInv, TypeOK, StampOK, InTransaction, Sessions, getTransactionTime
<1>4. BoundOK'
  BY ConstantsAssumption
     DEF IndInv, TypeOK, BoundOK, InTransaction, Sessions, getTransactionTime
<1>5. WindowOK'
  BY DEF IndInv, TypeOK, WindowOK
<1>6. NoStatementSkipped'
  BY DEF IndInv, TypeOK, WindowOK, NoStatementSkipped
<1> QED
  BY <1>1, <1>2, <1>3, <1>4, <1>5, <1>6 DEF IndInv

LEMMA NextInv == IndInv /\ [Next]_vars => IndInv'
<1> SUFFICES ASSUME IndInv, [Next]_vars PROVE IndInv'
  OBVIOUS
<1>1. CASE Tick
  BY <1>1, TickInv
<1>2. CASE \E w \in Writers : Write(w)
  BY <1>2, BeginWriteInv, insertStatementInv, CommitWriteInv, RollbackWriteInv DEF Write
<1>3. CASE \E r \in Readers : Read(r)
  BY <1>3, BeginReadInv, ComputeHeaderInv, CommitHeaderInv, queryStatementsInv, EndReadInv
     DEF Read, Serve
<1>4. CASE UNCHANGED vars
  BY <1>4 DEF vars, IndInv, TypeOK, SessionOK, StampOK, BoundOK, WindowOK,
              NoStatementSkipped, InTransaction, getTransactionTime
<1> QED
  BY <1>1, <1>2, <1>3, <1>4 DEF Next

-----------------------------------------------------------------------------
(* The strengthened invariant holds in every execution of the server and its
   consumers; the theorems below follow from it. *)
THEOREM Invariance == Spec => []IndInv
  BY InitInv, NextInv, PTL DEF Spec

(* Every variable keeps its type; in particular no computed header, recorded
   watermark or `stored` is ever negative. *)
THEOREM TypeCorrect == Spec => []TypeOK
<1>1. IndInv => TypeOK
  BY DEF IndInv
<1> QED
  BY <1>1, Invariance, PTL

(* A consumer that starts each window at the header of its last response never
   leaves a committed statement behind its watermark unread. *)
THEOREM IngestionSkipsNothing == Spec => []NoStatementSkipped
<1>1. IndInv => NoStatementSkipped
  BY DEF IndInv
<1> QED
  BY <1>1, Invariance, PTL

(* What becomes visible in a step was open before it, at or above the bound. *)
LEMMA AppearingStatements ==
    ASSUME IndInv, [Next]_vars, NEW s \in visible' \ visible
    PROVE  \E w \in Writers : CommitWrite(w) /\ s \in pending[w]
<1>1. CASE Tick
  BY <1>1 DEF Tick, writeVars
<1>2. CASE \E w \in Writers : Write(w)
  BY <1>2 DEF Write, BeginWrite, insertStatement, CommitWrite, RollbackWrite, writeVars
<1>3. CASE \E r \in Readers : Read(r)
  BY <1>3 DEF Read, Serve, BeginHeader, ComputeHeader, CommitHeader, BeginQuery,
              queryStatements, Respond, FailRead, writeVars
<1>4. CASE UNCHANGED vars
  BY <1>4 DEF vars
<1> QED
  BY <1>1, <1>2, <1>3, <1>4 DEF Next

LEMMA PendingAboveBound ==
    ASSUME IndInv, NEW w \in Writers, NEW s \in pending[w]
    PROVE  storedAt[s] \in Nat /\ storedAt[s] >= vouched
  BY MsNat DEF IndInv, TypeOK, StampOK, BoundOK, InTransaction, Sessions,
               getTransactionTime

(* No statement becomes visible with a `stored` before a header that any
   session has computed. *)
THEOREM HeaderIsABound == Spec => NothingAppearsBelowTheBound
<1>1. ASSUME IndInv, [Next]_vars
      PROVE  \A s \in visible' \ visible : storedAt[s] >= vouched
  BY <1>1, AppearingStatements, PendingAboveBound
<1> QED
  BY <1>1, Invariance, PTL DEF Spec, NothingAppearsBelowTheBound

(* A header is computed strictly below everything that the transactions open
   at that moment will store. *)
THEOREM HeaderBelowOpenWrites == Spec => BoundIsBelowOpenWrites
<1>1. ASSUME IndInv, NEW r \in Readers, ComputeHeader(r),
             NEW w \in Writers, InTransaction(w)
      PROVE  header'[r] < getTransactionTime(w)
  <2>1. PICK h : getConsistentThrough(r, h) /\ header' = [header EXCEPT ![r] = h]
    BY <1>1 DEF ComputeHeader
  <2>2. InTransaction(r)
    BY <1>1 DEF IndInv, SessionOK, ComputeHeader
  <2>3. h < getTransactionTime(w)
    BY <1>1, <2>1, <2>2, HeaderBound DEF IndInv
  <2> QED
    BY <1>1, <2>1, <2>3 DEF IndInv, TypeOK
<1>2. IndInv => \A r \in Readers : ComputeHeader(r) =>
          \A w \in Writers : InTransaction(w) => header'[r] < getTransactionTime(w)
  BY <1>1
<1> QED
  BY <1>2, Invariance, PTL DEF BoundIsBelowOpenWrites

-----------------------------------------------------------------------------
(* The protocol implements VisibilityBound: a commit lets its statements
   appear, a computed header may announce a higher bound, and every other step
   stutters. *)

LEMMA InitPromise == Init => Promise!Init
  BY DEF Init, Promise!Init, appeared

LEMMA StampsStay ==
    ASSUME IndInv, [Next]_vars, NEW s \in visible
    PROVE  s \in visible' /\ storedAt'[s] = storedAt[s]
<1>1. CASE Tick
  BY <1>1 DEF Tick, writeVars
<1>2. CASE \E w \in Writers : Write(w)
  <2>1. PICK w \in Writers : Write(w)
    BY <1>2
  <2>2. s \in Statements /\ s \notin pending[w] /\ storedAt[s] # None
    BY DEF IndInv, TypeOK, StampOK
  <2> QED
    BY <2>1, <2>2 DEF Write, BeginWrite, insertStatement, CommitWrite, RollbackWrite,
                      writeVars, IndInv, TypeOK
<1>3. CASE \E r \in Readers : Read(r)
  BY <1>3 DEF Read, Serve, BeginHeader, ComputeHeader, CommitHeader, BeginQuery,
              queryStatements, Respond, FailRead, writeVars
<1>4. CASE UNCHANGED vars
  BY <1>4 DEF vars
<1> QED
  BY <1>1, <1>2, <1>3, <1>4 DEF Next

LEMMA StepPromise == IndInv /\ IndInv' /\ [Next]_vars => [Promise!Next]_(Promise!vars)
<1> SUFFICES ASSUME IndInv, IndInv', [Next]_vars
             PROVE  Promise!Next \/ UNCHANGED Promise!vars
  BY DEF Promise!vars
<1>1. CASE visible' = visible
  <2>1. appeared' = appeared
    BY <1>1, StampsStay DEF appeared
  <2>2. vouched' = vouched \/ vouched' > vouched
    BY DEF IndInv, TypeOK, Next, vars, Tick, Write, Read, Serve, BeginWrite,
           insertStatement, CommitWrite, RollbackWrite, BeginHeader, ComputeHeader,
           CommitHeader, BeginQuery, queryStatements, Respond, FailRead,
           readVars, writeVars
  <2> QED
    BY <2>1, <2>2 DEF Promise!Next, Promise!Announce, Promise!vars, IndInv, TypeOK
<1>2. CASE visible' # visible
  <2>1. PICK s \in visible' \ visible : TRUE
    BY <1>2, StampsStay
  <2>2. PICK w \in Writers : CommitWrite(w)
    BY <2>1, AppearingStatements
  <2>3. vouched' = vouched /\ storedAt' = storedAt
    BY <2>2 DEF CommitWrite, readVars
  <2>4. \A i \in visible : i \in visible'
    BY StampsStay
  <2>5. \A i \in visible' \ visible : storedAt[i] \in Nat /\ storedAt[i] >= vouched
    BY AppearingStatements, PendingAboveBound
  <2>6. appeared' \in [Statements -> Nat \cup {None}]
    BY DEF appeared, IndInv, TypeOK
  <2> QED
    BY <2>3, <2>4, <2>5, <2>6, ConstantsAssumption
       DEF appeared, Promise!Next, Promise!Appear
<1> QED
  BY <1>1, <1>2

THEOREM Refinement == Spec => ImplementsPromise
  BY InitPromise, StepPromise, Invariance, PTL DEF Spec, Promise!Spec, ImplementsPromise

=============================================================================
