---------------------------- MODULE Access_proofs ----------------------------
(***************************************************************************)
(* For any number of replicas, admins and clients, any scopes and any      *)
(* number of crashes: a credential has the scopes last committed for it    *)
(* under its present secret, and a request is let in on the grant of one   *)
(* credential.                                                             *)
(***************************************************************************)
EXTENDS Access, TLAPS

KeyPair == Nat \X Nat

TablesType ==
    /\ fresh \in Nat
    /\ \A a \in accounts : a.id \in Nat
    /\ credentials \subseteq [id : Nat, apiKey : Nat, secretKey : Nat, account : Nat]
    /\ scopeRows \subseteq KeyPair \X Scopes
    /\ granted \subseteq Nat \X Scopes
    /\ locks \subseteq Nat \X Processes

Labels == {"down", "account", "createAccount", "owner", "credential", "createCredential",
           "lock", "snapshot", "write", "serving", "idle", "found", "admitted", "refused"}

Work == [username : Usernames \cup {None}, account : Nat \cup {None},
         credential : Nat \cup {None}, scopes : SUBSET Scopes, rotates : BOOLEAN,
         pair : KeyPair \cup {None}, route : Routes \cup {None}]

ControlType ==
    /\ config \in Configs
    /\ pc \in [Processes \cup Clients -> Labels]
    /\ work \in [Processes \cup Clients -> Work]
    /\ known \subseteq KeyPair

(* Whatever is handed out next is new. *)
NumbersOK ==
    /\ \A c \in credentials : c.id <= fresh /\ c.secretKey <= fresh
    /\ \A g \in granted : g[1] <= fresh
    /\ \A l \in locks : l[1] <= fresh

(* The keys of the tables, and one lock for one row. *)
UniqueOK ==
    /\ \A c, d \in credentials : c.id = d.id \/ Pair(c) = Pair(d) => c = d
    /\ \A l, m \in locks : l[1] = m[1] => l = m

(* ScopesFollowTheCredential row by row. *)
FollowsOK ==
    /\ \A c \in credentials, s \in Scopes : <<Pair(c), s>> \in scopeRows <=> <<c.id, s>> \in granted
    /\ \A r \in scopeRows : r[1] \in Pairs

TablesOK == TablesType /\ NumbersOK /\ UniqueOK /\ FollowsOK

(* A transaction holds the lock on its credential, and what a rotation has read
   there is what is stored. *)
Holds(p) == pc[p] \in {"snapshot", "write"} => <<work[p].credential, p>> \in locks

HasRead(p) ==
    pc[p] = "write" /\ work[p].rotates =>
        \A c \in credentials, s \in Scopes :
            c.id = work[p].credential =>
                (s \in work[p].scopes <=> <<Pair(c), s>> \in scopeRows)

HoldsOK == \A p \in Processes : Holds(p) /\ HasRead(p)

RouteOK == \A q \in Clients : pc[q] = "found" => work[q].route \in Routes

IndInv == TablesOK /\ ControlType /\ HoldsOK /\ RouteOK

(* What a step of q leaves of the rows that somebody else has locked. *)
Kept(q) ==
    \A l \in locks : l[2] # q =>
        /\ l \in locks'
        /\ \A c \in credentials' : c.id = l[1] =>
              /\ c \in credentials
              /\ \A s \in Scopes : <<Pair(c), s>> \in scopeRows' <=> <<Pair(c), s>> \in scopeRows

Everybody == Processes \cup Clients

MovesTo(q, labels) ==
    \E label \in labels, w \in Work :
        pc' = [pc EXCEPT ![q] = label] /\ work' = [work EXCEPT ![q] = w]

Quiet == Labels \ {"snapshot", "write", "found"}

-----------------------------------------------------------------------------
(* The queries and transactions on the tables. *)

LEMMA CreateAccountStep ==
    ASSUME TablesOK, NEW name, createAccount(name)
    PROVE  TablesOK' /\ \A q : Kept(q)
<1>1. TablesType'
  BY DEF TablesOK, TablesType, createAccount
<1>2. NumbersOK'
  BY DEF TablesOK, TablesType, NumbersOK, createAccount
<1>3. UniqueOK' /\ FollowsOK'
  BY DEF TablesOK, UniqueOK, FollowsOK, createAccount, Pair, Pairs
<1>4. \A q : Kept(q)
  BY DEF createAccount, Kept
<1> QED
  BY <1>1, <1>2, <1>3, <1>4 DEF TablesOK

LEMMA CreateCredentialStep ==
    ASSUME TablesOK, NEW key \in Nat, NEW secret \in Nat, NEW account,
           secret <= fresh + 1, createCredential(key, secret, account)
    PROVE  TablesOK' /\ \A q : Kept(q)
<1> DEFINE new == [id |-> fresh + 1, apiKey |-> key, secretKey |-> secret, account |-> account]
<1>0. /\ credentials' = credentials \cup {new}
      /\ fresh' = fresh + 1 /\ <<key, secret>> \notin Pairs
      /\ UNCHANGED <<accounts, scopeRows, locks, admins, granted>>
      /\ account \in Nat
  BY DEF createCredential, TablesOK, TablesType, AccountExists
<1>1. TablesType'
  BY <1>0 DEF TablesOK, TablesType
<1>2. NumbersOK'
  <2>1. \A c \in credentials' : c.id <= fresh' /\ c.secretKey <= fresh'
    BY <1>0 DEF TablesOK, TablesType, NumbersOK
  <2>2. \A g \in granted' : g[1] <= fresh'
    BY <1>0 DEF TablesOK, TablesType, NumbersOK
  <2>3. \A l \in locks' : l[1] <= fresh'
    BY <1>0 DEF TablesOK, TablesType, NumbersOK
  <2> QED
    BY <2>1, <2>2, <2>3 DEF NumbersOK
<1>3. \A c \in credentials : c.id # new.id /\ Pair(c) # Pair(new)
  BY <1>0 DEF TablesOK, TablesType, NumbersOK, Pair, Pairs
<1>4. UniqueOK'
  BY <1>0, <1>3 DEF TablesOK, UniqueOK, Pair
<1>5. FollowsOK'
  <2>1. \A s : <<Pair(new), s>> \notin scopeRows
    BY <1>0 DEF TablesOK, FollowsOK, Pairs, Pair
  <2>2. \A s : <<new.id, s>> \notin granted
    <3>1. SUFFICES ASSUME NEW s, <<new.id, s>> \in granted
                   PROVE  FALSE
      OBVIOUS
    <3>2. new.id <= fresh
      BY <3>1 DEF TablesOK, NumbersOK
    <3> QED
      BY <3>2 DEF TablesOK, TablesType
  <2>3. \A c \in credentials', s \in Scopes : <<Pair(c), s>> \in scopeRows' <=> <<c.id, s>> \in granted'
    BY <1>0, <2>1, <2>2 DEF TablesOK, FollowsOK
  <2>4. \A r \in scopeRows' : r[1] \in Pairs'
    BY <1>0 DEF TablesOK, FollowsOK, Pairs, Pair
  <2> QED
    BY <2>3, <2>4 DEF FollowsOK, Pair
<1>6. \A q : Kept(q)
  <2>1. SUFFICES ASSUME NEW l \in locks, NEW c \in credentials', c.id = l[1]
                 PROVE  c \in credentials
    BY <1>0 DEF Kept
  <2>2. l[1] # new.id
    BY DEF TablesOK, TablesType, NumbersOK
  <2> QED
    BY <1>0, <2>1, <2>2
<1> QED
  BY <1>1, <1>2, <1>4, <1>5, <1>6 DEF TablesOK

LEMMA DeleteStep ==
    ASSUME TablesOK, NEW gone \in SUBSET credentials, DeleteCredentials(gone),
           \A c \in gone : ~Locked(c.id),
           \A a \in accounts' : a \in accounts,
           UNCHANGED <<locks, fresh, granted>>
    PROVE  TablesOK' /\ \A q : Kept(q)
<1>0. /\ credentials' = credentials \ gone
      /\ \A r : r \in scopeRows' <=> r \in scopeRows /\ \A c \in gone : r[1] # Pair(c)
  BY DEF DeleteCredentials
<1>1. TablesType'
  BY <1>0 DEF TablesOK, TablesType
<1>2. NumbersOK'
  BY <1>0 DEF TablesOK, NumbersOK
<1>3. UniqueOK'
  BY <1>0 DEF TablesOK, UniqueOK, Pair
<1>4. \A c \in credentials' : \A s : <<Pair(c), s>> \in scopeRows' <=> <<Pair(c), s>> \in scopeRows
  BY <1>0 DEF TablesOK, UniqueOK
<1>5. FollowsOK'
  <2>1. \A c \in credentials', s \in Scopes : <<Pair(c), s>> \in scopeRows' <=> <<c.id, s>> \in granted'
    BY <1>0, <1>4 DEF TablesOK, FollowsOK
  <2>2. ASSUME NEW r \in scopeRows'
        PROVE  \E c \in credentials' : r[1] = Pair(c)
    BY <1>0 DEF TablesOK, FollowsOK, Pairs
  <2> QED
    BY <2>1, <2>2 DEF FollowsOK, Pairs, Pair
<1>6. \A q : Kept(q)
  BY <1>0, <1>4 DEF Kept
<1> QED
  BY <1>1, <1>2, <1>3, <1>5, <1>6 DEF TablesOK

LEMMA LockStep ==
    ASSUME TablesOK, NEW p \in Processes, NEW c \in credentials, LockRow(p, c.id)
    PROVE  TablesOK' /\ \A q : Kept(q)
<1>1. TablesType'
  BY DEF TablesOK, TablesType, LockRow
<1>2. NumbersOK'
  BY DEF TablesOK, NumbersOK, LockRow
<1>3. UniqueOK'
  BY DEF TablesOK, UniqueOK, LockRow, Locked, Pair
<1>4. FollowsOK' /\ \A q : Kept(q)
  BY DEF TablesOK, FollowsOK, LockRow, Kept, Pair, Pairs
<1> QED
  BY <1>1, <1>2, <1>3, <1>4 DEF TablesOK

LEMMA SetScopesStep ==
    ASSUME TablesOK, NEW p \in Processes, NEW c \in credentials, NEW scopes \in SUBSET Scopes,
           <<c.id, p>> \in locks, setCredentialScopes(p, c, scopes)
    PROVE  TablesOK' /\ Kept(p)
<1>0. /\ \A l : l \in locks' <=> l \in locks /\ l[2] # p
      /\ \A r : r \in scopeRows' <=> \/ r \in scopeRows /\ r[1] # Pair(c)
                                     \/ \E s \in scopes : r = <<Pair(c), s>>
      /\ \A g : g \in granted' <=> \/ g \in granted /\ g[1] # c.id
                                   \/ \E s \in scopes : g = <<c.id, s>>
      /\ UNCHANGED <<accounts, credentials, fresh, admins>>
  BY DEF setCredentialScopes, Unlock
<1>1. Pair(c) \in KeyPair /\ c.id \in Nat /\ c.id <= fresh
  BY DEF TablesOK, TablesType, NumbersOK, Pair, KeyPair
<1>2. TablesType'
  <2>1. scopeRows' \subseteq KeyPair \X Scopes
    BY <1>0, <1>1 DEF TablesOK, TablesType
  <2>2. granted' \subseteq Nat \X Scopes
    BY <1>0, <1>1 DEF TablesOK, TablesType
  <2>3. locks' \subseteq Nat \X Processes
    BY <1>0 DEF TablesOK, TablesType
  <2> QED
    BY <1>0, <2>1, <2>2, <2>3 DEF TablesOK, TablesType
<1>3. NumbersOK'
  BY <1>0, <1>1 DEF TablesOK, NumbersOK
<1>4. UniqueOK'
  BY <1>0 DEF TablesOK, UniqueOK, Pair
<1>5. \A d \in credentials : d # c => Pair(d) # Pair(c) /\ d.id # c.id
  BY DEF TablesOK, UniqueOK
<1>6. FollowsOK'
  <2>1. ASSUME NEW d \in credentials, NEW s \in Scopes
        PROVE  <<Pair(d), s>> \in scopeRows' <=> <<d.id, s>> \in granted'
    <3>1. CASE d = c
      BY <1>0, <3>1
    <3>2. CASE d # c
      BY <1>0, <1>5, <3>2 DEF TablesOK, FollowsOK
    <3> QED
      BY <3>1, <3>2
  <2>2. \A r \in scopeRows' : \E d \in credentials : r[1] = Pair(d)
    BY <1>0 DEF TablesOK, FollowsOK, Pairs
  <2> QED
    BY <1>0, <2>1, <2>2 DEF FollowsOK, Pairs, Pair
<1>7. Kept(p)
  <2>1. SUFFICES ASSUME NEW l \in locks, l[2] # p
                 PROVE  /\ l \in locks'
                        /\ \A d \in credentials : d.id = l[1] => \A s \in Scopes :
                               <<Pair(d), s>> \in scopeRows' <=> <<Pair(d), s>> \in scopeRows
    BY <1>0 DEF Kept
  <2>2. l[1] # c.id
    BY <2>1 DEF TablesOK, UniqueOK
  <2> QED
    BY <1>0, <1>5, <2>1, <2>2
<1> QED
  BY <1>2, <1>3, <1>4, <1>6, <1>7 DEF TablesOK

LEMMA RotateStep ==
    ASSUME TablesOK, NEW p \in Processes, NEW c \in credentials, NEW scopes \in SUBSET Scopes,
           <<c.id, p>> \in locks, rotateSecret(p, c, scopes),
           \A s \in Scopes : s \in scopes <=> <<Pair(c), s>> \in scopeRows
    PROVE  TablesOK' /\ Kept(p)
<1> DEFINE new == [c EXCEPT !.secretKey = fresh + 1]
<1>0. /\ \A l : l \in locks' <=> l \in locks /\ l[2] # p
      /\ \A r : r \in scopeRows' <=> \/ r \in scopeRows /\ r[1] # Pair(c)
                                     \/ \E s \in scopes : r = <<Pair(new), s>>
      /\ \A d : d \in credentials' <=> (d \in credentials /\ d # c) \/ d = new
      /\ fresh' = fresh + 1
      /\ UNCHANGED <<accounts, admins, granted>>
  BY DEF rotateSecret, Unlock
<1>1. /\ new \in [id : Nat, apiKey : Nat, secretKey : Nat, account : Nat]
      /\ new.id = c.id /\ new.secretKey = fresh + 1 /\ Pair(new) \in KeyPair
      /\ c.id <= fresh /\ fresh \in Nat
  BY DEF TablesOK, TablesType, NumbersOK, Pair, KeyPair
<1>2. \A d \in credentials : Pair(d) # Pair(new)
  BY <1>1 DEF TablesOK, TablesType, NumbersOK, Pair
<1>3. \A d \in credentials : d # c => Pair(d) # Pair(c) /\ d.id # c.id
  BY DEF TablesOK, UniqueOK
<1> HIDE DEF new
<1>4. TablesType'
  <2>1. scopeRows' \subseteq KeyPair \X Scopes
    BY <1>0, <1>1 DEF TablesOK, TablesType
  <2>2. locks' \subseteq Nat \X Processes
    BY <1>0 DEF TablesOK, TablesType
  <2>3. credentials' \subseteq [id : Nat, apiKey : Nat, secretKey : Nat, account : Nat]
    BY <1>0, <1>1 DEF TablesOK, TablesType
  <2> QED
    BY <1>0, <1>1, <2>1, <2>2, <2>3 DEF TablesOK, TablesType
<1>5. NumbersOK'
  <2>1. \A d \in credentials' : d.id <= fresh' /\ d.secretKey <= fresh'
    BY <1>0, <1>1 DEF TablesOK, TablesType, NumbersOK
  <2>2. \A g \in granted' : g[1] <= fresh'
    BY <1>0, <1>1 DEF TablesOK, TablesType, NumbersOK
  <2>3. \A l \in locks' : l[1] <= fresh'
    BY <1>0, <1>1 DEF TablesOK, TablesType, NumbersOK
  <2> QED
    BY <2>1, <2>2, <2>3 DEF NumbersOK
<1>6. UniqueOK'
  <2>1. \A d, e \in credentials' : d.id = e.id \/ Pair(d) = Pair(e) => d = e
    BY <1>0, <1>1, <1>2, <1>3 DEF TablesOK, UniqueOK
  <2> QED
    BY <1>0, <2>1 DEF TablesOK, UniqueOK, Pair
<1>7. FollowsOK'
  <2>1. ASSUME NEW d \in credentials', NEW s \in Scopes
        PROVE  <<Pair(d), s>> \in scopeRows' <=> <<d.id, s>> \in granted
    <3>1. CASE d = new
      <4>1. <<Pair(new), s>> \in scopeRows' <=> s \in scopes
        BY <1>0, <1>2 DEF TablesOK, FollowsOK, Pairs
      <4> QED
        BY <1>1, <3>1, <4>1 DEF TablesOK, FollowsOK
    <3>2. CASE d # new
      <4>1. d \in credentials /\ d # c
        BY <1>0, <3>2
      <4> QED
        BY <1>0, <1>2, <1>3, <4>1 DEF TablesOK, FollowsOK
    <3> QED
      BY <3>1, <3>2
  <2>2. \A r \in scopeRows' : \E d \in credentials' : r[1] = Pair(d)
    BY <1>0 DEF TablesOK, FollowsOK, Pairs
  <2> QED
    BY <1>0, <2>1, <2>2 DEF FollowsOK, Pairs, Pair
<1>8. Kept(p)
  <2>1. SUFFICES ASSUME NEW l \in locks, l[2] # p
                 PROVE  /\ l \in locks'
                        /\ \A d \in credentials' : d.id = l[1] =>
                              /\ d \in credentials
                              /\ \A s \in Scopes :
                                    <<Pair(d), s>> \in scopeRows' <=> <<Pair(d), s>> \in scopeRows
    BY DEF Kept
  <2>2. l[1] # c.id
    BY <2>1 DEF TablesOK, UniqueOK
  <2> QED
    BY <1>0, <1>1, <1>2, <1>3, <2>1, <2>2
<1> QED
  BY <1>4, <1>5, <1>6, <1>7, <1>8 DEF TablesOK

LEMMA TablesStay ==
    ASSUME TablesOK, UNCHANGED tables
    PROVE  TablesOK' /\ \A q : Kept(q)
BY DEF TablesOK, TablesType, NumbersOK, UniqueOK, FollowsOK, Kept, tables, Pair, Pairs

-----------------------------------------------------------------------------
(* A step of one process, seen from the others. *)

LEMMA MoveStep ==
    ASSUME IndInv, NEW q \in Everybody, MovesTo(q, Labels), known' \subseteq KeyPair,
           UNCHANGED config
    PROVE  /\ ControlType'
           /\ \A p \in Everybody \ {q} : pc'[p] = pc[p] /\ work'[p] = work[p]
BY DEF IndInv, ControlType, MovesTo, Everybody

LEMMA FrameStep ==
    ASSUME IndInv, NEW q \in Everybody, TablesOK', Kept(q), MovesTo(q, Labels),
           known' \subseteq KeyPair, UNCHANGED config,
           q \in Processes => Holds(q)' /\ HasRead(q)',
           q \in Clients /\ pc'[q] = "found" => work'[q].route \in Routes
    PROVE  IndInv'
<1>1. /\ ControlType'
      /\ \A p \in Everybody \ {q} : pc'[p] = pc[p] /\ work'[p] = work[p]
  BY MoveStep
<1>2. ASSUME NEW p \in Processes, p # q
      PROVE  Holds(p)' /\ HasRead(p)'
  <2>0. pc'[p] = pc[p] /\ work'[p] = work[p]
    BY <1>1, <1>2 DEF Everybody
  <2>1. Holds(p) /\ HasRead(p)
    BY DEF IndInv, HoldsOK
  <2>2. Holds(p)'
    BY <1>2, <2>0, <2>1 DEF Holds, Kept
  <2>3. HasRead(p)'
    <3>1. SUFFICES ASSUME pc[p] = "write", work[p].rotates,
                          NEW c \in credentials', NEW s \in Scopes, c.id = work[p].credential
                   PROVE  s \in work[p].scopes <=> <<Pair(c), s>> \in scopeRows'
      BY <2>0 DEF HasRead, Pair
    <3>2. <<work[p].credential, p>> \in locks
      BY <2>1, <3>1 DEF Holds
    <3>3. c \in credentials /\ (<<Pair(c), s>> \in scopeRows' <=> <<Pair(c), s>> \in scopeRows)
      BY <1>2, <3>1, <3>2 DEF Kept
    <3> QED
      BY <2>1, <3>1, <3>3 DEF HasRead
  <2> QED
    BY <2>2, <2>3
<1>3. HoldsOK'
  BY <1>2 DEF HoldsOK
<1>4. RouteOK'
  BY <1>1 DEF IndInv, RouteOK, Everybody
<1> QED
  BY <1>1, <1>3, <1>4 DEF IndInv

LEMMA QuietStep ==
    ASSUME IndInv, NEW q \in Everybody, TablesOK', Kept(q), MovesTo(q, Quiet),
           known' \subseteq KeyPair, UNCHANGED config
    PROVE  IndInv'
<1>1. MovesTo(q, Labels)
  BY DEF MovesTo, Quiet
<1>2. pc'[q] \in Quiet
  BY DEF MovesTo, IndInv, ControlType, Everybody
<1>3. pc'[q] \notin {"snapshot", "write", "found"}
  BY <1>2 DEF Quiet
<1>4. Holds(q)' /\ HasRead(q)'
  BY <1>3 DEF Holds, HasRead
<1> QED
  BY <1>1, <1>3, <1>4, FrameStep

LEMMA NoWorkIsWork == NoWork \in Work
BY DEF NoWork, Work

LEMMA LocalStep ==
    ASSUME IndInv, NEW q \in Everybody, MovesTo(q, Quiet), Local
    PROVE  IndInv'
<1>1. TablesOK' /\ Kept(q)
  BY TablesStay DEF Local, IndInv
<1>2. known' \subseteq KeyPair /\ UNCHANGED config
  BY DEF Local, IndInv, ControlType
<1> QED
  BY <1>1, <1>2, QuietStep

-----------------------------------------------------------------------------
(* The bootstrap. *)

LEMMA ServedMoves ==
    ASSUME IndInv, NEW r \in Replicas, Served(r)
    PROVE  MovesTo(r, Quiet)
BY NoWorkIsWork DEF Served, Goto, MovesTo, Quiet, Labels

LEMMA ExitStep ==
    ASSUME IndInv, NEW r \in Replicas, Exit(r)
    PROVE  IndInv'
<1>1. MovesTo(r, Quiet)
  BY NoWorkIsWork DEF Exit, MovesTo, Quiet, Labels
<1> QED
  BY <1>1, LocalStep DEF Exit, Everybody, Processes

LEMMA BootStep ==
    ASSUME IndInv, AccessAssumption, NEW r \in Replicas, Boot(r)
    PROVE  IndInv'
<1>0. /\ r \in Everybody /\ work[r] \in Work
      /\ pc \in [Everybody -> Labels] /\ work \in [Everybody -> Work] /\ known \subseteq KeyPair
      /\ TablesOK /\ fresh \in Nat
  BY DEF Everybody, Processes, IndInv, ControlType, TablesOK, TablesType
<1>1. CASE Start(r)
  <2>1. MovesTo(r, Quiet)
    <3>1. work' = [work EXCEPT ![r] = work[r]]
      BY <1>0, <1>1 DEF Start
    <3> QED
      BY <1>0, <1>1, <3>1 DEF Start, Goto, MovesTo, Quiet, Labels
  <2> QED
    BY <1>0, <1>1, <2>1, LocalStep DEF Start
<1>2. CASE ReadAccounts(r)
  <2>1. PICK name \in Usernames \cup {None}, label \in {"createAccount", "owner"} :
            /\ work' = [work EXCEPT ![r].username = name]
            /\ pc' = [pc EXCEPT ![r] = label]
    <3>1. config.adminUser \in Usernames \cup {None} /\ "admin" \in Usernames
      BY DEF AccessAssumption, IndInv, ControlType
    <3> QED
      BY <1>2, <3>1 DEF ReadAccounts, Goto
  <2>2. [work[r] EXCEPT !.username = name] \in Work
    BY <1>0 DEF Work
  <2>3. MovesTo(r, Quiet)
    BY <1>0, <2>1, <2>2 DEF MovesTo, Quiet, Labels
  <2> QED
    BY <1>0, <1>2, <2>3, LocalStep DEF ReadAccounts
<1>3. CASE CreateAccount(r)
  <2>1. CASE /\ createAccount(work[r].username)
             /\ Goto(r, "owner")
             /\ UNCHANGED <<work, config, known, adminRequests, crashes>>
    <3>1. MovesTo(r, Quiet)
      <4>1. work' = [work EXCEPT ![r] = work[r]]
        BY <1>0, <2>1
      <4> QED
        BY <1>0, <2>1, <4>1 DEF Goto, MovesTo, Quiet, Labels
    <3>2. TablesOK' /\ Kept(r)
      BY <1>0, <2>1, CreateAccountStep
    <3> QED
      BY <1>0, <2>1, <3>1, <3>2, QuietStep
  <2>2. CASE Exit(r)
    BY <2>2, ExitStep
  <2> QED
    BY <1>3, <2>1, <2>2 DEF CreateAccount
<1>4. CASE ReadOwner(r)
  <2>1. CASE \E a \in accounts : /\ work' = [work EXCEPT ![r].account = a.id]
                                 /\ Goto(r, "credential")
    <3>1. PICK a \in accounts : /\ work' = [work EXCEPT ![r].account = a.id]
                                /\ Goto(r, "credential")
      BY <2>1
    <3>2. [work[r] EXCEPT !.account = a.id] \in Work
      BY <1>0 DEF Work, TablesOK, TablesType
    <3>3. MovesTo(r, Quiet)
      BY <1>0, <3>1, <3>2 DEF Goto, MovesTo, Quiet, Labels
    <3> QED
      BY <1>0, <1>4, <3>3, LocalStep DEF ReadOwner
  <2>2. CASE Served(r)
    BY <1>0, <1>4, <2>2, ServedMoves, LocalStep DEF ReadOwner
  <2> QED
    BY <1>4, <2>1, <2>2 DEF ReadOwner
<1>5. CASE ReadCredential(r)
  <2>1. CASE Goto(r, "createCredential") /\ UNCHANGED work
    <3>1. work' = [work EXCEPT ![r] = work[r]]
      BY <1>0, <2>1
    <3>2. MovesTo(r, Quiet)
      BY <1>0, <2>1, <3>1 DEF Goto, MovesTo, Quiet, Labels
    <3> QED
      BY <1>0, <1>5, <3>2, LocalStep DEF ReadCredential
  <2>2. CASE Served(r)
    BY <1>0, <1>5, <2>2, ServedMoves, LocalStep DEF ReadCredential
  <2> QED
    BY <1>5, <2>1, <2>2 DEF ReadCredential
<1>6. CASE CreateCredential(r)
  <2>1. CASE /\ createCredential(0, 0, work[r].account)
             /\ work' = [work EXCEPT ![r].credential = fresh + 1, ![r].scopes = {"all"}]
             /\ Goto(r, "lock")
             /\ known' = known \cup {<<0, 0>>}
             /\ UNCHANGED <<config, adminRequests, crashes>>
    <3>0. fresh + 1 \in Nat /\ {"all"} \in SUBSET Scopes
      BY <1>0 DEF Scopes
    <3>1. [work[r] EXCEPT !.credential = fresh + 1, !.scopes = {"all"}] \in Work
      BY <1>0, <3>0 DEF Work
    <3>2. MovesTo(r, Quiet)
      BY <1>0, <2>1, <3>1 DEF Goto, MovesTo, Quiet, Labels
    <3>3. TablesOK' /\ Kept(r)
      BY <1>0, <2>1, CreateCredentialStep
    <3>4. known' \subseteq KeyPair
      BY <1>0, <2>1 DEF KeyPair
    <3> QED
      BY <1>0, <2>1, <3>2, <3>3, <3>4, QuietStep
  <2>2. CASE Exit(r)
    BY <2>2, ExitStep
  <2> QED
    BY <1>6, <2>1, <2>2 DEF CreateCredential
<1> QED
  BY <1>1, <1>2, <1>3, <1>4, <1>5, <1>6 DEF Boot

-----------------------------------------------------------------------------
(* Transactions. *)

LEMMA DoneMoves ==
    ASSUME IndInv, NEW p \in Processes, Done(p)
    PROVE  MovesTo(p, Quiet)
<1>1. PICK label \in {"serving", "idle"} : pc' = [pc EXCEPT ![p] = label]
  BY DEF Done, Goto
<1>2. label \in Quiet
  BY DEF Quiet, Labels
<1> QED
  BY <1>1, <1>2, NoWorkIsWork DEF Done, MovesTo

LEMMA TransactStep ==
    ASSUME IndInv, NEW p \in Processes, Transact(p)
    PROVE  IndInv'
<1>0. /\ p \in Everybody /\ work[p] \in Work
      /\ pc \in [Everybody -> Labels] /\ work \in [Everybody -> Work] /\ known \subseteq KeyPair
      /\ TablesOK /\ fresh \in Nat
      /\ Holds(p) /\ HasRead(p)
  BY DEF Everybody, IndInv, ControlType, TablesOK, TablesType, HoldsOK
<1>1. CASE Lock(p)
  <2>1. CASE /\ WithId(work[p].credential) # {}
             /\ LockRow(p, work[p].credential)
             /\ Goto(p, IF work[p].rotates THEN "snapshot" ELSE "write")
             /\ UNCHANGED <<work, config, known, adminRequests, crashes>>
    <3>1. PICK c \in credentials : c.id = work[p].credential
      BY <2>1 DEF WithId
    <3>2. TablesOK' /\ Kept(p)
      BY <1>0, <2>1, <3>1, LockStep
    <3>3. MovesTo(p, Labels)
      <4>1. work' = [work EXCEPT ![p] = work[p]]
        BY <1>0, <2>1
      <4>2. (IF work[p].rotates THEN "snapshot" ELSE "write") \in Labels
        BY DEF Labels
      <4> QED
        BY <1>0, <2>1, <4>1, <4>2 DEF Goto, MovesTo
    <3>4. work' = work /\ pc'[p] = IF work[p].rotates THEN "snapshot" ELSE "write"
      BY <1>0, <2>1 DEF Goto
    <3>5. Holds(p)' /\ HasRead(p)'
      <4>1. Holds(p)'
        BY <2>1, <3>4 DEF Holds, LockRow
      <4>2. HasRead(p)'
        BY <3>4 DEF HasRead
      <4> QED
        BY <4>1, <4>2
    <3>6. pc'[p] # "found"
      BY <3>4
    <3>7. known' \subseteq KeyPair /\ UNCHANGED config
      BY <1>0, <2>1
    <3> QED
      BY <1>0, <3>2, <3>3, <3>5, <3>6, <3>7, FrameStep
  <2>2. CASE Done(p) /\ Local
    BY <1>0, <2>2, DoneMoves, LocalStep
  <2> QED
    BY <1>1, <2>1, <2>2 DEF Lock
<1>2. CASE Snapshot(p)
  <2>1. PICK c \in credentials : /\ c.id = work[p].credential
                                 /\ work' = [work EXCEPT ![p].scopes = ScopesOf(Pair(c))]
    BY <1>2 DEF Snapshot, WithId
  <2>2. \A s : s \in ScopesOf(Pair(c)) <=> <<Pair(c), s>> \in scopeRows
    <3>1. \A r \in scopeRows : r = <<r[1], r[2]>>
      BY <1>0 DEF TablesOK, TablesType
    <3> QED
      BY <3>1 DEF ScopesOf
  <2>3. ScopesOf(Pair(c)) \subseteq Scopes
    <3>1. \A s : <<Pair(c), s>> \in KeyPair \X Scopes => s \in Scopes
      OBVIOUS
    <3> QED
      BY <1>0, <2>2, <3>1 DEF TablesOK, TablesType
  <2>4. [work[p] EXCEPT !.scopes = ScopesOf(Pair(c))] \in Work
    BY <1>0, <2>3 DEF Work
  <2>5. MovesTo(p, Labels)
    BY <1>0, <1>2, <2>1, <2>4 DEF Snapshot, Goto, MovesTo, Labels
  <2>6. TablesOK' /\ Kept(p) /\ known' \subseteq KeyPair /\ UNCHANGED <<tables, config>>
    BY <1>0, <1>2, TablesStay DEF Snapshot, Local
  <2>7. /\ pc[p] = "snapshot" /\ pc'[p] = "write"
        /\ work'[p].credential = work[p].credential
        /\ work'[p].scopes = ScopesOf(Pair(c))
    BY <1>0, <1>2, <2>1 DEF Snapshot, Goto, Work
  <2>8. Holds(p)'
    BY <1>0, <2>6, <2>7 DEF Holds, tables
  <2>9. HasRead(p)'
    <3>1. \A d \in credentials : d.id = work[p].credential => d = c
      BY <1>0, <2>1 DEF TablesOK, UniqueOK
    <3> QED
      BY <2>2, <2>6, <2>7, <3>1 DEF HasRead, tables, Pair
  <2> QED
    BY <1>0, <2>5, <2>6, <2>7, <2>8, <2>9, FrameStep
<1>3. CASE Write(p)
  <2>1. PICK c \in credentials :
            /\ c.id = work[p].credential
            /\ IF work[p].rotates
               THEN /\ rotateSecret(p, c, work[p].scopes)
                    /\ known' = known \cup {<<c.apiKey, fresh + 1>>}
               ELSE /\ setCredentialScopes(p, c, work[p].scopes)
                    /\ UNCHANGED known
    BY <1>3 DEF Write, WithId
  <2>2. /\ pc[p] = "write" /\ Done(p) /\ UNCHANGED config
        /\ work[p].scopes \in SUBSET Scopes
        /\ <<c.id, p>> \in locks
    BY <1>0, <1>3, <2>1 DEF Write, Work, Holds
  <2>3. MovesTo(p, Quiet)
    BY <2>2, DoneMoves
  <2>4. known' \subseteq KeyPair
    BY <1>0, <2>1 DEF KeyPair, TablesOK, TablesType
  <2>5. TablesOK' /\ Kept(p)
    <3>1. CASE work[p].rotates
      <4>1. \A s \in Scopes : s \in work[p].scopes <=> <<Pair(c), s>> \in scopeRows
        BY <1>0, <2>1, <2>2, <3>1 DEF HasRead
      <4> QED
        BY <1>0, <2>1, <2>2, <3>1, <4>1, RotateStep
    <3>2. CASE ~work[p].rotates
      BY <1>0, <2>1, <2>2, <3>2, SetScopesStep
    <3> QED
      BY <3>1, <3>2
  <2> QED
    BY <1>0, <2>2, <2>3, <2>4, <2>5, QuietStep
<1> QED
  BY <1>1, <1>2, <1>3 DEF Transact

-----------------------------------------------------------------------------
(* Admin requests. *)

LEMMA AdministerStep ==
    ASSUME IndInv, AccessAssumption, NEW m \in Admins, Administer(m)
    PROVE  IndInv'
<1>0. /\ m \in Everybody /\ work[m] \in Work
      /\ pc \in [Everybody -> Labels] /\ work \in [Everybody -> Work] /\ known \subseteq KeyPair
      /\ TablesOK /\ fresh \in Nat /\ fresh + 1 \in Nat
  BY DEF Everybody, Processes, IndInv, ControlType, TablesOK, TablesType
<1>1. pc[m] = "idle" /\ UNCHANGED config
  BY DEF Administer, AdminRequest, PostAccount, DeleteAccount, PostCredential,
         DeleteCredential, PutScopes, RotateCredential
<1>2. ASSUME UNCHANGED <<pc, work>>
      PROVE  MovesTo(m, Quiet)
  <2>1. pc' = [pc EXCEPT ![m] = "idle"] /\ work' = [work EXCEPT ![m] = work[m]]
    BY <1>0, <1>1, <1>2
  <2> QED
    BY <1>0, <2>1 DEF MovesTo, Quiet, Labels
<1>3. ASSUME NEW w \in Work, work' = [work EXCEPT ![m] = w], Goto(m, "lock")
      PROVE  MovesTo(m, Quiet)
  BY <1>3 DEF Goto, MovesTo, Quiet, Labels
<1>4. CASE PostAccount(m)
  <2>1. TablesOK' /\ Kept(m)
    BY <1>0, <1>4, CreateAccountStep DEF PostAccount
  <2>2. MovesTo(m, Quiet) /\ UNCHANGED known
    BY <1>2, <1>4 DEF PostAccount
  <2> QED
    BY <1>0, <1>1, <2>1, <2>2, QuietStep
<1>5. CASE DeleteAccount(m)
  <2>1. PICK a \in accounts : deleteAccount(a.id)
    BY <1>5 DEF DeleteAccount
  <2> DEFINE owned == {c \in credentials : c.account = a.id}
  <2>2. /\ owned \in SUBSET credentials /\ DeleteCredentials(owned)
        /\ \A c \in owned : ~Locked(c.id)
        /\ \A b \in accounts' : b \in accounts
        /\ UNCHANGED <<locks, fresh, granted>>
    BY <2>1 DEF deleteAccount
  <2> HIDE DEF owned
  <2>3. TablesOK' /\ Kept(m)
    BY <1>0, <2>2, DeleteStep
  <2>4. MovesTo(m, Quiet) /\ UNCHANGED known
    BY <1>2, <1>5 DEF DeleteAccount
  <2> QED
    BY <1>0, <1>1, <2>3, <2>4, QuietStep
<1>6. CASE PostCredential(m)
  <2>1. PICK a \in accounts, scopes \in Grants \cup {{}} :
            /\ createCredential(fresh + 1, fresh + 1, a.id)
            /\ IF scopes = {}
               THEN UNCHANGED <<pc, work>>
               ELSE /\ work' = [work EXCEPT ![m].credential = fresh + 1, ![m].scopes = scopes]
                    /\ Goto(m, "lock")
    BY <1>6 DEF PostCredential
  <2>2. TablesOK' /\ Kept(m)
    BY <1>0, <2>1, CreateCredentialStep
  <2>3. MovesTo(m, Quiet)
    <3>1. CASE scopes = {}
      BY <1>2, <2>1, <3>1
    <3>2. CASE scopes # {}
      <4>1. scopes \in SUBSET Scopes
        BY DEF AccessAssumption
      <4>2. [work[m] EXCEPT !.credential = fresh + 1, !.scopes = scopes] \in Work
        BY <1>0, <4>1 DEF Work
      <4>3. /\ work' = [work EXCEPT ![m] =
                           [work[m] EXCEPT !.credential = fresh + 1, !.scopes = scopes]]
            /\ Goto(m, "lock")
        BY <1>0, <2>1, <3>2
      <4> QED
        BY <1>3, <4>2, <4>3
    <3> QED
      BY <3>1, <3>2
  <2>4. known' \subseteq KeyPair
    BY <1>0, <1>6 DEF PostCredential, KeyPair
  <2> QED
    BY <1>0, <1>1, <2>2, <2>3, <2>4, QuietStep
<1>7. CASE DeleteCredential(m)
  <2>1. PICK c \in credentials : deleteCredential(c.id)
    BY <1>7 DEF DeleteCredential
  <2>2. /\ WithId(c.id) \in SUBSET credentials /\ DeleteCredentials(WithId(c.id))
        /\ \A d \in WithId(c.id) : ~Locked(d.id)
        /\ \A b \in accounts' : b \in accounts
        /\ UNCHANGED <<locks, fresh, granted>>
    BY <2>1 DEF deleteCredential, WithId
  <2>3. TablesOK' /\ Kept(m)
    BY <1>0, <2>2, DeleteStep
  <2>4. MovesTo(m, Quiet) /\ UNCHANGED known
    BY <1>2, <1>7 DEF DeleteCredential
  <2> QED
    BY <1>0, <1>1, <2>3, <2>4, QuietStep
<1>8. CASE PutScopes(m)
  <2>1. PICK c \in credentials, scopes \in Grants :
            work' = [work EXCEPT ![m].credential = c.id, ![m].scopes = scopes]
    BY <1>8 DEF PutScopes
  <2>2. scopes \in SUBSET Scopes /\ c.id \in Nat
    BY <1>0 DEF AccessAssumption, TablesOK, TablesType
  <2>3. [work[m] EXCEPT !.credential = c.id, !.scopes = scopes] \in Work
    BY <1>0, <2>2 DEF Work
  <2>4. work' = [work EXCEPT ![m] = [work[m] EXCEPT !.credential = c.id, !.scopes = scopes]]
    BY <1>0, <2>1
  <2>5. MovesTo(m, Quiet)
    BY <1>3, <1>8, <2>3, <2>4 DEF PutScopes
  <2>6. TablesOK' /\ Kept(m) /\ UNCHANGED known
    BY <1>0, <1>8, TablesStay DEF PutScopes
  <2> QED
    BY <1>0, <1>1, <2>5, <2>6, QuietStep
<1>9. CASE RotateCredential(m)
  <2>1. PICK c \in credentials :
            work' = [work EXCEPT ![m].credential = c.id, ![m].rotates = TRUE]
    BY <1>9 DEF RotateCredential
  <2>2. c.id \in Nat
    BY <1>0 DEF TablesOK, TablesType
  <2>3. [work[m] EXCEPT !.credential = c.id, !.rotates = TRUE] \in Work
    BY <1>0, <2>2 DEF Work
  <2>4. work' = [work EXCEPT ![m] = [work[m] EXCEPT !.credential = c.id, !.rotates = TRUE]]
    BY <1>0, <2>1
  <2>5. MovesTo(m, Quiet)
    BY <1>3, <1>9, <2>3, <2>4 DEF RotateCredential
  <2>6. TablesOK' /\ Kept(m) /\ UNCHANGED known
    BY <1>0, <1>9, TablesStay DEF RotateCredential
  <2> QED
    BY <1>0, <1>1, <2>5, <2>6, QuietStep
<1> QED
  BY <1>4, <1>5, <1>6, <1>7, <1>8, <1>9 DEF Administer

-----------------------------------------------------------------------------
(* xAPI requests. *)

LEMMA RequestStep ==
    ASSUME IndInv, NEW q \in Clients, Request(q)
    PROVE  IndInv'
<1>0. /\ q \in Everybody /\ work[q] \in Work
      /\ pc \in [Everybody -> Labels] /\ work \in [Everybody -> Work] /\ known \subseteq KeyPair
      /\ TablesOK
  BY DEF Everybody, IndInv, ControlType
<1>1. CASE Authenticate(q)
  <2>1. PICK pair \in known \cup {<<0, 0>>}, route \in Routes :
            /\ work' = [work EXCEPT ![q].pair = pair, ![q].route = route]
            /\ Goto(q, IF pair \in Pairs THEN "found" ELSE "refused")
    BY <1>1 DEF Authenticate
  <2>2. pair \in KeyPair
    BY <1>0 DEF KeyPair
  <2>3. [work[q] EXCEPT !.pair = pair, !.route = route] \in Work
    BY <1>0, <2>2 DEF Work
  <2>4. PICK label \in {"found", "refused"} : pc' = [pc EXCEPT ![q] = label]
    BY <2>1 DEF Goto
  <2>5. label \in Labels
    BY DEF Labels
  <2>6. MovesTo(q, Labels)
    BY <1>0, <2>1, <2>3, <2>4, <2>5 DEF MovesTo
  <2>7. TablesOK' /\ Kept(q) /\ known' \subseteq KeyPair /\ UNCHANGED config
    BY <1>0, <1>1, TablesStay DEF Authenticate, Local
  <2>8. work'[q].route = route
    BY <1>0, <2>1 DEF Work
  <2>9. Holds(q)' /\ HasRead(q)'
    <3>1. pc'[q] \notin {"snapshot", "write"}
      BY <1>0, <2>4
    <3> QED
      BY <3>1 DEF Holds, HasRead
  <2> QED
    BY <1>0, <2>6, <2>7, <2>8, <2>9, FrameStep
<1>2. CASE Authorize(q)
  <2>1. PICK label \in {"admitted", "refused"} : pc' = [pc EXCEPT ![q] = label]
    BY <1>2 DEF Authorize, Goto
  <2>2. label \in Quiet /\ work' = [work EXCEPT ![q] = work[q]]
    BY <1>0, <1>2 DEF Authorize, Quiet, Labels
  <2>3. MovesTo(q, Quiet)
    BY <1>0, <2>1, <2>2 DEF MovesTo
  <2> QED
    BY <1>0, <1>2, <2>3, LocalStep DEF Authorize
<1>3. CASE Respond(q)
  <2>1. MovesTo(q, Quiet)
    BY <1>3, NoWorkIsWork DEF Respond, Goto, MovesTo, Quiet, Labels
  <2> QED
    BY <1>0, <1>3, <2>1, LocalStep DEF Respond
<1> QED
  BY <1>1, <1>2, <1>3 DEF Request

-----------------------------------------------------------------------------
(* Locks go with whoever holds them. *)
LEMMA CrashStep ==
    ASSUME IndInv, NEW r \in Replicas, Crash(r)
    PROVE  IndInv'
<1> DEFINE lost == {r} \cup {p \in Admins \cup Clients : ServedBy[p] = r}
<1>0. /\ pc \in [Everybody -> Labels] /\ work \in [Everybody -> Work]
      /\ pc' = [p \in Everybody |->
                   IF p = r THEN "down" ELSE IF p \in lost THEN "idle" ELSE pc[p]]
      /\ work' = [p \in Everybody |-> IF p \in lost THEN NoWork ELSE work[p]]
      /\ \A l : l \in locks' <=> l \in locks /\ l[2] \notin lost
      /\ UNCHANGED <<accounts, credentials, scopeRows, fresh, admins, granted, config,
                     known, adminRequests>>
  BY DEF Crash, IndInv, ControlType, Everybody
<1> HIDE DEF lost
<1>1. TablesOK'
  <2>1. TablesType' /\ NumbersOK'
    BY <1>0 DEF IndInv, TablesOK, TablesType, NumbersOK
  <2>2. UniqueOK' /\ FollowsOK'
    BY <1>0 DEF IndInv, TablesOK, UniqueOK, FollowsOK, Pair, Pairs
  <2> QED
    BY <2>1, <2>2 DEF TablesOK
<1>2. ControlType'
  <2>1. pc' \in [Everybody -> Labels]
    <3>1. {"down", "idle"} \subseteq Labels
      BY DEF Labels
    <3> QED
      BY <1>0, <3>1
  <2>2. work' \in [Everybody -> Work]
    BY <1>0, NoWorkIsWork
  <2> QED
    BY <1>0, <2>1, <2>2 DEF IndInv, ControlType, Everybody
<1>3. ASSUME NEW p \in Everybody, pc'[p] \notin {"down", "idle"}
      PROVE  p \notin lost /\ pc'[p] = pc[p] /\ work'[p] = work[p]
  BY <1>0, <1>3
<1>4. HoldsOK'
  <2>1. SUFFICES ASSUME NEW p \in Processes, pc'[p] \in {"snapshot", "write"}
                 PROVE  Holds(p)' /\ HasRead(p)'
    BY DEF HoldsOK, Holds, HasRead
  <2>2. p \notin lost /\ pc'[p] = pc[p] /\ work'[p] = work[p]
    BY <1>3, <2>1 DEF Everybody
  <2>3. Holds(p)'
    BY <1>0, <2>1, <2>2 DEF IndInv, HoldsOK, Holds
  <2>4. HasRead(p)'
    BY <1>0, <2>1, <2>2 DEF IndInv, HoldsOK, HasRead, Pair
  <2> QED
    BY <2>3, <2>4
<1>5. RouteOK'
  BY <1>3 DEF IndInv, RouteOK, Everybody
<1> QED
  BY <1>1, <1>2, <1>4, <1>5 DEF IndInv

-----------------------------------------------------------------------------
LEMMA IndInit == Init => IndInv
<1> SUFFICES ASSUME Init PROVE IndInv
  OBVIOUS
<1>1. TablesOK
  BY DEF Init, TablesOK, TablesType, NumbersOK, UniqueOK, FollowsOK
<1>2. pc \in [Everybody -> Labels] /\ \A p \in Everybody : pc[p] \in {"down", "idle"}
  BY DEF Init, Everybody, Labels
<1>3. ControlType
  BY <1>2, NoWorkIsWork DEF Init, ControlType, Everybody
<1>4. HoldsOK /\ RouteOK
  BY <1>2 DEF HoldsOK, RouteOK, Holds, HasRead, Everybody
<1> QED
  BY <1>1, <1>3, <1>4 DEF IndInv

LEMMA IndNext == IndInv /\ [Next]_vars => IndInv'
<1> SUFFICES ASSUME IndInv, [Next]_vars PROVE IndInv'
  OBVIOUS
<1> USE AccessAssumption
<1>1. CASE UNCHANGED vars
  <2>1. TablesOK'
    BY <1>1, TablesStay DEF IndInv, vars
  <2>2. ControlType' /\ HoldsOK' /\ RouteOK'
    BY <1>1 DEF IndInv, ControlType, HoldsOK, Holds, HasRead, RouteOK, vars, tables, Pair
  <2> QED
    BY <2>1, <2>2 DEF IndInv
<1>2. CASE \E r \in Replicas : Boot(r) \/ Crash(r)
  BY <1>2, BootStep, CrashStep
<1>3. CASE \E p \in Processes : Transact(p)
  BY <1>3, TransactStep
<1>4. CASE \E m \in Admins : Administer(m)
  BY <1>4, AdministerStep
<1>5. CASE \E q \in Clients : Request(q)
  BY <1>5, RequestStep
<1> QED
  BY <1>1, <1>2, <1>3, <1>4, <1>5 DEF Next

(* IndInv is inductive: the tables keep their types, keys and numbers, and every
   transaction under way holds the lock on its credential. *)
THEOREM Inductive == Spec => []IndInv
<1>1. Init => IndInv
  BY IndInit
<1>2. IndInv /\ [Next]_vars => IndInv'
  BY IndNext
<1> QED
  BY <1>1, <1>2, PTL DEF Spec

(* A credential has the scopes last committed for it, and a rotated or deleted
   secret has none. *)
THEOREM ScopesFollow == Spec => []ScopesFollowTheCredential
<1>1. IndInv => ScopesFollowTheCredential
  <2> SUFFICES ASSUME IndInv PROVE ScopesFollowTheCredential
    OBVIOUS
  <2>1. ASSUME NEW c \in credentials
        PROVE  ScopesOf(Pair(c)) = {g[2] : g \in {x \in granted : x[1] = c.id}}
    <3>1. \A r \in scopeRows : r = <<r[1], r[2]>> /\ r[2] \in Scopes
      BY DEF IndInv, TablesOK, TablesType
    <3>2. \A g \in granted : g = <<g[1], g[2]>> /\ g[2] \in Scopes
      BY DEF IndInv, TablesOK, TablesType
    <3>3. \A s : s \in ScopesOf(Pair(c)) <=> s \in Scopes /\ <<Pair(c), s>> \in scopeRows
      BY <3>1 DEF ScopesOf
    <3>4. \A s : s \in {g[2] : g \in {x \in granted : x[1] = c.id}}
                    <=> s \in Scopes /\ <<c.id, s>> \in granted
      BY <3>2
    <3> QED
      BY <3>3, <3>4 DEF IndInv, TablesOK, FollowsOK
  <2>2. \A r \in scopeRows : r[1] \in Pairs
    BY DEF IndInv, TablesOK, FollowsOK
  <2> QED
    BY <2>1, <2>2 DEF ScopesFollowTheCredential
<1> QED
  BY <1>1, Inductive, PTL

(* Authentication by two queries lets nobody in who does not have, when the
   second one answers, a credential with a scope for the route. *)
THEOREM Admitted == Spec => AdmittedOnOneGrant
<1> DEFINE OneGrant(q) ==
        pc[q] = "found" /\ pc'[q] = "admitted" =>
            \E c \in credentials : /\ Pair(c) = work[q].pair
                                   /\ \E s \in requiredScopes(work[q].route) :
                                         <<c.id, s>> \in granted
<1>1. IndInv /\ [Next]_vars => [\A q \in Clients : OneGrant(q)]_vars
  <2> SUFFICES ASSUME IndInv, Next, NEW q \in Clients, pc[q] = "found", pc'[q] = "admitted"
               PROVE  \E c \in credentials : /\ Pair(c) = work[q].pair
                                             /\ \E s \in requiredScopes(work[q].route) :
                                                   <<c.id, s>> \in granted
    OBVIOUS
  <2>0. pc \in [Everybody -> Labels] /\ q \in Everybody
    BY DEF IndInv, ControlType, Everybody
  <2>1. Authorize(q)
    <3>1. CASE \E r \in Replicas : Boot(r)
      BY <2>0, <3>1 DEF Boot, Start, ReadAccounts, CreateAccount, Exit, ReadOwner, Served,
                        ReadCredential, CreateCredential, Goto
    <3>2. CASE \E r \in Replicas : Crash(r)
      BY <2>0, <3>2 DEF Crash
    <3>3. CASE \E p \in Processes : Transact(p)
      BY <2>0, <3>3 DEF Transact, Lock, Snapshot, Write, Done, Goto
    <3>4. CASE \E m \in Admins : Administer(m)
      BY <2>0, <3>4 DEF Administer, PostAccount, DeleteAccount, PostCredential,
                        DeleteCredential, PutScopes, RotateCredential, Goto
    <3>5. CASE \E p \in Clients : Request(p)
      BY <2>0, <3>5 DEF Request, Authenticate, Authorize, Respond, Goto
    <3> QED
      BY <3>1, <3>2, <3>3, <3>4, <3>5 DEF Next
  <2>2. scopeMiddleware(ScopesOf(work[q].pair), work[q].route)
    BY <2>0, <2>1 DEF Authorize, Goto
  <2>3. work[q].route[1] \in Paths
    BY AccessAssumption DEF AccessAssumption, IndInv, RouteOK
  <2>4. PICK s \in requiredScopes(work[q].route) : s \in ScopesOf(work[q].pair)
    BY <2>2, <2>3 DEF scopeMiddleware, hasScope
  <2>5. PICK r \in scopeRows : r[1] = work[q].pair /\ r[2] = s
    BY <2>4 DEF ScopesOf
  <2>6. r = <<work[q].pair, s>> /\ s \in Scopes
    BY <2>5 DEF IndInv, TablesOK, TablesType
  <2>7. PICK c \in credentials : Pair(c) = work[q].pair
    BY <2>5 DEF IndInv, TablesOK, FollowsOK, Pairs
  <2>8. <<c.id, s>> \in granted
    BY <2>5, <2>6, <2>7 DEF IndInv, TablesOK, FollowsOK
  <2> QED
    BY <2>4, <2>7, <2>8
<1> QED
  BY <1>1, Inductive, PTL DEF Spec, AdmittedOnOneGrant

=============================================================================
