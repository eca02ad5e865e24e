------------------------------- MODULE Access -------------------------------
(***************************************************************************)
(* Who may use the LRS.  Replicas that start create the first admin        *)
(* account and the default credential unless they find them; admins, by    *)
(* page or by API, create, rotate, scope and delete credentials and        *)
(* accounts; and xAPI requests are authenticated in two queries, each      *)
(* taking whatever is committed then.  A replica may crash anywhere, with  *)
(* the requests it serves.                                                 *)
(***************************************************************************)
EXTENDS Credentials, Authorization

CONSTANTS Replicas,
          Admins, Clients,   \* admin requests and xAPI requests at a time
          ServedBy,          \* the replica that gets each of them
          Configs,           \* environments: adminUser, adminPassword, apiKeyDefault
          Grants,            \* scope sets an admin may ask for
          Routes,            \* <<path, method>> a client may ask for
          MaxAdminRequests, MaxCrashes    \* bounds

ASSUME AccessAssumption ==
    /\ ServedBy \in [Admins \cup Clients -> Replicas]
    /\ Configs \subseteq [adminUser: Usernames \cup {None}, adminPassword: BOOLEAN,
                          key: BOOLEAN]
    /\ Grants \subseteq SUBSET Scopes
    /\ Routes \subseteq Paths \X {"GET", "HEAD", "POST", "PUT", "DELETE"}
    /\ "admin" \in Usernames

VARIABLES
    config,       \* the environment, the same for every replica
    pc,           \* the next query of each process
    work,         \* its locals
    known,        \* history: pairs that were shown to somebody
    adminRequests, crashes

vars == <<tables, config, pc, work, known, adminRequests, crashes>>

Processes == Replicas \cup Admins
Serving(p) == pc[ServedBy[p]] = "serving"
Goto(p, label) == pc' = [pc EXCEPT ![p] = label]
NoWork == [username |-> None, account |-> None, credential |-> None, scopes |-> {},
           rotates |-> FALSE, pair |-> None, route |-> None]

Local == UNCHANGED <<tables, config, known, adminRequests, crashes>>

-----------------------------------------------------------------------------
(* bootstrapAccounts.  A query that fails ends the process. *)

Start(r) ==
    /\ pc[r] = "down"
    /\ Goto(r, "account")
    /\ UNCHANGED work
    /\ Local

Exit(r) ==
    /\ pc' = [pc EXCEPT ![r] = "down"]
    /\ work' = [work EXCEPT ![r] = NoWork]
    /\ Local

Configured == config.adminUser # None /\ config.adminPassword

(* getAccountByUsername or hasAnyAdminAccount; with an account but no
   configured admin the username stays whatever is configured. *)
ReadAccounts(r) ==
    /\ pc[r] = "account"
    /\ LET name == IF Configured THEN config.adminUser ELSE "admin"
           missing == IF Configured THEN ~NameTaken(name) ELSE accounts = {}
       IN /\ work' = [work EXCEPT ![r].username = IF missing THEN name ELSE config.adminUser]
          /\ Goto(r, IF missing THEN "createAccount" ELSE "owner")
    /\ Local

CreateAccount(r) ==
    /\ pc[r] = "createAccount"
    /\ \/ /\ createAccount(work[r].username)
          /\ Goto(r, "owner")
          /\ UNCHANGED <<work, config, known, adminRequests, crashes>>
       \/ NameTaken(work[r].username) /\ Exit(r)

Served(r) ==
    /\ Goto(r, "serving")
    /\ work' = [work EXCEPT ![r] = NoWork]

ReadOwner(r) ==
    /\ pc[r] = "owner"
    /\ LET owners == {a \in accounts : a.username = work[r].username}
       IN IF config.key /\ owners # {}
          THEN \E a \in owners : /\ work' = [work EXCEPT ![r].account = a.id]
                                 /\ Goto(r, "credential")
          ELSE Served(r)
    /\ Local

\* Mutant: the default credential is created unless this very pair is there.
DefaultMissing_never == TRUE

DefaultMissing == ~\E c \in credentials : c.apiKey = 0

(* ensureDefaultCredential: look for the key, create, then set the scopes. *)
ReadCredential(r) ==
    /\ pc[r] = "credential"
    /\ IF DefaultMissing
       THEN Goto(r, "createCredential") /\ UNCHANGED work
       ELSE Served(r)
    /\ Local

CreateCredential(r) ==
    /\ pc[r] = "createCredential"
    /\ \/ /\ createCredential(0, 0, work[r].account)
          /\ work' = [work EXCEPT ![r].credential = fresh + 1, ![r].scopes = {"all"}]
          /\ Goto(r, "lock")
          /\ known' = known \cup {<<0, 0>>}
          /\ UNCHANGED <<config, adminRequests, crashes>>
       \/ (~AccountExists(work[r].account) \/ <<0, 0>> \in Pairs) /\ Exit(r)

-----------------------------------------------------------------------------
(* The transactions of rotateSecret and setCredentialScopes, for admins and
   for the bootstrap. *)

Done(p) ==
    /\ Goto(p, IF p \in Replicas THEN "serving" ELSE "idle")
    /\ work' = [work EXCEPT ![p] = NoWork]

Lock(p) ==
    /\ pc[p] = "lock"
    /\ \/ /\ WithId(work[p].credential) # {}
          /\ LockRow(p, work[p].credential)
          /\ Goto(p, IF work[p].rotates THEN "snapshot" ELSE "write")
          /\ UNCHANGED <<work, config, known, adminRequests, crashes>>
       \/ WithId(work[p].credential) = {} /\ Done(p) /\ Local

Snapshot(p) ==
    /\ pc[p] = "snapshot"
    /\ \E c \in WithId(work[p].credential) :
          work' = [work EXCEPT ![p].scopes = ScopesOf(Pair(c))]
    /\ Goto(p, "write")
    /\ Local

Write(p) ==
    /\ pc[p] = "write"
    /\ \E c \in WithId(work[p].credential) :
          IF work[p].rotates
          THEN /\ rotateSecret(p, c, work[p].scopes)
               /\ known' = known \cup {<<c.apiKey, fresh + 1>>}
          ELSE /\ setCredentialScopes(p, c, work[p].scopes)
               /\ UNCHANGED known
    /\ Done(p)
    /\ UNCHANGED <<config, adminRequests, crashes>>

-----------------------------------------------------------------------------
(* Admin requests, of the pages and of the API.  What fails on a constraint
   or finds nothing changes nothing. *)

AdminRequest(m) ==
    /\ Serving(m)
    /\ pc[m] = "idle"
    /\ adminRequests < MaxAdminRequests
    /\ adminRequests' = adminRequests + 1
    /\ UNCHANGED <<config, crashes>>

PostAccount(m) ==
    /\ AdminRequest(m)
    /\ \E name \in Usernames : createAccount(name)
    /\ UNCHANGED <<pc, work, known>>

(* An account other than that of the session, whose account may be gone. *)
DeleteAccount(m) ==
    /\ AdminRequest(m)
    /\ \E session \in admins, a \in accounts : a.id # session /\ deleteAccount(a.id)
    /\ UNCHANGED <<pc, work, known>>

(* createCredential, then setCredentialScopes if scopes are given. *)
PostCredential(m) ==
    /\ AdminRequest(m)
    /\ \E a \in accounts, scopes \in Grants \cup {{}} :
          /\ createCredential(fresh + 1, fresh + 1, a.id)
          /\ IF scopes = {}
             THEN UNCHANGED <<pc, work>>
             ELSE /\ work' = [work EXCEPT ![m].credential = fresh + 1, ![m].scopes = scopes]
                  /\ Goto(m, "lock")
    /\ known' = known \cup {<<fresh + 1, fresh + 1>>}

DeleteCredential(m) ==
    /\ AdminRequest(m)
    /\ \E c \in credentials : deleteCredential(c.id)
    /\ UNCHANGED <<pc, work, known>>

PutScopes(m) ==
    /\ AdminRequest(m)
    /\ \E c \in credentials, scopes \in Grants :
          work' = [work EXCEPT ![m].credential = c.id, ![m].scopes = scopes]
    /\ Goto(m, "lock")
    /\ UNCHANGED <<tables, known>>

RotateCredential(m) ==
    /\ AdminRequest(m)
    /\ \E c \in credentials :
          work' = [work EXCEPT ![m].credential = c.id, ![m].rotates = TRUE]
    /\ Goto(m, "lock")
    /\ UNCHANGED <<tables, known>>

-----------------------------------------------------------------------------
(* xAPI requests with Basic authentication. *)

(* The first query of authenticateBasicCredential; without a row, 401. *)
Authenticate(q) ==
    /\ Serving(q)
    /\ pc[q] = "idle"
    /\ \E pair \in known \cup {<<0, 0>>}, route \in Routes :
          /\ work' = [work EXCEPT ![q].pair = pair, ![q].route = route]
          /\ Goto(q, IF pair \in Pairs THEN "found" ELSE "refused")
    /\ Local

(* The second, and scopeMiddleware. *)
Authorize(q) ==
    /\ pc[q] = "found"
    /\ Goto(q, IF scopeMiddleware(ScopesOf(work[q].pair), work[q].route)
               THEN "admitted" ELSE "refused")
    /\ UNCHANGED work
    /\ Local

Respond(q) ==
    /\ pc[q] \in {"admitted", "refused"}
    /\ Goto(q, "idle")
    /\ work' = [work EXCEPT ![q] = NoWork]
    /\ Local

-----------------------------------------------------------------------------
(* Open transactions are rolled back with the connection. *)
Crash(r) ==
    LET lost == {r} \cup {p \in Admins \cup Clients : ServedBy[p] = r} IN
    /\ pc[r] # "down"
    /\ crashes < MaxCrashes
    /\ crashes' = crashes + 1
    /\ pc' = [p \in DOMAIN pc |->
                 IF p = r THEN "down" ELSE IF p \in lost THEN "idle" ELSE pc[p]]
    /\ work' = [p \in DOMAIN work |-> IF p \in lost THEN NoWork ELSE work[p]]
    /\ locks' = {l \in locks : l[2] \notin lost}
    /\ UNCHANGED <<accounts, credentials, scopeRows, fresh, admins, granted, config,
                   known, adminRequests>>

Init ==
    /\ accounts = {}
    /\ credentials = {}
    /\ scopeRows = {}
    /\ locks = {}
    /\ fresh = 0
    /\ admins = {}
    /\ granted = {}
    /\ config \in Configs
    /\ pc = [p \in Processes \cup Clients |-> IF p \in Replicas THEN "down" ELSE "idle"]
    /\ work = [p \in Processes \cup Clients |-> NoWork]
    /\ known = {}
    /\ adminRequests = 0
    /\ crashes = 0

Boot(r) ==
    \/ Start(r) \/ ReadAccounts(r) \/ CreateAccount(r) \/ ReadOwner(r)
    \/ ReadCredential(r) \/ CreateCredential(r)

Transact(p) == Lock(p) \/ Snapshot(p) \/ Write(p)

Administer(m) ==
    \/ PostAccount(m) \/ DeleteAccount(m) \/ PostCredential(m) \/ DeleteCredential(m)
    \/ PutScopes(m) \/ RotateCredential(m)

Request(q) == Authenticate(q) \/ Authorize(q) \/ Respond(q)

Next ==
    \/ \E r \in Replicas : Boot(r) \/ Crash(r)
    \/ \E p \in Processes : Transact(p)
    \/ \E m \in Admins : Administer(m)
    \/ \E q \in Clients : Request(q)

(* The orchestrator restarts a replica that exits, and queries return.  Which
   requests are sent is up to the clients. *)
Fairness ==
    /\ \A r \in Replicas : WF_vars(Boot(r))
    /\ \A p \in Processes : WF_vars(Transact(p))

Spec == Init /\ [][Next]_vars /\ Fairness

-----------------------------------------------------------------------------
(* Whatever order rotations, scope changes, deletions and crashes come in, a
   credential has the scopes last committed for it under its present secret,
   and no secret that was rotated or deleted has any. *)
ScopesFollowTheCredential ==
    /\ \A c \in credentials :
          ScopesOf(Pair(c)) = {g[2] : g \in {x \in granted : x[1] = c.id}}
    /\ \A r \in scopeRows : r[1] \in Pairs

(* Although credential and scopes are read by two queries, a request is let in
   only if at that moment its key and secret are those of a credential that
   holds a scope for the route. *)
AdmittedOnOneGrant ==
    [][\A q \in Clients : pc[q] = "found" /\ pc'[q] = "admitted" =>
          \E c \in credentials : /\ Pair(c) = work[q].pair
                                 /\ \E s \in requiredScopes(work[q].route) :
                                       <<c.id, s>> \in granted]_vars

(* Replicas that start together, or restart, all come to serve for good, though
   they look before they create and fail when another one was faster. *)
EveryReplicaServes == \A r \in Replicas : <>[](pc[r] = "serving")

=============================================================================
