---------------------------- MODULE Credentials ----------------------------
(***************************************************************************)
(* The tables behind access to the LRS, admin_account, lrs_credential and  *)
(* credential_to_scope, and the queries of admin/repositories on them.     *)
(* Each operator is one committed query or, from the lock that opens it to *)
(* its commit, one transaction of withClient.  Random ids, keys and secret *)
(* keys are numbers handed out in order; 0 is the configured default key   *)
(* and its secret.                                                         *)
(***************************************************************************)
EXTENDS Naturals, FiniteSets

CONSTANTS Usernames, None

VARIABLES
    accounts,     \* rows [id, username]
    credentials,  \* rows [id, apiKey, secretKey, account]
    scopeRows,    \* rows <<<<apiKey, secretKey>>, scope>>
    locks,        \* <<credential id, process>>: SELECT ... FOR UPDATE
    fresh,        \* the last random value handed out
    admins,       \* history: every id an account had
    granted       \* history: <<credential id, scope>>, as last committed

tables == <<accounts, credentials, scopeRows, locks, fresh, admins, granted>>

Pair(c) == <<c.apiKey, c.secretKey>>
Pairs == {Pair(c) : c \in credentials}
WithId(id) == {c \in credentials : c.id = id}
ScopesOf(pair) == {r[2] : r \in {x \in scopeRows : x[1] = pair}}
Locked(id) == \E l \in locks : l[1] = id

(* The UNIQUE and FOREIGN KEY constraints a statement may fail on. *)
NameTaken(name) == \E a \in accounts : a.username = name
AccountExists(id) == \E a \in accounts : a.id = id

-----------------------------------------------------------------------------
createAccount(name) ==
    /\ ~NameTaken(name)
    /\ accounts' = accounts \cup {[id |-> fresh + 1, username |-> name]}
    /\ admins' = admins \cup {fresh + 1}
    /\ fresh' = fresh + 1
    /\ UNCHANGED <<credentials, scopeRows, locks, granted>>

\* Mutant: credential_fk without ON DELETE CASCADE, or no foreign key at all.
DeleteCredentials_noCascade(gone) ==
    /\ credentials' = credentials \ gone
    /\ UNCHANGED scopeRows

(* Rows of credential_to_scope go with their credential. *)
DeleteCredentials(gone) ==
    /\ credentials' = credentials \ gone
    /\ scopeRows' = {r \in scopeRows : r[1] \notin {Pair(c) : c \in gone}}

(* The delete waits for the locks on what it deletes. *)
deleteAccount(id) ==
    LET owned == {c \in credentials : c.account = id} IN
    /\ \A c \in owned : ~Locked(c.id)
    /\ accounts' = {a \in accounts : a.id # id}
    /\ DeleteCredentials(owned)
    /\ UNCHANGED <<locks, fresh, admins, granted>>

createCredential(apiKey, secretKey, account) ==
    /\ AccountExists(account)
    /\ <<apiKey, secretKey>> \notin Pairs
    /\ credentials' = credentials \cup {[id |-> fresh + 1, apiKey |-> apiKey,
                                         secretKey |-> secretKey, account |-> account]}
    /\ fresh' = fresh + 1
    /\ UNCHANGED <<accounts, scopeRows, locks, admins, granted>>

deleteCredential(id) ==
    /\ ~Locked(id)
    /\ DeleteCredentials(WithId(id))
    /\ UNCHANGED <<accounts, locks, fresh, admins, granted>>

\* Mutant: SELECT without FOR UPDATE.
LockRow_noUpdate(p, id) ==
    /\ ~Locked(id)
    /\ UNCHANGED <<accounts, credentials, scopeRows, locks, fresh, admins, granted>>

(* The first query of both transactions below. *)
LockRow(p, id) ==
    /\ ~Locked(id)
    /\ locks' = locks \cup {<<id, p>>}
    /\ UNCHANGED <<accounts, credentials, scopeRows, fresh, admins, granted>>

Unlock(p) == locks' = {l \in locks : l[2] # p}

(* Drop the old pair's scope rows, change the secret key, and insert under the
   new pair the scopes read after the lock was taken. *)
rotateSecret(p, c, scopes) ==
    LET new == [c EXCEPT !.secretKey = fresh + 1] IN
    /\ credentials' = (credentials \ {c}) \cup {new}
    /\ scopeRows' = {r \in scopeRows : r[1] # Pair(c)} \cup ({Pair(new)} \X scopes)
    /\ fresh' = fresh + 1
    /\ Unlock(p)
    /\ UNCHANGED <<accounts, admins, granted>>

setCredentialScopes(p, c, scopes) ==
    /\ scopeRows' = {r \in scopeRows : r[1] # Pair(c)} \cup ({Pair(c)} \X scopes)
    /\ granted' = {g \in granted : g[1] # c.id} \cup ({c.id} \X scopes)
    /\ Unlock(p)
    /\ UNCHANGED <<accounts, credentials, fresh, admins>>

=============================================================================
