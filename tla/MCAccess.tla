------------------------------ MODULE MCAccess ------------------------------
(* Two replicas that start together with a configured admin and a default key,
   or with a default key only; each serves some of the requests. *)
EXTENDS Access, TLC

CONSTANTS r1, r2, m1, m2, q1

MCReplicas == {r1, r2}
MCAdmins == {m1, m2}
MCClients == {q1}
OneEach == [p \in MCAdmins \cup MCClients |-> IF p = m1 THEN r1 ELSE r2]
WithAndWithoutAdmin ==
    {[adminUser |-> "root", adminPassword |-> TRUE, key |-> TRUE],
     [adminUser |-> None, adminPassword |-> FALSE, key |-> TRUE]}
Names == {"root", "admin"}
SomeGrants == {{}, {"statements/read"}}
SomeRoutes == {<<"/xapi/statements", "GET">>}
=============================================================================
