SPECIFICATION Spec
CONSTANTS
    None = None
    r1 = r1
    r2 = r2
    m1 = m1
    m2 = m2
    q1 = q1
    Usernames <- Names
    Replicas <- MCReplicas
    Admins <- MCAdmins
    Clients <- MCClients
    ServedBy <- OneEach
    Configs <- WithAndWithoutAdmin
    Grants <- SomeGrants
    Routes <- SomeRoutes
    MaxAdminRequests = 3
    MaxCrashes = 1
INVARIANT
    ScopesFollowTheCredential
PROPERTIES
    AdmittedOnOneGrant
    EveryReplicaServes
