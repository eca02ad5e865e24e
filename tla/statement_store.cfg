SPECIFICATION FairSpec
CONSTANTS
    t1 = t1
    t2 = t2
    t3 = t3
    a = a
    b = b
    c = c
    x = x
    None = None
    Txns <- ThreeTxns
    Ids <- ThreeIds
    Activities = {x}
    Contents = {1, 2}
    Requests <- AllRequests
INVARIANTS
    TypeOK
    AcceptedPostIsStored
    LinksAreClosed
    DependentsAreStoredOnce
    VoidedByPostHasVoider
    AcceptedVoidingTookEffect
PROPERTIES
    CommittedStatementsAreImmutable
    EveryRequestIsAnswered
