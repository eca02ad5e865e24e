SPECIFICATION FairSpec
CONSTANTS
    None = None
    s1 = s1
    s2 = s2
    a1 = a1
    ip = ip
    Sources = {1, 2, 3}
    Handlers <- TwoAndOne
    Streams <- TwoAndOne
    Kind <- Kinds
    Ip <- OneIp
    Events = {n1}
    Requests = {r1}
    MaxGlobal = 2
    MaxPerIp <- Limits
INVARIANTS
    TypeOK
    EveryStreamIsServed
    EventsComeOnce
    CountsAreExact
    
PROPERTIES
    ListensAgain
    ShutdownEnds
