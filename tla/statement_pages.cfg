SPECIFICATION FairSpec
CONSTANTS
    None = None
    w1 = w1
    st1 = st1
    st2 = st2
    st3 = st3
    st4 = st4
    ann = ann
    bob = bob
    act = act
    Walkers = {w1}
    Ids <- AllIds
    Agents = {ann, bob}
    Activities = {act}
    Usages <- AllUsages
    Content <- AllContent
    Queries <- AllQueries
    Rows = {1, 2, 3, 4}
    DefaultLimit = 1
    MaxLimit = 2
INVARIANTS
    TypeOK
    ReturnedOnce
    CompleteWalk
    WalkStaysInWindow
    MineSeesOnlyItsOwn
    
PROPERTIES
    EveryWalkEnds
