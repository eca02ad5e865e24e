SPECIFICATION FairSpec
CONSTANTS
    state = state
    other = other
    plain = plain
    profile = profile
    Txns = {t1, t2, t3}
    Registered = {state, other}
    Unregistered = {plain}
    Profiles = {profile}
    Requests <- AllRequests
    None = None
CONSTRAINT
    OneKind
INVARIANTS
    TypeOK
    NothingIsLostWithoutOverlap
PROPERTIES
    LastWriteWins
    PreconditionsFailOnlyWhenOvertaken
    
