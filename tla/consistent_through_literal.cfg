SPECIFICATION Spec
CONSTANTS
    w1 = w1
    w2 = w2
    r1 = r1
    r2 = r2
    s1 = s1
    s2 = s2
    None = None
    Writers <- TwoWriters
    Readers <- OneReader
    Statements <- OneStatement
    TicksPerMs = 2
    MaxClock = 6
PROPERTY NothingAppearsAtTheBound
