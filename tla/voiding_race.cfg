SPECIFICATION Spec
CONSTANTS
    t1 = t1
    t2 = t2
    t3 = t3
    a = a
    b = b
    c = c
    x = x
    None = None
    Txns <- TwoTxns
    Ids <- ThreeIds
    Activities = {x}
    Contents = {1, 2}
    Requests <- VoidRequests
INVARIANT NoVoidingStatementIsVoided
