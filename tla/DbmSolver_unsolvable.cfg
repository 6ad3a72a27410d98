CONSTANTS
    r = r
    a = a
    b = b
    c = c
    d = d
    e = e
    f = f
    t1 = t1
    t2 = t2
    t3 = t3
    NoKey = NoKey
    Root = r
    Keys <- MCKeys
    Succ <- MCSucc
    Threads <- MCThreads3
    Goal = {f}
    MaxProcessed = 50
    MaxStates = 50
SPECIFICATION FairSpec
INVARIANTS
    TypeOK
    CounterExact
    NoLostWork
    ExpandedOnce
    QuietExit
PROPERTIES
    ImplementsSearch
    Terminates
