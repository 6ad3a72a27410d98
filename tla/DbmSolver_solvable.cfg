CONSTANTS
    r = r
    a = a
    b = b
    c = c
    d = d
    e = e
    f = f
    t1 = t1
    t2 = t2
    t3 = t3
    NoKey = NoKey
    Root = r
    Keys <- MCKeys
    Succ <- MCSucc
    Threads <- MCThreads2
    Goal = {d}
    MaxProcessed = 5
    MaxStates = 5
SPECIFICATION Spec
INVARIANTS
    TraceIsSolution
    VerdictSound
    IntractableHonest
