CONSTANTS
    r = r
    a = a
    b = b
    c = c
    d = d
    e = e
    f = f
    g = g
    h = h
    i = i
    t1 = t1
    t2 = t2
    t3 = t3
    NoKey = NoKey
    Root = r
    Keys <- MCKeys
    Succ <- MCSucc
    Depth <- MCDepth
    MaxDepth = 3
    Threads <- MCThreads2
    Goal = {f}
    MaxBatch = 2
    MaxProcessed = 8
    MaxStates = 50
SPECIFICATION Spec
INVARIANTS
    TraceIsSolution
    NoUseAfterRecycle
    IntractableHonest
