CONSTANTS
    s0 = s0
    a = a
    b = b
    c = c
    d = d
    e = e
    f = f
    win = win
    s1 = s1
    a1 = a1
    b1 = b1
    c1 = c1
    States <- MCStates
    NoState = NoState
    Deals = {s0}
    Solved = win
    MoveFuncs = {"f1", "f2"}
    Moves <- Shortcut
    NumScans = 2
    Method <- DfsBefs
    Tests <- SecondAtOnce
    Step <- TwoSteps
    Prelude <- SecondFirst
    Options <- Optimized
    IterLimits = {5, 9, 99}
    MaxStates = 99
SPECIFICATION Spec
INVARIANTS
    ParentsDerive
    OptimizedNotLonger
    SolvedStaysSolved
    ActiveChildrenExact
    DeadEndsClosed
