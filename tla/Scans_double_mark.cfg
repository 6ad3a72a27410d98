CONSTANTS
    s0 = s0
    a = a
    b = b
    c = c
    d = d
    e = e
    f = f
    win = win
    s1 = s1
    a1 = a1
    b1 = b1
    c1 = c1
    States <- MCStates
    NoState = NoState
    Deals = {s1}
    Solved = win
    MoveFuncs = {"f1", "f2"}
    Moves <- Fork
    NumScans = 2
    Method <- DfsBrfs
    Tests <- TwoComplete
    Step <- TwoSteps
    Prelude <- NoPrelude
    Options <- SynergyOnly
    IterLimits = {99}
    MaxStates = 99
SPECIFICATION Spec
INVARIANTS
    ActiveChildrenExact
