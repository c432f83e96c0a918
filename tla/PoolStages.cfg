SPECIFICATION Spec
CONSTANTS
    b1 = b1
    b2 = b2
    g1 = g1
    g2 = g2
    d1 = d1
    d2 = d2
    d3 = d3
    Bases = {b1, b2}
    Gens = {g1, g2}
    Drawings = {d1, d2, d3}
    Made = {g2, d2, d3}
    Order <- OrderIn
    Demos = 2
    Invocations <- InvocationsIn
    Worlds <- WorldsIn
    MaxBuilds = 3
    NoPool = NoPool
    Torn = Torn
    NoId = NoId
CHECK_DEADLOCK FALSE
INVARIANTS FilesFirst SealedPoolServes Reproducible
