SPECIFICATION Spec
CONSTANTS
    d1 = d1
    c1 = c1
    g1 = g1
    a = a
    b = b
    Models = {a, b}
    NoModel = NoModel
    NoHead = NoHead
    NoProc = NoProc
    Daemons = {d1}
    DuelCommands = {}
    GenesisCommands = {}
    FreshStore = TRUE
    Faults = TRUE
    MaxBlock = 5
    MaxLines = 9
    LinesPerPart = 2
SYMMETRY Alike
INVARIANTS UniqueEvents SeqDense CrownSuccession VerifierCounts
PROPERTIES HeadForward ImplementsChain
