SPECIFICATION Spec
CONSTANTS
    d1 = d1
    c1 = c1
    g1 = g1
    a = a
    b = b
    Models = {a}
    NoModel = NoModel
    NoHead = NoHead
    NoProc = NoProc
    Daemons = {d1}
    DuelCommands = {c1}
    GenesisCommands = {g1}
    FreshStore = FALSE
    Faults = TRUE
    MaxBlock = 1
    MaxLines = 1
    LinesPerPart = 2
SYMMETRY Alike
INVARIANTS TypeOK OneWriter EvidenceFirst HeadBacked
