SPECIFICATION Spec
CONSTANTS
    v1 = v1
    h1 = h1
    h2 = h2
    q1 = q1
    k1 = k1
    k2 = k2
    Keys = {k1, k2}
    Validators = {v1}
    Handlers = {h1, h2}
    Commands = {q1}
    Server = Server
    Deployments = {{v1}, {h1, h2}, {q1}, {v1, h1, h2}}
    Faults = {{v1}, {h1, h2}, {q1}}
    NoOne = NoOne
    NoFile = NoFile
    Empty = Empty
    Torn = Torn
    Waiting = 2
    MaxAdds = 3
    MaxBlock = 2
SYMMETRY Alike
INVARIANTS OneEntryPerKey AckDurable AtMostOnce DiskWhole
