SPECIFICATION Spec
CONSTANTS
    v1 = v1
    h1 = h1
    h2 = h2
    q1 = q1
    k1 = k1
    k2 = k2
    Keys = {k1, k2}
    Validators = {v1}
    Handlers = {h1}
    Commands = {}
    Server = Server
    Deployments = {{v1, h1}}
    Faults = {}
    NoOne = NoOne
    NoFile = NoFile
    Empty = Empty
    Torn = Torn
    Waiting = 2
    MaxAdds = 3
    MaxBlock = 3
SYMMETRY Alike
INVARIANT NoLostEntry
