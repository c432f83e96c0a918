SPECIFICATION FairSpec
CONSTANTS
    v1 = v1
    h1 = h1
    h2 = h2
    q1 = q1
    k1 = k1
    k2 = k2
    Keys = {k1, k2}
    Validators = {v1}
    Handlers = {h1, h2}
    Commands = {}
    Server = Server
    Deployments = {{v1}, {v1, h1, h2}}
    Faults = {}
    NoOne = NoOne
    NoFile = NoFile
    Empty = Empty
    Torn = Torn
    Waiting = 2
    MaxAdds = 2
    MaxBlock = 2
PROPERTIES TakenUp RequestEnds
