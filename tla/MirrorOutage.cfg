SPECIFICATION Spec
CONSTANTS
    sound = sound
    bare = bare
    huge = huge
    NoModel = NoModel
    Models <- MCModels
    Repo <- MCRepo
    LocalModels <- MCLocal
    Skills = {"pick", "draw"}
    MaxBytes = 5
    LinesPerPart = 2
    Outages <- MCOutages
    MaxQueue = 1
INVARIANTS MirrorCurrent  HeadNotAhead SnapshotTrue KingPasses
