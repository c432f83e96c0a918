SPECIFICATION FairSpec
CONSTANTS
    u1 = u1
    u2 = u2
    u3 = u3
    libero = libero
    draw = draw
    Order <- OrderIn
    SkillOf <- SkillOfIn
    Drawing = {draw}
    MaxSteps = 2
    ExecHorizon = 1
    IdleStop = 2
    MaxErrors = 1
    HardTimeout = 1
    UnitWall = 2
    SideWall = 3
    DemoLengths = {1, 3, 5}
    ChunkSize <- ChunkSizeIn
    PadEnd <- PadEndIn
    NoSkill = NoSkill
    NoUnit = NoUnit
    NoAct = NoAct
CHECK_DEADLOCK FALSE
INVARIANTS OwnPromptAndSeed WallTimes PromptCovers
PROPERTY SideEnds
