SPECIFICATION FairSpec
CONSTANTS
    u1 = u1
    u2 = u2
    Units = {u1, u2}
    FlushUnits = 2
    VoidLimit = 1
    MaxRuns = 2
    Sites <- MCSites
CHECK_DEADLOCK FALSE
INVARIANTS EveryUnitJudged ClipsLinked
PROPERTIES VerdictStable DuelEnds
