SPECIFICATION FairSpec
CONSTANTS
    m1 = m1
    m2 = m2
    Groups <- GroupsIn
    Entries = {1, 2}
    Sizes = {5}
    Instances = {0, 1}
    Demos = {m1, m2}
    Directions = {0, 2}
    Angles = {0, 1, 3}
    MinDelta = 2
    Word = 8
    Unknown = Unknown
    NoUnit = NoUnit
CHECK_DEADLOCK FALSE
INVARIANTS EvenlySpread DemoElsewhere DrawsFair
PROPERTY DerivationEnds
