SPECIFICATION ScoreSpec
CONSTANTS
    s1 = s1
    s2 = s2
    Skills = {s1, s2}
    PerSkill = 2
    MarginPoints = 25
    EpsilonInverse = 1000000000
    MaxVoidPercent = 25
CHECK_DEADLOCK FALSE
INVARIANTS ExactMargin EverySkillScored
