------------------------------- MODULE Score -------------------------------
(***************************************************************************)
(* Scoring and the crown rule (duel/score.py) over the unit verdicts that  *)
(* a duel has merged (duel/orchestrate.py).  A rate is a fraction and is   *)
(* compared exactly; the floats of the code differ from it by far less     *)
(* than SCORE_EPSILON.                                                     *)
(***************************************************************************)
EXTENDS Integers, FiniteSets, FiniteSetsExt

CONSTANTS
    Skills,          \* spec.skills
    PerSkill,        \* spec.units_per_skill(size)
    MarginPoints,    \* spec.score_margin, in percentage points
    EpsilonInverse,  \* 1 / SCORE_EPSILON
    MaxVoidPercent   \* 100 * spec.max_void_fraction

ASSUME SkillsAssumption == IsFiniteSet(Skills) /\ Skills # {}
ASSUME SizesAssumption == PerSkill \in Nat \ {0} /\ EpsilonInverse \in Nat \ {0}
ASSUME MarginAssumption == MarginPoints \in Nat \ {0}
(* The limit on void units is below one skill's share of the units. *)
ASSUME VoidAssumption ==
    MaxVoidPercent \in Nat /\ MaxVoidPercent * Cardinality(Skills) < 100

VARIABLES
    units,    \* the unit verdicts
    verdict   \* what the duel decides

Rivals == {"challenger", "king"}
Results == {"success", "fail", "none"}
Unit == Skills \X (1..PerSkill)
UnitVerdict == [void : BOOLEAN, king : Results, challenger : Results]

(* skill_rate(): the units that count and those that succeeded.            *)
Scored(us, side, skill) ==
    {u \in {skill} \X (1..PerSkill) : ~us[u].void /\ us[u][side] # "none"}
Succeeded(us, side, skill) ==
    {u \in Scored(us, side, skill) : us[u][side] = "success"}

Present(us, side) == {s \in Skills : Scored(us, side, s) # {}}

(* average(): the mean over the skills that have a rate, as a fraction of  *)
(* Denominator(us, side).                                                  *)
Product(us, side) ==
    FoldSet(LAMBDA s, p : Cardinality(Scored(us, side, s)) * p, 1,
            Present(us, side))
Denominator(us, side) == Product(us, side) * Cardinality(Present(us, side))
Numerator(us, side) ==
    MapThenSumSet(LAMBDA s : Cardinality(Succeeded(us, side, s))
                    * (Product(us, side) \div Cardinality(Scored(us, side, s))),
                  Present(us, side))

(* How far the challenger is above the margin, times 100 and both          *)
(* denominators.                                                           *)
Excess(us) ==
    LET cd == Denominator(us, "challenger") kd == Denominator(us, "king")
    IN  100 * (Numerator(us, "challenger") * kd - Numerator(us, "king") * cd)
          - MarginPoints * cd * kd

(* SCORE_EPSILON in the same unit, rounded down: the excess is an integer. *)
Tolerance(us) ==
    (100 * Denominator(us, "challenger") * Denominator(us, "king"))
        \div EpsilonInverse

(* Mutant: the margin must be exceeded. *)
CrownMovesAbove(us) ==
    /\ \A side \in Rivals : Present(us, side) # {}
    /\ Excess(us) > Tolerance(us)

(* crown_moves(): a side without any score moves nothing.                  *)
CrownMoves(us) ==
    /\ \A side \in Rivals : Present(us, side) # {}
    /\ Excess(us) >= -Tolerance(us)

VoidUnits(us) == {u \in Unit : us[u].void}

(* Mutant: the limit is on the units of one skill. *)
TooManyVoidPerSkill(us) ==
    100 * Cardinality(VoidUnits(us)) > 2 * MaxVoidPercent * Cardinality(Unit)

(* void_fraction(units) > spec.max_void_fraction fails the duel.           *)
TooManyVoid(us) ==
    100 * Cardinality(VoidUnits(us)) > MaxVoidPercent * Cardinality(Unit)

(* paired_outcome() *)
Outcome(v) == IF v.king = "none" \/ v.challenger = "none" THEN "tie"
              ELSE IF v.king = v.challenger THEN "tie"
              ELSE IF v.challenger = "success" THEN "challenger" ELSE "king"

(* tally() *)
Count(us, outcome) ==
    Cardinality({u \in Unit : ~us[u].void /\ Outcome(us[u]) = outcome})
Tally(us) == [wins |-> Count(us, "challenger"), losses |-> Count(us, "king"),
              ties |-> Count(us, "tie"), void |-> Cardinality(VoidUnits(us))]
----------------------------------------------------------------------------
Undecided == [failed |-> FALSE, moves |-> FALSE, decided |-> FALSE,
              tally |-> [wins |-> 0, losses |-> 0, ties |-> 0, void |-> 0]]

ScoreInit == units \in [Unit -> UnitVerdict] /\ verdict = Undecided

(* run(): the verdict, then the limit on void units.                       *)
Decide ==
    /\ ~verdict.decided
    /\ verdict' = [failed |-> TooManyVoid(units), moves |-> CrownMoves(units),
                   decided |-> TRUE, tally |-> Tally(units)]
    /\ UNCHANGED units

ScoreSpec == ScoreInit /\ [][Decide]_<<units, verdict>>
----------------------------------------------------------------------------
Judged == \A u \in Unit :
    units[u].void \/ \A side \in Rivals : units[u][side] # "none"

(* The mean success rate of a side in units of 1 / Scale, computed from    *)
(* the factorials that every number of scored units and skills divides.    *)
Factorial == [n \in Nat |-> ProductSet(1..n)]
Scale == Factorial[PerSkill] * Factorial[Cardinality(Skills)]
Wins(side, s) == {n \in 1..PerSkill :
    ~units[s, n].void /\ units[s, n][side] = "success"}
Counted(side, s) == {n \in 1..PerSkill :
    ~units[s, n].void /\ units[s, n][side] # "none"}
Mean(side) ==
    LET rated == {s \in Skills : Counted(side, s) # {}}
    IN  MapThenSumSet(
            LAMBDA s : (Scale * Cardinality(Wins(side, s)))
                       \div (Cardinality(Counted(side, s)) * Cardinality(rated)),
            rated)

(* "challenger.average >= king.average + duel.score_margin / 100": the     *)
(* epsilon never lets a challenger pass that is short of the margin, one   *)
(* that meets it exactly passes, and void units and units that only one    *)
(* side has do not get in the way.  A copy of the king therefore stays     *)
(* short of it.                                                            *)
ExactMargin ==
    verdict.decided =>
        (verdict.moves <=>
            /\ \A side \in Rivals : \E s \in Skills : Counted(side, s) # {}
            /\ 100 * (Mean("challenger") - Mean("king")) >= MarginPoints * Scale)

(* A duel that is not failed for its void units and has judged the others  *)
(* compares averages over every skill: neither side's mean leaves one out. *)
EverySkillScored ==
    verdict.decided /\ ~verdict.failed /\ Judged =>
        \A side \in Rivals : Present(units, side) = Skills
=============================================================================
