------------------------------ MODULE UnitLists ------------------------------
(***************************************************************************)
(* The units of one skill of a duel, derived from a pool                   *)
(* (pools/units.py, pools/schema.py) with a generator that hashes a        *)
(* counter (rng.py).  What the generator yields is any value it can; how   *)
(* it turns 64 bits into an index or a permutation is modelled.            *)
(***************************************************************************)
EXTENDS Integers, Sequences, FiniteSets

CONSTANTS
    Groups,      \* the perturbation groups of the skill, in spec order
    Entries,     \* tasks and variants, named by numbers
    Sizes,       \* the numbers of units per skill that a duel may have
    Instances,   \* the initial states of an entry, from 0
    Demos,       \* the demonstrations of a task
    Directions,  \* how many directions a displacement has; 0 for none
    Angles,      \* the angles of a drawing board
    MinDelta,    \* min_delta_rad
    Word,        \* 2^64
    Unknown,     \* the initial state of a demonstration is not known
    NoUnit

ASSUME GroupsAssumption == Groups \in Seq(STRING) /\ Groups # <<>>
ASSUME NumbersAssumption ==
    /\ Entries \subseteq Nat /\ IsFiniteSet(Entries) /\ Sizes \subseteq Nat /\ Instances \subseteq Nat
    /\ Directions \subseteq Nat /\ Angles \subseteq Int /\ MinDelta \in Nat
    /\ Word \in Nat \ {0} /\ Unknown \notin Instances

VARIABLES
    pool,      \* what the pool says of this skill
    group,     \* the number of the group in hand
    phase,     \* where derive_units() is
    order,     \* the group's entries, shuffled
    next,      \* the position in them
    picks,     \* the entries picked and not yet made into units
    unit,      \* the last unit derived
    made       \* how often each group's entries were picked

vars == <<pool, group, phase, order, next, picks, unit, made>>

GroupIds == DOMAIN Groups
Slots(d) == IF d = 0 THEN Instances
            ELSE {i * d + k : i \in Instances, k \in 0..(d - 1)}

(* The entries of a group differ in nothing else here: an initial state is *)
(* valid when the goal does not hold in it yet.                            *)
Libero == UNION {[drawing : {FALSE}, directions : {d}, valid : SUBSET Slots(d),
                  start : [Demos -> Instances \cup {Unknown}]]
                   : d \in Directions}
Draw == [drawing : {TRUE}, directions : {0}, valid : SUBSET Instances,
         board : [Instances -> Angles], drawn : [Demos -> Angles]]
Pools == [size : Sizes, eligible : [GroupIds -> SUBSET Entries],
          entry : Libero \cup Draw]

(* ---- rng.py ------------------------------------------------------------ *)

(* Mutant: no word is rejected. *)
LimitOfWord(n) == Word

(* below(n) takes a word modulo n, unless it lies beyond the last multiple *)
(* of n.                                                                   *)
Limit(n) == Word - (Word % n)
Below(n) == {x % n : x \in 0..(Limit(n) - 1)}

(* shuffled(): each position, from the last, changes places with one that  *)
(* is not behind it.                                                       *)
Draws(n) == {c \in [1..n -> 1..n] : \A k \in 1..n : c[k] - 1 \in Below(k)}
Swap(s, i, j) == [s EXCEPT ![i] = s[j], ![j] = s[i]]
Shuffled(s, c) ==
    LET n == Len(s)
        after[i \in 0..n] ==
            IF i = 0 THEN s ELSE Swap(after[i - 1], n + 1 - i, c[n + 1 - i])
    IN  after[n]

(* ---- derive_units() ---------------------------------------------------- *)

(* Pool.eligible() sorts.                                                  *)
Listed(entries) ==
    LET at == 1..Cardinality(entries)
    IN  CHOOSE s \in [at -> entries] : \A i, j \in at : i < j => s[i] < s[j]

(* Mutant: nobody gets the remainder. *)
GroupSizeShort(n, g) == n \div Len(Groups)

(* group_sizes(): as even as integers allow, the remainder to the first.   *)
GroupSize(n, g) ==
    (n \div Len(Groups)) + (IF g <= n % Len(Groups) THEN 1 ELSE 0)
Due == GroupSize(pool.size, group)

Init ==
    /\ pool \in Pools
    /\ group = 0 /\ phase = "group" /\ order = <<>> /\ next = 1
    /\ picks = <<>> /\ unit = NoUnit
    /\ made = [g \in GroupIds |-> [e \in Entries |-> 0]]

(* The next group; one that needs units and has no entries is an error.    *)
NextGroup ==
    /\ phase = "group" /\ group < Len(Groups)
    /\ group' = group + 1 /\ next' = 1
    /\ LET entries == Listed(pool.eligible[group'])
           n == GroupSize(pool.size, group')
       IN  IF n > 0 /\ entries = <<>>
           THEN phase' = "failed" /\ UNCHANGED order
           ELSE /\ \E c \in Draws(Len(entries)) : order' = Shuffled(entries, c)
                /\ phase' = "spread"
    /\ UNCHANGED <<pool, picks, unit, made>>

AllDone ==
    /\ phase = "group" /\ group = Len(Groups)
    /\ phase' = "done"
    /\ UNCHANGED <<pool, group, order, next, picks, unit, made>>

(* Mutant: the cap is rounded down. *)
CapDown(n, len) == n \div len

Cap(n, len) == (n + len - 1) \div len

(* _spread(): round the shuffled entries, none above the cap.              *)
Pick ==
    /\ phase = "spread" /\ Len(picks) < Due
    /\ LET e == order[next]
       IN  IF made[group][e] < Cap(Due, Len(order))
           THEN /\ picks' = Append(picks, e)
                /\ made' = [made EXCEPT ![group][e] = @ + 1]
           ELSE UNCHANGED <<picks, made>>
    /\ next' = (next % Len(order)) + 1
    /\ UNCHANGED <<pool, group, phase, order, unit>>

Spread ==
    /\ phase = "spread" /\ Len(picks) = Due
    /\ phase' = "derive"
    /\ UNCHANGED <<pool, group, order, next, picks, unit, made>>

(* Mutant: any demonstration of the task will do. *)
CandidatesAll(instance) == Demos

(* The demonstrations that do not start from this initial state; all of    *)
(* them when every one does.                                               *)
Candidates(instance) ==
    LET elsewhere == {d \in Demos : pool.entry.start[d] # instance}
    IN  IF elsewhere = {} THEN Demos ELSE elsewhere

Distance(a, b) == IF a < b THEN b - a ELSE a - b

(* Mutant: a board that is turned at all is far enough. *)
FarDemosAny(instance) ==
    {d \in Demos : pool.entry.drawn[d] # pool.entry.board[instance]}

(* draw_demo_candidates(): no such way out on the drawing board.           *)
FarDemos(instance) ==
    {d \in Demos :
        Distance(pool.entry.drawn[d], pool.entry.board[instance]) >= MinDelta}

(* _unit() for LIBERO: a slot is an initial state, or one with a direction. *)
LiberoUnit ==
    /\ ~pool.entry.drawing
    /\ \E slot \in pool.entry.valid :
         LET k == pool.entry.directions
             instance == IF k = 0 THEN slot ELSE slot \div k
         IN  \E d \in Candidates(instance) :
                unit' = [instance |-> instance, demo |-> d]

(* _draw_unit(): an instance that no demonstration is far from is not      *)
(* used.                                                                   *)
DrawUnit ==
    /\ pool.entry.drawing
    /\ \E instance \in pool.entry.valid : \E d \in FarDemos(instance) :
          unit' = [instance |-> instance, demo |-> d]

Impossible ==
    IF pool.entry.drawing
    THEN \A instance \in pool.entry.valid : FarDemos(instance) = {}
    ELSE pool.entry.valid = {} \/ Demos = {}

Derive ==
    /\ phase = "derive"
    /\ \/ /\ picks = <<>>
          /\ phase' = "group"
          /\ UNCHANGED <<picks, unit>>
       \/ /\ picks # <<>> /\ Impossible
          /\ phase' = "failed"
          /\ UNCHANGED <<picks, unit>>
       \/ /\ picks # <<>>
          /\ LiberoUnit \/ DrawUnit
          /\ picks' = Tail(picks)
          /\ UNCHANGED phase
    /\ UNCHANGED <<pool, group, order, next, made>>

Next == NextGroup \/ AllDone \/ Pick \/ Spread \/ Derive

Spec == Init /\ [][Next]_vars

(* A function that is called runs.                                         *)
FairSpec == Spec /\ WF_vars(Next)
----------------------------------------------------------------------------
(* The units of a group: the first, the second ... of each entry.          *)
Of(g) == UNION {{e} \X (1..made[g][e]) : e \in Entries}
All == UNION {{g} \X Of(g) : g \in GroupIds}

(* "Spread evenly over its perturbation groups, and within a group over    *)
(* the eligible tasks or variants": a finished list has the size asked     *)
(* for, no two groups and no two entries of a group differ by more than    *)
(* one unit.                                                               *)
EvenlySpread ==
    phase = "done" =>
        /\ Cardinality(All) = pool.size
        /\ \A f, g \in GroupIds :
              /\ Distance(Cardinality(Of(f)), Cardinality(Of(g))) <= 1
              /\ \A d, e \in pool.eligible[g] :
                    Distance(made[g][d], made[g][e]) <= 1

(* "The demonstration never starts from the scored initial state": as long *)
(* as the task has one that does not, and at least MinDelta away on the    *)
(* drawing board whatever the pool holds.                                  *)
DemoElsewhere ==
    unit # NoUnit =>
        IF pool.entry.drawing
        THEN Distance(pool.entry.drawn[unit.demo],
                      pool.entry.board[unit.instance]) >= MinDelta
        ELSE pool.entry.start[unit.demo] = unit.instance =>
                \A d \in Demos : pool.entry.start[d] = unit.instance

(* The generator favours no index and no order: every remainder comes from *)
(* equally many words, no permutation from two series of draws.            *)
DrawsFair ==
    group = 0 =>
        /\ \A n \in 1..Word : \A r, s \in 0..(n - 1) :
              Cardinality({x \in 0..(Limit(n) - 1) : x % n = r})
                  = Cardinality({x \in 0..(Limit(n) - 1) : x % n = s})
        /\ LET s == Listed(Entries)
           IN  \A c, d \in Draws(Len(s)) :
                  Shuffled(s, c) = Shuffled(s, d) => c = d

(* The list is derived or refused: _spread() does not turn for ever.       *)
DerivationEnds == <>(phase \in {"done", "failed"})
=============================================================================
