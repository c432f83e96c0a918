----------------------------- MODULE DuelProofs -----------------------------
(***************************************************************************)
(* What holds of a duel for any units, any number of starts and every      *)
(* deployment: a side's result on a unit never changes once it was merged, *)
(* a published duel has judged its units, and it has its clips; and of its *)
(* verdict (Score), for any skills and number of units, that both sides    *)
(* are compared over every skill and that the margin alone decides.        *)
(***************************************************************************)
EXTENDS Duel, Score, FiniteSetTheorems, WellFoundedInduction, TLAPS

Phases == {"off", "preparing", "ready", "evaluating", "scoring", "done", "failed"}

(* A verdict has a result for each side, whatever the result is.           *)
HasResults(v) == /\ v = [void |-> v.void, result |-> v.result]
                 /\ v.result = [s \in Sides |-> v.result[s]]
JudgeShape == /\ judge = [u \in Units |-> judge[u]]
              /\ \A u \in Units : HasResults(judge[u])

TypeOK ==
    /\ site \in Sites /\ side \in Sides /\ phase \in Phases /\ run \in Nat
    /\ left \in [Runners -> SUBSET Units]
    /\ JudgeShape

(* A side ends before anything else is done, where no container outlives   *)
(* the orchestrator.                                                       *)
OneSideAtATime ==
    ~(site.docker /\ site.detached) =>
        /\ alive \subseteq {Current}
        /\ alive # {} => phase = "evaluating"

None(s) == \A u \in Units : judge[u].result[s] = "none"

(* Nothing is merged of a side that has not begun.                         *)
NothingYet ==
    /\ phase \in {"preparing", "ready"} => None(side)
    /\ phase = "preparing" => side = "challenger"
    /\ side = "challenger" => None("king")

(* What was merged of the side that is evaluated is not merged again: it   *)
(* was seen, or its unit is not run again.                                 *)
MergedOnce ==
    phase = "evaluating" =>
        \A u \in Units : judge[u].result[side] # "none" =>
            IF site.docker THEN u \in seen ELSE u \notin left[Current]

IInv == TypeOK /\ OneSideAtATime /\ NothingYet /\ MergedOnce

Keeps == \A u \in Units, s \in Sides :
            judge[u].result[s] # "none" => judge'[u].result[s] = judge[u].result[s]
-----------------------------------------------------------------------------
(* Merging a line sets the result of the side it is of and no other.       *)
LEMMA MergeShape ==
    ASSUME NEW v, NEW s \in Sides, NEW l, HasResults(v)
    PROVE  /\ HasResults(Merge(v, s, l))
           /\ \A t \in Sides : t # s => Merge(v, s, l).result[t] = v.result[t]
<1>1. PICK void, x : Merge(v, s, l) = [void |-> void, result |-> [v.result EXCEPT ![s] = x]]
  <2>1. CASE l.result = "void"
    <3>1. Merge(v, s, l) = [void |-> TRUE, result |-> [v.result EXCEPT ![s] = "none"]]
      BY <2>1 DEF Merge, HasResults
    <3>. QED BY <3>1
  <2>2. CASE l.result # "void"
    <3>1. Merge(v, s, l) = [void |-> v.void, result |-> [v.result EXCEPT ![s] = l.result]]
      BY <2>2 DEF Merge, HasResults
    <3>. QED BY <3>1
  <2>. QED BY <2>1, <2>2
<1>2. Merge(v, s, l).result = [v.result EXCEPT ![s] = x]
  BY <1>1
<1>. QED BY <1>1, <1>2 DEF HasResults

(* A poll merges only what was not seen before.                            *)
LEMMA PollKeeps ==
    ASSUME TypeOK, MergedOnce, site.docker, phase = "evaluating", PollLines
    PROVE  /\ Keeps
           /\ JudgeShape'
           /\ \A u \in Units, s \in Sides :
                 s # side => judge'[u].result[s] = judge[u].result[s]
           /\ \A u \in Units : judge'[u].result[side] # "none" => u \in seen'
<1>. side \in Sides /\ JudgeShape
  BY DEF TypeOK
<1>1. \A u \in Units : judge'[u] = IF u \in Done(side) \ seen
                                    THEN Merge(judge[u], side, Result(side, u))
                                    ELSE judge[u]
  BY DEF PollLines
<1>2. \A u \in Units :
         /\ HasResults(judge'[u])
         /\ \A t \in Sides : t # side => judge'[u].result[t] = judge[u].result[t]
  BY <1>1, MergeShape DEF JudgeShape
<1>3. JudgeShape'
  <2>1. judge' = [u \in Units |-> judge'[u]]
    BY DEF PollLines
  <2>. QED BY <1>2, <2>1 DEF JudgeShape, HasResults
<1>4. ASSUME NEW u \in Units PROVE judge[u].result[side] # "none" =>
         /\ u \in seen
         /\ judge'[u].result[side] = judge[u].result[side]
  BY <1>1 DEF MergedOnce
<1>5. ASSUME NEW u \in Units, judge'[u].result[side] # "none"
      PROVE u \in seen'
  BY <1>1, <1>4, <1>5 DEF PollLines
<1>. QED BY <1>2, <1>3, <1>4, <1>5 DEF Keeps

(* In the orchestrator's process the unit that has run is merged at once.  *)
LEMMA RunKeeps ==
    ASSUME IInv, NEW r \in Runners, RunUnit(r)
    PROVE  Keeps /\ IInv'
<1>. USE DEF IInv
<1>1. PICK u \in left[r] : \E l \in {k \in Lines : k.unit = u} :
         /\ left' = [left EXCEPT ![r] = @ \ {u}]
         /\ IF site.docker THEN UNCHANGED judge
            ELSE judge' = [judge EXCEPT ![u] = Merge(@, side, l)]
  BY DEF RunUnit, clips
<1>2. /\ UNCHANGED <<site, side, phase, alive, seen, run>>
      /\ u \in Units /\ left' \in [Runners -> SUBSET Units]
  BY <1>1 DEF RunUnit, TypeOK
<1>3. CASE site.docker
  <2>1. UNCHANGED judge
    BY <1>1, <1>3
  <2>. QED BY <1>2, <1>3, <2>1 DEF Keeps, TypeOK, JudgeShape, OneSideAtATime,
              NothingYet, MergedOnce, None, Current
<1>4. CASE ~site.docker
  <2>1. r = Current /\ phase = "evaluating"
    BY <1>4 DEF RunUnit, OneSideAtATime
  <2>2. PICK l : judge' = [judge EXCEPT ![u] = Merge(@, side, l)]
    BY <1>1, <1>4
  <2>3. judge[u].result[side] = "none"
    BY <1>2, <1>4, <2>1 DEF MergedOnce
  <2>4. \A v \in Units : judge'[v] = IF v = u THEN Merge(judge[u], side, l) ELSE judge[v]
    BY <2>2 DEF TypeOK, JudgeShape
  <2>5. /\ \A v \in Units, s \in Sides :
             (v # u \/ s # side) => judge'[v].result[s] = judge[v].result[s]
        /\ JudgeShape'
    <3>1. judge' = [v \in Units |-> judge'[v]]
      BY <2>2 DEF TypeOK, JudgeShape
    <3>2. \A v \in Units : HasResults(judge'[v])
      BY <2>4, MergeShape DEF TypeOK, JudgeShape
    <3>3. \A s \in Sides : s # side => judge'[u].result[s] = judge[u].result[s]
      BY <1>2, <2>4, MergeShape DEF TypeOK, JudgeShape
    <3>. QED BY <2>4, <3>1, <3>2, <3>3 DEF JudgeShape, HasResults
  <2>6. Keeps
    BY <2>3, <2>5 DEF Keeps
  <2>7. NothingYet'
    BY <1>2, <2>1, <2>5 DEF NothingYet, None, Sides
  <2>8. MergedOnce'
    <3>1. left'[Current] = left[Current] \ {u}
      BY <1>1, <2>1 DEF TypeOK
    <3>. QED BY <1>2, <1>4, <2>5, <3>1 DEF MergedOnce, Current, TypeOK
  <2>. QED BY <1>2, <2>5, <2>6, <2>7, <2>8 DEF TypeOK, OneSideAtATime, Current
<1>. QED BY <1>3, <1>4
-----------------------------------------------------------------------------
(* Before anything was merged of any side.                                 *)
LEMMA NoVerdicts ==
    ASSUME NEW j, j = [u \in Units |-> NoVerdict]
    PROVE  /\ j = [u \in Units |-> j[u]]
           /\ \A u \in Units : HasResults(j[u])
           /\ \A u \in Units, s \in Sides : j[u].result[s] = "none"
<1>1. HasResults(NoVerdict) /\ \A s \in Sides : NoVerdict.result[s] = "none"
  BY DEF NoVerdict, HasResults
<1>2. j = [u \in Units |-> j[u]] /\ \A u \in Units : j[u] = NoVerdict
  OBVIOUS
<1>. QED BY <1>1, <1>2

(* A duel begins within the invariant.                                   *)
LEMMA InitIInv == Init => IInv
<1>. SUFFICES ASSUME Init PROVE IInv
  OBVIOUS
<1>1. JudgeShape /\ \A s \in Sides : None(s)
  BY NoVerdicts DEF Init, JudgeShape, None
<1>2. /\ site \in Sites /\ side = "challenger" /\ phase = "off" /\ alive = {} /\ run = 0
      /\ left = [r \in Runners |-> {}]
  BY DEF Init
<1>. QED BY <1>1, <1>2 DEF IInv, TypeOK, OneSideAtATime, NothingYet,
                  MergedOnce, Sides, Phases

(* Each step keeps it, and within a run no result is replaced.           *)
LEMMA StepIInv ==
    ASSUME IInv, [Next]_vars
    PROVE  IInv' /\ (run' = run => Keeps)
<1>. USE DEF IInv
<1>1. CASE Begin
  <2>1. /\ judge' = [u \in Units |-> NoVerdict] /\ side' = "challenger"
        /\ phase' = "preparing" /\ UNCHANGED <<site, alive, left>>
        /\ phase # "evaluating" /\ run' \in Nat /\ run' # run
    BY <1>1 DEF Begin, runners, TypeOK
  <2>2. JudgeShape' /\ \A s \in Sides : None(s)'
    <3>1. /\ judge' = [u \in Units |-> judge'[u]]
          /\ \A u \in Units : HasResults(judge'[u])
          /\ \A u \in Units, s \in Sides : judge'[u].result[s] = "none"
      BY <2>1, NoVerdicts
    <3>. QED BY <3>1 DEF JudgeShape, HasResults, None
  <2>. QED BY <2>1, <2>2 DEF TypeOK, OneSideAtATime, NothingYet, MergedOnce,
                  Sides, Phases, Current
<1>2. CASE Prepare
  BY <1>2 DEF Prepare, runners, clips, TypeOK, JudgeShape, OneSideAtATime,
              NothingYet, None, MergedOnce, Phases, Keeps, Current
<1>3. CASE StartSide
  <2>1. /\ UNCHANGED <<site, run, side, judge>> /\ phase = "ready"
        /\ phase' = "evaluating" /\ alive' = alive \cup {Current}
        /\ left' \in [Runners -> SUBSET Units]
    BY <1>3 DEF StartSide, TypeOK
  <2>. QED BY <2>1 DEF TypeOK, JudgeShape, OneSideAtATime, NothingYet, None,
                  MergedOnce, Phases, Keeps, Current
<1>4. CASE EndSide
  <2>1. /\ UNCHANGED <<site, run, alive, left>> /\ phase = "evaluating"
        /\ Current \notin alive /\ phase' \in {"ready", "scoring", "failed"}
        /\ \/ side' = side /\ phase' # "ready"
           \/ side = "challenger" /\ side' = "king"
    BY <1>4 DEF EndSide, NextPhase, runners
  <2>2. ~(site.docker /\ site.detached) => alive = {}
    BY <2>1 DEF OneSideAtATime
  <2>3. /\ Keeps /\ JudgeShape'
        /\ \A u \in Units, s \in Sides :
              s # side => judge'[u].result[s] = judge[u].result[s]
    <3>1. CASE site.docker
      BY <1>4, <2>1, <3>1, PollKeeps DEF EndSide
    <3>2. CASE ~site.docker
      BY <1>4, <3>2 DEF EndSide, Keeps, TypeOK, JudgeShape
    <3>. QED BY <3>1, <3>2
  <2>4. OneSideAtATime'
    BY <2>1, <2>2 DEF OneSideAtATime
  <2>5. TypeOK' /\ NothingYet' /\ MergedOnce'
    BY <2>1, <2>3 DEF TypeOK, NothingYet, None, MergedOnce, Phases, Sides
  <2>. QED BY <2>1, <2>3, <2>4, <2>5
<1>5. CASE Score
  BY <1>5 DEF Score, runners, clips, TypeOK, JudgeShape, OneSideAtATime,
              NothingYet, None, MergedOnce, Phases, Keeps, Current
<1>6. CASE Poll
  <2>1. /\ UNCHANGED <<site, run, side, phase, alive, left>>
        /\ site.docker /\ phase = "evaluating" /\ PollLines
    BY <1>6 DEF Poll, runners
  <2>2. /\ Keeps /\ JudgeShape'
        /\ \A u \in Units, s \in Sides :
              s # side => judge'[u].result[s] = judge[u].result[s]
        /\ \A u \in Units : judge'[u].result[side] # "none" => u \in seen'
    BY <2>1, PollKeeps
  <2>3. OneSideAtATime'
    BY <2>1 DEF OneSideAtATime, Current
  <2>4. TypeOK' /\ NothingYet' /\ MergedOnce'
    BY <2>1, <2>2 DEF TypeOK, NothingYet, None, MergedOnce, Phases, Sides
  <2>. QED BY <2>2, <2>3, <2>4
<1>7. CASE Crash
  <2>1. /\ UNCHANGED <<site, run, side, judge, left>> /\ phase' = "off"
        /\ alive' = alive \ {Current} \/ (site.docker /\ site.detached)
    BY <1>7 DEF Crash, clips
  <2>. QED BY <2>1 DEF TypeOK, JudgeShape, OneSideAtATime, NothingYet, None,
                  MergedOnce, Phases, Keeps, Current
<1>8. ASSUME NEW r \in Runners, RunUnit(r) PROVE IInv' /\ Keeps
  BY <1>8, RunKeeps
<1>9. ASSUME NEW r \in Runners, RunnerEnds(r) \/ RunnerFails(r)
      PROVE IInv' /\ Keeps
  <2>1. /\ UNCHANGED <<site, run, side, phase, judge, left, seen>>
        /\ alive' = alive \ {r}
    BY <1>9 DEF RunnerEnds, RunnerFails, clips
  <2>. QED BY <2>1 DEF TypeOK, JudgeShape, OneSideAtATime, NothingYet, None,
                  MergedOnce, Phases, Keeps, Current
<1>10. CASE UNCHANGED vars
  BY <1>10 DEF vars, runners, clips, TypeOK, JudgeShape, OneSideAtATime,
               NothingYet, None, MergedOnce, Keeps, Current
<1>. QED BY <1>1, <1>2, <1>3, <1>4, <1>5, <1>6, <1>7, <1>8, <1>9, <1>10
         DEF Next, Orchestrate, RunnerStep

(* Nothing is merged twice in a run: not the lines that a poll has seen,   *)
(* not what an older container appends behind them (_poll_side), and in    *)
(* the orchestrator's process no unit runs twice.                          *)
THEOREM MergedOnceInv == Spec => []IInv
<1>1. IInv /\ [Next]_vars => IInv'
  BY StepIInv
<1>. QED BY InitIInv, <1>1, PTL DEF Spec

(* The result of a side on a unit does not change once it was merged, also *)
(* when two containers have run the unit and disagree (_merge).            *)
THEOREM StableVerdicts == Spec => VerdictStable
<1>1. IInv /\ [Next]_vars =>
        [run' = run => \A u \in Units, s \in Sides :
           judge[u].result[s] # "none" =>
              judge'[u].result[s] = judge[u].result[s]]_vars
  BY StepIInv DEF Keeps
<1>. QED BY MergedOnceInv, <1>1, PTL DEF Spec, VerdictStable
-----------------------------------------------------------------------------
(* A unit with a line has a last one (read_results).                       *)
LEMMA LastLine ==
    ASSUME NEW lines \in Seq(Line), NEW u, NEW i \in DOMAIN lines, lines[i].unit = u
    PROVE  Last(lines, u) \in Line
<1>. DEFINE T == {n \in Nat : /\ Len(lines) - n \in DOMAIN lines
                              /\ lines[Len(lines) - n].unit = u}
        Less == OpToRel(<, Nat)
<1>1. Len(lines) - i \in T
  OBVIOUS
<1>2. \A m, n \in Nat : m < n => <<m, n>> \in Less
  BY DEF OpToRel
<1>3. PICK n \in T : \A m \in T : n <= m
  <2>1. IsWellFoundedOn(Less, Nat)
    BY NatLessThanWellFounded
  <2>2. T \subseteq Nat
    OBVIOUS
  <2>. HIDE DEF Less, T
  <2>3. PICK n \in T : \A m \in T : ~ (<<m, n>> \in Less)
    BY <1>1, <2>1, <2>2, WFMin
  <2>4. \A m \in T : ~ (m < n)
    BY <1>2, <2>2, <2>3
  <2>. QED BY <2>2, <2>4
<1>4. \A j \in DOMAIN lines : lines[j].unit = u => j <= Len(lines) - n
  <2>. TAKE j \in DOMAIN lines
  <2>1. lines[j].unit = u => Len(lines) - j \in T
    OBVIOUS
  <2>. QED BY <1>3, <2>1
<1>5. \E k \in DOMAIN lines :
         /\ lines[k].unit = u
         /\ \A j \in DOMAIN lines : lines[j].unit = u => j <= k
  BY <1>4
<1>. QED BY <1>5 DEF Last
-----------------------------------------------------------------------------
(* That a published duel has judged every unit.                            *)
IsJudged(u, s) == judge[u].void \/ judge[u].result[s] # "none"

(* What LostByResuming says of one side.                                   *)
Missed(u, s) ==
    /\ run > 1
    /\ site.docker => site.tears /\ (site.detached \/ u \notin Done(s))

FileType == file \in [Sides -> [lines : Seq(Line), torn : BOOLEAN]]
Blank(s) == file[s].lines = <<>> /\ ~file[s].torn

RunBounds == run <= MaxRuns /\ (phase # "off" => run >= 1)
TornOnly == ~site.tears => \A s \in Sides : ~file[s].torn

(* The first run resumes nothing and appends to no torn tail.              *)
FirstRun ==
    /\ run = 0 => alive = {} /\ side = "challenger" /\ Blank("challenger")
    /\ run <= 1 =>
         /\ alive \subseteq {Current}
         /\ alive # {} => phase \in {"evaluating", "off"}
         /\ phase \in {"preparing", "ready"} => Blank(side)
         /\ side = "challenger" => Blank("king")
         /\ phase = "evaluating" /\ Current \in alive => ~file[side].torn

(* A unit that is left out has a line, and a side has run what it had to.  *)
Covered ==
    phase = "evaluating" =>
        /\ \A u \in Units : \/ u \in Done(side) \cup left[Current]
                            \/ run > 1 /\ site.tears
        /\ Current \notin alive \cup failed => left[Current] = {}

(* What was merged of the side is judged.                                  *)
MergedIsJudged ==
    phase = "evaluating" =>
        \A u \in Units :
            IF site.docker THEN u \in seen => IsJudged(u, side)
            ELSE run > 1 \/ u \in left[Current] \/ IsJudged(u, side)

Over(s) == \/ phase \in {"scoring", "done"}
           \/ s = "challenger" /\ side = "king" /\ phase \in {"ready", "evaluating"}
SidesJudged ==
    \A s \in Sides : Over(s) => \A u \in Units : IsJudged(u, s) \/ Missed(u, s)

JudgedInv == /\ IInv /\ FileType /\ RunBounds /\ TornOnly /\ FirstRun
             /\ Covered /\ MergedIsJudged /\ SidesJudged

VoidsStay == \A u \in Units : judge[u].void => judge'[u].void

(* The bound on the runs is a number.                                    *)
LEMMA Constants == MaxRuns \in Nat
BY LimitsAssumption

(* A merged line judges the unit, and no unit ceases to be void.           *)
LEMMA MergeJudges ==
    ASSUME NEW v, HasResults(v), NEW s \in Sides, NEW l \in Line
    PROVE  /\ v.void => Merge(v, s, l).void
           /\ Merge(v, s, l).void \/ Merge(v, s, l).result[s] # "none"
<1>1. CASE l.result = "void"
  <2>1. Merge(v, s, l) = [void |-> TRUE, result |-> [v.result EXCEPT ![s] = "none"]]
    BY <1>1 DEF Merge, HasResults
  <2>. QED BY <2>1
<1>2. CASE l.result # "void"
  <2>1. Merge(v, s, l) = [void |-> v.void, result |-> [v.result EXCEPT ![s] = l.result]]
    BY <1>2 DEF Merge, HasResults
  <2>2. l.result \in {"success", "fail"}
    BY <1>2 DEF Line
  <2>3. Merge(v, s, l).result[s] = l.result
    BY <2>1 DEF HasResults
  <2>. QED BY <2>1, <2>2, <2>3
<1>. QED BY <1>1, <1>2

(* What a file says of a unit is one of its lines.                       *)
LEMMA ResultType ==
    ASSUME FileType, NEW s \in Sides, NEW u \in Done(s)
    PROVE  Result(s, u) \in Line
<1>1. file[s].lines \in Seq(Line)
  BY DEF FileType
<1>2. PICK i \in DOMAIN file[s].lines : file[s].lines[i].unit = u
  BY DEF Done, DoneIn
<1>. QED BY <1>1, <1>2, LastLine DEF Result

(* After a poll every unit with a line is judged.                          *)
LEMMA PollJudges ==
    ASSUME JudgedInv, site.docker, phase = "evaluating", PollLines
    PROVE  /\ VoidsStay
           /\ \A u \in Units : u \in seen' =>
                 judge'[u].void \/ judge'[u].result[side] # "none"
           /\ Done(side) \subseteq seen'
<1>. side \in Sides /\ \A u \in Units : HasResults(judge[u])
  BY DEF JudgedInv, IInv, TypeOK, JudgeShape
<1>1. \A u \in Units : judge'[u] = IF u \in Done(side) \ seen
                                    THEN Merge(judge[u], side, Result(side, u))
                                    ELSE judge[u]
  BY DEF PollLines
<1>2. \A u \in Done(side) : Result(side, u) \in Line
  BY ResultType DEF JudgedInv
<1>3. \A u \in Units : u \in seen => judge[u].void \/ judge[u].result[side] # "none"
  BY DEF JudgedInv, MergedIsJudged, IsJudged
<1>. QED BY <1>1, <1>2, <1>3, MergeJudges DEF VoidsStay, PollLines

(* What a runner's line does to its file.                                  *)
LEMMA Appended ==
    ASSUME JudgedInv, NEW r \in Runners, RunUnit(r)
    PROVE  \E u \in left[r], l \in Line :
             /\ left' = [left EXCEPT ![r] = @ \ {u}]
             /\ IF site.docker THEN UNCHANGED judge
                ELSE judge' = [judge EXCEPT ![u] = Merge(@, side, l)]
             /\ FileType' /\ ~file'[r[2]].torn
             /\ \A s \in Sides : s # r[2] => file'[s] = file[s]
             /\ \A s \in Sides : Done(s) \subseteq Done(s)'
             /\ file[r[2]].torn \/ u \in Done(r[2])'
<1>1. PICK u \in left[r] : \E l \in {k \in Lines : k.unit = u} :
         /\ file' = [file EXCEPT ![r[2]] = AppendTo(@, l)]
         /\ left' = [left EXCEPT ![r] = @ \ {u}]
         /\ IF site.docker THEN UNCHANGED judge
            ELSE judge' = [judge EXCEPT ![u] = Merge(@, side, l)]
  BY DEF RunUnit, clips
<1>2. PICK l \in Line :
         /\ l.unit = u
         /\ file' = [file EXCEPT ![r[2]] = AppendTo(@, l)]
         /\ left' = [left EXCEPT ![r] = @ \ {u}]
         /\ IF site.docker THEN UNCHANGED judge
            ELSE judge' = [judge EXCEPT ![u] = Merge(@, side, l)]
  BY <1>1 DEF Lines
<1>3. r[2] \in Sides /\ file \in [Sides -> [lines : Seq(Line), torn : BOOLEAN]]
  BY DEF Runners, JudgedInv, FileType
<1>. DEFINE f == file[r[2]]
<1>4. f.lines \in Seq(Line) /\ f = [lines |-> f.lines, torn |-> f.torn]
  BY <1>3
<1>5. /\ file'[r[2]] = AppendTo(f, l)
      /\ \A s \in Sides : s # r[2] => file'[s] = file[s]
      /\ file' = [s \in Sides |-> file'[s]]
  BY <1>2, <1>3
<1>6. /\ AppendTo(f, l) \in [lines : Seq(Line), torn : BOOLEAN]
      /\ ~AppendTo(f, l).torn
      /\ DoneIn(f) \subseteq DoneIn(AppendTo(f, l))
      /\ f.torn \/ u \in DoneIn(AppendTo(f, l))
  <2>1. CASE f.torn
    <3>1. AppendTo(f, l) = [lines |-> f.lines, torn |-> FALSE]
      BY <1>4, <2>1 DEF AppendTo
    <3>. QED BY <1>4, <2>1, <3>1 DEF DoneIn
  <2>2. CASE ~f.torn
    <3>1. AppendTo(f, l) = [lines |-> Append(f.lines, l), torn |-> FALSE]
      <4>1. f.torn = FALSE
        BY <1>3, <2>2
      <4>. QED BY <1>4, <4>1 DEF AppendTo
    <3>2. Append(f.lines, l) \in Seq(Line)
      BY <1>2, <1>4
    <3>3. /\ Append(f.lines, l)[Len(f.lines) + 1] = l
          /\ Len(f.lines) + 1 \in DOMAIN Append(f.lines, l)
          /\ \A i \in DOMAIN f.lines : /\ i \in DOMAIN Append(f.lines, l)
                                       /\ Append(f.lines, l)[i] = f.lines[i]
      BY <1>2, <1>4
    <3>4. DoneIn(f) \subseteq DoneIn(AppendTo(f, l)) /\ u \in DoneIn(AppendTo(f, l))
      BY <1>2, <3>1, <3>3 DEF DoneIn
    <3>5. AppendTo(f, l) \in [lines : Seq(Line), torn : BOOLEAN]
      BY <3>1, <3>2
    <3>6. ~AppendTo(f, l).torn
      BY <3>1
    <3>. QED BY <3>4, <3>5, <3>6
  <2>. QED BY <2>1, <2>2
<1>7. FileType'
  BY <1>3, <1>5, <1>6 DEF FileType
<1>8. ASSUME NEW s \in Sides PROVE Done(s) \subseteq Done(s)'
  <2>1. CASE s = r[2]
    <3>1. file'[s] = AppendTo(f, l)
      BY <1>5, <2>1
    <3>2. Done(s)' = DoneIn(file'[s])
      BY DEF Done, DoneIn
    <3>. QED BY <1>6, <2>1, <3>1, <3>2 DEF Done
  <2>2. CASE s # r[2]
    BY <1>5, <2>2 DEF Done, DoneIn
  <2>. QED BY <2>1, <2>2
<1>9. file[r[2]].torn \/ u \in Done(r[2])'
  BY <1>5, <1>6 DEF Done, DoneIn
<1>10. ~file'[r[2]].torn
  BY <1>5, <1>6
<1>. HIDE DEF f
<1>. QED BY <1>2, <1>5, <1>7, <1>8, <1>9, <1>10
(* A duel begins with nothing judged.                                    *)
LEMMA InitJudged == Init => JudgedInv
<1>. SUFFICES ASSUME Init PROVE JudgedInv
  OBVIOUS
<1>1. /\ run = 0 /\ phase = "off" /\ side = "challenger" /\ alive = {}
      /\ file = [s \in Sides |-> [lines |-> <<>>, torn |-> FALSE]]
  BY DEF Init
<1>2. FileType /\ \A s \in Sides : Blank(s)
  BY <1>1 DEF FileType, Blank
<1>3. RunBounds
  BY <1>1, Constants DEF RunBounds
<1>. QED BY <1>1, <1>2, <1>3, InitIInv DEF JudgedInv, TornOnly, FirstRun, Blank,
             Covered, MergedIsJudged, SidesJudged, Over, Sides

(* What is judged stays so in a run, and what a side has missed too.       *)
LEMMA SidesStay ==
    ASSUME JudgedInv, [Next]_vars, run' = run, site' = site, VoidsStay,
           NEW s \in Sides, Over(s), UNCHANGED file
    PROVE  \A u \in Units : (IsJudged(u, s) \/ Missed(u, s))'
<1>1. Keeps
  BY StepIInv DEF JudgedInv
<1>2. \A u \in Units : IsJudged(u, s) \/ Missed(u, s)
  BY DEF JudgedInv, SidesJudged
<1>. QED BY <1>1, <1>2 DEF Keeps, VoidsStay, IsJudged, Missed, Done, DoneIn

(* A line changes the judgement of no side that is over.                   *)
LEMMA RunJudged ==
    ASSUME JudgedInv, [Next]_vars, NEW r \in Runners, RunUnit(r)
    PROVE  JudgedInv'
<1>1. PICK u \in left[r], l \in Line :
         /\ left' = [left EXCEPT ![r] = @ \ {u}]
         /\ IF site.docker THEN UNCHANGED judge
            ELSE judge' = [judge EXCEPT ![u] = Merge(@, side, l)]
         /\ FileType' /\ ~file'[r[2]].torn
         /\ \A s \in Sides : s # r[2] => file'[s] = file[s]
         /\ \A s \in Sides : Done(s) \subseteq Done(s)'
         /\ file[r[2]].torn \/ u \in Done(r[2])'
  BY Appended
<1>2. /\ UNCHANGED <<site, alive, failed, run, phase, side, seen>>
      /\ r \in alive /\ r[2] \in Sides /\ side \in Sides /\ run \in Nat
      /\ IInv' /\ Keeps /\ left \in [Runners -> SUBSET Units]
  BY StepIInv DEF RunUnit, JudgedInv, Runners, IInv, TypeOK
<1>3. VoidsStay /\ (~site.docker => judge'[u].void \/ judge'[u].result[side] # "none")
  <2>1. u \in Units /\ \A v \in Units : HasResults(judge[v])
    BY <1>2 DEF JudgedInv, IInv, TypeOK, JudgeShape
  <2>2. CASE site.docker
    BY <1>1, <2>2 DEF VoidsStay
  <2>3. CASE ~site.docker
    <3>1. \A v \in Units : judge'[v] = IF v = u THEN Merge(judge[u], side, l) ELSE judge[v]
      BY <1>1, <2>3 DEF JudgedInv, IInv, TypeOK, JudgeShape
    <3>. QED BY <1>2, <2>1, <2>3, <3>1, MergeJudges DEF VoidsStay
  <2>. QED BY <2>2, <2>3
<1>4. RunBounds'
  BY <1>2 DEF JudgedInv, RunBounds
<1>5. TornOnly'
  BY <1>1, <1>2 DEF JudgedInv, TornOnly
<1>6. run <= 1 => r = Current /\ run # 0 /\ phase \in {"evaluating", "off"}
  BY <1>2 DEF JudgedInv, FirstRun
<1>7. FirstRun'
  <2>1. run <= 1 => r[2] = side
    BY <1>6 DEF Current
  <2>. QED BY <1>1, <1>2, <1>6, <2>1 DEF JudgedInv, FirstRun, Blank, Current, Sides
<1>8. Covered'
  <2>. SUFFICES ASSUME phase = "evaluating" PROVE Covered'
    BY <1>2 DEF Covered
  <2>1. \A v \in Units : \/ v \in Done(side) \cup left[Current]
                         \/ run > 1 /\ site.tears
    BY DEF JudgedInv, Covered
  <2>2. CASE r = Current
    <3>1. left'[Current] = left[Current] \ {u} /\ r[2] = side
      BY <1>1, <1>2, <2>2 DEF Current
    <3>2. file[side].torn => run > 1 /\ site.tears
      BY <1>2, <2>2, <3>1 DEF JudgedInv, FirstRun, TornOnly
    <3>3. \A v \in Units : \/ v \in Done(side)' \cup left'[Current]
                           \/ run > 1 /\ site.tears
      BY <1>1, <1>2, <2>1, <3>1, <3>2
    <3>. QED BY <1>2, <2>2, <3>3 DEF Covered, Current
  <2>3. CASE r # Current
    <3>1. left'[Current] = left[Current]
      BY <1>1, <1>2, <2>3
    <3>. QED BY <1>1, <1>2, <2>1, <3>1 DEF Covered, Current, JudgedInv
  <2>. QED BY <2>2, <2>3
<1>9. MergedIsJudged'
  <2>. SUFFICES ASSUME phase = "evaluating" PROVE MergedIsJudged'
    BY <1>2 DEF MergedIsJudged
  <2>1. CASE site.docker
    BY <1>1, <1>2, <2>1 DEF JudgedInv, MergedIsJudged, IsJudged
  <2>2. CASE ~site.docker
    <3>1. r = Current
      BY <1>2, <2>2 DEF JudgedInv, IInv, OneSideAtATime
    <3>2. left'[Current] = left[Current] \ {u}
      BY <1>1, <1>2, <3>1
    <3>3. \A v \in Units : run > 1 \/ v \in left'[Current] \/
              judge'[v].void \/ judge'[v].result[side] # "none"
      BY <1>2, <1>3, <2>2, <3>2 DEF JudgedInv, MergedIsJudged, IsJudged, Keeps, VoidsStay
    <3>. QED BY <1>2, <2>2, <3>3 DEF MergedIsJudged, IsJudged, Current
  <2>. QED BY <2>1, <2>2
<1>10. SidesJudged'
  <2>. SUFFICES ASSUME NEW s \in Sides, Over(s)', NEW v \in Units
                PROVE  (IsJudged(v, s) \/ Missed(v, s))'
    BY DEF SidesJudged
  <2>1. Over(s) /\ (IsJudged(v, s) \/ Missed(v, s))
    BY <1>2 DEF Over, JudgedInv, SidesJudged
  <2>2. CASE IsJudged(v, s)
    BY <1>2, <1>3, <2>2 DEF Keeps, VoidsStay, IsJudged
  <2>3. CASE Missed(v, s) /\ (site.docker => site.detached)
    BY <1>2, <2>3 DEF Missed
  <2>4. CASE Missed(v, s) /\ site.docker /\ ~site.detached
    <3>1. r = Current /\ phase = "evaluating"
      BY <1>2, <2>4 DEF JudgedInv, IInv, OneSideAtATime
    <3>2. s # r[2]
      BY <2>1, <3>1 DEF Over, Current
    <3>3. Done(s)' = Done(s)
      BY <1>1, <3>2 DEF Done, DoneIn
    <3>. QED BY <1>2, <2>4, <3>3 DEF Missed
  <2>. QED BY <2>1, <2>2, <2>3, <2>4
<1>. QED BY <1>1, <1>2, <1>4, <1>5, <1>7, <1>8, <1>9, <1>10 DEF JudgedInv

(* No step judges a unit otherwise than its results say.                 *)
LEMMA StepJudged == JudgedInv /\ [Next]_vars => JudgedInv'
<1>. SUFFICES ASSUME JudgedInv, [Next]_vars PROVE JudgedInv'
  OBVIOUS
<1>0. /\ IInv' /\ run \in Nat /\ side \in Sides /\ side' \in Sides
      /\ left \in [Runners -> SUBSET Units]
  BY StepIInv DEF JudgedInv, IInv, TypeOK
<1>1. CASE Begin
  <2>1. /\ run' = run + 1 /\ run < MaxRuns /\ phase' = "preparing"
        /\ side' = "challenger" /\ UNCHANGED <<site, file, alive>>
        /\ phase \in {"off", "done", "failed"}
    BY <1>1 DEF Begin, runners
  <2>2. FirstRun'
    <3>1. run' <= 1 => run = 0
      BY <1>0, <2>1
    <3>. QED BY <2>1, <3>1 DEF JudgedInv, FirstRun, Blank
  <2>. QED BY <1>0, <2>1, <2>2, Constants DEF JudgedInv, FileType, RunBounds, TornOnly,
              Covered, MergedIsJudged, SidesJudged, Over
<1>2. CASE Prepare
  <2>1. /\ UNCHANGED <<site, file, alive, run, side>> /\ phase = "preparing"
        /\ phase' \in {"ready", "failed"} /\ side = "challenger"
    BY <1>2 DEF Prepare, runners, JudgedInv, IInv, NothingYet
  <2>. QED BY <1>0, <2>1 DEF JudgedInv, FileType, RunBounds, TornOnly, FirstRun, Blank,
              Covered, MergedIsJudged, SidesJudged, Over, Current
<1>3. CASE StartSide
  <2>1. /\ UNCHANGED <<site, file, run, side, judge>> /\ phase = "ready"
        /\ phase' = "evaluating" /\ alive' = alive \cup {Current} /\ seen' = {}
        /\ left' = [left EXCEPT ![Current] = Units \ Done(side)]
    BY <1>3 DEF StartSide
  <2>2. Current \in Runners
    BY <1>0, <2>1, Constants DEF Current, Runners, JudgedInv, RunBounds
  <2>3. left'[Current] = Units \ Done(side)
    BY <1>0, <2>1, <2>2
  <2>4. RunBounds' /\ FileType' /\ TornOnly'
    BY <2>1 DEF JudgedInv, RunBounds, FileType, TornOnly
  <2>5. FirstRun'
    <3>1. run <= 1 => alive' \subseteq {Current} /\ ~file[side].torn
      BY <2>1 DEF JudgedInv, FirstRun, Blank
    <3>2. run # 0
      BY <2>1 DEF JudgedInv, RunBounds
    <3>. QED BY <2>1, <3>1, <3>2 DEF JudgedInv, FirstRun, Blank, Current
  <2>6. Covered'
    BY <2>1, <2>3 DEF Covered, Current, Done, DoneIn
  <2>7. MergedIsJudged'
    <3>1. run <= 1 => Done(side) = {}
      <4>1. run <= 1 => file[side].lines = <<>>
        BY <2>1 DEF JudgedInv, FirstRun, Blank
      <4>. QED BY <4>1 DEF Done, DoneIn
    <3>. QED BY <1>0, <2>1, <2>3, <3>1 DEF MergedIsJudged, Current
  <2>8. SidesJudged'
    BY <2>1 DEF JudgedInv, SidesJudged, Over, IsJudged, Missed, Done, DoneIn
  <2>. QED BY <1>0, <2>4, <2>5, <2>6, <2>7, <2>8 DEF JudgedInv
<1>4. CASE EndSide
  <2>1. /\ UNCHANGED <<site, file, alive, failed, left, run>> /\ phase = "evaluating"
        /\ Current \notin alive
        /\ IF site.docker THEN PollLines ELSE UNCHANGED judge
        /\ \/ side' = side /\ phase' = "failed"
           \/ /\ Current \notin failed
              /\ \/ side = "challenger" /\ side' = "king" /\ phase' = "ready"
                 \/ side = "king" /\ side' = "king" /\ phase' = "scoring"
    BY <1>4 DEF EndSide, NextPhase, runners
  <2>2. VoidsStay
    BY <2>1, PollJudges DEF VoidsStay
  <2>3. RunBounds' /\ FileType' /\ TornOnly'
    BY <2>1 DEF JudgedInv, RunBounds, FileType, TornOnly
  <2>4. FirstRun'
    <3>1. run <= 1 => alive = {}
      BY <2>1 DEF JudgedInv, FirstRun
    <3>2. run # 0
      BY <2>1 DEF JudgedInv, RunBounds
    <3>. QED BY <2>1, <3>1, <3>2 DEF JudgedInv, FirstRun, Blank
  <2>5. Covered' /\ MergedIsJudged'
    BY <2>1 DEF Covered, MergedIsJudged
  <2>6. ASSUME Current \notin failed, NEW u \in Units
        PROVE  \/ judge'[u].void \/ judge'[u].result[side] # "none"
               \/ Missed(u, side)
    <3>1. u \in Done(side) \/ (run > 1 /\ site.tears)
      BY <2>1, <2>6 DEF JudgedInv, Covered
    <3>2. CASE site.docker
      BY <2>1, <3>1, <3>2, PollJudges DEF Missed
    <3>3. CASE ~site.docker
      BY <1>0, <2>1, <2>6, <3>3 DEF JudgedInv, Covered, MergedIsJudged, IsJudged, Missed
    <3>. QED BY <3>2, <3>3
  <2>7. SidesJudged'
    <3>. SUFFICES ASSUME NEW s \in Sides, Over(s)'
                  PROVE  \A u \in Units : (IsJudged(u, s) \/ Missed(u, s))'
      BY DEF SidesJudged
    <3>1. CASE s = side
      <4>1. Current \notin failed
        BY <2>1, <3>1 DEF Over
      <4>. QED BY <2>1, <2>6, <3>1, <4>1 DEF IsJudged, Missed, Done, DoneIn
    <3>2. CASE s # side
      <4>1. Over(s)
        BY <2>1, <3>2 DEF Over, Sides
      <4>. QED BY <2>1, <2>2, <4>1, SidesStay
    <3>. QED BY <3>1, <3>2
  <2>. QED BY <1>0, <2>3, <2>4, <2>5, <2>7 DEF JudgedInv
<1>5. CASE Score
  <2>1. /\ UNCHANGED <<site, file, alive, run, side, judge>> /\ phase = "scoring"
        /\ phase' \in {"failed", "done"}
    BY <1>5 DEF Score, runners
  <2>2. SidesJudged'
    BY <2>1 DEF JudgedInv, SidesJudged, Over, IsJudged, Missed, Done, DoneIn
  <2>. QED BY <1>0, <2>1, <2>2 DEF JudgedInv, FileType, RunBounds, TornOnly, FirstRun,
              Blank, Covered, MergedIsJudged, Current
<1>6. CASE Poll
  <2>1. /\ UNCHANGED <<site, file, alive, failed, left, run, phase, side>>
        /\ site.docker /\ phase = "evaluating" /\ PollLines
    BY <1>6 DEF Poll, runners
  <2>2. VoidsStay /\ MergedIsJudged'
    BY <2>1, PollJudges DEF MergedIsJudged, IsJudged
  <2>3. SidesJudged'
    <3>. SUFFICES ASSUME NEW s \in Sides, Over(s)'
                  PROVE  \A u \in Units : (IsJudged(u, s) \/ Missed(u, s))'
      BY DEF SidesJudged
    <3>. QED BY <2>1, <2>2, SidesStay DEF Over
  <2>4. FileType' /\ RunBounds' /\ TornOnly'
    BY <2>1 DEF JudgedInv, FileType, RunBounds, TornOnly
  <2>5. FirstRun'
    BY <2>1 DEF JudgedInv, FirstRun, Blank, Current
  <2>6. Covered'
    BY <2>1 DEF JudgedInv, Covered, Current, Done, DoneIn
  <2>. QED BY <1>0, <2>2, <2>3, <2>4, <2>5, <2>6 DEF JudgedInv
<1>7. CASE Crash
  <2>1. /\ UNCHANGED <<site, file, run, side>> /\ phase' = "off" /\ phase # "off"
        /\ alive' \subseteq alive
    BY <1>7 DEF Crash
  <2>. QED BY <1>0, <2>1 DEF JudgedInv, FileType, RunBounds, TornOnly, FirstRun, Blank,
              Covered, MergedIsJudged, SidesJudged, Over, Current
<1>8. ASSUME NEW r \in Runners, RunUnit(r) PROVE JudgedInv'
  BY <1>8, RunJudged
<1>9. ASSUME NEW r \in Runners, RunnerEnds(r) PROVE JudgedInv'
  <2>1. /\ UNCHANGED <<site, file, failed, left, run, phase, side, seen, judge>>
        /\ alive' = alive \ {r} /\ left[r] = {}
    BY <1>9 DEF RunnerEnds, clips
  <2>2. FileType' /\ RunBounds' /\ TornOnly'
    BY <2>1 DEF JudgedInv, FileType, RunBounds, TornOnly
  <2>3. FirstRun'
    BY <2>1 DEF JudgedInv, FirstRun, Blank, Current
  <2>4. Covered'
    <3>1. phase = "evaluating" /\ Current \notin alive' \cup failed => left[Current] = {}
      BY <2>1 DEF JudgedInv, Covered
    <3>. QED BY <2>1, <3>1 DEF JudgedInv, Covered, Current, Done, DoneIn
  <2>5. MergedIsJudged'
    BY <2>1 DEF JudgedInv, MergedIsJudged, IsJudged, Current
  <2>6. SidesJudged'
    BY <2>1 DEF JudgedInv, SidesJudged, Over, IsJudged, Missed, Done, DoneIn
  <2>. QED BY <1>0, <2>2, <2>3, <2>4, <2>5, <2>6 DEF JudgedInv
<1>10. ASSUME NEW r \in Runners, RunnerFails(r) PROVE JudgedInv'
  <2>1. /\ UNCHANGED <<site, left, run, phase, side, seen, judge>>
        /\ alive' = alive \ {r} /\ failed' = failed \cup {r} /\ r \in alive
        /\ r[2] \in Sides
    BY <1>10 DEF RunnerFails, clips, Runners
  <2>2. /\ FileType' /\ \A s \in Sides : file'[s].lines = file[s].lines
        /\ \A s \in Sides : s # r[2] => file'[s] = file[s]
        /\ ~site.tears => UNCHANGED file
    <3>1. CASE UNCHANGED file
      BY <3>1 DEF JudgedInv, FileType
    <3>2. CASE site.tears /\ file' = [file EXCEPT ![r[2]].torn = TRUE]
      BY <2>1, <3>2 DEF JudgedInv, FileType
    <3>. QED BY <1>10, <3>1, <3>2 DEF RunnerFails
  <2>3. \A s \in Sides : Done(s)' = Done(s)
    BY <2>2 DEF Done, DoneIn
  <2>4. RunBounds' /\ TornOnly'
    BY <2>1, <2>2 DEF JudgedInv, RunBounds, TornOnly
  <2>5. FirstRun'
    <3>1. run <= 1 => r = Current /\ run # 0 /\ phase \in {"evaluating", "off"}
      BY <2>1 DEF JudgedInv, FirstRun
    <3>2. run <= 1 => r[2] = side
      BY <3>1 DEF Current
    <3>. QED BY <1>0, <2>1, <2>2, <3>1, <3>2 DEF JudgedInv, FirstRun, Blank, Current, Sides
  <2>6. Covered' /\ MergedIsJudged'
    BY <1>0, <2>1, <2>3 DEF JudgedInv, Covered, MergedIsJudged, IsJudged, Current
  <2>7. SidesJudged'
    BY <2>1, <2>3 DEF JudgedInv, SidesJudged, Over, IsJudged, Missed
  <2>. QED BY <1>0, <2>2, <2>4, <2>5, <2>6, <2>7 DEF JudgedInv
<1>11. CASE UNCHANGED vars
  <2>1. UNCHANGED <<site, file, alive, failed, left, run, phase, side, seen, judge>>
    BY <1>11 DEF vars, runners
  <2>2. FileType' /\ RunBounds' /\ TornOnly' /\ FirstRun'
    BY <2>1 DEF JudgedInv, FileType, RunBounds, TornOnly, FirstRun, Blank, Current
  <2>3. Covered' /\ MergedIsJudged'
    BY <2>1 DEF JudgedInv, Covered, MergedIsJudged, IsJudged, Current, Done, DoneIn
  <2>4. SidesJudged'
    BY <2>1 DEF JudgedInv, SidesJudged, Over, IsJudged, Missed, Done, DoneIn
  <2>. QED BY <1>0, <2>2, <2>3, <2>4 DEF JudgedInv
<1>. QED BY <1>1, <1>2, <1>3, <1>4, <1>5, <1>6, <1>7, <1>8, <1>9, <1>10, <1>11
         DEF Next, Orchestrate, RunnerStep

(* A duel that is published has judged every unit on both sides or voided  *)
(* it, but for what LostByResuming says (run(), _evaluate_side).           *)
THEOREM UnitsJudged == Spec => []EveryUnitJudged
<1>1. JudgedInv => EveryUnitJudged
  BY DEF JudgedInv, SidesJudged, Over, IsJudged, Missed, EveryUnitJudged, LostByResuming
<1>. QED BY InitJudged, StepJudged, <1>1, PTL DEF Spec
-----------------------------------------------------------------------------
(* That a published duel has stored its clips and refers to them.          *)
Alone == run <= 1 \/ ~(site.docker /\ site.detached)
Clips(s) == {<<s, u>> : u \in {v \in DoneIn(file[s]) : Last(file[s].lines, v).clip}}

(* All that is stored is linked, or the last commit was refused.           *)
LinksKept ==
    /\ linked \subseteq mediadone
    /\ linked = mediadone \/ (site.mirrored /\ refused)

ClipsInv ==
    /\ JudgedInv
    /\ LinksKept
    /\ Alone => \A s \in Sides : Over(s) => Clips(s) \subseteq mediadone

(* Where no older container lives on, only the side that is evaluated      *)
(* gets lines.                                                             *)
LEMMA OnlyCurrent ==
    ASSUME JudgedInv, Alone, NEW r \in alive
    PROVE  r = Current /\ phase \in {"evaluating", "off"}
BY DEF JudgedInv, IInv, OneSideAtATime, FirstRun, Alone

(* A side whose lines stay has the clips it had.                         *)
LEMMA SameClips ==
    ASSUME NEW s \in Sides, file'[s].lines = file[s].lines
    PROVE  Clips(s)' = Clips(s)
BY DEF Clips, DoneIn, Last

(* A flush takes nothing back, and one that must takes all there is.       *)
LEMMA Flushed ==
    ASSUME NEW found, NEW force \in BOOLEAN, Flush(found, force),
           LinksKept, site' = site
    PROVE  /\ mediadone \subseteq mediadone'
           /\ LinksKept'
           /\ force => found \subseteq mediadone'
BY DEF Flush, Due, LinksKept

(* No step leaves a stored clip unlinked, but one that the mirror refuses. *)
LEMMA StepClips == ClipsInv /\ [Next]_vars => ClipsInv'
<1>. SUFFICES ASSUME ClipsInv, [Next]_vars
              PROVE  /\ LinksKept'
                     /\ Alone' => \A s \in Sides : Over(s)' => Clips(s)' \subseteq mediadone'
  BY StepJudged DEF ClipsInv
<1>. JudgedInv /\ side \in Sides /\ site' = site
  BY DEF ClipsInv, JudgedInv, IInv, TypeOK, Next, Begin, Orchestrate, Prepare, StartSide,
     EndSide, Score, Poll, Crash, RunnerStep, RunUnit, RunnerEnds, RunnerFails, vars
<1>1. CASE Begin
  BY <1>1 DEF Begin, Over, ClipsInv, LinksKept
<1>2. CASE Prepare \/ StartSide \/ Score \/ Crash \/ UNCHANGED vars
  <2>1. UNCHANGED <<file, run, linked, mediadone, refused>>
    BY <1>2 DEF Prepare, StartSide, Score, Crash, runners, clips, vars
  <2>2. \A s \in Sides : Over(s)' => Over(s)
    BY <1>2 DEF Prepare, StartSide, Score, Crash, vars, Over, JudgedInv, IInv, NothingYet
  <2>. QED BY <2>1, <2>2, SameClips DEF ClipsInv, LinksKept, Alone
<1>3. CASE EndSide
  <2>1. /\ UNCHANGED <<file, run>> /\ phase = "evaluating"
        /\ \/ phase' = "failed" /\ \/ Flush(Found(side, file[side]), FALSE)
                                    \/ UNCHANGED <<linked, mediadone, refused>>
           \/ /\ Flush(Found(side, file[side]), TRUE)
              /\ \/ side = "challenger" /\ side' = "king" /\ phase' = "ready"
                 \/ side = "king" /\ side' = "king" /\ phase' = "scoring"
                 \/ phase' = "failed"
    BY <1>3 DEF EndSide, NextPhase, runners, clips
  <2>2. /\ mediadone \subseteq mediadone'
        /\ LinksKept'
        /\ phase' # "failed" => Found(side, file[side]) \subseteq mediadone'
    BY <2>1, Flushed DEF ClipsInv, LinksKept
  <2>3. phase' # "failed" => Clips(side) \subseteq mediadone'
    BY <2>2 DEF Found, Clips
  <2>4. \A s \in Sides : Over(s)' => phase' # "failed" /\ (Over(s) \/ s = side)
    BY <2>1 DEF Over, Sides
  <2>. QED BY <2>1, <2>2, <2>3, <2>4, SameClips DEF ClipsInv, Alone
<1>4. CASE Poll
  <2>1. /\ UNCHANGED <<file, run, phase, side>>
        /\ Flush(Found(side, file[side]), FALSE)
    BY <1>4 DEF Poll, runners
  <2>2. mediadone \subseteq mediadone' /\ LinksKept'
    BY <2>1, Flushed DEF ClipsInv, LinksKept
  <2>. QED BY <2>1, <2>2, SameClips DEF ClipsInv, Alone, Over
<1>5. ASSUME NEW r \in Runners, RunUnit(r) \/ RunnerEnds(r) \/ RunnerFails(r)
      PROVE  /\ LinksKept'
             /\ Alone' => \A s \in Sides : Over(s)' => Clips(s)' \subseteq mediadone'
  <2>1. UNCHANGED <<run, phase, side>> /\ r \in alive
    BY <1>5 DEF RunUnit, RunnerEnds, RunnerFails
  <2>2. mediadone \subseteq mediadone' /\ LinksKept'
    <3>1. CASE UNCHANGED <<linked, mediadone, refused>>
      BY <3>1 DEF ClipsInv, LinksKept
    <3>2. CASE Flush(Found(side, file'[side]), FALSE)
      BY <3>2, Flushed DEF ClipsInv
    <3>. QED BY <1>5, <3>1, <3>2 DEF RunUnit, RunnerEnds, RunnerFails, clips
  <2>3. ASSUME Alone', NEW s \in Sides, Over(s)'
        PROVE  Over(s) /\ s # r[2] /\ Alone
    <3>1. Over(s) /\ Alone
      BY <2>1, <2>3 DEF Over, Alone
    <3>2. r = Current /\ phase \in {"evaluating", "off"}
      BY <2>1, <3>1, OnlyCurrent
    <3>. QED BY <3>1, <3>2 DEF Over, Current
  <2>4. \A s \in Sides : s # r[2] => file'[s].lines = file[s].lines
    BY <1>5 DEF RunUnit, RunnerEnds, RunnerFails, JudgedInv, FileType
  <2>. QED BY <2>1, <2>2, <2>3, <2>4, SameClips DEF ClipsInv
<1>. QED BY <1>1, <1>2, <1>3, <1>4, <1>5 DEF Next, Orchestrate, RunnerStep

(* A published duel has stored the clips of its sides, and its units refer *)
(* to all of them, unless the mirror refused the last commit (_flush_media). *)
THEOREM ClipsStored == Spec => []ClipsLinked
<1>1. Init => ClipsInv
  BY InitJudged DEF Init, ClipsInv, LinksKept, Over
<1>2. ClipsInv => ClipsLinked
  BY DEF ClipsInv, LinksKept, ClipsLinked, Over, Alone, Clips, Done, Result, JudgedInv, IInv, TypeOK
<1>. QED BY <1>1, <1>2, StepClips, PTL DEF Spec
-----------------------------------------------------------------------------
(* The limit on void units is what decides whether a duel fails.           *)
LimitInv ==
    /\ units \in [Unit -> UnitVerdict]
    /\ verdict.decided /\ ~verdict.failed => ~TooManyVoid(units)

(* Of products of naturals, the smaller factor gives the smaller one.      *)
LEMMA TimesSmaller ==
    ASSUME NEW a \in Nat, NEW b \in Nat, NEW p \in Nat \ {0}, a < b
    PROVE  a * p < b * p
<1>1. (b - a) * p >= 1
  OBVIOUS
<1>2. (b - a) * p = b * p - a * p
  OBVIOUS
<1>. QED BY <1>1, <1>2

(* A skill whose units are all void is more than the limit tolerates.      *)
LEMMA SkillExceedsLimit ==
    ASSUME NEW us, NEW s \in Skills,
           \A u \in {s} \X (1..PerSkill) : us[u].void
    PROVE  TooManyVoid(us)
<1>. DEFINE own == {s} \X (1..PerSkill)
            share == MaxVoidPercent * Cardinality(Skills)
<1>1. /\ IsFiniteSet(1..PerSkill) /\ Cardinality(1..PerSkill) = PerSkill
      /\ PerSkill \in Nat \ {0}
  BY FS_Interval, SizesAssumption
<1>2. IsFiniteSet({s}) /\ Cardinality({s}) = 1
  BY FS_Singleton
<1>3. Cardinality(own) = PerSkill
  <2>1. Cardinality(own) = Cardinality({s}) * Cardinality(1..PerSkill)
    BY <1>1, <1>2, FS_Product, Zenon
  <2>. QED BY <1>1, <1>2, <2>1
<1>4. IsFiniteSet(Unit) /\ Cardinality(Unit) = Cardinality(Skills) * PerSkill
  BY <1>1, FS_Product, SkillsAssumption DEF Unit
<1>5. /\ IsFiniteSet(VoidUnits(us)) /\ Cardinality(VoidUnits(us)) \in Nat
  BY <1>4, FS_Subset, FS_CardinalityType DEF VoidUnits
<1>6. own \in SUBSET VoidUnits(us)
  BY DEF VoidUnits, Unit
<1>7. PerSkill <= Cardinality(VoidUnits(us))
  BY <1>3, <1>5, <1>6, FS_Subset
<1>8. Cardinality(Skills) \in Nat /\ MaxVoidPercent \in Nat /\ share \in Nat /\ share < 100
  BY FS_CardinalityType, SkillsAssumption, VoidAssumption
<1>9. share * PerSkill < 100 * PerSkill
  BY <1>1, <1>8, TimesSmaller
<1>10. MaxVoidPercent * (Cardinality(Skills) * PerSkill) = share * PerSkill
  BY <1>1, <1>8
<1>. QED BY <1>1, <1>4, <1>5, <1>7, <1>8, <1>9, <1>10 DEF TooManyVoid

(* A side with a result on every unit that counts has every skill, unless  *)
(* there are too many that do not.                                         *)
LEMMA EverySkillPresent ==
    ASSUME NEW us, NEW s,
           ~TooManyVoid(us),
           \A u \in Unit : us[u].void \/ us[u][s] # "none"
    PROVE  Present(us, s) = Skills
<1>1. ASSUME NEW k \in Skills PROVE Scored(us, s, k) # {}
  <2>1. PICK u \in {k} \X (1..PerSkill) : ~us[u].void
    BY SkillExceedsLimit
  <2>2. u \in Unit
    BY DEF Unit
  <2>. QED BY <2>1, <2>2 DEF Scored
<1>. QED BY <1>1 DEF Present

(* "void_fraction > max_void_fraction fails the duel" before a skill can   *)
(* drop out of an average: a duel that stands and has judged its other     *)
(* units compares both sides over all skills.                              *)
THEOREM SkillsScored == ScoreSpec => []EverySkillScored
<1>1. ScoreInit => LimitInv
  BY DEF ScoreInit, LimitInv, Undecided
<1>2. LimitInv /\ [Decide]_<<units, verdict>> => LimitInv'
  <2>. SUFFICES ASSUME LimitInv, [Decide]_<<units, verdict>> PROVE LimitInv'
    OBVIOUS
  <2>1. UNCHANGED units
    BY DEF Decide
  <2>2. TooManyVoid(units)' <=> TooManyVoid(units)
    BY <2>1 DEF TooManyVoid, VoidUnits
  <2>. QED BY <2>1, <2>2 DEF LimitInv, Decide
<1>3. LimitInv => EverySkillScored
  <2>. SUFFICES ASSUME LimitInv, verdict.decided, ~verdict.failed, Judged,
                       NEW s \in Rivals
                PROVE  Present(units, s) = Skills
    BY DEF EverySkillScored
  <2>. QED BY EverySkillPresent DEF LimitInv, Judged
<1>. QED BY <1>1, <1>2, <1>3, PTL DEF ScoreSpec
-----------------------------------------------------------------------------
(* That the averages are compared exactly.  First what the folds over sets *)
(* compute of which they are made.                                         *)

(* Of numbers there is a least one. *)
LEMMA LeastOf ==
    ASSUME NEW S, S \subseteq Nat, S # {}
    PROVE  \E m \in S : \A k \in S : ~(k < m)
<1>. DEFINE R == OpToRel(<, Nat)
<1>1. IsWellFoundedOn(R, Nat)
  BY NatLessThanWellFounded
<1>2. PICK m \in S : \A k \in S : ~(<<k, m>> \in R)
  <2>. HIDE DEF R
  <2>. QED BY <1>1, WFMin
<1>3. \A k \in S : k < m => <<k, m>> \in R
  BY DEF OpToRel
<1>. QED BY <1>2, <1>3

(* The element of a set that a fold takes first, and the others.           *)
Any(T) == CHOOSE x \in T : TRUE
Rest(T) == T \ {Any(T)}

(* What is left when one is taken is smaller.                              *)
LEMMA RestIsSmaller ==
    ASSUME NEW S, IsFiniteSet(S), NEW T \in SUBSET S, T # {}
    PROVE  /\ Any(T) \in T /\ Any(T) \in S /\ Rest(T) \in SUBSET S
           /\ Cardinality(T) \in Nat \ {0}
           /\ Cardinality(Rest(T)) = Cardinality(T) - 1
<1>1. Any(T) \in T
  BY DEF Any
<1>2. IsFiniteSet(T)
  BY FS_Subset
<1>3. Cardinality(T) \in Nat /\ Cardinality(T) # 0
  BY <1>2, FS_CardinalityType, FS_EmptySet
<1>4. Cardinality(Rest(T)) = Cardinality(T) - 1
  BY <1>1, <1>2, FS_RemoveElement DEF Rest
<1>. QED BY <1>1, <1>3, <1>4 DEF Rest

(* Induction over the subsets of a finite set: a family has all of them if *)
(* it has each one from which it has all that lack one element of it.      *)
LEMMA SetInduction ==
    ASSUME NEW S, IsFiniteSet(S), NEW Q,
           \A T \in SUBSET S : (\A x \in T : T \ {x} \in Q) => T \in Q
    PROVE  SUBSET S \subseteq Q
<1>. DEFINE Bad == {n \in Nat : \E T \in SUBSET S : T \notin Q /\ Cardinality(T) = n}
<1>. SUFFICES ASSUME NEW U \in SUBSET S, U \notin Q PROVE FALSE
  OBVIOUS
<1>1. Cardinality(U) \in Bad
  BY FS_Subset, FS_CardinalityType
<1>2. PICK m \in Bad : \A k \in Bad : ~(k < m)
  <2>. Bad \subseteq Nat
    OBVIOUS
  <2>. HIDE DEF Bad
  <2>. QED BY <1>1, LeastOf
<1>3. PICK T \in SUBSET S : T \notin Q /\ Cardinality(T) = m
  BY <1>2
<1>4. PICK x \in T : T \ {x} \notin Q
  BY <1>3
<1>5. IsFiniteSet(T) /\ Cardinality(T \ {x}) = m - 1
  BY <1>3, FS_Subset, FS_RemoveElement
<1>6. m - 1 \in Nat
  BY <1>5, FS_Subset, FS_CardinalityType
<1>7. m - 1 \in Bad /\ m - 1 < m
  BY <1>4, <1>5, <1>6
<1>. QED BY <1>2, <1>7

(* h folds step over the sets of a family, in the order in which the       *)
(* community modules fold; and the subsets of at most n elements.          *)
FoldsOver(h, F, step, base) ==
    /\ h \in [F -> Nat]
    /\ \A T \in F : h[T] = IF T = {} THEN base ELSE step[Any(T)][h[Rest(T)]]

Small(S, n) == {T \in SUBSET S : Cardinality(T) <= n}

(* A fold of the smaller sets can be continued.                            *)
LEMMA FoldLarger ==
    ASSUME NEW S, IsFiniteSet(S), NEW step \in [S -> [Nat -> Nat]], NEW base \in Nat,
           NEW n \in Nat, NEW h, FoldsOver(h, Small(S, n), step, base)
    PROVE  \E g : FoldsOver(g, Small(S, n + 1), step, base)
<1>. DEFINE g == [T \in Small(S, n + 1) |->
                    IF T = {} THEN base ELSE step[Any(T)][h[Rest(T)]]]
<1>1. ASSUME NEW T \in Small(S, n + 1), T # {}
      PROVE  Rest(T) \in Small(S, n) /\ Rest(T) \in Small(S, n + 1) /\ Any(T) \in S
  BY <1>1, RestIsSmaller DEF Small
<1>2. g \in [Small(S, n + 1) -> Nat]
  <2>1. ASSUME NEW T \in Small(S, n + 1), T # {}
        PROVE  step[Any(T)][h[Rest(T)]] \in Nat
    BY <2>1, <1>1 DEF FoldsOver
  <2>. QED BY <2>1
<1>3. ASSUME NEW T \in Small(S, n + 1), T # {}
      PROVE  g[Rest(T)] = h[Rest(T)]
  BY <1>1, <1>3 DEF FoldsOver
<1>4. FoldsOver(g, Small(S, n + 1), step, base)
  BY <1>2, <1>3 DEF FoldsOver
<1>. QED BY <1>4

(* Every finite set can be folded.                                         *)
LEMMA FoldExists ==
    ASSUME NEW S, IsFiniteSet(S), NEW step \in [S -> [Nat -> Nat]], NEW base \in Nat
    PROVE  \E h : FoldsOver(h, SUBSET S, step, base)
<1>. DEFINE Bad == {n \in Nat : ~ \E h : FoldsOver(h, Small(S, n), step, base)}
<1>1. Bad = {}
  <2>. SUFFICES ASSUME Bad # {} PROVE FALSE
    OBVIOUS
  <2>1. PICK m \in Bad : \A k \in Bad : ~(k < m)
    <3>. Bad \subseteq Nat
      OBVIOUS
    <3>. HIDE DEF Bad
    <3>. QED BY LeastOf
  <2>2. m # 0
    <3>1. Small(S, 0) = {{}}
      <4>1. ASSUME NEW T \in SUBSET S PROVE Cardinality(T) <= 0 <=> T = {}
        BY FS_Subset, FS_CardinalityType, FS_EmptySet
      <4>. QED BY <4>1 DEF Small
    <3>2. FoldsOver([T \in {{}} |-> base], {{}}, step, base)
      BY DEF FoldsOver
    <3>. QED BY <3>1, <3>2
  <2>3. m - 1 \in Nat /\ m - 1 \notin Bad /\ m = (m - 1) + 1
    BY <2>1, <2>2
  <2>4. PICK h : FoldsOver(h, Small(S, m - 1), step, base)
    BY <2>3
  <2>. QED BY <2>1, <2>3, <2>4, FoldLarger
<1>2. Cardinality(S) \in Nat /\ Small(S, Cardinality(S)) = SUBSET S
  BY FS_Subset, FS_CardinalityType DEF Small
<1>3. ASSUME NEW n \in Nat PROVE \E h : FoldsOver(h, Small(S, n), step, base)
  BY <1>1, Zenon
<1>4. \E h : FoldsOver(h, Small(S, Cardinality(S)), step, base)
  BY <1>2, <1>3, Zenon
<1>. QED BY <1>2, <1>4, Zenon

(* Where two steps commute the order in which a fold takes the elements    *)
(* does not matter: any of them may be the first.                          *)
Commutes(step, S) ==
    \A x \in S, y \in S, v \in Nat : step[x][step[y][v]] = step[y][step[x][v]]

AnyOrder(h, step, S) ==
    \A T \in SUBSET S : \A x \in T : h[T] = step[x][h[T \ {x}]]

(* So any element can be the last step.                                    *)
LEMMA FoldAnyOrder ==
    ASSUME NEW S, IsFiniteSet(S), NEW step \in [S -> [Nat -> Nat]], NEW base \in Nat,
           Commutes(step, S), NEW h, FoldsOver(h, SUBSET S, step, base)
    PROVE  AnyOrder(h, step, S)
<1>. DEFINE Good(T) == \A x \in T : h[T] = step[x][h[T \ {x}]]
            Q == {T \in SUBSET S : Good(T)}
<1>1. ASSUME NEW T \in SUBSET S, \A x \in T : T \ {x} \in Q, NEW x \in T
      PROVE  h[T] = step[x][h[T \ {x}]]
  <2>. DEFINE c == Any(T)  
  <2>1. c \in T /\ Rest(T) = T \ {c}
    BY RestIsSmaller DEF Rest
  <2>2. h[T] = step[c][h[T \ {c}]]
    BY <2>1 DEF FoldsOver
  <2>. HIDE DEF c
  <2>3. CASE x = c
    BY <2>2, <2>3
  <2>4. CASE x # c
    <3>. DEFINE w == (T \ {c}) \ {x}
    <3>1. w = (T \ {x}) \ {c} /\ w \in SUBSET S
      BY <2>4
    <3>2. h[w] \in Nat
      BY <3>1 DEF FoldsOver
    <3>3. h[T \ {c}] = step[x][h[w]]
      BY <1>1, <2>1, <2>4
    <3>4. h[T \ {x}] = step[c][h[w]]
      BY <1>1, <2>1, <2>4, <3>1
    <3>. HIDE DEF w
    <3>. QED BY <2>1, <2>2, <3>2, <3>3, <3>4 DEF Commutes
  <2>. QED BY <2>3, <2>4
<1>2. SUBSET S \subseteq Q
  <2>1. \A T \in SUBSET S : (\A x \in T : T \ {x} \in Q) => T \in Q
    BY <1>1
  <2>. HIDE DEF Q
  <2>. QED BY <2>1, SetInduction
<1>. QED BY <1>2 DEF AnyOrder

(* The sums and products that the averages are made of, with a function    *)
(* where the community modules have an operator.                           *)
PlusStep(w, S) == [x \in S |-> [v \in Nat |-> w[x] + v]]
TimesStep(w, S) == [x \in S |-> [v \in Nat |-> w[x] * v]]
SumBody(g, w, T) ==
    IF T = {} THEN 0 ELSE LET x == CHOOSE y \in T : TRUE IN w[x] + g[T \ {x}]
ProductBody(g, w, T) ==
    IF T = {} THEN 1 ELSE LET x == CHOOSE y \in T : TRUE IN w[x] * g[T \ {x}]
SumFold(w, S) == CHOOSE g : g = [T \in SUBSET S |-> SumBody(g, w, T)]
ProductFold(w, S) == CHOOSE g : g = [T \in SUBSET S |-> ProductBody(g, w, T)]
SumOf(w, S) == SumFold(w, S)[S]
ProductOf(w, S) == ProductFold(w, S)[S]

(* They are folds: the recursive function that defines them exists.        *)
LEMMA SumFolds ==
    ASSUME NEW S, IsFiniteSet(S), NEW w \in [S -> Nat]
    PROVE  FoldsOver(SumFold(w, S), SUBSET S, PlusStep(w, S), 0)
<1>. DEFINE F == SumFold(w, S)
<1>1. PlusStep(w, S) \in [S -> [Nat -> Nat]]
  BY DEF PlusStep
<1>2. PICK h : FoldsOver(h, SUBSET S, PlusStep(w, S), 0)
  BY <1>1, FoldExists
<1>3. ASSUME NEW T \in SUBSET S, T # {}
      PROVE  Any(T) \in S /\ Rest(T) \in SUBSET S
  BY <1>3, RestIsSmaller
<1>4. h = [T \in SUBSET S |-> SumBody(h, w, T)]
  <2>1. h = [T \in SUBSET S |-> h[T]]
    BY <1>2 DEF FoldsOver
  <2>2. ASSUME NEW T \in SUBSET S PROVE h[T] = SumBody(h, w, T)
    <3>1. CASE T = {}
      BY <1>2, <3>1 DEF FoldsOver, SumBody
    <3>2. CASE T # {}
      <4>1. h[T] = PlusStep(w, S)[Any(T)][h[Rest(T)]] /\ h[Rest(T)] \in Nat
        BY <1>2, <1>3, <3>2 DEF FoldsOver
      <4>2. PlusStep(w, S)[Any(T)][h[Rest(T)]] = w[Any(T)] + h[Rest(T)]
        BY <1>3, <3>2, <4>1 DEF PlusStep
      <4>. QED BY <3>2, <4>1, <4>2 DEF SumBody, Any, Rest
    <3>. QED BY <3>1, <3>2
  <2>. QED BY <2>1, <2>2
<1>5. F = [T \in SUBSET S |-> SumBody(F, w, T)]
  BY <1>4, Zenon DEF SumFold
<1>. HIDE DEF F
<1>6. ASSUME NEW T \in SUBSET S, T # {}
      PROVE  F[T] = w[Any(T)] + F[Rest(T)]
  <2>1. F[T] = SumBody(F, w, T)
    BY <1>5
  <2>. QED BY <1>6, <2>1 DEF SumBody, Any, Rest
<1>7. F[{}] = 0
  BY <1>5 DEF SumBody
<1>8. ASSUME NEW T \in SUBSET S PROVE F[T] \in Nat
  <2>. DEFINE Q == {U \in SUBSET S : F[U] \in Nat}
  <2>1. ASSUME NEW U \in SUBSET S, \A x \in U : U \ {x} \in Q PROVE U \in Q
    <3>1. CASE U = {}
      BY <1>7, <3>1
    <3>2. CASE U # {}
      <4>1. Any(U) \in U /\ Rest(U) \in Q /\ w[Any(U)] \in Nat
        BY <2>1, <3>2, RestIsSmaller DEF Rest
      <4>. QED BY <1>6, <3>2, <4>1
    <3>. QED BY <3>1, <3>2
  <2>2. SUBSET S \subseteq Q
    <3>. HIDE DEF Q
    <3>. QED BY <2>1, SetInduction
  <2>. QED BY <2>2
<1>9. F \in [SUBSET S -> Nat]
  BY <1>5, <1>8
<1>10. ASSUME NEW T \in SUBSET S, T # {}
       PROVE  F[T] = PlusStep(w, S)[Any(T)][F[Rest(T)]]
  <2>1. F[Rest(T)] \in Nat /\ Any(T) \in S
    BY <1>3, <1>8, <1>10
  <2>2. PlusStep(w, S)[Any(T)][F[Rest(T)]] = w[Any(T)] + F[Rest(T)]
    BY <2>1 DEF PlusStep
  <2>. QED BY <1>6, <1>10, <2>2
<1>11. FoldsOver(F, SUBSET S, PlusStep(w, S), 0)
  BY <1>7, <1>9, <1>10 DEF FoldsOver
<1>. QED BY <1>11 DEF F

(* The same of products.                                                   *)
LEMMA ProductFolds ==
    ASSUME NEW S, IsFiniteSet(S), NEW w \in [S -> Nat]
    PROVE  FoldsOver(ProductFold(w, S), SUBSET S, TimesStep(w, S), 1)
<1>. DEFINE F == ProductFold(w, S)
<1>1. TimesStep(w, S) \in [S -> [Nat -> Nat]]
  BY DEF TimesStep
<1>2. PICK h : FoldsOver(h, SUBSET S, TimesStep(w, S), 1)
  BY <1>1, FoldExists
<1>3. ASSUME NEW T \in SUBSET S, T # {}
      PROVE  Any(T) \in S /\ Rest(T) \in SUBSET S
  BY <1>3, RestIsSmaller
<1>4. h = [T \in SUBSET S |-> ProductBody(h, w, T)]
  <2>1. h = [T \in SUBSET S |-> h[T]]
    BY <1>2 DEF FoldsOver
  <2>2. ASSUME NEW T \in SUBSET S PROVE h[T] = ProductBody(h, w, T)
    <3>1. CASE T = {}
      BY <1>2, <3>1 DEF FoldsOver, ProductBody
    <3>2. CASE T # {}
      <4>1. h[T] = TimesStep(w, S)[Any(T)][h[Rest(T)]] /\ h[Rest(T)] \in Nat
        BY <1>2, <1>3, <3>2 DEF FoldsOver
      <4>2. TimesStep(w, S)[Any(T)][h[Rest(T)]] = w[Any(T)] * h[Rest(T)]
        BY <1>3, <3>2, <4>1 DEF TimesStep
      <4>. QED BY <3>2, <4>1, <4>2 DEF ProductBody, Any, Rest
    <3>. QED BY <3>1, <3>2
  <2>. QED BY <2>1, <2>2
<1>5. F = [T \in SUBSET S |-> ProductBody(F, w, T)]
  BY <1>4, Zenon DEF ProductFold
<1>. HIDE DEF F
<1>6. ASSUME NEW T \in SUBSET S, T # {}
      PROVE  F[T] = w[Any(T)] * F[Rest(T)]
  <2>1. F[T] = ProductBody(F, w, T)
    BY <1>5
  <2>. QED BY <1>6, <2>1 DEF ProductBody, Any, Rest
<1>7. F[{}] = 1
  BY <1>5 DEF ProductBody
<1>8. ASSUME NEW T \in SUBSET S PROVE F[T] \in Nat
  <2>. DEFINE Q == {U \in SUBSET S : F[U] \in Nat}
  <2>1. ASSUME NEW U \in SUBSET S, \A x \in U : U \ {x} \in Q PROVE U \in Q
    <3>1. CASE U = {}
      BY <1>7, <3>1
    <3>2. CASE U # {}
      <4>1. Any(U) \in U /\ Rest(U) \in Q /\ w[Any(U)] \in Nat
        BY <2>1, <3>2, RestIsSmaller DEF Rest
      <4>. QED BY <1>6, <3>2, <4>1
    <3>. QED BY <3>1, <3>2
  <2>2. SUBSET S \subseteq Q
    <3>. HIDE DEF Q
    <3>. QED BY <2>1, SetInduction
  <2>. QED BY <2>2
<1>9. F \in [SUBSET S -> Nat]
  BY <1>5, <1>8
<1>10. ASSUME NEW T \in SUBSET S, T # {}
       PROVE  F[T] = TimesStep(w, S)[Any(T)][F[Rest(T)]]
  <2>1. F[Rest(T)] \in Nat /\ Any(T) \in S
    BY <1>3, <1>8, <1>10
  <2>2. TimesStep(w, S)[Any(T)][F[Rest(T)]] = w[Any(T)] * F[Rest(T)]
    BY <2>1 DEF TimesStep
  <2>. QED BY <1>6, <1>10, <2>2
<1>11. FoldsOver(F, SUBSET S, TimesStep(w, S), 1)
  BY <1>7, <1>9, <1>10 DEF FoldsOver
<1>. QED BY <1>11 DEF F

(* A product has each of its factors.                                      *)
LEMMA FactorOf ==
    ASSUME NEW S, IsFiniteSet(S), NEW w \in [S -> Nat \ {0}]
    PROVE  /\ ProductOf(w, S) \in Nat \ {0}
           /\ \A x \in S : \E q \in Nat \ {0} : ProductOf(w, S) = q * w[x]
<1>. DEFINE F == ProductFold(w, S)
<1>1. w \in [S -> Nat]
  OBVIOUS
<1>2. FoldsOver(F, SUBSET S, TimesStep(w, S), 1)
  BY <1>1, ProductFolds
<1>3. TimesStep(w, S) \in [S -> [Nat -> Nat]]
  BY DEF TimesStep
<1>4. Commutes(TimesStep(w, S), S)
  <2>. SUFFICES ASSUME NEW x \in S, NEW y \in S, NEW v \in Nat
                PROVE  TimesStep(w, S)[x][TimesStep(w, S)[y][v]]
                       = TimesStep(w, S)[y][TimesStep(w, S)[x][v]]
    BY DEF Commutes
  <2>1. w[x] \in Nat /\ w[y] \in Nat
    OBVIOUS
  <2>2. v * w[x] \in Nat /\ v * w[y] \in Nat /\ (v * w[y]) * w[x] = (v * w[x]) * w[y]
    BY <2>1
  <2>. QED BY <2>2 DEF TimesStep
<1>5. AnyOrder(F, TimesStep(w, S), S)
  <2>. HIDE DEF F
  <2>. QED BY <1>2, <1>3, <1>4, FoldAnyOrder
<1>. HIDE DEF F
<1>6. ASSUME NEW T \in SUBSET S, NEW x \in T
      PROVE  F[T] = F[T \ {x}] * w[x] /\ F[T \ {x}] \in Nat /\ w[x] \in Nat \ {0}
  <2>1. F[T \ {x}] \in Nat /\ x \in S
    BY <1>2 DEF FoldsOver
  <2>2. F[T] = TimesStep(w, S)[x][F[T \ {x}]]
    BY <1>5 DEF AnyOrder
  <2>3. TimesStep(w, S)[x][F[T \ {x}]] = w[x] * F[T \ {x}] /\ w[x] \in Nat \ {0}
    BY <2>1 DEF TimesStep
  <2>4. w[x] * F[T \ {x}] = F[T \ {x}] * w[x]
    BY <2>1, <2>3
  <2>. QED BY <2>1, <2>2, <2>3, <2>4
<1>7. ASSUME NEW T \in SUBSET S PROVE F[T] \in Nat \ {0}
  <2>. DEFINE Q == {U \in SUBSET S : F[U] \in Nat \ {0}}
  <2>1. ASSUME NEW U \in SUBSET S, \A x \in U : U \ {x} \in Q PROVE U \in Q
    <3>1. CASE U = {}
      BY <1>2, <3>1 DEF FoldsOver
    <3>2. CASE U # {}
      <4>1. PICK x \in U : TRUE
        BY <3>2
      <4>2. F[U \ {x}] \in Nat \ {0}
        BY <2>1
      <4>3. F[U \ {x}] * w[x] \in Nat \ {0}
        BY <1>6, <4>2
      <4>. QED BY <1>6, <4>3
    <3>. QED BY <3>1, <3>2
  <2>2. SUBSET S \subseteq Q
    <3>. HIDE DEF Q
    <3>. QED BY <2>1, SetInduction
  <2>. QED BY <2>2
<1>8. F[S] \in Nat \ {0} /\ \A x \in S : \E q \in Nat \ {0} : F[S] = q * w[x]
  BY <1>6, <1>7
<1>. QED BY <1>8 DEF F, ProductOf

(* A product of fewer and smaller factors is smaller.                      *)
LEMMA SmallerProduct ==
    ASSUME NEW S, IsFiniteSet(S), NEW P \in SUBSET S, NEW c \in Nat \ {0},
           NEW w \in [P -> Nat \ {0}], \A x \in P : w[x] <= c
    PROVE  ProductOf(w, P) <= ProductOf([x \in S |-> c], S)
<1>. DEFINE k == [x \in S |-> c]
            F == ProductFold(w, P)
            G == ProductFold(k, S)
<1>1. FoldsOver(F, SUBSET P, TimesStep(w, P), 1)
  <2>1. IsFiniteSet(P) /\ w \in [P -> Nat]
    BY FS_Subset
  <2>. QED BY <2>1, ProductFolds
<1>2. FoldsOver(G, SUBSET S, TimesStep(k, S), 1)
  <2>1. k \in [S -> Nat]
    OBVIOUS
  <2>. QED BY <2>1, ProductFolds
<1>3. \A x \in S : k[x] = c
  OBVIOUS
<1>4. TimesStep(k, S) \in [S -> [Nat -> Nat]] /\ Commutes(TimesStep(k, S), S)
  BY DEF TimesStep, Commutes
<1>. HIDE DEF F, G, k
<1>5. ASSUME NEW T \in SUBSET S, NEW x \in T
      PROVE  G[T] = G[T \ {x}] * c /\ G[T \ {x}] \in Nat
  <2>1. AnyOrder(G, TimesStep(k, S), S)
    BY <1>2, <1>4, FoldAnyOrder
  <2>2. G[T \ {x}] \in Nat /\ x \in S
    BY <1>2 DEF FoldsOver
  <2>3. G[T] = TimesStep(k, S)[x][G[T \ {x}]]
    BY <2>1 DEF AnyOrder
  <2>4. TimesStep(k, S)[x][G[T \ {x}]] = k[x] * G[T \ {x}]
    BY <2>2 DEF TimesStep
  <2>5. c * G[T \ {x}] = G[T \ {x}] * c
    BY <2>2
  <2>. QED BY <1>3, <2>2, <2>3, <2>4, <2>5
<1>6. ASSUME NEW a \in Nat PROVE a <= a * c
  BY <1>6
<1>7. P \in {T \in SUBSET S : \A U \in SUBSET T : G[U] <= G[T]} /\ G[P] <= G[S]
  <2>. DEFINE Q == {T \in SUBSET S : \A U \in SUBSET T : G[U] <= G[T]}
  <2>1. ASSUME NEW T \in SUBSET S, \A x \in T : T \ {x} \in Q, NEW U \in SUBSET T
        PROVE  G[U] <= G[T]
    <3>1. CASE U = T
      <4>1. G[T] \in Nat
        BY <1>2 DEF FoldsOver
      <4>. QED BY <3>1, <4>1
    <3>2. CASE U # T
      <4>1. PICK x \in T : x \notin U
        BY <3>2
      <4>2. U \in SUBSET (T \ {x}) /\ T \ {x} \in Q
        BY <2>1, <4>1
      <4>3. G[U] <= G[T \ {x}]
        BY <4>2
      <4>4. G[T \ {x}] <= G[T] /\ G[T \ {x}] \in Nat /\ G[T] \in Nat /\ G[U] \in Nat
        BY <1>2, <1>5, <1>6 DEF FoldsOver
      <4>. QED BY <4>3, <4>4
    <3>. QED BY <3>1, <3>2
  <2>2. SUBSET S \subseteq Q
    <3>1. \A T \in SUBSET S : (\A x \in T : T \ {x} \in Q) => T \in Q
      BY <2>1
    <3>. HIDE DEF Q
    <3>. QED BY <3>1, SetInduction
  <2>. QED BY <2>2
<1>8. ASSUME NEW T \in SUBSET P PROVE F[T] <= G[T]
  <2>. DEFINE Q == {U \in SUBSET P : F[U] <= G[U]}
  <2>1. ASSUME NEW U \in SUBSET P, \A x \in U : U \ {x} \in Q PROVE U \in Q
    <3>1. CASE U = {}
      <4>1. F[{}] = 1
        BY <1>1 DEF FoldsOver
      <4>2. G[{}] = 1
        BY <1>2 DEF FoldsOver
      <4>. QED BY <3>1, <4>1, <4>2
    <3>2. CASE U # {}
      <4>. DEFINE x == Any(U)
                  V == Rest(U)
      <4>1. x \in U /\ V = U \ {x} /\ V \in Q
        BY <2>1, <3>2, FS_Subset, RestIsSmaller DEF Rest
      <4>2. F[U] = TimesStep(w, P)[x][F[V]] /\ F[V] \in Nat
        BY <1>1, <3>2, <4>1 DEF FoldsOver
      <4>. HIDE DEF x, V
      <4>3. F[U] = F[V] * w[x] /\ w[x] \in Nat /\ w[x] <= c
        BY <4>1, <4>2 DEF TimesStep
      <4>4. G[U] = G[V] * c /\ G[V] \in Nat
        BY <1>5, <4>1
      <4>5. F[V] * w[x] <= F[V] * c
        BY <4>2, <4>3
      <4>6. F[V] * c <= G[V] * c
        BY <4>1, <4>2, <4>4
      <4>7. F[U] <= G[U]
        <5>1. F[V] * w[x] \in Nat /\ F[V] * c \in Nat /\ G[V] * c \in Nat
          BY <4>2, <4>3, <4>4
        <5>. QED BY <5>1, <4>3, <4>4, <4>5, <4>6
      <4>. QED BY <4>7
    <3>. QED BY <3>1, <3>2
  <2>2. SUBSET P \subseteq Q
    <3>1. IsFiniteSet(P)
      BY FS_Subset
    <3>. HIDE DEF Q
    <3>. QED BY <2>1, <3>1, SetInduction
  <2>. QED BY <2>2
<1>9. F[P] \in Nat /\ G[P] \in Nat /\ G[S] \in Nat
  BY <1>1, <1>2 DEF FoldsOver
<1>10. F[P] <= G[S]
  BY <1>7, <1>8, <1>9
<1>. QED BY <1>10 DEF F, G, k, ProductOf

(* Sums are proportional when their terms are.                             *)
LEMMA SumsProportional ==
    ASSUME NEW S, IsFiniteSet(S), NEW v \in [S -> Nat], NEW w \in [S -> Nat],
           NEW a \in Nat, NEW b \in Nat, \A x \in S : a * v[x] = b * w[x]
    PROVE  /\ SumOf(v, S) \in Nat /\ SumOf(w, S) \in Nat
           /\ a * SumOf(v, S) = b * SumOf(w, S)
<1>. DEFINE F == SumFold(v, S)
            G == SumFold(w, S)
<1>1. FoldsOver(F, SUBSET S, PlusStep(v, S), 0) /\ FoldsOver(G, SUBSET S, PlusStep(w, S), 0)
  BY SumFolds
<1>. HIDE DEF F, G
<1>2. ASSUME NEW T \in SUBSET S, T # {}
      PROVE  /\ F[T] = v[Any(T)] + F[Rest(T)] /\ G[T] = w[Any(T)] + G[Rest(T)]
             /\ F[Rest(T)] \in Nat /\ G[Rest(T)] \in Nat
             /\ Any(T) \in S
  <2>1. F[Rest(T)] \in Nat /\ G[Rest(T)] \in Nat /\ Any(T) \in S
    BY <1>1, <1>2, RestIsSmaller DEF FoldsOver
  <2>. QED BY <1>1, <1>2, <2>1 DEF FoldsOver, PlusStep
<1>3. S \in {T \in SUBSET S : a * F[T] = b * G[T]}
  <2>. DEFINE Q == {T \in SUBSET S : a * F[T] = b * G[T]}
  <2>1. ASSUME NEW T \in SUBSET S, \A x \in T : T \ {x} \in Q PROVE T \in Q
    <3>1. CASE T = {}
      <4>1. F[{}] = 0 /\ G[{}] = 0
        BY <1>1 DEF FoldsOver
      <4>. QED BY <3>1, <4>1
    <3>2. CASE T # {}
      <4>. DEFINE p == v[Any(T)]  q == w[Any(T)]  f == F[Rest(T)]  g == G[Rest(T)]
      <4>1. Rest(T) \in Q
        BY <2>1, <3>2, RestIsSmaller DEF Rest
      <4>2. a * f = b * g /\ a * p = b * q
        BY <1>2, <3>2, <4>1
      <4>3. p \in Nat /\ q \in Nat /\ f \in Nat /\ g \in Nat
        BY <1>2, <3>2
      <4>4. F[T] = p + f /\ G[T] = q + g
        BY <1>2, <3>2
      <4>. HIDE DEF p, q, f, g
      <4>5. a * (p + f) = a * p + a * f /\ b * (q + g) = b * q + b * g
        BY <4>3
      <4>. QED BY <4>2, <4>4, <4>5
    <3>. QED BY <3>1, <3>2
  <2>2. SUBSET S \subseteq Q
    <3>. HIDE DEF Q
    <3>. QED BY <2>1, SetInduction
  <2>. QED BY <2>2
<1>4. F[S] \in Nat /\ G[S] \in Nat
  BY <1>1 DEF FoldsOver
<1>. QED BY <1>3, <1>4 DEF F, G, SumOf

(* The units of each skill that count for a side.                          *)
CountOf(us, who) == [s \in Present(us, who) |-> Cardinality(Scored(us, who, s))]

(* Skills and units are finitely many, and a skill that counts has a unit. *)
LEMMA PresentCounts ==
    ASSUME NEW us, NEW who
    PROVE  /\ IsFiniteSet(Present(us, who)) /\ Present(us, who) \in SUBSET Skills
           /\ Cardinality(Present(us, who)) \in Nat
           /\ Cardinality(Present(us, who)) <= Cardinality(Skills)
           /\ Present(us, who) # {} => Cardinality(Present(us, who)) # 0
           /\ CountOf(us, who) \in [Present(us, who) -> Nat \ {0}]
           /\ \A s \in Present(us, who) :
                 /\ CountOf(us, who)[s] <= PerSkill
                 /\ Cardinality(Succeeded(us, who, s)) \in Nat
<1>1. Present(us, who) \in SUBSET Skills
  BY DEF Present
<1>2. IsFiniteSet(Present(us, who)) /\ Cardinality(Present(us, who)) <= Cardinality(Skills)
  BY <1>1, FS_Subset, SkillsAssumption
<1>3. /\ Cardinality(Present(us, who)) \in Nat
      /\ Present(us, who) # {} => Cardinality(Present(us, who)) # 0
  BY <1>2, FS_CardinalityType, FS_EmptySet
<1>4. ASSUME NEW s \in Present(us, who)
      PROVE  /\ Cardinality(Scored(us, who, s)) \in Nat \ {0}
             /\ Cardinality(Scored(us, who, s)) <= PerSkill
             /\ Cardinality(Succeeded(us, who, s)) \in Nat
  <2>1. IsFiniteSet({s} \X (1..PerSkill)) /\ Cardinality({s} \X (1..PerSkill)) = PerSkill
    <3>1. /\ IsFiniteSet(1..PerSkill) /\ Cardinality(1..PerSkill) = PerSkill
          /\ PerSkill \in Nat \ {0}
      BY FS_Interval, SizesAssumption
    <3>2. IsFiniteSet({s}) /\ Cardinality({s}) = 1
      BY FS_Singleton
    <3>3. /\ IsFiniteSet({s} \X (1..PerSkill))
          /\ Cardinality({s} \X (1..PerSkill)) = Cardinality({s}) * Cardinality(1..PerSkill)
      BY <3>1, <3>2, FS_Product, Zenon
    <3>. QED BY <3>1, <3>2, <3>3
  <2>2. Scored(us, who, s) \in SUBSET ({s} \X (1..PerSkill)) /\ Scored(us, who, s) # {}
    BY DEF Scored, Present
  <2>3. IsFiniteSet(Scored(us, who, s)) /\ Cardinality(Scored(us, who, s)) <= PerSkill
    BY <2>1, <2>2, FS_Subset
  <2>4. Cardinality(Scored(us, who, s)) \in Nat \ {0}
    BY <2>2, <2>3, FS_CardinalityType, FS_EmptySet
  <2>5. IsFiniteSet(Succeeded(us, who, s))
    <3>1. Succeeded(us, who, s) \in SUBSET Scored(us, who, s)
      BY DEF Succeeded
    <3>. QED BY <2>3, <3>1, FS_Subset
  <2>. QED BY <2>3, <2>4, <2>5, FS_CardinalityType
<1>. QED BY <1>1, <1>2, <1>3, <1>4 DEF CountOf

(* What Score computes are such sums and products.                         *)
LEMMA ProductIsFold ==
    \A us, who : Product(us, who) = ProductOf(CountOf(us, who), Present(us, who))
<1>. SUFFICES ASSUME NEW us, NEW who
              PROVE  Product(us, who) = ProductOf(CountOf(us, who), Present(us, who))
  OBVIOUS
<1>. QED BY DEF Product, FoldSet, MapThenFoldSet, ProductOf, ProductFold, ProductBody, CountOf

(* The terms of the numerator.                                             *)
Weight(us, who) ==
    [s \in Present(us, who) |-> Cardinality(Succeeded(us, who, s))
                    * (Product(us, who) \div Cardinality(Scored(us, who, s)))]

(* The numerator is their sum.                                             *)
LEMMA NumeratorIsFold ==
    \A us, who : Numerator(us, who) = SumOf(Weight(us, who), Present(us, who))
<1>. SUFFICES ASSUME NEW us, NEW who
              PROVE  Numerator(us, who) = SumOf(Weight(us, who), Present(us, who))
  OBVIOUS
<1>. QED BY DEF Numerator, MapThenSumSet, MapThenFoldSet, SumOf, SumFold, SumBody, Weight

(* A factorial is the product of the numbers up to n.                      *)
LEMMA FactorialIsFold ==
    ASSUME NEW n \in Nat PROVE Factorial[n] = ProductOf([k \in 1..n |-> k], 1..n)
<1>1. Factorial[n] = ProductSet(1..n)
  BY DEF Factorial
<1>2. ASSUME NEW S PROVE ProductSet(S) = ProductOf([k \in S |-> k], S)
  BY DEF ProductSet, FoldSet, MapThenFoldSet, ProductOf, ProductFold, ProductBody
<1>. QED BY <1>1, <1>2

(* The terms of the mean that ExactMargin compares.                        *)
Rated(who) == {s \in Skills : Counted(who, s) # {}}
Part(who) ==
    [s \in Rated(who) |-> (Scale * Cardinality(Wins(who, s)))
                       \div (Cardinality(Counted(who, s)) * Cardinality(Rated(who)))]

(* The mean is their sum.                                                  *)
LEMMA MeanIsFold == \A who : Mean(who) = SumOf(Part(who), Rated(who))
<1>. SUFFICES ASSUME NEW who PROVE Mean(who) = SumOf(Part(who), Rated(who))
  OBVIOUS
<1>. QED BY DEF Mean, MapThenSumSet, MapThenFoldSet, SumOf, SumFold, SumBody, Part, Rated

(* Dividing a multiple is exact.                                           *)
LEMMA DivExact ==
    ASSUME NEW a \in Nat, NEW m \in Nat \ {0}
    PROVE  (a * m) \div m = a
OBVIOUS

(* A product of four, in two orders.                                       *)
LEMMA Reorder ==
    ASSUME NEW a \in Nat, NEW b \in Nat, NEW c \in Nat, NEW d \in Nat
    PROVE  (a * b) * (c * d) = (a * c) * (b * d)
<1>1. (a * b) * (c * d) = a * (b * (c * d)) /\ b * (c * d) = (b * c) * d
  OBVIOUS
<1>2. (a * c) * (b * d) = a * (c * (b * d)) /\ c * (b * d) = (c * b) * d
  OBVIOUS
<1>3. b * c = c * b
  OBVIOUS
<1>. QED BY <1>1, <1>2, <1>3

(* A factorial is divided by the numbers up to n.                          *)
LEMMA FactorialDivides ==
    ASSUME NEW n \in Nat
    PROVE  /\ Factorial[n] \in Nat \ {0}
           /\ \A k \in 1..n : \E q \in Nat \ {0} : Factorial[n] = q * k
<1>. DEFINE w == [k \in 1..n |-> k]
<1>1. w \in [1..n -> Nat \ {0}] /\ \A k \in 1..n : w[k] = k
  OBVIOUS
<1>2. IsFiniteSet(1..n)
  BY FS_Interval
<1>3. Factorial[n] = ProductOf(w, 1..n)
  BY FactorialIsFold
<1>. HIDE DEF w
<1>4. /\ ProductOf(w, 1..n) \in Nat \ {0}
      /\ \A k \in 1..n : \E q \in Nat \ {0} : ProductOf(w, 1..n) = q * w[k]
  BY <1>1, <1>2, FactorOf
<1>. QED BY <1>1, <1>3, <1>4

(* Scale is divided by each number of units times each number of skills.   *)
LEMMA ScaleDivides ==
    ASSUME NEW c \in 1..PerSkill, NEW r \in 1..Cardinality(Skills)
    PROVE  /\ Scale \in Nat \ {0}
           /\ \E q \in Nat : Scale = q * (c * r)
<1>1. PerSkill \in Nat /\ Cardinality(Skills) \in Nat
  BY SizesAssumption, SkillsAssumption, FS_CardinalityType
<1>. DEFINE f == Factorial[PerSkill]
            g == Factorial[Cardinality(Skills)]
<1>2. f \in Nat \ {0} /\ g \in Nat \ {0}
  BY <1>1, FactorialDivides
<1>3. PICK a \in Nat : f = a * c
  BY <1>1, FactorialDivides
<1>4. PICK b \in Nat : g = b * r
  BY <1>1, FactorialDivides
<1>5. Scale = f * g
  BY DEF Scale
<1>. HIDE DEF f, g
<1>6. c \in Nat /\ r \in Nat
  BY <1>1
<1>7. f * g = (a * b) * (c * r)
  BY <1>3, <1>4, <1>6, Reorder
<1>8. f * g \in Nat \ {0} /\ a * b \in Nat
  BY <1>2
<1>. QED BY <1>5, <1>7, <1>8

(* Scale is a positive number.                                             *)
LEMMA ScaleType == Scale \in Nat \ {0}
<1>1. PerSkill \in Nat \ {0} /\ Cardinality(Skills) \in Nat \ {0}
  BY SizesAssumption, SkillsAssumption, FS_CardinalityType, FS_EmptySet
<1>2. 1 \in 1..PerSkill /\ 1 \in 1..Cardinality(Skills)
  BY <1>1
<1>. QED BY <1>2, ScaleDivides

(* The two ways to count a skill's units.                                  *)
LEMMA CountedIsScored ==
    ASSUME NEW who, NEW s
    PROVE  /\ Cardinality(Scored(units, who, s)) = Cardinality(Counted(who, s))
           /\ Cardinality(Succeeded(units, who, s)) = Cardinality(Wins(who, s))
           /\ Scored(units, who, s) # {} <=> Counted(who, s) # {}
<1>1. IsFiniteSet(1..PerSkill)
  BY FS_Interval, SizesAssumption
<1>2. IsFiniteSet(Counted(who, s)) /\ IsFiniteSet(Wins(who, s))
  <2>1. Counted(who, s) \in SUBSET (1..PerSkill) /\ Wins(who, s) \in SUBSET (1..PerSkill)
    BY DEF Counted, Wins
  <2>. QED BY <1>1, <2>1, FS_Subset
<1>3. \A u \in {s} \X (1..PerSkill) : u = <<s, u[2]>> /\ u[2] \in 1..PerSkill
  OBVIOUS
<1>4. ASSUME NEW u \in {s} \X (1..PerSkill)
      PROVE  /\ u \in Scored(units, who, s) <=> u \in {s} \X Counted(who, s)
             /\ u \in Succeeded(units, who, s) <=> u \in {s} \X Wins(who, s)
  <2>. DEFINE n == u[2]
  <2>1. u = <<s, n>> /\ n \in 1..PerSkill
    BY <1>3
  <2>2. \A N : <<s, n>> \in {s} \X N <=> n \in N
    OBVIOUS
  <2>. HIDE DEF n
  <2>3. u \in Scored(units, who, s) <=> n \in Counted(who, s)
    BY <2>1 DEF Scored, Counted
  <2>4. u \in Succeeded(units, who, s) <=> n \in Wins(who, s)
    BY <2>1 DEF Succeeded, Scored, Wins
  <2>. QED BY <2>1, <2>2, <2>3, <2>4
<1>5. /\ Scored(units, who, s) \subseteq {s} \X (1..PerSkill)
      /\ Succeeded(units, who, s) \subseteq {s} \X (1..PerSkill)
      /\ {s} \X Counted(who, s) \subseteq {s} \X (1..PerSkill)
      /\ {s} \X Wins(who, s) \subseteq {s} \X (1..PerSkill)
  BY DEF Scored, Succeeded, Counted, Wins
<1>6. /\ Scored(units, who, s) = {s} \X Counted(who, s)
      /\ Succeeded(units, who, s) = {s} \X Wins(who, s)
  BY <1>4, <1>5, Zenon
<1>7. ASSUME NEW N, IsFiniteSet(N) PROVE Cardinality({s} \X N) = Cardinality(N)
  <2>1. IsFiniteSet({s}) /\ Cardinality({s}) = 1
    BY FS_Singleton
  <2>2. Cardinality({s} \X N) = Cardinality({s}) * Cardinality(N) /\ Cardinality(N) \in Nat
    BY <1>7, <2>1, FS_Product, FS_CardinalityType, Zenon
  <2>. QED BY <2>1, <2>2
<1>8. Scored(units, who, s) # {} <=> Counted(who, s) # {}
  <2>1. \A N : {s} \X N # {} <=> N # {}
    <3>1. ASSUME NEW N, NEW n \in N PROVE <<s, n>> \in {s} \X N
      OBVIOUS
    <3>. QED BY <3>1
  <2>. QED BY <1>6, <2>1
<1>. QED BY <1>2, <1>6, <1>7, <1>8

(* The fraction is one, and the product a multiple of each count.          *)
LEMMA DenominatorType ==
    ASSUME NEW us, NEW who
    PROVE  /\ Product(us, who) \in Nat \ {0} /\ Denominator(us, who) \in Nat
           /\ Numerator(us, who) \in Nat
           /\ Present(us, who) # {} => Denominator(us, who) # 0
           /\ \A s \in Present(us, who) :
                 \E q \in Nat \ {0} : Product(us, who) = q * CountOf(us, who)[s]
<1>. DEFINE P == Present(us, who)  w == CountOf(us, who)  r == Cardinality(P)
            p == Product(us, who)
<1>1. IsFiniteSet(P) /\ w \in [P -> Nat \ {0}] /\ r \in Nat /\ (P # {} => r # 0)
  BY PresentCounts
<1>2. p = ProductOf(w, P)
  BY ProductIsFold
<1>3. p \in Nat \ {0} /\ \A s \in P : \E q \in Nat \ {0} : p = q * w[s]
  <2>. HIDE DEF P, w, r, p
  <2>. QED BY <1>1, <1>2, FactorOf
<1>4. p * r \in Nat /\ (P # {} => p * r # 0)
  <2>. HIDE DEF P, w, r, p
  <2>. QED BY <1>1, <1>3
<1>5. Denominator(us, who) = p * r
  BY DEF Denominator
<1>6. Weight(us, who) \in [P -> Nat]
  <2>1. ASSUME NEW s \in P
        PROVE  Cardinality(Succeeded(us, who, s)) * (p \div w[s]) \in Nat
    <3>1. PICK q \in Nat \ {0} : p = q * w[s]
      BY <1>3
    <3>2. w[s] \in Nat \ {0} /\ Cardinality(Succeeded(us, who, s)) \in Nat
      BY PresentCounts
    <3>. HIDE DEF P, w, r, p
    <3>3. p \div w[s] = q
      BY <3>1, <3>2, DivExact
    <3>. QED BY <3>2, <3>3
  <2>2. \A s \in P : w[s] = Cardinality(Scored(us, who, s))
    BY DEF CountOf
  <2>. QED BY <2>1, <2>2 DEF Weight
<1>7. Numerator(us, who) \in Nat
  <2>1. Numerator(us, who) = SumOf(Weight(us, who), P)
    BY NumeratorIsFold
  <2>2. 0 \in Nat /\ \A s \in P : 0 * Weight(us, who)[s] = 0 * Weight(us, who)[s]
    OBVIOUS
  <2>. HIDE DEF P
  <2>. QED BY <1>1, <1>6, <2>1, <2>2, SumsProportional
<1>. QED BY <1>3, <1>4, <1>5, <1>7

(* Both ways to leave out a skill leave out the same ones.                 *)
LEMMA RatedIsPresent ==
    ASSUME NEW who
    PROVE  /\ Rated(who) = Present(units, who)
           /\ Rated(who) # {} <=> \E s \in Skills : Counted(who, s) # {}
BY CountedIsScored DEF Rated, Present

(* The reference of ExactMargin and what score.py computes are one average. *)
LEMMA MeanIsAverage ==
    ASSUME NEW who
    PROVE  /\ Mean(who) \in Nat
           /\ Denominator(units, who) * Mean(who) = Scale * Numerator(units, who)
<1>. DEFINE P == Present(units, who)  w == Weight(units, who)  v == Part(who)
            a == Denominator(units, who)  r == Cardinality(P)
            p == Product(units, who)  b == Scale
<1>1. IsFiniteSet(P) /\ a \in Nat /\ b \in Nat
  BY PresentCounts, DenominatorType, ScaleType
<1>2. ASSUME NEW s \in P
      PROVE  v[s] \in Nat /\ w[s] \in Nat /\ a * v[s] = b * w[s]
  <2>. DEFINE c == CountOf(units, who)[s]
              win == Cardinality(Succeeded(units, who, s))
  <2>1. /\ c \in Nat \ {0} /\ c <= PerSkill /\ win \in Nat
        /\ r \in Nat \ {0} /\ r <= Cardinality(Skills)
    BY PresentCounts
  <2>2. PICK q \in Nat \ {0} : p = q * c
    BY DenominatorType
  <2>3. PICK z \in Nat : b = z * (c * r)
    <3>1. PerSkill \in Nat /\ Cardinality(Skills) \in Nat
      BY SizesAssumption, SkillsAssumption, FS_CardinalityType
    <3>2. c \in 1..PerSkill /\ r \in 1..Cardinality(Skills)
      BY <2>1, <3>1
    <3>. HIDE DEF c, r
    <3>. QED BY <3>2, ScaleDivides
  <2>4. v[s] = (b * win) \div (c * r)
    <3>1. s \in Rated(who) /\ Rated(who) = P
      BY RatedIsPresent
    <3>2. Cardinality(Counted(who, s)) = c /\ Cardinality(Wins(who, s)) = win
      BY CountedIsScored DEF CountOf
    <3>. QED BY <3>1, <3>2 DEF Part
  <2>5. w[s] = win * (p \div c)
    BY DEF Weight, CountOf
  <2>6. a = p * r
    BY DEF Denominator
  <2>. HIDE DEF P, w, v, a, r, p, b, c, win
  <2>7. p \div c = q
    BY <2>1, <2>2, DivExact
  <2>8. b * win = (z * win) * (c * r) /\ c * r \in Nat \ {0} /\ z * win \in Nat
    <3>1. (z * (c * r)) * win = (z * win) * (c * r)
      <4>. DEFINE m == c * r
      <4>1. m \in Nat \ {0}
        BY <2>1
      <4>. HIDE DEF m
      <4>. QED BY <2>1, <4>1
    <3>2. c * r \in Nat \ {0} /\ z * win \in Nat
      BY <2>1
    <3>. QED BY <2>3, <3>1, <3>2
  <2>9. v[s] = z * win
    BY <2>4, <2>8, DivExact
  <2>10. a * v[s] = b * w[s]
    <3>. DEFINE m == c * r
    <3>1. m \in Nat /\ a = q * m
      BY <2>1, <2>2, <2>6
    <3>2. b = z * m
      BY <2>3
    <3>. HIDE DEF m
    <3>3. (q * m) * (z * win) = (q * z) * (m * win)
      BY <2>1, <3>1, Reorder
    <3>4. (z * m) * (win * q) = (z * m) * (q * win)
      BY <2>1, <3>1
    <3>5. (z * m) * (q * win) = (z * q) * (m * win)
      BY <2>1, <3>1, Reorder
    <3>6. z * q = q * z
      OBVIOUS
    <3>. QED BY <2>5, <2>7, <2>9, <3>1, <3>2, <3>3, <3>4, <3>5, <3>6
  <2>11. v[s] \in Nat /\ w[s] \in Nat
    BY <2>1, <2>5, <2>7, <2>8, <2>9
  <2>. QED BY <2>10, <2>11
<1>3. v \in [P -> Nat] /\ w \in [P -> Nat]
  <2>1. v = [s \in P |-> v[s]]
    BY RatedIsPresent DEF Part
  <2>2. w = [s \in P |-> w[s]]
    BY DEF Weight
  <2>. HIDE DEF P, v, w
  <2>. QED BY <1>2, <2>1, <2>2
<1>4. Mean(who) = SumOf(v, P) /\ Numerator(units, who) = SumOf(w, P)
  BY MeanIsFold, NumeratorIsFold, RatedIsPresent
<1>5. SumOf(v, P) \in Nat /\ a * SumOf(v, P) = b * SumOf(w, P)
  <2>. HIDE DEF P, w, v, a, b
  <2>. QED BY <1>1, <1>2, <1>3, SumsProportional
<1>. QED BY <1>4, <1>5

(* The product of the counts, and the denominator of an average, where all *)
(* units of all skills count: PerSkill^n and n * PerSkill^n for n skills.  *)
Full == FoldSet(LAMBDA s, p : PerSkill * p, 1, Skills)
Most == Full * Cardinality(Skills)

(* No average has larger ones.                                             *)
LEMMA MostIsMost ==
    ASSUME NEW us, NEW who
    PROVE  /\ Full \in Nat /\ Product(us, who) <= Full
           /\ Most \in Nat /\ Denominator(us, who) <= Most
<1>. DEFINE P == Present(us, who)  w == CountOf(us, who)  r == Cardinality(P)
            k == [s \in Skills |-> PerSkill]  n == Cardinality(Skills)
            full == ProductOf(k, Skills)  p == ProductOf(w, P)
<1>1. Full = full
  BY DEF Full, FoldSet, MapThenFoldSet, ProductOf, ProductFold, ProductBody
<1>2. Most = full * n
  BY <1>1 DEF Most
<1>3. Product(us, who) = p /\ Denominator(us, who) = p * r
  BY ProductIsFold DEF Denominator
<1>4. /\ P \in SUBSET Skills /\ w \in [P -> Nat \ {0}] /\ \A s \in P : w[s] <= PerSkill
      /\ r \in Nat /\ r <= n
  BY PresentCounts
<1>5. PerSkill \in Nat \ {0} /\ k \in [Skills -> Nat \ {0}] /\ n \in Nat
  BY SizesAssumption, SkillsAssumption, FS_CardinalityType
<1>6. IsFiniteSet(P) /\ IsFiniteSet(Skills)
  BY PresentCounts, SkillsAssumption
<1>7. p <= full
  <2>. HIDE DEF P, w
  <2>. QED BY <1>4, <1>5, <1>6, SmallerProduct
<1>8. p \in Nat /\ full \in Nat
  <2>. HIDE DEF P, w, k
  <2>. QED BY <1>4, <1>5, <1>6, FactorOf
<1>. HIDE DEF P, w, r, k, n, full, p
<1>9. p * r <= full * r
  BY <1>4, <1>7, <1>8
<1>10. full * r <= full * n
  BY <1>4, <1>5, <1>8
<1>11. p * r \in Nat /\ full * r \in Nat /\ full * n \in Nat
  BY <1>4, <1>5, <1>8
<1>. QED BY <1>1, <1>2, <1>3, <1>7, <1>8, <1>9, <1>10, <1>11
(* Of two numbers, the sign of one times a positive number is its own. *)
LEMMA SignOf ==
    ASSUME NEW d \in Nat \ {0}, NEW y \in Int
    PROVE  /\ d * y \in Int
           /\ y >= 0 => d * y >= 0
           /\ y < 0 => d * y <= -d
<1>1. ASSUME y >= 0 PROVE d * y >= 0
  BY <1>1
<1>2. ASSUME y < 0 PROVE d * y <= -d
  <2>1. PICK m \in Nat : y = -1 - m
    BY <1>2
  <2>2. d * (-1 - m) = -d - d * m /\ d * m \in Nat
    BY <2>1
  <2>. QED BY <2>1, <2>2
<1>. QED BY <1>1, <1>2

(* The excess over the margin has the sign of the difference of the means. *)
LEMMA ExcessIsDifference ==
    ASSUME \A who \in Rivals : Present(units, who) # {}
    PROVE  /\ Excess(units) \in Int
           /\ Excess(units) >= 0 <=>
                100 * (Mean("challenger") - Mean("king")) >= MarginPoints * Scale
<1>. DEFINE cd == Denominator(units, "challenger")  kd == Denominator(units, "king")
            cn == Numerator(units, "challenger")  kn == Numerator(units, "king")
            cm == Mean("challenger")  km == Mean("king")  s == Scale  m == MarginPoints
            x == 100 * (cn * kd - kn * cd) - m * cd * kd
            y == 100 * (cm - km) - m * s
<1>1. /\ cd \in Nat \ {0} /\ kd \in Nat \ {0} /\ cn \in Nat /\ kn \in Nat
  <2>1. "challenger" \in Rivals /\ "king" \in Rivals
    BY DEF Rivals
  <2>. QED BY <2>1, DenominatorType
<1>2. /\ cm \in Nat /\ km \in Nat /\ cd * cm = s * cn /\ kd * km = s * kn
  BY MeanIsAverage
<1>3. s \in Nat \ {0} /\ m \in Nat
  BY ScaleType, MarginAssumption
<1>4. Excess(units) = x
  BY DEF Excess
<1>. HIDE DEF cd, kd, cn, kn, cm, km, s, m
<1>5. x \in Int /\ y \in Int /\ cd * kd \in Nat \ {0}
  BY <1>1, <1>2, <1>3
<1>6. s * x = (cd * kd) * y
  <2>1. s * (cn * kd) = (cd * kd) * cm
    <3>1. s * (cn * kd) = (s * cn) * kd
      BY <1>1, <1>3
    <3>2. (cd * cm) * kd = (cd * kd) * cm
      BY <1>1, <1>2
    <3>. QED BY <1>2, <3>1, <3>2
  <2>2. s * (kn * cd) = (cd * kd) * km
    <3>1. s * (kn * cd) = (s * kn) * cd
      BY <1>1, <1>3
    <3>2. (kd * km) * cd = (cd * kd) * km
      BY <1>1, <1>2
    <3>. QED BY <1>2, <3>1, <3>2
  <2>3. s * (m * cd * kd) = (cd * kd) * (m * s)
    BY <1>1, <1>3
  <2>. DEFINE e == cn * kd  f == kn * cd  g == m * cd * kd  d == cd * kd  h == m * s
  <2>4. e \in Int /\ f \in Int /\ g \in Int /\ d \in Int /\ h \in Int
    BY <1>1, <1>3
  <2>5. s * e = d * cm /\ s * f = d * km /\ s * g = d * h
    BY <2>1, <2>2, <2>3
  <2>6. x = 100 * (e - f) - g /\ y = 100 * (cm - km) - h
    OBVIOUS
  <2>7. cd * kd = d
    OBVIOUS
  <2>. HIDE DEF e, f, g, d, h, x, y
  <2>8. s * (100 * (e - f) - g) = 100 * (s * e) - 100 * (s * f) - s * g
    BY <1>3, <2>4
  <2>9. d * (100 * (cm - km) - h) = 100 * (d * cm) - 100 * (d * km) - d * h
    BY <1>2, <2>4
  <2>. QED BY <2>5, <2>6, <2>7, <2>8, <2>9
<1>7. x >= 0 <=> y >= 0
  <2>. DEFINE d == cd * kd
  <2>1. d \in Nat \ {0} /\ s * x = d * y /\ x \in Int /\ y \in Int
    BY <1>5, <1>6
  <2>. HIDE DEF d, x, y
  <2>2. /\ s * x \in Int /\ (x >= 0 => s * x >= 0) /\ (x < 0 => s * x <= -s)
    BY <1>3, <2>1, SignOf
  <2>3. /\ d * y \in Int /\ (y >= 0 => d * y >= 0) /\ (y < 0 => d * y <= -d)
    BY <2>1, SignOf
  <2>. QED BY <1>3, <2>1, <2>2, <2>3
<1>8. y >= 0 <=> 100 * (cm - km) >= m * s
  BY <1>2, <1>3
<1>9. /\ Excess(units) \in Int
      /\ Excess(units) >= 0 <=> 100 * (cm - km) >= m * s
  <2>. HIDE DEF x, y
  <2>. QED BY <1>4, <1>5, <1>7, <1>8
<1>. QED BY <1>9 DEF cm, km, m, s

(* The tolerance alone decides nothing.                                   *)
NothingBetween(us) ==
    (\A who \in Rivals : Present(us, who) # {}) =>
        (Excess(us) >= -Tolerance(us) <=> Excess(us) >= 0)

(* The verdict is that of the units.                                       *)
VerdictInv == verdict.decided => (verdict.moves <=> CrownMoves(units))

(* There is none at first.                                                 *)
LEMMA InitVerdict == ScoreInit => VerdictInv
BY DEF ScoreInit, VerdictInv, Undecided

(* The one step there is makes it from the units, which stay.              *)
LEMMA StepVerdict == VerdictInv /\ [Decide]_<<units, verdict>> => VerdictInv'
<1>. SUFFICES ASSUME VerdictInv, [Decide]_<<units, verdict>> PROVE VerdictInv'
  OBVIOUS
<1>1. UNCHANGED units
  BY DEF Decide
<1>2. CrownMoves(units)' <=> CrownMoves(units)
  BY <1>1 DEF CrownMoves, Excess, Tolerance
<1>3. CASE Decide
  <2>1. verdict'.moves = CrownMoves(units)
    BY <1>3 DEF Decide
  <2>. QED BY <1>2, <2>1 DEF VerdictInv
<1>4. CASE UNCHANGED <<units, verdict>>
  BY <1>2, <1>4 DEF VerdictInv
<1>. QED BY <1>3, <1>4

(* If the tolerance decides nothing, the margin decides.                   *)
LEMMA MarginDecides ==
    ASSUME VerdictInv, NothingBetween(units)
    PROVE  ExactMargin
<1>. DEFINE Meets == 100 * (Mean("challenger") - Mean("king")) >= MarginPoints * Scale
            Both == \A who \in Rivals : Present(units, who) # {}
<1>1. Both <=> \A who \in Rivals : \E s \in Skills : Counted(who, s) # {}
  BY RatedIsPresent
<1>2. Both => (Excess(units) >= 0 <=> Meets)
  BY ExcessIsDifference
<1>3. Both => (Excess(units) >= -Tolerance(units) <=> Excess(units) >= 0)
  BY DEF NothingBetween
<1>4. CrownMoves(units) <=> Both /\ Excess(units) >= -Tolerance(units)
  BY DEF CrownMoves
<1>. HIDE DEF Meets, Both
<1>5. CrownMoves(units) <=> Both /\ Meets
  BY <1>2, <1>3, <1>4, Zenon
<1>6. verdict.decided => (verdict.moves <=> Both /\ Meets)
  BY <1>5, Zenon DEF VerdictInv
<1>. QED BY <1>1, <1>6, Zenon DEF ExactMargin, Meets

(* All of it are integers.                                                 *)
LEMMA ExcessType ==
    ASSUME NEW us
    PROVE  /\ Excess(us) \in Int /\ MarginPoints \in Nat \ {0}
           /\ EpsilonInverse \in Nat \ {0}
           /\ \A who : Denominator(us, who) \in Nat /\ Numerator(us, who) \in Nat
<1>1. \A who : Denominator(us, who) \in Nat /\ Numerator(us, who) \in Nat
  BY DenominatorType
<1>. QED BY <1>1, MarginAssumption, SizesAssumption DEF Excess

(* Division rounds down.                                                   *)
LEMMA DivBelow ==
    ASSUME NEW a \in Nat, NEW e \in Nat \ {0}, NEW n \in Nat \ {0}, a < e * n
    PROVE  a \div e \in Nat /\ a \div e < n
<1>1. a \div e \in Nat /\ e * (a \div e) <= a
  OBVIOUS
<1>2. ASSUME NEW q \in Nat, e * q <= a PROVE q < n
  <2>. SUFFICES ASSUME q >= n PROVE FALSE
    BY <1>2
  <2>1. e * n <= e * q
    BY <1>2
  <2>2. e * n \in Nat /\ e * q \in Nat
    OBVIOUS
  <2>. QED BY <1>2, <2>1, <2>2
<1>. QED BY <1>1, <1>2

(* SCORE_EPSILON is finer than the difference of two averages can be.      *)
FineEpsilon ==
    LET n == Cardinality(Skills)
    IN  100 * ((Full * Full) * (n * (IF n = 1 THEN 1 ELSE n - 1))) < EpsilonInverse

(* Products of naturals grow with both factors.                            *)
LEMMA TimesGrow ==
    ASSUME NEW a \in Nat, NEW b \in Nat, NEW c \in Nat, NEW d \in Nat, a <= b, c <= d
    PROVE  a * c <= b * d /\ a * c \in Nat /\ b * d \in Nat
<1>1. a * c <= b * c
  OBVIOUS
<1>2. b * c <= b * d
  OBVIOUS
<1>3. a * c \in Nat /\ b * c \in Nat /\ b * d \in Nat
  OBVIOUS
<1>. QED BY <1>1, <1>2, <1>3

(* Either the averages are over as many skills on both sides, and the      *)
(* excess is a multiple of that number, or the denominators are smaller.   *)
LEMMA FineTolerance ==
    ASSUME FineEpsilon, NEW us
    PROVE  NothingBetween(us)
<1>. SUFFICES ASSUME \A who \in Rivals : Present(us, who) # {}
              PROVE  Excess(us) >= -Tolerance(us) <=> Excess(us) >= 0
  BY DEF NothingBetween
<1>. DEFINE cp == Product(us, "challenger")  kp == Product(us, "king")
            cr == Cardinality(Present(us, "challenger"))
            kr == Cardinality(Present(us, "king"))
            cn == Numerator(us, "challenger")  kn == Numerator(us, "king")
            e == EpsilonInverse  m == MarginPoints
            n == Cardinality(Skills)  limit == n * (IF n = 1 THEN 1 ELSE n - 1)
            p == cp * kp
            z == 100 * (cn * kp - kn * cp) - m * (p * cr)
<1>1. /\ cp \in Nat \ {0} /\ kp \in Nat \ {0} /\ cn \in Nat /\ kn \in Nat
      /\ cr \in Nat \ {0} /\ kr \in Nat \ {0} /\ cr <= n /\ kr <= n
      /\ n \in Nat /\ e \in Nat \ {0} /\ m \in Nat
  <2>1. "challenger" \in Rivals /\ "king" \in Rivals
    BY DEF Rivals
  <2>2. n \in Nat
    BY SkillsAssumption, FS_CardinalityType
  <2>. QED BY <2>1, <2>2, PresentCounts, DenominatorType, ExcessType
<1>2. Full \in Nat /\ cp <= Full /\ kp <= Full
  BY MostIsMost
<1>3. /\ Denominator(us, "challenger") = cp * cr
      /\ Denominator(us, "king") = kp * kr
  BY DEF Denominator
<1>4. Tolerance(us) = (100 * (cp * cr) * (kp * kr)) \div e
  BY <1>3 DEF Tolerance
<1>5. Excess(us) = 100 * (cn * (kp * kr) - kn * (cp * cr)) - m * (cp * cr) * (kp * kr)
  BY <1>3 DEF Excess
<1>6. 100 * ((Full * Full) * limit) < e
  BY DEF FineEpsilon
<1>7. Excess(us) \in Int
  BY ExcessType
<1>. HIDE DEF cp, kp, cr, kr, cn, kn, e, m, n
<1>8. n <= limit /\ limit \in Nat /\ (cr # kr => cr * kr <= limit)
  <2>1. n >= 1
    BY <1>1
  <2>2. CASE n = 1
    BY <1>1, <2>2
  <2>3. CASE n >= 2
    <3>1. limit = n * (n - 1)
      BY <2>3
    <3>2. n * 1 <= n * (n - 1) /\ n * (n - 1) \in Nat
      <4>1. 1 \in Nat /\ 1 <= n - 1 /\ n - 1 \in Nat /\ n <= n
        BY <1>1, <2>3
      <4>. QED BY <1>1, <4>1, TimesGrow
    <3>3. ASSUME cr < kr PROVE cr * kr <= n * (n - 1)
      <4>1. cr <= n - 1 /\ n - 1 \in Nat
        BY <1>1, <3>3
      <4>2. cr * kr <= (n - 1) * n
        BY <1>1, <4>1, TimesGrow
      <4>3. (n - 1) * n = n * (n - 1)
        BY <1>1
      <4>. QED BY <4>2, <4>3
    <3>4. ASSUME kr < cr PROVE cr * kr <= n * (n - 1)
      <4>1. kr <= n - 1 /\ n - 1 \in Nat
        BY <1>1, <3>4
      <4>. QED BY <1>1, <4>1, TimesGrow
    <3>5. n * 1 = n
      BY <1>1
    <3>. HIDE DEF limit
    <3>. QED BY <1>1, <3>1, <3>2, <3>3, <3>4, <3>5
  <2>. QED BY <1>1, <2>1, <2>2, <2>3
<1>9. p <= Full * Full /\ p \in Nat \ {0} /\ Full * Full \in Nat
  BY <1>1, <1>2, TimesGrow
<1>10. 100 * (cp * cr) * (kp * kr) = 100 * (p * (cr * kr))
  <2>1. (cp * cr) * (kp * kr) = p * (cr * kr)
    BY <1>1, Reorder
  <2>2. cp * cr \in Nat /\ kp * kr \in Nat
    BY <1>1
  <2>. DEFINE a == cp * cr  b == kp * kr
  <2>3. 100 * a * b = 100 * (a * b)
    <3>. HIDE DEF a, b
    <3>. QED BY <2>2 DEF a, b
  <2>. QED BY <2>1, <2>3
<1>. HIDE DEF limit, p
<1>11. CASE cr # kr
  <2>1. p * (cr * kr) <= (Full * Full) * limit /\ p * (cr * kr) \in Nat
    <3>1. cr * kr \in Nat
      BY <1>1
    <3>. QED BY <1>8, <1>9, <1>11, <3>1, TimesGrow
  <2>. DEFINE a == p * (cr * kr)  b == (Full * Full) * limit
  <2>2. b \in Nat
    BY <1>8, <1>9
  <2>3. 100 * a \in Nat /\ 100 * a < e * 1
    <3>1. a \in Nat /\ a <= b /\ 100 * b < e
      BY <1>6, <2>1
    <3>. HIDE DEF a, b
    <3>. QED BY <1>1, <2>2, <3>1
  <2>. HIDE DEF a, b
  <2>4. (100 * a) \div e \in Nat /\ (100 * a) \div e < 1
    BY <1>1, <2>3, DivBelow
  <2>5. Tolerance(us) = (100 * a) \div e
    BY <1>4, <1>10 DEF a
  <2>6. Tolerance(us) = 0
    BY <2>4, <2>5
  <2>. QED BY <1>7, <2>6
<1>12. CASE cr = kr
  <2>1. Excess(us) = cr * z /\ z \in Int
    <3>1. cn * (kp * cr) = cr * (cn * kp) /\ kn * (cp * cr) = cr * (kn * cp)
      BY <1>1
    <3>2. m * (cp * cr) * (kp * cr) = cr * (m * (p * cr))
      <4>1. (cp * cr) * (kp * cr) = p * (cr * cr)
        BY <1>1, Reorder DEF p
      <4>2. m * (cp * cr) * (kp * cr) = m * ((cp * cr) * (kp * cr))
        <5>1. cp * cr \in Nat /\ kp * cr \in Nat
          BY <1>1
        <5>. DEFINE a == cp * cr  b == kp * cr
        <5>2. m * a * b = m * (a * b)
          <6>. HIDE DEF a, b
          <6>. QED BY <1>1, <5>1 DEF a, b
        <5>. QED BY <5>2
      <4>3. m * (p * (cr * cr)) = cr * (m * (p * cr))
        BY <1>1, <1>9
      <4>. QED BY <4>1, <4>2, <4>3
    <3>. DEFINE f == cn * kp  g == kn * cp  h == m * (p * cr)
    <3>3. f \in Nat /\ g \in Nat /\ h \in Nat /\ z = 100 * (f - g) - h
      BY <1>1, <1>9
    <3>4. Excess(us) = 100 * (cr * f - cr * g) - cr * h
      BY <1>5, <1>12, <3>1, <3>2
    <3>. HIDE DEF f, g, h, z
    <3>5. cr * (100 * (f - g) - h) = 100 * (cr * f - cr * g) - cr * h
      BY <1>1, <3>3
    <3>. QED BY <3>3, <3>4, <3>5
  <2>2. p * cr <= (Full * Full) * limit /\ p * cr \in Nat
    <3>1. cr <= limit
      BY <1>1, <1>8
    <3>. QED BY <1>1, <1>8, <1>9, <3>1, TimesGrow
  <2>. DEFINE a == p * cr  b == (Full * Full) * limit
  <2>3. b \in Nat
    BY <1>8, <1>9
  <2>4. 100 * a \in Nat /\ 100 * a < e
    <3>1. a \in Nat /\ a <= b /\ 100 * b < e
      BY <1>6, <2>2
    <3>. HIDE DEF a, b
    <3>. QED BY <1>1, <2>3, <3>1
  <2>5. 100 * (p * (cr * cr)) = (100 * a) * cr
    BY <1>1, <1>9
  <2>. HIDE DEF a, b, z
  <2>6. (100 * a) * cr < e * cr /\ (100 * a) * cr \in Nat
    <3>. DEFINE h == 100 * a
    <3>1. h \in Nat /\ h < e
      BY <2>4
    <3>. HIDE DEF h
    <3>2. h * cr < e * cr /\ h * cr \in Nat
      BY <1>1, <3>1, TimesSmaller
    <3>. QED BY <3>2 DEF h
  <2>7. Tolerance(us) = ((100 * a) * cr) \div e
    BY <1>4, <1>10, <1>12, <2>5
  <2>8. Tolerance(us) \in Nat /\ Tolerance(us) < cr
    BY <1>1, <2>6, <2>7, DivBelow
  <2>9. (z >= 0 => cr * z >= 0) /\ (z < 0 => cr * z <= -cr)
    BY <1>1, <2>1, SignOf
  <2>. QED BY <1>1, <2>1, <2>8, <2>9
<1>. QED BY <1>11, <1>12

(* Both sides have a result on the same units, as when all that are not    *)
(* void are judged.                                                        *)
SameCounted(us) ==
    \A s \in Skills : Scored(us, "challenger", s) = Scored(us, "king", s)

(* Then their averages have one denominator.                               *)
LEMMA SameDenominator ==
    ASSUME NEW us, SameCounted(us)
    PROVE  /\ Present(us, "challenger") = Present(us, "king")
           /\ CountOf(us, "challenger") = CountOf(us, "king")
           /\ Product(us, "challenger") = Product(us, "king")
           /\ Denominator(us, "challenger") = Denominator(us, "king")
<1>1. Present(us, "challenger") = Present(us, "king")
  BY DEF Present, SameCounted
<1>2. CountOf(us, "challenger") = CountOf(us, "king")
  <2>1. \A s \in Present(us, "king") : Scored(us, "challenger", s) = Scored(us, "king", s)
    BY DEF Present, SameCounted
  <2>. QED BY <1>1, <2>1 DEF CountOf
<1>3. Product(us, "challenger") = Product(us, "king")
  BY <1>1, <1>2, ProductIsFold
<1>. QED BY <1>1, <1>2, <1>3 DEF Denominator

(* And a much coarser epsilon decides nothing.                             *)
LEMMA SameTolerance ==
    ASSUME 100 * Most < EpsilonInverse, NEW us, SameCounted(us)
    PROVE  NothingBetween(us)
<1>. SUFFICES ASSUME \A who \in Rivals : Present(us, who) # {}
              PROVE  Excess(us) >= -Tolerance(us) <=> Excess(us) >= 0
  BY DEF NothingBetween
<1>. DEFINE d == Denominator(us, "king")
            cn == Numerator(us, "challenger")  kn == Numerator(us, "king")
            e == EpsilonInverse  z == 100 * (cn - kn) - MarginPoints * d
<1>1. /\ d \in Nat \ {0} /\ cn \in Nat /\ kn \in Nat /\ e \in Nat \ {0}
      /\ MarginPoints \in Nat /\ Excess(us) \in Int
  <2>1. "king" \in Rivals
    BY DEF Rivals
  <2>. QED BY <2>1, ExcessType, DenominatorType
<1>2. Most \in Nat /\ d <= Most
  BY MostIsMost
<1>3. Denominator(us, "challenger") = d
  BY SameDenominator
<1>4. Tolerance(us) = (100 * d * d) \div e
  BY <1>3 DEF Tolerance
<1>5. Excess(us) = 100 * (cn * d - kn * d) - MarginPoints * d * d
  BY <1>3 DEF Excess
<1>6. 100 * Most < e
  OBVIOUS
<1>. HIDE DEF d, cn, kn, e
<1>7. 100 * d < e /\ 100 * d \in Nat
  BY <1>1, <1>2, <1>6
<1>8. (100 * d) * d < e * d
  <2>. DEFINE h == 100 * d
  <2>1. h \in Nat /\ h < e
    BY <1>7
  <2>. HIDE DEF h
  <2>2. h * d < e * d
    BY <1>1, <2>1, TimesSmaller
  <2>. QED BY <2>2 DEF h
<1>9. Tolerance(us) \in Nat /\ Tolerance(us) < d
  <2>1. 100 * d * d \in Nat
    BY <1>1
  <2>. QED BY <1>1, <1>4, <1>8, <2>1, DivBelow
<1>10. Excess(us) = d * z /\ z \in Int
  <2>1. cn * d = d * cn /\ kn * d = d * kn /\ MarginPoints * d * d = d * (MarginPoints * d)
    BY <1>1
  <2>. DEFINE h == MarginPoints * d
  <2>2. h \in Nat /\ z = 100 * (cn - kn) - h
    BY <1>1
  <2>3. d * (100 * (cn - kn) - h) = 100 * (d * cn - d * kn) - d * h
    <3>. HIDE DEF h
    <3>. QED BY <1>1, <2>2
  <2>. HIDE DEF z
  <2>. QED BY <1>1, <1>5, <2>1, <2>2, <2>3
<1>. HIDE DEF z
<1>11. /\ z >= 0 => d * z >= 0
       /\ z < 0 => d * z <= -d
  BY <1>1, <1>10, SignOf
<1>. QED BY <1>1, <1>9, <1>10, <1>11

(* "challenger.average >= king.average + duel.score_margin / 100", for any *)
(* skills, units and results: crown_moves() subtracts SCORE_EPSILON, and   *)
(* that never crowns a challenger who is short of the margin, whatever is  *)
(* void or was judged on one side alone.                                   *)
THEOREM MarginIsExact ==
    ASSUME FineEpsilon
    PROVE  ScoreSpec => []ExactMargin
<1>1. VerdictInv => ExactMargin
  BY FineTolerance, MarginDecides
<1>. QED BY <1>1, InitVerdict, StepVerdict, PTL DEF ScoreSpec

(* A side and its copy have the same units and the same successes.         *)
LEMMA CopyDraws ==
    ASSUME NEW us, \A u \in Unit : us[u].king = us[u].challenger
    PROVE  /\ SameCounted(us)
           /\ Numerator(us, "challenger") = Numerator(us, "king")
<1>1. ASSUME NEW s \in Skills
      PROVE  /\ Scored(us, "challenger", s) = Scored(us, "king", s)
             /\ Succeeded(us, "challenger", s) = Succeeded(us, "king", s)
  <2>1. \A u \in {s} \X (1..PerSkill) : us[u]["king"] = us[u]["challenger"]
    BY DEF Unit
  <2>2. Scored(us, "challenger", s) = Scored(us, "king", s)
    BY <2>1 DEF Scored
  <2>3. \A u \in Scored(us, "king", s) : us[u]["king"] = us[u]["challenger"]
    BY <2>1 DEF Scored
  <2>. QED BY <2>2, <2>3 DEF Succeeded
<1>2. SameCounted(us)
  BY <1>1 DEF SameCounted
<1>3. /\ Present(us, "challenger") = Present(us, "king")
      /\ Product(us, "challenger") = Product(us, "king")
  BY <1>2, SameDenominator
<1>4. Weight(us, "challenger") = Weight(us, "king")
  <2>1. \A s \in Present(us, "king") :
           /\ Scored(us, "challenger", s) = Scored(us, "king", s)
           /\ Succeeded(us, "challenger", s) = Succeeded(us, "king", s)
    BY <1>1 DEF Present
  <2>. QED BY <1>3, <2>1 DEF Weight
<1>. QED BY <1>2, <1>3, <1>4, NumeratorIsFold

(* So the excess is the margin, below zero, and the tolerance is smaller.  *)
LEMMA CopyIsShort ==
    ASSUME 100 < EpsilonInverse, NEW us, \A u \in Unit : us[u].king = us[u].challenger
    PROVE  ~CrownMoves(us)
<1>. SUFFICES ASSUME CrownMoves(us) PROVE FALSE
  OBVIOUS
<1>. DEFINE d == Denominator(us, "king")  n == Numerator(us, "king")
            e == EpsilonInverse  m == MarginPoints
<1>1. /\ d \in Nat \ {0} /\ n \in Nat /\ e \in Nat \ {0} /\ m \in Nat \ {0}
  <2>1. Present(us, "king") # {}
    BY DEF CrownMoves, Rivals
  <2>. QED BY <2>1, ExcessType, DenominatorType
<1>2. Denominator(us, "challenger") = d /\ Numerator(us, "challenger") = n
  BY CopyDraws, SameDenominator
<1>3. Excess(us) = 100 * (n * d - n * d) - m * d * d
  BY <1>2 DEF Excess
<1>4. Tolerance(us) = (100 * d * d) \div e
  BY <1>2 DEF Tolerance
<1>5. Excess(us) >= -Tolerance(us) /\ 100 < e
  BY DEF CrownMoves
<1>. HIDE DEF d, n, e, m
<1>. DEFINE q == d * d
<1>6. q \in Nat \ {0} /\ n * d \in Nat /\ 100 * d * d = 100 * q /\ m * d * d = m * q
  BY <1>1
<1>. HIDE DEF q
<1>7. 100 * q < e * q
  BY <1>1, <1>5, <1>6, TimesSmaller
<1>8. (100 * q) \div e \in Nat /\ (100 * q) \div e < q
  <2>1. 100 * q \in Nat
    BY <1>6
  <2>. QED BY <1>1, <1>6, <1>7, <2>1, DivBelow
<1>9. m * q >= q /\ m * q \in Nat
  BY <1>1, <1>6
<1>. QED BY <1>3, <1>4, <1>5, <1>6, <1>8, <1>9

(* A challenger that does on every unit what the king does, a copy of it,  *)
(* never takes the crown, whatever is void.                                *)
CopyStays ==
    verdict.decided /\ (\A u \in Unit : units[u].king = units[u].challenger) =>
        ~verdict.moves

(* The comparison in crown_moves() holds of no copy, for any SCORE_EPSILON *)
(* that is less than a percentage point.                                   *)
THEOREM CopyStaysHolds ==
    ASSUME 100 < EpsilonInverse
    PROVE  ScoreSpec => []CopyStays
<1>1. VerdictInv => CopyStays
  BY CopyIsShort DEF VerdictInv, CopyStays
<1>. QED BY <1>1, InitVerdict, StepVerdict, PTL DEF ScoreSpec

(* What is counted skill by skill is counted.                              *)
LEMMA CountByPart ==
    ASSUME NEW S, IsFiniteSet(S), NEW G, IsFiniteSet(G), NEW w \in [S -> Nat],
           \A s \in S : w[s] = Cardinality({u \in G : u[1] = s}),
           \A u \in G : u[1] \in S
    PROVE  SumOf(w, S) = Cardinality(G)
<1>. DEFINE F == SumFold(w, S)
            In(T) == {u \in G : u[1] \in T}
            Q == {T \in SUBSET S : F[T] = Cardinality(In(T))}
<1>1. FoldsOver(F, SUBSET S, PlusStep(w, S), 0)
  BY SumFolds
<1>. HIDE DEF F
<1>2. ASSUME NEW T \in SUBSET S, \A x \in T : T \ {x} \in Q PROVE T \in Q
  <2>1. CASE T = {}
    <3>1. In(T) = {} /\ F[T] = 0
      BY <1>1, <2>1 DEF FoldsOver
    <3>. QED BY <3>1, FS_EmptySet
  <2>2. CASE T # {}
    <3>. DEFINE x == Any(T)  V == T \ {x}  own == {u \in G : u[1] = x}
    <3>1. x \in T /\ x \in S /\ V \in SUBSET S /\ Rest(T) = V
      BY <2>2, RestIsSmaller DEF Rest
    <3>2. F[T] = w[x] + F[V]
      <4>1. F[T] = PlusStep(w, S)[x][F[V]] /\ F[V] \in Nat
        BY <1>1, <2>2, <3>1 DEF FoldsOver
      <4>. QED BY <3>1, <4>1 DEF PlusStep
    <3>3. F[V] = Cardinality(In(V))
      BY <1>2, <3>1
    <3>4. w[x] = Cardinality(own)
      BY <3>1
    <3>. HIDE DEF x
    <3>5. IsFiniteSet(own) /\ IsFiniteSet(In(V))
      <4>1. own \in SUBSET G /\ In(V) \in SUBSET G
        OBVIOUS
      <4>. QED BY <4>1, FS_Subset
    <3>6. In(T) = own \cup In(V) /\ own \cap In(V) = {}
      BY <3>1
    <3>7. Cardinality(own \cup In(V))
          = Cardinality(own) + Cardinality(In(V)) - Cardinality(own \cap In(V))
      BY <3>5, FS_Union
    <3>8. /\ Cardinality(own) \in Nat /\ Cardinality(In(V)) \in Nat
          /\ Cardinality(own \cap In(V)) = 0
      BY <3>5, <3>6, FS_CardinalityType, FS_EmptySet
    <3>9. Cardinality(In(T)) = Cardinality(own) + Cardinality(In(V))
      <4>. DEFINE a == Cardinality(own)  b == Cardinality(In(V))
                  c == Cardinality(own \cap In(V))  d == Cardinality(own \cup In(V))
      <4>1. d = a + b - c /\ a \in Nat /\ b \in Nat /\ c = 0
        BY <3>7, <3>8
      <4>2. Cardinality(In(T)) = d
        BY <3>6
      <4>. HIDE DEF a, b, c, d
      <4>3. d = a + b
        BY <4>1
      <4>. QED BY <4>2, <4>3 DEF a, b
    <3>. QED BY <3>2, <3>3, <3>4, <3>9
  <2>. QED BY <2>1, <2>2
<1>3. SUBSET S \subseteq Q
  <2>1. \A T \in SUBSET S : (\A x \in T : T \ {x} \in Q) => T \in Q
    BY <1>2
  <2>. HIDE DEF Q
  <2>. QED BY <2>1, SetInduction
<1>4. In(S) = G
  OBVIOUS
<1>. QED BY <1>3, <1>4 DEF F, SumOf

(* The units on which a side succeeds.                                     *)
Successes(us, who) == {u \in Unit : us[u][who] = "success"}

(* No unit is void, and each has a result of both sides.                   *)
Whole(us) == \A u \in Unit : ~us[u].void /\ \A who \in Rivals : us[u][who] # "none"

(* How many units there are.                                               *)
LEMMA UnitsCount ==
    /\ IsFiniteSet(Unit) /\ Cardinality(Unit) = Cardinality(Skills) * PerSkill
    /\ Cardinality(Skills) \in Nat \ {0} /\ PerSkill \in Nat \ {0}
<1>1. /\ IsFiniteSet(1..PerSkill) /\ Cardinality(1..PerSkill) = PerSkill
      /\ PerSkill \in Nat \ {0}
  BY FS_Interval, SizesAssumption
<1>2. Cardinality(Skills) \in Nat \ {0}
  BY SkillsAssumption, FS_CardinalityType, FS_EmptySet
<1>3. IsFiniteSet(Unit) /\ Cardinality(Unit) = Cardinality(Skills) * Cardinality(1..PerSkill)
  BY <1>1, FS_Product, SkillsAssumption, Zenon DEF Unit
<1>. QED BY <1>1, <1>2, <1>3

(* The average of a side that has a result on every unit is its successes. *)
LEMMA WholeAverage ==
    ASSUME NEW us, Whole(us), NEW who \in Rivals
    PROVE  /\ Present(us, who) = Skills
           /\ \E q \in Nat \ {0} :
                 /\ Product(us, who) = q * PerSkill
                 /\ Numerator(us, who) = q * Cardinality(Successes(us, who))
<1>1. ASSUME NEW s \in Skills
      PROVE  /\ Scored(us, who, s) = {s} \X (1..PerSkill)
             /\ Cardinality(Scored(us, who, s)) = PerSkill
             /\ Scored(us, who, s) # {}
  <2>1. Scored(us, who, s) = {s} \X (1..PerSkill)
    BY DEF Scored, Whole, Unit
  <2>2. /\ IsFiniteSet(1..PerSkill) /\ Cardinality(1..PerSkill) = PerSkill
        /\ PerSkill \in Nat \ {0}
    BY FS_Interval, SizesAssumption
  <2>3. IsFiniteSet({s}) /\ Cardinality({s}) = 1
    BY FS_Singleton
  <2>4. Cardinality({s} \X (1..PerSkill)) = Cardinality({s}) * Cardinality(1..PerSkill)
    BY <2>2, <2>3, FS_Product, Zenon
  <2>5. Cardinality(Scored(us, who, s)) = PerSkill
    BY <2>1, <2>2, <2>3, <2>4
  <2>6. <<s, 1>> \in {s} \X (1..PerSkill)
    BY <2>2
  <2>. QED BY <2>1, <2>5, <2>6
<1>2. Present(us, who) = Skills
  BY <1>1 DEF Present
<1>. DEFINE p == Product(us, who)
            won == [s \in Skills |-> Cardinality(Succeeded(us, who, s))]
<1>3. PICK q \in Nat \ {0} : p = q * PerSkill
  <2>1. PICK s \in Skills : TRUE
    BY SkillsAssumption
  <2>2. CountOf(us, who)[s] = PerSkill
    BY <1>1, <1>2 DEF CountOf
  <2>3. \E q \in Nat \ {0} : p = q * CountOf(us, who)[s]
    BY <1>2, DenominatorType
  <2>. QED BY <2>2, <2>3
<1>4. p \div PerSkill = q
  <2>. HIDE DEF p
  <2>. QED BY <1>3, DivExact, SizesAssumption
<1>5. won \in [Skills -> Nat]
  BY <1>2, PresentCounts
<1>6. \A s \in Skills : Weight(us, who)[s] = won[s] * q
  BY <1>1, <1>2, <1>4 DEF Weight
<1>7. SumOf(won, Skills) = Cardinality(Successes(us, who))
  <2>1. IsFiniteSet(Successes(us, who))
    <3>1. Successes(us, who) \in SUBSET Unit
      BY DEF Successes
    <3>. QED BY <3>1, UnitsCount, FS_Subset
  <2>2. ASSUME NEW s \in Skills
        PROVE  Succeeded(us, who, s) = {u \in Successes(us, who) : u[1] = s}
    <3>1. Succeeded(us, who, s) = {u \in {s} \X (1..PerSkill) : us[u][who] = "success"}
      BY <1>1 DEF Succeeded
    <3>2. \A u : u \in {s} \X (1..PerSkill) <=> u \in Unit /\ u[1] = s
      BY DEF Unit
    <3>. QED BY <3>1, <3>2 DEF Successes
  <2>3. \A u \in Successes(us, who) : u[1] \in Skills
    BY DEF Successes, Unit
  <2>4. \A s \in Skills : won[s] = Cardinality({u \in Successes(us, who) : u[1] = s})
    BY <2>2
  <2>. HIDE DEF won
  <2>. QED BY <1>5, <2>1, <2>3, <2>4, CountByPart, SkillsAssumption
<1>8. Numerator(us, who) = q * SumOf(won, Skills)
  <2>1. Weight(us, who) \in [Skills -> Nat]
    <3>1. Weight(us, who) = [s \in Skills |-> Weight(us, who)[s]]
      BY <1>2 DEF Weight
    <3>2. \A s \in Skills : won[s] * q \in Nat
      BY <1>5
    <3>. HIDE DEF won
    <3>. QED BY <1>6, <3>1, <3>2
  <2>2. \A s \in Skills : 1 * Weight(us, who)[s] = q * won[s]
    <3>1. \A s \in Skills : won[s] \in Nat
      BY <1>5
    <3>. HIDE DEF won
    <3>. QED BY <1>6, <3>1
  <2>3. Numerator(us, who) = SumOf(Weight(us, who), Skills)
    BY <1>2, NumeratorIsFold
  <2>4. 1 \in Nat /\ q \in Nat
    OBVIOUS
  <2>. HIDE DEF won
  <2>5. /\ 1 * SumOf(Weight(us, who), Skills) = q * SumOf(won, Skills)
        /\ SumOf(Weight(us, who), Skills) \in Nat
    BY <1>5, <2>1, <2>2, <2>4, SumsProportional, SkillsAssumption
  <2>. QED BY <2>3, <2>5
<1>. QED BY <1>2, <1>3, <1>7, <1>8

(* The difference of the successes is that of wins and losses.             *)
LEMMA TallyDifference ==
    ASSUME NEW us \in [Unit -> UnitVerdict], Whole(us)
    PROVE  /\ Cardinality(Successes(us, "challenger")) \in Nat
           /\ Cardinality(Successes(us, "king")) \in Nat
           /\ Count(us, "challenger") \in Nat /\ Count(us, "king") \in Nat
           /\ Cardinality(Successes(us, "challenger")) - Cardinality(Successes(us, "king"))
              = Count(us, "challenger") - Count(us, "king")
<1>. DEFINE C == Successes(us, "challenger")  K == Successes(us, "king")
<1>1. IsFiniteSet(C) /\ IsFiniteSet(K)
  <2>1. C \in SUBSET Unit /\ K \in SUBSET Unit
    BY DEF Successes
  <2>. QED BY <2>1, UnitsCount, FS_Subset
<1>2. {u \in Unit : ~us[u].void /\ Outcome(us[u]) = "challenger"} = C \ K
  BY DEF Successes, Outcome, Whole, Rivals, UnitVerdict, Results
<1>3. {u \in Unit : ~us[u].void /\ Outcome(us[u]) = "king"} = K \ C
  BY DEF Successes, Outcome, Whole, Rivals, UnitVerdict, Results
<1>4. Count(us, "challenger") = Cardinality(C \ K) /\ Count(us, "king") = Cardinality(K \ C)
  BY <1>2, <1>3 DEF Count
<1>. HIDE DEF C, K
<1>5. /\ Cardinality(C \ K) = Cardinality(C) - Cardinality(C \cap K)
      /\ Cardinality(K \ C) = Cardinality(K) - Cardinality(K \cap C)
      /\ IsFiniteSet(C \ K) /\ IsFiniteSet(K \ C)
  BY <1>1, FS_Difference
<1>6. C \cap K = K \cap C
  OBVIOUS
<1>7. IsFiniteSet(C \cap K)
  <2>1. C \cap K \in SUBSET C
    OBVIOUS
  <2>. QED BY <1>1, <2>1, FS_Subset
<1>8. /\ Cardinality(C) \in Nat /\ Cardinality(K) \in Nat /\ Cardinality(C \cap K) \in Nat
      /\ Cardinality(C \ K) \in Nat /\ Cardinality(K \ C) \in Nat
  BY <1>1, <1>5, <1>7, FS_CardinalityType
<1>9. Cardinality(C) - Cardinality(K) = Cardinality(C \ K) - Cardinality(K \ C)
  <2>. DEFINE c == Cardinality(C)  k == Cardinality(K)  b == Cardinality(C \cap K)
              w == Cardinality(C \ K)  l == Cardinality(K \ C)
  <2>1. /\ w = c - b /\ l = k - b
        /\ c \in Nat /\ k \in Nat /\ b \in Nat
    BY <1>5, <1>6, <1>8
  <2>. HIDE DEF c, k, b, w, l
  <2>2. c - k = w - l
    BY <2>1
  <2>. QED BY <2>2 DEF c, k, w, l
<1>. QED BY <1>4, <1>8, <1>9 DEF C, K

(* In a whole duel the sign of the excess is that of the tally's margin.   *)
LEMMA WholeExcess ==
    ASSUME NEW us \in [Unit -> UnitVerdict], Whole(us)
    PROVE  /\ \A who \in Rivals : Present(us, who) # {}
           /\ Excess(us) \in Int
           /\ Excess(us) >= 0 <=>
                100 * (Count(us, "challenger") - Count(us, "king"))
                    >= MarginPoints * Cardinality(Unit)
<1>. DEFINE n == Cardinality(Skills)  l == PerSkill  d == Denominator(us, "king")
            c == Cardinality(Successes(us, "challenger"))
            k == Cardinality(Successes(us, "king"))
            z == 100 * (c - k) - MarginPoints * (n * l)
<1>1. SameCounted(us)
  BY DEF SameCounted, Scored, Whole, Unit, Rivals
<1>2. \A who \in Rivals : Present(us, who) = Skills
  BY WholeAverage
<1>3. PICK q \in Nat \ {0} : /\ Product(us, "king") = q * l
                             /\ Numerator(us, "king") = q * k
  BY WholeAverage DEF Rivals
<1>4. PICK r \in Nat \ {0} : /\ Product(us, "challenger") = r * l
                             /\ Numerator(us, "challenger") = r * c
  BY WholeAverage DEF Rivals
<1>5. /\ n \in Nat \ {0} /\ l \in Nat \ {0} /\ c \in Nat /\ k \in Nat
      /\ MarginPoints \in Nat
  BY UnitsCount, TallyDifference, MarginAssumption
<1>6. r = q
  <2>1. r * l = q * l
    BY <1>1, <1>3, <1>4, SameDenominator
  <2>. HIDE DEF l
  <2>2. (r * l) \div l = r /\ (q * l) \div l = q
    BY <1>5, DivExact
  <2>. QED BY <2>1, <2>2
<1>7. d = (q * l) * n /\ Denominator(us, "challenger") = d
  <2>1. Denominator(us, "challenger") = d
    BY <1>1, SameDenominator
  <2>2. "king" \in Rivals
    BY DEF Rivals
  <2>. QED BY <1>2, <1>3, <2>1, <2>2 DEF Denominator
<1>8. Excess(us) = 100 * ((q * c) * d - (q * k) * d) - MarginPoints * d * d
  BY <1>3, <1>4, <1>6, <1>7 DEF Excess
<1>. HIDE DEF n, l, d, c, k
<1>9. d \in Nat \ {0} /\ q * d \in Nat \ {0} /\ n * l \in Nat /\ z \in Int
  <2>1. q * l \in Nat \ {0}
    BY <1>5
  <2>2. d \in Nat \ {0}
    BY <1>5, <1>7, <2>1
  <2>. QED BY <1>5, <2>2
<1>10. Excess(us) = (q * d) * z
  <2>. DEFINE t == q * d  h == MarginPoints * (n * l)
  <2>1. (q * c) * d = t * c /\ (q * k) * d = t * k
    BY <1>5, <1>9
  <2>2. MarginPoints * d * d = t * h
    <3>1. d = q * (n * l)
      BY <1>5, <1>7
    <3>2. MarginPoints * d * d = (MarginPoints * d) * d
      OBVIOUS
    <3>. DEFINE u == n * l
    <3>3. u \in Nat
      BY <1>9
    <3>4. (MarginPoints * d) * (q * u) = (q * d) * (MarginPoints * u)
      <4>. HIDE DEF u
      <4>1. (MarginPoints * d) * (q * u) = (MarginPoints * q) * (d * u)
        BY <1>5, <1>9, <3>3, Reorder
      <4>2. (q * d) * (MarginPoints * u) = (q * MarginPoints) * (d * u)
        BY <1>5, <1>9, <3>3, Reorder
      <4>3. MarginPoints * q = q * MarginPoints
        BY <1>5
      <4>. QED BY <4>1, <4>2, <4>3
    <3>. QED BY <3>1, <3>2, <3>4
  <2>3. t \in Nat /\ h \in Nat /\ z = 100 * (c - k) - h
    BY <1>5, <1>9
  <2>. HIDE DEF t, h, z
  <2>4. t * (100 * (c - k) - h) = 100 * (t * c - t * k) - t * h
    BY <1>5, <2>3
  <2>5. q * d = t
    BY DEF t
  <2>. QED BY <1>8, <2>1, <2>2, <2>3, <2>4, <2>5
<1>11. Excess(us) \in Int /\ (Excess(us) >= 0 <=> z >= 0)
  <2>. DEFINE t == q * d
  <2>1. t \in Nat \ {0} /\ z \in Int /\ Excess(us) = t * z
    BY <1>9, <1>10
  <2>. HIDE DEF t, z
  <2>2. t * z \in Int /\ (z >= 0 => t * z >= 0) /\ (z < 0 => t * z <= -t)
    BY <2>1, SignOf
  <2>. QED BY <2>1, <2>2
<1>12. c - k = Count(us, "challenger") - Count(us, "king")
  BY TallyDifference DEF c, k
<1>13. Cardinality(Unit) = n * l
  BY UnitsCount DEF n, l
<1>14. z >= 0 <=> 100 * (c - k) >= MarginPoints * (n * l)
  BY <1>5, <1>9
<1>15. \A who \in Rivals : Present(us, who) # {}
  BY <1>2, SkillsAssumption
<1>. HIDE DEF z
<1>. QED BY <1>11, <1>12, <1>13, <1>14, <1>15

(* The tally is that of the units, too.                                    *)
TallyInv ==
    /\ units \in [Unit -> UnitVerdict]
    /\ verdict.decided => verdict.tally = Tally(units)

(* Where no unit is void and all are judged, the wins and losses that are  *)
(* published beside the verdict tell the same: the crown moves if and only *)
(* if wins exceed losses by the margin's share of the units.               *)
TallyDecides ==
    verdict.decided /\ verdict.tally.void = 0 /\ Judged =>
        (verdict.moves <=> 100 * (verdict.tally.wins - verdict.tally.losses)
                               >= MarginPoints * Cardinality(Unit))

(* "Paired per-unit outcomes are published as a diagnostic" (tally()) and  *)
(* agree there with the averages that decide (crown_moves()), for any      *)
(* skills and any number of units.                                         *)
THEOREM TallyDecidesHolds ==
    ASSUME 100 * Most < EpsilonInverse
    PROVE  ScoreSpec => []TallyDecides
<1>1. ScoreInit => TallyInv
  BY DEF ScoreInit, TallyInv, Undecided
<1>2. TallyInv /\ [Decide]_<<units, verdict>> => TallyInv'
  <2>. SUFFICES ASSUME TallyInv, [Decide]_<<units, verdict>> PROVE TallyInv'
    OBVIOUS
  <2>1. UNCHANGED units
    BY DEF Decide
  <2>2. Tally(units)' = Tally(units)
    BY <2>1 DEF Tally, Count, VoidUnits
  <2>. QED BY <2>1, <2>2 DEF TallyInv, Decide
<1>3. TallyInv /\ VerdictInv => TallyDecides
  <2>. SUFFICES ASSUME TallyInv, VerdictInv, verdict.decided,
                       verdict.tally.void = 0, Judged
                PROVE  verdict.moves <=>
                         100 * (verdict.tally.wins - verdict.tally.losses)
                             >= MarginPoints * Cardinality(Unit)
    BY DEF TallyDecides
  <2>1. verdict.tally = Tally(units) /\ units \in [Unit -> UnitVerdict]
    BY DEF TallyInv
  <2>2. /\ verdict.tally.wins = Count(units, "challenger")
        /\ verdict.tally.losses = Count(units, "king")
        /\ Cardinality(VoidUnits(units)) = 0
    BY <2>1 DEF Tally
  <2>3. VoidUnits(units) = {}
    <3>1. VoidUnits(units) \in SUBSET Unit
      BY DEF VoidUnits
    <3>2. IsFiniteSet(VoidUnits(units))
      BY <3>1, UnitsCount, FS_Subset
    <3>. QED BY <2>2, <3>2, FS_EmptySet
  <2>4. Whole(units)
    BY <2>3 DEF Whole, VoidUnits, Judged
  <2>5. SameCounted(units)
    BY DEF Judged, SameCounted, Scored, Unit, Rivals
  <2>6. NothingBetween(units)
    BY <2>5, SameTolerance
  <2>7. /\ \A who \in Rivals : Present(units, who) # {}
        /\ Excess(units) >= 0 <=>
             100 * (Count(units, "challenger") - Count(units, "king"))
                 >= MarginPoints * Cardinality(Unit)
    BY <2>1, <2>4, WholeExcess
  <2>8. verdict.moves <=> CrownMoves(units)
    BY DEF VerdictInv
  <2>9. CrownMoves(units) <=> Excess(units) >= 0
    BY <2>6, <2>7, Zenon DEF CrownMoves, NothingBetween
  <2>. QED BY <2>2, <2>7, <2>8, <2>9
<1>. QED BY <1>1, <1>2, <1>3, InitVerdict, StepVerdict, PTL DEF ScoreSpec
-----------------------------------------------------------------------------
(* A duel whose units are the skills' and whose limit is the one of the    *)
(* scoring: VoidLimit void units are no more than MaxVoidPercent of them.  *)
SameUnits ==
    /\ Units = Unit
    /\ 100 * VoidLimit <= MaxVoidPercent * Cardinality(Unit)

(* The unit verdicts as score.py reads them.                               *)
Merged == [u \in Units |-> [void |-> judge[u].void,
                            challenger |-> judge[u].result["challenger"],
                            king |-> judge[u].result["king"]]]

(* A duel is published with no more void units than the limit.             *)
FewVoid == phase = "done" => Cardinality(Voided) <= VoidLimit

(* The void units can be counted.                                         *)
LEMMA FewUnits == IsFiniteSet(Voided) /\ Cardinality(Voided) \in Nat
  BY UnitsAssumption, FS_Subset, FS_CardinalityType DEF Voided

(* A duel begins with no void unit.                                      *)
LEMMA InitFewVoid == Init => FewVoid
  BY DEF Init, FewVoid

(* Only the scoring publishes, and nothing is merged after it.             *)
LEMMA StepFewVoid == JudgedInv /\ FewVoid /\ [Next]_vars => FewVoid'
<1>. SUFFICES ASSUME JudgedInv, FewVoid, [Next]_vars, phase' = "done" PROVE FewVoid'
  BY DEF FewVoid
<1>1. CASE Score
  <2>1. Voided' = Voided /\ ~(Cardinality(Voided) > VoidLimit)
    BY <1>1 DEF Score, Voided
  <2>2. Cardinality(Voided) \in Nat /\ VoidLimit \in Nat
    BY FewUnits, LimitsAssumption
  <2>. QED BY <2>1, <2>2 DEF FewVoid
<1>2. CASE ~Score
  <2>1. phase = "done"
    BY <1>2 DEF Next, Orchestrate, RunnerStep, Begin, Prepare, StartSide, EndSide, NextPhase,
              Poll, Crash, RunUnit, RunnerEnds, RunnerFails, vars
  <2>2. UNCHANGED judge
    <3>1. CASE UNCHANGED vars
      BY <3>1 DEF vars
    <3>2. ASSUME NEW r \in Runners, RunUnit(r) PROVE UNCHANGED judge
      <4>1. site.docker
        BY <2>1, <3>2 DEF RunUnit, JudgedInv, IInv, OneSideAtATime
      <4>. QED BY <3>2, <4>1 DEF RunUnit
    <3>3. ASSUME NEW r \in Runners, RunnerEnds(r) \/ RunnerFails(r) PROVE UNCHANGED judge
      BY <3>3 DEF RunnerEnds, RunnerFails
    <3>. QED BY <1>2, <2>1, <3>1, <3>2, <3>3 DEF Next, Orchestrate, RunnerStep, Begin, Prepare,
                StartSide, EndSide, Poll, Crash
  <2>. QED BY <2>1, <2>2 DEF FewVoid, Voided
<1>. QED BY <1>1, <1>2

(* What a published duel compares: both sides over all the skills.         *)
ComparesAll ==
    phase = "done" /\ (\A u \in Units : ~LostByResuming(u)) =>
        \A s \in Sides : Present(Merged, s) = Skills

(* The orchestrator and the scoring together: however a duel was run and   *)
(* whatever its containers did, a published verdict that lost nothing by   *)
(* resuming compares both sides over every skill, as the units that were   *)
(* merged are all judged and too many void ones fail it (run(), score.py). *)
THEOREM PublishedComparesAll ==
    ASSUME SameUnits
    PROVE  Spec => []ComparesAll
<1>1. JudgedInv /\ FewVoid => ComparesAll
  <2>. SUFFICES ASSUME JudgedInv, FewVoid, phase = "done",
                       \A u \in Units : ~LostByResuming(u), NEW s \in Sides
                PROVE  Present(Merged, s) = Skills
    BY DEF ComparesAll
  <2>1. \A u \in Unit : Merged[u].void \/ Merged[u][s] # "none"
    <3>1. \A u \in Units : judge[u].void \/ judge[u].result[s] # "none"
      BY DEF JudgedInv, SidesJudged, Over, IsJudged, Missed, LostByResuming
    <3>. QED BY <3>1 DEF Merged, SameUnits, Sides
  <2>2. ~TooManyVoid(Merged)
    <3>1. VoidUnits(Merged) = Voided
      BY DEF VoidUnits, Voided, Merged, SameUnits
    <3>2. /\ Cardinality(Voided) \in Nat /\ Cardinality(Voided) <= VoidLimit
          /\ VoidLimit \in Nat
      BY FewUnits, LimitsAssumption DEF FewVoid
    <3>3. /\ Cardinality(Unit) \in Nat /\ MaxVoidPercent \in Nat
      BY UnitsAssumption, VoidAssumption, FS_CardinalityType DEF SameUnits
    <3>4. ~(100 * Cardinality(Voided) > MaxVoidPercent * Cardinality(Unit))
      <4>. DEFINE void == Cardinality(Voided)
                  most == MaxVoidPercent * Cardinality(Unit)
      <4>1. void \in Nat /\ void <= VoidLimit /\ VoidLimit \in Nat /\ most \in Nat
        BY <3>2, <3>3
      <4>2. 100 * VoidLimit <= most
        BY DEF SameUnits
      <4>. HIDE DEF void, most
      <4>3. ~(100 * void > most)
        BY <4>1, <4>2
      <4>. QED BY <4>3 DEF void, most
    <3>. QED BY <3>1, <3>4 DEF TooManyVoid
  <2>. QED BY <2>1, <2>2, EverySkillPresent
<1>. QED BY InitJudged, StepJudged, InitFewVoid, StepFewVoid, <1>1, PTL DEF Spec

(* What decides a published duel: the averages over all the skills, to the *)
(* unit, and no epsilon.                                                   *)
DecidedExactly ==
    phase = "done" /\ (\A u \in Units : ~LostByResuming(u)) =>
        (CrownMoves(Merged) <=> Excess(Merged) >= 0)

(* However a duel was run, the verdict on its merged units (run(),         *)
(* crown_moves()) is the exact comparison: on each unit that is not void   *)
(* both sides were judged, so that their averages have one denominator.    *)
THEOREM PublishedIsExact ==
    ASSUME SameUnits, 100 * Most < EpsilonInverse
    PROVE  Spec => []DecidedExactly
<1>1. JudgedInv /\ ComparesAll => DecidedExactly
  <2>. SUFFICES ASSUME JudgedInv, ComparesAll, phase = "done",
                       \A u \in Units : ~LostByResuming(u)
                PROVE  CrownMoves(Merged) <=> Excess(Merged) >= 0
    BY DEF DecidedExactly
  <2>1. \A u \in Unit : /\ Merged[u].void <=> judge[u].void
                        /\ Merged[u]["challenger"] = judge[u].result["challenger"]
                        /\ Merged[u]["king"] = judge[u].result["king"]
    BY DEF Merged, SameUnits
  <2>2. \A u \in Unit, s \in Sides : judge[u].void \/ judge[u].result[s] # "none"
    BY DEF JudgedInv, SidesJudged, Over, IsJudged, Missed, LostByResuming, SameUnits
  <2>3. \A u \in Unit : \/ Merged[u].void
                        \/ Merged[u]["challenger"] # "none" /\ Merged[u]["king"] # "none"
    BY <2>1, <2>2 DEF Sides
  <2>4. SameCounted(Merged)
    BY <2>3 DEF SameCounted, Scored, Unit
  <2>5. \A s \in Rivals : Present(Merged, s) # {}
    BY SkillsAssumption DEF ComparesAll, Rivals, Sides
  <2>6. NothingBetween(Merged)
    BY <2>4, SameTolerance
  <2>. QED BY <2>5, <2>6 DEF CrownMoves, NothingBetween
<1>. QED BY PublishedComparesAll, InitJudged, StepJudged, <1>1, PTL DEF Spec
=============================================================================
