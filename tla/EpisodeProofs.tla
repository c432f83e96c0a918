--------------------------- MODULE EpisodeProofs ---------------------------
(***************************************************************************)
(* That the actions of a unit come from its own demonstration and its own  *)
(* noise, that no unit outlasts its wall time by more than an act and a    *)
(* chunk, and that a prompt holds the whole of its demonstration, for any  *)
(* units, any budgets, any clock and any demonstrations.                   *)
(***************************************************************************)
EXTENDS Episode, FiniteSetTheorems, NaturalsInduction, WellFoundedInduction, TLAPS

Labels == {"unit", "prompt", "loop", "wait", "step", "ended", "failed", "exited"}
InUnit == {"prompt", "loop", "wait", "step"}
Prompted == {"loop", "wait", "step"}
Act == Units \X Nat \X Nat
Kinds == {"resumed", "wall", "success", "failure", "void"}
Output == [kind : {"running", "raised", "actions", "none", "hold"},
           prompts : SUBSET (Units \cup {NoUnit}), drawn : SUBSET Units]

TodoType == /\ todo \in Seq(Units)
            /\ \A i, j \in DOMAIN todo : todo[i] = todo[j] => i = j
RecordsType == records \in Seq([unit : Units, kind : Kinds])

TypeOK ==
    /\ TodoType /\ RecordsType
    /\ pc \in Labels /\ (pc \in InUnit => todo # <<>>)
    /\ now \in Nat /\ start \in Nat /\ asked \in Nat
    /\ steps \in Nat /\ errors \in Nat
    /\ work \in Seq(Act) /\ drawn \in SUBSET Units /\ lapsed \in BOOLEAN
    /\ prompt.unit \in Units \cup {NoUnit}
    /\ running \in Output /\ answer \in Output
    /\ running # NoAnswer => work # <<>> /\ running.kind \in {"running", "raised"}

(* An act that still occupies the worker is of the unit in hand, once that *)
(* one was prompted, or of a unit that will not come again.                *)
ActsOfPast ==
    \A i \in DOMAIN work, j \in DOMAIN todo :
        work[i][1] = todo[j] => j = 1 /\ pc \in Prompted

Own(out) == out.prompts = {Unit}

OwnPrompt ==
    /\ pc \in Prompted => prompt.unit = Unit
    /\ pc = "wait" => awaited[1] = Unit
    /\ running # NoAnswer /\ todo # <<>> /\ Head(work)[1] = Unit
          => running.prompts \subseteq {Unit}
    /\ pc \in {"wait", "step"} =>
          \/ answer = NoAnswer /\ pc = "wait"
          \/ answer = Hold /\ pc = "step"
          \/ answer.kind = "raised" /\ pc = "wait"
          \/ answer.kind = "actions" /\ answer.prompts = {Unit}

(* As long as no act was given up, the worker has no other work.           *)
OwnNoise ==
    ~lapsed =>
        /\ \/ work = <<>>
           \/ work = <<awaited>> /\ pc = "wait" /\ answer = NoAnswer
        /\ pc \in InUnit =>
              /\ drawn \subseteq {Unit}
              /\ running # NoAnswer => running.drawn \subseteq {Unit}
              /\ pc \in {"wait", "step"} /\ answer.kind = "actions"
                    => answer.drawn = {Unit}

PromptInv == TypeOK /\ ActsOfPast /\ OwnPrompt /\ OwnNoise

(* How far the clock can be at each place of the unit in hand.             *)
UnitClock ==
    /\ pc = "prompt" => now = start
    /\ pc = "loop" => now - start <= UnitWall + HardTimeout + 1
    /\ pc = "wait" => /\ asked - start <= UnitWall
                      /\ now <= asked + HardTimeout
    /\ pc = "step" => now - start <= UnitWall + HardTimeout

(* Once the side's wall time has voided a unit, no unit is begun.          *)
SideClock ==
    /\ \A i \in DOMAIN records :
          records[i].kind = "wall" => OutOfTime /\ pc \notin InUnit
    /\ \A i, j \in DOMAIN records :
          i < j /\ records[i].kind = "wall" => records[j].kind = "wall"

ClockInv == TypeOK /\ UnitClock /\ SideClock
-----------------------------------------------------------------------------
(* The constants are what the named assumptions of Episode say.            *)
LEMMA Constants ==
    /\ Order \in Seq(Units) /\ IsInjective(Order)
    /\ UnitWall \in Nat /\ HardTimeout \in Nat /\ SideWall \in Nat
    /\ ExecHorizon \in Nat \ {0}
BY OrderAssumption, BudgetAssumption DEF Units

(* A part of the order is a sequence of different units.                   *)
LEMMA InOrderSeq ==
    ASSUME NEW places \in SUBSET DOMAIN Order, NEW s \in InOrder(places)
    PROVE  /\ s \in Seq(Units)
           /\ \A i, j \in DOMAIN s : s[i] = s[j] => i = j
<1>1. IsFiniteSet(places) /\ Cardinality(places) \in Nat
  <2>1. DOMAIN Order = 1..Len(Order) /\ Len(Order) \in Nat
    BY Constants
  <2>2. IsFiniteSet(1..Len(Order))
    BY <2>1, FS_Interval
  <2>3. IsFiniteSet(places)
    BY <2>1, <2>2, FS_Subset
  <2>. QED BY <2>3, FS_CardinalityType
<1>2. PICK at \in Injection(1..Cardinality(places), places) :
         s = [i \in DOMAIN at |-> Order[at[i]]]
  BY DEF InOrder
<1>3. /\ at \in [1..Cardinality(places) -> places]
      /\ \A i, j \in DOMAIN at : at[i] = at[j] => i = j
  BY <1>2 DEF Injection, IsInjective
<1>4. s \in [1..Cardinality(places) -> Units]
  <2>1. \A k \in places : Order[k] \in Units
    BY Constants
  <2>. QED BY <1>2, <1>3, <2>1
<1>5. ASSUME NEW i \in DOMAIN s, NEW j \in DOMAIN s, s[i] = s[j] PROVE i = j
  <2>1. DOMAIN s = DOMAIN at /\ at[i] \in DOMAIN Order /\ at[j] \in DOMAIN Order
    BY <1>2, <1>3, <1>5
  <2>2. Order[at[i]] = Order[at[j]]
    BY <1>2, <1>5, <2>1
  <2>3. at[i] = at[j]
    BY <2>1, <2>2, Constants DEF IsInjective
  <2>. QED BY <1>3, <2>1, <2>3
<1>. QED BY <1>1, <1>4, <1>5

(* The unit in hand is the first of those without a record, and once it    *)
(* has one it is none of them.                                             *)
LEMMA UnitInHand ==
    ASSUME TypeOK, todo # <<>>
    PROVE  /\ Unit \in Units /\ Unit = todo[1] /\ 1 \in DOMAIN todo
           /\ Tail(todo) \in Seq(Units)
           /\ \A i, j \in DOMAIN Tail(todo) :
                 Tail(todo)[i] = Tail(todo)[j] => i = j
           /\ \A j \in DOMAIN Tail(todo) :
                 Tail(todo)[j] # Unit /\ \E k \in DOMAIN todo : Tail(todo)[j] = todo[k]
<1>1. todo \in Seq(Units) /\ \A i, j \in DOMAIN todo : todo[i] = todo[j] => i = j
  BY DEF TypeOK, TodoType
<1>2. /\ Len(Tail(todo)) = Len(todo) - 1 /\ Tail(todo) \in Seq(Units)
      /\ \A j \in 1..Len(Tail(todo)) : Tail(todo)[j] = todo[j + 1]
  BY <1>1
<1>. QED BY <1>1, <1>2 DEF Unit

(* An episode that ends leaves its record, and the next unit.            *)
LEMMA FinishType ==
    ASSUME TypeOK, todo # <<>>, NEW kind \in Kinds, Finish(kind)
    PROVE  TodoType' /\ RecordsType' /\ pc' = "unit"
<1>1. Line(Unit, kind) \in [unit : Units, kind : Kinds]
  BY UnitInHand DEF Line
<1>. QED BY <1>1, UnitInHand DEF Finish, TypeOK, TodoType, RecordsType

(* What a future can hold besides the outcome of an act.                   *)
LEMMA Answers ==
    /\ NoAnswer \in Output /\ Hold \in Output
    /\ NoAnswer.kind = "none" /\ Hold.kind = "hold"
BY DEF NoAnswer, Hold, Output

-----------------------------------------------------------------------------
(* A container begins well typed.                                        *)
LEMMA InitType == Init => TypeOK
<1>. SUFFICES ASSUME Init PROVE TypeOK
  OBVIOUS
<1>1. PICK resumed \in SUBSET DOMAIN Order :
         /\ todo \in InOrder((DOMAIN Order) \ resumed)
         /\ \E us \in InOrder(resumed) :
               records = [i \in DOMAIN us |-> Line(us[i], "resumed")]
  BY DEF Init
<1>2. PICK us \in InOrder(resumed) :
         records = [i \in DOMAIN us |-> Line(us[i], "resumed")]
  BY <1>1
<1>3. us \in Seq(Units)
  BY InOrderSeq
<1>4. \A i \in DOMAIN us : Line(us[i], "resumed") \in [unit : Units, kind : Kinds]
  BY <1>3 DEF Line, Kinds
<1>5. RecordsType
  <2>1. DOMAIN us = 1..Len(us) /\ Len(us) \in Nat
    BY <1>3
  <2>. DEFINE Lines == [unit : Units, kind : Kinds]
  <2>2. records \in [1..Len(us) -> Lines]
    BY <1>2, <1>4, <2>1
  <2>. HIDE DEF Lines
  <2>3. records \in Seq(Lines)
    BY <2>1, <2>2
  <2>. QED BY <2>3 DEF RecordsType, Lines
<1>6. TodoType
  BY <1>1, InOrderSeq DEF TodoType
<1>7. prompt.unit = NoUnit
  BY DEF Init, NoPrompt
<1>8. work \in Seq(Act) /\ running = NoAnswer /\ answer = NoAnswer
  BY DEF Init
<1>. QED BY <1>5, <1>6, <1>7, <1>8, Answers DEF Init, TypeOK, Labels, InUnit

(* Each step keeps the types.                                            *)
LEMMA StepType == TypeOK /\ [Next]_vars => TypeOK'
<1>. SUFFICES ASSUME TypeOK, [Next]_vars PROVE TypeOK'
  OBVIOUS
<1>. USE DEF TodoType, RecordsType
<1>1. CASE Load
  BY <1>1 DEF Load, Takes, episode, model, worker, waiting, TypeOK, Labels, InUnit
<1>2. CASE Unload
  BY <1>2 DEF Unload, Takes, episode, model, worker, waiting, TypeOK, Labels, InUnit
<1>3. CASE End
  BY <1>3 DEF End, Takes, episode, model, worker, waiting, TypeOK, Labels, InUnit
<1>4. CASE Fail
  BY <1>4 DEF Fail, Takes, episode, model, worker, waiting, TypeOK, Labels, InUnit
<1>5. CASE TimedOut
  <2>1. TodoType' /\ RecordsType' /\ pc' = "unit"
    BY <1>5, FinishType DEF TimedOut, Kinds
  <2>. QED BY <1>5, <2>1 DEF TimedOut, episode, model, worker, waiting, TypeOK, Labels, InUnit
<1>6. CASE Seed
  BY <1>6 DEF Seed, episode, model, worker, waiting, TypeOK, Labels, InUnit
<1>7. CASE SetPrompt
  <2>1. todo # <<>> /\ Unit \in Units
    BY <1>7, UnitInHand DEF SetPrompt, TypeOK, InUnit
  <2>2. prompt'.unit = Unit
    BY <1>7 DEF SetPrompt, Built
  <2>3. /\ now' \in Nat /\ pc' = "loop"
        /\ UNCHANGED <<todo, records, loaded, drawn, episode, worker, waiting>>
    BY <1>7 DEF SetPrompt, Takes, TypeOK
  <2>. QED BY <2>1, <2>2, <2>3 DEF episode, model, worker, waiting, TypeOK, Labels, InUnit
<1>8. CASE Void
  <2>1. TodoType' /\ RecordsType' /\ pc' = "unit"
    BY <1>8, FinishType DEF Void, Kinds, TypeOK, InUnit
  <2>. QED BY <1>8, <2>1, Answers DEF Void, Takes, episode, model, worker, waiting, TypeOK, Labels, InUnit
<1>9. CASE Judge
  <2>1. TodoType' /\ RecordsType' /\ pc' = "unit"
    BY <1>9, FinishType DEF Judge, Kinds, TypeOK, InUnit
  <2>. QED BY <1>9, <2>1 DEF Judge, episode, model, worker, waiting, TypeOK, Labels, InUnit
<1>10. CASE Submit
  <2>1. todo # <<>> /\ <<Unit, steps, errors>> \in Act
    BY <1>10, UnitInHand DEF Submit, TypeOK, InUnit, Act
  <2>2. work' \in Seq(Act) /\ work' # <<>>
    BY <1>10, <2>1 DEF Submit, TypeOK
  <2>. QED BY <1>10, <2>1, <2>2, Answers DEF Submit, episode, model, worker, waiting, TypeOK, Labels, InUnit
<1>11. CASE Wait
  BY <1>11 DEF Wait, Takes, episode, model, worker, waiting, TypeOK, Labels, InUnit
<1>12. CASE Timeout
  <2>1. todo # <<>>
    BY <1>12 DEF Timeout, TypeOK, InUnit
  <2>2. errors' \in Nat /\ answer' = Hold
    BY <1>12 DEF Timeout, Erred, TypeOK
  <2>3. /\ TodoType' /\ RecordsType'
        /\ pc' = "unit" \/ (pc' = "step" /\ UNCHANGED todo)
    BY <1>12, <2>1, FinishType DEF Timeout, Erred, Kinds, TypeOK
  <2>. QED BY <1>12, <2>1, <2>2, <2>3, Answers DEF Timeout, episode, model, worker, waiting, TypeOK, Labels, InUnit
<1>13. CASE Raised
  <2>1. todo # <<>>
    BY <1>13 DEF Raised, TypeOK, InUnit
  <2>2. errors' \in Nat /\ answer' = Hold
    BY <1>13 DEF Raised, Erred, TypeOK
  <2>3. /\ TodoType' /\ RecordsType'
        /\ pc' = "unit" \/ (pc' = "step" /\ UNCHANGED todo)
    BY <1>13, <2>1, FinishType DEF Raised, Erred, Kinds, TypeOK
  <2>. QED BY <1>13, <2>1, <2>2, <2>3, Answers DEF Raised, episode, model, worker, waiting, TypeOK, Labels, InUnit
<1>14. CASE Answered
  BY <1>14 DEF Answered, Takes, episode, model, worker, waiting, TypeOK, Labels, InUnit
<1>15. CASE StepLibero
  <2>1. todo # <<>> /\ steps' \in Nat
    BY <1>15, Constants DEF StepLibero, TypeOK, InUnit
  <2>2. /\ TodoType' /\ RecordsType'
        /\ pc' = "unit" \/ (pc' = "loop" /\ UNCHANGED todo)
    BY <1>15, <2>1, FinishType DEF StepLibero, Kinds, TypeOK
  <2>. QED BY <1>15, <2>1, <2>2, Answers DEF StepLibero, Takes, episode, model, worker, waiting, TypeOK, Labels, InUnit
<1>16. CASE StepDraw
  <2>1. todo # <<>> /\ steps' \in Nat
    BY <1>16, Constants DEF StepDraw, TypeOK, InUnit
  <2>2. /\ TodoType' /\ RecordsType'
        /\ pc' = "unit" \/ (pc' = "loop" /\ UNCHANGED todo)
    BY <1>16, <2>1, FinishType DEF StepDraw, Kinds, TypeOK
  <2>. QED BY <1>16, <2>1, <2>2, Answers DEF StepDraw, Takes, episode, model, worker, waiting, TypeOK, Labels, InUnit
<1>17. CASE Exit
  BY <1>17 DEF Exit, Takes, episode, model, worker, waiting, TypeOK, Labels, InUnit
<1>18. CASE StartAct
  <2>1. work[1] \in Act /\ Head(work) = work[1]
    BY <1>18 DEF StartAct, TypeOK
  <2>2. work[1][1] \in Units
    BY <2>1 DEF Act
  <2>3. /\ drawn' \in SUBSET Units /\ running' \in Output
        /\ running'.kind \in {"running", "raised"}
    BY <1>18, <2>1, <2>2 DEF StartAct, TypeOK, Output
  <2>. QED BY <1>18, <2>3 DEF StartAct, episode, model, worker, waiting, TypeOK, Labels, InUnit
<1>19. CASE FinishAct
  <2>1. work[1] \in Act /\ Head(work) = work[1] /\ Tail(work) \in Seq(Act)
    BY <1>19 DEF FinishAct, TypeOK
  <2>2. work[1][1] \in Units
    BY <2>1 DEF Act
  <2>3. drawn' \in SUBSET Units /\ answer' \in Output
    BY <1>19, <2>1, <2>2 DEF FinishAct, TypeOK, Output
  <2>. QED BY <1>19, <2>1, <2>3, Answers DEF FinishAct, episode, model, worker, waiting, TypeOK, Labels, InUnit
<1>20. CASE UNCHANGED vars
  BY <1>20 DEF vars, episode, model, worker, waiting, TypeOK, Labels, InUnit
<1>. QED BY <1>1, <1>2, <1>3, <1>4, <1>5, <1>6, <1>7, <1>8, <1>9, <1>10, <1>11, <1>12, <1>13, <1>14, <1>15, <1>16, <1>17, <1>18, <1>19, <1>20
         DEF Next, Main, Worker

(* Every variable of a side stays in its type, for any units and budgets.  *)
THEOREM Typing == Spec => []TypeOK
BY InitType, StepType, PTL DEF Spec
-----------------------------------------------------------------------------
(* At first no record tells of a clock.                                  *)
LEMMA InitClock == Init => ClockInv
<1>. SUFFICES ASSUME Init PROVE ClockInv
  OBVIOUS
<1>1. PICK us : records = [i \in DOMAIN us |-> Line(us[i], "resumed")]
  BY DEF Init
<1>2. \A i \in DOMAIN records : records[i].kind # "wall"
  BY <1>1 DEF Line
<1>. QED BY <1>2, InitType DEF Init, ClockInv, UnitClock, SideClock

(* A unit's record says that the side's wall time voided it only where it  *)
(* has, and then no other unit is in hand.                                 *)
LEMMA FinishSideClock ==
    ASSUME ClockInv, pc \in InUnit, now' \in Nat, now' >= now,
           NEW kind \in Kinds \ {"wall"}, Finish(kind)
    PROVE  SideClock'
<1>1. \A i \in DOMAIN records : records[i].kind # "wall"
  BY DEF ClockInv, SideClock
<1>2. Line(Unit, kind).kind # "wall"
  BY DEF Line
<1>3. /\ DOMAIN records' = 1..(Len(records) + 1) /\ Len(records) \in Nat
      /\ \A i \in DOMAIN records' :
            records'[i] = IF i = Len(records) + 1 THEN Line(Unit, kind) ELSE records[i]
      /\ DOMAIN records = 1..Len(records)
  BY DEF Finish, ClockInv, TypeOK, RecordsType
<1>4. \A i \in DOMAIN records' : records'[i].kind # "wall"
  BY <1>1, <1>2, <1>3
<1>. QED BY <1>4 DEF SideClock

(* Each step keeps the clocks within their bounds.                       *)
LEMMA StepClock == ClockInv /\ [Next]_vars => ClockInv'
<1>. SUFFICES ASSUME ClockInv, [Next]_vars PROVE (UnitClock /\ SideClock)'
  BY StepType DEF ClockInv
<1>. USE Constants
<1>1. CASE Load
  BY <1>1 DEF Load, Takes, UnitOver, ClockInv, UnitClock, SideClock, OutOfTime, TypeOK, InUnit, episode, model, worker, waiting
<1>2. CASE Unload
  BY <1>2 DEF Unload, Takes, UnitOver, ClockInv, UnitClock, SideClock, OutOfTime, TypeOK, InUnit, episode, model, worker, waiting
<1>3. CASE End
  BY <1>3 DEF End, Takes, UnitOver, ClockInv, UnitClock, SideClock, OutOfTime, TypeOK, InUnit, episode, model, worker, waiting
<1>4. CASE Fail
  BY <1>4 DEF Fail, Takes, UnitOver, ClockInv, UnitClock, SideClock, OutOfTime, TypeOK, InUnit, episode, model, worker, waiting
<1>5. CASE TimedOut
  <2>1. Line(Unit, "wall").kind = "wall" /\ OutOfTime' /\ pc' = "unit"
    BY <1>5 DEF TimedOut, Finish, Line, OutOfTime
  <2>2. /\ DOMAIN records' = 1..(Len(records) + 1) /\ Len(records) \in Nat
        /\ \A i \in DOMAIN records' :
              records'[i] = IF i = Len(records) + 1 THEN Line(Unit, "wall") ELSE records[i]
        /\ DOMAIN records = 1..Len(records)
    BY <1>5 DEF TimedOut, Finish, ClockInv, TypeOK, RecordsType
  <2>. QED BY <2>1, <2>2 DEF UnitClock, SideClock, ClockInv, InUnit
<1>6. CASE Seed
  BY <1>6 DEF Seed, Takes, UnitOver, ClockInv, UnitClock, SideClock, OutOfTime, TypeOK, InUnit, episode, model, worker, waiting
<1>7. CASE SetPrompt
  BY <1>7 DEF SetPrompt, Takes, UnitOver, ClockInv, UnitClock, SideClock, OutOfTime, TypeOK, InUnit, episode, model, worker, waiting
<1>8. CASE Void
  <2>1. /\ now' \in Nat /\ now' >= now /\ pc \in InUnit
        /\ \/ \E kind \in Kinds \ {"wall"} : Finish(kind)
           \/ pc' = "none" /\ UNCHANGED records
    BY <1>8 DEF Void, Erred, Takes, Kinds, ClockInv, TypeOK, InUnit, episode
  <2>2. SideClock'
    <3>1. CASE \E kind \in Kinds \ {"wall"} : Finish(kind)
      BY <2>1, <3>1, FinishSideClock
    <3>2. CASE pc' = "none" /\ UNCHANGED records
      BY <2>1, <3>2 DEF ClockInv, UnitClock, SideClock, OutOfTime, TypeOK, InUnit, episode, model, worker, waiting
    <3>. QED BY <2>1, <3>1, <3>2
  <2>. QED BY <1>8, <2>2 DEF Void, Erred, Finish, Takes, UnitClock, ClockInv, TypeOK, episode
<1>9. CASE Judge
  <2>1. /\ now' \in Nat /\ now' >= now /\ pc \in InUnit
        /\ \/ \E kind \in Kinds \ {"wall"} : Finish(kind)
           \/ pc' = "none" /\ UNCHANGED records
    BY <1>9 DEF Judge, Erred, Takes, Kinds, ClockInv, TypeOK, InUnit, episode
  <2>2. SideClock'
    <3>1. CASE \E kind \in Kinds \ {"wall"} : Finish(kind)
      BY <2>1, <3>1, FinishSideClock
    <3>2. CASE pc' = "none" /\ UNCHANGED records
      BY <2>1, <3>2 DEF ClockInv, UnitClock, SideClock, OutOfTime, TypeOK, InUnit, episode, model, worker, waiting
    <3>. QED BY <2>1, <3>1, <3>2
  <2>. QED BY <1>9, <2>2 DEF Judge, Erred, Finish, Takes, UnitClock, ClockInv, TypeOK, episode
<1>10. CASE Submit
  BY <1>10 DEF Submit, Takes, UnitOver, ClockInv, UnitClock, SideClock, OutOfTime, TypeOK, InUnit, episode, model, worker, waiting
<1>11. CASE Wait
  BY <1>11 DEF Wait, Takes, UnitOver, ClockInv, UnitClock, SideClock, OutOfTime, TypeOK, InUnit, episode, model, worker, waiting
<1>12. CASE Timeout
  <2>1. /\ now' \in Nat /\ now' >= now /\ pc \in InUnit
        /\ \/ \E kind \in Kinds \ {"wall"} : Finish(kind)
           \/ pc' = "step" /\ UNCHANGED records
    BY <1>12 DEF Timeout, Erred, Takes, Kinds, ClockInv, TypeOK, InUnit, episode
  <2>2. SideClock'
    <3>1. CASE \E kind \in Kinds \ {"wall"} : Finish(kind)
      BY <2>1, <3>1, FinishSideClock
    <3>2. CASE pc' = "step" /\ UNCHANGED records
      BY <2>1, <3>2 DEF ClockInv, UnitClock, SideClock, OutOfTime, TypeOK, InUnit, episode, model, worker, waiting
    <3>. QED BY <2>1, <3>1, <3>2
  <2>. QED BY <1>12, <2>2 DEF Timeout, Erred, Finish, Takes, UnitClock, ClockInv, TypeOK, episode
<1>13. CASE Raised
  <2>1. /\ now' \in Nat /\ now' >= now /\ pc \in InUnit
        /\ \/ \E kind \in Kinds \ {"wall"} : Finish(kind)
           \/ pc' = "step" /\ UNCHANGED records
    BY <1>13 DEF Raised, Erred, Takes, Kinds, ClockInv, TypeOK, InUnit, episode
  <2>2. SideClock'
    <3>1. CASE \E kind \in Kinds \ {"wall"} : Finish(kind)
      BY <2>1, <3>1, FinishSideClock
    <3>2. CASE pc' = "step" /\ UNCHANGED records
      BY <2>1, <3>2 DEF ClockInv, UnitClock, SideClock, OutOfTime, TypeOK, InUnit, episode, model, worker, waiting
    <3>. QED BY <2>1, <3>1, <3>2
  <2>. QED BY <1>13, <2>2 DEF Raised, Erred, Finish, Takes, UnitClock, ClockInv, TypeOK, episode
<1>14. CASE Answered
  BY <1>14 DEF Answered, Takes, UnitOver, ClockInv, UnitClock, SideClock, OutOfTime, TypeOK, InUnit, episode, model, worker, waiting
<1>15. CASE StepLibero
  <2>1. /\ now' \in Nat /\ now' >= now /\ pc \in InUnit
        /\ \/ \E kind \in Kinds \ {"wall"} : Finish(kind)
           \/ pc' = "loop" /\ UNCHANGED records
    BY <1>15 DEF StepLibero, Erred, Takes, Kinds, ClockInv, TypeOK, InUnit, episode
  <2>2. SideClock'
    <3>1. CASE \E kind \in Kinds \ {"wall"} : Finish(kind)
      BY <2>1, <3>1, FinishSideClock
    <3>2. CASE pc' = "loop" /\ UNCHANGED records
      BY <2>1, <3>2 DEF ClockInv, UnitClock, SideClock, OutOfTime, TypeOK, InUnit, episode, model, worker, waiting
    <3>. QED BY <2>1, <3>1, <3>2
  <2>. QED BY <1>15, <2>2 DEF StepLibero, Erred, Finish, Takes, UnitClock, ClockInv, TypeOK, episode
<1>16. CASE StepDraw
  <2>1. /\ now' \in Nat /\ now' >= now /\ pc \in InUnit
        /\ \/ \E kind \in Kinds \ {"wall"} : Finish(kind)
           \/ pc' = "loop" /\ UNCHANGED records
    BY <1>16 DEF StepDraw, Erred, Takes, Kinds, ClockInv, TypeOK, InUnit, episode
  <2>2. SideClock'
    <3>1. CASE \E kind \in Kinds \ {"wall"} : Finish(kind)
      BY <2>1, <3>1, FinishSideClock
    <3>2. CASE pc' = "loop" /\ UNCHANGED records
      BY <2>1, <3>2 DEF ClockInv, UnitClock, SideClock, OutOfTime, TypeOK, InUnit, episode, model, worker, waiting
    <3>. QED BY <2>1, <3>1, <3>2
  <2>. QED BY <1>16, <2>2 DEF StepDraw, Erred, Finish, Takes, UnitClock, ClockInv, TypeOK, episode
<1>17. CASE Exit
  BY <1>17 DEF Exit, Takes, UnitOver, ClockInv, UnitClock, SideClock, OutOfTime, TypeOK, InUnit, episode, model, worker, waiting
<1>18. CASE StartAct
  BY <1>18 DEF StartAct, Takes, UnitOver, ClockInv, UnitClock, SideClock, OutOfTime, TypeOK, InUnit, episode, model, worker, waiting
<1>19. CASE FinishAct
  BY <1>19 DEF FinishAct, Takes, UnitOver, ClockInv, UnitClock, SideClock, OutOfTime, TypeOK, InUnit, episode, model, worker, waiting
<1>20. CASE UNCHANGED vars
  BY <1>20 DEF vars, ClockInv, UnitClock, SideClock, OutOfTime, TypeOK, InUnit, episode, model, worker, waiting
<1>. QED BY <1>1, <1>2, <1>3, <1>4, <1>5, <1>6, <1>7, <1>8, <1>9, <1>10, <1>11, <1>12, <1>13, <1>14, <1>15, <1>16, <1>17, <1>18, <1>19, <1>20
         DEF Next, Main, Worker

(* A unit outlasts its wall time by no more than one act and one chunk of  *)
(* steps, and once the side's wall time has voided a unit it voids all the *)
(* rest (sim/episode.py, run_side).                                        *)
THEOREM UnitsEndInTime == Spec => []WallTimes
<1>1. ClockInv => WallTimes
  BY Constants DEF ClockInv, UnitClock, SideClock, WallTimes, TypeOK, InUnit
<1>. QED BY InitClock, StepClock, <1>1, PTL DEF Spec-----------------------------------------------------------------------------
(* At first no prompt is out.                                            *)
LEMMA InitPrompt == Init => PromptInv
<1>. SUFFICES ASSUME Init PROVE PromptInv
  OBVIOUS
<1>1. /\ work = <<>> /\ DOMAIN work = {} /\ pc = "unit" /\ running = NoAnswer
      /\ drawn = {}
  BY DEF Init
<1>. QED BY <1>1, InitType DEF PromptInv, ActsOfPast, OwnPrompt, OwnNoise,
             Prompted, InUnit

(* When the unit in hand has its record, every act that is left over is of *)
(* the past.                                                               *)
LEMMA FinishPastActs ==
    ASSUME PromptInv, pc \in InUnit, NEW kind \in Kinds, Finish(kind),
           UNCHANGED <<work, running>>
    PROVE  ActsOfPast' /\ OwnPrompt' /\ pc' = "unit"
<1>1. todo # <<>> /\ todo' = Tail(todo) /\ pc' = "unit"
  BY DEF Finish, PromptInv, TypeOK
<1>2. TypeOK
  BY DEF PromptInv
<1>3. \A j \in DOMAIN todo' :
         todo'[j] # Unit /\ \E k \in DOMAIN todo : todo'[j] = todo[k]
  BY <1>1, <1>2, UnitInHand
<1>4. \A i \in DOMAIN work, j \in DOMAIN todo' : work[i][1] # todo'[j]
  BY <1>1, <1>2, <1>3, UnitInHand DEF PromptInv, ActsOfPast
<1>5. todo' \in Seq(Units) /\ (todo' # <<>> => 1 \in DOMAIN todo' /\ Unit' = todo'[1])
  BY <1>1, <1>2, UnitInHand DEF Unit
<1>6. running # NoAnswer => 1 \in DOMAIN work /\ Head(work) = work[1]
  BY <1>2 DEF TypeOK
<1>7. running # NoAnswer /\ todo' # <<>> => Head(work)[1] # Unit'
  BY <1>4, <1>5, <1>6
<1>. QED BY <1>1, <1>4, <1>7 DEF ActsOfPast, OwnPrompt, Prompted

(* An act that runs beyond its episode has that episode's prompt.        *)
LEMMA FinishPast ==
    ASSUME PromptInv, pc \in InUnit, NEW kind \in Kinds, Finish(kind),
           UNCHANGED <<work, running, lapsed>>,
           ~lapsed => work = <<>>
    PROVE  ActsOfPast' /\ OwnPrompt' /\ OwnNoise'
BY FinishPastActs DEF OwnNoise, InUnit

(* Each step keeps acts to the prompt and the noise of their units.      *)
LEMMA StepPrompt == PromptInv /\ [Next]_vars => PromptInv'
<1>. SUFFICES ASSUME PromptInv, [Next]_vars
              PROVE ActsOfPast' /\ OwnPrompt' /\ OwnNoise'
  BY StepType DEF PromptInv
<1>. TypeOK
  BY DEF PromptInv
<1>. USE Answers
<1>1. CASE Load
  BY <1>1 DEF Load, PromptInv, ActsOfPast, OwnPrompt, OwnNoise, Unit, Prompted, InUnit, TypeOK, episode, model, worker, waiting
<1>2. CASE Unload
  BY <1>2 DEF Unload, PromptInv, ActsOfPast, OwnPrompt, OwnNoise, Unit, Prompted, InUnit, TypeOK, episode, model, worker, waiting
<1>3. CASE End
  BY <1>3 DEF End, PromptInv, ActsOfPast, OwnPrompt, OwnNoise, Unit, Prompted, InUnit, TypeOK, episode, model, worker, waiting
<1>4. CASE Fail
  BY <1>4 DEF Fail, PromptInv, ActsOfPast, OwnPrompt, OwnNoise, Unit, Prompted, InUnit, TypeOK, episode, model, worker, waiting
<1>5. CASE TimedOut
  <2>1. /\ todo # <<>> /\ todo' = Tail(todo) /\ pc' = "unit" /\ pc = "unit"
        /\ UNCHANGED <<work, running, lapsed>>
    BY <1>5 DEF TimedOut, Finish, worker, waiting
  <2>2. \A j \in DOMAIN todo' : \E k \in DOMAIN todo : todo'[j] = todo[k]
    BY <2>1, UnitInHand
  <2>3. \A i \in DOMAIN work, j \in DOMAIN todo' : work[i][1] # todo'[j]
    BY <2>1, <2>2 DEF PromptInv, ActsOfPast, Prompted
  <2>4. todo' # <<>> => 1 \in DOMAIN todo' /\ Unit' = todo'[1]
    BY <2>1, UnitInHand DEF Unit
  <2>5. running # NoAnswer => 1 \in DOMAIN work /\ Head(work) = work[1]
    BY DEF TypeOK
  <2>6. running # NoAnswer /\ todo' # <<>> => Head(work)[1] # Unit'
    BY <2>3, <2>4, <2>5
  <2>7. ~lapsed => work = <<>>
    BY <2>1 DEF PromptInv, OwnNoise
  <2>. QED BY <2>1, <2>3, <2>6, <2>7 DEF ActsOfPast, OwnPrompt, OwnNoise, Prompted, InUnit
<1>6. CASE Seed
  BY <1>6 DEF Seed, PromptInv, ActsOfPast, OwnPrompt, OwnNoise, Unit, Prompted, InUnit, TypeOK, episode, model, worker, waiting
<1>7. CASE SetPrompt
  <2>1. prompt'.unit = Unit
    BY <1>7 DEF SetPrompt, Built
  <2>. QED BY <1>7, <2>1 DEF SetPrompt, PromptInv, ActsOfPast, OwnPrompt, OwnNoise, Unit, Prompted, InUnit, TypeOK, episode, model, worker, waiting
<1>8. CASE Void
  <2>1. /\ pc \in InUnit /\ pc # "wait" /\ UNCHANGED <<work, running, lapsed>>
        /\ \E kind \in Kinds : Finish(kind)
    BY <1>8 DEF Void, InUnit, Kinds, worker, waiting
  <2>2. ~lapsed => work = <<>>
    BY <2>1 DEF PromptInv, OwnNoise
  <2>. QED BY <2>1, <2>2, FinishPast
<1>9. CASE Judge
  <2>1. /\ pc \in InUnit /\ pc # "wait" /\ UNCHANGED <<work, running, lapsed>>
        /\ \E kind \in Kinds : Finish(kind)
    BY <1>9 DEF Judge, InUnit, Kinds, worker, waiting
  <2>2. ~lapsed => work = <<>>
    BY <2>1 DEF PromptInv, OwnNoise
  <2>. QED BY <2>1, <2>2, FinishPast
<1>10. CASE Submit
  <2>1. /\ todo # <<>> /\ Unit = todo[1] /\ 1 \in DOMAIN todo
        /\ \A i, j \in DOMAIN todo : todo[i] = todo[j] => i = j
    BY <1>10, UnitInHand DEF Submit, TypeOK, TodoType, InUnit
  <2>. DEFINE act == <<Unit, steps, errors>>
  <2>2. /\ work' = Append(work, act) /\ awaited' = act /\ pc' = "wait" /\ pc = "loop"
        /\ answer' = NoAnswer
        /\ UNCHANGED <<todo, prompt, drawn, running, lapsed>>
    BY <1>10 DEF Submit, episode, model
  <2>3. act[1] = Unit
    OBVIOUS
  <2>. HIDE DEF act
  <2>4. /\ work \in Seq(Act) /\ DOMAIN work' = 1..(Len(work) + 1) /\ Len(work) \in Nat
        /\ \A i \in DOMAIN work' : work'[i] = IF i = Len(work) + 1 THEN act ELSE work[i]
        /\ DOMAIN work = 1..Len(work)
    <3>1. act \in Act
      BY <2>1, UnitInHand DEF act, Act, TypeOK
    <3>. QED BY <2>2, <3>1 DEF TypeOK
  <2>8. work = <<>> => work' = <<act>>
    BY <2>2
  <2>9. running # NoAnswer => Head(work') = Head(work)
    <3>1. work # <<>> => Head(work') = Head(work)
      BY <2>2, <2>4
    <3>. QED BY <3>1 DEF TypeOK
  <2>5. ActsOfPast'
    BY <2>1, <2>2, <2>3, <2>4 DEF PromptInv, ActsOfPast, Prompted
  <2>6. OwnPrompt'
    BY <2>1, <2>2, <2>3, <2>9 DEF PromptInv, OwnPrompt, Prompted, Unit
  <2>7. OwnNoise'
    BY <2>2, <2>8 DEF PromptInv, OwnNoise, InUnit, Unit
  <2>. QED BY <2>5, <2>6, <2>7
<1>11. CASE Wait
  BY <1>11 DEF Wait, PromptInv, ActsOfPast, OwnPrompt, OwnNoise, Unit, Prompted, InUnit, TypeOK, episode, model, worker, waiting
<1>12. CASE Timeout
  <2>1. /\ pc = "wait" /\ UNCHANGED <<work, running, prompt>> /\ lapsed' = TRUE
        /\ todo # <<>> /\ Unit = todo[1] /\ answer' = Hold
    BY <1>12, UnitInHand DEF Timeout, Erred, model, TypeOK, InUnit
  <2>2. OwnNoise'
    BY <2>1 DEF OwnNoise
  <2>3. CASE pc' = "step" /\ UNCHANGED todo
    BY <2>1, <2>2, <2>3 DEF PromptInv, ActsOfPast, OwnPrompt, Prompted, Unit
  <2>4. CASE \E kind \in Kinds : Finish(kind)
    BY <2>1, <2>2, <2>4, FinishPastActs DEF InUnit
  <2>. QED BY <1>12, <2>3, <2>4 DEF Timeout, Erred, Kinds
<1>13. CASE Raised
  <2>1. /\ pc \in InUnit /\ UNCHANGED <<work, running>> /\ pc \in Prompted
        /\ UNCHANGED <<prompt, drawn>> /\ todo # <<>>
    BY <1>13 DEF Raised, InUnit, Prompted, model, TypeOK
  <2>2. ~lapsed' => UNCHANGED lapsed /\ work = <<>>
    BY <1>13 DEF Raised, waiting, PromptInv, OwnNoise
  <2>3. CASE \E kind \in Kinds : Finish(kind)
    BY <1>13, <2>1, <2>2, <2>3, FinishPast DEF Raised, waiting
  <2>4. CASE pc' = "step" /\ UNCHANGED todo
    BY <1>13, <2>1, <2>2, <2>4 DEF Raised, Erred, waiting, PromptInv, ActsOfPast,
       OwnPrompt, OwnNoise, Prompted, InUnit, Unit
  <2>. QED BY <1>13, <2>3, <2>4 DEF Raised, Erred, Kinds
<1>14. CASE Answered
  BY <1>14 DEF Answered, PromptInv, ActsOfPast, OwnPrompt, OwnNoise, Unit, Prompted, InUnit, TypeOK, episode, model, worker, waiting
<1>15. CASE StepLibero
  <2>1. /\ pc \in InUnit /\ UNCHANGED <<work, running>> /\ pc \in Prompted
        /\ UNCHANGED <<prompt, drawn>> /\ todo # <<>>
    BY <1>15 DEF StepLibero, InUnit, Prompted, model, TypeOK
  <2>2. ~lapsed' => UNCHANGED lapsed /\ work = <<>>
    BY <1>15 DEF StepLibero, waiting, PromptInv, OwnNoise
  <2>3. CASE \E kind \in Kinds : Finish(kind)
    BY <1>15, <2>1, <2>2, <2>3, FinishPast DEF StepLibero, waiting
  <2>4. CASE pc' = "loop" /\ UNCHANGED todo
    BY <1>15, <2>1, <2>2, <2>4 DEF StepLibero, waiting, PromptInv, ActsOfPast, OwnPrompt, OwnNoise,
       Prompted, InUnit, Unit
  <2>. QED BY <1>15, <2>3, <2>4 DEF StepLibero, Kinds
<1>16. CASE StepDraw
  <2>1. /\ pc \in InUnit /\ UNCHANGED <<work, running>> /\ pc \in Prompted
        /\ UNCHANGED <<prompt, drawn>> /\ todo # <<>>
    BY <1>16 DEF StepDraw, InUnit, Prompted, model, TypeOK
  <2>2. ~lapsed' => UNCHANGED lapsed /\ work = <<>>
    BY <1>16 DEF StepDraw, waiting, PromptInv, OwnNoise
  <2>3. CASE \E kind \in Kinds : Finish(kind)
    BY <1>16, <2>1, <2>2, <2>3, FinishPast DEF StepDraw, waiting
  <2>4. CASE pc' = "loop" /\ UNCHANGED todo
    BY <1>16, <2>1, <2>2, <2>4 DEF StepDraw, waiting, PromptInv, ActsOfPast, OwnPrompt, OwnNoise,
       Prompted, InUnit, Unit
  <2>. QED BY <1>16, <2>3, <2>4 DEF StepDraw, Kinds
<1>17. CASE Exit
  BY <1>17 DEF Exit, PromptInv, ActsOfPast, OwnPrompt, OwnNoise, Unit, Prompted, InUnit, TypeOK, episode, model, worker, waiting
<1>18. CASE StartAct
  <2>1. /\ running = NoAnswer /\ work # <<>> /\ Head(work) = work[1] /\ 1 \in DOMAIN work
        /\ UNCHANGED <<todo, prompt, pc, work, answer, awaited, lapsed>>
        /\ \/ /\ drawn' = drawn \cup {work[1][1]}
              /\ running'.prompts = {prompt.unit}
              /\ running'.drawn = drawn \cup {work[1][1]}
           \/ running'.prompts = {} /\ running'.drawn = {} /\ UNCHANGED drawn
    BY <1>18 DEF StartAct, waiting, TypeOK
  <2>2. todo # <<>> => Unit = todo[1] /\ 1 \in DOMAIN todo
    BY UnitInHand
  <2>3. todo # <<>> /\ work[1][1] = Unit => prompt.unit = Unit
    BY <2>1, <2>2 DEF PromptInv, ActsOfPast, OwnPrompt
  <2>4. ~lapsed => pc = "wait" /\ work = <<awaited>> /\ work[1][1] = Unit
    BY <2>1 DEF PromptInv, OwnNoise, OwnPrompt
  <2>5. ActsOfPast' /\ OwnPrompt'
    BY <2>1, <2>3 DEF PromptInv, ActsOfPast, OwnPrompt, Unit
  <2>6. OwnNoise'
    BY <2>1, <2>4 DEF PromptInv, OwnNoise, Unit, InUnit
  <2>. QED BY <2>5, <2>6
<1>19. CASE FinishAct
  <2>1. PICK kind \in {"actions", "raised"} :
          LET u == Head(work)[1]
              draws == IF kind = "actions" THEN {u} ELSE {}
              out == [kind |-> kind,
                      prompts |-> running.prompts \cup {prompt.unit},
                      drawn |-> running.drawn \cup drawn \cup draws]
          IN  /\ drawn' = drawn \cup draws
              /\ answer' = IF pc = "wait" /\ Head(work) = awaited /\ answer = NoAnswer
                           THEN out ELSE answer
    BY <1>19 DEF FinishAct
  <2>2. /\ running # NoAnswer /\ work # <<>> /\ Head(work) = work[1] /\ 1 \in DOMAIN work
        /\ UNCHANGED <<todo, prompt, pc, awaited, lapsed>>
        /\ work' = Tail(work) /\ running' = NoAnswer
    BY <1>19 DEF FinishAct, waiting, TypeOK
  <2>3. \A i \in DOMAIN work' : \E k \in DOMAIN work : work'[i] = work[k]
    BY <2>2 DEF TypeOK
  <2>4. ActsOfPast'
    BY <2>2, <2>3 DEF PromptInv, ActsOfPast
  <2>5. pc \in InUnit => todo # <<>>
    BY DEF TypeOK
  <2>6. CASE pc = "wait" /\ Head(work) = awaited /\ answer = NoAnswer
    <3>1. /\ Head(work)[1] = Unit /\ prompt.unit = Unit /\ running.prompts \subseteq {Unit}
          /\ todo # <<>>
      BY <2>2, <2>5, <2>6 DEF PromptInv, OwnPrompt, Prompted, InUnit
    <3>2. /\ answer'.kind = kind /\ answer'.prompts = {Unit}
          /\ answer'.drawn = running.drawn \cup drawn \cup
                               (IF kind = "actions" THEN {Unit} ELSE {})
      BY <2>1, <2>6, <3>1
    <3>3. OwnPrompt'
      BY <2>2, <2>6, <3>1, <3>2 DEF OwnPrompt, Unit, Prompted
    <3>4. ~lapsed => running.drawn \subseteq {Unit} /\ drawn \subseteq {Unit} /\ work = <<awaited>>
      BY <2>2, <2>6 DEF PromptInv, OwnNoise, InUnit
    <3>5. ~lapsed => work' = <<>> /\ drawn' \subseteq {Unit}
      <4>1. drawn' \subseteq drawn \cup {Unit}
        BY <2>1, <3>1
      <4>2. Len(work) = 1 => work' = <<>>
        BY <2>2 DEF TypeOK
      <4>3. ~lapsed => Len(work) = 1
        BY <3>4
      <4>. QED BY <3>4, <4>1, <4>2, <4>3
    <3>6. OwnNoise'
      BY <2>2, <2>6, <3>2, <3>4, <3>5 DEF OwnNoise, Unit
    <3>. QED BY <2>4, <3>3, <3>6
  <2>7. CASE ~(pc = "wait" /\ Head(work) = awaited /\ answer = NoAnswer)
    <3>1. answer' = answer
      BY <2>1, <2>7
    <3>2. lapsed
      BY <2>2, <2>7 DEF PromptInv, OwnNoise
    <3>3. OwnNoise'
      BY <2>2, <3>2 DEF OwnNoise
    <3>4. OwnPrompt'
      BY <2>2, <3>1 DEF PromptInv, OwnPrompt, Unit
    <3>. QED BY <2>4, <3>3, <3>4
  <2>. QED BY <2>6, <2>7
<1>20. CASE UNCHANGED vars
  BY <1>20 DEF vars, PromptInv, ActsOfPast, OwnPrompt, OwnNoise, Unit, Prompted, InUnit, TypeOK, episode, model, worker, waiting
<1>. QED BY <1>1, <1>2, <1>3, <1>4, <1>5, <1>6, <1>7, <1>8, <1>9, <1>10, <1>11, <1>12, <1>13, <1>14, <1>15, <1>16, <1>17, <1>18, <1>19, <1>20
         DEF Next, Main, Worker

(* The actions that are stepped in a unit are computed from that unit's    *)
(* demonstration alone, however late the acts of other units are, and from *)
(* noise of its own seed alone if no act of the side was given up          *)
(* (sim/episode.py, _act_with_timeout).                                    *)
THEOREM OwnActions == Spec => []OwnPromptAndSeed
<1>1. PromptInv => OwnPromptAndSeed
  BY Answers DEF PromptInv, OwnPrompt, OwnNoise, OwnPromptAndSeed, InUnit
<1>. QED BY InitPrompt, StepPrompt, <1>1, PTL DEF Spec
-----------------------------------------------------------------------------
(* Of some natural numbers one is the least.                               *)
LEMMA LeastOf ==
    ASSUME NEW S, S \subseteq Nat, S # {}
    PROVE  \E m \in S : \A k \in S : ~(k < m)
<1>. DEFINE R == OpToRel(<, Nat)
<1>1. IsWellFoundedOn(R, Nat)
  BY NatLessThanWellFounded
<1>2. PICK m \in S : \A k \in S : ~(<<k, m>> \in R)
  <2>. HIDE DEF R
  <2>. QED BY <1>1, WFMin
<1>3. \A k \in S : k < m => <<k, m>> \in R
  BY DEF OpToRel
<1>. QED BY <1>2, <1>3

(* Whole chunks and what is left of them.                                  *)
LEMMA WholeChunks ==
    ASSUME NEW a \in Nat, NEW n \in Nat \ {0}
    PROVE  /\ a \div n \in Nat /\ a % n \in 0..(n - 1)
           /\ a = n * (a \div n) + (a % n)
OBVIOUS

(* One chunk more holds n actions more.                                    *)
LEMMA OneMoreChunk ==
    ASSUME NEW n \in Nat, NEW i \in Int
    PROVE  n * i = n * (i - 1) + n /\ (i - 1) * n = n * (i - 1)
<1>1. n * i = n * (i - 1) + n
  OBVIOUS
<1>2. ASSUME NEW k \in Int PROVE k * n = n * k
  OBVIOUS
<1>. QED BY <1>1, <1>2

(* More chunks of one length are no shorter.                             *)
LEMMA MoreChunks ==
    ASSUME NEW n \in Nat, NEW i \in Nat, NEW j \in Nat, i <= j
    PROVE  n * i <= n * j
OBVIOUS

(* A sequence that is a function on the first m numbers has m entries.     *)
LEMMA LengthOf ==
    ASSUME NEW m \in Nat \ {0}, NEW s, DOMAIN s = 1..m, s = [c \in 1..m |-> s[c]]
    PROVE  Len(s) = m /\ s # <<>>
<1>. DEFINE W == {s[c] : c \in 1..m}
<1>1. s \in [1..m -> W]
  OBVIOUS
<1>. HIDE DEF W
<1>2. s \in Seq(W) /\ Len(s) = m
  BY <1>1
<1>. QED BY <1>2

(* The n values of V behind the first a, and V in m chunks of n values.    *)
Part(V, a, n) == [k \in 1..n |-> V[a + k]]
CutUp(V, n, m) == [c \in 1..m |-> Part(V, (c - 1) * n, n)]

(* Two parts of V that meet make one part.                                 *)
LEMMA TwoParts ==
    ASSUME NEW a \in Nat, NEW n \in Nat, NEW V
    PROVE  Part(V, 0, a) \o Part(V, a, n) = Part(V, 0, a + n)
<1>. DEFINE W == {V[0 + k] : k \in 1..(a + n)}
            s == Part(V, 0, a)
            t == Part(V, a, n)
<1>1. s \in [1..a -> W]
  BY DEF Part
<1>2. ASSUME NEW k \in 1..n PROVE V[a + k] \in W
  <2>1. a + k \in 1..(a + n) /\ 0 + (a + k) = a + k
    OBVIOUS
  <2>. QED BY <2>1
<1>3. t \in [1..n -> W]
  BY <1>2 DEF Part
<1>. HIDE DEF W
<1>4. s \in Seq(W) /\ t \in Seq(W) /\ Len(s) = a /\ Len(t) = n
  BY <1>1, <1>3
<1>5. DOMAIN (s \o t) = 1..(a + n) /\ s \o t \in Seq(W)
  BY <1>4
<1>6. ASSUME NEW k \in 1..(a + n) PROVE (s \o t)[k] = V[0 + k]
  <2>1. CASE k <= a
    BY <2>1, <1>4 DEF Part
  <2>2. CASE ~(k <= a)
    <3>1. k - a \in 1..n /\ a + (k - a) = 0 + k
      BY <2>2
    <3>2. (s \o t)[k] = t[k - a]
      BY <1>4, <2>2
    <3>3. t[k - a] = V[a + (k - a)]
      BY <3>1 DEF Part
    <3>. QED BY <3>1, <3>2, <3>3
  <2>. QED BY <2>1, <2>2
<1>. QED BY <1>5, <1>6 DEF Part

(* The chunks of V are V again when they are put one after the other.      *)
LEMMA ChunksFlat ==
    ASSUME NEW n \in Nat \ {0}, NEW m \in Nat \ {0}, NEW V
    PROVE  FlattenSeq(CutUp(V, n, m)) = Part(V, 0, n * m)
<1>. DEFINE s == CutUp(V, n, m)
            Joined(f) == [i \in 1..Len(s) |-> IF i = 1 THEN s[i] ELSE f[i - 1] \o s[i]]
            F == CHOOSE f : f = Joined(f)
            G == [i \in 1..m |-> Part(V, 0, n * i)]
<1>1. /\ DOMAIN s = 1..m
      /\ \A c \in 1..m : s[c] = Part(V, (c - 1) * n, n)
      /\ Len(s) = m /\ s # <<>>
  <2>1. DOMAIN s = 1..m /\ s = [c \in 1..m |-> s[c]]
    BY DEF CutUp
  <2>2. \A c \in 1..m : s[c] = Part(V, (c - 1) * n, n)
    BY DEF CutUp
  <2>. QED BY <2>1, <2>2, LengthOf, Zenon
<1>2. FlattenSeq(s) = F[m]
  BY <1>1, Zenon DEF FlattenSeq
<1>. HIDE DEF s
<1>3. ASSUME NEW i \in 2..m PROVE G[i - 1] \o s[i] = G[i]
  <2>1. /\ i - 1 \in Nat \ {0} /\ i - 1 \in 1..m /\ i \in 1..m /\ n \in Nat
        /\ n * (i - 1) \in Nat /\ (i - 1) * n = n * (i - 1)
        /\ n * i = n * (i - 1) + n
    BY OneMoreChunk
  <2>2. /\ G[i - 1] = Part(V, 0, n * (i - 1)) /\ G[i] = Part(V, 0, n * i)
        /\ s[i] = Part(V, n * (i - 1), n)
    BY <2>1, <1>1
  <2>. HIDE DEF F, G
  <2>. QED BY <2>1, <2>2, TwoParts
<1>4. G[1] = s[1] /\ DOMAIN G = 1..m
  <2>1. n * 1 = n /\ 1 \in 1..m /\ (1 - 1) * n = 0
    <3>. HIDE DEF F, G
    <3>1. 1 - 1 = 0 /\ 0 * n = 0 /\ n * 1 = n
      OBVIOUS
    <3>. QED BY <3>1
  <2>2. s[1] = Part(V, 0, n)
    BY <1>1, <2>1
  <2>. QED BY <2>1, <2>2
<1>5. G = Joined(G)
  <2>1. ASSUME NEW i \in 1..m
        PROVE  G[i] = IF i = 1 THEN s[i] ELSE G[i - 1] \o s[i]
    <3>. HIDE DEF G
    <3>1. i = 1 \/ i \in 2..m
      OBVIOUS
    <3>. QED BY <1>3, <1>4, <3>1
  <2>2. G = [i \in 1..m |-> G[i]]
    OBVIOUS
  <2>. HIDE DEF G
  <2>. QED BY <1>1, <2>1, <2>2
<1>6. F = Joined(F)
  <2>. HIDE DEF G, Joined
  <2>. QED BY <1>5, Zenon
<1>. DEFINE wrong == {i \in 1..m : F[i] # G[i]}
<1>7. wrong = {}
  <2>. SUFFICES ASSUME wrong # {} PROVE FALSE
    OBVIOUS
  <2>1. PICK i \in wrong : \A k \in wrong : ~(k < i)
    <3>. HIDE DEF F, G
    <3>1. wrong \subseteq Nat
      OBVIOUS
    <3>. HIDE DEF wrong
    <3>. QED BY <3>1, LeastOf
  <2>2. i \in 1..m /\ F[i] # G[i]
    BY <2>1
  <2>3. F[i] = IF i = 1 THEN s[i] ELSE F[i - 1] \o s[i]
    <3>. HIDE DEF F
    <3>. QED BY <1>1, <1>6, <2>2
  <2>4. i # 1
    <3>. HIDE DEF F, G
    <3>. QED BY <2>2, <2>3, <1>4
  <2>5. i \in 2..m /\ i - 1 \in 1..m /\ i - 1 < i
    BY <2>2, <2>4
  <2>6. F[i - 1] = G[i - 1]
    BY <2>1, <2>5
  <2>. HIDE DEF F, G, wrong
  <2>. QED BY <1>3, <2>2, <2>3, <2>4, <2>5, <2>6
<1>8. F[m] = G[m]
  <2>1. m \in 1..m
    OBVIOUS
  <2>. HIDE DEF F, G
  <2>. QED BY <1>7, <2>1
<1>9. G[m] = Part(V, 0, n * m)
  <2>1. m \in 1..m
    OBVIOUS
  <2>. QED BY <2>1
<1>. QED BY <1>2, <1>8, <1>9, Zenon DEF s

(* The number of chunks: none of them begins behind the demonstration, and *)
(* what they do not hold is a part of a chunk that the skill drops.        *)
LEMMA ChunksEnough ==
    ASSUME NEW len \in Nat \ {0}, NEW n \in Nat \ {0}, NEW pad
    PROVE  LET m == ChunkCount(len, n, pad)
           IN  /\ m \in Nat \ {0}
               /\ n * (m - 1) < len
               /\ n * m >= len \/ (pad = "no" /\ len - n * m < n)
<1>. DEFINE whole == len \div n
            m == ChunkCount(len, n, pad)
<1>1. /\ whole \in Nat /\ len % n \in 0..(n - 1)
      /\ len = n * whole + (len % n) /\ n * whole \in Nat
  <2>1. /\ whole \in Nat /\ len % n \in 0..(n - 1)
        /\ len = n * whole + (len % n)
    BY WholeChunks
  <2>. HIDE DEF whole
  <2>2. n * whole \in Nat
    BY <2>1
  <2>. QED BY <2>1, <2>2
<1>2. CASE whole = 0
  <2>1. m = 1 /\ n * 1 = n /\ n * (1 - 1) = 0 /\ n * whole = 0
    BY <1>2 DEF ChunkCount
  <2>. QED BY <2>1, <1>1
<1>3. CASE whole # 0 /\ len % n # 0 /\ pad # "no"
  <2>1. m = whole + 1
    BY <1>3 DEF ChunkCount
  <2>2. n * (whole + 1) = n * whole + n /\ (whole + 1) - 1 = whole
    BY <1>1
  <2>. QED BY <2>1, <2>2, <1>1, <1>3
<1>4. CASE whole # 0 /\ ~(len % n # 0 /\ pad # "no")
  <2>1. m = whole
    BY <1>4 DEF ChunkCount
  <2>2. n * whole = n * (whole - 1) + n
    BY <1>1, OneMoreChunk
  <2>3. n * (whole - 1) \in Int
    BY <1>1
  <2>. QED BY <2>1, <2>2, <2>3, <1>1, <1>4
<1>. QED BY <1>2, <1>3, <1>4

(* What PromptCovers says of one prompt.                                   *)
Covers(p, n, pad) ==
    LET actions == FlattenSeq(p.chunks)
    IN  /\ \A k \in DOMAIN actions :
              IF k <= p.steps THEN actions[k] = k - 1
              ELSE actions[k] \in {ZeroAction, p.steps - 1}
        /\ \/ Len(actions) >= p.steps
           \/ pad = "no" /\ p.steps - Len(actions) < n
        /\ \A c \in DOMAIN p.chunks : p.chunks[c][1] = p.frames[c]

(* build_prompt() and build_draw_prompt() keep the whole demonstration.    *)
LEMMA BuiltCovers ==
    ASSUME NEW u \in Units, NEW len \in DemoLengths
    PROVE  Covers(Built(u, len), ChunkSize[SkillOf[u]], PadEnd[SkillOf[u]])
<1>. DEFINE n == ChunkSize[SkillOf[u]]
            pad == PadEnd[SkillOf[u]]
            m == ChunkCount(len, n, pad)
            chunks == Chunks(len, n, pad)
            V == [k \in Nat |-> IF k - 1 < len THEN k - 1 ELSE Filler(len, n, pad)]
<1>1. len \in Nat \ {0} /\ n \in Nat \ {0}
  BY PromptAssumption DEF Units
<1>2. /\ m \in Nat \ {0} /\ n * (m - 1) < len
      /\ n * m >= len \/ (pad = "no" /\ len - n * m < n)
  BY <1>1, ChunksEnough
<1>. HIDE DEF n, pad, m
<1>3. chunks = CutUp(V, n, m)
  <2>1. ASSUME NEW c \in 1..m, NEW i \in 1..n
        PROVE  V[(c - 1) * n + i] = LET k == (c - 1) * n + i - 1
                                    IN  IF k < len THEN k ELSE Filler(len, n, pad)
    <3>1. c - 1 \in Nat /\ (c - 1) * n \in Nat
      BY <1>1, <1>2
    <3>. DEFINE k == (c - 1) * n + i
    <3>2. k \in Nat /\ k - 1 = (c - 1) * n + i - 1
      BY <3>1
    <3>. HIDE DEF k
    <3>3. V[k] = IF k - 1 < len THEN k - 1 ELSE Filler(len, n, pad)
      BY <3>2
    <3>. QED BY <3>2, <3>3 DEF k
  <2>. HIDE DEF V
  <2>. QED BY <2>1 DEF Chunks, m, CutUp, Part
<1>4. FlattenSeq(chunks) = Part(V, 0, n * m)
  <2>. HIDE DEF V, chunks
  <2>. QED BY <1>1, <1>2, <1>3, ChunksFlat
<1>5. n * m \in Nat /\ Len(FlattenSeq(chunks)) = n * m
  <2>1. n * m \in Nat
    BY <1>1, <1>2
  <2>2. Len(Part(V, 0, n * m)) = n * m
    <3>1. n * m \in Nat \ {0}
      BY <1>1, <1>2
    <3>2. DOMAIN Part(V, 0, n * m) = 1..(n * m)
      BY DEF Part
    <3>3. Part(V, 0, n * m) = [c \in 1..(n * m) |-> Part(V, 0, n * m)[c]]
      BY DEF Part
    <3>. QED BY <3>1, <3>2, <3>3, LengthOf, Zenon
  <2>. HIDE DEF chunks
  <2>. QED BY <2>1, <2>2, <1>4
<1>6. Filler(len, n, pad) \in {ZeroAction, len - 1}
  BY DEF Filler
<1>7. ASSUME NEW k \in 1..(n * m)
      PROVE  IF k <= len THEN V[k] = k - 1 ELSE V[k] \in {ZeroAction, len - 1}
  BY <1>1, <1>5, <1>6
<1>8. ASSUME NEW c \in 1..m PROVE chunks[c][1] = Frames(len, n, pad)[c]
  <2>1. /\ c - 1 \in Nat /\ m - 1 \in Nat /\ c - 1 <= m - 1 /\ 1 \in 1..n
        /\ (c - 1) * n = n * (c - 1) /\ n * (c - 1) \in Nat
        /\ n * (m - 1) \in Nat
    BY <1>1, <1>2
  <2>2. n * (c - 1) <= n * (m - 1)
    BY <2>1, <1>1, MoreChunks
  <2>3. (c - 1) * n < len /\ (c - 1) * n \in Nat
    BY <2>1, <2>2, <1>1, <1>2
  <2>4. chunks[c][1] = V[(c - 1) * n + 1]
    <3>. HIDE DEF chunks, V
    <3>. QED BY <1>3, <2>1 DEF CutUp, Part
  <2>5. V[(c - 1) * n + 1] = (c - 1) * n
    BY <2>3, <1>1
  <2>6. Frames(len, n, pad)[c] = (c - 1) * n
    BY <2>3 DEF Frames, m
  <2>. QED BY <2>4, <2>5, <2>6
<1>9. DOMAIN chunks = 1..m
  BY DEF Chunks, m
<1>10. Built(u, len) = [unit |-> u, steps |-> len, chunks |-> chunks,
                        frames |-> Frames(len, n, pad)]
  BY DEF Built, n, pad
<1>. HIDE DEF V, chunks
<1>11. /\ Built(u, len).chunks = chunks /\ Built(u, len).steps = len
       /\ Built(u, len).frames = Frames(len, n, pad)
  BY <1>10
<1>. DEFINE actions == FlattenSeq(chunks)
<1>12. /\ DOMAIN actions = 1..(n * m)
       /\ \A k \in 1..(n * m) : actions[k] = V[k]
  BY <1>4, <1>5 DEF Part
<1>. HIDE DEF actions
<1>13. /\ \A k \in DOMAIN actions : IF k <= len THEN actions[k] = k - 1
                                    ELSE actions[k] \in {ZeroAction, len - 1}
       /\ Len(actions) >= len \/ (pad = "no" /\ len - Len(actions) < n)
       /\ \A c \in DOMAIN chunks : chunks[c][1] = Frames(len, n, pad)[c]
  <2>1. Len(actions) = n * m
    BY <1>5 DEF actions
  <2>. QED BY <1>2, <1>7, <1>8, <1>9, <1>12, <2>1
<1>. QED BY <1>11, <1>13 DEF Covers, n, pad, actions

(* The prompt of the policy is none, or one that a unit was given whole.   *)
PromptBuilt == prompt = NoPrompt \/ \E u \in Units, len \in DemoLengths : prompt = Built(u, len)

BuiltInv == TypeOK /\ PromptBuilt

(* A prompt is only ever built of one unit.                              *)
LEMMA StepBuilt == BuiltInv /\ [Next]_vars => BuiltInv'
<1>. SUFFICES ASSUME BuiltInv, [Next]_vars PROVE PromptBuilt'
  BY StepType DEF BuiltInv
<1>1. CASE SetPrompt
  <2>1. Unit \in Units
    BY <1>1, UnitInHand DEF SetPrompt, BuiltInv, TypeOK, InUnit
  <2>2. \E len \in DemoLengths : prompt' = Built(Unit, len)
    BY <1>1 DEF SetPrompt
  <2>. QED BY <2>1, <2>2 DEF PromptBuilt
<1>2. CASE UNCHANGED prompt
  BY <1>2 DEF BuiltInv, PromptBuilt
<1>3. SetPrompt \/ UNCHANGED prompt
  BY DEF Next, Main, Worker, vars, model, Load, Unload, End, Fail, Exit, TimedOut,
         Seed, Void, Judge, Submit, Wait, Timeout, Raised, Answered, StepLibero,
         StepDraw, StartAct, FinishAct
<1>. QED BY <1>1, <1>2, <1>3

(* A prompt holds every action of the demonstration once and in order, is  *)
(* filled up at its end only, loses less than a chunk and that only where  *)
(* the skill drops it, and pairs each chunk with the frame of its first    *)
(* action, for any length of a demonstration and of a chunk                *)
(* (model/prompt.py, chunk_layout() and chunk_actions()).                  *)
THEOREM WholeDemonstration == Spec => []PromptCovers
<1>1. Init => BuiltInv
  BY InitType DEF Init, BuiltInv, PromptBuilt
<1>2. BuiltInv => PromptCovers
  <2>. SUFFICES ASSUME PromptBuilt, prompt # NoPrompt
                PROVE  Covers(prompt, ChunkSize[SkillOf[prompt.unit]],
                              PadEnd[SkillOf[prompt.unit]])
    BY DEF BuiltInv, PromptCovers, Covers
  <2>1. PICK u \in Units, len \in DemoLengths : prompt = Built(u, len)
    BY DEF PromptBuilt
  <2>2. prompt.unit = u
    BY <2>1 DEF Built
  <2>. QED BY <2>1, <2>2, BuiltCovers
<1>. QED BY <1>1, <1>2, StepBuilt, PTL DEF Spec
=============================================================================
