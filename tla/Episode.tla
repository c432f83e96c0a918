------------------------------- MODULE Episode -------------------------------
(***************************************************************************)
(* The units of one side, run one after the other (duel/side_runner.py,    *)
(* sim/episode.py, sim/draw_episode.py).  The main thread steps the        *)
(* simulator; act() runs on the one worker thread of an executor that      *)
(* serves the whole side, and goes on there when the main thread has       *)
(* stopped waiting for it.  Loading, a reset, and a chunk of steps take at *)
(* most one tick of the clock each; an act may take for ever.              *)
(***************************************************************************)
EXTENDS Integers, Sequences, FiniteSets, SequencesExt, Prompt

CONSTANTS
    Order,       \* the units in the order in which they are run
    SkillOf,     \* the skill of a unit
    Drawing,     \* the skills on the drawing board
    DemoLengths, \* how many actions a demonstration may have
    ChunkSize,   \* prompt_actions_per_chunk of a skill
    PadEnd,      \* prompt_pad_end of a skill
    MaxSteps, ExecHorizon, IdleStop,
    MaxErrors,   \* max_model_errors_per_episode
    HardTimeout, UnitWall, SideWall,
    NoSkill, NoUnit, NoAct

ASSUME OrderAssumption ==
    /\ Order \in Seq(ToSet(Order)) /\ IsInjective(Order)
    /\ NoUnit \notin ToSet(Order)
    /\ \A u \in ToSet(Order) : SkillOf[u] # NoSkill
ASSUME BudgetAssumption ==
    /\ {MaxErrors, HardTimeout, UnitWall, SideWall} \subseteq Nat
    /\ {MaxSteps, ExecHorizon, IdleStop} \subseteq Nat \ {0}
ASSUME PromptAssumption ==
    /\ DemoLengths \subseteq Nat \ {0}
    /\ \A u \in ToSet(Order) : /\ ChunkSize[SkillOf[u]] \in Nat \ {0}
                              /\ PadEnd[SkillOf[u]] \in PadModes

VARIABLES
    todo,      \* the units without a record
    records,   \* units.jsonl
    loaded,    \* the skill whose policy is loaded
    prompt,    \* the demonstration that the policy was given, of which unit
    drawn,     \* the units whose acts drew from torch's generator since seed()
    pc,        \* where the main thread is
    now,       \* the clock
    start,     \* when the unit in hand began
    steps, errors, idle,
    reached,   \* the best distance is at most the threshold, the goal holds
    work,      \* the executor's queue; its head may be running
    running,   \* what the act that is running has seen so far
    awaited,   \* the act whose future the main thread waits for
    asked,     \* since when
    answer,    \* what that future holds
    lapsed     \* history: some act was not waited for to the end

episode == <<start, steps, errors, idle, reached>>
model   == <<loaded, prompt, drawn>>
worker  == <<work, running, answer>>
waiting == <<awaited, asked, lapsed>>
vars == <<todo, records, pc, now, episode, model, worker, waiting>>

Units == ToSet(Order)
Unit == Head(todo)
Skill == SkillOf[Unit]

NoAnswer == [kind |-> "none", prompts |-> {}, drawn |-> {}]
NoPrompt == [unit |-> NoUnit, steps |-> 0, chunks |-> <<>>, frames |-> <<>>]
Hold == [kind |-> "hold", prompts |-> {}, drawn |-> {}]
Line(u, kind) == [unit |-> u, kind |-> kind]
Takes == \E ticks \in 0..1 : now' = now + ticks

(* The units at these places, in their order.                              *)
InOrder(places) ==
    {[i \in DOMAIN at |-> Order[at[i]]] :
        at \in {f \in Injection(1..Cardinality(places), places) :
                  \A i, j \in DOMAIN f : i < j => f[i] < f[j]}}

(* Units that a results file already has are not run again.                *)
Init ==
    /\ \E resumed \in SUBSET DOMAIN Order :
          /\ todo \in InOrder((DOMAIN Order) \ resumed)
          /\ \E us \in InOrder(resumed) :
                records = [i \in DOMAIN us |-> Line(us[i], "resumed")]
    /\ loaded = NoSkill /\ prompt = NoPrompt /\ drawn = {}
    /\ pc = "unit" /\ now = 0
    /\ start = 0 /\ steps = 0 /\ errors = 0 /\ idle = 0 /\ reached = FALSE
    /\ work = <<>> /\ running = NoAnswer /\ awaited = NoAct /\ asked = 0
    /\ answer = NoAnswer /\ lapsed = FALSE

(* ---- run_side() -------------------------------------------------------- *)

Load ==
    /\ pc = "unit" /\ todo # <<>> /\ loaded = NoSkill
    /\ loaded' = Skill /\ Takes
    /\ UNCHANGED <<todo, records, prompt, drawn, pc, episode, worker, waiting>>

Unload ==
    /\ pc = "unit" /\ loaded # NoSkill
    /\ todo # <<>> => loaded # Skill
    /\ loaded' = NoSkill
    /\ UNCHANGED <<todo, records, prompt, drawn, pc, now, episode, worker, waiting>>

End ==
    /\ pc = "unit" /\ todo = <<>> /\ loaded = NoSkill
    /\ pc' = "ended"
    /\ UNCHANGED <<todo, records, now, episode, model, worker, waiting>>

OutOfTime == now > SideWall

(* A checkpoint, a scene or a demonstration that does not load.            *)
Fail ==
    /\ pc = "unit" /\ todo # <<>>
    /\ loaded = NoSkill \/ (loaded = Skill /\ ~OutOfTime)
    /\ pc' = "failed" /\ loaded' = NoSkill
    /\ UNCHANGED <<todo, records, prompt, drawn, now, episode, worker, waiting>>

(* The interpreter waits for the worker thread, whatever shutdown() said.  *)
Exit ==
    /\ pc \in {"ended", "failed"} /\ work = <<>>
    /\ pc' = "exited"
    /\ UNCHANGED <<todo, records, now, episode, model, worker, waiting>>

Finish(kind) ==
    /\ records' = Append(records, Line(Unit, kind))
    /\ todo' = Tail(todo)
    /\ pc' = "unit"

TimedOut ==
    /\ pc = "unit" /\ todo # <<>> /\ loaded = Skill /\ OutOfTime
    /\ Finish("wall")
    /\ UNCHANGED <<now, episode, model, worker, waiting>>

(* ---- run_episode(), run_draw_episode() --------------------------------- *)

(* seed(), then a reset that may fail.                                     *)
Seed ==
    /\ pc = "unit" /\ todo # <<>> /\ loaded = Skill /\ ~OutOfTime
    /\ start' = now /\ drawn' = {}
    /\ steps' = 0 /\ errors' = 0 /\ idle' = 0
    /\ reached' \in (IF Skill \in Drawing THEN BOOLEAN ELSE {FALSE})
    /\ pc' = "prompt" /\ UNCHANGED now
    /\ UNCHANGED <<todo, records, loaded, prompt, worker, waiting>>

(* build_prompt(), build_draw_prompt().                                    *)
Built(u, len) ==
    LET n == ChunkSize[SkillOf[u]]
        pad == PadEnd[SkillOf[u]]
    IN  [unit |-> u, steps |-> len, chunks |-> Chunks(len, n, pad),
         frames |-> Frames(len, n, pad)]

SetPrompt ==
    /\ pc = "prompt"
    /\ \E n \in DemoLengths : prompt' = Built(Unit, n)
    /\ pc' = "loop" /\ Takes
    /\ UNCHANGED <<todo, records, loaded, drawn, episode, worker, waiting>>

(* Infeasible, or any exception of the simulator: before the prompt, after *)
(* it or at a step.                                                        *)
Void ==
    /\ pc \in {"prompt", "loop", "step"}
    /\ Finish("void") /\ Takes
    /\ answer' = NoAnswer
    /\ UNCHANGED <<episode, model, work, running, waiting>>

(* Mutant: the unit's own wall time is not looked at. *)
UnitOverNever == steps >= MaxSteps

UnitOver == steps >= MaxSteps \/ now - start > UnitWall

Judge ==
    /\ pc = "loop" /\ UnitOver
    /\ Finish(IF reached THEN "success" ELSE "failure")
    /\ UNCHANGED <<now, episode, model, worker, waiting>>

(* Mutant: while the worker is busy its future is used again. *)
SubmitIfIdle ==
    /\ pc = "loop" /\ ~UnitOver
    /\ IF work = <<>>
       THEN /\ work' = Append(work, <<Unit, steps, errors>>)
            /\ awaited' = <<Unit, steps, errors>>
       ELSE /\ UNCHANGED work
            /\ awaited' = Last(work)
    /\ asked' = now /\ answer' = NoAnswer /\ pc' = "wait"
    /\ UNCHANGED <<todo, records, now, episode, model, running, lapsed>>

Submit ==
    /\ pc = "loop" /\ ~UnitOver
    /\ work' = Append(work, <<Unit, steps, errors>>)
    /\ awaited' = <<Unit, steps, errors>>
    /\ asked' = now /\ answer' = NoAnswer /\ pc' = "wait"
    /\ UNCHANGED <<todo, records, now, episode, model, running, lapsed>>

Wait ==
    /\ pc = "wait" /\ answer = NoAnswer /\ now < asked + HardTimeout
    /\ now' = now + 1
    /\ UNCHANGED <<todo, records, pc, episode, model, worker, waiting>>

(* One error more: hold, or give the unit up.                              *)
Erred ==
    /\ errors' = errors + 1
    /\ answer' = Hold
    /\ IF errors + 1 > MaxErrors
       THEN Finish(IF Skill \in Drawing /\ reached THEN "success" ELSE "failure")
       ELSE pc' = "step" /\ UNCHANGED <<todo, records>>

(* Mutant: result() without a timeout. *)
TimeoutNever == FALSE /\ UNCHANGED vars

Timeout ==
    /\ pc = "wait" /\ answer = NoAnswer /\ now >= asked + HardTimeout
    /\ lapsed' = TRUE
    /\ Erred
    /\ UNCHANGED <<now, start, steps, idle, reached, model, work, running,
                   awaited, asked>>

Raised ==
    /\ pc = "wait" /\ answer.kind = "raised"
    /\ Erred
    /\ UNCHANGED <<now, start, steps, idle, reached, model, work, running, waiting>>

Answered ==
    /\ pc = "wait" /\ answer.kind = "actions"
    /\ pc' = "step"
    /\ UNCHANGED <<todo, records, now, episode, model, worker, waiting>>

(* A chunk of steps.  LIBERO ends the unit at success; on the board the    *)
(* best distance counts, and the unit ends when the pen has rested.        *)
StepLibero ==
    /\ pc = "step" /\ Skill \notin Drawing
    /\ steps' = steps + ExecHorizon
    /\ reached' \in BOOLEAN
    /\ IF reached' THEN Finish("success")
                   ELSE pc' = "loop" /\ UNCHANGED <<todo, records>>
    /\ Takes /\ answer' = NoAnswer
    /\ UNCHANGED <<start, errors, idle, model, work, running, waiting>>

StepDraw ==
    /\ pc = "step" /\ Skill \in Drawing
    /\ steps' = steps + ExecHorizon
    /\ reached' \in {reached, TRUE}
    /\ idle' \in {0, idle + ExecHorizon}
    /\ IF idle' >= IdleStop
       THEN Finish(IF reached' THEN "success" ELSE "failure")
       ELSE pc' = "loop" /\ UNCHANGED <<todo, records>>
    /\ Takes /\ answer' = NoAnswer
    /\ UNCHANGED <<start, errors, model, work, running, waiting>>

(* ---- the worker thread ------------------------------------------------- *)

(* act() draws the noise it starts from.  A policy that was unloaded       *)
(* raises.                                                                 *)
StartAct ==
    /\ work # <<>> /\ running = NoAnswer
    /\ LET u == Head(work)[1]
       IN  IF loaded = SkillOf[u]
           THEN /\ drawn' = drawn \cup {u}
                /\ running' = [kind |-> "running", prompts |-> {prompt.unit},
                               drawn |-> drawn \cup {u}]
           ELSE /\ running' = [kind |-> "raised", prompts |-> {}, drawn |-> {}]
                /\ UNCHANGED drawn
    /\ UNCHANGED <<todo, records, loaded, prompt, pc, now, episode, work,
                   answer, waiting>>

(* It draws again before it returns, and so does one that was given up.    *)
FinishAct ==
    /\ running # NoAnswer
    /\ \E kind \in (IF running.kind = "running" THEN {"actions", "raised"}
                                                ELSE {"raised"}) :
         LET u == Head(work)[1]
             draws == IF kind = "actions" THEN {u} ELSE {}
             out == [kind |-> kind,
                     prompts |-> running.prompts \cup {prompt.unit},
                     drawn |-> running.drawn \cup drawn \cup draws]
         IN  /\ drawn' = drawn \cup draws
             /\ answer' = IF pc = "wait" /\ Head(work) = awaited /\ answer = NoAnswer
                          THEN out ELSE answer
    /\ work' = Tail(work) /\ running' = NoAnswer
    /\ UNCHANGED <<todo, records, loaded, prompt, pc, now, episode, waiting>>

Main == \/ Load \/ Unload \/ End \/ Fail \/ TimedOut
        \/ Seed \/ SetPrompt \/ Void \/ Judge
        \/ Submit \/ Wait \/ Timeout \/ Raised \/ Answered
        \/ StepLibero \/ StepDraw
Worker == StartAct \/ FinishAct

Next == Main \/ Exit \/ Worker

Spec == Init /\ [][Next]_vars

(* The main thread runs; nothing is known of an act.                       *)
FairSpec == Spec /\ WF_vars(Main)
----------------------------------------------------------------------------
(* The actions that are stepped in a unit are computed from that unit's    *)
(* demonstration alone, however late other acts are; and, if no act of     *)
(* this side was given up, from noise of that unit's seed alone.           *)
OwnPromptAndSeed ==
    pc = "step" /\ answer # Hold =>
        /\ answer.prompts = {Unit}
        /\ ~lapsed => answer.drawn = {Unit}

(* The prompt holds every action of the demonstration once, in order and   *)
(* at its place, but for what is less than a chunk where the skill drops   *)
(* it; it is filled up at its end only; and each chunk goes with the frame *)
(* in which its first action was taken.                                    *)
PromptCovers ==
    prompt # NoPrompt =>
        LET actions == FlattenSeq(prompt.chunks)
            skill == SkillOf[prompt.unit]
        IN  /\ \A k \in DOMAIN actions :
                  IF k <= prompt.steps THEN actions[k] = k - 1
                  ELSE actions[k] \in {ZeroAction, prompt.steps - 1}
            /\ \/ Len(actions) >= prompt.steps
               \/ /\ PadEnd[skill] = "no"
                  /\ prompt.steps - Len(actions) < ChunkSize[skill]
            /\ \A c \in DOMAIN prompt.chunks :
                  prompt.chunks[c][1] = prompt.frames[c]

(* A unit outlasts its wall time by no more than one act and one chunk,    *)
(* and once the side's wall time has voided a unit it voids all the rest.  *)
WallTimes ==
    /\ pc \in {"prompt", "loop", "wait", "step"} =>
          now - start <= UnitWall + HardTimeout + 1
    /\ \A i, j \in DOMAIN records :
          i < j /\ records[i].kind = "wall" => records[j].kind = "wall"

(* A side ends, also when an act never does, and has recorded each of its  *)
(* units once, or it fails.                                                *)
SideEnds ==
    <>(\/ pc = "failed"
       \/ /\ pc \in {"ended", "exited"}
          /\ Len(records) = Cardinality(Units)
          /\ {r.unit : r \in ToSet(records)} = Units)
=============================================================================
