------------------------------ MODULE PoolBuild ------------------------------
(***************************************************************************)
(* `icilval pools build` (pools/build.py, pools/build_draw.py): stages     *)
(* that import tasks, demonstrations and variants, one pool.json that they *)
(* all add to, and the id that seals it (pools/schema.py).  `pools         *)
(* upgrade` (pools/upgrade.py) and `pools generate` and `generate-draw`    *)
(* (pools/build_gen.py) are builds with stages of their own.  A build may  *)
(* run any stages, die anywhere, and be started again on what it left.     *)
(* Validation is on (no --no-validate).                                    *)
(***************************************************************************)
EXTENDS Naturals, Sequences, FiniteSets, SequencesExt

CONSTANTS
    Bases, Gens, Drawings,   \* the tasks of the sources
    Made,         \* those among them that the organizer generates
    Order,        \* all of them, sorted
    Demos,        \* demos_per_task; every task's source has as many
    Invocations,  \* the lists of stages that a build is started with
    Worlds,       \* what the sources hold: see World
    MaxBuilds,    \* bound: how often a build is started
    NoPool, Torn, \* pool.json: not there, half written
    NoId

Stages == <<"base", "spatial", "environment", "object", "draw", "finalize">>
OtherStages == {"upgrade", "generate", "generate-draw"}
Tasks == Bases \cup Gens \cup Drawings
ScenesSpatial == {"pro_swap", "pro_pose", "level"}
ScenesEnvironment == {"table", "lighting"}
Variants == Bases \X (ScenesSpatial \cup ScenesEnvironment)

(* absent: no such file, or not a pick-and-place task; broken: a scene the *)
(* simulator cannot build; barren: one without a valid initial state, or a *)
(* drawing that no demonstration is far enough from.                       *)
World == [absent : SUBSET (Tasks \cup Variants),
          broken : SUBSET (Bases \cup Gens \cup Variants),
          barren : SUBSET (Gens \cup Drawings \cup Variants)]

ASSUME WorldsAssumption == Worlds \subseteq World
ASSUME TasksAssumption ==
    Drawings \cap (Bases \cup Gens) = {} /\ Tasks \cap Variants = {}
ASSUME OrderAssumption ==
    Order \in Seq(Tasks) /\ ToSet(Order) = Tasks /\ IsInjective(Order)
ASSUME NumbersAssumption == Demos \in Nat \ {0} /\ MaxBuilds \in Nat
ASSUME InvocationsAssumption ==
    /\ Invocations \subseteq Seq(ToSet(Stages) \cup OtherStages) \ {<<>>}
    /\ \A s \in Invocations : \A i \in 2..Len(s) : s[i] # "upgrade"
    /\ Made \subseteq Gens \cup Drawings

VARIABLES
    world,
    files,    \* the bddl and init files of the pool's directory
    halves,   \* those of them that are half written
    demos,    \* how many whole demonstration files a task has there
    torn,     \* the tasks with one more that is half written
    json,     \* pool.json
    pool,     \* the pool in memory
    stages,   \* the stages this build has still to run
    left,     \* the tasks left in the stage at hand
    pc,
    builds,
    ended,    \* history: the build that ended last, with nothing after it
    cut       \* history: what a build has died amid, "demos" of a LIBERO task
              \* or a "file"

disk == <<files, halves, demos, torn, json>>
vars == <<world, disk, pool, stages, left, pc, builds, ended, cut>>

Empty == [tasks |-> {}, variants |-> {}, sources |-> {}, eligible |-> {},
          id |-> NoId]
Content(p) == [p EXCEPT !.id = NoId]
Ids(p) == {t[1] : t \in p.tasks}
Have(e) == e \notin world.absent
Builds(e) == e \notin world.broken

(* Pool.load() refuses a pool whose content is not what its id was made of. *)
Loads == json # Torn /\ (json.id = NoId \/ json.id = Content(json))

FilesOf(e) == {<<"bddl", e>>, <<"init", e>>}
(* A variant that only moves objects or lights has the files of its task.  *)
VariantFiles(v) ==
    IF v[2] \in {"pro_swap", "table"} THEN FilesOf(v) ELSE FilesOf(v[1])
Listed(t) == demos[t] + (IF t \in torn THEN 1 ELSE 0)

Init ==
    /\ world \in Worlds
    /\ files = {} /\ halves = {} /\ demos = [t \in Tasks |-> 0] /\ torn = {} /\ json = NoPool
    /\ pool = Empty /\ stages = <<>> /\ left = {} /\ pc = "off"
    /\ builds = 0 /\ ended = <<>> /\ cut = {}

(* open_pool(): what is there is opened for changes, its id dropped.  An   *)
(* upgrade begins with a new pool, what is generated is added to a pool.   *)
Open ==
    /\ pc = "off" /\ builds < MaxBuilds
    /\ builds' = builds + 1
    /\ \E s \in Invocations :
          /\ stages' = s /\ ended' = s
          /\ \/ /\ Head(s) = "upgrade" \/ json = NoPool
                /\ Head(s) \notin {"generate", "generate-draw"}
                /\ pool' = Empty
             \/ /\ Head(s) # "upgrade" /\ json # NoPool /\ Loads
                /\ pool' = [json EXCEPT !.id = NoId]
    /\ pc' = "stage"
    /\ UNCHANGED <<world, disk, left, cut>>

(* A pool.json that does not load stops every later build until its owner  *)
(* removes it; the files beside it stay.                                   *)
Discard ==
    /\ pc = "off" /\ json # NoPool /\ ~Loads
    /\ json' = NoPool /\ ended' = <<>>
    /\ UNCHANGED <<world, files, halves, demos, torn, pool, stages, left, pc,
                   builds, cut>>

(* A pool of an older schema: the LIBERO tasks with all demonstrations,    *)
(* those that are no pick-and-place among them, and their variants.        *)
OldTasks == {t \in (Bases \cup Gens) \ Made : t \in Bases \/ Builds(t)}

TasksOf(stage) ==
    CASE stage = "base" -> Bases
      [] stage \in {"spatial", "environment"} -> Bases \cap Ids(pool)
      [] stage = "object" -> Gens \ Made
      [] stage = "draw" -> Drawings \ Made
      [] stage = "generate" -> Gens \cap Made
      [] stage = "generate-draw" -> Drawings \cap Made
      [] stage = "upgrade" -> OldTasks
      [] OTHER -> {}

Stage == Head(stages)

(* Each loop goes through its tasks in their order.                        *)
Task == Order[CHOOSE i \in DOMAIN Order :
                 Order[i] \in left /\ \A j \in 1..(i - 1) : Order[j] \notin left]

BeginStage ==
    /\ pc = "stage" /\ stages # <<>>
    /\ left' = TasksOf(Stage)
    /\ pc' = IF Stage = "finalize" THEN "finalize"
             ELSE IF Stage \in {"spatial", "environment"} THEN "variants"
             ELSE IF Stage = "upgrade" THEN "copy"
             ELSE "tasks"
    /\ UNCHANGED <<world, disk, pool, stages, builds, ended, cut>>

(* ---- stage_base(), stage_object(), import_draw_buffer(), ---------------- *)
(* ---- import_generated()                                  ---------------- *)

(* Each generated set of drawings is a buffer of its own, saved by itself. *)
AfterTask == IF Stage = "generate-draw" THEN "save buffer" ELSE "tasks"

SkipTask ==
    /\ pc = "tasks" /\ left # {}
    /\ Task \in Ids(pool) \/ ~Have(Task)
    /\ left' = left \ {Task} /\ pc' = AfterTask
    /\ UNCHANGED <<world, disk, pool, stages, builds, ended, cut>>

(* _gen_task() takes a task back whose scene does not build.               *)
AddTask ==
    /\ pool' = IF Task \in Bases \/ Builds(Task)
               THEN [pool EXCEPT !.tasks = @ \cup {<<Task, Listed(Task)>>}]
               ELSE pool
    /\ left' = left \ {Task}

(* _import_demos(): demonstrations that are there already will do.  Those  *)
(* of a drawing are written anew.                                          *)
ImportTask ==
    /\ pc = "tasks" /\ left # {}
    /\ Task \notin Ids(pool) /\ Have(Task)
    /\ LET new == IF Task \in Drawings THEN {} ELSE FilesOf(Task)
       IN  files' = files \cup new /\ halves' = halves \ new
    /\ IF Task \notin Drawings /\ Listed(Task) >= 1
       THEN AddTask /\ UNCHANGED <<demos, torn, pc>>
       ELSE /\ demos' = [demos EXCEPT ![Task] = 0]
            /\ torn' = torn \ {Task}
            /\ pc' = "demos"
            /\ UNCHANGED <<pool, left>>
    /\ UNCHANGED <<world, json, stages, builds, ended, cut>>

WriteDemo ==
    /\ pc = "demos" /\ demos[Task] < Demos
    /\ demos' = [demos EXCEPT ![Task] = @ + 1]
    /\ UNCHANGED <<world, files, halves, torn, json, pool, stages, left, pc,
                   builds, ended, cut>>

DemosWritten ==
    /\ pc = "demos" /\ demos[Task] = Demos
    /\ AddTask
    /\ pc' = AfterTask
    /\ UNCHANGED <<world, disk, stages, builds, ended, cut>>

Source(stage) == CASE stage = "base" -> {"libero"}
                   [] stage = "draw" -> {"drawanything"}
                   [] OTHER -> {}

(* The stage saves once; the drawings before their source is entered, and  *)
(* once more after it.                                                     *)
TasksDone ==
    /\ pc = "tasks" /\ left = {}
    /\ IF Stage = "draw" THEN pc' = "save drawings" /\ UNCHANGED <<pool, stages>>
       ELSE IF Stage = "generate-draw"
       THEN pc' = "stage" /\ stages' = Tail(stages) /\ UNCHANGED pool
       ELSE /\ pool' = [pool EXCEPT !.sources = @ \cup Source(Stage)]
            /\ pc' = "save stage" /\ UNCHANGED stages
    /\ UNCHANGED <<world, disk, left, builds, ended, cut>>

(* ---- stage_spatial(), stage_environment() ------------------------------ *)

(* A swap must build; what only moves things is added in any case.         *)
SpatialOf(t) == {v \in {t} \X ScenesSpatial :
                    Have(v) /\ (v[2] = "pro_swap" => Builds(v))}

(* A table must build and yield an initial state.                          *)
EnvironmentOf(t) ==
    {v \in {t} \X ScenesEnvironment :
        v[2] = "table" => Have(v) /\ Builds(v) /\ v \notin world.barren}

(* Mutant: what a table or a swap starts from is not written. *)
WrittenButInit(v) ==
    IF Have(v) /\ v[2] \in {"pro_swap", "table"} THEN {<<"bddl", v>>} ELSE {}

(* The files that a variant tried writes for itself: a swap's before it is *)
(* known to build, a table's initial states only after.                    *)
Written(v) ==
    CASE Have(v) /\ v[2] = "pro_swap" -> FilesOf(v)
      [] Have(v) /\ v[2] = "table" ->
            IF Builds(v) /\ v \notin world.barren THEN FilesOf(v)
            ELSE {<<"bddl", v>>}
      [] OTHER -> {}

(* Mutant: a task that has variants is done with. *)
NewUnlessAny(t, vs) == IF \E v \in pool.variants : v[1] = t THEN {} ELSE vs

New(t, vs) == vs \ pool.variants

(* The variants of one task that the pool lacks, then a save.              *)
AddVariants ==
    /\ pc = "variants" /\ left # {}
    /\ LET scenes == IF Stage = "spatial" THEN ScenesSpatial ELSE ScenesEnvironment
           tried == New(Task, {Task} \X scenes)
       IN  /\ pool' = [pool EXCEPT !.variants = @ \cup
                            (tried \cap (SpatialOf(Task) \cup EnvironmentOf(Task)))]
           /\ files' = files \cup UNION {Written(v) : v \in tried}
           /\ halves' = halves \ UNION {Written(v) : v \in tried}
    /\ left' = left \ {Task}
    /\ pc' = "save variants"
    /\ UNCHANGED <<world, demos, torn, json, stages, builds, ended, cut>>

VariantsDone ==
    /\ pc = "variants" /\ left = {}
    /\ stages' = Tail(stages) /\ pc' = "stage"
    /\ UNCHANGED <<world, disk, pool, left, builds, ended, cut>>

(* ---- upgrade_pool() ---------------------------------------------------- *)

(* Its tasks and its variants are all taken over with what they were found *)
(* to be; _copy() leaves alone a file that is there.                       *)
CopyTask ==
    /\ pc = "copy" /\ left # {}
    /\ IF Have(Task)
       THEN /\ pool' = [pool EXCEPT !.tasks = @ \cup {<<Task, Demos>>}]
            /\ files' = files \cup FilesOf(Task)
            /\ demos' = [demos EXCEPT ![Task] =
                            IF Task \in torn /\ @ < Demos THEN Demos - 1 ELSE Demos]
       ELSE UNCHANGED <<pool, files, demos>>
    /\ left' = left \ {Task}
    /\ UNCHANGED <<world, halves, torn, json, stages, pc, builds, ended, cut>>

OldVariants ==
    UNION {SpatialOf(t) \cup EnvironmentOf(t) : t \in Bases \cap Ids(pool)}

CopyVariants ==
    /\ pc = "copy" /\ left = {}
    /\ pool' = [pool EXCEPT !.variants = OldVariants,
                            !.sources = {"libero", "upgraded_from"}]
    /\ files' = files \cup UNION {VariantFiles(v) : v \in OldVariants}
    /\ pc' = "save stage"
    /\ UNCHANGED <<world, halves, demos, torn, json, stages, left, builds, ended,
                   cut>>

(* ---- finalize(), save() ------------------------------------------------ *)

(* The scene of its task is what a displaced or lit variant is tried in.   *)
(* When that does not build, it has every initial state for a valid one.   *)
Unchecked(v) == v[2] \in {"pro_pose", "level", "lighting"} /\ ~Builds(v[1])

Eligible(p) ==
    LET of(kinds) == {v \in p.variants :
                         v[2] \in kinds /\ (v \notin world.barren \/ Unchecked(v))}
        tasks(S) == {t[1] : t \in {t \in p.tasks :
                        t[1] \in S /\ t[1] \notin world.barren /\ t[2] > 0}}
    IN  {<<"spatial", v>> : v \in of(ScenesSpatial)}
        \cup {<<"environment", v>> : v \in of(ScenesEnvironment)}
        \cup {<<"object", t>> : t \in tasks(Gens)}
        \cup {<<"rotation", t>> : t \in tasks(Drawings)}

Sealed(p) == [p EXCEPT !.id = Content(p)]

(* Mutant: the pool is not sealed again. *)
FinalizeUnsealed ==
    /\ pc = "finalize"
    /\ pool' = [pool EXCEPT !.eligible = Eligible(pool)]
    /\ pc' = "save stage"
    /\ UNCHANGED <<world, disk, stages, left, builds, ended, cut>>

Finalize ==
    /\ pc = "finalize"
    /\ pool' = Sealed([pool EXCEPT !.eligible = Eligible(pool)])
    /\ pc' = "save stage"
    /\ UNCHANGED <<world, disk, stages, left, builds, ended, cut>>

(* What is generated is saved by its stages alone.                         *)
Close ==
    /\ pc = "stage" /\ stages = <<>>
    /\ IF Head(ended) \in {"generate", "generate-draw"}
       THEN pc' = "off" /\ pool' = Empty
       ELSE pc' = "save" /\ UNCHANGED pool
    /\ UNCHANGED <<world, disk, stages, left, builds, ended, cut>>

Saves == {"save", "save stage", "save drawings", "save buffer", "save variants"}

(* save() seals what has no id, and only that.                             *)
Save ==
    /\ pc \in Saves
    /\ LET p == IF pool.id = NoId THEN Sealed(pool) ELSE pool
       IN  /\ json' = p
           /\ CASE pc = "save" ->
                     pc' = "off" /\ pool' = Empty /\ UNCHANGED stages
                [] pc = "save stage" ->
                     pc' = "stage" /\ pool' = p /\ stages' = Tail(stages)
                [] pc = "save drawings" ->
                     /\ pc' = "save stage" /\ UNCHANGED stages
                     /\ pool' = [p EXCEPT !.sources = @ \cup Source("draw")]
                [] pc = "save buffer" ->
                     pc' = "tasks" /\ pool' = p /\ UNCHANGED stages
                [] pc = "save variants" ->
                     pc' = "variants" /\ pool' = p /\ UNCHANGED stages
    /\ UNCHANGED <<world, files, halves, demos, torn, left, builds, ended, cut>>

(* The files that are being written.                                       *)
Writing ==
    CASE pc = "tasks" /\ left # {} /\ Task \notin Drawings
         /\ Task \notin Ids(pool) /\ Have(Task) -> FilesOf(Task)
      [] pc = "copy" /\ left # {} /\ Have(Task) -> FilesOf(Task) \ files
      [] pc = "copy" /\ left = {} ->
            (UNION {VariantFiles(v) : v \in OldVariants}) \ files
      [] pc = "variants" /\ left # {} ->
            UNION {Written(v) : v \in New(Task, {v \in Variants : v[1] = Task
                                                  /\ (v[2] \in ScenesSpatial
                                                       <=> Stage = "spatial")})}
      [] OTHER -> {}

WritingDemos ==
    /\ \/ pc = "demos"
       \/ pc = "copy" /\ left # {} /\ Have(Task)
    /\ demos[Task] < Demos

(* The build dies: between two steps, in the middle of a file or among the *)
(* demonstrations of a task, or in the middle of pool.json.                *)
Crash ==
    /\ pc # "off"
    /\ json' \in {json} \cup (IF pc \in Saves THEN {Torn} ELSE {})
    /\ \/ ~WritingDemos /\ UNCHANGED <<files, halves, demos, torn, cut>>
       \/ /\ WritingDemos
          /\ \E n \in demos[Task]..(IF pc = "copy" THEN Demos - 1 ELSE demos[Task]) :
                demos' = [demos EXCEPT ![Task] = n]
          /\ torn' \in {torn, torn \cup {Task}}
          /\ cut' = cut \cup (IF Task \in Drawings THEN {} ELSE {"demos"})
          /\ files' = IF pc = "copy" THEN files \cup FilesOf(Task) ELSE files
          /\ UNCHANGED halves
       \/ \E f \in Writing :
             /\ files' = files \cup {f} /\ halves' = halves \cup {f}
             /\ cut' = cut \cup {"file"} /\ UNCHANGED <<demos, torn>>
    /\ pc' = "off" /\ pool' = Empty /\ stages' = <<>> /\ left' = {}
    /\ ended' = <<>>
    /\ UNCHANGED <<world, builds>>

Next == \/ Open \/ Discard \/ BeginStage
        \/ SkipTask \/ ImportTask \/ WriteDemo \/ DemosWritten \/ TasksDone
        \/ AddVariants \/ VariantsDone \/ CopyTask \/ CopyVariants
        \/ Finalize \/ Close \/ Save \/ Crash

Spec == Init /\ [][Next]_vars
----------------------------------------------------------------------------
Whole == json # NoPool /\ json # Torn

Named == (UNION {FilesOf(t) : t \in Ids(json) \ Drawings})
         \cup (UNION {VariantFiles(v) : v \in json.variants})

(* verify_pool(), but for groups without an eligible entry.                *)
Missing == Named \ files
FewDemos == {t \in json.tasks : t[2] > Listed(t[1])}
Unknown == {e \in json.eligible :
               e[2] \notin json.variants /\ e[2] \notin Ids(json)}
Baseless == {v \in json.variants : v[1] \notin Ids(json)}

(* Wherever a build dies, whatever stages it ran: pool.json names no file  *)
(* and no demonstration that is not there, nor a variant without its task. *)
(* What it names is whole, unless an upgrade found half of a file, or any  *)
(* import half of a demonstration, that a build had died amid.             *)
FilesFirst ==
    Whole =>
        /\ Missing = {} /\ FewDemos = {} /\ Unknown = {} /\ Baseless = {}
        /\ Named \cap halves # {} =>
              "file" \in cut /\ "upgraded_from" \in json.sources
        /\ "demos" \notin cut => \A t \in json.tasks : t[2] <= demos[t[1]]

Finished == pc = "off" /\ ended # <<>> /\ Last(ended) = "finalize"

(* A build that ends with "finalize" leaves a pool that loads, and from    *)
(* each of its eligible entries a unit can be derived: its task has a      *)
(* demonstration, and it has a valid initial state, if the scene that this *)
(* was to be tried in could be built.                                      *)
SealedPoolServes ==
    Finished /\ json # NoPool =>
        /\ Loads
        /\ \A e \in json.eligible :
              /\ e[2] \in world.barren => e[2] \notin Tasks /\ Unchecked(e[2])
              /\ \E t \in json.tasks :
                    t[2] > 0 /\ t[1] = (IF e[2] \in Tasks THEN e[2] ELSE e[2][1])

(* The pool of these sources, built in one go, with what was generated.    *)
Reference(upgraded, generated) ==
    LET tasks == {t \in Tasks : /\ Have(t) /\ (t \in Bases \/ Builds(t))
                                /\ t \in Made => t \in generated}
        p == [Empty EXCEPT
                 !.tasks = {<<t, Demos>> : t \in tasks},
                 !.variants = UNION {SpatialOf(t) \cup EnvironmentOf(t) :
                                        t \in tasks \cap Bases},
                 !.sources = {"libero", "drawanything"} \cup upgraded]
    IN  [p EXCEPT !.eligible = Eligible(p)]

(* "Stages (each idempotent, each appends to pool.json)": after all stages *)
(* the pool is the same, id and all, whatever builds went before and       *)
(* wherever they died, unless one died in the middle of the demonstrations *)
(* of a task of LIBERO; and so is a pool that was upgraded.                *)
Reproducible ==
    /\ Finished /\ ended = Stages /\ "demos" \notin cut =>
          json = Sealed(Reference(json.sources \cap {"upgraded_from"}, Ids(json)))
    /\ Finished /\ ended = <<"upgrade", "draw", "finalize">> =>
          json = Sealed(Reference({"upgraded_from"}, {}))
=============================================================================
