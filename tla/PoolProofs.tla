----------------------------- MODULE PoolProofs -----------------------------
(***************************************************************************)
(* What a build of a pool leaves wherever it dies, for any sources, any    *)
(* stages and any number of builds: pool.json names nothing that is not    *)
(* there, a build that ends with "finalize" has sealed what serves, and    *)
(* one that has run all stages has the pool of its sources.                *)
(***************************************************************************)
EXTENDS PoolBuild, NaturalsInduction, WellFoundedInduction,
        SequenceTheorems, TLAPS

(* A pool document with its fields in their types.  What it was sealed as  *)
(* is its content, without an id.                                          *)
Kinds == {"spatial", "environment", "object", "rotation"}
Origins == {"libero", "drawanything", "upgraded_from"}
Contents == [tasks : SUBSET (Tasks \X Nat), variants : SUBSET Variants,
             sources : SUBSET Origins,
             eligible : SUBSET (Kinds \X (Tasks \cup Variants)), id : {NoId}]
Pools == [tasks : SUBSET (Tasks \X Nat), variants : SUBSET Variants,
          sources : SUBSET Origins,
          eligible : SUBSET (Kinds \X (Tasks \cup Variants)),
          id : Contents \cup {NoId}]
Labels == {"off", "stage", "tasks", "demos", "variants", "copy", "finalize"} \cup Saves
StageNames == ToSet(Stages) \cup OtherStages

TypeOK ==
    /\ world \in Worlds
    /\ demos \in [Tasks -> 0..Demos] /\ torn \subseteq Tasks
    /\ json \in Pools \cup {NoPool, Torn} /\ pool \in Pools
    /\ stages \in Seq(StageNames) /\ left \subseteq Tasks
    /\ pc \in Labels

(* An upgrade is a build's first stage: its pool begins empty, and until   *)
(* it is saved pool.json holds what was there before.                      *)
Upgrading == stages # <<>> /\ Stage = "upgrade"

StageInv ==
    /\ \A i \in 2..Len(stages) : stages[i] # "upgrade"
    /\ pc \notin {"off", "stage", "save"} => stages # <<>>
    /\ pc = "copy" => Upgrading /\ left \subseteq OldTasks
    /\ pc \notin {"off", "stage", "copy", "save stage"} => ~Upgrading
    /\ pc \in {"variants", "save variants"} => left \subseteq Bases \cap Ids(pool)
    /\ Upgrading => pool.eligible = {}
    /\ Upgrading /\ pc \in {"stage", "copy"} => pool.variants = {}
    /\ Upgrading /\ pc = "stage" => pool.tasks = {}
    /\ pc = "demos" =>
         /\ left # {} /\ Task \notin Ids(pool) /\ Task \notin torn
         /\ Task \in Drawings \/ FilesOf(Task) \subseteq files \ halves

(* What builds that died have left in halves.                              *)
HalvesInv ==
    /\ halves # {} => "file" \in cut
    /\ torn \subseteq Drawings \/ "demos" \in cut

(* Else the pool in memory has all that pool.json has.                     *)
GrowInv ==
    Whole /\ pc # "off" /\ ~Upgrading =>
        Ids(json) \subseteq Ids(pool) /\ json.variants \subseteq pool.variants

(* What a document names is there, of these files and demonstrations ...   *)
Backed(p, there, whole, half, died) ==
    /\ \A t \in Ids(p) \ Drawings : FilesOf(t) \subseteq there
    /\ \A v \in p.variants : VariantFiles(v) \subseteq there /\ v[1] \in Ids(p)
    /\ \A t \in p.tasks : /\ t[2] > 0
                          /\ t[2] <= whole[t[1]] + (IF t[1] \in half THEN 1 ELSE 0)
                          /\ "demos" \in died \/ t[2] <= whole[t[1]]
    /\ \A e \in p.eligible : e[2] \in p.variants \cup Ids(p)

(* ... and whole, but for what an upgrade has found.                       *)
Intact(p, broken, died) ==
    \/ "file" \in died /\ "upgraded_from" \in p.sources
    \/ /\ \A t \in Ids(p) \ Drawings : FilesOf(t) \cap broken = {}
       /\ \A v \in p.variants : VariantFiles(v) \cap broken = {}

PoolInv == /\ Backed(pool, files, demos, torn, cut)
           /\ pc # "copy" => Intact(pool, halves, cut)
JsonInv == Whole => /\ Backed(json, files, demos, torn, cut)
                    /\ Intact(json, halves, cut)

IInv == TypeOK /\ StageInv /\ HalvesInv /\ GrowInv /\ PoolInv /\ JsonInv
-----------------------------------------------------------------------------
(* Of some natural numbers one is the least.                               *)
LEMMA LeastOf ==
    ASSUME NEW S, S \subseteq Nat, S # {}
    PROVE  \E m \in S : \A k \in S : ~(k < m)
<1>. DEFINE R == OpToRel(<, Nat)
<1>1. IsWellFoundedOn(R, Nat)
  BY NatLessThanWellFounded
<1>2. PICK m \in S : \A k \in S : ~(<<k, m>> \in R)
  <2>. HIDE DEF R
  <2>. QED BY <1>1, WFMin
<1>3. \A k \in S : k < m => <<k, m>> \in R
  BY DEF OpToRel
<1>. QED BY <1>2, <1>3

(* The task at hand is one of those that are left.                         *)
LEMMA TaskIsLeft ==
    ASSUME left \subseteq Tasks, left # {}
    PROVE  Task \in left
<1>. DEFINE at == {i \in 1..Len(Order) : Order[i] \in left}
<1>1. Order \in Seq(Tasks) /\ \A t \in Tasks : \E i \in 1..Len(Order) : Order[i] = t
  BY OrderAssumption DEF ToSet
<1>2. at # {} /\ at \subseteq Nat
  BY <1>1
<1>3. PICK m \in at : \A k \in at : ~(k < m)
  <2>. HIDE DEF at
  <2>. QED BY <1>2, LeastOf
<1>. DEFINE First(i) == Order[i] \in left /\ \A j \in 1..(i - 1) : Order[j] \notin left
            at1 == CHOOSE i \in DOMAIN Order : First(i)
<1>4. \E i \in DOMAIN Order : First(i)
  <2>1. /\ DOMAIN Order = 1..Len(Order) /\ Len(Order) \in Nat
        /\ m \in 1..Len(Order) /\ Order[m] \in left
    BY <1>1, <1>3
  <2>2. ASSUME NEW j \in 1..(m - 1) PROVE Order[j] \notin left
    <3>1. j \in 1..Len(Order) /\ j < m
      BY <2>1
    <3>. QED BY <1>3, <3>1
  <2>. QED BY <2>1, <2>2
<1>5. First(at1)
  <2>. HIDE DEF First
  <2>. QED BY <1>4
<1>6. Task = Order[at1]
  BY DEF Task
<1>7. Order[at1] \in left
  <2>. HIDE DEF at1
  <2>. QED BY <1>5
<1>. HIDE DEF at1
<1>. QED BY <1>6, <1>7

(* After a stage no upgrade comes.                                         *)
LEMMA StageOver ==
    ASSUME stages \in Seq(StageNames), stages # <<>>,
           \A i \in 2..Len(stages) : stages[i] # "upgrade"
    PROVE  /\ Tail(stages) \in Seq(StageNames)
           /\ \A i \in 2..Len(Tail(stages)) : Tail(stages)[i] # "upgrade"
           /\ Tail(stages) = <<>> \/ Head(Tail(stages)) # "upgrade"
<1>1. /\ Len(stages) \in Nat /\ Len(stages) >= 1
      /\ Tail(stages) \in Seq(StageNames) /\ Len(Tail(stages)) = Len(stages) - 1
      /\ \A i \in 1..(Len(stages) - 1) : Tail(stages)[i] = stages[i + 1]
  OBVIOUS
<1>2. \A i \in 1..Len(Tail(stages)) : Tail(stages)[i] # "upgrade"
  BY <1>1
<1>3. Tail(stages) # <<>> => Head(Tail(stages)) = Tail(stages)[1] /\ Len(Tail(stages)) >= 1
  BY <1>1
<1>. QED BY <1>1, <1>2, <1>3

(* Sealing changes nothing but the id.                                     *)
LEMMA SealedType ==
    ASSUME NEW p \in Pools
    PROVE  /\ Sealed(p) \in Pools
           /\ Sealed(p).tasks = p.tasks /\ Sealed(p).variants = p.variants
           /\ Sealed(p).sources = p.sources /\ Sealed(p).eligible = p.eligible
<1>1. Content(p) \in Contents
  BY DEF Content, Contents, Pools
<1>. QED BY <1>1 DEF Sealed, Pools

(* The empty pool names nothing.                                           *)
LEMMA EmptyPool ==
    /\ Empty \in Pools
    /\ \A there, whole, half, broken, died :
          Backed(Empty, there, whole, half, died) /\ Intact(Empty, broken, died)
<1>1. /\ Empty \in Pools
      /\ Empty.tasks = {} /\ Empty.variants = {} /\ Empty.eligible = {}
  BY DEF Empty, Pools
<1>. QED BY <1>1 DEF Backed, Intact, Ids

(* Where more is there, what was there still is.                           *)
LEMMA BackedGrows ==
    ASSUME NEW p \in Pools, NEW there, NEW whole, NEW half, NEW died,
           NEW there2, NEW whole2, NEW half2, NEW died2,
           Backed(p, there, whole, half, died),
           there \subseteq there2, died \subseteq died2,
           whole \in [Tasks -> Nat], whole2 \in [Tasks -> Nat],
           \A t \in Ids(p) : /\ whole[t] <= whole2[t]
                             /\ t \in half => t \in half2
    PROVE  Backed(p, there2, whole2, half2, died2)
<1>1. p.tasks \subseteq Tasks \X Nat
  BY DEF Pools
<1>2. ASSUME NEW t \in p.tasks
      PROVE  /\ t[2] > 0
             /\ t[2] <= whole2[t[1]] + (IF t[1] \in half2 THEN 1 ELSE 0)
             /\ "demos" \in died2 \/ t[2] <= whole2[t[1]]
  <2>1. t[1] \in Ids(p) /\ t[1] \in Tasks /\ t[2] \in Nat
    BY <1>1 DEF Ids
  <2>2. /\ t[2] > 0
        /\ t[2] <= whole[t[1]] + (IF t[1] \in half THEN 1 ELSE 0)
        /\ "demos" \in died \/ t[2] <= whole[t[1]]
    BY DEF Backed
  <2>. QED BY <2>1, <2>2
<1>. QED BY <1>2 DEF Backed

(* The files of a task or a variant are its own or its task's.             *)
LEMMA Owners ==
    ASSUME NEW p \in Pools, NEW f
    PROVE  /\ \A t \in Ids(p) : t \in Tasks /\ (f \in FilesOf(t) => f[2] = t)
           /\ \A v \in p.variants :
                 f \in VariantFiles(v) => f[2] = v \/ f[2] = v[1]
BY DEF Pools, Ids, FilesOf, VariantFiles

(* What is whole stays so when only files that it does not name are found  *)
(* broken.                                                                 *)
LEMMA IntactStays ==
    ASSUME NEW p \in Pools, NEW there, NEW whole, NEW half, NEW died,
           NEW broken, NEW broken2, NEW died2,
           Backed(p, there, whole, half, died), Intact(p, broken, died),
           died \subseteq died2,
           \A f \in broken2 \ broken :
              f \notin there \/ f[2] \notin Ids(p) \cup p.variants
    PROVE  Intact(p, broken2, died2)
<1>1. ASSUME NEW t \in Ids(p) \ Drawings, FilesOf(t) \cap broken = {}
      PROVE  FilesOf(t) \cap broken2 = {}
  BY <1>1, Owners DEF Backed
<1>2. ASSUME NEW v \in p.variants, VariantFiles(v) \cap broken = {}
      PROVE  VariantFiles(v) \cap broken2 = {}
  BY <1>2, Owners DEF Backed
<1>. QED BY <1>1, <1>2 DEF Intact

(* Only what a document names matters.                                     *)
LEMMA SameNames ==
    ASSUME NEW p, NEW q, p.tasks = q.tasks, p.variants = q.variants,
           p.eligible = q.eligible, p.sources \subseteq q.sources
    PROVE  \A there, whole, half, broken, died :
              /\ Backed(p, there, whole, half, died) => Backed(q, there, whole, half, died)
              /\ Intact(p, broken, died) => Intact(q, broken, died)
BY DEF Backed, Intact, Ids
-----------------------------------------------------------------------------
(* A build begins empty, or with what pool.json says.                      *)
LEMMA OpenInductive == IInv /\ Open => IInv'
<1>. SUFFICES ASSUME IInv, Open PROVE IInv'
  OBVIOUS
<1>. USE DEF IInv
<1>1. PICK s \in Invocations :
         /\ stages' = s /\ ended' = s
         /\ \/ /\ Head(s) = "upgrade" \/ json = NoPool
               /\ pool' = Empty
            \/ /\ Head(s) # "upgrade" /\ json # NoPool /\ Loads
               /\ pool' = [json EXCEPT !.id = NoId]
  BY DEF Open
<1>2. /\ s \in Seq(StageNames) /\ s # <<>> /\ \A i \in 2..Len(s) : s[i] # "upgrade"
  BY InvocationsAssumption DEF StageNames
<1>3. /\ pc' = "stage" /\ left' = left /\ world' = world /\ cut' = cut
      /\ files' = files /\ halves' = halves /\ demos' = demos /\ torn' = torn
      /\ json' = json
  BY DEF Open, disk
<1>4. CASE pool' = Empty /\ (Head(s) = "upgrade" \/ json = NoPool)
  <2>1. /\ pool'.tasks = {} /\ pool'.variants = {} /\ pool'.eligible = {}
    BY <1>4 DEF Empty
  <2>2. TypeOK'
    BY <1>1, <1>2, <1>3, <1>4, EmptyPool DEF TypeOK, Labels
  <2>3. StageInv' /\ HalvesInv' /\ GrowInv'
    BY <1>1, <1>2, <1>3, <1>4, <2>1 DEF StageInv, HalvesInv, GrowInv, Upgrading,
       Stage, Whole
  <2>4. PoolInv' /\ JsonInv'
    BY <1>3, <1>4, EmptyPool DEF PoolInv, JsonInv, Whole
  <2>. QED BY <2>2, <2>3, <2>4
<1>5. CASE Head(s) # "upgrade" /\ json # NoPool /\ Loads /\ pool' = [json EXCEPT !.id = NoId]
  <2>1. json \in Pools /\ Whole
    BY <1>5 DEF TypeOK, Loads, Whole
  <2>2. /\ pool' \in Pools /\ pool'.tasks = json.tasks
        /\ pool'.variants = json.variants /\ pool'.eligible = json.eligible
        /\ pool'.sources = json.sources
    BY <1>5, <2>1 DEF Pools
  <2>3. TypeOK'
    BY <1>1, <1>2, <1>3, <2>2 DEF TypeOK, Labels
  <2>4. StageInv' /\ HalvesInv' /\ GrowInv'
    BY <1>1, <1>2, <1>3, <1>5, <2>2 DEF StageInv, HalvesInv, GrowInv, Upgrading,
       Stage, Ids
  <2>5. PoolInv' /\ JsonInv'
    BY <1>3, <2>1, <2>2, SameNames DEF PoolInv, JsonInv, Whole
  <2>. QED BY <2>3, <2>4, <2>5
<1>. QED BY <1>1, <1>4, <1>5

(* A pool.json that does not load is removed.                              *)
LEMMA DiscardInductive == IInv /\ Discard => IInv'
BY DEF IInv, Discard, TypeOK, StageInv, HalvesInv, GrowInv, PoolInv, JsonInv,
   Upgrading, Stage, Whole

(* The tasks of a stage are all before it.                                 *)
LEMMA BeginStageInductive == IInv /\ BeginStage => IInv'
<1>. SUFFICES ASSUME IInv, BeginStage PROVE IInv'
  OBVIOUS
<1>. USE DEF IInv
<1>1. /\ pc = "stage" /\ stages # <<>> /\ left' = TasksOf(Stage)
      /\ stages' = stages /\ pool' = pool /\ world' = world /\ cut' = cut
      /\ files' = files /\ halves' = halves /\ demos' = demos /\ torn' = torn
      /\ json' = json
  BY DEF BeginStage, disk
<1>2. /\ pc' \in {"finalize", "variants", "copy", "tasks"}
      /\ pc' = "copy" <=> Stage = "upgrade"
      /\ pc' = "variants" => Stage \in {"spatial", "environment"}
  BY DEF BeginStage
<1>3. left' \subseteq Tasks
  BY <1>1 DEF TasksOf, OldTasks, Tasks
<1>4. /\ Stage = "upgrade" => left' = OldTasks
      /\ Stage \in {"spatial", "environment"} => left' = Bases \cap Ids(pool)
  BY <1>1 DEF TasksOf
<1>5. OldTasks' = OldTasks
  BY <1>1 DEF OldTasks, Builds
<1>6. TypeOK'
  BY <1>1, <1>2, <1>3 DEF TypeOK, Labels
<1>7. StageInv' /\ HalvesInv' /\ GrowInv'
  BY <1>1, <1>2, <1>4, <1>5 DEF StageInv, HalvesInv, GrowInv, Upgrading, Stage,
     Whole, Ids
<1>8. PoolInv' /\ JsonInv'
  BY <1>1, <1>2 DEF PoolInv, JsonInv, Whole
<1>. QED BY <1>6, <1>7, <1>8

(* A task that is there or cannot be had is passed over.                   *)
LEMMA SkipTaskInductive == IInv /\ SkipTask => IInv'
<1>. SUFFICES ASSUME IInv, SkipTask PROVE IInv'
  OBVIOUS
<1>. USE DEF IInv
<1>1. /\ pc = "tasks" /\ pc' \in {"tasks", "save buffer"} /\ left' \subseteq left
      /\ stages' = stages /\ pool' = pool /\ world' = world /\ cut' = cut
      /\ files' = files /\ halves' = halves /\ demos' = demos /\ torn' = torn
      /\ json' = json
  BY DEF SkipTask, disk, AfterTask
<1>2. TypeOK'
  BY <1>1 DEF TypeOK, Labels, Saves
<1>3. StageInv' /\ HalvesInv' /\ GrowInv'
  BY <1>1 DEF StageInv, HalvesInv, GrowInv, Upgrading, Stage, Whole, Ids
<1>4. PoolInv' /\ JsonInv'
  BY <1>1 DEF PoolInv, JsonInv, Whole
<1>. QED BY <1>2, <1>3, <1>4

(* One more demonstration of a task that no pool has yet.                  *)
LEMMA WriteDemoInductive == IInv /\ WriteDemo => IInv'
<1>. SUFFICES ASSUME IInv, WriteDemo PROVE IInv'
  OBVIOUS
<1>. USE DEF IInv
<1>1. /\ pc = "demos" /\ pc' = pc /\ left' = left /\ demos[Task] < Demos
      /\ demos' = [demos EXCEPT ![Task] = @ + 1]
      /\ stages' = stages /\ pool' = pool /\ world' = world /\ cut' = cut
      /\ files' = files /\ halves' = halves /\ torn' = torn /\ json' = json
  BY DEF WriteDemo
<1>2. Task \in Tasks /\ Task' = Task
  BY <1>1, TaskIsLeft DEF TypeOK, StageInv, Task
<1>3. /\ demos' \in [Tasks -> 0..Demos]
      /\ demos \in [Tasks -> Nat] /\ demos' \in [Tasks -> Nat]
      /\ \A t \in Tasks : demos[t] <= demos'[t]
  BY <1>1, <1>2, NumbersAssumption DEF TypeOK
<1>4. TypeOK'
  BY <1>1, <1>3 DEF TypeOK
<1>5. StageInv' /\ HalvesInv' /\ GrowInv'
  BY <1>1, <1>2 DEF StageInv, HalvesInv, GrowInv, Upgrading, Stage, Whole, Ids
<1>6. ASSUME NEW p \in Pools, Backed(p, files, demos, torn, cut)
      PROVE  Backed(p, files, demos', torn, cut)
  BY <1>3, <1>6, BackedGrows, Owners
<1>7. PoolInv' /\ JsonInv'
  BY <1>1, <1>6 DEF TypeOK, PoolInv, JsonInv, Whole
<1>. QED BY <1>4, <1>5, <1>7

(* What is known of the stages when a task has been imported.              *)
LEMMA Importing ==
    ASSUME IInv, pc \in {"tasks", "demos"}, left # {}
    PROVE  /\ ~Upgrading /\ stages # <<>> /\ Task \in Tasks
           /\ Task \notin Ids(pool) /\ Whole => Task \notin Ids(json)
BY TaskIsLeft DEF IInv, TypeOK, StageInv, GrowInv

(* The task that AddTask enters has its files and its demonstrations.      *)
LEMMA AddTaskEnters ==
    ASSUME AddTask, pool \in Pools, Task \in Tasks,
           NEW there, NEW whole, NEW half, NEW broken, NEW died,
           Listed(Task) \in Nat, Listed(Task) > 0,
           Backed(pool, there, whole, half, died), Intact(pool, broken, died),
           Task \in Drawings \/ FilesOf(Task) \subseteq there \ broken,
           Listed(Task) <= whole[Task] + (IF Task \in half THEN 1 ELSE 0),
           "demos" \in died \/ Listed(Task) <= whole[Task]
    PROVE  /\ pool' \in Pools /\ Backed(pool', there, whole, half, died)
           /\ Intact(pool', broken, died)
           /\ Ids(pool) \subseteq Ids(pool') /\ pool'.variants = pool.variants
           /\ left' \subseteq left
<1>1. CASE pool' = pool
  BY <1>1 DEF AddTask
<1>2. CASE pool' = [pool EXCEPT !.tasks = @ \cup {<<Task, Listed(Task)>>}]
  <2>1. /\ pool' \in Pools /\ pool'.tasks = pool.tasks \cup {<<Task, Listed(Task)>>}
        /\ pool'.variants = pool.variants /\ pool'.eligible = pool.eligible
        /\ pool'.sources = pool.sources
    BY <1>2 DEF Pools
  <2>2. Ids(pool') = Ids(pool) \cup {Task}
    <3>. DEFINE entry == <<Task, Listed(Task)>>
    <3>1. entry[1] = Task /\ pool'.tasks = pool.tasks \cup {entry}
      BY <2>1
    <3>. HIDE DEF entry
    <3>. QED BY <3>1 DEF Ids
  <2>3. Backed(pool', there, whole, half, died)
    BY <2>1, <2>2 DEF Backed
  <2>4. Intact(pool', broken, died)
    BY <2>1, <2>2 DEF Intact
  <2>. QED BY <2>1, <2>2, <2>3, <2>4 DEF AddTask
<1>. QED BY <1>1, <1>2 DEF AddTask

(* A task's files are written first, then its demonstrations, if it has    *)
(* none; only then is it in the pool.                                      *)
LEMMA ImportTaskInductive == IInv /\ ImportTask => IInv'
<1>. SUFFICES ASSUME IInv, ImportTask PROVE IInv'
  OBVIOUS
<1>. USE DEF IInv
<1>. DEFINE new == IF Task \in Drawings THEN {} ELSE FilesOf(Task)
<1>1. /\ pc = "tasks" /\ left # {} /\ Task \notin Ids(pool)
      /\ files' = files \cup new /\ halves' = halves \ new
      /\ stages' = stages /\ world' = world /\ cut' = cut /\ json' = json
  BY DEF ImportTask
<1>2. /\ ~Upgrading /\ stages # <<>> /\ Task \in Tasks
      /\ Whole => Task \notin Ids(json)
  BY <1>1, Importing
<1>3. demos \in [Tasks -> Nat]
  BY NumbersAssumption DEF TypeOK
<1>4. CASE Task \notin Drawings /\ Listed(Task) >= 1
  <2>1. AddTask /\ demos' = demos /\ torn' = torn /\ pc' = pc
    BY <1>4 DEF ImportTask
  <2>2. /\ Backed(pool, files', demos, torn, cut) /\ Intact(pool, halves', cut)
        /\ Whole => Backed(json, files', demos, torn, cut) /\ Intact(json, halves', cut)
    <3>1. ASSUME NEW p \in Pools, Backed(p, files, demos, torn, cut), Intact(p, halves, cut)
          PROVE  Backed(p, files', demos, torn, cut) /\ Intact(p, halves', cut)
      <4>1. Backed(p, files', demos, torn, cut)
        BY <1>1, <1>3, <3>1, BackedGrows, Owners
      <4>2. Intact(p, halves', cut)
        BY <1>1, <3>1, IntactStays
      <4>. QED BY <4>1, <4>2
    <3>. QED BY <1>1, <3>1 DEF TypeOK, PoolInv, JsonInv, Whole
  <2>3. "demos" \in cut \/ Listed(Task) <= demos[Task]
    BY <1>2, <1>3, <1>4 DEF HalvesInv, Listed
  <2>4. Listed(Task) \in Nat /\ Listed(Task) > 0 /\ Listed(Task) <= demos[Task] + (IF Task \in torn THEN 1 ELSE 0)
    BY <1>2, <1>3, <1>4 DEF Listed
  <2>5. FilesOf(Task) \subseteq files' \ halves'
    BY <1>1, <1>4
  <2>6. /\ pool' \in Pools /\ Backed(pool', files', demos, torn, cut)
        /\ Intact(pool', halves', cut)
        /\ Ids(pool) \subseteq Ids(pool') /\ pool'.variants = pool.variants
        /\ left' \subseteq left
    BY <1>2, <2>1, <2>2, <2>3, <2>4, <2>5, AddTaskEnters DEF TypeOK
  <2>7. TypeOK'
    BY <1>1, <2>1, <2>6 DEF TypeOK
  <2>8. StageInv' /\ HalvesInv' /\ GrowInv'
    <3>1. ~Upgrading'
      BY <1>1, <1>2 DEF Upgrading, Stage
    <3>2. StageInv'
      BY <1>1, <1>2, <2>1, <3>1 DEF StageInv
    <3>3. HalvesInv' /\ GrowInv'
      BY <1>1, <1>2, <2>1, <2>6 DEF HalvesInv, GrowInv, Whole
    <3>. QED BY <3>2, <3>3
  <2>9. PoolInv' /\ JsonInv'
    BY <1>1, <2>1, <2>2, <2>6 DEF PoolInv, JsonInv, Whole
  <2>. QED BY <2>7, <2>8, <2>9
<1>5. CASE ~(Task \notin Drawings /\ Listed(Task) >= 1)
  <2>1. /\ demos' = [demos EXCEPT ![Task] = 0] /\ torn' = torn \ {Task}
        /\ pc' = "demos" /\ pool' = pool /\ left' = left
    BY <1>5 DEF ImportTask
  <2>2. Task' = Task
    BY <2>1 DEF Task
  <2>3. /\ demos' \in [Tasks -> 0..Demos] /\ demos' \in [Tasks -> Nat]
        /\ \A t \in Tasks : t # Task => demos'[t] = demos[t]
    BY <1>2, <2>1, NumbersAssumption DEF TypeOK
  <2>4. TypeOK'
    BY <1>1, <2>1, <2>3 DEF TypeOK, Labels
  <2>5. StageInv' /\ HalvesInv' /\ GrowInv'
    <3>1. ~Upgrading'
      BY <1>1, <1>2 DEF Upgrading, Stage
    <3>2. StageInv'
      BY <1>1, <1>2, <2>1, <2>2, <3>1 DEF StageInv, Ids
    <3>3. HalvesInv' /\ GrowInv'
      BY <1>1, <1>2, <2>1 DEF HalvesInv, GrowInv, Whole
    <3>. QED BY <3>2, <3>3
  <2>6. ASSUME NEW p \in Pools, Task \notin Ids(p),
               Backed(p, files, demos, torn, cut), Intact(p, halves, cut)
        PROVE  Backed(p, files', demos', torn', cut) /\ Intact(p, halves', cut)
    <3>1. \A t \in Ids(p) : demos[t] <= demos'[t] /\ (t \in torn => t \in torn')
      BY <1>3, <2>1, <2>3, <2>6, Owners
    <3>2. Backed(p, files', demos', torn', cut)
      BY <1>1, <1>3, <2>3, <2>6, <3>1, BackedGrows
    <3>3. Intact(p, halves', cut)
      BY <1>1, <2>6, IntactStays
    <3>. QED BY <3>2, <3>3
  <2>7. PoolInv' /\ JsonInv'
    BY <1>1, <1>2, <2>1, <2>6 DEF TypeOK, PoolInv, JsonInv, Whole
  <2>. QED BY <2>4, <2>5, <2>7
<1>. QED BY <1>4, <1>5

(* All demonstrations are written: the task is in the pool.                *)
LEMMA DemosWrittenInductive == IInv /\ DemosWritten => IInv'
<1>. SUFFICES ASSUME IInv, DemosWritten PROVE IInv'
  OBVIOUS
<1>. USE DEF IInv
<1>1. /\ pc = "demos" /\ AddTask /\ pc' \in {"tasks", "save buffer"}
      /\ stages' = stages /\ world' = world /\ cut' = cut
      /\ files' = files /\ halves' = halves /\ demos' = demos /\ torn' = torn
      /\ json' = json
  BY DEF DemosWritten, disk, AfterTask
<1>2. /\ left # {} /\ Task \notin torn
      /\ Task \in Drawings \/ FilesOf(Task) \subseteq files \ halves
      /\ demos[Task] = Demos
  BY <1>1 DEF StageInv, DemosWritten
<1>3. ~Upgrading /\ stages # <<>> /\ Task \in Tasks
  BY <1>1, <1>2, Importing
<1>4. Listed(Task) = demos[Task] /\ Listed(Task) \in Nat /\ Listed(Task) > 0
  BY <1>2, <1>3, NumbersAssumption DEF TypeOK, Listed
<1>5. /\ pool' \in Pools /\ Backed(pool', files, demos, torn, cut)
      /\ Intact(pool', halves, cut)
      /\ Ids(pool) \subseteq Ids(pool') /\ pool'.variants = pool.variants
      /\ left' \subseteq left
  <2>1. /\ pool \in Pools /\ Backed(pool, files, demos, torn, cut)
        /\ Intact(pool, halves, cut)
    BY <1>1 DEF TypeOK, PoolInv
  <2>2. Listed(Task) <= demos[Task] + (IF Task \in torn THEN 1 ELSE 0)
    BY <1>2, <1>4
  <2>3. "demos" \in cut \/ Listed(Task) <= demos[Task]
    BY <1>4
  <2>. QED BY <1>1, <1>2, <1>3, <1>4, <2>1, <2>2, <2>3, AddTaskEnters
<1>6. TypeOK'
  BY <1>1, <1>5 DEF TypeOK, Labels, Saves
<1>7. ~Upgrading'
  BY <1>1, <1>3 DEF Upgrading, Stage
<1>8. StageInv' /\ HalvesInv' /\ GrowInv'
  BY <1>1, <1>3, <1>5, <1>7 DEF StageInv, HalvesInv, GrowInv, Whole
<1>9. PoolInv' /\ JsonInv'
  BY <1>1, <1>5 DEF PoolInv, JsonInv, Whole
<1>. QED BY <1>6, <1>8, <1>9

(* The pool's sources are entered, and the stage is saved or over.         *)
LEMMA TasksDoneInductive == IInv /\ TasksDone => IInv'
<1>. SUFFICES ASSUME IInv, TasksDone PROVE IInv'
  OBVIOUS
<1>. USE DEF IInv
<1>1. /\ pc = "tasks" /\ left' = left /\ world' = world /\ cut' = cut
      /\ files' = files /\ halves' = halves /\ demos' = demos /\ torn' = torn
      /\ json' = json
  BY DEF TasksDone, disk
<1>2. \/ pc' \in {"save drawings", "save stage"} /\ stages' = stages
      \/ pc' = "stage" /\ stages' = Tail(stages)
  BY DEF TasksDone
<1>3. /\ pool' \in Pools /\ pool'.tasks = pool.tasks
      /\ pool'.variants = pool.variants /\ pool'.eligible = pool.eligible
      /\ pool.sources \subseteq pool'.sources
  <2>1. \/ pool' = pool
        \/ pool' = [pool EXCEPT !.sources = @ \cup Source(Stage)]
    BY DEF TasksDone
  <2>2. Source(Stage) \subseteq Origins
    BY DEF Source, Origins
  <2>. QED BY <2>1, <2>2 DEF TypeOK, Pools
<1>4. stages # <<>> /\ ~Upgrading
  BY <1>1 DEF StageInv
<1>5. /\ Tail(stages) \in Seq(StageNames)
      /\ \A i \in 2..Len(Tail(stages)) : Tail(stages)[i] # "upgrade"
      /\ Tail(stages) = <<>> \/ Head(Tail(stages)) # "upgrade"
  BY <1>4, StageOver DEF TypeOK, StageInv
<1>6. TypeOK'
  BY <1>1, <1>2, <1>3, <1>5 DEF TypeOK, Labels, Saves
<1>7. ~Upgrading'
  BY <1>2, <1>4, <1>5 DEF Upgrading, Stage
<1>8. StageInv' /\ HalvesInv' /\ GrowInv'
  BY <1>1, <1>2, <1>3, <1>4, <1>5, <1>7 DEF StageInv, HalvesInv, GrowInv, Whole, Ids
<1>9. PoolInv' /\ JsonInv'
  BY <1>1, <1>2, <1>3, SameNames DEF PoolInv, JsonInv, Whole
<1>. QED BY <1>6, <1>8, <1>9

(* A stage of variants is over.                                            *)
LEMMA VariantsDoneInductive == IInv /\ VariantsDone => IInv'
<1>. SUFFICES ASSUME IInv, VariantsDone PROVE IInv'
  OBVIOUS
<1>. USE DEF IInv
<1>1. /\ pc = "variants" /\ pc' = "stage" /\ stages' = Tail(stages)
      /\ left' = left /\ pool' = pool /\ world' = world /\ cut' = cut
      /\ files' = files /\ halves' = halves /\ demos' = demos /\ torn' = torn
      /\ json' = json
  BY DEF VariantsDone, disk
<1>2. stages # <<>> /\ ~Upgrading
  BY <1>1 DEF StageInv
<1>3. /\ Tail(stages) \in Seq(StageNames)
      /\ \A i \in 2..Len(Tail(stages)) : Tail(stages)[i] # "upgrade"
      /\ Tail(stages) = <<>> \/ Head(Tail(stages)) # "upgrade"
  BY <1>2, StageOver DEF TypeOK, StageInv
<1>4. TypeOK'
  BY <1>1, <1>3 DEF TypeOK, Labels
<1>5. ~Upgrading'
  BY <1>1, <1>3 DEF Upgrading, Stage
<1>6. StageInv' /\ HalvesInv' /\ GrowInv'
  BY <1>1, <1>2, <1>3, <1>5 DEF StageInv, HalvesInv, GrowInv, Whole, Ids
<1>7. PoolInv' /\ JsonInv'
  BY <1>1 DEF PoolInv, JsonInv, Whole
<1>. QED BY <1>4, <1>6, <1>7

(* The pool is judged and sealed: what is eligible is in it.               *)
LEMMA FinalizeInductive == IInv /\ Finalize => IInv'
<1>. SUFFICES ASSUME IInv, Finalize PROVE IInv'
  OBVIOUS
<1>. USE DEF IInv
<1>. DEFINE judged == [pool EXCEPT !.eligible = Eligible(pool)]
<1>1. /\ pc = "finalize" /\ pc' = "save stage" /\ pool' = Sealed(judged)
      /\ stages' = stages /\ left' = left /\ world' = world /\ cut' = cut
      /\ files' = files /\ halves' = halves /\ demos' = demos /\ torn' = torn
      /\ json' = json
  BY DEF Finalize, disk
<1>2. /\ Eligible(pool) \subseteq Kinds \X (Tasks \cup Variants)
      /\ \A e \in Eligible(pool) : e[2] \in pool.variants \cup Ids(pool)
  <2>1. pool.variants \subseteq Variants /\ Ids(pool) \subseteq Tasks
    BY Owners DEF TypeOK, Pools
  <2>2. \A e \in Eligible(pool) :
           \E k \in Kinds, x \in pool.variants \cup Ids(pool) : e = <<k, x>>
    BY DEF Eligible, Ids, Kinds
  <2>. QED BY <2>1, <2>2
<1>3. /\ judged \in Pools /\ judged.tasks = pool.tasks
      /\ judged.variants = pool.variants /\ judged.eligible = Eligible(pool)
      /\ judged.sources = pool.sources
  BY <1>2 DEF TypeOK, Pools
<1>4. /\ pool' \in Pools /\ pool'.tasks = pool.tasks
      /\ pool'.variants = pool.variants /\ pool'.eligible = Eligible(pool)
      /\ pool'.sources = pool.sources
  <2>. HIDE DEF judged
  <2>. QED BY <1>1, <1>3, SealedType
<1>5. stages # <<>> /\ ~Upgrading
  BY <1>1 DEF StageInv
<1>6. TypeOK'
  BY <1>1, <1>4 DEF TypeOK, Labels, Saves
<1>7. ~Upgrading'
  BY <1>1, <1>5 DEF Upgrading, Stage
<1>8. StageInv' /\ HalvesInv' /\ GrowInv'
  BY <1>1, <1>4, <1>5, <1>7 DEF StageInv, HalvesInv, GrowInv, Whole, Ids
<1>9. Ids(pool') = Ids(pool)
  BY <1>4 DEF Ids
<1>10. PoolInv'
  BY <1>1, <1>2, <1>4, <1>9 DEF PoolInv, Backed, Intact
<1>11. JsonInv'
  BY <1>1 DEF JsonInv, Whole
<1>. QED BY <1>6, <1>8, <1>10, <1>11

(* All stages are over.                                                    *)
LEMMA CloseInductive == IInv /\ Close => IInv'
<1>. SUFFICES ASSUME IInv, Close PROVE IInv'
  OBVIOUS
<1>. USE DEF IInv
<1>1. /\ pc = "stage" /\ stages = <<>>
      /\ stages' = stages /\ left' = left /\ world' = world /\ cut' = cut
      /\ files' = files /\ halves' = halves /\ demos' = demos /\ torn' = torn
      /\ json' = json
  BY DEF Close, disk
<1>2. \/ pc' = "off" /\ pool' = Empty
      \/ pc' = "save" /\ pool' = pool
  BY DEF Close
<1>3. TypeOK'
  BY <1>1, <1>2, EmptyPool DEF TypeOK, Labels, Saves
<1>4. StageInv' /\ HalvesInv' /\ GrowInv'
  BY <1>1, <1>2 DEF StageInv, HalvesInv, GrowInv, Upgrading, Whole
<1>5. PoolInv' /\ JsonInv'
  BY <1>1, <1>2, EmptyPool DEF PoolInv, JsonInv, Whole
<1>. QED BY <1>3, <1>4, <1>5

(* What is saved is what the pool in memory names, all of it there.        *)
LEMMA SaveInductive == IInv /\ Save => IInv'
<1>. SUFFICES ASSUME IInv, Save PROVE IInv'
  OBVIOUS
<1>. USE DEF IInv
<1>. DEFINE p == IF pool.id = NoId THEN Sealed(pool) ELSE pool
<1>1. /\ pc \in Saves /\ left' = left /\ world' = world /\ cut' = cut
      /\ files' = files /\ halves' = halves /\ demos' = demos /\ torn' = torn
      /\ json' = p
  BY DEF Save
<1>2. /\ p \in Pools /\ p.tasks = pool.tasks /\ p.variants = pool.variants
      /\ p.eligible = pool.eligible /\ p.sources = pool.sources
  BY SealedType DEF TypeOK
<1>3. Backed(p, files, demos, torn, cut) /\ Intact(p, halves, cut)
  <2>1. Backed(pool, files, demos, torn, cut) /\ Intact(pool, halves, cut)
    BY <1>1 DEF PoolInv, Saves
  <2>. HIDE DEF p
  <2>. QED BY <1>2, <2>1, SameNames
<1>4. JsonInv'
  BY <1>1, <1>3 DEF JsonInv
<1>5. HalvesInv'
  BY <1>1 DEF HalvesInv
<1>6. CASE pc = "save"
  <2>1. pc' = "off" /\ pool' = Empty /\ stages' = stages
    BY <1>6 DEF Save
  <2>2. TypeOK'
    BY <1>1, <1>2, <2>1, EmptyPool DEF TypeOK, Labels
  <2>3. pool'.eligible = {} /\ pool'.variants = {} /\ pool'.tasks = {}
    BY <2>1 DEF Empty
  <2>4. StageInv' /\ GrowInv'
    BY <2>1, <2>3 DEF StageInv, GrowInv, Upgrading, Stage
  <2>5. PoolInv'
    BY <2>1, EmptyPool DEF PoolInv
  <2>. QED BY <1>4, <1>5, <2>2, <2>4, <2>5
<1>7. CASE pc # "save"
  <2>1. /\ pc' \in {"stage", "save stage", "tasks", "variants"}
        /\ pc' = "variants" <=> pc = "save variants"
        /\ IF pc = "save stage" THEN pc' = "stage" /\ stages' = Tail(stages)
           ELSE pc' # "stage" /\ stages' = stages
    BY <1>1, <1>7 DEF Save, Saves
  <2>2. pool' = p \/ pool' = [p EXCEPT !.sources = @ \cup Source("draw")]
    BY <1>1, <1>7 DEF Save, Saves
  <2>3. /\ pool' \in Pools /\ pool'.tasks = p.tasks /\ pool'.variants = p.variants
        /\ pool'.eligible = p.eligible /\ p.sources \subseteq pool'.sources
    <3>1. Source("draw") \subseteq Origins
      BY DEF Source, Origins
    <3>. HIDE DEF p
    <3>. QED BY <1>2, <2>2, <3>1 DEF Pools
  <2>4. stages # <<>> /\ (pc # "save stage" => ~Upgrading)
    BY <1>1, <1>7 DEF StageInv, Saves
  <2>5. /\ Tail(stages) \in Seq(StageNames)
        /\ \A i \in 2..Len(Tail(stages)) : Tail(stages)[i] # "upgrade"
        /\ Tail(stages) = <<>> \/ Head(Tail(stages)) # "upgrade"
    BY <2>4, StageOver DEF TypeOK, StageInv
  <2>6. TypeOK'
    BY <1>1, <1>2, <2>1, <2>3, <2>5 DEF TypeOK, Labels, Saves
  <2>7. ~Upgrading'
    BY <2>1, <2>4, <2>5 DEF Upgrading, Stage
  <2>8. StageInv'
    <3>1. Ids(pool') = Ids(pool)
      BY <1>2, <2>3 DEF Ids
    <3>2. \A i \in 2..Len(stages') : stages'[i] # "upgrade"
      BY <2>1, <2>5 DEF StageInv
    <3>. QED BY <1>1, <2>1, <2>4, <2>7, <3>1, <3>2 DEF StageInv
  <2>9. GrowInv'
    BY <1>1, <2>3 DEF GrowInv, Ids
  <2>10. PoolInv'
    <3>. HIDE DEF p
    <3>. QED BY <1>1, <1>3, <2>3, SameNames DEF PoolInv
  <2>. QED BY <1>4, <1>5, <2>6, <2>8, <2>9, <2>10
<1>. QED BY <1>6, <1>7

(* The new variants of a task have its files, or files written before.     *)
LEMMA AddVariantsInductive == IInv /\ AddVariants => IInv'
<1>. SUFFICES ASSUME IInv, AddVariants PROVE IInv'
  OBVIOUS
<1>. USE DEF IInv
<1>. DEFINE scenes == IF Stage = "spatial" THEN ScenesSpatial ELSE ScenesEnvironment
            tried == New(Task, {Task} \X scenes)
            found == tried \cap (SpatialOf(Task) \cup EnvironmentOf(Task))
            new == UNION {Written(v) : v \in tried}
<1>1. /\ pc = "variants" /\ left # {} /\ left' = left \ {Task}
      /\ pc' = "save variants" /\ stages' = stages /\ world' = world
      /\ cut' = cut /\ demos' = demos /\ torn' = torn /\ json' = json
      /\ pool' = [pool EXCEPT !.variants = @ \cup found]
      /\ files' = files \cup new /\ halves' = halves \ new
  BY DEF AddVariants
<1>2. /\ stages # <<>> /\ ~Upgrading
      /\ Task \in Bases /\ Task \in Ids(pool) /\ left \subseteq Bases \cap Ids(pool)
  <2>1. Task \in left
    BY <1>1, TaskIsLeft DEF TypeOK
  <2>. QED BY <1>1, <2>1 DEF StageInv
<1>3. /\ tried \subseteq Variants
      /\ \A v \in tried : v[1] = Task /\ v \notin pool.variants
  BY <1>2 DEF New, Variants, ScenesSpatial, ScenesEnvironment
<1>4. /\ pool' \in Pools /\ pool'.tasks = pool.tasks
      /\ pool'.variants = pool.variants \cup found
      /\ pool'.eligible = pool.eligible /\ pool'.sources = pool.sources
  <2>1. found \subseteq Variants
    BY <1>3
  <2>. HIDE DEF found
  <2>. QED BY <1>1, <2>1 DEF TypeOK, Pools
<1>5. Ids(pool') = Ids(pool)
  BY <1>4 DEF Ids
<1>6. ASSUME NEW v \in found
      PROVE  VariantFiles(v) \subseteq new \cup FilesOf(Task)
  <2>1. v \in tried /\ v[1] = Task /\ (v \in SpatialOf(Task) \/ v \in EnvironmentOf(Task))
    BY <1>3
  <2>2. CASE v[2] \in {"pro_swap", "table"}
    <3>1. VariantFiles(v) = FilesOf(v)
      BY <2>2 DEF VariantFiles
    <3>2. Written(v) = FilesOf(v)
      BY <2>1, <2>2 DEF Written, SpatialOf, EnvironmentOf, ScenesSpatial,
         ScenesEnvironment
    <3>. QED BY <2>1, <3>1, <3>2
  <2>3. CASE v[2] \notin {"pro_swap", "table"}
    BY <2>1, <2>3 DEF VariantFiles
  <2>. QED BY <2>2, <2>3
<1>7. ASSUME NEW p \in Pools, Backed(p, files, demos, torn, cut), Intact(p, halves, cut)
      PROVE  Backed(p, files', demos, torn, cut) /\ Intact(p, halves', cut)
  <2>1. /\ demos \in [Tasks -> Nat] /\ files \subseteq files'
        /\ \A t \in Tasks : demos[t] <= demos[t]
    <3>1. files \subseteq files'
      BY <1>1
    <3>2. demos \in [Tasks -> Nat]
      BY NumbersAssumption DEF TypeOK
    <3>. QED BY <3>1, <3>2
  <2>2. Backed(p, files', demos, torn, cut)
    <3>1. Ids(p) \subseteq Tasks
      BY Owners
    <3>. QED BY <1>7, <2>1, <3>1, BackedGrows
  <2>3. Intact(p, halves', cut)
    BY <1>1, <1>7, IntactStays
  <2>. QED BY <2>2, <2>3
<1>8. Backed(pool, files', demos, torn, cut) /\ Intact(pool, halves', cut)
  BY <1>1, <1>7 DEF TypeOK, PoolInv
<1>9. FilesOf(Task) \subseteq files'
  BY <1>2, <1>8, TasksAssumption DEF Backed
<1>10. PoolInv'
  <2>. HIDE DEF found, new
  <2>1. Backed(pool', files', demos, torn, cut)
    <3>1. \A v \in found : VariantFiles(v) \subseteq files' /\ v[1] \in Ids(pool)
      <4>1. \A v \in found : v[1] \in Ids(pool)
        BY <1>2, <1>3 DEF found
      <4>. QED BY <1>1, <1>6, <1>9, <4>1
    <3>. QED BY <1>4, <1>5, <1>8, <3>1 DEF Backed
  <2>2. Intact(pool', halves', cut)
    <3>1. CASE "file" \in cut /\ "upgraded_from" \in pool.sources
      BY <1>4, <3>1 DEF Intact
    <3>2. CASE ~("file" \in cut /\ "upgraded_from" \in pool.sources)
      <4>1. /\ \A t \in Ids(pool) \ Drawings : FilesOf(t) \cap halves' = {}
            /\ \A v \in pool.variants : VariantFiles(v) \cap halves' = {}
        BY <1>8, <3>2 DEF Intact
      <4>2. FilesOf(Task) \cap halves' = {}
        BY <1>2, <4>1, TasksAssumption
      <4>3. \A v \in found : VariantFiles(v) \cap halves' = {}
        BY <1>1, <1>6, <4>2
      <4>. QED BY <1>4, <1>5, <4>1, <4>3 DEF Intact
    <3>. QED BY <3>1, <3>2
  <2>. QED BY <1>1, <2>1, <2>2 DEF PoolInv
<1>11. JsonInv'
  BY <1>1, <1>7 DEF TypeOK, JsonInv, Whole
<1>12. TypeOK'
  BY <1>1, <1>4 DEF TypeOK, Labels, Saves
<1>13. ~Upgrading'
  BY <1>1, <1>2 DEF Upgrading, Stage
<1>14. StageInv' /\ HalvesInv' /\ GrowInv'
  <2>. HIDE DEF found, new
  <2>1. StageInv'
    BY <1>1, <1>2, <1>5, <1>13 DEF StageInv
  <2>2. HalvesInv' /\ GrowInv'
    BY <1>1, <1>2, <1>4, <1>5 DEF HalvesInv, GrowInv, Whole
  <2>. QED BY <2>1, <2>2
<1>. QED BY <1>10, <1>11, <1>12, <1>14

(* An old pool's task is copied with all its demonstrations; those that    *)
(* are there are left alone, be they half written.                         *)
LEMMA CopyTaskInductive == IInv /\ CopyTask => IInv'
<1>. SUFFICES ASSUME IInv, CopyTask PROVE IInv'
  OBVIOUS
<1>. USE DEF IInv
<1>1. /\ pc = "copy" /\ left # {} /\ left' = left \ {Task}
      /\ pc' = pc /\ stages' = stages /\ world' = world
      /\ cut' = cut /\ halves' = halves /\ torn' = torn /\ json' = json
  BY DEF CopyTask
<1>2. /\ Upgrading /\ stages # <<>> /\ Task \in left /\ Task \in Tasks
      /\ Task \notin Drawings
  <2>1. Task \in left
    BY <1>1, TaskIsLeft DEF TypeOK
  <2>. QED BY <1>1, <2>1, TasksAssumption DEF TypeOK, StageInv, Upgrading, OldTasks
<1>3. Upgrading' /\ OldTasks' = OldTasks
  BY <1>1, <1>2 DEF Upgrading, Stage, OldTasks, Builds
<1>4. CASE ~Have(Task)
  <2>1. pool' = pool /\ files' = files /\ demos' = demos
    BY <1>4 DEF CopyTask
  <2>2. TypeOK'
    BY <1>1, <2>1 DEF TypeOK
  <2>3. StageInv' /\ HalvesInv' /\ GrowInv'
    BY <1>1, <1>3, <2>1 DEF StageInv, HalvesInv, GrowInv
  <2>4. PoolInv' /\ JsonInv'
    BY <1>1, <2>1 DEF PoolInv, JsonInv, Whole
  <2>. QED BY <2>2, <2>3, <2>4
<1>5. CASE Have(Task)
  <2>1. /\ pool' = [pool EXCEPT !.tasks = @ \cup {<<Task, Demos>>}]
        /\ files' = files \cup FilesOf(Task)
        /\ demos' = [demos EXCEPT ![Task] =
                        IF Task \in torn /\ @ < Demos THEN Demos - 1 ELSE Demos]
    BY <1>5 DEF CopyTask
  <2>2. /\ pool' \in Pools /\ pool'.tasks = pool.tasks \cup {<<Task, Demos>>}
        /\ pool'.variants = pool.variants /\ pool'.eligible = pool.eligible
        /\ pool'.sources = pool.sources
    <3>1. <<Task, Demos>> \in Tasks \X Nat
      BY <1>2, NumbersAssumption
    <3>. QED BY <2>1, <3>1 DEF TypeOK, Pools
  <2>3. Ids(pool') = Ids(pool) \cup {Task}
    <3>. DEFINE entry == <<Task, Demos>>
    <3>1. entry[1] = Task /\ pool'.tasks = pool.tasks \cup {entry}
      BY <2>2
    <3>. HIDE DEF entry
    <3>. QED BY <3>1 DEF Ids
  <2>4. /\ demos' \in [Tasks -> 0..Demos]
        /\ demos \in [Tasks -> Nat] /\ demos' \in [Tasks -> Nat]
    BY <1>2, <2>1, NumbersAssumption DEF TypeOK
  <2>5. \A t \in Tasks : demos[t] <= demos'[t]
    BY <1>2, <2>1, NumbersAssumption DEF TypeOK
  <2>6. ASSUME NEW p \in Pools, Backed(p, files, demos, torn, cut)
        PROVE  Backed(p, files', demos', torn, cut)
    <3>1. Ids(p) \subseteq Tasks /\ files \subseteq files'
      BY <2>1, Owners
    <3>. QED BY <2>4, <2>5, <2>6, <3>1, BackedGrows
  <2>7. Backed(pool, files', demos', torn, cut)
    BY <2>6 DEF TypeOK, PoolInv
  <2>8. /\ Demos > 0
        /\ Demos <= demos'[Task] + (IF Task \in torn THEN 1 ELSE 0)
        /\ "demos" \in cut \/ Demos <= demos'[Task]
    BY <1>2, <2>1, NumbersAssumption DEF TypeOK, HalvesInv
  <2>9. Backed(pool', files', demos', torn, cut)
    <3>1. FilesOf(Task) \subseteq files'
      BY <2>1
    <3>. QED BY <2>2, <2>3, <2>7, <2>8, <3>1 DEF Backed
  <2>10. PoolInv'
    BY <1>1, <2>9 DEF PoolInv
  <2>11. JsonInv'
    BY <1>1, <2>6 DEF TypeOK, JsonInv, Whole
  <2>12. TypeOK'
    BY <1>1, <2>2, <2>4 DEF TypeOK
  <2>13. StageInv' /\ HalvesInv' /\ GrowInv'
    BY <1>1, <1>3, <2>2 DEF StageInv, HalvesInv, GrowInv
  <2>. QED BY <2>10, <2>11, <2>12, <2>13
<1>. QED BY <1>4, <1>5

(* An old pool's variants are copied with their files.                     *)
LEMMA CopyVariantsInductive == IInv /\ CopyVariants => IInv'
<1>. SUFFICES ASSUME IInv, CopyVariants PROVE IInv'
  OBVIOUS
<1>. USE DEF IInv
<1>1. /\ pc = "copy" /\ left' = left /\ pc' = "save stage" /\ stages' = stages
      /\ world' = world /\ cut' = cut /\ halves' = halves /\ torn' = torn
      /\ json' = json /\ demos' = demos
      /\ pool' = [pool EXCEPT !.variants = OldVariants,
                              !.sources = {"libero", "upgraded_from"}]
      /\ files' = files \cup UNION {VariantFiles(v) : v \in OldVariants}
  BY DEF CopyVariants
<1>2. Upgrading /\ stages # <<>> /\ pool.variants = {} /\ pool.eligible = {}
  BY <1>1 DEF StageInv, Upgrading
<1>3. OldVariants \subseteq Variants /\ \A v \in OldVariants : v[1] \in Ids(pool)
  BY DEF OldVariants, SpatialOf, EnvironmentOf, Variants
<1>4. /\ pool' \in Pools /\ pool'.tasks = pool.tasks /\ pool'.variants = OldVariants
      /\ pool'.eligible = pool.eligible
      /\ pool'.sources = {"libero", "upgraded_from"}
  BY <1>1, <1>3 DEF TypeOK, Pools, Origins
<1>5. Ids(pool') = Ids(pool)
  BY <1>4 DEF Ids
<1>6. ASSUME NEW p \in Pools, Backed(p, files, demos, torn, cut)
      PROVE  Backed(p, files', demos, torn, cut)
  <2>1. /\ demos \in [Tasks -> Nat] /\ files \subseteq files'
        /\ \A t \in Tasks : demos[t] <= demos[t]
    <3>1. files \subseteq files'
      BY <1>1
    <3>2. demos \in [Tasks -> Nat]
      BY NumbersAssumption DEF TypeOK
    <3>. QED BY <3>1, <3>2
  <2>2. Ids(p) \subseteq Tasks
    BY Owners
  <2>. QED BY <1>6, <2>1, <2>2, BackedGrows
<1>7. Backed(pool', files', demos, torn, cut)
  <2>1. Backed(pool, files', demos, torn, cut)
    BY <1>6 DEF TypeOK, PoolInv
  <2>2. \A v \in OldVariants : VariantFiles(v) \subseteq files'
    BY <1>1
  <2>. QED BY <1>2, <1>3, <1>4, <1>5, <2>1, <2>2 DEF Backed
<1>8. Intact(pool', halves, cut)
  BY <1>4 DEF Intact, HalvesInv
<1>9. PoolInv'
  BY <1>1, <1>7, <1>8 DEF PoolInv
<1>10. JsonInv'
  BY <1>1, <1>6 DEF TypeOK, JsonInv, Whole
<1>11. TypeOK'
  BY <1>1, <1>4 DEF TypeOK, Labels, Saves
<1>12. StageInv' /\ HalvesInv' /\ GrowInv'
  <2>1. Upgrading'
    BY <1>1, <1>2 DEF Upgrading, Stage
  <2>2. StageInv'
    BY <1>1, <1>2, <1>4, <2>1 DEF StageInv, Saves
  <2>. QED BY <1>1, <2>1, <2>2 DEF HalvesInv, GrowInv
<1>. QED BY <1>9, <1>10, <1>11, <1>12

(* What is being written when a build dies is nothing that pool.json names *)
(* and that is there.                                                      *)
LEMMA WritingNew ==
    ASSUME IInv, Whole, NEW f \in Writing
    PROVE  f \notin files \/ f[2] \notin Ids(json) \cup json.variants
<1>. USE DEF IInv
<1>1. json \in Pools /\ json.variants \subseteq Variants /\ Ids(json) \subseteq Tasks
  BY Owners DEF TypeOK, Whole, Pools
<1>2. CASE pc = "tasks"
  <2>1. /\ left # {} /\ Task \notin Ids(pool) /\ f \in FilesOf(Task)
    BY <1>2 DEF Writing
  <2>2. Task \in Tasks /\ Task \notin Ids(json)
    BY <1>2, <2>1, Importing
  <2>3. f[2] = Task
    BY <2>1 DEF FilesOf
  <2>. QED BY <1>1, <2>2, <2>3, TasksAssumption
<1>3. CASE pc = "copy"
  <2>. DEFINE old == UNION {VariantFiles(v) : v \in OldVariants}
  <2>1. f \in FilesOf(Task) \ files \/ f \in old \ files
    BY <1>3 DEF Writing
  <2>. HIDE DEF old
  <2>. QED BY <2>1
<1>4. CASE pc = "variants"
  <2>. DEFINE all == {v \in Variants : v[1] = Task /\ (v[2] \in ScenesSpatial
                                                        <=> Stage = "spatial")}
  <2>1. left # {} /\ f \in UNION {Written(v) : v \in New(Task, all)}
    BY <1>4 DEF Writing
  <2>2. PICK v \in all \ pool.variants : f \in Written(v)
    BY <2>1 DEF New
  <2>3. v \in Variants /\ f[2] = v
    BY <2>2 DEF Written, FilesOf
  <2>4. json.variants \subseteq pool.variants
    BY <1>4 DEF GrowInv, StageInv
  <2>. QED BY <1>1, <2>2, <2>3, <2>4, TasksAssumption
<1>5. CASE pc \notin {"tasks", "copy", "variants"}
  BY <1>5 DEF Writing
<1>. QED BY <1>2, <1>3, <1>4, <1>5

(* Where a build dies, pool.json is as it was, or torn.                    *)
LEMMA CrashInductive == IInv /\ Crash => IInv'
<1>. SUFFICES ASSUME IInv, Crash PROVE IInv'
  OBVIOUS
<1>. USE DEF IInv
<1>1. /\ pc' = "off" /\ pool' = Empty /\ stages' = <<>> /\ left' = {}
      /\ world' = world /\ (json' = json \/ json' = Torn)
  BY DEF Crash
<1>2. Empty \in Pools /\ pool' \in Pools /\ json' \in Pools \cup {NoPool, Torn}
  BY <1>1, EmptyPool DEF TypeOK
<1>3. /\ pool'.tasks = {} /\ pool'.variants = {} /\ pool'.eligible = {}
  BY <1>1 DEF Empty
<1>4. StageInv' /\ GrowInv'
  <2>1. ~Upgrading' /\ GrowInv'
    BY <1>1 DEF GrowInv, Upgrading
  <2>2. \A i \in 2..Len(stages') : FALSE
    BY <1>1
  <2>. QED BY <1>1, <2>1, <2>2 DEF StageInv
<1>5. PoolInv'
  BY <1>1, EmptyPool DEF PoolInv
<1>6. demos \in [Tasks -> 0..Demos] /\ demos \in [Tasks -> Nat]
  BY NumbersAssumption DEF TypeOK
<1>7. ASSUME demos' \in [Tasks -> 0..Demos], torn' \subseteq Tasks
      PROVE  TypeOK'
  BY <1>1, <1>2, <1>7 DEF TypeOK, Labels
<1>8. ASSUME files \subseteq files', cut \subseteq cut', torn \subseteq torn',
             demos' \in [Tasks -> 0..Demos],
             \A t \in Tasks : demos[t] <= demos'[t],
             Whole => \A f \in halves' \ halves :
                         f \notin files \/ f[2] \notin Ids(json) \cup json.variants
      PROVE  JsonInv'
  <2>1. CASE Whole /\ json' = json
    <3>1. json \in Pools /\ Ids(json) \subseteq Tasks
      BY <2>1, Owners DEF TypeOK, Whole
    <3>2. demos' \in [Tasks -> Nat]
      BY <1>8, NumbersAssumption
    <3>3. /\ Backed(json, files, demos, torn, cut) /\ Intact(json, halves, cut)
      BY <2>1 DEF JsonInv
    <3>4. Backed(json, files', demos', torn', cut')
      BY <1>6, <1>8, <3>1, <3>2, <3>3, BackedGrows
    <3>5. Intact(json, halves', cut')
      BY <1>8, <2>1, <3>1, <3>3, IntactStays
    <3>. QED BY <2>1, <3>4, <3>5 DEF JsonInv
  <2>2. CASE ~(Whole /\ json' = json)
    BY <1>1, <2>2 DEF JsonInv, Whole
  <2>. QED BY <2>1, <2>2
<1>9. CASE UNCHANGED <<files, halves, demos, torn, cut>>
  <2>1. TypeOK' /\ HalvesInv'
    BY <1>6, <1>7, <1>9 DEF TypeOK, HalvesInv
  <2>2. JsonInv'
    BY <1>6, <1>8, <1>9
  <2>. QED BY <1>4, <1>5, <2>1, <2>2
<1>10. ASSUME WritingDemos,
              NEW n \in demos[Task]..(IF pc = "copy" THEN Demos - 1 ELSE demos[Task]),
              demos' = [demos EXCEPT ![Task] = n],
              torn' \in {torn, torn \cup {Task}},
              cut' = cut \cup (IF Task \in Drawings THEN {} ELSE {"demos"}),
              files' = IF pc = "copy" THEN files \cup FilesOf(Task) ELSE files,
              halves' = halves
       PROVE  IInv'
  <2>1. Task \in Tasks /\ demos[Task] < Demos
    BY <1>10, TaskIsLeft DEF WritingDemos, TypeOK, StageInv
  <2>2. n \in 0..Demos /\ demos[Task] <= n
    BY <1>6, <1>10, <2>1, NumbersAssumption
  <2>3. /\ demos' \in [Tasks -> 0..Demos]
        /\ \A t \in Tasks : demos[t] <= demos'[t]
    BY <1>6, <1>10, <2>1, <2>2, NumbersAssumption
  <2>4. TypeOK'
    BY <1>7, <1>10, <2>1, <2>3 DEF TypeOK
  <2>5. HalvesInv'
    BY <1>10 DEF HalvesInv
  <2>6. JsonInv'
    BY <1>8, <1>10, <2>3
  <2>. QED BY <1>4, <1>5, <2>4, <2>5, <2>6
<1>11. ASSUME NEW f \in Writing, files' = files \cup {f}, halves' = halves \cup {f},
              cut' = cut \cup {"file"}, demos' = demos, torn' = torn
       PROVE  IInv'
  <2>1. TypeOK' /\ HalvesInv'
    BY <1>6, <1>7, <1>11 DEF TypeOK, HalvesInv
  <2>2. JsonInv'
    <3>1. \A t \in Tasks : demos[t] <= demos'[t]
      BY <1>6, <1>11
    <3>2. Whole => f \notin files \/ f[2] \notin Ids(json) \cup json.variants
      BY WritingNew
    <3>3. /\ files \subseteq files' /\ cut \subseteq cut' /\ torn \subseteq torn'
          /\ \A g \in halves' \ halves : g = f
      BY <1>11
    <3>. QED BY <1>6, <1>8, <1>11, <3>1, <3>2, <3>3
  <2>. QED BY <1>4, <1>5, <2>1, <2>2
<1>. QED BY <1>9, <1>10, <1>11 DEF Crash
-----------------------------------------------------------------------------
(* At first there is nothing.                                              *)
LEMMA InitInv == Init => IInv
<1>. SUFFICES ASSUME Init PROVE IInv
  OBVIOUS
<1>1. /\ world \in Worlds /\ files = {} /\ halves = {}
      /\ demos = [t \in Tasks |-> 0] /\ torn = {} /\ json = NoPool
      /\ pool = Empty /\ stages = <<>> /\ left = {} /\ pc = "off" /\ cut = {}
  BY DEF Init
<1>2. TypeOK
  BY <1>1, EmptyPool, NumbersAssumption DEF TypeOK, Labels
<1>3. StageInv /\ HalvesInv /\ GrowInv
  BY <1>1 DEF StageInv, HalvesInv, GrowInv, Upgrading, Stage, Empty
<1>4. PoolInv /\ JsonInv
  BY <1>1, EmptyPool DEF PoolInv, JsonInv, Whole
<1>. QED BY <1>2, <1>3, <1>4 DEF IInv

(* No step names what is not there.                                        *)
LEMMA Inductive == IInv /\ [Next]_vars => IInv'
<1>. SUFFICES ASSUME IInv, [Next]_vars PROVE IInv'
  OBVIOUS
<1>1. CASE UNCHANGED vars
  <2>1. /\ world' = world /\ files' = files /\ halves' = halves /\ demos' = demos
        /\ torn' = torn /\ json' = json /\ pool' = pool /\ stages' = stages
        /\ left' = left /\ pc' = pc /\ cut' = cut
    BY <1>1 DEF vars, disk
  <2>2. TypeOK' /\ HalvesInv' /\ GrowInv'
    BY <2>1 DEF IInv, TypeOK, HalvesInv, GrowInv, Whole, Upgrading, Stage, Ids
  <2>3. StageInv'
    <3>1. /\ Upgrading' <=> Upgrading
          /\ OldTasks' = OldTasks /\ Task' = Task
      BY <2>1 DEF Upgrading, Stage, OldTasks, Builds, Task
    <3>. QED BY <2>1, <3>1 DEF IInv, StageInv
  <2>4. PoolInv' /\ JsonInv'
    BY <2>1 DEF IInv, PoolInv, JsonInv, Whole
  <2>. QED BY <2>2, <2>3, <2>4 DEF IInv
<1>2. CASE Next
  BY <1>2, OpenInductive, DiscardInductive, BeginStageInductive, SkipTaskInductive,
     ImportTaskInductive, WriteDemoInductive, DemosWrittenInductive,
     TasksDoneInductive, AddVariantsInductive, VariantsDoneInductive,
     CopyTaskInductive, CopyVariantsInductive, FinalizeInductive, CloseInductive,
     SaveInductive, CrashInductive DEF Next
<1>. QED BY <1>1, <1>2

(* What pool.json names is there, and whole.                               *)
LEMMA FilesFirstFollows == IInv => FilesFirst
<1>. SUFFICES ASSUME IInv, Whole
     PROVE  /\ Missing = {} /\ FewDemos = {} /\ Unknown = {} /\ Baseless = {}
            /\ Named \cap halves # {} =>
                  "file" \in cut /\ "upgraded_from" \in json.sources
            /\ "demos" \notin cut => \A t \in json.tasks : t[2] <= demos[t[1]]
  BY DEF FilesFirst
<1>1. /\ json.tasks \subseteq Tasks \X Nat /\ demos \in [Tasks -> Nat]
      /\ Backed(json, files, demos, torn, cut) /\ Intact(json, halves, cut)
  BY NumbersAssumption DEF IInv, TypeOK, Whole, Pools, JsonInv
<1>2. Missing = {}
  <2>1. \A t \in Ids(json) \ Drawings : FilesOf(t) \subseteq files
    BY <1>1 DEF Backed
  <2>2. \A v \in json.variants : VariantFiles(v) \subseteq files
    BY <1>1 DEF Backed
  <2>3. ASSUME NEW f \in Named PROVE f \in files
    <3>1. CASE \E t \in Ids(json) \ Drawings : f \in FilesOf(t)
      BY <2>1, <3>1
    <3>2. CASE \E v \in json.variants : f \in VariantFiles(v)
      BY <2>2, <3>2
    <3>. QED BY <3>1, <3>2 DEF Named
  <2>. QED BY <2>3 DEF Missing
<1>3. FewDemos = {}
  <2>1. \A t \in json.tasks : t[2] <= Listed(t[1])
    BY <1>1 DEF Backed, Listed
  <2>2. \A t \in json.tasks : ~(t[2] > Listed(t[1]))
    <3>1. \A t \in json.tasks : t[2] \in Nat /\ Listed(t[1]) \in Nat
      BY <1>1 DEF Listed
    <3>. QED BY <2>1, <3>1
  <2>. QED BY <2>2 DEF FewDemos
<1>4. Unknown = {} /\ Baseless = {}
  BY <1>1 DEF Unknown, Baseless, Backed
<1>5. Named \cap halves # {} => "file" \in cut /\ "upgraded_from" \in json.sources
  <2>. SUFFICES ASSUME ~("file" \in cut /\ "upgraded_from" \in json.sources)
               PROVE  Named \cap halves = {}
    OBVIOUS
  <2>1. \A t \in Ids(json) \ Drawings : FilesOf(t) \cap halves = {}
    BY <1>1 DEF Intact
  <2>2. \A v \in json.variants : VariantFiles(v) \cap halves = {}
    BY <1>1 DEF Intact
  <2>3. ASSUME NEW f \in Named PROVE f \notin halves
    <3>1. CASE \E t \in Ids(json) \ Drawings : f \in FilesOf(t)
      BY <2>1, <3>1
    <3>2. CASE \E v \in json.variants : f \in VariantFiles(v)
      BY <2>2, <3>2
    <3>. QED BY <3>1, <3>2 DEF Named
  <2>. QED BY <2>3
<1>6. "demos" \notin cut => \A t \in json.tasks : t[2] <= demos[t[1]]
  BY <1>1 DEF Backed
<1>. QED BY <1>2, <1>3, <1>4, <1>5, <1>6

(* Whatever the sources are, whatever stages are run and wherever builds   *)
(* die, pool.json names no file, demonstration or task that is not there   *)
(* (pools/build.py, pools/upgrade.py).                                     *)
THEOREM FilesFirstHolds == Spec => []FilesFirst
<1>1. Spec => []IInv
  BY InitInv, Inductive, PTL DEF Spec
<1>2. IInv => FilesFirst
  BY FilesFirstFollows
<1>. QED BY <1>1, <1>2, PTL
-----------------------------------------------------------------------------
(* A document that finalize() has judged and sealed, with nothing added.   *)
Served(p) == p.id = Content(p) /\ p.eligible = Eligible(p)
Ends == ended # <<>> /\ Last(ended) = "finalize"

(* From the stage "finalize", when it is the last one, to the end of the   *)
(* build nothing is added, and what is saved is what was sealed.           *)
SealInv ==
    /\ stages # <<>> => ended # <<>> /\ Last(stages) = Last(ended)
    /\ pc \in {"off", "save"} => stages = <<>>
    /\ pc = "finalize" => stages # <<>> /\ Stage = "finalize"
    /\ pc \notin {"off", "stage", "save", "save stage", "finalize"} =>
          stages # <<>> /\ Stage # "finalize"
    /\ pc = "save stage" /\ Stage = "finalize" => Served(pool)
    /\ Ends /\ stages = <<>> /\ pc \in {"stage", "save"} =>
          Served(pool) /\ json = pool
    /\ Ends /\ pc = "off" => Served(json) /\ json \in Pools

(* The stages left end as the build does.                                  *)
LEMMA SameEnd ==
    ASSUME stages \in Seq(StageNames), stages # <<>>
    PROVE  /\ Tail(stages) # <<>> => Last(Tail(stages)) = Last(stages)
           /\ Tail(stages) = <<>> => Last(stages) = Stage
<1>1. /\ Len(stages) \in Nat /\ Len(stages) >= 1
      /\ Tail(stages) \in Seq(StageNames) /\ Len(Tail(stages)) = Len(stages) - 1
      /\ \A i \in 1..(Len(stages) - 1) : Tail(stages)[i] = stages[i + 1]
  OBVIOUS
<1>2. ASSUME Tail(stages) # <<>> PROVE Last(Tail(stages)) = Last(stages)
  <2>1. Len(stages) - 1 >= 1
    BY <1>1, <1>2
  <2>2. Tail(stages)[Len(stages) - 1] = stages[Len(stages)]
    BY <1>1, <2>1
  <2>. QED BY <1>1, <2>2 DEF Last
<1>3. ASSUME Tail(stages) = <<>> PROVE Last(stages) = Stage
  <2>1. Len(Tail(stages)) = 0
    BY <1>3, EmptySeq
  <2>2. Len(stages) - 1 = 0
    BY <1>1, <2>1, Zenon
  <2>3. Len(stages) \in Nat
    OBVIOUS
  <2>4. Len(stages) = 1
    BY <2>2, <2>3
  <2>. QED BY <2>4 DEF Last, Stage
<1>. QED BY <1>2, <1>3

(* What is eligible depends on what the pool names alone.                  *)
LEMMA EligibleSame ==
    ASSUME NEW p, NEW q, p.tasks = q.tasks, p.variants = q.variants
    PROVE  Eligible(p) = Eligible(q)
BY DEF Eligible

(* As long as its sources stay, a document that was served is.             *)
LEMMA ServedStays ==
    world' = world => \A p : Served(p) => Served(p)'
BY DEF Served, Eligible, Unchecked, Builds

(* The pool in memory, or pool.json, is one.                               *)
LEMMA ServedNext ==
    ASSUME world' = world
    PROVE  /\ Served(pool') => Served(pool)'
           /\ Served(json') => Served(json)'
<1>1. Eligible(pool)' = Eligible(pool')
  BY Zenon DEF Eligible, Unchecked, Builds
<1>2. Eligible(json)' = Eligible(json')
  BY Zenon DEF Eligible, Unchecked, Builds
<1>. QED BY <1>1, <1>2 DEF Served, Content

(* Steps after which some stage is still to be run, or one that does not   *)
(* finalize is over.                                                       *)
LEMMA SealQuiet ==
    ASSUME TypeOK, StageInv, SealInv,
           BeginStage \/ SkipTask \/ ImportTask \/ WriteDemo \/ DemosWritten
           \/ TasksDone \/ AddVariants \/ VariantsDone \/ CopyTask \/ CopyVariants
    PROVE  SealInv'
<1>1. ended' = ended /\ pc # "off" /\ pc' # "off" /\ pc' # "save" /\ stages # <<>>
  BY DEF BeginStage, SkipTask, ImportTask, WriteDemo, DemosWritten, TasksDone,
     AddVariants, VariantsDone, CopyTask, CopyVariants, StageInv, AfterTask
<1>2. CASE BeginStage
  <2>1. /\ stages' = stages
        /\ pc' = "finalize" <=> Stage = "finalize"
        /\ pc' \in {"finalize", "variants", "copy", "tasks"}
    BY <1>2 DEF BeginStage
  <2>. QED BY <1>1, <2>1 DEF SealInv, Stage, Ends
<1>3. ASSUME ~BeginStage
      PROVE  /\ pc \in {"tasks", "demos", "variants", "copy"}
             /\ Stage # "finalize"
             /\ \/ stages' = stages /\ pc' # "stage" /\ pc' # "finalize"
                \/ stages' = Tail(stages) /\ pc' = "stage"
  <2>1. pc \in {"tasks", "demos", "variants", "copy"}
    BY <1>3 DEF SkipTask, ImportTask, WriteDemo, DemosWritten, TasksDone,
       AddVariants, VariantsDone, CopyTask, CopyVariants
  <2>2. \/ stages' = stages /\ pc' # "stage" /\ pc' # "finalize"
        \/ stages' = Tail(stages) /\ pc' = "stage"
    BY <1>3 DEF SkipTask, ImportTask, WriteDemo, DemosWritten, TasksDone,
       AddVariants, VariantsDone, CopyTask, CopyVariants, AfterTask
  <2>. QED BY <2>1, <2>2 DEF SealInv
<1>4. CASE ~BeginStage /\ stages' = stages
  BY <1>1, <1>3, <1>4 DEF SealInv, Stage, Ends
<1>5. CASE ~BeginStage /\ stages' = Tail(stages) /\ pc' = "stage"
  BY <1>1, <1>3, <1>5, SameEnd DEF SealInv, TypeOK, Ends
<1>. QED BY <1>2, <1>3, <1>4, <1>5

(* What finalize() seals is what it has judged.                            *)
LEMMA SealFinal == TypeOK /\ SealInv /\ Finalize => SealInv'
<1>. SUFFICES ASSUME TypeOK, SealInv, Finalize PROVE SealInv'
  OBVIOUS
<1>. DEFINE judged == [pool EXCEPT !.eligible = Eligible(pool)]
<1>1. /\ pc = "finalize" /\ pc' = "save stage" /\ pool' = Sealed(judged)
      /\ stages' = stages /\ world' = world /\ ended' = ended
  BY DEF Finalize
<1>2. /\ judged.tasks = pool.tasks /\ judged.variants = pool.variants
      /\ judged.eligible = Eligible(pool)
      /\ DOMAIN judged = {"tasks", "variants", "sources", "eligible", "id"}
  BY DEF TypeOK, Pools
<1>3. Served(pool')
  <2>1. Eligible(judged) = Eligible(pool)
    BY <1>2, EligibleSame
  <2>2. /\ pool'.id = Content(judged) /\ pool'.tasks = judged.tasks
        /\ pool'.variants = judged.variants /\ pool'.eligible = judged.eligible
        /\ Content(pool') = Content(judged)
    <3>. HIDE DEF judged
    <3>. QED BY <1>1, <1>2 DEF Sealed, Content
  <2>3. Eligible(pool') = Eligible(judged)
    BY <2>2, EligibleSame
  <2>. QED BY <1>2, <2>1, <2>2, <2>3 DEF Served
<1>4. Served(pool)'
  BY <1>1, <1>3, ServedNext
<1>. QED BY <1>1, <1>4 DEF SealInv, Stage

(* A build has a stage to run.                                             *)
LEMMA SealOpen == TypeOK /\ SealInv /\ Open => SealInv'
<1>. SUFFICES ASSUME TypeOK, SealInv, Open PROVE SealInv'
  OBVIOUS
<1>1. pc' = "stage" /\ stages' = ended' /\ stages' # <<>>
  BY InvocationsAssumption DEF Open
<1>. QED BY <1>1 DEF SealInv, Ends

(* What is discarded, and what a build that died leaves, is not sealed.    *)
LEMMA SealEnds == TypeOK /\ SealInv /\ (Discard \/ Crash) => SealInv'
<1>. SUFFICES ASSUME TypeOK, SealInv, Discard \/ Crash PROVE SealInv'
  OBVIOUS
<1>1. ended' = <<>> /\ pc' = "off" /\ (stages' = stages \/ stages' = <<>>)
  BY DEF Discard, Crash
<1>2. CASE Discard
  BY <1>1, <1>2 DEF SealInv, Ends, Discard
<1>3. CASE Crash
  BY <1>1, <1>3 DEF SealInv, Ends, Crash
<1>. QED BY <1>2, <1>3

(* The last save writes what is saved already.                             *)
LEMMA SealClose == TypeOK /\ SealInv /\ Close => SealInv'
<1>. SUFFICES ASSUME TypeOK, SealInv, Close PROVE SealInv'
  OBVIOUS
<1>1. /\ pc = "stage" /\ stages = <<>> /\ stages' = stages /\ json' = json
      /\ world' = world /\ ended' = ended
      /\ pc' = "off" \/ (pc' = "save" /\ pool' = pool)
  BY DEF Close, disk
<1>2. ASSUME Ends PROVE Served(pool) /\ json = pool
  BY <1>1, <1>2 DEF SealInv
<1>3. Ends => Served(json)' /\ json' \in Pools
  BY <1>1, <1>2, ServedNext DEF TypeOK
<1>4. Ends /\ pc' = "save" => Served(pool)' /\ json' = pool'
  BY <1>1, <1>2, ServedNext
<1>. QED BY <1>1, <1>3, <1>4 DEF SealInv, Ends, Stage

(* A sealed pool is saved as it is.                                        *)
LEMMA SealSave == TypeOK /\ StageInv /\ SealInv /\ Save => SealInv'
<1>. SUFFICES ASSUME TypeOK, StageInv, SealInv, Save PROVE SealInv'
  OBVIOUS
<1>. DEFINE p == IF pool.id = NoId THEN Sealed(pool) ELSE pool
<1>1. /\ pc \in Saves /\ json' = p /\ world' = world /\ ended' = ended
      /\ \/ pc = "save" /\ pc' = "off" /\ stages' = stages
         \/ pc = "save stage" /\ pc' = "stage" /\ pool' = p /\ stages' = Tail(stages)
         \/ /\ pc \in {"save drawings", "save buffer", "save variants"}
            /\ pc' \in {"save stage", "tasks", "variants"} /\ stages' = stages
  BY DEF Save, Saves
<1>2. ASSUME Served(pool) PROVE p = pool
  <2>1. pool.id = Content(pool)
    BY <1>2 DEF Served
  <2>2. Sealed(pool) = [pool EXCEPT !.id = pool.id]
    BY <2>1 DEF Sealed
  <2>3. [pool EXCEPT !.id = pool.id] = pool
    BY DEF TypeOK, Pools
  <2>. QED BY <2>2, <2>3
<1>. HIDE DEF p
<1>3. CASE pc = "save"
  <2>1. Ends => Served(pool)
    BY <1>3 DEF SealInv
  <2>2. Ends => Served(json)' /\ json' \in Pools
    BY <1>1, <1>2, <2>1, ServedNext DEF TypeOK
  <2>. QED BY <1>1, <1>3, <2>2 DEF SealInv, Ends
<1>4. CASE pc = "save stage" /\ stages = <<>>
  BY <1>4 DEF StageInv
<1>5. CASE pc = "save stage" /\ stages # <<>>
  <2>1. /\ Tail(stages) # <<>> => Last(Tail(stages)) = Last(stages)
        /\ Tail(stages) = <<>> => Last(stages) = Stage
    BY <1>5, SameEnd DEF TypeOK
  <2>2. pc' = "stage" /\ pool' = p /\ json' = p /\ stages' = Tail(stages)
    BY <1>1, <1>5 DEF Saves
  <2>3. ASSUME Ends, Tail(stages) = <<>> PROVE Served(pool)' /\ json' = pool'
    <3>1. Served(pool)
      BY <2>1, <2>3, <1>5 DEF SealInv, Ends
    <3>. QED BY <1>1, <1>2, <2>2, <3>1, ServedNext
  <2>. QED BY <1>1, <1>5, <2>1, <2>2, <2>3 DEF SealInv, Ends, Saves
<1>6. CASE pc \in {"save drawings", "save buffer", "save variants"}
  <2>1. /\ pc' \in {"save stage", "tasks", "variants"} /\ stages' = stages
        /\ stages # <<>> /\ Stage # "finalize"
    BY <1>1, <1>6 DEF SealInv
  <2>. QED BY <1>1, <2>1 DEF SealInv, Ends, Stage
<1>. QED BY <1>1, <1>3, <1>4, <1>5, <1>6 DEF Saves

(* No step changes what a build that is done has sealed.                   *)
LEMMA SealInductive == IInv /\ SealInv /\ [Next]_vars => SealInv'
<1>. SUFFICES ASSUME IInv, SealInv, [Next]_vars PROVE SealInv'
  OBVIOUS
<1>1. TypeOK /\ StageInv
  BY DEF IInv
<1>2. CASE UNCHANGED vars
  <2>1. /\ world' = world /\ json' = json /\ pool' = pool /\ stages' = stages
        /\ pc' = pc /\ ended' = ended
    BY <1>2 DEF vars, disk
  <2>2. (Served(pool) => Served(pool)') /\ (Served(json) => Served(json)')
    BY <2>1, ServedNext
  <2>. QED BY <2>1, <2>2 DEF SealInv, Ends, Stage
<1>3. CASE Next
  BY <1>1, <1>3, SealQuiet, SealFinal, SealOpen, SealEnds, SealClose, SealSave DEF Next
<1>. QED BY <1>2, <1>3

(* At first nothing is sealed.                                             *)
LEMMA SealInit == Init => SealInv
BY DEF Init, SealInv, Ends

(* Of what is sealed a unit can be derived.                                *)
LEMMA SealedFollows ==
    ASSUME Torn \notin Pools, IInv, SealInv PROVE SealedPoolServes
<1>. SUFFICES ASSUME Finished, json # NoPool
     PROVE  /\ Loads
            /\ \A e \in json.eligible :
                  /\ e[2] \in world.barren => e[2] \notin Tasks /\ Unchecked(e[2])
                  /\ \E t \in json.tasks :
                        t[2] > 0 /\ t[1] = (IF e[2] \in Tasks THEN e[2] ELSE e[2][1])
  BY DEF SealedPoolServes
<1>1. Served(json) /\ json \in Pools
  BY DEF SealInv, Finished, Ends
<1>2. json # Torn
  BY <1>1
<1>3. Loads
  BY <1>1, <1>2 DEF Loads, Served
<1>4. Backed(json, files, demos, torn, cut)
  BY <1>2 DEF IInv, JsonInv, Whole
<1>5. \A v \in json.variants : v \in Variants /\ v \notin Tasks /\ v[1] \in Ids(json)
  BY <1>2, <1>4, TasksAssumption DEF IInv, TypeOK, Pools, Backed
<1>6. \A t \in json.tasks : t[1] \in Tasks /\ t[2] > 0
  BY <1>2, <1>4 DEF IInv, TypeOK, Pools, Backed
<1>7. ASSUME NEW e \in json.eligible
      PROVE  \/ /\ e[2] \in json.variants
                /\ e[2] \notin world.barren \/ Unchecked(e[2])
             \/ \E t \in json.tasks : t[1] = e[2] /\ t[1] \notin world.barren
  BY <1>1 DEF Served, Eligible
<1>8. ASSUME NEW e \in json.eligible
      PROVE  /\ e[2] \in world.barren => e[2] \notin Tasks /\ Unchecked(e[2])
             /\ \E t \in json.tasks :
                   t[2] > 0 /\ t[1] = (IF e[2] \in Tasks THEN e[2] ELSE e[2][1])
  BY <1>5, <1>6, <1>7, <1>8 DEF Ids
<1>. QED BY <1>3, <1>8

(* Whatever the sources are, whatever stages are run and wherever builds   *)
(* die, a build that ends with "finalize" leaves a pool that loads, of     *)
(* which every eligible entry has what a unit is derived from              *)
(* (pools/build.py, pools/schema.py).  Half a pool.json is not a whole one.*)
THEOREM SealedPoolServesHolds ==
    ASSUME Torn \notin Pools PROVE Spec => []SealedPoolServes
<1>1. Spec => [](IInv /\ SealInv)
  BY InitInv, SealInit, Inductive, SealInductive, PTL DEF Spec
<1>2. IInv /\ SealInv => SealedPoolServes
  BY SealedFollows
<1>. QED BY <1>1, <1>2, PTL
-----------------------------------------------------------------------------
(* A task that the sources have, and of which the scene builds where that  *)
(* is asked for; and the variants that the stages add to it.               *)
Sound(t) == Have(t) /\ (t \in Bases \/ Builds(t))
VariantsOf(t) == SpatialOf(t) \cup EnvironmentOf(t)

(* A document holds nothing else; with all demonstrations it is full.      *)
Known(p) ==
    /\ \A t \in Ids(p) : Sound(t)
    /\ \A v \in p.variants : \E t \in Bases \cap Ids(p) : v \in VariantsOf(t)
Full(p) == \A e \in p.tasks : e[2] = Demos

(* Unless a build died among demonstrations, a task of LIBERO has all of   *)
(* them or none.                                                           *)
AllOrNone ==
    \A t \in Tasks \ Drawings :
        demos[t] \in {0, Demos} \/ (pc = "demos" /\ t = Task)

KnownInv ==
    /\ Known(pool) /\ (Whole => Known(json))
    /\ pc = "demos" => Have(Task)
    /\ "demos" \notin cut => Full(pool) /\ (Whole => Full(json)) /\ AllOrNone

(* The stages that are left end the list that the build was started with,  *)
(* and each loop is of its stages.                                         *)
RestInv ==
    /\ ended \in Seq(StageNames) /\ Len(stages) <= Len(ended)
    /\ \A i \in 1..Len(stages) : stages[i] = ended[Len(ended) - Len(stages) + i]

LabelInv ==
    /\ pc \in {"tasks", "demos"} =>
          Stage \in {"base", "object", "draw", "generate", "generate-draw"}
    /\ pc \in {"variants", "save variants"} => Stage \in {"spatial", "environment"}
    /\ pc = "save drawings" => Stage = "draw"
    /\ pc = "save buffer" => Stage = "generate-draw"
    /\ pc \in {"off", "stage", "finalize", "save stage", "save drawings", "save"} =>
          left = {}

(* The stage with k to run, itself included, has still to come to t, or to *)
(* enter its source.                                                       *)
Due(k, t) == Len(stages) > k \/ (Len(stages) = k /\ (pc = "stage" \/ t \in left))
SourceDue(k) == Len(stages) > k \/ (Len(stages) = k /\ pc # "save stage")

UpgradeStages == <<"upgrade", "draw", "finalize">>

(* What a build of all stages has in its pool ...                          *)
AllInv ==
    /\ \A t \in Bases : Have(t) => t \in Ids(pool) \/ Due(6, t)
    /\ \A t \in Bases : Have(t) => SpatialOf(t) \subseteq pool.variants \/ Due(5, t)
    /\ \A t \in Bases : Have(t) => EnvironmentOf(t) \subseteq pool.variants \/ Due(4, t)
    /\ \A t \in Gens \ Made : Sound(t) => t \in Ids(pool) \/ Due(3, t)
    /\ "libero" \in pool.sources \/ SourceDue(6)

(* ... and an upgrade: nothing that was generated.                         *)
UpgradeInv ==
    /\ \A t \in OldTasks : Have(t) => t \in Ids(pool) \/ Due(3, t)
    /\ \/ Len(stages) = 3 /\ pc \in {"stage", "copy"}
       \/ /\ \A t \in Bases \cap Ids(pool) : VariantsOf(t) \subseteq pool.variants
          /\ {"libero", "upgraded_from"} \subseteq pool.sources
    /\ Full(pool) /\ Ids(pool) \cap Made = {}
    /\ Len(stages) = 2 /\ pc # "stage" => left \subseteq Drawings \ Made

(* Both end with the drawings.                                             *)
DrawInv ==
    /\ \A t \in Drawings \ Made : Sound(t) => t \in Ids(pool) \/ Due(2, t)
    /\ "drawanything" \in pool.sources \/ SourceDue(2)

(* What is in a pool when nothing is due any more.                         *)
Finds(p) ==
    /\ \A t \in Tasks : Sound(t) /\ t \notin Made => t \in Ids(p)
    /\ \A t \in Bases \cap Ids(p) : VariantsOf(t) \subseteq p.variants
    /\ {"libero", "drawanything"} \subseteq p.sources
Upgraded(p) ==
    Full(p) /\ Ids(p) \cap Made = {} /\ "upgraded_from" \in p.sources

BuildInv ==
    /\ pc # "off" =>
         /\ ended = Stages => AllInv
         /\ ended = UpgradeStages => UpgradeInv
         /\ ended \in {Stages, UpgradeStages} => DrawInv
    /\ pc = "off" =>
         /\ ended \in {Stages, UpgradeStages} => json \in Pools /\ Finds(json)
         /\ ended = UpgradeStages => Upgraded(json)
-----------------------------------------------------------------------------
(* As long as the sources stay, so does what they have.                    *)
LEMMA SourcesStay ==
    ASSUME world' = world
    PROVE  /\ \A t : Sound(t)' <=> Sound(t)
           /\ \A t : Have(t)' <=> Have(t)
           /\ \A t : VariantsOf(t)' = VariantsOf(t)
           /\ \A t : SpatialOf(t)' = SpatialOf(t)
           /\ \A t : EnvironmentOf(t)' = EnvironmentOf(t)
<1>1. \A e : (Have(e)' <=> Have(e)) /\ (Builds(e)' <=> Builds(e))
  BY DEF Have, Builds
<1>2. \A t : SpatialOf(t)' = SpatialOf(t)
  BY <1>1 DEF SpatialOf
<1>3. \A t : EnvironmentOf(t)' = EnvironmentOf(t)
  BY <1>1 DEF EnvironmentOf
<1>. QED BY <1>1, <1>2, <1>3 DEF Sound, VariantsOf

(* What a document holds that the sources have, they have still.           *)
LEMMA KnownNext ==
    ASSUME world' = world
    PROVE  /\ Known(pool') => Known(pool)'
           /\ Known(json') => Known(json)'
           /\ Full(pool') => Full(pool)'
           /\ Full(json') => Full(json)'
<1>1. \A t : (Sound(t)' <=> Sound(t)) /\ VariantsOf(t)' = VariantsOf(t)
  BY SourcesStay
<1>. QED BY <1>1 DEF Known, Full, Ids

(* Of documents only what they name matters.                               *)
LEMMA KnownSame ==
    ASSUME NEW p, NEW q, q.tasks = p.tasks, q.variants = p.variants
    PROVE  (Known(p) => Known(q)) /\ (Full(p) => Full(q)) /\ Ids(q) = Ids(p)
BY DEF Known, Full, Ids

(* The empty pool holds nothing.                                           *)
LEMMA EmptyKnown == Known(Empty) /\ Full(Empty)
BY DEF Known, Full, Ids, Empty

(* A task that is there enters with all its demonstrations.                *)
LEMMA AddTaskKnown ==
    ASSUME AddTask, pool \in Pools, Have(Task), Known(pool)
    PROVE  /\ Known(pool')
           /\ Full(pool) /\ Listed(Task) = Demos => Full(pool')
<1>1. CASE pool' = pool
  BY <1>1
<1>2. CASE /\ Task \in Bases \/ Builds(Task)
           /\ pool' = [pool EXCEPT !.tasks = @ \cup {<<Task, Listed(Task)>>}]
  <2>. DEFINE entry == <<Task, Listed(Task)>>
  <2>1. /\ pool'.tasks = pool.tasks \cup {entry} /\ pool'.variants = pool.variants
        /\ entry[1] = Task /\ entry[2] = Listed(Task)
    BY <1>2 DEF Pools
  <2>. HIDE DEF entry
  <2>2. Ids(pool') = Ids(pool) \cup {Task}
    BY <2>1 DEF Ids
  <2>. QED BY <1>2, <2>1, <2>2 DEF Known, Full, Sound
<1>. QED BY <1>1, <1>2 DEF AddTask

(* What the invariant of the known says of pool.json and of what it says   *)
(* of the tasks of LIBERO, when neither changes.                           *)
LEMMA KnownQuiet ==
    ASSUME IInv, KnownInv,
           BeginStage \/ SkipTask \/ TasksDone \/ VariantsDone \/ Finalize \/ Close
           \/ Discard
    PROVE  KnownInv'
<1>1. /\ world' = world /\ cut' = cut /\ demos' = demos
      /\ pc # "demos" /\ pc' # "demos"
      /\ json' = json \/ json' = NoPool
  BY DEF BeginStage, SkipTask, TasksDone, VariantsDone, Finalize, Close, Discard,
     disk, AfterTask
<1>2. \/ pool'.tasks = pool.tasks /\ pool'.variants = pool.variants
      \/ pool' = Empty
  <2>1. CASE Finalize
    <3>. DEFINE judged == [pool EXCEPT !.eligible = Eligible(pool)]
    <3>1. judged.tasks = pool.tasks /\ judged.variants = pool.variants
      BY DEF IInv, TypeOK, Pools
    <3>2. pool' = [judged EXCEPT !.id = Content(judged)]
      BY <2>1 DEF Finalize, Sealed
    <3>3. DOMAIN judged = {"tasks", "variants", "sources", "eligible", "id"}
      BY DEF IInv, TypeOK, Pools
    <3>. HIDE DEF judged
    <3>4. pool'.tasks = judged.tasks /\ pool'.variants = judged.variants
      BY <3>2, <3>3
    <3>. QED BY <3>1, <3>4
  <2>2. CASE TasksDone
    BY <2>2 DEF TasksDone, IInv, TypeOK, Pools
  <2>3. CASE BeginStage \/ SkipTask \/ VariantsDone \/ Close \/ Discard
    BY <2>3 DEF BeginStage, SkipTask, VariantsDone, Close, Discard
  <2>. QED BY <2>1, <2>2, <2>3
<1>3. Known(pool') /\ ("demos" \notin cut => Full(pool'))
  BY <1>2, KnownSame, EmptyKnown DEF KnownInv
<1>4. Whole' => Whole /\ json' = json
  BY <1>1 DEF Whole
<1>5. Whole' => Known(json') /\ ("demos" \notin cut => Full(json'))
  BY <1>4 DEF KnownInv
<1>6. AllOrNone => AllOrNone'
  BY <1>1 DEF AllOrNone
<1>. QED BY <1>1, <1>3, <1>5, <1>6, KnownNext DEF KnownInv

(* An import of a task that the sources have.                              *)
LEMMA KnownImport ==
    ASSUME IInv, KnownInv, ImportTask \/ WriteDemo \/ DemosWritten
    PROVE  KnownInv'
<1>1. /\ world' = world /\ cut' = cut /\ json' = json /\ Task \in Tasks
      /\ pc \in {"tasks", "demos"} /\ left # {}
      /\ demos \in [Tasks -> 0..Demos] /\ pool \in Pools
  BY TaskIsLeft DEF ImportTask, WriteDemo, DemosWritten, disk, IInv, TypeOK, StageInv
<1>2. Have(Task)
  BY DEF ImportTask, WriteDemo, DemosWritten, KnownInv
<1>3. pc' = "demos" => left' = left /\ pool' = pool /\ Task' = Task
  BY DEF ImportTask, WriteDemo, DemosWritten, AfterTask, AddTask, Task
<1>4. \/ pool' = pool
      \/ AddTask /\ ("demos" \notin cut => Listed(Task) = Demos)
  <2>1. CASE ImportTask /\ pc' # "demos"
    <3>1. AddTask /\ Task \notin Drawings /\ Listed(Task) >= 1 /\ pc = "tasks"
      BY <2>1 DEF ImportTask
    <3>2. ASSUME "demos" \notin cut PROVE Listed(Task) = Demos
      <4>1. Task \notin torn /\ demos[Task] \in {0, Demos}
        BY <1>1, <3>1, <3>2 DEF IInv, HalvesInv, KnownInv, AllOrNone
      <4>. QED BY <3>1, <4>1, NumbersAssumption DEF Listed
    <3>. QED BY <3>1, <3>2
  <2>2. CASE DemosWritten
    <3>1. AddTask /\ demos[Task] = Demos /\ Task \notin torn
      BY <2>2 DEF DemosWritten, IInv, StageInv
    <3>. QED BY <3>1, NumbersAssumption DEF Listed
  <2>3. CASE WriteDemo \/ (ImportTask /\ pc' = "demos")
    BY <2>3 DEF WriteDemo, ImportTask
  <2>. QED BY <2>1, <2>2, <2>3
<1>5. Known(pool') /\ ("demos" \notin cut => Full(pool'))
  BY <1>1, <1>2, <1>4, AddTaskKnown DEF KnownInv
<1>6. ASSUME AllOrNone PROVE AllOrNone'
  <2>1. ASSUME NEW t \in Tasks \ Drawings
        PROVE  demos'[t] \in {0, Demos} \/ (pc' = "demos" /\ t = Task')
    <3>1. CASE t = Task /\ pc' = "demos"
      BY <1>3, <3>1
    <3>2. CASE t = Task /\ pc' # "demos"
      <4>1. demos' = demos
        BY <3>2 DEF ImportTask, WriteDemo, DemosWritten, disk
      <4>2. demos[t] = Demos \/ pc = "tasks"
        BY <3>2 DEF ImportTask, WriteDemo, DemosWritten
      <4>. QED BY <1>6, <4>1, <4>2 DEF AllOrNone
    <3>3. CASE t # Task
      <4>1. demos'[t] = demos[t]
        BY <1>1, <3>3 DEF ImportTask, WriteDemo, DemosWritten, disk
      <4>. QED BY <1>6, <3>3, <4>1 DEF AllOrNone
    <3>. QED BY <3>1, <3>2, <3>3
  <2>. QED BY <2>1 DEF AllOrNone
<1>7. Whole' => Whole
  BY <1>1 DEF Whole
<1>. QED BY <1>1, <1>2, <1>3, <1>5, <1>6, <1>7, SourcesStay, KnownNext DEF KnownInv

(* The variants that a stage adds are those that the sources have.         *)
LEMMA KnownVariants ==
    ASSUME IInv, KnownInv, AddVariants
    PROVE  KnownInv'
<1>1. /\ world' = world /\ cut' = cut /\ json' = json /\ demos' = demos
      /\ pc # "demos" /\ pc' # "demos" /\ pool \in Pools
  BY DEF AddVariants, IInv, TypeOK
<1>2. Task \in Bases \cap Ids(pool)
  BY TaskIsLeft DEF AddVariants, IInv, TypeOK, StageInv
<1>3. PICK tried : pool' = [pool EXCEPT !.variants = @ \cup
                       (tried \cap (SpatialOf(Task) \cup EnvironmentOf(Task)))]
  BY DEF AddVariants
<1>4. /\ pool'.tasks = pool.tasks
      /\ pool'.variants \subseteq pool.variants \cup VariantsOf(Task)
  BY <1>1, <1>3 DEF Pools, VariantsOf
<1>5. Known(pool') /\ ("demos" \notin cut => Full(pool'))
  BY <1>2, <1>4 DEF KnownInv, Known, Full, Ids
<1>6. AllOrNone => AllOrNone'
  BY <1>1 DEF AllOrNone
<1>7. Whole' => Whole
  BY <1>1 DEF Whole
<1>. QED BY <1>1, <1>5, <1>6, <1>7, KnownNext DEF KnownInv

(* An upgrade takes over what the sources have.                            *)
LEMMA KnownCopyTask ==
    ASSUME IInv, KnownInv, CopyTask
    PROVE  KnownInv'
<1>1. /\ world' = world /\ cut' = cut /\ json' = json
      /\ pc # "demos" /\ pc' # "demos" /\ pool \in Pools
  BY DEF CopyTask, IInv, TypeOK
<1>2. Task \in OldTasks /\ Task \in Tasks /\ Task \notin Drawings
  BY TaskIsLeft, TasksAssumption DEF CopyTask, IInv, TypeOK, StageInv, OldTasks
<1>. DEFINE entry == <<Task, Demos>>
<1>3. \/ pool' = pool /\ demos' = demos
      \/ Have(Task) /\ pool'.tasks = pool.tasks \cup {entry} /\ pool'.variants = pool.variants
  BY <1>1 DEF CopyTask, Pools
<1>4. entry[1] = Task /\ entry[2] = Demos
  OBVIOUS
<1>. HIDE DEF entry
<1>5. Known(pool') /\ ("demos" \notin cut => Full(pool'))
  <2>1. CASE pool' = pool
    BY <2>1 DEF KnownInv
  <2>2. CASE Have(Task) /\ pool'.tasks = pool.tasks \cup {entry} /\ pool'.variants = pool.variants
    <3>1. Ids(pool') = Ids(pool) \cup {Task}
      BY <1>4, <2>2 DEF Ids
    <3>2. Sound(Task)
      BY <1>2, <2>2 DEF Sound, OldTasks
    <3>. QED BY <1>4, <2>2, <3>1, <3>2 DEF KnownInv, Known, Full
  <2>. QED BY <1>3, <2>1, <2>2
<1>6. ASSUME "demos" \notin cut, AllOrNone PROVE AllOrNone'
  <2>1. Task \notin torn
    BY <1>2, <1>6 DEF IInv, HalvesInv
  <2>2. \A t \in Tasks : demos'[t] = demos[t] \/ demos'[t] = Demos
    BY <2>1 DEF CopyTask, IInv, TypeOK
  <2>. QED BY <1>1, <1>6, <2>2 DEF AllOrNone
<1>7. Whole' => Whole
  BY <1>1 DEF Whole
<1>. QED BY <1>1, <1>5, <1>6, <1>7, KnownNext DEF KnownInv

(* It takes over the variants of tasks that it has.                      *)
LEMMA KnownCopyVariants ==
    ASSUME IInv, KnownInv, CopyVariants
    PROVE  KnownInv'
<1>1. /\ world' = world /\ cut' = cut /\ json' = json /\ demos' = demos
      /\ pc # "demos" /\ pc' # "demos" /\ pool \in Pools
  BY DEF CopyVariants, IInv, TypeOK
<1>2. pool'.tasks = pool.tasks /\ pool'.variants = OldVariants
  BY <1>1 DEF CopyVariants, Pools
<1>3. \A v \in OldVariants : \E t \in Bases \cap Ids(pool) : v \in VariantsOf(t)
  BY DEF OldVariants, VariantsOf
<1>4. Known(pool') /\ ("demos" \notin cut => Full(pool'))
  BY <1>2, <1>3 DEF KnownInv, Known, Full, Ids
<1>5. AllOrNone => AllOrNone'
  BY <1>1 DEF AllOrNone
<1>6. Whole' => Whole
  BY <1>1 DEF Whole
<1>. QED BY <1>1, <1>4, <1>5, <1>6, KnownNext DEF KnownInv

(* A build begins with what pool.json holds, or with nothing.              *)
LEMMA KnownOpen ==
    ASSUME IInv, KnownInv, Open
    PROVE  KnownInv'
<1>1. /\ world' = world /\ cut' = cut /\ json' = json /\ demos' = demos
      /\ pc # "demos" /\ pc' # "demos"
  BY DEF Open, disk
<1>2. Known(pool') /\ ("demos" \notin cut => Full(pool'))
  <2>1. CASE pool' = Empty
    BY <2>1, EmptyKnown
  <2>2. CASE json # NoPool /\ Loads /\ pool' = [json EXCEPT !.id = NoId]
    <3>1. Whole /\ json \in Pools
      BY <2>2 DEF Loads, Whole, IInv, TypeOK
    <3>2. pool'.tasks = json.tasks /\ pool'.variants = json.variants
      BY <2>2, <3>1 DEF Pools
    <3>. QED BY <3>1, <3>2, KnownSame DEF KnownInv
  <2>. QED BY <2>1, <2>2 DEF Open
<1>3. AllOrNone => AllOrNone'
  BY <1>1 DEF AllOrNone
<1>4. Whole' => Whole
  BY <1>1 DEF Whole
<1>. QED BY <1>1, <1>2, <1>3, <1>4, KnownNext DEF KnownInv

(* What save() writes, and what it leaves in memory.                       *)
LEMMA SavedSame ==
    ASSUME TypeOK, Save
    PROVE  /\ json' \in Pools
           /\ json'.tasks = pool.tasks /\ json'.variants = pool.variants
           /\ json'.sources = pool.sources
           /\ pc # "save" => /\ pool'.tasks = pool.tasks
                             /\ pool'.variants = pool.variants
                             /\ pool.sources \subseteq pool'.sources
                             /\ pc = "save drawings" => "drawanything" \in pool'.sources
<1>. DEFINE p == IF pool.id = NoId THEN Sealed(pool) ELSE pool
<1>1. /\ p \in Pools /\ p.tasks = pool.tasks /\ p.variants = pool.variants
      /\ p.sources = pool.sources
  BY SealedType DEF TypeOK
<1>2. json' = p
  BY DEF Save
<1>3. pc # "save" =>
         \/ pool' = p /\ pc # "save drawings"
         \/ pool' = [p EXCEPT !.sources = @ \cup Source("draw")]
  BY DEF Save, Saves
<1>4. "drawanything" \in Source("draw")
  BY DEF Source
<1>. HIDE DEF p
<1>. QED BY <1>1, <1>2, <1>3, <1>4 DEF Pools

(* What is saved is known when the pool in memory is.                    *)
LEMMA KnownSave ==
    ASSUME IInv, KnownInv, Save
    PROVE  KnownInv'
<1>1. /\ world' = world /\ cut' = cut /\ demos' = demos
      /\ pc # "demos" /\ pc' # "demos"
  BY DEF Save, Saves
<1>2. pc = "save" => pool' = Empty
  BY DEF Save
<1>3. Known(pool') /\ ("demos" \notin cut => Full(pool'))
  BY <1>2, SavedSame, KnownSame, EmptyKnown DEF KnownInv, IInv
<1>4. Known(json') /\ ("demos" \notin cut => Full(json'))
  BY SavedSame, KnownSame DEF KnownInv, IInv
<1>5. AllOrNone => AllOrNone'
  BY <1>1 DEF AllOrNone
<1>. QED BY <1>1, <1>3, <1>4, <1>5, KnownNext DEF KnownInv

(* A build that dies among the demonstrations of a task of LIBERO is known *)
(* to have done so.                                                        *)
LEMMA KnownCrash ==
    ASSUME IInv, KnownInv, Crash
    PROVE  KnownInv'
<1>1. /\ world' = world /\ cut \subseteq cut' /\ pc' = "off" /\ pool' = Empty
      /\ json' = json \/ json' = Torn
      /\ demos \in [Tasks -> 0..Demos]
  BY DEF Crash, IInv, TypeOK
<1>2. Whole' => Whole /\ json' = json
  BY <1>1 DEF Whole
<1>3. Whole' => Known(json') /\ ("demos" \notin cut' => Full(json'))
  BY <1>1, <1>2 DEF KnownInv
<1>4. ASSUME "demos" \notin cut', AllOrNone PROVE AllOrNone'
  <2>1. CASE Task \in Drawings
    <3>1. \A t \in Tasks \ Drawings : demos'[t] = demos[t] /\ t # Task
      BY <1>1, <2>1 DEF Crash
    <3>. QED BY <1>1, <1>4, <3>1 DEF AllOrNone
  <2>2. CASE Task \notin Drawings
    <3>1. demos' = demos /\ (~WritingDemos \/ Writing # {})
      BY <1>4, <2>2 DEF Crash
    <3>2. ASSUME pc = "demos", Task \in Tasks PROVE demos[Task] = Demos
      <4>1. Writing = {}
        BY <3>2 DEF Writing
      <4>2. ~(demos[Task] < Demos) /\ demos[Task] \in 0..Demos
        BY <1>1, <3>1, <3>2, <4>1 DEF WritingDemos
      <4>. QED BY <4>2, NumbersAssumption
    <3>. QED BY <1>1, <1>4, <3>1, <3>2 DEF AllOrNone
  <2>. QED BY <2>1, <2>2
<1>. QED BY <1>1, <1>3, <1>4, EmptyKnown, KnownNext DEF KnownInv

(* Whatever a build does, pool.json and the pool in memory hold nothing    *)
(* that the sources have not.                                              *)
LEMMA KnownInductive == IInv /\ KnownInv /\ [Next]_vars => KnownInv'
<1>1. CASE UNCHANGED vars
  BY <1>1, SourcesStay DEF vars, disk, KnownInv, Known, Full, Whole, AllOrNone, Ids, Task
<1>2. CASE Next
  BY <1>2, KnownQuiet, KnownImport, KnownVariants, KnownCopyTask, KnownCopyVariants,
     KnownOpen, KnownSave, KnownCrash DEF Next
<1>. QED BY <1>1, <1>2

(* Nothing is known of at first, and nothing needs to be.                *)
LEMMA KnownInit == Init => KnownInv
BY EmptyKnown DEF Init, KnownInv, Whole, AllOrNone
-----------------------------------------------------------------------------
(* A stage is over, or none is: what is left still ends the list.          *)
LEMMA RestStays ==
    ASSUME RestInv, stages \in Seq(StageNames), ended' = ended,
           stages' = stages \/ (stages # <<>> /\ stages' = Tail(stages))
    PROVE  RestInv'
<1>1. CASE stages' = stages
  BY <1>1 DEF RestInv
<1>2. CASE stages # <<>> /\ stages' = Tail(stages)
  <2>1. /\ Len(stages) \in Nat /\ Len(stages) >= 1
        /\ Tail(stages) \in Seq(StageNames) /\ Len(Tail(stages)) = Len(stages) - 1
        /\ \A i \in 1..(Len(stages) - 1) : Tail(stages)[i] = stages[i + 1]
    BY <1>2
  <2>2. Len(ended) \in Nat /\ Len(stages) <= Len(ended)
    BY DEF RestInv
  <2>. DEFINE n == Len(stages)
              m == Len(ended)
              rest == Tail(stages)
  <2>3. /\ n \in Nat /\ n >= 1 /\ m \in Nat /\ n <= m
        /\ Len(rest) = n - 1 /\ stages' = rest
        /\ \A i \in 1..(n - 1) : rest[i] = stages[i + 1]
        /\ \A i \in 1..n : stages[i] = ended[m - n + i]
    BY <1>2, <2>1, <2>2 DEF RestInv
  <2>. HIDE DEF n, m, rest
  <2>4. ASSUME NEW i \in 1..(n - 1)
        PROVE  rest[i] = ended[m - (n - 1) + i]
    <3>1. i + 1 \in 1..n /\ m - n + (i + 1) = m - (n - 1) + i
      BY <2>3
    <3>2. rest[i] = stages[i + 1] /\ stages[i + 1] = ended[m - n + (i + 1)]
      BY <2>3, <3>1
    <3>. QED BY <3>1, <3>2
  <2>5. Len(rest) <= m /\ \A i \in 1..Len(rest) : rest[i] = ended[m - Len(rest) + i]
    BY <2>3, <2>4
  <2>6. ended \in Seq(StageNames) /\ Len(ended) = m
    BY DEF RestInv, m
  <2>. QED BY <2>3, <2>5, <2>6 DEF RestInv
<1>. QED BY <1>1, <1>2

(* No step leaves other stages than the last ones of its build.          *)
LEMMA RestInductive == IInv /\ SealInv /\ RestInv /\ [Next]_vars => RestInv'
<1>. SUFFICES ASSUME IInv, SealInv, RestInv, [Next]_vars PROVE RestInv'
  OBVIOUS
<1>1. stages \in Seq(StageNames)
  BY DEF IInv, TypeOK
<1>2. CASE Open
  <2>1. stages' = ended' /\ ended' \in Seq(StageNames)
    BY <1>2, InvocationsAssumption DEF Open, StageNames
  <2>2. Len(ended') \in Nat /\ \A i \in Nat : Len(ended') - Len(ended') + i = i
    BY <2>1
  <2>. QED BY <2>1, <2>2 DEF RestInv
<1>3. CASE Discard \/ Crash
  <2>1. stages' = <<>> /\ ended' = <<>>
    BY <1>3 DEF Discard, Crash, SealInv
  <2>. QED BY <2>1 DEF RestInv
<1>4. CASE BeginStage \/ SkipTask \/ ImportTask \/ WriteDemo \/ DemosWritten
           \/ TasksDone \/ AddVariants \/ VariantsDone \/ CopyTask \/ CopyVariants
           \/ Finalize \/ Close \/ Save
  <2>1. ended' = ended
    BY <1>4 DEF BeginStage, SkipTask, ImportTask, WriteDemo, DemosWritten, TasksDone,
       AddVariants, VariantsDone, CopyTask, CopyVariants, Finalize, Close, Save
  <2>2. stages' = stages \/ stages' = Tail(stages)
    BY <1>4 DEF BeginStage, SkipTask, ImportTask, WriteDemo, DemosWritten, TasksDone,
       AddVariants, VariantsDone, CopyTask, CopyVariants, Finalize, Close, Save, Saves
  <2>3. stages' = Tail(stages) => stages # <<>> \/ stages' = stages
    BY <1>4 DEF BeginStage, SkipTask, ImportTask, WriteDemo, DemosWritten, TasksDone,
       AddVariants, VariantsDone, CopyTask, CopyVariants, Finalize, Close, Save, Saves,
       IInv, StageInv
  <2>. QED BY <1>1, <2>1, <2>2, <2>3, RestStays
<1>5. CASE UNCHANGED vars
  BY <1>1, <1>5, RestStays DEF vars
<1>. QED BY <1>2, <1>3, <1>4, <1>5 DEF Next

(* Each loop is of its stages, and they end when nothing is left.          *)
LEMMA LabelInductive == IInv /\ SealInv /\ LabelInv /\ [Next]_vars => LabelInv'
<1>. SUFFICES ASSUME IInv, SealInv, LabelInv, [Next]_vars PROVE LabelInv'
  OBVIOUS
<1>1. CASE Open
  BY <1>1 DEF Open, LabelInv
<1>2. CASE Discard \/ Close
  BY <1>2 DEF Discard, Close, LabelInv, Stage
<1>3. CASE Crash
  BY <1>3 DEF Crash, LabelInv
<1>4. CASE BeginStage
  <2>1. Stage = "finalize" => TasksOf(Stage) = {}
    BY DEF TasksOf
  <2>2. Stage \in ToSet(Stages) \cup OtherStages
    BY <1>4 DEF BeginStage, IInv, TypeOK, StageNames, Stage
  <2>3. Stage \in {"base", "spatial", "environment", "object", "draw", "finalize",
                   "upgrade", "generate", "generate-draw"}
    BY <2>2 DEF ToSet, Stages, OtherStages
  <2>. QED BY <1>4, <2>1, <2>3 DEF BeginStage, LabelInv, Stage
<1>5. CASE SkipTask \/ ImportTask \/ WriteDemo \/ DemosWritten
  <2>1. /\ stages' = stages /\ pc \in {"tasks", "demos"}
        /\ pc' \in {"tasks", "demos", "save buffer"}
        /\ pc' = "save buffer" => Stage = "generate-draw"
    BY <1>5 DEF SkipTask, ImportTask, WriteDemo, DemosWritten, AfterTask
  <2>. QED BY <2>1 DEF LabelInv, Stage
<1>6. CASE TasksDone
  BY <1>6 DEF TasksDone, LabelInv, Stage
<1>7. CASE AddVariants \/ VariantsDone
  BY <1>7 DEF AddVariants, VariantsDone, LabelInv, Stage
<1>8. CASE CopyTask \/ CopyVariants
  BY <1>8 DEF CopyTask, CopyVariants, LabelInv, Stage
<1>9. CASE Finalize
  BY <1>9 DEF Finalize, LabelInv, Stage
<1>10. CASE Save
  BY <1>10 DEF Save, Saves, LabelInv, Stage
<1>11. CASE UNCHANGED vars
  BY <1>11 DEF vars, LabelInv, Stage
<1>. QED BY <1>1, <1>2, <1>3, <1>4, <1>5, <1>6, <1>7, <1>8, <1>9, <1>10, <1>11 DEF Next

(* No stages are left at first.                                          *)
LEMMA RestInit == Init => RestInv /\ LabelInv
BY DEF Init, RestInv, LabelInv
-----------------------------------------------------------------------------
(* The stage at hand, by the number of those that are left.                *)
LEMMA StageAt ==
    ASSUME RestInv, stages \in Seq(StageNames), stages # <<>>
    PROVE  /\ Len(stages) \in Nat /\ Len(stages) >= 1
           /\ Len(Tail(stages)) = Len(stages) - 1
           /\ ended = Stages =>
                /\ Len(stages) <= 6 /\ Stage # "upgrade"
                /\ Len(stages) = 6 => Stage = "base"
                /\ Len(stages) = 5 => Stage = "spatial"
                /\ Len(stages) = 4 => Stage = "environment"
                /\ Len(stages) = 3 => Stage = "object"
                /\ Len(stages) = 2 => Stage = "draw"
                /\ Len(stages) = 1 => Stage = "finalize"
           /\ ended = UpgradeStages =>
                /\ Len(stages) <= 3
                /\ Len(stages) = 3 => Stage = "upgrade"
                /\ Len(stages) = 2 => Stage = "draw"
                /\ Len(stages) = 1 => Stage = "finalize"
<1>. DEFINE n == Len(stages)
<1>1. /\ n \in Nat /\ n >= 1 /\ Len(Tail(stages)) = n - 1 /\ Stage = stages[1]
  BY DEF Stage
<1>2. n <= Len(ended) /\ stages[1] = ended[Len(ended) - n + 1]
  BY <1>1 DEF RestInv
<1>. HIDE DEF n
<1>3. ASSUME ended = Stages
      PROVE  /\ n <= 6 /\ Stage # "upgrade"
             /\ n = 6 => Stage = "base"
             /\ n = 5 => Stage = "spatial"
             /\ n = 4 => Stage = "environment"
             /\ n = 3 => Stage = "object"
             /\ n = 2 => Stage = "draw"
             /\ n = 1 => Stage = "finalize"
  <2>1. n <= 6 /\ Stage = Stages[6 - n + 1]
    BY <1>1, <1>2, <1>3 DEF Stages
  <2>2. /\ Stages[1] = "base" /\ Stages[2] = "spatial" /\ Stages[3] = "environment"
        /\ Stages[4] = "object" /\ Stages[5] = "draw" /\ Stages[6] = "finalize"
    BY DEF Stages
  <2>3. n = 1 \/ n = 2 \/ n = 3 \/ n = 4 \/ n = 5 \/ n = 6
    BY <1>1, <2>1
  <2>. QED BY <2>1, <2>2, <2>3
<1>4. ASSUME ended = UpgradeStages
      PROVE  /\ n <= 3
             /\ n = 3 => Stage = "upgrade"
             /\ n = 2 => Stage = "draw"
             /\ n = 1 => Stage = "finalize"
  <2>1. n <= 3 /\ Stage = UpgradeStages[3 - n + 1]
    BY <1>1, <1>2, <1>4 DEF UpgradeStages
  <2>2. /\ UpgradeStages[1] = "upgrade" /\ UpgradeStages[2] = "draw"
        /\ UpgradeStages[3] = "finalize"
    BY DEF UpgradeStages
  <2>. QED BY <2>1, <2>2
<1>. QED BY <1>1, <1>3, <1>4 DEF n

(* The steps of the stages.                                                *)
Works ==
    \/ BeginStage \/ SkipTask \/ ImportTask \/ WriteDemo \/ DemosWritten
    \/ TasksDone \/ AddVariants \/ VariantsDone \/ CopyTask \/ CopyVariants
    \/ Finalize \/ (Save /\ pc # "save")

(* A stage that they end has nothing left.                                 *)
LEMMA WorksShape ==
    ASSUME IInv, LabelInv, Works
    PROVE  /\ world' = world /\ ended' = ended /\ stages # <<>>
           /\ pc # "off" /\ pc' # "off"
           /\ \/ stages' = stages /\ pc' # "stage"
              \/ /\ stages' = Tail(stages) /\ pc' = "stage" /\ pc # "stage"
                 /\ left = {} /\ left' = {}
<1>1. world' = world /\ ended' = ended /\ pc # "off" /\ pc' # "off"
  BY DEF Works, BeginStage, SkipTask, ImportTask, WriteDemo, DemosWritten, TasksDone,
     AddVariants, VariantsDone, CopyTask, CopyVariants, Finalize, Save, Saves, AfterTask
<1>2. stages # <<>>
  BY DEF IInv, StageInv, Works, BeginStage, SkipTask, ImportTask, WriteDemo,
     DemosWritten, TasksDone, AddVariants, VariantsDone, CopyTask, CopyVariants,
     Finalize, Save, Saves
<1>3. \/ stages' = stages /\ pc' # "stage"
      \/ stages' = Tail(stages) /\ pc' = "stage" /\ pc # "stage" /\ left = {} /\ left' = {}
  <2>1. CASE BeginStage \/ SkipTask \/ ImportTask \/ WriteDemo \/ DemosWritten
    BY <2>1 DEF BeginStage, SkipTask, ImportTask, WriteDemo, DemosWritten, AfterTask
  <2>2. CASE AddVariants \/ CopyTask \/ CopyVariants \/ Finalize
    BY <2>2 DEF AddVariants, CopyTask, CopyVariants, Finalize
  <2>3. CASE TasksDone \/ VariantsDone
    BY <2>3 DEF TasksDone, VariantsDone
  <2>4. CASE Save /\ pc # "save"
    BY <2>4 DEF Save, Saves, LabelInv
  <2>. QED BY <2>1, <2>2, <2>3, <2>4 DEF Works
<1>. QED BY <1>1, <1>2, <1>3

(* Nothing is taken out of the pool, except by an upgrade its variants.    *)
LEMMA WorksGrow ==
    ASSUME IInv, Works
    PROVE  /\ Ids(pool) \subseteq Ids(pool')
           /\ \/ CopyVariants
              \/ /\ pool.variants \subseteq pool'.variants
                 /\ pool.sources \subseteq pool'.sources
<1>1. pool \in Pools
  BY DEF IInv, TypeOK
<1>2. /\ pool.tasks \subseteq pool'.tasks
      /\ \/ CopyVariants
         \/ /\ pool.variants \subseteq pool'.variants
            /\ pool.sources \subseteq pool'.sources
  <2>1. CASE BeginStage \/ SkipTask \/ WriteDemo \/ VariantsDone
    BY <2>1 DEF BeginStage, SkipTask, WriteDemo, VariantsDone
  <2>2. CASE ImportTask \/ DemosWritten
    <3>1. pool' = pool \/ AddTask
      BY <2>2 DEF ImportTask, DemosWritten
    <3>. QED BY <1>1, <3>1 DEF AddTask, Pools
  <2>3. CASE TasksDone
    BY <1>1, <2>3 DEF TasksDone, Pools
  <2>4. CASE AddVariants
    <3>1. PICK more : pool' = [pool EXCEPT !.variants = @ \cup more]
      BY <2>4 DEF AddVariants
    <3>. QED BY <1>1, <3>1 DEF Pools
  <2>5. CASE CopyTask
    BY <1>1, <2>5 DEF CopyTask, Pools
  <2>6. CASE CopyVariants
    BY <1>1, <2>6 DEF CopyVariants, Pools
  <2>7. CASE Finalize
    <3>. DEFINE judged == [pool EXCEPT !.eligible = Eligible(pool)]
    <3>1. judged.tasks = pool.tasks /\ judged.variants = pool.variants
          /\ judged.sources = pool.sources
          /\ DOMAIN judged = {"tasks", "variants", "sources", "eligible", "id"}
      BY <1>1 DEF Pools
    <3>2. pool' = [judged EXCEPT !.id = Content(judged)]
      BY <2>7 DEF Finalize, Sealed
    <3>. HIDE DEF judged
    <3>3. pool'.tasks = judged.tasks /\ pool'.variants = judged.variants
          /\ pool'.sources = judged.sources
      BY <3>1, <3>2
    <3>. QED BY <3>1, <3>3
  <2>8. CASE Save /\ pc # "save"
    BY <2>8, SavedSame DEF IInv
  <2>. QED BY <2>1, <2>2, <2>3, <2>4, <2>5, <2>6, <2>7, <2>8 DEF Works
<1>. QED BY <1>2 DEF Ids

(* Whatever a stage is done with, it has added, if the sources have it.    *)
Added(t, p) ==
    /\ /\ Stage \in {"base", "object", "draw", "generate", "generate-draw"}
       /\ Sound(t)
       => t \in Ids(p)
    /\ Stage = "upgrade" /\ Have(t) => t \in Ids(p)
    /\ Stage = "spatial" => SpatialOf(t) \subseteq p.variants
    /\ Stage = "environment" => EnvironmentOf(t) \subseteq p.variants

(* A task that is sound is entered.                                        *)
LEMMA AddTaskAdds ==
    ASSUME AddTask, pool \in Pools
    PROVE  Sound(Task) => Task \in Ids(pool')
<1>. DEFINE entry == <<Task, Listed(Task)>>
<1>1. entry[1] = Task /\ (Sound(Task) => pool'.tasks = pool.tasks \cup {entry})
  BY DEF AddTask, Pools, Sound
<1>. HIDE DEF entry
<1>. QED BY <1>1 DEF Ids

(* What a step takes from those that are left, it has added.               *)
LEMMA WorksAdd ==
    ASSUME IInv, LabelInv, Works, NEW t \in left, t \notin left'
    PROVE  pc # "stage" /\ Added(t, pool')
<1>1. pool \in Pools /\ left # {} /\ pc # "stage"
  BY DEF IInv, TypeOK, LabelInv
<1>2. SkipTask \/ ImportTask \/ DemosWritten \/ AddVariants \/ CopyTask
  BY <1>1 DEF Works, BeginStage, WriteDemo, TasksDone, VariantsDone, CopyVariants,
     Finalize, Save
<1>3. t = Task
  BY <1>2 DEF SkipTask, ImportTask, DemosWritten, AddVariants, CopyTask, AddTask
<1>4. CASE SkipTask
  <2>1. pool' = pool /\ (Task \in Ids(pool) \/ ~Sound(Task)) /\ pc = "tasks"
    BY <1>4 DEF SkipTask, Sound
  <2>. QED BY <1>1, <1>3, <2>1 DEF LabelInv, Added
<1>5. CASE ImportTask \/ DemosWritten
  <2>1. AddTask /\ pc \in {"tasks", "demos"}
    BY <1>5 DEF ImportTask, DemosWritten
  <2>2. Sound(Task) => Task \in Ids(pool')
    BY <1>1, <2>1, AddTaskAdds
  <2>. QED BY <1>1, <1>3, <2>1, <2>2 DEF LabelInv, Added
<1>6. CASE CopyTask
  <2>1. pc = "copy" /\ Stage = "upgrade"
    BY <1>6 DEF CopyTask, IInv, StageInv, Upgrading
  <2>. DEFINE entry == <<Task, Demos>>
  <2>2. entry[1] = Task /\ (Have(Task) => pool'.tasks = pool.tasks \cup {entry})
    BY <1>1, <1>6 DEF CopyTask, Pools
  <2>. HIDE DEF entry
  <2>. QED BY <1>1, <1>3, <2>1, <2>2 DEF Added, Ids
<1>7. CASE AddVariants
  <2>1. Stage \in {"spatial", "environment"}
    BY <1>7 DEF AddVariants, LabelInv
  <2>. DEFINE scenes == IF Stage = "spatial" THEN ScenesSpatial ELSE ScenesEnvironment
              some == SpatialOf(Task) \cup EnvironmentOf(Task)
              tried == New(Task, {Task} \X scenes)
  <2>2. pool'.variants = pool.variants \cup (tried \cap some)
    <3>1. pool' = [pool EXCEPT !.variants = @ \cup (tried \cap some)]
      BY <1>7 DEF AddVariants
    <3>. HIDE DEF tried, some
    <3>. QED BY <1>1, <3>1 DEF Pools
  <2>3. some \cap ({Task} \X scenes) \subseteq pool'.variants
    <3>. HIDE DEF some, scenes
    <3>. QED BY <2>2 DEF New
  <2>4. /\ Stage = "spatial" => SpatialOf(Task) \subseteq some \cap ({Task} \X scenes)
        /\ Stage = "environment" => EnvironmentOf(Task) \subseteq some \cap ({Task} \X scenes)
    BY DEF SpatialOf, EnvironmentOf
  <2>. QED BY <1>1, <1>3, <2>1, <2>3, <2>4 DEF Added
<1>. QED BY <1>2, <1>4, <1>5, <1>6, <1>7

(* What is due remains due, unless it is no task of the stage at hand, or  *)
(* has been added.                                                         *)
LEMMA DueNext ==
    ASSUME IInv, RestInv, LabelInv, Works, NEW k \in Nat, NEW t, Due(k, t)
    PROVE  \/ Due(k, t)'
           \/ /\ Len(stages) = k
              /\ \/ pc = "stage" /\ t \notin TasksOf(Stage)
                 \/ pc # "stage" /\ Added(t, pool')
<1>1. /\ stages # <<>> /\ stages \in Seq(StageNames)
      /\ \/ stages' = stages /\ pc' # "stage"
         \/ /\ stages' = Tail(stages) /\ pc' = "stage" /\ pc # "stage"
            /\ left = {}
  BY WorksShape DEF IInv, TypeOK
<1>2. Len(stages) \in Nat /\ Len(Tail(stages)) = Len(stages) - 1
  BY <1>1, StageAt
<1>3. CASE Len(stages) > k
  <2>1. Len(stages') = Len(stages) \/ (Len(stages') = Len(stages) - 1 /\ pc' = "stage")
    BY <1>1, <1>2
  <2>. DEFINE n == Len(stages)
              m == Len(stages')
  <2>2. n \in Nat /\ n > k /\ (m = n \/ (m = n - 1 /\ pc' = "stage"))
    BY <1>2, <1>3, <2>1
  <2>. HIDE DEF n, m
  <2>3. m > k \/ (m = k /\ pc' = "stage")
    BY <2>2
  <2>. QED BY <2>3 DEF Due, m
<1>4. CASE Len(stages) = k /\ pc = "stage"
  <2>1. stages' = stages /\ left' = TasksOf(Stage)
    BY <1>1, <1>4 DEF Works, BeginStage, SkipTask, ImportTask, WriteDemo, DemosWritten,
       TasksDone, AddVariants, VariantsDone, CopyTask, CopyVariants, Finalize, Save, Saves
  <2>. QED BY <1>4, <2>1 DEF Due
<1>5. CASE Len(stages) = k /\ pc # "stage" /\ t \in left
  <2>1. stages' = stages
    BY <1>1, <1>5
  <2>2. CASE t \in left'
    BY <1>5, <2>1, <2>2 DEF Due
  <2>3. CASE t \notin left'
    BY <1>5, <2>3, WorksAdd
  <2>. QED BY <2>2, <2>3
<1>. QED BY <1>2, <1>3, <1>4, <1>5 DEF Due

(* A source is due until its stage, which is no loop over variants and no  *)
(* set of generated drawings, has entered it.                              *)
LEMMA SourceDueNext ==
    ASSUME IInv, RestInv, LabelInv, Works, NEW k \in Nat, SourceDue(k)
    PROVE  \/ SourceDue(k)'
           \/ /\ Len(stages) = k /\ pc # "save stage"
              /\ \/ Stage \in {"spatial", "environment", "generate-draw"}
                 \/ stages' = stages /\ pc' = "save stage"
<1>1. /\ stages # <<>> /\ stages \in Seq(StageNames)
      /\ \/ stages' = stages /\ pc' # "stage"
         \/ stages' = Tail(stages) /\ pc' = "stage" /\ pc # "stage"
  BY WorksShape DEF IInv, TypeOK
<1>2. Len(stages) \in Nat /\ Len(Tail(stages)) = Len(stages) - 1
  BY <1>1, StageAt
<1>3. CASE Len(stages) > k
  <2>1. Len(stages') = Len(stages) \/ (Len(stages') = Len(stages) - 1 /\ pc' = "stage")
    BY <1>1, <1>2
  <2>. DEFINE n == Len(stages)
              m == Len(stages')
  <2>2. n \in Nat /\ n > k /\ (m = n \/ (m = n - 1 /\ pc' = "stage"))
    BY <1>2, <1>3, <2>1
  <2>. HIDE DEF n, m
  <2>3. m > k \/ (m = k /\ pc' = "stage")
    BY <2>2
  <2>. QED BY <2>3 DEF SourceDue, m
<1>4. CASE Len(stages) = k /\ pc # "save stage"
  <2>1. CASE stages' = stages
    BY <1>4, <2>1 DEF SourceDue
  <2>2. CASE stages' = Tail(stages) /\ pc' = "stage" /\ pc # "stage"
    <3>1. Tail(stages) # stages
      BY <1>2
    <3>2. TasksDone \/ VariantsDone
      BY <1>4, <2>2, <3>1 DEF Works, BeginStage, SkipTask, ImportTask, WriteDemo,
         DemosWritten, AddVariants, CopyTask, CopyVariants, Finalize, Save, Saves
    <3>3. Stage \in {"spatial", "environment", "generate-draw"}
      BY <2>2, <3>1, <3>2 DEF TasksDone, VariantsDone, LabelInv
    <3>. QED BY <1>4, <3>3
  <2>. QED BY <1>1, <2>1, <2>2
<1>. QED BY <1>2, <1>3, <1>4 DEF SourceDue

(* When the stage "base" or "draw" comes to save, its source is in.        *)
LEMMA SourceEnters ==
    ASSUME IInv, SealInv, LabelInv, Works, pc # "save stage", pc' = "save stage"
    PROVE  /\ Stage = "base" => "libero" \in pool'.sources
           /\ Stage = "draw" => "drawanything" \in pool'.sources
<1>1. pool \in Pools
  BY DEF IInv, TypeOK
<1>2. TasksDone \/ CopyVariants \/ Finalize \/ (Save /\ pc # "save")
  BY DEF Works, BeginStage, SkipTask, ImportTask, WriteDemo, DemosWritten,
     AddVariants, VariantsDone, CopyTask, AfterTask
<1>3. CASE TasksDone
  <2>1. Stage = "base" => pool' = [pool EXCEPT !.sources = @ \cup {"libero"}]
    BY <1>3 DEF TasksDone, Source
  <2>2. Stage # "draw"
    BY <1>3 DEF TasksDone
  <2>. QED BY <1>1, <2>1, <2>2 DEF Pools
<1>4. CASE CopyVariants \/ Finalize
  BY <1>4 DEF CopyVariants, Finalize, IInv, StageInv, Upgrading, SealInv
<1>5. CASE Save /\ pc # "save"
  <2>1. pc = "save drawings"
    BY <1>5 DEF Save, Saves
  <2>. QED BY <1>5, <2>1, SavedSame DEF IInv, LabelInv
<1>. QED BY <1>2, <1>3, <1>4, <1>5

(* The steps of a build of all stages.                                     *)
LEMMA AllStays ==
    ASSUME IInv, KnownInv, SealInv, RestInv, LabelInv, Works, ended = Stages, AllInv
    PROVE  AllInv'
<1>1. /\ stages # <<>> /\ stages \in Seq(StageNames) /\ world' = world
  BY WorksShape DEF IInv, TypeOK
<1>2. /\ Len(stages) = 6 => Stage = "base"
      /\ Len(stages) = 5 => Stage = "spatial"
      /\ Len(stages) = 4 => Stage = "environment"
      /\ Len(stages) = 3 => Stage = "object"
      /\ Len(stages) \in Nat /\ Len(stages) >= 1 /\ Len(stages) <= 6
  BY <1>1, StageAt
<1>3. Stage # "upgrade"
  BY <1>1, StageAt
<1>4. /\ Ids(pool) \subseteq Ids(pool') /\ pool.variants \subseteq pool'.variants
      /\ pool.sources \subseteq pool'.sources
  BY <1>3, WorksGrow DEF CopyVariants, IInv, StageInv, Upgrading
<1>5. ASSUME NEW t \in Bases, Have(t) PROVE t \in Ids(pool') \/ Due(6, t)'
  <2>1. CASE Due(6, t)
    <3>1. Stage = "base" => TasksOf(Stage) = Bases
      BY DEF TasksOf
    <3>. QED BY <1>2, <1>5, <2>1, <3>1, DueNext DEF Added, Sound
  <2>. QED BY <1>4, <1>5, <2>1 DEF AllInv
<1>6. ASSUME NEW t \in Bases, Have(t), Len(stages) \in {4, 5} PROVE t \in Ids(pool)
  <2>. DEFINE n == Len(stages)
  <2>1. ~(n > 6) /\ n # 6
    <3>1. n = 4 \/ n = 5
      BY <1>6
    <3>. HIDE DEF n
    <3>. QED BY <3>1
  <2>2. ~Due(6, t)
    BY <2>1 DEF Due
  <2>. QED BY <1>6, <2>2 DEF AllInv
<1>7. Stage \in {"spatial", "environment"} => TasksOf(Stage) = Bases \cap Ids(pool)
  BY DEF TasksOf
<1>8. ASSUME NEW t \in Bases, Have(t)
      PROVE  SpatialOf(t) \subseteq pool'.variants \/ Due(5, t)'
  <2>1. CASE Due(5, t)
    BY <1>2, <1>6, <1>7, <1>8, <2>1, DueNext DEF Added
  <2>. QED BY <1>4, <1>8, <2>1 DEF AllInv
<1>9. ASSUME NEW t \in Bases, Have(t)
      PROVE  EnvironmentOf(t) \subseteq pool'.variants \/ Due(4, t)'
  <2>1. CASE Due(4, t)
    BY <1>2, <1>6, <1>7, <1>9, <2>1, DueNext DEF Added
  <2>. QED BY <1>4, <1>9, <2>1 DEF AllInv
<1>10. ASSUME NEW t \in Gens \ Made, Sound(t) PROVE t \in Ids(pool') \/ Due(3, t)'
  <2>1. CASE Due(3, t)
    <3>1. Stage = "object" => TasksOf(Stage) = Gens \ Made
      BY DEF TasksOf
    <3>. QED BY <1>2, <1>10, <2>1, <3>1, DueNext DEF Added
  <2>. QED BY <1>4, <1>10, <2>1 DEF AllInv
<1>11. "libero" \in pool'.sources \/ SourceDue(6)'
  <2>1. CASE SourceDue(6)
    BY <1>2, <2>1, SourceDueNext, SourceEnters
  <2>. QED BY <1>4, <2>1 DEF AllInv
<1>. QED BY <1>1, <1>5, <1>8, <1>9, <1>10, <1>11, SourcesStay DEF AllInv, Ids

(* The drawings, which come last but one.                                  *)
LEMMA DrawStays ==
    ASSUME IInv, KnownInv, SealInv, RestInv, LabelInv, Works,
           ended \in {Stages, UpgradeStages}, DrawInv
    PROVE  DrawInv'
<1>1. /\ stages # <<>> /\ stages \in Seq(StageNames) /\ world' = world
  BY WorksShape DEF IInv, TypeOK
<1>2. Len(stages) = 2 => Stage = "draw"
  BY <1>1, StageAt
<1>3. Ids(pool) \subseteq Ids(pool')
  BY WorksGrow
<1>4. ASSUME NEW t \in Drawings \ Made, Sound(t) PROVE t \in Ids(pool') \/ Due(2, t)'
  <2>1. CASE Due(2, t)
    <3>1. Stage = "draw" => TasksOf(Stage) = Drawings \ Made
      BY DEF TasksOf
    <3>. QED BY <1>2, <1>4, <2>1, <3>1, DueNext DEF Added
  <2>. QED BY <1>3, <1>4, <2>1 DEF DrawInv
<1>5. "drawanything" \in pool'.sources \/ SourceDue(2)'
  <2>1. CASE SourceDue(2)
    BY <1>2, <2>1, SourceDueNext, SourceEnters
  <2>2. CASE ~SourceDue(2)
    <3>1. "drawanything" \in pool.sources
      BY <2>2 DEF DrawInv
    <3>2. ~CopyVariants
      <4>1. Upgrading => Len(stages) > 2
        BY <1>1, StageAt DEF Upgrading, Stages, UpgradeStages
      <4>2. CopyVariants => Upgrading
        BY DEF CopyVariants, IInv, StageInv
      <4>. QED BY <2>2, <4>1, <4>2 DEF SourceDue
    <3>. QED BY <3>1, <3>2, WorksGrow
  <2>. QED BY <2>1, <2>2
<1>. QED BY <1>1, <1>4, <1>5, SourcesStay DEF DrawInv, Ids

(* The task at hand is all that a step may add; a drawing enters with all  *)
(* its demonstrations, and so does what an upgrade takes over.             *)
LEMMA WorksNew ==
    ASSUME IInv, Works
    PROVE  /\ \A t \in Ids(pool') :
                 t \in Ids(pool) \/ (t \in left /\ pc \in {"tasks", "demos", "copy"})
           /\ Full(pool) /\ (pc \in {"tasks", "demos"} => left \subseteq Drawings)
                => Full(pool')
<1>1. pool \in Pools
  BY DEF IInv, TypeOK
<1>. DEFINE entry == <<Task, Listed(Task)>>
            copied == <<Task, Demos>>
<1>2. \/ pool'.tasks = pool.tasks
      \/ /\ Task \in left /\ pc \in {"tasks", "demos"}
         /\ pool'.tasks = pool.tasks \cup {entry}
         /\ Task \in Drawings => Listed(Task) = Demos
      \/ Task \in left /\ pc = "copy" /\ pool'.tasks = pool.tasks \cup {copied}
  <2>1. CASE ImportTask \/ DemosWritten
    <3>1. Task \in left /\ pc \in {"tasks", "demos"}
      BY <2>1, TaskIsLeft DEF ImportTask, DemosWritten, IInv, TypeOK, StageInv
    <3>2. pool' = pool \/ AddTask
      BY <2>1 DEF ImportTask, DemosWritten
    <3>3. pool'.tasks = pool.tasks \/ (AddTask /\ pool'.tasks = pool.tasks \cup {entry})
      BY <1>1, <3>2 DEF AddTask, Pools
    <3>4. ASSUME Task \in Drawings PROVE pool' = pool \/ Listed(Task) = Demos
      <4>1. ImportTask => pool' = pool
        BY <3>4 DEF ImportTask
      <4>2. DemosWritten => demos[Task] = Demos /\ Task \notin torn
        BY DEF DemosWritten, IInv, StageInv
      <4>. QED BY <2>1, <4>1, <4>2, NumbersAssumption DEF Listed
    <3>. HIDE DEF entry
    <3>. QED BY <3>1, <3>3, <3>4
  <2>2. CASE CopyTask
    <3>1. Task \in left /\ pc = "copy"
      BY <2>2, TaskIsLeft DEF CopyTask, IInv, TypeOK
    <3>2. pool'.tasks = pool.tasks \/ pool'.tasks = pool.tasks \cup {copied}
      BY <1>1, <2>2 DEF CopyTask, Pools
    <3>. HIDE DEF copied
    <3>. QED BY <3>1, <3>2
  <2>3. CASE BeginStage \/ SkipTask \/ WriteDemo \/ VariantsDone
    BY <2>3 DEF BeginStage, SkipTask, WriteDemo, VariantsDone
  <2>4. CASE TasksDone \/ CopyVariants
    BY <1>1, <2>4 DEF TasksDone, CopyVariants, Pools
  <2>5. CASE AddVariants
    <3>1. PICK more : pool' = [pool EXCEPT !.variants = @ \cup more]
      BY <2>5 DEF AddVariants
    <3>. QED BY <1>1, <3>1 DEF Pools
  <2>6. CASE Finalize
    <3>. DEFINE judged == [pool EXCEPT !.eligible = Eligible(pool)]
    <3>1. judged.tasks = pool.tasks
          /\ DOMAIN judged = {"tasks", "variants", "sources", "eligible", "id"}
      BY <1>1 DEF Pools
    <3>2. pool' = [judged EXCEPT !.id = Content(judged)]
      BY <2>6 DEF Finalize, Sealed
    <3>. HIDE DEF judged
    <3>3. pool'.tasks = judged.tasks
      BY <3>1, <3>2
    <3>. QED BY <3>1, <3>3
  <2>7. CASE Save /\ pc # "save"
    BY <2>7, SavedSame DEF IInv
  <2>. QED BY <2>1, <2>2, <2>3, <2>4, <2>5, <2>6, <2>7 DEF Works
<1>3. entry[1] = Task /\ entry[2] = Listed(Task) /\ copied[1] = Task /\ copied[2] = Demos
  OBVIOUS
<1>. HIDE DEF entry, copied
<1>. QED BY <1>2, <1>3 DEF Ids, Full

(* The steps of an upgrade.                                                *)
LEMMA UpgradeStays ==
    ASSUME IInv, KnownInv, SealInv, RestInv, LabelInv, Works,
           ended = UpgradeStages, UpgradeInv
    PROVE  UpgradeInv'
<1>1. /\ stages # <<>> /\ stages \in Seq(StageNames) /\ world' = world
      /\ \/ stages' = stages /\ pc' # "stage"
         \/ stages' = Tail(stages) /\ pc' = "stage" /\ left' = {}
  BY WorksShape DEF IInv, TypeOK
<1>. DEFINE n == Len(stages)
            m == Len(stages')
<1>2. /\ n = 3 => Stage = "upgrade"
      /\ n = 2 => Stage = "draw"
      /\ n = 1 => Stage = "finalize"
      /\ n = 1 \/ n = 2 \/ n = 3
      /\ \/ stages' = stages /\ m = n /\ pc' # "stage"
         \/ m = n - 1 /\ pc' = "stage" /\ left' = {}
  <2>1. /\ n \in Nat /\ n >= 1 /\ n <= 3 /\ Len(Tail(stages)) = n - 1
        /\ n = 3 => Stage = "upgrade"
        /\ n = 2 => Stage = "draw"
        /\ n = 1 => Stage = "finalize"
    BY <1>1, StageAt
  <2>2. m = n \/ m = n - 1
    BY <1>1, <2>1
  <2>3. stages' = Tail(stages) => m = n - 1
    BY <2>1
  <2>4. stages' = stages => m = n
    OBVIOUS
  <2>. HIDE DEF n, m
  <2>5. n = 1 \/ n = 2 \/ n = 3
    BY <2>1
  <2>. QED BY <1>1, <2>1, <2>3, <2>4, <2>5
<1>3. Ids(pool) \subseteq Ids(pool')
  BY WorksGrow
<1>4. OldTasks' = OldTasks
  BY <1>1 DEF OldTasks, Builds
<1>5. ASSUME NEW t \in OldTasks, Have(t) PROVE t \in Ids(pool') \/ Due(3, t)'
  <2>1. CASE Due(3, t)
    <3>1. Stage = "upgrade" => TasksOf(Stage) = OldTasks
      BY DEF TasksOf
    <3>. QED BY <1>2, <1>5, <2>1, <3>1, DueNext DEF Added
  <2>. QED BY <1>3, <1>5, <2>1 DEF UpgradeInv
<1>6. pc \in {"tasks", "demos"} => n = 2 /\ left \subseteq Drawings \ Made
  <2>1. pc \in {"tasks", "demos"} => Stage = "draw"
    BY <1>2 DEF LabelInv
  <2>2. n = 2 /\ pc # "stage" => left \subseteq Drawings \ Made
    BY DEF UpgradeInv
  <2>. HIDE DEF n
  <2>. QED BY <1>2, <2>1, <2>2
<1>7. pc = "copy" => n = 3 /\ left \subseteq OldTasks
  <2>1. pc = "copy" => Stage = "upgrade" /\ left \subseteq OldTasks
    BY DEF IInv, StageInv, Upgrading
  <2>. HIDE DEF n
  <2>. QED BY <1>2, <2>1
<1>8. Full(pool') /\ Ids(pool') \cap Made = {}
  <2>1. Full(pool) /\ Ids(pool) \cap Made = {}
    BY DEF UpgradeInv
  <2>2. OldTasks \cap Made = {}
    BY DEF OldTasks
  <2>. QED BY <1>6, <1>7, <2>1, <2>2, WorksNew
<1>9. \/ m = 3 /\ pc' \in {"stage", "copy"}
      \/ /\ \A t \in Bases \cap Ids(pool') : VariantsOf(t) \subseteq pool'.variants
         /\ {"libero", "upgraded_from"} \subseteq pool'.sources
  <2>1. CASE CopyVariants
    <3>1. /\ pool'.tasks = pool.tasks /\ pool'.variants = OldVariants
          /\ pool'.sources = {"libero", "upgraded_from"}
      BY <2>1 DEF CopyVariants, IInv, TypeOK, Pools
    <3>2. \A t \in Bases \cap Ids(pool) : VariantsOf(t) \subseteq OldVariants
      BY DEF OldVariants, VariantsOf
    <3>. QED BY <3>1, <3>2 DEF Ids
  <2>2. CASE n = 3 /\ pc \in {"stage", "copy"} /\ ~CopyVariants
    <3>1. BeginStage \/ CopyTask
      BY <2>2 DEF Works, SkipTask, ImportTask, WriteDemo, DemosWritten, TasksDone,
         AddVariants, VariantsDone, Finalize, Save, Saves
    <3>2. stages' = stages /\ pc' = "copy"
      BY <1>2, <2>2, <3>1 DEF BeginStage, CopyTask
    <3>. QED BY <2>2, <3>2
  <2>3. CASE ~(n = 3 /\ pc \in {"stage", "copy"}) /\ ~CopyVariants
    <3>1. /\ \A t \in Bases \cap Ids(pool) : VariantsOf(t) \subseteq pool.variants
          /\ {"libero", "upgraded_from"} \subseteq pool.sources
      BY <2>3 DEF UpgradeInv
    <3>2. pool.variants \subseteq pool'.variants /\ pool.sources \subseteq pool'.sources
      BY <2>3, WorksGrow
    <3>3. Bases \cap Ids(pool') \subseteq Ids(pool)
      <4>1. pc # "copy"
        BY <1>7, <2>3
      <4>. QED BY <1>6, <4>1, WorksNew, TasksAssumption
    <3>. QED BY <3>1, <3>2, <3>3
  <2>. QED BY <2>1, <2>2, <2>3
<1>10. m = 2 /\ pc' # "stage" => left' \subseteq Drawings \ Made
  <2>1. SUFFICES ASSUME m = 2, pc' # "stage" PROVE left' \subseteq Drawings \ Made
    OBVIOUS
  <2>2. n = 2 /\ Stage = "draw"
    BY <1>2, <2>1
  <2>3. CASE pc = "stage"
    <3>1. left' = TasksOf(Stage)
      BY <2>3, <1>1 DEF Works, BeginStage, SkipTask, ImportTask, WriteDemo, DemosWritten,
         TasksDone, AddVariants, VariantsDone, CopyTask, CopyVariants, Finalize, Save, Saves
    <3>. QED BY <2>2, <3>1 DEF TasksOf
  <2>4. CASE pc # "stage"
    <3>1. left' \subseteq left
      BY <2>4 DEF Works, BeginStage, SkipTask, ImportTask, WriteDemo, DemosWritten,
         TasksDone, AddVariants, VariantsDone, CopyTask, CopyVariants, Finalize, Save,
         AddTask
    <3>2. left \subseteq Drawings \ Made
      BY <2>2, <2>4 DEF UpgradeInv
    <3>. QED BY <3>1, <3>2
  <2>. QED BY <2>3, <2>4
<1>11. \A t : VariantsOf(t)' = VariantsOf(t) /\ (Have(t)' <=> Have(t))
  BY <1>1, SourcesStay
<1>12. \A t \in OldTasks' : Have(t)' => t \in Ids(pool)' \/ Due(3, t)'
  BY <1>4, <1>5, <1>11 DEF Ids
<1>13. /\ Full(pool)' /\ Ids(pool)' \cap Made = {}
       /\ \/ m = 3 /\ pc' \in {"stage", "copy"}
          \/ /\ \A t \in Bases \cap Ids(pool)' : VariantsOf(t)' \subseteq pool'.variants
             /\ {"libero", "upgraded_from"} \subseteq pool'.sources
  BY <1>8, <1>9, <1>11 DEF Ids, Full
<1>. QED BY <1>10, <1>12, <1>13 DEF UpgradeInv

(* When no stage is left nothing is due.                                   *)
LEMMA NothingDue ==
    ASSUME KnownInv, stages = <<>>, ended \in {Stages, UpgradeStages},
           ended = Stages => AllInv, ended = UpgradeStages => UpgradeInv, DrawInv
    PROVE  Finds(pool) /\ (ended = UpgradeStages => Upgraded(pool))
<1>1. Len(stages) = 0
  OBVIOUS
<1>2. \A t : ~Due(2, t) /\ ~Due(3, t) /\ ~Due(4, t) /\ ~Due(5, t) /\ ~Due(6, t)
  BY <1>1 DEF Due
<1>3. ~SourceDue(2) /\ ~SourceDue(6)
  BY <1>1 DEF SourceDue
<1>4. Stages # UpgradeStages
  BY DEF Stages, UpgradeStages
<1>5. \A t \in Bases \cap Ids(pool) : Have(t)
  BY DEF KnownInv, Known, Sound
<1>6. CASE ended = Stages
  <2>1. \A t \in Tasks : Sound(t) /\ t \notin Made => t \in Ids(pool)
    BY <1>2, <1>6 DEF AllInv, DrawInv, Tasks, Sound
  <2>2. \A t \in Bases \cap Ids(pool) : VariantsOf(t) \subseteq pool.variants
    BY <1>2, <1>5, <1>6 DEF AllInv, VariantsOf
  <2>3. {"libero", "drawanything"} \subseteq pool.sources
    BY <1>3, <1>6 DEF AllInv, DrawInv
  <2>. QED BY <1>4, <1>6, <2>1, <2>2, <2>3 DEF Finds
<1>7. CASE ended = UpgradeStages
  <2>1. ~(Len(stages) = 3)
    BY <1>1
  <2>2. \A t \in Tasks : Sound(t) /\ t \notin Made => t \in Ids(pool)
    BY <1>2, <1>7 DEF UpgradeInv, DrawInv, Tasks, Sound, OldTasks
  <2>3. \A t \in Bases \cap Ids(pool) : VariantsOf(t) \subseteq pool.variants
    BY <1>7, <2>1 DEF UpgradeInv
  <2>4. {"libero", "drawanything", "upgraded_from"} \subseteq pool.sources
    BY <1>3, <1>7, <2>1 DEF UpgradeInv, DrawInv
  <2>. QED BY <1>7, <2>2, <2>3, <2>4 DEF Finds, Upgraded, UpgradeInv
<1>. QED BY <1>6, <1>7

(* At the start of a build all is due.                                     *)
LEMMA BuildOpen == Open => BuildInv'
<1>. SUFFICES ASSUME Open PROVE BuildInv'
  OBVIOUS
<1>1. stages' = ended' /\ pc' = "stage"
  BY DEF Open
<1>2. ended' = Stages => Len(stages') = 6
  BY <1>1 DEF Stages
<1>3. ended' = UpgradeStages =>
         /\ Len(stages') = 3
         /\ pool' = Empty
  BY <1>1 DEF Open, UpgradeStages
<1>4. ended' = Stages =>
         \A t : Due(2, t)' /\ Due(3, t)' /\ Due(4, t)' /\ Due(5, t)' /\ Due(6, t)'
  BY <1>1, <1>2 DEF Due
<1>5. ended' = UpgradeStages => \A t : Due(2, t)' /\ Due(3, t)'
  BY <1>1, <1>3 DEF Due
<1>6. /\ ended' = Stages => SourceDue(2)' /\ SourceDue(6)'
      /\ ended' = UpgradeStages => SourceDue(2)'
  <2>. DEFINE n == Len(stages')
  <2>1. pc' # "save stage"
    BY <1>1
  <2>. HIDE DEF n
  <2>2. (n = 6 \/ n = 3) => n > 2
    OBVIOUS
  <2>3. (n = 6 \/ n = 3) => SourceDue(2)'
    BY <2>1, <2>2, Zenon DEF SourceDue, n
  <2>4. n = 6 => SourceDue(6)'
    BY <2>1, Zenon DEF SourceDue, n
  <2>. QED BY <1>2, <1>3, <2>3, <2>4 DEF n
<1>7. ended' = Stages => AllInv'
  BY <1>4, <1>6 DEF AllInv
<1>8. ended' = UpgradeStages => UpgradeInv'
  <2>1. SUFFICES ASSUME ended' = UpgradeStages PROVE UpgradeInv'
    OBVIOUS
  <2>2. pool'.tasks = {}
    BY <1>3, <2>1 DEF Empty
  <2>. QED BY <1>1, <1>3, <1>5, <2>1, <2>2 DEF UpgradeInv, Full, Ids
<1>9. ended' \in {Stages, UpgradeStages} => DrawInv'
  BY <1>4, <1>5, <1>6 DEF DrawInv
<1>. QED BY <1>1, <1>7, <1>8, <1>9 DEF BuildInv

(* A build that has stages of its own saves what it has once more.         *)
LEMMA BuildClose ==
    ASSUME IInv, KnownInv, BuildInv, Close
    PROVE  BuildInv'
<1>1. /\ world' = world /\ ended' = ended /\ stages' = stages /\ left' = left
      /\ pc = "stage" /\ stages = <<>> /\ Len(stages) = 0
      /\ IF Head(ended) \in {"generate", "generate-draw"} THEN pc' = "off"
         ELSE pc' = "save" /\ pool' = pool
  BY DEF Close
<1>2. ASSUME ended \in {Stages, UpgradeStages} PROVE pc' = "save" /\ pool' = pool
  <2>1. Head(ended) \in {"base", "upgrade"}
    BY <1>2 DEF Stages, UpgradeStages
  <2>. QED BY <1>1, <2>1
<1>3. ended \notin {Stages, UpgradeStages} => BuildInv'
  BY <1>1 DEF BuildInv
<1>4. ASSUME ended \in {Stages, UpgradeStages} PROVE BuildInv'
  <2>1. \A t : /\ Due(2, t)' <=> Due(2, t)
               /\ Due(3, t)' <=> Due(3, t)
               /\ Due(4, t)' <=> Due(4, t)
               /\ Due(5, t)' <=> Due(5, t)
               /\ Due(6, t)' <=> Due(6, t)
    BY <1>1 DEF Due
  <2>2. (SourceDue(2)' <=> SourceDue(2)) /\ (SourceDue(6)' <=> SourceDue(6))
    BY <1>1 DEF SourceDue
  <2>3. Ids(pool)' = Ids(pool) /\ pool' = pool /\ OldTasks' = OldTasks
    BY <1>1, <1>2, <1>4 DEF Ids, OldTasks, Builds
  <2>4. \A t : /\ (Have(t)' <=> Have(t)) /\ (Sound(t)' <=> Sound(t))
               /\ SpatialOf(t)' = SpatialOf(t) /\ EnvironmentOf(t)' = EnvironmentOf(t)
               /\ VariantsOf(t)' = VariantsOf(t)
    BY <1>1, SourcesStay
  <2>5. AllInv => AllInv'
    BY <2>1, <2>2, <2>3, <2>4 DEF AllInv
  <2>6. DrawInv => DrawInv'
    BY <2>1, <2>2, <2>3, <2>4 DEF DrawInv
  <2>7. UpgradeInv => UpgradeInv'
    BY <1>1, <2>1, <2>3, <2>4 DEF UpgradeInv, Full
  <2>. QED BY <1>1, <1>2, <1>4, <2>5, <2>6, <2>7 DEF BuildInv
<1>. QED BY <1>3, <1>4

(* What such a build saves last has all that it is to have.                *)
LEMMA BuildEnds ==
    ASSUME IInv, KnownInv, SealInv, BuildInv, Save, pc = "save"
    PROVE  BuildInv'
<1>1. /\ world' = world /\ ended' = ended /\ pc' = "off" /\ stages = <<>>
  BY DEF Save, SealInv
<1>2. ended \in {Stages, UpgradeStages} =>
         Finds(pool) /\ (ended = UpgradeStages => Upgraded(pool))
  <2>1. SUFFICES ASSUME ended \in {Stages, UpgradeStages}
        PROVE  Finds(pool) /\ (ended = UpgradeStages => Upgraded(pool))
    OBVIOUS
  <2>2. /\ ended = Stages => AllInv
        /\ ended = UpgradeStages => UpgradeInv
        /\ DrawInv
    BY <2>1 DEF BuildInv
  <2>. QED BY <1>1, <2>1, <2>2, NothingDue
<1>3. /\ json' \in Pools /\ json'.tasks = pool.tasks /\ json'.variants = pool.variants
      /\ json'.sources = pool.sources
  BY SavedSame DEF IInv
<1>4. \A t : (Sound(t)' <=> Sound(t)) /\ VariantsOf(t)' = VariantsOf(t)
  BY <1>1, SourcesStay
<1>5. Finds(pool) => Finds(json)'
  BY <1>3, <1>4 DEF Finds, Ids
<1>6. Upgraded(pool) => Upgraded(json)'
  BY <1>3 DEF Upgraded, Full, Ids
<1>7. (json \in Pools)'
  BY <1>3
<1>. QED BY <1>1, <1>2, <1>5, <1>6, <1>7 DEF BuildInv

(* No step loses what its build is to have.                              *)
LEMMA BuildInductive ==
    ASSUME IInv, KnownInv, SealInv, RestInv, LabelInv, BuildInv, [Next]_vars
    PROVE  BuildInv'
<1>1. CASE Works
  <2>1. ended' = ended /\ pc # "off" /\ pc' # "off"
    BY <1>1, WorksShape
  <2>. QED BY <1>1, <2>1, AllStays, UpgradeStays, DrawStays DEF BuildInv
<1>2. CASE Discard \/ Crash
  <2>1. ended' = <<>> /\ pc' = "off"
    BY <1>2 DEF Discard, Crash
  <2>2. <<>> \notin {Stages, UpgradeStages}
    BY DEF Stages, UpgradeStages
  <2>. QED BY <2>1, <2>2 DEF BuildInv
<1>3. CASE UNCHANGED vars
  BY <1>3, SourcesStay DEF vars, disk, BuildInv, AllInv, UpgradeInv, DrawInv, Due,
     SourceDue, Finds, Upgraded, Full, Ids, OldTasks, Builds
<1>. QED BY <1>1, <1>2, <1>3, BuildOpen, BuildClose, BuildEnds DEF Next, Works

(* At first no build has ended.                                          *)
LEMMA BuildInit == Init => BuildInv
<1>1. <<>> \notin {Stages, UpgradeStages}
  BY DEF Stages, UpgradeStages
<1>. QED BY <1>1 DEF Init, BuildInv

(* What a pool has that holds and lacks nothing of its sources.            *)
LEMMA ReferenceReached ==
    ASSUME json \in Pools, Served(json), Known(json), Full(json), Finds(json),
           NEW upgraded, NEW generated,
           upgraded = json.sources \cap {"upgraded_from"},
           generated \cap Made = Ids(json) \cap Made
    PROVE  json = Sealed(Reference(upgraded, generated))
<1>. DEFINE sound == {t \in Tasks : /\ Have(t) /\ (t \in Bases \/ Builds(t))
                                    /\ t \in Made => t \in generated}
            tasks == {<<t, Demos>> : t \in sound}
            variants == UNION {SpatialOf(t) \cup EnvironmentOf(t) :
                                  t \in sound \cap Bases}
            sources == {"libero", "drawanything"} \cup upgraded
            p == [Empty EXCEPT !.tasks = tasks, !.variants = variants,
                               !.sources = sources]
            r == [p EXCEPT !.eligible = Eligible(p)]
<1>1. Reference(upgraded, generated) = r
  BY DEF Reference
<1>2. sound = Ids(json)
  <2>1. Ids(json) \subseteq Tasks
    BY DEF Pools, Ids
  <2>2. ASSUME NEW t \in Ids(json) PROVE t \in sound
    BY <2>1, <2>2 DEF Known, Sound
  <2>3. ASSUME NEW t \in sound PROVE t \in Ids(json)
    BY <2>3 DEF Finds, Sound
  <2>. QED BY <2>2, <2>3
<1>3. json.tasks = tasks
  <2>. HIDE DEF sound
  <2>1. ASSUME NEW e \in json.tasks PROVE e \in tasks
    <3>1. e = <<e[1], e[2]>> /\ e[2] = Demos /\ e[1] \in Ids(json)
      BY DEF Pools, Full, Ids
    <3>. QED BY <1>2, <3>1
  <2>2. ASSUME NEW e \in tasks PROVE e \in json.tasks
    <3>1. PICK t \in sound : e = <<t, Demos>>
      OBVIOUS
    <3>2. PICK f \in json.tasks : t = f[1]
      BY <1>2 DEF Ids
    <3>3. f = <<f[1], f[2]>> /\ f[2] = Demos
      BY DEF Pools, Full
    <3>. QED BY <3>1, <3>2, <3>3
  <2>. QED BY <2>1, <2>2
<1>4. json.variants = variants
  <2>. HIDE DEF sound
  <2>. QED BY <1>2 DEF Known, Finds, VariantsOf
<1>5. json.sources = sources
  BY DEF Pools, Origins, Finds
<1>. HIDE DEF sound, tasks, variants, sources
<1>6. /\ p.tasks = tasks /\ p.variants = variants /\ p.sources = sources
      /\ p.id = NoId
      /\ DOMAIN p = {"tasks", "variants", "sources", "eligible", "id"}
  BY DEF Empty
<1>7. Eligible(p) = json.eligible
  BY <1>3, <1>4, <1>6, EligibleSame DEF Served
<1>. HIDE DEF p
<1>8. /\ r.tasks = json.tasks /\ r.variants = json.variants /\ r.sources = json.sources
      /\ r.eligible = json.eligible /\ r.id = NoId
      /\ DOMAIN r = {"tasks", "variants", "sources", "eligible", "id"}
      /\ r = [e \in DOMAIN r |-> r[e]]
  BY <1>3, <1>4, <1>5, <1>6, <1>7
<1>. HIDE DEF r
<1>9. Content(json) = Content(r)
  BY <1>8 DEF Content, Pools
<1>10. [r EXCEPT !.id = Content(r)] = json
  BY <1>8, <1>9 DEF Served, Pools
<1>. QED BY <1>1, <1>10 DEF Sealed

(* All stages, or an upgrade: the pool that is sealed is the reference.    *)
LEMMA ReproducibleFollows ==
    ASSUME {NoPool, Torn} \cap Pools = {}, IInv, SealInv, KnownInv, BuildInv PROVE Reproducible
<1>1. ASSUME Finished, ended \in {Stages, UpgradeStages}
      PROVE  /\ json \in Pools /\ Served(json) /\ Finds(json)
             /\ ended = UpgradeStages => Upgraded(json)
  BY <1>1 DEF Finished, Ends, SealInv, BuildInv
<1>2. ASSUME Finished, ended \in {Stages, UpgradeStages}
      PROVE  Known(json) /\ ("demos" \notin cut => Full(json))
  BY <1>1, <1>2 DEF Whole, KnownInv
<1>3. ASSUME Finished, ended = Stages, "demos" \notin cut
      PROVE  json = Sealed(Reference(json.sources \cap {"upgraded_from"}, Ids(json)))
  <2>. DEFINE upgraded == json.sources \cap {"upgraded_from"}
              generated == Ids(json)
  <2>1. /\ json \in Pools /\ Served(json) /\ Finds(json) /\ Known(json) /\ Full(json)
        /\ upgraded = json.sources \cap {"upgraded_from"}
        /\ generated \cap Made = Ids(json) \cap Made
    BY <1>1, <1>2, <1>3
  <2>. HIDE DEF upgraded, generated
  <2>2. json = Sealed(Reference(upgraded, generated))
    BY <2>1, ReferenceReached
  <2>. QED BY <2>2 DEF upgraded, generated
<1>4. ASSUME Finished, ended = UpgradeStages
      PROVE  json = Sealed(Reference({"upgraded_from"}, {}))
  <2>1. /\ "upgraded_from" \in json.sources /\ Ids(json) \cap Made = {} /\ Full(json)
    BY <1>1, <1>4 DEF Upgraded
  <2>. DEFINE upgraded == {"upgraded_from"}
              generated == {}
  <2>2. /\ json \in Pools /\ Served(json) /\ Finds(json) /\ Known(json) /\ Full(json)
        /\ upgraded = json.sources \cap {"upgraded_from"}
        /\ generated \cap Made = Ids(json) \cap Made
    BY <1>1, <1>2, <1>4, <2>1
  <2>. HIDE DEF upgraded, generated
  <2>3. json = Sealed(Reference(upgraded, generated))
    BY <2>2, ReferenceReached
  <2>. QED BY <2>3 DEF upgraded, generated
<1>. QED BY <1>3, <1>4 DEF Reproducible, UpgradeStages

(* Whatever builds went before, of whatever stages, and wherever they died,*)
(* a build of all stages seals one pool for the same sources, unless one   *)
(* died among the demonstrations of a task of LIBERO; and so does an       *)
(* upgrade with its drawings (pools/build.py, pools/upgrade.py).  Neither  *)
(* half a pool.json nor none is a whole one.                               *)
THEOREM ReproducibleHolds ==
    ASSUME {NoPool, Torn} \cap Pools = {} PROVE Spec => []Reproducible
<1>. DEFINE All == /\ IInv /\ SealInv /\ KnownInv /\ RestInv /\ LabelInv /\ BuildInv
<1>1. Init => All
  BY InitInv, SealInit, KnownInit, RestInit, BuildInit
<1>2. All /\ [Next]_vars => All'
  BY Inductive, SealInductive, KnownInductive, RestInductive, LabelInductive,
     BuildInductive
<1>3. All => Reproducible
  BY ReproducibleFollows
<1>. HIDE DEF All
<1>. QED BY <1>1, <1>2, <1>3, PTL DEF Spec
=============================================================================
