---------------------------- MODULE ResultStore ----------------------------
(***************************************************************************)
(* The signed result store and the processes that publish into it:         *)
(* `icilval daemon`, `icilval duel` and `icilval genesis`                  *)
(* (store/writer.py, daemon.py, duel/orchestrate.py, cli.py).              *)
(*                                                                         *)
(* A publication is four writes to disk, in this order: the clips, the     *)
(* event file, one line of the index, the head.  Each of them is atomic    *)
(* here; a process may fail or die between any two.  The daemon and        *)
(* `duel` hold the store's flock while they publish, `genesis` does not.   *)
(***************************************************************************)
EXTENDS Naturals, Sequences, FiniteSets

CONSTANTS
    Models,            \* submissions, a model being repo@revision
    NoModel,           \* None where a model is expected
    NoHead,            \* head.json does not exist
    NoProc,            \* nobody holds .validator.lock
    Daemons,           \* processes that run `icilval daemon`
    DuelCommands,      \* processes that run `icilval duel`
    GenesisCommands,   \* processes that run `icilval genesis`
    FreshStore,        \* TRUE when the store has no manifest yet
    Faults,            \* TRUE when a write can fail and a process can die
    MaxBlock,          \* bound: the daemons' blocks and the --block arguments
    MaxLines           \* bound: commands start only below this many records

Lockers == Daemons \cup DuelCommands
Writers == Lockers \cup GenesisCommands

ASSUME ModelsAssumption == NoModel \notin Models
ASSUME WritersAssumption ==
    /\ NoProc \notin Writers
    /\ Daemons \cap DuelCommands = {}
    /\ Daemons \cap GenesisCommands = {}
    /\ DuelCommands \cap GenesisCommands = {}
ASSUME SwitchesAssumption == FreshStore \in BOOLEAN /\ Faults \in BOOLEAN
ASSUME BoundsAssumption == MaxBlock \in Nat /\ MaxLines \in Nat

VARIABLES
    manifest,   \* manifest.json exists
    head,       \* head.json
    index,      \* the lines of index-NNNN.jsonl, in file order
    events,     \* events/{track}/*.json
    media,      \* the events whose clips are in media/
    qblock,     \* the block number saved in queue.json
    lock,       \* who holds the flock on .validator.lock
    pc,         \* where each process is
    rec,        \* the record each process is building
    mblock      \* the block number in each daemon's memory

store == <<manifest, head, index, events, media>>
vars == <<store, qblock, lock, pc, rec, mblock>>

ModelOrNone == Models \cup {NoModel}

Record == [kind : {"genesis", "duel"}, block : Nat, king : ModelOrNone,
           challenger : ModelOrNone, dethroned : BOOLEAN, seq : Nat]

BlankRecord == [kind |-> "duel", block |-> 0, king |-> NoModel,
                challenger |-> NoModel, dethroned |-> FALSE, seq |-> 0]

NewRecord(kind, block, king, challenger) ==
    [BlankRecord EXCEPT !.kind = kind, !.block = block,
                        !.king = king, !.challenger = challenger]

(* The event id is a hash of the kind, the block and the pair: who won is  *)
(* no part of it.                                                          *)
EventId(r) == <<r.kind, r.block, r.challenger, r.king>>
EventIds == {"genesis", "duel"} \X Nat \X ModelOrNone \X ModelOrNone
NoEvent == <<>>

(* Mutant: the head keeps the record's king. *)
KingAfterLost(r) == r.king

(* The king that append() puts in the head: new_king when there is one,    *)
(* else the record's own king, even if that is not the reigning one.       *)
KingAfter(r) == IF r.dethroned THEN r.challenger ELSE r.king

HeadFile == [seq : Nat, event : EventIds \cup {NoEvent}, king : ModelOrNone]
ASSUME NoHeadAssumption == NoHead \notin HeadFile
EmptyHead == [seq |-> 0, event |-> NoEvent, king |-> NoModel]

HeadSeq == IF head = NoHead THEN 0 ELSE head.seq
HeadKing == IF head = NoHead THEN NoModel ELSE head.king

(* Mutant: the number comes from the last line of the index. *)
NextSeqOfIndex == IF index = <<>> THEN 1 ELSE index[Len(index)].seq + 1

NextSeq == HeadSeq + 1
----------------------------------------------------------------------------
Init ==
    /\ manifest = ~FreshStore
    /\ head = IF FreshStore THEN NoHead ELSE EmptyHead
    /\ index = <<>> /\ events = {} /\ media = {}
    /\ qblock = 0 /\ lock = NoProc
    /\ pc = [w \in Writers |-> "off"]
    /\ rec = [w \in Writers |-> BlankRecord]
    /\ mblock = [w \in Writers |-> 0]

Goto(w, label) == pc' = [pc EXCEPT ![w] = label]

(* A command's process ends, which drops its flock; the daemon goes on to  *)
(* its next step and keeps it.                                             *)
Finish(w) ==
    /\ Goto(w, IF w \in Daemons THEN "ready" ELSE "off")
    /\ rec' = [rec EXCEPT ![w] = BlankRecord]
    /\ lock' = IF lock = w /\ w \notin Daemons THEN NoProc ELSE lock

(* Mutant: every process writes the first head. *)
BootAfresh(w) ==
    /\ pc[w] = "off"
    /\ Goto(w, "inithead")
    /\ UNCHANGED <<store, qblock, lock, rec, mblock>>

(* make_runtime(): a process that finds no manifest initialises the store, *)
(* before it holds any lock.                                               *)
Boot(w) ==
    /\ pc[w] = "off"
    /\ Goto(w, IF manifest THEN "booted" ELSE "init")
    /\ UNCHANGED <<store, qblock, lock, rec, mblock>>

WriteManifest(w) ==
    /\ pc[w] = "init"
    /\ manifest' = TRUE
    /\ Goto(w, IF head = NoHead THEN "inithead" ELSE "booted")
    /\ UNCHANGED <<head, index, events, media, qblock, lock, rec, mblock>>

WriteFirstHead(w) ==
    /\ pc[w] = "inithead"
    /\ head' = EmptyHead
    /\ Goto(w, "booted")
    /\ UNCHANGED <<manifest, index, events, media, qblock, lock, rec, mblock>>

(* cmd_daemon() builds its Queue from disk before Daemon.run() locks.      *)
LoadQueue(w) ==
    /\ w \in Daemons /\ pc[w] = "booted"
    /\ mblock' = [mblock EXCEPT ![w] = qblock]
    /\ Goto(w, "loaded")
    /\ UNCHANGED <<store, qblock, lock, rec>>

(* Mutant: the daemon does not notice that the lock is held. *)
StartDaemonUnlocked(w) ==
    /\ w \in Daemons /\ pc[w] = "loaded"
    /\ lock' = w
    /\ Goto(w, "ready")
    /\ UNCHANGED <<store, qblock, rec, mblock>>

StartDaemon(w) ==
    /\ w \in Daemons /\ pc[w] = "loaded"
    /\ lock = NoProc
    /\ lock' = w
    /\ Goto(w, "ready")
    /\ UNCHANGED <<store, qblock, rec, mblock>>

(* A second writer fails fast.                                             *)
LockRefused(w) ==
    /\ \/ w \in Daemons /\ pc[w] = "loaded"
       \/ w \in DuelCommands /\ pc[w] = "booted"
    /\ lock # NoProc
    /\ Goto(w, "off")
    /\ UNCHANGED <<store, qblock, lock, rec, mblock>>

(* `icilval duel --king K`: K is whatever the operator typed, or nobody,   *)
(* and so is --block.  The lock is taken for this one duel.                *)
StartDuel(w) ==
    /\ w \in DuelCommands /\ pc[w] = "booted"
    /\ lock = NoProc
    /\ Len(index) < MaxLines
    /\ lock' = w
    /\ Goto(w, "evaluating")
    /\ \E k \in ModelOrNone, m \in Models, b \in 1..MaxBlock :
         rec' = [rec EXCEPT ![w] = NewRecord("duel", b, k, m)]
    /\ UNCHANGED <<store, qblock, mblock>>

(* `icilval genesis --king K` asks neither the lock nor the throne.        *)
StartGenesis(w) ==
    /\ w \in GenesisCommands /\ pc[w] = "booted"
    /\ Len(index) < MaxLines
    /\ Goto(w, "evaluating")
    /\ \E k \in Models, b \in 1..MaxBlock :
         rec' = [rec EXCEPT ![w] = NewRecord("genesis", b, k, NoModel)]
    /\ UNCHANGED <<store, qblock, lock, mblock>>

(* Mutant: the block number is only kept in memory. *)
TakeEntryUnsaved(w) ==
    /\ w \in Daemons /\ pc[w] = "ready"
    /\ mblock[w] < MaxBlock
    /\ mblock' = [mblock EXCEPT ![w] = @ + 1]
    /\ \E m \in Models :
         \/ /\ HeadKing = NoModel
            /\ rec' = [rec EXCEPT ![w] =
                         NewRecord("genesis", mblock[w] + 1, m, NoModel)]
         \/ /\ HeadKing \notin {NoModel, m}
            /\ rec' = [rec EXCEPT ![w] =
                         NewRecord("duel", mblock[w] + 1, HeadKing, m)]
    /\ Goto(w, "evaluating")
    /\ UNCHANGED <<store, lock, qblock>>

(* One step of the daemon: the first entry m of its queue takes an empty   *)
(* throne or meets the king that the head names.  The block number is      *)
(* saved before anything is published under it.                            *)
TakeEntry(w) ==
    /\ w \in Daemons /\ pc[w] = "ready"
    /\ mblock[w] < MaxBlock
    /\ mblock' = [mblock EXCEPT ![w] = @ + 1]
    /\ qblock' = mblock[w] + 1
    /\ \E m \in Models :
         \/ /\ HeadKing = NoModel
            /\ rec' = [rec EXCEPT ![w] =
                         NewRecord("genesis", mblock[w] + 1, m, NoModel)]
         \/ /\ HeadKing \notin {NoModel, m}
            /\ rec' = [rec EXCEPT ![w] =
                         NewRecord("duel", mblock[w] + 1, HeadKing, m)]
    /\ Goto(w, "evaluating")
    /\ UNCHANGED <<store, lock>>

(* An empty queue, or the king's own resubmission, publishes nothing.      *)
Poll(w) == w \in Daemons /\ pc[w] = "ready" /\ UNCHANGED vars

(* Mutant: without scores the outcome is None instead of False. *)
EvaluateUnscored(w) ==
    /\ pc[w] = "evaluating"
    /\ rec' = [rec EXCEPT ![w].dethroned = NoModel]
    /\ media' = media \cup {EventId(rec[w])}
    /\ Goto(w, "event")
    /\ UNCHANGED <<manifest, head, index, events, qblock, lock, mblock>>

(* Mutant: the record is appended before its event is written. *)
EvaluateNoEvent(w) ==
    /\ pc[w] = "evaluating"
    /\ media' = media \cup {EventId(rec[w])}
    /\ Goto(w, "seq")
    /\ UNCHANGED <<manifest, head, index, events, qblock, lock, rec, mblock>>

(* The models are fetched and pass the check; then both sides of a duel    *)
(* run, their clips are stored and the crown is decided.  Against no king  *)
(* the challenger's average has nothing to clear.                          *)
Evaluate(w) ==
    /\ pc[w] = "evaluating"
    /\ \E wins \in BOOLEAN :
         /\ wins => rec[w].kind = "duel" /\ rec[w].king # NoModel
         /\ rec' = [rec EXCEPT ![w].dethroned = wins]
    /\ media' = IF rec[w].kind = "duel" THEN media \cup {EventId(rec[w])}
                ELSE media
    /\ Goto(w, "event")
    /\ UNCHANGED <<manifest, head, index, events, qblock, lock, mblock>>

(* The fetch, the check, a side's run, a wall or the void limit fails.     *)
DuelFails(w) ==
    /\ pc[w] = "evaluating"
    /\ Finish(w)
    /\ UNCHANGED <<store, qblock, mblock>>

(* write_event() replaces whatever file has the event's name.              *)
WriteEvent(w) ==
    LET e == [id |-> EventId(rec[w]), dethroned |-> rec[w].dethroned]
    IN  /\ pc[w] = "event"
        /\ events' = {f \in events : f.id # e.id} \cup {e}
        /\ Goto(w, "seq")
        /\ UNCHANGED <<manifest, head, index, media, qblock, lock, rec, mblock>>

(* Mutant: the head is advanced before the line is appended. *)
AssignSeqHeadFirst(w) ==
    /\ pc[w] = "seq"
    /\ rec' = [rec EXCEPT ![w].seq = NextSeq]
    /\ Goto(w, "head")
    /\ UNCHANGED <<store, qblock, lock, mblock>>

(* append(): the seq comes from the head and not from the index.           *)
AssignSeq(w) ==
    /\ pc[w] = "seq"
    /\ rec' = [rec EXCEPT ![w].seq = NextSeq]
    /\ Goto(w, "append")
    /\ UNCHANGED <<store, qblock, lock, mblock>>

AppendLine(w) ==
    /\ pc[w] = "append"
    /\ index' = Append(index, rec[w])
    /\ Goto(w, "head")
    /\ UNCHANGED <<manifest, head, events, media, qblock, lock, rec, mblock>>

(* Mutant: the head counts the lines of the index. *)
AdvanceHeadCounts(w) ==
    /\ pc[w] = "head"
    /\ head' = [seq |-> Len(index), event |-> EventId(rec[w]),
                king |-> KingAfter(rec[w])]
    /\ Finish(w)
    /\ UNCHANGED <<manifest, index, events, media, qblock, mblock>>

AdvanceHead(w) ==
    /\ pc[w] = "head"
    /\ head' = [seq |-> rec[w].seq, event |-> EventId(rec[w]),
                king |-> KingAfter(rec[w])]
    /\ Finish(w)
    /\ UNCHANGED <<manifest, index, events, media, qblock, mblock>>

(* A write raises (a full disk, say): run() and step() log the exception   *)
(* and what was already written stays.                                     *)
WriteFails(w) ==
    /\ Faults
    /\ pc[w] \in {"event", "append", "head"}
    /\ Finish(w)
    /\ UNCHANGED <<store, qblock, mblock>>

Crash(w) ==
    /\ Faults
    /\ pc[w] # "off"
    /\ Goto(w, "off")
    /\ rec' = [rec EXCEPT ![w] = BlankRecord]
    /\ lock' = IF lock = w THEN NoProc ELSE lock
    /\ mblock' = [mblock EXCEPT ![w] = 0]
    /\ UNCHANGED <<store, qblock>>

Step(w) ==
    \/ Boot(w) \/ WriteManifest(w) \/ WriteFirstHead(w)
    \/ LoadQueue(w) \/ StartDaemon(w) \/ LockRefused(w)
    \/ StartDuel(w) \/ StartGenesis(w) \/ TakeEntry(w) \/ Poll(w)
    \/ Evaluate(w) \/ DuelFails(w) \/ WriteEvent(w) \/ AssignSeq(w)
    \/ AppendLine(w) \/ AdvanceHead(w) \/ WriteFails(w) \/ Crash(w)

Next == \E w \in Writers : Step(w)

Spec == Init /\ [][Next]_vars
----------------------------------------------------------------------------
Labels == {"off", "init", "inithead", "booted", "loaded", "ready",
           "evaluating", "event", "seq", "append", "head"}
Publishing == {"evaluating", "event", "seq", "append", "head"}

(* Every variable stays in its type. *)
TypeOK ==
    /\ manifest \in BOOLEAN
    /\ head \in HeadFile \cup {NoHead}
    /\ index \in Seq(Record)
    /\ events \subseteq [id : EventIds, dethroned : BOOLEAN]
    /\ media \subseteq EventIds
    /\ qblock \in Nat
    /\ lock \in Writers \cup {NoProc}
    /\ pc \in [Writers -> Labels]
    /\ rec \in [Writers -> Record]
    /\ mblock \in [Writers -> Nat]

(* A record that can be read in the index has its event file, and a duel   *)
(* has its clips, whatever died or failed on the way: the order            *)
(* put_media, write_event, append is what `store verify` relies on.        *)
EvidenceFirst ==
    \A i \in DOMAIN index :
        /\ \E e \in events : e.id = EventId(index[i])
        /\ index[i].kind = "duel" => EventId(index[i]) \in media

(* The head never claims a record that does not exist: some line of the    *)
(* index has its seq and its event and leaves its king on the throne.      *)
HeadBacked ==
    HeadSeq > 0 =>
        \E i \in DOMAIN index : /\ index[i].seq = head.seq
                                /\ EventId(index[i]) = head.event
                                /\ KingAfter(index[i]) = head.king

(* "One writer per store": of the processes that take the lock no two are  *)
(* publishing at once, whatever died or was refused before.                *)
OneWriter ==
    \A v, w \in Lockers :
        pc[v] \in Publishing /\ pc[w] \in Publishing => v = w

(* The index numbers its records without a hole.  A writer that dies       *)
(* before it advances the head leaves a line whose seq the next record     *)
(* takes again, so a number may repeat but is never skipped or rewound.    *)
SeqDense ==
    \A i \in DOMAIN index :
        IF i = 1 THEN index[i].seq = 1
        ELSE index[i].seq \in {index[i - 1].seq, index[i - 1].seq + 1}

(* Line i is the last one with its seq: the one a reader that keeps the    *)
(* latest of repeated numbers keeps.                                       *)
LastOfSeq(i) == \A j \in (i + 1)..Len(index) : index[j].seq # index[i].seq

(* Every duel in the index was fought against the model that the record    *)
(* before it left on the throne, and a genesis found the throne empty: the *)
(* record before is the last line with the previous seq, so that a record  *)
(* orphaned by a crash never crowns anyone.                                *)
CrownSuccession ==
    \A i \in DOMAIN index :
        IF index[i].kind = "genesis" THEN index[i].seq = 1
        ELSE \E j \in 1..(i - 1) : /\ index[j].seq + 1 = index[i].seq
                                   /\ LastOfSeq(j)
                                   /\ KingAfter(index[j]) = index[i].king

(* "Unique per published event": two records never share an event id, for  *)
(* they would share one event file.                                        *)
UniqueEvents ==
    \A i, j \in DOMAIN index : EventId(index[i]) = EventId(index[j]) => i = j

(* The head only moves forward. *)
HeadForward == [][HeadSeq' >= HeadSeq]_vars

(* The published chain: for every number the head has reached, the last    *)
(* line that has it.                                                       *)
Kept(s) == CHOOSE i \in DOMAIN index : index[i].seq = s /\ LastOfSeq(i)
Committed == [s \in 1..HeadSeq |->
                LET r == index[Kept(s)]
                IN  [kind |-> r.kind, king |-> r.king,
                     challenger |-> r.challenger, dethroned |-> r.dethroned]]

Chain == INSTANCE CrownChain WITH chain <- Committed, crown <- HeadKing

(* The store, with crashes and repeated numbers, implements the chain.     *)
ImplementsChain == Chain!Spec
=============================================================================
