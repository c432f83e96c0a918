----------------------------- MODULE Validator -----------------------------
(***************************************************************************)
(* The validator as a whole (daemon.py): its queue, the fetch and check of *)
(* both models, the duel, the publication into the store, the published    *)
(* snapshot of the queue, and the mirror of the store on the Hub           *)
(* (store/mirror.py).  ResultStore has the writers of the store,           *)
(* ChallengerQueue the threads of the queue, and Duel the run of a side in *)
(* detail; here one daemon runs, and a step of the queue is atomic.        *)
(*                                                                         *)
(* Every write into the store adds its file to the set `touched`, in       *)
(* memory; a publication drains the set and pushes the files in a commit.  *)
(* A file is its content: <<>> when it does not exist, the blocks of its   *)
(* records for a part of the index, <<block, kind, clips>> for an event,   *)
(* <<seq, block, king>> for the head, and <<block, king, in progress,      *)
(* entries>> for the snapshot of the queue.                                *)
(*                                                                         *)
(* A full disk makes any of these writes raise, and those of queue.json,   *)
(* where the daemon has changed the queue in memory already; what raises   *)
(* in a step, run() logs, and goes on with the queue that is in memory.    *)
(***************************************************************************)
EXTENDS Submission, Sequences

CONSTANTS
    Models,        \* submission keys
    NoModel,       \* no king
    Repo,          \* [Models -> Repositories]: a revision is a commit, it never changes
    LocalModels,   \* the models that --local-model maps to a directory
    LinesPerPart,  \* spec.store.index_lines_per_part
    Outages,       \* what fails in a behaviour, each with the <<model, skip flag>>
                   \* pairs that are submitted in it and its bound on the blocks
    MaxQueue       \* bound

ASSUME ModelsAssumption ==
    /\ NoModel \notin Models /\ LocalModels \subseteq Models
    /\ Repo \in [Models -> Repositories]
ASSUME SizesAssumption == LinesPerPart \in Nat \ {0} /\ MaxQueue \in Nat
ASSUME OutagesAssumption ==
    Outages \subseteq [faults: SUBSET {"hub", "clips", "publish", "disk", "death"},
                       offers: SUBSET (Models \X BOOLEAN), maxBlock: Nat]

VARIABLES
    outage,   \* of Outages
    queue,    \* the queue in memory: [entries, running, block]
    saved,    \* queue.json
    local,    \* the store on disk
    remote,   \* the mirror
    touched,  \* the files written since the last drain
    drained,  \* the files of the commit that is being pushed
    pc,       \* where the daemon is
    ret,      \* which call of publish_queue() it is: "run", "fetch" or "idle"
    job,      \* the genesis or the duel it is at
    waived,   \* history: the king took the throne without a check
    raised,   \* history: a step, or a daemon, ended before it published
    cutShort, \* history: nobody is at the duel that the queue or its snapshot names
    unsynced, \* history: parts of the index with a line whose fsync() raised
    harm      \* history: "none", the mirror "lacks" files, or it is "mixed" with an old store's

queueVars == <<queue, saved, raised, cutShort>>
storeVars == <<local, touched, unsynced>>
mirrorVars == <<outage, remote, drained, harm>>
vars == <<outage, queue, saved, local, remote, touched, drained, pc, ret, job,
          waived, raised, cutShort, unsynced, harm>>

Blocks == UNION {1..o.maxBlock : o \in Outages}
Faults == outage.faults
NoJob == [kind |-> "none", block |-> 0, model |-> NoModel, king |-> NoModel,
          skip |-> FALSE, won |-> FALSE, clips |-> {}]

Manifest == <<"manifest", 0>>
HeadName == <<"head", 0>>
QueueName == <<"queue", 0>>
Card == <<"card", 0>>         \* README.md of the mirror, written by hand
Demo == <<"demo", 0>>         \* the clip of a demonstration that duels share
Event(b) == <<"event", b>>
Media(b) == <<"media", b>>    \* the clips of both sides
Part(p) == <<"index", p>>
Parts == {(s - 1) \div LinesPerPart : s \in Blocks}
Files == {Manifest, HeadName, QueueName, Card, Demo}
         \cup {Event(b) : b \in Blocks} \cup {Media(b) : b \in Blocks}
         \cup {Part(p) : p \in Parts}
Empty == [f \in Files |-> <<>>]

King == IF local[HeadName] = <<>> THEN NoModel ELSE local[HeadName][3]
NextSeq == IF local[HeadName] = <<>> THEN 1 ELSE local[HeadName][1] + 1
PartOf(seq) == Part((seq - 1) \div LinesPerPart)
Snapshot(q) == <<q.block, King, q.running, q.entries>>
----------------------------------------------------------------------------
Init ==
    /\ outage \in Outages
    /\ queue = [entries |-> <<>>, running |-> 0, block |-> 0] /\ saved = queue
    /\ local = Empty
    /\ remote = [Empty EXCEPT ![Card] = <<"by hand">>]
    /\ touched = {} /\ drained = {}
    /\ pc = "off" /\ ret = "off" /\ job = NoJob
    /\ waived = FALSE /\ raised = FALSE /\ cutShort = FALSE
    /\ unsynced = {} /\ harm = "none"

Goto(label) == pc' = label
Lacking == IF harm = "none" THEN "lacks" ELSE harm

(* Mutant: clips are not listed, they are pushed at once. *)
WriteClipUntouched(f, content) ==
    /\ local' = [local EXCEPT ![f] = content]
    /\ touched' = IF f[1] = "media" THEN touched ELSE touched \cup {f}

(* Every writer of the store touches what it has written.                  *)
Write(f, content) ==
    /\ local' = [local EXCEPT ![f] = content]
    /\ touched' = touched \cup {f}

(* push(): one commit of the files as they are now.                        *)
Push(files) ==
    remote' = [f \in Files |-> IF f \in files /\ local[f] # <<>>
                               THEN local[f] ELSE remote[f]]

(* save() rewrites queue.json as a whole, with what raised before.         *)
Saves(q) == queue' = q /\ saved' = q /\ UNCHANGED <<raised, cutShort>>

(* An exception leaves step(): run() logs it and goes on.                  *)
StepRaises(memory, disk) ==
    /\ queue' = memory /\ saved' = disk
    /\ raised' = TRUE /\ cutShort' = (memory.running # 0)
    /\ job' = NoJob /\ ret' = "off" /\ Goto("idle")

(* The process ends, and what it had in memory is lost.                    *)
Dies ==
    /\ queue' = saved
    /\ raised' = TRUE /\ cutShort' = (saved.running # 0)
    /\ touched' = {} /\ drained' = {} /\ harm' = Lacking
    /\ job' = NoJob /\ ret' = "off" /\ Goto("off")
    /\ UNCHANGED <<outage, saved, local, remote, waived, unsynced>>

(* publish_queue() writes the snapshot and drains the set; _mirror()       *)
(* pushes what was drained.  A second drain finds nothing more.            *)
CallPublish(label) == Goto("publish") /\ ret' = label

WriteSnapshot ==
    /\ local' = [local EXCEPT ![QueueName] = Snapshot(queue)]
    /\ raised' = FALSE
    /\ cutShort' = (cutShort /\ ret # "fetch" /\ queue.running # 0)
    /\ job' = IF ret = "fetch" THEN job ELSE NoJob
    /\ UNCHANGED <<outage, queue, saved, remote, ret, waived, unsynced, harm>>

(* Mutant: the head goes out at once, the index with the next full commit. *)
PublishHeadOnly ==
    /\ pc = "publish" /\ WriteSnapshot
    /\ drained' = {HeadName, QueueName} /\ touched' = touched \ {HeadName}
    /\ Goto("push")

PublishQueue ==
    /\ pc = "publish" /\ WriteSnapshot
    /\ drained' = touched \cup {QueueName} /\ touched' = {}
    /\ Goto("push")

(* write_queue() raises: the touched files stay for the next publication.  *)
(* A duel is not run then, although its entry is gone.  At its start the   *)
(* daemon does not survive it.                                             *)
PublishFails ==
    /\ "disk" \in Faults /\ pc = "publish"
    /\ \/ ret = "run" /\ Dies
       \/ /\ ret # "run" /\ StepRaises(queue, saved)
          /\ UNCHANGED <<storeVars, mirrorVars, waived>>

(* _mirror(): a commit that fails is logged, and its files are forgotten.  *)
MirrorFiles ==
    /\ pc = "push"
    /\ \/ Push(drained) /\ UNCHANGED harm
       \/ "publish" \in Faults /\ UNCHANGED remote /\ harm' = Lacking
    /\ drained' = {} /\ ret' = "off"
    /\ Goto(IF ret = "fetch" THEN "fetch" ELSE "idle")
    /\ UNCHANGED <<outage, queueVars, storeVars, job, waived>>
----------------------------------------------------------------------------
(* make_runtime() initialises a store that has no manifest: the manifest,  *)
(* and a head unless there is one.                                         *)
WriteManifest ==
    /\ pc = "off" /\ local[Manifest] = <<>>
    /\ Write(Manifest, <<"manifest">>)
    /\ Goto("init")
    /\ UNCHANGED <<unsynced, queueVars, mirrorVars, ret, job, waived>>

WriteFirstHead ==
    /\ pc = "init"
    /\ IF local[HeadName] = <<>> THEN Write(HeadName, <<0, 0, NoModel>>)
                                 ELSE UNCHANGED <<local, touched>>
    /\ Goto("boot")
    /\ UNCHANGED <<unsynced, queueVars, mirrorVars, ret, job, waived>>

(* That head is not written, and the daemon does not start.                *)
InitFails == "disk" \in Faults /\ pc = "init" /\ Dies

(* run(): the daemon publishes the queue it has loaded.                    *)
Start ==
    /\ pc = "boot" \/ (pc = "off" /\ local[Manifest] # <<>>)
    /\ CallPublish("run")
    /\ UNCHANGED <<queueVars, storeVars, mirrorVars, job, waived>>

(* Queue.add() keeps the entries of the other keys, in their order.        *)
Others(entries, m) ==
    LET kept[i \in 0..Len(entries)] ==
            IF i = 0 THEN <<>>
            ELSE IF entries[i][1] = m THEN kept[i - 1]
            ELSE Append(kept[i - 1], entries[i])
    IN  kept[Len(entries)]

(* The admin server's thread: AdminServer.submit(), Queue.add().  When its *)
(* save() raises, the entry is in the queue all the same.                  *)
Submit(offer) ==
    LET others == Others(queue.entries, offer[1])
        added == [queue EXCEPT !.entries = Append(others, offer)]
    IN  /\ pc # "off" /\ Len(others) < MaxQueue
        /\ \/ Saves(added)
           \/ "disk" \in Faults /\ queue' = added /\ UNCHANGED <<saved, raised, cutShort>>
        /\ UNCHANGED <<storeVars, mirrorVars, pc, ret, job, waived>>
----------------------------------------------------------------------------
Numbered(q) == [q EXCEPT !.block = @ + 1]
Popped(q) == [q EXCEPT !.entries = Tail(@)]
Started(q) == [q EXCEPT !.running = q.block]

Take(kind) ==
    [NoJob EXCEPT !.kind = kind, !.block = queue.block + 1,
                  !.model = Head(queue.entries)[1], !.king = King,
                  !.skip = Head(queue.entries)[2]]

(* step(): an empty throne goes to the first entry ...                     *)
TakeGenesis ==
    /\ pc = "idle" /\ queue.entries # <<>> /\ King = NoModel /\ queue.block < outage.maxBlock
    /\ \/ /\ Saves(Popped(Numbered(queue)))
          /\ job' = Take("genesis")
          /\ Goto(IF Head(queue.entries)[2] THEN "event" ELSE "fetch") /\ UNCHANGED ret
       \/ /\ "disk" \in Faults
          /\ \/ StepRaises(Numbered(queue), saved)
             \/ StepRaises(Popped(Numbered(queue)), Numbered(queue))
    /\ UNCHANGED <<storeVars, mirrorVars, waived>>

(* ... the king's own is dropped ...                                       *)
DropKing ==
    /\ pc = "idle" /\ queue.entries # <<>> /\ King = Head(queue.entries)[1]
    /\ \/ Saves(Popped(queue)) /\ CallPublish("idle") /\ UNCHANGED job
       \/ "disk" \in Faults /\ StepRaises(Popped(queue), saved)
    /\ UNCHANGED <<storeVars, mirrorVars, waived>>

(* ... and any other duels the king, after the queue has been published.   *)
TakeChallenger ==
    LET popped == Popped(Numbered(queue))
    IN  /\ pc = "idle" /\ queue.entries # <<>> /\ queue.block < outage.maxBlock
        /\ King \notin {NoModel, Head(queue.entries)[1]}
        /\ \/ Saves(Started(popped)) /\ job' = Take("duel") /\ CallPublish("fetch")
           \/ /\ "disk" \in Faults
              /\ \/ StepRaises(Numbered(queue), saved)
                 \/ StepRaises(popped, Numbered(queue))
                 \/ StepRaises(Started(popped), popped)
        /\ UNCHANGED <<storeVars, mirrorVars, waived>>
----------------------------------------------------------------------------
Dir(m) == Fetched(Repo[m], m \in LocalModels)
Sides == IF job.kind = "duel" THEN {job.model, job.king} ELSE {job.model}
Unfetched(m) == m \notin LocalModels /\ ("hub" \in Faults \/ Refused(Repo[m]))

(* Mutant: published first, finished after. *)
PublishThenFinish ==
    /\ Saves(queue) /\ CallPublish("idle") /\ UNCHANGED job

(* finish(), and then publish_queue(): however a duel ends.                *)
FinishDuel ==
    LET finished == [queue EXCEPT !.running = 0]
    IN  \/ Saves(finished) /\ CallPublish("idle") /\ UNCHANGED job
        \/ "disk" \in Faults /\ StepRaises(finished, saved)

FinishGenesis == CallPublish("idle") /\ UNCHANGED <<queueVars, job>>

(* A duel that raises anything is a failed duel, and a refused genesis is  *)
(* published too.  What else a genesis raises skips the publication.       *)
Fails(refused) ==
    \/ job.kind = "duel" /\ FinishDuel
    \/ job.kind = "genesis" /\ refused /\ FinishGenesis
    \/ job.kind = "genesis" /\ ~refused /\ StepRaises(queue, saved)

Fetch ==
    /\ pc = "fetch"
    /\ \/ /\ \A m \in Sides : m \in LocalModels \/ ~Refused(Repo[m])
          /\ Goto("check") /\ UNCHANGED <<queueVars, ret, job>>
       \/ (\E m \in Sides : Unfetched(m)) /\ Fails(FALSE)
    /\ UNCHANGED <<storeVars, mirrorVars, waived>>

(* Mutant: the challenger is excused without the flag. *)
ExcusedAnyway(m) == m = job.model

(* The flag excuses the challenger, never the king.                        *)
Excused(m) == job.skip /\ m = job.model

Check ==
    /\ pc = "check"
    /\ IF \A m \in Sides : Excused(m) \/ CheckSubmission(Dir(m)) = {}
       THEN /\ Goto(IF job.kind = "duel" THEN "demos" ELSE "event")
            /\ UNCHANGED <<queueVars, ret, job>>
       ELSE Fails(TRUE)
    /\ UNCHANGED <<storeVars, mirrorVars, waived>>

(* _render_demos(), and then the clips of both sides: each goes into the   *)
(* store and is pushed at once.  When that fails it is still in touched.   *)
Clip == IF pc = "demos" THEN Demo ELSE Media(job.block)

StoreClips ==
    /\ \/ pc = "demos" /\ Goto("pushdemos")
       \/ pc = "evaluate" /\ (\A m \in Sides : Loads(Dir(m))) /\ Goto("pushclips")
    /\ Write(Clip, IF pc = "demos" THEN <<"demo">> ELSE <<job.block>>)
    /\ job' = [job EXCEPT !.clips = @ \cup {Clip}]
    /\ UNCHANGED <<unsynced, queueVars, mirrorVars, ret, waived>>

(* A demonstration that cannot be stored is left out of the duel.          *)
DemoFails ==
    /\ "disk" \in Faults /\ pc = "demos"
    /\ Goto("evaluate")
    /\ UNCHANGED <<queueVars, storeVars, mirrorVars, ret, job, waived>>

PushClips ==
    /\ \/ pc = "pushdemos" /\ Push({Demo}) /\ Goto("evaluate")
       \/ pc = "pushclips" /\ Push({Media(job.block)}) /\ Goto("score")
       \/ /\ "clips" \in Faults /\ pc \in {"pushdemos", "pushclips"}
          /\ UNCHANGED remote
          /\ Goto(IF pc = "pushdemos" THEN "evaluate" ELSE "score")
    /\ UNCHANGED <<outage, queueVars, storeVars, drained, harm, ret, job, waived>>

(* The verdict, which Score has in detail.                                 *)
Judge ==
    /\ pc = "score"
    /\ \E won \in BOOLEAN : job' = [job EXCEPT !.won = won]
    /\ Goto("event")
    /\ UNCHANGED <<queueVars, storeVars, mirrorVars, ret, waived>>

(* A model that does not load, a wall time that is over, too many voids.   *)
DuelFails ==
    /\ pc \in {"evaluate", "score"} /\ Fails(FALSE)
    /\ UNCHANGED <<storeVars, mirrorVars, waived>>

WriteEvent ==
    /\ pc = "event"
    /\ Write(Event(job.block), <<job.block, job.kind, job.clips>>)
    /\ Goto("line")
    /\ UNCHANGED <<unsynced, queueVars, mirrorVars, ret, job, waived>>

(* append(): os.write(), os.fsync(), _touch().                             *)
AppendLine ==
    LET part == PartOf(NextSeq)
    IN  /\ pc = "line"
        /\ Write(part, Append(local[part], job.block))
        /\ unsynced' = unsynced \ {part}
        /\ Goto("head")
        /\ UNCHANGED <<queueVars, mirrorVars, ret, job, waived>>

(* fsync() raises: the line is there, but the part is not touched.         *)
SyncFails ==
    LET part == PartOf(NextSeq)
    IN  /\ "disk" \in Faults /\ pc = "line" /\ Fails(FALSE)
        /\ local' = [local EXCEPT ![part] = Append(@, job.block)]
        /\ unsynced' = unsynced \cup ({part} \ touched)
        /\ UNCHANGED <<touched, mirrorVars, waived>>

WriteHead ==
    LET crowned == job.kind = "genesis" \/ job.won
    IN  /\ pc = "head"
        /\ Write(HeadName, <<NextSeq, job.block, IF crowned THEN job.model ELSE job.king>>)
        /\ waived' = IF crowned THEN job.skip ELSE waived
        /\ Goto("finish")
        /\ UNCHANGED <<unsynced, queueVars, mirrorVars, ret, job>>

Finish ==
    /\ pc = "finish"
    /\ \/ job.kind = "duel" /\ FinishDuel
       \/ job.kind = "genesis" /\ FinishGenesis
    /\ UNCHANGED <<storeVars, mirrorVars, waived>>

(* A write of the record raises before anything is written.                *)
WriteFails ==
    /\ "disk" \in Faults /\ pc \in {"event", "line", "head"} /\ Fails(FALSE)
    /\ UNCHANGED <<storeVars, mirrorVars, waived>>
----------------------------------------------------------------------------
Crash == "death" \in Faults /\ pc # "off" /\ Dies

(* The operator starts a new store in the place of the old one.            *)
Rebuild ==
    /\ pc = "off" /\ local[Manifest] # <<>>
    /\ local' = Empty /\ unsynced' = {} /\ harm' = "mixed"
    /\ UNCHANGED <<outage, queueVars, remote, touched, drained, pc, ret, job, waived>>

Held == {f \in Files : local[f] # <<>>}
Stale == {f \in Files \ {Card} : remote[f] # <<>> /\ f \notin Held}

(* push_all(), `icilval store mirror` while no daemon runs: only adds.     *)
PushAll ==
    /\ pc = "off" /\ Held # {}
    /\ Push(Held)
    /\ harm' = IF Stale = {} THEN "none" ELSE harm
    /\ unsynced' = {}
    /\ UNCHANGED <<outage, queueVars, local, touched, drained, pc, ret, job, waived>>

(* Mutant: nothing is deleted. *)
AddOnly ==
    /\ pc = "off" /\ Held # {}
    /\ Push(Held)
    /\ harm' = "none" /\ unsynced' = {}
    /\ UNCHANGED <<outage, queueVars, local, touched, drained, pc, ret, job, waived>>

(* replace_all(), `--prune`: adds and deletes in the same commit.          *)
ReplaceAll ==
    /\ pc = "off" /\ Held # {}
    /\ remote' = [f \in Files |-> IF f \in Held THEN local[f]
                                  ELSE IF f \in Stale THEN <<>> ELSE remote[f]]
    /\ harm' = "none" /\ unsynced' = {}
    /\ UNCHANGED <<outage, queueVars, local, touched, drained, pc, ret, job, waived>>

Step ==
    \/ TakeGenesis \/ DropKing \/ TakeChallenger \/ Fetch \/ Check
    \/ StoreClips \/ DemoFails \/ PushClips \/ Judge \/ DuelFails
    \/ WriteEvent \/ AppendLine \/ SyncFails \/ WriteHead \/ WriteFails \/ Finish

Next ==
    \/ WriteManifest \/ WriteFirstHead \/ InitFails \/ Start
    \/ PublishQueue \/ PublishFails \/ MirrorFiles \/ Step
    \/ \E offer \in outage.offers : Submit(offer)
    \/ Crash \/ Rebuild \/ PushAll \/ ReplaceAll

Spec == Init /\ [][Next]_vars
----------------------------------------------------------------------------
(* "The daemon mirrors as it publishes": what the mirror lacks is listed   *)
(* for the next push, also after clips failed to go out or a write raised; *)
(* and nothing is listed whenever the daemon is idle, unless its last step *)
(* raised before it published.  Not listed is a part of the index whose    *)
(* fsync() raised, until a line is appended to it again.  When a commit    *)
(* was lost or a daemon has died, the operator restores this with          *)
(* `store mirror`, after a rebuild only with --prune.                      *)
MirrorCurrent ==
    harm = "none" =>
        /\ \A f \in Files \ {Card} :
               remote[f] = local[f] \/ f \in touched \cup drained \cup unsynced
        /\ pc = "idle" /\ ~raised => touched \cup drained = {}

(* Then a reader of the mirror finds the event of every record, and every  *)
(* clip that the event refers to, at any time; and the event of a duel     *)
(* does refer to the clips of its sides.                                   *)
MirrorEvidence ==
    harm = "none" =>
        \A p \in Parts : \A i \in DOMAIN remote[Part(p)] :
            LET b == remote[Part(p)][i]
                event == remote[Event(b)]
            IN  /\ event # <<>> /\ event[1] = b
                /\ event[2] = "duel" => Media(b) \in event[3]
                /\ \A f \in event[3] : remote[f] # <<>>

(* The head that a reader of the mirror sees never names a record that the *)
(* mirror's index lacks: whatever fails, index and head travel together.   *)
(* Only a rebuilt store that was never pushed with --prune is excepted.    *)
HeadNotAhead ==
    harm # "mixed" /\ remote[HeadName] # <<>> /\ remote[HeadName][2] # 0 =>
        \E p \in Parts : \E i \in DOMAIN remote[Part(p)] :
            remote[Part(p)][i] = remote[HeadName][2]

(* What queue.json shows the world.  Whenever the daemon is idle and its   *)
(* last step did not raise: the king of the head, the block, and no entry  *)
(* that was taken.  At any time: a duel in progress only while the daemon  *)
(* is at it, unless it died in it, or a step has raised: before the duel   *)
(* (until the next duel) or at its end (until the next publication).       *)
SnapshotTrue ==
    local[QueueName] # <<>> =>
        LET shown == local[QueueName]
        IN  /\ pc = "idle" /\ ~raised =>
                   /\ shown[1] = queue.block /\ shown[2] = King
                   /\ \A i \in DOMAIN shown[4] : \E j \in DOMAIN queue.entries :
                          queue.entries[j][1] = shown[4][i][1]
            /\ shown[3] # 0 /\ ~cutShort /\ ~raised =>
                   pc # "idle" /\ job.kind = "duel" /\ job.block = shown[3]

(* The king passes its own check in every later duel, so that no duel can  *)
(* fail on it, unless it was let onto the throne unchecked.                *)
KingPasses ==
    King # NoModel /\ ~waived => CheckSubmission(Dir(King)) = {}
=============================================================================
