-------------------------- MODULE ChallengerQueue --------------------------
(***************************************************************************)
(* The challenger queue, statement by statement (queue.py), and those who  *)
(* share it: the daemon's thread, the handler threads of the admin server  *)
(* and the `icilval queue` commands.                                       *)
(*                                                                         *)
(* A Queue object is a list in the memory of one process and one file,     *)
(* read once when the object is made.  The admin server of the daemon      *)
(* shares the daemon's object; a handler holds the server's lock, the      *)
(* daemon takes none; every save goes through the same temporary file.     *)
(* Each action is what one thread does between two points where another    *)
(* one can run; add() reads the list element by element, save() reads the  *)
(* whole state in one step.                                                *)
(***************************************************************************)
EXTENDS Naturals, Sequences, FiniteSets

CONSTANTS
    Keys,       \* submission keys: hash of repo@revision
    Validators, \* the thread of `icilval daemon`: one at most
    Handlers,   \* request threads of the admin server
    Commands,   \* `icilval queue add` / `remove` processes
    Server,     \* names the Queue object of `icilval admin serve`
    Deployments,\* which of these threads run together, in each way to deploy
    Faults,     \* those of these deployments in which a process can die
    NoOne, NoFile, Empty, Torn,
    Waiting,    \* bound: entries that queue.json holds at the beginning
    MaxAdds,    \* bound: submissions ever accepted, the waiting ones included
    MaxBlock    \* bound: duels the daemon starts

Threads == Validators \cup Handlers \cup Commands

ASSUME ThreadsAssumption ==
    /\ \A v, w \in Validators : v = w
    /\ Validators \cap Handlers = {} /\ Commands \cap Handlers = {}
    /\ Validators \cap Commands = {} /\ Server \notin Threads
    /\ NoOne \notin Threads
ASSUME DeploymentsAssumption == Deployments \subseteq SUBSET Threads /\ Faults \subseteq Deployments
ASSUME WaitingAssumption ==
    Waiting \in Nat /\ MaxAdds \in Nat /\ MaxBlock \in Nat /\ Waiting <= MaxAdds

VARIABLES
    deployed,   \* the threads there are: the deployment does not change
    mem,        \* what each Queue object holds: entries, in_progress, block
    disk,       \* queue.json
    tmp,        \* queue.json.tmp
    fd,         \* the file that each thread has open: "tmp", "disk", or none
    text,       \* the document each thread is saving
    pc,         \* where each thread is
    ret,        \* where it goes on after save()
    entry,      \* the daemon: the entry it has peeked; others: the one to add
    fresh,      \* the list that add() or remove() is rebuilding
    pos,        \* where its iterator is in the old list
    adminlock,  \* which handler holds the server's lock
    added,      \* history: how many entries were ever appended
    acked,      \* history: the entries whose submitter was told "Queued"
    withdrawn,  \* history: the entries replaced by an add() or a remove()
    handled     \* history: how often each entry was taken up

files == <<disk, tmp, fd, text>>
history == <<added, acked, withdrawn, handled>>
locals == <<entry, fresh, pos>>
vars == <<deployed, mem, files, pc, ret, locals, adminlock, history>>

(* The Queue object a thread works on: `icilval daemon --admin` hands its  *)
(* own to the admin server, `icilval admin serve` makes one.               *)
Object(t) == IF t \notin Handlers THEN t
             ELSE IF deployed \cap Validators = {} THEN Server
             ELSE CHOOSE v \in Validators : TRUE
Objects == Validators \cup Commands \cup {Server}
ThreadsOf(o) == {t \in deployed : Object(t) = o}

(* An entry is a key and the number of its add(): a submission queued      *)
(* again is another entry with the same key.                               *)
Ids == 1..MaxAdds
Entry == [key : Keys, id : Ids]
EmptyQueue == [entries |-> <<>>, block |-> 0, in_progress |-> NoOne]

(* A document of queue.json; no marker of a file is one.                   *)
Requests == [key : Keys, id : Nat]
Documents == [entries : Seq(Requests), block : Nat,
              in_progress : Requests \cup {NoOne}]
ASSUME MarkersAssumption ==
    /\ NoFile \notin {Empty, Torn}
    /\ \A m \in {NoFile, Empty, Torn} : m \notin Documents
    /\ NoOne \notin Requests

ToSet(s) == {s[i] : i \in DOMAIN s}
IdsOf(entries) == {entries[i].id : i \in DOMAIN entries}

(* _load(): a file that is missing or cannot be parsed is an empty queue.  *)
Load(file) == IF file \in {NoFile, Empty, Torn} THEN EmptyQueue ELSE file

(* queue.json as earlier submissions have left it: one entry for each key. *)
Waits == {q \in UNION {[1..n -> Entry] : n \in 0..Waiting} :
            \A i, j \in DOMAIN q : /\ q[i].id = i
                                   /\ q[i].key = q[j].key => i = j}
----------------------------------------------------------------------------
Init ==
    /\ deployed \in Deployments
    /\ mem = [o \in Objects |-> EmptyQueue]
    /\ \E q \in Waits :
          /\ disk = IF q = <<>> THEN NoFile
                     ELSE [EmptyQueue EXCEPT !.entries = q]
          /\ added = Len(q) /\ acked = DOMAIN q
    /\ tmp = NoFile
    /\ fd = [t \in Threads |-> "none"]
    /\ text = [t \in Threads |-> EmptyQueue]
    /\ pc = [t \in Threads |-> "down"]
    /\ ret = [t \in Threads |-> "idle"]
    /\ entry = [t \in Threads |-> NoOne]
    /\ fresh = [t \in Threads |-> <<>>]
    /\ pos = [t \in Threads |-> 1]
    /\ adminlock = NoOne
    /\ withdrawn = {} /\ handled = [i \in Ids |-> 0]

At(t, label) == pc[t] = label
Goto(t, label) == pc' = [pc EXCEPT ![t] = label]
Entries(t) == mem[Object(t)].entries

(* A process starts: its Queue object is read from the disk, once.         *)
Start(o) ==
    /\ ThreadsOf(o) # {} /\ \A t \in ThreadsOf(o) : At(t, "down")
    /\ mem' = [mem EXCEPT ![o] = Load(disk)]
    /\ pc' = [t \in Threads |-> IF t \in ThreadsOf(o) THEN "idle" ELSE pc[t]]
    /\ UNCHANGED <<deployed, files, ret, locals, adminlock, history>>

(* ---- save(): the document, then the temporary file, then the rename --- *)

(* The caller continues at label once its save() has returned.             *)
CallSave(t, label) ==
    /\ Goto(t, "save")
    /\ ret' = [ret EXCEPT ![t] = label]

BuildText(t) ==
    /\ At(t, "save")
    /\ text' = [text EXCEPT ![t] = mem[Object(t)]]
    /\ Goto(t, "open")
    /\ UNCHANGED <<deployed, mem, disk, tmp, fd, ret, locals, adminlock,
                   history>>

(* Mutant: the document is written into queue.json itself.                 *)
OpenInPlace(t) ==
    /\ At(t, "open")
    /\ disk' = Empty
    /\ fd' = [fd EXCEPT ![t] = "disk"]
    /\ Goto(t, "write")
    /\ UNCHANGED <<deployed, mem, tmp, text, ret, locals, adminlock, history>>

(* open(tmp, "w") creates the file or truncates it under another's hands.  *)
OpenTmp(t) ==
    /\ At(t, "open")
    /\ tmp' = Empty
    /\ fd' = [fd EXCEPT ![t] = "tmp"]
    /\ Goto(t, "write")
    /\ UNCHANGED <<deployed, mem, disk, text, ret, locals, adminlock, history>>

(* Writing over what another thread wrote since: the longer text's tail    *)
(* may stay.                                                               *)
Written(old, new) == IF old = Empty THEN {new} ELSE {new, Torn}

WriteTmp(t) ==
    /\ At(t, "write")
    /\ \/ /\ fd[t] = "tmp"
          /\ tmp' \in Written(tmp, text[t])
          /\ UNCHANGED disk
       \/ /\ fd[t] = "disk"
          /\ disk' \in Written(disk, text[t])
          /\ UNCHANGED tmp
       \/ fd[t] = "none" /\ UNCHANGED <<disk, tmp>>
    /\ fd' = [fd EXCEPT ![t] = "none"]
    /\ Goto(t, "rename")
    /\ UNCHANGED <<deployed, mem, text, ret, locals, adminlock, history>>

(* os.replace() takes whatever file has the temporary name: a thread that  *)
(* still has it open goes on writing into queue.json itself.               *)
Rename(t) ==
    /\ At(t, "rename") /\ tmp # NoFile
    /\ disk' = tmp /\ tmp' = NoFile
    /\ fd' = [u \in Threads |-> CASE fd[u] = "tmp" -> "disk"
                                  [] OTHER -> "none"]
    /\ text' = [text EXCEPT ![t] = EmptyQueue]
    /\ Goto(t, ret[t])
    /\ ret' = [ret EXCEPT ![t] = "idle"]
    /\ UNCHANGED <<deployed, mem, locals, adminlock, history>>

(* Mutant: the handler that fails keeps the server's lock.                 *)
RenameFailsLocked(t) ==
    /\ At(t, "rename") /\ tmp = NoFile
    /\ text' = [text EXCEPT ![t] = EmptyQueue]
    /\ entry' = [entry EXCEPT ![t] = NoOne]
    /\ ret' = [ret EXCEPT ![t] = "idle"]
    /\ Goto(t, IF t \in Commands THEN "down" ELSE "idle")
    /\ UNCHANGED <<deployed, mem, disk, tmp, fd, fresh, pos, adminlock,
                   history>>

(* ... and finds none when another thread has renamed it: save() raises.   *)
(* The daemon logs a crashed step, a handler drops the connection, a       *)
(* command ends with a traceback.                                          *)
RenameFails(t) ==
    /\ At(t, "rename") /\ tmp = NoFile
    /\ text' = [text EXCEPT ![t] = EmptyQueue]
    /\ entry' = [entry EXCEPT ![t] = NoOne]
    /\ ret' = [ret EXCEPT ![t] = "idle"]
    /\ Goto(t, IF t \in Commands THEN "down" ELSE "idle")
    /\ adminlock' = IF adminlock = t THEN NoOne ELSE adminlock
    /\ UNCHANGED <<deployed, mem, disk, tmp, fd, fresh, pos, history>>

(* ---- add() and remove(): handlers and commands ------------------------ *)

(* A request that passes every check of submit() comes to the lock; a      *)
(* command goes straight to add().  The bound counts those under way.      *)
Adding == {t \in Threads : ret[t] = "append"}
Submit(t) ==
    /\ t \in Handlers \cup Commands /\ At(t, "idle")
    /\ added + Cardinality(Adding) < MaxAdds
    /\ \E k \in Keys : entry' = [entry EXCEPT ![t] = [key |-> k, id |-> 0]]
    /\ ret' = [ret EXCEPT ![t] = "append"]
    /\ Goto(t, IF t \in Handlers THEN "lock" ELSE "read")
    /\ UNCHANGED <<deployed, mem, files, fresh, pos, adminlock, history>>

(* `icilval queue remove KEY`.                                             *)
CallRemove(t) ==
    /\ t \in Commands /\ At(t, "idle")
    /\ \E k \in Keys : entry' = [entry EXCEPT ![t] = [key |-> k, id |-> 0]]
    /\ ret' = [ret EXCEPT ![t] = "down"]
    /\ Goto(t, "read")
    /\ UNCHANGED <<deployed, mem, files, fresh, pos, adminlock, history>>

(* GET /admin/health takes the lock to read three counts.                  *)
Health(t) ==
    t \in Handlers /\ At(t, "idle") /\ adminlock = NoOne /\ UNCHANGED vars

(* Mutant: the handlers do not wait for each other.                        *)
AcquireAnyway(t) ==
    /\ At(t, "lock")
    /\ adminlock' = t
    /\ Goto(t, "read")
    /\ UNCHANGED <<deployed, mem, files, ret, locals, history>>

Acquire(t) ==
    /\ At(t, "lock")
    /\ adminlock = NoOne
    /\ adminlock' = t
    /\ Goto(t, "read")
    /\ UNCHANGED <<deployed, mem, files, ret, locals, history>>

(* One turn of the comprehension [e for e in entries if e.key != key]: a   *)
(* list iterator is an index into the list as it is now.                   *)
ReadOne(t) ==
    /\ At(t, "read") /\ pos[t] <= Len(Entries(t))
    /\ LET e == Entries(t)[pos[t]]
       IN  fresh' = [fresh EXCEPT ![t] =
                       IF e.key = entry[t].key THEN @ ELSE Append(@, e)]
    /\ pos' = [pos EXCEPT ![t] = @ + 1]
    /\ UNCHANGED <<deployed, mem, files, pc, ret, entry, adminlock, history>>

(* The rebuilt list replaces the old one.                                  *)
Bind(t) ==
    /\ At(t, "read") /\ pos[t] > Len(Entries(t))
    /\ mem' = [mem EXCEPT ![Object(t)].entries = fresh[t]]
    /\ withdrawn' = withdrawn \cup
          {e.id : e \in {f \in ToSet(Entries(t)) : f.key = entry[t].key}}
    /\ fresh' = [fresh EXCEPT ![t] = <<>>] /\ pos' = [pos EXCEPT ![t] = 1]
    /\ Goto(t, IF ret[t] = "append" THEN "append" ELSE "save")
    /\ UNCHANGED <<deployed, files, ret, entry, adminlock, added, acked,
                   handled>>

(* Mutant: add() does not save.                                            *)
AppendUnsaved(t) ==
    /\ At(t, "append")
    /\ LET e == [key |-> entry[t].key, id |-> added + 1]
       IN  /\ mem' = [mem EXCEPT ![Object(t)].entries = Append(@, e)]
           /\ entry' = [entry EXCEPT ![t] = e]
    /\ added' = added + 1
    /\ Goto(t, "reply")
    /\ ret' = [ret EXCEPT ![t] = "idle"]
    /\ UNCHANGED <<deployed, files, fresh, pos, adminlock, acked, withdrawn,
                   handled>>

(* The new entry goes to the end.                                          *)
AppendEntry(t) ==
    /\ At(t, "append")
    /\ LET e == [key |-> entry[t].key, id |-> added + 1]
       IN  /\ mem' = [mem EXCEPT ![Object(t)].entries = Append(@, e)]
           /\ entry' = [entry EXCEPT ![t] = e]
    /\ added' = added + 1
    /\ CallSave(t, "reply")
    /\ UNCHANGED <<deployed, files, fresh, pos, adminlock, acked, withdrawn,
                   handled>>

(* add() has returned: the lock is released and the submitter is told.     *)
Reply(t) ==
    /\ At(t, "reply")
    /\ acked' = acked \cup {entry[t].id}
    /\ entry' = [entry EXCEPT ![t] = NoOne]
    /\ adminlock' = IF adminlock = t THEN NoOne ELSE adminlock
    /\ Goto(t, IF t \in Commands THEN "down" ELSE "idle")
    /\ UNCHANGED <<deployed, mem, files, ret, fresh, pos, added, withdrawn,
                   handled>>

(* ---- step(): the daemon's thread, which takes no lock ------------------ *)

Peek(t) ==
    /\ t \in Validators /\ At(t, "idle")
    /\ Entries(t) # <<>> /\ mem[t].block < MaxBlock
    /\ entry' = [entry EXCEPT ![t] = Head(Entries(t))]
    /\ Goto(t, "peeked")
    /\ UNCHANGED <<deployed, mem, files, ret, fresh, pos, adminlock, history>>

(* An empty queue: sleep.                                                  *)
Poll(t) ==
    /\ t \in Validators /\ At(t, "idle")
    /\ Entries(t) = <<>> \/ mem[t].block >= MaxBlock
    /\ UNCHANGED vars

(* The king's own resubmission is popped at once; a genesis or a duel      *)
(* first takes a block number.                                             *)
DropKing(t) ==
    /\ At(t, "peeked")
    /\ Goto(t, "popdrop")
    /\ UNCHANGED <<deployed, mem, files, ret, locals, adminlock, history>>

AdvanceBlock(t) ==
    /\ At(t, "peeked")
    /\ mem' = [mem EXCEPT ![t].block = @ + 1]
    /\ \E label \in {"popgenesis", "popduel"} : CallSave(t, label)
    /\ UNCHANGED <<deployed, files, locals, adminlock, history>>

AfterPop == [popdrop |-> "take", popgenesis |-> "take", popduel |-> "mark"]

(* Mutant: pop() takes the last entry.                                     *)
PopLast(t) ==
    /\ pc[t] \in DOMAIN AfterPop
    /\ IF Entries(t) = <<>>
       THEN Goto(t, AfterPop[pc[t]]) /\ UNCHANGED <<mem, ret>>
       ELSE /\ mem' = [mem EXCEPT ![t].entries = SubSeq(@, 1, Len(@) - 1)]
            /\ CallSave(t, AfterPop[pc[t]])
    /\ UNCHANGED <<deployed, files, locals, adminlock, history>>

(* Mutant: pop() does not save.                                            *)
PopUnsaved(t) ==
    /\ pc[t] \in DOMAIN AfterPop
    /\ IF Entries(t) = <<>>
       THEN Goto(t, AfterPop[pc[t]]) /\ UNCHANGED <<mem, ret>>
       ELSE /\ mem' = [mem EXCEPT ![t].entries = Tail(@)]
            /\ Goto(t, AfterPop[pc[t]])
            /\ UNCHANGED ret
    /\ UNCHANGED <<deployed, files, locals, adminlock, history>>

(* pop() removes the entry that is first now, if there is one.             *)
Pop(t) ==
    /\ pc[t] \in DOMAIN AfterPop
    /\ IF Entries(t) = <<>>
       THEN Goto(t, AfterPop[pc[t]]) /\ UNCHANGED <<mem, ret>>
       ELSE /\ mem' = [mem EXCEPT ![t].entries = Tail(@)]
            /\ CallSave(t, AfterPop[pc[t]])
    /\ UNCHANGED <<deployed, files, locals, adminlock, history>>

(* A duel is marked as in progress before it is run ...                    *)
MarkInProgress(t) ==
    /\ At(t, "mark")
    /\ mem' = [mem EXCEPT ![t].in_progress = entry[t]]
    /\ CallSave(t, "duel")
    /\ UNCHANGED <<deployed, files, locals, adminlock, history>>

(* The peeked entry is dueled, crowned or dropped, whatever comes of it    *)
(* (ResultStore); a duel, even a failed one, ends with finish().           *)
TakeUp(t) ==
    /\ pc[t] \in {"take", "duel"}
    /\ handled' = [handled EXCEPT ![entry[t].id] = @ + 1]
    /\ entry' = [entry EXCEPT ![t] = NoOne]
    /\ Goto(t, IF At(t, "duel") THEN "finish" ELSE "idle")
    /\ UNCHANGED <<deployed, mem, files, ret, fresh, pos, adminlock, added,
                   acked, withdrawn>>

FinishDuel(t) ==
    /\ At(t, "finish")
    /\ mem' = [mem EXCEPT ![t].in_progress = NoOne]
    /\ CallSave(t, "idle")
    /\ UNCHANGED <<deployed, files, locals, adminlock, history>>

(* A process dies, with all its threads and what it holds in memory.       *)
Crash(o) ==
    LET dead == ThreadsOf(o)
    IN  /\ deployed \in Faults
        /\ \E t \in dead : pc[t] # "down"
        /\ mem' = [mem EXCEPT ![o] = EmptyQueue]
        /\ pc' = [t \in Threads |-> IF t \in dead THEN "down" ELSE pc[t]]
        /\ ret' = [t \in Threads |-> IF t \in dead THEN "idle" ELSE ret[t]]
        /\ fd' = [t \in Threads |-> IF t \in dead THEN "none" ELSE fd[t]]
        /\ text' = [t \in Threads |->
                      IF t \in dead THEN EmptyQueue ELSE text[t]]
        /\ entry' = [t \in Threads |-> IF t \in dead THEN NoOne ELSE entry[t]]
        /\ fresh' = [t \in Threads |-> IF t \in dead THEN <<>> ELSE fresh[t]]
        /\ pos' = [t \in Threads |-> IF t \in dead THEN 1 ELSE pos[t]]
        /\ adminlock' = IF adminlock \in dead THEN NoOne ELSE adminlock
        /\ UNCHANGED <<deployed, disk, tmp, history>>

(* What a thread does once it has begun; a request may never come.         *)
Work(t) ==
    \/ BuildText(t) \/ OpenTmp(t) \/ WriteTmp(t) \/ Rename(t)
    \/ RenameFails(t) \/ Acquire(t) \/ ReadOne(t) \/ Bind(t)
    \/ AppendEntry(t) \/ Reply(t) \/ Peek(t) \/ DropKing(t)
    \/ AdvanceBlock(t) \/ Pop(t) \/ MarkInProgress(t) \/ TakeUp(t)
    \/ FinishDuel(t)

Next ==
    \/ \E t \in Threads : \/ Work(t) \/ Submit(t) \/ CallRemove(t)
                          \/ Health(t) \/ Poll(t)
    \/ \E o \in Objects : Start(o) \/ Crash(o)

Spec == Init /\ [][Next]_vars

(* Every thread that can run does run, as the interpreter lets it.         *)
FairSpec == Spec /\ \A t \in Threads : WF_vars(Work(t))
----------------------------------------------------------------------------
(* "One entry per submission key", the oldest first, in memory and in the  *)
(* file: also while the daemon pops entries from the list that add() is    *)
(* rebuilding.                                                             *)
OneEntryPerKey ==
    \A s \in {mem[o].entries : o \in Objects} \cup {Load(disk).entries} :
        \A i, j \in DOMAIN s : i < j => /\ s[i].key # s[j].key
                                       /\ s[i].id < s[j].id

(* Where no daemon shares the queue, a submission that was answered with   *)
(* 200 is in queue.json, or a later submission of the same key has         *)
(* replaced it: the answer comes after the rename, and no handler writes   *)
(* back a list read before another's add().                                *)
AckDurable ==
    deployed \cap Validators = {} =>
        \A i \in acked : i \in IdsOf(Load(disk).entries) \cup withdrawn

(* No submission shares the queue with the daemon, or no daemon runs.      *)
Apart == deployed \subseteq Validators \/ deployed \cap Validators = {}

(* Apart from submissions, the daemon takes no entry up twice: it has left *)
(* queue.json before its duel begins, and a restart does not find it there *)
(* again.                                                                  *)
AtMostOnce == Apart => \A i \in Ids : handled[i] <= 1

(* "Rewritten atomically": apart from each other, the daemon and the       *)
(* submissions never leave a part of a document in queue.json.             *)
DiskWhole == Apart => disk \notin {Empty, Torn}

(* "The validator picks it up": an acknowledged entry is taken up, or      *)
(* replaced, or still on its way.                                          *)
InFlight(i) == \E t \in Validators : entry[t] # NoOne /\ entry[t].id = i
NoLostEntry ==
    \A i \in acked :
        \/ handled[i] > 0 \/ i \in withdrawn \/ InFlight(i)
        \/ i \in IdsOf(Load(disk).entries)
        \/ \E o \in Objects : i \in IdsOf(mem[o].entries)

(* Every entry in the list of a daemon that keeps running, apart from      *)
(* submissions, is taken up in the end.                                    *)
TakenUp ==
    \A i \in Ids :
        (Apart /\ \E v \in Validators : i \in IdsOf(mem[v].entries))
            ~> handled[i] > 0

(* Every request that waits for the server's lock gets to its end, answered *)
(* or dropped: also when a save() raises under the lock.                    *)
RequestEnds == \A h \in Handlers : At(h, "lock") ~> At(h, "idle")
=============================================================================
