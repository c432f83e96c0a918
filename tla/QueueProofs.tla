---------------------------- MODULE QueueProofs ----------------------------
(***************************************************************************)
(* What holds of the challenger queue for any keys, threads, deployments   *)
(* and bounds: one entry per key whatever the interleaving, and, where     *)
(* the daemon and the submissions do not meet in one file, a whole file    *)
(* that keeps what was acknowledged and gives nothing out twice.           *)
(***************************************************************************)
EXTENDS ChallengerQueue, SequenceTheorems, TLAPS

Saving == {"save", "open", "write", "rename"}
Labels == Saving \cup {"down", "idle", "lock", "read", "append", "reply", "peeked",
                       "popdrop", "popgenesis", "popduel", "take", "mark", "duel", "finish"}
Files == Documents \cup {NoFile, Empty, Torn}

TypeOK ==
    /\ deployed \in Deployments
    /\ mem \in [Objects -> Documents]
    /\ disk \in Files /\ tmp \in Files
    /\ fd \in [Threads -> {"none", "tmp", "disk"}]
    /\ text \in [Threads -> Documents]
    /\ pc \in [Threads -> Labels] /\ ret \in [Threads -> Labels]
    /\ entry \in [Threads -> Requests \cup {NoOne}]
    /\ fresh \in [Threads -> Seq(Requests)] /\ pos \in [Threads -> Nat \ {0}]
    /\ adminlock \in Handlers \cup {NoOne}
    /\ added \in Nat /\ handled \in [Ids -> Nat]

(* Where a thread goes on after a save(), what is in its hands on the way, *)
(* and that a handler in add() has the server's lock until it has replied. *)
FlowInv ==
    \A t \in Threads :
      /\ t \notin deployed => pc[t] = "down"
      /\ pc[t] \in {"lock", "read", "append", "reply"} => t \notin Validators /\ entry[t] \in Requests
      /\ pc[t] = "lock" => t \in Handlers /\ ret[t] = "append"
      /\ pc[t] = "read" => ret[t] = "append" \/ (ret[t] = "down" /\ t \in Commands)
      /\ pc[t] # "read" => fresh[t] = <<>> /\ pos[t] = 1
      /\ pc[t] \in Saving => IF t \in Validators
                             THEN ret[t] \in {"popgenesis", "popduel", "take", "mark", "duel", "idle"}
                             ELSE ret[t] = "reply" \/ (ret[t] = "down" /\ t \in Commands)
      /\ ret[t] = "reply" /\ pc[t] \in Saving => entry[t] \in Requests
      /\ pc[t] \in {"peeked", "popdrop", "popgenesis", "popduel", "take", "mark", "duel", "finish"}
           => t \in Validators
      /\ t \in Handlers /\ pc[t] \in Saving \cup {"read", "append", "reply"} => adminlock = t

(* A list as add() leaves it, of entries numbered up to n.                 *)
Listed(s, n) ==
    /\ \A i \in 1..Len(s) : s[i].id <= n
    /\ \A i, j \in 1..Len(s) : i < j => s[i].key # s[j].key /\ s[i].id < s[j].id

(* The list that is being rebuilt precedes what its iterator has still to  *)
(* read, however many entries the daemon pops meanwhile.                   *)
Rebuilt(t) ==
    /\ Listed(fresh[t], added)
    /\ \A i \in 1..Len(fresh[t]) :
         /\ fresh[t][i].key # entry[t].key
         /\ \A j \in 1..Len(Entries(t)) : j >= pos[t] =>
              /\ fresh[t][i].key # Entries(t)[j].key
              /\ fresh[t][i].id < Entries(t)[j].id

ListInv ==
    /\ \A o \in Objects : Listed(mem[o].entries, added)
    /\ \A f \in {disk, tmp} : Listed(Load(f).entries, added)
    /\ \A t \in Threads :
         /\ Listed(text[t].entries, added)
         /\ pc[t] = "read" => Rebuilt(t)
         /\ pc[t] = "append" => \A i \in 1..Len(Entries(t)) : Entries(t)[i].key # entry[t].key

(* Apart from each other, one thread saves at a time: what it has written  *)
(* is there when it renames it.                                            *)
FileInv == Apart =>
    /\ disk \notin {Empty, Torn}
    /\ \A t \in deployed :
         /\ fd[t] = IF pc[t] = "write" THEN "tmp" ELSE "none"
         /\ pc[t] = "write" => tmp = Empty
         /\ pc[t] = "rename" => tmp = text[t]

(* Without a daemon, what is on disk is in the list, or was replaced; and  *)
(* what was acknowledged is on disk, or was replaced.                      *)
OnDisk == IdsOf(Load(disk).entries)
Held(t) == IdsOf(Entries(t))

AckInv == deployed \cap Validators = {} =>
    /\ acked \subseteq OnDisk \cup withdrawn
    /\ \A t \in deployed :
         /\ pc[t] # "down" => OnDisk \subseteq Held(t) \cup withdrawn
         /\ pc[t] \in {"open", "write", "rename"} => text[t] = mem[Object(t)]
         /\ pc[t] \in Saving /\ ret[t] = "reply" => entry[t].id \in Held(t)
         /\ pc[t] = "reply" => entry[t].id \in OnDisk
         /\ pc[t] = "read" => \A j \in 1..Len(Entries(t)) :
              j < pos[t] => \/ Entries(t)[j].key = entry[t].key
                            \/ Entries(t)[j].id \in IdsOf(fresh[t])

(* Without submissions, the daemon's entry is the first one until pop(),   *)
(* then it is nowhere but in the old file, until the rename.               *)
Before == {"popgenesis", "popduel"}
After == {"take", "mark", "duel"}
Heading(t, labels) == pc[t] \in labels \/ (pc[t] \in Saving /\ ret[t] \in labels)
TextIds(t) == IF pc[t] \in {"open", "write", "rename"} THEN IdsOf(text[t].entries) ELSE {}

TakeInv == deployed \subseteq Validators =>
    /\ \A i \in Ids : handled[i] <= 1
    /\ \A t \in deployed :
         /\ \A i \in Ids : handled[i] # 0 =>
              /\ i \notin OnDisk \cup Held(t) \cup TextIds(t)
              /\ entry[t] # NoOne => entry[t].id # i
         /\ pc[t] \in {"peeked", "popdrop"} \/ Heading(t, Before) =>
              /\ entry[t] \in Requests /\ Entries(t) # <<>> /\ entry[t] = Head(Entries(t))
         /\ Heading(t, After) => entry[t] \in Requests /\ entry[t].id \notin Held(t) \cup TextIds(t)
         /\ pc[t] \in After => entry[t].id \notin OnDisk
         /\ pc[t] \in Saving /\ ret[t] = "duel" => entry[t].id \notin OnDisk
         /\ pc[t] \in {"idle", "down", "finish"} \/ (pc[t] \in Saving /\ ret[t] = "idle") => entry[t] = NoOne
-----------------------------------------------------------------------------
(* An empty queue can be saved.                                            *)
LEMMA EmptyIsDocument == EmptyQueue \in Documents /\ EmptyQueue.entries = <<>>
BY DEF EmptyQueue, Documents

(* Every thread works on a Queue object ...                                *)
LEMMA ObjectsAre == \A t \in Threads : Object(t) \in Objects
BY ThreadsAssumption DEF Object, Objects, Threads

(* ... and only the handlers on one that they share.                       *)
LEMMA OwnObject == \A t \in Threads : t \notin Handlers => Object(t) = t
BY DEF Object

(* Whatever is found on disk, _load() makes a queue of it.                 *)
LEMMA LoadIsDocument == \A f \in Files : Load(f) \in Documents
BY EmptyIsDocument DEF Load, Files

(* Replacing the entries of a document changes nothing else.               *)
LEMMA NewList ==
    ASSUME NEW d \in Documents, NEW s \in Seq(Requests)
    PROVE  /\ [d EXCEPT !.entries = s] \in Documents
           /\ [d EXCEPT !.entries = s].entries = s
BY DEF Documents

(* The same within the memory of a process: another list of entries,       *)
LEMMA MemList ==
    ASSUME NEW m \in [Objects -> Documents], NEW o \in Objects, NEW s \in Seq(Requests),
           NEW n, n = [m EXCEPT ![o].entries = s]
    PROVE  /\ n \in [Objects -> Documents]
           /\ \A p \in Objects : n[p].entries = IF p = o THEN s ELSE m[p].entries
BY NewList

(* another entry in progress,                                              *)
LEMMA MemMark ==
    ASSUME NEW m \in [Objects -> Documents], NEW o \in Objects,
           NEW e \in Requests \cup {NoOne}, NEW n, n = [m EXCEPT ![o].in_progress = e]
    PROVE  /\ n \in [Objects -> Documents]
           /\ \A p \in Objects : n[p].entries = m[p].entries
BY DEF Documents

(* and the next block, each changes no other object.                       *)
LEMMA MemBlock ==
    ASSUME NEW m \in [Objects -> Documents], NEW o \in Objects,
           NEW n, n = [m EXCEPT ![o].block = m[o].block + 1]
    PROVE  /\ n \in [Objects -> Documents]
           /\ \A p \in Objects : n[p].entries = m[p].entries
<1>1. ASSUME NEW d \in Documents, NEW b \in Nat
      PROVE  /\ [d EXCEPT !.block = b] \in Documents
             /\ [d EXCEPT !.block = b].entries = d.entries
  BY DEF Documents
<1>2. m[o].block + 1 \in Nat
  BY DEF Documents
<1>. QED BY <1>1, <1>2

(* The queue that earlier submissions have left is a list.                 *)
LEMMA InitTyped ==
    ASSUME Init
    PROVE  TypeOK /\ FlowInv /\ ListInv
<1>. USE DEF Init
<1>1. PICK q \in Waits : /\ disk = IF q = <<>> THEN NoFile ELSE [EmptyQueue EXCEPT !.entries = q]
                        /\ added = Len(q) /\ acked = DOMAIN q
  OBVIOUS
<1>2. PICK n \in 0..Waiting : q \in [1..n -> Entry]
  BY DEF Waits
<1>3. /\ q \in Seq(Requests) /\ Len(q) = n
      /\ \A i, j \in 1..n : q[i].id = i /\ (q[i].key = q[j].key => i = j)
  <2>1. q \in Seq(Entry)
    BY <1>2, WaitingAssumption
  <2>2. Entry \subseteq Requests
    BY WaitingAssumption DEF Entry, Requests, Ids
  <2>3. DOMAIN q = 1..n /\ Len(q) = n
    BY <1>2, <2>1, WaitingAssumption
  <2>. QED BY <1>2, <2>1, <2>2, <2>3 DEF Waits
<1>4. Listed(q, added) /\ Listed(<<>>, added)
  BY <1>1, <1>3 DEF Listed
<1>5. Load(disk).entries \in {q, <<>>} /\ disk \in Files
  BY <1>1, <1>3, EmptyIsDocument, NewList DEF Load, Files
<1>6. TypeOK
  BY <1>1, <1>3, <1>5, EmptyIsDocument, DeploymentsAssumption
     DEF TypeOK, Files, Labels, Saving, Ids
<1>7. FlowInv
  BY DEF FlowInv, Saving
<1>8. ListInv
  BY <1>4, <1>5, EmptyIsDocument DEF ListInv, Load
<1>. QED BY <1>6, <1>7, <1>8
(* Every step keeps the types, and where the threads go on.                *)
LEMMA StepTyped ==
    ASSUME TypeOK, FlowInv, [Next]_vars
    PROVE  TypeOK' /\ FlowInv'
<1>. USE DEF vars, files, locals, history, At, Goto, CallSave
<1>1. ASSUME NEW t \in Threads, BuildText(t) PROVE TypeOK' /\ FlowInv'
  <2>1. TypeOK'
    BY <1>1, ObjectsAre, EmptyIsDocument DEF BuildText, TypeOK, Labels, Saving
  <2>2. FlowInv'
    BY <1>1, ThreadsAssumption DEF BuildText, TypeOK, FlowInv, Saving
  <2>. QED BY <2>1, <2>2
<1>2. ASSUME NEW t \in Threads, OpenTmp(t) PROVE TypeOK' /\ FlowInv'
  <2>1. TypeOK'
    BY <1>2, ObjectsAre, EmptyIsDocument DEF OpenTmp, TypeOK, Labels, Saving,
       Files, Written
  <2>2. FlowInv'
    BY <1>2, ThreadsAssumption DEF OpenTmp, TypeOK, FlowInv, Saving
  <2>. QED BY <2>1, <2>2
<1>3. ASSUME NEW t \in Threads, WriteTmp(t) PROVE TypeOK' /\ FlowInv'
  <2>1. TypeOK'
    BY <1>3, ObjectsAre, EmptyIsDocument DEF WriteTmp, TypeOK, Labels, Saving,
       Files, Written
  <2>2. FlowInv'
    BY <1>3, ThreadsAssumption DEF WriteTmp, TypeOK, FlowInv, Saving
  <2>. QED BY <2>1, <2>2
<1>4. ASSUME NEW t \in Threads, Rename(t) PROVE TypeOK' /\ FlowInv'
  <2>1. TypeOK'
    BY <1>4, ObjectsAre, EmptyIsDocument DEF Rename, TypeOK, Labels, Saving,
       Files, Written
  <2>2. FlowInv'
    BY <1>4, ThreadsAssumption DEF Rename, TypeOK, FlowInv, Saving
  <2>. QED BY <2>1, <2>2
<1>5. ASSUME NEW t \in Threads, RenameFails(t) PROVE TypeOK' /\ FlowInv'
  <2>1. TypeOK'
    BY <1>5, ObjectsAre, EmptyIsDocument DEF RenameFails, TypeOK, Labels, Saving
  <2>2. FlowInv'
    BY <1>5, ThreadsAssumption DEF RenameFails, TypeOK, FlowInv, Saving
  <2>. QED BY <2>1, <2>2
<1>6. ASSUME NEW t \in Threads, Acquire(t) PROVE TypeOK' /\ FlowInv'
  <2>1. TypeOK'
    BY <1>6, ObjectsAre, EmptyIsDocument DEF Acquire, TypeOK, Labels, Saving,
       FlowInv
  <2>2. FlowInv'
    BY <1>6, ThreadsAssumption DEF Acquire, TypeOK, FlowInv, Saving
  <2>. QED BY <2>1, <2>2
<1>7. ASSUME NEW t \in Threads, ReadOne(t) PROVE TypeOK' /\ FlowInv'
  <2>1. TypeOK'
    <3>1. mem[Object(t)].entries \in Seq(Requests)
      BY ObjectsAre DEF TypeOK, Documents
    <3>2. fresh'[t] \in Seq(Requests) /\ fresh' \in [Threads -> Seq(Requests)]
      BY <1>7, <3>1 DEF ReadOne, TypeOK, Entries
    <3>. QED BY <1>7, <3>2 DEF ReadOne, TypeOK
  <2>2. FlowInv'
    BY <1>7, ThreadsAssumption DEF ReadOne, TypeOK, FlowInv, Saving
  <2>. QED BY <2>1, <2>2
<1>8. ASSUME NEW t \in Threads, Bind(t) PROVE TypeOK' /\ FlowInv'
  <2>1. TypeOK'
    <3>1. mem' \in [Objects -> Documents]
      BY <1>8, ObjectsAre, MemList DEF Bind, TypeOK
    <3>. QED BY <1>8, <3>1 DEF Bind, TypeOK, Labels, Saving
  <2>2. FlowInv'
    BY <1>8, ThreadsAssumption DEF Bind, TypeOK, FlowInv, Saving
  <2>. QED BY <2>1, <2>2
<1>9. ASSUME NEW t \in Threads, AppendEntry(t) PROVE TypeOK' /\ FlowInv'
  <2>1. TypeOK'
    <3>. DEFINE e == [key |-> entry[t].key, id |-> added + 1]
    <3>1. e \in Requests
      BY <1>9 DEF AppendEntry, TypeOK, FlowInv, Requests
    <3>2. mem[Object(t)].entries \in Seq(Requests)
      BY ObjectsAre DEF TypeOK, Documents
    <3>3. Append(mem[Object(t)].entries, e) \in Seq(Requests)
      BY <3>1, <3>2
    <3>4. mem' = [mem EXCEPT ![Object(t)].entries = Append(mem[Object(t)].entries, e)]
      BY <1>9 DEF AppendEntry
    <3>5. mem' \in [Objects -> Documents]
      <4>1. PICK s \in Seq(Requests) : s = Append(mem[Object(t)].entries, e)
        BY <3>3
      <4>2. mem' = [mem EXCEPT ![Object(t)].entries = s] /\ mem \in [Objects -> Documents]
        BY <3>4, <4>1 DEF TypeOK
      <4>. QED BY <4>2, ObjectsAre, MemList
    <3>. QED BY <1>9, <3>1, <3>5 DEF AppendEntry, TypeOK, Labels, Saving
  <2>2. FlowInv'
    BY <1>9, ThreadsAssumption DEF AppendEntry, TypeOK, FlowInv, Saving,
       Requests
  <2>. QED BY <2>1, <2>2
<1>10. ASSUME NEW t \in Threads, Reply(t) PROVE TypeOK' /\ FlowInv'
  <2>1. TypeOK'
    BY <1>10, ObjectsAre, EmptyIsDocument DEF Reply, TypeOK, Labels, Saving
  <2>2. FlowInv'
    BY <1>10, ThreadsAssumption DEF Reply, TypeOK, FlowInv, Saving
  <2>. QED BY <2>1, <2>2
<1>11. ASSUME NEW t \in Threads, Peek(t) PROVE TypeOK' /\ FlowInv'
  <2>1. TypeOK'
    <3>1. mem[Object(t)].entries \in Seq(Requests)
      BY ObjectsAre DEF TypeOK, Documents
    <3>2. Head(Entries(t)) \in Requests
      BY <1>11, <3>1 DEF Peek, Entries
    <3>. QED BY <1>11, <3>2 DEF Peek, TypeOK, Labels, Saving
  <2>2. FlowInv'
    BY <1>11, ThreadsAssumption DEF Peek, TypeOK, FlowInv, Saving
  <2>. QED BY <2>1, <2>2
<1>12. ASSUME NEW t \in Threads, DropKing(t) PROVE TypeOK' /\ FlowInv'
  <2>1. TypeOK'
    BY <1>12, ObjectsAre, EmptyIsDocument DEF DropKing, TypeOK, Labels, Saving
  <2>2. FlowInv'
    BY <1>12, ThreadsAssumption DEF DropKing, TypeOK, FlowInv, Saving
  <2>. QED BY <2>1, <2>2
<1>13. ASSUME NEW t \in Threads, AdvanceBlock(t) PROVE TypeOK' /\ FlowInv'
  <2>1. TypeOK'
    <3>1. t \in Objects
      BY <1>13 DEF AdvanceBlock, FlowInv, Objects
    <3>2. mem' \in [Objects -> Documents]
      BY <1>13, <3>1, MemBlock DEF AdvanceBlock, TypeOK
    <3>. QED BY <1>13, <3>2 DEF AdvanceBlock, TypeOK, Labels, Saving
  <2>2. FlowInv'
    BY <1>13, ThreadsAssumption DEF AdvanceBlock, TypeOK, FlowInv, Saving
  <2>. QED BY <2>1, <2>2
<1>14. ASSUME NEW t \in Threads, Pop(t) PROVE TypeOK' /\ FlowInv'
  <2>1. TypeOK'
    <3>1. t \in Objects /\ Object(t) = t
      BY <1>14, OwnObject, ThreadsAssumption DEF Pop, AfterPop, FlowInv, Objects
    <3>0. AfterPop[pc[t]] \in Labels /\ pc[t] \in Labels
      BY <1>14 DEF Pop, AfterPop, Labels
    <3>2. CASE Entries(t) = <<>>
      BY <1>14, <3>0, <3>2 DEF Pop, TypeOK
    <3>3. CASE Entries(t) # <<>>
      <4>1. mem[t].entries \in Seq(Requests) /\ mem[t].entries # <<>>
        BY <3>1, <3>3 DEF TypeOK, Documents, Entries
      <4>2. mem' = [mem EXCEPT ![t].entries = Tail(mem[t].entries)]
        BY <1>14, <3>3 DEF Pop
      <4>3. mem' \in [Objects -> Documents]
        <5>0. Tail(mem[t].entries) \in Seq(Requests)
          BY <4>1, HeadTailProperties
        <5>1. PICK s \in Seq(Requests) : s = Tail(mem[t].entries)
          BY <5>0
        <5>2. mem' = [mem EXCEPT ![t].entries = s] /\ mem \in [Objects -> Documents]
          BY <4>2, <5>1 DEF TypeOK
        <5>. QED BY <3>1, <5>2, MemList
      <4>. QED BY <1>14, <3>0, <3>3, <4>3 DEF Pop, TypeOK, Labels, Saving
    <3>. QED BY <3>2, <3>3
  <2>2. FlowInv'
    BY <1>14, ThreadsAssumption DEF Pop, TypeOK, FlowInv, Saving, AfterPop
  <2>. QED BY <2>1, <2>2
<1>15. ASSUME NEW t \in Threads, MarkInProgress(t) PROVE TypeOK' /\ FlowInv'
  <2>1. TypeOK'
    <3>1. t \in Objects /\ entry[t] \in Requests \cup {NoOne}
      BY <1>15 DEF MarkInProgress, FlowInv, TypeOK, Objects
    <3>2. mem' \in [Objects -> Documents]
      BY <1>15, <3>1, MemMark DEF MarkInProgress, TypeOK
    <3>. QED BY <1>15, <3>2 DEF MarkInProgress, TypeOK, Labels, Saving
  <2>2. FlowInv'
    BY <1>15, ThreadsAssumption DEF MarkInProgress, TypeOK, FlowInv, Saving
  <2>. QED BY <2>1, <2>2
<1>16. ASSUME NEW t \in Threads, TakeUp(t) PROVE TypeOK' /\ FlowInv'
  <2>1. TypeOK'
    <3>1. handled' \in [Ids -> Nat]
      <4>1. handled' = [i \in Ids |-> IF i = entry[t].id THEN handled[i] + 1 ELSE handled[i]]
        BY <1>16 DEF TakeUp, TypeOK
      <4>. QED BY <4>1 DEF TypeOK
    <3>. QED BY <1>16, <3>1 DEF TakeUp, TypeOK, Labels, Saving
  <2>2. FlowInv'
    BY <1>16, ThreadsAssumption DEF TakeUp, TypeOK, FlowInv, Saving
  <2>. QED BY <2>1, <2>2
<1>17. ASSUME NEW t \in Threads, FinishDuel(t) PROVE TypeOK' /\ FlowInv'
  <2>1. TypeOK'
    <3>1. t \in Objects /\ NoOne \in Requests \cup {NoOne}
      BY <1>17 DEF FinishDuel, FlowInv, TypeOK, Objects
    <3>2. mem' \in [Objects -> Documents]
      BY <1>17, <3>1, MemMark DEF FinishDuel, TypeOK
    <3>. QED BY <1>17, <3>2 DEF FinishDuel, TypeOK, Labels, Saving
  <2>2. FlowInv'
    BY <1>17, ThreadsAssumption DEF FinishDuel, TypeOK, FlowInv, Saving
  <2>. QED BY <2>1, <2>2
<1>18. ASSUME NEW t \in Threads, Submit(t) PROVE TypeOK' /\ FlowInv'
  <2>1. TypeOK'
    <3>1. PICK k \in Keys : entry' = [entry EXCEPT ![t] = [key |-> k, id |-> 0]]
      BY <1>18 DEF Submit
    <3>2. [key |-> k, id |-> 0] \in Requests
      BY DEF Requests
    <3>. QED BY <1>18, <3>1, <3>2 DEF Submit, TypeOK, Labels, Saving
  <2>2. FlowInv'
    BY <1>18, ThreadsAssumption DEF Submit, TypeOK, FlowInv, Saving, Requests
  <2>. QED BY <2>1, <2>2
<1>19. ASSUME NEW t \in Threads, CallRemove(t) PROVE TypeOK' /\ FlowInv'
  <2>1. TypeOK'
    <3>1. PICK k \in Keys : entry' = [entry EXCEPT ![t] = [key |-> k, id |-> 0]]
      BY <1>19 DEF CallRemove
    <3>2. [key |-> k, id |-> 0] \in Requests
      BY DEF Requests
    <3>. QED BY <1>19, <3>1, <3>2 DEF CallRemove, TypeOK, Labels, Saving
  <2>2. FlowInv'
    BY <1>19, ThreadsAssumption DEF CallRemove, TypeOK, FlowInv, Saving,
       Requests
  <2>. QED BY <2>1, <2>2
<1>20. ASSUME NEW t \in Threads, Health(t) PROVE TypeOK' /\ FlowInv'
  <2>1. TypeOK'
    BY <1>20, ObjectsAre, EmptyIsDocument DEF Health, TypeOK, Labels, Saving
  <2>2. FlowInv'
    BY <1>20, ThreadsAssumption DEF Health, TypeOK, FlowInv, Saving
  <2>. QED BY <2>1, <2>2
<1>21. ASSUME NEW t \in Threads, Poll(t) PROVE TypeOK' /\ FlowInv'
  <2>1. TypeOK'
    BY <1>21, ObjectsAre, EmptyIsDocument DEF Poll, TypeOK, Labels, Saving
  <2>2. FlowInv'
    BY <1>21, ThreadsAssumption DEF Poll, TypeOK, FlowInv, Saving
  <2>. QED BY <2>1, <2>2
<1>22. ASSUME NEW o \in Objects, Start(o) PROVE TypeOK' /\ FlowInv'
  <2>1. TypeOK'
    BY <1>22, EmptyIsDocument, LoadIsDocument DEF Start, TypeOK, Labels
  <2>2. FlowInv'
    BY <1>22, ThreadsAssumption DEF Start, TypeOK, FlowInv, Saving, ThreadsOf
  <2>. QED BY <2>1, <2>2
<1>23. ASSUME NEW o \in Objects, Crash(o) PROVE TypeOK' /\ FlowInv'
  <2>1. TypeOK'
    BY <1>23, EmptyIsDocument, LoadIsDocument DEF Crash, TypeOK, Labels
  <2>2. FlowInv'
    BY <1>23, ThreadsAssumption DEF Crash, TypeOK, FlowInv, Saving, ThreadsOf
  <2>. QED BY <2>1, <2>2
<1>24. CASE UNCHANGED vars
  BY <1>24 DEF TypeOK, FlowInv, Saving
<1>. QED BY <1>1, <1>2, <1>3, <1>4, <1>5, <1>6, <1>7, <1>8, <1>9, <1>10,
            <1>11, <1>12, <1>13, <1>14, <1>15, <1>16, <1>17, <1>18, <1>19,
            <1>20, <1>21, <1>22, <1>23, <1>24 DEF Next, Work
(* Lists stay lists when a longer numbering, a pop or an add() comes.      *)
LEMMA ListedFacts ==
    ASSUME NEW s \in Seq(Requests), NEW n \in Nat, Listed(s, n)
    PROVE  /\ \A m \in Nat : n <= m => Listed(s, m)
           /\ s # <<>> => Listed(Tail(s), n)
           /\ \A e \in Requests, m \in Nat :
                n <= m /\ e.id <= m
                /\ (\A i \in 1..Len(s) : s[i].id < e.id /\ s[i].key # e.key)
                   => Listed(Append(s, e), m)
<1>1. \A i \in 1..Len(s) : s[i] \in Requests
  BY ElementOfSeq
<1>. \A i \in 1..Len(s) : s[i].id \in Nat
  BY <1>1 DEF Requests
<1>2. ASSUME NEW m \in Nat, n <= m PROVE Listed(s, m)
  BY <1>2 DEF Listed
<1>3. ASSUME s # <<>> PROVE Listed(Tail(s), n)
  <2>1. /\ Len(s) \in Nat /\ Len(Tail(s)) = Len(s) - 1
        /\ \A i \in 1..Len(Tail(s)) : Tail(s)[i] = s[i + 1]
    BY <1>3, HeadTailProperties
  <2>. QED BY <2>1 DEF Listed
<1>4. ASSUME NEW e \in Requests, NEW m \in Nat, e.id <= m, n <= m,
             \A i \in 1..Len(s) : s[i].id < e.id /\ s[i].key # e.key
      PROVE  Listed(Append(s, e), m)
  <2>1. /\ Len(s) \in Nat /\ Len(Append(s, e)) = Len(s) + 1
        /\ \A i \in 1..Len(s) : Append(s, e)[i] = s[i]
        /\ Append(s, e)[Len(s) + 1] = e
    OBVIOUS
  <2>. QED BY <1>4, <2>1 DEF Listed, Requests
<1>5. ASSUME NEW e \in Requests, NEW m \in Nat,
             /\ n <= m /\ e.id <= m
             /\ \A i \in 1..Len(s) : s[i].id < e.id /\ s[i].key # e.key
      PROVE  Listed(Append(s, e), m)
  BY <1>4, <1>5
<1>. QED BY <1>2, <1>3, <1>5

(* A step that leaves the lists which are being rebuilt alone, or begins   *)
(* one, and puts only lists in the place of others.                        *)
Quietly ==
    /\ added' = added
    /\ \A o \in Objects : Listed(mem'[o].entries, added)
    /\ \A f \in {disk', tmp'} : Listed(Load(f).entries, added)
    /\ \A u \in Threads :
         /\ Listed(text'[u].entries, added)
         /\ pc'[u] \in {"read", "append"} =>
              \/ pc'[u] = "read" /\ fresh'[u] = <<>>
              \/ /\ pc'[u] = pc[u] /\ Entries(u)' = Entries(u)
                 /\ entry'[u] = entry[u] /\ fresh'[u] = fresh[u] /\ pos'[u] = pos[u]

(* An empty list is one, and so is what _load() makes of a broken file.    *)
LEMMA NothingListed ==
    /\ \A n : Listed(<<>>, n)
    /\ \A f \in {NoFile, Empty, Torn} : Load(f).entries = <<>>
BY EmptyIsDocument DEF Listed, Load

(* Steps that rebuild no list keep the lists.                              *)
LEMMA Quiet ==
    ASSUME ListInv, Quietly
    PROVE  ListInv'
<1>. USE DEF Quietly
<1>1. ASSUME NEW u \in Threads, pc'[u] = "read" PROVE Rebuilt(u)'
  <2>1. CASE fresh'[u] = <<>>
    BY <2>1 DEF Rebuilt, Listed
  <2>2. CASE fresh'[u] # <<>>
    BY <1>1, <2>2 DEF Rebuilt, ListInv
  <2>. QED BY <2>1, <2>2
<1>2. ASSUME NEW u \in Threads, pc'[u] = "append"
      PROVE  \A i \in 1..Len(Entries(u)') : Entries(u)'[i].key # entry'[u].key
  BY <1>2 DEF ListInv
<1>. QED BY <1>1, <1>2 DEF ListInv
(* Two threads never rebuild the same list at the same time.               *)
LEMMA Alone ==
    ASSUME FlowInv, NEW t \in Threads, NEW u \in Threads, t # u,
           pc[t] \in {"read", "append"}, pc[u] \in {"read", "append"}
    PROVE  Object(t) # Object(u)
<1>1. CASE t \in Handlers /\ u \in Handlers
  BY <1>1 DEF FlowInv
<1>2. ASSUME NEW v \in Threads, NEW w \in Threads, v # w, v \notin Handlers,
             v \notin Validators
      PROVE  Object(v) # Object(w)
  BY <1>2, ThreadsAssumption DEF Object, Threads
<1>. QED BY <1>1, <1>2 DEF FlowInv

(* Every step keeps the lists.                                             *)
LEMMA StepListed ==
    ASSUME TypeOK, FlowInv, ListInv, [Next]_vars
    PROVE  ListInv'
<1>. USE DEF vars, files, locals, history, At, Goto, CallSave
<1>. /\ added \in Nat
     /\ \A o \in Objects : mem[o] \in Documents /\ mem[o].entries \in Seq(Requests)
     /\ \A t \in Threads : Object(t) \in Objects /\ Object(t)' \in Objects
  BY ObjectsAre, ThreadsAssumption DEF TypeOK, Documents, Object, Objects,
     Threads
<1>1. ASSUME NEW t \in Threads, BuildText(t) PROVE ListInv'
  <2>1. Quietly
    BY <1>1, ListedFacts DEF BuildText, Quietly, TypeOK, ListInv, Entries,
       Object, FlowInv, Saving
  <2>. QED BY <2>1, Quiet
<1>2. ASSUME NEW t \in Threads, OpenTmp(t) PROVE ListInv'
  <2>1. added' = added /\ mem' = mem
    BY <1>2 DEF OpenTmp
  <2>2. \A f \in {disk', tmp'} : Listed(Load(f).entries, added)
    BY <1>2, NothingListed, EmptyIsDocument DEF OpenTmp, Load, TypeOK, ListInv
  <2>3. \A u \in Threads : Listed(text'[u].entries, added)
    BY <1>2, NothingListed, EmptyIsDocument DEF OpenTmp, TypeOK, ListInv
  <2>4. \A u \in Threads : pc'[u] \in {"read", "append"} =>
           /\ pc'[u] = pc[u] /\ Entries(u)' = Entries(u)
           /\ entry'[u] = entry[u] /\ fresh'[u] = fresh[u] /\ pos'[u] = pos[u]
    BY <1>2 DEF OpenTmp, TypeOK, Entries, Object
  <2>5. Quietly
    BY <2>1, <2>2, <2>3, <2>4 DEF Quietly, ListInv
  <2>. QED BY <2>5, Quiet
<1>3. ASSUME NEW t \in Threads, WriteTmp(t) PROVE ListInv'
  <2>1. added' = added /\ mem' = mem
    BY <1>3 DEF WriteTmp
  <2>2. \A f \in {disk', tmp'} : Listed(Load(f).entries, added)
    BY <1>3, NothingListed, EmptyIsDocument DEF WriteTmp, Written, Load, TypeOK, ListInv
  <2>3. \A u \in Threads : Listed(text'[u].entries, added)
    BY <1>3, NothingListed, EmptyIsDocument DEF WriteTmp, TypeOK, ListInv
  <2>4. \A u \in Threads : pc'[u] \in {"read", "append"} =>
           /\ pc'[u] = pc[u] /\ Entries(u)' = Entries(u)
           /\ entry'[u] = entry[u] /\ fresh'[u] = fresh[u] /\ pos'[u] = pos[u]
    BY <1>3 DEF WriteTmp, TypeOK, Entries, Object
  <2>5. Quietly
    BY <2>1, <2>2, <2>3, <2>4 DEF Quietly, ListInv
  <2>. QED BY <2>5, Quiet
<1>4. ASSUME NEW t \in Threads, Rename(t) PROVE ListInv'
  <2>1. added' = added /\ mem' = mem
    BY <1>4 DEF Rename
  <2>2. \A f \in {disk', tmp'} : Listed(Load(f).entries, added)
    BY <1>4, NothingListed, EmptyIsDocument DEF Rename, Load, TypeOK, ListInv
  <2>3. \A u \in Threads : Listed(text'[u].entries, added)
    BY <1>4, NothingListed, EmptyIsDocument DEF Rename, TypeOK, ListInv
  <2>4. \A u \in Threads : pc'[u] \in {"read", "append"} =>
           /\ pc'[u] = pc[u] /\ Entries(u)' = Entries(u)
           /\ entry'[u] = entry[u] /\ fresh'[u] = fresh[u] /\ pos'[u] = pos[u]
    BY <1>4 DEF Rename, TypeOK, Entries, Object, FlowInv, Saving
  <2>5. Quietly
    BY <2>1, <2>2, <2>3, <2>4 DEF Quietly, ListInv
  <2>. QED BY <2>5, Quiet
<1>5. ASSUME NEW t \in Threads, RenameFails(t) PROVE ListInv'
  <2>1. added' = added /\ mem' = mem
    BY <1>5 DEF RenameFails
  <2>2. \A f \in {disk', tmp'} : Listed(Load(f).entries, added)
    BY <1>5, NothingListed, EmptyIsDocument DEF RenameFails, Load, TypeOK, ListInv
  <2>3. \A u \in Threads : Listed(text'[u].entries, added)
    BY <1>5, NothingListed, EmptyIsDocument DEF RenameFails, TypeOK, ListInv
  <2>4. \A u \in Threads : pc'[u] \in {"read", "append"} =>
           /\ pc'[u] = pc[u] /\ Entries(u)' = Entries(u)
           /\ entry'[u] = entry[u] /\ fresh'[u] = fresh[u] /\ pos'[u] = pos[u]
    BY <1>5 DEF RenameFails, TypeOK, Entries, Object, FlowInv, Saving
  <2>5. Quietly
    BY <2>1, <2>2, <2>3, <2>4 DEF Quietly, ListInv
  <2>. QED BY <2>5, Quiet
<1>6. ASSUME NEW t \in Threads, Acquire(t) PROVE ListInv'
  <2>1. Quietly
    BY <1>6, ListedFacts DEF Acquire, Quietly, TypeOK, ListInv, Entries,
       Object, FlowInv, Saving
  <2>. QED BY <2>1, Quiet
<1>7. ASSUME NEW t \in Threads, ReadOne(t) PROVE ListInv'
  <2>. DEFINE e == Entries(t)[pos[t]]
  <2>1. /\ Entries(t) \in Seq(Requests) /\ pos[t] \in 1..Len(Entries(t)) /\ pos[t] \in Nat
        /\ e \in Requests /\ fresh[t] \in Seq(Requests) /\ pc[t] = "read"
        /\ Rebuilt(t) /\ Listed(Entries(t), added)
    BY <1>7 DEF ReadOne, TypeOK, Entries, ListInv
  <2>2. UNCHANGED <<deployed, mem, disk, tmp, text, pc, entry, added>>
    BY <1>7 DEF ReadOne
  <2>3. /\ \A u \in Threads : Entries(u)' = Entries(u)
        /\ \A u \in Threads : u # t => fresh'[u] = fresh[u] /\ pos'[u] = pos[u]
        /\ pos'[t] = pos[t] + 1
        /\ fresh'[t] = IF e.key = entry[t].key THEN fresh[t] ELSE Append(fresh[t], e)
    BY <1>7, <2>2 DEF ReadOne, TypeOK, Entries, Object
  <2>4. Rebuilt(t)'
    <3>. DEFINE rest == {j \in 1..Len(Entries(t)) : j >= pos[t] + 1}
    <3>1. \A j \in rest : e.key # Entries(t)[j].key /\ e.id < Entries(t)[j].id
      BY <2>1 DEF Listed, TypeOK
    <3>2. CASE e.key = entry[t].key
      <4>1. UNCHANGED <<Entries(t), fresh[t], entry[t], added>>
        BY <2>2, <2>3, <3>2
      <4>2. \A j \in 1..Len(Entries(t)) : j >= pos'[t] => j >= pos[t]
        BY <2>1, <2>3
      <4>. QED BY <2>1, <4>1, <4>2 DEF Rebuilt
    <3>3. CASE e.key # entry[t].key
      <4>1. \A i \in 1..Len(fresh[t]) : fresh[t][i].id < e.id /\ fresh[t][i].key # e.key
        BY <2>1 DEF Rebuilt
      <4>2. e.id <= added
        BY <2>1 DEF Listed
      <4>3. Listed(Append(fresh[t], e), added)
        <5>1. /\ fresh[t] \in Seq(Requests) /\ added \in Nat /\ added <= added
              /\ e \in Requests /\ Listed(fresh[t], added)
          BY <2>1 DEF Rebuilt
        <5>. HIDE DEF e, rest
        <5>. QED BY <4>1, <4>2, <5>1, ListedFacts
      <4>4. /\ Len(Append(fresh[t], e)) = Len(fresh[t]) + 1 /\ Len(fresh[t]) \in Nat
            /\ \A i \in 1..Len(fresh[t]) : Append(fresh[t], e)[i] = fresh[t][i]
            /\ Append(fresh[t], e)[Len(fresh[t]) + 1] = e
        BY <2>1
      <4>. QED BY <2>1, <2>2, <2>3, <3>1, <3>3, <4>3, <4>4 DEF Rebuilt
    <3>. QED BY <3>2, <3>3
  <2>5. ASSUME NEW u \in Threads, u # t, pc[u] = "read" PROVE Rebuilt(u)'
    <3>1. Rebuilt(u)
      BY <2>5 DEF ListInv
    <3>2. UNCHANGED <<Entries(u), fresh[u], pos[u], entry[u], added>>
      BY <2>2, <2>3, <2>5
    <3>. QED BY <3>1, <3>2 DEF Rebuilt
  <2>. QED BY <2>1, <2>2, <2>3, <2>4, <2>5 DEF ListInv
<1>8. ASSUME NEW t \in Threads, Bind(t) PROVE ListInv'
  <2>1. /\ pc[t] = "read" /\ fresh[t] \in Seq(Requests) /\ Rebuilt(t)
        /\ \A o \in Objects : mem'[o].entries = IF o = Object(t) THEN fresh[t] ELSE mem[o].entries
    BY <1>8, MemList DEF Bind, TypeOK, ListInv
  <2>2. UNCHANGED <<deployed, disk, tmp, text, entry, added>>
    BY <1>8 DEF Bind
  <2>3. \A u \in Threads : u # t => /\ pc'[u] = pc[u] /\ fresh'[u] = fresh[u] /\ pos'[u] = pos[u]
                                    /\ Object(u)' = Object(u)
    BY <1>8, <2>2 DEF Bind, TypeOK, Object
  <2>4. pc'[t] # "read" /\ Entries(t)' = fresh[t]
    BY <1>8, <2>1, <2>2 DEF Bind, TypeOK, Entries, Object
  <2>5. ASSUME NEW u \in Threads, u # t, pc[u] \in {"read", "append"}
        PROVE  Entries(u)' = Entries(u)
    BY <2>1, <2>3, <2>5, Alone DEF Entries
  <2>6. ASSUME NEW u \in Threads, u # t, pc[u] = "read" PROVE Rebuilt(u)'
    BY <2>2, <2>3, <2>5, <2>6 DEF ListInv, Rebuilt
  <2>. QED BY <2>1, <2>2, <2>3, <2>4, <2>5, <2>6 DEF ListInv, Rebuilt
<1>9. ASSUME NEW t \in Threads, AppendEntry(t) PROVE ListInv'
  <2>. DEFINE e == [key |-> entry[t].key, id |-> added + 1]
  <2>1. /\ pc[t] = "append" /\ e \in Requests /\ added' = added + 1
        /\ Entries(t) \in Seq(Requests) /\ Listed(Entries(t), added)
        /\ \A i \in 1..Len(Entries(t)) : Entries(t)[i].key # entry[t].key
    <3>1. pc[t] = "append" /\ added' = added + 1 /\ entry[t] \in Requests
      BY <1>9 DEF AppendEntry, FlowInv
    <3>2. e \in Requests
      BY <3>1 DEF Requests
    <3>. QED BY <3>1, <3>2 DEF ListInv, Entries
  <2>2. PICK s \in Seq(Requests) : s = Append(Entries(t), e)
    <3>1. Append(Entries(t), e) \in Seq(Requests)
      BY <2>1
    <3>. QED BY <3>1
  <2>3. Listed(s, added')
    <3>1. ASSUME NEW i \in 1..Len(Entries(t)) PROVE Entries(t)[i].id < e.id
      <4>1. Entries(t)[i] \in Requests
        BY <2>1, ElementOfSeq
      <4>2. Entries(t)[i].id \in Nat /\ Entries(t)[i].id <= added
        BY <2>1, <4>1 DEF Listed, Requests
      <4>. QED BY <4>2
    <3>. QED BY <2>1, <2>2, <3>1, ListedFacts
  <2>4. mem' = [mem EXCEPT ![Object(t)].entries = s]
    BY <1>9, <2>2 DEF AppendEntry, Entries
  <2>5. \A o \in Objects : mem'[o].entries = IF o = Object(t) THEN s ELSE mem[o].entries
    BY <2>4, MemList DEF TypeOK
  <2>6. UNCHANGED <<deployed, disk, tmp, text, fresh, pos>>
    BY <1>9 DEF AppendEntry
  <2>7. /\ pc'[t] = "save"
        /\ \A u \in Threads : u # t => /\ pc'[u] = pc[u] /\ entry'[u] = entry[u]
                                       /\ Object(u)' = Object(u)
    BY <1>9, <2>6 DEF AppendEntry, TypeOK, Object
  <2>8. ASSUME NEW u \in Threads, u # t, pc[u] \in {"read", "append"}
        PROVE  Entries(u)' = Entries(u)
    BY <2>1, <2>5, <2>7, <2>8, Alone DEF Entries
  <2>9. \A q \in Seq(Requests) : Listed(q, added) => Listed(q, added')
    BY <2>1, ListedFacts
  <2>10. ASSUME NEW u \in Threads, u # t, pc[u] = "read" PROVE Rebuilt(u)'
    BY <2>6, <2>7, <2>8, <2>9, <2>10 DEF ListInv, Rebuilt, TypeOK
  <2>11. \A f \in {disk, tmp} : Load(f).entries \in Seq(Requests)
    BY LoadIsDocument DEF TypeOK, Documents
  <2>12. \A u \in Threads : text[u].entries \in Seq(Requests)
    BY DEF TypeOK, Documents
  <2>. QED BY <2>3, <2>5, <2>6, <2>7, <2>8, <2>9, <2>10, <2>11, <2>12 DEF
              ListInv
<1>10. ASSUME NEW t \in Threads, Reply(t) PROVE ListInv'
  <2>1. Quietly
    BY <1>10, ListedFacts DEF Reply, Quietly, TypeOK, ListInv, Entries,
       Object, FlowInv, Saving
  <2>. QED BY <2>1, Quiet
<1>11. ASSUME NEW t \in Threads, Peek(t) PROVE ListInv'
  <2>1. Quietly
    BY <1>11, ListedFacts DEF Peek, Quietly, TypeOK, ListInv, Entries, Object,
       FlowInv, Saving
  <2>. QED BY <2>1, Quiet
<1>12. ASSUME NEW t \in Threads, DropKing(t) PROVE ListInv'
  <2>1. Quietly
    BY <1>12, ListedFacts DEF DropKing, Quietly, TypeOK, ListInv, Entries,
       Object, FlowInv, Saving
  <2>. QED BY <2>1, Quiet
<1>13. ASSUME NEW t \in Threads, AdvanceBlock(t) PROVE ListInv'
  <2>1. \A o \in Objects : mem'[o].entries = mem[o].entries
    BY <1>13, MemBlock DEF AdvanceBlock, TypeOK, FlowInv, Objects
  <2>2. Quietly
    <3>1. /\ UNCHANGED <<deployed, disk, tmp, text, fresh, pos, entry, added>>
          /\ pc'[t] = "save" /\ \A u \in Threads : u # t => pc'[u] = pc[u]
      BY <1>13 DEF AdvanceBlock, TypeOK
    <3>. QED BY <2>1, <3>1 DEF Quietly, ListInv, Entries, Object
  <2>. QED BY <2>2, Quiet
<1>14. ASSUME NEW t \in Threads, Pop(t) PROVE ListInv'
  <2>1. t \in Objects /\ Object(t) = t /\ pc[t] \in DOMAIN AfterPop
    BY <1>14, OwnObject, ThreadsAssumption DEF Pop, AfterPop, FlowInv, Objects
  <2>2. CASE Entries(t) = <<>>
    <3>1. Quietly
      BY <1>14, <2>1, <2>2 DEF Pop, Quietly, TypeOK, ListInv, Entries, Object,
         AfterPop
    <3>. QED BY <3>1, Quiet
  <2>3. CASE Entries(t) # <<>>
    <3>1. mem[t].entries # <<>> /\ mem[t].entries \in Seq(Requests)
      BY <2>1, <2>3 DEF Entries
    <3>2. Tail(mem[t].entries) \in Seq(Requests)
      BY <3>1, HeadTailProperties
    <3>3. PICK s \in Seq(Requests) : s = Tail(mem[t].entries)
      BY <3>2
    <3>4. /\ Len(s) = Len(mem[t].entries) - 1 /\ Len(s) \in Nat
          /\ \A i \in 1..Len(s) : s[i] = mem[t].entries[i + 1] /\ i + 1 \in 1..Len(mem[t].entries)
      BY <3>1, <3>3, HeadTailProperties
    <3>5. Listed(s, added)
      BY <2>1, <3>1, <3>3, ListedFacts DEF ListInv
    <3>6. mem' = [mem EXCEPT ![t].entries = s]
      BY <1>14, <2>3, <3>3 DEF Pop
    <3>7. \A o \in Objects : mem'[o].entries = IF o = t THEN s ELSE mem[o].entries
      BY <2>1, <3>6, MemList DEF TypeOK
    <3>8. UNCHANGED <<deployed, disk, tmp, text, fresh, pos, entry, added>>
      BY <1>14 DEF Pop
    <3>9. /\ pc'[t] = "save" /\ \A u \in Threads : u # t => pc'[u] = pc[u]
          /\ \A u \in Threads : Object(u)' = Object(u)
      BY <1>14, <2>3, <3>8 DEF Pop, TypeOK, Object
    <3>10. ASSUME NEW u \in Threads
           PROVE  \/ Entries(u)' = Entries(u)
                  \/ /\ Entries(u)' = s /\ Entries(u) = mem[t].entries
      BY <3>7, <3>9 DEF Entries
    <3>11. ASSUME NEW u \in Threads, u # t, pc[u] = "read" PROVE Rebuilt(u)'
      <4>1. Rebuilt(u) /\ pos[u] \in Nat
        BY <3>11 DEF ListInv, TypeOK
      <4>2. CASE Entries(u)' = Entries(u)
        BY <3>8, <4>1, <4>2 DEF Rebuilt
      <4>3. CASE Entries(u)' = s /\ Entries(u) = mem[t].entries
        <5>1. \A j \in 1..Len(s) : j >= pos[u] => j + 1 >= pos[u]
          BY <3>4, <4>1
        <5>2. \A j \in 1..Len(s) : j >= pos[u] =>
                 \E k \in 1..Len(Entries(u)) : k >= pos[u] /\ s[j] = Entries(u)[k]
          BY <3>4, <4>3, <5>1
        <5>3. /\ UNCHANGED <<fresh[u], pos[u], entry[u], added>>
              /\ Listed(fresh[u], added)
          BY <3>8, <4>1 DEF Rebuilt
        <5>4. ASSUME NEW i \in 1..Len(fresh[u]), NEW j \in 1..Len(s), j >= pos[u]
              PROVE  fresh[u][i].key # s[j].key /\ fresh[u][i].id < s[j].id
          BY <4>1, <5>2, <5>4 DEF Rebuilt
        <5>5. \A i \in 1..Len(fresh[u]) : fresh[u][i].key # entry[u].key
          BY <4>1 DEF Rebuilt
        <5>. QED BY <4>3, <5>3, <5>4, <5>5 DEF Rebuilt
      <4>. QED BY <3>10, <4>2, <4>3
    <3>12. ASSUME NEW u \in Threads, u # t, pc[u] = "append"
           PROVE  \A i \in 1..Len(Entries(u)') : Entries(u)'[i].key # entry'[u].key
      <4>1. \A i \in 1..Len(Entries(u)) : Entries(u)[i].key # entry[u].key
        BY <3>12 DEF ListInv
      <4>2. CASE Entries(u)' = Entries(u)
        BY <3>8, <4>1, <4>2
      <4>3. CASE Entries(u)' = s /\ Entries(u) = mem[t].entries
        BY <3>4, <3>8, <4>1, <4>3
      <4>. QED BY <3>10, <4>2, <4>3
    <3>. QED BY <3>5, <3>7, <3>8, <3>9, <3>11, <3>12 DEF ListInv
  <2>. QED BY <2>2, <2>3
<1>15. ASSUME NEW t \in Threads, MarkInProgress(t) PROVE ListInv'
  <2>1. \A o \in Objects : mem'[o].entries = mem[o].entries
    BY <1>15, MemMark DEF MarkInProgress, TypeOK, FlowInv, Objects
  <2>2. Quietly
    BY <1>15, <2>1 DEF MarkInProgress, Quietly, TypeOK, ListInv, Entries,
       Object, FlowInv, Saving
  <2>. QED BY <2>2, Quiet
<1>16. ASSUME NEW t \in Threads, TakeUp(t) PROVE ListInv'
  <2>1. Quietly
    BY <1>16, ListedFacts DEF TakeUp, Quietly, TypeOK, ListInv, Entries,
       Object, FlowInv, Saving
  <2>. QED BY <2>1, Quiet
<1>17. ASSUME NEW t \in Threads, FinishDuel(t) PROVE ListInv'
  <2>1. \A o \in Objects : mem'[o].entries = mem[o].entries
    BY <1>17, MemMark DEF FinishDuel, TypeOK, FlowInv, Objects
  <2>2. Quietly
    BY <1>17, <2>1 DEF FinishDuel, Quietly, TypeOK, ListInv, Entries, Object,
       FlowInv, Saving
  <2>. QED BY <2>2, Quiet
<1>18. ASSUME NEW t \in Threads, Submit(t) PROVE ListInv'
  <2>1. Quietly
    BY <1>18, ListedFacts DEF Submit, Quietly, TypeOK, ListInv, Entries,
       Object, FlowInv, Saving
  <2>. QED BY <2>1, Quiet
<1>19. ASSUME NEW t \in Threads, CallRemove(t) PROVE ListInv'
  <2>1. Quietly
    BY <1>19, ListedFacts DEF CallRemove, Quietly, TypeOK, ListInv, Entries,
       Object, FlowInv, Saving
  <2>. QED BY <2>1, Quiet
<1>20. ASSUME NEW t \in Threads, Health(t) PROVE ListInv'
  <2>1. Quietly
    BY <1>20, ListedFacts DEF Health, Quietly, TypeOK, ListInv, Entries,
       Object, FlowInv, Saving
  <2>. QED BY <2>1, Quiet
<1>21. ASSUME NEW t \in Threads, Poll(t) PROVE ListInv'
  <2>1. Quietly
    BY <1>21, ListedFacts DEF Poll, Quietly, TypeOK, ListInv, Entries, Object,
       FlowInv, Saving
  <2>. QED BY <2>1, Quiet
<1>22. ASSUME NEW o \in Objects, Start(o) PROVE ListInv'
  <2>1. Quietly
    BY <1>22, EmptyIsDocument DEF Start, Quietly, Saving, TypeOK, ListInv,
       Entries, Object, FlowInv, ThreadsOf, Listed
  <2>. QED BY <2>1, Quiet
<1>23. ASSUME NEW o \in Objects, Crash(o) PROVE ListInv'
  <2>1. Quietly
    BY <1>23, EmptyIsDocument DEF Crash, Quietly, TypeOK, ListInv, Entries,
       Object, FlowInv, ThreadsOf, Listed
  <2>. QED BY <2>1, Quiet
<1>24. CASE UNCHANGED vars
  <2>1. Quietly
    BY <1>24 DEF Quietly, TypeOK, ListInv, Entries, Object
  <2>. QED BY <2>1, Quiet
<1>. QED BY <1>1, <1>2, <1>3, <1>4, <1>5, <1>6, <1>7, <1>8, <1>9, <1>10,
            <1>11, <1>12, <1>13, <1>14, <1>15, <1>16, <1>17, <1>18, <1>19,
            <1>20, <1>21, <1>22, <1>23, <1>24 DEF Next, Work
-----------------------------------------------------------------------------
(* No `icilval queue` command runs next to another process that saves.     *)
LoneCommands == \A d \in Deployments : \A c \in d \cap Commands : d = {c}

(* The deployment does not change.                                         *)
LEMMA SameDeployment == [Next]_vars => deployed' = deployed
BY DEF Next, vars, Work, BuildText, OpenTmp, WriteTmp, Rename, RenameFails,
       Acquire, ReadOne, Bind, AppendEntry, Reply, Peek, DropKing, AdvanceBlock,
       Pop, MarkInProgress, TakeUp, FinishDuel, Submit, CallRemove, Health, Poll,
       Start, Crash
(* Two threads never save at the same time where they are apart.           *)
LEMMA OneSaver ==
    ASSUME TypeOK, FlowInv, LoneCommands, Apart,
           NEW t \in deployed, pc[t] \in Saving \cup {"read", "append", "reply"},
           NEW u \in deployed, pc[u] \in Saving \cup {"read", "append", "reply"}
    PROVE  t = u
<1>1. t \in Threads /\ u \in Threads /\ deployed \in Deployments
  BY DeploymentsAssumption DEF TypeOK
<1>2. CASE t \in Commands \/ u \in Commands
  BY <1>1, <1>2 DEF LoneCommands
<1>3. CASE deployed \subseteq Validators
  BY <1>3, ThreadsAssumption
<1>4. CASE t \in Handlers /\ u \in Handlers
  BY <1>1, <1>4 DEF FlowInv
<1>. QED BY <1>1, <1>2, <1>3, <1>4 DEF Apart, Threads

(* Every step keeps the file whole.                                        *)
LEMMA StepWhole ==
    ASSUME TypeOK, FlowInv, FileInv, LoneCommands, [Next]_vars
    PROVE  FileInv'
<1>. SUFFICES ASSUME Apart PROVE FileInv'
  BY SameDeployment DEF Apart, FileInv
<1>. USE DEF vars, files, locals, history, At, Goto, CallSave
<1>. DEFINE Busy(t) == pc[t] \in {"save", "open", "write", "rename"}
<1>0. /\ deployed \subseteq Threads
      /\ \A t \in Threads : pc[t] # "down" => t \in deployed
      /\ \A t, u \in deployed : Busy(t) /\ Busy(u) => t = u
  BY OneSaver, DeploymentsAssumption DEF TypeOK, FlowInv, Saving
<1>1. ASSUME NEW t \in Threads, BuildText(t) PROVE FileInv'
  BY <1>0, <1>1, MarkersAssumption DEF BuildText, TypeOK, FileInv, FlowInv,
     Saving, Apart, AfterPop, Written
<1>2. ASSUME NEW t \in Threads, OpenTmp(t) PROVE FileInv'
  BY <1>0, <1>2, MarkersAssumption DEF OpenTmp, TypeOK, FileInv, FlowInv,
     Saving, Apart, AfterPop, Written
<1>3. ASSUME NEW t \in Threads, WriteTmp(t) PROVE FileInv'
  BY <1>0, <1>3, MarkersAssumption DEF WriteTmp, TypeOK, FileInv, FlowInv,
     Saving, Apart, AfterPop, Written
<1>4. ASSUME NEW t \in Threads, Rename(t) PROVE FileInv'
  <2>1. t \in deployed /\ pc[t] = "rename" /\ tmp = text[t] /\ tmp \in Documents
    BY <1>0, <1>4 DEF Rename, TypeOK, FileInv, Saving
  <2>2. \A u \in deployed : fd[u] = "none" /\ (u # t => pc[u] \notin {"write", "rename"})
    BY <1>0, <2>1 DEF FileInv
  <2>3. \A u \in deployed : fd'[u] = "none"
    BY <1>0, <1>4, <2>2 DEF Rename, TypeOK
  <2>4. pc'[t] \notin {"write", "rename"} /\ \A u \in deployed : u # t => pc'[u] = pc[u]
    BY <1>0, <1>4, <2>1 DEF Rename, TypeOK, FlowInv, Saving
  <2>5. disk' \notin {Empty, Torn} /\ deployed' = deployed
    BY <1>4, <2>1, MarkersAssumption DEF Rename
  <2>. QED BY <2>2, <2>3, <2>4, <2>5 DEF FileInv
<1>5. ASSUME NEW t \in Threads, RenameFails(t) PROVE FileInv'
  BY <1>0, <1>5, MarkersAssumption DEF RenameFails, TypeOK, FileInv, FlowInv,
     Saving, Apart, AfterPop, Written
<1>6. ASSUME NEW t \in Threads, Acquire(t) PROVE FileInv'
  BY <1>0, <1>6, MarkersAssumption DEF Acquire, TypeOK, FileInv, FlowInv,
     Saving, Apart, AfterPop, Written
<1>7. ASSUME NEW t \in Threads, ReadOne(t) PROVE FileInv'
  BY <1>0, <1>7, MarkersAssumption DEF ReadOne, TypeOK, FileInv, FlowInv,
     Saving, Apart, AfterPop, Written
<1>8. ASSUME NEW t \in Threads, Bind(t) PROVE FileInv'
  BY <1>0, <1>8, MarkersAssumption DEF Bind, TypeOK, FileInv, FlowInv, Saving,
     Apart, AfterPop, Written
<1>9. ASSUME NEW t \in Threads, AppendEntry(t) PROVE FileInv'
  BY <1>0, <1>9, MarkersAssumption DEF AppendEntry, TypeOK, FileInv, FlowInv,
     Saving, Apart, AfterPop, Written
<1>10. ASSUME NEW t \in Threads, Reply(t) PROVE FileInv'
  BY <1>0, <1>10, MarkersAssumption DEF Reply, TypeOK, FileInv, FlowInv,
     Saving, Apart, AfterPop, Written
<1>11. ASSUME NEW t \in Threads, Peek(t) PROVE FileInv'
  BY <1>0, <1>11, MarkersAssumption DEF Peek, TypeOK, FileInv, FlowInv,
     Saving, Apart, AfterPop, Written
<1>12. ASSUME NEW t \in Threads, DropKing(t) PROVE FileInv'
  BY <1>0, <1>12, MarkersAssumption DEF DropKing, TypeOK, FileInv, FlowInv,
     Saving, Apart, AfterPop, Written
<1>13. ASSUME NEW t \in Threads, AdvanceBlock(t) PROVE FileInv'
  BY <1>0, <1>13, MarkersAssumption DEF AdvanceBlock, TypeOK, FileInv,
     FlowInv, Saving, Apart, AfterPop, Written
<1>14. ASSUME NEW t \in Threads, Pop(t) PROVE FileInv'
  BY <1>0, <1>14, MarkersAssumption DEF Pop, TypeOK, FileInv, FlowInv, Saving,
     Apart, AfterPop, Written
<1>15. ASSUME NEW t \in Threads, MarkInProgress(t) PROVE FileInv'
  BY <1>0, <1>15, MarkersAssumption DEF MarkInProgress, TypeOK, FileInv,
     FlowInv, Saving, Apart, AfterPop, Written
<1>16. ASSUME NEW t \in Threads, TakeUp(t) PROVE FileInv'
  BY <1>0, <1>16, MarkersAssumption DEF TakeUp, TypeOK, FileInv, FlowInv,
     Saving, Apart, AfterPop, Written
<1>17. ASSUME NEW t \in Threads, FinishDuel(t) PROVE FileInv'
  BY <1>0, <1>17, MarkersAssumption DEF FinishDuel, TypeOK, FileInv, FlowInv,
     Saving, Apart, AfterPop, Written
<1>18. ASSUME NEW t \in Threads, Submit(t) PROVE FileInv'
  BY <1>0, <1>18, MarkersAssumption DEF Submit, TypeOK, FileInv, FlowInv,
     Saving, Apart, AfterPop, Written
<1>19. ASSUME NEW t \in Threads, CallRemove(t) PROVE FileInv'
  BY <1>0, <1>19, MarkersAssumption DEF CallRemove, TypeOK, FileInv, FlowInv,
     Saving, Apart, AfterPop, Written
<1>20. ASSUME NEW t \in Threads, Health(t) PROVE FileInv'
  BY <1>0, <1>20, MarkersAssumption DEF Health, TypeOK, FileInv, FlowInv,
     Saving, Apart, AfterPop, Written
<1>21. ASSUME NEW t \in Threads, Poll(t) PROVE FileInv'
  BY <1>0, <1>21, MarkersAssumption DEF Poll, TypeOK, FileInv, FlowInv,
     Saving, Apart, AfterPop, Written
<1>22. ASSUME NEW o \in Objects, Start(o) PROVE FileInv'
  BY <1>0, <1>22 DEF Start, TypeOK, FileInv, Apart, ThreadsOf
<1>23. ASSUME NEW o \in Objects, Crash(o) PROVE FileInv'
  BY <1>0, <1>23 DEF Crash, TypeOK, FileInv, Apart, ThreadsOf
<1>24. CASE UNCHANGED vars
  BY <1>24 DEF FileInv, Apart
<1>. QED BY <1>1, <1>2, <1>3, <1>4, <1>5, <1>6, <1>7, <1>8, <1>9, <1>10,
            <1>11, <1>12, <1>13, <1>14, <1>15, <1>16, <1>17, <1>18, <1>19,
            <1>20, <1>21, <1>22, <1>23, <1>24 DEF Next, Work
(* The numbers in a list that grows at its end and shrinks at its head.    *)
LEMMA IdsFacts ==
    /\ IdsOf(<<>>) = {}
    /\ \A s \in Seq(Requests) : \A i \in 1..Len(s) : s[i].id \in IdsOf(s)
    /\ \A s \in Seq(Requests), e \in Requests : IdsOf(Append(s, e)) = IdsOf(s) \cup {e.id}
    /\ \A s \in Seq(Requests) : s # <<>> => /\ IdsOf(Tail(s)) \subseteq IdsOf(s)
                                             /\ Head(s).id \in IdsOf(s)
    /\ \A s \in Seq(Requests), n \in Nat :
         Listed(s, n) /\ s # <<>> => Head(s).id \notin IdsOf(Tail(s))
<1>1. IdsOf(<<>>) = {}
  BY DEF IdsOf
<1>2. \A s \in Seq(Requests) : \A i \in 1..Len(s) : s[i].id \in IdsOf(s)
  BY DEF IdsOf
<1>3. ASSUME NEW s \in Seq(Requests), NEW e \in Requests
      PROVE  IdsOf(Append(s, e)) = IdsOf(s) \cup {e.id}
  <2>1. /\ Len(s) \in Nat /\ DOMAIN s = 1..Len(s) /\ DOMAIN Append(s, e) = 1..(Len(s) + 1)
        /\ \A i \in 1..Len(s) : Append(s, e)[i] = s[i]
        /\ Append(s, e)[Len(s) + 1] = e
    OBVIOUS
  <2>. QED BY <2>1 DEF IdsOf
<1>4. ASSUME NEW s \in Seq(Requests), s # <<>>
      PROVE  /\ \A i \in DOMAIN Tail(s) : i + 1 \in 2..Len(s) /\ Tail(s)[i] = s[i + 1]
             /\ Head(s) = s[1] /\ 1 \in 1..Len(s) /\ DOMAIN s = 1..Len(s) /\ Len(s) \in Nat
  <2>1. Tail(s) \in Seq(Requests) /\ Len(Tail(s)) = Len(s) - 1 /\ Len(s) \in Nat \ {0}
    BY <1>4, HeadTailProperties, EmptySeq
  <2>2. DOMAIN Tail(s) = 1..(Len(s) - 1)
    BY <2>1
  <2>3. \A i \in DOMAIN Tail(s) : Tail(s)[i] = s[i + 1]
    BY <1>4, <2>1, <2>2, HeadTailProperties
  <2>. QED BY <1>4, <2>1, <2>2, <2>3
<1>5. ASSUME NEW s \in Seq(Requests), s # <<>>
      PROVE  IdsOf(Tail(s)) \subseteq IdsOf(s) /\ Head(s).id \in IdsOf(s)
  BY <1>4, <1>5 DEF IdsOf
<1>6. ASSUME NEW s \in Seq(Requests), NEW n \in Nat, Listed(s, n), s # <<>>
      PROVE  Head(s).id \notin IdsOf(Tail(s))
  <2>1. \A i \in 2..Len(s) : s[1].id < s[i].id
    BY <1>4, <1>6 DEF Listed
  <2>2. \A i \in 1..Len(s) : s[i].id \in Nat
    <3>1. \A i \in 1..Len(s) : s[i] \in Requests
      BY ElementOfSeq
    <3>. QED BY <3>1 DEF Requests
  <2>. QED BY <1>4, <1>6, <2>1, <2>2 DEF IdsOf
<1>. QED BY <1>1, <1>2, <1>3, <1>5, <1>6

(* Without a daemon, those who run share one object.                       *)
LEMMA OneObject ==
    ASSUME deployed \in Deployments, LoneCommands, deployed \cap Validators = {},
           NEW t \in deployed, NEW u \in deployed
    PROVE  Object(t) = Object(u)
BY DeploymentsAssumption DEF LoneCommands, Object, Threads

(* Every step keeps what was acknowledged.                                 *)
LEMMA StepAcked ==
    ASSUME TypeOK, FlowInv, ListInv, FileInv, AckInv, LoneCommands, [Next]_vars
    PROVE  AckInv'
<1>. SUFFICES ASSUME deployed \cap Validators = {} PROVE AckInv'
  BY SameDeployment DEF AckInv
<1>. USE DEF vars, files, locals, history, At, Goto, CallSave
<1>. DEFINE Busy(t) == pc[t] \in {"save", "open", "write", "rename", "read", "append", "reply"}
<1>0. /\ deployed \subseteq Threads /\ deployed \in Deployments
      /\ \A t \in Threads : pc[t] # "down" => t \in deployed
      /\ \A t, u \in deployed : Busy(t) /\ Busy(u) => t = u
      /\ \A t, u \in deployed : Object(t) = Object(u)
      /\ \A t \in Threads : Object(t) \in Objects
      /\ \A t \in deployed : t \notin Validators
  BY OneSaver, OneObject, ObjectsAre, DeploymentsAssumption DEF TypeOK,
     FlowInv, Saving, Apart
<1>1. ASSUME NEW t \in Threads, BuildText(t) PROVE AckInv'
  BY <1>0, <1>1, MarkersAssumption DEF BuildText, TypeOK, AckInv, FileInv,
     FlowInv, Saving, Apart, OnDisk, Held, Entries, Object
<1>2. ASSUME NEW t \in Threads, OpenTmp(t) PROVE AckInv'
  BY <1>0, <1>2, MarkersAssumption DEF OpenTmp, TypeOK, AckInv, FileInv,
     FlowInv, Saving, Apart, OnDisk, Held, Entries, Object
<1>3. ASSUME NEW t \in Threads, WriteTmp(t) PROVE AckInv'
  BY <1>0, <1>3, MarkersAssumption DEF WriteTmp, TypeOK, AckInv, FileInv,
     FlowInv, Saving, Apart, OnDisk, Held, Entries, Object
<1>4. ASSUME NEW t \in Threads, Rename(t) PROVE AckInv'
  <2>1. t \in deployed /\ pc[t] = "rename" /\ tmp = text[t] /\ tmp \in Documents
    BY <1>0, <1>4 DEF Rename, TypeOK, FileInv, Apart
  <2>2. text[t] = mem[Object(t)]
    BY <2>1 DEF AckInv
  <2>3. OnDisk' = Held(t)
    <3>1. Load(disk') = tmp
      BY <1>4, <2>1, MarkersAssumption DEF Rename, Load
    <3>. QED BY <2>1, <2>2, <3>1 DEF OnDisk, Held, Entries
  <2>4. UNCHANGED <<deployed, mem, entry, fresh, pos, acked, withdrawn>>
    BY <1>4 DEF Rename
  <2>5. \A u \in deployed : Object(u)' = Object(u)
    BY <2>4 DEF Object
  <2>6. \A u \in deployed : Entries(u)' = Entries(u) /\ Held(u)' = Held(u) /\ Held(u) = Held(t)
    BY <1>0, <2>1, <2>4, <2>5 DEF Entries, Held
  <2>7. /\ pc'[t] = ret[t] /\ ret[t] \in {"reply", "down"}
        /\ \A u \in deployed : u # t => pc'[u] = pc[u] /\ ~Busy(u)
    BY <1>0, <1>4, <2>1 DEF Rename, TypeOK, FlowInv, Saving
  <2>8. /\ acked \subseteq OnDisk \cup withdrawn /\ OnDisk \subseteq Held(t) \cup withdrawn
        /\ ret[t] = "reply" => entry[t].id \in Held(t)
    BY <2>1 DEF AckInv, Saving
  <2>. QED BY <2>1, <2>3, <2>4, <2>6, <2>7, <2>8 DEF AckInv, Saving
<1>5. ASSUME NEW t \in Threads, RenameFails(t) PROVE AckInv'
  BY <1>0, <1>5, MarkersAssumption DEF RenameFails, TypeOK, AckInv, FileInv,
     FlowInv, Saving, Apart, OnDisk, Held, Entries, Object
<1>6. ASSUME NEW t \in Threads, Acquire(t) PROVE AckInv'
  <2>1. /\ t \in deployed \/ pc[t] = "idle"
        /\ UNCHANGED <<deployed, mem, disk, text, fresh, pos, acked, withdrawn>>
        /\ pc[t] \in {"idle", "lock"} /\ pc'[t] \in {"lock", "read"}
        /\ \A u \in Threads : u # t => pc'[u] = pc[u] /\ ret'[u] = ret[u] /\ entry'[u] = entry[u]
        /\ pos[t] = 1
    BY <1>0, <1>6 DEF Acquire, TypeOK, FlowInv
  <2>2. /\ OnDisk' = OnDisk
        /\ \A u \in deployed : Object(u)' = Object(u)
        /\ \A u \in deployed : Entries(u)' = Entries(u)
        /\ \A u \in deployed : Held(u)' = Held(u)
    BY <2>1 DEF OnDisk, Held, Entries, Object
  <2>3. ASSUME NEW u \in deployed, pc'[u] = "read", NEW j \in 1..Len(Entries(u)), j < pos[u]
        PROVE  u # t
    BY <2>1, <2>3
  <2>. QED BY <1>0, <2>1, <2>2, <2>3 DEF AckInv, Saving
<1>7. ASSUME NEW t \in Threads, ReadOne(t) PROVE AckInv'
  <2>. DEFINE e == Entries(t)[pos[t]]
  <2>1. /\ t \in deployed /\ pc[t] = "read" /\ pos[t] \in 1..Len(Entries(t)) /\ pos[t] \in Nat
        /\ e \in Requests /\ fresh[t] \in Seq(Requests)
    <3>1. pc[t] = "read" /\ Entries(t) \in Seq(Requests)
      BY <1>0, <1>7 DEF ReadOne, TypeOK, Entries, Documents
    <3>. QED BY <1>0, <1>7, <3>1 DEF ReadOne, TypeOK
  <2>2. UNCHANGED <<deployed, mem, disk, text, pc, ret, entry, acked, withdrawn>>
    BY <1>7 DEF ReadOne
  <2>3. /\ \A u \in deployed : Object(u)' = Object(u)
        /\ \A u \in deployed : Entries(u)' = Entries(u)
        /\ \A u \in deployed : Held(u)' = Held(u)
        /\ OnDisk' = OnDisk
    BY <2>2 DEF OnDisk, Held, Entries, Object
  <2>4. /\ \A u \in deployed : u # t => fresh'[u] = fresh[u] /\ pos'[u] = pos[u]
        /\ pos'[t] = pos[t] + 1
        /\ fresh'[t] = IF e.key = entry[t].key THEN fresh[t] ELSE Append(fresh[t], e)
    BY <1>0, <1>7 DEF ReadOne, TypeOK
  <2>5. ASSUME NEW j \in 1..Len(Entries(t)), j < pos'[t]
        PROVE  Entries(t)[j].key = entry[t].key \/ Entries(t)[j].id \in IdsOf(fresh'[t])
    <3>1. IdsOf(fresh[t]) \subseteq IdsOf(fresh'[t])
      BY <2>1, <2>4, IdsFacts
    <3>2. CASE j < pos[t]
      BY <2>1, <3>1, <3>2 DEF AckInv
    <3>3. CASE j = pos[t]
      BY <2>1, <2>4, <3>3, IdsFacts
    <3>. QED BY <2>1, <2>4, <2>5, <3>2, <3>3
  <2>. QED BY <2>1, <2>2, <2>3, <2>4, <2>5 DEF AckInv
<1>8. ASSUME NEW t \in Threads, Bind(t) PROVE AckInv'
  <2>1. /\ t \in deployed /\ pc[t] = "read" /\ fresh[t] \in Seq(Requests) /\ pos[t] > Len(Entries(t))
        /\ mem' = [mem EXCEPT ![Object(t)].entries = fresh[t]]
    BY <1>0, <1>8 DEF Bind, TypeOK
  <2>2. \A o \in Objects : mem'[o].entries = IF o = Object(t) THEN fresh[t] ELSE mem[o].entries
    BY <1>0, <2>1, MemList DEF TypeOK
  <2>3. UNCHANGED <<deployed, disk, text, entry, acked>>
    BY <1>8 DEF Bind
  <2>4. /\ \A u \in deployed : Object(u)' = Object(t)
        /\ \A u \in deployed : Entries(u)' = fresh[t] /\ Entries(u) = Entries(t)
        /\ \A u \in deployed : Held(u)' = IdsOf(fresh[t]) /\ Held(u) = Held(t)
        /\ OnDisk' = OnDisk
    <3>1. \A u \in deployed : Object(u)' = Object(t) /\ Object(u) = Object(t)
      BY <1>0, <2>1, <2>3 DEF Object
    <3>. QED BY <1>0, <2>1, <2>2, <2>3, <3>1 DEF OnDisk, Held, Entries
  <2>5. Held(t) \subseteq IdsOf(fresh[t]) \cup withdrawn' /\ withdrawn \subseteq withdrawn'
    <3>1. ASSUME NEW i \in DOMAIN Entries(t)
          PROVE  Entries(t)[i].id \in IdsOf(fresh[t]) \cup withdrawn'
      <4>1. Len(Entries(t)) \in Nat /\ DOMAIN Entries(t) = 1..Len(Entries(t)) /\ pos[t] \in Nat
        BY <1>0, <2>1 DEF TypeOK, Documents, Entries
      <4>2. Entries(t)[i].key = entry[t].key \/ Entries(t)[i].id \in IdsOf(fresh[t])
        BY <2>1, <3>1, <4>1 DEF AckInv
      <4>. QED BY <1>8, <3>1, <4>2 DEF Bind, ToSet
    <3>2. withdrawn \subseteq withdrawn'
      BY <1>8 DEF Bind
    <3>. QED BY <3>1, <3>2 DEF Held, IdsOf
  <2>6. /\ pc'[t] \in {"append", "save"} /\ (pc'[t] = "save" => ret'[t] # "reply")
        /\ \A u \in deployed : u # t => pc'[u] = pc[u] /\ ~Busy(u)
    BY <1>0, <1>8, <2>1 DEF Bind, TypeOK, FlowInv
  <2>7. acked \subseteq OnDisk \cup withdrawn /\ OnDisk \subseteq Held(t) \cup withdrawn
    BY <2>1 DEF AckInv
  <2>. QED BY <2>1, <2>3, <2>4, <2>5, <2>6, <2>7 DEF AckInv, Saving
<1>9. ASSUME NEW t \in Threads, AppendEntry(t) PROVE AckInv'
  <2>. DEFINE e == [key |-> entry[t].key, id |-> added + 1]
  <2>1. /\ t \in deployed /\ pc[t] = "append" /\ e \in Requests /\ Entries(t) \in Seq(Requests)
    <3>1. pc[t] = "append" /\ entry[t] \in Requests /\ added \in Nat
      BY <1>0, <1>9 DEF AppendEntry, FlowInv, TypeOK
    <3>2. e \in Requests
      BY <3>1 DEF Requests
    <3>. QED BY <1>0, <3>1, <3>2 DEF TypeOK, Documents, Entries
  <2>2. PICK s \in Seq(Requests) : s = Append(Entries(t), e)
    <3>1. Append(Entries(t), e) \in Seq(Requests)
      BY <2>1
    <3>. QED BY <3>1
  <2>3. mem' = [mem EXCEPT ![Object(t)].entries = s]
    BY <1>9, <2>2 DEF AppendEntry, Entries
  <2>4. \A o \in Objects : mem'[o].entries = IF o = Object(t) THEN s ELSE mem[o].entries
    BY <1>0, <2>3, MemList DEF TypeOK
  <2>5. IdsOf(s) = Held(t) \cup {e.id}
    BY <2>1, <2>2, IdsFacts DEF Held
  <2>6. UNCHANGED <<deployed, disk, text, acked, withdrawn>>
    BY <1>9 DEF AppendEntry
  <2>7. /\ \A u \in deployed : Held(u)' = IdsOf(s) /\ Held(u) = Held(t)
        /\ OnDisk' = OnDisk
    <3>1. \A u \in deployed : Object(u)' = Object(t) /\ Object(u) = Object(t)
      BY <1>0, <2>1, <2>6 DEF Object
    <3>. QED BY <1>0, <2>4, <2>6, <3>1 DEF OnDisk, Held, Entries
  <2>8. /\ pc'[t] = "save" /\ entry'[t] = e
        /\ \A u \in deployed : u # t => pc'[u] = pc[u] /\ ~Busy(u)
    BY <1>0, <1>9, <2>1 DEF AppendEntry, TypeOK
  <2>. QED BY <2>1, <2>5, <2>6, <2>7, <2>8 DEF AckInv, Saving
<1>10. ASSUME NEW t \in Threads, Reply(t) PROVE AckInv'
  <2>1. /\ t \in deployed /\ pc[t] = "reply" /\ acked' = acked \cup {entry[t].id}
        /\ UNCHANGED <<deployed, mem, disk, text, fresh, pos, withdrawn, ret>>
        /\ pc'[t] \in {"idle", "down"}
        /\ \A u \in deployed : u # t => pc'[u] = pc[u] /\ entry'[u] = entry[u]
    BY <1>0, <1>10 DEF Reply, TypeOK
  <2>2. /\ OnDisk' = OnDisk
        /\ \A u \in deployed : Object(u)' = Object(u)
        /\ \A u \in deployed : Entries(u)' = Entries(u)
        /\ \A u \in deployed : Held(u)' = Held(u)
    BY <2>1 DEF OnDisk, Held, Entries, Object
  <2>. QED BY <2>1, <2>2 DEF AckInv, Saving
<1>11. ASSUME NEW t \in Threads, Peek(t) PROVE AckInv'
  BY <1>0, <1>11 DEF Peek, FlowInv, AfterPop
<1>12. ASSUME NEW t \in Threads, DropKing(t) PROVE AckInv'
  BY <1>0, <1>12 DEF DropKing, FlowInv, AfterPop
<1>13. ASSUME NEW t \in Threads, AdvanceBlock(t) PROVE AckInv'
  BY <1>0, <1>13 DEF AdvanceBlock, FlowInv, AfterPop
<1>14. ASSUME NEW t \in Threads, Pop(t) PROVE AckInv'
  BY <1>0, <1>14 DEF Pop, FlowInv, AfterPop
<1>15. ASSUME NEW t \in Threads, MarkInProgress(t) PROVE AckInv'
  BY <1>0, <1>15 DEF MarkInProgress, FlowInv, AfterPop
<1>16. ASSUME NEW t \in Threads, TakeUp(t) PROVE AckInv'
  BY <1>0, <1>16 DEF TakeUp, FlowInv, AfterPop
<1>17. ASSUME NEW t \in Threads, FinishDuel(t) PROVE AckInv'
  BY <1>0, <1>17 DEF FinishDuel, FlowInv, AfterPop
<1>18. ASSUME NEW t \in Threads, Submit(t) PROVE AckInv'
  <2>1. /\ t \in deployed \/ pc[t] = "idle"
        /\ UNCHANGED <<deployed, mem, disk, text, fresh, pos, acked, withdrawn>>
        /\ pc[t] \in {"idle", "lock"} /\ pc'[t] \in {"lock", "read"}
        /\ \A u \in Threads : u # t => pc'[u] = pc[u] /\ ret'[u] = ret[u] /\ entry'[u] = entry[u]
        /\ pos[t] = 1
    BY <1>0, <1>18 DEF Submit, TypeOK, FlowInv
  <2>2. /\ OnDisk' = OnDisk
        /\ \A u \in deployed : Object(u)' = Object(u)
        /\ \A u \in deployed : Entries(u)' = Entries(u)
        /\ \A u \in deployed : Held(u)' = Held(u)
    BY <2>1 DEF OnDisk, Held, Entries, Object
  <2>3. ASSUME NEW u \in deployed, pc'[u] = "read", NEW j \in 1..Len(Entries(u)), j < pos[u]
        PROVE  u # t
    BY <2>1, <2>3
  <2>. QED BY <1>0, <2>1, <2>2, <2>3 DEF AckInv, Saving
<1>19. ASSUME NEW t \in Threads, CallRemove(t) PROVE AckInv'
  <2>1. /\ t \in deployed \/ pc[t] = "idle"
        /\ UNCHANGED <<deployed, mem, disk, text, fresh, pos, acked, withdrawn>>
        /\ pc[t] \in {"idle", "lock"} /\ pc'[t] \in {"lock", "read"}
        /\ \A u \in Threads : u # t => pc'[u] = pc[u] /\ ret'[u] = ret[u] /\ entry'[u] = entry[u]
        /\ pos[t] = 1
    BY <1>0, <1>19 DEF CallRemove, TypeOK, FlowInv
  <2>2. /\ OnDisk' = OnDisk
        /\ \A u \in deployed : Object(u)' = Object(u)
        /\ \A u \in deployed : Entries(u)' = Entries(u)
        /\ \A u \in deployed : Held(u)' = Held(u)
    BY <2>1 DEF OnDisk, Held, Entries, Object
  <2>3. ASSUME NEW u \in deployed, pc'[u] = "read", NEW j \in 1..Len(Entries(u)), j < pos[u]
        PROVE  u # t
    BY <2>1, <2>3
  <2>. QED BY <1>0, <2>1, <2>2, <2>3 DEF AckInv, Saving
<1>20. ASSUME NEW t \in Threads, Health(t) PROVE AckInv'
  BY <1>20 DEF Health, AckInv, OnDisk, Held, Entries, Object
<1>21. ASSUME NEW t \in Threads, Poll(t) PROVE AckInv'
  BY <1>21 DEF Poll, AckInv, OnDisk, Held, Entries, Object
<1>22. ASSUME NEW o \in Objects, Start(o) PROVE AckInv'
  BY <1>0, <1>22 DEF Start, TypeOK, AckInv, OnDisk, Held, Entries, Object,
     ThreadsOf, Saving
<1>23. ASSUME NEW o \in Objects, Crash(o) PROVE AckInv'
  BY <1>0, <1>23 DEF Crash, TypeOK, AckInv, OnDisk, Held, Entries, Object,
     ThreadsOf, Saving
<1>24. CASE UNCHANGED vars
  BY <1>24 DEF AckInv, OnDisk, Held, Entries, Object
<1>. QED BY <1>1, <1>2, <1>3, <1>4, <1>5, <1>6, <1>7, <1>8, <1>9, <1>10,
            <1>11, <1>12, <1>13, <1>14, <1>15, <1>16, <1>17, <1>18, <1>19,
            <1>20, <1>21, <1>22, <1>23, <1>24 DEF Next, Work
(* Every step keeps what was taken up from being found again.              *)
LEMMA StepTaken ==
    ASSUME TypeOK, FlowInv, ListInv, FileInv, TakeInv, [Next]_vars
    PROVE  TakeInv'
<1>. SUFFICES ASSUME deployed \subseteq Validators PROVE TakeInv'
  BY SameDeployment DEF TakeInv
<1>. USE DEF vars, files, locals, history, At, Goto, CallSave
<1>0. /\ deployed \subseteq Threads
      /\ \A t \in Threads : pc[t] # "down" => t \in deployed
      /\ \A t, u \in deployed : t = u
      /\ \A t \in deployed : Object(t) = t /\ Object(t)' = t /\ t \in Objects
      /\ \A t \in deployed : t \in Validators /\ t \notin Handlers /\ t \notin Commands
      /\ \A t \in deployed : mem[t].entries \in Seq(Requests) /\ Listed(mem[t].entries, added)
      /\ added \in Nat
  BY ThreadsAssumption DEF TypeOK, FlowInv, ListInv, Object, Objects, Threads,
     Documents
<1>1. ASSUME NEW t \in Threads, BuildText(t) PROVE TakeInv'
  <2>1. /\ t \in deployed /\ OnDisk' = OnDisk /\ handled' = handled /\ deployed' = deployed
        /\ Entries(t)' = Entries(t) /\ Held(t)' = Held(t) /\ entry'[t] = entry[t]
    BY <1>0, <1>1 DEF BuildText, TypeOK, Entries, Held, OnDisk
  <2>. QED BY <1>0, <1>1, <2>1 DEF BuildText, TypeOK, TakeInv, TextIds,
              Heading, Saving, Before, After, FlowInv, Held, Entries
<1>2. ASSUME NEW t \in Threads, OpenTmp(t) PROVE TakeInv'
  <2>1. /\ t \in deployed /\ pc[t] = "open" /\ pc'[t] = "write"
        /\ UNCHANGED <<deployed, mem, disk, text, ret, entry, handled>>
    BY <1>0, <1>2 DEF OpenTmp, TypeOK
  <2>2. UNCHANGED <<OnDisk, Entries(t), Held(t), TextIds(t)>>
    BY <1>0, <2>1 DEF OnDisk, Entries, Held, TextIds
  <2>. QED BY <1>0, <2>1, <2>2 DEF TakeInv, Heading, Saving, Before, After
<1>3. ASSUME NEW t \in Threads, WriteTmp(t) PROVE TakeInv'
  <2>1. /\ t \in deployed /\ OnDisk' = OnDisk /\ handled' = handled /\ deployed' = deployed
        /\ Entries(t)' = Entries(t) /\ Held(t)' = Held(t) /\ entry'[t] = entry[t]
    BY <1>0, <1>3 DEF WriteTmp, FileInv, Apart, TypeOK, Entries, Held, OnDisk
  <2>. QED BY <1>0, <1>3, <2>1 DEF WriteTmp, TypeOK, TakeInv, TextIds,
              Heading, Saving, Before, After, FlowInv, Held, Entries
<1>4. ASSUME NEW t \in Threads, Rename(t) PROVE TakeInv'
  <2>1. /\ t \in deployed /\ pc[t] = "rename" /\ tmp = text[t] /\ tmp \in Documents
        /\ pc'[t] = ret[t] /\ ret'[t] = "idle"
        /\ UNCHANGED <<deployed, mem, entry, handled>>
    BY <1>0, <1>4 DEF Rename, TypeOK, FileInv, Apart
  <2>2. OnDisk' = TextIds(t) /\ TextIds(t)' = {} /\ Entries(t)' = Entries(t) /\ Held(t)' = Held(t)
    <3>1. Load(disk') = tmp
      BY <1>4, <2>1, MarkersAssumption DEF Rename, Load
    <3>2. pc'[t] \notin Saving
      BY <1>0, <2>1 DEF FlowInv, Saving
    <3>. QED BY <1>0, <2>1, <3>1, <3>2 DEF OnDisk, TextIds, Held, Entries,
                Saving
  <2>3. ret[t] \in {"popgenesis", "popduel", "take", "mark", "duel", "idle"}
    BY <1>0, <2>1 DEF FlowInv, Saving
  <2>. QED BY <1>0, <2>1, <2>2, <2>3 DEF TakeInv, Heading, Saving, Before, After
<1>5. ASSUME NEW t \in Threads, RenameFails(t) PROVE TakeInv'
  <2>1. t \in deployed /\ pc[t] = "rename" /\ tmp = NoFile /\ text[t] \in Documents
    BY <1>0, <1>5 DEF RenameFails, TypeOK
  <2>2. tmp = text[t]
    BY <1>0, <2>1 DEF FileInv, Apart
  <2>. QED BY <2>1, <2>2, MarkersAssumption
<1>6. ASSUME NEW t \in Threads, Acquire(t) PROVE TakeInv'
  BY <1>0, <1>6 DEF Acquire, FlowInv
<1>7. ASSUME NEW t \in Threads, ReadOne(t) PROVE TakeInv'
  BY <1>0, <1>7 DEF ReadOne, FlowInv
<1>8. ASSUME NEW t \in Threads, Bind(t) PROVE TakeInv'
  BY <1>0, <1>8 DEF Bind, FlowInv
<1>9. ASSUME NEW t \in Threads, AppendEntry(t) PROVE TakeInv'
  BY <1>0, <1>9 DEF AppendEntry, FlowInv
<1>10. ASSUME NEW t \in Threads, Reply(t) PROVE TakeInv'
  BY <1>0, <1>10 DEF Reply, FlowInv
<1>11. ASSUME NEW t \in Threads, Peek(t) PROVE TakeInv'
  <2>1. /\ t \in deployed /\ pc[t] = "idle" /\ pc'[t] = "peeked" /\ Entries(t) # <<>>
        /\ entry'[t] = Head(Entries(t)) /\ UNCHANGED <<deployed, mem, disk, text, handled>>
    BY <1>0, <1>11 DEF Peek, TypeOK
  <2>2. /\ UNCHANGED <<OnDisk, Entries(t), Held(t)>>
        /\ TextIds(t)' = {}
    BY <1>0, <2>1 DEF OnDisk, Entries, Held, TextIds
  <2>3. Head(Entries(t)) \in Requests /\ Head(Entries(t)).id \in Held(t)
    <3>1. Entries(t) \in Seq(Requests)
      BY <1>0, <2>1 DEF Entries
    <3>. QED BY <2>1, <3>1, IdsFacts, HeadTailProperties DEF Held
  <2>. QED BY <1>0, <2>1, <2>2, <2>3 DEF TakeInv, Heading, Saving, Before, After
<1>12. ASSUME NEW t \in Threads, DropKing(t) PROVE TakeInv'
  <2>1. /\ t \in deployed /\ OnDisk' = OnDisk /\ handled' = handled /\ deployed' = deployed
        /\ Entries(t)' = Entries(t) /\ Held(t)' = Held(t) /\ entry'[t] = entry[t]
    BY <1>0, <1>12 DEF DropKing, TypeOK, Entries, Held, OnDisk
  <2>. QED BY <1>0, <1>12, <2>1 DEF DropKing, TypeOK, TakeInv, TextIds,
              Heading, Saving, Before, After, FlowInv, Held, Entries
<1>13. ASSUME NEW t \in Threads, AdvanceBlock(t) PROVE TakeInv'
  <2>1. /\ t \in deployed /\ pc[t] = "peeked" /\ pc'[t] = "save" /\ ret'[t] \in Before
        /\ UNCHANGED <<deployed, disk, text, entry, handled>>
    BY <1>0, <1>13 DEF AdvanceBlock, TypeOK, Before
  <2>2. UNCHANGED <<OnDisk, Entries(t), Held(t), TextIds(t)>>
    BY <1>0, <1>13, <2>1, MemBlock DEF AdvanceBlock, TypeOK, OnDisk, Entries,
       Held, TextIds
  <2>. QED BY <1>0, <2>1, <2>2 DEF TakeInv, Heading, Saving, Before, After
<1>14. ASSUME NEW t \in Threads, Pop(t) PROVE TakeInv'
  <2>1. /\ t \in deployed /\ pc[t] \in {"popdrop", "popgenesis", "popduel"}
        /\ UNCHANGED <<deployed, disk, text, entry, handled>>
    BY <1>0, <1>14 DEF Pop, TypeOK, AfterPop
  <2>2. /\ Entries(t) # <<>> /\ Entries(t) \in Seq(Requests) /\ Entries(t) = mem[t].entries
        /\ entry[t] = Head(Entries(t)) /\ entry[t] \in Requests
    BY <1>0, <2>1 DEF TakeInv, Heading, Before, Entries
  <2>3. /\ pc'[t] = "save" /\ ret'[t] \in {"take", "mark"}
        /\ mem' = [mem EXCEPT ![t].entries = Tail(mem[t].entries)]
    BY <1>0, <1>14, <2>1, <2>2 DEF Pop, TypeOK, AfterPop
  <2>4. PICK s \in Seq(Requests) : s = Tail(mem[t].entries)
    <3>1. Tail(mem[t].entries) \in Seq(Requests)
      BY <2>2, HeadTailProperties
    <3>. QED BY <3>1
  <2>5. mem'[t].entries = s
    <3>1. mem' = [mem EXCEPT ![t].entries = s]
      BY <2>3, <2>4
    <3>. QED BY <1>0, <2>1, <3>1, MemList DEF TypeOK
  <2>6. /\ OnDisk' = OnDisk /\ Held(t)' = IdsOf(s) /\ TextIds(t)' = {}
        /\ IdsOf(s) \subseteq Held(t) /\ entry[t].id \notin IdsOf(s)
    BY <1>0, <2>1, <2>2, <2>3, <2>4, <2>5, IdsFacts DEF OnDisk, Held, Entries,
       TextIds
  <2>. QED BY <1>0, <2>1, <2>2, <2>3, <2>6 DEF TakeInv, Heading, Saving,
              Before, After
<1>15. ASSUME NEW t \in Threads, MarkInProgress(t) PROVE TakeInv'
  <2>1. /\ t \in deployed /\ OnDisk' = OnDisk /\ handled' = handled /\ deployed' = deployed
        /\ Entries(t)' = Entries(t) /\ Held(t)' = Held(t) /\ entry'[t] = entry[t]
    BY <1>0, <1>15, MemMark DEF MarkInProgress, TypeOK, Entries, Held, OnDisk
  <2>. QED BY <1>0, <1>15, <2>1 DEF MarkInProgress, TypeOK, TakeInv, TextIds,
              Heading, Saving, Before, After, FlowInv, Held, Entries
<1>16. ASSUME NEW t \in Threads, TakeUp(t) PROVE TakeInv'
  <2>1. /\ t \in deployed /\ pc[t] \in {"take", "duel"} /\ pc'[t] \in {"idle", "finish"}
        /\ entry'[t] = NoOne /\ UNCHANGED <<deployed, mem, disk, text>>
    BY <1>0, <1>16 DEF TakeUp, TypeOK
  <2>2. UNCHANGED <<OnDisk, Entries(t), Held(t)>> /\ TextIds(t)' = {}
    BY <1>0, <2>1 DEF OnDisk, Entries, Held, TextIds
  <2>3. \A i \in Ids : handled'[i] = IF i = entry[t].id THEN handled[i] + 1 ELSE handled[i]
    BY <1>16 DEF TakeUp, TypeOK
  <2>4. /\ entry[t] \in Requests /\ entry[t].id \notin OnDisk \cup Held(t)
        /\ \A i \in Ids : handled[i] # 0 => entry[t].id # i
        /\ NoOne \notin Requests
    BY <2>1, MarkersAssumption DEF TakeInv, Heading, After
  <2>5. \A i \in Ids : handled[i] \in Nat /\ handled[i] <= 1
    BY DEF TypeOK, TakeInv
  <2>6. \A i \in Ids : handled'[i] <= 1 /\ (handled'[i] # 0 => i \notin OnDisk \cup Held(t))
    BY <2>1, <2>3, <2>4, <2>5 DEF TakeInv
  <2>. QED BY <1>0, <2>1, <2>2, <2>6 DEF TakeInv, Heading, Saving, Before, After
<1>17. ASSUME NEW t \in Threads, FinishDuel(t) PROVE TakeInv'
  <2>1. /\ t \in deployed /\ OnDisk' = OnDisk /\ handled' = handled /\ deployed' = deployed
        /\ Entries(t)' = Entries(t) /\ Held(t)' = Held(t) /\ entry'[t] = entry[t]
    BY <1>0, <1>17, MemMark DEF FinishDuel, TypeOK, Entries, Held, OnDisk
  <2>. QED BY <1>0, <1>17, <2>1 DEF FinishDuel, TypeOK, TakeInv, TextIds,
              Heading, Saving, Before, After, FlowInv, Held, Entries
<1>18. ASSUME NEW t \in Threads, Submit(t) PROVE TakeInv'
  BY <1>0, <1>18 DEF Submit, FlowInv
<1>19. ASSUME NEW t \in Threads, CallRemove(t) PROVE TakeInv'
  BY <1>0, <1>19 DEF CallRemove, FlowInv
<1>20. ASSUME NEW t \in Threads, Health(t) PROVE TakeInv'
  BY <1>20 DEF Health, TakeInv, OnDisk, Held, Entries, Object, TextIds, Heading
<1>21. ASSUME NEW t \in Threads, Poll(t) PROVE TakeInv'
  BY <1>21 DEF Poll, TakeInv, OnDisk, Held, Entries, Object, TextIds, Heading
<1>22. ASSUME NEW o \in Objects, Start(o) PROVE TakeInv'
  BY <1>0, <1>22, EmptyIsDocument, IdsFacts DEF Start, TypeOK, TakeInv,
     TextIds, Heading, Saving, Before, After, FlowInv, OnDisk, Held, Entries,
     ThreadsOf
<1>23. ASSUME NEW o \in Objects, Crash(o) PROVE TakeInv'
  BY <1>0, <1>23, EmptyIsDocument, IdsFacts DEF Crash, TypeOK, TakeInv,
     TextIds, Heading, Saving, Before, After, FlowInv, OnDisk, Held, Entries,
     ThreadsOf
<1>24. CASE UNCHANGED vars
  BY <1>24 DEF TakeInv, OnDisk, Held, Entries, Object, TextIds, Heading
<1>. QED BY <1>1, <1>2, <1>3, <1>4, <1>5, <1>6, <1>7, <1>8, <1>9, <1>10,
            <1>11, <1>12, <1>13, <1>14, <1>15, <1>16, <1>17, <1>18, <1>19,
            <1>20, <1>21, <1>22, <1>23, <1>24 DEF Next, Work
(* A deployment without a daemon takes nothing up.                         *)
IdleInv == deployed \cap Validators = {} => \A i \in Ids : handled[i] = 0

(* Only the daemon takes entries up.                                       *)
LEMMA StepIdle ==
    ASSUME TypeOK, FlowInv, IdleInv, [Next]_vars
    PROVE  IdleInv'
<1>. SUFFICES ASSUME deployed \cap Validators = {} PROVE handled' = handled
  BY SameDeployment DEF IdleInv
<1>1. ASSUME NEW t \in Threads, TakeUp(t) PROVE FALSE
  <2>1. t \in Validators /\ t \in deployed
    BY <1>1 DEF TakeUp, FlowInv
  <2>. QED BY <2>1
<1>. QED BY <1>1 DEF Next, vars, history, Work, BuildText, OpenTmp, WriteTmp,
            Rename,
       RenameFails, Acquire, ReadOne, Bind, AppendEntry, Reply, Peek, DropKing,
       AdvanceBlock, Pop, MarkInProgress, FinishDuel, Submit, CallRemove, Health,
       Poll, Start, Crash

(* What earlier submissions have left is whole, and nothing was taken up.  *)
LEMMA InitRest ==
    ASSUME Init
    PROVE  FileInv /\ AckInv /\ TakeInv /\ IdleInv
<1>. USE DEF Init
<1>1. PICK q \in Waits : /\ disk = IF q = <<>> THEN NoFile ELSE [EmptyQueue EXCEPT !.entries = q]
                        /\ acked = DOMAIN q
  OBVIOUS
<1>2. PICK n \in 0..Waiting : q \in [1..n -> Entry]
  BY DEF Waits
<1>3. /\ q \in Seq(Requests) /\ DOMAIN q = 1..n
      /\ \A i \in 1..n : q[i].id = i
  <2>1. q \in Seq(Entry)
    BY <1>2, WaitingAssumption
  <2>2. Entry \subseteq Requests
    BY WaitingAssumption DEF Entry, Requests, Ids
  <2>. QED BY <1>2, <2>1, <2>2 DEF Waits
<1>4. disk \in {NoFile} \cup Documents
  BY <1>1, <1>3, EmptyIsDocument, NewList
<1>5. acked \subseteq OnDisk
  <2>1. CASE q = <<>>
    BY <1>1, <2>1
  <2>2. CASE q # <<>>
    <3>1. disk = [EmptyQueue EXCEPT !.entries = q] /\ disk.entries = q /\ disk \in Documents
      BY <1>1, <1>3, <2>2, EmptyIsDocument, NewList
    <3>2. Load(disk) = disk
      BY <3>1, MarkersAssumption DEF Load
    <3>. QED BY <1>1, <1>3, <3>1, <3>2 DEF OnDisk, IdsOf
  <2>. QED BY <2>1, <2>2
<1>6. deployed \subseteq Threads
  BY DeploymentsAssumption
<1>7. FileInv
  BY <1>4, <1>6, MarkersAssumption DEF FileInv
<1>8. AckInv
  BY <1>5, <1>6 DEF AckInv, Saving
<1>9. TakeInv
  BY <1>6 DEF TakeInv, Heading, Saving, Before, After
<1>. QED BY <1>7, <1>8, <1>9 DEF IdleInv

IInv == TypeOK /\ FlowInv /\ ListInv

(* Any interleaving of the threads keeps the types and the lists.          *)
LEMMA Inductive == Spec => []IInv
<1>1. Init => IInv
  BY InitTyped DEF IInv
<1>2. IInv /\ [Next]_vars => IInv'
  BY StepTyped, StepListed DEF IInv
<1>. QED BY <1>1, <1>2, PTL DEF Spec

Solo == IInv /\ FileInv /\ AckInv /\ TakeInv /\ IdleInv

(* Where commands are alone, one process is at the queue at a time.      *)
LEMMA SoloInductive == ASSUME LoneCommands PROVE Spec => []Solo
<1>1. Init => Solo
  BY InitTyped, InitRest DEF Solo, IInv
<1>2. Solo /\ [Next]_vars => Solo'
  BY StepTyped, StepListed, StepWhole, StepAcked, StepTaken, StepIdle DEF
     Solo, IInv
<1>. QED BY <1>1, <1>2, PTL DEF Spec
-----------------------------------------------------------------------------
(* "One entry per submission key", in memory and on disk, for any threads  *)
(* in any deployment: also while the daemon pops from the list that an     *)
(* add() is reading element by element, and after a crash.                 *)
THEOREM ListsHold == Spec => []OneEntryPerKey
<1>1. IInv => OneEntryPerKey
  <2>. SUFFICES ASSUME IInv, NEW s \in {mem[o].entries : o \in Objects} \cup {Load(disk).entries},
                       NEW i \in DOMAIN s, NEW j \in DOMAIN s, i < j
                PROVE  s[i].key # s[j].key /\ s[i].id < s[j].id
    BY DEF OneEntryPerKey
  <2>1. s \in Seq(Requests) /\ Listed(s, added)
    BY LoadIsDocument DEF IInv, ListInv, TypeOK, Documents
  <2>2. DOMAIN s = 1..Len(s)
    BY <2>1
  <2>. QED BY <2>1, <2>2 DEF Listed
<1>. QED BY <1>1, Inductive, PTL

(* "Rewritten atomically": where the daemon does not share the file with   *)
(* submissions, a reader never finds a part of it.                         *)
THEOREM WholeHolds == ASSUME LoneCommands PROVE Spec => []DiskWhole
<1>1. Solo => DiskWhole
  BY DEF Solo, FileInv, DiskWhole
<1>. QED BY <1>1, SoloInductive, PTL

(* What a submitter was told "Queued" of is in queue.json, or a later      *)
(* submission or a remove has taken its place, where no daemon shares it.  *)
THEOREM AcknowledgedHolds == ASSUME LoneCommands PROVE Spec => []AckDurable
<1>1. Solo => AckDurable
  BY DEF Solo, AckInv, AckDurable, OnDisk
<1>. QED BY <1>1, SoloInductive, PTL

(* No entry is dueled twice, although the daemon dies between pop() and    *)
(* the rename and loads the file again.                                    *)
THEOREM TakenOnceHolds == ASSUME LoneCommands PROVE Spec => []AtMostOnce
<1>1. Solo => AtMostOnce
  BY DEF Solo, TakeInv, IdleInv, AtMostOnce, Apart
<1>. QED BY <1>1, SoloInductive, PTL
============================================================================
