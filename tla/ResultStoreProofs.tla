------------------------- MODULE ResultStoreProofs -------------------------
(***************************************************************************)
(* Theorems about ResultStore, for every set of processes and models and   *)
(* every bound.                                                            *)
(***************************************************************************)
EXTENDS StoreVerifier, FiniteSetTheorems, SequenceTheorems, NaturalsInduction,
        WellFoundedInduction, TLAPS

Assumptions == /\ NoModel \notin Models /\ NoProc \notin Writers
               /\ FreshStore \in BOOLEAN /\ Faults \in BOOLEAN
               /\ MaxBlock \in Nat /\ MaxLines \in Nat

(* The constants are what the named assumptions of ResultStore say. *)
LEMMA ConstantsFit == Assumptions
BY ModelsAssumption, WritersAssumption, SwitchesAssumption, BoundsAssumption
DEF Assumptions

(* A record under construction has the type of a record. *)
LEMMA NewRecordType ==
    ASSUME NEW kind \in {"genesis", "duel"}, NEW n \in Nat,
           NEW k \in ModelOrNone, NEW m \in ModelOrNone
    PROVE  NewRecord(kind, n, k, m) \in Record
BY DEF NewRecord, BlankRecord, Record, ModelOrNone

(* The cleared record has the type of a record. *)
LEMMA BlankRecordType == BlankRecord \in Record
BY DEF BlankRecord, Record, ModelOrNone

(* Deciding the outcome or assigning the number keeps a record a record. *)
LEMMA RecordUpdateType ==
    ASSUME NEW r \in Record, NEW wins \in BOOLEAN, NEW n \in Nat
    PROVE  /\ [r EXCEPT !.dethroned = wins] \in Record
           /\ [r EXCEPT !.seq = n] \in Record
BY DEF Record

(* The id of a record is an event id. *)
LEMMA EventIdType == ASSUME NEW r \in Record PROVE EventId(r) \in EventIds
BY DEF EventId, EventIds, Record

(* Every variable keeps its type, whoever publishes and whatever fails. *)
THEOREM Typing == Spec => []TypeOK
<1>1. Init => TypeOK
  BY ConstantsFit, BlankRecordType
  DEF Init, TypeOK, Assumptions, HeadFile, EmptyHead, ModelOrNone, Labels
<1>2. TypeOK /\ [Next]_vars => TypeOK'
  <2> SUFFICES ASSUME TypeOK, [Next]_vars PROVE TypeOK'
    OBVIOUS
  <2> USE ConstantsFit DEF TypeOK, Assumptions, store
  <2>1. ASSUME NEW w \in Writers, Boot(w) PROVE TypeOK'
    BY <2>1 DEF Boot, Goto, Labels
  <2>2. ASSUME NEW w \in Writers, WriteManifest(w) PROVE TypeOK'
    BY <2>2 DEF WriteManifest, Goto, Labels
  <2>3. ASSUME NEW w \in Writers, WriteFirstHead(w) PROVE TypeOK'
    BY <2>3 DEF WriteFirstHead, Goto, Labels, HeadFile, EmptyHead, ModelOrNone
  <2>4. ASSUME NEW w \in Writers, LoadQueue(w) PROVE TypeOK'
    BY <2>4 DEF LoadQueue, Goto, Labels
  <2>5. ASSUME NEW w \in Writers, StartDaemon(w) PROVE TypeOK'
    BY <2>5 DEF StartDaemon, Goto, Labels
  <2>6. ASSUME NEW w \in Writers, LockRefused(w) PROVE TypeOK'
    BY <2>6 DEF LockRefused, Goto, Labels
  <2>7. ASSUME NEW w \in Writers, StartDuel(w) PROVE TypeOK'
    BY <2>7, NewRecordType DEF StartDuel, Goto, Labels, ModelOrNone, Writers
  <2>8. ASSUME NEW w \in Writers, StartGenesis(w) PROVE TypeOK'
    BY <2>8, NewRecordType DEF StartGenesis, Goto, Labels, ModelOrNone, Writers
  <2>9. ASSUME NEW w \in Writers, TakeEntry(w) PROVE TypeOK'
    BY <2>9, NewRecordType DEF TakeEntry, Goto, Labels, ModelOrNone, Writers, HeadKing, HeadFile
  <2>10. ASSUME NEW w \in Writers, Poll(w) PROVE TypeOK'
    BY <2>10 DEF Poll, Goto, Labels, vars
  <2>11. ASSUME NEW w \in Writers, Evaluate(w) PROVE TypeOK'
    <3>1. PICK wins \in BOOLEAN : rec' = [rec EXCEPT ![w].dethroned = wins]
      BY <2>11 DEF Evaluate
    <3>2. [rec[w] EXCEPT !.dethroned = wins] \in Record
      BY RecordUpdateType
    <3>3. rec' \in [Writers -> Record]
      BY <3>1, <3>2
    <3>4. EventId(rec[w]) \in EventIds
      BY EventIdType
    <3> QED
      BY <2>11, <3>3, <3>4 DEF Evaluate, Goto, Labels
  <2>12. ASSUME NEW w \in Writers, DuelFails(w) PROVE TypeOK'
    BY <2>12, BlankRecordType DEF DuelFails, Goto, Labels, Finish
  <2>13. ASSUME NEW w \in Writers, WriteEvent(w) PROVE TypeOK'
    <3>1. [id |-> EventId(rec[w]), dethroned |-> rec[w].dethroned]
            \in [id : EventIds, dethroned : BOOLEAN]
      BY EventIdType DEF Record
    <3> QED
      BY <2>13, <3>1 DEF WriteEvent, Goto, Labels
  <2>14. ASSUME NEW w \in Writers, AssignSeq(w) PROVE TypeOK'
    <3>1. NextSeq \in Nat
      BY DEF NextSeq, HeadSeq, HeadFile
    <3>2. [rec[w] EXCEPT !.seq = NextSeq] \in Record
      BY <3>1, RecordUpdateType
    <3> QED
      BY <2>14, <3>2 DEF AssignSeq, Goto, Labels
  <2>15. ASSUME NEW w \in Writers, AppendLine(w) PROVE TypeOK'
    BY <2>15 DEF AppendLine, Goto, Labels
  <2>16. ASSUME NEW w \in Writers, AdvanceHead(w) PROVE TypeOK'
    BY <2>16, EventIdType, BlankRecordType DEF AdvanceHead, Goto, Labels, Finish, HeadFile, KingAfter, Record
  <2>17. ASSUME NEW w \in Writers, WriteFails(w) PROVE TypeOK'
    BY <2>17, BlankRecordType DEF WriteFails, Goto, Labels, Finish
  <2>18. ASSUME NEW w \in Writers, Crash(w) PROVE TypeOK'
    BY <2>18, BlankRecordType DEF Crash, Goto, Labels
  <2>19. CASE UNCHANGED vars
    BY <2>19 DEF vars
  <2> QED
    BY <2>1, <2>2, <2>3, <2>4, <2>5, <2>6, <2>7, <2>8, <2>9, <2>10, <2>11, <2>12, <2>13, <2>14, <2>15, <2>16, <2>17, <2>18, <2>19 DEF Next, Step
<1> QED
  BY <1>1, <1>2, PTL DEF Spec
-----------------------------------------------------------------------------
(* Numbering a record does not change which event it is. *)
LEMMA SameEvent ==
    ASSUME NEW r \in Record, NEW n \in Nat, NEW wins \in BOOLEAN
    PROVE  /\ EventId([r EXCEPT !.seq = n]) = EventId(r)
           /\ EventId([r EXCEPT !.dethroned = wins]) = EventId(r)
BY DEF Record, EventId

(* EvidenceFirst is not inductive: the line is appended from the process's *)
(* record, so the files must already be there for a record on its way.     *)
HasClips(r) == r.kind = "duel" => EventId(r) \in media
HasEvent(r) == \E e \in events : e.id = EventId(r)

EvidenceInv ==
    /\ \A i \in DOMAIN index : HasEvent(index[i]) /\ HasClips(index[i])
    /\ \A w \in Writers :
         /\ pc[w] \in {"event", "seq", "append", "head"} => HasClips(rec[w])
         /\ pc[w] \in {"seq", "append", "head"} => HasEvent(rec[w])

(* Every step keeps the evidence of what is in the index and on its way.    *)
LEMMA EvidenceInductive == TypeOK /\ EvidenceInv /\ [Next]_vars => EvidenceInv'
<1> SUFFICES ASSUME TypeOK, EvidenceInv, [Next]_vars PROVE EvidenceInv'
  OBVIOUS
<1> USE DEF TypeOK, EvidenceInv, HasClips, HasEvent, store
<1>1. ASSUME NEW w \in Writers, Boot(w) PROVE EvidenceInv'
  BY <1>1 DEF Boot, Goto
<1>2. ASSUME NEW w \in Writers, WriteManifest(w) PROVE EvidenceInv'
  BY <1>2 DEF WriteManifest, Goto
<1>3. ASSUME NEW w \in Writers, WriteFirstHead(w) PROVE EvidenceInv'
  BY <1>3 DEF WriteFirstHead, Goto
<1>4. ASSUME NEW w \in Writers, LoadQueue(w) PROVE EvidenceInv'
  BY <1>4 DEF LoadQueue, Goto
<1>5. ASSUME NEW w \in Writers, StartDaemon(w) PROVE EvidenceInv'
  BY <1>5 DEF StartDaemon, Goto
<1>6. ASSUME NEW w \in Writers, LockRefused(w) PROVE EvidenceInv'
  BY <1>6 DEF LockRefused, Goto
<1>7. ASSUME NEW w \in Writers, StartDuel(w) PROVE EvidenceInv'
  BY <1>7 DEF StartDuel, Goto
<1>8. ASSUME NEW w \in Writers, StartGenesis(w) PROVE EvidenceInv'
  BY <1>8, WritersAssumption DEF StartGenesis, Goto
<1>9. ASSUME NEW w \in Writers, TakeEntry(w) PROVE EvidenceInv'
  BY <1>9 DEF TakeEntry, Goto
<1>10. ASSUME NEW w \in Writers, Poll(w) PROVE EvidenceInv'
  BY <1>10 DEF Poll, Goto, vars
<1>11. ASSUME NEW w \in Writers, Evaluate(w) PROVE EvidenceInv'
  <2>1. PICK wins \in BOOLEAN : rec' = [rec EXCEPT ![w].dethroned = wins]
    BY <1>11 DEF Evaluate
  <2>2. /\ rec'[w].kind = rec[w].kind
        /\ EventId(rec'[w]) = EventId(rec[w])
        /\ \A v \in Writers : v # w => rec'[v] = rec[v]
    BY <2>1, SameEvent DEF Record
  <2>3. media \subseteq media' /\ HasClips(rec[w])'
    BY <1>11, <2>2 DEF Evaluate
  <2> QED
    BY <1>11, <2>2, <2>3 DEF Evaluate, Goto
<1>12. ASSUME NEW w \in Writers, DuelFails(w) PROVE EvidenceInv'
  BY <1>12 DEF DuelFails, Goto, Finish
<1>13. ASSUME NEW w \in Writers, WriteEvent(w) PROVE EvidenceInv'
  <2> DEFINE e == [id |-> EventId(rec[w]), dethroned |-> rec[w].dethroned]
  <2>1. events' = {f \in events : f.id # e.id} \cup {e}
    BY <1>13 DEF WriteEvent
  <2>2. \A id : (\E f \in events : f.id = id) => \E f \in events' : f.id = id
    BY <2>1
  <2>3. HasEvent(rec[w])'
    BY <1>13, <2>1 DEF WriteEvent
  <2> QED
    BY <1>13, <2>2, <2>3 DEF WriteEvent, Goto
<1>14. ASSUME NEW w \in Writers, AssignSeq(w) PROVE EvidenceInv'
  <2>1. NextSeq \in Nat
    BY DEF NextSeq, HeadSeq, HeadFile
  <2>2. /\ rec'[w].kind = rec[w].kind
        /\ EventId(rec'[w]) = EventId(rec[w])
        /\ \A v \in Writers : v # w => rec'[v] = rec[v]
    BY <1>14, <2>1, SameEvent DEF AssignSeq, Record
  <2>3. \A v \in Writers : /\ HasClips(rec[v]) => HasClips(rec'[v])
                           /\ HasEvent(rec[v]) => HasEvent(rec'[v])
    BY <2>2
  <2>4. /\ events' = events /\ media' = media /\ index' = index
        /\ pc[w] = "seq" /\ pc' = [pc EXCEPT ![w] = "append"]
    BY <1>14 DEF AssignSeq, Goto
  <2> QED
    BY <2>3, <2>4
<1>15. ASSUME NEW w \in Writers, AppendLine(w) PROVE EvidenceInv'
  <2>1. /\ HasEvent(rec[w]) /\ HasClips(rec[w])
        /\ index' = Append(index, rec[w]) /\ rec[w] \in Record
    BY <1>15 DEF AppendLine
  <2>2. \A i \in DOMAIN index' :
          \/ i \in DOMAIN index /\ index'[i] = index[i]
          \/ index'[i] = rec[w]
    BY <2>1
  <2> QED
    BY <1>15, <2>1, <2>2 DEF AppendLine, Goto
<1>16. ASSUME NEW w \in Writers, AdvanceHead(w) PROVE EvidenceInv'
  BY <1>16 DEF AdvanceHead, Goto, Finish
<1>17. ASSUME NEW w \in Writers, WriteFails(w) PROVE EvidenceInv'
  BY <1>17 DEF WriteFails, Goto, Finish
<1>18. ASSUME NEW w \in Writers, Crash(w) PROVE EvidenceInv'
  BY <1>18 DEF Crash, Goto
<1>19. CASE UNCHANGED vars
  BY <1>19 DEF vars
<1> QED
  BY <1>1, <1>2, <1>3, <1>4, <1>5, <1>6, <1>7, <1>8, <1>9, <1>10, <1>11, <1>12, <1>13, <1>14, <1>15, <1>16, <1>17, <1>18, <1>19 DEF Next, Step

(* Whoever publishes and whatever fails, a record in the index has its     *)
(* event file and its clips.                                               *)
THEOREM EvidenceHolds == Spec => []EvidenceFirst
<1>1. Init => EvidenceInv
  BY DEF Init, EvidenceInv
<1>2. EvidenceInv => EvidenceFirst
  BY DEF EvidenceInv, EvidenceFirst, HasEvent, HasClips
<1> QED
  BY <1>1, <1>2, EvidenceInductive, Typing, PTL DEF Spec
-----------------------------------------------------------------------------
(* A process about to advance the head has its line in the index: this is  *)
(* what makes HeadBacked inductive.                                        *)
InIndex(r) == \E i \in DOMAIN index : index[i] = r
HeadInv == HeadBacked /\ \A w \in Writers : pc[w] = "head" => InIndex(rec[w])

(* An appended line is one more; the others stay where they are. *)
LEMMA LineAdded ==
    ASSUME NEW s \in Seq(Record), NEW r
    PROVE  /\ \A i \in DOMAIN s : i \in DOMAIN Append(s, r) /\ Append(s, r)[i] = s[i]
           /\ \E i \in DOMAIN Append(s, r) : Append(s, r)[i] = r
<1>1. /\ Len(s) \in Nat
      /\ DOMAIN s = 1..Len(s) /\ DOMAIN Append(s, r) = 1..(Len(s) + 1)
      /\ \A i \in 1..Len(s) : Append(s, r)[i] = s[i]
      /\ Append(s, r)[Len(s) + 1] = r
  OBVIOUS
<1> QED
  BY <1>1

(* Every step keeps the head backed. *)
LEMMA HeadInductive == TypeOK /\ HeadInv /\ [Next]_vars => HeadInv'
<1> SUFFICES ASSUME TypeOK, HeadInv, [Next]_vars PROVE HeadInv'
  OBVIOUS
<1> USE DEF TypeOK, HeadInv, InIndex, HeadBacked, HeadSeq, store
<1>1. ASSUME NEW w \in Writers, Boot(w) PROVE HeadInv'
  BY <1>1 DEF Boot, Goto
<1>2. ASSUME NEW w \in Writers, WriteManifest(w) PROVE HeadInv'
  BY <1>2 DEF WriteManifest, Goto
<1>3. ASSUME NEW w \in Writers, WriteFirstHead(w) PROVE HeadInv'
  BY <1>3, ConstantsFit DEF WriteFirstHead, Goto, EmptyHead
<1>4. ASSUME NEW w \in Writers, LoadQueue(w) PROVE HeadInv'
  BY <1>4 DEF LoadQueue, Goto
<1>5. ASSUME NEW w \in Writers, StartDaemon(w) PROVE HeadInv'
  BY <1>5 DEF StartDaemon, Goto
<1>6. ASSUME NEW w \in Writers, LockRefused(w) PROVE HeadInv'
  BY <1>6 DEF LockRefused, Goto
<1>7. ASSUME NEW w \in Writers, StartDuel(w) PROVE HeadInv'
  BY <1>7 DEF StartDuel, Goto
<1>8. ASSUME NEW w \in Writers, StartGenesis(w) PROVE HeadInv'
  BY <1>8, WritersAssumption DEF StartGenesis, Goto
<1>9. ASSUME NEW w \in Writers, TakeEntry(w) PROVE HeadInv'
  BY <1>9 DEF TakeEntry, Goto
<1>10. ASSUME NEW w \in Writers, Poll(w) PROVE HeadInv'
  BY <1>10 DEF Poll, Goto, vars
<1>11. ASSUME NEW w \in Writers, Evaluate(w) PROVE HeadInv'
  BY <1>11 DEF Evaluate, Goto
<1>12. ASSUME NEW w \in Writers, DuelFails(w) PROVE HeadInv'
  BY <1>12 DEF DuelFails, Goto, Finish
<1>13. ASSUME NEW w \in Writers, WriteEvent(w) PROVE HeadInv'
  BY <1>13 DEF WriteEvent, Goto
<1>14. ASSUME NEW w \in Writers, AssignSeq(w) PROVE HeadInv'
  BY <1>14 DEF AssignSeq, Goto
<1>15. ASSUME NEW w \in Writers, AppendLine(w) PROVE HeadInv'
  <2>1. /\ index' = Append(index, rec[w]) /\ rec[w] \in Record
        /\ head' = head /\ rec' = rec
        /\ pc' = [pc EXCEPT ![w] = "head"]
    BY <1>15 DEF AppendLine, Goto
  <2>2. /\ \A i \in DOMAIN index : i \in DOMAIN index' /\ index'[i] = index[i]
        /\ \E i \in DOMAIN index' : index'[i] = rec[w]
    BY <2>1, LineAdded
  <2>3. HeadBacked'
    <3>1. HeadSeq' = HeadSeq /\ HeadBacked
      BY <2>1
    <3>2. SUFFICES ASSUME HeadSeq > 0
                   PROVE  \E i \in DOMAIN index' :
                              /\ index'[i].seq = head'.seq
                              /\ EventId(index'[i]) = head'.event
                              /\ KingAfter(index'[i]) = head'.king
      BY <3>1
    <3>3. PICK i \in DOMAIN index : /\ index[i].seq = head.seq
                                    /\ EventId(index[i]) = head.event
                                    /\ KingAfter(index[i]) = head.king
      BY <3>1, <3>2
    <3> QED
      BY <2>1, <2>2, <3>3
  <2> QED
    BY <2>1, <2>2, <2>3
<1>16. ASSUME NEW w \in Writers, AdvanceHead(w) PROVE HeadInv'
  <2>1. PICK i \in DOMAIN index : index[i] = rec[w]
    BY <1>16 DEF AdvanceHead
  <2>2. /\ head' = [seq |-> rec[w].seq, event |-> EventId(rec[w]),
                    king |-> KingAfter(rec[w])]
        /\ index' = index
    BY <1>16 DEF AdvanceHead
  <2>3. HeadBacked'
    BY <2>1, <2>2
  <2> QED
    BY <1>16, <2>3 DEF AdvanceHead, Finish, Goto
<1>17. ASSUME NEW w \in Writers, WriteFails(w) PROVE HeadInv'
  BY <1>17 DEF WriteFails, Goto, Finish
<1>18. ASSUME NEW w \in Writers, Crash(w) PROVE HeadInv'
  BY <1>18 DEF Crash, Goto
<1>19. CASE UNCHANGED vars
  BY <1>19 DEF vars
<1> QED
  BY <1>1, <1>2, <1>3, <1>4, <1>5, <1>6, <1>7, <1>8, <1>9, <1>10, <1>11,
     <1>12, <1>13, <1>14, <1>15, <1>16, <1>17, <1>18, <1>19
  DEF Next, Step

(* Whoever publishes and whatever fails, the head is backed by a record of *)
(* the index that has its number, its event and its king.                  *)
THEOREM HeadBackedHolds == Spec => []HeadBacked
<1>1. Init => HeadInv
  BY DEF Init, HeadInv, HeadBacked, HeadSeq, EmptyHead
<1>2. HeadInv => HeadBacked
  BY DEF HeadInv
<1> QED
  BY <1>1, <1>2, HeadInductive, Typing, PTL DEF Spec
-----------------------------------------------------------------------------
(* The flock makes publishing exclusive as long as everyone takes it.      *)
LockInv == \A w \in Lockers :
             pc[w] \in Publishing \cup {"ready"} => lock = w

(* Every step of a locking process keeps publishing exclusive. *)
LEMMA LockInductive == TypeOK /\ LockInv /\ [Next]_vars => LockInv'
<1> SUFFICES ASSUME TypeOK, LockInv, [Next]_vars PROVE LockInv'
  OBVIOUS
<1> USE ConstantsFit DEF TypeOK, LockInv, Publishing, store, Assumptions,
                         Lockers, Writers
<1>1. ASSUME NEW w \in Writers, Boot(w) PROVE LockInv'
  BY <1>1 DEF Boot, Goto
<1>2. ASSUME NEW w \in Writers, WriteManifest(w) PROVE LockInv'
  BY <1>2 DEF WriteManifest, Goto
<1>3. ASSUME NEW w \in Writers, WriteFirstHead(w) PROVE LockInv'
  BY <1>3 DEF WriteFirstHead, Goto
<1>4. ASSUME NEW w \in Writers, LoadQueue(w) PROVE LockInv'
  BY <1>4 DEF LoadQueue, Goto
<1>5. ASSUME NEW w \in Writers, StartDaemon(w) PROVE LockInv'
  BY <1>5 DEF StartDaemon, Goto
<1>6. ASSUME NEW w \in Writers, LockRefused(w) PROVE LockInv'
  BY <1>6 DEF LockRefused, Goto
<1>7. ASSUME NEW w \in Writers, StartDuel(w) PROVE LockInv'
  BY <1>7 DEF StartDuel, Goto
<1>8. ASSUME NEW w \in Writers, StartGenesis(w) PROVE LockInv'
  BY <1>8, WritersAssumption DEF StartGenesis, Goto
<1>9. ASSUME NEW w \in Writers, TakeEntry(w) PROVE LockInv'
  BY <1>9 DEF TakeEntry, Goto
<1>10. ASSUME NEW w \in Writers, Poll(w) PROVE LockInv'
  BY <1>10 DEF Poll, Goto, vars
<1>11. ASSUME NEW w \in Writers, Evaluate(w) PROVE LockInv'
  BY <1>11 DEF Evaluate, Goto
<1>12. ASSUME NEW w \in Writers, DuelFails(w) PROVE LockInv'
  BY <1>12 DEF DuelFails, Goto, Finish
<1>13. ASSUME NEW w \in Writers, WriteEvent(w) PROVE LockInv'
  BY <1>13 DEF WriteEvent, Goto
<1>14. ASSUME NEW w \in Writers, AssignSeq(w) PROVE LockInv'
  BY <1>14 DEF AssignSeq, Goto
<1>15. ASSUME NEW w \in Writers, AppendLine(w) PROVE LockInv'
  BY <1>15 DEF AppendLine, Goto
<1>16. ASSUME NEW w \in Writers, AdvanceHead(w) PROVE LockInv'
  BY <1>16 DEF AdvanceHead, Goto, Finish
<1>17. ASSUME NEW w \in Writers, WriteFails(w) PROVE LockInv'
  BY <1>17 DEF WriteFails, Goto, Finish
<1>18. ASSUME NEW w \in Writers, Crash(w) PROVE LockInv'
  BY <1>18 DEF Crash, Goto
<1>19. CASE UNCHANGED vars
  BY <1>19 DEF vars
<1> QED
  BY <1>1, <1>2, <1>3, <1>4, <1>5, <1>6, <1>7, <1>8, <1>9, <1>10, <1>11,
     <1>12, <1>13, <1>14, <1>15, <1>16, <1>17, <1>18, <1>19
  DEF Next, Step

(* Of the processes that take the lock no two ever publish at once, with   *)
(* any number of genesis commands beside them: not through a crash of the  *)
(* holder either.                                                          *)
THEOREM OneWriterHolds == Spec => []OneWriter
<1>1. Init => LockInv
  BY DEF Init, LockInv, Publishing, Lockers, Writers
<1>2. LockInv => OneWriter
  BY DEF LockInv, OneWriter
<1> QED
  BY <1>1, <1>2, LockInductive, Typing, PTL DEF Spec
-----------------------------------------------------------------------------
(* The store exists already, or the process that makes it is alone: what   *)
(* "one validator per store" has to mean, since a store is initialised     *)
(* before the lock is taken.                                               *)
LoneStart == FreshStore => \A v, w \in Writers : v = w

Settled ==
    /\ ~manifest => /\ FreshStore /\ index = <<>> /\ HeadSeq = 0
                    /\ \A w \in Writers : pc[w] \in {"off", "init"}
    /\ \A w \in Writers : pc[w] \in {"init", "inithead"} =>
                            FreshStore /\ index = <<>> /\ HeadSeq = 0

(* Initialisation happens once, before anything is published. *)
LEMMA SettledInductive ==
    ASSUME LoneStart
    PROVE  TypeOK /\ Settled /\ [Next]_vars => Settled'
<1> SUFFICES ASSUME TypeOK, Settled, [Next]_vars PROVE Settled'
  OBVIOUS
<1> USE ConstantsFit DEF TypeOK, Settled, LoneStart, HeadSeq, store, Assumptions
<1>1. ASSUME NEW w \in Writers, Boot(w) PROVE Settled'
  BY <1>1 DEF Boot, Goto
<1>2. ASSUME NEW w \in Writers, WriteManifest(w) PROVE Settled'
  BY <1>2 DEF WriteManifest, Goto
<1>3. ASSUME NEW w \in Writers, WriteFirstHead(w) PROVE Settled'
  BY <1>3 DEF WriteFirstHead, Goto, EmptyHead
<1>4. ASSUME NEW w \in Writers, LoadQueue(w) PROVE Settled'
  BY <1>4 DEF LoadQueue, Goto
<1>5. ASSUME NEW w \in Writers, StartDaemon(w) PROVE Settled'
  BY <1>5 DEF StartDaemon, Goto
<1>6. ASSUME NEW w \in Writers, LockRefused(w) PROVE Settled'
  BY <1>6 DEF LockRefused, Goto
<1>7. ASSUME NEW w \in Writers, StartDuel(w) PROVE Settled'
  BY <1>7 DEF StartDuel, Goto
<1>8. ASSUME NEW w \in Writers, StartGenesis(w) PROVE Settled'
  BY <1>8, WritersAssumption DEF StartGenesis, Goto
<1>9. ASSUME NEW w \in Writers, TakeEntry(w) PROVE Settled'
  BY <1>9 DEF TakeEntry, Goto
<1>10. ASSUME NEW w \in Writers, Poll(w) PROVE Settled'
  BY <1>10 DEF Poll, Goto, vars
<1>11. ASSUME NEW w \in Writers, Evaluate(w) PROVE Settled'
  BY <1>11 DEF Evaluate, Goto
<1>12. ASSUME NEW w \in Writers, DuelFails(w) PROVE Settled'
  BY <1>12 DEF DuelFails, Goto, Finish
<1>13. ASSUME NEW w \in Writers, WriteEvent(w) PROVE Settled'
  BY <1>13 DEF WriteEvent, Goto
<1>14. ASSUME NEW w \in Writers, AssignSeq(w) PROVE Settled'
  BY <1>14 DEF AssignSeq, Goto
<1>15. ASSUME NEW w \in Writers, AppendLine(w) PROVE Settled'
  BY <1>15 DEF AppendLine, Goto
<1>16. ASSUME NEW w \in Writers, AdvanceHead(w) PROVE Settled'
  BY <1>16 DEF AdvanceHead, Goto, Finish
<1>17. ASSUME NEW w \in Writers, WriteFails(w) PROVE Settled'
  BY <1>17 DEF WriteFails, Goto, Finish
<1>18. ASSUME NEW w \in Writers, Crash(w) PROVE Settled'
  BY <1>18 DEF Crash, Goto
<1>19. CASE UNCHANGED vars
  BY <1>19 DEF vars
<1> QED
  BY <1>1, <1>2, <1>3, <1>4, <1>5, <1>6, <1>7, <1>8, <1>9, <1>10, <1>11,
     <1>12, <1>13, <1>14, <1>15, <1>16, <1>17, <1>18, <1>19
  DEF Next, Step

(* The steps that neither publish nor change what is being published: they *)
(* leave the index and the head alone, and a process that is publishing    *)
(* after one of them was publishing the same record before it.             *)
Quiet(w) ==
    \/ Boot(w) \/ WriteManifest(w) \/ LoadQueue(w) \/ StartDaemon(w)
    \/ LockRefused(w) \/ Poll(w) \/ DuelFails(w) \/ WriteEvent(w)
    \/ WriteFails(w) \/ Crash(w)

(* What a quiet step leaves alone. *)
LEMMA QuietFrame ==
    ASSUME TypeOK, (\E w \in Writers : Quiet(w)) \/ UNCHANGED vars
    PROVE  /\ UNCHANGED <<head, index>>
           /\ \A v \in Writers : pc'[v] \in Publishing =>
                 /\ pc[v] \in Publishing /\ rec'[v] = rec[v]
                 /\ pc'[v] \in {"append", "head"} => pc'[v] = pc[v]
<1> DEFINE Frame == /\ UNCHANGED <<head, index>>
                    /\ \A v \in Writers : pc'[v] \in Publishing =>
                          /\ pc[v] \in Publishing /\ rec'[v] = rec[v]
                          /\ pc'[v] \in {"append", "head"} => pc'[v] = pc[v]
<1> USE DEF TypeOK, store, Publishing
<1>1. ASSUME NEW w \in Writers, Boot(w) PROVE Frame
  BY <1>1 DEF Boot, Goto
<1>2. ASSUME NEW w \in Writers, WriteManifest(w) PROVE Frame
  BY <1>2 DEF WriteManifest, Goto
<1>3. ASSUME NEW w \in Writers, LoadQueue(w) PROVE Frame
  BY <1>3 DEF LoadQueue, Goto
<1>4. ASSUME NEW w \in Writers, StartDaemon(w) PROVE Frame
  BY <1>4 DEF StartDaemon, Goto
<1>5. ASSUME NEW w \in Writers, LockRefused(w) PROVE Frame
  BY <1>5 DEF LockRefused, Goto
<1>6. ASSUME NEW w \in Writers, Poll(w) PROVE Frame
  BY <1>6 DEF Poll, Goto, vars
<1>7. ASSUME NEW w \in Writers, DuelFails(w) PROVE Frame
  BY <1>7 DEF DuelFails, Goto, Finish
<1>8. ASSUME NEW w \in Writers, WriteEvent(w) PROVE Frame
  BY <1>8 DEF WriteEvent, Goto
<1>9. ASSUME NEW w \in Writers, WriteFails(w) PROVE Frame
  BY <1>9 DEF WriteFails, Goto, Finish
<1>10. ASSUME NEW w \in Writers, Crash(w) PROVE Frame
  BY <1>10 DEF Crash, Goto
<1>11. CASE UNCHANGED vars
  BY <1>11 DEF vars
<1> QED
  BY <1>1, <1>2, <1>3, <1>4, <1>5, <1>6, <1>7, <1>8, <1>9, <1>10, <1>11 DEF Quiet

(* Every step is quiet or one of eight that are not. *)
LEMMA NextSplits ==
    ASSUME [Next]_vars
    PROVE  \/ (\E w \in Writers : Quiet(w)) \/ UNCHANGED vars
           \/ \E w \in Writers :
                 \/ WriteFirstHead(w) \/ StartDuel(w) \/ StartGenesis(w)
                 \/ TakeEntry(w) \/ Evaluate(w) \/ AssignSeq(w)
                 \/ AppendLine(w) \/ AdvanceHead(w)
BY DEF Next, Step, Quiet

(* Only three steps write the head or the index. *)
LEMMA QuietSteps ==
    ASSUME TypeOK, [Next]_vars
    PROVE  \/ UNCHANGED <<head, index>>
           \/ \E w \in Writers :
                 WriteFirstHead(w) \/ AppendLine(w) \/ AdvanceHead(w)
BY NextSplits, QuietFrame
DEF StartDuel, StartGenesis, TakeEntry, Evaluate, AssignSeq, store

(* SeqDense holds because the number a writer is about to use is one more  *)
(* than the head's, and the last line has the head's number or the next.   *)
SeqInv ==
    /\ SeqDense
    /\ index = <<>> => HeadSeq = 0
    /\ index # <<>> => index[Len(index)].seq \in {HeadSeq, HeadSeq + 1}
    /\ \A w \in Writers :
         /\ pc[w] \in {"append", "head"} => rec[w].seq = HeadSeq + 1
         /\ pc[w] = "head" => index # <<>> /\ index[Len(index)] = rec[w]

(* The head's number, 0 without a head, is a natural number. *)
LEMMA HeadSeqType == TypeOK => HeadSeq \in Nat
BY DEF TypeOK, HeadSeq, HeadFile

(* After AdvanceHead the head names the record that was being published.   *)
LEMMA HeadAdvances ==
    ASSUME TypeOK, NEW w \in Writers, AdvanceHead(w)
    PROVE  HeadSeq' = rec[w].seq /\ HeadKing' = KingAfter(rec[w])
<1>1. head' = [seq |-> rec[w].seq, event |-> EventId(rec[w]),
               king |-> KingAfter(rec[w])]
  BY DEF AdvanceHead
<1>2. rec[w] \in Record
  BY DEF TypeOK
<1>3. head' \in HeadFile
  BY <1>1, <1>2, EventIdType DEF HeadFile, KingAfter, Record
<1> QED
  BY <1>1, <1>3, NoHeadAssumption DEF HeadSeq, HeadKing

(* Every step keeps the numbers dense. *)
LEMMA SeqInductive ==
    ASSUME GenesisCommands = {}
    PROVE  TypeOK /\ LockInv /\ Settled /\ SeqInv /\ [Next]_vars => SeqInv'
<1> SUFFICES ASSUME TypeOK, LockInv, Settled, SeqInv, [Next]_vars PROVE SeqInv'
  OBVIOUS
<1> HeadSeq \in Nat
  BY HeadSeqType
<1> USE ConstantsFit DEF TypeOK, SeqInv, store, Assumptions
<1>1. ASSUME NEW w \in Writers, WriteFirstHead(w) PROVE SeqInv'
  <2>1. /\ HeadSeq' = 0 /\ HeadSeq = 0 /\ index' = index
        /\ rec' = rec /\ pc' = [pc EXCEPT ![w] = "booted"]
    BY <1>1 DEF WriteFirstHead, Settled, HeadSeq, EmptyHead, Goto
  <2>2. SeqDense'
    BY <2>1 DEF SeqDense
  <2> QED
    BY <2>1, <2>2
<1>2. ASSUME NEW w \in Writers, StartDuel(w) PROVE SeqInv'
  <2>1. UNCHANGED <<head, index>>
    BY <1>2 DEF StartDuel, Goto
  <2>2. UNCHANGED HeadSeq /\ SeqDense'
    BY <2>1 DEF HeadSeq, SeqDense
  <2>3. \A v \in Writers : pc'[v] \in {"append", "head"} =>
                             pc'[v] = pc[v] /\ rec'[v] = rec[v]
    BY <1>2 DEF StartDuel, Goto
  <2> QED
    BY <2>1, <2>2, <2>3
<1>3. ASSUME NEW w \in Writers, StartGenesis(w) PROVE SeqInv'
  <2>1. UNCHANGED <<head, index>>
    BY <1>3 DEF StartGenesis, Goto
  <2>2. UNCHANGED HeadSeq /\ SeqDense'
    BY <2>1 DEF HeadSeq, SeqDense
  <2>3. \A v \in Writers : pc'[v] \in {"append", "head"} =>
                             pc'[v] = pc[v] /\ rec'[v] = rec[v]
    BY <1>3 DEF StartGenesis, Goto
  <2> QED
    BY <2>1, <2>2, <2>3
<1>4. ASSUME NEW w \in Writers, TakeEntry(w) PROVE SeqInv'
  <2>1. UNCHANGED <<head, index>>
    BY <1>4 DEF TakeEntry, Goto
  <2>2. UNCHANGED HeadSeq /\ SeqDense'
    BY <2>1 DEF HeadSeq, SeqDense
  <2>3. \A v \in Writers : pc'[v] \in {"append", "head"} =>
                             pc'[v] = pc[v] /\ rec'[v] = rec[v]
    BY <1>4 DEF TakeEntry, Goto
  <2> QED
    BY <2>1, <2>2, <2>3
<1>5. ASSUME NEW w \in Writers, Evaluate(w) PROVE SeqInv'
  <2>1. UNCHANGED <<head, index>>
    BY <1>5 DEF Evaluate, Goto
  <2>2. UNCHANGED HeadSeq /\ SeqDense'
    BY <2>1 DEF HeadSeq, SeqDense
  <2>3. \A v \in Writers : pc'[v] \in {"append", "head"} =>
                             pc'[v] = pc[v] /\ rec'[v] = rec[v]
    BY <1>5 DEF Evaluate, Goto
  <2> QED
    BY <2>1, <2>2, <2>3
<1>6. ASSUME NEW w \in Writers, AssignSeq(w) PROVE SeqInv'
  <2>1. UNCHANGED <<head, index>>
    BY <1>6 DEF AssignSeq
  <2>2. UNCHANGED HeadSeq /\ SeqDense'
    BY <2>1 DEF HeadSeq, SeqDense
  <2>3. rec'[w].seq = HeadSeq + 1 /\ pc'[w] = "append"
    BY <1>6 DEF AssignSeq, NextSeq, Goto, Record
  <2>4. \A v \in Writers : v # w => pc'[v] = pc[v] /\ rec'[v] = rec[v]
    BY <1>6 DEF AssignSeq, Goto
  <2> QED
    BY <2>1, <2>2, <2>3, <2>4
<1>7. ASSUME NEW w \in Writers, AppendLine(w) PROVE SeqInv'
  <2>1. /\ index' = Append(index, rec[w]) /\ rec[w] \in Record
        /\ rec' = rec /\ UNCHANGED head
        /\ pc[w] = "append" /\ pc' = [pc EXCEPT ![w] = "head"]
    BY <1>7 DEF AppendLine, Goto
  <2>2. UNCHANGED HeadSeq
    BY <2>1 DEF HeadSeq
  <2>3. \A v \in Writers : pc[v] \in {"append", "head"} => v = w
    BY <2>1 DEF LockInv, Publishing, Lockers, Writers
  <2>4. /\ index' # <<>> /\ index'[Len(index')] = rec[w]
        /\ Len(index') = Len(index) + 1
        /\ \A i \in DOMAIN index : index'[i] = index[i]
    BY <2>1
  <2>5. SeqDense'
    <3> SUFFICES ASSUME NEW i \in DOMAIN index'
                 PROVE  IF i = 1 THEN index'[i].seq = 1
                        ELSE index'[i].seq \in {index'[i - 1].seq,
                                                index'[i - 1].seq + 1}
      BY DEF SeqDense
    <3>1. CASE i \in DOMAIN index
      <4>1. i # 1 => i - 1 \in DOMAIN index
        BY <3>1
      <4> QED
        BY <3>1, <4>1, <2>4 DEF SeqDense
    <3>2. CASE i \notin DOMAIN index /\ index = <<>>
      <4>1. i = 1 /\ HeadSeq = 0
        BY <3>2, <2>1, <2>4
      <4> QED
        BY <4>1, <2>1, <2>4, <3>2
    <3>3. CASE i \notin DOMAIN index /\ index # <<>>
      <4>1. i = Len(index) + 1 /\ i # 1 /\ i - 1 \in DOMAIN index
        BY <3>3, <2>1, <2>4
      <4>2. index'[i].seq = HeadSeq + 1 /\ index'[i - 1] = index[Len(index)]
        BY <4>1, <2>1, <2>4
      <4>3. index[Len(index)] \in Record
        BY <3>3
      <4>4. index[Len(index)].seq \in Nat
        BY <4>3 DEF Record
      <4> QED
        BY <4>1, <4>2, <4>4, <3>3
    <3> QED
      BY <3>1, <3>2, <3>3
  <2>6. \A v \in Writers : pc'[v] \in {"append", "head"} => v = w
    BY <2>1, <2>3
  <2> QED
    BY <2>1, <2>2, <2>4, <2>5, <2>6
<1>8. ASSUME NEW w \in Writers, AdvanceHead(w) PROVE SeqInv'
  <2>1. /\ head' = [seq |-> rec[w].seq, event |-> EventId(rec[w]),
                    king |-> KingAfter(rec[w])]
        /\ index' = index /\ pc[w] = "head"
        /\ \A v \in Writers : v # w => pc'[v] = pc[v]
        /\ pc'[w] \in {"ready", "off"}
    BY <1>8 DEF AdvanceHead, Finish, Goto
  <2>2. HeadSeq' = HeadSeq + 1
    BY <1>8, <2>1, HeadAdvances
  <2>3. \A v \in Writers : pc'[v] \notin {"append", "head"}
    BY <2>1 DEF LockInv, Publishing, Lockers, Writers
  <2>4. SeqDense'
    BY <2>1 DEF SeqDense
  <2> QED
    BY <2>1, <2>2, <2>3, <2>4
<1>9. ASSUME (\E w \in Writers : Quiet(w)) \/ UNCHANGED vars PROVE SeqInv'
  <2>1. UNCHANGED HeadSeq /\ SeqDense'
    BY <1>9, QuietFrame DEF HeadSeq, SeqDense
  <2> QED
    BY <1>9, <2>1, QuietFrame DEF Publishing
<1> QED
  BY NextSplits, <1>1, <1>2, <1>3, <1>4, <1>5, <1>6, <1>7, <1>8, <1>9

(* The three invariants hold initially. *)
LEMMA InitSeqInv == Init => LockInv /\ Settled /\ SeqInv
<1> SUFFICES ASSUME Init PROVE LockInv /\ Settled /\ SeqInv
  OBVIOUS
<1> USE ConstantsFit DEF Init, Assumptions
<1>1. HeadSeq = 0
  BY DEF HeadSeq, EmptyHead
<1>2. LockInv
  BY DEF LockInv, Publishing, Lockers, Writers
<1>3. Settled
  BY <1>1 DEF Settled
<1>4. SeqInv
  BY <1>1 DEF SeqInv, SeqDense
<1> QED
  BY <1>2, <1>3, <1>4

(* When the store is not initialised behind a writer's back and everyone   *)
(* takes the lock, crashes and failed writes can repeat a number of the    *)
(* index but never skip one.                                               *)
THEOREM SeqDenseHolds ==
    GenesisCommands = {} /\ LoneStart => (Spec => []SeqDense)
<1> SUFFICES ASSUME GenesisCommands = {}, LoneStart PROVE Spec => []SeqDense
  OBVIOUS
<1>1. Init => LockInv /\ Settled /\ SeqInv
  BY InitSeqInv
<1>2. SeqInv => SeqDense
  BY DEF SeqInv
<1>3. /\ TypeOK /\ LockInv /\ [Next]_vars => LockInv'
      /\ TypeOK /\ Settled /\ [Next]_vars => Settled'
  BY LockInductive, SettledInductive
<1> QED
  BY <1>1, <1>2, <1>3, SeqInductive, Typing, PTL DEF Spec

(* The head never moves backwards. *)
THEOREM HeadForwardHolds ==
    GenesisCommands = {} /\ LoneStart => (Spec => HeadForward)
<1> SUFFICES ASSUME GenesisCommands = {}, LoneStart PROVE Spec => HeadForward
  OBVIOUS
<1>1. Init => LockInv /\ Settled /\ SeqInv
  BY InitSeqInv
<1>2. /\ TypeOK /\ LockInv /\ [Next]_vars => LockInv'
      /\ TypeOK /\ Settled /\ [Next]_vars => Settled'
  BY LockInductive, SettledInductive
<1>3. TypeOK /\ Settled /\ SeqInv /\ [Next]_vars => [HeadSeq' >= HeadSeq]_vars
  <2> SUFFICES ASSUME TypeOK, Settled, SeqInv, [Next]_vars
               PROVE  HeadSeq' >= HeadSeq
    BY DEF vars
  <2> HeadSeq \in Nat
    BY HeadSeqType
  <2>1. ASSUME NEW w \in Writers, WriteFirstHead(w) PROVE HeadSeq' >= HeadSeq
    BY <2>1 DEF WriteFirstHead, Settled, HeadSeq, EmptyHead
  <2>2. ASSUME NEW w \in Writers, AdvanceHead(w) PROVE HeadSeq' >= HeadSeq
    BY <2>2, HeadAdvances DEF SeqInv, AdvanceHead
  <2>3. CASE UNCHANGED head
    BY <2>3 DEF HeadSeq
  <2>4. \/ UNCHANGED head
        \/ \E w \in Writers : WriteFirstHead(w) \/ AdvanceHead(w)
    BY QuietSteps DEF AppendLine
  <2> QED
    BY <2>1, <2>2, <2>3, <2>4
<1> QED
  BY <1>1, <1>2, <1>3, SeqInductive, Typing, PTL DEF Spec, HeadForward
-----------------------------------------------------------------------------
(* CrownSuccession is kept because the record that the one publishing      *)
(* daemon builds was taken from the head as it still is.                   *)
Fits(r) ==
    IF r.kind = "genesis"
    THEN /\ HeadSeq = 0 /\ r.dethroned = FALSE
         /\ r.king \in Models /\ r.challenger = NoModel
    ELSE /\ HeadSeq > 0 /\ r.king = HeadKing
         /\ r.challenger \in Models /\ r.challenger # r.king

HeadHasLast ==
    HeadSeq > 0 => /\ HeadKing \in Models
                   /\ \E j \in DOMAIN index : /\ index[j].seq = HeadSeq
                                              /\ LastOfSeq(j)
                                              /\ KingAfter(index[j]) = HeadKing

CrownInv ==
    /\ HeadSeq = 0 => HeadKing = NoModel
    /\ HeadHasLast
    /\ \A i \in DOMAIN index : index[i].seq <= HeadSeq + 1
    /\ \A w \in Writers : pc[w] \in Publishing => Fits(rec[w])
    /\ CrownSuccession

(* A step that leaves the index and the head alone, and gives no process a *)
(* record that does not fit, keeps the invariant.                          *)
LEMMA CrownFrame ==
    ASSUME CrownInv, UNCHANGED <<head, index>>,
           \A v \in Writers : pc'[v] \in Publishing => Fits(rec'[v])
    PROVE  CrownInv'
<1>1. UNCHANGED <<HeadSeq, HeadKing>>
  BY DEF HeadSeq, HeadKing
<1>2. HeadHasLast' /\ CrownSuccession'
  BY <1>1 DEF CrownInv, HeadHasLast, CrownSuccession, LastOfSeq, KingAfter
<1>3. \A v \in Writers : pc'[v] \in Publishing => Fits(rec[v])'
  BY <1>1 DEF Fits
<1> QED
  BY <1>1, <1>2, <1>3 DEF CrownInv

(* Every step keeps the succession. *)
LEMMA CrownInductive ==
    ASSUME GenesisCommands = {}, DuelCommands = {}
    PROVE  TypeOK /\ LockInv /\ Settled /\ SeqInv /\ CrownInv /\ [Next]_vars
           => CrownInv'
<1> SUFFICES ASSUME TypeOK, LockInv, Settled, SeqInv, CrownInv, [Next]_vars
             PROVE  CrownInv'
  OBVIOUS
<1> HeadSeq \in Nat
  BY HeadSeqType
<1> USE ConstantsFit DEF TypeOK, store, Assumptions
<1>1. ASSUME NEW w \in Writers, WriteFirstHead(w) PROVE CrownInv'
  <2>1. /\ HeadSeq' = 0 /\ HeadSeq = 0 /\ HeadKing' = NoModel
        /\ UNCHANGED <<index, rec>> /\ index = <<>>
        /\ pc' = [pc EXCEPT ![w] = "booted"]
    BY <1>1 DEF WriteFirstHead, Settled, HeadSeq, HeadKing, EmptyHead, Goto
  <2>2. \A v \in Writers : pc'[v] \in Publishing => Fits(rec[v])'
    BY <2>1 DEF CrownInv, Fits, Publishing
  <2>3. HeadHasLast' /\ CrownSuccession'
    BY <2>1 DEF HeadHasLast, CrownSuccession
  <2> QED
    BY <2>1, <2>2, <2>3 DEF CrownInv
<1>2. ASSUME NEW w \in Writers, StartDuel(w) PROVE CrownInv'
  BY <1>2 DEF StartDuel
<1>3. ASSUME NEW w \in Writers, StartGenesis(w) PROVE CrownInv'
  BY <1>3 DEF StartGenesis
<1>4. ASSUME NEW w \in Writers, TakeEntry(w) PROVE CrownInv'
  <2>1. UNCHANGED <<head, index>>
    BY <1>4 DEF TakeEntry
  <2>2. \A v \in Writers : v # w => pc'[v] = pc[v] /\ rec'[v] = rec[v]
    BY <1>4 DEF TakeEntry, Goto
  <2>3. PICK m \in Models :
          \/ /\ HeadKing = NoModel
             /\ rec'[w] = NewRecord("genesis", mblock[w] + 1, m, NoModel)
          \/ /\ HeadKing \notin {NoModel, m}
             /\ rec'[w] = NewRecord("duel", mblock[w] + 1, HeadKing, m)
    BY <1>4 DEF TakeEntry
  <2>4. HeadKing = NoModel <=> HeadSeq = 0
    BY DEF CrownInv, HeadHasLast
  <2>5. Fits(rec'[w])
    <3>1. ASSUME HeadKing = NoModel,
                 rec'[w] = NewRecord("genesis", mblock[w] + 1, m, NoModel)
          PROVE  Fits(rec'[w])
      <4>1. /\ rec'[w].kind = "genesis" /\ rec'[w].king = m
            /\ rec'[w].challenger = NoModel /\ rec'[w].dethroned = FALSE
        BY <3>1 DEF NewRecord, BlankRecord
      <4> QED
        BY <2>3, <2>4, <3>1, <4>1 DEF Fits
    <3>2. ASSUME HeadKing \notin {NoModel, m},
                 rec'[w] = NewRecord("duel", mblock[w] + 1, HeadKing, m)
          PROVE  Fits(rec'[w])
      <4>1. /\ rec'[w].kind = "duel" /\ rec'[w].king = HeadKing
            /\ rec'[w].challenger = m
        BY <3>2 DEF NewRecord, BlankRecord
      <4> QED
        BY <2>3, <2>4, <3>2, <4>1 DEF Fits
    <3> QED
      BY <2>3, <3>1, <3>2
  <2> QED
    BY <2>1, <2>2, <2>5, CrownFrame DEF CrownInv
<1>5. ASSUME NEW w \in Writers, Evaluate(w) PROVE CrownInv'
  <2>1. UNCHANGED <<head, index>>
    BY <1>5 DEF Evaluate
  <2>2. \A v \in Writers : /\ pc'[v] \in Publishing => pc[v] \in Publishing
                           /\ v # w => rec'[v] = rec[v]
    BY <1>5 DEF Evaluate, Goto, Publishing
  <2>3. /\ rec'[w].kind = rec[w].kind /\ rec'[w].king = rec[w].king
        /\ rec'[w].challenger = rec[w].challenger
        /\ rec[w].kind = "genesis" /\ rec[w].dethroned = FALSE
           => rec'[w].dethroned = FALSE
    BY <1>5 DEF Evaluate, Record
  <2>4. Fits(rec[w]) => Fits(rec'[w])
    BY <2>3 DEF Fits
  <2> QED
    BY <2>1, <2>2, <2>4, CrownFrame DEF CrownInv
<1>6. ASSUME NEW w \in Writers, AssignSeq(w) PROVE CrownInv'
  <2>1. UNCHANGED <<head, index>>
    BY <1>6 DEF AssignSeq
  <2>2. \A v \in Writers : /\ pc'[v] \in Publishing => pc[v] \in Publishing
                           /\ v # w => rec'[v] = rec[v]
    BY <1>6 DEF AssignSeq, Goto, Publishing
  <2>3. /\ rec'[w].kind = rec[w].kind /\ rec'[w].king = rec[w].king
        /\ rec'[w].challenger = rec[w].challenger
        /\ rec[w].kind = "genesis" /\ rec[w].dethroned = FALSE
           => rec'[w].dethroned = FALSE
    BY <1>6 DEF AssignSeq, Record
  <2>4. Fits(rec[w]) => Fits(rec'[w])
    BY <2>3 DEF Fits
  <2> QED
    BY <2>1, <2>2, <2>4, CrownFrame DEF CrownInv
<1>7. ASSUME NEW w \in Writers, AppendLine(w) PROVE CrownInv'
  <2>1. /\ index' = Append(index, rec[w]) /\ rec[w] \in Record
        /\ UNCHANGED <<head, rec>>
        /\ pc[w] = "append" /\ pc' = [pc EXCEPT ![w] = "head"]
    BY <1>7 DEF AppendLine, Goto
  <2>2. UNCHANGED <<HeadSeq, HeadKing>>
    BY <2>1 DEF HeadSeq, HeadKing
  <2> DEFINE n == Len(index)
  <2>3. /\ n \in Nat /\ DOMAIN index = 1..n
        /\ Len(index') = n + 1 /\ DOMAIN index' = 1..(n + 1)
        /\ \A i \in 1..n : index'[i] = index[i] /\ index[i] \in Record
        /\ index'[n + 1] = rec[w]
    BY <2>1
  <2>4. rec[w].seq = HeadSeq + 1 /\ Fits(rec[w])
    BY <2>1 DEF SeqInv, CrownInv, Publishing
  <2>5. ASSUME NEW j \in 1..n, index[j].seq # HeadSeq + 1, LastOfSeq(j)
        PROVE  LastOfSeq(j)'
    BY <2>3, <2>4, <2>5 DEF LastOfSeq
  <2>6. HeadHasLast'
    <3> SUFFICES ASSUME HeadSeq > 0 PROVE HeadHasLast'
      BY <2>2 DEF HeadHasLast
    <3>1. PICK j \in 1..n : /\ index[j].seq = HeadSeq /\ LastOfSeq(j)
                            /\ KingAfter(index[j]) = HeadKing
      BY <2>3 DEF CrownInv, HeadHasLast
    <3>2. LastOfSeq(j)'
      BY <2>5, <3>1
    <3>3. index'[j].seq = HeadSeq /\ KingAfter(index'[j]) = HeadKing
      BY <2>3, <3>1
    <3>4. j \in DOMAIN index' /\ HeadKing \in Models
      BY <2>3 DEF CrownInv, HeadHasLast
    <3> QED
      BY <2>2, <3>2, <3>3, <3>4 DEF HeadHasLast, KingAfter
  <2>7. CrownSuccession'
    <3> SUFFICES ASSUME NEW i \in 1..(n + 1)
                 PROVE  IF index'[i].kind = "genesis" THEN index'[i].seq = 1
                        ELSE \E j \in 1..(i - 1) :
                                /\ index'[j].seq + 1 = index'[i].seq
                                /\ LastOfSeq(j)'
                                /\ KingAfter(index'[j]) = index'[i].king
      BY <2>3 DEF CrownSuccession, KingAfter
    <3>1. CASE i \in 1..n /\ index[i].kind = "genesis"
      BY <2>3, <3>1 DEF CrownInv, CrownSuccession
    <3>2. CASE i \in 1..n /\ index[i].kind # "genesis"
      <4>1. PICK j \in 1..(i - 1) : /\ index[j].seq + 1 = index[i].seq
                                    /\ LastOfSeq(j)
                                    /\ KingAfter(index[j]) = index[i].king
        BY <2>3, <3>2 DEF CrownInv, CrownSuccession
      <4>2. j \in 1..n
        BY <2>3, <3>2
      <4>3. index[j].seq # HeadSeq + 1
        <5>1. index[i].seq <= HeadSeq + 1
          BY <2>3, <3>2 DEF CrownInv
        <5>2. index[j].seq \in Nat
          BY <2>3, <4>2 DEF Record
        <5> QED
          BY <4>1, <5>1, <5>2
      <4>4. LastOfSeq(j)'
        BY <2>5, <4>1, <4>2, <4>3
      <4> QED
        BY <2>3, <3>2, <4>1, <4>2, <4>4
    <3>3. CASE i = n + 1 /\ rec[w].kind = "genesis"
      BY <2>3, <2>4, <3>3 DEF Fits
    <3>4. CASE i = n + 1 /\ rec[w].kind # "genesis"
      <4>1. HeadSeq > 0 /\ rec[w].king = HeadKing
        BY <2>4, <3>4 DEF Fits
      <4>2. PICK j \in 1..n : /\ index[j].seq = HeadSeq /\ LastOfSeq(j)
                              /\ KingAfter(index[j]) = HeadKing
        BY <2>3, <4>1 DEF CrownInv, HeadHasLast
      <4>3. LastOfSeq(j)'
        BY <2>5, <4>2
      <4> QED
        BY <2>3, <2>4, <3>4, <4>1, <4>2, <4>3
    <3> QED
      BY <2>3, <3>1, <3>2, <3>3, <3>4
  <2>8. \A i \in DOMAIN index' : index'[i].seq <= HeadSeq' + 1
    BY <2>2, <2>3, <2>4 DEF CrownInv
  <2>9. \A v \in Writers : pc'[v] \in Publishing => Fits(rec[v])'
    BY <2>1, <2>2 DEF CrownInv, Fits, Publishing
  <2>10. HeadSeq' = 0 => HeadKing' = NoModel
    BY <2>2 DEF CrownInv
  <2> QED
    BY <2>6, <2>7, <2>8, <2>9, <2>10 DEF CrownInv
<1>8. ASSUME NEW w \in Writers, AdvanceHead(w) PROVE CrownInv'
  <2>1. /\ index' = index /\ pc[w] = "head" /\ rec[w] \in Record
        /\ \A v \in Writers : v # w => pc'[v] = pc[v]
        /\ pc'[w] \in {"ready", "off"}
    BY <1>8 DEF AdvanceHead, Finish, Goto
  <2>2. HeadSeq' = rec[w].seq /\ HeadKing' = KingAfter(rec[w])
    BY <1>8, HeadAdvances
  <2>3. /\ rec[w].seq = HeadSeq + 1 /\ Fits(rec[w])
        /\ index # <<>> /\ index[Len(index)] = rec[w]
    BY <2>1 DEF SeqInv, CrownInv, Publishing
  <2>4. KingAfter(rec[w]) \in Models
    BY <2>3 DEF Fits, KingAfter, CrownInv, HeadHasLast
  <2>5. HeadHasLast'
    <3>1. Len(index) \in DOMAIN index /\ LastOfSeq(Len(index))'
      BY <2>1, <2>3 DEF LastOfSeq
    <3> QED
      BY <2>1, <2>2, <2>3, <2>4, <3>1 DEF HeadHasLast, KingAfter
  <2>6. CrownSuccession'
    BY <2>1 DEF CrownInv, CrownSuccession, LastOfSeq, KingAfter
  <2>7. \A v \in Writers : pc'[v] \notin Publishing
    BY <2>1 DEF LockInv, Publishing, Lockers, Writers
  <2>8. \A i \in DOMAIN index' : index'[i].seq <= HeadSeq' + 1
    <3>1. index' = index /\ HeadSeq' = HeadSeq + 1
      BY <2>1, <2>2, <2>3
    <3>2. \A i \in DOMAIN index : index[i] \in Record
      OBVIOUS
    <3>3. \A i \in DOMAIN index : /\ index[i].seq \in Nat
                                 /\ index[i].seq <= HeadSeq + 1
      BY <3>2 DEF CrownInv, Record
    <3> QED
      BY <3>1, <3>3
  <2> QED
    BY <2>2, <2>3, <2>5, <2>6, <2>7, <2>8 DEF CrownInv
<1>9. ASSUME (\E w \in Writers : Quiet(w)) \/ UNCHANGED vars PROVE CrownInv'
  BY <1>9, QuietFrame, CrownFrame DEF CrownInv
<1> QED
  BY NextSplits, <1>1, <1>2, <1>3, <1>4, <1>5, <1>6, <1>7, <1>8, <1>9

(* The succession holds of an empty index. *)
LEMMA InitCrownInv == Init => CrownInv
BY DEF Init, CrownInv, HeadHasLast, CrownSuccession, HeadSeq, HeadKing,
       EmptyHead, Publishing

(* When only daemons publish, every duel of the index was fought against   *)
(* the model that the last record with the previous number left on the     *)
(* throne, whatever crashed: a reader that keeps the latest of repeated    *)
(* numbers reads an unbroken succession.                                   *)
THEOREM CrownSuccessionHolds ==
    GenesisCommands = {} /\ DuelCommands = {} /\ LoneStart
    => (Spec => []CrownSuccession)
<1> SUFFICES ASSUME GenesisCommands = {}, DuelCommands = {}, LoneStart
             PROVE  Spec => []CrownSuccession
  OBVIOUS
<1>1. Init => LockInv /\ Settled /\ SeqInv /\ CrownInv
  BY InitSeqInv, InitCrownInv
<1>2. CrownInv => CrownSuccession
  BY DEF CrownInv
<1>3. /\ TypeOK /\ LockInv /\ [Next]_vars => LockInv'
      /\ TypeOK /\ Settled /\ [Next]_vars => Settled'
  BY LockInductive, SettledInductive
<1>4. TypeOK /\ LockInv /\ Settled /\ SeqInv /\ CrownInv /\ [Next]_vars
      => CrownInv'
  BY CrownInductive
<1> QED
  BY <1>1, <1>2, <1>3, <1>4, SeqInductive, Typing, PTL DEF Spec
-----------------------------------------------------------------------------
(* For the refinement: every number up to the head's has a last line.      *)
KeptInv == \A s \in 1..HeadSeq :
             \E i \in DOMAIN index : index[i].seq = s /\ LastOfSeq(i)

(* There is only one, so it is the line that the published chain keeps.    *)
LEMMA KeptIs ==
    ASSUME index \in Seq(Record), NEW s, NEW i \in DOMAIN index,
           index[i].seq = s, LastOfSeq(i)
    PROVE  Kept(s) = i
<1>1. ASSUME NEW j \in DOMAIN index, index[j].seq = s, LastOfSeq(j)
      PROVE  j = i
  BY <1>1 DEF LastOfSeq
<1> QED
  BY <1>1 DEF Kept

(* Appending the next number to the index moves none of the kept lines.    *)
LEMMA KeptStays ==
    ASSUME TypeOK, NEW r \in Record, r.seq = HeadSeq + 1,
           index' = Append(index, r), NEW s \in 1..HeadSeq,
           NEW i \in DOMAIN index, index[i].seq = s, LastOfSeq(i)
    PROVE  /\ i \in DOMAIN index' /\ index'[i] = index[i]
           /\ LastOfSeq(i)'
           /\ Kept(s) = i /\ Kept(s)' = i
<1> HeadSeq \in Nat
  BY HeadSeqType
<1> USE DEF TypeOK
<1>1. /\ index' \in Seq(Record) /\ Len(index') = Len(index) + 1
      /\ \A j \in DOMAIN index : index'[j] = index[j] /\ j \in DOMAIN index'
      /\ index'[Len(index) + 1] = r
  OBVIOUS
<1>2. LastOfSeq(i)'
  BY <1>1 DEF LastOfSeq
<1>3. Kept(s) = i
  BY KeptIs
<1>4. Kept(s)' = i
  <2>1. ASSUME NEW j \in DOMAIN index', index'[j].seq = s, LastOfSeq(j)'
        PROVE  j = i
    <3>1. DOMAIN index' = 1..Len(index') /\ Len(index') \in Nat
      BY <1>1
    <3>2. i \in 1..Len(index') /\ index'[i].seq = s /\ j \in 1..Len(index')
      BY <1>1, <2>1, <3>1
    <3>3. ~(i < j)
      BY <1>2, <2>1, <3>1, <3>2 DEF LastOfSeq
    <3>4. ~(j < i)
      BY <2>1, <3>1, <3>2 DEF LastOfSeq
    <3> HIDE DEF TypeOK
    <3> QED
      BY <3>1, <3>2, <3>3, <3>4
  <2> QED
    BY <1>1, <1>2, <2>1 DEF Kept
<1> QED
  BY <1>1, <1>2, <1>3, <1>4

(* Every number the head reaches has a last line. *)
LEMMA KeptInductive ==
    TypeOK /\ LockInv /\ Settled /\ SeqInv /\ KeptInv /\ [Next]_vars => KeptInv'
<1> SUFFICES ASSUME TypeOK, LockInv, Settled, SeqInv, KeptInv, [Next]_vars
             PROVE  KeptInv'
  OBVIOUS
<1> HeadSeq \in Nat
  BY HeadSeqType
<1>1. CASE UNCHANGED <<head, index>>
  BY <1>1 DEF KeptInv, HeadSeq, LastOfSeq
<1>2. ASSUME NEW w \in Writers, WriteFirstHead(w) PROVE KeptInv'
  <2>1. HeadSeq' = 0
    BY <1>2 DEF WriteFirstHead, HeadSeq, EmptyHead
  <2> QED
    BY <2>1 DEF KeptInv
<1>3. ASSUME NEW w \in Writers, AppendLine(w) PROVE KeptInv'
  <2>1. /\ index' = Append(index, rec[w]) /\ rec[w] \in Record
        /\ rec[w].seq = HeadSeq + 1
    BY <1>3 DEF AppendLine, TypeOK, SeqInv
  <2>2. HeadSeq' = HeadSeq
    BY <1>3 DEF AppendLine, HeadSeq
  <2>3. ASSUME NEW s \in 1..HeadSeq
        PROVE  \E i \in DOMAIN index' : index'[i].seq = s /\ LastOfSeq(i)'
    <3>1. PICK i \in DOMAIN index : index[i].seq = s /\ LastOfSeq(i)
      BY DEF KeptInv
    <3> QED
      BY <2>1, <3>1, KeptStays
  <2> QED
    BY <2>2, <2>3 DEF KeptInv
<1>4. ASSUME NEW w \in Writers, AdvanceHead(w) PROVE KeptInv'
  <2>1. /\ index' = index /\ HeadSeq' = HeadSeq + 1
        /\ index # <<>> /\ index[Len(index)].seq = HeadSeq + 1
    BY <1>4, HeadAdvances DEF AdvanceHead, SeqInv
  <2>2. Len(index) \in DOMAIN index /\ LastOfSeq(Len(index))
    BY <2>1 DEF TypeOK, LastOfSeq
  <2>3. \A i \in DOMAIN index : LastOfSeq(i) => LastOfSeq(i)'
    BY <2>1 DEF LastOfSeq
  <2>4. \A s \in 1..(HeadSeq + 1) : s \in 1..HeadSeq \/ s = HeadSeq + 1
    OBVIOUS
  <2> QED
    BY <2>1, <2>2, <2>3, <2>4 DEF KeptInv
<1> QED
  BY <1>1, <1>2, <1>3, <1>4, QuietSteps

(* Appending to a sequence given by its elements. *)
LEMMA AppendIsUpdate ==
    ASSUME NEW n \in Nat, NEW F(_), NEW e, F(n + 1) = e
    PROVE  [s \in 1..(n + 1) |-> F(s)] = Append([s \in 1..n |-> F(s)], e)
OBVIOUS

(* What the chain shows of a record. *)
Link(r) == [kind |-> r.kind, king |-> r.king,
            challenger |-> r.challenger, dethroned |-> r.dethroned]

(* The published chain, in terms of Link. *)
LEMMA CommittedLinks == Committed = [s \in 1..HeadSeq |-> Link(index[Kept(s)])]
BY DEF Committed, Link

(* A step of the store is a step of the chain or invisible to its reader.  *)
LEMMA StepSimulation ==
    TypeOK /\ LockInv /\ Settled /\ SeqInv /\ CrownInv /\ KeptInv
    /\ [Next]_vars => [Chain!Next]_(Chain!vars)
<1> SUFFICES ASSUME TypeOK, LockInv, Settled, SeqInv, CrownInv, KeptInv,
                    [Next]_vars
             PROVE  Chain!Next \/ UNCHANGED <<Committed, HeadKing>>
  BY DEF Chain!vars
<1> HeadSeq \in Nat
  BY HeadSeqType
<1>1. CASE UNCHANGED <<head, index>>
  <2>1. UNCHANGED <<HeadSeq, HeadKing>>
    BY <1>1 DEF HeadSeq, HeadKing
  <2>2. UNCHANGED Committed
    BY <1>1, <2>1 DEF Committed, Kept, LastOfSeq
  <2> QED
    BY <2>1, <2>2
<1>2. ASSUME NEW w \in Writers, WriteFirstHead(w)
      PROVE  UNCHANGED <<Committed, HeadKing>>
  <2>1. /\ HeadSeq' = 0 /\ HeadSeq = 0
        /\ HeadKing' = NoModel /\ HeadKing = NoModel
    BY <1>2 DEF WriteFirstHead, Settled, CrownInv, HeadSeq, HeadKing, EmptyHead
  <2>2. Committed = <<>> /\ Committed' = <<>>
    BY <2>1 DEF Committed
  <2> QED
    BY <2>1, <2>2
<1>3. ASSUME NEW w \in Writers, AppendLine(w)
      PROVE  UNCHANGED <<Committed, HeadKing>>
  <2>1. /\ index' = Append(index, rec[w]) /\ rec[w] \in Record
        /\ rec[w].seq = HeadSeq + 1
    BY <1>3 DEF AppendLine, TypeOK, SeqInv
  <2>2. UNCHANGED <<HeadSeq, HeadKing>>
    BY <1>3 DEF AppendLine, HeadSeq, HeadKing
  <2>3. ASSUME NEW s \in 1..HeadSeq
        PROVE  index'[Kept(s)'] = index[Kept(s)]
    <3>1. PICK i \in DOMAIN index : index[i].seq = s /\ LastOfSeq(i)
      BY DEF KeptInv
    <3> QED
      BY <2>1, <3>1, KeptStays
  <2>4. Committed' = [s \in 1..HeadSeq |-> Link(index'[Kept(s)'])]
    BY <2>2 DEF Committed, Link
  <2> QED
    BY <2>2, <2>3, <2>4, CommittedLinks
<1>4. ASSUME NEW w \in Writers, AdvanceHead(w) PROVE Chain!Next
  <2> DEFINE r == rec[w]
  <2>1. /\ index' = index /\ HeadSeq' = HeadSeq + 1 /\ HeadKing' = KingAfter(r)
        /\ index # <<>> /\ index[Len(index)] = r /\ r.seq = HeadSeq + 1
        /\ r \in Record /\ Fits(r)
    BY <1>4, HeadAdvances
    DEF AdvanceHead, SeqInv, CrownInv, TypeOK, Publishing
  <2>2. Committed' = Append(Committed, Link(r))
    <3>1. Kept(HeadSeq + 1) = Len(index)
      <4>1. Len(index) \in DOMAIN index /\ LastOfSeq(Len(index))
        BY <2>1 DEF TypeOK, LastOfSeq
      <4> QED
        BY <2>1, <4>1, KeptIs DEF TypeOK
    <3>2. \A s : Kept(s)' = Kept(s)
      BY <2>1 DEF Kept, LastOfSeq
    <3>3. Committed' = [s \in 1..(HeadSeq + 1) |-> Link(index[Kept(s)])]
      BY <2>1, <3>2 DEF Committed, Link
    <3>4. Committed = [s \in 1..HeadSeq |-> Link(index[Kept(s)])]
      BY CommittedLinks
    <3>5. Link(index[Kept(HeadSeq + 1)]) = Link(r)
      BY <2>1, <3>1
    <3> HIDE DEF r
    <3> QED
      BY <3>3, <3>4, <3>5, AppendIsUpdate
  <2>3. CASE r.kind = "genesis"
    <3>1. /\ HeadKing = NoModel /\ r.king \in Models /\ HeadKing' = r.king
          /\ Link(r) = [kind |-> "genesis", king |-> r.king,
                        challenger |-> NoModel, dethroned |-> FALSE]
      BY <2>1, <2>3 DEF Fits, CrownInv, KingAfter, Link
    <3>2. Chain!Enthrone(r.king)
      BY <2>2, <3>1 DEF Chain!Enthrone
    <3> QED
      BY <3>1, <3>2 DEF Chain!Next
  <2>4. CASE r.kind # "genesis"
    <3>1. /\ r.kind = "duel" /\ r.dethroned \in BOOLEAN
          /\ r.king = HeadKing /\ HeadKing # NoModel
          /\ r.challenger \in Models /\ r.challenger # HeadKing
      BY <2>1, <2>4, ConstantsFit
      DEF Fits, CrownInv, HeadHasLast, Record, Assumptions
    <3>2. Link(r) = [kind |-> "duel", king |-> HeadKing,
                     challenger |-> r.challenger, dethroned |-> r.dethroned]
      BY <3>1 DEF Link
    <3>3. HeadKing' = IF r.dethroned THEN r.challenger ELSE HeadKing
      BY <2>1, <3>1 DEF KingAfter
    <3>4. Chain!Fight(r.challenger, r.dethroned)
      BY <2>2, <3>1, <3>2, <3>3 DEF Chain!Fight
    <3> QED
      BY <3>1, <3>4 DEF Chain!Next
  <2> QED
    BY <2>3, <2>4
<1> QED
  BY <1>1, <1>2, <1>3, <1>4, QuietSteps

(* When only daemons publish, the store on disk implements the published   *)
(* chain: at every moment, with its crashes, failed writes and repeated    *)
(* numbers, a reader who keeps the last line of each number sees an        *)
(* append-only succession of kings.                                        *)
THEOREM StoreImplementsChain ==
    GenesisCommands = {} /\ DuelCommands = {} /\ LoneStart
    => (Spec => ImplementsChain)
<1> SUFFICES ASSUME GenesisCommands = {}, DuelCommands = {}, LoneStart
             PROVE  Spec => ImplementsChain
  OBVIOUS
<1>1. Init => LockInv /\ Settled /\ SeqInv /\ CrownInv /\ KeptInv /\ Chain!Init
  <2> SUFFICES ASSUME Init PROVE CrownInv /\ KeptInv /\ Chain!Init
    BY InitSeqInv
  <2>1. HeadSeq = 0 /\ HeadKing = NoModel
    BY DEF Init, HeadSeq, HeadKing, EmptyHead
  <2>2. CrownInv
    BY InitCrownInv
  <2>3. KeptInv /\ Committed = <<>>
    BY <2>1 DEF KeptInv, Committed
  <2> QED
    BY <2>1, <2>2, <2>3 DEF Chain!Init
<1>2. /\ TypeOK /\ LockInv /\ [Next]_vars => LockInv'
      /\ TypeOK /\ Settled /\ [Next]_vars => Settled'
  BY LockInductive, SettledInductive
<1>3. TypeOK /\ LockInv /\ Settled /\ SeqInv /\ CrownInv /\ [Next]_vars
      => CrownInv'
  BY CrownInductive
<1> QED
  BY <1>1, <1>2, <1>3, SeqInductive, KeptInductive, StepSimulation, Typing, PTL
  DEF Spec, ImplementsChain, Chain!Spec
-----------------------------------------------------------------------------
(* A lone daemon's block number: on disk before it is published under, and *)
(* in its memory what is on disk, since nobody else counts.                *)
BlockInv ==
    /\ \A i \in 1..Len(index) : index[i].block <= qblock
    /\ \A i, j \in 1..Len(index) : i < j => index[i].block < index[j].block
    /\ \A w \in Daemons :
         /\ pc[w] \in {"loaded", "ready"} \cup Publishing => mblock[w] = qblock
         /\ pc[w] \in Publishing => rec[w].block = qblock
         /\ pc[w] \in Publishing \ {"head"} =>
              \A i \in 1..Len(index) : index[i].block < qblock

(* A line of the index is a record. *)
LEMMA LinesAreRecords ==
    index \in Seq(Record) => \A i \in 1..Len(index) : index[i] \in Record
OBVIOUS

(* Every step of a lone daemon keeps its blocks apart. *)
LEMMA BlocksInductive ==
    ASSUME GenesisCommands = {}, DuelCommands = {},
           \A v, w \in Daemons : v = w,
           TypeOK, BlockInv, [Next]_vars
    PROVE  BlockInv'
<1> USE DEF Goto, store
<1> Writers = Daemons
  BY DEF Writers, Lockers
<1> \A v, w \in Writers : v = w
  OBVIOUS
<1> index \in Seq(Record) /\ Len(index) \in Nat /\ qblock \in Nat
  BY DEF TypeOK
<1> \A i \in 1..Len(index) : index[i].block \in Nat
  BY LinesAreRecords DEF Record
<1>1. ASSUME UNCHANGED <<index, qblock>>, NEW w \in Writers,
             UNCHANGED <<pc, rec, mblock>>
             \/ /\ pc' = [pc EXCEPT ![w] = pc'[w]]
                /\ \/ pc'[w] \in {"off", "init", "inithead", "booted"}
                   \/ pc'[w] = "loaded" /\ mblock'[w] = qblock
                   \/ /\ pc'[w] = "ready" /\ mblock' = mblock
                      /\ pc[w] \in {"loaded", "ready"} \cup Publishing
                   \/ /\ pc[w] \in Publishing /\ pc'[w] \in Publishing
                      /\ pc[w] = "head" => pc'[w] = "head"
                      /\ mblock' = mblock /\ rec'[w].block = rec[w].block
      PROVE  BlockInv'
  BY <1>1 DEF BlockInv, Publishing, TypeOK
<1>2. ASSUME NEW w \in Writers,
             \/ Boot(w) \/ WriteManifest(w) \/ WriteFirstHead(w)
             \/ LoadQueue(w) \/ StartDaemon(w) \/ LockRefused(w) \/ Poll(w)
      PROVE  BlockInv'
  <2>1. CASE Boot(w)
    BY <1>1, <2>1 DEF Boot, TypeOK
  <2>2. CASE WriteManifest(w)
    BY <1>1, <2>2 DEF WriteManifest, TypeOK
  <2>3. CASE WriteFirstHead(w)
    BY <1>1, <2>3 DEF WriteFirstHead, TypeOK
  <2>4. CASE LoadQueue(w)
    BY <1>1, <2>4 DEF LoadQueue, TypeOK
  <2>5. CASE StartDaemon(w)
    BY <1>1, <2>5 DEF StartDaemon, TypeOK
  <2>6. CASE LockRefused(w)
    BY <1>1, <2>6 DEF LockRefused, TypeOK
  <2>7. CASE Poll(w)
    BY <1>1, <2>7 DEF Poll, vars
  <2> QED
    BY <1>2, <2>1, <2>2, <2>3, <2>4, <2>5, <2>6, <2>7
<1>3. ASSUME NEW w \in Writers, StartDuel(w) \/ StartGenesis(w) PROVE FALSE
  BY <1>3 DEF StartDuel, StartGenesis
<1>4. ASSUME NEW w \in Writers, TakeEntry(w) PROVE BlockInv'
  <2>1. mblock[w] = qblock
    BY <1>4 DEF TakeEntry, BlockInv
  <2>2. \A kind, k, m : NewRecord(kind, qblock + 1, k, m).block = qblock + 1
    BY DEF NewRecord, BlankRecord
  <2>3. rec'[w].block = qblock + 1
    BY <1>4, <2>1, <2>2 DEF TakeEntry, TypeOK
  <2>4. /\ index' = index /\ qblock' = qblock + 1
        /\ mblock'[w] = qblock + 1 /\ pc'[w] = "evaluating"
    BY <1>4, <2>1 DEF TakeEntry, TypeOK
  <2> QED
    BY <2>3, <2>4 DEF BlockInv, Publishing
<1>5. ASSUME NEW w \in Writers,
             \/ Evaluate(w) \/ WriteEvent(w) \/ AssignSeq(w)
      PROVE  BlockInv'
  <2>1. CASE Evaluate(w)
    <3>1. rec'[w].block = rec[w].block
      BY <2>1 DEF Evaluate, TypeOK, Record
    <3> QED
      BY <1>1, <2>1, <3>1 DEF Evaluate, TypeOK, Publishing
  <2>2. CASE WriteEvent(w)
    BY <1>1, <2>2 DEF WriteEvent, TypeOK, Publishing
  <2>3. CASE AssignSeq(w)
    BY <1>1, <2>3 DEF AssignSeq, TypeOK, Publishing, Record
  <2> QED
    BY <1>5, <2>1, <2>2, <2>3
<1>6. ASSUME NEW w \in Writers,
             \/ DuelFails(w) \/ AdvanceHead(w) \/ WriteFails(w) \/ Crash(w)
      PROVE  BlockInv'
  <2>1. CASE DuelFails(w)
    BY <1>1, <2>1 DEF DuelFails, Finish, TypeOK, Publishing
  <2>2. CASE AdvanceHead(w)
    BY <1>1, <2>2 DEF AdvanceHead, Finish, TypeOK, Publishing
  <2>3. CASE WriteFails(w)
    BY <1>1, <2>3 DEF WriteFails, Finish, TypeOK, Publishing
  <2>4. CASE Crash(w)
    BY <1>1, <2>4 DEF Crash, TypeOK
  <2> QED
    BY <1>6, <2>1, <2>2, <2>3, <2>4
<1>7. ASSUME NEW w \in Writers, AppendLine(w) PROVE BlockInv'
  <2>1. /\ UNCHANGED <<qblock, rec, mblock>>
        /\ pc[w] = "append" /\ pc'[w] = "head"
        /\ index' = Append(index, rec[w])
    BY <1>7 DEF AppendLine, TypeOK
  <2>2. /\ Len(index') = Len(index) + 1
        /\ \A i \in 1..Len(index) : index'[i] = index[i]
        /\ index'[Len(index) + 1] = rec[w]
    BY <2>1
  <2>3. /\ rec[w].block = qblock /\ mblock[w] = qblock
        /\ \A i \in 1..Len(index) : index[i].block < qblock
    BY <2>1 DEF BlockInv, Publishing
  <2>4. \A i \in 1..Len(index') : i \in 1..Len(index) \/ i = Len(index) + 1
    BY <2>2
  <2>5. \A i \in 1..Len(index') : index'[i].block <= qblock'
    BY <2>1, <2>2, <2>3, <2>4
  <2>6. \A i, j \in 1..Len(index') : i < j => index'[i].block < index'[j].block
    BY <2>2, <2>3, <2>4 DEF BlockInv
  <2> QED
    BY <2>1, <2>3, <2>5, <2>6 DEF BlockInv, Publishing
<1>8. CASE UNCHANGED vars
  BY <1>8 DEF vars, BlockInv
<1> QED
  BY <1>2, <1>3, <1>4, <1>5, <1>6, <1>7, <1>8 DEF Next, Step

(* "Unique per published event": a daemon that is alone never publishes    *)
(* under an event id twice, however often it dies between taking an entry  *)
(* and the head, since the block number is saved first.                    *)
THEOREM UniqueEventsHold ==
    GenesisCommands = {} /\ DuelCommands = {} /\ (\A v, w \in Daemons : v = w)
    => (Spec => []UniqueEvents)
<1> SUFFICES ASSUME GenesisCommands = {}, DuelCommands = {},
                    \A v, w \in Daemons : v = w
             PROVE  Spec => []UniqueEvents
  OBVIOUS
<1>1. Init => BlockInv
  <2> SUFFICES ASSUME Init PROVE BlockInv
    OBVIOUS
  <2>1. Len(index) = 0 /\ 1..0 = {}
    BY DEF Init
  <2>2. \A w \in Daemons : pc[w] = "off"
    BY DEF Init, Writers, Lockers
  <2> QED
    BY <2>1, <2>2 DEF BlockInv, Publishing
<1>2. TypeOK /\ BlockInv /\ [Next]_vars => BlockInv'
  BY BlocksInductive
<1>3. TypeOK /\ BlockInv => UniqueEvents
  <2> SUFFICES ASSUME TypeOK, BlockInv, NEW i \in 1..Len(index),
                      NEW j \in 1..Len(index), EventId(index[i]) = EventId(index[j])
               PROVE  i = j
    BY LinesAreRecords DEF UniqueEvents, TypeOK
  <2>1. index[i].block = index[j].block
    BY DEF EventId
  <2>2. /\ index[i].block \in Nat /\ index[j].block \in Nat
        /\ Len(index) \in Nat
    BY LinesAreRecords DEF TypeOK, Record
  <2> QED
    BY <2>1, <2>2 DEF BlockInv
<1> QED
  BY <1>1, <1>2, <1>3, Typing, PTL DEF Spec
-----------------------------------------------------------------------------
(* The verifier.  First: of a dense index it reads every line, in order,   *)
(* although it reads it part by part.                                      *)

(* Of some natural numbers one is the least.                               *)
LEMMA LeastOf ==
    ASSUME NEW S, S \subseteq Nat, S # {}
    PROVE  \E m \in S : \A k \in S : ~(k < m)
<1>. DEFINE R == OpToRel(<, Nat)
<1>1. IsWellFoundedOn(R, Nat)
  BY NatLessThanWellFounded
<1>2. PICK m \in S : \A k \in S : ~(<<k, m>> \in R)
  <2>. HIDE DEF R
  <2>. QED BY <1>1, WFMin
<1>3. \A k \in S : k < m => <<k, m>> \in R
  BY DEF OpToRel
<1>. QED BY <1>2, <1>3

(* A number by its quotient and remainder.                               *)
LEMMA Division ==
    ASSUME NEW a \in Nat, NEW n \in Nat \ {0}
    PROVE  /\ a \div n \in Nat /\ a % n \in 0..(n - 1)
           /\ a = n * (a \div n) + (a % n)
OBVIOUS

(* The next multiple of a number.                                        *)
LEMMA Product ==
    ASSUME NEW n \in Nat, NEW i \in Nat
    PROVE  n * i \in Nat /\ n * (i + 1) = n * i + n
<1>1. n * i \in Nat
  OBVIOUS
<1>2. n * (i + 1) = n * i + n
  OBVIOUS
<1>. QED BY <1>1, <1>2

(* A multiple grows with its factor.                                     *)
LEMMA ProductGrows ==
    ASSUME NEW n \in Nat, NEW i \in Nat, NEW j \in Nat, i <= j
    PROVE  n * i <= n * j
OBVIOUS

(* The part of a number, told without a division.                          *)
LEMMA PartIs ==
    ASSUME NEW a \in Nat \ {0}
    PROVE  /\ PartOf(a) \in Nat /\ LinesPerPart * PartOf(a) \in Nat
           /\ LinesPerPart * PartOf(a) < a
           /\ a <= LinesPerPart * PartOf(a) + LinesPerPart
<1>. DEFINE L == LinesPerPart
            b == a - 1
            d == b \div L
<1>1. L \in Nat \ {0} /\ b \in Nat
  BY LinesPerPartAssumption
<1>. HIDE DEF L, b
<1>2. d \in Nat /\ b % L \in 0..(L - 1) /\ b = L * d + (b % L)
  BY <1>1, Division
<1>3. PartOf(a) = d
  BY DEF PartOf, d, b, L
<1>. HIDE DEF d
<1>4. L * d \in Nat
  <2>1. L \in Nat
    BY <1>1
  <2>. QED BY <1>2, <2>1, Product
<1>5. L * d <= b /\ b < L * d + L
  BY <1>1, <1>2, <1>4
<1>6. L * d < a /\ a <= L * d + L
  BY <1>1, <1>4, <1>5 DEF b
<1>. QED BY <1>2, <1>3, <1>4, <1>6 DEF L

(* A later number is in no earlier part.                                 *)
LEMMA PartsGrow ==
    ASSUME NEW a \in Nat \ {0}, NEW b \in Nat \ {0}, a <= b
    PROVE  PartOf(a) <= PartOf(b)
<1>. DEFINE L == LinesPerPart
            p == PartOf(a)
            q == PartOf(b)
<1>1. /\ p \in Nat /\ q \in Nat /\ L \in Nat \ {0} /\ L * p \in Nat /\ L * q \in Nat
      /\ L * p < a /\ b <= L * q + L
  BY PartIs, LinesPerPartAssumption
<1>. HIDE DEF L, p, q
<1>2. ASSUME q < p PROVE FALSE
  <2>1. L * (q + 1) = L * q + L
    <3>1. L \in Nat
      BY <1>1
    <3>. QED BY <1>1, <3>1, Product
  <2>2. L * (q + 1) <= L * p
    <3>1. L \in Nat /\ q + 1 \in Nat /\ q + 1 <= p
      BY <1>1, <1>2
    <3>. QED BY <1>1, <3>1, ProductGrows
  <2>. QED BY <1>1, <2>1, <2>2
<1>. QED BY <1>1, <1>2 DEF p, q

(* The first number of a part is in it, and the part of a number is below  *)
(* the number.                                                             *)
LEMMA FirstOfPart ==
    ASSUME NEW q \in Nat, NEW a \in Nat \ {0}, q <= PartOf(a)
    PROVE  /\ LinesPerPart * q + 1 \in 1..a
           /\ PartOf(LinesPerPart * q + 1) = q
           /\ q < a
<1>. DEFINE L == LinesPerPart
            p == PartOf(a)
            f == L * q + 1
            r == PartOf(f)
<1>1. L \in Nat \ {0} /\ L \in Nat
  BY LinesPerPartAssumption
<1>2. p \in Nat /\ L * p \in Nat /\ L * p < a /\ q <= p
  BY PartIs
<1>. HIDE DEF L, p
<1>3. L * q \in Nat /\ L * (q + 1) = L * q + L
  BY <1>1, Product
<1>4. L * q <= L * p
  BY <1>1, <1>2, ProductGrows
<1>5. f \in Nat \ {0} /\ f \in 1..a
  BY <1>2, <1>3, <1>4
<1>. HIDE DEF f
<1>6. /\ r \in Nat /\ L * r \in Nat /\ L * r < f /\ f <= L * r + L
  BY <1>5, PartIs DEF L
<1>. HIDE DEF r
<1>7. ASSUME q < r PROVE FALSE
  <2>1. L * (q + 1) <= L * r
    <3>1. q + 1 \in Nat /\ q + 1 <= r
      BY <1>6, <1>7
    <3>. QED BY <1>1, <1>6, <3>1, ProductGrows
  <2>. QED BY <1>1, <1>3, <1>6, <2>1 DEF f
<1>8. ASSUME r < q PROVE FALSE
  <2>1. L * (r + 1) <= L * q /\ L * (r + 1) = L * r + L
    <3>1. r + 1 \in Nat /\ r + 1 <= q
      BY <1>6, <1>8
    <3>. QED BY <1>1, <1>6, <3>1, ProductGrows, Product
  <2>. QED BY <1>1, <1>3, <1>6, <2>1 DEF f
<1>9. r = q
  BY <1>6, <1>7, <1>8
<1>10. q <= L * q
  <2>1. 1 * q <= L * q
    BY <1>1
  <2>. QED BY <2>1
<1>11. q < a
  BY <1>2, <1>3, <1>4, <1>10
<1>. QED BY <1>5, <1>9, <1>11 DEF f, L, r

(* A dense index has positive numbers that never go down, none is left     *)
(* out, and none is above its line's position.                             *)
Seq1(i) == index[i].seq

(* Numbers begin at one; each repeats the one before or is the next.     *)
LEMMA NumbersAre ==
    ASSUME index \in Seq(Record), SeqDense
    PROVE  /\ Len(index) \in Nat /\ DOMAIN index = 1..Len(index)
           /\ \A i \in 1..Len(index) : Seq1(i) \in Nat
           /\ \A i \in 1..Len(index) :
                 IF i = 1 THEN Seq1(i) = 1
                 ELSE Seq1(i) \in {Seq1(i - 1), Seq1(i - 1) + 1}
<1>1. Len(index) \in Nat /\ DOMAIN index = 1..Len(index)
  OBVIOUS
<1>2. \A i \in 1..Len(index) : index[i] \in Record
  BY LinesAreRecords
<1>3. \A i \in 1..Len(index) : Seq1(i) \in Nat
  BY <1>2 DEF Record, Seq1
<1>. QED BY <1>1, <1>3 DEF SeqDense, Seq1

(* A record's number is at most its place.                               *)
LEMMA NumbersPositive ==
    ASSUME index \in Seq(Record), SeqDense
    PROVE  \A i \in 1..Len(index) : Seq1(i) \in 1..i
<1>. DEFINE n == Len(index)
            bad == {i \in 1..n : Seq1(i) \notin 1..i}
<1>1. /\ n \in Nat /\ \A i \in 1..n : Seq1(i) \in Nat
      /\ \A i \in 1..n : IF i = 1 THEN Seq1(i) = 1
                         ELSE Seq1(i) \in {Seq1(i - 1), Seq1(i - 1) + 1}
  BY NumbersAre
<1>. HIDE DEF n
<1>2. bad = {}
  <2>. SUFFICES ASSUME bad # {} PROVE FALSE
    OBVIOUS
  <2>1. bad \subseteq 1..n /\ bad \subseteq Nat
    OBVIOUS
  <2>2. /\ \A i \in 1..n : i \notin bad => Seq1(i) \in 1..i
        /\ \A i \in bad : Seq1(i) \notin 1..i
    OBVIOUS
  <2>. HIDE DEF bad
  <2>3. PICK i \in bad : \A j \in bad : ~(j < i)
    BY <2>1, LeastOf
  <2>4. i \in 1..n /\ i \in Nat
    BY <2>1, <2>3
  <2>5. CASE i = 1
    BY <1>1, <2>2, <2>3, <2>4, <2>5
  <2>6. CASE i # 1
    <3>1. i - 1 \in 1..n /\ i - 1 < i
      BY <1>1, <2>4, <2>6
    <3>2. Seq1(i - 1) \in 1..(i - 1)
      BY <2>2, <2>3, <3>1
    <3>3. Seq1(i) \in {Seq1(i - 1), Seq1(i - 1) + 1}
      BY <1>1, <2>4, <2>6
    <3>4. Seq1(i) \in 1..i
      BY <2>4, <3>2, <3>3
    <3>. QED BY <2>2, <2>3, <3>4
  <2>. QED BY <2>5, <2>6
<1>. QED BY <1>2 DEF n

(* Numbers never go down.                                                *)
LEMMA NumbersGrow ==
    ASSUME index \in Seq(Record), SeqDense,
           NEW i \in 1..Len(index), NEW j \in 1..Len(index), i <= j
    PROVE  Seq1(i) <= Seq1(j)
<1>. DEFINE n == Len(index)
            bad == {k \in i..n : ~(Seq1(i) <= Seq1(k))}
<1>1. /\ n \in Nat /\ \A k \in 1..n : Seq1(k) \in Nat
      /\ \A k \in 1..n : IF k = 1 THEN Seq1(k) = 1
                         ELSE Seq1(k) \in {Seq1(k - 1), Seq1(k - 1) + 1}
  BY NumbersAre
<1>2. i \in 1..n /\ j \in i..n
  BY <1>1
<1>. HIDE DEF n
<1>3. bad = {}
  <2>. SUFFICES ASSUME bad # {} PROVE FALSE
    OBVIOUS
  <2>1. bad \subseteq i..n /\ bad \subseteq Nat
    BY <1>2
  <2>2. /\ \A k \in i..n : k \notin bad => Seq1(i) <= Seq1(k)
        /\ \A k \in bad : ~(Seq1(i) <= Seq1(k))
    OBVIOUS
  <2>. HIDE DEF bad
  <2>3. PICK k \in bad : \A m \in bad : ~(m < k)
    BY <2>1, LeastOf
  <2>4. k \in i..n /\ k \in 1..n /\ k \in Nat /\ i \in Nat
    BY <1>1, <1>2, <2>1, <2>3
  <2>5. CASE k = i
    <3>1. Seq1(i) \in Nat
      BY <1>1, <1>2
    <3>. QED BY <2>2, <2>3, <2>5, <3>1
  <2>6. CASE k # i
    <3>1. k - 1 \in i..n /\ k - 1 \in 1..n /\ k - 1 < k /\ k # 1
      BY <1>1, <1>2, <2>4, <2>6
    <3>2. Seq1(i) <= Seq1(k - 1)
      BY <2>2, <2>3, <3>1
    <3>3. Seq1(k) \in {Seq1(k - 1), Seq1(k - 1) + 1}
      BY <1>1, <2>4, <3>1
    <3>4. Seq1(i) \in Nat /\ Seq1(k - 1) \in Nat
      BY <1>1, <1>2, <3>1
    <3>5. Seq1(i) <= Seq1(k)
      BY <3>2, <3>3, <3>4
    <3>. QED BY <2>2, <2>3, <3>5
  <2>. QED BY <2>5, <2>6
<1>. QED BY <1>2, <1>3 DEF n

(* Each number up to a record's own has a record.                        *)
LEMMA NoNumberMissing ==
    ASSUME index \in Seq(Record), SeqDense,
           NEW j \in 1..Len(index), NEW s \in 1..Seq1(j)
    PROVE  \E i \in 1..j : Seq1(i) = s
<1>. DEFINE n == Len(index)
            S == {i \in 1..n : s <= Seq1(i)}
<1>1. /\ n \in Nat /\ \A k \in 1..n : Seq1(k) \in Nat
      /\ \A k \in 1..n : IF k = 1 THEN Seq1(k) = 1
                         ELSE Seq1(k) \in {Seq1(k - 1), Seq1(k - 1) + 1}
  BY NumbersAre
<1>2. j \in 1..n
  OBVIOUS
<1>. HIDE DEF n
<1>3. s \in Nat /\ s >= 1 /\ s <= Seq1(j)
  BY <1>1, <1>2
<1>4. S \subseteq Nat /\ j \in S
  BY <1>2, <1>3
<1>5. \A k \in 1..n : k \in S <=> s <= Seq1(k)
  OBVIOUS
<1>6. S \subseteq 1..n
  OBVIOUS
<1>. HIDE DEF S
<1>7. PICK i \in S : \A k \in S : ~(k < i)
  BY <1>4, LeastOf
<1>8. i \in 1..n /\ i <= j /\ s <= Seq1(i)
  <2>1. i \in 1..n
    BY <1>6
  <2>. QED BY <1>1, <1>2, <1>4, <1>5, <1>7, <2>1
<1>9. CASE i = 1
  <2>1. Seq1(i) = 1
    BY <1>1, <1>8, <1>9
  <2>. QED BY <1>1, <1>2, <1>3, <1>8, <2>1
<1>10. CASE i # 1
  <2>1. i - 1 \in 1..n /\ i - 1 < i
    BY <1>1, <1>8, <1>10
  <2>2. ~(s <= Seq1(i - 1))
    BY <1>5, <1>7, <2>1
  <2>3. Seq1(i) \in {Seq1(i - 1), Seq1(i - 1) + 1} /\ Seq1(i - 1) \in Nat
    BY <1>1, <1>8, <1>10, <2>1
  <2>4. Seq1(i) = s
    BY <1>3, <1>8, <2>2, <2>3
  <2>5. i \in 1..j
    BY <1>1, <1>2, <1>8
  <2>. QED BY <2>4, <2>5
<1>. QED BY <1>9, <1>10

(* The lines before the p-th part are the first c.                         *)
PartAt(i) == PartOf(index[i].seq)
Cut(c, p) ==
    /\ c \in 0..Len(index)
    /\ \A i \in 1..Len(index) : IF i <= c THEN PartAt(i) < p ELSE p <= PartAt(i)

(* The parts that the records are in never go down.                      *)
LEMMA PartsAre ==
    ASSUME index \in Seq(Record), SeqDense
    PROVE  /\ Len(index) \in Nat
           /\ \A i \in 1..Len(index) : PartAt(i) \in Nat /\ PartAt(i) < i
           /\ \A i, j \in 1..Len(index) : i <= j => PartAt(i) <= PartAt(j)
<1>1. Len(index) \in Nat
  OBVIOUS
<1>2. ASSUME NEW i \in 1..Len(index) PROVE PartAt(i) \in Nat /\ PartAt(i) < i
  <2>1. Seq1(i) \in 1..i /\ i \in Nat
    BY <1>1, NumbersPositive
  <2>. DEFINE s == Seq1(i)
  <2>2. s \in Nat \ {0} /\ s <= i
    BY <2>1
  <2>. HIDE DEF s
  <2>3. PartOf(s) \in Nat
    BY <2>2, PartIs
  <2>4. PartOf(s) < s
    BY <2>2, <2>3, FirstOfPart
  <2>5. PartAt(i) = PartOf(s)
    BY DEF PartAt, s, Seq1
  <2>. QED BY <2>1, <2>2, <2>3, <2>4, <2>5
<1>3. ASSUME NEW i \in 1..Len(index), NEW j \in 1..Len(index), i <= j
      PROVE  PartAt(i) <= PartAt(j)
  <2>1. Seq1(i) \in Nat \ {0} /\ Seq1(j) \in Nat \ {0}
    <3>1. Seq1(i) \in 1..i /\ Seq1(j) \in 1..j
      BY NumbersPositive
    <3>. QED BY <1>1, <3>1
  <2>2. Seq1(i) <= Seq1(j)
    BY <1>3, NumbersGrow
  <2>3. PartOf(Seq1(i)) <= PartOf(Seq1(j))
    BY <2>1, <2>2, PartsGrow
  <2>. QED BY <2>3 DEF PartAt, Seq1
<1>. QED BY <1>1, <1>2, <1>3

(* Each part begins at some place of the index.                          *)
LEMMA CutExists ==
    ASSUME index \in Seq(Record), SeqDense, NEW p \in Nat
    PROVE  \E c : Cut(c, p)
<1>. DEFINE n == Len(index)
            S == {i \in 1..n : p <= PartAt(i)}
<1>1. /\ n \in Nat /\ \A i \in 1..n : PartAt(i) \in Nat
      /\ \A i, j \in 1..n : i <= j => PartAt(i) <= PartAt(j)
  BY PartsAre
<1>. HIDE DEF n
<1>2. CASE S = {}
  <2>1. \A i \in 1..n : i <= n /\ PartAt(i) < p
    BY <1>1, <1>2
  <2>2. n \in 0..n
    BY <1>1
  <2>. QED BY <2>1, <2>2 DEF Cut, n
<1>3. CASE S # {}
  <2>1. S \subseteq Nat /\ S \subseteq 1..n /\ \A i \in 1..n : i \in S <=> p <= PartAt(i)
    OBVIOUS
  <2>. HIDE DEF S
  <2>2. PICK m \in S : \A k \in S : ~(k < m)
    BY <1>3, <2>1, LeastOf
  <2>3. m \in 1..n
    BY <2>1, <2>2
  <2>4. m - 1 \in 0..n
    BY <1>1, <2>3
  <2>5. ASSUME NEW i \in 1..n
        PROVE  IF i <= m - 1 THEN PartAt(i) < p ELSE p <= PartAt(i)
    <3>1. CASE i <= m - 1
      <4>1. i < m
        BY <1>1, <2>3, <3>1
      <4>2. ~(p <= PartAt(i))
        BY <2>1, <2>2, <4>1
      <4>. QED BY <1>1, <3>1, <4>2
    <3>2. CASE ~(i <= m - 1)
      <4>1. m <= i
        BY <1>1, <2>3, <3>2
      <4>2. PartAt(m) <= PartAt(i) /\ p <= PartAt(m)
        BY <1>1, <2>1, <2>2, <2>3, <4>1
      <4>3. p <= PartAt(i)
        BY <1>1, <2>3, <4>2
      <4>. QED BY <3>2, <4>3
    <3>. QED BY <3>1, <3>2
  <2>6. Cut(m - 1, p)
    BY <2>4, <2>5 DEF Cut, n
  <2>. QED BY <2>6
<1>. QED BY <1>2, <1>3

(* The lines after the first a, up to the b-th.                            *)
Slice(a, b) == [k \in 1..(b - a) |-> index[a + k]]

(* A slice of the index has its records in their order.                  *)
LEMMA SliceIs ==
    ASSUME index \in Seq(Record), NEW a \in 0..Len(index), NEW b \in a..Len(index)
    PROVE  /\ Slice(a, b) \in Seq(Record) /\ Len(Slice(a, b)) = b - a
           /\ \A k \in 1..(b - a) : Slice(a, b)[k] = index[a + k]
<1>1. Len(index) \in Nat /\ b - a \in Nat
  OBVIOUS
<1>2. \A k \in 1..(b - a) : a + k \in 1..Len(index)
  BY <1>1
<1>3. \A k \in 1..(b - a) : index[a + k] \in Record
  BY <1>2, LinesAreRecords
<1>. DEFINE s == Slice(a, b)
            m == b - a
<1>4. s \in [1..m -> Record] /\ \A k \in 1..m : s[k] = index[a + k]
  BY <1>3 DEF Slice
<1>. HIDE DEF s, m
<1>5. m \in Nat
  BY <1>1 DEF m
<1>6. s \in Seq(Record) /\ Len(s) = m
  BY <1>4, <1>5
<1>. QED BY <1>4, <1>6 DEF s, m

(* Nothing is between a place and itself.                                *)
LEMMA SliceEmpty ==
    ASSUME NEW a \in Nat
    PROVE  Slice(a, a) = <<>>
<1>1. 1..(a - a) = {}
  OBVIOUS
<1>. QED BY <1>1 DEF Slice

(* A slice grows by its next record.                                     *)
LEMMA SliceMore ==
    ASSUME index \in Seq(Record), NEW a \in 0..Len(index), NEW b \in (a + 1)..Len(index)
    PROVE  Append(Slice(a, b - 1), index[b]) = Slice(a, b)
<1>1. Len(index) \in Nat
  OBVIOUS
<1>2. b - 1 \in a..Len(index) /\ b \in a..Len(index) /\ b \in 1..Len(index)
  BY <1>1
<1>. DEFINE s == Slice(a, b - 1)
            t == Slice(a, b)
            e == index[b]
            m == b - a
<1>3. e \in Record
  BY <1>2, LinesAreRecords
<1>4. /\ s \in Seq(Record) /\ Len(s) = m - 1 /\ \A k \in 1..(m - 1) : s[k] = index[a + k]
      /\ t \in Seq(Record) /\ Len(t) = m /\ \A k \in 1..m : t[k] = index[a + k]
  <2>1. (b - 1) - a = m - 1
    BY <1>1, <1>2
  <2>2. /\ s \in Seq(Record) /\ Len(s) = (b - 1) - a
        /\ \A k \in 1..((b - 1) - a) : s[k] = index[a + k]
    BY <1>2, SliceIs
  <2>3. t \in Seq(Record) /\ Len(t) = m /\ \A k \in 1..m : t[k] = index[a + k]
    BY <1>2, SliceIs
  <2>. QED BY <2>1, <2>2, <2>3
<1>5. m \in Nat \ {0} /\ a + m = b
  BY <1>1, <1>2
<1>6. index[a + m] = e
  BY <1>5
<1>. HIDE DEF s, t, e, m
<1>7. /\ Append(s, e) \in Seq(Record) /\ Len(Append(s, e)) = m
      /\ \A k \in 1..(m - 1) : Append(s, e)[k] = s[k]
      /\ Append(s, e)[m] = e
  BY <1>3, <1>4, <1>5, AppendProperties
<1>8. \A k \in 1..m : Append(s, e)[k] = t[k]
  <2>1. \A k \in 1..m : k = m \/ k \in 1..(m - 1)
    BY <1>5
  <2>. QED BY <1>4, <1>6, <1>7, <2>1
<1>9. Append(s, e) = t
  BY <1>4, <1>7, <1>8, SeqEqual
<1>. QED BY <1>9 DEF s, t, e

(* Slices that meet make one.                                            *)
LEMMA SlicesJoin ==
    ASSUME index \in Seq(Record), NEW a \in 0..Len(index), NEW b \in a..Len(index)
    PROVE  Slice(0, a) \o Slice(a, b) = Slice(0, b)
<1>1. Len(index) \in Nat /\ 0 \in 0..Len(index) /\ a \in 0..Len(index) /\ b \in 0..Len(index)
  OBVIOUS
<1>. DEFINE s == Slice(0, a)
            t == Slice(a, b)
            u == Slice(0, b)
<1>2. s \in Seq(Record) /\ Len(s) = a /\ \A k \in 1..a : s[k] = index[k]
  <2>1. /\ s \in Seq(Record) /\ Len(s) = a - 0 /\ \A k \in 1..(a - 0) : s[k] = index[0 + k]
    BY <1>1, SliceIs
  <2>2. a - 0 = a /\ \A k \in 1..a : 0 + k = k
    BY <1>1
  <2>. HIDE DEF s
  <2>. QED BY <2>1, <2>2
<1>3. u \in Seq(Record) /\ Len(u) = b /\ \A k \in 1..b : u[k] = index[k]
  <2>1. /\ u \in Seq(Record) /\ Len(u) = b - 0 /\ \A k \in 1..(b - 0) : u[k] = index[0 + k]
    BY <1>1, SliceIs
  <2>2. b - 0 = b /\ \A k \in 1..b : 0 + k = k
    BY <1>1
  <2>. HIDE DEF u
  <2>. QED BY <2>1, <2>2
<1>4. t \in Seq(Record) /\ Len(t) = b - a /\ \A k \in 1..(b - a) : t[k] = index[a + k]
  BY SliceIs
<1>5. a \in Nat /\ b \in Nat /\ b - a \in Nat /\ a + (b - a) = b
  BY <1>1
<1>. HIDE DEF s, t, u
<1>6. /\ s \o t \in Seq(Record) /\ Len(s \o t) = b
      /\ \A k \in 1..b : (s \o t)[k] = IF k <= a THEN s[k] ELSE t[k - a]
  BY <1>2, <1>4, <1>5, ConcatProperties
<1>7. ASSUME NEW k \in 1..b PROVE (s \o t)[k] = u[k]
  <2>1. CASE k <= a
    <3>1. k \in 1..a
      BY <1>5, <2>1
    <3>. QED BY <1>2, <1>3, <1>6, <2>1, <3>1
  <2>2. CASE ~(k <= a)
    <3>1. k - a \in 1..(b - a) /\ a + (k - a) = k
      BY <1>5, <2>2
    <3>2. t[k - a] = index[k]
      BY <1>4, <3>1
    <3>. QED BY <1>3, <1>6, <2>2, <3>2
  <2>. QED BY <2>1, <2>2
<1>8. s \o t = u
  BY <1>3, <1>6, <1>7, SeqEqual
<1>. QED BY <1>8 DEF s, t, u

(* A part that is read line by line.                                       *)
UptoAt(g, p, i) ==
    IF i = 0 THEN <<>>
    ELSE IF PartOf(index[i].seq) = p THEN Append(g[i - 1], index[i])
    ELSE g[i - 1]
Uptos(g, p) == g = [i \in 0..Len(index) |-> UptoAt(g, p, i)]

(* A part is the slice between two places where parts begin.             *)
LEMMA PartIsSlice ==
    ASSUME index \in Seq(Record), SeqDense, NEW p \in Nat,
           NEW a, Cut(a, p), NEW b, Cut(b, p + 1)
    PROVE  a <= b /\ Part(p) = Slice(a, b)
<1>. DEFINE n == Len(index)
            Clip(i) == IF i <= a THEN a ELSE IF i <= b THEN i ELSE b
            g == [i \in 0..n |-> Slice(a, Clip(i))]
            F == CHOOSE h : Uptos(h, p)
<1>1. n \in Nat /\ \A i \in 1..n : PartAt(i) \in Nat
  BY PartsAre
<1>2. a \in 0..n /\ b \in 0..n
  BY DEF Cut
<1>3. a <= b
  <2>. SUFFICES ASSUME b < a PROVE FALSE
    BY <1>1, <1>2
  <2>1. a \in 1..n /\ a <= a /\ ~(a <= b)
    BY <1>1, <1>2
  <2>2. PartAt(a) < p /\ p + 1 <= PartAt(a)
    BY <2>1 DEF Cut
  <2>. QED BY <1>1, <2>1, <2>2
<1>4. ASSUME NEW i \in 1..n PROVE PartAt(i) = p <=> (a < i /\ i <= b)
  <2>1. IF i <= a THEN PartAt(i) < p ELSE p <= PartAt(i)
    BY DEF Cut
  <2>2. IF i <= b THEN PartAt(i) < p + 1 ELSE p + 1 <= PartAt(i)
    BY DEF Cut
  <2>. HIDE DEF n
  <2>. QED BY <1>1, <1>2, <2>1, <2>2
<1>5. ASSUME NEW i \in 0..n PROVE g[i] = UptoAt(g, p, i)
  <2>. HIDE DEF n
  <2>1. CASE i = 0
    <3>1. Clip(i) = a
      BY <1>1, <1>2, <2>1
    <3>2. g[i] = <<>>
      BY <1>1, <1>2, <3>1, SliceEmpty
    <3>. QED BY <2>1, <3>2 DEF UptoAt
  <2>2. CASE i # 0
    <3>1. i \in 1..n /\ i - 1 \in 0..n
      BY <1>1, <2>2
    <3>2. g[i] = Slice(a, Clip(i)) /\ g[i - 1] = Slice(a, Clip(i - 1))
      BY <3>1
    <3>3. UptoAt(g, p, i) = IF PartAt(i) = p THEN Append(g[i - 1], index[i]) ELSE g[i - 1]
      BY <2>2 DEF UptoAt, PartAt
    <3>. HIDE DEF g
    <3>4. CASE a < i /\ i <= b
      <4>1. Clip(i) = i /\ Clip(i - 1) = i - 1 /\ i \in (a + 1)..n
        BY <1>1, <1>2, <3>1, <3>4
      <4>. HIDE DEF Clip
      <4>2. Append(Slice(a, i - 1), index[i]) = Slice(a, i)
        BY <1>2, <4>1, SliceMore DEF n
      <4>. QED BY <1>4, <3>1, <3>2, <3>3, <3>4, <4>1, <4>2
    <3>5. CASE ~(a < i /\ i <= b)
      <4>1. Clip(i) = Clip(i - 1)
        BY <1>1, <1>2, <1>3, <3>1, <3>5
      <4>. HIDE DEF Clip
      <4>. QED BY <1>4, <3>1, <3>2, <3>3, <3>5, <4>1
    <3>. QED BY <3>4, <3>5
  <2>. QED BY <2>1, <2>2
<1>6. g = [i \in 0..n |-> g[i]]
  OBVIOUS
<1>7. g[n] = Slice(a, b)
  <2>. HIDE DEF n
  <2>1. Clip(n) = b /\ n \in 0..n
    BY <1>1, <1>2, <1>3
  <2>. HIDE DEF Clip
  <2>. QED BY <2>1
<1>. HIDE DEF g
<1>8. Uptos(g, p)
  BY <1>5, <1>6, Zenon DEF Uptos
<1>9. Uptos(F, p)
  BY <1>8
<1>10. Part(p) = F[n]
  BY Zenon DEF Part, Uptos, UptoAt
<1>. HIDE DEF F
<1>11. \A i \in 0..n : F[i] = UptoAt(F, p, i)
  BY <1>9, Zenon DEF Uptos
<1>12. {i \in 0..n : F[i] # g[i]} = {}
  <2>. DEFINE bad == {i \in 0..n : F[i] # g[i]}
  <2>. SUFFICES ASSUME bad # {} PROVE FALSE
    OBVIOUS
  <2>1. /\ bad \subseteq 0..n /\ bad \subseteq Nat
        /\ \A i \in 0..n : i \notin bad => F[i] = g[i]
        /\ \A i \in bad : F[i] # g[i]
    OBVIOUS
  <2>. HIDE DEF bad
  <2>2. PICK i \in bad : \A j \in bad : ~(j < i)
    BY <2>1, LeastOf
  <2>3. i \in 0..n /\ F[i] = UptoAt(F, p, i) /\ g[i] = UptoAt(g, p, i)
    BY <1>5, <1>11, <2>1, <2>2
  <2>. HIDE DEF n
  <2>4. i # 0 => F[i - 1] = g[i - 1]
    <3>. SUFFICES ASSUME i # 0 PROVE F[i - 1] = g[i - 1]
      OBVIOUS
    <3>1. i - 1 \in 0..n /\ i - 1 < i
      BY <1>1, <2>3
    <3>. QED BY <2>1, <2>2, <3>1
  <2>5. F[i] = g[i]
    BY <2>3, <2>4 DEF UptoAt
  <2>. QED BY <2>1, <2>2, <2>5
<1>13. F[n] = g[n]
  <2>1. n \in 0..n
    BY <1>1
  <2>. HIDE DEF n
  <2>. QED BY <1>12, <2>1
<1>. QED BY <1>3, <1>7, <1>10, <1>13

(* Parts that are read one after the other.                                *)
BeforeAt(g, p) ==
    IF p = 0 THEN <<>>
    ELSE IF p - 1 \in Present THEN g[p - 1] \o Part(p - 1)
    ELSE g[p - 1]
Befores(g) == g = [p \in 0..Len(index) |-> BeforeAt(g, p)]

(* Before a part that has a line there is no part without one.             *)
LEMMA NoPartMissing ==
    ASSUME index \in Seq(Record), SeqDense, NEW i \in 1..Len(index)
    PROVE  PartAt(i) \in Present
<1>1. Len(index) \in Nat /\ PartAt(i) \in Nat /\ PartAt(i) < i
  BY PartsAre
<1>2. PartAt(i) \in 0..Len(index)
  BY <1>1
<1>3. ASSUME NEW q \in 0..PartAt(i) PROVE Part(q) # <<>>
  <2>1. q \in Nat /\ q <= PartAt(i)
    BY <1>1
  <2>. DEFINE s == Seq1(i)
              f == LinesPerPart * q + 1
  <2>2. s \in Nat \ {0} /\ PartAt(i) = PartOf(s)
    <3>1. s \in 1..i
      BY NumbersPositive
    <3>. QED BY <1>1, <3>1 DEF PartAt, Seq1
  <2>. HIDE DEF s
  <2>3. f \in 1..s /\ PartOf(f) = q
    BY <2>1, <2>2, FirstOfPart
  <2>. HIDE DEF f
  <2>4. PICK k \in 1..i : Seq1(k) = f
    BY <2>3, NoNumberMissing DEF s
  <2>5. k \in 1..Len(index) /\ PartAt(k) = q
    <3>1. k \in 1..Len(index)
      BY <1>1
    <3>. QED BY <2>3, <2>4, <3>1 DEF PartAt, Seq1
  <2>6. PICK a : Cut(a, q)
    BY <2>1, CutExists
  <2>7. PICK b : Cut(b, q + 1)
    BY <2>1, CutExists
  <2>8. a <= b /\ Part(q) = Slice(a, b)
    BY <2>1, <2>6, <2>7, PartIsSlice
  <2>9. a \in 0..Len(index) /\ b \in 0..Len(index)
    BY <2>6, <2>7 DEF Cut
  <2>10. a < k /\ k <= b
    <3>1. IF k <= a THEN PartAt(k) < q ELSE q <= PartAt(k)
      BY <2>5, <2>6 DEF Cut
    <3>2. IF k <= b THEN PartAt(k) < q + 1 ELSE q + 1 <= PartAt(k)
      BY <2>5, <2>7 DEF Cut
    <3>. QED BY <2>1, <2>5, <2>9, <3>1, <3>2
  <2>11. Len(Slice(a, b)) = b - a /\ b - a # 0 /\ Slice(a, b) \in Seq(Record)
    <3>1. b \in a..Len(index) /\ b - a # 0
      BY <1>1, <2>5, <2>8, <2>9, <2>10
    <3>. QED BY <2>9, <3>1, SliceIs
  <2>. QED BY <2>8, <2>11, EmptySeq
<1>. QED BY <1>2, <1>3 DEF Present

(* One more part, whether it is there or not.                              *)
LEMMA BeforeMore ==
    ASSUME index \in Seq(Record), SeqDense, NEW p \in Nat \ {0},
           NEW a, Cut(a, p - 1), NEW c, Cut(c, p), NEW g, g[p - 1] = Slice(0, a)
    PROVE  BeforeAt(g, p) = Slice(0, c)
<1>1. p - 1 \in Nat /\ (p - 1) + 1 = p /\ p # 0
  OBVIOUS
<1>2. a <= c /\ Part(p - 1) = Slice(a, c)
  BY <1>1, PartIsSlice
<1>3. Len(index) \in Nat /\ a \in 0..Len(index) /\ c \in 0..Len(index)
  BY PartsAre DEF Cut
<1>4. c \in a..Len(index)
  BY <1>2, <1>3
<1>5. CASE p - 1 \in Present
  <2>1. BeforeAt(g, p) = Slice(0, a) \o Slice(a, c)
    BY <1>1, <1>2, <1>5 DEF BeforeAt
  <2>. QED BY <1>3, <1>4, <2>1, SlicesJoin
<1>6. CASE p - 1 \notin Present
  <2>1. a = c
    <3>. SUFFICES ASSUME a < c PROVE FALSE
      BY <1>2, <1>3
    <3>1. a + 1 \in 1..Len(index) /\ ~(a + 1 <= a) /\ a + 1 <= c
      BY <1>3
    <3>2. p - 1 <= PartAt(a + 1) /\ PartAt(a + 1) < p /\ PartAt(a + 1) \in Nat
      BY <3>1, PartsAre DEF Cut
    <3>3. PartAt(a + 1) = p - 1
      BY <1>1, <3>2
    <3>. QED BY <1>6, <3>1, <3>3, NoPartMissing
  <2>. QED BY <1>1, <1>6, <2>1 DEF BeforeAt
<1>. QED BY <1>5, <1>6

(* Read part after part, the index is itself.                            *)
LEMMA LinesAreIndex ==
    ASSUME index \in Seq(Record), SeqDense
    PROVE  Lines = index
<1>. DEFINE n == Len(index)
            C(p) == CHOOSE c : Cut(c, p)
            g == [p \in 0..n |-> Slice(0, C(p))]
            F == CHOOSE h : Befores(h)
<1>1. n \in Nat
  BY PartsAre
<1>2. \A p \in Nat : Cut(C(p), p)
  BY CutExists
<1>3. ASSUME NEW c, Cut(c, 0) PROVE c = 0
  <2>1. c \in 0..n
    BY <1>3 DEF Cut
  <2>2. 1 \in 1..n /\ 1 <= c => PartAt(1) < 0 /\ PartAt(1) \in Nat
    BY <1>3, PartsAre DEF Cut
  <2>3. ASSUME 1 <= c PROVE FALSE
    <3>1. 1 \in 1..n
      BY <1>1, <2>1, <2>3
    <3>. QED BY <2>2, <2>3, <3>1
  <2>. HIDE DEF n
  <2>. QED BY <1>1, <2>1, <2>3
<1>4. ASSUME NEW c, Cut(c, n) PROVE c = n
  <2>1. c \in 0..n
    BY <1>4 DEF Cut
  <2>2. ASSUME c < n PROVE FALSE
    <3>1. n \in 1..n /\ ~(n <= c)
      <4>. HIDE DEF n
      <4>. QED BY <1>1, <2>1, <2>2
    <3>2. n <= PartAt(n) /\ PartAt(n) \in Nat /\ PartAt(n) < n
      BY <1>4, <3>1, PartsAre DEF Cut
    <3>. HIDE DEF n
    <3>. QED BY <1>1, <3>2
  <2>. HIDE DEF n
  <2>. QED BY <1>1, <2>1, <2>2
<1>. HIDE DEF C
<1>5. \A p \in 0..n : g[p] = Slice(0, C(p))
  OBVIOUS
<1>6. g = [p \in 0..n |-> g[p]]
  OBVIOUS
<1>. HIDE DEF g
<1>7. g[0] = <<>>
  <2>1. C(0) = 0 /\ 0 \in 0..n /\ 0 \in Nat
    BY <1>1, <1>2, <1>3
  <2>. QED BY <1>5, <2>1, SliceEmpty
<1>8. ASSUME NEW p \in 0..n PROVE g[p] = BeforeAt(g, p)
  <2>1. CASE p = 0
    BY <1>7, <2>1 DEF BeforeAt
  <2>2. CASE p # 0
    <3>1. p \in Nat \ {0} /\ p - 1 \in 0..n /\ p - 1 \in Nat
      <4>. HIDE DEF n
      <4>. QED BY <1>1, <2>2
    <3>2. Cut(C(p - 1), p - 1) /\ Cut(C(p), p) /\ g[p - 1] = Slice(0, C(p - 1))
      BY <1>2, <1>5, <3>1
    <3>3. BeforeAt(g, p) = Slice(0, C(p))
      BY <3>1, <3>2, BeforeMore
    <3>. QED BY <1>5, <3>3
  <2>. QED BY <2>1, <2>2
<1>9. Befores(g)
  BY <1>6, <1>8, Zenon DEF Befores
<1>10. Befores(F)
  BY <1>9
<1>11. Lines = F[n]
  BY Zenon DEF Lines, Befores, BeforeAt
<1>. HIDE DEF F
<1>12. \A p \in 0..n : F[p] = BeforeAt(F, p)
  BY <1>10, Zenon DEF Befores
<1>13. {p \in 0..n : F[p] # g[p]} = {}
  <2>. DEFINE bad == {p \in 0..n : F[p] # g[p]}
  <2>. SUFFICES ASSUME bad # {} PROVE FALSE
    OBVIOUS
  <2>1. /\ bad \subseteq 0..n /\ bad \subseteq Nat
        /\ \A p \in 0..n : p \notin bad => F[p] = g[p]
        /\ \A p \in bad : F[p] # g[p]
    OBVIOUS
  <2>. HIDE DEF bad
  <2>2. PICK p \in bad : \A q \in bad : ~(q < p)
    BY <2>1, LeastOf
  <2>3. p \in 0..n /\ F[p] = BeforeAt(F, p) /\ g[p] = BeforeAt(g, p)
    BY <1>8, <1>12, <2>1, <2>2
  <2>. HIDE DEF n
  <2>4. p # 0 => F[p - 1] = g[p - 1]
    <3>. SUFFICES ASSUME p # 0 PROVE F[p - 1] = g[p - 1]
      OBVIOUS
    <3>1. p - 1 \in 0..n /\ p - 1 < p
      BY <1>1, <2>3
    <3>. QED BY <2>1, <2>2, <3>1
  <2>5. F[p] = g[p]
    BY <2>3, <2>4 DEF BeforeAt
  <2>. QED BY <2>1, <2>2, <2>5
<1>14. F[n] = Slice(0, n)
  <2>1. n \in 0..n /\ n \in Nat
    <3>. HIDE DEF n
    <3>. QED BY <1>1
  <2>2. C(n) = n
    BY <1>2, <1>4, <2>1
  <2>. HIDE DEF n
  <2>. QED BY <1>5, <1>13, <2>1, <2>2
<1>15. Slice(0, n) = index
  <2>1. 0 \in 0..Len(index) /\ n \in 0..Len(index) /\ n - 0 = n /\ \A k \in 1..n : 0 + k = k
    BY <1>1
  <2>2. /\ Slice(0, n) \in Seq(Record) /\ Len(Slice(0, n)) = n - 0
        /\ \A k \in 1..(n - 0) : Slice(0, n)[k] = index[0 + k]
    BY <2>1, SliceIs
  <2>3. Len(Slice(0, n)) = n /\ \A k \in 1..n : Slice(0, n)[k] = index[k]
    BY <2>1, <2>2
  <2>. QED BY <2>2, <2>3, SeqEqual
<1>. QED BY <1>11, <1>14, <1>15
-----------------------------------------------------------------------------
(* An event file that a lone daemon writes never replaces the one of a     *)
(* line: the outcome in it is the line's.                                  *)
Agrees(r) == \A e \in events : e.id = EventId(r) => e.dethroned = r.dethroned
AgreeInv ==
    /\ \A i \in 1..Len(index) : Agrees(index[i])
    /\ \A w \in Writers : pc[w] \in {"seq", "append", "head"} => Agrees(rec[w])

(* Every step of a lone daemon keeps the outcomes alike.                   *)
LEMMA AgreeInductive ==
    ASSUME GenesisCommands = {}, DuelCommands = {},
           \A v, w \in Daemons : v = w,
           TypeOK, BlockInv, AgreeInv, [Next]_vars
    PROVE  AgreeInv'
<1> USE DEF Goto, store
<1> Writers = Daemons
  BY DEF Writers, Lockers
<1> \A v, w \in Writers : v = w
  OBVIOUS
<1> index \in Seq(Record) /\ Len(index) \in Nat
  BY DEF TypeOK
<1>1. ASSUME UNCHANGED <<events, index>>,
             \A v \in Writers : pc'[v] \in {"seq", "append", "head"} =>
                 /\ pc[v] \in {"seq", "append", "head"}
                 /\ EventId(rec'[v]) = EventId(rec[v])
                 /\ rec'[v].dethroned = rec[v].dethroned
      PROVE  AgreeInv'
  BY <1>1 DEF AgreeInv, Agrees, EventId
<1>2. ASSUME NEW w \in Writers, Quiet(w), ~WriteEvent(w) PROVE AgreeInv'
  <2>1. UNCHANGED <<events, index>>
    BY <1>2 DEF Quiet, Boot, WriteManifest, LoadQueue, StartDaemon, LockRefused,
                Poll, DuelFails, WriteFails, Crash, vars
  <2>2. \A v \in Writers : pc'[v] \in {"seq", "append", "head"} =>
            pc[v] \in {"seq", "append", "head"} /\ rec'[v] = rec[v]
    BY <1>2 DEF Quiet, Boot, WriteManifest, LoadQueue, StartDaemon, LockRefused,
                Poll, DuelFails, WriteFails, Crash, vars, TypeOK, Finish
  <2>. QED BY <1>1, <2>1, <2>2
<1>3. ASSUME NEW w \in Writers, WriteEvent(w) PROVE AgreeInv'
  <2>. DEFINE e == [id |-> EventId(rec[w]), dethroned |-> rec[w].dethroned]
  <2>1. /\ events' = {f \in events : f.id # e.id} \cup {e}
        /\ UNCHANGED <<index, rec>> /\ pc[w] = "event"
    BY <1>3 DEF WriteEvent
  <2>2. ASSUME NEW i \in 1..Len(index) PROVE EventId(index[i]) # EventId(rec[w])
    <3>1. rec[w].block = qblock /\ index[i].block < qblock
      BY <2>1 DEF BlockInv, Publishing
    <3>2. index[i].block \in Nat /\ qblock \in Nat
      BY LinesAreRecords DEF TypeOK, Record
    <3>. QED BY <3>1, <3>2 DEF EventId
  <2>3. ASSUME NEW i \in 1..Len(index) PROVE Agrees(index[i])'
    <3>1. Agrees(index[i])
      BY DEF AgreeInv
    <3>. QED BY <2>1, <2>2, <3>1 DEF Agrees, EventId
  <2>4. Agrees(rec[w])'
    BY <2>1 DEF Agrees, EventId
  <2>5. \A v \in Writers : v = w
    OBVIOUS
  <2>. QED BY <2>1, <2>3, <2>4, <2>5 DEF AgreeInv
<1>4. ASSUME NEW w \in Writers,
             WriteFirstHead(w) \/ StartDuel(w) \/ StartGenesis(w) \/ TakeEntry(w)
             \/ Evaluate(w) \/ AdvanceHead(w)
      PROVE  AgreeInv'
  <2>1. UNCHANGED <<events, index>>
    BY <1>4 DEF WriteFirstHead, StartDuel, StartGenesis, TakeEntry, Evaluate, AdvanceHead
  <2>2. \A v \in Writers : v = w
    OBVIOUS
  <2>3. pc'[w] \notin {"seq", "append", "head"}
    BY <1>4 DEF WriteFirstHead, StartDuel, StartGenesis, TakeEntry, Evaluate,
                AdvanceHead, Finish, TypeOK
  <2>. QED BY <1>1, <2>1, <2>2, <2>3
<1>5. ASSUME NEW w \in Writers, AssignSeq(w) PROVE AgreeInv'
  <2>1. NextSeq \in Nat
    BY DEF NextSeq, HeadSeq, HeadFile, TypeOK
  <2>2. /\ UNCHANGED <<events, index>> /\ pc[w] = "seq"
        /\ rec'[w] = [rec[w] EXCEPT !.seq = NextSeq] /\ rec[w] \in Record
    BY <1>5 DEF AssignSeq, TypeOK
  <2>3. EventId(rec'[w]) = EventId(rec[w])
    BY <2>1, <2>2, SameEvent
  <2>4. rec'[w].dethroned = rec[w].dethroned
    BY <2>2 DEF Record
  <2>5. \A v \in Writers : v = w
    OBVIOUS
  <2>. QED BY <1>1, <2>2, <2>3, <2>4, <2>5
<1>6. ASSUME NEW w \in Writers, AppendLine(w) PROVE AgreeInv'
  <2>1. /\ UNCHANGED <<events, rec>> /\ pc[w] = "append"
        /\ index' = Append(index, rec[w]) /\ rec[w] \in Record
        /\ \A v \in Writers : v = w
    BY <1>6 DEF AppendLine, TypeOK
  <2>2. /\ Len(index') = Len(index) + 1
        /\ \A i \in 1..Len(index) : index'[i] = index[i]
        /\ index'[Len(index) + 1] = rec[w]
    BY <2>1
  <2>3. Agrees(rec[w]) /\ \A i \in 1..Len(index) : Agrees(index[i])
    BY <2>1 DEF AgreeInv
  <2>4. Agrees(rec[w])'
    BY <2>1, <2>3 DEF Agrees, EventId
  <2>5. ASSUME NEW i \in 1..Len(index') PROVE Agrees(index[i])'
    <3>1. i \in 1..Len(index) \/ i = Len(index) + 1
      BY <2>2
    <3>2. index'[i] = rec[w] \/ (i \in 1..Len(index) /\ index'[i] = index[i])
      BY <2>2, <3>1
    <3>. QED BY <2>1, <2>3, <3>2 DEF Agrees, EventId
  <2>. QED BY <2>1, <2>4, <2>5 DEF AgreeInv
<1>7. CASE UNCHANGED vars
  BY <1>1, <1>7 DEF vars
<1> QED
  BY <1>2, <1>3, <1>4, <1>5, <1>6, <1>7, NextSplits

(* The head names the event of the last line with its number.              *)
HeadNames ==
    \A i \in 1..Len(index) :
        index[i].seq = HeadSeq /\ LastOfSeq(i) => EventId(index[i]) = head.event

(* No step makes the head name what is not the last record.              *)
LEMMA HeadNamesInductive ==
    ASSUME TypeOK, Settled, SeqInv, HeadNames, [Next]_vars
    PROVE  HeadNames'
<1>. index \in Seq(Record) /\ Len(index) \in Nat /\ HeadSeq \in Nat
  BY HeadSeqType DEF TypeOK
<1>1. CASE UNCHANGED <<head, index>>
  BY <1>1 DEF HeadNames, HeadSeq, LastOfSeq, EventId
<1>2. ASSUME NEW w \in Writers, WriteFirstHead(w) PROVE HeadNames'
  <2>1. index' = index /\ index = <<>>
    BY <1>2 DEF WriteFirstHead, Settled
  <2>2. 1..Len(index') = {}
    BY <2>1
  <2>. QED BY <2>2 DEF HeadNames
<1>3. ASSUME NEW w \in Writers, AppendLine(w) PROVE HeadNames'
  <2>1. /\ head' = head /\ index' = Append(index, rec[w]) /\ rec[w] \in Record
        /\ rec[w].seq = HeadSeq + 1
    BY <1>3 DEF AppendLine, SeqInv, TypeOK
  <2>2. HeadSeq' = HeadSeq
    BY <2>1 DEF HeadSeq
  <2>3. /\ Len(index') = Len(index) + 1
        /\ \A i \in 1..Len(index) : index'[i] = index[i]
        /\ index'[Len(index) + 1] = rec[w]
    BY <2>1
  <2>4. ASSUME NEW i \in 1..Len(index'), index'[i].seq = HeadSeq', LastOfSeq(i)'
        PROVE  EventId(index'[i]) = head'.event
    <3>1. i \in 1..Len(index)
      <4>1. HeadSeq + 1 # HeadSeq
        OBVIOUS
      <4>2. i # Len(index) + 1
        BY <2>1, <2>2, <2>3, <2>4, <4>1
      <4>. QED BY <2>3, <4>2
    <3>2. index[i].seq = HeadSeq
      BY <2>2, <2>3, <2>4, <3>1
    <3>3. LastOfSeq(i)
      <4>1. ASSUME NEW j \in (i + 1)..Len(index) PROVE index[j].seq # index[i].seq
        <5>1. j \in 1..Len(index) /\ j \in (i + 1)..Len(index')
          BY <2>3, <3>1
        <5>. QED BY <2>3, <2>4, <3>1, <5>1 DEF LastOfSeq
      <4>. QED BY <4>1 DEF LastOfSeq
    <3>. QED BY <2>1, <2>3, <3>1, <3>2, <3>3 DEF HeadNames, EventId
  <2>. QED BY <2>4 DEF HeadNames, EventId
<1>4. ASSUME NEW w \in Writers, AdvanceHead(w) PROVE HeadNames'
  <2>1. /\ index' = index /\ HeadSeq' = rec[w].seq
        /\ head' = [seq |-> rec[w].seq, event |-> EventId(rec[w]),
                    king |-> KingAfter(rec[w])]
        /\ index # <<>> /\ index[Len(index)] = rec[w]
    BY <1>4, HeadAdvances DEF AdvanceHead, SeqInv
  <2>2. ASSUME NEW i \in 1..Len(index), index[i].seq = rec[w].seq, LastOfSeq(i)
        PROVE  EventId(index[i]) = EventId(rec[w])
    <3>1. ~(i < Len(index))
      <4>. SUFFICES ASSUME i < Len(index) PROVE FALSE
        OBVIOUS
      <4>1. Len(index) \in (i + 1)..Len(index)
        OBVIOUS
      <4>. QED BY <2>1, <2>2, <4>1 DEF LastOfSeq
    <3>2. i = Len(index)
      BY <3>1
    <3>. QED BY <2>1, <3>2
  <2>3. \A i : LastOfSeq(i)' <=> LastOfSeq(i)
    BY <2>1 DEF LastOfSeq
  <2>. QED BY <2>1, <2>2, <2>3 DEF HeadNames, EventId
<1>. QED BY <1>1, <1>2, <1>3, <1>4, QuietSteps
-----------------------------------------------------------------------------
(* The lines that repeat the number before them, and those whose number is *)
(* repeated: as many as each other.                                        *)
Repeats == {i \in 1..Len(index) : i # 1 /\ index[i].seq = index[i - 1].seq}
Repeated == {i \in 1..Len(index) : ~LastOfSeq(i)}

(* A record is hidden when the next one has its number.                  *)
LEMMA RepeatedIs ==
    ASSUME index \in Seq(Record), SeqDense, NEW i \in 1..Len(index)
    PROVE  ~LastOfSeq(i) <=> i + 1 \in Repeats
<1>1. /\ Len(index) \in Nat
      /\ \A k \in 1..Len(index) : Seq1(k) \in Nat
  BY NumbersAre
<1>2. ASSUME ~LastOfSeq(i) PROVE i + 1 \in Repeats
  <2>1. PICK j \in (i + 1)..Len(index) : index[j].seq = index[i].seq
    BY <1>2 DEF LastOfSeq
  <2>2. i + 1 \in 1..Len(index) /\ j \in 1..Len(index) /\ i <= i + 1 /\ i + 1 <= j
    BY <1>1
  <2>3. Seq1(i) <= Seq1(i + 1) /\ Seq1(i + 1) <= Seq1(j) /\ Seq1(j) = Seq1(i)
    BY <2>1, <2>2, NumbersGrow DEF Seq1
  <2>4. Seq1(i) \in Nat /\ Seq1(i + 1) \in Nat /\ Seq1(j) \in Nat
    BY <1>1, <2>2
  <2>5. Seq1(i + 1) = Seq1(i)
    BY <2>3, <2>4
  <2>6. i + 1 # 1 /\ (i + 1) - 1 = i
    BY <1>1
  <2>. QED BY <2>2, <2>5, <2>6 DEF Repeats, Seq1
<1>3. ASSUME i + 1 \in Repeats PROVE ~LastOfSeq(i)
  <2>1. i + 1 \in 1..Len(index) /\ index[i + 1].seq = index[(i + 1) - 1].seq
    BY <1>3 DEF Repeats
  <2>2. (i + 1) - 1 = i /\ i + 1 \in (i + 1)..Len(index)
    BY <1>1, <2>1
  <2>. QED BY <2>1, <2>2 DEF LastOfSeq
<1>. QED BY <1>2, <1>3

(* As many records are hidden as numbers are repeated.                   *)
LEMMA RepeatsCount ==
    ASSUME index \in Seq(Record), SeqDense
    PROVE  /\ IsFiniteSet(Repeated)
           /\ Cardinality(Repeats) = Cardinality(Repeated)
<1>. DEFINE n == Len(index)
            f == [i \in Repeated |-> i + 1]
<1>1. n \in Nat /\ Repeats \subseteq 1..n /\ Repeated \subseteq 1..n
  BY NumbersAre DEF Repeats, Repeated
<1>2. IsFiniteSet(Repeated)
  <2>1. IsFiniteSet(1..n)
    BY <1>1, FS_Interval
  <2>. QED BY <1>1, <2>1, FS_Subset
<1>3. \A i \in 1..n : i \in Repeated <=> i + 1 \in Repeats
  BY RepeatedIs DEF Repeated
<1>4. f \in [Repeated -> Repeats]
  BY <1>1, <1>3
<1>5. ASSUME NEW k \in Repeats PROVE \E i \in Repeated : f[i] = k
  <2>1. k \in 1..n /\ k # 1
    BY DEF Repeats
  <2>2. k - 1 \in 1..n /\ (k - 1) + 1 = k
    <3>. HIDE DEF n
    <3>. QED BY <1>1, <2>1
  <2>3. k - 1 \in Repeated
    BY <1>3, <2>2
  <2>4. f[k - 1] = k
    BY <2>2, <2>3
  <2>. QED BY <2>3, <2>4
<1>6. ASSUME NEW i \in Repeated, NEW j \in Repeated, f[i] = f[j] PROVE i = j
  <2>1. i \in Nat /\ j \in Nat /\ i + 1 = j + 1
    BY <1>1, <1>6
  <2>. QED BY <2>1
<1>. HIDE DEF f
<1>7. f \in Bijection(Repeated, Repeats)
  BY <1>4, <1>5, <1>6 DEF Bijection, Injection, Surjection, IsInjective
<1>8. ExistsBijection(Repeated, Repeats)
  BY <1>7 DEF ExistsBijection
<1>. QED BY <1>2, <1>8, FS_Bijection

(* What the verifier reports of a store that only one daemon has written.  *)
LEMMA VerifierSays ==
    ASSUME TypeOK, SeqInv, AgreeInv, EvidenceFirst, HeadNames, head # NoHead
    PROVE  /\ EvidenceErrors = {}
           /\ Cardinality(SeqErrors) + (IF HeadError THEN 1 ELSE 0) = Cardinality(Orphans)
<1>. DEFINE n == Len(index)
<1>1. index \in Seq(Record) /\ SeqDense /\ HeadSeq \in Nat
  BY HeadSeqType DEF TypeOK, SeqInv
<1>2. Lines = index
  BY <1>1, LinesAreIndex
<1>3. /\ n \in Nat /\ DOMAIN index = 1..n
      /\ \A i \in 1..n : index[i].seq \in Nat
      /\ \A i \in 1..n : IF i = 1 THEN index[i].seq = 1
                         ELSE index[i].seq \in {index[i - 1].seq, index[i - 1].seq + 1}
  BY <1>1, NumbersAre DEF Seq1
<1>4. EvidenceErrors = {}
  <2>1. ASSUME NEW i \in 1..n
        PROVE  /\ EventsOf(index[i]) # {}
               /\ \A e \in EventsOf(index[i]) : e.dethroned = index[i].dethroned
               /\ index[i].kind = "duel" => EventId(index[i]) \in media
    BY <1>3, <2>1 DEF EvidenceFirst, AgreeInv, Agrees, EventsOf
  <2>. QED BY <1>2, <1>3, <2>1 DEF EvidenceErrors
<1>5. SeqErrors = Repeats
  <2>1. ASSUME NEW i \in 1..n PROVE index[i].seq # Expected(i) <=> i \in Repeats
    <3>1. Expected(i) = IF i = 1 THEN 1 ELSE index[i - 1].seq + 1
      BY <1>2 DEF Expected
    <3>2. CASE i = 1
      BY <1>3, <3>1, <3>2 DEF Repeats
    <3>3. CASE i # 1
      <4>1. i - 1 \in 1..n
        <5>. HIDE DEF n
        <5>. QED BY <1>3, <3>3
      <4>2. index[i - 1].seq \in Nat
        BY <1>3, <4>1
      <4>3. index[i - 1].seq # index[i - 1].seq + 1
        BY <4>2
      <4>. QED BY <1>3, <3>1, <3>3, <4>3 DEF Repeats
    <3>. QED BY <3>2, <3>3
  <2>. QED BY <1>2, <1>3, <2>1 DEF SeqErrors, Repeats
<1>6. CASE n = 0
  <2>1. index = <<>> /\ HeadSeq = 0
    BY <1>1, <1>6, EmptySeq DEF SeqInv
  <2>2. ~HeadError
    BY <1>2, <2>1 DEF HeadError
  <2>3. SeqErrors = {} /\ Orphans = {}
    BY <1>3, <1>5, <1>6 DEF Repeats, Orphans
  <2>. QED BY <1>4, <2>2, <2>3, FS_EmptySet
<1>7. CASE n # 0
  <2>. DEFINE last == index[n].seq
  <2>1. n \in 1..n /\ index # <<>> /\ LastOfSeq(n)
    BY <1>3, <1>7, EmptySeq DEF LastOfSeq
  <2>2. last \in {HeadSeq, HeadSeq + 1}
    BY <2>1 DEF SeqInv
  <2>3. HeadError <=> last = HeadSeq + 1
    <3>1. HeadError <=> (HeadSeq # last \/ head.event # EventId(index[n]))
      BY <1>2, <2>1 DEF HeadError
    <3>2. last = HeadSeq => head.event = EventId(index[n])
      BY <2>1 DEF HeadNames
    <3>3. HeadSeq # HeadSeq + 1
      BY <1>1
    <3>. HIDE DEF last
    <3>. QED BY <2>2, <3>1, <3>2, <3>3
  <2>4. ASSUME NEW i \in 1..n
        PROVE  i \in Orphans <=> (i \in Repeated \/ (i = n /\ last = HeadSeq + 1))
    <3>1. index[i].seq <= last /\ index[i].seq \in Nat
      <4>1. i <= n
        BY <1>3
      <4>. QED BY <1>1, <1>3, <2>1, <4>1, NumbersGrow DEF Seq1
    <3>2. i \in Orphans <=> ~LastOfSeq(i) \/ index[i].seq > HeadSeq
      BY <1>3 DEF Orphans
    <3>3. i \in Repeated <=> ~LastOfSeq(i)
      BY DEF Repeated
    <3>4. index[i].seq > HeadSeq /\ LastOfSeq(i) => i = n /\ last = HeadSeq + 1
      <4>. SUFFICES ASSUME index[i].seq > HeadSeq, LastOfSeq(i)
                    PROVE  i = n /\ last = HeadSeq + 1
        OBVIOUS
      <4>1. last = HeadSeq + 1 /\ index[i].seq = last
        <5>. HIDE DEF last
        <5>. QED BY <1>1, <2>2, <3>1
      <4>2. ~(i < n)
        <5>. SUFFICES ASSUME i < n PROVE FALSE
          OBVIOUS
        <5>1. n \in (i + 1)..n
          <6>. HIDE DEF n
          <6>. QED BY <1>3
        <5>. QED BY <4>1, <5>1 DEF LastOfSeq
      <4>3. i = n
        <5>. HIDE DEF n
        <5>. QED BY <1>3, <4>2
      <4>. QED BY <4>1, <4>3
    <3>5. i = n /\ last = HeadSeq + 1 => index[i].seq > HeadSeq
      BY <1>1
    <3>. QED BY <3>2, <3>3, <3>4, <3>5
  <2>5. n \notin Repeated
    BY <2>1 DEF Repeated
  <2>6. Orphans \subseteq 1..n /\ Repeated \subseteq 1..n
    BY <1>3 DEF Orphans, Repeated
  <2>7. IsFiniteSet(Repeated) /\ Cardinality(SeqErrors) = Cardinality(Repeated)
    BY <1>1, <1>5, RepeatsCount
  <2>8. Cardinality(Repeated) \in Nat
    BY <2>7, FS_CardinalityType
  <2>. HIDE DEF last
  <2>9. CASE last = HeadSeq + 1
    <3>1. Orphans = Repeated \cup {n}
      BY <2>1, <2>4, <2>6, <2>9
    <3>2. Cardinality(Repeated \cup {n}) = Cardinality(Repeated) + 1
      BY <2>5, <2>7, FS_AddElement
    <3>3. Cardinality(Orphans) = Cardinality(SeqErrors) + 1
      BY <2>7, <3>1, <3>2
    <3>. QED BY <1>4, <2>3, <2>9, <3>3
  <2>10. CASE last # HeadSeq + 1
    <3>1. Orphans = Repeated
      BY <2>4, <2>6, <2>10
    <3>2. Cardinality(SeqErrors) + 0 = Cardinality(Orphans)
      BY <2>7, <2>8, <3>1
    <3>. QED BY <1>4, <2>3, <2>10, <3>2
  <2>. QED BY <2>9, <2>10
<1>. QED BY <1>6, <1>7

(* Of a store that one daemon writes, `store verify` reports each          *)
(* publication that stopped between its line and its head, once, and       *)
(* nothing else: at any moment, whatever the number of lines in a part,    *)
(* and however often the daemon died (store/verify.py).                    *)
THEOREM VerifierCountsRight ==
    GenesisCommands = {} /\ DuelCommands = {} /\ (\A v, w \in Daemons : v = w)
    => (Spec => []VerifierCounts)
<1> SUFFICES ASSUME GenesisCommands = {}, DuelCommands = {},
                    \A v, w \in Daemons : v = w
             PROVE  Spec => []VerifierCounts
  OBVIOUS
<1>1. LoneStart
  BY DEF LoneStart, Writers, Lockers
<1>2. Init => /\ LockInv /\ Settled /\ SeqInv
              /\ BlockInv /\ AgreeInv /\ HeadNames
  <2> SUFFICES ASSUME Init PROVE BlockInv /\ AgreeInv /\ HeadNames
    BY InitSeqInv
  <2>1. Len(index) = 0 /\ 1..0 = {}
    BY DEF Init
  <2>2. \A w \in Writers : pc[w] = "off"
    BY DEF Init
  <2>3. \A w \in Daemons : pc[w] = "off"
    BY <2>2 DEF Writers, Lockers
  <2>4. BlockInv
    BY <2>1, <2>3 DEF BlockInv, Publishing
  <2>5. AgreeInv /\ HeadNames
    BY <2>1, <2>2 DEF AgreeInv, HeadNames
  <2> QED
    BY <2>4, <2>5
<1>3. TypeOK /\ LockInv /\ [Next]_vars => LockInv'
  BY LockInductive
<1>4. TypeOK /\ Settled /\ [Next]_vars => Settled'
  BY <1>1, SettledInductive
<1>5. TypeOK /\ BlockInv /\ [Next]_vars => BlockInv'
  BY BlocksInductive
<1>6. TypeOK /\ BlockInv /\ AgreeInv /\ [Next]_vars => AgreeInv'
  BY AgreeInductive
<1>7. TypeOK /\ Settled /\ SeqInv /\ HeadNames /\ [Next]_vars => HeadNames'
  BY HeadNamesInductive
<1>8. TypeOK /\ SeqInv /\ AgreeInv /\ EvidenceFirst /\ HeadNames => VerifierCounts
  BY VerifierSays DEF VerifierCounts
<1> QED
  BY <1>2, <1>3, <1>4, <1>5, <1>6, <1>7, <1>8, SeqInductive, EvidenceHolds, Typing, PTL
  DEF Spec
=============================================================================
