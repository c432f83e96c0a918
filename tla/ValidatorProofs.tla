-------------------------- MODULE ValidatorProofs --------------------------
(***************************************************************************)
(* What a reader of the mirror and of the published queue can rely on, and *)
(* that a king passes the check that made him one, for any models,         *)
(* repositories, outages and sizes of the index's parts.                   *)
(***************************************************************************)
EXTENDS Validator, NaturalsInduction, WellFoundedInduction, TLAPS

AtWork == {"fetch", "check", "demos", "pushdemos", "evaluate", "pushclips",
           "score", "event", "line", "head", "finish"}
Labels == AtWork \cup {"off", "init", "boot", "idle", "publish", "push"}

(* The daemon has a genesis or a duel in hand.                             *)
Busy == pc \in AtWork \/ (pc \in {"publish", "push"} /\ ret = "fetch")
(* It has not appended the line of it yet.                                 *)
Unwritten == Busy /\ pc \notin {"head", "finish"}

IsQueue(q) ==
    /\ DOMAIN q = {"entries", "running", "block"}
    /\ q.entries \in Seq(Models \X BOOLEAN)
    /\ q.block \in 0..outage.maxBlock

TypeOK ==
    /\ outage \in Outages
    /\ IsQueue(queue) /\ IsQueue(saved) /\ saved.block <= queue.block
    /\ DOMAIN local = Files /\ DOMAIN remote = Files
    /\ touched \subseteq Files /\ drained \subseteq Files
    /\ unsynced \subseteq {Part(p) : p \in Parts}
    /\ DOMAIN job = {"kind", "block", "model", "king", "skip", "won", "clips"}
    /\ pc \in Labels /\ ret \in {"off", "run", "idle", "fetch"}
    /\ harm \in {"none", "lacks", "mixed"}
    /\ Busy => /\ job.kind \in {"genesis", "duel"}
               /\ job.block = saved.block /\ job.block = queue.block /\ job.block # 0

Holds(files, p, b) ==
    \E i \in DOMAIN files[Part(p)] : files[Part(p)][i] = b

HeadInv ==
    /\ local[HeadName] # <<>> =>
          /\ local[HeadName][1] \in Nat /\ local[HeadName][1] <= saved.block
          /\ Busy /\ pc # "finish" => local[HeadName][1] < job.block
          /\ local[HeadName][2] # 0 => \E p \in Parts : Holds(local, p, local[HeadName][2])
    /\ pc = "head" => Holds(local, PartOf(NextSeq)[2], job.block)

(* A block in the index is of the past, as queue.json has it, and has its  *)
(* event.                                                                  *)
Recorded(b) ==
    /\ b <= saved.block /\ (Unwritten => b # job.block)
    /\ local[Event(b)] # <<>>

IndexInv ==
    \A p \in Parts :
        /\ local[Part(p)] \in Seq(Blocks)
        /\ \A i \in DOMAIN local[Part(p)] : Recorded(local[Part(p)][i])

(* The clips that a duel refers to are in the store before its event is.   *)
Stored(store, clips, b) ==
    clips \subseteq {Demo, Media(b)} /\ \A f \in clips : store[f] # <<>>

Evident(store, b) ==
    /\ store[Event(b)][1] = b /\ Stored(store, store[Event(b)][3], b)
    /\ store[Event(b)][2] = "duel" => Media(b) \in store[Event(b)][3]

FilesInv ==
    /\ \A b \in Blocks : local[Event(b)] # <<>> => Evident(local, b)
    /\ Busy => Stored(local, job.clips, job.block)
    /\ pc \in {"pushclips", "score", "event"} /\ job.kind = "duel" =>
          Media(job.block) \in job.clips
    /\ pc = "line" => local[Event(job.block)] # <<>>

(* With the head goes the part of the index that has its record.           *)
Covers(store, names) ==
    HeadName \in names /\ store[HeadName] # <<>> /\ store[HeadName][2] # 0 =>
        \E p \in Parts : Part(p) \in names /\ Holds(store, p, store[HeadName][2])

TouchInv ==
    /\ drained # {} => pc = "push"
    /\ pc = "push" \/ (pc = "idle" /\ ~raised) => touched = {}
    /\ Covers(local, touched) /\ Covers(local, drained)
    /\ pc = "head" => PartOf(NextSeq) \in touched

(* The mirror of a store that was not rebuilt has nothing that this lacks. *)
Behind ==
    harm # "mixed" =>
        /\ \A f \in Files \ {Card} : remote[f] # <<>> => local[f] # <<>>
        /\ \A p \in Parts : \A i \in DOMAIN remote[Part(p)] :
              Holds(local, p, remote[Part(p)][i])

(* What the mirror has not got yet is still to be pushed, but for a part   *)
(* of the index whose fsync() raised.                                      *)
Pushed ==
    harm = "none" =>
        \A f \in Files \ {Card} :
            remote[f] = local[f] \/ f \in touched \cup drained \cup unsynced

(* Each record on the mirror has its event there, and that its clips.      *)
Evidenced ==
    harm = "none" =>
        \A p \in Parts : \A i \in DOMAIN remote[Part(p)] :
            /\ remote[Part(p)][i] \in Blocks
            /\ remote[Event(remote[Part(p)][i])] # <<>>
            /\ Evident(remote, remote[Part(p)][i])

ReaderInv == Behind /\ Pushed /\ HeadNotAhead /\ Evidenced

(* The king of a duel is the one on the throne until the head is written,  *)
(* and who is past the check has passed it, or was excused.                *)
Checked == {"demos", "pushdemos", "evaluate", "pushclips", "score", "event", "line", "head"}

KingInv ==
    /\ Busy /\ pc # "finish" /\ job.kind = "duel" => job.king = King /\ King # NoModel
    /\ pc \in Checked => job.skip \/ CheckSubmission(Dir(job.model)) = {}
    /\ KingPasses

StoreInv == TypeOK /\ HeadInv /\ IndexInv /\ FilesInv
-----------------------------------------------------------------------------
(* Of some natural numbers one is the least.                               *)
LEMMA LeastOf ==
    ASSUME NEW S, S \subseteq Nat, S # {}
    PROVE  \E m \in S : \A k \in S : ~(k < m)
<1>. DEFINE R == OpToRel(<, Nat)
<1>1. IsWellFoundedOn(R, Nat)
  BY NatLessThanWellFounded
<1>2. PICK m \in S : \A k \in S : ~(<<k, m>> \in R)
  <2>. HIDE DEF R
  <2>. QED BY <1>1, WFMin
<1>3. \A k \in S : k < m => <<k, m>> \in R
  BY DEF OpToRel
<1>. QED BY <1>2, <1>3

(* What Others has kept of the first i entries, from what g has of fewer.  *)
KeptAt(g, s, m, i) ==
    IF i = 0 THEN <<>>
    ELSE IF s[i][1] = m THEN g[i - 1]
    ELSE Append(g[i - 1], s[i])
Kept(g, s, m, n) == g = [i \in 0..n |-> KeptAt(g, s, m, i)]

(* It can be told of one entry more, and so of any number of entries.      *)
LEMMA KeptLonger ==
    ASSUME NEW s, NEW m, NEW n \in Nat, \E g : Kept(g, s, m, n)
    PROVE  \E g : Kept(g, s, m, n + 1)
<1>1. PICK g : Kept(g, s, m, n)
  OBVIOUS
<1>. DEFINE h == [i \in 0..(n + 1) |-> IF i = n + 1 THEN KeptAt(g, s, m, i) ELSE g[i]]
<1>2. ASSUME NEW i \in 0..(n + 1) PROVE h[i] = KeptAt(h, s, m, i)
  <2>1. i = 0 \/ (i - 1 \in 0..n /\ i - 1 \in 0..(n + 1) /\ i - 1 # n + 1)
    OBVIOUS
  <2>2. i # 0 => h[i - 1] = g[i - 1]
    BY <2>1
  <2>3. i # n + 1 => i \in 0..n /\ h[i] = g[i]
    OBVIOUS
  <2>4. i # n + 1 => g[i] = KeptAt(g, s, m, i)
    BY <1>1, <2>3, Zenon DEF Kept
  <2>5. h[i] = KeptAt(g, s, m, i)
    BY <2>3, <2>4
  <2>. HIDE DEF h
  <2>. QED BY <2>2, <2>5 DEF KeptAt
<1>3. h = [i \in 0..(n + 1) |-> h[i]]
  OBVIOUS
<1>. HIDE DEF h
<1>4. Kept(h, s, m, n + 1)
  BY <1>2, <1>3, Zenon DEF Kept
<1>. QED BY <1>4

(* What is kept can be counted off for any number of files.              *)
LEMMA KeptExists ==
    ASSUME NEW s, NEW m, NEW n \in Nat
    PROVE  \E g : Kept(g, s, m, n)
<1>. DEFINE bad == {k \in Nat : ~\E g : Kept(g, s, m, k)}
<1>1. 0 \notin bad
  <2>. DEFINE h == [i \in 0..0 |-> <<>>]
  <2>1. \A i \in 0..0 : KeptAt(h, s, m, i) = <<>>
    BY DEF KeptAt
  <2>2. Kept(h, s, m, 0)
    BY <2>1 DEF Kept
  <2>. HIDE DEF h
  <2>. QED BY <2>2
<1>2. \A k \in Nat : k \notin bad => k + 1 \notin bad
  BY KeptLonger
<1>3. bad = {}
  <2>. SUFFICES ASSUME bad # {} PROVE FALSE
    OBVIOUS
  <2>1. bad \subseteq Nat
    OBVIOUS
  <2>. HIDE DEF bad
  <2>2. PICK k \in bad : \A j \in bad : ~(j < k)
    BY <2>1, LeastOf
  <2>3. k # 0 /\ k \in Nat
    BY <1>1, <2>1
  <2>4. k - 1 \in Nat /\ k - 1 < k /\ (k - 1) + 1 = k
    BY <2>3
  <2>5. k - 1 \notin bad
    BY <2>2, <2>4
  <2>. QED BY <1>2, <2>4, <2>5
<1>. QED BY <1>3

(* The entries of the other keys are all kept.                             *)
LEMMA OthersKeep ==
    ASSUME NEW E, NEW s \in Seq(E), NEW m
    PROVE  /\ Others(s, m) \in Seq(E)
           /\ \A j \in DOMAIN s : s[j][1] # m =>
                 \E k \in DOMAIN Others(s, m) : Others(s, m)[k] = s[j]
<1>. DEFINE F == CHOOSE g : Kept(g, s, m, Len(s))
            Fine(i) == /\ F[i] \in Seq(E)
                       /\ \A j \in 1..i : s[j][1] # m =>
                             \E k \in DOMAIN F[i] : F[i][k] = s[j]
            bad == {i \in 0..Len(s) : ~Fine(i)}
<1>1. Len(s) \in Nat /\ DOMAIN s = 1..Len(s) /\ \A j \in 1..Len(s) : s[j] \in E
  OBVIOUS
<1>2. Kept(F, s, m, Len(s))
  BY <1>1, KeptExists
<1>3. Others(s, m) = F[Len(s)]
  BY Zenon DEF Others, Kept, KeptAt
<1>. HIDE DEF F
<1>4. \A i \in 0..Len(s) : F[i] = KeptAt(F, s, m, i)
  BY <1>2, Zenon DEF Kept
<1>5. Fine(0)
  <2>1. F[0] = <<>>
    BY <1>1, <1>4 DEF KeptAt
  <2>. QED BY <2>1
<1>6. ASSUME NEW i \in 1..Len(s), Fine(i - 1) PROVE Fine(i)
  <2>1. /\ i \in 0..Len(s) /\ i # 0 /\ i - 1 \in Nat
        /\ \A j \in 1..i : j = i \/ j \in 1..(i - 1)
        /\ s[i] \in E
    BY <1>1
  <2>2. F[i] = IF s[i][1] = m THEN F[i - 1] ELSE Append(F[i - 1], s[i])
    BY <1>4, <2>1 DEF KeptAt
  <2>3. CASE s[i][1] = m
    BY <1>6, <2>1, <2>2, <2>3
  <2>4. CASE s[i][1] # m
    <3>. DEFINE f == F[i - 1]
    <3>1. f \in Seq(E) /\ F[i] = Append(f, s[i])
      BY <1>6, <2>2, <2>4
    <3>2. \A j \in 1..(i - 1) : s[j][1] # m => \E k \in DOMAIN f : f[k] = s[j]
      BY <1>6
    <3>. HIDE DEF f
    <3>3. /\ F[i] \in Seq(E)
          /\ \A k \in DOMAIN f : k \in DOMAIN F[i] /\ F[i][k] = f[k]
          /\ Len(f) + 1 \in DOMAIN F[i] /\ F[i][Len(f) + 1] = s[i]
      BY <2>1, <3>1
    <3>4. ASSUME NEW j \in 1..i, s[j][1] # m
          PROVE  \E k \in DOMAIN F[i] : F[i][k] = s[j]
      <4>1. CASE j = i
        BY <3>3, <4>1
      <4>2. CASE j \in 1..(i - 1)
        <5>1. PICK k \in DOMAIN f : f[k] = s[j]
          BY <3>2, <3>4, <4>2
        <5>. QED BY <3>3, <5>1
      <4>. QED BY <2>1, <4>1, <4>2
    <3>. QED BY <3>3, <3>4
  <2>. QED BY <2>3, <2>4
<1>7. bad = {}
  <2>. SUFFICES ASSUME bad # {} PROVE FALSE
    OBVIOUS
  <2>1. bad \subseteq Nat /\ bad \subseteq 0..Len(s)
    BY <1>1
  <2>2. \A i \in 0..Len(s) : i \notin bad => Fine(i)
    OBVIOUS
  <2>3. \A i \in bad : ~Fine(i)
    OBVIOUS
  <2>. HIDE DEF bad, Fine
  <2>4. PICK i \in bad : \A j \in bad : ~(j < i)
    BY <2>1, LeastOf
  <2>5. i \in 1..Len(s)
    BY <1>1, <1>5, <2>1, <2>3
  <2>6. i - 1 \in 0..Len(s) /\ i - 1 < i
    BY <1>1, <2>5
  <2>7. Fine(i - 1)
    BY <2>2, <2>4, <2>6
  <2>. QED BY <1>6, <2>3, <2>5, <2>7
<1>8. Fine(Len(s))
  <2>1. Len(s) \in 0..Len(s)
    BY <1>1
  <2>. HIDE DEF Fine
  <2>. QED BY <1>7, <2>1
<1>. QED BY <1>1, <1>3, <1>8
-----------------------------------------------------------------------------
(* What the daemon does to the queue leaves the store and the mirror: it   *)
(* goes on to publish the queue, an exception leaves step(), a genesis or  *)
(* a duel is taken up, it gets on, and a submission is added.              *)
Still == UNCHANGED <<storeVars, mirrorVars, waived>>

Calls ==
    /\ pc \notin {"init", "publish", "push"}
    /\ pc' = "publish" /\ ret' \in {"run", "idle"} /\ job' = job
    /\ IsQueue(queue') /\ queue'.block = queue.block
    /\ IsQueue(saved') /\ saved.block <= saved'.block /\ saved'.block <= queue.block
    /\ UNCHANGED <<raised, cutShort>>
    /\ \/ queue'.running = 0
       \/ queue'.running = queue.running /\ ~(Busy /\ job.kind = "duel")

Raises ==
    /\ pc \in AtWork \cup {"idle", "publish"}
    /\ pc' = "idle" /\ ret' = "off" /\ job' = NoJob
    /\ IsQueue(queue') /\ IsQueue(saved')
    /\ saved.block <= saved'.block /\ saved'.block <= queue'.block
    /\ raised' = TRUE /\ cutShort' = (queue'.running # 0)

Taken ==
    /\ pc = "idle" /\ queue.entries # <<>> /\ queue.block < outage.maxBlock
    /\ IsQueue(queue') /\ queue'.block = queue.block + 1 /\ saved' = queue'
    /\ \/ /\ job' = Take("genesis") /\ queue'.running = queue.running
          /\ pc' = (IF Head(queue.entries)[2] THEN "event" ELSE "fetch") /\ ret' = ret
       \/ /\ job' = Take("duel") /\ King # NoModel /\ queue'.running = queue'.block
          /\ pc' = "publish" /\ ret' = "fetch"
    /\ UNCHANGED <<raised, cutShort>> /\ Still

Moves ==
    /\ \/ pc = "fetch" /\ pc' = "check" /\ job' = job
       \/ /\ pc = "check" /\ job' = job
          /\ pc' = IF job.kind = "duel" THEN "demos" ELSE "event"
          /\ \A m \in Sides : Excused(m) \/ CheckSubmission(Dir(m)) = {}
       \/ pc = "demos" /\ pc' = "evaluate" /\ job' = job
       \/ /\ pc = "score" /\ pc' = "event"
          /\ \E won : job' = [job EXCEPT !.won = won]
    /\ UNCHANGED <<queueVars, ret>> /\ Still

Added(offer) ==
    /\ pc # "off"
    /\ IsQueue(queue') /\ queue'.block = queue.block /\ queue'.running = queue.running
    /\ IsQueue(saved') /\ saved.block <= saved'.block /\ saved'.block <= queue.block
    /\ Busy => saved'.block = saved.block
    /\ \A j \in DOMAIN queue.entries : \E k \in DOMAIN queue'.entries :
          queue'.entries[k][1] = queue.entries[j][1]
    /\ UNCHANGED <<raised, cutShort, pc, ret, job>> /\ Still

(* A bound of the run on the blocks is one of its outage.                  *)
LEMMA BlocksOf ==
    ASSUME TypeOK
    PROVE  /\ outage.maxBlock \in Nat /\ queue.block \in Nat /\ saved.block \in Nat
           /\ 1..outage.maxBlock \subseteq Blocks
           /\ outage.offers \subseteq Models \X BOOLEAN
<1>1. outage.maxBlock \in Nat /\ outage.offers \subseteq Models \X BOOLEAN
  BY OutagesAssumption DEF TypeOK
<1>. QED BY <1>1 DEF TypeOK, IsQueue, Blocks

(* What the daemon does to the queue leaves it a queue.                    *)
LEMMA QueueIs ==
    ASSUME TypeOK, NEW q, IsQueue(q)
    PROVE  /\ q.block < outage.maxBlock => IsQueue(Numbered(q))
           /\ Numbered(q).block = q.block + 1 /\ Numbered(q).running = q.running
           /\ Numbered(q).entries = q.entries
           /\ q.entries # <<>> => IsQueue(Popped(q))
           /\ Popped(q).block = q.block /\ Popped(q).running = q.running
           /\ IsQueue(Started(q)) /\ Started(q).block = q.block
           /\ Started(q).running = q.block
           /\ IsQueue([q EXCEPT !.running = 0])
           /\ [q EXCEPT !.running = 0].block = q.block
           /\ [q EXCEPT !.running = 0].running = 0
<1>. DEFINE E == Models \X BOOLEAN
<1>1. outage.maxBlock \in Nat /\ q.block \in 0..outage.maxBlock
  BY BlocksOf DEF IsQueue
<1>2. DOMAIN q = {"entries", "running", "block"} /\ q.entries \in Seq(E)
  BY DEF IsQueue
<1>3. q.entries # <<>> => Tail(q.entries) \in Seq(E)
  <2>. HIDE DEF E
  <2>. QED BY <1>2
<1>. HIDE DEF E
<1>4. \A r : IsQueue(r) <=> /\ DOMAIN r = {"entries", "running", "block"}
                            /\ r.entries \in Seq(E) /\ r.block \in 0..outage.maxBlock
  BY DEF IsQueue, E
<1>5. /\ DOMAIN Numbered(q) = DOMAIN q /\ Numbered(q).block = q.block + 1
      /\ Numbered(q).running = q.running /\ Numbered(q).entries = q.entries
  BY <1>2 DEF Numbered
<1>6. /\ DOMAIN Popped(q) = DOMAIN q /\ Popped(q).block = q.block
      /\ Popped(q).running = q.running /\ Popped(q).entries = Tail(q.entries)
  BY <1>2 DEF Popped
<1>7. /\ DOMAIN Started(q) = DOMAIN q /\ Started(q).block = q.block
      /\ Started(q).running = q.block /\ Started(q).entries = q.entries
  BY <1>2 DEF Started
<1>8. /\ DOMAIN [q EXCEPT !.running = 0] = DOMAIN q
      /\ [q EXCEPT !.running = 0].block = q.block
      /\ [q EXCEPT !.running = 0].running = 0
      /\ [q EXCEPT !.running = 0].entries = q.entries
  BY <1>2
<1>9. q.block < outage.maxBlock => q.block + 1 \in 0..outage.maxBlock
  BY <1>1
<1>. QED BY <1>1, <1>2, <1>3, <1>4, <1>5, <1>6, <1>7, <1>8, <1>9

(* A job that fails publishes the queue or raises.                         *)
LEMMA FailsIs ==
    ASSUME TypeOK, pc \in AtWork, NEW r \in BOOLEAN, Fails(r)
    PROVE  Calls \/ Raises
<1>. DEFINE q == [queue EXCEPT !.running = 0]
<1>0. pc \notin {"init", "publish", "push"}
  BY DEF AtWork
<1>1. /\ IsQueue(q) /\ q.block = queue.block /\ q.running = 0
      /\ IsQueue(queue) /\ IsQueue(saved) /\ saved.block <= queue.block
      /\ saved.block \in Nat /\ queue.block \in Nat
  BY QueueIs, BlocksOf DEF TypeOK
<1>2. CASE job.kind = "duel" /\ FinishDuel
  <2>1. \/ queue' = q /\ saved' = q /\ UNCHANGED <<raised, cutShort, job>>
           /\ pc' = "publish" /\ ret' = "idle"
        \/ /\ queue' = q /\ saved' = saved /\ raised' = TRUE
           /\ cutShort' = (q.running # 0)
           /\ job' = NoJob /\ ret' = "off" /\ pc' = "idle"
    BY <1>2 DEF FinishDuel, Saves, CallPublish, StepRaises, Goto
  <2>. HIDE DEF q
  <2>. QED BY <1>0, <1>1, <2>1 DEF Calls, Raises
<1>. HIDE DEF q
<1>3. CASE job.kind = "genesis" /\ FinishGenesis
  BY <1>0, <1>1, <1>3 DEF FinishGenesis, CallPublish, Goto, Calls, queueVars
<1>4. CASE job.kind = "genesis" /\ StepRaises(queue, saved)
  BY <1>0, <1>1, <1>4 DEF StepRaises, Goto, Raises
<1>. QED BY <1>2, <1>3, <1>4 DEF Fails

(* A job that is at its end publishes the queue or raises.                 *)
LEMMA FinishIs == ASSUME TypeOK, Finish PROVE (Calls \/ Raises) /\ Still
<1>1. Fails(TRUE)
  BY DEF Finish, Fails
<1>2. pc \in AtWork
  BY DEF Finish, AtWork
<1>. QED BY <1>1, <1>2, FailsIs DEF Finish, Still

(* A submission is added to the queue, and to its file unless that raises. *)
LEMMA SubmitIs ==
    ASSUME TypeOK, NEW offer \in outage.offers, Submit(offer)
    PROVE  Added(offer)
<1>. DEFINE E == Models \X BOOLEAN
            others == Others(queue.entries, offer[1])
            added == [queue EXCEPT !.entries = Append(others, offer)]
<1>1. offer \in E /\ queue.entries \in Seq(E) /\ DOMAIN queue = {"entries", "running", "block"}
  BY BlocksOf DEF TypeOK, IsQueue
<1>. HIDE DEF E, others, added
<1>2. /\ others \in Seq(E)
      /\ \A j \in DOMAIN queue.entries : queue.entries[j][1] # offer[1] =>
            \E k \in DOMAIN others : others[k] = queue.entries[j]
  <2>1. queue.entries \in Seq(Models \X BOOLEAN)
    BY <1>1 DEF E
  <2>2. /\ Others(queue.entries, offer[1]) \in Seq(Models \X BOOLEAN)
        /\ \A j \in DOMAIN queue.entries : queue.entries[j][1] # offer[1] =>
              \E k \in DOMAIN Others(queue.entries, offer[1]) :
                  Others(queue.entries, offer[1])[k] = queue.entries[j]
    BY <2>1, OthersKeep
  <2>. QED BY <2>2 DEF others, E
<1>3. /\ DOMAIN added = DOMAIN queue /\ added.entries = Append(others, offer)
      /\ added.block = queue.block /\ added.running = queue.running
  BY <1>1 DEF added
<1>4. /\ queue' = added /\ (saved' = added \/ saved' = saved)
      /\ UNCHANGED <<raised, cutShort>>
      /\ pc # "off" /\ UNCHANGED <<pc, ret, job>> /\ Still
  BY DEF Submit, Saves, Still, others, added
<1>5. /\ added.entries \in Seq(E)
      /\ \A k \in DOMAIN others : k \in DOMAIN added.entries /\ added.entries[k] = others[k]
      /\ Len(others) + 1 \in DOMAIN added.entries
      /\ added.entries[Len(others) + 1] = offer
  BY <1>1, <1>2, <1>3
<1>6. ASSUME NEW j \in DOMAIN queue.entries
      PROVE  \E k \in DOMAIN added.entries : added.entries[k][1] = queue.entries[j][1]
  <2>1. CASE queue.entries[j][1] = offer[1]
    BY <1>5, <2>1
  <2>2. CASE queue.entries[j][1] # offer[1]
    BY <1>2, <1>5, <2>2
  <2>. QED BY <2>1, <2>2
<1>7. IsQueue(added) /\ IsQueue(saved)
  BY <1>1, <1>3, <1>5 DEF TypeOK, IsQueue, E
<1>8. /\ saved.block <= queue.block /\ saved.block \in Nat /\ queue.block \in Nat
      /\ Busy => queue.block = saved.block
  BY BlocksOf DEF TypeOK
<1>9. saved'.block \in {queue.block, saved.block}
  BY <1>3, <1>4
<1>. QED BY <1>3, <1>4, <1>6, <1>7, <1>8, <1>9 DEF Added

(* What is taken up is a job of the next block; or a save raises.          *)
LEMMA TakeIs ==
    ASSUME TypeOK, TakeGenesis \/ TakeChallenger
    PROVE  Taken \/ (Raises /\ Still)
<1>. DEFINE n == Numbered(queue)
            p == Popped(n)
            s == Started(p)
<1>1. /\ pc = "idle" /\ queue.entries # <<>> /\ queue.block < outage.maxBlock /\ Still
  BY DEF TakeGenesis, TakeChallenger, Still
<1>2. /\ IsQueue(n) /\ n.block = queue.block + 1 /\ n.running = queue.running
      /\ n.entries = queue.entries
  BY <1>1, QueueIs DEF TypeOK
<1>. HIDE DEF n
<1>3. IsQueue(p) /\ p.block = queue.block + 1 /\ p.running = queue.running
  BY <1>1, <1>2, QueueIs
<1>. HIDE DEF p
<1>4. IsQueue(s) /\ s.block = queue.block + 1 /\ s.running = s.block
  BY <1>3, QueueIs
<1>. HIDE DEF s
<1>5. /\ IsQueue(queue) /\ IsQueue(saved) /\ saved.block <= queue.block
      /\ saved.block \in Nat /\ queue.block \in Nat
  BY BlocksOf DEF TypeOK
<1>6. ASSUME NEW q, NEW d, StepRaises(q, d), IsQueue(q), IsQueue(d),
             q.block = queue.block + 1, d.block \in {saved.block, queue.block + 1}
      PROVE  Raises
  BY <1>1, <1>5, <1>6 DEF StepRaises, Goto, Raises
<1>7. CASE TakeGenesis
  <2>1. \/ /\ Saves(p) /\ job' = Take("genesis") /\ ret' = ret
           /\ pc' = IF Head(queue.entries)[2] THEN "event" ELSE "fetch"
        \/ StepRaises(n, saved) \/ StepRaises(p, n)
    BY <1>7 DEF TakeGenesis, Goto, n, p
  <2>2. CASE Saves(p) /\ job' = Take("genesis") /\ ret' = ret
             /\ pc' = IF Head(queue.entries)[2] THEN "event" ELSE "fetch"
    BY <1>1, <1>3, <2>2 DEF Taken, Saves
  <2>. QED BY <1>1, <1>2, <1>3, <1>5, <1>6, <2>1, <2>2
<1>8. CASE TakeChallenger
  <2>1. \/ Saves(s) /\ job' = Take("duel") /\ pc' = "publish" /\ ret' = "fetch"
        \/ StepRaises(n, saved) \/ StepRaises(p, n) \/ StepRaises(s, p)
    BY <1>8 DEF TakeChallenger, Goto, CallPublish, n, p, s
  <2>2. King # NoModel
    BY <1>8 DEF TakeChallenger
  <2>3. CASE Saves(s) /\ job' = Take("duel") /\ pc' = "publish" /\ ret' = "fetch"
    BY <1>1, <1>4, <2>2, <2>3 DEF Taken, Saves
  <2>. QED BY <1>1, <1>2, <1>3, <1>4, <1>5, <1>6, <2>1, <2>3
<1>. QED BY <1>7, <1>8

(* The steps, grouped by what they do.                                     *)
LEMMA NextIs ==
    ASSUME TypeOK, Next
    PROVE  \/ (Calls \/ Raises) /\ Still
           \/ Taken \/ Moves \/ Dies
           \/ (\E offer \in outage.offers : Added(offer))
           \/ WriteManifest \/ WriteFirstHead \/ PublishQueue \/ MirrorFiles
           \/ StoreClips \/ PushClips \/ WriteEvent \/ AppendLine
           \/ ((Calls \/ Raises) /\ SyncFails) \/ WriteHead
           \/ Rebuild \/ PushAll \/ ReplaceAll
<1>0. /\ IsQueue(queue) /\ IsQueue(saved) /\ saved.block <= queue.block
      /\ saved.block \in Nat /\ queue.block \in Nat
  BY BlocksOf DEF TypeOK
<1>1. CASE Start
  <2>1. pc \in {"boot", "off"} /\ pc' = "publish" /\ ret' = "run" /\ Still
        /\ UNCHANGED <<queue, saved, raised, cutShort, job>>
    BY <1>1 DEF Start, CallPublish, Goto, Still, queueVars
  <2>. QED BY <1>0, <2>1 DEF Calls, Busy, AtWork
<1>2. CASE DropKing
  <2>. DEFINE p == Popped(queue)
  <2>1. pc = "idle" /\ queue.entries # <<>> /\ Still
    BY <1>2 DEF DropKing, Still
  <2>2. IsQueue(p) /\ p.block = queue.block /\ p.running = queue.running
    BY <1>0, <2>1, QueueIs
  <2>3. \/ Saves(p) /\ pc' = "publish" /\ ret' = "idle" /\ job' = job
        \/ StepRaises(p, saved)
    BY <1>2 DEF DropKing, CallPublish, Goto
  <2>. HIDE DEF p
  <2>4. CASE Saves(p) /\ pc' = "publish" /\ ret' = "idle" /\ job' = job
    BY <1>0, <2>1, <2>2, <2>4 DEF Calls, Saves, Busy, AtWork
  <2>5. CASE StepRaises(p, saved)
    BY <1>0, <2>1, <2>2, <2>5 DEF Raises, StepRaises, Goto
  <2>. QED BY <2>1, <2>3, <2>4, <2>5
<1>3. CASE Fetch
  <2>1. CASE Fails(FALSE)
    BY <1>3, <2>1, FailsIs DEF Fetch, AtWork, Still
  <2>2. CASE Goto("check") /\ UNCHANGED <<queueVars, ret, job>>
    BY <1>3, <2>2 DEF Fetch, Moves, Goto, Still
  <2>. QED BY <1>3, <2>1, <2>2 DEF Fetch
<1>4. CASE Check
  <2>1. CASE Fails(TRUE)
    BY <1>4, <2>1, FailsIs DEF Check, AtWork, Still
  <2>2. CASE /\ \A m \in Sides : Excused(m) \/ CheckSubmission(Dir(m)) = {}
             /\ Goto(IF job.kind = "duel" THEN "demos" ELSE "event")
             /\ UNCHANGED <<queueVars, ret, job>>
    BY <1>4, <2>2 DEF Check, Moves, Goto, Still
  <2>. QED BY <1>4, <2>1, <2>2 DEF Check
<1>5. CASE Judge \/ DemoFails
  BY <1>5 DEF Judge, DemoFails, Moves, Goto, Still
<1>6. CASE DuelFails
  BY <1>6, FailsIs DEF DuelFails, AtWork, Still
<1>7. CASE WriteFails
  BY <1>7, FailsIs DEF WriteFails, AtWork, Still
<1>8. CASE SyncFails
  BY <1>8, FailsIs DEF SyncFails, AtWork
<1>9. CASE PublishFails
  BY <1>0, <1>9 DEF PublishFails, StepRaises, Raises, Goto, Still
<1>. QED
  BY <1>1, <1>2, <1>3, <1>4, <1>5, <1>6, <1>7, <1>8, <1>9, FinishIs, SubmitIs, TakeIs
  DEF Next, Step, InitFails, Crash
-----------------------------------------------------------------------------
(* The names of the files, and that they are different ones.               *)
LEMMA Names ==
    /\ {Manifest, HeadName, QueueName, Card, Demo} \subseteq Files
    /\ \A b \in Blocks : Event(b) \in Files /\ Media(b) \in Files
    /\ \A p \in Parts : Part(p) \in Files
    /\ Empty = [f \in Files |-> <<>>]
BY DEF Files, Empty

(* Each file has a name of its own.                                      *)
LEMMA NamesDiffer ==
    /\ HeadName \notin {Manifest, QueueName, Card, Demo}
    /\ QueueName \notin {Manifest, HeadName, Card, Demo}
    /\ Card \notin {Manifest, HeadName, QueueName, Demo}
    /\ Demo \notin {Manifest, HeadName, QueueName, Card}
    /\ \A x : /\ Event(x) \notin {Manifest, HeadName, QueueName, Card, Demo}
              /\ Media(x) \notin {Manifest, HeadName, QueueName, Card, Demo}
              /\ Part(x) \notin {Manifest, HeadName, QueueName, Card, Demo}
    /\ \A x, y : /\ Event(x) # Media(y) /\ Event(x) # Part(y) /\ Media(x) # Part(y)
                 /\ Event(x) = Event(y) => x = y
                 /\ Media(x) = Media(y) => x = y
                 /\ Part(x) = Part(y) => x = y
BY DEF Manifest, HeadName, QueueName, Card, Demo, Event, Media, Part

(* A file that is written is touched, and no other changes.              *)
LEMMA WriteIs ==
    ASSUME TypeOK, NEW f \in Files, NEW c, Write(f, c)
    PROVE  /\ DOMAIN local' = Files /\ local'[f] = c
           /\ \A g \in Files : g # f => local'[g] = local[g]
           /\ touched' = touched \cup {f}
BY DEF Write, TypeOK

(* The queue is published with all that was touched before it.           *)
LEMMA PublishIs ==
    ASSUME TypeOK, PublishQueue
    PROVE  /\ DOMAIN local' = Files /\ local'[QueueName] = Snapshot(queue)
           /\ \A g \in Files : g # QueueName => local'[g] = local[g]
           /\ drained' = touched \cup {QueueName} /\ touched' = {}
           /\ pc = "publish" /\ pc' = "push" /\ ret' = ret /\ ~raised'
           /\ job' = IF ret = "fetch" THEN job ELSE NoJob
           /\ UNCHANGED <<outage, queue, saved, remote, waived, unsynced, harm>>
BY Names DEF PublishQueue, WriteSnapshot, TypeOK, Goto

(* A push copies the files that are there.                               *)
LEMMA PushIs ==
    ASSUME NEW files, Push(files)
    PROVE  /\ DOMAIN remote' = Files
           /\ \A f \in Files : remote'[f] = IF f \in files /\ local[f] # <<>>
                                            THEN local[f] ELSE remote[f]
BY DEF Push

(* A job has a block.                                                    *)
LEMMA JobBlock == ASSUME TypeOK, Busy PROVE job.block \in Blocks
BY BlocksOf DEF TypeOK, IsQueue

(* A number follows that of the head, so that the line has a part to go to. *)
LEMMA NextPart ==
    ASSUME TypeOK, HeadInv, pc \in {"line", "head"}
    PROVE  /\ NextSeq \in 1..job.block
           /\ \E p \in Parts : PartOf(NextSeq) = Part(p)
<1>1. Busy /\ job.block \in Nat \ {0} /\ job.block <= outage.maxBlock
  BY BlocksOf DEF TypeOK, IsQueue, Busy, AtWork
<1>2. NextSeq \in 1..job.block
  BY <1>1 DEF HeadInv, NextSeq
<1>3. NextSeq \in Blocks
  BY <1>1, <1>2, BlocksOf
<1>. QED BY <1>2, <1>3 DEF PartOf, Parts

(* A daemon begins well typed.                                           *)
LEMMA InitType == Init => TypeOK
<1>. SUFFICES ASSUME Init PROVE TypeOK
  OBVIOUS
<1>. DEFINE E == Models \X BOOLEAN
<1>1. outage.maxBlock \in Nat
  BY OutagesAssumption DEF Init
<1>2. DOMAIN local = Files /\ DOMAIN remote = Files
  BY Names DEF Init
<1>3. IsQueue(queue)
  <2>1. /\ DOMAIN queue = {"entries", "running", "block"}
        /\ queue.entries = <<>> /\ queue.block = 0
    BY DEF Init
  <2>2. <<>> \in Seq(E)
    <3>. HIDE DEF E
    <3>. QED OBVIOUS
  <2>. HIDE DEF Init
  <2>. QED BY <1>1, <2>1, <2>2 DEF IsQueue
<1>4. DOMAIN job = {"kind", "block", "model", "king", "skip", "won", "clips"}
  BY DEF Init, NoJob
<1>5. /\ saved = queue /\ queue.block = 0 /\ unsynced = {}
      /\ outage \in Outages /\ touched = {} /\ drained = {}
      /\ pc = "off" /\ ret = "off" /\ harm = "none"
  BY DEF Init
<1>. HIDE DEF Init
<1>. QED BY <1>2, <1>3, <1>4, <1>5 DEF TypeOK, Busy, AtWork, Labels

(* Each step keeps the types.                                            *)
LEMMA StepType == TypeOK /\ HeadInv /\ [Next]_vars => TypeOK'
<1>. SUFFICES ASSUME TypeOK, HeadInv, [Next]_vars PROVE TypeOK'
  OBVIOUS
<1>0. /\ outage.maxBlock \in Nat /\ queue.block \in Nat /\ saved.block \in Nat
      /\ IsQueue(queue) /\ IsQueue(saved) /\ saved.block <= queue.block
  BY BlocksOf DEF TypeOK
(* The queue stays a queue, the files are still files, a job has a block.  *)
<1>q. ASSUME outage' = outage, IsQueue(queue'), IsQueue(saved'), saved'.block <= queue'.block
      PROVE  outage' \in Outages /\ IsQueue(queue)' /\ IsQueue(saved)' /\ (saved.block <= queue.block)'
  BY <1>q DEF TypeOK, IsQueue
<1>s. ASSUME UNCHANGED <<outage, queue, saved>>
      PROVE  outage' \in Outages /\ IsQueue(queue)' /\ IsQueue(saved)' /\ (saved.block <= queue.block)'
  BY <1>0, <1>q, <1>s
<1>. DEFINE JobOK == /\ job.kind \in {"genesis", "duel"} /\ job.block = saved.block
                     /\ job.block = queue.block /\ job.block # 0
            Rest == /\ DOMAIN local = Files /\ DOMAIN remote = Files
                    /\ touched \subseteq Files /\ drained \subseteq Files
                    /\ unsynced \subseteq {Part(p) : p \in Parts}
                    /\ DOMAIN job = {"kind", "block", "model", "king", "skip", "won", "clips"}
                    /\ pc \in Labels /\ ret \in {"off", "run", "idle", "fetch"}
                    /\ harm \in {"none", "lacks", "mixed"}
<1>r. Rest /\ (Busy => JobOK)
  BY DEF TypeOK
<1>t. ASSUME outage' \in Outages, IsQueue(queue)', IsQueue(saved)', (saved.block <= queue.block)',
             Rest', Busy' => JobOK'
      PROVE  TypeOK'
  BY <1>t DEF TypeOK
<1>1. CASE (Calls \/ Raises) /\ Still
  <2>1. Rest'
    BY <1>1, <1>r DEF Calls, Raises, Still, storeVars, mirrorVars, NoJob, Labels
  <2>2. ~Busy' /\ outage' = outage
    BY <1>1 DEF Calls, Raises, Still, mirrorVars, Busy, AtWork
  <2>3. IsQueue(queue') /\ IsQueue(saved') /\ saved'.block <= queue'.block
    BY <1>1 DEF Calls, Raises
  <2>. QED BY <1>q, <1>t, <2>1, <2>2, <2>3
<1>2. CASE Taken
  <2>1. /\ DOMAIN job' = {"kind", "block", "model", "king", "skip", "won", "clips"}
        /\ job'.kind \in {"genesis", "duel"} /\ job'.block = queue.block + 1
    BY <1>2 DEF Taken, Take, NoJob
  <2>2. /\ saved' = queue' /\ queue'.block = queue.block + 1 /\ IsQueue(queue')
        /\ pc' \in Labels /\ ret' \in {"off", "run", "idle", "fetch"}
    BY <1>2, <1>r DEF Taken, Labels, AtWork
  <2>3. UNCHANGED <<outage, local, remote, touched, drained, unsynced, harm>>
    BY <1>2 DEF Taken, Still, storeVars, mirrorVars
  <2>4. Rest' /\ JobOK'
    BY <1>0, <1>r, <2>1, <2>2, <2>3
  <2>5. saved'.block <= queue'.block
    BY <1>0, <2>2
  <2>. QED BY <1>q, <1>t, <2>2, <2>3, <2>4, <2>5
<1>3. CASE Moves
  <2>1. /\ DOMAIN job' = DOMAIN job /\ job'.kind = job.kind /\ job'.block = job.block
        /\ UNCHANGED <<outage, queue, saved, local, remote, touched, drained, unsynced, harm, ret>>
    BY <1>3, <1>r DEF Moves, Still, storeVars, mirrorVars, queueVars
  <2>2. Busy /\ pc' \in Labels
    BY <1>3 DEF Moves, Busy, AtWork, Labels
  <2>3. Rest' /\ JobOK'
    BY <1>r, <2>1, <2>2
  <2>. QED BY <1>s, <1>t, <2>1, <2>3
<1>4. CASE Dies
  <2>1. Rest' /\ ~Busy'
    BY <1>4, <1>r DEF Dies, Goto, Lacking, NoJob, Labels, Busy, AtWork
  <2>2. outage' = outage /\ queue' = saved /\ saved' = saved
    BY <1>4 DEF Dies
  <2>. QED BY <1>0, <1>q, <1>t, <2>1, <2>2
<1>5. ASSUME NEW offer \in outage.offers, Added(offer) PROVE TypeOK'
  <2>1. Rest' /\ (Busy' <=> Busy) /\ outage' = outage /\ job' = job
    BY <1>5, <1>r DEF Added, Still, storeVars, mirrorVars, Busy
  <2>2. /\ IsQueue(queue') /\ IsQueue(saved') /\ queue'.block = queue.block
        /\ saved'.block <= queue'.block /\ (Busy => saved'.block = saved.block)
    BY <1>5 DEF Added
  <2>. QED BY <1>q, <1>r, <1>t, <2>1, <2>2
(* A write of the store.                                                   *)
<1>w. ASSUME NEW f \in Files, NEW c, Write(f, c), UNCHANGED <<queueVars, mirrorVars, ret>>,
             unsynced' \subseteq unsynced, pc' \in Labels, DOMAIN job' = DOMAIN job,
             Busy' => Busy /\ job'.kind = job.kind /\ job'.block = job.block
      PROVE  TypeOK'
  <2>1. /\ DOMAIN local' = Files /\ touched' \subseteq Files
        /\ UNCHANGED <<outage, queue, saved, remote, drained, harm, ret>>
    BY <1>w, WriteIs, <1>r DEF queueVars, mirrorVars
  <2>2. Rest'
    BY <1>w, <1>r, <2>1
  <2>3. Busy' => JobOK'
    BY <1>w, <1>r, <2>1
  <2>. QED BY <1>s, <1>t, <2>1, <2>2, <2>3
<1>6. CASE WriteManifest
  BY <1>6, <1>w, Names DEF WriteManifest, Goto, Labels, Busy, AtWork
<1>7. CASE WriteFirstHead
  <2>1. CASE local[HeadName] = <<>>
    BY <1>7, <1>w, <2>1, Names DEF WriteFirstHead, Goto, Labels, Busy, AtWork
  <2>2. CASE local[HeadName] # <<>>
    <3>1. UNCHANGED <<outage, queue, saved, local, remote, touched, drained, unsynced, harm, ret, job>>
      BY <1>7, <2>2 DEF WriteFirstHead, queueVars, mirrorVars
    <3>2. Rest' /\ ~Busy'
      BY <1>7, <1>r, <3>1 DEF WriteFirstHead, Goto, Labels, Busy, AtWork
    <3>. QED BY <1>s, <1>t, <3>1, <3>2
  <2>. QED BY <2>1, <2>2
<1>8. CASE PublishQueue
  <2>1. Rest'
    BY <1>8, <1>r, PublishIs, Names DEF Labels, NoJob
  <2>2. Busy' => Busy /\ job' = job
    BY <1>8, PublishIs DEF Busy, AtWork
  <2>. QED BY <1>8, <1>r, <1>s, <1>t, <2>1, <2>2, PublishIs
<1>9. CASE MirrorFiles
  <2>1. DOMAIN remote' = Files
    BY <1>9, <1>r, PushIs DEF MirrorFiles
  <2>2. /\ pc = "push" /\ pc' = (IF ret = "fetch" THEN "fetch" ELSE "idle")
        /\ ret' = "off" /\ drained' = {} /\ harm' \in {"none", "lacks", "mixed"}
    BY <1>9, <1>r DEF MirrorFiles, Goto, Lacking
  <2>3. UNCHANGED <<outage, queue, saved, local, touched, unsynced, job>>
    BY <1>9 DEF MirrorFiles, queueVars, storeVars
  <2>4. Busy' => Busy
    BY <2>2 DEF Busy, AtWork
  <2>5. Rest'
    BY <1>r, <2>1, <2>2, <2>3 DEF Labels, AtWork
  <2>. QED BY <1>r, <1>s, <1>t, <2>3, <2>4, <2>5
<1>10. CASE StoreClips
  <2>1. Busy /\ Busy' /\ pc' \in Labels /\ unsynced' = unsynced
        /\ UNCHANGED <<queueVars, mirrorVars, ret>>
    BY <1>10 DEF StoreClips, Goto, Busy, AtWork, Labels
  <2>2. /\ DOMAIN job' = DOMAIN job /\ job'.kind = job.kind /\ job'.block = job.block
    BY <1>10, <1>r DEF StoreClips
  <2>3. Clip \in Files
    BY <2>1, Names, JobBlock DEF Clip
  <2>. QED BY <1>10, <1>w, <2>1, <2>2, <2>3 DEF StoreClips
<1>11. CASE PushClips
  <2>1. DOMAIN remote' = Files
    BY <1>11, <1>r, PushIs DEF PushClips
  <2>2. /\ UNCHANGED <<outage, queue, saved, local, touched, unsynced, drained, harm, ret, job>>
        /\ Busy /\ pc' \in Labels
    BY <1>11 DEF PushClips, Goto, Busy, AtWork, Labels, queueVars, storeVars
  <2>3. Rest' /\ JobOK'
    BY <1>r, <2>1, <2>2
  <2>. QED BY <1>s, <1>t, <2>2, <2>3
<1>12. CASE WriteEvent
  <2>1. Busy /\ pc' \in Labels /\ unsynced' = unsynced /\ job' = job
        /\ UNCHANGED <<queueVars, mirrorVars, ret>>
    BY <1>12 DEF WriteEvent, Goto, Busy, AtWork, Labels
  <2>2. Event(job.block) \in Files
    BY <2>1, Names, JobBlock
  <2>. QED BY <1>12, <1>w, <2>1, <2>2 DEF WriteEvent
<1>13. CASE AppendLine
  <2>1. Busy /\ pc' \in Labels /\ unsynced' \subseteq unsynced /\ job' = job
        /\ UNCHANGED <<queueVars, mirrorVars, ret>>
    BY <1>13 DEF AppendLine, Goto, Busy, AtWork, Labels
  <2>2. PartOf(NextSeq) \in Files
    BY <1>13, NextPart, Names DEF AppendLine
  <2>. QED BY <1>13, <1>w, <2>1, <2>2 DEF AppendLine
<1>14. CASE (Calls \/ Raises) /\ SyncFails
  <2>1. PICK p \in Parts : PartOf(NextSeq) = Part(p)
    BY <1>14, NextPart DEF SyncFails
  <2>2. /\ DOMAIN local' = DOMAIN local /\ unsynced' \subseteq unsynced \cup {Part(p)}
        /\ UNCHANGED <<outage, remote, touched, drained, harm>>
    BY <1>14, <2>1 DEF SyncFails, mirrorVars
  <2>3. /\ DOMAIN job' = {"kind", "block", "model", "king", "skip", "won", "clips"}
        /\ pc' \in Labels /\ ret' \in {"off", "run", "idle", "fetch"} /\ ~Busy'
    BY <1>14, <1>r DEF Calls, Raises, NoJob, Labels, Busy, AtWork
  <2>4. Rest'
    BY <1>r, <2>2, <2>3
  <2>5. IsQueue(queue') /\ IsQueue(saved') /\ saved'.block <= queue'.block
    BY <1>14 DEF Calls, Raises
  <2>. QED BY <1>q, <1>t, <2>2, <2>3, <2>4, <2>5
<1>15. CASE WriteHead
  <2>1. Busy /\ pc' \in Labels /\ unsynced' = unsynced /\ job' = job
        /\ UNCHANGED <<queueVars, mirrorVars, ret>>
    BY <1>15 DEF WriteHead, Goto, Busy, AtWork, Labels
  <2>. QED BY <1>15, <1>w, <2>1, Names DEF WriteHead
<1>16. CASE Rebuild \/ PushAll \/ ReplaceAll
  <2>1. /\ UNCHANGED <<outage, queue, saved, touched, drained, pc, ret, job>>
        /\ unsynced' = {} /\ harm' \in {"none", "lacks", "mixed"} /\ pc = "off"
    BY <1>16, <1>r DEF Rebuild, PushAll, ReplaceAll, queueVars
  <2>2. DOMAIN local' = Files /\ DOMAIN remote' = Files
    BY <1>16, <1>r, PushIs, Names DEF Rebuild, PushAll, ReplaceAll
  <2>3. Rest' /\ ~Busy'
    BY <1>r, <2>1, <2>2 DEF Busy, AtWork
  <2>. QED BY <1>s, <1>t, <2>1, <2>3
<1>17. CASE UNCHANGED vars
  BY <1>17, <1>r, <1>s, <1>t DEF vars, Busy
<1>. QED
  BY <1>1, <1>2, <1>3, <1>4, <1>5, <1>6, <1>7, <1>8, <1>9, <1>10, <1>11, <1>12,
     <1>13, <1>14, <1>15, <1>16, <1>17, NextIs
-----------------------------------------------------------------------------
(* The index keeps its records where its parts stay.                     *)
LEMMA IndexStays ==
    ASSUME IndexInv, \A p \in Parts : local'[Part(p)] = local[Part(p)],
           \A b \in Blocks : Recorded(b) => Recorded(b)'
    PROVE  IndexInv'
<1>. SUFFICES ASSUME NEW p \in Parts, NEW i \in DOMAIN local'[Part(p)],
                     NEW b, b = local'[Part(p)][i]
              PROVE  Recorded(b)'
  BY DEF IndexInv
<1>1. local[Part(p)] \in Seq(Blocks) /\ i \in DOMAIN local[Part(p)]
  BY DEF IndexInv
<1>2. b = local[Part(p)][i] /\ b \in Blocks
  BY <1>1
<1>. QED BY <1>1, <1>2 DEF IndexInv

(* Blocks are numbers.                                                   *)
LEMMA BlocksAreNumbers == Blocks \subseteq Nat
BY OutagesAssumption DEF Blocks

(* A later queue.json knows the blocks of an earlier one.                  *)
LEMMA RecordedStays ==
    ASSUME TypeOK, NEW b \in Blocks, Recorded(b),
           saved'.block \in Nat, saved.block <= saved'.block,
           local'[Event(b)] # <<>>,
           Unwritten' => (Unwritten /\ job'.block = job.block) \/ job'.block > saved.block
    PROVE  Recorded(b)'
<1>1. b \in Nat /\ saved.block \in Nat
  BY BlocksAreNumbers, BlocksOf
<1>2. b <= saved'.block
  BY <1>1 DEF Recorded
<1>3. Unwritten' => b # job'.block
  <2>1. CASE Unwritten /\ job'.block = job.block
    BY <2>1 DEF Recorded
  <2>2. CASE job'.block > saved.block /\ Unwritten'
    <3>1. b <= saved.block
      BY DEF Recorded
    <3>. QED BY <1>1, <2>2, <3>1
  <2>. QED BY <2>1, <2>2
<1>. QED BY <1>2, <1>3 DEF Recorded

(* A job that is still in hand is the same, and has got no further than    *)
(* the store has.                                                          *)
GetsOn ==
    Busy' => /\ Busy /\ job'.block = job.block /\ job'.kind = job.kind
             /\ job'.clips = job.clips
             /\ pc' # pc => pc' \notin {"line", "head", "finish"} /\ pc \notin {"head", "finish"}
             /\ pc' \in {"pushclips", "score", "event"} /\ job.kind = "duel" =>
                   pc \in {"pushclips", "score", "event"}

(* Most steps leave the store as it was but for the snapshot of the queue. *)
LEMMA StoreStays ==
    ASSUME StoreInv, GetsOn,
           \A g \in Files \ {QueueName, Manifest} : local'[g] = local[g],
           saved'.block \in Nat, saved.block <= saved'.block
    PROVE  HeadInv' /\ IndexInv' /\ FilesInv'
<1>. USE DEF StoreInv
<1>0. saved.block \in Nat
  BY BlocksOf
<1>1. /\ local'[HeadName] = local[HeadName] /\ local'[Demo] = local[Demo]
      /\ \A p \in Parts : local'[Part(p)] = local[Part(p)]
      /\ \A b \in Blocks : /\ local'[Event(b)] = local[Event(b)]
                           /\ local'[Media(b)] = local[Media(b)]
  BY Names, NamesDiffer
<1>2. NextSeq' = NextSeq /\ PartOf(NextSeq)' = PartOf(NextSeq)
  BY <1>1 DEF NextSeq, PartOf
<1>3. Unwritten' => Unwritten /\ job'.block = job.block
  BY DEF Unwritten, GetsOn
<1>4. pc' \in {"line", "head"} => pc' = pc /\ Busy /\ job'.block = job.block
  BY DEF Busy, AtWork, GetsOn
<1>5. \A p \in Parts : \A b : Holds(local, p, b) <=> Holds(local', p, b)
  BY <1>1 DEF Holds
<1>6. HeadInv'
  <2>1. pc' = "head" => Holds(local', PartOf(NextSeq)'[2], job'.block)
    <3>. SUFFICES ASSUME pc' = "head" PROVE Holds(local', PartOf(NextSeq)'[2], job'.block)
      OBVIOUS
    <3>1. pc = "head" /\ job'.block = job.block
      BY <1>4
    <3>2. PICK p \in Parts : PartOf(NextSeq) = Part(p)
      BY <3>1, NextPart
    <3>3. PartOf(NextSeq)[2] = p
      BY <3>2 DEF Part
    <3>. QED BY <1>2, <1>5, <3>1, <3>3 DEF HeadInv
  <2>2. Busy' /\ pc' # "finish" => Busy /\ pc # "finish" /\ job'.block = job.block
    BY DEF GetsOn
  <2>3. ASSUME local'[HeadName] # <<>>
        PROVE  /\ local'[HeadName][1] \in Nat /\ local'[HeadName][1] <= saved'.block
               /\ Busy' /\ pc' # "finish" => local'[HeadName][1] < job'.block
               /\ local'[HeadName][2] # 0 =>
                     \E p \in Parts : Holds(local', p, local'[HeadName][2])
    BY <1>0, <1>1, <1>5, <2>2, <2>3 DEF HeadInv
  <2>. QED BY <2>1, <2>3 DEF HeadInv
<1>7. IndexInv'
  <2>1. ASSUME NEW b \in Blocks, Recorded(b) PROVE Recorded(b)'
    <3>1. local'[Event(b)] # <<>>
      BY <1>1, <2>1 DEF Recorded
    <3>. QED BY <1>3, <2>1, <3>1, RecordedStays
  <2>. QED BY <1>1, <2>1, IndexStays
<1>8. FilesInv'
  <2>1. ASSUME NEW b \in Blocks, NEW clips, Stored(local, clips, b)
        PROVE  Stored(local', clips, b)
    BY <1>1, <2>1 DEF Stored
  <2>2. ASSUME NEW b \in Blocks, local'[Event(b)] # <<>> PROVE Evident(local', b)
    <3>1. Evident(local, b) /\ local'[Event(b)] = local[Event(b)]
      BY <1>1, <2>2 DEF FilesInv
    <3>2. Stored(local', local[Event(b)][3], b)
      BY <2>1, <3>1 DEF Evident
    <3>. QED BY <3>1, <3>2 DEF Evident
  <2>3. ASSUME Busy' PROVE Stored(local', job'.clips, job'.block)
    <3>1. Stored(local, job.clips, job.block) /\ job'.clips = job.clips /\ job'.block = job.block
      BY <2>3 DEF FilesInv, GetsOn
    <3>2. job.block \in Blocks
      BY <2>3, JobBlock DEF GetsOn
    <3>. QED BY <2>1, <3>1, <3>2
  <2>4. ASSUME pc' \in {"pushclips", "score", "event"}, job'.kind = "duel"
        PROVE  Media(job'.block) \in job'.clips
    <3>1. Busy'
      BY <2>4 DEF Busy, AtWork
    <3>. QED BY <2>4, <3>1 DEF FilesInv, GetsOn
  <2>5. ASSUME pc' = "line" PROVE local'[Event(job'.block)] # <<>>
    <3>1. pc = "line" /\ job'.block = job.block /\ job.block \in Blocks
      BY <1>4, <2>5, JobBlock
    <3>. QED BY <1>1, <3>1 DEF FilesInv
  <2>. QED BY <2>2, <2>3, <2>4, <2>5 DEF FilesInv
<1>. QED BY <1>6, <1>7, <1>8

(* Tuples are not empty.                                                   *)
LEMMA Tuples ==
    /\ \A a : <<a>> # <<>>
    /\ \A a, b, c : <<a, b, c>> # <<>> /\ <<a, b, c>>[2] = b
    /\ \A a, b, c, d : <<a, b, c, d>> # <<>>
    /\ DOMAIN <<>> = {}
OBVIOUS

(* A block that is taken up is a new one.                                  *)
LEMMA NewBlock ==
    ASSUME StoreInv, Taken
    PROVE  HeadInv' /\ IndexInv' /\ FilesInv'
<1>. USE DEF StoreInv
<1>0. /\ queue.block \in Nat /\ saved.block \in Nat /\ saved.block <= queue.block
      /\ local' = local
  BY BlocksOf DEF TypeOK, Taken, Still, storeVars
<1>1. /\ job'.block = queue.block + 1 /\ saved'.block = queue.block + 1
      /\ job'.clips = {} /\ pc' \in {"event", "fetch", "publish"}
      /\ pc' = "event" => job'.kind = "genesis"
  BY DEF Taken, Take, NoJob
<1>2. \A p \in Parts : \A b : Holds(local, p, b) <=> Holds(local', p, b)
  BY <1>0 DEF Holds
<1>3. HeadInv'
  BY <1>0, <1>1, <1>2 DEF HeadInv
<1>4. IndexInv'
  <2>1. ASSUME NEW b \in Blocks, Recorded(b) PROVE Recorded(b)'
    <3>1. local'[Event(b)] # <<>>
      BY <1>0, <2>1 DEF Recorded
    <3>. QED BY <1>0, <1>1, <2>1, <3>1, RecordedStays
  <2>. QED BY <1>0, <2>1, IndexStays
<1>5. FilesInv'
  <2>1. Stored(local', job'.clips, job'.block)
    BY <1>1 DEF Stored
  <2>. QED BY <1>0, <1>1, <2>1 DEF FilesInv
<1>. QED BY <1>3, <1>4, <1>5

(* A clip or an event leaves the head and the index as they are.           *)
LEMMA OtherFile ==
    ASSUME StoreInv, Unwritten, saved' = saved, job'.block = job.block,
           NEW f \in {Demo, Media(job.block), Event(job.block)}, NEW c, c # <<>>,
           Write(f, c), pc' \notin {"head", "finish"}
    PROVE  /\ HeadInv' /\ IndexInv'
           /\ \A b \in Blocks : \A clips : Stored(local, clips, b) => Stored(local', clips, b)
<1>. USE DEF StoreInv
<1>0. job.block \in Blocks /\ f \in Files /\ saved.block \in Nat
  BY JobBlock, Names, BlocksOf DEF Unwritten
<1>1. /\ local'[HeadName] = local[HeadName]
      /\ \A p \in Parts : local'[Part(p)] = local[Part(p)]
      /\ \A g \in Files : local[g] # <<>> => local'[g] # <<>>
  BY <1>0, Names, NamesDiffer, WriteIs
<1>2. \A p \in Parts : \A b : Holds(local, p, b) <=> Holds(local', p, b)
  BY <1>1 DEF Holds
<1>3. HeadInv'
  BY <1>1, <1>2 DEF HeadInv, Unwritten
<1>4. IndexInv'
  <2>1. ASSUME NEW b \in Blocks, Recorded(b) PROVE Recorded(b)'
    <3>1. local'[Event(b)] # <<>>
      BY <1>1, <2>1, Names DEF Recorded
    <3>. QED BY <1>0, <2>1, <3>1, RecordedStays
  <2>. QED BY <1>1, <2>1, IndexStays
<1>5. ASSUME NEW b \in Blocks, NEW clips, Stored(local, clips, b)
      PROVE  Stored(local', clips, b)
  BY <1>1, <1>5, Names DEF Stored
<1>. QED BY <1>3, <1>4, <1>5

(* The line that is appended adds a block to one part of the index.        *)
LEMMA LineIs ==
    ASSUME StoreInv, pc = "line",
           local' = [local EXCEPT ![PartOf(NextSeq)] = Append(local[PartOf(NextSeq)], job.block)]
    PROVE  /\ \E p \in Parts :
                 /\ PartOf(NextSeq) = Part(p) /\ Holds(local', p, job.block)
                 /\ local[Part(p)] \in Seq(Blocks)
                 /\ local'[Part(p)] = Append(local[Part(p)], job.block)
                 /\ \A r \in Parts \ {p} : local'[Part(r)] = local[Part(r)]
                 /\ \A g \in Files : g # Part(p) => local'[g] = local[g]
           /\ \A r \in Parts : \A b : Holds(local, r, b) => Holds(local', r, b)
           /\ local'[HeadName] = local[HeadName]
           /\ \A b \in Blocks : local'[Event(b)] = local[Event(b)]
           /\ \A g \in Files : local[g] # <<>> => local'[g] # <<>>
           /\ job.block \in Blocks
<1>. USE DEF StoreInv
<1>0. job.block \in Blocks
  BY JobBlock DEF Busy, AtWork
<1>1. PICK p \in Parts : PartOf(NextSeq) = Part(p)
  BY NextPart
<1>2. /\ local'[Part(p)] = Append(local[Part(p)], job.block)
      /\ \A g \in Files : g # Part(p) => local'[g] = local[g]
  BY <1>1, Names DEF TypeOK
<1>3. \A r \in Parts \ {p} : local'[Part(r)] = local[Part(r)]
  BY <1>2, Names, NamesDiffer
<1>4. local[Part(p)] \in Seq(Blocks)
  BY DEF IndexInv
<1>5. ASSUME NEW f \in Seq(Blocks), NEW b \in Blocks
      PROVE  /\ Append(f, b) # <<>>
             /\ \A i \in DOMAIN f : i \in DOMAIN Append(f, b) /\ Append(f, b)[i] = f[i]
             /\ \E i \in DOMAIN Append(f, b) : Append(f, b)[i] = b
  <2>1. Len(Append(f, b)) = Len(f) + 1 /\ Len(f) \in Nat /\ Len(<<>>) = 0
    OBVIOUS
  <2>2. Len(f) + 1 \in DOMAIN Append(f, b) /\ Append(f, b)[Len(f) + 1] = b
    OBVIOUS
  <2>3. \A i \in DOMAIN f : i \in DOMAIN Append(f, b) /\ Append(f, b)[i] = f[i]
    OBVIOUS
  <2>. QED BY <2>1, <2>2, <2>3
<1>6. ASSUME NEW r \in Parts, NEW b, Holds(local, r, b) PROVE Holds(local', r, b)
  <2>1. CASE r = p
    BY <1>0, <1>2, <1>4, <1>5, <1>6, <2>1 DEF Holds
  <2>2. CASE r # p
    BY <1>3, <1>6, <2>2 DEF Holds
  <2>. QED BY <2>1, <2>2
<1>7. Holds(local', p, job.block) /\ local'[Part(p)] # <<>>
  BY <1>0, <1>2, <1>4, <1>5 DEF Holds
<1>8. local'[HeadName] = local[HeadName]
  <2>1. HeadName \in Files /\ HeadName # Part(p)
    BY Names, NamesDiffer, Zenon
  <2>. QED BY <1>2, <2>1, Zenon
<1>9. \A b \in Blocks : local'[Event(b)] = local[Event(b)]
  <2>1. \A b \in Blocks : Event(b) \in Files /\ Event(b) # Part(p)
    BY Names, NamesDiffer, Zenon
  <2>. QED BY <1>2, <2>1, Zenon
<1>10. \A g \in Files : local[g] # <<>> => local'[g] # <<>>
  BY <1>2, <1>7, Zenon
<1>11. \A r \in Parts : \A b : Holds(local, r, b) => Holds(local', r, b)
  BY <1>6, Zenon
<1>12. \E q \in Parts :
          /\ PartOf(NextSeq) = Part(q) /\ Holds(local', q, job.block)
          /\ local[Part(q)] \in Seq(Blocks)
          /\ local'[Part(q)] = Append(local[Part(q)], job.block)
          /\ \A r \in Parts \ {q} : local'[Part(r)] = local[Part(r)]
          /\ \A g \in Files : g # Part(q) => local'[g] = local[g]
  BY <1>1, <1>2, <1>3, <1>4, <1>7, Zenon
<1>. QED BY <1>0, <1>8, <1>9, <1>10, <1>11, <1>12, Zenon

(* Its block has its event, and is the block of no other job from then on. *)
LEMMA LineStores ==
    ASSUME StoreInv, pc = "line",
           local' = [local EXCEPT ![PartOf(NextSeq)] = Append(local[PartOf(NextSeq)], job.block)],
           ~Unwritten', saved'.block \in Nat, saved.block <= saved'.block
    PROVE  IndexInv'
<1>. USE DEF StoreInv
<1>0. /\ saved.block \in Nat /\ job.block = saved.block
      /\ local'[Event(job.block)] # <<>>
  BY LineIs, BlocksOf DEF FilesInv, TypeOK, Busy, AtWork
<1>1. PICK p \in Parts : /\ local[Part(p)] \in Seq(Blocks)
                         /\ local'[Part(p)] = Append(local[Part(p)], job.block)
                         /\ \A r \in Parts \ {p} : local'[Part(r)] = local[Part(r)]
  BY LineIs
<1>2. job.block \in Blocks /\ \A b \in Blocks : local'[Event(b)] = local[Event(b)]
  BY LineIs
<1>3. ASSUME NEW b \in Blocks, Recorded(b) PROVE Recorded(b)'
  <2>1. local'[Event(b)] # <<>>
    BY <1>2, <1>3 DEF Recorded
  <2>. QED BY <1>0, <1>3, <2>1, RecordedStays
<1>4. ASSUME NEW b, b = job.block PROVE Recorded(b)'
  BY <1>0, <1>4 DEF Recorded
<1>5. ASSUME NEW r \in Parts, r # p PROVE local'[Part(r)] = local[Part(r)]
  BY <1>1, <1>5
<1>6. ASSUME NEW r \in Parts
      PROVE  local[Part(r)] \in Seq(Blocks) /\ local'[Part(r)] \in Seq(Blocks)
  <2>1. local[Part(r)] \in Seq(Blocks)
    BY DEF IndexInv
  <2>2. Append(local[Part(p)], job.block) \in Seq(Blocks)
    BY <1>1, <1>2
  <2>. QED BY <1>1, <1>5, <2>1, <2>2
<1>7. ASSUME NEW r \in Parts, NEW i \in DOMAIN local'[Part(r)],
             NEW b, b = local'[Part(r)][i]
      PROVE  Recorded(b)'
  <2>1. \/ b = job.block
        \/ i \in DOMAIN local[Part(r)] /\ b = local[Part(r)][i]
    <3>1. CASE r = p
      BY <1>1, <1>2, <1>7, <3>1
    <3>2. CASE r # p
      BY <1>5, <1>7, <3>2
    <3>. QED BY <3>1, <3>2
  <2>2. ASSUME i \in DOMAIN local[Part(r)], b = local[Part(r)][i]
        PROVE  b \in Blocks /\ Recorded(b)
    BY <1>6, <2>2 DEF IndexInv
  <2>. QED BY <1>3, <1>4, <2>1, <2>2
<1>. QED BY <1>6, <1>7 DEF IndexInv

(* Each step keeps the store in order.                                   *)
LEMMA StepStore == StoreInv /\ [Next]_vars => StoreInv'
<1>. SUFFICES ASSUME StoreInv, [Next]_vars PROVE HeadInv' /\ IndexInv' /\ FilesInv'
  BY StepType DEF StoreInv
<1>. USE DEF StoreInv
<1>0. /\ saved.block \in Nat /\ queue.block \in Nat /\ saved.block <= queue.block
      /\ outage.maxBlock \in Nat
  BY BlocksOf DEF TypeOK
(* Who leaves the store alone, but for the snapshot or the manifest.       *)
<1>s. ASSUME GetsOn, saved' = saved,
             \A g \in Files \ {QueueName, Manifest} : local'[g] = local[g]
      PROVE  HeadInv' /\ IndexInv' /\ FilesInv'
  BY <1>0, <1>s, StoreStays
<1>f. ASSUME Calls \/ Raises
      PROVE  ~Busy' /\ saved'.block \in Nat /\ saved.block <= saved'.block
  BY <1>0, <1>f DEF Calls, Raises, IsQueue, Busy, AtWork
<1>1. CASE (Calls \/ Raises) /\ Still
  BY <1>1, <1>f, StoreStays DEF Still, storeVars, GetsOn
<1>2. CASE Taken
  BY <1>2, NewBlock
<1>3. CASE Moves
  <2>1. local' = local /\ saved' = saved
    BY <1>3 DEF Moves, Still, storeVars, queueVars
  <2>2. job'.block = job.block /\ job'.kind = job.kind /\ job'.clips = job.clips
    BY <1>3 DEF Moves, TypeOK
  <2>3. GetsOn
    BY <1>3, <2>2 DEF Moves, GetsOn, Busy, AtWork
  <2>. QED BY <1>s, <2>1, <2>3
<1>4. CASE Dies
  BY <1>4, <1>s DEF Dies, Goto, GetsOn, Busy, AtWork
<1>5. ASSUME NEW offer \in outage.offers, Added(offer)
      PROVE  HeadInv' /\ IndexInv' /\ FilesInv'
  <2>1. /\ UNCHANGED <<local, job, pc, ret>> /\ saved.block <= saved'.block
        /\ saved'.block \in Nat
    BY <1>0, <1>5 DEF Added, Still, storeVars, IsQueue
  <2>. QED BY <2>1, StoreStays DEF GetsOn, Busy
<1>6. CASE WriteManifest
  <2>1. \A g \in Files \ {Manifest} : local'[g] = local[g]
    BY <1>6, WriteIs, Names DEF WriteManifest
  <2>. QED BY <1>6, <1>s, <2>1 DEF WriteManifest, Goto, GetsOn, Busy, AtWork, queueVars
<1>7. CASE WriteFirstHead
  <2>0. saved' = saved /\ ~Busy' /\ pc' = "boot"
    BY <1>7 DEF WriteFirstHead, Goto, Busy, AtWork, queueVars
  <2>1. CASE local[HeadName] # <<>>
    BY <1>7, <1>s, <2>0, <2>1 DEF WriteFirstHead, GetsOn
  <2>2. CASE local[HeadName] = <<>>
    <3>1. /\ local'[HeadName] = <<0, 0, NoModel>>
          /\ \A g \in Files : g # HeadName => local'[g] = local[g]
      BY <1>7, <2>2, WriteIs, Names DEF WriteFirstHead
    <3>2. HeadInv'
      BY <1>0, <2>0, <3>1 DEF HeadInv
    <3>3. /\ \A p \in Parts : local'[Part(p)] = local[Part(p)]
          /\ \A b \in Blocks : local'[Event(b)] = local[Event(b)]
          /\ \A g \in Files : local[g] # <<>> => local'[g] # <<>>
      BY <3>1, Names, NamesDiffer, Tuples
    <3>4. IndexInv'
      <4>1. ASSUME NEW b \in Blocks, Recorded(b) PROVE Recorded(b)'
        BY <1>0, <2>0, <3>3, <4>1, RecordedStays DEF Recorded, Unwritten
      <4>. QED BY <3>3, <4>1, IndexStays
    <3>5. ASSUME NEW b \in Blocks, local'[Event(b)] # <<>> PROVE Evident(local', b)
      <4>1. Evident(local, b) /\ local'[Event(b)] = local[Event(b)]
        BY <3>3, <3>5 DEF FilesInv
      <4>2. \A clips : Stored(local, clips, b) => Stored(local', clips, b)
        BY <3>3, Names DEF Stored
      <4>. QED BY <4>1, <4>2 DEF Evident
    <3>. QED BY <2>0, <3>2, <3>4, <3>5 DEF FilesInv
  <2>. QED BY <2>1, <2>2
<1>8. CASE PublishQueue
  <2>1. GetsOn
    BY <1>8, PublishIs DEF GetsOn, Busy, AtWork
  <2>. QED BY <1>8, <1>s, <2>1, PublishIs
<1>9. CASE MirrorFiles
  BY <1>9, <1>s DEF MirrorFiles, Goto, GetsOn, Busy, AtWork, queueVars, storeVars
<1>10. CASE StoreClips
  <2>0. /\ Unwritten /\ Busy /\ Busy' /\ saved' = saved /\ pc \in {"demos", "evaluate"}
        /\ pc' = (IF pc = "demos" THEN "pushdemos" ELSE "pushclips")
    BY <1>10 DEF StoreClips, Goto, Unwritten, Busy, AtWork, queueVars
  <2>1. /\ job'.block = job.block /\ job'.kind = job.kind
        /\ job'.clips = job.clips \cup {Clip}
    BY <1>10 DEF StoreClips, TypeOK
  <2>2. PICK c : c # <<>> /\ Write(Clip, c)
    BY <1>10, Tuples DEF StoreClips
  <2>3. job.block \in Blocks /\ Clip \in {Demo, Media(job.block)} /\ Clip \in Files
    BY <2>0, JobBlock, Names DEF Clip
  <2>4. /\ HeadInv' /\ IndexInv'
        /\ \A b \in Blocks : \A clips : Stored(local, clips, b) => Stored(local', clips, b)
    BY <2>0, <2>1, <2>2, <2>3, OtherFile
  <2>5. /\ local'[Clip] # <<>>
        /\ \A b \in Blocks : local'[Event(b)] = local[Event(b)]
    BY <2>2, <2>3, WriteIs, Names, NamesDiffer
  <2>6. Stored(local', job'.clips, job'.block)
    <3>1. Stored(local', job.clips, job.block)
      BY <2>0, <2>3, <2>4 DEF FilesInv
    <3>. QED BY <2>1, <2>3, <2>5, <3>1 DEF Stored
  <2>7. pc' = "pushclips" => Media(job'.block) \in job'.clips
    BY <2>0, <2>1 DEF Clip
  <2>8. ASSUME NEW b \in Blocks, local'[Event(b)] # <<>> PROVE Evident(local', b)
    BY <2>4, <2>5, <2>8 DEF FilesInv, Evident
  <2>. QED BY <2>0, <2>4, <2>6, <2>7, <2>8 DEF FilesInv
<1>11. CASE PushClips
  BY <1>11, <1>s DEF PushClips, Goto, GetsOn, Busy, AtWork, queueVars, storeVars
<1>12. CASE WriteEvent
  <2>. DEFINE c == <<job.block, job.kind, job.clips>>
  <2>0. /\ Unwritten /\ Busy /\ pc = "event" /\ pc' = "line" /\ saved' = saved /\ job' = job
        /\ Write(Event(job.block), c)
    BY <1>12 DEF WriteEvent, Unwritten, Busy, AtWork, queueVars, Goto
  <2>1. c # <<>> /\ c[1] = job.block /\ c[2] = job.kind /\ c[3] = job.clips
    OBVIOUS
  <2>2. job.block \in Blocks
    BY <2>0, JobBlock
  <2>. HIDE DEF c
  <2>3. /\ HeadInv' /\ IndexInv'
        /\ \A b \in Blocks : \A clips : Stored(local, clips, b) => Stored(local', clips, b)
    BY <2>0, <2>1, OtherFile
  <2>4. /\ local'[Event(job.block)] = c
        /\ \A b \in Blocks : b # job.block => local'[Event(b)] = local[Event(b)]
    BY <2>0, <2>2, WriteIs, Names, NamesDiffer
  <2>5. Stored(local', job.clips, job.block)
    BY <2>0, <2>2, <2>3 DEF FilesInv
  <2>6. Evident(local', job.block)
    BY <2>0, <2>1, <2>4, <2>5 DEF Evident, FilesInv
  <2>7. ASSUME NEW b \in Blocks, local'[Event(b)] # <<>> PROVE Evident(local', b)
    <3>1. CASE b = job.block
      BY <2>6, <3>1
    <3>2. CASE b # job.block
      BY <2>3, <2>4, <2>7, <3>2 DEF FilesInv, Evident
    <3>. QED BY <3>1, <3>2
  <2>. QED BY <2>0, <2>1, <2>3, <2>4, <2>5, <2>7 DEF FilesInv
(* A line: of the record, or one whose fsync() raises.                     *)
<1>l. ASSUME pc = "line", ~Unwritten', saved'.block \in Nat, saved.block <= saved'.block,
             local' = [local EXCEPT ![PartOf(NextSeq)] =
                                        Append(local[PartOf(NextSeq)], job.block)],
             Busy' => pc' = "head" /\ job' = job
      PROVE  /\ IndexInv' /\ FilesInv'
             /\ local'[HeadName] # <<>> =>
                   /\ local'[HeadName][1] \in Nat /\ local'[HeadName][1] <= saved'.block
                   /\ local'[HeadName][1] < job.block
                   /\ local'[HeadName][2] # 0 =>
                         \E p \in Parts : Holds(local', p, local'[HeadName][2])
             /\ \E p \in Parts : Holds(local', p, job.block)
                                 /\ PartOf(NextSeq)' = Part(p)
  <2>0. Busy
    BY <1>l DEF Busy, AtWork
  <2>1. IndexInv'
    BY <1>l, LineStores
  <2>2. /\ local'[HeadName] = local[HeadName]
        /\ \A r \in Parts : \A b : Holds(local, r, b) => Holds(local', r, b)
        /\ \A b \in Blocks : local'[Event(b)] = local[Event(b)]
        /\ \A g \in Files : local[g] # <<>> => local'[g] # <<>>
        /\ \E p \in Parts : Holds(local', p, job.block) /\ PartOf(NextSeq) = Part(p)
        /\ job.block \in Blocks
    BY <1>l, LineIs
  <2>3. \A b \in Blocks : \A clips : Stored(local, clips, b) => Stored(local', clips, b)
    BY <2>2, Names DEF Stored
  <2>4. ASSUME NEW b \in Blocks, local'[Event(b)] # <<>> PROVE Evident(local', b)
    BY <2>2, <2>3, <2>4 DEF FilesInv, Evident
  <2>5. FilesInv'
    <3>1. Busy' => Stored(local', job'.clips, job'.block)
      BY <1>l, <2>0, <2>2, <2>3 DEF FilesInv
    <3>2. pc' \notin {"pushclips", "score", "event", "line"}
      BY <1>l DEF Busy, AtWork
    <3>. QED BY <2>4, <3>1, <3>2 DEF FilesInv
  <2>6. PartOf(NextSeq)' = PartOf(NextSeq)
    BY <2>2 DEF NextSeq, PartOf
  <2>7. ASSUME local'[HeadName] # <<>>
        PROVE  /\ local'[HeadName][1] \in Nat /\ local'[HeadName][1] <= saved'.block
               /\ local'[HeadName][1] < job.block
               /\ local'[HeadName][2] # 0 =>
                     \E p \in Parts : Holds(local', p, local'[HeadName][2])
    <3>1. /\ local[HeadName][1] \in Nat /\ local[HeadName][1] <= saved.block
          /\ local[HeadName][1] < job.block
          /\ local[HeadName][2] # 0 => \E p \in Parts : Holds(local, p, local[HeadName][2])
      BY <1>l, <2>0, <2>2, <2>7 DEF HeadInv
    <3>2. local[HeadName][1] <= saved'.block
      BY <1>0, <1>l, <3>1
    <3>3. local[HeadName][2] # 0 => \E p \in Parts : Holds(local', p, local[HeadName][2])
      BY <2>2, <3>1
    <3>. QED BY <2>2, <3>1, <3>2, <3>3
  <2>. QED BY <2>1, <2>2, <2>5, <2>6, <2>7
<1>13. CASE AppendLine
  <2>0. pc = "line" /\ pc' = "head" /\ ~Unwritten' /\ saved' = saved /\ job' = job
    BY <1>13 DEF AppendLine, Goto, Unwritten, queueVars
  <2>1. local' = [local EXCEPT ![PartOf(NextSeq)] =
                                   Append(local[PartOf(NextSeq)], job.block)]
    BY <1>13 DEF AppendLine, Write
  <2>2. /\ IndexInv' /\ FilesInv'
        /\ local'[HeadName] # <<>> =>
              /\ local'[HeadName][1] \in Nat /\ local'[HeadName][1] <= saved'.block
              /\ local'[HeadName][1] < job.block
              /\ local'[HeadName][2] # 0 =>
                    \E p \in Parts : Holds(local', p, local'[HeadName][2])
        /\ \E p \in Parts : Holds(local', p, job.block) /\ PartOf(NextSeq)' = Part(p)
    <3>1. saved'.block \in Nat /\ saved.block <= saved'.block
      BY <1>0, <2>0
    <3>. QED BY <1>l, <2>0, <2>1, <3>1
  <2>3. Holds(local', PartOf(NextSeq)'[2], job'.block)
    BY <2>0, <2>2 DEF Part
  <2>. QED BY <2>0, <2>2, <2>3 DEF HeadInv
<1>14. CASE (Calls \/ Raises) /\ SyncFails
  <2>0. pc = "line" /\ ~Busy' /\ ~Unwritten' /\ pc' # "head"
    BY <1>14, <1>f DEF SyncFails, Unwritten, Busy, AtWork
  <2>1. local' = [local EXCEPT ![PartOf(NextSeq)] =
                                   Append(local[PartOf(NextSeq)], job.block)]
    BY <1>14 DEF SyncFails
  <2>2. saved'.block \in Nat /\ saved.block <= saved'.block
    BY <1>14, <1>f
  <2>3. /\ IndexInv' /\ FilesInv'
        /\ local'[HeadName] # <<>> =>
              /\ local'[HeadName][1] \in Nat /\ local'[HeadName][1] <= saved'.block
              /\ local'[HeadName][2] # 0 =>
                    \E p \in Parts : Holds(local', p, local'[HeadName][2])
    BY <1>l, <2>0, <2>1, <2>2
  <2>. QED BY <2>0, <2>3 DEF HeadInv
<1>15. CASE WriteHead
  <2>0. pc = "head" /\ pc' = "finish" /\ Busy /\ saved' = saved /\ job' = job
    BY <1>15 DEF WriteHead, Goto, Busy, AtWork, queueVars
  <2>1. PICK k : Write(HeadName, <<NextSeq, job.block, k>>)
    BY <1>15 DEF WriteHead
  <2>2. /\ local'[HeadName] = <<NextSeq, job.block, k>>
        /\ \A p \in Parts : local'[Part(p)] = local[Part(p)]
        /\ \A b \in Blocks : local'[Event(b)] = local[Event(b)]
        /\ \A g \in Files : local[g] # <<>> => local'[g] # <<>>
    BY <2>1, WriteIs, Names, NamesDiffer, Tuples
  <2>3. HeadInv'
    <3>1. PICK p \in Parts : PartOf(NextSeq) = Part(p)
      BY <2>0, NextPart
    <3>2. Holds(local, p, job.block)
      BY <2>0, <3>1 DEF HeadInv, Part
    <3>3. Holds(local', p, job.block)
      BY <2>2, <3>2 DEF Holds
    <3>4. NextSeq \in Nat /\ NextSeq <= saved.block
      BY <1>0, <2>0, NextPart DEF TypeOK
    <3>5. local'[HeadName][1] = NextSeq /\ local'[HeadName][2] = job.block
      BY <2>2
    <3>. QED BY <2>0, <3>3, <3>4, <3>5 DEF HeadInv
  <2>4. IndexInv'
    <3>1. ASSUME NEW b \in Blocks, Recorded(b) PROVE Recorded(b)'
      <4>1. local'[Event(b)] # <<>>
        BY <2>2, <3>1 DEF Recorded
      <4>. QED BY <1>0, <2>0, <3>1, <4>1, RecordedStays DEF Unwritten
    <3>. QED BY <2>2, <3>1, IndexStays
  <2>5. \A b \in Blocks : \A clips : Stored(local, clips, b) => Stored(local', clips, b)
    BY <2>2, Names DEF Stored
  <2>6. ASSUME NEW b \in Blocks, local'[Event(b)] # <<>> PROVE Evident(local', b)
    BY <2>2, <2>5, <2>6 DEF FilesInv, Evident
  <2>7. Stored(local', job'.clips, job'.block)
    BY <2>0, <2>5, JobBlock DEF FilesInv
  <2>. QED BY <2>0, <2>3, <2>4, <2>6, <2>7 DEF FilesInv
<1>16. CASE Rebuild
  <2>1. /\ \A f \in Files : local'[f] = <<>>
        /\ ~Busy' /\ pc' = "off"
    BY <1>16, Names DEF Rebuild, Busy, AtWork
  <2>2. IndexInv'
    <3>1. \A p \in Parts : local'[Part(p)] = <<>>
      BY <2>1, Names
    <3>2. <<>> \in Seq(Blocks) /\ DOMAIN <<>> = {}
      OBVIOUS
    <3>. QED BY <3>1, <3>2 DEF IndexInv
  <2>3. HeadInv' /\ FilesInv'
    BY <2>1, Names DEF HeadInv, FilesInv
  <2>. QED BY <2>2, <2>3
<1>17. CASE PushAll \/ ReplaceAll
  BY <1>17, <1>s DEF PushAll, ReplaceAll, GetsOn, Busy, AtWork, queueVars
<1>18. CASE UNCHANGED vars
  BY <1>18, <1>s DEF vars, GetsOn, Busy
<1>. QED
  BY <1>1, <1>2, <1>3, <1>4, <1>5, <1>6, <1>7, <1>8, <1>9, <1>10, <1>11, <1>12,
     <1>13, <1>14, <1>15, <1>16, <1>17, <1>18, NextIs DEF StoreInv

(* A store begins in order.                                              *)
LEMMA InitStore == Init => StoreInv
<1>. SUFFICES ASSUME Init PROVE HeadInv /\ IndexInv /\ FilesInv
  BY InitType DEF StoreInv
<1>1. /\ \A f \in Files : local[f] = <<>>
      /\ pc = "off" /\ ~Busy
  BY Names DEF Init, Busy, AtWork
<1>2. HeadInv /\ FilesInv
  BY <1>1, Names DEF HeadInv, FilesInv
<1>3. \A p \in Parts : local[Part(p)] = <<>>
  BY <1>1, Names
<1>4. <<>> \in Seq(Blocks) /\ DOMAIN <<>> = {}
  OBVIOUS
<1>. QED BY <1>2, <1>3, <1>4 DEF IndexInv
-----------------------------------------------------------------------------
(* The throne changes with the head alone.                                 *)
LEMMA SameKing ==
    ASSUME local'[HeadName] = local[HeadName]
    PROVE  King' = King
BY DEF King

(* Each step keeps what is known of the king.                            *)
LEMMA StepKing == StoreInv /\ KingInv /\ [Next]_vars => KingInv'
<1>. SUFFICES ASSUME StoreInv, KingInv, [Next]_vars PROVE KingInv'
  OBVIOUS
<1>0. TypeOK
  BY DEF StoreInv
<1>. USE DEF KingInv
<1>1. ASSUME local'[HeadName] = local[HeadName], waived' = waived PROVE KingPasses'
  BY <1>1, SameKing DEF KingPasses, Dir
<1>2. ASSUME local'[HeadName] = local[HeadName], waived' = waived,
             Busy' /\ pc' # "finish" => /\ Busy /\ pc # "finish"
                                        /\ job'.kind = job.kind /\ job'.king = job.king,
             pc' \in Checked => /\ pc \in Checked
                                /\ job'.skip = job.skip /\ job'.model = job.model
      PROVE  KingInv'
  BY <1>1, <1>2, SameKing DEF Dir
<1>3. CASE (Calls \/ Raises) /\ Still
  BY <1>2, <1>3 DEF Calls, Raises, Still, storeVars, Busy, AtWork, Checked
<1>4. CASE Taken
  <2>1. local' = local /\ waived' = waived
    BY <1>4 DEF Taken, Still, storeVars
  <2>2. \/ /\ job' = Take("genesis")
           /\ pc' = IF Head(queue.entries)[2] THEN "event" ELSE "fetch"
        \/ job' = Take("duel") /\ King # NoModel /\ pc' = "publish"
    BY <1>4 DEF Taken
  <2>3. King' = King
    BY <2>1, SameKing
  <2>4. CASE job' = Take("genesis") /\ pc' = IF Head(queue.entries)[2] THEN "event" ELSE "fetch"
    <3>1. job'.kind = "genesis" /\ job'.skip = Head(queue.entries)[2]
      BY <2>4 DEF Take, NoJob
    <3>2. pc' \in Checked => job'.skip
      BY <2>4, <3>1 DEF Checked
    <3>. QED BY <1>1, <2>1, <3>1, <3>2
  <2>5. CASE job' = Take("duel") /\ King # NoModel /\ pc' = "publish"
    <3>1. job'.king = King
      BY <2>5 DEF Take, NoJob
    <3>. QED BY <1>1, <2>1, <2>3, <2>5, <3>1 DEF Checked
  <2>. QED BY <2>2, <2>4, <2>5
<1>5. CASE Moves
  <2>1. /\ local' = local /\ waived' = waived
        /\ job'.kind = job.kind /\ job'.king = job.king
        /\ job'.skip = job.skip /\ job'.model = job.model
    BY <1>0, <1>5 DEF Moves, TypeOK, Still, storeVars
  <2>2. Busy /\ pc # "finish" /\ pc' # "fetch" /\ pc' # "finish"
    BY <1>5 DEF Moves, Busy, AtWork
  <2>3. CASE pc = "check" /\ \A m \in Sides : Excused(m) \/ CheckSubmission(Dir(m)) = {}
    <3>1. job.model \in Sides
      BY DEF Sides
    <3>2. job.skip \/ CheckSubmission(Dir(job.model)) = {}
      BY <2>3, <3>1 DEF Excused
    <3>. QED BY <1>1, <2>1, <2>2, <3>2, SameKing DEF Dir
  <2>4. CASE pc # "check"
    BY <1>2, <1>5, <2>1, <2>2, <2>4 DEF Moves, Checked
  <2>. QED BY <1>5, <2>3, <2>4 DEF Moves
<1>6. CASE Dies
  BY <1>2, <1>6 DEF Dies, Goto, Busy, AtWork, Checked
<1>7. ASSUME NEW offer \in outage.offers, Added(offer) PROVE KingInv'
  BY <1>2, <1>7 DEF Added, Still, storeVars, Busy
<1>8. CASE WriteManifest
  BY <1>0, <1>2, <1>8, WriteIs, Names, NamesDiffer
  DEF WriteManifest, Goto, Busy, AtWork, Checked
<1>9. CASE WriteFirstHead
  <2>1. pc' = "boot" /\ waived' = waived
    BY <1>9 DEF WriteFirstHead, Goto
  <2>2. CASE local[HeadName] = <<>>
    <3>1. local'[HeadName] = <<0, 0, NoModel>>
      BY <1>0, <1>9, <2>2, WriteIs, Names DEF WriteFirstHead
    <3>2. King' = NoModel
      BY <3>1 DEF King
    <3>. QED BY <2>1, <3>2 DEF KingPasses, Busy, AtWork, Checked
  <2>3. CASE local[HeadName] # <<>>
    BY <1>2, <1>9, <2>1, <2>3 DEF WriteFirstHead, Busy, AtWork, Checked
  <2>. QED BY <2>2, <2>3
<1>10. CASE PublishQueue
  <2>1. local'[HeadName] = local[HeadName]
    BY <1>0, <1>10, PublishIs, Names, NamesDiffer
  <2>2. Busy' => Busy /\ pc # "finish" /\ job' = job
    BY <1>0, <1>10, PublishIs DEF Busy, AtWork
  <2>. QED BY <1>0, <1>2, <1>10, <2>1, <2>2, PublishIs DEF Checked
<1>11. CASE MirrorFiles
  BY <1>0, <1>2, <1>11
  DEF MirrorFiles, Goto, storeVars, Busy, AtWork, Checked
<1>12. CASE StoreClips
  <2>1. Busy /\ Busy' /\ pc' # "finish" /\ pc \in Checked /\ waived' = waived
    BY <1>12 DEF StoreClips, Goto, Busy, AtWork, Checked
  <2>2. Clip \in Files /\ Clip # HeadName
    BY <1>0, <2>1, Names, NamesDiffer, JobBlock DEF Clip
  <2>3. local'[HeadName] = local[HeadName]
    BY <1>0, <1>12, <2>2, WriteIs, Names DEF StoreClips
  <2>4. /\ job'.kind = job.kind /\ job'.king = job.king
        /\ job'.skip = job.skip /\ job'.model = job.model
    BY <1>0, <1>12 DEF StoreClips, TypeOK
  <2>. QED BY <1>2, <1>12, <2>1, <2>3, <2>4 DEF StoreClips
<1>13. CASE PushClips
  BY <1>2, <1>13 DEF PushClips, Goto, storeVars, Busy, AtWork, Checked
<1>14. CASE WriteEvent
  <2>1. Busy
    BY <1>14 DEF WriteEvent, Busy, AtWork
  <2>2. local'[HeadName] = local[HeadName]
    BY <1>0, <1>14, <2>1, WriteIs, Names, NamesDiffer, JobBlock DEF WriteEvent
  <2>. QED BY <1>2, <1>14, <2>1, <2>2 DEF WriteEvent, Goto, Checked
<1>15. CASE AppendLine \/ ((Calls \/ Raises) /\ SyncFails)
  <2>1. local'[HeadName] = local[HeadName]
    BY <1>15, LineIs DEF AppendLine, SyncFails, Write
  <2>2. CASE AppendLine
    BY <1>2, <2>1, <2>2 DEF AppendLine, Goto, Busy, AtWork, Checked
  <2>3. CASE (Calls \/ Raises) /\ SyncFails
    BY <1>2, <2>1, <2>3 DEF Calls, Raises, SyncFails, Busy, AtWork, Checked
  <2>. QED BY <1>15, <2>2, <2>3
<1>16. CASE WriteHead
  <2>. DEFINE crowned == job.kind = "genesis" \/ job.won
              king == IF crowned THEN job.model ELSE job.king
  <2>1. local'[HeadName] = <<NextSeq, job.block, king>>
    BY <1>0, <1>16, WriteIs, Names DEF WriteHead
  <2>2. King' = king
    BY <2>1 DEF King
  <2>3. pc = "head" /\ pc' = "finish" /\ Busy
    BY <1>16 DEF WriteHead, Goto, Busy, AtWork
  <2>4. CASE crowned
    <3>1. waived' = job.skip /\ King' = job.model
      BY <1>16, <2>2, <2>4 DEF WriteHead
    <3>2. job.skip \/ CheckSubmission(Dir(job.model)) = {}
      BY <2>3 DEF Checked
    <3>. QED BY <2>3, <3>1, <3>2 DEF KingPasses, Checked, Dir
  <2>5. CASE ~crowned
    <3>1. job.kind = "duel"
      BY <1>0, <2>3, <2>5 DEF TypeOK
    <3>2. waived' = waived /\ King' = King
      BY <1>16, <2>2, <2>3, <2>5, <3>1 DEF WriteHead
    <3>. QED BY <2>3, <3>2 DEF KingPasses, Checked, Dir
  <2>. QED BY <2>4, <2>5
<1>17. CASE Rebuild
  <2>1. King' = NoModel
    BY <1>17, Names DEF Rebuild, King
  <2>. QED BY <1>17, <2>1 DEF Rebuild, KingPasses, Busy, AtWork, Checked
<1>18. CASE PushAll \/ ReplaceAll
  BY <1>2, <1>18 DEF PushAll, ReplaceAll, Busy, AtWork, Checked
<1>19. CASE UNCHANGED vars
  BY <1>2, <1>19 DEF vars, Busy
<1>. QED
  BY <1>0, <1>3, <1>4, <1>5, <1>6, <1>7, <1>8, <1>9, <1>10, <1>11, <1>12, <1>13,
     <1>14, <1>15, <1>16, <1>17, <1>18, <1>19, NextIs

(* A king that the check has let onto the throne passes every later check. *)
THEOREM KingsPass == Spec => []KingPasses
<1>1. Init => KingInv
  <2>. SUFFICES ASSUME Init PROVE KingInv
    OBVIOUS
  <2>1. King = NoModel /\ pc = "off"
    BY Names DEF Init, King
  <2>. QED BY <2>1 DEF KingInv, KingPasses, Busy, AtWork, Checked
<1>2. KingInv => KingPasses
  BY DEF KingInv
<1>. QED BY <1>1, <1>2, InitStore, StepStore, StepKing, PTL DEF Spec
-----------------------------------------------------------------------------
(* Files are only added, but by the operator who rebuilds the store; and   *)
(* what changes is listed for a push, or unsynced.                         *)
Listed == touched \cup drained \cup unsynced

(* Without a rebuild the store only grows, and what changes is listed.     *)
LEMMA Grows ==
    ASSUME StoreInv, [Next]_vars, ~Rebuild
    PROVE  /\ \A f \in Files : local[f] # <<>> => local'[f] # <<>>
           /\ \A p \in Parts : \A b : Holds(local, p, b) => Holds(local', p, b)
           /\ \A f \in Files : local'[f] # local[f] => f \in Listed'
<1>. USE DEF StoreInv
<1>. DEFINE Goal == /\ \A f \in Files : local[f] # <<>> => local'[f] # <<>>
                    /\ \A p \in Parts : \A b : Holds(local, p, b) => Holds(local', p, b)
                    /\ \A f \in Files : local'[f] # local[f] => f \in Listed'
<1>1. ASSUME local' = local PROVE Goal
  BY <1>1
<1>2. CASE PublishQueue
  <2>1. /\ local'[QueueName] # <<>> /\ QueueName \in Listed'
        /\ \A g \in Files : g # QueueName => local'[g] = local[g]
    BY <1>2, PublishIs, Tuples DEF Snapshot, Listed
  <2>2. \A p \in Parts : local'[Part(p)] = local[Part(p)]
    BY <2>1, Names, NamesDiffer
  <2>. QED BY <2>1, <2>2 DEF Holds
<1>3. ASSUME NEW f \in Files, NEW c, c # <<>>, Write(f, c), \A p \in Parts : f # Part(p)
      PROVE  Goal
  <2>1. /\ local'[f] # <<>> /\ f \in Listed'
        /\ \A g \in Files : g # f => local'[g] = local[g]
    BY <1>3, WriteIs DEF Listed
  <2>2. \A p \in Parts : local'[Part(p)] = local[Part(p)]
    BY <1>3, <2>1, Names
  <2>. QED BY <2>1, <2>2 DEF Holds
<1>4. CASE WriteManifest
  BY <1>3, <1>4, Names, NamesDiffer, Tuples DEF WriteManifest
<1>5. CASE WriteFirstHead
  BY <1>1, <1>3, <1>5, Names, NamesDiffer, Tuples DEF WriteFirstHead
<1>6. CASE StoreClips
  <2>1. Clip \in Files /\ \A p \in Parts : Clip # Part(p)
    BY <1>6, JobBlock, Names, NamesDiffer DEF StoreClips, Clip, Busy, AtWork
  <2>2. PICK c : c # <<>> /\ Write(Clip, c)
    BY <1>6, Tuples DEF StoreClips
  <2>. QED BY <1>3, <2>1, <2>2
<1>7. CASE WriteEvent
  <2>1. job.block \in Blocks
    BY <1>7, JobBlock DEF WriteEvent, Busy, AtWork
  <2>2. Event(job.block) \in Files /\ \A p \in Parts : Event(job.block) # Part(p)
    BY <2>1, Names, NamesDiffer
  <2>3. PICK c : c # <<>> /\ Write(Event(job.block), c)
    BY <1>7, Tuples DEF WriteEvent
  <2>. QED BY <1>3, <2>2, <2>3
<1>8. CASE AppendLine \/ SyncFails
  <2>1. /\ pc = "line"
        /\ local' = [local EXCEPT ![PartOf(NextSeq)] =
                                      Append(local[PartOf(NextSeq)], job.block)]
        /\ PartOf(NextSeq) \in Listed'
    BY <1>8 DEF AppendLine, SyncFails, Write, Listed, mirrorVars
  <2>2. /\ \A f \in Files : local[f] # <<>> => local'[f] # <<>>
        /\ \A p \in Parts : \A b : Holds(local, p, b) => Holds(local', p, b)
        /\ \A f \in Files : f # PartOf(NextSeq) => local'[f] = local[f]
    BY <2>1, LineIs
  <2>. QED BY <2>1, <2>2
<1>9. CASE WriteHead
  BY <1>3, <1>9, Names, NamesDiffer, Tuples DEF WriteHead
<1>10. CASE Still \/ Taken \/ Moves \/ Dies \/ (\E offer \in outage.offers : Added(offer))
            \/ MirrorFiles \/ PushClips \/ PushAll \/ ReplaceAll \/ UNCHANGED vars
  <2>1. local' = local
    BY <1>10 DEF Still, Taken, Moves, Dies, Added, MirrorFiles, PushClips,
                 PushAll, ReplaceAll, vars, storeVars
  <2>. QED BY <1>1, <2>1
<1>. QED
  BY <1>2, <1>4, <1>5, <1>6, <1>7, <1>8, <1>9, <1>10, NextIs

(* A head that is covered stays so while it stays.                       *)
LEMMA CoversStays ==
    ASSUME StoreInv, [Next]_vars, ~Rebuild,
           NEW names, NEW more, Covers(local, names), names \subseteq more,
           HeadName \in more => HeadName \in names,
           local'[HeadName] = local[HeadName]
    PROVE  Covers(local', more)
BY Grows DEF Covers

(* Each step keeps head and record together.                             *)
LEMMA StepTouch == StoreInv /\ TouchInv /\ [Next]_vars => TouchInv'
<1>. SUFFICES ASSUME StoreInv, TouchInv, [Next]_vars PROVE TouchInv'
  OBVIOUS
<1>0. TypeOK
  BY DEF StoreInv
<1>. USE DEF TouchInv
<1>a. Covers(local', {})
  BY DEF Covers
<1>b. ~Rebuild \/ Rebuild
  OBVIOUS
(* Who leaves the files alone, and does not come to rest with a list.      *)
<1>1. ASSUME UNCHANGED <<local, touched, drained>>,
             pc # "push" /\ pc' # "push", pc' = "idle" => raised', pc' # "head"
      PROVE  TouchInv'
  BY <1>1 DEF Covers, Holds
(* Who writes another file than the head, and is at work then.             *)
<1>2. ASSUME NEW f \in Files, NEW c, Write(f, c), f # HeadName, ~Rebuild,
             pc \notin {"push", "idle"}, pc' \notin {"push", "idle", "head"},
             drained' = drained
      PROVE  TouchInv'
  <2>1. local'[HeadName] = local[HeadName] /\ touched' = touched \cup {f}
    BY <1>0, <1>2, WriteIs, Names
  <2>2. Covers(local', touched')
    BY <1>2, <2>1, CoversStays
  <2>. QED BY <1>a, <1>2, <2>1, <2>2
<1>3. CASE (Calls \/ Raises) /\ Still
  BY <1>1, <1>3 DEF Calls, Raises, Still, storeVars, mirrorVars, AtWork
<1>4. CASE Taken \/ Moves
  BY <1>1, <1>4 DEF Taken, Moves, Still, storeVars, mirrorVars
<1>5. CASE Dies
  BY <1>a, <1>5 DEF Dies, Goto
<1>6. ASSUME NEW offer \in outage.offers, Added(offer) PROVE TouchInv'
  <2>1. UNCHANGED <<local, touched, drained, pc, raised>>
    BY <1>6 DEF Added, Still, storeVars, mirrorVars
  <2>2. NextSeq' = NextSeq /\ PartOf(NextSeq)' = PartOf(NextSeq)
    BY <2>1 DEF NextSeq, PartOf
  <2>. QED BY <2>1, <2>2 DEF Covers, Holds
<1>7. CASE WriteManifest /\ ~Rebuild
  BY <1>2, <1>7, Names, NamesDiffer DEF WriteManifest, Goto, mirrorVars
<1>8. CASE WriteFirstHead
  <2>1. CASE local[HeadName] # <<>>
    BY <1>1, <1>8, <2>1 DEF WriteFirstHead, Goto, mirrorVars
  <2>2. CASE local[HeadName] = <<>>
    <3>1. local'[HeadName] = <<0, 0, NoModel>>
      BY <1>0, <1>8, <2>2, WriteIs, Names DEF WriteFirstHead
    <3>2. \A names : Covers(local', names)
      BY <3>1 DEF Covers
    <3>. QED BY <1>8, <3>2 DEF WriteFirstHead, Goto, mirrorVars
  <2>. QED BY <2>1, <2>2
<1>9. CASE PublishQueue /\ ~Rebuild
  <2>1. /\ local'[HeadName] = local[HeadName] /\ touched' = {}
        /\ drained' = touched \cup {QueueName} /\ pc' = "push"
    BY <1>0, <1>9, PublishIs, Names, NamesDiffer
  <2>2. Covers(local', drained')
    BY <1>9, <2>1, CoversStays, NamesDiffer
  <2>. QED BY <1>a, <2>1, <2>2
<1>10. CASE MirrorFiles
  <2>1. touched' = {} /\ drained' = {} /\ pc' # "head"
    BY <1>10 DEF MirrorFiles, Goto, storeVars
  <2>. QED BY <1>a, <2>1
<1>11. CASE StoreClips /\ ~Rebuild
  <2>1. Clip \in Files /\ Clip # HeadName
    BY <1>0, <1>11, JobBlock, Names, NamesDiffer DEF StoreClips, Clip, Busy, AtWork
  <2>2. /\ pc \notin {"push", "idle"} /\ pc' \notin {"push", "idle", "head"}
        /\ drained' = drained
    BY <1>11 DEF StoreClips, Goto, mirrorVars
  <2>. QED BY <1>2, <1>11, <2>1, <2>2 DEF StoreClips
<1>12. CASE PushClips
  BY <1>1, <1>12 DEF PushClips, Goto, storeVars
<1>13. CASE WriteEvent /\ ~Rebuild
  <2>1. job.block \in Blocks
    BY <1>0, <1>13, JobBlock DEF WriteEvent, Busy, AtWork
  <2>. QED BY <1>2, <1>13, <2>1, Names, NamesDiffer DEF WriteEvent, Goto, mirrorVars
<1>14. CASE (AppendLine \/ ((Calls \/ Raises) /\ SyncFails)) /\ ~Rebuild
  <2>1. PICK p \in Parts : PartOf(NextSeq) = Part(p)
    BY <1>14, NextPart DEF AppendLine, SyncFails, StoreInv
  <2>2. local'[HeadName] = local[HeadName] /\ PartOf(NextSeq)' = PartOf(NextSeq)
    <3>1. local'[HeadName] = local[HeadName]
      BY <1>14, LineIs DEF AppendLine, SyncFails, Write
    <3>. QED BY <3>1 DEF PartOf, NextSeq
  <2>3. /\ touched \subseteq touched' /\ (HeadName \in touched' => HeadName \in touched)
        /\ drained' = drained /\ pc = "line"
        /\ pc' = "head" => PartOf(NextSeq) \in touched'
        /\ pc' # "push" /\ (pc' = "idle" => raised')
    BY <1>14, <2>1, NamesDiffer
    DEF AppendLine, SyncFails, Write, Goto, mirrorVars, Calls, Raises
  <2>4. Covers(local', touched') /\ Covers(local', drained')
    BY <1>a, <1>14, <2>2, <2>3, CoversStays
  <2>. QED BY <2>2, <2>3, <2>4
<1>15. CASE WriteHead /\ ~Rebuild
  <2>1. /\ pc = "head" /\ pc' = "finish" /\ drained' = drained
    BY <1>15 DEF WriteHead, Goto, mirrorVars
  <2>2. PICK p \in Parts : PartOf(NextSeq) = Part(p)
    BY <2>1, NextPart DEF StoreInv
  <2>3. Part(p) \in touched /\ Holds(local, p, job.block)
    BY <2>1, <2>2 DEF StoreInv, HeadInv, Part
  <2>4. PICK k : local'[HeadName] = <<NextSeq, job.block, k>> /\ touched' = touched \cup {HeadName}
    BY <1>0, <1>15, WriteIs, Names DEF WriteHead
  <2>5. Holds(local', p, job.block)
    BY <1>15, <2>3, Grows
  <2>6. Covers(local', touched')
    BY <2>3, <2>4, <2>5 DEF Covers
  <2>. QED BY <1>a, <2>1, <2>6
<1>16. CASE Rebuild
  <2>1. local'[HeadName] = <<>> /\ pc' = "off" /\ pc = "off" /\ UNCHANGED <<touched, drained>>
    BY <1>16, Names DEF Rebuild
  <2>. QED BY <2>1 DEF Covers
<1>17. CASE PushAll \/ ReplaceAll
  BY <1>1, <1>17 DEF PushAll, ReplaceAll
<1>18. CASE UNCHANGED vars
  <2>1. NextSeq' = NextSeq /\ PartOf(NextSeq)' = PartOf(NextSeq)
    BY <1>18 DEF vars, NextSeq, PartOf
  <2>. QED BY <1>18, <2>1 DEF vars, Covers, Holds
<1>. QED
  BY <1>0, <1>b, <1>3, <1>4, <1>5, <1>6, <1>7, <1>8, <1>9, <1>10, <1>11, <1>12,
     <1>13, <1>14, <1>15, <1>16, <1>17, <1>18, NextIs
-----------------------------------------------------------------------------
Equal == \A f \in Files \ {Card} : remote[f] = local[f]
Served ==
    /\ \A f \in Files \ {Card} : remote[f] = local[f] \/ f \in unsynced
    /\ \A p \in Parts : \A i \in DOMAIN remote[Part(p)] :
          Holds(local, p, remote[Part(p)][i])

(* The mirror has the evidence of its records where it has all that the    *)
(* store has, but for lines that it lacks.                                 *)
LEMMA ServedHas == StoreInv /\ Served => Evidenced
<1>. SUFFICES ASSUME StoreInv, Served, NEW p \in Parts, NEW i \in DOMAIN remote[Part(p)],
                     NEW b, b = remote[Part(p)][i]
              PROVE  b \in Blocks /\ remote[Event(b)] # <<>> /\ Evident(remote, b)
  BY DEF Evidenced
<1>1. b \in Blocks /\ Recorded(b)
  <2>1. PICK j \in DOMAIN local[Part(p)] : local[Part(p)][j] = b
    BY DEF Served, Holds
  <2>2. local[Part(p)] \in Seq(Blocks)
    BY DEF StoreInv, IndexInv
  <2>. QED BY <2>1, <2>2 DEF StoreInv, IndexInv
<1>2. /\ remote[Event(b)] = local[Event(b)]
      /\ remote[Demo] = local[Demo] /\ remote[Media(b)] = local[Media(b)]
  <2>1. unsynced \subseteq {Part(q) : q \in Parts}
    BY DEF StoreInv, TypeOK
  <2>2. /\ Event(b) \notin unsynced /\ Event(b) \in Files \ {Card}
        /\ Demo \notin unsynced /\ Demo \in Files \ {Card}
        /\ Media(b) \notin unsynced /\ Media(b) \in Files \ {Card}
    BY <1>1, <2>1, Names, NamesDiffer
  <2>. QED BY <2>2 DEF Served
<1>3. local[Event(b)] # <<>> /\ Evident(local, b)
  BY <1>1 DEF Recorded, StoreInv, FilesInv
<1>. QED BY <1>1, <1>2, <1>3 DEF Evident, Stored

(* A mirror that serves so now does so in the next state.                  *)
LEMMA ServedHasNext == StoreInv' /\ Served' => Evidenced'
BY ServedHas, PTL

(* A mirror that is the store has all that the store has.                  *)
LEMMA EqualServes == StoreInv /\ Equal => ReaderInv
<1>. SUFFICES ASSUME StoreInv, Equal PROVE ReaderInv
  OBVIOUS
<1>1. /\ remote[HeadName] = local[HeadName]
      /\ \A p \in Parts : remote[Part(p)] = local[Part(p)]
  BY Names, NamesDiffer DEF Equal
<1>2. Behind /\ Pushed
  BY <1>1 DEF Behind, Pushed, Equal, Holds
<1>3. HeadNotAhead
  BY <1>1 DEF HeadNotAhead, StoreInv, HeadInv, Holds
<1>4. Served
  BY <1>1 DEF Served, Equal, Holds
<1>. QED BY <1>2, <1>3, <1>4, ServedHas DEF ReaderInv

(* A mirror that equals the store serves a reader.                       *)
LEMMA EqualServesNext == StoreInv' /\ Equal' => ReaderInv'
BY EqualServes, PTL

(* What is not mirrored any more leaves the mirror behind.                 *)
LEMMA RemoteStays ==
    ASSUME StoreInv, ReaderInv, [Next]_vars, ~Rebuild, remote' = remote,
           harm' # "mixed" => harm # "mixed",
           harm' = "none" => harm = "none" /\ Listed \subseteq Listed'
    PROVE  ReaderInv'
<1>1. Behind'
  BY Grows DEF ReaderInv, Behind
<1>2. Pushed'
  <2>. SUFFICES ASSUME harm' = "none", NEW f \in Files \ {Card}
                PROVE  remote'[f] = local'[f] \/ f \in Listed'
    BY DEF Pushed, Listed
  <2>1. remote[f] = local[f] \/ f \in Listed
    BY DEF ReaderInv, Pushed, Listed
  <2>. QED BY <2>1, Grows
<1>3. HeadNotAhead'
  BY DEF ReaderInv, HeadNotAhead
<1>4. Evidenced'
  BY DEF ReaderInv, Evidenced
<1>. QED BY <1>1, <1>2, <1>3, <1>4 DEF ReaderInv

(* Nor is a head ever pushed that the mirror has no record for.            *)
LEMMA PushCovers ==
    ASSUME StoreInv, TouchInv, HeadNotAhead, Behind, harm # "mixed", Push(drained)
    PROVE  remote'[HeadName] # <<>> /\ remote'[HeadName][2] # 0 =>
               \E p \in Parts : Holds(remote', p, remote'[HeadName][2])
<1>. SUFFICES ASSUME remote'[HeadName] # <<>>, remote'[HeadName][2] # 0
              PROVE  \E p \in Parts : Holds(remote', p, remote'[HeadName][2])
  OBVIOUS
<1>0. \A f \in Files : remote'[f] = IF f \in drained /\ local[f] # <<>>
                                    THEN local[f] ELSE remote[f]
  BY PushIs
<1>1. CASE HeadName \in drained /\ local[HeadName] # <<>>
  <2>1. remote'[HeadName] = local[HeadName]
    BY <1>0, <1>1, Names
  <2>2. PICK p \in Parts : Part(p) \in drained /\ Holds(local, p, local[HeadName][2])
    BY <1>1, <2>1 DEF TouchInv, Covers
  <2>3. local[Part(p)] # <<>>
    BY <2>2, Tuples DEF Holds
  <2>4. remote'[Part(p)] = local[Part(p)]
    BY <1>0, <2>2, <2>3, Names
  <2>. QED BY <2>1, <2>2, <2>4 DEF Holds
<1>2. CASE ~(HeadName \in drained /\ local[HeadName] # <<>>)
  <2>1. remote'[HeadName] = remote[HeadName]
    BY <1>0, <1>2, Names
  <2>2. PICK p \in Parts : Holds(remote, p, remote[HeadName][2])
    BY <2>1 DEF HeadNotAhead, Holds
  <2>3. Holds(local, p, remote[HeadName][2])
    BY <2>2 DEF Behind, Holds
  <2>4. remote'[Part(p)] = local[Part(p)] \/ remote'[Part(p)] = remote[Part(p)]
    BY <1>0, Names
  <2>. QED BY <2>1, <2>2, <2>3, <2>4 DEF Holds
<1>. QED BY <1>1, <1>2

(* No step leaves the mirror with a head and no record, or with a record   *)
(* and no evidence.                                                        *)
LEMMA StepReader ==
    StoreInv /\ TouchInv /\ ReaderInv /\ StoreInv' /\ [Next]_vars => ReaderInv'
<1>. SUFFICES ASSUME StoreInv, TouchInv, ReaderInv, StoreInv', [Next]_vars
              PROVE  ReaderInv'
  OBVIOUS
<1>0. TypeOK
  BY DEF StoreInv
<1>1. ASSUME harm' = "mixed" PROVE ReaderInv'
  BY <1>1 DEF ReaderInv, Behind, Pushed, HeadNotAhead, Evidenced
<1>2. CASE Rebuild
  BY <1>1, <1>2 DEF Rebuild
(* Who leaves the mirror, and adds to the lists.                           *)
<1>3. ASSUME ~Rebuild, UNCHANGED <<remote, harm>>, touched \subseteq touched',
             drained' = drained, unsynced \subseteq touched' \cup unsynced'
      PROVE  ReaderInv'
  <2>1. Listed \subseteq Listed'
    BY <1>3 DEF Listed
  <2>. QED BY <1>3, <2>1, RemoteStays
<1>4. CASE Still /\ ~Rebuild
  BY <1>3, <1>4 DEF Still, storeVars, mirrorVars
<1>5. CASE (Taken \/ Moves \/ \E offer \in outage.offers : Added(offer)) /\ ~Rebuild
  BY <1>4, <1>5 DEF Taken, Moves, Added
<1>6. CASE Dies /\ ~Rebuild
  <2>1. harm' # "none" /\ (harm' # "mixed" => harm # "mixed") /\ remote' = remote
    BY <1>6 DEF Dies, Lacking
  <2>. QED BY <1>6, <2>1, RemoteStays
<1>7. CASE (WriteManifest \/ StoreClips \/ WriteEvent \/ AppendLine \/ WriteHead) /\ ~Rebuild
  BY <1>3, <1>7 DEF WriteManifest, StoreClips, WriteEvent, AppendLine, WriteHead,
                    Write, mirrorVars
<1>8. CASE WriteFirstHead /\ ~Rebuild
  BY <1>3, <1>8 DEF WriteFirstHead, Write, mirrorVars
<1>9. CASE SyncFails /\ ~Rebuild
  BY <1>3, <1>9 DEF SyncFails, mirrorVars
<1>10. CASE PublishQueue /\ ~Rebuild
  <2>1. Listed \subseteq Listed' /\ UNCHANGED <<remote, harm>>
    BY <1>0, <1>10, PublishIs DEF TouchInv, Listed
  <2>. QED BY <1>10, <2>1, RemoteStays
<1>11. CASE MirrorFiles /\ ~Rebuild
  <2>0. /\ pc = "push" /\ touched = {} /\ touched' = {} /\ drained' = {}
        /\ UNCHANGED <<local, unsynced>>
    BY <1>11 DEF MirrorFiles, TouchInv, storeVars
  <2>1. CASE remote' = remote /\ harm' = Lacking
    <3>1. harm' # "none" /\ (harm' # "mixed" => harm # "mixed")
      BY <2>1 DEF Lacking
    <3>. QED BY <1>11, <2>1, <3>1, RemoteStays
  <2>2. CASE Push(drained) /\ harm' = harm /\ harm # "mixed"
    <3>1. \A f \in Files : remote'[f] = IF f \in drained /\ local[f] # <<>>
                                        THEN local[f] ELSE remote[f]
      BY <2>2, PushIs
    <3>2. Behind'
      BY <2>0, <2>2, <3>1, Names, NamesDiffer DEF ReaderInv, Behind, Holds
    <3>3. HeadNotAhead'
      BY <2>2, PushCovers DEF ReaderInv, HeadNotAhead, Holds
    <3>4. ASSUME harm = "none"
          PROVE  \A f \in Files \ {Card} : remote'[f] = local'[f] \/ f \in unsynced'
      BY <2>0, <3>1, <3>4 DEF ReaderInv, Pushed, Behind
    <3>5. Pushed'
      BY <2>2, <3>4 DEF Pushed
    <3>6. Evidenced'
      <4>1. CASE harm = "none"
        <5>1. Served'
          BY <2>2, <3>2, <3>4, <4>1 DEF Served, Behind
        <5>. QED BY <5>1, ServedHasNext
      <4>2. CASE harm # "none"
        BY <2>2, <4>2 DEF Evidenced
      <4>. QED BY <4>1, <4>2
    <3>. QED BY <3>2, <3>3, <3>5, <3>6 DEF ReaderInv
  <2>3. CASE harm' = harm /\ harm = "mixed"
    BY <1>1, <2>3
  <2>. QED BY <1>11, <2>1, <2>2, <2>3 DEF MirrorFiles
<1>12. CASE PushClips /\ ~Rebuild
  <2>0. UNCHANGED <<local, touched, drained, unsynced, harm>>
    BY <1>12 DEF PushClips, storeVars
  <2>1. CASE remote' = remote
    BY <1>3, <1>12, <2>0, <2>1
  <2>2. ASSUME NEW g \in {Demo, Media(job.block)}, Push({g}) PROVE ReaderInv'
    <3>1. \A f \in Files : remote'[f] = IF f = g /\ local[f] # <<>>
                                        THEN local[f] ELSE remote[f]
      BY <2>2, PushIs
    <3>2. /\ \A p \in Parts : remote'[Part(p)] = remote[Part(p)]
          /\ remote'[HeadName] = remote[HeadName]
          /\ \A b \in Blocks : remote'[Event(b)] = remote[Event(b)]
          /\ \A f \in Files : remote[f] # <<>> => remote'[f] # <<>>
      BY <3>1, Names, NamesDiffer
    <3>3. Behind'
      BY <2>0, <3>1, <3>2 DEF ReaderInv, Behind, Holds
    <3>4. Pushed'
      BY <2>0, <3>1 DEF ReaderInv, Pushed
    <3>5. HeadNotAhead'
      BY <2>0, <3>2 DEF ReaderInv, HeadNotAhead
    <3>6. Evidenced'
      <4>. SUFFICES ASSUME harm = "none", NEW p \in Parts, NEW i \in DOMAIN remote[Part(p)],
                           NEW b, b = remote[Part(p)][i]
                    PROVE  b \in Blocks /\ remote'[Event(b)] # <<>> /\ Evident(remote', b)
        BY <2>0, <3>2 DEF Evidenced
      <4>1. b \in Blocks /\ remote[Event(b)] # <<>> /\ Evident(remote, b)
        BY DEF ReaderInv, Evidenced
      <4>. QED BY <3>2, <4>1, Names DEF Evident, Stored
    <3>. QED BY <3>3, <3>4, <3>5, <3>6 DEF ReaderInv
  <2>. QED BY <1>12, <2>1, <2>2 DEF PushClips
<1>13. CASE PushAll
  <2>1. local' = local /\ \A f \in Files : remote'[f] = IF f \in Held /\ local[f] # <<>>
                                                       THEN local[f] ELSE remote[f]
    BY <1>13, PushIs DEF PushAll
  <2>2. CASE Stale = {}
    <3>1. ASSUME NEW f \in Files \ {Card} PROVE remote'[f] = local'[f]
      BY <2>1, <2>2 DEF Stale, Held
    <3>. QED BY <3>1, EqualServesNext DEF Equal
  <2>3. CASE Stale # {}
    <3>1. harm' = harm /\ harm = "mixed"
      BY <1>13, <2>3 DEF PushAll, Stale, Held, ReaderInv, Behind
    <3>. QED BY <1>1, <3>1
  <2>. QED BY <2>2, <2>3
<1>14. CASE ReplaceAll
  <2>1. ASSUME NEW f \in Files \ {Card} PROVE remote'[f] = local'[f]
    BY <1>14 DEF ReplaceAll, Stale, Held
  <2>. QED BY <2>1, EqualServesNext DEF Equal
<1>15. CASE UNCHANGED vars
  <2>1. Behind' /\ Pushed' /\ HeadNotAhead' /\ Evidenced'
    BY <1>15 DEF vars, ReaderInv, Behind, Pushed, HeadNotAhead, Evidenced, Holds
  <2>. QED BY <2>1 DEF ReaderInv
<1>. QED
  BY <1>0, <1>2, <1>4, <1>5, <1>6, <1>7, <1>8, <1>9, <1>10, <1>11, <1>12,
     <1>13, <1>14, <1>15, NextIs

(* A mirror begins as the store does.                                    *)
LEMMA InitReader == Init => TouchInv /\ ReaderInv
<1>. SUFFICES ASSUME Init PROVE TouchInv /\ ReaderInv
  OBVIOUS
<1>1. /\ \A f \in Files \ {Card} : remote[f] = local[f]
      /\ local[HeadName] = <<>>
      /\ pc = "off" /\ touched = {} /\ drained = {}
  BY Names, NamesDiffer DEF Init
<1>2. TouchInv
  BY <1>1 DEF TouchInv, Covers
<1>3. ReaderInv
  BY <1>1, InitStore, EqualServes DEF Equal
<1>. QED BY <1>2, <1>3

(* So a reader of the mirror is always served.                           *)
LEMMA ReaderHolds == Spec => [](StoreInv /\ TouchInv /\ ReaderInv)
<1>. DEFINE Inv == StoreInv /\ TouchInv /\ ReaderInv
<1>1. Init => Inv
  BY InitStore, InitReader
<1>2. Inv /\ [Next]_vars => Inv'
  BY StepStore, StepTouch, StepReader
<1>. QED BY <1>1, <1>2, PTL DEF Spec

(* The head that a reader of the mirror finds names a record that the      *)
(* mirror's index has, whatever commits and writes fail and wherever the   *)
(* daemon dies.                                                            *)
THEOREM HeadNeverAhead == Spec => []HeadNotAhead
BY ReaderHolds, PTL DEF ReaderInv

(* Until a push is lost, and again after the operator's, each record on    *)
(* the mirror has its event there, each event of a duel refers to the      *)
(* clips of its sides, and each clip it refers to is on the mirror too, at *)
(* any time and whatever writes fail.                                      *)
THEOREM EvidenceMirrored == Spec => []MirrorEvidence
<1>1. ReaderInv => MirrorEvidence
  BY DEF ReaderInv, Evidenced, Evident, Stored, MirrorEvidence
<1>. QED BY <1>1, ReaderHolds, PTL

(* Until a push is lost, and again after the operator's, what the mirror   *)
(* lacks is to be pushed, but for lines whose fsync() raised; and nothing  *)
(* is to be pushed whenever the daemon is idle after a step that published *)
(* the queue.                                                              *)
THEOREM MirrorIsStore == Spec => []MirrorCurrent
<1>1. TouchInv /\ ReaderInv => MirrorCurrent
  BY DEF TouchInv, ReaderInv, Pushed, MirrorCurrent
<1>. QED BY <1>1, ReaderHolds, PTL
-----------------------------------------------------------------------------
(* The snapshot of a publication: no entry but of keys that are queued.    *)
ShownKeys ==
    \A i \in DOMAIN local[QueueName][4] : \E j \in DOMAIN queue.entries :
        queue.entries[j][1] = local[QueueName][4][i][1]

(* A duel in progress, in the queue or in its snapshot, is the one in hand *)
(* unless nobody is at it or a step raised; the rest is the queue's while  *)
(* the daemon rests after a step that published.                           *)
QueueInv ==
    /\ queue.running # 0 /\ ~cutShort =>
          Busy /\ job.kind = "duel" /\ job.block = queue.running
    /\ pc = "publish" /\ ret = "fetch" =>
          job.kind = "duel" /\ job.block = queue.running
    /\ local[QueueName] # <<>> =>
          /\ local[QueueName][3] # 0 /\ ~cutShort /\ ~raised =>
                /\ Busy \/ pc = "publish"
                /\ job.kind = "duel" /\ job.block = local[QueueName][3]
          /\ pc \in {"idle", "push"} /\ ~raised =>
                /\ local[QueueName][1] = queue.block
                /\ local[QueueName][2] = King
                /\ ShownKeys

SnapshotInv == StoreInv /\ QueueInv

(* A publication shows the queue as it is.                                 *)
LEMMA PublishShows ==
    ASSUME TypeOK, PublishQueue
    PROVE  /\ local'[QueueName][1] = queue'.block
           /\ local'[QueueName][2] = King'
           /\ local'[QueueName][3] = queue'.running
           /\ ShownKeys'
           /\ cutShort' = (cutShort /\ ret # "fetch" /\ queue.running # 0)
<1>1. local'[QueueName] = <<queue.block, King, queue.running, queue.entries>>
      /\ queue' = queue
  BY PublishIs DEF Snapshot
<1>2. King' = King
  BY PublishIs, Names, NamesDiffer, SameKing
<1>3. local'[QueueName][4] = queue'.entries
  BY <1>1
<1>4. cutShort' = (cutShort /\ ret # "fetch" /\ queue.running # 0)
  BY DEF PublishQueue, WriteSnapshot
<1>. QED BY <1>1, <1>2, <1>3, <1>4 DEF ShownKeys

(* Each step keeps what is known of the queue and of its snapshot.         *)
LEMMA StepQueue == SnapshotInv /\ [Next]_vars => QueueInv'
<1>. SUFFICES ASSUME SnapshotInv, [Next]_vars PROVE QueueInv'
  OBVIOUS
<1>0. TypeOK /\ QueueInv /\ StoreInv
  BY DEF SnapshotInv, StoreInv
<1>. HIDE DEF SnapshotInv
(* Who leaves the queue and its snapshot alone, and is at the same job.    *)
<1>1. ASSUME local'[QueueName] = local[QueueName],
             UNCHANGED <<queue, raised, cutShort>>, pc # "publish",
             pc' \notin {"idle", "push", "publish"},
             Busy => Busy' /\ job'.kind = job.kind /\ job'.block = job.block
      PROVE  QueueInv'
  BY <1>0, <1>1 DEF QueueInv
<1>2. ASSUME NEW f \in Files, NEW c, Write(f, c), f # QueueName,
             UNCHANGED <<queue, raised, cutShort>>, pc # "publish",
             pc' \notin {"idle", "push", "publish"},
             Busy => Busy' /\ job'.kind = job.kind /\ job'.block = job.block
      PROVE  QueueInv'
  <2>1. local'[QueueName] = local[QueueName]
    BY <1>0, <1>2, WriteIs, Names
  <2>. QED BY <1>1, <1>2, <2>1
(* Whose step is over: the queue is published next, or it has raised.      *)
<1>3. ASSUME Calls, local'[QueueName] = local[QueueName] PROVE QueueInv'
  <2>1. /\ pc' = "publish" /\ ret' # "fetch" /\ job' = job
        /\ UNCHANGED <<raised, cutShort>> /\ pc # "publish"
    BY <1>3 DEF Calls
  <2>2. ~(queue'.running # 0 /\ ~cutShort')
    BY <1>0, <1>3 DEF Calls, QueueInv
  <2>. QED BY <1>0, <1>3, <2>1, <2>2 DEF QueueInv
<1>4. ASSUME Raises PROVE QueueInv'
  BY <1>4 DEF Raises, QueueInv
<1>5. CASE (Calls \/ Raises) /\ Still
  BY <1>3, <1>4, <1>5 DEF Still, storeVars
<1>6. CASE (Calls \/ Raises) /\ SyncFails
  <2>1. /\ pc = "line"
        /\ local' = [local EXCEPT ![PartOf(NextSeq)] =
                                      Append(local[PartOf(NextSeq)], job.block)]
    BY <1>6 DEF SyncFails
  <2>2. PartOf(NextSeq) # QueueName
    BY NamesDiffer DEF PartOf
  <2>3. local'[QueueName] = local[QueueName]
    BY <1>0, <2>1, <2>2, Names DEF TypeOK
  <2>. QED BY <1>3, <1>4, <1>6, <2>3
<1>7. CASE Taken
  <2>1. /\ ~Busy /\ pc = "idle" /\ local' = local /\ UNCHANGED <<raised, cutShort>>
        /\ pc' \notin {"idle", "push"}
    BY <1>7 DEF Taken, Still, storeVars, Busy, AtWork
  <2>2. local[QueueName] # <<>> =>
            ~(local[QueueName][3] # 0 /\ ~cutShort /\ ~raised)
    BY <1>0, <2>1 DEF QueueInv
  <2>3. ~(queue.running # 0 /\ ~cutShort)
    BY <1>0, <2>1 DEF QueueInv
  <2>4. CASE queue'.running = queue.running /\ pc' # "publish"
    BY <2>1, <2>2, <2>3, <2>4 DEF QueueInv
  <2>5. CASE /\ job' = Take("duel") /\ queue'.running = queue'.block
             /\ pc' = "publish" /\ ret' = "fetch"
    <3>1. job'.kind = "duel" /\ job'.block = queue'.running
      BY <1>7, <2>5 DEF Taken, Take, NoJob
    <3>2. Busy'
      BY <2>5 DEF Busy
    <3>. QED BY <2>1, <2>2, <3>1, <3>2 DEF QueueInv
  <2>. QED BY <1>7, <2>4, <2>5 DEF Taken
<1>8. CASE Moves
  <2>1. /\ local' = local /\ UNCHANGED <<queue, raised, cutShort>>
        /\ pc # "publish" /\ pc' \notin {"idle", "push", "publish"}
        /\ job'.kind = job.kind /\ job'.block = job.block /\ Busy'
    BY <1>0, <1>8 DEF Moves, TypeOK, Still, storeVars, queueVars, Busy, AtWork
  <2>. QED BY <1>1, <2>1
<1>9. CASE Dies
  <2>1. /\ raised' = TRUE /\ cutShort' = (queue'.running # 0) /\ pc' = "off"
    BY <1>9 DEF Dies, Goto
  <2>. QED BY <2>1 DEF QueueInv
<1>10. ASSUME NEW offer \in outage.offers, Added(offer) PROVE QueueInv'
  <2>1. UNCHANGED <<local, raised, cutShort, pc, ret, job>>
    BY <1>10 DEF Added, Still, storeVars
  <2>2. /\ queue'.block = queue.block /\ queue'.running = queue.running
        /\ \A j \in DOMAIN queue.entries : \E k \in DOMAIN queue'.entries :
              queue'.entries[k][1] = queue.entries[j][1]
    BY <1>10 DEF Added
  <2>3. King' = King /\ Busy' = Busy
    BY <2>1, SameKing DEF Busy
  <2>4. ShownKeys => ShownKeys'
    <3>. SUFFICES ASSUME ShownKeys, NEW i \in DOMAIN local[QueueName][4]
                  PROVE  \E k \in DOMAIN queue'.entries :
                             queue'.entries[k][1] = local[QueueName][4][i][1]
      BY <2>1 DEF ShownKeys
    <3>1. PICK j \in DOMAIN queue.entries :
              queue.entries[j][1] = local[QueueName][4][i][1]
      BY DEF ShownKeys
    <3>. QED BY <2>2, <3>1
  <2>. QED BY <1>0, <2>1, <2>2, <2>3, <2>4 DEF QueueInv
<1>11. CASE PublishQueue
  <2>1. /\ pc = "publish" /\ pc' = "push" /\ ret' = ret /\ queue' = queue
        /\ job' = IF ret = "fetch" THEN job ELSE NoJob
    BY <1>0, <1>11, PublishIs
  <2>2. /\ local'[QueueName][1] = queue'.block /\ local'[QueueName][2] = King'
        /\ local'[QueueName][3] = queue'.running /\ ShownKeys'
        /\ cutShort' = (cutShort /\ ret # "fetch" /\ queue.running # 0)
    BY <1>0, <1>11, PublishShows
  <2>3. ret # "fetch" => ~Busy
    BY <2>1 DEF Busy, AtWork
  <2>4. ret = "fetch" => Busy' /\ job.kind = "duel" /\ job.block = queue.running
    BY <1>0, <2>1 DEF Busy, QueueInv
  <2>5. queue'.running # 0 /\ ~cutShort' =>
            Busy' /\ job'.kind = "duel" /\ job'.block = queue'.running
    BY <1>0, <2>1, <2>2, <2>3, <2>4 DEF QueueInv
  <2>. QED BY <2>1, <2>2, <2>5 DEF QueueInv
<1>12. CASE MirrorFiles
  <2>1. /\ pc = "push" /\ pc' = IF ret = "fetch" THEN "fetch" ELSE "idle"
        /\ UNCHANGED <<local, queue, job, raised, cutShort>>
    BY <1>12 DEF MirrorFiles, Goto, queueVars, storeVars
  <2>2. (Busy => Busy') /\ King' = King
    BY <2>1, SameKing DEF Busy, AtWork
  <2>. QED BY <1>0, <2>1, <2>2 DEF QueueInv, ShownKeys
<1>13. CASE WriteManifest
  <2>1. ~Busy
    BY <1>13 DEF WriteManifest, Busy, AtWork
  <2>. QED BY <1>2, <1>13, <2>1, Names, NamesDiffer DEF WriteManifest, Goto, queueVars
<1>14. CASE WriteFirstHead
  <2>1. /\ ~Busy /\ pc = "init" /\ pc' = "boot" /\ UNCHANGED <<queue, raised, cutShort>>
    BY <1>14 DEF WriteFirstHead, Goto, Busy, AtWork, queueVars
  <2>2. CASE local[HeadName] = <<>>
    BY <1>2, <1>14, <2>1, <2>2, Names, NamesDiffer DEF WriteFirstHead
  <2>3. CASE local[HeadName] # <<>>
    BY <1>1, <1>14, <2>1, <2>3 DEF WriteFirstHead
  <2>. QED BY <2>2, <2>3
<1>15. CASE StoreClips
  <2>1. Clip \in Files /\ Clip # QueueName
    BY <1>0, <1>15, JobBlock, Names, NamesDiffer DEF StoreClips, Clip, Busy, AtWork
  <2>2. /\ pc # "publish" /\ pc' \notin {"idle", "push", "publish"} /\ Busy'
        /\ UNCHANGED <<queue, raised, cutShort>>
        /\ job'.kind = job.kind /\ job'.block = job.block
    BY <1>0, <1>15 DEF StoreClips, Goto, Busy, AtWork, queueVars, TypeOK
  <2>. QED BY <1>2, <1>15, <2>1, <2>2 DEF StoreClips
<1>16. CASE PushClips
  BY <1>1, <1>16 DEF PushClips, Goto, Busy, AtWork, queueVars, storeVars
<1>17. CASE WriteEvent
  <2>1. Event(job.block) \in Files /\ Event(job.block) # QueueName
    BY <1>0, <1>17, JobBlock, Names, NamesDiffer DEF WriteEvent, Busy, AtWork
  <2>2. /\ pc # "publish" /\ pc' \notin {"idle", "push", "publish"} /\ Busy'
        /\ UNCHANGED <<queue, job, raised, cutShort>>
    BY <1>17 DEF WriteEvent, Goto, Busy, AtWork, queueVars
  <2>. QED BY <1>2, <1>17, <2>1, <2>2 DEF WriteEvent
<1>18. CASE AppendLine
  <2>1. PartOf(NextSeq) \in Files /\ PartOf(NextSeq) # QueueName
    BY <1>0, <1>18, NextPart, Names, NamesDiffer DEF AppendLine, StoreInv
  <2>2. /\ pc # "publish" /\ pc' \notin {"idle", "push", "publish"} /\ Busy'
        /\ UNCHANGED <<queue, job, raised, cutShort>>
    BY <1>18 DEF AppendLine, Goto, Busy, AtWork, queueVars
  <2>. QED BY <1>2, <1>18, <2>1, <2>2 DEF AppendLine
<1>19. CASE WriteHead
  <2>1. PICK c : Write(HeadName, c)
    BY <1>19 DEF WriteHead
  <2>2. /\ pc # "publish" /\ pc' \notin {"idle", "push", "publish"} /\ Busy'
        /\ UNCHANGED <<queue, job, raised, cutShort>>
    BY <1>19 DEF WriteHead, Goto, Busy, AtWork, queueVars
  <2>. QED BY <1>2, <2>1, <2>2, Names, NamesDiffer
<1>20. CASE Rebuild
  <2>1. /\ local' = Empty /\ pc = "off" /\ pc' = "off"
        /\ UNCHANGED <<queue, ret, job, raised, cutShort>>
    BY <1>20 DEF Rebuild, queueVars
  <2>2. local'[QueueName] = <<>> /\ ~Busy
    BY <2>1, Names DEF Busy, AtWork
  <2>. QED BY <1>0, <2>1, <2>2 DEF QueueInv
<1>21. CASE PushAll \/ ReplaceAll
  <2>1. /\ ~Busy /\ pc = "off" /\ pc' = "off" /\ UNCHANGED <<local, queue, raised, cutShort>>
    BY <1>21 DEF PushAll, ReplaceAll, Busy, AtWork, queueVars
  <2>. QED BY <1>1, <2>1
<1>22. CASE UNCHANGED vars
  <2>1. Busy' = Busy /\ King' = King
    BY <1>22, SameKing DEF vars, Busy
  <2>. QED BY <1>0, <1>22, <2>1 DEF vars, QueueInv, ShownKeys
<1>. QED
  BY <1>0, <1>5, <1>6, <1>7, <1>8, <1>9, <1>10, <1>11, <1>12, <1>13, <1>14, <1>15,
     <1>16, <1>17, <1>18, <1>19, <1>20, <1>21, <1>22, NextIs

(* The published queue tells the truth whenever the daemon is idle after a *)
(* step that did not raise, whatever was submitted meanwhile: king, block  *)
(* and entries are the queue's.  And a duel is shown in progress only      *)
(* while the daemon is at it, unless the daemon died in it or a step       *)
(* raised, where no publication mends it: a save of the queue or           *)
(* write_queue() on a full disk (daemon.py, step(), publish_queue()).      *)
THEOREM SnapshotHolds == Spec => []SnapshotTrue
<1>1. Init => SnapshotInv
  <2>. SUFFICES ASSUME Init PROVE SnapshotInv
    OBVIOUS
  <2>1. local[QueueName] = <<>>
    BY Names DEF Init
  <2>2. queue.running = 0 /\ pc = "off"
    BY DEF Init
  <2>. QED BY <2>1, <2>2, InitStore DEF SnapshotInv, QueueInv
<1>2. SnapshotInv => SnapshotTrue
  BY DEF SnapshotInv, QueueInv, SnapshotTrue, ShownKeys, Busy, AtWork
<1>3. SnapshotInv /\ [Next]_vars => SnapshotInv'
  BY StepStore, StepQueue DEF SnapshotInv
<1>. QED BY <1>1, <1>2, <1>3, PTL DEF Spec
=============================================================================
