---------------------------- MODULE StoreVerifier ----------------------------
(***************************************************************************)
(* What `icilval store verify` reports of a store (store/verify.py) at any *)
(* moment of ResultStore.  Lines are whole and signed, so what is left are *)
(* the numbers, the event files, the clips and the head.                   *)
(***************************************************************************)
EXTENDS ResultStore

CONSTANT LinesPerPart   \* spec.store.index_lines_per_part

ASSUME LinesPerPartAssumption == LinesPerPart \in Nat \ {0}

(* A line is appended to the part that its number names.                   *)
PartOf(seq) == (seq - 1) \div LinesPerPart
Part(p) ==
    LET upto[i \in 0..Len(index)] ==
            IF i = 0 THEN <<>>
            ELSE IF PartOf(index[i].seq) = p THEN Append(upto[i - 1], index[i])
            ELSE upto[i - 1]
    IN  upto[Len(index)]

(* The parts are read in order, up to the first that does not exist.       *)
Present == {p \in 0..Len(index) : \A q \in 0..p : Part(q) # <<>>}
Lines ==
    LET before[p \in 0..Len(index)] ==
            IF p = 0 THEN <<>>
            ELSE IF p - 1 \in Present THEN before[p - 1] \o Part(p - 1)
            ELSE before[p - 1]
    IN  before[Len(index)]

(* Mutant: a line's number is expected to be its position. *)
ExpectedByPosition(i) == i

(* After a line that is out of sequence the count goes on from its number. *)
Expected(i) == IF i = 1 THEN 1 ELSE Lines[i - 1].seq + 1

SeqErrors == {i \in DOMAIN Lines : Lines[i].seq # Expected(i)}

EventsOf(r) == {e \in events : e.id = EventId(r)}
EvidenceErrors ==
    {i \in DOMAIN Lines :
        \/ EventsOf(Lines[i]) = {}
        \/ \E e \in EventsOf(Lines[i]) : e.dethroned # Lines[i].dethroned
        \/ Lines[i].kind = "duel" /\ EventId(Lines[i]) \notin media}

HeadError ==
    \/ head = NoHead
    \/ IF Lines = <<>> THEN HeadSeq # 0
       ELSE LET last == Lines[Len(Lines)]
            IN  HeadSeq # last.seq \/ head.event # EventId(last)
----------------------------------------------------------------------------
(* A record that was appended and is not reached by the head, or was       *)
(* overtaken by a later one with its number.                               *)
Orphans == {i \in DOMAIN index : ~LastOfSeq(i) \/ index[i].seq > HeadSeq}

(* For a lone daemon the verifier reports each publication that stopped    *)
(* between its line and its head exactly once, at the line that repeats    *)
(* the number or at the head: never more for it and never anything else.   *)
VerifierCounts ==
    manifest /\ head # NoHead =>
        /\ EvidenceErrors = {}
        /\ Cardinality(SeqErrors) + (IF HeadError THEN 1 ELSE 0)
              = Cardinality(Orphans)
=============================================================================
