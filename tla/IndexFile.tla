----------------------------- MODULE IndexFile -----------------------------
(***************************************************************************)
(* The parts of the index as files (store/writer.py append(), iter_index() *)
(* and store/verify.py).  A line is the canonical record, a tab, its       *)
(* signature and a newline, appended by one os.write() whose result nobody *)
(* looks at: on a full disk, or when the writer dies, only its beginning   *)
(* is there, and the next line of the part is glued to it.                 *)
(*                                                                         *)
(* One writer; ResultStore has the protocol of several with whole lines.   *)
(***************************************************************************)
EXTENDS Naturals, Sequences, SequencesExt, FiniteSets

CONSTANTS LinesPerPart,  \* spec.store.index_lines_per_part
          MaxAppends     \* bound: how many lines are written

ASSUME PartsAssumption == LinesPerPart \in Nat \ {0} /\ MaxAppends \in Nat

VARIABLES
    parts,      \* what append() wrote into each part, in order
    head,       \* the record that head.json names
    appending   \* TRUE between the line and the head

vars == <<parts, head, appending>>

(* What a line is cut off before, "none" when it is whole.                 *)
Cuts == {"body", "tab", "signature", "newline", "none"}

Fragments == FlattenSeq(parts)

PartOf(seq) == (seq - 1) \div LinesPerPart
----------------------------------------------------------------------------
Init ==
    /\ parts = <<>>
    /\ head = [seq |-> 0, event |-> 0]
    /\ appending = FALSE

(* The part of the next record is created when it is opened.               *)
Opened ==
    IF PartOf(head.seq + 1) < Len(parts) THEN parts ELSE Append(parts, <<>>)

(* append(): the number comes from the head.                               *)
AppendLine ==
    /\ ~appending /\ Len(Fragments) < MaxAppends
    /\ \E c \in Cuts :
          parts' = [Opened EXCEPT ![PartOf(head.seq + 1) + 1] =
                      Append(@, [seq |-> head.seq + 1,
                                 event |-> Len(Fragments) + 1, cut |-> c])]
    /\ appending' = TRUE
    /\ UNCHANGED head

(* No byte could be written: os.write() raises.                            *)
WriteRaises ==
    /\ ~appending /\ Len(Fragments) < MaxAppends
    /\ parts' = Opened
    /\ UNCHANGED <<head, appending>>

(* The head advances to the record, however much of its line was written.  *)
WriteHead ==
    /\ appending
    /\ head' = [seq |-> head.seq + 1, event |-> Len(Fragments)]
    /\ appending' = FALSE
    /\ UNCHANGED parts

(* The writer dies, or fsync() raises, before the head is written.         *)
Stops ==
    /\ appending
    /\ appending' = FALSE
    /\ UNCHANGED <<parts, head>>

Next == AppendLine \/ WriteRaises \/ WriteHead \/ Stops

Spec == Init /\ [][Next]_vars
----------------------------------------------------------------------------
(* Readers.  A line of the file begins where a whole one ends.             *)
Begins(p, i) == i = 1 \/ p[i - 1].cut = "none"
BodyOnly(p, i) == p[i].cut \in {"body", "tab"}

(* Mutant: the part is given up at a line that does not parse. *)
ParsesSoFar(p, i) ==
    \A j \in 1..i : Begins(p, j) /\ BodyOnly(p, j) =>
                       p[j].cut = "tab" /\ j = Len(p)

(* json.loads() of what is before the first tab: the whole body, and       *)
(* nothing glued to it.                                                    *)
Parses(p, i) == BodyOnly(p, i) => p[i].cut = "tab" /\ i = Len(p)

Fields(p, taken) ==
    LET upto[i \in 0..Len(p)] ==
            IF i = 0 THEN <<>>
            ELSE IF i \in taken THEN Append(upto[i - 1], p[i])
            ELSE upto[i - 1]
    IN  upto[Len(p)]

(* list.sort() with the numbers for keys leaves equal ones in their order. *)
Rank(s, i) == Cardinality({j \in DOMAIN s :
                  s[j].seq < s[i].seq \/ (s[j].seq = s[i].seq /\ j <= i)})
BySeq(s) == [k \in DOMAIN s |-> s[CHOOSE i \in DOMAIN s : Rank(s, i) = k]]

(* iter_index() passes over the lines that do not parse.                   *)
Read(p) == Fields(p, {i \in DOMAIN p : Begins(p, i) /\ Parses(p, i)})
Index == BySeq(FlattenSeq([p \in DOMAIN parts |-> Read(parts[p])]))

(* verify_store(): a line without a tab or a body that parses is an error, *)
(* the others are records.                                                 *)
Tabbed(p) == Fields(p, {i \in DOMAIN p : Begins(p, i) /\ ~BodyOnly(p, i)})
Records == FlattenSeq([p \in DOMAIN parts |-> Tabbed(parts[p])])

Places == UNION {{p} \X DOMAIN parts[p] : p \in DOMAIN parts}
Unread == {at \in Places : LET p == parts[at[1]] i == at[2]
                           IN  Begins(p, i) /\ BodyOnly(p, i)}

(* Mutant: signatures are not looked at. *)
UnsignedNever == {}

(* The rest of the line is the signature.                                  *)
Unsigned ==
    {at \in Places :
        LET p == parts[at[1]] i == at[2]
        IN  /\ Begins(p, i)
            /\ \/ p[i].cut = "signature"
               \/ p[i].cut = "newline" /\ i < Len(p)}

OutOfSequence ==
    {i \in DOMAIN Records :
        Records[i].seq # IF i = 1 THEN 1 ELSE Records[i - 1].seq + 1}

HeadError ==
    IF Records = <<>> THEN head.seq # 0
    ELSE LET last == Records[Len(Records)]
         IN  last.seq # head.seq \/ last.event # head.event

Clean == Unread = {} /\ Unsigned = {} /\ OutOfSequence = {} /\ ~HeadError
----------------------------------------------------------------------------
(* "A concurrent reader sees at most one torn final line": what the code   *)
(* gives is that a torn line costs no record but its own and the one that  *)
(* was appended next to the same part, and that what is read is in order.  *)
TornCostsTwo ==
    /\ \A p \in DOMAIN parts : \A i \in DOMAIN parts[p] :
          \/ parts[p][i] \in ToSet(Index)
          \/ \E j \in {i - 1, i} \cap DOMAIN parts[p] :
                parts[p][j].cut # "none"
    /\ \A i, j \in DOMAIN Index : i < j => Index[i].event < Index[j].event

(* A record that the head has claimed.                                     *)
Claimed == {f \in ToSet(Fragments) :
              /\ f.seq <= head.seq
              /\ \A g \in ToSet(Fragments) : g.seq = f.seq => g.event <= f.event}

(* A record that was published and is not in the index any more does not   *)
(* go unnoticed: from then on the verifier finds an error, whatever is     *)
(* appended later.  Of a store in which nothing went wrong it reports      *)
(* nothing.                                                                *)
LossReported ==
    /\ ~(Claimed \subseteq ToSet(Index)) => ~Clean
    /\ (~appending /\ \A f \in ToSet(Fragments) : f \in Claimed /\ f.cut = "none")
          => Clean
=============================================================================
