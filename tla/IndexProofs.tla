----------------------------- MODULE IndexProofs -----------------------------
(***************************************************************************)
(* What torn lines cost and what the verifier says of them, for parts of   *)
(* any length and any number of lines.  The index and what the verifier    *)
(* reads are fields of the parts, joined: first what these operators give, *)
(* then the numbers of the lines.                                          *)
(***************************************************************************)
EXTENDS IndexFile, FiniteSetTheorems, SequenceTheorems, NaturalsInduction,
        WellFoundedInduction, TLAPS

Fragment == [seq : Nat \ {0}, event : Nat \ {0}, cut : Cuts]

(* A set of naturals has a least element. *)
LEMMA LeastOf ==
    ASSUME NEW S, S \subseteq Nat, S # {}
    PROVE  \E m \in S : \A k \in S : ~(k < m)
<1>. DEFINE R == OpToRel(<, Nat)
<1>1. IsWellFoundedOn(R, Nat)
  BY NatLessThanWellFounded
<1>2. PICK m \in S : \A k \in S : ~(<<k, m>> \in R)
  <2>. HIDE DEF R
  <2>. QED BY <1>1, WFMin
<1>3. \A k \in S : k < m => <<k, m>> \in R
  BY DEF OpToRel
<1>. QED BY <1>2, <1>3

(* A set of numbers that no number begins is empty: induction up to n. *)
LEMMA NoneBad ==
    ASSUME NEW n \in Nat, NEW bad, bad \subseteq 0..n, 0 \notin bad,
           \A i \in 1..n : i - 1 \notin bad => i \notin bad
    PROVE  bad = {}
<1>. SUFFICES ASSUME bad # {} PROVE FALSE
  OBVIOUS
<1>0. bad \subseteq Nat
  OBVIOUS
<1>1. PICK m \in bad : \A k \in bad : ~(k < m)
  BY <1>0, LeastOf
<1>2. m \in 1..n /\ m - 1 < m
  OBVIOUS
<1>. QED BY <1>1, <1>2

(* One number more of what a step extends: induction over all numbers. *)
LEMMA NoneMissing ==
    ASSUME NEW bad, bad \subseteq Nat, 0 \notin bad,
           \A k \in Nat : k \notin bad => k + 1 \notin bad
    PROVE  bad = {}
<1>. SUFFICES ASSUME bad # {} PROVE FALSE
  OBVIOUS
<1>1. PICK m \in bad : \A k \in bad : ~(k < m)
  BY LeastOf
<1>2. m \in Nat /\ m # 0
  OBVIOUS
<1>3. m - 1 \in Nat /\ m - 1 < m /\ (m - 1) + 1 = m
  BY <1>2
<1>. QED BY <1>1, <1>3
-----------------------------------------------------------------------------
(* What Fields has taken of the first i lines, from what g has of fewer.   *)
FieldAt(g, p, taken, i) ==
    IF i = 0 THEN <<>>
    ELSE IF i \in taken THEN Append(g[i - 1], p[i])
    ELSE g[i - 1]
Grown(g, p, taken, n) == g = [i \in 0..n |-> FieldAt(g, p, taken, i)]

(* What was taken of n lines can be continued to one line more. *)
LEMMA GrownLonger ==
    ASSUME NEW p, NEW taken, NEW n \in Nat, \E g : Grown(g, p, taken, n)
    PROVE  \E g : Grown(g, p, taken, n + 1)
<1>1. PICK g : Grown(g, p, taken, n)
  OBVIOUS
<1>. DEFINE h == [i \in 0..(n + 1) |->
                    IF i = n + 1 THEN FieldAt(g, p, taken, i) ELSE g[i]]
<1>2. ASSUME NEW i \in 0..(n + 1) PROVE h[i] = FieldAt(h, p, taken, i)
  <2>1. i = 0 \/ (i - 1 \in 0..n /\ i - 1 \in 0..(n + 1) /\ i - 1 # n + 1)
    OBVIOUS
  <2>2. i # 0 => h[i - 1] = g[i - 1]
    BY <2>1
  <2>3. i # n + 1 => i \in 0..n /\ h[i] = g[i]
    OBVIOUS
  <2>4. i # n + 1 => g[i] = FieldAt(g, p, taken, i)
    BY <1>1, <2>3, Zenon DEF Grown
  <2>5. h[i] = FieldAt(g, p, taken, i)
    BY <2>3, <2>4
  <2>. HIDE DEF h
  <2>. QED BY <2>2, <2>5 DEF FieldAt
<1>3. h = [i \in 0..(n + 1) |-> h[i]]
  OBVIOUS
<1>. HIDE DEF h
<1>4. Grown(h, p, taken, n + 1)
  BY <1>2, <1>3, Zenon DEF Grown
<1>. QED BY <1>4

(* The function that Fields chooses exists. *)
LEMMA GrownExists ==
    ASSUME NEW p, NEW taken, NEW n \in Nat
    PROVE  \E g : Grown(g, p, taken, n)
<1>. DEFINE bad == {k \in Nat : ~\E g : Grown(g, p, taken, k)}
<1>1. 0 \notin bad
  <2>. DEFINE h == [i \in 0..0 |-> <<>>]
  <2>1. \A i \in 0..0 : FieldAt(h, p, taken, i) = <<>>
    BY DEF FieldAt
  <2>2. Grown(h, p, taken, 0)
    BY <2>1 DEF Grown
  <2>. HIDE DEF h
  <2>. QED BY <2>2
<1>2. \A k \in Nat : k \notin bad => k + 1 \notin bad
  BY GrownLonger
<1>3. bad \subseteq Nat
  OBVIOUS
<1>4. bad = {}
  <2>. HIDE DEF bad
  <2>. QED BY <1>1, <1>2, <1>3, NoneMissing
<1>. QED BY <1>4

(* The fields of a part are the last of a series that takes line by line.  *)
LEMMA FieldsAre ==
    ASSUME NEW S, NEW p \in Seq(S), NEW taken
    PROVE  \E F : /\ Fields(p, taken) = F[Len(p)]
                  /\ F[0] = <<>>
                  /\ \A i \in 1..Len(p) :
                        F[i] = IF i \in taken THEN Append(F[i - 1], p[i]) ELSE F[i - 1]
<1>. DEFINE F == CHOOSE g : Grown(g, p, taken, Len(p))
<1>1. Len(p) \in Nat
  OBVIOUS
<1>2. Grown(F, p, taken, Len(p))
  BY <1>1, GrownExists
<1>3. Fields(p, taken) = F[Len(p)]
  BY Zenon DEF Fields, Grown, FieldAt
<1>. HIDE DEF F
<1>4. \A i \in 0..Len(p) : F[i] = FieldAt(F, p, taken, i)
  BY <1>2, Zenon DEF Grown
<1>5. F[0] = <<>>
  BY <1>1, <1>4 DEF FieldAt
<1>6. \A i \in 1..Len(p) :
         F[i] = IF i \in taken THEN Append(F[i - 1], p[i]) ELSE F[i - 1]
  BY <1>1, <1>4 DEF FieldAt
<1>. QED BY <1>3, <1>5, <1>6

(* f has lines of p in their order, and all those that are taken.          *)
InOrder(f, p, taken) ==
    /\ \A a \in DOMAIN p : a \in taken => \E k \in DOMAIN f : f[k] = p[a]
    /\ \A k \in DOMAIN f : \E a \in DOMAIN p : f[k] = p[a]
    /\ \A k, l \in DOMAIN f : k < l =>
          \E a, b \in DOMAIN p : a < b /\ f[k] = p[a] /\ f[l] = p[b]

(* The fields are lines of the part in their order, those that are taken.  *)
LEMMA FieldsInOrder ==
    ASSUME NEW S, NEW p \in Seq(S), NEW taken
    PROVE  Fields(p, taken) \in Seq(S) /\ InOrder(Fields(p, taken), p, taken)
<1>1. PICK F : /\ Fields(p, taken) = F[Len(p)]
               /\ F[0] = <<>>
               /\ \A i \in 1..Len(p) :
                     F[i] = IF i \in taken THEN Append(F[i - 1], p[i]) ELSE F[i - 1]
  BY FieldsAre
<1>2. Len(p) \in Nat /\ DOMAIN p = 1..Len(p) /\ \A j \in 1..Len(p) : p[j] \in S
  OBVIOUS
<1>. DEFINE Fine(i) ==
       /\ F[i] \in Seq(S)
       /\ \A a \in 1..i : a \in taken => \E k \in 1..Len(F[i]) : F[i][k] = p[a]
       /\ \A k \in 1..Len(F[i]) : \E a \in 1..i : F[i][k] = p[a]
       /\ \A k, l \in 1..Len(F[i]) : k < l =>
             \E a, b \in 1..i : a < b /\ F[i][k] = p[a] /\ F[i][l] = p[b]
            bad == {i \in 0..Len(p) : ~Fine(i)}
<1>3. Fine(0)
  BY <1>1
<1>4. ASSUME NEW i \in 1..Len(p), Fine(i - 1) PROVE Fine(i)
  <2>1. i \in Nat /\ p[i] \in S /\ \A a \in 1..i : a = i \/ a \in 1..(i - 1)
    BY <1>2
  <2>2. \A a \in 1..(i - 1) : a \in 1..i /\ a < i
    BY <2>1
  <2>3. i \in 1..i
    BY <2>1
  <2>. DEFINE f == F[i - 1]
              g == F[i]
  <2>4. /\ f \in Seq(S)
        /\ \A a \in 1..(i - 1) : a \in taken => \E k \in 1..Len(f) : f[k] = p[a]
        /\ \A k \in 1..Len(f) : \E a \in 1..(i - 1) : f[k] = p[a]
        /\ \A k, l \in 1..Len(f) : k < l =>
              \E a, b \in 1..(i - 1) : a < b /\ f[k] = p[a] /\ f[l] = p[b]
    BY <1>4
  <2>5. CASE i \notin taken
    <3>1. g = f
      BY <1>1, <2>5
    <3>. HIDE DEF f, g
    <3>2. \A k \in 1..Len(f) : \E a \in 1..i : f[k] = p[a]
      BY <2>2, <2>4
    <3>3. \A k, l \in 1..Len(f) : k < l =>
              \E a, b \in 1..i : a < b /\ f[k] = p[a] /\ f[l] = p[b]
      BY <2>2, <2>4
    <3>4. \A a \in 1..i : a \in taken => \E k \in 1..Len(f) : f[k] = p[a]
      BY <2>1, <2>4, <2>5
    <3>. USE DEF g
    <3>. QED BY <2>4, <3>1, <3>2, <3>3, <3>4
  <2>6. CASE i \in taken
    <3>1. g = Append(f, p[i])
      BY <1>1, <2>6
    <3>. HIDE DEF f, g
    <3>2. /\ g \in Seq(S) /\ Len(f) \in Nat /\ Len(g) = Len(f) + 1
          /\ g[Len(f) + 1] = p[i] /\ \A k \in 1..Len(f) : g[k] = f[k]
      BY <2>1, <2>4, <3>1
    <3>3. /\ \A k \in 1..Len(g) : k = Len(f) + 1 \/ k \in 1..Len(f)
          /\ Len(f) + 1 \in 1..Len(g) /\ 1..Len(f) \subseteq 1..Len(g)
      BY <3>2
    <3>4. ASSUME NEW a \in 1..i, a \in taken PROVE \E k \in 1..Len(g) : g[k] = p[a]
      <4>1. CASE a = i
        BY <3>2, <3>3, <4>1
      <4>2. CASE a \in 1..(i - 1)
        <5>1. PICK k \in 1..Len(f) : f[k] = p[a]
          BY <2>4, <3>4, <4>2
        <5>. QED BY <3>2, <3>3, <5>1
      <4>. QED BY <2>1, <4>1, <4>2
    <3>5. ASSUME NEW k \in 1..Len(g) PROVE \E a \in 1..i : g[k] = p[a]
      <4>1. CASE k = Len(f) + 1
        BY <2>3, <3>2, <4>1
      <4>2. CASE k \in 1..Len(f)
        <5>1. PICK a \in 1..(i - 1) : f[k] = p[a]
          BY <2>4, <4>2
        <5>. QED BY <2>2, <3>2, <4>2, <5>1
      <4>. QED BY <3>3, <4>1, <4>2
    <3>6. ASSUME NEW k \in 1..Len(g), NEW l \in 1..Len(g), k < l
          PROVE  \E a, b \in 1..i : a < b /\ g[k] = p[a] /\ g[l] = p[b]
      <4>1. k \in 1..Len(f)
        BY <3>2, <3>6
      <4>2. CASE l = Len(f) + 1
        <5>1. PICK a \in 1..(i - 1) : f[k] = p[a]
          BY <2>4, <4>1
        <5>2. a \in 1..i /\ a < i /\ g[k] = p[a] /\ g[l] = p[i]
          BY <2>2, <3>2, <4>1, <4>2, <5>1
        <5>. QED BY <2>3, <5>2
      <4>3. CASE l \in 1..Len(f)
        <5>1. PICK a \in 1..(i - 1), b \in 1..(i - 1) : a < b /\ f[k] = p[a] /\ f[l] = p[b]
          BY <2>4, <3>6, <4>1, <4>3
        <5>. QED BY <2>2, <3>2, <4>1, <4>3, <5>1
      <4>. QED BY <3>3, <4>2, <4>3
    <3>. USE DEF g
    <3>. QED BY <3>2, <3>4, <3>5, <3>6
  <2>. QED BY <2>5, <2>6
<1>5. bad \subseteq 0..Len(p) /\ 0 \notin bad /\ \A i \in 1..Len(p) : i - 1 \notin bad => i \notin bad
  <2>1. \A i \in 1..Len(p) : i \in 0..Len(p) /\ i - 1 \in 0..Len(p)
    BY <1>2
  <2>. HIDE DEF Fine
  <2>. QED BY <1>3, <1>4, <2>1
<1>6. bad = {}
  <2>. HIDE DEF bad
  <2>. QED BY <1>2, <1>5, NoneBad
<1>7. Fine(Len(p))
  <2>1. Len(p) \in 0..Len(p)
    BY <1>2
  <2>. HIDE DEF Fine
  <2>. QED BY <1>6, <2>1
<1>. DEFINE f == F[Len(p)]
<1>8. /\ f \in Seq(S)
      /\ \A a \in 1..Len(p) : a \in taken => \E k \in 1..Len(f) : f[k] = p[a]
      /\ \A k \in 1..Len(f) : \E a \in 1..Len(p) : f[k] = p[a]
      /\ \A k, l \in 1..Len(f) : k < l =>
            \E a, b \in 1..Len(p) : a < b /\ f[k] = p[a] /\ f[l] = p[b]
  BY <1>7
<1>9. Fields(p, taken) = f
  BY <1>1
<1>. HIDE DEF bad, f
<1>10. DOMAIN f = 1..Len(f)
  BY <1>8
<1>11. /\ f \in Seq(S)
       /\ \A a \in DOMAIN p : a \in taken => \E k \in DOMAIN f : f[k] = p[a]
       /\ \A k \in DOMAIN f : \E a \in DOMAIN p : f[k] = p[a]
       /\ \A k, l \in DOMAIN f : k < l =>
             \E a, b \in DOMAIN p : a < b /\ f[k] = p[a] /\ f[l] = p[b]
  <2>. DEFINE D == DOMAIN p
              E == DOMAIN f
  <2>1. D = 1..Len(p) /\ E = 1..Len(f)
    BY <1>2, <1>10
  <2>. HIDE DEF D, E
  <2>2. /\ f \in Seq(S)
        /\ \A a \in D : a \in taken => \E k \in E : f[k] = p[a]
        /\ \A k \in E : \E a \in D : f[k] = p[a]
        /\ \A k, l \in E : k < l =>
              \E a, b \in D : a < b /\ f[k] = p[a] /\ f[l] = p[b]
    BY <1>8, <2>1
  <2>. QED BY <2>2 DEF D, E
<1>. QED BY <1>9, <1>11 DEF InOrder

(* A part of which every line is taken is its own fields.                  *)
LEMMA FieldsWhole ==
    ASSUME NEW S, NEW p \in Seq(S), NEW taken, DOMAIN p \subseteq taken
    PROVE  Fields(p, taken) = p
<1>1. PICK F : /\ Fields(p, taken) = F[Len(p)]
               /\ F[0] = <<>>
               /\ \A i \in 1..Len(p) :
                     F[i] = IF i \in taken THEN Append(F[i - 1], p[i]) ELSE F[i - 1]
  BY FieldsAre
<1>2. Len(p) \in Nat /\ DOMAIN p = 1..Len(p) /\ \A j \in 1..Len(p) : p[j] \in S
  OBVIOUS
<1>. DEFINE Fine(i) == /\ F[i] \in Seq(S) /\ Len(F[i]) = i
                       /\ \A k \in 1..i : F[i][k] = p[k]
            bad == {i \in 0..Len(p) : ~Fine(i)}
<1>3. Fine(0)
  BY <1>1
<1>4. ASSUME NEW i \in 1..Len(p), Fine(i - 1) PROVE Fine(i)
  <2>1. i \in Nat /\ p[i] \in S /\ i \in taken
    BY <1>2
  <2>2. F[i] = Append(F[i - 1], p[i])
    BY <1>1, <2>1
  <2>. DEFINE f == F[i - 1]
              g == F[i]
  <2>3. f \in Seq(S) /\ Len(f) = i - 1 /\ g = Append(f, p[i])
        /\ \A k \in 1..(i - 1) : f[k] = p[k]
    BY <1>4, <2>2
  <2>. HIDE DEF f, g
  <2>4. g \in Seq(S) /\ Len(g) = i /\ \A k \in 1..i : g[k] = p[k]
    BY <2>1, <2>3
  <2>. USE DEF g
  <2>. QED BY <2>4
<1>5. bad \subseteq 0..Len(p) /\ 0 \notin bad /\ \A i \in 1..Len(p) : i - 1 \notin bad => i \notin bad
  <2>1. \A i \in 1..Len(p) : i \in 0..Len(p) /\ i - 1 \in 0..Len(p)
    BY <1>2
  <2>. HIDE DEF Fine
  <2>. QED BY <1>3, <1>4, <2>1
<1>6. bad = {}
  <2>. HIDE DEF bad
  <2>. QED BY <1>2, <1>5, NoneBad
<1>7. Fine(Len(p))
  <2>1. Len(p) \in 0..Len(p)
    BY <1>2
  <2>. HIDE DEF Fine
  <2>. QED BY <1>6, <2>1
<1>. QED BY <1>1, <1>2, <1>7, SeqEqual
-----------------------------------------------------------------------------
(* What FlattenSeq has joined of the first i parts, from what f has of     *)
(* fewer.                                                                  *)
JoinAt(f, ss, i) == IF i = 1 THEN ss[i] ELSE f[i - 1] \o ss[i]
Joined(f, ss, n) == f = [i \in 1..n |-> JoinAt(f, ss, i)]

(* What was joined of n parts can be continued to one part more. *)
LEMMA JoinedLonger ==
    ASSUME NEW ss, NEW n \in Nat, \E f : Joined(f, ss, n)
    PROVE  \E f : Joined(f, ss, n + 1)
<1>1. PICK f : Joined(f, ss, n)
  OBVIOUS
<1>. DEFINE h == [i \in 1..(n + 1) |-> IF i = n + 1 THEN JoinAt(f, ss, i) ELSE f[i]]
<1>2. ASSUME NEW i \in 1..(n + 1) PROVE h[i] = JoinAt(h, ss, i)
  <2>1. i = 1 \/ (i - 1 \in 1..n /\ i - 1 \in 1..(n + 1) /\ i - 1 # n + 1)
    OBVIOUS
  <2>2. i # 1 => h[i - 1] = f[i - 1]
    BY <2>1
  <2>3. i # n + 1 => i \in 1..n /\ h[i] = f[i]
    OBVIOUS
  <2>4. i # n + 1 => f[i] = JoinAt(f, ss, i)
    BY <1>1, <2>3, Zenon DEF Joined
  <2>5. h[i] = JoinAt(f, ss, i)
    BY <2>3, <2>4
  <2>. HIDE DEF h
  <2>. QED BY <2>2, <2>5 DEF JoinAt
<1>3. h = [i \in 1..(n + 1) |-> h[i]]
  OBVIOUS
<1>. HIDE DEF h
<1>4. Joined(h, ss, n + 1)
  BY <1>2, <1>3, Zenon DEF Joined
<1>. QED BY <1>4

(* The function that FlattenSeq chooses exists. *)
LEMMA JoinedExists ==
    ASSUME NEW ss, NEW n \in Nat
    PROVE  \E f : Joined(f, ss, n)
<1>. DEFINE bad == {k \in Nat : ~\E f : Joined(f, ss, k)}
<1>1. 0 \notin bad
  <2>. DEFINE h == [i \in 1..0 |-> <<>>]
  <2>1. h = [i \in 1..0 |-> JoinAt(h, ss, i)]
    OBVIOUS
  <2>. HIDE DEF h
  <2>. QED BY <2>1 DEF Joined
<1>2. \A k \in Nat : k \notin bad => k + 1 \notin bad
  BY JoinedLonger
<1>3. bad \subseteq Nat
  OBVIOUS
<1>4. bad = {}
  <2>. HIDE DEF bad
  <2>. QED BY <1>1, <1>2, <1>3, NoneMissing
<1>. QED BY <1>4

(* The parts joined are the last of a series that joins part by part.      *)
LEMMA FlattenIs ==
    ASSUME NEW S, NEW ss \in Seq(Seq(S)), Len(ss) # 0
    PROVE  \E f : /\ FlattenSeq(ss) = f[Len(ss)]
                  /\ f[1] = ss[1]
                  /\ \A i \in 2..Len(ss) : f[i] = f[i - 1] \o ss[i]
<1>. DEFINE F == CHOOSE f : Joined(f, ss, Len(ss))
<1>1. Len(ss) \in Nat \ {0}
  OBVIOUS
<1>2. Joined(F, ss, Len(ss))
  BY <1>1, JoinedExists
<1>3. FlattenSeq(ss) = F[Len(ss)]
  BY <1>1, Zenon DEF FlattenSeq, Joined, JoinAt
<1>. HIDE DEF F
<1>4. \A i \in 1..Len(ss) : F[i] = JoinAt(F, ss, i)
  BY <1>2, Zenon DEF Joined
<1>5. 1 \in 1..Len(ss) /\ \A i \in 2..Len(ss) : i \in 1..Len(ss) /\ i # 1
  BY <1>1
<1>6. F[1] = ss[1] /\ \A i \in 2..Len(ss) : F[i] = F[i - 1] \o ss[i]
  BY <1>4, <1>5 DEF JoinAt
<1>. QED BY <1>3, <1>6

(* Where each part of ss lies in the parts joined: at[p - 1] is the number *)
(* of lines before it.                                                     *)
Lies(at, ss, all) ==
    /\ at \in [0..Len(ss) -> Nat] /\ at[0] = 0
    /\ \A p \in 1..Len(ss) : at[p] = at[p - 1] + Len(ss[p])
    /\ at[Len(ss)] = Len(all)
    /\ \A p \in 1..Len(ss) : \A j \in 1..Len(ss[p]) : all[at[p - 1] + j] = ss[p][j]

(* There is a place for each part.                                         *)
LEMMA FlattenLies ==
    ASSUME NEW S, NEW ss \in Seq(Seq(S))
    PROVE  FlattenSeq(ss) \in Seq(S) /\ \E at : Lies(at, ss, FlattenSeq(ss))
<1>1. Len(ss) \in Nat /\ \A p \in 1..Len(ss) : ss[p] \in Seq(S) /\ Len(ss[p]) \in Nat
  OBVIOUS
<1>2. CASE Len(ss) = 0
  <2>1. FlattenSeq(ss) = ss /\ ss = <<>>
    BY <1>2 DEF FlattenSeq
  <2>. DEFINE at == [p \in 0..0 |-> 0]
  <2>2. Lies(at, ss, FlattenSeq(ss))
    BY <2>1 DEF Lies
  <2>. HIDE DEF at
  <2>. QED BY <2>1, <2>2
<1>3. CASE Len(ss) # 0
  <2>1. PICK f : /\ FlattenSeq(ss) = f[Len(ss)]
                 /\ f[1] = ss[1]
                 /\ \A i \in 2..Len(ss) : f[i] = f[i - 1] \o ss[i]
    BY <1>3, FlattenIs
  <2>. DEFINE at == [p \in 0..Len(ss) |-> IF p = 0 THEN 0 ELSE Len(f[p])]
              Fine(i) ==
                i = 0 \/ /\ f[i] \in Seq(S)
                         /\ at[i] = at[i - 1] + Len(ss[i])
                         /\ \A p \in 1..i : \A j \in 1..Len(ss[p]) :
                               /\ at[p - 1] + j \in 1..Len(f[i])
                               /\ f[i][at[p - 1] + j] = ss[p][j]
              bad == {i \in 0..Len(ss) : ~Fine(i)}
  <2>2. at[0] = 0 /\ \A p \in 1..Len(ss) : at[p] = Len(f[p])
    BY <1>1
  <2>3. at = [p \in 0..Len(ss) |-> at[p]]
    OBVIOUS
  <2>. HIDE DEF at
  <2>4. Fine(0)
    OBVIOUS
  <2>5. ASSUME NEW i \in 1..Len(ss), Fine(i - 1) PROVE Fine(i)
    <3>1. i \in Nat /\ ss[i] \in Seq(S) /\ Len(ss[i]) \in Nat
          /\ \A p \in 1..i : p = i \/ p \in 1..(i - 1)
      BY <1>1
    <3>2. CASE i = 1
      <4>1. f[1] = ss[1] /\ at[0] = 0 /\ at[1] = Len(ss[1]) /\ ss[1] \in Seq(S)
            /\ Len(ss[1]) \in Nat /\ 1..1 = {1}
        BY <2>1, <2>2, <3>1, <3>2
      <4>. QED BY <3>2, <4>1
    <3>3. CASE i # 1
      <4>. DEFINE g == f[i - 1]
                  h == f[i]
                  s == ss[i]
      <4>1. h = g \o s /\ g \in Seq(S) /\ s \in Seq(S)
        <5>1. i \in 2..Len(ss) /\ i - 1 # 0
          BY <1>1, <3>1, <3>3
        <5>2. h = g \o s
          BY <2>1, <5>1
        <5>3. g \in Seq(S)
          BY <2>5, <5>1
        <5>. QED BY <3>1, <5>2, <5>3
      <4>2. /\ at[i] = Len(h) /\ at[i - 1] = Len(g)
            /\ \A p \in 1..(i - 1) : \A j \in 1..Len(ss[p]) :
                  /\ at[p - 1] + j \in 1..Len(g)
                  /\ g[at[p - 1] + j] = ss[p][j]
        <5>1. i - 1 \in 1..Len(ss) /\ i - 1 # 0
          BY <1>1, <3>1, <3>3
        <5>2. at[i] = Len(h) /\ at[i - 1] = Len(g)
          BY <2>2, <5>1
        <5>3. \A p \in 1..(i - 1) : \A j \in 1..Len(ss[p]) :
                  /\ at[p - 1] + j \in 1..Len(g)
                  /\ g[at[p - 1] + j] = ss[p][j]
          BY <2>5, <5>1
        <5>. QED BY <5>2, <5>3
      <4>3. Fine(i) <=> /\ h \in Seq(S)
                        /\ at[i] = at[i - 1] + Len(s)
                        /\ \A p \in 1..i : \A j \in 1..Len(ss[p]) :
                              /\ at[p - 1] + j \in 1..Len(h)
                              /\ h[at[p - 1] + j] = ss[p][j]
        BY <3>1
      <4>. HIDE DEF g, h, Fine
      <4>4. /\ h \in Seq(S) /\ Len(h) = Len(g) + Len(s) /\ Len(g) \in Nat /\ Len(s) \in Nat
            /\ \A k \in 1..Len(g) : h[k] = g[k]
            /\ \A j \in 1..Len(s) : h[Len(g) + j] = s[j]
        <5>. HIDE DEF s
        <5>. QED BY <4>1
      <4>5. ASSUME NEW p \in 1..i, NEW j \in 1..Len(ss[p])
            PROVE  at[p - 1] + j \in 1..Len(h) /\ h[at[p - 1] + j] = ss[p][j]
        <5>1. CASE p = i
          <6>1. Len(g) + j \in 1..Len(h) /\ h[Len(g) + j] = s[j]
            BY <4>4, <5>1
          <6>. QED BY <4>2, <5>1, <6>1
        <5>2. CASE p \in 1..(i - 1)
          <6>1. at[p - 1] + j \in 1..Len(g) /\ g[at[p - 1] + j] = ss[p][j]
            BY <4>2, <5>2
          <6>. DEFINE k == at[p - 1] + j
          <6>2. k \in 1..Len(g) /\ g[k] = ss[p][j]
            BY <6>1
          <6>. HIDE DEF k
          <6>3. k \in 1..Len(h) /\ h[k] = g[k]
            BY <4>4, <6>2
          <6>4. k \in 1..Len(h) /\ h[k] = ss[p][j]
            BY <6>2, <6>3
          <6>. QED BY <6>4 DEF k
        <5>. QED BY <3>1, <5>1, <5>2
      <4>6. at[i] = at[i - 1] + Len(s)
        BY <4>2, <4>4
      <4>. QED BY <4>3, <4>4, <4>5, <4>6
    <3>. QED BY <3>2, <3>3
  <2>6. bad \subseteq 0..Len(ss) /\ 0 \notin bad /\ \A i \in 1..Len(ss) : i - 1 \notin bad => i \notin bad
    <3>1. \A i \in 1..Len(ss) : i \in 0..Len(ss) /\ i - 1 \in 0..Len(ss)
      BY <1>1
    <3>. HIDE DEF Fine
    <3>. QED BY <2>4, <2>5, <3>1
  <2>7. bad = {}
    <3>. HIDE DEF bad
    <3>. QED BY <1>1, <2>6, NoneBad
  <2>8. \A i \in 1..Len(ss) : Fine(i) /\ i \in 0..Len(ss) /\ i # 0
    <3>1. \A i \in 1..Len(ss) : i \in 0..Len(ss) /\ i # 0
      BY <1>1
    <3>. HIDE DEF Fine
    <3>. QED BY <2>7, <3>1
  <2>9. Len(ss) \in 1..Len(ss)
    BY <1>1, <1>3
  <2>10. /\ \A i \in 1..Len(ss) : f[i] \in Seq(S) /\ at[i] = at[i - 1] + Len(ss[i])
         /\ \A p \in 1..Len(ss) : \A j \in 1..Len(ss[p]) : f[Len(ss)][at[p - 1] + j] = ss[p][j]
    BY <2>8, <2>9
  <2>11. \A p \in 0..Len(ss) : at[p] \in Nat
    <3>1. ASSUME NEW p \in 1..Len(ss) PROVE at[p] \in Nat
      <4>1. f[p] \in Seq(S) /\ at[p] = Len(f[p])
        BY <2>2, <2>10
      <4>. QED BY <4>1, LenProperties
    <3>2. \A p \in 0..Len(ss) : p = 0 \/ p \in 1..Len(ss)
      BY <1>1
    <3>. QED BY <2>2, <3>1, <3>2
  <2>12. Lies(at, ss, FlattenSeq(ss))
    BY <2>1, <2>2, <2>3, <2>9, <2>10, <2>11 DEF Lies
  <2>13. FlattenSeq(ss) \in Seq(S)
    BY <2>1, <2>9, <2>10
  <2>. QED BY <2>12, <2>13
<1>. QED BY <1>2, <1>3

(* A later part begins no earlier.                                         *)
LEMMA LaterPart ==
    ASSUME NEW S, NEW ss \in Seq(Seq(S)), NEW all, NEW at, Lies(at, ss, all),
           NEW p \in 0..Len(ss), NEW q \in p..Len(ss)
    PROVE  at[p] <= at[q]
<1>1. Len(ss) \in Nat /\ \A r \in 1..Len(ss) : Len(ss[r]) \in Nat
  OBVIOUS
<1>. DEFINE n == Len(ss) - p
            bad == {i \in 0..n : ~(at[p] <= at[p + i])}
<1>2. n \in Nat /\ p \in Nat
  BY <1>1
<1>3. bad \subseteq 0..n
  OBVIOUS
<1>4. at[p] \in Nat /\ p + 0 = p /\ 0 \notin bad
  <2>1. at[p] \in Nat
    BY DEF Lies
  <2>2. p + 0 = p
    BY <1>2
  <2>. QED BY <2>1, <2>2
<1>5. ASSUME NEW i \in 1..n, i - 1 \notin bad PROVE i \notin bad
  <2>1. i - 1 \in 0..n /\ p + i \in 1..Len(ss) /\ (p + i) - 1 = p + (i - 1)
        /\ p + i \in 0..Len(ss) /\ p + (i - 1) \in 0..Len(ss)
    BY <1>1
  <2>2. at[p] <= at[p + (i - 1)]
    BY <1>5, <2>1
  <2>3. at[p + i] = at[p + (i - 1)] + Len(ss[p + i])
    BY <2>1 DEF Lies
  <2>4. at[p + (i - 1)] \in Nat /\ Len(ss[p + i]) \in Nat
    BY <1>1, <2>1 DEF Lies
  <2>. QED BY <1>4, <2>2, <2>3, <2>4
<1>6. bad = {}
  <2>. HIDE DEF bad, n
  <2>. QED BY <1>2, <1>3, <1>4, <1>5, NoneBad
<1>7. q - p \in 0..n /\ p + (q - p) = q
  BY <1>1
<1>. QED BY <1>6, <1>7

(* Line k of the parts joined is a line of a part.                         *)
OfPart(at, ss, k) == \E p \in 1..Len(ss) : \E j \in 1..Len(ss[p]) : k = at[p - 1] + j

(* Each line of the parts joined is one of a part.                         *)
LEMMA LineOfPart ==
    ASSUME NEW S, NEW ss \in Seq(Seq(S)), NEW all, NEW at, Lies(at, ss, all),
           NEW k \in 1..Len(all)
    PROVE  OfPart(at, ss, k)
<1>1. Len(ss) \in Nat /\ \A r \in 1..Len(ss) : Len(ss[r]) \in Nat
  OBVIOUS
<1>. DEFINE reach == {p \in 0..Len(ss) : k <= at[p]}
<1>2. Len(ss) \in reach /\ reach \subseteq Nat
  <2>1. at[Len(ss)] = Len(all) /\ k <= Len(all)
    BY DEF Lies
  <2>2. Len(ss) \in 0..Len(ss)
    BY <1>1
  <2>. QED BY <1>1, <2>1, <2>2
<1>3. PICK p \in reach : \A r \in reach : ~(r < p)
  <2>. HIDE DEF reach
  <2>. QED BY <1>2, LeastOf
<1>4. p \in 0..Len(ss) /\ k <= at[p] /\ k \in Int /\ k >= 1 /\ p # 0
  BY <1>1 DEF Lies
<1>5. p \in 1..Len(ss) /\ p - 1 \in 0..Len(ss) /\ p - 1 < p
  BY <1>1, <1>4
<1>6. ~(k <= at[p - 1])
  BY <1>3, <1>5
<1>7. at[p - 1] \in Nat /\ at[p] = at[p - 1] + Len(ss[p]) /\ Len(ss[p]) \in Nat
  BY <1>1, <1>5 DEF Lies
<1>8. k - at[p - 1] \in 1..Len(ss[p]) /\ k = at[p - 1] + (k - at[p - 1])
  BY <1>4, <1>6, <1>7
<1>. QED BY <1>5, <1>8 DEF OfPart

(* A part more is joined behind the others.                                *)
LEMMA FlattenAppend ==
    ASSUME NEW S, NEW ss \in Seq(Seq(S)), NEW s \in Seq(S)
    PROVE  FlattenSeq(Append(ss, s)) = FlattenSeq(ss) \o s
<1>. DEFINE tt == Append(ss, s)
            n == Len(ss)
<1>1. /\ n \in Nat /\ tt \in Seq(Seq(S)) /\ Len(tt) = n + 1 /\ tt[n + 1] = s
      /\ \A i \in 1..n : tt[i] = ss[i]
  OBVIOUS
<1>. HIDE DEF tt
<1>2. PICK g : /\ FlattenSeq(tt) = g[Len(tt)]
               /\ g[1] = tt[1]
               /\ \A i \in 2..Len(tt) : g[i] = g[i - 1] \o tt[i]
  <2>1. Len(tt) # 0
    BY <1>1
  <2>. HIDE DEF n
  <2>. QED BY <1>1, <2>1, FlattenIs
<1>3. CASE n = 0
  <2>1. FlattenSeq(ss) = <<>>
    BY <1>3 DEF FlattenSeq
  <2>2. FlattenSeq(tt) = s
    BY <1>1, <1>2, <1>3
  <2>3. <<>> \o s = s
    OBVIOUS
  <2>. QED BY <2>1, <2>2, <2>3 DEF tt
<1>4. CASE n # 0
  <2>1. PICK f : /\ FlattenSeq(ss) = f[n]
                 /\ f[1] = ss[1]
                 /\ \A i \in 2..n : f[i] = f[i - 1] \o ss[i]
    BY <1>4, FlattenIs
  <2>. DEFINE bad == {i \in 0..n : i # 0 /\ f[i] # g[i]}
  <2>. HIDE DEF n
  <2>2. bad \subseteq 0..n /\ 0 \notin bad
    OBVIOUS
  <2>3. ASSUME NEW i \in 1..n, i - 1 \notin bad PROVE i \notin bad
    <3>1. CASE i = 1
      BY <1>1, <1>2, <2>1, <3>1
    <3>2. CASE i # 1
      <4>1. i \in 2..n /\ i \in 2..Len(tt) /\ i - 1 \in 0..n /\ i - 1 # 0
        BY <1>1, <3>2
      <4>2. f[i - 1] = g[i - 1]
        BY <2>3, <4>1
      <4>3. f[i] = f[i - 1] \o ss[i] /\ g[i] = g[i - 1] \o tt[i] /\ tt[i] = ss[i]
        BY <1>1, <1>2, <2>1, <4>1
      <4>. QED BY <4>2, <4>3
    <3>. QED BY <3>1, <3>2
  <2>4. bad = {}
    <3>. HIDE DEF bad
    <3>. QED BY <1>1, <2>2, <2>3, NoneBad
  <2>5. n \in 0..n /\ n + 1 \in 2..Len(tt) /\ (n + 1) - 1 = n
    BY <1>1, <1>4
  <2>6. f[n] = g[n]
    BY <1>4, <2>4, <2>5
  <2>7. g[n + 1] = g[n] \o s
    BY <1>1, <1>2, <2>5
  <2>. QED BY <1>1, <1>2, <2>1, <2>6, <2>7 DEF tt
<1>. QED BY <1>3, <1>4
-----------------------------------------------------------------------------
(* The numbers of all lines w in the order in which they were written,     *)
(* against the head h; a says that the last line has not got its head yet. *)
Counted(w, h, a) ==
    /\ \A k \in 1..Len(w) : w[k].event = k
    /\ \A k \in 1..(Len(w) - 1) : w[k + 1].seq \in {w[k].seq, w[k].seq + 1}
    /\ Len(w) = 0 => h.seq = 0 /\ ~a
    /\ Len(w) # 0 =>
          /\ w[1].seq = 1
          /\ w[Len(w)].seq \in {h.seq, h.seq + 1}
          /\ a => w[Len(w)].seq = h.seq + 1
          /\ ~a /\ w[Len(w)].seq = h.seq => h.event = Len(w)

(* The next line goes to the last part there is, or to the first that is   *)
(* not there; so the parts joined are the lines in the order of writing.   *)
FileInv ==
    /\ parts \in Seq(Seq(Fragment))
    /\ head \in [seq : Nat, event : Nat]
    /\ appending \in BOOLEAN
    /\ Len(parts) \in {PartOf(head.seq + 1), PartOf(head.seq + 1) + 1}
    /\ appending => Len(parts) = PartOf(head.seq + 1) + 1
    /\ Counted(Fragments, head, appending)

(* The next number is of the same part or of the one after it.             *)
LEMMA NextPart ==
    ASSUME NEW n \in Nat
    PROVE  /\ PartOf(n + 1) \in Nat
           /\ PartOf(n + 2) \in {PartOf(n + 1), PartOf(n + 1) + 1}
<1>1. LinesPerPart \in Nat \ {0}
  BY PartsAssumption
<1>2. PartOf(n + 1) = n \div LinesPerPart /\ PartOf(n + 2) = (n + 1) \div LinesPerPart
  BY DEF PartOf
<1>. DEFINE L == LinesPerPart
            q == n \div L
            r == n % L
<1>3. q \in Nat /\ r \in 0..(L - 1) /\ n = L * q + r
  BY <1>1
<1>4. CASE r < L - 1
  <2>1. n + 1 = L * q + (r + 1) /\ r + 1 \in 0..(L - 1)
    BY <1>1, <1>3, <1>4
  <2>. HIDE DEF q, r
  <2>2. (n + 1) \div L = q
    BY <1>1, <1>3, <2>1
  <2>. QED BY <1>2, <1>3, <2>2 DEF q
<1>5. CASE r = L - 1
  <2>1. n + 1 = L * (q + 1)
    BY <1>1, <1>3, <1>5
  <2>. HIDE DEF q, r
  <2>2. (n + 1) \div L = q + 1
    BY <1>1, <1>3, <2>1
  <2>. QED BY <1>2, <1>3, <2>2 DEF q
<1>. QED BY <1>1, <1>3, <1>4, <1>5

(* longer is ss with x at the end of its part n.                           *)
Longer(ss, longer, n, x) == longer = [ss EXCEPT ![n] = Append(ss[n], x)]

(* A line that is appended to the last part is the last of all.            *)
LEMMA FlattenMore ==
    ASSUME NEW S, NEW ss \in Seq(Seq(S)), NEW n \in Nat \ {0}, Len(ss) = n, NEW x \in S,
           NEW longer, Longer(ss, longer, n, x)
    PROVE  /\ longer \in Seq(Seq(S)) /\ Len(longer) = n
           /\ FlattenSeq(longer) = Append(FlattenSeq(ss), x)
<1>. DEFINE front == [i \in 1..(n - 1) |-> ss[i]]
            s == ss[n]
<1>1. /\ DOMAIN ss = 1..n /\ \A i \in 1..n : ss[i] \in Seq(S)
      /\ ss = [i \in 1..n |-> ss[i]]
  OBVIOUS
<1>2. s \in Seq(S) /\ Append(s, x) \in Seq(S) /\ n \in 1..n
  BY <1>1
<1>3. longer = [i \in 1..n |-> IF i = n THEN Append(s, x) ELSE ss[i]]
  <2>. DEFINE t == Append(s, x)
              D == 1..n
  <2>1. longer = [ss EXCEPT ![n] = t] /\ DOMAIN ss = D
    <3>1. longer = [ss EXCEPT ![n] = t]
      BY Zenon DEF Longer
    <3>. QED BY <1>1, <3>1
  <2>. HIDE DEF t, s, D
  <2>2. longer = [i \in D |-> IF i = n THEN t ELSE ss[i]]
    BY <2>1, Zenon
  <2>. QED BY <2>2 DEF t, D
<1>4. front \in Seq(Seq(S)) /\ Len(front) = n - 1 /\ \A i \in 1..(n - 1) : front[i] = ss[i]
  <2>1. n - 1 \in Nat /\ \A i \in 1..(n - 1) : i \in 1..n
    OBVIOUS
  <2>2. \A i \in 1..(n - 1) : front[i] = ss[i] /\ ss[i] \in Seq(S)
    BY <1>1, <2>1
  <2>3. front \in [1..(n - 1) -> Seq(S)]
    BY <2>2
  <2>. DEFINE m == n - 1
              T == Seq(S)
  <2>4. m \in Nat /\ front \in [1..m -> T]
    BY <2>1, <2>3
  <2>. HIDE DEF front, m, T
  <2>5. front \in Seq(T) /\ Len(front) = m
    BY <2>4
  <2>. QED BY <2>2, <2>5 DEF m, T
<1>5. longer \in Seq(Seq(S)) /\ Len(longer) = n
      /\ longer[n] = Append(s, x) /\ \A i \in 1..(n - 1) : longer[i] = ss[i]
  <2>. HIDE DEF s
  <2>1. \A i \in 1..n : (IF i = n THEN Append(s, x) ELSE ss[i]) \in Seq(S)
    BY <1>1, <1>2
  <2>2. longer \in [1..n -> Seq(S)]
    BY <1>3, <2>1
  <2>3. longer \in Seq(Seq(S)) /\ Len(longer) = n
    BY <2>2
  <2>. QED BY <1>2, <1>3, <2>3
<1>. HIDE DEF front
<1>6. ss = Append(front, s)
  <2>1. Append(front, s) \in Seq(Seq(S)) /\ Len(Append(front, s)) = n
        /\ \A i \in 1..n : Append(front, s)[i] = ss[i]
    BY <1>2, <1>4
  <2>. QED BY <2>1, SeqEqual
<1>7. longer = Append(front, Append(s, x))
  <2>. DEFINE t == Append(s, x)
  <2>0. t \in Seq(S) /\ longer[n] = t
    BY <1>2, <1>5
  <2>. HIDE DEF t, s
  <2>1. Append(front, t) \in Seq(Seq(S)) /\ Len(Append(front, t)) = n
        /\ \A i \in 1..n : Append(front, t)[i] = longer[i]
    BY <1>4, <1>5, <2>0
  <2>. QED BY <1>5, <2>1, SeqEqual DEF t
<1>8. FlattenSeq(ss) = FlattenSeq(front) \o s
  BY <1>2, <1>4, <1>6, FlattenAppend
<1>9. FlattenSeq(longer) = FlattenSeq(front) \o Append(s, x)
  BY <1>2, <1>4, <1>7, FlattenAppend
<1>10. FlattenSeq(front) \in Seq(S)
  BY <1>4, FlattenLies
<1>. DEFINE all == FlattenSeq(front)
<1>. HIDE DEF all, s
<1>11. all \o Append(s, x) = Append(all \o s, x)
  BY <1>2, <1>10 DEF all
<1>. QED BY <1>5, <1>8, <1>9, <1>11 DEF all

(* Opening a part adds no line.                                            *)
LEMMA OpenedIs ==
    ASSUME FileInv
    PROVE  /\ Opened \in Seq(Seq(Fragment))
           /\ Len(Opened) = PartOf(head.seq + 1) + 1
           /\ FlattenSeq(Opened) = Fragments
           /\ PartOf(head.seq + 1) \in Nat
           /\ Fragments \in Seq(Fragment)
<1>1. PartOf(head.seq + 1) \in Nat
  BY NextPart DEF FileInv
<1>2. parts \in Seq(Seq(Fragment)) /\ Len(parts) \in Nat /\ Fragments = FlattenSeq(parts)
  BY DEF FileInv, Fragments
<1>3. Fragments \in Seq(Fragment)
  BY <1>2, FlattenLies
<1>4. CASE PartOf(head.seq + 1) < Len(parts)
  BY <1>1, <1>2, <1>3, <1>4 DEF Opened, FileInv
<1>5. CASE ~(PartOf(head.seq + 1) < Len(parts))
  <2>1. Opened = Append(parts, <<>>) /\ Len(parts) = PartOf(head.seq + 1)
    BY <1>1, <1>5 DEF Opened, FileInv
  <2>2. <<>> \in Seq(Fragment)
    OBVIOUS
  <2>3. FlattenSeq(Opened) = Fragments \o <<>>
    BY <1>2, <2>1, <2>2, FlattenAppend
  <2>4. Fragments \o <<>> = Fragments
    BY <1>3
  <2>5. Opened \in Seq(Seq(Fragment)) /\ Len(Opened) = Len(parts) + 1
    BY <1>2, <2>1, <2>2
  <2>. QED BY <1>1, <1>3, <2>1, <2>3, <2>4, <2>5
<1>. QED BY <1>4, <1>5

(* An index that was not written yet is in order.                         *)
LEMMA FileInit == Init => FileInv
<1>. SUFFICES ASSUME Init PROVE FileInv
  OBVIOUS
<1>1. parts = <<>> /\ head.seq = 0 /\ head.event = 0 /\ appending = FALSE
      /\ head \in [seq : Nat, event : Nat]
  BY DEF Init
<1>2. Fragments = <<>>
  BY <1>1 DEF Fragments, FlattenSeq
<1>3. PartOf(head.seq + 1) = 0
  BY <1>1, PartsAssumption DEF PartOf
<1>4. Counted(Fragments, head, appending)
  BY <1>1, <1>2 DEF Counted
<1>5. parts \in Seq(Seq(Fragment)) /\ Len(parts) = 0
  BY <1>1
<1>. QED BY <1>1, <1>3, <1>4, <1>5 DEF FileInv

(* Every step keeps the numbers of the lines as they were written.         *)
LEMMA FileStep == FileInv /\ [Next]_vars => FileInv'
<1>. SUFFICES ASSUME FileInv, [Next]_vars PROVE FileInv'
  OBVIOUS
<1>0. /\ parts \in Seq(Seq(Fragment)) /\ head.seq \in Nat /\ head.event \in Nat
      /\ head \in [seq : Nat, event : Nat]
      /\ appending \in BOOLEAN /\ Counted(Fragments, head, appending)
  BY DEF FileInv
<1>w. Fragments \in Seq(Fragment) /\ Len(Fragments) \in Nat
  BY OpenedIs
<1>1. CASE AppendLine
  <2>1. PICK c \in Cuts :
           parts' = [Opened EXCEPT ![PartOf(head.seq + 1) + 1] =
                       Append(@, [seq |-> head.seq + 1,
                                  event |-> Len(Fragments) + 1, cut |-> c])]
    BY <1>1 DEF AppendLine
  <2>2. appending' = TRUE /\ head' = head /\ ~appending
    BY <1>1 DEF AppendLine
  <2>. DEFINE x == [seq |-> head.seq + 1, event |-> Len(Fragments) + 1, cut |-> c]
              n == PartOf(head.seq + 1) + 1
  <2>3. x \in Fragment /\ x.seq = head.seq + 1 /\ x.event = Len(Fragments) + 1
    BY <1>0, <1>w DEF Fragment
  <2>4. n \in Nat \ {0} /\ Opened \in Seq(Seq(Fragment)) /\ Len(Opened) = n
        /\ FlattenSeq(Opened) = Fragments
    BY OpenedIs
  <2>5. parts' = [Opened EXCEPT ![n] = Append(@, x)]
    BY <2>1
  <2>. HIDE DEF x, n
  <2>6. parts' \in Seq(Seq(Fragment)) /\ Len(parts') = n /\ FlattenSeq(parts') = Append(Fragments, x)
    <3>. DEFINE o == Opened
                longer == parts'
    <3>1. o \in Seq(Seq(Fragment)) /\ Len(o) = n /\ n \in Nat \ {0}
      BY <2>4
    <3>2. Longer(o, longer, n, x)
      BY <2>5, Zenon DEF Longer
    <3>3. FlattenSeq(o) = Fragments
      BY <2>4
    <3>. HIDE DEF o, longer
    <3>4. /\ longer \in Seq(Seq(Fragment)) /\ Len(longer) = n
          /\ FlattenSeq(longer) = Append(FlattenSeq(o), x)
      BY <2>3, <3>1, <3>2, FlattenMore
    <3>. QED BY <3>3, <3>4 DEF longer
  <2>7. Fragments' = Append(Fragments, x)
    BY <2>6 DEF Fragments
  <2>. DEFINE w == Fragments
              v == Append(w, x)
  <2>8. /\ v \in Seq(Fragment) /\ Len(v) = Len(w) + 1 /\ v[Len(w) + 1] = x
        /\ \A k \in 1..Len(w) : v[k] = w[k]
    BY <1>w, <2>3
  <2>. HIDE DEF w, v
  <2>9. Counted(v, head, TRUE)
    <3>1. Len(w) \in Nat /\ Counted(w, head, FALSE)
      BY <1>0, <1>w, <2>2 DEF w
    <3>2. x.seq = head.seq + 1 /\ x.event = Len(w) + 1
      BY <2>3 DEF w
    <3>3. ASSUME NEW k \in 1..Len(v) PROVE v[k].event = k
      <4>1. k = Len(w) + 1 \/ k \in 1..Len(w)
        BY <2>8, <3>1
      <4>. QED BY <2>8, <3>1, <3>2, <4>1 DEF Counted
    <3>4. ASSUME NEW k \in 1..(Len(v) - 1) PROVE v[k + 1].seq \in {v[k].seq, v[k].seq + 1}
      <4>1. CASE k = Len(w)
        <5>1. v[k + 1] = x /\ v[k] = w[k] /\ Len(w) # 0
          BY <2>8, <3>1, <4>1
        <5>2. w[k].seq \in {head.seq, head.seq + 1}
          BY <3>1, <4>1, <5>1 DEF Counted
        <5>. QED BY <1>0, <3>2, <5>1, <5>2
      <4>2. CASE k # Len(w)
        <5>1. k \in 1..(Len(w) - 1) /\ k \in 1..Len(w) /\ k + 1 \in 1..Len(w)
          BY <2>8, <3>1, <4>2
        <5>2. v[k + 1] = w[k + 1] /\ v[k] = w[k]
          BY <2>8, <5>1
        <5>. QED BY <3>1, <5>1, <5>2 DEF Counted
      <4>. QED BY <4>1, <4>2
    <3>5. v[1].seq = 1
      <4>1. CASE Len(w) = 0
        BY <2>8, <3>1, <3>2, <4>1 DEF Counted
      <4>2. CASE Len(w) # 0
        BY <2>8, <3>1, <4>2 DEF Counted
      <4>. QED BY <4>1, <4>2
    <3>6. v[Len(v)].seq = head.seq + 1 /\ Len(v) # 0
      BY <2>8, <3>1, <3>2
    <3>. QED BY <1>0, <3>3, <3>4, <3>5, <3>6 DEF Counted
  <2>10. Counted(Fragments', head', appending')
    BY <2>2, <2>7, <2>9 DEF v, w
  <2>. QED BY <1>0, <2>2, <2>6, <2>10 DEF FileInv, n, PartOf
<1>2. CASE WriteRaises
  <2>1. parts' = Opened /\ head' = head /\ appending' = appending /\ ~appending
    BY <1>2 DEF WriteRaises
  <2>2. Fragments' = Fragments
    BY <2>1, OpenedIs DEF Fragments
  <2>. QED BY <1>0, <2>1, <2>2, OpenedIs DEF FileInv, PartOf
<1>3. CASE WriteHead
  <2>0. /\ appending /\ appending' = FALSE /\ parts' = parts
        /\ head' = [seq |-> head.seq + 1, event |-> Len(Fragments)]
    BY <1>3 DEF WriteHead
  <2>1. /\ appending /\ ~appending' /\ parts' = parts /\ Fragments' = Fragments
        /\ head' \in [seq : Nat, event : Nat] /\ appending' \in BOOLEAN
        /\ head'.seq = head.seq + 1 /\ head'.event = Len(Fragments)
    <3>1. Fragments' = Fragments
      BY <2>0 DEF Fragments
    <3>2. ~appending' /\ appending' \in BOOLEAN
      BY <2>0, Zenon
    <3>3. head'.seq = head.seq + 1 /\ head'.event = Len(Fragments)
      BY <2>0, Zenon
    <3>4. [seq |-> head.seq + 1, event |-> Len(Fragments)] \in [seq : Nat, event : Nat]
      BY <1>0, <1>w
    <3>. QED BY <2>0, <3>1, <3>2, <3>3, <3>4, Zenon
  <2>2. Counted(Fragments', head', appending')
    BY <1>0, <2>1 DEF Counted
  <2>3. Len(parts') = PartOf(head.seq + 1) + 1
    BY <2>1 DEF FileInv
  <2>4. PartOf(head'.seq + 1) \in {PartOf(head.seq + 1), PartOf(head.seq + 1) + 1}
        /\ PartOf(head.seq + 1) \in Nat
    <3>1. head'.seq + 1 = head.seq + 2
      BY <1>0, <2>1
    <3>. QED BY <1>0, <3>1, NextPart
  <2>6. Len(parts') \in {PartOf(head'.seq + 1), PartOf(head'.seq + 1) + 1}
    BY <2>3, <2>4
  <2>. QED BY <1>0, <2>1, <2>2, <2>6 DEF FileInv
<1>4. CASE Stops
  <2>1. /\ appending /\ ~appending' /\ parts' = parts /\ head' = head
        /\ Fragments' = Fragments /\ appending' \in BOOLEAN
    BY <1>4 DEF Stops, Fragments
  <2>2. Counted(Fragments', head', appending')
    BY <1>0, <2>1 DEF Counted
  <2>. QED BY <1>0, <2>1, <2>2 DEF FileInv
<1>5. CASE UNCHANGED vars
  <2>1. parts' = parts /\ head' = head /\ appending' = appending /\ Fragments' = Fragments
    BY <1>5 DEF vars, Fragments
  <2>. QED BY <1>0, <2>1 DEF FileInv
<1>. QED BY <1>1, <1>2, <1>3, <1>4, <1>5 DEF Next
-----------------------------------------------------------------------------
(* The numbers never go back, from one line to any later one.              *)
LEMMA SeqsGrow ==
    ASSUME FileInv, NEW a \in 1..Len(Fragments), NEW b \in a..Len(Fragments)
    PROVE  Fragments[a].seq <= Fragments[b].seq
<1>. DEFINE w == Fragments
            n == b - a
            bad == {i \in 0..n : ~(w[a].seq <= w[a + i].seq)}
<1>1. w \in Seq(Fragment) /\ Len(w) \in Nat /\ Counted(w, head, appending)
      /\ \A k \in 1..Len(w) : w[k].seq \in Nat
  <2>1. w \in Seq(Fragment)
    BY OpenedIs
  <2>2. \A k \in 1..Len(w) : w[k] \in Fragment
    BY <2>1
  <2>3. Counted(w, head, appending)
    BY DEF FileInv
  <2>. QED BY <2>1, <2>2, <2>3 DEF Fragment
<1>. HIDE DEF w
<1>2. a \in 1..Len(w) /\ b \in a..Len(w) /\ n \in Nat
  BY <1>1 DEF w
<1>3. bad \subseteq 0..n /\ 0 \notin bad
  <2>1. a + 0 = a /\ w[a].seq <= w[a].seq
    BY <1>1, <1>2
  <2>. QED BY <2>1
<1>4. ASSUME NEW i \in 1..n, i - 1 \notin bad PROVE i \notin bad
  <2>. DEFINE k == a + (i - 1)
  <2>1. i - 1 \in 0..n /\ k \in 1..(Len(w) - 1) /\ k \in 1..Len(w) /\ k + 1 \in 1..Len(w)
        /\ a + i = k + 1
    BY <1>1, <1>2
  <2>. HIDE DEF k
  <2>2. w[a].seq <= w[k].seq
    BY <1>4, <2>1 DEF k
  <2>3. w[k + 1].seq \in {w[k].seq, w[k].seq + 1}
    BY <1>1, <2>1 DEF Counted
  <2>4. w[a].seq <= w[a + i].seq
    <3>1. w[a].seq \in Nat /\ w[k].seq \in Nat
      BY <1>1, <1>2, <2>1
    <3>. DEFINE x == w[a].seq
                y == w[k].seq
                z == w[k + 1].seq
    <3>2. x \in Nat /\ y \in Nat /\ x <= y /\ z \in {y, y + 1}
      BY <2>2, <2>3, <3>1
    <3>3. w[a + i].seq = z
      BY <2>1
    <3>. HIDE DEF x, y, z
    <3>4. x <= z
      BY <3>2
    <3>. QED BY <3>3, <3>4 DEF x
  <2>. QED BY <2>4
<1>5. bad = {}
  <2>. HIDE DEF bad, n
  <2>. QED BY <1>2, <1>3, <1>4, NoneBad
<1>6. n \in 0..n /\ a + n = b
  BY <1>1, <1>2
<1>. QED BY <1>5, <1>6 DEF w

(* The lines of one part were written in its order, and those of a later   *)
(* part later.                                                             *)
LEMMA WrittenInOrder ==
    ASSUME FileInv, NEW at, Lies(at, parts, Fragments),
           NEW p \in 1..Len(parts), NEW i \in 1..Len(parts[p]),
           NEW q \in 1..Len(parts), NEW j \in 1..Len(parts[q]),
           p < q \/ (p = q /\ i < j)
    PROVE  /\ at[p - 1] + i \in 1..Len(Fragments)
           /\ at[q - 1] + j \in 1..Len(Fragments)
           /\ at[p - 1] + i < at[q - 1] + j
<1>1. /\ parts \in Seq(Seq(Fragment)) /\ Len(parts) \in Nat
      /\ Len(parts[p]) \in Nat /\ Len(parts[q]) \in Nat
  BY DEF FileInv
<1>2. /\ p \in 0..Len(parts) /\ p - 1 \in 0..Len(parts) /\ Len(parts) \in p..Len(parts)
      /\ q \in 0..Len(parts) /\ q - 1 \in 0..Len(parts) /\ Len(parts) \in q..Len(parts)
      /\ Len(parts) \in 0..Len(parts)
  BY <1>1
<1>3. /\ at[p] = at[p - 1] + Len(parts[p]) /\ at[q] = at[q - 1] + Len(parts[q])
      /\ at[p] \in Nat /\ at[p - 1] \in Nat /\ at[q] \in Nat /\ at[q - 1] \in Nat
      /\ at[Len(parts)] = Len(Fragments) /\ at[Len(parts)] \in Nat
  BY <1>2 DEF Lies
<1>4. at[p] <= Len(Fragments) /\ at[q] <= Len(Fragments)
  <2>1. at[p] <= at[Len(parts)]
    BY <1>1, <1>2, LaterPart
  <2>2. at[q] <= at[Len(parts)]
    BY <1>1, <1>2, LaterPart
  <2>. QED BY <1>3, <2>1, <2>2
<1>5. p < q => at[p] <= at[q - 1]
  <2>. SUFFICES ASSUME p < q PROVE at[p] <= at[q - 1]
    OBVIOUS
  <2>1. q - 1 \in p..Len(parts)
    BY <1>1
  <2>. QED BY <1>1, <1>2, <2>1, LaterPart
<1>. DEFINE x == at[p - 1]
            y == at[q - 1]
            m == Len(parts[p])
            n == Len(parts[q])
            N == Len(Fragments)
<1>6. /\ x \in Nat /\ y \in Nat /\ m \in Nat /\ n \in Nat /\ N \in Nat
      /\ x + m <= N /\ y + n <= N /\ (p < q => x + m <= y) /\ (p = q => x = y)
      /\ i \in 1..m /\ j \in 1..n
  BY <1>1, <1>3, <1>4, <1>5
<1>. HIDE DEF x, y, m, n, N
<1>7. x + i \in 1..N /\ y + j \in 1..N /\ x + i < y + j
  BY <1>6
<1>. QED BY <1>7 DEF x, y, N

(* Lines k and l of all are two that were written in this order.           *)
Follows(all, k, l) ==
    \E a, b \in 1..Len(Fragments) :
        a < b /\ all[k] = Fragments[a] /\ all[l] = Fragments[b]

(* What is taken of each part, joined, are lines in the order of writing.  *)
LEMMA TakenInOrder ==
    ASSUME FileInv, NEW reads,
           reads \in Seq(Seq(Fragment)), Len(reads) = Len(parts),
           \A p \in 1..Len(parts) : \E taken : reads[p] = Fields(parts[p], taken),
           NEW all, \E at : Lies(at, reads, all),
           NEW k \in 1..Len(all), NEW l \in 1..Len(all), k < l
    PROVE  Follows(all, k, l)
<1>1. PICK at : Lies(at, reads, all)
  OBVIOUS
<1>2. Fragments \in Seq(Fragment) /\ \E from : Lies(from, parts, Fragments)
  BY FlattenLies DEF FileInv, Fragments
<1>3. PICK from : Lies(from, parts, Fragments)
  BY <1>2
<1>4. OfPart(at, reads, k) /\ OfPart(at, reads, l)
  BY <1>1, LineOfPart
<1>5. PICK p \in 1..Len(reads) : \E j \in 1..Len(reads[p]) : k = at[p - 1] + j
  BY <1>4 DEF OfPart
<1>6. PICK i \in 1..Len(reads[p]) : k = at[p - 1] + i
  BY <1>5
<1>7. PICK q \in 1..Len(reads) : \E j \in 1..Len(reads[q]) : l = at[q - 1] + j
  BY <1>4 DEF OfPart
<1>8. PICK j \in 1..Len(reads[q]) : l = at[q - 1] + j
  BY <1>7
<1>9. all[k] = reads[p][i] /\ all[l] = reads[q][j]
  BY <1>1, <1>6, <1>8 DEF Lies
<1>10. /\ Len(reads) \in Nat /\ p \in 1..Len(parts) /\ q \in 1..Len(parts)
      /\ parts \in Seq(Seq(Fragment)) /\ parts[p] \in Seq(Fragment) /\ parts[q] \in Seq(Fragment)
      /\ reads[p] \in Seq(Fragment) /\ reads[q] \in Seq(Fragment)
  <2>1. parts \in Seq(Seq(Fragment))
    BY DEF FileInv
  <2>2. Len(parts) \in Nat /\ p \in 1..Len(parts) /\ q \in 1..Len(parts)
    BY <2>1
  <2>3. parts[p] \in Seq(Fragment) /\ parts[q] \in Seq(Fragment)
    BY <2>1, <2>2
  <2>4. reads[p] \in Seq(Fragment) /\ reads[q] \in Seq(Fragment)
    OBVIOUS
  <2>. QED BY <2>1, <2>2, <2>3, <2>4
<1>11. p < q \/ (p = q /\ i < j)
  <2>1. ~(q < p)
    <3>. SUFFICES ASSUME q < p PROVE FALSE
      OBVIOUS
    <3>1. p - 1 \in q..Len(reads) /\ q \in 0..Len(reads) /\ p - 1 \in 0..Len(reads)
          /\ q - 1 \in 0..Len(reads) /\ Len(reads[q]) \in Nat
      BY <1>10
    <3>2. at[q] <= at[p - 1]
      BY <1>1, <3>1, LaterPart
    <3>3. at[q] = at[q - 1] + Len(reads[q]) /\ at[q] \in Nat /\ at[p - 1] \in Nat /\ at[q - 1] \in Nat
      BY <1>1, <3>1 DEF Lies
    <3>. DEFINE x == at[q - 1]
                y == at[p - 1]
                n == Len(reads[q])
    <3>4. /\ x \in Nat /\ y \in Nat /\ n \in Nat /\ x + n <= y
          /\ k = y + i /\ l = x + j /\ j \in 1..n
      BY <1>6, <1>8, <3>1, <3>2, <3>3
    <3>5. i \in Nat /\ i >= 1
      BY <1>10
    <3>. HIDE DEF x, y, n
    <3>. QED BY <3>4, <3>5
  <2>2. p = q => i < j
    <3>1. at[p - 1] \in Nat
      <4>1. p - 1 \in 0..Len(reads)
        BY <1>10
      <4>. QED BY <1>1, <4>1 DEF Lies
    <3>2. i \in Int /\ j \in Int
      BY <1>10
    <3>3. p = q => at[p - 1] + i < at[p - 1] + j
      BY <1>6, <1>8
    <3>. QED BY <3>1, <3>2, <3>3
  <2>. QED BY <1>10, <2>1, <2>2
<1>12. \E e \in 1..Len(parts[p]), g \in 1..Len(parts[q]) :
         /\ reads[p][i] = parts[p][e] /\ reads[q][j] = parts[q][g]
         /\ p = q => e < g
  <2>. DEFINE P == parts[p]
              Q == parts[q]
              f == reads[p]
              g == reads[q]
  <2>1. P \in Seq(Fragment) /\ Q \in Seq(Fragment) /\ f \in Seq(Fragment) /\ g \in Seq(Fragment)
    BY <1>10
  <2>2. (\E taken : f = Fields(P, taken)) /\ (\E taken : g = Fields(Q, taken))
    BY <1>10
  <2>3. i \in 1..Len(f) /\ j \in 1..Len(g) /\ (p = q => f = g /\ P = Q /\ i < j)
    BY <1>11
  <2>. HIDE DEF P, Q, f, g
  <2>4. /\ DOMAIN P = 1..Len(P) /\ DOMAIN Q = 1..Len(Q)
        /\ i \in DOMAIN f /\ j \in DOMAIN g
    BY <2>1, <2>3
  <2>5. PICK taken : InOrder(f, P, taken)
    BY <2>1, <2>2, FieldsInOrder
  <2>6. PICK more : InOrder(g, Q, more)
    BY <2>1, <2>2, FieldsInOrder
  <2>7. \E a \in DOMAIN P, b \in DOMAIN Q : f[i] = P[a] /\ g[j] = Q[b] /\ (p = q => a < b)
    <3>1. CASE p = q
      BY <2>3, <2>4, <2>5, <3>1 DEF InOrder
    <3>2. CASE p # q
      BY <2>4, <2>5, <2>6, <3>2 DEF InOrder
    <3>. QED BY <3>1, <3>2
  <2>. QED BY <2>4, <2>7 DEF P, Q, f, g
<1>13. PICK e \in 1..Len(parts[p]), g \in 1..Len(parts[q]) :
         /\ reads[p][i] = parts[p][e] /\ reads[q][j] = parts[q][g]
         /\ p = q => e < g
  BY <1>12
<1>14. p < q \/ (p = q /\ e < g)
  BY <1>11, <1>13
<1>. DEFINE a == from[p - 1] + e
            b == from[q - 1] + g
<1>15. a \in 1..Len(Fragments) /\ b \in 1..Len(Fragments) /\ a < b
  BY <1>3, <1>10, <1>14, WrittenInOrder
<1>16. Fragments[a] = parts[p][e] /\ Fragments[b] = parts[q][g]
  BY <1>3, <1>10 DEF Lies
<1>. HIDE DEF a, b
<1>17. all[k] = Fragments[a] /\ all[l] = Fragments[b]
  BY <1>9, <1>13, <1>16
<1>. QED BY <1>15, <1>17 DEF Follows

(* Sorting by number changes nothing where the numbers do not go back.     *)
LEMMA SortedStays ==
    ASSUME NEW s \in Seq(Fragment),
           \A k, l \in 1..Len(s) : k < l => s[k].seq <= s[l].seq
    PROVE  BySeq(s) = s
<1>1. Len(s) \in Nat /\ DOMAIN s = 1..Len(s) /\ \A k \in 1..Len(s) : s[k].seq \in Nat
  <2>1. \A k \in 1..Len(s) : s[k] \in Fragment
    OBVIOUS
  <2>. QED BY <2>1 DEF Fragment
<1>2. ASSUME NEW i \in 1..Len(s) PROVE Rank(s, i) = i
  <2>1. {j \in DOMAIN s : s[j].seq < s[i].seq \/ (s[j].seq = s[i].seq /\ j <= i)} = 1..i
    <3>1. ASSUME NEW j \in 1..Len(s)
          PROVE  (s[j].seq < s[i].seq \/ (s[j].seq = s[i].seq /\ j <= i)) <=> j <= i
      <4>1. j < i => s[j].seq <= s[i].seq
        OBVIOUS
      <4>2. i < j => s[i].seq <= s[j].seq
        OBVIOUS
      <4>3. s[i].seq \in Nat /\ s[j].seq \in Nat /\ i \in Int /\ j \in Int
        BY <1>1
      <4>4. j = i => s[j].seq = s[i].seq
        OBVIOUS
      <4>. QED BY <4>1, <4>2, <4>3, <4>4
    <3>2. \A j \in 1..Len(s) : j \in 1..i <=> j <= i
      BY <1>1
    <3>3. 1..i \subseteq 1..Len(s)
      BY <1>1
    <3>. QED BY <1>1, <3>1, <3>2, <3>3
  <2>2. Cardinality(1..i) = i
    <3>1. i \in Int /\ 1 \in Int /\ 1 <= i
      BY <1>1
    <3>. QED BY <3>1, FS_Interval
  <2>. QED BY <2>1, <2>2 DEF Rank
<1>3. ASSUME NEW k \in 1..Len(s) PROVE (CHOOSE i \in DOMAIN s : Rank(s, i) = k) = k
  BY <1>1, <1>2
<1>4. BySeq(s) = [k \in DOMAIN s |-> s[k]]
  <2>. DEFINE D == DOMAIN s
  <2>1. \A k \in D : s[CHOOSE i \in D : Rank(s, i) = k] = s[k]
    BY <1>1, <1>3
  <2>. QED BY <2>1 DEF BySeq
<1>. QED BY <1>4
-----------------------------------------------------------------------------
Reads == [p \in DOMAIN parts |-> Read(parts[p])]

(* What iter_index() returns is what it has read: in order already.        *)
LEMMA IndexIs ==
    ASSUME FileInv
    PROVE  /\ Reads \in Seq(Seq(Fragment)) /\ Len(Reads) = Len(parts)
           /\ \A p \in 1..Len(parts) : Reads[p] = Read(parts[p])
           /\ Index = FlattenSeq(Reads) /\ Index \in Seq(Fragment)
           /\ \A k, l \in 1..Len(Index) : k < l => Index[k].event < Index[l].event
<1>. DEFINE all == FlattenSeq(Reads)
<1>1. /\ parts \in Seq(Seq(Fragment)) /\ Len(parts) \in Nat /\ DOMAIN parts = 1..Len(parts)
      /\ \A p \in 1..Len(parts) : parts[p] \in Seq(Fragment)
  BY DEF FileInv
<1>2. \A p \in 1..Len(parts) : Read(parts[p]) \in Seq(Fragment)
  BY <1>1, FieldsInOrder DEF Read
<1>3. Reads \in [1..Len(parts) -> Seq(Fragment)] /\ \A p \in 1..Len(parts) : Reads[p] = Read(parts[p])
  <2>. HIDE DEF Read
  <2>. QED BY <1>1, <1>2 DEF Reads
<1>4. Reads \in Seq(Seq(Fragment)) /\ Len(Reads) = Len(parts)
  <2>. DEFINE n == Len(parts)
              T == Seq(Fragment)
  <2>1. n \in Nat /\ Reads \in [1..n -> T]
    BY <1>1, <1>3
  <2>. HIDE DEF n, T
  <2>2. Reads \in Seq(T) /\ Len(Reads) = n
    BY <2>1
  <2>. QED BY <2>2 DEF n, T
<1>5. all \in Seq(Fragment) /\ \E at : Lies(at, Reads, all)
  BY <1>4, FlattenLies
<1>6. \A p \in 1..Len(parts) : \E taken : Reads[p] = Fields(parts[p], taken)
  BY <1>3 DEF Read
<1>. HIDE DEF all
<1>7. ASSUME NEW k \in 1..Len(all), NEW l \in 1..Len(all), k < l
      PROVE  all[k].seq <= all[l].seq /\ all[k].event < all[l].event
  <2>1. PICK a \in 1..Len(Fragments), b \in 1..Len(Fragments) :
           a < b /\ all[k] = Fragments[a] /\ all[l] = Fragments[b]
    <3>1. Follows(all, k, l)
      BY <1>4, <1>5, <1>6, <1>7, TakenInOrder
    <3>. QED BY <3>1 DEF Follows
  <2>2. Len(Fragments) \in Nat
    BY OpenedIs
  <2>3. b \in a..Len(Fragments)
    BY <2>1, <2>2
  <2>4. Fragments[a].seq <= Fragments[b].seq
    BY <2>3, SeqsGrow
  <2>5. Fragments[a].event = a /\ Fragments[b].event = b
    BY DEF FileInv, Counted
  <2>. QED BY <2>1, <2>4, <2>5
<1>8. BySeq(all) = all
  BY <1>5, <1>7, SortedStays
<1>9. Index = all
  BY <1>8 DEF Index, Reads, all
<1>. QED BY <1>3, <1>4, <1>5, <1>7, <1>9 DEF all

(* A line that was taken of its part is in the index.                      *)
LEMMA TakenIsRead ==
    ASSUME FileInv, NEW p \in DOMAIN parts, NEW i \in DOMAIN parts[p],
           Begins(parts[p], i), Parses(parts[p], i)
    PROVE  parts[p][i] \in ToSet(Index)
<1>1. parts \in Seq(Seq(Fragment)) /\ p \in 1..Len(parts) /\ parts[p] \in Seq(Fragment)
  BY DEF FileInv
<1>2. /\ Reads \in Seq(Seq(Fragment)) /\ Len(Reads) = Len(parts)
      /\ Reads[p] = Read(parts[p])
      /\ Index = FlattenSeq(Reads) /\ Index \in Seq(Fragment)
  BY <1>1, IndexIs
<1>. DEFINE P == parts[p]
            f == Reads[p]
            taken == {n \in DOMAIN P : Begins(P, n) /\ Parses(P, n)}
<1>3. i \in taken /\ f = Fields(P, taken) /\ f \in Seq(Fragment) /\ P \in Seq(Fragment) /\ i \in DOMAIN P
  BY <1>1, <1>2 DEF Read
<1>. HIDE DEF P, f, taken
<1>4. InOrder(f, P, taken)
  BY <1>3, FieldsInOrder
<1>5. PICK k \in DOMAIN f : f[k] = P[i]
  BY <1>3, <1>4 DEF InOrder
<1>6. k \in 1..Len(Reads[p])
  BY <1>3, <1>5 DEF f
<1>7. PICK at : Lies(at, Reads, Index)
  BY <1>2, FlattenLies
<1>8. Index[at[p - 1] + k] = Reads[p][k]
  BY <1>1, <1>2, <1>6, <1>7 DEF Lies
<1>9. at[p - 1] + k \in 1..Len(Index)
  <2>. DEFINE x == at[p - 1]
              n == Len(Reads[p])
  <2>1. /\ p \in 0..Len(Reads) /\ p - 1 \in 0..Len(Reads) /\ Len(Reads) \in p..Len(Reads)
        /\ p \in 1..Len(Reads)
    BY <1>1, <1>2
  <2>2. at[p] <= at[Len(Reads)]
    BY <1>2, <1>7, <2>1, LaterPart
  <2>3. at[Len(Reads)] = Len(Index) /\ at[p] = x + n /\ x \in Nat
    BY <1>7, <2>1 DEF Lies
  <2>4. n \in Nat /\ k \in 1..n
    BY <1>3, <1>6 DEF f
  <2>5. Len(Index) \in Nat
    BY <1>2
  <2>. HIDE DEF x, n
  <2>6. x + k \in 1..Len(Index)
    BY <2>2, <2>3, <2>4, <2>5
  <2>. QED BY <2>6 DEF x
<1>10. Index[at[p - 1] + k] = parts[p][i]
  BY <1>5, <1>8 DEF f, P
<1>11. at[p - 1] + k \in DOMAIN Index
  BY <1>2, <1>9
<1>. QED BY <1>10, <1>11 DEF ToSet

(* A line that is torn costs no more than itself and the one after it, and *)
(* what is read is in the order of writing, for any parts and whatever was *)
(* torn (store/writer.py, append() and iter_index()).                      *)
THEOREM TornCosts == Spec => []TornCostsTwo
<1>1. FileInv => TornCostsTwo
  <2>. SUFFICES ASSUME FileInv PROVE TornCostsTwo
    OBVIOUS
  <2>1. ASSUME NEW p \in DOMAIN parts, NEW i \in DOMAIN parts[p],
               ~\E j \in {i - 1, i} \cap DOMAIN parts[p] : parts[p][j].cut # "none"
        PROVE  parts[p][i] \in ToSet(Index)
    <3>1. parts[p] \in Seq(Fragment)
      BY DEF FileInv
    <3>2. i \in Nat /\ (i = 1 \/ i - 1 \in DOMAIN parts[p])
      BY <3>1
    <3>3. parts[p][i].cut = "none" /\ (i = 1 \/ parts[p][i - 1].cut = "none")
      BY <2>1, <3>2
    <3>4. Begins(parts[p], i) /\ Parses(parts[p], i)
      BY <3>3 DEF Begins, Parses, BodyOnly
    <3>. QED BY <3>4, TakenIsRead
  <2>2. \A i, j \in DOMAIN Index : i < j => Index[i].event < Index[j].event
    <3>1. Index \in Seq(Fragment)
          /\ \A k, l \in 1..Len(Index) : k < l => Index[k].event < Index[l].event
      BY IndexIs
    <3>2. DOMAIN Index = 1..Len(Index)
      BY <3>1
    <3>. QED BY <3>1, <3>2
  <2>. QED BY <2>1, <2>2 DEF TornCostsTwo
<1>. QED BY <1>1, FileInit, FileStep, PTL DEF Spec

(* Each line of p is whole, but for the newline of the last.               *)
Whole(p) ==
    \A i \in DOMAIN p :
        Begins(p, i) => p[i].cut = "none" \/ (p[i].cut = "newline" /\ i = Len(p))

(* Of such a part every line is read.                                      *)
LEMMA AllBegin ==
    ASSUME NEW p \in Seq(Fragment), Whole(p)
    PROVE  \A i \in DOMAIN p : Begins(p, i) /\ ~BodyOnly(p, i)
<1>1. Len(p) \in Nat /\ DOMAIN p = 1..Len(p)
  OBVIOUS
<1>. DEFINE bad == {i \in 0..Len(p) : i # 0 /\ ~Begins(p, i)}
<1>2. bad \subseteq 0..Len(p) /\ 0 \notin bad
  OBVIOUS
<1>3. ASSUME NEW i \in 1..Len(p), i - 1 \notin bad PROVE i \notin bad
  <2>1. CASE i = 1
    BY <2>1 DEF Begins
  <2>2. CASE i # 1
    <3>1. i - 1 \in DOMAIN p /\ i - 1 \in 0..Len(p) /\ i - 1 # 0 /\ i - 1 # Len(p)
      BY <1>1, <2>2
    <3>2. Begins(p, i - 1)
      BY <1>3, <3>1
    <3>3. p[i - 1].cut = "none"
      BY <3>1, <3>2 DEF Whole
    <3>. QED BY <3>3 DEF Begins
  <2>. QED BY <2>1, <2>2
<1>4. bad = {}
  <2>. HIDE DEF bad
  <2>. QED BY <1>1, <1>2, <1>3, NoneBad
<1>5. ASSUME NEW i \in DOMAIN p PROVE Begins(p, i) /\ ~BodyOnly(p, i)
  <2>1. i \in 0..Len(p) /\ i # 0
    BY <1>1
  <2>2. Begins(p, i)
    BY <1>4, <2>1
  <2>3. p[i].cut = "none" \/ p[i].cut = "newline"
    BY <2>2 DEF Whole
  <2>. QED BY <2>2, <2>3 DEF BodyOnly
<1>. QED BY <1>5

(* Where the verifier complains of no line, iter_index() reads every line. *)
LEMMA CleanReadsAll ==
    ASSUME FileInv, Unread = {}, Unsigned = {}
    PROVE  ToSet(Fragments) \subseteq ToSet(Index)
<1>1. ASSUME NEW p \in DOMAIN parts PROVE Read(parts[p]) = parts[p]
  <2>1. parts[p] \in Seq(Fragment)
    BY DEF FileInv
  <2>. DEFINE P == parts[p]
  <2>2. ASSUME NEW i \in DOMAIN P, Begins(P, i)
        PROVE  P[i].cut = "none" \/ (P[i].cut = "newline" /\ i = Len(P))
    <3>1. <<p, i>> \in Places
      BY DEF Places
    <3>2. ~BodyOnly(P, i)
      BY <2>2, <3>1 DEF Unread
    <3>3. ~(P[i].cut = "signature" \/ (P[i].cut = "newline" /\ i < Len(P)))
      BY <2>2, <3>1 DEF Unsigned
    <3>4. P[i].cut \in Cuts /\ i \in 1..Len(P) /\ Len(P) \in Nat
      <4>1. P[i] \in Fragment
        BY <2>1
      <4>. QED BY <2>1, <4>1 DEF Fragment
    <3>. QED BY <3>2, <3>3, <3>4 DEF BodyOnly, Cuts
  <2>. HIDE DEF P
  <2>3. P \in Seq(Fragment)
    BY <2>1 DEF P
  <2>4. \A i \in DOMAIN P : Begins(P, i) /\ ~BodyOnly(P, i)
    <3>1. Whole(P)
      BY <2>2 DEF Whole, P
    <3>. QED BY <2>3, <3>1, AllBegin
  <2>5. DOMAIN P \subseteq {i \in DOMAIN P : Begins(P, i) /\ Parses(P, i)}
    BY <2>4 DEF Parses
  <2>6. Read(P) = P
    BY <2>3, <2>5, FieldsWhole DEF Read
  <2>. QED BY <2>6 DEF P
<1>2. Reads = parts
  <2>1. parts = [p \in DOMAIN parts |-> parts[p]]
    BY DEF FileInv
  <2>. QED BY <1>1, <2>1 DEF Reads
<1>3. Index = Fragments
  BY <1>2, IndexIs DEF Fragments
<1>. QED BY <1>3

(* A store of which every line is whole and has got its head is clean.     *)
LEMMA WholeIsClean ==
    ASSUME FileInv, ~appending,
           \A f \in ToSet(Fragments) : f \in Claimed /\ f.cut = "none"
    PROVE  Clean
<1>0. /\ Fragments \in Seq(Fragment) /\ Len(Fragments) \in Nat
      /\ DOMAIN Fragments = 1..Len(Fragments) /\ Counted(Fragments, head, FALSE)
      /\ parts \in Seq(Seq(Fragment)) /\ head.seq \in Nat
  <2>1. appending = FALSE
    BY DEF FileInv
  <2>2. Counted(Fragments, head, FALSE)
    BY <2>1 DEF FileInv
  <2>3. Fragments \in Seq(Fragment)
    BY OpenedIs
  <2>4. parts \in Seq(Seq(Fragment)) /\ head.seq \in Nat
    BY DEF FileInv
  <2>5. Len(Fragments) \in Nat /\ DOMAIN Fragments = 1..Len(Fragments)
    BY <2>3, LenProperties
  <2>. QED BY <2>2, <2>3, <2>4, <2>5, Zenon
<1>1. ASSUME NEW p \in DOMAIN parts, NEW i \in DOMAIN parts[p] PROVE parts[p][i].cut = "none"
  <2>1. PICK at : Lies(at, parts, Fragments)
    BY <1>0, FlattenLies DEF Fragments
  <2>2. /\ p \in 1..Len(parts) /\ i \in 1..Len(parts[p]) /\ Len(parts) \in Nat
        /\ Len(parts[p]) \in Nat
    BY <1>0
  <2>3. Fragments[at[p - 1] + i] = parts[p][i]
    BY <2>1, <2>2 DEF Lies
  <2>4. at[p - 1] + i \in 1..Len(Fragments)
    <3>1. /\ p \in 0..Len(parts) /\ p - 1 \in 0..Len(parts) /\ Len(parts) \in p..Len(parts)
      BY <2>2
    <3>2. at[p] <= at[Len(parts)]
      BY <1>0, <2>1, <3>1, LaterPart
    <3>. DEFINE x == at[p - 1]
                n == Len(parts[p])
    <3>3. at[Len(parts)] = Len(Fragments) /\ at[p] = x + n /\ x \in Nat
      BY <2>1, <2>2, <3>1 DEF Lies
    <3>4. n \in Nat /\ i \in 1..n
      BY <2>2
    <3>. HIDE DEF x, n
    <3>5. x + i \in 1..Len(Fragments)
      BY <1>0, <3>2, <3>3, <3>4
    <3>. QED BY <3>5 DEF x
  <2>5. parts[p][i] \in ToSet(Fragments)
    BY <1>0, <2>3, <2>4 DEF ToSet
  <2>. QED BY <2>5
<1>2. Unread = {} /\ Unsigned = {}
  <2>1. ASSUME NEW at \in Places PROVE parts[at[1]][at[2]].cut = "none"
    <3>1. at[1] \in DOMAIN parts /\ at[2] \in DOMAIN parts[at[1]]
      BY DEF Places
    <3>. QED BY <1>1, <3>1
  <2>2. Unread = {}
    BY <2>1 DEF Unread, BodyOnly
  <2>3. Unsigned = {}
    BY <2>1 DEF Unsigned
  <2>. QED BY <2>2, <2>3
<1>3. Records = Fragments
  <2>1. ASSUME NEW p \in DOMAIN parts PROVE Tabbed(parts[p]) = parts[p]
    <3>. DEFINE P == parts[p]
    <3>1. P \in Seq(Fragment) /\ \A i \in DOMAIN P : P[i].cut = "none"
      BY <1>0, <1>1
    <3>. HIDE DEF P
    <3>2. \A i \in DOMAIN P : Begins(P, i) /\ ~BodyOnly(P, i)
      <4>1. Whole(P)
        BY <3>1 DEF Whole, P
      <4>. QED BY <3>1, <4>1, AllBegin
    <3>3. DOMAIN P \subseteq {i \in DOMAIN P : Begins(P, i) /\ ~BodyOnly(P, i)}
      BY <3>2
    <3>4. Tabbed(P) = P
      BY <3>1, <3>3, FieldsWhole DEF Tabbed
    <3>. QED BY <3>4 DEF P
  <2>2. parts = [p \in DOMAIN parts |-> parts[p]]
    BY <1>0
  <2>3. [p \in DOMAIN parts |-> Tabbed(parts[p])] = parts
    BY <2>1, <2>2
  <2>. QED BY <2>3 DEF Records, Fragments
<1>. DEFINE w == Fragments
<1>4. ASSUME NEW k \in 1..Len(w)
      PROVE  /\ w[k].event = k /\ w[k].seq <= head.seq /\ w[k].seq \in Nat
             /\ \A l \in 1..Len(w) : w[l].seq = w[k].seq => l <= k
  <2>1. \A l \in 1..Len(w) : w[l] \in ToSet(w) /\ w[l].event = l /\ w[l] \in Fragment
    <3>1. \A l \in 1..Len(w) : w[l] \in Fragment /\ l \in DOMAIN w
      BY <1>0
    <3>2. \A l \in 1..Len(w) : w[l] \in ToSet(w)
      BY <3>1 DEF ToSet
    <3>3. \A l \in 1..Len(w) : w[l].event = l
      BY <1>0 DEF Counted
    <3>. QED BY <3>1, <3>2, <3>3
  <2>2. w[k] \in Claimed
    BY <2>1
  <2>3. w[k].seq <= head.seq /\ \A g \in ToSet(w) : g.seq = w[k].seq => g.event <= w[k].event
    BY <2>2 DEF Claimed
  <2>. QED BY <2>1, <2>3 DEF Fragment
<1>. HIDE DEF w
<1>5. ASSUME NEW k \in 1..Len(w)
      PROVE  w[k].seq = IF k = 1 THEN 1 ELSE w[k - 1].seq + 1
  <2>0. Len(w) \in Nat /\ Counted(w, head, FALSE)
    BY <1>0 DEF w
  <2>1. CASE k = 1
    BY <2>0, <2>1 DEF Counted
  <2>2. CASE k # 1
    <3>1. k - 1 \in 1..(Len(w) - 1) /\ k - 1 \in 1..Len(w) /\ (k - 1) + 1 = k /\ ~(k <= k - 1)
      BY <2>0, <2>2
    <3>2. w[(k - 1) + 1].seq \in {w[k - 1].seq, w[k - 1].seq + 1}
      BY <2>0, <3>1 DEF Counted
    <3>3. w[k].seq # w[k - 1].seq
      BY <1>4, <3>1
    <3>. QED BY <2>2, <3>1, <3>2, <3>3
  <2>. QED BY <2>1, <2>2
<1>6. OutOfSequence = {}
  <2>1. DOMAIN Records = 1..Len(w) /\ Records = w
    BY <1>0, <1>3 DEF w
  <2>. QED BY <1>5, <2>1 DEF OutOfSequence
<1>7. ~HeadError
  <2>0. Len(w) \in Nat /\ Counted(w, head, FALSE) /\ w \in Seq(Fragment) /\ Records = w
    BY <1>0, <1>3 DEF w
  <2>1. CASE Len(w) = 0
    <3>1. w = <<>> /\ head.seq = 0
      BY <2>0, <2>1 DEF Counted
    <3>. QED BY <2>0, <3>1 DEF HeadError
  <2>2. CASE Len(w) # 0
    <3>1. Len(w) \in 1..Len(w) /\ w # <<>>
      BY <2>0, <2>2
    <3>2. w[Len(w)].seq <= head.seq /\ w[Len(w)].event = Len(w) /\ w[Len(w)].seq \in Nat
      BY <1>4, <3>1
    <3>3. w[Len(w)].seq \in {head.seq, head.seq + 1}
      BY <2>0, <2>2 DEF Counted
    <3>4. w[Len(w)].seq = head.seq
      BY <1>0, <3>2, <3>3
    <3>5. head.event = Len(w)
      BY <2>0, <2>2, <3>4 DEF Counted
    <3>. QED BY <2>0, <3>1, <3>2, <3>4, <3>5 DEF HeadError
  <2>. QED BY <2>1, <2>2
<1>. QED BY <1>2, <1>6, <1>7 DEF Clean

(* A published record that is lost makes the verifier complain, for ever;  *)
(* and it complains of nothing where nothing went wrong (store/verify.py). *)
THEOREM LossIsReported == Spec => []LossReported
<1>1. FileInv => LossReported
  <2>. SUFFICES ASSUME FileInv PROVE LossReported
    OBVIOUS
  <2>1. Clean => Claimed \subseteq ToSet(Index)
    BY CleanReadsAll DEF Clean, Claimed
  <2>. QED BY <2>1, WholeIsClean DEF LossReported
<1>. QED BY <1>1, FileInit, FileStep, PTL DEF Spec
=============================================================================
