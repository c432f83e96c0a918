----------------------------- MODULE UnitProofs -----------------------------
(***************************************************************************)
(* The choice of a demonstration, the fairness of the generator and the    *)
(* evenness of a list, for any pool, any number of units and any draws of  *)
(* the generator.                                                          *)
(***************************************************************************)
EXTENDS UnitLists, FiniteSetTheorems, SequenceTheorems, NaturalsInduction,
        WellFoundedInduction, TLAPS

(* Of some natural numbers one is the least.                               *)
LEMMA LeastOf ==
    ASSUME NEW S, S \subseteq Nat, S # {}
    PROVE  \E m \in S : \A k \in S : ~(k < m)
<1>. DEFINE R == OpToRel(<, Nat)
<1>1. IsWellFoundedOn(R, Nat)
  BY NatLessThanWellFounded
<1>2. PICK m \in S : \A k \in S : ~(<<k, m>> \in R)
  <2>. HIDE DEF R
  <2>. QED BY <1>1, WFMin
<1>3. \A k \in S : k < m => <<k, m>> \in R
  BY DEF OpToRel
<1>. QED BY <1>2, <1>3

(* Division with remainder, and that it has one answer only.               *)
LEMMA Division ==
    ASSUME NEW a \in Nat, NEW n \in Nat \ {0}
    PROVE  /\ a \div n \in Nat /\ a % n \in 0..(n - 1)
           /\ a = n * (a \div n) + (a % n)
OBVIOUS

(* The next multiple of a number.                                        *)
LEMMA Product ==
    ASSUME NEW n \in Nat, NEW i \in Nat
    PROVE  n * i \in Nat /\ n * (i + 1) = n * i + n
<1>1. n * i \in Nat
  OBVIOUS
<1>2. n * (i + 1) = n * i + n
  OBVIOUS
<1>. QED BY <1>1, <1>2

(* A multiple grows with its factor.                                     *)
LEMMA ProductGrows ==
    ASSUME NEW n \in Nat, NEW i \in Nat, NEW j \in Nat, i <= j
    PROVE  n * i <= n * j
OBVIOUS

(* A quotient and a remainder are those of the number they make.         *)
LEMMA DivisionIs ==
    ASSUME NEW n \in Nat \ {0}, NEW q \in Nat, NEW r \in 0..(n - 1)
    PROVE  /\ n * q + r \in Nat
           /\ (n * q + r) \div n = q /\ (n * q + r) % n = r
<1>. DEFINE a == n * q + r
            d == a \div n
<1>1. a \in Nat /\ n * q \in Nat
  <2>1. n \in Nat /\ n * q \in Nat
    BY Product
  <2>. QED BY <2>1
<1>2. a = n * q + r
  OBVIOUS
<1>. HIDE DEF a
<1>3. d \in Nat /\ a % n \in 0..(n - 1) /\ a = n * d + (a % n)
  BY <1>1, Division
<1>. HIDE DEF d
<1>4. n * d \in Nat /\ n * (d + 1) = n * d + n /\ n * (q + 1) = n * q + n
  <2>1. n \in Nat
    OBVIOUS
  <2>. QED BY <1>3, <2>1, Product
<1>5. ~(d < q)
  <2>. SUFFICES ASSUME d < q PROVE FALSE
    OBVIOUS
  <2>1. n * (d + 1) <= n * q
    <3>1. n \in Nat /\ d + 1 \in Nat /\ d + 1 <= q
      BY <1>3
    <3>. QED BY <3>1, ProductGrows
  <2>. QED BY <1>1, <1>2, <1>3, <1>4, <2>1
<1>6. ~(q < d)
  <2>. SUFFICES ASSUME q < d PROVE FALSE
    OBVIOUS
  <2>1. n * (q + 1) <= n * d
    <3>1. n \in Nat /\ q + 1 \in Nat /\ q + 1 <= d
      BY <1>3
    <3>. QED BY <3>1, <1>3, ProductGrows
  <2>. QED BY <1>1, <1>2, <1>3, <1>4, <2>1
<1>7. d = q
  BY <1>3, <1>5, <1>6
<1>8. a % n = r
  <2>1. n * d = n * q
    BY <1>7
  <2>. QED BY <1>1, <1>2, <1>3, <2>1
<1>. QED BY <1>1, <1>7, <1>8 DEF a, d
-----------------------------------------------------------------------------
(* Each remainder below n has as many words as there are multiples of n in *)
(* Limit(n).                                                               *)
WordsOf(n, r) == {x \in 0..(Limit(n) - 1) : x % n = r}

(* Words are taken below the last multiple that fits.                    *)
LEMMA LimitIs ==
    ASSUME NEW n \in Nat \ {0}
    PROVE  Word \div n \in Nat /\ Limit(n) = n * (Word \div n)
<1>1. Word \in Nat
  BY NumbersAssumption
<1>2. /\ Word \div n \in Nat /\ Word % n \in 0..(n - 1)
      /\ Word = n * (Word \div n) + (Word % n)
  BY <1>1, Division
<1>3. n * (Word \div n) \in Nat
  <2>. DEFINE k == Word \div n
  <2>1. k \in Nat /\ n \in Nat
    BY <1>2
  <2>. HIDE DEF k
  <2>2. n * k \in Nat
    BY <2>1, Product
  <2>. QED BY <2>2 DEF k
<1>. QED BY <1>2, <1>3 DEF Limit

(* Each remainder has as many words below it.                            *)
LEMMA WordsCount ==
    ASSUME NEW n \in Nat \ {0}, NEW r \in 0..(n - 1)
    PROVE  IsFiniteSet(WordsOf(n, r)) /\ Cardinality(WordsOf(n, r)) = Word \div n
<1>. DEFINE k == Word \div n
            S == 0..(k - 1)
            f == [q \in S |-> n * q + r]
<1>1. k \in Nat /\ Limit(n) = n * k
  BY LimitIs
<1>. HIDE DEF k
<1>2. /\ n \in Nat
      /\ \A q \in Nat : n * q \in Nat /\ n * (q + 1) = n * q + n
  BY Product
<1>3. ASSUME NEW q \in S PROVE f[q] \in WordsOf(n, r)
  <2>1. q \in Nat /\ q + 1 \in Nat /\ q + 1 <= k
    BY <1>1
  <2>2. n * (q + 1) <= n * k
    BY <1>1, <1>2, <2>1, ProductGrows
  <2>3. n * q + r \in 0..(n * k - 1)
    BY <1>1, <1>2, <2>1, <2>2
  <2>4. (n * q + r) % n = r
    BY <2>1, DivisionIs
  <2>. QED BY <1>1, <2>3, <2>4 DEF WordsOf
<1>4. ASSUME NEW x \in WordsOf(n, r) PROVE \E q \in S : f[q] = x
  <2>1. x \in Nat /\ x < n * k /\ x % n = r
    BY <1>1, <1>2, <1>4 DEF WordsOf
  <2>. DEFINE q == x \div n
  <2>2. q \in Nat /\ x = n * q + r
    BY <2>1, Division
  <2>. HIDE DEF q
  <2>3. ~(k <= q)
    <3>. SUFFICES ASSUME k <= q PROVE FALSE
      OBVIOUS
    <3>1. n * k <= n * q
      BY <1>1, <1>2, <2>2, ProductGrows
    <3>. QED BY <1>1, <1>2, <2>1, <2>2, <3>1
  <2>4. q \in S
    BY <1>1, <2>2, <2>3
  <2>. QED BY <2>2, <2>4
<1>5. ASSUME NEW q \in S, NEW p \in S, f[q] = f[p] PROVE q = p
  <2>1. q \in Nat /\ p \in Nat /\ n * q + r = n * p + r
    BY <1>1, <1>5
  <2>2. (n * q + r) \div n = q /\ (n * p + r) \div n = p
    BY <2>1, DivisionIs
  <2>. QED BY <2>1, <2>2
<1>6. f \in Bijection(S, WordsOf(n, r))
  <2>1. f \in [S -> WordsOf(n, r)]
    BY <1>3
  <2>. HIDE DEF f, S
  <2>. QED BY <1>4, <1>5, <2>1 DEF Bijection, Injection, Surjection, IsInjective
<1>7. IsFiniteSet(S) /\ Cardinality(S) = k
  <2>1. 0 \in Int /\ k - 1 \in Int
    BY <1>1
  <2>2. IsFiniteSet(S) /\ Cardinality(S) = IF 0 > k - 1 THEN 0 ELSE (k - 1) - 0 + 1
    BY <2>1, FS_Interval
  <2>. QED BY <1>1, <2>2
<1>8. ExistsBijection(S, WordsOf(n, r))
  <2>. HIDE DEF f, S
  <2>. QED BY <1>6 DEF ExistsBijection
<1>. HIDE DEF S
<1>. QED BY <1>7, <1>8, FS_Bijection DEF k
-----------------------------------------------------------------------------
(* A list of the n members of S, each once.                                *)
Arrangement(t, n, S) ==
    /\ t \in [1..n -> S]
    /\ \A i, j \in 1..n : t[i] = t[j] => i = j
    /\ \A e \in S : \E i \in 1..n : t[i] = e

(* Some numbers can be put in order, and then each is there once.          *)
Ascending(s, n, S) == s \in [1..n -> S] /\ \A i, j \in 1..n : i < j => s[i] < s[j]

(* A finite set of numbers can be put in order.                          *)
LEMMA OrderExists ==
    ASSUME NEW E, E \subseteq Nat, IsFiniteSet(E)
    PROVE  \E s : Ascending(s, Cardinality(E), E)
<1>. DEFINE Bad(n) == \E S : /\ S \subseteq Nat /\ IsFiniteSet(S) /\ Cardinality(S) = n
                            /\ ~\E s : Ascending(s, n, S)
            bad == {n \in Nat : Bad(n)}
<1>1. bad = {}
  <2>. SUFFICES ASSUME bad # {} PROVE FALSE
    OBVIOUS
  <2>1. bad \subseteq Nat /\ \A n \in bad : Bad(n)
    OBVIOUS
  <2>2. \A n \in Nat : n \notin bad => ~Bad(n)
    OBVIOUS
  <2>. HIDE DEF bad, Bad
  <2>3. PICK n \in bad : \A k \in bad : ~(k < n)
    BY <2>1, LeastOf
  <2>4. PICK S : /\ S \subseteq Nat /\ IsFiniteSet(S) /\ Cardinality(S) = n
                 /\ ~\E s : Ascending(s, n, S)
    BY <2>1, <2>3 DEF Bad
  <2>5. S # {}
    <3>. SUFFICES ASSUME S = {} PROVE FALSE
      OBVIOUS
    <3>1. n = 0
      BY <2>4, FS_EmptySet
    <3>. DEFINE s == [i \in 1..n |-> i]
    <3>2. 1..n = {}
      BY <3>1
    <3>3. Ascending(s, n, S)
      BY <3>2 DEF Ascending
    <3>. HIDE DEF s
    <3>. QED BY <2>4, <3>3
  <2>6. PICK m \in S : \A k \in S : ~(k < m)
    BY <2>4, <2>5, LeastOf
  <2>. DEFINE R == S \ {m}
  <2>7. R \subseteq Nat /\ IsFiniteSet(R) /\ Cardinality(R) = n - 1 /\ n - 1 \in Nat
    <3>1. IsFiniteSet(R) /\ Cardinality(R) = n - 1
      BY <2>4, <2>6, FS_RemoveElement
    <3>2. Cardinality(R) \in Nat
      BY <3>1, FS_CardinalityType
    <3>. QED BY <2>4, <3>1, <3>2
  <2>8. PICK s : Ascending(s, n - 1, R)
    <3>1. n - 1 < n /\ n \in Nat
      BY <2>1, <2>3, <2>7
    <3>2. n - 1 \notin bad
      BY <2>3, <3>1
    <3>3. ~Bad(n - 1)
      BY <2>2, <2>7, <3>2
    <3>. HIDE DEF R
    <3>. QED BY <2>7, <3>3 DEF Bad
  <2>. DEFINE t == [i \in 1..n |-> IF i = 1 THEN m ELSE s[i - 1]]
  <2>9. n \in Nat \ {0}
    BY <2>1, <2>3, <2>7
  <2>10. \A i \in 2..n : i - 1 \in 1..(n - 1)
    BY <2>9
  <2>11. \A i \in 2..n : t[i] = s[i - 1] /\ s[i - 1] \in R
    BY <2>8, <2>9, <2>10 DEF Ascending
  <2>12. t[1] = m
    BY <2>9
  <2>13. t \in [1..n -> S]
    <3>1. \A i \in 1..n : i = 1 \/ i \in 2..n
      BY <2>9
    <3>2. \A i \in 1..n : t[i] \in S
      BY <2>6, <2>11, <2>12, <3>1
    <3>. QED BY <3>2
  <2>14. ASSUME NEW i \in 1..n, NEW j \in 1..n, i < j PROVE t[i] < t[j]
    <3>1. j \in 2..n /\ j - 1 \in 1..(n - 1)
      BY <2>9, <2>14
    <3>2. CASE i = 1
      <4>1. t[j] \in S /\ t[j] # m /\ t[j] \in Nat /\ m \in Nat
        BY <2>4, <2>6, <2>11, <3>1
      <4>. QED BY <2>6, <2>12, <3>2, <4>1
    <3>3. CASE i # 1
      <4>1. i \in 2..n /\ i - 1 \in 1..(n - 1) /\ i - 1 < j - 1
        BY <2>9, <2>14, <3>3
      <4>2. s[i - 1] < s[j - 1]
        BY <2>8, <3>1, <4>1 DEF Ascending
      <4>. QED BY <2>11, <3>1, <4>1, <4>2
    <3>. QED BY <3>2, <3>3
  <2>15. Ascending(t, n, S)
    <3>. HIDE DEF t
    <3>. QED BY <2>13, <2>14 DEF Ascending
  <2>. HIDE DEF t
  <2>. QED BY <2>4, <2>15
<1>2. Cardinality(E) \in Nat
  BY FS_CardinalityType
<1>3. ~Bad(Cardinality(E))
  BY <1>1, <1>2
<1>. QED BY <1>3

(* Listed, a set has each of its members once.                           *)
LEMMA ListedIs ==
    ASSUME NEW E, E \subseteq Nat, IsFiniteSet(E)
    PROVE  /\ Arrangement(Listed(E), Cardinality(E), E)
           /\ Len(Listed(E)) = Cardinality(E) /\ Cardinality(E) \in Nat
<1>. DEFINE n == Cardinality(E)
            s == Listed(E)
<1>1. n \in Nat
  BY FS_CardinalityType
<1>2. Ascending(s, n, E)
  BY OrderExists DEF Listed, Ascending
<1>. HIDE DEF s, n
<1>3. s \in [1..n -> E] /\ \A i, j \in 1..n : i < j => s[i] < s[j]
  BY <1>2 DEF Ascending
<1>3a. \A i \in 1..n : s[i] \in Nat /\ i \in Nat
  <2>1. \A i \in 1..n : s[i] \in E
    BY <1>3
  <2>2. \A i \in 1..n : i \in Nat
    BY <1>1
  <2>. QED BY <2>1, <2>2
<1>4. ASSUME NEW i \in 1..n, NEW j \in 1..n, s[i] = s[j] PROVE i = j
  <2>1. s[i] \in Nat /\ i \in Nat /\ j \in Nat
    BY <1>3a
  <2>2. ~(i < j) /\ ~(j < i)
    BY <1>3, <1>4, <2>1
  <2>. QED BY <2>1, <2>2
<1>5. s \in Injection(1..n, E)
  BY <1>3, <1>4 DEF Injection, IsInjective
<1>6. Cardinality(1..n) = n
  BY <1>1, FS_Interval
<1>7. s \in Surjection(1..n, E)
  BY <1>5, <1>6, FS_Injection DEF n
<1>8. \A e \in E : \E i \in 1..n : s[i] = e
  BY <1>7 DEF Surjection
<1>9. Arrangement(s, n, E)
  BY <1>3, <1>4, <1>8 DEF Arrangement
<1>10. Len(s) = n
  <2>1. s \in [1..n -> E]
    BY <1>3
  <2>. HIDE DEF n
  <2>. QED BY <1>1, <2>1
<1>. QED BY <1>1, <1>9, <1>10 DEF s, n

(* Two positions that change places.                                       *)
LEMMA SwapIs ==
    ASSUME NEW n \in Nat, NEW S, NEW t, Arrangement(t, n, S),
           NEW i \in 1..n, NEW j \in 1..n
    PROVE  /\ Arrangement(Swap(t, i, j), n, S)
           /\ Swap(t, i, j)[i] = t[j] /\ Swap(t, i, j)[j] = t[i]
           /\ \A k \in 1..n : k # i /\ k # j => Swap(t, i, j)[k] = t[k]
<1>. DEFINE u == Swap(t, i, j)
<1>1. t \in [1..n -> S]
  BY DEF Arrangement
<1>2. /\ u \in [1..n -> S] /\ u[i] = t[j] /\ u[j] = t[i]
      /\ \A k \in 1..n : k # i /\ k # j => u[k] = t[k]
  BY <1>1 DEF Swap
<1>. HIDE DEF u
<1>3. \A a, b \in 1..n : u[a] = u[b] => a = b
  BY <1>2 DEF Arrangement
<1>4. \A e \in S : \E k \in 1..n : u[k] = e
  <2>. SUFFICES ASSUME NEW e \in S PROVE \E k \in 1..n : u[k] = e
    OBVIOUS
  <2>1. PICK k \in 1..n : t[k] = e
    BY DEF Arrangement
  <2>. QED BY <1>2, <2>1
<1>5. Arrangement(u, n, S)
  BY <1>2, <1>3, <1>4 DEF Arrangement
<1>. QED BY <1>2, <1>5 DEF u

(* The list after i of the swaps, from what g has of fewer.                *)
SwapAt(g, s, c, i) ==
    IF i = 0 THEN s ELSE Swap(g[i - 1], Len(s) + 1 - i, c[Len(s) + 1 - i])
Swaps(g, s, c, m) == g = [i \in 0..m |-> SwapAt(g, s, c, i)]

(* One more swap can always be made.                                     *)
LEMMA SwapsLonger ==
    ASSUME NEW s, NEW c, NEW n \in Nat, \E g : Swaps(g, s, c, n)
    PROVE  \E g : Swaps(g, s, c, n + 1)
<1>1. PICK g : Swaps(g, s, c, n)
  OBVIOUS
<1>. DEFINE h == [i \in 0..(n + 1) |-> IF i = n + 1 THEN SwapAt(g, s, c, i) ELSE g[i]]
<1>2. ASSUME NEW i \in 0..(n + 1) PROVE h[i] = SwapAt(h, s, c, i)
  <2>1. i = 0 \/ (i - 1 \in 0..n /\ i - 1 \in 0..(n + 1) /\ i - 1 # n + 1)
    OBVIOUS
  <2>2. i # 0 => h[i - 1] = g[i - 1]
    BY <2>1
  <2>3. i # n + 1 => i \in 0..n /\ h[i] = g[i]
    OBVIOUS
  <2>4. i # n + 1 => g[i] = SwapAt(g, s, c, i)
    BY <1>1, <2>3, Zenon DEF Swaps
  <2>5. h[i] = SwapAt(g, s, c, i)
    BY <2>3, <2>4
  <2>. HIDE DEF h
  <2>. QED BY <2>2, <2>5 DEF SwapAt
<1>3. h = [i \in 0..(n + 1) |-> h[i]]
  OBVIOUS
<1>. HIDE DEF h
<1>4. Swaps(h, s, c, n + 1)
  BY <1>2, <1>3, Zenon DEF Swaps
<1>. QED BY <1>4

(* A list can be swapped any number of times.                            *)
LEMMA SwapsExist ==
    ASSUME NEW s, NEW c, NEW n \in Nat
    PROVE  \E g : Swaps(g, s, c, n)
<1>. DEFINE bad == {k \in Nat : ~\E g : Swaps(g, s, c, k)}
<1>1. 0 \notin bad
  <2>. DEFINE h == [i \in 0..0 |-> s]
  <2>1. \A i \in 0..0 : SwapAt(h, s, c, i) = s
    BY DEF SwapAt
  <2>2. Swaps(h, s, c, 0)
    BY <2>1 DEF Swaps
  <2>. HIDE DEF h
  <2>. QED BY <2>2
<1>2. \A k \in Nat : k \notin bad => k + 1 \notin bad
  BY SwapsLonger
<1>3. bad = {}
  <2>. SUFFICES ASSUME bad # {} PROVE FALSE
    OBVIOUS
  <2>1. bad \subseteq Nat
    OBVIOUS
  <2>. HIDE DEF bad
  <2>2. PICK k \in bad : \A j \in bad : ~(j < k)
    BY <2>1, LeastOf
  <2>3. k # 0 /\ k \in Nat
    BY <1>1, <2>1
  <2>4. k - 1 \in Nat /\ k - 1 < k /\ (k - 1) + 1 = k
    BY <2>3
  <2>5. k - 1 \notin bad
    BY <2>2, <2>4
  <2>. QED BY <1>2, <2>4, <2>5
<1>. QED BY <1>3

(* A shuffle ends with the last of its swaps.                            *)
LEMMA ShuffledIs ==
    ASSUME NEW s, NEW c, Len(s) \in Nat
    PROVE  \E g : /\ \A i \in 0..Len(s) : g[i] = SwapAt(g, s, c, i)
                  /\ Shuffled(s, c) = g[Len(s)]
<1>. DEFINE F == CHOOSE g : Swaps(g, s, c, Len(s))
<1>1. Swaps(F, s, c, Len(s))
  BY SwapsExist
<1>2. Shuffled(s, c) = F[Len(s)]
  BY Zenon DEF Shuffled, Swaps, SwapAt
<1>. HIDE DEF F
<1>3. \A i \in 0..Len(s) : F[i] = SwapAt(F, s, c, i)
  BY <1>1, Zenon DEF Swaps
<1>. QED BY <1>2, <1>3

(* A draw for position k is a position up to k.                            *)
LEMMA DrawsAre ==
    ASSUME NEW n \in Nat, NEW c \in Draws(n)
    PROVE  \A k \in 1..n : c[k] \in 1..k
<1>. SUFFICES ASSUME NEW k \in 1..n PROVE c[k] \in 1..k
  OBVIOUS
<1>1. c[k] \in 1..n /\ c[k] - 1 \in Below(k)
  BY DEF Draws
<1>2. PICK x \in 0..(Limit(k) - 1) : c[k] - 1 = x % k
  BY <1>1 DEF Below
<1>3. k \in Nat \ {0} /\ x \in Nat
  <2>1. k \in Nat \ {0}
    OBVIOUS
  <2>2. Limit(k) \in Nat
    <3>. DEFINE w == Word \div k
    <3>1. w \in Nat /\ Limit(k) = k * w
      BY <2>1, LimitIs
    <3>. HIDE DEF w
    <3>. QED BY <2>1, <3>1, Product
  <2>. QED BY <2>1, <2>2
<1>4. x % k \in 0..(k - 1)
  BY <1>3, Division
<1>. QED BY <1>1, <1>2, <1>3, <1>4

(* After each swap the list is still one of all the members, and what lies *)
(* from the position of the swap on is settled.                            *)
LEMMA SwapsArrange ==
    ASSUME NEW n \in Nat, NEW S, NEW s, Arrangement(s, n, S), Len(s) = n,
           NEW c \in Draws(n),
           NEW g, \A i \in 0..n : g[i] = SwapAt(g, s, c, i)
    PROVE  \A i \in 0..n : Arrangement(g[i], n, S)
<1>. DEFINE bad == {i \in 0..n : ~Arrangement(g[i], n, S)}
<1>1. 0 \notin bad
  BY DEF SwapAt
<1>2. ASSUME NEW i \in 1..n, Arrangement(g[i - 1], n, S) PROVE Arrangement(g[i], n, S)
  <2>1. i \in 0..n /\ i # 0 /\ n + 1 - i \in 1..n
    OBVIOUS
  <2>2. c[n + 1 - i] \in 1..n
    BY <2>1 DEF Draws
  <2>. DEFINE k == n + 1 - i
              t == g[i - 1]
  <2>3. g[i] = Swap(t, k, c[k])
    BY <2>1 DEF SwapAt
  <2>4. Arrangement(t, n, S) /\ k \in 1..n /\ c[k] \in 1..n
    BY <1>2, <2>1, <2>2
  <2>. HIDE DEF k, t
  <2>5. Arrangement(Swap(t, k, c[k]), n, S)
    BY <2>4, SwapIs, Zenon
  <2>. QED BY <2>3, <2>5
<1>3. bad = {}
  <2>. SUFFICES ASSUME bad # {} PROVE FALSE
    OBVIOUS
  <2>1. bad \subseteq 0..n /\ bad \subseteq Nat
    OBVIOUS
  <2>2. \A i \in 0..n : i \notin bad => Arrangement(g[i], n, S)
    OBVIOUS
  <2>3. \A i \in bad : ~Arrangement(g[i], n, S)
    OBVIOUS
  <2>. HIDE DEF bad
  <2>4. PICK i \in bad : \A j \in bad : ~(j < i)
    BY <2>1, LeastOf
  <2>5. i \in 1..n /\ i - 1 \in 0..n /\ i - 1 < i
    BY <1>1, <2>1
  <2>6. Arrangement(g[i - 1], n, S)
    BY <2>2, <2>4, <2>5
  <2>. QED BY <1>2, <2>3, <2>5, <2>6
<1>. QED BY <1>3

(* A place that a swap has filled is not touched again.                  *)
LEMMA SwapsSettle ==
    ASSUME NEW n \in Nat, NEW S, NEW s, Arrangement(s, n, S), Len(s) = n,
           NEW c \in Draws(n),
           NEW g, \A i \in 0..n : g[i] = SwapAt(g, s, c, i),
           NEW i \in 1..n
    PROVE  g[n][n + 1 - i] = g[i][n + 1 - i]
<1>. DEFINE p == n + 1 - i
            bad == {j \in i..n : g[j][p] # g[i][p]}
<1>1. p \in 1..n
  OBVIOUS
<1>2. ASSUME NEW j \in (i + 1)..n PROVE g[j][p] = g[j - 1][p]
  <2>. DEFINE k == n + 1 - j
  <2>1. j \in 0..n /\ j # 0 /\ k \in 1..n /\ k < p /\ j - 1 \in 0..n
    OBVIOUS
  <2>2. c[k] \in 1..k /\ c[k] \in 1..n
    BY <2>1, DrawsAre DEF Draws
  <2>3. g[j] = Swap(g[j - 1], k, c[k])
    BY <2>1 DEF SwapAt
  <2>4. Arrangement(g[j - 1], n, S)
    BY <2>1, SwapsArrange
  <2>. DEFINE t == g[j - 1]
  <2>5. p # k /\ p # c[k]
    BY <1>1, <2>1, <2>2
  <2>6. g[j] = Swap(t, k, c[k]) /\ Arrangement(t, n, S)
    BY <2>3, <2>4
  <2>. HIDE DEF k, p, t
  <2>7. Swap(t, k, c[k])[p] = t[p]
    <3>1. k \in 1..n /\ c[k] \in 1..n /\ Arrangement(t, n, S)
      BY <2>1, <2>2, <2>6
    <3>. DEFINE a == c[k]
    <3>. HIDE DEF a
    <3>2. /\ Arrangement(Swap(t, k, a), n, S)
          /\ Swap(t, k, a)[k] = t[a] /\ Swap(t, k, a)[a] = t[k]
          /\ \A m \in 1..n : m # k /\ m # a => Swap(t, k, a)[m] = t[m]
      <4>1. a \in 1..n
        BY <3>1 DEF a
      <4>. QED BY <3>1, <4>1, SwapIs
    <3>. QED BY <1>1, <2>5, <3>2 DEF a
  <2>. QED BY <2>6, <2>7 DEF t
<1>3. bad = {}
  <2>. SUFFICES ASSUME bad # {} PROVE FALSE
    OBVIOUS
  <2>1. bad \subseteq i..n /\ bad \subseteq Nat /\ i \notin bad
    OBVIOUS
  <2>2. \A j \in i..n : j \notin bad => g[j][p] = g[i][p]
    OBVIOUS
  <2>3. \A j \in bad : g[j][p] # g[i][p]
    OBVIOUS
  <2>. HIDE DEF bad
  <2>4. PICK j \in bad : \A k \in bad : ~(k < j)
    BY <2>1, LeastOf
  <2>5. j \in (i + 1)..n /\ j - 1 \in i..n /\ j - 1 < j
    BY <2>1
  <2>. QED BY <1>2, <2>2, <2>3, <2>4, <2>5
<1>4. n \in i..n
  OBVIOUS
<1>. QED BY <1>3, <1>4

(* A shuffled list is an arrangement of the same members.                  *)
LEMMA ShuffledArranges ==
    ASSUME NEW n \in Nat, NEW S, NEW s, Arrangement(s, n, S), Len(s) = n,
           NEW c \in Draws(n)
    PROVE  Arrangement(Shuffled(s, c), n, S)
<1>1. PICK g : /\ \A i \in 0..n : g[i] = SwapAt(g, s, c, i)
               /\ Shuffled(s, c) = g[n]
  BY ShuffledIs
<1>2. \A i \in 0..n : Arrangement(g[i], n, S)
  BY <1>1, SwapsArrange
<1>3. n \in 0..n
  OBVIOUS
<1>. QED BY <1>1, <1>2, <1>3

(* Two series of draws that give the same list are the same.               *)
LEMMA ShuffledOnce ==
    ASSUME NEW n \in Nat, NEW S, NEW s, Arrangement(s, n, S), Len(s) = n,
           NEW c \in Draws(n), NEW d \in Draws(n), Shuffled(s, c) = Shuffled(s, d)
    PROVE  c = d
<1>1. PICK g : /\ \A i \in 0..n : g[i] = SwapAt(g, s, c, i)
               /\ Shuffled(s, c) = g[n]
  BY ShuffledIs
<1>2. PICK h : /\ \A i \in 0..n : h[i] = SwapAt(h, s, d, i)
               /\ Shuffled(s, d) = h[n]
  BY ShuffledIs
<1>. DEFINE bad == {i \in 0..n : g[i] # h[i] \/ (i # 0 /\ c[n + 1 - i] # d[n + 1 - i])}
<1>3. ASSUME NEW i \in 1..n, g[i - 1] = h[i - 1]
      PROVE  g[i] = h[i] /\ c[n + 1 - i] = d[n + 1 - i]
  <2>. DEFINE p == n + 1 - i
              t == g[i - 1]
  <2>1. i \in 0..n /\ i - 1 \in 0..n /\ i # 0 /\ p \in 1..n
    OBVIOUS
  <2>2. c[p] \in 1..n /\ d[p] \in 1..n
    BY <2>1 DEF Draws
  <2>3. g[i] = Swap(t, p, c[p]) /\ h[i] = Swap(t, p, d[p])
    BY <1>1, <1>2, <1>3, <2>1 DEF SwapAt
  <2>4. Arrangement(t, n, S)
    BY <1>1, <2>1, SwapsArrange
  <2>5. g[n][p] = g[i][p] /\ h[n][p] = h[i][p]
    BY <1>1, <1>2, SwapsSettle
  <2>. HIDE DEF t, p
  <2>6. g[i][p] = t[c[p]] /\ h[i][p] = t[d[p]]
    <3>1. ASSUME NEW a \in 1..n PROVE Swap(t, p, a)[p] = t[a]
      BY <2>1, <2>4, <3>1, SwapIs
    <3>. QED BY <2>2, <2>3, <3>1
  <2>7. g[n] = h[n]
    BY <1>1, <1>2
  <2>8. t[c[p]] = t[d[p]]
    BY <2>5, <2>6, <2>7
  <2>9. c[p] = d[p]
    BY <2>2, <2>4, <2>8 DEF Arrangement
  <2>. QED BY <2>3, <2>9 DEF p
<1>4. g[0] = h[0]
  BY <1>1, <1>2 DEF SwapAt
<1>5. bad = {}
  <2>. SUFFICES ASSUME bad # {} PROVE FALSE
    OBVIOUS
  <2>1. bad \subseteq 0..n /\ bad \subseteq Nat /\ 0 \notin bad
    BY <1>4
  <2>2. \A i \in 0..n : i \notin bad => g[i] = h[i]
    OBVIOUS
  <2>3. \A i \in bad : g[i] # h[i] \/ c[n + 1 - i] # d[n + 1 - i]
    OBVIOUS
  <2>. HIDE DEF bad
  <2>4. PICK i \in bad : \A j \in bad : ~(j < i)
    BY <2>1, LeastOf
  <2>5. i \in 1..n /\ i - 1 \in 0..n /\ i - 1 < i
    BY <2>1
  <2>6. g[i - 1] = h[i - 1]
    BY <2>2, <2>4, <2>5
  <2>. QED BY <1>3, <2>3, <2>4, <2>5, <2>6
<1>6. \A k \in 1..n : c[k] = d[k]
  <2>. SUFFICES ASSUME NEW k \in 1..n PROVE c[k] = d[k]
    OBVIOUS
  <2>1. n + 1 - k \in 0..n /\ n + 1 - k # 0 /\ n + 1 - (n + 1 - k) = k
    OBVIOUS
  <2>. QED BY <1>5, <2>1
<1>7. c \in [1..n -> 1..n] /\ d \in [1..n -> 1..n]
  BY DEF Draws
<1>. QED BY <1>6, <1>7

(* Every remainder comes from equally many words, and no order of the      *)
(* entries from two series of draws, for any width of a word and any       *)
(* entries (rng.py, HashRng.below and HashRng.shuffled).                   *)
THEOREM FairDraws == Spec => []DrawsFair
<1>1. DrawsFair
  <2>1. ASSUME NEW n \in 1..Word, NEW r \in 0..(n - 1), NEW s \in 0..(n - 1)
        PROVE  Cardinality({x \in 0..(Limit(n) - 1) : x % n = r})
                  = Cardinality({x \in 0..(Limit(n) - 1) : x % n = s})
    <3>1. n \in Nat \ {0}
      BY NumbersAssumption
    <3>2. Cardinality(WordsOf(n, r)) = Cardinality(WordsOf(n, s))
      BY <3>1, WordsCount
    <3>. QED BY <3>2 DEF WordsOf
  <2>2. ASSUME NEW c \in Draws(Len(Listed(Entries))), NEW d \in Draws(Len(Listed(Entries))),
               Shuffled(Listed(Entries), c) = Shuffled(Listed(Entries), d)
        PROVE  c = d
    <3>. DEFINE s == Listed(Entries)
                n == Cardinality(Entries)
    <3>1. Arrangement(s, n, Entries) /\ Len(s) = n /\ n \in Nat
      BY ListedIs, NumbersAssumption
    <3>2. c \in Draws(n) /\ d \in Draws(n)
      BY <3>1
    <3>. HIDE DEF s, n
    <3>3. Shuffled(s, c) = Shuffled(s, d)
      BY <2>2 DEF s
    <3>. QED BY <3>1, <3>2, <3>3, ShuffledOnce
  <2>. QED BY <2>1, <2>2 DEF DrawsFair
<1>. QED BY <1>1, PTL
-----------------------------------------------------------------------------
(* The units of a group in which entry e was picked m[e] times.            *)
Units(m) == UNION {{e} \X (1..m[e]) : e \in Entries}

(* The units of a group are those that it has made.                      *)
LEMMA OfIs ==
    ASSUME NEW g
    PROVE  Of(g) = Units(made[g]) /\ Of(g)' = Units(made'[g])
BY DEF Of, Units

(* An entry has as many units as it was picked.                          *)
LEMMA UnitIn ==
    ASSUME NEW m, NEW e, NEW k
    PROVE  <<e, k>> \in Units(m) <=> e \in Entries /\ k \in 1..m[e]
BY DEF Units

(* A unit is one of an entry.                                            *)
LEMMA UnitIsPair ==
    ASSUME NEW m, NEW u \in Units(m)
    PROVE  \E e \in Entries : \E k \in 1..m[e] : u = <<e, k>>
BY DEF Units

(* A group that has picked nothing has no unit.                          *)
LEMMA NoUnits ==
    ASSUME NEW m, \A e \in Entries : m[e] = 0
    PROVE  IsFiniteSet(Units(m)) /\ Cardinality(Units(m)) = 0
<1>1. \A e \in Entries : 1..m[e] = {}
  OBVIOUS
<1>2. \A u : u \notin Units(m)
  BY <1>1, UnitIsPair
<1>3. Units(m) = {}
  BY <1>2
<1>. QED BY <1>3, FS_EmptySet

(* One more pick is one more unit.                                         *)
LEMMA OneMoreUnit ==
    ASSUME NEW m \in [Entries -> Nat], NEW n \in [Entries -> Nat], NEW e \in Entries,
           IsFiniteSet(Units(m)),
           n[e] = m[e] + 1, \A d \in Entries : d # e => n[d] = m[d]
    PROVE  IsFiniteSet(Units(n)) /\ Cardinality(Units(n)) = Cardinality(Units(m)) + 1
<1>. DEFINE u == <<e, m[e] + 1>>
<1>1. m[e] \in Nat /\ \A d \in Entries : m[d] \in Nat /\ n[d] \in Nat
  OBVIOUS
<1>2. u \notin Units(m)
  <2>1. m[e] + 1 \notin 1..m[e]
    BY <1>1
  <2>. QED BY <2>1, UnitIn
<1>3. Units(n) \subseteq Units(m) \cup {u}
  <2>. SUFFICES ASSUME NEW v \in Units(n) PROVE v \in Units(m) \cup {u}
    OBVIOUS
  <2>1. PICK d \in Entries : \E k \in 1..n[d] : v = <<d, k>>
    BY UnitIsPair
  <2>2. PICK k \in 1..n[d] : v = <<d, k>>
    BY <2>1
  <2>3. CASE d = e /\ k = m[e] + 1
    BY <2>2, <2>3
  <2>4. CASE ~(d = e /\ k = m[e] + 1)
    <3>1. k \in 1..m[d]
      BY <1>1, <2>4
    <3>2. <<d, k>> \in Units(m)
      BY <3>1, UnitIn
    <3>. QED BY <2>2, <3>2
  <2>. QED BY <2>3, <2>4
<1>4. Units(m) \cup {u} \subseteq Units(n)
  <2>1. u \in Units(n)
    <3>1. m[e] + 1 \in 1..n[e]
      BY <1>1
    <3>. QED BY <3>1, UnitIn
  <2>2. ASSUME NEW v \in Units(m) PROVE v \in Units(n)
    <3>1. PICK d \in Entries : \E k \in 1..m[d] : v = <<d, k>>
      BY UnitIsPair
    <3>2. PICK k \in 1..m[d] : v = <<d, k>>
      BY <3>1
    <3>3. k \in 1..n[d]
      BY <1>1
    <3>4. <<d, k>> \in Units(n)
      BY <3>3, UnitIn
    <3>. QED BY <3>2, <3>4
  <2>. QED BY <2>1, <2>2
<1>5. Units(n) = Units(m) \cup {u}
  BY <1>3, <1>4
<1>. HIDE DEF u
<1>. QED BY <1>2, <1>5, FS_AddElement

(* The first k groups, each with the units that are due to it.             *)
Upto(size, k) ==
    (size \div Len(Groups)) * k
    + (IF k <= size % Len(Groups) THEN k ELSE size % Len(Groups))

(* There are groups, and they are numbered.                              *)
LEMMA SomeGroups == Len(Groups) \in Nat \ {0} /\ GroupIds = 1..Len(Groups)
<1>1. Len(Groups) \in Nat \ {0}
  BY GroupsAssumption, EmptySeq
<1>2. DOMAIN Groups = 1..Len(Groups)
  BY GroupsAssumption, LenProperties
<1>. QED BY <1>1, <1>2 DEF GroupIds

(* The groups' sizes are equal but for one more in the first of them.    *)
LEMMA GroupSizeIs ==
    ASSUME NEW size \in Nat
    PROVE  /\ size \div Len(Groups) \in Nat
           /\ size % Len(Groups) \in 0..(Len(Groups) - 1)
           /\ size = Len(Groups) * (size \div Len(Groups)) + (size % Len(Groups))
           /\ \A g \in Int : /\ GroupSize(size, g) \in Nat
                             /\ GroupSize(size, g) = (size \div Len(Groups))
                                   + (IF g <= size % Len(Groups) THEN 1 ELSE 0)
<1>. DEFINE G == Len(Groups)
            q == size \div G
            r == size % G
<1>1. G \in Nat \ {0}
  BY SomeGroups
<1>. HIDE DEF G
<1>2. q \in Nat /\ r \in 0..(G - 1) /\ size = G * q + r
  BY <1>1, Division
<1>3. \A g \in Int : GroupSize(size, g) = q + (IF g <= r THEN 1 ELSE 0)
  BY DEF GroupSize, G
<1>. HIDE DEF q, r
<1>4. \A g \in Int : GroupSize(size, g) \in Nat
  BY <1>1, <1>2, <1>3
<1>. QED BY <1>2, <1>3, <1>4 DEF q, r, G

(* Together they have the size of the list.                              *)
LEMMA UptoGrows ==
    ASSUME NEW size \in Nat
    PROVE  /\ Upto(size, 0) = 0
           /\ \A k \in Nat : Upto(size, k + 1) = Upto(size, k) + GroupSize(size, k + 1)
           /\ Upto(size, Len(Groups)) = size
<1>. DEFINE G == Len(Groups)
            q == size \div G
            r == size % G
<1>1. G \in Nat \ {0}
  BY SomeGroups
<1>2. /\ q \in Nat /\ r \in 0..(G - 1) /\ size = G * q + r
      /\ \A g \in Int : GroupSize(size, g) = q + (IF g <= r THEN 1 ELSE 0)
  BY GroupSizeIs
<1>3. \A k : Upto(size, k) = q * k + (IF k <= r THEN k ELSE r)
  BY DEF Upto
<1>. HIDE DEF q, r, G
<1>4. \A k \in Nat : q * k \in Nat /\ q * (k + 1) = q * k + q
  BY <1>2, Product
<1>5. Upto(size, 0) = 0
  <2>1. q * 0 = 0
    BY <1>2
  <2>. QED BY <1>2, <1>3, <2>1
<1>6. ASSUME NEW k \in Nat
      PROVE  Upto(size, k + 1) = Upto(size, k) + GroupSize(size, k + 1)
  <2>1. q * k \in Nat /\ q * (k + 1) = q * k + q
    BY <1>4
  <2>2. /\ Upto(size, k + 1) = q * (k + 1) + (IF k + 1 <= r THEN k + 1 ELSE r)
        /\ Upto(size, k) = q * k + (IF k <= r THEN k ELSE r)
        /\ GroupSize(size, k + 1) = q + (IF k + 1 <= r THEN 1 ELSE 0)
    BY <1>2, <1>3
  <2>. DEFINE qk == q * k
              qn == q * (k + 1)
  <2>3. /\ Upto(size, k + 1) = qk + q + (IF k + 1 <= r THEN k + 1 ELSE r)
        /\ Upto(size, k) = qk + (IF k <= r THEN k ELSE r) /\ qk \in Nat
    BY <2>1, <2>2
  <2>. HIDE DEF qk, qn
  <2>. QED BY <1>1, <1>2, <2>2, <2>3
<1>7. Upto(size, G) = size
  <2>1. Upto(size, G) = q * G + r
    BY <1>1, <1>2, <1>3
  <2>2. q * G = G * q
    BY <1>1, <1>2
  <2>. QED BY <1>2, <2>1, <2>2
<1>. QED BY <1>5, <1>6, <1>7 DEF G

(* The units of groups that have what is due to them add up to the size.   *)
AllOf(m, k) == UNION {{g} \X Units(m[g]) : g \in 1..k}

(* Groups that have their sizes have as many units as are asked for.     *)
LEMMA AllCount ==
    ASSUME NEW size \in Nat, NEW m,
           \A g \in GroupIds : /\ IsFiniteSet(Units(m[g]))
                               /\ Cardinality(Units(m[g])) = GroupSize(size, g)
    PROVE  Cardinality(AllOf(m, Len(Groups))) = size
<1>. DEFINE G == Len(Groups)
            Good(k) == /\ IsFiniteSet(AllOf(m, k))
                       /\ Cardinality(AllOf(m, k)) = Upto(size, k)
            bad == {k \in 0..G : ~Good(k)}
<1>1. G \in Nat \ {0} /\ GroupIds = 1..G
  BY SomeGroups
<1>2. Good(0)
  <2>1. AllOf(m, 0) = {}
    BY DEF AllOf
  <2>. QED BY <2>1, FS_EmptySet, UptoGrows
<1>3. ASSUME NEW k \in 0..(G - 1), Good(k) PROVE Good(k + 1)
  <2>. DEFINE S == AllOf(m, k)
              U == Units(m[k + 1])
              T == {k + 1} \X U
  <2>1. k \in Nat /\ k + 1 \in 1..G
    BY <1>1
  <2>2. IsFiniteSet(U) /\ Cardinality(U) = GroupSize(size, k + 1)
    BY <1>1, <2>1
  <2>3. IsFiniteSet(T) /\ Cardinality(T) = Cardinality(U)
    <3>. HIDE DEF U
    <3>1. IsFiniteSet({k + 1}) /\ Cardinality({k + 1}) = 1
      BY FS_Singleton
    <3>2. IsFiniteSet(T) /\ Cardinality(T) = 1 * Cardinality(U)
      BY <2>2, <3>1, FS_Product
    <3>3. Cardinality(U) \in Nat
      BY <2>2, FS_CardinalityType
    <3>. QED BY <3>2, <3>3
  <2>4. AllOf(m, k + 1) = S \cup T
    <3>1. 1..(k + 1) = (1..k) \cup {k + 1}
      BY <2>1
    <3>. QED BY <3>1 DEF AllOf
  <2>5. S \cap T = {}
    <3>1. \A g \in 1..k : g # k + 1
      BY <2>1
    <3>. QED BY <3>1 DEF AllOf
  <2>6. IsFiniteSet(S) /\ Cardinality(S) = Upto(size, k)
    BY <1>3
  <2>7. Upto(size, k + 1) = Upto(size, k) + GroupSize(size, k + 1)
    BY <2>1, UptoGrows
  <2>. HIDE DEF S, T, U
  <2>8. /\ IsFiniteSet(S \cup T)
        /\ Cardinality(S \cup T) = Cardinality(S) + Cardinality(T) - 0
    BY <2>3, <2>5, <2>6, FS_Union, FS_EmptySet
  <2>9. Cardinality(S) \in Nat /\ Cardinality(T) \in Nat
    BY <2>3, <2>6, FS_CardinalityType
  <2>10. Cardinality(S \cup T) = Upto(size, k + 1)
    BY <2>2, <2>3, <2>6, <2>7, <2>8, <2>9
  <2>. QED BY <2>4, <2>8, <2>10
<1>4. bad = {}
  <2>. SUFFICES ASSUME bad # {} PROVE FALSE
    OBVIOUS
  <2>1. bad \subseteq 0..G /\ bad \subseteq Nat /\ 0 \notin bad
    BY <1>2
  <2>2. \A k \in 0..G : k \notin bad => Good(k)
    OBVIOUS
  <2>3. \A k \in bad : ~Good(k)
    OBVIOUS
  <2>. HIDE DEF bad, Good, G
  <2>4. PICK k \in bad : \A j \in bad : ~(j < k)
    BY <2>1, LeastOf
  <2>5. k - 1 \in 0..(G - 1) /\ k - 1 \in 0..G /\ k - 1 < k /\ (k - 1) + 1 = k
    BY <1>1, <2>1
  <2>6. Good(k - 1)
    BY <2>2, <2>4, <2>5
  <2>7. Good((k - 1) + 1)
    BY <1>3, <2>5, <2>6
  <2>. QED BY <2>3, <2>5, <2>7
<1>5. Good(G)
  BY <1>1, <1>4
<1>. QED BY <1>5, UptoGrows
-----------------------------------------------------------------------------
(* In the rounds over a group each of the len entries was picked q times,  *)
(* those before the position in hand once more.                            *)
RoundAt(m, t, len, picked, at, q) ==
    /\ at \in 1..len /\ picked = len * q + (at - 1)
    /\ \A i \in 1..len : m[t[i]] = q + (IF i < at THEN 1 ELSE 0)

Rounds(m, t, E, due, picked, at) ==
    /\ Len(t) \in Nat /\ Arrangement(t, Len(t), E)
    /\ IsFiniteSet(Units(m)) /\ Cardinality(Units(m)) = picked
    /\ picked \in Nat /\ picked <= due
    /\ \/ E = {} /\ due = 0
       \/ \E q \in Nat : RoundAt(m, t, Len(t), picked, at, q)

(* A group that has the units due to it.                                   *)
Even(m, E, due) ==
    /\ IsFiniteSet(Units(m)) /\ Cardinality(Units(m)) = due
    /\ \A d, e \in E : Distance(m[d], m[e]) <= 1

Finished(g) == g < group \/ (g = group /\ phase \in {"derive", "group", "done"})

SpreadInv ==
    /\ pool.size \in Nat /\ pool.eligible \in [GroupIds -> SUBSET Entries]
    /\ group \in 0..Len(Groups)
    /\ made \in [GroupIds -> [Entries -> Nat]]
    /\ picks \in Seq(Entries)
    /\ phase = "group" => picks = <<>>
    /\ phase = "done" => group = Len(Groups)
    /\ phase = "spread" => group # 0
    /\ \A g \in GroupIds :
          /\ g > group => \A e \in Entries : made[g][e] = 0
          /\ Finished(g) => Even(made[g], pool.eligible[g], GroupSize(pool.size, g))
    /\ phase = "spread" =>
          Rounds(made[group], order, pool.eligible[group], Due, Len(picks), next)

(* A group that nothing was picked from begins its first round.            *)
LEMMA FirstRound ==
    ASSUME NEW m, \A e \in Entries : m[e] = 0,
           NEW E \in SUBSET Entries, NEW due \in Nat,
           due = 0 \/ Listed(E) # <<>>, NEW c \in Draws(Len(Listed(E)))
    PROVE  Rounds(m, Shuffled(Listed(E), c), E, due, 0, 1)
<1>. DEFINE n == Cardinality(E)
            s == Listed(E)
            t == Shuffled(s, c)
<1>1. Arrangement(s, n, E) /\ Len(s) = n /\ n \in Nat
  <2>1. E \subseteq Nat /\ IsFiniteSet(E)
    BY NumbersAssumption, FS_Subset
  <2>. QED BY <2>1, ListedIs
<1>2. c \in Draws(n)
  BY <1>1
<1>3. E = {} => s = <<>>
  <2>. SUFFICES ASSUME E = {} PROVE s = <<>>
    OBVIOUS
  <2>1. n = 0
    BY FS_EmptySet
  <2>2. s \in [1..n -> E]
    BY <1>1 DEF Arrangement
  <2>3. s \in Seq(E)
    BY <1>1, <2>2, SeqDef
  <2>. HIDE DEF s
  <2>. QED BY <1>1, <2>1, <2>3, EmptySeq
<1>. HIDE DEF s, n
<1>4. Arrangement(t, n, E)
  BY <1>1, <1>2, ShuffledArranges
<1>. HIDE DEF t
<1>5. Len(t) = n
  <2>1. t \in [1..n -> E]
    BY <1>4 DEF Arrangement
  <2>. QED BY <1>1, <2>1
<1>6. IsFiniteSet(Units(m)) /\ Cardinality(Units(m)) = 0
  BY NoUnits
<1>7. E # {} => RoundAt(m, t, n, 0, 1, 0)
  <2>. SUFFICES ASSUME E # {} PROVE RoundAt(m, t, n, 0, 1, 0)
    OBVIOUS
  <2>1. PICK e \in E : TRUE
    OBVIOUS
  <2>2. 1 \in 1..n
    <3>1. PICK i \in 1..n : t[i] = e
      BY <1>4 DEF Arrangement
    <3>. QED BY <1>1, <3>1
  <2>3. n * 0 = 0
    BY <1>1
  <2>4. \A i \in 1..n : t[i] \in Entries /\ ~(i < 1)
    BY <1>1, <1>4 DEF Arrangement
  <2>5. \A i \in 1..n : m[t[i]] = 0 + (IF i < 1 THEN 1 ELSE 0)
    BY <2>4
  <2>. QED BY <2>2, <2>3, <2>5 DEF RoundAt
<1>8. E = {} => due = 0
  BY <1>3 DEF s
<1>9. Rounds(m, t, E, due, 0, 1)
  BY <1>1, <1>4, <1>5, <1>6, <1>7, <1>8 DEF Rounds
<1>. QED BY <1>9 DEF t, s

(* As long as picks are missing the entry in hand is below the cap.        *)
LEMMA BelowCap ==
    ASSUME NEW len \in Nat \ {0}, NEW q \in Nat, NEW at \in 1..len, NEW due \in Nat,
           len * q + (at - 1) < due
    PROVE  q < Cap(due, len)
<1>. DEFINE a == due + len - 1
            d == a \div len
<1>1. len * q \in Nat /\ len * (q + 1) = len * q + len
  BY Product
<1>. DEFINE lq == len * q
<1>2. lq \in Nat /\ len * (q + 1) = lq + len /\ lq + (at - 1) < due
  BY <1>1
<1>. HIDE DEF lq
<1>3. a \in Nat /\ len * (q + 1) <= a
  BY <1>2
<1>. HIDE DEF a
<1>4. d \in Nat /\ a % len \in 0..(len - 1) /\ a = len * d + (a % len)
  BY <1>3, Division
<1>. HIDE DEF d
<1>5. ~(d <= q)
  <2>. SUFFICES ASSUME d <= q PROVE FALSE
    OBVIOUS
  <2>1. len * d <= len * q /\ len * d \in Nat
    <3>1. len \in Nat
      OBVIOUS
    <3>. QED BY <1>4, <3>1, ProductGrows, Product
  <2>. QED BY <1>1, <1>3, <1>4, <2>1
<1>6. q < d
  BY <1>4, <1>5
<1>. QED BY <1>6 DEF Cap, d, a

(* Behind the last place comes the first.                                *)
LEMMA Around ==
    ASSUME NEW len \in Nat \ {0}, NEW at \in 1..len
    PROVE  (at % len) + 1 = IF at = len THEN 1 ELSE at + 1
<1>1. CASE at = len
  <2>1. len * 1 + 0 = at /\ 0 \in 0..(len - 1)
    BY <1>1
  <2>2. (len * 1 + 0) % len = 0
    BY <2>1, DivisionIs
  <2>. QED BY <1>1, <2>1, <2>2
<1>2. CASE at # len
  <2>1. len * 0 + at = at /\ at \in 0..(len - 1)
    BY <1>2
  <2>2. (len * 0 + at) % len = at
    BY <2>1, DivisionIs
  <2>. QED BY <1>2, <2>1, <2>2
<1>. QED BY <1>1, <1>2

(* One more pick, of the entry in hand.                                    *)
LEMMA NextPick ==
    ASSUME NEW m \in [Entries -> Nat], NEW k \in [Entries -> Nat], NEW t,
           NEW E \in SUBSET Entries, NEW due \in Nat, NEW picked \in Nat, NEW at,
           Rounds(m, t, E, due, picked, at), picked < due
    PROVE  /\ t[at] \in Entries /\ Len(t) # 0
           /\ m[t[at]] < Cap(due, Len(t))
           /\ (k = [m EXCEPT ![t[at]] = @ + 1]) =>
                 Rounds(k, t, E, due, picked + 1, (at % Len(t)) + 1)
<1>. DEFINE len == Len(t)
<1>1. PICK q \in Nat : RoundAt(m, t, len, picked, at, q)
  BY DEF Rounds
<1>2. len \in Nat /\ Arrangement(t, len, E)
  BY DEF Rounds
<1>. HIDE DEF len
<1>3. /\ at \in 1..len /\ picked = len * q + (at - 1)
      /\ \A i \in 1..len : m[t[i]] = q + (IF i < at THEN 1 ELSE 0)
  BY <1>1 DEF RoundAt
<1>4. len \in Nat \ {0}
  BY <1>2, <1>3
<1>. DEFINE e == t[at]
<1>5. /\ e \in Entries /\ \A i \in 1..len : t[i] \in Entries
      /\ \A i \in 1..len : t[i] = e => i = at
  BY <1>2, <1>3 DEF Arrangement
<1>6. m[e] = q
  <2>1. ~(at < at)
    BY <1>3, <1>4
  <2>. QED BY <1>3, <2>1
<1>7. m[e] < Cap(due, len)
  BY <1>3, <1>4, <1>6, BelowCap
<1>8. ASSUME k = [m EXCEPT ![e] = @ + 1]
      PROVE  Rounds(k, t, E, due, picked + 1, (at % len) + 1)
  <2>. DEFINE to == (at % len) + 1
  <2>1. k[e] = q + 1 /\ \A d \in Entries : d # e => k[d] = m[d]
    BY <1>5, <1>6, <1>8
  <2>. HIDE DEF e
  <2>2. IsFiniteSet(Units(k)) /\ Cardinality(Units(k)) = picked + 1
    <3>1. IsFiniteSet(Units(m)) /\ Cardinality(Units(m)) = picked /\ k[e] = m[e] + 1
      BY <1>6, <2>1 DEF Rounds
    <3>. QED BY <1>5, <2>1, <3>1, OneMoreUnit
  <2>3. to = IF at = len THEN 1 ELSE at + 1
    BY <1>3, <1>4, Around
  <2>. HIDE DEF to
  <2>4. len * q \in Nat /\ len * (q + 1) = len * q + len
    BY <1>2, Product
  <2>5. ASSUME NEW i \in 1..len
        PROVE  k[t[i]] = q + (IF i < at + 1 THEN 1 ELSE 0)
    <3>1. CASE i = at
      <4>1. t[i] = e /\ i < at + 1
        BY <1>3, <3>1 DEF e
      <4>. QED BY <2>1, <4>1
    <3>2. CASE i # at
      <4>1. t[i] # e /\ t[i] \in Entries
        BY <1>5, <3>2
      <4>2. k[t[i]] = q + (IF i < at THEN 1 ELSE 0)
        BY <1>3, <2>1, <4>1
      <4>3. i < at <=> i < at + 1
        BY <1>3, <3>2
      <4>. QED BY <4>2, <4>3
    <3>. QED BY <3>1, <3>2
  <2>6. CASE at = len
    <3>1. to = 1 /\ to \in 1..len
      BY <1>4, <2>3, <2>6
    <3>2. picked + 1 = len * (q + 1) + (to - 1)
      BY <1>3, <1>4, <2>4, <2>6, <3>1
    <3>3. ASSUME NEW i \in 1..len
          PROVE  k[t[i]] = (q + 1) + (IF i < to THEN 1 ELSE 0)
      <4>1. i < at + 1 /\ ~(i < to)
        BY <1>4, <2>6, <3>1
      <4>. QED BY <2>5, <4>1
    <3>4. RoundAt(k, t, len, picked + 1, to, q + 1)
      BY <3>1, <3>2, <3>3 DEF RoundAt
    <3>. QED BY <1>2, <2>2, <3>4 DEF Rounds, len, to
  <2>7. CASE at # len
    <3>1. to = at + 1 /\ to \in 1..len
      BY <1>3, <1>4, <2>3, <2>7
    <3>2. picked + 1 = len * q + (to - 1)
      BY <1>3, <1>4, <2>4, <3>1
    <3>3. RoundAt(k, t, len, picked + 1, to, q)
      BY <2>5, <3>1, <3>2 DEF RoundAt
    <3>. QED BY <1>2, <2>2, <3>3 DEF Rounds, len, to
  <2>. QED BY <2>6, <2>7
<1>. QED BY <1>4, <1>5, <1>7, <1>8 DEF len

(* When the picks are as many as are due, the entries are within one.      *)
LEMMA LastPick ==
    ASSUME NEW m, NEW t, NEW E, NEW due \in Nat, NEW at, Rounds(m, t, E, due, due, at)
    PROVE  Even(m, E, due)
<1>1. ASSUME NEW d \in E, NEW e \in E PROVE Distance(m[d], m[e]) <= 1
  <2>1. PICK q \in Nat : RoundAt(m, t, Len(t), due, at, q)
    BY <1>1 DEF Rounds
  <2>2. ASSUME NEW x \in E PROVE m[x] \in q..(q + 1)
    <3>1. PICK i \in 1..Len(t) : t[i] = x
      BY DEF Rounds, Arrangement
    <3>2. m[x] = q + (IF i < at THEN 1 ELSE 0)
      BY <2>1, <3>1 DEF RoundAt
    <3>. QED BY <3>2
  <2>3. m[d] \in q..(q + 1) /\ m[e] \in q..(q + 1)
    BY <2>2
  <2>. DEFINE a == m[d]
              b == m[e]
  <2>. HIDE DEF a, b
  <2>4. a \in q..(q + 1) /\ b \in q..(q + 1) => Distance(a, b) <= 1
    BY DEF Distance
  <2>. QED BY <2>3, <2>4 DEF a, b
<1>. QED BY <1>1 DEF Even, Rounds

(* A derivation begins with nothing picked.                              *)
LEMMA SpreadInit == Init => SpreadInv
<1>. SUFFICES ASSUME Init PROVE SpreadInv
  OBVIOUS
<1>1. pool.size \in Nat /\ pool.eligible \in [GroupIds -> SUBSET Entries]
  BY NumbersAssumption DEF Init, Pools
<1>2. /\ made \in [GroupIds -> [Entries -> Nat]] /\ picks \in Seq(Entries)
      /\ \A g \in GroupIds : \A e \in Entries : made[g][e] = 0
  BY EmptySeq DEF Init
<1>3. group = 0 /\ phase = "group" /\ picks = <<>>
  BY DEF Init
<1>4. \A g \in GroupIds : ~Finished(g)
  BY <1>3, SomeGroups DEF Finished
<1>. QED BY <1>1, <1>2, <1>3, <1>4, SomeGroups DEF SpreadInv

(* What is due to a group is a number.                                     *)
LEMMA DueIs == SpreadInv => Due \in Nat
<1>. SUFFICES ASSUME SpreadInv PROVE Due \in Nat
  OBVIOUS
<1>1. pool.size \in Nat /\ group \in Int
  BY SomeGroups DEF SpreadInv
<1>2. GroupSize(pool.size, group) \in Nat
  BY <1>1, GroupSizeIs
<1>. QED BY <1>2 DEF Due

(* A group begins when the one before it has its size.                   *)
LEMMA SpreadNextGroup == SpreadInv /\ NextGroup => SpreadInv'
<1>. SUFFICES ASSUME SpreadInv, NextGroup PROVE SpreadInv'
  OBVIOUS
<1>1. /\ phase = "group" /\ group \in 0..(Len(Groups) - 1) /\ group' = group + 1 /\ next' = 1
      /\ pool' = pool /\ picks' = picks /\ made' = made /\ picks = <<>>
      /\ phase' \in {"failed", "spread"}
  BY SomeGroups DEF SpreadInv, NextGroup
<1>2. group' \in GroupIds /\ group' \in 1..Len(Groups) /\ group' > group /\ group' # 0
  BY <1>1, SomeGroups
<1>. DEFINE E == pool.eligible[group']
            n == GroupSize(pool.size, group')
            m == made[group']
<1>3. E \in SUBSET Entries /\ n \in Nat /\ \A e \in Entries : m[e] = 0
  <2>1. n \in Nat
    <3>1. group' \in Int /\ pool.size \in Nat
      BY <1>2, SomeGroups DEF SpreadInv
    <3>. QED BY <3>1, GroupSizeIs
  <2>. QED BY <1>2, <2>1 DEF SpreadInv
<1>4. phase' = "spread" => Rounds(m, order', E, n, 0, 1)
  <2>. SUFFICES ASSUME phase' = "spread" PROVE Rounds(m, order', E, n, 0, 1)
    OBVIOUS
  <2>1. ~(n > 0 /\ Listed(E) = <<>>)
    BY DEF NextGroup
  <2>2. PICK c \in Draws(Len(Listed(E))) : order' = Shuffled(Listed(E), c)
    BY DEF NextGroup
  <2>. HIDE DEF E, n, m
  <2>3. n = 0 \/ Listed(E) # <<>>
    BY <1>3, <2>1
  <2>4. Rounds(m, Shuffled(Listed(E), c), E, n, 0, 1)
    BY <1>3, <2>3, FirstRound
  <2>. QED BY <2>2, <2>4
<1>5. Len(picks) = 0
  BY <1>1, EmptySeq
<1>6. phase' = "spread" =>
         Rounds(made'[group'], order', pool'.eligible[group'], Due', Len(picks'), next')
  BY <1>1, <1>4, <1>5 DEF Due
<1>7. ASSUME NEW g \in GroupIds
      PROVE  /\ g > group' => \A e \in Entries : made'[g][e] = 0
             /\ Finished(g)' => Even(made'[g], pool'.eligible[g], GroupSize(pool'.size, g))
  <2>1. g \in Nat /\ group \in Nat
    BY <1>1, SomeGroups
  <2>2. g > group' => g > group
    BY <1>1, <2>1
  <2>3. Finished(g)' => Finished(g)
    BY <1>1, <2>1 DEF Finished
  <2>. QED BY <1>1, <2>2, <2>3 DEF SpreadInv
<1>. QED BY <1>1, <1>2, <1>6, <1>7 DEF SpreadInv

(* A pick takes the entry in hand, and goes on to the next.              *)
LEMMA SpreadPick == SpreadInv /\ Pick => SpreadInv'
<1>. SUFFICES ASSUME SpreadInv, Pick PROVE SpreadInv'
  OBVIOUS
<1>1. /\ phase = "spread" /\ group \in 1..Len(Groups) /\ group \in GroupIds
      /\ pool' = pool /\ group' = group /\ phase' = phase /\ order' = order
      /\ Len(picks) < Due /\ next' = (next % Len(order)) + 1
  BY SomeGroups DEF SpreadInv, Pick
<1>. DEFINE E == pool.eligible[group]
            m == made[group]
            e == order[next]
            k == [m EXCEPT ![e] = @ + 1]
<1>2. /\ E \in SUBSET Entries /\ m \in [Entries -> Nat] /\ Due \in Nat /\ Len(picks) \in Nat
      /\ Rounds(m, order, E, Due, Len(picks), next)
  <2>1. Due \in Nat
    BY DueIs
  <2>2. Len(picks) \in Nat
    BY LenProperties DEF SpreadInv
  <2>. QED BY <1>1, <2>1, <2>2 DEF SpreadInv
<1>3. k \in [Entries -> Nat]
  <2>1. \A x \in Entries : m[x] \in Nat /\ m[x] + 1 \in Nat
    BY <1>2
  <2>. HIDE DEF m, e
  <2>. QED BY <1>2, <2>1
<1>4. /\ e \in Entries /\ m[e] < Cap(Due, Len(order))
      /\ Rounds(k, order, E, Due, Len(picks) + 1, (next % Len(order)) + 1)
  <2>. HIDE DEF E, m
  <2>. QED BY <1>1, <1>2, <1>3, NextPick
<1>5. picks' = Append(picks, e) /\ made' = [made EXCEPT ![group][e] = @ + 1]
  BY <1>4 DEF Pick
<1>6. picks' \in Seq(Entries) /\ Len(picks') = Len(picks) + 1
  BY <1>4, <1>5, AppendProperties DEF SpreadInv
<1>7. made' = [made EXCEPT ![group] = k]
  BY <1>1, <1>5 DEF SpreadInv
<1>. HIDE DEF k, e
<1>8. /\ made' \in [GroupIds -> [Entries -> Nat]] /\ made'[group] = k
      /\ \A g \in GroupIds : g # group => made'[g] = made[g]
  BY <1>1, <1>3, <1>7 DEF SpreadInv
<1>9. Rounds(made'[group'], order', pool'.eligible[group'], Due', Len(picks'), next')
  BY <1>1, <1>4, <1>6, <1>8 DEF Due
<1>10. ASSUME NEW g \in GroupIds
       PROVE  /\ g > group' => \A x \in Entries : made'[g][x] = 0
              /\ Finished(g)' => Even(made'[g], pool'.eligible[g], GroupSize(pool'.size, g))
  <2>1. g \in Nat /\ group \in Nat
    BY <1>1, SomeGroups
  <2>2. Finished(g)' => Finished(g) /\ g # group
    BY <1>1, <2>1 DEF Finished
  <2>3. g > group' => g > group /\ g # group
    BY <1>1, <2>1
  <2>. QED BY <1>1, <1>8, <2>2, <2>3 DEF SpreadInv
<1>11. group' # 0 /\ group' \in 0..Len(Groups)
  BY <1>1
<1>. QED BY <1>1, <1>6, <1>8, <1>9, <1>10, <1>11 DEF SpreadInv

(* A group is spread when it has the units that are due.                 *)
LEMMA SpreadSpread == SpreadInv /\ Spread => SpreadInv'
<1>. SUFFICES ASSUME SpreadInv, Spread PROVE SpreadInv'
  OBVIOUS
<1>1. /\ phase = "spread" /\ group \in 1..Len(Groups) /\ group \in GroupIds
      /\ pool' = pool /\ group' = group /\ phase' = "derive" /\ order' = order
      /\ picks' = picks /\ made' = made /\ Len(picks) = Due
  BY SomeGroups DEF SpreadInv, Spread
<1>2. Even(made[group], pool.eligible[group], GroupSize(pool.size, group))
  <2>1. Due \in Nat
    BY DueIs
  <2>2. Rounds(made[group], order, pool.eligible[group], Due, Due, next)
    BY <1>1 DEF SpreadInv
  <2>3. Even(made[group], pool.eligible[group], Due)
    BY <2>1, <2>2, LastPick
  <2>. QED BY <2>3 DEF Due
<1>3. ASSUME NEW g \in GroupIds
      PROVE  /\ g > group' => \A x \in Entries : made'[g][x] = 0
             /\ Finished(g)' => Even(made'[g], pool'.eligible[g], GroupSize(pool'.size, g))
  <2>1. Finished(g)' => Finished(g) \/ g = group
    BY <1>1 DEF Finished
  <2>. QED BY <1>1, <1>2, <2>1 DEF SpreadInv
<1>. QED BY <1>1, <1>3 DEF SpreadInv

(* The other steps pick nothing.                                         *)
LEMMA SpreadOther == SpreadInv /\ (AllDone \/ Derive \/ UNCHANGED vars) => SpreadInv'
<1>1. ASSUME SpreadInv, AllDone PROVE SpreadInv'
  <2>1. /\ pool' = pool /\ group' = group /\ picks' = picks /\ made' = made
        /\ phase = "group" /\ phase' = "done" /\ group = Len(Groups)
    BY <1>1 DEF AllDone
  <2>2. \A g : Finished(g)' <=> Finished(g)
    BY <2>1 DEF Finished
  <2>. QED BY <1>1, <2>1, <2>2 DEF SpreadInv
<1>2. ASSUME SpreadInv, Derive PROVE SpreadInv'
  <2>1. /\ pool' = pool /\ group' = group /\ made' = made
        /\ phase = "derive" /\ phase' \in {"derive", "group", "failed"}
        /\ phase' = "group" => picks' = <<>>
    BY <1>2 DEF Derive
  <2>2. picks' \in Seq(Entries)
    <3>1. picks' = picks \/ (picks # <<>> /\ picks' = Tail(picks))
      BY <1>2 DEF Derive
    <3>2. picks \in Seq(Entries)
      BY <1>2 DEF SpreadInv
    <3>. QED BY <3>1, <3>2, HeadTailProperties
  <2>3. \A g : Finished(g)' => Finished(g)
    BY <2>1 DEF Finished
  <2>. QED BY <1>2, <2>1, <2>2, <2>3 DEF SpreadInv
<1>3. ASSUME SpreadInv, UNCHANGED vars PROVE SpreadInv'
  <2>1. /\ pool' = pool /\ group' = group /\ made' = made /\ picks' = picks
        /\ phase' = phase /\ order' = order /\ next' = next
    BY <1>3 DEF vars
  <2>2. Due' = Due /\ \A g : Finished(g)' <=> Finished(g)
    BY <2>1 DEF Due, Finished
  <2>. QED BY <1>3, <2>1, <2>2 DEF SpreadInv
<1>. QED BY <1>1, <1>2, <1>3

(* What is spread so is spread evenly.                                   *)
LEMMA SpreadEnds == SpreadInv => EvenlySpread
<1>. SUFFICES ASSUME SpreadInv, phase = "done" PROVE EvenlySpread
  BY DEF EvenlySpread
<1>1. \A g \in GroupIds : Finished(g)
  BY SomeGroups DEF SpreadInv, Finished
<1>2. \A g \in GroupIds : Even(made[g], pool.eligible[g], GroupSize(pool.size, g))
  BY <1>1 DEF SpreadInv
<1>3. Cardinality(All) = pool.size
  <2>1. Cardinality(AllOf(made, Len(Groups))) = pool.size
    BY <1>2, AllCount DEF Even, SpreadInv
  <2>2. AllOf(made, Len(Groups)) = All
    BY SomeGroups DEF AllOf, All, Of, Units
  <2>. QED BY <2>1, <2>2
<1>4. ASSUME NEW f \in GroupIds, NEW g \in GroupIds
      PROVE  Distance(Cardinality(Of(f)), Cardinality(Of(g))) <= 1
  <2>. DEFINE a == Cardinality(Of(f))
              b == Cardinality(Of(g))
              q == pool.size \div Len(Groups)
  <2>1. a = GroupSize(pool.size, f) /\ b = GroupSize(pool.size, g)
    BY <1>2, OfIs DEF Even
  <2>2. q \in Nat /\ a \in q..(q + 1) /\ b \in q..(q + 1)
    <3>1. f \in Int /\ g \in Int /\ pool.size \in Nat
      BY SomeGroups DEF SpreadInv
    <3>2. /\ GroupSize(pool.size, f) = q + (IF f <= pool.size % Len(Groups) THEN 1 ELSE 0)
          /\ GroupSize(pool.size, g) = q + (IF g <= pool.size % Len(Groups) THEN 1 ELSE 0)
          /\ q \in Nat
      BY <3>1, GroupSizeIs
    <3>. HIDE DEF a, b, q
    <3>. QED BY <2>1, <3>2
  <2>. HIDE DEF a, b, q
  <2>3. Distance(a, b) <= 1
    BY <2>2 DEF Distance
  <2>. QED BY <2>3 DEF a, b
<1>5. \A g \in GroupIds : \A d, e \in pool.eligible[g] : Distance(made[g][d], made[g][e]) <= 1
  BY <1>2 DEF Even
<1>. QED BY <1>3, <1>4, <1>5 DEF EvenlySpread

(* A list that was not refused has the units asked for, evenly over the    *)
(* groups and over the entries of each, for any pool, any number of units  *)
(* and any draws of the generator (pools/units.py, group_sizes and         *)
(* _spread).                                                               *)
THEOREM SpreadEvenly == Spec => []EvenlySpread
<1>1. Init => SpreadInv
  BY SpreadInit
<1>2. SpreadInv /\ [Next]_vars => SpreadInv'
  BY SpreadNextGroup, SpreadPick, SpreadSpread, SpreadOther DEF Next
<1>3. SpreadInv => EvenlySpread
  BY SpreadEnds
<1>. QED BY <1>1, <1>2, <1>3, PTL DEF Spec
-----------------------------------------------------------------------------
(* Nothing but these two steps makes a unit.                               *)
LEMMA UnitsMade ==
    ASSUME Next
    PROVE  pool' = pool /\ (unit' = unit \/ LiberoUnit \/ DrawUnit)
<1>1. CASE NextGroup
  BY <1>1 DEF NextGroup
<1>2. CASE AllDone \/ Pick \/ Spread
  BY <1>2 DEF AllDone, Pick, Spread
<1>3. CASE Derive
  BY <1>3 DEF Derive
<1>. QED BY <1>1, <1>2, <1>3 DEF Next

(* A LIBERO unit has a demonstration from elsewhere, if its task has one.  *)
LEMMA LiberoElsewhere == LiberoUnit /\ pool' = pool => DemoElsewhere'
<1>. SUFFICES ASSUME LiberoUnit, pool' = pool PROVE DemoElsewhere'
  OBVIOUS
<1>1. PICK instance : \E d \in Candidates(instance) :
                         unit' = [instance |-> instance, demo |-> d]
  BY DEF LiberoUnit
<1>2. PICK d \in Candidates(instance) : unit' = [instance |-> instance, demo |-> d]
  BY <1>1
<1>3. pool.entry.start[d] = instance => \A e \in Demos : pool.entry.start[e] = instance
  BY <1>2 DEF Candidates
<1>4. ~pool'.entry.drawing /\ unit'.instance = instance /\ unit'.demo = d
  BY <1>2 DEF LiberoUnit
<1>. QED BY <1>3, <1>4 DEF DemoElsewhere

(* A drawing's demonstration is far enough from its board.                 *)
LEMMA DrawingFar == DrawUnit /\ pool' = pool => DemoElsewhere'
<1>. SUFFICES ASSUME DrawUnit, pool' = pool PROVE DemoElsewhere'
  OBVIOUS
<1>1. PICK instance, d : /\ d \in FarDemos(instance)
                         /\ unit' = [instance |-> instance, demo |-> d]
  BY DEF DrawUnit
<1>2. pool'.entry.drawing /\ unit'.instance = instance /\ unit'.demo = d
  BY <1>1 DEF DrawUnit
<1>. QED BY <1>1, <1>2 DEF DemoElsewhere, FarDemos

(* "The demonstration never starts from the scored initial state", for any *)
(* pool and whatever the generator yields, but where a LIBERO task has no  *)
(* other demonstration (pools/units.py, _unit and _draw_unit).             *)
THEOREM DemosElsewhere == Spec => []DemoElsewhere
<1>1. Init => DemoElsewhere
  BY DEF Init, DemoElsewhere
<1>2. DemoElsewhere /\ [Next]_vars => DemoElsewhere'
  <2>. SUFFICES ASSUME DemoElsewhere, [Next]_vars PROVE DemoElsewhere'
    OBVIOUS
  <2>1. CASE pool' = pool /\ unit' = unit
    BY <2>1 DEF DemoElsewhere
  <2>2. CASE UNCHANGED vars
    BY <2>1, <2>2 DEF vars
  <2>3. CASE Next
    BY <2>1, <2>3, UnitsMade, LiberoElsewhere, DrawingFar
  <2>. QED BY <2>2, <2>3
<1>. QED BY <1>1, <1>2, PTL DEF Spec
=============================================================================
