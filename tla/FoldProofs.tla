----------------------------- MODULE FoldProofs -----------------------------
(***************************************************************************)
(* Facts about the folds, sums and flattened sequences the models are      *)
(* built from.  The theorems of induction the library has take a predicate *)
(* as a parameter, so induction is restated here for a set of numbers.     *)
(***************************************************************************)
EXTENDS Naturals, Sequences, FiniteSets, SequencesExt, FiniteSetTheorems, NaturalsInduction,
        WellFoundedInduction, TLAPS

\* A nonempty set of natural numbers has a least element.
LEMMA LeastOf ==
  ASSUME NEW T, T \subseteq Nat, T # {}
  PROVE  \E x \in T : \A y \in T : x <= y
<1>1. \A x, y \in Nat : y < x => <<y, x>> \in OpToRel(<, Nat)
  BY DEF OpToRel
<1>2. PICK R : IsWellFoundedOn(R, Nat) /\ \A x, y \in Nat : y < x => <<y, x>> \in R
  BY <1>1, NatLessThanWellFounded, Zenon
<1>3. PICK x \in T : \A y \in T : ~ (<<y, x>> \in R)
  BY <1>2, WFMin
<1>4. ASSUME NEW y \in T PROVE x <= y
  <2>1. y \in Nat /\ x \in Nat
    OBVIOUS
  <2>2. ~(y < x)
    BY <1>2, <1>3, <2>1, Zenon
  <2> QED BY <2>1, <2>2
<1> QED BY <1>4

\* Induction, for a set of numbers.
LEMMA InductionOn ==
  ASSUME NEW T, 0 \in T, \A n \in Nat : n \in T => n + 1 \in T
  PROVE  Nat \subseteq T
<1> SUFFICES ASSUME ~(Nat \subseteq T) PROVE FALSE
  OBVIOUS
<1>1. PICK x \in Nat \ T : \A y \in Nat \ T : x <= y
  BY LeastOf
<1>2. x # 0 /\ x - 1 \in Nat /\ x - 1 \in T
  BY <1>1
<1>3. (x - 1) + 1 \in T
  BY <1>2, Zenon
<1> QED BY <1>1, <1>3

\* The greatest of some positions.
LEMMA MaxOf ==
  ASSUME NEW n \in Nat, NEW q, q \subseteq 1 .. n, q # {}
  PROVE  Max(q) \in q /\ \A y \in q : y <= Max(q)
<1> DEFINE T == {m \in Nat : \A y \in q : y <= m}
<1>1. n \in T
  OBVIOUS
<1>2. PICK m \in T : \A y \in T : m <= y
  BY <1>1, LeastOf
<1>3. m \in q
  <2> SUFFICES ASSUME m \notin q PROVE FALSE
    OBVIOUS
  <2>0. PICK y \in q : TRUE
    OBVIOUS
  <2>1. m # 0 /\ m - 1 \in Nat
    BY <2>0
  <2>2. m - 1 \in T
    BY <2>1
  <2> QED BY <1>2, <2>1, <2>2
<1>4. \E x \in q : \A y \in q : x >= y
  BY <1>3
<1>5. Max(q) \in q /\ \A y \in q : Max(q) >= y
  <2> DEFINE P(x) == x \in q /\ \A y \in q : x >= y
  <2> HIDE DEF P
  <2>1. \E x : P(x)
    BY <1>4 DEF P
  <2>2. P(CHOOSE x : P(x))
    BY <2>1, Zenon
  <2>3. Max(q) = CHOOSE x : P(x)
    BY Zenon DEF P, Max
  <2> QED BY <2>2, <2>3 DEF P
<1> QED BY <1>5

\* The greatest position of an initial stretch.
LEMMA MaxOfStretch ==
  ASSUME NEW n \in Nat, n > 0
  PROVE  Max(1 .. n) = n /\ (1 .. n) \ {n} = 1 .. (n - 1)
<1>1. 1 .. n \subseteq 1 .. n /\ 1 .. n # {} /\ n \in 1 .. n
  OBVIOUS
<1>2. Max(1 .. n) \in 1 .. n /\ \A y \in 1 .. n : y <= Max(1 .. n)
  BY <1>1, MaxOf
<1> QED BY <1>1, <1>2

\* G gives the fold of F over every selection of the positions of s.
IsFoldTable(G, D, F, base, s) ==
  /\ G \in [SUBSET (1 .. Len(s)) -> D]
  /\ \A q \in SUBSET (1 .. Len(s)) :
       G[q] = IF q = {} THEN base ELSE F[<<G[q \ {Max(q)}], s[Max(q)]>>]

\* A fold over a sequence is well defined: the recursion over the sets of its
\* positions has a solution.
LEMMA FoldTable ==
  ASSUME NEW D, NEW E, NEW F \in [D \X E -> D], NEW base \in D, NEW s \in Seq(E)
  PROVE  \E G : IsFoldTable(G, D, F, base, s)
<1> DEFINE Good(n, G) == /\ G \in [SUBSET (1 .. n) -> D]
                         /\ \A q \in SUBSET (1 .. n) :
                              G[q] = IF q = {} THEN base ELSE F[<<G[q \ {Max(q)}], s[Max(q)]>>]
           T == {n \in Nat : n <= Len(s) => \E G : Good(n, G)}
<1>1. 0 \in T
  <2> DEFINE G == [q \in SUBSET (1 .. 0) |-> base]
  <2>1. 1 .. 0 = {}
    OBVIOUS
  <2>2. G \in [SUBSET (1 .. 0) -> D] /\ \A q \in SUBSET (1 .. 0) : q = {} /\ G[q] = base
    BY <2>1
  <2>3. Good(0, G)
    BY <2>2
  <2> QED BY <2>3
<1>2. ASSUME NEW n \in Nat, n \in T PROVE n + 1 \in T
  <2> SUFFICES ASSUME n + 1 <= Len(s) PROVE \E G : Good(n + 1, G)
    <3> HIDE DEF Good
    <3> QED OBVIOUS
  <2>1. PICK g : Good(n, g)
    <3> HIDE DEF Good
    <3> QED BY <1>2
  <2> DEFINE G == [q \in SUBSET (1 .. (n + 1)) |->
                     IF n + 1 \in q THEN F[<<g[q \ {n + 1}], s[n + 1]>>] ELSE g[q]]
  <2>2. \A q \in SUBSET (1 .. (n + 1)) : q \ {n + 1} \in SUBSET (1 .. n) /\ (n + 1 \notin q => q \in SUBSET (1 .. n))
    OBVIOUS
  <2>3. s[n + 1] \in E
    OBVIOUS
  <2>4. G \in [SUBSET (1 .. (n + 1)) -> D]
    BY <2>1, <2>2, <2>3
  <2>5. \A q \in SUBSET (1 .. n) : q \in SUBSET (1 .. (n + 1)) /\ n + 1 \notin q
    OBVIOUS
  <2>6. \A q \in SUBSET (1 .. n) : G[q] = g[q]
    BY <2>5
  <2>7. ASSUME NEW q \in SUBSET (1 .. (n + 1))
        PROVE  G[q] = IF q = {} THEN base ELSE F[<<G[q \ {Max(q)}], s[Max(q)]>>]
    <3>1. CASE n + 1 \in q
      <4>1. Max(q) = n + 1
        <5>1. q # {} /\ n + 1 \in Nat
          BY <3>1
        <5>2. Max(q) \in q /\ \A y \in q : y <= Max(q)
          BY <5>1, MaxOf
        <5>3. Max(q) \in 1 .. (n + 1) /\ n + 1 <= Max(q)
          BY <5>2, <3>1
        <5> HIDE DEF G, T
        <5> QED BY <5>3
      <4>2. G[q] = F[<<g[q \ {n + 1}], s[n + 1]>>]
        BY <3>1
      <4>3. g[q \ {n + 1}] = G[q \ {n + 1}]
        BY <2>2, <2>6
      <4> HIDE DEF G
      <4> QED BY <3>1, <4>1, <4>2, <4>3
    <3>2. CASE n + 1 \notin q
      <4>1. q \in SUBSET (1 .. n) /\ q \ {Max(q)} \in SUBSET (1 .. n)
        BY <3>2, <2>2
      <4>2. G[q] = g[q] /\ G[q \ {Max(q)}] = g[q \ {Max(q)}]
        BY <4>1, <2>6
      <4> HIDE DEF G
      <4> QED BY <4>1, <4>2, <2>1
    <3> QED BY <3>1, <3>2
  <2>8. Good(n + 1, G)
    <3> HIDE DEF G
    <3> QED BY <2>4, <2>7
  <2> HIDE DEF Good, G
  <2> QED BY <2>8
<1>3. Nat \subseteq T
  <2> HIDE DEF T
  <2> QED BY <1>1, <1>2, InductionOn
<1>4. Len(s) \in T
  <2> HIDE DEF T
  <2> QED BY <1>3
<1>5. PICK G : Good(Len(s), G)
  <2> HIDE DEF Good
  <2> QED BY <1>4
<1>6. IsFoldTable(G, D, F, base, s)
  BY <1>5 DEF IsFoldTable
<1> QED BY <1>6

\* The first n of the sequences seqs follow one another in F, and number i comes
\* after position start[i].
IsFlat(F, seqs, n, start) ==
  /\ \A i \in 1 .. n : start[i] \in Nat /\ start[i] + Len(seqs[i]) <= Len(F)
  /\ \A i \in 1 .. n : \A k \in 1 .. Len(seqs[i]) : F[start[i] + k] = seqs[i][k]
  /\ \A j \in 1 .. Len(F) : \E i \in 1 .. n : \E k \in 1 .. Len(seqs[i]) : j = start[i] + k
  /\ \A i, m \in 1 .. n : i < m => start[i] + Len(seqs[i]) <= start[m]

\* One more sequence.
LEMMA FlatStep ==
  ASSUME NEW X, NEW seqs \in Seq(Seq(X)), NEW n \in Nat, n < Len(seqs),
         NEW F \in Seq(X), NEW start, IsFlat(F, seqs, n, start)
  PROVE  IsFlat(F \o seqs[n + 1], seqs, n + 1, [i \in 1 .. n + 1 |-> IF i = n + 1 THEN Len(F) ELSE start[i]])
<1> DEFINE e  == seqs[n + 1]
           G  == F \o e
           st == [i \in 1 .. n + 1 |-> IF i = n + 1 THEN Len(F) ELSE start[i]]
<1>1. /\ e \in Seq(X) /\ Len(e) \in Nat /\ Len(F) \in Nat
      /\ \A i \in 1 .. n + 1 : seqs[i] \in Seq(X) /\ Len(seqs[i]) \in Nat
  OBVIOUS
<1>2. /\ Len(G) = Len(F) + Len(e)
      /\ \A j \in 1 .. Len(F) : G[j] = F[j]
      /\ \A k \in 1 .. Len(e) : G[Len(F) + k] = e[k]
  BY <1>1
<1>3. st[n + 1] = Len(F) /\ \A i \in 1 .. n : st[i] = start[i] /\ i \in 1 .. n + 1
  OBVIOUS
<1>4. /\ \A i \in 1 .. n : start[i] \in Nat /\ start[i] + Len(seqs[i]) <= Len(F)
      /\ \A i \in 1 .. n : \A k \in 1 .. Len(seqs[i]) : F[start[i] + k] = seqs[i][k]
      /\ \A j \in 1 .. Len(F) : \E i \in 1 .. n : \E k \in 1 .. Len(seqs[i]) : j = start[i] + k
      /\ \A i, m \in 1 .. n : i < m => start[i] + Len(seqs[i]) <= start[m]
  BY DEF IsFlat
<1>5. \A i \in 1 .. n + 1 : i \in 1 .. n \/ i = n + 1
  OBVIOUS
<1>6. e = seqs[n + 1] /\ n + 1 \in 1 .. n + 1
  OBVIOUS
<1> HIDE DEF e, G, st
<1>7. ASSUME NEW i \in 1 .. n + 1 PROVE st[i] \in Nat /\ st[i] + Len(seqs[i]) <= Len(G)
  <2>1. CASE i \in 1 .. n
    <3>1. start[i] \in Nat /\ start[i] + Len(seqs[i]) <= Len(F) /\ st[i] = start[i]
      BY <2>1, <1>3, <1>4
    <3>2. Len(seqs[i]) \in Nat
      BY <1>1
    <3> QED BY <3>1, <3>2, <1>1, <1>2
  <2>2. CASE i = n + 1
    BY <2>2, <1>1, <1>2, <1>3, <1>6
  <2> QED BY <2>1, <2>2, <1>5
<1>8. ASSUME NEW i \in 1 .. n + 1, NEW k \in 1 .. Len(seqs[i]) PROVE G[st[i] + k] = seqs[i][k]
  <2>1. CASE i \in 1 .. n
    <3>1. start[i] + k \in 1 .. Len(F)
      <4>1. start[i] \in Nat /\ start[i] + Len(seqs[i]) <= Len(F)
        BY <2>1, <1>4
      <4>2. Len(seqs[i]) \in Nat
        BY <1>1
      <4> QED BY <4>1, <4>2, <1>1
    <3>2. G[start[i] + k] = F[start[i] + k]
      BY <3>1, <1>2
    <3> QED BY <2>1, <3>2, <1>3, <1>4
  <2>2. CASE i = n + 1
    BY <2>2, <1>2, <1>3, <1>6
  <2> QED BY <2>1, <2>2, <1>5
<1>9. ASSUME NEW j \in 1 .. Len(G)
      PROVE  \E i \in 1 .. n + 1 : \E k \in 1 .. Len(seqs[i]) : j = st[i] + k
  <2>1. CASE j <= Len(F)
    <3>1. j \in 1 .. Len(F)
      BY <2>1, <1>1
    <3>2. PICK i \in 1 .. n : \E k \in 1 .. Len(seqs[i]) : j = start[i] + k
      BY <3>1, <1>4
    <3> QED BY <3>2, <1>3
  <2>2. CASE ~(j <= Len(F))
    <3>1. j - Len(F) \in 1 .. Len(e) /\ j = Len(F) + (j - Len(F))
      BY <2>2, <1>1, <1>2
    <3> QED BY <3>1, <1>3, <1>6
  <2> QED BY <2>1, <2>2
<1>10. ASSUME NEW i \in 1 .. n + 1, NEW m \in 1 .. n + 1, i < m
       PROVE  st[i] + Len(seqs[i]) <= st[m]
  <2>1. i \in 1 .. n
    BY <1>10
  <2>2. CASE m \in 1 .. n
    BY <2>1, <2>2, <1>3, <1>4, <1>10
  <2>3. CASE m = n + 1
    BY <2>1, <2>3, <1>3, <1>4
  <2> QED BY <2>2, <2>3, <1>5
<1>11. IsFlat(G, seqs, n + 1, st)
  BY <1>7, <1>8, <1>9, <1>10 DEF IsFlat
<1> QED BY <1>11 DEF G, st, e

\* Flattening puts the sequences one behind the other.
LEMMA FlattenIsFlat ==
  ASSUME NEW X, NEW seqs \in Seq(Seq(X))
  PROVE  FlattenSeq(seqs) \in Seq(X) /\ \E start : IsFlat(FlattenSeq(seqs), seqs, Len(seqs), start)
<1> DEFINE N == Len(seqs)
<1>0. N \in Nat /\ \A i \in 1 .. N : seqs[i] \in Seq(X)
  OBVIOUS
<1>1. IsFlat(<<>>, seqs, 0, <<>>)
  BY DEF IsFlat
<1>2. CASE N = 0
  <2>1. FlattenSeq(seqs) = seqs /\ seqs = <<>>
    BY <1>2 DEF FlattenSeq
  <2>2. FlattenSeq(seqs) = <<>> /\ <<>> \in Seq(X)
    BY <2>1
  <2> QED BY <2>2, <1>1, <1>2
<1>3. CASE N # 0
  <2> DEFINE Rec(g, i) == IF i = 1 THEN seqs[i] ELSE g[i - 1] \o seqs[i]
             Good(n, g) == g \in [1 .. n -> Seq(X)] /\ \A i \in 1 .. n : g[i] = Rec(g, i)
             T == {n \in Nat : n <= N => \E g : Good(n, g)}
             Iter(g) == g = [i \in 1 .. N |-> Rec(g, i)]
             it == CHOOSE g : Iter(g)
  <2> HIDE DEF N
  <2>1. 0 \in T
    <3>1. Good(0, <<>>)
      OBVIOUS
    <3> QED BY <3>1
  <2>2. ASSUME NEW n \in Nat, n \in T PROVE n + 1 \in T
    <3> SUFFICES ASSUME n + 1 <= N PROVE \E g : Good(n + 1, g)
      <4> HIDE DEF Good
      <4> QED OBVIOUS
    <3>1. PICK g : Good(n, g)
      <4> HIDE DEF Good
      <4> QED BY <2>2, <1>0
    <3> DEFINE h == [i \in 1 .. n + 1 |-> IF i = n + 1 THEN Rec(g, n + 1) ELSE g[i]]
    <3>2. n + 1 \in 1 .. N /\ seqs[n + 1] \in Seq(X)
      BY <1>0
    <3>3. Rec(g, n + 1) \in Seq(X)
      <4>1. CASE n + 1 = 1
        BY <4>1, <3>2
      <4>2. CASE n + 1 # 1
        <5>1. n \in 1 .. n /\ (n + 1) - 1 = n /\ g[n] \in Seq(X)
          BY <4>2, <3>1
        <5> QED BY <4>2, <5>1, <3>2
      <4> QED BY <4>1, <4>2
    <3>4. h \in [1 .. n + 1 -> Seq(X)]
      <4> HIDE DEF Rec
      <4> QED BY <3>1, <3>3
    <3>5. ASSUME NEW i \in 1 .. n + 1 PROVE h[i] = Rec(h, i)
      <4>1. i = 1 \/ (i - 1 \in 1 .. n /\ h[i - 1] = g[i - 1])
        <5> HIDE DEF Rec
        <5> QED OBVIOUS
      <4>2. Rec(h, i) = Rec(g, i)
        <5> HIDE DEF h
        <5> QED BY <4>1
      <4>3. h[i] = Rec(g, i)
        <5> HIDE DEF Rec
        <5> QED BY <3>1
      <4> QED BY <4>2, <4>3
    <3>6. Good(n + 1, h)
      <4> HIDE DEF h, Rec
      <4> QED BY <3>4, <3>5
    <3> QED
      <4> HIDE DEF Good, h
      <4> QED BY <3>6
  <2>3. Nat \subseteq T
    <3> HIDE DEF T
    <3> QED BY <2>1, <2>2, InductionOn
  <2>4. PICK g : Good(N, g)
    <3>1. N \in T /\ N <= N
      <4> HIDE DEF T
      <4> QED BY <2>3, <1>0
    <3> HIDE DEF Good
    <3> QED BY <3>1
  <2>5. Iter(g)
    <3> HIDE DEF Rec
    <3> QED BY <2>4
  <2>6. Iter(it)
    <3> HIDE DEF Iter
    <3> QED BY <2>5, Zenon
  <2>7. FlattenSeq(seqs) = it[N]
    BY <1>3, Zenon DEF FlattenSeq, N
  <2> DEFINE U == {n \in Nat : n # 0 /\ n <= N => it[n] \in Seq(X) /\ \E start : IsFlat(it[n], seqs, n, start)}
  <2>8. \A i \in 1 .. N : it[i] = Rec(it, i)
    <3> HIDE DEF it, Rec
    <3> QED BY <2>6
  <2> HIDE DEF it, Good, T, Iter
  <2>9. 0 \in U
    OBVIOUS
  <2>10. ASSUME NEW n \in Nat, n \in U PROVE n + 1 \in U
    <3> SUFFICES ASSUME n + 1 <= N
                 PROVE  it[n + 1] \in Seq(X) /\ \E start : IsFlat(it[n + 1], seqs, n + 1, start)
      OBVIOUS
    <3>1. n + 1 \in 1 .. N /\ n < N /\ n < Len(seqs)
      BY <1>0 DEF N
    <3>2. CASE n = 0
      <4>1. it[n + 1] = seqs[n + 1] /\ seqs[n + 1] \in Seq(X)
        BY <3>2, <3>1, <2>8, <1>0
      <4>2. <<>> \o seqs[n + 1] = seqs[n + 1] /\ <<>> \in Seq(X)
        BY <4>1
      <4>3. \E start : IsFlat(<<>> \o seqs[n + 1], seqs, n + 1, start)
        BY <1>1, <3>1, <3>2, <4>2, FlatStep
      <4> QED BY <4>1, <4>2, <4>3
    <3>3. CASE n # 0
      <4>1. it[n] \in Seq(X) /\ \E start : IsFlat(it[n], seqs, n, start)
        <5>1. n <= N
          BY <1>0
        <5> QED BY <5>1, <3>3, <2>10
      <4>2. it[n + 1] = it[n] \o seqs[n + 1] /\ seqs[n + 1] \in Seq(X)
        <5>1. n + 1 # 1 /\ (n + 1) - 1 = n
          BY <3>3
        <5> QED BY <5>1, <3>1, <2>8, <1>0
      <4>3. \E start : IsFlat(it[n] \o seqs[n + 1], seqs, n + 1, start)
        BY <4>1, <3>1, FlatStep
      <4> QED BY <4>1, <4>2, <4>3
    <3> QED BY <3>2, <3>3
  <2>11. Nat \subseteq U
    <3> HIDE DEF U
    <3> QED BY <2>9, <2>10, InductionOn
  <2> QED BY <2>7, <2>11, <1>0, <1>3 DEF N
<1> QED BY <1>2, <1>3

\* Positions of a flattened sequence are in the order of the sequences.
LEMMA FlatOrder ==
  ASSUME NEW X, NEW F, NEW seqs \in Seq(Seq(X)), NEW n \in Nat, n <= Len(seqs), NEW start, IsFlat(F, seqs, n, start),
         NEW p \in 1 .. n, NEW k \in 1 .. Len(seqs[p]),
         NEW q \in 1 .. n, NEW m \in 1 .. Len(seqs[q]), start[p] + k < start[q] + m
  PROVE  p < q \/ (p = q /\ k < m)
<1>1. p \in 1 .. Len(seqs) /\ q \in 1 .. Len(seqs)
  OBVIOUS
<1>2. seqs[p] \in Seq(X) /\ seqs[q] \in Seq(X)
  BY <1>1
<1>3. Len(seqs[p]) \in Nat /\ Len(seqs[q]) \in Nat
  BY <1>2
<1>4. start[p] \in Nat /\ start[q] \in Nat
  BY DEF IsFlat
<1>5. q < p => start[q] + Len(seqs[q]) <= start[p]
  BY DEF IsFlat
<1>6. p \in Nat /\ q \in Nat /\ k \in Nat /\ m \in Nat /\ k >= 1 /\ m <= Len(seqs[q])
  BY <1>3
<1>7. ~(q < p)
  BY <1>3, <1>4, <1>5, <1>6
<1> QED BY <1>4, <1>6, <1>7

\* s lists the n elements of S with growing keys.
IsSorting(s, n, S, K) ==
  /\ s \in [1 .. n -> S]
  /\ \A i, j \in 1 .. n : i < j => K[s[i]] < K[s[j]]
  /\ \A x \in S : \E i \in 1 .. n : s[i] = x

\* An element with the greatest key at the end.
LEMMA SortingStep ==
  ASSUME NEW S, NEW K \in [S -> Nat], NEW m \in S, \A y \in S : y # m => K[y] < K[m],
         NEW n \in Nat, NEW s, IsSorting(s, n, S \ {m}, K)
  PROVE  IsSorting([i \in 1 .. n + 1 |-> IF i = n + 1 THEN m ELSE s[i]], n + 1, S, K)
<1> DEFINE t == [i \in 1 .. n + 1 |-> IF i = n + 1 THEN m ELSE s[i]]
<1>1. s \in [1 .. n -> S \ {m}]
  BY DEF IsSorting
<1>2. /\ \A i \in 1 .. n : i \in 1 .. n + 1 /\ t[i] = s[i] /\ s[i] \in S /\ s[i] # m
      /\ t[n + 1] = m /\ n + 1 \in 1 .. n + 1
      /\ \A i \in 1 .. n + 1 : i \in 1 .. n \/ i = n + 1
  BY <1>1
<1>3. t \in [1 .. n + 1 -> S]
  BY <1>2
<1> HIDE DEF t
<1>4. ASSUME NEW i \in 1 .. n + 1, NEW j \in 1 .. n + 1, i < j PROVE K[t[i]] < K[t[j]]
  <2>1. i \in 1 .. n
    BY <1>4
  <2>2. CASE j \in 1 .. n
    <3>1. K[s[i]] < K[s[j]]
      BY <1>4, <2>1, <2>2 DEF IsSorting
    <3> QED BY <3>1, <2>1, <2>2, <1>2
  <2>3. CASE j = n + 1
    <3>1. K[s[i]] < K[m]
      BY <2>1, <1>2
    <3> QED BY <3>1, <2>1, <2>3, <1>2
  <2> QED BY <2>2, <2>3, <1>2
<1>5. ASSUME NEW x \in S PROVE \E i \in 1 .. n + 1 : t[i] = x
  <2>1. CASE x = m
    BY <2>1, <1>2
  <2>2. CASE x # m
    <3>1. PICK i \in 1 .. n : s[i] = x
      BY <2>2 DEF IsSorting
    <3> QED BY <3>1, <1>2
  <2> QED BY <2>1, <2>2
<1> QED BY <1>3, <1>4, <1>5 DEF IsSorting, t

\* A finite set can be sorted by keys of its elements.
LEMMA SortingExists ==
  ASSUME NEW S, IsFiniteSet(S), NEW K \in [S -> Nat], \A x, y \in S : K[x] = K[y] => x = y
  PROVE  \E s : IsSorting(s, Cardinality(S), S, K)
<1> DEFINE P(R) == \E s : IsSorting(s, Cardinality(R), R, K)
           T == {n \in Nat : \A R \in SUBSET S : Cardinality(R) = n => P(R)}
<1>1. \A R \in SUBSET S : IsFiniteSet(R) /\ Cardinality(R) \in Nat
  BY FS_Subset, FS_CardinalityType
<1>2. 0 \in T
  <2> SUFFICES ASSUME NEW R \in SUBSET S, Cardinality(R) = 0 PROVE P(R)
    OBVIOUS
  <2>1. R = {}
    BY <1>1, FS_EmptySet
  <2>2. IsSorting([i \in 1 .. 0 |-> i], 0, {}, K)
    BY DEF IsSorting
  <2> QED BY <2>1, <2>2
<1>3. ASSUME NEW n \in Nat, n \in T PROVE n + 1 \in T
  <2> SUFFICES ASSUME NEW R \in SUBSET S, Cardinality(R) = n + 1 PROVE P(R)
    OBVIOUS
  <2>1. ASSUME NEW x \in R PROVE Cardinality(R \ {x}) = n /\ P(R \ {x})
    <3>1. IsFiniteSet(R)
      BY <1>1
    <3>2. Cardinality(R \ {x}) = (n + 1) - 1
      BY <3>1, FS_RemoveElement
    <3>3. Cardinality(R \ {x}) = n /\ R \ {x} \in SUBSET S
      BY <3>2
    <3> QED BY <3>3, <1>3
  <2>2. PICK x \in R : TRUE
    <3>1. R # {}
      BY <1>1, FS_EmptySet
    <3> QED BY <3>1
  <2>3. PICK s : IsSorting(s, n, R \ {x}, K)
    BY <2>1, <2>2
  <2>4. \A y \in R : K[y] \in Nat
    OBVIOUS
  <2>5. \E m \in R : \A y \in R : y # m => K[y] < K[m]
    <3>1. CASE n = 0
      <4>1. R \ {x} = {}
        BY <3>1, <2>3 DEF IsSorting
      <4> QED BY <4>1, <2>2
    <3>2. CASE n > 0
      <4> DEFINE z == s[n]
      <4>1. n \in 1 .. n /\ z \in R /\ z # x
        BY <3>2, <2>3 DEF IsSorting
      <4>2. ASSUME NEW y \in R, y # x, y # z PROVE K[y] < K[z]
        <5>1. PICK i \in 1 .. n : s[i] = y
          BY <4>2, <2>3 DEF IsSorting
        <5>2. i < n
          BY <5>1, <4>2
        <5> QED BY <5>1, <5>2, <4>1, <2>3 DEF IsSorting
      <4>3. K[x] # K[z] /\ K[x] \in Nat /\ K[z] \in Nat
        BY <4>1, <2>2, <2>4
      <4> HIDE DEF z
      <4>4. CASE K[x] < K[z]
        <5>1. \A y \in R : y # z => K[y] < K[z]
          BY <4>2, <4>4
        <5> QED BY <5>1, <4>1
      <4>5. CASE K[z] < K[x]
        <5>1. ASSUME NEW y \in R, y # x PROVE K[y] < K[x]
          <6>1. CASE y = z
            BY <6>1, <4>5
          <6>2. CASE y # z
            <7>1. K[y] < K[z] /\ K[y] \in Nat
              BY <6>2, <5>1, <4>2, <2>4
            <7> QED BY <7>1, <4>3, <4>5
          <6> QED BY <6>1, <6>2
        <5> QED BY <5>1, <2>2
      <4> QED BY <4>3, <4>4, <4>5
    <3> QED BY <3>1, <3>2
  <2>6. PICK m \in R : \A y \in R : y # m => K[y] < K[m]
    BY <2>5
  <2>7. PICK u : IsSorting(u, n, R \ {m}, K)
    BY <2>1, <2>6
  <2> DEFINE KR == [y \in R |-> K[y]]
  <2>8. KR \in [R -> Nat] /\ \A y \in R : KR[y] = K[y]
    BY <2>4
  <2>9. IsSorting(u, n, R \ {m}, KR)
    <3> HIDE DEF KR
    <3>1. \A i \in 1 .. n : u[i] \in R
      BY <2>7 DEF IsSorting
    <3> QED BY <3>1, <2>7, <2>8 DEF IsSorting
  <2> DEFINE t == [i \in 1 .. n + 1 |-> IF i = n + 1 THEN m ELSE u[i]]
  <2>10. IsSorting(t, n + 1, R, KR)
    <3>1. \A y \in R : y # m => KR[y] < KR[m]
      BY <2>6, <2>8
    <3> HIDE DEF KR
    <3> QED BY <3>1, <2>8, <2>9, SortingStep
  <2>11. IsSorting(t, n + 1, R, K)
    <3> HIDE DEF KR, t
    <3>1. \A i \in 1 .. n + 1 : t[i] \in R
      BY <2>10 DEF IsSorting
    <3> QED BY <3>1, <2>8, <2>10 DEF IsSorting
  <2> HIDE DEF t
  <2> QED BY <2>11
<1>4. Nat \subseteq T
  <2> HIDE DEF T
  <2> QED BY <1>2, <1>3, InductionOn
<1>5. S \in SUBSET S /\ Cardinality(S) \in T
  BY <1>1, <1>4
<1> QED BY <1>5

\* A finite set of natural numbers has a greatest element.
LEMMA FiniteGreatest ==
  ASSUME NEW Q, Q \subseteq Nat, Q # {}, IsFiniteSet(Q)
  PROVE  \E m \in Q : \A y \in Q : y <= m
<1> DEFINE K == [x \in Q |-> x]
           n == Cardinality(Q)
<1>1. K \in [Q -> Nat] /\ (\A x \in Q : K[x] = x)
  OBVIOUS
<1>2. n \in Nat /\ n # 0
  BY FS_CardinalityType, FS_EmptySet
<1> HIDE DEF K, n
<1>3. PICK s : IsSorting(s, n, Q, K)
  BY <1>1, SortingExists DEF n
<1>4. n \in 1 .. n /\ s[n] \in Q
  BY <1>2, <1>3 DEF IsSorting
<1>5. ASSUME NEW y \in Q PROVE y <= s[n]
  <2>1. PICK i \in 1 .. n : s[i] = y
    BY <1>3 DEF IsSorting
  <2>2. CASE i = n
    BY <2>1, <2>2, <1>4
  <2>3. CASE i < n
    <3>1. K[s[i]] < K[s[n]]
      BY <2>3, <1>3, <1>4 DEF IsSorting
    <3>2. K[s[i]] = y /\ K[s[n]] = s[n] /\ y \in Nat /\ s[n] \in Nat
      BY <2>1, <1>1, <1>4
    <3> QED BY <3>1, <3>2
  <2> QED BY <2>1, <2>2, <2>3, <1>2
<1> QED BY <1>4, <1>5

------------------------------------------------------------------------------
\* G gives the sum of f over every part of its domain.
IsSumTable(G, f) ==
  G = [s \in SUBSET DOMAIN f |->
         IF s = {} THEN 0 ELSE f[CHOOSE x \in s : TRUE] + G[s \ {CHOOSE x \in s : TRUE}]]

\* SumFunction, which the library defines by a recursive function on sets, is such a table.
LEMMA SumIsTable ==
  ASSUME NEW f
  PROVE  SumFunction(f) = (CHOOSE G : IsSumTable(G, f))[DOMAIN f]
BY Zenon DEF SumFunction, SumFunctionOnSet, FoldFunctionOnSet, MapThenFoldSet, IsSumTable

\* A function on a finite set has finitely many values.
LEMMA FiniteValues ==
  ASSUME NEW f, IsFiniteSet(DOMAIN f)
  PROVE  IsFiniteSet({f[x] : x \in DOMAIN f})
<1> DEFINE S == DOMAIN f
           V == {f[x] : x \in S}
           g == [x \in S |-> f[x]]
<1>1. g \in Surjection(S, V)
  BY DEF Surjection
<1> HIDE DEF S, V, g
<1>2. IsFiniteSet(S)
  BY DEF S
<1>3. IsFiniteSet(V)
  BY <1>1, <1>2, FS_Surjection
<1> QED BY <1>3 DEF V, S

\* A finite set that is split into parts is counted part by part.
LEMMA SumOfParts ==
  ASSUME NEW f, IsFiniteSet(DOMAIN f), NEW part, NEW all, IsFiniteSet(all),
         \A x \in DOMAIN f : part[x] \subseteq all /\ f[x] = Cardinality(part[x]),
         \A x, y \in DOMAIN f : x # y => part[x] \cap part[y] = {},
         \A a \in all : \E x \in DOMAIN f : a \in part[x]
  PROVE  SumFunction(f) = Cardinality(all)
<1> DEFINE D    == DOMAIN f
           E(s) == CHOOSE x \in s : TRUE
           U(s) == UNION {part[x] : x \in s}
           N(s) == Cardinality(U(s))
<1>1. ASSUME NEW s \in SUBSET D PROVE IsFiniteSet(U(s)) /\ N(s) \in Nat
  <2>1. U(s) \subseteq all
    OBVIOUS
  <2> HIDE DEF U
  <2>2. IsFiniteSet(U(s))
    BY <2>1, FS_Subset
  <2> QED BY <2>2, FS_CardinalityType
<1>2. N({}) = 0
  <2>1. U({}) = {}
    OBVIOUS
  <2> HIDE DEF U
  <2> QED BY <2>1, FS_EmptySet
<1>3. ASSUME NEW s \in SUBSET D, NEW e \in s PROVE N(s) = f[e] + N(s \ {e})
  <2> DEFINE A == part[e]
             B == U(s \ {e})
  <2>1. U(s) = A \cup B
    OBVIOUS
  <2>2. A \cap B = {} /\ A \subseteq all /\ e \in D /\ f[e] = Cardinality(A)
    OBVIOUS
  <2>3. IsFiniteSet(A) /\ IsFiniteSet(B)
    <3>1. IsFiniteSet(B)
      <4>1. s \ {e} \in SUBSET D
        OBVIOUS
      <4> HIDE DEF U
      <4> QED BY <4>1, <1>1
    <3> HIDE DEF A, B
    <3> QED BY <3>1, <2>2, FS_Subset
  <2> HIDE DEF A, B, U
  <2>4. Cardinality(A \cup B) = Cardinality(A) + Cardinality(B) - Cardinality(A \cap B)
    BY <2>3, FS_Union
  <2>5. Cardinality(A \cap B) = 0 /\ Cardinality(A) \in Nat /\ Cardinality(B) \in Nat
    BY <2>2, <2>3, FS_EmptySet, FS_CardinalityType
  <2>6. N(s) = Cardinality(A) + Cardinality(B)
    BY <2>1, <2>4, <2>5
  <2> QED BY <2>2, <2>6 DEF B
<1>4. ASSUME NEW s \in SUBSET D, s # {} PROVE E(s) \in s /\ s \ {E(s)} \in SUBSET D
  BY <1>4
<1> HIDE DEF E, U, N, D
<1>5. \E G : IsSumTable(G, f)
  <2> DEFINE G == [s \in SUBSET D |-> N(s)]
  <2>1. ASSUME NEW s \in SUBSET D PROVE G[s] = IF s = {} THEN 0 ELSE f[E(s)] + G[s \ {E(s)}]
    <3>1. CASE s = {}
      BY <3>1, <1>2
    <3>2. CASE s # {}
      <4>1. E(s) \in s /\ s \ {E(s)} \in SUBSET D
        BY <3>2, <1>4
      <4>2. N(s) = f[E(s)] + N(s \ {E(s)})
        BY <4>1, <1>3
      <4> QED BY <3>2, <4>1, <4>2
    <3> QED BY <3>1, <3>2
  <2>2. G = [s \in SUBSET D |-> IF s = {} THEN 0 ELSE f[E(s)] + G[s \ {E(s)}]]
    <3>1. DOMAIN G = SUBSET D /\ G = [s \in SUBSET D |-> G[s]]
      OBVIOUS
    <3> HIDE DEF G
    <3> QED BY <2>1, <3>1
  <2>3. IsSumTable(G, f)
    <3> HIDE DEF G
    <3> QED BY <2>2 DEF IsSumTable, E, D
  <2> QED BY <2>3
<1>6. PICK G : IsSumTable(G, f) /\ SumFunction(f) = G[D]
  <2> DEFINE C == CHOOSE G : IsSumTable(G, f)
  <2>1. IsSumTable(C, f)
    BY <1>5, Zenon
  <2>2. SumFunction(f) = C[D]
    BY SumIsTable, Zenon DEF D
  <2> HIDE DEF C
  <2> QED BY <2>1, <2>2
<1>7. \A s \in SUBSET D : G[s] = IF s = {} THEN 0 ELSE f[E(s)] + G[s \ {E(s)}]
  <2>1. G = [s \in SUBSET D |-> IF s = {} THEN 0 ELSE f[E(s)] + G[s \ {E(s)}]]
    BY <1>6 DEF IsSumTable, E, D
  <2> QED BY <2>1
<1> DEFINE T == {n \in Nat : \A s \in SUBSET D : IsFiniteSet(s) /\ Cardinality(s) = n => G[s] = N(s)}
<1>8. 0 \in T
  <2>1. ASSUME NEW s \in SUBSET D, IsFiniteSet(s), Cardinality(s) = 0 PROVE G[s] = N(s)
    <3>1. s = {}
      BY <2>1, FS_EmptySet
    <3> QED BY <3>1, <1>2, <1>7
  <2> QED BY <2>1
<1>9. ASSUME NEW n \in Nat, n \in T PROVE n + 1 \in T
  <2>1. ASSUME NEW s \in SUBSET D, IsFiniteSet(s), Cardinality(s) = n + 1 PROVE G[s] = N(s)
    <3>1. s # {}
      BY <2>1, FS_EmptySet
    <3>2. E(s) \in s /\ s \ {E(s)} \in SUBSET D
      BY <3>1, <1>4
    <3> DEFINE r == s \ {E(s)}
    <3>3. IsFiniteSet(r) /\ Cardinality(r) = Cardinality(s) - 1
      BY <2>1, <3>2, FS_RemoveElement
    <3> HIDE DEF r
    <3>4. Cardinality(r) = n
      BY <2>1, <3>3
    <3>5. G[r] = N(r)
      BY <1>9, <3>2, <3>3, <3>4 DEF r
    <3>6. N(s) = f[E(s)] + N(r)
      BY <3>2, <1>3 DEF r
    <3>7. G[s] = f[E(s)] + G[r]
      BY <3>1, <1>7 DEF r
    <3> QED BY <3>5, <3>6, <3>7
  <2> QED BY <2>1
<1>10. Nat \subseteq T
  <2> HIDE DEF T
  <2> QED BY <1>8, <1>9, InductionOn
<1>11. G[D] = N(D)
  <2>1. IsFiniteSet(D) /\ Cardinality(D) \in Nat
    BY FS_CardinalityType DEF D
  <2>2. Cardinality(D) \in T
    <3> HIDE DEF T
    <3> QED BY <2>1, <1>10
  <2> QED BY <2>1, <2>2
<1>12. U(D) = all
  BY DEF U, D
<1> QED BY <1>6, <1>11, <1>12 DEF N
=============================================================================
