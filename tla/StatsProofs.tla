---------------------------- MODULE StatsProofs ----------------------------
(***************************************************************************)
(* What the dashboard shows, whatever the requests, the rules, their       *)
(* delays, the length of a run and the pipelines that break: complete      *)
(* curves that add up, smooth ones for a leaky bucket, the newest denies.  *)
(*                                                                         *)
(* The folds of the library are functions that are chosen, so that first   *)
(* of all sums and concatenations must be shown to exist and to be what    *)
(* they should.  Then come the commands of a tick, one after the other, a  *)
(* pipeline of them, wherever it is cut, and the steps.                    *)
(***************************************************************************)
EXTENDS Stats, Arithmetic, FiniteSetTheorems

-----------------------------------------------------------------------------
(***************************************************************************)
(* Folds.                                                                  *)
(***************************************************************************)
\* What a fold takes first of a set; the value it goes on with.
Chooses(ch, S) == \A s \in SUBSET S : s # {} => ch[s] \in s
Closed(op, S, V) == \A x \in S, v \in V : op[x][v] \in V

\* The values g of a fold of each part of S.
Folds(g, S, b, ch, op) ==
    \A s \in SUBSET S : g[s] = IF s = {} THEN b ELSE op[ch[s]][g[s \ {ch[s]}]]

\* A fold over a finite set has a value for each part of it.
LEMMA FoldDefined ==
    ASSUME NEW S, IsFiniteSet(S), NEW V, NEW b \in V, NEW ch, NEW op,
           Chooses(ch, S), Closed(op, S, V)
    PROVE  \E g \in [SUBSET S -> V] : Folds(g, S, b, ch, op)
<1> USE DEF Chooses, Closed, Folds
<1> DEFINE D(n) == {s \in SUBSET S : Cardinality(s) <= n}
           Good(g, n) == /\ g \in [D(n) -> V]
                         /\ \A s \in D(n) : g[s] = IF s = {} THEN b
                                                   ELSE op[ch[s]][g[s \ {ch[s]}]]
           N == {n \in Nat : \E g : Good(g, n)}
<1>1. 0 \in N
  <2>1. \A s \in D(0) : s = {}
    <3> TAKE s \in D(0)
    <3>1. IsFiniteSet(s) /\ Cardinality(s) \in Nat
      BY FS_Subset, FS_CardinalityType
    <3> QED
      BY <3>1, FS_EmptySet
  <2>2. Good([s \in D(0) |-> b], 0)
    BY <2>1
  <2> QED
    BY <2>2
<1>2. ASSUME NEW n \in Nat, n \in N PROVE n + 1 \in N
  <2>1. PICK g : Good(g, n)
    BY <1>2
  <2> DEFINE h == [s \in D(n + 1) |-> IF s \in D(n) THEN g[s]
                                      ELSE op[ch[s]][g[s \ {ch[s]}]]]
  <2>2. \A s \in SUBSET S : IsFiniteSet(s) /\ Cardinality(s) \in Nat
    BY FS_Subset, FS_CardinalityType
  <2>3. {} \in D(n) /\ {} \in D(n + 1)
    BY FS_EmptySet
  <2>4. \A s \in D(n + 1) : s # {} => ch[s] \in S /\ s \ {ch[s]} \in D(n)
    <3> SUFFICES ASSUME NEW s \in D(n + 1), s # {} PROVE ch[s] \in S /\ s \ {ch[s]} \in D(n)
      OBVIOUS
    <3>1. ch[s] \in s /\ s \in SUBSET S /\ s \ {ch[s]} \in SUBSET S
      OBVIOUS
    <3>2. Cardinality(s \ {ch[s]}) = Cardinality(s) - 1
      BY <2>2, <3>1, FS_RemoveElement
    <3> QED
      BY <2>2, <3>1, <3>2
  <2>5. D(n) \subseteq D(n + 1)
    BY <2>2
  <2>6. \A s \in D(n + 1) : h[s] \in V
    <3> TAKE s \in D(n + 1)
    <3>1. CASE s \in D(n)
      BY <2>1, <3>1
    <3>2. CASE s \notin D(n)
      <4>1. s # {}
        BY <2>3, <3>2
      <4>2. ch[s] \in S /\ g[s \ {ch[s]}] \in V
        BY <2>1, <2>4, <4>1
      <4> QED
        BY <3>2, <4>2
    <3> QED
      BY <3>1, <3>2
  <2>7. \A s \in D(n) : h[s] = g[s]
    BY <2>5
  <2>8. \A s \in D(n + 1) : h[s] = IF s = {} THEN b ELSE op[ch[s]][h[s \ {ch[s]}]]
    <3> TAKE s \in D(n + 1)
    <3>1. CASE s = {}
      BY <2>1, <2>3, <2>7, <3>1
    <3>2. ASSUME s # {} PROVE h[s] = op[ch[s]][h[s \ {ch[s]}]]
      <4>1. h[s \ {ch[s]}] = g[s \ {ch[s]}]
        BY <2>4, <2>7, <3>2
      <4>2. CASE s \in D(n)
        BY <2>1, <2>7, <3>2, <4>1, <4>2
      <4>3. CASE s \notin D(n)
        BY <4>1, <4>3
      <4> QED
        BY <4>2, <4>3
    <3> QED
      BY <3>1, <3>2
  <2>9. h \in [D(n + 1) -> V]
    BY <2>6
  <2>10. Good(h, n + 1)
    BY <2>8, <2>9
  <2> HIDE DEF h, Good
  <2> QED
    BY <2>10
<1>3. Cardinality(S) \in N
  <2>1. Cardinality(S) \in Nat
    BY FS_CardinalityType
  <2> HIDE DEF N
  <2> QED
    BY <1>1, <1>2, <2>1, Induction
<1>4. PICK g : Good(g, Cardinality(S))
  BY <1>3
<1>5. D(Cardinality(S)) = SUBSET S
  BY FS_Subset
<1> QED
  BY <1>4, <1>5

-----------------------------------------------------------------------------
(***************************************************************************)
(* Sums.                                                                   *)
(***************************************************************************)
\* The element a sum takes first.
First(s) == CHOOSE x \in s : TRUE

\* What the partial sums g of f are.
SumsOf(g, f, S) ==
    \A s \in SUBSET S : g[s] = IF s = {} THEN 0 ELSE f[First(s)] + g[s \ {First(s)}]

\* A sum is the last of its partial sums.
LEMMA SumDefined ==
    ASSUME NEW S, IsFiniteSet(S), NEW f \in [S -> Int]
    PROVE  \E g \in [SUBSET S -> Int] : SumsOf(g, f, S) /\ SumFunction(f) = g[S]
<1> DEFINE ch == [s \in SUBSET S |-> First(s)]
           op == [x \in S |-> [v \in Int |-> f[x] + v]]
           G(g) == g = [s \in SUBSET S |->
                           IF s = {} THEN 0 ELSE f[First(s)] + g[s \ {First(s)}]]
<1>1. \A s \in SUBSET S : s # {} => First(s) \in s
  BY Zenon DEF First
<1>2. PICK g \in [SUBSET S -> Int] : Folds(g, S, 0, ch, op)
  <2>1. 0 \in Int /\ Chooses(ch, S)
    BY <1>1 DEF Chooses
  <2>2. Closed(op, S, Int)
    BY DEF Closed
  <2> HIDE DEF ch, op
  <2> QED
    BY <2>1, <2>2, FoldDefined
<1>3. \A s \in SUBSET S : s # {} => op[ch[s]][g[s \ {ch[s]}]] = f[First(s)] + g[s \ {First(s)}]
  <2> TAKE s \in SUBSET S
  <2> HAVE s # {}
  <2>1. ch[s] = First(s) /\ First(s) \in S /\ s \ {First(s)} \in SUBSET S
    BY <1>1
  <2>2. g[s \ {First(s)}] \in Int
    BY <2>1
  <2> HIDE DEF ch
  <2> QED
    BY <2>1, <2>2
<1>4. \A s \in SUBSET S : g[s] = IF s = {} THEN 0 ELSE f[First(s)] + g[s \ {First(s)}]
  BY <1>2, <1>3 DEF Folds
<1>5. G(g)
  BY <1>4
<1>6. SumFunction(f) = LET it == CHOOSE h : G(h) IN it[S]
  BY Zenon DEF SumFunction, SumFunctionOnSet, FoldFunctionOnSet, MapThenFoldSet, First
<1> DEFINE it == CHOOSE h : G(h)
<1>7. G(it)
  <2> HIDE DEF G
  <2> QED
    BY <1>5
<1>8. SumFunction(f) = it[S]
  BY <1>6
<1> HIDE DEF it
<1>9. \A s \in SUBSET S : it[s] = IF s = {} THEN 0 ELSE f[First(s)] + it[s \ {First(s)}]
  BY <1>7
<1>10. DOMAIN it = SUBSET S
  BY <1>7
<1>11. \A n \in Nat : \A s \in SUBSET S : Cardinality(s) <= n => it[s] \in Int
  <2> DEFINE N == {n \in Nat : \A s \in SUBSET S : Cardinality(s) <= n => it[s] \in Int}
  <2>1. \A s \in SUBSET S : IsFiniteSet(s) /\ Cardinality(s) \in Nat
    BY FS_Subset, FS_CardinalityType
  <2>2. 0 \in N
    <3>1. \A s \in SUBSET S : Cardinality(s) <= 0 => s = {}
      BY <2>1, FS_EmptySet
    <3>2. \A s \in SUBSET S : s = {} => it[s] = 0
      BY <1>9
    <3> QED
      BY <3>1, <3>2
  <2>3. ASSUME NEW n \in Nat, n \in N PROVE n + 1 \in N
    <3>1. ASSUME NEW s \in SUBSET S, Cardinality(s) <= n + 1 PROVE it[s] \in Int
      <4>1. CASE s = {}
        BY <1>9, <4>1
      <4>2. ASSUME s # {} PROVE it[s] \in Int
        <5>1. First(s) \in s /\ f[First(s)] \in Int /\ s \ {First(s)} \in SUBSET S
          BY <1>1, <4>2
        <5>2. Cardinality(s \ {First(s)}) = Cardinality(s) - 1
          BY <2>1, <5>1, FS_RemoveElement
        <5>3. it[s \ {First(s)}] \in Int
          BY <2>1, <2>3, <3>1, <5>1, <5>2
        <5>4. it[s] = f[First(s)] + it[s \ {First(s)}]
          BY <1>9, <4>2
        <5> QED
          BY <5>1, <5>3, <5>4
      <4> QED
        BY <4>1, <4>2
    <3> QED
      BY <3>1
  <2> HIDE DEF N
  <2>4. \A n \in Nat : n \in N
    BY <2>2, <2>3, Induction
  <2> QED
    BY <2>4 DEF N
<1>12. \A s \in SUBSET S : it[s] \in Int
  BY <1>11, FS_Subset, FS_CardinalityType
<1>13. it \in [SUBSET S -> Int]
  BY <1>7, <1>10, <1>12
<1> QED
  BY <1>8, <1>9, <1>13 DEF SumsOf

\* The function h is f, but for d more at a.
Raised(h, f, S, a, d) == \A x \in S : h[x] = IF x = a THEN f[x] + d ELSE f[x]

\* What sums of two functions have to do with each other, if the first is nowhere
\* more than the second: so are the sums, and they differ as the functions do if
\* these differ at one place.
LEMMA SumFacts ==
    ASSUME NEW S, IsFiniteSet(S), NEW f \in [S -> Int], NEW h \in [S -> Int]
    PROVE  /\ SumFunction(f) \in Int
           /\ (\A x \in S : f[x] = 0) => SumFunction(f) = 0
           /\ (\A x \in S : f[x] <= h[x]) => SumFunction(f) <= SumFunction(h)
           /\ \A a \in S, d \in Int :
                  Raised(h, f, S, a, d) => SumFunction(h) = SumFunction(f) + d
<1>1. \A s \in SUBSET S : IsFiniteSet(s) /\ Cardinality(s) \in Nat
  BY FS_Subset, FS_CardinalityType
<1>2. \A s \in SUBSET S : s # {} => First(s) \in s
  BY Zenon DEF First
<1>3. \A s \in SUBSET S : Cardinality(s) <= 0 => s = {}
  BY <1>1, FS_EmptySet
<1>4. \A s \in SUBSET S : s # {} => /\ s \ {First(s)} \in SUBSET S
                                    /\ Cardinality(s \ {First(s)}) = Cardinality(s) - 1
  BY <1>1, <1>2, FS_RemoveElement
<1>5. PICK g \in [SUBSET S -> Int] : SumsOf(g, f, S) /\ SumFunction(f) = g[S]
  BY SumDefined
<1>6. PICK k \in [SUBSET S -> Int] : SumsOf(k, h, S) /\ SumFunction(h) = k[S]
  BY SumDefined
<1>7. /\ \A s \in SUBSET S : g[s] = IF s = {} THEN 0 ELSE f[First(s)] + g[s \ {First(s)}]
      /\ \A s \in SUBSET S : k[s] = IF s = {} THEN 0 ELSE h[First(s)] + k[s \ {First(s)}]
  BY <1>5, <1>6 DEF SumsOf
<1>8. /\ (\A x \in S : f[x] = 0) => \A s \in SUBSET S : g[s] = 0
      /\ (\A x \in S : f[x] <= h[x]) => \A s \in SUBSET S : g[s] <= k[s]
      /\ \A a \in S, d \in Int :
             (\A x \in S : h[x] = IF x = a THEN f[x] + d ELSE f[x])
                 => \A s \in SUBSET S : k[s] = IF a \in s THEN g[s] + d ELSE g[s]
  <2> DEFINE P(s) == /\ (\A x \in S : f[x] = 0) => g[s] = 0
                     /\ (\A x \in S : f[x] <= h[x]) => g[s] <= k[s]
                     /\ \A a \in S, d \in Int :
                            (\A x \in S : h[x] = IF x = a THEN f[x] + d ELSE f[x])
                                => k[s] = IF a \in s THEN g[s] + d ELSE g[s]
             N == {n \in Nat : \A s \in SUBSET S : Cardinality(s) <= n => P(s)}
  <2>1. \A s \in SUBSET S : s = {} => P(s)
    <3> TAKE s \in SUBSET S
    <3> HAVE s = {}
    <3>1. g[s] = 0 /\ k[s] = 0
      BY <1>7
    <3> QED
      BY <3>1
  <2>2. 0 \in N
    <3> HIDE DEF P
    <3> QED
      BY <1>3, <2>1
  <2>3. ASSUME NEW n \in Nat, n \in N PROVE n + 1 \in N
    <3>1. ASSUME NEW s \in SUBSET S, Cardinality(s) <= n + 1 PROVE P(s)
      <4>1. ASSUME s # {} PROVE P(s)
        <5> DEFINE x == First(s)
                   t == s \ {x}
        <5>1. x \in s /\ x \in S /\ t \in SUBSET S /\ Cardinality(t) <= n
          BY <1>1, <1>2, <1>4, <3>1, <4>1
        <5>2. P(t)
          <6> HIDE DEF P
          <6> QED
            BY <2>3, <5>1
        <5>3. g[s] = f[x] + g[t] /\ k[s] = h[x] + k[t]
          BY <1>7, <4>1
        <5>4. \A a : a \in s <=> a = x \/ a \in t
          BY <5>1
        <5>5. x \notin t
          OBVIOUS
        <5> HIDE DEF x, t
        <5>6. f[x] \in Int /\ h[x] \in Int /\ g[t] \in Int /\ k[t] \in Int
          BY <5>1
        <5>7. (\A y \in S : f[y] = 0) => g[s] = 0
          BY <5>1, <5>2, <5>3
        <5>8. (\A y \in S : f[y] <= h[y]) => g[s] <= k[s]
          BY <5>1, <5>2, <5>3, <5>6
        <5>9. ASSUME NEW a \in S, NEW d \in Int,
                     \A y \in S : h[y] = IF y = a THEN f[y] + d ELSE f[y]
              PROVE  k[s] = IF a \in s THEN g[s] + d ELSE g[s]
          <6>1. k[t] = IF a \in t THEN g[t] + d ELSE g[t]
            BY <5>2, <5>9
          <6>2. h[x] = IF x = a THEN f[x] + d ELSE f[x]
            BY <5>1, <5>9
          <6>3. CASE x = a
            BY <5>3, <5>4, <5>5, <5>6, <6>1, <6>2, <6>3
          <6>4. CASE x # a
            BY <5>3, <5>4, <5>6, <6>1, <6>2, <6>4
          <6> QED
            BY <6>3, <6>4
        <5> QED
          BY <5>7, <5>8, <5>9
      <4> HIDE DEF P
      <4> QED
        BY <2>1, <4>1
    <3> HIDE DEF P
    <3> QED
      BY <3>1
  <2> HIDE DEF P, N
  <2>4. \A n \in Nat : n \in N
    BY <2>2, <2>3, Induction
  <2>5. \A s \in SUBSET S : P(s)
    BY <1>1, <2>4 DEF N
  <2> QED
    BY <2>5 DEF P
<1>9. S \in SUBSET S /\ g[S] \in Int
  OBVIOUS
<1> QED
  BY <1>5, <1>6, <1>8, <1>9 DEF Raised

\* One more at one place is one more in all.
LEMMA SumChanged ==
    ASSUME NEW S, IsFiniteSet(S), NEW f \in [S -> Int], NEW h \in [S -> Int],
           NEW a \in S, NEW d \in Int,
           Raised(h, f, S, a, d)
    PROVE  SumFunction(h) = SumFunction(f) + d
  BY SumFacts

\* A set of numbers with a bound has a greatest.
LEMMA Greatest ==
    ASSUME NEW s \in SUBSET Nat, s # {}, NEW n \in Nat, \A y \in s : y <= n
    PROVE  Max(s) \in s /\ \A y \in s : y <= Max(s)
<1> DEFINE U == {m \in Nat : \A y \in s : y <= m}
<1>1. PICK m \in U : \A k \in U : m <= k
  BY Least
<1>2. m \in s
  <2>1. ASSUME m \notin s PROVE FALSE
    <3>1. \A y \in s : y <= m /\ y # m
      BY <1>1, <2>1
    <3>2. m # 0
      <4>1. PICK y \in s : y \in Nat
        OBVIOUS
      <4> QED
        BY <3>1, <4>1
    <3>3. m - 1 \in U
      BY <1>1, <3>1, <3>2
    <3> QED
      BY <1>1, <3>3
  <2> QED
    BY <2>1
<1>3. m \in s /\ \A y \in s : m >= y
  BY <1>1, <1>2
<1>4. Max(s) \in s /\ \A y \in s : Max(s) >= y
  BY <1>3, Zenon DEF Max
<1> QED
  BY <1>4

\* A finite set of numbers has a bound: their sum.
LEMMA Bounded ==
    ASSUME NEW s \in SUBSET Nat, IsFiniteSet(s)
    PROVE  \E n \in Nat : \A y \in s : y <= n
<1> DEFINE id   == [y \in s |-> y]
           zero == [y \in s |-> 0]
           n    == SumFunction(id)
<1>1. id \in [s -> Int] /\ zero \in [s -> Int]
  OBVIOUS
<1>2. SumFunction(zero) = 0 /\ n \in Int
  BY <1>1, SumFacts
<1>3. 0 <= n
  <2>1. \A y \in s : zero[y] <= id[y]
    OBVIOUS
  <2> HIDE DEF id, zero
  <2> QED
    BY <1>1, <1>2, <2>1, SumFacts
<1>4. ASSUME NEW y \in s PROVE y <= n
  <2> DEFINE one == [z \in s |-> IF z = y THEN y ELSE 0]
  <2>1. one \in [s -> Int] /\ y \in Int
    OBVIOUS
  <2>2. Raised(one, zero, s, y, y)
    BY DEF Raised
  <2>3. \A z \in s : one[z] <= id[z]
    OBVIOUS
  <2> HIDE DEF one, id, zero
  <2>4. SumFunction(one) = SumFunction(zero) + y
    <3> HIDE DEF n
    <3>1. \A a \in s, d \in Int :
              Raised(one, zero, s, a, d) => SumFunction(one) = SumFunction(zero) + d
      BY <1>1, <2>1, SumFacts
    <3> QED
      BY <2>1, <2>2, <3>1
  <2>5. SumFunction(one) <= n
    BY <1>1, <2>1, <2>3, SumFacts
  <2> QED
    BY <1>2, <2>1, <2>4, <2>5
<1> HIDE DEF n
<1> QED
  BY <1>2, <1>3, <1>4

\* What a fold from left to right takes last.
LEMMA LastTaken ==
    ASSUME NEW L \in Nat
    PROVE  /\ Chooses([s \in SUBSET (1 .. L) |-> Max(s)], 1 .. L)
           /\ \A i \in 1 .. L : Max(1 .. i) = i /\ (1 .. i) \ {i} = 1 .. i - 1
<1>1. ASSUME NEW s \in SUBSET (1 .. L), s # {} PROVE Max(s) \in s
  <2>1. s \in SUBSET Nat /\ \A y \in s : y <= L
    OBVIOUS
  <2> QED
    BY <1>1, <2>1, Greatest
<1>2. Chooses([s \in SUBSET (1 .. L) |-> Max(s)], 1 .. L)
  BY <1>1 DEF Chooses
<1>3. ASSUME NEW i \in 1 .. L PROVE Max(1 .. i) = i /\ (1 .. i) \ {i} = 1 .. i - 1
  <2>1. 1 .. i \in SUBSET Nat /\ 1 .. i # {} /\ i \in Nat /\ i \in 1 .. i /\ \A y \in 1 .. i : y <= i
    OBVIOUS
  <2>2. Max(1 .. i) \in 1 .. i /\ \A y \in 1 .. i : y <= Max(1 .. i)
    BY <2>1, Greatest
  <2>3. (1 .. i) \ {i} = 1 .. i - 1
    OBVIOUS
  <2> QED
    BY <2>1, <2>2, <2>3
<1> QED
  BY <1>2, <1>3

\* The values of what goes on from one place to the next.
Scanned(G, L, b, op) == G[0] = b /\ \A i \in 1 .. L : G[i] = op[i][G[i - 1]]

\* They exist.
LEMMA ScanDefined ==
    ASSUME NEW L \in Nat, NEW V, NEW b \in V, NEW op, Closed(op, 1 .. L, V)
    PROVE  \E G \in [0 .. L -> V] : Scanned(G, L, b, op)
<1> DEFINE S  == 1 .. L
           ch == [s \in SUBSET S |-> Max(s)]
<1>1. IsFiniteSet(S)
  BY FS_Interval
<1>2. Chooses(ch, S)
  BY LastTaken
<1>3. PICK g \in [SUBSET S -> V] : Folds(g, S, b, ch, op)
  <2> HIDE DEF S, ch
  <2> QED
    BY <1>1, <1>2, FoldDefined DEF S
<1> DEFINE G == [i \in 0 .. L |-> g[1 .. i]]
<1>4. G \in [0 .. L -> V]
  OBVIOUS
<1>5. G[0] = b
  <2>1. 1 .. 0 = {} /\ {} \in SUBSET S /\ 0 \in 0 .. L
    OBVIOUS
  <2>2. g[{}] = b
    BY <1>3, <2>1 DEF Folds
  <2> QED
    BY <2>1, <2>2
<1>6. ASSUME NEW i \in 1 .. L PROVE G[i] = op[i][G[i - 1]]
  <2>1. 1 .. i \in SUBSET S /\ 1 .. i # {} /\ i \in 0 .. L /\ i - 1 \in 0 .. L
    OBVIOUS
  <2>2. ch[1 .. i] = i /\ (1 .. i) \ {i} = 1 .. i - 1
    BY <2>1, LastTaken
  <2> HIDE DEF ch, S
  <2>3. g[1 .. i] = op[i][g[1 .. i - 1]]
    BY <1>3, <2>1, <2>2 DEF Folds
  <2> QED
    BY <2>1, <2>3
<1> HIDE DEF G
<1> QED
  BY <1>4, <1>5, <1>6 DEF Scanned

\* The concatenation of sequences, one after the other.
Flat(G, seqs) ==
    G[0] = <<>> /\ \A i \in 1 .. Len(seqs) : G[i] = G[i - 1] \o seqs[i]

LEMMA FlattenDefined ==
    ASSUME NEW T, NEW seqs \in Seq(Seq(T))
    PROVE  \E G \in [0 .. Len(seqs) -> Seq(T)] :
               Flat(G, seqs) /\ FlattenSeq(seqs) = G[Len(seqs)]
<1> DEFINE L  == Len(seqs)
           V  == Seq(T)
           op == [i \in 1 .. L |-> [v \in V |-> v \o seqs[i]]]
           F(g) == g = [i \in 1 .. L |-> IF i = 1 THEN seqs[i] ELSE g[i - 1] \o seqs[i]]
<1>1. L \in Nat /\ <<>> \in V /\ \A i \in 1 .. L : seqs[i] \in V
  OBVIOUS
<1>2. PICK G \in [0 .. L -> V] : G[0] = <<>> /\ \A i \in 1 .. L : G[i] = op[i][G[i - 1]]
  <2> DEFINE b == <<>>
  <2>1. Closed(op, 1 .. L, V)
    BY <1>1 DEF Closed
  <2>2. b \in V
    BY <1>1
  <2> HIDE DEF L, V, op, b
  <2>3. \E G \in [0 .. L -> V] : Scanned(G, L, b, op)
    BY <1>1, <2>1, <2>2, ScanDefined
  <2> QED
    BY <2>3 DEF b, Scanned
<1>3. \A i \in 1 .. L : G[i] = G[i - 1] \o seqs[i]
  <2> TAKE i \in 1 .. L
  <2>1. i - 1 \in 0 .. L
    OBVIOUS
  <2>2. G[i - 1] \in V
    BY <1>2, <2>1
  <2>3. G[i] = op[i][G[i - 1]]
    BY <1>2
  <2> QED
    BY <2>2, <2>3
<1>4. Flat(G, seqs)
  BY <1>2, <1>3 DEF Flat
<1>5. FlattenSeq(seqs) = G[L]
  <2>1. ASSUME L = 0 PROVE FlattenSeq(seqs) = G[L]
    <3>1. seqs = <<>>
      BY <2>1
    <3>2. FlattenSeq(seqs) = seqs
      BY <2>1, Zenon DEF FlattenSeq
    <3> QED
      BY <1>2, <2>1, <3>1, <3>2
  <2>2. ASSUME L # 0 PROVE FlattenSeq(seqs) = G[L]
    <3> DEFINE h  == [i \in 1 .. L |-> G[i]]
               it == CHOOSE g : F(g)
    <3>1. \A i \in 1 .. L : h[i] = IF i = 1 THEN seqs[i] ELSE h[i - 1] \o seqs[i]
      <4> TAKE i \in 1 .. L
      <4>1. CASE i = 1
        <5>1. G[1] = <<>> \o seqs[1] /\ seqs[1] \in Seq(T)
          <6>1. 1 \in 1 .. L /\ 1 - 1 = 0
            BY <4>1
          <6> HIDE DEF L
          <6>2. G[1] = G[1 - 1] \o seqs[1]
            BY <1>3, <6>1
          <6> QED
            BY <1>1, <1>2, <6>1, <6>2
        <5>2. G[1] = seqs[1]
          BY <5>1
        <5> QED
          BY <4>1, <5>2
      <4>2. CASE i # 1
        <5>1. i - 1 \in 1 .. L
          BY <4>2
        <5> QED
          BY <1>3, <4>2, <5>1
      <4> QED
        BY <4>1, <4>2
    <3>2. F(h)
      BY <3>1
    <3>3. F(it)
      <4> HIDE DEF F, h
      <4> QED
        BY <3>2
    <3>4. FlattenSeq(seqs) = it[L]
      BY <2>2, Zenon DEF FlattenSeq
    <3> HIDE DEF it, h
    <3>5. \A i \in 1 .. L : it[i] = IF i = 1 THEN seqs[i] ELSE it[i - 1] \o seqs[i]
      BY <3>3
    <3> DEFINE N == {n \in Nat : n + 1 <= L => it[n + 1] = h[n + 1]}
    <3>6. 0 \in N
      BY <1>1, <3>1, <3>5
    <3>7. ASSUME NEW n \in Nat, n \in N PROVE n + 1 \in N
      <4>1. ASSUME (n + 1) + 1 <= L PROVE it[(n + 1) + 1] = h[(n + 1) + 1]
        <5>1. (n + 1) + 1 \in 1 .. L /\ (n + 1) + 1 # 1 /\ ((n + 1) + 1) - 1 = n + 1
          BY <4>1
        <5>2. it[n + 1] = h[n + 1]
          BY <3>7, <4>1
        <5> QED
          BY <3>1, <3>5, <5>1, <5>2
      <4> QED
        BY <4>1
    <3> HIDE DEF N
    <3>8. \A n \in Nat : n \in N
      BY <3>6, <3>7, Induction
    <3>9. L - 1 \in N /\ (L - 1) + 1 = L /\ L - 1 \in Nat
      BY <1>1, <2>2, <3>8
    <3>10. it[L] = h[L]
      BY <3>9 DEF N
    <3> QED
      BY <1>1, <2>2, <3>4, <3>10 DEF h
  <2> QED
    BY <2>1, <2>2
<1> QED
  BY <1>2, <1>4, <1>5

\* It is a sequence of what they hold, and holds all of it.
LEMMA FlattenHolds ==
    ASSUME NEW T, NEW seqs \in Seq(Seq(T))
    PROVE  /\ FlattenSeq(seqs) \in Seq(T)
           /\ \A i \in 1 .. Len(seqs) : \A j \in 1 .. Len(seqs[i]) :
                  \E k \in 1 .. Len(FlattenSeq(seqs)) : FlattenSeq(seqs)[k] = seqs[i][j]
<1> DEFINE L == Len(seqs)
<1>1. L \in Nat /\ \A i \in 1 .. L : seqs[i] \in Seq(T)
  OBVIOUS
<1>2. PICK G \in [0 .. L -> Seq(T)] : Flat(G, seqs) /\ FlattenSeq(seqs) = G[L]
  BY FlattenDefined
<1>3. G[0] = <<>> /\ \A i \in 1 .. L : G[i] = G[i - 1] \o seqs[i]
  BY <1>2 DEF Flat
<1> HIDE DEF L
<1> DEFINE P(n) == \A i \in 1 .. n : \A j \in 1 .. Len(seqs[i]) :
                       \E k \in 1 .. Len(G[n]) : G[n][k] = seqs[i][j]
           N == {n \in Nat : n <= L => P(n)}
<1>4. 0 \in N
  OBVIOUS
<1>5. ASSUME NEW n \in Nat, n \in N PROVE n + 1 \in N
  <2>1. ASSUME n + 1 <= L PROVE P(n + 1)
    <3>1. n + 1 \in 1 .. L /\ n \in 0 .. L /\ (n + 1) - 1 = n
      BY <1>1, <2>1
    <3>2. G[n + 1] = G[n] \o seqs[n + 1] /\ G[n] \in Seq(T) /\ seqs[n + 1] \in Seq(T)
      BY <1>1, <1>2, <1>3, <3>1
    <3>3. P(n)
      BY <1>1, <1>5, <2>1
    <3> DEFINE a == G[n]
               b == seqs[n + 1]
               c == G[n + 1]
    <3>4. c = a \o b /\ a \in Seq(T) /\ b \in Seq(T)
      BY <3>2
    <3> HIDE DEF a, b, c
    <3>5. Len(c) = Len(a) + Len(b) /\ Len(a) \in Nat /\ Len(b) \in Nat
      BY <3>4
    <3>6. \A k \in 1 .. Len(a) : k \in 1 .. Len(c) /\ c[k] = a[k]
      BY <3>4, <3>5
    <3>7. \A j \in 1 .. Len(b) : Len(a) + j \in 1 .. Len(c) /\ c[Len(a) + j] = b[j]
      BY <3>4, <3>5
    <3>8. ASSUME NEW i \in 1 .. n + 1, NEW j \in 1 .. Len(seqs[i])
          PROVE  \E k \in 1 .. Len(c) : c[k] = seqs[i][j]
      <4>1. CASE i = n + 1
        BY <3>7, <4>1 DEF b
      <4>2. CASE i # n + 1
        <5>1. i \in 1 .. n
          BY <4>2
        <5>2. PICK k \in 1 .. Len(a) : a[k] = seqs[i][j]
          BY <3>3, <5>1 DEF a
        <5> QED
          BY <3>6, <5>2
      <4> QED
        BY <4>1, <4>2
    <3> QED
      BY <3>8 DEF c
  <2> HIDE DEF P
  <2> QED
    BY <2>1
<1> HIDE DEF N
<1>6. \A n \in Nat : n \in N
  BY <1>4, <1>5, Induction
<1>7. P(L)
  BY <1>1, <1>6 DEF N
<1>8. G[L] \in Seq(T)
  BY <1>1, <1>2
<1> QED
  BY <1>2, <1>7, <1>8 DEF L

\* If each holds four, these stand in the order of the sequences.
LEMMA FlattenFours ==
    ASSUME NEW T, NEW seqs \in Seq(Seq(T)), \A i \in 1 .. Len(seqs) : Len(seqs[i]) = 4
    PROVE  /\ Len(FlattenSeq(seqs)) = 4 * Len(seqs)
           /\ \A i \in 1 .. Len(seqs), j \in 1 .. 4 :
                  FlattenSeq(seqs)[4 * (i - 1) + j] = seqs[i][j]
<1> DEFINE L == Len(seqs)
<1>1. L \in Nat /\ \A i \in 1 .. L : seqs[i] \in Seq(T) /\ Len(seqs[i]) = 4
  OBVIOUS
<1>2. PICK G \in [0 .. L -> Seq(T)] : Flat(G, seqs) /\ FlattenSeq(seqs) = G[L]
  BY FlattenDefined
<1>3. G[0] = <<>> /\ \A i \in 1 .. L : G[i] = G[i - 1] \o seqs[i]
  BY <1>2 DEF Flat
<1> HIDE DEF L
<1> DEFINE P(n) == /\ Len(G[n]) = 4 * n
                   /\ \A i \in 1 .. n, j \in 1 .. 4 : G[n][4 * (i - 1) + j] = seqs[i][j]
           N == {n \in Nat : n <= L => P(n)}
<1>4. 0 \in N
  BY <1>3
<1>5. ASSUME NEW n \in Nat, n \in N PROVE n + 1 \in N
  <2>1. ASSUME n + 1 <= L PROVE P(n + 1)
    <3>1. n + 1 \in 1 .. L /\ n \in 0 .. L /\ (n + 1) - 1 = n
      BY <1>1, <2>1
    <3>2. G[n + 1] = G[n] \o seqs[n + 1] /\ G[n] \in Seq(T) /\ seqs[n + 1] \in Seq(T)
      BY <1>1, <1>2, <1>3, <3>1
    <3>3. P(n)
      BY <1>1, <1>5, <2>1
    <3> DEFINE a == G[n]
               b == seqs[n + 1]
               c == G[n + 1]
    <3>4. c = a \o b /\ a \in Seq(T) /\ b \in Seq(T) /\ Len(a) = 4 * n /\ Len(b) = 4
      BY <1>1, <3>1, <3>2, <3>3
    <3> HIDE DEF a, b, c
    <3>9. /\ Len(c) = Len(a) + Len(b)
          /\ \A j \in 1 .. Len(b) : c[Len(a) + j] = b[j]
      <4>1. c = a \o b /\ a \in Seq(T) /\ b \in Seq(T)
        BY <3>4
      <4> QED
        BY <4>1
    <3>5. Len(c) = 4 * n + 4
      BY <3>4, <3>9
    <3>6. \A k \in 1 .. 4 * n : c[k] = a[k]
      BY <3>4
    <3>7. \A j \in 1 .. 4 : c[4 * n + j] = b[j]
      BY <3>4, <3>9
    <3>8. ASSUME NEW i \in 1 .. n + 1, NEW j \in 1 .. 4
          PROVE  c[4 * (i - 1) + j] = seqs[i][j]
      <4>1. CASE i = n + 1
        <5>1. 4 * (i - 1) + j = 4 * n + j
          BY <4>1
        <5> QED
          BY <3>7, <4>1, <5>1 DEF b
      <4>2. CASE i # n + 1
        <5>1. i \in 1 .. n
          BY <4>2
        <5>2. a[4 * (i - 1) + j] = seqs[i][j]
          BY <3>3, <5>1 DEF a
        <5>3. 4 * (i - 1) + j \in 1 .. 4 * n
          BY <5>1
        <5> QED
          BY <3>6, <5>2, <5>3
      <4> QED
        BY <4>1, <4>2
    <3> QED
      BY <3>5, <3>8 DEF c
  <2> HIDE DEF P
  <2> QED
    BY <2>1
<1> HIDE DEF N
<1>6. \A n \in Nat : n \in N
  BY <1>4, <1>5, Induction
<1>7. P(L)
  <2> HIDE DEF P
  <2> QED
    BY <1>1, <1>6 DEF N
<1> QED
  BY <1>2, <1>7 DEF L

-----------------------------------------------------------------------------
(***************************************************************************)
(* What a command of the pipeline does to what the next one finds.         *)
(***************************************************************************)
\* What is written at the time t of the second s expires while it is still shown.
Far(s, t) == t + Retention < LastShown(s)

\* The numbers of the model.
LEMMA Numbers ==
    /\ Second \in Nat \ {0} /\ MaxSeconds \in Nat \ {0} /\ MaxNow \in Nat
    /\ MaxDelay \in Nat /\ Retention \in Nat /\ Never \in Nat /\ MaxLag \in Nat
    /\ \A k \in Keys : Longest[k] \in Nat /\ Longest[k] <= MaxDelay
    /\ All \in Nat /\ All \notin Rules /\ IsFiniteSet(Rules)
<1> USE StatsAssumption
<1> DEFINE D == {0} \cup {Longest[k] : k \in Keys}
<1>1. IsFiniteSet(D) /\ D \in SUBSET Nat /\ D # {}
  <2> DEFINE f == [k \in Keys |-> Longest[k]]
             T == {Longest[k] : k \in Keys}
  <2>1. f \in Surjection(Keys, T)
    BY DEF Surjection
  <2>2. IsFiniteSet(T)
    <3> HIDE DEF f, T
    <3> QED
      BY <2>1, FS_Surjection
  <2>3. IsFiniteSet(T \cup {0})
    <3> HIDE DEF T
    <3> QED
      BY <2>2, FS_AddElement
  <2>4. D = T \cup {0}
    OBVIOUS
  <2>5. D \in SUBSET Nat
    OBVIOUS
  <2> QED
    BY <2>3, <2>4, <2>5
<1>2. \E n \in Nat : \A y \in D : y <= n
  <2> HIDE DEF D
  <2> QED
    BY <1>1, Bounded
<1>3. Max(D) \in D /\ \A y \in D : y <= Max(D)
  <2> HIDE DEF D
  <2> QED
    BY <1>1, <1>2, Greatest
<1>4. \E d \in D : \A k \in Keys : Longest[k] <= d
  BY <1>3
<1>5. MaxDelay \in D /\ \A k \in Keys : Longest[k] <= MaxDelay
  BY <1>4, Zenon DEF MaxDelay
<1>6. MaxDelay \in Nat
  BY <1>1, <1>5
<1> QED
  BY <1>5, <1>6 DEF Never, All

\* The seconds of the series.
LEMMA SecondFacts ==
    ASSUME NEW s \in Seconds, NEW t \in Nat
    PROVE  /\ s \in Nat /\ s * Second \in Nat /\ s * Second <= MaxNow + MaxDelay
           /\ LastShown(s) \in Nat /\ LastShown(s) = s * Second + MaxSeconds * Second - 1
           /\ LastShown(s) < Never
           /\ ~Far(s, t) => LastShown(s) <= t + Retention
<1>1. /\ Second \in Nat \ {0} /\ MaxSeconds \in Nat \ {0} /\ MaxNow \in Nat
      /\ MaxDelay \in Nat /\ Retention \in Nat
  BY Numbers
<1> DEFINE T == MaxNow + MaxDelay
           m == T \div Second
           p == s * Second
           e == MaxSeconds * Second
<1>2. m \in Nat /\ m * Second <= T
  <2>1. T \in Nat
    BY <1>1
  <2> HIDE DEF T
  <2> QED
    BY <1>1, <2>1, WindowFacts DEF WindowStart
<1>3. s \in Nat /\ s <= m
  BY <1>2 DEF Seconds
<1> HIDE DEF m
<1>4. p <= T /\ p \in Nat /\ e \in Nat
  <2>1. s * Second <= m * Second /\ s * Second \in Nat /\ MaxSeconds * Second \in Nat
    BY <1>1, <1>2, <1>3, Products
  <2>2. m * Second \in Nat
    BY <1>1, <1>2, Products
  <2> QED
    BY <1>1, <1>2, <2>1, <2>2
<1>5. LastShown(s) = p + e - 1
  BY <1>1, <1>3, NatProducts DEF LastShown
<1>6. Retention >= e
  BY StatsAssumption
<1>7. e >= 1
  <2>1. 1 * Second <= MaxSeconds * Second /\ 1 * Second = Second
    BY <1>1, Products
  <2> QED
    BY <1>1, <2>1
<1> HIDE DEF p, e
<1>8. p + e - 1 < Never /\ p + e - 1 \in Nat
  BY <1>1, <1>4, <1>6, <1>7 DEF Never
<1>9. ~Far(s, t) => LastShown(s) <= t + Retention
  BY <1>1, <1>5, <1>8 DEF Far
<1> QED
  BY <1>3, <1>4, <1>5, <1>8, <1>9 DEF p, e

\* The series, and the commands on them.
Store == [Series -> [counts : [Seconds -> Nat], expireAt : Nat]]
Commands == [op : {"ZINCRBY"}, of : Series, second : Seconds] \cup [op : {"EXPIRE"}, of : Series]

\* What is found at the time t.
View(ss, t) == [x \in Series |-> IF t > ss[x].expireAt THEN NoSeries ELSE ss[x]]

\* One more in a second; a new time to live.
Incr(v, x, s) == [v EXCEPT ![x].counts[s] = @ + 1]
Renew(v, x, t) == IF v[x].counts = NoCounts THEN v ELSE [v EXCEPT ![x].expireAt = t + Retention]

\* A view is a store.
LEMMA ViewStore ==
    ASSUME NEW ss \in Store, NEW t \in Nat
    PROVE  View(ss, t) \in Store /\ NoSeries \in [counts : [Seconds -> Nat], expireAt : Nat]
<1>1. NoSeries \in [counts : [Seconds -> Nat], expireAt : Nat]
  BY Numbers DEF NoSeries, NoCounts
<1> QED
  BY <1>1 DEF View, Store

\* A command does to what is found what it says.
LEMMA ExecutedView ==
    ASSUME now \in 0 .. MaxNow, NEW ss \in Store, NEW c \in Commands
    PROVE  /\ Executed(ss, c) \in Store
           /\ c.op = "ZINCRBY" =>
                  View(Executed(ss, c), now) = Incr(View(ss, now), c.of, c.second)
           /\ c.op = "EXPIRE" => View(Executed(ss, c), now) = Renew(View(ss, now), c.of, now)
<1> DEFINE R == [counts : [Seconds -> Nat], expireAt : Nat]
           x == c.of
           f == Found(ss, x)
           v == View(ss, now)
<1>1. now \in Nat /\ now <= MaxNow /\ Retention \in Nat /\ Never \in Nat /\ now <= Never
  BY Numbers DEF Never
<1>2. NoSeries \in R /\ v \in Store /\ \A y \in Series : ss[y] \in R
  BY <1>1, ViewStore DEF Store
<1>3. x \in Series
  BY DEF Commands
<1>4. f \in R /\ f.expireAt >= now /\ v[x] = f
  BY <1>1, <1>2, <1>3 DEF Found, View, NoSeries
<1>5. CASE c.op = "ZINCRBY"
  <2>1. c.second \in Seconds
    BY <1>5 DEF Commands
  <2> DEFINE g == [f EXCEPT !.counts[c.second] = @ + 1]
  <2>2. Executed(ss, c) = [ss EXCEPT ![x] = g]
    BY <1>5 DEF Executed
  <2>3. g \in R /\ g.expireAt = f.expireAt
    BY <1>4, <2>1
  <2> HIDE DEF g
  <2>4. Executed(ss, c) \in Store
    BY <2>2, <2>3 DEF Store
  <2>5. View(Executed(ss, c), now) = [v EXCEPT ![x] = g]
    BY <1>1, <1>2, <1>3, <1>4, <2>2, <2>3 DEF View, Store
  <2>6. [v EXCEPT ![x] = g] = Incr(v, x, c.second)
    BY <1>2, <1>3, <1>4 DEF Incr, g
  <2> QED
    BY <1>5, <2>4, <2>5, <2>6
<1>6. CASE c.op = "EXPIRE"
  <2> DEFINE g == IF f.counts = NoCounts THEN f ELSE [f EXCEPT !.expireAt = now + Retention]
  <2>2. Executed(ss, c) = [ss EXCEPT ![x] = g]
    BY <1>6 DEF Executed
  <2>3. g \in R /\ g.expireAt >= now
    BY <1>1, <1>4
  <2> HIDE DEF g
  <2>4. Executed(ss, c) \in Store
    BY <2>2, <2>3 DEF Store
  <2>5. View(Executed(ss, c), now) = [v EXCEPT ![x] = g]
    BY <1>1, <1>2, <1>3, <1>4, <2>2, <2>3 DEF View, Store
  <2>6. [v EXCEPT ![x] = g] = Renew(v, x, now)
    <3>1. CASE f.counts = NoCounts
      <4>1. g = v[x]
        BY <1>4, <3>1 DEF g
      <4> QED
        BY <1>2, <1>3, <1>4, <3>1, <4>1 DEF Renew, Store
    <3>2. CASE f.counts # NoCounts
      BY <1>2, <1>3, <1>4, <3>2 DEF Renew, g
    <3> QED
      BY <3>1, <3>2
  <2> QED
    BY <1>6, <2>4, <2>5, <2>6
<1>7. c.op \in {"ZINCRBY", "EXPIRE"} /\ "ZINCRBY" # "EXPIRE"
  BY DEF Commands
<1> QED
  BY <1>5, <1>6, <1>7

\* The stores F after each of the commands cs.
Run(F, cs) == F[0] = series /\ \A i \in 1 .. Len(cs) : F[i] = Executed(F[i - 1], cs[i])

\* What After says is what is left when the last command was executed.
LEMMA AfterIsLast ==
    ASSUME now \in 0 .. MaxNow, series \in Store, NEW cs \in Seq(Commands),
           NEW F, Run(F, cs)
    PROVE  After(cs) = F[Len(cs)] /\ After(cs) \in Store
<1> DEFINE L  == Len(cs)
           S  == 1 .. L
           ch == [s \in SUBSET S |-> Max(s)]
           op == [i \in S |-> [v \in Store |-> Executed(v, cs[i])]]
           G(g) == g = [s \in SUBSET S |-> IF s = {} THEN series
                                           ELSE Executed(g[s \ {Max(s)}], cs[Max(s)])]
           it == CHOOSE g : G(g)
<1>1. L \in Nat /\ DOMAIN cs = S /\ \A i \in S : cs[i] \in Commands
  OBVIOUS
<1>2. IsFiniteSet(S) /\ Chooses(ch, S)
  <2>1. IsFiniteSet(S)
    BY <1>1, FS_Interval
  <2>2. Chooses(ch, S)
    BY <1>1, LastTaken
  <2> QED
    BY <2>1, <2>2
<1>3. Closed(op, S, Store)
  <2>1. \A i \in S, v \in Store : Executed(v, cs[i]) \in Store
    <3> HIDE DEF S
    <3> QED
      BY <1>1, ExecutedView
  <2> HIDE DEF S
  <2> QED
    BY <2>1 DEF Closed
<1>4. PICK g \in [SUBSET S -> Store] : Folds(g, S, series, ch, op)
  <2> HIDE DEF S, ch, op
  <2> QED
    BY <1>2, <1>3, FoldDefined
<1>5. \A s \in SUBSET S : s # {} => Max(s) \in S /\ ch[s] = Max(s) /\ g[s \ {Max(s)}] \in Store
  <2> TAKE s \in SUBSET S
  <2> HAVE s # {}
  <2>1. ch[s] = Max(s) /\ ch[s] \in s /\ s \ {Max(s)} \in SUBSET S
    BY <1>2 DEF Chooses
  <2> HIDE DEF ch, S
  <2> QED
    BY <2>1
<1>6. \A s \in SUBSET S :
          g[s] = IF s = {} THEN series ELSE Executed(g[s \ {Max(s)}], cs[Max(s)])
  <2> TAKE s \in SUBSET S
  <2>1. g[s] = IF s = {} THEN series ELSE op[ch[s]][g[s \ {ch[s]}]]
    BY <1>4 DEF Folds
  <2>2. ASSUME s # {} PROVE op[ch[s]][g[s \ {ch[s]}]] = Executed(g[s \ {Max(s)}], cs[Max(s)])
    <3>1. Max(s) \in S /\ ch[s] = Max(s) /\ g[s \ {Max(s)}] \in Store
      BY <1>5, <2>2
    <3> HIDE DEF ch, S
    <3> QED
      BY <3>1
  <2> HIDE DEF ch, S, op
  <2> QED
    BY <2>1, <2>2
<1>7. G(g)
  <2> HIDE DEF S
  <2> QED
    BY <1>4, <1>6
<1>8. G(it)
  <2> HIDE DEF G
  <2> QED
    BY <1>7
<1>9. After(cs) = it[S]
  <2>1. After(cs) = LET D == DOMAIN cs
                        f == CHOOSE h : h = [s \in SUBSET D |-> IF s = {} THEN series
                                                 ELSE Executed(h[s \ {Max(s)}], cs[Max(s)])]
                    IN  f[D]
    BY Zenon DEF After, FoldLeft, MapThenFoldSet
  <2> HIDE DEF S
  <2> QED
    BY <1>1, <2>1, Zenon
<1> HIDE DEF it, ch, op
<1>10. /\ it[1 .. 0] = series
       /\ \A i \in S : it[1 .. i] = Executed(it[1 .. i - 1], cs[i])
  <2>1. \A s \in SUBSET S :
            it[s] = IF s = {} THEN series ELSE Executed(it[s \ {Max(s)}], cs[Max(s)])
    <3> HIDE DEF S
    <3> QED
      BY <1>8
  <2>2. 1 .. 0 = {} /\ 1 .. 0 \in SUBSET S
    OBVIOUS
  <2>3. it[1 .. 0] = series
    BY <2>1, <2>2
  <2>4. ASSUME NEW i \in S PROVE it[1 .. i] = Executed(it[1 .. i - 1], cs[i])
    <3>1. 1 .. i \in SUBSET S /\ 1 .. i # {}
      OBVIOUS
    <3>2. Max(1 .. i) = i /\ (1 .. i) \ {i} = 1 .. i - 1
      BY <1>1, LastTaken
    <3> HIDE DEF S
    <3>3. it[1 .. i] = Executed(it[(1 .. i) \ {Max(1 .. i)}], cs[Max(1 .. i)])
      BY <2>1, <3>1
    <3> QED
      BY <3>2, <3>3
  <2> QED
    BY <2>3, <2>4
<1> HIDE DEF G
<1> DEFINE N == {n \in Nat : n <= L => it[1 .. n] = F[n] /\ F[n] \in Store}
<1>11. 0 \in N
  BY <1>10 DEF Run
<1>12. ASSUME NEW n \in Nat, n \in N PROVE n + 1 \in N
  <2>1. ASSUME n + 1 <= L PROVE it[1 .. n + 1] = F[n + 1] /\ F[n + 1] \in Store
    <3>1. n + 1 \in S /\ (n + 1) - 1 = n /\ n <= L
      BY <1>1, <2>1
    <3> HIDE DEF S
    <3>2. F[n + 1] = Executed(F[n], cs[n + 1])
      BY <3>1 DEF Run, S
    <3>3. it[1 .. n + 1] = Executed(it[1 .. (n + 1) - 1], cs[n + 1])
      BY <1>10, <3>1
    <3>4. it[1 .. n] = F[n] /\ F[n] \in Store
      BY <1>12, <3>1
    <3>5. Executed(F[n], cs[n + 1]) \in Store
      BY <1>1, <3>1, <3>4, ExecutedView
    <3> QED
      BY <3>1, <3>2, <3>3, <3>4, <3>5
  <2> QED
    BY <2>1
<1> HIDE DEF N
<1>13. L \in N
  BY <1>1, <1>11, <1>12, Induction
<1> QED
  BY <1>1, <1>9, <1>13 DEF N

\* The commands of the series, cut after any of them.
LEMMA AfterCut ==
    ASSUME now \in 0 .. MaxNow, series \in Store, NEW cs \in Seq(Commands)
    PROVE  \E F \in [0 .. Len(cs) -> Store] :
               /\ Run(F, cs)
               /\ After(cs) = F[Len(cs)]
               /\ \A n \in 0 .. Len(cs) : After(SubSeq(cs, 1, n)) = F[n]
<1> DEFINE L  == Len(cs)
           op == [i \in 1 .. L |-> [v \in Store |-> Executed(v, cs[i])]]
<1>1. L \in Nat /\ \A i \in 1 .. L : cs[i] \in Commands
  OBVIOUS
<1> HIDE DEF L
<1>2. Closed(op, 1 .. L, Store)
  <2>1. \A i \in 1 .. L, v \in Store : Executed(v, cs[i]) \in Store
    BY <1>1, ExecutedView
  <2> QED
    BY <2>1 DEF Closed
<1>3. PICK F \in [0 .. L -> Store] : Scanned(F, L, series, op)
  <2> HIDE DEF op
  <2> QED
    BY <1>1, <1>2, ScanDefined
<1>4. F[0] = series /\ \A i \in 1 .. L : F[i] = Executed(F[i - 1], cs[i])
  <2> SUFFICES ASSUME NEW i \in 1 .. L PROVE F[i] = Executed(F[i - 1], cs[i])
    BY <1>3 DEF Scanned
  <2>1. i - 1 \in 0 .. L
    BY <1>1
  <2>2. F[i - 1] \in Store
    BY <1>3, <2>1
  <2>3. F[i] = op[i][F[i - 1]]
    BY <1>3 DEF Scanned
  <2> QED
    BY <2>2, <2>3
<1>5. Run(F, cs)
  BY <1>4 DEF Run, L
<1>6. ASSUME NEW n \in 0 .. L PROVE After(SubSeq(cs, 1, n)) = F[n]
  <2> DEFINE ds == SubSeq(cs, 1, n)
  <2>1. ds \in Seq(Commands) /\ Len(ds) = n /\ \A i \in 1 .. n : ds[i] = cs[i]
    BY DEF L
  <2> HIDE DEF ds
  <2>2. \A i \in 1 .. n : i \in 1 .. L
    BY <1>1
  <2>3. Run(F, ds)
    BY <1>4, <2>1, <2>2 DEF Run
  <2>4. After(ds) = F[Len(ds)]
    BY <2>1, <2>3, AfterIsLast
  <2> QED
    BY <2>1, <2>4 DEF ds
<1>7. After(cs) = F[L]
  BY <1>5, AfterIsLast DEF L
<1> QED
  BY <1>3, <1>5, <1>6, <1>7 DEF L

\* What c of the commands of a tick at the second s have made, by the time t, of what
\* was found before: v is now w.
Part(v, w, own, all, s, c, t) ==
    /\ v \in Store /\ w \in Store
    /\ \A x \in Series \ {own, all} : w[x] = v[x]
    /\ \A z \in Seconds :
           /\ w[own].counts[z] = v[own].counts[z] + (IF z = s /\ c >= 1 THEN 1 ELSE 0)
           /\ w[all].counts[z] = v[all].counts[z] + (IF z = s /\ c >= 2 THEN 1 ELSE 0)
    /\ w[own].expireAt = IF c >= 3 THEN t + Retention ELSE v[own].expireAt
    /\ w[all].expireAt = IF c >= 4 THEN t + Retention ELSE v[all].expireAt

\* The first c of the commands of a tick.
LEMMA TickParts ==
    ASSUME now \in 0 .. MaxNow, NEW own \in Series, NEW all \in Series, own # all,
           NEW s \in Seconds,
           NEW f0 \in Store, NEW f1, NEW f2, NEW f3, NEW f4,
           f1 = Executed(f0, ZIncrBy(own, s)), f2 = Executed(f1, ZIncrBy(all, s)),
           f3 = Executed(f2, Expire(own)), f4 = Executed(f3, Expire(all))
    PROVE  /\ f1 \in Store /\ f2 \in Store /\ f3 \in Store /\ f4 \in Store
           /\ Part(View(f0, now), View(f0, now), own, all, s, 0, now)
           /\ Part(View(f0, now), View(f1, now), own, all, s, 1, now)
           /\ Part(View(f0, now), View(f2, now), own, all, s, 2, now)
           /\ Part(View(f0, now), View(f3, now), own, all, s, 3, now)
           /\ Part(View(f0, now), View(f4, now), own, all, s, 4, now)
<1> DEFINE R == [counts : [Seconds -> Nat], expireAt : Nat]
           v == View(f0, now)
           w1 == View(f1, now)
           w2 == View(f2, now)
           w3 == View(f3, now)
           w4 == View(f4, now)
<1>1. now \in Nat /\ Retention \in Nat
  BY Numbers
<1>2. /\ \A x \in Series : /\ ZIncrBy(x, s) \in Commands /\ ZIncrBy(x, s).op = "ZINCRBY"
                           /\ ZIncrBy(x, s).of = x /\ ZIncrBy(x, s).second = s
      /\ \A x \in Series : /\ Expire(x) \in Commands /\ Expire(x).op = "EXPIRE"
                           /\ Expire(x).of = x
  BY DEF ZIncrBy, Expire, Commands
<1>3. f1 \in Store /\ w1 = Incr(v, own, s)
  BY <1>2, ExecutedView
<1>4. f2 \in Store /\ w2 = Incr(w1, all, s)
  BY <1>2, <1>3, ExecutedView
<1>5. f3 \in Store /\ w3 = Renew(w2, own, now)
  BY <1>2, <1>4, ExecutedView
<1>6. f4 \in Store /\ w4 = Renew(w3, all, now)
  BY <1>2, <1>5, ExecutedView
<1>7. v \in Store /\ w1 \in Store /\ w2 \in Store /\ w3 \in Store /\ w4 \in Store
  BY <1>1, <1>3, <1>4, <1>5, <1>6, ViewStore
<1> HIDE DEF v, w1, w2, w3, w4
<1>8. \A u \in Store, x \in Series :
          /\ u[x] \in R /\ u[x].counts \in [Seconds -> Nat] /\ u[x].expireAt \in Nat
          /\ \A z \in Seconds : u[x].counts[z] \in Nat
  BY DEF Store
<1>14. ASSUME NEW u \in Store, NEW x \in Series
       PROVE  /\ \A y \in Series \ {x} : Incr(u, x, s)[y] = u[y]
              /\ \A z \in Seconds :
                     Incr(u, x, s)[x].counts[z] = u[x].counts[z] + (IF z = s THEN 1 ELSE 0)
              /\ Incr(u, x, s)[x].expireAt = u[x].expireAt
  <2>1. DOMAIN u = Series
    BY DEF Store
  <2> DEFINE f == [u[x] EXCEPT !.counts[s] = @ + 1]
  <2>2. Incr(u, x, s) = [u EXCEPT ![x] = f]
    BY DEF Incr
  <2>3. \A z \in Seconds : f.counts[z] = u[x].counts[z] + (IF z = s THEN 1 ELSE 0)
    BY <1>8
  <2>4. f.expireAt = u[x].expireAt
    BY <1>8
  <2> HIDE DEF f
  <2> QED
    BY <2>1, <2>2, <2>3, <2>4
<1>9. Part(v, v, own, all, s, 0, now)
  BY <1>7, <1>8 DEF Part
<1>10. Part(v, w1, own, all, s, 1, now)
  <2>1. /\ \A x \in Series \ {own} : w1[x] = v[x]
        /\ \A z \in Seconds : w1[own].counts[z] = v[own].counts[z] + (IF z = s THEN 1 ELSE 0)
        /\ w1[own].expireAt = v[own].expireAt
    BY <1>3, <1>7, <1>14
  <2> QED
    BY <1>7, <1>8, <2>1 DEF Part
<1>11. Part(v, w2, own, all, s, 2, now)
  <2>2. /\ \A x \in Series \ {all} : w2[x] = w1[x]
        /\ \A z \in Seconds : w2[all].counts[z] = w1[all].counts[z] + (IF z = s THEN 1 ELSE 0)
        /\ w2[all].expireAt = w1[all].expireAt
    BY <1>4, <1>7, <1>14
  <2> QED
    BY <1>7, <1>8, <1>10, <2>2 DEF Part
<1>12. Part(v, w3, own, all, s, 3, now)
  <2>1. w2[own].counts[s] # 0 /\ w2[own].counts # NoCounts
    <3>1. w2[own].counts[s] = v[own].counts[s] + 1
      BY <1>11 DEF Part
    <3>2. w2[own].counts[s] # 0
      BY <1>7, <1>8, <3>1
    <3> QED
      BY <3>2 DEF NoCounts
  <2>2. w3 = [w2 EXCEPT ![own].expireAt = now + Retention]
    BY <1>5, <2>1 DEF Renew
  <2>3. /\ \A x \in Series \ {own} : w3[x] = w2[x]
        /\ w3[own].counts = w2[own].counts /\ w3[own].expireAt = now + Retention
    BY <1>7, <1>8, <2>2 DEF Store
  <2> QED
    BY <1>7, <1>8, <1>11, <2>3 DEF Part
<1>13. Part(v, w4, own, all, s, 4, now)
  <2>1. w3[all].counts[s] # 0 /\ w3[all].counts # NoCounts
    <3>1. w3[all].counts[s] = v[all].counts[s] + 1
      BY <1>12 DEF Part
    <3>2. w3[all].counts[s] # 0
      BY <1>7, <1>8, <3>1
    <3> QED
      BY <3>2 DEF NoCounts
  <2>2. w4 = [w3 EXCEPT ![all].expireAt = now + Retention]
    BY <1>6, <2>1 DEF Renew
  <2>3. /\ \A x \in Series \ {all} : w4[x] = w3[x]
        /\ w4[all].counts = w3[all].counts /\ w4[all].expireAt = now + Retention
    BY <1>7, <1>8, <2>2 DEF Store
  <2> QED
    BY <1>7, <1>8, <1>12, <2>3 DEF Part
<1> QED
  BY <1>3, <1>4, <1>5, <1>6, <1>9, <1>10, <1>11, <1>12, <1>13 DEF v, w1, w2, w3, w4

-----------------------------------------------------------------------------
(***************************************************************************)
(* What a series holds of what was answered.                               *)
(*                                                                         *)
(* A series may expire while a curve still shows a second only if all that *)
(* was answered for in that second was sent too early: it is as if the     *)
(* series, which gets its time to live when it counts, were doomed for the *)
(* seconds that are shown longer than that.                                *)
(***************************************************************************)
Records == [Series -> [Seconds -> Nat]]

\* What is found, f, shows the count rec of what was answered, up to e that were sent
\* too early, and up to b more.
CountHolds(f, s, rec, e, b, t) ==
    /\ f.counts[s] <= rec + b
    /\ t <= LastShown(s) => IF f.expireAt < LastShown(s) THEN rec <= e
                            ELSE rec <= f.counts[s] + e

\* This is so of every series of a rule.
CountsHold(v, rec, er, b, t) ==
    \A x \in Rules \X Outcomes, s \in Seconds : CountHolds(v[x], s, rec[x][s], er[x][s], b, t)

\* What was answered for in a far second was sent too early; where nothing was, the
\* far seconds are empty.
FarZero(rec, er, t) ==
    \A x \in Rules \X Outcomes, s \in Seconds : Far(s, t) => rec[x][s] <= er[x][s]
FarEmpty(v, er, t) ==
    \A i \in Rules \cup {All}, o \in Outcomes, s \in Seconds :
        Far(s, t) /\ er[<<All, o>>][s] = 0 => v[<<i, o>>].counts[s] = 0

\* The series of a rule are series, and none is one of all.
LEMMA RuleSeries ==
    ASSUME NEW x \in Rules \X Outcomes
    PROVE  x \in Series /\ \A o \in Outcomes : x # <<All, o>>
  BY Numbers DEF Series

\* A tick that was executed to its end is counted where it was answered for.
LEMMA CountDone ==
    ASSUME NEW t \in Nat, NEW b \in Nat,
           NEW own \in Rules \X Outcomes, NEW o \in Outcomes, NEW s \in Seconds,
           NEW v, NEW w, Part(v, w, own, <<All, o>>, s, 4, t),
           NEW rec \in Records, NEW rec2 \in Records, NEW er \in Records,
           \A x \in Rules \X Outcomes, z \in Seconds :
               rec2[x][z] = rec[x][z] + (IF x = own /\ z = s THEN 1 ELSE 0),
           FarZero(rec2, er, t), CountsHold(v, rec, er, b, t)
    PROVE  CountsHold(w, rec2, er, b, t)
<1> SUFFICES ASSUME NEW x \in Rules \X Outcomes, NEW z \in Seconds
             PROVE  CountHolds(w[x], z, rec2[x][z], er[x][z], b, t)
  BY DEF CountsHold
<1>1. /\ x \in Series /\ own \in Series /\ <<All, o>> \in Series
      /\ x # <<All, o>> /\ own # <<All, o>>
  BY RuleSeries DEF Series
<1>2. CountHolds(v[x], z, rec[x][z], er[x][z], b, t)
  BY DEF CountsHold
<1>3. /\ w[x].counts[z] = v[x].counts[z] + (IF x = own /\ z = s THEN 1 ELSE 0)
      /\ w[x].expireAt = IF x = own THEN t + Retention ELSE v[x].expireAt
  <2>1. CASE x = own
    BY <1>1, <2>1 DEF Part
  <2>2. CASE x # own
    <3>1. w[x] = v[x] /\ v[x].counts[z] \in Nat
      BY <1>1, <2>2 DEF Part, Store
    <3> QED
      BY <2>2, <3>1
  <2> QED
    BY <2>1, <2>2
<1>4. rec2[x][z] = rec[x][z] + (IF x = own /\ z = s THEN 1 ELSE 0)
  OBVIOUS
<1>5. Far(z, t) => rec2[x][z] <= er[x][z]
  BY DEF FarZero
<1>6. ~Far(z, t) => LastShown(z) <= t + Retention
  BY SecondFacts
<1>7. LastShown(z) \in Nat /\ Retention \in Nat
  BY SecondFacts, Numbers
<1> DEFINE d  == IF x = own /\ z = s THEN 1 ELSE 0
           n1 == v[x].counts[z]
           e1 == v[x].expireAt
           n2 == w[x].counts[z]
           e2 == w[x].expireAt
           r1 == rec[x][z]
           r2 == rec2[x][z]
           er1 == er[x][z]
           l  == LastShown(z)
           u  == t + Retention
<1>8. n1 \in Nat /\ e1 \in Nat /\ r1 \in Nat /\ er1 \in Nat
  BY <1>1 DEF Part, Store, Records
<1>9. d \in {0, 1} /\ (d = 1 => x = own /\ z = s) /\ u \in Nat /\ l \in Nat
  BY <1>7
<1>10. n1 <= r1 + b /\ (t <= l => IF e1 < l THEN r1 <= er1 ELSE r1 <= n1 + er1)
  BY <1>2 DEF CountHolds
<1>11. n2 = n1 + d /\ r2 = r1 + d /\ e2 = IF x = own THEN u ELSE e1
  BY <1>3, <1>4
<1>12. (Far(z, t) => r2 <= er1) /\ (~Far(z, t) => l <= u)
  BY <1>5, <1>6
<1> HIDE DEF d, n1, e1, n2, e2, r1, r2, er1, l, u
<1>13. n2 <= r2 + b
  BY <1>8, <1>9, <1>10, <1>11
<1>14. ASSUME t <= l, e2 < l PROVE r2 <= er1
  BY <1>8, <1>9, <1>10, <1>11, <1>12, <1>14
<1>15. ASSUME t <= l, ~(e2 < l) PROVE r2 <= n2 + er1
  BY <1>8, <1>9, <1>10, <1>11, <1>12, <1>15
<1> QED
  BY <1>13, <1>14, <1>15 DEF CountHolds, n2, e2, r2, er1, l

\* The records rec1 answer for one more than rec here and there, but not in own's s.
Within(rec1, rec, own, s) ==
    \A x \in Rules \X Outcomes, z \in Seconds :
        rec1[x][z] = rec[x][z] \/ (rec1[x][z] = rec[x][z] + 1 /\ ~(x = own /\ z = s))

\* A pipeline that breaks in a tick has at most one tick for each series that was not
\* answered for: those it executed to their end are in rec1.
LEMMA CountCut ==
    ASSUME NEW t \in Nat, NEW b \in Nat, NEW c \in 0 .. 3,
           NEW own \in Rules \X Outcomes, NEW o \in Outcomes, NEW s \in Seconds,
           NEW v, NEW w, Part(v, w, own, <<All, o>>, s, c, t),
           NEW rec1 \in Records, NEW rec \in Records, NEW er \in Records,
           Within(rec1, rec, own, s), FarZero(rec, er, t), CountsHold(v, rec1, er, b, t)
    PROVE  CountsHold(w, rec, er, b + 1, t)
<1> SUFFICES ASSUME NEW x \in Rules \X Outcomes, NEW z \in Seconds
             PROVE  CountHolds(w[x], z, rec[x][z], er[x][z], b + 1, t)
  BY DEF CountsHold
<1>1. /\ x \in Series /\ own \in Series /\ <<All, o>> \in Series
      /\ x # <<All, o>> /\ own # <<All, o>>
  BY RuleSeries DEF Series
<1>2. CountHolds(v[x], z, rec1[x][z], er[x][z], b, t)
  BY DEF CountsHold
<1> DEFINE d == IF x = own /\ z = s /\ c >= 1 THEN 1 ELSE 0
<1>3. /\ w[x].counts[z] = v[x].counts[z] + d
      /\ w[x].expireAt = IF x = own /\ c >= 3 THEN t + Retention ELSE v[x].expireAt
  <2>1. CASE x = own
    BY <1>1, <2>1 DEF Part
  <2>2. CASE x # own
    <3>1. w[x] = v[x] /\ v[x].counts[z] \in Nat
      BY <1>1, <2>2 DEF Part, Store
    <3> QED
      BY <2>2, <3>1
  <2> QED
    BY <2>1, <2>2
<1>4. rec1[x][z] = rec[x][z] \/ (rec1[x][z] = rec[x][z] + 1 /\ ~(x = own /\ z = s))
  BY DEF Within
<1>5. Far(z, t) => rec[x][z] <= er[x][z]
  BY DEF FarZero
<1>6. ~Far(z, t) => LastShown(z) <= t + Retention
  BY SecondFacts
<1>7. LastShown(z) \in Nat /\ Retention \in Nat
  BY SecondFacts, Numbers
<1> DEFINE n1 == v[x].counts[z]
           e1 == v[x].expireAt
           n2 == w[x].counts[z]
           e2 == w[x].expireAt
           r1 == rec1[x][z]
           r2 == rec[x][z]
           er1 == er[x][z]
           l  == LastShown(z)
           u  == t + Retention
<1>8. n1 \in Nat /\ e1 \in Nat /\ r1 \in Nat /\ r2 \in Nat /\ er1 \in Nat
  BY <1>1 DEF Part, Store, Records
<1>9. d \in {0, 1} /\ u \in Nat /\ l \in Nat
  BY <1>7
<1>10. n1 <= r1 + b /\ (t <= l => IF e1 < l THEN r1 <= er1 ELSE r1 <= n1 + er1)
  BY <1>2 DEF CountHolds
<1>11. n2 = n1 + d /\ (r1 = r2 \/ (r1 = r2 + 1 /\ d = 0)) /\ (e2 = u \/ e2 = e1)
  BY <1>3, <1>4
<1>12. (Far(z, t) => r2 <= er1) /\ (~Far(z, t) => l <= u)
  BY <1>5, <1>6
<1> HIDE DEF d, n1, e1, n2, e2, r1, r2, er1, l, u
<1>13. n2 <= r2 + (b + 1)
  BY <1>8, <1>9, <1>10, <1>11
<1>14. ASSUME t <= l, e2 < l PROVE r2 <= er1
  BY <1>8, <1>9, <1>10, <1>11, <1>12, <1>14
<1>15. ASSUME t <= l, ~(e2 < l) PROVE r2 <= n2 + er1
  BY <1>8, <1>9, <1>10, <1>11, <1>15
<1> QED
  BY <1>13, <1>14, <1>15 DEF CountHolds, n2, e2, r2, er1, l

\* A tick of a far second was sent too early.
Warned(er, u, s, t) == Far(s, t) => er[<<All, u>>][s] # 0

\* Ticks leave the far seconds empty for which nothing was sent too early.
LEMMA EmptyDone ==
    ASSUME NEW t \in Nat, NEW c \in 0 .. 4, NEW r \in Rules, NEW u \in Outcomes,
           NEW s \in Seconds, NEW er, Warned(er, u, s, t),
           NEW v, NEW w, Part(v, w, <<r, u>>, <<All, u>>, s, c, t), FarEmpty(v, er, t)
    PROVE  FarEmpty(w, er, t)
<1> SUFFICES ASSUME NEW i \in Rules \cup {All}, NEW o \in Outcomes, NEW z \in Seconds,
                    Far(z, t), er[<<All, o>>][z] = 0
             PROVE  w[<<i, o>>].counts[z] = 0
  BY DEF FarEmpty
<1> DEFINE x == <<i, o>>
           own == <<r, u>>
           all == <<All, u>>
<1>1. v[x].counts[z] = 0
  BY DEF FarEmpty
<1>2. x \in {own, all} => z # s
  BY DEF Warned
<1>3. x \in Series
  BY DEF Series
<1>4. /\ \A y \in Series \ {own, all} : w[y] = v[y]
      /\ w[own].counts[z] = v[own].counts[z] + (IF z = s /\ c >= 1 THEN 1 ELSE 0)
      /\ w[all].counts[z] = v[all].counts[z] + (IF z = s /\ c >= 2 THEN 1 ELSE 0)
  BY DEF Part
<1> HIDE DEF x, own, all
<1>5. w[x].counts[z] = 0
  <2>1. CASE x = own
    BY <1>1, <1>2, <1>4, <2>1
  <2>2. CASE x = all
    BY <1>1, <1>2, <1>4, <2>2
  <2>3. CASE x \notin {own, all}
    <3>1. w[x] = v[x]
      BY <1>3, <1>4, <2>3
    <3> QED
      BY <1>1, <3>1
  <2> QED
    BY <2>1, <2>2, <2>3
<1> QED
  BY <1>5 DEF x

-----------------------------------------------------------------------------
(***************************************************************************)
(* What the series of all the rules holds of theirs.                       *)
(***************************************************************************)
\* What the series x counts, if it is not among those of E.
Remains(v, E, x, s) == IF x \in E THEN 0 ELSE v[x].counts[s]

\* What the rules' series count.
Counts(v, E, s, o) == [r \in Rules |-> Remains(v, E, <<r, o>>, s)]
Sums(v, E, s, o, b) ==
    SumFunction(Counts(v, E, s, o)) - Remains(v, E, <<All, o>>, s) \in -b .. b

\* Whichever of the doomed series expire, the rest add up, within b, where nothing was
\* sent too early.
Doomed(v, E, s) == \A x \in E : v[x].expireAt < LastShown(s)
AddsUp(v, er, b, t) ==
    \A s \in Seconds, o \in Outcomes, E \in SUBSET Series :
        er[<<All, o>>][s] = 0 /\ t <= LastShown(s) /\ Doomed(v, E, s) => Sums(v, E, s, o, b)

\* What is counted are numbers.
LEMMA RemainsNat ==
    ASSUME NEW v \in Store, NEW E, NEW s \in Seconds
    PROVE  /\ \A x \in Series : Remains(v, E, x, s) \in Nat
           /\ \A o \in Outcomes : /\ Counts(v, E, s, o) \in [Rules -> Int]
                                  /\ SumFunction(Counts(v, E, s, o)) \in Int
                                  /\ Remains(v, E, <<All, o>>, s) \in Nat
<1>1. \A x \in Series : Remains(v, E, x, s) \in Nat
  BY DEF Remains, Store
<1>2. ASSUME NEW o \in Outcomes
      PROVE  /\ Counts(v, E, s, o) \in [Rules -> Int]
             /\ SumFunction(Counts(v, E, s, o)) \in Int
             /\ Remains(v, E, <<All, o>>, s) \in Nat
  <2>1. Counts(v, E, s, o) \in [Rules -> Int]
    BY <1>1 DEF Counts, Series
  <2>2. <<All, o>> \in Series
    BY DEF Series
  <2> QED
    BY <1>1, <2>1, <2>2, Numbers, SumFacts
<1> QED
  BY <1>1, <1>2

\* Where nothing is counted, nothing adds up to nothing.
LEMMA NothingAddsUp ==
    ASSUME NEW v \in Store, NEW E, NEW s \in Seconds, NEW o \in Outcomes, NEW b \in Nat,
           \A i \in Rules \cup {All} : v[<<i, o>>].counts[s] = 0
    PROVE  Sums(v, E, s, o, b)
<1>1. \A i \in Rules \cup {All} : Remains(v, E, <<i, o>>, s) = 0
  BY DEF Remains
<1>3. \A r \in Rules : Counts(v, E, s, o)[r] = 0
  BY <1>1 DEF Counts
<1>4. SumFunction(Counts(v, E, s, o)) = 0
  BY <1>3, RemainsNat, Numbers, SumFacts
<1> QED
  BY <1>1, <1>4 DEF Sums

\* What the c first commands of a tick leave adds up, but for one if they were not all.
LEMMA SumsPart ==
    ASSUME NEW t \in Nat, NEW b \in Nat, NEW c \in 0 .. 4,
           NEW r \in Rules, NEW u \in Outcomes, NEW s \in Seconds,
           NEW er, Warned(er, u, s, t),
           NEW v, NEW w, Part(v, w, <<r, u>>, <<All, u>>, s, c, t),
           FarEmpty(v, er, t), AddsUp(v, er, b, t)
    PROVE  AddsUp(w, er, IF c = 4 THEN b ELSE b + 1, t)
<1> DEFINE own == <<r, u>>
           all == <<All, u>>
           m == IF c = 4 THEN b ELSE b + 1
<1>1. own \in Series /\ all \in Series /\ own # all /\ \A p \in Rules, o \in Outcomes : <<p, o>> # all
  BY Numbers DEF Series
<1>2. v \in Store /\ w \in Store /\ m \in Nat
  BY DEF Part
<1>3. FarEmpty(w, er, t)
  BY EmptyDone
<1> SUFFICES ASSUME NEW z \in Seconds, NEW o \in Outcomes, NEW E \in SUBSET Series,
                    er[<<All, o>>][z] = 0, t <= LastShown(z), Doomed(w, E, z)
             PROVE  Sums(w, E, z, o, m)
  BY DEF AddsUp
<1>4. CASE Far(z, t)
  BY <1>2, <1>3, <1>4, NothingAddsUp DEF FarEmpty
<1>5. ASSUME ~Far(z, t) PROVE Sums(w, E, z, o, m)
  <2>1. LastShown(z) <= t + Retention /\ LastShown(z) \in Nat /\ Retention \in Nat
    BY <1>5, SecondFacts, Numbers
  <2>2. (c >= 3 => own \notin E) /\ (c >= 4 => all \notin E)
    BY <2>1 DEF Doomed, Part
  <2>3. Doomed(v, E, z)
    <3> SUFFICES ASSUME NEW x \in E PROVE v[x].expireAt < LastShown(z)
      BY DEF Doomed
    <3>1. w[x].expireAt < LastShown(z)
      BY DEF Doomed
    <3>2. v[x].expireAt = w[x].expireAt
      <4>1. CASE x \in {own, all}
        BY <2>2, <4>1 DEF Part
      <4>2. CASE x \notin {own, all}
        <5>1. w[x] = v[x]
          BY <4>2 DEF Part
        <5> QED
          BY <5>1
      <4> QED
        BY <4>1, <4>2
    <3> QED
      BY <3>1, <3>2
  <2>4. Sums(v, E, z, o, b)
    BY <2>3 DEF AddsUp
  <2> DEFINE f  == Counts(v, E, z, o)
             h  == Counts(w, E, z, o)
             d1 == IF o = u /\ z = s /\ c >= 1 /\ own \notin E THEN 1 ELSE 0
             d2 == IF o = u /\ z = s /\ c >= 2 /\ all \notin E THEN 1 ELSE 0
  <2>5. f \in [Rules -> Int] /\ h \in [Rules -> Int] /\ IsFiniteSet(Rules)
    BY <1>2, RemainsNat, Numbers
  <2>6. Raised(h, f, Rules, r, d1)
    <3> SUFFICES ASSUME NEW p \in Rules
                 PROVE  h[p] = IF p = r THEN f[p] + d1 ELSE f[p]
      BY DEF Raised
    <3> DEFINE x == <<p, o>>
    <3>1. h[p] = Remains(w, E, x, z) /\ f[p] = Remains(v, E, x, z) /\ x \in Series /\ x # all
      BY <1>1 DEF Counts, Series
    <3>2. f[p] \in Int
      BY <2>5
    <3>3. x = own <=> p = r /\ o = u
      OBVIOUS
    <3>4. CASE x = own
      <4>1. w[own].counts[z] = v[own].counts[z] + (IF z = s /\ c >= 1 THEN 1 ELSE 0)
        BY DEF Part
      <4>2. v[own].counts[z] \in Nat
        BY <1>1, <1>2 DEF Store
      <4> HIDE DEF f, h, x, own, all
      <4> QED
        BY <3>1, <3>3, <3>4, <4>1, <4>2 DEF Remains
    <3>5. CASE x # own
      <4>1. w[x] = v[x]
        BY <3>1, <3>5 DEF Part
      <4>2. Remains(w, E, x, z) = Remains(v, E, x, z)
        BY <4>1 DEF Remains
      <4> HIDE DEF f, h, x, own, all
      <4> QED
        BY <3>1, <3>2, <3>3, <3>5, <4>2
    <3> QED
      BY <3>4, <3>5
  <2>7. SumFunction(h) = SumFunction(f) + d1
    <3>1. d1 \in Int
      OBVIOUS
    <3> HIDE DEF f, h, d1
    <3> QED
      BY <2>5, <2>6, <3>1, SumChanged
  <2>8. Remains(w, E, <<All, o>>, z) = Remains(v, E, <<All, o>>, z) + d2
    <3> DEFINE x == <<All, o>>
    <3>1. x \in Series /\ x # own
      BY <1>1 DEF Series
    <3>2. x = all <=> o = u
      OBVIOUS
    <3>3. v[x].counts[z] \in Nat
      BY <1>2, <3>1 DEF Store
    <3>4. CASE x = all
      <4>1. w[all].counts[z] = v[all].counts[z] + (IF z = s /\ c >= 2 THEN 1 ELSE 0)
        BY DEF Part
      <4> HIDE DEF x, own, all
      <4>2. Remains(w, E, x, z) = Remains(v, E, x, z) + d2
        BY <3>2, <3>3, <3>4, <4>1 DEF Remains
      <4> QED
        BY <4>2 DEF x
    <3>5. CASE x # all
      <4>1. w[x] = v[x]
        BY <3>1, <3>5 DEF Part
      <4> HIDE DEF x, own, all
      <4>2. Remains(w, E, x, z) = Remains(v, E, x, z) + d2
        BY <3>2, <3>3, <3>5, <4>1 DEF Remains
      <4> QED
        BY <4>2 DEF x
    <3> QED
      BY <3>4, <3>5
  <2> DEFINE sf == SumFunction(f)
             sh == SumFunction(h)
             a1 == Remains(v, E, <<All, o>>, z)
             a2 == Remains(w, E, <<All, o>>, z)
  <2>9. sf \in Int /\ sh \in Int /\ a1 \in Nat /\ a2 \in Nat
    BY <1>2, RemainsNat
  <2>10. sf - a1 \in -b .. b
    BY <2>4 DEF Sums
  <2>11. d1 \in {0, 1} /\ d2 \in {0, 1} /\ (c = 4 => d1 = d2)
    BY <2>2
  <2>12. sh = sf + d1 /\ a2 = a1 + d2
    BY <2>7, <2>8
  <2>13. m = IF c = 4 THEN b ELSE b + 1
    OBVIOUS
  <2> HIDE DEF sf, sh, a1, a2, d1, d2, m
  <2>14. sh - a2 \in -m .. m
    BY <2>9, <2>10, <2>11, <2>12, <2>13
  <2> QED
    BY <2>14 DEF Sums, sh, a2
<1> QED
  BY <1>4, <1>5

\* More breaks excuse more.
LEMMA AddsUpLoose ==
    ASSUME NEW v \in Store, NEW er, NEW b \in Nat, NEW t, AddsUp(v, er, b, t)
    PROVE  AddsUp(v, er, b + 1, t)
<1> SUFFICES ASSUME NEW s \in Seconds, NEW o \in Outcomes, NEW E \in SUBSET Series,
                    er[<<All, o>>][s] = 0, t <= LastShown(s) /\ Doomed(v, E, s)
             PROVE  Sums(v, E, s, o, b + 1)
  BY DEF AddsUp
<1> DEFINE x == SumFunction(Counts(v, E, s, o))
           y == Remains(v, E, <<All, o>>, s)
<1>1. x \in Int /\ y \in Int
  BY RemainsNat
<1>2. x - y \in -b .. b
  BY DEF AddsUp, Sums
<1> HIDE DEF x, y
<1>3. x - y \in -(b + 1) .. (b + 1)
  BY <1>1, <1>2
<1> QED
  BY <1>3 DEF Sums, x, y

LEMMA CountLoose ==
    ASSUME NEW t, NEW b \in Nat, NEW v \in Store,
           NEW rec1 \in Records, NEW rec \in Records, NEW er \in Records,
           \A x \in Rules \X Outcomes, z \in Seconds :
               rec1[x][z] = rec[x][z] \/ rec1[x][z] = rec[x][z] + 1,
           CountsHold(v, rec1, er, b, t)
    PROVE  CountsHold(v, rec, er, b + 1, t)
<1> SUFFICES ASSUME NEW x \in Rules \X Outcomes, NEW z \in Seconds
             PROVE  CountHolds(v[x], z, rec[x][z], er[x][z], b + 1, t)
  BY DEF CountsHold
<1> DEFINE n1 == v[x].counts[z]
           r1 == rec1[x][z]
           r2 == rec[x][z]
           e1 == er[x][z]
<1>1. n1 \in Nat /\ r1 \in Nat /\ r2 \in Nat /\ e1 \in Nat
  BY RuleSeries DEF Store, Records
<1>2. CountHolds(v[x], z, r1, e1, b, t)
  BY DEF CountsHold
<1>3. r1 = r2 \/ r1 = r2 + 1
  OBVIOUS
<1> HIDE DEF r1, r2, e1
<1>4. n1 <= r1 + b /\ (t <= LastShown(z) => IF v[x].expireAt < LastShown(z) THEN r1 <= e1 ELSE r1 <= n1 + e1)
  BY <1>2 DEF CountHolds
<1> HIDE DEF n1
<1>5. n1 <= r2 + (b + 1)
  BY <1>1, <1>3, <1>4
<1>6. t <= LastShown(z) => IF v[x].expireAt < LastShown(z) THEN r2 <= e1 ELSE r2 <= n1 + e1
  BY <1>1, <1>3, <1>4
<1> QED
  BY <1>5, <1>6 DEF CountHolds, n1, r2, e1

-----------------------------------------------------------------------------
(***************************************************************************)
(* The pipeline of a request.                                              *)
(***************************************************************************)
\* A tick in a pipeline.
Tick == [rule : Rules, outcome : Outcomes, second : Seconds]

\* A request at the time t: a rule is evaluated once.
IsDeciding(x, q, t) ==
    /\ x = [pc |-> "deciding", at |-> x.at, todo |-> x.todo, ticks |-> x.ticks]
    /\ x.at \in 0 .. t /\ t <= x.at + MaxLag
    /\ x.todo \in SUBSET Matched[q]
    /\ x.ticks \in Seq(Tick)
    /\ \A n \in 1 .. Len(x.ticks) : x.ticks[n].rule \in Matched[q] \ x.todo
    /\ \A m, n \in 1 .. Len(x.ticks) : x.ticks[m].rule = x.ticks[n].rule => m = n
IsRequest(x, q, t) ==
    x = [pc |-> "new"] \/ x = [pc |-> "done"] \/ IsDeciding(x, q, t)

\* A log of refusals.
IsLog(x) == x \in [events : Seq([by : Requests, at : Nat]), expireAt : Nat]

\* What every run keeps.
Typed ==
    /\ now \in 0 .. MaxNow /\ breaks \in Nat
    /\ DOMAIN req = Requests /\ \A q \in Requests : IsRequest(req[q], q, now)
    /\ released \in [Keys -> Nat]
    /\ series \in Store
    /\ DOMAIN log = Rules /\ \A r \in Rules : IsLog(log[r])
    /\ recorded \in Records /\ early \in Records

\* A request that is deciding is one.
LEMMA DecidingIs ==
    ASSUME Typed, NEW q \in Requests, req[q].pc = "deciding"
    PROVE  IsDeciding(req[q], q, now)
  BY DEF Typed, IsRequest

\* The pipeline holds four commands for each tick.
LEMMA PipelineFours ==
    ASSUME Typed, NEW q \in Requests, req[q].pc = "deciding"
    PROVE  /\ Pipeline(q) \in Seq(Commands)
           /\ Len(Pipeline(q)) = 4 * Len(req[q].ticks)
           /\ \A i \in 1 .. Len(req[q].ticks), j \in 1 .. 4 :
                  Pipeline(q)[4 * (i - 1) + j] = TickCommands(req[q].ticks[i])[j]
<1> DEFINE ts   == req[q].ticks
           seqs == [n \in DOMAIN ts |-> TickCommands(ts[n])]
<1>1. ts \in Seq(Tick)
  BY DecidingIs DEF IsDeciding
<1>2. Pipeline(q) = FlattenSeq(seqs)
  BY DEF Pipeline
<1> HIDE DEF ts
<1>3. \A t \in Tick : TickCommands(t) \in Seq(Commands) /\ Len(TickCommands(t)) = 4
  <2> TAKE t \in Tick
  <2> DEFINE own == <<t.rule, t.outcome>>
             all == <<All, t.outcome>>
  <2>1. own \in Series /\ all \in Series /\ t.second \in Seconds
    BY DEF Tick, Series
  <2>2. /\ ZIncrBy(own, t.second) \in Commands /\ ZIncrBy(all, t.second) \in Commands
        /\ Expire(own) \in Commands /\ Expire(all) \in Commands
    BY <2>1 DEF ZIncrBy, Expire, Commands
  <2>3. TickCommands(t) = <<ZIncrBy(own, t.second), ZIncrBy(all, t.second), Expire(own), Expire(all)>>
    BY DEF TickCommands
  <2> QED
    BY <2>2, <2>3
<1>4. /\ seqs \in Seq(Seq(Commands)) /\ Len(seqs) = Len(ts)
      /\ \A i \in 1 .. Len(ts) : seqs[i] = TickCommands(ts[i])
      /\ \A i \in 1 .. Len(ts) : Len(seqs[i]) = 4
  <2>1. DOMAIN ts = 1 .. Len(ts) /\ Len(ts) \in Nat /\ \A i \in 1 .. Len(ts) : ts[i] \in Tick
    BY <1>1
  <2>2. \A i \in 1 .. Len(ts) :
            seqs[i] = TickCommands(ts[i]) /\ seqs[i] \in Seq(Commands) /\ Len(seqs[i]) = 4
    BY <1>3, <2>1
  <2>3. seqs \in [1 .. Len(ts) -> Seq(Commands)]
    BY <2>1, <2>2
  <2> HIDE DEF seqs
  <2>4. seqs \in Seq(Seq(Commands)) /\ Len(seqs) = Len(ts)
    BY <2>1, <2>3
  <2> QED
    BY <2>2, <2>4
<1> HIDE DEF seqs
<1>5. FlattenSeq(seqs) \in Seq(Commands)
  BY <1>4, FlattenHolds
<1>6. /\ Len(FlattenSeq(seqs)) = 4 * Len(seqs)
      /\ \A i \in 1 .. Len(seqs), j \in 1 .. 4 : FlattenSeq(seqs)[4 * (i - 1) + j] = seqs[i][j]
  <2>1. \A i \in 1 .. Len(seqs) : Len(seqs[i]) = 4
    BY <1>4
  <2> QED
    BY <1>4, <2>1, FlattenFours
<1>7. /\ Pipeline(q) \in Seq(Commands) /\ Len(Pipeline(q)) = 4 * Len(ts)
  BY <1>2, <1>4, <1>5, <1>6
<1>8. \A i \in 1 .. Len(ts), j \in 1 .. 4 : Pipeline(q)[4 * (i - 1) + j] = TickCommands(ts[i])[j]
  <2> TAKE i \in 1 .. Len(ts), j \in 1 .. 4
  <2>1. seqs[i] = TickCommands(ts[i]) /\ i \in 1 .. Len(seqs)
    BY <1>4
  <2>2. FlattenSeq(seqs)[4 * (i - 1) + j] = seqs[i][j]
    BY <1>6, <2>1
  <2> QED
    BY <1>2, <2>1, <2>2
<1> QED
  BY <1>7, <1>8 DEF ts

\* What the commands of its tick after the first j do.
LEMMA PipelineParts ==
    ASSUME Typed, NEW q \in Requests, req[q].pc = "deciding",
           NEW F, Run(F, Pipeline(q)),
           NEW j \in Nat, j + 1 <= Len(req[q].ticks), F[4 * j] \in Store,
           NEW x, x = req[q].ticks[j + 1], NEW c \in 0 .. 4
    PROVE  /\ x \in Tick
           /\ F[4 * j + c] \in Store
           /\ Part(View(F[4 * j], now), View(F[4 * j + c], now),
                   <<x.rule, x.outcome>>, <<All, x.outcome>>, x.second, c, now)
<1> DEFINE P == Pipeline(q)
           L == Len(req[q].ticks)
           own == <<x.rule, x.outcome>>
           all == <<All, x.outcome>>
<1>1. req[q].ticks \in Seq(Tick)
  BY DecidingIs DEF IsDeciding
<1>2. L \in Nat /\ j + 1 \in 1 .. L /\ x \in Tick
  BY <1>1
<1>3. own \in Series /\ all \in Series /\ own # all /\ x.second \in Seconds
  BY <1>2, Numbers DEF Tick, Series
<1>4. P \in Seq(Commands) /\ Len(P) = 4 * L /\ \A i \in 1 .. 4 : P[4 * ((j + 1) - 1) + i] = TickCommands(x)[i]
  BY <1>2, PipelineFours
<1>5. \A i \in 1 .. Len(P) : F[i] = Executed(F[i - 1], P[i])
  BY DEF Run
<1> HIDE DEF P, L
<1>6. 4 * ((j + 1) - 1) = 4 * j /\ 4 * j \in Nat /\ 4 * j + 4 <= 4 * L
  BY <1>2
<1>7. /\ F[4 * j + 1] = Executed(F[4 * j], P[4 * j + 1])
      /\ F[4 * j + 2] = Executed(F[4 * j + 1], P[4 * j + 2])
      /\ F[4 * j + 3] = Executed(F[4 * j + 2], P[4 * j + 3])
      /\ F[4 * j + 4] = Executed(F[4 * j + 3], P[4 * j + 4])
  <2> DEFINE e == 4 * j
  <2>1. e \in Nat /\ e + 4 <= Len(P) /\ Len(P) \in Nat
    BY <1>4, <1>6
  <2> HIDE DEF e
  <2>2. \A i \in 1 .. 4 : e + i \in 1 .. Len(P) /\ (e + i) - 1 = e + (i - 1)
    BY <2>1
  <2>3. \A i \in 1 .. 4 : F[e + i] = Executed(F[e + (i - 1)], P[e + i])
    BY <1>5, <2>2
  <2>4. e + (1 - 1) = e /\ 2 - 1 = 1 /\ 3 - 1 = 2 /\ 4 - 1 = 3
    BY <2>1
  <2>5. /\ F[e + 1] = Executed(F[e], P[e + 1])
        /\ F[e + 2] = Executed(F[e + 1], P[e + 2])
        /\ F[e + 3] = Executed(F[e + 2], P[e + 3])
        /\ F[e + 4] = Executed(F[e + 3], P[e + 4])
    BY <2>3, <2>4
  <2> QED
    BY <2>5 DEF e
<1>8. /\ P[4 * j + 1] = ZIncrBy(own, x.second) /\ P[4 * j + 2] = ZIncrBy(all, x.second)
      /\ P[4 * j + 3] = Expire(own) /\ P[4 * j + 4] = Expire(all)
  <2>1. /\ TickCommands(x)[1] = ZIncrBy(own, x.second) /\ TickCommands(x)[2] = ZIncrBy(all, x.second)
        /\ TickCommands(x)[3] = Expire(own) /\ TickCommands(x)[4] = Expire(all)
    BY DEF TickCommands
  <2>2. \A i \in 1 .. 4 : P[4 * j + i] = TickCommands(x)[i]
    BY <1>4, <1>6
  <2>3. 1 \in 1 .. 4 /\ 2 \in 1 .. 4 /\ 3 \in 1 .. 4 /\ 4 \in 1 .. 4
    OBVIOUS
  <2> QED
    BY <2>1, <2>2, <2>3
<1>9. now \in 0 .. MaxNow
  BY DEF Typed
<1> DEFINE f0 == F[4 * j]
           f1 == F[4 * j + 1]
           f2 == F[4 * j + 2]
           f3 == F[4 * j + 3]
           f4 == F[4 * j + 4]
<1>10. /\ f1 = Executed(f0, ZIncrBy(own, x.second)) /\ f2 = Executed(f1, ZIncrBy(all, x.second))
       /\ f3 = Executed(f2, Expire(own)) /\ f4 = Executed(f3, Expire(all))
  BY <1>7, <1>8
<1>11. f0 \in Store
  OBVIOUS
<1> HIDE DEF f0, f1, f2, f3, f4, own, all
<1>12. /\ f1 \in Store /\ f2 \in Store /\ f3 \in Store /\ f4 \in Store
       /\ Part(View(f0, now), View(f0, now), own, all, x.second, 0, now)
       /\ Part(View(f0, now), View(f1, now), own, all, x.second, 1, now)
       /\ Part(View(f0, now), View(f2, now), own, all, x.second, 2, now)
       /\ Part(View(f0, now), View(f3, now), own, all, x.second, 3, now)
       /\ Part(View(f0, now), View(f4, now), own, all, x.second, 4, now)
  BY <1>3, <1>9, <1>10, <1>11, TickParts
<1>13. c = 0 \/ c = 1 \/ c = 2 \/ c = 3 \/ c = 4
  OBVIOUS
<1>14. 4 * j + 0 = 4 * j
  BY <1>6
<1>15. F[4 * j + c] \in Store /\ Part(View(f0, now), View(F[4 * j + c], now), own, all, x.second, c, now)
  BY <1>11, <1>12, <1>13, <1>14 DEF f0, f1, f2, f3, f4
<1> QED
  BY <1>2, <1>15 DEF f0, own, all

\* What is answered for when the first j ticks of a request are.
Has(q, j, x, s) ==
    \E n \in 1 .. j : req[q].ticks[n] = [rule |-> x[1], outcome |-> x[2], second |-> s]
Answered(q, j) ==
    [x \in Series |-> [s \in Seconds |->
        recorded[x][s] + (IF Has(q, j, x, s) THEN 1 ELSE 0)]]

\* The next one is k.
HasNext(q, j, k, x, s) ==
    LET next == x = <<k.rule, k.outcome>> /\ s = k.second
    IN  (next => ~Has(q, j, x, s)) /\ (Has(q, j + 1, x, s) <=> Has(q, j, x, s) \/ next)

\* A rule ticks once.
LEMMA AnsweredNext ==
    ASSUME Typed, NEW q \in Requests, req[q].pc = "deciding",
           NEW j \in Nat, j + 1 <= Len(req[q].ticks),
           NEW k, k = req[q].ticks[j + 1],
           NEW x \in Rules \X Outcomes, NEW s \in Seconds
    PROVE  HasNext(q, j, k, x, s)
<1> DEFINE ts == req[q].ticks
<1>1. /\ ts \in Seq(Tick)
      /\ \A m, n \in 1 .. Len(ts) : ts[m].rule = ts[n].rule => m = n
  BY DecidingIs DEF IsDeciding
<1> HIDE DEF ts
<1>2. Len(ts) \in Nat /\ j + 1 \in 1 .. Len(ts) /\ k = ts[j + 1] /\ k \in Tick
  BY <1>1 DEF ts
<1>3. [rule |-> x[1], outcome |-> x[2], second |-> s] = k
          <=> x = <<k.rule, k.outcome>> /\ s = k.second
  BY <1>2 DEF Tick
<1>4. ASSUME ts[j + 1] = [rule |-> x[1], outcome |-> x[2], second |-> s] PROVE ~Has(q, j, x, s)
  <2>1. ASSUME NEW n \in 1 .. j, ts[n] = [rule |-> x[1], outcome |-> x[2], second |-> s]
        PROVE  FALSE
    <3>1. ts[n] = ts[j + 1] /\ n \in 1 .. Len(ts)
      BY <1>2, <1>4, <2>1
    <3>2. n = j + 1
      BY <1>1, <1>2, <3>1
    <3> QED
      BY <3>2
  <2> QED
    BY <2>1 DEF Has, ts
<1>5. Has(q, j + 1, x, s) <=> Has(q, j, x, s) \/ ts[j + 1] = [rule |-> x[1], outcome |-> x[2], second |-> s]
  <2>1. \A n : n \in 1 .. j + 1 <=> n \in 1 .. j \/ n = j + 1
    OBVIOUS
  <2> QED
    BY <2>1 DEF Has, ts
<1> QED
  BY <1>2, <1>3, <1>4, <1>5 DEF HasNext

\* What the first j ticks have answered for.
LEMMA AnsweredIs ==
    ASSUME Typed, NEW q, NEW j
    PROVE  /\ Answered(q, j) \in Records
           /\ \A x \in Rules \X Outcomes, s \in Seconds :
                  Answered(q, j)[x][s] = recorded[x][s] + (IF Has(q, j, x, s) THEN 1 ELSE 0)
<1>1. recorded \in Records
  BY DEF Typed
<1>2. \A x \in Series, s \in Seconds : recorded[x][s] \in Nat
  BY <1>1 DEF Records
<1>3. \A x \in Series, s \in Seconds :
          /\ Answered(q, j)[x][s] = recorded[x][s] + (IF Has(q, j, x, s) THEN 1 ELSE 0)
          /\ Answered(q, j)[x][s] \in Nat
  BY <1>2 DEF Answered
<1>4. Answered(q, j) = [x \in Series |-> [s \in Seconds |-> Answered(q, j)[x][s]]]
  BY DEF Answered
<1> QED
  BY <1>3, <1>4, RuleSeries DEF Records

\* What is so of the series, with the records rec, the ticks er that were sent too early
\* and b breaks.
Covered(ss, rec, er, b, t) ==
    /\ ss \in Store
    /\ CountsHold(View(ss, t), rec, er, b, t)
    /\ AddsUp(View(ss, t), er, b, t)
    /\ FarEmpty(View(ss, t), er, t)

\* What is counted of a request in a second.
LEMMA TicksIs ==
    ASSUME Typed, NEW q \in Requests, req[q].pc = "deciding", NEW s \in Seconds
    PROVE  /\ \A x \in Series : Ticks(q, x, s) \in Nat
           /\ \A x \in Rules \X Outcomes :
                  Ticks(q, x, s) = IF Has(q, Len(req[q].ticks), x, s) THEN 1 ELSE 0
           /\ \A n \in 1 .. Len(req[q].ticks) :
                  req[q].ticks[n].second = s => Ticks(q, <<All, req[q].ticks[n].outcome>>, s) # 0
<1> DEFINE ts == req[q].ticks
           C(x) == {n \in DOMAIN ts : x[1] \in {ts[n].rule, All} /\ x[2] = ts[n].outcome
                                          /\ s = ts[n].second}
<1>1. /\ ts \in Seq(Tick)
      /\ \A m, n \in 1 .. Len(ts) : ts[m].rule = ts[n].rule => m = n
  BY DecidingIs DEF IsDeciding
<1>2. \A x : Ticks(q, x, s) = Cardinality(C(x))
  BY DEF Ticks
<1> HIDE DEF ts
<1>3. Len(ts) \in Nat /\ DOMAIN ts = 1 .. Len(ts) /\ IsFiniteSet(1 .. Len(ts))
  <2>1. Len(ts) \in Nat /\ DOMAIN ts = 1 .. Len(ts)
    BY <1>1
  <2> QED
    BY <2>1, FS_Interval
<1>4. \A x : IsFiniteSet(C(x))
  <2> TAKE x
  <2>1. C(x) \in SUBSET (1 .. Len(ts))
    BY <1>3
  <2> HIDE DEF C
  <2> QED
    BY <1>3, <2>1, FS_Subset
<1>5. \A x : Ticks(q, x, s) \in Nat
  <2> HIDE DEF C
  <2> QED
    BY <1>2, <1>4, FS_CardinalityType
<1>6. ASSUME NEW x \in Rules \X Outcomes
      PROVE  Ticks(q, x, s) = IF Has(q, Len(ts), x, s) THEN 1 ELSE 0
  <2>1. \A n \in 1 .. Len(ts) :
            n \in C(x) <=> ts[n] = [rule |-> x[1], outcome |-> x[2], second |-> s]
    <3> TAKE n \in 1 .. Len(ts)
    <3>1. ts[n] \in Tick /\ x[1] # All
      BY <1>1, Numbers
    <3> QED
      BY <1>3, <3>1 DEF Tick
  <2>2. C(x) \subseteq 1 .. Len(ts)
    BY <1>3
  <2> HIDE DEF C
  <2>3. CASE Has(q, Len(ts), x, s)
    <3>1. PICK n \in 1 .. Len(ts) : ts[n] = [rule |-> x[1], outcome |-> x[2], second |-> s]
      BY <2>3 DEF Has, ts
    <3>2. C(x) = {n}
      <4>1. \A m \in C(x) : m = n
        <5> TAKE m \in C(x)
        <5>1. m \in 1 .. Len(ts) /\ ts[m] = ts[n]
          BY <2>1, <2>2, <3>1
        <5> QED
          BY <1>1, <5>1
      <4> QED
        BY <2>1, <3>1, <4>1
    <3> QED
      BY <1>2, <2>3, <3>2, FS_Singleton
  <2>4. CASE ~Has(q, Len(ts), x, s)
    <3>1. C(x) = {}
      BY <2>1, <2>2, <2>4 DEF Has, ts
    <3> QED
      BY <1>2, <2>4, <3>1, FS_EmptySet
  <2> QED
    BY <2>3, <2>4
<1>7. ASSUME NEW n \in 1 .. Len(ts), ts[n].second = s
      PROVE  Ticks(q, <<All, ts[n].outcome>>, s) # 0
  <2> DEFINE x == <<All, ts[n].outcome>>
  <2>1. n \in C(x)
    BY <1>3, <1>7
  <2>2. IsFiniteSet(C(x)) /\ C(x) # {}
    BY <1>4, <2>1
  <2> HIDE DEF C, x
  <2>3. Cardinality(C(x)) # 0
    BY <2>2, FS_EmptySet
  <2> QED
    BY <1>2, <2>3 DEF x
<1> QED
  BY <1>5, <1>6, <1>7 DEF ts

\* What the pipeline of a request leaves to be sent too early is in er: each tick in a
\* far second, in its own series and in that of all.
Foreseen(q, er) ==
    /\ er \in Records
    /\ \A n \in 1 .. Len(req[q].ticks) :
           Warned(er, req[q].ticks[n].outcome, req[q].ticks[n].second, now)
    /\ \A x \in Rules \X Outcomes, s \in Seconds :
           Far(s, now) => recorded[x][s] + Ticks(q, x, s) <= er[x][s]

\* What the first j ticks have answered for in a far second is.
LEMMA AnsweredNear ==
    ASSUME Typed, NEW q \in Requests, req[q].pc = "deciding",
           NEW j \in Nat, j <= Len(req[q].ticks), NEW er, Foreseen(q, er)
    PROVE  FarZero(Answered(q, j), er, now) /\ FarZero(recorded, er, now)
<1> SUFFICES ASSUME NEW x \in Rules \X Outcomes, NEW s \in Seconds, Far(s, now)
             PROVE  Answered(q, j)[x][s] <= er[x][s] /\ recorded[x][s] <= er[x][s]
  BY DEF FarZero
<1> DEFINE L == Len(req[q].ticks)
<1>1. L \in Nat /\ x \in Series
  BY DecidingIs, RuleSeries DEF IsDeciding
<1>2. Has(q, j, x, s) => Has(q, L, x, s)
  <2>1. \A n \in 1 .. j : n \in 1 .. L
    BY <1>1
  <2> HIDE DEF L
  <2> QED
    BY <2>1 DEF Has
<1>3. Ticks(q, x, s) = IF Has(q, L, x, s) THEN 1 ELSE 0
  BY TicksIs
<1>4. recorded[x][s] + Ticks(q, x, s) <= er[x][s]
  BY DEF Foreseen
<1>5. Answered(q, j)[x][s] = recorded[x][s] + (IF Has(q, j, x, s) THEN 1 ELSE 0)
  BY AnsweredIs
<1>6. recorded[x][s] \in Nat /\ er[x][s] \in Nat
  BY <1>1 DEF Typed, Records, Foreseen
<1> HIDE DEF L
<1> QED
  BY <1>2, <1>3, <1>4, <1>5, <1>6

\* The first j ticks, executed to their end.
LEMMA TicksCovered ==
    ASSUME Typed, NEW q \in Requests, req[q].pc = "deciding",
           NEW er, Foreseen(q, er), Covered(series, recorded, er, breaks, now),
           NEW F, Run(F, Pipeline(q))
    PROVE  \A j \in Nat : j <= Len(req[q].ticks)
               => Covered(F[4 * j], Answered(q, j), er, breaks, now)
<1> DEFINE L == Len(req[q].ticks)
           N == {j \in Nat : j <= L => Covered(F[4 * j], Answered(q, j), er, breaks, now)}
<1>1. now \in Nat /\ breaks \in Nat /\ L \in Nat
  BY DecidingIs DEF Typed, IsDeciding
<1> HIDE DEF L
<1>2. 0 \in N
  <2>1. F[4 * 0] = series
    BY DEF Run
  <2>2. \A x \in Rules \X Outcomes, s \in Seconds : Answered(q, 0)[x][s] = recorded[x][s]
    <3>1. \A x, s : ~Has(q, 0, x, s)
      BY DEF Has
    <3>2. \A x \in Rules \X Outcomes, s \in Seconds : recorded[x][s] \in Nat
      BY RuleSeries DEF Typed, Records
    <3> QED
      BY <3>1, <3>2, AnsweredIs
  <2>3. CountsHold(View(series, now), Answered(q, 0), er, breaks, now)
    BY <2>2 DEF CountsHold, Covered
  <2> QED
    BY <2>1, <2>3 DEF Covered
<1>3. ASSUME NEW j \in Nat, j \in N PROVE j + 1 \in N
  <2>1. ASSUME j + 1 <= L PROVE Covered(F[4 * (j + 1)], Answered(q, j + 1), er, breaks, now)
    <3> DEFINE k   == req[q].ticks[j + 1]
               own == <<k.rule, k.outcome>>
               v   == View(F[4 * j], now)
               w   == View(F[4 * j + 4], now)
               r1  == Answered(q, j)
               r2  == Answered(q, j + 1)
    <3>1. Covered(F[4 * j], r1, er, breaks, now)
      BY <1>1, <1>3, <2>1
    <3>2. 4 * (j + 1) = 4 * j + 4
      OBVIOUS
    <3>3. /\ k \in Tick /\ F[4 * j + 4] \in Store
          /\ Part(v, w, own, <<All, k.outcome>>, k.second, 4, now)
      <4>1. F[4 * j] \in Store
        BY <3>1 DEF Covered
      <4>2. j + 1 <= Len(req[q].ticks)
        BY <2>1 DEF L
      <4> QED
        BY <4>1, <4>2, PipelineParts
    <3>4. own \in Rules \X Outcomes /\ k.rule \in Rules /\ k.outcome \in Outcomes /\ k.second \in Seconds
      BY <3>3 DEF Tick
    <3>5. r1 \in Records /\ r2 \in Records /\ er \in Records
      BY AnsweredIs DEF Foreseen
    <3>13. Warned(er, k.outcome, k.second, now)
      <4>1. j + 1 \in 1 .. Len(req[q].ticks)
        BY <1>1, <2>1 DEF L
      <4> QED
        BY <4>1 DEF Foreseen, Warned
    <3>6. \A x \in Rules \X Outcomes, z \in Seconds :
              r2[x][z] = r1[x][z] + (IF x = own /\ z = k.second THEN 1 ELSE 0)
      <4> TAKE x \in Rules \X Outcomes, z \in Seconds
      <4>1. /\ x = own /\ z = k.second => ~Has(q, j, x, z)
            /\ Has(q, j + 1, x, z) <=> Has(q, j, x, z) \/ (x = own /\ z = k.second)
        <5>1. k = req[q].ticks[j + 1] /\ j + 1 <= Len(req[q].ticks)
          BY <2>1 DEF L
        <5> HIDE DEF k
        <5>2. HasNext(q, j, k, x, z)
          BY <5>1, AnsweredNext
        <5> QED
          BY <5>2 DEF HasNext
      <4>2. /\ r1[x][z] = recorded[x][z] + (IF Has(q, j, x, z) THEN 1 ELSE 0)
            /\ r2[x][z] = recorded[x][z] + (IF Has(q, j + 1, x, z) THEN 1 ELSE 0)
        BY AnsweredIs
      <4>3. recorded[x][z] \in Nat
        BY RuleSeries DEF Typed, Records
      <4> HIDE DEF r1, r2, own, k
      <4> QED
        BY <4>1, <4>2, <4>3
    <3>7. FarZero(r2, er, now)
      BY <1>1, <2>1, AnsweredNear DEF L
    <3>8. CountsHold(v, r1, er, breaks, now) /\ AddsUp(v, er, breaks, now) /\ FarEmpty(v, er, now)
      BY <3>1 DEF Covered
    <3> HIDE DEF r1, r2, v, w
    <3>10. CountsHold(w, r2, er, breaks, now)
      <4> HIDE DEF own, k
      <4> QED
        BY <1>1, <3>3, <3>4, <3>5, <3>6, <3>7, <3>8, CountDone
    <3>11. AddsUp(w, er, breaks, now)
      <4>1. AddsUp(w, er, IF 4 = 4 THEN breaks ELSE breaks + 1, now)
        BY <1>1, <3>3, <3>4, <3>8, <3>13, SumsPart
      <4> QED
        BY <4>1
    <3>12. FarEmpty(w, er, now)
      BY <1>1, <3>3, <3>4, <3>8, <3>13, EmptyDone
    <3> QED
      BY <3>2, <3>3, <3>10, <3>11, <3>12 DEF Covered, w, r2
  <2> QED
    BY <2>1
<1> HIDE DEF N
<1>4. \A j \in Nat : j \in N
  BY <1>2, <1>3, Induction
<1> QED
  BY <1>4 DEF N, L

\* A pipeline that was cut.
LEMMA PipelineCut ==
    ASSUME Typed, NEW q \in Requests, req[q].pc = "deciding",
           NEW er, Foreseen(q, er), Covered(series, recorded, er, breaks, now),
           NEW n \in 0 .. Len(Pipeline(q))
    PROVE  Covered(After(SubSeq(Pipeline(q), 1, n)), recorded, er, breaks + 1, now)
<1> DEFINE P == Pipeline(q)
           L == Len(req[q].ticks)
<1>1. P \in Seq(Commands) /\ Len(P) = 4 * L /\ L \in Nat /\ now \in 0 .. MaxNow /\ series \in Store
  BY PipelineFours, DecidingIs DEF Typed, IsDeciding
<1> HIDE DEF P, L
<1>2. PICK F \in [0 .. Len(P) -> Store] :
          Run(F, P) /\ \A m \in 0 .. Len(P) : After(SubSeq(P, 1, m)) = F[m]
  BY <1>1, AfterCut
<1>3. \A j \in Nat : j <= L => Covered(F[4 * j], Answered(q, j), er, breaks, now)
  BY <1>2, TicksCovered DEF L, P
<1>4. After(SubSeq(P, 1, n)) = F[n]
  BY <1>2 DEF P
<1> DEFINE j == n \div 4
           c == n % 4
<1>5. j \in Nat /\ c \in 0 .. 3 /\ n = 4 * j + c /\ n \in Nat /\ n <= 4 * L
  BY <1>1 DEF P
<1> HIDE DEF j, c
<1>6. j <= L /\ (c # 0 => j + 1 <= L)
  BY <1>1, <1>5
<1> DEFINE v  == View(F[4 * j], now)
           r1 == Answered(q, j)
<1>7. Covered(F[4 * j], r1, er, breaks, now)
  BY <1>3, <1>5, <1>6
<1>8. now \in Nat /\ breaks \in Nat /\ recorded \in Records /\ r1 \in Records /\ er \in Records /\ v \in Store
  <2>1. now \in Nat /\ breaks \in Nat /\ recorded \in Records
    BY DEF Typed
  <2>2. r1 \in Records /\ er \in Records
    BY AnsweredIs DEF Foreseen
  <2>3. v \in Store
    BY <1>7, <2>1, ViewStore DEF Covered
  <2> QED
    BY <2>1, <2>2, <2>3
<1>9. \A x \in Rules \X Outcomes, z \in Seconds :
          /\ r1[x][z] = recorded[x][z] + (IF Has(q, j, x, z) THEN 1 ELSE 0)
          /\ recorded[x][z] \in Nat
  BY <1>8, AnsweredIs, RuleSeries DEF Records
<1>10. CountsHold(v, r1, er, breaks, now) /\ AddsUp(v, er, breaks, now) /\ FarEmpty(v, er, now)
  BY <1>7 DEF Covered
<1>11. CASE c = 0
  <2>1. F[n] = F[4 * j]
    BY <1>5, <1>11
  <2> HIDE DEF r1
  <2>2. \A x \in Rules \X Outcomes, z \in Seconds :
            r1[x][z] = recorded[x][z] \/ r1[x][z] = recorded[x][z] + 1
    BY <1>9
  <2> HIDE DEF v
  <2>3. CountsHold(v, recorded, er, breaks + 1, now)
    BY <1>8, <1>10, <2>2, CountLoose
  <2>4. AddsUp(v, er, breaks + 1, now)
    BY <1>8, <1>10, AddsUpLoose
  <2> QED
    BY <1>4, <1>7, <1>10, <2>1, <2>3, <2>4 DEF Covered, v, P
<1>12. ASSUME c # 0 PROVE Covered(F[n], recorded, er, breaks + 1, now)
  <2> DEFINE k   == req[q].ticks[j + 1]
             own == <<k.rule, k.outcome>>
             w   == View(F[n], now)
  <2>1. j + 1 <= L /\ c \in 0 .. 4 /\ F[4 * j] \in Store
    BY <1>5, <1>6, <1>7, <1>12 DEF Covered
  <2>2. /\ k \in Tick /\ F[n] \in Store
        /\ Part(v, w, own, <<All, k.outcome>>, k.second, c, now)
    BY <1>2, <1>5, <2>1, PipelineParts DEF P, L
  <2>3. own \in Rules \X Outcomes /\ k.rule \in Rules /\ k.outcome \in Outcomes /\ k.second \in Seconds
    BY <2>2 DEF Tick
  <2>4. Within(r1, recorded, own, k.second)
    <3>1. k = req[q].ticks[j + 1] /\ j + 1 <= Len(req[q].ticks)
      BY <2>1 DEF L
    <3> HIDE DEF k, r1, own
    <3> SUFFICES ASSUME NEW x \in Rules \X Outcomes, NEW z \in Seconds
                 PROVE  \/ r1[x][z] = recorded[x][z]
                        \/ r1[x][z] = recorded[x][z] + 1 /\ ~(x = own /\ z = k.second)
      BY DEF Within
    <3>2. HasNext(q, j, k, x, z)
      BY <1>5, <3>1, AnsweredNext
    <3>3. x = own /\ z = k.second => ~Has(q, j, x, z)
      BY <3>2 DEF HasNext, own
    <3> QED
      BY <1>9, <3>3
  <2>5. /\ Warned(er, k.outcome, k.second, now)
        /\ FarZero(recorded, er, now)
    <3>1. j + 1 \in 1 .. Len(req[q].ticks) /\ j <= Len(req[q].ticks)
      BY <1>1, <1>5, <1>6, <2>1 DEF L
    <3>2. FarZero(recorded, er, now)
      BY <1>5, <3>1, AnsweredNear
    <3> QED
      BY <3>1, <3>2 DEF Foreseen, Warned
  <2> HIDE DEF r1, v, w
  <2>6. CountsHold(w, recorded, er, breaks + 1, now)
    <3> HIDE DEF own, k
    <3> QED
      BY <1>5, <1>8, <1>10, <2>2, <2>3, <2>4, <2>5, CountCut
  <2>7. AddsUp(w, er, breaks + 1, now)
    <3>1. AddsUp(w, er, IF c = 4 THEN breaks ELSE breaks + 1, now)
      BY <1>8, <1>10, <2>1, <2>2, <2>3, <2>5, SumsPart
    <3>2. c # 4
      BY <1>5
    <3> QED
      BY <3>1, <3>2
  <2>8. FarEmpty(w, er, now)
    BY <1>8, <1>10, <2>1, <2>2, <2>3, <2>5, EmptyDone
  <2> QED
    BY <2>2, <2>6, <2>7, <2>8 DEF Covered, w
<1> QED
  BY <1>4, <1>11, <1>12 DEF P

\* A pipeline that was executed, of a request that is answered.
LEMMA PipelineDone ==
    ASSUME Typed, NEW q \in Requests, req[q].pc = "deciding",
           NEW er, Foreseen(q, er), Covered(series, recorded, er, breaks, now),
           NEW rec,
           rec = [x \in Series |-> [s \in Seconds |-> recorded[x][s] + Ticks(q, x, s)]]
    PROVE  rec \in Records /\ Covered(After(Pipeline(q)), rec, er, breaks, now) /\ FarZero(rec, er, now)
<1> DEFINE P == Pipeline(q)
           L == Len(req[q].ticks)
           r1 == Answered(q, L)
<1>1. P \in Seq(Commands) /\ Len(P) = 4 * L /\ L \in Nat /\ now \in 0 .. MaxNow /\ series \in Store
  BY PipelineFours, DecidingIs DEF Typed, IsDeciding
<1>2. recorded \in Records /\ \A x \in Series, s \in Seconds : recorded[x][s] \in Nat /\ Ticks(q, x, s) \in Nat
  BY TicksIs DEF Typed, Records
<1>3. rec \in Records
  BY <1>2 DEF Records
<1>4. \A x \in Rules \X Outcomes, s \in Seconds : rec[x][s] = r1[x][s]
  <2> TAKE x \in Rules \X Outcomes, s \in Seconds
  <2>1. x \in Series /\ rec[x][s] = recorded[x][s] + Ticks(q, x, s)
    BY RuleSeries
  <2>2. Ticks(q, x, s) = IF Has(q, L, x, s) THEN 1 ELSE 0
    BY TicksIs
  <2>3. r1[x][s] = recorded[x][s] + (IF Has(q, L, x, s) THEN 1 ELSE 0)
    BY AnsweredIs
  <2> QED
    BY <2>1, <2>2, <2>3
<1>5. FarZero(r1, er, now)
  BY <1>1, AnsweredNear
<1>6. PICK F \in [0 .. Len(P) -> Store] : Run(F, P) /\ After(P) = F[Len(P)]
  <2> HIDE DEF P, L
  <2> QED
    BY <1>1, AfterCut
<1>7. Covered(F[4 * L], r1, er, breaks, now)
  <2>1. \A j \in Nat : j <= L => Covered(F[4 * j], Answered(q, j), er, breaks, now)
    BY <1>6, TicksCovered
  <2> HIDE DEF L
  <2> QED
    BY <1>1, <2>1
<1> HIDE DEF P, L, r1
<1>8. Covered(After(P), r1, er, breaks, now)
  BY <1>1, <1>6, <1>7
<1>9. CountsHold(View(After(P), now), rec, er, breaks, now)
  BY <1>4, <1>8 DEF Covered, CountsHold
<1>10. Covered(After(P), rec, er, breaks, now)
  BY <1>8, <1>9 DEF Covered
<1>11. FarZero(rec, er, now)
  <2> SUFFICES ASSUME NEW x \in Rules \X Outcomes, NEW s \in Seconds, Far(s, now)
               PROVE  rec[x][s] <= er[x][s]
    BY DEF FarZero
  <2>1. r1[x][s] <= er[x][s]
    BY <1>5 DEF FarZero
  <2> QED
    BY <1>4, <2>1
<1> QED
  BY <1>3, <1>10, <1>11 DEF P

-----------------------------------------------------------------------------
(***************************************************************************)
(* The invariant of the curves.                                            *)
(***************************************************************************)
Curves ==
    /\ Typed
    /\ FarZero(recorded, early, now)
    /\ Covered(series, recorded, early, breaks, now)

\* The second of a time.
LEMMA SecondOf ==
    ASSUME NEW t \in 0 .. MaxNow, NEW x \in Nat, x <= t + MaxDelay
    PROVE  /\ x \div Second \in Seconds
           /\ (x \div Second) * Second <= x /\ x < (x \div Second) * Second + Second
<1> DEFINE s == x \div Second
           T == MaxNow + MaxDelay
<1>1. Second \in Nat \ {0} /\ MaxNow \in Nat /\ MaxDelay \in Nat /\ t \in Nat /\ t <= MaxNow
  BY Numbers
<1>2. s \in Nat /\ s * Second <= x /\ x < s * Second + Second
  BY <1>1, WindowFacts DEF WindowStart
<1>3. T \in Nat /\ x <= T
  BY <1>1
<1>4. s <= T \div Second
  <2> HIDE DEF T
  <2> QED
    BY <1>1, <1>3, Quotients
<1>5. T \div Second \in Nat
  <2> HIDE DEF T
  <2> QED
    BY <1>1, <1>3, Quotients
<1>6. s \in Seconds
  BY <1>2, <1>4, <1>5 DEF Seconds
<1> QED
  BY <1>2, <1>6

\* The second in which an admission is recorded is that of its slowest release.
Slowest(d, K) == /\ d \in {0} \cup {Release(k) - now : k \in K}
                 /\ \A k \in K : Release(k) - now <= d
LEMMA AllowSecondIs ==
    ASSUME Typed, NEW q \in Requests, IsDeciding(req[q], q, now), NEW K \in SUBSET Keys, HasSlots(K)
    PROVE  /\ \A k \in K : Release(k) \in Nat /\ Release(k) >= now + Pace[k]
                           /\ Release(k) >= released[k] + Pace[k]
           /\ \E d \in 0 .. MaxDelay :
                  Slowest(d, K) /\ AllowSecond(q, K) = (req[q].at + d) \div Second
<1> DEFINE D == {0} \cup {Release(k) - now : k \in K}
<1>1. now \in Nat /\ MaxDelay \in Nat /\ \A k \in K : Longest[k] \in Nat /\ Longest[k] <= MaxDelay
  BY Numbers DEF Typed
<1>2. \A k \in K : released[k] \in Nat /\ Pace[k] \in Nat
  BY StatsAssumption DEF Typed
<1>3. \A k \in K : /\ Release(k) \in Nat /\ Release(k) >= now + Pace[k]
                   /\ Release(k) >= released[k] + Pace[k] /\ Release(k) >= now
  BY <1>1, <1>2 DEF Release, Larger
<1>4. \A k \in K : Release(k) - now \in 0 .. MaxDelay
  <2> TAKE k \in K
  <2>1. Release(k) - now <= Longest[k]
    BY DEF HasSlots
  <2> QED
    BY <1>1, <1>3, <2>1
<1>5. D \in SUBSET Nat /\ D # {} /\ \A y \in D : y <= MaxDelay
  BY <1>1, <1>4
<1>6. Max(D) \in D /\ \A y \in D : y <= Max(D)
  <2> HIDE DEF D
  <2> QED
    BY <1>1, <1>5, Greatest
<1> DEFINE d == CHOOSE x \in D : \A e \in D : e <= x
<1>7. d \in D /\ \A e \in D : e <= d
  <2> HIDE DEF D
  <2> QED
    BY <1>6, Zenon
<1>8. AllowSecond(q, K) = (req[q].at + d) \div Second
  BY Zenon DEF AllowSecond
<1> HIDE DEF d
<1>9. Slowest(d, K)
  BY <1>7 DEF Slowest
<1>10. d \in 0 .. MaxDelay
  <2> HIDE DEF D
  <2> QED
    BY <1>1, <1>5, <1>7
<1> QED
  BY <1>3, <1>8, <1>9, <1>10

\* A request with one more tick.
LEMMA TickedParts ==
    ASSUME NEW q, NEW r, NEW o, NEW s, IsDeciding(req[q], q, now)
    PROVE  Ticked(q, r, o, s) =
               [pc |-> "deciding", at |-> req[q].at, todo |-> req[q].todo \ {r},
                ticks |-> Append(req[q].ticks, [rule |-> r, outcome |-> o, second |-> s])]
<1> DEFINE x  == req[q]
           y  == Ticked(q, r, o, s)
           k  == [rule |-> r, outcome |-> o, second |-> s]
           ts == x.ticks
           a  == x.at
           td == x.todo
<1>1. y = [x EXCEPT !.todo = @ \ {r}, !.ticks = Append(@, k)]
  BY DEF Ticked
<1>2. x = [pc |-> "deciding", at |-> a, todo |-> td, ticks |-> ts]
  BY DEF IsDeciding
<1> HIDE DEF k, y, x, a, td, ts
<1>3. y = [pc |-> "deciding", at |-> a, todo |-> td \ {r}, ticks |-> Append(ts, k)]
  BY <1>1, <1>2
<1> QED
  BY <1>3 DEF a, td, ts, k, y, x

\* It is one.
LEMMA TickedIs ==
    ASSUME Typed, NEW q \in Requests, NEW r \in Rules, At(q, r),
           NEW o \in Outcomes, NEW s \in Seconds
    PROVE  IsDeciding(Ticked(q, r, o, s), q, now)
<1> DEFINE x  == req[q]
           y  == Ticked(q, r, o, s)
           k  == [rule |-> r, outcome |-> o, second |-> s]
           ts == x.ticks
<1>1. /\ x = [pc |-> "deciding", at |-> x.at, todo |-> x.todo, ticks |-> x.ticks]
      /\ x.at \in 0 .. now /\ now <= x.at + MaxLag
      /\ x.todo \in SUBSET Matched[q] /\ ts \in Seq(Tick) /\ r \in x.todo
      /\ \A n \in 1 .. Len(ts) : ts[n].rule \in Matched[q] \ x.todo
      /\ \A m, n \in 1 .. Len(ts) : ts[m].rule = ts[n].rule => m = n
  BY DecidingIs DEF At, IsDeciding
<1>2. y = [pc |-> "deciding", at |-> x.at, todo |-> x.todo \ {r}, ticks |-> Append(ts, k)]
  BY TickedParts, DecidingIs DEF At
<1>3. k \in Tick /\ k.rule = r /\ k.second = s
  BY DEF Tick
<1> HIDE DEF k, x, y, ts
<1> DEFINE us == Append(ts, k)
<1>4. /\ us \in Seq(Tick) /\ Len(us) = Len(ts) + 1 /\ Len(ts) \in Nat
      /\ \A n \in 1 .. Len(ts) : us[n] = ts[n]
      /\ us[Len(ts) + 1] = k
  BY <1>1, <1>3
<1> HIDE DEF us
<1>5. \A n \in 1 .. Len(us) : n \in 1 .. Len(ts) \/ n = Len(ts) + 1
  BY <1>4
<1>6. \A n \in 1 .. Len(us) : us[n].rule \in Matched[q] \ (x.todo \ {r})
  <2> TAKE n \in 1 .. Len(us)
  <2>1. CASE n \in 1 .. Len(ts)
    BY <1>1, <1>4, <2>1
  <2>2. CASE n = Len(ts) + 1
    BY <1>1, <1>3, <1>4, <2>2
  <2> QED
    BY <1>5, <2>1, <2>2
<1>7. \A m, n \in 1 .. Len(us) : us[m].rule = us[n].rule => m = n
  <2>1. \A n \in 1 .. Len(ts) : us[n].rule # r
    BY <1>1, <1>4
  <2>2. us[Len(ts) + 1].rule = r
    BY <1>3, <1>4
  <2> TAKE m, n \in 1 .. Len(us)
  <2>3. CASE m \in 1 .. Len(ts) /\ n \in 1 .. Len(ts)
    BY <1>1, <1>4, <2>3
  <2>4. CASE m = Len(ts) + 1 \/ n = Len(ts) + 1
    BY <1>5, <2>1, <2>2, <2>4
  <2> QED
    BY <1>5, <2>3, <2>4
<1>8. /\ y.at = x.at /\ y.todo = x.todo \ {r} /\ y.ticks = us
      /\ y = [pc |-> "deciding", at |-> y.at, todo |-> y.todo, ticks |-> y.ticks]
  BY <1>2 DEF us
<1> QED
  BY <1>1, <1>4, <1>6, <1>7, <1>8 DEF IsDeciding, y

\* Time passes: what expires with it was doomed for all that is still shown.
LEMMA CoveredLater ==
    ASSUME NEW t \in Nat, t + 1 <= MaxNow, NEW ss, NEW rec \in Records, NEW er \in Records, NEW b \in Nat,
           Covered(ss, rec, er, b, t)
    PROVE  Covered(ss, rec, er, b, t + 1)
<1> DEFINE v == View(ss, t)
           w == View(ss, t + 1)
           X == {x \in Series : t + 1 > ss[x].expireAt}
<1>1. ss \in Store /\ CountsHold(v, rec, er, b, t) /\ AddsUp(v, er, b, t) /\ FarEmpty(v, er, t)
  BY DEF Covered
<1>2. v \in Store /\ w \in Store /\ t + 1 \in Nat
  BY <1>1, ViewStore
<1>3. \A x \in Series : ss[x].expireAt \in Nat
  BY <1>1 DEF Store
<1>4. /\ \A x \in X : w[x] = NoSeries
      /\ \A x \in Series \ X : w[x] = v[x]
  BY <1>3 DEF View
<1>5. /\ \A s \in Seconds : NoSeries.counts[s] = 0
      /\ \A s \in Seconds : LastShown(s) \in Nat /\ LastShown(s) < NoSeries.expireAt /\ NoSeries.expireAt \in Nat
  BY SecondFacts, Numbers DEF NoSeries, NoCounts
<1>6. ASSUME NEW x \in X, NEW s \in Seconds, t + 1 <= LastShown(s)
      PROVE  v[x] = NoSeries \/ v[x].expireAt < LastShown(s)
  <2>1. CASE t > ss[x].expireAt
    BY <2>1 DEF View
  <2>2. CASE ~(t > ss[x].expireAt)
    <3>1. v[x] = ss[x] /\ ss[x].expireAt < t + 1
      BY <1>3, <2>2 DEF View
    <3>2. LastShown(s) \in Nat /\ ss[x].expireAt \in Nat
      BY <1>3, <1>5
    <3> QED
      BY <1>6, <3>1, <3>2
  <2> QED
    BY <2>1, <2>2
<1>7. X \subseteq Series
  OBVIOUS
<1> HIDE DEF v, w, X
<1>8. CountsHold(w, rec, er, b, t + 1)
  <2> SUFFICES ASSUME NEW x \in Rules \X Outcomes, NEW s \in Seconds
               PROVE  CountHolds(w[x], s, rec[x][s], er[x][s], b, t + 1)
    BY DEF CountsHold
  <2>1. x \in Series /\ rec[x][s] \in Nat /\ er[x][s] \in Nat /\ LastShown(s) \in Nat
    BY <1>5, RuleSeries DEF Records
  <2>2. CountHolds(v[x], s, rec[x][s], er[x][s], b, t)
    BY <1>1 DEF CountsHold
  <2>3. CASE x \notin X
    BY <1>4, <2>1, <2>2, <2>3 DEF CountHolds
  <2>4. CASE x \in X
    <3>1. w[x].counts[s] = 0 /\ w[x].expireAt > LastShown(s)
      BY <1>4, <1>5, <2>4
    <3>2. t + 1 <= LastShown(s) => rec[x][s] <= er[x][s]
      <4> HAVE t + 1 <= LastShown(s)
      <4>1. t <= LastShown(s)
        BY <2>1
      <4>2. IF v[x].expireAt < LastShown(s) THEN rec[x][s] <= er[x][s]
                                             ELSE rec[x][s] <= v[x].counts[s] + er[x][s]
        BY <2>2, <4>1 DEF CountHolds
      <4>3. CASE v[x] = NoSeries
        BY <1>5, <2>1, <4>2, <4>3
      <4>4. CASE v[x].expireAt < LastShown(s)
        BY <4>2, <4>4
      <4> QED
        BY <1>6, <2>4, <4>3, <4>4
    <3> QED
      BY <1>5, <2>1, <3>1, <3>2 DEF CountHolds
  <2> QED
    BY <2>3, <2>4
<1>9. AddsUp(w, er, b, t + 1)
  <2> SUFFICES ASSUME NEW s \in Seconds, NEW o \in Outcomes, NEW E \in SUBSET Series,
                      er[<<All, o>>][s] = 0, t + 1 <= LastShown(s), Doomed(w, E, s)
               PROVE  Sums(w, E, s, o, b)
    BY DEF AddsUp
  <2> DEFINE Y == {x \in X : v[x].expireAt < LastShown(s)}
             G == E \cup Y
  <2>1. t <= LastShown(s) /\ LastShown(s) \in Nat
    BY <1>5
  <2>2. Doomed(v, G, s)
    <3> SUFFICES ASSUME NEW x \in E PROVE v[x].expireAt < LastShown(s)
      BY DEF Doomed
    <3>1. w[x].expireAt < LastShown(s) /\ x \in Series
      BY DEF Doomed
    <3>2. x \notin X
      BY <1>4, <1>5, <2>1, <3>1
    <3> QED
      BY <1>4, <3>1, <3>2
  <2>3. G \in SUBSET Series
    BY <1>7
  <2>4. Sums(v, G, s, o, b)
    BY <1>1, <2>1, <2>2, <2>3 DEF AddsUp
  <2>5. \A x \in Series : Remains(w, E, x, s) = Remains(v, G, x, s)
    <3> TAKE x \in Series
    <3>1. CASE x \in E
      BY <3>1 DEF Remains
    <3>2. ASSUME x \notin E, x \notin X PROVE Remains(w, E, x, s) = Remains(v, G, x, s)
      BY <1>4, <3>2 DEF Remains
    <3>3. ASSUME x \notin E, x \in X PROVE Remains(w, E, x, s) = Remains(v, G, x, s)
      <4>1. Remains(w, E, x, s) = 0
        BY <1>4, <1>5, <3>3 DEF Remains
      <4>2. x \in Y \/ v[x] = NoSeries
        BY <1>6, <3>3
      <4>3. Remains(v, G, x, s) = 0
        BY <1>5, <4>2 DEF Remains
      <4> QED
        BY <4>1, <4>3
    <3> QED
      BY <3>1, <3>2, <3>3
  <2> HIDE DEF G
  <2>6. Counts(w, E, s, o) = Counts(v, G, s, o)
    <3>1. \A r \in Rules : Remains(w, E, <<r, o>>, s) = Remains(v, G, <<r, o>>, s)
      BY <2>5 DEF Series
    <3> QED
      BY <3>1 DEF Counts
  <2>7. Remains(w, E, <<All, o>>, s) = Remains(v, G, <<All, o>>, s)
    BY <2>5 DEF Series
  <2> QED
    BY <2>4, <2>6, <2>7 DEF Sums
<1>10. FarEmpty(w, er, t + 1)
  <2> SUFFICES ASSUME NEW i \in Rules \cup {All}, NEW o \in Outcomes, NEW s \in Seconds,
                      Far(s, t + 1), er[<<All, o>>][s] = 0
               PROVE  w[<<i, o>>].counts[s] = 0
    BY DEF FarEmpty
  <2>1. Far(s, t)
    BY SecondFacts, Numbers DEF Far
  <2>2. v[<<i, o>>].counts[s] = 0 /\ <<i, o>> \in Series
    BY <1>1, <2>1 DEF FarEmpty, Series
  <2> QED
    BY <1>4, <1>5, <2>2
<1> QED
  BY <1>1, <1>8, <1>9, <1>10 DEF Covered, w

\* More that was sent too early excuses more.
Excuses(er2, er) == \A x \in Series, s \in Seconds : er[x][s] <= er2[x][s]
LEMMA CoveredLoose ==
    ASSUME NEW t, NEW ss, NEW rec \in Records, NEW er \in Records, NEW er2 \in Records,
           Excuses(er2, er), NEW b \in Nat, t \in Nat, Covered(ss, rec, er, b, t)
    PROVE  Covered(ss, rec, er2, b, t)
<1> DEFINE v == View(ss, t)
<1>1. ss \in Store /\ CountsHold(v, rec, er, b, t) /\ AddsUp(v, er, b, t) /\ FarEmpty(v, er, t)
  BY DEF Covered
<1>2. v \in Store
  BY <1>1, ViewStore
<1>3. \A x \in Series, s \in Seconds :
          er[x][s] \in Nat /\ er2[x][s] \in Nat /\ er[x][s] <= er2[x][s]
  BY DEF Records, Excuses
<1>4. \A o \in Outcomes, s \in Seconds : er2[<<All, o>>][s] = 0 => er[<<All, o>>][s] = 0
  <2> TAKE o \in Outcomes, s \in Seconds
  <2>1. <<All, o>> \in Series
    BY DEF Series
  <2> QED
    BY <1>3, <2>1
<1> HIDE DEF v
<1>5. CountsHold(v, rec, er2, b, t)
  <2> SUFFICES ASSUME NEW x \in Rules \X Outcomes, NEW s \in Seconds
               PROVE  CountHolds(v[x], s, rec[x][s], er2[x][s], b, t)
    BY DEF CountsHold
  <2>1. CountHolds(v[x], s, rec[x][s], er[x][s], b, t)
    BY <1>1 DEF CountsHold
  <2> DEFINE n == v[x].counts[s]
             r == rec[x][s]
             e1 == er[x][s]
             e2 == er2[x][s]
  <2>2. n \in Nat /\ r \in Nat /\ e1 \in Nat /\ e2 \in Nat /\ e1 <= e2
    BY <1>2, <1>3, RuleSeries DEF Store, Records
  <2>3. n <= r + b /\ (t <= LastShown(s) => IF v[x].expireAt < LastShown(s) THEN r <= e1 ELSE r <= n + e1)
    BY <2>1 DEF CountHolds
  <2> HIDE DEF n, r, e1, e2
  <2>4. n <= r + b /\ (t <= LastShown(s) => IF v[x].expireAt < LastShown(s) THEN r <= e2 ELSE r <= n + e2)
    BY <2>2, <2>3
  <2> QED
    BY <2>4 DEF CountHolds, n, r, e2
<1>6. AddsUp(v, er2, b, t)
  BY <1>1, <1>4 DEF AddsUp
<1>7. FarEmpty(v, er2, t)
  BY <1>1, <1>4 DEF FarEmpty
<1> QED
  BY <1>1, <1>5, <1>6, <1>7 DEF Covered, v

\* What a pipeline leaves to be sent too early is what Sent says.
LEMMA SentForesees ==
    ASSUME Curves, NEW q \in Requests, req[q].pc = "deciding", Sent(q)
    PROVE  Foreseen(q, early') /\ Covered(series, recorded, early', breaks, now)
<1> DEFINE er == early'
<1>1. Typed /\ FarZero(recorded, early, now) /\ Covered(series, recorded, early, breaks, now)
  BY DEF Curves
<1>2. /\ early \in Records /\ recorded \in Records /\ breaks \in Nat /\ now \in Nat
      /\ \A x \in Series, s \in Seconds : early[x][s] \in Nat /\ Ticks(q, x, s) \in Nat
  BY <1>1, TicksIs DEF Typed, Records
<1>3. er = [x \in Series |-> [s \in Seconds |->
               early[x][s] + (IF Far(s, now) THEN Ticks(q, x, s) ELSE 0)]]
  BY DEF Sent, TooEarly, Far
<1> HIDE DEF er
<1>4. \A x \in Series, s \in Seconds :
          /\ er[x][s] = early[x][s] + (IF Far(s, now) THEN Ticks(q, x, s) ELSE 0)
          /\ er[x][s] \in Nat /\ early[x][s] <= er[x][s]
  BY <1>2, <1>3
<1>5. er \in Records /\ Excuses(er, early)
  <2>1. er = [x \in Series |-> [s \in Seconds |-> er[x][s]]]
    BY <1>3
  <2> QED
    BY <1>4, <2>1 DEF Records, Excuses
<1>6. Covered(series, recorded, er, breaks, now)
  BY <1>1, <1>2, <1>5, CoveredLoose
<1>7. ASSUME NEW n \in 1 .. Len(req[q].ticks), Far(req[q].ticks[n].second, now)
      PROVE  er[<<All, req[q].ticks[n].outcome>>][req[q].ticks[n].second] # 0
  <2> DEFINE k == req[q].ticks[n]
  <2>1. k \in Tick
    <3>1. req[q].ticks \in Seq(Tick)
      BY <1>1, DecidingIs DEF IsDeciding
    <3> QED
      BY <3>1
  <2>2. k.second \in Seconds /\ <<All, k.outcome>> \in Series
    BY <2>1 DEF Tick, Series
  <2>3. Ticks(q, <<All, k.outcome>>, k.second) # 0
    BY <1>1, <2>2, TicksIs
  <2>4. Far(k.second, now)
    BY <1>7
  <2> HIDE DEF k
  <2>5. er[<<All, k.outcome>>][k.second] # 0
    BY <1>2, <1>4, <2>2, <2>3, <2>4
  <2> QED
    BY <2>5 DEF k
<1>8. ASSUME NEW x \in Rules \X Outcomes, NEW s \in Seconds, Far(s, now)
      PROVE  recorded[x][s] + Ticks(q, x, s) <= er[x][s]
  <2>1. x \in Series /\ recorded[x][s] <= early[x][s]
    BY <1>1, <1>8, RuleSeries DEF FarZero
  <2>2. er[x][s] = early[x][s] + Ticks(q, x, s)
    BY <1>4, <1>8, <2>1
  <2>3. recorded[x][s] \in Nat /\ early[x][s] \in Nat /\ Ticks(q, x, s) \in Nat
    BY <1>2, <2>1 DEF Records
  <2> QED
    BY <2>1, <2>2, <2>3
<1>9. Foreseen(q, er)
  BY <1>5, <1>7, <1>8 DEF Foreseen, Warned
<1> QED
  BY <1>6, <1>9 DEF er

\* The invariant holds at first.
LEMMA CurvesInit == Init => Curves
<1> SUFFICES ASSUME Init PROVE Curves
  OBVIOUS
<1> USE DEF Init
<1>1. NoSeries \in [counts : [Seconds -> Nat], expireAt : Nat] /\ MaxNow \in Nat /\ Never \in Nat
  BY Numbers DEF NoSeries, NoCounts
<1>2. series \in Store
  BY <1>1 DEF Store
<1>3. Typed
  <2>1. \A q \in Requests : IsRequest(req[q], q, now)
    BY DEF IsRequest
  <2>2. recorded \in Records /\ early \in Records
    BY DEF Records, NoCounts
  <2>3. \A r \in Rules : IsLog(log[r])
    BY <1>1 DEF IsLog
  <2>4. released \in [Keys -> Nat]
    OBVIOUS
  <2> QED
    BY <1>1, <1>2, <2>1, <2>2, <2>3, <2>4 DEF Typed
<1>4. \A x \in Rules \X Outcomes, s \in Seconds : recorded[x][s] = 0 /\ early[x][s] = 0
  BY RuleSeries DEF NoCounts
<1> DEFINE v == View(series, now)
<1>5. \A x \in Series : v[x] = NoSeries
  BY DEF View
<1>6. v \in Store
  BY <1>2, ViewStore
<1>7. /\ \A s \in Seconds : NoSeries.counts[s] = 0
      /\ \A s \in Seconds : LastShown(s) \in Nat /\ LastShown(s) < NoSeries.expireAt /\ NoSeries.expireAt \in Nat
  BY SecondFacts, Numbers DEF NoSeries, NoCounts
<1> HIDE DEF v
<1>8. CountsHold(v, recorded, early, breaks, now)
  <2> SUFFICES ASSUME NEW x \in Rules \X Outcomes, NEW s \in Seconds
               PROVE  CountHolds(v[x], s, recorded[x][s], early[x][s], breaks, now)
    BY DEF CountsHold
  <2>1. x \in Series
    BY RuleSeries
  <2> QED
    BY <1>4, <1>5, <1>7, <2>1 DEF CountHolds
<1>9. AddsUp(v, early, breaks, now)
  <2> SUFFICES ASSUME NEW s \in Seconds, NEW o \in Outcomes, NEW E \in SUBSET Series
               PROVE  Sums(v, E, s, o, breaks)
    BY DEF AddsUp
  <2>1. \A i \in Rules \cup {All} : v[<<i, o>>].counts[s] = 0
    BY <1>5, <1>7 DEF Series
  <2> QED
    BY <1>6, <2>1, NothingAddsUp
<1>10. FarEmpty(v, early, now)
  BY <1>5, <1>7 DEF FarEmpty, Series
<1>11. FarZero(recorded, early, now)
  BY <1>4 DEF FarZero
<1> QED
  BY <1>2, <1>3, <1>8, <1>9, <1>10, <1>11 DEF Curves, Covered, v

\* A request that is not the one a step is about is still one.
LEMMA OthersStay ==
    ASSUME Typed, NEW q \in Requests, NEW y, IsRequest(y, q, now), now' = now,
           req' = [req EXCEPT ![q] = y]
    PROVE  DOMAIN req' = Requests /\ \A p \in Requests : IsRequest(req'[p], p, now')
  BY DEF Typed

\* Time passes.
LEMMA CurvesAdvance == Curves /\ Advance => Curves'
<1> SUFFICES ASSUME Curves, Advance PROVE Curves'
  OBVIOUS
<1>1. /\ now' = now + 1 /\ now \in Nat /\ now + 1 <= MaxNow /\ now' \in 0 .. MaxNow
      /\ UNCHANGED <<req, released, series, log, recorded, early, breaks>>
  BY Numbers DEF Curves, Typed, Advance
<1>2. Typed /\ Covered(series, recorded, early, breaks, now) /\ FarZero(recorded, early, now)
  BY DEF Curves
<1>3. \A s \in Seconds : Far(s, now + 1) => Far(s, now)
  BY <1>1, SecondFacts, Numbers DEF Far
<1>4. ASSUME NEW q \in Requests PROVE IsRequest(req[q], q, now + 1)
  <2>1. ASSUME IsDeciding(req[q], q, now) PROVE IsDeciding(req[q], q, now + 1)
    <3> DEFINE x == req[q]
    <3>1. /\ x = [pc |-> "deciding", at |-> x.at, todo |-> x.todo, ticks |-> x.ticks]
          /\ x.at \in 0 .. now /\ x.todo \in SUBSET Matched[q] /\ x.ticks \in Seq(Tick)
          /\ \A n \in 1 .. Len(x.ticks) : x.ticks[n].rule \in Matched[q] \ x.todo
          /\ \A m, n \in 1 .. Len(x.ticks) : x.ticks[m].rule = x.ticks[n].rule => m = n
      BY <2>1 DEF IsDeciding
    <3>2. x.pc = "deciding"
      BY <3>1
    <3>3. now < x.at + MaxLag /\ MaxLag \in Nat
      BY <3>2, Numbers DEF Advance
    <3> HIDE DEF x
    <3>4. x.at \in 0 .. now + 1 /\ now + 1 <= x.at + MaxLag
      BY <1>1, <3>1, <3>3
    <3> QED
      BY <3>1, <3>4 DEF IsDeciding, x
  <2> QED
    BY <1>2, <2>1 DEF Typed, IsRequest
<1>5. Typed'
  BY <1>1, <1>2, <1>4 DEF Typed
<1>6. Covered(series, recorded, early, breaks, now + 1)
  BY <1>1, <1>2, CoveredLater DEF Typed
<1>7. FarZero(recorded, early, now + 1)
  BY <1>2, <1>3 DEF FarZero
<1> QED
  BY <1>1, <1>5, <1>6, <1>7 DEF Curves

\* A request begins.
LEMMA CurvesBegin ==
    ASSUME Curves, NEW q \in Requests, Begin(q)
    PROVE  Curves'
<1> DEFINE y == [pc |-> "deciding", at |-> now, todo |-> Matched[q], ticks |-> <<>>]
<1>1. /\ req' = [req EXCEPT ![q] = y]
      /\ UNCHANGED <<now, released, series, log, recorded, early, breaks>>
  BY DEF Begin
<1>2. Typed /\ now \in Nat /\ MaxLag \in Nat
  BY Numbers DEF Curves, Typed
<1>3. IsRequest(y, q, now)
  <2>1. /\ y.at = now /\ y.todo = Matched[q] /\ y.ticks = <<>> /\ Len(y.ticks) = 0
        /\ y.ticks \in Seq(Tick)
    OBVIOUS
  <2> QED
    BY <1>2, <2>1 DEF IsRequest, IsDeciding
<1> HIDE DEF y
<1>4. DOMAIN req' = Requests /\ \A p \in Requests : IsRequest(req'[p], p, now')
  BY <1>1, <1>2, <1>3, OthersStay
<1>5. Typed'
  BY <1>1, <1>2, <1>4 DEF Typed
<1> QED
  BY <1>1, <1>5 DEF Curves

\* A rule admits.
LEMMA CurvesAdmit ==
    ASSUME Curves, NEW q \in Requests, NEW r \in Rules, Admit(q, r)
    PROVE  Curves'
<1> DEFINE K == LevelKeys[q][r]
           s == AllowSecond(q, K)
           y == Ticked(q, r, "allow", s)
<1>1. /\ At(q, r) /\ HasSlots(K)
      /\ released' = [k \in Keys |-> IF k \in K THEN Release(k) ELSE released[k]]
      /\ req' = [req EXCEPT ![q] = y]
      /\ UNCHANGED <<now, series, log, recorded, early, breaks>>
  BY DEF Admit
<1>2. Typed /\ IsDeciding(req[q], q, now)
  BY <1>1, DecidingIs DEF Curves, At
<1>3. K \in SUBSET Keys
  BY StatsAssumption
<1> HIDE DEF K, y
<1>4. PICK d \in 0 .. MaxDelay : s = (req[q].at + d) \div Second
  BY <1>1, <1>2, <1>3, AllowSecondIs
<1> DEFINE at == req[q].at
<1>5. now \in 0 .. MaxNow /\ at \in 0 .. now /\ MaxDelay \in Nat
  BY <1>2, Numbers DEF Typed, IsDeciding
<1> HIDE DEF at, s
<1>6. at + d \in Nat /\ at + d <= now + MaxDelay /\ s = (at + d) \div Second
  BY <1>4, <1>5 DEF at
<1>7. s \in Seconds
  <2> DEFINE x == at + d
  <2>1. x \in Nat /\ x <= now + MaxDelay /\ s = x \div Second
    BY <1>6
  <2> HIDE DEF x
  <2> QED
    BY <1>5, <2>1, SecondOf
<1>8. IsRequest(y, q, now)
  <2>1. "allow" \in Outcomes
    BY DEF Outcomes
  <2>2. IsDeciding(Ticked(q, r, "allow", s), q, now)
    BY <1>1, <1>2, <1>7, <2>1, TickedIs
  <2> QED
    BY <2>2 DEF IsRequest, y
<1>9. DOMAIN req' = Requests /\ \A p \in Requests : IsRequest(req'[p], p, now')
  BY <1>1, <1>2, <1>8, OthersStay
<1>10. released' \in [Keys -> Nat]
  BY <1>1, <1>2, <1>3, AllowSecondIs DEF Typed
<1>11. Typed'
  BY <1>1, <1>2, <1>9, <1>10 DEF Typed
<1> QED
  BY <1>1, <1>11 DEF Curves

\* A rule refuses.
LEMMA CurvesRefuse ==
    ASSUME Curves, NEW q \in Requests, NEW r \in Rules, Refuse(q, r)
    PROVE  Curves'
<1> DEFINE at == req[q].at
           s == at \div Second
           y == Ticked(q, r, "deny", s)
<1>1. /\ At(q, r) /\ log' = [log EXCEPT ![r] = Pushed(q, r)]
      /\ req' = [req EXCEPT ![q] = y]
      /\ UNCHANGED <<now, released, series, recorded, early, breaks>>
  BY DEF Refuse
<1>2. Typed /\ IsDeciding(req[q], q, now)
  BY <1>1, DecidingIs DEF Curves, At
<1>3. now \in 0 .. MaxNow /\ at \in 0 .. now /\ MaxDelay \in Nat /\ Retention \in Nat /\ now \in Nat
  BY <1>2, Numbers DEF Typed, IsDeciding
<1>4. s \in Seconds
  <2> HIDE DEF at
  <2>1. at \in Nat /\ at <= now + MaxDelay
    BY <1>3
  <2> QED
    BY <1>3, <2>1, SecondOf
<1> HIDE DEF s
<1>5. IsRequest(y, q, now)
  <2>1. "deny" \in Outcomes
    BY DEF Outcomes
  <2>2. IsDeciding(Ticked(q, r, "deny", s), q, now)
    BY <1>1, <1>2, <1>4, <2>1, TickedIs
  <2> QED
    BY <2>2 DEF IsRequest, y
<1> HIDE DEF y
<1>6. DOMAIN req' = Requests /\ \A p \in Requests : IsRequest(req'[p], p, now')
  BY <1>1, <1>2, <1>5, OthersStay
<1>7. IsLog(Pushed(q, r))
  <2> DEFINE T == [by : Requests, at : Nat]
             e == <<[by |-> q, at |-> at]>>
             z == e \o Events(r)
  <2>1. log[r] \in [events : Seq(T), expireAt : Nat]
    BY <1>2 DEF Typed, IsLog
  <2>2. Events(r) \in Seq(T)
    BY <2>1 DEF Events
  <2>3. e \in Seq(T)
    <3>1. [by |-> q, at |-> at] \in T
      BY <1>3
    <3> HIDE DEF T
    <3> QED
      BY <3>1
  <2>4. z \in Seq(T)
    <3> HIDE DEF T, e
    <3> QED
      BY <2>2, <2>3
  <2>5. Trimmed(z) \in Seq(T)
    <3> HIDE DEF T, z
    <3>1. LogLen \in Nat \ {0}
      BY StatsAssumption
    <3>2. ASSUME Len(z) > LogLen PROVE SubSeq(z, 1, LogLen) \in Seq(T)
      <4>1. Len(z) \in Nat /\ \A i \in 1 .. LogLen : i \in 1 .. Len(z)
        BY <2>4, <3>1, <3>2
      <4> QED
        BY <2>4, <3>1, <4>1
    <3> QED
      BY <2>4, <3>2 DEF Trimmed
  <2>6. Pushed(q, r) = [events |-> Trimmed(z), expireAt |-> now + Retention]
    BY DEF Pushed
  <2> HIDE DEF z, T
  <2> QED
    BY <1>3, <2>5, <2>6 DEF IsLog, T
<1>8. DOMAIN log' = Rules /\ \A p \in Rules : IsLog(log'[p])
  BY <1>1, <1>2, <1>7 DEF Typed
<1>9. Typed'
  BY <1>1, <1>2, <1>6, <1>8 DEF Typed
<1> QED
  BY <1>1, <1>9 DEF Curves

\* A pipeline is executed.
LEMMA CurvesRecord ==
    ASSUME Curves, NEW q \in Requests, Record(q)
    PROVE  Curves'
<1> DEFINE rec == [x \in Series |-> [s \in Seconds |-> recorded[x][s] + Ticks(q, x, s)]]
           y == [pc |-> "done"]
<1>1. /\ req[q].pc = "deciding" /\ series' = After(Pipeline(q)) /\ recorded' = rec /\ Sent(q)
      /\ req' = [req EXCEPT ![q] = y]
      /\ UNCHANGED <<now, released, log, breaks>>
  BY DEF Record, Ready
<1>2. Typed /\ Foreseen(q, early') /\ Covered(series, recorded, early', breaks, now)
  BY <1>1, SentForesees DEF Curves
<1>3. /\ rec \in Records /\ Covered(After(Pipeline(q)), rec, early', breaks, now)
      /\ FarZero(rec, early', now) /\ early' \in Records
  BY <1>1, <1>2, PipelineDone DEF Foreseen
<1>4. DOMAIN req' = Requests /\ \A p \in Requests : IsRequest(req'[p], p, now')
  <2>1. IsRequest(y, q, now)
    BY DEF IsRequest
  <2> QED
    BY <1>1, <1>2, <2>1, OthersStay
<1> HIDE DEF rec
<1>5. Typed'
  BY <1>1, <1>2, <1>3, <1>4 DEF Typed, Covered
<1> QED
  BY <1>1, <1>3, <1>5 DEF Curves

\* A pipeline breaks.
LEMMA CurvesBreak ==
    ASSUME Curves, NEW q \in Requests, NEW n \in Nat, SendAgain(q, n) \/ GiveUp(q, n)
    PROVE  Curves'
<1> DEFINE y == [pc |-> "done"]
<1>1. /\ req[q].pc = "deciding" /\ n <= Len(Pipeline(q))
      /\ series' = After(SubSeq(Pipeline(q), 1, n)) /\ breaks' = breaks + 1 /\ Sent(q)
      /\ UNCHANGED <<now, released, log, recorded>>
      /\ req' = req \/ req' = [req EXCEPT ![q] = y]
  BY DEF SendAgain, GiveUp, Break, Ready
<1>2. Typed /\ Foreseen(q, early') /\ Covered(series, recorded, early', breaks, now)
  BY <1>1, SentForesees DEF Curves
<1>3. n \in 0 .. Len(Pipeline(q))
  <2>1. Len(Pipeline(q)) \in Nat
    BY <1>1, <1>2, PipelineFours
  <2> QED
    BY <1>1, <2>1
<1>4. /\ Covered(After(SubSeq(Pipeline(q), 1, n)), recorded, early', breaks + 1, now)
      /\ FarZero(recorded, early', now) /\ early' \in Records
  <2>1. Len(req[q].ticks) \in Nat
    BY <1>1, <1>2, DecidingIs DEF IsDeciding
  <2> QED
    <3>1. Covered(After(SubSeq(Pipeline(q), 1, n)), recorded, early', breaks + 1, now)
      BY <1>1, <1>2, <1>3, PipelineCut
    <3>2. FarZero(recorded, early', now)
      BY <1>1, <1>2, <2>1, AnsweredNear
    <3> QED
      BY <1>2, <3>1, <3>2 DEF Foreseen
<1>5. DOMAIN req' = Requests /\ \A p \in Requests : IsRequest(req'[p], p, now')
  <2>1. IsRequest(y, q, now)
    BY DEF IsRequest
  <2>2. CASE req' = req
    BY <1>1, <1>2, <2>2 DEF Typed
  <2>3. CASE req' = [req EXCEPT ![q] = y]
    BY <1>1, <1>2, <2>1, <2>3, OthersStay
  <2> QED
    BY <1>1, <2>2, <2>3
<1>6. Typed'
  BY <1>1, <1>2, <1>4, <1>5 DEF Typed, Covered
<1> QED
  BY <1>1, <1>2, <1>4, <1>6 DEF Curves

\* Every step keeps the invariant.
LEMMA CurvesStep == Curves /\ [Next]_vars => Curves'
<1> SUFFICES ASSUME Curves, [Next]_vars PROVE Curves'
  OBVIOUS
<1>1. CASE UNCHANGED vars
  BY <1>1 DEF vars, Curves, Typed
<1>2. CASE Advance
  BY <1>2, CurvesAdvance
<1>3. ASSUME NEW q \in Requests, Begin(q) PROVE Curves'
  BY <1>3, CurvesBegin
<1>4. ASSUME NEW q \in Requests, Record(q) PROVE Curves'
  BY <1>4, CurvesRecord
<1>5. ASSUME NEW q \in Requests, NEW r \in Rules, Admit(q, r) PROVE Curves'
  BY <1>5, CurvesAdmit
<1>6. ASSUME NEW q \in Requests, NEW r \in Rules, Refuse(q, r) PROVE Curves'
  BY <1>6, CurvesRefuse
<1>7. ASSUME NEW q \in Requests, NEW n \in 0 .. 4 * Cardinality(Rules), SendAgain(q, n) \/ GiveUp(q, n)
      PROVE  Curves'
  <2>1. n \in Nat
    BY Numbers, FS_CardinalityType
  <2> QED
    BY <1>7, <2>1, CurvesBreak
<1> QED
  BY <1>1, <1>2, <1>3, <1>4, <1>5, <1>6, <1>7 DEF Next

\* It always holds.
LEMMA AlwaysCurves == Spec => []Curves
  BY CurvesInit, CurvesStep, PTL DEF Spec

-----------------------------------------------------------------------------
(***************************************************************************)
(* The curves.                                                             *)
(***************************************************************************)
\* The seconds of a curve.
Points(n) == {s \in Seconds : now \div Second - n < s /\ s <= now \div Second}

\* A curve of at most the longest length reaches back to seconds that have not left
\* it, and shows what is found.
LEMMA CurveIs ==
    ASSUME Typed, NEW id \in Rules \cup {All}, NEW n \in 1 .. MaxSeconds
    PROVE  /\ DOMAIN TimeSeries(id, n) = Points(n)
           /\ \A s \in Points(n) :
                  /\ s \in Seconds /\ now <= LastShown(s)
                  /\ \A o \in Outcomes :
                         TimeSeries(id, n)[s][o] = View(series, now)[<<id, o>>].counts[s]
<1> DEFINE today == now \div Second
<1>1. /\ Second \in Nat \ {0} /\ MaxSeconds \in Nat \ {0} /\ now \in Nat
      /\ n \in Nat /\ n <= MaxSeconds
  BY Numbers DEF Typed
<1>2. today \in Nat /\ now < today * Second + Second /\ today * Second \in Nat
  BY <1>1, WindowFacts, Products DEF WindowStart
<1> HIDE DEF today
<1>3. ASSUME NEW s \in Seconds, today - n < s, s <= today PROVE now <= LastShown(s)
  <2>1. s \in Nat /\ LastShown(s) \in Nat
    BY <1>1, SecondFacts
  <2>2. today + 1 <= s + MaxSeconds /\ today + 1 \in Nat /\ s + MaxSeconds \in Nat
    BY <1>1, <1>2, <1>3, <2>1
  <2>3. (today + 1) * Second <= (s + MaxSeconds) * Second
    BY <1>1, <2>2, Products
  <2>4. (today + 1) * Second = today * Second + Second
    BY <1>1, <1>2, NatProducts
  <2>5. (s + MaxSeconds) * Second = LastShown(s) + 1
    <3>1. (s + MaxSeconds) * Second \in Nat
      BY <1>1, <2>1, Products
    <3> QED
      BY <3>1 DEF LastShown
  <2> QED
    BY <1>1, <1>2, <2>1, <2>3, <2>4, <2>5
<1>4. TimeSeries(id, n) = [s \in Points(n) |-> [o \in Outcomes |-> Found(series, <<id, o>>).counts[s]]]
  BY DEF TimeSeries, Points
<1>5. \A o \in Outcomes : /\ <<id, o>> \in Series
                          /\ View(series, now)[<<id, o>>] = Found(series, <<id, o>>)
  BY DEF Series, View, Found
<1>6. \A s \in Points(n) : s \in Seconds /\ now <= LastShown(s)
  BY <1>3 DEF Points, today
<1> QED
  BY <1>4, <1>5, <1>6

\* A curve has at least one second and at most those of the longest.
LEMMA ClampedIs ==
    ASSUME NEW n \in {0, MaxSeconds}
    PROVE  Clamped(n) \in 1 .. MaxSeconds
<1>1. MaxSeconds \in Nat \ {0}
  BY Numbers
<1> QED
  BY <1>1 DEF Clamped, Smaller

\* What is found while the invariant holds.
LEMMA CurvesShow ==
    ASSUME Curves, NEW x \in Rules \X Outcomes, NEW s \in Seconds, now <= LastShown(s)
    PROVE  View(series, now)[x].counts[s]
               \in recorded[x][s] - early[x][s] .. recorded[x][s] + breaks
<1>1. CountHolds(View(series, now)[x], s, recorded[x][s], early[x][s], breaks, now)
  BY DEF Curves, Covered, CountsHold
<1>2. x \in Series /\ recorded[x][s] \in Nat /\ early[x][s] \in Nat /\ breaks \in Nat
  BY RuleSeries DEF Curves, Typed, Records
<1>3. View(series, now)[x].counts[s] \in Nat
  <2>1. now \in Nat /\ series \in Store
    BY Numbers DEF Curves, Typed
  <2>2. View(series, now) \in Store
    BY <2>1, ViewStore
  <2> QED
    BY <1>2, <2>2 DEF Store
<1> DEFINE c == View(series, now)[x].counts[s]
<1>4. c <= recorded[x][s] + breaks /\ (recorded[x][s] <= early[x][s] \/ recorded[x][s] <= c + early[x][s])
  BY <1>1 DEF CountHolds
<1> HIDE DEF c
<1>5. c \in Nat
  BY <1>3 DEF c
<1>6. c \in recorded[x][s] - early[x][s] .. recorded[x][s] + breaks
  BY <1>2, <1>4, <1>5
<1> QED
  BY <1>6 DEF c

\* The curves show every decision that was answered, in its second, for as long as
\* they reach back, but for ticks that were sent too early, and nothing else but what
\* broken pipelines have left.
THEOREM StatsCurveComplete == Spec => []CurveComplete
<1>1. Curves => CurveComplete
  <2> SUFFICES ASSUME Curves, NEW r \in Rules, NEW seconds \in {0, MaxSeconds},
                      NEW s \in DOMAIN TimeSeries(r, Clamped(seconds)), NEW o \in Outcomes
               PROVE  TimeSeries(r, Clamped(seconds))[s][o]
                          \in recorded[<<r, o>>][s] - early[<<r, o>>][s]
                                  .. recorded[<<r, o>>][s] + breaks
    BY DEF CurveComplete
  <2>1. Typed /\ Clamped(seconds) \in 1 .. MaxSeconds /\ r \in Rules \cup {All}
    BY ClampedIs DEF Curves
  <2>2. /\ s \in Seconds /\ now <= LastShown(s)
        /\ TimeSeries(r, Clamped(seconds))[s][o] = View(series, now)[<<r, o>>].counts[s]
    BY <2>1, CurveIs
  <2>3. <<r, o>> \in Rules \X Outcomes
    OBVIOUS
  <2> QED
    BY <2>2, <2>3, CurvesShow
<1> QED
  BY <1>1, AlwaysCurves, PTL

\* In a second for which no tick was sent too early, the curve of all rules is the sum
\* of theirs, but for one tick of each pipeline that broke.
THEOREM StatsAllIsSum == Spec => []AllIsSum
<1>1. Curves => AllIsSum
  <2> SUFFICES ASSUME Curves, NEW s \in DOMAIN TimeSeries(All, MaxSeconds), NEW o \in Outcomes,
                      early[<<All, o>>][s] = 0
               PROVE  SumFunction([r \in Rules |->
                          [q \in Rules |-> TimeSeries(q, MaxSeconds)][r][s][o]])
                              - TimeSeries(All, MaxSeconds)[s][o] \in -breaks .. breaks
    BY DEF AllIsSum
  <2> DEFINE v == View(series, now)
  <2>1. Typed /\ MaxSeconds \in 1 .. MaxSeconds /\ MaxSeconds \in Nat
    BY Numbers DEF Curves
  <2>2. s \in Points(MaxSeconds)
    BY <2>1, CurveIs
  <2>3. s \in Seconds /\ now <= LastShown(s) /\ TimeSeries(All, MaxSeconds)[s][o] = v[<<All, o>>].counts[s]
    BY <2>1, <2>2, CurveIs
  <2>4. \A r \in Rules : TimeSeries(r, MaxSeconds)[s][o] = v[<<r, o>>].counts[s]
    BY <2>1, <2>2, CurveIs
  <2>5. AddsUp(v, early, breaks, now)
    BY DEF Curves, Covered
  <2> HIDE DEF v
  <2>6. Sums(v, {}, s, o, breaks)
    BY <2>3, <2>5 DEF AddsUp, Doomed
  <2>7. [r \in Rules |-> [q \in Rules |-> TimeSeries(q, MaxSeconds)][r][s][o]] = Counts(v, {}, s, o)
    BY <2>4 DEF Counts, Remains
  <2>8. Remains(v, {}, <<All, o>>, s) = TimeSeries(All, MaxSeconds)[s][o]
    BY <2>3 DEF Remains
  <2> QED
    BY <2>6, <2>7, <2>8 DEF Sums
<1> QED
  BY <1>1, AlwaysCurves, PTL

-----------------------------------------------------------------------------
(***************************************************************************)
(* The curve of a leaky bucket.  What a rule has admitted in a second, and *)
(* what waits in a pipeline to be counted there, its keys have released:   *)
(* an admission is counted in the second of its slowest release, which     *)
(* raises the last release of that key by its pace.                        *)
(***************************************************************************)
\* The requests rq whose admission by r is still to be counted in the second s.
Waiting(x, r, s) ==
    /\ x.pc = "deciding"
    /\ \E n \in 1 .. Len(x.ticks) :
           x.ticks[n] = [rule |-> r, outcome |-> "allow", second |-> s]
Pending(rq, r, s) == {q \in Requests : Waiting(rq[q], r, s)}

\* The most a key releases in a second and the time a request may lag.
Most(k) == CeilDiv(Second + MaxLag, Pace[k])

\* The releases of the key k that may be counted in the second s, if the last was at t.
Releases(k, s, t) ==
    IF t < s * Second THEN 0
    ELSE Smaller(CeilDiv(t - s * Second + 1, Pace[k]), Most(k))
Total(rel, r, s) == SumFunction([k \in KeysOf(r) |-> Releases(k, s, rel[k])])

\* This is so of a leaky bucket r in a second s.
SmoothAt(rec, rq, rel, r, s) ==
    rec[<<r, "allow">>][s] + Cardinality(Pending(rq, r, s)) <= Total(rel, r, s)
Smooth(rec, rq, rel) ==
    \A r \in Rules, s \in Seconds : KeysOf(r) # {} => SmoothAt(rec, rq, rel, r, s)

\* The keys of a rule.
LEMMA KeyFacts ==
    ASSUME NEW r \in Rules
    PROVE  /\ KeysOf(r) \in SUBSET Keys /\ IsFiniteSet(KeysOf(r))
           /\ \A q \in Requests : LevelKeys[q][r] \in SUBSET KeysOf(r)
           /\ \A q \in Requests : r \in Matched[q] /\ KeysOf(r) # {} => LevelKeys[q][r] # {}
<1>1. KeysOf(r) \in SUBSET Keys /\ IsFiniteSet(Keys)
  BY StatsAssumption DEF KeysOf
<1>2. IsFiniteSet(KeysOf(r))
  BY <1>1, FS_Subset
<1>3. \A q \in Requests : LevelKeys[q][r] \in SUBSET KeysOf(r)
  BY DEF KeysOf
<1>4. ASSUME NEW q \in Requests, r \in Matched[q], KeysOf(r) # {} PROVE LevelKeys[q][r] # {}
  <2>1. \E p \in Requests : LevelKeys[p][r] # {}
    BY <1>4 DEF KeysOf
  <2> QED
    BY <1>4, <2>1, StatsAssumption
<1> QED
  BY <1>1, <1>2, <1>3, <1>4

\* What a key releases in a second is a number, not more than the most, and more the
\* later its last release.
LEMMA ReleasesGrow ==
    ASSUME NEW k \in Keys, NEW s \in Seconds
    PROVE  /\ Most(k) \in Nat
           /\ \A t \in Nat : Releases(k, s, t) \in Nat /\ Releases(k, s, t) <= Most(k)
           /\ \A t, u \in Nat : t <= u => Releases(k, s, t) <= Releases(k, s, u)
<1> DEFINE p == s * Second
           m == Pace[k]
           c(t) == CeilDiv(t - p + 1, m)
<1>1. m \in Nat \ {0} /\ Second \in Nat \ {0} /\ MaxLag \in Nat
  BY StatsAssumption
<1>2. p \in Nat
  BY SecondFacts, Numbers
<1>3. Most(k) \in Nat
  BY <1>1, CeilDivNat DEF Most
<1> HIDE DEF p, m
<1>4. ASSUME NEW t \in Nat, t >= p PROVE c(t) \in Nat
  <2>1. t - p + 1 \in Nat
    BY <1>2, <1>4
  <2> QED
    BY <1>1, <2>1, CeilDivNat
<1>5. ASSUME NEW t \in Nat, NEW u \in Nat, t >= p, t <= u PROVE c(t) <= c(u)
  <2> DEFINE a == t - p + 1
             b == u - p + 1
  <2>1. a \in Int /\ b \in Int /\ b >= a + 0 * m /\ 0 \in Int
    BY <1>1, <1>2, <1>5
  <2>2. CeilDiv(b, m) >= CeilDiv(a, m) + 0
    <3> HIDE DEF a, b
    <3> QED
      BY <1>1, <2>1, CeilDivShift
  <2>3. CeilDiv(b, m) \in Int /\ CeilDiv(a, m) \in Int
    <3> HIDE DEF a, b
    <3> QED
      BY <1>1, <2>1, CeilDivFacts
  <2> QED
    BY <2>2, <2>3
<1>6. \A t : Releases(k, s, t) = IF t < p THEN 0 ELSE Smaller(c(t), Most(k))
  BY DEF Releases, p, m
<1> HIDE DEF c
<1>7. \A t \in Nat : Releases(k, s, t) \in Nat /\ Releases(k, s, t) <= Most(k)
  BY <1>2, <1>3, <1>4, <1>6 DEF Smaller
<1>8. ASSUME NEW t \in Nat, NEW u \in Nat, t <= u PROVE Releases(k, s, t) <= Releases(k, s, u)
  <2>1. CASE t < p
    BY <1>6, <1>7, <2>1
  <2>2. CASE t >= p
    <3>1. c(t) <= c(u) /\ c(t) \in Nat /\ c(u) \in Nat /\ ~(t < p) /\ ~(u < p)
      BY <1>2, <1>4, <1>5, <1>8, <2>2
    <3> QED
      BY <1>3, <1>6, <3>1 DEF Smaller
  <2> QED
    BY <1>2, <2>1, <2>2
<1> QED
  BY <1>3, <1>7, <1>8

\* A release in a second, or up to MaxLag later, is one more.
LEMMA ReleasesOne ==
    ASSUME NEW k \in Keys, NEW s \in Seconds, NEW t \in Nat, NEW u \in Nat,
           u >= t + Pace[k], s * Second <= u, u < s * Second + Second + MaxLag
    PROVE  Releases(k, s, t) + 1 <= Releases(k, s, u)
<1> DEFINE p == s * Second
           m == Pace[k]
           a == t - p + 1
           b == u - p + 1
           e == Second + MaxLag
<1>1. m \in Nat \ {0} /\ Second \in Nat \ {0} /\ MaxLag \in Nat
  BY StatsAssumption
<1>2. p \in Nat
  BY SecondFacts, Numbers
<1> HIDE DEF p, m
<1>3. b \in Nat \ {0} /\ a \in Int /\ e \in Nat /\ e >= b + 0 * m /\ b >= a + 1 * m /\ u >= p
  BY <1>1, <1>2 DEF p, m
<1>4. Releases(k, s, t) = IF t < p THEN 0 ELSE Smaller(CeilDiv(a, m), CeilDiv(e, m))
  BY DEF Releases, Most, p, m
<1>5. Releases(k, s, u) = Smaller(CeilDiv(b, m), CeilDiv(e, m))
  BY <1>2, <1>3 DEF Releases, Most, p, m
<1> HIDE DEF a, b, e
<1>6. CeilDiv(a, m) \in Int /\ CeilDiv(b, m) \in Int /\ CeilDiv(e, m) \in Int
  BY <1>1, <1>3, CeilDivFacts
<1>7. CeilDiv(e, m) >= CeilDiv(b, m) + 0
  BY <1>1, <1>3, CeilDivShift
<1>8. CeilDiv(b, m) >= CeilDiv(a, m) + 1
  BY <1>1, <1>3, CeilDivShift
<1>9. CeilDiv(b, m) >= 1
  <2>1. b \in Int /\ b > 0 /\ CeilDiv(b, m) * m >= b
    BY <1>1, <1>3, CeilDivFacts
  <2>2. CeilDiv(b, m) \in Nat
    BY <1>1, <1>3, CeilDivNat
  <2>3. CeilDiv(b, m) # 0
    BY <1>1, <2>1
  <2> QED
    BY <2>2, <2>3
<1> QED
  BY <1>4, <1>5, <1>6, <1>7, <1>8, <1>9 DEF Smaller

\* The sums of what the keys of a rule release: if no last release goes back, none is
\* less, and it is more if at a key it is more.
LEMMA TotalGrows ==
    ASSUME NEW rel \in [Keys -> Nat], NEW new \in [Keys -> Nat],
           \A k \in Keys : rel[k] <= new[k],
           NEW r \in Rules, NEW s \in Seconds
    PROVE  /\ Total(rel, r, s) \in Int /\ Total(new, r, s) \in Int /\ Total(rel, r, s) >= 0
           /\ Total(rel, r, s) <= SumFunction([k \in KeysOf(r) |-> Most(k)])
           /\ Total(rel, r, s) <= Total(new, r, s)
           /\ \A k \in KeysOf(r) :
                  Releases(k, s, rel[k]) + 1 <= Releases(k, s, new[k])
                      => Total(rel, r, s) + 1 <= Total(new, r, s)
<1> DEFINE S == KeysOf(r)
           f == [k \in S |-> Releases(k, s, rel[k])]
           h == [k \in S |-> Releases(k, s, new[k])]
           g == [k \in S |-> Most(k)]
           z == [k \in S |-> 0]
<1>1. S \in SUBSET Keys /\ IsFiniteSet(S)
  BY KeyFacts
<1>2. \A k \in S : /\ Releases(k, s, rel[k]) \in Nat /\ Releases(k, s, new[k]) \in Nat
                   /\ Most(k) \in Nat /\ Releases(k, s, rel[k]) <= Most(k)
                   /\ Releases(k, s, rel[k]) <= Releases(k, s, new[k])
  BY <1>1, ReleasesGrow
<1>3. /\ f \in [S -> Int] /\ h \in [S -> Int] /\ g \in [S -> Int] /\ z \in [S -> Int]
      /\ \A k \in S : /\ f[k] = Releases(k, s, rel[k]) /\ h[k] = Releases(k, s, new[k])
                      /\ f[k] <= h[k] /\ f[k] <= g[k] /\ z[k] <= f[k] /\ z[k] = 0
  BY <1>2
<1>4. /\ Total(rel, r, s) = SumFunction(f) /\ Total(new, r, s) = SumFunction(h)
  BY DEF Total
<1>5. SumFunction(g) = SumFunction([k \in KeysOf(r) |-> Most(k)])
  OBVIOUS
<1> HIDE DEF S, f, g, h, z
<1>6. SumFunction(f) \in Int /\ SumFunction(h) \in Int
  BY <1>1, <1>3, SumFacts
<1>7. SumFunction(f) <= SumFunction(h) /\ SumFunction(f) <= SumFunction(g)
  BY <1>1, <1>3, SumFacts
<1>8. SumFunction(z) = 0 /\ SumFunction(z) <= SumFunction(f)
  BY <1>1, <1>3, SumFacts
<1>9. ASSUME NEW k \in S, f[k] + 1 <= h[k] PROVE SumFunction(f) + 1 <= SumFunction(h)
  <2> DEFINE w == [x \in S |-> IF x = k THEN f[x] + 1 ELSE f[x]]
  <2>1. w \in [S -> Int] /\ \A x \in S : w[x] <= h[x]
    BY <1>3, <1>9
  <2>2. Raised(w, f, S, k, 1)
    BY DEF Raised
  <2> HIDE DEF w
  <2>3. SumFunction(w) = SumFunction(f) + 1
    BY <1>1, <1>3, <2>1, <2>2, SumChanged
  <2>4. SumFunction(w) <= SumFunction(h)
    BY <1>1, <1>3, <2>1, SumFacts
  <2> QED
    BY <2>3, <2>4
<1> QED
  BY <1>3, <1>4, <1>5, <1>6, <1>7, <1>8, <1>9 DEF S

\* The requests that wait are finitely many, fewer if one no longer does, and one more
\* if one begins to.
Others(rq, new, q, r, s) ==
    \A p \in Requests \ {q} : Waiting(new[p], r, s) <=> Waiting(rq[p], r, s)
LEMMA PendingFacts ==
    ASSUME NEW rq, NEW new, NEW q \in Requests, NEW r, NEW s, Others(rq, new, q, r, s)
    PROVE  /\ Cardinality(Pending(rq, r, s)) \in Nat /\ Cardinality(Pending(new, r, s)) \in Nat
           /\ (q \in Pending(new, r, s) <=> q \in Pending(rq, r, s))
                  => Cardinality(Pending(new, r, s)) = Cardinality(Pending(rq, r, s))
           /\ q \notin Pending(new, r, s) /\ q \in Pending(rq, r, s)
                  => Cardinality(Pending(new, r, s)) = Cardinality(Pending(rq, r, s)) - 1
           /\ q \notin Pending(rq, r, s) /\ q \in Pending(new, r, s)
                  => Cardinality(Pending(new, r, s)) = Cardinality(Pending(rq, r, s)) + 1
<1> DEFINE A == Pending(rq, r, s)
           B == Pending(new, r, s)
<1>1. A \in SUBSET Requests /\ B \in SUBSET Requests /\ IsFiniteSet(Requests)
  BY StatsAssumption DEF Pending
<1>2. IsFiniteSet(A) /\ IsFiniteSet(B) /\ Cardinality(A) \in Nat /\ Cardinality(B) \in Nat
  BY <1>1, FS_Subset, FS_CardinalityType
<1>3. \A p : p # q => (p \in A <=> p \in B)
  BY DEF Pending, Others
<1> HIDE DEF A, B
<1>4. ASSUME q \in A <=> q \in B PROVE Cardinality(B) = Cardinality(A)
  <2>1. A = B
    BY <1>3, <1>4
  <2> QED
    BY <2>1
<1>5. ASSUME q \in A, q \notin B PROVE Cardinality(B) = Cardinality(A) - 1
  <2>1. B = A \ {q}
    BY <1>3, <1>5
  <2> QED
    BY <1>2, <1>5, <2>1, FS_RemoveElement
<1>6. ASSUME q \in B, q \notin A PROVE Cardinality(B) = Cardinality(A) + 1
  <2>1. B = A \cup {q}
    BY <1>3, <1>6
  <2> QED
    BY <1>2, <1>6, <2>1, FS_AddElement
<1> QED
  BY <1>2, <1>3, <1>4, <1>5, <1>6 DEF A, B

\* One request changes.
LEMMA OthersWait ==
    ASSUME Typed, NEW q \in Requests, NEW y, NEW new, new = [req EXCEPT ![q] = y], NEW r, NEW s
    PROVE  Others(req, new, q, r, s) /\ new[q] = y
  BY DEF Typed, Others

\* What a request waits for with one more tick.
LEMMA TickedWaits ==
    ASSUME Typed, NEW q \in Requests, NEW r \in Rules, At(q, r), NEW o, NEW s, NEW p, NEW z
    PROVE  /\ Waiting(Ticked(q, r, o, s), p, z)
                  <=> Waiting(req[q], p, z) \/ (p = r /\ o = "allow" /\ z = s)
           /\ ~Waiting(req[q], r, z)
<1> DEFINE ts == req[q].ticks
           k  == [rule |-> r, outcome |-> o, second |-> s]
           w  == [rule |-> p, outcome |-> "allow", second |-> z]
           us == Append(ts, k)
<1>1. IsDeciding(req[q], q, now) /\ req[q].pc = "deciding" /\ r \in req[q].todo
  BY DecidingIs DEF At
<1>2. ts \in Seq(Tick) /\ \A n \in 1 .. Len(ts) : ts[n].rule \notin req[q].todo
  BY <1>1 DEF IsDeciding
<1>3. /\ Ticked(q, r, o, s).pc = "deciding" /\ Ticked(q, r, o, s).ticks = us
  BY <1>1, TickedParts
<1>4. w = k <=> p = r /\ o = "allow" /\ z = s
  OBVIOUS
<1> HIDE DEF ts, k, w
<1>5. /\ Len(us) = Len(ts) + 1 /\ Len(ts) \in Nat
      /\ \A n \in 1 .. Len(ts) : us[n] = ts[n]
      /\ us[Len(ts) + 1] = k
  BY <1>2
<1> HIDE DEF us
<1>6. \A n : n \in 1 .. Len(us) <=> n \in 1 .. Len(ts) \/ n = Len(ts) + 1
  BY <1>5
<1>7. (\E n \in 1 .. Len(us) : us[n] = w) <=> (\E n \in 1 .. Len(ts) : ts[n] = w) \/ w = k
  BY <1>5, <1>6
<1>8. ~\E n \in 1 .. Len(ts) : ts[n] = [rule |-> r, outcome |-> "allow", second |-> z]
  BY <1>1, <1>2
<1> QED
  BY <1>1, <1>3, <1>4, <1>7, <1>8 DEF Waiting, ts, w

\* Initially nothing is counted.
LEMMA SmoothInit == Init => Smooth(recorded, req, released)
<1> SUFFICES ASSUME Init, NEW r \in Rules, NEW s \in Seconds
             PROVE  SmoothAt(recorded, req, released, r, s)
  BY DEF Smooth
<1>1. released \in [Keys -> Nat] /\ \A k \in Keys : released[k] <= released[k]
  BY DEF Init
<1>2. Total(released, r, s) \in Int /\ Total(released, r, s) >= 0
  BY <1>1, TotalGrows
<1>3. Pending(req, r, s) = {}
  BY DEF Init, Pending, Waiting
<1>4. Cardinality(Pending(req, r, s)) = 0
  BY <1>3, FS_EmptySet
<1>5. recorded[<<r, "allow">>][s] = 0
  BY DEF Init, NoCounts, Series, Outcomes
<1> QED
  BY <1>2, <1>4, <1>5 DEF SmoothAt

\* What is counted, and what waits, are numbers.
LEMMA SmoothNat ==
    ASSUME Typed, NEW r \in Rules, NEW s \in Seconds
    PROVE  /\ <<r, "allow">> \in Rules \X Outcomes /\ recorded[<<r, "allow">>][s] \in Nat
           /\ Total(released, r, s) \in Int
           /\ Total(released, r, s) <= SumFunction([k \in KeysOf(r) |-> Most(k)])
<1>1. <<r, "allow">> \in Rules \X Outcomes
  BY DEF Outcomes
<1>2. released \in [Keys -> Nat] /\ \A k \in Keys : released[k] <= released[k]
  BY DEF Typed
<1>3. recorded[<<r, "allow">>][s] \in Nat
  BY <1>1, RuleSeries DEF Typed, Records
<1> QED
  BY <1>1, <1>2, <1>3, TotalGrows

\* A rule admits.
LEMMA SmoothAdmit ==
    ASSUME Typed, Smooth(recorded, req, released),
           NEW q \in Requests, NEW r \in Rules, Admit(q, r)
    PROVE  Smooth(recorded', req', released')
<1> DEFINE K == LevelKeys[q][r]
           s == AllowSecond(q, K)
           at == req[q].at
           y == Ticked(q, r, "allow", s)
<1>1. /\ At(q, r) /\ HasSlots(K)
      /\ released' = [k \in Keys |-> IF k \in K THEN Release(k) ELSE released[k]]
      /\ req' = [req EXCEPT ![q] = y]
      /\ recorded' = recorded
  BY DEF Admit
<1>2. IsDeciding(req[q], q, now) /\ r \in Matched[q]
  BY <1>1, DecidingIs DEF At, IsDeciding
<1>3. K \in SUBSET Keys /\ K \in SUBSET KeysOf(r) /\ (KeysOf(r) # {} => K # {})
  BY <1>2, StatsAssumption, KeyFacts
<1> HIDE DEF K
<1>4. /\ \A k \in K : /\ Release(k) \in Nat /\ Release(k) >= now + Pace[k]
                      /\ Release(k) >= released[k] + Pace[k]
      /\ \E d \in 0 .. MaxDelay : Slowest(d, K) /\ s = (at + d) \div Second
  BY <1>1, <1>2, <1>3, AllowSecondIs
<1>5. PICK d \in 0 .. MaxDelay : Slowest(d, K) /\ s = (at + d) \div Second
  BY <1>4
<1>6. /\ now \in Nat /\ now \in 0 .. MaxNow /\ at \in 0 .. now /\ now <= at + MaxLag
      /\ MaxDelay \in Nat /\ MaxLag \in Nat /\ Second \in Nat \ {0}
  BY <1>2, Numbers DEF Typed, IsDeciding
<1> HIDE DEF at, s, y
<1>7. /\ s \in Seconds /\ s \in Nat /\ s * Second \in Nat
      /\ s * Second <= at + d /\ at + d < s * Second + Second
  <2> DEFINE x == at + d
  <2>1. x \in Nat /\ x <= now + MaxDelay /\ s = x \div Second
    BY <1>5, <1>6
  <2> HIDE DEF x
  <2>2. s \in Seconds /\ s * Second <= x /\ x < s * Second + Second
    BY <1>6, <2>1, SecondOf
  <2>3. s \in Nat /\ s * Second \in Nat
    BY <1>6, <2>2, SecondFacts
  <2> QED
    BY <2>2, <2>3 DEF x
<1>8. /\ released \in [Keys -> Nat] /\ released' \in [Keys -> Nat]
      /\ \A k \in Keys : released[k] <= released'[k]
  <2>1. released \in [Keys -> Nat] /\ \A k \in Keys : Pace[k] \in Nat
    BY StatsAssumption DEF Typed
  <2>2. \A k \in Keys : k \in K => Release(k) \in Nat /\ released[k] <= Release(k)
    BY <1>3, <1>4, <2>1
  <2> QED
    BY <1>1, <2>1, <2>2
<1>9. ASSUME NEW p \in Rules, NEW z \in Seconds, KeysOf(p) # {}
      PROVE  SmoothAt(recorded', req', released', p, z)
  <2> DEFINE new == req'
             n == Cardinality(Pending(req, p, z))
             m == Cardinality(Pending(new, p, z))
             c == recorded[<<p, "allow">>][z]
             f == Total(released, p, z)
             h == Total(released', p, z)
  <2>1. c + n <= f
    BY <1>9 DEF Smooth, SmoothAt
  <2>2. c \in Nat /\ f \in Int /\ h \in Int /\ f <= h
    BY <1>8, SmoothNat, TotalGrows
  <2>3. Others(req, new, q, p, z) /\ new[q] = y
    BY <1>1, OthersWait
  <2> HIDE DEF new
  <2>4. /\ Waiting(y, p, z) <=> Waiting(req[q], p, z) \/ (p = r /\ z = s)
        /\ p = r => ~Waiting(req[q], p, z)
    BY <1>1, TickedWaits DEF y
  <2>5. CASE p = r /\ z = s
    <3>1. m = n + 1 /\ n \in Nat
      <4>1. q \notin Pending(req, p, z) /\ q \in Pending(new, p, z)
        BY <2>3, <2>4, <2>5 DEF Pending
      <4> QED
        BY <2>3, <4>1, PendingFacts
    <3>2. PICK k \in K : d = Release(k) - now
      <4>1. K # {}
        BY <1>3, <1>9, <2>5
      <4>2. PICK k \in K : TRUE
        BY <4>1
      <4>3. Release(k) - now <= d /\ Release(k) \in Nat /\ Release(k) >= now + Pace[k]
        BY <1>4, <1>5 DEF Slowest
      <4>4. Pace[k] \in Nat \ {0}
        BY <1>3, StatsAssumption
      <4>5. d # 0
        BY <1>6, <4>3, <4>4
      <4> QED
        BY <1>5, <4>5 DEF Slowest
    <3>3. k \in Keys /\ k \in KeysOf(r) /\ released'[k] = Release(k) /\ Release(k) \in Nat
      BY <1>1, <1>3, <1>4
    <3>4. Release(k) = at + d + (now - at)
      BY <1>6, <3>2, <3>3
    <3> DEFINE u == Release(k)
               t == released[k]
    <3>5. t \in Nat /\ u \in Nat /\ u >= t + Pace[k]
      BY <1>4, <1>8, <3>3
    <3>6. s * Second <= u /\ u < s * Second + Second + MaxLag
      <4> DEFINE b == s * Second
      <4>1. b \in Nat /\ b <= at + d /\ at + d < b + Second
        BY <1>7
      <4> HIDE DEF b, u
      <4>2. b <= u /\ u < b + Second + MaxLag
        BY <1>6, <3>4, <3>5, <4>1 DEF u
      <4> QED
        BY <4>2 DEF b
    <3> HIDE DEF u, t
    <3>7. Releases(k, s, t) + 1 <= Releases(k, s, u)
      BY <1>7, <3>3, <3>5, <3>6, ReleasesOne
    <3>8. f + 1 <= h
      BY <1>7, <1>8, <2>5, <3>3, <3>7, TotalGrows DEF t, u
    <3> HIDE DEF n, m, c, f, h
    <3>9. c + m <= h
      BY <2>1, <2>2, <3>1, <3>8
    <3> QED
      BY <1>1, <3>9 DEF SmoothAt, n, m, c, f, h, new
  <2>6. CASE ~(p = r /\ z = s)
    <3>1. m = n /\ n \in Nat
      <4>1. q \in Pending(new, p, z) <=> q \in Pending(req, p, z)
        BY <2>3, <2>4, <2>6 DEF Pending
      <4> QED
        BY <2>3, <4>1, PendingFacts
    <3> HIDE DEF n, m, c, f, h
    <3>2. c + m <= h
      BY <2>1, <2>2, <3>1
    <3> QED
      BY <1>1, <3>2 DEF SmoothAt, n, m, c, f, h, new
  <2> QED
    BY <2>5, <2>6
<1> QED
  BY <1>9 DEF Smooth

\* A request is done, or begins: it waits for nothing.
LEMMA SmoothIdle ==
    ASSUME Typed, Smooth(recorded, req, released), NEW q \in Requests,
           NEW y, \A r \in Rules, s \in Seconds : ~Waiting(y, r, s),
           NEW new, new = [req EXCEPT ![q] = y],
           NEW rec, \A r \in Rules, s \in Seconds :
               rec[<<r, "allow">>][s] = recorded[<<r, "allow">>][s]
                   \/ /\ rec[<<r, "allow">>][s] = recorded[<<r, "allow">>][s] + 1
                      /\ Waiting(req[q], r, s)
    PROVE  Smooth(rec, new, released)
<1> SUFFICES ASSUME NEW r \in Rules, NEW s \in Seconds, KeysOf(r) # {}
             PROVE  SmoothAt(rec, new, released, r, s)
  BY DEF Smooth
<1> DEFINE n == Cardinality(Pending(req, r, s))
           m == Cardinality(Pending(new, r, s))
           c == recorded[<<r, "allow">>][s]
           e == rec[<<r, "allow">>][s]
           f == Total(released, r, s)
<1>1. c + n <= f
  BY DEF Smooth, SmoothAt
<1>2. c \in Nat /\ f \in Int
  BY SmoothNat
<1>3. Others(req, new, q, r, s) /\ new[q] = y
  BY OthersWait
<1>4. q \notin Pending(new, r, s)
  BY <1>3 DEF Pending
<1>5. /\ n \in Nat /\ m \in Nat /\ m <= n
      /\ q \in Pending(req, r, s) => m = n - 1
  <2>1. CASE q \in Pending(req, r, s)
    BY <1>3, <1>4, <2>1, PendingFacts
  <2>2. CASE q \notin Pending(req, r, s)
    BY <1>3, <1>4, <2>2, PendingFacts
  <2> QED
    BY <2>1, <2>2
<1>6. e = c \/ (e = c + 1 /\ q \in Pending(req, r, s))
  BY DEF Pending
<1> HIDE DEF n, m, c, e, f
<1>7. e + m <= f
  BY <1>1, <1>2, <1>5, <1>6
<1> QED
  BY <1>7 DEF SmoothAt, n, m, c, e, f

\* What begins and what is done waits for nothing.
LEMMA IdleWaits ==
    /\ \A r, s : ~Waiting([pc |-> "new"], r, s) /\ ~Waiting([pc |-> "done"], r, s)
    /\ \A t, a, r, s : ~Waiting([pc |-> "deciding", at |-> t, todo |-> a, ticks |-> <<>>], r, s)
  BY DEF Waiting

\* A pipeline is executed: what waited is counted.
LEMMA SmoothRecord ==
    ASSUME Typed, Smooth(recorded, req, released), NEW q \in Requests, Record(q)
    PROVE  Smooth(recorded', req', released')
<1> DEFINE rec == [x \in Series |-> [s \in Seconds |-> recorded[x][s] + Ticks(q, x, s)]]
           y == [pc |-> "done"]
           new == req'
<1>1. /\ req[q].pc = "deciding" /\ recorded' = rec
      /\ new = [req EXCEPT ![q] = y]
      /\ released' = released
  BY DEF Record, Ready
<1>2. \A r \in Rules, s \in Seconds : ~Waiting(y, r, s)
  BY IdleWaits
<1>3. ASSUME NEW r \in Rules, NEW s \in Seconds
      PROVE  rec[<<r, "allow">>][s] = recorded[<<r, "allow">>][s]
                 \/ /\ rec[<<r, "allow">>][s] = recorded[<<r, "allow">>][s] + 1
                    /\ Waiting(req[q], r, s)
  <2> DEFINE x == <<r, "allow">>
  <2>1. x \in Series /\ x \in Rules \X Outcomes /\ recorded[x][s] \in Nat
    BY SmoothNat, RuleSeries
  <2>2. rec[x][s] = recorded[x][s] + Ticks(q, x, s)
    BY <2>1
  <2>3. Ticks(q, x, s) = IF Has(q, Len(req[q].ticks), x, s) THEN 1 ELSE 0
    BY <1>1, <2>1, TicksIs
  <2>4. Has(q, Len(req[q].ticks), x, s) => Waiting(req[q], r, s)
    BY <1>1 DEF Has, Waiting
  <2> HIDE DEF rec, x
  <2>5. \/ rec[x][s] = recorded[x][s]
        \/ rec[x][s] = recorded[x][s] + 1 /\ Waiting(req[q], r, s)
    BY <2>1, <2>2, <2>3, <2>4
  <2> QED
    BY <2>5 DEF x
<1> HIDE DEF rec, y, new
<1>4. Smooth(rec, new, released)
  BY <1>1, <1>2, <1>3, SmoothIdle
<1> QED
  BY <1>1, <1>4 DEF new

\* A request begins.
LEMMA SmoothBegin ==
    ASSUME Typed, Smooth(recorded, req, released), NEW q \in Requests, Begin(q)
    PROVE  Smooth(recorded', req', released')
<1> DEFINE y == [pc |-> "deciding", at |-> now, todo |-> Matched[q], ticks |-> <<>>]
           new == req'
<1>1. new = [req EXCEPT ![q] = y] /\ UNCHANGED <<released, recorded>>
  BY DEF Begin
<1>2. \A r \in Rules, s \in Seconds : ~Waiting(y, r, s)
  BY IdleWaits
<1> HIDE DEF y, new
<1>3. Smooth(recorded, new, released)
  BY <1>1, <1>2, SmoothIdle
<1> QED
  BY <1>1, <1>3 DEF new

\* A pipeline breaks.
LEMMA SmoothBreak ==
    ASSUME Typed, Smooth(recorded, req, released), NEW q \in Requests, NEW n,
           SendAgain(q, n) \/ GiveUp(q, n)
    PROVE  Smooth(recorded', req', released')
<1> DEFINE y == [pc |-> "done"]
           new == req'
<1>1. /\ UNCHANGED <<released, recorded>>
      /\ new = req \/ new = [req EXCEPT ![q] = y]
  BY DEF SendAgain, GiveUp, Break
<1>2. \A r \in Rules, s \in Seconds : ~Waiting(y, r, s)
  BY IdleWaits
<1> HIDE DEF y, new
<1>3. Smooth(recorded, new, released)
  BY <1>1, <1>2, SmoothIdle
<1> QED
  BY <1>1, <1>3 DEF new

\* A rule refuses.
LEMMA SmoothRefuse ==
    ASSUME Typed, Smooth(recorded, req, released),
           NEW q \in Requests, NEW r \in Rules, Refuse(q, r)
    PROVE  Smooth(recorded', req', released')
<1> DEFINE s == req[q].at \div Second
           y == Ticked(q, r, "deny", s)
           new == req'
<1>1. /\ At(q, r) /\ new = [req EXCEPT ![q] = y] /\ UNCHANGED <<released, recorded>>
  BY DEF Refuse
<1> HIDE DEF s, new
<1>2. ASSUME NEW p \in Rules, NEW z \in Seconds, KeysOf(p) # {}
      PROVE  SmoothAt(recorded, new, released, p, z)
  <2>1. Waiting(y, p, z) <=> Waiting(req[q], p, z)
    BY <1>1, TickedWaits
  <2> HIDE DEF y
  <2>2. Others(req, new, q, p, z) /\ new[q] = y
    BY <1>1, OthersWait
  <2>3. q \in Pending(new, p, z) <=> q \in Pending(req, p, z)
    BY <2>1, <2>2 DEF Pending
  <2>4. Cardinality(Pending(new, p, z)) = Cardinality(Pending(req, p, z))
    BY <2>2, <2>3, PendingFacts
  <2> QED
    BY <1>2, <2>4 DEF Smooth, SmoothAt
<1>3. Smooth(recorded, new, released)
  BY <1>2 DEF Smooth
<1> QED
  BY <1>1, <1>3 DEF new

\* Every step keeps it.
LEMMA SmoothStep ==
    Curves /\ Smooth(recorded, req, released) /\ [Next]_vars => Smooth(recorded', req', released')
<1> SUFFICES ASSUME Typed, Smooth(recorded, req, released), [Next]_vars
             PROVE  Smooth(recorded', req', released')
  BY DEF Curves
<1>1. CASE UNCHANGED vars
  BY <1>1 DEF vars
<1>2. CASE Advance
  BY <1>2 DEF Advance
<1>3. ASSUME NEW q \in Requests, Begin(q) PROVE Smooth(recorded', req', released')
  BY <1>3, SmoothBegin
<1>4. ASSUME NEW q \in Requests, Record(q) PROVE Smooth(recorded', req', released')
  BY <1>4, SmoothRecord
<1>5. ASSUME NEW q \in Requests, NEW r \in Rules, Admit(q, r)
      PROVE  Smooth(recorded', req', released')
  BY <1>5, SmoothAdmit
<1>6. ASSUME NEW q \in Requests, NEW r \in Rules, Refuse(q, r)
      PROVE  Smooth(recorded', req', released')
  BY <1>6, SmoothRefuse
<1>7. ASSUME NEW q \in Requests, NEW n, SendAgain(q, n) \/ GiveUp(q, n)
      PROVE  Smooth(recorded', req', released')
  BY <1>7, SmoothBreak
<1> QED
  BY <1>1, <1>2, <1>3, <1>4, <1>5, <1>6, <1>7 DEF Next

\* However many requests a leaky bucket admits at once, in no second of its curve there
\* are more than its keys release in a second and the time a request may lag.
THEOREM StatsSmoothCurve == Spec => []SmoothCurve
<1> DEFINE I == Curves /\ Smooth(recorded, req, released)
<1>1. I => SmoothCurve
  <2> SUFFICES ASSUME Curves, Smooth(recorded, req, released), NEW r \in Rules, KeysOf(r) # {},
                      NEW s \in Seconds
               PROVE  Found(series, <<r, "allow">>).counts[s]
                          <= SumFunction([k \in KeysOf(r) |-> CeilDiv(Second + MaxLag, Pace[k])])
                                 + breaks
    BY DEF SmoothCurve
  <2> DEFINE x == <<r, "allow">>
             g == [k \in KeysOf(r) |-> Most(k)]
             v == View(series, now)
             n == Cardinality(Pending(req, r, s))
             c == recorded[x][s]
             f == Total(released, r, s)
  <2>1. Typed /\ breaks \in Nat
    BY DEF Curves, Typed
  <2>2. x \in Rules \X Outcomes /\ c \in Nat /\ f \in Int /\ f <= SumFunction(g)
    BY <2>1, SmoothNat
  <2>3. SumFunction(g) \in Int
    <3>1. KeysOf(r) \in SUBSET Keys /\ IsFiniteSet(KeysOf(r))
      BY KeyFacts
    <3>2. \A k \in KeysOf(r) : Most(k) \in Nat
      BY <3>1, ReleasesGrow
    <3>3. g \in [KeysOf(r) -> Int]
      BY <3>2
    <3> HIDE DEF g
    <3> QED
      BY <3>1, <3>3, SumFacts
  <2>4. c + n <= f
    BY DEF Smooth, SmoothAt
  <2>5. n \in Nat
    <3>1. Pending(req, r, s) \in SUBSET Requests /\ IsFiniteSet(Requests)
      BY StatsAssumption DEF Pending
    <3> QED
      BY <3>1, FS_Subset, FS_CardinalityType
  <2>6. CountHolds(v[x], s, c, early[x][s], breaks, now)
    BY <2>2 DEF Curves, Covered, CountsHold
  <2>7. v[x] = Found(series, x)
    BY <2>2, RuleSeries DEF View, Found
  <2>8. v[x].counts[s] \in Nat
    <3>1. now \in Nat /\ series \in Store
      BY <2>1, Numbers DEF Typed
    <3>2. v \in Store
      BY <3>1, ViewStore
    <3> QED
      BY <2>2, <3>2, RuleSeries DEF Store
  <2>9. v[x].counts[s] <= c + breaks
    BY <2>6 DEF CountHolds
  <2>10. g = [k \in KeysOf(r) |-> CeilDiv(Second + MaxLag, Pace[k])]
    BY DEF Most
  <2> HIDE DEF x, g, v, n, c, f
  <2>11. v[x].counts[s] <= SumFunction(g) + breaks
    BY <2>1, <2>2, <2>3, <2>4, <2>5, <2>8, <2>9
  <2> QED
    BY <2>7, <2>10, <2>11 DEF x
<1>2. Init => I
  BY CurvesInit, SmoothInit
<1>3. I /\ [Next]_vars => I'
  BY CurvesStep, SmoothStep
<1> QED
  BY <1>1, <1>2, <1>3, PTL DEF Spec

-----------------------------------------------------------------------------
(***************************************************************************)
(* The newest refusals.  The sort puts every refusal at its rank, which is *)
(* the number of those before it, and no two have the same rank.           *)
(***************************************************************************)
Event == [by : Requests, at : Nat]
Before(all, i) == {j \in DOMAIN all : \/ all[j].at > all[i].at
                                      \/ all[j].at = all[i].at /\ j < i}

\* An injection of a finite set in one that has no more members leaves none out.
LEMMA NoneLeftOut ==
    ASSUME NEW S, NEW T, NEW f \in [S -> T], IsFiniteSet(S), IsFiniteSet(T),
           Cardinality(S) = Cardinality(T), \A x, y \in S : f[x] = f[y] => x = y
    PROVE  \A y \in T : \E x \in S : f[x] = y
<1>1. f \in Injection(S, T)
  BY DEF Injection, IsInjective
<1>2. f \in Surjection(S, T)
  BY <1>1, FS_Injection
<1> QED
  BY <1>2 DEF Surjection

\* What is before another has the lower rank, and every rank is taken.
LEMMA RankFacts ==
    ASSUME NEW all \in Seq(Event)
    PROVE  /\ \A i \in 1 .. Len(all) : Cardinality(Before(all, i)) \in 0 .. Len(all) - 1
           /\ \A i, j \in 1 .. Len(all) :
                  j \in Before(all, i) => Cardinality(Before(all, j)) < Cardinality(Before(all, i))
           /\ \A i, j \in 1 .. Len(all) : i # j => i \in Before(all, j) \/ j \in Before(all, i)
           /\ \A m \in 1 .. Len(all) :
                  \E i \in 1 .. Len(all) : Cardinality(Before(all, i)) = m - 1
<1> DEFINE L == Len(all)
           D == 1 .. L
           at == [i \in D |-> all[i].at]
           B(i) == Before(all, i)
<1>1. L \in Nat /\ DOMAIN all = D /\ at \in [D -> Nat]
  <2>1. \A i \in D : all[i] \in Event
    OBVIOUS
  <2>2. \A i \in D : all[i].at \in Nat
    BY <2>1 DEF Event
  <2> QED
    BY <2>2
<1>2. \A i \in D : B(i) = {j \in D : at[j] > at[i] \/ (at[j] = at[i] /\ j < i)}
  BY <1>1 DEF Before
<1>3. IsFiniteSet(D) /\ Cardinality(D) = L
  <2>1. IsFiniteSet(1 .. L) /\ Cardinality(1 .. L) = IF 1 > L THEN 0 ELSE L - 1 + 1
    BY <1>1, FS_Interval
  <2> HIDE DEF L
  <2> QED
    BY <1>1, <2>1
<1> HIDE DEF L, at, B
<1>4. \A i \in D : i \in Nat
  BY <1>1
<1>5. ASSUME NEW i \in D PROVE IsFiniteSet(B(i)) /\ Cardinality(B(i)) \in 0 .. L - 1
  <2>1. B(i) \in SUBSET (D \ {i})
    BY <1>1, <1>2, <1>4
  <2>2. IsFiniteSet(D \ {i}) /\ Cardinality(D \ {i}) = L - 1
    BY <1>3, FS_RemoveElement
  <2>3. IsFiniteSet(B(i)) /\ Cardinality(B(i)) <= Cardinality(D \ {i}) /\ Cardinality(B(i)) \in Nat
    BY <2>1, <2>2, FS_Subset, FS_CardinalityType
  <2> QED
    BY <1>1, <2>2, <2>3
<1>6. ASSUME NEW i \in D, NEW j \in D, j \in B(i) PROVE Cardinality(B(j)) < Cardinality(B(i))
  <2>1. B(j) \in SUBSET (B(i) \ {j})
    <3>1. j \notin B(j)
      BY <1>1, <1>2, <1>4
    <3>2. \A k \in B(j) : k \in B(i)
      <4> TAKE k \in B(j)
      <4>1. k \in D /\ at[k] \in Nat /\ at[i] \in Nat /\ at[j] \in Nat /\ i \in Nat /\ j \in Nat
        BY <1>1, <1>2, <1>4
      <4>2. at[k] > at[j] \/ (at[k] = at[j] /\ k < j)
        BY <1>2
      <4>3. at[j] > at[i] \/ (at[j] = at[i] /\ j < i)
        BY <1>2, <1>6
      <4>4. k \in Nat
        BY <1>4, <4>1
      <4>5. at[k] > at[i] \/ (at[k] = at[i] /\ k < i)
        BY <4>1, <4>2, <4>3, <4>4
      <4> QED
        BY <1>2, <4>1, <4>5
    <3> QED
      BY <3>1, <3>2
  <2>2. IsFiniteSet(B(i) \ {j}) /\ Cardinality(B(i) \ {j}) = Cardinality(B(i)) - 1
    BY <1>5, <1>6, FS_RemoveElement
  <2>3. Cardinality(B(j)) <= Cardinality(B(i) \ {j})
    BY <2>1, <2>2, FS_Subset
  <2>4. Cardinality(B(i)) \in Nat /\ Cardinality(B(j)) \in Nat
    BY <1>1, <1>5
  <2> QED
    BY <2>2, <2>3, <2>4
<1>7. ASSUME NEW i \in D, NEW j \in D, i # j PROVE i \in B(j) \/ j \in B(i)
  <2>1. at[i] \in Nat /\ at[j] \in Nat /\ i \in Nat /\ j \in Nat
    BY <1>1, <1>4
  <2> QED
    BY <1>2, <1>7, <2>1
<1> DEFINE rank == [i \in D |-> Cardinality(B(i))]
           R == 0 .. L - 1
<1>8. \A m \in R : \E i \in D : rank[i] = m
  <2>1. rank \in [D -> R]
    BY <1>5
  <2>2. \A i, j \in D : rank[i] = rank[j] => i = j
    <3> SUFFICES ASSUME NEW i \in D, NEW j \in D, i # j PROVE rank[i] # rank[j]
      OBVIOUS
    <3>1. rank[i] \in Nat /\ rank[j] \in Nat
      BY <1>1, <1>5
    <3>2. rank[i] < rank[j] \/ rank[j] < rank[i]
      BY <1>6, <1>7
    <3> QED
      BY <3>1, <3>2
  <2>3. IsFiniteSet(R) /\ Cardinality(R) = L
    <3>1. /\ IsFiniteSet(0 .. L - 1)
          /\ Cardinality(0 .. L - 1) = IF 0 > L - 1 THEN 0 ELSE L - 1 - 0 + 1
      BY <1>1, FS_Interval
    <3> QED
      BY <1>1, <3>1
  <2> HIDE DEF rank, R, D
  <2> QED
    BY <1>3, <2>1, <2>2, <2>3, NoneLeftOut
<1>9. ASSUME NEW m \in D PROVE \E i \in D : Cardinality(B(i)) = m - 1
  <2>1. m - 1 \in R
    BY <1>1
  <2> QED
    BY <1>8, <2>1
<1> QED
  BY <1>5, <1>6, <1>7, <1>9 DEF L, B

\* One that is missing among the newest is no newer than any that is shown, and there
\* are as many as were asked for.
LEMMA NewestIs ==
    ASSUME NEW all \in Seq(Event), NEW limit \in Nat \ {0}, NEW j \in 1 .. Len(all)
    PROVE  \/ all[j] \in ToSet(Newest(all, limit))
           \/ /\ Len(Newest(all, limit)) = limit
              /\ \A m \in DOMAIN Newest(all, limit) : Newest(all, limit)[m].at >= all[j].at
<1> DEFINE L == Len(all)
           D == 1 .. L
           B(i) == Before(all, i)
           c(n) == CHOOSE i \in DOMAIN all : Cardinality(B(i)) = n - 1
           sorted == [n \in DOMAIN all |-> all[c(n)]]
           w == Smaller(limit, L)
           shown == Newest(all, limit)
<1>1. shown = SubSeq(sorted, 1, w)
  BY DEF Newest, Before
<1>2. /\ L \in Nat /\ DOMAIN all = D /\ \A i \in D : all[i] \in Event /\ all[i].at \in Nat
  <2>1. \A i \in D : all[i] \in Event
    OBVIOUS
  <2> QED
    BY <2>1 DEF Event
<1>3. /\ \A i \in D : Cardinality(B(i)) \in 0 .. L - 1
      /\ \A i, k \in D : k \in B(i) => Cardinality(B(k)) < Cardinality(B(i))
      /\ \A i, k \in D : i # k => i \in B(k) \/ k \in B(i)
      /\ \A m \in D : \E i \in D : Cardinality(B(i)) = m - 1
  BY RankFacts
<1>4. \A i, k \in D : k \in B(i) => all[k].at >= all[i].at
  BY <1>2 DEF Before
<1> HIDE DEF B
<1>5. \A n \in D : c(n) \in D /\ Cardinality(B(c(n))) = n - 1
  <2> TAKE n \in D
  <2>1. \E i \in DOMAIN all : Cardinality(B(i)) = n - 1
    BY <1>2, <1>3
  <2>2. c(n) \in DOMAIN all /\ Cardinality(B(c(n))) = n - 1
    BY <2>1, Zenon
  <2> QED
    BY <1>2, <2>2
<1>6. sorted = [n \in D |-> all[c(n)]]
  BY <1>2
<1>7. w \in Nat /\ w <= L /\ (w = limit \/ (w = L /\ w <= limit))
  <2>1. L \in Nat /\ limit \in Nat
    BY <1>2
  <2> HIDE DEF L
  <2> QED
    BY <2>1 DEF Smaller
<1> HIDE DEF c, w, sorted, shown, L
<1>8. sorted \in Seq(Event) /\ Len(sorted) = L /\ \A n \in D : sorted[n] = all[c(n)]
  <2>1. \A n \in D : all[c(n)] \in Event
    BY <1>2, <1>5
  <2> QED
    BY <1>2, <1>6, <2>1
<1>9. /\ Len(shown) = w /\ DOMAIN shown = 1 .. w
      /\ \A n \in 1 .. w : n \in D /\ shown[n] = all[c(n)]
  <2>1. \A n \in 1 .. w : n \in D
    BY <1>2, <1>7
  <2>2. Len(shown) = w /\ DOMAIN shown = 1 .. w /\ \A n \in 1 .. w : shown[n] = sorted[n]
    BY <1>1, <1>2, <1>7, <1>8
  <2> QED
    BY <1>8, <2>1, <2>2
<1> DEFINE m == Cardinality(B(j)) + 1
<1>10. j \in D /\ Cardinality(B(j)) \in Nat /\ m \in D
  <2>1. j \in D
    BY DEF L
  <2> QED
    BY <1>2, <1>3, <2>1
<1>11. \A i \in D : i # j => Cardinality(B(i)) # Cardinality(B(j))
  <2> TAKE i \in D
  <2> HAVE i # j
  <2>1. Cardinality(B(i)) \in Nat
    BY <1>2, <1>3
  <2>2. Cardinality(B(i)) < Cardinality(B(j)) \/ Cardinality(B(j)) < Cardinality(B(i))
    BY <1>3, <1>10
  <2> QED
    BY <1>10, <2>1, <2>2
<1>12. c(m) = j
  <2>1. c(m) \in D /\ Cardinality(B(c(m))) = Cardinality(B(j))
    BY <1>5, <1>10
  <2> QED
    BY <1>11, <2>1
<1>13. CASE m <= w
  <2>1. m \in 1 .. w
    BY <1>10, <1>13
  <2>2. shown[m] = all[j] /\ m \in DOMAIN shown
    BY <1>9, <1>12, <2>1
  <2> QED
    BY <2>2 DEF ToSet, shown
<1>14. CASE m > w
  <2>1. w = limit
    BY <1>2, <1>7, <1>10, <1>14
  <2>2. ASSUME NEW n \in 1 .. w PROVE shown[n].at >= all[j].at
    <3> DEFINE i == c(n)
    <3>1. n \in D /\ shown[n] = all[i] /\ i \in D /\ Cardinality(B(i)) = n - 1
      BY <1>5, <1>9, <2>2
    <3> HIDE DEF i
    <3>2. Cardinality(B(i)) < Cardinality(B(j)) /\ Cardinality(B(i)) \in Nat
      BY <1>2, <1>3, <1>7, <1>10, <1>14, <3>1
    <3>3. j \notin B(i)
      BY <1>3, <1>10, <3>1, <3>2
    <3>4. i # j
      BY <1>10, <3>2
    <3>5. i \in B(j)
      BY <1>3, <1>10, <3>1, <3>3, <3>4
    <3> QED
      BY <1>4, <1>10, <3>1, <3>5
  <2> QED
    BY <1>9, <2>1, <2>2 DEF shown
<1> QED
  BY <1>2, <1>7, <1>10, <1>13, <1>14

\* What SCAN returns names every log that is there.
LEMMA ScanIs ==
    ASSUME NEW scan \in Scans
    PROVE  /\ scan \in Seq(Rules)
           /\ \A r \in Rules : Events(r) # <<>> => \E i \in 1 .. Len(scan) : scan[i] = r
<1> DEFINE live == {r \in Rules : Events(r) # <<>>}
           once == SetToSeqs(live)
           n == Cardinality(live)
<1>1. live \in SUBSET Rules /\ IsFiniteSet(live) /\ n \in Nat
  BY Numbers, FS_Subset, FS_CardinalityType
<1>2. scan \in once \/ \E s \in once : s # <<>> /\ scan = Append(s, s[1])
  BY DEF Scans
<1>3. \A r \in Rules : Events(r) # <<>> => r \in live
  OBVIOUS
<1> HIDE DEF live
<1>4. ASSUME NEW s \in once
      PROVE  s \in Seq(Rules) /\ \A r \in live : \E i \in 1 .. Len(s) : s[i] = r
  <2> DEFINE D == 1 .. n
  <2>1. s \in [D -> live] /\ \A i, j \in D : s[i] = s[j] => i = j
    BY DEF SetToSeqs
  <2>2. IsFiniteSet(D) /\ Cardinality(D) = n
    <3>1. IsFiniteSet(1 .. n) /\ Cardinality(1 .. n) = IF 1 > n THEN 0 ELSE n - 1 + 1
      BY <1>1, FS_Interval
    <3> HIDE DEF n
    <3> QED
      BY <1>1, <3>1
  <2>3. \A r \in live : \E i \in D : s[i] = r
    <3> HIDE DEF D
    <3>1. Cardinality(D) = Cardinality(live)
      BY <2>2
    <3> QED
      BY <1>1, <2>1, <2>2, <3>1, NoneLeftOut
  <2>4. s \in Seq(Rules) /\ Len(s) = n
    <3> HIDE DEF n
    <3> QED
      BY <1>1, <2>1
  <2> QED
    BY <2>3, <2>4
<1> HIDE DEF once, n
<1>5. CASE scan \in once
  BY <1>3, <1>4, <1>5
<1>6. ASSUME NEW s \in once, s # <<>>, scan = Append(s, s[1])
      PROVE  /\ scan \in Seq(Rules)
             /\ \A r \in Rules : Events(r) # <<>> => \E i \in 1 .. Len(scan) : scan[i] = r
  <2>1. s \in Seq(Rules) /\ s[1] \in Rules
    BY <1>4, <1>6
  <2>2. /\ scan \in Seq(Rules) /\ Len(scan) = Len(s) + 1 /\ Len(s) \in Nat
        /\ \A i \in 1 .. Len(s) : scan[i] = s[i] /\ i \in 1 .. Len(scan)
    BY <1>6, <2>1
  <2> QED
    BY <1>3, <1>4, <2>2
<1> QED
  BY <1>2, <1>5, <1>6

\* A log holds events.
LEMMA EventsAre ==
    ASSUME Typed, NEW r \in Rules
    PROVE  Events(r) \in Seq(Event)
<1>1. log[r] \in [events : Seq(Event), expireAt : Nat]
  BY DEF Typed, IsLog, Event
<1> QED
  BY <1>1 DEF Events

\* What is popped of a log.
LEMMA PoppedIs ==
    ASSUME Typed, NEW r \in Rules, NEW limit \in Nat \ {0}
    PROVE  /\ Popped(r, limit) \in Seq(Event)
           /\ \A n \in 1 .. Len(Events(r)) :
                  n <= limit => n \in 1 .. Len(Popped(r, limit)) /\ Popped(r, limit)[n] = Events(r)[n]
<1> DEFINE s == Events(r)
           w == Smaller(limit, Len(s))
           t == SubSeq(s, 1, w)
<1>1. s \in Seq(Event)
  BY EventsAre
<1> HIDE DEF s
<1>2. Len(s) \in Nat
  BY <1>1
<1>3. w \in Nat /\ w <= Len(s) /\ \A n \in 1 .. Len(s) : n <= limit => n <= w
  BY <1>2 DEF Smaller
<1> HIDE DEF w
<1>4. \A i \in 1 .. w : i \in 1 .. Len(s)
  BY <1>2, <1>3
<1>5. t \in Seq(Event) /\ Len(t) = w /\ \A i \in 1 .. w : t[i] = s[i]
  BY <1>1, <1>2, <1>3, <1>4
<1>6. \A n \in 1 .. Len(s) : n <= limit => n \in 1 .. w
  BY <1>2, <1>3
<1>7. Popped(r, limit) = t
  BY DEF Popped, s, w
<1> HIDE DEF t
<1> QED
  BY <1>5, <1>6, <1>7 DEF s

\* The dashboard's denies are the newest: one that is missing is older than, or as old
\* as, every one that is shown, and there are as many as were asked for; unless that
\* many were pushed after it for its own rule.
THEOREM StatsRecentNewest == Spec => []RecentNewest
<1>1. Curves => RecentNewest
  <2> SUFFICES ASSUME Typed, NEW scan \in Scans, NEW limit \in 1 .. LogLen,
                      NEW r \in Rules, NEW n \in DOMAIN Events(r), n <= limit
               PROVE  \/ Events(r)[n] \in ToSet(RecentDenies(scan, limit))
                      \/ /\ Len(RecentDenies(scan, limit)) = limit
                         /\ \A m \in DOMAIN RecentDenies(scan, limit) :
                                RecentDenies(scan, limit)[m].at >= Events(r)[n].at
    <3>1. ASSUME NEW limit \in 1 .. LogLen, NEW r \in Rules, Typed, NEW n \in DOMAIN Events(r), ~(n <= limit)
          PROVE  n > limit
      <4>1. n \in Nat /\ limit \in Nat
        BY <3>1, EventsAre
      <4> QED
        BY <3>1, <4>1
    <3> QED
      BY <3>1 DEF RecentNewest, Curves
  <2> DEFINE seqs == [i \in DOMAIN scan |-> Popped(scan[i], limit)]
             all == FlattenSeq(seqs)
             e == Events(r)[n]
  <2>1. limit \in Nat \ {0} /\ Limited(limit) = limit
    <3>1. LogLen \in Nat \ {0}
      BY StatsAssumption
    <3> QED
      BY <3>1 DEF Limited
  <2>2. RecentDenies(scan, limit) = Newest(all, limit)
    BY <2>1 DEF RecentDenies
  <2>3. /\ scan \in Seq(Rules)
        /\ \A p \in Rules : Events(p) # <<>> => \E i \in 1 .. Len(scan) : scan[i] = p
    BY ScanIs
  <2>4. Events(r) \in Seq(Event) /\ n \in 1 .. Len(Events(r)) /\ Events(r) # <<>>
    BY EventsAre
  <2>5. PICK i \in 1 .. Len(scan) : scan[i] = r
    BY <2>3, <2>4
  <2>6. /\ seqs \in Seq(Seq(Event)) /\ Len(seqs) = Len(scan) /\ seqs[i] = Popped(r, limit)
    <3>1. \A k \in 1 .. Len(scan) : Popped(scan[k], limit) \in Seq(Event)
      BY <2>1, <2>3, PoppedIs
    <3>2. Len(scan) \in Nat /\ DOMAIN scan = 1 .. Len(scan)
      BY <2>3
    <3> QED
      BY <2>5, <3>1, <3>2
  <2>7. n \in 1 .. Len(Popped(r, limit)) /\ Popped(r, limit)[n] = e
    BY <2>1, <2>4, PoppedIs
  <2> HIDE DEF seqs, e
  <2>8. all \in Seq(Event) /\ \E j \in 1 .. Len(all) : all[j] = e
    <3>1. i \in 1 .. Len(seqs) /\ n \in 1 .. Len(seqs[i]) /\ seqs[i][n] = e
      BY <2>5, <2>6, <2>7
    <3> QED
      BY <2>6, <3>1, FlattenHolds
  <2> HIDE DEF all
  <2>9. PICK j \in 1 .. Len(all) : all[j] = e
    BY <2>8
  <2>10. \/ all[j] \in ToSet(Newest(all, limit))
         \/ /\ Len(Newest(all, limit)) = limit
            /\ \A m \in DOMAIN Newest(all, limit) : Newest(all, limit)[m].at >= all[j].at
    BY <2>1, <2>8, NewestIs
  <2> QED
    BY <2>2, <2>9, <2>10 DEF e
<1> QED
  BY <1>1, AlwaysCurves, PTL
=============================================================================
