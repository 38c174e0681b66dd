--------------------------- MODULE MatcherProofs ---------------------------
(***************************************************************************)
(* The keys under which quotas are counted, whatever the rules, the        *)
(* requests and the edits.  No quota is counted for a value the request    *)
(* does not have, and what a level counts together is counted under one    *)
(* key.  A key tells which level it is of and what it counts if no text    *)
(* has a bar in it: then it can be cut at its bars, and the pairs read     *)
(* back.  At most three dimensions are declared, so that the recursion of  *)
(* FlattenSeq is unfolded three times.                                     *)
(***************************************************************************)
EXTENDS Matcher, SequenceTheorems, FiniteSetTheorems, TLAPS

\* What separates the pairs of a combination.
Bar == "|"

\* The symbols of a key: those of texts, and those Key adds.
Symbols == STRING \cup {"|", ":", "=", "_", "/", "c", "a", "g"} \cup LevelNames

\* A text without it.
BarFree(s) == s \in Seq(Symbols) /\ \A i \in 1 .. Len(s) : s[i] # Bar

\* What follows a pair in a combination: nothing, or a bar and more pairs.
Follows(s) == s \in Seq(Symbols) /\ (s = <<>> \/ s[1] = Bar)

\* Two texts that are cut at the first bar, and are the same, have the same parts.
LEMMA Cut ==
    ASSUME NEW x, NEW y, NEW r, NEW s, BarFree(x), BarFree(y), Follows(r), Follows(s),
           x \o r = y \o s
    PROVE  x = y /\ r = s
<1> DEFINE m == Len(x)
           n == Len(y)
<1>1. /\ x \in Seq(Symbols) /\ y \in Seq(Symbols) /\ r \in Seq(Symbols) /\ s \in Seq(Symbols)
      /\ m \in Nat /\ n \in Nat /\ Len(r) \in Nat /\ Len(s) \in Nat
  BY DEF BarFree, Follows
<1>2. /\ m + Len(r) = n + Len(s)
      /\ \A i \in 1 .. m + Len(r) :
            (x \o r)[i] = IF i <= m THEN x[i] ELSE r[i - m]
      /\ \A i \in 1 .. n + Len(s) :
            (x \o r)[i] = IF i <= n THEN y[i] ELSE s[i - n]
  BY <1>1, ConcatProperties
<1>3. ASSUME m < n PROVE FALSE
  <2>1. Len(r) > 0 /\ r[1] = Bar
    BY <1>1, <1>2, <1>3 DEF Follows
  <2>2. m + 1 \in 1 .. m + Len(r) /\ m + 1 \in 1 .. n /\ ~(m + 1 <= m) /\ (m + 1) - m = 1
    BY <1>1, <1>3, <2>1
  <2>3. (x \o r)[m + 1] = r[1] /\ (x \o r)[m + 1] = y[m + 1]
    BY <1>1, <1>2, <2>2
  <2> QED
    BY <2>1, <2>2, <2>3 DEF BarFree
<1>4. ASSUME n < m PROVE FALSE
  <2>1. Len(s) > 0 /\ s[1] = Bar
    BY <1>1, <1>2, <1>4 DEF Follows
  <2>2. n + 1 \in 1 .. n + Len(s) /\ n + 1 \in 1 .. m /\ ~(n + 1 <= n) /\ (n + 1) - n = 1
    BY <1>1, <1>4, <2>1
  <2>3. (x \o r)[n + 1] = s[1] /\ (x \o r)[n + 1] = x[n + 1]
    BY <1>1, <1>2, <2>2
  <2> QED
    BY <2>1, <2>2, <2>3 DEF BarFree
<1>5. m = n /\ Len(r) = Len(s)
  BY <1>1, <1>2, <1>3, <1>4
<1>6. \A i \in 1 .. m : x[i] = y[i]
  BY <1>1, <1>2, <1>5
<1>7. x = y
  BY <1>1, <1>5, <1>6, SeqEqual
<1>8. r = s
  BY <1>1, <1>7, ConcatSimplifications
<1> QED
  BY <1>7, <1>8

\* Up to three sequences in a row.
LEMMA Flattened ==
    ASSUME NEW s, Len(s) \in 1 .. 3
    PROVE  /\ Len(s) = 1 => FlattenSeq(s) = s[1]
           /\ Len(s) = 2 => FlattenSeq(s) = s[1] \o s[2]
           /\ Len(s) = 3 => FlattenSeq(s) = (s[1] \o s[2]) \o s[3]
<1> DEFINE n       == Len(s)
           J(x, y) == x \o y
           Is(g)   == g = [i \in 1 .. n |-> IF i = 1 THEN s[i] ELSE J(g[i - 1], s[i])]
           f       == CHOOSE g : Is(g)
           w       == [i \in 1 .. n |-> IF i = 1 THEN s[1]
                                        ELSE IF i = 2 THEN J(s[1], s[2])
                                        ELSE J(J(s[1], s[2]), s[3])]
<1>1. FlattenSeq(s) = f[n] /\ n \in 1 .. 3
  <2>1. n \in 1 .. 3 /\ Len(s) # 0
    OBVIOUS
  <2>2. FlattenSeq(s) = f[n]
    BY <2>1, Zenon DEF FlattenSeq
  <2> QED
    BY <2>1, <2>2, Zenon
<1> HIDE DEF J, n
<1>2. Is(w)
  <2>1. \A i \in 1 .. n : w[i] = IF i = 1 THEN s[i] ELSE J(w[i - 1], s[i])
    <3> SUFFICES ASSUME NEW i \in 1 .. n
                 PROVE  w[i] = IF i = 1 THEN s[i] ELSE J(w[i - 1], s[i])
      OBVIOUS
    <3>1. CASE i = 1
      BY <3>1
    <3>2. CASE i = 2
      <4>1. 1 \in 1 .. n /\ 2 \in 1 .. n /\ 2 - 1 = 1
        BY <1>1, <3>2
      <4> QED
        BY <3>2, <4>1
    <3>3. CASE i = 3
      <4>1. 2 \in 1 .. n /\ 3 \in 1 .. n /\ 3 - 1 = 2
        BY <1>1, <3>3
      <4> QED
        BY <3>3, <4>1
    <3> QED
      BY <1>1, <3>1, <3>2, <3>3
  <2> QED
    BY <2>1
<1>3. Is(f)
  <2> HIDE DEF Is
  <2> QED
    BY <1>2
<1> HIDE DEF f
<1>4. \A i \in 1 .. n : f[i] = IF i = 1 THEN s[i] ELSE J(f[i - 1], s[i])
  BY <1>3
<1>5. f[1] = s[1] /\ (n >= 2 => f[2] = J(s[1], s[2]))
      /\ (n = 3 => f[3] = J(J(s[1], s[2]), s[3]))
  BY <1>1, <1>4
<1>6. /\ n = 1 => FlattenSeq(s) = s[1]
      /\ n = 2 => FlattenSeq(s) = J(s[1], s[2])
      /\ n = 3 => FlattenSeq(s) = J(J(s[1], s[2]), s[3])
  BY <1>1, <1>5
<1> QED
  BY <1>6, Zenon DEF J, n

-----------------------------------------------------------------------------
(***************************************************************************)
(* The combination of the declared dimensions.                             *)
(***************************************************************************)
\* A request: a text for each dimension.
Request == [Dimensions -> Seq(Symbols)]

\* A request without a bar in its texts.
NoBarIn(q) == q \in Request /\ \A d \in Dimensions : BarFree(q[d])

\* The dimensions of a rule that was accepted.
Declarable(D) == D \in Seq(Dimensions) /\ IsInjective(D)

\* There are three dimensions.
LEMMA AtMostThree ==
    ASSUME NEW D, Declarable(D)
    PROVE  Len(D) \in 0 .. 3 /\ \A i \in 1 .. Len(D) : D[i] \in Dimensions
<1>1. Len(D) \in Nat /\ DOMAIN D = 1 .. Len(D)
  BY LenProperties DEF Declarable
<1>2. \A i \in 1 .. Len(D) : D[i] \in Dimensions
  BY ElementOfSeq DEF Declarable
<1>3. \A i, j \in 1 .. Len(D) : D[i] = D[j] => i = j
  BY <1>1 DEF Declarable, IsInjective
<1>4. ASSUME Len(D) > 3 PROVE FALSE
  <2>1. 1 \in 1 .. Len(D) /\ 2 \in 1 .. Len(D) /\ 3 \in 1 .. Len(D) /\ 4 \in 1 .. Len(D)
    BY <1>1, <1>4
  <2> DEFINE a == D[1]
             b == D[2]
             c == D[3]
             d == D[4]
  <2>2. a # b /\ a # c /\ a # d /\ b # c /\ b # d /\ c # d
    BY <1>3, <2>1
  <2>3. a \in Dimensions /\ b \in Dimensions /\ c \in Dimensions /\ d \in Dimensions
    BY <1>2, <2>1
  <2> HIDE DEF a, b, c, d
  <2> QED
    BY <2>2, <2>3 DEF Dimensions
<1> QED
  BY <1>1, <1>2, <1>4

\* A pair has no bar if its value has none.
LEMMA PairFacts ==
    ASSUME NEW d \in Dimensions, NEW q \in Request
    PROVE  /\ ShortDim(d) \in Symbols /\ ShortDim(d) # Bar
           /\ Pair(d, q) \in Seq(Symbols) /\ Pair(d, q)[1] = ShortDim(d)
           /\ Len(Pair(d, q)) = 2 + Len(q[d])
           /\ BarFree(q[d]) => BarFree(Pair(d, q))
<1>1. ShortDim(d) \in Symbols /\ ShortDim(d) # Bar /\ "=" \in Symbols /\ "=" # Bar
  <2>1. ShortDim(d) \in {"c", "a", "g"}
    BY DEF Dimensions, ShortDim
  <2> QED
    BY <2>1 DEF Symbols, Bar
<1> DEFINE h == <<ShortDim(d), "=">>
<1>2. /\ h \in Seq(Symbols) /\ Len(h) = 2 /\ h[1] = ShortDim(d) /\ h[2] = "="
  BY <1>1
<1>3. Pair(d, q) = h \o q[d] /\ q[d] \in Seq(Symbols)
  BY DEF Pair, Request
<1>4. Len(q[d]) \in Nat
  BY <1>3, LenProperties
<1>5. /\ Pair(d, q) \in Seq(Symbols) /\ Len(Pair(d, q)) = 2 + Len(q[d])
      /\ \A i \in 1 .. 2 + Len(q[d]) : Pair(d, q)[i] = IF i <= 2 THEN h[i] ELSE q[d][i - 2]
  <2> HIDE DEF h
  <2> DEFINE u == q[d]
  <2>1. /\ h \o u \in Seq(Symbols) /\ Len(h \o u) = Len(h) + Len(u)
        /\ \A i \in 1 .. Len(h) + Len(u) : (h \o u)[i] = IF i <= Len(h) THEN h[i] ELSE u[i - Len(h)]
    <3> HIDE DEF u
    <3> QED
      BY <1>2, <1>3, ConcatProperties DEF u
  <2> QED
    BY <1>2, <1>3, <2>1
<1>6. Pair(d, q)[1] = ShortDim(d)
  BY <1>2, <1>4, <1>5
<1>7. ASSUME BarFree(q[d]) PROVE BarFree(Pair(d, q))
  <2>1. ASSUME NEW i \in 1 .. 2 + Len(q[d]) PROVE Pair(d, q)[i] # Bar
    <3>1. CASE i <= 2
      <4>1. i = 1 \/ i = 2
        BY <1>4, <3>1
      <4>2. Pair(d, q)[i] = h[i]
        BY <1>5, <3>1
      <4> QED
        BY <1>1, <1>2, <4>1, <4>2
    <3>2. CASE i > 2
      <4>1. i - 2 \in 1 .. Len(q[d]) /\ Pair(d, q)[i] = q[d][i - 2]
        BY <1>4, <1>5, <3>2
      <4> QED
        BY <1>7, <4>1 DEF BarFree
    <3> QED
      BY <3>1, <3>2, <1>4
  <2> QED
    BY <1>5, <2>1 DEF BarFree
<1> QED
  BY <1>1, <1>5, <1>6, <1>7

\* A pair tells its dimension and its value.
LEMMA PairsApart ==
    ASSUME NEW d \in Dimensions, NEW e \in Dimensions, NEW q \in Request, NEW p \in Request,
           Pair(d, q) = Pair(e, p)
    PROVE  d = e /\ q[d] = p[d]
<1>1. ShortDim(d) = ShortDim(e)
  BY PairFacts
<1>2. d = e
  BY <1>1 DEF Dimensions, ShortDim
<1> DEFINE h == <<ShortDim(d), "=">>
<1>3. h \in Seq(Symbols) /\ q[d] \in Seq(Symbols) /\ p[d] \in Seq(Symbols)
  <2>1. ShortDim(d) \in Symbols /\ "=" \in Symbols
    BY PairFacts DEF Symbols
  <2> QED
    BY <2>1 DEF Request
<1>4. h \o q[d] = h \o p[d]
  BY <1>2 DEF Pair
<1> HIDE DEF h
<1> QED
  BY <1>2, <1>3, <1>4, ConcatSimplifications

\* What follows the second pair of a combination.
AfterSecond(D, q) == IF Len(D) < 3 THEN <<>> ELSE <<Bar>> \o Pair(D[3], q)

\* What follows the first.
AfterFirst(D, q) ==
    IF Len(D) < 2 THEN <<>> ELSE <<Bar>> \o (Pair(D[2], q) \o AfterSecond(D, q))

\* A combination is its first pair and what follows.
LEMMA Combined ==
    ASSUME NEW r, Declarable(r.dimensions), r.dimensions # <<>>, NEW q \in Request
    PROVE  LET D == r.dimensions IN
           /\ Len(D) \in 1 .. 3
           /\ Follows(AfterSecond(D, q)) /\ Follows(AfterFirst(D, q))
           /\ Len(D) >= 2 => Pair(D[2], q) \o AfterSecond(D, q) \in Seq(Symbols)
           /\ Combination(r, q) = Pair(D[1], q) \o AfterFirst(D, q)
<1> DEFINE D       == r.dimensions
           b       == <<Bar>>
           Part(i) == (IF i = 1 THEN <<>> ELSE <<"|">>) \o Pair(D[i], q)
           s       == [i \in DOMAIN D |-> Part(i)]
<1>1. /\ D \in Seq(Dimensions) /\ DOMAIN D = 1 .. Len(D) /\ Len(D) \in 1 .. 3
      /\ \A i \in 1 .. Len(D) : D[i] \in Dimensions
  <2>1. D \in Seq(Dimensions) /\ DOMAIN D = 1 .. Len(D) /\ Len(D) # 0
    BY LenProperties, EmptySeq DEF Declarable
  <2> QED
    BY <2>1, AtMostThree
<1> DEFINE n == Len(D)
           P(i) == Pair(D[i], q)
<1>2. /\ \A i \in 1 .. n : P(i) \in Seq(Symbols)
      /\ b \in Seq(Symbols) /\ b[1] = Bar /\ Len(b) = 1 /\ b # <<>>
  <2>1. Bar \in Symbols
    BY DEF Bar, Symbols
  <2> QED
    BY <1>1, <2>1, PairFacts
<1>3. ASSUME NEW x \in Seq(Symbols)
      PROVE  Follows(b \o x) /\ b \o x \in Seq(Symbols) /\ b \o x # <<>>
  <2> HIDE DEF b
  <2>1. Len(x) \in Nat
    BY LenProperties
  <2>2. /\ b \o x \in Seq(Symbols)
        /\ \A i \in 1 .. Len(b) + Len(x) :
               (b \o x)[i] = IF i <= Len(b) THEN b[i] ELSE x[i - Len(b)]
    BY <1>2, ConcatProperties
  <2>3. 1 \in 1 .. Len(b) + Len(x) /\ 1 <= Len(b)
    BY <1>2, <2>1
  <2>4. (b \o x)[1] = b[1]
    BY <2>2, <2>3
  <2>5. b \o x # <<>>
    BY <1>2, ConcatEqualIffEmpty
  <2> QED
    BY <1>2, <2>2, <2>4, <2>5 DEF Follows
<1>4. Follows(<<>>)
  BY EmptySeq DEF Follows
<1>5. Follows(AfterSecond(D, q)) /\ AfterSecond(D, q) \in Seq(Symbols)
  <2>1. CASE n < 3
    BY <1>4, <2>1 DEF AfterSecond, Follows
  <2>2. CASE ~(n < 3)
    <3>1. AfterSecond(D, q) = b \o P(3)
      BY <2>2 DEF AfterSecond
    <3>2. P(3) \in Seq(Symbols)
      BY <1>1, <1>2, <2>2
    <3> HIDE DEF b, P
    <3> QED
      BY <1>3, <3>1, <3>2
  <2> QED
    BY <2>1, <2>2
<1>6. n >= 2 => P(2) \o AfterSecond(D, q) \in Seq(Symbols)
  <2> HIDE DEF P, D
  <2> QED
    BY <1>1, <1>2, <1>5, ConcatProperties
<1>7. Follows(AfterFirst(D, q))
  <2>1. CASE n < 2
    BY <1>4, <2>1 DEF AfterFirst
  <2>2. CASE ~(n < 2)
    <3>1. AfterFirst(D, q) = b \o (P(2) \o AfterSecond(D, q))
      BY <2>2 DEF AfterFirst
    <3>2. P(2) \o AfterSecond(D, q) \in Seq(Symbols)
      BY <1>1, <1>6, <2>2
    <3> HIDE DEF b, P
    <3> QED
      BY <1>3, <3>1, <3>2
  <2> QED
    BY <2>1, <2>2
<1>8. Combination(r, q) = P(1) \o AfterFirst(D, q)
  <2>1. Combination(r, q) = FlattenSeq(s)
    BY DEF Combination
  <2>2. Len(s) = n /\ \A i \in 1 .. n : s[i] = Part(i)
    BY <1>1
  <2>0. /\ n = 1 => FlattenSeq(s) = s[1]
        /\ n = 2 => FlattenSeq(s) = s[1] \o s[2]
        /\ n = 3 => FlattenSeq(s) = (s[1] \o s[2]) \o s[3]
    <3> HIDE DEF s, n, D
    <3>1. Len(s) \in 1 .. 3
      BY <1>1, <2>2 DEF n
    <3>2. /\ Len(s) = 1 => FlattenSeq(s) = s[1]
          /\ Len(s) = 2 => FlattenSeq(s) = s[1] \o s[2]
          /\ Len(s) = 3 => FlattenSeq(s) = (s[1] \o s[2]) \o s[3]
      BY <3>1, Flattened, Zenon
    <3> QED
      BY <2>2, <3>2, Zenon
  <2>3. Part(1) = P(1) /\ \A i \in 2 .. n : Part(i) = b \o P(i)
    <3>1. P(1) \in Seq(Symbols)
      BY <1>1, <1>2
    <3>2. <<>> \o P(1) = P(1)
      BY <3>1, ConcatEmptySeq
    <3> QED
      BY <3>2 DEF Bar
  <2>4. CASE n = 1
    <3>0. s[1] = P(1)
      <4> HIDE DEF s, P, b, Part
      <4> QED
        BY <2>2, <2>3, <2>4
    <3>1. FlattenSeq(s) = P(1)
      BY <2>0, <2>4, <3>0, Zenon
    <3>2. AfterFirst(D, q) = <<>>
      BY <2>4 DEF AfterFirst
    <3>3. P(1) \o <<>> = P(1)
      BY <1>1, <1>2, ConcatEmptySeq
    <3> QED
      BY <2>1, <3>1, <3>2, <3>3
  <2>5. CASE n = 2
    <3>0. s[1] = P(1) /\ s[2] = b \o P(2)
      <4> HIDE DEF s, P, b, Part
      <4> QED
        BY <2>2, <2>3, <2>5
    <3>1. FlattenSeq(s) = P(1) \o (b \o P(2))
      BY <2>0, <2>5, <3>0, Zenon
    <3>2. AfterFirst(D, q) = b \o (P(2) \o <<>>)
      BY <2>5 DEF AfterFirst, AfterSecond
    <3>3. P(2) \o <<>> = P(2)
      BY <1>1, <1>2, <2>5, ConcatEmptySeq
    <3> QED
      BY <2>1, <3>1, <3>2, <3>3
  <2>6. CASE n = 3
    <3>0. s[1] = P(1) /\ s[2] = b \o P(2) /\ s[3] = b \o P(3)
      <4> HIDE DEF s, P, b, Part
      <4> QED
        BY <2>2, <2>3, <2>6
    <3>1. FlattenSeq(s) = (P(1) \o (b \o P(2))) \o (b \o P(3))
      BY <2>0, <2>6, <3>0, Zenon
    <3>2. AfterFirst(D, q) = b \o (P(2) \o (b \o P(3)))
      BY <2>6 DEF AfterFirst, AfterSecond
    <3>3. P(1) \in Seq(Symbols) /\ P(2) \in Seq(Symbols) /\ P(3) \in Seq(Symbols)
      BY <1>1, <1>2, <2>6
    <3> HIDE DEF P, b, s
    <3>4. b \o P(3) \in Seq(Symbols) /\ b \o P(2) \in Seq(Symbols)
      BY <1>3, <3>3
    <3> DEFINE u == b \o P(2)
               v == b \o P(3)
    <3>5. (P(1) \o u) \o v = P(1) \o (u \o v)
      <4>1. P(1) \in Seq(Symbols) /\ u \in Seq(Symbols) /\ v \in Seq(Symbols)
        BY <3>3, <3>4
      <4> HIDE DEF u, v
      <4> QED
        BY <4>1, ConcatAssociative
    <3>6. u \o v = b \o (P(2) \o v)
      <4> DEFINE p == P(2)
      <4>1. b \in Seq(Symbols) /\ p \in Seq(Symbols) /\ v \in Seq(Symbols)
        BY <1>2, <3>3, <3>4
      <4> HIDE DEF v, p
      <4>2. (b \o p) \o v = b \o (p \o v)
        BY <4>1, ConcatAssociative
      <4> QED
        BY <4>2 DEF p
    <3> QED
      BY <2>1, <3>1, <3>2, <3>5, <3>6
  <2> QED
    BY <1>1, <2>4, <2>5, <2>6
<1> QED
  BY <1>1, <1>5, <1>6, <1>7, <1>8

\* Without bars in their values, two combinations are equal only if the rules declare
\* the same dimensions and the requests have the same values.
LEMMA CombinationsApart ==
    ASSUME NEW r, NEW s, Declarable(r.dimensions), Declarable(s.dimensions),
           r.dimensions # <<>>, s.dimensions # <<>>,
           NEW q, NEW p, NoBarIn(q), NoBarIn(p),
           Combination(r, q) = Combination(s, p)
    PROVE  /\ ToSet(r.dimensions) = ToSet(s.dimensions)
           /\ \A d \in ToSet(r.dimensions) : q[d] = p[d]
<1> DEFINE D == r.dimensions
           E == s.dimensions
<1>1. q \in Request /\ p \in Request
  BY DEF NoBarIn
<1>2. /\ Len(D) \in 1 .. 3 /\ Len(E) \in 1 .. 3
      /\ DOMAIN D = 1 .. Len(D) /\ DOMAIN E = 1 .. Len(E)
      /\ \A i \in 1 .. Len(D) : D[i] \in Dimensions
      /\ \A i \in 1 .. Len(E) : E[i] \in Dimensions
  BY <1>1, Combined, AtMostThree, LenProperties DEF Declarable
<1>3. ASSUME NEW d \in Dimensions PROVE BarFree(Pair(d, q)) /\ BarFree(Pair(d, p))
  BY PairFacts DEF NoBarIn
<1>4. /\ Follows(AfterFirst(D, q)) /\ Follows(AfterFirst(E, p))
      /\ Follows(AfterSecond(D, q)) /\ Follows(AfterSecond(E, p))
      /\ Pair(D[1], q) \o AfterFirst(D, q) = Pair(E[1], p) \o AfterFirst(E, p)
      /\ Len(D) >= 2 => Pair(D[2], q) \o AfterSecond(D, q) \in Seq(Symbols)
      /\ Len(E) >= 2 => Pair(E[2], p) \o AfterSecond(E, p) \in Seq(Symbols)
  BY <1>1, Combined, Zenon
<1>5. Pair(D[1], q) = Pair(E[1], p) /\ AfterFirst(D, q) = AfterFirst(E, p)
  <2> DEFINE x == Pair(D[1], q)
             y == Pair(E[1], p)
             u == AfterFirst(D, q)
             v == AfterFirst(E, p)
  <2>1. BarFree(x) /\ BarFree(y)
    BY <1>2, <1>3
  <2>2. Follows(u) /\ Follows(v) /\ x \o u = y \o v
    BY <1>4, Zenon
  <2> HIDE DEF x, y, u, v
  <2>3. x = y /\ u = v
    BY <2>1, <2>2, Cut
  <2> QED
    BY <2>3, Zenon DEF x, y, u, v
<1>6. <<Bar>> \in Seq(Symbols) /\ Len(<<Bar>>) = 1 /\ <<Bar>> # <<>>
  BY DEF Bar, Symbols
<1>7. ASSUME NEW x \in Seq(Symbols) PROVE <<Bar>> \o x # <<>>
  BY <1>6, ConcatEqualIffEmpty
<1>8. Len(D) >= 2 <=> Len(E) >= 2
  <2>1. Len(D) < 2 <=> AfterFirst(D, q) = <<>>
    BY <1>2, <1>4, <1>7 DEF AfterFirst
  <2>2. Len(E) < 2 <=> AfterFirst(E, p) = <<>>
    BY <1>2, <1>4, <1>7 DEF AfterFirst
  <2> QED
    BY <1>2, <1>5, <2>1, <2>2
<1>9. ASSUME Len(D) >= 2
      PROVE  Pair(D[2], q) = Pair(E[2], p) /\ AfterSecond(D, q) = AfterSecond(E, p)
  <2> DEFINE x == Pair(D[2], q) \o AfterSecond(D, q)
             y == Pair(E[2], p) \o AfterSecond(E, p)
  <2>0. ~(Len(D) < 2) /\ ~(Len(E) < 2)
    BY <1>2, <1>8, <1>9
  <2>1. <<Bar>> \o x = <<Bar>> \o y
    <3>1. AfterFirst(D, q) = <<Bar>> \o x
      BY <2>0, Zenon DEF AfterFirst
    <3>2. AfterFirst(E, p) = <<Bar>> \o y
      BY <2>0, Zenon DEF AfterFirst
    <3> QED
      BY <1>5, <3>1, <3>2, Zenon
  <2>2. x \in Seq(Symbols) /\ y \in Seq(Symbols)
    BY <1>4, <1>8, <1>9
  <2>3. x = y
    <3> HIDE DEF x, y
    <3> QED
      BY <1>6, <2>1, <2>2, ConcatSimplifications
  <2> DEFINE a == Pair(D[2], q)
             b == Pair(E[2], p)
             u == AfterSecond(D, q)
             v == AfterSecond(E, p)
  <2>4. BarFree(a) /\ BarFree(b)
    BY <1>2, <1>3, <1>8, <1>9
  <2>5. Follows(u) /\ Follows(v) /\ a \o u = b \o v
    BY <1>4, <2>3, Zenon
  <2> HIDE DEF a, b, u, v
  <2>6. a = b /\ u = v
    BY <2>4, <2>5, Cut
  <2> QED
    BY <2>6, Zenon DEF a, b, u, v
<1>10. Len(D) >= 3 <=> Len(E) >= 3
  <2>1. \A i \in 1 .. 3 : /\ Len(D) >= i => Pair(D[i], q) \in Seq(Symbols)
                          /\ Len(E) >= i => Pair(E[i], p) \in Seq(Symbols)
    BY <1>1, <1>2, PairFacts
  <2>2. Len(D) < 3 <=> AfterSecond(D, q) = <<>>
    BY <1>2, <1>7, <2>1 DEF AfterSecond
  <2>3. Len(E) < 3 <=> AfterSecond(E, p) = <<>>
    BY <1>2, <1>7, <2>1 DEF AfterSecond
  <2> QED
    BY <1>2, <1>8, <1>9, <2>2, <2>3
<1>11. ASSUME Len(D) >= 3 PROVE Pair(D[3], q) = Pair(E[3], p)
  <2> DEFINE x == Pair(D[3], q)
             y == Pair(E[3], p)
  <2>0. ~(Len(D) < 3) /\ ~(Len(E) < 3) /\ Len(D) >= 2
    BY <1>2, <1>10, <1>11
  <2>1. <<Bar>> \o x = <<Bar>> \o y
    <3>1. AfterSecond(D, q) = <<Bar>> \o x
      BY <2>0, Zenon DEF AfterSecond
    <3>2. AfterSecond(E, p) = <<Bar>> \o y
      BY <2>0, Zenon DEF AfterSecond
    <3> QED
      BY <1>9, <2>0, <3>1, <3>2, Zenon
  <2>2. x \in Seq(Symbols) /\ y \in Seq(Symbols)
    BY <1>1, <1>2, <1>10, <1>11, PairFacts
  <2>3. x = y
    <3> HIDE DEF x, y
    <3> QED
      BY <1>6, <2>1, <2>2, ConcatSimplifications
  <2> QED
    BY <2>3, Zenon
<1>12. /\ Len(D) = Len(E)
       /\ \A i \in 1 .. Len(D) : Pair(D[i], q) = Pair(E[i], p)
  BY <1>2, <1>5, <1>8, <1>9, <1>10, <1>11
<1>13. \A i \in 1 .. Len(D) : D[i] = E[i] /\ q[D[i]] = p[D[i]]
  BY <1>1, <1>2, <1>12, PairsApart
<1> QED
  BY <1>2, <1>12, <1>13 DEF ToSet

\* A combination is a sequence of symbols.
LEMMA CombinedTyped ==
    ASSUME NEW r, Declarable(r.dimensions), r.dimensions # <<>>, NEW q \in Request
    PROVE  Combination(r, q) \in Seq(Symbols)
<1> DEFINE D == r.dimensions
           x == Pair(D[1], q)
           y == AfterFirst(D, q)
<1>1. Len(D) \in 1 .. 3 /\ Follows(y) /\ Combination(r, q) = x \o y
  BY Combined, Zenon
<1>2. x \in Seq(Symbols)
  BY <1>1, AtMostThree, PairFacts
<1>3. y \in Seq(Symbols)
  BY <1>1 DEF Follows
<1> HIDE DEF x, y
<1> QED
  BY <1>1, <1>2, <1>3, ConcatProperties

\* Requests with the same values have the same combination.
LEMMA CombinationsTogether ==
    ASSUME NEW r, NEW q, NEW p, \A d \in ToSet(r.dimensions) : q[d] = p[d]
    PROVE  Combination(r, q) = Combination(r, p)
<1> DEFINE D == r.dimensions
<1>1. \A i \in DOMAIN D : D[i] \in ToSet(D)
  BY DEF ToSet
<1>2. \A i \in DOMAIN D : Pair(D[i], q) = Pair(D[i], p)
  BY <1>1, Zenon DEF Pair
<1>3. [i \in DOMAIN D |-> (IF i = 1 THEN <<>> ELSE <<"|">>) \o Pair(D[i], q)]
        = [i \in DOMAIN D |-> (IF i = 1 THEN <<>> ELSE <<"|">>) \o Pair(D[i], p)]
  BY <1>2, Zenon
<1> QED
  BY <1>3, Zenon DEF Combination

-----------------------------------------------------------------------------
(***************************************************************************)
(* Keys.                                                                   *)
(***************************************************************************)
\* What createRule and updateRule accept.
Sound(p) == KnownLevels(p) /\ Validate(p)

\* What a level counts of a request.
Values(p, lv, q) == [d \in CountedDims(p, lv) |-> q[d]]

\* A sound rule declares what its levels count.
LEMMA SoundRules ==
    ASSUME NEW p \in Payloads, Sound(p), NEW lv \in DOMAIN p.levels
    PROVE  /\ Declarable(p.dimensions) /\ lv \in LevelNames
           /\ CountedDims(p, lv) \subseteq ToSet(p.dimensions)
           /\ CountedDims(p, lv) \subseteq Dimensions
           /\ lv = "client" => /\ p.dimensions # <<>>
                               /\ CountedDims(p, lv) = ToSet(p.dimensions)
<1>1. p.dimensions \in Seq(STRING)
  BY MatcherAssumption
<1>2. ToSet(p.dimensions) \subseteq Dimensions /\ Declarable(p.dimensions)
  <2> DEFINE D == p.dimensions
  <2>1. ToSet(D) \subseteq Dimensions /\ IsInjective(D)
    BY DEF Sound, Validate, DimensionsOK
  <2> HIDE DEF D
  <2>2. Len(D) \in Nat /\ D \in [1 .. Len(D) -> STRING] /\ DOMAIN D = 1 .. Len(D)
    BY <1>1, LenProperties DEF D
  <2>3. \A i \in 1 .. Len(D) : D[i] \in Dimensions
    BY <2>1, <2>2 DEF ToSet
  <2>4. D \in Seq(Dimensions)
    BY <2>2, <2>3
  <2> QED
    BY <2>1, <2>4 DEF D, Declarable
<1>3. lv \in LevelNames
  BY DEF Sound, KnownLevels
<1>4. Declared(p, lv)
  BY <1>3 DEF Sound, Validate
<1>5. CountedDims(p, lv) \subseteq ToSet(p.dimensions)
  BY <1>3, <1>4 DEF CountedDims, Declared, LevelNames
<1>6. ASSUME lv = "client" PROVE p.dimensions # <<>> /\ CountedDims(p, lv) = ToSet(p.dimensions)
  <2>1. "client_id" \in ToSet(p.dimensions)
    BY <1>4, <1>6 DEF Declared
  <2>2. p.dimensions # <<>>
    <3>1. PICK i \in DOMAIN p.dimensions : p.dimensions[i] = "client_id"
      BY <2>1 DEF ToSet
    <3>2. Len(p.dimensions) \in Nat /\ i \in 1 .. Len(p.dimensions)
      BY <1>1, <3>1, LenProperties
    <3> QED
      BY <1>1, <3>2, EmptySeq
  <2> QED
    BY <1>6, <2>1, <2>2 DEF CountedDims
<1> QED
  BY <1>2, <1>3, <1>5, <1>6

\* A request as the handler completes it.
LEMMA Completed ==
    ASSUME NEW q \in Contexts
    PROVE  /\ Normal(q) \in Request
           /\ (\A d \in Dimensions : \A i \in DOMAIN q[d] : q[d][i] # Bar) => NoBarIn(Normal(q))
<1>1. q \in [Dimensions -> Seq(STRING)]
  BY MatcherAssumption
<1>2. STRING \subseteq Symbols
  BY DEF Symbols
<1>3. \A s \in Seq(STRING) : s \in Seq(Symbols)
  BY <1>2, SeqMonotonic
<1> DEFINE slash == <<"/">>
<1>4. slash \in Seq(Symbols) /\ Len(slash) = 1 /\ slash[1] # Bar
  <2>1. "/" \in Symbols
    BY DEF Symbols
  <2> QED
    BY <2>1 DEF Bar
<1>5. BarFree(slash)
  BY <1>4 DEF BarFree
<1> HIDE DEF slash
<1>6. /\ Normal(q) = [d \in Dimensions |->
                        IF d = "api_path" /\ q[d] = Blank THEN slash ELSE q[d]]
  BY <1>1 DEF Normal, Dimensions, slash
<1>7. Normal(q) \in Request
  BY <1>1, <1>3, <1>4, <1>6 DEF Request
<1>8. ASSUME \A d \in Dimensions : \A i \in DOMAIN q[d] : q[d][i] # Bar PROVE NoBarIn(Normal(q))
  <2>1. ASSUME NEW d \in Dimensions PROVE BarFree(q[d])
    <3>1. q[d] \in Seq(STRING)
      BY <1>1
    <3>2. DOMAIN q[d] = 1 .. Len(q[d])
      BY <3>1, LenProperties
    <3> QED
      BY <1>3, <1>8, <3>1, <3>2 DEF BarFree
  <2> QED
    BY <1>5, <1>6, <1>7, <2>1 DEF NoBarIn
<1> QED
  BY <1>7, <1>8

\* A key tells its level, and what follows.
LEMMA Keys ==
    ASSUME NEW p \in Payloads, Sound(p), NEW lv \in DOMAIN p.levels, NEW q \in Request
    PROVE  \E body \in Seq(Symbols) :
              /\ Key(p, lv, q) = <<lv, ":">> \o body
              /\ lv = "group" => body = Pair("group", q)
              /\ lv = "api" => body = Pair("api_path", q)
              /\ lv = "client" => body = Combination(p, q)
<1>1. lv \in LevelNames /\ (lv = "client" => p.dimensions # <<>>) /\ Declarable(p.dimensions)
  BY SoundRules
<1>2. CASE lv = "global"
  <2> DEFINE b == <<"_">>
  <2>1. b \in Seq(Symbols)
    <3> DEFINE u == "_"
    <3>1. u \in Symbols
      BY DEF Symbols
    <3> HIDE DEF u
    <3>2. <<u>> \in Seq(Symbols)
      BY <3>1
    <3> QED
      BY <3>2 DEF u
  <2>2. Key(p, lv, q) = <<lv, ":">> \o b
    BY <1>2 DEF Key
  <2> QED
    BY <1>2, <2>1, <2>2
<1>3. CASE lv = "group"
  <2>1. Pair("group", q) \in Seq(Symbols)
    BY PairFacts DEF Dimensions
  <2>2. Key(p, lv, q) = <<lv, ":">> \o Pair("group", q)
    BY <1>3 DEF Key
  <2> QED
    BY <1>3, <2>1, <2>2
<1>4. CASE lv = "api"
  <2>1. Pair("api_path", q) \in Seq(Symbols)
    BY PairFacts DEF Dimensions
  <2>2. Key(p, lv, q) = <<lv, ":">> \o Pair("api_path", q)
    BY <1>4 DEF Key
  <2> QED
    BY <1>4, <2>1, <2>2
<1>5. CASE lv = "client"
  <2>1. Combination(p, q) \in Seq(Symbols)
    BY <1>1, <1>5, CombinedTyped
  <2>2. Key(p, lv, q) = <<lv, ":">> \o Combination(p, q)
    BY <1>1, <1>5 DEF Key
  <2> QED
    BY <1>5, <2>1, <2>2
<1> QED
  BY <1>1, <1>2, <1>3, <1>4, <1>5 DEF LevelNames

\* Without bars in the requests, keys are equal only if they count the same.
LEMMA KeysApart ==
    ASSUME NEW p \in Payloads, Sound(p), NEW lv \in DOMAIN p.levels, NEW q \in Request,
           NEW s \in Payloads, Sound(s), NEW mv \in DOMAIN s.levels, NEW t \in Request,
           NoBarIn(q), NoBarIn(t), Key(p, lv, q) = Key(s, mv, t)
    PROVE  lv = mv /\ Values(p, lv, q) = Values(s, mv, t)
<1>1. PICK x \in Seq(Symbols) :
          /\ Key(p, lv, q) = <<lv, ":">> \o x
          /\ lv = "group" => x = Pair("group", q)
          /\ lv = "api" => x = Pair("api_path", q)
          /\ lv = "client" => x = Combination(p, q)
  BY Keys, Zenon
<1>2. PICK y \in Seq(Symbols) :
          /\ Key(s, mv, t) = <<mv, ":">> \o y
          /\ mv = "group" => y = Pair("group", t)
          /\ mv = "api" => y = Pair("api_path", t)
          /\ mv = "client" => y = Combination(s, t)
  BY Keys, Zenon
<1>3. /\ lv \in LevelNames /\ mv \in LevelNames
      /\ Declarable(p.dimensions) /\ Declarable(s.dimensions)
  BY SoundRules
<1> DEFINE g == <<lv, ":">>
           h == <<mv, ":">>
<1>4. /\ g \in Seq(Symbols) /\ h \in Seq(Symbols)
      /\ Len(g) = 2 /\ Len(h) = 2 /\ g[1] = lv /\ h[1] = mv
  <2>1. lv \in Symbols /\ mv \in Symbols /\ ":" \in Symbols
    BY <1>3 DEF Symbols
  <2> QED
    BY <2>1
<1>5. g \o x = h \o y
  BY <1>1, <1>2, Zenon
<1>6. lv = mv
  <2> HIDE DEF g, h
  <2>1. (g \o x)[1] = g[1] /\ (h \o y)[1] = h[1]
    BY <1>4, ConcatProperties, LenProperties
  <2> QED
    BY <1>4, <1>5, <2>1
<1>7. x = y
  <2>1. g = h
    BY <1>6
  <2> HIDE DEF g, h
  <2> QED
    BY <1>4, <1>5, <2>1, ConcatSimplifications
<1>8. CASE lv = "global"
  BY <1>6, <1>8 DEF Values, CountedDims
<1>9. CASE lv = "group"
  <2>1. q["group"] = t["group"]
    BY <1>1, <1>2, <1>6, <1>7, <1>9, PairsApart DEF Dimensions
  <2>2. CountedDims(p, lv) = {"group"} /\ CountedDims(s, mv) = {"group"}
    BY <1>6, <1>9 DEF CountedDims
  <2> QED
    BY <1>6, <2>1, <2>2 DEF Values
<1>10. CASE lv = "api"
  <2>1. q["api_path"] = t["api_path"]
    BY <1>1, <1>2, <1>6, <1>7, <1>10, PairsApart DEF Dimensions
  <2>2. CountedDims(p, lv) = {"api_path"} /\ CountedDims(s, mv) = {"api_path"}
    BY <1>6, <1>10 DEF CountedDims
  <2> QED
    BY <1>6, <2>1, <2>2 DEF Values
<1>11. CASE lv = "client"
  <2>1. /\ p.dimensions # <<>> /\ CountedDims(p, lv) = ToSet(p.dimensions)
        /\ s.dimensions # <<>> /\ CountedDims(s, mv) = ToSet(s.dimensions)
    BY <1>6, <1>11, SoundRules
  <2>2. Combination(p, q) = Combination(s, t)
    BY <1>1, <1>2, <1>6, <1>7, <1>11, Zenon
  <2>3. /\ ToSet(p.dimensions) = ToSet(s.dimensions)
        /\ \A d \in ToSet(p.dimensions) : q[d] = t[d]
    BY <1>3, <2>1, <2>2, CombinationsApart, Zenon
  <2> QED
    BY <1>6, <2>1, <2>3 DEF Values
<1> QED
  BY <1>3, <1>6, <1>8, <1>9, <1>10, <1>11 DEF LevelNames

\* What a level counts together has one key.
LEMMA KeysTogether ==
    ASSUME NEW p \in Payloads, Sound(p), NEW lv \in DOMAIN p.levels, NEW q, NEW t,
           Values(p, lv, q) = Values(p, lv, t)
    PROVE  Key(p, lv, q) = Key(p, lv, t)
<1>1. \A d \in CountedDims(p, lv) : q[d] = t[d]
  <2>1. \A d \in CountedDims(p, lv) : Values(p, lv, q)[d] = q[d] /\ Values(p, lv, t)[d] = t[d]
    BY DEF Values
  <2> QED
    BY <2>1
<1>2. lv \in LevelNames /\ (lv = "client" => /\ p.dimensions # <<>>
                                             /\ CountedDims(p, lv) = ToSet(p.dimensions))
  BY SoundRules
<1>3. lv = "group" => Pair("group", q) = Pair("group", t)
  <2> SUFFICES ASSUME lv = "group" PROVE q["group"] = t["group"]
    BY Zenon DEF Pair
  <2> QED
    BY <1>1 DEF CountedDims
<1>4. lv = "api" => Pair("api_path", q) = Pair("api_path", t)
  <2> SUFFICES ASSUME lv = "api" PROVE q["api_path"] = t["api_path"]
    BY Zenon DEF Pair
  <2> QED
    BY <1>1 DEF CountedDims
<1>5. lv = "client" => Combination(p, q) = Combination(p, t)
  BY <1>1, <1>2, CombinationsTogether
<1> DEFINE B(r) == CASE lv = "global" -> <<"_">>
                     [] lv = "group"  -> Pair("group", r)
                     [] lv = "api"    -> Pair("api_path", r)
                     [] lv = "client" -> IF p.dimensions = <<>> THEN Pair("client_id", r)
                                         ELSE Combination(p, r)
<1>6. B(q) = B(t)
  BY <1>2, <1>3, <1>4, <1>5 DEF LevelNames
<1> QED
  BY <1>6, Zenon DEF Key

-----------------------------------------------------------------------------
(***************************************************************************)
(* The invariant: every charge was made by a version of the rule, each of  *)
(* which was accepted, for a request that version matches.                 *)
(***************************************************************************)
\* The charge was made by the rule p.
Made(c, p) ==
    \E q \in Contexts : \E lv \in DOMAIN p.levels :
        /\ Matches(p, Normal(q))
        /\ c.level = lv
        /\ c.key = Key(p, lv, Normal(q))
        /\ c.values = Values(p, lv, Normal(q))

\* The rules that are accepted.
Accepted == {p \in Payloads : Sound(p)}

\* R are the versions there have been.
History(R) ==
    /\ R \in [1 .. version -> Accepted]
    /\ version > 0 => R[version] = rule
    /\ \A c \in charges : c.version \in 1 .. version /\ Made(c, R[c.version])

\* There is such a history.
Inv == version \in Nat /\ \E R : History(R)

\* Every run keeps it.
LEMMA InvHolds == Spec => []Inv
<1>1. Init => Inv
  <2> SUFFICES ASSUME Init PROVE Inv
    OBVIOUS
  <2> DEFINE R == [i \in 1 .. 0 |-> NoRule]
  <2>1. History(R)
    BY DEF Init, History
  <2> QED
    BY <2>1 DEF Inv, Init
<1>2. Inv /\ [Next]_vars => Inv'
  <2> SUFFICES ASSUME Inv, [Next]_vars PROVE Inv'
    OBVIOUS
  <2>1. PICK R : History(R)
    BY DEF Inv
  <2>2. version \in Nat
    BY DEF Inv
  <2>3. ASSUME NEW p \in Payloads, Submit(p) PROVE Inv'
    <3> DEFINE S == [i \in 1 .. version + 1 |-> IF i = version + 1 THEN p ELSE R[i]]
    <3>1. /\ version' = version + 1 /\ rule' = p /\ charges' = charges /\ p \in Accepted
      BY <2>3 DEF Submit, Accepted, Sound
    <3>2. R \in [1 .. version -> Accepted]
          /\ \A c \in charges : c.version \in 1 .. version /\ Made(c, R[c.version])
      BY <2>1 DEF History
    <3>3. S \in [1 .. version + 1 -> Accepted] /\ S[version + 1] = p
          /\ \A i \in 1 .. version : S[i] = R[i]
      BY <2>2, <3>1, <3>2
    <3> HIDE DEF S
    <3>4. PICK T : /\ T \in [1 .. version + 1 -> Accepted] /\ T[version + 1] = p
                   /\ \A i \in 1 .. version : T[i] = R[i]
      BY <3>3
    <3>5. \A c \in charges : c.version \in 1 .. version + 1 /\ Made(c, T[c.version])
      BY <2>2, <3>2, <3>4
    <3>6. History(T)'
      BY <3>1, <3>4, <3>5 DEF History, Made
    <3>7. version' \in Nat
      BY <2>2, <3>1
    <3> QED
      BY <3>6, <3>7 DEF Inv
  <2>4. ASSUME NEW q \in Contexts, Serve(q) PROVE Inv'
    <3>1. /\ version' = version /\ rule' = rule /\ version > 0 /\ Matches(rule, Normal(q))
          /\ charges' = charges \cup {Charge(rule, lv, Normal(q)) : lv \in DOMAIN rule.levels}
      BY <2>4 DEF Serve
    <3>2. /\ R \in [1 .. version -> Accepted] /\ R[version] = rule
          /\ \A c \in charges : c.version \in 1 .. version /\ Made(c, R[c.version])
      BY <2>1, <3>1 DEF History
    <3>3. ASSUME NEW lv \in DOMAIN rule.levels
          PROVE  LET c == Charge(rule, lv, Normal(q))
                 IN  c.version \in 1 .. version /\ Made(c, R[c.version])
      <4> DEFINE c == Charge(rule, lv, Normal(q))
      <4>1. /\ c.version = version /\ c.level = lv /\ c.key = Key(rule, lv, Normal(q))
            /\ c.values = Values(rule, lv, Normal(q))
        BY DEF Charge, Values
      <4>2. Made(c, rule)
        <5> HIDE DEF c
        <5> QED
          BY <3>1, <4>1 DEF Made
      <4>3. version \in 1 .. version
        BY <2>2, <3>1
      <4> QED
        BY <3>2, <4>1, <4>2, <4>3
    <3>4. \A c \in charges' : c.version \in 1 .. version /\ Made(c, R[c.version])
      BY <3>1, <3>2, <3>3
    <3>5. History(R)'
      BY <3>1, <3>2, <3>4 DEF History, Made
    <3> QED
      BY <2>2, <3>1, <3>5 DEF Inv
  <2>5. ASSUME UNCHANGED vars PROVE Inv'
    <3>1. version' = version /\ rule' = rule /\ charges' = charges
      BY <2>5 DEF vars
    <3>2. History(R)'
      BY <2>1, <3>1 DEF History, Made
    <3> QED
      BY <2>2, <3>1, <3>2 DEF Inv
  <2> QED
    BY <2>3, <2>4, <2>5 DEF Next
<1> QED
  BY <1>1, <1>2, PTL DEF Spec

\* Every charge of a state, with the rule and the request it was made for.
LEMMA ChargesMade ==
    ASSUME Inv
    PROVE  \E R \in [1 .. version -> Accepted] :
              \A c \in charges : c.version \in 1 .. version /\ Made(c, R[c.version])
BY DEF Inv, History

\* No quota is counted for a value the request does not have: Validate has every
\* counted dimension declared, and Matches has a value for every declared one
\* (rule.go, Validate; matcher.go, Matches and Key).
THEOREM AttributableHolds == Spec => []Attributable
<1>1. Inv => Attributable
  <2> SUFFICES ASSUME Inv, NEW c \in charges, NEW d \in DOMAIN c.values
               PROVE  c.values[d] # Blank
    BY DEF Attributable
  <2>1. PICK p \in Accepted : Made(c, p)
    BY ChargesMade
  <2>2. PICK q \in Contexts, lv \in DOMAIN p.levels :
            Matches(p, Normal(q)) /\ c.values = Values(p, lv, Normal(q))
    BY <2>1, Zenon DEF Made
  <2>3. p \in Payloads /\ Sound(p)
    BY DEF Accepted
  <2>4. d \in CountedDims(p, lv) /\ c.values[d] = Normal(q)[d]
    BY <2>2 DEF Values
  <2>5. d \in ToSet(p.dimensions)
    BY <2>3, <2>4, SoundRules
  <2> QED
    BY <2>2, <2>4, <2>5 DEF Matches
<1> QED
  BY <1>1, InvHolds, PTL

\* Whatever the texts, what a level of a version counts together it counts under one
\* key (matcher.go, Key).
THEOREM CountsTogetherHolds == Spec => []CountsTogether
<1>1. Inv => CountsTogether
  <2> SUFFICES ASSUME Inv, NEW c \in charges, NEW d \in charges,
                      c.version = d.version, c.level = d.level, c.values = d.values
               PROVE  c.key = d.key
    BY DEF CountsTogether
  <2>1. PICK p \in Accepted : Made(c, p) /\ Made(d, p)
    BY ChargesMade
  <2>2. PICK q \in Contexts, lv \in DOMAIN p.levels :
            c.level = lv /\ c.key = Key(p, lv, Normal(q)) /\ c.values = Values(p, lv, Normal(q))
    BY <2>1, Zenon DEF Made
  <2>3. PICK t \in Contexts, mv \in DOMAIN p.levels :
            d.level = mv /\ d.key = Key(p, mv, Normal(t)) /\ d.values = Values(p, mv, Normal(t))
    BY <2>1, Zenon DEF Made
  <2>4. p \in Payloads /\ Sound(p)
    BY DEF Accepted
  <2>5. lv = mv /\ Values(p, lv, Normal(q)) = Values(p, lv, Normal(t))
    BY <2>2, <2>3, Zenon
  <2>6. Key(p, lv, Normal(q)) = Key(p, lv, Normal(t))
    BY <2>4, <2>5, KeysTogether
  <2> QED
    BY <2>2, <2>3, <2>5, <2>6, Zenon
<1> QED
  BY <1>1, InvHolds, PTL

\* No request has a bar in its texts.
NoBars == \A q \in Contexts : \A d \in Dimensions : \A i \in DOMAIN q[d] : q[d][i] # Bar

\* Where no text has the bar that joins the pairs, different values have different keys,
\* and so do different levels, under every version of the rule: what one version wrote
\* another reads only for the same values (matcher.go, Key and Combination).  With bars
\* it is false: KeysCollide.
THEOREM CountsApartHolds == ASSUME NoBars PROVE Spec => []CountsApart
<1>1. Inv => CountsApart
  <2> SUFFICES ASSUME Inv, NEW c \in charges, NEW d \in charges, c.key = d.key
               PROVE  c.level = d.level /\ c.values = d.values
    BY DEF CountsApart
  <2>1. PICK p \in Accepted, s \in Accepted : Made(c, p) /\ Made(d, s)
    BY ChargesMade
  <2>2. PICK q \in Contexts, lv \in DOMAIN p.levels :
            c.level = lv /\ c.key = Key(p, lv, Normal(q)) /\ c.values = Values(p, lv, Normal(q))
    BY <2>1, Zenon DEF Made
  <2>3. PICK t \in Contexts, mv \in DOMAIN s.levels :
            d.level = mv /\ d.key = Key(s, mv, Normal(t)) /\ d.values = Values(s, mv, Normal(t))
    BY <2>1, Zenon DEF Made
  <2>4. p \in Payloads /\ Sound(p) /\ s \in Payloads /\ Sound(s)
    BY DEF Accepted
  <2>5. /\ Normal(q) \in Request /\ NoBarIn(Normal(q))
        /\ Normal(t) \in Request /\ NoBarIn(Normal(t))
    BY Completed DEF NoBars
  <2>6. Key(p, lv, Normal(q)) = Key(s, mv, Normal(t))
    BY <2>2, <2>3, Zenon
  <2>7. lv = mv /\ Values(p, lv, Normal(q)) = Values(s, mv, Normal(t))
    <3> DEFINE a == Normal(q)
               b == Normal(t)
    <3> HIDE DEF a, b
    <3>1. lv = mv /\ Values(p, lv, a) = Values(s, mv, b)
      BY <2>4, <2>5, <2>6, KeysApart DEF a, b
    <3> QED
      BY <3>1 DEF a, b
  <2> QED
    BY <2>2, <2>3, <2>7, Zenon
<1> QED
  BY <1>1, InvHolds, PTL

\* What joins the pairs of a client and a path in a combination.
Join == <<"|", "a", "=">>

\* A join and what it joins make a text longer.
LEMMA Longer ==
    ASSUME NEW S, NEW j \in Seq(S), Len(j) > 0, NEW x \in Seq(S), NEW y \in Seq(S)
    PROVE  (x \o j) \o y # x /\ (x \o j) \o y # y
<1>1. x \o j \in Seq(S) /\ Len(x \o j) = Len(x) + Len(j)
  BY ConcatProperties
<1>2. Len((x \o j) \o y) = Len(x \o j) + Len(y)
  BY <1>1, ConcatProperties
<1>3. Len(x) \in Nat /\ Len(y) \in Nat /\ Len(j) \in Nat
  BY LenProperties
<1>4. Len((x \o j) \o y) # Len(x) /\ Len((x \o j) \o y) # Len(y)
  BY <1>1, <1>2, <1>3
<1> QED
  BY <1>4

\* A rule may be for clients and paths.
LEMMA ClientsAndPaths ==
    LET D == <<"client_id", "api_path">>
    IN  Declarable(D) /\ Len(D) = 2 /\ D[1] = "client_id" /\ D[2] = "api_path" /\ D # <<>>
<1> DEFINE D == <<"client_id", "api_path">>
<1>1. D \in Seq(Dimensions) /\ Len(D) = 2
  <2>1. "client_id" \in Dimensions /\ "api_path" \in Dimensions
    BY DEF Dimensions
  <2> QED
    BY <2>1
<1>2. D[1] = "client_id" /\ D[2] = "api_path" /\ D # <<>>
  OBVIOUS
<1> HIDE DEF D
<1>3. DOMAIN D = 1 .. 2
  BY <1>1, LenProperties
<1>4. IsInjective(D)
  BY <1>2, <1>3 DEF IsInjective
<1> QED
  BY <1>1, <1>2, <1>4 DEF D, Declarable

\* What comes before a client, what separates two pairs and what comes before a path.
LEMMA Separators ==
    /\ <<"c", "=">> \in Seq(Symbols) /\ <<"a", "=">> \in Seq(Symbols)
    /\ <<Bar>> \in Seq(Symbols) /\ Join \in Seq(Symbols)
    /\ Join = <<Bar>> \o <<"a", "=">> /\ Len(Join) = 3
<1>1. "c" \in Symbols /\ "a" \in Symbols /\ "=" \in Symbols /\ Bar \in Symbols
  BY DEF Symbols, Bar
<1> QED
  BY <1>1 DEF Bar, Join

\* The combination of such a rule.
LEMMA PairsJoined ==
    ASSUME NEW r, r.dimensions = <<"client_id", "api_path">>, NEW p \in Request
    PROVE  Combination(r, p) = (<<"c", "=">> \o p["client_id"]) \o (Join \o p["api_path"])
<1> DEFINE D == r.dimensions
           h == <<"c", "=">>
           k == <<"a", "=">>
           b == <<Bar>>
           u == Pair("api_path", p)
           w == p["api_path"]
<1>1. Declarable(D) /\ D # <<>> /\ Len(D) = 2 /\ D[1] = "client_id" /\ D[2] = "api_path"
  BY ClientsAndPaths
<1>2. Combination(r, p) = Pair(D[1], p) \o AfterFirst(D, p)
  BY <1>1, Combined
<1>3. AfterSecond(D, p) = <<>> /\ AfterFirst(D, p) = b \o (u \o <<>>)
  BY <1>1 DEF AfterFirst, AfterSecond
<1>4. Pair(D[1], p) = h \o p["client_id"] /\ u = k \o w
  BY <1>1 DEF Pair, ShortDim
<1>5. u \in Seq(Symbols) /\ w \in Seq(Symbols)
  BY PairFacts DEF Dimensions, Request
<1> HIDE DEF u, w, h, k, b, D
<1>6. u \o <<>> = u
  BY <1>5, ConcatEmptySeq
<1>7. b \in Seq(Symbols) /\ k \in Seq(Symbols) /\ Join = b \o k
  BY Separators DEF b, k
<1>8. (b \o k) \o w = b \o (k \o w)
  BY <1>5, <1>7, ConcatAssociative
<1>9. Combination(r, p) = (h \o p["client_id"]) \o (Join \o w)
  BY <1>2, <1>3, <1>4, <1>6, <1>7, <1>8
<1> QED
  BY <1>9 DEF w, h

\* Two places where a join may be read: between the pairs, and within a value.
LEMMA SameCombination ==
    ASSUME NEW x \in Seq(Symbols), NEW y \in Seq(Symbols), NEW z \in Seq(Symbols)
    PROVE  (<<"c", "=">> \o ((x \o Join) \o y)) \o (Join \o z)
               = (<<"c", "=">> \o x) \o (Join \o ((y \o Join) \o z))
<1> DEFINE h == <<"c", "=">>
<1>1. h \in Seq(Symbols) /\ Join \in Seq(Symbols)
  BY Separators
<1> HIDE DEF h
<1>2. (h \o ((x \o Join) \o y)) \o (Join \o z) = (h \o x) \o (Join \o ((y \o Join) \o z))
  BY <1>1, SMTT(30)
<1> QED
  BY <1>2 DEF h

\* Without that hypothesis it is false: a text may contain what joins the pairs, and
\* nothing escapes it.  Whatever x, y and z are, the client x|a=y on the path z and the
\* client x on the path y|a=z are different clients on different paths, and share the
\* quota of every rule for clients and paths (matcher.go, Combination: the join).
THEOREM KeysCollide ==
    ASSUME NEW r, r.dimensions = <<"client_id", "api_path">>,
           NEW q \in Request, NEW t \in Request,
           NEW x \in Seq(Symbols), NEW y \in Seq(Symbols), NEW z \in Seq(Symbols),
           q["client_id"] = (x \o Join) \o y, q["api_path"] = z,
           t["client_id"] = x, t["api_path"] = (y \o Join) \o z
    PROVE  /\ Key(r, "client", q) = Key(r, "client", t)
           /\ q["client_id"] # t["client_id"] /\ q["api_path"] # t["api_path"]
<1> DEFINE h == <<"c", "=">>
           one == (h \o ((x \o Join) \o y)) \o (Join \o z)
           two == (h \o x) \o (Join \o ((y \o Join) \o z))
<1>1. Join \in Seq(Symbols) /\ Len(Join) > 0
  BY Separators
<1>2. one = two
  BY SameCombination
<1> HIDE DEF h
<1>3. Combination(r, q) = one /\ Combination(r, t) = two
  BY PairsJoined DEF h
<1>4. r.dimensions # <<>>
  OBVIOUS
<1>5. Key(r, "client", q) = Key(r, "client", t)
  <2>1. Combination(r, q) = Combination(r, t)
    BY <1>2, <1>3
  <2> QED
    BY <1>4, <2>1, Zenon DEF Key
<1>6. (x \o Join) \o y # x /\ (y \o Join) \o z # z
  BY <1>1, Longer
<1> QED
  BY <1>5, <1>6
=============================================================================
