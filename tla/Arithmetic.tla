----------------------------- MODULE Arithmetic -----------------------------
(***************************************************************************)
(* The arithmetic of the scripts: quotients rounded up and down, and the   *)
(* windows time is divided into.                                           *)
(***************************************************************************)
EXTENDS RedisValue, WellFoundedInduction, TLAPS

\* Arithmetic: products of what follows.
LEMMA Products ==
    /\ \A m, x \in Int : m * x \in Int /\ m * (x + 1) = m * x + m /\ (m + 1) * x = m * x + x
    /\ \A m, x \in Nat : m * x \in Nat
    /\ \A m, x, y \in Int : m * (x - y) = m * x - m * y /\ (m + x) * y = m * y + x * y
    /\ \A m, x, y \in Nat : m <= x => m * y <= x * y
    /\ \A m, x \in Nat, y \in Nat \ {0} : m * y < x * y => m < x
<1>1. \A m, x \in Int : m * x \in Int /\ m * (x + 1) = m * x + m /\ (m + 1) * x = m * x + x
  OBVIOUS
<1>2. \A m, x \in Nat : m * x \in Nat
  OBVIOUS
<1>3. \A m, x, y \in Int : m * (x - y) = m * x - m * y /\ (m + x) * y = m * y + x * y
  OBVIOUS
<1>4. \A m, x, y \in Nat : m <= x => m * y <= x * y
  OBVIOUS
<1>5. \A m, x \in Nat, y \in Nat \ {0} : m * y < x * y => m < x
  BY <1>4
<1> QED
  BY <1>1, <1>2, <1>3, <1>4, <1>5

\* Products of naturals.
LEMMA NatProducts ==
    /\ \A m, n \in Nat : m * n \in Nat
    /\ \A m, n, x \in Nat : (m + n) * x = m * x + n * x
  OBVIOUS

\* Rounding up never falls short of the quotient.
LEMMA CeilDivFacts ==
    ASSUME NEW a \in Int, NEW b \in Nat \ {0}
    PROVE  /\ CeilDiv(a, b) \in Int
           /\ CeilDiv(a, b) * b >= a
           /\ a >= 0 => CeilDiv(a, b) >= 0
<1>1. (-a) \div b \in Int /\ ((-a) \div b) * b <= -a
  OBVIOUS
<1>2. a >= 0 => (-a) \div b <= 0
  OBVIOUS
<1> QED
  BY <1>1, <1>2 DEF CeilDiv

\* The quotient of a natural number is one.
LEMMA CeilDivNat == \A a \in Nat, b \in Nat \ {0} : CeilDiv(a, b) \in Nat
<1> TAKE a \in Nat, b \in Nat \ {0}
<1>1. CeilDiv(a, b) \in Int /\ CeilDiv(a, b) >= 0
  BY CeilDivFacts
<1> QED
  BY <1>1

\* A quotient rounded up is the least that is large enough.
LEMMA CeilDivLeast ==
    ASSUME NEW a \in Int, NEW b \in Nat \ {0}, NEW d \in Int, d < CeilDiv(a, b)
    PROVE  d * b < a
<1> DEFINE q == (-a) \div b
<1>1. q \in Int /\ -a < q * b + b
  BY SMT
<1>2. d + 1 <= -q
  BY <1>1 DEF CeilDiv
<1> HIDE DEF q
<1>3. (d + 1) * b <= (-q) * b
  BY <1>1, <1>2
<1>4. (d + 1) * b = d * b + b /\ (-q) * b = -(q * b) /\ d * b \in Int /\ q * b \in Int
  BY <1>1
<1> QED
  BY <1>1, <1>3, <1>4

\* Rounding up keeps whole quotients.
LEMMA CeilDivShift ==
    ASSUME NEW a \in Int, NEW b \in Int, NEW m \in Nat \ {0}, NEW z \in Int,
           b >= a + z * m
    PROVE  CeilDiv(b, m) >= CeilDiv(a, m) + z
<1> DEFINE x == CeilDiv(a, m)
           y == CeilDiv(b, m)
<1>1. x \in Int /\ y \in Int /\ y * m >= b
  BY CeilDivFacts
<1>2. (x - 1) * m < a
  <2> DEFINE w == (-a) \div m
  <2>1. w \in Int /\ (-a) < w * m + m
    OBVIOUS
  <2>2. x = -w
    BY DEF CeilDiv
  <2> HIDE DEF w, x
  <2>3. (x - 1) * m = -(w * m) - m
    BY <2>1, <2>2
  <2> QED
    BY <2>1, <2>3
<1> HIDE DEF x, y
<1>3. \A u \in Int : u <= x - 1 => u * m <= (x - 1) * m
  BY <1>1
<1>4. (y - z) * m = y * m - z * m
  BY <1>1
<1>5. ~(y - z <= x - 1)
  <2>1. /\ (y - z) * m \in Int /\ (x - 1) * m \in Int
        /\ y * m \in Int /\ z * m \in Int /\ y - z \in Int
    BY <1>1
  <2> QED
    BY <1>1, <1>2, <1>3, <1>4, <2>1
<1>6. y >= x + z
  BY <1>1, <1>5
<1> QED
  BY <1>6 DEF x, y

\* Rounded up is rounded down, or one more.
LEMMA CeilOrFloor ==
    ASSUME NEW a \in Nat, NEW b \in Nat \ {0}
    PROVE  CeilDiv(a, b) = a \div b \/ CeilDiv(a, b) = a \div b + 1
<1> DEFINE q == a \div b
           u == CeilDiv(a, b)
<1>1. q \in Int /\ q * b <= a /\ a < q * b + b
  BY SMT
<1>2. u \in Int /\ u * b >= a
  BY CeilDivFacts
<1>3. (u - 1) * b < a
  BY <1>2, CeilDivLeast
<1> HIDE DEF q, u
<1>4. \A x, y \in Int : x + 1 <= y => x * b + b <= y * b
  <2> TAKE x, y \in Int
  <2>1. (x + 1) * b = x * b + b /\ (x + 1 <= y => (x + 1) * b <= y * b)
    OBVIOUS
  <2> QED
    BY <2>1
<1>5. (u - 1) * b = u * b - b /\ u * b \in Int /\ q * b \in Int
  BY <1>1, <1>2
<1>6. ~(u + 1 <= q)
  BY <1>1, <1>2, <1>4, <1>5
<1>7. ~(q + 2 <= u)
  <2>1. q + 2 <= u => (q + 1) * b + b <= u * b
    BY <1>1, <1>2, <1>4
  <2>2. (q + 1) * b = q * b + b
    BY <1>1
  <2> QED
    BY <1>1, <1>3, <1>5, <2>1, <2>2
<1> QED
  BY <1>1, <1>2, <1>6, <1>7 DEF q, u

\* A quotient is known by its bounds.
LEMMA QuotientIs ==
    ASSUME NEW c \in Int, NEW s \in Nat \ {0}, NEW q \in Int, q * s <= c, c < q * s + s
    PROVE  c \div s = q
<1> DEFINE p == c \div s
<1>1. p \in Int /\ p * s <= c /\ c < p * s + s
  OBVIOUS
<1> HIDE DEF p
<1>2. \A x, y \in Int : x + 1 <= y => x * s + s <= y * s
  <2> TAKE x, y \in Int
  <2>1. (x + 1) * s = x * s + s /\ (x + 1 <= y => (x + 1) * s <= y * s)
    OBVIOUS
  <2> QED
    BY <2>1
<1>3. q * s \in Int /\ p * s \in Int
  BY <1>1
<1>4. ~(p + 1 <= q) /\ ~(q + 1 <= p)
  BY <1>1, <1>2, <1>3
<1>5. p = q
  BY <1>1, <1>4
<1> QED
  BY <1>5 DEF p

\* Quotients of what is paid for.
LEMMA Quotients ==
    ASSUME NEW c \in Nat, NEW s \in Nat \ {0}
    PROVE  /\ c \div s \in Nat /\ (c >= s <=> c \div s > 0)
           /\ (c - s) \div s = c \div s - 1 /\ (c + s) \div s = c \div s + 1
           /\ \A d \in Nat : c <= d => c \div s <= d \div s
<1> DEFINE q == c \div s
<1>1. q \in Int /\ q * s <= c /\ c < q * s + s
  OBVIOUS
<1> HIDE DEF q
<1>2. /\ (q + 1) * s = q * s + s /\ (q - 1) * s = q * s - s
      /\ q * s \in Int /\ (q + 1) * s \in Int /\ (q - 1) * s \in Int
  BY <1>1
<1>3. \A x \in Int : x <= -1 => x * s <= -s
  <2> TAKE x \in Int
  <2>1. x <= -1 => x * s <= (-1) * s
    OBVIOUS
  <2> QED
    BY <2>1
<1>4. q >= 0
  BY <1>1, <1>2, <1>3
<1>5. \A x \in Int : x >= 1 => x * s >= s
  <2> TAKE x \in Int
  <2>1. x >= 1 => x * s >= 1 * s
    OBVIOUS
  <2> QED
    BY <2>1
<1>6. c >= s <=> q > 0
  <2>1. q = 0 => q * s = 0
    OBVIOUS
  <2> QED
    BY <1>1, <1>2, <1>4, <1>5, <2>1
<1>7. (c - s) \div s = q - 1
  <2>1. c - s \in Int /\ q - 1 \in Int /\ (q - 1) * s <= c - s /\ c - s < (q - 1) * s + s
    BY <1>1, <1>2
  <2> QED
    BY <2>1, QuotientIs
<1>8. (c + s) \div s = q + 1
  <2>1. c + s \in Int /\ q + 1 \in Int /\ (q + 1) * s <= c + s /\ c + s < (q + 1) * s + s
    BY <1>1, <1>2
  <2> QED
    BY <2>1, QuotientIs
<1>9. ASSUME NEW d \in Nat, c <= d PROVE q <= d \div s
  <2> DEFINE p == d \div s
  <2>1. p \in Int /\ d < p * s + s /\ p * s \in Int
    BY <1>9
  <2> HIDE DEF p
  <2>2. p + 1 <= q => (p + 1) * s <= q * s
    BY <1>1, <2>1
  <2>3. (p + 1) * s = p * s + s
    BY <2>1
  <2>4. q <= p
    BY <1>1, <1>2, <1>9, <2>1, <2>2, <2>3
  <2> QED
    BY <2>4 DEF p
<1> QED
  BY <1>1, <1>4, <1>6, <1>7, <1>8, <1>9 DEF q

\* Where a time lies in its window, and in which window the next one does.
LEMMA WindowFacts ==
    ASSUME NEW W \in Nat \ {0}, NEW t \in Nat
    PROVE  /\ t \div W \in Nat /\ WindowStart(t, W) \in Nat
           /\ WindowStart(t, W) <= t /\ t < WindowStart(t, W) + W
           /\ (t + 1) \div W = t \div W \/ (t + 1) \div W = t \div W + 1
<1>1. t \div W \in Nat /\ (t \div W) * W <= t /\ t < (t \div W) * W + W
  OBVIOUS
<1>2. /\ (t + 1) \div W \in Nat
      /\ ((t + 1) \div W) * W <= t + 1 /\ t + 1 < ((t + 1) \div W) * W + W
  OBVIOUS
<1> DEFINE q == t \div W
           r == (t + 1) \div W
<1>3. q \in Nat /\ r \in Nat /\ q * W <= t /\ t < q * W + W
      /\ r * W <= t + 1 /\ t + 1 < r * W + W
  BY <1>1, <1>2
<1> HIDE DEF q, r
<1>4. (r = q \/ r = q + 1) /\ (q + 1) * W = q * W + W /\ q * W \in Nat
  <2>1. \A m, n \in Nat : m >= n + 2 => m * W >= n * W + 2 * W
    OBVIOUS
  <2>2. \A m, n \in Nat : m + 1 <= n => m * W + W <= n * W
    OBVIOUS
  <2>3. ~(r >= q + 2)
    BY <1>3, <2>1
  <2>4. ~(r + 1 <= q)
    BY <1>3, <2>2
  <2>5. (q + 1) * W = q * W + W /\ q * W \in Nat
    BY <1>3
  <2> QED
    BY <1>3, <2>3, <2>4, <2>5
<1> QED
  BY <1>3, <1>4 DEF WindowStart, q, r

\* The window does not change, or is the next one.
LEMMA NextStart ==
    ASSUME NEW W \in Nat \ {0}, NEW t \in Nat
    PROVE  LET f == WindowStart(t, W)
               g == WindowStart(t + 1, W)
           IN  /\ f \in Nat /\ f <= t /\ t < f + W /\ (g = f \/ g = f + W)
               /\ t + 1 < g + W /\ g <= t + 1
<1> DEFINE x == t \div W
           y == (t + 1) \div W
<1>1. /\ x \in Nat /\ WindowStart(t, W) \in Nat
      /\ WindowStart(t, W) <= t /\ t < WindowStart(t, W) + W
      /\ y = x \/ y = x + 1
  BY WindowFacts
<1>2. t + 1 \in Nat
  OBVIOUS
<1>3. WindowStart(t + 1, W) <= t + 1 /\ t + 1 < WindowStart(t + 1, W) + W
  BY <1>2, WindowFacts
<1>4. WindowStart(t, W) = x * W /\ WindowStart(t + 1, W) = y * W
  BY DEF WindowStart
<1> HIDE DEF x, y
<1>5. (x + 1) * W = x * W + W
  BY <1>1, Products
<1> QED
  BY <1>1, <1>3, <1>4, <1>5

\* The instants of a window, and the first of the next one.
LEMMA WindowSpans ==
    ASSUME NEW W \in Nat \ {0}, NEW t \in Nat
    PROVE  LET f == WindowStart(t, W) IN
           /\ \A s \in Nat : f <= s /\ s < f + W => WindowStart(s, W) = f
           /\ WindowStart(f + W, W) = f + W
<1> DEFINE q == t \div W
           f == WindowStart(t, W)
<1>1. q \in Nat /\ f \in Nat /\ f = q * W
  BY WindowFacts DEF WindowStart
<1> HIDE DEF q, f
<1>2. ASSUME NEW s \in Nat, f <= s, s < f + W PROVE WindowStart(s, W) = f
  <2>1. s \div W = q
    BY <1>1, <1>2, QuotientIs
  <2> QED
    BY <1>1, <2>1 DEF WindowStart
<1>3. WindowStart(f + W, W) = f + W
  <2>1. (q + 1) * W = f + W /\ q + 1 \in Int /\ f + W \in Int /\ f + W < (f + W) + W
    BY <1>1
  <2>2. (f + W) \div W = q + 1
    BY <2>1, QuotientIs
  <2> QED
    BY <2>1, <2>2 DEF WindowStart
<1> QED
  BY <1>2, <1>3 DEF f

\* Every set of numbers has a least one.
LEMMA Least == \A S \in SUBSET Nat : S # {} => \E n \in S : \A m \in S : n <= m
<1> SUFFICES ASSUME NEW S \in SUBSET Nat, S # {} PROVE \E n \in S : \A m \in S : n <= m
  OBVIOUS
<1> DEFINE R == OpToRel(<, Nat)
<1>1. IsWellFoundedOn(R, Nat)
  BY NatLessThanWellFounded
<1>2. \A x, y \in Nat : x < y => <<x, y>> \in R
  BY DEF OpToRel
<1> HIDE DEF R
<1>3. \E x \in S : \A y \in S : ~ (<<y, x>> \in R)
  BY <1>1, WFMin
<1>4. PICK x \in S : \A y \in S : ~ (<<y, x>> \in R)
  BY <1>3
<1>5. x \in Nat /\ \A y \in S : y \in Nat /\ ~(y < x)
  BY <1>2, <1>4
<1>6. \A y \in S : x <= y
  BY <1>5
<1> QED
  BY <1>6

\* A set of numbers that holds 0 and each successor holds them all.
LEMMA Induction ==
    ASSUME NEW S, 0 \in S, \A n \in Nat : n \in S => n + 1 \in S
    PROVE  \A n \in Nat : n \in S
<1> DEFINE T == Nat \ S
<1>1. ASSUME T # {} PROVE FALSE
  <2>1. PICK n \in T : \A m \in T : n <= m
    BY <1>1, Least
  <2>2. n # 0 /\ n \in Nat
    BY <2>1
  <2>3. n - 1 \in Nat /\ n - 1 \notin T
    BY <2>1, <2>2
  <2>4. n - 1 \in S /\ (n - 1) + 1 = n
    BY <2>2, <2>3
  <2> QED
    BY <2>1, <2>3, <2>4
<1> QED
  BY <1>1
=============================================================================
