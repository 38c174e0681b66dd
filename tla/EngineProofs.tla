---------------------------- MODULE EngineProofs ----------------------------
(***************************************************************************)
(* All five algorithms at once, whatever the keys, the quotas and the      *)
(* calls.  Every key has so many places; Behaves says what the scripts,    *)
(* time and expiry do to the places of one key, and is proved of each      *)
(* algorithm.  The rest follows from it without looking at a script again: *)
(* the engine implements the ledger, and its answers are honest.           *)
(***************************************************************************)
EXTENDS AlgorithmProofs

\* Only a sliding log draws nonces.
NoncesSuffice == "sliding_log" \in Algos => EnoughNonces

\* The key outlives the entries of its log.
Outlived(v, cfg) ==
    v # Absent => \A e \in v.entries : e.at + LogLength(cfg) <= v.expireAt

\* What a key may hold at t, if the clock was never set back.
Good(v, t, cfg) ==
    /\ algo \in Buckets => v = Absent \/ (Stored(algo, v, cfg) /\ v.last <= t)
    /\ Account(v, 0, t, 0, cfg)
    /\ algo = "sliding_log" => IsLog(v, cfg) /\ Outlived(v, cfg)

\* The places of a key that holds v.
Room(v, t, cfg) ==
    CASE algo \in Buckets        -> Holds(algo, v, t, cfg) \div Second
      [] algo = "fixed_window"   -> cfg.threshold - FixedCount(v, t, cfg)
      [] algo = "sliding_window" ->
             cfg.threshold - SlidingEffective(SlidingCounts(v, t, cfg), t, cfg)
                                 \div SlidingLength(cfg)
      [] algo = "sliding_log"    -> cfg.threshold - Cardinality(LogKept(v, t, cfg))

\* w is what a key may hold, and has n places.
Leaves(w, t, cfg, n) == Good(w, t, cfg) /\ Room(w, t, cfg) = n

\* A nonce a log can draw.
Fresh(id, v) == algo = "sliding_log" => id \in Nonces /\ id \notin Members(v)

\* What happens to one key: a script admits if there is a place, and takes one if it
\* admits; nothing else takes a place; and time, expiry too, takes none.
Behaves(v, t, cfg, id) ==
    LET n == Room(v, t, cfg)
        e == Eval(v, t, cfg, FALSE, id)
    IN  /\ n \in Nat /\ (Admits(v, t, cfg) <=> n > 0)
        /\ Leaves(Visible(v, t), t, cfg, n)
        /\ Admits(v, t, cfg) => Leaves(Take(v, t, cfg, id).value, t, cfg, n - 1)
        /\ Leaves(Deny(v, t, cfg).value, t, cfg, n)
        /\ e.allowed <=> Admits(v, t, cfg)
        /\ Leaves(e.value, t, cfg, IF Admits(v, t, cfg) THEN n - 1 ELSE n)
        /\ Leaves(Eval(v, t, cfg, TRUE, id).value, t, cfg, n)
        /\ Good(v, t + 1, cfg) /\ Room(v, t + 1, cfg) >= n

-----------------------------------------------------------------------------
(***************************************************************************)
(* Arithmetic.                                                             *)
(***************************************************************************)

-----------------------------------------------------------------------------
(***************************************************************************)
(* The buckets.                                                            *)
(***************************************************************************)
\* Every bucket behaves.
LEMMA BucketBehaves ==
    ASSUME algo \in Buckets, NEW cfg \in Level, NEW t \in Nat, NEW v, NEW id, Good(v, t, cfg)
    PROVE  Behaves(v, t, cfg, id)
<1> DEFINE c    == Holds(algo, v, t, cfg)
           e    == Eval(v, t, cfg, FALSE, id)
           p    == Eval(v, t, cfg, TRUE, id)
           took == Take(v, t, cfg, id)
           Is(w, d) == (w = Absent \/ (Stored(algo, w, cfg) /\ w.last <= t))
                       /\ Holds(algo, w, t, cfg) = d
<1>1. /\ v = Absent \/ (Stored(algo, v, cfg) /\ v.last <= t)
      /\ v = Absent \/ Stored(algo, v, cfg)
  BY DEF Good
<1>2. c \in Nat /\ Second \in Nat \ {0} /\ cfg.threshold \in Nat /\ TokenFull(cfg) \in Nat
      /\ c <= TokenFull(cfg)
  BY <1>1, HoldsType, LevelFacts, EngineAssumption
<1>3. /\ c \div Second \in Nat /\ (c >= Second <=> c \div Second > 0)
      /\ (c - Second) \div Second = c \div Second - 1
  BY <1>2, Quotients
<1>4. Admits(v, t, cfg) <=> c >= Second
  BY <1>1, AdmitsIfPays
<1>5. Is(Visible(v, t), c)
  <2>1. Visible(v, t) = v \/ Visible(v, t) = Absent
    BY DEF Visible
  <2>2. Holds(algo, Visible(v, t), t, cfg) = c
    BY <1>1, FoundHolds
  <2> QED
    BY <1>1, <2>1, <2>2
<1>6. ASSUME Admits(v, t, cfg) PROVE Is(took.value, c - Second)
  <2>1. /\ Stored(algo, took.value, cfg)
        /\ Holds(algo, took.value, t, cfg) = c - Second
    BY <1>1, <1>6, TakePays
  <2>2. took.value.last = t
    BY TakeStampsNow
  <2> QED
    BY <2>1, <2>2
<1>7. e.allowed <=> Admits(v, t, cfg)
  <2>1. e.allowed = Admits(v, t, cfg)
    BY EvalDecides
  <2> QED
    BY <2>1
<1>8. Is(e.value, IF Admits(v, t, cfg) THEN c - Second ELSE c)
  <2>1. /\ e.value = Absent \/ Stored(algo, e.value, cfg)
        /\ e.allowed => Holds(algo, e.value, t, cfg) = c - Second
        /\ ~e.allowed => Holds(algo, e.value, t, cfg) = c
    BY <1>1, EvalPays
  <2>2. StampedAt(e.value, t)
    BY EvalStampsNow
  <2> HIDE DEF e, c
  <2>3. e.value.last = t
    BY <2>2 DEF StampedAt
  <2> QED
    BY <1>7, <2>1, <2>3
<1>9. Deny(v, t, cfg).value = v /\ Is(v, c)
  BY <1>1, DenyLooks
<1>10. p.value = v
  <2>1. TokenEval(v, t, cfg, TRUE).value = v /\ LeakyEval(v, t, cfg, TRUE).value = v
    BY DEF TokenEval, LeakyEval
  <2>2. p = TokenEval(v, t, cfg, TRUE) \/ p = LeakyEval(v, t, cfg, TRUE)
    BY DEF Eval, ScriptEval, Buckets
  <2> HIDE DEF p
  <2> QED
    BY <2>1, <2>2
<1>11. Holds(algo, v, t + 1, cfg) >= c /\ Holds(algo, v, t + 1, cfg) \in Nat
  <2>1. Holds(algo, v, t + 1, cfg) = Smaller(TokenFull(cfg), c + cfg.threshold)
    BY <1>1, HoldsRefills
  <2> HIDE DEF c
  <2> QED
    BY <1>2, <2>1 DEF Smaller
<1>12. Good(v, t + 1, cfg) /\ Room(v, t + 1, cfg) >= c \div Second
  <2>1. v = Absent \/ (Stored(algo, v, cfg) /\ v.last <= t + 1)
    <3>1. ASSUME v # Absent PROVE v.last \in Nat
      BY <1>1, <3>1 DEF Stored, StoredTokens, StoredWater, TokenValues, LeakyValues
    <3> QED
      BY <1>1, <3>1
  <2>2. c \div Second <= Holds(algo, v, t + 1, cfg) \div Second
    BY <1>2, <1>11, Quotients
  <2>3. Room(v, t + 1, cfg) = Holds(algo, v, t + 1, cfg) \div Second
    BY DEF Room, Buckets
  <2>4. Holds(algo, v, t + 1, cfg) \div Second \in Nat
    BY <1>2, <1>11, Quotients
  <2> QED
    BY <1>3, <2>1, <2>2, <2>3, <2>4 DEF Good, Account, Buckets
<1>13. \A w, d : Is(w, d) => Leaves(w, t, cfg, d \div Second)
  BY DEF Leaves, Good, Account, Room, Buckets
<1>14. Room(v, t, cfg) = c \div Second
  BY DEF Room, Buckets
<1> HIDE DEF c, e, p, took, Is
<1>15. /\ Leaves(Visible(v, t), t, cfg, c \div Second)
       /\ Admits(v, t, cfg) => Leaves(took.value, t, cfg, c \div Second - 1)
       /\ Leaves(v, t, cfg, c \div Second)
       /\ Leaves(e.value, t, cfg, IF Admits(v, t, cfg) THEN c \div Second - 1 ELSE c \div Second)
  BY <1>3, <1>5, <1>6, <1>8, <1>9, <1>13
<1> QED
  BY <1>3, <1>4, <1>7, <1>9, <1>10, <1>12, <1>14, <1>15, Zenon DEF Behaves, e, p, took

-----------------------------------------------------------------------------
(***************************************************************************)
(* The windows.                                                            *)
(***************************************************************************)
\* Whatever happens to a window or a log leaves what Redis may hold.
LEMMA GoodAccounts ==
    ASSUME algo \in Windows, NEW cfg \in Level, NEW t \in Nat, NEW v, NEW id,
           Account(v, 0, t, 0, cfg)
    PROVE  /\ Account(Visible(v, t), 0, t, 0, cfg)
           /\ Admits(v, t, cfg) => Account(Take(v, t, cfg, id).value, 0, t, 0, cfg)
           /\ Account(Deny(v, t, cfg).value, 0, t, 0, cfg)
           /\ Account(Eval(v, t, cfg, FALSE, id).value, 0, t, 0, cfg)
           /\ Account(Eval(v, t, cfg, TRUE, id).value, 0, t, 0, cfg)
           /\ Account(v, 0, t + 1, 0, cfg)
<1> DEFINE e == Eval(v, t, cfg, FALSE, id)
           m == IF e.allowed THEN 0 + 1 ELSE 0
<1>1. Account(Visible(v, t), 0, t, 0, cfg) /\ Account(v, 0, t + 1, 0 + 1, cfg)
  BY AccountFound, AccountAdvances
<1>2. /\ Admits(v, t, cfg) => Account(Take(v, t, cfg, id).value, 0 + 1, t, 0, cfg)
      /\ Account(Deny(v, t, cfg).value, 0, t, 0, cfg)
      /\ Account(e.value, m, t, 0, cfg)
      /\ Account(Eval(v, t, cfg, TRUE, id).value, 0, t, 0, cfg)
  BY AccountScripts, Zenon
<1>3. \A w : \A n, a, s \in Nat : Account(w, n, s, a, cfg) => Account(w, 0, s, 0, cfg)
  BY AccountScripts
<1>4. m \in Nat /\ 0 + 1 \in Nat /\ t + 1 \in Nat /\ 0 \in Nat
  OBVIOUS
<1> HIDE DEF e, m
<1> QED
  BY <1>1, <1>2, <1>3, <1>4 DEF e

\* Every fixed window behaves.
LEMMA FixedBehaves ==
    ASSUME algo = "fixed_window", NEW cfg \in Level, NEW t \in Nat, NEW v, NEW id,
           Good(v, t, cfg)
    PROVE  Behaves(v, t, cfg, id)
<1> DEFINE c    == FixedCount(v, t, cfg)
           thr  == cfg.threshold
           e    == Eval(v, t, cfg, FALSE, id)
           p    == Eval(v, t, cfg, TRUE, id)
           took == Take(v, t, cfg, id)
           W    == FixedLength(cfg)
<1>0. algo \in Windows /\ algo \notin Buckets
  BY DEF Windows, Buckets
<1>1. /\ Account(v, 0, t, 0, cfg) /\ IsCount(v, cfg) /\ (v = Absent \/ v.w <= t)
  BY DEF Good, Account, FixedSeen
<1>2. c \in 0 .. thr /\ thr \in Nat
  BY <1>1, FixedCountType, LengthFacts
<1>3. /\ Admits(v, t, cfg) <=> c < thr
      /\ took.value = FixedHash(c + 1, t, cfg)
      /\ Deny(v, t, cfg).value = v
  <2>1. /\ Admits(v, t, cfg) = FixedAdmits(v, t, cfg)
        /\ took.value = FixedHash(c + 1, t, cfg)
        /\ Deny(v, t, cfg).value = v
    BY FixedScripts, Zenon
  <2> QED
    BY <2>1, Zenon DEF FixedAdmits
<1>4. /\ e.allowed <=> Admits(v, t, cfg)
      /\ e.value = FixedHash(IF Admits(v, t, cfg) THEN c + 1 ELSE c, t, cfg)
      /\ p.value = v
  <2>1. /\ e = FixedEval(v, t, cfg, FALSE) /\ p = FixedEval(v, t, cfg, TRUE)
        /\ Admits(v, t, cfg) <=> c < thr
    BY <1>3 DEF Eval, ScriptEval
  <2>2. /\ FixedEval(v, t, cfg, FALSE).allowed <=> c < thr
        /\ FixedEval(v, t, cfg, FALSE).value = FixedHash(IF c < thr THEN c + 1 ELSE c, t, cfg)
        /\ FixedEval(v, t, cfg, TRUE).value = v
    BY DEF FixedEval
  <2> HIDE DEF c, e, p, thr
  <2> QED
    BY <2>1, <2>2
<1>5. \A n \in 0 .. thr : FixedCount(FixedHash(n, t, cfg), t, cfg) = n
  BY FixedHashCounts
<1>6. FixedCount(Visible(v, t), t, cfg) = c
  BY <1>1, FixedFound
<1>7. FixedCount(v, t + 1, cfg) \in 0 .. c
  <2>1. CASE v = Absent
    BY <2>1, <1>2 DEF FixedCount, Exists, Absent
  <2>2. CASE v # Absent
    <3> DEFINE f == WindowStart(t, W)
               g == WindowStart(t + 1, W)
    <3>1. W \in Nat \ {0}
      BY LengthFacts
    <3>4. f \in Nat /\ f <= t /\ t < f + W /\ (g = f \/ g = f + W)
      BY <3>1, NextStart, Zenon
    <3>5. g = f + W => g > t
      <4> HIDE DEF f, g, W
      <4> QED
        BY <3>1, <3>4
    <3>6. v.w = g => g = f
      <4>1. g = f + W => v.w # g
        <5>1. v.w \in Nat /\ v.w <= t
          BY <1>1, <2>2 DEF IsCount, StoredCount, FixedValues
        <5> HIDE DEF f, g, W
        <5> QED
          BY <3>1, <3>4, <3>5, <5>1
      <4> QED
        BY <3>4, <4>1
    <3>7. /\ FixedCount(v, t + 1, cfg) = IF v.w = g THEN v.c ELSE 0
          /\ c = IF v.w = f THEN v.c ELSE 0
      <4>1. Exists(v)
        BY <1>1, <2>2 DEF IsCount, StoredCount, FixedValues, Exists
      <4> QED
        BY <4>1 DEF FixedCount
    <3> HIDE DEF f, g, c
    <3> QED
      BY <1>2, <3>6, <3>7
  <2> QED
    BY <2>1, <2>2
<1>8. /\ Account(Visible(v, t), 0, t, 0, cfg)
      /\ Admits(v, t, cfg) => Account(took.value, 0, t, 0, cfg)
      /\ Account(e.value, 0, t, 0, cfg)
      /\ Account(v, 0, t + 1, 0, cfg)
  BY <1>0, <1>1, GoodAccounts, Zenon
<1>9. \A w, s : Good(w, s, cfg) <=> Account(w, 0, s, 0, cfg)
  BY <1>0 DEF Good
<1>10. \A w, s : Room(w, s, cfg) = thr - FixedCount(w, s, cfg)
  BY DEF Room, Buckets
<1> HIDE DEF c, thr, e, p, took, W
<1>11. Leaves(Visible(v, t), t, cfg, thr - c) /\ Leaves(v, t, cfg, thr - c)
  BY <1>1, <1>6, <1>8, <1>9, <1>10 DEF Leaves, c
<1>12. Admits(v, t, cfg) => Leaves(took.value, t, cfg, (thr - c) - 1)
  <2> SUFFICES ASSUME Admits(v, t, cfg) PROVE Leaves(took.value, t, cfg, (thr - c) - 1)
    OBVIOUS
  <2>1. FixedCount(took.value, t, cfg) = c + 1 /\ thr - (c + 1) = (thr - c) - 1
    BY <1>2, <1>3, <1>5
  <2> QED
    BY <1>8, <1>9, <1>10, <2>1 DEF Leaves
<1>13. Leaves(e.value, t, cfg, IF Admits(v, t, cfg) THEN (thr - c) - 1 ELSE thr - c)
  <2>1. FixedCount(e.value, t, cfg) = IF Admits(v, t, cfg) THEN c + 1 ELSE c
    BY <1>2, <1>3, <1>4, <1>5
  <2>2. thr - (c + 1) = (thr - c) - 1
    BY <1>2
  <2>3. Room(e.value, t, cfg) = IF Admits(v, t, cfg) THEN (thr - c) - 1 ELSE thr - c
    BY <1>10, <2>1, <2>2
  <2> QED
    BY <1>8, <1>9, <2>3 DEF Leaves
<1>14. Room(v, t, cfg) = thr - c
  BY <1>10 DEF c
<1>15. Good(v, t + 1, cfg) /\ Room(v, t + 1, cfg) >= thr - c
  BY <1>2, <1>7, <1>8, <1>9, <1>10
<1>16. thr - c \in Nat /\ (Admits(v, t, cfg) <=> thr - c > 0)
  BY <1>2, <1>3
<1> QED
  BY <1>3, <1>4, <1>11, <1>12, <1>13, <1>14, <1>15, <1>16, Zenon DEF Behaves, e, p, took

\* The places a weighed count leaves.
LEMMA WeighedPlaces ==
    ASSUME NEW W \in Nat \ {0}, NEW thr \in Nat, NEW x \in Nat, x < (thr + 1) * W
    PROVE  /\ x \div W \in Nat /\ thr - x \div W \in Nat
           /\ x < thr * W <=> thr - x \div W > 0
           /\ (x + W) \div W = x \div W + 1
           /\ \A y \in Nat : y <= x => y \div W \in Nat /\ y \div W <= x \div W
<1> DEFINE q == x \div W
<1>1. q \in Nat /\ (x + W) \div W = q + 1
  BY Quotients
<1>2. q * W <= x /\ x < q * W + W /\ q * W \in Int
  <2>1. q \in Int /\ q * W <= x /\ x < q * W + W
    OBVIOUS
  <2> HIDE DEF q
  <2> QED
    BY <2>1
<1>3. \A y \in Nat : y <= x => y \div W \in Nat /\ y \div W <= q
  BY Quotients
<1> HIDE DEF q
<1>4. \A m, n \in Nat : m + 1 <= n => m * W + W <= n * W
  <2> TAKE m, n \in Nat
  <2>1. (m + 1) * W = m * W + W /\ (m + 1 <= n => (m + 1) * W <= n * W)
    BY Products
  <2> QED
    BY <2>1
<1>5. (thr + 1) * W = thr * W + W /\ thr * W \in Int
  BY Products
<1>6. ~(thr + 1 <= q)
  BY <1>1, <1>2, <1>4, <1>5
<1>7. ASSUME q + 1 <= thr PROVE x < thr * W
  <2>1. q * W + W <= thr * W
    BY <1>1, <1>4, <1>7
  <2> QED
    BY <1>2, <1>5, <2>1
<1>8. ASSUME q = thr PROVE ~(x < thr * W)
  BY <1>2, <1>5, <1>8
<1> QED
  BY <1>1, <1>3, <1>6, <1>7, <1>8 DEF q

\* A hash holds the counts it was given.
LEMMA SlidingHashHolds ==
    ASSUME NEW cfg \in Level, NEW t \in Nat, NEW n
    PROVE  SlidingCounts(SlidingHash(n, t, cfg), t, cfg) = [ca |-> n.ca, cb |-> n.cb]
<1> DEFINE W == SlidingLength(cfg)
           f == SlidingStart(t, cfg)
           v == SlidingHash(n, t, cfg)
<1>1. f # f - W
  <2>1. W \in Nat \ {0}
    BY LengthFacts DEF SlidingLength, LogLength
  <2>2. f \in Nat
    <3>1. f = WindowStart(t, W)
      BY DEF SlidingStart
    <3> HIDE DEF f, W
    <3> QED
      BY <2>1, <3>1, WindowFacts
  <2> HIDE DEF f, W
  <2> QED
    BY <2>1, <2>2
<1>2. Exists(v) /\ v.a = f /\ v.ca = n.ca /\ v.cb = n.cb
  BY DEF SlidingHash, Exists
<1> HIDE DEF v
<1>3. SlidingCounts(v, t, cfg) = [ca |-> n.ca, cb |-> n.cb]
  BY <1>1, <1>2 DEF SlidingCounts
<1> QED
  BY <1>3 DEF v

\* What its counts weigh.
Weight(v, t, cfg) == SlidingEffective(SlidingCounts(v, t, cfg), t, cfg)

\* One request more weighs one window more.
LEMMA SlidingPaid ==
    ASSUME NEW cfg \in Level, NEW t \in Nat, NEW v, SlidingAccount(v, 0, t, 0, cfg)
    PROVE  LET x == SlidingCounts(v, t, cfg) IN
           /\ Weight(v, t, cfg) \in Nat
           /\ Weight(v, t, cfg) < (cfg.threshold + 1) * SlidingLength(cfg)
           /\ Weight(SlidingHash([x EXCEPT !.ca = @ + 1], t, cfg), t, cfg)
                  = Weight(v, t, cfg) + SlidingLength(cfg)
           /\ Weight(SlidingHash(x, t, cfg), t, cfg) = Weight(v, t, cfg)
<1> DEFINE W == SlidingLength(cfg)
           x == SlidingCounts(v, t, cfg)
           r == t - SlidingStart(t, cfg)
           u == Larger(0, SlidingReset(t, cfg))
<1>1. /\ W \in Nat \ {0} /\ r \in Nat /\ r < W
      /\ x.ca \in Nat /\ x.cb \in Nat /\ x = [ca |-> x.ca, cb |-> x.cb]
      /\ SlidingEffective(x, t, cfg) = x.cb * (W - r) + x.ca * W
      /\ SlidingStart(t, cfg) \in Nat
  BY SlidingFacts
<1>2. Counted(0, x.ca, x.cb, r, 0, W, cfg.threshold)
  BY DEF SlidingAccount
<1>3. \A n : SlidingEffective(n, t, cfg) = n.cb * u + n.ca * W
  BY DEF SlidingEffective
<1>4. u \in Nat
  <2>1. SlidingReset(t, cfg) \in Int
    <3> HIDE DEF r
    <3> QED
      BY <1>1 DEF SlidingReset, W
  <2> QED
    BY <2>1 DEF Larger
<1> HIDE DEF x, u, r, W
<1>5. Weight(v, t, cfg) = x.cb * u + x.ca * W
  BY <1>3 DEF Weight, x
<1>6. Weight(v, t, cfg) \in Nat
  <2>1. x.cb * u \in Nat /\ x.ca * W \in Nat
    BY <1>1, <1>4, Products
  <2> QED
    BY <1>5, <2>1
<1>7. Weight(v, t, cfg) < (cfg.threshold + 1) * W
  BY <1>1, <1>2 DEF Counted, Weight, x
<1>8. SlidingCounts(SlidingHash([x EXCEPT !.ca = @ + 1], t, cfg), t, cfg)
        = [ca |-> x.ca + 1, cb |-> x.cb]
  <2>1. [x EXCEPT !.ca = @ + 1] = [ca |-> x.ca + 1, cb |-> x.cb]
    BY <1>1
  <2> QED
    BY <2>1, SlidingHashHolds
<1>9. SlidingCounts(SlidingHash(x, t, cfg), t, cfg) = x
  BY <1>1, SlidingHashHolds
<1>10. Weight(SlidingHash([x EXCEPT !.ca = @ + 1], t, cfg), t, cfg) = Weight(v, t, cfg) + W
  <2>1. Weight(SlidingHash([x EXCEPT !.ca = @ + 1], t, cfg), t, cfg)
          = x.cb * u + (x.ca + 1) * W
    BY <1>3, <1>8 DEF Weight
  <2>2. (x.ca + 1) * W = x.ca * W + W /\ x.cb * u \in Int /\ x.ca * W \in Int
    BY <1>1, <1>4, Products
  <2> QED
    BY <1>1, <1>5, <2>1, <2>2
<1>11. Weight(SlidingHash(x, t, cfg), t, cfg) = Weight(v, t, cfg)
  BY <1>9 DEF Weight, x
<1> QED
  BY <1>6, <1>7, <1>10, <1>11 DEF x, W

\* Time makes nothing heavier.
LEMMA SlidingFades ==
    ASSUME algo = "sliding_window", NEW cfg \in Level, NEW t \in Nat, NEW v,
           SlidingAccount(v, 0, t, 0, cfg)
    PROVE  Weight(v, t + 1, cfg) \in Nat /\ Weight(v, t + 1, cfg) <= Weight(v, t, cfg)
<1> DEFINE W == SlidingLength(cfg)
           c == SlidingCounts(v, t, cfg)
           d == SlidingCounts(v, t + 1, cfg)
           r == t - SlidingStart(t, cfg)
           s == (t + 1) - SlidingStart(t + 1, cfg)
<1>1. SlidingAccount(v, 0, t + 1, 0 + 1, cfg)
  BY SlidingAdvances
<1>2. /\ W \in Nat \ {0} /\ r \in Nat /\ r < W /\ c.ca \in Nat /\ c.cb \in Nat
      /\ Weight(v, t, cfg) = c.cb * (W - r) + c.ca * W
  BY SlidingFacts DEF Weight
<1>3. /\ s \in Nat /\ s < W /\ d.ca \in Nat /\ d.cb \in Nat
      /\ Weight(v, t + 1, cfg) = d.cb * (W - s) + d.ca * W
  <2>1. t + 1 \in Nat
    OBVIOUS
  <2> QED
    BY <1>1, <2>1, SlidingFacts DEF Weight
<1>4. \/ d = c /\ s = r + 1 /\ r + 1 < W
      \/ d.ca = 0 /\ d.cb = c.ca /\ s = 0 /\ r = W - 1
  BY SlidingCountsNext
<1> HIDE DEF W, c, d, r, s
<1>5. W - s \in Nat /\ W - r \in Nat
  BY <1>2, <1>3
<1>6. /\ d.cb * (W - s) \in Nat /\ d.ca * W \in Nat
      /\ c.cb * (W - r) \in Nat /\ c.ca * W \in Nat
  BY <1>2, <1>3, <1>5, Products
<1>7. CASE d = c /\ s = r + 1 /\ r + 1 < W
  <2>1. W - s <= W - r
    BY <1>2, <1>3, <1>7
  <2>2. c.cb * (W - s) <= c.cb * (W - r)
    BY <1>2, <1>5, <2>1
  <2> QED
    BY <1>2, <1>3, <1>6, <1>7, <2>2
<1>8. CASE d.ca = 0 /\ d.cb = c.ca /\ s = 0 /\ r = W - 1
  <2>1. d.cb * (W - s) = c.ca * W /\ d.ca * W = 0
    BY <1>2, <1>8
  <2> QED
    BY <1>2, <1>3, <1>6, <2>1
<1> QED
  BY <1>4, <1>7, <1>8

\* What a sliding window is rewritten to by a request that is admitted.
Charged(v, t, cfg) == SlidingHash([SlidingCounts(v, t, cfg) EXCEPT !.ca = @ + 1], t, cfg)

\* What it is rewritten to when none is.
Rewritten(v, t, cfg) == SlidingHash(SlidingCounts(v, t, cfg), t, cfg)

\* What the scripts leave of a sliding window.
LEMMA SlidingValue ==
    ASSUME algo = "sliding_window", NEW cfg \in Level, NEW t \in Nat, NEW v, NEW id
    PROVE  /\ Admits(v, t, cfg) <=> Weight(v, t, cfg) < cfg.threshold * SlidingLength(cfg)
           /\ Take(v, t, cfg, id).value = Charged(v, t, cfg)
           /\ Eval(v, t, cfg, FALSE, id).allowed <=> Admits(v, t, cfg)
           /\ Eval(v, t, cfg, FALSE, id).value
                  = IF Admits(v, t, cfg) THEN Charged(v, t, cfg) ELSE Rewritten(v, t, cfg)
<1> DEFINE paid == Charged(v, t, cfg)
           kept == Rewritten(v, t, cfg)
           e    == SlidingEval(v, t, cfg, FALSE)
           lets == Weight(v, t, cfg) < cfg.threshold * SlidingLength(cfg)
<1>1. /\ Admits(v, t, cfg) = SlidingAdmits(v, t, cfg)
      /\ Take(v, t, cfg, id) = SlidingTake(v, t, cfg)
      /\ Eval(v, t, cfg, FALSE, id) = e
  BY DEF Admits, ScriptAdmits, Take, ScriptTake, Eval, ScriptEval
<1>2. SlidingAdmits(v, t, cfg) = lets
  BY Zenon DEF SlidingAdmits, Weight
<1>3. SlidingTake(v, t, cfg).value = paid
  BY DEF SlidingTake, Charged
<1>4. e.allowed = SlidingAdmits(v, t, cfg)
  BY DEF SlidingEval, SlidingAdmits
<1>5. e.value = IF SlidingAdmits(v, t, cfg) THEN paid ELSE kept
  BY DEF SlidingEval, SlidingAdmits, Charged, Rewritten
<1> HIDE DEF paid, kept, e, lets
<1>6. /\ Admits(v, t, cfg) <=> lets
      /\ Eval(v, t, cfg, FALSE, id).allowed <=> Admits(v, t, cfg)
      /\ Eval(v, t, cfg, FALSE, id).value
             = IF Admits(v, t, cfg) THEN paid ELSE kept
  BY <1>1, <1>2, <1>4, <1>5
<1> QED
  BY <1>1, <1>3, <1>6, Zenon DEF paid, kept, lets

\* Every sliding window behaves.
LEMMA SlidingBehaves ==
    ASSUME algo = "sliding_window", NEW cfg \in Level, NEW t \in Nat, NEW v, NEW id,
           Good(v, t, cfg)
    PROVE  Behaves(v, t, cfg, id)
<1> DEFINE y    == Weight(v, t, cfg)
           thr  == cfg.threshold
           W    == SlidingLength(cfg)
           paid == Charged(v, t, cfg)
           kept == Rewritten(v, t, cfg)
           n    == thr - y \div W
           e    == Eval(v, t, cfg, FALSE, id)
           p    == Eval(v, t, cfg, TRUE, id)
           took == Take(v, t, cfg, id)
<1>0. algo \in Windows /\ algo \notin Buckets
  BY DEF Windows, Buckets
<1>1. Account(v, 0, t, 0, cfg) /\ SlidingAccount(v, 0, t, 0, cfg)
  BY DEF Good, Account
<1>2. /\ W \in Nat \ {0} /\ thr \in Nat /\ y \in Nat /\ y < (thr + 1) * W
      /\ Weight(paid, t, cfg) = y + W /\ Weight(kept, t, cfg) = y
  BY <1>1, SlidingPaid, SlidingFacts DEF Charged, Rewritten
<1>3. /\ y \div W \in Nat /\ n \in Nat
      /\ y < thr * W <=> n > 0
      /\ (y + W) \div W = y \div W + 1
      /\ \A z \in Nat : z <= y => z \div W \in Nat /\ z \div W <= y \div W
  <2> HIDE DEF y, W, thr
  <2> QED
    BY <1>2, WeighedPlaces
<1>4. /\ Admits(v, t, cfg) <=> y < thr * W
      /\ took.value = paid /\ Deny(v, t, cfg).value = v
      /\ e.allowed <=> Admits(v, t, cfg)
      /\ e.value = IF Admits(v, t, cfg) THEN paid ELSE kept
      /\ p.value = v
  <2>1. /\ Admits(v, t, cfg) <=> y < thr * W
        /\ took.value = paid
        /\ e.allowed <=> Admits(v, t, cfg)
        /\ e.value = IF Admits(v, t, cfg) THEN paid ELSE kept
    BY SlidingValue, Zenon
  <2>2. Deny(v, t, cfg).value = v /\ p.value = v
    BY DEF Deny, ScriptDeny, SlidingDeny, Eval, ScriptEval, SlidingEval
  <2> HIDE DEF y, thr, W, paid, kept, e, p, took
  <2> QED
    BY <2>1, <2>2
<1>5. /\ Account(Visible(v, t), 0, t, 0, cfg)
      /\ Admits(v, t, cfg) => Account(took.value, 0, t, 0, cfg)
      /\ Account(e.value, 0, t, 0, cfg)
      /\ Account(v, 0, t + 1, 0, cfg)
  BY <1>0, <1>1, GoodAccounts, Zenon
<1>6. Weight(Visible(v, t), t, cfg) = y
  BY <1>1, SlidingExpires DEF Weight, SlidingAccount, StoredPair
<1>7. Weight(v, t + 1, cfg) \in Nat /\ Weight(v, t + 1, cfg) <= y
  BY <1>1, SlidingFades
<1>8. \A w, s : Good(w, s, cfg) <=> Account(w, 0, s, 0, cfg)
  BY <1>0 DEF Good
<1>9. \A w, s : Room(w, s, cfg) = thr - Weight(w, s, cfg) \div W
  BY DEF Room, Buckets, Weight
<1>10. Room(v, t, cfg) = n
  BY <1>9 DEF y, n
<1> HIDE DEF y, thr, W, paid, kept, e, p, took
<1>11. Leaves(Visible(v, t), t, cfg, n) /\ Leaves(v, t, cfg, n)
  BY <1>1, <1>5, <1>6, <1>8, <1>9, <1>10 DEF Leaves
<1>12. thr - (y + W) \div W = n - 1
  BY <1>2, <1>3
<1>13. Admits(v, t, cfg) => Leaves(took.value, t, cfg, n - 1)
  BY <1>2, <1>4, <1>5, <1>8, <1>9, <1>12 DEF Leaves
<1>14. Leaves(e.value, t, cfg, IF Admits(v, t, cfg) THEN n - 1 ELSE n)
  <2>1. Room(e.value, t, cfg) = IF Admits(v, t, cfg) THEN n - 1 ELSE n
    BY <1>2, <1>4, <1>9, <1>12
  <2> HIDE DEF n
  <2> QED
    BY <1>5, <1>8, <2>1 DEF Leaves
<1>15. Good(v, t + 1, cfg) /\ Room(v, t + 1, cfg) >= n
  <2>1. Weight(v, t + 1, cfg) \div W \in Nat /\ Weight(v, t + 1, cfg) \div W <= y \div W
    BY <1>3, <1>7
  <2> QED
    BY <1>2, <1>3, <1>5, <1>8, <1>9, <2>1
<1>16. n \in Nat /\ (Admits(v, t, cfg) <=> n > 0)
  BY <1>3, <1>4
<1> HIDE DEF n
<1> QED
  BY <1>4, <1>10, <1>11, <1>13, <1>14, <1>15, <1>16, Zenon DEF Behaves, e, p, took

-----------------------------------------------------------------------------
(***************************************************************************)
(* The logs.                                                               *)
(***************************************************************************)
\* What Redis holds of a log, and no entry of it is from the future.
GoodLog(v, t, cfg) ==
    /\ IsLog(v, cfg) /\ Outlived(v, cfg)
    /\ v # Absent => \A e \in v.entries : e.at <= t

\* A log is absent or stored; what it keeps are entries of it, and none later than now.
LEMMA KeptPast ==
    ASSUME NEW cfg \in Level, NEW t \in Nat, NEW v, GoodLog(v, t, cfg)
    PROVE  /\ Exists(v) <=> v # Absent
           /\ v = Absent \/ StoredLog(v, cfg)
           /\ \A e \in LogKept(v, t, cfg) : /\ v # Absent /\ e \in v.entries
                                            /\ e.at \in Nat /\ e.at <= t
                                            /\ e.at + LogLength(cfg) <= v.expireAt
<1>1. v = Absent \/ StoredLog(v, cfg)
  BY DEF GoodLog, IsLog
<1>2. Exists(v) <=> v # Absent
  BY <1>1 DEF Exists, Absent, StoredLog
<1>3. ASSUME NEW e \in LogKept(v, t, cfg)
      PROVE  v # Absent /\ e \in v.entries /\ e.at \in Nat
  <2>1. v # Absent /\ e \in v.entries
    BY <1>2 DEF LogKept
  <2> QED
    BY <1>1, <2>1 DEF StoredLog
<1> QED
  BY <1>1, <1>2, <1>3 DEF GoodLog, Outlived

\* A log that has expired keeps nothing.
LEMMA LogExpires ==
    ASSUME NEW cfg \in Level, NEW t \in Nat, NEW v, GoodLog(v, t, cfg)
    PROVE  /\ GoodLog(Visible(v, t), t, cfg)
           /\ LogKept(Visible(v, t), t, cfg) = LogKept(v, t, cfg)
<1>1. CASE Expired(v, t)
  <2>1. Visible(v, t) = Absent /\ t > v.expireAt /\ StoredLog(v, cfg)
    BY <1>1, KeptPast DEF Visible, Expired, Exists, Absent
  <2>2. LogKept(Absent, t, cfg) = {} /\ GoodLog(Absent, t, cfg)
    BY DEF LogKept, Exists, Absent, GoodLog, IsLog, Outlived
  <2>3. LogKept(v, t, cfg) = {}
    <3> SUFFICES ASSUME NEW e \in LogKept(v, t, cfg) PROVE FALSE
      OBVIOUS
    <3>1. e.at \in Nat /\ e.at + LogLength(cfg) <= v.expireAt
      BY KeptPast
    <3>2. e.at > t - LogLength(cfg)
      BY DEF LogKept
    <3>3. v.expireAt \in Nat /\ LogLength(cfg) \in Nat
      BY <2>1, LengthFacts DEF StoredLog
    <3> QED
      BY <2>1, <3>1, <3>2, <3>3
  <2> QED
    BY <2>1, <2>2, <2>3
<1>2. CASE ~Expired(v, t)
  BY <1>2 DEF Visible
<1> QED
  BY <1>1, <1>2

\* Eviction leaves what it keeps.
LEMMA LogEvicts ==
    ASSUME NEW cfg \in Level, NEW t \in Nat, NEW v, GoodLog(v, t, cfg)
    PROVE  LET w == LogEvicted(v, t, cfg) IN
           /\ GoodLog(w, t, cfg) /\ LogKept(w, t, cfg) = LogKept(v, t, cfg)
           /\ w = Absent \/ (w.entries = LogKept(v, t, cfg) /\ StoredLog(w, cfg))
<1> DEFINE kept == LogKept(v, t, cfg)
           w    == LogEvicted(v, t, cfg)
<1>1. IsLog(w, cfg)
  <2>1. Covers(v, 0, t, 0, cfg) /\ IsLog(v, cfg)
    BY DEF Covers, GoodLog
  <2> QED
    BY <2>1, EvictedCovers
<1>2. CASE kept = {}
  <2>1. w = Absent
    BY <1>2 DEF LogEvicted
  <2>2. LogKept(Absent, t, cfg) = {} /\ GoodLog(Absent, t, cfg)
    BY DEF LogKept, Exists, Absent, GoodLog, IsLog, Outlived
  <2> QED
    BY <1>2, <2>1, <2>2
<1>3. CASE kept # {}
  <2>1. w = [v EXCEPT !.entries = kept] /\ Exists(v) /\ StoredLog(v, cfg)
    BY <1>3, KeptPast DEF LogEvicted, LogKept
  <2>2. w.entries = kept /\ w.expireAt = v.expireAt /\ w.type = v.type /\ Exists(w)
    BY <2>1 DEF StoredLog, Exists
  <2>3. w # Absent
    BY <2>2 DEF Exists, Absent
  <2>4. Outlived(w, cfg) /\ \A e \in w.entries : e.at <= t
    BY <2>2, KeptPast DEF Outlived
  <2>5. LogKept(w, t, cfg) = kept
    <3>1. \A e \in kept : e.at > t - LogLength(cfg)
      BY DEF LogKept
    <3> HIDE DEF kept, w
    <3> QED
      BY <2>2, <3>1 DEF LogKept
  <2>6. StoredLog(w, cfg)
    BY <1>1, <2>3 DEF IsLog
  <2> HIDE DEF w, kept
  <2> QED
    BY <1>1, <2>2, <2>4, <2>5, <2>6 DEF GoodLog, w, kept
<1> QED
  BY <1>2, <1>3

\* A log that is read while its time to live is restarted.
LEMMA LogRefreshes ==
    ASSUME NEW cfg \in Level, NEW t \in Nat, NEW v, GoodLog(v, t, cfg), StoredLog(v, cfg)
    PROVE  /\ GoodLog(Refreshed(v, t, cfg), t, cfg)
           /\ LogKept(Refreshed(v, t, cfg), t, cfg) = LogKept(v, t, cfg)
<1> DEFINE w == Refreshed(v, t, cfg)
<1>1. w.entries = v.entries /\ w.expireAt = t + LogLength(cfg) + Second /\ w.type = "zset"
  BY DEF Refreshed, StoredLog
<1>2. StoredLog(w, cfg)
  <2>1. Covers(v, 0, t, 0, cfg)
    BY DEF Covers
  <2> QED
    BY <2>1, RefreshedCovers
<1>3. Exists(v) /\ Exists(w) /\ v # Absent
  BY <1>1 DEF StoredLog, Exists, Absent
<1> HIDE DEF w
<1>4. \A e \in w.entries : e.at <= t /\ e.at + LogLength(cfg) <= w.expireAt
  <2>1. \A e \in v.entries : e.at \in Nat /\ e.at <= t
    BY <1>3 DEF GoodLog, StoredLog
  <2>2. LogLength(cfg) \in Nat /\ Second \in Nat
    BY LengthFacts
  <2> QED
    BY <1>1, <2>1, <2>2
<1>5. LogKept(w, t, cfg) = LogKept(v, t, cfg)
  BY <1>1, <1>3 DEF LogKept
<1> QED
  BY <1>2, <1>4, <1>5 DEF GoodLog, Outlived, IsLog, w

\* An entry more is one place less.
LEMMA LogAdds ==
    ASSUME NEW cfg \in Level, NEW t \in Nat, NEW v, GoodLog(v, t, cfg), NEW id \in Nonces,
           id \notin Members(v), LogAdmits(v, t, cfg)
    PROVE  LET w == LogAdded(v, t, cfg, id) IN
           /\ GoodLog(w, t, cfg)
           /\ Cardinality(LogKept(w, t, cfg)) = Cardinality(LogKept(v, t, cfg)) + 1
<1> DEFINE kept == LogKept(v, t, cfg)
           new  == [at |-> t, id |-> id]
           w    == LogAdded(v, t, cfg, id)
           L    == LogLength(cfg)
<1>1. StoredLog(w, cfg)
  <2>1. Covers(v, 0, t, 0, cfg) /\ IsLog(v, cfg)
    BY DEF Covers, GoodLog
  <2> QED
    BY <2>1, AddedCovers
<1>2. \A e \in kept : e.id # id
  <2> TAKE e \in kept
  <2>1. v.type = "zset" /\ e \in v.entries
    BY KeptPast DEF StoredLog
  <2> QED
    BY <2>1 DEF Members
<1>3. w.entries = kept \cup {new} /\ w.expireAt = t + L + Second /\ w.type = "zset"
  BY <1>2 DEF LogAdded
<1>4. L \in Nat \ {0} /\ Second \in Nat
  BY LengthFacts
<1>5. \A e \in kept : e.at \in Nat /\ e.at <= t /\ e.at > t - L
  BY KeptPast DEF LogKept
<1>6. new \notin kept /\ new.at = t /\ t > t - L
  BY <1>2, <1>4
<1>7. IsFiniteSet(kept)
  BY KeptFacts DEF GoodLog
<1>8. Exists(w)
  BY <1>1 DEF StoredLog, Exists
<1> HIDE DEF kept, new, w, L
<1>9. \A e \in w.entries : e.at <= t /\ e.at + L <= w.expireAt /\ e.at > t - L
  BY <1>3, <1>4, <1>5, <1>6
<1>10. LogKept(w, t, cfg) = kept \cup {new}
  BY <1>3, <1>8, <1>9 DEF LogKept, L
<1>11. Cardinality(kept \cup {new}) = Cardinality(kept) + 1
  BY <1>6, <1>7, FS_AddElement
<1> QED
  BY <1>1, <1>9, <1>10, <1>11 DEF GoodLog, Outlived, IsLog, w, kept, L

\* Time makes a log no longer.
LEMMA LogFades ==
    ASSUME NEW cfg \in Level, NEW t \in Nat, NEW v, GoodLog(v, t, cfg)
    PROVE  /\ GoodLog(v, t + 1, cfg)
           /\ Cardinality(LogKept(v, t + 1, cfg)) \in Nat
           /\ Cardinality(LogKept(v, t + 1, cfg)) <= Cardinality(LogKept(v, t, cfg))
<1>1. LogKept(v, t + 1, cfg) \subseteq LogKept(v, t, cfg)
  <2> SUFFICES ASSUME NEW e \in LogKept(v, t + 1, cfg) PROVE e \in LogKept(v, t, cfg)
    OBVIOUS
  <2>1. Exists(v) /\ e \in v.entries /\ e.at > (t + 1) - LogLength(cfg)
    BY DEF LogKept
  <2>2. e.at \in Nat /\ LogLength(cfg) \in Nat
    BY <2>1, KeptPast, LengthFacts DEF StoredLog, Exists, Absent
  <2> QED
    BY <2>1, <2>2 DEF LogKept
<1>2. IsFiniteSet(LogKept(v, t, cfg))
  BY KeptFacts DEF GoodLog
<1>3. \A e \in v.entries : v # Absent => e.at \in Nat /\ e.at <= t
  BY KeptPast DEF GoodLog, StoredLog
<1>4. GoodLog(v, t + 1, cfg)
  BY <1>3 DEF GoodLog
<1> QED
  BY <1>1, <1>2, <1>4, FS_Subset, FS_CardinalityType

\* Every sliding log behaves.
LEMMA LogBehaves ==
    ASSUME algo = "sliding_log", NEW cfg \in Level, NEW t \in Nat, NEW v, NEW id,
           Good(v, t, cfg), Fresh(id, v)
    PROVE  Behaves(v, t, cfg, id)
<1> DEFINE thr  == cfg.threshold
           c    == Cardinality(LogKept(v, t, cfg))
           n    == thr - c
           left == LogEvicted(v, t, cfg)
           e    == Eval(v, t, cfg, FALSE, id)
           p    == Eval(v, t, cfg, TRUE, id)
           took == Take(v, t, cfg, id)
           Is(w, d) == GoodLog(w, t, cfg) /\ Cardinality(LogKept(w, t, cfg)) = d
<1>0. algo \in Windows /\ algo \notin Buckets
  BY DEF Windows, Buckets
<1>1. Account(v, 0, t, 0, cfg) /\ IsLog(v, cfg) /\ GoodLog(v, t, cfg)
  <2>1. Account(v, 0, t, 0, cfg) /\ IsLog(v, cfg) /\ Outlived(v, cfg)
    BY DEF Good
  <2>2. LogSeen(v, 0, t, 0, cfg)
    BY <2>1 DEF Account
  <2> QED
    BY <2>1, <2>2 DEF GoodLog, LogSeen
<1>2. c \in Nat /\ c <= thr /\ thr \in Nat
  BY <1>1, KeptFacts, LengthFacts
<1>3. Admits(v, t, cfg) <=> c < thr
  <2>1. Admits(v, t, cfg) = LogAdmits(v, t, cfg)
    BY LogScripts
  <2> QED
    BY <2>1, Zenon DEF LogAdmits
<1>4. Is(v, c) /\ Is(Visible(v, t), c) /\ Is(left, c)
  BY <1>1, LogExpires, LogEvicts
<1>5. ASSUME Admits(v, t, cfg) PROVE Is(LogAdded(v, t, cfg, id), c + 1)
  <2>1. LogAdmits(v, t, cfg) /\ id \in Nonces /\ id \notin Members(v)
    BY <1>3, <1>5 DEF LogAdmits, Fresh
  <2> QED
    BY <1>1, <2>1, LogAdds
<1>6. took.value = LogAdded(v, t, cfg, id) /\ Deny(v, t, cfg).value = left
  BY LogScripts
<1>7. p.value = left
  BY DEF Eval, ScriptEval, LogEval
<1>8. e.allowed <=> Admits(v, t, cfg)
  BY <1>3, LogEvalCases DEF LogAdmits
<1>9. Is(e.value, IF Admits(v, t, cfg) THEN c + 1 ELSE c)
  <2>1. CASE Admits(v, t, cfg)
    <3>1. e.value = LogAdded(v, t, cfg, id)
      BY <1>3, <2>1, LogEvalCases DEF LogAdmits
    <3> QED
      BY <1>5, <2>1, <3>1
  <2>2. CASE ~Admits(v, t, cfg)
    <3>1. e.value = IF ~Exists(left) THEN left ELSE Refreshed(left, t, cfg)
      BY <1>3, <2>2, LogEvalCases DEF LogAdmits
    <3>2. Exists(left) => Is(Refreshed(left, t, cfg), c)
      BY <1>1, <1>4, LogEvicts, LogRefreshes DEF Exists, Absent
    <3> HIDE DEF Is, left, c
    <3> QED
      BY <1>4, <2>2, <3>1, <3>2
  <2> QED
    BY <2>1, <2>2
<1>10. /\ GoodLog(v, t + 1, cfg) /\ Cardinality(LogKept(v, t + 1, cfg)) \in Nat
       /\ Cardinality(LogKept(v, t + 1, cfg)) <= c
  BY <1>1, LogFades
<1>11. /\ Account(Visible(v, t), 0, t, 0, cfg)
       /\ Admits(v, t, cfg) => Account(took.value, 0, t, 0, cfg)
       /\ Account(left, 0, t, 0, cfg)
       /\ Account(e.value, 0, t, 0, cfg)
       /\ Account(v, 0, t + 1, 0, cfg)
  <2>1. Deny(v, t, cfg).value = left
    BY <1>6
  <2> QED
    BY <1>0, <1>1, <2>1, GoodAccounts, Zenon
<1>12. \A w, s : GoodLog(w, s, cfg) /\ Account(w, 0, s, 0, cfg) => Good(w, s, cfg)
  BY <1>0 DEF Good, GoodLog
<1>13. \A w, s : Room(w, s, cfg) = thr - Cardinality(LogKept(w, s, cfg))
  BY DEF Room, Buckets
<1>14. Room(v, t, cfg) = n
  BY <1>13
<1>15. \A w, d : Is(w, d) /\ Account(w, 0, t, 0, cfg) => Leaves(w, t, cfg, thr - d)
  BY <1>12, <1>13 DEF Leaves
<1> HIDE DEF Is, c, thr, left, e, p, took
<1>16. thr - (c + 1) = n - 1
  BY <1>2
<1>17. /\ Leaves(Visible(v, t), t, cfg, n) /\ Leaves(left, t, cfg, n)
       /\ Admits(v, t, cfg) => Leaves(took.value, t, cfg, n - 1)
       /\ Leaves(e.value, t, cfg, IF Admits(v, t, cfg) THEN n - 1 ELSE n)
  <2>1. Leaves(Visible(v, t), t, cfg, n) /\ Leaves(left, t, cfg, n)
    BY <1>4, <1>11, <1>15
  <2>2. Admits(v, t, cfg) => Leaves(took.value, t, cfg, n - 1)
    <3> HIDE DEF n
    <3> QED
      BY <1>5, <1>6, <1>11, <1>15, <1>16
  <2>3. Leaves(e.value, t, cfg, IF Admits(v, t, cfg) THEN n - 1 ELSE n)
    <3>1. Leaves(e.value, t, cfg, IF Admits(v, t, cfg) THEN thr - (c + 1) ELSE thr - c)
      BY <1>9, <1>11, <1>15
    <3> QED
      BY <1>16, <3>1
  <2> QED
    BY <2>1, <2>2, <2>3
<1>18. Good(v, t + 1, cfg) /\ Room(v, t + 1, cfg) >= n
  BY <1>2, <1>10, <1>11, <1>12, <1>13
<1>19. n \in Nat /\ (Admits(v, t, cfg) <=> n > 0)
  BY <1>2, <1>3
<1> HIDE DEF n
<1> QED
  BY <1>6, <1>7, <1>8, <1>14, <1>17, <1>18, <1>19, Zenon DEF Behaves, e, p, took

-----------------------------------------------------------------------------
(***************************************************************************)
(* All of them.                                                            *)
(***************************************************************************)
\* Whatever the algorithm.
LEMMA ScriptsBehave ==
    ASSUME algo \in Algorithms, NEW cfg \in Level, NEW t \in Nat, NEW v, NEW id,
           Good(v, t, cfg), Fresh(id, v)
    PROVE  Behaves(v, t, cfg, id)
  BY BucketBehaves, FixedBehaves, SlidingBehaves, LogBehaves, Zenon DEF Algorithms, Buckets

\* The inductive invariant, unless the clock is set back.
Held ==
    /\ algo \in Algos
    /\ now \in Nat
    /\ DOMAIN db = Keys
    /\ \A k \in Keys : Good(db[k], now, Quota[k])
    /\ taken \in [Keys -> Nat]

\* The places of a key.
Rooms(k) == Room(db[k], now, Quota[k])

\* A key behaves, and so does what a script finds in it.
LEMMA KeyBehaves ==
    ASSUME NoncesSuffice, Held, NEW k \in Keys
    PROVE  /\ Behaves(db[k], now, Quota[k], FreshNonce(k))
           /\ Good(Found(k), now, Quota[k]) /\ Room(Found(k), now, Quota[k]) = Rooms(k)
           /\ Behaves(Found(k), now, Quota[k], FreshNonce(k))
<1>1. /\ algo \in Algorithms /\ algo \in Algos /\ now \in Nat /\ Quota[k] \in Level
      /\ Good(db[k], now, Quota[k])
  BY EngineAssumption DEF Held
<1>2. Fresh(FreshNonce(k), db[k]) /\ Fresh(FreshNonce(k), Found(k))
  <2> SUFFICES ASSUME algo = "sliding_log"
               PROVE  /\ FreshNonce(k) \in Nonces /\ FreshNonce(k) \notin Members(db[k])
                      /\ FreshNonce(k) \notin Members(Found(k))
    BY DEF Fresh
  <2>1. EnoughNonces /\ IsLog(db[k], Quota[k])
    BY <1>1 DEF NoncesSuffice, Good
  <2> QED
    BY <2>1, NonceIsFresh
<1>3. Behaves(db[k], now, Quota[k], FreshNonce(k))
  BY <1>1, <1>2, ScriptsBehave
<1>4. Good(Found(k), now, Quota[k]) /\ Room(Found(k), now, Quota[k]) = Rooms(k)
  BY <1>3 DEF Behaves, Leaves, Found, Rooms
<1> QED
  BY <1>1, <1>2, <1>3, <1>4, ScriptsBehave

\* A step that admits nobody may give places back, and takes none.
Spares ==
    taken' = taken /\ \A k \in Keys : Rooms(k)' >= Rooms(k)

\* A step that admits a request takes one place of each of its keys.
Costs(K) ==
    /\ K \subseteq Keys /\ \A k \in K : Rooms(k) > 0
    /\ \A k \in Keys : Rooms(k)' = IF k \in K THEN Rooms(k) - 1 ELSE Rooms(k)
    /\ taken' = [k \in Keys |-> IF k \in K THEN taken[k] + 1 ELSE taken[k]]

\* A step that starts the stop-watch again changes no places.
Restarts ==
    taken' = [k \in Keys |-> 0] /\ \A k \in Keys : Rooms(k)' = Rooms(k)

\* A step keeps the invariant, and spares the places of the keys or takes one of each
\* key it admits to.
LEMMA StepRooms ==
    ASSUME MaxBack = 0, NoncesSuffice, Held, [Next]_vars
    PROVE  /\ Held'
           /\ \/ Spares
              \/ \E call \in Calls : Costs(KeysOf(call))
              \/ \E k \in Keys : Costs({k})
              \/ Restarts
<1> DEFINE cfg(k)  == Quota[k]
           found(k) == Found(k)
           n(k)    == Rooms(k)
           lets(k) == Admits(found(k), now, cfg(k))
           took(k) == Take(found(k), now, cfg(k), FreshNonce(k)).value
           denied(k) == Deny(found(k), now, cfg(k)).value
           e(k)    == Eval(found(k), now, cfg(k), FALSE, FreshNonce(k))
           p(k)    == Eval(found(k), now, cfg(k), TRUE, FreshNonce(k)).value
<1>1. /\ algo \in Algos /\ now \in Nat /\ DOMAIN db = Keys /\ taken \in [Keys -> Nat]
      /\ \A k \in Keys : taken[k] \in Nat
  BY DEF Held
<1>2. ASSUME NEW k \in Keys
      PROVE  /\ n(k) \in Nat /\ (lets(k) <=> n(k) > 0)
             /\ Leaves(db[k], now, cfg(k), n(k))
             /\ Leaves(found(k), now, cfg(k), n(k))
             /\ lets(k) => Leaves(took(k), now, cfg(k), n(k) - 1)
             /\ Leaves(denied(k), now, cfg(k), n(k))
             /\ e(k).allowed <=> lets(k)
             /\ Leaves(e(k).value, now, cfg(k), IF lets(k) THEN n(k) - 1 ELSE n(k))
             /\ Leaves(p(k), now, cfg(k), n(k))
             /\ Good(db[k], now + 1, cfg(k)) /\ Room(db[k], now + 1, cfg(k)) >= n(k)
  <2>1. /\ Behaves(db[k], now, Quota[k], FreshNonce(k))
        /\ Good(Found(k), now, Quota[k]) /\ Room(Found(k), now, Quota[k]) = Rooms(k)
        /\ Behaves(Found(k), now, Quota[k], FreshNonce(k))
    BY KeyBehaves
  <2>2. Good(db[k], now + 1, cfg(k)) /\ Room(db[k], now + 1, cfg(k)) >= n(k)
    BY <2>1 DEF Behaves, Rooms
  <2>3. Leaves(db[k], now, cfg(k), n(k)) /\ Leaves(found(k), now, cfg(k), n(k))
    BY <2>1 DEF Leaves, Rooms, Held
  <2>4. /\ n(k) \in Nat /\ (lets(k) <=> n(k) > 0)
        /\ lets(k) => Leaves(took(k), now, cfg(k), n(k) - 1)
        /\ Leaves(denied(k), now, cfg(k), n(k))
        /\ e(k).allowed <=> lets(k)
        /\ Leaves(e(k).value, now, cfg(k), IF lets(k) THEN n(k) - 1 ELSE n(k))
        /\ Leaves(p(k), now, cfg(k), n(k))
    BY <2>1, Zenon DEF Behaves
  <2> QED
    BY <2>2, <2>3, <2>4
<1>3. ASSUME now' \in Nat, DOMAIN db' = Keys, taken' \in [Keys -> Nat],
             NEW R, \A k \in Keys : Leaves(db'[k], now', cfg(k), R[k])
      PROVE  Held' /\ \A k \in Keys : Rooms(k)' = R[k]
  <2>1. algo' = algo
    BY SameAlgo
  <2> QED
    BY <1>1, <1>3, <2>1 DEF Held, Rooms, Leaves, Good, Account, Room
<1>4. ASSUME now' = now, DOMAIN db' = Keys, taken' = taken,
             \A k \in Keys : Leaves(db'[k], now, cfg(k), n(k))
      PROVE  Held' /\ Spares
  <2> DEFINE R == [k \in Keys |-> n(k)]
  <2>1. \A k \in Keys : Leaves(db'[k], now', cfg(k), R[k])
    BY <1>4
  <2>2. Held' /\ \A k \in Keys : Rooms(k)' = R[k]
    <3> HIDE DEF R
    <3> QED
      BY <1>1, <1>3, <1>4, <2>1
  <2>3. \A k \in Keys : Rooms(k)' = Rooms(k)
    BY <2>2
  <2>4. taken' = taken
    BY <1>4
  <2>5. \A k \in Keys : Rooms(k) \in Nat
    BY <1>2
  <2> QED
    BY <2>2, <2>3, <2>4, <2>5 DEF Spares
<1>5. ASSUME NEW K, K \subseteq Keys, \A k \in K : lets(k), now' = now, DOMAIN db' = Keys,
             taken' = [k \in Keys |-> IF k \in K THEN taken[k] + 1 ELSE taken[k]],
             \A k \in Keys : Leaves(db'[k], now, cfg(k), IF k \in K THEN n(k) - 1 ELSE n(k))
      PROVE  Held' /\ Costs(K)
  <2> DEFINE R == [k \in Keys |-> IF k \in K THEN n(k) - 1 ELSE n(k)]
  <2>1. \A k \in Keys : Leaves(db'[k], now', cfg(k), R[k])
    BY <1>5
  <2>2. taken' \in [Keys -> Nat]
    BY <1>1, <1>5
  <2>3. Held' /\ \A k \in Keys : Rooms(k)' = R[k]
    <3> HIDE DEF R
    <3> QED
      BY <1>1, <1>3, <1>5, <2>1, <2>2
  <2>4. \A k \in Keys : Rooms(k)' = IF k \in K THEN Rooms(k) - 1 ELSE Rooms(k)
    BY <2>3
  <2>5. \A k \in K : Rooms(k) > 0
    BY <1>2, <1>5
  <2> QED
    BY <1>5, <2>3, <2>4, <2>5 DEF Costs
<1> HIDE DEF cfg, found, n, lets, took, denied, e, p
<1>6. CASE Advance
  <2> DEFINE R == [k \in Keys |-> Room(db[k], now + 1, cfg(k))]
  <2>1. db' = db /\ taken' = taken /\ now' = now + 1
    BY <1>6 DEF Advance
  <2>2. \A k \in Keys : Leaves(db'[k], now', cfg(k), R[k])
    BY <1>2, <2>1 DEF Leaves
  <2>3. \A k \in Keys : R[k] >= n(k)
    BY <1>2
  <2> HIDE DEF R
  <2>4. Held' /\ \A k \in Keys : Rooms(k)' = R[k]
    BY <1>1, <1>3, <2>1, <2>2
  <2> QED
    BY <2>1, <2>3, <2>4 DEF Spares, n
<1>7. ASSUME NEW d \in 1 .. MaxBack, StepBack(d) PROVE FALSE
  BY <1>7
<1>8. CASE StartWatch
  <2> DEFINE R == [k \in Keys |-> n(k)]
  <2>1. db' = db /\ now' = now /\ taken' = [k \in Keys |-> 0]
    BY <1>8 DEF StartWatch
  <2>2. \A k \in Keys : Leaves(db'[k], now', cfg(k), R[k]) /\ R[k] = n(k)
    BY <1>2, <2>1
  <2> HIDE DEF R
  <2>3. Held' /\ \A k \in Keys : Rooms(k)' = R[k]
    BY <1>1, <1>3, <2>1, <2>2
  <2> QED
    BY <2>1, <2>2, <2>3 DEF Restarts, n
<1>9. ASSUME NEW j \in Keys, Expire(j) PROVE Held' /\ Spares
  <2>1. /\ now' = now /\ taken' = taken /\ DOMAIN db' = Keys
        /\ \A k \in Keys : db'[k] = db[k] \/ db'[k] = found(k)
    BY <1>1, <1>9 DEF Expire, Found, Visible, found
  <2> QED
    BY <1>2, <1>4, <2>1
<1>10. ASSUME NEW call \in Calls, GrantCall(call) PROVE Held' /\ Costs(KeysOf(call))
  <2> DEFINE K == KeysOf(call)
  <2>1. /\ now' = now
        /\ db' = [k \in Keys |-> IF k \in K THEN took(k) ELSE db[k]]
        /\ taken' = [k \in Keys |-> IF k \in K THEN taken[k] + 1 ELSE taken[k]]
        /\ \A k \in K : lets(k)
    BY <1>10 DEF GrantCall, AllHaveRoom, HasRoom, took, lets, found, cfg
  <2>2. K \subseteq Keys
    BY EngineAssumption DEF KeysOf
  <2> HIDE DEF K
  <2>3. \A k \in Keys : Leaves(db'[k], now, cfg(k), IF k \in K THEN n(k) - 1 ELSE n(k))
    BY <1>2, <2>1
  <2>4. DOMAIN db' = Keys
    BY <2>1
  <2>5. Held' /\ Costs(K)
    BY <1>5, <2>1, <2>2, <2>3, <2>4
  <2> QED
    BY <2>5 DEF K
<1>11. ASSUME NEW call \in Calls, DenyCall(call) PROVE Held' /\ Spares
  <2>1. /\ now' = now /\ taken' = taken
        /\ db' = [k \in Keys |-> IF k \in KeysOf(call) THEN denied(k) ELSE db[k]]
    BY <1>11 DEF DenyCall, denied, found, cfg
  <2> QED
    BY <1>2, <1>4, <2>1
<1>12. ASSUME NEW j \in Keys, Try(j) PROVE Held' /\ (Spares \/ Costs({j}))
  <2>1. /\ now' = now /\ db' = [db EXCEPT ![j] = e(j).value]
        /\ taken' = [taken EXCEPT ![j] = IF e(j).allowed THEN @ + 1 ELSE @]
    BY <1>12 DEF Try, e, found, cfg
  <2>2. DOMAIN db' = Keys /\ db'[j] = e(j).value /\ \A k \in Keys : k # j => db'[k] = db[k]
    BY <1>1, <2>1
  <2>3. CASE lets(j)
    <3>1. taken' = [k \in Keys |-> IF k \in {j} THEN taken[k] + 1 ELSE taken[k]]
      BY <1>1, <1>2, <2>1, <2>3
    <3>2. \A k \in Keys : Leaves(db'[k], now, cfg(k), IF k \in {j} THEN n(k) - 1 ELSE n(k))
      BY <1>2, <2>2, <2>3
    <3> QED
      BY <1>5, <2>1, <2>2, <2>3, <3>1, <3>2
  <2>4. CASE ~lets(j)
    <3>1. taken' = taken
      BY <1>1, <1>2, <2>1, <2>4
    <3>2. \A k \in Keys : Leaves(db'[k], now, cfg(k), n(k))
      BY <1>2, <2>2, <2>4
    <3> QED
      BY <1>4, <2>1, <2>2, <3>1, <3>2
  <2> QED
    BY <2>3, <2>4
<1>13. ASSUME NEW j \in Keys, Peek(j) PROVE Held' /\ Spares
  <2>1. now' = now /\ taken' = taken /\ db' = [db EXCEPT ![j] = p(j)]
    BY <1>13 DEF Peek, p, found, cfg
  <2>2. DOMAIN db' = Keys /\ db'[j] = p(j) /\ \A k \in Keys : k # j => db'[k] = db[k]
    BY <1>1, <2>1
  <2> QED
    BY <1>2, <1>4, <2>1, <2>2
<1>14. CASE UNCHANGED vars
  <2>1. now' = now /\ taken' = taken /\ db' = db
    BY <1>14 DEF vars
  <2> QED
    BY <1>1, <1>2, <1>4, <2>1
<1> QED
  BY <1>6, <1>7, <1>8, <1>9, <1>10, <1>11, <1>12, <1>13, <1>14 DEF Next, TryMulti

\* A key that was never used is one it may hold.
LEMMA InitHeld == Init => Held
<1> SUFFICES ASSUME Init, NEW k \in Keys PROVE Good(Absent, 0, Quota[k])
  BY DEF Init, Held
<1>1. Account(Absent, 0, 0, 0, Quota[k])
  BY InitAccountInv DEF AccountInv, Init
<1> QED
  BY <1>1 DEF Good, IsLog, Outlived

\* Every run keeps the invariant.
LEMMA HeldInvariant == ASSUME MaxBack = 0, NoncesSuffice PROVE Spec => []Held
<1>1. Held /\ [Next]_vars => Held'
  BY StepRooms
<1> QED
  BY <1>1, InitHeld, PTL DEF Spec

-----------------------------------------------------------------------------
(***************************************************************************)
(* The ledger.                                                             *)
(***************************************************************************)
\* Places are counted.
LEMMA RoomsCount == NoncesSuffice /\ Held => \A k \in Keys : Rooms(k) \in Nat
  BY KeyBehaves DEF Behaves, Rooms

\* So they are after a step.
LEMMA RoomsCountNext == NoncesSuffice /\ Held' => \A k \in Keys : Rooms(k)' \in Nat
<1>1. NoncesSuffice' = NoncesSuffice
  BY DEF NoncesSuffice, EnoughNonces
<1>2. (NoncesSuffice /\ Held => \A k \in Keys : Rooms(k) \in Nat)'
  BY RoomsCount, PTL
<1> QED
  BY <1>1, <1>2

\* The places the refinement mapping shows are those of the keys.
LEMMA PlacesHeld ==
    NoncesSuffice /\ Held => [k \in Keys |-> Places(k)] = [k \in Keys |-> Rooms(k)]
<1> SUFFICES ASSUME NoncesSuffice, Held, NEW k \in Keys PROVE Places(k) = Rooms(k)
  OBVIOUS
<1>1. Room(Found(k), now, Quota[k]) = Rooms(k)
  BY KeyBehaves
<1>2. algo \in Buckets => Credit(k) = Holds(algo, Found(k), now, Quota[k])
  BY DEF Credit, Holds, Buckets, TokenFull
<1>3. Places(k) = Room(Found(k), now, Quota[k])
  <2>1. CASE algo \in Buckets
    BY <1>2, <2>1 DEF Places, Room
  <2>2. CASE algo = "fixed_window"
    BY <2>2 DEF Places, Room, Buckets
  <2>3. CASE algo = "sliding_window"
    BY <2>3 DEF Places, Room, Buckets
  <2>4. CASE algo = "sliding_log"
    BY <2>4 DEF Places, Room, Buckets
  <2> QED
    BY <2>1, <2>2, <2>3, <2>4, EngineAssumption DEF Held, Algorithms, Buckets
<1> QED
  BY <1>1, <1>3

\* So it is after a step.
LEMMA PlacesHeldNext ==
    NoncesSuffice /\ Held' => [k \in Keys |-> Places(k)]' = [k \in Keys |-> Rooms(k)']
<1>1. NoncesSuffice' = NoncesSuffice
  BY DEF NoncesSuffice, EnoughNonces
<1>2. (NoncesSuffice /\ Held =>
           [k \in Keys |-> Places(k)] = [k \in Keys |-> Rooms(k)])'
  BY PlacesHeld, PTL
<1> QED
  BY <1>1, <1>2

\* Each step of the engine is a step of the ledger.
LEMMA NextIsLedger ==
    ASSUME MaxBack = 0, NoncesSuffice, Held, [Next]_vars
    PROVE  Promised!Next
<1> DEFINE room  == [k \in Keys |-> Rooms(k)]
           after == [k \in Keys |-> Rooms(k)']
<1>1. /\ Held'
      /\ \/ Spares
         \/ \E call \in Calls : Costs(KeysOf(call))
         \/ \E k \in Keys : Costs({k})
         \/ Restarts
  BY StepRooms
<1>2. [k \in Keys |-> Places(k)] = room /\ [k \in Keys |-> Places(k)]' = after
  BY <1>1, PlacesHeld, PlacesHeldNext
<1>4. CASE Spares
  <2>1. \A k \in Keys : Rooms(k)' \in Nat
    BY <1>1, RoomsCountNext
  <2>2. DOMAIN after = Keys /\ \A k \in Keys : after[k] \in Nat /\ after[k] >= room[k]
    BY <1>4, <2>1 DEF Spares
  <2>3. taken' = taken
    BY <1>4 DEF Spares
  <2> HIDE DEF room, after
  <2> QED
    BY <1>2, <2>2, <2>3 DEF Promised!Next, Promised!Free
<1>5. ASSUME NEW K, Costs(K) PROVE Promised!Pay(K)
  <2>1. \A k \in K : room[k] > 0
    BY <1>5 DEF Costs
  <2>2. after = [k \in Keys |-> IF k \in K THEN room[k] - 1 ELSE room[k]]
    BY <1>5 DEF Costs
  <2>3. taken' = [k \in Keys |-> IF k \in K THEN taken[k] + 1 ELSE taken[k]]
    BY <1>5 DEF Costs
  <2> HIDE DEF room, after
  <2> QED
    BY <1>2, <2>1, <2>2, <2>3 DEF Promised!Pay, Promised!HasPlace
<1>6. ASSUME NEW call \in Calls, Costs(KeysOf(call)) PROVE Promised!Next
  <2>1. Promised!Pay({call[i] : i \in DOMAIN call})
    BY <1>5, <1>6 DEF KeysOf
  <2> QED
    BY <2>1 DEF Promised!Next
<1>7. ASSUME NEW k \in Keys, Costs({k}) PROVE Promised!Next
  BY <1>5, <1>7 DEF Promised!Next
<1>8. CASE Restarts
  <2>1. after = room /\ taken' = [k \in Keys |-> 0]
    BY <1>8 DEF Restarts
  <2> HIDE DEF room, after
  <2> QED
    BY <1>2, <2>1 DEF Promised!Next, Promised!Recount
<1> QED
  BY <1>1, <1>4, <1>6, <1>7, <1>8

\* engine.go: unless the clock is set back, every algorithm implements the ledger its
\* caller relies on: a script takes one place from each key it admits to, one that denies
\* takes none, and neither time nor expiry nor a peek ever takes a place away.
THEOREM EngineIsLedger ==
    ASSUME MaxBack = 0, NoncesSuffice PROVE Spec => ImplementsLedger
<1>1. Init => Promised!Init
  <2> SUFFICES ASSUME Init PROVE Promised!Init
    OBVIOUS
  <2>1. Held
    BY InitHeld
  <2>2. \A k \in Keys : Rooms(k) \in Nat
    BY <2>1, RoomsCount
  <2>3. [k \in Keys |-> Places(k)] \in [Keys -> Nat]
    BY <2>1, <2>2, PlacesHeld
  <2> QED
    BY <2>3 DEF Init, Promised!Init
<1>2. Held /\ [Next]_vars => [Promised!Next]_(Promised!vars)
  BY NextIsLedger
<1>3. Spec => []Held
  BY HeldInvariant
<1> QED
  BY <1>1, <1>2, <1>3, PTL DEF Spec, ImplementsLedger, Promised!Spec

-----------------------------------------------------------------------------
(***************************************************************************)
(* What the keys hold, whatever the clock does.                            *)
(***************************************************************************)
Counters == {"fixed_window", "sliding_window"}

\* What a key of a window holds.
Counter(v, cfg) ==
    /\ algo = "fixed_window" => IsCount(v, cfg)
    /\ algo = "sliding_window" => v = Absent \/ StoredPair(v, cfg)

\* The counts of a pair are within the limit.
LEMMA PairCounts ==
    ASSUME NEW cfg \in Level, NEW t, NEW v, v = Absent \/ StoredPair(v, cfg)
    PROVE  LET x == SlidingCounts(v, t, cfg) IN
           /\ x.ca \in 0 .. cfg.threshold /\ x.cb \in 0 .. cfg.threshold
           /\ x = [ca |-> x.ca, cb |-> x.cb]
<1>1. 0 \in 0 .. cfg.threshold
  BY LengthFacts
<1>2. CASE v = Absent
  BY <1>1, <1>2 DEF SlidingCounts, Exists, Absent
<1>3. CASE StoredPair(v, cfg)
  <2>1. v.ca \in 0 .. cfg.threshold /\ v.cb \in 0 .. cfg.threshold
    BY <1>3 DEF StoredPair, SlidingValues
  <2> QED
    BY <1>1, <2>1 DEF SlidingCounts
<1> QED
  BY <1>2, <1>3

\* Counts within the limit make a pair.
LEMMA PairStored ==
    ASSUME NEW cfg \in Level, NEW t \in Nat, NEW ca \in 0 .. cfg.threshold,
           NEW cb \in 0 .. cfg.threshold
    PROVE  StoredPair(SlidingHash([ca |-> ca, cb |-> cb], t, cfg), cfg)
<1> DEFINE W == SlidingLength(cfg)
           f == SlidingStart(t, cfg)
           v == SlidingHash([ca |-> ca, cb |-> cb], t, cfg)
<1>1. W \in Nat \ {0} /\ Second \in Nat
  BY LengthFacts DEF SlidingLength, LogLength
<1>2. f \in Nat /\ f <= t
  <2>1. f = WindowStart(t, W)
    BY DEF SlidingStart
  <2> HIDE DEF f, W
  <2> QED
    BY <1>1, <2>1, WindowFacts
<1>3. v = [type |-> "hash", a |-> f, ca |-> ca, cb |-> cb, expireAt |-> t + 2 * W + Second]
  BY DEF SlidingHash
<1> HIDE DEF W, f, v
<1>4. t + 2 * W + Second \in Nat /\ f + 2 * W <= t + 2 * W + Second
  BY <1>1, <1>2
<1>5. v \in SlidingValues(cfg) /\ v.a = f /\ v.expireAt = t + 2 * W + Second
  BY <1>2, <1>3, <1>4 DEF SlidingValues
<1> QED
  BY <1>4, <1>5 DEF StoredPair, W, v

\* The scripts leave counts within the limit.
LEMMA CounterScripts ==
    ASSUME algo \in Counters, NEW cfg \in Level, NEW t \in Nat, NEW v, Counter(v, cfg), NEW id
    PROVE  /\ Counter(Visible(v, t), cfg)
           /\ Admits(v, t, cfg) => Counter(Take(v, t, cfg, id).value, cfg)
           /\ Counter(Deny(v, t, cfg).value, cfg)
           /\ Counter(Eval(v, t, cfg, FALSE, id).value, cfg)
           /\ Counter(Eval(v, t, cfg, TRUE, id).value, cfg)
<1>1. Counter(Visible(v, t), cfg)
  BY DEF Visible, Counter, IsCount
<1>2. CASE algo = "fixed_window"
  <2> DEFINE c == FixedCount(v, t, cfg)
             e == FixedEval(v, t, cfg, FALSE)
             Fits(w) == IsCount(w, cfg)
  <2>1. IsCount(v, cfg) /\ c \in 0 .. cfg.threshold /\ cfg.threshold \in Nat
    BY <1>2, FixedCountType, LengthFacts DEF Counter
  <2>2. /\ Eval(v, t, cfg, FALSE, id) = e
        /\ Eval(v, t, cfg, TRUE, id).value = v
        /\ Admits(v, t, cfg) = FixedAdmits(v, t, cfg)
        /\ Take(v, t, cfg, id).value = FixedHash(c + 1, t, cfg)
        /\ Deny(v, t, cfg).value = v
    BY <1>2, FixedScripts DEF Eval, ScriptEval, FixedEval
  <2>3. e.value = FixedHash(IF c < cfg.threshold THEN c + 1 ELSE c, t, cfg)
    BY DEF FixedEval
  <2>4. FixedAdmits(v, t, cfg) <=> c < cfg.threshold
    BY DEF FixedAdmits
  <2> HIDE DEF c, e
  <2>5. /\ Fits(FixedHash(c, t, cfg))
        /\ c < cfg.threshold => Fits(FixedHash(c + 1, t, cfg))
    BY <2>1, FixedHashCounts
  <2> QED
    BY <1>1, <1>2, <2>1, <2>2, <2>3, <2>4, <2>5 DEF Counter
<1>3. CASE algo = "sliding_window"
  <2> DEFINE x == SlidingCounts(v, t, cfg)
             W == SlidingLength(cfg)
             u == Larger(0, SlidingReset(t, cfg))
             Fits(w) == w = Absent \/ StoredPair(w, cfg)
  <2>1. Fits(v)
    BY <1>3 DEF Counter
  <2>2. /\ x.ca \in 0 .. cfg.threshold /\ x.cb \in 0 .. cfg.threshold
        /\ x = [ca |-> x.ca, cb |-> x.cb]
    BY <2>1, PairCounts
  <2>3. Fits(Rewritten(v, t, cfg))
    <3>1. Rewritten(v, t, cfg) = SlidingHash([ca |-> x.ca, cb |-> x.cb], t, cfg)
      BY <2>2 DEF Rewritten
    <3> HIDE DEF x
    <3> QED
      BY <2>2, <3>1, PairStored
  <2>4. W \in Nat \ {0} /\ cfg.threshold \in Nat
    BY LengthFacts DEF SlidingLength, LogLength
  <2>5. u \in Nat
    <3>1. SlidingStart(t, cfg) \in Nat
      <4>1. SlidingStart(t, cfg) = WindowStart(t, W)
        BY DEF SlidingStart
      <4> HIDE DEF W
      <4> QED
        BY <2>4, <4>1, WindowFacts
    <3>2. SlidingReset(t, cfg) = SlidingStart(t, cfg) + W - t
      BY DEF SlidingReset
    <3> HIDE DEF W
    <3> QED
      BY <2>4, <3>1, <3>2 DEF Larger
  <2>6. Weight(v, t, cfg) = x.cb * u + x.ca * W
    BY DEF Weight, SlidingEffective
  <2>7. Weight(v, t, cfg) < cfg.threshold * W => Fits(Charged(v, t, cfg))
    <3> SUFFICES ASSUME Weight(v, t, cfg) < cfg.threshold * W
                 PROVE  Fits(Charged(v, t, cfg))
      OBVIOUS
    <3>1. Charged(v, t, cfg) = SlidingHash([ca |-> x.ca + 1, cb |-> x.cb], t, cfg)
      <4>1. [x EXCEPT !.ca = @ + 1] = [ca |-> x.ca + 1, cb |-> x.cb]
        <5> HIDE DEF x
        <5> QED
          BY <2>2
      <4> QED
        BY <4>1 DEF Charged
    <3> HIDE DEF x, u, W
    <3>5. x.ca \in Nat /\ x.cb \in Nat /\ cfg.threshold \in Nat /\ W \in Nat \ {0} /\ W \in Nat
      BY <2>2, <2>4
    <3>2. x.ca * W < cfg.threshold * W
      <4>1. x.cb * u \in Nat /\ x.ca * W \in Nat /\ cfg.threshold * W \in Nat
        BY <2>5, <3>5, Products
      <4> QED
        BY <2>6, <4>1
    <3>3. x.ca < cfg.threshold
      BY <3>2, <3>5, Products
    <3>4. x.ca + 1 \in 0 .. cfg.threshold
      BY <2>2, <2>4, <3>3
    <3> QED
      BY <2>2, <3>1, <3>4, PairStored
  <2>8. /\ Admits(v, t, cfg) <=> Weight(v, t, cfg) < cfg.threshold * W
        /\ Take(v, t, cfg, id).value = Charged(v, t, cfg)
        /\ Eval(v, t, cfg, FALSE, id).value
               = IF Admits(v, t, cfg) THEN Charged(v, t, cfg) ELSE Rewritten(v, t, cfg)
    BY <1>3, SlidingValue, Zenon
  <2>9. Deny(v, t, cfg).value = v /\ Eval(v, t, cfg, TRUE, id).value = v
    BY <1>3 DEF Deny, ScriptDeny, SlidingDeny, Eval, ScriptEval, SlidingEval
  <2>10. \A w : Fits(w) => Counter(w, cfg)
    BY <1>3 DEF Counter
  <2> HIDE DEF x, W, u, Fits
  <2>11. Fits(Eval(v, t, cfg, FALSE, id).value)
    BY <2>3, <2>7, <2>8
  <2> QED
    BY <1>1, <2>1, <2>7, <2>8, <2>9, <2>10, <2>11
<1> QED
  BY <1>2, <1>3 DEF Counters

\* The inductive invariant.
CounterInv ==
    /\ algo \in Algos
    /\ now \in Nat /\ age \in Nat
    /\ DOMAIN db = Keys
    /\ \A k \in Keys : Counter(db[k], Quota[k])
    /\ taken \in [Keys -> Nat] /\ due \in [Keys -> Nat]

\* Every step keeps it.
LEMMA NextCounterInv ==
    ASSUME algo \in Counters, CounterInv, [Next]_vars
    PROVE  CounterInv'
<1>1. \A k \in Keys :
          /\ Quota[k] \in Level /\ taken[k] \in Nat /\ due[k] \in Nat
          /\ Counter(db[k], Quota[k]) /\ Counter(Found(k), Quota[k])
  BY CounterScripts, EngineAssumption DEF CounterInv, Found
<1>2. /\ algo \in Algos /\ now \in Nat /\ age \in Nat /\ DOMAIN db = Keys
      /\ taken \in [Keys -> Nat] /\ due \in [Keys -> Nat]
  BY DEF CounterInv
<1>3. ASSUME now' \in Nat, age' \in Nat, DOMAIN db' = Keys, taken' \in [Keys -> Nat],
             due' \in [Keys -> Nat], \A k \in Keys : Counter(db'[k], Quota[k])
      PROVE  CounterInv'
  BY <1>2, <1>3, SameAlgo DEF CounterInv, Counter
<1>4. CASE Advance
  <2>1. /\ db' = db /\ taken' = taken /\ now' = now + 1 /\ age' = age + 1
        /\ due' = [k \in Keys |-> Larger(0, due[k] - 1)]
    BY <1>4 DEF Advance
  <2>2. \A k \in Keys : Larger(0, due[k] - 1) \in Nat
    BY <1>1 DEF Larger
  <2> QED
    BY <1>1, <1>2, <1>3, <2>1, <2>2
<1>5. ASSUME NEW d \in 1 .. MaxBack, StepBack(d) PROVE CounterInv'
  <2>1. /\ now' = now - d /\ d <= now /\ UNCHANGED <<db, age, taken, due>>
        /\ d \in Int
    BY <1>5, EngineAssumption DEF StepBack
  <2> QED
    BY <1>1, <1>2, <1>3, <2>1
<1>6. CASE StartWatch
  <2>1. UNCHANGED <<db, now, due>> /\ age' = 0 /\ taken' = [k \in Keys |-> 0]
    BY <1>6 DEF StartWatch
  <2> QED
    BY <1>1, <1>2, <1>3, <2>1
<1>7. ASSUME NEW j \in Keys, Expire(j) PROVE CounterInv'
  <2>1. /\ UNCHANGED <<now, age, taken, due>> /\ DOMAIN db' = Keys
        /\ \A k \in Keys : db'[k] = db[k] \/ db'[k] = Found(k)
    BY <1>2, <1>7 DEF Expire, Found, Visible
  <2> QED
    BY <1>1, <1>2, <1>3, <2>1
<1>8. ASSUME NEW call \in Calls, GrantCall(call) PROVE CounterInv'
  <2> DEFINE took(k) == Take(Found(k), now, Quota[k], FreshNonce(k)).value
             K == KeysOf(call)
  <2>1. /\ UNCHANGED <<now, age>>
        /\ db' = [k \in Keys |-> IF k \in K THEN took(k) ELSE db[k]]
        /\ taken' = [k \in Keys |-> IF k \in K THEN taken[k] + 1 ELSE taken[k]]
    BY <1>8 DEF GrantCall
  <2>2. due' = [k \in Keys |-> due[k]]
    BY <1>8 DEF GrantCall, Promise, Counters
  <2>3. \A k \in K : Admits(Found(k), now, Quota[k])
    BY <1>8 DEF GrantCall, AllHaveRoom, HasRoom
  <2>4. \A k \in Keys : k \in K => Counter(took(k), Quota[k])
    BY <1>1, <1>2, <2>3, CounterScripts, Zenon
  <2> HIDE DEF took, K
  <2> QED
    BY <1>1, <1>2, <1>3, <2>1, <2>2, <2>4
<1>9. ASSUME NEW call \in Calls, DenyCall(call) PROVE CounterInv'
  <2> DEFINE denied(k) == Deny(Found(k), now, Quota[k]).value
  <2>1. /\ UNCHANGED <<now, age, taken, due>>
        /\ db' = [k \in Keys |-> IF k \in KeysOf(call) THEN denied(k) ELSE db[k]]
    BY <1>9 DEF DenyCall
  <2>2. \A k \in Keys : Counter(denied(k), Quota[k])
    BY <1>1, <1>2, CounterScripts, Zenon
  <2> HIDE DEF denied
  <2> QED
    BY <1>1, <1>2, <1>3, <2>1, <2>2
<1>10. ASSUME NEW j \in Keys, Try(j) PROVE CounterInv'
  <2> DEFINE e == Eval(Found(j), now, Quota[j], FALSE, FreshNonce(j))
  <2>1. /\ UNCHANGED <<now, age>> /\ db' = [db EXCEPT ![j] = e.value]
        /\ taken' = [taken EXCEPT ![j] = IF e.allowed THEN @ + 1 ELSE @]
    BY <1>10 DEF Try
  <2>2. due' = [due EXCEPT ![j] = @]
    BY <1>10 DEF Try, Promise, Counters
  <2>3. Counter(e.value, Quota[j])
    BY <1>1, <1>2, CounterScripts, Zenon
  <2> HIDE DEF e
  <2> QED
    BY <1>1, <1>2, <1>3, <2>1, <2>2, <2>3
<1>11. ASSUME NEW j \in Keys, Peek(j) PROVE CounterInv'
  <2> DEFINE e == Eval(Found(j), now, Quota[j], TRUE, FreshNonce(j))
  <2>1. UNCHANGED <<now, age, taken, due>> /\ db' = [db EXCEPT ![j] = e.value]
    BY <1>11 DEF Peek
  <2>2. Counter(e.value, Quota[j])
    BY <1>1, <1>2, CounterScripts
  <2> HIDE DEF e
  <2> QED
    BY <1>1, <1>2, <1>3, <2>1, <2>2
<1>12. CASE UNCHANGED vars
  BY <1>1, <1>2, <1>3, <1>12 DEF vars
<1> QED
  BY <1>4, <1>5, <1>6, <1>7, <1>8, <1>9, <1>10, <1>11, <1>12 DEF Next, TryMulti

\* What the counters, the buckets and the logs hold.
AllTyped ==
    /\ algo \in Algos
    /\ algo \in Counters => CounterInv
    /\ algo \in Buckets => TypeOK
    /\ algo = "sliding_log" => LogInv

\* Every run keeps it.
LEMMA TypesInvariant == ASSUME NoncesSuffice PROVE Spec => []AllTyped
<1> DEFINE IInv == algo \in Algos /\ (algo \in Counters => CounterInv)
                   /\ (algo = "sliding_log" => LogInv)
<1>1. Init => IInv
  BY InitLogInv DEF Init, CounterInv, Counter, IsCount
<1>2. IInv /\ [Next]_vars => IInv'
  <2> SUFFICES ASSUME IInv, [Next]_vars PROVE IInv'
    OBVIOUS
  <2>1. algo' = algo
    BY SameAlgo
  <2>2. algo \in Counters => CounterInv'
    BY NextCounterInv
  <2>3. algo = "sliding_log" => LogInv'
    BY NextLogInv DEF NoncesSuffice
  <2> QED
    BY <2>1, <2>2, <2>3 DEF Counters
<1>3. IInv /\ (algo \in Buckets => TypeOK) => AllTyped
  BY DEF AllTyped
<1> QED
  BY <1>1, <1>2, <1>3, BucketTypeOK, PTL DEF Spec

\* What engine.go stores, whatever the algorithm and even if the clock is set back:
\* every key is absent or holds what its algorithm stores, within the quota.
THEOREM EngineTypeOK == ASSUME NoncesSuffice PROVE Spec => []TypeOK
<1>1. AllTyped => TypeOK
  <2> SUFFICES ASSUME AllTyped PROVE TypeOK
    OBVIOUS
  <2>1. CASE algo \in Buckets
    BY <2>1 DEF AllTyped
  <2>2. CASE algo \in Counters
    <3>1. CounterInv
      BY <2>2 DEF AllTyped
    <3>2. \A k \in Keys : db[k] = Absent \/ IsValue(db[k], Quota[k])
      <4>1. CASE algo = "fixed_window"
        BY <3>1, <4>1 DEF CounterInv, Counter, IsCount, StoredCount, IsValue
      <4>2. CASE algo = "sliding_window"
        BY <3>1, <4>2 DEF CounterInv, Counter, StoredPair, IsValue
      <4> QED
        BY <2>2, <4>1, <4>2 DEF Counters
    <3> QED
      BY <3>1, <3>2 DEF CounterInv, TypeOK
  <2>3. CASE algo = "sliding_log"
    <3>1. LogInv
      BY <2>3 DEF AllTyped
    <3>2. ASSUME NEW k \in Keys PROVE db[k] = Absent \/ IsValue(db[k], Quota[k])
      <4>1. db[k] = Absent \/ StoredLog(db[k], Quota[k])
        BY <3>1 DEF LogInv, IsLog
      <4>2. StoredLog(db[k], Quota[k]) => IsLogValue(db[k], Quota[k])
        BY DEF StoredLog, IsLogValue
      <4> QED
        BY <2>3, <4>1, <4>2 DEF IsValue
    <3> QED
      BY <3>1, <3>2 DEF LogInv, TypeOK
  <2> QED
    BY <2>1, <2>2, <2>3, EngineAssumption DEF AllTyped, Algorithms, Counters, Buckets
<1> QED
  BY <1>1, TypesInvariant, PTL

-----------------------------------------------------------------------------
(***************************************************************************)
(* Expiry.                                                                 *)
(***************************************************************************)
\* The multi-key script answers and writes the same to two windows or logs that count
\* the same.
LEMMA SameCountSameScript ==
    ASSUME algo \in Windows, NEW cfg, NEW t, NEW v, NEW w, NEW id,
           algo = "fixed_window" => FixedCount(v, t, cfg) = FixedCount(w, t, cfg),
           algo = "sliding_window" => SlidingCounts(v, t, cfg) = SlidingCounts(w, t, cfg),
           algo = "sliding_log" => LogKept(v, t, cfg) = LogKept(w, t, cfg)
    PROVE  /\ Admits(v, t, cfg) = Admits(w, t, cfg)
           /\ Take(v, t, cfg, id) = Take(w, t, cfg, id)
           /\ Deny(v, t, cfg).report = Deny(w, t, cfg).report
<1>1. CASE algo = "fixed_window"
  <2>1. FixedAdmits(v, t, cfg) = FixedAdmits(w, t, cfg)
    BY <1>1 DEF FixedAdmits
  <2>2. FixedTake(v, t, cfg) = FixedTake(w, t, cfg)
    BY <1>1 DEF FixedTake
  <2>3. FixedDeny(v, t, cfg).report = FixedDeny(w, t, cfg).report
    BY <1>1 DEF FixedDeny
  <2> QED
    BY <1>1, <2>1, <2>2, <2>3 DEF Admits, ScriptAdmits, Take, ScriptTake, Deny, ScriptDeny
<1>2. CASE algo = "sliding_window"
  <2>1. SlidingAdmits(v, t, cfg) = SlidingAdmits(w, t, cfg)
    BY <1>2 DEF SlidingAdmits
  <2>2. SlidingTake(v, t, cfg) = SlidingTake(w, t, cfg)
    BY <1>2 DEF SlidingTake
  <2>3. SlidingDeny(v, t, cfg).report = SlidingDeny(w, t, cfg).report
    BY <1>2 DEF SlidingDeny
  <2> QED
    BY <1>2, <2>1, <2>2, <2>3 DEF Admits, ScriptAdmits, Take, ScriptTake, Deny, ScriptDeny
<1>3. CASE algo = "sliding_log"
  <2>1. LogAdmits(v, t, cfg) = LogAdmits(w, t, cfg)
    BY <1>3 DEF LogAdmits
  <2>2. LogTake(v, t, cfg, id) = LogTake(w, t, cfg, id)
    BY <1>3 DEF LogTake, LogAdded
  <2>3. LogDeny(v, t, cfg).report = LogDeny(w, t, cfg).report
    BY <1>3 DEF LogDeny
  <2> QED
    BY <1>3, <2>1, <2>2, <2>3 DEF Admits, ScriptAdmits, Take, ScriptTake, Deny, ScriptDeny
<1> QED
  BY <1>1, <1>2, <1>3 DEF Windows

\* The PEXPIRE of the scripts is never too short: a key that Redis has let expire would
\* answer and be charged as the fresh one that takes its place.  For a log, whose
\* entries may be newer than the clock once it was set back, only if it never was.
THEOREM EngineExpiryInvisible ==
    ASSUME NoncesSuffice, MaxBack = 0 \/ "sliding_log" \notin Algos
    PROVE  Spec => []ExpiryInvisible
<1>1. AllTyped /\ (algo \in Buckets => ExpiryInvisible) /\ (MaxBack = 0 => Held)
        => ExpiryInvisible
  <2> SUFFICES ASSUME AllTyped, algo \in Buckets => ExpiryInvisible, MaxBack = 0 => Held
               PROVE  ExpiryInvisible
    OBVIOUS
  <2>1. CASE algo \in Buckets
    BY <2>1
  <2>2. CASE algo \notin Buckets
    <3> SUFFICES ASSUME NEW k \in Keys, Expired(db[k], now)
                 PROVE  LET cfg == Quota[k] IN
                        /\ Admits(db[k], now, cfg) = Admits(Absent, now, cfg)
                        /\ Take(db[k], now, cfg, FreshNonce(k))
                               = Take(Absent, now, cfg, FreshNonce(k))
                        /\ Deny(db[k], now, cfg).report = Deny(Absent, now, cfg).report
      BY DEF ExpiryInvisible
    <3>1. algo \in Windows /\ algo \in Algos /\ Quota[k] \in Level
      BY <2>2, EngineAssumption DEF AllTyped, Algorithms, Windows, Buckets
    <3>2. Visible(db[k], now) = Absent
      BY DEF Visible
    <3>3. algo = "fixed_window"
            => FixedCount(db[k], now, Quota[k]) = FixedCount(Absent, now, Quota[k])
      <4>1. algo = "fixed_window" => IsCount(db[k], Quota[k]) /\ now \in Nat
        BY DEF AllTyped, Counters, CounterInv, Counter
      <4> QED
        BY <3>1, <3>2, <4>1, FixedFound
    <3>4. algo = "sliding_window"
            => SlidingCounts(db[k], now, Quota[k]) = SlidingCounts(Absent, now, Quota[k])
      <4>1. algo = "sliding_window"
              => now \in Nat /\ (db[k] = Absent \/ StoredPair(db[k], Quota[k]))
        BY DEF AllTyped, Counters, CounterInv, Counter
      <4> QED
        BY <3>1, <3>2, <4>1, SlidingExpires
    <3>5. algo = "sliding_log"
            => LogKept(db[k], now, Quota[k]) = LogKept(Absent, now, Quota[k])
      <4>1. algo = "sliding_log" => now \in Nat /\ GoodLog(db[k], now, Quota[k])
        <5> SUFFICES ASSUME algo = "sliding_log"
                     PROVE  now \in Nat /\ GoodLog(db[k], now, Quota[k])
          OBVIOUS
        <5>1. Held
          BY <3>1
        <5>2. Good(db[k], now, Quota[k]) /\ now \in Nat
          BY <5>1 DEF Held
        <5>3. LogSeen(db[k], 0, now, 0, Quota[k])
          BY <5>2 DEF Good, Account
        <5> QED
          BY <5>2, <5>3 DEF Good, GoodLog, LogSeen
      <4> QED
        BY <3>1, <3>2, <4>1, LogExpires
    <3> QED
      BY <3>1, <3>3, <3>4, <3>5, SameCountSameScript
  <2> QED
    BY <2>1, <2>2
<1>2. MaxBack = 0 => (Spec => []Held)
  BY HeldInvariant
<1>3. Spec => [](MaxBack = 0 => Held)
  <2>1. CASE MaxBack = 0
    <3>1. Held => (MaxBack = 0 => Held)
      OBVIOUS
    <3> QED
      BY <1>2, <2>1, <3>1, PTL
  <2>2. CASE MaxBack # 0
    <3>1. MaxBack = 0 => Held
      BY <2>2
    <3> QED
      BY <3>1, PTL
  <2> QED
    BY <2>1, <2>2
<1> QED
  BY <1>1, <1>3, TypesInvariant, BucketExpiryInvisible, PTL

-----------------------------------------------------------------------------
(***************************************************************************)
(* The time a refused request is told to wait, and the requests a client   *)
(* is told it may still send.                                              *)
(***************************************************************************)
\* How long the multi-key script tells a refused request to wait.
Wait(v, t, cfg) == Deny(v, t, cfg).report.reset

\* What a request is told that comes a time d later and finds v.
AdmitsLater(v, t, d, cfg) == Admits(Visible(v, t + d), t + d, cfg)

\* The wait is long enough and, but for a token bucket, no longer than that.
Waits(v, t, cfg) ==
    /\ Wait(v, t, cfg) \in Nat
    /\ AdmitsLater(v, t, Wait(v, t, cfg), cfg)
    /\ algo # "token_bucket" =>
           \A d \in Nat : d < Wait(v, t, cfg) => ~AdmitsLater(v, t, d, cfg)

-----------------------------------------------------------------------------

\* A bucket left alone refills.
LEMMA BucketLater ==
    ASSUME algo \in Buckets, NEW cfg \in Level, NEW t \in Nat, NEW v, Good(v, t, cfg),
           NEW d \in Nat
    PROVE  AdmitsLater(v, t, d, cfg)
               <=> Holds(algo, v, t, cfg) + d * cfg.threshold >= Second
<1> DEFINE c == Holds(algo, v, t, cfg)
           z == Holds(algo, v, t + d, cfg)
<1>1. v = Absent \/ (Stored(algo, v, cfg) /\ v.last <= t)
  BY DEF Good
<1>2. /\ Holds(algo, Visible(v, t + d), t + d, cfg) = z
      /\ Visible(v, t + d) = Absent \/ Stored(algo, Visible(v, t + d), cfg)
  BY <1>1, FoundHolds
<1>3. Admits(Visible(v, t + d), t + d, cfg) <=> z >= Second
  BY <1>2, AdmitsIfPays
<1>4. z = Smaller(TokenFull(cfg), c + d * cfg.threshold)
  BY <1>1, HoldsLater
<1>5. c \in Nat /\ TokenFull(cfg) \in Nat /\ TokenFull(cfg) >= Second /\ Second \in Nat
  BY <1>1, HoldsType, LevelFacts, EngineAssumption
<1>6. d * cfg.threshold \in Nat
  BY LevelFacts, NatProducts
<1> HIDE DEF c, z
<1> QED
  BY <1>3, <1>4, <1>5, <1>6 DEF AdmitsLater, Smaller, c

\* Both buckets tell the truth: a token bucket when it is full, a leaky bucket when it
\* has a slot.
LEMMA BucketWaits ==
    ASSUME algo \in Buckets, NEW cfg \in Level, NEW t \in Nat, NEW v, Good(v, t, cfg),
           ~Admits(v, t, cfg)
    PROVE  Waits(v, t, cfg)
<1> DEFINE c == Holds(algo, v, t, cfg)
           w == Wait(v, t, cfg)
           thr == cfg.threshold
           Full == TokenFull(cfg)
<1>1. v = Absent \/ Stored(algo, v, cfg)
  BY DEF Good
<1>2. /\ c \in Nat /\ Full \in Nat /\ Full >= Second /\ Second \in Nat /\ thr \in Nat \ {0}
      /\ Full = cfg.burst * Second /\ cfg.burst \in Nat
  BY <1>1, HoldsType, LevelFacts, EngineAssumption
<1>3. c < Second
  BY <1>1, <1>2, AdmitsIfPays
<1>4. \A d \in Nat : AdmitsLater(v, t, d, cfg) <=> c + d * thr >= Second
  BY BucketLater
<1>5. CASE algo = "token_bucket"
  <2>1. w = CeilDiv(Full - c, thr)
    <3>1. w = TokenReport(TokenNow(v, t, cfg), cfg).reset
      BY <1>5 DEF Wait, Deny, ScriptDeny, TokenDeny
    <3>2. TokenNow(v, t, cfg) = c
      BY <1>5 DEF Holds
    <3> HIDE DEF c
    <3>3. w = TokenFullIn(c, cfg)
      BY <1>2, <1>3, <3>1, <3>2 DEF TokenReport
    <3> QED
      BY <3>3 DEF TokenFullIn
  <2> HIDE DEF c, w, thr, Full
  <2>2. Full - c \in Int /\ Full - c >= 0 /\ Full - c >= Second - c
    BY <1>2, <1>3
  <2>3. w \in Nat /\ w * thr >= Full - c
    BY <1>2, <2>1, <2>2, CeilDivFacts
  <2>4. w * thr \in Nat
    BY <1>2, <2>3, NatProducts
  <2>5. c + w * thr >= Second
    BY <1>2, <2>2, <2>3, <2>4
  <2> QED
    BY <1>4, <1>5, <2>3, <2>5 DEF Waits, w
<1>6. CASE algo = "leaky_bucket"
  <2> DEFINE lv == LeakyNow(v, t, cfg)
  <2>1. w = CeilDiv(Larger(0, lv - (cfg.burst - 1) * Second), thr)
    BY <1>6 DEF Wait, Deny, ScriptDeny, LeakyDeny, LeakyWait
  <2>2. c = Full - lv
    BY <1>6 DEF Holds
  <2>3. lv \in Int
    BY <1>1, <1>6, LeakyNowType DEF Stored
  <2>4. (cfg.burst - 1) * Second = Full - Second
    <3>1. (cfg.burst - 1) * Second = cfg.burst * Second - Second
      BY <1>2
    <3> QED
      BY <1>2, <3>1
  <2> HIDE DEF c, w, thr, Full, lv
  <2>5. Larger(0, lv - (cfg.burst - 1) * Second) = Second - c
    BY <1>2, <1>3, <2>2, <2>3, <2>4 DEF Larger
  <2>6. Second - c \in Nat
    BY <1>2, <1>3
  <2>7. w \in Nat /\ w * thr >= Second - c
    BY <1>2, <2>1, <2>5, <2>6, CeilDivFacts
  <2>8. w * thr \in Nat
    BY <1>2, <2>7, NatProducts
  <2>9. c + w * thr >= Second
    BY <1>2, <2>7, <2>8
  <2>10. ASSUME NEW d \in Nat, d < w PROVE ~AdmitsLater(v, t, d, cfg)
    <3>1. d * thr < Second - c
      BY <1>2, <2>1, <2>5, <2>6, <2>10, CeilDivLeast
    <3>2. d * thr \in Nat
      BY <1>2, NatProducts
    <3> QED
      BY <1>2, <1>4, <3>1, <3>2
  <2> QED
    BY <1>4, <2>7, <2>9, <2>10 DEF Waits, w
<1> QED
  BY <1>5, <1>6 DEF Buckets

\* A fixed window admits again when the next one begins, and not before.
LEMMA FixedWaits ==
    ASSUME algo = "fixed_window", NEW cfg \in Level, NEW t \in Nat, NEW v, Good(v, t, cfg),
           ~Admits(v, t, cfg)
    PROVE  Waits(v, t, cfg)
<1> DEFINE W == FixedLength(cfg)
           f == WindowStart(t, W)
           w == Wait(v, t, cfg)
           thr == cfg.threshold
           Count(s) == FixedCount(v, s, cfg)
<1>1. IsCount(v, cfg) /\ algo # "token_bucket"
  BY DEF Good, Account, FixedSeen, Buckets
<1>2. W \in Nat \ {0} /\ thr \in Nat /\ thr > 0
  BY LengthFacts, LevelFacts
<1>3. f \in Nat /\ f <= t /\ t < f + W
  <2> HIDE DEF W
  <2> QED
    BY <1>2, WindowFacts
<1>4. /\ \A s \in Nat : f <= s /\ s < f + W => WindowStart(s, W) = f
      /\ WindowStart(f + W, W) = f + W
  <2> HIDE DEF W
  <2> QED
    BY <1>2, WindowSpans
<1>5. w = f + W - t
  BY DEF Wait, Deny, ScriptDeny, FixedDeny, FixedReset
<1>6. ASSUME NEW d \in Nat PROVE AdmitsLater(v, t, d, cfg) <=> Count(t + d) < thr
  <2>1. FixedCount(Visible(v, t + d), t + d, cfg) = Count(t + d)
    BY <1>1, FixedFound
  <2>2. Admits(Visible(v, t + d), t + d, cfg) = FixedAdmits(Visible(v, t + d), t + d, cfg)
    BY FixedScripts
  <2>3. FixedAdmits(Visible(v, t + d), t + d, cfg)
          <=> FixedCount(Visible(v, t + d), t + d, cfg) < thr
    BY DEF FixedAdmits
  <2> HIDE DEF Count, thr
  <2> QED
    BY <2>1, <2>2, <2>3 DEF AdmitsLater
<1>7. ~(Count(t) < thr)
  <2>1. Admits(v, t, cfg) = FixedAdmits(v, t, cfg)
    BY FixedScripts
  <2>2. FixedAdmits(v, t, cfg) <=> Count(t) < thr
    BY DEF FixedAdmits
  <2> QED
    BY <2>1, <2>2
<1>8. \A s : Count(s) = IF Exists(v) /\ v.w = WindowStart(s, W) THEN v.c ELSE 0
  BY DEF FixedCount
<1> HIDE DEF W, f, w, thr, Count
<1>9. Exists(v) /\ v.w = f /\ Count(t) = v.c
  BY <1>2, <1>7, <1>8 DEF f
<1>10. Count(f + W) = 0
  BY <1>2, <1>3, <1>4, <1>8, <1>9
<1>11. ASSUME NEW d \in Nat, d < w PROVE ~AdmitsLater(v, t, d, cfg)
  <2>1. t + d \in Nat /\ f <= t + d /\ t + d < f + W
    BY <1>2, <1>3, <1>5, <1>11
  <2>2. Count(t + d) = Count(t)
    BY <1>4, <1>8, <1>9, <2>1
  <2> QED
    BY <1>6, <1>7, <2>2
<1>12. w \in Nat /\ t + w = f + W
  BY <1>2, <1>3, <1>5
<1>13. AdmitsLater(v, t, w, cfg)
  BY <1>2, <1>6, <1>10, <1>12
<1> QED
  BY <1>11, <1>12, <1>13 DEF Waits, w

\* A sliding log admits again when its oldest entry leaves, and not before.
LEMMA LogWaits ==
    ASSUME algo = "sliding_log", NEW cfg \in Level, NEW t \in Nat, NEW v, Good(v, t, cfg),
           ~Admits(v, t, cfg)
    PROVE  Waits(v, t, cfg)
<1> DEFINE L    == LogLength(cfg)
           kept == LogKept(v, t, cfg)
           thr  == cfg.threshold
           w    == Wait(v, t, cfg)
           Kept(s) == LogKept(v, s, cfg)
           oldest == CHOOSE e \in kept : \A f \in kept : e.at <= f.at
<1>1. GoodLog(v, t, cfg) /\ algo # "token_bucket"
  <2>1. LogSeen(v, 0, t, 0, cfg)
    BY DEF Good, Account
  <2> QED
    BY <2>1 DEF Good, GoodLog, LogSeen
<1>2. L \in Nat \ {0} /\ thr \in Nat /\ thr > 0
  BY LengthFacts, LevelFacts
<1>3. /\ \A e \in kept : e.at \in Nat /\ e.at <= t /\ e.at > t - L
      /\ IsFiniteSet(kept) /\ Cardinality(kept) \in Nat /\ Cardinality(kept) <= thr
  BY <1>1, KeptPast, KeptFacts DEF LogKept, GoodLog
<1>4. \A x, s : Admits(x, s, cfg) <=> Cardinality(LogKept(x, s, cfg)) < thr
  <2> TAKE x, s
  <2>1. Admits(x, s, cfg) = LogAdmits(x, s, cfg)
    BY LogScripts
  <2> QED
    BY <2>1, Zenon DEF LogAdmits
<1>5. kept # {}
  BY <1>2, <1>4, FS_EmptySet
<1>6. oldest \in kept /\ \A f \in kept : oldest.at <= f.at
  <2> DEFINE S == {e.at : e \in kept}
  <2>1. S \in SUBSET Nat /\ S # {}
    BY <1>3, <1>5
  <2>2. PICK n \in S : \A m \in S : n <= m
    BY <2>1, Least
  <2>3. PICK e \in kept : e.at = n
    BY <2>2
  <2>4. \A f \in kept : e.at <= f.at
    BY <2>2, <2>3
  <2> HIDE DEF kept
  <2> QED
    BY <2>4
<1>7. w = Larger(0, oldest.at + L - t)
  <2>1. w = LogOldestLeavesIn(kept, t, cfg)
    BY DEF Wait, Deny, ScriptDeny, LogDeny
  <2> HIDE DEF kept
  <2> QED
    BY <1>5, <2>1 DEF LogOldestLeavesIn
<1>8. ASSUME NEW d \in Nat PROVE AdmitsLater(v, t, d, cfg) <=> Cardinality(Kept(t + d)) < thr
  <2>1. GoodLog(v, t + d, cfg)
    <3>1. v # Absent => \A e \in v.entries : e.at \in Nat /\ e.at <= t
      BY <1>1, KeptPast DEF GoodLog, StoredLog
    <3> QED
      BY <1>1, <3>1 DEF GoodLog
  <2>2. LogKept(Visible(v, t + d), t + d, cfg) = Kept(t + d)
    BY <2>1, LogExpires
  <2> QED
    BY <1>4, <2>2 DEF AdmitsLater
<1>9. Exists(v) /\ \A s : Kept(s) = {e \in v.entries : e.at > s - L}
  BY <1>5 DEF LogKept
<1> HIDE DEF L, kept, thr, w, Kept, oldest
<1>10. w \in Nat /\ w > 0 /\ t + w = oldest.at + L
  BY <1>2, <1>3, <1>6, <1>7 DEF Larger
<1>11. kept = {e \in v.entries : e.at > t - L} /\ kept = Kept(t)
  BY <1>9 DEF kept, Kept
<1>12. \A e \in v.entries : e.at \in Nat
  BY <1>1, <1>9, KeptPast DEF StoredLog, Exists, Absent
<1>13. ASSUME NEW d \in Nat, d < w PROVE ~AdmitsLater(v, t, d, cfg)
  <2>1. \A e \in kept : e.at > (t + d) - L
    BY <1>2, <1>3, <1>6, <1>10, <1>13
  <2>2. Kept(t + d) = kept
    <3>1. \A e \in v.entries : e.at > (t + d) - L => e.at > t - L
      BY <1>2, <1>12
    <3> QED
      BY <1>9, <1>11, <2>1, <3>1
  <2>3. ~(Cardinality(kept) < thr)
    BY <1>4 DEF kept
  <2> QED
    BY <1>8, <2>2, <2>3
<1>14. AdmitsLater(v, t, w, cfg)
  <2>1. Kept(t + w) \subseteq kept \ {oldest}
    <3>1. \A e \in v.entries : e.at > (t + w) - L => e.at > t - L /\ e # oldest
      BY <1>2, <1>3, <1>6, <1>10, <1>12
    <3> QED
      BY <1>9, <1>11, <3>1
  <2>2. IsFiniteSet(kept \ {oldest}) /\ Cardinality(kept \ {oldest}) = Cardinality(kept) - 1
    BY <1>3, <1>6, FS_RemoveElement
  <2>3. Cardinality(Kept(t + w)) <= Cardinality(kept) - 1 /\ Cardinality(Kept(t + w)) \in Nat
    BY <2>1, <2>2, FS_Subset, FS_CardinalityType
  <2>4. Cardinality(Kept(t + w)) < thr
    BY <1>2, <1>3, <2>3
  <2> QED
    BY <1>8, <1>10, <2>4
<1> QED
  BY <1>10, <1>13, <1>14 DEF Waits, w

\* A key that was never used refuses nobody.
LEMMA AbsentAdmits ==
    ASSUME algo \in Algorithms, algo # "sliding_window", NEW cfg \in Level, NEW t \in Nat
    PROVE  Admits(Absent, t, cfg)
<1>1. ~Exists(Absent) /\ cfg.threshold \in Nat /\ cfg.threshold > 0
  BY LevelFacts DEF Exists, Absent
<1>2. CASE algo \in Buckets
  <2>1. Holds(algo, Absent, t, cfg) >= Second
    BY <1>2, AbsentIsFull, LevelFacts
  <2> QED
    BY <1>2, <2>1, AdmitsIfPays
<1>3. CASE algo = "fixed_window"
  <2>1. FixedAdmits(Absent, t, cfg)
    BY <1>1 DEF FixedAdmits, FixedCount
  <2> QED
    BY <1>3, <2>1, FixedScripts
<1>4. CASE algo = "sliding_log"
  <2>1. LogKept(Absent, t, cfg) = {}
    BY <1>1 DEF LogKept
  <2>2. LogAdmits(Absent, t, cfg)
    BY <1>1, <2>1, FS_EmptySet DEF LogAdmits
  <2> QED
    BY <1>4, <2>2, LogScripts
<1> QED
  BY <1>2, <1>3, <1>4 DEF Algorithms, Buckets

\* A refused request that comes back after the reported reset_in_ms is admitted if
\* nobody came before it; and except for a token bucket, which reports when it is full,
\* no earlier return would have been.
THEOREM EngineRetryHonest ==
    ASSUME MaxBack = 0, NoncesSuffice PROVE Spec => []RetryAfterHonest
<1>1. Held => RetryAfterHonest
  <2> SUFFICES ASSUME Held, NEW k \in Keys, algo # "sliding_window", ~HasRoom(k)
               PROVE  LET wait == Wait(Found(k), now, Quota[k]) IN
                      /\ RoomAt(k, now + wait)
                      /\ algo # "token_bucket" =>
                             \A t \in now .. (now + wait - 1) : ~RoomAt(k, t)
    BY DEF RetryAfterHonest, Wait
  <2> DEFINE v == db[k]
             cfg == Quota[k]
             w == Wait(v, now, cfg)
  <2>1. /\ algo \in Algorithms /\ algo \in Algos /\ now \in Nat /\ cfg \in Level
        /\ Good(v, now, cfg)
    BY EngineAssumption DEF Held
  <2>2. Behaves(v, now, cfg, FreshNonce(k)) /\ Room(Found(k), now, cfg) = Rooms(k)
        /\ Behaves(Found(k), now, cfg, FreshNonce(k))
    BY KeyBehaves
  <2>3. ~Admits(v, now, cfg)
    BY <2>2 DEF Behaves, HasRoom, Rooms
  <2>4. Waits(v, now, cfg)
    BY <2>1, <2>3, BucketWaits, FixedWaits, LogWaits DEF Algorithms, Buckets
  <2>5. Found(k) = v
    <3>1. Found(k) = v \/ Found(k) = Absent
      BY DEF Found, Visible
    <3>2. Admits(Absent, now, cfg)
      BY <2>1, AbsentAdmits
    <3> QED
      BY <3>1, <3>2 DEF HasRoom
  <2>6. \A d \in Nat : RoomAt(k, now + d) <=> AdmitsLater(v, now, d, cfg)
    BY DEF RoomAt, AdmitsLater
  <2> HIDE DEF v, cfg, w
  <2>7. w \in Nat /\ RoomAt(k, now + w)
    BY <2>4, <2>6 DEF Waits, w
  <2>8. ASSUME algo # "token_bucket", NEW t \in now .. (now + w - 1) PROVE ~RoomAt(k, t)
    <3>1. t - now \in Nat /\ t - now < w /\ now + (t - now) = t
      BY <2>1, <2>7
    <3>2. ~AdmitsLater(v, now, t - now, cfg)
      BY <2>4, <2>8, <3>1 DEF Waits, w
    <3> QED
      BY <2>6, <3>1, <3>2
  <2> QED
    BY <2>5, <2>7, <2>8 DEF w, cfg, v
<1> QED
  BY <1>1, HeldInvariant, PTL

-----------------------------------------------------------------------------
(***************************************************************************)
(* Requests admitted in a row.                                             *)
(***************************************************************************)
\* What one more request leaves.
After(w, t, cfg) == Take(w, t, cfg, NewNonce(Members(w))).value

\* What a row of them leaves, one after the other.
Row(f, v, t, cfg) == f = [n \in Nat |-> IF n = 0 THEN v ELSE After(f[n - 1], t, cfg)]

\* The first n requests of a row.
Begins(g, n, v, t, cfg) ==
    \A i \in 0 .. n : g[i] = IF i = 0 THEN v ELSE After(g[i - 1], t, cfg)

\* Two beginnings of a row are the same as far as they go.
LEMMA BeginsAgree ==
    ASSUME NEW v, NEW t, NEW cfg, NEW m \in Nat, NEW n \in Nat, NEW g, NEW h,
           Begins(g, m, v, t, cfg), Begins(h, n, v, t, cfg), m <= n
    PROVE  \A i \in 0 .. m : g[i] = h[i]
<1> DEFINE S == {i \in Nat : i <= m => g[i] = h[i]}
<1>1. 0 \in S
  BY DEF Begins
<1>2. ASSUME NEW i \in Nat, i \in S PROVE i + 1 \in S
  <2> SUFFICES ASSUME i + 1 <= m PROVE g[i + 1] = h[i + 1]
    OBVIOUS
  <2>1. i + 1 \in 0 .. m /\ i + 1 \in 0 .. n /\ i + 1 # 0 /\ (i + 1) - 1 = i
    OBVIOUS
  <2>2. g[i + 1] = After(g[i], t, cfg) /\ h[i + 1] = After(h[i], t, cfg)
    BY <2>1 DEF Begins
  <2>3. g[i] = h[i]
    BY <1>2
  <2> QED
    BY <2>2, <2>3
<1>3. \A i \in Nat : i \in S
  <2> HIDE DEF S
  <2> QED
    BY <1>1, <1>2, Induction
<1> QED
  BY <1>3

\* There is such a row: what the recursive definition of it defines.
LEMMA RowExists == ASSUME NEW v, NEW t, NEW cfg PROVE \E f : Row(f, v, t, cfg)
<1> DEFINE S == {n \in Nat : \E g : Begins(g, n, v, t, cfg)}
           G(n) == CHOOSE g : Begins(g, n, v, t, cfg)
           f == [n \in Nat |-> G(n)[n]]
<1>1. 0 \in S
  <2>1. Begins([i \in 0 .. 0 |-> v], 0, v, t, cfg)
    BY DEF Begins
  <2> QED
    BY <2>1
<1>2. ASSUME NEW n \in Nat, n \in S PROVE n + 1 \in S
  <2>1. PICK g : Begins(g, n, v, t, cfg)
    BY <1>2
  <2> DEFINE h == [i \in 0 .. (n + 1) |-> IF i = n + 1 THEN After(g[n], t, cfg) ELSE g[i]]
  <2>2. ASSUME NEW i \in 0 .. (n + 1)
        PROVE  h[i] = IF i = 0 THEN v ELSE After(h[i - 1], t, cfg)
    <3>1. CASE i = n + 1
      <4>1. i # 0 /\ i - 1 = n /\ n \in 0 .. (n + 1) /\ n # n + 1
        BY <3>1
      <4>2. h[i] = After(g[n], t, cfg) /\ h[i - 1] = g[n]
        BY <3>1, <4>1
      <4> QED
        BY <4>1, <4>2
    <3>2. CASE i # n + 1
      <4>1. i \in 0 .. n /\ h[i] = g[i]
        BY <3>2
      <4>2. i # 0 => h[i - 1] = g[i - 1]
        BY <3>2
      <4> QED
        BY <2>1, <4>1, <4>2 DEF Begins
    <3> QED
      BY <3>1, <3>2
  <2>3. Begins(h, n + 1, v, t, cfg)
    <3> HIDE DEF h
    <3> QED
      BY <2>2 DEF Begins
  <2> QED
    BY <2>3
<1>3. \A n \in Nat : n \in S
  <2> HIDE DEF S
  <2> QED
    BY <1>1, <1>2, Induction
<1>4. \A n \in Nat : Begins(G(n), n, v, t, cfg)
  BY <1>3
<1> HIDE DEF S, G
<1>5. ASSUME NEW n \in Nat
      PROVE  f[n] = IF n = 0 THEN v ELSE After(f[n - 1], t, cfg)
  <2>1. Begins(G(n), n, v, t, cfg) /\ n \in 0 .. n
    BY <1>4
  <2>2. CASE n = 0
    BY <2>1, <2>2 DEF Begins
  <2>3. CASE n # 0
    <3>1. n - 1 \in Nat /\ n - 1 <= n /\ n - 1 \in 0 .. (n - 1)
      BY <2>3
    <3>2. Begins(G(n - 1), n - 1, v, t, cfg)
      BY <1>4, <3>1
    <3>3. G(n - 1)[n - 1] = G(n)[n - 1]
      BY <2>1, <3>1, <3>2, BeginsAgree
    <3>4. G(n)[n] = After(G(n)[n - 1], t, cfg)
      BY <2>1, <2>3 DEF Begins
    <3>5. f[n] = G(n)[n] /\ f[n - 1] = G(n - 1)[n - 1]
      BY <3>1
    <3> QED
      BY <2>3, <3>3, <3>4, <3>5
  <2> QED
    BY <2>2, <2>3
<1>6. Row(f, v, t, cfg)
  <2>1. DOMAIN f = Nat /\ f = [n \in Nat |-> f[n]]
    OBVIOUS
  <2> HIDE DEF f
  <2>2. [n \in Nat |-> f[n]] = [n \in Nat |-> IF n = 0 THEN v ELSE After(f[n - 1], t, cfg)]
    BY <1>5
  <2> QED
    BY <2>1, <2>2 DEF Row
<1> QED
  BY <1>6

\* The row a client that is told how many requests it has left would send.
LEMMA AfterTakesIs ==
    ASSUME NEW k
    PROVE  /\ AfterTakes(k)[0] = Found(k)
           /\ \A n \in Nat : AfterTakes(k)[n + 1] = After(AfterTakes(k)[n], now, Quota[k])
<1> DEFINE f == AfterTakes(k)
<1>1. f = CHOOSE g : Row(g, Found(k), now, Quota[k])
  BY DEF AfterTakes, Row, After
<1>2. Row(f, Found(k), now, Quota[k])
  <2> HIDE DEF f
  <2> QED
    BY <1>1, RowExists
<1> HIDE DEF f
<1>3. f = [n \in Nat |-> IF n = 0 THEN Found(k) ELSE After(f[n - 1], now, Quota[k])]
  BY <1>2 DEF Row
<1>4. \A n \in Nat : f[n] = IF n = 0 THEN Found(k) ELSE After(f[n - 1], now, Quota[k])
  BY <1>3
<1>5. \A n \in Nat : n + 1 \in Nat /\ n + 1 # 0 /\ (n + 1) - 1 = n
  OBVIOUS
<1> QED
  BY <1>4, <1>5 DEF f

-----------------------------------------------------------------------------
(***************************************************************************)
(* The remaining allowance.                                                *)
(***************************************************************************)
\* What a peek reports.
Reported(v, t, cfg, id) == Eval(v, t, cfg, TRUE, id).report.remaining

\* What the dashboard shows.
Shown(v, cfg) == InterpretRemaining(algo, v, cfg)

\* A peek reports the places, a sliding window perhaps one too few, the dashboard no more.
Counts(v, t, cfg, id) ==
    LET r == Reported(v, t, cfg, id)
        n == Room(v, t, cfg)
    IN  /\ r \in Nat /\ Shown(v, cfg) <= r
        /\ r = n \/ (algo = "sliding_window" /\ r + 1 = n)

\* A token bucket.
LEMMA TokenCounts ==
    ASSUME algo = "token_bucket", NEW cfg \in Level, NEW t \in Nat, NEW v, Good(v, t, cfg),
           NEW id
    PROVE  Counts(v, t, cfg, id)
<1> DEFINE c == TokenNow(v, t, cfg)
<1>1. v = Absent \/ StoredTokens(v, cfg)
  BY DEF Good, Buckets, Stored
<1>2. c \in 0 .. TokenFull(cfg) /\ TokenFull(cfg) \in Nat /\ Second \in Nat \ {0}
  BY <1>1, TokenNowType, LevelFacts, EngineAssumption
<1>3. c \in Nat /\ c \div Second \in Nat
  BY <1>2, Quotients
<1>4. Room(v, t, cfg) = c \div Second
  BY DEF Room, Buckets, Holds
<1>5. Reported(v, t, cfg, id) = c \div Second
  <2>1. Eval(v, t, cfg, TRUE, id) = TokenEval(v, t, cfg, TRUE)
    BY DEF Eval, ScriptEval
  <2>2. TokenEval(v, t, cfg, TRUE).report.remaining = c \div Second
    BY DEF TokenEval, TokenReport
  <2> QED
    BY <2>1, <2>2 DEF Reported
<1>6. Shown(v, cfg) <= c \div Second
  <2>1. Shown(v, cfg) = IF Exists(v) THEN v.tokens \div Second ELSE 0
    BY DEF Shown, InterpretRemaining
  <2>2. CASE ~Exists(v)
    BY <1>3, <2>1, <2>2
  <2>3. CASE Exists(v)
    <3>1. v.tokens \in Nat /\ v.tokens <= TokenFull(cfg) /\ v.last \in Nat
      BY <1>1, <2>3 DEF StoredTokens, TokenValues, Exists, Absent
    <3>2. Larger(0, t - v.last) \in Nat /\ cfg.threshold \in Nat
      BY <3>1, LevelFacts DEF Larger
    <3>3. Larger(0, t - v.last) * cfg.threshold \in Nat
      BY <3>2, NatProducts
    <3>4. v.tokens <= c
      BY <1>2, <2>3, <3>1, <3>3 DEF TokenNow, Smaller
    <3> HIDE DEF c
    <3>5. v.tokens \div Second <= c \div Second
      BY <1>2, <1>3, <3>1, <3>4, Quotients
    <3> QED
      BY <2>1, <2>3, <3>5
  <2> QED
    BY <2>2, <2>3
<1> HIDE DEF c
<1> QED
  BY <1>3, <1>4, <1>5, <1>6 DEF Counts

\* The free slots of a queue: rounding the level up rounds what is free down.
LEMMA FreeSlots ==
    ASSUME NEW cfg \in Level, NEW lv \in 0 .. TokenFull(cfg)
    PROVE  /\ cfg.burst - CeilDiv(lv, Second) = (TokenFull(cfg) - lv) \div Second
           /\ (TokenFull(cfg) - lv) \div Second \in Nat
<1> DEFINE q == (-lv) \div Second
           b == cfg.burst
           F == TokenFull(cfg)
<1>1. b \in Nat /\ Second \in Nat \ {0} /\ F = b * Second /\ F \in Nat
  BY LevelFacts, EngineAssumption
<1>2. q \in Int /\ q * Second <= -lv /\ -lv < q * Second + Second
  BY <1>1
<1>3. CeilDiv(lv, Second) = -q
  BY DEF CeilDiv
<1> HIDE DEF q, b, F
<1>4. (b + q) * Second = b * Second + q * Second /\ q * Second \in Int
  BY <1>1, <1>2
<1>5. (b + q) * Second <= F - lv /\ F - lv < (b + q) * Second + Second
  BY <1>1, <1>2, <1>4
<1>6. F - lv \in Nat /\ b + q \in Int
  BY <1>1, <1>2 DEF F
<1>7. (F - lv) \div Second = b + q
  BY <1>1, <1>5, <1>6, QuotientIs
<1>8. (F - lv) \div Second \in Nat
  BY <1>1, <1>6, Quotients
<1>9. b - CeilDiv(lv, Second) = b + q
  BY <1>1, <1>2, <1>3
<1> QED
  BY <1>7, <1>8, <1>9 DEF b, F

\* A leaky bucket.
LEMMA LeakyCounts ==
    ASSUME algo = "leaky_bucket", NEW cfg \in Level, NEW t \in Nat, NEW v, Good(v, t, cfg),
           NEW id
    PROVE  Counts(v, t, cfg, id)
<1> DEFINE F == TokenFull(cfg)
           lv == LeakyNow(v, t, cfg)
           free == cfg.burst - CeilDiv(lv, Second)
<1>1. v = Absent \/ StoredWater(v, cfg)
  BY DEF Good, Buckets, Stored
<1>2. lv \in 0 .. F /\ F \in Nat /\ Second \in Nat \ {0} /\ F = cfg.burst * Second
  BY <1>1, LeakyNowType, LevelFacts, EngineAssumption
<1>3. free = (F - lv) \div Second /\ free \in Nat
  BY <1>2, FreeSlots
<1>4. Room(v, t, cfg) = (F - lv) \div Second
  BY DEF Room, Buckets, Holds
<1>5. Reported(v, t, cfg, id) = free
  <2>1. Eval(v, t, cfg, TRUE, id) = LeakyEval(v, t, cfg, TRUE)
    BY DEF Eval, ScriptEval
  <2>2. LeakyEval(v, t, cfg, TRUE).report.remaining = Larger(0, free)
    BY DEF LeakyEval, LeakyFree
  <2>3. Larger(0, free) = free
    BY <1>3 DEF Larger
  <2> QED
    BY <2>1, <2>2, <2>3 DEF Reported
<1>6. Shown(v, cfg) <= free
  <2>1. Shown(v, cfg) = cfg.burst - (IF Exists(v) THEN CeilDiv(v.level, Second) ELSE 0)
    BY DEF Shown, InterpretRemaining
  <2>2. CASE ~Exists(v)
    <3>1. lv = 0
      BY <2>2 DEF LeakyNow
    <3>2. CeilDiv(0, Second) = 0
      <4>1. 0 \div Second = 0
        BY <1>2
      <4> QED
        BY <4>1 DEF CeilDiv
    <3>3. cfg.burst \in Nat
      BY LevelFacts
    <3> QED
      BY <2>1, <2>2, <3>1, <3>2, <3>3
  <2>3. CASE Exists(v)
    <3>1. v.level \in 0 .. F /\ v.last \in Nat
      BY <1>1, <1>2, <2>3 DEF StoredWater, LeakyValues, Exists, Absent
    <3>2. Larger(0, t - v.last) \in Nat /\ cfg.threshold \in Nat
      BY <3>1, LevelFacts DEF Larger
    <3>3. Larger(0, t - v.last) * cfg.threshold \in Nat
      BY <3>2, NatProducts
    <3>4. lv <= v.level
      BY <1>2, <2>3, <3>1, <3>3 DEF LeakyNow
    <3>5. cfg.burst - CeilDiv(v.level, Second) = (F - v.level) \div Second
      BY <3>1, FreeSlots
    <3> HIDE DEF F, lv, free
    <3>6. F - v.level \in Nat /\ F - lv \in Nat /\ F - v.level <= F - lv
      BY <1>2, <3>1, <3>4
    <3>7. (F - v.level) \div Second <= (F - lv) \div Second
      BY <1>2, <3>6, Quotients
    <3> QED
      BY <1>3, <2>1, <2>3, <3>5, <3>7
  <2> QED
    BY <2>2, <2>3
<1> HIDE DEF F, lv, free
<1> QED
  BY <1>3, <1>4, <1>5, <1>6 DEF Counts

\* A fixed window.
LEMMA FixedCounts ==
    ASSUME algo = "fixed_window", NEW cfg \in Level, NEW t \in Nat, NEW v, Good(v, t, cfg),
           NEW id
    PROVE  Counts(v, t, cfg, id)
<1> DEFINE c == FixedCount(v, t, cfg)
           thr == cfg.threshold
<1>1. IsCount(v, cfg)
  BY DEF Good, Account, FixedSeen, Buckets
<1>2. c \in 0 .. thr /\ thr \in Nat
  BY <1>1, FixedCountType, LevelFacts
<1>3. Room(v, t, cfg) = thr - c
  BY DEF Room, Buckets
<1>4. Reported(v, t, cfg, id) = thr - c
  <2>1. Eval(v, t, cfg, TRUE, id) = FixedEval(v, t, cfg, TRUE)
    BY DEF Eval, ScriptEval
  <2>2. FixedEval(v, t, cfg, TRUE).report.remaining = thr - c
    BY DEF FixedEval
  <2> QED
    BY <2>1, <2>2 DEF Reported
<1>5. Shown(v, cfg) <= thr - c
  <2>1. Shown(v, cfg) = thr - (IF Exists(v) THEN v.c ELSE 0)
    BY DEF Shown, InterpretRemaining
  <2>2. Exists(v) => v.c \in Nat
    BY <1>1 DEF IsCount, StoredCount, FixedValues, Exists, Absent
  <2>3. c = 0 \/ (Exists(v) /\ c = v.c)
    BY DEF FixedCount
  <2>4. ~Exists(v) => c = 0
    BY DEF FixedCount
  <2> HIDE DEF c, thr
  <2> QED
    BY <1>2, <2>1, <2>2, <2>3, <2>4
<1> HIDE DEF c, thr
<1>6. thr - c \in Nat
  BY <1>2
<1> QED
  BY <1>3, <1>4, <1>5, <1>6 DEF Counts

\* A sliding log.
LEMMA LogCounts ==
    ASSUME algo = "sliding_log", NEW cfg \in Level, NEW t \in Nat, NEW v, Good(v, t, cfg),
           NEW id
    PROVE  Counts(v, t, cfg, id)
<1> DEFINE kept == LogKept(v, t, cfg)
           c == Cardinality(kept)
           thr == cfg.threshold
<1>1. IsLog(v, cfg)
  BY DEF Good
<1>2. c \in Nat /\ c <= thr /\ thr \in Nat /\ IsFiniteSet(kept)
  BY <1>1, KeptFacts, LevelFacts
<1>3. Room(v, t, cfg) = thr - c
  BY DEF Room, Buckets
<1>4. Reported(v, t, cfg, id) = thr - c
  <2>1. Eval(v, t, cfg, TRUE, id) = LogEval(v, t, cfg, TRUE, id)
    BY DEF Eval, ScriptEval
  <2>2. LogEval(v, t, cfg, TRUE, id).report.remaining = Larger(0, thr - c)
    BY DEF LogEval
  <2>3. Larger(0, thr - c) = thr - c
    <3> HIDE DEF c, thr
    <3> QED
      BY <1>2 DEF Larger
  <2> QED
    BY <2>1, <2>2, <2>3 DEF Reported
<1>5. Shown(v, cfg) <= thr - c
  <2>1. Shown(v, cfg) = thr - (IF Exists(v) THEN Cardinality(v.entries) ELSE 0)
    BY DEF Shown, InterpretRemaining
  <2>2. CASE ~Exists(v)
    <3>1. c = 0
      BY <2>2, FS_EmptySet DEF LogKept
    <3> QED
      BY <1>2, <2>1, <2>2, <3>1
  <2>3. CASE Exists(v)
    <3>1. StoredLog(v, cfg) /\ kept \in SUBSET v.entries
      BY <1>1, <2>3, KeptFacts
    <3>2. IsFiniteSet(v.entries) /\ c <= Cardinality(v.entries) /\ Cardinality(v.entries) \in Nat
      BY <3>1, FS_Subset, FS_CardinalityType DEF StoredLog
    <3> HIDE DEF c, thr
    <3> QED
      BY <1>2, <2>1, <2>3, <3>2
  <2> QED
    BY <2>2, <2>3
<1> HIDE DEF c, thr
<1>6. thr - c \in Nat
  BY <1>2
<1> QED
  BY <1>3, <1>4, <1>5, <1>6 DEF Counts

\* A sliding window, which rounds what it counts up.
LEMMA SlidingCountsUp ==
    ASSUME algo = "sliding_window", NEW cfg \in Level, NEW t \in Nat, NEW v, Good(v, t, cfg),
           NEW id
    PROVE  Counts(v, t, cfg, id)
<1> DEFINE x == Weight(v, t, cfg)
           W == SlidingLength(cfg)
           thr == cfg.threshold
           q == x \div W
           up == CeilDiv(x, W)
           c == SlidingCounts(v, t, cfg)
           r == t - SlidingStart(t, cfg)
           n == IF Exists(v) THEN v.ca + v.cb ELSE 0
<1>1. SlidingAccount(v, 0, t, 0, cfg)
  BY DEF Good, Account, Buckets
<1>2. /\ W \in Nat \ {0} /\ thr \in Nat /\ x \in Nat /\ x < (thr + 1) * W
      /\ r \in Nat /\ r < W /\ c.ca \in Nat /\ c.cb \in Nat
      /\ x = c.cb * (W - r) + c.ca * W
  <2>1. x \in Nat /\ x < (thr + 1) * W
    BY <1>1, SlidingPaid
  <2>2. /\ W \in Nat \ {0} /\ thr \in Nat /\ r \in Nat /\ r < W
        /\ c.ca \in 0 .. thr /\ c.cb \in 0 .. thr
    BY <1>1, SlidingFacts
  <2>3. x = c.cb * (W - r) + c.ca * W
    BY <1>1, SlidingFacts DEF Weight
  <2> HIDE DEF x, W, thr, c, r
  <2> QED
    BY <2>1, <2>2, <2>3
<1>3. Room(v, t, cfg) = thr - q
  BY DEF Room, Buckets, Weight
<1>4. Reported(v, t, cfg, id) = Larger(0, thr - up)
  <2>1. Eval(v, t, cfg, TRUE, id) = SlidingEval(v, t, cfg, TRUE)
    BY DEF Eval, ScriptEval
  <2>2. SlidingEval(v, t, cfg, TRUE).report = SlidingReport(c, t, cfg)
    BY DEF SlidingEval
  <2>3. SlidingReport(c, t, cfg).remaining = Larger(0, thr - up)
    BY DEF SlidingReport, Weight
  <2> QED
    BY <2>1, <2>2, <2>3 DEF Reported
<1>5. Shown(v, cfg) = thr - n
  BY DEF Shown, InterpretRemaining
<1>6. n \in Nat /\ c.ca + c.cb <= n
  <2>1. CASE ~Exists(v)
    BY <2>1 DEF SlidingCounts
  <2>2. CASE Exists(v)
    <3>1. v.ca \in Nat /\ v.cb \in Nat
      BY <1>1, <2>2 DEF SlidingAccount, SlidingValues, Exists, Absent
    <3>2. c = [ca |-> 0, cb |-> v.ca] \/ c = [ca |-> v.ca, cb |-> v.cb] \/ c = [ca |-> 0, cb |-> 0]
      BY <2>2 DEF SlidingCounts
    <3>3. \/ c.ca = 0 /\ c.cb = v.ca
          \/ c.ca = v.ca /\ c.cb = v.cb
          \/ c.ca = 0 /\ c.cb = 0
      BY <3>2
    <3> HIDE DEF c
    <3> QED
      BY <2>2, <3>1, <3>3
  <2> QED
    BY <2>1, <2>2
<1> HIDE DEF x, W, thr, c, r, n
<1>7. up = q \/ up = q + 1
  BY <1>2, CeilOrFloor
<1>8. q \in Nat /\ thr - q \in Nat
  BY <1>2, WeighedPlaces
<1>9. x <= n * W
  <2>1. c.cb * (W - r) <= c.cb * W /\ c.cb * W \in Nat /\ c.ca * W \in Nat
        /\ c.cb * (W - r) \in Nat
    <3>1. W - r \in Nat /\ W \in Nat /\ W - r <= W
      BY <1>2
    <3> QED
      BY <1>2, <3>1, Products
  <2>2. (c.ca + c.cb) * W = c.ca * W + c.cb * W /\ (c.ca + c.cb) * W <= n * W
    <3>1. c.ca + c.cb \in Nat /\ W \in Nat
      BY <1>2
    <3>2. W * (c.ca + c.cb) <= W * n
      BY <1>6, <3>1, Products
    <3> QED
      BY <1>2, <1>6, <3>1, <3>2
  <2>3. n * W \in Nat
    BY <1>2, <1>6, Products
  <2> QED
    BY <1>2, <2>1, <2>2, <2>3
<1>10. up <= n
  <2>1. up \in Int
    BY <1>2, CeilDivFacts
  <2>2. n < up => n * W < x
    BY <1>2, <1>6, CeilDivLeast
  <2>3. n * W \in Nat
    BY <1>2, <1>6, Products
  <2> QED
    BY <1>2, <1>6, <1>9, <2>1, <2>2, <2>3
<1> HIDE DEF q, up
<1>11. /\ Larger(0, thr - up) \in Nat /\ thr - n <= Larger(0, thr - up)
       /\ Larger(0, thr - up) = thr - q \/ Larger(0, thr - up) + 1 = thr - q
  <2>1. /\ thr \in Nat /\ q \in Nat /\ q <= thr /\ n \in Nat /\ up \in Nat
        /\ up = q \/ up = q + 1
        /\ up <= n
    BY <1>2, <1>6, <1>7, <1>8, <1>10
  <2>2. CASE thr >= up
    BY <2>1, <2>2 DEF Larger
  <2>3. CASE thr < up
    BY <2>1, <2>3 DEF Larger
  <2> QED
    BY <2>1, <2>2, <2>3
<1> QED
  BY <1>3, <1>4, <1>5, <1>11 DEF Counts

\* Whatever the algorithm.
LEMMA AnswersCount ==
    ASSUME algo \in Algorithms, NEW cfg \in Level, NEW t \in Nat, NEW v, Good(v, t, cfg),
           NEW id
    PROVE  Counts(v, t, cfg, id)
  BY TokenCounts, LeakyCounts, FixedCounts, SlidingCountsUp, LogCounts, Zenon DEF Algorithms

\* As many requests as there are places are admitted in a row.
LEMMA RowTakes ==
    ASSUME NoncesSuffice, Held, NEW k \in Keys
    PROVE  \A n \in Nat : n <= Rooms(k) =>
               Leaves(AfterTakes(k)[n], now, Quota[k], Rooms(k) - n)
<1> DEFINE S == {n \in Nat : n <= Rooms(k) =>
                     Leaves(AfterTakes(k)[n], now, Quota[k], Rooms(k) - n)}
           f == AfterTakes(k)
<1>1. /\ algo \in Algorithms /\ algo \in Algos /\ now \in Nat /\ Quota[k] \in Level
      /\ Rooms(k) \in Nat
  BY RoomsCount, EngineAssumption DEF Held
<1>2. 0 \in S
  <2>1. Good(Found(k), now, Quota[k]) /\ Room(Found(k), now, Quota[k]) = Rooms(k)
    BY KeyBehaves
  <2>2. f[0] = Found(k)
    BY AfterTakesIs
  <2> QED
    BY <1>1, <2>1, <2>2 DEF Leaves
<1>3. ASSUME NEW n \in Nat, n \in S PROVE n + 1 \in S
  <2> SUFFICES ASSUME n + 1 <= Rooms(k)
               PROVE  Leaves(f[n + 1], now, Quota[k], Rooms(k) - (n + 1))
    OBVIOUS
  <2> DEFINE w == f[n]
             id == NewNonce(Members(w))
  <2>1. Leaves(w, now, Quota[k], Rooms(k) - n)
    BY <1>1, <1>3
  <2>2. f[n + 1] = After(w, now, Quota[k])
    BY AfterTakesIs
  <2> HIDE DEF f, w
  <2>3. Fresh(id, w)
    <3> SUFFICES ASSUME algo = "sliding_log" PROVE id \in Nonces /\ id \notin Members(w)
      BY DEF Fresh
    <3>1. EnoughNonces /\ IsLog(w, Quota[k])
      BY <1>1, <2>1 DEF NoncesSuffice, Leaves, Good
    <3> QED
      BY <3>1, NonceIsNew
  <2>4. Behaves(w, now, Quota[k], id)
    BY <1>1, <2>1, <2>3, ScriptsBehave DEF Leaves
  <2>5. Room(w, now, Quota[k]) = Rooms(k) - n /\ Rooms(k) - n > 0
    BY <1>1, <2>1 DEF Leaves
  <2>6. Leaves(Take(w, now, Quota[k], id).value, now, Quota[k], (Rooms(k) - n) - 1)
    <3>1. Admits(w, now, Quota[k])
      BY <2>4, <2>5 DEF Behaves
    <3> QED
      BY <2>4, <2>5, <3>1 DEF Behaves
  <2>7. (Rooms(k) - n) - 1 = Rooms(k) - (n + 1)
    BY <1>1
  <2> QED
    BY <2>2, <2>6, <2>7 DEF After
<1>4. \A n \in Nat : n \in S
  <2> HIDE DEF S
  <2> QED
    BY <1>2, <1>3, Induction
<1> QED
  BY <1>4

\* A sliding window that has no place left has none after one request more.
LEMMA NonePastLast ==
    ASSUME algo = "sliding_window", NEW cfg \in Level, NEW t \in Nat, NEW v, Good(v, t, cfg),
           ~Admits(v, t, cfg)
    PROVE  ~Admits(After(v, t, cfg), t, cfg)
<1> DEFINE W == SlidingLength(cfg)
           x == Weight(v, t, cfg)
           thr == cfg.threshold
<1>1. SlidingAccount(v, 0, t, 0, cfg)
  BY DEF Good, Account, Buckets
<1>2. /\ x \in Nat /\ W \in Nat /\ thr \in Nat
      /\ Weight(Charged(v, t, cfg), t, cfg) = x + W
  BY <1>1, SlidingPaid, SlidingFacts DEF Charged
<1>3. \A w : Admits(w, t, cfg) <=> Weight(w, t, cfg) < thr * W
  BY SlidingValue, Zenon
<1>4. After(v, t, cfg) = Charged(v, t, cfg)
  BY SlidingValue, Zenon DEF After
<1> HIDE DEF W, x, thr
<1>5. thr * W \in Nat
  BY <1>2, Products
<1>6. ~(x < thr * W)
  BY <1>3 DEF x
<1>7. ~(x + W < thr * W)
  BY <1>2, <1>5, <1>6
<1> QED
  BY <1>2, <1>3, <1>4, <1>7

\* The remaining allowance a peek reports is the number of requests that would now be
\* admitted in a row; the sliding window, which rounds the effective count up, may
\* report one too few.  What the dashboard shows of the raw value is never more.
THEOREM EngineRemainingHonest ==
    ASSUME MaxBack = 0, NoncesSuffice PROVE Spec => []RemainingHonest
<1>1. Held => RemainingHonest
  <2> SUFFICES ASSUME Held, NEW k \in Keys
               PROVE  /\ Remaining(k) >= 0
                      /\ InterpretRemaining(algo, Found(k), Quota[k]) <= Remaining(k)
                      /\ \A n \in 0 .. Remaining(k) - 1 :
                             Admits(AfterTakes(k)[n], now, Quota[k])
                      /\ LET last == IF algo = "sliding_window" THEN Remaining(k) + 1
                                     ELSE Remaining(k)
                         IN  Admits(Found(k), now, Quota[k]) =>
                                 ~Admits(AfterTakes(k)[last], now, Quota[k])
    BY DEF RemainingHonest
  <2> DEFINE r == Remaining(k)
             m == Rooms(k)
             f == AfterTakes(k)
             cfg == Quota[k]
  <2>1. /\ algo \in Algorithms /\ algo \in Algos /\ now \in Nat /\ cfg \in Level /\ m \in Nat
    BY RoomsCount, EngineAssumption DEF Held
  <2>2. /\ Good(Found(k), now, cfg) /\ Room(Found(k), now, cfg) = m
        /\ Behaves(Found(k), now, cfg, FreshNonce(k))
    BY KeyBehaves
  <2>3. Counts(Found(k), now, cfg, FreshNonce(k))
    BY <2>1, <2>2, AnswersCount
  <2>4. /\ r \in Nat /\ InterpretRemaining(algo, Found(k), cfg) <= r
        /\ r = m \/ (algo = "sliding_window" /\ r + 1 = m)
    BY <2>2, <2>3 DEF Counts, Remaining, Reported, Shown
  <2>5. ASSUME NEW n \in Nat, n <= m
        PROVE  Good(f[n], now, cfg) /\ (Admits(f[n], now, cfg) <=> m - n > 0)
    <3>1. Good(f[n], now, cfg) /\ Room(f[n], now, cfg) = m - n
      BY <2>5, RowTakes DEF Leaves
    <3>2. Fresh(NewNonce(Members(f[n])), f[n])
      <4> SUFFICES ASSUME algo = "sliding_log"
                   PROVE  /\ NewNonce(Members(f[n])) \in Nonces
                          /\ NewNonce(Members(f[n])) \notin Members(f[n])
        BY DEF Fresh
      <4>1. EnoughNonces /\ IsLog(f[n], cfg)
        BY <2>1, <3>1 DEF NoncesSuffice, Good
      <4> QED
        BY <4>1, NonceIsNew
    <3>3. Behaves(f[n], now, cfg, NewNonce(Members(f[n])))
      BY <2>1, <3>1, <3>2, ScriptsBehave
    <3> QED
      BY <3>1, <3>3 DEF Behaves
  <2> HIDE DEF r, m, f, cfg
  <2>6. ASSUME NEW n \in 0 .. r - 1 PROVE Admits(f[n], now, cfg)
    <3>1. n \in Nat /\ n <= m /\ m - n > 0
      BY <2>1, <2>4
    <3> QED
      BY <2>5, <3>1
  <2>7. ~Admits(f[m], now, cfg) /\ Good(f[m], now, cfg)
    BY <2>1, <2>5
  <2>8. algo = "sliding_window" => ~Admits(f[m + 1], now, cfg)
    <3>1. f[m + 1] = After(f[m], now, cfg)
      BY <2>1, AfterTakesIs DEF f, cfg
    <3> QED
      BY <2>1, <2>7, <3>1, NonePastLast
  <2>9. algo # "sliding_window" => ~Admits(f[r], now, cfg)
    BY <2>4, <2>7
  <2>10. algo = "sliding_window" => ~Admits(f[r + 1], now, cfg)
    BY <2>4, <2>7, <2>8
  <2> QED
    BY <2>4, <2>6, <2>9, <2>10 DEF r, f, cfg
<1> QED
  BY <1>1, HeldInvariant, PTL
=============================================================================
