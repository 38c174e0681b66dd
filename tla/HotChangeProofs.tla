-------------------------- MODULE HotChangeProofs --------------------------
(***************************************************************************)
(* A rule that changes while its key lives, whatever its versions, the     *)
(* holders, and the length of a run.                                       *)
(*                                                                         *)
(* A key may hold what any version of the rule has left in it, so that all *)
(* that is known of a value is that no field lies in the future and that   *)
(* it lives no longer than some version lets it (Past).  What the versions *)
(* in force have done since the stop-watch was started is said on top of   *)
(* that, for each property by an invariant of its own: PromisesHeld,       *)
(* Earned and Covered.                                                     *)
(***************************************************************************)
EXTENDS HotChange, Arithmetic, FiniteSetTheorems

\* A rule's settings, as Rule.Validate accepts them.
Valid(v) ==
    /\ v.algo \in Algorithms
    /\ v.threshold \in Nat \ {0} /\ v.burst \in Nat \ {0} /\ v.window \in Nat \ {0}

\* A hash that the scripts may have left by t.
PastHash(v, t) ==
    /\ v.type = "hash" /\ v.expireAt \in Nat
    /\ "tokens" \in DOMAIN v => v.tokens \in Nat
    /\ "level" \in DOMAIN v =>
           v.level \in Nat /\ \E w \in history : v.level <= w.burst * Second
    /\ "tokens" \in DOMAIN v \/ "level" \in DOMAIN v =>
           "last" \in DOMAIN v /\ v.last \in Nat /\ v.last <= t
    /\ "w" \in DOMAIN v => "c" \in DOMAIN v /\ v.w \in Nat /\ v.w <= t /\ v.c \in Nat
    /\ "a" \in DOMAIN v => /\ "ca" \in DOMAIN v /\ "cb" \in DOMAIN v
                           /\ v.a \in Nat /\ v.a <= t /\ v.ca \in Nat /\ v.cb \in Nat

\* A sorted set, likewise.
PastLog(v, t) ==
    /\ v = [type |-> "zset", entries |-> v.entries, expireAt |-> v.expireAt]
    /\ v.expireAt \in Nat /\ IsFiniteSet(v.entries)
    /\ \A e \in v.entries : e.at \in Nat /\ e.at <= t
    /\ \E w \in history : w.algo = "sliding_log" /\ Cardinality(v.entries) <= w.threshold

\* w writes values of v's type, and would have v live as long if it wrote at t.
WrittenBy(v, w, t) ==
    ~WrongType(v, w.algo) /\ v.expireAt <= t + LongestLife(w.algo, w)

\* What a key may hold at t.
Past(v, t) ==
    v # Absent =>
        /\ PastHash(v, t) \/ PastLog(v, t)
        /\ \E w \in history : WrittenBy(v, w, t)

\* Who decides by what.
InForce ==
    /\ history \in Histories
    /\ span # {} /\ span \subseteq history
    /\ copy \in [Holders -> span]
    /\ now \in Nat /\ age \in Nat /\ age <= now
    /\ taken \in Nat /\ due \in Nat

\* What every run keeps, whatever the versions.
Known == InForce /\ Past(val, now)

-----------------------------------------------------------------------------
(***************************************************************************)
(* The numbers of a version.                                               *)
(***************************************************************************)
\* Every version is valid.
LEMMA VersionsValid ==
    ASSUME history \in Histories, NEW v \in history
    PROVE  Valid(v)
  BY HotChangeAssumption DEF Versions, Valid

\* Capacities and lengths are positive.
LEMMA Sizes ==
    ASSUME NEW v, Valid(v)
    PROVE  /\ v.threshold \in Nat \ {0} /\ v.burst \in Nat \ {0} /\ Second \in Nat \ {0}
           /\ TokenFull(v) \in Nat /\ TokenFull(v) >= Second
           /\ TokenFull(v) = v.burst * Second /\ (v.burst - 1) * Second = TokenFull(v) - Second
           /\ FixedLength(v) \in Nat \ {0} /\ SlidingLength(v) \in Nat \ {0}
           /\ LogLength(v) \in Nat \ {0}
<1>1. /\ v.threshold \in Nat \ {0} /\ v.burst \in Nat \ {0} /\ v.window \in Nat \ {0}
      /\ Second \in Nat \ {0}
  BY HotChangeAssumption DEF Valid
<1>2. \A m, n \in Nat \ {0} : m * n \in Nat \ {0} /\ m * n >= n /\ (m - 1) * n = m * n - n
  <2> TAKE m, n \in Nat \ {0}
  <2>1. m * n \in Nat \ {0} /\ (m - 1) * n = m * n - n
    OBVIOUS
  <2>2. m * n >= n
    OBVIOUS
  <2> QED
    BY <2>1, <2>2
<1> QED
  BY <1>1, <1>2 DEF TokenFull, FixedLength, SlidingLength, LogLength

\* Every key lives for a while.
LEMMA Lives ==
    ASSUME NEW v, Valid(v)
    PROVE  LongestLife(v.algo, v) \in Nat
<1>1. CeilDiv(TokenFull(v), v.threshold) \in Nat
  BY Sizes, CeilDivFacts
<1> QED
  BY <1>1, Sizes DEF LongestLife, Valid, Algorithms, Buckets

-----------------------------------------------------------------------------
(***************************************************************************)
(* What a script finds, and what it leaves.                                *)
(***************************************************************************)
\* A script finds what the key holds, or nothing.
LEMMA StoredIs ==
    ASSUME Known
    PROVE  /\ Past(Stored, now)
           /\ Stored = Absent \/ (Stored = val /\ now <= val.expireAt)
<1>1. now \in Nat /\ Past(val, now)
  BY DEF Known, InForce
<1>2. CASE Expired(val, now)
  BY <1>2 DEF Stored, Visible, Past
<1>3. CASE ~Expired(val, now)
  <2>1. CASE val = Absent
    BY <1>1, <1>3, <2>1 DEF Stored, Visible
  <2>2. CASE val # Absent
    <3>1. Exists(val) /\ val.expireAt \in Nat
      BY <1>1, <2>2 DEF Past, PastHash, PastLog, Exists
    <3> QED
      BY <1>1, <1>3, <3>1 DEF Stored, Visible, Expired
  <2> QED
    BY <2>1, <2>2
<1> QED
  BY <1>2, <1>3

\* What a script finds that keeps its state in a hash.
FoundHash(f, field, t) ==
    f = Absent \/ (f = val /\ PastHash(val, t) /\ field \in DOMAIN val /\ t <= val.expireAt)

\* A key of the right type holds a state of the script, or no state.
LEMMA FoundIs ==
    ASSUME Known, NEW alg \in Algorithms, ~WrongType(Stored, alg)
    PROVE  LET f == View(Stored, alg) IN
           /\ alg # "sliding_log" => FoundHash(f, Field(alg), now)
           /\ alg = "sliding_log" =>
                  f = Stored /\ (f = Absent \/ (f = val /\ PastLog(val, now) /\ now <= val.expireAt))
<1> DEFINE f == View(Stored, alg)
<1>1. CASE Stored = Absent
  <2>1. Stored.type # "hash"
    BY <1>1 DEF Absent
  <2> QED
    BY <1>1, <2>1 DEF View, FoundHash
<1>2. CASE Stored = val /\ val # Absent /\ now <= val.expireAt
  <2>1. PastHash(val, now) \/ PastLog(val, now)
    BY <1>2 DEF Known, Past
  <2>2. PastHash(val, now) => val.type = "hash"
    BY DEF PastHash
  <2>3. PastLog(val, now) => val.type = "zset"
    BY DEF PastLog
  <2>4. alg # "sliding_log" => PastHash(val, now)
    BY <1>2, <2>1, <2>3 DEF WrongType
  <2>5. alg = "sliding_log" => PastLog(val, now)
    BY <1>2, <2>1, <2>2 DEF WrongType
  <2>6. CASE alg = "sliding_log"
    BY <1>2, <2>3, <2>5, <2>6 DEF View
  <2>7. CASE alg # "sliding_log"
    BY <1>2, <2>2, <2>4, <2>7 DEF View, FoundHash
  <2> QED
    BY <2>6, <2>7
<1> QED
  BY <1>1, <1>2, StoredIs

\* A request that is denied, or only looked at, leaves what it found; a log is trimmed.
LEMMA Looks ==
    ASSUME NEW h \in Holders, copy[h].algo \in Algorithms, Deny(h) \/ Peek(h)
    PROVE  /\ ~Fails(h)
           /\ val' = IF copy[h].algo = "sliding_log"
                     THEN LogEvicted(Stored, now, copy[h]) ELSE Stored
<1> DEFINE alg == copy[h].algo
           f == View(Stored, alg)
           x == IF alg = "sliding_log" THEN LogEvicted(f, now, copy[h]) ELSE f
<1>1. ScriptDeny(alg, f, now, copy[h]).value = x
  BY DEF ScriptDeny, TokenDeny, LeakyDeny, FixedDeny, SlidingDeny, LogDeny, Algorithms
<1>2. ScriptEval(alg, f, now, copy[h], TRUE, FreshNonce).value = x
  BY DEF ScriptEval, TokenEval, LeakyEval, FixedEval, SlidingEval, LogEval, Algorithms
<1>3. ~Fails(h) /\ val' = Left(Stored, alg, x)
  BY <1>1, <1>2 DEF Deny, Peek, Found
<1>4. CASE alg # "sliding_log"
  BY <1>3, <1>4 DEF Left
<1>5. CASE alg = "sliding_log"
  <2>1. Stored.type # "hash"
    BY <1>3, <1>5 DEF Fails, WrongType
  <2>2. f = Stored
    BY <2>1 DEF View
  <2> QED
    BY <1>3, <1>5, <2>1, <2>2 DEF Left, Merged
<1> QED
  BY <1>3, <1>4, <1>5

\* HSET has been executed: y has the fields of x, and for the rest those of v.
Over(y, v, x) ==
    /\ \A f \in DOMAIN x : f \in DOMAIN y /\ y[f] = x[f]
    /\ \A f \in DOMAIN y : f \notin DOMAIN x => v.type = "hash" /\ f \in DOMAIN v /\ y[f] = v[f]
    /\ v.type = "hash" => DOMAIN v \subseteq DOMAIN y

\* What is left where a script stores the hash x.
LEMMA Overwrites ==
    ASSUME NEW v, NEW alg, NEW x, x.type = "hash"
    PROVE  Over(Left(v, alg, x), v, x)
<1>1. CASE x = View(v, alg)
  <2>1. x = v
    BY <1>1 DEF View, Absent
  <2> QED
    BY <1>1, <2>1 DEF Left, Over
<1>2. CASE x # View(v, alg) /\ v.type = "hash"
  <2>1. Left(v, alg, x) = [f \in DOMAIN v \cup DOMAIN x |-> IF f \in DOMAIN x THEN x[f] ELSE v[f]]
    BY <1>2 DEF Left, Merged
  <2> QED
    BY <1>2, <2>1 DEF Over
<1>3. CASE x # View(v, alg) /\ v.type # "hash"
  BY <1>3 DEF Left, Merged, Over
<1> QED
  BY <1>1, <1>2, <1>3

\* What the hash of a token bucket leaves of the fields of others.
LEMMA TokenLeft ==
    ASSUME NEW y, NEW v, NEW t \in Nat, NEW cfg, NEW tk \in Nat,
           Over(y, v, TokenHash(tk, t, cfg)), v.type = "hash" => PastHash(v, t),
           t + TokenFullIn(tk, cfg) + Second \in Nat
    PROVE  /\ PastHash(y, t) /\ "tokens" \in DOMAIN y /\ y.tokens = tk /\ y.last = t
           /\ y.expireAt = t + TokenFullIn(tk, cfg) + Second
<1> DEFINE x == TokenHash(tk, t, cfg)
<1>1. /\ DOMAIN x = {"type", "tokens", "last", "expireAt"}
      /\ x["type"] = "hash" /\ x["tokens"] = tk /\ x["last"] = t
      /\ x["expireAt"] = t + TokenFullIn(tk, cfg) + Second
  BY DEF TokenHash
<1> HIDE DEF x
<1>2. Over(y, v, x)
  BY DEF x
<1>3. /\ y["type"] = "hash" /\ y["tokens"] = tk /\ y["last"] = t
      /\ y["expireAt"] = t + TokenFullIn(tk, cfg) + Second
      /\ "tokens" \in DOMAIN y /\ "last" \in DOMAIN y
  BY <1>1, <1>2 DEF Over
<1>4. \A f \in {"level", "w", "c", "a", "ca", "cb"} :
          f \in DOMAIN y => v.type = "hash" /\ f \in DOMAIN v /\ y[f] = v[f]
  BY <1>1, <1>2 DEF Over
<1>5. v.type = "hash" => PastHash(v, t) /\ DOMAIN v \subseteq DOMAIN y
  BY <1>2 DEF Over
<1>6. "level" \in DOMAIN y =>
          y["level"] \in Nat /\ \E w \in history : y["level"] <= w.burst * Second
  BY <1>4, <1>5 DEF PastHash
<1>7. "w" \in DOMAIN y =>
          "c" \in DOMAIN y /\ y["w"] \in Nat /\ y["w"] <= t /\ y["c"] \in Nat
  BY <1>4, <1>5 DEF PastHash
<1>8. "a" \in DOMAIN y =>
          /\ "ca" \in DOMAIN y /\ "cb" \in DOMAIN y
          /\ y["a"] \in Nat /\ y["a"] <= t /\ y["ca"] \in Nat /\ y["cb"] \in Nat
  BY <1>4, <1>5 DEF PastHash
<1> QED
  BY <1>3, <1>6, <1>7, <1>8 DEF PastHash

\* The hash of a leaky bucket, likewise.
LEMMA LeakyLeft ==
    ASSUME NEW y, NEW v, NEW t \in Nat, NEW cfg, NEW lv \in Nat,
           Over(y, v, LeakyHash(lv, t, cfg)), v.type = "hash" => PastHash(v, t),
           t + LeakyDrainsIn(lv, cfg) + Second \in Nat,
           \E w \in history : lv <= w.burst * Second
    PROVE  /\ PastHash(y, t) /\ "level" \in DOMAIN y /\ y.level = lv /\ y.last = t
           /\ y.expireAt = t + LeakyDrainsIn(lv, cfg) + Second
<1> DEFINE x == LeakyHash(lv, t, cfg)
<1>1. /\ DOMAIN x = {"type", "level", "last", "expireAt"}
      /\ x["type"] = "hash" /\ x["level"] = lv /\ x["last"] = t
      /\ x["expireAt"] = t + LeakyDrainsIn(lv, cfg) + Second
  BY DEF LeakyHash
<1> HIDE DEF x
<1>2. Over(y, v, x)
  BY DEF x
<1>3. /\ y["type"] = "hash" /\ y["level"] = lv /\ y["last"] = t
      /\ y["expireAt"] = t + LeakyDrainsIn(lv, cfg) + Second
      /\ "level" \in DOMAIN y /\ "last" \in DOMAIN y
  BY <1>1, <1>2 DEF Over
<1>4. \A f \in {"tokens", "w", "c", "a", "ca", "cb"} :
          f \in DOMAIN y => v.type = "hash" /\ f \in DOMAIN v /\ y[f] = v[f]
  BY <1>1, <1>2 DEF Over
<1>5. v.type = "hash" => PastHash(v, t) /\ DOMAIN v \subseteq DOMAIN y
  BY <1>2 DEF Over
<1>6. "tokens" \in DOMAIN y => y["tokens"] \in Nat
  BY <1>4, <1>5 DEF PastHash
<1>7. "w" \in DOMAIN y =>
          "c" \in DOMAIN y /\ y["w"] \in Nat /\ y["w"] <= t /\ y["c"] \in Nat
  BY <1>4, <1>5 DEF PastHash
<1>8. "a" \in DOMAIN y =>
          /\ "ca" \in DOMAIN y /\ "cb" \in DOMAIN y
          /\ y["a"] \in Nat /\ y["a"] <= t /\ y["ca"] \in Nat /\ y["cb"] \in Nat
  BY <1>4, <1>5 DEF PastHash
<1> QED
  BY <1>3, <1>6, <1>7, <1>8 DEF PastHash

\* The buckets' fields survive what a window stores.
BucketFields(y, t) ==
    /\ "tokens" \in DOMAIN y => y["tokens"] \in Nat
    /\ "level" \in DOMAIN y =>
           y["level"] \in Nat /\ \E w \in history : y["level"] <= w.burst * Second
    /\ "tokens" \in DOMAIN y \/ "level" \in DOMAIN y =>
           "last" \in DOMAIN y /\ y["last"] \in Nat /\ y["last"] <= t

\* They do, for neither window has a field of theirs.
LEMMA BucketFieldsStay ==
    ASSUME NEW y, NEW v, NEW x, NEW t, Over(y, v, x), v.type = "hash" => PastHash(v, t),
           "tokens" \notin DOMAIN x, "level" \notin DOMAIN x, "last" \notin DOMAIN x
    PROVE  BucketFields(y, t)
<1>1. \A f \in {"tokens", "level", "last"} :
          f \in DOMAIN y => v.type = "hash" /\ f \in DOMAIN v /\ y[f] = v[f]
  BY DEF Over
<1>2. v.type = "hash" => PastHash(v, t) /\ DOMAIN v \subseteq DOMAIN y
  BY DEF Over
<1>3. "tokens" \in DOMAIN y => y["tokens"] \in Nat
  BY <1>1, <1>2 DEF PastHash
<1>4. "level" \in DOMAIN y =>
          y["level"] \in Nat /\ \E w \in history : y["level"] <= w.burst * Second
  BY <1>1, <1>2 DEF PastHash
<1>5. "tokens" \in DOMAIN y \/ "level" \in DOMAIN y =>
          "last" \in DOMAIN y /\ y["last"] \in Nat /\ y["last"] <= t
  BY <1>1, <1>2 DEF PastHash
<1> QED
  BY <1>3, <1>4, <1>5 DEF BucketFields

\* The hash of a fixed window.
HoldsCount(y, n, t, cfg) ==
    /\ PastHash(y, t) /\ "w" \in DOMAIN y
    /\ y.c = n /\ y.w = WindowStart(t, FixedLength(cfg))
    /\ y.expireAt = t + FixedLength(cfg) + Second

\* What the script of the fixed window leaves in a key, whoever wrote it before.
LEMMA FixedLeft ==
    ASSUME NEW y, NEW v, NEW t \in Nat, NEW cfg, NEW n \in Nat, Valid(cfg),
           Over(y, v, FixedHash(n, t, cfg)), v.type = "hash" => PastHash(v, t)
    PROVE  HoldsCount(y, n, t, cfg)
<1> DEFINE x == FixedHash(n, t, cfg)
           f == WindowStart(t, FixedLength(cfg))
<1>1. /\ DOMAIN x = {"type", "w", "c", "expireAt"}
      /\ x["type"] = "hash" /\ x["w"] = f /\ x["c"] = n
      /\ x["expireAt"] = t + FixedLength(cfg) + Second
  BY DEF FixedHash
<1>2. f \in Nat /\ f <= t /\ t + FixedLength(cfg) + Second \in Nat
  <2> DEFINE W == FixedLength(cfg)
  <2>1. W \in Nat \ {0} /\ Second \in Nat
    BY Sizes
  <2> HIDE DEF W
  <2>2. WindowStart(t, W) \in Nat /\ WindowStart(t, W) <= t
    BY <2>1, WindowFacts
  <2>3. t + W + Second \in Nat
    BY <2>1
  <2> QED
    BY <2>2, <2>3 DEF W
<1> HIDE DEF x, f
<1>3. Over(y, v, x)
  BY DEF x
<1>4. /\ y["type"] = "hash" /\ y["w"] = f /\ y["c"] = n
      /\ y["expireAt"] = t + FixedLength(cfg) + Second
      /\ "w" \in DOMAIN y /\ "c" \in DOMAIN y
  BY <1>1, <1>3 DEF Over
<1>5. \A g \in {"a", "ca", "cb"} :
          g \in DOMAIN y => v.type = "hash" /\ g \in DOMAIN v /\ y[g] = v[g]
  BY <1>1, <1>3 DEF Over
<1>6. v.type = "hash" => PastHash(v, t) /\ DOMAIN v \subseteq DOMAIN y
  BY <1>3 DEF Over
<1>7. "a" \in DOMAIN y =>
          /\ "ca" \in DOMAIN y /\ "cb" \in DOMAIN y
          /\ y["a"] \in Nat /\ y["a"] <= t /\ y["ca"] \in Nat /\ y["cb"] \in Nat
  BY <1>5, <1>6 DEF PastHash
<1>8. BucketFields(y, t)
  BY <1>1, <1>3, BucketFieldsStay
<1> QED
  BY <1>2, <1>4, <1>7, <1>8 DEF HoldsCount, PastHash, BucketFields, f

\* The hash of a sliding window.
HoldsCounts(y, m, n, t, cfg) ==
    /\ PastHash(y, t) /\ "a" \in DOMAIN y
    /\ y.ca = m /\ y.cb = n /\ y.a = SlidingStart(t, cfg)
    /\ y.expireAt = t + 2 * SlidingLength(cfg) + Second

\* What the script of the sliding window leaves in a key, whoever wrote it before.
LEMMA SlidingLeft ==
    ASSUME NEW y, NEW v, NEW t \in Nat, NEW cfg, NEW m \in Nat, NEW n \in Nat, Valid(cfg),
           Over(y, v, SlidingHash([ca |-> m, cb |-> n], t, cfg)), v.type = "hash" => PastHash(v, t)
    PROVE  HoldsCounts(y, m, n, t, cfg)
<1> DEFINE x == SlidingHash([ca |-> m, cb |-> n], t, cfg)
           f == SlidingStart(t, cfg)
<1>1. /\ DOMAIN x = {"type", "a", "ca", "cb", "expireAt"}
      /\ x["type"] = "hash" /\ x["a"] = f /\ x["ca"] = m /\ x["cb"] = n
      /\ x["expireAt"] = t + 2 * SlidingLength(cfg) + Second
  BY DEF SlidingHash
<1>2. f \in Nat /\ f <= t /\ t + 2 * SlidingLength(cfg) + Second \in Nat
  <2> DEFINE W == SlidingLength(cfg)
  <2>1. W \in Nat \ {0} /\ Second \in Nat
    BY Sizes
  <2> HIDE DEF W
  <2>2. WindowStart(t, W) \in Nat /\ WindowStart(t, W) <= t
    BY <2>1, WindowFacts
  <2>3. t + 2 * W + Second \in Nat
    BY <2>1
  <2> QED
    BY <2>2, <2>3 DEF W, SlidingStart
<1> HIDE DEF x, f
<1>3. Over(y, v, x)
  BY DEF x
<1>4. /\ y["type"] = "hash" /\ y["a"] = f /\ y["ca"] = m /\ y["cb"] = n
      /\ y["expireAt"] = t + 2 * SlidingLength(cfg) + Second
      /\ "a" \in DOMAIN y /\ "ca" \in DOMAIN y /\ "cb" \in DOMAIN y
  BY <1>1, <1>3 DEF Over
<1>5. \A g \in {"w", "c"} :
          g \in DOMAIN y => v.type = "hash" /\ g \in DOMAIN v /\ y[g] = v[g]
  BY <1>1, <1>3 DEF Over
<1>6. v.type = "hash" => PastHash(v, t) /\ DOMAIN v \subseteq DOMAIN y
  BY <1>3 DEF Over
<1>7. "w" \in DOMAIN y =>
          "c" \in DOMAIN y /\ y["w"] \in Nat /\ y["w"] <= t /\ y["c"] \in Nat
  BY <1>5, <1>6 DEF PastHash
<1>8. BucketFields(y, t)
  BY <1>1, <1>3, BucketFieldsStay
<1> QED
  BY <1>2, <1>4, <1>7, <1>8 DEF HoldsCounts, PastHash, BucketFields, f

-----------------------------------------------------------------------------
(***************************************************************************)
(* A request is admitted, by each algorithm.                               *)
(***************************************************************************)
\* Whoever admits decides by a version in force.
LEMMA Grants ==
    ASSUME Known, NEW h \in Holders, Grant(h)
    PROVE  LET cfg == copy[h]
               alg == copy[h].algo
           IN  /\ cfg \in span /\ cfg \in history /\ Valid(cfg) /\ alg \in Algorithms
               /\ ~WrongType(Stored, alg) /\ ScriptAdmits(alg, Found(h), now, cfg)
               /\ alg # "sliding_log" => FoundHash(Found(h), Field(alg), now)
               /\ Stored.type = "hash" => PastHash(Stored, now)
               /\ alg # "sliding_log" =>
                      LET x == ScriptTake(alg, Found(h), now, cfg, FreshNonce).value
                      IN  x.type = "hash" => Over(val', Stored, x)
               /\ alg = "sliding_log" => val' = LogAdded(Stored, now, cfg, FreshNonce)
<1> DEFINE cfg == copy[h]
           alg == copy[h].algo
           x == ScriptTake(alg, Found(h), now, cfg, FreshNonce).value
<1>1. cfg \in span /\ cfg \in history /\ Valid(cfg)
  BY VersionsValid DEF Known, InForce
<1>2. alg \in Algorithms
  BY <1>1 DEF Valid
<1>3. /\ ~WrongType(Stored, alg) /\ ScriptAdmits(alg, Found(h), now, cfg)
      /\ val' = Left(Stored, alg, x)
  BY DEF Grant, Fails, HasRoom
<1>4. Found(h) = View(Stored, alg)
  BY DEF Found
<1>5. /\ alg # "sliding_log" => FoundHash(Found(h), Field(alg), now)
      /\ alg = "sliding_log" => Found(h) = Stored
  BY <1>2, <1>3, <1>4, FoundIs
<1>6. Stored.type = "hash" => PastHash(Stored, now)
  BY StoredIs DEF Past, PastLog, Absent
<1>7. x.type = "hash" => Over(val', Stored, x)
  BY <1>3, Overwrites
<1>8. alg = "sliding_log" => val' = LogAdded(Stored, now, cfg, FreshNonce)
  <2> SUFFICES ASSUME alg = "sliding_log" PROVE val' = LogAdded(Stored, now, cfg, FreshNonce)
    OBVIOUS
  <2>1. x = LogAdded(Stored, now, cfg, FreshNonce)
    BY <1>5 DEF ScriptTake, LogTake
  <2>2. Stored.type # "hash"
    BY <1>3 DEF WrongType
  <2>3. Left(Stored, alg, x) = x
    BY <2>2, <1>4, <1>5 DEF Left, Merged
  <2> QED
    BY <1>3, <2>1, <2>3
<1> QED
  BY <1>1, <1>2, <1>3, <1>5, <1>6, <1>7, <1>8

\* A bucket holds between nothing and its capacity.
LEMMA TokensRange ==
    ASSUME NEW cfg, Valid(cfg), NEW t \in Nat, NEW f,
           f = Absent \/ (Exists(f) /\ f.tokens \in Nat /\ f.last \in Nat)
    PROVE  TokenNow(f, t, cfg) \in 0 .. TokenFull(cfg)
<1>1. TokenFull(cfg) \in Nat /\ cfg.threshold \in Nat
  BY Sizes
<1>2. CASE f = Absent
  BY <1>1, <1>2 DEF TokenNow, Exists, Absent
<1>3. CASE Exists(f) /\ f.tokens \in Nat /\ f.last \in Nat
  <2>1. Larger(0, t - f.last) \in Nat
    BY <1>3 DEF Larger
  <2>2. Larger(0, t - f.last) * cfg.threshold \in Nat
    BY <1>1, <2>1, NatProducts
  <2> QED
    BY <1>1, <1>3, <2>2 DEF TokenNow, Smaller
<1> QED
  BY <1>2, <1>3

\* A queue holds no more than was stored.
LEMMA WaterRange ==
    ASSUME NEW cfg, Valid(cfg), NEW t \in Nat, NEW f,
           f = Absent \/ (Exists(f) /\ f.level \in Nat /\ f.last \in Nat)
    PROVE  /\ LeakyNow(f, t, cfg) \in Nat
           /\ f # Absent => LeakyNow(f, t, cfg) <= f.level
<1>1. cfg.threshold \in Nat
  BY Sizes
<1>2. CASE f = Absent
  BY <1>1, <1>2 DEF LeakyNow, Exists, Absent
<1>3. CASE Exists(f) /\ f.level \in Nat /\ f.last \in Nat
  <2>1. Larger(0, t - f.last) \in Nat
    BY <1>3 DEF Larger
  <2>2. Larger(0, t - f.last) * cfg.threshold \in Nat
    BY <1>1, <2>1, NatProducts
  <2> QED
    BY <1>1, <1>3, <2>2 DEF LeakyNow
<1> QED
  BY <1>2, <1>3

\* Rounding up is monotone.
LEMMA CeilDivMonotone ==
    ASSUME NEW a \in Int, NEW b \in Int, NEW m \in Nat \ {0}, a <= b
    PROVE  CeilDiv(a, m) <= CeilDiv(b, m)
<1>1. 0 * m = 0 /\ b >= a + 0 * m
  BY Products
<1>2. CeilDiv(b, m) >= CeilDiv(a, m) + 0
  BY <1>1, CeilDivShift
<1> QED
  BY <1>2, CeilDivFacts

\* A token bucket admits: a token is paid.
LEMMA TokenGrant ==
    ASSUME Known, NEW h \in Holders, Grant(h), copy[h].algo = "token_bucket"
    PROVE  LET cfg == copy[h]
               tk  == TokenNow(Found(h), now, cfg) - Second
           IN  /\ tk \in Nat /\ tk <= TokenFull(cfg) - Second
               /\ PastHash(val', now) /\ "tokens" \in DOMAIN val'
               /\ val'.tokens = tk /\ val'.last = now
               /\ val'.expireAt = now + TokenFullIn(tk, cfg) + Second
               /\ val'.expireAt <= now + LongestLife(cfg.algo, cfg)
<1> DEFINE cfg == copy[h]
           f == Found(h)
           tk == TokenNow(f, now, cfg) - Second
           x == ScriptTake("token_bucket", f, now, cfg, FreshNonce).value
<1>1. /\ Valid(cfg) /\ now \in Nat
      /\ Stored.type = "hash" => PastHash(Stored, now)
      /\ FoundHash(f, "tokens", now) /\ TokenAdmits(f, now, cfg)
      /\ x.type = "hash" => Over(val', Stored, x)
  BY Grants DEF Known, InForce, ScriptAdmits, Field
<1>2. x = TokenHash(tk, now, cfg) /\ x.type = "hash"
  BY DEF ScriptTake, TokenTake, TokenHash
<1>3. tk \in Nat /\ tk <= TokenFull(cfg) - Second
  <2>1. f = Absent \/ (Exists(f) /\ f.tokens \in Nat /\ f.last \in Nat)
    BY <1>1 DEF FoundHash, PastHash, Exists
  <2>2. TokenNow(f, now, cfg) \in 0 .. TokenFull(cfg)
    BY <1>1, <2>1, TokensRange
  <2> QED
    BY <1>1, <2>2, Sizes DEF TokenAdmits
<1>4. /\ TokenFullIn(tk, cfg) \in Nat
      /\ TokenFullIn(tk, cfg) <= CeilDiv(TokenFull(cfg), cfg.threshold)
  <2>0. TokenFull(cfg) \in Nat /\ cfg.threshold \in Nat \ {0} /\ Second \in Nat
    BY <1>1, Sizes
  <2>1. /\ TokenFull(cfg) - tk \in Nat /\ TokenFull(cfg) - tk <= TokenFull(cfg)
        /\ TokenFull(cfg) \in Nat /\ cfg.threshold \in Nat \ {0}
    <3> HIDE DEF tk
    <3> QED
      BY <1>3, <2>0
  <2> DEFINE full == TokenFull(cfg)
             n    == full - tk
             d    == cfg.threshold
  <2>2. n \in Nat /\ full \in Nat /\ n <= full /\ d \in Nat \ {0}
    BY <2>1
  <2> HIDE DEF n, full, d
  <2>3. CeilDiv(n, d) \in Nat /\ CeilDiv(n, d) <= CeilDiv(full, d)
    BY <2>2, CeilDivFacts, CeilDivMonotone
  <2>4. TokenFullIn(tk, cfg) = CeilDiv(n, d)
    BY DEF TokenFullIn, n, full, d
  <2> QED
    BY <2>3, <2>4 DEF full, d
<1>5. LongestLife(cfg.algo, cfg) = CeilDiv(TokenFull(cfg), cfg.threshold) + Second
  BY DEF LongestLife, Buckets
<1>6. Second \in Nat /\ CeilDiv(TokenFull(cfg), cfg.threshold) \in Int
  BY <1>1, Sizes, CeilDivFacts
<1> HIDE DEF f, tk, x, cfg
<1>7. now + TokenFullIn(tk, cfg) + Second \in Nat
  BY <1>1, <1>4, <1>6
<1>8. Over(val', Stored, TokenHash(tk, now, cfg))
  BY <1>1, <1>2
<1>9. /\ PastHash(val', now) /\ "tokens" \in DOMAIN val' /\ val'.tokens = tk /\ val'.last = now
      /\ val'.expireAt = now + TokenFullIn(tk, cfg) + Second
  BY <1>1, <1>3, <1>7, <1>8, TokenLeft
<1>10. val'.expireAt <= now + LongestLife(cfg.algo, cfg)
  BY <1>1, <1>4, <1>5, <1>6, <1>9
<1> QED
  BY <1>3, <1>9, <1>10 DEF tk, f, cfg

\* A leaky bucket admits: a request is queued.
LEMMA LeakyGrant ==
    ASSUME Known, NEW h \in Holders, Grant(h), copy[h].algo = "leaky_bucket"
    PROVE  LET cfg == copy[h]
               lv  == LeakyNow(Found(h), now, cfg) + Second
           IN  /\ lv \in Nat /\ lv >= Second /\ lv <= TokenFull(cfg)
               /\ PastHash(val', now) /\ "level" \in DOMAIN val'
               /\ val'.level = lv /\ val'.last = now
               /\ val'.expireAt = now + LeakyDrainsIn(lv, cfg) + Second
               /\ val'.expireAt <= now + LongestLife(cfg.algo, cfg)
               /\ due' = LeakyDrainsIn(lv, cfg)
<1> DEFINE cfg == copy[h]
           f == Found(h)
           lv == LeakyNow(f, now, cfg) + Second
           x == ScriptTake("leaky_bucket", f, now, cfg, FreshNonce).value
<1>1. /\ Valid(cfg) /\ cfg \in history /\ now \in Nat
      /\ Stored.type = "hash" => PastHash(Stored, now)
      /\ FoundHash(f, "level", now) /\ LeakyAdmits(f, now, cfg)
      /\ x.type = "hash" => Over(val', Stored, x)
  BY Grants DEF Known, InForce, ScriptAdmits, Field
<1>2. x = LeakyHash(lv, now, cfg) /\ x.type = "hash"
  BY DEF ScriptTake, LeakyTake, LeakyHash
<1>3. lv \in Nat /\ lv >= Second /\ lv <= TokenFull(cfg)
  <2>1. f = Absent \/ (Exists(f) /\ f.level \in Nat /\ f.last \in Nat)
    BY <1>1 DEF FoundHash, PastHash, Exists
  <2>2. LeakyNow(f, now, cfg) \in Nat
    BY <1>1, <2>1, WaterRange
  <2>3. LeakyNow(f, now, cfg) <= TokenFull(cfg) - Second
    BY <1>1, Sizes DEF LeakyAdmits, LeakyHasSlot
  <2> QED
    BY <1>1, <2>2, <2>3, Sizes
<1>4. /\ LeakyDrainsIn(lv, cfg) \in Nat
      /\ LeakyDrainsIn(lv, cfg) <= CeilDiv(TokenFull(cfg), cfg.threshold)
  <2>1. TokenFull(cfg) \in Nat /\ cfg.threshold \in Nat \ {0}
    BY <1>1, Sizes
  <2> QED
    BY <1>3, <2>1, CeilDivFacts, CeilDivMonotone DEF LeakyDrainsIn
<1>5. LongestLife(cfg.algo, cfg) = CeilDiv(TokenFull(cfg), cfg.threshold) + Second
  BY DEF LongestLife, Buckets
<1>6. Second \in Nat /\ CeilDiv(TokenFull(cfg), cfg.threshold) \in Int
  BY <1>1, Sizes, CeilDivFacts
<1>7. due' = LeakyDrainsIn(lv, cfg)
  BY DEF Grant, ScriptTake, LeakyTake
<1>8. \E w \in history : lv <= w.burst * Second
  BY <1>1, <1>3, Sizes
<1> HIDE DEF f, lv, x, cfg
<1>9. now + LeakyDrainsIn(lv, cfg) + Second \in Nat
  BY <1>1, <1>4, <1>6
<1>10. Over(val', Stored, LeakyHash(lv, now, cfg))
  BY <1>1, <1>2
<1>11. /\ PastHash(val', now) /\ "level" \in DOMAIN val' /\ val'.level = lv /\ val'.last = now
       /\ val'.expireAt = now + LeakyDrainsIn(lv, cfg) + Second
  BY <1>1, <1>3, <1>8, <1>9, <1>10, LeakyLeft
<1>12. val'.expireAt <= now + LongestLife(cfg.algo, cfg)
  BY <1>1, <1>4, <1>5, <1>6, <1>11
<1> QED
  BY <1>3, <1>7, <1>11, <1>12 DEF lv, f, cfg

\* A fixed window admits: a request is counted in the current window.
LEMMA FixedGrant ==
    ASSUME Known, NEW h \in Holders, Grant(h), copy[h].algo = "fixed_window"
    PROVE  LET cfg == copy[h]
               c   == FixedCount(Found(h), now, cfg) + 1
           IN  /\ c \in Nat /\ c <= cfg.threshold
               /\ PastHash(val', now) /\ "w" \in DOMAIN val'
               /\ val'.c = c /\ val'.w = WindowStart(now, FixedLength(cfg))
               /\ val'.expireAt = now + FixedLength(cfg) + Second
               /\ val'.expireAt <= now + LongestLife(cfg.algo, cfg)
<1> DEFINE cfg == copy[h]
           f == Found(h)
           c == FixedCount(f, now, cfg) + 1
           x == ScriptTake("fixed_window", f, now, cfg, FreshNonce).value
<1>1. /\ Valid(cfg) /\ now \in Nat
      /\ Stored.type = "hash" => PastHash(Stored, now)
      /\ FoundHash(f, "w", now) /\ FixedAdmits(f, now, cfg)
      /\ x.type = "hash" => Over(val', Stored, x)
  BY Grants DEF Known, InForce, ScriptAdmits, Field
<1>2. x = FixedHash(c, now, cfg) /\ x.type = "hash"
  BY DEF ScriptTake, FixedTake, FixedHash
<1>3. c \in Nat /\ c <= cfg.threshold
  <2>1. f = Absent \/ f.c \in Nat
    BY <1>1 DEF FoundHash, PastHash
  <2>2. FixedCount(f, now, cfg) \in Nat
    BY <2>1 DEF FixedCount, Exists, Absent
  <2> QED
    BY <1>1, <2>2, Sizes DEF FixedAdmits
<1>4. LongestLife(cfg.algo, cfg) = FixedLength(cfg) + Second
  BY DEF LongestLife, Buckets
<1>5. Second \in Nat /\ FixedLength(cfg) \in Nat
  BY <1>1, Sizes
<1> HIDE DEF f, c, x, cfg
<1>6. Over(val', Stored, FixedHash(c, now, cfg))
  BY <1>1, <1>2
<1>7. /\ PastHash(val', now) /\ "w" \in DOMAIN val' /\ val'.c = c
      /\ val'.w = WindowStart(now, FixedLength(cfg))
      /\ val'.expireAt = now + FixedLength(cfg) + Second
  <2>1. Stored.type = "hash" => PastHash(Stored, now)
    BY <1>1
  <2>2. now \in Nat /\ Valid(cfg) /\ c \in Nat
    BY <1>1, <1>3
  <2>3. HoldsCount(val', c, now, cfg)
    BY <1>6, <2>1, <2>2, FixedLeft
  <2> QED
    BY <2>3 DEF HoldsCount
<1>8. val'.expireAt <= now + LongestLife(cfg.algo, cfg)
  BY <1>1, <1>4, <1>5, <1>7
<1> QED
  BY <1>3, <1>7, <1>8 DEF c, f, cfg

\* A sliding window admits, likewise.
LEMMA SlidingGrant ==
    ASSUME Known, NEW h \in Holders, Grant(h), copy[h].algo = "sliding_window"
    PROVE  LET cfg == copy[h]
               n   == SlidingCounts(Found(h), now, cfg)
           IN  /\ n.ca \in Nat /\ n.cb \in Nat
               /\ SlidingEffective(n, now, cfg) < cfg.threshold * SlidingLength(cfg)
               /\ PastHash(val', now) /\ "a" \in DOMAIN val'
               /\ val'.ca = n.ca + 1 /\ val'.cb = n.cb /\ val'.a = SlidingStart(now, cfg)
               /\ val'.expireAt = now + 2 * SlidingLength(cfg) + Second
               /\ val'.expireAt <= now + LongestLife(cfg.algo, cfg)
<1> DEFINE cfg == copy[h]
           f == Found(h)
           n == SlidingCounts(f, now, cfg)
           m == [n EXCEPT !.ca = @ + 1]
           x == ScriptTake("sliding_window", f, now, cfg, FreshNonce).value
<1>1. /\ Valid(cfg) /\ now \in Nat
      /\ Stored.type = "hash" => PastHash(Stored, now)
      /\ FoundHash(f, "a", now) /\ SlidingAdmits(f, now, cfg)
      /\ x.type = "hash" => Over(val', Stored, x)
  BY Grants DEF Known, InForce, ScriptAdmits, Field
<1>2. x = SlidingHash(m, now, cfg) /\ x.type = "hash"
  BY DEF ScriptTake, SlidingTake, SlidingHash
<1>3. n.ca \in Nat /\ n.cb \in Nat /\ n = [ca |-> n.ca, cb |-> n.cb]
  <2>1. f = Absent \/ (f.ca \in Nat /\ f.cb \in Nat)
    BY <1>1 DEF FoundHash, PastHash
  <2> QED
    BY <2>1 DEF SlidingCounts, Exists, Absent
<1>4. m.ca = n.ca + 1 /\ m.cb = n.cb /\ m = [ca |-> m.ca, cb |-> m.cb]
  BY <1>3
<1>5. SlidingEffective(n, now, cfg) < cfg.threshold * SlidingLength(cfg)
  BY <1>1 DEF SlidingAdmits
<1>6. LongestLife(cfg.algo, cfg) = 2 * SlidingLength(cfg) + Second
  BY DEF LongestLife, Buckets
<1>7. Second \in Nat /\ SlidingLength(cfg) \in Nat
  BY <1>1, Sizes
<1> HIDE DEF f, n, m, x, cfg
<1>8. /\ Over(val', Stored, SlidingHash([ca |-> m.ca, cb |-> m.cb], now, cfg))
      /\ m.ca \in Nat /\ m.cb \in Nat
  BY <1>1, <1>2, <1>3, <1>4
<1>9. /\ PastHash(val', now) /\ "a" \in DOMAIN val' /\ val'.ca = m.ca /\ val'.cb = m.cb
      /\ val'.a = SlidingStart(now, cfg)
      /\ val'.expireAt = now + 2 * SlidingLength(cfg) + Second
  <2>1. Stored.type = "hash" => PastHash(Stored, now)
    BY <1>1
  <2>2. now \in Nat /\ Valid(cfg)
    BY <1>1
  <2>3. HoldsCounts(val', m.ca, m.cb, now, cfg)
    BY <1>8, <2>1, <2>2, SlidingLeft
  <2> QED
    BY <2>3 DEF HoldsCounts
<1>10. val'.expireAt <= now + LongestLife(cfg.algo, cfg)
  BY <1>1, <1>6, <1>7, <1>9
<1> QED
  BY <1>3, <1>4, <1>5, <1>9, <1>10 DEF n, f, cfg

\* What a log keeps is part of it.
LEMMA KeptFacts ==
    ASSUME Known, NEW cfg, Valid(cfg), ~WrongType(Stored, "sliding_log")
    PROVE  LET kept == LogKept(Stored, now, cfg) IN
           /\ IsFiniteSet(kept) /\ Cardinality(kept) \in Nat
           /\ \A e \in kept : e.at \in Nat /\ e.at <= now /\ e.at > now - LogLength(cfg)
           /\ Stored # Absent =>
                  /\ Stored = val /\ PastLog(val, now) /\ now <= val.expireAt
                  /\ kept = {e \in val.entries : e.at > now - LogLength(cfg)}
           /\ Stored = Absent => kept = {}
<1> DEFINE kept == LogKept(Stored, now, cfg)
<1>1. Stored = Absent \/ (Stored = val /\ PastLog(val, now) /\ now <= val.expireAt)
  BY FoundIs DEF Algorithms
<1>2. CASE Stored = Absent
  <2>1. kept = {}
    BY <1>2 DEF LogKept, Exists, Absent
  <2> QED
    BY <1>2, <2>1, FS_EmptySet
<1>3. CASE Stored # Absent
  <2>1. Stored = val /\ PastLog(val, now) /\ now <= val.expireAt
    BY <1>1, <1>3
  <2>2. Exists(Stored)
    BY <2>1 DEF PastLog, Exists
  <2>3. kept = {e \in val.entries : e.at > now - LogLength(cfg)}
    BY <2>1, <2>2 DEF LogKept
  <2>4. IsFiniteSet(kept) /\ Cardinality(kept) \in Nat
    BY <2>1, <2>3, FS_Subset, FS_CardinalityType DEF PastLog
  <2> QED
    BY <1>3, <2>1, <2>3, <2>4 DEF PastLog
<1> QED
  BY <1>2, <1>3

\* A log is known by its entries.
LEMMA LogOf ==
    ASSUME NEW E, NEW t, NEW x \in Nat, IsFiniteSet(E),
           \A e \in E : e.at \in Nat /\ e.at <= t,
           \E w \in history : w.algo = "sliding_log" /\ Cardinality(E) <= w.threshold
    PROVE  PastLog([type |-> "zset", entries |-> E, expireAt |-> x], t)
<1> DEFINE y == [type |-> "zset", entries |-> E, expireAt |-> x]
<1>1. y.entries = E /\ y.expireAt = x
  OBVIOUS
<1>2. y = [type |-> "zset", entries |-> y.entries, expireAt |-> y.expireAt]
  BY <1>1
<1> HIDE DEF y
<1>3. PastLog(y, t)
  BY <1>1, <1>2 DEF PastLog
<1> QED
  BY <1>3 DEF y

\* Trimming a log takes entries away, and nothing else.
LEMMA Trimmed ==
    ASSUME Known, NEW cfg, Valid(cfg), ~WrongType(Stored, "sliding_log"),
           NEW y, y = LogEvicted(Stored, now, cfg), y # Absent
    PROVE  /\ Stored = val /\ now <= val.expireAt /\ PastLog(val, now) /\ PastLog(y, now)
           /\ y.entries = {e \in val.entries : e.at > now - LogLength(cfg)}
           /\ y.expireAt = val.expireAt /\ y.type = "zset"
<1> DEFINE kept == LogKept(Stored, now, cfg)
<1>1. /\ IsFiniteSet(kept) /\ Cardinality(kept) \in Nat
      /\ Stored # Absent =>
             /\ Stored = val /\ PastLog(val, now) /\ now <= val.expireAt
             /\ kept = {e \in val.entries : e.at > now - LogLength(cfg)}
      /\ Stored = Absent => kept = {}
  BY KeptFacts
<1>2. kept # {} /\ y = [Stored EXCEPT !.entries = kept]
  BY DEF LogEvicted
<1>3. /\ Stored = val /\ PastLog(val, now) /\ now <= val.expireAt
      /\ kept = {e \in val.entries : e.at > now - LogLength(cfg)}
  BY <1>1, <1>2
<1>4. y = [type |-> "zset", entries |-> kept, expireAt |-> val.expireAt]
  BY <1>2, <1>3 DEF PastLog
<1>5. Cardinality(kept) <= Cardinality(val.entries) /\ Cardinality(val.entries) \in Nat
  <2>1. IsFiniteSet(val.entries) /\ kept \subseteq val.entries
    BY <1>3 DEF PastLog
  <2> HIDE DEF kept
  <2> QED
    BY <2>1, FS_Subset, FS_CardinalityType
<1>6. PICK w \in history : w.algo = "sliding_log" /\ Cardinality(val.entries) <= w.threshold
  BY <1>3 DEF PastLog
<1>7. w.threshold \in Nat
  BY <1>6, VersionsValid, Sizes DEF Known, InForce
<1>8. Cardinality(kept) <= w.threshold
  BY <1>1, <1>5, <1>6, <1>7
<1>9. \A e \in kept : e.at \in Nat /\ e.at <= now
  BY <1>3 DEF PastLog
<1>10. PastLog(y, now)
  <2>1. val.expireAt \in Nat
    BY <1>3 DEF PastLog
  <2> HIDE DEF kept
  <2>2. PastLog([type |-> "zset", entries |-> kept, expireAt |-> val.expireAt], now)
    BY <1>1, <1>6, <1>8, <1>9, <2>1, LogOf
  <2> QED
    BY <1>4, <2>2
<1> HIDE DEF kept
<1> QED
  BY <1>3, <1>4, <1>10

\* A sliding log admits: it gains an entry.
LEMMA LogGrant ==
    ASSUME Known, NEW h \in Holders, Grant(h), copy[h].algo = "sliding_log"
    PROVE  LET cfg  == copy[h]
               kept == LogKept(Stored, now, cfg)
               new  == [at |-> now, id |-> FreshNonce]
           IN  /\ PastLog(val', now)
               /\ val'.entries = {e \in kept : e.id # FreshNonce} \cup {new}
               /\ IsFiniteSet(kept) /\ Cardinality(kept) < cfg.threshold
               /\ val'.expireAt = now + LogLength(cfg) + Second
               /\ val'.expireAt <= now + LongestLife(cfg.algo, cfg)
<1> DEFINE cfg == copy[h]
           kept == LogKept(Stored, now, cfg)
           id == FreshNonce
           left == {e \in kept : e.id # id}
           new == [at |-> now, id |-> id]
<1>1. /\ Valid(cfg) /\ cfg \in history /\ now \in Nat /\ ~WrongType(Stored, "sliding_log")
      /\ val' = LogAdded(Stored, now, cfg, id) /\ LogAdmits(Found(h), now, cfg)
  BY Grants DEF Known, InForce, ScriptAdmits
<1>2. Found(h) = Stored
  BY <1>1, FoundIs DEF Found, Algorithms
<1>3. Cardinality(kept) < cfg.threshold
  BY <1>1, <1>2 DEF LogAdmits
<1>4. /\ IsFiniteSet(kept) /\ Cardinality(kept) \in Nat
      /\ \A e \in kept : e.at \in Nat /\ e.at <= now
  BY <1>1, KeptFacts
<1>5. val' = [type |-> "zset", entries |-> left \cup {new}, expireAt |-> now + LogLength(cfg) + Second]
  BY <1>1 DEF LogAdded
<1>6. LongestLife(cfg.algo, cfg) = LogLength(cfg) + Second
  BY DEF LongestLife, Buckets
<1>7. Second \in Nat /\ LogLength(cfg) \in Nat /\ cfg.threshold \in Nat
  BY <1>1, Sizes
<1>8. left \subseteq kept /\ \A e \in left \cup {new} : e.at \in Nat /\ e.at <= now
  BY <1>1, <1>4
<1> HIDE DEF left, kept, new, cfg, id
<1>9. /\ IsFiniteSet(left) /\ Cardinality(left) \in Nat /\ Cardinality(left) <= Cardinality(kept)
      /\ IsFiniteSet(left \cup {new}) /\ Cardinality(left \cup {new}) <= Cardinality(left) + 1
  <2>1. /\ IsFiniteSet(left) /\ Cardinality(left) \in Nat
        /\ Cardinality(left) <= Cardinality(kept)
    BY <1>4, <1>8, FS_Subset, FS_CardinalityType
  <2>2. /\ IsFiniteSet(left \cup {new})
        /\ Cardinality(left \cup {new})
               = IF new \in left THEN Cardinality(left) ELSE Cardinality(left) + 1
    BY <2>1, FS_AddElement
  <2> QED
    BY <2>1, <2>2
<1>10. Cardinality(left \cup {new}) <= cfg.threshold
  <2>1. Cardinality(left \cup {new}) \in Nat
    BY <1>9, FS_CardinalityType
  <2> QED
    BY <1>3, <1>4, <1>7, <1>9, <2>1
<1>11. now + LogLength(cfg) + Second \in Nat
  BY <1>1, <1>7
<1>12. PastLog(val', now)
  <2> DEFINE E == left \cup {new}
             x == now + LogLength(cfg) + Second
  <2>1. /\ IsFiniteSet(E) /\ \A e \in E : e.at \in Nat /\ e.at <= now
        /\ cfg.algo = "sliding_log" /\ Cardinality(E) <= cfg.threshold
        /\ x \in Nat
    BY <1>8, <1>9, <1>10, <1>11 DEF cfg
  <2>2. val' = [type |-> "zset", entries |-> E, expireAt |-> x]
    BY <1>5
  <2> HIDE DEF E, x
  <2>3. PastLog([type |-> "zset", entries |-> E, expireAt |-> x], now)
    BY <1>1, <2>1, LogOf
  <2> QED
    BY <2>2, <2>3
<1>13. val'.expireAt <= now + LongestLife(cfg.algo, cfg)
  BY <1>1, <1>5, <1>6, <1>7
<1> QED
  BY <1>3, <1>4, <1>5, <1>12, <1>13 DEF left, kept, new, cfg, id

-----------------------------------------------------------------------------
(***************************************************************************)
(* What is known of every state.                                           *)
(***************************************************************************)
\* Whoever admits leaves a key as any version may.
LEMMA GrantPast ==
    ASSUME Known, NEW h \in Holders, Grant(h)
    PROVE  /\ Past(val', now) /\ val' # Absent /\ ~WrongType(val', copy[h].algo)
           /\ \E w \in span : /\ w = copy[h]
                              /\ val'.expireAt <= now + LongestLife(w.algo, w)
<1> DEFINE cfg == copy[h]
           life == LongestLife(cfg.algo, cfg)
<1>1. cfg \in span /\ cfg \in history /\ cfg.algo \in Algorithms
  BY Grants
<1>2. ASSUME cfg.algo # "sliding_log"
      PROVE  PastHash(val', now) /\ val'.expireAt <= now + life
  BY <1>1, <1>2, TokenGrant, LeakyGrant, FixedGrant, SlidingGrant DEF Algorithms
<1>3. ASSUME cfg.algo = "sliding_log"
      PROVE  PastLog(val', now) /\ val'.expireAt <= now + life
  BY <1>3, LogGrant
<1> HIDE DEF life
<1>4. CASE cfg.algo # "sliding_log"
  <2>1. val'.type = "hash" /\ val' # Absent
    BY <1>2, <1>4 DEF PastHash, Absent
  <2> QED
    BY <1>1, <1>2, <1>4, <2>1 DEF Past, WrittenBy, WrongType, life
<1>5. CASE cfg.algo = "sliding_log"
  <2>1. val'.type = "zset" /\ val' # Absent
    BY <1>3, <1>5 DEF PastLog, Absent
  <2> QED
    BY <1>1, <1>3, <1>5, <2>1 DEF Past, WrittenBy, WrongType, life
<1> QED
  BY <1>4, <1>5

\* Whoever denies or looks, too, and what lives on lives no longer for it.
LEMMA LooksPast ==
    ASSUME Known, NEW h \in Holders, Deny(h) \/ Peek(h)
    PROVE  /\ Past(val', now)
           /\ val' # Absent =>
                  /\ val # Absent /\ val'.type = val.type /\ val'.expireAt = val.expireAt
<1> DEFINE cfg == copy[h]
<1>1. Valid(cfg) /\ cfg.algo \in Algorithms
  BY VersionsValid DEF Known, InForce, Valid
<1>2. ~WrongType(Stored, cfg.algo)
      /\ val' = IF cfg.algo = "sliding_log" THEN LogEvicted(Stored, now, cfg) ELSE Stored
  BY <1>1, Looks DEF Fails
<1>3. Past(Stored, now) /\ (Stored = Absent \/ (Stored = val /\ now <= val.expireAt))
  BY StoredIs
<1>4. CASE cfg.algo # "sliding_log" \/ val' = Absent
  BY <1>2, <1>3, <1>4 DEF Past
<1>5. CASE cfg.algo = "sliding_log" /\ val' # Absent
  <2>1. val' = LogEvicted(Stored, now, cfg) /\ ~WrongType(Stored, "sliding_log")
    BY <1>2, <1>5
  <2>2. /\ PastLog(val, now) /\ PastLog(val', now)
        /\ val'.expireAt = val.expireAt /\ val'.type = "zset"
    BY <1>1, <1>5, <2>1, Trimmed
  <2>3. val # Absent /\ val.type = "zset"
    BY <2>2 DEF PastLog, Absent
  <2>4. PICK w \in history : WrittenBy(val, w, now)
    BY <2>3 DEF Known, Past
  <2>5. WrittenBy(val', w, now)
    BY <2>2, <2>3, <2>4 DEF WrittenBy, WrongType
  <2> QED
    BY <2>2, <2>3, <2>5 DEF Past
<1> QED
  BY <1>4, <1>5

\* A key is no younger later.
LEMMA PastLater ==
    ASSUME history \in Histories, NEW v, NEW t \in Nat, Past(v, t)
    PROVE  Past(v, t + 1)
<1> SUFFICES ASSUME v # Absent PROVE Past(v, t + 1)
  BY DEF Past
<1>1. PICK w \in history : WrittenBy(v, w, t)
  BY DEF Past
<1>2. LongestLife(w.algo, w) \in Nat
  BY VersionsValid, Lives
<1>3. PastHash(v, t) => PastHash(v, t + 1)
  BY DEF PastHash
<1>4. PastLog(v, t) => PastLog(v, t + 1)
  BY DEF PastLog
<1>5. v.expireAt \in Nat
  BY DEF Past, PastHash, PastLog
<1>6. WrittenBy(v, w, t + 1)
  BY <1>1, <1>2, <1>5 DEF WrittenBy
<1> QED
  BY <1>3, <1>4, <1>6 DEF Past

\* Nothing is known at first that is not so.
LEMMA InitKnown == Init => Known
  BY DEF Init, Known, InForce, Past

\* Every step keeps it.
LEMMA NextKnown == Known /\ [Next]_vars => Known'
<1> SUFFICES ASSUME Known, [Next]_vars PROVE Known'
  OBVIOUS
<1>1. InForce /\ Past(val, now)
  BY DEF Known
<1>2. ASSUME InForce', history' = history, Past(val', now') PROVE Known'
  BY <1>2 DEF Known, Past, PastHash, PastLog
<1>3. CASE Advance
  <2>1. InForce' /\ history' = history
    BY <1>1, <1>3 DEF Advance, InForce, Larger
  <2>2. Past(val', now')
    BY <1>1, <1>3, PastLater DEF Advance, InForce
  <2> QED
    BY <1>2, <2>1, <2>2
<1>4. CASE StartWatch
  <2>1. span' # {} /\ span' \subseteq history /\ copy \in [Holders -> span']
    BY <1>1, <1>4, HotChangeAssumption DEF StartWatch, InForce
  <2>2. InForce' /\ history' = history
    BY <1>1, <1>4, <2>1 DEF StartWatch, InForce
  <2>3. Past(val', now')
    BY <1>1, <1>4 DEF StartWatch
  <2> QED
    BY <1>2, <2>2, <2>3
<1>5. CASE Expire
  <2>1. InForce' /\ history' = history /\ Past(val', now')
    BY <1>1, <1>5 DEF Expire, InForce, Past
  <2> QED
    BY <1>2, <2>1
<1>6. ASSUME NEW h \in Holders, NEW v \in history, Load(h, v) PROVE Known'
  <2>1. copy' \in [Holders -> span']
    BY <1>1, <1>6 DEF Load, InForce
  <2>2. InForce' /\ history' = history /\ Past(val', now')
    BY <1>1, <1>6, <2>1 DEF Load, InForce
  <2> QED
    BY <1>2, <2>2
<1>7. ASSUME NEW h \in Holders, Grant(h) PROVE Known'
  <2>1. taken' \in Nat
    BY <1>1, <1>7 DEF Grant, InForce
  <2>2. due' \in Nat
    <3>1. CASE copy[h].algo = "leaky_bucket"
      <4> DEFINE lv == LeakyNow(Found(h), now, copy[h]) + Second
      <4>1. lv \in Nat /\ due' = LeakyDrainsIn(lv, copy[h]) /\ copy[h].threshold \in Nat \ {0}
        BY <1>7, <3>1, LeakyGrant, Grants, Sizes
      <4> HIDE DEF lv
      <4> QED
        BY <4>1, CeilDivFacts DEF LeakyDrainsIn
    <3>2. CASE copy[h].algo # "leaky_bucket"
      BY <1>1, <1>7, <3>2 DEF Grant, InForce
    <3> QED
      BY <3>1, <3>2
  <2>3. /\ history' = history /\ copy' = copy /\ now' = now /\ span' = span /\ age' = age
        /\ InForce'
    BY <1>1, <1>7, <2>1, <2>2 DEF Grant, InForce
  <2>4. Past(val', now)
    BY <1>7, GrantPast
  <2> QED
    BY <1>2, <2>3, <2>4
<1>8. ASSUME NEW h \in Holders, Deny(h) \/ Peek(h) PROVE Known'
  <2>1. history' = history /\ now' = now /\ InForce'
    BY <1>1, <1>8 DEF Deny, Peek, InForce
  <2>2. Past(val', now)
    BY <1>8, LooksPast
  <2> QED
    BY <1>2, <2>1, <2>2
<1>9. CASE UNCHANGED vars
  <2>1. InForce' /\ history' = history /\ Past(val', now')
    BY <1>1, <1>9 DEF vars, InForce
  <2> QED
    BY <1>2, <2>1
<1>10. ASSUME NEW h \in Holders, Fail(h) PROVE Known'
  BY <1>9, <1>10 DEF Fail
<1> QED
  BY <1>3, <1>4, <1>5, <1>6, <1>7, <1>8, <1>9, <1>10 DEF Next

\* What is known of every state is invariant.
LEMMA AlwaysKnown == Spec => []Known
  BY InitKnown, NextKnown, PTL DEF Spec

-----------------------------------------------------------------------------
(***************************************************************************)
(* Errors pass.                                                            *)
(***************************************************************************)
\* A value that none of the versions in force can have written was there when the
\* stop-watch was started, and lives no longer than it was to live then.
Outlasts ==
    val # Absent =>
        \/ \E u \in span : ~WrongType(val, u.algo)
        \/ \E w \in history : WrittenBy(val, w, now - age)

\* Every step keeps it.
LEMMA NextOutlasts == Known /\ Outlasts /\ [Next]_vars => Outlasts'
<1> SUFFICES ASSUME Known, Outlasts, [Next]_vars, val' # Absent
             PROVE  \/ \E u \in span' : ~WrongType(val', u.algo)
                    \/ \E w \in history' : WrittenBy(val', w, now' - age')
  BY DEF Outlasts
<1>1. InForce /\ Past(val, now)
  BY DEF Known
<1>2. ASSUME val # Absent, val'.type = val.type, val'.expireAt = val.expireAt,
             history' = history, span \subseteq span', now' - age' = now - age
      PROVE  \/ \E u \in span' : ~WrongType(val', u.algo)
             \/ \E w \in history' : WrittenBy(val', w, now' - age')
  <2>1. \A w : WrittenBy(val, w, now - age) => WrittenBy(val', w, now' - age')
    BY <1>2 DEF WrittenBy, WrongType
  <2> QED
    BY <1>2, <2>1 DEF Outlasts, WrongType
<1>3. CASE Advance
  <2>1. now' - age' = now - age
    BY <1>1, <1>3 DEF Advance, InForce
  <2> QED
    BY <1>2, <1>3, <2>1 DEF Advance
<1>4. CASE StartWatch
  <2>1. PICK w \in history : WrittenBy(val, w, now)
    BY <1>1, <1>4 DEF StartWatch, Past
  <2>2. now' - age' = now
    BY <1>1, <1>4 DEF StartWatch, InForce
  <2> QED
    BY <1>4, <2>1, <2>2 DEF StartWatch
<1>5. CASE Expire
  BY <1>5 DEF Expire
<1>6. ASSUME NEW h \in Holders, NEW v \in history, Load(h, v)
      PROVE  \/ \E u \in span' : ~WrongType(val', u.algo)
             \/ \E w \in history' : WrittenBy(val', w, now' - age')
  BY <1>2, <1>6 DEF Load
<1>7. ASSUME NEW h \in Holders, Grant(h) PROVE \E u \in span' : ~WrongType(val', u.algo)
  <2>1. copy[h] \in span /\ ~WrongType(val', copy[h].algo)
    BY <1>7, GrantPast
  <2> QED
    BY <1>7, <2>1 DEF Grant
<1>8. ASSUME NEW h \in Holders, Deny(h) \/ Peek(h)
      PROVE  \/ \E u \in span' : ~WrongType(val', u.algo)
             \/ \E w \in history' : WrittenBy(val', w, now' - age')
  <2>1. val # Absent /\ val'.type = val.type /\ val'.expireAt = val.expireAt
    BY <1>8, LooksPast
  <2> QED
    BY <1>2, <1>8, <2>1 DEF Deny, Peek
<1>9. CASE UNCHANGED vars
  BY <1>2, <1>9 DEF vars
<1>10. ASSUME NEW h \in Holders, Fail(h)
       PROVE  \/ \E u \in span' : ~WrongType(val', u.algo)
              \/ \E w \in history' : WrittenBy(val', w, now' - age')
  BY <1>9, <1>10 DEF Fail
<1> QED
  BY <1>3, <1>4, <1>5, <1>6, <1>7, <1>8, <1>9, <1>10 DEF Next

\* fixed_window_multi.go and sliding_log_multi.go use different types: after a change
\* between the two, requests fail no longer than the longest time to live of a
\* version that stores what they meet.
THEOREM HotChangeErrorsPass == Spec => []ErrorsPass
<1>1. Known /\ Outlasts => ErrorsPass
  <2> SUFFICES ASSUME Known, Outlasts, NEW v \in history, span = {v}, WrongType(Stored, v.algo)
               PROVE  \E w \in history : ~WrongType(Stored, w.algo) /\ age <= LongestLife(w.algo, w)
    BY DEF ErrorsPass
  <2>1. Stored = val /\ val # Absent /\ now <= val.expireAt
    BY StoredIs DEF WrongType, Absent
  <2>2. PICK w \in history : WrittenBy(val, w, now - age)
    BY <2>1 DEF Outlasts
  <2>3. now \in Nat /\ age \in Nat /\ LongestLife(w.algo, w) \in Nat /\ val.expireAt \in Nat
    BY <2>1, VersionsValid, Lives DEF Known, InForce, Past, PastHash, PastLog
  <2> QED
    BY <2>1, <2>2, <2>3 DEF WrittenBy
<1>2. Init => Outlasts
  BY DEF Init, Outlasts
<1> QED
  BY <1>1, <1>2, AlwaysKnown, NextOutlasts, PTL DEF Spec

-----------------------------------------------------------------------------
(***************************************************************************)
(* Releases in order.                                                      *)
(***************************************************************************)
\* While a leaky bucket is the only version in force, the last release it promised
\* lies within the time in which its queue drains, and the key outlives that.
Promised(v) ==
    \/ due = 0
    \/ /\ val.type = "hash" /\ "level" \in DOMAIN val
       /\ val.expireAt >= val.last + CeilDiv(val.level, v.threshold)
       /\ due <= CeilDiv(LeakyNow(val, now, v), v.threshold)

\* This is so of every version that is alone in force.
PromisesHeld == \A v \in history : span = {v} /\ v.algo = "leaky_bucket" => Promised(v)

\* A queue drains by no more than the rate.
LEMMA Drains ==
    ASSUME NEW cfg, Valid(cfg), NEW t \in Nat, NEW v, Exists(v), v.level \in Nat,
           v.last \in Nat, v.last <= t
    PROVE  /\ LeakyNow(v, t, cfg) = Larger(0, v.level - (t - v.last) * cfg.threshold)
           /\ LeakyNow(v, t + 1, cfg) >= LeakyNow(v, t, cfg) - cfg.threshold
           /\ LeakyNow(v, t + 1, cfg) = Larger(0, LeakyNow(v, t, cfg) - cfg.threshold)
           /\ LeakyNow(v, t, cfg) \in Nat /\ LeakyNow(v, t + 1, cfg) \in Nat
<1> DEFINE thr == cfg.threshold
           d == t - v.last
<1>1. thr \in Nat /\ d \in Nat
  BY Sizes
<1>2. Larger(0, t - v.last) = d /\ Larger(0, t + 1 - v.last) = d + 1
  BY <1>1 DEF Larger
<1> HIDE DEF d
<1>3. (d + 1) * thr = d * thr + thr /\ d * thr \in Nat
  BY <1>1, Products
<1>4. LeakyNow(v, t, cfg) = IF d * thr >= v.level THEN 0 ELSE v.level - d * thr
  BY <1>2 DEF LeakyNow
<1>5. LeakyNow(v, t + 1, cfg) = IF (d + 1) * thr >= v.level THEN 0 ELSE v.level - (d + 1) * thr
  BY <1>2 DEF LeakyNow
<1> HIDE DEF thr
<1>6. LeakyNow(v, t, cfg) = Larger(0, v.level - d * thr)
  BY <1>3, <1>4 DEF Larger
<1>7. /\ LeakyNow(v, t + 1, cfg) >= LeakyNow(v, t, cfg) - thr
      /\ LeakyNow(v, t + 1, cfg) = Larger(0, LeakyNow(v, t, cfg) - thr)
      /\ LeakyNow(v, t, cfg) \in Nat /\ LeakyNow(v, t + 1, cfg) \in Nat
  BY <1>1, <1>3, <1>4, <1>5 DEF Larger
<1> QED
  BY <1>6, <1>7 DEF thr, d

\* A queue whose key has expired has drained.
LEMMA DrainedByExpiry ==
    ASSUME NEW cfg, Valid(cfg), NEW t \in Nat, NEW v, Exists(v), v.level \in Nat,
           v.last \in Nat, v.expireAt \in Nat,
           v.expireAt >= v.last + CeilDiv(v.level, cfg.threshold), t > v.expireAt
    PROVE  LeakyNow(v, t, cfg) = 0
<1> DEFINE thr == cfg.threshold
           q == CeilDiv(v.level, thr)
           d == t - v.last
<1>1. thr \in Nat \ {0}
  BY Sizes
<1>2. q \in Nat /\ q * thr >= v.level
  <2>1. v.level \in Int /\ v.level >= 0
    OBVIOUS
  <2> HIDE DEF thr
  <2> QED
    BY <1>1, <2>1, CeilDivFacts
<1> HIDE DEF q
<1>3. d \in Nat /\ q <= d /\ Larger(0, t - v.last) = d
  BY <1>2 DEF Larger, q
<1> HIDE DEF d
<1>4. q * thr <= d * thr /\ q * thr \in Nat /\ d * thr \in Nat
  BY <1>1, <1>2, <1>3, Products
<1>5. d * thr >= v.level
  <2> HIDE DEF thr
  <2> QED
    BY <1>2, <1>4
<1> QED
  BY <1>3, <1>5 DEF LeakyNow

\* Once the key is gone, so is every release.
LEMMA NoneDue ==
    ASSUME Known, NEW v \in history, Promised(v), Stored = Absent
    PROVE  due = 0
<1> SUFFICES ASSUME due # 0 PROVE FALSE
  OBVIOUS
<1>1. /\ val.type = "hash" /\ "level" \in DOMAIN val /\ due \in Nat /\ now \in Nat
      /\ val.expireAt >= val.last + CeilDiv(val.level, v.threshold)
      /\ due <= CeilDiv(LeakyNow(val, now, v), v.threshold)
  BY DEF Promised, Known, InForce
<1>2. val # Absent /\ Exists(val) /\ PastHash(val, now)
  <2>1. val # Absent /\ Exists(val)
    BY <1>1 DEF Absent, Exists
  <2> QED
    BY <1>1, <2>1 DEF Known, Past, PastLog
<1>3. val.level \in Nat /\ val.last \in Nat /\ val.expireAt \in Nat
  BY <1>1, <1>2 DEF PastHash
<1>4. now > val.expireAt
  BY <1>1, <1>2, <1>3 DEF Stored, Visible, Expired
<1>5. LeakyNow(val, now, v) = 0
  BY <1>1, <1>2, <1>3, <1>4, DrainedByExpiry, VersionsValid DEF Known, InForce
<1>6. CeilDiv(0, v.threshold) = 0
  <2>1. v.threshold \in Nat \ {0}
    BY VersionsValid, Sizes DEF Known, InForce
  <2>2. \A n \in Nat \ {0} : -((-0) \div n) = 0
    OBVIOUS
  <2> QED
    BY <2>1, <2>2 DEF CeilDiv
<1> QED
  BY <1>1, <1>5, <1>6

\* Every step keeps the promises.
LEMMA NextPromises == Known /\ PromisesHeld /\ [Next]_vars => PromisesHeld'
<1> SUFFICES ASSUME Known, PromisesHeld, [Next]_vars, NEW v \in history',
                    span' = {v}, v.algo = "leaky_bucket"
             PROVE  Promised(v)'
  BY DEF PromisesHeld
<1>1. /\ InForce /\ Past(val, now) /\ history' = history /\ v \in history
      /\ now \in Nat /\ due \in Nat
  BY DEF Known, InForce, Next, vars, Advance, StartWatch, Expire, Load, Grant, Deny, Fail, Peek
<1>2. Valid(v) /\ v.threshold \in Nat \ {0}
  BY <1>1, VersionsValid, Sizes DEF InForce
<1>3. ASSUME due' = 0 PROVE Promised(v)'
  BY <1>3 DEF Promised
<1>4. ASSUME span = {v}, val' = val, now' = now, due' = due PROVE Promised(v)'
  BY <1>1, <1>4 DEF PromisesHeld, Promised
<1>5. ASSUME span = {v}, val' = Absent, Stored = Absent, due' = due PROVE Promised(v)'
  <2>1. Promised(v)
    BY <1>1, <1>5 DEF PromisesHeld
  <2> QED
    BY <1>1, <1>3, <1>5, <2>1, NoneDue
<1>6. CASE Advance
  <2>1. span = {v} /\ val' = val /\ now' = now + 1 /\ due' = Larger(0, due - 1)
    BY <1>6 DEF Advance
  <2>2. Promised(v)
    BY <1>1, <2>1 DEF PromisesHeld
  <2>3. CASE due' = 0
    BY <1>3, <2>3
  <2>4. CASE due' # 0
    <3>1. due' = due - 1 /\ due # 0
      BY <1>1, <2>1, <2>4 DEF Larger
    <3>2. /\ val.type = "hash" /\ "level" \in DOMAIN val
          /\ val.expireAt >= val.last + CeilDiv(val.level, v.threshold)
          /\ due <= CeilDiv(LeakyNow(val, now, v), v.threshold)
      BY <2>2, <3>1 DEF Promised
    <3>3. Exists(val) /\ PastHash(val, now)
      BY <1>1, <3>2 DEF Exists, Past, PastLog, Absent
    <3>4. /\ LeakyNow(val, now + 1, v) >= LeakyNow(val, now, v) - v.threshold
          /\ LeakyNow(val, now, v) \in Nat /\ LeakyNow(val, now + 1, v) \in Nat
      BY <1>1, <1>2, <3>2, <3>3, Drains DEF PastHash
    <3> DEFINE x == LeakyNow(val, now, v)
               y == LeakyNow(val, now + 1, v)
               thr == v.threshold
    <3> HIDE DEF x, y, thr
    <3>5. CeilDiv(y, thr) >= CeilDiv(x, thr) + (-1)
      <4>1. (-1) * thr = -thr /\ thr \in Nat \ {0}
        BY <1>2 DEF thr
      <4>2. y >= x + (-1) * thr /\ x \in Int /\ y \in Int
        BY <3>4, <4>1 DEF x, y, thr
      <4> QED
        BY <4>1, <4>2, CeilDivShift
    <3>6. CeilDiv(x, thr) \in Int /\ CeilDiv(y, thr) \in Int
      <4>1. CeilDiv(x, thr) \in Nat /\ CeilDiv(y, thr) \in Nat
        BY <1>2, <3>4, CeilDivNat DEF x, y, thr
      <4> QED
        BY <4>1
    <3>7. due' <= CeilDiv(LeakyNow(val, now + 1, v), v.threshold)
      BY <1>1, <3>1, <3>2, <3>5, <3>6 DEF x, y, thr
    <3> QED
      BY <2>1, <3>2, <3>7 DEF Promised
  <2> QED
    BY <2>3, <2>4
<1>7. CASE StartWatch
  BY <1>3, <1>7 DEF StartWatch
<1>8. CASE Expire
  <2>1. Stored = Absent
    BY <1>8 DEF Expire, Stored, Visible
  <2> QED
    BY <1>5, <1>8, <2>1 DEF Expire
<1>9. ASSUME NEW h \in Holders, NEW w \in history, Load(h, w) PROVE Promised(v)'
  <2>1. span = {v}
    BY <1>1, <1>9 DEF Load, InForce
  <2> QED
    BY <1>4, <1>9, <2>1 DEF Load
<1>10. ASSUME NEW h \in Holders, Grant(h) PROVE Promised(v)'
  <2> DEFINE lv == LeakyNow(Found(h), now, v) + Second
  <2>1. span = {v} /\ copy[h] = v /\ now' = now
    BY <1>1, <1>10 DEF Grant, InForce
  <2>2. /\ lv \in Nat /\ lv >= Second /\ PastHash(val', now) /\ "level" \in DOMAIN val'
        /\ val'.level = lv /\ val'.last = now
        /\ val'.expireAt = now + LeakyDrainsIn(lv, v) + Second
        /\ due' = LeakyDrainsIn(lv, v)
    BY <1>10, <2>1, LeakyGrant
  <2> HIDE DEF lv
  <2>3. val'.type = "hash" /\ Exists(val')
    BY <2>2 DEF PastHash, Exists
  <2>4. /\ CeilDiv(val'.level, v.threshold) = LeakyDrainsIn(lv, v)
        /\ LeakyDrainsIn(lv, v) \in Nat /\ Second \in Nat
    BY <1>2, <2>2, Sizes, CeilDivFacts DEF LeakyDrainsIn
  <2>5. LeakyNow(val', now, v) = lv
    <3>1. LeakyNow(val', now, v) = Larger(0, val'.level - (now - val'.last) * v.threshold)
      BY <1>1, <1>2, <2>2, <2>3, Drains
    <3>2. (now - now) * v.threshold = 0
      BY <1>1, <1>2
    <3> QED
      BY <2>2, <3>1, <3>2 DEF Larger
  <2>6. val'.expireAt >= val'.last + CeilDiv(val'.level, v.threshold)
    BY <1>1, <2>2, <2>4
  <2>7. due' <= CeilDiv(LeakyNow(val', now, v), v.threshold)
    BY <2>2, <2>4, <2>5
  <2> QED
    BY <2>1, <2>2, <2>3, <2>6, <2>7 DEF Promised
<1>11. ASSUME NEW h \in Holders, Deny(h) \/ Peek(h) PROVE Promised(v)'
  <2>1. span = {v} /\ copy[h] = v /\ now' = now /\ due' = due
    BY <1>1, <1>11 DEF Deny, Peek, InForce
  <2>2. val' = Stored
    BY <1>11, <2>1, Looks DEF Algorithms
  <2> QED
    BY <1>4, <1>5, <2>1, <2>2, StoredIs
<1>12. CASE UNCHANGED vars
  BY <1>4, <1>12 DEF vars
<1>13. ASSUME NEW h \in Holders, Fail(h) PROVE Promised(v)'
  BY <1>12, <1>13 DEF Fail
<1> QED
  BY <1>6, <1>7, <1>8, <1>9, <1>10, <1>11, <1>12, <1>13 DEF Next

\* leaky_bucket_multi.go, once a change is complete: what is admitted later is released
\* later, at the new rate.
THEOREM HotChangeReleases == Spec => ReleaseInOrder
<1> DEFINE InOrder == \A v \in history :
                span = {v} /\ v.algo = "leaky_bucket" /\ taken' = taken + 1 =>
                    due' >= due + Second \div v.threshold
<1>1. Known /\ PromisesHeld /\ [Next]_vars => InOrder
  <2> SUFFICES ASSUME Known, PromisesHeld, [Next]_vars, NEW v \in history,
                      span = {v}, v.algo = "leaky_bucket", taken' = taken + 1
               PROVE  due' >= due + Second \div v.threshold
    OBVIOUS
  <2>1. Promised(v) /\ taken \in Nat /\ due \in Nat /\ now \in Nat
    BY DEF PromisesHeld, Known, InForce
  <2>2. PICK h \in Holders : Grant(h)
    <3>1. taken' = taken \/ taken' = 0 \/ \E h \in Holders : Grant(h)
      BY DEF Next, vars, Advance, StartWatch, Expire, Load, Deny, Fail, Peek
    <3> QED
      BY <2>1, <3>1
  <2>3. copy[h] = v
    BY DEF Known, InForce
  <2> DEFINE found == LeakyNow(Found(h), now, v)
             thr == v.threshold
             z == Second \div thr
  <2>4. thr \in Nat \ {0} /\ Second \in Nat \ {0} /\ Valid(v)
    BY VersionsValid, Sizes DEF Known, InForce
  <2>5. found + Second \in Nat /\ due' = CeilDiv(found + Second, thr)
    BY <2>2, <2>3, LeakyGrant DEF LeakyDrainsIn
  <2>6. FoundHash(Found(h), "level", now)
    BY <2>2, <2>3, Grants DEF Field
  <2>7. found \in Nat
    <3>1. Found(h) = Absent \/ (Exists(Found(h)) /\ Found(h).level \in Nat /\ Found(h).last \in Nat)
      BY <2>6 DEF FoundHash, PastHash, Exists
    <3> QED
      BY <2>1, <2>4, <3>1, WaterRange
  <2>8. z \in Int /\ z * thr <= Second
    <3> HIDE DEF thr
    <3> QED
      BY <2>4
  <2>9. CeilDiv(found + Second, thr) >= CeilDiv(found, thr) + z
    <3> HIDE DEF found, thr, z
    <3>1. found + Second \in Int /\ found \in Int /\ z * thr \in Int
      BY <2>4, <2>7, <2>8
    <3>2. found + Second >= found + z * thr
      BY <2>4, <2>7, <2>8, <3>1
    <3> QED
      BY <2>4, <2>8, <3>1, <3>2, CeilDivShift
  <2>10. CeilDiv(found, thr) \in Nat
    <3> HIDE DEF found, thr
    <3> QED
      BY <2>4, <2>7, CeilDivNat
  <2>11. due <= CeilDiv(found, thr)
    <3>1. CASE due = 0
      BY <2>10, <3>1
    <3>2. CASE due # 0
      <4>1. /\ val.type = "hash" /\ "level" \in DOMAIN val
            /\ due <= CeilDiv(LeakyNow(val, now, v), v.threshold)
        BY <2>1, <3>2 DEF Promised
      <4>2. Stored = val
        BY <2>1, <3>2, NoneDue, StoredIs
      <4>3. Found(h) = val
        BY <2>3, <4>1, <4>2 DEF Found, View, Field
      <4> QED
        BY <4>1, <4>3
    <3> QED
      BY <3>1, <3>2
  <2>12. z \in Int /\ due' \in Nat
    <3> HIDE DEF found, thr, z
    <3> QED
      BY <2>4, <2>5, <2>8, CeilDivNat
  <2>13. due' >= due + z
    <3> HIDE DEF found, z, thr
    <3> QED
      BY <2>1, <2>5, <2>9, <2>10, <2>11, <2>12
  <2> QED
    BY <2>13
<1>2. Init => PromisesHeld
  BY DEF Init, PromisesHeld, Promised
<1>3. ReleaseInOrder <=> [][InOrder]_vars
  BY DEF ReleaseInOrder
<1> QED
  BY <1>1, <1>2, <1>3, AlwaysKnown, NextPromises, PTL DEF Spec

-----------------------------------------------------------------------------
(***************************************************************************)
(* Denials are earned.                                                     *)
(***************************************************************************)
\* Every finite set of numbers has a greatest one.
LEMMA Greatest ==
    \A S \in SUBSET Nat : IsFiniteSet(S) /\ S # {} => \E m \in S : \A x \in S : m >= x
<1> DEFINE P(S) == S # {} => \E m \in S : \A x \in S : m >= x
           T == {n \in Nat : \A S \in SUBSET Nat : IsFiniteSet(S) /\ Cardinality(S) = n => P(S)}
<1>1. 0 \in T
  BY FS_EmptySet
<1>2. ASSUME NEW n \in Nat, n \in T PROVE n + 1 \in T
  <2> SUFFICES ASSUME NEW S \in SUBSET Nat, IsFiniteSet(S), Cardinality(S) = n + 1, S # {}
               PROVE  \E m \in S : \A x \in S : m >= x
    OBVIOUS
  <2>1. PICK y \in S : TRUE
    OBVIOUS
  <2> DEFINE R == S \ {y}
  <2>2. IsFiniteSet(R) /\ Cardinality(R) = n /\ R \in SUBSET Nat
    BY <2>1, FS_RemoveElement
  <2>3. P(R)
    BY <1>2, <2>2
  <2>4. CASE R = {}
    <3>1. \A x \in S : x = y
      BY <2>4
    <3> QED
      BY <2>1, <3>1
  <2>5. CASE R # {}
    <3>1. PICK m \in R : \A x \in R : m >= x
      BY <2>3, <2>5
    <3>2. y \in Nat /\ m \in Nat /\ \A x \in S : x \in Nat /\ (x = y \/ m >= x)
      BY <2>1, <3>1
    <3>3. CASE m >= y
      BY <3>1, <3>2, <3>3
    <3>4. CASE y > m
      <4>1. \A x \in S : y >= x
        BY <3>2, <3>4
      <4> QED
        BY <2>1, <4>1
    <3> QED
      BY <3>2, <3>3, <3>4
  <2> QED
    BY <2>4, <2>5
<1> HIDE DEF T
<1>3. \A n \in Nat : n \in T
  BY <1>1, <1>2, Induction
<1> QED
  <2> SUFFICES ASSUME NEW S \in SUBSET Nat, IsFiniteSet(S) PROVE P(S)
    OBVIOUS
  <2>1. Cardinality(S) \in Nat
    BY FS_CardinalityType
  <2> QED
    BY <1>3, <2>1 DEF T

\* The largest queue any version allows.
Largest(v) == v.burst * Second + Backlog(v)

\* No version's is larger.
LEMMA LargestFacts ==
    ASSUME InForce, NEW v \in history
    PROVE  /\ v.algo = "leaky_bucket" =>
                  Largest(v) \in Nat /\ \A w \in history : w.burst * Second <= Largest(v)
           /\ v.algo # "leaky_bucket" => Backlog(v) = 0
<1> DEFINE B == {w.burst : w \in history}
           f == [w \in history |-> w.burst]
<1>1. history \in Histories /\ IsFiniteSet(history)
  BY HotChangeAssumption DEF InForce
<1>2. B \in SUBSET Nat /\ B # {} /\ Second \in Nat /\ v.burst \in Nat
  BY <1>1, VersionsValid, HotChangeAssumption DEF Valid
<1>3. IsFiniteSet(B)
  <2>1. f \in Surjection(history, B)
    BY DEF Surjection
  <2> QED
    BY <1>1, <2>1, FS_Surjection
<1>4. \E m \in B : \A x \in B : m >= x
  BY <1>2, <1>3, Greatest
<1>5. Max(B) \in B /\ \A x \in B : Max(B) >= x
  BY <1>4 DEF Max
<1>6. v.algo = "leaky_bucket" => Backlog(v) = (Max(B) - v.burst) * Second
  BY DEF Backlog
<1> DEFINE top == Max(B)
<1>7. top \in Nat /\ \A w \in history : w.burst \in Nat /\ w.burst <= top
  BY <1>2, <1>5
<1> HIDE DEF B, top
<1>8. \A m \in Nat : m <= top => m * Second <= top * Second
  BY <1>2, <1>7, Products
<1>9. v.burst * Second + (top - v.burst) * Second = top * Second /\ top * Second \in Nat
  BY <1>2, <1>7, Products
<1>10. v.algo = "leaky_bucket" => Largest(v) = top * Second
  BY <1>6, <1>9 DEF Largest, top
<1> QED
  BY <1>7, <1>8, <1>9, <1>10 DEF Backlog

\* What the script of v may find at t.
Finds(f, t, v) ==
    f # Absent =>
        /\ v.algo # "sliding_log" => PastHash(f, t) /\ Field(v.algo) \in DOMAIN f
        /\ v.algo = "sliding_log" => PastLog(f, t)

\* The entries of a log that a stop-watch at a has seen.
Seen(f, t, a) == IF Exists(f) THEN {e \in f.entries : e.at > t - a} ELSE {}

(***************************************************************************)
(* What is missing where a script finds f has been taken by the n requests *)
(* that a stop-watch at a has seen, as far as it was there when the stop-  *)
(* watch was started.                                                      *)
(***************************************************************************)
\* The tokens of a token bucket.
TokensEarned(f, n, t, a, v) ==
    n * Second + TokenNow(f, t, v) >= Smaller(TokenFull(v), v.threshold * a)

\* The room of a leaky bucket.
WaterEarned(f, n, t, a, v) ==
    n * Second + Largest(v) - LeakyNow(f, t, v) >= Smaller(Largest(v), v.threshold * a)

\* The count of a fixed window that began since then.
CountEarned(f, n, t, a, v) ==
    a > t - WindowStart(t, FixedLength(v)) => n >= FixedCount(f, t, v)

\* The counts of the sliding windows that began since then.
CountsEarned(f, n, t, a, v) ==
    LET c == SlidingCounts(f, t, v)
        r == t - SlidingStart(t, v)
    IN  /\ a > r => n >= c.ca
        /\ a > r + SlidingLength(v) => n >= c.ca + c.cb

\* The entries of a log.
LogEarned(f, n, t, a, v) == Cardinality(Seen(f, t, a)) <= n

\* What is missing of one version's allowance has been taken.
EarnedIn(f, n, t, a, v) ==
    /\ v.algo = "token_bucket"   => TokensEarned(f, n, t, a, v)
    /\ v.algo = "leaky_bucket"   => WaterEarned(f, n, t, a, v)
    /\ v.algo = "fixed_window"   => CountEarned(f, n, t, a, v)
    /\ v.algo = "sliding_window" => CountsEarned(f, n, t, a, v)
    /\ v.algo = "sliding_log"    => LogEarned(f, n, t, a, v)

\* A key that holds nothing refuses nothing.
LEMMA AbsentEarned ==
    ASSUME InForce, NEW v \in history, NEW n \in Nat, NEW t \in Nat, NEW a \in Nat
    PROVE  EarnedIn(Absent, n, t, a, v)
<1>1. Valid(v) /\ TokenFull(v) \in Nat /\ v.threshold \in Nat /\ Second \in Nat
  BY VersionsValid, Sizes DEF InForce
<1>2. n * Second \in Nat /\ v.threshold * a \in Nat
  BY <1>1, NatProducts
<1>3. /\ TokenNow(Absent, t, v) = TokenFull(v) /\ LeakyNow(Absent, t, v) = 0
      /\ FixedCount(Absent, t, v) = 0 /\ SlidingCounts(Absent, t, v) = [ca |-> 0, cb |-> 0]
      /\ Seen(Absent, t, a) = {}
  BY DEF TokenNow, LeakyNow, FixedCount, SlidingCounts, Seen, Exists, Absent
<1>4. TokensEarned(Absent, n, t, a, v)
  BY <1>1, <1>2, <1>3 DEF TokensEarned, Smaller
<1>5. v.algo = "leaky_bucket" => WaterEarned(Absent, n, t, a, v)
  <2>1. v.algo = "leaky_bucket" => Largest(v) \in Nat
    BY LargestFacts
  <2> QED
    BY <1>1, <1>2, <1>3, <2>1 DEF WaterEarned, Smaller
<1>6. CountEarned(Absent, n, t, a, v) /\ CountsEarned(Absent, n, t, a, v)
  BY <1>3 DEF CountEarned, CountsEarned
<1>7. LogEarned(Absent, n, t, a, v)
  BY <1>3, FS_EmptySet DEF LogEarned
<1> QED
  BY <1>4, <1>5, <1>6, <1>7 DEF EarnedIn

\* A stop-watch that starts has seen nothing.
LEMMA StartEarned ==
    ASSUME InForce, NEW v \in history, NEW t \in Nat, NEW f, Finds(f, t, v)
    PROVE  EarnedIn(f, 0, t, 0, v)
<1> SUFFICES ASSUME f # Absent PROVE EarnedIn(f, 0, t, 0, v)
  BY AbsentEarned
<1>1. Valid(v) /\ TokenFull(v) \in Nat /\ v.threshold \in Nat /\ Second \in Nat
  BY VersionsValid, Sizes DEF InForce
<1>2. 0 * Second = 0 /\ v.threshold * 0 = 0
  BY <1>1
<1>3. v.algo = "token_bucket" => TokensEarned(f, 0, t, 0, v)
  <2> SUFFICES ASSUME v.algo = "token_bucket" PROVE TokensEarned(f, 0, t, 0, v)
    OBVIOUS
  <2>1. Exists(f) /\ f.tokens \in Nat /\ f.last \in Nat
    BY DEF Finds, PastHash, Field, Exists
  <2>2. TokenNow(f, t, v) \in 0 .. TokenFull(v)
    BY <1>1, <2>1, TokensRange
  <2> QED
    BY <1>1, <1>2, <2>2 DEF TokensEarned, Smaller
<1>4. v.algo = "leaky_bucket" => WaterEarned(f, 0, t, 0, v)
  <2> SUFFICES ASSUME v.algo = "leaky_bucket" PROVE WaterEarned(f, 0, t, 0, v)
    OBVIOUS
  <2>1. Exists(f) /\ f.level \in Nat /\ f.last \in Nat /\ \E w \in history : f.level <= w.burst * Second
    BY DEF Finds, PastHash, Field, Exists
  <2>2. LeakyNow(f, t, v) \in Nat /\ LeakyNow(f, t, v) <= f.level
    BY <1>1, <2>1, WaterRange
  <2>3. Largest(v) \in Nat /\ \A w \in history : w.burst * Second <= Largest(v)
    BY LargestFacts
  <2>4. \A w \in history : w.burst * Second \in Nat
    BY VersionsValid, Sizes DEF InForce
  <2>5. f.level <= Largest(v)
    BY <2>1, <2>3, <2>4
  <2> QED
    BY <1>1, <1>2, <2>1, <2>2, <2>3, <2>5 DEF WaterEarned, Smaller
<1>5. CountEarned(f, 0, t, 0, v)
  <2>1. WindowStart(t, FixedLength(v)) \in Nat /\ WindowStart(t, FixedLength(v)) <= t
    BY <1>1, Sizes, WindowFacts
  <2> QED
    BY <2>1 DEF CountEarned
<1>6. CountsEarned(f, 0, t, 0, v)
  <2>1. SlidingStart(t, v) \in Nat /\ SlidingStart(t, v) <= t /\ SlidingLength(v) \in Nat
    BY <1>1, Sizes, WindowFacts DEF SlidingStart
  <2> QED
    BY <2>1 DEF CountsEarned
<1>7. v.algo = "sliding_log" => LogEarned(f, 0, t, 0, v)
  <2> SUFFICES ASSUME v.algo = "sliding_log" PROVE LogEarned(f, 0, t, 0, v)
    OBVIOUS
  <2>1. \A e \in f.entries : e.at \in Nat /\ e.at <= t
    BY DEF Finds, PastLog
  <2>2. Seen(f, t, 0) = {}
    BY <2>1 DEF Seen
  <2> QED
    BY <2>2, FS_EmptySet DEF LogEarned
<1> QED
  BY <1>3, <1>4, <1>5, <1>6, <1>7 DEF EarnedIn

\* A bucket of tokens refills at the rate.
LEMMA Refills ==
    ASSUME NEW cfg, Valid(cfg), NEW t \in Nat, NEW v, Exists(v), v.tokens \in Nat,
           v.last \in Nat, v.last <= t
    PROVE  /\ TokenNow(v, t, cfg) = Smaller(TokenFull(cfg), v.tokens + (t - v.last) * cfg.threshold)
           /\ TokenNow(v, t + 1, cfg)
                  = Smaller(TokenFull(cfg), TokenNow(v, t, cfg) + cfg.threshold)
           /\ TokenNow(v, t, cfg) \in Nat
<1> DEFINE thr == cfg.threshold
           full == TokenFull(cfg)
           d == t - v.last
<1>1. thr \in Nat /\ d \in Nat /\ full \in Nat
  BY Sizes
<1>2. Larger(0, t - v.last) = d /\ Larger(0, t + 1 - v.last) = d + 1
  BY <1>1 DEF Larger
<1> HIDE DEF d, full
<1>3. (d + 1) * thr = d * thr + thr /\ d * thr \in Nat
  BY <1>1, Products
<1>4. /\ TokenNow(v, t, cfg) = Smaller(full, v.tokens + d * thr)
      /\ TokenNow(v, t + 1, cfg) = Smaller(full, v.tokens + (d + 1) * thr)
  BY <1>2 DEF TokenNow, full
<1> HIDE DEF thr
<1>5. TokenNow(v, t + 1, cfg) = Smaller(full, TokenNow(v, t, cfg) + thr)
  BY <1>1, <1>3, <1>4 DEF Smaller
<1>6. TokenNow(v, t, cfg) \in Nat
  BY <1>1, <1>3, <1>4 DEF Smaller
<1> QED
  BY <1>4, <1>5, <1>6 DEF thr, d, full

\* The counts of a sliding window a unit of time later: the same, or at the seam the
\* current one becomes the previous one.
LEMMA CountsLater ==
    ASSUME NEW v, Valid(v), NEW t \in Nat, NEW f, f = Absent \/ (f.a \in Nat /\ f.a <= t),
           f = Absent \/ (f.ca \in Nat /\ f.cb \in Nat)
    PROVE  LET W == SlidingLength(v)
               s == SlidingStart(t, v)
               z == SlidingStart(t + 1, v)
               c == SlidingCounts(f, t, v)
               d == SlidingCounts(f, t + 1, v)
           IN  /\ W \in Nat \ {0} /\ s \in Nat /\ s <= t /\ t < s + W
               /\ c.ca \in Nat /\ c.cb \in Nat
               /\ \/ z = s /\ t + 1 < s + W /\ d = c
                  \/ z = s + W /\ z = t + 1 /\ d = [ca |-> 0, cb |-> c.ca]
<1> DEFINE W == SlidingLength(v)
           s == WindowStart(t, W)
           z == WindowStart(t + 1, W)
           c == SlidingCounts(f, t, v)
           d == SlidingCounts(f, t + 1, v)
<1>1. W \in Nat \ {0}
  BY Sizes
<1>2. s = SlidingStart(t, v) /\ z = SlidingStart(t + 1, v)
  BY DEF SlidingStart
<1>3. /\ s \in Nat /\ s <= t /\ t < s + W /\ (z = s \/ z = s + W)
      /\ t + 1 < z + W /\ z <= t + 1
  <2> HIDE DEF W
  <2> QED
    BY <1>1, NextStart
<1>4. /\ c = IF ~Exists(f) THEN [ca |-> 0, cb |-> 0]
             ELSE IF f.a = s - W THEN [ca |-> 0, cb |-> f.ca]
             ELSE IF f.a = s THEN [ca |-> f.ca, cb |-> f.cb]
             ELSE [ca |-> 0, cb |-> 0]
      /\ d = IF ~Exists(f) THEN [ca |-> 0, cb |-> 0]
             ELSE IF f.a = z - W THEN [ca |-> 0, cb |-> f.ca]
             ELSE IF f.a = z THEN [ca |-> f.ca, cb |-> f.cb]
             ELSE [ca |-> 0, cb |-> 0]
  BY <1>2 DEF SlidingCounts
<1> HIDE DEF W, s, z, c, d
<1>5. CASE f = Absent
  <2>1. ~Exists(f)
    BY <1>5 DEF Exists, Absent
  <2>2. c = [ca |-> 0, cb |-> 0] /\ d = [ca |-> 0, cb |-> 0]
    BY <1>4, <2>1
  <2>3. \/ z = s /\ t + 1 < s + W
        \/ z = s + W /\ z = t + 1
    BY <1>1, <1>3
  <2> QED
    BY <1>1, <1>2, <1>3, <2>2, <2>3 DEF W, s, z, c, d
<1>6. CASE f # Absent
  <2>1. f.a \in Nat /\ f.a <= t /\ f.ca \in Nat /\ f.cb \in Nat
    BY <1>6
  <2>2. c.ca \in Nat /\ c.cb \in Nat
    BY <1>4, <2>1
  <2>3. CASE z = s
    <3>1. d = c /\ t + 1 < s + W
      BY <1>3, <1>4, <2>3
    <3> QED
      BY <1>1, <1>2, <1>3, <2>2, <2>3, <3>1 DEF W, s, z, c, d
  <2>4. CASE z = s + W
    <3>1. z = t + 1 /\ z - W = s /\ f.a # z /\ s # s - W
      BY <1>1, <1>3, <2>1, <2>4
    <3>2. d = [ca |-> 0, cb |-> c.ca]
      <4>1. CASE ~Exists(f)
        BY <1>4, <4>1
      <4>2. CASE Exists(f)
        BY <1>4, <3>1, <4>2
      <4> QED
        BY <4>1, <4>2
    <3> QED
      BY <1>1, <1>2, <1>3, <2>2, <2>4, <3>1, <3>2 DEF W, s, z, c, d
  <2> QED
    BY <1>3, <2>3, <2>4
<1> QED
  BY <1>5, <1>6

\* Time passes.
LEMMA LaterEarned ==
    ASSUME InForce, NEW v \in history, NEW t \in Nat, NEW n \in Nat, NEW a \in Nat,
           NEW f, Finds(f, t, v), EarnedIn(f, n, t, a, v)
    PROVE  EarnedIn(f, n, t + 1, a + 1, v)
<1> SUFFICES ASSUME f # Absent PROVE EarnedIn(f, n, t + 1, a + 1, v)
  BY AbsentEarned
<1>1. Valid(v) /\ TokenFull(v) \in Nat /\ v.threshold \in Nat /\ Second \in Nat
  BY VersionsValid, Sizes DEF InForce
<1> DEFINE thr == v.threshold
<1>2. n * Second \in Nat /\ thr * a \in Nat /\ thr * (a + 1) = thr * a + thr
  BY <1>1, Products
<1>3. v.algo = "token_bucket" => TokensEarned(f, n, t + 1, a + 1, v)
  <2> SUFFICES ASSUME v.algo = "token_bucket" PROVE TokensEarned(f, n, t + 1, a + 1, v)
    OBVIOUS
  <2> DEFINE x == TokenNow(f, t, v)
             y == TokenNow(f, t + 1, v)
             full == TokenFull(v)
  <2>1. Exists(f) /\ f.tokens \in Nat /\ f.last \in Nat /\ f.last <= t
    BY DEF Finds, PastHash, Field, Exists
  <2>2. y = Smaller(full, x + thr) /\ x \in Nat
    BY <1>1, <2>1, Refills
  <2>3. n * Second + x >= Smaller(full, thr * a)
    BY DEF EarnedIn, TokensEarned
  <2> HIDE DEF x, y, thr, full
  <2>4. n * Second + y >= Smaller(full, thr * (a + 1))
    BY <1>1, <1>2, <2>2, <2>3 DEF Smaller, thr, full
  <2> QED
    BY <2>4 DEF TokensEarned, y, thr, full
<1>4. v.algo = "leaky_bucket" => WaterEarned(f, n, t + 1, a + 1, v)
  <2> SUFFICES ASSUME v.algo = "leaky_bucket" PROVE WaterEarned(f, n, t + 1, a + 1, v)
    OBVIOUS
  <2> DEFINE x == LeakyNow(f, t, v)
             y == LeakyNow(f, t + 1, v)
             full == Largest(v)
  <2>1. Exists(f) /\ f.level \in Nat /\ f.last \in Nat /\ f.last <= t
    BY DEF Finds, PastHash, Field, Exists
  <2>2. y = Larger(0, x - thr) /\ x \in Nat
    BY <1>1, <2>1, Drains
  <2>3. n * Second + full - x >= Smaller(full, thr * a)
    BY DEF EarnedIn, WaterEarned
  <2>4. full \in Nat
    BY LargestFacts
  <2> HIDE DEF x, y, thr, full
  <2>5. n * Second + full - y >= Smaller(full, thr * (a + 1))
    BY <1>1, <1>2, <2>2, <2>3, <2>4 DEF Smaller, Larger, thr
  <2> QED
    BY <2>5 DEF WaterEarned, y, thr, full
<1>5. v.algo = "fixed_window" => CountEarned(f, n, t + 1, a + 1, v)
  <2> SUFFICES ASSUME v.algo = "fixed_window" PROVE CountEarned(f, n, t + 1, a + 1, v)
    OBVIOUS
  <2> DEFINE W == FixedLength(v)
             s == WindowStart(t, W)
             z == WindowStart(t + 1, W)
  <2>1. W \in Nat \ {0}
    BY <1>1, Sizes
  <2>2. s \in Nat /\ s <= t /\ t < s + W /\ (z = s \/ z = s + W)
    <3> HIDE DEF W
    <3> QED
      BY <2>1, NextStart
  <2>3. f.w \in Nat /\ f.w <= t /\ f.c \in Nat
    BY DEF Finds, PastHash, Field
  <2>4. /\ FixedCount(f, t, v) = IF Exists(f) /\ f.w = s THEN f.c ELSE 0
        /\ FixedCount(f, t + 1, v) = IF Exists(f) /\ f.w = z THEN f.c ELSE 0
    BY DEF FixedCount
  <2>5. a > t - s => n >= FixedCount(f, t, v)
    BY DEF EarnedIn, CountEarned
  <2> HIDE DEF W, s, z
  <2>6. CASE z = s
    <3>1. a + 1 > (t + 1) - z => n >= FixedCount(f, t + 1, v)
      BY <2>2, <2>4, <2>5, <2>6
    <3>2. CountEarned(f, n, t + 1, a + 1, v)
             <=> (a + 1 > (t + 1) - z => n >= FixedCount(f, t + 1, v))
      BY ZenonT(30) DEF CountEarned, z, W
    <3> QED
      BY <3>1, <3>2
  <2>7. CASE z = s + W
    <3>1. f.w # z
      BY <2>1, <2>2, <2>3, <2>7
    <3>2. FixedCount(f, t + 1, v) = 0
      BY <2>4, <3>1
    <3> QED
      BY <3>2 DEF CountEarned
  <2> QED
    BY <2>2, <2>6, <2>7
<1>6. v.algo = "sliding_window" => CountsEarned(f, n, t + 1, a + 1, v)
  <2> SUFFICES ASSUME v.algo = "sliding_window" PROVE CountsEarned(f, n, t + 1, a + 1, v)
    OBVIOUS
  <2> DEFINE W == SlidingLength(v)
             s == SlidingStart(t, v)
             z == SlidingStart(t + 1, v)
             c == SlidingCounts(f, t, v)
             d == SlidingCounts(f, t + 1, v)
  <2>1. f.a \in Nat /\ f.a <= t /\ f.ca \in Nat /\ f.cb \in Nat
    BY DEF Finds, PastHash, Field
  <2>2. /\ W \in Nat \ {0} /\ s \in Nat /\ s <= t /\ t < s + W
        /\ c.ca \in Nat /\ c.cb \in Nat
        /\ \/ z = s /\ t + 1 < s + W /\ d = c
           \/ z = s + W /\ z = t + 1 /\ d = [ca |-> 0, cb |-> c.ca]
    BY <1>1, <2>1, CountsLater
  <2>3. (a > t - s => n >= c.ca) /\ (a > (t - s) + W => n >= c.ca + c.cb)
    BY DEF EarnedIn, CountsEarned
  <2> HIDE DEF W, s, z, c, d
  <2>4. /\ a + 1 > (t + 1) - z => n >= d.ca
        /\ a + 1 > ((t + 1) - z) + W => n >= d.ca + d.cb
    <3>1. CASE z = s /\ d = c
      BY <2>2, <2>3, <3>1
    <3>2. CASE z = s + W /\ z = t + 1 /\ d = [ca |-> 0, cb |-> c.ca]
      <4>1. d.ca = 0 /\ d.cb = c.ca
        BY <3>2
      <4> QED
        BY <2>2, <2>3, <3>2, <4>1
    <3> QED
      BY <2>2, <3>1, <3>2
  <2> QED
    BY <2>4 DEF CountsEarned, W, z, d
<1>7. v.algo = "sliding_log" => LogEarned(f, n, t + 1, a + 1, v)
  <2> SUFFICES ASSUME v.algo = "sliding_log" PROVE LogEarned(f, n, t + 1, a + 1, v)
    OBVIOUS
  <2>1. (t + 1) - (a + 1) = t - a
    OBVIOUS
  <2>2. Seen(f, t + 1, a + 1) = Seen(f, t, a)
    BY <2>1 DEF Seen
  <2> QED
    BY <2>2 DEF EarnedIn, LogEarned
<1> QED
  BY <1>3, <1>4, <1>5, <1>6, <1>7 DEF EarnedIn


\* The script of v finds f, whatever may be in it.
EarnedWith(f, n, t, a, v) ==
    WrongType(f, v.algo) \/ EarnedIn(View(f, v.algo), n, t, a, v)

\* The version that alone is in force refuses only what has been earned.
Earned == \A v \in history : span = {v} => EarnedWith(Stored, taken, now, age, v)

\* What the script of v finds, if it does not fail.
LEMMA FindsStored ==
    ASSUME Known, NEW v \in history, ~WrongType(Stored, v.algo)
    PROVE  Finds(View(Stored, v.algo), now, v)
<1>1. v.algo \in Algorithms
  BY VersionsValid DEF Known, InForce, Valid
<1> QED
  BY <1>1, FoundIs DEF Finds, FoundHash

\* The number of finitely many entries, and of some of them.
LEMMA FewerEntries ==
    ASSUME NEW A, NEW B, A \subseteq B, IsFiniteSet(B)
    PROVE  /\ IsFiniteSet(A) /\ Cardinality(A) \in Nat /\ Cardinality(B) \in Nat
           /\ Cardinality(A) <= Cardinality(B)
  BY FS_Subset, FS_CardinalityType

\* A request is admitted.
LEMMA GrantEarned ==
    ASSUME Known, NEW h \in Holders, Grant(h), NEW v \in history, copy[h] = v,
           EarnedWith(Stored, taken, now, age, v)
    PROVE  EarnedWith(val', taken + 1, now, age, v)
<1> DEFINE f == View(Stored, v.algo)
           n == taken
           thr == v.threshold
<1>1. /\ v.algo \in Algorithms /\ Valid(v) /\ InForce /\ Found(h) = f
      /\ ~WrongType(Stored, v.algo)
  BY Grants DEF Found, Known
<1>2. EarnedIn(f, n, now, age, v) /\ Finds(f, now, v)
  BY <1>1, FindsStored DEF EarnedWith
<1>3. /\ n \in Nat /\ age \in Nat /\ now \in Nat
      /\ TokenFull(v) \in Nat /\ thr \in Nat /\ Second \in Nat
  BY <1>1, Sizes DEF InForce
<1>4. /\ n * Second \in Nat /\ (n + 1) * Second = n * Second + Second
      /\ thr * age \in Nat /\ (now - now) * thr = 0
  BY <1>3, Products
<1>5. ASSUME v.algo = "token_bucket" PROVE EarnedWith(val', n + 1, now, age, v)
  <2> DEFINE x == TokenNow(f, now, v)
             y == TokenNow(val', now, v)
             full == TokenFull(v)
  <2>1. /\ x - Second \in Nat /\ x - Second <= full - Second
        /\ PastHash(val', now) /\ "tokens" \in DOMAIN val'
        /\ val'.tokens = x - Second /\ val'.last = now
    BY <1>1, <1>5, TokenGrant
  <2>2. y = Smaller(full, (x - Second) + (now - now) * thr)
    <3>1. Exists(val') /\ val'.tokens \in Nat /\ val'.last \in Nat /\ val'.last <= now
      BY <1>3, <2>1 DEF PastHash, Exists
    <3>2. y = Smaller(full, val'.tokens + (now - val'.last) * thr)
      BY <1>1, <1>3, <3>1, Refills
    <3> QED
      BY <2>1, <3>2
  <2>3. View(val', v.algo) = val'
    BY <1>5, <2>1 DEF View, Field
  <2>4. n * Second + x >= Smaller(full, thr * age)
    BY <1>2, <1>5 DEF EarnedIn, TokensEarned
  <2>7. full \in Nat /\ x \in Nat
    <3>1. f = Absent \/ (Exists(f) /\ f.tokens \in Nat /\ f.last \in Nat)
      BY <1>2, <1>5 DEF Finds, PastHash, Field, Exists
    <3> QED
      BY <1>1, <1>3, <3>1, TokensRange
  <2> HIDE DEF x, y, full
  <2>5. (n + 1) * Second + y >= Smaller(full, thr * age)
    <3> DEFINE p == n * Second
               q == thr * age
    <3>1. p \in Nat /\ q \in Nat /\ (n + 1) * Second = p + Second
      BY <1>4
    <3>2. y = Smaller(full, x - Second)
      BY <1>4, <2>1, <2>2
    <3> HIDE DEF p, q
    <3>3. p + x >= Smaller(full, q)
      BY <2>4 DEF p, q
    <3>4. p + Second + y >= Smaller(full, q)
      BY <1>3, <2>1, <2>7, <3>1, <3>2, <3>3 DEF Smaller
    <3> QED
      BY <3>1, <3>4 DEF q
  <2>6. TokensEarned(val', n + 1, now, age, v)
    BY <2>5 DEF TokensEarned, y, full
  <2> QED
    BY <1>5, <2>3, <2>6 DEF EarnedWith, EarnedIn
<1>6. ASSUME v.algo = "leaky_bucket" PROVE EarnedWith(val', n + 1, now, age, v)
  <2> DEFINE x == LeakyNow(f, now, v)
             y == LeakyNow(val', now, v)
             full == Largest(v)
  <2>1. /\ x + Second \in Nat /\ PastHash(val', now) /\ "level" \in DOMAIN val'
        /\ val'.level = x + Second /\ val'.last = now
    BY <1>1, <1>6, LeakyGrant
  <2>2. y = Larger(0, (x + Second) - (now - now) * thr)
    <3>1. Exists(val') /\ val'.level \in Nat /\ val'.last \in Nat /\ val'.last <= now
      BY <1>3, <2>1 DEF PastHash, Exists
    <3>2. y = Larger(0, val'.level - (now - val'.last) * thr)
      BY <1>1, <1>3, <3>1, Drains
    <3> QED
      BY <2>1, <3>2
  <2>3. View(val', v.algo) = val'
    BY <1>6, <2>1 DEF View, Field
  <2>4. n * Second + full - x >= Smaller(full, thr * age)
    BY <1>2, <1>6 DEF EarnedIn, WaterEarned
  <2>5. full \in Nat /\ x \in Int
    <3>1. f = Absent \/ (Exists(f) /\ f.level \in Nat /\ f.last \in Nat)
      BY <1>2, <1>6 DEF Finds, PastHash, Field, Exists
    <3> QED
      BY <1>1, <1>3, <1>6, <3>1, LargestFacts, WaterRange
  <2> HIDE DEF x, y, full
  <2>6. (n + 1) * Second + full - y >= Smaller(full, thr * age)
    BY <1>3, <1>4, <2>1, <2>2, <2>4, <2>5 DEF Smaller, Larger
  <2>7. WaterEarned(val', n + 1, now, age, v)
    BY <2>6 DEF WaterEarned, y, full
  <2> QED
    BY <1>6, <2>3, <2>7 DEF EarnedWith, EarnedIn
<1>7. ASSUME v.algo = "fixed_window" PROVE EarnedWith(val', n + 1, now, age, v)
  <2> DEFINE c == FixedCount(f, now, v)
  <2>1. /\ c + 1 \in Nat /\ PastHash(val', now) /\ "w" \in DOMAIN val'
        /\ val'.c = c + 1 /\ val'.w = WindowStart(now, FixedLength(v))
    BY <1>1, <1>7, FixedGrant
  <2>2. View(val', v.algo) = val' /\ Exists(val')
    BY <1>7, <2>1 DEF View, Field, PastHash, Exists
  <2>3. FixedCount(val', now, v) = c + 1
    BY <2>1, <2>2 DEF FixedCount
  <2>4. age > now - WindowStart(now, FixedLength(v)) => n >= c
    BY <1>2, <1>7 DEF EarnedIn, CountEarned
  <2>5. c \in Int
    <3>1. f # Absent => f.c \in Nat
      BY <1>2, <1>7 DEF Finds, PastHash, Field
    <3> QED
      BY <3>1 DEF FixedCount, Exists, Absent
  <2> HIDE DEF c
  <2>6. CountEarned(val', n + 1, now, age, v)
    BY <1>3, <2>3, <2>4, <2>5 DEF CountEarned
  <2> QED
    BY <1>7, <2>2, <2>6 DEF EarnedWith, EarnedIn
<1>8. ASSUME v.algo = "sliding_window" PROVE EarnedWith(val', n + 1, now, age, v)
  <2> DEFINE c == SlidingCounts(f, now, v)
             d == SlidingCounts(val', now, v)
             s == SlidingStart(now, v)
             W == SlidingLength(v)
  <2>1. /\ c.ca \in Nat /\ c.cb \in Nat /\ PastHash(val', now) /\ "a" \in DOMAIN val'
        /\ val'.ca = c.ca + 1 /\ val'.cb = c.cb /\ val'.a = s
    BY <1>1, <1>8, SlidingGrant
  <2>2. View(val', v.algo) = val' /\ Exists(val')
    BY <1>8, <2>1 DEF View, Field, PastHash, Exists
  <2>3. W \in Nat \ {0} /\ s \in Nat
    BY <1>1, <1>3, Sizes, WindowFacts DEF SlidingStart
  <2>4. (age > now - s => n >= c.ca) /\ (age > (now - s) + W => n >= c.ca + c.cb)
    BY <1>2, <1>8 DEF EarnedIn, CountsEarned
  <2>5. d = [ca |-> val'.ca, cb |-> val'.cb]
    <3> HIDE DEF s, W
    <3>1. s # s - W
      BY <2>3
    <3> QED
      BY <2>1, <2>2, <3>1 DEF SlidingCounts, s, W
  <2> HIDE DEF c, d, s, W
  <2>6. d.ca = c.ca + 1 /\ d.cb = c.cb
    BY <2>1, <2>5
  <2>7. /\ age > now - s => n + 1 >= d.ca
        /\ age > (now - s) + W => n + 1 >= d.ca + d.cb
    BY <1>3, <2>1, <2>3, <2>4, <2>6
  <2>8. CountsEarned(val', n + 1, now, age, v)
    BY <2>7, ZenonT(30) DEF CountsEarned, d, s, W
  <2> QED
    BY <1>8, <2>2, <2>8 DEF EarnedWith, EarnedIn
<1>9. ASSUME v.algo = "sliding_log" PROVE EarnedWith(val', n + 1, now, age, v)
  <2> DEFINE kept == LogKept(Stored, now, v)
             new == [at |-> now, id |-> FreshNonce]
             A == Seen(f, now, age)
             B == Seen(val', now, age)
  <2>1. PastLog(val', now) /\ val'.entries = {e \in kept : e.id # FreshNonce} \cup {new}
    BY <1>9, LogGrant
  <2>2. val'.type = "zset" /\ Exists(val')
    BY <2>1 DEF PastLog, Exists
  <2>3. View(val', v.algo) = val' /\ f = Stored
    <3>1. f = Stored
      BY <1>1, <1>9, FoundIs
    <3> QED
      BY <2>2, <3>1 DEF View
  <2>4. IsFiniteSet(A)
    <3>1. Exists(f) => IsFiniteSet(f.entries)
      BY <1>2, <1>9 DEF Finds, PastLog, Exists, Absent
    <3> QED
      BY <3>1, FS_Subset, FS_EmptySet DEF Seen
  <2>5. B \subseteq A \cup {new}
    <3>1. kept \subseteq (IF Exists(f) THEN f.entries ELSE {})
      BY <2>3 DEF LogKept
    <3> HIDE DEF kept, new, f
    <3> QED
      BY <2>1, <2>2, <3>1 DEF Seen
  <2> HIDE DEF A, B, new
  <2>6. /\ IsFiniteSet(A \cup {new}) /\ Cardinality(A) \in Nat
        /\ Cardinality(A \cup {new}) <= Cardinality(A) + 1
    <3>1. Cardinality(A) \in Nat
      BY <2>4, FS_CardinalityType
    <3>2. /\ IsFiniteSet(A \cup {new})
          /\ Cardinality(A \cup {new}) = Cardinality(A)
                 \/ Cardinality(A \cup {new}) = Cardinality(A) + 1
      BY <2>4, FS_AddElement
    <3> QED
      BY <3>1, <3>2
  <2>7. /\ Cardinality(B) <= Cardinality(A \cup {new})
        /\ Cardinality(B) \in Nat /\ Cardinality(A \cup {new}) \in Nat
    BY <2>5, <2>6, FewerEntries
  <2>8. Cardinality(A) <= n
    BY <1>2, <1>9 DEF EarnedIn, LogEarned, A
  <2>9. Cardinality(B) <= n + 1
    BY <1>3, <2>6, <2>7, <2>8
  <2>10. LogEarned(val', n + 1, now, age, v)
    BY <2>9 DEF LogEarned, B
  <2> QED
    BY <1>9, <2>3, <2>10 DEF EarnedWith, EarnedIn
<1> QED
  BY <1>1, <1>5, <1>6, <1>7, <1>8, <1>9 DEF Algorithms

\* A log is trimmed.
LEMMA TrimEarned ==
    ASSUME Known, NEW v \in history, v.algo = "sliding_log",
           EarnedWith(Stored, taken, now, age, v), NEW y, y = LogEvicted(Stored, now, v),
           ~WrongType(Stored, "sliding_log")
    PROVE  EarnedWith(y, taken, now, age, v)
<1>1. Valid(v) /\ InForce /\ taken \in Nat /\ now \in Nat /\ age \in Nat
  BY VersionsValid DEF Known, InForce
<1>2. CASE y = Absent
  BY <1>1, <1>2, AbsentEarned DEF EarnedWith, View, Absent
<1>3. CASE y # Absent
  <2>1. /\ Stored = val /\ PastLog(val, now) /\ y.type = "zset"
        /\ y.entries = {e \in val.entries : e.at > now - LogLength(v)}
    BY <1>1, <1>3, Trimmed
  <2>2. /\ Exists(y) /\ Exists(val) /\ val.type = "zset" /\ IsFiniteSet(val.entries)
        /\ View(y, v.algo) = y /\ View(Stored, v.algo) = val
    BY <2>1 DEF PastLog, Exists, View
  <2>3. Seen(y, now, age) \subseteq Seen(val, now, age) /\ IsFiniteSet(Seen(val, now, age))
    BY <2>1, <2>2, FS_Subset DEF Seen
  <2>4. Cardinality(Seen(val, now, age)) <= taken
    BY <2>1, <2>2 DEF EarnedWith, EarnedIn, LogEarned, WrongType
  <2>5. Cardinality(Seen(y, now, age)) <= taken
    BY <1>1, <2>3, <2>4, FewerEntries
  <2> QED
    BY <2>2, <2>5 DEF EarnedWith, EarnedIn, LogEarned
<1> QED
  BY <1>2, <1>3

\* Every step keeps it.
LEMMA NextEarned == Known /\ Earned /\ [Next]_vars => Earned'
<1> SUFFICES ASSUME Known, Earned, [Next]_vars, NEW v \in history', span' = {v}
             PROVE  EarnedWith(Stored, taken, now, age, v)'
  BY DEF Earned
<1>1. /\ InForce /\ history' = history /\ v \in history
      /\ now \in Nat /\ age \in Nat /\ taken \in Nat
  BY DEF Known, InForce, Next, vars, Advance, StartWatch, Expire, Load, Grant, Deny, Fail, Peek
<1> SUFFICES EarnedWith(Stored', taken', now', age', v)
  BY <1>1 DEF EarnedWith, EarnedIn, WaterEarned, Largest, Backlog
<1>2. ASSUME NEW n \in Nat, NEW t \in Nat, NEW a \in Nat PROVE EarnedWith(Absent, n, t, a, v)
  BY <1>1, <1>2, AbsentEarned DEF EarnedWith, View, Absent
<1>3. Stored' = Visible(val', now')
  BY DEF Stored
<1>4. span = {v} => EarnedWith(Stored, taken, now, age, v)
  BY <1>1 DEF Earned
<1>5. ASSUME span = {v}, val' = val, now' = now, taken' = taken, age' = age
      PROVE  EarnedWith(Stored', taken', now', age', v)
  BY <1>3, <1>4, <1>5 DEF Stored
<1>6. CASE Advance
  <2>1. /\ span = {v} /\ val' = val /\ now' = now + 1 /\ age' = age + 1 /\ taken' = taken
        /\ EarnedWith(Stored, taken, now, age, v)
    BY <1>4, <1>6 DEF Advance
  <2>2. CASE Stored' = Absent
    BY <1>1, <1>2, <2>1, <2>2
  <2>3. CASE Stored' # Absent
    <3>1. Stored' = val /\ ~Expired(val, now + 1)
      BY <1>3, <2>1, <2>3 DEF Visible
    <3>2. Exists(val) /\ val.expireAt \in Nat
      BY <2>3, <3>1 DEF Known, Past, PastHash, PastLog, Exists
    <3>3. Stored = val
      BY <1>1, <3>1, <3>2 DEF Stored, Visible, Expired
    <3>4. CASE WrongType(val, v.algo)
      BY <2>1, <3>1, <3>4 DEF EarnedWith
    <3>5. CASE ~WrongType(val, v.algo)
      <4>1. EarnedIn(View(val, v.algo), taken, now, age, v) /\ Finds(View(val, v.algo), now, v)
        BY <1>1, <2>1, <3>3, <3>5, FindsStored DEF EarnedWith
      <4>2. EarnedIn(View(val, v.algo), taken, now + 1, age + 1, v)
        BY <1>1, <4>1, LaterEarned
      <4> QED
        BY <2>1, <3>1, <4>2 DEF EarnedWith
    <3> QED
      BY <3>4, <3>5
  <2> QED
    BY <2>2, <2>3
<1>7. CASE StartWatch
  <2>1. val' = val /\ now' = now /\ age' = 0 /\ taken' = 0 /\ Stored' = Stored
    BY <1>3, <1>7 DEF StartWatch, Stored
  <2>2. CASE WrongType(Stored, v.algo)
    BY <2>1, <2>2 DEF EarnedWith
  <2>3. CASE ~WrongType(Stored, v.algo)
    BY <1>1, <2>1, <2>3, FindsStored, StartEarned DEF EarnedWith
  <2> QED
    BY <2>2, <2>3
<1>8. CASE Expire
  <2>1. /\ val' = Absent /\ now' = now /\ age' = age /\ taken' = taken
        /\ Stored' = Absent
    BY <1>3, <1>8 DEF Expire, Visible, Expired, Exists, Absent
  <2> QED
    BY <1>1, <1>2, <2>1
<1>9. ASSUME NEW h \in Holders, NEW w \in history, Load(h, w)
      PROVE  EarnedWith(Stored', taken', now', age', v)
  <2>1. span = {v}
    BY <1>1, <1>9 DEF Load, InForce
  <2> QED
    BY <1>5, <1>9, <2>1 DEF Load
<1>10. ASSUME NEW h \in Holders, Grant(h) PROVE EarnedWith(Stored', taken', now', age', v)
  <2>1. span = {v} /\ copy[h] = v /\ now' = now /\ age' = age
    BY <1>1, <1>10 DEF Grant, InForce
  <2>2. taken' = taken + 1
    BY <1>10, <2>1 DEF Grant, SameShape
  <2>3. EarnedWith(val', taken + 1, now, age, v)
    BY <1>1, <1>4, <1>10, <2>1, GrantEarned
  <2>4. CASE Stored' = val'
    BY <2>1, <2>2, <2>3, <2>4
  <2>5. CASE Stored' # val'
    <3>1. Stored' = Absent
      BY <1>3, <2>5 DEF Visible
    <3> QED
      BY <1>1, <1>2, <2>1, <2>2, <3>1
  <2> QED
    BY <2>4, <2>5
<1>11. ASSUME NEW h \in Holders, Deny(h) \/ Peek(h)
       PROVE  EarnedWith(Stored', taken', now', age', v)
  <2>1. span = {v} /\ copy[h] = v /\ now' = now /\ age' = age /\ taken' = taken
    BY <1>1, <1>11 DEF Deny, Peek, InForce
  <2>2. v.algo \in Algorithms
    BY <1>1, VersionsValid DEF InForce, Valid
  <2>3. /\ ~WrongType(Stored, v.algo)
        /\ val' = IF v.algo = "sliding_log" THEN LogEvicted(Stored, now, v) ELSE Stored
    BY <1>11, <2>1, <2>2, Looks DEF Fails
  <2>4. EarnedWith(val', taken, now, age, v)
    BY <1>1, <1>4, <2>1, <2>3, TrimEarned
  <2>5. Stored' = val' \/ Stored' = Absent
    BY <1>3 DEF Visible
  <2> QED
    BY <1>1, <1>2, <2>1, <2>4, <2>5
<1>12. CASE UNCHANGED vars
  BY <1>5, <1>12 DEF vars
<1>13. ASSUME NEW h \in Holders, Fail(h) PROVE EarnedWith(Stored', taken', now', age', v)
  BY <1>12, <1>13 DEF Fail
<1> QED
  BY <1>6, <1>7, <1>8, <1>9, <1>10, <1>11, <1>12, <1>13 DEF Next

\* Who is refused has earned it.
LEMMA RefusalEarned ==
    ASSUME Known, NEW v \in history, RefusedNow(v), EarnedWith(Stored, taken, now, age, v)
    PROVE  IF v.algo \in Buckets
           THEN taken * Second + Backlog(v) >
                    Smaller(v.burst * Second + Backlog(v), v.threshold * age) - Second
           ELSE now - age <= LastIgnored(v.algo, now, v) => taken >= v.threshold
<1> DEFINE f == View(Stored, v.algo)
           thr == v.threshold
<1>1. /\ Valid(v) /\ v.algo \in Algorithms /\ InForce
      /\ EarnedIn(f, taken, now, age, v) /\ Finds(f, now, v)
      /\ ~ScriptAdmits(v.algo, f, now, v)
  BY VersionsValid, FindsStored DEF Known, InForce, Valid, RefusedNow, EarnedWith
<1>2. /\ now \in Nat /\ age \in Nat /\ taken \in Nat /\ thr \in Nat
      /\ TokenFull(v) \in Nat /\ v.burst * Second = TokenFull(v) /\ Second \in Nat
      /\ (v.burst - 1) * Second = TokenFull(v) - Second
  BY <1>1, Sizes DEF InForce
<1>3. taken * Second \in Nat /\ thr * age \in Nat
  BY <1>2, Products
<1>4. ASSUME v.algo = "token_bucket"
      PROVE  taken * Second + Backlog(v) >
                 Smaller(v.burst * Second + Backlog(v), v.threshold * age) - Second
  <2>1. taken * Second + TokenNow(f, now, v) >= Smaller(TokenFull(v), thr * age)
    BY <1>1, <1>4 DEF EarnedIn, TokensEarned
  <2>2. ~(TokenNow(f, now, v) >= Second)
    BY <1>1, <1>4 DEF ScriptAdmits, TokenAdmits
  <2>3. TokenNow(f, now, v) \in Nat
    <3>1. f = Absent \/ (Exists(f) /\ f.tokens \in Nat /\ f.last \in Nat)
      BY <1>1, <1>4 DEF Finds, PastHash, Field, Exists
    <3> QED
      BY <1>1, <1>2, <3>1, TokensRange
  <2>4. Backlog(v) = 0
    BY <1>4 DEF Backlog
  <2> DEFINE full == TokenFull(v)
             p == taken * Second
             q == thr * age
             x == TokenNow(f, now, v)
  <2> HIDE DEF full, p, q, x
  <2>5. p > Smaller(full, q) - Second
    <3>1. p + x >= Smaller(full, q) /\ ~(x >= Second) /\ x \in Nat
      BY <2>1, <2>2, <2>3 DEF full, p, q, x
    <3>2. p \in Nat /\ q \in Nat /\ full \in Nat
      BY <1>2, <1>3 DEF full, p, q
    <3> QED
      BY <1>2, <3>1, <3>2 DEF Smaller
  <2>6. v.burst * Second + Backlog(v) = full /\ taken * Second + Backlog(v) = p
    BY <1>2, <1>3, <2>4 DEF full, p
  <2> QED
    BY <2>5, <2>6 DEF q
<1>5. ASSUME v.algo = "leaky_bucket"
      PROVE  taken * Second + Backlog(v) >
                 Smaller(v.burst * Second + Backlog(v), v.threshold * age) - Second
  <2> DEFINE full == TokenFull(v)
             top == Largest(v)
             p == taken * Second
             q == thr * age
             x == LeakyNow(f, now, v)
             b == Backlog(v)
  <2>1. p + top - x >= Smaller(top, q)
    BY <1>1, <1>5 DEF EarnedIn, WaterEarned
  <2>2. ~(x <= full - Second)
    BY <1>1, <1>2, <1>5 DEF ScriptAdmits, LeakyAdmits, LeakyHasSlot
  <2>3. x \in Nat
    <3>1. f = Absent \/ (Exists(f) /\ f.level \in Nat /\ f.last \in Nat)
      BY <1>1, <1>5 DEF Finds, PastHash, Field, Exists
    <3> QED
      BY <1>1, <1>2, <3>1, WaterRange
  <2>4. top \in Nat /\ top = full + b
    BY <1>1, <1>2, <1>5, LargestFacts DEF Largest
  <2>5. b \in Int
    <3>1. IsFiniteSet(history) /\ history # {}
      BY <1>1, HotChangeAssumption DEF InForce
    <3>2. Max({w.burst : w \in history}) \in Int
      <4> DEFINE B == {w.burst : w \in history}
                 g == [w \in history |-> w.burst]
      <4>1. B \in SUBSET Nat /\ B # {}
        BY <1>1, VersionsValid DEF InForce, Valid
      <4>2. g \in Surjection(history, B)
        BY DEF Surjection
      <4>3. IsFiniteSet(B)
        BY <3>1, <4>2, FS_Surjection
      <4>4. \E m \in B : \A y \in B : m >= y
        BY <4>1, <4>3, Greatest
      <4>5. Max(B) \in B
        BY <4>4 DEF Max
      <4> QED
        BY <4>1, <4>5
    <3>3. v.burst \in Nat
      BY <1>1 DEF Valid
    <3> DEFINE m == Max({w.burst : w \in history})
    <3>4. b = (m - v.burst) * Second
      BY <1>5 DEF Backlog
    <3> HIDE DEF m, b
    <3>5. m \in Int
      BY <3>2 DEF m
    <3>6. (m - v.burst) \in Int
      BY <3>3, <3>5
    <3> QED
      BY <1>2, <3>4, <3>6, Products
  <2>6. p \in Nat /\ q \in Nat /\ full \in Nat /\ v.burst * Second = full
    BY <1>2, <1>3
  <2> HIDE DEF full, top, p, q, x, b
  <2>7. p + b > Smaller(full + b, q) - Second
    BY <1>2, <2>1, <2>2, <2>3, <2>4, <2>5, <2>6 DEF Smaller
  <2> QED
    BY <2>6, <2>7 DEF p, q, b
<1>6. ASSUME v.algo = "fixed_window", now - age <= LastIgnored(v.algo, now, v)
      PROVE  taken >= v.threshold
  <2> DEFINE s == WindowStart(now, FixedLength(v))
  <2>1. s \in Nat
    BY <1>1, <1>2, Sizes, WindowFacts
  <2>2. now - age <= s - 1
    BY <1>6 DEF LastIgnored
  <2>3. age > now - s => taken >= FixedCount(f, now, v)
    BY <1>1, <1>6 DEF EarnedIn, CountEarned
  <2>4. ~(FixedCount(f, now, v) < v.threshold)
    BY <1>1, <1>6 DEF ScriptAdmits, FixedAdmits
  <2>5. FixedCount(f, now, v) \in Int
    <3>1. f # Absent => f.c \in Nat
      BY <1>1, <1>6 DEF Finds, PastHash, Field
    <3> QED
      BY <3>1 DEF FixedCount, Exists, Absent
  <2> HIDE DEF s
  <2> QED
    BY <1>2, <2>1, <2>2, <2>3, <2>4, <2>5
<1>7. ASSUME v.algo = "sliding_window", now - age <= LastIgnored(v.algo, now, v)
      PROVE  taken >= v.threshold
  <2> DEFINE c == SlidingCounts(f, now, v)
             s == SlidingStart(now, v)
             W == SlidingLength(v)
  <2>1. W \in Nat \ {0} /\ s \in Nat /\ s <= now /\ c.ca \in Nat /\ c.cb \in Nat
    <3>1. f = Absent \/ (f.a \in Nat /\ f.a <= now)
      BY <1>1, <1>7 DEF Finds, PastHash, Field
    <3>2. f = Absent \/ (f.ca \in Nat /\ f.cb \in Nat)
      BY <1>1, <1>7 DEF Finds, PastHash, Field
    <3> QED
      BY <1>1, <1>2, <3>1, <3>2, CountsLater
  <2>2. now - age <= s - W - 1
    BY <1>7 DEF LastIgnored
  <2>3. age > (now - s) + W => taken >= c.ca + c.cb
    BY <1>1, <1>7 DEF EarnedIn, CountsEarned
  <2>4. ~(c.cb * Larger(0, s + W - now) + c.ca * W < v.threshold * W)
    BY <1>1, <1>7 DEF ScriptAdmits, SlidingAdmits, SlidingEffective, SlidingReset
  <2> DEFINE ca == c.ca
             cb == c.cb
             r == Larger(0, s + W - now)
  <2>5. ca \in Nat /\ cb \in Nat /\ thr \in Nat
    BY <1>2, <2>1
  <2>6. ~(cb * r + ca * W < thr * W) /\ taken >= ca + cb
    BY <1>2, <2>1, <2>2, <2>3, <2>4
  <2> HIDE DEF s, W, c
  <2>7. r \in Nat /\ r <= W
    BY <1>2, <2>1 DEF Larger
  <2> HIDE DEF ca, cb, r, thr
  <2>8. cb * r <= cb * W /\ cb * r \in Nat
    BY <2>1, <2>5, <2>7, Products
  <2>9. (ca + cb) * W = ca * W + cb * W /\ ca * W \in Nat /\ cb * W \in Nat /\ thr * W \in Nat
    BY <2>1, <2>5, Products
  <2>10. thr * W <= (ca + cb) * W
    BY <2>6, <2>8, <2>9
  <2>11. thr <= ca + cb
    <3>1. ASSUME ca + cb < thr PROVE FALSE
      <4>1. (ca + cb) + 1 <= thr /\ ca + cb \in Nat
        BY <2>5, <3>1
      <4>2. ((ca + cb) + 1) * W = (ca + cb) * W + W
        BY <2>1, <2>5, <4>1, Products
      <4>3. ((ca + cb) + 1) * W <= thr * W
        BY <2>1, <2>5, <4>1, Products
      <4>4. (ca + cb) * W \in Nat
        BY <2>9
      <4> QED
        BY <2>1, <2>9, <2>10, <4>2, <4>3, <4>4
    <3> QED
      BY <2>5, <3>1
  <2> QED
    BY <1>2, <2>5, <2>6, <2>11 DEF thr
<1>8. ASSUME v.algo = "sliding_log", now - age <= LastIgnored(v.algo, now, v)
      PROVE  taken >= v.threshold
  <2> DEFINE kept == LogKept(f, now, v)
             seen == Seen(f, now, age)
             L == LogLength(v)
  <2>1. ~(Cardinality(kept) < v.threshold) /\ Cardinality(seen) <= taken
    BY <1>1, <1>8 DEF ScriptAdmits, LogAdmits, EarnedIn, LogEarned
  <2>2. now - age <= now - L /\ L \in Nat
    BY <1>1, <1>8, Sizes DEF LastIgnored
  <2>3. Exists(f) => IsFiniteSet(f.entries) /\ \A e \in f.entries : e.at \in Nat
    BY <1>1, <1>8 DEF Finds, PastLog, Exists, Absent
  <2>4. kept \subseteq seen
    <3> HIDE DEF f, L
    <3> QED
      BY <1>2, <2>2, <2>3 DEF LogKept, Seen, L
  <2>5. IsFiniteSet(seen)
    BY <2>3, FS_Subset, FS_EmptySet DEF Seen
  <2> HIDE DEF kept, seen
  <2>6. Cardinality(kept) <= Cardinality(seen) /\ Cardinality(kept) \in Nat /\ Cardinality(seen) \in Nat
    BY <2>4, <2>5, FewerEntries
  <2> QED
    BY <1>2, <2>1, <2>6
<1> QED
  BY <1>1, <1>4, <1>5, <1>6, <1>7, <1>8 DEF Algorithms, Buckets

\* The scripts, once a change is complete: what a client is refused for is what it has
\* been admitted since, but for what a larger queue has left in a leaky bucket.
THEOREM HotChangeDenialEarned == Spec => []DenialEarned
<1>1. Known /\ Earned => DenialEarned
  BY RefusalEarned DEF DenialEarned, Earned
<1>2. Init => Earned
  <2> SUFFICES ASSUME Init, NEW v \in history PROVE EarnedWith(Stored, taken, now, age, v)
    BY DEF Earned
  <2>1. Stored = Absent /\ taken = 0 /\ now = 0 /\ age = 0 /\ InForce
    BY InitKnown DEF Init, Stored, Visible, Expired, Exists, Absent, Known
  <2>2. EarnedIn(Absent, 0, 0, 0, v)
    BY <2>1, AbsentEarned
  <2> QED
    BY <2>1, <2>2 DEF EarnedWith, View, Absent
<1> QED
  BY <1>1, <1>2, AlwaysKnown, NextEarned, PTL DEF Spec

-----------------------------------------------------------------------------
(***************************************************************************)
(* The quota holds.                                                        *)
(***************************************************************************)
\* A bucket stored at last with the credit k, since when nothing was taken: with what
\* has been taken, it is no more than what was there and what has come since; and when
\* the key expires nothing is missing.
CreditLeft(k, last, exp, n, t, a, full, M) ==
    /\ k \in Nat /\ k <= full /\ last \in Nat /\ exp \in Nat /\ last <= t /\ t - last <= a
    /\ n * Second + k <= full + M * (a - (t - last))
    /\ M * (exp - last) + k >= full

(***************************************************************************)
(* Where a script finds x, the n requests that a stop-watch at a has seen  *)
(* are within what the thresholds up to M admit, and x tells how many more *)
(* there may be.                                                           *)
(***************************************************************************)
\* With a token bucket.
TokensCover(x, n, t, a, v, M) ==
    \/ n = 0
    \/ x = Absent /\ n * Second <= M * a
    \/ /\ x.type = "hash" /\ "tokens" \in DOMAIN x
       /\ CreditLeft(x.tokens, x.last, x.expireAt, n, t, a, TokenFull(v), M)

\* With a leaky bucket.
WaterCover(x, n, t, a, v, M) ==
    \/ n = 0
    \/ x = Absent /\ n * Second <= M * a
    \/ /\ x.type = "hash" /\ "level" \in DOMAIN x
       /\ CreditLeft(TokenFull(v) - x.level, x.last, x.expireAt, n, t, a, TokenFull(v), M)

\* The ends of windows that the stop-watch has seen.
Seams(t, a, W) == t \div W - (t - a) \div W

\* With a fixed window: each of the windows seen took up to M.
CountCover(x, n, t, a, v, M) ==
    LET W == FixedLength(v) IN
    \/ n <= M * Seams(t, a, W)
    \/ /\ x.type = "hash" /\ "w" \in DOMAIN x /\ x.w = WindowStart(t, W)
       /\ x.c <= M /\ n <= M * Seams(t, a, W) + x.c
       /\ x.expireAt >= x.w + W

\* The counts c of the two windows are within M, r after the later one began.
CountsFit(x, c, r, W, n, a, M) ==
    /\ x # Absent => x.type = "hash" /\ "a" \in DOMAIN x /\ x.expireAt >= x.a + 2 * W
    /\ c.cb * (W - r) + c.ca * W < (M + 1) * W
    /\ a <= r => n <= c.ca
    /\ a <= r + W => n <= c.ca \/ (c.cb <= M /\ n <= c.ca + c.cb)

\* With a sliding window.
CountsCover(x, n, t, a, v, M) ==
    \/ n = 0
    \/ CountsFit(x, SlidingCounts(x, t, v), t - SlidingStart(t, v), SlidingLength(v), n, a, M)

\* The entries of a log since then.
Recent(x, from) == {e \in x.entries : e.at >= from}

\* With a log: the stop-watch may have seen more only if it is older than the log.
LogCover(x, n, t, a, v, M) ==
    a < LogLength(v) =>
        \/ n = 0
        \/ /\ n <= M /\ x.type = "zset" /\ n <= Cardinality(Recent(x, t - a))
           /\ x.expireAt >= t - a + LogLength(v)

\* With one version, by its algorithm.
Cover(x, n, t, a, v, M) ==
    /\ v.algo = "token_bucket"   => TokensCover(x, n, t, a, v, M)
    /\ v.algo = "leaky_bucket"   => WaterCover(x, n, t, a, v, M)
    /\ v.algo = "fixed_window"   => CountCover(x, n, t, a, v, M)
    /\ v.algo = "sliding_window" => CountsCover(x, n, t, a, v, M)
    /\ v.algo = "sliding_log"    => LogCover(x, n, t, a, v, M)

\* What the versions in force have admitted is within their thresholds.
Covered ==
    SameShape(span) =>
        \A v \in span, M \in Nat :
            (\A w \in span : w.threshold <= M) => Cover(Stored, taken, now, age, v, M)

\* Time passes, and credit is kept.
LEMMA CreditLater ==
    ASSUME NEW k, NEW last, NEW exp, NEW n \in Nat, NEW t \in Nat, NEW a \in Nat,
           NEW full \in Nat, NEW M \in Nat, CreditLeft(k, last, exp, n, t, a, full, M)
    PROVE  CreditLeft(k, last, exp, n, t + 1, a + 1, full, M)
<1>1. last \in Nat /\ last <= t /\ t - last <= a
  BY DEF CreditLeft
<1>2. (a + 1) - ((t + 1) - last) = a - (t - last) /\ last <= t + 1 /\ (t + 1) - last <= a + 1
  BY <1>1
<1> QED
  BY <1>2 DEF CreditLeft

\* When the key has expired, no more was taken than has come.
LEMMA CreditGone ==
    ASSUME NEW k, NEW last, NEW exp, NEW n \in Nat, NEW t \in Nat, NEW a \in Nat, Second \in Nat,
           NEW full \in Nat, NEW M \in Nat, CreditLeft(k, last, exp, n, t, a, full, M), t > exp
    PROVE  n * Second <= M * a
<1> DEFINE d == t - last
           e == exp - last
           p == n * Second
<1>1. /\ k \in Nat /\ k <= full /\ last \in Nat /\ exp \in Nat /\ d \in Nat /\ d <= a /\ e \in Int
      /\ d - e \in Nat
      /\ p + k <= full + M * (a - d) /\ M * e + k >= full
  BY DEF CreditLeft
<1>2. p \in Nat
  BY Products
<1> HIDE DEF p, d, e
<1>3. M * (a - d) = M * a - M * d /\ M * (d - e) = M * d - M * e /\ M * (d - e) \in Nat
  BY <1>1, Products
<1>4. M * a \in Int /\ M * d \in Int /\ M * e \in Int
  BY <1>1, Products
<1>5. p <= M * a
  BY <1>1, <1>2, <1>3, <1>4
<1> QED
  BY <1>5 DEF p

\* What is found with what was taken is no more than the burst and what has come.
LEMMA CreditNow ==
    ASSUME NEW k, NEW last, NEW exp, NEW n \in Nat, NEW t \in Nat, NEW a \in Nat, Second \in Nat,
           NEW full \in Nat, NEW M \in Nat, CreditLeft(k, last, exp, n, t, a, full, M),
           NEW thr \in Nat, thr <= M, NEW x \in Int, x <= k + (t - last) * thr
    PROVE  n * Second + x <= full + M * a
<1> DEFINE d == t - last
           p == n * Second
<1>1. /\ k \in Nat /\ d \in Nat /\ d <= a
      /\ p + k <= full + M * (a - d) /\ x <= k + d * thr
  BY DEF CreditLeft
<1>2. p \in Nat
  BY Products
<1> HIDE DEF p, d
<1>3. M * (a - d) = M * a - M * d /\ thr * d <= M * d /\ thr * d = d * thr
  BY <1>1, Products
<1>4. M * a \in Int /\ M * d \in Int /\ thr * d \in Int
  BY <1>1, Products
<1>5. p + x <= full + M * a
  BY <1>1, <1>2, <1>3, <1>4
<1> QED
  BY <1>5 DEF p

\* A request takes its share of it.
LEMMA CreditTaken ==
    ASSUME NEW n \in Nat, NEW t \in Nat, NEW a \in Nat, Second \in Nat,
           NEW full \in Nat, NEW M \in Nat, NEW thr \in Nat \ {0}, thr <= M,
           NEW x \in Int, Second <= x, x <= full, n * Second + x <= full + M * a,
           NEW exp, exp = t + CeilDiv(full - (x - Second), thr) + Second
    PROVE  CreditLeft(x - Second, t, exp, n + 1, t, a, full, M)
<1> DEFINE y == full - (x - Second)
           c == CeilDiv(y, thr)
           p == n * Second
<1>1. y \in Nat /\ (n + 1) * Second = p + Second /\ p \in Nat
  BY Products
<1>2. c \in Nat /\ c * thr >= y /\ c \in Int
  <2> HIDE DEF y
  <2> QED
    BY <1>1, CeilDivFacts, CeilDivNat
<1>3. exp = t + c + Second
  OBVIOUS
<1> HIDE DEF c, p
<1>4. /\ exp \in Nat /\ exp - t = c + Second /\ c + Second \in Nat
  BY <1>2, <1>3
<1>5. M * (exp - t) >= y
  <2> HIDE DEF y
  <2> DEFINE e == exp - t
  <2>1. c <= e /\ e \in Nat
    BY <1>2, <1>4
  <2> HIDE DEF e
  <2>2. c * M <= e * M /\ e * M = M * e /\ thr * c <= M * c /\ M * c = c * M /\ thr * c = c * thr
    BY <1>2, <2>1, Products
  <2>3. c * M \in Int /\ e * M \in Int /\ thr * c \in Int
    BY <1>2, <2>1, Products
  <2>4. M * e >= y
    BY <1>1, <1>2, <2>2, <2>3
  <2> QED
    BY <2>4 DEF e
<1>6. M * (exp - t) + (x - Second) >= full
  <2>1. M * (exp - t) \in Int
    BY <1>4, Products
  <2> QED
    BY <1>5, <2>1
<1>7. (n + 1) * Second + (x - Second) <= full + M * (a - (t - t))
  <2>1. a - (t - t) = a /\ M * a \in Int
    BY Products
  <2>2. p + x <= full + M * a
    BY DEF p
  <2> QED
    BY <1>1, <2>1, <2>2
<1> QED
  BY <1>4, <1>6, <1>7 DEF CreditLeft

\* Time passes: a bucket of tokens.
LEMMA TokensLater ==
    ASSUME NEW v, Valid(v), NEW x, NEW n \in Nat, NEW t \in Nat, NEW a \in Nat, NEW M \in Nat,
           TokensCover(x, n, t, a, v, M)
    PROVE  TokensCover(Visible(x, t + 1), n, t + 1, a + 1, v, M)
<1> DEFINE full == TokenFull(v)
<1>1. full \in Nat /\ Second \in Nat
  BY Sizes
<1>2. CASE n = 0
  BY <1>2 DEF TokensCover
<1>3. CASE x = Absent /\ n * Second <= M * a
  <2>1. M * (a + 1) = M * a + M /\ M * a \in Int /\ n * Second \in Int
    BY <1>1, Products
  <2>2. n * Second <= M * (a + 1)
    BY <1>3, <2>1
  <2>3. Visible(x, t + 1) = Absent
    BY <1>3 DEF Visible
  <2> QED
    BY <2>2, <2>3 DEF TokensCover
<1>4. CASE /\ x.type = "hash" /\ "tokens" \in DOMAIN x
           /\ CreditLeft(x.tokens, x.last, x.expireAt, n, t, a, full, M)
  <2> DEFINE k == x.tokens
             exp == x.expireAt
  <2>1. CreditLeft(k, x.last, exp, n, t + 1, a + 1, full, M)
    BY <1>1, <1>4, CreditLater
  <2>2. CASE Expired(x, t + 1)
    <3>1. t + 1 > exp /\ t + 1 \in Nat /\ a + 1 \in Nat
      BY <2>2 DEF Expired
    <3> HIDE DEF k, exp, full
    <3>2. n * Second <= M * (a + 1)
      BY <1>1, <2>1, <3>1, CreditGone
    <3> QED
      BY <2>2, <3>2 DEF TokensCover, Visible
  <2>3. CASE ~Expired(x, t + 1)
    BY <1>4, <2>1, <2>3 DEF TokensCover, Visible
  <2> QED
    BY <2>2, <2>3
<1> QED
  BY <1>2, <1>3, <1>4 DEF TokensCover

\* Time passes: a leaky bucket.
LEMMA WaterLater ==
    ASSUME NEW v, Valid(v), NEW x, NEW n \in Nat, NEW t \in Nat, NEW a \in Nat, NEW M \in Nat,
           WaterCover(x, n, t, a, v, M)
    PROVE  WaterCover(Visible(x, t + 1), n, t + 1, a + 1, v, M)
<1> DEFINE full == TokenFull(v)
<1>1. full \in Nat /\ Second \in Nat
  BY Sizes
<1>2. CASE n = 0
  BY <1>2 DEF WaterCover
<1>3. CASE x = Absent /\ n * Second <= M * a
  <2>1. M * (a + 1) = M * a + M /\ M * a \in Int /\ n * Second \in Int
    BY <1>1, Products
  <2>2. n * Second <= M * (a + 1)
    BY <1>3, <2>1
  <2>3. Visible(x, t + 1) = Absent
    BY <1>3 DEF Visible
  <2> QED
    BY <2>2, <2>3 DEF WaterCover
<1>4. CASE /\ x.type = "hash" /\ "level" \in DOMAIN x
           /\ CreditLeft(full - x.level, x.last, x.expireAt, n, t, a, full, M)
  <2> DEFINE k == full - x.level
             exp == x.expireAt
  <2>1. CreditLeft(k, x.last, exp, n, t + 1, a + 1, full, M)
    BY <1>1, <1>4, CreditLater
  <2>2. CASE Expired(x, t + 1)
    <3>1. t + 1 > exp /\ t + 1 \in Nat /\ a + 1 \in Nat
      BY <2>2 DEF Expired
    <3> HIDE DEF k, exp, full
    <3>2. n * Second <= M * (a + 1)
      BY <1>1, <2>1, <3>1, CreditGone
    <3> QED
      BY <2>2, <3>2 DEF WaterCover, Visible
  <2>3. CASE ~Expired(x, t + 1)
    BY <1>4, <2>1, <2>3 DEF WaterCover, Visible
  <2> QED
    BY <2>2, <2>3
<1> QED
  BY <1>2, <1>3, <1>4 DEF WaterCover

\* A bucket of tokens admits.
LEMMA TokensTaken ==
    ASSUME Known, NEW h \in Holders, Grant(h), NEW v, copy[h] = v, v.algo = "token_bucket",
           NEW M \in Nat, v.threshold <= M, TokensCover(Stored, taken, now, age, v, M)
    PROVE  TokensCover(val', taken + 1, now, age, v, M)
<1> DEFINE f == Found(h)
           full == TokenFull(v)
           thr == v.threshold
           x == TokenNow(f, now, v)
<1>1. /\ Valid(v) /\ taken \in Nat /\ now \in Nat /\ age \in Nat
      /\ full \in Nat /\ thr \in Nat \ {0} /\ Second \in Nat
      /\ FoundHash(f, "tokens", now) /\ f = View(Stored, "token_bucket")
  BY Grants, Sizes DEF Known, InForce, Field, Found
<1>2. f = Absent \/ (Exists(f) /\ f.tokens \in Nat /\ f.last \in Nat /\ f.last <= now)
  BY <1>1 DEF FoundHash, PastHash, Exists
<1>3. x \in Nat /\ x <= full
  <2>1. x \in 0 .. full
    BY <1>1, <1>2, TokensRange
  <2> HIDE DEF x, full
  <2> QED
    BY <1>1, <2>1
<1>4. /\ PastHash(val', now) /\ "tokens" \in DOMAIN val' /\ x - Second \in Nat
      /\ val'.tokens = x - Second /\ val'.last = now
      /\ val'.expireAt = now + CeilDiv(full - (x - Second), thr) + Second
  BY TokenGrant DEF TokenFullIn
<1>5. taken * Second + x <= full + M * age
  <2>1. taken * Second \in Int /\ M * age \in Nat /\ 0 * Second = 0
    <3>1. taken \in Int /\ Second \in Int /\ age \in Nat
      BY <1>1
    <3> QED
      BY <3>1, Products
  <2>2. CASE taken = 0
    <3> HIDE DEF x, full
    <3> QED
      BY <1>1, <1>3, <2>1, <2>2
  <2>3. CASE taken * Second <= M * age
    <3> HIDE DEF x, full
    <3> QED
      BY <1>1, <1>3, <2>1, <2>3
  <2>4. CASE /\ Stored.type = "hash" /\ "tokens" \in DOMAIN Stored
             /\ CreditLeft(Stored.tokens, Stored.last, Stored.expireAt, taken, now, age, full, M)
    <3>1. f = Stored /\ f # Absent
      BY <1>1, <2>4 DEF View, Field, Absent
    <3>2. x = Smaller(full, f.tokens + (now - f.last) * thr)
      BY <1>1, <1>2, <3>1, Refills
    <3>3. (now - f.last) * thr \in Int /\ f.tokens \in Nat
      BY <1>1, <1>2, <3>1, Products
    <3> HIDE DEF x, full, thr, f
    <3>4. x <= f.tokens + (now - f.last) * thr
      BY <1>1, <3>2, <3>3 DEF Smaller
    <3>5. thr <= M /\ thr \in Nat
      BY <1>1 DEF thr
    <3>6. CreditLeft(f.tokens, f.last, f.expireAt, taken, now, age, full, M)
      BY <2>4, <3>1
    <3> DEFINE k == f.tokens
               last == f.last
               exp == f.expireAt
    <3>7. CreditLeft(k, last, exp, taken, now, age, full, M) /\ x <= k + (now - last) * thr
          /\ x \in Int
      BY <1>3, <3>4, <3>6
    <3> HIDE DEF k, last, exp
    <3> QED
      BY <1>1, <3>5, <3>7, CreditNow
  <2> QED
    BY <2>2, <2>3, <2>4 DEF TokensCover
<1> HIDE DEF x, full, f
<1>6. CreditLeft(x - Second, now, val'.expireAt, taken + 1, now, age, full, M)
  <2> DEFINE exp == val'.expireAt
             c   == CeilDiv(full - (x - Second), thr)
  <2>1. thr <= M /\ exp = now + c + Second
    BY <1>4
  <2>2. x \in Int /\ Second <= x
    <3>1. x - Second \in Nat
      BY <1>4
    <3> QED
      BY <1>1, <1>3, <3>1
  <2> HIDE DEF exp, thr
  <2>3. CreditLeft(x - Second, now, exp, taken + 1, now, age, full, M)
    BY <1>1, <1>3, <1>5, <2>1, <2>2, CreditTaken
  <2> QED
    BY <2>3 DEF exp
<1> QED
  BY <1>4, <1>6 DEF TokensCover, PastHash, full

\* A leaky bucket admits.
LEMMA WaterTaken ==
    ASSUME Known, NEW h \in Holders, Grant(h), NEW v, copy[h] = v, v.algo = "leaky_bucket",
           NEW M \in Nat, v.threshold <= M, WaterCover(Stored, taken, now, age, v, M)
    PROVE  WaterCover(val', taken + 1, now, age, v, M)
<1> DEFINE f == Found(h)
           full == TokenFull(v)
           thr == v.threshold
           y == LeakyNow(f, now, v)
           x == full - y
<1>1. /\ Valid(v) /\ taken \in Nat /\ now \in Nat /\ age \in Nat
      /\ full \in Nat /\ thr \in Nat \ {0} /\ Second \in Nat
      /\ FoundHash(f, "level", now) /\ f = View(Stored, "leaky_bucket")
  BY Grants, Sizes DEF Known, InForce, Field, Found
<1>2. f = Absent \/ (Exists(f) /\ f.level \in Nat /\ f.last \in Nat /\ f.last <= now)
  BY <1>1 DEF FoundHash, PastHash, Exists
<1>3. y \in Nat
  BY <1>1, <1>2, WaterRange
<1>4. /\ PastHash(val', now) /\ "level" \in DOMAIN val' /\ y + Second <= full
      /\ val'.level = y + Second /\ val'.last = now
      /\ val'.expireAt = now + CeilDiv(y + Second, thr) + Second
  BY LeakyGrant DEF LeakyDrainsIn
<1>5. taken * Second + x <= full + M * age
  <2>1. taken * Second \in Int /\ M * age \in Nat /\ 0 * Second = 0
    <3>1. taken \in Int /\ Second \in Int /\ age \in Nat
      BY <1>1
    <3> QED
      BY <3>1, Products
  <2>2. CASE taken = 0
    <3> HIDE DEF y, full
    <3> QED
      BY <1>1, <1>3, <2>1, <2>2
  <2>3. CASE taken * Second <= M * age
    <3> HIDE DEF y, full
    <3> QED
      BY <1>1, <1>3, <2>1, <2>3
  <2>4. CASE /\ Stored.type = "hash" /\ "level" \in DOMAIN Stored
             /\ CreditLeft(full - Stored.level, Stored.last, Stored.expireAt, taken, now, age, full, M)
    <3>1. f = Stored /\ f # Absent
      BY <1>1, <2>4 DEF View, Field, Absent
    <3>2. y = Larger(0, f.level - (now - f.last) * thr)
      BY <1>1, <1>2, <3>1, Drains
    <3>3. (now - f.last) * thr \in Int /\ f.level \in Nat
      BY <1>1, <1>2, <3>1, Products
    <3> HIDE DEF y, full, thr, f
    <3>4. x <= (full - f.level) + (now - f.last) * thr
      BY <1>1, <3>2, <3>3 DEF Larger
    <3>5. thr <= M /\ thr \in Nat /\ x \in Int
      BY <1>1, <1>3 DEF thr
    <3>6. CreditLeft(full - f.level, f.last, f.expireAt, taken, now, age, full, M)
      BY <2>4, <3>1
    <3> HIDE DEF x
    <3> QED
      BY <1>1, <3>4, <3>5, <3>6, CreditNow
  <2> QED
    BY <2>2, <2>3, <2>4 DEF WaterCover
<1> HIDE DEF y, full, f
<1>6. CreditLeft(x - Second, now, val'.expireAt, taken + 1, now, age, full, M)
  <2>1. /\ Second <= x /\ x <= full /\ x \in Int
        /\ full - (x - Second) = y + Second
    BY <1>1, <1>3, <1>4
  <2> HIDE DEF thr, x
  <2>2. thr <= M
    BY DEF thr
  <2>3. val'.expireAt = now + CeilDiv(full - (x - Second), thr) + Second
    BY <1>4, <2>1
  <2> QED
    BY <1>1, <1>5, <2>1, <2>2, <2>3, CreditTaken
<1>7. full - val'.level = x - Second
  BY <1>1, <1>3, <1>4
<1> HIDE DEF x
<1> QED
  BY <1>4, <1>6, <1>7 DEF WaterCover, PastHash, full

\* The seams that a stop-watch has seen.
LEMMA SeamsFacts ==
    ASSUME NEW W \in Nat \ {0}, NEW t \in Nat, NEW a \in Nat, a <= t
    PROVE  /\ Seams(t, a, W) \in Nat
           /\ \/ /\ Seams(t + 1, a + 1, W) = Seams(t, a, W)
                 /\ WindowStart(t + 1, W) = WindowStart(t, W)
              \/ Seams(t + 1, a + 1, W) = Seams(t, a, W) + 1
<1> DEFINE q == t \div W
           p == (t - a) \div W
           z == (t + 1) \div W
<1>1. t - a \in Nat /\ t - a <= t /\ (t + 1) - (a + 1) = t - a
  OBVIOUS
<1>2. q \in Nat /\ p \in Nat /\ p <= q
  BY <1>1, Quotients
<1>3. z = q \/ z = q + 1
  BY WindowFacts
<1>4. Seams(t, a, W) = q - p /\ Seams(t + 1, a + 1, W) = z - p
  BY <1>1 DEF Seams
<1>5. z = q => WindowStart(t + 1, W) = WindowStart(t, W)
  BY DEF WindowStart
<1> HIDE DEF q, p, z
<1> QED
  BY <1>2, <1>3, <1>4, <1>5

\* Time passes: a fixed window.
LEMMA CountLater ==
    ASSUME NEW v, Valid(v), NEW x, NEW n \in Nat, NEW t \in Nat, NEW a \in Nat, NEW M \in Nat,
           a <= t, CountCover(x, n, t, a, v, M), x.type = "hash" => PastHash(x, t)
    PROVE  CountCover(Visible(x, t + 1), n, t + 1, a + 1, v, M)
<1> DEFINE W == FixedLength(v)
           k == Seams(t, a, W)
           l == Seams(t + 1, a + 1, W)
           s == WindowStart(t, W)
           z == WindowStart(t + 1, W)
<1>1. W \in Nat \ {0}
  BY Sizes
<1>2. k \in Nat /\ ((l = k /\ z = s) \/ l = k + 1)
  <2> HIDE DEF W
  <2> QED
    BY <1>1, SeamsFacts
<1>3. t + 1 < z + W /\ z \in Nat
  <2> HIDE DEF W
  <2> QED
    BY <1>1, WindowFacts
<1>4. M * (k + 1) = M * k + M /\ M * k \in Nat
  BY <1>2, Products
<1> HIDE DEF W, k, l, s, z
<1>5. ASSUME n <= M * l PROVE CountCover(Visible(x, t + 1), n, t + 1, a + 1, v, M)
  BY <1>5 DEF CountCover, l, W
<1>6. CASE n <= M * k
  <2>1. n <= M * l
    BY <1>2, <1>4, <1>6
  <2> QED
    BY <1>5, <2>1
<1>7. CASE /\ x.type = "hash" /\ "w" \in DOMAIN x /\ x.w = s
           /\ x.c <= M /\ n <= M * k + x.c
           /\ x.expireAt >= x.w + W
  <2>1. x.c \in Nat /\ x.expireAt \in Nat
    BY <1>7 DEF PastHash
  <2>2. CASE l = k + 1
    <3>1. n <= M * l
      BY <1>4, <1>7, <2>1, <2>2
    <3> QED
      BY <1>5, <3>1
  <2>3. CASE l = k /\ z = s
    <3>1. ~(t + 1 > x.expireAt)
      BY <1>1, <1>3, <1>7, <2>1, <2>3
    <3>2. Visible(x, t + 1) = x
      BY <3>1 DEF Visible, Expired
    <3>3. /\ x.type = "hash" /\ "w" \in DOMAIN x /\ x.w = z
          /\ x.c <= M /\ n <= M * l + x.c
          /\ x.expireAt >= x.w + W
      BY <1>7, <2>3
    <3> QED
      BY <3>2, <3>3 DEF CountCover, l, W, z
  <2> QED
    BY <1>2, <2>2, <2>3
<1> QED
  BY <1>6, <1>7 DEF CountCover, W, k, s

\* A fixed window admits.
LEMMA CountTaken ==
    ASSUME Known, NEW h \in Holders, Grant(h), NEW v, copy[h] = v, v.algo = "fixed_window",
           NEW M \in Nat, v.threshold <= M, CountCover(Stored, taken, now, age, v, M)
    PROVE  CountCover(val', taken + 1, now, age, v, M)
<1> DEFINE f == Found(h)
           W == FixedLength(v)
           k == Seams(now, age, W)
           s == WindowStart(now, W)
           c == FixedCount(f, now, v)
<1>1. /\ Valid(v) /\ taken \in Nat /\ now \in Nat /\ age \in Nat /\ age <= now
      /\ W \in Nat \ {0} /\ v.threshold \in Nat /\ Second \in Nat
      /\ FoundHash(f, "w", now) /\ f = View(Stored, "fixed_window")
  BY Grants, Sizes DEF Known, InForce, Field, Found
<1>2. s \in Nat /\ s <= now /\ k \in Nat
  <2> HIDE DEF W
  <2> QED
    BY <1>1, WindowFacts, SeamsFacts
<1>3. M * k \in Nat
  BY <1>2, Products
<1>4. /\ c + 1 <= v.threshold /\ PastHash(val', now) /\ "w" \in DOMAIN val'
      /\ val'.c = c + 1 /\ val'.w = s /\ val'.expireAt = now + W + Second
  BY FixedGrant
<1>5. c \in Nat
  BY <1>1 DEF FoundHash, PastHash, FixedCount, Exists, Absent
<1>6. taken <= M * k + c
  <2>1. CASE taken <= M * k
    <3> HIDE DEF c, k
    <3> QED
      BY <1>1, <1>3, <1>5, <2>1
  <2>2. CASE /\ Stored.type = "hash" /\ "w" \in DOMAIN Stored /\ Stored.w = s
             /\ taken <= M * k + Stored.c
    <3>1. f = Stored
      BY <1>1, <2>2 DEF View, Field
    <3>2. c = Stored.c
      BY <2>2, <3>1 DEF FixedCount, Exists
    <3> QED
      BY <2>2, <3>2
  <2> QED
    BY <2>1, <2>2 DEF CountCover
<1> HIDE DEF c, k, s, W
<1>7. /\ val'.c <= M /\ taken + 1 <= M * k + val'.c /\ val'.expireAt >= val'.w + W
  BY <1>1, <1>2, <1>3, <1>4, <1>5, <1>6
<1> QED
  BY <1>4, <1>7 DEF CountCover, PastHash, W, k, s

\* Time passes: a sliding window.
LEMMA CountsCoverLater ==
    ASSUME NEW v, Valid(v), NEW x, NEW n \in Nat, NEW t \in Nat, NEW a \in Nat, NEW M \in Nat,
           CountsCover(x, n, t, a, v, M), x.type = "hash" => PastHash(x, t)
    PROVE  CountsCover(Visible(x, t + 1), n, t + 1, a + 1, v, M)
<1> SUFFICES ASSUME n # 0 PROVE CountsCover(Visible(x, t + 1), n, t + 1, a + 1, v, M)
  BY DEF CountsCover
<1> DEFINE W == SlidingLength(v)
           s == SlidingStart(t, v)
           z == SlidingStart(t + 1, v)
           c == SlidingCounts(x, t, v)
           d == SlidingCounts(x, t + 1, v)
           r == t - s
           q == (t + 1) - z
           y == Visible(x, t + 1)
<1>1. /\ x # Absent => x.type = "hash" /\ "a" \in DOMAIN x /\ x.expireAt >= x.a + 2 * W
      /\ c.cb * (W - r) + c.ca * W < (M + 1) * W
      /\ (a <= r => n <= c.ca)
      /\ (a <= r + W => n <= c.ca \/ (c.cb <= M /\ n <= c.ca + c.cb))
  BY DEF CountsCover, CountsFit
<1>2. x = Absent \/ (x.a \in Nat /\ x.a <= t /\ x.ca \in Nat /\ x.cb \in Nat /\ x.expireAt \in Nat)
  BY <1>1 DEF PastHash
<1>3. /\ W \in Nat \ {0} /\ s \in Nat /\ s <= t /\ t < s + W
      /\ c.ca \in Nat /\ c.cb \in Nat
      /\ \/ z = s /\ t + 1 < s + W /\ d = c
         \/ z = s + W /\ z = t + 1 /\ d = [ca |-> 0, cb |-> c.ca]
  BY <1>2, CountsLater
<1>4. SlidingCounts(y, t + 1, v) = d
  <2>1. CASE y = x
    BY <2>1
  <2>2. CASE y # x
    <3>1. y = Absent /\ Exists(x) /\ t + 1 > x.expireAt
      BY <2>2 DEF Visible, Expired
    <3>2. x # Absent
      BY <2>2, <3>1
    <3>3. t + 1 > x.a + 2 * W /\ x.a \in Nat
      <4> HIDE DEF W, y
      <4> QED
        BY <1>1, <1>2, <1>3, <3>1, <3>2
    <3>4. z >= t + 1 - W /\ z \in Nat
      <4> HIDE DEF W, s, z, c, d
      <4> QED
        BY <1>3
    <3>5. x.a # z - W /\ x.a # z
      <4> HIDE DEF W, z, y
      <4>1. 2 * W = W + W
        BY <1>3
      <4> QED
        BY <1>3, <3>3, <3>4, <4>1
    <3>6. d = [ca |-> 0, cb |-> 0] /\ SlidingCounts(y, t + 1, v) = [ca |-> 0, cb |-> 0]
      BY <3>1, <3>5 DEF SlidingCounts, Exists, Absent
    <3> QED
      BY <3>6
  <2> QED
    BY <2>1, <2>2
<1>5. y # Absent => y.type = "hash" /\ "a" \in DOMAIN y /\ y.expireAt >= y.a + 2 * W
  <2>1. y = x \/ y = Absent
    BY DEF Visible
  <2> HIDE DEF W, y
  <2> QED
    BY <1>1, <2>1
<1>6. /\ d.cb * (W - q) + d.ca * W < (M + 1) * W
      /\ (a + 1 <= q => n <= d.ca)
      /\ (a + 1 <= q + W => n <= d.ca \/ (d.cb <= M /\ n <= d.ca + d.cb))
  <2> DEFINE ca == c.ca
             cb == c.cb
             N == M + 1
  <2>1. ca \in Nat /\ cb \in Nat /\ N \in Nat /\ r \in Nat /\ r < W
    <3> HIDE DEF c, s, W
    <3> QED
      BY <1>3
  <2>2. /\ cb * (W - r) + ca * W < N * W
        /\ (a <= r => n <= ca)
        /\ (a <= r + W => n <= ca \/ (cb <= M /\ n <= ca + cb))
    BY <1>1
  <2>3. CASE z = s /\ t + 1 < s + W /\ d = c
    <3>1. q = r + 1 /\ d.ca = ca /\ d.cb = cb
      <4> HIDE DEF c, d, s, z, W
      <4> QED
        BY <1>3, <2>3
    <3> HIDE DEF ca, cb, N, r, q, c, d, s, z, W
    <3>2. cb * (W - q) + ca * W < N * W
      <4>1. W - r \in Int /\ W - q \in Int /\ W - r = (W - q) + 1
        BY <1>3, <2>1, <3>1
      <4>2. cb * ((W - q) + 1) = cb * (W - q) + cb
        BY <2>1, <4>1, Products
      <4>3. cb * (W - q) \in Int /\ ca * W \in Int /\ N * W \in Int
        BY <1>3, <2>1, <4>1, Products
      <4>4. cb * (W - r) = cb * (W - q) + cb
        BY <4>1, <4>2
      <4> QED
        BY <2>1, <2>2, <4>3, <4>4
    <3>3. (a + 1 <= q => n <= ca) /\ (a + 1 <= q + W => n <= ca \/ (cb <= M /\ n <= ca + cb))
      BY <1>3, <2>1, <2>2, <3>1
    <3> QED
      BY <3>1, <3>2, <3>3 DEF N
  <2>4. CASE z = s + W /\ z = t + 1 /\ d = [ca |-> 0, cb |-> c.ca]
    <3>1. q = 0 /\ r + 1 = W /\ d.ca = 0 /\ d.cb = ca
      <4> HIDE DEF c, d, s, z, W
      <4> QED
        BY <1>3, <2>4
    <3> HIDE DEF ca, cb, N, r, q, c, d, s, z, W
    <3>2. ca * W < N * W
      <4>1. cb * (W - r) \in Nat
        <5>1. W - r \in Nat
          BY <1>3, <2>1
        <5> QED
          BY <2>1, <5>1, Products
      <4>2. ca * W \in Int /\ N * W \in Int
        BY <1>3, <2>1, Products
      <4> QED
        BY <2>2, <4>1, <4>2
    <3>3. ca <= M
      <4>1. ca < N
        BY <1>3, <2>1, <3>2, Products
      <4> QED
        BY <2>1, <4>1 DEF N
    <3>4. ca * (W - q) + 0 * W < N * W
      <4>1. W - q = W /\ 0 * W = 0
        BY <1>3, <3>1
      <4>2. ca * W \in Int
        BY <1>3, <2>1, Products
      <4> QED
        BY <3>2, <4>1, <4>2
    <3>5. (a + 1 <= q => n <= 0) /\ (a + 1 <= q + W => n <= 0 \/ (ca <= M /\ n <= 0 + ca))
      BY <1>3, <2>1, <2>2, <3>1, <3>3
    <3> QED
      BY <3>1, <3>4, <3>5 DEF N
  <2> QED
    BY <1>3, <2>3, <2>4
<1> HIDE DEF W, s, z, c, d, q, r, y
<1>7. CountsFit(y, d, q, W, n, a + 1, M)
  BY <1>5, <1>6 DEF CountsFit
<1>8. CountsFit(y, SlidingCounts(y, t + 1, v), q, W, n, a + 1, M)
  BY <1>4, <1>7
<1> QED
  BY <1>8 DEF CountsCover, W, z, q, y

\* A sliding window admits.
LEMMA CountsTaken ==
    ASSUME Known, NEW h \in Holders, Grant(h), NEW v, copy[h] = v, v.algo = "sliding_window",
           NEW M \in Nat, v.threshold <= M, CountsCover(Stored, taken, now, age, v, M)
    PROVE  CountsCover(val', taken + 1, now, age, v, M)
<1> DEFINE f == Found(h)
           W == SlidingLength(v)
           s == SlidingStart(now, v)
           r == now - s
           c == SlidingCounts(f, now, v)
           d == SlidingCounts(val', now, v)
           thr == v.threshold
           N == M + 1
           ca == c.ca
           cb == c.cb
<1>1. /\ Valid(v) /\ taken \in Nat /\ now \in Nat /\ age \in Nat
      /\ W \in Nat \ {0} /\ thr \in Nat /\ Second \in Nat /\ f = View(Stored, "sliding_window")
  BY Grants, Sizes DEF Known, InForce, Found
<1>2. s \in Nat /\ s <= now /\ now < s + W
  <2>1. s = WindowStart(now, W)
    BY DEF SlidingStart
  <2> HIDE DEF W
  <2> QED
    BY <1>1, <2>1, WindowFacts
<1>3. /\ ca \in Nat /\ cb \in Nat
      /\ cb * Larger(0, s + W - now) + ca * W < thr * W
      /\ PastHash(val', now) /\ "a" \in DOMAIN val'
      /\ val'.ca = ca + 1 /\ val'.cb = cb /\ val'.a = s
      /\ val'.expireAt = now + 2 * W + Second
  BY SlidingGrant DEF SlidingEffective, SlidingReset
<1>4. d = [ca |-> ca + 1, cb |-> cb]
  <2>1. Exists(val')
    BY <1>3 DEF PastHash, Exists
  <2>2. s # s - W
    <3> HIDE DEF s, W
    <3> QED
      BY <1>1, <1>2
  <2> QED
    BY <1>3, <2>1, <2>2 DEF SlidingCounts
<1>5. \/ taken = 0
      \/ /\ (age <= r => taken <= ca)
         /\ (age <= r + W => taken <= ca \/ (cb <= M /\ taken <= ca + cb))
  <2> SUFFICES ASSUME taken # 0,
                      CountsFit(Stored, SlidingCounts(Stored, now, v), r, W, taken, age, M)
               PROVE  /\ (age <= r => taken <= ca)
                      /\ (age <= r + W => taken <= ca \/ (cb <= M /\ taken <= ca + cb))
    BY DEF CountsCover
  <2>1. f = Stored
    BY <1>1 DEF CountsFit, View, Field
  <2> QED
    BY <2>1 DEF CountsFit
<1> HIDE DEF f, W, s, c, d, thr, N, ca, cb
<1>6. cb * (W - r) + (ca + 1) * W < N * W
  <2>1. r \in Nat /\ W - r \in Nat /\ Larger(0, s + W - now) = W - r
    BY <1>1, <1>2 DEF Larger
  <2>2. cb * (W - r) \in Nat /\ ca * W \in Nat /\ (ca + 1) * W = ca * W + W
    BY <1>1, <1>3, <2>1, Products
  <2>3. thr * W <= M * W /\ N * W = M * W + W /\ thr * W \in Int /\ M * W \in Int
    BY <1>1, Products DEF thr, N
  <2>4. cb * (W - r) + ca * W < thr * W
    BY <1>3, <2>1
  <2> QED
    BY <1>1, <2>2, <2>3, <2>4
<1>7. /\ d.cb * (W - r) + d.ca * W < (M + 1) * W
      /\ (age <= r => taken + 1 <= d.ca)
      /\ (age <= r + W => taken + 1 <= d.ca \/ (d.cb <= M /\ taken + 1 <= d.ca + d.cb))
  <2>1. d.cb = cb /\ d.ca = ca + 1
    BY <1>4
  <2>2. /\ (age <= r => taken + 1 <= ca + 1)
        /\ (age <= r + W => taken + 1 <= ca + 1 \/ (cb <= M /\ taken + 1 <= (ca + 1) + cb))
    BY <1>1, <1>2, <1>3, <1>5
  <2> QED
    BY <1>6, <2>1, <2>2 DEF N
<1>8. val'.type = "hash" /\ val'.expireAt >= val'.a + 2 * W
  <2>1. 2 * W \in Nat
    BY <1>1
  <2> QED
    BY <1>1, <1>2, <1>3, <2>1 DEF PastHash
<1> HIDE DEF r
<1>9. CountsFit(val', d, r, W, taken + 1, age, M)
  BY <1>3, <1>7, <1>8 DEF CountsFit
<1> QED
  BY <1>9 DEF CountsCover, W, s, r, d

\* Time passes: a log.
LEMMA LogLater ==
    ASSUME NEW v, Valid(v), NEW x, NEW n \in Nat, NEW t \in Nat, NEW a \in Nat, NEW M \in Nat,
           LogCover(x, n, t, a, v, M), x.type = "zset" => PastLog(x, t)
    PROVE  LogCover(Visible(x, t + 1), n, t + 1, a + 1, v, M)
<1> DEFINE L == LogLength(v)
<1> SUFFICES ASSUME a + 1 < L, n # 0
             PROVE  LogCover(Visible(x, t + 1), n, t + 1, a + 1, v, M)
  BY DEF LogCover
<1>1. L \in Nat /\ a < L
  BY Sizes
<1>2. /\ n <= M /\ x.type = "zset" /\ n <= Cardinality(Recent(x, t - a))
      /\ x.expireAt >= t - a + L
  BY <1>1 DEF LogCover
<1>3. x.expireAt \in Nat
  BY <1>2 DEF PastLog
<1>4. (t + 1) - (a + 1) = t - a
  OBVIOUS
<1>5. ~(t + 1 > x.expireAt)
  <2> HIDE DEF L
  <2> QED
    BY <1>1, <1>2, <1>3
<1>6. Visible(x, t + 1) = x
  BY <1>5 DEF Visible, Expired
<1> QED
  BY <1>2, <1>4, <1>6 DEF LogCover

\* The entries that count, where a log may be found.
LEMMA RecentKept ==
    ASSUME Known, NEW v, Valid(v), age < LogLength(v), Stored.type = "zset"
    PROVE  /\ Stored = val /\ Recent(Stored, now - age) \subseteq LogKept(Stored, now, v)
           /\ IsFiniteSet(LogKept(Stored, now, v)) /\ Cardinality(LogKept(Stored, now, v)) \in Nat
<1>1. ~WrongType(Stored, "sliding_log") /\ Stored # Absent
  BY DEF WrongType, Absent
<1>2. LET kept == LogKept(Stored, now, v) IN
      /\ IsFiniteSet(kept) /\ Cardinality(kept) \in Nat
      /\ Stored = val /\ PastLog(val, now)
      /\ kept = {e \in val.entries : e.at > now - LogLength(v)}
  BY <1>1, KeptFacts
<1>3. now \in Nat /\ age \in Nat /\ LogLength(v) \in Nat
  BY Sizes DEF Known, InForce
<1>4. \A e \in val.entries : e.at \in Nat
  BY <1>2 DEF PastLog
<1> QED
  BY <1>2, <1>3, <1>4 DEF Recent

\* A nonce is never drawn twice while its entry lives: there are more of them than the
\* log of any version can hold.
NoncesSuffice ==
    \A v \in Versions : v.algo = "sliding_log" =>
        \A used \in SUBSET Nonces :
            IsFiniteSet(used) /\ Cardinality(used) <= v.threshold => used # Nonces

\* So that the nonce drawn is new.
LEMMA NonceIsNew ==
    ASSUME NoncesSuffice, Known, NEW v \in history, v.algo = "sliding_log",
           ~WrongType(Stored, "sliding_log")
    PROVE  FreshNonce \notin Members(Stored)
<1> DEFINE used == Members(Stored) \cap Nonces
           E == Stored.entries
           g == [e \in E |-> e.id]
<1>1. history \subseteq Versions /\ v \in Versions
  BY DEF Known, InForce, Versions
<1>2. CASE Stored = Absent
  BY <1>2 DEF Members, Absent
<1>3. CASE Stored # Absent
  <2>1. PastLog(Stored, now)
    BY <1>3, FoundIs DEF Algorithms
  <2>2. PICK w \in history : w.algo = "sliding_log" /\ Cardinality(E) <= w.threshold
    BY <2>1 DEF PastLog
  <2>3. IsFiniteSet(E) /\ Members(Stored) = {e.id : e \in E}
    BY <2>1 DEF PastLog, Members
  <2>4. g \in Surjection(E, Members(Stored))
    BY <2>3 DEF Surjection
  <2>5. IsFiniteSet(Members(Stored)) /\ Cardinality(Members(Stored)) <= Cardinality(E)
    BY <2>3, <2>4, FS_Surjection
  <2>6. /\ IsFiniteSet(used) /\ Cardinality(used) <= Cardinality(Members(Stored))
        /\ Cardinality(used) \in Nat /\ Cardinality(Members(Stored)) \in Nat
    BY <2>5, FewerEntries
  <2>7. Cardinality(E) \in Nat /\ w.threshold \in Nat
    BY <2>2, <2>3, FS_CardinalityType, VersionsValid, Sizes DEF Known, InForce
  <2>8. Cardinality(used) <= w.threshold
    BY <2>2, <2>5, <2>6, <2>7
  <2>9. used # Nonces
    BY <1>1, <2>2, <2>6, <2>8 DEF NoncesSuffice
  <2>10. \E id \in Nonces : id \notin Members(Stored)
    BY <2>9
  <2> QED
    BY <2>10 DEF FreshNonce
<1> QED
  BY <1>2, <1>3

\* A log admits.
LEMMA LogTaken ==
    ASSUME NoncesSuffice, Known, NEW h \in Holders, Grant(h), NEW v, copy[h] = v,
           v.algo = "sliding_log",
           NEW M \in Nat, v.threshold <= M, LogCover(Stored, taken, now, age, v, M)
    PROVE  LogCover(val', taken + 1, now, age, v, M)
<1> DEFINE L == LogLength(v)
           kept == LogKept(Stored, now, v)
           new == [at |-> now, id |-> FreshNonce]
           A == IF taken = 0 THEN {} ELSE Recent(Stored, now - age)
           B == Recent(val', now - age)
<1> SUFFICES ASSUME age < L PROVE LogCover(val', taken + 1, now, age, v, M)
  BY DEF LogCover
<1>1. /\ Valid(v) /\ v \in history /\ ~WrongType(Stored, "sliding_log")
      /\ now \in Nat /\ age \in Nat /\ taken \in Nat /\ L \in Nat
      /\ v.threshold \in Nat /\ Second \in Nat
  BY Grants, Sizes DEF Known, InForce
<1>2. /\ PastLog(val', now) /\ val'.entries = {e \in kept : e.id # FreshNonce} \cup {new}
      /\ IsFiniteSet(kept) /\ Cardinality(kept) < v.threshold
      /\ val'.expireAt = now + L + Second
  BY LogGrant
<1>3. \A e \in kept : e.id # FreshNonce
  <2>1. kept # {} => Stored.type = "zset" /\ kept \subseteq Stored.entries
    <3>1. Stored # Absent => Stored.type = "zset"
      BY <1>1, FoundIs DEF Algorithms, PastLog
    <3> QED
      BY <3>1 DEF LogKept, Exists, Absent
  <2>2. FreshNonce \notin Members(Stored)
    BY <1>1, NonceIsNew
  <2> QED
    BY <2>1, <2>2 DEF Members
<1>4. /\ A \subseteq kept /\ taken <= Cardinality(A)
  <2>1. CASE taken = 0
    BY <2>1, FS_EmptySet
  <2>2. CASE taken # 0
    <3>1. Stored.type = "zset" /\ taken <= Cardinality(Recent(Stored, now - age))
      BY <2>2 DEF LogCover
    <3> QED
      BY <1>1, <2>2, <3>1, RecentKept
  <2> QED
    BY <2>1, <2>2
<1>5. new \notin A /\ A \cup {new} \subseteq B
  <2>1. new.id = FreshNonce /\ new.at = now /\ now >= now - age
    BY <1>1
  <2>2. \A e \in A : e.at >= now - age
    BY DEF Recent
  <2>3. val'.entries = kept \cup {new}
    BY <1>2, <1>3
  <2> HIDE DEF A, kept, new
  <2>4. new \notin A
    BY <1>3, <1>4, <2>1
  <2> QED
    BY <1>4, <2>1, <2>2, <2>3, <2>4 DEF Recent
<1>6. IsFiniteSet(B)
  BY <1>2, FS_Subset DEF Recent, PastLog
<1>7. val'.type = "zset" /\ val'.expireAt >= now - age + L
  <2> HIDE DEF L
  <2> QED
    BY <1>1, <1>2 DEF PastLog
<1> HIDE DEF A, B, kept, new
<1>8. /\ IsFiniteSet(A) /\ Cardinality(A) \in Nat /\ Cardinality(A) <= Cardinality(kept)
      /\ Cardinality(kept) \in Nat
  BY <1>2, <1>4, FewerEntries
<1>9. Cardinality(A \cup {new}) = Cardinality(A) + 1
  BY <1>5, <1>8, FS_AddElement
<1>10. Cardinality(A \cup {new}) <= Cardinality(B) /\ Cardinality(B) \in Nat
  BY <1>5, <1>6, FewerEntries
<1>11. taken + 1 <= M /\ taken + 1 <= Cardinality(B)
  BY <1>1, <1>2, <1>4, <1>8, <1>9, <1>10
<1> QED
  BY <1>7, <1>11 DEF LogCover, B

\* A log is trimmed.
LEMMA LogTrims ==
    ASSUME Known, NEW v, Valid(v), ~WrongType(Stored, "sliding_log"), NEW M \in Nat,
           NEW y, y = LogEvicted(Stored, now, v), LogCover(Stored, taken, now, age, v, M)
    PROVE  LogCover(y, taken, now, age, v, M)
<1> DEFINE L == LogLength(v)
           kept == LogKept(Stored, now, v)
<1> SUFFICES ASSUME age < L, taken # 0 PROVE LogCover(y, taken, now, age, v, M)
  BY DEF LogCover
<1>1. /\ taken <= M /\ Stored.type = "zset" /\ taken <= Cardinality(Recent(Stored, now - age))
      /\ Stored.expireAt >= now - age + L
  BY DEF LogCover
<1>2. Recent(Stored, now - age) \subseteq kept
  BY <1>1, RecentKept
<1>3. CASE y = Absent
  <2>1. kept = {}
    <3>1. CASE kept # {}
      <4>1. y.type = "zset"
        BY <1>1, <3>1, KeptFacts DEF LogEvicted, PastLog
      <4> QED
        BY <1>3, <4>1 DEF Absent
    <3> QED
      BY <3>1
  <2>2. Recent(Stored, now - age) = {}
    BY <1>2, <2>1
  <2>3. taken <= 0 /\ taken \in Nat
    BY <1>1, <2>2, FS_EmptySet DEF Known, InForce
  <2> QED
    BY <2>3
<1>4. CASE y # Absent
  <2>1. /\ Stored = val /\ y.type = "zset" /\ y.expireAt = val.expireAt
        /\ y.entries = {e \in val.entries : e.at > now - L}
    BY <1>4, Trimmed
  <2>2. kept \subseteq y.entries
    BY <1>1, <2>1 DEF LogKept
  <2>3. Recent(y, now - age) = Recent(Stored, now - age)
    <3> HIDE DEF kept
    <3> QED
      BY <1>2, <2>1, <2>2 DEF Recent
  <2> QED
    BY <1>1, <2>1, <2>3 DEF LogCover
<1> QED
  BY <1>3, <1>4

\* What is left where a request was admitted lives on.
LEMMA GrantLives ==
    ASSUME Known, NEW h \in Holders, Grant(h)
    PROVE  val'.expireAt \in Nat /\ val'.expireAt >= now
<1> DEFINE v == copy[h]
           thr == v.threshold
           full == TokenFull(v)
<1>1. /\ Valid(v) /\ v.algo \in Algorithms /\ now \in Nat /\ Second \in Nat
      /\ full \in Nat /\ thr \in Nat \ {0}
  BY Grants, Sizes DEF Known, InForce
<1>2. CASE v.algo = "token_bucket"
  <2> DEFINE tk == TokenNow(Found(h), now, v) - Second
  <2>1. tk \in Nat /\ tk <= full - Second /\ val'.expireAt = now + CeilDiv(full - tk, thr) + Second
    BY <1>2, TokenGrant DEF TokenFullIn
  <2> HIDE DEF tk, full, thr
  <2>2. full - tk \in Nat
    BY <1>1, <2>1
  <2>3. CeilDiv(full - tk, thr) \in Nat
    BY <1>1, <2>2, CeilDivNat
  <2> QED
    BY <1>1, <2>1, <2>3
<1>3. CASE v.algo = "leaky_bucket"
  <2> DEFINE lv == LeakyNow(Found(h), now, v) + Second
  <2>1. lv \in Nat /\ val'.expireAt = now + CeilDiv(lv, thr) + Second
    BY <1>3, LeakyGrant DEF LeakyDrainsIn
  <2> HIDE DEF lv, thr
  <2>2. CeilDiv(lv, thr) \in Nat
    BY <1>1, <2>1, CeilDivNat
  <2> QED
    BY <1>1, <2>1, <2>2
<1>4. CASE v.algo = "fixed_window"
  <2>1. FixedLength(v) \in Nat /\ val'.expireAt = now + FixedLength(v) + Second
    BY <1>1, <1>4, Sizes, FixedGrant
  <2> QED
    BY <1>1, <2>1
<1>5. CASE v.algo = "sliding_window"
  <2>1. SlidingLength(v) \in Nat /\ val'.expireAt = now + 2 * SlidingLength(v) + Second
    BY <1>1, <1>5, Sizes, SlidingGrant
  <2> QED
    BY <1>1, <2>1
<1>6. CASE v.algo = "sliding_log"
  <2>1. LogLength(v) \in Nat /\ val'.expireAt = now + LogLength(v) + Second
    BY <1>1, <1>6, Sizes, LogGrant
  <2> QED
    BY <1>1, <2>1
<1> QED
  BY <1>1, <1>2, <1>3, <1>4, <1>5, <1>6 DEF Algorithms

\* Versions that differ in their threshold only cover each other.
LEMMA SameCover ==
    ASSUME NEW u, NEW v, u.algo = v.algo, u.burst = v.burst, u.window = v.window,
           NEW x, NEW n, NEW t, NEW a, NEW M, Cover(x, n, t, a, u, M)
    PROVE  Cover(x, n, t, a, v, M)
<1>1. /\ TokenFull(u) = TokenFull(v) /\ FixedLength(u) = FixedLength(v)
      /\ SlidingLength(u) = SlidingLength(v) /\ LogLength(u) = LogLength(v)
  BY DEF TokenFull, FixedLength, SlidingLength, LogLength
<1>2. /\ SlidingStart(t, u) = SlidingStart(t, v)
      /\ SlidingCounts(x, t, u) = SlidingCounts(x, t, v)
  BY <1>1 DEF SlidingStart, SlidingCounts
<1>3. /\ TokensCover(x, n, t, a, u, M) => TokensCover(x, n, t, a, v, M)
      /\ WaterCover(x, n, t, a, u, M) => WaterCover(x, n, t, a, v, M)
  BY <1>1 DEF TokensCover, WaterCover
<1>4. CountCover(x, n, t, a, u, M) => CountCover(x, n, t, a, v, M)
  BY <1>1 DEF CountCover
<1>5. CountsCover(x, n, t, a, u, M) => CountsCover(x, n, t, a, v, M)
  BY <1>1, <1>2 DEF CountsCover
<1>6. LogCover(x, n, t, a, u, M) => LogCover(x, n, t, a, v, M)
  BY <1>1 DEF LogCover
<1> QED
  BY <1>3, <1>4, <1>5, <1>6 DEF Cover

\* Nothing was admitted yet.
LEMMA NoneTaken ==
    ASSUME NEW v, Valid(v), NEW x, NEW t \in Nat, NEW M \in Nat
    PROVE  Cover(x, 0, t, 0, v, M)
<1>1. FixedLength(v) \in Nat \ {0}
  BY Sizes
<1>2. Seams(t, 0, FixedLength(v)) \in Nat
  BY <1>1, SeamsFacts
<1>3. 0 <= M * Seams(t, 0, FixedLength(v))
  BY <1>2, Products
<1> QED
  BY <1>3 DEF Cover, TokensCover, WaterCover, CountCover, CountsCover, LogCover

\* Time passes.
LEMMA CoverLater ==
    ASSUME Known, NEW v, Valid(v), NEW M \in Nat, Cover(Stored, taken, now, age, v, M)
    PROVE  Cover(Visible(Stored, now + 1), taken, now + 1, age + 1, v, M)
<1>1. now \in Nat /\ age \in Nat /\ age <= now /\ taken \in Nat
  BY DEF Known, InForce
<1>2. /\ Stored.type = "hash" => PastHash(Stored, now)
      /\ Stored.type = "zset" => PastLog(Stored, now)
  <2>1. Past(Stored, now)
    BY StoredIs
  <2> QED
    BY <2>1 DEF Past, PastHash, PastLog, Absent
<1> DEFINE x == Stored
<1> HIDE DEF x
<1>3. TokensCover(x, taken, now, age, v, M)
         => TokensCover(Visible(x, now + 1), taken, now + 1, age + 1, v, M)
  BY <1>1, TokensLater
<1>4. WaterCover(x, taken, now, age, v, M)
         => WaterCover(Visible(x, now + 1), taken, now + 1, age + 1, v, M)
  BY <1>1, WaterLater
<1>5. CountCover(x, taken, now, age, v, M)
         => CountCover(Visible(x, now + 1), taken, now + 1, age + 1, v, M)
  BY <1>1, <1>2, CountLater DEF x
<1>6. CountsCover(x, taken, now, age, v, M)
         => CountsCover(Visible(x, now + 1), taken, now + 1, age + 1, v, M)
  BY <1>1, <1>2, CountsCoverLater DEF x
<1>7. LogCover(x, taken, now, age, v, M)
         => LogCover(Visible(x, now + 1), taken, now + 1, age + 1, v, M)
  BY <1>1, <1>2, LogLater DEF x
<1> QED
  BY <1>3, <1>4, <1>5, <1>6, <1>7 DEF Cover, x

\* A request is admitted.
LEMMA CoverTaken ==
    ASSUME NoncesSuffice, Known, NEW h \in Holders, Grant(h), NEW v, copy[h] = v,
           NEW M \in Nat, v.threshold <= M, Cover(Stored, taken, now, age, v, M)
    PROVE  Cover(val', taken + 1, now, age, v, M)
  BY TokensTaken, WaterTaken, CountTaken, CountsTaken, LogTaken DEF Cover

\* What has been covered was within the quota.
LEMMA CoverWithin ==
    ASSUME Known, NEW v \in history, Cover(Stored, taken, now, age, v, v.threshold)
    PROVE  Within(v)
<1> DEFINE thr == v.threshold
           x == Stored
           n == taken
           a == age
<1>1. /\ Valid(v) /\ v.algo \in Algorithms /\ n \in Nat /\ now \in Nat /\ a \in Nat /\ a <= now
      /\ thr \in Nat /\ Second \in Nat
  BY VersionsValid, Sizes DEF Known, InForce, Valid
<1>2. ASSUME v.algo \in Buckets PROVE Within(v)
  <2> DEFINE full == TokenFull(v)
  <2>1. full \in Nat /\ v.burst * Second = full
    BY <1>1, Sizes
  <2>2. n * Second \in Nat /\ thr * a \in Nat /\ 0 * Second = 0
    BY <1>1, Products
  <2>3. ASSUME NEW k, NEW last, NEW exp, CreditLeft(k, last, exp, n, now, a, full, thr)
        PROVE  n * Second <= full + thr * a
    <3> HIDE DEF n, a, thr, full
    <3>1. /\ k \in Nat /\ now - last \in Nat /\ now - last <= a
          /\ n * Second + k <= full + thr * (a - (now - last))
      BY <1>1, <2>3 DEF CreditLeft
    <3>2. thr * (a - (now - last)) <= thr * a /\ thr * (a - (now - last)) \in Nat
      <4>1. a - (now - last) \in Nat /\ a - (now - last) <= a
        BY <1>1, <3>1
      <4> DEFINE b == a - (now - last)
      <4> HIDE DEF b
      <4>2. b * thr <= a * thr /\ b * thr = thr * b /\ a * thr = thr * a /\ thr * b \in Nat
        BY <1>1, <4>1, Products DEF b
      <4> QED
        BY <4>2 DEF b
    <3> QED
      BY <2>1, <2>2, <3>1, <3>2
  <2>4. n = 0 \/ n * Second <= thr * a \/ n * Second <= full + thr * a
    BY <1>2, <2>3 DEF Buckets, Cover, TokensCover, WaterCover
  <2>5. n * Second <= full + thr * a
    <3> HIDE DEF n, full, thr, a
    <3> QED
      BY <2>1, <2>2, <2>4
  <2>6. taken * Second <= v.burst * Second + v.threshold * age
    BY <2>1, <2>5
  <2> HIDE DEF n, a, x, thr, full
  <2> QED
    BY <1>2, <2>6 DEF Within, Buckets
<1>3. ASSUME v.algo = "fixed_window" PROVE Within(v)
  <2> DEFINE W == FixedLength(v)
             k == Seams(now, a, W)
  <2>1. k \in Nat
    BY <1>1, Sizes, SeamsFacts
  <2>2. thr * (k + 1) = thr * k + thr /\ thr * k \in Nat
    BY <1>1, <2>1, Products
  <2>3. n <= thr * k \/ (x.c \in Nat /\ x.c <= thr /\ n <= thr * k + x.c)
    <3>1. x.type = "hash" /\ "w" \in DOMAIN x => x.c \in Nat
      BY StoredIs DEF Past, PastHash, PastLog, Absent
    <3> QED
      BY <1>3, <3>1 DEF Cover, CountCover
  <2>4. n <= thr * (k + 1)
    <3> HIDE DEF n, k, thr
    <3> QED
      BY <1>1, <2>1, <2>2, <2>3
  <2>5. k + 1 = now \div W - (now - age) \div W + 1
    BY DEF Seams
  <2> QED
    BY <1>3, <2>4, <2>5 DEF Within, Buckets
<1>4. ASSUME v.algo = "sliding_window" PROVE Within(v)
  <2> DEFINE W == SlidingLength(v)
             s == SlidingStart(now, v)
             r == now - s
             c == SlidingCounts(x, now, v)
             ca == c.ca
             cb == c.cb
             N == thr + 1
  <2> SUFFICES ASSUME a <= W PROVE n * W < N * W + thr * a
    BY <1>4 DEF Within, Buckets
  <2>1. W \in Nat \ {0} /\ Second \in Nat \ {0}
    BY <1>1, Sizes
  <2>2. s \in Nat /\ s <= now /\ now < s + W
    <3>1. s = WindowStart(now, W)
      BY DEF SlidingStart
    <3> HIDE DEF W
    <3> QED
      BY <1>1, <2>1, <3>1, WindowFacts
  <2>3. r \in Nat /\ r < W /\ N \in Nat \ {0} /\ N * W = thr * W + W
    <3>1. (thr + 1) * W = thr * W + W
      BY <1>1, <2>1, Products
    <3> HIDE DEF s, W, thr
    <3> QED
      BY <1>1, <2>1, <2>2, <3>1
  <2>4. thr * a \in Nat /\ thr * W \in Nat
    BY <1>1, <2>1, Products
  <2>5. CASE n = 0
    <3> HIDE DEF n, thr, N, W, a
    <3>1. n * W = 0
      BY <2>1, <2>5
    <3> QED
      BY <2>1, <2>3, <2>4, <3>1
  <2>6. CASE CountsFit(x, c, r, W, n, a, thr)
    <3>1. CASE n = 0
      BY <2>5, <3>1
    <3>2. CASE n # 0
      <4>1. ca \in Nat /\ cb \in Nat
        <5>1. x = Absent \/ (x.a \in Nat /\ x.a <= now)
          BY <2>6, StoredIs DEF CountsFit, Past, PastHash, PastLog, Absent
        <5>2. x = Absent \/ (x.ca \in Nat /\ x.cb \in Nat)
          BY <2>6, StoredIs DEF CountsFit, Past, PastHash, PastLog, Absent
        <5> QED
          BY <1>1, <5>1, <5>2, CountsLater
      <4>2. /\ cb * (W - r) + ca * W < N * W
            /\ (a <= r => n <= ca)
            /\ (a <= r + W => n <= ca \/ (cb <= thr /\ n <= ca + cb))
        BY <2>6 DEF CountsFit
      <4> HIDE DEF x, n, a, thr, W, s, r, c, ca, cb, N
      <4>3. cb * (W - r) \in Nat /\ cb * r \in Nat /\ ca * W \in Nat /\ n * W \in Nat
        <5>1. W - r \in Nat
          BY <2>1, <2>3
        <5> QED
          BY <1>1, <2>1, <2>3, <4>1, <5>1, Products
      <4>4. CASE n <= ca
        <5>1. n * W <= ca * W
          BY <1>1, <2>1, <4>1, <4>4, Products
        <5>2. N * W \in Int
          BY <2>1, <2>3, Products
        <5> QED
          BY <2>4, <4>2, <4>3, <5>1, <5>2
      <4>5. CASE ~(n <= ca)
        <5>1. cb <= thr /\ n <= ca + cb /\ r <= a
          BY <1>1, <2>1, <2>3, <4>1, <4>2, <4>5
        <5>2. n * W <= (ca + cb) * W /\ (ca + cb) * W = ca * W + cb * W
          <6>1. ca + cb \in Nat
            BY <4>1
          <6> QED
            BY <1>1, <2>1, <4>1, <5>1, <6>1, Products
        <5>3. cb * (W - r) = cb * W - cb * r /\ cb * W \in Nat
          BY <2>1, <2>3, <4>1, Products
        <5>4. cb * r <= thr * r /\ thr * r = r * thr /\ r * thr <= a * thr /\ a * thr = thr * a
          BY <1>1, <2>3, <4>1, <5>1, Products
        <5>5. cb * r <= thr * a
          <6>1. thr * r \in Int
            BY <1>1, <2>3, Products
          <6> QED
            BY <2>4, <4>3, <5>4, <6>1
        <5>6. N * W \in Int
          BY <2>1, <2>3, Products
        <5> QED
          BY <2>4, <4>2, <4>3, <5>2, <5>3, <5>5, <5>6
      <4> QED
        BY <4>4, <4>5
    <3> QED
      BY <3>1, <3>2
  <2> QED
    BY <1>4, <2>5, <2>6 DEF Cover, CountsCover
<1>5. ASSUME v.algo = "sliding_log" PROVE Within(v)
  BY <1>1, <1>5 DEF Within, Buckets, Cover, LogCover
<1> QED
  BY <1>1, <1>2, <1>3, <1>4, <1>5 DEF Algorithms, Buckets

\* Every step keeps what has been admitted within the thresholds.
LEMMA NextCovered == NoncesSuffice /\ Known /\ Covered /\ [Next]_vars => Covered'
<1> SUFFICES ASSUME NoncesSuffice, Known, Covered, [Next]_vars, SameShape(span'),
                    NEW v \in span', NEW M \in Nat, \A w \in span' : w.threshold <= M
             PROVE  Cover(Stored', taken', now', age', v, M)
  <2>1. Stored' = Visible(val', now')
    BY DEF Stored
  <2> QED
    BY <2>1 DEF Covered, SameShape
<1>1. /\ InForce /\ now \in Nat /\ age \in Nat /\ taken \in Nat /\ InForce'
      /\ history' = history
  <2>1. InForce'
    BY NextKnown DEF Known
  <2> QED
    BY <2>1 DEF Known, InForce, Next, vars, Advance, StartWatch, Expire, Load, Grant, Deny, Fail, Peek
<1>2. Valid(v)
  BY <1>1, VersionsValid DEF InForce
<1>3. Stored' = Visible(val', now')
  BY DEF Stored
<1>4. ASSUME span \subseteq span'
      PROVE  SameShape(span) /\ Cover(Stored, taken, now, age, v, M)
  <2>1. PICK u \in span : TRUE
    BY <1>1 DEF InForce
  <2>2. SameShape(span) /\ \A w \in span : w.threshold <= M
    BY <1>4 DEF SameShape
  <2>3. Cover(Stored, taken, now, age, u, M)
    BY <2>2 DEF Covered
  <2>4. u.algo = v.algo /\ u.burst = v.burst /\ u.window = v.window
    BY <1>4 DEF SameShape
  <2> QED
    BY <2>2, <2>3, <2>4, SameCover
<1>5. ASSUME span \subseteq span', val' = val, now' = now, taken' = taken, age' = age
      PROVE  Cover(Stored', taken', now', age', v, M)
  BY <1>3, <1>4, <1>5 DEF Stored
<1>6. CASE Advance
  <2>1. /\ val' = val /\ now' = now + 1 /\ age' = age + 1 /\ taken' = taken
        /\ Cover(Stored, taken, now, age, v, M)
    BY <1>4, <1>6 DEF Advance
  <2>2. Stored' = Visible(Stored, now + 1)
    <3>1. Stored' = Visible(val, now + 1)
      BY <1>3, <2>1
    <3>2. CASE Expired(val, now)
      <4>1. Exists(val) /\ now > val.expireAt /\ val.expireAt \in Nat
        BY <3>2 DEF Expired, Exists, Absent, Known, Past, PastHash, PastLog
      <4>2. Expired(val, now + 1)
        BY <1>1, <4>1 DEF Expired
      <4>3. Stored = Absent /\ Stored' = Absent
        BY <3>1, <3>2, <4>2 DEF Stored, Visible
      <4> QED
        BY <4>3 DEF Visible
    <3>3. CASE ~Expired(val, now)
      BY <3>1, <3>3 DEF Stored, Visible
    <3> QED
      BY <3>2, <3>3
  <2> QED
    BY <1>2, <2>1, <2>2, CoverLater
<1>7. CASE StartWatch
  <2>1. now' = now /\ age' = 0 /\ taken' = 0
    BY <1>7 DEF StartWatch
  <2> QED
    BY <1>1, <1>2, <2>1, NoneTaken
<1>8. CASE Expire
  <2>1. /\ span' = span /\ now' = now /\ age' = age /\ taken' = taken /\ Stored = Absent
        /\ Stored' = Absent
    BY <1>3, <1>8 DEF Expire, Stored, Visible, Expired, Exists, Absent
  <2> QED
    BY <1>4, <2>1
<1>9. ASSUME NEW h \in Holders, NEW w \in history, Load(h, w)
      PROVE  Cover(Stored', taken', now', age', v, M)
  BY <1>5, <1>9 DEF Load
<1>10. ASSUME NEW h \in Holders, Grant(h) PROVE Cover(Stored', taken', now', age', v, M)
  <2> DEFINE u == copy[h]
  <2>1. span' = span /\ u \in span /\ now' = now /\ age' = age
    BY <1>1, <1>10 DEF Grant, InForce
  <2>2. /\ SameShape(span) /\ Cover(Stored, taken, now, age, v, M)
        /\ u.algo = v.algo /\ u.burst = v.burst /\ u.window = v.window
    BY <1>4, <2>1 DEF SameShape
  <2>3. taken' = taken + 1
    BY <1>10, <2>2 DEF Grant
  <2>4. Cover(Stored, taken, now, age, u, M) /\ u.threshold <= M
    BY <2>1, <2>2, SameCover
  <2>5. Cover(val', taken + 1, now, age, u, M)
    BY <1>10, <2>4, CoverTaken
  <2>6. Cover(val', taken + 1, now, age, v, M)
    BY <2>2, <2>5, SameCover
  <2>7. Stored' = val'
    <3>1. val'.expireAt >= now /\ val'.expireAt \in Nat
      BY <1>10, GrantLives
    <3>2. ~(now > val'.expireAt)
      BY <1>1, <3>1
    <3> QED
      BY <1>3, <2>1, <3>2 DEF Visible, Expired
  <2> QED
    BY <2>1, <2>3, <2>6, <2>7
<1>11. ASSUME NEW h \in Holders, Deny(h) \/ Peek(h)
       PROVE  Cover(Stored', taken', now', age', v, M)
  <2> DEFINE u == copy[h]
  <2>1. span' = span /\ u \in span /\ now' = now /\ age' = age /\ taken' = taken
    BY <1>1, <1>11 DEF Deny, Peek, InForce
  <2>2. /\ Cover(Stored, taken, now, age, v, M)
        /\ u.algo = v.algo /\ u.burst = v.burst /\ u.window = v.window
    BY <1>4, <2>1 DEF SameShape
  <2>3. v.algo \in Algorithms
    BY <1>2 DEF Valid
  <2>4. /\ ~WrongType(Stored, v.algo)
        /\ val' = IF v.algo = "sliding_log" THEN LogEvicted(Stored, now, u) ELSE Stored
    BY <1>11, <2>2, <2>3, Looks DEF Fails
  <2>5. LogEvicted(Stored, now, u) = LogEvicted(Stored, now, v)
    BY <2>2 DEF LogEvicted, LogKept, LogLength
  <2>6. Cover(val', taken, now, age, v, M)
    <3>1. CASE v.algo = "sliding_log"
      <4>1. LogCover(Stored, taken, now, age, v, M)
        BY <2>2, <3>1 DEF Cover
      <4>2. LogCover(val', taken, now, age, v, M)
        BY <1>2, <2>4, <2>5, <3>1, <4>1, LogTrims
      <4> QED
        BY <3>1, <4>2 DEF Cover
    <3>2. CASE v.algo # "sliding_log"
      BY <2>2, <2>4, <3>2
    <3> QED
      BY <3>1, <3>2
  <2>7. Stored' = val'
    <3>1. val' = Absent \/ (val'.expireAt = val.expireAt /\ now <= val.expireAt /\ val.expireAt \in Nat)
      <4>1. CASE v.algo # "sliding_log"
        <5>1. val' = Absent \/ (val' = val /\ now <= val.expireAt)
          BY <2>4, <4>1, StoredIs
        <5> QED
          BY <5>1 DEF Known, Past, PastHash, PastLog
      <4>2. CASE v.algo = "sliding_log" /\ val' # Absent
        <5>1. now <= val.expireAt /\ val'.expireAt = val.expireAt /\ PastLog(val, now)
          BY <1>2, <2>4, <2>5, <4>2, Trimmed
        <5> QED
          BY <5>1 DEF PastLog
      <4> QED
        BY <4>1, <4>2
    <3>2. val' = Absent \/ ~(now > val'.expireAt)
      BY <1>1, <3>1
    <3> QED
      BY <1>3, <2>1, <3>2 DEF Visible, Expired
  <2> QED
    BY <2>1, <2>6, <2>7
<1>12. CASE UNCHANGED vars
  BY <1>5, <1>12 DEF vars
<1>13. ASSUME NEW h \in Holders, Fail(h) PROVE Cover(Stored', taken', now', age', v, M)
  BY <1>12, <1>13 DEF Fail
<1> QED
  BY <1>6, <1>7, <1>8, <1>9, <1>10, <1>11, <1>12, <1>13 DEF Next

\* The scripts, through any change of a rule, while the versions in force differ in their
\* threshold at most: no more is admitted than the most generous of them admits.
THEOREM HotChangeQuotaHolds == ASSUME NoncesSuffice PROVE Spec => []QuotaHolds
<1>1. Known /\ Covered => QuotaHolds
  <2> SUFFICES ASSUME Known, Covered, SameShape(span) PROVE \E v \in span : Within(v)
    BY DEF QuotaHolds
  <2> DEFINE T == {v.threshold : v \in span}
             g == [v \in span |-> v.threshold]
  <2>1. history \in Histories /\ IsFiniteSet(history) /\ span \subseteq history /\ span # {}
    BY HotChangeAssumption DEF Known, InForce
  <2>2. g \in Surjection(span, T)
    BY DEF Surjection
  <2>3. IsFiniteSet(T)
    BY <2>1, <2>2, FS_Subset, FS_Surjection
  <2>4. T \in SUBSET Nat /\ T # {}
    BY <2>1, VersionsValid DEF Valid
  <2>5. PICK m \in T : \A x \in T : m >= x
    BY <2>3, <2>4, Greatest
  <2>6. PICK v \in span : v.threshold = m
    BY <2>5
  <2>7. \A w \in span : w.threshold <= v.threshold
    BY <2>4, <2>5, <2>6
  <2>8. Cover(Stored, taken, now, age, v, v.threshold)
    BY <2>4, <2>5, <2>6, <2>7 DEF Covered
  <2> QED
    BY <2>1, <2>6, <2>8, CoverWithin
<1>2. Init => Covered
  <2> SUFFICES ASSUME Init, NEW v \in span, NEW M \in Nat
               PROVE  Cover(Stored, taken, now, age, v, M)
    BY DEF Covered
  <2>1. taken = 0 /\ now = 0 /\ age = 0 /\ InForce
    BY InitKnown DEF Init, Known
  <2> QED
    BY <2>1, VersionsValid, NoneTaken DEF InForce
<1> QED
  BY <1>1, <1>2, AlwaysKnown, NextCovered, PTL DEF Spec
=============================================================================
