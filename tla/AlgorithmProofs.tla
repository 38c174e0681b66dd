--------------------------- MODULE AlgorithmProofs ---------------------------
(***************************************************************************)
(* The five algorithms, whatever the keys, the quotas, the calls and the   *)
(* length of a run.                                                        *)
(*                                                                         *)
(* First the token bucket and the leaky bucket, which never over-admit,    *)
(* whatever the clock does.                                                *)
(* The argument is a potential: what a key has admitted since the stop-    *)
(* watch was started, plus what its bucket holds, never exceeds a full     *)
(* bucket plus the refill of the time elapsed.  It needs to know that a    *)
(* key that has expired is a full one, hence what its time to live is.     *)
(*                                                                         *)
(* As long as Redis' clock is never set back, both implement the ideal     *)
(* bucket; hence none refuses a request that those it admitted do not      *)
(* account for.  That needs that no key was written in the future: only    *)
(* then is the refill of a unit of time what it should be, not just at     *)
(* most that.  The releases a leaky bucket promises stay a leak interval   *)
(* apart whatever the clock does.                                          *)
(*                                                                         *)
(* Then the windows and the log.  The sliding log never admits more than   *)
(* its limit in a window, even if the clock is set back.  As long as it is *)
(* not, the fixed window admits at most its limit in each aligned window,  *)
(* the sliding window does not double its limit across a seam, and all     *)
(* three refuse only when they have admitted their limit.                  *)
(***************************************************************************)
EXTENDS Engine, Arithmetic, FiniteSetTheorems

-----------------------------------------------------------------------------
(***************************************************************************)
(* What the scripts of the token bucket and of the leaky bucket do to one  *)
(* key: what they store is between empty and full, a grant pays one        *)
(* request, time gives at most the rate, a clock that is set back gives    *)
(* nothing, and a key whose time to live has passed says nothing.          *)
(***************************************************************************)

\* A stored bucket, with the time to live its last update gave it.
StoredTokens(v, cfg) ==
    /\ v \in TokenValues(cfg)
    /\ v.expireAt = v.last + TokenFullIn(v.tokens, cfg) + Second

\* A stored queue, likewise.
StoredWater(v, cfg) ==
    /\ v \in LeakyValues(cfg)
    /\ v.expireAt = v.last + LeakyDrainsIn(v.level, cfg) + Second

-----------------------------------------------------------------------------
(***************************************************************************)
(* Arithmetic, and the token bucket.                                       *)
(***************************************************************************)

\* Facts about a level's numbers.
LEMMA LevelFacts ==
    ASSUME NEW cfg \in Level
    PROVE  /\ cfg.threshold \in Nat \ {0} /\ cfg.burst \in Nat \ {0}
           /\ TokenFull(cfg) \in Nat /\ TokenFull(cfg) >= Second
           /\ TokenFull(cfg) = cfg.burst * Second
<1>1. cfg.threshold \in Nat \ {0} /\ cfg.burst \in Nat \ {0} /\ Second \in Nat \ {0}
  BY EngineAssumption DEF Level
<1>2. \A m, n \in Nat \ {0} : m * n \in Nat /\ m * n >= n
  OBVIOUS
<1> QED
  BY <1>1, <1>2 DEF TokenFull

\* A bucket holds between nothing and its capacity.
LEMMA TokenNowType ==
    ASSUME NEW cfg \in Level, NEW t \in Nat, NEW v,
           v = Absent \/ StoredTokens(v, cfg)
    PROVE  TokenNow(v, t, cfg) \in 0 .. TokenFull(cfg)
<1>1. CASE v = Absent
  BY <1>1, LevelFacts DEF TokenNow, Exists, Absent
<1>2. CASE StoredTokens(v, cfg)
  <2>1. v.tokens \in 0 .. TokenFull(cfg) /\ v.last \in Nat
    BY <1>2 DEF StoredTokens, TokenValues
  <2>2. Larger(0, t - v.last) \in Nat
    BY <2>1 DEF Larger
  <2>3. Larger(0, t - v.last) * cfg.threshold \in Nat
    BY <2>2, LevelFacts
  <2> QED
    BY <2>1, <2>3, LevelFacts DEF TokenNow, Smaller, Exists, Absent
<1> QED
  BY <1>1, <1>2

\* What a script stores is a stored bucket.
LEMMA TokenHashStored ==
    ASSUME NEW cfg \in Level, NEW t \in Nat, NEW tk \in 0 .. TokenFull(cfg)
    PROVE  StoredTokens(TokenHash(tk, t, cfg), cfg)
<1>1. TokenFull(cfg) - tk \in Int /\ TokenFull(cfg) - tk >= 0
  BY LevelFacts
<1>2. TokenFullIn(tk, cfg) \in Nat
  BY <1>1, LevelFacts, CeilDivFacts DEF TokenFullIn
<1>3. t + TokenFullIn(tk, cfg) + Second \in Nat
  BY <1>2, EngineAssumption
<1> QED
  BY <1>3 DEF StoredTokens, TokenHash, TokenValues

\* The bucket just stored holds what was stored.
LEMMA TokenHashNow ==
    ASSUME NEW cfg \in Level, NEW t \in Nat, NEW tk \in 0 .. TokenFull(cfg)
    PROVE  TokenNow(TokenHash(tk, t, cfg), t, cfg) = tk
<1>1. Larger(0, t - t) * cfg.threshold = 0
  BY LevelFacts DEF Larger
<1> QED
  BY <1>1, LevelFacts DEF TokenNow, TokenHash, Smaller, Exists

\* A bucket whose key has expired is full, so its deletion changes nothing.
LEMMA TokenExpiredIsFull ==
    ASSUME NEW cfg \in Level, NEW t \in Nat, NEW v,
           StoredTokens(v, cfg), t > v.expireAt
    PROVE  TokenNow(v, t, cfg) = TokenFull(cfg)
<1>1. /\ v.tokens \in 0 .. TokenFull(cfg) /\ v.last \in Nat /\ Exists(v)
      /\ v.expireAt = v.last + TokenFullIn(v.tokens, cfg) + Second
  BY DEF StoredTokens, TokenValues, Exists
<1> DEFINE short == TokenFull(cfg) - v.tokens
           wait  == CeilDiv(short, cfg.threshold)
           gap   == Larger(0, t - v.last)
<1>2. short \in Int /\ short >= 0
  BY <1>1, LevelFacts
<1>3. wait \in Nat /\ wait * cfg.threshold >= short
  BY <1>2, LevelFacts, CeilDivFacts
<1>4. gap \in Nat /\ gap >= wait
  BY <1>1, <1>3, EngineAssumption DEF Larger, TokenFullIn
<1>5. gap * cfg.threshold >= wait * cfg.threshold
  <2> HIDE DEF gap, wait
  <2> QED
    BY <1>3, <1>4, LevelFacts
<1>6. gap * cfg.threshold \in Nat /\ wait * cfg.threshold \in Nat
  BY <1>3, <1>4, LevelFacts
<1>7. v.tokens + gap * cfg.threshold >= TokenFull(cfg)
  <2> HIDE DEF gap, wait
  <2> QED
    BY <1>1, <1>3, <1>5, <1>6, LevelFacts
<1> QED
  <2> HIDE DEF wait
  <2> QED
    BY <1>1, <1>6, <1>7, LevelFacts DEF TokenNow, Smaller

\* Hence what a script finds is worth as much as what is stored.
LEMMA TokenFoundIsStored ==
    ASSUME NEW cfg \in Level, NEW t \in Nat, NEW v,
           v = Absent \/ StoredTokens(v, cfg)
    PROVE  /\ TokenNow(Visible(v, t), t, cfg) = TokenNow(v, t, cfg)
           /\ Visible(v, t) = Absent \/ StoredTokens(Visible(v, t), cfg)
<1>1. CASE Expired(v, t)
  <2>1. StoredTokens(v, cfg) /\ t > v.expireAt
    BY <1>1 DEF Expired, Exists, Absent
  <2>2. TokenNow(v, t, cfg) = TokenFull(cfg)
    BY <2>1, TokenExpiredIsFull
  <2> QED
    BY <1>1, <2>2 DEF Visible, TokenNow, Exists, Absent
<1>2. CASE ~Expired(v, t)
  BY <1>2 DEF Visible
<1> QED
  BY <1>1, <1>2

\* In one unit of time a bucket gains at most its rate.
LEMMA TokenNowAdvance ==
    ASSUME NEW cfg \in Level, NEW t \in Nat, NEW v,
           v = Absent \/ StoredTokens(v, cfg)
    PROVE  TokenNow(v, t + 1, cfg) <= TokenNow(v, t, cfg) + cfg.threshold
<1>1. CASE v = Absent
  BY <1>1, LevelFacts DEF TokenNow, Exists, Absent
<1>2. CASE StoredTokens(v, cfg)
  <2>1. v.tokens \in 0 .. TokenFull(cfg) /\ v.last \in Nat /\ Exists(v)
    BY <1>2 DEF StoredTokens, TokenValues, Exists
  <2> DEFINE gap  == Larger(0, t - v.last)
             gap1 == Larger(0, (t + 1) - v.last)
  <2>2. gap \in Nat /\ gap1 \in Nat /\ (gap1 = gap \/ gap1 = gap + 1)
    BY <2>1 DEF Larger
  <2> HIDE DEF gap, gap1
  <2>3. gap1 * cfg.threshold <= gap * cfg.threshold + cfg.threshold
    BY <2>2, LevelFacts
  <2>4. gap * cfg.threshold \in Nat /\ gap1 * cfg.threshold \in Nat
    BY <2>2, LevelFacts
  <2>5. /\ TokenNow(v, t, cfg) = Smaller(TokenFull(cfg), v.tokens + gap * cfg.threshold)
        /\ TokenNow(v, t + 1, cfg)
             = Smaller(TokenFull(cfg), v.tokens + gap1 * cfg.threshold)
    BY <2>1 DEF TokenNow, gap, gap1
  <2> QED
    BY <2>1, <2>3, <2>4, <2>5, LevelFacts DEF Smaller
<1> QED
  BY <1>1, <1>2

\* When the clock is set back a bucket gains nothing.
LEMMA TokenNowBack ==
    ASSUME NEW cfg \in Level, NEW t \in Nat, NEW d \in Nat, d <= t, NEW v,
           v = Absent \/ StoredTokens(v, cfg)
    PROVE  TokenNow(v, t - d, cfg) <= TokenNow(v, t, cfg)
<1>1. CASE v = Absent
  BY <1>1, LevelFacts DEF TokenNow, Exists, Absent
<1>2. CASE StoredTokens(v, cfg)
  <2>1. v.tokens \in 0 .. TokenFull(cfg) /\ v.last \in Nat /\ Exists(v)
    BY <1>2 DEF StoredTokens, TokenValues, Exists
  <2> DEFINE gap  == Larger(0, t - v.last)
             gap1 == Larger(0, (t - d) - v.last)
  <2>2. gap \in Nat /\ gap1 \in Nat /\ gap1 <= gap
    BY <2>1 DEF Larger
  <2> HIDE DEF gap, gap1
  <2>3. gap1 * cfg.threshold <= gap * cfg.threshold
    BY <2>2, LevelFacts
  <2>4. gap * cfg.threshold \in Nat /\ gap1 * cfg.threshold \in Nat
    BY <2>2, LevelFacts
  <2>5. /\ TokenNow(v, t, cfg) = Smaller(TokenFull(cfg), v.tokens + gap * cfg.threshold)
        /\ TokenNow(v, t - d, cfg)
             = Smaller(TokenFull(cfg), v.tokens + gap1 * cfg.threshold)
    BY <2>1 DEF TokenNow, gap, gap1
  <2> QED
    BY <2>1, <2>3, <2>4, <2>5, LevelFacts DEF Smaller
<1> QED
  BY <1>1, <1>2

\* A bucket that admits pays one token for it.
LEMMA TokenTakePays ==
    ASSUME NEW cfg \in Level, NEW t \in Nat, NEW v,
           v = Absent \/ StoredTokens(v, cfg), TokenAdmits(v, t, cfg)
    PROVE  /\ StoredTokens(TokenTake(v, t, cfg).value, cfg)
           /\ TokenNow(TokenTake(v, t, cfg).value, t, cfg)
                = TokenNow(v, t, cfg) - Second
<1> DEFINE tk == TokenNow(v, t, cfg) - Second
<1>1. tk \in 0 .. TokenFull(cfg)
  BY TokenNowType, LevelFacts, EngineAssumption DEF TokenAdmits
<1>2. TokenTake(v, t, cfg).value = TokenHash(tk, t, cfg)
  BY DEF TokenTake
<1> HIDE DEF tk
<1>3. StoredTokens(TokenHash(tk, t, cfg), cfg) /\ TokenNow(TokenHash(tk, t, cfg), t, cfg) = tk
  BY <1>1, TokenHashStored, TokenHashNow
<1> QED
  BY <1>2, <1>3 DEF tk

\* The single-key script pays a token if it admits and does not merely look.
LEMMA TokenEvalPays ==
    ASSUME NEW cfg \in Level, NEW t \in Nat, NEW v, NEW peek \in BOOLEAN,
           v = Absent \/ StoredTokens(v, cfg)
    PROVE  /\ \/ TokenEval(v, t, cfg, peek).value = Absent
              \/ StoredTokens(TokenEval(v, t, cfg, peek).value, cfg)
           /\ TokenEval(v, t, cfg, peek).allowed /\ ~peek =>
                TokenNow(TokenEval(v, t, cfg, peek).value, t, cfg)
                    = TokenNow(v, t, cfg) - Second
           /\ ~TokenEval(v, t, cfg, peek).allowed \/ peek =>
                TokenNow(TokenEval(v, t, cfg, peek).value, t, cfg)
                    = TokenNow(v, t, cfg)
<1> DEFINE e     == TokenEval(v, t, cfg, peek)
           found == TokenNow(v, t, cfg)
           tk    == IF e.allowed /\ ~peek THEN found - Second ELSE found
<1>1. e.allowed = (found >= Second)
  BY DEF TokenEval
<1>2. tk \in 0 .. TokenFull(cfg)
  BY <1>1, TokenNowType, LevelFacts, EngineAssumption
<1>3. e.value = IF peek THEN v ELSE TokenHash(tk, t, cfg)
  BY DEF TokenEval
<1> HIDE DEF tk, e
<1>4. StoredTokens(TokenHash(tk, t, cfg), cfg) /\ TokenNow(TokenHash(tk, t, cfg), t, cfg) = tk
  BY <1>2, TokenHashStored, TokenHashNow
<1>5. tk = IF e.allowed /\ ~peek THEN found - Second ELSE found
  BY DEF tk
<1> QED
  BY <1>3, <1>4, <1>5 DEF e

-----------------------------------------------------------------------------
(***************************************************************************)
(* The leaky bucket.                                                       *)
(***************************************************************************)

\* A queue holds between nothing and its slots.
LEMMA LeakyNowType ==
    ASSUME NEW cfg \in Level, NEW t \in Nat, NEW v,
           v = Absent \/ StoredWater(v, cfg)
    PROVE  LeakyNow(v, t, cfg) \in 0 .. TokenFull(cfg)
<1>1. CASE v = Absent
  BY <1>1, LevelFacts DEF LeakyNow, Exists, Absent
<1>2. CASE StoredWater(v, cfg)
  <2>1. v.level \in 0 .. TokenFull(cfg) /\ v.last \in Nat
    BY <1>2 DEF StoredWater, LeakyValues, TokenFull
  <2>2. Larger(0, t - v.last) \in Nat
    BY <2>1 DEF Larger
  <2>3. Larger(0, t - v.last) * cfg.threshold \in Nat
    BY <2>2, LevelFacts
  <2> QED
    BY <2>1, <2>3, LevelFacts DEF LeakyNow
<1> QED
  BY <1>1, <1>2

\* What a script stores is a stored queue.
LEMMA LeakyHashStored ==
    ASSUME NEW cfg \in Level, NEW t \in Nat, NEW lv \in 0 .. TokenFull(cfg)
    PROVE  /\ StoredWater(LeakyHash(lv, t, cfg), cfg)
           /\ LeakyDrainsIn(lv, cfg) \in Nat
<1>1. LeakyDrainsIn(lv, cfg) \in Nat
  BY LevelFacts, CeilDivFacts DEF LeakyDrainsIn
<1>2. t + LeakyDrainsIn(lv, cfg) + Second \in Nat
  BY <1>1, EngineAssumption
<1> QED
  BY <1>1, <1>2 DEF StoredWater, LeakyHash, LeakyValues, TokenFull

\* The queue just stored holds what was stored.
LEMMA LeakyHashNow ==
    ASSUME NEW cfg \in Level, NEW t \in Nat, NEW lv \in 0 .. TokenFull(cfg)
    PROVE  LeakyNow(LeakyHash(lv, t, cfg), t, cfg) = lv
<1>1. Larger(0, t - t) * cfg.threshold = 0
  BY LevelFacts DEF Larger
<1> QED
  BY <1>1, LevelFacts DEF LeakyNow, LeakyHash, Exists

\* A queue whose key has expired is empty, so its deletion changes nothing.
LEMMA LeakyExpiredIsEmpty ==
    ASSUME NEW cfg \in Level, NEW t \in Nat, NEW v,
           StoredWater(v, cfg), t > v.expireAt
    PROVE  LeakyNow(v, t, cfg) = 0
<1>1. /\ v.level \in 0 .. TokenFull(cfg) /\ v.last \in Nat
      /\ v.expireAt = v.last + LeakyDrainsIn(v.level, cfg) + Second
  BY DEF StoredWater, LeakyValues, TokenFull
<1> DEFINE wait == CeilDiv(v.level, cfg.threshold)
           gap  == Larger(0, t - v.last)
<1>2. wait \in Nat /\ wait * cfg.threshold >= v.level
  BY <1>1, LevelFacts, CeilDivFacts
<1>3. gap \in Nat /\ gap >= wait
  BY <1>1, <1>2, EngineAssumption DEF Larger, LeakyDrainsIn
<1>4. gap * cfg.threshold >= wait * cfg.threshold
  <2> HIDE DEF gap, wait
  <2> QED
    BY <1>2, <1>3, LevelFacts
<1>5. gap * cfg.threshold \in Nat /\ wait * cfg.threshold \in Nat
  BY <1>2, <1>3, LevelFacts
<1>6. gap * cfg.threshold >= v.level
  <2> HIDE DEF gap, wait
  <2> QED
    BY <1>1, <1>2, <1>4, <1>5, LevelFacts
<1> QED
  BY <1>6 DEF LeakyNow

\* Hence what a script finds is worth as much as what is stored.
LEMMA LeakyFoundIsStored ==
    ASSUME NEW cfg \in Level, NEW t \in Nat, NEW v,
           v = Absent \/ StoredWater(v, cfg)
    PROVE  /\ LeakyNow(Visible(v, t), t, cfg) = LeakyNow(v, t, cfg)
           /\ Visible(v, t) = Absent \/ StoredWater(Visible(v, t), cfg)
<1>1. CASE Expired(v, t)
  <2>1. StoredWater(v, cfg) /\ t > v.expireAt
    BY <1>1 DEF Expired, Exists, Absent
  <2>2. LeakyNow(v, t, cfg) = 0
    BY <2>1, LeakyExpiredIsEmpty
  <2> QED
    BY <1>1, <2>2 DEF Visible, LeakyNow, Exists, Absent
<1>2. CASE ~Expired(v, t)
  BY <1>2 DEF Visible
<1> QED
  BY <1>1, <1>2

\* In one unit of time a queue drains at most at its rate.
LEMMA LeakyNowAdvance ==
    ASSUME NEW cfg \in Level, NEW t \in Nat, NEW v,
           v = Absent \/ StoredWater(v, cfg)
    PROVE  LeakyNow(v, t, cfg) <= LeakyNow(v, t + 1, cfg) + cfg.threshold
<1>1. CASE v = Absent
  BY <1>1, LevelFacts DEF LeakyNow, Exists, Absent
<1>2. CASE StoredWater(v, cfg)
  <2>1. v.level \in Nat /\ v.last \in Nat /\ Exists(v)
    BY <1>2, LevelFacts DEF StoredWater, LeakyValues, Exists, TokenFull
  <2> DEFINE gap  == Larger(0, t - v.last)
             gap1 == Larger(0, (t + 1) - v.last)
  <2>2. gap \in Nat /\ gap1 \in Nat /\ (gap1 = gap \/ gap1 = gap + 1)
    BY <2>1 DEF Larger
  <2>5. /\ LeakyNow(v, t, cfg) = IF gap * cfg.threshold >= v.level THEN 0
                                 ELSE v.level - gap * cfg.threshold
        /\ LeakyNow(v, t + 1, cfg) = IF gap1 * cfg.threshold >= v.level THEN 0
                                     ELSE v.level - gap1 * cfg.threshold
    BY <2>1 DEF LeakyNow
  <2> HIDE DEF gap, gap1
  <2>3. gap1 * cfg.threshold <= gap * cfg.threshold + cfg.threshold
    BY <2>2, LevelFacts
  <2>4. gap * cfg.threshold \in Nat /\ gap1 * cfg.threshold \in Nat
    BY <2>2, LevelFacts
  <2> QED
    BY <2>1, <2>3, <2>4, <2>5, LevelFacts
<1> QED
  BY <1>1, <1>2

\* When the clock is set back a queue drains nothing.
LEMMA LeakyNowBack ==
    ASSUME NEW cfg \in Level, NEW t \in Nat, NEW d \in Nat, d <= t, NEW v,
           v = Absent \/ StoredWater(v, cfg)
    PROVE  LeakyNow(v, t, cfg) <= LeakyNow(v, t - d, cfg)
<1>1. CASE v = Absent
  BY <1>1, LevelFacts DEF LeakyNow, Exists, Absent
<1>2. CASE StoredWater(v, cfg)
  <2>1. v.level \in Nat /\ v.last \in Nat /\ Exists(v)
    BY <1>2, LevelFacts DEF StoredWater, LeakyValues, Exists, TokenFull
  <2> DEFINE gap  == Larger(0, t - v.last)
             gap1 == Larger(0, (t - d) - v.last)
  <2>2. gap \in Nat /\ gap1 \in Nat /\ gap1 <= gap
    BY <2>1 DEF Larger
  <2>5. /\ LeakyNow(v, t, cfg) = IF gap * cfg.threshold >= v.level THEN 0
                                 ELSE v.level - gap * cfg.threshold
        /\ LeakyNow(v, t - d, cfg) = IF gap1 * cfg.threshold >= v.level THEN 0
                                     ELSE v.level - gap1 * cfg.threshold
    BY <2>1 DEF LeakyNow
  <2> HIDE DEF gap, gap1
  <2>3. gap1 * cfg.threshold <= gap * cfg.threshold
    BY <2>2, LevelFacts
  <2>4. gap * cfg.threshold \in Nat /\ gap1 * cfg.threshold \in Nat
    BY <2>2, LevelFacts
  <2> QED
    BY <2>1, <2>3, <2>4, <2>5, LevelFacts
<1> QED
  BY <1>1, <1>2

\* A queue with a slot free has room for one request's water.
LEMMA LeakyHasSlotFits ==
    ASSUME NEW cfg \in Level, NEW lv \in 0 .. TokenFull(cfg), LeakyHasSlot(lv, cfg)
    PROVE  lv + Second \in 0 .. TokenFull(cfg)
<1>1. cfg.burst \in Nat \ {0} /\ Second \in Nat \ {0}
  BY LevelFacts, EngineAssumption
<1>2. \A m, n \in Nat \ {0} : (m - 1) * n = m * n - n
  OBVIOUS
<1>3. (cfg.burst - 1) * Second = cfg.burst * Second - Second
  BY <1>1, <1>2
<1>4. cfg.burst * Second \in Nat
  BY <1>1
<1> QED
  BY <1>1, <1>3, <1>4 DEF LeakyHasSlot, TokenFull

\* A queue that admits takes in one request's water, and reports a release.
LEMMA LeakyTakePays ==
    ASSUME NEW cfg \in Level, NEW t \in Nat, NEW v,
           v = Absent \/ StoredWater(v, cfg), LeakyAdmits(v, t, cfg)
    PROVE  /\ StoredWater(LeakyTake(v, t, cfg).value, cfg)
           /\ LeakyNow(LeakyTake(v, t, cfg).value, t, cfg)
                = LeakyNow(v, t, cfg) + Second
           /\ LeakyTake(v, t, cfg).report.reset \in Nat
<1> DEFINE lv == LeakyNow(v, t, cfg) + Second
<1>1. lv \in 0 .. TokenFull(cfg)
  BY LeakyNowType, LeakyHasSlotFits DEF LeakyAdmits
<1>2. /\ LeakyTake(v, t, cfg).value = LeakyHash(lv, t, cfg)
      /\ LeakyTake(v, t, cfg).report.reset = LeakyDrainsIn(lv, cfg)
  BY DEF LeakyTake
<1> HIDE DEF lv
<1>3. /\ StoredWater(LeakyHash(lv, t, cfg), cfg)
      /\ LeakyNow(LeakyHash(lv, t, cfg), t, cfg) = lv
      /\ LeakyDrainsIn(lv, cfg) \in Nat
  BY <1>1, LeakyHashStored, LeakyHashNow
<1> QED
  BY <1>2, <1>3 DEF lv

\* The single-key script likewise, unless it merely looks.
LEMMA LeakyEvalPays ==
    ASSUME NEW cfg \in Level, NEW t \in Nat, NEW v, NEW peek \in BOOLEAN,
           v = Absent \/ StoredWater(v, cfg)
    PROVE  /\ \/ LeakyEval(v, t, cfg, peek).value = Absent
              \/ StoredWater(LeakyEval(v, t, cfg, peek).value, cfg)
           /\ LeakyEval(v, t, cfg, peek).allowed /\ ~peek =>
                /\ LeakyNow(LeakyEval(v, t, cfg, peek).value, t, cfg)
                     = LeakyNow(v, t, cfg) + Second
                /\ LeakyEval(v, t, cfg, peek).report.reset \in Nat
           /\ ~LeakyEval(v, t, cfg, peek).allowed \/ peek =>
                LeakyNow(LeakyEval(v, t, cfg, peek).value, t, cfg)
                    = LeakyNow(v, t, cfg)
<1> DEFINE e     == LeakyEval(v, t, cfg, peek)
           found == LeakyNow(v, t, cfg)
           lv    == IF e.allowed /\ ~peek THEN found + Second ELSE found
<1>1. e.allowed = LeakyHasSlot(found, cfg)
  BY DEF LeakyEval
<1>2. lv \in 0 .. TokenFull(cfg)
  BY <1>1, LeakyNowType, LeakyHasSlotFits
<1>3. /\ e.value = IF peek THEN v ELSE LeakyHash(lv, t, cfg)
      /\ e.allowed => e.report.reset = LeakyDrainsIn(lv, cfg)
  BY DEF LeakyEval
<1> HIDE DEF lv, e
<1>4. /\ StoredWater(LeakyHash(lv, t, cfg), cfg)
      /\ LeakyNow(LeakyHash(lv, t, cfg), t, cfg) = lv
      /\ LeakyDrainsIn(lv, cfg) \in Nat
  BY <1>2, LeakyHashStored, LeakyHashNow
<1>5. lv = IF e.allowed /\ ~peek THEN found + Second ELSE found
  BY DEF lv
<1> QED
  BY <1>3, <1>4, <1>5 DEF e

-----------------------------------------------------------------------------
(***************************************************************************)
(* The invariant.                                                          *)
(***************************************************************************)

\* What a bucket holds: the tokens, or the free part of the queue.
Holds(a, v, t, cfg) ==
    IF a = "token_bucket" THEN TokenNow(v, t, cfg)
    ELSE TokenFull(cfg) - LeakyNow(v, t, cfg)

\* A value the scripts of this bucket store.
Stored(a, v, cfg) ==
    IF a = "token_bucket" THEN StoredTokens(v, cfg) ELSE StoredWater(v, cfg)

\* The type invariant, with the observers' types and the time to live.
BucketInv ==
    /\ algo \in Algos
    /\ now \in Nat /\ age \in Nat
    /\ DOMAIN db = Keys
    /\ \A k \in Keys : db[k] = Absent \/ Stored(algo, db[k], Quota[k])
    /\ taken \in [Keys -> Nat] /\ due \in [Keys -> Nat]

\* The potential of each key.
Potential ==
    \A k \in Keys :
        taken[k] * Second + Holds(algo, db[k], now, Quota[k])
            <= Quota[k].burst * Second + Quota[k].threshold * age

-----------------------------------------------------------------------------
(***************************************************************************)
(* The lemmas of the two buckets, as one.                                  *)
(***************************************************************************)
\* What a bucket holds is between nothing and its capacity.
LEMMA HoldsType ==
    ASSUME NEW a \in Buckets, NEW cfg \in Level, NEW t \in Nat, NEW v,
           v = Absent \/ Stored(a, v, cfg)
    PROVE  Holds(a, v, t, cfg) \in 0 .. TokenFull(cfg)
<1>1. CASE a = "token_bucket"
  BY <1>1, TokenNowType DEF Holds, Stored
<1>2. CASE a # "token_bucket"
  <2>1. LeakyNow(v, t, cfg) \in 0 .. TokenFull(cfg)
    BY <1>2, LeakyNowType DEF Stored
  <2> QED
    BY <1>2, <2>1, LevelFacts DEF Holds
<1> QED
  BY <1>1, <1>2

\* A key that does not exist is a full bucket.
LEMMA AbsentIsFull ==
    ASSUME NEW a \in Buckets, NEW cfg \in Level, NEW t \in Nat
    PROVE  Holds(a, Absent, t, cfg) = TokenFull(cfg)
  BY LevelFacts DEF Holds, TokenNow, LeakyNow, Exists, Absent

\* A key that expired held a full bucket.
LEMMA FoundHolds ==
    ASSUME NEW a \in Buckets, NEW cfg \in Level, NEW t \in Nat, NEW v,
           v = Absent \/ Stored(a, v, cfg)
    PROVE  /\ Holds(a, Visible(v, t), t, cfg) = Holds(a, v, t, cfg)
           /\ Visible(v, t) = Absent \/ Stored(a, Visible(v, t), cfg)
<1>1. CASE a = "token_bucket"
  BY <1>1, TokenFoundIsStored DEF Holds, Stored
<1>2. CASE a # "token_bucket"
  BY <1>2, LeakyFoundIsStored DEF Holds, Stored
<1> QED
  BY <1>1, <1>2

\* Time gives at most the rate ...
LEMMA HoldsAdvance ==
    ASSUME NEW a \in Buckets, NEW cfg \in Level, NEW t \in Nat, NEW v,
           v = Absent \/ Stored(a, v, cfg)
    PROVE  Holds(a, v, t + 1, cfg) <= Holds(a, v, t, cfg) + cfg.threshold
<1>1. CASE a = "token_bucket"
  BY <1>1, TokenNowAdvance DEF Holds, Stored
<1>2. CASE a # "token_bucket"
  <2>1. /\ LeakyNow(v, t, cfg) <= LeakyNow(v, t + 1, cfg) + cfg.threshold
        /\ LeakyNow(v, t, cfg) \in Nat /\ LeakyNow(v, t + 1, cfg) \in Nat
    BY <1>2, LeakyNowAdvance, LeakyNowType, LevelFacts DEF Stored
  <2> QED
    BY <1>2, <2>1, LevelFacts DEF Holds
<1> QED
  BY <1>1, <1>2

\* ... and a clock that is set back nothing.
LEMMA HoldsBack ==
    ASSUME NEW a \in Buckets, NEW cfg \in Level, NEW t \in Nat, NEW d \in Nat,
           d <= t, NEW v, v = Absent \/ Stored(a, v, cfg)
    PROVE  Holds(a, v, t - d, cfg) <= Holds(a, v, t, cfg)
<1>1. CASE a = "token_bucket"
  BY <1>1, TokenNowBack DEF Holds, Stored
<1>2. CASE a # "token_bucket"
  <2>1. /\ LeakyNow(v, t, cfg) <= LeakyNow(v, t - d, cfg)
        /\ LeakyNow(v, t, cfg) \in Nat /\ LeakyNow(v, t - d, cfg) \in Nat
    <3>1. t - d \in Nat
      OBVIOUS
    <3>2. v = Absent \/ StoredWater(v, cfg)
      BY <1>2 DEF Stored
    <3>3. LeakyNow(v, t, cfg) <= LeakyNow(v, t - d, cfg)
      BY <3>2, LeakyNowBack
    <3> QED
      BY <3>1, <3>2, <3>3, LeakyNowType, LevelFacts
  <2> QED
    BY <1>2, <2>1, LevelFacts DEF Holds
<1> QED
  BY <1>1, <1>2

\* A key that admits pays one request for it.
LEMMA TakePays ==
    ASSUME algo \in Buckets, NEW cfg \in Level, NEW t \in Nat, NEW v, NEW id,
           v = Absent \/ Stored(algo, v, cfg), Admits(v, t, cfg)
    PROVE  /\ Stored(algo, Take(v, t, cfg, id).value, cfg)
           /\ Holds(algo, Take(v, t, cfg, id).value, t, cfg)
                = Holds(algo, v, t, cfg) - Second
           /\ algo = "leaky_bucket" => Take(v, t, cfg, id).report.reset \in Nat
<1>1. CASE algo = "token_bucket"
  <2>1. Take(v, t, cfg, id) = TokenTake(v, t, cfg) /\ TokenAdmits(v, t, cfg)
    BY <1>1 DEF Take, Admits, ScriptTake, ScriptAdmits
  <2> QED
    BY <1>1, <2>1, TokenTakePays DEF Holds, Stored
<1>2. CASE algo = "leaky_bucket"
  <2>1. Take(v, t, cfg, id) = LeakyTake(v, t, cfg) /\ LeakyAdmits(v, t, cfg)
    BY <1>2 DEF Take, Admits, ScriptTake, ScriptAdmits
  <2>2. v = Absent \/ StoredWater(v, cfg)
    BY <1>2 DEF Stored
  <2> DEFINE e == LeakyTake(v, t, cfg)
  <2>3. /\ StoredWater(e.value, cfg) /\ e.report.reset \in Nat
        /\ LeakyNow(e.value, t, cfg) = LeakyNow(v, t, cfg) + Second
    BY <2>1, <2>2, LeakyTakePays
  <2>4. /\ LeakyNow(v, t, cfg) \in Nat /\ TokenFull(cfg) \in Nat /\ Second \in Nat
    BY <2>2, LeakyNowType, LevelFacts, EngineAssumption
  <2> HIDE DEF e
  <2>5. TokenFull(cfg) - LeakyNow(e.value, t, cfg)
          = (TokenFull(cfg) - LeakyNow(v, t, cfg)) - Second
    BY <2>3, <2>4
  <2> QED
    BY <1>2, <2>1, <2>3, <2>5 DEF Holds, Stored, e
<1> QED
  BY <1>1, <1>2 DEF Buckets

\* The single-key script pays one request if it admits, else nothing.
LEMMA EvalPays ==
    ASSUME algo \in Buckets, NEW cfg \in Level, NEW t \in Nat, NEW v, NEW id,
           v = Absent \/ Stored(algo, v, cfg)
    PROVE  LET e == Eval(v, t, cfg, FALSE, id) IN
           /\ e.value = Absent \/ Stored(algo, e.value, cfg)
           /\ e.allowed => Holds(algo, e.value, t, cfg) = Holds(algo, v, t, cfg) - Second
           /\ ~e.allowed => Holds(algo, e.value, t, cfg) = Holds(algo, v, t, cfg)
           /\ e.allowed /\ algo = "leaky_bucket" => e.report.reset \in Nat
<1> DEFINE e == Eval(v, t, cfg, FALSE, id)
<1>1. CASE algo = "token_bucket"
  <2>1. e = TokenEval(v, t, cfg, FALSE)
    BY <1>1 DEF Eval, ScriptEval
  <2> HIDE DEF e
  <2> QED
    BY <1>1, <2>1, TokenEvalPays DEF Holds, Stored, e
<1>2. CASE algo = "leaky_bucket"
  <2>1. e = LeakyEval(v, t, cfg, FALSE)
    BY <1>2 DEF Eval, ScriptEval
  <2>2. v = Absent \/ StoredWater(v, cfg)
    BY <1>2 DEF Stored
  <2> HIDE DEF e
  <2>3. /\ e.value = Absent \/ StoredWater(e.value, cfg)
        /\ e.allowed => /\ LeakyNow(e.value, t, cfg) = LeakyNow(v, t, cfg) + Second
                        /\ e.report.reset \in Nat
        /\ ~e.allowed => LeakyNow(e.value, t, cfg) = LeakyNow(v, t, cfg)
    BY <2>1, <2>2, LeakyEvalPays
  <2>4. /\ LeakyNow(v, t, cfg) \in Nat /\ TokenFull(cfg) \in Nat /\ Second \in Nat
    BY <2>2, LeakyNowType, LevelFacts, EngineAssumption
  <2>5. e.allowed => TokenFull(cfg) - LeakyNow(e.value, t, cfg)
                       = (TokenFull(cfg) - LeakyNow(v, t, cfg)) - Second
    BY <2>3, <2>4
  <2> QED
    BY <1>2, <2>3, <2>5 DEF Holds, Stored, e
<1> QED
  BY <1>1, <1>2 DEF Buckets

\* A call that is denied leaves what it found ...
LEMMA DenyLooks ==
    ASSUME algo \in Buckets, NEW cfg, NEW t, NEW v
    PROVE  Deny(v, t, cfg).value = v
<1>1. TokenDeny(v, t, cfg).value = v /\ LeakyDeny(v, t, cfg).value = v
  BY DEF TokenDeny, LeakyDeny
<1>2. CASE algo = "token_bucket"
  BY <1>1, <1>2 DEF Deny, ScriptDeny
<1>3. CASE algo = "leaky_bucket"
  <2>1. Deny(v, t, cfg) = LeakyDeny(v, t, cfg)
    BY <1>3 DEF Deny, ScriptDeny
  <2> QED
    BY <1>1, <2>1
<1> QED
  BY <1>2, <1>3 DEF Buckets

\* ... and so does a peek.
LEMMA PeekLooks ==
    ASSUME algo \in Buckets, NEW k \in Keys, Peek(k)
    PROVE  db' = [db EXCEPT ![k] = Found(k)]
<1> DEFINE e == Eval(Found(k), now, Quota[k], TRUE, FreshNonce(k))
<1>1. TokenEval(Found(k), now, Quota[k], TRUE).value = Found(k)
  BY DEF TokenEval
<1>2. LeakyEval(Found(k), now, Quota[k], TRUE).value = Found(k)
  BY DEF LeakyEval
<1>3. CASE algo = "token_bucket"
  BY <1>1, <1>3 DEF Peek, Eval, ScriptEval
<1>4. CASE algo = "leaky_bucket"
  <2>1. e = LeakyEval(Found(k), now, Quota[k], TRUE)
    BY <1>4 DEF Eval, ScriptEval
  <2>2. db' = [db EXCEPT ![k] = e.value]
    BY DEF Peek
  <2> HIDE DEF e
  <2> QED
    BY <1>2, <2>1, <2>2
<1> QED
  BY <1>3, <1>4 DEF Buckets

-----------------------------------------------------------------------------
\* Every bucket starts full, and nothing was taken.
LEMMA InitInv == algo \in Buckets /\ Init => BucketInv /\ Potential
<1> SUFFICES ASSUME algo \in Buckets, Init PROVE BucketInv /\ Potential
  OBVIOUS
<1>1. BucketInv
  BY DEF Init, BucketInv
<1>2. ASSUME NEW k \in Keys
      PROVE  taken[k] * Second + Holds(algo, db[k], now, Quota[k])
                 <= Quota[k].burst * Second + Quota[k].threshold * age
  <2>1. Quota[k] \in Level
    BY EngineAssumption
  <2>2. Holds(algo, db[k], now, Quota[k]) = TokenFull(Quota[k])
    BY <2>1, AbsentIsFull DEF Init
  <2>3. taken[k] * Second = 0 /\ Quota[k].threshold * age = 0
    BY <2>1, LevelFacts, EngineAssumption DEF Init
  <2> QED
    BY <2>1, <2>2, <2>3, LevelFacts
<1> QED
  BY <1>1, <1>2 DEF Potential

\* The algorithm of the rules never changes.
LEMMA AlgoFixed == [Next]_vars => algo' = algo
  BY DEF Next, vars, Advance, StepBack, StartWatch, Expire, TryMulti, GrantCall,
         DenyCall, Try, Peek

\* The store after a step: types and time to live.
LEMMA NextBucketInv ==
    algo \in Buckets /\ BucketInv /\ [Next]_vars => BucketInv'
<1> SUFFICES ASSUME algo \in Buckets, BucketInv, [Next]_vars PROVE BucketInv'
  OBVIOUS
<1> USE DEF BucketInv
<1>0. \A k \in Keys : /\ Quota[k] \in Level
                      /\ Found(k) = Absent \/ Stored(algo, Found(k), Quota[k])
  BY FoundHolds, EngineAssumption DEF Found
<1>1. CASE Advance
  BY <1>1 DEF Advance, Larger
<1>2. ASSUME NEW d \in 1 .. MaxBack, StepBack(d) PROVE BucketInv'
  BY <1>2, EngineAssumption DEF StepBack
<1>3. CASE StartWatch
  BY <1>3 DEF StartWatch
<1>4. ASSUME NEW k \in Keys, Expire(k) PROVE BucketInv'
  BY <1>4 DEF Expire
<1>5. ASSUME NEW call \in Calls, GrantCall(call) PROVE BucketInv'
  <2> DEFINE took(k) == Take(Found(k), now, Quota[k], FreshNonce(k))
  <2>1. \A k \in KeysOf(call) : Admits(Found(k), now, Quota[k])
    BY <1>5 DEF GrantCall, AllHaveRoom, HasRoom
  <2>2. ASSUME NEW k \in Keys, k \in KeysOf(call)
        PROVE  /\ Stored(algo, took(k).value, Quota[k])
               /\ algo = "leaky_bucket" => took(k).report.reset \in Nat
    BY <1>0, <2>1, <2>2, TakePays
  <2>3. /\ db' = [k \in Keys |-> IF k \in KeysOf(call) THEN took(k).value ELSE db[k]]
        /\ taken' = [k \in Keys |-> IF k \in KeysOf(call) THEN taken[k] + 1
                                    ELSE taken[k]]
        /\ due' = [k \in Keys |-> IF k \in KeysOf(call)
                                  THEN IF algo = "leaky_bucket"
                                       THEN took(k).report.reset ELSE due[k]
                                  ELSE due[k]]
        /\ UNCHANGED <<algo, now, age>>
    BY <1>5 DEF GrantCall, Promise
  <2> HIDE DEF took
  <2>4. \A k \in Keys : db'[k] = Absent \/ Stored(algo', db'[k], Quota[k])
    BY <2>2, <2>3
  <2>5. taken' \in [Keys -> Nat] /\ due' \in [Keys -> Nat]
    BY <2>2, <2>3
  <2> QED
    BY <2>3, <2>4, <2>5
<1>6. ASSUME NEW call \in Calls, DenyCall(call) PROVE BucketInv'
  <2>1. \A k \in Keys : Deny(Found(k), now, Quota[k]).value = Found(k)
    BY DenyLooks
  <2> QED
    BY <1>0, <1>6, <2>1 DEF DenyCall
<1>7. ASSUME NEW k \in Keys, Try(k) PROVE BucketInv'
  <2> DEFINE e == Eval(Found(k), now, Quota[k], FALSE, FreshNonce(k))
  <2>1. /\ db' = [db EXCEPT ![k] = e.value]
        /\ taken' = [taken EXCEPT ![k] = IF e.allowed THEN @ + 1 ELSE @]
        /\ due' = [due EXCEPT ![k] =
                     IF e.allowed
                     THEN IF algo = "leaky_bucket" THEN e.report.reset ELSE due[k]
                     ELSE @]
        /\ UNCHANGED <<algo, now, age>>
    BY <1>7 DEF Try, Promise
  <2>2. /\ e.value = Absent \/ Stored(algo, e.value, Quota[k])
        /\ e.allowed /\ algo = "leaky_bucket" => e.report.reset \in Nat
    BY <1>0, EvalPays
  <2> HIDE DEF e
  <2> QED
    BY <2>1, <2>2
<1>8. ASSUME NEW k \in Keys, Peek(k) PROVE BucketInv'
  <2>1. db' = [db EXCEPT ![k] = Found(k)]
    BY <1>8, PeekLooks
  <2> QED
    BY <1>0, <1>8, <2>1 DEF Peek
<1>9. CASE UNCHANGED vars
  BY <1>9 DEF vars
<1> QED
  BY <1>1, <1>2, <1>3, <1>4, <1>5, <1>6, <1>7, <1>8, <1>9 DEF Next, TryMulti

\* The potential never grows faster than the quota allows.
LEMMA NextPotential ==
    algo \in Buckets /\ BucketInv /\ Potential /\ [Next]_vars => Potential'
<1> SUFFICES ASSUME algo \in Buckets, BucketInv, Potential, [Next]_vars,
                    NEW k \in Keys
             PROVE  taken'[k] * Second + Holds(algo, db'[k], now', Quota[k])
                        <= Quota[k].burst * Second + Quota[k].threshold * age'
  BY AlgoFixed DEF Potential
<1> DEFINE cfg    == Quota[k]
           before == Holds(algo, db[k], now, cfg)
           after  == Holds(algo, db'[k], now', cfg)
<1>0. /\ cfg \in Level /\ Second \in Nat \ {0}
      /\ taken[k] \in Nat /\ age \in Nat /\ now \in Nat
      /\ db[k] = Absent \/ Stored(algo, db[k], cfg)
      /\ Found(k) = Absent \/ Stored(algo, Found(k), cfg)
      /\ Holds(algo, Found(k), now, cfg) = before
      /\ taken[k] * Second + before <= cfg.burst * Second + cfg.threshold * age
  BY FoundHolds, EngineAssumption DEF Found, BucketInv, Potential
<1>00. /\ cfg.threshold \in Nat /\ cfg.burst * Second \in Nat
       /\ cfg.threshold * age \in Nat /\ taken[k] * Second \in Nat
       /\ before \in Nat /\ before <= cfg.burst * Second
  BY <1>0, LevelFacts, HoldsType
\* A step that leaves clock, stop-watch and count alone must not add to the bucket.
<1>a. ASSUME after = before, taken'[k] = taken[k], age' = age
      PROVE  taken'[k] * Second + after <= cfg.burst * Second + cfg.threshold * age'
  BY <1>a, <1>0
\* A step that admits must pay.
<1>b. ASSUME after = before - Second, taken'[k] = taken[k] + 1, age' = age
      PROVE  taken'[k] * Second + after <= cfg.burst * Second + cfg.threshold * age'
  <2> HIDE DEF before, after, cfg
  <2>1. (taken[k] + 1) * Second = taken[k] * Second + Second
    BY <1>0
  <2> QED
    BY <1>b, <1>0, <1>00, <2>1
\* A step that may only take away from the bucket is safe.
<1>c. ASSUME now' \in Nat, db' = db, taken' = taken, age' = age, after <= before
      PROVE  taken'[k] * Second + after <= cfg.burst * Second + cfg.threshold * age'
  <2>1. after \in Int
    BY <1>c, <1>0, HoldsType, LevelFacts
  <2> HIDE DEF before, after, cfg
  <2> QED
    BY <1>c, <1>0, <1>00, <2>1
<1>1. CASE Advance
  <2>1. db' = db /\ now' = now + 1 /\ taken' = taken /\ age' = age + 1
    BY <1>1 DEF Advance
  <2>2. after <= before + cfg.threshold
    BY <1>0, <2>1, HoldsAdvance
  <2>3. after \in Int
    BY <1>0, <2>1, HoldsType, LevelFacts
  <2>4. cfg.threshold * (age + 1) = cfg.threshold * age + cfg.threshold
    <3>1. \A m, n \in Nat : m * (n + 1) = m * n + m
      OBVIOUS
    <3> HIDE DEF cfg
    <3> QED
      BY <1>0, <1>00, <3>1
  <2> HIDE DEF before, after, cfg
  <2> QED
    BY <1>0, <1>00, <2>1, <2>2, <2>3, <2>4 DEF cfg, after
<1>2. ASSUME NEW d \in 1 .. MaxBack, StepBack(d)
      PROVE  taken'[k] * Second + after <= cfg.burst * Second + cfg.threshold * age'
  <2>1. /\ d \in Nat /\ d <= now
        /\ db' = db /\ now' = now - d /\ taken' = taken /\ age' = age
    BY <1>2, EngineAssumption DEF StepBack
  <2>2. now' \in Nat
    BY <1>0, <2>1
  <2>3. after <= before
    BY <1>0, <2>1, HoldsBack
  <2> QED
    BY <1>c, <2>1, <2>2, <2>3
<1>3. CASE StartWatch
  <2>1. db' = db /\ now' = now /\ taken'[k] = 0 /\ age' = 0
    BY <1>3 DEF StartWatch
  <2>2. 0 * Second = 0 /\ cfg.threshold * 0 = 0 /\ after = before
    BY <1>0, <1>00, <2>1
  <2> HIDE DEF before, after, cfg
  <2> QED
    BY <1>00, <2>1, <2>2 DEF cfg, after
<1>4. ASSUME NEW j \in Keys, Expire(j)
      PROVE  taken'[k] * Second + after <= cfg.burst * Second + cfg.threshold * age'
  <2>1. now' = now /\ age' = age /\ taken' = taken
    BY <1>4 DEF Expire
  <2>2. db'[k] = db[k] \/ db'[k] = Found(k)
    BY <1>4 DEF Expire, BucketInv, Found, Visible
  <2> QED
    BY <1>0, <1>a, <2>1, <2>2
<1>5. ASSUME NEW call \in Calls, GrantCall(call)
      PROVE  taken'[k] * Second + after <= cfg.burst * Second + cfg.threshold * age'
  <2>1. now' = now /\ age' = age
    BY <1>5 DEF GrantCall
  <2>2. CASE k \in KeysOf(call)
    <3>1. Admits(Found(k), now, cfg)
      BY <1>5, <2>2 DEF GrantCall, AllHaveRoom, HasRoom
    <3>2. /\ db'[k] = Take(Found(k), now, cfg, FreshNonce(k)).value
          /\ taken'[k] = taken[k] + 1
      BY <1>5, <2>2 DEF GrantCall
    <3>3. after = before - Second
      BY <1>0, <2>1, <3>1, <3>2, TakePays
    <3> QED
      BY <1>b, <2>1, <3>2, <3>3
  <2>3. CASE k \notin KeysOf(call)
    <3>1. db'[k] = db[k] /\ taken'[k] = taken[k]
      BY <1>5, <2>3 DEF GrantCall
    <3> QED
      BY <1>a, <2>1, <3>1
  <2> QED
    BY <2>2, <2>3
<1>6. ASSUME NEW call \in Calls, DenyCall(call)
      PROVE  taken'[k] * Second + after <= cfg.burst * Second + cfg.threshold * age'
  <2>1. now' = now /\ age' = age /\ taken' = taken
    BY <1>6 DEF DenyCall
  <2>2. db'[k] = db[k] \/ db'[k] = Found(k)
    BY <1>6, DenyLooks DEF DenyCall
  <2> QED
    BY <1>0, <1>a, <2>1, <2>2
<1>7. ASSUME NEW j \in Keys, Try(j)
      PROVE  taken'[k] * Second + after <= cfg.burst * Second + cfg.threshold * age'
  <2> DEFINE e == Eval(Found(j), now, Quota[j], FALSE, FreshNonce(j))
  <2>1. /\ db' = [db EXCEPT ![j] = e.value]
        /\ taken' = [taken EXCEPT ![j] = IF e.allowed THEN @ + 1 ELSE @]
        /\ UNCHANGED <<now, age>>
    BY <1>7 DEF Try
  <2>2. CASE j = k
    <3> DEFINE own == Eval(Found(k), now, cfg, FALSE, FreshNonce(k))
    <3>0. /\ own.allowed => Holds(algo, own.value, now, cfg)
                               = Holds(algo, Found(k), now, cfg) - Second
          /\ ~own.allowed => Holds(algo, own.value, now, cfg)
                               = Holds(algo, Found(k), now, cfg)
      <4> HIDE DEF cfg
      <4> QED
        BY <1>0, EvalPays, ZenonT(60)
    <3>1. /\ e.allowed => Holds(algo, e.value, now, cfg) = before - Second
          /\ ~e.allowed => Holds(algo, e.value, now, cfg) = before
      <4>1. e = own
        BY <2>2
      <4> HIDE DEF cfg, e, own, before
      <4> QED
        BY <1>0, <3>0, <4>1
    <3>2. db'[k] = e.value /\ taken'[k] = IF e.allowed THEN taken[k] + 1 ELSE taken[k]
      BY <2>1, <2>2 DEF BucketInv
    <3> HIDE DEF e
    <3> QED
      BY <1>a, <1>b, <2>1, <3>1, <3>2
  <2>3. CASE j # k
    <3>1. db'[k] = db[k] /\ taken'[k] = taken[k]
      BY <2>1, <2>3 DEF BucketInv
    <3> QED
      BY <1>a, <2>1, <3>1
  <2> QED
    BY <2>2, <2>3
<1>8. ASSUME NEW j \in Keys, Peek(j)
      PROVE  taken'[k] * Second + after <= cfg.burst * Second + cfg.threshold * age'
  <2>1. now' = now /\ age' = age /\ taken' = taken
    BY <1>8 DEF Peek
  <2>2. db'[k] = db[k] \/ db'[k] = Found(k)
    <3>1. db' = [db EXCEPT ![j] = Found(j)]
      BY <1>8, PeekLooks
    <3> QED
      BY <3>1 DEF BucketInv
  <2> QED
    BY <1>0, <1>a, <2>1, <2>2
<1>9. CASE UNCHANGED vars
  BY <1>9, <1>a DEF vars
<1> QED
  BY <1>1, <1>2, <1>3, <1>4, <1>5, <1>6, <1>7, <1>8, <1>9 DEF Next, TryMulti

\* A potential within the quota bounds what was taken.
LEMMA PotentialBounds == algo \in Buckets /\ BucketInv /\ Potential => BucketBound
<1> SUFFICES ASSUME algo \in Buckets, BucketInv, Potential, NEW k \in Keys
             PROVE  taken[k] * Second
                        <= Quota[k].burst * Second + Quota[k].threshold * age
  BY DEF BucketBound
<1>1. Quota[k] \in Level /\ Second \in Nat \ {0} /\ taken[k] \in Nat
  BY EngineAssumption DEF BucketInv
<1>2. Holds(algo, db[k], now, Quota[k]) \in Nat
  BY <1>1, HoldsType, LevelFacts DEF BucketInv
<1>3. /\ taken[k] * Second \in Nat
      /\ Quota[k].burst * Second \in Nat
      /\ Quota[k].threshold * age \in Nat
  BY <1>1, LevelFacts DEF BucketInv
<1> QED
  BY <1>2, <1>3 DEF Potential

\* The invariant contains the type invariant.
LEMMA BucketInvTypes == algo \in Buckets /\ BucketInv => TypeOK
<1> SUFFICES ASSUME algo \in Buckets, BucketInv PROVE TypeOK
  OBVIOUS
<1>1. ASSUME NEW k \in Keys, Stored(algo, db[k], Quota[k])
      PROVE  IsValue(db[k], Quota[k])
  <2>1. CASE algo = "token_bucket"
    BY <1>1, <2>1 DEF Stored, StoredTokens, IsValue
  <2>2. CASE algo = "leaky_bucket"
    <3>1. db[k] \in LeakyValues(Quota[k])
      BY <1>1, <2>2 DEF Stored, StoredWater
    <3> QED
      BY <2>2, <3>1 DEF IsValue
  <2> QED
    BY <2>1, <2>2 DEF Buckets
<1> QED
  BY <1>1 DEF BucketInv, TypeOK

-----------------------------------------------------------------------------
\* The inductive invariant.
BucketIInv == algo \in Buckets => BucketInv /\ Potential

\* Every run keeps both.
LEMMA BucketInvariants == Spec => []BucketIInv
<1>1. Init => BucketIInv
  BY InitInv DEF BucketIInv
<1>2. BucketIInv /\ [Next]_vars => BucketIInv'
  BY AlgoFixed, NextBucketInv, NextPotential DEF BucketIInv
<1> QED
  BY <1>1, <1>2, PTL DEF Spec

\* Type correctness: what Redis holds for a token bucket (token_bucket_multi.go)
\* or a leaky bucket (leaky_bucket_multi.go) is always between empty and full, or
\* nothing.
THEOREM BucketTypeOK == Spec => [](algo \in Buckets => TypeOK)
<1>1. BucketIInv => (algo \in Buckets => TypeOK)
  BY BucketInvTypes DEF BucketIInv
<1> QED
  BY <1>1, BucketInvariants, PTL

\* The buckets' scripts never over-admit: in any stretch of time a key admits at
\* most a full bucket plus what its rate adds, with any number of keys, calls and
\* instances, whatever expires, and even if the clock is set back.
THEOREM BucketsNeverOverAdmit == Spec => []BucketBound
<1>1. BucketIInv => BucketBound
  <2>1. CASE algo \in Buckets
    BY <2>1, PotentialBounds DEF BucketIInv
  <2>2. CASE algo \notin Buckets
    BY <2>2 DEF BucketBound
  <2> QED
    BY <2>1, <2>2
<1> QED
  BY <1>1, BucketInvariants, PTL
-----------------------------------------------------------------------------
(***************************************************************************)
(* Expiry.                                                                 *)
(***************************************************************************)
\* The multi-key script answers and writes the same to two token buckets that
\* hold the same.
LEMMA SameTokensSameScript ==
    ASSUME algo = "token_bucket", NEW cfg, NEW t, NEW v, NEW w, NEW id,
           TokenNow(v, t, cfg) = TokenNow(w, t, cfg)
    PROVE  /\ Admits(v, t, cfg) = Admits(w, t, cfg)
           /\ Take(v, t, cfg, id) = Take(w, t, cfg, id)
           /\ Deny(v, t, cfg).report = Deny(w, t, cfg).report
<1>1. \A u : /\ Admits(u, t, cfg) = TokenAdmits(u, t, cfg)
             /\ Take(u, t, cfg, id) = TokenTake(u, t, cfg)
             /\ Deny(u, t, cfg).report = TokenReport(TokenNow(u, t, cfg), cfg)
  BY DEF Admits, ScriptAdmits, Take, ScriptTake, Deny, ScriptDeny, TokenDeny
<1>2. TokenAdmits(v, t, cfg) = TokenAdmits(w, t, cfg)
  BY DEF TokenAdmits
<1>3. TokenTake(v, t, cfg) = TokenTake(w, t, cfg)
  BY DEF TokenTake
<1> QED
  BY <1>1, <1>2, <1>3

\* And to two queues of the same length.
LEMMA SameWaterSameScript ==
    ASSUME algo = "leaky_bucket", NEW cfg, NEW t, NEW v, NEW w, NEW id,
           LeakyNow(v, t, cfg) = LeakyNow(w, t, cfg)
    PROVE  /\ Admits(v, t, cfg) = Admits(w, t, cfg)
           /\ Take(v, t, cfg, id) = Take(w, t, cfg, id)
           /\ Deny(v, t, cfg).report = Deny(w, t, cfg).report
<1>1. \A u : /\ Admits(u, t, cfg) = LeakyAdmits(u, t, cfg)
             /\ Take(u, t, cfg, id) = LeakyTake(u, t, cfg)
             /\ Deny(u, t, cfg).report = LeakyDeny(u, t, cfg).report
  BY DEF Admits, ScriptAdmits, Take, ScriptTake, Deny, ScriptDeny
<1>2. LeakyAdmits(v, t, cfg) = LeakyAdmits(w, t, cfg)
  BY DEF LeakyAdmits
<1>3. LeakyTake(v, t, cfg) = LeakyTake(w, t, cfg)
  BY DEF LeakyTake
<1>4. LeakyDeny(v, t, cfg).report = LeakyDeny(w, t, cfg).report
  BY DEF LeakyDeny
<1> QED
  BY <1>1, <1>2, <1>3, <1>4

\* The PEXPIRE of token_bucket_multi.go and leaky_bucket_multi.go is never too short,
\* even if the clock is set back: a bucket that Redis has let expire would answer
\* and be charged as the full one that takes its place.
THEOREM BucketExpiryInvisible == Spec => [](algo \in Buckets => ExpiryInvisible)
<1>1. BucketIInv => (algo \in Buckets => ExpiryInvisible)
  <2> SUFFICES ASSUME algo \in Buckets, BucketInv, NEW k \in Keys, Expired(db[k], now)
               PROVE  LET cfg == Quota[k] IN
                      /\ Admits(db[k], now, cfg) = Admits(Absent, now, cfg)
                      /\ Take(db[k], now, cfg, FreshNonce(k))
                             = Take(Absent, now, cfg, FreshNonce(k))
                      /\ Deny(db[k], now, cfg).report = Deny(Absent, now, cfg).report
    BY DEF BucketIInv, ExpiryInvisible
  <2>1. /\ Quota[k] \in Level /\ now \in Nat /\ Exists(db[k]) /\ db[k] # Absent
        /\ Stored(algo, db[k], Quota[k]) /\ now > db[k].expireAt
    BY EngineAssumption DEF BucketInv, Expired, Exists, Absent
  <2>2. CASE algo = "token_bucket"
    <3>1. TokenNow(db[k], now, Quota[k]) = TokenFull(Quota[k])
      BY <2>1, <2>2, TokenExpiredIsFull DEF Stored
    <3>2. TokenNow(Absent, now, Quota[k]) = TokenFull(Quota[k])
      BY DEF TokenNow, Exists, Absent
    <3> QED
      BY <2>2, <3>1, <3>2, SameTokensSameScript
  <2>3. CASE algo = "leaky_bucket"
    <3>1. LeakyNow(db[k], now, Quota[k]) = 0
      BY <2>1, <2>3, LeakyExpiredIsEmpty DEF Stored
    <3>2. LeakyNow(Absent, now, Quota[k]) = 0
      BY DEF LeakyNow, Exists, Absent
    <3> QED
      BY <2>3, <3>1, <3>2, SameWaterSameScript
  <2> QED
    BY <2>2, <2>3 DEF Buckets
<1> QED
  BY <1>1, BucketInvariants, PTL

-----------------------------------------------------------------------------
(***************************************************************************)
(* The ideal bucket.                                                       *)
(***************************************************************************)
\* No key was written in the future.
WrittenByNow == \A k \in Keys : db[k] = Absent \/ db[k].last <= now

\* What the bucket of a key holds.
Credits(k) == Holds(algo, db[k], now, Quota[k])

\* What is paid for is at least the credit of the time elapsed, as long as the
\* bucket cannot overflow.
Earned ==
    \A k \in Keys :
        taken[k] * Second + Credits(k)
            >= Smaller(Quota[k].burst * Second, Quota[k].threshold * age)

-----------------------------------------------------------------------------
(***************************************************************************)
(* One key.                                                                *)
(***************************************************************************)

\* A token bucket that was written by now gains its rate, up to its capacity.
LEMMA TokenRefills ==
    ASSUME NEW cfg \in Level, NEW t \in Nat, NEW d \in Nat, NEW v,
           v = Absent \/ (StoredTokens(v, cfg) /\ v.last <= t)
    PROVE  TokenNow(v, t + d, cfg)
               = Smaller(TokenFull(cfg), TokenNow(v, t, cfg) + d * cfg.threshold)
<1>0. d * cfg.threshold \in Nat
  BY LevelFacts, NatProducts
<1>1. CASE v = Absent
  BY <1>0, <1>1, LevelFacts DEF TokenNow, Exists, Absent, Smaller
<1>2. CASE StoredTokens(v, cfg) /\ v.last <= t
  <2>1. v.tokens \in 0 .. TokenFull(cfg) /\ v.last \in Nat /\ Exists(v)
    BY <1>2 DEF StoredTokens, TokenValues, Exists
  <2> DEFINE gap == t - v.last
  <2>2. gap \in Nat /\ Larger(0, t - v.last) = gap /\ Larger(0, (t + d) - v.last) = gap + d
    BY <1>2, <2>1 DEF Larger
  <2>3. /\ TokenNow(v, t, cfg) = Smaller(TokenFull(cfg), v.tokens + gap * cfg.threshold)
        /\ TokenNow(v, t + d, cfg)
             = Smaller(TokenFull(cfg), v.tokens + (gap + d) * cfg.threshold)
    BY <2>1, <2>2 DEF TokenNow
  <2> HIDE DEF gap
  <2>4. /\ gap * cfg.threshold \in Nat
        /\ (gap + d) * cfg.threshold = gap * cfg.threshold + d * cfg.threshold
    BY <2>2, LevelFacts, NatProducts
  <2> QED
    BY <1>0, <2>1, <2>3, <2>4, LevelFacts DEF Smaller
<1> QED
  BY <1>1, <1>2

\* A queue that was written by now drains at its rate, until it is empty.
LEMMA LeakyDrains ==
    ASSUME NEW cfg \in Level, NEW t \in Nat, NEW d \in Nat, NEW v,
           v = Absent \/ (StoredWater(v, cfg) /\ v.last <= t)
    PROVE  LeakyNow(v, t + d, cfg) = Larger(0, LeakyNow(v, t, cfg) - d * cfg.threshold)
<1>0. d * cfg.threshold \in Nat
  BY LevelFacts, NatProducts
<1>1. CASE v = Absent
  BY <1>0, <1>1, LevelFacts DEF LeakyNow, Exists, Absent, Larger
<1>2. CASE StoredWater(v, cfg) /\ v.last <= t
  <2>1. v.level \in Nat /\ v.last \in Nat /\ Exists(v)
    BY <1>2, LevelFacts DEF StoredWater, LeakyValues, Exists, TokenFull
  <2> DEFINE gap == t - v.last
  <2>2. gap \in Nat /\ Larger(0, t - v.last) = gap /\ Larger(0, (t + d) - v.last) = gap + d
    BY <1>2, <2>1 DEF Larger
  <2>3. /\ LeakyNow(v, t, cfg) = IF gap * cfg.threshold >= v.level THEN 0
                                 ELSE v.level - gap * cfg.threshold
        /\ LeakyNow(v, t + d, cfg) = IF (gap + d) * cfg.threshold >= v.level THEN 0
                                     ELSE v.level - (gap + d) * cfg.threshold
    BY <2>1, <2>2 DEF LeakyNow
  <2> HIDE DEF gap
  <2>4. /\ gap * cfg.threshold \in Nat
        /\ (gap + d) * cfg.threshold = gap * cfg.threshold + d * cfg.threshold
    BY <2>2, LevelFacts, NatProducts
  <2> QED
    BY <1>0, <2>1, <2>3, <2>4, LevelFacts DEF Larger
<1> QED
  BY <1>1, <1>2

\* Either bucket gains its rate, up to its capacity.
LEMMA HoldsLater ==
    ASSUME NEW a \in Buckets, NEW cfg \in Level, NEW t \in Nat, NEW d \in Nat, NEW v,
           v = Absent \/ (Stored(a, v, cfg) /\ v.last <= t)
    PROVE  Holds(a, v, t + d, cfg)
               = Smaller(TokenFull(cfg), Holds(a, v, t, cfg) + d * cfg.threshold)
<1>1. CASE a = "token_bucket"
  BY <1>1, TokenRefills DEF Holds, Stored
<1>2. CASE a # "token_bucket"
  <2>1. /\ v = Absent \/ (StoredWater(v, cfg) /\ v.last <= t)
        /\ v = Absent \/ StoredWater(v, cfg)
    BY <1>2 DEF Stored
  <2>2. LeakyNow(v, t + d, cfg) = Larger(0, LeakyNow(v, t, cfg) - d * cfg.threshold)
    BY <2>1, LeakyDrains
  <2>3. LeakyNow(v, t, cfg) \in 0 .. TokenFull(cfg)
    BY <2>1, LeakyNowType
  <2> DEFINE gain == d * cfg.threshold
  <2>4. gain \in Nat
    BY LevelFacts, NatProducts
  <2> HIDE DEF gain
  <2>5. TokenFull(cfg) - Larger(0, LeakyNow(v, t, cfg) - gain)
          = Smaller(TokenFull(cfg), (TokenFull(cfg) - LeakyNow(v, t, cfg)) + gain)
    BY <2>3, <2>4, LevelFacts DEF Larger, Smaller
  <2> QED
    BY <1>2, <2>2, <2>5 DEF Holds, gain
<1> QED
  BY <1>1, <1>2

\* In one unit of time, its rate once.
LEMMA HoldsRefills ==
    ASSUME NEW a \in Buckets, NEW cfg \in Level, NEW t \in Nat, NEW v,
           v = Absent \/ (Stored(a, v, cfg) /\ v.last <= t)
    PROVE  Holds(a, v, t + 1, cfg)
               = Smaller(TokenFull(cfg), Holds(a, v, t, cfg) + cfg.threshold)
<1>1. 1 * cfg.threshold = cfg.threshold
  BY LevelFacts
<1> QED
  BY <1>1, HoldsLater

\* A bucket admits exactly if it holds the price of a request.
LEMMA AdmitsIfPays ==
    ASSUME algo \in Buckets, NEW cfg \in Level, NEW t \in Nat, NEW v,
           v = Absent \/ Stored(algo, v, cfg)
    PROVE  Admits(v, t, cfg) <=> Holds(algo, v, t, cfg) >= Second
<1>1. CASE algo = "token_bucket"
  BY <1>1 DEF Admits, ScriptAdmits, TokenAdmits, Holds
<1>2. CASE algo = "leaky_bucket"
  <2>1. v = Absent \/ StoredWater(v, cfg)
    BY <1>2 DEF Stored
  <2>2. LeakyNow(v, t, cfg) \in 0 .. TokenFull(cfg)
    BY <2>1, LeakyNowType
  <2>3. (cfg.burst - 1) * Second = TokenFull(cfg) - Second
    <3>1. \A m, n \in Nat : (m - 1) * n = m * n - n
      OBVIOUS
    <3> QED
      BY <3>1, LevelFacts, EngineAssumption
  <2>4. Admits(v, t, cfg) <=> LeakyNow(v, t, cfg) <= TokenFull(cfg) - Second
    BY <1>2, <2>3 DEF Admits, ScriptAdmits, LeakyAdmits, LeakyHasSlot
  <2>5. Holds(algo, v, t, cfg) = TokenFull(cfg) - LeakyNow(v, t, cfg)
    BY <1>2 DEF Holds
  <2> QED
    BY <2>2, <2>4, <2>5, LevelFacts, EngineAssumption
<1> QED
  BY <1>1, <1>2 DEF Buckets

\* The single-key script decides as the multi-key script does.
LEMMA EvalDecides ==
    ASSUME algo \in Buckets, NEW cfg, NEW t, NEW v, NEW id
    PROVE  Eval(v, t, cfg, FALSE, id).allowed = Admits(v, t, cfg)
<1>1. TokenEval(v, t, cfg, FALSE).allowed = TokenAdmits(v, t, cfg)
  BY DEF TokenEval, TokenAdmits
<1>2. LeakyEval(v, t, cfg, FALSE).allowed = LeakyAdmits(v, t, cfg)
  BY DEF LeakyEval, LeakyAdmits
<1>3. CASE algo = "token_bucket"
  BY <1>1, <1>3 DEF Eval, ScriptEval, Admits, ScriptAdmits
<1>4. CASE algo = "leaky_bucket"
  <2>1. Eval(v, t, cfg, FALSE, id) = LeakyEval(v, t, cfg, FALSE)
    BY <1>4 DEF Eval, ScriptEval
  <2>2. Admits(v, t, cfg) = LeakyAdmits(v, t, cfg)
    BY <1>4 DEF Admits, ScriptAdmits
  <2> QED
    BY <1>2, <2>1, <2>2
<1> QED
  BY <1>3, <1>4 DEF Buckets

\* The value bears this time.
StampedAt(v, t) == v.last = t

\* What the scripts write bears the time of the write.
LEMMA TakeStampsNow ==
    ASSUME algo \in Buckets, NEW cfg \in Level, NEW t \in Nat, NEW v, NEW id
    PROVE  Take(v, t, cfg, id).value.last = t
<1>1. CASE algo = "token_bucket"
  <2>1. TokenTake(v, t, cfg).value.last = t
    BY DEF TokenTake, TokenHash
  <2>2. Take(v, t, cfg, id) = TokenTake(v, t, cfg)
    BY <1>1 DEF Take, ScriptTake
  <2> QED
    BY <2>1, <2>2
<1>2. CASE algo = "leaky_bucket"
  <2>1. LeakyTake(v, t, cfg).value.last = t
    BY DEF LeakyTake, LeakyHash
  <2>2. Take(v, t, cfg, id) = LeakyTake(v, t, cfg)
    BY <1>2 DEF Take, ScriptTake
  <2> QED
    BY <2>1, <2>2
<1> QED
  BY <1>1, <1>2 DEF Buckets

\* The single-key script, too.
LEMMA EvalStampsNow ==
    ASSUME algo \in Buckets, NEW cfg \in Level, NEW t \in Nat, NEW v, NEW id
    PROVE  StampedAt(Eval(v, t, cfg, FALSE, id).value, t)
<1>1. CASE algo = "token_bucket"
  <2>1. TokenEval(v, t, cfg, FALSE).value.last = t
    BY DEF TokenEval, TokenHash
  <2>2. Eval(v, t, cfg, FALSE, id) = TokenEval(v, t, cfg, FALSE)
    BY <1>1 DEF Eval, ScriptEval
  <2> QED
    BY <2>1, <2>2 DEF StampedAt
<1>2. CASE algo = "leaky_bucket"
  <2>1. LeakyEval(v, t, cfg, FALSE).value.last = t
    BY DEF LeakyEval, LeakyHash
  <2>2. Eval(v, t, cfg, FALSE, id) = LeakyEval(v, t, cfg, FALSE)
    BY <1>2 DEF Eval, ScriptEval
  <2> QED
    BY <2>1, <2>2 DEF StampedAt
<1> QED
  BY <1>1, <1>2 DEF Buckets

-----------------------------------------------------------------------------
(***************************************************************************)
(* The invariant.                                                          *)
(***************************************************************************)
\* What the invariant of the buckets says of one key.
LEMMA KeyFacts ==
    ASSUME algo \in Buckets, BucketInv, NEW k \in Keys
    PROVE  /\ Quota[k] \in Level /\ now \in Nat
           /\ db[k] = Absent \/ Stored(algo, db[k], Quota[k])
           /\ Found(k) = Absent \/ Stored(algo, Found(k), Quota[k])
           /\ Holds(algo, Found(k), now, Quota[k]) = Credits(k)
           /\ Credits(k) \in 0 .. TokenFull(Quota[k])
           /\ HasRoom(k) <=> Credits(k) >= Second
<1>1. Quota[k] \in Level /\ now \in Nat /\ (db[k] = Absent \/ Stored(algo, db[k], Quota[k]))
  BY EngineAssumption DEF BucketInv
<1>2. /\ Found(k) = Absent \/ Stored(algo, Found(k), Quota[k])
      /\ Holds(algo, Found(k), now, Quota[k]) = Credits(k)
  BY <1>1, FoundHolds DEF Found, Credits
<1>3. Credits(k) \in 0 .. TokenFull(Quota[k])
  BY <1>1, HoldsType DEF Credits
<1>4. HasRoom(k) <=> Holds(algo, Found(k), now, Quota[k]) >= Second
  BY <1>1, <1>2, AdmitsIfPays DEF HasRoom
<1> QED
  BY <1>1, <1>2, <1>3, <1>4

\* A clock that is never set back leaves nothing in the future.
LEMMA NextWrittenByNow ==
    ASSUME MaxBack = 0, algo \in Buckets, BucketInv, WrittenByNow, [Next]_vars
    PROVE  WrittenByNow'
<1> SUFFICES ASSUME NEW k \in Keys PROVE db'[k] = Absent \/ db'[k].last <= now'
  BY DEF WrittenByNow
<1>1. /\ now \in Nat /\ DOMAIN db = Keys
      /\ db[k] = Absent \/ (Stored(algo, db[k], Quota[k]) /\ db[k].last <= now)
  BY KeyFacts DEF WrittenByNow, BucketInv
<1>2. db[k] = Absent \/ (db[k].last \in Int /\ db[k].last <= now)
  <2>1. CASE Stored(algo, db[k], Quota[k])
    <3>1. db[k] \in TokenValues(Quota[k]) \/ db[k] \in LeakyValues(Quota[k])
      BY <2>1 DEF Stored, StoredTokens, StoredWater
    <3>2. db[k] \in TokenValues(Quota[k]) => db[k].last \in Int
      BY DEF TokenValues
    <3>3. db[k] \in LeakyValues(Quota[k]) => db[k].last \in Int
      BY DEF LeakyValues
    <3> QED
      BY <1>1, <3>1, <3>2, <3>3
  <2> QED
    BY <1>1, <2>1
<1>3. Found(k) = Absent \/ Found(k) = db[k]
  BY DEF Found, Visible
<1>4. ASSUME now' = now, db'[k] \in {db[k], Absent, Found(k)}
      PROVE  db'[k] = Absent \/ db'[k].last <= now'
  BY <1>1, <1>2, <1>3, <1>4
<1>4a. ASSUME now' = now, db'[k].last = now
       PROVE  db'[k] = Absent \/ db'[k].last <= now'
  BY <1>1, <1>4a
<1>5. CASE Advance
  BY <1>1, <1>2, <1>5 DEF Advance
<1>6. ASSUME NEW d \in 1 .. MaxBack, StepBack(d) PROVE FALSE
  BY <1>6
<1>7. CASE StartWatch
  BY <1>4, <1>7 DEF StartWatch
<1>8. ASSUME NEW j \in Keys, Expire(j) PROVE db'[k] = Absent \/ db'[k].last <= now'
  BY <1>1, <1>4, <1>8 DEF Expire
<1>9. ASSUME NEW call \in Calls, GrantCall(call)
      PROVE  db'[k] = Absent \/ db'[k].last <= now'
  <2>1. now' = now
    BY <1>9 DEF GrantCall
  <2> DEFINE w == Take(Found(k), now, Quota[k], FreshNonce(k)).value
  <2>2. db'[k] = db[k] \/ db'[k] = w
    BY <1>9 DEF GrantCall
  <2>3. w.last = now
    BY <1>1, KeyFacts, TakeStampsNow
  <2> HIDE DEF w
  <2>4. CASE db'[k] = w
    <3>1. db'[k].last = now
      BY <2>3, <2>4
    <3> QED
      BY <1>4a, <2>1, <3>1
  <2>5. CASE db'[k] = db[k]
    BY <1>4, <2>1, <2>5
  <2> QED
    BY <2>2, <2>4, <2>5
<1>10. ASSUME NEW call \in Calls, DenyCall(call)
       PROVE  db'[k] = Absent \/ db'[k].last <= now'
  <2>1. now' = now
    BY <1>10 DEF DenyCall
  <2>2. db'[k] = db[k] \/ db'[k] = Deny(Found(k), now, Quota[k]).value
    BY <1>10 DEF DenyCall
  <2> QED
    BY <1>4, <2>1, <2>2, DenyLooks
<1>11. ASSUME NEW j \in Keys, Try(j) PROVE db'[k] = Absent \/ db'[k].last <= now'
  <2> DEFINE e(i) == Eval(Found(i), now, Quota[i], FALSE, FreshNonce(i))
  <2>1. now' = now /\ db' = [db EXCEPT ![j] = e(j).value]
    BY <1>11 DEF Try
  <2>2. StampedAt(e(k).value, now)
    <3>1. Quota[k] \in Level /\ now \in Nat
      BY KeyFacts
    <3> QED
      BY <3>1, EvalStampsNow, Zenon
  <2> HIDE DEF e
  <2>3. db'[k] = db[k] \/ db'[k] = e(k).value
    BY <1>1, <2>1
  <2>4. CASE db'[k] = e(k).value
    <3>1. db'[k].last = now
      BY <2>2, <2>4 DEF StampedAt
    <3> QED
      BY <1>4a, <2>1, <3>1
  <2>5. CASE db'[k] = db[k]
    BY <1>4, <2>1, <2>5
  <2> QED
    BY <2>3, <2>4, <2>5
<1>12. ASSUME NEW j \in Keys, Peek(j) PROVE db'[k] = Absent \/ db'[k].last <= now'
  <2>1. now' = now /\ db' = [db EXCEPT ![j] = Found(j)]
    BY <1>12, PeekLooks DEF Peek
  <2> QED
    BY <1>1, <1>4, <2>1
<1>13. CASE UNCHANGED vars
  BY <1>4, <1>13 DEF vars
<1> QED
  BY <1>5, <1>6, <1>7, <1>8, <1>9, <1>10, <1>11, <1>12, <1>13 DEF Next, TryMulti

-----------------------------------------------------------------------------
(***************************************************************************)
(* What a step does to the credits.                                        *)
(***************************************************************************)
\* Time refills every bucket.
LEMMA AdvanceRefills ==
    ASSUME algo \in Buckets, BucketInv, WrittenByNow, Advance, NEW k \in Keys
    PROVE  Credits(k)' = Smaller(Quota[k].burst * Second, Credits(k) + Quota[k].threshold)
<1>1. /\ Quota[k] \in Level /\ now \in Nat
      /\ db[k] = Absent \/ (Stored(algo, db[k], Quota[k]) /\ db[k].last <= now)
  BY KeyFacts DEF WrittenByNow
<1>2. algo' = algo /\ db' = db /\ now' = now + 1
  BY DEF Advance
<1> QED
  BY <1>1, <1>2, HoldsRefills, LevelFacts DEF Credits

\* A grant charges its keys, and no other.
LEMMA GrantCharges ==
    ASSUME algo \in Buckets, BucketInv, NEW call \in Calls, GrantCall(call),
           NEW k \in Keys
    PROVE  Credits(k)' = IF k \in KeysOf(call) THEN Credits(k) - Second ELSE Credits(k)
<1>1. algo' = algo /\ now' = now
  BY DEF GrantCall
<1>2. CASE k \in KeysOf(call)
  <2>1. Admits(Found(k), now, Quota[k])
    BY <1>2 DEF GrantCall, AllHaveRoom, HasRoom
  <2>2. db'[k] = Take(Found(k), now, Quota[k], FreshNonce(k)).value
    BY <1>2 DEF GrantCall
  <2>3. Holds(algo, db'[k], now, Quota[k]) = Holds(algo, Found(k), now, Quota[k]) - Second
    BY <2>1, <2>2, KeyFacts, TakePays
  <2> QED
    BY <1>1, <1>2, <2>3, KeyFacts DEF Credits
<1>3. CASE k \notin KeysOf(call)
  <2>1. db'[k] = db[k]
    BY <1>3 DEF GrantCall
  <2> QED
    BY <1>1, <1>3, <2>1 DEF Credits
<1> QED
  BY <1>2, <1>3

\* The single-key script charges its key if it admits, and no other.
LEMMA TryCharges ==
    ASSUME algo \in Buckets, BucketInv, NEW j \in Keys, Try(j), NEW k \in Keys
    PROVE  Credits(k)' = IF k = j /\ HasRoom(j) THEN Credits(k) - Second ELSE Credits(k)
<1> DEFINE e(i) == Eval(Found(i), now, Quota[i], FALSE, FreshNonce(i))
<1>1. /\ algo' = algo /\ now' = now /\ DOMAIN db = Keys
      /\ db' = [db EXCEPT ![j] = e(j).value]
  BY DEF Try, BucketInv
<1>2. /\ e(k).allowed => Holds(algo, e(k).value, now, Quota[k])
                           = Holds(algo, Found(k), now, Quota[k]) - Second
      /\ ~e(k).allowed => Holds(algo, e(k).value, now, Quota[k])
                           = Holds(algo, Found(k), now, Quota[k])
      /\ e(k).allowed = HasRoom(k)
  <2>1. Quota[k] \in Level /\ now \in Nat
    BY KeyFacts
  <2>2. Found(k) = Absent \/ Stored(algo, Found(k), Quota[k])
    BY KeyFacts
  <2>3. e(k).allowed = HasRoom(k)
    BY EvalDecides, Zenon DEF HasRoom
  <2> QED
    BY <2>1, <2>2, <2>3, EvalPays, Zenon
<1> HIDE DEF e
<1>3. CASE k = j
  <2>1. db'[k] = e(k).value
    BY <1>1, <1>3
  <2>2. Credits(k)' = Holds(algo, e(k).value, now, Quota[k])
    BY <1>1, <2>1 DEF Credits
  <2> QED
    BY <1>2, <1>3, <2>2, KeyFacts
<1>4. CASE k # j
  <2>1. db'[k] = db[k]
    BY <1>1, <1>4
  <2> QED
    BY <1>1, <1>4, <2>1 DEF Credits
<1> QED
  BY <1>3, <1>4

\* It counts what it charges.
LEMMA TryCounts ==
    ASSUME algo \in Buckets, BucketInv, NEW j \in Keys, Try(j), NEW k \in Keys
    PROVE  /\ taken'[k] = IF k = j /\ HasRoom(j) THEN taken[k] + 1 ELSE taken[k]
           /\ taken' \in [Keys -> Nat]
           /\ age' = age
<1> DEFINE e == Eval(Found(j), now, Quota[j], FALSE, FreshNonce(j))
<1>1. e.allowed = HasRoom(j)
  BY EvalDecides, Zenon DEF HasRoom
<1>2. taken' = [taken EXCEPT ![j] = IF e.allowed THEN @ + 1 ELSE @] /\ age' = age
  BY DEF Try
<1>3. taken \in [Keys -> Nat]
  BY DEF BucketInv
<1> HIDE DEF e
<1> QED
  BY <1>1, <1>2, <1>3

\* Whatever else happens leaves every credit alone.
LEMMA OthersCostNothing ==
    ASSUME algo \in Buckets, BucketInv, NEW k \in Keys,
           \/ StartWatch \/ UNCHANGED vars
           \/ \E j \in Keys : Expire(j) \/ Peek(j)
           \/ \E call \in Calls : DenyCall(call)
    PROVE  Credits(k)' = Credits(k)
<1>1. algo' = algo /\ now' = now
  BY DEF StartWatch, vars, Expire, Peek, DenyCall
<1>2. db'[k] = db[k] \/ db'[k] = Found(k)
  <2>1. CASE StartWatch \/ UNCHANGED vars
    BY <2>1 DEF StartWatch, vars
  <2>2. ASSUME NEW j \in Keys, Expire(j) PROVE db'[k] = db[k] \/ db'[k] = Found(k)
    BY <2>2 DEF Expire, BucketInv, Found, Visible
  <2>3. ASSUME NEW j \in Keys, Peek(j) PROVE db'[k] = db[k] \/ db'[k] = Found(k)
    <3>1. db' = [db EXCEPT ![j] = Found(j)]
      BY <2>3, PeekLooks
    <3> QED
      BY <3>1 DEF BucketInv
  <2>4. ASSUME NEW call \in Calls, DenyCall(call)
        PROVE  db'[k] = db[k] \/ db'[k] = Found(k)
    BY <2>4, DenyLooks DEF DenyCall
  <2> QED
    BY <2>1, <2>2, <2>3, <2>4
<1>3. \/ Holds(algo, db'[k], now, Quota[k]) = Holds(algo, db[k], now, Quota[k])
      \/ Holds(algo, db'[k], now, Quota[k]) = Holds(algo, Found(k), now, Quota[k])
  BY <1>2
<1> QED
  BY <1>1, <1>3, KeyFacts DEF Credits

-----------------------------------------------------------------------------
(***************************************************************************)
(* Refusals are earned.                                                    *)
(***************************************************************************)
\* Arithmetic: the three ways a credit, a count and a stop-watch change.
LEMMA EarnedRefill ==
    ASSUME NEW n \in Nat, NEW c \in Nat, NEW full \in Nat, NEW r \in Nat, NEW gain \in Nat,
           n + c >= Smaller(full, gain)
    PROVE  n + Smaller(full, c + r) >= Smaller(full, gain + r)
  BY DEF Smaller

\* Paying for a request changes what was taken and what is left by the same amount.
LEMMA EarnedPay ==
    ASSUME NEW n \in Nat, NEW s \in Nat, NEW c \in Nat, NEW m \in Nat, n * s + c >= m
    PROVE  (n + 1) * s + (c - s) >= m
<1>1. (n + 1) * s = n * s + s /\ n * s \in Nat
  OBVIOUS
<1> QED
  BY <1>1

\* Nothing was written, every bucket is full and the stop-watch is at zero.
LEMMA InitEarned == algo \in Buckets /\ Init => Earned /\ WrittenByNow
<1> SUFFICES ASSUME algo \in Buckets, Init PROVE Earned /\ WrittenByNow
  OBVIOUS
<1>1. WrittenByNow
  BY DEF Init, WrittenByNow
<1>2. ASSUME NEW k \in Keys
      PROVE  taken[k] * Second + Credits(k)
                 >= Smaller(Quota[k].burst * Second, Quota[k].threshold * age)
  <2>1. Quota[k] \in Level
    BY EngineAssumption
  <2>2. Credits(k) = TokenFull(Quota[k])
    BY <2>1, AbsentIsFull DEF Init, Credits
  <2>3. taken[k] * Second = 0 /\ Quota[k].threshold * age = 0
    BY <2>1, LevelFacts, EngineAssumption DEF Init
  <2> QED
    BY <2>1, <2>2, <2>3, LevelFacts DEF Smaller
<1> QED
  BY <1>1, <1>2 DEF Earned

\* Every step keeps it: time adds at most to both sides, a grant moves credit to what
\* was taken, and nothing else costs a key anything.
LEMMA NextEarned ==
    ASSUME MaxBack = 0, algo \in Buckets, BucketInv, WrittenByNow, Earned, [Next]_vars
    PROVE  Earned'
<1> SUFFICES ASSUME NEW k \in Keys
             PROVE  taken'[k] * Second + Credits(k)'
                        >= Smaller(Quota[k].burst * Second, Quota[k].threshold * age')
  BY DEF Earned
<1> DEFINE full == Quota[k].burst * Second
           rate == Quota[k].threshold
           Goal == taken'[k] * Second + Credits(k)' >= Smaller(full, rate * age')
<1>1. /\ full \in Nat /\ rate \in Nat /\ Second \in Nat /\ age \in Nat /\ taken[k] \in Nat
      /\ full = TokenFull(Quota[k]) /\ Credits(k) \in 0 .. full
      /\ taken[k] * Second + Credits(k) >= Smaller(full, rate * age)
  BY KeyFacts, LevelFacts, EngineAssumption DEF BucketInv, Earned
<1>2. taken[k] * Second \in Nat /\ rate * age \in Nat /\ Credits(k) \in Nat
  <2>1. \A m, n \in Nat : m * n \in Nat
    OBVIOUS
  <2> HIDE DEF full, rate
  <2> QED
    BY <1>1, <2>1
<1> HIDE DEF full, rate
<1>3. ASSUME Credits(k)' = Credits(k), taken'[k] = taken[k], age' = age PROVE Goal
  BY <1>1, <1>3
<1>4. ASSUME Credits(k)' = Credits(k) - Second, taken'[k] = taken[k] + 1, age' = age
      PROVE  Goal
  <2>1. Smaller(full, rate * age) \in Nat
    BY <1>1, <1>2 DEF Smaller
  <2>2. (taken[k] + 1) * Second + (Credits(k) - Second) >= Smaller(full, rate * age)
    BY <1>1, <1>2, <2>1, EarnedPay
  <2> QED
    BY <1>4, <2>2
<1>5. ASSUME Advance PROVE Goal
  <2>1. Credits(k)' = Smaller(full, Credits(k) + rate)
    BY <1>5, AdvanceRefills DEF full, rate
  <2>2. taken' = taken /\ age' = age + 1
    BY <1>5 DEF Advance
  <2>3. rate * (age + 1) = rate * age + rate
    <3>1. \A m, n \in Nat : m * (n + 1) = m * n + m
      OBVIOUS
    <3> QED
      BY <1>1, <3>1
  <2>4. taken[k] * Second + Smaller(full, Credits(k) + rate) >= Smaller(full, rate * age + rate)
    BY <1>1, <1>2, EarnedRefill
  <2> QED
    BY <2>1, <2>2, <2>3, <2>4 DEF full, rate
<1>6. ASSUME NEW d \in 1 .. MaxBack, StepBack(d) PROVE Goal
  BY <1>6
<1>7. ASSUME StartWatch PROVE Goal
  <2>1. Credits(k)' = Credits(k)
    BY <1>7, OthersCostNothing
  <2>2. taken'[k] = 0 /\ age' = 0
    BY <1>7 DEF StartWatch
  <2>3. 0 * Second = 0 /\ rate * 0 = 0
    BY <1>1
  <2> QED
    <3>1. 0 + Credits(k) >= Smaller(full, 0)
      BY <1>1, <1>2 DEF Smaller
    <3> QED
      BY <2>1, <2>2, <2>3, <3>1 DEF full, rate
<1>8. ASSUME NEW j \in Keys, Expire(j) PROVE Goal
  BY <1>3, <1>8, OthersCostNothing DEF Expire
<1>9. ASSUME NEW call \in Calls, GrantCall(call) PROVE Goal
  <2>1. Credits(k)' = IF k \in KeysOf(call) THEN Credits(k) - Second ELSE Credits(k)
    BY <1>9, GrantCharges
  <2>2. /\ taken'[k] = IF k \in KeysOf(call) THEN taken[k] + 1 ELSE taken[k]
        /\ age' = age
    BY <1>9 DEF GrantCall
  <2> HIDE DEF Goal
  <2> QED
    BY <1>3, <1>4, <2>1, <2>2
<1>10. ASSUME NEW call \in Calls, DenyCall(call) PROVE Goal
  BY <1>3, <1>10, OthersCostNothing DEF DenyCall
<1>11. ASSUME NEW j \in Keys, Try(j) PROVE Goal
  <2>1. Credits(k)' = IF k = j /\ HasRoom(j) THEN Credits(k) - Second ELSE Credits(k)
    BY <1>11, TryCharges
  <2>2. /\ taken'[k] = IF k = j /\ HasRoom(j) THEN taken[k] + 1 ELSE taken[k]
        /\ age' = age
    BY <1>11, TryCounts
  <2> HIDE DEF Goal
  <2> QED
    BY <1>3, <1>4, <2>1, <2>2
<1>12. ASSUME NEW j \in Keys, Peek(j) PROVE Goal
  BY <1>3, <1>12, OthersCostNothing DEF Peek
<1>13. ASSUME UNCHANGED vars PROVE Goal
  <2>1. Credits(k)' = Credits(k)
    BY <1>13, OthersCostNothing
  <2>2. taken'[k] = taken[k] /\ age' = age
    BY <1>13 DEF vars
  <2> HIDE DEF Goal
  <2> QED
    BY <1>3, <2>1, <2>2
<1> QED
  BY <1>5, <1>6, <1>7, <1>8, <1>9, <1>10, <1>11, <1>12, <1>13
  DEF Next, TryMulti, full, rate

\* A bucket that refuses holds less than the price of a request.
LEMMA EarnedRefuses == algo \in Buckets /\ BucketInv /\ Earned => BucketDenialEarned
<1> SUFFICES ASSUME algo \in Buckets, BucketInv, Earned, NEW k \in Keys, ~HasRoom(k)
             PROVE  taken[k] * Second
                        > Smaller(Quota[k].burst * Second, Quota[k].threshold * age) - Second
  BY DEF BucketDenialEarned
<1> DEFINE least == Smaller(Quota[k].burst * Second, Quota[k].threshold * age)
<1>1. /\ Credits(k) \in Nat /\ Credits(k) < Second
      /\ taken[k] * Second + Credits(k) >= least
  BY KeyFacts, LevelFacts, EngineAssumption DEF Earned
<1>2. taken[k] * Second \in Nat /\ least \in Nat /\ Second \in Nat
  <2>1. \A m, n \in Nat : m * n \in Nat
    OBVIOUS
  <2>2. /\ taken[k] \in Nat /\ age \in Nat /\ Second \in Nat
        /\ Quota[k].burst \in Nat /\ Quota[k].threshold \in Nat
    BY KeyFacts, LevelFacts, EngineAssumption DEF BucketInv
  <2>3. Quota[k].burst * Second \in Nat /\ Quota[k].threshold * age \in Nat
    BY <2>1, <2>2
  <2> QED
    BY <2>1, <2>2, <2>3 DEF Smaller
<1> HIDE DEF least
<1> QED
  BY <1>1, <1>2 DEF least

-----------------------------------------------------------------------------
\* The inductive invariant, as long as the clock is never set back.
CalmIInv == algo \in Buckets => BucketInv /\ WrittenByNow /\ Earned

\* Every run keeps the three, if the clock is never set back.
LEMMA CalmInvariants == ASSUME MaxBack = 0 PROVE Spec => []CalmIInv
<1>1. Init => CalmIInv
  BY InitInv, InitEarned DEF CalmIInv
<1>2. CalmIInv /\ [Next]_vars => CalmIInv'
  BY AlgoFixed, NextBucketInv, NextWrittenByNow, NextEarned DEF CalmIInv
<1> QED
  BY <1>1, <1>2, PTL DEF Spec

\* token_bucket_multi.go and leaky_bucket_multi.go: unless the clock is set back,
\* a key refuses only if what it admitted, less than one request short, exceeds a
\* full bucket or what its rate added: no denied call, expiry or peek ever cost it
\* anything.
THEOREM BucketsRefuseEarned == ASSUME MaxBack = 0 PROVE Spec => []BucketDenialEarned
<1>1. CalmIInv => BucketDenialEarned
  <2>1. CASE algo \in Buckets
    BY <2>1, EarnedRefuses DEF CalmIInv
  <2>2. CASE algo \notin Buckets
    BY <2>2 DEF BucketDenialEarned
  <2> QED
    BY <2>1, <2>2
<1> QED
  BY <1>1, CalmInvariants, PTL

-----------------------------------------------------------------------------
(***************************************************************************)
(* The refinement.                                                         *)
(***************************************************************************)
\* The credit the refinement mapping shows is what the bucket holds.
LEMMA CreditHeld ==
    algo \in Buckets /\ BucketInv =>
        [k \in Keys |-> Credit(k)] = [k \in Keys |-> Credits(k)]
<1> SUFFICES ASSUME algo \in Buckets, BucketInv, NEW k \in Keys
             PROVE  Credit(k) = Credits(k)
  OBVIOUS
<1>1. CASE algo = "token_bucket"
  <2>1. Credit(k) = Holds(algo, Found(k), now, Quota[k])
    BY <1>1 DEF Credit, Holds
  <2> QED
    BY <2>1, KeyFacts
<1>2. CASE algo = "leaky_bucket"
  <2>1. Credit(k) = Holds(algo, Found(k), now, Quota[k])
    BY <1>2 DEF Credit, Holds, TokenFull
  <2> QED
    BY <2>1, KeyFacts
<1> QED
  BY <1>1, <1>2 DEF Buckets

\* So it is after a step.
LEMMA CreditHeldNext ==
    algo' \in Buckets /\ BucketInv' =>
        [k \in Keys |-> Credit(k)]' = [k \in Keys |-> Credits(k)']
<1>1. (algo \in Buckets /\ BucketInv =>
           [k \in Keys |-> Credit(k)] = [k \in Keys |-> Credits(k)])'
  BY CreditHeld, PTL
<1> QED
  BY <1>1

\* A bucket nobody has used yet is full.
LEMMA InitIsIdeal == algo \in Buckets /\ Init => Ideal!Init
<1> SUFFICES ASSUME algo \in Buckets, Init PROVE Ideal!Init
  OBVIOUS
<1>1. ASSUME NEW k \in Keys PROVE Credits(k) = Quota[k].burst * Second
  <2>1. Quota[k] \in Level
    BY EngineAssumption
  <2> QED
    BY <2>1, AbsentIsFull, LevelFacts DEF Init, Credits
<1>2. [k \in Keys |-> Credit(k)] = [k \in Keys |-> Quota[k].burst * Second]
  BY <1>1, InitInv, CreditHeld
<1> QED
  BY <1>2 DEF Init, Ideal!Init, Ideal!Full

\* Each step of the engine is a step of the ideal bucket, or none.
LEMMA NextIsIdeal ==
    ASSUME MaxBack = 0, algo \in Buckets, BucketInv, WrittenByNow, BucketInv', [Next]_vars
    PROVE  [Ideal!Next]_(Ideal!vars)
<1> DEFINE credit == [k \in Keys |-> Credits(k)]
           after  == [k \in Keys |-> Credits(k)']
<1>1. /\ [k \in Keys |-> Credit(k)] = credit
      /\ [k \in Keys |-> Credit(k)]' = after
  BY AlgoFixed, CreditHeld, CreditHeldNext
<1>2. \A k \in Keys : HasRoom(k) <=> Credits(k) >= Second
  BY KeyFacts
<1>3. ASSUME after = credit, taken' = taken PROVE UNCHANGED Ideal!vars
  BY <1>1, <1>3 DEF Ideal!vars
<1>4. ASSUME NEW K, K \subseteq Keys, \A k \in K : HasRoom(k),
             \A k \in Keys : Credits(k)' = IF k \in K THEN Credits(k) - Second ELSE Credits(k),
             taken' = [k \in Keys |-> IF k \in K THEN taken[k] + 1 ELSE taken[k]]
      PROVE  Ideal!Pay(K)
  <2>1. \A k \in K : credit[k] >= Second
    BY <1>2, <1>4
  <2>2. after = [k \in Keys |-> IF k \in K THEN credit[k] - Second ELSE credit[k]]
    BY <1>4
  <2> HIDE DEF credit, after
  <2> QED
    BY <1>1, <1>4, <2>1, <2>2 DEF Ideal!Pay
<1>5. CASE Advance
  <2>1. ASSUME NEW k \in Keys
        PROVE  Credits(k)' = IF Credits(k) + Quota[k].threshold > Quota[k].burst * Second
                             THEN Quota[k].burst * Second
                             ELSE Credits(k) + Quota[k].threshold
    <3>1. Credits(k)' = Smaller(Quota[k].burst * Second, Credits(k) + Quota[k].threshold)
      BY <1>5, AdvanceRefills
    <3>2. /\ Credits(k) + Quota[k].threshold \in Int
          /\ Quota[k].burst * Second \in Int
      BY KeyFacts, LevelFacts
    <3>3. \A m, n \in Int : Smaller(m, n) = IF n > m THEN m ELSE n
      BY DEF Smaller
    <3> QED
      BY <3>1, <3>2, <3>3
  <2>2. after = [k \in Keys |-> IF credit[k] + Quota[k].threshold > Quota[k].burst * Second
                                THEN Quota[k].burst * Second
                                ELSE credit[k] + Quota[k].threshold]
    BY <2>1, Zenon
  <2>3. taken' = taken
    BY <1>5 DEF Advance
  <2> HIDE DEF credit, after
  <2> QED
    BY <1>1, <2>2, <2>3 DEF Ideal!Next, Ideal!Tick, Ideal!Full
<1>6. ASSUME NEW d \in 1 .. MaxBack, StepBack(d) PROVE FALSE
  BY <1>6
<1>7. CASE StartWatch
  <2>1. after = credit
    BY <1>7, OthersCostNothing
  <2>2. taken' = [k \in Keys |-> 0]
    BY <1>7 DEF StartWatch
  <2> QED
    BY <1>1, <2>1, <2>2 DEF Ideal!Next, Ideal!Recount
<1>8. ASSUME NEW j \in Keys, Expire(j) PROVE UNCHANGED Ideal!vars
  <2>1. after = credit
    BY <1>8, OthersCostNothing
  <2> QED
    BY <1>3, <1>8, <2>1 DEF Expire
<1>9. ASSUME NEW call \in Calls, GrantCall(call) PROVE Ideal!Next
  <2>1. KeysOf(call) \subseteq Keys
    BY EngineAssumption DEF KeysOf
  <2>2. /\ \A k \in KeysOf(call) : HasRoom(k)
        /\ taken' = [k \in Keys |-> IF k \in KeysOf(call) THEN taken[k] + 1 ELSE taken[k]]
    BY <1>9 DEF GrantCall, AllHaveRoom
  <2>3. \A k \in Keys : Credits(k)' = IF k \in KeysOf(call) THEN Credits(k) - Second
                                      ELSE Credits(k)
    BY <1>9, GrantCharges
  <2>4. Ideal!Pay(KeysOf(call))
    BY <1>4, <2>1, <2>2, <2>3
  <2> QED
    BY <2>4 DEF Ideal!Next, KeysOf
<1>10. ASSUME NEW call \in Calls, DenyCall(call) PROVE UNCHANGED Ideal!vars
  <2>1. after = credit
    BY <1>10, OthersCostNothing
  <2> QED
    BY <1>3, <1>10, <2>1 DEF DenyCall
<1>11. ASSUME NEW j \in Keys, Try(j) PROVE Ideal!Next \/ UNCHANGED Ideal!vars
  <2>1. \A k \in Keys : Credits(k)' = IF k = j /\ HasRoom(j) THEN Credits(k) - Second
                                      ELSE Credits(k)
    BY <1>11, TryCharges
  <2>2. /\ \A k \in Keys : taken'[k] = IF k = j /\ HasRoom(j) THEN taken[k] + 1 ELSE taken[k]
        /\ taken' \in [Keys -> Nat] /\ taken \in [Keys -> Nat]
    BY <1>11, TryCounts DEF BucketInv
  <2>3. CASE HasRoom(j)
    <3>1. taken' = [k \in Keys |-> IF k \in {j} THEN taken[k] + 1 ELSE taken[k]]
      BY <2>2, <2>3
    <3>2. \A k \in Keys : Credits(k)' = IF k \in {j} THEN Credits(k) - Second ELSE Credits(k)
      BY <2>1, <2>3
    <3>3. Ideal!Pay({j})
      BY <1>4, <2>3, <3>1, <3>2
    <3> QED
      BY <3>3 DEF Ideal!Next
  <2>4. CASE ~HasRoom(j)
    <3>1. taken' = taken
      BY <2>2, <2>4
    <3>2. after = credit
      BY <2>1, <2>4
    <3> QED
      BY <1>3, <3>1, <3>2
  <2> QED
    BY <2>3, <2>4
<1>12. ASSUME NEW j \in Keys, Peek(j) PROVE UNCHANGED Ideal!vars
  <2>1. after = credit
    BY <1>12, OthersCostNothing
  <2> QED
    BY <1>3, <1>12, <2>1 DEF Peek
<1>13. CASE UNCHANGED vars
  <2>1. after = credit
    BY <1>13, OthersCostNothing
  <2>2. taken' = taken
    BY <1>13 DEF vars
  <2>3. UNCHANGED Ideal!vars
    BY <1>3, <2>1, <2>2
  <2> QED
    BY <2>3
<1> QED
  BY <1>5, <1>6, <1>7, <1>8, <1>9, <1>10, <1>11, <1>12, <1>13 DEF Next, TryMulti

\* token_bucket_multi.go and leaky_bucket_multi.go with their single-key scripts:
\* unless the clock is set back, rules with a bucket implement the ideal bucket:
\* refilling on demand, the time to live and Redis' deletions cannot be told from
\* a bucket that is refilled all the time.
THEOREM BucketsAreIdeal ==
    ASSUME MaxBack = 0, Algos \subseteq Buckets PROVE Spec => ImplementsIdealBucket
<1> DEFINE IInv == algo \in Buckets /\ BucketInv /\ WrittenByNow
<1>1. Init => IInv /\ Ideal!Init
  BY InitInv, InitEarned, InitIsIdeal DEF Init
<1>2. IInv /\ [Next]_vars => IInv'
  BY AlgoFixed, NextBucketInv, NextWrittenByNow
<1>3. IInv /\ IInv' /\ [Next]_vars => [Ideal!Next]_(Ideal!vars)
  BY NextIsIdeal
<1> HIDE DEF IInv
<1> QED
  BY <1>1, <1>2, <1>3, PTL DEF Spec, ImplementsIdealBucket, Ideal!Spec

-----------------------------------------------------------------------------
(***************************************************************************)
(* The releases of a leaky bucket, whatever the clock does.                *)
(***************************************************************************)
\* The time in which a queue drains.
Drain(k) == CeilDiv(TokenFull(Quota[k]) - Credits(k), Quota[k].threshold)

\* No promised release lies beyond it.
Promises == \A k \in Keys : due[k] <= Drain(k)

\* A queue that holds more drains no sooner; in a unit of time it drains by one.
LEMMA DrainFacts ==
    ASSUME algo \in Buckets, BucketInv, NEW k \in Keys
    PROVE  /\ Drain(k) \in Nat
           /\ \A c \in Int : c <= Credits(k) =>
                  CeilDiv(TokenFull(Quota[k]) - c, Quota[k].threshold) >= Drain(k)
           /\ \A c \in Int : c <= Credits(k) + Quota[k].threshold =>
                  CeilDiv(TokenFull(Quota[k]) - c, Quota[k].threshold) >= Drain(k) - 1
           /\ \A c \in Int : c = Credits(k) - Second =>
                  CeilDiv(TokenFull(Quota[k]) - c, Quota[k].threshold)
                      >= Drain(k) + Second \div Quota[k].threshold
<1> DEFINE full  == TokenFull(Quota[k])
           m     == Quota[k].threshold
           water == full - Credits(k)
<1>1. /\ full \in Nat /\ m \in Nat \ {0} /\ Credits(k) \in Int /\ Second \in Nat
      /\ water \in Int /\ water >= 0 /\ Drain(k) = CeilDiv(water, m)
  BY KeyFacts, LevelFacts, EngineAssumption DEF Drain
<1> HIDE DEF full, m
<1>2. Drain(k) \in Nat
  BY <1>1, CeilDivFacts
<1>3. ASSUME NEW c \in Int, NEW z \in Int, full - c >= water + z * m
      PROVE  CeilDiv(full - c, m) >= Drain(k) + z
  <2> HIDE DEF water
  <2>1. full - c \in Int
    BY <1>1
  <2> QED
    BY <1>1, <1>3, <2>1, CeilDivShift
<1>4. 0 * m = 0 /\ (-1) * m = -m
  BY <1>1
<1>5. Second \div m \in Int /\ (Second \div m) * m <= Second
  BY <1>1
<1>6. ASSUME NEW c \in Int, c <= Credits(k) PROVE CeilDiv(full - c, m) >= Drain(k)
  <2>1. full - c >= water + 0 * m
    BY <1>1, <1>4, <1>6
  <2>2. CeilDiv(full - c, m) >= Drain(k) + 0
    BY <1>3, <2>1
  <2> QED
    BY <1>2, <2>2
<1>7. ASSUME NEW c \in Int, c <= Credits(k) + m PROVE CeilDiv(full - c, m) >= Drain(k) - 1
  <2>1. full - c >= water + (-1) * m
    BY <1>1, <1>4, <1>7
  <2>2. CeilDiv(full - c, m) >= Drain(k) + (-1)
    BY <1>3, <2>1
  <2> QED
    BY <1>2, <2>2
<1>8. ASSUME NEW c \in Int, c = Credits(k) - Second
      PROVE  CeilDiv(full - c, m) >= Drain(k) + Second \div m
  <2>1. (Second \div m) * m \in Int
    BY <1>1, <1>5
  <2>2. full - c >= water + (Second \div m) * m
    <3> HIDE DEF water
    <3>1. water = full - Credits(k)
      BY DEF water
    <3> QED
      BY <1>1, <1>5, <1>8, <2>1, <3>1
  <2> QED
    BY <1>3, <1>5, <2>2
<1> QED
  BY <1>2, <1>6, <1>7, <1>8 DEF full, m

\* The reply gives this as the time to the reset.
ResetIs(e, x) == e.report.reset = x

\* The release a grant promises is the time in which its queue drains.
LEMMA TakePromises ==
    ASSUME algo = "leaky_bucket", NEW cfg \in Level, NEW t \in Nat, NEW v, NEW id,
           v = Absent \/ Stored(algo, v, cfg)
    PROVE  LET r == CeilDiv(TokenFull(cfg) - (Holds(algo, v, t, cfg) - Second),
                            cfg.threshold)
           IN  /\ ResetIs(Take(v, t, cfg, id), r)
               /\ Admits(v, t, cfg) => ResetIs(Eval(v, t, cfg, FALSE, id), r)
<1> DEFINE L == LeakyNow(v, t, cfg)
           r == CeilDiv(L + Second, cfg.threshold)
<1>1. L \in Nat /\ TokenFull(cfg) \in Nat /\ Second \in Nat
  <2>1. v = Absent \/ StoredWater(v, cfg)
    BY DEF Stored
  <2> QED
    BY <2>1, LeakyNowType, LevelFacts, EngineAssumption
<1>2. Holds(algo, v, t, cfg) = TokenFull(cfg) - L
  BY DEF Holds
<1>3. TokenFull(cfg) - (Holds(algo, v, t, cfg) - Second) = L + Second
  <2> HIDE DEF L
  <2> QED
    BY <1>1, <1>2
<1>4. Take(v, t, cfg, id) = LeakyTake(v, t, cfg) /\ LeakyTake(v, t, cfg).report.reset = r
  <2>1. Take(v, t, cfg, id) = LeakyTake(v, t, cfg)
    BY DEF Take, ScriptTake
  <2>2. LeakyTake(v, t, cfg).report.reset = r
    BY DEF LeakyTake, LeakyDrainsIn
  <2> QED
    BY <2>1, <2>2
<1>5. ASSUME Admits(v, t, cfg)
      PROVE  /\ Eval(v, t, cfg, FALSE, id) = LeakyEval(v, t, cfg, FALSE)
             /\ LeakyEval(v, t, cfg, FALSE).report.reset = r
  <2>1. Eval(v, t, cfg, FALSE, id) = LeakyEval(v, t, cfg, FALSE)
    BY DEF Eval, ScriptEval
  <2>2. LeakyHasSlot(L, cfg)
    BY <1>5 DEF Admits, ScriptAdmits, LeakyAdmits
  <2>3. LeakyEval(v, t, cfg, FALSE).report.reset = r
    BY <2>2 DEF LeakyEval, LeakyDrainsIn
  <2> QED
    BY <2>1, <2>3
<1> HIDE DEF r, L
<1>6. r = CeilDiv(TokenFull(cfg) - (Holds(algo, v, t, cfg) - Second), cfg.threshold)
  BY <1>3 DEF r
<1> QED
  BY <1>4, <1>5, <1>6 DEF ResetIs

\* The same, of the keys of a step.
LEMMA KeyPromises ==
    ASSUME algo = "leaky_bucket", BucketInv, NEW k \in Keys
    PROVE  LET r == CeilDiv(TokenFull(Quota[k]) - (Credits(k) - Second), Quota[k].threshold)
               took == Take(Found(k), now, Quota[k], FreshNonce(k))
               e    == Eval(Found(k), now, Quota[k], FALSE, FreshNonce(k))
           IN  took.report.reset = r /\ (HasRoom(k) => e.report.reset = r)
<1> DEFINE x == CeilDiv(TokenFull(Quota[k]) - (Holds(algo, Found(k), now, Quota[k]) - Second),
                        Quota[k].threshold)
<1>1. /\ algo \in Buckets /\ Quota[k] \in Level /\ now \in Nat
      /\ Found(k) = Absent \/ Stored(algo, Found(k), Quota[k])
      /\ Holds(algo, Found(k), now, Quota[k]) = Credits(k)
  BY KeyFacts DEF Buckets
<1>2. ResetIs(Take(Found(k), now, Quota[k], FreshNonce(k)), x)
  BY <1>1, TakePromises, Zenon
<1>3. HasRoom(k) => ResetIs(Eval(Found(k), now, Quota[k], FALSE, FreshNonce(k)), x)
  BY <1>1, TakePromises, Zenon DEF HasRoom
<1>4. x = CeilDiv(TokenFull(Quota[k]) - (Credits(k) - Second), Quota[k].threshold)
  BY <1>1
<1> HIDE DEF x
<1> QED
  BY <1>2, <1>3, <1>4 DEF ResetIs

\* The single-key script admits if the key has room.
LEMMA TryDecides ==
    ASSUME algo \in Buckets, NEW j \in Keys
    PROVE  Eval(Found(j), now, Quota[j], FALSE, FreshNonce(j)).allowed <=> HasRoom(j)
<1>1. Eval(Found(j), now, Quota[j], FALSE, FreshNonce(j)).allowed = HasRoom(j)
  BY EvalDecides, Zenon DEF HasRoom
<1> QED
  BY <1>1, Zenon

\* Nothing was promised.
LEMMA InitPromises == algo = "leaky_bucket" /\ Init => Promises
<1> SUFFICES ASSUME algo = "leaky_bucket", Init, NEW k \in Keys PROVE due[k] <= Drain(k)
  BY DEF Promises
<1>1. algo \in Buckets /\ BucketInv
  BY InitInv DEF Buckets
<1>2. Drain(k) \in Nat
  BY <1>1, DrainFacts
<1> QED
  BY <1>2 DEF Init

\* No step promises a release beyond the queue, and one that admits promises a
\* release that comes after the one before it.
LEMMA NextPromises ==
    ASSUME algo = "leaky_bucket", BucketInv, Promises, [Next]_vars, NEW k \in Keys
    PROVE  /\ due'[k] <= Drain(k)'
           /\ taken'[k] = taken[k] + 1 =>
                  due'[k] >= due[k] + Second \div Quota[k].threshold
<1> DEFINE rate   == Quota[k].threshold
           spaced == taken'[k] = taken[k] + 1 => due'[k] >= due[k] + Second \div rate
           Goal   == due'[k] <= Drain(k)' /\ spaced
<1>1. /\ algo \in Buckets /\ due[k] \in Nat /\ taken[k] \in Nat /\ now \in Nat
      /\ due[k] <= Drain(k) /\ due \in [Keys -> Nat] /\ DOMAIN db = Keys
  BY DEF Buckets, BucketInv, Promises
<1>2. /\ Credits(k)' \in 0 .. TokenFull(Quota[k])
      /\ Quota[k] \in Level /\ rate \in Nat \ {0} /\ TokenFull(Quota[k]) \in Nat
      /\ Credits(k) \in 0 .. TokenFull(Quota[k])
  <2>1. BucketInv' /\ algo' = algo
    BY <1>1, NextBucketInv, AlgoFixed
  <2>2. Quota[k] \in Level /\ now' \in Nat /\ (db'[k] = Absent \/ Stored(algo', db'[k], Quota[k]))
    BY <2>1, EngineAssumption DEF BucketInv
  <2>3. Holds(algo', db'[k], now', Quota[k]) \in 0 .. TokenFull(Quota[k])
    BY <1>1, <2>1, <2>2, HoldsType
  <2> QED
    BY <1>1, <2>2, <2>3, LevelFacts, KeyFacts DEF Credits
<1>3. Drain(k)' = CeilDiv(TokenFull(Quota[k]) - Credits(k)', rate)
  BY DEF Drain
<1>4. /\ Drain(k) \in Nat /\ Drain(k)' \in Int /\ Drain(k)' >= 0
      /\ Credits(k)' <= Credits(k) => Drain(k)' >= Drain(k)
      /\ Credits(k)' <= Credits(k) + rate => Drain(k)' >= Drain(k) - 1
      /\ Credits(k)' = Credits(k) - Second => Drain(k)' >= Drain(k) + Second \div rate
  <2>1. /\ TokenFull(Quota[k]) - Credits(k)' \in Int /\ TokenFull(Quota[k]) - Credits(k)' >= 0
        /\ Credits(k)' \in Int
    BY <1>2
  <2>2. Drain(k)' \in Int /\ Drain(k)' >= 0
    BY <1>2, <1>3, <2>1, CeilDivFacts
  <2> QED
    BY <1>1, <1>3, <2>1, <2>2, DrainFacts
<1> HIDE DEF rate
<1>5. ASSUME Credits(k)' <= Credits(k), due'[k] = due[k], taken'[k] = taken[k] \/ taken'[k] = 0
      PROVE  Goal
  BY <1>1, <1>4, <1>5
<1>6. ASSUME Credits(k)' = Credits(k) - Second, due'[k] = Drain(k)' PROVE Goal
  <2>1. Second \div rate \in Int
    BY <1>2, EngineAssumption
  <2> QED
    BY <1>1, <1>4, <1>6, <2>1
<1>7. ASSUME Advance PROVE Goal
  <2>1. /\ db' = db /\ now' = now + 1 /\ algo' = algo /\ taken' = taken
        /\ due'[k] = Larger(0, due[k] - 1)
    BY <1>7 DEF Advance
  <2>2. Credits(k)' <= Credits(k) + rate
    BY <1>1, <2>1, KeyFacts, HoldsAdvance DEF Credits, rate
  <2>3. due'[k] <= Drain(k)'
    BY <1>1, <1>4, <2>1, <2>2 DEF Larger
  <2> QED
    BY <1>1, <2>1, <2>3
<1>8. ASSUME NEW d \in 1 .. MaxBack, StepBack(d) PROVE Goal
  <2>1. /\ db' = db /\ now' = now - d /\ algo' = algo /\ taken' = taken /\ due' = due
        /\ d \in Nat /\ d <= now
    BY <1>8, EngineAssumption DEF StepBack
  <2>2. Credits(k)' <= Credits(k)
    BY <1>1, <2>1, KeyFacts, HoldsBack DEF Credits
  <2> HIDE DEF Goal
  <2> QED
    BY <1>5, <2>1, <2>2
<1>9. ASSUME \/ StartWatch \/ UNCHANGED vars
             \/ \E j \in Keys : Expire(j) \/ Peek(j)
             \/ \E call \in Calls : DenyCall(call)
      PROVE  Goal
  <2>1. Credits(k)' = Credits(k)
    BY <1>1, <1>9, OthersCostNothing
  <2>2. due'[k] = due[k] /\ (taken'[k] = taken[k] \/ taken'[k] = 0)
    BY <1>9 DEF StartWatch, vars, Expire, Peek, DenyCall
  <2> HIDE DEF Goal
  <2> QED
    BY <1>2, <1>5, <2>1, <2>2
<1>10. ASSUME NEW call \in Calls, GrantCall(call) PROVE Goal
  <2>1. Credits(k)' = IF k \in KeysOf(call) THEN Credits(k) - Second ELSE Credits(k)
    BY <1>1, <1>10, GrantCharges
  <2>2. CASE k \in KeysOf(call)
    <3> DEFINE reset == Take(Found(k), now, Quota[k], FreshNonce(k)).report.reset
    <3>1. due'[k] = reset
      BY <1>10, <2>2 DEF GrantCall, Promise
    <3>2. reset = CeilDiv(TokenFull(Quota[k]) - (Credits(k) - Second), rate)
      BY KeyPromises, Zenon DEF rate
    <3> HIDE DEF reset, Goal
    <3> QED
      BY <1>3, <1>6, <2>1, <2>2, <3>1, <3>2
  <2>3. CASE k \notin KeysOf(call)
    <3>1. due'[k] = due[k] /\ taken'[k] = taken[k]
      BY <1>10, <2>3 DEF GrantCall
    <3> HIDE DEF Goal
    <3> QED
      BY <1>2, <1>5, <2>1, <2>3, <3>1
  <2> QED
    BY <2>2, <2>3
<1>11. ASSUME NEW j \in Keys, Try(j) PROVE Goal
  <2> DEFINE e(i) == Eval(Found(i), now, Quota[i], FALSE, FreshNonce(i))
  <2>1. Credits(k)' = IF k = j /\ HasRoom(j) THEN Credits(k) - Second ELSE Credits(k)
    BY <1>1, <1>11, TryCharges
  <2>2. taken'[k] = IF k = j /\ HasRoom(j) THEN taken[k] + 1 ELSE taken[k]
    BY <1>1, <1>11, TryCounts
  <2>3. due' = [due EXCEPT ![j] = IF e(j).allowed THEN e(j).report.reset ELSE @]
    BY <1>11 DEF Try, Promise
  <2>4. e(j).allowed <=> HasRoom(j)
    BY <1>1, TryDecides, Zenon
  <2>5. CASE k = j /\ HasRoom(j)
    <3>1. due'[k] = e(k).report.reset
      <4> HIDE DEF e
      <4> QED
        BY <1>1, <2>3, <2>4, <2>5
    <3>3. e(k).report.reset = CeilDiv(TokenFull(Quota[k]) - (Credits(k) - Second), rate)
      BY <2>5, KeyPromises, Zenon DEF rate
    <3> HIDE DEF e, Goal
    <3> QED
      BY <1>3, <1>6, <2>1, <2>5, <3>1, <3>3
  <2>6. CASE ~(k = j /\ HasRoom(j))
    <3> HIDE DEF e
    <3>1. due'[k] = due[k] /\ taken'[k] = taken[k]
      BY <1>1, <2>2, <2>3, <2>4, <2>6
    <3> HIDE DEF Goal
    <3> QED
      BY <1>2, <1>5, <2>1, <2>6, <3>1
  <2> QED
    BY <2>5, <2>6
<1> QED
  BY <1>7, <1>8, <1>9, <1>10, <1>11 DEF Next, TryMulti, rate

\* leaky_bucket_multi.go and leaky_bucket.go: the requests of a key are released in
\* the order in which they were admitted, each at least the time of one request at
\* the leak rate after the one before it, even if the clock is set back.
THEOREM LeakyReleasesSpaced == Spec => ReleaseSpaced
<1> DEFINE IInv == algo = "leaky_bucket" => BucketInv /\ Promises
           Step == \A k \in Keys : (algo = "leaky_bucket" /\ taken'[k] = taken[k] + 1) =>
                       due'[k] >= due[k] + Second \div Quota[k].threshold
<1>1. Init => IInv
  BY InitInv, InitPromises DEF Buckets
<1>2. IInv /\ [Next]_vars => IInv' /\ Step
  <2> SUFFICES ASSUME IInv, [Next]_vars PROVE IInv' /\ Step
    OBVIOUS
  <2>1. algo' = algo
    BY AlgoFixed
  <2>2. CASE algo = "leaky_bucket"
    <3>1. BucketInv'
      BY <2>2, NextBucketInv DEF Buckets
    <3>2. ASSUME NEW k \in Keys PROVE due'[k] <= Drain(k)'
      BY <2>2, NextPromises
    <3>3. Promises'
      BY <3>2 DEF Promises
    <3>4. ASSUME NEW k \in Keys, taken'[k] = taken[k] + 1
          PROVE  due'[k] >= due[k] + Second \div Quota[k].threshold
      BY <2>2, <3>4, NextPromises
    <3>5. Step
      BY <3>4
    <3>6. IInv'
      BY <3>1, <3>3
    <3> HIDE DEF Step, IInv
    <3> QED
      BY <3>5, <3>6
  <2>3. CASE algo # "leaky_bucket"
    BY <2>1, <2>3
  <2> QED
    BY <2>2, <2>3
<1> HIDE DEF IInv
<1>3. IInv /\ [Next]_vars => [Step]_vars
  BY <1>2
<1> HIDE DEF Step
<1>4. Spec => [][Step]_vars
  BY <1>1, <1>2, <1>3, PTL DEF Spec
<1> QED
  BY <1>4 DEF ReleaseSpaced, Step

-----------------------------------------------------------------------------
(***************************************************************************)
(* The windows and the log: what Redis holds for them.                     *)
(***************************************************************************)
\* A nonce is never drawn twice while its entry lives: there are more of them
\* than a log can hold.
EnoughNonces ==
    \A k \in Keys : \A used \in SUBSET Nonces :
        IsFiniteSet(used) /\ Cardinality(used) <= Quota[k].threshold => used # Nonces

\* A stored log.
StoredLog(v, cfg) ==
    /\ v \in [type : {"zset"}, entries : SUBSET [at : Nat, id : Nonces], expireAt : Nat]
    /\ IsFiniteSet(v.entries) /\ v.entries # {}
    /\ Cardinality(v.entries) <= cfg.threshold

\* What Redis holds for a sliding log.
IsLog(v, cfg) == v = Absent \/ StoredLog(v, cfg)

\* The entries no older, by the clock, than the stop-watch.
Recent(v, t, a) == {e \in v.entries : t - e.at <= a}

\* While the stop-watch is shorter than the window, every request it has seen
\* admitted has an entry, and the key outlives the window.
Covers(v, n, t, a, cfg) ==
    a < LogLength(cfg) =>
        \/ n = 0
        \/ /\ Exists(v)
           /\ n <= Cardinality(Recent(v, t, a))
           /\ t - a + LogLength(cfg) <= v.expireAt

-----------------------------------------------------------------------------
(***************************************************************************)
(* One log.                                                                *)
(***************************************************************************)
\* Windows, limits and seconds are positive.
LEMMA LengthFacts ==
    ASSUME NEW cfg \in Level
    PROVE  /\ LogLength(cfg) \in Nat \ {0} /\ FixedLength(cfg) \in Nat \ {0}
           /\ cfg.threshold \in Nat \ {0} /\ Second \in Nat \ {0}
<1>1. cfg.window \in Nat \ {0} /\ cfg.threshold \in Nat \ {0} /\ Second \in Nat \ {0}
  BY EngineAssumption DEF Level
<1>2. \A m, n \in Nat \ {0} : m * n \in Nat \ {0}
  OBVIOUS
<1> QED
  BY <1>1, <1>2 DEF LogLength, FixedLength

\* What is left of a log is finite and no larger.
LEMMA PartOfLog ==
    ASSUME NEW cfg \in Level, NEW v, StoredLog(v, cfg), NEW S \in SUBSET v.entries
    PROVE  /\ IsFiniteSet(S) /\ Cardinality(S) \in Nat
           /\ Cardinality(S) <= Cardinality(v.entries)
           /\ Cardinality(S) <= cfg.threshold
<1>1. IsFiniteSet(v.entries) /\ Cardinality(v.entries) <= cfg.threshold
  BY DEF StoredLog
<1>2. /\ IsFiniteSet(S) /\ Cardinality(S) \in Nat /\ Cardinality(v.entries) \in Nat
      /\ Cardinality(S) <= Cardinality(v.entries)
  BY <1>1, FS_Subset, FS_CardinalityType
<1> QED
  BY <1>1, <1>2, LengthFacts

\* A key that vanishes was not needed.
LEMMA FoundCovers ==
    ASSUME NEW cfg \in Level, NEW v, IsLog(v, cfg), NEW n \in Nat, NEW t \in Nat,
           NEW a \in Nat, Covers(v, n, t, a, cfg)
    PROVE  IsLog(Visible(v, t), cfg) /\ Covers(Visible(v, t), n, t, a, cfg)
<1>1. CASE Expired(v, t)
  <2>1. Visible(v, t) = Absent /\ t > v.expireAt /\ v.expireAt \in Nat
    BY <1>1 DEF Visible, Expired, Exists, IsLog, StoredLog, Absent
  <2>2. a < LogLength(cfg) => n = 0
    BY <2>1, LengthFacts DEF Covers
  <2> QED
    BY <2>1, <2>2 DEF IsLog, Covers
<1>2. CASE ~Expired(v, t)
  BY <1>2 DEF Visible
<1> QED
  BY <1>1, <1>2

\* What the scripts evict is older than the window, hence than the stop-watch.
LEMMA KeptFacts ==
    ASSUME NEW cfg \in Level, NEW v, IsLog(v, cfg), NEW t \in Nat
    PROVE  /\ LogKept(v, t, cfg) \in SUBSET [at : Nat, id : Nonces]
           /\ IsFiniteSet(LogKept(v, t, cfg)) /\ Cardinality(LogKept(v, t, cfg)) \in Nat
           /\ Cardinality(LogKept(v, t, cfg)) <= cfg.threshold
           /\ Exists(v) => StoredLog(v, cfg) /\ LogKept(v, t, cfg) \in SUBSET v.entries
<1>1. CASE v = Absent
  <2>1. LogKept(v, t, cfg) = {} /\ ~Exists(v)
    BY <1>1 DEF LogKept, Exists, Absent
  <2> QED
    BY <2>1, FS_EmptySet, LengthFacts
<1>2. CASE StoredLog(v, cfg)
  <2>1. LogKept(v, t, cfg) \in SUBSET v.entries
    BY <1>2 DEF LogKept, StoredLog, Exists
  <2>2. v.entries \in SUBSET [at : Nat, id : Nonces]
    BY <1>2 DEF StoredLog
  <2> QED
    BY <1>2, <2>1, <2>2, PartOfLog
<1> QED
  BY <1>1, <1>2 DEF IsLog

\* Eviction spares the entries within a stop-watch shorter than the window.
LEMMA RecentKept ==
    ASSUME NEW cfg \in Level, NEW v, StoredLog(v, cfg), NEW t \in Nat, NEW a \in Nat,
           a < LogLength(cfg)
    PROVE  Recent(v, t, a) \subseteq LogKept(v, t, cfg)
<1>1. Exists(v) /\ \A e \in v.entries : e.at \in Nat
  BY DEF StoredLog, Exists
<1> QED
  BY <1>1, LengthFacts DEF Recent, LogKept

\* Hence eviction, even of the whole log, forgets no request that counts.
LEMMA EvictedCovers ==
    ASSUME NEW cfg \in Level, NEW v, IsLog(v, cfg), NEW n \in Nat, NEW t \in Nat,
           NEW a \in Nat, Covers(v, n, t, a, cfg)
    PROVE  IsLog(LogEvicted(v, t, cfg), cfg) /\ Covers(LogEvicted(v, t, cfg), n, t, a, cfg)
<1> DEFINE kept == LogKept(v, t, cfg)
           w    == [v EXCEPT !.entries = kept]
<1>1. CASE kept = {}
  <2>1. LogEvicted(v, t, cfg) = Absent
    BY <1>1 DEF LogEvicted
  <2>2. ASSUME a < LogLength(cfg), n # 0 PROVE FALSE
    <3>1. Exists(v) /\ n <= Cardinality(Recent(v, t, a))
      BY <2>2 DEF Covers
    <3>2. Recent(v, t, a) = {}
      BY <1>1, <2>2, <3>1, RecentKept, KeptFacts
    <3> QED
      BY <2>2, <3>1, <3>2, FS_EmptySet
  <2> QED
    BY <2>1, <2>2 DEF IsLog, Covers
<1>2. CASE kept # {}
  <2>1. LogEvicted(v, t, cfg) = w /\ Exists(v) /\ StoredLog(v, cfg)
    BY <1>2, KeptFacts DEF LogEvicted, LogKept
  <2>2. /\ w.entries = kept /\ w.expireAt = v.expireAt /\ w.type = v.type
        /\ w \in [type : {"zset"}, entries : SUBSET [at : Nat, id : Nonces], expireAt : Nat]
    BY <2>1, KeptFacts DEF StoredLog
  <2>3. StoredLog(w, cfg)
    BY <1>2, <2>2, KeptFacts DEF StoredLog
  <2>4. a < LogLength(cfg) => Recent(w, t, a) = Recent(v, t, a)
    BY <2>1, <2>2, RecentKept, KeptFacts DEF Recent
  <2>5. Exists(w)
    BY <2>2 DEF Exists
  <2> HIDE DEF w, kept
  <2> QED
    BY <2>1, <2>2, <2>3, <2>4, <2>5 DEF IsLog, Covers
<1> QED
  BY <1>1, <1>2

\* The log with its time to live restarted.
Refreshed(v, t, cfg) == [v EXCEPT !.expireAt = t + LogLength(cfg) + Second]

\* Restarting the time to live loses nothing.
LEMMA RefreshedCovers ==
    ASSUME NEW cfg \in Level, NEW v, StoredLog(v, cfg), NEW n \in Nat, NEW t \in Nat,
           NEW a \in Nat, Covers(v, n, t, a, cfg)
    PROVE  /\ StoredLog(Refreshed(v, t, cfg), cfg)
           /\ Covers(Refreshed(v, t, cfg), n, t, a, cfg)
<1> DEFINE w == Refreshed(v, t, cfg)
<1>1. t + LogLength(cfg) + Second \in Nat /\ t - a + LogLength(cfg) <= t + LogLength(cfg) + Second
  BY LengthFacts
<1>2. /\ w.entries = v.entries /\ w.expireAt = t + LogLength(cfg) + Second /\ w.type = v.type
      /\ w \in [type : {"zset"}, entries : SUBSET [at : Nat, id : Nonces], expireAt : Nat]
  BY <1>1 DEF StoredLog, Refreshed
<1>3. StoredLog(w, cfg) /\ Exists(w)
  BY <1>2 DEF StoredLog, Exists
<1>4. Recent(w, t, a) = Recent(v, t, a)
  BY <1>2 DEF Recent
<1> HIDE DEF w
<1> QED
  BY <1>1, <1>2, <1>3, <1>4 DEF Covers, w

\* A request that is admitted leaves an entry of its own.
LEMMA AddedCovers ==
    ASSUME NEW cfg \in Level, NEW v, IsLog(v, cfg), NEW n \in Nat, NEW t \in Nat,
           NEW a \in Nat, Covers(v, n, t, a, cfg),
           NEW id \in Nonces, id \notin Members(v), LogAdmits(v, t, cfg)
    PROVE  StoredLog(LogAdded(v, t, cfg, id), cfg)
           /\ Covers(LogAdded(v, t, cfg, id), n + 1, t, a, cfg)
<1> DEFINE kept == LogKept(v, t, cfg)
           new  == [at |-> t, id |-> id]
           w    == LogAdded(v, t, cfg, id)
<1>1. \A e \in kept : e.id # id
  <2>1. CASE Exists(v)
    <3>1. v.type = "zset" /\ kept \in SUBSET v.entries
      BY <2>1, KeptFacts DEF StoredLog
    <3> QED
      BY <3>1 DEF Members
  <2>2. CASE ~Exists(v)
    BY <2>2 DEF LogKept
  <2> QED
    BY <2>1, <2>2
<1>2. {e \in kept : e.id # id} = kept /\ new \notin kept
  BY <1>1
<1>3. t + LogLength(cfg) + Second \in Nat /\ t - a + LogLength(cfg) <= t + LogLength(cfg) + Second
  BY LengthFacts
<1>4. /\ w.entries = kept \cup {new} /\ w.expireAt = t + LogLength(cfg) + Second
      /\ w = [type |-> "zset", entries |-> kept \cup {new},
              expireAt |-> t + LogLength(cfg) + Second]
  BY <1>2 DEF LogAdded
<1>5. /\ kept \cup {new} \in SUBSET [at : Nat, id : Nonces]
      /\ IsFiniteSet(kept \cup {new}) /\ kept \cup {new} # {}
      /\ Cardinality(kept \cup {new}) = Cardinality(kept) + 1
      /\ Cardinality(kept) \in Nat /\ Cardinality(kept) + 1 <= cfg.threshold
  <2>1. Cardinality(kept) < cfg.threshold
    BY DEF LogAdmits
  <2> HIDE DEF kept
  <2>2. kept \in SUBSET [at : Nat, id : Nonces] /\ IsFiniteSet(kept) /\ Cardinality(kept) \in Nat
    BY KeptFacts DEF kept
  <2> QED
    BY <1>2, <2>1, <2>2, FS_AddElement, LengthFacts
<1>6. StoredLog(w, cfg) /\ Exists(w)
  <2> HIDE DEF kept, new, w
  <2> QED
    BY <1>3, <1>4, <1>5 DEF StoredLog, Exists
<1>7. ASSUME a < LogLength(cfg) PROVE n + 1 <= Cardinality(Recent(w, t, a))
  <2> DEFINE before == {e \in kept : t - e.at <= a}
  <2>1. Recent(w, t, a) = before \cup {new}
    BY <1>4 DEF Recent
  <2>2. IsFiniteSet(before) /\ Cardinality(before) \in Nat /\ new \notin before
    BY <1>2, KeptFacts, FS_Subset, FS_CardinalityType
  <2>3. Cardinality(before \cup {new}) = Cardinality(before) + 1
    <3> HIDE DEF before, new
    <3> QED
      BY <2>2, FS_AddElement
  <2>4. n <= Cardinality(before)
    <3>1. CASE n = 0
      BY <2>2, <3>1
    <3>2. CASE n # 0
      <4>1. Exists(v) /\ n <= Cardinality(Recent(v, t, a))
        BY <1>7, <3>2 DEF Covers
      <4>2. before = Recent(v, t, a)
        BY <1>7, <4>1, RecentKept, KeptFacts DEF Recent
      <4> QED
        BY <4>1, <4>2
    <3> QED
      BY <3>1, <3>2
  <2> HIDE DEF before
  <2> QED
    BY <2>1, <2>2, <2>3, <2>4
<1> HIDE DEF w
<1> QED
  BY <1>3, <1>4, <1>6, <1>7 DEF Covers, w

\* The nonce drawn for a log is none of its members'.
LEMMA NonceIsNew ==
    ASSUME EnoughNonces, NEW k \in Keys, NEW v, IsLog(v, Quota[k])
    PROVE  NewNonce(Members(v)) \in Nonces /\ NewNonce(Members(v)) \notin Members(v)
<1> DEFINE used == Members(v)
<1>1. Quota[k] \in Level
  BY EngineAssumption
<1>2. used \in SUBSET Nonces /\ IsFiniteSet(used) /\ Cardinality(used) <= Quota[k].threshold
  <2>1. CASE v = Absent
    <3>1. used = {}
      BY <2>1 DEF Members, Absent
    <3> QED
      BY <1>1, <3>1, FS_EmptySet, LengthFacts
  <2>2. CASE StoredLog(v, Quota[k])
    <3> DEFINE E == v.entries
               f == [e \in E |-> e.id]
    <3>1. /\ E \in SUBSET [at : Nat, id : Nonces] /\ v.type = "zset"
          /\ IsFiniteSet(E) /\ Cardinality(E) \in Nat /\ Cardinality(E) <= Quota[k].threshold
      BY <1>1, <2>2, FS_CardinalityType DEF StoredLog
    <3>2. used = {e.id : e \in E}
      BY <3>1 DEF Members
    <3> HIDE DEF E
    <3>3. f \in Surjection(E, {e.id : e \in E})
      BY DEF Surjection
    <3>4. IsFiniteSet({e.id : e \in E}) /\ Cardinality({e.id : e \in E}) <= Cardinality(E)
      BY <3>1, <3>3, FS_Surjection
    <3>5. Cardinality({e.id : e \in E}) \in Nat
      BY <3>4, FS_CardinalityType
    <3>6. used \in SUBSET Nonces
      BY <3>1, <3>2
    <3> QED
      BY <1>1, <3>1, <3>2, <3>4, <3>5, <3>6, LengthFacts
  <2> QED
    BY <2>1, <2>2 DEF IsLog
<1> HIDE DEF used
<1>3. \E id \in Nonces : id \notin used
  <2>1. used # Nonces
    BY <1>2, Zenon DEF EnoughNonces
  <2> QED
    BY <1>2, <2>1
<1>4. NewNonce(used) = CHOOSE id \in Nonces : id \notin used
  BY DEF NewNonce
<1>5. NewNonce(used) \in Nonces /\ NewNonce(used) \notin used
  BY <1>3, <1>4
<1> QED
  BY <1>5 DEF used

\* In a key that has expired, it is a member of nothing at all.
LEMMA NonceIsFresh ==
    ASSUME EnoughNonces, NEW k \in Keys, IsLog(db[k], Quota[k])
    PROVE  /\ FreshNonce(k) \in Nonces /\ FreshNonce(k) \notin Members(db[k])
           /\ FreshNonce(k) \notin Members(Found(k))
<1>1. FreshNonce(k) \in Nonces /\ FreshNonce(k) \notin Members(db[k])
  BY NonceIsNew DEF FreshNonce
<1>2. Members(Found(k)) \subseteq Members(db[k])
  <2>1. Found(k) = Absent \/ Found(k) = db[k]
    BY DEF Found, Visible
  <2>2. Members(Absent) = {}
    BY DEF Members, Absent
  <2> QED
    BY <2>1, <2>2
<1> QED
  BY <1>1, <1>2

-----------------------------------------------------------------------------
(***************************************************************************)
(* The scripts.                                                            *)
(***************************************************************************)
\* What the multi-key script does to a sliding log.
LEMMA LogScripts ==
    ASSUME algo = "sliding_log", NEW cfg, NEW t, NEW v, NEW id
    PROVE  /\ Admits(v, t, cfg) = LogAdmits(v, t, cfg)
           /\ Take(v, t, cfg, id).value = LogAdded(v, t, cfg, id)
           /\ Deny(v, t, cfg).value = LogEvicted(v, t, cfg)
  BY DEF Admits, ScriptAdmits, Take, ScriptTake, LogTake, Deny, ScriptDeny, LogDeny

\* The single-key script adds if it admits, and if it denies restarts the time to
\* live of what is left.
LEMMA LogEvalCases ==
    ASSUME algo = "sliding_log", NEW cfg, NEW t, NEW v, NEW id
    PROVE  /\ (Eval(v, t, cfg, FALSE, id).allowed <=> LogAdmits(v, t, cfg))
           /\ LogAdmits(v, t, cfg) =>
                Eval(v, t, cfg, FALSE, id).value = LogAdded(v, t, cfg, id)
           /\ ~LogAdmits(v, t, cfg) =>
                Eval(v, t, cfg, FALSE, id).value
                    = IF ~Exists(LogEvicted(v, t, cfg)) THEN LogEvicted(v, t, cfg)
                      ELSE Refreshed(LogEvicted(v, t, cfg), t, cfg)
<1>1. \A peek : Eval(v, t, cfg, peek, id) = LogEval(v, t, cfg, peek, id)
  BY DEF Eval, ScriptEval
<1>3. LogEval(v, t, cfg, FALSE, id).allowed = LogAdmits(v, t, cfg)
  BY DEF LogEval, LogAdmits
<1>4. LogEval(v, t, cfg, FALSE, id).value
        = IF LogAdmits(v, t, cfg) THEN LogAdded(v, t, cfg, id)
          ELSE IF ~Exists(LogEvicted(v, t, cfg)) THEN LogEvicted(v, t, cfg)
          ELSE Refreshed(LogEvicted(v, t, cfg), t, cfg)
  BY DEF LogEval, LogAdmits, Refreshed
<1> QED
  BY <1>1, <1>3, <1>4

\* What the single-key script leaves, for one key.
LEMMA LogEvalCovers ==
    ASSUME algo = "sliding_log", NEW cfg \in Level, NEW v, IsLog(v, cfg), NEW n \in Nat,
           NEW t \in Nat, NEW a \in Nat, Covers(v, n, t, a, cfg),
           NEW id \in Nonces, id \notin Members(v)
    PROVE  LET e == Eval(v, t, cfg, FALSE, id) IN
           /\ IsLog(e.value, cfg)
           /\ e.allowed => Covers(e.value, n + 1, t, a, cfg)
           /\ ~e.allowed => Covers(e.value, n, t, a, cfg)
<1> DEFINE e    == Eval(v, t, cfg, FALSE, id)
           left == LogEvicted(v, t, cfg)
<1>1. CASE LogAdmits(v, t, cfg)
  <2>1. e.allowed /\ e.value = LogAdded(v, t, cfg, id)
    BY <1>1, LogEvalCases, Zenon
  <2> HIDE DEF e
  <2> QED
    BY <1>1, <2>1, AddedCovers DEF IsLog, e
<1>2. CASE ~LogAdmits(v, t, cfg)
  <2>1. ~e.allowed
    BY <1>2, LogEvalCases, Zenon
  <2>2. e.value = IF ~Exists(left) THEN left ELSE Refreshed(left, t, cfg)
    BY <1>2, LogEvalCases, Zenon
  <2>3. IsLog(left, cfg) /\ Covers(left, n, t, a, cfg)
    BY EvictedCovers
  <2> HIDE DEF e, left
  <2>4. CASE ~Exists(left)
    BY <2>1, <2>2, <2>3, <2>4 DEF e
  <2>5. CASE Exists(left)
    <3>1. StoredLog(left, cfg)
      BY <2>3, <2>5 DEF IsLog, Exists, Absent
    <3>2. IsLog(e.value, cfg) /\ Covers(e.value, n, t, a, cfg)
      BY <2>2, <2>3, <2>5, <3>1, RefreshedCovers DEF IsLog
    <3> QED
      BY <2>1, <3>2 DEF e
  <2> QED
    BY <2>4, <2>5
<1> QED
  BY <1>1, <1>2

-----------------------------------------------------------------------------
(***************************************************************************)
(* The invariant of the sliding log.                                       *)
(***************************************************************************)
\* The inductive invariant of the sliding log.
LogInv ==
    /\ algo \in Algos
    /\ now \in Nat /\ age \in Nat
    /\ DOMAIN db = Keys
    /\ \A k \in Keys : /\ IsLog(db[k], Quota[k])
                       /\ Covers(db[k], taken[k], now, age, Quota[k])
    /\ taken \in [Keys -> Nat] /\ due \in [Keys -> Nat]

\* No log exists, and nothing was taken.
LEMMA InitLogInv == Init => LogInv
<1> SUFFICES ASSUME Init PROVE LogInv
  OBVIOUS
<1>1. \A k \in Keys : IsLog(db[k], Quota[k]) /\ Covers(db[k], taken[k], now, age, Quota[k])
  BY DEF Init, IsLog, Covers
<1> QED
  BY <1>1 DEF Init, LogInv

\* The algorithm never changes.
LEMMA SameAlgo == [Next]_vars => algo' = algo
  BY DEF Next, vars, Advance, StepBack, StartWatch, Expire, TryMulti, GrantCall,
         DenyCall, Try, Peek

\* Time alone leaves what an entry says, relative to the stop-watch.
LEMMA TimeCovers ==
    ASSUME NEW cfg \in Level, NEW v, IsLog(v, cfg), NEW n \in Nat, NEW t \in Nat,
           NEW a \in Nat, Covers(v, n, t, a, cfg)
    PROVE  Covers(v, n, t + 1, a + 1, cfg)
<1> SUFFICES ASSUME a + 1 < LogLength(cfg), n # 0, Exists(v)
             PROVE  /\ n <= Cardinality(Recent(v, t + 1, a + 1))
                    /\ (t + 1) - (a + 1) + LogLength(cfg) <= v.expireAt
  BY LengthFacts DEF Covers
<1>1. StoredLog(v, cfg)
  BY DEF IsLog, Exists, Absent
<1>2. \A e \in v.entries : e.at \in Nat
  BY <1>1 DEF StoredLog
<1>3. Recent(v, t + 1, a + 1) = Recent(v, t, a)
  BY <1>2 DEF Recent
<1>4. a < LogLength(cfg) /\ (t + 1) - (a + 1) = t - a
  BY LengthFacts
<1> QED
  BY <1>3, <1>4 DEF Covers

\* A clock that is set back makes entries only more recent.
LEMMA BackCovers ==
    ASSUME NEW cfg \in Level, NEW v, IsLog(v, cfg), NEW n \in Nat, NEW t \in Nat,
           NEW a \in Nat, Covers(v, n, t, a, cfg), NEW d \in Nat, d <= t
    PROVE  Covers(v, n, t - d, a, cfg)
<1> SUFFICES ASSUME a < LogLength(cfg), n # 0
             PROVE  /\ Exists(v) /\ n <= Cardinality(Recent(v, t - d, a))
                    /\ (t - d) - a + LogLength(cfg) <= v.expireAt
  BY DEF Covers
<1>0. /\ Exists(v) /\ n <= Cardinality(Recent(v, t, a))
      /\ t - a + LogLength(cfg) <= v.expireAt
  BY DEF Covers
<1>1. StoredLog(v, cfg) /\ v.expireAt \in Nat
  BY <1>0 DEF IsLog, Exists, Absent, StoredLog
<1>2. \A e \in v.entries : e.at \in Nat
  BY <1>1 DEF StoredLog
<1>3. Recent(v, t, a) \subseteq Recent(v, t - d, a)
  BY <1>2 DEF Recent
<1>4. IsFiniteSet(Recent(v, t - d, a)) /\ Cardinality(Recent(v, t - d, a)) \in Nat
  BY <1>1, PartOfLog DEF Recent
<1>5. Cardinality(Recent(v, t, a)) <= Cardinality(Recent(v, t - d, a))
  BY <1>3, <1>4, FS_Subset
<1>6. Cardinality(Recent(v, t, a)) \in Nat
  BY <1>3, <1>4, FS_Subset, FS_CardinalityType
<1> QED
  BY <1>0, <1>1, <1>4, <1>5, <1>6, LengthFacts

\* Every step keeps it, the clock being set back included.
LEMMA NextLogInv ==
    ASSUME EnoughNonces, algo = "sliding_log", LogInv, [Next]_vars
    PROVE  LogInv'
<1>1. \A k \in Keys :
          /\ Quota[k] \in Level /\ taken[k] \in Nat
          /\ IsLog(db[k], Quota[k]) /\ Covers(db[k], taken[k], now, age, Quota[k])
          /\ IsLog(Found(k), Quota[k]) /\ Covers(Found(k), taken[k], now, age, Quota[k])
  BY FoundCovers, EngineAssumption DEF LogInv, Found
<1>2. \A k \in Keys : FreshNonce(k) \in Nonces /\ FreshNonce(k) \notin Members(Found(k))
  BY <1>1, NonceIsFresh
<1>3. /\ algo \in Algos /\ now \in Nat /\ age \in Nat /\ DOMAIN db = Keys
      /\ taken \in [Keys -> Nat] /\ due \in [Keys -> Nat]
  BY DEF LogInv
<1>4. ASSUME now' \in Nat, age' \in Nat, DOMAIN db' = Keys,
             taken' \in [Keys -> Nat], due' \in [Keys -> Nat],
             \A k \in Keys : /\ IsLog(db'[k], Quota[k])
                            /\ Covers(db'[k], taken'[k], now', age', Quota[k])
      PROVE  LogInv'
  BY <1>3, <1>4, SameAlgo DEF LogInv
<1>5. CASE Advance
  <2>1. /\ db' = db /\ taken' = taken /\ now' = now + 1 /\ age' = age + 1
        /\ due' \in [Keys -> Nat]
    BY <1>3, <1>5 DEF Advance, Larger
  <2>2. \A k \in Keys : Covers(db[k], taken[k], now + 1, age + 1, Quota[k])
    BY <1>1, <1>3, TimeCovers
  <2> QED
    BY <1>1, <1>3, <1>4, <2>1, <2>2
<1>6. ASSUME NEW d \in 1 .. MaxBack, StepBack(d) PROVE LogInv'
  <2>1. /\ UNCHANGED <<db, taken, age, due>> /\ now' = now - d
        /\ d \in Nat /\ d <= now /\ now - d \in Nat
    BY <1>3, <1>6, EngineAssumption DEF StepBack
  <2>2. \A k \in Keys : Covers(db[k], taken[k], now - d, age, Quota[k])
    BY <1>1, <1>3, <2>1, BackCovers
  <2> QED
    BY <1>1, <1>3, <1>4, <2>1, <2>2
<1>7. CASE StartWatch
  <2>1. /\ UNCHANGED <<db, now, due>> /\ age' = 0 /\ taken' = [k \in Keys |-> 0]
    BY <1>7 DEF StartWatch
  <2>2. \A k \in Keys : Covers(db[k], 0, now, 0, Quota[k])
    BY DEF Covers
  <2> QED
    BY <1>1, <1>3, <1>4, <2>1, <2>2
<1>8. ASSUME NEW j \in Keys, Expire(j) PROVE LogInv'
  <2>1. /\ UNCHANGED <<now, age, taken, due>> /\ DOMAIN db' = Keys
        /\ \A k \in Keys : db'[k] = db[k] \/ db'[k] = Found(k)
    BY <1>3, <1>8 DEF Expire, Found, Visible
  <2> QED
    BY <1>1, <1>3, <1>4, <2>1
<1>9. ASSUME NEW call \in Calls, GrantCall(call) PROVE LogInv'
  <2> DEFINE took(k) == Take(Found(k), now, Quota[k], FreshNonce(k)).value
  <2>1. /\ UNCHANGED <<now, age>>
        /\ db' = [k \in Keys |-> IF k \in KeysOf(call) THEN took(k) ELSE db[k]]
        /\ taken' = [k \in Keys |-> IF k \in KeysOf(call) THEN taken[k] + 1 ELSE taken[k]]
        /\ due' \in [Keys -> Nat]
    BY <1>3, <1>9 DEF GrantCall, Promise
  <2>2. \A k \in KeysOf(call) : Admits(Found(k), now, Quota[k])
    BY <1>9 DEF GrantCall, AllHaveRoom, HasRoom
  <2>3. ASSUME NEW k \in Keys, k \in KeysOf(call)
        PROVE  IsLog(took(k), Quota[k]) /\ Covers(took(k), taken[k] + 1, now, age, Quota[k])
    <3>1. /\ LogAdmits(Found(k), now, Quota[k])
          /\ took(k) = LogAdded(Found(k), now, Quota[k], FreshNonce(k))
      BY <2>2, <2>3, LogScripts
    <3> HIDE DEF took
    <3> QED
      BY <1>1, <1>2, <1>3, <3>1, AddedCovers DEF IsLog
  <2> HIDE DEF took
  <2> QED
    BY <1>1, <1>3, <1>4, <2>1, <2>3
<1>10. ASSUME NEW call \in Calls, DenyCall(call) PROVE LogInv'
  <2>1. /\ UNCHANGED <<now, age, taken, due>> /\ DOMAIN db' = Keys
        /\ \A k \in Keys : \/ db'[k] = db[k]
                           \/ db'[k] = LogEvicted(Found(k), now, Quota[k])
    BY <1>10, LogScripts DEF DenyCall
  <2>2. \A k \in Keys :
            /\ IsLog(LogEvicted(Found(k), now, Quota[k]), Quota[k])
            /\ Covers(LogEvicted(Found(k), now, Quota[k]), taken[k], now, age, Quota[k])
    BY <1>1, <1>3, EvictedCovers
  <2> QED
    BY <1>1, <1>3, <1>4, <2>1, <2>2
<1>11. ASSUME NEW j \in Keys, Try(j) PROVE LogInv'
  <2> DEFINE e == Eval(Found(j), now, Quota[j], FALSE, FreshNonce(j))
  <2>1. /\ UNCHANGED <<now, age>> /\ db' = [db EXCEPT ![j] = e.value]
        /\ taken' = [taken EXCEPT ![j] = IF e.allowed THEN @ + 1 ELSE @]
        /\ due' = [due EXCEPT ![j] = IF e.allowed THEN due[j] ELSE @]
    BY <1>11 DEF Try, Promise
  <2>2. /\ IsLog(e.value, Quota[j])
        /\ e.allowed => Covers(e.value, taken[j] + 1, now, age, Quota[j])
        /\ ~e.allowed => Covers(e.value, taken[j], now, age, Quota[j])
    BY <1>1, <1>2, <1>3, LogEvalCovers, Zenon
  <2> HIDE DEF e
  <2> QED
    BY <1>1, <1>3, <1>4, <2>1, <2>2
<1>12. ASSUME NEW j \in Keys, Peek(j) PROVE LogInv'
  <2> DEFINE e == Eval(Found(j), now, Quota[j], TRUE, FreshNonce(j))
  <2>1. UNCHANGED <<now, age, taken, due>> /\ db' = [db EXCEPT ![j] = e.value]
    BY <1>12 DEF Peek
  <2>2. e.value = LogEvicted(Found(j), now, Quota[j])
    <3>1. e = LogEval(Found(j), now, Quota[j], TRUE, FreshNonce(j))
      BY DEF Eval, ScriptEval
    <3>2. LogEval(Found(j), now, Quota[j], TRUE, FreshNonce(j)).value
            = LogEvicted(Found(j), now, Quota[j])
      BY DEF LogEval
    <3> HIDE DEF e
    <3> QED
      BY <3>1, <3>2
  <2>3. IsLog(e.value, Quota[j]) /\ Covers(e.value, taken[j], now, age, Quota[j])
    <3> HIDE DEF e
    <3> QED
      BY <1>1, <1>3, <2>2, EvictedCovers
  <2> HIDE DEF e
  <2> QED
    BY <1>1, <1>3, <1>4, <2>1, <2>3
<1>13. CASE UNCHANGED vars
  BY <1>1, <1>3, <1>4, <1>13 DEF vars
<1> QED
  BY <1>5, <1>6, <1>7, <1>8, <1>9, <1>10, <1>11, <1>12, <1>13 DEF Next, TryMulti

\* A request the stop-watch saw has an entry, and a log has no more entries than
\* its limit.
LEMMA CoversBound == algo = "sliding_log" /\ LogInv => LogBound
<1> SUFFICES ASSUME algo = "sliding_log", LogInv, NEW k \in Keys,
                    age < LogLength(Quota[k])
             PROVE  taken[k] <= Quota[k].threshold
  BY DEF LogBound
<1>1. /\ Quota[k] \in Level /\ taken[k] \in Nat /\ IsLog(db[k], Quota[k])
      /\ Covers(db[k], taken[k], now, age, Quota[k])
  BY EngineAssumption DEF LogInv
<1>2. CASE taken[k] = 0
  BY <1>1, <1>2, LengthFacts
<1>3. CASE taken[k] # 0
  <2>1. Exists(db[k]) /\ taken[k] <= Cardinality(Recent(db[k], now, age))
    BY <1>1, <1>3 DEF Covers
  <2>2. StoredLog(db[k], Quota[k])
    BY <1>1, <2>1 DEF IsLog, Exists, Absent
  <2>3. /\ Cardinality(Recent(db[k], now, age)) \in Nat
        /\ Cardinality(Recent(db[k], now, age)) <= Quota[k].threshold
    BY <1>1, <2>2, PartOfLog DEF Recent
  <2> QED
    BY <1>1, <2>1, <2>3, LengthFacts
<1> QED
  BY <1>2, <1>3

\* sliding_log_multi.go and sliding_log.go: in any stretch of time shorter than
\* the window a key admits at most its limit, whatever expires or is evicted in
\* between and even if the clock is set back.
THEOREM LogsNeverOverAdmit == ASSUME EnoughNonces PROVE Spec => []LogBound
<1> DEFINE IInv == algo = "sliding_log" => LogInv
<1>1. Init => IInv
  BY InitLogInv
<1>2. IInv /\ [Next]_vars => IInv'
  BY SameAlgo, NextLogInv
<1>3. IInv => LogBound
  <2>1. CASE algo = "sliding_log"
    BY <2>1, CoversBound
  <2>2. CASE algo # "sliding_log"
    BY <2>2 DEF LogBound
  <2> QED
    BY <2>1, <2>2
<1> HIDE DEF IInv
<1> QED
  BY <1>1, <1>2, <1>3, PTL DEF Spec

-----------------------------------------------------------------------------
(***************************************************************************)
(* The fixed window.                                                       *)
(***************************************************************************)

\* A stored count, with a time to live that outlasts its window.
StoredCount(v, cfg) == v \in FixedValues(cfg) /\ v.w + FixedLength(cfg) <= v.expireAt

\* What Redis holds for a fixed window.
IsCount(v, cfg) == v = Absent \/ StoredCount(v, cfg)

\* What was taken is within the limits of the windows that are over, and the
\* count of the one that is not.
FixedPotential(n, v, t, a, cfg) ==
    n <= cfg.threshold * (t \div FixedLength(cfg) - (t - a) \div FixedLength(cfg))
             + FixedCount(v, t, cfg)

\* The count of the current window is within the limit.
LEMMA FixedCountType ==
    ASSUME NEW cfg \in Level, NEW t \in Nat, NEW v, IsCount(v, cfg)
    PROVE  FixedCount(v, t, cfg) \in 0 .. cfg.threshold
<1>1. CASE v = Absent
  BY <1>1, LengthFacts DEF FixedCount, Exists, Absent
<1>2. CASE StoredCount(v, cfg)
  BY <1>2, LengthFacts DEF StoredCount, FixedValues, FixedCount
<1> QED
  BY <1>1, <1>2 DEF IsCount

\* A key that vanishes counted a window that is over.
LEMMA FixedFound ==
    ASSUME NEW cfg \in Level, NEW t \in Nat, NEW v, IsCount(v, cfg)
    PROVE  /\ IsCount(Visible(v, t), cfg)
           /\ FixedCount(Visible(v, t), t, cfg) = FixedCount(v, t, cfg)
<1>1. CASE Expired(v, t)
  <2>1. /\ Visible(v, t) = Absent /\ t > v.expireAt /\ StoredCount(v, cfg)
    BY <1>1 DEF Visible, Expired, Exists, IsCount, Absent
  <2>2. /\ v.w \in Nat /\ v.expireAt \in Nat
        /\ v.w + FixedLength(cfg) <= v.expireAt
    BY <2>1 DEF StoredCount, FixedValues
  <2> DEFINE W     == FixedLength(cfg)
             start == WindowStart(t, W)
  <2> HIDE DEF W
  <2>6. W \in Nat \ {0}
    BY LengthFacts DEF W
  <2>7. start \in Nat /\ t < start + W
    BY <2>6, WindowFacts, Zenon
  <2> HIDE DEF start
  <2>8. v.w # start
    BY <2>1, <2>2, <2>6, <2>7 DEF W
  <2>3. v.w # WindowStart(t, FixedLength(cfg))
    BY <2>8 DEF start, W
  <2>4. FixedCount(v, t, cfg) = 0
    BY <2>3 DEF FixedCount
  <2>5. FixedCount(Absent, t, cfg) = 0
    BY DEF FixedCount, Exists, Absent
  <2> QED
    BY <2>1, <2>4, <2>5 DEF IsCount
<1>2. CASE ~Expired(v, t)
  BY <1>2 DEF Visible
<1> QED
  BY <1>1, <1>2

\* What the scripts store counts what they say.
LEMMA FixedHashCounts ==
    ASSUME NEW cfg \in Level, NEW t \in Nat, NEW c \in 0 .. cfg.threshold
    PROVE  /\ IsCount(FixedHash(c, t, cfg), cfg)
           /\ FixedCount(FixedHash(c, t, cfg), t, cfg) = c
<1> DEFINE W == FixedLength(cfg)
           v == FixedHash(c, t, cfg)
<1>1. W \in Nat \ {0} /\ Second \in Nat
  BY LengthFacts
<1>2. WindowStart(t, W) \in Nat /\ WindowStart(t, W) <= t /\ t + W + Second \in Nat
  <2> HIDE DEF W
  <2>1. WindowStart(t, W) \in Nat /\ WindowStart(t, W) <= t
    BY <1>1, WindowFacts, Zenon
  <2> QED
    BY <1>1, <2>1
<1>3. v = [type |-> "hash", w |-> WindowStart(t, W), c |-> c, expireAt |-> t + W + Second]
  BY DEF FixedHash
<1> HIDE DEF W, v
<1>4. /\ v \in FixedValues(cfg) /\ v.w = WindowStart(t, W) /\ v.c = c /\ Exists(v)
      /\ v.expireAt = t + W + Second
  BY <1>2, <1>3 DEF FixedValues, Exists
<1>5. StoredCount(v, cfg)
  BY <1>1, <1>2, <1>4 DEF StoredCount, W
<1>6. FixedCount(v, t, cfg) = c
  BY <1>4 DEF FixedCount, W
<1> QED
  BY <1>5, <1>6 DEF IsCount, v

\* Time may end a window; then its count becomes part of its limit.
LEMMA FixedAdvance ==
    ASSUME NEW cfg \in Level, NEW t \in Nat, NEW a \in Nat, a <= t, NEW n \in Nat,
           NEW v, IsCount(v, cfg), FixedPotential(n, v, t, a, cfg)
    PROVE  FixedPotential(n, v, t + 1, a + 1, cfg)
<1> DEFINE W == FixedLength(cfg)
           q == t \div W
           r == (t + 1) \div W
           s == (t - a) \div W
           c == FixedCount(v, t, cfg)
           d == FixedCount(v, t + 1, cfg)
<1>1. W \in Nat \ {0} /\ cfg.threshold \in Nat
  BY LengthFacts
<1>3. c \in 0 .. cfg.threshold /\ d \in 0 .. cfg.threshold
  BY FixedCountType
<1>4. n <= cfg.threshold * (q - s) + c
  BY DEF FixedPotential
<1>5. /\ q \in Nat /\ s \in Nat
      /\ r = q \/ r = q + 1
  <2>1. t - a \in Nat
    OBVIOUS
  <2> HIDE DEF W
  <2> QED
    BY <1>1, <2>1, WindowFacts, Zenon
<1>6. CASE r = q
  <2>1. WindowStart(t + 1, W) = WindowStart(t, W)
    BY <1>6 DEF WindowStart
  <2>2. d = c
    BY <2>1 DEF FixedCount
  <2>3. (t + 1) - (a + 1) = t - a
    OBVIOUS
  <2> QED
    BY <1>4, <1>6, <2>2, <2>3 DEF FixedPotential
<1>7. CASE r = q + 1
  <2>1. cfg.threshold * (r - s) = cfg.threshold * (q - s) + cfg.threshold
    <3>1. \A m, x \in Int : m * (x + 1) = m * x + m
      OBVIOUS
    <3>2. r - s = (q - s) + 1
      <4> HIDE DEF q, r, s
      <4> QED
        BY <1>5, <1>7
    <3> HIDE DEF q, r, s
    <3> QED
      BY <1>1, <1>5, <3>1, <3>2
  <2>2. n <= cfg.threshold * (r - s) + d
    <3>1. cfg.threshold * (q - s) \in Int
      <4> HIDE DEF q, s
      <4> QED
        BY <1>1, <1>5
    <3> HIDE DEF q, r, s, c, d
    <3> QED
      BY <1>1, <1>3, <1>4, <2>1, <3>1
  <2>3. (t + 1) - (a + 1) = t - a
    OBVIOUS
  <2> QED
    BY <2>2, <2>3 DEF FixedPotential
<1> QED
  BY <1>5, <1>6, <1>7

\* A step that does not touch the count of a window keeps the potential, ...
LEMMA FixedSame ==
    ASSUME NEW cfg \in Level, NEW t \in Nat, NEW a \in Nat, NEW n, NEW v, NEW w,
           FixedPotential(n, v, t, a, cfg), FixedCount(w, t, cfg) = FixedCount(v, t, cfg)
    PROVE  FixedPotential(n, w, t, a, cfg)
  BY DEF FixedPotential

\* ... and so does one that counts what it admits.
LEMMA FixedPays ==
    ASSUME NEW cfg \in Level, NEW t \in Nat, NEW a \in Nat, a <= t, NEW n \in Nat,
           NEW v, IsCount(v, cfg), FixedPotential(n, v, t, a, cfg), FixedAdmits(v, t, cfg)
    PROVE  LET w == FixedHash(FixedCount(v, t, cfg) + 1, t, cfg) IN
           IsCount(w, cfg) /\ FixedPotential(n + 1, w, t, a, cfg)
<1> DEFINE c == FixedCount(v, t, cfg)
           w == FixedHash(c + 1, t, cfg)
           x == cfg.threshold * (t \div FixedLength(cfg) - (t - a) \div FixedLength(cfg))
<1>1. c \in Nat /\ c + 1 \in 0 .. cfg.threshold
  BY FixedCountType, LengthFacts DEF FixedAdmits
<1>2. IsCount(w, cfg) /\ FixedCount(w, t, cfg) = c + 1
  <2> HIDE DEF c
  <2> QED
    BY <1>1, FixedHashCounts
<1>3. x \in Int
  <2>1. t - a \in Nat /\ FixedLength(cfg) \in Nat \ {0} /\ cfg.threshold \in Nat
    BY LengthFacts
  <2>2. /\ t \div FixedLength(cfg) \in Nat
        /\ (t - a) \div FixedLength(cfg) \in Nat
    BY <2>1, WindowFacts, Zenon
  <2> QED
    BY <2>1, <2>2
<1>4. n <= x + c
  BY DEF FixedPotential
<1> HIDE DEF c, w, x
<1>5. n + 1 <= x + FixedCount(w, t, cfg)
  BY <1>1, <1>2, <1>3, <1>4
<1>6. FixedPotential(n + 1, w, t, a, cfg)
  BY <1>5 DEF FixedPotential, x
<1> QED
  BY <1>2, <1>6 DEF w, c

\* What the multi-key script does to a fixed window.
LEMMA FixedScripts ==
    ASSUME algo = "fixed_window", NEW cfg, NEW t, NEW v, NEW id
    PROVE  /\ Admits(v, t, cfg) = FixedAdmits(v, t, cfg)
           /\ Take(v, t, cfg, id).value = FixedHash(FixedCount(v, t, cfg) + 1, t, cfg)
           /\ Deny(v, t, cfg).value = v
  BY DEF Admits, ScriptAdmits, Take, ScriptTake, FixedTake, Deny, ScriptDeny, FixedDeny

\* The single-key script writes the count back, plus one if it admits.
LEMMA FixedEvalPays ==
    ASSUME algo = "fixed_window", NEW cfg \in Level, NEW t \in Nat, NEW a \in Nat, a <= t,
           NEW n \in Nat, NEW v, IsCount(v, cfg), FixedPotential(n, v, t, a, cfg), NEW id
    PROVE  LET e == Eval(v, t, cfg, FALSE, id) IN
           /\ IsCount(e.value, cfg)
           /\ e.allowed => FixedPotential(n + 1, e.value, t, a, cfg)
           /\ ~e.allowed => FixedPotential(n, e.value, t, a, cfg)
<1> DEFINE e == Eval(v, t, cfg, FALSE, id)
           f == FixedEval(v, t, cfg, FALSE)
           c == FixedCount(v, t, cfg)
<1>1. e = f
  BY DEF Eval, ScriptEval
<1>2. f.allowed <=> FixedAdmits(v, t, cfg)
  BY DEF FixedEval, FixedAdmits
<1>3. FixedAdmits(v, t, cfg) => f.value = FixedHash(c + 1, t, cfg)
  BY DEF FixedEval, FixedAdmits
<1>4. ~FixedAdmits(v, t, cfg) => f.value = FixedHash(c, t, cfg)
  BY DEF FixedEval, FixedAdmits
<1>5. CASE FixedAdmits(v, t, cfg)
  <2>1. IsCount(FixedHash(c + 1, t, cfg), cfg)
        /\ FixedPotential(n + 1, FixedHash(c + 1, t, cfg), t, a, cfg)
    BY <1>5, FixedPays
  <2> HIDE DEF e, f, c
  <2> QED
    BY <1>1, <1>2, <1>3, <1>5, <2>1 DEF e
<1>6. CASE ~FixedAdmits(v, t, cfg)
  <2>1. c \in 0 .. cfg.threshold
    BY FixedCountType
  <2>2. IsCount(FixedHash(c, t, cfg), cfg) /\ FixedCount(FixedHash(c, t, cfg), t, cfg) = c
    <3> HIDE DEF c
    <3> QED
      BY <2>1, FixedHashCounts
  <2>3. FixedPotential(n, FixedHash(c, t, cfg), t, a, cfg)
    BY <2>2, FixedSame
  <2> HIDE DEF e, f, c
  <2> QED
    BY <1>1, <1>2, <1>4, <1>6, <2>2, <2>3 DEF e
<1> QED
  BY <1>5, <1>6

\* The inductive invariant of the fixed window.
FixedInv ==
    /\ algo \in Algos
    /\ now \in Nat /\ age \in Nat /\ age <= now
    /\ DOMAIN db = Keys
    /\ \A k \in Keys : /\ IsCount(db[k], Quota[k])
                       /\ FixedPotential(taken[k], db[k], now, age, Quota[k])
    /\ taken \in [Keys -> Nat]

\* A stop-watch that starts has seen nothing.
LEMMA FixedStart ==
    ASSUME NEW cfg \in Level, NEW t \in Nat, NEW v, IsCount(v, cfg)
    PROVE  FixedPotential(0, v, t, 0, cfg)
<1> DEFINE q == t \div FixedLength(cfg)
<1>1. q \in Nat /\ cfg.threshold \in Nat
  BY LengthFacts, WindowFacts, Zenon
<1>2. t - 0 = t
  OBVIOUS
<1>3. cfg.threshold * (q - q) = 0
  <2> HIDE DEF q
  <2>1. q - q = 0
    BY <1>1
  <2> QED
    BY <1>1, <2>1
<1>4. FixedCount(v, t, cfg) \in Nat
  BY FixedCountType, LengthFacts
<1> QED
  BY <1>2, <1>3, <1>4 DEF FixedPotential

\* No count exists, and nothing was taken.
LEMMA InitFixedInv == Init => FixedInv
<1> SUFFICES ASSUME Init PROVE FixedInv
  OBVIOUS
<1>1. \A k \in Keys : Quota[k] \in Level /\ IsCount(db[k], Quota[k])
  BY EngineAssumption DEF Init, IsCount
<1>2. \A k \in Keys : FixedPotential(0, db[k], 0, 0, Quota[k])
  BY <1>1, FixedStart
<1> QED
  BY <1>1, <1>2 DEF Init, FixedInv

\* Every step keeps it, as long as the clock is not set back.
LEMMA NextFixedInv ==
    ASSUME MaxBack = 0, algo = "fixed_window", FixedInv, [Next]_vars
    PROVE  FixedInv'
<1>1. \A k \in Keys :
          /\ Quota[k] \in Level /\ taken[k] \in Nat
          /\ IsCount(db[k], Quota[k])
          /\ FixedPotential(taken[k], db[k], now, age, Quota[k])
          /\ IsCount(Found(k), Quota[k])
          /\ FixedPotential(taken[k], Found(k), now, age, Quota[k])
  <2> TAKE k \in Keys
  <2>1. /\ Quota[k] \in Level /\ taken[k] \in Nat /\ now \in Nat /\ age \in Nat
        /\ IsCount(db[k], Quota[k])
        /\ FixedPotential(taken[k], db[k], now, age, Quota[k])
    BY EngineAssumption DEF FixedInv
  <2>2. /\ IsCount(Found(k), Quota[k])
        /\ FixedCount(Found(k), now, Quota[k]) = FixedCount(db[k], now, Quota[k])
    BY <2>1, FixedFound DEF Found
  <2> QED
    BY <2>1, <2>2, FixedSame
<1>3. /\ algo \in Algos /\ now \in Nat /\ age \in Nat /\ age <= now /\ DOMAIN db = Keys
      /\ taken \in [Keys -> Nat]
  BY DEF FixedInv
<1>4. ASSUME now' \in Nat, age' \in Nat, age' <= now', DOMAIN db' = Keys,
             taken' \in [Keys -> Nat],
             \A k \in Keys : /\ IsCount(db'[k], Quota[k])
                            /\ FixedPotential(taken'[k], db'[k], now', age', Quota[k])
      PROVE  FixedInv'
  BY <1>3, <1>4, SameAlgo DEF FixedInv
<1>5. CASE Advance
  <2>1. db' = db /\ taken' = taken /\ now' = now + 1 /\ age' = age + 1
    BY <1>5 DEF Advance
  <2>2. \A k \in Keys : FixedPotential(taken[k], db[k], now + 1, age + 1, Quota[k])
    BY <1>1, <1>3, FixedAdvance
  <2> QED
    BY <1>1, <1>3, <1>4, <2>1, <2>2
<1>6. ASSUME NEW d \in 1 .. MaxBack, StepBack(d) PROVE FALSE
  BY <1>6
<1>7. CASE StartWatch
  <2>1. UNCHANGED <<db, now>> /\ age' = 0 /\ taken' = [k \in Keys |-> 0]
    BY <1>7 DEF StartWatch
  <2>2. \A k \in Keys : FixedPotential(0, db[k], now, 0, Quota[k])
    BY <1>1, <1>3, FixedStart
  <2> QED
    BY <1>1, <1>3, <1>4, <2>1, <2>2
<1>8. ASSUME NEW j \in Keys, Expire(j) PROVE FixedInv'
  <2>1. /\ UNCHANGED <<now, age, taken>> /\ DOMAIN db' = Keys
        /\ \A k \in Keys : db'[k] = db[k] \/ db'[k] = Found(k)
    BY <1>3, <1>8 DEF Expire, Found, Visible
  <2> QED
    BY <1>1, <1>3, <1>4, <2>1
<1>9. ASSUME NEW call \in Calls, GrantCall(call) PROVE FixedInv'
  <2> DEFINE took(k) == Take(Found(k), now, Quota[k], FreshNonce(k)).value
  <2>1. /\ UNCHANGED <<now, age>>
        /\ db' = [k \in Keys |-> IF k \in KeysOf(call) THEN took(k) ELSE db[k]]
        /\ taken' = [k \in Keys |-> IF k \in KeysOf(call) THEN taken[k] + 1 ELSE taken[k]]
    BY <1>9 DEF GrantCall
  <2>2. \A k \in KeysOf(call) : Admits(Found(k), now, Quota[k])
    BY <1>9 DEF GrantCall, AllHaveRoom, HasRoom
  <2>3. ASSUME NEW k \in Keys, k \in KeysOf(call)
        PROVE  /\ IsCount(took(k), Quota[k])
               /\ FixedPotential(taken[k] + 1, took(k), now, age, Quota[k])
    <3>1. /\ FixedAdmits(Found(k), now, Quota[k])
          /\ took(k) = FixedHash(FixedCount(Found(k), now, Quota[k]) + 1, now, Quota[k])
      BY <2>2, <2>3, FixedScripts
    <3> HIDE DEF took
    <3> QED
      BY <1>1, <1>3, <3>1, FixedPays
  <2> HIDE DEF took
  <2> QED
    BY <1>1, <1>3, <1>4, <2>1, <2>3
<1>10. ASSUME NEW call \in Calls, DenyCall(call) PROVE FixedInv'
  <2>1. /\ UNCHANGED <<now, age, taken>> /\ DOMAIN db' = Keys
        /\ \A k \in Keys : db'[k] = db[k] \/ db'[k] = Found(k)
    BY <1>10, FixedScripts DEF DenyCall
  <2> QED
    BY <1>1, <1>3, <1>4, <2>1
<1>11. ASSUME NEW j \in Keys, Try(j) PROVE FixedInv'
  <2> DEFINE e == Eval(Found(j), now, Quota[j], FALSE, FreshNonce(j))
  <2>1. /\ UNCHANGED <<now, age>> /\ db' = [db EXCEPT ![j] = e.value]
        /\ taken' = [taken EXCEPT ![j] = IF e.allowed THEN @ + 1 ELSE @]
    BY <1>11 DEF Try
  <2>2. /\ IsCount(e.value, Quota[j])
        /\ e.allowed => FixedPotential(taken[j] + 1, e.value, now, age, Quota[j])
        /\ ~e.allowed => FixedPotential(taken[j], e.value, now, age, Quota[j])
    BY <1>1, <1>3, FixedEvalPays, Zenon
  <2> HIDE DEF e
  <2> QED
    BY <1>1, <1>3, <1>4, <2>1, <2>2
<1>12. ASSUME NEW j \in Keys, Peek(j) PROVE FixedInv'
  <2> DEFINE e == Eval(Found(j), now, Quota[j], TRUE, FreshNonce(j))
  <2>1. UNCHANGED <<now, age, taken>> /\ db' = [db EXCEPT ![j] = e.value]
    BY <1>12 DEF Peek
  <2>2. e.value = Found(j)
    <3>1. e = FixedEval(Found(j), now, Quota[j], TRUE)
      BY DEF Eval, ScriptEval
    <3>2. FixedEval(Found(j), now, Quota[j], TRUE).value = Found(j)
      BY DEF FixedEval
    <3> HIDE DEF e
    <3> QED
      BY <3>1, <3>2
  <2> HIDE DEF e
  <2> QED
    BY <1>1, <1>3, <1>4, <2>1, <2>2
<1>13. CASE UNCHANGED vars
  BY <1>1, <1>3, <1>4, <1>13 DEF vars
<1> QED
  BY <1>5, <1>6, <1>7, <1>8, <1>9, <1>10, <1>11, <1>12, <1>13 DEF Next, TryMulti

\* The count of the window that is not over is within its limit, too.
LEMMA FixedInvBounds == algo = "fixed_window" /\ FixedInv => FixedBound
<1> SUFFICES ASSUME algo = "fixed_window", FixedInv, NEW k \in Keys
             PROVE  taken[k] <= Quota[k].threshold
                        * (now \div FixedLength(Quota[k])
                               - (now - age) \div FixedLength(Quota[k]) + 1)
  BY DEF FixedBound
<1> DEFINE W   == FixedLength(Quota[k])
           thr == Quota[k].threshold
           q   == now \div W
           s   == (now - age) \div W
           c   == FixedCount(db[k], now, Quota[k])
<1>1. /\ Quota[k] \in Level /\ taken[k] \in Nat /\ now \in Nat /\ now - age \in Nat
      /\ IsCount(db[k], Quota[k]) /\ taken[k] <= thr * (q - s) + c
  BY EngineAssumption DEF FixedInv, FixedPotential
<1>2. thr \in Nat /\ W \in Nat \ {0} /\ c \in Nat /\ c <= thr
  BY <1>1, LengthFacts, FixedCountType
<1> HIDE DEF W, thr, c
<1>3. q \in Nat /\ s \in Nat
  BY <1>1, <1>2, WindowFacts, Zenon
<1> HIDE DEF q, s
<1>4. thr * (q - s + 1) = thr * (q - s) + thr /\ thr * (q - s) \in Int
  <2>1. \A m, x \in Int : m * (x + 1) = m * x + m /\ m * x \in Int
    OBVIOUS
  <2> QED
    BY <1>2, <1>3, <2>1
<1>5. taken[k] <= thr * (q - s + 1)
  BY <1>1, <1>2, <1>4
<1> QED
  BY <1>5 DEF thr, q, s, W

\* fixed_window_multi.go and fixed_window.go: unless the clock is set back, a key
\* admits at most its limit in each aligned window that a stretch of time touches.
THEOREM FixedWindowsNeverOverAdmit == ASSUME MaxBack = 0 PROVE Spec => []FixedBound
<1> DEFINE IInv == algo = "fixed_window" => FixedInv
<1>1. Init => IInv
  BY InitFixedInv
<1>2. IInv /\ [Next]_vars => IInv'
  BY SameAlgo, NextFixedInv
<1>3. IInv => FixedBound
  <2>1. CASE algo = "fixed_window"
    BY <2>1, FixedInvBounds
  <2>2. CASE algo # "fixed_window"
    BY <2>2 DEF FixedBound
  <2> QED
    BY <2>1, <2>2
<1> HIDE DEF IInv
<1> QED
  BY <1>1, <1>2, <1>3, PTL DEF Spec
-----------------------------------------------------------------------------
(***************************************************************************)
(* The sliding window, by what elapsed in its current window (r).          *)
(***************************************************************************)
\* ca requests in the current window and cb in the previous one account for the n
\* that a stop-watch at a has seen; and they weigh less than a request more than the
\* limit.
Counted(n, ca, cb, r, a, W, thr) ==
    /\ cb * (W - r) + ca * W < (thr + 1) * W
    /\ a <= r => n <= ca
    /\ a <= r + W => n <= ca + cb
    /\ a > r => n >= ca
    /\ a > r + W => n >= ca + cb

\* Within a window the previous one fades.
LEMMA CountedFades ==
    ASSUME NEW W \in Nat \ {0}, NEW thr \in Nat, NEW r \in Nat, r + 1 < W, NEW a \in Nat,
           NEW n \in Nat, NEW ca \in 0 .. thr, NEW cb \in 0 .. thr,
           Counted(n, ca, cb, r, a, W, thr)
    PROVE  Counted(n, ca, cb, r + 1, a + 1, W, thr)
<1>1. cb * (W - r) = cb * (W - (r + 1)) + cb
  <2>1. W - r = (W - (r + 1)) + 1 /\ W - (r + 1) \in Int /\ cb \in Int
    OBVIOUS
  <2> QED
    BY <2>1, Products
<1>2. cb * (W - (r + 1)) \in Int /\ ca * W \in Int /\ (thr + 1) * W \in Int
  BY Products
<1> QED
  BY <1>1, <1>2 DEF Counted

\* At the seam the current window becomes the previous one.
LEMMA CountedRolls ==
    ASSUME NEW W \in Nat \ {0}, NEW thr \in Nat, NEW a \in Nat,
           NEW n \in Nat, NEW ca \in 0 .. thr, NEW cb \in 0 .. thr,
           Counted(n, ca, cb, W - 1, a, W, thr)
    PROVE  Counted(n, 0, ca, 0, a + 1, W, thr)
<1>1. /\ ca * W <= thr * W /\ (thr + 1) * W = thr * W + W
      /\ ca * W \in Int /\ thr * W \in Int
  BY Products
<1>2. ca * (W - 0) + 0 * W = ca * W
  OBVIOUS
<1>3. ca * (W - 0) + 0 * W < (thr + 1) * W
  BY <1>1, <1>2
<1> QED
  BY <1>3 DEF Counted

\* A stop-watch that starts has seen nothing.
LEMMA CountedStarts ==
    ASSUME NEW W \in Nat \ {0}, NEW thr \in Nat, NEW r \in Nat, r < W, NEW a \in Nat,
           NEW n \in Nat, NEW ca \in 0 .. thr, NEW cb \in 0 .. thr,
           Counted(n, ca, cb, r, a, W, thr)
    PROVE  Counted(0, ca, cb, r, 0, W, thr)
  BY DEF Counted

\* A request that is admitted is counted.
LEMMA CountedPays ==
    ASSUME NEW W \in Nat \ {0}, NEW thr \in Nat, NEW r \in Nat, r < W, NEW a \in Nat,
           NEW n \in Nat, NEW ca \in 0 .. thr, NEW cb \in 0 .. thr,
           Counted(n, ca, cb, r, a, W, thr), cb * (W - r) + ca * W < thr * W
    PROVE  ca + 1 \in 0 .. thr /\ Counted(n + 1, ca + 1, cb, r, a, W, thr)
<1>1. /\ (ca + 1) * W = ca * W + W /\ (thr + 1) * W = thr * W + W
      /\ ca * W \in Int /\ thr * W \in Int
  BY Products
<1>2. cb * (W - r) \in Nat
  BY Products
<1>3. ca < thr
  <2>1. ca * W < thr * W
    BY <1>1, <1>2
  <2> QED
    BY <2>1, Products
<1>4. cb * (W - r) + (ca + 1) * W < (thr + 1) * W
  BY <1>1, <1>2
<1> QED
  BY <1>3, <1>4 DEF Counted

\* No double burst: at most the limit and a share of it that grows with the
\* stop-watch.
LEMMA CountedBounds ==
    ASSUME NEW W \in Nat \ {0}, NEW thr \in Nat, NEW r \in Nat, r < W, NEW a \in Nat,
           NEW n \in Nat, NEW ca \in 0 .. thr, NEW cb \in 0 .. thr,
           Counted(n, ca, cb, r, a, W, thr), a <= W
    PROVE  n * W < (thr + 1) * W + thr * a
<1>1. /\ n * W \in Int /\ ca * W \in Int /\ cb * W \in Int /\ cb * r \in Int
      /\ thr * W \in Int /\ thr * a \in Nat
      /\ (thr + 1) * W = thr * W + W /\ (ca + cb) * W = ca * W + cb * W
      /\ cb * (W - r) = cb * W - cb * r
  BY Products
<1>2. CASE a <= r
  <2>1. n <= thr
    BY <1>2 DEF Counted
  <2>2. n * W <= thr * W
    BY <2>1, Products
  <2> QED
    BY <1>1, <2>2
<1>3. CASE r < a
  <2>1. n * W <= (ca + cb) * W
    <3>1. n <= ca + cb /\ ca + cb \in Nat
      BY DEF Counted
    <3> QED
      BY <3>1, Products
  <2>2. cb * r <= thr * a
    <3>1. cb * r <= thr * r
      BY Products
    <3>2. r * thr <= a * thr /\ r * thr = thr * r /\ a * thr = thr * a
      BY <1>3, Products
    <3>3. thr * r \in Int
      BY Products
    <3> QED
      BY <1>1, <3>1, <3>2, <3>3
  <2>3. cb * (W - r) + ca * W < (thr + 1) * W
    BY DEF Counted
  <2> QED
    BY <1>1, <2>1, <2>2, <2>3
<1> QED
  BY <1>2, <1>3

\* A window that refuses has admitted its limit, if the stop-watch saw both windows.
LEMMA CountedRefuses ==
    ASSUME NEW W \in Nat \ {0}, NEW thr \in Nat, NEW r \in Nat, r < W, NEW a \in Nat,
           NEW n \in Nat, NEW ca \in 0 .. thr, NEW cb \in 0 .. thr,
           Counted(n, ca, cb, r, a, W, thr), a > r + W,
           ~(cb * (W - r) + ca * W < thr * W)
    PROVE  n >= thr
<1>1. /\ ca * W \in Int /\ cb * W \in Int /\ cb * r \in Nat /\ thr * W \in Int
      /\ (ca + cb) * W = ca * W + cb * W
      /\ cb * (W - r) = cb * W - cb * r
  BY Products
<1>2. thr * W <= (ca + cb) * W
  BY <1>1
<1>3. ~(ca + cb < thr)
  <2>1. ASSUME ca + cb < thr PROVE FALSE
    <3>1. (ca + cb + 1) * W <= thr * W /\ (ca + cb + 1) * W = (ca + cb) * W + W
      BY <2>1, Products
    <3> QED
      BY <1>1, <1>2, <3>1
  <2> QED
    BY <2>1
<1> QED
  BY <1>3 DEF Counted

\* The same of what Redis holds: the counts are those the scripts would work with.
SlidingAccount(v, n, t, a, cfg) ==
    /\ \/ v = Absent
       \/ /\ v \in SlidingValues(cfg) /\ v.a <= t
          /\ v.a + 2 * SlidingLength(cfg) <= v.expireAt
    /\ Counted(n, SlidingCounts(v, t, cfg).ca, SlidingCounts(v, t, cfg).cb,
               t - SlidingStart(t, cfg), a, SlidingLength(cfg), cfg.threshold)

\* Where t lies in its window; the weight of the previous one; the types of the counts.
LEMMA SlidingFacts ==
    ASSUME NEW cfg \in Level, NEW t \in Nat, NEW n, NEW a, NEW v,
           SlidingAccount(v, n, t, a, cfg)
    PROVE  LET W == SlidingLength(cfg)
               c == SlidingCounts(v, t, cfg)
               r == t - SlidingStart(t, cfg)
           IN  /\ W \in Nat \ {0} /\ cfg.threshold \in Nat
               /\ SlidingStart(t, cfg) \in Nat /\ r \in Nat /\ r < W
               /\ c.ca \in 0 .. cfg.threshold /\ c.cb \in 0 .. cfg.threshold
               /\ c = [ca |-> c.ca, cb |-> c.cb]
               /\ SlidingEffective(c, t, cfg) = c.cb * (W - r) + c.ca * W
<1> DEFINE W == SlidingLength(cfg)
           c == SlidingCounts(v, t, cfg)
           f == SlidingStart(t, cfg)
<1>1. W \in Nat \ {0} /\ cfg.threshold \in Nat
  BY LengthFacts DEF SlidingLength, LogLength
<1>2. f \in Nat /\ f <= t /\ t < f + W
  <2> HIDE DEF W
  <2>1. f = WindowStart(t, W)
    BY DEF SlidingStart, W
  <2> QED
    BY <1>1, <2>1, WindowFacts
<1>3. /\ c.ca \in 0 .. cfg.threshold /\ c.cb \in 0 .. cfg.threshold
      /\ c = [ca |-> c.ca, cb |-> c.cb]
  <2>1. CASE v = Absent
    BY <1>1, <2>1 DEF SlidingCounts, Exists, Absent
  <2>2. CASE v # Absent
    <3>1. v.ca \in 0 .. cfg.threshold /\ v.cb \in 0 .. cfg.threshold
      BY <2>2 DEF SlidingAccount, SlidingValues
    <3> QED
      BY <1>1, <3>1 DEF SlidingCounts
  <2> QED
    BY <2>1, <2>2
<1>4. SlidingEffective(c, t, cfg) = c.cb * (W - (t - f)) + c.ca * W
  <2>1. SlidingReset(t, cfg) = f + W - t
    BY DEF SlidingReset
  <2> HIDE DEF f, W
  <2>2. Larger(0, f + W - t) = W - (t - f)
    BY <1>1, <1>2 DEF Larger
  <2> HIDE DEF c
  <2> QED
    BY <2>1, <2>2 DEF SlidingEffective, W
<1> HIDE DEF W, f
<1> QED
  BY <1>1, <1>2, <1>3, <1>4 DEF W, f

\* A sliding window's hash, which outlives the window after its own.
StoredPair(v, cfg) ==
    v \in SlidingValues(cfg) /\ v.a + 2 * SlidingLength(cfg) <= v.expireAt

\* A key that has expired counted nothing.
LEMMA SlidingExpires ==
    ASSUME NEW cfg \in Level, NEW t \in Nat, NEW v, v = Absent \/ StoredPair(v, cfg)
    PROVE  SlidingCounts(Visible(v, t), t, cfg) = SlidingCounts(v, t, cfg)
<1>1. CASE Expired(v, t)
  <2> DEFINE W == SlidingLength(cfg)
             f == SlidingStart(t, cfg)
  <2>1. /\ Visible(v, t) = Absent /\ t > v.expireAt
        /\ v.a \in Nat /\ v.expireAt \in Nat /\ v.a + 2 * W <= v.expireAt
    BY <1>1 DEF Visible, Expired, Exists, Absent, StoredPair, SlidingValues
  <2>2. W \in Nat \ {0}
    BY LengthFacts DEF SlidingLength, LogLength
  <2>3. f \in Nat /\ t < f + W
    <3>1. f = WindowStart(t, W)
      BY DEF SlidingStart
    <3> HIDE DEF f, W
    <3> QED
      BY <2>2, <3>1, WindowFacts
  <2> HIDE DEF W, f
  <2>4. v.a # f /\ v.a # f - W
    BY <2>1, <2>2, <2>3
  <2> QED
    BY <2>1, <2>4 DEF SlidingCounts, Exists, Absent, W, f
<1>2. CASE ~Expired(v, t)
  BY <1>2 DEF Visible
<1> QED
  BY <1>1, <1>2

\* A key that vanishes counted two windows that are over.
LEMMA SlidingFound ==
    ASSUME NEW cfg \in Level, NEW t \in Nat, NEW n, NEW a, NEW v,
           SlidingAccount(v, n, t, a, cfg)
    PROVE  SlidingAccount(Visible(v, t), n, t, a, cfg)
<1>1. SlidingCounts(Visible(v, t), t, cfg) = SlidingCounts(v, t, cfg)
  BY SlidingExpires DEF SlidingAccount, StoredPair
<1>2. Visible(v, t) = v \/ Visible(v, t) = Absent
  BY DEF Visible
<1> QED
  BY <1>1, <1>2 DEF SlidingAccount

\* At the next instant the window has the counts it had, or is a new one, whose previous
\* window it is.
LEMMA SlidingCountsNext ==
    ASSUME NEW cfg \in Level, NEW t \in Nat, NEW n, NEW a, NEW v,
           SlidingAccount(v, n, t, a, cfg)
    PROVE  LET W == SlidingLength(cfg)
               f == SlidingStart(t, cfg)
               g == SlidingStart(t + 1, cfg)
               c == SlidingCounts(v, t, cfg)
               d == SlidingCounts(v, t + 1, cfg)
           IN  \/ d = c /\ (t + 1) - g = (t - f) + 1 /\ (t - f) + 1 < W
               \/ d.ca = 0 /\ d.cb = c.ca /\ (t + 1) - g = 0 /\ t - f = W - 1
<1> DEFINE W == SlidingLength(cfg)
           f == SlidingStart(t, cfg)
           g == SlidingStart(t + 1, cfg)
           c == SlidingCounts(v, t, cfg)
           d == SlidingCounts(v, t + 1, cfg)
<1>1. W \in Nat \ {0} /\ f \in Nat /\ t - f \in Nat /\ t - f < W
  BY SlidingFacts
<1>3. g = f \/ g = f + W
  <2>1. f = (t \div W) * W /\ g = ((t + 1) \div W) * W
    BY DEF SlidingStart, WindowStart
  <2> HIDE DEF W, f, g
  <2>2. t \div W \in Nat /\ ((t + 1) \div W = t \div W \/ (t + 1) \div W = t \div W + 1)
    BY <1>1, WindowFacts
  <2>3. (t \div W + 1) * W = (t \div W) * W + W
    BY <1>1, <2>2, Products
  <2> QED
    BY <2>1, <2>2, <2>3
<1>4. g \in Nat /\ g <= t + 1 /\ t + 1 < g + W
  <2>1. g = WindowStart(t + 1, W)
    BY DEF SlidingStart
  <2> HIDE DEF W, g
  <2> QED
    BY <1>1, <2>1, WindowFacts
<1>5. \/ v = Absent
      \/ /\ v \in SlidingValues(cfg) /\ v.a \in Nat /\ v.a <= t
         /\ v.a + 2 * W <= v.expireAt
  BY DEF SlidingAccount, SlidingValues
<1>7. CASE g = f
  <2>1. d = c
    BY <1>7 DEF SlidingCounts
  <2>2. (t + 1) - g = (t - f) + 1 /\ (t - f) + 1 < W
    <3> HIDE DEF f, g, W
    <3> QED
      BY <1>1, <1>4, <1>7
  <2> QED
    BY <2>1, <2>2
<1>8. CASE g = f + W
  <2>1. t - f = W - 1 /\ (t + 1) - g = 0
    <3> HIDE DEF f, g, W
    <3> QED
      BY <1>1, <1>4, <1>8
  <2>2. d.ca = 0 /\ d.cb = c.ca
    <3>1. CASE v = Absent
      BY <3>1 DEF SlidingCounts, Exists, Absent
    <3>2. CASE v # Absent
      <4>1. Exists(v) /\ v.a \in Nat /\ v.a <= t
        BY <1>5, <3>2 DEF SlidingValues, Exists
      <4>2. v.a # g /\ (v.a = g - W <=> v.a = f) /\ f # f - W
        <5> HIDE DEF f, g, W
        <5> QED
          BY <1>1, <1>8, <2>1, <4>1
      <4>3. d = IF v.a = f THEN [ca |-> 0, cb |-> v.ca] ELSE [ca |-> 0, cb |-> 0]
        BY <4>1, <4>2 DEF SlidingCounts
      <4>4. c.ca = IF v.a = f THEN v.ca ELSE 0
        BY <4>1, <4>2 DEF SlidingCounts
      <4> HIDE DEF c, d, f
      <4> QED
        BY <4>3, <4>4
    <3> QED
      BY <3>1, <3>2
  <2> QED
    BY <2>1, <2>2
<1> QED
  BY <1>3, <1>7, <1>8

\* Time fades the previous window, and at the seam replaces it.
LEMMA SlidingAdvances ==
    ASSUME NEW cfg \in Level, NEW t \in Nat, NEW n \in Nat, NEW a \in Nat, NEW v,
           SlidingAccount(v, n, t, a, cfg)
    PROVE  SlidingAccount(v, n, t + 1, a + 1, cfg)
<1> DEFINE W == SlidingLength(cfg)
           f == SlidingStart(t, cfg)
           g == SlidingStart(t + 1, cfg)
           c == SlidingCounts(v, t, cfg)
           d == SlidingCounts(v, t + 1, cfg)
<1>1. /\ W \in Nat \ {0} /\ cfg.threshold \in Nat /\ f \in Nat /\ t - f \in Nat /\ t - f < W
      /\ c.ca \in 0 .. cfg.threshold /\ c.cb \in 0 .. cfg.threshold
  BY SlidingFacts
<1>2. Counted(n, c.ca, c.cb, t - f, a, W, cfg.threshold)
  BY DEF SlidingAccount
<1>3. \/ d = c /\ (t + 1) - g = (t - f) + 1 /\ (t - f) + 1 < W
      \/ d.ca = 0 /\ d.cb = c.ca /\ (t + 1) - g = 0 /\ t - f = W - 1
  BY SlidingCountsNext
<1>4. \/ v = Absent
      \/ /\ v \in SlidingValues(cfg) /\ v.a \in Nat /\ v.a <= t
         /\ v.a + 2 * W <= v.expireAt
  BY DEF SlidingAccount, SlidingValues
<1>5. v = Absent \/ (v \in SlidingValues(cfg) /\ v.a <= t + 1 /\ v.a + 2 * W <= v.expireAt)
  <2> HIDE DEF W
  <2> QED
    BY <1>4
<1>6. Counted(n, d.ca, d.cb, (t + 1) - g, a + 1, W, cfg.threshold)
  <2> DEFINE r == t - f
             s == (t + 1) - g
  <2>1. /\ r \in Nat /\ r < W /\ Counted(n, c.ca, c.cb, r, a, W, cfg.threshold)
        /\ \/ d = c /\ s = r + 1 /\ r + 1 < W
           \/ d.ca = 0 /\ d.cb = c.ca /\ s = 0 /\ r = W - 1
    BY <1>1, <1>2, <1>3
  <2> HIDE DEF c, d, W, r, s
  <2>2. ASSUME d = c, s = r + 1, r + 1 < W
        PROVE  Counted(n, d.ca, d.cb, s, a + 1, W, cfg.threshold)
    BY <1>1, <2>1, <2>2, CountedFades
  <2>3. ASSUME d.ca = 0, d.cb = c.ca, s = 0, r = W - 1
        PROVE  Counted(n, d.ca, d.cb, s, a + 1, W, cfg.threshold)
    <3>1. Counted(n, c.ca, c.cb, W - 1, a, W, cfg.threshold)
      BY <2>1, <2>3
    <3>2. Counted(n, 0, c.ca, 0, a + 1, W, cfg.threshold)
      BY <1>1, <3>1, CountedRolls
    <3> QED
      BY <2>3, <3>2
  <2>4. Counted(n, d.ca, d.cb, s, a + 1, W, cfg.threshold)
    BY <2>1, <2>2, <2>3
  <2> QED
    BY <2>4 DEF s
<1> QED
  BY <1>5, <1>6 DEF SlidingAccount

\* What the scripts store holds the counts they give it.
LEMMA SlidingHashCounts ==
    ASSUME NEW cfg \in Level, NEW t \in Nat, NEW ca \in 0 .. cfg.threshold,
           NEW cb \in 0 .. cfg.threshold, NEW n, NEW a,
           Counted(n, ca, cb, t - SlidingStart(t, cfg), a, SlidingLength(cfg), cfg.threshold)
    PROVE  SlidingAccount(SlidingHash([ca |-> ca, cb |-> cb], t, cfg), n, t, a, cfg)
<1> DEFINE W == SlidingLength(cfg)
           f == SlidingStart(t, cfg)
           v == SlidingHash([ca |-> ca, cb |-> cb], t, cfg)
<1>1. W \in Nat \ {0} /\ Second \in Nat
  BY LengthFacts DEF SlidingLength, LogLength
<1>2. f \in Nat /\ f <= t
  <2>1. f = WindowStart(t, W)
    BY DEF SlidingStart
  <2> HIDE DEF W, f
  <2> QED
    BY <1>1, <2>1, WindowFacts
<1>3. v = [type |-> "hash", a |-> f, ca |-> ca, cb |-> cb, expireAt |-> t + 2 * W + Second]
  BY DEF SlidingHash
<1>4. f # f - W /\ t + 2 * W + Second \in Nat /\ f + 2 * W <= t + 2 * W + Second
  <2> HIDE DEF W, f
  <2> QED
    BY <1>1, <1>2
<1>5. /\ v \in SlidingValues(cfg) /\ v.a = f /\ v.ca = ca /\ v.cb = cb /\ Exists(v)
      /\ v.expireAt = t + 2 * W + Second
  <2> HIDE DEF W, f, v
  <2> QED
    BY <1>2, <1>3, <1>4 DEF SlidingValues, Exists
<1> HIDE DEF v
<1>6. SlidingCounts(v, t, cfg) = [ca |-> ca, cb |-> cb]
  BY <1>4, <1>5 DEF SlidingCounts
<1> QED
  BY <1>2, <1>4, <1>5, <1>6 DEF SlidingAccount, v

\* What the scripts do to a sliding window.
LEMMA SlidingScripts ==
    ASSUME algo = "sliding_window", NEW cfg \in Level, NEW t \in Nat, NEW n \in Nat,
           NEW a \in Nat, NEW v, SlidingAccount(v, n, t, a, cfg), NEW id
    PROVE  /\ SlidingAccount(v, 0, t, 0, cfg)
           /\ Admits(v, t, cfg) =>
                SlidingAccount(Take(v, t, cfg, id).value, n + 1, t, a, cfg)
           /\ SlidingAccount(Deny(v, t, cfg).value, n, t, a, cfg)
           /\ LET e == Eval(v, t, cfg, FALSE, id) IN
              SlidingAccount(e.value, IF e.allowed THEN n + 1 ELSE n, t, a, cfg)
           /\ SlidingAccount(Eval(v, t, cfg, TRUE, id).value, n, t, a, cfg)
<1> DEFINE W    == SlidingLength(cfg)
           thr  == cfg.threshold
           r    == t - SlidingStart(t, cfg)
           x    == SlidingCounts(v, t, cfg)
           paid == SlidingHash([ca |-> x.ca + 1, cb |-> x.cb], t, cfg)
           kept == SlidingHash([ca |-> x.ca, cb |-> x.cb], t, cfg)
           e    == SlidingEval(v, t, cfg, FALSE)
<1>1. /\ W \in Nat \ {0} /\ thr \in Nat /\ r \in Nat /\ r < W
      /\ x.ca \in 0 .. thr /\ x.cb \in 0 .. thr /\ x = [ca |-> x.ca, cb |-> x.cb]
      /\ SlidingEffective(x, t, cfg) = x.cb * (W - r) + x.ca * W
      /\ Counted(n, x.ca, x.cb, r, a, W, thr)
  BY SlidingFacts DEF SlidingAccount
<1>2. SlidingAdmits(v, t, cfg) <=> x.cb * (W - r) + x.ca * W < thr * W
  BY <1>1 DEF SlidingAdmits
<1>3. SlidingAdmits(v, t, cfg) => SlidingAccount(paid, n + 1, t, a, cfg)
  <2> SUFFICES ASSUME SlidingAdmits(v, t, cfg)
               PROVE  SlidingAccount(paid, n + 1, t, a, cfg)
    OBVIOUS
  <2>1. x.ca + 1 \in 0 .. thr /\ Counted(n + 1, x.ca + 1, x.cb, r, a, W, thr)
    <3> HIDE DEF x, r, W, thr
    <3> QED
      BY <1>1, <1>2, CountedPays
  <2> HIDE DEF x
  <2> QED
    BY <1>1, <2>1, SlidingHashCounts
<1>4. SlidingAccount(kept, n, t, a, cfg)
  <2> HIDE DEF x
  <2> QED
    BY <1>1, SlidingHashCounts
<1>5. SlidingAccount(v, 0, t, 0, cfg)
  <2>1. Counted(0, x.ca, x.cb, r, 0, W, thr)
    <3> HIDE DEF x, r, W, thr
    <3> QED
      BY <1>1, CountedStarts
  <2> QED
    BY <2>1 DEF SlidingAccount
<1>6. [x EXCEPT !.ca = @ + 1] = [ca |-> x.ca + 1, cb |-> x.cb]
  <2> HIDE DEF x
  <2> QED
    BY <1>1
<1>7. SlidingTake(v, t, cfg).value = paid
  BY <1>6 DEF SlidingTake
<1>8. /\ e.allowed <=> SlidingAdmits(v, t, cfg)
      /\ e.value = IF SlidingAdmits(v, t, cfg) THEN paid ELSE kept
  <2>1. e.allowed = SlidingAdmits(v, t, cfg)
    BY DEF SlidingEval, SlidingAdmits
  <2>2. e.value = IF SlidingAdmits(v, t, cfg)
                  THEN SlidingHash([x EXCEPT !.ca = @ + 1], t, cfg)
                  ELSE SlidingHash(x, t, cfg)
    BY DEF SlidingEval, SlidingAdmits
  <2> QED
    BY <1>1, <1>6, <2>1, <2>2
<1>9. /\ Admits(v, t, cfg) = SlidingAdmits(v, t, cfg)
      /\ Take(v, t, cfg, id) = SlidingTake(v, t, cfg)
      /\ Deny(v, t, cfg) = SlidingDeny(v, t, cfg)
      /\ Eval(v, t, cfg, FALSE, id) = e
      /\ Eval(v, t, cfg, TRUE, id) = SlidingEval(v, t, cfg, TRUE)
  BY DEF Admits, ScriptAdmits, Take, ScriptTake, Deny, ScriptDeny, Eval, ScriptEval
<1>10. SlidingDeny(v, t, cfg).value = v /\ SlidingEval(v, t, cfg, TRUE).value = v
  BY DEF SlidingDeny, SlidingEval
<1>11. SlidingAccount(e.value, IF e.allowed THEN n + 1 ELSE n, t, a, cfg)
  <2> HIDE DEF e, paid, kept
  <2>1. CASE SlidingAdmits(v, t, cfg)
    BY <1>3, <1>8, <2>1
  <2>2. CASE ~SlidingAdmits(v, t, cfg)
    BY <1>4, <1>8, <2>2
  <2> QED
    BY <2>1, <2>2
<1> HIDE DEF e, paid, kept
<1> QED
  BY <1>3, <1>5, <1>7, <1>9, <1>10, <1>11

-----------------------------------------------------------------------------
(***************************************************************************)
(* What the stop-watch must have seen of a fixed window and of a log.      *)
(***************************************************************************)
\* A fixed window's count was admitted since the window began.
FixedSeen(v, n, t, a, cfg) ==
    /\ IsCount(v, cfg)
    /\ v = Absent \/ v.w <= t
    /\ a > t - WindowStart(t, FixedLength(cfg)) => n >= FixedCount(v, t, cfg)

\* The entries of a log that the stop-watch has seen.
Since(v, t, a) == {e \in v.entries : e.at > t - a}

\* Each was admitted at its time.
LogSeen(v, n, t, a, cfg) ==
    \/ v = Absent
    \/ /\ Exists(v) /\ IsFiniteSet(v.entries)
       /\ \A e \in v.entries : e.at \in Nat /\ e.at <= t
       /\ Cardinality(Since(v, t, a)) <= n

\* Time passes for a fixed window.
LEMMA FixedSeenAdvances ==
    ASSUME NEW cfg \in Level, NEW t \in Nat, NEW n \in Nat, NEW a \in Nat, NEW v,
           FixedSeen(v, n, t, a, cfg)
    PROVE  FixedSeen(v, n, t + 1, a + 1, cfg)
<1> DEFINE W == FixedLength(cfg)
           f == WindowStart(t, W)
           g == WindowStart(t + 1, W)
<1>1. W \in Nat \ {0}
  BY LengthFacts
<1>2. f \in Nat /\ f <= t /\ t < f + W /\ g \in Nat /\ g <= t + 1
  <2> HIDE DEF W
  <2> QED
    BY <1>1, WindowFacts
<1>3. g = f \/ g = f + W
  <2>1. f = (t \div W) * W /\ g = ((t + 1) \div W) * W
    BY DEF WindowStart
  <2> HIDE DEF W, f, g
  <2>2. t \div W \in Nat /\ ((t + 1) \div W = t \div W \/ (t + 1) \div W = t \div W + 1)
    BY <1>1, WindowFacts
  <2>3. (t \div W + 1) * W = (t \div W) * W + W
    BY <1>1, <2>2, Products
  <2> QED
    BY <2>1, <2>2, <2>3
<1>4. IsCount(v, cfg) /\ (v = Absent \/ v.w \in Nat)
  BY DEF FixedSeen, IsCount, StoredCount, FixedValues
<1>5. v = Absent \/ v.w <= t + 1
  BY <1>4 DEF FixedSeen
<1>6. CASE g = f
  <2>1. FixedCount(v, t + 1, cfg) = FixedCount(v, t, cfg)
    BY <1>6 DEF FixedCount
  <2>2. a + 1 > (t + 1) - g => a > t - f
    <3> HIDE DEF f, g
    <3> QED
      BY <1>2, <1>6
  <2> QED
    BY <1>4, <1>5, <2>1, <2>2 DEF FixedSeen
<1>7. CASE g = f + W
  <2>1. v = Absent \/ v.w # g
    <3> HIDE DEF f, g, W
    <3> QED
      BY <1>2, <1>4, <1>7 DEF FixedSeen
  <2>2. FixedCount(v, t + 1, cfg) = 0
    BY <2>1 DEF FixedCount, Exists, Absent
  <2> QED
    BY <1>4, <1>5, <2>2 DEF FixedSeen
<1> QED
  BY <1>3, <1>6, <1>7

\* What the scripts do to a fixed window.
LEMMA FixedSeenScripts ==
    ASSUME algo = "fixed_window", NEW cfg \in Level, NEW t \in Nat, NEW n \in Nat,
           NEW a \in Nat, NEW v, FixedSeen(v, n, t, a, cfg), NEW id
    PROVE  /\ FixedSeen(v, 0, t, 0, cfg)
           /\ Admits(v, t, cfg) => FixedSeen(Take(v, t, cfg, id).value, n + 1, t, a, cfg)
           /\ FixedSeen(Deny(v, t, cfg).value, n, t, a, cfg)
           /\ LET e == Eval(v, t, cfg, FALSE, id) IN
              FixedSeen(e.value, IF e.allowed THEN n + 1 ELSE n, t, a, cfg)
           /\ FixedSeen(Eval(v, t, cfg, TRUE, id).value, n, t, a, cfg)
<1> DEFINE W    == FixedLength(cfg)
           f    == WindowStart(t, W)
           thr  == cfg.threshold
           x    == FixedCount(v, t, cfg)
           e    == FixedEval(v, t, cfg, FALSE)
<1>1. /\ IsCount(v, cfg) /\ thr \in Nat /\ x \in 0 .. thr
      /\ a > t - f => n >= x
  BY FixedCountType, LengthFacts DEF FixedSeen
<1>2. f \in Nat /\ f <= t
  <2>1. W \in Nat \ {0}
    BY LengthFacts
  <2> HIDE DEF W
  <2> QED
    BY <2>1, WindowFacts
<1>3. ASSUME NEW c \in 0 .. thr, NEW m, a > t - f => m >= c
      PROVE  FixedSeen(FixedHash(c, t, cfg), m, t, a, cfg)
  <2>1. IsCount(FixedHash(c, t, cfg), cfg) /\ FixedCount(FixedHash(c, t, cfg), t, cfg) = c
    BY FixedHashCounts
  <2>2. FixedHash(c, t, cfg).w = f
    BY DEF FixedHash
  <2> HIDE DEF f, thr
  <2> QED
    BY <1>2, <1>3, <2>1, <2>2 DEF FixedSeen, f
<1>4. FixedAdmits(v, t, cfg) => FixedSeen(FixedHash(x + 1, t, cfg), n + 1, t, a, cfg)
  <2> SUFFICES ASSUME FixedAdmits(v, t, cfg)
               PROVE  FixedSeen(FixedHash(x + 1, t, cfg), n + 1, t, a, cfg)
    OBVIOUS
  <2>1. x < thr
    BY DEF FixedAdmits
  <2> HIDE DEF x, f, thr
  <2>2. x + 1 \in 0 .. thr /\ (a > t - f => n + 1 >= x + 1)
    BY <1>1, <2>1
  <2> QED
    BY <1>3, <2>2
<1>5. FixedSeen(FixedHash(x, t, cfg), n, t, a, cfg)
  <2> HIDE DEF x, f, thr
  <2> QED
    BY <1>1, <1>3
<1>6. FixedSeen(v, 0, t, 0, cfg)
  <2>1. ~(0 > t - f)
    <3> HIDE DEF f
    <3> QED
      BY <1>2
  <2> QED
    BY <2>1 DEF FixedSeen
<1>7. /\ Admits(v, t, cfg) = FixedAdmits(v, t, cfg)
      /\ Take(v, t, cfg, id).value = FixedHash(x + 1, t, cfg)
      /\ Deny(v, t, cfg).value = v
  BY FixedScripts
<1>8. Eval(v, t, cfg, FALSE, id) = e /\ Eval(v, t, cfg, TRUE, id).value = v
  BY DEF Eval, ScriptEval, FixedEval
<1>9. /\ e.allowed <=> FixedAdmits(v, t, cfg)
      /\ e.value = FixedHash(IF FixedAdmits(v, t, cfg) THEN x + 1 ELSE x, t, cfg)
  <2>1. e.allowed = FixedAdmits(v, t, cfg)
    BY DEF FixedEval, FixedAdmits
  <2>2. e.value = FixedHash(IF FixedAdmits(v, t, cfg) THEN x + 1 ELSE x, t, cfg)
    BY DEF FixedEval, FixedAdmits
  <2> QED
    BY <2>1, <2>2
<1>10. FixedSeen(e.value, IF e.allowed THEN n + 1 ELSE n, t, a, cfg)
  <2> HIDE DEF e, x
  <2>1. CASE FixedAdmits(v, t, cfg)
    BY <1>4, <1>9, <2>1
  <2>2. CASE ~FixedAdmits(v, t, cfg)
    BY <1>5, <1>9, <2>2
  <2> QED
    BY <2>1, <2>2
<1> HIDE DEF e, x
<1> QED
  BY <1>4, <1>6, <1>7, <1>8, <1>10

\* A peek evicts.
LEMMA LogPeeks ==
    ASSUME algo = "sliding_log", NEW cfg, NEW t, NEW v, NEW id
    PROVE  Eval(v, t, cfg, TRUE, id).value = LogEvicted(v, t, cfg)
<1>1. Eval(v, t, cfg, TRUE, id) = LogEval(v, t, cfg, TRUE, id)
  BY DEF Eval, ScriptEval
<1>2. LogEval(v, t, cfg, TRUE, id).value = LogEvicted(v, t, cfg)
  BY DEF LogEval
<1> QED
  BY <1>1, <1>2

\* The same for a log: eviction and refreshing lose what no longer counts, and an
\* admitted request adds one entry at most.
LEMMA LogSeenScripts ==
    ASSUME algo = "sliding_log", NEW cfg \in Level, NEW t \in Nat, NEW n \in Nat,
           NEW a \in Nat, NEW v, LogSeen(v, n, t, a, cfg), NEW id
    PROVE  /\ LogSeen(v, 0, t, 0, cfg)
           /\ LogSeen(v, n, t + 1, a + 1, cfg)
           /\ Admits(v, t, cfg) => LogSeen(Take(v, t, cfg, id).value, n + 1, t, a, cfg)
           /\ LogSeen(Deny(v, t, cfg).value, n, t, a, cfg)
           /\ LET e == Eval(v, t, cfg, FALSE, id) IN
              LogSeen(e.value, IF e.allowed THEN n + 1 ELSE n, t, a, cfg)
           /\ LogSeen(Eval(v, t, cfg, TRUE, id).value, n, t, a, cfg)
<1> DEFINE kept == LogKept(v, t, cfg)
           left == LogEvicted(v, t, cfg)
           more == LogAdded(v, t, cfg, id)
           new  == [at |-> t, id |-> id]
           rest == {e \in kept : e.id # id}
           seen == {e \in kept : e.at > t - a}
<1>1. /\ IsFiniteSet(kept) /\ \A e \in kept : e.at \in Nat /\ e.at <= t
      /\ IsFiniteSet(seen) /\ Cardinality(seen) \in Nat /\ Cardinality(seen) <= n
  <2>1. CASE v = Absent
    <3>1. kept = {}
      BY <2>1 DEF LogKept, Exists, Absent
    <3>2. seen = {}
      BY <3>1
    <3> QED
      BY <3>1, <3>2, FS_EmptySet
  <2>2. CASE v # Absent
    <3>1. /\ Exists(v) /\ IsFiniteSet(v.entries) /\ Cardinality(Since(v, t, a)) <= n
          /\ \A e \in v.entries : e.at \in Nat /\ e.at <= t
      BY <2>2 DEF LogSeen
    <3>2. kept \in SUBSET v.entries /\ seen \in SUBSET Since(v, t, a)
          /\ Since(v, t, a) \in SUBSET v.entries
      BY <3>1 DEF LogKept, Since
    <3> HIDE DEF kept, seen
    <3>3. IsFiniteSet(kept) /\ IsFiniteSet(Since(v, t, a))
      BY <3>1, <3>2, FS_Subset
    <3>4. /\ IsFiniteSet(seen) /\ Cardinality(seen) <= Cardinality(Since(v, t, a))
          /\ Cardinality(seen) \in Nat /\ Cardinality(Since(v, t, a)) \in Nat
      BY <3>2, <3>3, FS_Subset, FS_CardinalityType
    <3> QED
      BY <3>1, <3>2, <3>3, <3>4
  <2> QED
    BY <2>1, <2>2
<1>2. ASSUME NEW w, Exists(w), w.entries \in SUBSET kept PROVE LogSeen(w, n, t, a, cfg)
  <2>1. Since(w, t, a) \in SUBSET seen
    BY <1>2 DEF Since
  <2> HIDE DEF kept, seen
  <2>2. IsFiniteSet(w.entries)
    BY <1>1, <1>2, FS_Subset
  <2>3. Cardinality(Since(w, t, a)) <= Cardinality(seen)
    BY <1>1, <2>1, FS_Subset
  <2>4. Cardinality(Since(w, t, a)) \in Nat
    BY <1>1, <2>1, FS_Subset, FS_CardinalityType
  <2>5. Cardinality(Since(w, t, a)) <= n
    BY <1>1, <2>3, <2>4
  <2> QED
    BY <1>1, <1>2, <2>2, <2>5 DEF LogSeen
<1>3. LogSeen(left, n, t, a, cfg)
  <2>1. CASE kept = {}
    BY <2>1 DEF LogEvicted, LogSeen
  <2>2. CASE kept # {}
    <3>1. Exists(v) /\ left = [v EXCEPT !.entries = kept]
      BY <2>2 DEF LogEvicted, LogKept
    <3>2. Exists(left) /\ left.entries \in SUBSET kept
      BY <3>1 DEF Exists
    <3> HIDE DEF left, kept
    <3> QED
      BY <1>2, <3>2
  <2> QED
    BY <2>1, <2>2
<1>4. LogSeen(more, n + 1, t, a, cfg)
  <2>1. more.entries = rest \cup {new} /\ Exists(more)
    BY DEF LogAdded, Exists
  <2>2. rest \in SUBSET kept /\ new.at = t
    OBVIOUS
  <2>3. {e \in rest : e.at > t - a} \in SUBSET seen
    OBVIOUS
  <2> DEFINE old == {e \in rest : e.at > t - a}
  <2>4. Since(more, t, a) \in SUBSET (old \cup {new})
    BY <2>1 DEF Since
  <2> HIDE DEF kept, rest, new, seen, more, old
  <2>5. IsFiniteSet(rest \cup {new})
    BY <1>1, <2>2, FS_Subset, FS_AddElement
  <2>6. /\ IsFiniteSet(old) /\ Cardinality(old) \in Nat /\ Cardinality(old) <= n
    <3>1. IsFiniteSet(old) /\ Cardinality(old) <= Cardinality(seen)
      BY <1>1, <2>3, FS_Subset DEF old
    <3> QED
      BY <1>1, <3>1, FS_CardinalityType
  <2>7. /\ IsFiniteSet(old \cup {new}) /\ Cardinality(old \cup {new}) <= n + 1
        /\ Cardinality(old \cup {new}) \in Nat
    <3>1. /\ IsFiniteSet(old \cup {new})
          /\ \/ Cardinality(old \cup {new}) = Cardinality(old)
             \/ Cardinality(old \cup {new}) = Cardinality(old) + 1
      <4>1. CASE new \in old
        <5>1. old \cup {new} = old
          BY <4>1
        <5> QED
          BY <2>6, <5>1
      <4>2. CASE new \notin old
        BY <2>6, <4>2, FS_AddElement
      <4> QED
        BY <4>1, <4>2
    <3> QED
      BY <2>6, <3>1
  <2>8. Cardinality(Since(more, t, a)) <= n + 1
    <3>1. /\ Cardinality(Since(more, t, a)) <= Cardinality(old \cup {new})
          /\ IsFiniteSet(Since(more, t, a))
      BY <2>4, <2>7, FS_Subset
    <3>2. Cardinality(Since(more, t, a)) \in Nat
      BY <3>1, FS_CardinalityType
    <3> QED
      BY <2>7, <3>1, <3>2
  <2>9. \A e \in rest \cup {new} : e.at \in Nat /\ e.at <= t
    BY <1>1, <2>2
  <2> QED
    BY <2>1, <2>5, <2>8, <2>9 DEF LogSeen
<1>5. LogSeen(v, 0, t, 0, cfg)
  <2> SUFFICES ASSUME v # Absent PROVE LogSeen(v, 0, t, 0, cfg)
    BY DEF LogSeen
  <2>1. Since(v, t, 0) = {}
    BY DEF LogSeen, Since
  <2> QED
    BY <2>1, FS_EmptySet DEF LogSeen
<1>6. LogSeen(v, n, t + 1, a + 1, cfg)
  <2> SUFFICES ASSUME v # Absent PROVE LogSeen(v, n, t + 1, a + 1, cfg)
    BY DEF LogSeen
  <2>1. Since(v, t + 1, a + 1) = Since(v, t, a)
    <3>1. (t + 1) - (a + 1) = t - a
      OBVIOUS
    <3> QED
      BY <3>1 DEF Since
  <2> QED
    BY <2>1 DEF LogSeen
<1>7. Exists(left) => LogSeen(Refreshed(left, t, cfg), n, t, a, cfg)
  <2> SUFFICES ASSUME Exists(left) PROVE LogSeen(Refreshed(left, t, cfg), n, t, a, cfg)
    OBVIOUS
  <2>1. left = [v EXCEPT !.entries = kept] /\ Exists(v)
    BY DEF LogEvicted, LogKept, Exists, Absent
  <2>2. Exists(Refreshed(left, t, cfg)) /\ Refreshed(left, t, cfg).entries \in SUBSET kept
    <3> HIDE DEF kept, left
    <3> QED
      BY <2>1 DEF Refreshed, Exists
  <2> HIDE DEF kept, left
  <2> QED
    BY <1>2, <2>2
<1>8. Eval(v, t, cfg, TRUE, id).value = left
  BY LogPeeks
<1>9. LET e == Eval(v, t, cfg, FALSE, id) IN
      LogSeen(e.value, IF e.allowed THEN n + 1 ELSE n, t, a, cfg)
  <2> DEFINE f == Eval(v, t, cfg, FALSE, id)
  <2>1. /\ (f.allowed <=> LogAdmits(v, t, cfg))
        /\ LogAdmits(v, t, cfg) => f.value = more
        /\ ~LogAdmits(v, t, cfg) =>
             f.value = IF ~Exists(left) THEN left ELSE Refreshed(left, t, cfg)
    BY LogEvalCases, Zenon
  <2> HIDE DEF f, left, more
  <2>2. LogSeen(f.value, IF f.allowed THEN n + 1 ELSE n, t, a, cfg)
    <3>1. CASE LogAdmits(v, t, cfg)
      BY <1>4, <2>1, <3>1
    <3>2. CASE ~LogAdmits(v, t, cfg)
      BY <1>3, <1>7, <2>1, <3>2
    <3> QED
      BY <3>1, <3>2
  <2> QED
    BY <2>2 DEF f
<1> HIDE DEF left, more
<1> QED
  BY <1>3, <1>4, <1>5, <1>6, <1>8, <1>9, LogScripts DEF left, more

-----------------------------------------------------------------------------
(***************************************************************************)
(* The invariant of the windows and the log, as long as the clock is not   *)
(* set back.                                                               *)
(***************************************************************************)
Windows == {"fixed_window", "sliding_window", "sliding_log"}

\* What a stop-watch at a must have seen, n requests, of a key that holds v.
Account(v, n, t, a, cfg) ==
    /\ algo = "fixed_window" => FixedSeen(v, n, t, a, cfg)
    /\ algo = "sliding_window" => SlidingAccount(v, n, t, a, cfg)
    /\ algo = "sliding_log" => LogSeen(v, n, t, a, cfg)

\* A key that vanishes takes no request with it.
LEMMA AccountFound ==
    ASSUME NEW cfg \in Level, NEW t \in Nat, NEW n \in Nat, NEW a \in Nat, NEW v,
           Account(v, n, t, a, cfg)
    PROVE  Account(Visible(v, t), n, t, a, cfg)
<1>1. CASE algo = "fixed_window"
  <2>1. FixedSeen(v, n, t, a, cfg)
    BY <1>1 DEF Account
  <2>2. /\ IsCount(Visible(v, t), cfg)
        /\ FixedCount(Visible(v, t), t, cfg) = FixedCount(v, t, cfg)
    BY <2>1, FixedFound DEF FixedSeen
  <2>3. Visible(v, t) = Absent \/ Visible(v, t) = v
    BY DEF Visible
  <2> QED
    BY <1>1, <2>1, <2>2, <2>3 DEF Account, FixedSeen
<1>2. CASE algo = "sliding_window"
  BY <1>2, SlidingFound DEF Account
<1>3. CASE algo = "sliding_log"
  BY <1>3 DEF Account, LogSeen, Visible
<1> QED
  BY <1>1, <1>2, <1>3 DEF Account

\* Time passes.
LEMMA AccountAdvances ==
    ASSUME NEW cfg \in Level, NEW t \in Nat, NEW n \in Nat, NEW a \in Nat, NEW v,
           Account(v, n, t, a, cfg)
    PROVE  Account(v, n, t + 1, a + 1, cfg)
  BY FixedSeenAdvances, SlidingAdvances, LogSeenScripts DEF Account

\* The scripts.
LEMMA AccountScripts ==
    ASSUME algo \in Windows, NEW cfg \in Level, NEW t \in Nat, NEW n \in Nat,
           NEW a \in Nat, NEW v, Account(v, n, t, a, cfg), NEW id
    PROVE  /\ Account(v, 0, t, 0, cfg)
           /\ Admits(v, t, cfg) => Account(Take(v, t, cfg, id).value, n + 1, t, a, cfg)
           /\ Account(Deny(v, t, cfg).value, n, t, a, cfg)
           /\ LET e == Eval(v, t, cfg, FALSE, id) IN
              Account(e.value, IF e.allowed THEN n + 1 ELSE n, t, a, cfg)
           /\ Account(Eval(v, t, cfg, TRUE, id).value, n, t, a, cfg)
<1> DEFINE e == Eval(v, t, cfg, FALSE, id)
           m == IF e.allowed THEN n + 1 ELSE n
           p == Eval(v, t, cfg, TRUE, id).value
<1>1. CASE algo = "fixed_window"
  <2>1. FixedSeen(v, n, t, a, cfg)
    BY <1>1 DEF Account
  <2>2. /\ FixedSeen(v, 0, t, 0, cfg)
        /\ Admits(v, t, cfg) => FixedSeen(Take(v, t, cfg, id).value, n + 1, t, a, cfg)
        /\ FixedSeen(Deny(v, t, cfg).value, n, t, a, cfg)
        /\ FixedSeen(e.value, m, t, a, cfg) /\ FixedSeen(p, n, t, a, cfg)
    BY <1>1, <2>1, FixedSeenScripts, Zenon
  <2> HIDE DEF e, m, p
  <2> QED
    BY <1>1, <2>2 DEF Account, e, m, p
<1>2. CASE algo = "sliding_window"
  <2>1. SlidingAccount(v, n, t, a, cfg)
    BY <1>2 DEF Account
  <2>2. /\ SlidingAccount(v, 0, t, 0, cfg)
        /\ Admits(v, t, cfg) => SlidingAccount(Take(v, t, cfg, id).value, n + 1, t, a, cfg)
        /\ SlidingAccount(Deny(v, t, cfg).value, n, t, a, cfg)
        /\ SlidingAccount(e.value, m, t, a, cfg) /\ SlidingAccount(p, n, t, a, cfg)
    BY <1>2, <2>1, SlidingScripts, Zenon
  <2> HIDE DEF e, m, p
  <2> QED
    BY <1>2, <2>2 DEF Account, e, m, p
<1>3. CASE algo = "sliding_log"
  <2>1. LogSeen(v, n, t, a, cfg)
    BY <1>3 DEF Account
  <2>2. /\ LogSeen(v, 0, t, 0, cfg)
        /\ Admits(v, t, cfg) => LogSeen(Take(v, t, cfg, id).value, n + 1, t, a, cfg)
        /\ LogSeen(Deny(v, t, cfg).value, n, t, a, cfg)
        /\ LogSeen(e.value, m, t, a, cfg) /\ LogSeen(p, n, t, a, cfg)
    BY <1>3, <2>1, LogSeenScripts, Zenon
  <2> HIDE DEF e, m, p
  <2> QED
    BY <1>3, <2>2 DEF Account, e, m, p
<1> QED
  BY <1>1, <1>2, <1>3 DEF Windows

\* The inductive invariant.
AccountInv ==
    /\ algo \in Algos
    /\ now \in Nat /\ age \in Nat
    /\ DOMAIN db = Keys
    /\ \A k \in Keys : Account(db[k], taken[k], now, age, Quota[k])
    /\ taken \in [Keys -> Nat]

\* No key exists, and nothing was taken.
LEMMA InitAccountInv == Init => AccountInv
<1> SUFFICES ASSUME Init, NEW k \in Keys PROVE Account(Absent, 0, 0, 0, Quota[k])
  BY DEF Init, AccountInv
<1> DEFINE cfg == Quota[k]
           W   == SlidingLength(cfg)
<1>1. cfg \in Level /\ W \in Nat \ {0} /\ cfg.threshold \in Nat
  BY EngineAssumption, LengthFacts DEF SlidingLength, LogLength
<1> HIDE DEF cfg, W
<1>2. FixedSeen(Absent, 0, 0, 0, cfg)
  BY <1>1 DEF FixedSeen, IsCount, FixedCount, Exists, Absent
<1>3. SlidingAccount(Absent, 0, 0, 0, cfg)
  <2> DEFINE x == SlidingCounts(Absent, 0, cfg)
             r == 0 - SlidingStart(0, cfg)
  <2>1. x.ca = 0 /\ x.cb = 0
    BY DEF SlidingCounts, Exists, Absent
  <2>2. r \in Nat
    <3>1. SlidingStart(0, cfg) = WindowStart(0, W)
      BY DEF SlidingStart, W
    <3>2. WindowStart(0, W) \in Nat /\ WindowStart(0, W) <= 0
      BY <1>1, WindowFacts
    <3> QED
      BY <3>1, <3>2
  <2>3. Counted(0, 0, 0, r, 0, W, cfg.threshold)
    <3> HIDE DEF r
    <3>1. 0 * (W - r) + 0 * W = 0
      BY <1>1, <2>2
    <3>2. (cfg.threshold + 1) * W = cfg.threshold * W + W /\ cfg.threshold * W \in Nat
      BY <1>1, Products
    <3>3. 0 * (W - r) + 0 * W < (cfg.threshold + 1) * W
      BY <1>1, <3>1, <3>2
    <3> QED
      BY <1>1, <2>2, <3>3 DEF Counted
  <2>4. Counted(0, x.ca, x.cb, r, 0, W, cfg.threshold)
    <3> HIDE DEF x, r
    <3> QED
      BY <2>1, <2>3
  <2> QED
    BY <2>4 DEF SlidingAccount, W
<1>4. LogSeen(Absent, 0, 0, 0, cfg)
  BY DEF LogSeen
<1> QED
  BY <1>2, <1>3, <1>4 DEF Account, cfg

\* Every step keeps it.
LEMMA NextAccountInv ==
    ASSUME MaxBack = 0, algo \in Windows, AccountInv, [Next]_vars
    PROVE  AccountInv'
<1>1. \A k \in Keys :
          /\ Quota[k] \in Level /\ taken[k] \in Nat
          /\ Account(db[k], taken[k], now, age, Quota[k])
          /\ Account(Found(k), taken[k], now, age, Quota[k])
  BY AccountFound, EngineAssumption DEF AccountInv, Found
<1>2. /\ algo \in Algos /\ now \in Nat /\ age \in Nat /\ DOMAIN db = Keys
      /\ taken \in [Keys -> Nat]
  BY DEF AccountInv
<1>3. ASSUME now' \in Nat, age' \in Nat, DOMAIN db' = Keys, taken' \in [Keys -> Nat],
             \A k \in Keys : Account(db'[k], taken'[k], now', age', Quota[k])
      PROVE  AccountInv'
  BY <1>2, <1>3, SameAlgo DEF AccountInv, Account
<1>4. CASE Advance
  <2>1. db' = db /\ taken' = taken /\ now' = now + 1 /\ age' = age + 1
    BY <1>4 DEF Advance
  <2>2. \A k \in Keys : Account(db[k], taken[k], now + 1, age + 1, Quota[k])
    BY <1>1, <1>2, AccountAdvances
  <2> QED
    BY <1>1, <1>2, <1>3, <2>1, <2>2
<1>5. ASSUME NEW d \in 1 .. MaxBack, StepBack(d) PROVE FALSE
  BY <1>5
<1>6. CASE StartWatch
  <2>1. UNCHANGED <<db, now>> /\ age' = 0 /\ taken' = [k \in Keys |-> 0]
    BY <1>6 DEF StartWatch
  <2>2. \A k \in Keys : Account(db[k], 0, now, 0, Quota[k])
    BY <1>1, <1>2, AccountScripts, Zenon
  <2> QED
    BY <1>1, <1>2, <1>3, <2>1, <2>2
<1>7. ASSUME NEW j \in Keys, Expire(j) PROVE AccountInv'
  <2>1. /\ UNCHANGED <<now, age, taken>> /\ DOMAIN db' = Keys
        /\ \A k \in Keys : db'[k] = db[k] \/ db'[k] = Found(k)
    BY <1>2, <1>7 DEF Expire, Found, Visible
  <2> QED
    BY <1>1, <1>2, <1>3, <2>1
<1>8. ASSUME NEW call \in Calls, GrantCall(call) PROVE AccountInv'
  <2> DEFINE took(k) == Take(Found(k), now, Quota[k], FreshNonce(k)).value
  <2>1. /\ UNCHANGED <<now, age>>
        /\ db' = [k \in Keys |-> IF k \in KeysOf(call) THEN took(k) ELSE db[k]]
        /\ taken' = [k \in Keys |-> IF k \in KeysOf(call) THEN taken[k] + 1 ELSE taken[k]]
    BY <1>8 DEF GrantCall
  <2>2. \A k \in KeysOf(call) : Admits(Found(k), now, Quota[k])
    BY <1>8 DEF GrantCall, AllHaveRoom, HasRoom
  <2>3. ASSUME NEW k \in Keys, k \in KeysOf(call)
        PROVE  Account(took(k), taken[k] + 1, now, age, Quota[k])
    BY <1>1, <1>2, <2>2, <2>3, AccountScripts, Zenon
  <2> HIDE DEF took
  <2> QED
    BY <1>1, <1>2, <1>3, <2>1, <2>3
<1>9. ASSUME NEW call \in Calls, DenyCall(call) PROVE AccountInv'
  <2> DEFINE denied(k) == Deny(Found(k), now, Quota[k]).value
  <2>1. /\ UNCHANGED <<now, age, taken>>
        /\ db' = [k \in Keys |-> IF k \in KeysOf(call) THEN denied(k) ELSE db[k]]
    BY <1>9 DEF DenyCall
  <2>2. \A k \in Keys : Account(denied(k), taken[k], now, age, Quota[k])
    BY <1>1, <1>2, AccountScripts, Zenon
  <2> HIDE DEF denied
  <2> QED
    BY <1>1, <1>2, <1>3, <2>1, <2>2
<1>10. ASSUME NEW j \in Keys, Try(j) PROVE AccountInv'
  <2> DEFINE e == Eval(Found(j), now, Quota[j], FALSE, FreshNonce(j))
  <2>1. /\ UNCHANGED <<now, age>> /\ db' = [db EXCEPT ![j] = e.value]
        /\ taken' = [taken EXCEPT ![j] = IF e.allowed THEN @ + 1 ELSE @]
    BY <1>10 DEF Try
  <2>2. Account(e.value, IF e.allowed THEN taken[j] + 1 ELSE taken[j], now, age, Quota[j])
    BY <1>1, <1>2, AccountScripts, Zenon
  <2> HIDE DEF e
  <2> QED
    BY <1>1, <1>2, <1>3, <2>1, <2>2
<1>11. ASSUME NEW j \in Keys, Peek(j) PROVE AccountInv'
  <2> DEFINE e == Eval(Found(j), now, Quota[j], TRUE, FreshNonce(j))
  <2>1. UNCHANGED <<now, age, taken>> /\ db' = [db EXCEPT ![j] = e.value]
    BY <1>11 DEF Peek
  <2>2. Account(e.value, taken[j], now, age, Quota[j])
    BY <1>1, <1>2, AccountScripts, Zenon
  <2> HIDE DEF e
  <2> QED
    BY <1>1, <1>2, <1>3, <2>1, <2>2
<1>12. CASE UNCHANGED vars
  BY <1>1, <1>2, <1>3, <1>12 DEF vars
<1> QED
  BY <1>4, <1>5, <1>6, <1>7, <1>8, <1>9, <1>10, <1>11, <1>12 DEF Next, TryMulti

\* What a clock that is never set back preserves.
CalmAccounts == algo \in Algos /\ (algo \in Windows => AccountInv)

\* Every run keeps it.
LEMMA CalmInvariant == ASSUME MaxBack = 0 PROVE Spec => []CalmAccounts
<1>1. Init => CalmAccounts
  BY InitAccountInv DEF CalmAccounts, Init
<1>2. CalmAccounts /\ [Next]_vars => CalmAccounts'
  BY SameAlgo, NextAccountInv DEF CalmAccounts
<1> QED
  BY <1>1, <1>2, PTL DEF Spec

\* A stretch no longer than the window touches two windows at most.
LEMMA AccountBounds ==
    algo = "sliding_window" /\ AccountInv => SeamBound
<1> SUFFICES ASSUME algo = "sliding_window", AccountInv, NEW k \in Keys,
                    age <= SlidingLength(Quota[k])
             PROVE  taken[k] * SlidingLength(Quota[k])
                        < (Quota[k].threshold + 1) * SlidingLength(Quota[k])
                              + Quota[k].threshold * age
  BY DEF SeamBound
<1> DEFINE cfg == Quota[k]
           W   == SlidingLength(cfg)
           x   == SlidingCounts(db[k], now, cfg)
           r   == now - SlidingStart(now, cfg)
           n   == taken[k]
<1>1. cfg \in Level /\ now \in Nat /\ age \in Nat /\ n \in Nat
  BY EngineAssumption DEF AccountInv
<1>2. SlidingAccount(db[k], n, now, age, cfg)
  BY DEF AccountInv, Account
<1>3. /\ W \in Nat \ {0} /\ cfg.threshold \in Nat /\ r \in Nat /\ r < W
      /\ x.ca \in 0 .. cfg.threshold /\ x.cb \in 0 .. cfg.threshold
  BY <1>1, <1>2, SlidingFacts
<1>4. Counted(n, x.ca, x.cb, r, age, W, cfg.threshold)
  BY <1>2 DEF SlidingAccount
<1> HIDE DEF cfg, x, r, n, W
<1>5. age <= W => n * W < (cfg.threshold + 1) * W + cfg.threshold * age
  BY <1>1, <1>3, <1>4, CountedBounds
<1> QED
  BY <1>5 DEF cfg, n, W

\* The limit a sliding window enforces (sliding_window_multi.go and
\* sliding_window.go) is not doubled across a seam, whatever the keys, the quotas and
\* the calls, as long as the clock is not set back.
THEOREM SlidingWindowsNeverDoubleBurst == ASSUME MaxBack = 0 PROVE Spec => []SeamBound
<1>1. CalmAccounts => SeamBound
  <2>1. CASE algo = "sliding_window"
    BY <2>1, AccountBounds DEF CalmAccounts, Windows
  <2>2. CASE algo # "sliding_window"
    BY <2>2 DEF SeamBound
  <2> QED
    BY <2>1, <2>2
<1> QED
  BY <1>1, CalmInvariant, PTL

-----------------------------------------------------------------------------
(***************************************************************************)
(* Refusals.                                                               *)
(***************************************************************************)
\* A fixed window that refuses holds its limit.
LEMMA FixedRefuses ==
    ASSUME algo = "fixed_window", NEW cfg \in Level, NEW t \in Nat, NEW n \in Nat,
           NEW a \in Nat, NEW v, Account(v, n, t, a, cfg), ~Admits(v, t, cfg),
           t - a <= LastIgnored(algo, t, cfg)
    PROVE  n >= cfg.threshold
<1> DEFINE f == WindowStart(t, FixedLength(cfg))
           x == FixedCount(v, t, cfg)
<1>1. /\ FixedSeen(v, n, t, a, cfg) /\ ~FixedAdmits(v, t, cfg) /\ t - a <= f - 1
  BY DEF Account, Admits, ScriptAdmits, LastIgnored
<1>2. IsCount(v, cfg) /\ (a > t - f => n >= x)
  BY <1>1 DEF FixedSeen
<1>3. x \in 0 .. cfg.threshold /\ cfg.threshold \in Nat
  BY <1>2, FixedCountType, LengthFacts
<1>4. f \in Nat
  <2>1. FixedLength(cfg) \in Nat \ {0}
    BY LengthFacts
  <2> QED
    BY <2>1, WindowFacts
<1>5. ~(x < cfg.threshold)
  BY <1>1 DEF FixedAdmits
<1> HIDE DEF f, x
<1> QED
  BY <1>1, <1>2, <1>3, <1>4, <1>5

\* So does a sliding window, the previous window weighed.
LEMMA SlidingRefuses ==
    ASSUME algo = "sliding_window", NEW cfg \in Level, NEW t \in Nat, NEW n \in Nat,
           NEW a \in Nat, NEW v, Account(v, n, t, a, cfg), ~Admits(v, t, cfg),
           t - a <= LastIgnored(algo, t, cfg)
    PROVE  n >= cfg.threshold
<1> DEFINE W   == SlidingLength(cfg)
           f   == SlidingStart(t, cfg)
           x   == SlidingCounts(v, t, cfg)
           thr == cfg.threshold
<1>1. /\ SlidingAccount(v, n, t, a, cfg) /\ ~SlidingAdmits(v, t, cfg)
      /\ t - a <= f - W - 1
  BY DEF Account, Admits, ScriptAdmits, LastIgnored
<1>2. /\ W \in Nat \ {0} /\ thr \in Nat /\ f \in Nat /\ t - f \in Nat /\ t - f < W
      /\ x.ca \in 0 .. thr /\ x.cb \in 0 .. thr
      /\ SlidingEffective(x, t, cfg) = x.cb * (W - (t - f)) + x.ca * W
  BY <1>1, SlidingFacts
<1>3. Counted(n, x.ca, x.cb, t - f, a, W, thr)
  BY <1>1 DEF SlidingAccount
<1>4. ~(x.cb * (W - (t - f)) + x.ca * W < thr * W)
  BY <1>1, <1>2 DEF SlidingAdmits
<1> HIDE DEF W, f, x, thr
<1>5. a > (t - f) + W
  BY <1>1, <1>2
<1>6. n >= thr
  BY <1>2, <1>3, <1>4, <1>5, CountedRefuses
<1> QED
  BY <1>6 DEF thr

\* And a log.
LEMMA LogRefuses ==
    ASSUME algo = "sliding_log", NEW cfg \in Level, NEW t \in Nat, NEW n \in Nat,
           NEW a \in Nat, NEW v, Account(v, n, t, a, cfg), ~Admits(v, t, cfg),
           t - a <= LastIgnored(algo, t, cfg)
    PROVE  n >= cfg.threshold
<1> DEFINE kept == LogKept(v, t, cfg)
           W    == LogLength(cfg)
<1>1. /\ LogSeen(v, n, t, a, cfg) /\ ~(Cardinality(kept) < cfg.threshold)
      /\ t - a <= t - W
  BY DEF Account, Admits, ScriptAdmits, LastIgnored, LogAdmits
<1>2. W \in Nat \ {0} /\ cfg.threshold \in Nat \ {0}
  BY LengthFacts
<1>3. v # Absent
  <2>1. ASSUME v = Absent PROVE FALSE
    <3>1. kept = {}
      BY <2>1 DEF LogKept, Exists, Absent
    <3> QED
      BY <1>1, <1>2, <3>1, FS_EmptySet
  <2> QED
    BY <2>1
<1>4. /\ Exists(v) /\ IsFiniteSet(v.entries) /\ Cardinality(Since(v, t, a)) <= n
      /\ \A e \in v.entries : e.at \in Nat
  BY <1>1, <1>3 DEF LogSeen
<1>5. kept = {e \in v.entries : e.at > t - W}
  BY <1>4 DEF LogKept
<1> HIDE DEF kept, W
<1>6. kept \in SUBSET Since(v, t, a) /\ Since(v, t, a) \in SUBSET v.entries
  BY <1>1, <1>2, <1>4, <1>5 DEF Since
<1>7. /\ IsFiniteSet(Since(v, t, a)) /\ IsFiniteSet(kept)
      /\ Cardinality(kept) <= Cardinality(Since(v, t, a))
  BY <1>4, <1>6, FS_Subset
<1>8. Cardinality(kept) \in Nat /\ Cardinality(Since(v, t, a)) \in Nat
  BY <1>7, FS_CardinalityType
<1> QED
  BY <1>1, <1>2, <1>4, <1>7, <1>8

\* A window or a log that refuses (fixed_window_multi.go, sliding_window_multi.go,
\* sliding_log_multi.go) has admitted its limit in the stretch it looks at, as long as
\* the clock is not set back: no request denied by another level of its cascade, no
\* peek and no expiry has cost it anything.
THEOREM WindowsRefuseEarned == ASSUME MaxBack = 0 PROVE Spec => []WindowDenialEarned
<1>1. CalmAccounts => WindowDenialEarned
  <2> SUFFICES ASSUME CalmAccounts, NEW k \in Keys, algo \notin Buckets, ~HasRoom(k),
                      now - age <= LastIgnored(algo, now, Quota[k])
               PROVE  taken[k] >= Quota[k].threshold
    BY DEF WindowDenialEarned
  <2>1. algo \in Windows
    BY EngineAssumption DEF CalmAccounts, Algorithms, Buckets, Windows
  <2>2. /\ Quota[k] \in Level /\ now \in Nat /\ age \in Nat /\ taken[k] \in Nat
        /\ Account(db[k], taken[k], now, age, Quota[k])
    BY <2>1, EngineAssumption DEF CalmAccounts, AccountInv
  <2>3. Account(Found(k), taken[k], now, age, Quota[k])
    BY <2>2, AccountFound DEF Found
  <2>4. ~Admits(Found(k), now, Quota[k])
    BY DEF HasRoom
  <2>5. CASE algo = "fixed_window"
    BY <2>2, <2>3, <2>4, <2>5, FixedRefuses
  <2>6. CASE algo = "sliding_window"
    BY <2>2, <2>3, <2>4, <2>6, SlidingRefuses
  <2>7. CASE algo = "sliding_log"
    BY <2>2, <2>3, <2>4, <2>7, LogRefuses
  <2> QED
    BY <2>1, <2>5, <2>6, <2>7 DEF Windows
<1> QED
  BY <1>1, CalmInvariant, PTL
=============================================================================
