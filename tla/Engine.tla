------------------------------- MODULE Engine -------------------------------
(***************************************************************************)
(* The engine package over the Redis keys of the rules of one algorithm:   *)
(* TryMulti, Try and Peek, each one Lua script and so one atomic step of   *)
(* Redis, whichever gateway instance sends it; Redis' own expiry of keys;  *)
(* and Redis' clock, which the scripts read.                               *)
(*                                                                         *)
(* algo is the algorithm of the rules, chosen for good at the start.  db   *)
(* is what Redis holds.  age, taken and due are observers: a stop-watch    *)
(* that StartWatch may restart at any moment, the requests each key has    *)
(* admitted since, and the time until the last request a leaky bucket      *)
(* admitted is released.  age is elapsed time; now, the clock, may also    *)
(* be stepped back.                                                        *)
(***************************************************************************)
EXTENDS StateView, Sequences

CONSTANTS
    Algos,      \* the algorithms a rule may have
    Keys,       \* the keys of their levels
    Quota,      \* the level's configuration of each key
    Calls,      \* the keys of a request, one per level, in the cascade's order
    Nonces,     \* the members a sliding log can hold
    MaxNow,     \* bound: the clock stops here
    MaxAge,     \* bound: the stop-watch stops the clock here
    MaxBack     \* bound: how far the clock is stepped back at once, 0 for never

ASSUME EngineAssumption ==
    /\ Second \in Nat \ {0}
    /\ Algos \subseteq Algorithms
    /\ Quota \in [Keys -> Level]
    /\ Calls \subseteq Seq(Keys)
    /\ MaxNow \in Nat /\ MaxAge \in Nat /\ MaxBack \in Nat

VARIABLES algo, now, db, age, taken, due
vars == <<algo, now, db, age, taken, due>>

-----------------------------------------------------------------------------
Admits(v, t, cfg) == ScriptAdmits(algo, v, t, cfg)
Deny(v, t, cfg) == ScriptDeny(algo, v, t, cfg)
Take(v, t, cfg, id) == ScriptTake(algo, v, t, cfg, id)
Eval(v, t, cfg, peek, id) == ScriptEval(algo, v, t, cfg, peek, id)

\* What a script finds in a key, and whether it would admit a request there.
Found(k)   == Visible(db[k], now)
HasRoom(k) == Admits(Found(k), now, Quota[k])

\* The member drawn for a key: one its sorted set does not hold.
NewNonceRepeated(used) == CHOOSE id \in Nonces : TRUE      \* Mutation.
NewNonce(used) == CHOOSE id \in Nonces : id \notin used
FreshNonce(k) == NewNonce(Members(db[k]))

KeysOf(call) == {call[i] : i \in DOMAIN call}

\* The first pass of the scripts finds no key that denies (firstDeny = -1).
AllHaveRoom(call) == \A k \in KeysOf(call) : HasRoom(k)

-----------------------------------------------------------------------------
Init ==
    /\ algo \in Algos
    /\ now = 0
    /\ db = [k \in Keys |-> Absent]
    /\ age = 0
    /\ taken = [k \in Keys |-> 0]
    /\ due = [k \in Keys |-> 0]

\* Time passes.
Advance ==
    /\ now < MaxNow /\ age < MaxAge
    /\ now' = now + 1
    /\ age' = age + 1
    /\ due' = [k \in Keys |-> Larger(0, due[k] - 1)]
    /\ UNCHANGED <<algo, db, taken>>

\* Redis' clock is set back by d, at no cost in elapsed time.
StepBack(d) ==
    /\ d <= now
    /\ now' = now - d
    /\ UNCHANGED <<algo, db, age, taken, due>>

\* The observer starts counting anew.
StartWatch ==
    /\ age' = 0
    /\ taken' = [k \in Keys |-> 0]
    /\ UNCHANGED <<algo, now, db, due>>

\* Redis removes a key whose time to live has passed.
Expire(k) ==
    /\ Expired(db[k], now)
    /\ db' = [db EXCEPT ![k] = Absent]
    /\ UNCHANGED <<algo, now, age, taken, due>>

\* The release a leaky bucket promises the request it admits.
Promise(k, report) == IF algo = "leaky_bucket" THEN report.reset ELSE due[k]

\* TryMulti, second pass: every key admits, and every key takes.
GrantCall(call) ==
    LET K       == KeysOf(call)
        took(k) == Take(Found(k), now, Quota[k], FreshNonce(k))
    IN  /\ AllHaveRoom(call)
        /\ db' = [k \in Keys |-> IF k \in K THEN took(k).value ELSE db[k]]
        /\ taken' = [k \in Keys |-> IF k \in K THEN taken[k] + 1 ELSE taken[k]]
        /\ due' = [k \in Keys |-> IF k \in K THEN Promise(k, took(k).report)
                                  ELSE due[k]]
        /\ UNCHANGED <<algo, now, age>>

\* Mutation: the levels above the one that denies are charged.
DenyCallCharging(call) ==
    /\ ~AllHaveRoom(call)
    /\ db' = [k \in Keys |->
                  IF \E i \in DOMAIN call : /\ call[i] = k
                                           /\ \A j \in 1 .. i : HasRoom(call[j])
                  THEN Take(Found(k), now, Quota[k], FreshNonce(k)).value
                  ELSE db[k]]
    /\ UNCHANGED <<algo, now, age, taken, due>>

\* TryMulti: some key denies, no key takes.
DenyCall(call) ==
    /\ ~AllHaveRoom(call)
    /\ db' = [k \in Keys |-> IF k \in KeysOf(call)
                             THEN Deny(Found(k), now, Quota[k]).value
                             ELSE db[k]]
    /\ UNCHANGED <<algo, now, age, taken, due>>

TryMulti(call) == GrantCall(call) \/ DenyCall(call)

\* Try: the single-key script.
Try(k) ==
    LET e == Eval(Found(k), now, Quota[k], FALSE, FreshNonce(k)) IN
    /\ db' = [db EXCEPT ![k] = e.value]
    /\ taken' = [taken EXCEPT ![k] = IF e.allowed THEN @ + 1 ELSE @]
    /\ due' = [due EXCEPT ![k] = IF e.allowed THEN Promise(k, e.report) ELSE @]
    /\ UNCHANGED <<algo, now, age>>

\* Peek: the single-key script, told to look only.
Peek(k) ==
    /\ db' = [db EXCEPT ![k] = Eval(Found(k), now, Quota[k], TRUE, FreshNonce(k)).value]
    /\ UNCHANGED <<algo, now, age, taken, due>>

Next ==
    \/ Advance
    \/ \E d \in 1 .. MaxBack : StepBack(d)
    \/ StartWatch
    \/ \E k \in Keys : Expire(k)
    \/ \E call \in Calls : TryMulti(call)
    \/ \E k \in Keys : Try(k)
    \/ \E k \in Keys : Peek(k)

Spec == Init /\ [][Next]_vars
-----------------------------------------------------------------------------
(***************************************************************************)
(* Properties.                                                             *)
(***************************************************************************)
TokenValues(cfg) ==
    [type : {"hash"}, tokens : 0 .. TokenFull(cfg), last : Nat, expireAt : Nat]
LeakyValues(cfg) ==
    [type : {"hash"}, level : 0 .. cfg.burst * Second, last : Nat, expireAt : Nat]
FixedValues(cfg) ==
    [type : {"hash"}, w : Nat, c : 0 .. cfg.threshold, expireAt : Nat]
SlidingValues(cfg) ==
    [type : {"hash"}, a : Nat, ca : 0 .. cfg.threshold, cb : 0 .. cfg.threshold,
     expireAt : Nat]

\* A stored log: never empty, never over its limit.
IsLogValue(v, cfg) ==
    /\ DOMAIN v = {"type", "entries", "expireAt"}
    /\ v.type = "zset" /\ v.expireAt \in Nat
    /\ v.entries # {} /\ Cardinality(v.entries) <= cfg.threshold
    /\ \A e \in v.entries : e \in [at : Nat, id : Nonces]

IsValue(v, cfg) ==
    CASE algo = "token_bucket"   -> v \in TokenValues(cfg)
      [] algo = "leaky_bucket"   -> v \in LeakyValues(cfg)
      [] algo = "fixed_window"   -> v \in FixedValues(cfg)
      [] algo = "sliding_window" -> v \in SlidingValues(cfg)
      [] algo = "sliding_log"    -> IsLogValue(v, cfg)

\* Every key is absent or holds what the algorithm stores, within the quota:
\* a bucket between empty and full, a counter or a log at most at its limit.
TypeOK ==
    /\ algo \in Algos
    /\ now \in Nat /\ age \in Nat
    /\ DOMAIN db = Keys
    /\ \A k \in Keys : db[k] = Absent \/ IsValue(db[k], Quota[k])
    /\ taken \in [Keys -> Nat] /\ due \in [Keys -> Nat]

(***************************************************************************)
(* No key admits more than its quota, over any stretch of time: the stop-  *)
(* watch may be started at any moment and read at any other, and requests  *)
(* of all clients, with whatever else they need, are interleaved.          *)
(***************************************************************************)

\* Token bucket: a full bucket plus what the rate adds.  Leaky bucket: a full
\* queue plus what drains.
BucketBound == algo \in Buckets =>
    \A k \in Keys :
        taken[k] * Second <= Quota[k].burst * Second + Quota[k].threshold * age

\* Fixed window: the limit for each aligned window the stretch touches, hence at
\* most twice the limit across one seam.
FixedBound == algo = "fixed_window" =>
    \A k \in Keys :
        LET W == FixedLength(Quota[k]) IN
        taken[k] <= Quota[k].threshold * (now \div W - (now - age) \div W + 1)

\* Sliding window: in a stretch no longer than the window, across a seam or not,
\* less than the limit, plus its share of the stretch, plus one: what is left of
\* the fixed window's double burst when the previous window is faded out.
SeamBound == algo = "sliding_window" =>
    \A k \in Keys :
        LET W == SlidingLength(Quota[k]) IN
        age <= W => taken[k] * W < (Quota[k].threshold + 1) * W
                                        + Quota[k].threshold * age

\* Sliding log: exactly the limit in any window.
LogBound == algo = "sliding_log" =>
    \A k \in Keys : age < LogLength(Quota[k]) => taken[k] <= Quota[k].threshold

(***************************************************************************)
(* No key refuses without reason: when one refuses, the requests it        *)
(* admitted account for it.  A request denied by another key of its call   *)
(* must not have cost this one anything.                                   *)
(***************************************************************************)

\* Buckets: what was admitted exceeds what the bucket had or gained, less one.
BucketDenialEarned ==
    \A k \in Keys : algo \in Buckets /\ ~HasRoom(k) =>
        taken[k] * Second > Smaller(Quota[k].burst * Second, Quota[k].threshold * age)
                                - Second

\* Windows and logs: the limit was admitted after the last instant the decision
\* ignores, if the stop-watch was started by then.
WindowDenialEarned ==
    \A k \in Keys :
        (algo \notin Buckets /\ ~HasRoom(k) /\ now - age <= LastIgnored(algo, now, Quota[k])) =>
            taken[k] >= Quota[k].threshold

(***************************************************************************)
(* The time to live is never too short: a key that vanishes decides and    *)
(* reports as it would have, had it stayed.                                *)
(***************************************************************************)
ExpiryInvisible ==
    \A k \in Keys : Expired(db[k], now) =>
        LET cfg == Quota[k] IN
        /\ Admits(db[k], now, cfg) = Admits(Absent, now, cfg)
        /\ Take(db[k], now, cfg, FreshNonce(k)) = Take(Absent, now, cfg, FreshNonce(k))
        /\ Deny(db[k], now, cfg).report = Deny(Absent, now, cfg).report

(***************************************************************************)
(* The answers are honest.                                                 *)
(***************************************************************************)

\* A refused request that comes back after the reported reset_in_ms is admitted
\* if nobody came before it; and except for a token bucket, which reports when
\* it is full, not when it has a token, no earlier return would have been.  The
\* sliding window promises nothing: it reports when the window ends, and the
\* requests of that window still weigh then.
RoomAt(k, t) == Admits(Visible(db[k], t), t, Quota[k])
RetryAfterHonest ==
    \A k \in Keys : algo # "sliding_window" /\ ~HasRoom(k) =>
        LET wait == Deny(Found(k), now, Quota[k]).report.reset IN
        /\ RoomAt(k, now + wait)
        /\ algo # "token_bucket" =>
                \A t \in now .. (now + wait - 1) : ~RoomAt(k, t)

\* The remaining allowance a peek reports is the number of requests that would
\* now be admitted in a row; the sliding window, which rounds the effective
\* count up, may report one too few.  The dashboard's figure, read raw, is never
\* more than that (for a sliding window it may even be negative).
AfterTakes(k) ==
    LET after[n \in Nat] ==
            IF n = 0 THEN Found(k)
            ELSE Take(after[n - 1], now, Quota[k],
                      NewNonce(Members(after[n - 1]))).value
    IN  after
Remaining(k) == Eval(Found(k), now, Quota[k], TRUE, FreshNonce(k)).report.remaining
RemainingHonest ==
    \A k \in Keys :
        /\ Remaining(k) >= 0
        /\ InterpretRemaining(algo, Found(k), Quota[k]) <= Remaining(k)
        /\ \A n \in 0 .. Remaining(k) - 1 : Admits(AfterTakes(k)[n], now, Quota[k])
        /\ LET last == IF algo = "sliding_window" THEN Remaining(k) + 1 ELSE Remaining(k)
           IN  Admits(Found(k), now, Quota[k]) =>
                   ~Admits(AfterTakes(k)[last], now, Quota[k])

\* Leaky bucket: requests are released in the order they were admitted, each at
\* least the time of one request at the leak rate after the one before it.
ReleaseSpaced ==
    [][\A k \in Keys : (algo = "leaky_bucket" /\ taken'[k] = taken[k] + 1) =>
           due'[k] >= due[k] + Second \div Quota[k].threshold]_vars

(***************************************************************************)
(* Both buckets implement the ideal bucket, as long as the clock is never  *)
(* set back: refilling on demand, the time to live and Redis' deletions    *)
(* cannot be told from a bucket that is refilled all the time.             *)
(***************************************************************************)
Credit(k) ==
    CASE algo = "token_bucket" -> TokenNow(Found(k), now, Quota[k])
      [] algo = "leaky_bucket" -> Quota[k].burst * Second
                                      - LeakyNow(Found(k), now, Quota[k])
Ideal == INSTANCE IdealBucket WITH credit <- [k \in Keys |-> Credit(k)]
ImplementsIdealBucket == Ideal!Spec

(***************************************************************************)
(* Every algorithm implements the ledger its caller relies on: a script    *)
(* takes one place from each key it admits to, one that denies takes none, *)
(* and neither time nor expiry nor a peek ever takes a place away.         *)
(***************************************************************************)
Places(k) ==
    LET cfg == Quota[k] IN
    CASE algo \in Buckets          -> Credit(k) \div Second
      [] algo = "fixed_window"   -> cfg.threshold - FixedCount(Found(k), now, cfg)
      [] algo = "sliding_window" ->
             cfg.threshold - SlidingEffective(SlidingCounts(Found(k), now, cfg), now, cfg)
                                 \div SlidingLength(cfg)
      [] algo = "sliding_log"    ->
             cfg.threshold - Cardinality(LogKept(Found(k), now, cfg))
Promised == INSTANCE Ledger WITH room <- [k \in Keys |-> Places(k)]
ImplementsLedger == Promised!Spec
=============================================================================
