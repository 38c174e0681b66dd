# A verification of the rate-limiting gateway

The gateway (`src/backend`) decides for each request whether it is within the
quotas of the rules it matches.  Rules live in PostgreSQL and, as a copy, in
every gateway instance; the counters live in Redis and are only touched by Lua
scripts.  This directory holds TLA+ models of its parts, the TLC runs that check
them on small instances, and TLAPS proofs for every value of the constants.

## 1. The system

| Part | State | Operations | Talks to |
| --- | --- | --- | --- |
| engine (`internal/engine`) | Redis: one hash or sorted set per quota key, with a time to live | `TryMulti`, `Try`, `Peek`, each one Lua script | Redis |
| quota checker (`internal/quota`) | none of its own; per request, the rules left, the verdict, a pipeline of ticks | `Decide`, `PeekRule` | rule store (`List`), matcher, engine, stats |
| rule store (`internal/store`) | table `rules` in PostgreSQL; a map per instance; the channel `rules:changed` | `New`, `loadAll`, `List`, `Get`, `Create`, `Update`, `Delete`, `SubscribeHotReload` | PostgreSQL, Redis pub/sub |
| stats (`internal/stats`) | Redis: counters per rule and second, a capped deny log per rule | `Tick`, `PushDeny`, `TimeSeries`, `RecentDenies` | Redis |
| matcher, rule model (`internal/matcher`, `internal/model`) | none | `Matches`, `Key`, `Validate` | - |
| api (`internal/api`) | none | the HTTP handlers; `replay` fires batches of `Decide` | all of the above |
| process (`cmd/server`) | which phase of starting an instance is in | load, subscribe, serve, stop | rule store |
| frontend | - | a client of the API | api |

What is hard here:

* many requests, clients and instances interleave on the same keys, and the keys
  expire by themselves;
* a level that refuses must not charge the others - within one rule the script
  guarantees it, over several rules nothing does;
* a change of a rule is four steps (look at the copy, PostgreSQL, the copy,
  publish), a reload is two, and messages can be missed;
* an error, a lost reply or a crash can fall between any two of these steps.

`PROJECT.json` lists these hazards with their lines and the properties that watch
them.

What makes each part correct: the engine never admits more than a key's quota,
never refuses without reason, and answers honestly; the checker never lets an
unpaid request through and reports what it did; the matcher counts apart what is to
be counted apart; the rule store's copies end up equal to PostgreSQL.

## 2. The modules

| Module | Models | Extends or instantiates |
| --- | --- | --- |
| `RedisValue` | a key's value and its expiry; rounding helpers | |
| `TokenBucket`, `LeakyBucket`, `FixedWindow`, `SlidingWindow`, `SlidingLog` | the single-key and the multi-key script of one algorithm, as operators from a stored value to a decision, a new value and a report | `RedisValue` |
| `Scripts` | which script of which algorithm; what they have in common | the five above |
| `StateView` | how the dashboard reads the keys raw (`api/state.go`) | `Scripts` |
| `Engine` | Redis' keys and clock; `TryMulti`, `Try`, `Peek`, expiry | `StateView` |
| `HotChange` | a key whose rule is changed (threshold, burst, window, algorithm) while several instances decide by different versions | `Scripts` |
| `IdealBucket` | abstract: credit that grows all the time and is paid atomically | refined by `Engine` (both buckets) |
| `Ledger` | abstract: places per key, taken from all keys of a call at once | refined by `Engine` (all algorithms), used by `Checker` |
| `Checker` | `Decide`, `Tick`, `PushDeny`, run by many requests at once, with failures | `Ledger` |
| `Stats` | `Decide`, `Tick` and `PushDeny` again, with their times: the curves, the deny logs, their times to live, and the handlers that show them | `RedisValue` |
| `RuleModel` | `Validate` and `toModel`: the rules that are accepted | |
| `Matcher` | `Matches` and `Key`, over rules that are submitted and replaced | `RuleModel` |
| `RuleStore` | PostgreSQL, the copies, the channel, starting, crashing | |
| `Arithmetic` | lemmas: quotients rounded up and down, aligned windows, the least number with a property | `RedisValue` |
| `AlgorithmProofs` | theorems about `Engine`: with token and leaky buckets, the bounds, the earned refusals, the refinement of `IdealBucket`, the spacing of releases; with the windows and the sliding log, the bounds and the earned refusals | `Engine`, `Arithmetic` |
| `EngineProofs` | theorems about `Engine` with any algorithm: types, the refinement of `Ledger`, expiry, the honesty of the answers | `AlgorithmProofs` |
| `HotChangeProofs` | theorems about `HotChange` | `HotChange`, `Arithmetic` |
| `RuleStoreProofs` | theorems about `RuleStore` | `RuleStore` |
| `CheckerProofs` | theorems about `Checker`: its verdicts, its curves and deny logs | `Checker` |
| `MatcherProofs` | theorems about `Matcher` | `Matcher` |
| `StatsProofs` | theorems about `Stats`: the curves, the newest denies | `Stats`, `Arithmetic` |
| `MCEngine`, `MCHotChange`, `MCChecker`, `MCStats`, `MCMatcher`, `MCRuleStore` | the constants of the small instances | |

Definitions named `...` in a comment that begins "Mutation:" are deliberate
errors.  They are used by nothing but the mutants of `PROJECT.json`, which show
that each property can fail.

### Engine

`algo` is the algorithm of the rules, one for all and for good, and `db[k]` what Redis
holds under key `k`; `now` is Redis' `TIME`.  A script
reads the clock once and runs without interruption, so each call is one action:
`GrantCall` and `DenyCall` are the two outcomes of `TryMulti` (pass 2, or the
early return after pass 1), `Try` and `Peek` are the single-key script.  Of a denial
the model keeps what it does to the keys, not what `parseMulti` makes of it: which
level denied first, and whether the others would have admitted, decides nothing.  `Found`
is what a script sees, since Redis treats an expired key as missing; `Expire` is
Redis' own deletion.  Time is an integer: one unit is the resolution of the
clock, and `Second` is the number of units in a second.  Token and water amounts
are counted in 1/`Second`, so that a rate of `threshold` per second is
`threshold` per unit and everything the scripts compute with fractions is exact.
The rounding error of Lua's doubles is therefore not modelled; `ceil` and
`floor`, where the scripts call them, are.

`age`, `taken` and `due` are observers.  `StartWatch` restarts a stop-watch at any
moment, so that the bounds are about every stretch of time, not only those that
begin with an empty store.

`RemainingHonest` also holds the dashboard to account: `state.go` reads the keys as
the last script left them, and what it shows is at most what a peek would report.
(For a sliding window, whose raw counts are both shown in full, it may even be
negative.)

### HotChange

The name of a key does not say what the rule was when the key was written.  `val` is
one key; `copy[h]` the version that holder `h` decides by, an instance or a request
that has listed the rules already; `history` the versions there are.  `Load` changes
a copy, to any version at any time (a reload may also bring back an older one, see
`RuleStore`).  `View` is what a script finds in a hash of another algorithm, `Merged`
what `HSET` leaves of it, `WrongType` the error a script gets from a value of another
Redis type, before it has written anything.

What is promised while a rule is changed is less than what is promised while it is not,
and the properties say how much: the quota of the most generous version in force
(`QuotaHolds`), as long as the versions in force differ in their threshold only. While
two instances disagree on the burst, the window or the algorithm, each may reset or let
expire what the other has counted, and nothing is promised.  Once all have the new
version, its quota holds at once; requests admitted before are held against the client
no longer than the new version counts them, but for a leaky bucket whose burst was
lowered (`DenialEarned`); a change between the sliding log and another algorithm makes
the rule's requests fail until the old key expires, which it does within the time to
live of a version that stores values of its type (`ErrorsPass`); releases are in order
(`ReleaseInOrder`), except that requests which were queued at a lower rate may leave
after requests that came later.

### Ledger and IdealBucket

Two views of what the engine promises.  `IdealBucket` is what a bucket is, without
laziness and expiry.  `Ledger` forgets even the rates: a key has so many places,
a grant takes one of each of its keys in one step, a refusal is no step, and time
gives places back.  `Engine` is checked to implement `IdealBucket` with the two
buckets, and `Ledger` with the windows and the log (`ImplementsIdealBucket`,
`ImplementsLedger`); `Checker` then uses `Ledger` in place of `Engine`.

### Checker

One request is one call of `Decide`.  `todo` holds the rules it still has to
evaluate; it is always at the one with the smallest id.  `Grant` and `Refuse` are
the two outcomes of `TryMulti`, `Push` is the `PushDeny` that follows a refusal at
once, `Answer` the execution of the pipeline.  Which rules match and which keys
they build are constants.  Failures: `EvalFails` (the script errs, before or after
its effect), `SendAgain` (the reply of a script that granted is lost; go-redis repeats
commands, and `main.go` leaves its `MaxRetries` at the default), `PushFails` and
`PushAgain`, `AnswerFails` and `AnswerAgain` (the pipeline breaks after some of its
commands).  A script that is sent again pays again; for the sliding log, where the
same nonce would replace its own entry, the model is the more pessimistic.  It is more
pessimistic, too, where it lets a pipeline break before its first command although the
connection has just served a script.

`pushes` is an observer: all that was pushed to a rule's log, first or again, from the
newest to the oldest.  By it `RefusalsLogged` tells a refusal that was cut off for newer
ones from one that was lost.

### Stats

The requests are those of `Checker`, seen from the curves: each carries the time it
began, and the pipeline of ticks it builds.  Of a leaky bucket the model has the
spacing of releases that `ReleaseSpaced` establishes.  `TickCommands` are the commands
of one `Tick`, `Executed` their effect on a series with its time to live; `Break` cuts
a pipeline after any command, to be sent again or given up.  `TimeSeries` and
`RecentDenies` are what the handlers of `metrics.go` show, evaluated by the properties
in every state; `Scans` are the orders in which `SCAN` may return the logs, with a key
twice or not.  The gateways' clocks and Redis' are one here, and the commands of a
pipeline that is not cut are executed at one time.

A series lives two hours from its last tick, and a curve shows up to an hour, but an
admission of a leaky bucket is recorded in the second of its release, and nothing bounds
how far that is ahead.  The model therefore assumes no more than that a series lives as
long as the longest curve.  `early` is an observer: it counts the ticks that were sent so
far ahead that the series, if the rule has no other traffic, expires while the second is
still shown (`TooEarly`).  Those may be missing, which is finding 5; `CurveComplete` says
that nothing else is, and `AllIsSum` is of the seconds that have no such tick.

### RuleModel and Matcher

`Validate` is a predicate on submitted rules (`Submit`), `Matches` and `Key` what
`Decide` asks for each request and level of an enabled rule (`Serve`).  The separators
of a key are what its correctness depends on, so that texts are sequences of symbols
here, and only here.  A rule may be replaced under its id, and `charges` remembers what
was counted under which key, by which version.  `Checker` takes the rules that match and
the keys as constants; that the keys of one call differ, which `Engine` and `Ledger`
rely on, is part of `CountsApart`.

### RuleStore

`pg` is the table, `cache[i]` the map of instance `i`, `inbox[i]` the messages that
Redis has handed to it.  A request is at "checked", "stored" or "cached", the steps of
`Create`, `Update` and `Delete`.  `Query` and `Swap` are the two halves of `loadAll`: it
reads PostgreSQL and takes the lock afterwards.  A rule's content is the request that
wrote it.  The library's part is there too: it sends a publish again whose reply was
lost (`PublishAgain`), so that a message may come twice and late; and it holds
`ChannelSize` messages for the handler, besides the one the handler has, and drops the
next one if the handler has taken none for a minute (`Drop`).  `missed[i]` says that
some change is in PostgreSQL and instance `i` will not be told of it.  The runs show
that this is the only way for it to stay behind, apart from one: a delete that is stored
before another change of the same rule and published after it takes the rule out of the
copies (`Overtaken`).

## 3. The runs

| Run | Shows | Bounds |
| --- | --- | --- |
| `EngineBuckets` | token and leaky bucket: they are the ideal bucket, do not refuse without reason (`BucketDenialEarned`), expire invisibly, answer honestly, space their releases | two keys, bursts 3 and 1, rates 2 and 1; 9 units of time, `Second` = 3: a bucket fills from empty and its key expires |
| `EngineWindows` | fixed window: at most the limit per aligned window touched; sliding window: no double burst (`SeamBound`); sliding log: exactly the limit in any window; no refusal below the limit; expiry, answers, the ledger | windows of 4 and 2 units, 9 units: two seams, a skipped window, an expiry; as many nonces as entries can coexist, plus one |
| `EngineClock` | the bounds of buckets and log, and the spacing of releases, when the clock is set back by up to 2 units, any number of times | 4 units of clock, 6 of elapsed time |
| `HotChange` | what holds while a rule is changed, and after | fifteen pairs of versions: each algorithm with two thresholds, bursts or windows, and five changes of algorithm; two holders; 9 units, `Second` = 2: what either version left expires |
| `CheckerFailures` | no over-admission, fail closed, honest curves, deny logs that lose nothing but for newer refusals, no place wasted on a refusal, with failures of Redis anywhere | three requests of two clients, two rules of two levels, two failures, one place gained per key |
| `CheckerPartial` (violation) | a refused request has paid other rules | two requests |
| `MatcherKeys` | quotas are counted for values that are there (`Attributable`), apart (`CountsApart`) and together (`CountsTogether`) as each level says, also when the rule is replaced | seven lists of dimensions and eight sets of levels, some to be refused; three texts per dimension; two versions, enabled or not, two requests: a pair is what the properties relate; no text has a bar |
| `RuleStoreFailures` | what is enforced is stored; every copy is on its way to PostgreSQL's rules and, under fairness, gets there | two instances, two changes (create, update, delete) of two rules, of the same one or not, a crash and restart, two failures; a channel of one message (the library's holds 100), so that it overflows: 2.0 million states |
| `Stats` | the curves are complete and add up, that of a leaky bucket is smooth, the newest denies are shown | three requests, two rules, `Second` = 2; 8 units of time, of which a series lives 4 and a curve shows 2; delays of up to 4, so that some ticks outlive their series; one pipeline that breaks: 1.8 million states |
| `StatsRetention` (violation) | a release recorded far ahead is gone when the curve comes to it | the same, and no pipeline breaks |
| `RuleStoreStartup` (violation) | a change while an instance starts never reaches it | |
| `RuleStoreResurrection` (violation) | an update inserts a rule that was deleted | |

Why the bounds are enough: each run of `Engine` is long enough for a key to be
created, exhausted, refilled, to expire and to be created again, with a second key
in the same call that denies independently.  Two requests are the least that race,
three let a third see the
result; two instances are the least that disagree, and a third would only be another
reader.  `MaxNow`, `MaxAge`, `MaxBack`,
`MaxGain`, `MaxLag`, `MaxBreaks`, `MaxFailures` and `MaxCrashes` only bound the environment.

`Engine` and `HotChange` never stop, since `StartWatch` is always possible.  The
requests of `Checker`, `Stats`, `Matcher` and `RuleStore` are finitely many: when all
have ended the model rests, so these configurations do not check for deadlock.

Symmetry is used for nonces, for interchangeable requests and for instances, and
never in a run that checks a liveness property.

### The findings

1. A change that is published between the first load and the subscription of a
   starting instance is lost to it.
2. `Update` may insert a rule that was deleted.
3. A request refused by one rule has paid the others (`checker.go:69`).  For the same
   reason concurrent identical requests can all be refused where one of them would
   have been admitted, each having taken another rule's last place.
4. Values are joined into a key without escaping, so that two clients may share one
   (`matcher.go:2` says they never do).  This one is not a run but a theorem:
   `KeysCollide` of `MatcherProofs` names two clients for every three texts.
5. An admission of a leaky bucket that is released more than an hour later may be gone
   from the curves before they have shown it: its series lives two hours from when it
   was recorded, and `Validate` accepts such bursts (`stats.go:97` says that a curve is
   zero where there were no events).  A rule with other traffic keeps its series alive,
   and `_all` lives on with the traffic of any rule, so that the curves of the rules may
   then show less than that of all.

Seen while modelling and not a run of its own:

* A delete message is applied without reading PostgreSQL: if an update of the same
  rule, past its check already, is stored after the delete and its reload comes first,
  PostgreSQL has the rule and the copies do not, until the next reload.
  `SettlesOnStored` says that no race does worse.
* An instance whose publish fails, or which dies before it publishes, leaves the others
  untold; so do a subscription that is cut and a message the library drops.
  `SettlesOnStored` and `EventuallyInSync` ask nothing of an instance that was not told,
  until it next reads PostgreSQL.
* `Peek` of a sliding log deletes the entries that left the window
  (`sliding_log.go:19`), where `engine.go:85` says that it does not mutate state; `ImplementsLedger` shows that no decision depends on it.

### Fairness

`FairSpec` of `RuleStore` asks that a request that has begun goes on
(`Store`, `Cache`, `Publish` are consecutive statements of one goroutine, and
PostgreSQL and Redis answer), and that a handler with a message takes it (a `for`
loop over a channel).  No fairness is assumed of clients, failures or crashes.
In `EventuallyInSync` an instance that missed a change (`missed`) is excused for as
long as no other change comes; nothing in the code would make it reload.

## 4. The proofs

Every theorem is about `Spec` of its module, for every value of the constants that
the module's assumption allows:

* `EngineAssumption` and `HotChangeAssumption`: quotas are positive, as `Validate`
  has them, and bounds are natural numbers; a rule has had finitely many versions, and
  somebody decides by one;
* `StoreAssumption`; `CheckerAssumption` with `KeysApart` (the keys of two rules
  differ, since a key begins with the id of its rule);
* `MatcherAssumption`: what is submitted declares a sequence of names, and a
  request has a text for each dimension;
* `StatsAssumption`: there are finitely many requests, rules and keys; a rule is a
  leaky bucket for all requests it matches or for none, since the algorithm is the
  rule's; and a series lives at least as long as the longest curve (`Retention`): 7200 s
  in the code against 3600 s.  How long a delay is, nothing says.

Some theorems have a hypothesis of their own, stated in the theorem.

| Theorem | Property | Hypothesis |
| --- | --- | --- |
| `BucketTypeOK` | `TypeOK` with a bucket | |
| `BucketsNeverOverAdmit` | `BucketBound` | |
| `LeakyReleasesSpaced` | `ReleaseSpaced` | |
| `BucketExpiryInvisible` | `ExpiryInvisible` with a bucket | |
| `BucketsRefuseEarned` | `BucketDenialEarned` | `MaxBack = 0` |
| `BucketsAreIdeal` | `ImplementsIdealBucket` | `MaxBack = 0`, only buckets |
| `LogsNeverOverAdmit` | `LogBound` | `EnoughNonces` |
| `FixedWindowsNeverOverAdmit` | `FixedBound` | `MaxBack = 0` |
| `SlidingWindowsNeverDoubleBurst` | `SeamBound` | `MaxBack = 0` |
| `WindowsRefuseEarned` | `WindowDenialEarned` | `MaxBack = 0` |
| `EngineTypeOK` | `TypeOK` | `NoncesSuffice` |
| `EngineIsLedger` | `ImplementsLedger` | `MaxBack = 0`, `NoncesSuffice` |
| `EngineExpiryInvisible` | `ExpiryInvisible` | `NoncesSuffice`; for a log `MaxBack = 0` |
| `EngineRetryHonest`, `EngineRemainingHonest` | `RetryAfterHonest`, `RemainingHonest` | `MaxBack = 0`, `NoncesSuffice` |
| `HotChangeErrorsPass`, `HotChangeReleases`, `HotChangeDenialEarned` | `ErrorsPass`, `ReleaseInOrder`, `DenialEarned` | |
| `HotChangeQuotaHolds` | `QuotaHolds` | `NoncesSuffice` |
| `RuleStoreType`, `RuleStoreDurable`, `RuleStoreSettles` | `TypeOK`, `DurableBeforeInForce`, `SettlesOnStored` | |
| `CheckerType`, `CheckerFailsClosed`, `CheckerAdmits`, `CheckerRefuses` | `TypeOK`, `FailClosed`, `NoOverAdmission`, `RefusalsEarned` | |
| `CheckerCurves`, `CheckerLogs` | `CurvesHonest`, `RefusalsLogged` | |
| `AttributableHolds`, `CountsTogetherHolds` | `Attributable`, `CountsTogether` | |
| `CountsApartHolds` | `CountsApart` | `NoBars` |
| `KeysCollide` | `CountsApart` is false without `NoBars` | a rule for clients and paths |
| `StatsCurveComplete`, `StatsAllIsSum` | `CurveComplete`, `AllIsSum` | |
| `StatsSmoothCurve`, `StatsRecentNewest` | `SmoothCurve`, `RecentNewest` | |

`MaxBack = 0` says that Redis' clock is never set back.  `EnoughNonces` says that there
are more nonces than a log can hold, so that `FreshNonce` finds one that is not in use;
the code draws them from 128 random bits.  `NoncesSuffice` asks this only where some
rule, or some version of a rule, is a sliding log.  `NoBars` says that no text of a
request contains `|`; without it `CountsApart` is false (`KeysCollide`), which is
finding 4.

**The buckets.**  The bound is not inductive.  `BucketInv` adds to the types of the
stored values that the time to live of a bucket covers the time in which it fills or
drains, so that a bucket that vanished was full (`TokenExpiredIsFull`,
`LeakyExpiredIsEmpty`).  The bound then follows from `Potential`: what a bucket holds
and what it was paid never exceed a full bucket and what the rate added since the
watch was started.  What the two scripts do to a key is proved of each, one lemma for
each kind of step, and put under one operator `Holds`.
A clock that is set back can only cost the client, so the bound needs nothing more;
the opposite inequality, `Earned`, does: it holds as long as no key was written in the
future (`WrittenByNow`).  With the same invariant each action maps to a step of
`IdealBucket` or to none (`NextIsIdeal`).  For the releases, `Promises` bounds the last
promised release of a key by the time in which its queue drains.

**The log and the windows.**  `Covers` says that as long as the stop-watch is
shorter than the window, every request it has seen admitted has an entry that is
younger than the stop-watch, and the key outlives the window; entries are evicted
by age, and setting the clock back only makes them younger.  The bound on the log's
size does the rest.  `FixedPotential` adds the count of the current window to a full
limit for each earlier one.

The sliding window and the refusals have one invariant, `Account`: what the stop-watch
has seen admitted, against what the key holds.  For a fixed window, all of its count,
once the watch has run since the window began; for a log, every entry that is younger
than the watch; for a sliding window, `Counted`: at most the current count if the watch
began in the current window, at most both counts if in the previous one, at least the
current count or both if it began earlier than that window or both; and the previous
count, weighed, plus the current one is less than one over the limit.  That weight only
shrinks within a window (`CountedFades`), at the seam the current count becomes the
previous one, in full (`CountedRolls`), and an admitted request found the sum below the
limit (`CountedPays`).  `CountedBounds` and `CountedRefuses` then are arithmetic: what
the previous window's weight has lost is the watch's share of the limit at most.  A
clock that is set back breaks it: the code forgets a window that seems to lie ahead.

**All algorithms.**  `Ledger` needs the number of requests that a key would still admit,
and needs it of a refused request's keys as well.  `Room` is that number for each
algorithm, computed from the stored value.  `Behaves` says what the scripts, expiry
and a unit of time do to it, at one key: a grant finds room and takes one place, a
denial, a peek and an expiry change nothing, time takes nothing away.  It is proved for
each algorithm of every value that `Good` allows, and the rest never looks at a
script again: `StepRooms` lifts it to the actions, and these are steps of `Ledger` or
none.  `Good` asks more than `TypeOK` does: that the key outlives what it counts
(`Outlived` for a log), and what `Account` says of the windows' counts.  The types need
no clock that goes forward; the counters, whose window may then lie ahead, have
an invariant of their own (`CounterInv`).

`RemainingHonest` speaks of a row of requests admitted one after the other.  `After` is
one request; that a row of any length exists, and that it is unique, is proved with the
least number at which it would fail, as TLAPS has no induction over an operator.  Each
request takes one place (`Behaves`), so that the row is as long as `Room` says, and what
is left are the formulas of the five reports (`Counts`): the rounding of the sliding
window loses at most one.  For `RetryAfterHonest` each wait is compared with the
first moment at which `Room` is positive.

**A rule that changes.**  A key may hold what any version has left.  `Past` says no
more than that no field lies in the future, that a log is within the limit of some
version that had one, and that the key lives no longer than some version lets it that
stores values of its type (`WrittenBy`; `Outlasts` makes of this that a key of the wrong type expires, hence `ErrorsPass`).
The properties are on top of that, each with an invariant of its own.  `Promised` bounds
the last release by the time in which the queue drains, while one version is in force.
`EarnedWith` says of one version what is missing of its allowance, and that it was
taken since the watch was started or was missing then: a version that finds an alien
hash finds nothing missing.  `Cover` bounds what was admitted for every version in force
and every M above their thresholds, with the stored value telling how much more may
come: credit for the buckets (`CreditLeft`), the seams that the watch has seen for a
fixed window, both counts for a sliding one (`CountsFit`), the entries since for a log.
It has to speak of all M and of all versions in force at once, since any of them may
make the next step, and it must begin anew, with nothing admitted, whenever the watch
is started over whatever the key holds.  `QuotaHolds` is `Cover` for the largest
threshold.  TLC found no state of the run that violates it (`Covered`).

**The rule store.**  `TypeOK` contains that an instance that is down has no work left
(`DownIsIdle`).  `StoredEverywhere` extends `DurableBeforeInForce` to the rules a reload
has read and not yet installed.  `SettlesOnStored` speaks of what a copy will be when
its reload and its messages are through (`Outcome`) and is inductive for each instance
and rule (`Settled`), given that the delete messages in the inboxes are of deletes that were
sent (`Announced`), be it that they are about to be sent again.

**The checker.**  `Complete`: what a request has granted, refused and still to do is
what it matched.  `Paid`: the places taken from a key are those of the requests that
have it granted, and at most one more for each failure.  `RefusalsEarned` follows since
a refusal finds no room and places are given away for good.  `Ticks` counts each
answered request once.  `Newest`: a log holds the newest of what was pushed to it
(`Holds`), as many as there is room for, since every push trims it (`LongestLog`);
`Recorded` says where a refusal is between the script and its push.

**The matcher.**  `Inv` is a history: for each version the rule it was, so that every
charge was made by an accepted rule that matched.  What is left is a fact about `Key`.
A combination is the first pair and what follows, and what follows is nothing or begins
with a bar; if no text has a bar, two equal combinations are cut at the same place
(`Cut`), so that their dimensions and values are equal, in turn (`CombinationsApart`).
The keys of two levels begin differently.  At most three dimensions can be declared,
and so the recursion in `FlattenSeq` is unfolded three times (`Flattened`).  `KeysCollide`
is the same computation with a bar in a value, where the two readings of the bar are
equal by associativity (`SameCombination`).  That a level
counts together what it should needs that a pair does not depend on anything else.

**The curves.**  All four theorems rest on one invariant, `Curves`.  That a series still
holds what a curve shows is not inductive: it says nothing of a series that is about to
expire.  `CountHolds` therefore distinguishes.  A series that expires while a second is
still shown has nothing answered in that second; any other counts what was answered,
and at most one more for each pipeline that broke; both but for what was sent too early.
It is kept since every command that counts is followed by one that renews the time to live
(`TickParts` goes through the four commands of a tick, cut after any of them), since what
is counted of a second that is too far for the time to live was sent too early
(`FarZero`, `FarEmpty`, `Foreseen`), and since time makes expire only what may
(`CoveredLater`).  No delay is too long for this.  `AddsUp` says the same of sums: the series of the rules add up to
`_all`, whichever of the series that expire too early are gone, the rules' or `_all`
itself, up to one for each break.  It must be of every such set at once, as two series
of one tick may expire one after the other.

`SmoothCurve` needs a second invariant, `Smooth`: what is recorded of a leaky bucket in a
second, and what waits in the pipelines of the requests under way to be recorded there,
is at most what its keys have released in it (`Releases`).  An admission is recorded in
the second of its slowest release, and raises the last release of that key by its pace
(`ReleasesOne`); the other keys only go forward.

`RecentNewest` is of the handler, whatever the logs hold.  The sort puts each refusal at
its rank, the number of those before it (`RankFacts`): ranks differ, so that each is
taken, and what is cut has a higher rank than what is shown.

The folds of the library, `SumFunction` and `FlattenSeq`, are functions that TLA+
chooses.  That they exist is proved by induction on the size of the set or the length
of the sequence, over sets of numbers and not over an operator (`FoldDefined`).

Only model-checked: the liveness property `EventuallyInSync`, since TLAPS does no
liveness.  The runs also check what the proofs take as given: that the constants of a
small instance satisfy the assumptions, and that the interesting steps do happen.

## 5. Not modelled

* The rounding of doubles, and numbers beyond the range of `PEXPIRE`.
* `fixed_window` and `sliding_window` when the clock is set back over a boundary:
  they compare the window's start for equality and forget the count, so the bounds
  do not hold; the code claims nothing about it.
* The HTTP layer but for what `Submit`, `Serve`, `StateView` and the handlers of `Stats`
  take from it.  `replay` calls `Decide` in batches of concurrent requests, as the
  requests of `Checker` do, waits for each batch, keeps no state and counts an error as
  a refusal.
* The retry loops of `main.go`, the configuration, the test helpers, the frontend.
* The EVALSHA fallback of `Eval`: a script that Redis does not know has no effect,
  so the second attempt is the only one.

## 6. The plan

All modules of the plan are written: `RedisValue`, the five algorithms, `Engine` and
`IdealBucket`; `Ledger` and `Checker`; `RuleStore`; `RuleModel` and `Matcher`; `HotChange`,
the scripts over rules that change; `Stats`, with the handlers that read it; and the
theorems of section 4.  `replay`, once planned as a module, keeps no state that
`Checker` does not have.

Every safety property of a passing run is a theorem.  What could follow is `Checker` over
`Engine` in one specification: it stands on `Ledger`, which `Engine` is proved to
implement (`EngineIsLedger`), but the two are not composed in a module of their own.
