------------------------------- MODULE Stats -------------------------------
(***************************************************************************)
(* stats/stats.go, as Decide and the handlers of api/metrics.go use it:    *)
(* the per-second curves of each rule and of all of them together, and the *)
(* logs of refused requests.                                               *)
(*                                                                         *)
(* A request takes the time it begins, goes through its rules one script   *)
(* after another, pushes a deny event at once for each that refuses, and   *)
(* writes its ticks in one pipeline at the end.  The tick of an admission  *)
(* is recorded in the second of its release, which a leaky bucket delays:  *)
(* at each of the rule's keys by its pace at least after the release       *)
(* before it there (Engine's ReleaseSpaced).  The time of the gateways and *)
(* of Redis is one clock, of which Second units make a second; the         *)
(* commands of a pipeline that is not cut take no time.                    *)
(***************************************************************************)
EXTENDS RedisValue, SequencesExt

CONSTANTS
    Requests,
    Rules,          \* numbers, in the order of the rules' ids
    Matched,        \* Matched[q]: the rules q matches
    Keys,           \* the keys of the leaky buckets
    LevelKeys,      \* LevelKeys[q][r]: those of r for q, {} if r is no leaky bucket
    Pace,           \* the time from one release of a key to the next
    Longest,        \* the longest delay of a key: a longer one is refused
    Retention,      \* tsTTL
    LogLen,         \* denyLogLen
    MaxSeconds,     \* the longest curve timeSeries returns, in seconds
    MaxNow,         \* bound: the clock stops here
    MaxLag,         \* bound: the time from the begin of Decide to its last script
    MaxBreaks       \* bound: pipelines cut short

Outcomes == {"allow", "deny"}
All == 0        \* the series _all
Series == (Rules \cup {All}) \X Outcomes
MaxDelay == CHOOSE d \in {0} \cup {Longest[k] : k \in Keys} :
                \A k \in Keys : Longest[k] <= d

ASSUME StatsAssumption ==
    /\ Second \in Nat \ {0}
    /\ IsFiniteSet(Requests) /\ IsFiniteSet(Rules) /\ IsFiniteSet(Keys)
    /\ Rules \subseteq Nat \ {All} /\ Matched \in [Requests -> SUBSET Rules]
    /\ LevelKeys \in [Requests -> [Rules -> SUBSET Keys]]
    /\ Pace \in [Keys -> Nat \ {0}] /\ Longest \in [Keys -> Nat]
    \* A rule is a leaky bucket for every request it matches, or for none.
    /\ \A p, q \in Requests : \A r \in Matched[q] :
           LevelKeys[p][r] # {} => LevelKeys[q][r] # {}
    /\ LogLen \in Nat \ {0} /\ MaxSeconds \in Nat \ {0}
    /\ MaxNow \in Nat /\ MaxLag \in Nat /\ MaxBreaks \in Nat
    \* 7200 s in the code, of which a curve shows 3600.
    /\ Retention \in Nat /\ Retention >= MaxSeconds * Second

Seconds == 0 .. (MaxNow + MaxDelay) \div Second

VARIABLES
    now,
    req,        \* the calls of Decide, each with its pipeline of ticks
    released,   \* the last release of each key
    series,     \* the counts of each series, and when it expires
    log,        \* the deny log of each rule, newest push first
    recorded,   \* an observer: the ticks of the requests that were answered
    early,      \* an observer: the ticks sent too early to last (TooEarly)
    breaks
vars == <<now, req, released, series, log, recorded, early, breaks>>

\* The expiry of a key without a time to live: later than anything else.
Never == MaxNow + MaxDelay + Retention + 1
NoCounts == [s \in Seconds |-> 0]
NoSeries == [counts |-> NoCounts, expireAt |-> Never]

Init ==
    /\ now = 0
    /\ req = [q \in Requests |-> [pc |-> "new"]]
    /\ released = [k \in Keys |-> 0]
    /\ series = [x \in Series |-> NoSeries]
    /\ log = [r \in Rules |-> [events |-> <<>>, expireAt |-> Never]]
    /\ recorded = [x \in Series |-> NoCounts]
    /\ early = [x \in Series |-> NoCounts]
    /\ breaks = 0

\* No script runs later than MaxLag after its request began.
Advance ==
    /\ now < MaxNow
    /\ \A q \in Requests : req[q].pc = "deciding" => now < req[q].at + MaxLag
    /\ now' = now + 1
    /\ UNCHANGED <<req, released, series, log, recorded, early, breaks>>

-----------------------------------------------------------------------------
(***************************************************************************)
(* Decide.                                                                 *)
(***************************************************************************)
Begin(q) ==
    /\ req[q].pc = "new"
    /\ req' = [req EXCEPT ![q] = [pc |-> "deciding", at |-> now,
                                  todo |-> Matched[q], ticks |-> <<>>]]
    /\ UNCHANGED <<now, released, series, log, recorded, early, breaks>>

At(q, r) ==
    /\ req[q].pc = "deciding"
    /\ r \in req[q].todo /\ \A s \in req[q].todo : r <= s

\* The release each key of a leaky bucket would give a request now.
Release(k) == Larger(now, released[k]) + Pace[k]
HasSlots(K) == \A k \in K : Release(k) - now <= Longest[k]

\* Mutation: an admission is recorded when it arrives.
AllowSecondArrival(q, K) == req[q].at \div Second

\* The second of the slowest release of the keys K: maxReleaseMs after the begin.
AllowSecond(q, K) ==
    LET delays == {0} \cup {Release(k) - now : k \in K}
        slowest == CHOOSE d \in delays : \A e \in delays : e <= d
    IN  (req[q].at + slowest) \div Second

\* Tick: into the pipeline.
Ticked(q, r, outcome, second) ==
    [req[q] EXCEPT !.todo = @ \ {r},
                   !.ticks = Append(@, [rule |-> r, outcome |-> outcome,
                                        second |-> second])]

\* A rule that is no leaky bucket may admit or refuse.
Admit(q, r) ==
    LET K == LevelKeys[q][r] IN
    /\ At(q, r) /\ HasSlots(K)
    /\ released' = [k \in Keys |-> IF k \in K THEN Release(k) ELSE released[k]]
    /\ req' = [req EXCEPT ![q] = Ticked(q, r, "allow", AllowSecond(q, K))]
    /\ UNCHANGED <<now, series, log, recorded, early, breaks>>

Events(r) == IF now > log[r].expireAt THEN <<>> ELSE log[r].events
Trimmed(s) == IF Len(s) > LogLen THEN SubSeq(s, 1, LogLen) ELSE s

\* PushDeny, whose time is that of the begin of Decide.
Pushed(q, r) ==
    [events   |-> Trimmed(<<[by |-> q, at |-> req[q].at]>> \o Events(r)),
     expireAt |-> now + Retention]

Refuse(q, r) ==
    LET K == LevelKeys[q][r] IN
    /\ At(q, r) /\ (K # {} => ~HasSlots(K))
    /\ log' = [log EXCEPT ![r] = Pushed(q, r)]
    /\ req' = [req EXCEPT ![q] = Ticked(q, r, "deny", req[q].at \div Second)]
    /\ UNCHANGED <<now, released, series, recorded, early, breaks>>

-----------------------------------------------------------------------------
(***************************************************************************)
(* The pipeline.                                                           *)
(***************************************************************************)
Found(ss, x) == IF now > ss[x].expireAt THEN NoSeries ELSE ss[x]

ZIncrBy(x, second) == [op |-> "ZINCRBY", of |-> x, second |-> second]
Expire(x)          == [op |-> "EXPIRE", of |-> x]

\* Mutation: _all gets its time to live, and nothing else.
TickCommandsNoAll(t) ==
    LET own == <<t.rule, t.outcome>>
        all == <<All, t.outcome>>
    IN  <<ZIncrBy(own, t.second), Expire(own), Expire(all)>>

\* Tick.
TickCommands(t) ==
    LET own == <<t.rule, t.outcome>>
        all == <<All, t.outcome>>
    IN  <<ZIncrBy(own, t.second), ZIncrBy(all, t.second), Expire(own), Expire(all)>>

Pipeline(q) == FlattenSeq([n \in DOMAIN req[q].ticks |-> TickCommands(req[q].ticks[n])])

\* Mutation: only a series that is new gets a time to live.
ExecutedOnce(ss, c) ==
    LET found == Found(ss, c.of) IN
    [ss EXCEPT ![c.of] =
        IF c.op = "ZINCRBY" THEN [found EXCEPT !.counts[c.second] = @ + 1]
        ELSE IF found.counts = NoCounts \/ found.expireAt # Never THEN found
        ELSE [found EXCEPT !.expireAt = now + Retention]]

\* One command on the series ss.  EXPIRE does nothing to a key that is not there.
Executed(ss, c) ==
    LET found == Found(ss, c.of) IN
    [ss EXCEPT ![c.of] =
        IF c.op = "ZINCRBY" THEN [found EXCEPT !.counts[c.second] = @ + 1]
        ELSE IF found.counts = NoCounts THEN found
        ELSE [found EXCEPT !.expireAt = now + Retention]]

After(commands) == FoldLeft(Executed, series, commands)

Ready(q) == req[q].pc = "deciding" /\ req[q].todo = {}

Ticks(q, x, s) ==
    Cardinality({n \in DOMAIN req[q].ticks : LET t == req[q].ticks[n] IN
                     x[1] \in {t.rule, All} /\ x[2] = t.outcome /\ s = t.second})

\* The last moment at which the longest curve shows the second s.
LastShown(s) == (s + MaxSeconds) * Second - 1

\* What is written now of the second s expires while it is still shown, unless the
\* series is used again.
TooEarly(s) == now + Retention < LastShown(s)

Sent(q) ==
    early' = [x \in Series |-> [s \in Seconds |->
                 early[x][s] + (IF TooEarly(s) THEN Ticks(q, x, s) ELSE 0)]]

\* Exec, and the verdict is returned.
Record(q) ==
    /\ Ready(q)
    /\ series' = After(Pipeline(q))
    /\ Sent(q)
    /\ recorded' = [x \in Series |-> [s \in Seconds |-> recorded[x][s] + Ticks(q, x, s)]]
    /\ req' = [req EXCEPT ![q] = [pc |-> "done"]]
    /\ UNCHANGED <<now, released, log, breaks>>

\* The connection breaks when n commands were executed.  The client library sends
\* the pipeline again, or gives up.
Break(q, n) ==
    /\ Ready(q) /\ breaks < MaxBreaks /\ n <= Len(Pipeline(q))
    /\ series' = After(SubSeq(Pipeline(q), 1, n))
    /\ Sent(q)
    /\ breaks' = breaks + 1
    /\ UNCHANGED <<now, released, log, recorded>>

SendAgain(q, n) == Break(q, n) /\ UNCHANGED req
GiveUp(q, n) == Break(q, n) /\ req' = [req EXCEPT ![q] = [pc |-> "done"]]

Next ==
    \/ Advance
    \/ \E q \in Requests :
           \/ Begin(q) \/ Record(q)
           \/ \E r \in Rules : Admit(q, r) \/ Refuse(q, r)
           \/ \E n \in 0 .. 4 * Cardinality(Rules) : SendAgain(q, n) \/ GiveUp(q, n)

Spec == Init /\ [][Next]_vars
-----------------------------------------------------------------------------
(***************************************************************************)
(* The handlers.                                                           *)
(***************************************************************************)

\* timeSeries: what is not between one second and the longest curve is the default.
Clamped(seconds) ==
    IF seconds < 1 \/ seconds > MaxSeconds THEN Smaller(60, MaxSeconds) ELSE seconds

\* TimeSeries: the seconds up to the current one; what is recorded later is left out.
TimeSeries(id, seconds) ==
    LET today  == now \div Second
        points == {s \in Seconds : today - seconds < s /\ s <= today}
    IN  [s \in points |-> [o \in Outcomes |-> Found(series, <<id, o>>).counts[s]]]

Limited(limit) == IF limit <= 0 \/ limit > LogLen THEN LogLen ELSE limit

\* popDenies.
Popped(r, limit) ==
    SubSeq(Events(r), 1, Smaller(limit, Len(Events(r))))

\* Mutation: cut first, sorted afterwards.
NewestCutFirst(all, limit) ==
    LET cut == SubSeq(all, 1, Smaller(limit, Len(all)))
    IN  SortSeq(cut, LAMBDA d, e : d.at > e.at)

\* The insertion sort, newest first, which keeps the order of equals; then the cut.
Newest(all, limit) ==
    LET before(i) == {j \in DOMAIN all : \/ all[j].at > all[i].at
                                         \/ all[j].at = all[i].at /\ j < i}
        sorted == [n \in DOMAIN all |->
                      all[CHOOSE i \in DOMAIN all : Cardinality(before(i)) = n - 1]]
    IN  SubSeq(sorted, 1, Smaller(limit, Len(all)))

\* RecentDenies of all rules, whose keys SCAN has returned in the order scan.
RecentDenies(scan, limit) ==
    LET most == Limited(limit)
    IN  Newest(FlattenSeq([n \in DOMAIN scan |-> Popped(scan[n], most)]), most)

\* SCAN returns every key that is there all the time, in any order, some twice.
Scans ==
    LET live == {r \in Rules : Events(r) # <<>>}
        once == SetToSeqs(live)
    IN  once \cup {Append(s, s[1]) : s \in {t \in once : t # <<>>}}
-----------------------------------------------------------------------------
(***************************************************************************)
(* Properties.                                                             *)
(***************************************************************************)

\* The curves show every decision that was answered, in its second, for as long as
\* they reach back, and nothing else but what broken pipelines have left.  Only a
\* tick that was sent too early may be missing: no series expires under a curve that
\* shows another, however long it was idle.
CurveComplete ==
    \A r \in Rules, seconds \in {0, MaxSeconds} :
        LET curve == TimeSeries(r, Clamped(seconds)) IN
        \A s \in DOMAIN curve, o \in Outcomes :
            LET x == <<r, o>>
            IN  curve[s][o] \in recorded[x][s] - early[x][s] .. recorded[x][s] + breaks

\* In a second for which no tick was sent too early, the curve of all rules is the
\* sum of theirs, but for one tick of each pipeline that broke.
AllIsSum ==
    LET all  == TimeSeries(All, MaxSeconds)
        rule == [r \in Rules |-> TimeSeries(r, MaxSeconds)]
    IN  \A s \in DOMAIN all, o \in Outcomes :
            LET sum == SumFunction([r \in Rules |-> rule[r][s][o]])
            IN  early[<<All, o>>][s] = 0 => sum - all[s][o] \in -breaks .. breaks

\* "TimeSeries returns the last `seconds` seconds of allow/deny counts, zero-filling
\* seconds with no events" (stats.go:97): where a curve shows none, none was recorded.
ZeroFillsNoEvents ==
    \A r \in Rules :
        LET curve == TimeSeries(r, MaxSeconds) IN
        \A s \in DOMAIN curve, o \in Outcomes :
            curve[s][o] = 0 => recorded[<<r, o>>][s] = 0

\* "what makes the shaped output curve smooth" (leaky_bucket.go:18): however many
\* requests a leaky bucket admits at once, in no second of its curve there are more
\* than its keys release in a second and the time a request may lag.
KeysOf(r) == UNION {LevelKeys[q][r] : q \in Requests}
SmoothCurve ==
    \A r \in {s \in Rules : KeysOf(s) # {}} :
        LET most == SumFunction([k \in KeysOf(r) |-> CeilDiv(Second + MaxLag, Pace[k])])
        IN  \A s \in Seconds : Found(series, <<r, "allow">>).counts[s] <= most + breaks

\* The dashboard's denies are the newest: one that is missing is older than, or as
\* old as, every one that is shown, and there are as many as were asked for; unless
\* that many were pushed after it for its own rule.
RecentNewest ==
    \A scan \in Scans, limit \in 1 .. LogLen :
        LET shown == RecentDenies(scan, limit) IN
        \A r \in Rules : \A n \in DOMAIN Events(r) :
            LET e == Events(r)[n] IN
            \/ e \in ToSet(shown)
            \/ Len(shown) = limit /\ \A m \in DOMAIN shown : shown[m].at >= e.at
            \/ n > limit
=============================================================================
