----------------------------- MODULE HotChange -----------------------------
(***************************************************************************)
(* A rule is changed while its key lives.  The key's name does not say     *)
(* what the rule was when the key was written: a script may find a count   *)
(* of another window, the fields of another algorithm, or a value of       *)
(* another type.                                                           *)
(*                                                                         *)
(* A holder is whoever decides by a version of the rule: a gateway         *)
(* instance with its copy, or a request that has listed the rules and has  *)
(* not yet run its script.  RuleStore says which versions a copy can hold: *)
(* those that were stored, also an older one after a newer one.            *)
(*                                                                         *)
(* One key stands for all levels of a call: the scripts read every key     *)
(* before they write one, so that a call that fails has written nothing.   *)
(*                                                                         *)
(* As in Engine, a stop-watch may be started at any moment: age, taken and *)
(* due are counted from then, and span holds the versions in force since.  *)
(* taken stands still while these differ in more than their threshold.     *)
(***************************************************************************)
EXTENDS Scripts, FiniteSetsExt

CONSTANTS
    Holders,
    Histories,  \* for each rule, the versions it is given, in any order
    Nonces,     \* the members a sliding log can hold
    MaxNow,     \* bound: the clock stops here
    MaxAge      \* bound: the stop-watch stops the clock here

Versions == UNION Histories

ASSUME HotChangeAssumption ==
    /\ Second \in Nat \ {0} /\ Holders # {}
    /\ \A versions \in Histories : IsFiniteSet(versions)
    /\ \A v \in Versions : /\ v.algo \in Algorithms
                           /\ v.threshold \in Nat \ {0}
                           /\ v.burst \in Nat \ {0} /\ v.window \in Nat \ {0}
    /\ MaxNow \in Nat /\ MaxAge \in Nat

VARIABLES
    history,    \* the versions of the rule
    copy,       \* the version each holder decides by
    now, val,   \* Redis' clock, and what the key holds
    span, age, taken, due
vars == <<history, copy, now, val, span, age, taken, due>>

-----------------------------------------------------------------------------
(***************************************************************************)
(* What a script meets in a key that another script may have written.      *)
(***************************************************************************)

\* A command on a value of another type: an error, before anything is written.
WrongType(v, alg) == v.type = (IF alg = "sliding_log" THEN "hash" ELSE "zset")

\* The field a script needs to find its state in a hash.
Field(alg) ==
    CASE alg = "token_bucket"   -> "tokens"
      [] alg = "leaky_bucket"   -> "level"
      [] alg = "fixed_window"   -> "w"
      [] alg = "sliding_window" -> "a"

\* HMGET: a hash without that field is no state at all.
View(v, alg) ==
    IF v.type = "hash" /\ Field(alg) \notin DOMAIN v THEN Absent ELSE v

\* HSET leaves the fields of the other algorithms; PEXPIRE is for the whole key.
Merged(old, new) ==
    IF old.type = "hash" /\ new.type = "hash"
    THEN [f \in DOMAIN old \cup DOMAIN new |->
              IF f \in DOMAIN new THEN new[f] ELSE old[f]]
    ELSE new

\* What the key holds when the script of alg leaves new.
Left(v, alg, new) == IF new = View(v, alg) THEN v ELSE Merged(v, new)

Stored      == Visible(val, now)
Fails(h)    == WrongType(Stored, copy[h].algo)
Found(h)    == View(Stored, copy[h].algo)
HasRoom(h)  == ScriptAdmits(copy[h].algo, Found(h), now, copy[h])
FreshNonce  == CHOOSE id \in Nonces : id \notin Members(Stored)

-----------------------------------------------------------------------------
\* The versions differ in their threshold at most.
SameShape(V) ==
    \A v, w \in V : v.algo = w.algo /\ v.burst = w.burst /\ v.window = w.window

Init ==
    /\ history \in Histories
    /\ \E v \in history : copy = [h \in Holders |-> v] /\ span = {v}
    /\ now = 0 /\ val = Absent
    /\ age = 0 /\ taken = 0 /\ due = 0

Advance ==
    /\ now < MaxNow /\ age < MaxAge
    /\ now' = now + 1
    /\ age' = age + 1
    /\ due' = Larger(0, due - 1)
    /\ UNCHANGED <<history, copy, val, span, taken>>

StartWatch ==
    /\ span' = {copy[h] : h \in Holders}
    /\ age' = 0 /\ taken' = 0 /\ due' = 0
    /\ UNCHANGED <<history, copy, now, val>>

\* Mutation: the counters start anew with the rule.
LoadResetting(h, v) ==
    /\ copy' = [copy EXCEPT ![h] = v]
    /\ span' = span \cup {v}
    /\ val' = Absent
    /\ UNCHANGED <<history, now, age, taken, due>>

\* h goes on with v.  The key is left alone.
Load(h, v) ==
    /\ copy' = [copy EXCEPT ![h] = v]
    /\ span' = span \cup {v}
    /\ UNCHANGED <<history, now, val, age, taken, due>>

Expire ==
    /\ Expired(val, now)
    /\ val' = Absent
    /\ UNCHANGED <<history, copy, now, span, age, taken, due>>

\* TryMulti admits.
Grant(h) ==
    LET alg  == copy[h].algo
        took == ScriptTake(alg, Found(h), now, copy[h], FreshNonce)
    IN  /\ ~Fails(h) /\ HasRoom(h)
        /\ val' = Left(Stored, alg, took.value)
        /\ taken' = IF SameShape(span) THEN taken + 1 ELSE taken
        /\ due' = IF alg = "leaky_bucket" THEN took.report.reset ELSE due
        /\ UNCHANGED <<history, copy, now, span, age>>

\* Mutation: a leaky bucket queues the request it denies.
DenyQueueing(h) ==
    LET alg == copy[h].algo
        new == IF alg = "leaky_bucket"
               THEN LeakyTake(Found(h), now, copy[h]).value
               ELSE ScriptDeny(alg, Found(h), now, copy[h]).value
    IN  /\ ~Fails(h) /\ ~HasRoom(h)
        /\ val' = Left(Stored, alg, new)
        /\ UNCHANGED <<history, copy, now, span, age, taken, due>>

\* TryMulti denies.
Deny(h) ==
    LET alg == copy[h].algo
        new == ScriptDeny(alg, Found(h), now, copy[h]).value
    IN  /\ ~Fails(h) /\ ~HasRoom(h)
        /\ val' = Left(Stored, alg, new)
        /\ UNCHANGED <<history, copy, now, span, age, taken, due>>

\* Mutation: the time to live is restarted first.
FailRefreshing(h) ==
    /\ Fails(h)
    /\ val' = [Stored EXCEPT !.expireAt = now + LongestLife(copy[h].algo, copy[h])]
    /\ UNCHANGED <<history, copy, now, span, age, taken, due>>

\* TryMulti, or Peek, returns the error of the first command; the request is
\* answered with an error.
Fail(h) ==
    /\ Fails(h)
    /\ UNCHANGED vars

Peek(h) ==
    LET alg == copy[h].algo
        new == ScriptEval(alg, Found(h), now, copy[h], TRUE, FreshNonce).value
    IN  /\ ~Fails(h)
        /\ val' = Left(Stored, alg, new)
        /\ UNCHANGED <<history, copy, now, span, age, taken, due>>

Next ==
    \/ Advance \/ StartWatch \/ Expire
    \/ \E h \in Holders : \/ \E v \in history : Load(h, v)
                          \/ Grant(h) \/ Deny(h) \/ Fail(h) \/ Peek(h)

Spec == Init /\ [][Next]_vars
-----------------------------------------------------------------------------
(***************************************************************************)
(* Properties.                                                             *)
(***************************************************************************)

\* What a version admits since the watch was started.
Within(v) ==
    CASE v.algo \in Buckets ->
             taken * Second <= v.burst * Second + v.threshold * age
      [] v.algo = "fixed_window" ->
             LET W == FixedLength(v) IN
             taken <= v.threshold * (now \div W - (now - age) \div W + 1)
      [] v.algo = "sliding_window" ->
             LET W == SlidingLength(v) IN
             age <= W => taken * W < (v.threshold + 1) * W + v.threshold * age
      [] v.algo = "sliding_log" ->
             age < LogLength(v) => taken <= v.threshold

\* The quota holds through a change of the threshold, while instances decide by
\* different versions of it, and after any change, whatever the old versions left in
\* the key: no more is admitted than the most generous version in force admits.
\* While instances disagree on the algorithm, the burst or the window nothing is
\* promised: each resets, or lets expire, what the other counted.
QuotaHolds == SameShape(span) => \E v \in span : Within(v)

\* Once the change is complete, old traffic is held against a client for a while
\* only: a window or a log refuses only for requests admitted under the new version;
\* a bucket too, but for what a larger queue of an old version left in a leaky one.
Backlog(v) ==
    IF v.algo = "leaky_bucket"
    THEN (Max({w.burst : w \in history}) - v.burst) * Second
    ELSE 0
RefusedNow(v) ==
    ~WrongType(Stored, v.algo) /\ ~ScriptAdmits(v.algo, View(Stored, v.algo), now, v)
DenialEarned ==
    \A v \in history : span = {v} /\ RefusedNow(v) =>
        IF v.algo \in Buckets
        THEN taken * Second + Backlog(v) >
                 Smaller(v.burst * Second + Backlog(v), v.threshold * age) - Second
        ELSE now - age <= LastIgnored(v.algo, now, v) => taken >= v.threshold

\* A change between the sliding log and another algorithm makes the rule's requests
\* fail until the old key expires; as they fail without touching it, it does, and
\* the rule works no later than the longest time to live of a version that stores
\* values of that type, and so of one that was replaced.
ErrorsPass ==
    \A v \in history : span = {v} /\ WrongType(Stored, v.algo) =>
        \E w \in history : ~WrongType(Stored, w.algo) /\ age <= LongestLife(w.algo, w)

\* Once the change is complete, a leaky bucket releases what it admits in order
\* and at the new rate.  Requests admitted at a lower rate before may still be
\* released later than those: their delays were computed then.
ReleaseInOrder ==
    [][\A v \in history :
           span = {v} /\ v.algo = "leaky_bucket" /\ taken' = taken + 1 =>
               due' >= due + Second \div v.threshold]_vars
=============================================================================
