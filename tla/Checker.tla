------------------------------ MODULE Checker ------------------------------
(***************************************************************************)
(* quota/checker.go: Decide, run by many requests at once on any number of *)
(* gateway instances.  A request goes through the rules it matches in the  *)
(* order of their ids.  For each it calls TryMulti on the keys of the      *)
(* rule's levels, one step of Redis, and goes on to the next rule whatever *)
(* the answer.  A refusal is pushed to the rule's deny log at once; the    *)
(* counters of the curves are only written when all rules are done.        *)
(*                                                                         *)
(* Of the engine the model has what it promises (Ledger, which Engine      *)
(* implements).  Two observers: gained, the places time has given back;    *)
(* pushes, every event that was ever pushed to a rule's deny log.          *)
(***************************************************************************)
EXTENDS Naturals, Sequences, FiniteSets

CONSTANTS
    Requests,
    Rules,          \* numbers, in the order of the rules' ids
    Keys,
    Capacity,       \* the places of each key
    LevelKeys,      \* LevelKeys[q][r]: the keys of q's levels in rule r, in order
    Matched,        \* the sets of rules a request may match
    DenyLogLen,     \* denyLogLen
    MaxGain,        \* bound: the places each key gains
    MaxFailures     \* bound: replies and commands lost

Calls == {LevelKeys[q][r] : q \in Requests, r \in Rules}
KeysOf(q, r) == {LevelKeys[q][r][i] : i \in DOMAIN LevelKeys[q][r]}

ASSUME CheckerAssumption ==
    /\ IsFiniteSet(Requests) /\ Rules \subseteq Nat \ {0} /\ IsFiniteSet(Rules)
    /\ Capacity \in [Keys -> Nat]
    /\ LevelKeys \in [Requests -> [Rules -> Seq(Keys)]]
    /\ Matched \subseteq SUBSET Rules
    /\ DenyLogLen \in Nat \ {0} /\ MaxGain \in Nat /\ MaxFailures \in Nat

\* A key begins with the id of its rule.
ASSUME KeysApart ==
    \A q \in Requests, r, s \in Rules : r # s => KeysOf(q, r) \cap KeysOf(q, s) = {}

VARIABLES
    room, taken,    \* the ledger's
    gained,
    req,            \* the state of each call of Decide
    counts,         \* the allow and deny counters of each rule
    denyLog,        \* the deny log of each rule, newest first
    pushes,         \* newest first, too
    failures
vars == <<room, taken, gained, req, counts, denyLog, pushes, failures>>

Engine == INSTANCE Ledger

Init ==
    /\ room = Capacity
    /\ taken = [k \in Keys |-> 0]
    /\ gained = [k \in Keys |-> 0]
    /\ req = [q \in Requests |-> [pc |-> "new"]]
    /\ counts = [r \in Rules |-> [allow |-> 0, deny |-> 0]]
    /\ denyLog = [r \in Rules |-> <<>>]
    /\ pushes = [r \in Rules |-> <<>>]
    /\ failures = 0

\* Time gives back a place of k.
Gain(k) ==
    /\ room[k] < Capacity[k] /\ gained[k] < MaxGain
    /\ room' = [room EXCEPT ![k] = @ + 1]
    /\ gained' = [gained EXCEPT ![k] = @ + 1]
    /\ UNCHANGED <<taken, req, counts, denyLog, pushes, failures>>

-----------------------------------------------------------------------------
(***************************************************************************)
(* Decide.                                                                 *)
(***************************************************************************)

\* List, and the rules of the list that are enabled and match.
Begin(q, M) ==
    /\ req[q].pc = "new"
    /\ req' = [req EXCEPT ![q] = [pc |-> "deciding", todo |-> M, granted |-> {},
                                  refused |-> {}, unlogged |-> {}]]
    /\ UNCHANGED <<room, taken, gained, counts, denyLog, pushes, failures>>

\* The rule q is at: the first of those it has not yet evaluated.
At(q, r) ==
    /\ req[q].pc = "deciding"
    /\ r \in req[q].todo /\ \A s \in req[q].todo : r <= s

HasRoom(q, r) == Engine!HasPlace(KeysOf(q, r))

\* Mutation: only the first level is asked.
GrantFirstLevel(q, r) ==
    /\ At(q, r)
    /\ Engine!Pay({LevelKeys[q][r][1]})
    /\ req' = [req EXCEPT ![q].todo = @ \ {r}, ![q].granted = @ \cup {r}]
    /\ UNCHANGED <<gained, counts, denyLog, pushes, failures>>

\* Every level of r admits q and is charged.
Grant(q, r) ==
    /\ At(q, r)
    /\ Engine!Pay(KeysOf(q, r))
    /\ req' = [req EXCEPT ![q].todo = @ \ {r}, ![q].granted = @ \cup {r}]
    /\ UNCHANGED <<gained, counts, denyLog, pushes, failures>>

\* Mutation: the levels of r that had room are charged.
RefuseCharging(q, r) ==
    LET charged == {k \in KeysOf(q, r) : room[k] > 0} IN
    /\ At(q, r) /\ ~HasRoom(q, r)
    /\ Engine!Pay(charged)
    /\ req' = [req EXCEPT ![q].todo = @ \ {r}, ![q].refused = @ \cup {r},
                          ![q].pc = "pushing"]
    /\ UNCHANGED <<gained, counts, denyLog, pushes, failures>>

\* Some level of r refuses q and none is charged; the deny event is next.
Refuse(q, r) ==
    /\ At(q, r) /\ ~HasRoom(q, r)
    /\ req' = [req EXCEPT ![q].todo = @ \ {r}, ![q].refused = @ \cup {r},
                          ![q].pc = "pushing"]
    /\ UNCHANGED <<room, taken, gained, counts, denyLog, pushes, failures>>

\* The rule whose deny event is to be pushed: the last one refused.
Pushing(q, r) ==
    /\ req[q].pc = "pushing"
    /\ r \in req[q].refused /\ \A s \in req[q].refused : s <= r

\* Mutation: the oldest events are kept.
LongestOldest(s) ==
    IF Len(s) > DenyLogLen THEN SubSeq(s, Len(s) - DenyLogLen + 1, Len(s)) ELSE s

\* What LTRIM leaves: the newest events.
Longest(s) == IF Len(s) > DenyLogLen THEN SubSeq(s, 1, DenyLogLen) ELSE s

\* Mutation: the log is not trimmed.
PushUntrimmed(q, r) ==
    /\ Pushing(q, r)
    /\ denyLog' = [denyLog EXCEPT ![r] = <<q>> \o @]
    /\ pushes' = [pushes EXCEPT ![r] = <<q>> \o @]
    /\ req' = [req EXCEPT ![q].pc = "deciding"]
    /\ UNCHANGED <<room, taken, gained, counts, failures>>

\* PushDeny: LPUSH and LTRIM.
Push(q, r) ==
    /\ Pushing(q, r)
    /\ denyLog' = [denyLog EXCEPT ![r] = Longest(<<q>> \o @)]
    /\ pushes' = [pushes EXCEPT ![r] = <<q>> \o @]
    /\ req' = [req EXCEPT ![q].pc = "deciding"]
    /\ UNCHANGED <<room, taken, gained, counts, failures>>

\* Mutation: every tick is the verdict's.
TickedByVerdict(q, r) ==
    [allow |-> IF req[q].refused = {} /\ r \in req[q].granted THEN 1 ELSE 0,
     deny  |-> IF req[q].refused # {} /\ r \in req[q].granted \cup req[q].refused
               THEN 1 ELSE 0]

\* What Tick has put in the pipeline for r.
Ticked(q, r) ==
    [allow |-> IF r \in req[q].granted THEN 1 ELSE 0,
     deny  |-> IF r \in req[q].refused THEN 1 ELSE 0]

\* The ticks of the rules R reach the counters.
CountTicks(q, R) ==
    counts' = [r \in Rules |->
                  IF r \in R
                  THEN [allow |-> counts[r].allow + Ticked(q, r).allow,
                        deny  |-> counts[r].deny + Ticked(q, r).deny]
                  ELSE counts[r]]

\* The pipeline is executed and the verdict returned.
Answer(q) ==
    /\ req[q].pc = "deciding" /\ req[q].todo = {}
    /\ CountTicks(q, Rules)
    /\ req' = [req EXCEPT ![q].pc = "answered"]
    /\ UNCHANGED <<room, taken, gained, denyLog, pushes, failures>>

-----------------------------------------------------------------------------
(***************************************************************************)
(* Failures.                                                               *)
(***************************************************************************)
Failure == failures < MaxFailures /\ failures' = failures + 1

\* The reply of a script that granted is lost, and the client library sends the
\* script again.
SendAgain(q, r) ==
    /\ Failure
    /\ At(q, r)
    /\ Engine!Pay(KeysOf(q, r))
    /\ UNCHANGED <<gained, req, counts, denyLog, pushes>>

\* Mutation: a rule that cannot be evaluated is skipped.
EvalFailsOpen(q, r) ==
    /\ Failure
    /\ At(q, r)
    /\ req' = [req EXCEPT ![q].todo = @ \ {r}]
    /\ UNCHANGED <<room, taken, gained, counts, denyLog, pushes>>

\* TryMulti returns an error, before or after the script was executed, and Decide
\* does: the ticks of the rules already evaluated are dropped, what these rules took
\* stays taken.
EvalFails(q, r) ==
    /\ Failure
    /\ At(q, r)
    /\ Engine!Pay(KeysOf(q, r)) \/ UNCHANGED <<room, taken>>
    /\ req' = [req EXCEPT ![q].pc = "failed"]
    /\ UNCHANGED <<gained, counts, denyLog, pushes>>

\* The reply of a push is lost, and the client library sends the push again.
PushAgain(q, r) ==
    /\ Failure
    /\ Pushing(q, r)
    /\ denyLog' = [denyLog EXCEPT ![r] = Longest(<<q>> \o @)]
    /\ pushes' = [pushes EXCEPT ![r] = <<q>> \o @]
    /\ UNCHANGED <<room, taken, gained, req, counts>>

\* Decide does not look at the error of PushDeny.
PushFails(q, r) ==
    /\ Failure
    /\ Pushing(q, r)
    /\ req' = [req EXCEPT ![q].pc = "deciding", ![q].unlogged = @ \cup {r}]
    /\ UNCHANGED <<room, taken, gained, counts, denyLog, pushes>>

\* The pipeline breaks before the ticks of any rule, or after those of some first
\* rules, of which last is the last: the client library sends all of it again, or
\* Decide returns an error.
PipelineBreaks(q, last) ==
    /\ Failure
    /\ req[q].pc = "deciding" /\ req[q].todo = {}
    /\ CountTicks(q, {r \in Rules : r <= last})
    /\ UNCHANGED <<room, taken, gained, denyLog, pushes>>

AnswerAgain(q, last) == PipelineBreaks(q, last) /\ UNCHANGED req
AnswerFails(q, last) ==
    /\ PipelineBreaks(q, last)
    /\ req' = [req EXCEPT ![q].pc = "failed"]

-----------------------------------------------------------------------------
Decide(q) ==
    \/ \E M \in Matched : Begin(q, M)
    \/ \E r \in Rules : Grant(q, r) \/ Refuse(q, r) \/ Push(q, r)
    \/ Answer(q)
    \/ \E r \in Rules : \/ SendAgain(q, r) \/ EvalFails(q, r)
                        \/ PushAgain(q, r) \/ PushFails(q, r)
    \/ \E last \in Rules \cup {0} : AnswerAgain(q, last) \/ AnswerFails(q, last)

Next ==
    \/ \E q \in Requests : Decide(q)
    \/ \E k \in Keys : Gain(k)

Spec == Init /\ [][Next]_vars
-----------------------------------------------------------------------------
(***************************************************************************)
(* Properties.                                                             *)
(***************************************************************************)
Begun == {q \in Requests : req[q].pc # "new"}
Answered == {q \in Requests : req[q].pc = "answered"}
Admitted == {q \in Answered : req[q].refused = {}}

Progress ==
    [pc : {"deciding", "pushing", "answered", "failed"}, todo : SUBSET Rules,
     granted : SUBSET Rules, refused : SUBSET Rules, unlogged : SUBSET Rules]

\* Every request is at one place of Decide, each rule in at most one of its sets;
\* a key never has more room than its capacity, and its account balances.
TypeOK ==
    /\ room \in [Keys -> Nat] /\ taken \in [Keys -> Nat] /\ gained \in [Keys -> 0 .. MaxGain]
    /\ \A k \in Keys : /\ room[k] <= Capacity[k]
                       /\ room[k] + taken[k] = Capacity[k] + gained[k]
    /\ req \in [Requests -> Progress \cup {[pc |-> "new"]}]
    /\ \A q \in Begun :
           /\ req[q].granted \cap req[q].refused = {}
           /\ req[q].todo \cap (req[q].granted \cup req[q].refused) = {}
           /\ req[q].unlogged \subseteq req[q].refused
    /\ counts \in [Rules -> [allow : Nat, deny : Nat]]
    /\ denyLog \in [Rules -> Seq(Requests)] /\ \A r \in Rules : Len(denyLog[r]) <= DenyLogLen
    /\ pushes \in [Rules -> Seq(Requests)]
    /\ failures \in 0 .. MaxFailures

\* However many requests are decided at once, by however many instances: a key
\* lets through no more requests than it had places and gained.
NoOverAdmission ==
    \A k \in Keys :
        Cardinality({q \in Admitted : \E r \in req[q].granted : k \in KeysOf(q, r)})
            <= Capacity[k] + gained[k]

\* Decide fails closed: an answer takes every rule the request matched into account,
\* also when Redis failed on the way.
FailClosed == \A q \in Answered : req[q].granted \cup req[q].refused \in Matched

\* The curves of a rule show its own decisions: those of every request that was
\* answered, and none that was not made, but for a pipeline that was sent twice.
Decided(r, Q) ==
    [allow |-> Cardinality({q \in Q : r \in req[q].granted}),
     deny  |-> Cardinality({q \in Q : r \in req[q].refused})]
CurvesHonest ==
    \A r \in Rules :
        /\ counts[r].allow \in Decided(r, Answered).allow
                                   .. Decided(r, Begun).allow + failures
        /\ counts[r].deny \in Decided(r, Answered).deny
                                   .. Decided(r, Begun).deny + failures

\* A request that was answered 429 is in the deny log of every rule that refused
\* it, unless its push failed, or as many as the log holds were pushed after it.
PushesOf(q, r) == {n \in DOMAIN pushes[r] : pushes[r][n] = q}
RefusalsLogged ==
    \A q \in Answered : \A r \in req[q].refused \ req[q].unlogged :
        \/ \E n \in DOMAIN denyLog[r] : denyLog[r][n] = q
        \/ PushesOf(q, r) # {} /\ \A n \in PushesOf(q, r) : n > DenyLogLen

\* A rule wastes no place on a request it turns away: whoever was refused by a rule
\* found a key all of whose places had gone to requests it granted, or to a script
\* whose reply was lost.
Granted(k) == {q \in Begun : \E r \in req[q].granted : k \in KeysOf(q, r)}
RefusalsEarned ==
    \A q \in Begun : \A r \in req[q].refused :
        \E k \in KeysOf(q, r) : Cardinality(Granted(k)) + failures >= Capacity[k]

\* "Consumed tokens stay consumed only on success" (checker.go:69).
DeniedPaysNothing ==
    \A q \in Answered : req[q].refused # {} => req[q].granted = {}
=============================================================================
