------------------------------ MODULE Matcher ------------------------------
(***************************************************************************)
(* matcher/matcher.go: which requests a rule applies to, and the keys      *)
(* their quotas are counted under.  The rule may be replaced between two   *)
(* requests, and keeps its id, so that the keys written under the old      *)
(* version are still there.                                                *)
(*                                                                         *)
(* charges is an observer: for every level that was charged, the key it    *)
(* was counted under and what the level is meant to count, the values of   *)
(* some dimensions.                                                        *)
(***************************************************************************)
EXTENDS RuleModel, FiniteSets

CONSTANTS
    Payloads,       \* the rules that may be submitted
    Contexts,       \* the requests: a text for each dimension
    MaxVersions,    \* bound: rules accepted one after the other
    MaxServed       \* bound: requests served

\* A text is a sequence of symbols.
ASSUME MatcherAssumption ==
    /\ \A p \in Payloads : p.enabled \in BOOLEAN /\ p.dimensions \in Seq(STRING)
    /\ Contexts \subseteq [Dimensions -> Seq(STRING)]
    /\ MaxVersions \in Nat /\ MaxServed \in Nat

NoRule == "no rule"

VARIABLES rule, version, served, charges
vars == <<rule, version, served, charges>>

-----------------------------------------------------------------------------
\* Every dimension the rule declares has a value, and one it allows.
Matches(r, q) ==
    \A d \in ToSet(r.dimensions) :
        /\ q[d] # Blank
        /\ d \in DOMAIN r.matchers => q[d] \in r.matchers[d]

ShortDim(d) == CASE d = "client_id" -> "c" [] d = "api_path" -> "a" [] d = "group" -> "g"

Pair(d, q) == <<ShortDim(d), "=">> \o q[d]

\* The declared dimensions in their order, joined by a bar.
Combination(r, q) ==
    FlattenSeq([i \in DOMAIN r.dimensions |->
                   (IF i = 1 THEN <<>> ELSE <<"|">>) \o Pair(r.dimensions[i], q)])

\* Mutation: a client is one client whatever else the rule is keyed on.
KeyOfClientOnly(r, lv, q) ==
    <<lv, ":">> \o CASE lv = "global" -> <<"_">>
                     [] lv = "group"  -> Pair("group", q)
                     [] lv = "api"    -> Pair("api_path", q)
                     [] lv = "client" -> Pair("client_id", q)

\* Mutation: an API's quota is counted for each combination.
KeyOfCombination(r, lv, q) ==
    <<lv, ":">> \o CASE lv = "global" -> <<"_">>
                     [] lv = "group"  -> Pair("group", q)
                     [] lv \in {"api", "client"} -> Combination(r, q)

\* The part of the key after the rule's id, which no other rule has.
Key(r, lv, q) ==
    <<lv, ":">> \o CASE lv = "global" -> <<"_">>
                     [] lv = "group"  -> Pair("group", q)
                     [] lv = "api"    -> Pair("api_path", q)
                     [] lv = "client" -> IF r.dimensions = <<>> THEN Pair("client_id", q)
                                         ELSE Combination(r, q)

\* A request without a path is one for "/".
Normal(q) == [q EXCEPT !["api_path"] = IF @ = Blank THEN <<"/">> ELSE @]

-----------------------------------------------------------------------------
\* What a level counts (the comment of Key).
CountedDims(r, lv) ==
    CASE lv = "global" -> {}
      [] lv = "group"  -> {"group"}
      [] lv = "api"    -> {"api_path"}
      [] lv = "client" -> ToSet(r.dimensions) \cup {"client_id"}
Charge(r, lv, q) ==
    [version |-> version, level |-> lv, key |-> Key(r, lv, q),
     values |-> [d \in CountedDims(r, lv) |-> q[d]]]

Init == rule = NoRule /\ version = 0 /\ served = 0 /\ charges = {}

\* createRule, updateRule: a rule that is refused changes nothing.
Submit(p) ==
    /\ version < MaxVersions
    /\ KnownLevels(p) /\ Validate(p)
    /\ rule' = p
    /\ version' = version + 1
    /\ UNCHANGED <<served, charges>>

\* gatewayCheck, and of Decide the keys of one rule, if it is enabled.
Serve(q) ==
    /\ served < MaxServed
    /\ version > 0 /\ rule.enabled /\ Matches(rule, Normal(q))
    /\ served' = served + 1
    /\ charges' = charges \cup {Charge(rule, lv, Normal(q)) : lv \in DOMAIN rule.levels}
    /\ UNCHANGED <<rule, version>>

Next == (\E p \in Payloads : Submit(p)) \/ (\E q \in Contexts : Serve(q))

Spec == Init /\ [][Next]_vars
-----------------------------------------------------------------------------
(***************************************************************************)
(* Properties.                                                             *)
(***************************************************************************)

\* What Validate accepts and Matches lets through can be attributed: no quota is
\* counted for a value the request does not have (rule.go:114-115).
Attributable ==
    \A c \in charges : \A d \in DOMAIN c.values : c.values[d] # Blank

\* "Different dimension values always get different keys" (matcher.go:2), so that
\* no client consumes the quota of another; not after the rule was changed either.
CountsApart ==
    \A c, d \in charges : c.key = d.key => c.level = d.level /\ c.values = d.values

\* What a level counts together is counted under one key, and so limited by one
\* quota.
CountsTogether ==
    \A c, d \in charges :
        (c.version = d.version /\ c.level = d.level /\ c.values = d.values) => c.key = d.key
=============================================================================
