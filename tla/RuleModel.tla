----------------------------- MODULE RuleModel -----------------------------
(***************************************************************************)
(* model/rule.go, and toModel of api/rules.go: which rules the gateway     *)
(* accepts.  A rule declares dimensions, in an order; has a quota for some *)
(* of four levels; and may restrict the values of its dimensions.          *)
(* A text is a sequence of symbols.                                        *)
(***************************************************************************)
EXTENDS Naturals, SequencesExt

Dimensions == {"client_id", "api_path", "group"}
LevelNames == {"global", "group", "api", "client"}
BucketAlgorithms == {"token_bucket", "leaky_bucket"}
WindowAlgorithms == {"fixed_window", "sliding_window", "sliding_log"}
Blank == <<>>

\* toModel: a level the gateway does not know is refused.
KnownLevels(p) == DOMAIN p.levels \subseteq LevelNames

DimensionsOK(p) == ToSet(p.dimensions) \subseteq Dimensions /\ IsInjective(p.dimensions)

LevelNumbersOK(p, lv) ==
    LET cfg == p.levels[lv] IN
    /\ cfg.threshold > 0
    /\ IF p.algorithm \in BucketAlgorithms THEN cfg.burst > 0 ELSE cfg.window > 0

\* Mutation: any level goes with any dimensions.
NoRequirement(p, lv) == TRUE

\* A level that counts the values of a dimension requires it to be declared.
Declared(p, lv) ==
    /\ lv = "group" => "group" \in ToSet(p.dimensions)
    /\ lv = "api" => "api_path" \in ToSet(p.dimensions)
    /\ lv = "client" => "client_id" \in ToSet(p.dimensions)

MatchersOK(p) ==
    \A d \in DOMAIN p.matchers :
        /\ d \in ToSet(p.dimensions)
        /\ p.matchers[d] # {} /\ Blank \notin p.matchers[d]

Validate(p) ==
    /\ p.name # Blank
    /\ p.algorithm \in BucketAlgorithms \cup WindowAlgorithms
    /\ DimensionsOK(p)
    /\ DOMAIN p.levels \cap LevelNames # {}
    /\ \A lv \in DOMAIN p.levels \cap LevelNames : LevelNumbersOK(p, lv) /\ Declared(p, lv)
    /\ MatchersOK(p)
=============================================================================
