------------------------------ MODULE Scripts ------------------------------
(***************************************************************************)
(* multiScripts and Manager.engines: the algorithm of a rule chooses the   *)
(* script.  Each script is given as what it does to one key that holds v,  *)
(* at the time t, for a level with the quota cfg.                          *)
(***************************************************************************)
EXTENDS TokenBucket, LeakyBucket, FixedWindow, SlidingWindow, SlidingLog

Buckets == {"token_bucket", "leaky_bucket"}
Algorithms == {"token_bucket", "leaky_bucket", "fixed_window",
               "sliding_window", "sliding_log"}

\* What Rule.Validate accepts of a level.
Level == [threshold : Nat \ {0}, burst : Nat \ {0}, window : Nat \ {0}]

\* The multi-key script, first pass: the key has room.
ScriptAdmits(alg, v, t, cfg) ==
    CASE alg = "token_bucket"   -> TokenAdmits(v, t, cfg)
      [] alg = "leaky_bucket"   -> LeakyAdmits(v, t, cfg)
      [] alg = "fixed_window"   -> FixedAdmits(v, t, cfg)
      [] alg = "sliding_window" -> SlidingAdmits(v, t, cfg)
      [] alg = "sliding_log"    -> LogAdmits(v, t, cfg)

\* The multi-key script when some key denies.
ScriptDeny(alg, v, t, cfg) ==
    CASE alg = "token_bucket"   -> TokenDeny(v, t, cfg)
      [] alg = "leaky_bucket"   -> LeakyDeny(v, t, cfg)
      [] alg = "fixed_window"   -> FixedDeny(v, t, cfg)
      [] alg = "sliding_window" -> SlidingDeny(v, t, cfg)
      [] alg = "sliding_log"    -> LogDeny(v, t, cfg)

\* The multi-key script when every key admits: its second pass.
ScriptTake(alg, v, t, cfg, id) ==
    CASE alg = "token_bucket"   -> TokenTake(v, t, cfg)
      [] alg = "leaky_bucket"   -> LeakyTake(v, t, cfg)
      [] alg = "fixed_window"   -> FixedTake(v, t, cfg)
      [] alg = "sliding_window" -> SlidingTake(v, t, cfg)
      [] alg = "sliding_log"    -> LogTake(v, t, cfg, id)

\* The single-key script.
ScriptEval(alg, v, t, cfg, peek, id) ==
    CASE alg = "token_bucket"   -> TokenEval(v, t, cfg, peek)
      [] alg = "leaky_bucket"   -> LeakyEval(v, t, cfg, peek)
      [] alg = "fixed_window"   -> FixedEval(v, t, cfg, peek)
      [] alg = "sliding_window" -> SlidingEval(v, t, cfg, peek)
      [] alg = "sliding_log"    -> LogEval(v, t, cfg, peek, id)

\* The members of a sorted set: a nonce and the index of the level each.
Members(v) == IF v.type = "zset" THEN {e.id : e \in v.entries} ELSE {}

\* The time to live a script gives the key it writes to, at most.
LongestLife(alg, cfg) ==
    CASE alg \in Buckets         -> CeilDiv(TokenFull(cfg), cfg.threshold) + Second
      [] alg = "fixed_window"   -> FixedLength(cfg) + Second
      [] alg = "sliding_window" -> 2 * SlidingLength(cfg) + Second
      [] alg = "sliding_log"    -> LogLength(cfg) + Second

\* Windows and logs: the last instant a decision at t ignores.
LastIgnored(alg, t, cfg) ==
    CASE alg = "fixed_window"   -> WindowStart(t, FixedLength(cfg)) - 1
      [] alg = "sliding_window" -> SlidingStart(t, cfg) - SlidingLength(cfg) - 1
      [] alg = "sliding_log"    -> t - LogLength(cfg)
=============================================================================
