----------------------------- MODULE StateView -----------------------------
(***************************************************************************)
(* api/state.go: scanActive lists the keys of a rule and reads each one    *)
(* raw, with HGETALL or ZCARD, not through the scripts: nothing is         *)
(* refilled, drained, rolled over or evicted first.  A key may vanish      *)
(* between the SCAN and the read.                                          *)
(***************************************************************************)
EXTENDS Scripts

\* interpretRemaining, and the case of the sliding log in scanActive: a field that
\* is missing counts as zero.
InterpretRemaining(alg, v, cfg) ==
    CASE alg = "token_bucket"   -> IF Exists(v) THEN v.tokens \div Second ELSE 0
      [] alg = "leaky_bucket"   -> cfg.burst - (IF Exists(v) THEN CeilDiv(v.level, Second)
                                                ELSE 0)
      [] alg = "fixed_window"   -> cfg.threshold - (IF Exists(v) THEN v.c ELSE 0)
      [] alg = "sliding_window" -> cfg.threshold - (IF Exists(v) THEN v.ca + v.cb ELSE 0)
      [] alg = "sliding_log"    -> cfg.threshold
                                       - (IF Exists(v) THEN Cardinality(v.entries) ELSE 0)
=============================================================================
