--------------------------- MODULE SlidingWindow ---------------------------
(***************************************************************************)
(* sliding_window.go and sliding_window_multi.go: the count of the current *)
(* window plus the previous one's, faded linearly.  The effective count is *)
(* kept multiplied by the window's length, so that it is an integer.       *)
(***************************************************************************)
EXTENDS RedisValue

SlidingLength(cfg) == cfg.window * Second
SlidingStart(now, cfg) == WindowStart(now, SlidingLength(cfg))
SlidingReset(now, cfg) == SlidingStart(now, cfg) + SlidingLength(cfg) - now

SlidingHash(n, now, cfg) ==
    [type |-> "hash", a |-> SlidingStart(now, cfg), ca |-> n.ca, cb |-> n.cb,
     expireAt |-> now + 2 * SlidingLength(cfg) + Second]

\* Mutation: the previous window is forgotten at the seam.
SlidingCountsFixed(v, now, cfg) ==
    IF Exists(v) /\ v.a = SlidingStart(now, cfg)
    THEN [ca |-> v.ca, cb |-> v.cb]
    ELSE [ca |-> 0, cb |-> 0]

\* The counts of the current (ca) and the previous (cb) window at now.
SlidingCounts(v, now, cfg) ==
    IF ~Exists(v) THEN [ca |-> 0, cb |-> 0]
    ELSE IF v.a = SlidingStart(now, cfg) - SlidingLength(cfg)
         THEN [ca |-> 0, cb |-> v.ca]
    ELSE IF v.a = SlidingStart(now, cfg)
         THEN [ca |-> v.ca, cb |-> v.cb]
    ELSE [ca |-> 0, cb |-> 0]

\* cb * weight + ca, times the window's length.
SlidingEffective(n, now, cfg) ==
    n.cb * Larger(0, SlidingReset(now, cfg)) + n.ca * SlidingLength(cfg)

\* Mutation: the previous window counts in full.
SlidingReportUnweighted(n, now, cfg) ==
    [remaining |-> Larger(0, cfg.threshold - n.ca - n.cb),
     reset     |-> SlidingReset(now, cfg)]

SlidingReport(n, now, cfg) ==
    [remaining |-> Larger(0, cfg.threshold
                       - CeilDiv(SlidingEffective(n, now, cfg), SlidingLength(cfg))),
     reset     |-> SlidingReset(now, cfg)]

(***************************************************************************)
(* The multi-key script.                                                   *)
(***************************************************************************)
SlidingAdmits(v, now, cfg) ==
    SlidingEffective(SlidingCounts(v, now, cfg), now, cfg)
        < cfg.threshold * SlidingLength(cfg)

SlidingDeny(v, now, cfg) ==
    [value  |-> v,
     report |-> SlidingReport(SlidingCounts(v, now, cfg), now, cfg)]

SlidingTake(v, now, cfg) ==
    LET n == [SlidingCounts(v, now, cfg) EXCEPT !.ca = @ + 1] IN
    [value |-> SlidingHash(n, now, cfg), report |-> SlidingReport(n, now, cfg)]

(***************************************************************************)
(* The single-key script.                                                  *)
(***************************************************************************)
SlidingEval(v, now, cfg, peek) ==
    LET found   == SlidingCounts(v, now, cfg)
        allowed == SlidingEffective(found, now, cfg)
                       < cfg.threshold * SlidingLength(cfg)
        n       == IF allowed /\ ~peek THEN [found EXCEPT !.ca = @ + 1] ELSE found
    IN  [allowed |-> allowed,
         value   |-> IF peek THEN v ELSE SlidingHash(n, now, cfg),
         report  |-> SlidingReport(n, now, cfg)]
=============================================================================
