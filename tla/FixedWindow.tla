---------------------------- MODULE FixedWindow ----------------------------
(***************************************************************************)
(* fixed_window.go and fixed_window_multi.go: threshold requests in every  *)
(* aligned window of cfg.window seconds.                                   *)
(***************************************************************************)
EXTENDS RedisValue

FixedLength(cfg) == cfg.window * Second

\* Mutation: the window starts at the request.
FixedHashUnaligned(c, now, cfg) ==
    [type |-> "hash", w |-> now, c |-> c,
     expireAt |-> now + FixedLength(cfg) + Second]

FixedHash(c, now, cfg) ==
    [type |-> "hash", w |-> WindowStart(now, FixedLength(cfg)), c |-> c,
     expireAt |-> now + FixedLength(cfg) + Second]

\* The count of the current window; another window's count is forgotten.
FixedCount(v, now, cfg) ==
    IF Exists(v) /\ v.w = WindowStart(now, FixedLength(cfg)) THEN v.c ELSE 0

FixedReset(now, cfg) ==
    WindowStart(now, FixedLength(cfg)) + FixedLength(cfg) - now

(***************************************************************************)
(* The multi-key script.                                                   *)
(***************************************************************************)
FixedAdmits(v, now, cfg) == FixedCount(v, now, cfg) < cfg.threshold

FixedDeny(v, now, cfg) ==
    [value  |-> v,
     report |-> [remaining |-> Larger(0, cfg.threshold - FixedCount(v, now, cfg)),
                 reset     |-> FixedReset(now, cfg)]]

FixedTake(v, now, cfg) ==
    LET c == FixedCount(v, now, cfg) + 1 IN
    [value  |-> FixedHash(c, now, cfg),
     report |-> [remaining |-> cfg.threshold - c, reset |-> FixedReset(now, cfg)]]

(***************************************************************************)
(* The single-key script.  Its remaining is not clamped at zero.           *)
(***************************************************************************)
FixedEval(v, now, cfg, peek) ==
    LET found   == FixedCount(v, now, cfg)
        allowed == found < cfg.threshold
        c       == IF allowed /\ ~peek THEN found + 1 ELSE found
    IN  [allowed |-> allowed,
         value   |-> IF peek THEN v ELSE FixedHash(c, now, cfg),
         report  |-> [remaining |-> cfg.threshold - c,
                      reset     |-> FixedReset(now, cfg)]]
=============================================================================
