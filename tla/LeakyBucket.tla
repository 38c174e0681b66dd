---------------------------- MODULE LeakyBucket ----------------------------
(***************************************************************************)
(* leaky_bucket.go and leaky_bucket_multi.go: a shaping queue of burst     *)
(* slots, drained at threshold requests per second.                        *)
(***************************************************************************)
EXTENDS RedisValue

\* The time in which lv water leaks out: the release delay of the last request.
LeakyDrainsIn(lv, cfg) == CeilDiv(lv, cfg.threshold)

LeakyHash(lv, now, cfg) ==
    [type |-> "hash", level |-> lv, last |-> now,
     expireAt |-> now + LeakyDrainsIn(lv, cfg) + Second]

\* The water at now: drained since the last update.
LeakyNow(v, now, cfg) ==
    LET drained == Larger(0, now - v.last) * cfg.threshold IN
    IF ~Exists(v) \/ drained >= v.level THEN 0 ELSE v.level - drained

LeakyFree(lv, cfg) == Larger(0, cfg.burst - CeilDiv(lv, Second))

\* A whole slot must be free.
LeakyHasSlot(lv, cfg) == lv <= (cfg.burst - 1) * Second

\* Mutation: the wait is rounded down.
LeakyWaitFloor(lv, cfg) ==
    Larger(0, lv - (cfg.burst - 1) * Second) \div cfg.threshold

\* The wait of a rejected request until a slot frees.
LeakyWait(lv, cfg) ==
    CeilDiv(Larger(0, lv - (cfg.burst - 1) * Second), cfg.threshold)

(***************************************************************************)
(* The multi-key script.                                                   *)
(***************************************************************************)
LeakyAdmits(v, now, cfg) == LeakyHasSlot(LeakyNow(v, now, cfg), cfg)

LeakyDeny(v, now, cfg) ==
    LET lv == LeakyNow(v, now, cfg) IN
    [value  |-> v,
     report |-> [remaining |-> LeakyFree(lv, cfg), reset |-> LeakyWait(lv, cfg)]]

\* Mutation: the release delay is that of the requests already queued.
LeakyTakeEarly(v, now, cfg) ==
    LET lv == LeakyNow(v, now, cfg) + Second IN
    [value  |-> LeakyHash(lv, now, cfg),
     report |-> [remaining |-> LeakyFree(lv, cfg),
                 reset     |-> LeakyDrainsIn(lv - Second, cfg)]]

LeakyTake(v, now, cfg) ==
    LET lv == LeakyNow(v, now, cfg) + Second IN
    [value  |-> LeakyHash(lv, now, cfg),
     report |-> [remaining |-> LeakyFree(lv, cfg),
                 reset     |-> LeakyDrainsIn(lv, cfg)]]

(***************************************************************************)
(* The single-key script.                                                  *)
(***************************************************************************)
LeakyEval(v, now, cfg, peek) ==
    LET found   == LeakyNow(v, now, cfg)
        allowed == LeakyHasSlot(found, cfg)
        lv      == IF allowed /\ ~peek THEN found + Second ELSE found
    IN  [allowed |-> allowed,
         value   |-> IF peek THEN v ELSE LeakyHash(lv, now, cfg),
         report  |-> [remaining |-> LeakyFree(lv, cfg),
                      reset     |-> IF allowed THEN LeakyDrainsIn(lv, cfg)
                                    ELSE LeakyWait(lv, cfg)]]
=============================================================================
