----------------------------- MODULE SlidingLog -----------------------------
(***************************************************************************)
(* sliding_log.go and sliding_log_multi.go: a sorted set with one entry    *)
(* per admitted request, its member a nonce and its score the time of the  *)
(* request.  Eviction is part of every call, a peek and a denied one too.  *)
(***************************************************************************)
EXTENDS RedisValue, FiniteSets

LogLength(cfg) == cfg.window * Second

\* ZREMRANGEBYSCORE -inf .. now - window removes the entries at the cutoff too.
LogKept(v, now, cfg) ==
    IF Exists(v) THEN {e \in v.entries : e.at > now - LogLength(cfg)} ELSE {}

\* Redis deletes a sorted set that becomes empty.
LogEvicted(v, now, cfg) ==
    IF LogKept(v, now, cfg) = {} THEN Absent
    ELSE [v EXCEPT !.entries = LogKept(v, now, cfg)]

\* Mutation: the log lives for a second, however long the window is.
LogAddedShortLived(v, now, cfg, id) ==
    [type     |-> "zset",
     entries  |-> LogKept(v, now, cfg) \cup {[at |-> now, id |-> id]},
     expireAt |-> now + Second]

\* ZADD moves a member that is already there; PEXPIRE restarts the time to live.
LogAdded(v, now, cfg, id) ==
    [type     |-> "zset",
     entries  |-> {e \in LogKept(v, now, cfg) : e.id # id}
                      \cup {[at |-> now, id |-> id]},
     expireAt |-> now + LogLength(cfg) + Second]

\* Mutation: the newest entry instead of the oldest.
LogNewestLeavesIn(kept, now, cfg) ==
    IF kept = {} THEN 0
    ELSE LET newest == CHOOSE e \in kept : \A f \in kept : e.at >= f.at
         IN  Larger(0, newest.at + LogLength(cfg) - now)

\* The time until the oldest entry leaves the window, 0 if there is none.
LogOldestLeavesIn(kept, now, cfg) ==
    IF kept = {} THEN 0
    ELSE LET oldest == CHOOSE e \in kept : \A f \in kept : e.at <= f.at
         IN  Larger(0, oldest.at + LogLength(cfg) - now)

(***************************************************************************)
(* The multi-key script.                                                   *)
(***************************************************************************)
LogAdmits(v, now, cfg) == Cardinality(LogKept(v, now, cfg)) < cfg.threshold

LogDeny(v, now, cfg) ==
    LET kept == LogKept(v, now, cfg) IN
    [value  |-> LogEvicted(v, now, cfg),
     report |-> [remaining |-> Larger(0, cfg.threshold - Cardinality(kept)),
                 reset     |-> LogOldestLeavesIn(kept, now, cfg)]]

LogTake(v, now, cfg, id) ==
    [value  |-> LogAdded(v, now, cfg, id),
     report |-> [remaining |-> Larger(0, cfg.threshold - 1
                                   - Cardinality(LogKept(v, now, cfg))),
                 reset     |-> LogLength(cfg)]]

(***************************************************************************)
(* The single-key script: its remaining does not count the entry it adds,  *)
(* and every call but a peek restarts the time to live.                    *)
(***************************************************************************)
LogEval(v, now, cfg, peek, id) ==
    LET kept    == LogKept(v, now, cfg)
        allowed == Cardinality(kept) < cfg.threshold
        adds    == allowed /\ ~peek
        left    == LogEvicted(v, now, cfg)
        value   == IF adds THEN LogAdded(v, now, cfg, id)
                   ELSE IF peek \/ ~Exists(left) THEN left
                   ELSE [left EXCEPT !.expireAt = now + LogLength(cfg) + Second]
    IN  [allowed |-> allowed,
         value   |-> value,
         report  |-> [remaining |-> Larger(0, cfg.threshold - Cardinality(kept)),
                      reset     |-> LogOldestLeavesIn(LogKept(value, now, cfg), now, cfg)]]
=============================================================================
