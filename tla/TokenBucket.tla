---------------------------- MODULE TokenBucket ----------------------------
(***************************************************************************)
(* token_bucket.go and token_bucket_multi.go.  cfg is one level of a rule: *)
(* threshold tokens per second, at most burst of them.                     *)
(***************************************************************************)
EXTENDS RedisValue

TokenFull(cfg) == cfg.burst * Second

\* The time from tk tokens to a full bucket.
TokenFullIn(tk, cfg) == CeilDiv(TokenFull(cfg) - tk, cfg.threshold)

\* Mutation: the hash lives for a second, however empty the bucket is.
TokenHashShortLived(tk, now, cfg) ==
    [type |-> "hash", tokens |-> tk, last |-> now, expireAt |-> now + Second]

TokenHash(tk, now, cfg) ==
    [type |-> "hash", tokens |-> tk, last |-> now,
     expireAt |-> now + TokenFullIn(tk, cfg) + Second]

\* Mutation: an idle bucket is not capped.
TokenNowUncapped(v, now, cfg) ==
    IF Exists(v) THEN v.tokens + Larger(0, now - v.last) * cfg.threshold
    ELSE TokenFull(cfg)

\* The tokens at now: refilled since the last update, capped.
TokenNow(v, now, cfg) ==
    IF Exists(v)
    THEN Smaller(TokenFull(cfg), v.tokens + Larger(0, now - v.last) * cfg.threshold)
    ELSE TokenFull(cfg)

(***************************************************************************)
(* The multi-key script: what each key contributes to its two passes.      *)
(***************************************************************************)
TokenAdmits(v, now, cfg) == TokenNow(v, now, cfg) >= Second

\* Mutation: a token that is not whole is reported.
TokenReportCeil(tk, cfg) ==
    [remaining |-> CeilDiv(tk, Second), reset |-> TokenFullIn(tk, cfg)]

TokenReport(tk, cfg) ==
    [remaining |-> tk \div Second,
     reset     |-> IF tk < TokenFull(cfg) THEN TokenFullIn(tk, cfg) ELSE 0]

TokenDeny(v, now, cfg) ==
    [value |-> v, report |-> TokenReport(TokenNow(v, now, cfg), cfg)]

\* Mutation: what refilled is not written back, only the time is.
TokenTakeNoRefill(v, now, cfg) ==
    LET tk == Larger(0, (IF Exists(v) THEN v.tokens ELSE TokenFull(cfg)) - Second)
    IN  [value |-> TokenHash(tk, now, cfg), report |-> TokenReport(tk, cfg)]

\* Mutation: the time of the refill is not written back.
TokenTakeKeepsLast(v, now, cfg) ==
    LET tk == TokenNow(v, now, cfg) - Second IN
    [value  |-> TokenHash(tk, IF Exists(v) THEN v.last ELSE now, cfg),
     report |-> TokenReport(tk, cfg)]

TokenTake(v, now, cfg) ==
    LET tk == TokenNow(v, now, cfg) - Second IN
    [value |-> TokenHash(tk, now, cfg), report |-> TokenReport(tk, cfg)]

(***************************************************************************)
(* The single-key script, which can also only look (peek).                 *)
(***************************************************************************)
TokenEval(v, now, cfg, peek) ==
    LET found   == TokenNow(v, now, cfg)
        allowed == found >= Second
        tk      == IF allowed /\ ~peek THEN found - Second ELSE found
    IN  [allowed |-> allowed,
         value   |-> IF peek THEN v ELSE TokenHash(tk, now, cfg),
         report  |-> TokenReport(tk, cfg)]
=============================================================================
