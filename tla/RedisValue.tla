----------------------------- MODULE RedisValue -----------------------------
(***************************************************************************)
(* What the rate-limiting scripts rely on in Redis, and the integer        *)
(* arithmetic of their formulas.                                           *)
(*                                                                         *)
(* Time is counted in units of which Second make one second (1000 in the   *)
(* code, which counts milliseconds).  A bucket's tokens, which are         *)
(* fractional in the scripts, are counted in 1/Second of a token, so that  *)
(* "delta * rate / 1000.0" is the integer delta * rate.                    *)
(*                                                                         *)
(* A key holds no value, a hash or a sorted set; the last two carry the    *)
(* time after which PEXPIRE makes the key vanish.                          *)
(***************************************************************************)
EXTENDS Integers

CONSTANT Second

Larger(a, b)  == IF a >= b THEN a ELSE b
Smaller(a, b) == IF a <= b THEN a ELSE b

\* math.ceil(a / b) for a positive b.
CeilDiv(a, b) == -((-a) \div b)

\* The start of the window of length win that holds now.
WindowStart(now, win) == (now \div win) * win

\* A key that does not exist.
Absent == [type |-> "none"]

Exists(v) == v.type # "none"

\* A key lives through the last unit of its time to live.
Expired(v, now) == Exists(v) /\ now > v.expireAt

\* The value a command executed at now finds in a key that holds v.
Visible(v, now) == IF Expired(v, now) THEN Absent ELSE v
=============================================================================
