---------------------------- MODULE MCHotChange ----------------------------
(***************************************************************************)
(* Small instances of HotChange: rules that change their threshold, their  *)
(* burst, their window, or their algorithm.                                *)
(***************************************************************************)
EXTENDS HotChange, TLC

Version(algo, threshold, burst, window) ==
    [algo |-> algo, threshold |-> threshold, burst |-> burst, window |-> window]

Token  == Version("token_bucket", 1, 3, 1)
Leaky  == Version("leaky_bucket", 1, 3, 1)
Fixed  == Version("fixed_window", 1, 1, 1)
Slide  == Version("sliding_window", 1, 1, 1)
Log    == Version("sliding_log", 1, 1, 1)

MCHistories ==
    {{v, [v EXCEPT !.threshold = 2]} : v \in {Token, Leaky, Fixed, Slide, Log}}
    \cup {{v, [v EXCEPT !.burst = 1]} : v \in {Token, Leaky}}
    \cup {{v, [v EXCEPT !.window = 2]} : v \in {Fixed, Slide, Log}}
    \cup {{Token, Leaky}, {Token, Log}, {Fixed, Slide}, {Leaky, Fixed}, {Slide, Log}}

HotChangeSymmetry == Permutations(Holders) \cup Permutations(Nonces)
=============================================================================
