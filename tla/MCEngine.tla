------------------------------ MODULE MCEngine ------------------------------
(***************************************************************************)
(* Small instances of Engine: a rule with a level g that its clients share *)
(* and a level a of one client.  The requests of the other clients are the *)
(* single-key calls on g.                                                  *)
(***************************************************************************)
EXTENDS Engine, TLC

CONSTANTS g, a

MCCalls == {<<g, a>>}

Cfg(threshold, burst, window) ==
    [threshold |-> threshold, burst |-> burst, window |-> window]

\* g allows more, holds more and has the longer window.
MCQuota == [k \in Keys |-> IF k = g THEN Cfg(2, 3, 2) ELSE Cfg(1, 1, 1)]

NonceSymmetry == Permutations(Nonces)
=============================================================================
