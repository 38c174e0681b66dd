------------------------------- MODULE Ledger -------------------------------
(***************************************************************************)
(* What the engine promises its caller, whatever the algorithm: every key  *)
(* has room for so many more requests, a call is granted exactly by taking *)
(* one place from each of its keys in a single step, and nothing but time  *)
(* gives places back.  A call that is refused costs nothing, so that it is *)
(* no step at all.                                                         *)
(***************************************************************************)
EXTENDS Naturals, Sequences

CONSTANTS
    Keys,
    Calls       \* the keys of a request to one rule

VARIABLES
    room,       \* the requests each key would still admit in a row
    taken       \* the requests each key has admitted
vars == <<room, taken>>

Init ==
    /\ room \in [Keys -> Nat]
    /\ taken = [k \in Keys |-> 0]

HasPlace(K) == \A k \in K : room[k] > 0

Pay(K) ==
    /\ HasPlace(K)
    /\ room' = [k \in Keys |-> IF k \in K THEN room[k] - 1 ELSE room[k]]
    /\ taken' = [k \in Keys |-> IF k \in K THEN taken[k] + 1 ELSE taken[k]]

\* Time gives back any number of places.
Free ==
    /\ DOMAIN room' = Keys
    /\ \A k \in Keys : room'[k] \in Nat /\ room'[k] >= room[k]
    /\ UNCHANGED taken

\* The count of what was taken may be started anew.
Recount ==
    /\ taken' = [k \in Keys |-> 0]
    /\ UNCHANGED room

Next ==
    \/ Free
    \/ \E call \in Calls : Pay({call[i] : i \in DOMAIN call})
    \/ \E k \in Keys : Pay({k})
    \/ Recount

Spec == Init /\ [][Next]_vars
=============================================================================
