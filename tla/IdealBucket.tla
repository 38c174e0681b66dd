---------------------------- MODULE IdealBucket ----------------------------
(***************************************************************************)
(* What a bucket promises, told without a store: every key always holds    *)
(* its credit, which grows by its threshold in every unit of time up to    *)
(* burst requests' worth, and a request is admitted exactly by paying the  *)
(* price of one, Second, to each of its keys at once.  For a token bucket  *)
(* the credit is its tokens, for a leaky bucket the free part of its       *)
(* queue.  Nothing is lazy here, nothing expires and nothing is forgotten. *)
(***************************************************************************)
EXTENDS Integers, Sequences

CONSTANTS Second, Keys, Quota, Calls

VARIABLES credit, taken
vars == <<credit, taken>>

Full(k) == Quota[k].burst * Second

Init ==
    /\ credit = [k \in Keys |-> Full(k)]
    /\ taken = [k \in Keys |-> 0]

Tick ==
    /\ credit' = [k \in Keys |-> IF credit[k] + Quota[k].threshold > Full(k)
                                 THEN Full(k)
                                 ELSE credit[k] + Quota[k].threshold]
    /\ UNCHANGED taken

Pay(K) ==
    /\ \A k \in K : credit[k] >= Second
    /\ credit' = [k \in Keys |-> IF k \in K THEN credit[k] - Second ELSE credit[k]]
    /\ taken' = [k \in Keys |-> IF k \in K THEN taken[k] + 1 ELSE taken[k]]

\* The count of what was taken may be started anew.
Recount ==
    /\ taken' = [k \in Keys |-> 0]
    /\ UNCHANGED credit

Next ==
    \/ Tick
    \/ \E call \in Calls : Pay({call[i] : i \in DOMAIN call})
    \/ \E k \in Keys : Pay({k})
    \/ Recount

Spec == Init /\ [][Next]_vars
=============================================================================
