------------------------------ MODULE MCStats ------------------------------
(***************************************************************************)
(* A small instance of Stats: rule 1 is a leaky bucket with one level,     *)
(* which every request shares; rule 2 is not, and only q3 matches it.      *)
(***************************************************************************)
EXTENDS Stats, TLC

CONSTANTS q1, q2, q3

MCMatched == [q \in Requests |-> IF q = q3 THEN {1, 2} ELSE {1}]
MCLevelKeys == [q \in Requests |-> [r \in Rules |-> IF r = 1 THEN {"global"} ELSE {}]]
MCPace == [k \in Keys |-> 3]
MCLongest == [k \in Keys |-> 4]
StatsSymmetry == Permutations(Requests \ {q3})
=============================================================================
