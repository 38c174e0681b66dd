----------------------------- MODULE MCChecker -----------------------------
(***************************************************************************)
(* Small instances of Checker.  Each rule has a global level and a level   *)
(* of the client; q3, where it exists, is of another client.               *)
(***************************************************************************)
EXTENDS Checker, TLC

CONSTANTS q3

Client(q) == IF q = q3 THEN "B" ELSE "A"
GlobalKey(r) == <<r, "global">>
ClientKey(r, c) == <<r, "client", c>>

MCKeys == {GlobalKey(r) : r \in Rules} \cup {ClientKey(r, c) : r \in Rules, c \in {"A", "B"}}
MCLevelKeys ==
    [q \in Requests |-> [r \in Rules |-> <<GlobalKey(r), ClientKey(r, Client(q))>>]]

\* One place for client A, two in all.
MCCapacity == [k \in Keys |-> IF k[2] = "global" THEN 2 ELSE 1]
AllRules == {Rules}

\* Requests of the same client are interchangeable.
SameClient == Permutations(Requests \ {q3})
=============================================================================
