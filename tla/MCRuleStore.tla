---------------------------- MODULE MCRuleStore ----------------------------
(***************************************************************************)
(* Small instances of RuleStore.                                           *)
(***************************************************************************)
EXTENDS RuleStore, TLC

\* Instances and requests are interchangeable.
StoreSymmetry == Permutations(Instances) \cup Permutations(Requests)
=============================================================================
