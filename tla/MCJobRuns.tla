------------------------------ MODULE MCJobRuns ------------------------------
(* JobRuns on small instances. *)
EXTENDS JobRuns, TLC

CONSTANTS d1, d2, p1, p2, w1, w2, k1

TwoKeys == {"connector.sync", "other"}
HandledKeys == {"noop", "connector.sync"}

Symmetric == Permutations(Defs) \cup Permutations(Requests) \cup Permutations(Workers)
=============================================================================
