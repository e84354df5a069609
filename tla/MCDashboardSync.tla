-------------------------- MODULE MCDashboardSync --------------------------
(* Two watches whose queries differ only in case, two contents.            *)
EXTENDS DashboardSync, TLC

CONSTANTS w1, w2, a, b

MCDuplicateKey == [w \in {w1, w2} |-> "key"]
Symmetric == Permutations({w1, w2}) \cup Permutations({a, b})
============================================================================
