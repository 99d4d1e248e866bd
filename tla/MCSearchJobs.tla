---------------------------- MODULE MCSearchJobs ----------------------------
(* Instances of SearchJobs for TLC. *)
EXTENDS SearchJobs, TLC

CONSTANTS c1, c2, q1, w1, w2, r1, r2, a1, a2

(* Every code is for the same query: submissions meet in one Redis key. *)
MCQueryOf == [c \in Codes |-> q1]

Symmetry ==
    Permutations(Codes) \union Permutations(Workers)
        \union Permutations(Readers) \union Permutations(Answers)
=============================================================================
