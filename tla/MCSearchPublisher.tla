--------------------------- MODULE MCSearchPublisher ---------------------------
(* Instances of SearchPublisher for TLC. *)
EXTENDS SearchPublisher, TLC

CONSTANTS p1, p2, m1, m2, m3

(* Two handlers share the first process's thread. *)
MCProcOf == [r \in Requests |-> IF r = m3 THEN p2 ELSE p1]

Symmetry == Permutations(Requests \ {m3})
=============================================================================
