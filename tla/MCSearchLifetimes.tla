-------------------------- MODULE MCSearchLifetimes --------------------------
(* An instance of SearchLifetimes for TLC: two codes of one query. *)
EXTENDS SearchLifetimes

CONSTANTS c1, c2, q1, u1

MCQueryOf == [c \in {c1, c2} |-> q1]
=============================================================================
