----------------------------- MODULE MCNewsPages -----------------------------
(* An instance of NewsPages for TLC. *)
EXTENDS NewsPages, TLC

CONSTANTS p1, p2

MCSymmetry == Permutations({p1, p2})
=============================================================================
