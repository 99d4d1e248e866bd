------------------------------ MODULE MCAccounts ------------------------------
(* Instances of Accounts for TLC. *)
EXTENDS Accounts, TLC

CONSTANTS u1, u2, b1, b2, r1, r2

(* Nothing tells the members of these sets apart, and no liveness is checked. *)
MCSymmetry ==
    Permutations({u1, u2}) \cup Permutations({b1, b2}) \cup Permutations({r1, r2})
=============================================================================
