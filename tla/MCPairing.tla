----------------------------- MODULE MCPairing ------------------------------
(***************************************************************************)
(* Model of Pairing: two pairings and a revocation of two peers, and two   *)
(* secrets, so that a rotation can fall between the steps of a pairing.    *)
(***************************************************************************)
EXTENDS Pairing, TLC

CONSTANTS e1, e2, r1, p1, p2, s1, s2

Symmetry == Permutations({e1, e2}) \cup Permutations({p1, p2}) \cup Permutations({s1, s2})
============================================================================
