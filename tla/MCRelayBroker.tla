--------------------------- MODULE MCRelayBroker ----------------------------
(***************************************************************************)
(* Model of RelayBroker: more agents than a device may park, and a timer   *)
(* of handleRegister that outlasts the slots' time to live, as in the      *)
(* defaults (six and five minutes).                                        *)
(***************************************************************************)
EXTENDS RelayBroker, TLC

CONSTANTS a1, a2, c1, c2

Symmetry == Permutations({a1, a2} \cap Agents) \cup Permutations({c1, c2} \cap Clients)
============================================================================
