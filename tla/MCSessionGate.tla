--------------------------- MODULE MCSessionGate ---------------------------
(* Small instances of SessionGate for TLC.                                 *)
EXTENDS SessionGate, TLC

Symmetry == Permutations(Replicas) \cup Permutations(Requests)
               \cup Permutations(Workers) \cup Permutations(Sids)
============================================================================
