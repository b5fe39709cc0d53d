--------------------------- MODULE MCRelayClient ---------------------------
(* Small instances of RelayClient for TLC. *)
EXTENDS RelayClient, TLC

\* Virtual connections are interchangeable.
Symmetry == Permutations(VConns)
=============================================================================
