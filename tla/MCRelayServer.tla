--------------------------- MODULE MCRelayServer ---------------------------
(* Small instances of RelayServer for TLC. *)
EXTENDS RelayServer, TLC

\* Sessions are interchangeable, and so are peer IDs.
Symmetry == Permutations(Sessions) \cup Permutations(Peers)
=============================================================================
