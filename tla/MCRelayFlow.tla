---------------------------- MODULE MCRelayFlow ----------------------------
(* Small instances of RelayFlow for TLC. *)
EXTENDS RelayFlow, FiniteSetsExt

CONSTANTS a, b, c, Total

\* b receives from a and sends to c.
Chain == {<<a, b>>, <<b, c>>}

\* All the ways to share Total files between the transfers.
Shares == {f \in [Sends -> 0 .. Total] : MapThenSumSet(LAMBDA s : f[s], Sends) = Total}
=============================================================================
