------------------------------ MODULE MCDaemon ------------------------------
(* Small instances of Daemon for TLC. *)
EXTENDS Daemon

Section(n, d, r) ==
    [name |-> n, path |-> "/src", key |-> "k", direction |-> d, role |-> r, approval |-> "auto"]
File(listen, syncs) == [listen |-> listen, relay |-> "", relayKey |-> "", syncs |-> syncs]

Push == Section("web", "push", "provider")
Pull == Section("docs", "pull", "consumer")
Both == Section("docs", "bidirectional", "")

\* Files that are right, for two ports, and the ways to get one wrong.
MCConfigs == {
    File(7741, <<Push, Both>>),
    File(7742, <<Push>>),
    File(7741, <<Push, [Pull EXCEPT !.name = "web"]>>),
    File(7741, <<[Pull EXCEPT !.role = ""]>>)}
=============================================================================
