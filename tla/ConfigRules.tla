---------------------------- MODULE ConfigRules ----------------------------
(***************************************************************************)
(* What config.toml may say (internal/config/config.go).  A value that the *)
(* file does not give is "", as in the code; listen and data_dir, which    *)
(* get defaults, and paths, which are expanded, are left out.              *)
(***************************************************************************)
EXTENDS Integers, Sequences

Directions == {"bidirectional", "push", "pull"}
Roles == {"provider", "consumer"}
Approvals == {"auto", "ask_folder"}

validateDirection(d) == d \in Directions

\* One way needs a role.
RoleGiven(s) ==
    /\ validateDirection(s.direction)
    /\ s.direction # "bidirectional" => s.role \in Roles

\* The checks on one [[sync]] section.  The loop looks at a copy of it: an
\* empty direction or approval gets its default in the configuration, and is
\* refused in the copy.
SyncAccepted(s) ==
    /\ s.name # "" /\ s.path # "" /\ s.key # ""
    /\ RoleGiven(s)
    /\ s.approval \in Approvals

\* Mutant: names may repeat.
AnyNames(c) == \A i \in DOMAIN c.syncs : c.syncs[i].name # ""

NamesDiffer(c) ==
    \A i, j \in DOMAIN c.syncs : c.syncs[i].name = c.syncs[j].name => i = j

Validate(c) ==
    /\ c.syncs # <<>>
    /\ c.relay # "" => c.relayKey # ""
    /\ \A i \in DOMAIN c.syncs : SyncAccepted(c.syncs[i])
    /\ NamesDiffer(c)
=============================================================================
