----------------------------- MODULE ChangeFeed -----------------------------
(***************************************************************************)
(* What the watcher and the approval gate of one sync group promise        *)
(* together: a change that fsnotify reported leaves a mark on its folder,  *)
(* and as long as the daemon watches, only a scan of the folder, which     *)
(* records the change, takes the mark away.  This is the flag `dirty' of   *)
(* SyncSession, one for each folder; FolderChanges implements it with      *)
(* timers, waiting goroutines and approvals.                               *)
(***************************************************************************)
EXTENDS Integers

CONSTANT Folders

VARIABLES
    tree,      \* tree[f]: the number of the latest change in f
    recorded,  \* recorded[f]: the latest change a scan has recorded
    dirty,     \* folders that are due for a scan
    watching   \* the daemon runs and has not begun to stop

vars == <<tree, recorded, dirty, watching>>

Init ==
    /\ tree \in [Folders -> Nat]
    /\ recorded = tree
    /\ dirty = {}
    /\ watching = TRUE

\* A change, which fsnotify reports or misses.
Change(f) ==
    /\ tree' = [tree EXCEPT ![f] = @ + 1]
    /\ dirty' \in {dirty, dirty \cup {f}}
    /\ UNCHANGED <<recorded, watching>>

\* A folder is to be scanned for another reason: a peer, an approval.
Mark(f) ==
    /\ dirty' = dirty \cup {f}
    /\ UNCHANGED <<tree, recorded, watching>>

\* The folders S are scanned; one that was reported once more stays marked.
Scan(S) ==
    /\ recorded' = [f \in Folders |-> IF f \in S THEN tree[f] ELSE recorded[f]]
    /\ dirty \ S \subseteq dirty' /\ dirty' \subseteq dirty
    /\ UNCHANGED <<tree, watching>>

\* The daemon begins to stop: marks may go.
Stop ==
    /\ watching' = FALSE
    /\ dirty' \subseteq dirty
    /\ UNCHANGED <<tree, recorded>>

\* Another daemon starts, and scans everything first.
Restart ==
    /\ watching' = TRUE
    /\ recorded' = tree
    /\ dirty' = {}
    /\ UNCHANGED tree

Next ==
    \/ \E f \in Folders : Change(f) \/ Mark(f)
    \/ \E S \in SUBSET Folders : Scan(S)
    \/ Stop \/ Restart

Spec == Init /\ [][Next]_vars
=============================================================================
