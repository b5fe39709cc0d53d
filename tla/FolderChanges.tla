--------------------------- MODULE FolderChanges ---------------------------
(***************************************************************************)
(* How the changes of one sync group are noticed, gated and announced      *)
(* inside one daemon: the watcher with a debounce timer for each top-level *)
(* folder (internal/watcher/watcher.go), the approval queue and its        *)
(* pending_approval table (internal/approval/approval.go,                  *)
(* internal/state/state.go), and the pushes of the engine                  *)
(* (internal/sync/engine.go: OnFolderChanged, OnPeerConnected,             *)
(* ApproveFolder, CatchUp, broadcastFolder).                               *)
(*                                                                         *)
(* Every expired timer, connected peer, approval and manifest is a         *)
(* goroutine of its own, and they meet in the watcher's map of timers, the *)
(* queue's waiters and file_state.  Each critical section and each         *)
(* statement on the database is one action.                                *)
(*                                                                         *)
(* Data abstractions.  The files of a folder are the number of its latest  *)
(* change, and every change shows in size or mtime.  The engine may send,  *)
(* and has one peer.  Scans of a folder are one step; OnPeerConnected      *)
(* builds its manifest twice in a row, here once.                          *)
(***************************************************************************)
EXTENDS Integers, FiniteSets

CONSTANTS
    Folders,     \* top-level folders
    Root,        \* ".", which stands for the whole tree
    Edited,      \* the folders users change
    Procs,       \* bound: timers and goroutines at the same time
    Modes,       \* config.Approval: "auto", "ask_folder"
    None,
    MaxChanges, MaxApprovals,  \* bounds
    MaxBreaks    \* bound: lost peers and restarts

ASSUME FolderChangesAssumption ==
    /\ Root \in Folders /\ Edited \subseteq Folders /\ None \notin Procs
    /\ Procs \subseteq Nat
    /\ Modes \subseteq {"auto", "ask_folder"}
    /\ MaxChanges \in Nat /\ MaxApprovals \in Nat /\ MaxBreaks \in Nat

VARIABLES
    mode,       \* Sync.Approval
    tree,       \* tree[f]: the latest change of f on disk
    store,      \* store[f]: the latest change of f recorded in file_state
    events,     \* events[f]: fsnotify events not handled by Watcher.Run
    closed,     \* Watcher.closed
    pending,    \* Watcher.pending: folder |-> timer
    pc,         \* pc[k]: where the goroutine (or timer) k is
    folder,     \* folder[k]: the folder it is about
    manifest,   \* manifest[k][f]: the change of f that k will announce, 0: none
    approved,   \* Queue.approved
    waiters,    \* Queue.waiters: the goroutines whose channels are in the map
    taken,      \* taken[k]: the waiters Approve has taken out of the map
    woken,      \* goroutines whose channel is closed
    rows,       \* rows[f]: rows of f in pending_approval
    connected,  \* a peer is registered
    told,       \* told[f]: the latest change of f announced to the peer
    used        \* how much of each bound is used

watchVars == <<events, closed, pending>>
queueVars == <<approved, waiters, taken, woken, rows>>
vars == <<mode, tree, store, watchVars, pc, folder, manifest, queueVars, connected, told, used>>

\* "blocked" and "unlisted" both wait for the channel, with and without a row.
Steps == {"free", "armed", "fired", "called", "queued", "blocked", "unlisted",
          "approve", "remove", "cleared", "sending"}

\* The goroutine has still to scan its folder, and will.
BeforeScan == {"armed", "fired", "called", "queued", "blocked", "unlisted", "cleared"}

TypeOK ==
    /\ mode \in Modes
    /\ tree \in [Folders -> Nat] /\ store \in [Folders -> Nat]
    /\ events \in [Folders -> Nat] /\ closed \in BOOLEAN
    /\ pending \in [Folders -> Procs \cup {None}]
    /\ pc \in [Procs -> Steps] /\ folder \in [Procs -> Folders]
    /\ manifest \in [Procs -> [Folders -> Nat]]
    /\ approved \in SUBSET Folders /\ waiters \in SUBSET Procs
    /\ taken \in [Procs -> SUBSET Procs] /\ woken \in SUBSET Procs
    /\ rows \in [Folders -> Nat]
    /\ connected \in BOOLEAN /\ told \in [Folders -> Nat]
    /\ used \in [{"changes", "approvals", "breaks"} -> Nat]

Goto(k, l) == pc' = [pc EXCEPT ![k] = l]
Use(what, max) == used[what] < max /\ used' = [used EXCEPT ![what] = @ + 1]

\* The first goroutine that is free starts at l, about folder f.
Spare(k) == pc[k] = "free" /\ \A j \in Procs : j < k => pc[j] # "free"
Start(k, f, l) ==
    /\ Spare(k)
    /\ Goto(k, l)
    /\ folder' = [folder EXCEPT ![k] = f]

\* The goroutines K end.
NoListing == [f \in Folders |-> 0]
End(K) ==
    /\ pc' = [k \in Procs |-> IF k \in K THEN "free" ELSE pc[k]]
    /\ folder' = [k \in Procs |-> IF k \in K THEN Root ELSE folder[k]]
    /\ manifest' = [k \in Procs |-> IF k \in K THEN NoListing ELSE manifest[k]]

-----------------------------------------------------------------------------
(* The watcher *)

\* A user changes a file of f.  fsnotify reports it, or misses it: a file made
\* in a new directory before addRecursive has added it, or a full queue.
Change(f) ==
    /\ Use("changes", MaxChanges)
    /\ tree' = [tree EXCEPT ![f] = @ + 1]
    /\ \/ ~closed /\ events' = [events EXCEPT ![f] = @ + 1]
       \/ UNCHANGED events
    /\ UNCHANGED <<mode, store, closed, pending, pc, folder, manifest, queueVars, connected, told>>

\* The timer in the map has not expired: Stop succeeds.
Running(f) == pending[f] # None /\ pc[pending[f]] = "armed"

\* Mutant: a timer that is stopped is not started again.
ScheduleStops(f) ==
    /\ events[f] > 0
    /\ events' = [events EXCEPT ![f] = @ - 1]
    /\ IF Running(f)
       THEN End({pending[f]}) /\ pending' = [pending EXCEPT ![f] = None]
       ELSE /\ \E k \in Procs : Start(k, f, "armed") /\ pending' = [pending EXCEPT ![f] = k]
            /\ UNCHANGED manifest
    /\ UNCHANGED <<mode, tree, store, closed, queueVars, connected, told, used>>

\* handleEvent and schedule.  A timer that Stop stops is replaced by one that
\* starts again, which is the same timer here; one that has expired goes on.
Schedule(f) ==
    /\ events[f] > 0
    /\ events' = [events EXCEPT ![f] = @ - 1]
    /\ IF Running(f) THEN UNCHANGED <<pending, pc, folder>>
       ELSE \E k \in Procs : Start(k, f, "armed") /\ pending' = [pending EXCEPT ![f] = k]
    /\ UNCHANGED <<mode, tree, store, closed, manifest, queueVars, connected, told, used>>

\* 800 ms have passed: the runtime starts the function of the timer.
Expire(k) ==
    /\ pc[k] = "armed"
    /\ Goto(k, "fired")
    /\ UNCHANGED <<mode, tree, store, watchVars, folder, manifest, queueVars, connected, told, used>>

\* It deletes the folder's timer from the map, be it its own or a later one,
\* and calls OnFolderChanged.
Report(k) ==
    /\ pc[k] = "fired"
    /\ pending' = [pending EXCEPT ![folder[k]] = None]
    /\ Goto(k, "called")
    /\ UNCHANGED <<mode, tree, store, events, closed, folder, manifest, queueVars,
                   connected, told, used>>

-----------------------------------------------------------------------------
(* The approval queue *)

\* Queue.Wait up to the unlock.
Wait(k) ==
    /\ pc[k] = "called"
    /\ IF mode = "auto" \/ folder[k] \in approved
       THEN Goto(k, "cleared") /\ UNCHANGED waiters
       ELSE Goto(k, "queued") /\ waiters' = waiters \cup {k}
    /\ UNCHANGED <<mode, tree, store, watchVars, folder, manifest, approved, taken, woken, rows,
                   connected, told, used>>

\* A row for the user to see.  Wait drops an error of the insert and goes on to
\* wait, without a row.
AddPending(k) ==
    /\ pc[k] = "queued"
    /\ \/ rows' = [rows EXCEPT ![folder[k]] = @ + 1] /\ Goto(k, "blocked")
       \/ UNCHANGED rows /\ Goto(k, "unlisted")
    /\ UNCHANGED <<mode, tree, store, watchVars, folder, manifest, approved, waiters, taken, woken,
                   connected, told, used>>

\* The channel is closed: Wait returns.
Released(k) ==
    /\ pc[k] \in {"blocked", "unlisted"} /\ k \in woken
    /\ woken' = woken \ {k}
    /\ Goto(k, "cleared")
    /\ UNCHANGED <<mode, tree, store, watchVars, folder, manifest, approved, waiters, taken, rows,
                   connected, told, used>>

\* Mutant: the folder is not looked at.
WaitingAny(f) == waiters

Waiting(f) == {k \in waiters : folder[k] = f}

\* Mutant: the waiters are deleted before they are read.
ApproveNobody(k, f) ==
    /\ Use("approvals", MaxApprovals) /\ ~closed
    /\ Start(k, f, "approve")
    /\ approved' = approved \cup {f}
    /\ waiters' = waiters \ Waiting(f)
    /\ UNCHANGED <<mode, tree, store, watchVars, manifest, taken, woken, rows, connected, told>>

\* ApproveFolder is called: Queue.Approve up to the unlock.
Approve(k, f) ==
    /\ Use("approvals", MaxApprovals) /\ ~closed
    /\ Start(k, f, "approve")
    /\ approved' = approved \cup {f}
    /\ taken' = [taken EXCEPT ![k] = Waiting(f)]
    /\ waiters' = waiters \ Waiting(f)
    /\ UNCHANGED <<mode, tree, store, watchVars, manifest, woken, rows, connected, told>>

CloseChannels(k) ==
    /\ pc[k] = "approve"
    /\ woken' = woken \cup taken[k]
    /\ taken' = [taken EXCEPT ![k] = {}]
    /\ Goto(k, "remove")
    /\ UNCHANGED <<mode, tree, store, watchVars, folder, manifest, approved, waiters, rows,
                   connected, told, used>>

\* Mutant: one row goes, whether there is one or not.
RemoveOne(k) ==
    /\ pc[k] = "remove"
    /\ rows' = [rows EXCEPT ![folder[k]] = @ - 1] /\ Goto(k, "cleared")
    /\ UNCHANGED <<mode, tree, store, watchVars, folder, manifest, approved, waiters, taken, woken,
                   connected, told, used>>

\* Mutant: the rows of the whole group go.
RemoveAll(k) ==
    /\ pc[k] = "remove"
    /\ rows' = [f \in Folders |-> 0] /\ Goto(k, "cleared")
    /\ UNCHANGED <<mode, tree, store, watchVars, folder, manifest, approved, waiters, taken, woken,
                   connected, told, used>>

\* All rows of the folder go; if the database fails, ApproveFolder returns
\* without a broadcast of its own.
RemovePending(k) ==
    /\ pc[k] = "remove"
    /\ \/ /\ rows' = [rows EXCEPT ![folder[k]] = 0]
          /\ Goto(k, "cleared") /\ UNCHANGED <<folder, manifest>>
       \/ UNCHANGED rows /\ End({k})
    /\ UNCHANGED <<mode, tree, store, watchVars, approved, waiters, taken, woken,
                   connected, told, used>>

-----------------------------------------------------------------------------
(* Announcing *)

Scope(f) == IF f = Root THEN Folders ELSE {f}

\* The walk over the folders S records them, and is what the manifest lists.
Recorded(S) == [f \in Folders |-> IF f \in S THEN tree[f] ELSE store[f]]
Listing(S) == [f \in Folders |-> IF f \in S THEN tree[f] ELSE 0]

\* broadcastFolder: scan and record, then go sendManifest if there is a peer.
BroadcastFolder(k) ==
    /\ pc[k] = "cleared"
    /\ store' = Recorded(Scope(folder[k]))
    /\ IF connected
       THEN /\ manifest' = [manifest EXCEPT ![k] = Listing(Scope(folder[k]))]
            /\ Goto(k, "sending") /\ UNCHANGED folder
       ELSE End({k})
    /\ UNCHANGED <<mode, tree, watchVars, queueVars, connected, told, used>>

SendManifest(k) ==
    /\ pc[k] = "sending"
    /\ told' = [f \in Folders |-> IF manifest[k][f] > told[f] THEN manifest[k][f] ELSE told[f]]
    /\ End({k})
    /\ UNCHANGED <<mode, tree, store, watchVars, queueVars, connected, used>>

\* The 20 s tick: what differs from file_state is announced, without a Wait.
CatchUp(k) ==
    LET stale == {f \in Folders : store[f] # tree[f]}
    IN /\ connected /\ stale # {}
       /\ Start(k, Root, "sending")
       /\ store' = Recorded(stale)
       /\ manifest' = [manifest EXCEPT ![k] = Listing(stale)]
       /\ UNCHANGED <<mode, tree, watchVars, queueVars, connected, told, used>>

-----------------------------------------------------------------------------
(* Peers, shutdown and restart *)

\* Mutant: a peer is registered, and that is all.
PeerConnectsOnly(k) ==
    /\ ~connected /\ ~closed
    /\ connected' = TRUE
    /\ UNCHANGED <<mode, tree, store, watchVars, pc, folder, manifest, queueVars, told, used>>

\* A peer is registered: go OnPeerConnected.
PeerConnects(k) ==
    /\ ~connected /\ ~closed
    /\ connected' = TRUE
    /\ Start(k, Root, "called")
    /\ UNCHANGED <<mode, tree, store, watchVars, manifest, queueVars, told, used>>

Sending == {k \in Procs : pc[k] = "sending"}

\* RemovePeer after an error, and what was being sent is lost.
PeerGone ==
    /\ connected /\ Use("breaks", MaxBreaks)
    /\ connected' = FALSE
    /\ End(Sending)
    /\ UNCHANGED <<mode, tree, store, watchVars, queueVars, told>>

\* Group.Stop: Watcher.Close stops the timers in the map, events are no longer
\* read, connections are closed; goroutines that run go on.
StopGroup ==
    /\ ~closed /\ used["breaks"] < MaxBreaks
    /\ closed' = TRUE
    /\ events' = [f \in Folders |-> 0]
    /\ pending' = [f \in Folders |-> None]
    /\ connected' = FALSE
    /\ End(Sending \cup {k \in Procs : pc[k] = "armed" /\ pending[folder[k]] = k})
    /\ UNCHANGED <<mode, tree, store, queueVars, told, used>>

\* The process ends, or is killed, and another one starts: pending_approval is
\* all that is left, and InitialScan records the tree.
Restart ==
    /\ Use("breaks", MaxBreaks)
    /\ store' = tree
    /\ closed' = FALSE /\ connected' = FALSE
    /\ events' = [f \in Folders |-> 0]
    /\ pending' = [f \in Folders |-> None]
    /\ End(Procs)
    /\ approved' = {} /\ waiters' = {} /\ woken' = {}
    /\ taken' = [k \in Procs |-> {}]
    /\ UNCHANGED <<mode, tree, rows, told>>

-----------------------------------------------------------------------------
Init ==
    /\ mode \in Modes
    /\ tree = [f \in Folders |-> 1] /\ store = tree
    /\ events = [f \in Folders |-> 0]
    /\ closed = FALSE
    /\ pending = [f \in Folders |-> None]
    /\ pc = [k \in Procs |-> "free"] /\ folder = [k \in Procs |-> Root]
    /\ manifest = [k \in Procs |-> NoListing]
    /\ approved = {} /\ waiters = {} /\ woken = {}
    /\ taken = [k \in Procs |-> {}]
    /\ rows = [f \in Folders |-> 0]
    /\ connected = FALSE
    /\ told = [f \in Folders |-> 0]
    /\ used = [b \in {"changes", "approvals", "breaks"} |-> 0]

\* A goroutine takes its next step.
Step(k) ==
    \/ Expire(k) \/ Report(k) \/ Wait(k) \/ AddPending(k) \/ Released(k)
    \/ CloseChannels(k) \/ RemovePending(k) \/ BroadcastFolder(k) \/ SendManifest(k)

Next ==
    \/ \E f \in Edited : Change(f)
    \/ \E f \in Folders : Schedule(f)
    \/ \E k \in Procs : Step(k) \/ CatchUp(k) \/ PeerConnects(k)
    \/ \E k \in Procs, f \in Folders : Approve(k, f)
    \/ PeerGone \/ StopGroup \/ Restart

Spec == Init /\ [][Next]_vars

(***************************************************************************)
(* Fairness: goroutines that can run do run, timers expire, Watcher.Run    *)
(* reads its events, the 20 s ticker calls CatchUp.  Nothing is assumed of *)
(* users, peers and approvals.                                             *)
(***************************************************************************)
Fairness ==
    /\ \A k \in Procs : WF_vars(Step(k))
    /\ \A f \in Folders : WF_vars(Schedule(f))
    /\ WF_vars(\E k \in Procs : CatchUp(k))

FairSpec == Spec /\ Fairness

-----------------------------------------------------------------------------
(* Properties *)

(***************************************************************************)
(* No wake-up is lost: a goroutine in Wait is in the map of waiters and    *)
(* its folder is not approved, or its channel is closed, or an Approve has *)
(* its channel and is about to close it (approval.go: Wait, Approve).      *)
(***************************************************************************)
NoLostWakeup ==
    \A k \in Procs : pc[k] \in {"queued", "blocked", "unlisted"} =>
        \/ k \in waiters /\ folder[k] \notin approved
        \/ k \in woken
        \/ \E j \in Procs : pc[j] = "approve" /\ k \in taken[j]

(***************************************************************************)
(* A folder stays listed for as long as somebody waits for the user to     *)
(* approve it: a goroutine whose row AddPending has inserted has a row of  *)
(* its folder in pending_approval, which sps status shows, whatever is     *)
(* approved meanwhile.  One whose INSERT failed waits unlisted             *)
(* (approval.go: Wait, Approve).                                           *)
(***************************************************************************)
WaitingIsListed ==
    \A k \in waiters : pc[k] = "blocked" => rows[folder[k]] > 0

(***************************************************************************)
(* Wait lets nobody through but for an approved folder: what the watcher,  *)
(* a new peer or an approval is about to announce is approved.             *)
(***************************************************************************)
ReleasedIsApproved ==
    \A k \in Procs : pc[k] = "cleared" /\ mode = "ask_folder" => folder[k] \in approved

(***************************************************************************)
(* README: "ask_folder: Queue changes per folder until approved".  What is *)
(* announced to a peer was approved, by itself or with the whole tree.     *)
(***************************************************************************)
OnlyApprovedIsSent ==
    \A k \in Procs : pc[k] = "sending" /\ mode = "ask_folder" =>
        \A f \in Folders : manifest[k][f] > 0 => approved \cap {f, Root} # {}

(***************************************************************************)
(* Once users and peers have settled, a connected peer has been told of    *)
(* every change, whether fsnotify reported it or not, and whether it was   *)
(* made before or after the peer came, if nothing has to be approved or    *)
(* the whole tree is (engine.go: OnFolderChanged, OnPeerConnected,         *)
(* CatchUp).                                                               *)
(***************************************************************************)
ChangesAnnounced ==
    \A f \in Folders :
        <>[](connected /\ (mode = "auto" \/ Root \in approved) => told[f] = tree[f])

\* The flag of ChangeFeed: somebody has the folder in hand.
InHand == {f \in Folders :
    events[f] > 0 \/ \E k \in Procs : folder[k] = f /\ pc[k] \in BeforeScan}

Feed == INSTANCE ChangeFeed WITH
    recorded <- store, dirty <- InHand, watching <- ~closed

(***************************************************************************)
(* Timers, approvals and goroutines implement the flag `dirty' of          *)
(* ChangeFeed: while the daemon watches, a folder with an unread event or  *)
(* a goroutine on its way to scan it stays in somebody's hands until it is *)
(* scanned.  A timer that expires while it is stopped, or that deletes the *)
(* map entry of its successor, forgets no report (watcher.go: schedule).   *)
(***************************************************************************)
FeedSpec == Feed!Spec
=============================================================================
