---------------------------- MODULE SyncSession ----------------------------
(***************************************************************************)
(* Two sync engines (internal/sync/engine.go) at the ends of one peer      *)
(* connection.  Each engine has a directory tree, the file_state table of  *)
(* its SQLite store, a debounced watcher, a HandleIncoming goroutine that  *)
(* reads the connection frame by frame, and short-lived goroutines that    *)
(* push manifests (go sendManifest, go OnPeerConnected).  The connection   *)
(* is a reliable FIFO in each direction (TLS over TCP, or a relay          *)
(* virtualConn) that may break and be re-established.                      *)
(*                                                                         *)
(* Data abstractions.  A path is a number: the order of filepath.Walk, and *)
(* so the order of manifests, NEED lists and CHUNKs, is the order of the   *)
(* numbers, and a list of paths is a set.  A content, and with it its      *)
(* BLAKE3 hash, is a number; each edit of a user writes a content never    *)
(* seen before.  Times are whole seconds, as in the manifests.  A scan of  *)
(* the tree is one step.  APPLY_OK and REJECT are left out: no reader acts *)
(* on them.  Approval is auto, so Approval.Wait returns at once.           *)
(***************************************************************************)
EXTENDS Integers, Sequences, FiniteSetsExt

CONSTANTS
    Nodes,         \* the two engines
    Paths,         \* every path a sync root can hold, conflict copies included
    UserPaths,     \* the paths users edit
    Editors,       \* the engines whose users edit
    Ignored,       \* Ignored[n]: paths engine n's ignore patterns match
    ConflictName,  \* <<p, t>> |-> the name of p's conflict copy made at time t
    Size,          \* Size[c]: the length of content c
    CfgChoices,    \* the configurations [direction, role] of the two engines
    DiskChoices,   \* the trees the two engines start with
    HelloOnWire,   \* TRUE: relay peers, each side reads the other's HELLO
    EditWhen,      \* users edit in states where up is in this set
    NoFile,        \* no file at a path, no row in file_state, no data
    Senders,       \* bound: concurrent sendManifest goroutines, 1..k
    MaxEdits, MaxDeletes, MaxTime, MaxConns, MaxPulls,  \* bounds
    MaxFaults,     \* bound: files that cannot be read or written
    Strays,        \* bound: the lists of paths stray NEEDs name
    MaxAsks        \* bound: stray NEEDs

File == [hash : Nat, mtime : Nat]
Tree == [Paths -> File \cup {NoFile}]
Manifest == Tree     \* NoFile: not listed
Config == [direction : {"bidirectional", "push", "pull"},
           role : {"provider", "consumer"}]

ASSUME ConstantsAssumption ==
    /\ \E x, y \in Nodes : x # y /\ Nodes = {x, y}
    /\ Paths \subseteq Nat /\ UserPaths \subseteq Paths /\ Editors \subseteq Nodes
    /\ Ignored \in [Nodes -> SUBSET Paths]
    /\ DOMAIN ConflictName \subseteq Paths \X Nat
    /\ \A x \in DOMAIN ConflictName : ConflictName[x] \in Paths \ UserPaths
    /\ CfgChoices \subseteq [Nodes -> Config]
    /\ DiskChoices \subseteq [Nodes -> Tree]
    /\ NoFile \notin File /\ NoFile \notin Nat /\ NoFile \notin Manifest
    /\ Senders \subseteq Nat
    /\ MaxEdits \in Nat /\ MaxDeletes \in Nat /\ MaxTime \in Nat
    /\ MaxConns \in Nat /\ MaxPulls \in Nat /\ MaxFaults \in Nat
    /\ Strays \subseteq SUBSET Paths /\ MaxAsks \in Nat

VARIABLES
    cfg,       \* cfg[n]: Engine.Cfg, fixed at start
    disk,      \* disk[n]: the files under Cfg.LocalPath
    store,     \* store[n]: the rows of file_state (hash, mtime; size = Size[hash])
    dirty,     \* dirty[n]: the watcher's debounce timer is running
    now,       \* the time of day
    up,        \* the connection is established and registered on both sides
    net,       \* net[n]: frames written to n and not read yet
    pc,        \* pc[n]: HandleIncoming in its loop, in receiveFile, in sendFiles
    want,      \* want[n]: paths receiveFile or sendFiles has still to go through
    buf,       \* buf[n]: data os.ReadFile returned in sendFiles, not written yet
    greet,     \* greet[n]: OnPeerConnected goroutines not run yet
    senders,   \* senders[n][g]: the manifest sendManifest goroutine g carries
    used       \* how much of each bound the environment has used

vars == <<cfg, disk, store, dirty, now, up, net, pc, want, buf, greet, senders, used>>
handlerVars == <<pc, want, buf>>

Frame == [type : {"hello", "ping"}]
         \cup [type : {"manifest"}, files : Manifest]
         \cup [type : {"need"}, paths : SUBSET Paths]
         \cup [type : {"chunk"}, path : Paths, data : Nat]

Budgets == {"edits", "deletes", "conns", "pulls", "faults", "asks"}

TypeOK ==
    /\ cfg \in [Nodes -> Config]
    /\ disk \in [Nodes -> Tree] /\ store \in [Nodes -> Tree]
    /\ dirty \in [Nodes -> BOOLEAN] /\ now \in Nat /\ up \in BOOLEAN
    /\ net \in [Nodes -> Seq(Frame)]
    /\ pc \in [Nodes -> {"loop", "receive", "send"}]
    /\ want \in [Nodes -> SUBSET Paths]
    /\ buf \in [Nodes -> Nat \cup {NoFile}]
    /\ greet \in [Nodes -> Nat]
    /\ senders \in [Nodes -> [Senders -> Manifest \cup {NoFile}]]
    /\ used \in [Budgets -> Nat]

Other(n) == CHOOSE m \in Nodes : m # n

\* A system call on a file fails.
Fault == used["faults"] < MaxFaults /\ used' = [used EXCEPT !["faults"] = @ + 1]

-----------------------------------------------------------------------------
(* config.go: the gates of the direction and role settings *)

Bidirectional(n) == cfg[n].direction = "bidirectional"
CanSend(n) == Bidirectional(n) \/ cfg[n].role = "provider"
CanReceive(n) == Bidirectional(n) \/ cfg[n].role = "consumer"
CanInitiatePull(n) == cfg[n] = [direction |-> "pull", role |-> "consumer"]

(* Manifests and the store *)

Exists(n, p) == disk[n][p] # NoFile
Tracked(n) == {p \in Paths \ Ignored[n] : Exists(n, p)}

\* The entries buildManifestForFolder and CatchUp list for the paths S.
Entries(n, S) == [p \in Paths |-> IF p \in S THEN disk[n][p] ELSE NoFile]
Listed(files) == {p \in Paths : files[p] # NoFile}

\* UpsertFile for every path in S, with what is on disk now.
Upsert(n, S) ==
    store' = [store EXCEPT ![n] = [p \in Paths |-> IF p \in S THEN disk[n][p] ELSE @[p]]]

\* Start a sendManifest goroutine for the peer, if there is one and if there
\* is anything to announce.
Announce(n, S) ==
    IF S = {} \/ ~up THEN UNCHANGED senders
    ELSE \E g \in Senders :
            /\ senders[n][g] = NoFile
            /\ \A h \in Senders : h < g => senders[n][h] # NoFile
            /\ senders' = [senders EXCEPT ![n][g] = Entries(n, S)]

\* broadcastFolder: scan the tree, record it, announce it.
BroadcastFolder(n) == Upsert(n, Tracked(n)) /\ Announce(n, Tracked(n))

-----------------------------------------------------------------------------
(* The connection *)

Write(m, f) == net' = [net EXCEPT ![m] = Append(@, f)]
Consume(n) == net' = [net EXCEPT ![n] = Tail(@)]
Reply(n, f) == net' = [net EXCEPT ![n] = Tail(@), ![Other(n)] = Append(@, f)]

\* HandleIncoming of n, in its own loop or in receiveFile, has a frame to read.
Incoming(n, state, types) ==
    pc[n] = state /\ net[n] # <<>> /\ Head(net[n]).type \in types

\* Both ends register the peer and start OnPeerConnected and HandleIncoming:
\* ConnectAndHello and handleInbound, or ConnectPeer on both sides of a relay.
Connect ==
    /\ ~up /\ used["conns"] < MaxConns
    /\ up' = TRUE
    /\ used' = [used EXCEPT !["conns"] = @ + 1]
    /\ net' = [n \in Nodes |-> IF HelloOnWire THEN <<[type |-> "hello"]>> ELSE <<>>]
    /\ greet' = [n \in Nodes |-> IF CanSend(n) THEN greet[n] + 1 ELSE greet[n]]
    /\ UNCHANGED <<cfg, disk, store, dirty, now, handlerVars, senders>>

\* Both ends see a read or write error: RemovePeer, and everything that was
\* tied to the connection is gone.
DropConnection ==
    /\ up' = FALSE
    /\ net' = [n \in Nodes |-> <<>>]
    /\ pc' = [n \in Nodes |-> "loop"]
    /\ want' = [n \in Nodes |-> {}]
    /\ buf' = [n \in Nodes |-> NoFile]

Disconnect ==
    /\ up /\ used["conns"] < MaxConns
    /\ DropConnection
    /\ senders' = [n \in Nodes |-> [g \in Senders |-> NoFile]]
    /\ UNCHANGED <<cfg, disk, store, dirty, now, greet, used>>

\* The daemon of n stops and starts again: its goroutines and timers are gone,
\* InitialScan records the tree as it is now.
Restart(n) ==
    /\ used["conns"] < MaxConns
    /\ DropConnection
    /\ senders' = [m \in Nodes |-> [g \in Senders |-> NoFile]]
    /\ greet' = [greet EXCEPT ![n] = 0]
    /\ dirty' = [dirty EXCEPT ![n] = FALSE]
    /\ Upsert(n, Tracked(n))
    /\ UNCHANGED <<cfg, disk, now, used>>

-----------------------------------------------------------------------------
(* Announcing changes *)

\* The debounce timer fires: OnFolderChanged.
OnFolderChanged(n) ==
    /\ dirty[n]
    /\ dirty' = [dirty EXCEPT ![n] = FALSE]
    /\ IF CanSend(n) THEN BroadcastFolder(n) ELSE UNCHANGED <<store, senders>>
    /\ UNCHANGED <<cfg, disk, now, up, net, handlerVars, greet, used>>

\* Mutant: it runs again without having been started again.
PushOnPeer(n) ==
    /\ greet' = [greet EXCEPT ![n] = @ - 1]
    /\ BroadcastFolder(n)
    /\ UNCHANGED <<cfg, disk, dirty, now, up, net, handlerVars, used>>

\* The files CatchUp considers changed since the last scan.
Stale(n) ==
    {p \in Tracked(n) :
        \/ store[n][p] = NoFile
        \/ Size[store[n][p].hash] # Size[disk[n][p].hash]
        \/ store[n][p].mtime # disk[n][p].mtime}

\* Mutant: what the last scan has recorded is not announced.
PushStale(n) ==
    /\ greet[n] > 0
    /\ greet' = [greet EXCEPT ![n] = @ - 1]
    /\ Upsert(n, Stale(n)) /\ Announce(n, Stale(n))
    /\ UNCHANGED <<cfg, disk, dirty, now, up, net, handlerVars, used>>

\* The goroutine started when a peer connects or says hello.
OnPeerConnected(n) ==
    /\ greet[n] > 0
    /\ greet' = [greet EXCEPT ![n] = @ - 1]
    /\ BroadcastFolder(n)
    /\ UNCHANGED <<cfg, disk, dirty, now, up, net, handlerVars, used>>

\* The 20 s tick of peerDialLoop on a node that can send.
CatchUp(n) ==
    /\ CanSend(n) /\ up /\ Stale(n) # {}
    /\ Upsert(n, Stale(n))
    /\ Announce(n, Stale(n))
    /\ UNCHANGED <<cfg, disk, dirty, now, up, net, handlerVars, greet, used>>

\* Goroutine g writes its manifest to the connection.
SendManifest(n, g) ==
    /\ up /\ senders[n][g] # NoFile
    /\ Write(Other(n), [type |-> "manifest", files |-> senders[n][g]])
    /\ senders' = [senders EXCEPT ![n][g] = NoFile]
    /\ UNCHANGED <<cfg, disk, store, dirty, now, up, handlerVars, greet, used>>

\* The 20 s tick of peerDialLoop on a pulling consumer: PullFromPeers scans
\* the local tree (recording it) and pings the provider.
PullFromPeers(n) ==
    /\ CanInitiatePull(n) /\ used["pulls"] < MaxPulls
    /\ Upsert(n, Tracked(n))
    /\ IF up THEN Write(Other(n), [type |-> "ping"]) ELSE UNCHANGED net
    /\ used' = [used EXCEPT !["pulls"] = @ + 1]
    /\ UNCHANGED <<cfg, disk, dirty, now, up, handlerVars, greet, senders>>

-----------------------------------------------------------------------------
(* HandleIncoming *)

HandleHello(n) ==
    /\ Incoming(n, "loop", {"hello"})
    /\ Consume(n)
    /\ greet' = [greet EXCEPT ![n] = IF CanSend(n) THEN @ + 1 ELSE @]
    /\ UNCHANGED <<cfg, disk, store, dirty, now, up, handlerVars, senders, used>>

HandlePing(n) ==
    /\ Incoming(n, "loop", {"ping"})
    /\ Reply(n, [type |-> "ping"])
    /\ UNCHANGED <<cfg, disk, store, dirty, now, up, handlerVars, greet, senders, used>>

\* Frames the loop reads and drops: what the role forbids, and CHUNKs that no
\* receiveFile is waiting for.
SkipFrame(n) ==
    /\ Incoming(n, "loop", {"chunk"} \cup (IF CanReceive(n) THEN {} ELSE {"manifest"})
                                     \cup (IF CanSend(n) THEN {} ELSE {"need"}))
    /\ Consume(n)
    /\ UNCHANGED <<cfg, disk, store, dirty, now, up, handlerVars, greet, senders, used>>

(* applyManifest *)

\* Entries that differ from the local file, or have none.
Differing(n, files) ==
    {p \in Listed(files) \ Ignored[n] : ~Exists(n, p) \/ disk[n][p].hash # files[p].hash}

\* Both sides changed the file in the same second.
Conflicts(n, files) ==
    {p \in Differing(n, files) :
        Bidirectional(n) /\ Exists(n, p) /\ disk[n][p].mtime = files[p].mtime}

\* The local file is newer than the announced one.
LocalNewer(n, files) ==
    {p \in Differing(n, files) :
        Bidirectional(n) /\ Exists(n, p) /\ disk[n][p].mtime > files[p].mtime}

Needed(n, files) == Differing(n, files) \ (Conflicts(n, files) \cup LocalNewer(n, files))

\* writeConflict renames each file of C to its conflict name, which replaces
\* whatever had that name; a rename keeps the modification time.
WithConflictsRenamed(tree, C) ==
    [q \in Paths |->
        IF \E p \in C : ConflictName[<<p, now>>] = q
        THEN tree[CHOOSE p \in C : ConflictName[<<p, now>>] = q]
        ELSE IF q \in C THEN NoFile ELSE tree[q]]

\* The conflict names fit in Paths, and no entry of the same manifest reads a
\* name this manifest's conflicts write (bounds of the model).
ConflictsInBound(C, files) ==
    \A p \in C : <<p, now>> \in DOMAIN ConflictName /\ ConflictName[<<p, now>>] \notin Listed(files)

ApplyFiles(n) ==
    /\ Incoming(n, "loop", {"manifest"})
    /\ LET files == Head(net[n]).files
           C == Conflicts(n, files)
           needed == Needed(n, files)
       IN /\ ConflictsInBound(C, files)
          /\ disk' = [disk EXCEPT ![n] = WithConflictsRenamed(@, C)]
          /\ dirty' = [dirty EXCEPT ![n] = @ \/ C # {}]
          /\ IF needed = {} THEN Consume(n) /\ UNCHANGED <<pc, want>>
             ELSE /\ Reply(n, [type |-> "need", paths |-> needed])
                  /\ pc' = [pc EXCEPT ![n] = "receive"]
                  /\ want' = [want EXCEPT ![n] = needed]
    /\ UNCHANGED <<cfg, store, now, up, buf, greet, senders, used>>

\* Mutant: a manifest is applied whatever the role.
ApplyManifestAnyRole(n) == ApplyFiles(n)

ApplyManifest(n) == CanReceive(n) /\ ApplyFiles(n)

(* receiveFile: waits for the CHUNK of the first path still wanted *)

Awaited(n) == Min(want[n])

\* Every other frame is read and dropped.
DropWhileReceiving(n) ==
    /\ Incoming(n, "receive", {"hello", "ping", "manifest", "need", "chunk"})
    /\ Head(net[n]).type = "chunk" => Head(net[n]).path # Awaited(n)
    /\ Consume(n)
    /\ UNCHANGED <<cfg, disk, store, dirty, now, up, handlerVars, greet, senders, used>>

\* The data replaces the file (temp file and rename, so with a modification
\* time of now), the row is updated, and the next path is awaited.
StoreChunk(n) ==
    /\ Incoming(n, "receive", {"chunk"})
    /\ LET file == [hash |-> Head(net[n]).data, mtime |-> now]
       IN /\ disk' = [disk EXCEPT ![n][Awaited(n)] = file]
          /\ store' = [store EXCEPT ![n][Awaited(n)] = file]
    /\ dirty' = [dirty EXCEPT ![n] = TRUE]
    /\ Consume(n)
    /\ UNCHANGED <<cfg, now, up, buf, greet, senders, used>>

\* applyManifest goes on with the paths `rest`, or is done.
AwaitNext(n, rest) ==
    /\ want' = [want EXCEPT ![n] = rest]
    /\ pc' = [pc EXCEPT ![n] = IF rest = {} THEN "loop" ELSE "receive"]

\* Mutant: the path of the CHUNK is not looked at.
ReceiveAnyChunk(n) == StoreChunk(n) /\ AwaitNext(n, want[n] \ {Awaited(n)})

ReceiveChunk(n) ==
    /\ StoreChunk(n) /\ Head(net[n]).path = Awaited(n)
    /\ AwaitNext(n, want[n] \ {Awaited(n)})

\* The file cannot be written: receiveFile and applyManifest return, and the
\* CHUNKs still to come are read by the loop of HandleIncoming.
ReceiveFails(n) ==
    /\ Incoming(n, "receive", {"chunk"}) /\ Head(net[n]).path = Awaited(n)
    /\ Fault
    /\ Consume(n)
    /\ AwaitNext(n, {})
    /\ UNCHANGED <<cfg, disk, store, dirty, now, up, buf, greet, senders>>

(* sendFiles *)

\* Mutant: sendFiles sends whatever it is asked for.
AskedFor(n) == Head(net[n]).paths
Granted(n) == Head(net[n]).paths \ Ignored[n]

\* The NEED is read; nothing is sent when none of its files is there.
HandleNeed(n) ==
    /\ Incoming(n, "loop", {"need"}) /\ CanSend(n)
    /\ LET some == \E p \in Granted(n) : Exists(n, p)
       IN /\ pc' = [pc EXCEPT ![n] = IF some THEN "send" ELSE "loop"]
          /\ want' = [want EXCEPT ![n] = IF some THEN Granted(n) ELSE {}]
    /\ Consume(n)
    /\ UNCHANGED <<cfg, disk, store, dirty, now, up, buf, greet, senders, used>>

\* Mutant: sendFiles returns after its first file.
SentOne(n, p) ==
    /\ want' = [want EXCEPT ![n] = {}]
    /\ pc' = [pc EXCEPT ![n] = "loop"]

\* sendFiles is through with path p.
SentOrSkipped(n, p) ==
    /\ want' = [want EXCEPT ![n] = @ \ {p}]
    /\ pc' = [pc EXCEPT ![n] = IF want[n] = {p} THEN "loop" ELSE "send"]

\* os.ReadFile of the next path; a file that cannot be read is skipped.
ReadFile(n) ==
    /\ pc[n] = "send" /\ buf[n] = NoFile
    /\ LET p == Min(want[n])
       IN \/ /\ Exists(n, p)
             /\ buf' = [buf EXCEPT ![n] = disk[n][p].hash]
             /\ UNCHANGED <<pc, want, used>>
          \/ /\ IF Exists(n, p) THEN Fault ELSE UNCHANGED used
             /\ SentOrSkipped(n, p)
             /\ UNCHANGED buf
    /\ UNCHANGED <<cfg, disk, store, dirty, now, up, net, greet, senders>>

\* The CHUNK with the data read before is written.
SendChunk(n) ==
    /\ pc[n] = "send" /\ buf[n] # NoFile
    /\ Write(Other(n), [type |-> "chunk", path |-> Min(want[n]), data |-> buf[n]])
    /\ buf' = [buf EXCEPT ![n] = NoFile]
    /\ SentOrSkipped(n, Min(want[n]))
    /\ UNCHANGED <<cfg, disk, store, dirty, now, up, greet, senders, used>>

-----------------------------------------------------------------------------
(* The environment *)

\* A user writes a new content; fsnotify reports it, or misses it.
Edit(n, p) ==
    /\ n \in Editors /\ used["edits"] < MaxEdits /\ up \in EditWhen
    /\ used' = [used EXCEPT !["edits"] = @ + 1]
    /\ disk' = [disk EXCEPT ![n][p] = [hash |-> used["edits"] + 1, mtime |-> now]]
    /\ \E reported \in BOOLEAN : dirty' = [dirty EXCEPT ![n] = @ \/ reported]
    /\ UNCHANGED <<cfg, store, now, up, net, handlerVars, greet, senders>>

\* A user removes a file.
Delete(n, p) ==
    /\ n \in Editors /\ used["deletes"] < MaxDeletes /\ Exists(n, p) /\ up \in EditWhen
    /\ used' = [used EXCEPT !["deletes"] = @ + 1]
    /\ disk' = [disk EXCEPT ![n][p] = NoFile]
    /\ dirty' = [dirty EXCEPT ![n] = TRUE]
    /\ UNCHANGED <<cfg, store, now, up, net, handlerVars, greet, senders>>

\* A NEED that answers no manifest of this connection.  A closed virtualConn
\* can still be written to and the relay forwards by peer ID: the NEED the peer
\* was working on for an earlier session of n, whose ignore patterns may have
\* been others, is delivered to this one.
StrayNeed(n, S) ==
    /\ up /\ HelloOnWire /\ used["asks"] < MaxAsks
    /\ used' = [used EXCEPT !["asks"] = @ + 1]
    /\ Write(n, [type |-> "need", paths |-> S])
    /\ UNCHANGED <<cfg, disk, store, dirty, now, up, handlerVars, greet, senders>>

Tick ==
    /\ now < MaxTime
    /\ now' = now + 1
    /\ UNCHANGED <<cfg, disk, store, dirty, up, net, handlerVars, greet, senders, used>>

-----------------------------------------------------------------------------
\* App.startGroup: InitialScan has recorded the tree, nobody is connected.
Init ==
    /\ cfg \in CfgChoices
    /\ disk \in DiskChoices
    /\ store = [n \in Nodes |-> [p \in Paths |->
                    IF p \in Ignored[n] THEN NoFile ELSE disk[n][p]]]
    /\ dirty = [n \in Nodes |-> FALSE]
    /\ now = 0 /\ up = FALSE
    /\ net = [n \in Nodes |-> <<>>]
    /\ pc = [n \in Nodes |-> "loop"]
    /\ want = [n \in Nodes |-> {}]
    /\ buf = [n \in Nodes |-> NoFile]
    /\ greet = [n \in Nodes |-> 0]
    /\ senders = [n \in Nodes |-> [g \in Senders |-> NoFile]]
    /\ used = [k \in Budgets |-> 0]

Incomings(n) ==
    \/ HandleHello(n) \/ HandlePing(n) \/ SkipFrame(n) \/ ApplyManifest(n)
    \/ DropWhileReceiving(n) \/ ReceiveChunk(n) \/ ReceiveFails(n)
    \/ HandleNeed(n) \/ ReadFile(n) \/ SendChunk(n)

Pushes(n) ==
    \/ OnFolderChanged(n) \/ OnPeerConnected(n) \/ CatchUp(n) \/ PullFromPeers(n)
    \/ \E g \in Senders : SendManifest(n, g)

Users(n) == \E p \in UserPaths : Edit(n, p) \/ Delete(n, p)

Next ==
    \/ Connect \/ Disconnect \/ Tick
    \/ \E n \in Nodes : Restart(n) \/ Pushes(n) \/ Incomings(n) \/ Users(n)
        \/ \E S \in Strays : StrayNeed(n, S)

Spec == Init /\ [][Next]_vars

(***************************************************************************)
(* Fairness.  Goroutines that can run do run, a debounce timer fires, the  *)
(* 20 s ticker of peerDialLoop redials and calls CatchUp and               *)
(* PullFromPeers.  Nothing is assumed of users, of the clock, or of the    *)
(* network breaking.                                                       *)
(***************************************************************************)
Fairness ==
    /\ WF_vars(Connect)
    /\ \A n \in Nodes :
        /\ WF_vars(OnFolderChanged(n)) /\ WF_vars(OnPeerConnected(n))
        /\ WF_vars(CatchUp(n)) /\ WF_vars(PullFromPeers(n))
        /\ WF_vars(Incomings(n))
        /\ \A g \in Senders : WF_vars(SendManifest(n, g))

FairSpec == Spec /\ Fairness

-----------------------------------------------------------------------------
(* Properties *)

\* A path wanted by the receiver n is on its way: asked for in a NEED the peer
\* has not read, in the list sendFiles works through, or in a CHUNK.
Served(n, p) ==
    \/ \E i \in DOMAIN net[Other(n)] :
            net[Other(n)][i].type = "need" /\ p \in net[Other(n)][i].paths
    \/ pc[Other(n)] = "send" /\ p \in want[Other(n)]
    \/ \E i \in DOMAIN net[n] : net[n][i].type = "chunk" /\ net[n][i].path = p

(***************************************************************************)
(* receiveFile has no timeout: a HandleIncoming that waits for a file      *)
(* nobody will send waits until the connection breaks, and drops every     *)
(* manifest meanwhile.  So each file applyManifest still waits for must be *)
(* on its way (engine.go: applyManifest, receiveFile, sendFiles).          *)
(***************************************************************************)
ReceiverServed ==
    \A n \in Nodes : pc[n] = "receive" =>
        want[n] # {} /\ \A p \in want[n] : Served(n, p)

(***************************************************************************)
(* The tree of an engine that may not receive (a provider of a one-way     *)
(* group) is changed by its own user only, whatever the peer is configured *)
(* to do and whatever it sends (engine.go: HandleIncoming, receiveFile).   *)
(***************************************************************************)
OneWayRespected ==
    [][\A n \in Nodes : ~CanReceive(n) /\ disk'[n] # disk[n] =>
            n \in Editors /\ \E k \in {"edits", "deletes"} : used'[k] # used[k]]_vars

(***************************************************************************)
(* What an engine's ignore patterns match never leaves it: not in a        *)
(* manifest and not in a CHUNK, even when a NEED names it (see StrayNeed); *)
(* and the engine never asks for it, so the peer cannot overwrite it       *)
(* (engine.go: BuildFullManifest, sendFiles, applyManifest).               *)
(***************************************************************************)
IgnoredStaysLocal ==
    \A n \in Nodes :
        /\ \A g \in Senders : senders[n][g] # NoFile =>
                Listed(senders[n][g]) \cap Ignored[n] = {}
        /\ \A i \in DOMAIN net[Other(n)] : LET f == net[Other(n)][i] IN
                /\ f.type = "manifest" => Listed(f.files) \cap Ignored[n] = {}
                /\ f.type = "chunk" => f.path \notin Ignored[n]
        /\ want[n] \cap Ignored[n] = {}

(***************************************************************************)
(* A CHUNK carries the name of its file, and sendFiles may skip files the  *)
(* receiver waits for.  Still a content written under one name never       *)
(* appears under another one (engine.go: sendFiles, receiveFile).          *)
(***************************************************************************)
ContentKeepsItsPath ==
    \A m, n \in Nodes : \A p, q \in UserPaths :
        (Exists(m, p) /\ Exists(n, q) /\ disk[m][p].hash = disk[n][q].hash) => p = q

(***************************************************************************)
(* No file goes back to an earlier content: contents are numbered in the   *)
(* order in which the one user of Editors wrote them.  Data is read from   *)
(* disk after the NEED and travels in order, so a file an engine received  *)
(* is never replaced by an older version of it.                            *)
(***************************************************************************)
NeverRegresses ==
    [][\A n \in Nodes : \A p \in Paths :
        Exists(n, p) /\ disk'[n][p] # NoFile => disk'[n][p].hash >= disk[n][p].hash]_vars

\* Every file of n that both sides track is on the other side too.
Mirrored(n) ==
    \A p \in Tracked(n) \ Ignored[Other(n)] :
        Exists(Other(n), p) /\ disk[Other(n)][p].hash = disk[n][p].hash

(***************************************************************************)
(* After the users stop, what a sending engine has reaches a receiving     *)
(* one, however often the connection broke and the daemons restarted       *)
(* (engine.go: OnPeerConnected, OnFolderChanged, CatchUp).                 *)
(***************************************************************************)
Converges ==
    \A n \in Nodes : CanSend(n) /\ CanReceive(Other(n)) => <>[]Mirrored(n)
=============================================================================
