------------------------- MODULE SyncSessionProofs -------------------------
(***************************************************************************)
(* What two engines do to each other's files, for any set of paths, any    *)
(* contents, ignore patterns, configurations and bounds.                   *)
(*                                                                         *)
(* First, the state is well typed, what an engine ignores stays local, and *)
(* the tree of an engine that may not receive is its user's alone          *)
(* (IndInv).  A content stays under the name under which it was written    *)
(* (OriginInv).  In a one-way group whose files stay there and can be      *)
(* read, whatever a receiveFile waits for is on its way (ServiceInv):      *)
(* there is one NEED, or the CHUNKs it asks for, and no manifest that      *)
(* could disturb them.  And the versions of one author arrive in the order *)
(* in which he wrote them (AuthorInv), because they get older from his     *)
(* tree to the peer's.  Last, when nobody touches the files, whatever the  *)
(* consumer misses it waits for or is about to hear of, and what reaches   *)
(* it is what the provider has (MirrorInv): when all is quiet, the trees   *)
(* agree.                                                                  *)
(***************************************************************************)
EXTENDS SyncSession, SequenceTheorems, WellFoundedInduction, TLAPS

\* A frame that engine n wrote tells nothing of what n ignores.
Clean(n, f) ==
    /\ f.type = "manifest" => Listed(f.files) \cap Ignored[n] = {}
    /\ f.type = "chunk" => f.path \notin Ignored[n]

FramesTo(n) == {f \in Frame : Clean(Other(n), f)}
NetClean == \A n \in Nodes : net[n] \in Seq(FramesTo(n))

\* The manifests of sendManifest goroutines tell nothing either.
SendersClean ==
    \A n \in Nodes : \A g \in Senders :
        senders[n][g] # NoFile => Listed(senders[n][g]) \cap Ignored[n] = {}

\* receiveFile and sendFiles work on tracked paths, and have one left to do.
WantClean ==
    \A n \in Nodes :
        /\ want[n] \cap Ignored[n] = {}
        /\ pc[n] # "loop" => want[n] # {}

\* Only applyManifest gets HandleIncoming to wait for files.
ReceiverMayReceive == \A n \in Nodes : pc[n] = "receive" => CanReceive(n)

IndInv == TypeOK /\ NetClean /\ SendersClean /\ WantClean /\ ReceiverMayReceive

-----------------------------------------------------------------------------
(* The operators the actions are made of *)

\* Other is the peer, and the peer's peer is oneself.
LEMMA OtherNode ==
    ASSUME NEW n \in Nodes
    PROVE  Other(n) \in Nodes /\ Other(n) # n /\ Other(Other(n)) = n
<1>1. PICK x \in Nodes, y \in Nodes : x # y /\ Nodes = {x, y}
  BY ConstantsAssumption
<1>2. \A m \in Nodes : Other(m) \in Nodes /\ Other(m) # m
  BY <1>1 DEF Other
<1>. QED
  BY <1>1, <1>2

\* The first path of a list that is not empty is on the list, before all others.
LEMMA MinOfPaths ==
    ASSUME NEW S \in SUBSET Paths, S # {}
    PROVE  Min(S) \in S /\ \A q \in S \ {Min(S)} : Min(S) < q
<1>1. S \subseteq Nat
  BY ConstantsAssumption
<1>. DEFINE R == {ss \in Nat \X Nat : ss[1] < ss[2]}
<1>2. IsWellFoundedOn(R, Nat)
  BY NatLessThanWellFounded DEF OpToRel
<1>3. \A x, y \in S : y < x => <<y, x>> \in R
  BY <1>1
<1>. HIDE DEF R
<1>4. PICK x \in S : \A y \in S : ~(<<y, x>> \in R)
  BY <1>1, <1>2, WFMin
<1>5. \A y \in S : ~(y < x)
  BY <1>3, <1>4, Zenon
<1>6. \A y \in S : x <= y
  BY <1>1, <1>5
<1>7. Min(S) \in S /\ \A y \in S : Min(S) <= y
  BY <1>6 DEF Min
<1>8. PICK m \in S : m = Min(S) /\ \A y \in S : m <= y
  BY <1>7
<1>9. \A y \in S \ {m} : m < y
  BY <1>1, <1>8
<1>. QED
  BY <1>7, <1>8, <1>9, Zenon

\* The fields of a frame have the types its type says.
LEMMA FrameFields ==
    ASSUME NEW f \in Frame
    PROVE  /\ f.type = "manifest" => f.files \in Manifest
           /\ f.type = "need" => f.paths \in SUBSET Paths
           /\ f.type = "chunk" => f.path \in Paths /\ f.data \in Nat
  BY DEF Frame

\* What is left after reading a frame are frames.
LEMMA ConsumeKeeps ==
    ASSUME IndInv, NEW n \in Nodes, net[n] # <<>>, Consume(n)
    PROVE  net' \in [Nodes -> Seq(Frame)] /\ NetClean' /\ Head(net[n]) \in FramesTo(n)
<1>1. net \in [Nodes -> Seq(Frame)] /\ \A m \in Nodes : net[m] \in Seq(FramesTo(m))
  BY DEF IndInv, TypeOK, NetClean
<1>2. Tail(net[n]) \in Seq(FramesTo(n)) /\ Head(net[n]) \in FramesTo(n)
  BY <1>1, HeadTailProperties
<1>3. Tail(net[n]) \in Seq(Frame)
  BY <1>1, HeadTailProperties
<1>. QED
  BY <1>1, <1>2, <1>3 DEF Consume, NetClean, FramesTo, Clean

\* Writing a clean frame keeps the connection clean.
LEMMA WriteKeeps ==
    ASSUME IndInv, NEW n \in Nodes, NEW f \in Frame, Clean(n, f), Write(Other(n), f)
    PROVE  net' \in [Nodes -> Seq(Frame)] /\ NetClean'
<1>1. net \in [Nodes -> Seq(Frame)] /\ \A m \in Nodes : net[m] \in Seq(FramesTo(m))
  BY DEF IndInv, TypeOK, NetClean
<1>2. Other(n) \in Nodes /\ f \in FramesTo(Other(n))
  BY OtherNode DEF FramesTo
<1>3. Append(net[Other(n)], f) \in Seq(FramesTo(Other(n)))
  BY <1>1, <1>2, AppendProperties
<1>4. Append(net[Other(n)], f) \in Seq(Frame)
  BY <1>1, <1>2, AppendProperties
<1>. QED
  BY <1>1, <1>2, <1>3, <1>4 DEF Write, NetClean, FramesTo, Clean

\* So does answering one.
LEMMA ReplyKeeps ==
    ASSUME IndInv, NEW n \in Nodes, net[n] # <<>>, NEW f \in Frame, Clean(n, f), Reply(n, f)
    PROVE  net' \in [Nodes -> Seq(Frame)] /\ NetClean'
<1>1. net \in [Nodes -> Seq(Frame)] /\ \A m \in Nodes : net[m] \in Seq(FramesTo(m))
  BY DEF IndInv, TypeOK, NetClean
<1>2. Other(n) \in Nodes /\ Other(n) # n /\ f \in FramesTo(Other(n))
  BY OtherNode DEF FramesTo
<1>3. Tail(net[n]) \in Seq(FramesTo(n)) /\ Append(net[Other(n)], f) \in Seq(FramesTo(Other(n)))
  BY <1>1, <1>2, HeadTailProperties, AppendProperties
<1>4. Tail(net[n]) \in Seq(Frame) /\ Append(net[Other(n)], f) \in Seq(Frame)
  BY <1>1, <1>2, HeadTailProperties, AppendProperties
<1>. QED
  BY <1>1, <1>2, <1>3, <1>4 DEF Reply, NetClean, FramesTo, Clean

\* The store holds what is on disk.
LEMMA UpsertType ==
    ASSUME TypeOK, NEW n \in Nodes, NEW S, Upsert(n, S)
    PROVE  store' \in [Nodes -> Tree]
  BY DEF TypeOK, Upsert, Tree

\* The goroutines that announce tracked paths carry clean manifests.
LEMMA AnnounceKeeps ==
    ASSUME IndInv, NEW n \in Nodes, NEW S \in SUBSET Tracked(n), Announce(n, S)
    PROVE  senders' \in [Nodes -> [Senders -> Manifest \cup {NoFile}]] /\ SendersClean'
<1>1. Entries(n, S) \in Manifest /\ Listed(Entries(n, S)) \cap Ignored[n] = {}
  BY DEF IndInv, TypeOK, Entries, Listed, Manifest, Tree, Tracked, Exists
<1>2. CASE UNCHANGED senders
  BY <1>2 DEF IndInv, TypeOK, SendersClean
<1>3. ASSUME NEW g \in Senders, senders' = [senders EXCEPT ![n][g] = Entries(n, S)]
      PROVE  senders' \in [Nodes -> [Senders -> Manifest \cup {NoFile}]] /\ SendersClean'
  BY <1>1, <1>3 DEF IndInv, TypeOK, SendersClean
<1>. QED
  BY <1>2, <1>3 DEF Announce

\* Renaming conflicting files moves files.
LEMMA RenamedType ==
    ASSUME NEW tree \in Tree, NEW C \in SUBSET Paths
    PROVE  WithConflictsRenamed(tree, C) \in Tree
<1>1. ASSUME NEW q \in Paths
      PROVE  WithConflictsRenamed(tree, C)[q] \in File \cup {NoFile}
  <2>1. CASE \E p \in C : ConflictName[<<p, now>>] = q
    <3>1. (CHOOSE p \in C : ConflictName[<<p, now>>] = q) \in C
      BY <2>1
    <3>. QED
      BY <2>1, <3>1 DEF WithConflictsRenamed, Tree
  <2>2. CASE ~\E p \in C : ConflictName[<<p, now>>] = q
    BY <2>2 DEF WithConflictsRenamed, Tree
  <2>. QED
    BY <2>1, <2>2
<1>. QED
  BY <1>1 DEF WithConflictsRenamed, Tree

-----------------------------------------------------------------------------
(* Every action keeps the invariant *)

\* A new connection is empty, or holds the HELLOs.
LEMMA ConnectKeeps ==
    ASSUME IndInv, Connect
    PROVE  IndInv'
<1>. DEFINE hello == [type |-> "hello"]
<1>a. \A n \in Nodes : hello \in FramesTo(n)
  BY DEF FramesTo, Clean, Frame
<1>b. \A n \in Nodes : <<hello>> \in Seq(FramesTo(n)) /\ <<>> \in Seq(FramesTo(n))
  BY <1>a
<1>c. <<hello>> \in Seq(Frame) /\ <<>> \in Seq(Frame)
  BY DEF Frame
<1>d. greet' \in [Nodes -> Nat] /\ used' \in [Budgets -> Nat]
  BY DEF IndInv, TypeOK, Connect, Budgets
<1>1. net' \in [Nodes -> Seq(Frame)] /\ NetClean'
  BY <1>b, <1>c DEF NetClean, Connect
<1>2. senders' \in [Nodes -> [Senders -> Manifest \cup {NoFile}]] /\ SendersClean'
  BY DEF IndInv, TypeOK, Connect, handlerVars, SendersClean
<1>3. TypeOK'
  BY <1>1, <1>2, <1>d DEF IndInv, TypeOK, Connect, handlerVars
<1>4. WantClean'
  BY DEF IndInv, TypeOK, Connect, handlerVars, WantClean
<1>5. ReceiverMayReceive'
  BY DEF IndInv, TypeOK, Connect, handlerVars, ReceiverMayReceive, CanReceive, Bidirectional
<1>. QED
  BY <1>1, <1>2, <1>3, <1>4, <1>5 DEF IndInv

\* A connection that breaks leaves nothing behind.
LEMMA DisconnectKeeps ==
    ASSUME IndInv, Disconnect
    PROVE  IndInv'
<1>1. net' \in [Nodes -> Seq(Frame)] /\ NetClean'
  BY DEF IndInv, TypeOK, Disconnect, DropConnection, NetClean
<1>2. senders' \in [Nodes -> [Senders -> Manifest \cup {NoFile}]] /\ SendersClean'
  BY DEF IndInv, TypeOK, Disconnect, DropConnection, SendersClean
<1>3. TypeOK'
  BY <1>1, <1>2 DEF IndInv, TypeOK, Disconnect, DropConnection
<1>4. WantClean'
  BY DEF IndInv, TypeOK, Disconnect, DropConnection, WantClean
<1>5. ReceiverMayReceive'
  BY DEF IndInv, TypeOK, Disconnect, DropConnection, ReceiverMayReceive, CanReceive, Bidirectional
<1>. QED
  BY <1>1, <1>2, <1>3, <1>4, <1>5 DEF IndInv

\* Neither does a daemon that restarts.
LEMMA RestartKeeps ==
    ASSUME IndInv, NEW n \in Nodes, Restart(n)
    PROVE  IndInv'
<1>1. net' \in [Nodes -> Seq(Frame)] /\ NetClean'
  BY DEF IndInv, TypeOK, Restart, DropConnection, Tree, NetClean
<1>2. senders' \in [Nodes -> [Senders -> Manifest \cup {NoFile}]] /\ SendersClean'
  BY DEF IndInv, TypeOK, Restart, DropConnection, Tree, SendersClean
<1>3. TypeOK'
  BY <1>1, <1>2, UpsertType DEF IndInv, TypeOK, Restart, DropConnection
<1>4. WantClean'
  BY DEF IndInv, TypeOK, Restart, DropConnection, Tree, WantClean
<1>5. ReceiverMayReceive'
  BY DEF IndInv, TypeOK, Restart, DropConnection, Tree, ReceiverMayReceive, CanReceive,
         Bidirectional
<1>. QED
  BY <1>1, <1>2, <1>3, <1>4, <1>5 DEF IndInv

\* Time passes.
LEMMA TickKeeps ==
    ASSUME IndInv, Tick
    PROVE  IndInv'
<1>1. net' \in [Nodes -> Seq(Frame)] /\ NetClean'
  BY DEF IndInv, TypeOK, Tick, handlerVars, NetClean
<1>2. senders' \in [Nodes -> [Senders -> Manifest \cup {NoFile}]] /\ SendersClean'
  BY DEF IndInv, TypeOK, Tick, handlerVars, SendersClean
<1>3. TypeOK'
  BY <1>1, <1>2 DEF IndInv, TypeOK, Tick, handlerVars
<1>4. WantClean'
  BY DEF IndInv, TypeOK, Tick, handlerVars, WantClean
<1>5. ReceiverMayReceive'
  BY DEF IndInv, TypeOK, Tick, handlerVars, ReceiverMayReceive, CanReceive, Bidirectional
<1>. QED
  BY <1>1, <1>2, <1>3, <1>4, <1>5 DEF IndInv

\* A folder change announces tracked files only.
LEMMA OnFolderChangedKeeps ==
    ASSUME IndInv, NEW n \in Nodes, OnFolderChanged(n)
    PROVE  IndInv'
<1>1. net' \in [Nodes -> Seq(Frame)] /\ NetClean'
  BY DEF IndInv, TypeOK, OnFolderChanged, handlerVars, NetClean
<1>2. senders' \in [Nodes -> [Senders -> Manifest \cup {NoFile}]] /\ SendersClean'
  BY AnnounceKeeps DEF IndInv, TypeOK, SendersClean, OnFolderChanged, BroadcastFolder
<1>3. TypeOK'
  BY <1>1, <1>2, UpsertType DEF IndInv, TypeOK, OnFolderChanged, BroadcastFolder, handlerVars
<1>4. WantClean'
  BY DEF IndInv, TypeOK, OnFolderChanged, handlerVars, WantClean
<1>5. ReceiverMayReceive'
  BY DEF IndInv, TypeOK, OnFolderChanged, handlerVars, ReceiverMayReceive, CanReceive, Bidirectional
<1>. QED
  BY <1>1, <1>2, <1>3, <1>4, <1>5 DEF IndInv

\* So does the initial push.
LEMMA OnPeerConnectedKeeps ==
    ASSUME IndInv, NEW n \in Nodes, OnPeerConnected(n)
    PROVE  IndInv'
<1>a. greet' \in [Nodes -> Nat]
  BY DEF IndInv, TypeOK, OnPeerConnected
<1>1. net' \in [Nodes -> Seq(Frame)] /\ NetClean'
  BY DEF IndInv, TypeOK, OnPeerConnected, handlerVars, NetClean
<1>2. senders' \in [Nodes -> [Senders -> Manifest \cup {NoFile}]] /\ SendersClean'
  BY AnnounceKeeps DEF OnPeerConnected, BroadcastFolder
<1>3. TypeOK'
  BY <1>1, <1>2, <1>a, UpsertType DEF IndInv, TypeOK, OnPeerConnected, BroadcastFolder, handlerVars
<1>4. WantClean'
  BY DEF IndInv, TypeOK, OnPeerConnected, handlerVars, WantClean
<1>5. ReceiverMayReceive'
  BY DEF IndInv, TypeOK, OnPeerConnected, handlerVars, ReceiverMayReceive, CanReceive, Bidirectional
<1>. QED
  BY <1>1, <1>2, <1>3, <1>4, <1>5 DEF IndInv

\* So does CatchUp.
LEMMA CatchUpKeeps ==
    ASSUME IndInv, NEW n \in Nodes, CatchUp(n)
    PROVE  IndInv'
<1>1. net' \in [Nodes -> Seq(Frame)] /\ NetClean'
  BY DEF IndInv, TypeOK, CatchUp, handlerVars, NetClean
<1>2. senders' \in [Nodes -> [Senders -> Manifest \cup {NoFile}]] /\ SendersClean'
  BY AnnounceKeeps DEF CatchUp, Stale
<1>3. TypeOK'
  BY <1>1, <1>2, UpsertType DEF IndInv, TypeOK, CatchUp, handlerVars
<1>4. WantClean'
  BY DEF IndInv, TypeOK, CatchUp, handlerVars, WantClean
<1>5. ReceiverMayReceive'
  BY DEF IndInv, TypeOK, CatchUp, handlerVars, ReceiverMayReceive, CanReceive, Bidirectional
<1>. QED
  BY <1>1, <1>2, <1>3, <1>4, <1>5 DEF IndInv

\* The manifest a goroutine carries is clean.
LEMMA SendManifestKeeps ==
    ASSUME IndInv, NEW n \in Nodes, NEW g \in Senders, SendManifest(n, g)
    PROVE  IndInv'
<1>. DEFINE f == [type |-> "manifest", files |-> senders[n][g]]
<1>0. f \in Frame /\ Clean(n, f)
  BY DEF IndInv, TypeOK, SendersClean, SendManifest, Frame, Clean
<1>1. net' \in [Nodes -> Seq(Frame)] /\ NetClean'
  BY <1>0, WriteKeeps DEF SendManifest
<1>2. senders' \in [Nodes -> [Senders -> Manifest \cup {NoFile}]] /\ SendersClean'
  BY DEF IndInv, TypeOK, SendManifest, handlerVars, SendersClean
<1>3. TypeOK'
  BY <1>1, <1>2 DEF IndInv, TypeOK, SendManifest, handlerVars
<1>4. WantClean'
  BY DEF IndInv, TypeOK, SendManifest, handlerVars, WantClean
<1>5. ReceiverMayReceive'
  BY DEF IndInv, TypeOK, SendManifest, handlerVars, ReceiverMayReceive, CanReceive, Bidirectional
<1>. QED
  BY <1>1, <1>2, <1>3, <1>4, <1>5 DEF IndInv

\* A pull pings.
LEMMA PullFromPeersKeeps ==
    ASSUME IndInv, NEW n \in Nodes, PullFromPeers(n)
    PROVE  IndInv'
<1>. DEFINE f == [type |-> "ping"]
<1>0. f \in Frame /\ Clean(n, f)
  BY DEF Frame, Clean
<1>1. net' \in [Nodes -> Seq(Frame)] /\ NetClean'
  BY <1>0, WriteKeeps DEF IndInv, TypeOK, NetClean, PullFromPeers
<1>2. senders' \in [Nodes -> [Senders -> Manifest \cup {NoFile}]] /\ SendersClean'
  BY DEF IndInv, TypeOK, PullFromPeers, handlerVars, SendersClean
<1>3. TypeOK'
  <2>1. store' \in [Nodes -> Tree]
    BY UpsertType DEF IndInv, PullFromPeers
  <2>2. used' \in [Budgets -> Nat]
    BY DEF IndInv, TypeOK, PullFromPeers, Budgets
  <2>. QED
    BY <1>1, <1>2, <2>1, <2>2 DEF IndInv, TypeOK, PullFromPeers, handlerVars
<1>4. WantClean'
  BY DEF IndInv, TypeOK, PullFromPeers, handlerVars, WantClean
<1>5. ReceiverMayReceive'
  BY DEF IndInv, TypeOK, PullFromPeers, handlerVars, ReceiverMayReceive, CanReceive, Bidirectional
<1>. QED
  BY <1>1, <1>2, <1>3, <1>4, <1>5 DEF IndInv

\* A HELLO is read.
LEMMA HandleHelloKeeps ==
    ASSUME IndInv, NEW n \in Nodes, HandleHello(n)
    PROVE  IndInv'
<1>a. greet' \in [Nodes -> Nat]
  BY DEF IndInv, TypeOK, HandleHello
<1>1. net' \in [Nodes -> Seq(Frame)] /\ NetClean'
  BY ConsumeKeeps DEF HandleHello, Incoming
<1>2. senders' \in [Nodes -> [Senders -> Manifest \cup {NoFile}]] /\ SendersClean'
  BY DEF IndInv, TypeOK, HandleHello, handlerVars, SendersClean
<1>3. TypeOK'
  BY <1>1, <1>2, <1>a DEF IndInv, TypeOK, HandleHello, handlerVars
<1>4. WantClean'
  BY DEF IndInv, TypeOK, HandleHello, handlerVars, WantClean
<1>5. ReceiverMayReceive'
  BY DEF IndInv, TypeOK, HandleHello, handlerVars, ReceiverMayReceive, CanReceive, Bidirectional
<1>. QED
  BY <1>1, <1>2, <1>3, <1>4, <1>5 DEF IndInv

\* A PING is answered.
LEMMA HandlePingKeeps ==
    ASSUME IndInv, NEW n \in Nodes, HandlePing(n)
    PROVE  IndInv'
<1>. DEFINE f == [type |-> "ping"]
<1>0. f \in Frame /\ Clean(n, f)
  BY DEF Frame, Clean
<1>1. net' \in [Nodes -> Seq(Frame)] /\ NetClean'
  BY <1>0, ReplyKeeps DEF HandlePing, Incoming
<1>2. senders' \in [Nodes -> [Senders -> Manifest \cup {NoFile}]] /\ SendersClean'
  BY DEF IndInv, TypeOK, HandlePing, handlerVars, SendersClean
<1>3. TypeOK'
  BY <1>1, <1>2 DEF IndInv, TypeOK, HandlePing, handlerVars
<1>4. WantClean'
  BY DEF IndInv, TypeOK, HandlePing, handlerVars, WantClean
<1>5. ReceiverMayReceive'
  BY DEF IndInv, TypeOK, HandlePing, handlerVars, ReceiverMayReceive, CanReceive, Bidirectional
<1>. QED
  BY <1>1, <1>2, <1>3, <1>4, <1>5 DEF IndInv

\* A frame is dropped by the loop.
LEMMA SkipFrameKeeps ==
    ASSUME IndInv, NEW n \in Nodes, SkipFrame(n)
    PROVE  IndInv'
<1>1. net' \in [Nodes -> Seq(Frame)] /\ NetClean'
  BY ConsumeKeeps DEF SkipFrame, Incoming
<1>2. senders' \in [Nodes -> [Senders -> Manifest \cup {NoFile}]] /\ SendersClean'
  BY DEF IndInv, TypeOK, SkipFrame, handlerVars, SendersClean
<1>3. TypeOK'
  BY <1>1, <1>2 DEF IndInv, TypeOK, SkipFrame, handlerVars
<1>4. WantClean'
  BY DEF IndInv, TypeOK, SkipFrame, handlerVars, WantClean
<1>5. ReceiverMayReceive'
  BY DEF IndInv, TypeOK, SkipFrame, handlerVars, ReceiverMayReceive, CanReceive, Bidirectional
<1>. QED
  BY <1>1, <1>2, <1>3, <1>4, <1>5 DEF IndInv

\* applyManifest asks for tracked files only, and only where the role allows it.
LEMMA ApplyManifestKeeps ==
    ASSUME IndInv, NEW n \in Nodes, ApplyManifest(n)
    PROVE  IndInv'
<1>. DEFINE files == Head(net[n]).files
              needed == Needed(n, files)
              f == [type |-> "need", paths |-> needed]
<1>a. net[n] # <<>> /\ Head(net[n]) \in Frame /\ files \in Manifest
  BY HeadTailProperties, FrameFields DEF IndInv, TypeOK, ApplyManifest, ApplyFiles, Incoming
<1>b. needed \subseteq Paths \ Ignored[n]
  BY DEF Needed, Differing, Listed
<1>c. f \in Frame /\ Clean(n, f)
  BY <1>b DEF Frame, Clean
<1>d. WithConflictsRenamed(disk[n], Conflicts(n, files)) \in Tree
  BY RenamedType DEF IndInv, TypeOK, Conflicts, Differing, Listed
<1>1. net' \in [Nodes -> Seq(Frame)] /\ NetClean'
  BY <1>a, <1>c, ConsumeKeeps, ReplyKeeps DEF ApplyManifest, ApplyFiles
<1>2. senders' \in [Nodes -> [Senders -> Manifest \cup {NoFile}]] /\ SendersClean'
  BY DEF IndInv, TypeOK, ApplyManifest, ApplyFiles, SendersClean
<1>3. TypeOK'
  BY <1>1, <1>2, <1>b, <1>d DEF IndInv, TypeOK, ApplyManifest, ApplyFiles
<1>4. WantClean'
  BY <1>b DEF IndInv, TypeOK, WantClean, ApplyManifest, ApplyFiles
<1>5. ReceiverMayReceive'
  BY DEF IndInv, TypeOK, ApplyManifest, ApplyFiles, ReceiverMayReceive, CanReceive, Bidirectional
<1>. QED
  BY <1>1, <1>2, <1>3, <1>4, <1>5 DEF IndInv

\* receiveFile drops a frame.
LEMMA DropWhileReceivingKeeps ==
    ASSUME IndInv, NEW n \in Nodes, DropWhileReceiving(n)
    PROVE  IndInv'
<1>1. net' \in [Nodes -> Seq(Frame)] /\ NetClean'
  BY ConsumeKeeps DEF DropWhileReceiving, Incoming
<1>2. senders' \in [Nodes -> [Senders -> Manifest \cup {NoFile}]] /\ SendersClean'
  BY DEF IndInv, TypeOK, DropWhileReceiving, handlerVars, SendersClean
<1>3. TypeOK'
  BY <1>1, <1>2 DEF IndInv, TypeOK, DropWhileReceiving, handlerVars
<1>4. WantClean'
  BY DEF IndInv, TypeOK, DropWhileReceiving, handlerVars, WantClean
<1>5. ReceiverMayReceive'
  BY DEF IndInv, TypeOK, DropWhileReceiving, handlerVars, ReceiverMayReceive, CanReceive,
         Bidirectional
<1>. QED
  BY <1>1, <1>2, <1>3, <1>4, <1>5 DEF IndInv

\* receiveFile stores the file it waits for.
LEMMA ReceiveChunkKeeps ==
    ASSUME IndInv, NEW n \in Nodes, ReceiveChunk(n)
    PROVE  IndInv'
<1>a. Head(net[n]).data \in Nat
  BY HeadTailProperties, FrameFields DEF IndInv, TypeOK, ReceiveChunk, StoreChunk, Incoming
<1>b. Awaited(n) \in want[n] /\ want[n] \subseteq Paths
  BY MinOfPaths DEF IndInv, TypeOK, WantClean, Awaited, ReceiveChunk, StoreChunk, Incoming
<1>1. net' \in [Nodes -> Seq(Frame)] /\ NetClean'
  BY ConsumeKeeps DEF ReceiveChunk, StoreChunk, Incoming
<1>2. senders' \in [Nodes -> [Senders -> Manifest \cup {NoFile}]] /\ SendersClean'
  BY DEF IndInv, TypeOK, ReceiveChunk, StoreChunk, AwaitNext, Incoming, SendersClean
<1>3. TypeOK'
  BY <1>1, <1>2, <1>a, <1>b DEF IndInv, TypeOK, ReceiveChunk, StoreChunk, AwaitNext, Tree, File
<1>4. WantClean'
  BY DEF IndInv, TypeOK, ReceiveChunk, StoreChunk, AwaitNext, Incoming, WantClean
<1>5. ReceiverMayReceive'
  BY DEF IndInv, TypeOK, ReceiveChunk, StoreChunk, AwaitNext, Incoming, ReceiverMayReceive,
         CanReceive, Bidirectional
<1>. QED
  BY <1>1, <1>2, <1>3, <1>4, <1>5 DEF IndInv

\* receiveFile gives up.
LEMMA ReceiveFailsKeeps ==
    ASSUME IndInv, NEW n \in Nodes, ReceiveFails(n)
    PROVE  IndInv'
<1>a. used' \in [Budgets -> Nat]
  BY DEF IndInv, TypeOK, ReceiveFails, Fault, Budgets
<1>1. net' \in [Nodes -> Seq(Frame)] /\ NetClean'
  BY ConsumeKeeps DEF ReceiveFails, Incoming
<1>2. senders' \in [Nodes -> [Senders -> Manifest \cup {NoFile}]] /\ SendersClean'
  BY DEF IndInv, TypeOK, ReceiveFails, AwaitNext, Fault, Budgets, SendersClean
<1>3. TypeOK'
  BY <1>1, <1>2, <1>a DEF IndInv, TypeOK, ReceiveFails, AwaitNext
<1>4. WantClean'
  BY DEF IndInv, TypeOK, ReceiveFails, AwaitNext, Fault, Budgets, WantClean
<1>5. ReceiverMayReceive'
  BY DEF IndInv, TypeOK, ReceiveFails, AwaitNext, Fault, Budgets, ReceiverMayReceive, CanReceive,
         Bidirectional
<1>. QED
  BY <1>1, <1>2, <1>3, <1>4, <1>5 DEF IndInv

\* sendFiles leaves out what is ignored, whatever the NEED says.
LEMMA HandleNeedKeeps ==
    ASSUME IndInv, NEW n \in Nodes, HandleNeed(n)
    PROVE  IndInv'
<1>a. Head(net[n]).paths \in SUBSET Paths
  BY HeadTailProperties, FrameFields DEF IndInv, TypeOK, HandleNeed, Incoming
<1>1. net' \in [Nodes -> Seq(Frame)] /\ NetClean'
  BY ConsumeKeeps DEF HandleNeed, Incoming
<1>2. senders' \in [Nodes -> [Senders -> Manifest \cup {NoFile}]] /\ SendersClean'
  BY DEF IndInv, TypeOK, HandleNeed, SendersClean
<1>3. TypeOK'
  BY <1>1, <1>2, <1>a DEF IndInv, TypeOK, HandleNeed, Granted
<1>4. WantClean'
  BY DEF IndInv, TypeOK, HandleNeed, Granted, WantClean
<1>5. ReceiverMayReceive'
  BY DEF IndInv, TypeOK, HandleNeed, Granted, ReceiverMayReceive, CanReceive, Bidirectional
<1>. QED
  BY <1>1, <1>2, <1>3, <1>4, <1>5 DEF IndInv

\* sendFiles reads a file, or skips it.
LEMMA ReadFileKeeps ==
    ASSUME IndInv, NEW n \in Nodes, ReadFile(n)
    PROVE  IndInv'
<1>a. Min(want[n]) \in want[n] /\ want[n] \subseteq Paths
  BY MinOfPaths DEF IndInv, TypeOK, WantClean, ReadFile
<1>b. used' \in [Budgets -> Nat]
  BY DEF IndInv, TypeOK, ReadFile, Fault, Budgets
<1>c. buf' \in [Nodes -> Nat \cup {NoFile}]
  <2>1. disk[n][Min(want[n])] \in File \cup {NoFile}
    BY <1>a DEF IndInv, TypeOK, Tree
  <2>2. CASE UNCHANGED buf
    BY <2>2 DEF IndInv, TypeOK
  <2>3. CASE Exists(n, Min(want[n])) /\ buf' = [buf EXCEPT ![n] = disk[n][Min(want[n])].hash]
    <3>1. disk[n][Min(want[n])].hash \in Nat
      BY <2>1, <2>3 DEF Exists, File
    <3>. QED
      BY <2>3, <3>1 DEF IndInv, TypeOK
  <2>. QED
    BY <2>2, <2>3 DEF ReadFile
<1>d. \/ UNCHANGED <<pc, want>>
      \/ /\ want' = [want EXCEPT ![n] = @ \ {Min(want[n])}]
         /\ pc' = [pc EXCEPT ![n] = IF want[n] = {Min(want[n])} THEN "loop" ELSE "send"]
  BY DEF ReadFile, SentOrSkipped
<1>1. net' \in [Nodes -> Seq(Frame)] /\ NetClean'
  BY DEF IndInv, TypeOK, ReadFile, SentOrSkipped, Fault, Budgets, NetClean
<1>2. senders' \in [Nodes -> [Senders -> Manifest \cup {NoFile}]] /\ SendersClean'
  BY DEF IndInv, TypeOK, ReadFile, SentOrSkipped, Fault, Budgets, SendersClean
<1>3. TypeOK'
  <2>0. pc \in [Nodes -> {"loop", "receive", "send"}] /\ want \in [Nodes -> SUBSET Paths]
    BY DEF IndInv, TypeOK
  <2>1. pc' \in [Nodes -> {"loop", "receive", "send"}] /\ want' \in [Nodes -> SUBSET Paths]
    BY <1>d, <2>0
  <2>2. UNCHANGED <<cfg, disk, store, dirty, now, up, greet>>
    BY DEF ReadFile
  <2>. QED
    BY <1>1, <1>2, <1>b, <1>c, <2>1, <2>2 DEF IndInv, TypeOK
<1>4. WantClean'
  <2>1. CASE UNCHANGED <<pc, want>>
    BY <2>1 DEF IndInv, WantClean
  <2>2. CASE /\ want' = [want EXCEPT ![n] = @ \ {Min(want[n])}]
             /\ pc' = [pc EXCEPT ![n] = IF want[n] = {Min(want[n])} THEN "loop" ELSE "send"]
    BY <1>a, <2>2 DEF IndInv, TypeOK, WantClean
  <2>. QED
    BY <1>d, <2>1, <2>2
<1>5. ReceiverMayReceive'
  BY DEF IndInv, TypeOK, ReadFile, SentOrSkipped, Fault, Budgets, ReceiverMayReceive, CanReceive,
         Bidirectional
<1>. QED
  BY <1>1, <1>2, <1>3, <1>4, <1>5 DEF IndInv

\* The CHUNK of a file that is not ignored is clean.
LEMMA SendChunkKeeps ==
    ASSUME IndInv, NEW n \in Nodes, SendChunk(n)
    PROVE  IndInv'
<1>. DEFINE f == [type |-> "chunk", path |-> Min(want[n]), data |-> buf[n]]
<1>a. Min(want[n]) \in want[n] /\ want[n] \subseteq Paths
  BY MinOfPaths DEF IndInv, TypeOK, WantClean, SendChunk
<1>b. f \in Frame /\ Clean(n, f)
  BY <1>a DEF IndInv, TypeOK, WantClean, SendChunk, Frame, Clean
<1>1. net' \in [Nodes -> Seq(Frame)] /\ NetClean'
  BY <1>b, WriteKeeps DEF SendChunk
<1>2. senders' \in [Nodes -> [Senders -> Manifest \cup {NoFile}]] /\ SendersClean'
  BY DEF IndInv, TypeOK, SendChunk, SentOrSkipped, SendersClean
<1>3. TypeOK'
  BY <1>1, <1>2 DEF IndInv, TypeOK, SendChunk, SentOrSkipped
<1>4. WantClean'
  BY <1>a DEF IndInv, TypeOK, WantClean, SendChunk, SentOrSkipped
<1>5. ReceiverMayReceive'
  BY DEF IndInv, TypeOK, SendChunk, SentOrSkipped, ReceiverMayReceive, CanReceive, Bidirectional
<1>. QED
  BY <1>1, <1>2, <1>3, <1>4, <1>5 DEF IndInv

\* A user writes a file.
LEMMA EditKeeps ==
    ASSUME IndInv, NEW n \in Nodes, NEW p \in UserPaths, Edit(n, p)
    PROVE  IndInv'
<1>a. [hash |-> used["edits"] + 1, mtime |-> now] \in File /\ p \in Paths
  BY ConstantsAssumption DEF IndInv, TypeOK, File, Budgets
<1>b. disk' \in [Nodes -> Tree]
  BY <1>a DEF IndInv, TypeOK, Edit, Tree
<1>c. used' \in [Budgets -> Nat]
  BY DEF IndInv, TypeOK, Edit, Budgets
<1>d. dirty' \in [Nodes -> BOOLEAN]
  BY DEF IndInv, TypeOK, Edit
<1>1. net' \in [Nodes -> Seq(Frame)] /\ NetClean'
  BY DEF IndInv, TypeOK, Edit, handlerVars, NetClean
<1>2. senders' \in [Nodes -> [Senders -> Manifest \cup {NoFile}]] /\ SendersClean'
  BY DEF IndInv, TypeOK, Edit, handlerVars, SendersClean
<1>3. TypeOK'
  BY <1>1, <1>2, <1>b, <1>c, <1>d DEF IndInv, TypeOK, Edit, handlerVars
<1>4. WantClean'
  BY DEF IndInv, TypeOK, Edit, handlerVars, WantClean
<1>5. ReceiverMayReceive'
  BY DEF IndInv, TypeOK, Edit, handlerVars, ReceiverMayReceive, CanReceive, Bidirectional
<1>. QED
  BY <1>1, <1>2, <1>3, <1>4, <1>5 DEF IndInv

\* A user removes one.
LEMMA DeleteKeeps ==
    ASSUME IndInv, NEW n \in Nodes, NEW p \in UserPaths, Delete(n, p)
    PROVE  IndInv'
<1>1. net' \in [Nodes -> Seq(Frame)] /\ NetClean'
  BY DEF IndInv, TypeOK, Delete, handlerVars, NetClean
<1>2. senders' \in [Nodes -> [Senders -> Manifest \cup {NoFile}]] /\ SendersClean'
  BY DEF IndInv, TypeOK, Delete, handlerVars, SendersClean
<1>3. TypeOK'
  BY <1>1, <1>2, ConstantsAssumption DEF IndInv, TypeOK, Delete, Tree, Budgets, handlerVars
<1>4. WantClean'
  BY DEF IndInv, TypeOK, Delete, handlerVars, WantClean
<1>5. ReceiverMayReceive'
  BY DEF IndInv, TypeOK, Delete, handlerVars, ReceiverMayReceive, CanReceive, Bidirectional
<1>. QED
  BY <1>1, <1>2, <1>3, <1>4, <1>5 DEF IndInv

-----------------------------------------------------------------------------
(* Types, what is ignored, and the tree of a provider *)

\* A NEED nobody announced anything for arrives.
Stray == \E n \in Nodes : \E S \in Strays : StrayNeed(n, S)

LEMMA StrayFrame ==
    ASSUME TypeOK, Stray
    PROVE  /\ UNCHANGED <<cfg, disk, store, dirty, now, up, handlerVars, greet, senders>>
           /\ up /\ used' \in [Budgets -> Nat] /\ used'["edits"] = used["edits"]
           /\ \E n \in Nodes : \E f \in Frame : f.type = "need" /\ Write(n, f)
<1>1. PICK n \in Nodes, S \in Strays : StrayNeed(n, S)
  BY DEF Stray
<1>. DEFINE f == [type |-> "need", paths |-> S]
<1>2. f \in Frame /\ f.type = "need"
  BY ConstantsAssumption DEF Frame
<1>3. Write(n, f)
  BY <1>1 DEF StrayNeed
<1>4. used \in [Budgets -> Nat] /\ used' = [used EXCEPT !["asks"] = @ + 1]
  BY <1>1 DEF StrayNeed, TypeOK
<1>5. used' \in [Budgets -> Nat] /\ used'["edits"] = used["edits"]
  BY <1>4 DEF Budgets
<1>6. up /\ UNCHANGED <<cfg, disk, store, dirty, now, up, handlerVars, greet, senders>>
  BY <1>1 DEF StrayNeed
<1>. HIDE DEF f
<1>. QED
  BY <1>2, <1>3, <1>5, <1>6

LEMMA StrayKeeps == IndInv /\ Stray => IndInv'
<1>. SUFFICES ASSUME IndInv, Stray PROVE IndInv'
  OBVIOUS
<1>0. TypeOK
  BY DEF IndInv
<1>1. PICK n \in Nodes, f \in Frame : f.type = "need" /\ Write(n, f)
  BY <1>0, StrayFrame
<1>2. PICK m \in Nodes : Other(m) = n
  BY OtherNode
<1>3. Clean(m, f)
  BY <1>1 DEF Clean
<1>4. net' \in [Nodes -> Seq(Frame)] /\ NetClean'
  BY <1>1, <1>2, <1>3, WriteKeeps
<1>5. TypeOK'
  BY <1>0, <1>4, StrayFrame DEF TypeOK, handlerVars
<1>6. SendersClean' /\ WantClean' /\ ReceiverMayReceive'
  BY <1>0, StrayFrame DEF IndInv, handlerVars, SendersClean, WantClean, ReceiverMayReceive,
                          CanReceive, Bidirectional
<1>. QED
  BY <1>4, <1>5, <1>6 DEF IndInv

\* The invariant holds when the daemons start.
LEMMA InitEstablishes == Init => IndInv
<1>. SUFFICES ASSUME Init PROVE IndInv
  OBVIOUS
<1>1. store \in [Nodes -> Tree]
  BY ConstantsAssumption DEF Init, Tree
<1>2. TypeOK
  <2>1. cfg \in [Nodes -> Config] /\ disk \in [Nodes -> Tree]
    BY ConstantsAssumption DEF Init
  <2>2. net \in [Nodes -> Seq(Frame)]
    BY DEF Init
  <2>3. senders \in [Nodes -> [Senders -> Manifest \cup {NoFile}]]
    BY DEF Init
  <2>4. pc \in [Nodes -> {"loop", "receive", "send"}] /\ want \in [Nodes -> SUBSET Paths]
    BY DEF Init
  <2>5. /\ dirty \in [Nodes -> BOOLEAN] /\ now \in Nat /\ up \in BOOLEAN
        /\ buf \in [Nodes -> Nat \cup {NoFile}] /\ greet \in [Nodes -> Nat]
        /\ used \in [Budgets -> Nat]
    BY DEF Init
  <2>. QED
    BY <1>1, <2>1, <2>2, <2>3, <2>4, <2>5 DEF TypeOK
<1>3. NetClean
  BY DEF Init, NetClean
<1>4. SendersClean /\ WantClean /\ ReceiverMayReceive
  BY DEF Init, SendersClean, WantClean, ReceiverMayReceive
<1>. QED
  BY <1>2, <1>3, <1>4 DEF IndInv

\* Every step keeps it.
LEMMA NextKeeps == IndInv /\ [Next]_vars => IndInv'
<1>. SUFFICES ASSUME IndInv, [Next]_vars PROVE IndInv'
  OBVIOUS
<1>1. CASE UNCHANGED vars
  BY <1>1 DEF IndInv, TypeOK, NetClean, SendersClean, WantClean, ReceiverMayReceive,
              CanReceive, Bidirectional, vars
<1>2. CASE Connect \/ Disconnect \/ Tick
  BY <1>2, ConnectKeeps, DisconnectKeeps, TickKeeps
<1>3. ASSUME NEW n \in Nodes, Restart(n) \/ Pushes(n) \/ Users(n) PROVE IndInv'
  BY <1>3, RestartKeeps, OnFolderChangedKeeps, OnPeerConnectedKeeps, CatchUpKeeps,
     PullFromPeersKeeps, SendManifestKeeps, EditKeeps, DeleteKeeps DEF Pushes, Users
<1>4. ASSUME NEW n \in Nodes, Incomings(n) PROVE IndInv'
  BY <1>4, HandleHelloKeeps, HandlePingKeeps, SkipFrameKeeps, ApplyManifestKeeps,
     DropWhileReceivingKeeps, ReceiveChunkKeeps, ReceiveFailsKeeps, HandleNeedKeeps,
     ReadFileKeeps, SendChunkKeeps DEF Incomings
<1>. QED
  BY <1>1, <1>2, <1>3, <1>4, StrayKeeps DEF Next, Stray

\* So it always holds.
LEMMA Invariance == Spec => []IndInv
  BY InitEstablishes, NextKeeps, PTL DEF Spec

(***************************************************************************)
(* Two engines, whatever they are configured to do and however their       *)
(* goroutines, their users and the connection interleave, stay well typed. *)
(***************************************************************************)
THEOREM TypeCorrect == Spec => []TypeOK
  BY Invariance, PTL DEF IndInv

(***************************************************************************)
(* No manifest and no CHUNK names a path its sender ignores, and no engine *)
(* asks for one it ignores itself.                                         *)
(***************************************************************************)
THEOREM IgnoredNeverLeaves == Spec => []IgnoredStaysLocal
<1>1. IndInv => IgnoredStaysLocal
  <2>. SUFFICES ASSUME IndInv, NEW n \in Nodes
                PROVE  /\ \A g \in Senders : senders[n][g] # NoFile =>
                                Listed(senders[n][g]) \cap Ignored[n] = {}
                       /\ \A i \in DOMAIN net[Other(n)] : Clean(n, net[Other(n)][i])
                       /\ want[n] \cap Ignored[n] = {}
    BY DEF IgnoredStaysLocal, Clean
  <2>1. net[Other(n)] \in Seq(FramesTo(Other(n)))
    BY OtherNode DEF IndInv, NetClean
  <2>2. \A i \in DOMAIN net[Other(n)] : net[Other(n)][i] \in FramesTo(Other(n))
    BY <2>1
  <2>3. \A f \in FramesTo(Other(n)) : Clean(n, f)
    BY OtherNode DEF FramesTo
  <2>. QED
    BY <2>2, <2>3 DEF IndInv, SendersClean, WantClean
<1>. QED
  BY <1>1, Invariance, PTL

\* A step changes the tree of an engine that may not receive only if it is a
\* step of that engine's user.
LEMMA OneWayStep ==
    ASSUME IndInv, [Next]_vars, NEW n \in Nodes, ~CanReceive(n), disk'[n] # disk[n]
    PROVE  n \in Editors /\ \E k \in {"edits", "deletes"} : used'[k] # used[k]
<1>1. \E m \in Nodes : Users(m) \/ ApplyManifest(m) \/ ReceiveChunk(m)
  BY DEF Next, vars, Incomings, Pushes, Connect, Disconnect, Tick, Restart, OnFolderChanged,
         OnPeerConnected, CatchUp, SendManifest, PullFromPeers, HandleHello, HandlePing, SkipFrame,
         DropWhileReceiving, ReceiveFails, HandleNeed, ReadFile, SendChunk, StrayNeed
<1>2. ASSUME NEW m \in Nodes, ApplyManifest(m) PROVE FALSE
  BY <1>2 DEF IndInv, TypeOK, ApplyManifest, ApplyFiles
<1>3. ASSUME NEW m \in Nodes, ReceiveChunk(m) PROVE FALSE
  BY <1>3 DEF IndInv, TypeOK, ReceiverMayReceive, ReceiveChunk, StoreChunk, Incoming
<1>4. ASSUME NEW m \in Nodes, NEW p \in UserPaths, Edit(m, p)
      PROVE  n \in Editors /\ used'["edits"] # used["edits"]
  BY <1>4 DEF IndInv, TypeOK, Edit, Budgets
<1>5. ASSUME NEW m \in Nodes, NEW p \in UserPaths, Delete(m, p)
      PROVE  n \in Editors /\ used'["deletes"] # used["deletes"]
  BY <1>5 DEF IndInv, TypeOK, Delete, Budgets
<1>. QED
  BY <1>1, <1>2, <1>3, <1>4, <1>5 DEF Users

(***************************************************************************)
(* The provider of a one-way group keeps its tree: HandleIncoming never    *)
(* writes where CanReceive is false, whatever the peer sends.              *)
(***************************************************************************)
THEOREM OneWayHolds == Spec => OneWayRespected
<1>1. IndInv /\ [Next]_vars =>
        [\A n \in Nodes : ~CanReceive(n) /\ disk'[n] # disk[n] =>
            n \in Editors /\ \E k \in {"edits", "deletes"} : used'[k] # used[k]]_vars
  BY OneWayStep
<1>. QED
  BY <1>1, Invariance, PTL DEF Spec, OneWayRespected

-----------------------------------------------------------------------------
(* Contents, and where they are *)

\* What the frames written to n and not read yet are.
InFlight(n) == {net[n][i] : i \in DOMAIN net[n]}

\* Content c is, or is on its way to be, the content of a file at path p.
Holds(p, c) ==
    \E n \in Nodes :
        \/ Exists(n, p) /\ disk[n][p].hash = c
        \/ buf[n] # NoFile /\ Min(want[n]) = p /\ buf[n] = c
        \/ \E f \in InFlight(n) : f.type = "chunk" /\ f.path = p /\ f.data = c

\* The contents of the users' first trees: one path each, and none that an
\* edit will write.
TreesDiffer ==
    \A trees \in DiskChoices : \A m, n \in Nodes : \A p, q \in UserPaths :
        trees[m][p] # NoFile =>
            /\ trees[m][p].hash \notin 1 .. MaxEdits
            /\ trees[n][q] # NoFile /\ trees[m][p].hash = trees[n][q].hash => p = q

\* A content has one path, and what will be written has none yet.
OriginInv ==
    \A p, q \in UserPaths : \A c \in Nat : Holds(p, c) =>
        /\ c \notin (used["edits"] + 1) .. MaxEdits
        /\ Holds(q, c) => p = q

\* Only sendFiles has data in its hands.
BufferInv == \A n \in Nodes : buf[n] # NoFile => pc[n] = "send"

-----------------------------------------------------------------------------
(* Frames in flight *)

LEMMA TailElements ==
    ASSUME NEW S, NEW s \in Seq(S), s # <<>>
    PROVE  /\ {Tail(s)[i] : i \in DOMAIN Tail(s)} \subseteq {s[i] : i \in DOMAIN s}
           /\ Head(s) \in {s[i] : i \in DOMAIN s}
<1>1. /\ Tail(s) \in Seq(S) /\ Len(Tail(s)) = Len(s) - 1 /\ Len(s) \in Nat \ {0}
      /\ \A i \in 1 .. Len(Tail(s)) : Tail(s)[i] = s[i + 1]
  BY HeadTailProperties
<1>2. Head(s) = s[1]
  OBVIOUS
<1>. QED
  BY <1>1, <1>2

LEMMA AppendElements ==
    ASSUME NEW S, NEW s \in Seq(S), NEW x \in S
    PROVE  {Append(s, x)[i] : i \in DOMAIN Append(s, x)} = {s[i] : i \in DOMAIN s} \cup {x}
<1>1. /\ Append(s, x) \in Seq(S) /\ Len(Append(s, x)) = Len(s) + 1 /\ Len(s) \in Nat
      /\ \A i \in 1 .. Len(s) : Append(s, x)[i] = s[i] /\ Append(s, x)[Len(s) + 1] = x
  OBVIOUS
<1>. QED
  BY <1>1

\* Reading takes frames away.
LEMMA ConsumeFlight ==
    ASSUME TypeOK, NEW n \in Nodes, net[n] # <<>>, Consume(n)
    PROVE  Head(net[n]) \in InFlight(n) /\ \A m \in Nodes : InFlight(m)' \subseteq InFlight(m)
<1>1. net \in [Nodes -> Seq(Frame)] /\ net[n] \in Seq(Frame)
  BY DEF TypeOK
<1>2. net'[n] = Tail(net[n]) /\ \A m \in Nodes \ {n} : net'[m] = net[m]
  BY <1>1 DEF Consume
<1>3. Head(net[n]) \in InFlight(n) /\ InFlight(n)' \subseteq InFlight(n)
  BY <1>1, <1>2, TailElements DEF InFlight
<1>4. \A m \in Nodes \ {n} : InFlight(m)' = InFlight(m)
  BY <1>2 DEF InFlight
<1>. QED
  BY <1>3, <1>4

\* Writing adds one.
LEMMA WriteFlight ==
    ASSUME TypeOK, NEW n \in Nodes, NEW f \in Frame, Write(n, f)
    PROVE  \A m \in Nodes : InFlight(m)' \subseteq InFlight(m) \cup {f}
<1>1. net \in [Nodes -> Seq(Frame)] /\ net[n] \in Seq(Frame)
  BY DEF TypeOK
<1>2. net'[n] = Append(net[n], f) /\ \A m \in Nodes \ {n} : net'[m] = net[m]
  BY <1>1 DEF Write
<1>3. InFlight(n)' = InFlight(n) \cup {f}
  BY <1>1, <1>2, AppendElements DEF InFlight
<1>. QED
  BY <1>2, <1>3 DEF InFlight

LEMMA ReplyFlight ==
    ASSUME TypeOK, NEW n \in Nodes, net[n] # <<>>, NEW f \in Frame, Reply(n, f)
    PROVE  \A m \in Nodes : InFlight(m)' \subseteq InFlight(m) \cup {f}
<1>0. PICK o \in Nodes : o = Other(n) /\ o # n
  BY OtherNode
<1>1. net \in [Nodes -> Seq(Frame)] /\ net[n] \in Seq(Frame) /\ net[o] \in Seq(Frame)
  BY DEF TypeOK
<1>2. /\ net'[n] = Tail(net[n]) /\ net'[o] = Append(net[o], f)
      /\ \A m \in Nodes \ {n, o} : net'[m] = net[m]
  BY <1>0, <1>1 DEF Reply
<1>3. InFlight(n)' \subseteq InFlight(n)
  BY <1>1, <1>2, TailElements DEF InFlight
<1>4. InFlight(o)' = InFlight(o) \cup {f}
  <2>. DEFINE s == net[o]
  <2>1. s \in Seq(Frame) /\ net'[o] = Append(s, f)
    BY <1>1, <1>2
  <2>2. InFlight(o) = {s[i] : i \in DOMAIN s}
    BY DEF InFlight
  <2>. HIDE DEF s
  <2>3. {Append(s, f)[i] : i \in DOMAIN Append(s, f)} = {s[i] : i \in DOMAIN s} \cup {f}
    BY <2>1, AppendElements
  <2>. QED
    BY <2>1, <2>2, <2>3 DEF InFlight
<1>5. ASSUME NEW m \in Nodes \ {n, o} PROVE InFlight(m)' = InFlight(m)
  BY <1>2 DEF InFlight
<1>. QED
  BY <1>3, <1>4, <1>5

LEMMA FlightFrames == TypeOK => \A n \in Nodes : InFlight(n) \subseteq Frame
  BY DEF TypeOK, InFlight

-----------------------------------------------------------------------------
(* Where contents go: what a step puts anywhere was held before *)

DiskFromHeld ==
    \A n \in Nodes : \A p \in UserPaths : disk'[n][p] # NoFile => Holds(p, disk'[n][p].hash)
BufferFromHeld ==
    \A n \in Nodes : \A p \in UserPaths :
        buf'[n] # NoFile /\ Min(want'[n]) = p => Holds(p, buf'[n])
FlightFromHeld ==
    \A n \in Nodes : \A f \in InFlight(n)' :
        f.type = "chunk" /\ f.path \in UserPaths => Holds(f.path, f.data)

LEMMA HeldBefore ==
    ASSUME DiskFromHeld, BufferFromHeld, FlightFromHeld,
           NEW p \in UserPaths, NEW c, Holds(p, c)'
    PROVE  Holds(p, c)
<1>1. PICK n \in Nodes :
        \/ disk'[n][p] # NoFile /\ disk'[n][p].hash = c
        \/ buf'[n] # NoFile /\ Min(want'[n]) = p /\ buf'[n] = c
        \/ \E f \in InFlight(n)' : f.type = "chunk" /\ f.path = p /\ f.data = c
  BY DEF Holds, Exists
<1>2. CASE disk'[n][p] # NoFile /\ disk'[n][p].hash = c
  BY <1>2 DEF DiskFromHeld
<1>3. CASE buf'[n] # NoFile /\ Min(want'[n]) = p /\ buf'[n] = c
  BY <1>3 DEF BufferFromHeld
<1>4. ASSUME NEW f \in InFlight(n)', f.type = "chunk", f.path = p, f.data = c PROVE Holds(p, c)
  BY <1>4 DEF FlightFromHeld
<1>. QED
  BY <1>1, <1>2, <1>3, <1>4

LEMMA OriginKept ==
    ASSUME OriginInv, DiskFromHeld, BufferFromHeld, FlightFromHeld, used'["edits"] = used["edits"]
    PROVE  OriginInv'
  BY HeldBefore DEF OriginInv

LEMMA DiskSame ==
    ASSUME \A n \in Nodes : \A p \in UserPaths : disk'[n][p] \in {disk[n][p], NoFile}
    PROVE  DiskFromHeld
  BY DEF DiskFromHeld, Holds, Exists

\* No data is read, and a list that changes is one nobody reads data for.
LEMMA BufferSame ==
    ASSUME \A n \in Nodes : buf'[n] # NoFile => buf'[n] = buf[n] /\ want'[n] = want[n]
    PROVE  BufferFromHeld
  BY DEF BufferFromHeld, Holds

\* At most, a frame that is no CHUNK is written.
LEMMA FlightSame ==
    ASSUME NEW g, g.type # "chunk", \A n \in Nodes : InFlight(n)' \subseteq InFlight(n) \cup {g}
    PROVE  FlightFromHeld
  BY DEF FlightFromHeld, Holds

LEMMA FlightShrinks ==
    ASSUME \A n \in Nodes : InFlight(n)' \subseteq InFlight(n)
    PROVE  FlightFromHeld
  BY DEF FlightFromHeld, Holds

-----------------------------------------------------------------------------
(* The steps *)

\* Nobody touches trees or data, and no CHUNK is written.
LEMMA ContentUntouched ==
    ASSUME OriginInv, BufferInv, UNCHANGED <<disk, pc, want, buf>>,
           used'["edits"] = used["edits"], FlightFromHeld
    PROVE  OriginInv' /\ BufferInv'
<1>1. DiskFromHeld
  BY DiskSame
<1>2. BufferFromHeld
  BY BufferSame
<1>. QED
  BY <1>1, <1>2, OriginKept DEF BufferInv

LEMMA ConnectionOrigin ==
    ASSUME TypeOK, OriginInv, BufferInv, Connect \/ Disconnect \/ \E n \in Nodes : Restart(n)
    PROVE  OriginInv' /\ BufferInv'
<1>0. used'["edits"] = used["edits"] /\ disk' = disk
  BY DEF Connect, Disconnect, Restart, TypeOK, Budgets
<1>1. CASE Connect
  <2>1. ASSUME NEW n \in Nodes, NEW f \in InFlight(n)' PROVE f.type # "chunk"
    <3>1. net'[n] = <<[type |-> "hello"]>> \/ net'[n] = <<>>
      BY <1>1 DEF Connect
    <3>. QED
      BY <2>1, <3>1 DEF InFlight
  <2>2. FlightFromHeld
    BY <2>1 DEF FlightFromHeld
  <2>. QED
    BY <1>0, <1>1, <2>2, ContentUntouched DEF Connect, handlerVars
<1>2. ASSUME DropConnection PROVE OriginInv' /\ BufferInv'
  <2>1. \A n \in Nodes : buf'[n] = NoFile /\ InFlight(n)' = {}
    BY <1>2 DEF DropConnection, InFlight
  <2>2. DiskFromHeld /\ BufferFromHeld /\ FlightFromHeld
    BY <1>0, <2>1, DiskSame, BufferSame, FlightShrinks
  <2>. QED
    BY <1>0, <2>1, <2>2, OriginKept DEF BufferInv
<1>. QED
  BY <1>1, <1>2 DEF Disconnect, Restart

LEMMA PushOrigin ==
    ASSUME TypeOK, OriginInv, BufferInv, NEW n \in Nodes, Pushes(n)
    PROVE  OriginInv' /\ BufferInv'
<1>0. used'["edits"] = used["edits"] /\ disk' = disk
  BY DEF Pushes, OnFolderChanged, OnPeerConnected, CatchUp, PullFromPeers, SendManifest, TypeOK,
         Budgets
<1>1. UNCHANGED <<pc, want, buf>>
  BY DEF Pushes, OnFolderChanged, OnPeerConnected, CatchUp, PullFromPeers, SendManifest,
         handlerVars
<1>2. ASSUME net' = net PROVE FlightFromHeld
  BY <1>2, FlightShrinks DEF InFlight
<1>3. ASSUME NEW f \in Frame, f.type # "chunk", Write(Other(n), f) PROVE FlightFromHeld
  <2>1. PICK o \in Nodes : o = Other(n)
    BY OtherNode
  <2>. QED
    BY <1>3, <2>1, WriteFlight, FlightSame
<1>4. CASE OnFolderChanged(n) \/ OnPeerConnected(n) \/ CatchUp(n)
  BY <1>0, <1>1, <1>2, <1>4, ContentUntouched DEF OnFolderChanged, OnPeerConnected, CatchUp
<1>5. CASE PullFromPeers(n)
  <2>. DEFINE f == [type |-> "ping"]
  <2>1. f \in Frame /\ f.type # "chunk"
    BY DEF Frame
  <2>2. net' = net \/ Write(Other(n), f)
    BY <1>5 DEF PullFromPeers
  <2>. QED
    BY <1>0, <1>1, <1>2, <1>3, <2>1, <2>2, ContentUntouched
<1>6. ASSUME NEW g \in Senders, SendManifest(n, g) PROVE OriginInv' /\ BufferInv'
  <2>. DEFINE f == [type |-> "manifest", files |-> senders[n][g]]
  <2>0. senders[n][g] \in Manifest
    BY <1>6 DEF SendManifest, TypeOK
  <2>1. f \in Frame /\ f.type # "chunk"
    BY <2>0 DEF Frame
  <2>2. Write(Other(n), f)
    BY <1>6 DEF SendManifest
  <2>3. FlightFromHeld
    BY <1>3, <2>1, <2>2
  <2>. QED
    BY <1>0, <1>1, <2>3, ContentUntouched
<1>. QED
  BY <1>4, <1>5, <1>6 DEF Pushes

\* The loop of HandleIncoming and receiveFile, and frames that they drop.
LEMMA ReadOrigin ==
    ASSUME TypeOK, OriginInv, BufferInv, NEW n \in Nodes,
           HandleHello(n) \/ HandlePing(n) \/ SkipFrame(n) \/ DropWhileReceiving(n)
    PROVE  OriginInv' /\ BufferInv'
<1>0. /\ used'["edits"] = used["edits"] /\ disk' = disk /\ UNCHANGED <<pc, want, buf>>
      /\ net[n] # <<>>
  BY DEF HandleHello, HandlePing, SkipFrame, DropWhileReceiving, Incoming, handlerVars
<1>1. CASE HandlePing(n)
  <2>. DEFINE f == [type |-> "ping"]
  <2>1. f \in Frame /\ f.type # "chunk"
    BY DEF Frame
  <2>2. FlightFromHeld
    BY <1>0, <1>1, <2>1, ReplyFlight, FlightSame DEF HandlePing
  <2>. QED
    BY <1>0, <2>2, ContentUntouched
<1>2. CASE ~HandlePing(n)
  <2>1. FlightFromHeld
    BY <1>0, <1>2, ConsumeFlight, FlightShrinks DEF HandleHello, SkipFrame, DropWhileReceiving
  <2>. QED
    BY <1>0, <2>1, ContentUntouched
<1>. QED
  BY <1>1, <1>2

\* A conflict copy has no name that a user gives.
LEMMA RenamedUserPaths ==
    ASSUME NEW tree \in Tree, NEW files, NEW C, ConflictsInBound(C, files), NEW p \in UserPaths
    PROVE  WithConflictsRenamed(tree, C)[p] \in {tree[p], NoFile}
<1>1. p \in Paths /\ \A q \in C : ConflictName[<<q, now>>] # p
  BY ConstantsAssumption DEF ConflictsInBound
<1>. QED
  BY <1>1 DEF WithConflictsRenamed

LEMMA ApplyOrigin ==
    ASSUME TypeOK, OriginInv, BufferInv, NEW n \in Nodes, ApplyManifest(n)
    PROVE  OriginInv' /\ BufferInv'
<1>. DEFINE files == Head(net[n]).files
            C == Conflicts(n, files)
            needed == Needed(n, files)
<1>1. /\ pc[n] = "loop" /\ net[n] # <<>> /\ buf' = buf /\ used' = used
      /\ ConflictsInBound(C, files) /\ disk' = [disk EXCEPT ![n] = WithConflictsRenamed(@, C)]
      /\ \/ Consume(n) /\ UNCHANGED <<pc, want>>
         \/ /\ Reply(n, [type |-> "need", paths |-> needed])
            /\ pc' = [pc EXCEPT ![n] = "receive"] /\ want' = [want EXCEPT ![n] = needed]
  BY DEF ApplyManifest, ApplyFiles, Incoming
<1>2. disk \in [Nodes -> Tree] /\ needed \in SUBSET Paths
  BY DEF TypeOK, Needed, Differing, Listed
<1>. HIDE DEF files, C, needed
<1>3. DiskFromHeld
  <2>1. \A m \in Nodes : \A p \in UserPaths : disk'[m][p] \in {disk[m][p], NoFile}
    BY <1>1, <1>2, RenamedUserPaths
  <2>. QED
    BY <2>1, DiskSame
<1>4. buf[n] = NoFile /\ BufferInv' /\ BufferFromHeld
  <2>1. buf[n] = NoFile
    BY <1>1 DEF BufferInv
  <2>2. \A m \in Nodes \ {n} : pc'[m] = pc[m] /\ want'[m] = want[m]
    BY <1>1 DEF TypeOK
  <2>. QED
    BY <1>1, <2>1, <2>2, BufferSame DEF BufferInv
<1>5. FlightFromHeld
  <2>. DEFINE f == [type |-> "need", paths |-> needed]
  <2>1. f \in Frame /\ f.type # "chunk"
    BY <1>2 DEF Frame
  <2>. HIDE DEF f
  <2>2. CASE Consume(n)
    BY <1>1, <2>2, ConsumeFlight, FlightShrinks
  <2>3. CASE Reply(n, f)
    BY <1>1, <2>1, <2>3, ReplyFlight, FlightSame
  <2>. QED
    BY <1>1, <2>2, <2>3 DEF f
<1>. QED
  BY <1>1, <1>3, <1>4, <1>5, OriginKept

\* The path of the CHUNK is the path of the file it replaces.
LEMMA ReceiveOrigin ==
    ASSUME IndInv, OriginInv, BufferInv, NEW n \in Nodes, ReceiveChunk(n) \/ ReceiveFails(n)
    PROVE  OriginInv' /\ BufferInv'
<1>. DEFINE chunk == Head(net[n])
            a == Awaited(n)
<1>1. /\ pc[n] = "receive" /\ net[n] # <<>> /\ chunk.type = "chunk" /\ chunk.path = a
      /\ buf' = buf /\ used'["edits"] = used["edits"] /\ Consume(n)
      /\ \E rest : AwaitNext(n, rest)
      /\ disk' = disk \/ disk' = [disk EXCEPT ![n][a] = [hash |-> chunk.data, mtime |-> now]]
  BY DEF ReceiveChunk, ReceiveFails, StoreChunk, Incoming, Fault, IndInv, TypeOK, Budgets
<1>2. TypeOK /\ chunk \in InFlight(n) /\ \A m \in Nodes : InFlight(m)' \subseteq InFlight(m)
  BY <1>1, ConsumeFlight DEF IndInv
<1>. HIDE DEF chunk, a
<1>3. DiskFromHeld
  <2>1. CASE disk' = disk
    BY <2>1, DiskSame
  <2>2. CASE disk' = [disk EXCEPT ![n][a] = [hash |-> chunk.data, mtime |-> now]]
    <3>. SUFFICES ASSUME NEW m \in Nodes, NEW p \in UserPaths, disk'[m][p] # NoFile
                  PROVE  Holds(p, disk'[m][p].hash)
      BY DEF DiskFromHeld
    <3>0. disk \in [Nodes -> Tree] /\ p \in Paths
      BY <1>2, ConstantsAssumption DEF TypeOK
    <3>1. CASE m = n /\ p = a
      <4>1. disk'[m][p] = [hash |-> chunk.data, mtime |-> now]
        BY <2>2, <3>0, <3>1 DEF Tree
      <4>2. disk'[m][p].hash = chunk.data
        BY <4>1
      <4>. QED
        BY <1>1, <1>2, <3>1, <4>2 DEF Holds
    <3>2. CASE ~(m = n /\ p = a)
      <4>1. disk'[m][p] = disk[m][p]
        BY <2>2, <3>0, <3>2 DEF Tree
      <4>. QED
        BY <4>1 DEF Holds, Exists
    <3>. QED
      BY <3>1, <3>2
  <2>. QED
    BY <1>1, <2>1, <2>2
<1>4. BufferInv' /\ BufferFromHeld
  <2>1. buf[n] = NoFile
    BY <1>1 DEF BufferInv
  <2>2. \A m \in Nodes \ {n} : pc'[m] = pc[m] /\ want'[m] = want[m]
    BY <1>1, <1>2 DEF AwaitNext, TypeOK
  <2>. QED
    BY <1>1, <2>1, <2>2, BufferSame DEF BufferInv
<1>5. FlightFromHeld
  BY <1>2, FlightShrinks
<1>. QED
  BY <1>1, <1>3, <1>4, <1>5, OriginKept

\* sendFiles: data of a path is sent under that path.
LEMMA SendOrigin ==
    ASSUME IndInv, OriginInv, BufferInv, NEW n \in Nodes,
           HandleNeed(n) \/ ReadFile(n) \/ SendChunk(n)
    PROVE  OriginInv' /\ BufferInv'
<1>. DEFINE p == Min(want[n])
<1>0. /\ TypeOK /\ disk' = disk /\ used'["edits"] = used["edits"] /\ DiskFromHeld
      /\ \A m \in Nodes \ {n} : pc'[m] = pc[m] /\ want'[m] = want[m] /\ buf'[m] = buf[m]
  <2>1. disk' = disk /\ used'["edits"] = used["edits"] /\ TypeOK
    BY DEF HandleNeed, ReadFile, SendChunk, Fault, IndInv, TypeOK, Budgets
  <2>2. \A m \in Nodes \ {n} : pc'[m] = pc[m] /\ want'[m] = want[m] /\ buf'[m] = buf[m]
    BY <2>1 DEF HandleNeed, ReadFile, SendChunk, SentOrSkipped, TypeOK
  <2>. QED
    BY <2>1, <2>2, DiskSame
<1>1. CASE HandleNeed(n)
  <2>1. pc[n] = "loop" /\ net[n] # <<>> /\ buf' = buf /\ Consume(n)
    BY <1>1 DEF HandleNeed, Incoming
  <2>2. buf[n] = NoFile /\ BufferFromHeld /\ BufferInv'
    BY <1>0, <2>1, BufferSame DEF BufferInv
  <2>3. FlightFromHeld
    BY <1>0, <2>1, ConsumeFlight, FlightShrinks
  <2>. QED
    BY <1>0, <2>2, <2>3, OriginKept
<1>2. CASE ReadFile(n)
  <2>1. pc[n] = "send" /\ buf[n] = NoFile /\ net' = net
    BY <1>2 DEF ReadFile
  <2>2. FlightFromHeld
    BY <2>1, FlightShrinks DEF InFlight
  <2>3. CASE Exists(n, p) /\ buf' = [buf EXCEPT ![n] = disk[n][p].hash] /\ UNCHANGED <<pc, want>>
    <3>1. buf'[n] = disk[n][p].hash
      BY <1>0, <2>3 DEF TypeOK
    <3>2. BufferInv'
      BY <1>0, <2>1, <2>3 DEF BufferInv
    <3>3. BufferFromHeld
      BY <1>0, <2>3, <3>1 DEF BufferFromHeld, Holds
    <3>. QED
      BY <1>0, <2>2, <3>2, <3>3, OriginKept
  <2>4. CASE buf' = buf
    <3>1. BufferInv' /\ BufferFromHeld
      BY <1>0, <2>1, <2>4, BufferSame DEF BufferInv
    <3>. QED
      BY <1>0, <2>2, <3>1, OriginKept
  <2>. QED
    BY <1>2, <2>3, <2>4 DEF ReadFile
<1>3. CASE SendChunk(n)
  <2>. DEFINE f == [type |-> "chunk", path |-> p, data |-> buf[n]]
  <2>1. buf[n] # NoFile /\ Write(Other(n), f) /\ buf'[n] = NoFile
    BY <1>0, <1>3 DEF SendChunk, TypeOK
  <2>2. p \in Paths /\ buf[n] \in Nat
    <3>1. want[n] \in SUBSET Paths /\ want[n] # {}
      BY <1>0, <1>3 DEF SendChunk, IndInv, WantClean, TypeOK
    <3>2. p \in want[n]
      BY <3>1, MinOfPaths
    <3>. QED
      BY <1>0, <2>1, <3>1, <3>2 DEF TypeOK
  <2>3. f \in Frame /\ f.path = p /\ f.data = buf[n]
    BY <2>2 DEF Frame
  <2>4. Holds(p, buf[n])
    BY <2>1 DEF Holds
  <2>5. \A m \in Nodes : InFlight(m)' \subseteq InFlight(m) \cup {f}
    BY <1>0, <2>1, <2>3, OtherNode, WriteFlight
  <2>. HIDE DEF f
  <2>6. FlightFromHeld
    BY <2>3, <2>4, <2>5 DEF FlightFromHeld, Holds
  <2>7. BufferInv' /\ BufferFromHeld
    BY <1>0, <2>1, BufferSame DEF BufferInv
  <2>. QED
    BY <1>0, <2>6, <2>7, OriginKept
<1>. QED
  BY <1>1, <1>2, <1>3

\* A user writes a content that nobody has, or removes a file.
LEMMA UserOrigin ==
    ASSUME TypeOK, OriginInv, BufferInv, NEW n \in Nodes, Users(n)
    PROVE  OriginInv' /\ BufferInv'
<1>1. PICK p \in UserPaths : Edit(n, p) \/ Delete(n, p)
  BY DEF Users
<1>2. UNCHANGED <<net, pc, want, buf>> /\ BufferInv'
  BY <1>1 DEF Edit, Delete, handlerVars, BufferInv
<1>3. BufferFromHeld /\ FlightFromHeld
  BY <1>2, BufferSame, FlightShrinks DEF InFlight
<1>4. CASE Delete(n, p)
  <2>1. used'["edits"] = used["edits"]
    BY <1>4 DEF Delete, TypeOK, Budgets
  <2>2. \A m \in Nodes : \A q \in UserPaths : disk'[m][q] \in {disk[m][q], NoFile}
    BY <1>4, ConstantsAssumption DEF Delete, TypeOK, Tree
  <2>. QED
    BY <1>2, <1>3, <2>1, <2>2, DiskSame, OriginKept
<1>5. CASE Edit(n, p)
  <2>. DEFINE new == used["edits"] + 1
  <2>1. /\ used["edits"] \in Nat /\ new \in (used["edits"] + 1) .. MaxEdits
        /\ used'["edits"] = new
    BY <1>5, ConstantsAssumption DEF Edit, TypeOK, Budgets
  <2>2. /\ disk'[n][p] = [hash |-> new, mtime |-> now]
        /\ \A m \in Nodes : \A q \in UserPaths :
              ~(m = n /\ q = p) => disk'[m][q] = disk[m][q]
    BY <1>5, ConstantsAssumption DEF Edit, TypeOK, Tree
  <2>3. disk'[n][p].hash = new
    BY <2>2
  <2>4. \A q \in UserPaths : ~Holds(q, new)
    BY <2>1 DEF OriginInv
  <2>5. ASSUME NEW q \in UserPaths, NEW c, Holds(q, c)' PROVE Holds(q, c) \/ (q = p /\ c = new)
    <3>1. PICK m \in Nodes :
            \/ disk'[m][q] # NoFile /\ disk'[m][q].hash = c
            \/ buf'[m] # NoFile /\ Min(want'[m]) = q /\ buf'[m] = c
            \/ \E f \in InFlight(m)' : f.type = "chunk" /\ f.path = q /\ f.data = c
      BY <2>5 DEF Holds, Exists
    <3>2. CASE m = n /\ q = p
      BY <1>2, <2>3, <3>1, <3>2 DEF Holds, InFlight
    <3>3. CASE ~(m = n /\ q = p)
      BY <1>2, <2>2, <3>1, <3>3 DEF Holds, Exists, InFlight
    <3>. QED
      BY <3>2, <3>3
  <2>. HIDE DEF new
  <2>6. ASSUME NEW q \in UserPaths, NEW r \in UserPaths, NEW c \in Nat, Holds(q, c)', Holds(r, c)'
        PROVE  q = r
    BY <2>4, <2>5, <2>6 DEF OriginInv
  <2>7. ASSUME NEW q \in UserPaths, NEW c \in Nat, Holds(q, c)'
        PROVE  c \notin (used'["edits"] + 1) .. MaxEdits
    <3>1. CASE Holds(q, c)
      <4>1. c \notin (used["edits"] + 1) .. MaxEdits
        BY <3>1 DEF OriginInv
      <4>. QED
        BY <2>1, <4>1, ConstantsAssumption DEF new
    <3>2. CASE c = new
      BY <2>1, <3>2, ConstantsAssumption DEF new
    <3>. QED
      BY <2>5, <2>7, <3>1, <3>2
  <2>. QED
    BY <1>2, <2>6, <2>7 DEF OriginInv
<1>. QED
  BY <1>1, <1>4, <1>5

LEMMA NextOrigin == IndInv /\ OriginInv /\ BufferInv /\ [Next]_vars => OriginInv' /\ BufferInv'
<1>. SUFFICES ASSUME IndInv, OriginInv, BufferInv, [Next]_vars PROVE OriginInv' /\ BufferInv'
  OBVIOUS
<1>. TypeOK
  BY DEF IndInv
<1>1. CASE Tick \/ UNCHANGED vars
  <2>1. UNCHANGED <<disk, pc, want, buf, net, used>>
    BY <1>1 DEF Tick, vars, handlerVars
  <2>2. FlightFromHeld
    BY <2>1, FlightShrinks DEF InFlight
  <2>. QED
    BY <2>1, <2>2, ContentUntouched
<1>2. ASSUME NEW n \in Nodes, Incomings(n) PROVE OriginInv' /\ BufferInv'
  BY <1>2, ReadOrigin, ApplyOrigin, ReceiveOrigin, SendOrigin DEF Incomings
<1>3. CASE Stray
  <2>1. UNCHANGED <<disk, pc, want, buf>> /\ used'["edits"] = used["edits"]
    BY <1>3, StrayFrame DEF handlerVars
  <2>2. PICK n \in Nodes, f \in Frame : f.type = "need" /\ Write(n, f)
    BY <1>3, StrayFrame
  <2>3. FlightFromHeld
    BY <2>2, WriteFlight, FlightSame
  <2>. QED
    BY <2>1, <2>3, ContentUntouched
<1>. QED
  BY <1>1, <1>2, <1>3, ConnectionOrigin, PushOrigin, UserOrigin DEF Next, Stray

(***************************************************************************)
(* A content never appears under a name other than the one it was written  *)
(* under, whatever is edited, deleted, skipped, lost or renamed while      *)
(* files are under way, in any configuration.  It takes that contents      *)
(* differ to begin with.                                                   *)
(***************************************************************************)
THEOREM ContentsKeepTheirPaths == TreesDiffer => (Spec => []ContentKeepsItsPath)
<1>. SUFFICES ASSUME TreesDiffer PROVE Spec => []ContentKeepsItsPath
  OBVIOUS
<1>1. Init => OriginInv /\ BufferInv
  <2>. SUFFICES ASSUME Init PROVE OriginInv /\ BufferInv
    OBVIOUS
  <2>1. BufferInv
    BY DEF Init, BufferInv
  <2>2. used["edits"] = 0 /\ disk \in DiskChoices
    BY DEF Init, Budgets
  <2>3. ASSUME NEW p \in UserPaths, NEW c, Holds(p, c)
        PROVE  \E n \in Nodes : disk[n][p] # NoFile /\ disk[n][p].hash = c
    BY <2>3 DEF Init, Holds, InFlight, Exists
  <2>4. OriginInv
    <3>. SUFFICES ASSUME NEW p \in UserPaths, NEW q \in UserPaths, NEW c \in Nat, Holds(p, c)
                  PROVE  c \notin 1 .. MaxEdits /\ (Holds(q, c) => p = q)
      BY <2>2 DEF OriginInv
    <3>. QED
      BY <2>2, <2>3 DEF TreesDiffer
  <2>. QED
    BY <2>1, <2>4
<1>2. TypeOK /\ OriginInv => ContentKeepsItsPath
  <2>. SUFFICES ASSUME TypeOK, OriginInv, NEW m \in Nodes, NEW n \in Nodes,
                       NEW p \in UserPaths, NEW q \in UserPaths,
                       Exists(m, p), Exists(n, q), disk[m][p].hash = disk[n][q].hash
                PROVE  p = q
    BY DEF ContentKeepsItsPath
  <2>1. disk[m][p].hash \in Nat
    BY ConstantsAssumption DEF TypeOK, Tree, File, Exists
  <2>2. Holds(p, disk[m][p].hash) /\ Holds(q, disk[m][p].hash)
    BY DEF Holds
  <2>. QED
    BY <2>1, <2>2 DEF OriginInv
<1>3. IndInv => TypeOK
  BY DEF IndInv
<1>. QED
  BY <1>1, <1>2, <1>3, NextOrigin, Invariance, PTL DEF Spec

-----------------------------------------------------------------------------
(* Who waits is served *)

\* Sequences of frames, by what receiveFile and sendFiles look at.
Without(s, type) == \A i \in DOMAIN s : s[i].type # type
Chunks(s) == {s[i].path : i \in {k \in DOMAIN s : s[k].type = "chunk"}}
Ordered(s) ==
    \A i, k \in DOMAIN s :
        i < k /\ s[i].type = "chunk" /\ s[k].type = "chunk" => s[i].path < s[k].path
OneNeed(s, paths) ==
    \E k \in DOMAIN s :
        /\ s[k].type = "need" /\ s[k].paths = paths
        /\ \A i \in DOMAIN s : s[i].type = "need" => i = k

\* The paths that sendFiles of s has still to go through.
Sending(s) == IF pc[s] = "send" THEN want[s] ELSE {}

\* The NEED of the receiver r is not read yet by the sender s; or its answer is
\* under way, in the order in which r waits for it, with no file missing.
Asked(s, r) ==
    /\ OneNeed(net[s], want[r])
    /\ Without(net[r], "chunk") /\ pc[s] # "send"
Answered(s, r) ==
    /\ Without(net[s], "need")
    /\ want[r] = Chunks(net[r]) \cup Sending(s) /\ Ordered(net[r])
    /\ \A p \in Chunks(net[r]), q \in Sending(s) : p < q

\* Files may go from s to r.
Flows(s, r) == CanSend(s) /\ CanReceive(r)

\* Files go from s to r and none go back.
FlowInv(s, r) ==
    /\ Without(net[r], "need") /\ Without(net[s], "chunk") /\ pc[r] # "send"
    /\ pc[r] = "receive" => Asked(s, r) \/ Answered(s, r)
    /\ pc[r] # "receive" => Without(net[r], "chunk") /\ Without(net[s], "need") /\ pc[s] # "send"

\* What s announces, is asked for and sends, it has.
AnnouncedInv(s, r) ==
    /\ \A g \in Senders : senders[s][g] # NoFile => Listed(senders[s][g]) \subseteq Tracked(s)
    /\ \A f \in InFlight(r) : f.type = "manifest" => Listed(f.files) \subseteq Tracked(s)
    /\ \A f \in InFlight(s) : f.type = "need" => f.paths \subseteq Tracked(s)
    /\ Sending(s) \subseteq Tracked(s)

\* Who may not send announces nothing.
SilentInv(s, r) ==
    ~CanSend(s) =>
        /\ greet[s] = 0 /\ \A g \in Senders : senders[s][g] = NoFile
        /\ Without(net[r], "manifest")

\* Files go one way, from what is there to who is connected.
ServiceInv ==
    /\ \E n \in Nodes : ~Bidirectional(n)
    /\ ~up => \A n \in Nodes : pc[n] = "loop" /\ net[n] = <<>>
    /\ \A s, r \in Nodes : s # r =>
        /\ SilentInv(s, r)
        /\ pc[r] = "receive" => Flows(s, r)
        /\ Flows(s, r) => FlowInv(s, r) /\ AnnouncedInv(s, r)

LEMMA TailView ==
    ASSUME NEW s \in Seq(Frame), s # <<>>
    PROVE  /\ \A type : Without(s, type) => Without(Tail(s), type) /\ Head(s).type # type
           /\ Ordered(s) => Ordered(Tail(s))
           /\ Head(s).type # "chunk" => Chunks(Tail(s)) = Chunks(s)
           /\ Head(s).type = "chunk" => Chunks(s) = Chunks(Tail(s)) \cup {Head(s).path}
           /\ Ordered(s) /\ Head(s).type = "chunk" =>
                \A p \in Chunks(Tail(s)) : Head(s).path < p
           /\ \A W : OneNeed(s, W) /\ Head(s).type # "need" => OneNeed(Tail(s), W)
           /\ \A W : OneNeed(s, W) /\ Head(s).type = "need" =>
                Head(s).paths = W /\ Without(Tail(s), "need")
<1>. DEFINE t == Tail(s)
<1>1. /\ Len(s) \in Nat \ {0} /\ DOMAIN s = 1 .. Len(s) /\ DOMAIN t = 1 .. Len(s) - 1
      /\ \A i \in DOMAIN t : t[i] = s[i + 1]
      /\ Head(s) = s[1]
  <2>1. /\ Len(s) \in Nat \ {0} /\ DOMAIN s = 1 .. Len(s)
        /\ Tail(s) \in Seq(Frame) /\ Len(Tail(s)) = Len(s) - 1
        /\ \A i \in 1 .. Len(Tail(s)) : Tail(s)[i] = s[i + 1]
    BY HeadTailProperties
  <2>2. DOMAIN t = 1 .. Len(s) - 1
    BY <2>1
  <2>3. Head(s) = s[1]
    OBVIOUS
  <2>. QED
    BY <2>1, <2>2, <2>3
<1>. HIDE DEF t
<1>2. /\ \A i \in DOMAIN t : i + 1 \in DOMAIN s
      /\ \A k \in DOMAIN s : k # 1 => k - 1 \in DOMAIN t /\ t[k - 1] = s[k]
      /\ 1 \in DOMAIN s
  BY <1>1
<1>3. \A type : Without(s, type) => Without(t, type) /\ Head(s).type # type
  BY <1>1, <1>2 DEF Without
<1>4. Ordered(s) => Ordered(t)
  <2>. SUFFICES ASSUME Ordered(s), NEW i \in DOMAIN t, NEW k \in DOMAIN t, i < k,
                       t[i].type = "chunk", t[k].type = "chunk"
                PROVE  t[i].path < t[k].path
    BY DEF Ordered
  <2>1. i + 1 \in DOMAIN s /\ k + 1 \in DOMAIN s /\ i + 1 < k + 1
    BY <1>1, <1>2
  <2>. QED
    BY <1>1, <2>1 DEF Ordered
<1>5. Head(s).type # "chunk" => Chunks(t) = Chunks(s)
  BY <1>1, <1>2 DEF Chunks
<1>6. Head(s).type = "chunk" => Chunks(s) = Chunks(t) \cup {Head(s).path}
  <2>1. \A i \in DOMAIN t : t[i].type = "chunk" => t[i].path \in Chunks(s)
    BY <1>1, <1>2 DEF Chunks
  <2>2. \A k \in DOMAIN s : s[k].type = "chunk" => k = 1 \/ s[k].path \in Chunks(t)
    BY <1>1, <1>2 DEF Chunks
  <2>3. Head(s).type = "chunk" => Head(s).path \in Chunks(s)
    BY <1>1, <1>2 DEF Chunks
  <2>. QED
    BY <1>1, <2>1, <2>2, <2>3 DEF Chunks
<1>7. Ordered(s) /\ Head(s).type = "chunk" => \A p \in Chunks(t) : Head(s).path < p
  <2>. SUFFICES ASSUME Ordered(s), Head(s).type = "chunk", NEW i \in DOMAIN t, t[i].type = "chunk"
                PROVE  Head(s).path < t[i].path
    BY DEF Chunks
  <2>1. i + 1 \in DOMAIN s /\ 1 < i + 1
    BY <1>1, <1>2
  <2>. QED
    BY <1>1, <1>2, <2>1 DEF Ordered
<1>8. ASSUME NEW W, OneNeed(s, W)
      PROVE  /\ Head(s).type # "need" => OneNeed(t, W)
             /\ Head(s).type = "need" => Head(s).paths = W /\ Without(t, "need")
  <2>1. PICK k \in DOMAIN s : /\ s[k].type = "need" /\ s[k].paths = W
                              /\ \A i \in DOMAIN s : s[i].type = "need" => i = k
    BY <1>8 DEF OneNeed
  <2>2. CASE k = 1
    <3>1. \A i \in DOMAIN t : t[i].type # "need"
      BY <1>1, <1>2, <2>1, <2>2
    <3>. QED
      BY <1>1, <2>1, <2>2, <3>1 DEF Without
  <2>3. CASE k # 1
    <3>1. k - 1 \in DOMAIN t /\ t[k - 1] = s[k] /\ Head(s).type # "need"
      BY <1>1, <1>2, <2>1, <2>3
    <3>2. \A i \in DOMAIN t : t[i].type = "need" => i = k - 1
      BY <1>1, <1>2, <2>1
    <3>. QED
      BY <2>1, <3>1, <3>2 DEF OneNeed
  <2>. QED
    BY <2>2, <2>3
<1>. QED
  BY <1>3, <1>4, <1>5, <1>6, <1>7, <1>8 DEF t

LEMMA AppendView ==
    ASSUME NEW s \in Seq(Frame), NEW f \in Frame
    PROVE  /\ \A type : Without(s, type) /\ f.type # type => Without(Append(s, f), type)
           /\ f.type # "chunk" =>
                Chunks(Append(s, f)) = Chunks(s) /\ (Ordered(s) => Ordered(Append(s, f)))
           /\ f.type = "chunk" => Chunks(Append(s, f)) = Chunks(s) \cup {f.path}
           /\ f.type = "chunk" /\ Ordered(s) /\ (\A p \in Chunks(s) : p < f.path) =>
                Ordered(Append(s, f))
           /\ \A W : OneNeed(s, W) /\ f.type # "need" => OneNeed(Append(s, f), W)
           /\ f.type = "need" /\ Without(s, "need") => OneNeed(Append(s, f), f.paths)
<1>. DEFINE t == Append(s, f)
            last == Len(s) + 1
<1>1. /\ Len(s) \in Nat /\ DOMAIN s = 1 .. Len(s) /\ DOMAIN t = 1 .. last
      /\ \A i \in DOMAIN s : t[i] = s[i]
      /\ t[last] = f
  <2>1. /\ Len(s) \in Nat /\ DOMAIN s = 1 .. Len(s) /\ t \in Seq(Frame) /\ Len(t) = last
        /\ \A i \in 1 .. Len(s) : t[i] = s[i]
        /\ t[last] = f
    BY AppendProperties
  <2>. QED
    BY <2>1
<1>2. /\ last \in DOMAIN t /\ last \notin DOMAIN s
      /\ \A i \in DOMAIN t : i = last \/ i \in DOMAIN s
      /\ \A i \in DOMAIN s : i \in DOMAIN t /\ i < last
      /\ \A i \in DOMAIN t : ~(last < i)
  BY <1>1
<1>. HIDE DEF t, last
<1>3. \A type : Without(s, type) /\ f.type # type => Without(t, type)
  BY <1>1, <1>2 DEF Without
<1>4. f.type # "chunk" => Chunks(t) = Chunks(s) /\ (Ordered(s) => Ordered(t))
  <2>1. f.type # "chunk" => Chunks(t) = Chunks(s)
    BY <1>1, <1>2 DEF Chunks
  <2>2. f.type # "chunk" /\ Ordered(s) => Ordered(t)
    BY <1>1, <1>2 DEF Ordered
  <2>. QED
    BY <2>1, <2>2
<1>5. f.type = "chunk" => Chunks(t) = Chunks(s) \cup {f.path}
  BY <1>1, <1>2 DEF Chunks
<1>6. f.type = "chunk" /\ Ordered(s) /\ (\A p \in Chunks(s) : p < f.path) => Ordered(t)
  <2>. SUFFICES ASSUME f.type = "chunk", Ordered(s), \A p \in Chunks(s) : p < f.path,
                       NEW i \in DOMAIN t, NEW k \in DOMAIN t, i < k,
                       t[i].type = "chunk", t[k].type = "chunk"
                PROVE  t[i].path < t[k].path
    BY DEF Ordered
  <2>1. i \in DOMAIN s /\ t[i] = s[i]
    BY <1>1, <1>2
  <2>2. CASE k = last
    BY <1>1, <2>1, <2>2 DEF Chunks
  <2>3. CASE k \in DOMAIN s
    BY <1>1, <2>1, <2>3 DEF Ordered
  <2>. QED
    BY <1>2, <2>2, <2>3
<1>7. \A W : OneNeed(s, W) /\ f.type # "need" => OneNeed(t, W)
  BY <1>1, <1>2 DEF OneNeed
<1>8. f.type = "need" /\ Without(s, "need") => OneNeed(t, f.paths)
  BY <1>1, <1>2 DEF OneNeed, Without
<1>. QED
  BY <1>3, <1>4, <1>5, <1>6, <1>7, <1>8 DEF t

-----------------------------------------------------------------------------
(* One sender, one receiver *)

\* A path of a list before all others is the first.
LEMMA FirstIsMin ==
    ASSUME NEW S \in SUBSET Paths, NEW p \in S, \A q \in S \ {p} : p < q
    PROVE  Min(S) = p
<1>1. S \subseteq Nat
  BY ConstantsAssumption
<1>2. PICK m \in S : m = Min(S) /\ \A q \in S \ {m} : m < q
  BY MinOfPaths
<1>3. m \in Nat /\ p \in Nat /\ (m # p => m < p /\ p < m)
  BY <1>1, <1>2
<1>. QED
  BY <1>2, <1>3

\* When files go from s to r, none go back: r is not asked and announces nothing
\* that s looks at.
LEMMA OneDirection ==
    ASSUME IndInv, ServiceInv, NEW s \in Nodes, NEW r \in Nodes, s # r, Flows(s, r)
    PROVE  /\ Nodes = {s, r} /\ Other(s) = r /\ Other(r) = s
           /\ FlowInv(s, r) /\ AnnouncedInv(s, r) /\ pc[s] # "receive"
           /\ CanReceive(s) => Without(net[s], "manifest")
<1>1. Nodes = {s, r} /\ Other(s) = r /\ Other(r) = s
  <2>1. Nodes = {s, r}
    BY ConstantsAssumption
  <2>. QED
    BY <2>1, OtherNode
<1>2. ~Flows(r, s)
  BY <1>1 DEF ServiceInv, Flows, CanSend, CanReceive, Bidirectional, IndInv, TypeOK, Config
<1>. QED
  BY <1>1, <1>2 DEF ServiceInv, SilentInv, Flows

\* The frames written to n look the same to receiveFile and sendFiles.
SameView(n) ==
    /\ \A type \in {"need", "chunk"} : Without(net[n], type) => Without(net'[n], type)
    /\ Chunks(net'[n]) = Chunks(net[n]) /\ (Ordered(net[n]) => Ordered(net'[n]))
    /\ \A W : OneNeed(net[n], W) => OneNeed(net'[n], W)

LEMMA ReadSame ==
    ASSUME TypeOK, NEW n \in Nodes, net[n] # <<>>, net'[n] = Tail(net[n]),
           Head(net[n]).type \notin {"need", "chunk"}
    PROVE  SameView(n)
<1>. DEFINE s == net[n]
<1>1. s \in Seq(Frame) /\ s # <<>> /\ net'[n] = Tail(s) /\ Head(s).type \notin {"need", "chunk"}
  BY DEF TypeOK
<1>2. SameView(n) <=> (
    /\ \A type \in {"need", "chunk"} : Without(s, type) => Without(Tail(s), type)
    /\ Chunks(Tail(s)) = Chunks(s) /\ (Ordered(s) => Ordered(Tail(s)))
    /\ \A W : OneNeed(s, W) => OneNeed(Tail(s), W))
  BY <1>1 DEF SameView
<1>. HIDE DEF s
<1>. QED
  BY <1>1, <1>2, TailView

LEMMA WriteSame ==
    ASSUME TypeOK, NEW n \in Nodes, NEW f \in Frame, f.type \notin {"need", "chunk"},
           net'[n] = Append(net[n], f)
    PROVE  SameView(n)
<1>. DEFINE s == net[n]
<1>1. s \in Seq(Frame) /\ net'[n] = Append(s, f)
  BY DEF TypeOK
<1>2. SameView(n) <=> (
    /\ \A type \in {"need", "chunk"} : Without(s, type) => Without(Append(s, f), type)
    /\ Chunks(Append(s, f)) = Chunks(s) /\ (Ordered(s) => Ordered(Append(s, f)))
    /\ \A W : OneNeed(s, W) => OneNeed(Append(s, f), W))
  BY <1>1 DEF SameView
<1>. HIDE DEF s
<1>. QED
  BY <1>1, <1>2, AppendView

LEMMA UnchangedSame ==
    ASSUME NEW n \in Nodes, net'[n] = net[n]
    PROVE  SameView(n)
  BY DEF SameView

LEMMA FlowKept ==
    ASSUME NEW s \in Nodes, NEW r \in Nodes, FlowInv(s, r), UNCHANGED <<pc, want>>,
           SameView(s), SameView(r)
    PROVE  FlowInv(s, r)'
<1>1. Sending(s)' = Sending(s)
  BY DEF Sending
<1>2. Asked(s, r) => Asked(s, r)'
  BY DEF Asked, SameView
<1>3. Answered(s, r) => Answered(s, r)'
  BY <1>1 DEF Answered, SameView
<1>. QED
  BY <1>2, <1>3 DEF FlowInv, SameView

\* Nothing new is announced, asked for or sent but what is there.
LEMMA AnnouncedKept ==
    ASSUME NEW s \in Nodes, NEW r \in Nodes, AnnouncedInv(s, r),
           Tracked(s) \subseteq Tracked(s)',
           \A g \in Senders : senders'[s][g] \in {senders[s][g], NoFile}
                               \/ Listed(senders'[s][g]) \subseteq Tracked(s)',
           \A f \in InFlight(r)' \ InFlight(r) : f.type = "manifest" =>
                Listed(f.files) \subseteq Tracked(s)',
           \A f \in InFlight(s)' \ InFlight(s) : f.type = "need" => f.paths \subseteq Tracked(s)',
           Sending(s)' \subseteq Sending(s) \cup Tracked(s)'
    PROVE  AnnouncedInv(s, r)'
<1>1. \A g \in Senders : senders'[s][g] # NoFile => Listed(senders'[s][g]) \subseteq Tracked(s)'
  BY DEF AnnouncedInv
<1>2. \A f \in InFlight(r)' : f.type = "manifest" => Listed(f.files) \subseteq Tracked(s)'
  BY DEF AnnouncedInv
<1>3. \A f \in InFlight(s)' : f.type = "need" => f.paths \subseteq Tracked(s)'
  BY DEF AnnouncedInv
<1>4. Sending(s)' \subseteq Tracked(s)'
  BY DEF AnnouncedInv
<1>. QED
  BY <1>1, <1>2, <1>3, <1>4 DEF AnnouncedInv, Listed

\* Steps that leave the handlers alone and write no NEED and no CHUNK.
LEMMA TracksMore ==
    ASSUME NEW s \in Nodes, \A p \in Paths : disk[s][p] # NoFile => disk'[s][p] # NoFile
    PROVE  Tracked(s) \subseteq Tracked(s)'
  BY DEF Tracked, Exists

\* What is announced is tracked.
LEMMA AnnounceTracked ==
    ASSUME TypeOK, NEW n \in Nodes, NEW S \in SUBSET Tracked(n), Announce(n, S),
           NEW s \in Nodes, NEW g \in Senders
    PROVE  senders'[s][g] = senders[s][g] \/ (s = n /\ Listed(senders'[s][g]) \subseteq Tracked(s))
<1>1. CASE UNCHANGED senders
  BY <1>1
<1>2. ASSUME NEW h \in Senders, senders' = [senders EXCEPT ![n][h] = Entries(n, S)]
      PROVE  senders'[s][g] = senders[s][g] \/ (s = n /\ Listed(senders'[s][g]) \subseteq Tracked(s))
  <2>1. Listed(Entries(n, S)) \subseteq Tracked(n)
    BY DEF Listed, Entries
  <2>2. senders'[s][g] = IF s = n /\ g = h THEN Entries(n, S) ELSE senders[s][g]
    BY <1>2 DEF TypeOK
  <2>. QED
    BY <2>1, <2>2
<1>. QED
  BY <1>1, <1>2 DEF Announce

\* Time passes, or a goroutine scans the tree.
LEMMA ScanServes ==
    ASSUME IndInv, ServiceInv, NEW s \in Nodes, NEW r \in Nodes, s # r, Flows(s, r),
           NEW n \in Nodes,
           Tick \/ UNCHANGED vars \/ OnFolderChanged(n) \/ OnPeerConnected(n) \/ CatchUp(n)
    PROVE  FlowInv(s, r)' /\ AnnouncedInv(s, r)'
<1>0. TypeOK /\ FlowInv(s, r) /\ AnnouncedInv(s, r)
  BY OneDirection DEF IndInv
<1>1. UNCHANGED <<disk, net, pc, want>>
  BY DEF Tick, vars, OnFolderChanged, OnPeerConnected, CatchUp, handlerVars
<1>2. FlowInv(s, r)'
  BY <1>0, <1>1, UnchangedSame, FlowKept
<1>3. \A g \in Senders : senders'[s][g] = senders[s][g] \/ Listed(senders'[s][g]) \subseteq Tracked(s)
  <2>1. UNCHANGED senders \/ \E S \in SUBSET Tracked(n) : Announce(n, S)
    BY DEF Tick, vars, OnFolderChanged, OnPeerConnected, CatchUp, BroadcastFolder, Stale
  <2>. QED
    BY <1>0, <2>1, AnnounceTracked
<1>4. Tracked(s)' = Tracked(s) /\ InFlight(s)' = InFlight(s) /\ InFlight(r)' = InFlight(r)
  BY <1>1 DEF Tracked, Exists, InFlight
<1>5. Sending(s)' = Sending(s)
  BY <1>1 DEF Sending
<1>. QED
  BY <1>0, <1>2, <1>3, <1>4, <1>5, AnnouncedKept

\* A frame that is neither NEED nor CHUNK is written, or read, or answered.
LEMMA FramesServe ==
    ASSUME IndInv, ServiceInv, NEW s \in Nodes, NEW r \in Nodes, s # r, Flows(s, r),
           UNCHANGED <<disk, pc, want>>, SameView(s), SameView(r),
           \A g \in Senders : senders'[s][g] \in {senders[s][g], NoFile},
           NEW f, f.type # "need",
           f.type = "manifest" => Listed(f.files) \subseteq Tracked(s),
           InFlight(s)' \subseteq InFlight(s) \cup {f},
           InFlight(r)' \subseteq InFlight(r) \cup {f}
    PROVE  FlowInv(s, r)' /\ AnnouncedInv(s, r)'
<1>0. FlowInv(s, r) /\ AnnouncedInv(s, r)
  BY OneDirection
<1>1. FlowInv(s, r)'
  BY <1>0, FlowKept
<1>2. Tracked(s)' = Tracked(s) /\ Sending(s)' = Sending(s)
  BY DEF Tracked, Exists, Sending
<1>. QED
  BY <1>0, <1>1, <1>2, AnnouncedKept

LEMMA ConsumeServes ==
    ASSUME IndInv, ServiceInv, NEW s \in Nodes, NEW r \in Nodes, s # r, Flows(s, r),
           UNCHANGED <<disk, pc, want, senders>>,
           NEW n \in Nodes, net[n] # <<>>, Head(net[n]).type \notin {"need", "chunk"}, Consume(n)
    PROVE  FlowInv(s, r)' /\ AnnouncedInv(s, r)'
<1>0. TypeOK /\ net'[n] = Tail(net[n]) /\ \A m \in Nodes \ {n} : net'[m] = net[m]
  BY DEF IndInv, TypeOK, Consume
<1>1. SameView(s) /\ SameView(r)
  BY <1>0, ReadSame, UnchangedSame
<1>2. \A m \in Nodes : InFlight(m)' \subseteq InFlight(m)
  BY <1>0, ConsumeFlight
<1>. DEFINE f == [type |-> "ping"]
<1>3. f.type # "need" /\ f.type # "manifest" /\ \A m \in Nodes : InFlight(m)' \subseteq InFlight(m) \cup {f}
  BY <1>2
<1>4. \A g \in Senders : senders'[s][g] \in {senders[s][g], NoFile}
  OBVIOUS
<1>. HIDE DEF f
<1>. QED
  BY <1>1, <1>3, <1>4, FramesServe

LEMMA WriteServes ==
    ASSUME IndInv, ServiceInv, NEW s \in Nodes, NEW r \in Nodes, s # r, Flows(s, r),
           UNCHANGED <<disk, pc, want>>,
           \A g \in Senders : senders'[s][g] \in {senders[s][g], NoFile},
           NEW n \in Nodes, NEW f \in Frame, f.type \notin {"need", "chunk"}, Write(n, f),
           f.type = "manifest" => Listed(f.files) \subseteq Tracked(s)
    PROVE  FlowInv(s, r)' /\ AnnouncedInv(s, r)'
<1>0. TypeOK /\ net'[n] = Append(net[n], f) /\ \A m \in Nodes \ {n} : net'[m] = net[m]
  BY DEF IndInv, TypeOK, Write
<1>1. SameView(s) /\ SameView(r)
  BY <1>0, WriteSame, UnchangedSame
<1>2. \A m \in Nodes : InFlight(m)' \subseteq InFlight(m) \cup {f}
  BY <1>0, WriteFlight
<1>. QED
  BY <1>1, <1>2, FramesServe

LEMMA PingServes ==
    ASSUME IndInv, ServiceInv, NEW s \in Nodes, NEW r \in Nodes, s # r, Flows(s, r),
           NEW n \in Nodes, HandlePing(n)
    PROVE  FlowInv(s, r)' /\ AnnouncedInv(s, r)'
<1>. DEFINE f == [type |-> "ping"]
<1>0. PICK o \in Nodes : o = Other(n) /\ o # n
  BY OtherNode
<1>1. /\ TypeOK /\ net[n] # <<>> /\ Head(net[n]).type = "ping" /\ f \in Frame /\ Reply(n, f)
      /\ UNCHANGED <<disk, pc, want, senders>>
  BY DEF IndInv, HandlePing, Incoming, handlerVars, Frame
<1>2. /\ net'[n] = Tail(net[n]) /\ net'[o] = Append(net[o], f)
      /\ \A m \in Nodes \ {n, o} : net'[m] = net[m]
  BY <1>0, <1>1 DEF TypeOK, Reply
<1>3. SameView(n)
  BY <1>1, <1>2, ReadSame
<1>4. SameView(o)
  BY <1>1, <1>2, WriteSame
<1>5. SameView(s) /\ SameView(r)
  BY <1>2, <1>3, <1>4, UnchangedSame
<1>6. \A m \in Nodes : InFlight(m)' \subseteq InFlight(m) \cup {f}
  BY <1>1, ReplyFlight
<1>. QED
  BY <1>1, <1>5, <1>6, FramesServe

\* A connection starts empty, but for HELLOs, and nobody works on it.
LEMMA ConnectionServes ==
    ASSUME IndInv, ServiceInv, NEW s \in Nodes, NEW r \in Nodes, s # r, Flows(s, r),
           Connect \/ Disconnect \/ \E n \in Nodes : Restart(n)
    PROVE  FlowInv(s, r)' /\ AnnouncedInv(s, r)'
<1>0. AnnouncedInv(s, r) /\ disk' = disk
  BY OneDirection DEF Connect, Disconnect, Restart
<1>1. \A n \in Nodes : pc'[n] = "loop"
  BY DEF ServiceInv, Connect, Disconnect, Restart, DropConnection, handlerVars
<1>2. \A n \in Nodes : net'[n] = <<[type |-> "hello"]>> \/ net'[n] = <<>>
  BY DEF Connect, Disconnect, Restart, DropConnection
<1>3. \A n \in Nodes : /\ \A i \in DOMAIN net'[n] : net'[n][i] = [type |-> "hello"]
                       /\ \A f \in InFlight(n)' : f = [type |-> "hello"]
  BY <1>2 DEF InFlight
<1>4. \A n \in Nodes : Without(net'[n], "need") /\ Without(net'[n], "chunk")
  BY <1>3 DEF Without
<1>5. FlowInv(s, r)'
  BY <1>1, <1>4 DEF FlowInv
<1>6. \A g \in Senders : senders'[s][g] \in {senders[s][g], NoFile}
  BY DEF Connect, Disconnect, Restart
<1>7. Tracked(s)' = Tracked(s) /\ Sending(s)' = {}
  BY <1>0, <1>1 DEF Tracked, Exists, Sending
<1>8. \A n \in Nodes : \A f \in InFlight(n)' : f.type # "manifest" /\ f.type # "need"
  BY <1>3
<1>. QED
  BY <1>0, <1>5, <1>6, <1>7, <1>8, AnnouncedKept

\* A manifest or a PING is written.
LEMMA PushServes ==
    ASSUME IndInv, ServiceInv, NEW s \in Nodes, NEW r \in Nodes, s # r, Flows(s, r),
           NEW n \in Nodes, Pushes(n)
    PROVE  FlowInv(s, r)' /\ AnnouncedInv(s, r)'
<1>0. TypeOK /\ AnnouncedInv(s, r) /\ Nodes = {s, r} /\ FlowInv(s, r)
  BY OneDirection DEF IndInv
<1>o. PICK o \in Nodes : o = Other(n) /\ o # n
  BY OtherNode
<1>1. CASE OnFolderChanged(n) \/ OnPeerConnected(n) \/ CatchUp(n)
  BY <1>1, ScanServes
<1>2. CASE PullFromPeers(n)
  <2>. DEFINE f == [type |-> "ping"]
  <2>1. f \in Frame /\ f.type \notin {"need", "chunk", "manifest"}
    BY DEF Frame
  <2>2. UNCHANGED <<disk, pc, want, senders>> /\ (net' = net \/ Write(o, f))
    BY <1>2, <1>o DEF PullFromPeers, handlerVars
  <2>3. \A g \in Senders : senders'[s][g] \in {senders[s][g], NoFile}
    BY <2>2
  <2>. HIDE DEF f
  <2>4. CASE net' = net
    <3>1. SameView(s) /\ SameView(r)
      BY <2>4, UnchangedSame
    <3>2. \A m \in Nodes : InFlight(m)' \subseteq InFlight(m) \cup {f}
      BY <2>4 DEF InFlight
    <3>. QED
      BY <2>1, <2>2, <2>3, <3>1, <3>2, FramesServe
  <2>5. CASE Write(o, f)
    BY <2>1, <2>2, <2>3, <2>5, WriteServes
  <2>. QED
    BY <2>2, <2>4, <2>5
<1>3. ASSUME NEW g \in Senders, SendManifest(n, g) PROVE FlowInv(s, r)' /\ AnnouncedInv(s, r)'
  <2>. DEFINE f == [type |-> "manifest", files |-> senders[n][g]]
  <2>1. senders[n][g] \in Manifest /\ senders[n][g] # NoFile
    BY <1>0, <1>3 DEF SendManifest, TypeOK
  <2>2. f \in Frame /\ f.type \notin {"need", "chunk"}
    BY <2>1 DEF Frame
  <2>3. UNCHANGED <<disk, pc, want>> /\ Write(o, f)
    BY <1>3, <1>o DEF SendManifest, handlerVars
  <2>4. \A h \in Senders : senders'[s][h] \in {senders[s][h], NoFile}
    BY <1>0, <1>3 DEF SendManifest, TypeOK
  <2>5. CASE n = s
    <3>1. Listed(f.files) \subseteq Tracked(s)
      BY <1>0, <2>1, <2>5 DEF AnnouncedInv
    <3>. HIDE DEF f
    <3>. QED
      BY <2>2, <2>3, <2>4, <3>1, WriteServes
  <2>6. CASE n = r
    <3>. HIDE DEF f
    <3>1. o = s
      BY <1>0, <1>o, <2>6
    <3>2. net'[s] = Append(net[s], f) /\ net'[r] = net[r]
      BY <1>0, <2>3, <3>1 DEF TypeOK, Write
    <3>3. SameView(s) /\ SameView(r)
      BY <1>0, <2>2, <3>2, WriteSame, UnchangedSame
    <3>4. InFlight(s)' \subseteq InFlight(s) \cup {f} /\ InFlight(r)' = InFlight(r)
      BY <1>0, <2>2, <2>3, <3>2, WriteFlight DEF InFlight
    <3>5. FlowInv(s, r)'
      BY <1>0, <2>3, <3>3, FlowKept
    <3>6. Tracked(s)' = Tracked(s) /\ Sending(s)' = Sending(s)
      BY <2>3 DEF Tracked, Exists, Sending
    <3>. QED
      BY <1>0, <2>2, <2>4, <3>4, <3>5, <3>6, AnnouncedKept
  <2>. QED
    BY <1>0, <2>5, <2>6
<1>. QED
  BY <1>1, <1>2, <1>3 DEF Pushes

\* The CHUNK the receiver reads first is the one it waits for.
LEMMA HeadIsAwaited ==
    ASSUME IndInv, NEW s \in Nodes, NEW r \in Nodes, FlowInv(s, r),
           Incoming(r, "receive", {"chunk"})
    PROVE  /\ Answered(s, r) /\ Head(net[r]).path = Min(want[r])
           /\ Chunks(Tail(net[r])) \cup Sending(s) = want[r] \ {Min(want[r])}
           /\ Ordered(Tail(net[r]))
<1>. DEFINE t == net[r]
            p == Head(t).path
<1>0. t \in Seq(Frame) /\ t # <<>> /\ Head(t).type = "chunk" /\ want[r] \in SUBSET Paths
  BY DEF IndInv, TypeOK, Incoming
<1>1. ~Asked(s, r)
  <2>1. Asked(s, r) => Without(t, "chunk")
    BY DEF Asked
  <2>. HIDE DEF t
  <2>. QED
    BY <1>0, <2>1, TailView
<1>2. Answered(s, r)
  BY <1>1 DEF FlowInv, Incoming
<1>3. /\ want[r] = Chunks(t) \cup Sending(s) /\ Ordered(t)
      /\ \A x \in Chunks(t), q \in Sending(s) : x < q
  BY <1>2 DEF Answered
<1>. HIDE DEF t
<1>4. /\ Chunks(t) = Chunks(Tail(t)) \cup {p} /\ Ordered(Tail(t))
      /\ \A x \in Chunks(Tail(t)) : p < x
  BY <1>0, <1>3, TailView
<1>5. p \in want[r] /\ \A q \in want[r] \ {p} : p < q
  BY <1>3, <1>4
<1>6. Min(want[r]) = p
  <2>. HIDE DEF p
  <2>. QED
    BY <1>0, <1>5, FirstIsMin
<1>7. \A x \in Chunks(Tail(t)) \cup Sending(s) : p < x /\ x \in Nat
  BY <1>0, <1>3, <1>4, ConstantsAssumption
<1>8. p \notin Chunks(Tail(t)) \cup Sending(s)
  BY <1>7
<1>. QED
  BY <1>2, <1>3, <1>4, <1>6, <1>8 DEF t

\* Frames that are dropped are no NEED and no CHUNK.
LEMMA ReadServes ==
    ASSUME IndInv, ServiceInv, NEW s \in Nodes, NEW r \in Nodes, s # r, Flows(s, r),
           NEW n \in Nodes,
           HandleHello(n) \/ HandlePing(n) \/ SkipFrame(n) \/ DropWhileReceiving(n)
    PROVE  FlowInv(s, r)' /\ AnnouncedInv(s, r)'
<1>0. /\ TypeOK /\ Nodes = {s, r} /\ FlowInv(s, r) /\ pc[s] # "receive"
      /\ \A m \in Nodes : net[m] \in Seq(Frame)
  BY OneDirection DEF IndInv, TypeOK
<1>1. CASE HandlePing(n)
  BY <1>1, PingServes
<1>2. CASE HandleHello(n) \/ SkipFrame(n) \/ DropWhileReceiving(n)
  <2>1. /\ net[n] # <<>> /\ Consume(n) /\ UNCHANGED <<disk, pc, want, senders>>
        /\ pc[n] \in {"loop", "receive"}
    BY <1>2 DEF HandleHello, SkipFrame, DropWhileReceiving, Incoming, handlerVars
  <2>2. \A type : Without(net[n], type) => Head(net[n]).type # type
    <3>. DEFINE t == net[n]
    <3>1. t \in Seq(Frame) /\ t # <<>>
      BY <1>0, <2>1
    <3>. HIDE DEF t
    <3>2. \A type : Without(t, type) => Head(t).type # type
      BY <3>1, TailView
    <3>. QED
      BY <3>2 DEF t
  <2>3. CASE n = s
    <3>1. Head(net[n]).type # "chunk"
      BY <1>0, <2>2, <2>3 DEF FlowInv
    <3>2. Head(net[n]).type # "need"
      BY <1>0, <1>2, <2>3 DEF HandleHello, SkipFrame, DropWhileReceiving, Incoming, Flows
    <3>. QED
      BY <2>1, <3>1, <3>2, ConsumeServes
  <2>4. CASE n = r
    <3>1. Head(net[n]).type # "need"
      BY <1>0, <2>2, <2>4 DEF FlowInv
    <3>2. CASE pc[n] = "loop"
      <4>1. Head(net[n]).type # "chunk"
        BY <1>0, <2>2, <2>4, <3>2 DEF FlowInv
      <4>. QED
        BY <2>1, <3>1, <4>1, ConsumeServes
    <3>3. CASE pc[n] = "receive"
      <4>1. DropWhileReceiving(n)
        BY <1>2, <3>3 DEF HandleHello, SkipFrame, Incoming
      <4>2. Head(net[n]).type # "chunk"
        <5>1. Incoming(r, "receive", {"chunk"}) => Head(net[r]).path = Min(want[r])
          BY <1>0, HeadIsAwaited
        <5>. QED
          BY <2>1, <2>4, <3>3, <4>1, <5>1 DEF DropWhileReceiving, Awaited, Incoming
      <4>. QED
        BY <2>1, <3>1, <4>2, ConsumeServes
    <3>. QED
      BY <2>1, <3>2, <3>3
  <2>. QED
    BY <1>0, <2>3, <2>4
<1>. QED
  BY <1>1, <1>2

\* The receiver asks for announced files, and waits for them.
LEMMA ApplyServes ==
    ASSUME IndInv, ServiceInv, NEW s \in Nodes, NEW r \in Nodes, s # r, Flows(s, r),
           NEW n \in Nodes, ApplyManifest(n)
    PROVE  FlowInv(s, r)' /\ AnnouncedInv(s, r)'
<1>. DEFINE t == net[n]
            files == Head(t).files
            C == Conflicts(n, files)
            needed == Needed(n, files)
            f == [type |-> "need", paths |-> needed]
<1>0. /\ TypeOK /\ Nodes = {s, r} /\ FlowInv(s, r) /\ AnnouncedInv(s, r)
      /\ Other(r) = s /\ t \in Seq(Frame)
  BY OneDirection DEF IndInv, TypeOK
<1>1. /\ CanReceive(n) /\ pc[n] = "loop" /\ t # <<>> /\ Head(t).type = "manifest"
      /\ disk' = [disk EXCEPT ![n] = WithConflictsRenamed(@, C)] /\ senders' = senders
      /\ \/ Consume(n) /\ UNCHANGED <<pc, want>>
         \/ /\ Reply(n, f)
            /\ pc' = [pc EXCEPT ![n] = "receive"] /\ want' = [want EXCEPT ![n] = needed]
  BY DEF ApplyManifest, ApplyFiles, Incoming
<1>2. needed \in SUBSET Listed(files) /\ needed \in SUBSET Paths
  BY DEF Needed, Differing, Listed
<1>3. n = r
  <2>1. ~Without(t, "manifest")
    <3>. HIDE DEF t
    <3>. QED
      BY <1>0, <1>1, TailView
  <2>. QED
    BY <1>0, <1>1, <2>1, OneDirection
<1>4. Head(t) \in InFlight(r) /\ net[s] \in Seq(Frame) /\ net[r] \in Seq(Frame)
  BY <1>0, <1>1, <1>3, TailElements DEF InFlight, TypeOK
<1>5. Listed(files) \subseteq Tracked(s)
  BY <1>0, <1>1, <1>4 DEF AnnouncedInv
<1>6. disk'[s] = disk[s] /\ Tracked(s)' = Tracked(s)
  <2>1. disk'[s] = disk[s]
    BY <1>0, <1>1, <1>3 DEF TypeOK
  <2>. QED
    BY <2>1 DEF Tracked, Exists
<1>7. \A g \in Senders : senders'[s][g] \in {senders[s][g], NoFile}
  BY <1>1
<1>8. f \in Frame /\ f.type = "need" /\ f.paths = needed
  BY <1>2 DEF Frame
<1>9. net[n] # <<>> /\ Head(net[n]).type \notin {"need", "chunk"}
  BY <1>1
<1>. HIDE DEF files, C, needed, f
<1>10. CASE Consume(n) /\ UNCHANGED <<pc, want>>
  <2>1. net'[r] = Tail(net[r]) /\ net'[s] = net[s]
    BY <1>0, <1>3, <1>10 DEF TypeOK, Consume
  <2>2. SameView(r) /\ SameView(s)
    BY <1>0, <1>3, <1>9, <2>1, ReadSame, UnchangedSame
  <2>3. \A m \in Nodes : InFlight(m)' \subseteq InFlight(m)
    BY <1>0, <1>9, <1>10, ConsumeFlight
  <2>4. Sending(s)' = Sending(s)
    BY <1>10 DEF Sending
  <2>5. FlowInv(s, r)'
    BY <1>0, <1>10, <2>2, FlowKept
  <2>. QED
    BY <1>0, <1>6, <1>7, <2>3, <2>4, <2>5, AnnouncedKept
<1>11. CASE /\ Reply(n, f)
            /\ pc' = [pc EXCEPT ![n] = "receive"] /\ want' = [want EXCEPT ![n] = needed]
  <2>1. net'[r] = Tail(net[r]) /\ net'[s] = Append(net[s], f)
    BY <1>0, <1>3, <1>11 DEF TypeOK, Reply
  <2>2. pc'[r] = "receive" /\ pc'[s] = pc[s] /\ want'[r] = needed
    BY <1>0, <1>3, <1>11 DEF TypeOK
  <2>3. /\ Without(net[r], "need") /\ Without(net[s], "chunk") /\ pc[s] # "send"
        /\ Without(net[r], "chunk") /\ Without(net[s], "need")
    BY <1>0, <1>1, <1>3 DEF FlowInv
  <2>4. Without(Tail(net[r]), "need") /\ Without(Tail(net[r]), "chunk")
    <3>1. t \in Seq(Frame) /\ t # <<>> /\ Without(t, "need") /\ Without(t, "chunk") /\ t = net[r]
      BY <1>0, <1>1, <1>3, <2>3
    <3>. HIDE DEF t
    <3>2. Without(Tail(t), "need") /\ Without(Tail(t), "chunk")
      BY <3>1, TailView
    <3>. QED
      BY <3>1, <3>2
  <2>5. Without(Append(net[s], f), "chunk") /\ OneNeed(Append(net[s], f), needed)
    <3>. DEFINE u == net[s]
    <3>1. u \in Seq(Frame) /\ Without(u, "chunk") /\ Without(u, "need")
      BY <1>4, <2>3
    <3>. HIDE DEF u
    <3>2. Without(Append(u, f), "chunk") /\ OneNeed(Append(u, f), needed)
      BY <1>8, <3>1, AppendView
    <3>. QED
      BY <3>2 DEF u
  <2>6. FlowInv(s, r)'
    BY <2>1, <2>2, <2>3, <2>4, <2>5 DEF FlowInv, Asked
  <2>7. \A m \in Nodes : InFlight(m)' \subseteq InFlight(m) \cup {f}
    BY <1>0, <1>8, <1>9, <1>11, ReplyFlight
  <2>8. Sending(s)' = {}
    BY <2>2, <2>3 DEF Sending
  <2>. QED
    BY <1>0, <1>2, <1>5, <1>6, <1>7, <1>8, <2>6, <2>7, <2>8, AnnouncedKept
<1>. QED
  BY <1>1, <1>10, <1>11

\* The receiver gets the file it waits for, and waits for the rest.
LEMMA ReceiveServes ==
    ASSUME IndInv, ServiceInv, NEW s \in Nodes, NEW r \in Nodes, s # r, Flows(s, r),
           NEW n \in Nodes, ReceiveChunk(n)
    PROVE  FlowInv(s, r)' /\ AnnouncedInv(s, r)'
<1>. DEFINE t == net[r]
            rest == want[r] \ {Min(want[r])}
<1>0. /\ TypeOK /\ Nodes = {s, r} /\ FlowInv(s, r) /\ AnnouncedInv(s, r)
      /\ pc[s] # "receive" /\ net[s] \in Seq(Frame) /\ t \in Seq(Frame)
  BY OneDirection DEF IndInv, TypeOK
<1>1. n = r
  BY <1>0 DEF ReceiveChunk, StoreChunk, Incoming
<1>2. /\ Incoming(r, "receive", {"chunk"}) /\ Consume(r) /\ UNCHANGED <<senders>>
      /\ disk' = [disk EXCEPT ![r][Awaited(r)] = [hash |-> Head(net[r]).data, mtime |-> now]]
      /\ want' = [want EXCEPT ![r] = rest]
      /\ pc' = [pc EXCEPT ![r] = IF rest = {} THEN "loop" ELSE "receive"]
  BY <1>1 DEF ReceiveChunk, StoreChunk, AwaitNext, Awaited
<1>3. /\ Answered(s, r) /\ Ordered(Tail(t)) /\ Chunks(Tail(t)) \cup Sending(s) = rest
  BY <1>0, <1>2, HeadIsAwaited
<1>4. net'[r] = Tail(t) /\ net'[s] = net[s] /\ t # <<>> /\ Head(t).type = "chunk"
  BY <1>0, <1>2 DEF TypeOK, Consume, Incoming
<1>5. /\ want'[r] = rest /\ want'[s] = want[s] /\ pc'[s] = pc[s]
      /\ pc'[r] = IF rest = {} THEN "loop" ELSE "receive"
  BY <1>0, <1>2 DEF TypeOK
<1>6. Sending(s)' = Sending(s)
  BY <1>5 DEF Sending
<1>7. /\ Without(t, "need") /\ Without(net[s], "chunk") /\ Without(net[s], "need")
      /\ \A p \in Chunks(t), q \in Sending(s) : p < q
  BY <1>0, <1>3 DEF FlowInv, Answered
<1>8. Without(Tail(t), "need") /\ Chunks(Tail(t)) \subseteq Chunks(t)
  <2>. HIDE DEF t
  <2>. QED
    BY <1>0, <1>4, <1>7, TailView
<1>9. Answered(s, r)'
  BY <1>3, <1>4, <1>5, <1>6, <1>7, <1>8 DEF Answered
<1>10. rest = {} => Without(Tail(t), "chunk") /\ pc[s] # "send"
  <2>1. Chunks(Tail(t)) = {} => Without(Tail(t), "chunk")
    BY DEF Chunks, Without
  <2>2. pc[s] = "send" => Sending(s) # {}
    BY DEF IndInv, WantClean, Sending
  <2>. QED
    BY <1>3, <2>1, <2>2
<1>11. FlowInv(s, r)'
  <2>1. CASE rest = {}
    BY <1>4, <1>5, <1>7, <1>8, <1>10, <2>1 DEF FlowInv
  <2>2. CASE rest # {}
    BY <1>4, <1>5, <1>7, <1>8, <1>9, <2>2 DEF FlowInv
  <2>. QED
    BY <2>1, <2>2
<1>12. \A m \in Nodes : InFlight(m)' \subseteq InFlight(m)
  BY <1>0, <1>2, <1>4, ConsumeFlight
<1>13. Tracked(s)' = Tracked(s)
  <2>1. disk'[s] = disk[s]
    BY <1>0, <1>2 DEF TypeOK
  <2>. QED
    BY <2>1 DEF Tracked, Exists
<1>14. \A g \in Senders : senders'[s][g] \in {senders[s][g], NoFile}
  BY <1>2
<1>. QED
  BY <1>0, <1>6, <1>11, <1>12, <1>13, <1>14, AnnouncedKept

\* The sender reads the NEED: it has all files the receiver waits for.
LEMMA NeedServes ==
    ASSUME IndInv, ServiceInv, NEW s \in Nodes, NEW r \in Nodes, s # r, Flows(s, r),
           NEW n \in Nodes, HandleNeed(n)
    PROVE  FlowInv(s, r)' /\ AnnouncedInv(s, r)'
<1>. DEFINE t == net[s]
            h == Head(t)
            paths == h.paths \ Ignored[s]
<1>0. /\ TypeOK /\ Nodes = {s, r} /\ FlowInv(s, r) /\ AnnouncedInv(s, r)
      /\ net[r] \in Seq(Frame) /\ t \in Seq(Frame)
  BY OneDirection DEF IndInv, TypeOK
<1>1. n = s
  <2>. DEFINE u == net[r]
  <2>1. u \in Seq(Frame) /\ Without(u, "need") /\ (n = r => u # <<>> /\ Head(u).type = "need")
    BY <1>0 DEF FlowInv, HandleNeed, Incoming
  <2>. HIDE DEF u
  <2>2. n # r
    BY <2>1, TailView
  <2>. QED
    BY <1>0, <2>2
<1>2. t # <<>> /\ h.type = "need" /\ pc[s] = "loop" /\ Consume(s) /\ UNCHANGED <<disk, senders>>
  BY <1>1 DEF HandleNeed, Incoming
<1>3. ~Without(t, "need") /\ h \in InFlight(s)
  <2>1. h \in {t[i] : i \in DOMAIN t}
    BY <1>0, <1>2, TailElements
  <2>. HIDE DEF h
  <2>2. h \in InFlight(s) /\ ~Without(t, "need")
    BY <1>2, <2>1 DEF InFlight, Without
  <2>. QED
    BY <2>2
<1>4. pc[r] = "receive" /\ Asked(s, r)
  BY <1>0, <1>3 DEF FlowInv, Answered
<1>5. OneNeed(t, want[r]) /\ Without(net[r], "chunk") /\ Without(t, "chunk") /\ Without(net[r], "need")
  BY <1>0, <1>4 DEF Asked, FlowInv
<1>6. h.paths = want[r] /\ Without(Tail(t), "need") /\ Without(Tail(t), "chunk")
  <2>. HIDE DEF t
  <2>. QED
    BY <1>0, <1>2, <1>5, TailView
<1>7. want[r] \subseteq Tracked(s) /\ want[r] # {}
  <2>1. h.paths \subseteq Tracked(s)
    BY <1>0, <1>2, <1>3 DEF AnnouncedInv
  <2>. QED
    BY <1>4, <1>6, <2>1 DEF IndInv, WantClean
<1>8. paths = want[r] /\ \E p \in paths : Exists(s, p)
  BY <1>6, <1>7 DEF Tracked
<1>9. pc' = [pc EXCEPT ![s] = "send"] /\ want' = [want EXCEPT ![s] = want[r]]
  BY <1>1, <1>8 DEF HandleNeed, Granted
<1>10. /\ pc'[s] = "send" /\ want'[s] = want[r] /\ pc'[r] = "receive" /\ want'[r] = want[r]
       /\ net'[s] = Tail(t) /\ net'[r] = net[r]
  BY <1>0, <1>2, <1>4, <1>9 DEF TypeOK, Consume
<1>11. Sending(s)' = want[r]
  BY <1>10 DEF Sending
<1>12. Chunks(net[r]) = {} /\ Ordered(net[r])
  BY <1>5 DEF Chunks, Ordered, Without
<1>13. Answered(s, r)'
  BY <1>6, <1>10, <1>11, <1>12 DEF Answered
<1>14. FlowInv(s, r)'
  BY <1>5, <1>6, <1>10, <1>13 DEF FlowInv
<1>15. \A m \in Nodes : InFlight(m)' \subseteq InFlight(m)
  BY <1>0, <1>2, ConsumeFlight
<1>16. Tracked(s)' = Tracked(s) /\ \A g \in Senders : senders'[s][g] \in {senders[s][g], NoFile}
  BY <1>2 DEF Tracked, Exists
<1>. QED
  BY <1>0, <1>7, <1>11, <1>14, <1>15, <1>16, AnnouncedKept

\* Files do not disappear and can be read and written, and every NEED answers
\* a manifest.
NothingLost == MaxDeletes = 0 /\ MaxFaults = 0 /\ MaxAsks = 0

LEMMA NoStray ==
    ASSUME TypeOK, NothingLost
    PROVE  ~Stray
<1>1. used["asks"] \in Nat
  BY DEF TypeOK, Budgets
<1>2. ~(used["asks"] < MaxAsks)
  BY <1>1 DEF NothingLost
<1>. QED
  BY <1>2 DEF Stray, StrayNeed

LEMMA NoFault ==
    ASSUME TypeOK, NothingLost
    PROVE  ~Fault
<1>1. used["faults"] \in Nat
  BY DEF TypeOK, Budgets
<1>. QED
  BY <1>1 DEF NothingLost, Fault

\* sendFiles goes through its list in order, and skips nothing.
LEMMA SendServes ==
    ASSUME IndInv, ServiceInv, NothingLost,
           NEW s \in Nodes, NEW r \in Nodes, s # r, Flows(s, r),
           NEW n \in Nodes, ReadFile(n) \/ SendChunk(n)
    PROVE  FlowInv(s, r)' /\ AnnouncedInv(s, r)'
<1>. DEFINE p == Min(want[s])
            t == net[r]
            f == [type |-> "chunk", path |-> p, data |-> buf[s]]
<1>0. /\ TypeOK /\ Nodes = {s, r} /\ FlowInv(s, r) /\ AnnouncedInv(s, r) /\ Other(s) = r
      /\ t \in Seq(Frame) /\ want[s] \in SUBSET Paths
  BY OneDirection DEF IndInv, TypeOK
<1>1. n = s /\ pc[s] = "send"
  BY <1>0 DEF ReadFile, SendChunk, FlowInv
<1>2. want[s] # {} /\ Sending(s) = want[s]
  BY <1>1 DEF IndInv, WantClean, Sending
<1>3. p \in want[s] /\ \A q \in want[s] \ {p} : p < q
  BY <1>0, <1>2, MinOfPaths
<1>4. p \in Tracked(s) /\ Exists(s, p)
  BY <1>0, <1>2, <1>3 DEF AnnouncedInv, Tracked
<1>. HIDE DEF p
<1>5. CASE ReadFile(s)
  <2>1. UNCHANGED <<disk, net, pc, want, senders>>
    BY <1>0, <1>4, <1>5, NoFault DEF ReadFile, p
  <2>2. FlowInv(s, r)'
    BY <1>0, <2>1, UnchangedSame, FlowKept
  <2>3. /\ Tracked(s)' = Tracked(s) /\ Sending(s)' = Sending(s)
        /\ \A m \in Nodes : InFlight(m)' = InFlight(m)
        /\ \A g \in Senders : senders'[s][g] \in {senders[s][g], NoFile}
    BY <2>1 DEF Tracked, Exists, Sending, InFlight
  <2>. QED
    BY <1>0, <2>2, <2>3, AnnouncedKept
<1>6. CASE SendChunk(s)
  <2>1. /\ buf[s] # NoFile /\ Write(r, f) /\ UNCHANGED <<disk, senders>>
        /\ want' = [want EXCEPT ![s] = @ \ {p}]
        /\ pc' = [pc EXCEPT ![s] = IF want[s] = {p} THEN "loop" ELSE "send"]
    BY <1>0, <1>6 DEF SendChunk, SentOrSkipped, p
  <2>2. f \in Frame /\ f.type = "chunk" /\ f.path = p
    <3>1. buf[s] \in Nat /\ p \in Paths
      BY <1>0, <1>3, <2>1 DEF TypeOK
    <3>. QED
      BY <3>1 DEF Frame
  <2>. HIDE DEF f
  <2>3. net'[r] = Append(t, f) /\ net'[s] = net[s]
    BY <1>0, <2>1 DEF TypeOK, Write
  <2>4. /\ want'[s] = want[s] \ {p} /\ want'[r] = want[r] /\ pc'[r] = pc[r]
        /\ pc'[s] = IF want[s] = {p} THEN "loop" ELSE "send"
    BY <1>0, <2>1 DEF TypeOK
  <2>5. Sending(s)' = want[s] \ {p}
    BY <1>3, <2>4 DEF Sending
  <2>6. pc[r] = "receive" /\ Answered(s, r)
    BY <1>0, <1>1 DEF FlowInv, Asked
  <2>7. /\ Without(net[s], "need") /\ want[r] = Chunks(t) \cup want[s] /\ Ordered(t)
        /\ \A x \in Chunks(t), q \in want[s] : x < q
    BY <1>2, <2>6 DEF Answered
  <2>8. Without(t, "need") /\ Without(net[s], "chunk")
    BY <1>0 DEF FlowInv
  <2>9. /\ Without(Append(t, f), "need") /\ Ordered(Append(t, f))
        /\ Chunks(Append(t, f)) = Chunks(t) \cup {p}
    <3>. HIDE DEF t
    <3>1. \A x \in Chunks(t) : x < f.path
      BY <1>3, <2>2, <2>7
    <3>. QED
      BY <1>0, <2>2, <2>7, <2>8, <3>1, AppendView
  <2>10. Answered(s, r)'
    BY <1>3, <2>3, <2>4, <2>5, <2>7, <2>9 DEF Answered
  <2>11. FlowInv(s, r)'
    BY <2>3, <2>4, <2>6, <2>8, <2>9, <2>10 DEF FlowInv
  <2>12. \A m \in Nodes : InFlight(m)' \subseteq InFlight(m) \cup {f}
    BY <1>0, <2>1, <2>2, WriteFlight
  <2>13. Tracked(s)' = Tracked(s) /\ \A g \in Senders : senders'[s][g] \in {senders[s][g], NoFile}
    BY <2>1 DEF Tracked, Exists
  <2>. QED
    BY <1>0, <1>2, <2>2, <2>5, <2>11, <2>12, <2>13, AnnouncedKept
<1>. QED
  BY <1>1, <1>5, <1>6

\* Users only add to what the sender has.
LEMMA UserServes ==
    ASSUME IndInv, ServiceInv, NothingLost,
           NEW s \in Nodes, NEW r \in Nodes, s # r, Flows(s, r),
           NEW n \in Nodes, Users(n)
    PROVE  FlowInv(s, r)' /\ AnnouncedInv(s, r)'
<1>0. TypeOK /\ FlowInv(s, r) /\ AnnouncedInv(s, r)
  BY OneDirection DEF IndInv
<1>1. PICK p \in UserPaths : Edit(n, p)
  <2>1. used["deletes"] \in Nat
    BY <1>0 DEF TypeOK, Budgets
  <2>. QED
    BY <2>1 DEF Users, Delete, NothingLost
<1>2. UNCHANGED <<net, pc, want, senders>>
  BY <1>1 DEF Edit, handlerVars
<1>3. \A q \in Paths : disk[s][q] # NoFile => disk'[s][q] # NoFile
  <2>. DEFINE new == [hash |-> used["edits"] + 1, mtime |-> now]
  <2>1. new \in File
    BY <1>0 DEF TypeOK, Budgets, File
  <2>2. disk' = [disk EXCEPT ![n][p] = new] /\ disk \in [Nodes -> Tree]
    BY <1>0, <1>1 DEF Edit, TypeOK
  <2>. HIDE DEF new
  <2>. QED
    BY <2>1, <2>2, ConstantsAssumption DEF Tree
<1>4. FlowInv(s, r)'
  BY <1>0, <1>2, UnchangedSame, FlowKept
<1>5. /\ Sending(s)' = Sending(s) /\ \A m \in Nodes : InFlight(m)' = InFlight(m)
      /\ \A g \in Senders : senders'[s][g] \in {senders[s][g], NoFile}
  BY <1>2 DEF Sending, InFlight
<1>. QED
  BY <1>0, <1>3, <1>4, <1>5, TracksMore, AnnouncedKept

LEMMA NextServes ==
    ASSUME IndInv, ServiceInv, NothingLost, [Next]_vars,
           NEW s \in Nodes, NEW r \in Nodes, s # r, Flows(s, r)
    PROVE  FlowInv(s, r)' /\ AnnouncedInv(s, r)'
<1>1. CASE Tick \/ UNCHANGED vars
  BY <1>1, ScanServes
<1>2. ASSUME NEW n \in Nodes, Incomings(n) PROVE FlowInv(s, r)' /\ AnnouncedInv(s, r)'
  <2>1. ~ReceiveFails(n)
    BY NoFault DEF ReceiveFails, IndInv
  <2>. QED
    BY <1>2, <2>1, ReadServes, ApplyServes, ReceiveServes, NeedServes, SendServes DEF Incomings
<1>. QED
  BY <1>1, <1>2, ConnectionServes, PushServes, UserServes, NoStray DEF Next, Stray, IndInv

-----------------------------------------------------------------------------
(* Nobody waits in vain *)

\* The settings are never changed.
LEMMA SettingsFixed ==
    ASSUME [Next]_vars
    PROVE  cfg' = cfg
<1>1. CASE Connect \/ Disconnect \/ Tick \/ UNCHANGED vars
  BY <1>1 DEF vars, Connect, Disconnect, Tick
<1>2. ASSUME NEW n \in Nodes, Restart(n) \/ Users(n) PROVE cfg' = cfg
  BY <1>2 DEF Restart, Users, Edit, Delete
<1>3. ASSUME NEW n \in Nodes, Pushes(n) PROVE cfg' = cfg
  BY <1>3 DEF Pushes, OnFolderChanged, OnPeerConnected, CatchUp, PullFromPeers, SendManifest
<1>4. ASSUME NEW n \in Nodes, Incomings(n) PROVE cfg' = cfg
  <2>1. CASE HandleHello(n) \/ HandlePing(n) \/ SkipFrame(n) \/ ApplyManifest(n) \/ DropWhileReceiving(n)
    BY <2>1 DEF HandleHello, HandlePing, SkipFrame, ApplyManifest, ApplyFiles, DropWhileReceiving
  <2>2. CASE ReceiveChunk(n) \/ ReceiveFails(n) \/ HandleNeed(n) \/ ReadFile(n) \/ SendChunk(n)
    BY <2>2 DEF ReceiveChunk, StoreChunk, ReceiveFails, HandleNeed, ReadFile, SendChunk
  <2>. QED
    BY <1>4, <2>1, <2>2 DEF Incomings
<1>. QED
  BY <1>1, <1>2, <1>3, <1>4 DEF Next, StrayNeed

\* Only sendManifest of s writes manifests to r.
LEMMA ManifestsWritten ==
    ASSUME IndInv, [Next]_vars, NEW s \in Nodes, NEW r \in Nodes, s # r,
           \A g \in Senders : senders[s][g] = NoFile, Without(net[r], "manifest")
    PROVE  Without(net'[r], "manifest")
<1>0. TypeOK /\ Other(r) = s /\ Other(s) = r /\ Nodes = {s, r}
  <2>1. Nodes = {s, r}
    BY ConstantsAssumption
  <2>. QED
    BY <2>1, OtherNode DEF IndInv
<1>. SUFFICES ASSUME NEW f \in InFlight(r)' PROVE f.type # "manifest"
  BY DEF Without, InFlight
<1>1. ASSUME f \in InFlight(r) PROVE f.type # "manifest"
  BY <1>1 DEF Without, InFlight
<1>2. ASSUME net'[r] = net[r] PROVE f.type # "manifest"
  BY <1>1, <1>2 DEF InFlight
<1>3. ASSUME NEW n \in Nodes, net[n] # <<>>, Consume(n) PROVE f.type # "manifest"
  BY <1>0, <1>1, <1>3, ConsumeFlight
<1>4. ASSUME NEW n \in Nodes, NEW h \in Frame, h.type # "manifest",
             Write(n, h) \/ (net[n] # <<>> /\ Reply(n, h))
      PROVE  f.type # "manifest"
  <2>1. InFlight(r)' \subseteq InFlight(r) \cup {h}
    BY <1>0, <1>4, WriteFlight, ReplyFlight
  <2>. QED
    BY <1>1, <1>4, <2>1
<1>5. CASE Connect \/ Disconnect \/ \E n \in Nodes : Restart(n)
  <2>1. net'[r] = <<[type |-> "hello"]>> \/ net'[r] = <<>>
    BY <1>5 DEF Connect, Disconnect, Restart, DropConnection
  <2>. QED
    BY <2>1 DEF InFlight
<1>6. ASSUME NEW n \in Nodes, Pushes(n) PROVE f.type # "manifest"
  <2>1. CASE OnFolderChanged(n) \/ OnPeerConnected(n) \/ CatchUp(n)
    BY <1>2, <2>1 DEF OnFolderChanged, OnPeerConnected, CatchUp
  <2>2. CASE PullFromPeers(n)
    <3>. DEFINE h == [type |-> "ping"]
    <3>1. h \in Frame /\ h.type # "manifest" /\ (net' = net \/ Write(Other(n), h))
      BY <2>2 DEF Frame, PullFromPeers
    <3>2. PICK o \in Nodes : o = Other(n)
      BY OtherNode
    <3>. QED
      BY <1>2, <1>4, <3>1, <3>2
  <2>3. ASSUME NEW g \in Senders, SendManifest(n, g) PROVE f.type # "manifest"
    <3>1. n = r
      BY <1>0, <2>3 DEF SendManifest
    <3>2. net'[r] = net[r]
      BY <1>0, <2>3, <3>1 DEF SendManifest, Write, TypeOK
    <3>. QED
      BY <1>2, <3>2
  <2>. QED
    BY <1>6, <2>1, <2>2, <2>3 DEF Pushes
<1>7. ASSUME NEW n \in Nodes, Incomings(n) PROVE f.type # "manifest"
  <2>1. CASE HandleHello(n) \/ SkipFrame(n) \/ DropWhileReceiving(n) \/ ReceiveChunk(n)
             \/ ReceiveFails(n) \/ HandleNeed(n)
    BY <1>3, <2>1 DEF HandleHello, SkipFrame, DropWhileReceiving, ReceiveChunk, StoreChunk,
                      ReceiveFails, HandleNeed, Incoming
  <2>2. CASE HandlePing(n)
    <3>. DEFINE h == [type |-> "ping"]
    <3>1. h \in Frame /\ h.type # "manifest" /\ net[n] # <<>> /\ Reply(n, h)
      BY <2>2 DEF Frame, HandlePing, Incoming
    <3>. HIDE DEF h
    <3>. QED
      BY <1>4, <3>1
  <2>3. CASE ApplyManifest(n)
    <3>. DEFINE needed == Needed(n, Head(net[n]).files)
                h == [type |-> "need", paths |-> needed]
    <3>1. net[n] # <<>> /\ (Consume(n) \/ Reply(n, h))
      BY <2>3 DEF ApplyManifest, ApplyFiles, Incoming
    <3>2. needed \in SUBSET Paths
      BY DEF Needed, Differing, Listed
    <3>3. h \in Frame /\ h.type # "manifest"
      BY <3>2 DEF Frame
    <3>. HIDE DEF h
    <3>. QED
      BY <1>3, <1>4, <3>1, <3>3
  <2>4. CASE ReadFile(n)
    BY <1>2, <2>4 DEF ReadFile
  <2>5. CASE SendChunk(n)
    <3>. DEFINE h == [type |-> "chunk", path |-> Min(want[n]), data |-> buf[n]]
    <3>1. want[n] # {} /\ want[n] \in SUBSET Paths /\ buf[n] \in Nat
      BY <1>0, <2>5 DEF IndInv, WantClean, TypeOK, SendChunk
    <3>2. Min(want[n]) \in Paths
      BY <3>1, MinOfPaths
    <3>3. h \in Frame /\ h.type # "manifest"
      BY <3>1, <3>2 DEF Frame
    <3>4. PICK o \in Nodes : o = Other(n)
      BY OtherNode
    <3>5. Write(o, h)
      BY <2>5, <3>4 DEF SendChunk
    <3>. HIDE DEF h
    <3>. QED
      BY <1>4, <3>3, <3>5
  <2>. QED
    BY <1>7, <2>1, <2>2, <2>3, <2>4, <2>5 DEF Incomings
<1>8. CASE Tick \/ UNCHANGED vars \/ \E n \in Nodes : Users(n)
  BY <1>2, <1>8 DEF Tick, vars, Users, Edit, Delete
<1>9. CASE Stray
  BY <1>0, <1>4, <1>9, StrayFrame
<1>. QED
  BY <1>5, <1>6, <1>7, <1>8, <1>9 DEF Next, Stray

\* Who may not send starts no goroutine that announces.
LEMMA SilentGoroutines ==
    ASSUME IndInv, [Next]_vars, NEW s \in Nodes, ~CanSend(s), greet[s] = 0,
           \A g \in Senders : senders[s][g] = NoFile
    PROVE  greet'[s] = 0 /\ \A g \in Senders : senders'[s][g] = NoFile
<1>0. TypeOK
  BY DEF IndInv
<1>1. CASE Connect \/ Disconnect \/ \E n \in Nodes : Restart(n)
  BY <1>0, <1>1 DEF TypeOK, Connect, Disconnect, Restart
<1>2. ASSUME NEW n \in Nodes, Pushes(n) PROVE greet'[s] = 0 /\ \A g \in Senders : senders'[s][g] = NoFile
  <2>0. ASSUME NEW S \in SUBSET Tracked(n), Announce(n, S), n # s PROVE \A g \in Senders : senders'[s][g] = NoFile
    BY <1>0, <2>0, AnnounceTracked
  <2>1. CASE OnFolderChanged(n)
    BY <1>0, <2>0, <2>1 DEF TypeOK, OnFolderChanged, BroadcastFolder
  <2>2. CASE OnPeerConnected(n)
    <3>1. n # s /\ greet'[s] = greet[s]
      BY <1>0, <2>2 DEF TypeOK, OnPeerConnected
    <3>. QED
      BY <2>0, <2>2, <3>1 DEF OnPeerConnected, BroadcastFolder
  <2>3. CASE CatchUp(n)
    BY <2>0, <2>3 DEF CatchUp, Stale
  <2>4. CASE PullFromPeers(n)
    BY <2>4 DEF PullFromPeers
  <2>5. ASSUME NEW h \in Senders, SendManifest(n, h)
        PROVE  greet'[s] = 0 /\ \A g \in Senders : senders'[s][g] = NoFile
    BY <1>0, <2>5 DEF TypeOK, SendManifest
  <2>. QED
    BY <1>2, <2>1, <2>2, <2>3, <2>4, <2>5 DEF Pushes
<1>3. ASSUME NEW n \in Nodes, Incomings(n) PROVE greet'[s] = 0 /\ \A g \in Senders : senders'[s][g] = NoFile
  <2>1. CASE HandleHello(n)
    BY <1>0, <2>1 DEF TypeOK, HandleHello
  <2>2. CASE ~HandleHello(n)
    BY <1>3, <2>2 DEF Incomings, HandlePing, SkipFrame, ApplyManifest, ApplyFiles,
         DropWhileReceiving, ReceiveChunk, StoreChunk, ReceiveFails, HandleNeed, ReadFile, SendChunk
  <2>. QED
    BY <2>1, <2>2
<1>4. CASE Tick \/ UNCHANGED vars \/ \E n \in Nodes : Users(n)
  BY <1>4 DEF Tick, vars, Users, Edit, Delete
<1>. QED
  BY <1>1, <1>2, <1>3, <1>4 DEF Next, StrayNeed

\* At least one engine of every group is not bidirectional.
OneWayOnly == \A c \in CfgChoices : \E n \in Nodes : c[n].direction # "bidirectional"

\* Without a connection there are no frames, and HandleIncoming does not run.
LEMMA NobodyConnected ==
    ASSUME IndInv, ~up => \A n \in Nodes : pc[n] = "loop" /\ net[n] = <<>>, [Next]_vars
    PROVE  ~up' => \A n \in Nodes : pc'[n] = "loop" /\ net'[n] = <<>>
<1>0. up \in BOOLEAN
  BY DEF IndInv, TypeOK
<1>1. CASE Connect \/ Disconnect \/ \E n \in Nodes : Restart(n)
  BY <1>1 DEF Connect, Disconnect, Restart, DropConnection
<1>2. ASSUME NEW n \in Nodes, Pushes(n) \/ Users(n)
      PROVE  UNCHANGED <<up, pc>> /\ (~up => UNCHANGED net)
  BY <1>0, <1>2 DEF Pushes, OnFolderChanged, OnPeerConnected, CatchUp, PullFromPeers, SendManifest,
       Users, Edit, Delete, handlerVars
<1>3. ASSUME NEW n \in Nodes, Incomings(n), ~up PROVE FALSE
  BY <1>3 DEF Incomings, HandleHello, HandlePing, SkipFrame, ApplyManifest, ApplyFiles,
       DropWhileReceiving, ReceiveChunk, StoreChunk, ReceiveFails, HandleNeed, ReadFile,
       SendChunk, Incoming
<1>4. ASSUME NEW n \in Nodes, Incomings(n) PROVE up' = up
  BY <1>4 DEF Incomings, HandleHello, HandlePing, SkipFrame, ApplyManifest, ApplyFiles,
       DropWhileReceiving, ReceiveChunk, StoreChunk, ReceiveFails, HandleNeed, ReadFile, SendChunk
<1>5. CASE Tick \/ UNCHANGED vars
  BY <1>5 DEF Tick, vars, handlerVars
<1>6. CASE Stray
  BY <1>6, StrayFrame DEF IndInv
<1>. QED
  BY <1>0, <1>1, <1>2, <1>3, <1>4, <1>5, <1>6 DEF Next, Stray

\* An engine starts to wait for files when its peer, which may send, announced
\* them.
LEMMA ReceiverHasSender ==
    ASSUME IndInv, ServiceInv, [Next]_vars, NEW s \in Nodes, NEW r \in Nodes, s # r,
           pc'[r] = "receive"
    PROVE  Flows(s, r)
<1>0. TypeOK /\ net[r] \in Seq(Frame)
  BY DEF IndInv, TypeOK
<1>1. CASE pc[r] = "receive"
  BY <1>1 DEF ServiceInv
<1>2. ASSUME ApplyManifest(r) PROVE Flows(s, r)
  <2>. DEFINE t == net[r]
  <2>1. t # <<>> /\ Head(t).type = "manifest" /\ CanReceive(r) /\ t \in Seq(Frame)
    BY <1>0, <1>2 DEF ApplyManifest, ApplyFiles, Incoming
  <2>2. ~Without(t, "manifest")
    <3>. HIDE DEF t
    <3>. QED
      BY <2>1, TailView
  <2>. QED
    BY <2>1, <2>2 DEF ServiceInv, SilentInv, Flows
<1>3. CASE Connect \/ Disconnect \/ \E n \in Nodes : Restart(n)
  BY <1>1, <1>3 DEF Connect, Disconnect, Restart, DropConnection, handlerVars
<1>4. CASE Tick \/ UNCHANGED vars \/ \E n \in Nodes : Pushes(n) \/ Users(n)
  BY <1>1, <1>4 DEF Tick, vars, Pushes, OnFolderChanged, OnPeerConnected, CatchUp, PullFromPeers,
       SendManifest, Users, Edit, Delete, handlerVars
<1>5. ASSUME NEW n \in Nodes, Incomings(n), ~ApplyManifest(r) PROVE Flows(s, r)
  <2>1. CASE HandleHello(n) \/ HandlePing(n) \/ SkipFrame(n) \/ DropWhileReceiving(n)
    BY <1>1, <2>1 DEF HandleHello, HandlePing, SkipFrame, DropWhileReceiving, handlerVars
  <2>2. CASE ApplyManifest(n)
    BY <1>0, <1>1, <1>5, <2>2 DEF ApplyManifest, ApplyFiles, TypeOK
  <2>3. CASE ReceiveChunk(n) \/ ReceiveFails(n)
    BY <1>0, <1>1, <2>3 DEF ReceiveChunk, StoreChunk, ReceiveFails, AwaitNext, Incoming, TypeOK
  <2>4. CASE HandleNeed(n) \/ ReadFile(n) \/ SendChunk(n)
    BY <1>0, <1>1, <2>4 DEF HandleNeed, ReadFile, SendChunk, SentOrSkipped, TypeOK
  <2>. QED
    BY <1>5, <2>1, <2>2, <2>3, <2>4 DEF Incomings
<1>. QED
  BY <1>1, <1>2, <1>3, <1>4, <1>5 DEF Next, StrayNeed, handlerVars

LEMMA ServiceKept == NothingLost /\ IndInv /\ ServiceInv /\ [Next]_vars => ServiceInv'
<1>. SUFFICES ASSUME NothingLost, IndInv, ServiceInv, [Next]_vars PROVE ServiceInv'
  OBVIOUS
<1>0. cfg' = cfg
  BY SettingsFixed
<1>1. \E n \in Nodes : ~Bidirectional(n)'
  BY <1>0 DEF ServiceInv, Bidirectional
<1>2. ~up' => \A n \in Nodes : pc'[n] = "loop" /\ net'[n] = <<>>
  <2>1. ~up => \A n \in Nodes : pc[n] = "loop" /\ net[n] = <<>>
    BY DEF ServiceInv
  <2>. QED
    BY <2>1, NobodyConnected
<1>3. ASSUME NEW s \in Nodes, NEW r \in Nodes, s # r
      PROVE  /\ SilentInv(s, r)' /\ (pc'[r] = "receive" => Flows(s, r)')
             /\ Flows(s, r)' => FlowInv(s, r)' /\ AnnouncedInv(s, r)'
  <2>1. (CanSend(s)' <=> CanSend(s)) /\ (Flows(s, r)' <=> Flows(s, r))
    BY <1>0 DEF Flows, CanSend, CanReceive, Bidirectional
  <2>2. SilentInv(s, r)'
    <3>. SUFFICES ASSUME ~CanSend(s)
                  PROVE  /\ greet'[s] = 0 /\ \A g \in Senders : senders'[s][g] = NoFile
                         /\ Without(net'[r], "manifest")
      BY <2>1 DEF SilentInv
    <3>1. /\ greet[s] = 0 /\ \A g \in Senders : senders[s][g] = NoFile
          /\ Without(net[r], "manifest")
      BY <1>3 DEF ServiceInv, SilentInv
    <3>. QED
      BY <1>3, <3>1, SilentGoroutines, ManifestsWritten
  <2>. QED
    BY <1>3, <2>1, <2>2, ReceiverHasSender, NextServes
<1>. QED
  BY <1>1, <1>2, <1>3 DEF ServiceInv

(***************************************************************************)
(* A receiveFile without a timeout is safe in a one-way group: as long as  *)
(* files are neither deleted nor unreadable, each file applyManifest waits *)
(* for is on its way, however users edit, connections break and daemons    *)
(* restart, whatever the two ends are configured to do, and however many   *)
(* manifests are under way.                                                *)
(***************************************************************************)
THEOREM ReceiversAreServed == OneWayOnly /\ NothingLost => (Spec => []ReceiverServed)
<1>. SUFFICES ASSUME OneWayOnly, NothingLost PROVE Spec => []ReceiverServed
  OBVIOUS
<1>1. Init => ServiceInv
  <2>. SUFFICES ASSUME Init PROVE ServiceInv
    OBVIOUS
  <2>1. \E n \in Nodes : ~Bidirectional(n)
    BY DEF Init, OneWayOnly, Bidirectional
  <2>2. ASSUME NEW s \in Nodes, NEW r \in Nodes
        PROVE  SilentInv(s, r) /\ pc[r] # "receive" /\ FlowInv(s, r) /\ AnnouncedInv(s, r)
    <3>1. /\ net[s] = <<>> /\ net[r] = <<>> /\ pc[s] = "loop" /\ pc[r] = "loop" /\ greet[s] = 0
          /\ \A g \in Senders : senders[s][g] = NoFile
      BY DEF Init
    <3>2. InFlight(s) = {} /\ InFlight(r) = {} /\ Sending(s) = {}
      BY <3>1 DEF InFlight, Sending
    <3>3. \A type : Without(net[s], type) /\ Without(net[r], type)
      BY <3>1 DEF Without
    <3>. QED
      BY <3>1, <3>2, <3>3 DEF SilentInv, FlowInv, AnnouncedInv
  <2>3. \A n \in Nodes : pc[n] = "loop" /\ net[n] = <<>>
    BY DEF Init
  <2>. QED
    BY <2>1, <2>2, <2>3 DEF ServiceInv
<1>2. IndInv /\ ServiceInv => ReceiverServed
  <2>. SUFFICES ASSUME IndInv, ServiceInv, NEW r \in Nodes, pc[r] = "receive"
                PROVE  want[r] # {} /\ \A p \in want[r] : Served(r, p)
    BY DEF ReceiverServed
  <2>1. want[r] # {}
    BY DEF IndInv, WantClean
  <2>2. PICK s \in Nodes : s = Other(r) /\ s # r
    BY OtherNode
  <2>3. Asked(s, r) \/ Answered(s, r)
    BY <2>2 DEF ServiceInv, FlowInv
  <2>4. ASSUME NEW p \in want[r], Asked(s, r) PROVE Served(r, p)
    BY <2>2, <2>4 DEF Asked, OneNeed, Served
  <2>5. ASSUME NEW p \in want[r], Answered(s, r) PROVE Served(r, p)
    BY <2>2, <2>5 DEF Answered, Chunks, Sending, Served
  <2>. QED
    BY <2>1, <2>3, <2>4, <2>5
<1>. QED
  BY <1>1, <1>2, ServiceKept, Invariance, PTL DEF Spec

-----------------------------------------------------------------------------
(* Versions arrive in the order in which they were written *)

\* One user writes, at a provider of a one-way group; conflict copies of
\* different files have different names; the first trees are from before the
\* first edit.
OneAuthor ==
    \A c \in CfgChoices : \E e \in Nodes :
        Editors \subseteq {e} /\ c[e].direction # "bidirectional" /\ c[e].role = "provider"
NamesDiffer ==
    \A x, y \in DOMAIN ConflictName : ConflictName[x] = ConflictName[y] => x[1] = y[1]
FirstTrees ==
    \A trees \in DiskChoices : \A n \in Nodes : \A p \in Paths :
        trees[n][p] # NoFile => p \in UserPaths /\ trees[n][p].hash = 0

\* e is where the versions come from.
Author(e) == Editors \subseteq {e} /\ ~CanReceive(e)

\* The versions of the file p: the conflict copies r keeps, the one it has, the
\* ones on their way to it, the one sendFiles of e has read, the one e has.
OnDisk(n, p) == IF disk[n][p] = NoFile THEN {} ELSE {disk[n][p].hash}
CopyNames(p) == {ConflictName[x] : x \in {y \in DOMAIN ConflictName : y[1] = p}}
Copied(r, p) == UNION {OnDisk(r, q) : q \in CopyNames(p)}
Data(s, p) == {s[i].data : i \in {k \in DOMAIN s : s[k].type = "chunk" /\ s[k].path = p}}
InHand(e, p) == IF buf[e] # NoFile /\ Min(want[e]) = p THEN {buf[e]} ELSE {}

Upto(S, T) == \A c \in S, d \in T : c <= d
Rising(s) ==
    \A i, k \in DOMAIN s :
        (i < k /\ s[i].type = "chunk" /\ s[k].type = "chunk" /\ s[i].path = s[k].path) =>
            s[i].data <= s[k].data

\* They get older on the way from e to r.
VersionsInv(e, r) ==
    /\ Rising(net[r])
    /\ \A p \in UserPaths :
        /\ Upto(Copied(r, p),
                OnDisk(r, p) \cup Data(net[r], p) \cup InHand(e, p) \cup OnDisk(e, p))
        /\ Upto(OnDisk(r, p), Data(net[r], p) \cup InHand(e, p) \cup OnDisk(e, p))
        /\ Upto(Data(net[r], p), InHand(e, p) \cup OnDisk(e, p))
        /\ Upto(InHand(e, p), OnDisk(e, p))
        /\ Upto(Copied(r, p) \cup OnDisk(r, p) \cup Data(net[r], p) \cup InHand(e, p) \cup OnDisk(e, p),
                {used["edits"]})

\* e has, announces and sends users' files only.
UsersFilesInv(e, r) ==
    /\ \A p \in Paths : disk[e][p] # NoFile => p \in UserPaths
    /\ \A g \in Senders : senders[e][g] # NoFile => Listed(senders[e][g]) \subseteq UserPaths
    /\ buf[e] # NoFile => Min(want[e]) \in UserPaths
    /\ \A f \in InFlight(r) :
        /\ f.type = "manifest" => Listed(f.files) \subseteq UserPaths
        /\ f.type = "chunk" => f.path \in UserPaths

AuthorInv ==
    /\ \E e \in Nodes : Author(e)
    /\ \A e, r \in Nodes : e # r /\ Author(e) => VersionsInv(e, r) /\ UsersFilesInv(e, r)

LEMMA TailData ==
    ASSUME NEW s \in Seq(Frame), s # <<>>
    PROVE  /\ \A p : Data(Tail(s), p) \subseteq Data(s, p)
           /\ Rising(s) => Rising(Tail(s))
           /\ Head(s).type = "chunk" => Head(s).data \in Data(s, Head(s).path)
           /\ Rising(s) /\ Head(s).type = "chunk" =>
                Upto({Head(s).data}, Data(Tail(s), Head(s).path))
<1>. DEFINE t == Tail(s)
<1>1. /\ Len(s) \in Nat \ {0} /\ DOMAIN s = 1 .. Len(s) /\ DOMAIN t = 1 .. Len(s) - 1
      /\ \A i \in DOMAIN t : t[i] = s[i + 1]
      /\ Head(s) = s[1]
  <2>1. /\ Len(s) \in Nat \ {0} /\ DOMAIN s = 1 .. Len(s)
        /\ Tail(s) \in Seq(Frame) /\ Len(Tail(s)) = Len(s) - 1
        /\ \A i \in 1 .. Len(Tail(s)) : Tail(s)[i] = s[i + 1]
    BY HeadTailProperties
  <2>2. DOMAIN t = 1 .. Len(s) - 1
    BY <2>1
  <2>3. Head(s) = s[1]
    OBVIOUS
  <2>. QED
    BY <2>1, <2>2, <2>3
<1>. HIDE DEF t
<1>2. 1 \in DOMAIN s /\ \A i \in DOMAIN t : i + 1 \in DOMAIN s /\ 1 < i + 1
  BY <1>1
<1>3. \A p : Data(t, p) \subseteq Data(s, p)
  BY <1>1, <1>2 DEF Data
<1>4. Rising(s) => Rising(t)
  <2>. SUFFICES ASSUME Rising(s), NEW i \in DOMAIN t, NEW k \in DOMAIN t, i < k,
                       t[i].type = "chunk", t[k].type = "chunk", t[i].path = t[k].path
                PROVE  t[i].data <= t[k].data
    BY DEF Rising
  <2>1. i + 1 \in DOMAIN s /\ k + 1 \in DOMAIN s /\ i + 1 < k + 1
    BY <1>1, <1>2
  <2>. QED
    BY <1>1, <2>1 DEF Rising
<1>5. Head(s).type = "chunk" => Head(s).data \in Data(s, Head(s).path)
  BY <1>1, <1>2 DEF Data
<1>6. Rising(s) /\ Head(s).type = "chunk" => Upto({Head(s).data}, Data(t, Head(s).path))
  <2>. SUFFICES ASSUME Rising(s), Head(s).type = "chunk",
                       NEW i \in DOMAIN t, t[i].type = "chunk", t[i].path = Head(s).path
                PROVE  Head(s).data <= t[i].data
    BY DEF Upto, Data
  <2>. QED
    BY <1>1, <1>2 DEF Rising
<1>. QED
  BY <1>3, <1>4, <1>5, <1>6 DEF t

LEMMA AppendData ==
    ASSUME NEW s \in Seq(Frame), NEW f \in Frame
    PROVE  /\ f.type # "chunk" =>
                (\A p : Data(Append(s, f), p) = Data(s, p)) /\ (Rising(s) => Rising(Append(s, f)))
           /\ f.type = "chunk" =>
                \A p : Data(Append(s, f), p) = IF p = f.path THEN Data(s, p) \cup {f.data} ELSE Data(s, p)
           /\ f.type = "chunk" /\ Rising(s) /\ Upto(Data(s, f.path), {f.data}) =>
                Rising(Append(s, f))
<1>. DEFINE t == Append(s, f)
            last == Len(s) + 1
<1>1. /\ Len(s) \in Nat /\ DOMAIN s = 1 .. Len(s) /\ DOMAIN t = 1 .. last
      /\ \A i \in DOMAIN s : t[i] = s[i]
      /\ t[last] = f
  <2>1. /\ Len(s) \in Nat /\ DOMAIN s = 1 .. Len(s) /\ t \in Seq(Frame) /\ Len(t) = last
        /\ \A i \in 1 .. Len(s) : t[i] = s[i]
        /\ t[last] = f
    BY AppendProperties
  <2>. QED
    BY <2>1
<1>2. /\ last \in DOMAIN t /\ last \notin DOMAIN s
      /\ \A i \in DOMAIN t : i = last \/ i \in DOMAIN s
      /\ \A i \in DOMAIN s : i \in DOMAIN t /\ i < last
      /\ \A i \in DOMAIN t : ~(last < i)
  BY <1>1
<1>. HIDE DEF t, last
<1>3. f.type # "chunk" => \A p : Data(t, p) = Data(s, p)
  BY <1>1, <1>2 DEF Data
<1>4. f.type # "chunk" /\ Rising(s) => Rising(t)
  BY <1>1, <1>2 DEF Rising
<1>5. ASSUME f.type = "chunk", NEW p
      PROVE  Data(t, p) = IF p = f.path THEN Data(s, p) \cup {f.data} ELSE Data(s, p)
  <2>1. \A i \in DOMAIN s : t[i].type = "chunk" /\ t[i].path = p => t[i].data \in Data(s, p)
    BY <1>1 DEF Data
  <2>2. Data(s, p) \subseteq Data(t, p)
    BY <1>1, <1>2 DEF Data
  <2>3. p = f.path => f.data \in Data(t, p)
    BY <1>1, <1>2, <1>5 DEF Data
  <2>4. ASSUME NEW d \in Data(t, p) PROVE d \in Data(s, p) \/ (p = f.path /\ d = f.data)
    BY <1>1, <1>2, <2>1 DEF Data
  <2>. QED
    BY <2>2, <2>3, <2>4
<1>6. f.type = "chunk" /\ Rising(s) /\ Upto(Data(s, f.path), {f.data}) => Rising(t)
  <2>. SUFFICES ASSUME f.type = "chunk", Rising(s), Upto(Data(s, f.path), {f.data}),
                       NEW i \in DOMAIN t, NEW k \in DOMAIN t, i < k,
                       t[i].type = "chunk", t[k].type = "chunk", t[i].path = t[k].path
                PROVE  t[i].data <= t[k].data
    BY DEF Rising
  <2>1. i \in DOMAIN s /\ t[i] = s[i]
    BY <1>1, <1>2
  <2>2. CASE k = last
    BY <1>1, <2>1, <2>2 DEF Data, Upto
  <2>3. CASE k \in DOMAIN s
    BY <1>1, <2>1, <2>3 DEF Rising
  <2>. QED
    BY <1>2, <2>2, <2>3
<1>. QED
  BY <1>3, <1>4, <1>5, <1>6 DEF t

\* No version moves.
LEMMA VersionsShrink ==
    ASSUME NEW e \in Nodes, NEW r \in Nodes, VersionsInv(e, r),
           Rising(net'[r]), used'["edits"] = used["edits"],
           \A p \in UserPaths :
                /\ Copied(r, p)' \subseteq Copied(r, p) /\ OnDisk(r, p)' \subseteq OnDisk(r, p)
                /\ Data(net'[r], p) \subseteq Data(net[r], p)
                /\ InHand(e, p)' \subseteq InHand(e, p) /\ OnDisk(e, p)' \subseteq OnDisk(e, p)
    PROVE  VersionsInv(e, r)'
<1>. SUFFICES ASSUME NEW p \in UserPaths
              PROVE  /\ Upto(Copied(r, p)',
                             OnDisk(r, p)' \cup Data(net'[r], p) \cup InHand(e, p)' \cup OnDisk(e, p)')
                     /\ Upto(OnDisk(r, p)', Data(net'[r], p) \cup InHand(e, p)' \cup OnDisk(e, p)')
                     /\ Upto(Data(net'[r], p), InHand(e, p)' \cup OnDisk(e, p)')
                     /\ Upto(InHand(e, p)', OnDisk(e, p)')
                     /\ Upto(Copied(r, p)' \cup OnDisk(r, p)' \cup Data(net'[r], p) \cup InHand(e, p)'
                                 \cup OnDisk(e, p)',
                             {used["edits"]})
  BY DEF VersionsInv, Upto
<1>. QED
  BY DEF VersionsInv, Upto

\* The frames written to r, if sendFiles of its peer e writes no CHUNK.
NoChunkWritten(e, r) ==
    \/ net'[r] \in {net[r], <<>>, <<[type |-> "hello"]>>, Append(net[r], [type |-> "ping"])}
    \/ \E f \in Frame : f.type = "need" /\ net'[r] = Append(net[r], f)
    \/ net[r] # <<>> /\ net'[r] = Tail(net[r])
    \/ \E g \in Senders :
        /\ senders[e][g] # NoFile
        /\ net'[r] = Append(net[r], [type |-> "manifest", files |-> senders[e][g]])

LEMMA NoChunkData ==
    ASSUME TypeOK, NEW e \in Nodes, NEW r \in Nodes, NoChunkWritten(e, r), Rising(net[r])
    PROVE  Rising(net'[r]) /\ \A p : Data(net'[r], p) \subseteq Data(net[r], p)
<1>. DEFINE s == net[r]
<1>0. s \in Seq(Frame) /\ Rising(s)
  BY DEF TypeOK
<1>1. CASE net'[r] = s
  BY <1>1
<1>2. CASE net'[r] = <<>> \/ net'[r] = <<[type |-> "hello"]>>
  BY <1>2 DEF Rising, Data
<1>3. ASSUME NEW f \in Frame, f.type # "chunk", net'[r] = Append(s, f)
      PROVE  Rising(net'[r]) /\ \A p : Data(net'[r], p) \subseteq Data(s, p)
  <2>. HIDE DEF s
  <2>1. Rising(Append(s, f)) /\ \A p : Data(Append(s, f), p) \subseteq Data(s, p)
    BY <1>0, <1>3, AppendData
  <2>. QED
    BY <1>3, <2>1
<1>4. CASE s # <<>> /\ net'[r] = Tail(s)
  <2>. HIDE DEF s
  <2>1. Rising(Tail(s)) /\ \A p : Data(Tail(s), p) \subseteq Data(s, p)
    BY <1>0, <1>4, TailData
  <2>2. Rising(net'[r]) /\ \A p : Data(net'[r], p) \subseteq Data(s, p)
    BY <1>4, <2>1
  <2>. QED
    BY <2>2 DEF s
<1>5. [type |-> "ping"] \in Frame
  BY DEF Frame
<1>6. ASSUME NEW g \in Senders, senders[e][g] # NoFile
      PROVE  [type |-> "manifest", files |-> senders[e][g]] \in Frame
  BY <1>6 DEF Frame, TypeOK
<1>. QED
  BY <1>1, <1>2, <1>3, <1>4, <1>5, <1>6 DEF NoChunkWritten

LEMMA NoChunkFlight ==
    ASSUME TypeOK, NEW e \in Nodes, NEW r \in Nodes, NoChunkWritten(e, r), UsersFilesInv(e, r)
    PROVE  \A f \in InFlight(r)' :
                /\ f.type = "manifest" => Listed(f.files) \subseteq UserPaths
                /\ f.type = "chunk" => f.path \in UserPaths
<1>. DEFINE s == net[r]
            Good(f) == /\ f.type = "manifest" => Listed(f.files) \subseteq UserPaths
                       /\ f.type = "chunk" => f.path \in UserPaths
<1>0. s \in Seq(Frame) /\ \A f \in {s[i] : i \in DOMAIN s} : Good(f)
  BY DEF TypeOK, UsersFilesInv, InFlight
<1>. SUFFICES \A f \in {net'[r][i] : i \in DOMAIN net'[r]} : Good(f)
  BY DEF InFlight
<1>1. CASE net'[r] = s
  BY <1>0, <1>1
<1>2. CASE net'[r] = <<>> \/ net'[r] = <<[type |-> "hello"]>>
  BY <1>2
<1>3. ASSUME NEW f \in Frame, Good(f), net'[r] = Append(s, f)
      PROVE  \A h \in {net'[r][i] : i \in DOMAIN net'[r]} : Good(h)
  <2>. HIDE DEF s, Good
  <2>1. {Append(s, f)[i] : i \in DOMAIN Append(s, f)} = {s[i] : i \in DOMAIN s} \cup {f}
    BY <1>0, AppendElements
  <2>. QED
    BY <1>0, <1>3, <2>1
<1>4. CASE s # <<>> /\ net'[r] = Tail(s)
  <2>. HIDE DEF s, Good
  <2>1. {Tail(s)[i] : i \in DOMAIN Tail(s)} \subseteq {s[i] : i \in DOMAIN s}
    BY <1>0, <1>4, TailElements
  <2>. QED
    BY <1>0, <1>4, <2>1
<1>5. [type |-> "ping"] \in Frame /\ Good([type |-> "ping"])
  BY DEF Frame
<1>6. ASSUME NEW g \in Senders, senders[e][g] # NoFile
      PROVE  /\ [type |-> "manifest", files |-> senders[e][g]] \in Frame
             /\ Good([type |-> "manifest", files |-> senders[e][g]])
  BY <1>6 DEF Frame, TypeOK, UsersFilesInv
<1>. QED
  BY <1>1, <1>2, <1>3, <1>4, <1>5, <1>6 DEF NoChunkWritten

\* Only sendFiles of e writes CHUNKs to r, as e never asks for files.
LEMMA WrittenTo ==
    ASSUME IndInv, [Next]_vars, NEW e \in Nodes, NEW r \in Nodes, e # r, ~CanReceive(e),
           ~SendChunk(e)
    PROVE  NoChunkWritten(e, r)
<1>0. /\ TypeOK /\ Nodes = {e, r} /\ Other(e) = r /\ Other(r) = e
      /\ net \in [Nodes -> Seq(Frame)] /\ pc[e] # "receive"
  <2>1. Nodes = {e, r}
    BY ConstantsAssumption
  <2>. QED
    BY <2>1, OtherNode DEF IndInv, TypeOK, ReceiverMayReceive
<1>1. CASE Connect \/ Disconnect \/ \E n \in Nodes : Restart(n)
  BY <1>1 DEF Connect, Disconnect, Restart, DropConnection, NoChunkWritten
<1>2. CASE Tick \/ UNCHANGED vars \/ \E n \in Nodes : Users(n)
  BY <1>2 DEF Tick, vars, Users, Edit, Delete, NoChunkWritten
<1>3. ASSUME Pushes(e) PROVE NoChunkWritten(e, r)
  <2>1. CASE PullFromPeers(e)
    BY <1>0, <2>1 DEF PullFromPeers, Write, NoChunkWritten
  <2>2. ASSUME NEW g \in Senders, SendManifest(e, g) PROVE NoChunkWritten(e, r)
    BY <1>0, <2>2 DEF SendManifest, Write, NoChunkWritten
  <2>. QED
    BY <1>3, <2>1, <2>2 DEF Pushes, OnFolderChanged, OnPeerConnected, CatchUp, NoChunkWritten
<1>4. ASSUME Pushes(r) PROVE NoChunkWritten(e, r)
  <2>1. net'[r] = net[r]
    BY <1>0, <1>4 DEF Pushes, OnFolderChanged, OnPeerConnected, CatchUp, PullFromPeers, SendManifest,
                      Write
  <2>. QED
    BY <2>1 DEF NoChunkWritten
<1>5. ASSUME Incomings(e) PROVE NoChunkWritten(e, r)
  <2>1. CASE HandlePing(e)
    BY <1>0, <2>1 DEF HandlePing, Reply, NoChunkWritten
  <2>2. CASE HandleHello(e) \/ SkipFrame(e) \/ HandleNeed(e) \/ ReadFile(e)
    <3>1. net'[r] = net[r]
      BY <1>0, <2>2 DEF HandleHello, SkipFrame, HandleNeed, ReadFile, Consume
    <3>. QED
      BY <3>1 DEF NoChunkWritten
  <2>. QED
    BY <1>0, <1>5, <2>1, <2>2 DEF Incomings, ApplyManifest, DropWhileReceiving, ReceiveChunk,
         StoreChunk, ReceiveFails, Incoming
<1>6. ASSUME Incomings(r) PROVE NoChunkWritten(e, r)
  <2>1. CASE ReadFile(r) \/ SendChunk(r)
    <3>1. net'[r] = net[r]
      BY <1>0, <2>1 DEF ReadFile, SendChunk, Write
    <3>. QED
      BY <3>1 DEF NoChunkWritten
  <2>2. CASE ~(ReadFile(r) \/ SendChunk(r))
    <3>1. net[r] # <<>> /\ (Consume(r) \/ \E f : Reply(r, f))
      BY <1>6, <2>2 DEF Incomings, HandleHello, HandlePing, SkipFrame, ApplyManifest, ApplyFiles,
         DropWhileReceiving, ReceiveChunk, StoreChunk, ReceiveFails, HandleNeed, Incoming
    <3>2. net'[r] = Tail(net[r])
      BY <1>0, <3>1 DEF Consume, Reply
    <3>. QED
      BY <3>1, <3>2 DEF NoChunkWritten
  <2>. QED
    BY <2>1, <2>2
<1>7. CASE Stray
  <2>1. PICK n \in Nodes, f \in Frame : f.type = "need" /\ Write(n, f)
    BY <1>0, <1>7, StrayFrame
  <2>2. net'[r] = net[r] \/ net'[r] = Append(net[r], f)
    BY <1>0, <2>1 DEF Write
  <2>. QED
    BY <2>1, <2>2 DEF NoChunkWritten
<1>. QED
  BY <1>0, <1>1, <1>2, <1>3, <1>4, <1>5, <1>6, <1>7 DEF Next, Stray

\* What leaves the trees alone, and reads no data, moves no version.
LEMMA QuietVersions ==
    ASSUME IndInv, [Next]_vars, NEW e \in Nodes, NEW r \in Nodes, e # r, ~CanReceive(e),
           VersionsInv(e, r), ~SendChunk(e), used'["edits"] = used["edits"],
           disk'[r] = disk[r], \A p \in Paths : disk'[e][p] \in {disk[e][p], NoFile},
           buf'[e] # NoFile => buf'[e] = buf[e] /\ want'[e] = want[e]
    PROVE  VersionsInv(e, r)'
<1>1. Rising(net'[r]) /\ \A p : Data(net'[r], p) \subseteq Data(net[r], p)
  BY WrittenTo, NoChunkData DEF VersionsInv, IndInv
<1>2. ASSUME NEW p \in UserPaths
      PROVE  /\ Copied(r, p)' = Copied(r, p) /\ OnDisk(r, p)' = OnDisk(r, p)
             /\ InHand(e, p)' \subseteq InHand(e, p) /\ OnDisk(e, p)' \subseteq OnDisk(e, p)
  <2>0. p \in Paths
    BY <1>2, ConstantsAssumption
  <2>1. OnDisk(r, p)' = OnDisk(r, p) /\ OnDisk(e, p)' \subseteq OnDisk(e, p)
    BY <2>0 DEF OnDisk
  <2>2. Copied(r, p)' = Copied(r, p)
    BY DEF Copied, OnDisk, CopyNames
  <2>3. InHand(e, p)' \subseteq InHand(e, p)
    BY DEF InHand
  <2>. QED
    BY <2>1, <2>2, <2>3
<1>. QED
  BY <1>1, <1>2, VersionsShrink

\* sendFiles of e reads the version it has, which is the newest.
LEMMA ReadVersions ==
    ASSUME IndInv, BufferInv, NEW e \in Nodes, NEW r \in Nodes, e # r,
           VersionsInv(e, r), UsersFilesInv(e, r), ReadFile(e)
    PROVE  VersionsInv(e, r)' /\ (buf'[e] # NoFile => Min(want'[e]) \in UserPaths)
<1>. DEFINE p == Min(want[e])
<1>0. UNCHANGED <<disk, net>> /\ used'["edits"] = used["edits"] /\ buf[e] = NoFile
  <2>1. UNCHANGED <<disk, net>> /\ buf[e] = NoFile /\ (used' = used \/ Fault)
    BY DEF ReadFile
  <2>2. used \in [Budgets -> Nat]
    BY DEF IndInv, TypeOK
  <2>. QED
    BY <2>1, <2>2 DEF Fault, Budgets
<1>1. ASSUME NEW q \in UserPaths
      PROVE  /\ Copied(r, q)' = Copied(r, q) /\ OnDisk(r, q)' = OnDisk(r, q)
             /\ OnDisk(e, q)' = OnDisk(e, q)
  <2>1. \A n, x : OnDisk(n, x)' = OnDisk(n, x)
    BY <1>0 DEF OnDisk
  <2>. QED
    BY <2>1 DEF Copied, CopyNames
<1>2. CASE buf'[e] = NoFile
  <2>1. \A q \in UserPaths : InHand(e, q)' \subseteq InHand(e, q)
    BY <1>2 DEF InHand
  <2>2. Rising(net'[r]) /\ \A q \in UserPaths : Data(net'[r], q) \subseteq Data(net[r], q)
    BY <1>0 DEF VersionsInv
  <2>. QED
    BY <1>0, <1>1, <1>2, <2>1, <2>2, VersionsShrink
<1>3. CASE buf'[e] # NoFile
  <2>1. Exists(e, p) /\ buf'[e] = disk[e][p].hash /\ want' = want
    BY <1>0, <1>3 DEF ReadFile, IndInv, TypeOK
  <2>2. p \in UserPaths
    <3>1. p \in Paths
      <4>1. want[e] # {} /\ want[e] \in SUBSET Paths
        BY DEF IndInv, WantClean, TypeOK, ReadFile
      <4>. QED
        BY <4>1, MinOfPaths
    <3>. QED
      BY <2>1, <3>1 DEF UsersFilesInv, Exists
  <2>3. ASSUME NEW q \in UserPaths PROVE InHand(e, q)' \subseteq OnDisk(e, q)
    BY <2>1 DEF InHand, OnDisk, Exists
  <2>4. \A q \in UserPaths : Upto(OnDisk(e, q), OnDisk(e, q))
    <3>1. \A q \in UserPaths : disk[e][q] # NoFile => disk[e][q].hash \in Nat
      BY ConstantsAssumption DEF IndInv, TypeOK, Tree, File
    <3>. QED
      BY <3>1 DEF Upto, OnDisk
  <2>5. VersionsInv(e, r)'
    <3>. SUFFICES ASSUME NEW q \in UserPaths
                  PROVE  /\ Upto(Copied(r, q), OnDisk(r, q) \cup Data(net[r], q) \cup InHand(e, q)'
                                                   \cup OnDisk(e, q))
                         /\ Upto(OnDisk(r, q), Data(net[r], q) \cup InHand(e, q)' \cup OnDisk(e, q))
                         /\ Upto(Data(net[r], q), InHand(e, q)' \cup OnDisk(e, q))
                         /\ Upto(InHand(e, q)', OnDisk(e, q))
                         /\ Upto(Copied(r, q) \cup OnDisk(r, q) \cup Data(net[r], q)
                                     \cup InHand(e, q)' \cup OnDisk(e, q), {used["edits"]})
      BY <1>0, <1>1 DEF VersionsInv
    <3>. QED
      BY <2>3, <2>4 DEF VersionsInv, Upto
  <2>. QED
    BY <2>1, <2>2, <2>5
<1>. QED
  BY <1>2, <1>3

\* It writes what it read: nothing newer is before it.
LEMMA SendVersions ==
    ASSUME IndInv, NEW e \in Nodes, NEW r \in Nodes, e # r,
           VersionsInv(e, r), UsersFilesInv(e, r), SendChunk(e)
    PROVE  VersionsInv(e, r)' /\ UsersFilesInv(e, r)'
<1>. DEFINE p == Min(want[e])
            f == [type |-> "chunk", path |-> p, data |-> buf[e]]
            s == net[r]
<1>0. /\ TypeOK /\ s \in Seq(Frame) /\ Other(e) = r /\ UNCHANGED <<disk, used, senders>>
      /\ buf[e] \in Nat /\ buf[e] # NoFile /\ buf'[e] = NoFile
  <2>1. Nodes = {e, r}
    BY ConstantsAssumption
  <2>. QED
    BY <2>1, OtherNode DEF IndInv, TypeOK, SendChunk
<1>1. p \in UserPaths /\ p \in Paths
  BY <1>0, ConstantsAssumption DEF UsersFilesInv
<1>2. f \in Frame /\ f.type = "chunk" /\ f.path = p /\ f.data = buf[e]
  BY <1>0, <1>1 DEF Frame
<1>3. net'[r] = Append(s, f)
  BY <1>0 DEF SendChunk, Write, TypeOK
<1>4. InHand(e, p) = {buf[e]} /\ \A q \in UserPaths : InHand(e, q)' = {}
  BY <1>0 DEF InHand
<1>. HIDE DEF p, f, s
<1>5. /\ \A q : Data(Append(s, f), q) = IF q = p THEN Data(s, q) \cup {buf[e]} ELSE Data(s, q)
      /\ Rising(s) /\ Upto(Data(s, p), {buf[e]}) => Rising(Append(s, f))
  <2>1. /\ \A q : Data(Append(s, f), q) = IF q = f.path THEN Data(s, q) \cup {f.data} ELSE Data(s, q)
        /\ Rising(s) /\ Upto(Data(s, f.path), {f.data}) => Rising(Append(s, f))
    BY <1>0, <1>2, AppendData
  <2>. QED
    BY <1>2, <2>1
<1>6. \A q \in UserPaths : Data(net'[r], q) \subseteq Data(net[r], q) \cup InHand(e, q)
  BY <1>3, <1>4, <1>5 DEF s
<1>7. Rising(net'[r])
  <2>1. Rising(s) /\ Upto(Data(s, p), {buf[e]})
    BY <1>1, <1>4 DEF VersionsInv, s, Upto
  <2>. QED
    BY <1>3, <1>5, <2>1
<1>8. \A n, q : OnDisk(n, q)' = OnDisk(n, q)
  BY <1>0 DEF OnDisk
<1>9. \A q : Copied(r, q)' = Copied(r, q)
  BY <1>8 DEF Copied, CopyNames
<1>10. VersionsInv(e, r)'
  <2>. SUFFICES ASSUME NEW q \in UserPaths
                PROVE  /\ Upto(Copied(r, q), OnDisk(r, q) \cup Data(net'[r], q) \cup OnDisk(e, q))
                       /\ Upto(OnDisk(r, q), Data(net'[r], q) \cup OnDisk(e, q))
                       /\ Upto(Data(net'[r], q), OnDisk(e, q))
                       /\ Upto(Copied(r, q) \cup OnDisk(r, q) \cup Data(net'[r], q) \cup OnDisk(e, q),
                               {used["edits"]})
    BY <1>0, <1>4, <1>7, <1>8, <1>9 DEF VersionsInv, Upto
  <2>. QED
    BY <1>6 DEF VersionsInv, Upto
<1>11. UsersFilesInv(e, r)'
  <2>1. {Append(s, f)[i] : i \in DOMAIN Append(s, f)} = {s[i] : i \in DOMAIN s} \cup {f}
    <3>1. s \in Seq(Frame) /\ f \in Frame
      BY <1>0, <1>2
    <3>. QED
      BY <3>1, AppendElements
  <2>2. InFlight(r)' = InFlight(r) \cup {f}
    BY <1>3, <2>1 DEF InFlight, s
  <2>. QED
    BY <1>0, <1>1, <1>2, <2>2 DEF UsersFilesInv, Listed
<1>. QED
  BY <1>10, <1>11

\* A conflict copy is no user's file, and the copy of one file only.
LEMMA CopiesApart ==
    ASSUME NEW p \in Paths, NEW q \in CopyNames(p)
    PROVE  q \in Paths \ UserPaths
  BY ConstantsAssumption DEF CopyNames

\* The version r gets is the oldest that was on its way.
LEMMA ReceiveVersions ==
    ASSUME IndInv, NEW e \in Nodes, NEW r \in Nodes, e # r,
           VersionsInv(e, r), UsersFilesInv(e, r), ReceiveChunk(r)
    PROVE  /\ VersionsInv(e, r)'
           /\ \A p \in Paths : disk[r][p] # NoFile /\ disk'[r][p] # NoFile =>
                disk'[r][p].hash >= disk[r][p].hash
<1>. DEFINE s == net[r]
            p == Head(s).path
            d == Head(s).data
            file == [hash |-> d, mtime |-> now]
<1>0. /\ TypeOK /\ s \in Seq(Frame) /\ s # <<>> /\ Head(s).type = "chunk" /\ Awaited(r) = p
      /\ UNCHANGED <<buf, used>> /\ net' = [net EXCEPT ![r] = Tail(@)]
      /\ disk' = [disk EXCEPT ![r][p] = file] /\ disk \in [Nodes -> Tree]
      /\ want' = [want EXCEPT ![r] = want[r] \ {p}] /\ want \in [Nodes -> SUBSET Paths]
      /\ net \in [Nodes -> Seq(Frame)] /\ now \in Nat
  BY DEF IndInv, TypeOK, ReceiveChunk, StoreChunk, AwaitNext, Incoming, Consume
<1>1. Head(s) \in InFlight(r) /\ Head(s) \in Frame
  BY <1>0, TailElements, HeadTailProperties DEF InFlight
<1>2. p \in UserPaths /\ p \in Paths /\ d \in Nat /\ file \in File
  <2>1. p \in UserPaths
    BY <1>0, <1>1 DEF UsersFilesInv
  <2>2. d \in Nat
    BY <1>0, <1>1, FrameFields
  <2>. QED
    BY <1>0, <2>1, <2>2, ConstantsAssumption DEF File
<1>3. net'[r] = Tail(s) /\ buf'[e] = buf[e] /\ want'[e] = want[e] /\ disk'[e] = disk[e]
  BY <1>0
<1>4. /\ disk'[r][p] = file /\ file # NoFile /\ file.hash = d
      /\ \A q \in Paths \ {p} : disk'[r][q] = disk[r][q]
  BY <1>0, <1>2, ConstantsAssumption DEF Tree
<1>. HIDE DEF file
<1>5. /\ d \in Data(s, p) /\ Rising(Tail(s)) /\ Upto({d}, Data(Tail(s), p))
      /\ \A q : Data(Tail(s), q) \subseteq Data(s, q)
  <2>1. Rising(s)
    BY DEF VersionsInv
  <2>. HIDE DEF s
  <2>. QED
    BY <1>0, <2>1, TailData
<1>6. \A q \in UserPaths :
        /\ OnDisk(r, q)' = IF q = p THEN {d} ELSE OnDisk(r, q)
        /\ OnDisk(e, q)' = OnDisk(e, q) /\ InHand(e, q)' = InHand(e, q)
  BY <1>3, <1>4, ConstantsAssumption DEF OnDisk, InHand
<1>7. ASSUME NEW q \in UserPaths PROVE Copied(r, q)' = Copied(r, q)
  <2>1. ASSUME NEW x \in CopyNames(q) PROVE OnDisk(r, x)' = OnDisk(r, x)
    <3>1. q \in Paths
      BY ConstantsAssumption
    <3>2. x \in Paths \ UserPaths
      BY <2>1, <3>1, CopiesApart
    <3>. QED
      BY <1>2, <1>4, <3>2 DEF OnDisk
  <2>. QED
    BY <2>1 DEF Copied, CopyNames
<1>8. ASSUME NEW q \in UserPaths
      PROVE  /\ Upto(Copied(r, q)', OnDisk(r, q)' \cup Data(net'[r], q) \cup InHand(e, q)'
                                        \cup OnDisk(e, q)')
             /\ Upto(OnDisk(r, q)', Data(net'[r], q) \cup InHand(e, q)' \cup OnDisk(e, q)')
             /\ Upto(Data(net'[r], q), InHand(e, q)' \cup OnDisk(e, q)')
             /\ Upto(InHand(e, q)', OnDisk(e, q)')
             /\ Upto(Copied(r, q)' \cup OnDisk(r, q)' \cup Data(net'[r], q) \cup InHand(e, q)'
                         \cup OnDisk(e, q)', {used["edits"]})
  <2>1. Data(net'[r], q) \subseteq Data(s, q)
    BY <1>3, <1>5
  <2>2. /\ Upto(Copied(r, q), OnDisk(r, q) \cup Data(s, q) \cup InHand(e, q) \cup OnDisk(e, q))
        /\ Upto(OnDisk(r, q), Data(s, q) \cup InHand(e, q) \cup OnDisk(e, q))
        /\ Upto(Data(s, q), InHand(e, q) \cup OnDisk(e, q))
        /\ Upto(InHand(e, q), OnDisk(e, q))
        /\ Upto(Copied(r, q) \cup OnDisk(r, q) \cup Data(s, q) \cup InHand(e, q) \cup OnDisk(e, q),
                {used["edits"]})
    BY DEF VersionsInv
  <2>3. CASE q # p
    BY <1>6, <1>7, <2>1, <2>2, <2>3 DEF Upto
  <2>4. CASE q = p
    <3>1. Upto({d}, Data(net'[r], q))
      BY <1>3, <1>5, <2>4
    <3>2. d \in Data(s, q) /\ OnDisk(r, q)' = {d}
      BY <1>5, <1>6, <2>4
    <3>. HIDE DEF s, d
    <3>. QED
      BY <1>6, <1>7, <2>1, <2>2, <3>1, <3>2 DEF Upto
  <2>. QED
    BY <2>3, <2>4
<1>9. VersionsInv(e, r)'
  BY <1>0, <1>3, <1>5, <1>8 DEF VersionsInv, Upto
<1>10. ASSUME NEW q \in Paths, disk[r][q] # NoFile, disk'[r][q] # NoFile
       PROVE  disk'[r][q].hash >= disk[r][q].hash
  <2>1. disk[r][q].hash \in Nat
    BY <1>0, <1>10 DEF Tree, File
  <2>2. CASE q = p
    <3>1. disk[r][p].hash \in OnDisk(r, p)
      BY <1>10, <2>2 DEF OnDisk
    <3>2. disk[r][p].hash <= d
      BY <1>2, <1>5, <3>1 DEF VersionsInv, Upto
    <3>. QED
      BY <1>2, <1>4, <2>1, <2>2, <3>2
  <2>3. CASE q # p
    BY <1>4, <2>1, <2>3
  <2>. QED
    BY <2>2, <2>3
<1>. QED
  BY <1>9, <1>10

\* A conflict moves the version r has to the name of its own copy, where there
\* are older versions only.
LEMMA ConflictVersions ==
    ASSUME NamesDiffer, IndInv, [Next]_vars, NEW e \in Nodes, NEW r \in Nodes, e # r,
           ~CanReceive(e), VersionsInv(e, r), UsersFilesInv(e, r), ApplyManifest(r)
    PROVE  /\ VersionsInv(e, r)'
           /\ \A p \in Paths : disk[r][p] # NoFile /\ disk'[r][p] # NoFile =>
                disk'[r][p].hash >= disk[r][p].hash
<1>. DEFINE files == Head(net[r]).files
            C == Conflicts(r, files)
            tree == disk[r]
            new == WithConflictsRenamed(tree, C)
            Name(p) == ConflictName[<<p, now>>]
<1>0. /\ TypeOK /\ net[r] \in Seq(Frame) /\ net[r] # <<>> /\ Head(net[r]).type = "manifest"
      /\ UNCHANGED <<buf, used>> /\ ConflictsInBound(C, files)
      /\ disk' = [disk EXCEPT ![r] = new] /\ disk \in [Nodes -> Tree]
      /\ want \in [Nodes -> SUBSET Paths] /\ pc[r] = "loop"
  BY DEF IndInv, TypeOK, ApplyManifest, ApplyFiles, Incoming
<1>1. want'[e] = want[e]
  BY <1>0 DEF ApplyManifest, ApplyFiles
<1>2. Rising(net'[r]) /\ \A p : Data(net'[r], p) \subseteq Data(net[r], p)
  <2>1. ~SendChunk(e)
    <3>1. pc'[e] = pc[e] /\ buf' = buf
      BY <1>0 DEF ApplyManifest, ApplyFiles, TypeOK
    <3>2. SendChunk(e) => buf[e] # NoFile /\ buf'[e] = NoFile
      BY <1>0 DEF SendChunk, TypeOK
    <3>. QED
      BY <3>1, <3>2
  <2>. QED
    BY <1>0, <2>1, WrittenTo, NoChunkData DEF VersionsInv
<1>3. Head(net[r]) \in InFlight(r)
  BY <1>0, TailElements DEF InFlight
<1>4. C \subseteq UserPaths /\ UserPaths \subseteq Paths /\ \A p \in C : disk[r][p] # NoFile
  <2>1. Listed(files) \subseteq UserPaths
    BY <1>0, <1>3 DEF UsersFilesInv
  <2>. QED
    BY <2>1, ConstantsAssumption DEF Conflicts, Differing, Exists
<1>5. \A p \in C : <<p, now>> \in DOMAIN ConflictName /\ Name(p) \in Paths \ UserPaths
  BY <1>0, ConstantsAssumption DEF ConflictsInBound
<1>6. \A p, q \in C : Name(p) = Name(q) => p = q
  <2>. SUFFICES ASSUME NEW p \in C, NEW q \in C, Name(p) = Name(q) PROVE p = q
    OBVIOUS
  <2>1. <<p, now>>[1] = <<q, now>>[1]
    BY <1>5 DEF NamesDiffer
  <2>. QED
    BY <2>1
<1>7. /\ \A p \in C : new[Name(p)] = tree[p] /\ new[p] = NoFile
      /\ \A q \in Paths : (\A p \in C : Name(p) # q) /\ q \notin C => new[q] = tree[q]
  <2>1. ASSUME NEW p \in C PROVE new[Name(p)] = tree[p]
    <3>1. (CHOOSE x \in C : Name(x) = Name(p)) = p
      BY <1>6
    <3>. QED
      BY <1>5, <3>1 DEF WithConflictsRenamed
  <2>2. ASSUME NEW p \in C PROVE new[p] = NoFile
    <3>1. \A x \in C : Name(x) # p
      BY <1>4, <1>5
    <3>. QED
      BY <1>4, <3>1 DEF WithConflictsRenamed
  <2>3. \A q \in Paths : (\A p \in C : Name(p) # q) /\ q \notin C => new[q] = tree[q]
    BY DEF WithConflictsRenamed
  <2>. QED
    BY <2>1, <2>2, <2>3
<1>8. disk'[r] = new /\ disk'[e] = disk[e]
  BY <1>0
<1>. HIDE DEF files, C, new, tree
<1>9. ASSUME NEW p \in UserPaths
      PROVE  /\ OnDisk(r, p)' \subseteq OnDisk(r, p)
             /\ p \in C => OnDisk(r, p)' = {}
             /\ OnDisk(e, p)' = OnDisk(e, p) /\ InHand(e, p)' = InHand(e, p)
  <2>1. p \in Paths /\ \A x \in C : Name(x) # p
    BY <1>4, <1>5
  <2>2. OnDisk(r, p)' \subseteq OnDisk(r, p) /\ (p \in C => OnDisk(r, p)' = {})
    BY <1>7, <1>8, <2>1 DEF OnDisk, tree
  <2>. QED
    BY <1>0, <1>1, <1>8, <2>2 DEF OnDisk, InHand
<1>10. ASSUME NEW p \in UserPaths
       PROVE  IF p \in C THEN Copied(r, p)' \subseteq Copied(r, p) \cup OnDisk(r, p)
                         ELSE Copied(r, p)' \subseteq Copied(r, p)
  <2>1. ASSUME NEW x \in CopyNames(p)
        PROVE  OnDisk(r, x)' \subseteq OnDisk(r, x) \cup (IF p \in C THEN OnDisk(r, p) ELSE {})
    <3>1. x \in Paths \ UserPaths
      BY <1>4, <2>1, CopiesApart
    <3>2. PICK y \in DOMAIN ConflictName : y[1] = p /\ x = ConflictName[y]
      BY <2>1 DEF CopyNames
    <3>3. CASE \A z \in C : Name(z) # x
      <4>1. new[x] = tree[x]
        BY <1>4, <1>7, <3>1, <3>3
      <4>. QED
        BY <1>8, <4>1 DEF OnDisk, tree
    <3>4. ASSUME NEW z \in C, Name(z) = x
          PROVE  OnDisk(r, x)' \subseteq OnDisk(r, x) \cup (IF p \in C THEN OnDisk(r, p) ELSE {})
      <4>1. <<z, now>>[1] = y[1]
        BY <1>5, <3>2, <3>4 DEF NamesDiffer
      <4>2. z = p
        BY <3>2, <4>1
      <4>3. new[x] = tree[p]
        BY <1>7, <3>4, <4>2
      <4>. QED
        BY <1>8, <3>4, <4>2, <4>3 DEF OnDisk, tree
    <3>. QED
      BY <3>3, <3>4
  <2>. QED
    BY <2>1 DEF Copied, CopyNames
<1>11. ASSUME NEW p \in UserPaths
       PROVE  /\ Upto(Copied(r, p)', OnDisk(r, p)' \cup Data(net'[r], p) \cup InHand(e, p)'
                                         \cup OnDisk(e, p)')
              /\ Upto(OnDisk(r, p)', Data(net'[r], p) \cup InHand(e, p)' \cup OnDisk(e, p)')
              /\ Upto(Data(net'[r], p), InHand(e, p)' \cup OnDisk(e, p)')
              /\ Upto(InHand(e, p)', OnDisk(e, p)')
              /\ Upto(Copied(r, p)' \cup OnDisk(r, p)' \cup Data(net'[r], p) \cup InHand(e, p)'
                          \cup OnDisk(e, p)', {used["edits"]})
  <2>1. Data(net'[r], p) \subseteq Data(net[r], p)
    BY <1>2
  <2>2. CASE p \in C
    BY <1>9, <1>10, <2>1, <2>2 DEF VersionsInv, Upto
  <2>3. CASE p \notin C
    BY <1>9, <1>10, <2>1, <2>3 DEF VersionsInv, Upto
  <2>. QED
    BY <2>2, <2>3
<1>12. VersionsInv(e, r)'
  BY <1>0, <1>2, <1>11 DEF VersionsInv, Upto
<1>13. ASSUME NEW q \in Paths, disk[r][q] # NoFile, disk'[r][q] # NoFile
       PROVE  disk'[r][q].hash >= disk[r][q].hash
  <2>1. \A x \in Paths : disk[r][x] # NoFile => disk[r][x].hash \in Nat
    BY <1>0 DEF Tree, File
  <2>2. CASE \A p \in C : Name(p) # q
    <3>1. disk'[r][q] = disk[r][q]
      BY <1>7, <1>8, <1>13, <2>2 DEF tree
    <3>. QED
      BY <1>13, <2>1, <3>1
  <2>3. ASSUME NEW p \in C, Name(p) = q PROVE disk'[r][q].hash >= disk[r][q].hash
    <3>1. disk'[r][q] = disk[r][p] /\ disk[r][p] # NoFile /\ p \in UserPaths
      BY <1>4, <1>7, <1>8, <2>3 DEF tree
    <3>2. q \in CopyNames(p)
      <4>1. <<p, now>> \in DOMAIN ConflictName /\ <<p, now>>[1] = p
        BY <1>5, <2>3
      <4>. QED
        BY <2>3, <4>1 DEF CopyNames
    <3>3. disk[r][q].hash \in Copied(r, p) /\ disk[r][p].hash \in OnDisk(r, p)
      BY <1>13, <3>1, <3>2 DEF Copied, OnDisk
    <3>4. disk[r][q].hash <= disk[r][p].hash
      BY <3>1, <3>3 DEF VersionsInv, Upto
    <3>5. disk[r][q].hash \in Nat /\ disk[r][p].hash \in Nat
      BY <1>4, <1>13, <2>1, <3>1
    <3>. QED
      BY <3>1, <3>4, <3>5
  <2>. QED
    BY <2>2, <2>3
<1>. QED
  BY <1>12, <1>13

\* An edit makes a version newer than any other.
LEMMA EditVersions ==
    ASSUME IndInv, NEW e \in Nodes, NEW r \in Nodes, e # r,
           VersionsInv(e, r), NEW p \in UserPaths, Edit(e, p)
    PROVE  /\ VersionsInv(e, r)'
           /\ \A q \in Paths : disk[e][q] # NoFile /\ disk'[e][q] # NoFile =>
                disk'[e][q].hash >= disk[e][q].hash
<1>. DEFINE k == used["edits"]
            file == [hash |-> k + 1, mtime |-> now]
<1>0. /\ TypeOK /\ k \in Nat /\ used'["edits"] = k + 1 /\ UNCHANGED <<net, want, buf>>
      /\ disk' = [disk EXCEPT ![e][p] = file] /\ disk \in [Nodes -> Tree] /\ now \in Nat
      /\ p \in Paths
  BY ConstantsAssumption DEF IndInv, TypeOK, Edit, handlerVars, Budgets
<1>1. file \in File /\ file # NoFile /\ file.hash = k + 1
  BY <1>0, ConstantsAssumption DEF File
<1>. HIDE DEF file
<1>2. /\ disk'[r] = disk[r] /\ disk'[e][p] = file
      /\ \A q \in Paths \ {p} : disk'[e][q] = disk[e][q]
  BY <1>0 DEF Tree
<1>3. \A q : OnDisk(r, q)' = OnDisk(r, q)
  BY <1>2 DEF OnDisk
<1>4. \A q : Copied(r, q)' = Copied(r, q) /\ InHand(e, q)' = InHand(e, q)
  BY <1>0, <1>3 DEF Copied, CopyNames, InHand
<1>5. \A q \in UserPaths : OnDisk(e, q)' \subseteq OnDisk(e, q) \/ OnDisk(e, q)' = {k + 1}
  BY <1>1, <1>2, ConstantsAssumption DEF OnDisk
<1>6. ASSUME NEW q \in UserPaths
      PROVE  Copied(r, q) \cup OnDisk(r, q) \cup Data(net[r], q) \cup InHand(e, q) \cup OnDisk(e, q)
                 \subseteq Nat
  <2>1. \A n \in Nodes : \A x \in Paths : OnDisk(n, x) \subseteq Nat
    BY <1>0 DEF OnDisk, Tree, File
  <2>2. q \in Paths /\ \A x \in CopyNames(q) : x \in Paths
    BY ConstantsAssumption, CopiesApart
  <2>3. Copied(r, q) \subseteq Nat
    BY <2>1, <2>2 DEF Copied
  <2>4. Data(net[r], q) \subseteq Nat
    <3>1. net[r] \in Seq(Frame)
      BY <1>0 DEF TypeOK
    <3>2. \A i \in DOMAIN net[r] : net[r][i] \in Frame
      BY <3>1
    <3>. QED
      BY <3>2, FrameFields DEF Data
  <2>5. InHand(e, q) \subseteq Nat
    BY <1>0 DEF InHand, TypeOK
  <2>. QED
    BY <2>1, <2>2, <2>3, <2>4, <2>5
<1>7. ASSUME NEW q \in UserPaths
      PROVE  /\ Upto(Copied(r, q), OnDisk(r, q) \cup Data(net[r], q) \cup InHand(e, q)
                                       \cup OnDisk(e, q)')
             /\ Upto(OnDisk(r, q), Data(net[r], q) \cup InHand(e, q) \cup OnDisk(e, q)')
             /\ Upto(Data(net[r], q), InHand(e, q) \cup OnDisk(e, q)')
             /\ Upto(InHand(e, q), OnDisk(e, q)')
             /\ Upto(Copied(r, q) \cup OnDisk(r, q) \cup Data(net[r], q) \cup InHand(e, q)
                         \cup OnDisk(e, q)', {k + 1})
  <2>. DEFINE All == Copied(r, q) \cup OnDisk(r, q) \cup Data(net[r], q) \cup InHand(e, q)
                        \cup OnDisk(e, q)
  <2>1. \A c \in All : c \in Nat /\ c <= k
    BY <1>6 DEF VersionsInv, Upto
  <2>2. \A c \in All : c <= k + 1
    <3>. HIDE DEF All, k
    <3>. QED
      BY <1>0, <2>1
  <2>3. k + 1 <= k + 1
    BY <1>0
  <2>. HIDE DEF k
  <2>. QED
    BY <1>5, <2>2, <2>3 DEF VersionsInv, Upto
<1>8. VersionsInv(e, r)'
  BY <1>0, <1>3, <1>4, <1>7 DEF VersionsInv
<1>9. ASSUME NEW q \in Paths, disk[e][q] # NoFile, disk'[e][q] # NoFile
      PROVE  disk'[e][q].hash >= disk[e][q].hash
  <2>1. disk[e][q].hash \in Nat
    BY <1>0, <1>9 DEF Tree, File
  <2>2. CASE q = p
    <3>1. disk[e][p].hash <= k
      BY <1>9, <2>2 DEF VersionsInv, Upto, OnDisk
    <3>. QED
      BY <1>0, <1>1, <1>2, <2>1, <2>2, <3>1
  <2>3. CASE q # p
    BY <1>2, <2>1, <2>3
  <2>. QED
    BY <2>2, <2>3
<1>. QED
  BY <1>8, <1>9

\* Nothing else writes to a tree, and nothing else reads one for sendFiles.
LEMMA OtherSteps ==
    ASSUME IndInv, BufferInv, [Next]_vars, NEW e \in Nodes, NEW r \in Nodes, e # r, Author(e),
           ~ApplyManifest(r), ~ReceiveChunk(r), ~ReadFile(e), ~SendChunk(e),
           \A p \in UserPaths : ~Edit(e, p)
    PROVE  /\ used'["edits"] = used["edits"] /\ disk'[r] = disk[r]
           /\ \A p \in Paths : disk'[e][p] \in {disk[e][p], NoFile}
           /\ buf'[e] # NoFile => buf'[e] = buf[e] /\ want'[e] = want[e]
<1>0. /\ TypeOK /\ Nodes = {e, r} /\ pc[e] # "receive" /\ ~CanReceive(e) /\ r \notin Editors
      /\ used \in [Budgets -> Nat] /\ disk \in [Nodes -> Tree] /\ want \in [Nodes -> SUBSET Paths]
      /\ buf \in [Nodes -> Nat \cup {NoFile}]
  <2>1. Nodes = {e, r}
    BY ConstantsAssumption
  <2>. QED
    BY <2>1 DEF IndInv, TypeOK, ReceiverMayReceive, Author
<1>1. CASE Connect \/ Disconnect \/ \E n \in Nodes : Restart(n)
  BY <1>0, <1>1 DEF Connect, Disconnect, Restart, DropConnection, handlerVars, Budgets
<1>2. CASE Tick \/ UNCHANGED vars \/ \E n \in Nodes : Pushes(n)
  BY <1>0, <1>2 DEF Tick, vars, Pushes, OnFolderChanged, OnPeerConnected, CatchUp, PullFromPeers,
       SendManifest, handlerVars, Budgets
<1>3. CASE \E n \in Nodes : Users(n)
  <2>1. PICK p \in UserPaths : Delete(e, p)
    <3>1. ~Users(r)
      BY <1>0 DEF Users, Edit, Delete
    <3>. QED
      BY <1>0, <1>3, <3>1 DEF Users
  <2>2. p \in Paths /\ disk' = [disk EXCEPT ![e][p] = NoFile]
    BY <2>1, ConstantsAssumption DEF Delete
  <2>. QED
    BY <1>0, <2>1, <2>2 DEF Delete, handlerVars, Budgets, Tree
<1>4. ASSUME Incomings(e)
      PROVE  /\ used'["edits"] = used["edits"] /\ disk' = disk
             /\ buf'[e] # NoFile => buf'[e] = buf[e] /\ want'[e] = want[e]
  <2>1. CASE HandleNeed(e)
    <3>1. buf[e] = NoFile
      BY <2>1 DEF HandleNeed, Incoming, BufferInv
    <3>. QED
      BY <2>1, <3>1 DEF HandleNeed
  <2>2. CASE HandleHello(e) \/ HandlePing(e) \/ SkipFrame(e)
    BY <2>2 DEF HandleHello, HandlePing, SkipFrame, handlerVars
  <2>. QED
    BY <1>0, <1>4, <2>1, <2>2 DEF Incomings, ApplyManifest, DropWhileReceiving, ReceiveChunk,
         StoreChunk, ReceiveFails, Incoming
<1>5. ASSUME Incomings(r)
      PROVE  used'["edits"] = used["edits"] /\ disk' = disk /\ buf'[e] = buf[e] /\ want'[e] = want[e]
  <2>1. CASE HandleHello(r) \/ HandlePing(r) \/ SkipFrame(r) \/ DropWhileReceiving(r)
    BY <2>1 DEF HandleHello, HandlePing, SkipFrame, DropWhileReceiving, handlerVars
  <2>2. CASE ReceiveFails(r) \/ HandleNeed(r) \/ ReadFile(r) \/ SendChunk(r)
    BY <1>0, <2>2 DEF ReceiveFails, AwaitNext, HandleNeed, ReadFile, SendChunk, SentOrSkipped, Fault,
         Budgets
  <2>. QED
    BY <1>5, <2>1, <2>2 DEF Incomings
<1>6. CASE Stray
  BY <1>0, <1>6, StrayFrame DEF handlerVars
<1>. QED
  BY <1>0, <1>1, <1>2, <1>3, <1>4, <1>5, <1>6 DEF Next, Stray

LEMMA VersionsKept ==
    ASSUME NamesDiffer, IndInv, BufferInv, [Next]_vars, NEW e \in Nodes, NEW r \in Nodes, e # r,
           Author(e), VersionsInv(e, r), UsersFilesInv(e, r)
    PROVE  /\ VersionsInv(e, r)'
           /\ \A n \in Nodes : \A p \in Paths : disk[n][p] # NoFile /\ disk'[n][p] # NoFile =>
                disk'[n][p].hash >= disk[n][p].hash
<1>0. /\ TypeOK /\ Nodes = {e, r} /\ ~CanReceive(e) /\ disk \in [Nodes -> Tree]
      /\ \A n \in Nodes : \A p \in Paths : disk[n][p] # NoFile => disk[n][p].hash \in Nat
  <2>1. Nodes = {e, r}
    BY ConstantsAssumption
  <2>. QED
    BY <2>1 DEF IndInv, TypeOK, Author, Tree, File
<1>1. ASSUME NEW n \in Nodes, \A p \in Paths : disk'[n][p] \in {disk[n][p], NoFile},
             NEW p \in Paths, disk[n][p] # NoFile, disk'[n][p] # NoFile
      PROVE  disk'[n][p].hash >= disk[n][p].hash
  BY <1>0, <1>1
<1>2. CASE ApplyManifest(r)
  <2>1. disk'[e] = disk[e]
    BY <1>0, <1>2 DEF ApplyManifest, ApplyFiles
  <2>. QED
    BY <1>0, <1>1, <1>2, <2>1, ConflictVersions
<1>3. CASE ReceiveChunk(r)
  <2>1. disk'[e] = disk[e]
    BY <1>0, <1>3 DEF ReceiveChunk, StoreChunk
  <2>. QED
    BY <1>0, <1>1, <1>3, <2>1, ReceiveVersions
<1>4. CASE ReadFile(e)
  <2>1. disk' = disk
    BY <1>4 DEF ReadFile
  <2>. QED
    BY <1>1, <1>4, <2>1, ReadVersions
<1>5. CASE SendChunk(e)
  <2>1. disk' = disk
    BY <1>5 DEF SendChunk
  <2>. QED
    BY <1>1, <1>5, <2>1, SendVersions
<1>6. ASSUME NEW p \in UserPaths, Edit(e, p)
      PROVE  /\ VersionsInv(e, r)'
             /\ \A n \in Nodes : \A q \in Paths : disk[n][q] # NoFile /\ disk'[n][q] # NoFile =>
                    disk'[n][q].hash >= disk[n][q].hash
  <2>1. disk'[r] = disk[r]
    BY <1>0, <1>6 DEF Edit
  <2>. QED
    BY <1>0, <1>1, <1>6, <2>1, EditVersions
<1>7. CASE /\ ~ApplyManifest(r) /\ ~ReceiveChunk(r) /\ ~ReadFile(e) /\ ~SendChunk(e)
           /\ \A p \in UserPaths : ~Edit(e, p)
  <2>1. /\ used'["edits"] = used["edits"] /\ disk'[r] = disk[r]
        /\ \A p \in Paths : disk'[e][p] \in {disk[e][p], NoFile}
        /\ buf'[e] # NoFile => buf'[e] = buf[e] /\ want'[e] = want[e]
    BY <1>7, OtherSteps
  <2>2. VersionsInv(e, r)'
    BY <1>0, <1>7, <2>1, QuietVersions
  <2>. QED
    BY <1>0, <1>1, <2>1, <2>2
<1>. QED
  BY <1>2, <1>3, <1>4, <1>5, <1>6, <1>7

\* The tree of e holds users' files, so e announces and sends no others.
LEMMA UsersFilesKept ==
    ASSUME IndInv, BufferInv, [Next]_vars, NEW e \in Nodes, NEW r \in Nodes, e # r,
           Author(e), VersionsInv(e, r), UsersFilesInv(e, r)
    PROVE  UsersFilesInv(e, r)'
<1>0. /\ TypeOK /\ Nodes = {e, r} /\ ~CanReceive(e) /\ pc[e] # "receive" /\ disk \in [Nodes -> Tree]
      /\ \A p \in Paths : disk[e][p] # NoFile => p \in UserPaths
  <2>1. Nodes = {e, r}
    BY ConstantsAssumption
  <2>. QED
    BY <2>1 DEF IndInv, TypeOK, Author, UsersFilesInv, ReceiverMayReceive
<1>1. CASE SendChunk(e)
  BY <1>1, SendVersions
<1>2. CASE ~SendChunk(e)
  <2>1. \A f \in InFlight(r)' : /\ f.type = "manifest" => Listed(f.files) \subseteq UserPaths
                                /\ f.type = "chunk" => f.path \in UserPaths
    BY <1>0, <1>2, WrittenTo, NoChunkFlight
  <2>2. \A p \in Paths : disk'[e][p] # NoFile => p \in UserPaths
    <3>1. ASSUME NEW p \in UserPaths, Edit(e, p) \/ Edit(r, p)
          PROVE  \A q \in Paths : disk'[e][q] # NoFile => q \in UserPaths
      BY <1>0, <3>1, ConstantsAssumption DEF Edit, Tree
    <3>2. CASE ApplyManifest(r) \/ ReceiveChunk(r) \/ ReadFile(e)
      <4>1. disk'[e] = disk[e]
        BY <1>0, <3>2 DEF ApplyManifest, ApplyFiles, ReceiveChunk, StoreChunk, ReadFile
      <4>. QED
        BY <1>0, <4>1
    <3>3. CASE /\ ~ApplyManifest(r) /\ ~ReceiveChunk(r) /\ ~ReadFile(e)
               /\ \A p \in UserPaths : ~Edit(e, p)
      <4>1. \A p \in Paths : disk'[e][p] \in {disk[e][p], NoFile}
        BY <1>2, <3>3, OtherSteps
      <4>. QED
        BY <1>0, <4>1
    <3>. QED
      BY <3>1, <3>2, <3>3
  <2>3. buf'[e] # NoFile => Min(want'[e]) \in UserPaths
    <3>1. CASE ReadFile(e)
      BY <3>1, ReadVersions
    <3>2. CASE ApplyManifest(r) \/ ReceiveChunk(r) \/ \E p \in UserPaths : Edit(e, p)
      <4>1. buf'[e] = buf[e] /\ want'[e] = want[e]
        BY <1>0, <3>2 DEF ApplyManifest, ApplyFiles, ReceiveChunk, StoreChunk, AwaitNext, Edit,
             handlerVars, TypeOK
      <4>. QED
        BY <4>1 DEF UsersFilesInv
    <3>3. CASE /\ ~ApplyManifest(r) /\ ~ReceiveChunk(r) /\ ~ReadFile(e)
               /\ \A p \in UserPaths : ~Edit(e, p)
      <4>1. buf'[e] # NoFile => buf'[e] = buf[e] /\ want'[e] = want[e]
        BY <1>2, <3>3, OtherSteps
      <4>. QED
        BY <4>1 DEF UsersFilesInv
    <3>. QED
      BY <3>1, <3>2, <3>3
  <2>4. ASSUME NEW g \in Senders, senders'[e][g] # NoFile
        PROVE  Listed(senders'[e][g]) \subseteq UserPaths
    <3>0. Tracked(e) \subseteq UserPaths
      BY <1>0 DEF Tracked, Exists
    <3>1. CASE senders'[e][g] = senders[e][g]
      BY <2>4, <3>1 DEF UsersFilesInv
    <3>2. ASSUME NEW n \in Nodes, NEW S \in SUBSET Tracked(n), Announce(n, S)
          PROVE  Listed(senders'[e][g]) \subseteq UserPaths
      <4>1. senders'[e][g] = senders[e][g] \/ Listed(senders'[e][g]) \subseteq Tracked(e)
        BY <1>0, <3>2, AnnounceTracked
      <4>. QED
        BY <3>0, <3>1, <4>1
    <3>3. ASSUME NEW n \in Nodes, Pushes(n) PROVE Listed(senders'[e][g]) \subseteq UserPaths
      <4>1. CASE UNCHANGED senders
        BY <3>1, <4>1
      <4>2. ASSUME NEW h \in Senders, SendManifest(n, h) PROVE senders'[e][g] = senders[e][g]
        BY <1>0, <2>4, <4>2 DEF SendManifest, TypeOK
      <4>3. CASE OnFolderChanged(n) \/ OnPeerConnected(n) \/ CatchUp(n)
        <5>1. UNCHANGED senders \/ \E S \in SUBSET Tracked(n) : Announce(n, S)
          BY <4>3 DEF OnFolderChanged, OnPeerConnected, CatchUp, BroadcastFolder, Stale
        <5>. QED
          BY <3>2, <4>1, <5>1
      <4>. QED
        BY <3>1, <3>3, <4>1, <4>2, <4>3 DEF Pushes, PullFromPeers
    <3>4. CASE Disconnect \/ \E n \in Nodes : Restart(n)
      BY <2>4, <3>4 DEF Disconnect, Restart
    <3>5. CASE UNCHANGED senders
      BY <3>1, <3>5
    <3>6. ASSUME NEW n \in Nodes, Incomings(n) \/ Users(n) PROVE UNCHANGED senders
      BY <3>6 DEF Incomings, HandleHello, HandlePing, SkipFrame, ApplyManifest, ApplyFiles,
           DropWhileReceiving, ReceiveChunk, StoreChunk, ReceiveFails, HandleNeed, ReadFile,
           SendChunk, Users, Edit, Delete
    <3>. QED
      BY <3>3, <3>4, <3>5, <3>6 DEF Next, Connect, Tick, vars, StrayNeed
  <2>5. \A g \in Senders : senders'[e][g] # NoFile => Listed(senders'[e][g]) \subseteq UserPaths
    BY <2>4
  <2>. QED
    BY <2>1, <2>2, <2>3, <2>5 DEF UsersFilesInv, Listed
<1>. QED
  BY <1>1, <1>2

LEMMA BufferKept == IndInv /\ BufferInv /\ [Next]_vars => BufferInv'
<1>. SUFFICES ASSUME IndInv, BufferInv, [Next]_vars, NEW m \in Nodes, buf'[m] # NoFile
              PROVE  pc'[m] = "send"
  BY DEF BufferInv
<1>0. /\ pc \in [Nodes -> {"loop", "receive", "send"}] /\ buf \in [Nodes -> Nat \cup {NoFile}]
      /\ \A n \in Nodes : buf[n] # NoFile => pc[n] = "send"
  BY DEF IndInv, TypeOK, BufferInv
<1>1. CASE UNCHANGED <<pc, buf>>
  BY <1>0, <1>1
<1>2. CASE Disconnect \/ \E n \in Nodes : Restart(n)
  BY <1>2 DEF Disconnect, Restart, DropConnection
<1>3. ASSUME NEW n \in Nodes, Incomings(n) PROVE pc'[m] = "send"
  <2>1. CASE HandleHello(n) \/ HandlePing(n) \/ SkipFrame(n) \/ DropWhileReceiving(n)
    BY <1>1, <2>1 DEF HandleHello, HandlePing, SkipFrame, DropWhileReceiving, handlerVars
  <2>2. CASE ApplyManifest(n) \/ ReceiveChunk(n) \/ ReceiveFails(n) \/ HandleNeed(n)
    <3>1. pc[n] # "send" /\ buf' = buf /\ \A o \in Nodes \ {n} : pc'[o] = pc[o]
      BY <1>0, <2>2 DEF ApplyManifest, ApplyFiles, ReceiveChunk, StoreChunk, ReceiveFails, AwaitNext,
           HandleNeed, Incoming
    <3>. QED
      BY <1>0, <3>1
  <2>3. CASE ReadFile(n) \/ SendChunk(n)
    BY <1>0, <2>3 DEF ReadFile, SendChunk, SentOrSkipped
  <2>. QED
    BY <1>3, <2>1, <2>2, <2>3 DEF Incomings
<1>4. ASSUME NEW n \in Nodes, Pushes(n) \/ Users(n) PROVE UNCHANGED <<pc, buf>>
  BY <1>4 DEF Pushes, OnFolderChanged, OnPeerConnected, CatchUp, PullFromPeers, SendManifest,
       Users, Edit, Delete, handlerVars
<1>. QED
  BY <1>1, <1>2, <1>3, <1>4 DEF Next, Connect, Tick, vars, handlerVars, StrayNeed

LEMMA AuthorKept ==
    ASSUME NamesDiffer, IndInv, BufferInv, AuthorInv, [Next]_vars
    PROVE  /\ AuthorInv'
           /\ \A n \in Nodes : \A p \in Paths : disk[n][p] # NoFile /\ disk'[n][p] # NoFile =>
                disk'[n][p].hash >= disk[n][p].hash
<1>1. \A e \in Nodes : Author(e)' <=> Author(e)
  BY SettingsFixed DEF Author, CanReceive, Bidirectional
<1>2. PICK e \in Nodes : Author(e)
  BY DEF AuthorInv
<1>3. PICK r \in Nodes : r # e
  BY OtherNode
<1>4. \A n \in Nodes : \A p \in Paths : disk[n][p] # NoFile /\ disk'[n][p] # NoFile =>
        disk'[n][p].hash >= disk[n][p].hash
  BY <1>2, <1>3, VersionsKept DEF AuthorInv
<1>5. ASSUME NEW x \in Nodes, NEW y \in Nodes, x # y, Author(x)
      PROVE  VersionsInv(x, y)' /\ UsersFilesInv(x, y)'
  <2>1. VersionsInv(x, y) /\ UsersFilesInv(x, y)
    BY <1>5 DEF AuthorInv
  <2>. QED
    BY <1>5, <2>1, VersionsKept, UsersFilesKept
<1>. QED
  BY <1>1, <1>2, <1>4, <1>5 DEF AuthorInv

(***************************************************************************)
(* With one user, at a provider of a one-way group, no file anywhere ever  *)
(* goes back to an earlier content, conflict copies included: whatever is  *)
(* deleted, cannot be read or written, whichever CHUNKs are dropped, and   *)
(* however connections break and daemons restart.                          *)
(***************************************************************************)
THEOREM VersionsNeverRegress == OneAuthor /\ NamesDiffer /\ FirstTrees => (Spec => NeverRegresses)
<1>. SUFFICES ASSUME OneAuthor, NamesDiffer, FirstTrees PROVE Spec => NeverRegresses
  OBVIOUS
<1>1. Init => BufferInv /\ AuthorInv
  <2>. SUFFICES ASSUME Init PROVE BufferInv /\ AuthorInv
    OBVIOUS
  <2>1. BufferInv
    BY DEF Init, BufferInv
  <2>2. PICK e \in Nodes :
          Editors \subseteq {e} /\ cfg[e].direction # "bidirectional" /\ cfg[e].role = "provider"
    BY DEF Init, OneAuthor
  <2>3. Author(e)
    BY <2>2 DEF Author, CanReceive, Bidirectional
  <2>4. ASSUME NEW x \in Nodes, NEW y \in Nodes PROVE VersionsInv(x, y) /\ UsersFilesInv(x, y)
    <3>1. /\ net[y] = <<>> /\ buf[x] = NoFile /\ used["edits"] = 0
          /\ \A g \in Senders : senders[x][g] = NoFile
      BY DEF Init, Budgets
    <3>2. \A n \in Nodes : \A p \in Paths :
            disk[n][p] # NoFile => p \in UserPaths /\ disk[n][p].hash = 0
      BY DEF Init, FirstTrees
    <3>3. Rising(net[y]) /\ InFlight(y) = {} /\ \A p : Data(net[y], p) = {} /\ InHand(x, p) = {}
      BY <3>1 DEF Rising, InFlight, Data, InHand
    <3>4. \A n \in Nodes : \A p \in Paths : OnDisk(n, p) \subseteq {0}
      BY <3>2 DEF OnDisk
    <3>5. \A p \in UserPaths : Copied(y, p) \subseteq {0}
      <4>1. UserPaths \subseteq Paths
        BY ConstantsAssumption
      <4>2. \A p \in UserPaths : \A q \in CopyNames(p) : OnDisk(y, q) \subseteq {0}
        BY <3>4, <4>1, CopiesApart
      <4>. QED
        BY <4>2 DEF Copied
    <3>6. VersionsInv(x, y)
      <4>. SUFFICES ASSUME NEW p \in UserPaths
                    PROVE  /\ Upto(Copied(y, p), OnDisk(y, p) \cup OnDisk(x, p))
                           /\ Upto(OnDisk(y, p), OnDisk(x, p))
                           /\ Upto(Copied(y, p) \cup OnDisk(y, p) \cup OnDisk(x, p), {0})
        BY <3>1, <3>3 DEF VersionsInv, Upto
      <4>1. OnDisk(x, p) \subseteq {0} /\ OnDisk(y, p) \subseteq {0} /\ Copied(y, p) \subseteq {0}
        BY <3>4, <3>5, ConstantsAssumption
      <4>. QED
        BY <4>1 DEF Upto
    <3>. QED
      BY <3>1, <3>2, <3>3, <3>6 DEF UsersFilesInv
  <2>. QED
    BY <2>1, <2>3, <2>4 DEF AuthorInv
<1>. DEFINE Forward == \A n \in Nodes : \A p \in Paths :
                Exists(n, p) /\ disk'[n][p] # NoFile => disk'[n][p].hash >= disk[n][p].hash
<1>2. IndInv /\ BufferInv /\ AuthorInv /\ [Next]_vars => AuthorInv' /\ [Forward]_vars
  BY AuthorKept DEF Exists
<1>. HIDE DEF Forward
<1>3. Spec => [][Forward]_vars
  BY <1>1, <1>2, BufferKept, Invariance, PTL DEF Spec
<1>. QED
  BY <1>3 DEF Forward, NeverRegresses
-----------------------------------------------------------------------------
(* When nothing is under way, the trees agree *)

\* Nothing changes after the start: no user is at work, no file is unreadable.
NothingChanges == NothingLost /\ MaxEdits = 0

\* No group is bidirectional at either end.
BothOneWay == \A c \in CfgChoices : \A n \in Nodes : c[n].direction # "bidirectional"

\* What s announces: every file that it tracks.
Full(s) == Entries(s, Tracked(s))

\* The files of s that r may have, and has not or has otherwise.
Missing(s, r) ==
    {p \in Tracked(s) \ Ignored[r] : ~Exists(r, p) \/ disk[r][p].hash # disk[s][p].hash}

\* r is about to hear what s has.
Announcing(s, r) ==
    \/ greet[s] > 0
    \/ \E g \in Senders : senders[s][g] # NoFile
    \/ \E f \in InFlight(r) : f.type = "manifest"

\* r is connected to s, waits for no file, and no announcement is on its way.
Quiet(s, r) == up /\ pc[r] = "loop" /\ ~Announcing(s, r)

\* A frame from s tells what s has.
Carries(s, f) ==
    /\ f.type = "manifest" => f.files = Full(s)
    /\ f.type = "chunk" => Exists(s, f.path) /\ f.data = disk[s][f.path].hash

CopyInv(s, r) ==
    /\ store[s] = Full(s)
    /\ \A g \in Senders : senders[s][g] \in {Full(s), NoFile}
    /\ \A f \in InFlight(r) : Carries(s, f)
    /\ buf[s] # NoFile => Exists(s, Min(want[s])) /\ buf[s] = disk[s][Min(want[s])].hash
    /\ pc[r] # "send"
    /\ pc[r] = "receive" => Missing(s, r) \subseteq want[r]
    /\ up /\ pc[r] = "loop" /\ Missing(s, r) # {} => Announcing(s, r)

\* A step that only puts files of s at r.
Copies(s, r) ==
    /\ disk'[s] = disk[s]
    /\ \A p \in Paths : disk'[r][p] # disk[r][p] =>
            Exists(s, p) /\ p \notin Ignored[s] /\ disk'[r][p].hash = disk[s][p].hash

\* s provides, r consumes, and neither does both.
Provides(s, r) == Flows(s, r) /\ ~CanSend(r) /\ ~CanReceive(s)

\* A step that leaves the trees alone.
LEMMA CopyKept ==
    ASSUME NEW s \in Nodes, NEW r \in Nodes, disk' = disk,
           store'[s] = Full(s), \A g \in Senders : senders'[s][g] \in {Full(s), NoFile},
           \A f \in InFlight(r)' : Carries(s, f),
           buf'[s] # NoFile =>
                Exists(s, Min(want'[s])) /\ buf'[s] = disk[s][Min(want'[s])].hash,
           pc'[r] # "send",
           pc'[r] = "receive" => Missing(s, r) \subseteq want'[r],
           up' /\ pc'[r] = "loop" /\ Missing(s, r) # {} => Announcing(s, r)'
    PROVE  CopyInv(s, r)' /\ Copies(s, r)
<1>1. /\ Full(s)' = Full(s) /\ Missing(s, r)' = Missing(s, r)
      /\ \A p : Exists(s, p)' <=> Exists(s, p)
  BY DEF Full, Entries, Missing, Tracked, Exists
<1>2. \A f : Carries(s, f)' <=> Carries(s, f)
  BY <1>1 DEF Carries
<1>. QED
  BY <1>1, <1>2 DEF CopyInv, Copies

\* The receiver's side and what reaches it stay as they are.
LEMMA CopySame ==
    ASSUME NEW s \in Nodes, NEW r \in Nodes, CopyInv(s, r), disk' = disk,
           store'[s] = store[s], senders'[s] = senders[s],
           UNCHANGED <<up, pc, want, buf>>, greet[s] > 0 => greet'[s] > 0,
           \A f \in InFlight(r)' : f \in InFlight(r) \/ f.type \in {"hello", "ping", "need"},
           \A f \in InFlight(r) : f \in InFlight(r)' \/ f.type # "manifest" \/ pc[r] # "loop"
    PROVE  CopyInv(s, r)' /\ Copies(s, r)
<1>1. \A f \in InFlight(r)' : Carries(s, f)
  BY DEF CopyInv, Carries
<1>2. ASSUME up', pc'[r] = "loop", Missing(s, r) # {} PROVE Announcing(s, r)'
  <2>1. Announcing(s, r)
    BY <1>2 DEF CopyInv
  <2>. QED
    BY <1>2, <2>1 DEF Announcing
<1>. QED
  BY <1>1, <1>2, CopyKept DEF CopyInv

\* What writing and reading leave in flight.
LEMMA WriteArrives ==
    ASSUME TypeOK, NEW n \in Nodes, NEW f \in Frame, Write(n, f)
    PROVE  /\ InFlight(n)' = InFlight(n) \cup {f}
           /\ \A m \in Nodes \ {n} : InFlight(m)' = InFlight(m)
<1>1. net \in [Nodes -> Seq(Frame)] /\ net[n] \in Seq(Frame)
  BY DEF TypeOK
<1>2. net'[n] = Append(net[n], f) /\ \A m \in Nodes \ {n} : net'[m] = net[m]
  BY <1>1 DEF Write
<1>3. InFlight(n)' = InFlight(n) \cup {f}
  BY <1>1, <1>2, AppendElements DEF InFlight
<1>. QED
  BY <1>2, <1>3 DEF InFlight

LEMMA ReadElements ==
    ASSUME NEW S, NEW s \in Seq(S), s # <<>>
    PROVE  {s[i] : i \in DOMAIN s} \subseteq {Tail(s)[i] : i \in DOMAIN Tail(s)} \cup {Head(s)}
<1>1. /\ Tail(s) \in Seq(S) /\ Len(Tail(s)) = Len(s) - 1 /\ Len(s) \in Nat \ {0}
      /\ \A i \in 1 .. Len(Tail(s)) : Tail(s)[i] = s[i + 1]
  BY HeadTailProperties
<1>2. Head(s) = s[1] /\ DOMAIN s = 1 .. Len(s) /\ DOMAIN Tail(s) = 1 .. Len(Tail(s))
  BY <1>1
<1>3. ASSUME NEW i \in DOMAIN s, i # 1 PROVE s[i] \in {Tail(s)[k] : k \in DOMAIN Tail(s)}
  <2>1. i - 1 \in DOMAIN Tail(s) /\ i = (i - 1) + 1
    BY <1>1, <1>2, <1>3
  <2>2. PICK k \in DOMAIN Tail(s) : i = k + 1
    BY <2>1
  <2>. QED
    BY <1>1, <1>2, <2>2
<1>. QED
  BY <1>2, <1>3

\* Reading takes the first frame away, and that one only; an answer is added
\* at the other end.
LEMMA ConsumeLeaves ==
    ASSUME TypeOK, NEW n \in Nodes, net[n] # <<>>, Consume(n)
    PROVE  /\ InFlight(n) \subseteq InFlight(n)' \cup {Head(net[n])}
           /\ \A m \in Nodes \ {n} : InFlight(m)' = InFlight(m)
<1>1. net \in [Nodes -> Seq(Frame)] /\ net[n] \in Seq(Frame)
  BY DEF TypeOK
<1>2. net'[n] = Tail(net[n]) /\ \A m \in Nodes \ {n} : net'[m] = net[m]
  BY <1>1 DEF Consume
<1>3. InFlight(n) \subseteq InFlight(n)' \cup {Head(net[n])}
  BY <1>1, <1>2, ReadElements DEF InFlight
<1>. QED
  BY <1>2, <1>3 DEF InFlight

LEMMA ReplyLeaves ==
    ASSUME TypeOK, NEW n \in Nodes, NEW o \in Nodes, o # n, net[n] # <<>>,
           NEW f \in Frame, Reply(n, f)
    PROVE  /\ InFlight(n)' \subseteq InFlight(n)
           /\ InFlight(n) \subseteq InFlight(n)' \cup {Head(net[n])}
           /\ InFlight(o)' = InFlight(o) \cup {f}
<1>0. o = Other(n)
  BY OtherNode, ConstantsAssumption
<1>1. net \in [Nodes -> Seq(Frame)] /\ net[n] \in Seq(Frame) /\ net[o] \in Seq(Frame)
  BY DEF TypeOK
<1>2. net'[n] = Tail(net[n]) /\ net'[o] = Append(net[o], f)
  BY <1>0, <1>1 DEF Reply
<1>3. InFlight(n)' \subseteq InFlight(n) /\ InFlight(n) \subseteq InFlight(n)' \cup {Head(net[n])}
  BY <1>1, <1>2, TailElements, ReadElements DEF InFlight
<1>4. InFlight(o)' = InFlight(o) \cup {f}
  <2>. DEFINE t == net[o]
  <2>1. t \in Seq(Frame) /\ net'[o] = Append(t, f)
    BY <1>1, <1>2
  <2>2. InFlight(o) = {t[i] : i \in DOMAIN t}
    BY DEF InFlight
  <2>. HIDE DEF t
  <2>3. {Append(t, f)[i] : i \in DOMAIN Append(t, f)} = {t[i] : i \in DOMAIN t} \cup {f}
    BY <2>1, AppendElements
  <2>. QED
    BY <2>1, <2>2, <2>3 DEF InFlight
<1>. QED
  BY <1>3, <1>4
\* A scan records at s what s tracks.
LEMMA ScanRecords ==
    ASSUME IndInv, NEW s \in Nodes, store[s] = Full(s), NEW n \in Nodes, Upsert(n, Tracked(n))
    PROVE  store'[s] = Full(s)
<1>1. store \in [Nodes -> Tree]
  BY DEF IndInv, TypeOK
<1>2. CASE n # s
  BY <1>1, <1>2 DEF Upsert
<1>3. CASE n = s
  <2>1. store'[s] = [p \in Paths |-> IF p \in Tracked(s) THEN disk[s][p] ELSE store[s][p]]
    BY <1>1, <1>3 DEF Upsert
  <2>2. \A p \in Paths \ Tracked(s) : store[s][p] = NoFile
    BY DEF Full, Entries
  <2>. QED
    BY <2>1, <2>2 DEF Full, Entries
<1>. QED
  BY <1>2, <1>3

\* Announcing starts a goroutine of one's own at most.
LEMMA AnnounceOthers ==
    ASSUME IndInv, NEW s \in Nodes, NEW n \in Nodes, n # s, NEW S, Announce(n, S)
    PROVE  senders'[s] = senders[s]
<1>1. senders \in [Nodes -> [Senders -> Manifest \cup {NoFile}]]
  BY DEF IndInv, TypeOK
<1>. QED
  BY <1>1 DEF Announce

\* Announcing all files makes sure that they are announced.
LEMMA AnnounceAll ==
    ASSUME IndInv, NEW s \in Nodes, Announce(s, Tracked(s)),
           \A g \in Senders : senders[s][g] \in {Full(s), NoFile}
    PROVE  /\ \A g \in Senders :
                /\ senders'[s][g] \in {Full(s), NoFile}
                /\ senders[s][g] # NoFile => senders'[s][g] # NoFile
           /\ up /\ Tracked(s) # {} => \E g \in Senders : senders'[s][g] # NoFile
<1>1. senders \in [Nodes -> [Senders -> Manifest \cup {NoFile}]]
  BY DEF IndInv, TypeOK
<1>2. Full(s) # NoFile
  <2>1. Full(s) \in Manifest
    BY DEF IndInv, TypeOK, Full, Entries, Manifest, Tree
  <2>. QED
    BY <2>1, ConstantsAssumption
<1>3. CASE Tracked(s) = {} \/ ~up
  BY <1>3 DEF Announce
<1>4. ASSUME NEW g \in Senders, senders' = [senders EXCEPT ![s][g] = Full(s)]
      PROVE  /\ \A h \in Senders :
                /\ senders'[s][h] \in {Full(s), NoFile}
                /\ senders[s][h] # NoFile => senders'[s][h] # NoFile
             /\ \E h \in Senders : senders'[s][h] # NoFile
  BY <1>1, <1>2, <1>4
<1>5. CASE ~(Tracked(s) = {} \/ ~up)
  <2>1. PICK g \in Senders : senders' = [senders EXCEPT ![s][g] = Full(s)]
    BY <1>5 DEF Announce, Full
  <2>. QED
    BY <1>4, <2>1
<1>. QED
  BY <1>3, <1>5

\* Connections come and go; HandleIncoming waits for nothing on a new one.
LEMMA ConnectionCopies ==
    ASSUME IndInv, NEW s \in Nodes, NEW r \in Nodes, s # r, Provides(s, r), CopyInv(s, r),
           Connect \/ Disconnect \/ \E n \in Nodes : Restart(n)
    PROVE  CopyInv(s, r)' /\ Copies(s, r)
<1>0. TypeOK /\ greet[s] \in Nat /\ disk' = disk
  BY DEF IndInv, TypeOK, Connect, Disconnect, Restart
<1>1. CASE Connect
  <2>1. \A f \in InFlight(r)' : Carries(s, f)
    <3>1. net'[r] = <<[type |-> "hello"]>> \/ net'[r] = <<>>
      BY <1>1 DEF Connect
    <3>. QED
      BY <3>1 DEF InFlight, Carries
  <2>2. Announcing(s, r)'
    BY <1>0, <1>1 DEF Connect, Provides, Flows, Announcing
  <2>3. UNCHANGED <<store, senders, pc, want, buf>>
    BY <1>1 DEF Connect, handlerVars
  <2>. QED
    BY <1>0, <2>1, <2>2, <2>3, CopyKept DEF CopyInv
<1>2. ASSUME DropConnection PROVE CopyInv(s, r)' /\ Copies(s, r)
  <2>1. /\ up' = FALSE /\ buf'[s] = NoFile /\ pc'[r] = "loop" /\ InFlight(r)' = {}
    BY <1>2 DEF DropConnection, InFlight
  <2>2. ~Connect
    BY <1>2 DEF Connect, DropConnection
  <2>3. \A g \in Senders : senders'[s][g] = NoFile
    BY <2>2 DEF Disconnect, Restart
  <2>4. store'[s] = Full(s)
    <3>1. CASE Disconnect
      BY <3>1 DEF Disconnect, CopyInv
    <3>2. ASSUME NEW n \in Nodes, Restart(n) PROVE store'[s] = Full(s)
      BY <3>2, ScanRecords DEF Restart, CopyInv
    <3>. QED
      BY <2>2, <3>1, <3>2
  <2>. QED
    BY <1>0, <2>1, <2>3, <2>4, CopyKept
<1>. QED
  BY <1>1, <1>2 DEF Disconnect, Restart

\* Announcing again what was announced before.
LEMMA PushCopies ==
    ASSUME IndInv, NEW s \in Nodes, NEW r \in Nodes, s # r, Provides(s, r), CopyInv(s, r),
           NEW n \in Nodes, Pushes(n)
    PROVE  CopyInv(s, r)' /\ Copies(s, r)
<1>0. /\ TypeOK /\ disk' = disk /\ UNCHANGED <<up, pc, want, buf>> /\ greet[s] \in Nat
      /\ Other(s) = r /\ Other(r) = s /\ (n = s \/ n = r)
  <2>1. TypeOK /\ greet[s] \in Nat
    BY DEF IndInv, TypeOK
  <2>2. disk' = disk /\ UNCHANGED <<up, pc, want, buf>>
    BY DEF Pushes, OnFolderChanged, OnPeerConnected, CatchUp, PullFromPeers, SendManifest,
       handlerVars
  <2>. QED
    BY <2>1, <2>2, OtherNode, ConstantsAssumption
<1>1. CASE OnFolderChanged(n) \/ OnPeerConnected(n)
  <2>1. net' = net /\ (n # s => greet'[s] = greet[s]) /\ (OnFolderChanged(n) => greet' = greet)
    BY <1>1 DEF OnFolderChanged, OnPeerConnected, TypeOK, IndInv
  <2>2. store'[s] = Full(s)
    BY <1>1, ScanRecords DEF OnFolderChanged, OnPeerConnected, BroadcastFolder, CopyInv
  <2>3. senders'[s] = senders[s] \/ (n = s /\ Announce(s, Tracked(s)))
    <3>1. UNCHANGED senders \/ Announce(n, Tracked(n))
      BY <1>1 DEF OnFolderChanged, OnPeerConnected, BroadcastFolder
    <3>. QED
      BY <1>0, <3>1, AnnounceOthers
  <2>4. \A g \in Senders :
            /\ senders'[s][g] \in {Full(s), NoFile}
            /\ senders[s][g] # NoFile => senders'[s][g] # NoFile
    BY <2>3, AnnounceAll DEF CopyInv
  <2>5. InFlight(r)' = InFlight(r)
    BY <2>1 DEF InFlight
  <2>6. ASSUME up', pc'[r] = "loop", Missing(s, r) # {} PROVE Announcing(s, r)'
    <3>1. Announcing(s, r)
      BY <1>0, <2>6 DEF CopyInv
    <3>2. CASE n = s /\ OnPeerConnected(s)
      <4>1. Tracked(s) # {} /\ up
        BY <1>0, <2>6 DEF Missing
      <4>2. Announce(s, Tracked(s))
        BY <3>2 DEF OnPeerConnected, BroadcastFolder
      <4>3. \E g \in Senders : senders'[s][g] # NoFile
        BY <4>1, <4>2, AnnounceAll DEF CopyInv
      <4>. QED
        BY <4>3 DEF Announcing
    <3>3. CASE n # s \/ ~OnPeerConnected(n)
      <4>1. greet'[s] = greet[s]
        BY <1>1, <2>1, <3>3
      <4>. QED
        BY <2>4, <2>5, <3>1, <4>1 DEF Announcing
    <3>. QED
      BY <3>2, <3>3
  <2>7. \A f \in InFlight(r)' : Carries(s, f)
    BY <2>5 DEF CopyInv
  <2>. QED
    BY <1>0, <2>2, <2>4, <2>6, <2>7, CopyKept DEF CopyInv
<1>2. CASE CatchUp(n)
  <2>1. n = s
    BY <1>0, <1>2 DEF CatchUp, Provides
  <2>2. \A p \in Tracked(s) : store[s][p] = disk[s][p] /\ disk[s][p] # NoFile
    BY DEF CopyInv, Full, Entries, Tracked, Exists
  <2>3. Stale(s) = {}
    BY <2>2 DEF Stale
  <2>. QED
    BY <1>2, <2>1, <2>3 DEF CatchUp
<1>3. CASE PullFromPeers(n)
  <2>1. n = r
    BY <1>0, <1>3 DEF PullFromPeers, CanInitiatePull, Provides, Flows, CanSend, Bidirectional
  <2>2. senders' = senders /\ greet' = greet /\ store'[s] = store[s]
    BY <1>3, <2>1 DEF PullFromPeers, Upsert, IndInv, TypeOK
  <2>3. InFlight(r)' = InFlight(r)
    <3>. DEFINE f == [type |-> "ping"]
    <3>1. f \in Frame
      BY DEF Frame
    <3>2. net' = net \/ Write(s, f)
      BY <1>0, <1>3, <2>1 DEF PullFromPeers
    <3>. HIDE DEF f
    <3>. QED
      BY <1>0, <3>1, <3>2, WriteArrives DEF InFlight
  <2>. QED
    BY <1>0, <2>2, <2>3, CopySame
<1>4. ASSUME NEW g \in Senders, SendManifest(n, g) PROVE CopyInv(s, r)' /\ Copies(s, r)
  <2>. DEFINE f == [type |-> "manifest", files |-> senders[n][g]]
  <2>0. senders[n][g] \in Manifest /\ senders[n][g] # NoFile
    BY <1>0, <1>4 DEF SendManifest, TypeOK
  <2>1. f \in Frame /\ f.type = "manifest" /\ f.files = senders[n][g]
    BY <2>0 DEF Frame
  <2>2. /\ Write(Other(n), f) /\ greet' = greet /\ store' = store
        /\ senders' = [senders EXCEPT ![n][g] = NoFile]
    BY <1>4 DEF SendManifest
  <2>3. n \in Nodes /\ senders \in [Nodes -> [Senders -> Manifest \cup {NoFile}]]
    BY <1>0 DEF TypeOK
  <2>. HIDE DEF f
  <2>4. CASE n = s
    <3>1. InFlight(r)' = InFlight(r) \cup {f}
      BY <1>0, <2>1, <2>2, <2>4, WriteArrives
    <3>2. f.files = Full(s)
      BY <2>0, <2>1, <2>4 DEF CopyInv
    <3>3. \A x \in InFlight(r)' : Carries(s, x)
      BY <2>1, <3>1, <3>2 DEF CopyInv, Carries
    <3>4. Announcing(s, r)'
      BY <2>1, <3>1 DEF Announcing
    <3>5. \A h \in Senders : senders'[s][h] \in {Full(s), NoFile}
      BY <2>2, <2>3, <2>4 DEF CopyInv
    <3>. QED
      BY <1>0, <2>2, <3>3, <3>4, <3>5, CopyKept DEF CopyInv
  <2>5. CASE n = r
    <3>1. InFlight(r)' = InFlight(r)
      BY <1>0, <2>1, <2>2, <2>5, WriteArrives
    <3>2. senders'[s] = senders[s]
      BY <2>2, <2>3, <2>5
    <3>. QED
      BY <1>0, <2>2, <3>1, <3>2, CopySame
  <2>. QED
    BY <1>0, <2>4, <2>5
<1>. QED
  BY <1>1, <1>2, <1>3, <1>4 DEF Pushes
\* Frames that are read and change no tree.
LEMMA ReadCopies ==
    ASSUME IndInv, NEW s \in Nodes, NEW r \in Nodes, s # r, Provides(s, r), CopyInv(s, r),
           NEW n \in Nodes,
           HandleHello(n) \/ HandlePing(n) \/ SkipFrame(n) \/ DropWhileReceiving(n)
    PROVE  CopyInv(s, r)' /\ Copies(s, r)
<1>0. /\ TypeOK /\ greet[s] \in Nat /\ greet \in [Nodes -> Nat]
      /\ disk' = disk /\ UNCHANGED <<store, senders, up, pc, want, buf>>
      /\ net[n] # <<>> /\ (n = s \/ n = r)
  <2>1. TypeOK /\ greet[s] \in Nat /\ greet \in [Nodes -> Nat]
    BY DEF IndInv, TypeOK
  <2>2. disk' = disk /\ UNCHANGED <<store, senders, up, pc, want, buf>> /\ net[n] # <<>>
    BY DEF HandleHello, HandlePing, SkipFrame, DropWhileReceiving, Incoming, handlerVars
  <2>. QED
    BY <2>1, <2>2, OtherNode, ConstantsAssumption
<1>1. greet[s] > 0 => greet'[s] > 0
  BY <1>0 DEF HandleHello, HandlePing, SkipFrame, DropWhileReceiving
<1>2. n = r => Head(net[n]).type # "manifest" \/ pc[r] # "loop"
  BY DEF HandleHello, HandlePing, SkipFrame, DropWhileReceiving, Incoming, Provides, Flows
<1>3. CASE HandlePing(n)
  <2>. DEFINE f == [type |-> "ping"]
  <2>1. f \in Frame /\ f.type = "ping"
    BY DEF Frame
  <2>2. Reply(n, f)
    BY <1>3 DEF HandlePing
  <2>. HIDE DEF f
  <2>3. CASE n = r
    <3>1. InFlight(r)' \subseteq InFlight(r) /\ InFlight(r) \subseteq InFlight(r)' \cup {Head(net[r])}
      BY <1>0, <2>1, <2>2, <2>3, ReplyLeaves
    <3>. QED
      BY <1>0, <1>1, <1>2, <2>3, <3>1, CopySame
  <2>4. CASE n = s
    <3>1. InFlight(r)' = InFlight(r) \cup {f}
      BY <1>0, <2>1, <2>2, <2>4, ReplyLeaves
    <3>. QED
      BY <1>0, <1>1, <2>1, <3>1, CopySame
  <2>. QED
    BY <1>0, <2>3, <2>4
<1>4. CASE ~HandlePing(n)
  <2>1. Consume(n)
    BY <1>4 DEF HandleHello, SkipFrame, DropWhileReceiving
  <2>2. InFlight(r)' \subseteq InFlight(r)
    BY <1>0, <2>1, ConsumeFlight
  <2>3. InFlight(r) \subseteq InFlight(r)' \cup {Head(net[n])} /\ (n # r => InFlight(r)' = InFlight(r))
    BY <1>0, <2>1, ConsumeLeaves
  <2>. QED
    BY <1>0, <1>1, <1>2, <2>2, <2>3, CopySame
<1>. QED
  BY <1>3, <1>4

\* The consumer asks for all that it misses.
LEMMA ApplyCopies ==
    ASSUME IndInv, NEW s \in Nodes, NEW r \in Nodes, s # r, Provides(s, r), CopyInv(s, r),
           NEW n \in Nodes, ApplyManifest(n), ~Bidirectional(r)
    PROVE  CopyInv(s, r)' /\ Copies(s, r)
<1>. DEFINE files == Head(net[r]).files
            C == Conflicts(r, files)
            needed == Needed(r, files)
<1>0. n = r /\ Other(r) = s /\ TypeOK
  <2>1. n # s
    BY DEF ApplyManifest, Provides
  <2>. QED
    BY <2>1, OtherNode, ConstantsAssumption DEF IndInv
<1>1. /\ pc[r] = "loop" /\ net[r] # <<>> /\ Head(net[r]).type = "manifest"
      /\ UNCHANGED <<store, up, buf, greet, senders>>
      /\ disk' = [disk EXCEPT ![r] = WithConflictsRenamed(@, C)]
      /\ \/ needed = {} /\ Consume(r) /\ UNCHANGED <<pc, want>>
         \/ /\ needed # {} /\ Reply(r, [type |-> "need", paths |-> needed])
            /\ pc' = [pc EXCEPT ![r] = "receive"] /\ want' = [want EXCEPT ![r] = needed]
  BY <1>0 DEF ApplyManifest, ApplyFiles, Incoming
<1>2. /\ disk \in [Nodes -> Tree] /\ pc \in [Nodes -> {"loop", "receive", "send"}]
      /\ want \in [Nodes -> SUBSET Paths] /\ disk[r] \in [Paths -> File \cup {NoFile}]
  BY <1>0 DEF TypeOK, Tree
<1>3. C = {} /\ needed = Differing(r, files)
  BY DEF Conflicts, LocalNewer, Needed
<1>4. disk' = disk
  <2>1. WithConflictsRenamed(disk[r], {}) = disk[r]
    BY <1>2 DEF WithConflictsRenamed
  <2>. QED
    BY <1>1, <1>2, <1>3, <2>1
<1>5. files = Full(s)
  <2>1. Head(net[r]) \in InFlight(r)
    <3>1. net[r] \in Seq(Frame)
      BY <1>0 DEF TypeOK
    <3>. QED
      BY <1>1, <3>1, TailElements DEF InFlight
  <2>. QED
    BY <1>1, <2>1 DEF CopyInv, Carries
<1>6. Differing(r, Full(s)) = Missing(s, r)
  <2>1. Listed(Full(s)) = Tracked(s)
    BY DEF Listed, Full, Entries, Tracked, Exists
  <2>2. \A p \in Tracked(s) : Full(s)[p] = disk[s][p]
    BY DEF Full, Entries, Tracked
  <2>. QED
    BY <2>1, <2>2 DEF Differing, Missing
<1>7. needed = Missing(s, r) /\ needed \in SUBSET Paths
  BY <1>3, <1>5, <1>6 DEF Missing, Tracked
<1>. HIDE DEF files, C, needed
<1>8. InFlight(r)' \subseteq InFlight(r)
  <2>. DEFINE f == [type |-> "need", paths |-> needed]
  <2>1. f \in Frame
    BY <1>7 DEF Frame
  <2>. HIDE DEF f
  <2>2. CASE Consume(r)
    BY <1>0, <1>1, <2>2, ConsumeFlight
  <2>3. CASE Reply(r, f)
    BY <1>0, <1>1, <2>1, <2>3, ReplyLeaves
  <2>. QED
    BY <1>1, <2>2, <2>3 DEF f
<1>9. \A f \in InFlight(r)' : Carries(s, f)
  BY <1>8 DEF CopyInv
<1>10. want'[s] = want[s] /\ buf'[s] = buf[s]
  BY <1>1, <1>2
<1>11. CASE needed = {}
  <2>1. pc'[r] = "loop" /\ Missing(s, r) = {}
    BY <1>1, <1>7, <1>11
  <2>. QED
    BY <1>1, <1>4, <1>9, <1>10, <2>1, CopyKept DEF CopyInv
<1>12. CASE needed # {}
  <2>1. pc'[r] = "receive" /\ want'[r] = Missing(s, r)
    BY <1>1, <1>2, <1>7, <1>12
  <2>. QED
    BY <1>1, <1>4, <1>9, <1>10, <2>1, CopyKept DEF CopyInv
<1>. QED
  BY <1>11, <1>12

\* A CHUNK brings what s has.
LEMMA ReceiveCopies ==
    ASSUME IndInv, NEW s \in Nodes, NEW r \in Nodes, s # r, Provides(s, r), CopyInv(s, r),
           NEW n \in Nodes, ReceiveChunk(n)
    PROVE  CopyInv(s, r)' /\ Copies(s, r)
<1>. DEFINE f == Head(net[r])
            q == Awaited(r)
            file == [hash |-> f.data, mtime |-> now]
<1>0. n = r /\ TypeOK /\ pc[r] = "receive" /\ net[r] # <<>>
  <2>1. n # s
    BY DEF ReceiveChunk, StoreChunk, Incoming, IndInv, ReceiverMayReceive, Provides
  <2>. QED
    BY <2>1, OtherNode, ConstantsAssumption DEF IndInv, ReceiveChunk, StoreChunk, Incoming
<1>1. /\ f.type = "chunk" /\ f.path = q /\ Consume(r)
      /\ disk' = [disk EXCEPT ![r][q] = file] /\ store' = [store EXCEPT ![r][q] = file]
      /\ want' = [want EXCEPT ![r] = want[r] \ {q}]
      /\ pc' = [pc EXCEPT ![r] = IF want[r] \ {q} = {} THEN "loop" ELSE "receive"]
      /\ UNCHANGED <<up, buf, greet, senders>>
  BY <1>0 DEF ReceiveChunk, StoreChunk, Incoming, AwaitNext
<1>2. /\ disk \in [Nodes -> Tree] /\ store \in [Nodes -> Tree]
      /\ pc \in [Nodes -> {"loop", "receive", "send"}] /\ want \in [Nodes -> SUBSET Paths]
      /\ net[r] \in Seq(Frame)
  BY <1>0 DEF TypeOK
<1>3. f \in InFlight(r) /\ f \in FramesTo(r)
  BY <1>0, <1>1, ConsumeKeeps, ConsumeFlight
<1>4. Exists(s, q) /\ f.data = disk[s][q].hash
  BY <1>1, <1>3 DEF CopyInv, Carries
<1>5. q \in Paths /\ q \notin Ignored[s] /\ f.data \in Nat
  <2>1. f \in Frame /\ Clean(Other(r), f) /\ Other(r) = s
    BY <1>3, OtherNode, ConstantsAssumption DEF FramesTo
  <2>. QED
    BY <1>1, <2>1, FrameFields DEF Clean
<1>6. file # NoFile /\ file.hash = f.data
  <2>1. file \in File
    BY <1>0, <1>5 DEF TypeOK, File
  <2>. QED
    BY <2>1, ConstantsAssumption
<1>. HIDE DEF f, q, file
<1>7. /\ disk'[s] = disk[s] /\ disk'[r][q] = file /\ store'[s] = store[s]
      /\ \A p \in Paths \ {q} : disk'[r][p] = disk[r][p]
  BY <1>1, <1>2, <1>5 DEF Tree
<1>8. Copies(s, r)
  BY <1>4, <1>5, <1>6, <1>7 DEF Copies
<1>9. /\ Full(s)' = Full(s) /\ Tracked(s)' = Tracked(s)
      /\ \A p : Exists(s, p)' <=> Exists(s, p)
  BY <1>7 DEF Full, Entries, Tracked, Exists
<1>10. Missing(s, r)' \subseteq Missing(s, r) \ {q}
  <2>1. ASSUME NEW p \in Missing(s, r)' PROVE p \in Missing(s, r) /\ p # q
    <3>1. /\ p \in Tracked(s) \ Ignored[r] /\ p \in Paths
          /\ ~Exists(r, p)' \/ disk'[r][p].hash # disk[s][p].hash
      BY <1>7, <1>9, <2>1 DEF Missing, Tracked
    <3>2. p # q
      BY <1>4, <1>6, <1>7, <3>1 DEF Exists
    <3>. QED
      BY <1>7, <3>1, <3>2 DEF Missing, Exists
  <2>. QED
    BY <2>1
<1>11. Missing(s, r)' \subseteq want'[r]
  BY <1>0, <1>1, <1>2, <1>10 DEF CopyInv
<1>12. pc'[r] = "loop" => Missing(s, r)' = {}
  BY <1>1, <1>2, <1>11
<1>13. \A x \in InFlight(r)' : Carries(s, x)'
  <2>1. InFlight(r)' \subseteq InFlight(r)
    BY <1>0, <1>1, ConsumeFlight
  <2>2. \A x : Carries(s, x)' <=> Carries(s, x)
    BY <1>7, <1>9 DEF Carries
  <2>. QED
    BY <2>1, <2>2 DEF CopyInv
<1>14. pc'[r] # "send" /\ want'[s] = want[s] /\ buf' = buf /\ senders' = senders
  BY <1>1, <1>2
<1>. QED
  BY <1>7, <1>8, <1>9, <1>11, <1>12, <1>13, <1>14 DEF CopyInv
\* sendFiles reads what s has, and writes what it read.
LEMMA SendCopies ==
    ASSUME IndInv, BufferInv, NEW s \in Nodes, NEW r \in Nodes, s # r, Provides(s, r),
           CopyInv(s, r), NEW n \in Nodes, HandleNeed(n) \/ ReadFile(n) \/ SendChunk(n)
    PROVE  CopyInv(s, r)' /\ Copies(s, r)
<1>0. /\ TypeOK /\ n = s /\ Other(s) = r /\ disk' = disk
      /\ UNCHANGED <<store, senders, greet, up>>
  <2>1. n # r
    BY DEF HandleNeed, ReadFile, SendChunk, Provides, CopyInv
  <2>2. disk' = disk /\ UNCHANGED <<store, senders, greet, up>>
    BY DEF HandleNeed, ReadFile, SendChunk
  <2>. QED
    BY <2>1, <2>2, OtherNode, ConstantsAssumption DEF IndInv
<1>1. /\ pc \in [Nodes -> {"loop", "receive", "send"}] /\ want \in [Nodes -> SUBSET Paths]
      /\ buf \in [Nodes -> Nat \cup {NoFile}]
  BY <1>0 DEF TypeOK
<1>2. pc'[r] = pc[r] /\ want'[r] = want[r]
  BY <1>0, <1>1 DEF HandleNeed, ReadFile, SendChunk, SentOrSkipped
<1>3. ASSUME InFlight(r) \subseteq InFlight(r)', \A f \in InFlight(r)' : Carries(s, f),
             buf'[s] # NoFile =>
                 Exists(s, Min(want'[s])) /\ buf'[s] = disk[s][Min(want'[s])].hash
      PROVE  CopyInv(s, r)' /\ Copies(s, r)
  <2>1. ASSUME up', pc'[r] = "loop", Missing(s, r) # {} PROVE Announcing(s, r)'
    <3>1. Announcing(s, r)
      BY <1>0, <1>2, <2>1 DEF CopyInv
    <3>. QED
      BY <1>0, <1>3, <3>1 DEF Announcing
  <2>. QED
    BY <1>0, <1>2, <1>3, <2>1, CopyKept DEF CopyInv
<1>4. CASE HandleNeed(n)
  <2>1. buf'[s] = NoFile
    BY <1>0, <1>4 DEF HandleNeed, Incoming, BufferInv
  <2>2. InFlight(r)' = InFlight(r)
    BY <1>0, <1>4, ConsumeLeaves DEF HandleNeed, Incoming
  <2>. QED
    BY <1>3, <2>1, <2>2 DEF CopyInv
<1>5. CASE ReadFile(n)
  <2>1. net' = net /\ buf[s] = NoFile
    BY <1>0, <1>5 DEF ReadFile
  <2>2. InFlight(r)' = InFlight(r)
    BY <2>1 DEF InFlight
  <2>3. \/ /\ Exists(s, Min(want[s])) /\ buf'[s] = disk[s][Min(want[s])].hash
           /\ want' = want
        \/ buf'[s] = NoFile
    BY <1>0, <1>1, <1>5, <2>1 DEF ReadFile
  <2>. QED
    BY <1>3, <2>2, <2>3 DEF CopyInv
<1>6. CASE SendChunk(n)
  <2>. DEFINE p == Min(want[s])
              f == [type |-> "chunk", path |-> p, data |-> buf[s]]
  <2>1. buf[s] # NoFile /\ Write(r, f) /\ buf'[s] = NoFile
    BY <1>0, <1>1, <1>6 DEF SendChunk
  <2>2. Exists(s, p) /\ buf[s] = disk[s][p].hash
    BY <2>1 DEF CopyInv
  <2>3. p \in Paths /\ buf[s] \in Nat
    <3>1. want[s] # {}
      BY <1>0, <1>6 DEF SendChunk, IndInv, WantClean
    <3>. QED
      BY <1>1, <2>1, <3>1, MinOfPaths
  <2>4. f \in Frame /\ f.type = "chunk" /\ f.path = p /\ f.data = buf[s]
    BY <2>3 DEF Frame
  <2>. HIDE DEF p, f
  <2>5. InFlight(r)' = InFlight(r) \cup {f}
    BY <1>0, <2>1, <2>4, WriteArrives
  <2>6. \A x \in InFlight(r)' : Carries(s, x)
    BY <2>2, <2>4, <2>5 DEF CopyInv, Carries
  <2>. QED
    BY <1>3, <2>1, <2>5, <2>6
<1>. QED
  BY <1>4, <1>5, <1>6

LEMMA NobodyEdits ==
    ASSUME TypeOK, NothingChanges, NEW n \in Nodes
    PROVE  ~Users(n)
<1>1. used["edits"] \in Nat /\ used["deletes"] \in Nat
  BY DEF TypeOK, Budgets
<1>. QED
  BY <1>1 DEF NothingChanges, NothingLost, Users, Edit, Delete

LEMMA NextCopies ==
    ASSUME IndInv, BufferInv, NothingChanges, [Next]_vars,
           NEW s \in Nodes, NEW r \in Nodes, s # r, Provides(s, r), CopyInv(s, r),
           ~Bidirectional(r)
    PROVE  CopyInv(s, r)' /\ Copies(s, r)
<1>1. CASE Tick \/ UNCHANGED vars
  <2>1. /\ disk' = disk /\ UNCHANGED <<store, senders, up, pc, want, buf, greet, net>>
    BY <1>1 DEF Tick, vars, handlerVars
  <2>2. InFlight(r)' = InFlight(r)
    BY <2>1 DEF InFlight
  <2>. QED
    BY <2>1, <2>2, CopySame
<1>2. ASSUME NEW n \in Nodes, Incomings(n) PROVE CopyInv(s, r)' /\ Copies(s, r)
  <2>1. ~ReceiveFails(n)
    BY NoFault DEF ReceiveFails, IndInv, NothingChanges
  <2>. QED
    BY <1>2, <2>1, ReadCopies, ApplyCopies, ReceiveCopies, SendCopies DEF Incomings
<1>3. \A n \in Nodes : ~Users(n)
  BY NobodyEdits DEF IndInv
<1>4. ~Stray
  BY NoStray DEF IndInv, NothingChanges
<1>. QED
  BY <1>1, <1>2, <1>3, <1>4, ConnectionCopies, PushCopies DEF Next, Stray

\* Every provider's files are on their way.
MirrorInv ==
    /\ \A n \in Nodes : ~Bidirectional(n)
    /\ \A s, r \in Nodes : s # r /\ Flows(s, r) => CopyInv(s, r)

LEMMA OneRoleEach ==
    ASSUME \A n \in Nodes : ~Bidirectional(n), NEW s \in Nodes, NEW r \in Nodes, Flows(s, r)
    PROVE  Provides(s, r)
  BY DEF Provides, Flows, CanSend, CanReceive

LEMMA MirrorKept ==
    ASSUME IndInv, BufferInv, NothingChanges, MirrorInv, [Next]_vars
    PROVE  MirrorInv' /\ \A s, r \in Nodes : s # r /\ Flows(s, r) => Copies(s, r)
<1>1. cfg' = cfg
  BY SettingsFixed
<1>2. /\ \A n \in Nodes : ~Bidirectional(n)'
      /\ \A s, r \in Nodes : Flows(s, r)' <=> Flows(s, r)
  BY <1>1 DEF MirrorInv, Flows, CanSend, CanReceive, Bidirectional
<1>3. ASSUME NEW s \in Nodes, NEW r \in Nodes, s # r, Flows(s, r)
      PROVE  CopyInv(s, r)' /\ Copies(s, r)
  BY <1>3, OneRoleEach, NextCopies DEF MirrorInv
<1>. QED
  BY <1>2, <1>3 DEF MirrorInv

LEMMA MirrorStarts == Init /\ BothOneWay => MirrorInv /\ BufferInv
<1>. SUFFICES ASSUME Init, BothOneWay PROVE MirrorInv /\ BufferInv
  OBVIOUS
<1>1. \A n \in Nodes : ~Bidirectional(n)
  BY DEF Init, BothOneWay, Bidirectional
<1>2. ASSUME NEW s \in Nodes, NEW r \in Nodes PROVE CopyInv(s, r)
  <2>1. /\ net[r] = <<>> /\ pc[r] = "loop" /\ up = FALSE /\ buf[s] = NoFile
        /\ \A g \in Senders : senders[s][g] = NoFile
    BY DEF Init
  <2>2. store[s] = Full(s)
    BY DEF Init, Full, Entries, Tracked, Exists
  <2>3. InFlight(r) = {}
    BY <2>1 DEF InFlight
  <2>. QED
    BY <2>1, <2>2, <2>3 DEF CopyInv
<1>3. BufferInv
  BY DEF Init, BufferInv
<1>. QED
  BY <1>1, <1>2, <1>3 DEF MirrorInv

(***************************************************************************)
(* Convergence, as far as safety goes.  In a one-way group in which users  *)
(* leave the files alone and files can be read and written, whatever trees *)
(* the two ends start with: a consumer that is connected, waits for no     *)
(* file and is about to hear of none has every file both ends track, with  *)
(* the provider's content.  So an engine never settles with a file missing *)
(* because a manifest was dropped while receiveFile waited, a CHUNK was    *)
(* skipped, or the connection broke half-way (engine.go: applyManifest,    *)
(* receiveFile, OnPeerConnected).                                          *)
(***************************************************************************)
QuietMeansMirrored ==
    \A s \in Nodes : Flows(s, Other(s)) /\ Quiet(s, Other(s)) => Mirrored(s)

THEOREM QuietIsMirrored == BothOneWay /\ NothingChanges => (Spec => []QuietMeansMirrored)
<1>. SUFFICES ASSUME BothOneWay, NothingChanges PROVE Spec => []QuietMeansMirrored
  OBVIOUS
<1>1. Init => MirrorInv /\ BufferInv
  BY MirrorStarts
<1>2. IndInv /\ BufferInv /\ MirrorInv /\ [Next]_vars => MirrorInv'
  BY MirrorKept
<1>3. MirrorInv => QuietMeansMirrored
  <2>. SUFFICES ASSUME MirrorInv, NEW s \in Nodes, NEW r \in Nodes, r = Other(s),
                       Flows(s, r), Quiet(s, r)
                PROVE  Mirrored(s)
    BY OtherNode DEF QuietMeansMirrored
  <2>1. CopyInv(s, r)
    BY OtherNode DEF MirrorInv
  <2>2. Missing(s, r) = {}
    BY <2>1 DEF CopyInv, Quiet
  <2>. QED
    BY <2>2 DEF Mirrored, Missing
<1>. QED
  BY <1>1, <1>2, <1>3, BufferKept, Invariance, PTL DEF Spec

(***************************************************************************)
(* On the way there, no file of either end is harmed: the provider's tree  *)
(* does not change, and a file of the consumer changes only into the file  *)
(* the provider has under that name, and only where the provider does not  *)
(* ignore it (engine.go: sendFiles, receiveFile, writeConflict).           *)
(***************************************************************************)
OnlyCopies ==
    [][\A s, r \in Nodes : s # r /\ Flows(s, r) => Copies(s, r)]_vars

THEOREM OnlyCopiesAreMade == BothOneWay /\ NothingChanges => (Spec => OnlyCopies)
<1>. SUFFICES ASSUME BothOneWay, NothingChanges PROVE Spec => OnlyCopies
  OBVIOUS
<1>. DEFINE Step == \A s, r \in Nodes : s # r /\ Flows(s, r) => Copies(s, r)
<1>1. Init => MirrorInv /\ BufferInv
  BY MirrorStarts
<1>2. IndInv /\ BufferInv /\ MirrorInv /\ [Next]_vars => MirrorInv' /\ [Step]_vars
  BY MirrorKept
<1>. HIDE DEF Step
<1>3. Spec => [][Step]_vars
  BY <1>1, <1>2, BufferKept, Invariance, PTL DEF Spec
<1>. QED
  BY <1>3 DEF Step, OnlyCopies
=============================================================================
