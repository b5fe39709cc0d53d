------------------------- MODULE RelayClientProofs -------------------------
(***************************************************************************)
(* For any number of virtual connections and remote peers and any capacity *)
(* of the queues: the relay client is type correct, its engine behaves as  *)
(* PeerTable allows, an open virtual connection is the one the client has  *)
(* for its peer, and its queue has a reader.                               *)
(*                                                                         *)
(* What is proved of PeerTable holds for the engine's side because each    *)
(* step is a step of PeerTable or leaves the engine alone.  The client's   *)
(* side needs to know where Client.Run is (RunInv), that its table points  *)
(* to connections it made for that very peer (TableInv), and that nobody   *)
(* but Run sets one up (AttachInv, OpenInv).                               *)
(***************************************************************************)
EXTENDS RelayClient, TLAPS

Table == INSTANCE PeerTableProofs WITH
    Conns <- VConns, Addrs <- {}, dialing <- {}, relayed <- {v \in VConns : pc[v] # "none"}

Setup == {"hello", "add"}
Served == {"run", "rehello", "exit"}

RunInv ==
    /\ run \in {"join", "attach", "deliver"} => who \in PeerIDs
    /\ run = "join" => table[who] = None
    /\ run \in {"attach", "deliver"} => table[who] # None
    /\ run = "attach" => pc[table[who]] \in Setup
    /\ run = "deliver" => msg # None
    /\ run = "down" => \A p \in PeerIDs : table[p] = None

TableInv ==
    \A p \in PeerIDs : table[p] # None =>
        id[table[p]] = p /\ pc[table[p]] # "none" /\ table[p] \in live

AttachInv ==
    \A v \in VConns : pc[v] \in Setup => run = "attach" /\ table[who] = v

OpenInv ==
    \A v \in VConns : conn[v] = "open" => pc[v] # "none" /\ v \in live /\ table[id[v]] = v

ClientInv == RunInv /\ TableInv /\ AttachInv /\ OpenInv

ClientTypes ==
    /\ run \in {"down", "auth", "loop", "join", "attach", "deliver", "closing"}
    /\ link \in {"down", "up", "broken"} /\ (link = "down" <=> run = "down")
    /\ table \in [PeerIDs -> VConns \cup {None}]
    /\ who \in PeerIDs \cup {None} /\ msg \in Frames \cup {None}
    /\ live \in SUBSET VConns
QueueTypes == queue \in [VConns -> Seq(Frames)] /\ \A v \in VConns : Len(queue[v]) <= QueueCap

EngineTypes ==
    /\ pc \in [VConns -> {"none", "hello", "add", "run", "rehello", "exit", "done"}]
    /\ conn \in [VConns -> {"open", "broken", "closed"}]
    /\ id \in [VConns -> PeerIDs \cup {None}]
    /\ \A v \in VConns : pc[v] # "none" => id[v] # None
    /\ peers \in [PeerIDs -> VConns \cup {None}]
    /\ sender \in [VConns -> {"idle", "writing", "failed"}]

LEMMA Parts == TypeOK <=> EngineTypes /\ ClientTypes /\ QueueTypes
  BY DEF TypeOK, EngineTypes, ClientTypes, QueueTypes, Engine!TypeOK, Engine!Ids

LEMMA PartsNext == EngineTypes' /\ ClientTypes' /\ QueueTypes' => TypeOK'
  BY DEF TypeOK, EngineTypes, ClientTypes, QueueTypes, Engine!TypeOK, Engine!Ids

-----------------------------------------------------------------------------
(* The engine is a PeerTable *)

\* Closing a virtual connection looks to the engine as if the remote end went.
LEMMA ShutIsAllowed ==
    ASSUME TypeOK, NEW p \in PeerIDs, Shut(table[p]), UNCHANGED <<pc, id, peers, sender>>
    PROVE  [Engine!Next]_Engine!vars
<1>1. CASE table[p] # None /\ conn[table[p]] = "open"
  <2>1. table[p] \in VConns
    BY <1>1 DEF TypeOK
  <2>2. Engine!RemoteGone(table[p])
    BY <1>1 DEF Shut, Engine!RemoteGone
  <2>. QED
    BY <2>1, <2>2 DEF Engine!Next, Engine!Step
<1>2. CASE ~(table[p] # None /\ conn[table[p]] = "open")
  BY <1>2 DEF Shut, Engine!vars
<1>. QED
  BY <1>1, <1>2

LEMMA ReaderIsAllowed ==
    ASSUME TypeOK, RunInv, Reader PROVE [Engine!Next]_Engine!vars
<1>1. ASSUME UNCHANGED engineVars PROVE [Engine!Next]_Engine!vars
  BY <1>1 DEF engineVars, Engine!vars
<1>2. CASE Dial \/ Register \/ ReadError \/ Deliver \/ Closed
  BY <1>1, <1>2 DEF Dial, Register, ReadError, Deliver, Closed
<1>3. CASE SendHello \/ ConnectPeer
  <2>1. table[who] \in VConns
    BY <1>3 DEF SendHello, ConnectPeer, RunInv, TypeOK
  <2>2. Engine!SendHello(table[who]) \/ Engine!Register(table[who])
    BY <1>3 DEF SendHello, ConnectPeer
  <2>. QED
    BY <2>1, <2>2 DEF Engine!Next, Engine!Step
<1>4. ASSUME NEW v \in VConns, NewVirtualConn(v) PROVE [Engine!Next]_Engine!vars
  <2>1. PICK p \in PeerIDs : Engine!RelayPeer(v, p)
    BY <1>4 DEF NewVirtualConn, RunInv, Engine!RelayPeer, Engine!Goto
  <2>. QED
    BY <2>1 DEF Engine!Next, Engine!Step
<1>5. ASSUME NEW p \in PeerIDs, PeerJoin(p) \/ PeerLeave(p) \/ CloseOne(p)
      PROVE  [Engine!Next]_Engine!vars
  BY <1>5, ShutIsAllowed DEF PeerJoin, PeerLeave, CloseOne
<1>6. ASSUME NEW p \in PeerIDs, NEW f \in Frames, PeerData(p, f)
      PROVE  [Engine!Next]_Engine!vars
  BY <1>1, <1>6 DEF PeerData
<1>. QED
  BY <1>2, <1>3, <1>4, <1>5, <1>6 DEF Reader

LEMMA HandlerIsAllowed ==
    ASSUME NEW v \in VConns, Handler(v) PROVE [Engine!Next]_Engine!vars
<1>1. CASE ReadFrame(v)
  <2>1. Engine!ReadHello(v) \/ Engine!ReadFails(v) \/ UNCHANGED engineVars
    BY <1>1 DEF ReadFrame
  <2>. QED
    BY <2>1 DEF Engine!Next, Engine!Step, Engine!vars, engineVars
<1>2. CASE ~ReadFrame(v)
  BY <1>2 DEF Handler, ReadEOF, HandleHello, Exit, Broadcast, WriteManifest, DropPeer,
              Engine!Next, Engine!Step
<1>. QED
  BY <1>1, <1>2

LEMMA NextIsAllowed == TypeOK /\ RunInv /\ [Next]_vars => [Engine!Next]_Engine!vars
<1>. SUFFICES ASSUME TypeOK, RunInv, [Next]_vars PROVE [Engine!Next]_Engine!vars
  OBVIOUS
<1>1. CASE LinkBreaks \/ UNCHANGED vars
  BY <1>1 DEF LinkBreaks, vars, engineVars, Engine!vars
<1>. QED
  BY <1>1, ReaderIsAllowed, HandlerIsAllowed DEF Next

LEMMA TableAssumption == Table!PeerTableAssumption
  BY RelayClientAssumption DEF Table!PeerTableAssumption, Table!Ids

\* The instance of PeerTable in the model and the one with its theorems.
LEMMA SameNext == [Engine!Next]_Engine!vars <=> [Table!Next]_Table!vars
<1>1. ASSUME NEW v \in VConns
      PROVE  /\ Engine!SendHello(v) <=> Table!SendHello(v)
             /\ Engine!Register(v) <=> Table!Register(v)
             /\ Engine!ReadHello(v) <=> Table!ReadHello(v)
             /\ Engine!HandleHello(v) <=> Table!HandleHello(v)
             /\ Engine!ReadFails(v) <=> Table!ReadFails(v)
             /\ Engine!Exit(v) <=> Table!Exit(v)
  <2>1. Engine!SendHello(v) <=> Table!SendHello(v)
    BY DEF Engine!SendHello, Table!SendHello, Engine!Goto, Table!Goto
  <2>2. Engine!Register(v) <=> Table!Register(v)
    BY DEF Engine!Register, Table!Register, Engine!Started, Table!Started, Engine!AddPeer,
           Table!AddPeer, Engine!MapPeer, Table!MapPeer, Engine!Goto, Table!Goto
  <2>3. Engine!ReadHello(v) <=> Table!ReadHello(v)
    BY DEF Engine!ReadHello, Table!ReadHello, Engine!Goto, Table!Goto
  <2>4. Engine!HandleHello(v) <=> Table!HandleHello(v)
    BY DEF Engine!HandleHello, Table!HandleHello, Engine!AddPeer,
           Table!AddPeer, Engine!MapPeer, Table!MapPeer, Engine!Goto, Table!Goto
  <2>5. Engine!ReadFails(v) <=> Table!ReadFails(v)
    BY DEF Engine!ReadFails, Table!ReadFails, Engine!Goto, Table!Goto
  <2>6. Engine!Exit(v) <=> Table!Exit(v)
    BY DEF Engine!Exit, Table!Exit, Engine!RemovePeer, Table!RemovePeer, Engine!Goto, Table!Goto
  <2>. QED
    BY <2>1, <2>2, <2>3, <2>4, <2>5, <2>6
<1>2. ASSUME NEW v \in VConns
      PROVE  /\ Engine!Broadcast(v) <=> Table!Broadcast(v)
             /\ Engine!WriteManifest(v) <=> Table!WriteManifest(v)
             /\ Engine!DropPeer(v) <=> Table!DropPeer(v)
             /\ Engine!RemoteGone(v) <=> Table!RemoteGone(v)
  <2>1. Engine!Broadcast(v) <=> Table!Broadcast(v)
    BY DEF Engine!Broadcast, Table!Broadcast
  <2>2. Engine!WriteManifest(v) <=> Table!WriteManifest(v)
    BY DEF Engine!WriteManifest, Table!WriteManifest
  <2>3. Engine!DropPeer(v) <=> Table!DropPeer(v)
    BY DEF Engine!DropPeer, Table!DropPeer, Engine!RemovePeer, Table!RemovePeer
  <2>4. Engine!RemoteGone(v) <=> Table!RemoteGone(v)
    BY DEF Engine!RemoteGone, Table!RemoteGone
  <2>. QED
    BY <2>1, <2>2, <2>3, <2>4
<1>3. ASSUME NEW v \in VConns, NEW p \in PeerIDs
      PROVE  /\ Engine!RelayPeer(v, p) <=> Table!RelayPeer(v, p)
             /\ Engine!Inbound(v, p) <=> Table!Inbound(v, p)
  BY DEF Engine!RelayPeer, Table!RelayPeer, Engine!Inbound, Table!Inbound, Engine!Accepted,
         Table!Accepted, Engine!Goto, Table!Goto
<1>4. \A v \in VConns : Engine!Step(v) <=> Table!Step(v)
  BY <1>1, <1>2, <1>3 DEF Engine!Step, Table!Step
<1>5. Engine!Next <=> Table!Next
  BY <1>4 DEF Engine!Next, Table!Next
<1>. QED
  BY <1>5 DEF Engine!vars, Table!vars

EngineInv == Engine!ListedOrClosed /\ Engine!ListedHasReader

\* What is proved of PeerTable, for the engine.
LEMMA EngineKeeps ==
    ASSUME TypeOK, EngineInv, [Engine!Next]_Engine!vars
    PROVE  EngineTypes' /\ EngineInv'
<1>1. Table!IndInv
  BY DEF EngineInv, TypeOK, Table!IndInv, Table!TypeOK, Table!ListedOrClosed, Table!ListedHasReader,
         Table!Ids, Engine!TypeOK, Engine!ListedOrClosed, Engine!ListedHasReader, Engine!Ids
<1>2. Table!IndInv'
  BY <1>1, SameNext, TableAssumption, Table!NextKeeps
<1>. QED
  BY <1>2 DEF EngineInv, EngineTypes, Table!IndInv, Table!TypeOK, Table!ListedOrClosed,
              Table!ListedHasReader, Table!Ids, Engine!ListedOrClosed, Engine!ListedHasReader,
              Engine!Ids

-----------------------------------------------------------------------------
(* The client's own state *)

LEMMA QueuesTyped ==
    ASSUME TypeOK, RunInv, [Next]_vars PROVE QueueTypes'
<1>. QueueTypes /\ ClientTypes
  BY Parts
<1>1. ASSUME queue' = queue PROVE QueueTypes'
  BY <1>1 DEF QueueTypes
<1>2. CASE Deliver
  <2>1. CASE Enqueue
    <3>1. table[who] \in VConns /\ msg \in Frames
      BY <1>2 DEF Deliver, RunInv, ClientTypes
    <3>2. queue[table[who]] \in Seq(Frames) /\ Len(queue[table[who]]) < QueueCap
      BY <2>1, <3>1 DEF Enqueue, QueueTypes
    <3>3. /\ Append(queue[table[who]], msg) \in Seq(Frames)
          /\ Len(Append(queue[table[who]], msg)) = Len(queue[table[who]]) + 1
          /\ Len(queue[table[who]]) \in Nat
      BY <3>1, <3>2
    <3>4. Len(Append(queue[table[who]], msg)) <= QueueCap
      BY <3>2, <3>3, RelayClientAssumption
    <3>. QED
      BY <2>1, <3>1, <3>3, <3>4 DEF Enqueue, QueueTypes
  <2>. QED
    BY <1>1, <1>2, <2>1 DEF Deliver
<1>3. ASSUME NEW v \in VConns, ReadFrame(v) PROVE QueueTypes'
  <2>1. queue[v] \in Seq(Frames) /\ queue[v] # <<>> /\ Len(queue[v]) <= QueueCap
    BY <1>3 DEF ReadFrame, QueueTypes
  <2>2. Tail(queue[v]) \in Seq(Frames) /\ Len(Tail(queue[v])) = Len(queue[v]) - 1
        /\ Len(queue[v]) \in Nat
    BY <2>1
  <2>3. Len(Tail(queue[v])) <= QueueCap
    BY <2>1, <2>2, RelayClientAssumption
  <2>4. queue' = [queue EXCEPT ![v] = Tail(queue[v])]
    BY <1>3 DEF ReadFrame
  <2>. QED
    BY <2>2, <2>3, <2>4 DEF QueueTypes
<1>4. ASSUME Reader, ~Deliver PROVE queue' = queue
  BY <1>4 DEF Reader, Dial, Register, ReadError, SendHello, ConnectPeer, Closed, NewVirtualConn,
              PeerJoin, PeerLeave, CloseOne, PeerData
<1>5. ASSUME NEW v \in VConns, Handler(v), ~ReadFrame(v) PROVE queue' = queue
  BY <1>5 DEF Handler, ReadEOF, HandleHello, Exit, Broadcast, WriteManifest, DropPeer, clientVars
<1>6. CASE LinkBreaks \/ UNCHANGED vars
  BY <1>1, <1>6 DEF LinkBreaks, vars, clientVars
<1>. QED
  BY <1>1, <1>2, <1>3, <1>4, <1>5, <1>6 DEF Next

\* A connection that is set up loses its handler, and is closed, and that is
\* all that the engine's goroutines do to it.
EngineOnly ==
    /\ id' = id
    /\ \A v \in VConns :
        /\ pc'[v] = pc[v] \/ (pc[v] \in Served /\ pc'[v] \in Served \cup {"done"})
        /\ conn'[v] = "open" => conn[v] = "open"

LEMMA EngineOnlyKeeps ==
    ASSUME TypeOK, ClientInv, EngineOnly, UNCHANGED <<run, table, who, msg, live>>
    PROVE  ClientInv'
<1>. EngineTypes /\ ClientTypes
  BY Parts
<1>1. \A v \in VConns : /\ pc'[v] \in Setup <=> pc[v] \in Setup
                        /\ pc'[v] = "none" <=> pc[v] = "none"
  BY DEF EngineOnly, Setup, Served
<1>2. RunInv'
  BY <1>1 DEF ClientInv, RunInv, ClientTypes
<1>3. TableInv'
  BY <1>1 DEF ClientInv, TableInv, ClientTypes, EngineOnly
<1>4. AttachInv'
  BY <1>1 DEF ClientInv, AttachInv
<1>5. OpenInv'
  BY <1>1 DEF ClientInv, OpenInv, EngineOnly
<1>. QED
  BY <1>2, <1>3, <1>4, <1>5 DEF ClientInv

LEMMA HandlerKeeps ==
    ASSUME TypeOK, ClientInv, NEW v \in VConns, Handler(v)
    PROVE  ClientInv' /\ ClientTypes'
<1>. EngineTypes /\ ClientTypes
  BY Parts
<1>. USE DEF Served
<1>0. UNCHANGED <<run, link, table, who, msg, live>>
  BY DEF Handler, ReadFrame, ReadEOF, HandleHello, Exit, Broadcast, WriteManifest, DropPeer,
         clientVars
<1>1. ASSUME Engine!ReadHello(v) \/ Engine!ReadFails(v) PROVE EngineOnly
  BY <1>1 DEF EngineOnly, Engine!ReadHello, Engine!ReadFails, Engine!Goto, EngineTypes
<1>2. ASSUME UNCHANGED <<pc, conn, id>> PROVE EngineOnly
  BY <1>2 DEF EngineOnly
<1>3. ASSUME Engine!HandleHello(v) PROVE EngineOnly
  <2>1. id' = id /\ pc[v] = "rehello" /\ pc' = [pc EXCEPT ![v] = "run"]
    BY <1>3 DEF Engine!HandleHello, Engine!Goto
  <2>2. \A w \in VConns : conn'[w] = "open" => conn[w] = "open"
    BY <1>3 DEF Engine!HandleHello, Engine!AddPeer, EngineTypes
  <2>. QED
    BY <2>1, <2>2 DEF EngineOnly, EngineTypes
<1>4. ASSUME Engine!Exit(v) PROVE EngineOnly
  <2>1. id' = id /\ pc[v] = "exit" /\ pc' = [pc EXCEPT ![v] = "done"]
    BY <1>4 DEF Engine!Exit, Engine!Goto
  <2>2. \A w \in VConns : conn'[w] = "open" => conn[w] = "open"
    BY <1>4 DEF Engine!Exit, Engine!RemovePeer, EngineTypes
  <2>. QED
    BY <2>1, <2>2 DEF EngineOnly, EngineTypes
<1>5. ASSUME Engine!DropPeer(v) PROVE EngineOnly
  <2>1. id' = id /\ pc' = pc
    BY <1>5 DEF Engine!DropPeer
  <2>2. \A w \in VConns : conn'[w] = "open" => conn[w] = "open"
    BY <1>5 DEF Engine!DropPeer, Engine!RemovePeer, EngineTypes
  <2>. QED
    BY <2>1, <2>2 DEF EngineOnly
<1>6. ASSUME ReadFrame(v) \/ ReadEOF(v) PROVE EngineOnly
  BY <1>1, <1>2, <1>6 DEF ReadFrame, ReadEOF, engineVars
<1>7. ASSUME Broadcast(v) \/ WriteManifest(v) PROVE EngineOnly
  BY <1>2, <1>7 DEF Broadcast, WriteManifest, Engine!Broadcast, Engine!WriteManifest
<1>8. EngineOnly
  BY <1>3, <1>4, <1>5, <1>6, <1>7 DEF Handler, HandleHello, Exit, DropPeer
<1>. QED
  BY <1>0, <1>8, EngineOnlyKeeps DEF ClientTypes

\* Run leaves the engine and the table alone.
LEMMA RunOnlyKeeps ==
    ASSUME TypeOK, ClientInv, UNCHANGED <<pc, conn, id, table, live>>, RunInv',
           run = "attach" => run' = "attach" /\ who' = who
    PROVE  ClientInv'
<1>1. TableInv' /\ OpenInv'
  BY DEF ClientInv, TableInv, OpenInv
<1>2. AttachInv'
  BY DEF ClientInv, AttachInv
<1>. QED
  BY <1>1, <1>2 DEF ClientInv

\* A virtual connection, if there is one, is closed and forgotten.
LEMMA ForgetKeeps ==
    ASSUME TypeOK, ClientInv, NEW p \in PeerIDs, Shut(table[p]),
           table' = [table EXCEPT ![p] = None], UNCHANGED <<pc, id, live>>, RunInv',
           run # "attach"
    PROVE  ClientInv'
<1>. EngineTypes /\ ClientTypes
  BY Parts
<1>1. table'[p] = None /\ \A q \in PeerIDs \ {p} : table'[q] = table[q]
  BY DEF ClientTypes
<1>2. TableInv'
  BY <1>1 DEF ClientInv, TableInv
<1>3. AttachInv'
  BY DEF ClientInv, AttachInv
<1>4. OpenInv'
  <2>. SUFFICES ASSUME NEW v \in VConns, conn'[v] = "open"
                PROVE  pc[v] # "none" /\ v \in live /\ table'[id[v]] = v
    BY DEF OpenInv
  <2>1. conn[v] = "open" /\ v # table[p]
    BY RelayClientAssumption DEF Shut, EngineTypes, ClientTypes
  <2>2. pc[v] # "none" /\ v \in live /\ table[id[v]] = v
    BY <2>1 DEF ClientInv, OpenInv
  <2>3. id[v] \in PeerIDs
    BY <2>2 DEF EngineTypes
  <2>. QED
    BY <1>1, <2>1, <2>2, <2>3
<1>. QED
  BY <1>2, <1>3, <1>4 DEF ClientInv

LEMMA FrameKeeps ==
    ASSUME TypeOK, ClientInv,
           \/ Dial \/ Register \/ ReadError \/ Deliver
           \/ \E p \in PeerIDs : PeerJoin(p) \/ PeerLeave(p) \/ CloseOne(p)
           \/ \E p \in PeerIDs, f \in Frames : PeerData(p, f)
    PROVE  ClientInv' /\ ClientTypes'
<1>. EngineTypes /\ ClientTypes /\ RunInv
  BY Parts DEF ClientInv
<1>. USE DEF engineVars
<1>1. CASE Dial
  <2>1. table' = table
    BY <1>1 DEF Dial, RunInv, ClientTypes
  <2>2. RunInv'
    BY <1>1 DEF Dial, RunInv
  <2>. QED
    BY <1>1, <2>1, <2>2, RunOnlyKeeps DEF Dial, ClientTypes
<1>2. CASE Register \/ ReadError
  <2>1. RunInv'
    BY <1>2 DEF Register, ReadError, RunInv
  <2>. QED
    BY <1>2, <2>1, RunOnlyKeeps DEF Register, ReadError, ClientTypes
<1>3. CASE Deliver
  <2>1. RunInv'
    BY <1>3 DEF Deliver, NextFrame, RunInv
  <2>. QED
    BY <1>3, <2>1, RunOnlyKeeps DEF Deliver, NextFrame, ClientTypes
<1>4. ASSUME NEW p \in PeerIDs, PeerJoin(p) PROVE ClientInv' /\ ClientTypes'
  <2>1. table' \in [PeerIDs -> VConns \cup {None}] /\ table'[p] = None
    BY <1>4 DEF PeerJoin, ClientTypes
  <2>2. RunInv'
    BY <1>4, <2>1 DEF PeerJoin, RunInv
  <2>. QED
    BY <1>4, <2>1, <2>2, ForgetKeeps DEF PeerJoin, ClientTypes
<1>5. ASSUME NEW p \in PeerIDs, PeerLeave(p) \/ CloseOne(p) PROVE ClientInv' /\ ClientTypes'
  <2>1. table' \in [PeerIDs -> VConns \cup {None}] /\ run' = run /\ run \in {"loop", "closing"}
    BY <1>5 DEF PeerLeave, CloseOne, ClientTypes
  <2>2. RunInv'
    BY <2>1 DEF RunInv
  <2>. QED
    BY <1>5, <2>1, <2>2, ForgetKeeps DEF PeerLeave, CloseOne, ClientTypes
<1>6. ASSUME NEW p \in PeerIDs, NEW f \in Frames, PeerData(p, f) PROVE ClientInv' /\ ClientTypes'
  <2>1. RunInv'
    BY <1>6, RelayClientAssumption DEF PeerData, RunInv
  <2>. QED
    BY <1>6, <2>1, RunOnlyKeeps DEF PeerData, ClientTypes
<1>. QED
  BY <1>1, <1>2, <1>3, <1>4, <1>5, <1>6

\* closeAll has closed every connection of the table, and there is no other.
LEMMA ClosedKeeps ==
    ASSUME TypeOK, ClientInv, Closed
    PROVE  ClientInv' /\ ClientTypes'
<1>. EngineTypes /\ ClientTypes
  BY Parts
<1>. USE DEF engineVars
<1>1. \A v \in VConns : conn[v] # "open"
  <2>. SUFFICES ASSUME NEW v \in VConns, conn[v] = "open" PROVE FALSE
    OBVIOUS
  <2>1. pc[v] # "none" /\ table[id[v]] = v
    BY DEF ClientInv, OpenInv
  <2>2. id[v] \in PeerIDs
    BY <2>1 DEF EngineTypes
  <2>. QED
    BY <2>1, <2>2, RelayClientAssumption DEF Closed
<1>2. RunInv' /\ TableInv'
  BY DEF Closed, RunInv, TableInv
<1>3. AttachInv' /\ OpenInv'
  BY <1>1 DEF Closed, ClientInv, AttachInv, OpenInv
<1>. QED
  BY <1>2, <1>3 DEF ClientInv, Closed, ClientTypes

\* A new connection: Run is its only owner until it is attached.
LEMMA NewVirtualConnKeeps ==
    ASSUME TypeOK, ClientInv, NEW v \in VConns, NewVirtualConn(v)
    PROVE  ClientInv' /\ ClientTypes'
<1>. EngineTypes /\ ClientTypes
  BY Parts
<1>1. /\ run = "join" /\ run' = "attach" /\ who \in PeerIDs /\ who' = who /\ table[who] = None
      /\ pc[v] = "none" /\ live' = live \cup {v}
  BY DEF NewVirtualConn, Engine!RelayPeer, ClientInv, RunInv
<1>2. table'[who] = v /\ \A p \in PeerIDs \ {who} : table'[p] = table[p]
  BY <1>1 DEF NewVirtualConn, ClientTypes
<1>3. /\ pc'[v] = "hello" /\ id'[v] = who
      /\ \A w \in VConns \ {v} : pc'[w] = pc[w] /\ id'[w] = id[w] /\ conn'[w] = conn[w]
  BY DEF NewVirtualConn, Engine!RelayPeer, Engine!Goto, EngineTypes
<1>4. \A p \in PeerIDs : table[p] # v
  BY <1>1, RelayClientAssumption DEF ClientInv, TableInv
<1>5. RunInv'
  BY <1>1, <1>2, <1>3, RelayClientAssumption DEF RunInv, Setup
<1>6. TableInv'
  BY <1>1, <1>2, <1>3, <1>4 DEF ClientInv, TableInv, ClientTypes
<1>7. AttachInv'
  BY <1>1, <1>2, <1>3 DEF ClientInv, AttachInv
<1>8. OpenInv'
  <2>. SUFFICES ASSUME NEW w \in VConns, conn'[w] = "open"
                PROVE  pc'[w] # "none" /\ w \in live' /\ table'[id'[w]] = w
    BY DEF OpenInv
  <2>1. CASE w = v
    BY <1>1, <1>2, <1>3, <2>1
  <2>2. CASE w # v
    <3>1. conn[w] = "open" /\ pc'[w] = pc[w] /\ id'[w] = id[w]
      BY <1>3, <2>2
    <3>2. pc[w] # "none" /\ w \in live /\ table[id[w]] = w
      BY <3>1 DEF ClientInv, OpenInv
    <3>3. id[w] \in PeerIDs
      BY <3>2 DEF EngineTypes
    <3>. QED
      BY <1>1, <1>2, <3>1, <3>2, <3>3, RelayClientAssumption
  <2>. QED
    BY <2>1, <2>2
<1>9. ClientTypes'
  BY <1>1 DEF NewVirtualConn, ClientTypes
<1>. QED
  BY <1>5, <1>6, <1>7, <1>8, <1>9 DEF ClientInv

\* ConnectPeer: what happens to the connection that is attached.
LEMMA AttachKeeps ==
    ASSUME TypeOK, ClientInv, SendHello \/ ConnectPeer
    PROVE  ClientInv' /\ ClientTypes'
<1>. EngineTypes /\ ClientTypes
  BY Parts
<1>. DEFINE v == table[who]
<1>1. run = "attach" /\ who \in PeerIDs /\ v \in VConns /\ pc[v] \in Setup
  BY DEF SendHello, ConnectPeer, ClientInv, RunInv, ClientTypes
<1>2. UNCHANGED <<link, table, live, id>>
  BY DEF SendHello, ConnectPeer, Engine!SendHello, Engine!Register, Engine!Started
<1>3. \A w \in VConns : conn'[w] = "open" => conn[w] = "open"
  BY DEF SendHello, ConnectPeer, Engine!SendHello, Engine!Register, Engine!AddPeer, EngineTypes
<1>4. /\ pc'[v] \in {"add", "run", "done"}
      /\ \A w \in VConns \ {v} : pc'[w] = pc[w]
  BY <1>1 DEF SendHello, ConnectPeer, Engine!SendHello, Engine!Register, Engine!Started,
              Engine!Goto, EngineTypes
<1>5. \/ pc'[v] = "add" /\ UNCHANGED <<run, who, msg>>
      \/ pc'[v] # "add" /\ Attached
  BY <1>1 DEF SendHello, ConnectPeer, Engine!Register, Engine!Started, Engine!Goto, EngineTypes
<1>6. RunInv' /\ ClientTypes'
  <2>1. CASE pc'[v] = "add" /\ UNCHANGED <<run, who, msg>>
    BY <1>1, <1>2, <2>1 DEF ClientInv, RunInv, ClientTypes, Setup
  <2>2. CASE Attached
    BY <1>1, <1>2, <2>2, RelayClientAssumption
       DEF Attached, NextFrame, ClientInv, RunInv, ClientTypes
  <2>. QED
    BY <1>5, <2>1, <2>2
<1>7. \A w \in VConns : pc'[w] = "none" <=> pc[w] = "none"
  BY <1>1, <1>4 DEF Setup
<1>8. TableInv'
  BY <1>2, <1>7 DEF ClientInv, TableInv, ClientTypes
<1>9. OpenInv'
  BY <1>2, <1>3, <1>7 DEF ClientInv, OpenInv
<1>10. AttachInv'
  <2>1. \A w \in VConns \ {v} : pc'[w] \notin Setup
    BY <1>4 DEF ClientInv, AttachInv
  <2>2. pc'[v] \in Setup => UNCHANGED <<run, who>>
    BY <1>4, <1>5 DEF Setup
  <2>. QED
    BY <1>1, <1>2, <2>1, <2>2 DEF AttachInv
<1>. QED
  BY <1>6, <1>8, <1>9, <1>10 DEF ClientInv

-----------------------------------------------------------------------------
(* What it comes to *)

IndInv == TypeOK /\ EngineInv /\ ClientInv

LEMMA NextKeeps == IndInv /\ [Next]_vars => IndInv'
<1>. SUFFICES ASSUME IndInv, [Next]_vars PROVE IndInv'
  OBVIOUS
<1>. TypeOK /\ EngineInv /\ ClientInv /\ RunInv
  BY DEF IndInv, ClientInv
<1>1. EngineTypes' /\ EngineInv'
  BY NextIsAllowed, EngineKeeps
<1>2. QueueTypes'
  BY QueuesTyped
<1>3. ClientInv' /\ ClientTypes'
  <2>1. CASE Reader
    BY <2>1, FrameKeeps, ClosedKeeps, NewVirtualConnKeeps, AttachKeeps DEF Reader
  <2>2. CASE LinkBreaks \/ UNCHANGED vars
    <3>1. UNCHANGED <<pc, conn, id, table, live, run, who, msg>>
      BY <2>2 DEF LinkBreaks, vars, clientVars, engineVars
    <3>2. RunInv'
      BY <3>1 DEF RunInv
    <3>3. ClientTypes'
      BY <2>2, Parts DEF ClientTypes, LinkBreaks, vars, clientVars
    <3>. QED
      BY <3>1, <3>2, <3>3, RunOnlyKeeps
  <2>. QED
    BY <2>1, <2>2, HandlerKeeps DEF Next
<1>. QED
  BY <1>1, <1>2, <1>3, PartsNext DEF IndInv

LEMMA InitEstablishes == Init => IndInv
<1>. SUFFICES ASSUME Init PROVE IndInv
  OBVIOUS
<1>1. EngineTypes /\ ClientTypes
  BY DEF Init, EngineTypes, ClientTypes
<1>2. QueueTypes
  BY RelayClientAssumption DEF Init, QueueTypes
<1>3. EngineInv
  BY DEF Init, EngineInv, Engine!ListedOrClosed, Engine!ListedHasReader, Engine!Ids
<1>4. ClientInv
  BY DEF Init, ClientInv, RunInv, TableInv, AttachInv, OpenInv, Setup
<1>. QED
  BY <1>1, <1>2, <1>3, <1>4, Parts DEF IndInv

LEMMA Invariance == Spec => []IndInv
  BY InitEstablishes, NextKeeps, PTL DEF Spec

(***************************************************************************)
(* The client's variables keep their types: Run delivers only frames, to   *)
(* connections that exist, and no queue holds more than its capacity.      *)
(***************************************************************************)
THEOREM TypeCorrect == Spec => []TypeOK
  BY Invariance, PTL DEF IndInv

(***************************************************************************)
(* However joins, leaves, lost links and the engine's own closes follow    *)
(* each other, an open virtual connection is the one that the client has   *)
(* under its peer's ID: it gets the peer's data, and closeAll closes it.   *)
(***************************************************************************)
THEOREM OpenAreMapped == Spec => []OpenIsMapped
<1>1. IndInv => OpenIsMapped
  BY DEF IndInv, ClientInv, OpenInv, OpenIsMapped
<1>. QED
  BY <1>1, Invariance, PTL

(***************************************************************************)
(* A virtual connection that is open and attached has a HandleIncoming, so *)
(* deliver, on which every other peer waits, waits for somebody who reads. *)
(***************************************************************************)
THEOREM QueuesAreDrained == Spec => []QueueIsDrained
<1>1. IndInv => QueueIsDrained
  <2>. SUFFICES ASSUME IndInv, NEW p \in PeerIDs, table[p] # None, conn[table[p]] = "open",
                       ~(run = "attach" /\ who = p)
                PROVE  pc[table[p]] \in {"run", "rehello", "exit"}
    BY DEF QueueIsDrained
  <2>. DEFINE v == table[p]
  <2>. EngineTypes /\ ClientTypes /\ ClientInv /\ EngineInv
    BY Parts DEF IndInv
  <2>1. v \in VConns /\ pc[v] # "none" /\ id[v] = p
    BY DEF ClientInv, TableInv, ClientTypes
  <2>2. pc[v] \notin Setup
    <3>. SUFFICES ASSUME pc[v] \in Setup PROVE FALSE
      OBVIOUS
    <3>1. run = "attach" /\ table[who] = v
      BY <2>1 DEF ClientInv, AttachInv
    <3>2. who \in PeerIDs /\ id[table[who]] = who
      BY <2>1, <3>1, RelayClientAssumption DEF ClientInv, RunInv, TableInv
    <3>. QED
      BY <2>1, <3>1, <3>2
  <2>3. pc[v] # "done"
    <3>. SUFFICES ASSUME pc[v] = "done" PROVE FALSE
      OBVIOUS
    <3>1. peers[p] = v
      BY <2>1 DEF EngineInv, Engine!ListedOrClosed
    <3>. QED
      BY <2>1, <3>1, RelayClientAssumption DEF EngineInv, Engine!ListedHasReader, Engine!Ids
  <2>. QED
    BY <2>1, <2>2, <2>3 DEF EngineTypes, Setup
<1>. QED
  BY <1>1, Invariance, PTL

(***************************************************************************)
(* The engine with the relay client behaves as PeerTable specifies: every  *)
(* step of the client is a step of the engine's peers or invisible there.  *)
(***************************************************************************)
THEOREM EngineIsImplemented == Spec => EngineSpec
<1>1. Init => Engine!Init
  BY DEF Init, Engine!Init, Engine!Ids
<1>2. IndInv /\ [Next]_vars => [Engine!Next]_Engine!vars
  BY NextIsAllowed DEF IndInv, ClientInv
<1>. QED
  BY <1>1, <1>2, Invariance, PTL DEF Spec, EngineSpec, Engine!Spec

(***************************************************************************)
(* So what holds of the peer table holds for relay peers: no virtual       *)
(* connection leaks from it, and every registered one has a reader.        *)
(***************************************************************************)
THEOREM RelayPeersDoNotLeak == Spec => [](Engine!ListedOrClosed /\ Engine!ListedHasReader)
  BY Invariance, PTL DEF IndInv, EngineInv
=============================================================================
