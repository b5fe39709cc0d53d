---------------------------- MODULE RelayClient ----------------------------
(***************************************************************************)
(* The relay client of one sync group (internal/relay/client.go and        *)
(* virtual_conn.go, started by startRelay of internal/app/app.go) together *)
(* with the group's engine, whose side is PeerTable: every virtual         *)
(* connection is a connection of the engine.                               *)
(*                                                                         *)
(* One goroutine, Client.Run, reads the link to the relay, keeps the table *)
(* of virtual connections, attaches new ones to the engine (ConnectPeer),  *)
(* and delivers data into their bounded queues, which HandleIncoming       *)
(* goroutines drain.  Engine and client close virtual connections without  *)
(* telling each other.                                                     *)
(***************************************************************************)
EXTENDS Integers, Sequences

CONSTANTS
    VConns,     \* virtual connections, each used once
    PeerIDs,    \* the other peers of the room
    Frames,     \* what remote peers send: "hello", "data", "bad" (malformed)
    QueueCap,   \* capacity of virtualConn.incoming (256) and readBuf
    None

ASSUME RelayClientAssumption ==
    /\ None \notin VConns /\ None \notin PeerIDs /\ None \notin Frames
    /\ Frames \subseteq {"hello", "data", "bad"}
    /\ QueueCap \in Nat \ {0}

VARIABLES
    pc, conn, id, peers, sender,  \* as in PeerTable; "broken": closed by the client
    run,       \* where Client.Run is
    link,      \* Client.conn: "down" (nil), "up", "broken"
    table,     \* Client.peers
    who,       \* the remote peer whose frame Run is handling
    msg,       \* the frame to deliver to it, None for a PEER_JOIN
    live,      \* virtual connections made by the present Client
    queue      \* queue[v]: virtualConn.incoming and readBuf

engineVars == <<pc, conn, id, peers, sender>>
clientVars == <<run, link, table, who, msg, live, queue>>
vars == <<engineVars, clientVars>>

\* The engine: no dialled peers, and every connection goes through the relay.
Engine == INSTANCE PeerTable WITH
    Conns <- VConns, Addrs <- {}, dialing <- {}, relayed <- {v \in VConns : pc[v] # "none"}

TypeOK ==
    /\ Engine!TypeOK
    /\ run \in {"down", "auth", "loop", "join", "attach", "deliver", "closing"}
    /\ link \in {"down", "up", "broken"} /\ (link = "down" <=> run = "down")
    /\ table \in [PeerIDs -> VConns \cup {None}]
    /\ who \in PeerIDs \cup {None} /\ msg \in Frames \cup {None}
    /\ live \in SUBSET VConns
    /\ queue \in [VConns -> Seq(Frames)] /\ \A v \in VConns : Len(queue[v]) <= QueueCap

\* Client.mu is held, so that sendData waits.
Locked == run \in {"join", "closing"}

\* virtualConn.Close by the client of the connection x, if there is one.
Shut(x) ==
    conn' = IF x # None /\ conn[x] = "open" THEN [conn EXCEPT ![x] = "broken"] ELSE conn

-----------------------------------------------------------------------------
(* Client.Run: connecting *)

\* startRelay makes a new Client, and transport.Dial succeeds.
Dial ==
    /\ run = "down"
    /\ run' = "auth" /\ link' = "up"
    /\ table' = [p \in PeerIDs |-> None]
    /\ UNCHANGED <<engineVars, who, msg, live, queue>>

\* AUTH was answered with AUTH_OK, REGISTER is written.
Register ==
    /\ run = "auth"
    /\ run' = "loop"
    /\ UNCHANGED <<engineVars, link, table, who, msg, live, queue>>

\* The relay refuses, an ERROR frame, a read error, or 45 s without a frame:
\* Run returns, and the deferred closeAll starts.
ReadError ==
    /\ run \in {"auth", "loop"}
    /\ run' = "closing"
    /\ UNCHANGED <<engineVars, link, table, who, msg, live, queue>>

\* The link to the relay is lost; pingLoop, whose next PING cannot be written
\* then, closes it, if Run has not noticed before.
LinkBreaks ==
    /\ link = "up"
    /\ link' = "broken"
    /\ UNCHANGED <<engineVars, run, table, who, msg, live, queue>>

-----------------------------------------------------------------------------
(* Client.Run: one frame.  (A PEER_JOIN for the client itself and PINGs     *)
(* change nothing.)                                                         *)

\* A virtual connection is left to attach a peer with (a bound of the model).
Spare == \E v \in VConns : pc[v] = "none"

\* Run is done with the frame.
NextFrame == run' = "loop" /\ who' = None /\ msg' = None

\* Mutant: the connection that is replaced stays open.
JoinKeepsOld(p) ==
    /\ run = "loop" /\ Spare
    /\ run' = "join" /\ who' = p /\ msg' = None
    /\ table' = [table EXCEPT ![p] = None]
    /\ UNCHANGED <<engineVars, link, live, queue>>

\* PEER_JOIN: the peer's present connection is closed and forgotten.
PeerJoin(p) ==
    /\ run = "loop" /\ Spare
    /\ run' = "join" /\ who' = p /\ msg' = None
    /\ Shut(table[p])
    /\ table' = [table EXCEPT ![p] = None]
    /\ UNCHANGED <<pc, id, peers, sender, link, live, queue>>

\* PEER_LEAVE.
PeerLeave(p) ==
    /\ run = "loop"
    /\ Shut(table[p])
    /\ table' = [table EXCEPT ![p] = None]
    /\ UNCHANGED <<pc, id, peers, sender, run, link, who, msg, live, queue>>

\* DATA from a peer: it is attached first if it is unknown.
PeerData(p, f) ==
    /\ run = "loop" /\ (table[p] = None => Spare)
    /\ run' = IF table[p] = None THEN "join" ELSE "deliver"
    /\ who' = p /\ msg' = f
    /\ UNCHANGED <<engineVars, link, table, live, queue>>

\* newVirtualConn; ConnectPeer is called.
NewVirtualConn(v) ==
    /\ run = "join"
    /\ Engine!RelayPeer(v, who)
    /\ table' = [table EXCEPT ![who] = v]
    /\ live' = live \cup {v}
    /\ run' = "attach"
    /\ UNCHANGED <<link, who, msg, queue>>

\* ConnectPeer returns; a frame that came with the peer is delivered.
Attached ==
    IF msg = None THEN NextFrame ELSE run' = "deliver" /\ UNCHANGED <<who, msg>>

\* Mutant: ConnectPeer returns after SendHello.
SendHelloOnly ==
    /\ run = "attach"
    /\ Engine!SendHello(table[who])
    /\ pc'[table[who]] # "add" => link = "broken"
    /\ Attached
    /\ UNCHANGED <<link, table, live, queue>>

\* ConnectPeer: SendHello, which fails only if the link is lost ...
SendHello ==
    /\ run = "attach"
    /\ Engine!SendHello(table[who])
    /\ IF pc'[table[who]] = "add" THEN UNCHANGED <<run, who, msg>>
       ELSE link = "broken" /\ Attached
    /\ UNCHANGED <<link, table, live, queue>>

\* Mutant: HandleIncoming is started and AddPeer is not called.
ConnectUnlisted ==
    /\ run = "attach" /\ pc[table[who]] = "add"
    /\ pc' = [pc EXCEPT ![table[who]] = "run"]
    /\ Attached
    /\ UNCHANGED <<conn, id, peers, sender, link, table, live, queue>>

\* ... and AddPeer, go OnPeerConnected, go HandleIncoming.
ConnectPeer ==
    /\ run = "attach"
    /\ Engine!Register(table[who])
    /\ Attached
    /\ UNCHANGED <<link, table, live, queue>>

\* Mutant: the queue is not bounded.
EnqueueAlways == queue' = [queue EXCEPT ![table[who]] = Append(@, msg)]

\* The frame gets into the queue.
Enqueue ==
    /\ Len(queue[table[who]]) < QueueCap
    /\ queue' = [queue EXCEPT ![table[who]] = Append(@, msg)]

\* Mutant: deliver does not give up when the connection is closed.
DeliverOnly ==
    /\ run = "deliver" /\ Enqueue /\ NextFrame
    /\ UNCHANGED <<engineVars, link, table, live>>

\* virtualConn.deliver waits for room in the queue, unless the connection is
\* closed: then the frame may be dropped.
Deliver ==
    /\ run = "deliver"
    /\ Enqueue \/ (conn[table[who]] # "open" /\ UNCHANGED queue)
    /\ NextFrame
    /\ UNCHANGED <<engineVars, link, table, live>>

-----------------------------------------------------------------------------
(* Client.closeAll *)

\* The next virtual connection is closed ...
CloseOne(p) ==
    /\ run = "closing" /\ table[p] # None
    /\ Shut(table[p])
    /\ table' = [table EXCEPT ![p] = None]
    /\ UNCHANGED <<pc, id, peers, sender, run, link, who, msg, live, queue>>

\* ... until there are none; Client.conn is closed and nil, and startRelay
\* waits for its backoff.
Closed ==
    /\ run = "closing" /\ \A p \in PeerIDs : table[p] = None
    /\ run' = "down" /\ link' = "down" /\ live' = {}
    /\ UNCHANGED <<engineVars, table, who, msg, queue>>

-----------------------------------------------------------------------------
(* The engine's goroutines of the virtual connection v *)

\* HandleIncoming reads a frame; a malformed one ends it.
ReadFrame(v) ==
    /\ queue[v] # <<>>
    /\ queue' = [queue EXCEPT ![v] = Tail(@)]
    /\ CASE Head(queue[v]) = "hello" -> Engine!ReadHello(v)
         [] Head(queue[v]) = "bad" -> Engine!ReadFails(v)
         [] OTHER -> pc[v] = "run" /\ UNCHANGED engineVars
    /\ UNCHANGED <<run, link, table, who, msg, live>>

\* virtualConn.Read returns io.EOF.
ReadEOF(v) ==
    /\ conn[v] # "open"
    /\ Engine!ReadFails(v)
    /\ UNCHANGED clientVars

HandleHello(v) == Engine!HandleHello(v) /\ UNCHANGED clientVars

Exit(v) == Engine!Exit(v) /\ UNCHANGED clientVars

Broadcast(v) == Engine!Broadcast(v) /\ UNCHANGED clientVars

\* virtualConn.Write through sendData: it does not look whether v is closed,
\* and fails if v's Client has closed its link or the link is lost.
WriteManifest(v) ==
    /\ ~Locked
    /\ Engine!WriteManifest(v)
    /\ IF sender'[v] = "idle" THEN v \in live ELSE v \notin live \/ link = "broken"
    /\ UNCHANGED clientVars

DropPeer(v) == Engine!DropPeer(v) /\ UNCHANGED clientVars

-----------------------------------------------------------------------------
Init ==
    /\ pc = [v \in VConns |-> "none"]
    /\ conn = [v \in VConns |-> "closed"]
    /\ id = [v \in VConns |-> None]
    /\ peers = [p \in PeerIDs |-> None]
    /\ sender = [v \in VConns |-> "idle"]
    /\ run = "down" /\ link = "down"
    /\ table = [p \in PeerIDs |-> None]
    /\ who = None /\ msg = None /\ live = {}
    /\ queue = [v \in VConns |-> <<>>]

Reader ==
    \/ Dial \/ Register \/ ReadError \/ SendHello \/ ConnectPeer \/ Deliver \/ Closed
    \/ \E v \in VConns : NewVirtualConn(v)
    \/ \E p \in PeerIDs : PeerJoin(p) \/ PeerLeave(p) \/ CloseOne(p)
    \/ \E p \in PeerIDs, f \in Frames : PeerData(p, f)

Handler(v) ==
    \/ ReadFrame(v) \/ ReadEOF(v) \/ HandleHello(v) \/ Exit(v)
    \/ Broadcast(v) \/ WriteManifest(v) \/ DropPeer(v)

Next == Reader \/ LinkBreaks \/ \E v \in VConns : Handler(v)

Spec == Init /\ [][Next]_vars

(***************************************************************************)
(* Fairness: goroutines that can run do run.  Run finds out that the link  *)
(* is lost, and HandleIncoming that its connection is closed, after what   *)
(* was buffered, which is finite.  Nothing is assumed of what the relay    *)
(* sends or of when the link breaks.                                       *)
(***************************************************************************)
Fairness ==
    /\ WF_vars(Dial) /\ WF_vars(SendHello) /\ WF_vars(ConnectPeer)
    /\ WF_vars(Deliver) /\ WF_vars(Closed)
    /\ WF_vars(\E v \in VConns : NewVirtualConn(v))
    /\ \A p \in PeerIDs : WF_vars(CloseOne(p))
    /\ SF_vars(link = "broken" /\ ReadError)
    /\ \A v \in VConns :
        /\ WF_vars(ReadFrame(v)) /\ WF_vars(HandleHello(v)) /\ WF_vars(Exit(v))
        /\ SF_vars(ReadEOF(v))

FairSpec == Spec /\ Fairness

-----------------------------------------------------------------------------
(* Properties *)

(***************************************************************************)
(* An open virtual connection is the one the client has for its peer: data *)
(* of the peer reaches it, and closeAll will close it.  No HandleIncoming  *)
(* is left reading from a connection that nobody serves (client.go:        *)
(* handlePeerJoin, handlePeerLeave, closeAll).                             *)
(***************************************************************************)
OpenIsMapped ==
    \A v \in VConns : conn[v] = "open" => v \in live /\ table[id[v]] = v

(***************************************************************************)
(* deliver holds up the only reader of the link, and with it every peer:   *)
(* an open virtual connection that is attached has a HandleIncoming that   *)
(* drains its queue or is about to close it.  It takes the engine's        *)
(* RemovePeer, which closes by ID, for this to hold.                       *)
(***************************************************************************)
QueueIsDrained ==
    \A p \in PeerIDs :
        table[p] # None /\ conn[table[p]] = "open" /\ ~(run = "attach" /\ who = p) =>
            pc[table[p]] \in {"run", "rehello", "exit"}

(***************************************************************************)
(* A lost link is noticed, whatever Run is doing when it is lost, so that  *)
(* startRelay can connect again (client.go: Run, deliver, closeAll).       *)
(***************************************************************************)
LinkLossNoticed == link = "broken" ~> link # "broken"

(***************************************************************************)
(* Seen from the engine, virtual connections behave as PeerTable allows,   *)
(* so that what holds there holds for them.                                *)
(***************************************************************************)
EngineSpec == Engine!Spec

\* No goroutine is in the middle of something.
Quiet ==
    /\ run = "loop"
    /\ \A v \in VConns :
        /\ sender[v] = "idle"
        /\ pc[v] \in {"none", "run", "done"} /\ (pc[v] = "run" => conn[v] = "open")

(***************************************************************************)
(* README: "Peers in the same name + sync_key room are connected through   *)
(* the relay automatically": while the link is up, a peer the relay has    *)
(* announced is a peer of the engine.                                      *)
(***************************************************************************)
AnnouncedIsConnected ==
    Quiet /\ link = "up" => \A p \in PeerIDs : peers[p] = table[p]
=============================================================================
