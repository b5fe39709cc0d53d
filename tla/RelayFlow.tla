----------------------------- MODULE RelayFlow -----------------------------
(***************************************************************************)
(* Who waits for whom when files go through the relay: sendFiles and       *)
(* receiveFile of the engines (internal/sync/engine.go), virtual           *)
(* connections with bounded queues (internal/relay/virtual_conn.go), the   *)
(* client's reader and its PINGs (internal/relay/client.go), and the       *)
(* server's read loops, which write to other clients while they hold the   *)
(* room's lock (internal/relay/server.go).  Every buffer is finite, and no *)
(* write has a deadline.                                                   *)
(*                                                                         *)
(* The clients are connected and stay so; RelayServer and RelayClient have *)
(* joins and losses.  A writer that holds writeMu and waits for the socket *)
(* is one that waits for the socket: whoever else wants writeMu wants the  *)
(* same socket.  Frames are counted, not their bytes: a file is one CHUNK. *)
(* Time is not modelled: no read deadline (45 s at both ends) runs out.    *)
(***************************************************************************)
EXTENDS Integers, Sequences

CONSTANTS
    Clients,
    Sends,      \* <<f, t>>: the engine of f is sending files to the one of t
    Loads,      \* functions from Sends to the numbers of files of one NEED
    QueueCap,   \* capacity of virtualConn.incoming (256)
    SocketCap,  \* frames that fit into a socket's buffers
    MaxTicks,   \* bound on the ticks of all tickers
    None

Ping == [kind |-> "PING"]
Frame(f, t, what) == [kind |-> "DATA", from |-> f, to |-> t, what |-> what]
Data == {Frame(f, t, w) : f \in Clients, t \in Clients, w \in {"CHUNK", "APPLY_OK"}}

ASSUME RelayFlowAssumption ==
    /\ None \notin Clients /\ None \notin Data \cup {Ping}
    /\ Sends \subseteq {s \in Clients \X Clients : s[1] # s[2] /\ <<s[2], s[1]>> \notin Sends}
    /\ Loads \subseteq [Sends -> Nat] /\ QueueCap \in Nat \ {0} /\ SocketCap \in Nat \ {0}
    /\ MaxTicks \in Nat

VARIABLES
    left,   \* left[s]: files that sendFiles has not written yet
    want,   \* want[s]: files that applyManifest has not acknowledged yet
    ack,    \* the transfers whose receiver is about to write APPLY_OK
    up,     \* up[c]: frames in the socket from client c to the server
    down,   \* down[c]: frames in the socket from the server to c
    queue,  \* queue[c][p]: virtualConn.incoming of c for its peer p
    hand,   \* hand[c]: the frame that Client.Run of c has read and must deliver
    held,   \* held[c]: the frame that the server's readLoop for c has read
    lock,   \* room.mu: the client whose readLoop has it
    ping,   \* clients whose ticker has ticked: pingLoop is about to write a PING
    ticks   \* number of ticks

vars == <<left, want, ack, up, down, queue, hand, held, lock, ping, ticks>>

TypeOK ==
    /\ left \in [Sends -> Nat] /\ want \in [Sends -> Nat] /\ ack \subseteq Sends
    /\ up \in [Clients -> Seq(Data \cup {Ping})] /\ down \in [Clients -> Seq(Data \cup {Ping})]
    /\ queue \in [Clients -> [Clients -> Seq(Data)]]
    /\ \A c \in Clients : Len(up[c]) <= SocketCap /\ Len(down[c]) <= SocketCap
    /\ \A c, p \in Clients : Len(queue[c][p]) <= QueueCap
    /\ hand \in [Clients -> Data \cup {None}] /\ held \in [Clients -> Data \cup {Ping, None}]
    /\ lock \in Clients \cup {None} /\ ping \subseteq Clients /\ ticks \in 0 .. MaxTicks

Room(socket) == Len(socket) < SocketCap
Write(c, frame) == Room(up[c]) /\ up' = [up EXCEPT ![c] = Append(@, frame)]

-----------------------------------------------------------------------------
(* The engines *)

\* sendFiles writes the next CHUNK; until the last one it reads nothing.
SendChunk(s) ==
    /\ left[s] > 0
    /\ Write(s[1], Frame(s[1], s[2], "CHUNK"))
    /\ left' = [left EXCEPT ![s] = @ - 1]
    /\ UNCHANGED <<want, ack, down, queue, hand, held, lock, ping, ticks>>

\* Then HandleIncoming reads, and drops, the APPLY_OKs.
ReadApplyOK(s) ==
    /\ left[s] = 0 /\ queue[s[1]][s[2]] # <<>>
    /\ queue' = [queue EXCEPT ![s[1]][s[2]] = Tail(@)]
    /\ UNCHANGED <<left, want, ack, up, down, hand, held, lock, ping, ticks>>

\* receiveFile stores the CHUNK it waits for ...
ReceiveChunk(s) ==
    /\ want[s] > 0 /\ s \notin ack /\ queue[s[2]][s[1]] # <<>>
    /\ queue' = [queue EXCEPT ![s[2]][s[1]] = Tail(@)]
    /\ ack' = ack \cup {s}
    /\ UNCHANGED <<left, want, up, down, hand, held, lock, ping, ticks>>

\* ... and writes APPLY_OK.
WriteApplyOK(s) ==
    /\ s \in ack
    /\ Write(s[2], Frame(s[2], s[1], "APPLY_OK"))
    /\ ack' = ack \ {s} /\ want' = [want EXCEPT ![s] = @ - 1]
    /\ UNCHANGED <<left, down, queue, hand, held, lock, ping, ticks>>

-----------------------------------------------------------------------------
(* The relay client *)

\* Another 15 s have passed; a tick that nobody has taken yet is not repeated.
Tick(c) ==
    /\ c \notin ping /\ ticks < MaxTicks
    /\ ping' = ping \cup {c} /\ ticks' = ticks + 1
    /\ UNCHANGED <<left, want, ack, up, down, queue, hand, held, lock>>

\* pingLoop
WritePing(c) ==
    /\ c \in ping
    /\ Write(c, Ping)
    /\ ping' = ping \ {c}
    /\ UNCHANGED <<left, want, ack, down, queue, hand, held, lock, ticks>>

\* Mutant: a PING is answered by a PING, as HandleIncoming does.
ReadAndAnswer(c) ==
    /\ hand[c] = None /\ down[c] # <<>>
    /\ down' = [down EXCEPT ![c] = Tail(@)]
    /\ hand' = [hand EXCEPT ![c] = IF Head(down[c]) = Ping THEN None ELSE Head(down[c])]
    /\ ping' = IF Head(down[c]) = Ping THEN ping \cup {c} ELSE ping
    /\ UNCHANGED <<left, want, ack, up, queue, held, lock, ticks>>

\* Client.Run reads a frame, and is done with it if it is a PING.
ReadFrame(c) ==
    /\ hand[c] = None /\ down[c] # <<>>
    /\ down' = [down EXCEPT ![c] = Tail(@)]
    /\ hand' = [hand EXCEPT ![c] = IF Head(down[c]) = Ping THEN None ELSE Head(down[c])]
    /\ UNCHANGED <<left, want, ack, up, queue, held, lock, ping, ticks>>

\* Mutant: deliver appends to a queue without a limit.
DeliverAlways(c) ==
    /\ hand[c] # None
    /\ queue' = [queue EXCEPT ![c][hand[c].from] = Append(@, hand[c])]
    /\ hand' = [hand EXCEPT ![c] = None]
    /\ UNCHANGED <<left, want, ack, up, down, held, lock, ping, ticks>>

\* Mutant: deliver gives up the frame if the queue is full.
DeliverOrDrop(c) ==
    /\ hand[c] # None
    /\ queue' = IF Len(queue[c][hand[c].from]) < QueueCap
                THEN [queue EXCEPT ![c][hand[c].from] = Append(@, hand[c])] ELSE queue
    /\ hand' = [hand EXCEPT ![c] = None]
    /\ UNCHANGED <<left, want, ack, up, down, held, lock, ping, ticks>>

\* handleData: deliver waits for a place in the queue of the peer.
Deliver(c) ==
    /\ hand[c] # None
    /\ Len(queue[c][hand[c].from]) < QueueCap
    /\ queue' = [queue EXCEPT ![c][hand[c].from] = Append(@, hand[c])]
    /\ hand' = [hand EXCEPT ![c] = None]
    /\ UNCHANGED <<left, want, ack, up, down, held, lock, ping, ticks>>

-----------------------------------------------------------------------------
(* The relay server *)

\* readLoop reads the next frame of c.
ServerRead(c) ==
    /\ held[c] = None /\ up[c] # <<>>
    /\ held' = [held EXCEPT ![c] = Head(up[c])]
    /\ up' = [up EXCEPT ![c] = Tail(@)]
    /\ UNCHANGED <<left, want, ack, down, queue, hand, lock, ping, ticks>>

\* A PING is answered, under the member's writeMu only.
Pong(c) ==
    /\ held[c] = Ping /\ Room(down[c])
    /\ down' = [down EXCEPT ![c] = Append(@, Ping)]
    /\ held' = [held EXCEPT ![c] = None]
    /\ UNCHANGED <<left, want, ack, up, queue, hand, lock, ping, ticks>>

\* forward takes the room's lock ...
LockRoom(c) ==
    /\ held[c] \notin {None, Ping} /\ lock = None
    /\ lock' = c
    /\ UNCHANGED <<left, want, ack, up, down, queue, hand, held, ping, ticks>>

\* ... and keeps it until the frame is in the socket of the target.
Forward(c) ==
    /\ lock = c /\ Room(down[held[c].to])
    /\ down' = [down EXCEPT ![held[c].to] = Append(@, held[c])]
    /\ held' = [held EXCEPT ![c] = None]
    /\ lock' = None
    /\ UNCHANGED <<left, want, ack, up, queue, hand, ping, ticks>>

-----------------------------------------------------------------------------
Step(c) == WritePing(c) \/ ReadFrame(c) \/ Deliver(c) \/ ServerRead(c) \/ Pong(c)
           \/ LockRoom(c) \/ Forward(c)
Transfer(s) == SendChunk(s) \/ ReadApplyOK(s) \/ ReceiveChunk(s) \/ WriteApplyOK(s)

\* When a goroutine of c or of the server's loop for c, or one of the engines of
\* s, is not waiting: one of the actions above is enabled.
CanStep(c) ==
    \/ c \in ping /\ Room(up[c])
    \/ hand[c] = None /\ down[c] # <<>>
    \/ hand[c] # None /\ Len(queue[c][hand[c].from]) < QueueCap
    \/ held[c] = None /\ up[c] # <<>>
    \/ held[c] = Ping /\ Room(down[c])
    \/ held[c] \notin {None, Ping} /\ lock = None
    \/ lock = c /\ Room(down[held[c].to])
CanTransfer(s) ==
    \/ left[s] > 0 /\ Room(up[s[1]])
    \/ left[s] = 0 /\ queue[s[1]][s[2]] # <<>>
    \/ want[s] > 0 /\ s \notin ack /\ queue[s[2]][s[1]] # <<>>
    \/ s \in ack /\ Room(up[s[2]])

Init ==
    /\ left \in Loads /\ want = left /\ ack = {}
    /\ up = [c \in Clients |-> <<>>] /\ down = [c \in Clients |-> <<>>]
    /\ queue = [c \in Clients |-> [p \in Clients |-> <<>>]]
    /\ hand = [c \in Clients |-> None] /\ held = [c \in Clients |-> None]
    /\ lock = None
    /\ ping = {} /\ ticks = 0

Next == (\E c \in Clients : Tick(c) \/ Step(c)) \/ (\E s \in Sends : Transfer(s))

Spec == Init /\ [][Next]_vars

\* Each goroutine that can go on does; tickers owe nothing.
FairSpec ==
    /\ Spec
    /\ \A s \in Sends : WF_vars(SendChunk(s) \/ ReadApplyOK(s))
                       /\ WF_vars(ReceiveChunk(s) \/ WriteApplyOK(s))
    /\ \A c \in Clients :
        /\ WF_vars(WritePing(c)) /\ WF_vars(ReadFrame(c) \/ Deliver(c))
        /\ WF_vars(ServerRead(c) \/ Pong(c) \/ LockRoom(c) \/ Forward(c))

-----------------------------------------------------------------------------
(* Properties *)

\* All files are sent, stored and acknowledged, all PINGs are answered, and
\* nothing is left in any buffer.
AllDone ==
    /\ \A s \in Sends : left[s] = 0 /\ want[s] = 0 /\ s \notin ack
    /\ \A c \in Clients :
        /\ up[c] = <<>> /\ down[c] = <<>> /\ hand[c] = None /\ held[c] = None /\ c \notin ping
    /\ \A s \in Sends : queue[s[1]][s[2]] = <<>> /\ queue[s[2]][s[1]] = <<>>

\* Nobody can take a step until a ticker ticks.
Standstill == (\A c \in Clients : ~CanStep(c)) /\ (\A s \in Sends : ~CanTransfer(s))

\* A Client.Run waits in deliver: a sender has files left and reads none of the
\* APPLY_OKs that fill its queue, or a receiver that cannot write its APPLY_OK
\* takes none of the CHUNKs that fill its queue.
Overrun(s) ==
    \/ /\ left[s] > 0 /\ hand[s[1]] = Frame(s[2], s[1], "APPLY_OK")
       /\ Len(queue[s[1]][s[2]]) = QueueCap
    \/ /\ s \in ack /\ hand[s[2]] = Frame(s[1], s[2], "CHUNK")
       /\ Len(queue[s[2]][s[1]]) = QueueCap

(***************************************************************************)
(* Clients, engines and read loops come to wait for each other, before all *)
(* is done, only where a transfer has overrun the queue of a virtual       *)
(* connection: the room's lock, full sockets, unanswered PINGs and         *)
(* transfers that cross are never enough.  (Where it has they may: the     *)
(* read loop that writes to that client keeps the room's lock, or does not *)
(* read the APPLY_OK behind a PING.  Neither deliver nor a read loop that  *)
(* writes has a deadline, so that nothing ends it.)                        *)
(***************************************************************************)
StandstillsAreOverruns == Standstill => AllDone \/ \E s \in Sends : Overrun(s)

\* A transfer overruns a queue if it has two files more than fit into it.
Fits(load) == \A s \in Sends : load[s] <= QueueCap + 1

\* If every NEED fits, each file that was asked for is stored and acknowledged
\* and sendFiles returns, whenever the clients send their PINGs and however the
\* transfers get in each other's way (virtual_conn.go: deliver; server.go: forward).
TransfersComplete == Fits(want) => <>(\A s \in Sends : left[s] = 0 /\ want[s] = 0)
=============================================================================
