-------------------------- MODULE RelayFlowProofs --------------------------
(***************************************************************************)
(* Files through the relay, for any clients, transfers, loads, ticks and   *)
(* buffer sizes: no buffer overflows, a read loop that has the room's lock *)
(* has a frame to forward, every frame ends up in the virtual connection   *)
(* of the two clients it is between, and the CHUNKs and APPLY_OKs on their *)
(* way make up for what is not acknowledged yet.  So whoever waits for a   *)
(* place in a queue waits behind frames of one transfer, and where no      *)
(* transfer has overrun a queue, somebody can go on until all is done.     *)
(***************************************************************************)
EXTENDS RelayFlow, FiniteSets, SequenceTheorems, FiniteSetTheorems, TLAPS

\* A CHUNK goes along a transfer, an APPLY_OK back.
Belongs(f) == IF f.what = "CHUNK" THEN <<f.from, f.to>> \in Sends ELSE <<f.to, f.from>> \in Sends

Outgoing(c) == {f \in Data : f.from = c /\ Belongs(f)}
Incoming(c) == {f \in Data : f.to = c /\ Belongs(f)}

\* Frames are where the clients they are between say, and fit into the buffers.
UpInv ==
    /\ up \in [Clients -> Seq(Data \cup {Ping})]
    /\ \A c \in Clients : up[c] \in Seq(Outgoing(c) \cup {Ping}) /\ Len(up[c]) <= SocketCap
DownInv ==
    /\ down \in [Clients -> Seq(Data \cup {Ping})]
    /\ \A c \in Clients : down[c] \in Seq(Incoming(c) \cup {Ping}) /\ Len(down[c]) <= SocketCap
QueueInv ==
    /\ queue \in [Clients -> [Clients -> Seq(Data)]]
    /\ \A c, p \in Clients :
        queue[c][p] \in Seq(Incoming(c) \cap Outgoing(p)) /\ Len(queue[c][p]) <= QueueCap
HandInv ==
    /\ hand \in [Clients -> Data \cup {None}]
    /\ \A c \in Clients : hand[c] \in Incoming(c) \cup {None}
HeldInv ==
    /\ held \in [Clients -> Data \cup {Ping, None}]
    /\ \A c \in Clients : held[c] \in Outgoing(c) \cup {Ping, None}

\* forward has a frame in its hands while it has the room's lock.
LockInv == lock \in Clients \cup {None} /\ (lock # None => held[lock] \in Data)

\* applyManifest acknowledges what it still wants.
AckInv == ack \subseteq Sends /\ want \in [Sends -> Nat] /\ \A s \in ack : want[s] > 0

RestInv == left \in [Sends -> Nat] /\ ping \subseteq Clients /\ ticks \in 0 .. MaxTicks

FlowInv == UpInv /\ DownInv /\ QueueInv /\ HandInv /\ HeldInv /\ LockInv /\ AckInv /\ RestInv

-----------------------------------------------------------------------------
(* Buffers *)

LEMMA AppendBounded ==
    ASSUME NEW S, NEW q \in Seq(S), NEW x \in S, NEW cap \in Nat, Len(q) < cap
    PROVE  Append(q, x) \in Seq(S) /\ Len(Append(q, x)) <= cap
<1>1. Append(q, x) \in Seq(S) /\ Len(Append(q, x)) = Len(q) + 1 /\ Len(q) \in Nat
  BY AppendProperties
<1>. QED
  BY <1>1

LEMMA TailBounded ==
    ASSUME NEW S, NEW q \in Seq(S), q # <<>>, NEW cap \in Nat, Len(q) <= cap
    PROVE  Head(q) \in S /\ Tail(q) \in Seq(S) /\ Len(Tail(q)) <= cap
<1>1. Head(q) \in S /\ Tail(q) \in Seq(S) /\ Len(Tail(q)) = Len(q) - 1 /\ Len(q) \in Nat
  BY HeadTailProperties
<1>. QED
  BY <1>1

LEMMA FrameFields ==
    ASSUME NEW f \in Data
    PROVE  /\ f.from \in Clients /\ f.to \in Clients /\ f.what \in {"CHUNK", "APPLY_OK"}
           /\ f # Ping /\ f # None
<1>1. PICK x \in Clients, y \in Clients, w \in {"CHUNK", "APPLY_OK"} : f = Frame(x, y, w)
  BY DEF Data
<1>2. f.from = x /\ f.to = y /\ f.what = w /\ f.kind = "DATA"
  BY <1>1 DEF Frame
<1>3. f # Ping
  BY <1>2 DEF Ping
<1>. QED
  BY <1>2, <1>3, RelayFlowAssumption

LEMMA NewFrame ==
    ASSUME NEW s \in Sends
    PROVE  /\ s[1] \in Clients /\ s[2] \in Clients /\ s = <<s[1], s[2]>>
           /\ Frame(s[1], s[2], "CHUNK") \in Outgoing(s[1])
           /\ Frame(s[2], s[1], "APPLY_OK") \in Outgoing(s[2])
<1>0. s \in Clients \X Clients
  BY RelayFlowAssumption
<1>1. s[1] \in Clients /\ s[2] \in Clients /\ s = <<s[1], s[2]>>
  BY <1>0
<1>. DEFINE f == Frame(s[1], s[2], "CHUNK")
            h == Frame(s[2], s[1], "APPLY_OK")
<1>2. f \in Data /\ h \in Data
  BY <1>1 DEF Data
<1>3. /\ f.from = s[1] /\ f.to = s[2] /\ f.what = "CHUNK"
      /\ h.from = s[2] /\ h.to = s[1] /\ h.what = "APPLY_OK"
  BY DEF Frame
<1>. QED
  BY <1>1, <1>2, <1>3 DEF Outgoing, Belongs

\* A client or an engine writes to its own socket.
LEMMA WriteKeeps ==
    ASSUME UpInv, NEW c \in Clients, NEW f \in Outgoing(c) \cup {Ping}, Write(c, f)
    PROVE  UpInv'
<1>1. /\ up \in [Clients -> Seq(Data \cup {Ping})] /\ up[c] \in Seq(Outgoing(c) \cup {Ping})
      /\ Len(up[c]) < SocketCap /\ SocketCap \in Nat
      /\ up' = [up EXCEPT ![c] = Append(up[c], f)]
  BY RelayFlowAssumption DEF UpInv, Write, Room
<1>2. f \in Data \cup {Ping}
  BY DEF Outgoing
<1>3. Append(up[c], f) \in Seq(Outgoing(c) \cup {Ping}) /\ Len(Append(up[c], f)) <= SocketCap
  BY <1>1, AppendBounded
<1>4. Append(up[c], f) \in Seq(Data \cup {Ping})
  BY <1>1, <1>2, AppendProperties
<1>. QED
  BY <1>1, <1>3, <1>4 DEF UpInv

\* The server writes to the socket of a client.
LEMMA AnswerKeeps ==
    ASSUME DownInv, NEW c \in Clients, NEW f \in Incoming(c) \cup {Ping}, Room(down[c]),
           down' = [down EXCEPT ![c] = Append(@, f)]
    PROVE  DownInv'
<1>1. /\ down \in [Clients -> Seq(Data \cup {Ping})] /\ down[c] \in Seq(Incoming(c) \cup {Ping})
      /\ Len(down[c]) < SocketCap /\ SocketCap \in Nat
      /\ down' = [down EXCEPT ![c] = Append(down[c], f)]
  BY RelayFlowAssumption DEF DownInv, Room
<1>2. f \in Data \cup {Ping}
  BY DEF Incoming
<1>3. Append(down[c], f) \in Seq(Incoming(c) \cup {Ping}) /\ Len(Append(down[c], f)) <= SocketCap
  BY <1>1, AppendBounded
<1>4. Append(down[c], f) \in Seq(Data \cup {Ping})
  BY <1>1, <1>2, AppendProperties
<1>. QED
  BY <1>1, <1>3, <1>4 DEF DownInv

\* An engine reads from a virtual connection.
LEMMA TakeKeeps ==
    ASSUME QueueInv, NEW c \in Clients, NEW p \in Clients, queue[c][p] # <<>>,
           queue' = [queue EXCEPT ![c][p] = Tail(@)]
    PROVE  QueueInv'
<1>1. /\ queue \in [Clients -> [Clients -> Seq(Data)]] /\ queue[c][p] \in Seq(Data)
      /\ queue[c][p] \in Seq(Incoming(c) \cap Outgoing(p)) /\ Len(queue[c][p]) <= QueueCap
      /\ queue' = [queue EXCEPT ![c][p] = Tail(queue[c][p])] /\ QueueCap \in Nat
  BY RelayFlowAssumption DEF QueueInv
<1>2. /\ Tail(queue[c][p]) \in Seq(Incoming(c) \cap Outgoing(p))
      /\ Len(Tail(queue[c][p])) <= QueueCap
  BY <1>1, TailBounded
<1>3. Tail(queue[c][p]) \in Seq(Data)
  BY <1>1, TailBounded
<1>4. queue' \in [Clients -> [Clients -> Seq(Data)]]
  BY <1>1, <1>3
<1>5. \A x, y \in Clients :
        queue'[x][y] = IF x = c /\ y = p THEN Tail(queue[c][p]) ELSE queue[x][y]
  BY <1>1, <1>3
<1>6. ASSUME NEW x \in Clients, NEW y \in Clients
      PROVE  queue'[x][y] \in Seq(Incoming(x) \cap Outgoing(y)) /\ Len(queue'[x][y]) <= QueueCap
  <2>1. CASE x = c /\ y = p
    BY <1>2, <1>5, <2>1
  <2>2. CASE ~(x = c /\ y = p)
    <3>1. queue'[x][y] = queue[x][y]
      BY <1>5, <2>2
    <3>. QED
      BY <3>1 DEF QueueInv
  <2>. QED
    BY <2>1, <2>2
<1>. QED
  BY <1>4, <1>6 DEF QueueInv

-----------------------------------------------------------------------------
(* The steps *)

LEMMA TransferKeeps ==
    ASSUME FlowInv, NEW s \in Sends, Transfer(s)
    PROVE  FlowInv'
<1>0. /\ s[1] \in Clients /\ s[2] \in Clients
      /\ Frame(s[1], s[2], "CHUNK") \in Outgoing(s[1])
      /\ Frame(s[2], s[1], "APPLY_OK") \in Outgoing(s[2])
  BY NewFrame
<1>1. CASE SendChunk(s)
  <2>1. UpInv'
    BY <1>0, <1>1, WriteKeeps DEF SendChunk, FlowInv
  <2>2. RestInv'
    BY <1>1 DEF SendChunk, FlowInv, RestInv
  <2>. QED
    BY <1>1, <2>1, <2>2 DEF SendChunk, FlowInv, DownInv, QueueInv, HandInv, HeldInv, LockInv, AckInv
<1>2. CASE ReadApplyOK(s)
  <2>1. QueueInv'
    BY <1>0, <1>2, TakeKeeps DEF ReadApplyOK, FlowInv
  <2>. QED
    BY <1>2, <2>1 DEF ReadApplyOK, FlowInv, UpInv, DownInv, HandInv, HeldInv, LockInv, AckInv, RestInv
<1>3. CASE ReceiveChunk(s)
  <2>1. QueueInv'
    BY <1>0, <1>3, TakeKeeps DEF ReceiveChunk, FlowInv
  <2>2. AckInv'
    BY <1>3 DEF ReceiveChunk, FlowInv, AckInv
  <2>. QED
    BY <1>3, <2>1, <2>2 DEF ReceiveChunk, FlowInv, UpInv, DownInv, HandInv, HeldInv, LockInv, RestInv
<1>4. CASE WriteApplyOK(s)
  <2>1. UpInv'
    BY <1>0, <1>4, WriteKeeps DEF WriteApplyOK, FlowInv
  <2>2. AckInv'
    BY <1>4 DEF WriteApplyOK, FlowInv, AckInv
  <2>. QED
    BY <1>4, <2>1, <2>2 DEF WriteApplyOK, FlowInv, DownInv, QueueInv, HandInv, HeldInv, LockInv, RestInv
<1>. QED
  BY <1>1, <1>2, <1>3, <1>4 DEF Transfer

LEMMA ClientKeeps ==
    ASSUME FlowInv, NEW c \in Clients, WritePing(c) \/ ReadFrame(c) \/ Deliver(c)
    PROVE  FlowInv'
<1>1. CASE WritePing(c)
  <2>1. UpInv'
    BY <1>1, WriteKeeps DEF WritePing, FlowInv
  <2>2. RestInv'
    BY <1>1 DEF WritePing, FlowInv, RestInv
  <2>. QED
    BY <1>1, <2>1, <2>2 DEF WritePing, FlowInv, DownInv, QueueInv, HandInv, HeldInv, LockInv, AckInv
<1>2. CASE ReadFrame(c)
  <2>1. /\ down \in [Clients -> Seq(Data \cup {Ping})] /\ down[c] \in Seq(Data \cup {Ping})
        /\ down[c] \in Seq(Incoming(c) \cup {Ping}) /\ Len(down[c]) <= SocketCap
        /\ down[c] # <<>> /\ SocketCap \in Nat
        /\ down' = [down EXCEPT ![c] = Tail(down[c])]
    BY <1>2, RelayFlowAssumption DEF ReadFrame, FlowInv, DownInv
  <2>2. /\ Head(down[c]) \in Incoming(c) \cup {Ping} /\ Tail(down[c]) \in Seq(Incoming(c) \cup {Ping})
        /\ Len(Tail(down[c])) <= SocketCap
    BY <2>1, TailBounded
  <2>3. Tail(down[c]) \in Seq(Data \cup {Ping})
    BY <2>1, TailBounded
  <2>4. DownInv'
    BY <1>2, <2>1, <2>2, <2>3 DEF FlowInv, DownInv
  <2>5. HandInv'
    <3>1. hand' = [hand EXCEPT ![c] = IF Head(down[c]) = Ping THEN None ELSE Head(down[c])]
      BY <1>2 DEF ReadFrame
    <3>. QED
      BY <2>2, <3>1 DEF FlowInv, HandInv, Incoming
  <2>6. RestInv'
    BY <1>2 DEF ReadFrame, FlowInv, RestInv
  <2>. QED
    BY <1>2, <2>4, <2>5, <2>6 DEF ReadFrame, FlowInv, UpInv, QueueInv, HeldInv, LockInv, AckInv
<1>3. CASE Deliver(c)
  <2>. DEFINE f == hand[c]
              p == f.from
              q == queue[c][p]
  <2>1. f \in Data /\ f \in Incoming(c)
    BY <1>3 DEF Deliver, FlowInv, HandInv
  <2>2. p \in Clients /\ f \in Incoming(c) \cap Outgoing(p)
    BY <2>1, FrameFields DEF Incoming, Outgoing
  <2>3. /\ queue \in [Clients -> [Clients -> Seq(Data)]] /\ q \in Seq(Data)
        /\ q \in Seq(Incoming(c) \cap Outgoing(p)) /\ Len(q) < QueueCap /\ QueueCap \in Nat
        /\ queue' = [queue EXCEPT ![c][p] = Append(q, f)]
    <3>1. queue' = [queue EXCEPT ![c][p] = Append(q, f)] /\ Len(q) < QueueCap
      BY <1>3 DEF Deliver
    <3>2. /\ queue \in [Clients -> [Clients -> Seq(Data)]]
          /\ q \in Seq(Incoming(c) \cap Outgoing(p))
      <4>. HIDE DEF p
      <4>. QED
        BY <2>2 DEF FlowInv, QueueInv
    <3>3. q \in Seq(Data)
      <4>. HIDE DEF p
      <4>. QED
        BY <2>2, <3>2
    <3>. QED
      BY <3>1, <3>2, <3>3, RelayFlowAssumption
  <2>4. Append(q, f) \in Seq(Incoming(c) \cap Outgoing(p)) /\ Len(Append(q, f)) <= QueueCap
    <3>. HIDE DEF q, f, p
    <3>. QED
      BY <2>2, <2>3, AppendBounded
  <2>5. Append(q, f) \in Seq(Data)
    <3>. HIDE DEF q, f
    <3>. QED
      BY <2>1, <2>3, AppendProperties
  <2>6. QueueInv'
    <3>. HIDE DEF q, f, p
    <3>1. \A x, y \in Clients : queue[x][y] \in Seq(Incoming(x) \cap Outgoing(y)) /\ Len(queue[x][y]) <= QueueCap
      BY DEF FlowInv, QueueInv
    <3>2. \A x, y \in Clients : queue'[x][y] = IF x = c /\ y = p THEN Append(q, f) ELSE queue[x][y]
      BY <2>2, <2>3
    <3>3. queue' \in [Clients -> [Clients -> Seq(Data)]]
      BY <2>2, <2>3, <2>5
    <3>4. \A x, y \in Clients : queue'[x][y] \in Seq(Incoming(x) \cap Outgoing(y)) /\ Len(queue'[x][y]) <= QueueCap
      BY <2>4, <3>1, <3>2
    <3>. QED
      BY <3>3, <3>4 DEF QueueInv
  <2>7. HandInv'
    BY <1>3 DEF Deliver, FlowInv, HandInv
  <2>. QED
    BY <1>3, <2>6, <2>7 DEF Deliver, FlowInv, UpInv, DownInv, HeldInv, LockInv, AckInv, RestInv
<1>. QED
  BY <1>1, <1>2, <1>3

LEMMA ServerKeeps ==
    ASSUME FlowInv, NEW c \in Clients, ServerRead(c) \/ Pong(c) \/ LockRoom(c) \/ Forward(c)
    PROVE  FlowInv'
<1>0. /\ held \in [Clients -> Data \cup {Ping, None}] /\ lock \in Clients \cup {None}
      /\ lock = c => held[c] \in Data
  BY RelayFlowAssumption DEF FlowInv, HeldInv, LockInv
<1>1. CASE ServerRead(c)
  <2>1. /\ up \in [Clients -> Seq(Data \cup {Ping})] /\ up[c] \in Seq(Data \cup {Ping})
        /\ up[c] \in Seq(Outgoing(c) \cup {Ping}) /\ Len(up[c]) <= SocketCap
        /\ up[c] # <<>> /\ SocketCap \in Nat
        /\ up' = [up EXCEPT ![c] = Tail(up[c])]
    BY <1>1, RelayFlowAssumption DEF ServerRead, FlowInv, UpInv
  <2>2. /\ Head(up[c]) \in Outgoing(c) \cup {Ping} /\ Tail(up[c]) \in Seq(Outgoing(c) \cup {Ping})
        /\ Len(Tail(up[c])) <= SocketCap
    BY <2>1, TailBounded
  <2>3. Tail(up[c]) \in Seq(Data \cup {Ping})
    BY <2>1, TailBounded
  <2>4. UpInv'
    BY <2>1, <2>2, <2>3 DEF FlowInv, UpInv
  <2>5. HeldInv'
    <3>1. held' = [held EXCEPT ![c] = Head(up[c])]
      BY <1>1 DEF ServerRead
    <3>. QED
      BY <2>2, <3>1 DEF FlowInv, HeldInv, Outgoing
  <2>6. LockInv'
    <3>1. held[c] = None /\ lock' = lock /\ held' = [held EXCEPT ![c] = Head(up[c])]
      BY <1>1 DEF ServerRead
    <3>2. lock # c
      BY <1>0, <3>1, FrameFields
    <3>. QED
      BY <1>0, <3>1, <3>2 DEF FlowInv, LockInv
  <2>. QED
    BY <1>1, <2>4, <2>5, <2>6 DEF ServerRead, FlowInv, DownInv, QueueInv, HandInv, AckInv, RestInv
<1>2. CASE Pong(c)
  <2>1. DownInv'
    BY <1>2, AnswerKeeps DEF Pong, FlowInv
  <2>2. HeldInv'
    BY <1>2 DEF Pong, FlowInv, HeldInv
  <2>3. LockInv'
    <3>1. held[c] = Ping /\ lock' = lock /\ held' = [held EXCEPT ![c] = None]
      BY <1>2 DEF Pong
    <3>2. lock # c
      BY <1>0, <3>1, FrameFields
    <3>. QED
      BY <1>0, <3>1, <3>2 DEF FlowInv, LockInv
  <2>. QED
    BY <1>2, <2>1, <2>2, <2>3 DEF Pong, FlowInv, UpInv, QueueInv, HandInv, AckInv, RestInv
<1>3. CASE LockRoom(c)
  <2>1. LockInv'
    BY <1>0, <1>3 DEF LockRoom, LockInv
  <2>. QED
    BY <1>3, <2>1 DEF LockRoom, FlowInv, UpInv, DownInv, QueueInv, HandInv, HeldInv, AckInv, RestInv
<1>4. CASE Forward(c)
  <2>. DEFINE f == held[c]
              t == f.to
  <2>1. f \in Data /\ f \in Outgoing(c)
    <3>1. lock = c
      BY <1>4 DEF Forward
    <3>2. f \in Data /\ f # Ping /\ f # None
      BY <1>0, <3>1, FrameFields
    <3>. QED
      BY <3>2 DEF FlowInv, HeldInv
  <2>2. t \in Clients /\ f \in Incoming(t)
    BY <2>1, FrameFields DEF Incoming, Outgoing
  <2>3. Room(down[t]) /\ down' = [down EXCEPT ![t] = Append(@, f)]
    BY <1>4 DEF Forward
  <2>4. DownInv'
    <3>. HIDE DEF f, t
    <3>. QED
      BY <2>2, <2>3, AnswerKeeps DEF FlowInv
  <2>5. HeldInv'
    BY <1>4 DEF Forward, FlowInv, HeldInv
  <2>6. LockInv'
    BY <1>4 DEF Forward, LockInv
  <2>. QED
    BY <1>4, <2>4, <2>5, <2>6 DEF Forward, FlowInv, UpInv, QueueInv, HandInv, AckInv, RestInv
<1>. QED
  BY <1>1, <1>2, <1>3, <1>4

LEMMA NextKeeps == FlowInv /\ [Next]_vars => FlowInv'
<1>. SUFFICES ASSUME FlowInv, [Next]_vars PROVE FlowInv'
  OBVIOUS
<1>1. ASSUME NEW c \in Clients, Tick(c) PROVE FlowInv'
  <2>1. RestInv'
    <3>1. ticks + 1 \in 0 .. MaxTicks
      BY <1>1, RelayFlowAssumption DEF Tick, FlowInv, RestInv
    <3>. QED
      BY <1>1, <3>1 DEF Tick, FlowInv, RestInv
  <2>. QED
    BY <1>1, <2>1 DEF Tick, FlowInv, UpInv, DownInv, QueueInv, HandInv, HeldInv, LockInv, AckInv
<1>2. CASE UNCHANGED vars
  BY <1>2 DEF vars, FlowInv, UpInv, DownInv, QueueInv, HandInv, HeldInv, LockInv, AckInv, RestInv
<1>3. ASSUME NEW c \in Clients, Step(c) PROVE FlowInv'
  BY <1>3, ClientKeeps, ServerKeeps DEF Step
<1>. QED
  BY <1>1, <1>2, <1>3, TransferKeeps DEF Next

LEMMA InitEstablishes == Init => FlowInv
<1>. SUFFICES ASSUME Init PROVE FlowInv
  OBVIOUS
<1>1. UpInv /\ DownInv
  BY RelayFlowAssumption DEF Init, UpInv, DownInv
<1>2. QueueInv
  BY RelayFlowAssumption DEF Init, QueueInv
<1>3. HandInv /\ HeldInv /\ LockInv
  BY DEF Init, HandInv, HeldInv, LockInv
<1>4. AckInv /\ RestInv
  BY RelayFlowAssumption DEF Init, AckInv, RestInv
<1>. QED
  BY <1>1, <1>2, <1>3, <1>4 DEF FlowInv

LEMMA Invariance == Spec => []FlowInv
  BY InitEstablishes, NextKeeps, PTL DEF Spec

\* No queue and no socket ever holds more than fits, and the counters of files
\* stay in range (virtual_conn.go: deliver; server.go: forward).
THEOREM TypeCorrect == Spec => []TypeOK
<1>1. FlowInv => TypeOK
  BY DEF FlowInv, TypeOK, UpInv, DownInv, QueueInv, HandInv, HeldInv, LockInv, AckInv, RestInv
<1>. QED
  BY <1>1, Invariance, PTL

\* What receiveFile reads from its virtual connection are the CHUNKs of its
\* transfer, and what HandleIncoming of the sender reads are the APPLY_OKs: no
\* frame is delivered to another client or to another peer's connection.
TransfersApart ==
    \A s \in Sends :
        /\ \A i \in DOMAIN queue[s[2]][s[1]] :
            queue[s[2]][s[1]][i] = Frame(s[1], s[2], "CHUNK")
        /\ \A i \in DOMAIN queue[s[1]][s[2]] :
            queue[s[1]][s[2]][i] = Frame(s[2], s[1], "APPLY_OK")

LEMMA Apart == FlowInv => TransfersApart
<1>1. ASSUME NEW x \in Clients, NEW y \in Clients, NEW f \in Incoming(y) \cap Outgoing(x)
      PROVE  f = Frame(x, y, f.what) /\ f.what \in {"CHUNK", "APPLY_OK"} /\ Belongs(f)
                /\ f.from = x /\ f.to = y
  <2>1. PICK u \in Clients, v \in Clients, w \in {"CHUNK", "APPLY_OK"} : f = Frame(u, v, w)
    BY DEF Incoming, Data
  <2>2. f.from = u /\ f.to = v /\ f.what = w
    BY <2>1 DEF Frame
  <2>. QED
    BY <2>1, <2>2 DEF Incoming, Outgoing
<1>2. FlowInv => TransfersApart
  <2>. SUFFICES ASSUME FlowInv, NEW s \in Sends
                PROVE  /\ \A i \in DOMAIN queue[s[2]][s[1]] :
                            queue[s[2]][s[1]][i] = Frame(s[1], s[2], "CHUNK")
                       /\ \A i \in DOMAIN queue[s[1]][s[2]] :
                            queue[s[1]][s[2]][i] = Frame(s[2], s[1], "APPLY_OK")
    BY DEF TransfersApart
  <2>1. /\ s[1] \in Clients /\ s[2] \in Clients /\ <<s[1], s[2]>> \in Sends
        /\ <<s[2], s[1]>> \notin Sends
    BY NewFrame, RelayFlowAssumption
  <2>2. ASSUME NEW f \in Incoming(s[2]) \cap Outgoing(s[1]) PROVE f = Frame(s[1], s[2], "CHUNK")
    <3>1. /\ f = Frame(s[1], s[2], f.what) /\ f.what \in {"CHUNK", "APPLY_OK"} /\ Belongs(f)
          /\ f.from = s[1] /\ f.to = s[2]
      BY <1>1, <2>1, <2>2
    <3>2. f.what = "CHUNK"
      BY <2>1, <3>1 DEF Belongs
    <3>. QED
      BY <3>1, <3>2
  <2>3. ASSUME NEW f \in Incoming(s[1]) \cap Outgoing(s[2]) PROVE f = Frame(s[2], s[1], "APPLY_OK")
    <3>1. /\ f = Frame(s[2], s[1], f.what) /\ f.what \in {"CHUNK", "APPLY_OK"} /\ Belongs(f)
          /\ f.from = s[2] /\ f.to = s[1]
      BY <1>1, <2>1, <2>3
    <3>2. f.what = "APPLY_OK"
      BY <2>1, <3>1 DEF Belongs
    <3>. QED
      BY <3>1, <3>2
  <2>4. /\ queue[s[2]][s[1]] \in Seq(Incoming(s[2]) \cap Outgoing(s[1]))
        /\ queue[s[1]][s[2]] \in Seq(Incoming(s[1]) \cap Outgoing(s[2]))
    BY <2>1 DEF FlowInv, QueueInv
  <2>5. \A S : \A q \in Seq(S) : \A i \in DOMAIN q : q[i] \in S
    OBVIOUS
  <2>. QED
    BY <2>2, <2>3, <2>4, <2>5
<1>. QED
  BY <1>2

\* Client.Run and the server hand every frame to the virtual connection of the
\* two clients it is between, whatever transfers go on at the same time.
THEOREM TransfersAreApart == Spec => []TransfersApart
  BY Apart, Invariance, PTL

-----------------------------------------------------------------------------
(* Counting frames *)

\* How often f is in the queue q, and in the hands x of somebody.
In(q, f) == Cardinality({i \in DOMAIN q : q[i] = f})
One(x, f) == IF x = f THEN 1 ELSE 0

\* The frames like f that are written and not read yet: in the socket of their
\* sender, at the server, in the socket of their receiver, at its Client.Run
\* and in its virtual connection.
Underway(f) ==
    In(up[f.from], f) + One(held[f.from], f) + In(down[f.to], f) + One(hand[f.to], f)
    + In(queue[f.to][f.from], f)

Chunk(s) == Frame(s[1], s[2], "CHUNK")
ApplyOK(s) == Frame(s[2], s[1], "APPLY_OK")

LEMMA Places == ASSUME NEW n \in Nat PROVE IsFiniteSet(1 .. n) /\ Cardinality(1 .. n) = n
<1>1. IsFiniteSet(1 .. n) /\ Cardinality(1 .. n) = IF 1 > n THEN 0 ELSE n - 1 + 1
  BY FS_Interval
<1>. QED
  BY <1>1

LEMMA CountIsNat == ASSUME NEW q, q \in Seq(Data \cup {Ping}), NEW f PROVE In(q, f) \in Nat
<1>1. Len(q) \in Nat /\ DOMAIN q = 1 .. Len(q)
  BY LenProperties
<1>2. IsFiniteSet(1 .. Len(q))
  BY <1>1, Places
<1>3. IsFiniteSet({i \in DOMAIN q : q[i] = f})
  BY <1>1, <1>2, FS_Subset
<1>. QED
  BY <1>3, FS_CardinalityType DEF In

LEMMA CountEmpty == ASSUME NEW f PROVE In(<<>>, f) = 0
<1>1. {i \in DOMAIN <<>> : <<>>[i] = f} = {}
  OBVIOUS
<1>. QED
  BY <1>1, FS_EmptySet DEF In

LEMMA CountAppend ==
    ASSUME NEW q, q \in Seq(Data \cup {Ping}), NEW x \in Data \cup {Ping}, NEW f
    PROVE  In(Append(q, x), f) = In(q, f) + One(x, f)
<1>. DEFINE n == Len(q)
            A == {i \in DOMAIN q : q[i] = f}
            B == {i \in DOMAIN Append(q, x) : Append(q, x)[i] = f}
<1>1. /\ n \in Nat /\ DOMAIN q = 1 .. n /\ DOMAIN Append(q, x) = 1 .. n + 1
      /\ Append(q, x)[n + 1] = x /\ \A i \in 1 .. n : Append(q, x)[i] = q[i]
  <2>1. /\ Append(q, x) \in Seq(Data \cup {Ping}) /\ Len(Append(q, x)) = Len(q) + 1
        /\ \A i \in 1 .. Len(q) : Append(q, x)[i] = q[i]
        /\ Append(q, x)[Len(q) + 1] = x
    BY AppendProperties
  <2>. QED
    BY <2>1, LenProperties
<1>2. IsFiniteSet(A) /\ n + 1 \notin A
  <2>1. IsFiniteSet(1 .. n) /\ A \in SUBSET (1 .. n) /\ n + 1 \notin 1 .. n
    BY <1>1, Places
  <2>. QED
    BY <2>1, FS_Subset
<1>3. Cardinality(A) \in Nat
  BY <1>2, FS_CardinalityType
<1>4. B = IF x = f THEN A \cup {n + 1} ELSE A
  <2>1. 1 .. n + 1 = (1 .. n) \cup {n + 1}
    BY <1>1
  <2>. QED
    BY <1>1, <2>1
<1>. HIDE DEF A, B, n
<1>5. Cardinality(A \cup {n + 1}) = Cardinality(A) + 1
  BY <1>2, FS_AddElement
<1>6. Cardinality(B) = Cardinality(A) + One(x, f)
  BY <1>3, <1>4, <1>5 DEF One
<1>. QED
  BY <1>6 DEF A, B, In

LEMMA CountTail ==
    ASSUME NEW q, q \in Seq(Data \cup {Ping}), q # <<>>, NEW f
    PROVE  In(q, f) = In(Tail(q), f) + One(Head(q), f)
<1>. DEFINE n == Len(q)
            A == {i \in DOMAIN q : q[i] = f}
            B == {i \in DOMAIN Tail(q) : Tail(q)[i] = f}
            shift == [i \in B |-> i + 1]
<1>1. /\ n \in Nat /\ n > 0 /\ DOMAIN q = 1 .. n /\ DOMAIN Tail(q) = 1 .. n - 1
      /\ Head(q) = q[1] /\ \A i \in 1 .. n - 1 : Tail(q)[i] = q[i + 1]
  <2>1. /\ Tail(q) \in Seq(Data \cup {Ping}) /\ Len(Tail(q)) = Len(q) - 1
        /\ \A i \in 1 .. Len(Tail(q)) : Tail(q)[i] = q[i + 1]
    BY HeadTailProperties
  <2>2. Len(q) \in Nat /\ Len(q) > 0 /\ DOMAIN q = 1 .. Len(q) /\ Head(q) = q[1]
    BY EmptySeq, LenProperties
  <2>. QED
    BY <2>1, <2>2
<1>2. IsFiniteSet(A) /\ IsFiniteSet(B)
  <2>1. IsFiniteSet(1 .. n) /\ A \in SUBSET (1 .. n) /\ B \in SUBSET (1 .. n)
    BY <1>1, Places
  <2>. QED
    BY <2>1, FS_Subset
<1>3. B \subseteq Int /\ \A i \in A \ {1} : i \in Int /\ i - 1 \in B /\ (i - 1) + 1 = i
  BY <1>1
<1>4. \A i \in B : i + 1 \in A \ {1}
  BY <1>1
<1>5. 1 \in A <=> Head(q) = f
  BY <1>1
<1>. HIDE DEF A, B, n
<1>6. shift \in Bijection(B, A \ {1})
  <2>1. shift \in [B -> A \ {1}]
    BY <1>4
  <2>2. IsInjective(shift)
    BY <1>3 DEF IsInjective
  <2>3. \A t \in A \ {1} : \E i \in B : shift[i] = t
    BY <1>3
  <2>. QED
    BY <2>1, <2>2, <2>3 DEF Bijection, Injection, Surjection
<1>7. Cardinality(A \ {1}) = Cardinality(B)
  BY <1>2, <1>6, FS_Bijection DEF ExistsBijection
<1>8. Cardinality(A \ {1}) = IF 1 \in A THEN Cardinality(A) - 1 ELSE Cardinality(A)
  BY <1>2, FS_RemoveElement
<1>9. Cardinality(A) \in Nat /\ Cardinality(B) \in Nat
  BY <1>2, FS_CardinalityType
<1>10. Cardinality(A) = Cardinality(B) + One(Head(q), f)
  BY <1>5, <1>7, <1>8, <1>9 DEF One
<1>. QED
  BY <1>10 DEF A, B, In

\* Frames that are all alike are as many as the queue is long.
LEMMA CountAll ==
    ASSUME NEW q, q \in Seq(Data \cup {Ping}), NEW f, \A i \in DOMAIN q : q[i] = f
    PROVE  In(q, f) = Len(q)
<1>1. Len(q) \in Nat /\ DOMAIN q = 1 .. Len(q)
  BY LenProperties
<1>2. {i \in DOMAIN q : q[i] = f} = 1 .. Len(q)
  BY <1>1
<1>. QED
  BY <1>1, <1>2, Places DEF In

-----------------------------------------------------------------------------
(* How the steps move a frame *)

LEMMA FrameKinds ==
    ASSUME NEW s \in Sends
    PROVE  /\ Chunk(s) \in Outgoing(s[1]) \cap Incoming(s[2])
           /\ ApplyOK(s) \in Outgoing(s[2]) \cap Incoming(s[1])
           /\ Chunk(s).from = s[1] /\ Chunk(s).to = s[2] /\ Chunk(s) \in Data
           /\ ApplyOK(s).from = s[2] /\ ApplyOK(s).to = s[1] /\ ApplyOK(s) \in Data
           /\ \A t \in Sends : /\ (Chunk(s) = Chunk(t)) <=> (s = t)
                               /\ (ApplyOK(s) = ApplyOK(t)) <=> (s = t)
                               /\ Chunk(s) # ApplyOK(t)
<1>1. \A t \in Sends :
        /\ Chunk(t) \in Outgoing(t[1]) /\ ApplyOK(t) \in Outgoing(t[2]) /\ t = <<t[1], t[2]>>
        /\ t[1] \in Clients /\ t[2] \in Clients
  BY NewFrame DEF Chunk, ApplyOK
<1>2. \A t : /\ Chunk(t).from = t[1] /\ Chunk(t).to = t[2] /\ Chunk(t).what = "CHUNK"
             /\ ApplyOK(t).from = t[2] /\ ApplyOK(t).to = t[1] /\ ApplyOK(t).what = "APPLY_OK"
  BY DEF Chunk, ApplyOK, Frame
<1>3. Chunk(s) \in Incoming(s[2]) /\ ApplyOK(s) \in Incoming(s[1])
  BY <1>1, <1>2 DEF Outgoing, Incoming
<1>4. Chunk(s) \in Data /\ ApplyOK(s) \in Data
  BY <1>1 DEF Outgoing
<1>5. ASSUME NEW t \in Sends
      PROVE  /\ (Chunk(s) = Chunk(t)) <=> (s = t)
             /\ (ApplyOK(s) = ApplyOK(t)) <=> (s = t)
             /\ Chunk(s) # ApplyOK(t)
  <2>1. s = <<s[1], s[2]>> /\ t = <<t[1], t[2]>>
    BY <1>1
  <2>2. Chunk(s) # ApplyOK(t)
    BY <1>2
  <2>3. Chunk(s) = Chunk(t) => s = t
    <3>1. Chunk(s) = Chunk(t) => s[1] = t[1] /\ s[2] = t[2]
      BY <1>2
    <3>. QED
      BY <2>1, <3>1
  <2>4. ApplyOK(s) = ApplyOK(t) => s = t
    <3>1. ApplyOK(s) = ApplyOK(t) => s[1] = t[1] /\ s[2] = t[2]
      BY <1>2
    <3>. QED
      BY <2>1, <3>1
  <2>. QED
    BY <2>2, <2>3, <2>4
<1>. QED
  BY <1>1, <1>2, <1>3, <1>4, <1>5

\* The terms of Underway are numbers.
LEMMA TermsAreNat ==
    ASSUME FlowInv, NEW f \in Data
    PROVE  /\ In(up[f.from], f) \in Nat /\ In(down[f.to], f) \in Nat
           /\ In(queue[f.to][f.from], f) \in Nat
           /\ One(held[f.from], f) \in Nat /\ One(hand[f.to], f) \in Nat
           /\ Underway(f) \in Nat
<1>1. f.from \in Clients /\ f.to \in Clients
  BY FrameFields
<1>2. In(up[f.from], f) \in Nat /\ In(down[f.to], f) \in Nat
  BY <1>1, CountIsNat DEF FlowInv, UpInv, DownInv
<1>3. In(queue[f.to][f.from], f) \in Nat
  <2>1. queue[f.to][f.from] \in Seq(Data \cup {Ping})
    <3>1. queue[f.to][f.from] \in Seq(Data)
      BY <1>1 DEF FlowInv, QueueInv
    <3>. QED
      BY <3>1
  <2>. QED
    BY <2>1, CountIsNat
<1>4. One(held[f.from], f) \in Nat /\ One(hand[f.to], f) \in Nat
  BY DEF One
<1>. QED
  BY <1>2, <1>3, <1>4 DEF Underway

LEMMA HandIsUnderway ==
    ASSUME FlowInv, NEW f \in Data, hand[f.to] = f
    PROVE  Underway(f) >= 1
<1>1. One(hand[f.to], f) = 1
  BY DEF One
<1>. QED
  BY <1>1, TermsAreNat DEF Underway

LEMMA NextTermsAreNat ==
    ASSUME FlowInv', NEW f \in Data
    PROVE  Underway(f)' \in Nat
<1>1. f.from \in Clients /\ f.to \in Clients
  BY FrameFields
<1>2. In(up'[f.from], f) \in Nat /\ In(down'[f.to], f) \in Nat
  BY <1>1, CountIsNat DEF FlowInv, UpInv, DownInv
<1>3. In(queue'[f.to][f.from], f) \in Nat
  <2>1. queue'[f.to][f.from] \in Seq(Data \cup {Ping})
    <3>1. queue'[f.to][f.from] \in Seq(Data)
      BY <1>1 DEF FlowInv, QueueInv
    <3>. QED
      BY <3>1
  <2>. QED
    BY <2>1, CountIsNat
<1>4. One(held'[f.from], f) \in Nat /\ One(hand'[f.to], f) \in Nat
  BY DEF One
<1>. QED
  BY <1>2, <1>3, <1>4 DEF Underway

\* An engine or a pingLoop writes a frame.
LEMMA WriteCounts ==
    ASSUME FlowInv, NEW c \in Clients, NEW x \in Data \cup {Ping}, x # Ping => x.from = c,
           Write(c, x), UNCHANGED <<down, queue, hand, held>>, NEW f \in Data
    PROVE  Underway(f)' = Underway(f) + One(x, f)
<1>1. f.from \in Clients /\ f.to \in Clients /\ f # Ping
  BY FrameFields
<1>2. x = f => f.from = c
  BY <1>1
<1>3. up \in [Clients -> Seq(Data \cup {Ping})]
  BY DEF FlowInv, UpInv
<1>4. In(up'[f.from], f) = In(up[f.from], f) + One(x, f)
  <2>1. CASE f.from = c
    <3>1. up'[f.from] = Append(up[f.from], x) /\ up[f.from] \in Seq(Data \cup {Ping})
      BY <1>1, <1>3, <2>1 DEF Write
    <3>. QED
      BY <3>1, CountAppend
  <2>2. CASE f.from # c
    <3>1. up'[f.from] = up[f.from] /\ One(x, f) = 0
      BY <1>1, <1>2, <1>3, <2>2 DEF Write, One
    <3>. QED
      BY <3>1, TermsAreNat
  <2>. QED
    BY <2>1, <2>2
<1>5. One(x, f) \in Nat
  BY DEF One
<1>. QED
  BY <1>4, <1>5, TermsAreNat DEF Underway

\* An engine reads a frame.
LEMMA TakeCounts ==
    ASSUME FlowInv, NEW c \in Clients, NEW p \in Clients, queue[c][p] # <<>>,
           queue' = [queue EXCEPT ![c][p] = Tail(@)],
           UNCHANGED <<up, down, hand, held>>, NEW f \in Data
    PROVE  Underway(f) = Underway(f)' + One(Head(queue[c][p]), f)
<1>. DEFINE q == queue[c][p]
            x == Head(q)
<1>1. f.from \in Clients /\ f.to \in Clients
  BY FrameFields
<1>2. q \in Seq(Data) /\ q # <<>> /\ q \in Seq(Incoming(c) \cap Outgoing(p))
  BY DEF FlowInv, QueueInv
<1>3. Tail(q) \in Seq(Data) /\ queue \in [Clients -> [Clients -> Seq(Data)]]
  <2>. HIDE DEF q
  <2>. QED
    BY <1>2, HeadTailProperties DEF FlowInv, QueueInv
<1>4. \A u, v \in Clients : queue'[u][v] = IF u = c /\ v = p THEN Tail(q) ELSE queue[u][v]
  BY <1>3
<1>. HIDE DEF q
<1>5. x \in Incoming(c) \cap Outgoing(p) /\ q \in Seq(Data \cup {Ping})
  BY <1>2, HeadTailProperties
<1>6. In(queue[f.to][f.from], f) = In(queue'[f.to][f.from], f) + One(x, f)
  <2>1. CASE f.to = c /\ f.from = p
    <3>1. queue'[f.to][f.from] = Tail(q) /\ queue[f.to][f.from] = q
      BY <1>1, <1>4, <2>1 DEF q
    <3>. QED
      BY <1>2, <1>5, <3>1, CountTail
  <2>2. CASE ~(f.to = c /\ f.from = p)
    <3>1. queue'[f.to][f.from] = queue[f.to][f.from]
      BY <1>1, <1>4, <2>2
    <3>2. One(x, f) = 0
      BY <1>5, <2>2 DEF One, Incoming, Outgoing
    <3>. QED
      BY <3>1, <3>2, TermsAreNat
  <2>. QED
    BY <2>1, <2>2
<1>7. In(queue'[f.to][f.from], f) \in Nat /\ One(x, f) \in Nat
  <2>1. CASE f.to = c /\ f.from = p
    <3>1. queue'[f.to][f.from] = Tail(q) /\ Tail(q) \in Seq(Data \cup {Ping})
      BY <1>1, <1>2, <1>3, <1>4, <1>5, <2>1, HeadTailProperties
    <3>. QED
      BY <3>1, CountIsNat DEF One
  <2>2. CASE ~(f.to = c /\ f.from = p)
    <3>1. queue'[f.to][f.from] = queue[f.to][f.from]
      BY <1>1, <1>4, <2>2
    <3>. QED
      BY <3>1, TermsAreNat DEF One
  <2>. QED
    BY <2>1, <2>2
<1>8. Underway(f) = Underway(f)' + One(x, f)
  BY <1>6, <1>7, TermsAreNat DEF Underway
<1>. QED
  BY <1>8 DEF q

\* Client.Run hands a frame on.
LEMMA ClientCounts ==
    ASSUME FlowInv, NEW c \in Clients, ReadFrame(c) \/ Deliver(c), NEW f \in Data
    PROVE  Underway(f)' = Underway(f)
<1>0. f.from \in Clients /\ f.to \in Clients /\ f # Ping /\ f # None
  BY FrameFields
<1>1. CASE ReadFrame(c)
  <2>. DEFINE x == Head(down[c])
              y == IF x = Ping THEN None ELSE x
  <2>1. /\ down \in [Clients -> Seq(Data \cup {Ping})] /\ down[c] # <<>> /\ hand[c] = None
        /\ down' = [down EXCEPT ![c] = Tail(@)] /\ hand' = [hand EXCEPT ![c] = y]
        /\ hand \in [Clients -> Data \cup {None}] /\ UNCHANGED <<up, queue, held>>
    BY <1>1 DEF ReadFrame, FlowInv, DownInv, HandInv
  <2>2. x \in Incoming(c) \cup {Ping}
    <3>1. down[c] \in Seq(Incoming(c) \cup {Ping}) /\ down[c] # <<>>
      BY <2>1 DEF FlowInv, DownInv
    <3>. QED
      BY <3>1, HeadTailProperties
  <2>3. (x = f => f.to = c) /\ (y = f => f.to = c) /\ (y = f <=> x = f)
    BY <1>0, <2>2 DEF Incoming
  <2>. HIDE DEF x, y
  <2>4. In(down[f.to], f) = In(down'[f.to], f) + One(x, f)
    <3>1. CASE f.to = c
      <4>1. /\ down'[f.to] = Tail(down[f.to]) /\ x = Head(down[f.to]) /\ down[f.to] # <<>>
            /\ down[f.to] \in Seq(Data \cup {Ping})
        BY <1>0, <2>1, <3>1 DEF x
      <4>. QED
        BY <4>1, CountTail
    <3>2. CASE f.to # c
      <4>1. down'[f.to] = down[f.to] /\ One(x, f) = 0
        BY <1>0, <2>1, <2>3, <3>2 DEF One
      <4>. QED
        BY <4>1, TermsAreNat
    <3>. QED
      BY <3>1, <3>2
  <2>5. One(x, f) = One(y, f) /\ One(x, f) \in Nat /\ One(hand'[f.to], f) \in Nat
    BY <2>3 DEF One
  <2>6. One(hand'[f.to], f) = One(hand[f.to], f) + One(y, f)
    <3>1. CASE f.to = c
      <4>1. hand'[f.to] = y /\ hand[f.to] = None
        BY <1>0, <2>1, <3>1
      <4>. QED
        BY <1>0, <2>5, <4>1 DEF One
    <3>2. CASE f.to # c
      <4>1. hand'[f.to] = hand[f.to] /\ One(y, f) = 0
        BY <1>0, <2>1, <2>3, <3>2 DEF One
      <4>. QED
        BY <2>5, <4>1
    <3>. QED
      BY <3>1, <3>2
  <2>7. In(down'[f.to], f) \in Nat
    <3>1. down' \in [Clients -> Seq(Data \cup {Ping})]
      BY <1>1, ClientKeeps DEF FlowInv, DownInv
    <3>. QED
      BY <1>0, <3>1, CountIsNat
  <2>. QED
    BY <2>1, <2>4, <2>5, <2>6, <2>7, TermsAreNat DEF Underway
<1>2. CASE Deliver(c)
  <2>. DEFINE x == hand[c]
              p == x.from
              q == queue[c][p]
  <2>1. /\ x # None /\ hand' = [hand EXCEPT ![c] = None] /\ hand \in [Clients -> Data \cup {None}]
        /\ queue' = [queue EXCEPT ![c][p] = Append(q, x)] /\ UNCHANGED <<up, down, held>>
    BY <1>2 DEF Deliver, FlowInv, HandInv
  <2>2. x \in Data /\ x.to = c /\ p \in Clients
    <3>1. x \in Data /\ x.to = c
      BY <2>1 DEF FlowInv, HandInv, Incoming
    <3>. QED
      BY <3>1, FrameFields
  <2>. HIDE DEF x, p, q
  <2>3. q \in Seq(Data) /\ Append(q, x) \in Seq(Data) /\ q \in Seq(Data \cup {Ping})
    <3>1. q \in Seq(Data)
      BY <2>2 DEF FlowInv, QueueInv, q
    <3>. QED
      BY <2>2, <3>1, AppendProperties
  <2>4. \A u, v \in Clients : queue'[u][v] = IF u = c /\ v = p THEN Append(q, x) ELSE queue[u][v]
    <3>1. queue \in [Clients -> [Clients -> Seq(Data)]]
      BY DEF FlowInv, QueueInv
    <3>. QED
      BY <2>1, <2>2, <2>3, <3>1
  <2>5. In(queue'[f.to][f.from], f) = In(queue[f.to][f.from], f) + One(x, f)
    <3>1. CASE f.to = c /\ f.from = p
      <4>1. queue'[f.to][f.from] = Append(q, x) /\ queue[f.to][f.from] = q
        BY <1>0, <2>4, <3>1 DEF q
      <4>2. x \in Data \cup {Ping}
        BY <2>2
      <4>3. In(Append(q, x), f) = In(q, f) + One(x, f)
        BY <2>3, <4>2, CountAppend
      <4>. QED
        BY <4>1, <4>3
    <3>2. CASE ~(f.to = c /\ f.from = p)
      <4>1. queue'[f.to][f.from] = queue[f.to][f.from]
        BY <1>0, <2>4, <3>2
      <4>2. One(x, f) = 0
        BY <2>2, <3>2 DEF One, p
      <4>. QED
        BY <4>1, <4>2, TermsAreNat
    <3>. QED
      BY <3>1, <3>2
  <2>6. One(hand'[f.to], f) + One(x, f) = One(hand[f.to], f)
    <3>1. CASE f.to = c
      <4>1. hand'[f.to] = None /\ hand[f.to] = x
        BY <1>0, <2>1, <3>1 DEF x
      <4>2. One(None, f) = 0 /\ One(x, f) \in Nat
        BY <1>0 DEF One
      <4>. QED
        BY <4>1, <4>2
    <3>2. CASE f.to # c
      <4>1. hand'[f.to] = hand[f.to] /\ One(x, f) = 0
        BY <1>0, <2>1, <2>2, <3>2 DEF One
      <4>. QED
        BY <4>1, TermsAreNat
    <3>. QED
      BY <3>1, <3>2
  <2>7. One(x, f) \in Nat /\ One(hand'[f.to], f) \in Nat
    BY DEF One
  <2>. QED
    BY <2>1, <2>5, <2>6, <2>7, TermsAreNat DEF Underway
<1>. QED
  BY <1>1, <1>2

\* The server takes a frame from one socket and writes it into the other.
LEMMA ServerCounts ==
    ASSUME FlowInv, NEW c \in Clients, ServerRead(c) \/ Pong(c) \/ LockRoom(c) \/ Forward(c),
           NEW f \in Data
    PROVE  Underway(f)' = Underway(f)
<1>0. f.from \in Clients /\ f.to \in Clients /\ f # Ping /\ f # None
  BY FrameFields
<1>1. /\ up \in [Clients -> Seq(Data \cup {Ping})] /\ down \in [Clients -> Seq(Data \cup {Ping})]
      /\ held \in [Clients -> Data \cup {Ping, None}]
  BY DEF FlowInv, UpInv, DownInv, HeldInv
<1>2. CASE ServerRead(c)
  <2>. DEFINE x == Head(up[c])
  <2>1. /\ up[c] # <<>> /\ held[c] = None /\ held' = [held EXCEPT ![c] = x]
        /\ up' = [up EXCEPT ![c] = Tail(@)] /\ UNCHANGED <<down, queue, hand>>
    BY <1>2 DEF ServerRead
  <2>2. x \in Outgoing(c) \cup {Ping}
    <3>1. up[c] \in Seq(Outgoing(c) \cup {Ping}) /\ up[c] # <<>>
      BY <2>1 DEF FlowInv, UpInv
    <3>. QED
      BY <3>1, HeadTailProperties
  <2>3. x = f => f.from = c
    BY <1>0, <2>2 DEF Outgoing
  <2>. HIDE DEF x
  <2>4. In(up[f.from], f) = In(up'[f.from], f) + One(x, f)
    <3>1. CASE f.from = c
      <4>1. /\ up'[f.from] = Tail(up[f.from]) /\ x = Head(up[f.from]) /\ up[f.from] # <<>>
            /\ up[f.from] \in Seq(Data \cup {Ping})
        BY <1>0, <1>1, <2>1, <3>1 DEF x
      <4>. QED
        BY <4>1, CountTail
    <3>2. CASE f.from # c
      <4>1. up'[f.from] = up[f.from] /\ One(x, f) = 0
        BY <1>0, <1>1, <2>1, <2>3, <3>2 DEF One
      <4>. QED
        BY <4>1, TermsAreNat
    <3>. QED
      BY <3>1, <3>2
  <2>5. One(x, f) \in Nat /\ One(held'[f.from], f) \in Nat
    BY DEF One
  <2>6. One(held'[f.from], f) = One(held[f.from], f) + One(x, f)
    <3>1. CASE f.from = c
      <4>1. held'[f.from] = x /\ held[f.from] = None
        BY <1>0, <1>1, <2>1, <3>1
      <4>. QED
        BY <1>0, <2>5, <4>1 DEF One
    <3>2. CASE f.from # c
      <4>1. held'[f.from] = held[f.from] /\ One(x, f) = 0
        BY <1>0, <1>1, <2>1, <2>3, <3>2 DEF One
      <4>. QED
        BY <2>5, <4>1
    <3>. QED
      BY <3>1, <3>2
  <2>7. In(up'[f.from], f) \in Nat
    <3>1. up' \in [Clients -> Seq(Data \cup {Ping})]
      BY <1>2, ServerKeeps DEF FlowInv, UpInv
    <3>. QED
      BY <1>0, <3>1, CountIsNat
  <2>. QED
    BY <2>1, <2>4, <2>5, <2>6, <2>7, TermsAreNat DEF Underway
<1>3. CASE Pong(c)
  <2>1. /\ held[c] = Ping /\ held' = [held EXCEPT ![c] = None]
        /\ down' = [down EXCEPT ![c] = Append(@, Ping)] /\ UNCHANGED <<up, queue, hand>>
    BY <1>3 DEF Pong
  <2>2. One(Ping, f) = 0 /\ One(None, f) = 0
    BY <1>0 DEF One
  <2>3. One(held'[f.from], f) = One(held[f.from], f)
    BY <1>0, <1>1, <2>1, <2>2
  <2>4. In(down'[f.to], f) = In(down[f.to], f)
    <3>1. CASE f.to = c
      <4>1. down'[f.to] = Append(down[f.to], Ping) /\ down[f.to] \in Seq(Data \cup {Ping})
        BY <1>0, <1>1, <2>1, <3>1
      <4>2. Ping \in Data \cup {Ping}
        OBVIOUS
      <4>3. In(Append(down[f.to], Ping), f) = In(down[f.to], f) + One(Ping, f)
        BY <4>1, <4>2, CountAppend
      <4>. QED
        BY <2>2, <4>1, <4>3, TermsAreNat
    <3>2. CASE f.to # c
      BY <1>0, <1>1, <2>1, <3>2
    <3>. QED
      BY <3>1, <3>2
  <2>. QED
    BY <2>1, <2>3, <2>4 DEF Underway
<1>4. CASE LockRoom(c)
  BY <1>4 DEF LockRoom, Underway
<1>5. CASE Forward(c)
  <2>. DEFINE x == held[c]
              t == x.to
  <2>1. x \in Data /\ x \in Outgoing(c)
    <3>1. x \in Data /\ x # Ping /\ x # None
      BY <1>5, FrameFields, RelayFlowAssumption DEF Forward, FlowInv, LockInv
    <3>. QED
      BY <3>1 DEF FlowInv, HeldInv
  <2>2. t \in Clients /\ x.from = c
    BY <2>1, FrameFields DEF Outgoing
  <2>3. /\ down' = [down EXCEPT ![t] = Append(@, x)] /\ held' = [held EXCEPT ![c] = None]
        /\ UNCHANGED <<up, queue, hand>>
    BY <1>5 DEF Forward
  <2>. HIDE DEF x, t
  <2>4. One(x, f) \in Nat /\ One(held'[f.from], f) \in Nat /\ One(None, f) = 0
    BY <1>0 DEF One
  <2>5. One(held'[f.from], f) + One(x, f) = One(held[f.from], f)
    <3>1. CASE f.from = c
      <4>1. held'[f.from] = None /\ held[f.from] = x
        BY <1>0, <1>1, <2>3, <3>1 DEF x
      <4>. QED
        BY <2>4, <4>1
    <3>2. CASE f.from # c
      <4>1. held'[f.from] = held[f.from] /\ One(x, f) = 0
        BY <1>0, <1>1, <2>2, <2>3, <3>2 DEF One
      <4>. QED
        BY <4>1, TermsAreNat
    <3>. QED
      BY <3>1, <3>2
  <2>6. In(down'[f.to], f) = In(down[f.to], f) + One(x, f)
    <3>1. CASE f.to = t
      <4>1. down'[f.to] = Append(down[f.to], x) /\ down[f.to] \in Seq(Data \cup {Ping})
        BY <1>0, <1>1, <2>2, <2>3, <3>1
      <4>2. x \in Data \cup {Ping}
        BY <2>1
      <4>. QED
        BY <4>1, <4>2, CountAppend
    <3>2. CASE f.to # t
      <4>1. down'[f.to] = down[f.to] /\ One(x, f) = 0
        BY <1>0, <1>1, <2>2, <2>3, <3>2 DEF One, t
      <4>. QED
        BY <4>1, TermsAreNat
    <3>. QED
      BY <3>1, <3>2
  <2>. QED
    BY <2>3, <2>4, <2>5, <2>6, TermsAreNat DEF Underway
<1>. QED
  BY <1>2, <1>3, <1>4, <1>5

-----------------------------------------------------------------------------
(* The counts of a transfer *)

\* The files that are accounted for, without the ones that are wanted.
Balance(s) == left[s] + Underway(Chunk(s)) + (IF s \in ack THEN 1 ELSE 0) - want[s]
Answers(s) == Underway(ApplyOK(s)) + want[s]

LEMMA TransferTypes ==
    ASSUME FlowInv, NEW s \in Sends
    PROVE  /\ left[s] \in Nat /\ want[s] \in Nat /\ s[1] \in Clients /\ s[2] \in Clients
           /\ Underway(Chunk(s)) \in Nat /\ Underway(ApplyOK(s)) \in Nat
           /\ left \in [Sends -> Nat] /\ want \in [Sends -> Nat]
           /\ s \in ack => want[s] > 0
<1>1. Underway(Chunk(s)) \in Nat /\ Underway(ApplyOK(s)) \in Nat
  BY FrameKinds, TermsAreNat
<1>. QED
  BY <1>1, NewFrame DEF FlowInv, AckInv, RestInv

LEMMA PrimedTypes ==
    ASSUME FlowInv', NEW s \in Sends
    PROVE  Underway(Chunk(s))' \in Nat /\ Underway(ApplyOK(s))' \in Nat
  BY FrameKinds, NextTermsAreNat

LEMMA EngineCounts ==
    ASSUME FlowInv, NEW s \in Sends, Transfer(s), NEW t \in Sends
    PROVE  Balance(t)' = Balance(t) /\ Answers(t)' <= Answers(t)
<1>. DEFINE chunk == Chunk(s)
            ok == ApplyOK(s)
            b == Underway(Chunk(t))
            k == Underway(ApplyOK(t))
            a == IF t \in ack THEN 1 ELSE 0
<1>0. /\ left[t] \in Nat /\ want[t] \in Nat /\ b \in Nat /\ k \in Nat /\ a \in Nat
      /\ left \in [Sends -> Nat] /\ want \in [Sends -> Nat] /\ (s \in ack => want[s] > 0)
  BY TransferTypes
<1>1. /\ One(chunk, Chunk(t)) = (IF s = t THEN 1 ELSE 0) /\ One(chunk, ApplyOK(t)) = 0
      /\ One(ok, ApplyOK(t)) = (IF s = t THEN 1 ELSE 0) /\ One(ok, Chunk(t)) = 0
  BY FrameKinds DEF One
<1>2. /\ s[1] \in Clients /\ s[2] \in Clients /\ chunk \in Data /\ ok \in Data
      /\ chunk.from = s[1] /\ ok.from = s[2] /\ Chunk(t) \in Data /\ ApplyOK(t) \in Data
  BY FrameKinds, NewFrame
<1>. HIDE DEF chunk, ok
<1>3. CASE SendChunk(s)
  <2>1. /\ Write(s[1], chunk) /\ UNCHANGED <<down, queue, hand, held>>
        /\ left[s] > 0 /\ left' = [left EXCEPT ![s] = @ - 1] /\ want' = want /\ ack' = ack
    BY <1>3 DEF SendChunk, Chunk, chunk
  <2>2. b' = b + One(chunk, Chunk(t)) /\ k' = k + One(chunk, ApplyOK(t))
    BY <1>2, <2>1, WriteCounts
  <2>3. left'[t] = left[t] - (IF s = t THEN 1 ELSE 0) /\ want'[t] = want[t] /\ a' = a
    BY <1>0, <2>1
  <2>. HIDE DEF a, b, k
  <2>4. left'[t] + b' + a' - want'[t] = left[t] + b + a - want[t] /\ k' + want'[t] <= k + want[t]
    BY <1>0, <1>1, <2>2, <2>3
  <2>. QED
    BY <2>4 DEF Balance, Answers, a, b, k
<1>4. CASE ReadApplyOK(s)
  <2>1. /\ queue[s[1]][s[2]] # <<>> /\ queue' = [queue EXCEPT ![s[1]][s[2]] = Tail(@)]
        /\ UNCHANGED <<up, down, hand, held>> /\ UNCHANGED <<left, want, ack>>
    BY <1>4 DEF ReadApplyOK
  <2>2. Head(queue[s[1]][s[2]]) = ok
    <3>1. queue[s[1]][s[2]] \in Seq(Data)
      BY <1>2 DEF FlowInv, QueueInv
    <3>2. 1 \in DOMAIN queue[s[1]][s[2]] /\ Head(queue[s[1]][s[2]]) = queue[s[1]][s[2]][1]
      BY <2>1, <3>1, EmptySeq, LenProperties
    <3>3. queue[s[1]][s[2]][1] = Frame(s[2], s[1], "APPLY_OK")
      BY <3>2, Apart DEF TransfersApart
    <3>. QED
      BY <3>2, <3>3 DEF ApplyOK, ok
  <2>3. b = b' + One(ok, Chunk(t)) /\ k = k' + One(ok, ApplyOK(t))
    BY <1>2, <2>1, <2>2, TakeCounts
  <2>4. left'[t] = left[t] /\ want'[t] = want[t] /\ a' = a
    BY <2>1
  <2>5. b' \in Nat /\ k' \in Nat
    BY TransferKeeps, PrimedTypes
  <2>. HIDE DEF a, b, k
  <2>6. left'[t] + b' + a' - want'[t] = left[t] + b + a - want[t] /\ k' + want'[t] <= k + want[t]
    BY <1>0, <1>1, <2>3, <2>4, <2>5
  <2>. QED
    BY <2>6 DEF Balance, Answers, a, b, k
<1>5. CASE ReceiveChunk(s)
  <2>1. /\ queue[s[2]][s[1]] # <<>> /\ queue' = [queue EXCEPT ![s[2]][s[1]] = Tail(@)]
        /\ UNCHANGED <<up, down, hand, held>> /\ UNCHANGED <<left, want>>
        /\ s \notin ack /\ ack' = ack \cup {s}
    BY <1>5 DEF ReceiveChunk
  <2>2. Head(queue[s[2]][s[1]]) = chunk
    <3>1. queue[s[2]][s[1]] \in Seq(Data)
      BY <1>2 DEF FlowInv, QueueInv
    <3>2. 1 \in DOMAIN queue[s[2]][s[1]] /\ Head(queue[s[2]][s[1]]) = queue[s[2]][s[1]][1]
      BY <2>1, <3>1, EmptySeq, LenProperties
    <3>3. queue[s[2]][s[1]][1] = Frame(s[1], s[2], "CHUNK")
      BY <3>2, Apart DEF TransfersApart
    <3>. QED
      BY <3>2, <3>3 DEF Chunk, chunk
  <2>3. b = b' + One(chunk, Chunk(t)) /\ k = k' + One(chunk, ApplyOK(t))
    BY <1>2, <2>1, <2>2, TakeCounts
  <2>4. left'[t] = left[t] /\ want'[t] = want[t] /\ a' = a + (IF s = t THEN 1 ELSE 0)
    BY <2>1
  <2>5. b' \in Nat /\ k' \in Nat
    BY TransferKeeps, PrimedTypes
  <2>. HIDE DEF a, b, k
  <2>6. left'[t] + b' + a' - want'[t] = left[t] + b + a - want[t] /\ k' + want'[t] <= k + want[t]
    BY <1>0, <1>1, <2>3, <2>4, <2>5
  <2>. QED
    BY <2>6 DEF Balance, Answers, a, b, k
<1>6. CASE WriteApplyOK(s)
  <2>1. /\ Write(s[2], ok) /\ UNCHANGED <<down, queue, hand, held>>
        /\ s \in ack /\ ack' = ack \ {s} /\ want' = [want EXCEPT ![s] = @ - 1] /\ left' = left
    BY <1>6 DEF WriteApplyOK, ApplyOK, ok
  <2>2. b' = b + One(ok, Chunk(t)) /\ k' = k + One(ok, ApplyOK(t))
    BY <1>2, <2>1, WriteCounts
  <2>3. /\ left'[t] = left[t] /\ want'[t] = want[t] - (IF s = t THEN 1 ELSE 0)
        /\ a' = a - (IF s = t THEN 1 ELSE 0)
    BY <1>0, <2>1
  <2>. HIDE DEF a, b, k
  <2>4. left'[t] + b' + a' - want'[t] = left[t] + b + a - want[t] /\ k' + want'[t] <= k + want[t]
    BY <1>0, <1>1, <2>2, <2>3
  <2>. QED
    BY <2>4 DEF Balance, Answers, a, b, k
<1>. QED
  BY <1>3, <1>4, <1>5, <1>6 DEF Transfer

LEMMA StepCounts ==
    ASSUME FlowInv, [Next]_vars, NEW t \in Sends
    PROVE  Balance(t)' = Balance(t) /\ Answers(t)' <= Answers(t)
<1>0. /\ Underway(Chunk(t)) \in Nat /\ Underway(ApplyOK(t)) \in Nat /\ want[t] \in Nat
      /\ Chunk(t) \in Data /\ ApplyOK(t) \in Data
  BY TransferTypes, FrameKinds
<1>1. ASSUME NEW s \in Sends, Transfer(s)
      PROVE  Balance(t)' = Balance(t) /\ Answers(t)' <= Answers(t)
  BY <1>1, EngineCounts
<1>2. ASSUME UNCHANGED <<left, want, ack>>, Underway(Chunk(t))' = Underway(Chunk(t)),
             Underway(ApplyOK(t))' = Underway(ApplyOK(t))
      PROVE  Balance(t)' = Balance(t) /\ Answers(t)' <= Answers(t)
  BY <1>0, <1>2 DEF Balance, Answers
<1>3. ASSUME NEW c \in Clients, Step(c)
      PROVE  Balance(t)' = Balance(t) /\ Answers(t)' <= Answers(t)
  <2>1. CASE WritePing(c)
    <3>1. Write(c, Ping) /\ UNCHANGED <<down, queue, hand, held>> /\ UNCHANGED <<left, want, ack>>
      BY <2>1 DEF WritePing
    <3>2. One(Ping, Chunk(t)) = 0 /\ One(Ping, ApplyOK(t)) = 0
      BY <1>0, FrameFields DEF One
    <3>3. /\ Underway(Chunk(t))' = Underway(Chunk(t)) + One(Ping, Chunk(t))
          /\ Underway(ApplyOK(t))' = Underway(ApplyOK(t)) + One(Ping, ApplyOK(t))
      BY <1>0, <3>1, WriteCounts
    <3>. QED
      BY <1>0, <1>2, <3>1, <3>2, <3>3
  <2>2. CASE ReadFrame(c) \/ Deliver(c)
    <3>1. UNCHANGED <<left, want, ack>>
      BY <2>2 DEF ReadFrame, Deliver
    <3>. QED
      BY <1>0, <1>2, <2>2, <3>1, ClientCounts
  <2>3. CASE ServerRead(c) \/ Pong(c) \/ LockRoom(c) \/ Forward(c)
    <3>1. UNCHANGED <<left, want, ack>>
      BY <2>3 DEF ServerRead, Pong, LockRoom, Forward
    <3>. QED
      BY <1>0, <1>2, <2>3, <3>1, ServerCounts
  <2>. QED
    BY <1>3, <2>1, <2>2, <2>3 DEF Step
<1>4. ASSUME UNCHANGED <<left, want, ack>>, UNCHANGED <<up, down, queue, hand, held>>
      PROVE  Balance(t)' = Balance(t) /\ Answers(t)' <= Answers(t)
  BY <1>2, <1>4 DEF Underway
<1>5. ASSUME NEW c \in Clients, Tick(c)
      PROVE  Balance(t)' = Balance(t) /\ Answers(t)' <= Answers(t)
  BY <1>4, <1>5 DEF Tick
<1>6. CASE UNCHANGED vars
  BY <1>4, <1>6 DEF vars
<1>. QED
  BY <1>1, <1>3, <1>5, <1>6 DEF Next

-----------------------------------------------------------------------------
(* No frame is lost or doubled *)

\* Every file of a NEED that is not acknowledged is still to be sent, or there
\* is exactly one CHUNK under way for it, or its receiver is about to write the
\* APPLY_OK: no CHUNK is lost between sendFiles and receiveFile, and none comes
\* twice, through two sockets, a locked room and a bounded queue.
ChunksAreExact ==
    \A s \in Sends :
        want[s] = left[s] + Underway(Chunk(s)) + (IF s \in ack THEN 1 ELSE 0)

\* The APPLY_OKs that sendFiles has not read and the files that are not
\* acknowledged are no more than the files of the NEED (receiveFile writes one
\* APPLY_OK for each file).
OKsAreBounded ==
    \E load \in Loads : \A s \in Sends : Underway(ApplyOK(s)) + want[s] <= load[s]

CountInv == FlowInv /\ ChunksAreExact /\ OKsAreBounded

LEMMA CountInit == Init => CountInv
<1>. SUFFICES ASSUME Init PROVE CountInv
  OBVIOUS
<1>0. FlowInv
  BY InitEstablishes
<1>1. ASSUME NEW f \in Data PROVE Underway(f) = 0
  <2>1. f.from \in Clients /\ f.to \in Clients /\ f # None
    BY FrameFields
  <2>2. /\ up[f.from] = <<>> /\ down[f.to] = <<>> /\ queue[f.to][f.from] = <<>>
        /\ hand[f.to] = None /\ held[f.from] = None
    BY <2>1 DEF Init
  <2>3. In(<<>>, f) = 0 /\ One(None, f) = 0
    BY <2>1, CountEmpty DEF One
  <2>. QED
    BY <2>2, <2>3 DEF Underway
<1>2. left \in Loads /\ want = left /\ ack = {}
  BY DEF Init
<1>3. ASSUME NEW s \in Sends
      PROVE  /\ want[s] = left[s] + Underway(Chunk(s)) + (IF s \in ack THEN 1 ELSE 0)
             /\ Underway(ApplyOK(s)) + want[s] <= left[s]
  <2>1. Underway(Chunk(s)) = 0 /\ Underway(ApplyOK(s)) = 0
    BY <1>1, FrameKinds
  <2>2. left[s] \in Nat /\ want[s] = left[s]
    BY <1>0, <1>2, TransferTypes
  <2>. QED
    BY <1>2, <2>1, <2>2
<1>. QED
  BY <1>0, <1>2, <1>3 DEF CountInv, ChunksAreExact, OKsAreBounded

LEMMA CountNext == CountInv /\ [Next]_vars => CountInv'
<1>. SUFFICES ASSUME CountInv, [Next]_vars PROVE CountInv'
  OBVIOUS
<1>0. FlowInv /\ FlowInv'
  BY NextKeeps DEF CountInv
<1>1. ASSUME NEW t \in Sends
      PROVE  want'[t] = left'[t] + Underway(Chunk(t))' + (IF t \in ack' THEN 1 ELSE 0)
  <2>. DEFINE b == Underway(Chunk(t))
              a == IF t \in ack THEN 1 ELSE 0
  <2>1. b \in Nat /\ a \in Nat /\ left[t] \in Nat /\ want[t] \in Nat
    BY <1>0, TransferTypes
  <2>2. b' \in Nat /\ a' \in Nat /\ left'[t] \in Nat /\ want'[t] \in Nat
    BY <1>0, PrimedTypes DEF FlowInv, AckInv, RestInv
  <2>3. want[t] = left[t] + b + a
    BY DEF CountInv, ChunksAreExact
  <2>4. left'[t] + b' + a' - want'[t] = left[t] + b + a - want[t]
    BY <1>0, StepCounts DEF Balance
  <2>. HIDE DEF a, b
  <2>5. left'[t] + b' + a' - want'[t] = 0
    <3>1. left[t] + b + a - want[t] = 0
      BY <2>1, <2>3
    <3>. QED
      BY <2>4, <3>1
  <2>6. want'[t] = left'[t] + b' + a'
    <3>1. b' \in Int /\ a' \in Int
      BY <2>2
    <3>2. left'[t] \in Int /\ want'[t] \in Int
      BY <2>2
    <3>. QED
      BY <2>5, <3>1, <3>2
  <2>. QED
    BY <2>6 DEF a, b
<1>2. PICK load \in Loads : \A t \in Sends : Underway(ApplyOK(t)) + want[t] <= load[t]
  BY DEF CountInv, OKsAreBounded
<1>3. ASSUME NEW t \in Sends PROVE (Underway(ApplyOK(t)) + want[t])' <= load[t]
  <2>. DEFINE k == Underway(ApplyOK(t)) + want[t]
  <2>0. load[t] \in Nat
    BY RelayFlowAssumption
  <2>1. k \in Nat /\ k <= load[t] /\ load[t] \in Nat
    BY <1>0, <1>2, <2>0, TransferTypes
  <2>2. k' \in Nat
    <3>1. Underway(ApplyOK(t))' \in Nat /\ want'[t] \in Nat
      BY <1>0, PrimedTypes DEF FlowInv, AckInv
    <3>. QED
      BY <3>1
  <2>3. k' <= k
    BY <1>0, StepCounts DEF Answers
  <2>. HIDE DEF k
  <2>4. k' <= load[t]
    BY <2>1, <2>2, <2>3
  <2>. QED
    BY <2>4 DEF k
<1>. QED
  BY <1>0, <1>1, <1>2, <1>3 DEF CountInv, ChunksAreExact, OKsAreBounded

LEMMA Counting == Spec => []CountInv
  BY CountInit, CountNext, PTL DEF Spec

\* Whatever happens in the room, each file of a NEED arrives exactly once, and
\* is acknowledged exactly once (engine.go: sendFiles, receiveFile).
THEOREM FilesAreExact == Spec => [](ChunksAreExact /\ OKsAreBounded)
<1>1. CountInv => ChunksAreExact /\ OKsAreBounded
  BY DEF CountInv
<1>. QED
  BY <1>1, Counting, PTL

-----------------------------------------------------------------------------
(* Nobody waits for ever *)

\* deliver finds a place for the frame that Client.Run has read: a client that
\* sends and reads no APPLY_OK does not keep its reader, or the read loop that
\* writes to it and has the room's lock, from going on.
ReadersAreFree == \A c \in Clients : hand[c] # None => Len(queue[c][hand[c].from]) < QueueCap

\* What a queue holds for an engine, and how long it is.
LEMMA QueueLengths ==
    ASSUME FlowInv, NEW s \in Sends
    PROVE  /\ queue[s[2]][s[1]] \in Seq(Data) /\ queue[s[1]][s[2]] \in Seq(Data)
           /\ Len(queue[s[2]][s[1]]) = In(queue[s[2]][s[1]], Chunk(s))
           /\ Len(queue[s[1]][s[2]]) = In(queue[s[1]][s[2]], ApplyOK(s))
<1>1. s[1] \in Clients /\ s[2] \in Clients
  BY NewFrame
<1>. DEFINE q == queue[s[2]][s[1]]
            r == queue[s[1]][s[2]]
<1>2. q \in Seq(Data) /\ r \in Seq(Data)
  BY <1>1 DEF FlowInv, QueueInv
<1>3. (\A i \in DOMAIN q : q[i] = Chunk(s)) /\ (\A i \in DOMAIN r : r[i] = ApplyOK(s))
  BY Apart DEF TransfersApart, Chunk, ApplyOK
<1>. HIDE DEF q, r
<1>4. q \in Seq(Data \cup {Ping}) /\ r \in Seq(Data \cup {Ping})
  BY <1>2
<1>5. Len(q) = In(q, Chunk(s)) /\ Len(r) = In(r, ApplyOK(s))
  BY <1>3, <1>4, CountAll
<1>. QED
  BY <1>2, <1>5 DEF q, r

\* A frame that is between two clients belongs to a transfer.
LEMMA FrameOf ==
    ASSUME NEW f \in Data, Belongs(f)
    PROVE  \E s \in Sends : f = Chunk(s) \/ f = ApplyOK(s)
<1>1. PICK x \in Clients, y \in Clients, w \in {"CHUNK", "APPLY_OK"} : f = Frame(x, y, w)
  BY DEF Data
<1>2. f.from = x /\ f.to = y /\ f.what = w
  BY <1>1 DEF Frame
<1>3. CASE w = "CHUNK"
  <2>1. <<x, y>> \in Sends /\ Chunk(<<x, y>>) = f
    BY <1>1, <1>2, <1>3 DEF Belongs, Chunk
  <2>. QED
    BY <2>1
<1>4. CASE w = "APPLY_OK"
  <2>1. <<y, x>> \in Sends /\ ApplyOK(<<y, x>>) = f
    BY <1>1, <1>2, <1>4 DEF Belongs, ApplyOK
  <2>. QED
    BY <2>1
<1>. QED
  BY <1>3, <1>4

\* A NEED has no more files than a virtual connection has places (256).
NeedsFit == \A load \in Loads : \A s \in Sends : load[s] <= QueueCap

LEMMA FitsAlways == NeedsFit /\ CountInv => ReadersAreFree
<1>. SUFFICES ASSUME NeedsFit, CountInv, NEW c \in Clients, hand[c] # None
              PROVE  Len(queue[c][hand[c].from]) < QueueCap
  BY DEF ReadersAreFree
<1>. DEFINE f == hand[c]
<1>0. FlowInv /\ QueueCap \in Nat
  BY RelayFlowAssumption DEF CountInv
<1>1. f \in Data /\ f.to = c /\ Belongs(f)
  BY <1>0 DEF FlowInv, HandInv, Incoming
<1>2. PICK s \in Sends : f = Chunk(s) \/ f = ApplyOK(s)
  BY <1>1, FrameOf
<1>3. PICK load \in Loads : \A t \in Sends : Underway(ApplyOK(t)) + want[t] <= load[t]
  BY DEF CountInv, OKsAreBounded
<1>4. /\ Underway(Chunk(s)) \in Nat /\ Underway(ApplyOK(s)) \in Nat
      /\ want[s] \in Nat /\ left[s] \in Nat /\ load[s] \in Nat /\ load[s] <= QueueCap
  <2>1. load[s] \in Nat
    BY RelayFlowAssumption
  <2>. QED
    BY <1>0, <2>1, TransferTypes DEF NeedsFit
<1>5. Underway(Chunk(s)) <= want[s]
  <2>1. want[s] = left[s] + Underway(Chunk(s)) + (IF s \in ack THEN 1 ELSE 0)
    BY DEF CountInv, ChunksAreExact
  <2>. QED
    BY <1>4, <2>1
<1>6. Underway(ApplyOK(s)) + want[s] <= load[s]
  BY <1>3
<1>7. Underway(f) <= QueueCap /\ Underway(f) \in Nat
  <2>1. Underway(Chunk(s)) <= QueueCap /\ Underway(ApplyOK(s)) <= QueueCap
    BY <1>0, <1>4, <1>5, <1>6
  <2>. QED
    BY <1>2, <1>4, <2>1
<1>8. Len(queue[c][f.from]) = In(queue[f.to][f.from], f)
  BY <1>0, <1>1, <1>2, FrameKinds, QueueLengths
<1>9. One(hand[f.to], f) = 1
  BY <1>1 DEF One
<1>10. In(queue[f.to][f.from], f) + 1 <= Underway(f)
  BY <1>0, <1>1, <1>9, TermsAreNat DEF Underway
<1>11. In(queue[f.to][f.from], f) \in Nat
  BY <1>0, <1>1, TermsAreNat
<1>. HIDE DEF f
<1>12. Len(queue[c][f.from]) < QueueCap
  BY <1>0, <1>7, <1>8, <1>10, <1>11
<1>. QED
  BY <1>12 DEF f

LEMMA RoomAtLeast == Room(<<>>)
<1>1. Len(<<>>) = 0 /\ SocketCap > 0
  BY RelayFlowAssumption
<1>. QED
  BY <1>1, RelayFlowAssumption DEF Room

\* Where every reader is free, nothing but the end stops the room.
LEMMA GoesOn == CountInv /\ ReadersAreFree /\ Standstill => AllDone
<1>. SUFFICES ASSUME CountInv, ReadersAreFree,
                     \A c \in Clients : ~CanStep(c), \A s \in Sends : ~CanTransfer(s)
              PROVE  AllDone
  BY DEF Standstill
<1>0. FlowInv /\ Room(<<>>)
  BY RoomAtLeast DEF CountInv
<1>1. \A c \in Clients : hand[c] = None
  BY DEF ReadersAreFree, CanStep
<1>2. \A c \in Clients : down[c] = <<>>
  BY <1>1 DEF CanStep
<1>3. lock = None
  <2>1. lock # None => lock \in Clients /\ held[lock] \in Data
    BY <1>0 DEF FlowInv, LockInv
  <2>2. lock # None => held[lock].to \in Clients
    BY <2>1, FrameFields
  <2>3. lock # None => CanStep(lock)
    BY <1>0, <1>2, <2>1, <2>2 DEF CanStep
  <2>. QED
    BY <2>1, <2>3
<1>4. \A c \in Clients : held[c] = None
  BY <1>0, <1>2, <1>3 DEF CanStep
<1>5. \A c \in Clients : up[c] = <<>>
  BY <1>4 DEF CanStep
<1>6. \A c \in Clients : c \notin ping
  BY <1>0, <1>5 DEF CanStep
<1>7. ASSUME NEW s \in Sends
      PROVE  /\ left[s] = 0 /\ want[s] = 0 /\ s \notin ack
             /\ queue[s[1]][s[2]] = <<>> /\ queue[s[2]][s[1]] = <<>>
  <2>0. /\ s[1] \in Clients /\ s[2] \in Clients /\ left[s] \in Nat /\ want[s] \in Nat
        /\ Chunk(s) \in Data /\ Chunk(s).from = s[1] /\ Chunk(s).to = s[2]
    BY <1>0, TransferTypes, FrameKinds
  <2>1. left[s] = 0
    BY <1>0, <1>5, <2>0 DEF CanTransfer
  <2>2. s \notin ack
    BY <1>0, <1>5, <2>0 DEF CanTransfer
  <2>3. queue[s[1]][s[2]] = <<>>
    BY <2>1 DEF CanTransfer
  <2>. DEFINE q == queue[s[2]][s[1]]
  <2>4. Underway(Chunk(s)) = In(q, Chunk(s))
    <3>1. In(<<>>, Chunk(s)) = 0 /\ One(None, Chunk(s)) = 0
      BY <2>0, CountEmpty, FrameFields DEF One
    <3>2. Underway(Chunk(s)) = 0 + 0 + 0 + 0 + In(q, Chunk(s))
      BY <1>1, <1>2, <1>4, <1>5, <2>0, <3>1 DEF Underway
    <3>3. In(q, Chunk(s)) \in Nat
      BY <1>0, <2>0, TermsAreNat
    <3>. QED
      BY <3>2, <3>3
  <2>5. Len(q) = In(q, Chunk(s)) /\ q \in Seq(Data)
    BY <1>0, QueueLengths
  <2>6. want[s] = Len(q)
    <3>1. want[s] = left[s] + Underway(Chunk(s)) + (IF s \in ack THEN 1 ELSE 0)
      BY DEF CountInv, ChunksAreExact
    <3>2. Len(q) \in Nat
      BY <2>5, LenProperties
    <3>3. want[s] = 0 + Len(q) + 0
      BY <2>1, <2>2, <2>4, <2>5, <3>1
    <3>. QED
      BY <3>2, <3>3
  <2>7. q = <<>>
    <3>1. q # <<>> => Len(q) > 0
      BY <2>5, EmptySeq, LenProperties
    <3>2. q # <<>> => CanTransfer(s)
      BY <2>2, <2>6, <3>1 DEF CanTransfer
    <3>. QED
      BY <3>2
  <2>8. want[s] = 0
    BY <2>6, <2>7
  <2>. QED
    BY <2>1, <2>2, <2>3, <2>7, <2>8
<1>. QED
  BY <1>1, <1>2, <1>4, <1>5, <1>6, <1>7 DEF AllDone

\* A reader that waits is behind a full queue of frames of one transfer, and the
\* engine that should read them does something else.
LEMMA Blocked == CountInv /\ ~ReadersAreFree /\ Standstill => \E s \in Sends : Overrun(s)
<1>. SUFFICES ASSUME CountInv, Standstill, NEW c \in Clients, hand[c] # None,
                     ~(Len(queue[c][hand[c].from]) < QueueCap)
              PROVE  \E s \in Sends : Overrun(s)
  BY DEF ReadersAreFree
<1>. DEFINE f == hand[c]
<1>0. FlowInv /\ QueueCap \in Nat \ {0}
  BY RelayFlowAssumption DEF CountInv
<1>1. f \in Data /\ f.to = c /\ Belongs(f)
  BY <1>0 DEF FlowInv, HandInv, Incoming
<1>2. PICK s \in Sends : f = Chunk(s) \/ f = ApplyOK(s)
  BY <1>1, FrameOf
<1>3. /\ s[1] \in Clients /\ s[2] \in Clients /\ left[s] \in Nat /\ want[s] \in Nat
      /\ Underway(Chunk(s)) \in Nat /\ ~CanTransfer(s)
  BY <1>0, TransferTypes DEF Standstill
<1>4. f.from \in Clients
  BY <1>1, FrameFields
<1>. DEFINE q == queue[c][f.from]
<1>5. Len(q) = QueueCap /\ q # <<>>
  <2>1. q \in Seq(Data) /\ Len(q) <= QueueCap
    BY <1>0, <1>4 DEF FlowInv, QueueInv
  <2>2. ~(Len(q) < QueueCap)
    OBVIOUS
  <2>. HIDE DEF q
  <2>3. Len(q) \in Nat
    BY <2>1, LenProperties
  <2>4. Len(q) = QueueCap
    BY <1>0, <2>1, <2>2, <2>3
  <2>5. Len(q) # 0
    BY <1>0, <2>4
  <2>. QED
    BY <2>1, <2>4, <2>5, EmptySeq
<1>6. CASE f = Chunk(s)
  <2>1. c = s[2] /\ f.from = s[1] /\ q = queue[s[2]][s[1]]
    BY <1>1, <1>6, FrameKinds
  <2>2. want[s] > 0
    <3>1. Underway(f) >= 1
      <4>1. hand[f.to] = f
        BY <1>1
      <4>. HIDE DEF f
      <4>. QED
        BY <1>0, <1>1, <4>1, HandIsUnderway
    <3>2. Underway(Chunk(s)) >= 1
      BY <1>6, <3>1
    <3>3. want[s] = left[s] + Underway(Chunk(s)) + (IF s \in ack THEN 1 ELSE 0)
      BY DEF CountInv, ChunksAreExact
    <3>. QED
      BY <1>3, <3>2, <3>3
  <2>3. s \in ack
    BY <1>3, <1>5, <2>1, <2>2 DEF CanTransfer
  <2>. QED
    BY <1>5, <1>6, <2>1, <2>3 DEF Overrun, Chunk
<1>7. CASE f = ApplyOK(s)
  <2>1. c = s[1] /\ f.from = s[2] /\ q = queue[s[1]][s[2]]
    BY <1>1, <1>7, FrameKinds
  <2>2. left[s] # 0
    BY <1>3, <1>5, <2>1 DEF CanTransfer
  <2>3. left[s] > 0
    BY <1>3, <2>2
  <2>. QED
    BY <1>5, <1>7, <2>1, <2>3 DEF Overrun, ApplyOK
<1>. QED
  BY <1>2, <1>6, <1>7

\* With how many files a transfer can overrun a queue.
LEMMA OverrunNeeds ==
    ASSUME CountInv, NEW s \in Sends, Overrun(s)
    PROVE  \E load \in Loads : load[s] > QueueCap + 1
<1>0. FlowInv /\ QueueCap \in Nat
  BY RelayFlowAssumption DEF CountInv
<1>1. PICK load \in Loads : \A t \in Sends : Underway(ApplyOK(t)) + want[t] <= load[t]
  BY DEF CountInv, OKsAreBounded
<1>2. /\ load[s] \in Nat /\ left[s] \in Nat /\ want[s] \in Nat
      /\ Underway(Chunk(s)) \in Nat /\ Underway(ApplyOK(s)) \in Nat
  <2>1. load[s] \in Nat
    BY RelayFlowAssumption
  <2>. QED
    BY <1>0, <2>1, TransferTypes
<1>3. /\ want[s] = left[s] + Underway(Chunk(s)) + (IF s \in ack THEN 1 ELSE 0)
      /\ Underway(ApplyOK(s)) + want[s] <= load[s]
  BY <1>1 DEF CountInv, ChunksAreExact
<1>4. ASSUME NEW f \in Data, hand[f.to] = f, In(queue[f.to][f.from], f) = QueueCap
      PROVE  Underway(f) >= QueueCap + 1
  <2>1. One(hand[f.to], f) = 1
    BY <1>4 DEF One
  <2>. QED
    BY <1>0, <1>4, <2>1, TermsAreNat DEF Underway
<1>5. CASE left[s] > 0 /\ hand[s[1]] = ApplyOK(s) /\ Len(queue[s[1]][s[2]]) = QueueCap
  <2>1. Underway(ApplyOK(s)) >= QueueCap + 1
    <3>1. /\ ApplyOK(s) \in Data /\ hand[ApplyOK(s).to] = ApplyOK(s)
          /\ In(queue[ApplyOK(s).to][ApplyOK(s).from], ApplyOK(s)) = QueueCap
      BY <1>0, <1>5, FrameKinds, QueueLengths
    <3>. QED
      BY <1>4, <3>1
  <2>2. want[s] >= 1
    BY <1>2, <1>3, <1>5
  <2>3. load[s] >= QueueCap + 2
    BY <1>0, <1>2, <1>3, <2>1, <2>2
  <2>4. load[s] > QueueCap + 1
    BY <1>0, <1>2, <2>3
  <2>. QED
    BY <2>4
<1>6. CASE s \in ack /\ hand[s[2]] = Chunk(s) /\ Len(queue[s[2]][s[1]]) = QueueCap
  <2>1. Underway(Chunk(s)) >= QueueCap + 1
    <3>1. /\ Chunk(s) \in Data /\ hand[Chunk(s).to] = Chunk(s)
          /\ In(queue[Chunk(s).to][Chunk(s).from], Chunk(s)) = QueueCap
      BY <1>0, <1>6, FrameKinds, QueueLengths
    <3>. QED
      BY <1>4, <3>1
  <2>2. want[s] = left[s] + Underway(Chunk(s)) + 1
    BY <1>3, <1>6
  <2>3. load[s] >= QueueCap + 2
    BY <1>0, <1>2, <1>3, <2>1, <2>2
  <2>4. load[s] > QueueCap + 1
    BY <1>0, <1>2, <2>3
  <2>. QED
    BY <2>4
<1>. QED
  BY <1>5, <1>6 DEF Overrun, Chunk, ApplyOK

\* Whatever the loads, the buffers and the PINGs: clients, engines and the
\* server's read loops come to wait for each other only where a transfer has
\* overrun the queue of a virtual connection (virtual_conn.go: deliver;
\* server.go: readLoop, forward; engine.go: sendFiles, receiveFile).
THEOREM OnlyOverrunsStop == Spec => []StandstillsAreOverruns
<1>1. CountInv => StandstillsAreOverruns
  BY GoesOn, Blocked DEF StandstillsAreOverruns
<1>. QED
  BY <1>1, Counting, PTL

\* A NEED has at most one file more than a virtual connection has places.
LoadsFit == \A load \in Loads : Fits(load)

\* There is a step to take until everything is done.
NobodyIsStuck == Standstill => AllDone

\* However many transfers go through a room in whatever directions, clients,
\* engines and the server's read loops are never all waiting for each other
\* before everything is done, if each NEED names at most 257 files.
THEOREM SomebodyGoesOn == LoadsFit => (Spec => []NobodyIsStuck)
<1>. SUFFICES ASSUME LoadsFit PROVE Spec => []NobodyIsStuck
  OBVIOUS
<1>1. ASSUME CountInv, NEW s \in Sends PROVE ~Overrun(s)
  <2>. SUFFICES ASSUME Overrun(s) PROVE FALSE
    OBVIOUS
  <2>1. PICK load \in Loads : load[s] > QueueCap + 1
    BY <1>1, OverrunNeeds
  <2>2. load[s] <= QueueCap + 1 /\ load[s] \in Nat /\ QueueCap \in Nat
    BY RelayFlowAssumption DEF LoadsFit, Fits
  <2>. QED
    BY <2>1, <2>2
<1>2. CountInv => NobodyIsStuck
  BY <1>1, GoesOn, Blocked DEF NobodyIsStuck
<1>. QED
  BY <1>2, Counting, PTL

\* A client that sends does not read its APPLY_OKs, and still its Client.Run never
\* waits in deliver, as long as a NEED names no more files than a queue has
\* places (virtual_conn.go: deliver; engine.go: sendFiles).
THEOREM ReadersNeverWait == NeedsFit => (Spec => []ReadersAreFree)
<1>. SUFFICES ASSUME NeedsFit PROVE Spec => []ReadersAreFree
  OBVIOUS
<1>1. CountInv => ReadersAreFree
  BY FitsAlways
<1>. QED
  BY <1>1, Counting, PTL
=============================================================================
