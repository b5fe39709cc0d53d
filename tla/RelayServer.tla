---------------------------- MODULE RelayServer ----------------------------
(***************************************************************************)
(* The relay server (internal/relay/server.go).  Every accepted connection *)
(* runs handleConn in a goroutine of its own: authenticate, register, find *)
(* or make the room, insert the member, answer REGISTER_OK with the peers  *)
(* already there, announce the new peer, forward data in readLoop, and     *)
(* after a read error remove the member and announce that it left.         *)
(* s.mu protects the map of rooms, rm.mu the members of one room; the code *)
(* takes and releases them several times per connection, and each section  *)
(* between two lock operations is one action here.                         *)
(*                                                                         *)
(* A session is one accepted connection.  A room object is named by the    *)
(* session whose handleConn allocated it, so that two objects made for the *)
(* same room key are two rooms.  Frames to a client are modelled by their  *)
(* effect on it (client.go): which peers it was ever told of, and which it *)
(* has attached after reading everything written so far.                   *)
(***************************************************************************)
EXTENDS Integers

CONSTANTS
    Sessions,      \* connections, each accepted at most once
    Peers,         \* peer IDs; a peer that reconnects uses a new session
    Names,         \* sync names
    SyncKeys,      \* sync keys
    Overlap,       \* TRUE: a peer ID may register while its earlier session is open
    None           \* no room, no member, not registered

Registration == [name : Names, key : SyncKeys, peer : Peers]

ASSUME RelayAssumption ==
    None \notin Sessions /\ None \notin Registration /\ SyncKeys # {} /\ Overlap \in BOOLEAN

VARIABLES
    pc,        \* pc[s]: where handleConn of session s is
    conn,      \* conn[s]: "open", "broken" (client gone, socket not closed), "closed"
    reg,       \* reg[s]: the REGISTER payload
    rooms,     \* Server.rooms
    members,   \* members[r][p]: room.members of room object r
    room,      \* room[s]: the room handleConn looked up
    existing,  \* existing[s]: the sessions in the room when s was inserted
    found,     \* found[s]: the room forward or removeMemberIf looked up
    notify,    \* notify[s]: PEER_LEAVE is due if removeMemberIf returns true
    told,      \* told[s]: peers the client of s got a PEER_JOIN for
    view       \* view[s]: peers the client of s has attached

vars == <<pc, conn, reg, rooms, members, room, existing, found, notify, told, view>>

RoomKeys == Names \X SyncKeys
NoMembers == [p \in Peers |-> None]

TypeOK ==
    /\ pc \in [Sessions -> {"none", "auth", "register", "lookup", "insert", "regok", "announce",
                            "loop", "forward", "find", "remove", "unmap", "leave", "done"}]
    /\ conn \in [Sessions -> {"open", "broken", "closed"}]
    /\ reg \in [Sessions -> Registration \cup {None}]
    /\ rooms \in [RoomKeys -> Sessions \cup {None}]
    /\ members \in [Sessions -> [Peers -> Sessions \cup {None}]]
    /\ room \in [Sessions -> Sessions \cup {None}]
    /\ existing \in [Sessions -> SUBSET Sessions]
    /\ found \in [Sessions -> Sessions \cup {None}]
    /\ notify \in [Sessions -> BOOLEAN]
    /\ told \in [Sessions -> SUBSET Peers] /\ view \in [Sessions -> SUBSET Peers]

peer(s) == reg[s].peer

\* Mutant: the sync key is left out of the room key.
RoomKeyByName(s) == <<reg[s].name, CHOOSE k \in SyncKeys : TRUE>>
RoomKey(s) == <<reg[s].name, reg[s].key>>

\* The sessions mapped in room object r.
In(r) == {t \in Sessions : \E p \in Peers : members[r][p] = t}

-----------------------------------------------------------------------------
(* Writing to clients.  A write to an open connection reaches the client;  *)
(* one to a broken connection may succeed, but nobody reads it.            *)

\* PEER_JOIN for the peers P is written to the clients of the sessions S.
TellJoin(S, P) ==
    /\ told' = [t \in Sessions |-> IF t \in S /\ conn[t] = "open" THEN told[t] \cup P ELSE told[t]]
    /\ view' = [t \in Sessions |-> IF t \in S /\ conn[t] = "open" THEN view[t] \cup P ELSE view[t]]

\* PEER_LEAVE for p is written to the clients of the sessions S.
TellLeave(S, p) ==
    view' = [t \in Sessions |-> IF t \in S /\ conn[t] = "open" THEN view[t] \ {p} ELSE view[t]]

Goto(s, l) == pc' = [pc EXCEPT ![s] = l]

\* handleConn returns; its deferred conn.Close runs.
Return(s) == Goto(s, "done") /\ conn' = [conn EXCEPT ![s] = "closed"]

-----------------------------------------------------------------------------
(* handleConn up to the registration *)

Accept(s) ==
    /\ pc[s] = "none"
    /\ Goto(s, "auth") /\ conn' = [conn EXCEPT ![s] = "open"]
    /\ UNCHANGED <<reg, rooms, members, room, existing, found, notify, told, view>>

Authenticate(s) ==
    /\ pc[s] = "auth"
    /\ Goto(s, "register")
    /\ UNCHANGED <<conn, reg, rooms, members, room, existing, found, notify, told, view>>

\* A read error, a frame of the wrong type, a wrong key, an incomplete REGISTER.
Refuse(s) ==
    /\ pc[s] \in {"auth", "register"}
    /\ Return(s)
    /\ UNCHANGED <<reg, rooms, members, room, existing, found, notify, told, view>>

\* Client.Run closes its connection before the daemon dials again; only a data
\* directory in use twice makes the sessions of a peer overlap.
Register(s, r) ==
    /\ pc[s] = "register"
    /\ Overlap \/ \A t \in Sessions : reg[t] = r => conn[t] # "open"
    /\ reg' = [reg EXCEPT ![s] = r]
    /\ Goto(s, "lookup")
    /\ UNCHANGED <<conn, rooms, members, room, existing, found, notify, told, view>>

\* The section under s.mu: find the room or make it.
LookupRoom(s) ==
    /\ pc[s] = "lookup"
    /\ IF rooms[RoomKey(s)] = None
       THEN /\ rooms' = [rooms EXCEPT ![RoomKey(s)] = s]
            /\ members' = [members EXCEPT ![s] = NoMembers]
            /\ room' = [room EXCEPT ![s] = s]
       ELSE /\ room' = [room EXCEPT ![s] = rooms[RoomKey(s)]]
            /\ UNCHANGED <<rooms, members>>
    /\ Goto(s, "insert")
    /\ UNCHANGED <<conn, reg, existing, found, notify, told, view>>

\* What Insert does, with E for the sessions it snapshots.
InsertWith(s, E) ==
    /\ pc[s] = "insert"
    /\ LET old == members[room[s]][peer(s)]
       IN conn' = IF old = None THEN conn ELSE [conn EXCEPT ![old] = "closed"]
    /\ existing' = [existing EXCEPT ![s] = E]
    /\ members' = [members EXCEPT ![room[s]][peer(s)] = s]
    /\ Goto(s, "regok")
    /\ UNCHANGED <<reg, rooms, room, found, notify, told, view>>

\* Mutant: the peers already in the room are not collected.
InsertBlind(s) == InsertWith(s, {})

\* Mutant: peers that left the room are collected too.
InsertHoles(s) == InsertWith(s, {members[room[s]][p] : p \in Peers \ {peer(s)}})

\* The section under rm.mu: replace the peer's old session, whose socket is
\* closed, and snapshot who else is there.
Insert(s) == InsertWith(s, {members[room[s]][p] : p \in Peers \ {peer(s)}} \ {None})

\* REGISTER_OK and a PEER_JOIN per peer of the snapshot are written ...
RegisterOK(s) ==
    /\ pc[s] = "regok" /\ conn[s] # "closed"
    /\ TellJoin({s}, {peer(t) : t \in existing[s]})
    /\ Goto(s, "announce")
    /\ UNCHANGED <<conn, reg, rooms, members, room, existing, found, notify>>

\* Mutant: the failed registration is not undone.
RegisterAbandoned(s) ==
    /\ pc[s] = "regok" /\ conn[s] # "open"
    /\ Return(s)
    /\ UNCHANGED <<reg, rooms, members, room, existing, found, notify, told, view>>

\* ... or one of the writes fails: removeMemberIf, and no PEER_LEAVE.
RegisterFails(s) ==
    /\ pc[s] = "regok" /\ conn[s] # "open"
    /\ notify' = [notify EXCEPT ![s] = FALSE]
    /\ Goto(s, "find")
    /\ UNCHANGED <<conn, reg, rooms, members, room, existing, found, told, view>>

\* The second section under rm.mu: PEER_JOIN to everyone else.
Announce(s) ==
    /\ pc[s] = "announce"
    /\ TellJoin({t \in In(room[s]) : peer(t) # peer(s)}, {peer(s)})
    /\ Goto(s, "loop")
    /\ UNCHANGED <<conn, reg, rooms, members, room, existing, found, notify>>

-----------------------------------------------------------------------------
(* readLoop *)

\* DATA is read and forward looks the room up, under s.mu.  (PINGs are
\* answered; DATA that is malformed or finds no room, and other frames, are
\* dropped: nothing of this changes the state.)
ReceiveData(s) ==
    /\ pc[s] = "loop" /\ conn[s] # "closed"
    /\ rooms[RoomKey(s)] # None
    /\ found' = [found EXCEPT ![s] = rooms[RoomKey(s)]]
    /\ Goto(s, "forward")
    /\ UNCHANGED <<conn, reg, rooms, members, room, existing, notify, told, view>>

\* Under rm.mu, forward writes the data to the member p, if there is one and
\* it is not the sender; a client attaches a peer it gets data from; a target
\* that cannot be written to is closed.
Forward(s, p) ==
    /\ pc[s] = "forward"
    /\ LET target == members[found[s]][p]
       IN \/ /\ target = None \/ p = peer(s)
             /\ UNCHANGED <<conn, view>>
          \/ /\ target # None /\ p # peer(s) /\ conn[target] # "closed"
             /\ view' = IF conn[target] = "open"
                        THEN [view EXCEPT ![target] = @ \cup {peer(s)}] ELSE view
             /\ UNCHANGED conn
          \/ /\ target # None /\ p # peer(s) /\ conn[target] # "open"
             /\ conn' = [conn EXCEPT ![target] = "closed"]
             /\ UNCHANGED view
    /\ Goto(s, "loop")
    /\ UNCHANGED <<reg, rooms, members, room, existing, found, notify, told>>

\* A read error, the 45 s read deadline, or the server shutting down.
ReadError(s) ==
    /\ pc[s] = "loop"
    /\ notify' = [notify EXCEPT ![s] = TRUE]
    /\ Goto(s, "find")
    /\ UNCHANGED <<conn, reg, rooms, members, room, existing, found, told, view>>

-----------------------------------------------------------------------------
(* removeMemberIf and the end of handleConn *)

\* Under s.mu: which room has the key now.
FindRoom(s) ==
    /\ pc[s] = "find"
    /\ found' = [found EXCEPT ![s] = rooms[RoomKey(s)]]
    /\ IF rooms[RoomKey(s)] = None THEN Return(s) ELSE Goto(s, "remove") /\ UNCHANGED conn
    /\ UNCHANGED <<reg, rooms, members, room, existing, notify, told, view>>

\* Under rm.mu: the member is dropped when `mine`; `empty` is computed.
RemoveIf(s, mine) ==
    /\ pc[s] = "remove"
    /\ LET left == IF mine THEN [members[found[s]] EXCEPT ![peer(s)] = None] ELSE members[found[s]]
       IN /\ members' = [members EXCEPT ![found[s]] = left]
          /\ notify' = [notify EXCEPT ![s] = @ /\ mine]
          /\ IF left = NoMembers THEN Goto(s, "unmap") /\ UNCHANGED conn
             ELSE IF notify'[s] THEN Goto(s, "leave") /\ UNCHANGED conn ELSE Return(s)
    /\ UNCHANGED <<reg, rooms, room, existing, found, told, view>>

\* Mutant: the member is dropped by its peer ID.
RemoveById(s) == RemoveIf(s, members[found[s]][peer(s)] # None)

RemoveMember(s) == RemoveIf(s, members[found[s]][peer(s)] = s)

\* Under s.mu again: delete(s.rooms, rk), whatever the key maps to by now.
DeleteRoom(s) ==
    /\ pc[s] = "unmap"
    /\ rooms' = [rooms EXCEPT ![RoomKey(s)] = None]
    /\ IF notify[s] THEN Goto(s, "leave") /\ UNCHANGED conn ELSE Return(s)
    /\ UNCHANGED <<reg, members, room, existing, found, notify, told, view>>

\* Under rm.mu: PEER_LEAVE to the members handleConn's own room has by now.
AnnounceLeave(s) ==
    /\ pc[s] = "leave"
    /\ TellLeave(In(room[s]), peer(s))
    /\ Return(s)
    /\ UNCHANGED <<reg, rooms, members, room, existing, found, notify, told>>

-----------------------------------------------------------------------------
\* The client of s goes away; the server's socket does not know yet.
ClientGone(s) ==
    /\ pc[s] \notin {"none", "done"} /\ conn[s] = "open"
    /\ conn' = [conn EXCEPT ![s] = "broken"]
    /\ UNCHANGED <<pc, reg, rooms, members, room, existing, found, notify, told, view>>

Init ==
    /\ pc = [s \in Sessions |-> "none"]
    /\ conn = [s \in Sessions |-> "closed"]
    /\ reg = [s \in Sessions |-> None]
    /\ rooms = [k \in RoomKeys |-> None]
    /\ members = [r \in Sessions |-> NoMembers]
    /\ room = [s \in Sessions |-> None]
    /\ existing = [s \in Sessions |-> {}]
    /\ found = [s \in Sessions |-> None]
    /\ notify = [s \in Sessions |-> FALSE]
    /\ told = [s \in Sessions |-> {}] /\ view = [s \in Sessions |-> {}]

Step(s) ==
    \/ Accept(s) \/ Authenticate(s) \/ Refuse(s) \/ LookupRoom(s) \/ Insert(s)
    \/ RegisterOK(s) \/ RegisterFails(s) \/ Announce(s) \/ ReceiveData(s) \/ ReadError(s)
    \/ FindRoom(s) \/ RemoveMember(s) \/ DeleteRoom(s) \/ AnnounceLeave(s) \/ ClientGone(s)
    \/ \E r \in Registration : Register(s, r)
    \/ \E p \in Peers : Forward(s, p)

Next == \E s \in Sessions : Step(s)

Spec == Init /\ [][Next]_vars

-----------------------------------------------------------------------------
(* Properties *)

\* handleConn is in readLoop and the client is there.
Serving(s) == pc[s] \in {"loop", "forward"} /\ conn[s] = "open"

(***************************************************************************)
(* A session being served is the one mapped for its peer ID: whatever old  *)
(* handleConn goroutines of the same peer do after it was replaced, they   *)
(* never unmap it (server.go: the comments at 129 and 226).                *)
(***************************************************************************)
MappedWhileServing ==
    \A s \in Sessions : Serving(s) => members[room[s]][peer(s)] = s

(***************************************************************************)
(* Two peers served in the same room object have been told of each other,  *)
(* although each handleConn snapshots, writes and announces in separate    *)
(* critical sections (server.go: 127-159).                                 *)
(***************************************************************************)
Introduced ==
    \A s, t \in Sessions :
        Serving(s) /\ Serving(t) /\ room[s] = room[t] /\ peer(s) # peer(t) => peer(t) \in told[s]

(***************************************************************************)
(* A connection that is over is never again a member of a room the server  *)
(* can reach, so nothing is forwarded to it, even when its registration    *)
(* failed half way or its room was replaced meanwhile.                     *)
(***************************************************************************)
GoneIsUnreachable ==
    \A s \in Sessions, k \in RoomKeys :
        pc[s] = "done" /\ rooms[k] # None => s \notin In(rooms[k])

(***************************************************************************)
(* Clients only ever hear of peers that registered with the same sync name *)
(* and the same sync key (server.go: RoomKey, forward).                    *)
(***************************************************************************)
RoomIsolation ==
    \A s \in Sessions : \A p \in told[s] \cup view[s] :
        \E t \in Sessions :
            reg[t] # None /\ reg[t] = [name |-> reg[s].name, key |-> reg[s].key, peer |-> p]

(***************************************************************************)
(* README: "Peers in the same name + sync_key room are connected through   *)
(* the relay automatically": sessions served with the same room key are in *)
(* the same room.                                                          *)
(***************************************************************************)
OneRoomPerKey ==
    \A s, t \in Sessions : Serving(s) /\ Serving(t) /\ RoomKey(s) = RoomKey(t) => room[s] = room[t]

(***************************************************************************)
(* BUILD_PLAN: PEER_LEAVE means "peer disconnected": a client has attached *)
(* every peer that is being served in its room.                            *)
(***************************************************************************)
ServedPeersAttached ==
    \A s, t \in Sessions :
        Serving(s) /\ Serving(t) /\ room[s] = room[t] /\ peer(s) # peer(t) => peer(t) \in view[s]
=============================================================================
