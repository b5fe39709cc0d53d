------------------------- MODULE RelayServerProofs -------------------------
(***************************************************************************)
(* Proofs of the relay server's safety properties for any number of        *)
(* sessions, peers, sync names and keys.                                   *)
(***************************************************************************)
EXTENDS RelayServer, TLAPS

-----------------------------------------------------------------------------
(* The inductive invariant *)

\* Control points before the room is known, before the member is in the room,
\* and while the member is supposed to be mapped.
Early == {"none", "auth", "register", "lookup"}
Joined == {"regok", "announce", "loop", "forward"}

\* A session past REGISTER has a registration, past the lookup a room, and
\* inside forward and removeMemberIf the room found there.
LocalsSet ==
    \A s \in Sessions :
        /\ pc[s] \in {"none", "auth", "register"} =>
                reg[s] = None /\ told[s] = {} /\ view[s] = {}
        /\ pc[s] \notin {"none", "auth", "register", "done"} => reg[s] \in Registration
        /\ pc[s] \notin Early \cup {"done"} => room[s] \in Sessions
        /\ pc[s] \in {"forward", "remove", "unmap"} => found[s] \in Sessions

\* Room objects are made by a session that went through LookupRoom, and a room
\* holds only sessions with its key.
RoomsOK ==
    /\ \A k \in RoomKeys : rooms[k] \in Sessions =>
            pc[rooms[k]] \notin Early /\ reg[rooms[k]] \in Registration /\ RoomKey(rooms[k]) = k
    /\ \A s \in Sessions : room[s] \in Sessions =>
            /\ pc[s] \notin Early /\ pc[room[s]] \notin Early
            /\ reg[s] \in Registration /\ reg[room[s]] \in Registration
            /\ RoomKey(room[s]) = RoomKey(s)
    /\ \A s \in Sessions : pc[s] \in {"forward", "remove", "unmap"} =>
            /\ pc[found[s]] \notin Early
            /\ reg[found[s]] \in Registration /\ RoomKey(found[s]) = RoomKey(s)

\* A mapped session is mapped in its own room under its own peer ID.
MembersOK ==
    \A r \in Sessions, p \in Peers : members[r][p] \in Sessions =>
        LET t == members[r][p]
        IN room[t] = r /\ reg[t] \in Registration /\ peer(t) = p /\ pc[t] # "insert"

\* Nobody unmaps a session whose connection is open before it ends.
Mapped ==
    \A s \in Sessions : pc[s] \in Joined /\ conn[s] = "open" => members[room[s]][peer(s)] = s

\* The sessions in a snapshot are in the same room, with other peer IDs.
ExistingOK ==
    \A s \in Sessions : \A t \in existing[s] :
        /\ room[s] \in Sessions /\ room[t] = room[s] /\ peer(t) # peer(s)
        /\ pc[s] # "insert" /\ pc[t] # "insert"

\* Of two sessions in a room, the later one has the earlier in its snapshot.
OneSawOther ==
    \A s, t \in Sessions :
        /\ pc[s] \in Joined /\ pc[t] \in Joined
        /\ conn[s] = "open" /\ conn[t] = "open"
        /\ room[s] = room[t] /\ peer(s) # peer(t)
        => t \in existing[s] \/ s \in existing[t]

\* After RegisterOK the client knows the snapshot.
SnapshotTold ==
    \A s \in Sessions : pc[s] \in Joined \ {"regok"} /\ conn[s] = "open" =>
        \A t \in existing[s] : peer(t) \in told[s]

\* After Announce the clients of the snapshot know the new peer.
NewcomerTold ==
    \A s \in Sessions : pc[s] \in {"loop", "forward"} =>
        \A t \in existing[s] : pc[t] \in Joined /\ conn[t] = "open" => peer(s) \in told[t]

\* A session past its removal is in no room that has a key.
Unlinked ==
    \A s \in Sessions, k \in RoomKeys :
        /\ pc[s] = "remove" /\ found[s] # room[s] => rooms[k] # room[s]
        /\ pc[s] \in {"unmap", "leave", "done"} /\ rooms[k] # None => s \notin In(rooms[k])

IndInv ==
    /\ TypeOK /\ LocalsSet /\ RoomsOK /\ MembersOK /\ Mapped
    /\ ExistingOK /\ OneSawOther /\ SnapshotTold /\ NewcomerTold
    /\ Unlinked /\ RoomIsolation

\* What keeps the introductions: nobody enters a later phase, forgets a peer
\* or reopens a connection.
Quiet ==
    /\ reg' = reg /\ room' = room /\ existing' = existing
    /\ \A x \in Sessions :
        /\ told[x] \subseteq told'[x]
        /\ pc'[x] \in Joined => pc[x] \in Joined /\ (conn'[x] = "open" => conn[x] = "open")
        /\ pc'[x] \in Joined \ {"regok"} => pc[x] \in Joined \ {"regok"}
        /\ pc'[x] \in {"loop", "forward"} => pc[x] \in {"loop", "forward"}

-----------------------------------------------------------------------------
(* Every action keeps the invariant *)

\* A quiet step keeps the three parts of the invariant that make Introduced hold.
LEMMA QuietKeeps ==
    ASSUME IndInv, Quiet
    PROVE  OneSawOther' /\ SnapshotTold' /\ NewcomerTold'
<1>1. OneSawOther'
  BY DEF IndInv, Quiet, OneSawOther, peer
<1>2. SnapshotTold'
  BY DEF IndInv, Quiet, SnapshotTold, TypeOK, peer
<1>3. NewcomerTold'
  BY DEF IndInv, Quiet, NewcomerTold, TypeOK, peer
<1>. QED
  BY <1>1, <1>2, <1>3

\* A registration determines a room key and a peer ID.
LEMMA KeyType ==
    ASSUME NEW s \in Sessions, reg[s] \in Registration
    PROVE  RoomKey(s) \in RoomKeys /\ peer(s) \in Peers
  BY DEF Registration, RoomKey, RoomKeys, peer

\* A session that was just accepted has no registration and is in no room.
LEMMA AcceptKeeps ==
    ASSUME IndInv, NEW s \in Sessions, Accept(s)
    PROVE  IndInv'
<1>q. Quiet
  BY DEF IndInv, TypeOK, Quiet, Joined, Accept, Goto
<1>1. TypeOK'
  BY DEF IndInv, TypeOK, Accept, Goto
<1>2. LocalsSet'
  BY DEF IndInv, LocalsSet, Accept, Goto, TypeOK, Early
<1>3. RoomsOK'
  BY DEF IndInv, RoomsOK, Accept, Goto, TypeOK, Early, RoomKey
<1>4. MembersOK'
  BY DEF IndInv, MembersOK, Accept, Goto, TypeOK, peer
<1>5. Mapped'
  BY DEF IndInv, Mapped, Accept, Goto, TypeOK, Joined, peer
<1>6. ExistingOK'
  BY DEF IndInv, ExistingOK, Accept, Goto, TypeOK, peer
<1>7. OneSawOther'
  BY <1>q, QuietKeeps
<1>8. SnapshotTold'
  BY <1>q, QuietKeeps
<1>9. NewcomerTold'
  BY <1>q, QuietKeeps
<1>10. Unlinked'
  BY DEF IndInv, Unlinked, Accept, Goto, TypeOK, In
<1>11. RoomIsolation'
  BY DEF IndInv, RoomIsolation, Accept, Goto, TypeOK, peer
<1>. QED
  BY <1>1, <1>2, <1>3, <1>4, <1>5, <1>6, <1>7, <1>8, <1>9, <1>10, <1>11 DEF IndInv

\* Authentication changes only the control point.
LEMMA AuthenticateKeeps ==
    ASSUME IndInv, NEW s \in Sessions, Authenticate(s)
    PROVE  IndInv'
<1>q. Quiet
  BY DEF IndInv, TypeOK, Quiet, Joined, Authenticate, Goto
<1>1. TypeOK'
  BY DEF IndInv, TypeOK, Authenticate, Goto
<1>2. LocalsSet'
  BY DEF IndInv, LocalsSet, Authenticate, Goto, TypeOK, Early
<1>3. RoomsOK'
  BY DEF IndInv, RoomsOK, Authenticate, Goto, TypeOK, Early, RoomKey
<1>4. MembersOK'
  BY DEF IndInv, MembersOK, Authenticate, Goto, TypeOK, peer
<1>5. Mapped'
  BY DEF IndInv, Mapped, Authenticate, Goto, TypeOK, Joined, peer
<1>6. ExistingOK'
  BY DEF IndInv, ExistingOK, Authenticate, Goto, TypeOK, peer
<1>7. OneSawOther'
  BY <1>q, QuietKeeps
<1>8. SnapshotTold'
  BY <1>q, QuietKeeps
<1>9. NewcomerTold'
  BY <1>q, QuietKeeps
<1>10. Unlinked'
  BY DEF IndInv, Unlinked, Authenticate, Goto, TypeOK, In
<1>11. RoomIsolation'
  BY DEF IndInv, RoomIsolation, Authenticate, Goto, TypeOK, peer
<1>. QED
  BY <1>1, <1>2, <1>3, <1>4, <1>5, <1>6, <1>7, <1>8, <1>9, <1>10, <1>11 DEF IndInv

\* A session refused before it registered was in no room.
LEMMA RefuseKeeps ==
    ASSUME IndInv, NEW s \in Sessions, Refuse(s)
    PROVE  IndInv'
<1>q. Quiet
  BY DEF IndInv, TypeOK, Quiet, Joined, Refuse, Goto, Return
<1>1. TypeOK'
  BY DEF IndInv, TypeOK, Refuse, Goto, Return
<1>2. LocalsSet'
  BY DEF IndInv, LocalsSet, Refuse, Goto, Return, TypeOK, Early
<1>3. RoomsOK'
  BY DEF IndInv, RoomsOK, Refuse, Goto, Return, TypeOK, Early, RoomKey
<1>4. MembersOK'
  BY DEF IndInv, MembersOK, Refuse, Goto, Return, TypeOK, peer
<1>5. Mapped'
  BY DEF IndInv, Mapped, Refuse, Goto, Return, TypeOK, Joined, peer
<1>6. ExistingOK'
  BY DEF IndInv, ExistingOK, Refuse, Goto, Return, TypeOK, peer
<1>7. OneSawOther'
  BY <1>q, QuietKeeps
<1>8. SnapshotTold'
  BY <1>q, QuietKeeps
<1>9. NewcomerTold'
  BY <1>q, QuietKeeps
<1>10. Unlinked'
  BY DEF IndInv, Unlinked, Refuse, Goto, Return, TypeOK, LocalsSet, RoomsOK, MembersOK, Early,
         In, NoMembers, peer
<1>11. RoomIsolation'
  BY DEF IndInv, RoomIsolation, Refuse, Goto, Return, TypeOK, peer
<1>. QED
  BY <1>1, <1>2, <1>3, <1>4, <1>5, <1>6, <1>7, <1>8, <1>9, <1>10, <1>11 DEF IndInv

\* After REGISTER the registration is set and the session is still in no room.
LEMMA RegisterKeeps ==
    ASSUME IndInv, NEW s \in Sessions, NEW r \in Registration, Register(s, r)
    PROVE  IndInv'
<1>1. TypeOK'
  BY DEF IndInv, TypeOK, Register, Goto
<1>2. LocalsSet'
  BY DEF IndInv, LocalsSet, Register, Goto, TypeOK, Early
<1>3. RoomsOK'
  BY DEF IndInv, RoomsOK, Register, Goto, TypeOK, Early, RoomKey
<1>4. MembersOK'
  BY RelayAssumption DEF IndInv, MembersOK, Register, Goto, TypeOK, LocalsSet, Early, peer
<1>5. Mapped'
  BY DEF IndInv, Mapped, Register, Goto, TypeOK, Joined, peer
<1>6. ExistingOK'
  BY DEF IndInv, ExistingOK, Register, Goto, TypeOK, LocalsSet, RoomsOK, MembersOK, Early, peer
<1>7. OneSawOther'
  BY DEF IndInv, OneSawOther, Register, Goto, TypeOK, Joined, peer
<1>8. SnapshotTold'
  BY DEF IndInv, SnapshotTold, Register, Goto, TypeOK, LocalsSet, RoomsOK, ExistingOK, Joined,
         Early, peer
<1>9. NewcomerTold'
  BY DEF IndInv, NewcomerTold, Register, Goto, TypeOK, Joined, peer
<1>10. Unlinked'
  BY DEF IndInv, Unlinked, Register, Goto, TypeOK, In
<1>11. RoomIsolation'
  BY RelayAssumption DEF IndInv, RoomIsolation, Register, Goto, TypeOK, LocalsSet, Early, peer
<1>. QED
  BY <1>1, <1>2, <1>3, <1>4, <1>5, <1>6, <1>7, <1>8, <1>9, <1>10, <1>11 DEF IndInv

\* The room found, or the new and empty room made, has the key of the session.
LEMMA LookupRoomKeeps ==
    ASSUME IndInv, NEW s \in Sessions, LookupRoom(s)
    PROVE  IndInv'
<1>k. RoomKey(s) \in RoomKeys /\ peer(s) \in Peers
  BY KeyType DEF IndInv, LocalsSet, LookupRoom
<1>u. /\ pc[s] = "lookup" /\ pc' = [pc EXCEPT ![s] = "insert"]
      /\ UNCHANGED <<conn, reg, existing, found, notify, told, view>>
      /\ \E x \in Sessions : room' = [room EXCEPT ![s] = x]
  BY <1>k DEF IndInv, TypeOK, LookupRoom, Goto
<1>1. TypeOK'
  <2>1. CASE rooms[RoomKey(s)] = None
    <3>1. members' \in [Sessions -> [Peers -> Sessions \cup {None}]]
      <4>1. NoMembers \in [Peers -> Sessions \cup {None}]
        BY DEF NoMembers
      <4>. QED
        BY <2>1, <4>1 DEF IndInv, TypeOK, LookupRoom
    <3>2. rooms' \in [RoomKeys -> Sessions \cup {None}] /\ room' \in [Sessions -> Sessions \cup {None}]
      BY <1>k, <2>1 DEF IndInv, TypeOK, LookupRoom
    <3>. QED
      BY <1>u, <3>1, <3>2 DEF IndInv, TypeOK
  <2>2. CASE rooms[RoomKey(s)] # None
    BY <1>k, <2>2 DEF IndInv, TypeOK, LookupRoom, Goto
  <2>. QED
    BY <2>1, <2>2
<1>2. LocalsSet'
  BY <1>u DEF IndInv, TypeOK, LocalsSet, Early
<1>3. RoomsOK'
  <2>1. /\ reg[s] \in Registration /\ pc'[s] \notin Early
        /\ \A x \in Sessions : pc'[x] \in Early => pc[x] \in Early
    BY <1>u DEF IndInv, TypeOK, LocalsSet, Early
  <2>2. PICK r \in Sessions : /\ room' = [room EXCEPT ![s] = r] /\ pc'[r] \notin Early
                              /\ reg[r] \in Registration /\ RoomKey(r) = RoomKey(s)
    <3>1. CASE rooms[RoomKey(s)] = None
      BY <2>1, <3>1 DEF LookupRoom
    <3>2. CASE rooms[RoomKey(s)] # None
      BY <1>k, <2>1, <3>2 DEF IndInv, TypeOK, RoomsOK, LookupRoom
    <3>. QED
      BY <3>1, <3>2
  <2>3. ASSUME NEW k \in RoomKeys, rooms'[k] \in Sessions
        PROVE  /\ pc'[rooms'[k]] \notin Early /\ reg'[rooms'[k]] \in Registration
               /\ RoomKey(rooms[k])' = k
    <3>1. CASE rooms'[k] = rooms[k]
      BY <1>u, <2>1, <2>3, <3>1 DEF IndInv, RoomsOK, RoomKey
    <3>2. CASE rooms'[k] # rooms[k]
      <4>1. k = RoomKey(s) /\ rooms'[k] = s
        BY <1>k, <3>2 DEF IndInv, TypeOK, LookupRoom
      <4>. QED
        BY <1>u, <2>1, <4>1 DEF RoomKey
    <3>. QED
      BY <3>1, <3>2
  <2>4. ASSUME NEW x \in Sessions, room'[x] \in Sessions
        PROVE  /\ pc'[x] \notin Early /\ pc'[room'[x]] \notin Early
               /\ reg'[x] \in Registration /\ reg'[room'[x]] \in Registration
               /\ RoomKey(room[x])' = RoomKey(x)'
    BY <1>u, <2>1, <2>2, <2>4 DEF IndInv, TypeOK, RoomsOK, RoomKey
  <2>5. ASSUME NEW x \in Sessions, pc'[x] \in {"forward", "remove", "unmap"}
        PROVE  /\ pc'[found'[x]] \notin Early /\ reg'[found'[x]] \in Registration
               /\ RoomKey(found[x])' = RoomKey(x)'
    BY <1>u, <2>1, <2>5 DEF IndInv, TypeOK, LocalsSet, RoomsOK, RoomKey
  <2>. QED
    BY <2>3, <2>4, <2>5 DEF RoomsOK
<1>4. MembersOK'
  BY <1>k DEF IndInv, MembersOK, LookupRoom, Goto, TypeOK, LocalsSet, RoomsOK, Early, peer,
              NoMembers
<1>5. Mapped'
  BY <1>k DEF IndInv, Mapped, LookupRoom, Goto, TypeOK, LocalsSet, RoomsOK, MembersOK, Joined,
              Early, peer, NoMembers
<1>6. ExistingOK'
  BY <1>k DEF IndInv, ExistingOK, LookupRoom, Goto, TypeOK, LocalsSet, RoomsOK, MembersOK, Early,
              peer
<1>7. OneSawOther'
  BY <1>k DEF IndInv, OneSawOther, LookupRoom, Goto, TypeOK, Joined, peer
<1>8. SnapshotTold'
  BY <1>k DEF IndInv, SnapshotTold, LookupRoom, Goto, TypeOK, Joined, peer
<1>9. NewcomerTold'
  BY <1>k DEF IndInv, NewcomerTold, LookupRoom, Goto, TypeOK, Joined, peer
<1>10. Unlinked'
  BY <1>k DEF IndInv, Unlinked, LookupRoom, Goto, TypeOK, LocalsSet, RoomsOK, MembersOK, Early,
              In, NoMembers, peer
<1>11. RoomIsolation'
  BY <1>k DEF IndInv, RoomIsolation, LookupRoom, Goto, TypeOK, peer
<1>. QED
  BY <1>1, <1>2, <1>3, <1>4, <1>5, <1>6, <1>7, <1>8, <1>9, <1>10, <1>11 DEF IndInv

\* The replaced session is closed, so the one session that is open and mapped
\* for the peer is the new one; its snapshot holds everyone it could have missed.
LEMMA InsertKeeps ==
    ASSUME IndInv, NEW s \in Sessions, Insert(s)
    PROVE  IndInv'
<1>k. RoomKey(s) \in RoomKeys /\ peer(s) \in Peers
  BY KeyType DEF IndInv, LocalsSet, Insert, InsertWith
<1>1. TypeOK'
  <2>1. room[s] \in Sessions
    BY DEF IndInv, LocalsSet, Insert, InsertWith, Early
  <2>2. members' \in [Sessions -> [Peers -> Sessions \cup {None}]]
    BY <1>k, <2>1 DEF IndInv, TypeOK, Insert, InsertWith
  <2>3. conn' \in [Sessions -> {"open", "broken", "closed"}]
    BY <1>k, <2>1 DEF IndInv, TypeOK, Insert, InsertWith
  <2>4. existing' \in [Sessions -> SUBSET Sessions]
    BY <1>k, <2>1 DEF IndInv, TypeOK, Insert, InsertWith
  <2>. QED
    BY <2>2, <2>3, <2>4 DEF IndInv, TypeOK, Insert, InsertWith, Goto
<1>2. LocalsSet'
  BY <1>k DEF IndInv, LocalsSet, Insert, InsertWith, Goto, TypeOK, Early
<1>3. RoomsOK'
  BY <1>k DEF IndInv, RoomsOK, Insert, InsertWith, Goto, TypeOK, Early, RoomKey
<1>4. MembersOK'
  BY <1>k DEF IndInv, MembersOK, Insert, InsertWith, Goto, TypeOK, LocalsSet, RoomsOK, Early,
              peer, NoMembers
<1>5. Mapped'
  BY RelayAssumption, <1>k DEF IndInv, Mapped, Insert, InsertWith, Goto, TypeOK, LocalsSet,
                               RoomsOK, MembersOK, Joined, Early, peer, NoMembers
<1>6. ExistingOK'
  BY <1>k DEF IndInv, ExistingOK, Insert, InsertWith, Goto, TypeOK, LocalsSet, RoomsOK,
              MembersOK, Early, peer
<1>7. OneSawOther'
  <2>1. room[s] \in Sessions
    BY DEF IndInv, LocalsSet, Insert, InsertWith, Early
  <2>2. ASSUME NEW t \in Sessions, t # s, pc[t] \in Joined, conn'[t] = "open",
               room[t] = room[s], peer(t) # peer(s)
        PROVE  t \in existing'[s]
    <3>1. conn[t] = "open"
      BY <2>2 DEF IndInv, TypeOK, Insert, InsertWith
    <3>2. members[room[s]][peer(t)] = t /\ peer(t) \in Peers
      BY <2>2, <3>1, KeyType DEF IndInv, LocalsSet, Mapped, Joined
    <3>. QED
      BY <2>1, <2>2, <3>2, RelayAssumption DEF IndInv, TypeOK, Insert, InsertWith
  <2>3. /\ \A x \in Sessions : x # s => pc'[x] = pc[x] /\ existing'[x] = existing[x]
        /\ \A x \in Sessions : conn'[x] = "open" => conn[x] = "open"
        /\ reg' = reg /\ room' = room
    BY DEF IndInv, TypeOK, Insert, InsertWith, Goto
  <2>. QED
    BY <2>2, <2>3 DEF IndInv, OneSawOther, peer
<1>8. SnapshotTold'
  BY <1>k DEF IndInv, SnapshotTold, Insert, InsertWith, Goto, TypeOK, Joined, peer
<1>9. NewcomerTold'
  BY <1>k DEF IndInv, NewcomerTold, Insert, InsertWith, Goto, TypeOK, LocalsSet, RoomsOK,
              MembersOK, Mapped, ExistingOK, Joined, Early, peer, In
<1>10. Unlinked'
  BY <1>k DEF IndInv, Unlinked, Insert, InsertWith, Goto, TypeOK, In
<1>11. RoomIsolation'
  BY <1>k DEF IndInv, RoomIsolation, Insert, InsertWith, Goto, TypeOK, peer
<1>. QED
  BY <1>1, <1>2, <1>3, <1>4, <1>5, <1>6, <1>7, <1>8, <1>9, <1>10, <1>11 DEF IndInv

\* The client is told of its whole snapshot.
LEMMA RegisterOKKeeps ==
    ASSUME IndInv, NEW s \in Sessions, RegisterOK(s)
    PROVE  IndInv'
<1>k. RoomKey(s) \in RoomKeys /\ peer(s) \in Peers
  BY KeyType DEF IndInv, LocalsSet, RegisterOK
<1>1. TypeOK'
  <2>1. \A t \in existing[s] : t \in Sessions /\ peer(t) \in Peers
    BY KeyType DEF IndInv, TypeOK, ExistingOK, RoomsOK
  <2>. QED
    BY <2>1 DEF IndInv, TypeOK, RegisterOK, TellJoin, Goto
<1>2. LocalsSet'
  BY <1>k DEF IndInv, LocalsSet, RegisterOK, Goto, TellJoin, TypeOK, Early
<1>3. RoomsOK'
  BY <1>k DEF IndInv, RoomsOK, RegisterOK, Goto, TellJoin, TypeOK, Early, RoomKey
<1>4. MembersOK'
  BY <1>k DEF IndInv, MembersOK, RegisterOK, Goto, TellJoin, TypeOK, peer
<1>5. Mapped'
  BY <1>k DEF IndInv, Mapped, RegisterOK, Goto, TellJoin, TypeOK, Joined, peer
<1>6. ExistingOK'
  BY <1>k DEF IndInv, ExistingOK, RegisterOK, Goto, TellJoin, TypeOK, peer
<1>7. OneSawOther'
  BY <1>k DEF IndInv, OneSawOther, RegisterOK, Goto, TellJoin, TypeOK, Joined, peer
<1>8. SnapshotTold'
  BY <1>k DEF IndInv, SnapshotTold, RegisterOK, Goto, TellJoin, TypeOK, Joined, peer
<1>9. NewcomerTold'
  BY <1>k DEF IndInv, NewcomerTold, RegisterOK, Goto, TellJoin, TypeOK, Joined, peer
<1>10. Unlinked'
  BY <1>k DEF IndInv, Unlinked, RegisterOK, Goto, TellJoin, TypeOK, In
<1>11. RoomIsolation'
  BY RelayAssumption, <1>k DEF IndInv, RoomIsolation, RegisterOK, Goto, TellJoin, TypeOK,
                               LocalsSet, RoomsOK, MembersOK, ExistingOK, Early, In, RoomKey,
                                  peer, Registration
<1>. QED
  BY <1>1, <1>2, <1>3, <1>4, <1>5, <1>6, <1>7, <1>8, <1>9, <1>10, <1>11 DEF IndInv

\* A registration that fails still has to be taken out of the room.
LEMMA RegisterFailsKeeps ==
    ASSUME IndInv, NEW s \in Sessions, RegisterFails(s)
    PROVE  IndInv'
<1>q. Quiet
  BY DEF IndInv, TypeOK, Quiet, Joined, RegisterFails, Goto
<1>1. TypeOK'
  BY DEF IndInv, TypeOK, RegisterFails, Goto
<1>2. LocalsSet'
  BY DEF IndInv, LocalsSet, RegisterFails, Goto, TypeOK, Early
<1>3. RoomsOK'
  BY DEF IndInv, RoomsOK, RegisterFails, Goto, TypeOK, Early, RoomKey
<1>4. MembersOK'
  BY DEF IndInv, MembersOK, RegisterFails, Goto, TypeOK, peer
<1>5. Mapped'
  BY DEF IndInv, Mapped, RegisterFails, Goto, TypeOK, Joined, peer
<1>6. ExistingOK'
  BY DEF IndInv, ExistingOK, RegisterFails, Goto, TypeOK, peer
<1>7. OneSawOther'
  BY <1>q, QuietKeeps
<1>8. SnapshotTold'
  BY <1>q, QuietKeeps
<1>9. NewcomerTold'
  BY <1>q, QuietKeeps
<1>10. Unlinked'
  BY DEF IndInv, Unlinked, RegisterFails, Goto, TypeOK, In
<1>11. RoomIsolation'
  BY DEF IndInv, RoomIsolation, RegisterFails, Goto, TypeOK, peer
<1>. QED
  BY <1>1, <1>2, <1>3, <1>4, <1>5, <1>6, <1>7, <1>8, <1>9, <1>10, <1>11 DEF IndInv

\* Everyone in the snapshot who is still there is told of the newcomer.
LEMMA AnnounceKeeps ==
    ASSUME IndInv, NEW s \in Sessions, Announce(s)
    PROVE  IndInv'
<1>k. RoomKey(s) \in RoomKeys /\ peer(s) \in Peers
  BY KeyType DEF IndInv, LocalsSet, Announce
<1>1. TypeOK'
  BY <1>k DEF IndInv, TypeOK, Announce, Goto, TellJoin
<1>2. LocalsSet'
  <2>1. \A t \in In(room[s]) : pc[t] \notin Early
    BY RelayAssumption DEF IndInv, TypeOK, LocalsSet, MembersOK, RoomsOK, In, Announce, Early
  <2>. QED
    BY <2>1 DEF IndInv, TypeOK, LocalsSet, Announce, TellJoin, Goto, Early
<1>3. RoomsOK'
  BY <1>k DEF IndInv, RoomsOK, Announce, Goto, TellJoin, TypeOK, Early, RoomKey
<1>4. MembersOK'
  BY <1>k DEF IndInv, MembersOK, Announce, Goto, TellJoin, TypeOK, peer
<1>5. Mapped'
  BY <1>k DEF IndInv, Mapped, Announce, Goto, TellJoin, TypeOK, Joined, peer
<1>6. ExistingOK'
  BY <1>k DEF IndInv, ExistingOK, Announce, Goto, TellJoin, TypeOK, peer
<1>7. OneSawOther'
  BY <1>k DEF IndInv, OneSawOther, Announce, Goto, TellJoin, TypeOK, Joined, peer
<1>8. SnapshotTold'
  BY <1>k DEF IndInv, SnapshotTold, Announce, Goto, TellJoin, TypeOK, Joined, peer
<1>9. NewcomerTold'
  <2>1. \A x \in Sessions : told[x] \subseteq told'[x] /\ (x # s => pc'[x] = pc[x])
    BY DEF IndInv, TypeOK, Announce, TellJoin, Goto
  <2>2. ASSUME NEW t \in existing[s], pc[t] \in Joined, conn[t] = "open"
        PROVE  peer(s) \in told'[t]
    <3>1. t \in Sessions /\ room[t] = room[s] /\ peer(t) # peer(s) /\ peer(t) \in Peers
      BY KeyType DEF IndInv, TypeOK, ExistingOK, RoomsOK
    <3>2. t \in In(room[s])
      BY <2>2, <3>1 DEF IndInv, Mapped, In
    <3>. QED
      BY <2>2, <3>1, <3>2 DEF IndInv, TypeOK, Announce, TellJoin
  <2>3. \A t \in existing[s] : t # s
    BY DEF IndInv, ExistingOK
  <2>. QED
    BY <2>1, <2>2, <2>3 DEF IndInv, TypeOK, NewcomerTold, Announce, Goto, peer, Joined
<1>10. Unlinked'
  BY <1>k DEF IndInv, Unlinked, Announce, Goto, TellJoin, TypeOK, In
<1>11. RoomIsolation'
  BY RelayAssumption, <1>k DEF IndInv, RoomIsolation, Announce, Goto, TellJoin, TypeOK,
                               LocalsSet, RoomsOK, MembersOK, ExistingOK, Early, In, RoomKey,
                                  peer, Registration
<1>. QED
  BY <1>1, <1>2, <1>3, <1>4, <1>5, <1>6, <1>7, <1>8, <1>9, <1>10, <1>11 DEF IndInv

\* The room forward finds has the key of the sender.
LEMMA ReceiveDataKeeps ==
    ASSUME IndInv, NEW s \in Sessions, ReceiveData(s)
    PROVE  IndInv'
<1>k. RoomKey(s) \in RoomKeys /\ peer(s) \in Peers
  BY KeyType DEF IndInv, LocalsSet, ReceiveData
<1>q. Quiet
  BY DEF IndInv, TypeOK, Quiet, Joined, ReceiveData, Goto
<1>1. TypeOK'
  BY <1>k DEF IndInv, TypeOK, ReceiveData, Goto
<1>2. LocalsSet'
  BY <1>k DEF IndInv, LocalsSet, ReceiveData, Goto, TypeOK, Early
<1>3. RoomsOK'
  BY <1>k DEF IndInv, RoomsOK, ReceiveData, Goto, TypeOK, Early, RoomKey
<1>4. MembersOK'
  BY <1>k DEF IndInv, MembersOK, ReceiveData, Goto, TypeOK, peer
<1>5. Mapped'
  BY <1>k DEF IndInv, Mapped, ReceiveData, Goto, TypeOK, Joined, peer
<1>6. ExistingOK'
  BY <1>k DEF IndInv, ExistingOK, ReceiveData, Goto, TypeOK, peer
<1>7. OneSawOther'
  BY <1>q, QuietKeeps
<1>8. SnapshotTold'
  BY <1>q, QuietKeeps
<1>9. NewcomerTold'
  BY <1>q, QuietKeeps
<1>10. Unlinked'
  BY <1>k DEF IndInv, Unlinked, ReceiveData, Goto, TypeOK, In
<1>11. RoomIsolation'
  BY <1>k DEF IndInv, RoomIsolation, ReceiveData, Goto, TypeOK, peer
<1>. QED
  BY <1>1, <1>2, <1>3, <1>4, <1>5, <1>6, <1>7, <1>8, <1>9, <1>10, <1>11 DEF IndInv

\* The target of the data is in a room with the key of the sender, so the client
\* that attaches the sender registered with the same name and key.
LEMMA ForwardKeeps ==
    ASSUME IndInv, NEW s \in Sessions, NEW p \in Peers, Forward(s, p)
    PROVE  IndInv'
<1>k. RoomKey(s) \in RoomKeys /\ peer(s) \in Peers
  BY KeyType DEF IndInv, LocalsSet, Forward
<1>t. /\ \/ view' = view
         \/ \E t \in In(found[s]) : view' = [view EXCEPT ![t] = @ \cup {peer(s)}]
      /\ conn' = conn \/ \E t \in Sessions : conn' = [conn EXCEPT ![t] = "closed"]
  BY DEF IndInv, TypeOK, LocalsSet, Forward, In
<1>u. /\ In(found[s]) \subseteq Sessions
      /\ \A t \in In(found[s]) : pc[t] \notin Early /\ reg[t] \in Registration /\ RoomKey(t) = RoomKey(s)
  BY DEF IndInv, TypeOK, LocalsSet, RoomsOK, MembersOK, Forward, In
<1>v. told' = told /\ reg' = reg /\ pc' = [pc EXCEPT ![s] = "loop"] /\ pc[s] = "forward"
  BY DEF Forward, Goto
<1>q. Quiet
  BY <1>t, <1>v DEF IndInv, TypeOK, Quiet, Joined, Forward
<1>1. TypeOK'
  <2>1. view' \in [Sessions -> SUBSET Peers]
    <3>1. CASE view' = view
      BY <3>1 DEF IndInv, TypeOK
    <3>2. ASSUME NEW t \in In(found[s]), view' = [view EXCEPT ![t] = @ \cup {peer(s)}]
          PROVE  view' \in [Sessions -> SUBSET Peers]
      <4>1. view \in [Sessions -> SUBSET Peers] /\ view[t] \cup {peer(s)} \in SUBSET Peers
        BY <1>k, <1>u DEF IndInv, TypeOK
      <4>. QED
        BY <3>2, <4>1
    <3>. QED
      BY <1>t, <3>1, <3>2
  <2>2. conn' \in [Sessions -> {"open", "broken", "closed"}]
    BY <1>t DEF IndInv, TypeOK
  <2>. QED
    BY <1>v, <2>1, <2>2 DEF IndInv, TypeOK, Forward
<1>2. LocalsSet'
  <2>1. \A x \in Sessions : pc[x] \in {"none", "auth", "register"} => view'[x] = view[x]
    BY <1>t, <1>u DEF IndInv, TypeOK, Early
  <2>. QED
    BY <2>1 DEF IndInv, TypeOK, LocalsSet, Forward, Goto, Early
<1>3. RoomsOK'
  BY <1>k DEF IndInv, RoomsOK, Forward, Goto, TypeOK, Early, RoomKey
<1>4. MembersOK'
  BY <1>k DEF IndInv, MembersOK, Forward, Goto, TypeOK, peer
<1>5. Mapped'
  BY <1>k DEF IndInv, Mapped, Forward, Goto, TypeOK, Joined, peer
<1>6. ExistingOK'
  BY <1>k DEF IndInv, ExistingOK, Forward, Goto, TypeOK, peer
<1>7. OneSawOther'
  BY <1>q, QuietKeeps
<1>8. SnapshotTold'
  BY <1>q, QuietKeeps
<1>9. NewcomerTold'
  BY <1>q, QuietKeeps
<1>10. Unlinked'
  BY <1>k DEF IndInv, Unlinked, Forward, Goto, TypeOK, In
<1>11. RoomIsolation'
  <2>1. \A x \in Sessions : \A q \in view'[x] : q \in view[x] \/ (q = peer(s) /\ x \in In(found[s]))
    BY <1>t, <1>u DEF IndInv, TypeOK
  <2>2. ASSUME NEW x \in In(found[s])
        PROVE  reg[s] = [name |-> reg[x].name, key |-> reg[x].key, peer |-> peer(s)]
    BY <1>u, <1>v DEF IndInv, LocalsSet, Registration, RoomKey, peer
  <2>3. reg[s] # None
    BY <1>v, RelayAssumption DEF IndInv, LocalsSet
  <2>. QED
    BY <1>v, <2>1, <2>2, <2>3 DEF IndInv, RoomIsolation
<1>. QED
  BY <1>1, <1>2, <1>3, <1>4, <1>5, <1>6, <1>7, <1>8, <1>9, <1>10, <1>11 DEF IndInv

\* A session whose reads fail still has to be taken out of the room.
LEMMA ReadErrorKeeps ==
    ASSUME IndInv, NEW s \in Sessions, ReadError(s)
    PROVE  IndInv'
<1>q. Quiet
  BY DEF IndInv, TypeOK, Quiet, Joined, ReadError, Goto
<1>1. TypeOK'
  BY DEF IndInv, TypeOK, ReadError, Goto
<1>2. LocalsSet'
  BY DEF IndInv, LocalsSet, ReadError, Goto, TypeOK, Early
<1>3. RoomsOK'
  BY DEF IndInv, RoomsOK, ReadError, Goto, TypeOK, Early, RoomKey
<1>4. MembersOK'
  BY DEF IndInv, MembersOK, ReadError, Goto, TypeOK, peer
<1>5. Mapped'
  BY DEF IndInv, Mapped, ReadError, Goto, TypeOK, Joined, peer
<1>6. ExistingOK'
  BY DEF IndInv, ExistingOK, ReadError, Goto, TypeOK, peer
<1>7. OneSawOther'
  BY <1>q, QuietKeeps
<1>8. SnapshotTold'
  BY <1>q, QuietKeeps
<1>9. NewcomerTold'
  BY <1>q, QuietKeeps
<1>10. Unlinked'
  BY DEF IndInv, Unlinked, ReadError, Goto, TypeOK, In
<1>11. RoomIsolation'
  BY DEF IndInv, RoomIsolation, ReadError, Goto, TypeOK, peer
<1>. QED
  BY <1>1, <1>2, <1>3, <1>4, <1>5, <1>6, <1>7, <1>8, <1>9, <1>10, <1>11 DEF IndInv

\* A session whose key has no room, or another room than its own, is in no room
\* that has a key.
LEMMA FindRoomKeeps ==
    ASSUME IndInv, NEW s \in Sessions, FindRoom(s)
    PROVE  IndInv'
<1>k. RoomKey(s) \in RoomKeys /\ peer(s) \in Peers
  BY KeyType DEF IndInv, LocalsSet, FindRoom
<1>q. Quiet
  BY DEF IndInv, TypeOK, Quiet, Joined, FindRoom, Goto, Return
<1>1. TypeOK'
  BY <1>k DEF IndInv, TypeOK, FindRoom, Goto, Return
<1>2. LocalsSet'
  BY <1>k DEF IndInv, LocalsSet, FindRoom, Goto, Return, TypeOK, Early
<1>3. RoomsOK'
  BY RelayAssumption, <1>k DEF IndInv, RoomsOK, FindRoom, Goto, Return, TypeOK, LocalsSet, Early,
                               RoomKey
<1>4. MembersOK'
  BY <1>k DEF IndInv, MembersOK, FindRoom, Goto, Return, TypeOK, peer
<1>5. Mapped'
  BY <1>k DEF IndInv, Mapped, FindRoom, Goto, Return, TypeOK, Joined, peer
<1>6. ExistingOK'
  BY <1>k DEF IndInv, ExistingOK, FindRoom, Goto, Return, TypeOK, peer
<1>7. OneSawOther'
  BY <1>q, QuietKeeps
<1>8. SnapshotTold'
  BY <1>q, QuietKeeps
<1>9. NewcomerTold'
  BY <1>q, QuietKeeps
<1>10. Unlinked'
  BY <1>k DEF IndInv, Unlinked, FindRoom, Goto, Return, TypeOK, LocalsSet, RoomsOK, MembersOK,
              Early, In, NoMembers, peer
<1>11. RoomIsolation'
  BY <1>k DEF IndInv, RoomIsolation, FindRoom, Goto, Return, TypeOK, peer
<1>. QED
  BY <1>1, <1>2, <1>3, <1>4, <1>5, <1>6, <1>7, <1>8, <1>9, <1>10, <1>11 DEF IndInv

\* The mapping is dropped only if it is the session's own.
LEMMA RemoveMemberKeeps ==
    ASSUME IndInv, NEW s \in Sessions, RemoveMember(s)
    PROVE  IndInv'
<1>k. RoomKey(s) \in RoomKeys /\ peer(s) \in Peers
  BY KeyType DEF IndInv, LocalsSet, RemoveMember, RemoveIf
<1>u. /\ pc[s] = "remove" 
      /\ \E l \in {"unmap", "leave", "done"} : pc' = [pc EXCEPT ![s] = l]
      /\ conn' \in {conn, [conn EXCEPT ![s] = "closed"]}
      /\ UNCHANGED <<reg, rooms, room, existing, found, told, view>>
  BY DEF RemoveMember, RemoveIf, Goto, Return
<1>q. Quiet
  BY <1>u DEF IndInv, TypeOK, Quiet, Joined, RemoveMember, RemoveIf, Goto, Return
<1>1. TypeOK'
  <2>1. members' \in [Sessions -> [Peers -> Sessions \cup {None}]]
    <3>1. found[s] \in Sessions /\ members[found[s]] \in [Peers -> Sessions \cup {None}]
      BY <1>u DEF IndInv, TypeOK, LocalsSet
    <3>2. [members[found[s]] EXCEPT ![peer(s)] = None] \in [Peers -> Sessions \cup {None}]
      BY <3>1
    <3>. QED
      BY <3>1, <3>2 DEF IndInv, TypeOK, RemoveMember, RemoveIf
  <2>2. notify' \in [Sessions -> BOOLEAN]
    BY DEF IndInv, TypeOK, RemoveMember, RemoveIf
  <2>3. pc' \in [Sessions -> {"none", "auth", "register", "lookup", "insert", "regok", "announce",
                            "loop", "forward", "find", "remove", "unmap", "leave", "done"}]
    BY <1>u DEF IndInv, TypeOK
  <2>4. conn' \in [Sessions -> {"open", "broken", "closed"}]
    BY <1>u DEF IndInv, TypeOK
  <2>. QED
    BY <1>u, <2>1, <2>2, <2>3, <2>4 DEF IndInv, TypeOK
<1>2. LocalsSet'
  <2>1. \A x \in Sessions : pc'[x] = pc[x] \/ (x = s /\ pc'[x] \in {"unmap", "leave", "done"})
    BY <1>u DEF IndInv, TypeOK
  <2>. QED
    BY <1>u, <2>1 DEF IndInv, LocalsSet, Early
<1>3. RoomsOK'
  BY RelayAssumption, <1>k DEF IndInv, RoomsOK, RemoveMember, RemoveIf, Goto, Return, TypeOK,
                               LocalsSet, Early, RoomKey
<1>4. MembersOK'
  BY RelayAssumption, <1>k DEF IndInv, MembersOK, RemoveMember, RemoveIf, Goto, Return, TypeOK,
                               LocalsSet, Early, peer
<1>5. Mapped'
  BY <1>k DEF IndInv, Mapped, RemoveMember, RemoveIf, Goto, Return, TypeOK, Joined, peer
<1>6. ExistingOK'
  BY <1>k DEF IndInv, ExistingOK, RemoveMember, RemoveIf, Goto, Return, TypeOK, peer
<1>7. OneSawOther'
  BY <1>q, QuietKeeps
<1>8. SnapshotTold'
  BY <1>q, QuietKeeps
<1>9. NewcomerTold'
  BY <1>q, QuietKeeps
<1>10. Unlinked'
  BY RelayAssumption, <1>k DEF IndInv, Unlinked, RemoveMember, RemoveIf, Goto, Return, TypeOK,
                               LocalsSet, RoomsOK, MembersOK, Early, In, NoMembers, peer
<1>11. RoomIsolation'
  BY <1>k DEF IndInv, RoomIsolation, RemoveMember, RemoveIf, Goto, Return, TypeOK, peer
<1>. QED
  BY <1>1, <1>2, <1>3, <1>4, <1>5, <1>6, <1>7, <1>8, <1>9, <1>10, <1>11 DEF IndInv

\* Whatever room object the key maps to, taking the key away makes no session
\* reachable.
LEMMA DeleteRoomKeeps ==
    ASSUME IndInv, NEW s \in Sessions, DeleteRoom(s)
    PROVE  IndInv'
<1>k. RoomKey(s) \in RoomKeys /\ peer(s) \in Peers
  BY KeyType DEF IndInv, LocalsSet, DeleteRoom
<1>u. /\ pc[s] = "unmap" 
      /\ \E l \in {"leave", "done"} : pc' = [pc EXCEPT ![s] = l]
      /\ conn' \in {conn, [conn EXCEPT ![s] = "closed"]}
      /\ rooms' = [rooms EXCEPT ![RoomKey(s)] = None]
      /\ UNCHANGED <<reg, members, room, existing, found, told, view>>
  BY DEF DeleteRoom, Goto, Return
<1>q. Quiet
  BY <1>u DEF IndInv, TypeOK, Quiet, Joined, DeleteRoom, Goto, Return
<1>1. TypeOK'
  BY <1>k DEF IndInv, TypeOK, DeleteRoom, Goto, Return
<1>2. LocalsSet'
  <2>1. \A x \in Sessions : pc'[x] = pc[x] \/ (x = s /\ pc'[x] \in {"unmap", "leave", "done"})
    BY <1>u DEF IndInv, TypeOK
  <2>. QED
    BY <1>u, <2>1 DEF IndInv, LocalsSet, Early
<1>3. RoomsOK'
  BY RelayAssumption, <1>k DEF IndInv, RoomsOK, DeleteRoom, Goto, Return, TypeOK, LocalsSet,
                               Early, RoomKey
<1>4. MembersOK'
  BY <1>k DEF IndInv, MembersOK, DeleteRoom, Goto, Return, TypeOK, peer
<1>5. Mapped'
  BY <1>k DEF IndInv, Mapped, DeleteRoom, Goto, Return, TypeOK, Joined, peer
<1>6. ExistingOK'
  BY <1>k DEF IndInv, ExistingOK, DeleteRoom, Goto, Return, TypeOK, peer
<1>7. OneSawOther'
  BY <1>q, QuietKeeps
<1>8. SnapshotTold'
  BY <1>q, QuietKeeps
<1>9. NewcomerTold'
  BY <1>q, QuietKeeps
<1>10. Unlinked'
  <2>1. \A k \in RoomKeys : rooms'[k] \in {rooms[k], None}
    BY <1>k, <1>u DEF IndInv, TypeOK
  <2>2. \A x \in Sessions : /\ pc'[x] = "remove" => pc[x] = "remove"
                            /\ pc'[x] \in {"unmap", "leave", "done"} =>
                                 pc[x] \in {"unmap", "leave", "done"}
    BY <1>u DEF IndInv, TypeOK
  <2>3. \A x \in Sessions : pc'[x] = "remove" => room[x] \in Sessions
    BY <2>2 DEF IndInv, LocalsSet, Early
  <2>. QED
    BY <1>u, <2>1, <2>2, <2>3, RelayAssumption DEF IndInv, Unlinked, In
<1>11. RoomIsolation'
  BY <1>k DEF IndInv, RoomIsolation, DeleteRoom, Goto, Return, TypeOK, peer
<1>. QED
  BY <1>1, <1>2, <1>3, <1>4, <1>5, <1>6, <1>7, <1>8, <1>9, <1>10, <1>11 DEF IndInv

\* PEER_LEAVE takes peers out of views, and the session is over.
LEMMA AnnounceLeaveKeeps ==
    ASSUME IndInv, NEW s \in Sessions, AnnounceLeave(s)
    PROVE  IndInv'
<1>k. RoomKey(s) \in RoomKeys /\ peer(s) \in Peers
  BY KeyType DEF IndInv, LocalsSet, AnnounceLeave
<1>q. Quiet
  BY DEF IndInv, TypeOK, Quiet, Joined, AnnounceLeave, Goto, Return, TellLeave
<1>1. TypeOK'
  BY <1>k DEF IndInv, TypeOK, AnnounceLeave, Goto, Return, TellLeave
<1>2. LocalsSet'
  BY <1>k DEF IndInv, LocalsSet, AnnounceLeave, Goto, Return, TellLeave, TypeOK, Early
<1>3. RoomsOK'
  BY <1>k DEF IndInv, RoomsOK, AnnounceLeave, Goto, Return, TellLeave, TypeOK, Early, RoomKey
<1>4. MembersOK'
  BY <1>k DEF IndInv, MembersOK, AnnounceLeave, Goto, Return, TellLeave, TypeOK, peer
<1>5. Mapped'
  BY <1>k DEF IndInv, Mapped, AnnounceLeave, Goto, Return, TellLeave, TypeOK, Joined, peer
<1>6. ExistingOK'
  BY <1>k DEF IndInv, ExistingOK, AnnounceLeave, Goto, Return, TellLeave, TypeOK, peer
<1>7. OneSawOther'
  BY <1>q, QuietKeeps
<1>8. SnapshotTold'
  BY <1>q, QuietKeeps
<1>9. NewcomerTold'
  BY <1>q, QuietKeeps
<1>10. Unlinked'
  BY <1>k DEF IndInv, Unlinked, AnnounceLeave, Goto, Return, TellLeave, TypeOK, In
<1>11. RoomIsolation'
  BY <1>k DEF IndInv, RoomIsolation, AnnounceLeave, Goto, Return, TellLeave, TypeOK, peer
<1>. QED
  BY <1>1, <1>2, <1>3, <1>4, <1>5, <1>6, <1>7, <1>8, <1>9, <1>10, <1>11 DEF IndInv

\* A client that goes away changes nothing but the state of its connection.
LEMMA ClientGoneKeeps ==
    ASSUME IndInv, NEW s \in Sessions, ClientGone(s)
    PROVE  IndInv'
<1>q. Quiet
  BY DEF IndInv, TypeOK, Quiet, Joined, ClientGone
<1>1. TypeOK'
  BY DEF IndInv, TypeOK, ClientGone
<1>2. LocalsSet'
  BY DEF IndInv, LocalsSet, ClientGone, TypeOK, Early
<1>3. RoomsOK'
  BY DEF IndInv, RoomsOK, ClientGone, TypeOK, Early, RoomKey
<1>4. MembersOK'
  BY DEF IndInv, MembersOK, ClientGone, TypeOK, peer
<1>5. Mapped'
  BY DEF IndInv, Mapped, ClientGone, TypeOK, Joined, peer
<1>6. ExistingOK'
  BY DEF IndInv, ExistingOK, ClientGone, TypeOK, peer
<1>7. OneSawOther'
  BY <1>q, QuietKeeps
<1>8. SnapshotTold'
  BY <1>q, QuietKeeps
<1>9. NewcomerTold'
  BY <1>q, QuietKeeps
<1>10. Unlinked'
  BY DEF IndInv, Unlinked, ClientGone, TypeOK, In
<1>11. RoomIsolation'
  BY DEF IndInv, RoomIsolation, ClientGone, TypeOK, peer
<1>. QED
  BY <1>1, <1>2, <1>3, <1>4, <1>5, <1>6, <1>7, <1>8, <1>9, <1>10, <1>11 DEF IndInv

-----------------------------------------------------------------------------
\* The invariant holds initially ...
LEMMA InitEstablishes ==
    ASSUME Init
    PROVE  IndInv
<1>1. NoMembers \in [Peers -> Sessions \cup {None}]
  BY DEF NoMembers
<1>2. TypeOK
  BY <1>1 DEF Init, TypeOK
<1>3. LocalsSet /\ RoomsOK /\ MembersOK /\ Mapped
  BY RelayAssumption DEF Init, LocalsSet, RoomsOK, MembersOK, Mapped, Early, Joined, NoMembers
<1>4. ExistingOK /\ OneSawOther /\ SnapshotTold /\ NewcomerTold
  BY DEF Init, ExistingOK, OneSawOther, SnapshotTold, NewcomerTold, Joined
<1>5. Unlinked /\ RoomIsolation
  BY DEF Init, Unlinked, RoomIsolation
<1>. QED
  BY <1>2, <1>3, <1>4, <1>5 DEF IndInv

\* ... every step of a session keeps it, and so does stuttering ...
LEMMA NextKeeps ==
    ASSUME IndInv, [Next]_vars
    PROVE  IndInv'
<1>1. ASSUME NEW s \in Sessions, Step(s)
      PROVE  IndInv'
  BY <1>1, AcceptKeeps, AuthenticateKeeps, RefuseKeeps, RegisterKeeps,
          LookupRoomKeeps, InsertKeeps, RegisterOKKeeps, RegisterFailsKeeps,
          AnnounceKeeps, ReceiveDataKeeps, ForwardKeeps, ReadErrorKeeps, FindRoomKeeps,
          RemoveMemberKeeps, DeleteRoomKeeps, AnnounceLeaveKeeps, ClientGoneKeeps DEF Step
<1>2. CASE UNCHANGED vars
  BY <1>2 DEF vars, IndInv, TypeOK, LocalsSet, RoomsOK, MembersOK, Mapped, ExistingOK, OneSawOther,
              SnapshotTold, NewcomerTold, Unlinked, RoomIsolation, In, RoomKey, peer
<1>. QED
  BY <1>1, <1>2 DEF Next

\* ... so it is an invariant of the relay server.
THEOREM Invariance == Spec => []IndInv
<1>1. Init => IndInv
  BY InitEstablishes
<1>2. IndInv /\ [Next]_vars => IndInv'
  BY NextKeeps
<1>. QED
  BY <1>1, <1>2, PTL DEF Spec

\* Every variable of the relay server keeps its type; in particular a snapshot
\* holds sessions only.
THEOREM TypeCorrect == Spec => []TypeOK
<1>1. IndInv => TypeOK
  BY DEF IndInv
<1>. QED
  BY <1>1, Invariance, PTL

\* A session that is served stays the one mapped for its peer ID, however many
\* goroutines of earlier sessions of that peer are still cleaning up.
THEOREM ServedStaysMapped == Spec => []MappedWhileServing
<1>1. IndInv => MappedWhileServing
  BY DEF IndInv, Mapped, MappedWhileServing, Serving, Joined
<1>. QED
  BY <1>1, Invariance, PTL

\* Peers served in the same room object have been introduced to each other.
THEOREM PeersAreIntroduced == Spec => []Introduced
<1>1. ASSUME IndInv
      PROVE  Introduced
  <2>1. SUFFICES ASSUME NEW s \in Sessions, NEW t \in Sessions, Serving(s), Serving(t),
                        room[s] = room[t], peer(s) # peer(t)
                 PROVE  peer(t) \in told[s]
    BY DEF Introduced
  <2>2. CASE t \in existing[s]
    BY <1>1, <2>1, <2>2 DEF IndInv, SnapshotTold, Serving, Joined
  <2>3. CASE s \in existing[t]
    BY <1>1, <2>1, <2>3 DEF IndInv, NewcomerTold, Serving, Joined
  <2>. QED
    BY <1>1, <2>1, <2>2, <2>3 DEF IndInv, OneSawOther, Serving, Joined
<1>. QED
  BY <1>1, Invariance, PTL

\* A finished connection is in no room that has a key.
THEOREM GoneStaysUnreachable == Spec => []GoneIsUnreachable
<1>1. IndInv => GoneIsUnreachable
  BY DEF IndInv, Unlinked, GoneIsUnreachable
<1>. QED
  BY <1>1, Invariance, PTL

\* Clients hear only of peers registered under their own sync name and key.
THEOREM RoomsAreIsolated == Spec => []RoomIsolation
<1>1. IndInv => RoomIsolation
  BY DEF IndInv
<1>. QED
  BY <1>1, Invariance, PTL
=============================================================================
