-------------------------- MODULE PeerTableProofs --------------------------
(***************************************************************************)
(* For any number of connections, addresses and peer IDs: the peer table   *)
(* is type correct, no connection leaks from it, and every peer in it has  *)
(* a reader.  The properties are inductive as they stand.  The interesting *)
(* steps are the two that call RemovePeer with the ID of a connection that *)
(* may have been replaced: they close and unmap the new connection, which  *)
(* leaks nothing, because AddPeer closed the old one when it was replaced. *)
(***************************************************************************)
EXTENDS PeerTable, TLAPS

IndInv == TypeOK /\ ListedOrClosed /\ ListedHasReader

\* A connection that was just dialled is in nobody's table.
LEMMA DialKeeps ==
    ASSUME IndInv, NEW c \in Conns, NEW a \in Addrs, Dial(c, a)
    PROVE  IndInv'
<1>1. TypeOK'
  BY PeerTableAssumption DEF IndInv, TypeOK, Dial, Goto, Ids
<1>2. ListedOrClosed'
  BY DEF IndInv, ListedOrClosed, TypeOK, Dial, Goto, Ids
<1>3. ListedHasReader'
  BY DEF IndInv, ListedHasReader, TypeOK, Dial, Goto, Ids
<1>. QED
  BY <1>1, <1>2, <1>3 DEF IndInv

\* Neither is one the relay client just opened,
LEMMA RelayPeerKeeps ==
    ASSUME IndInv, NEW c \in Conns, NEW p \in PeerIDs, RelayPeer(c, p)
    PROVE  IndInv'
<1>1. TypeOK'
  BY PeerTableAssumption DEF IndInv, TypeOK, RelayPeer, Goto, Ids
<1>2. ListedOrClosed'
  BY DEF IndInv, ListedOrClosed, TypeOK, RelayPeer, Goto, Ids
<1>3. ListedHasReader'
  BY DEF IndInv, ListedHasReader, TypeOK, RelayPeer, Goto, Ids
<1>. QED
  BY <1>1, <1>2, <1>3 DEF IndInv

\* nor one handleInbound just accepted.
LEMMA InboundKeeps ==
    ASSUME IndInv, NEW c \in Conns, NEW p \in PeerIDs, Inbound(c, p)
    PROVE  IndInv'
<1>1. TypeOK'
  BY PeerTableAssumption DEF IndInv, TypeOK, Inbound, Accepted, Goto, Ids
<1>2. ListedOrClosed'
  BY DEF IndInv, ListedOrClosed, TypeOK, Inbound, Accepted, Goto, Ids
<1>3. ListedHasReader'
  BY DEF IndInv, ListedHasReader, TypeOK, Inbound, Accepted, Goto, Ids
<1>. QED
  BY <1>1, <1>2, <1>3 DEF IndInv

\* A connection whose HELLO fails is closed and was never registered.
LEMMA SendHelloKeeps ==
    ASSUME IndInv, NEW c \in Conns, SendHello(c)
    PROVE  IndInv'
<1>1. TypeOK'
  BY DEF IndInv, TypeOK, SendHello, Goto
<1>2. ListedOrClosed'
  BY DEF IndInv, ListedOrClosed, TypeOK, SendHello, Goto
<1>3. ListedHasReader'
  BY DEF IndInv, ListedHasReader, TypeOK, SendHello, Goto
<1>. QED
  BY <1>1, <1>2, <1>3 DEF IndInv

\* AddPeer closes the connection it replaces.
LEMMA RegisterKeeps ==
    ASSUME IndInv, NEW c \in Conns, Register(c)
    PROVE  IndInv'
<1>1. TypeOK'
  BY DEF IndInv, TypeOK, Register, Started, AddPeer, MapPeer, Goto
<1>2. ListedOrClosed'
  BY PeerTableAssumption DEF IndInv, ListedOrClosed, TypeOK, Register, Started, AddPeer, MapPeer,
                             Goto
<1>3. ListedHasReader'
  BY DEF IndInv, ListedHasReader, TypeOK, Register, Started, AddPeer, MapPeer, Goto
<1>. QED
  BY <1>1, <1>2, <1>3 DEF IndInv

\* Reading the HELLO changes nothing in the table.
LEMMA ReadHelloKeeps ==
    ASSUME IndInv, NEW c \in Conns, ReadHello(c)
    PROVE  IndInv'
<1>1. TypeOK'
  BY DEF IndInv, TypeOK, ReadHello, Goto
<1>2. ListedOrClosed'
  BY DEF IndInv, ListedOrClosed, TypeOK, ReadHello, Goto
<1>3. ListedHasReader'
  BY DEF IndInv, ListedHasReader, TypeOK, ReadHello, Goto
<1>. QED
  BY <1>1, <1>2, <1>3 DEF IndInv

\* AddPeer again, for a connection that may have been replaced meanwhile.
LEMMA HandleHelloKeeps ==
    ASSUME IndInv, NEW c \in Conns, HandleHello(c)
    PROVE  IndInv'
<1>1. TypeOK'
  BY DEF IndInv, TypeOK, HandleHello, AddPeer, MapPeer, Goto
<1>2. ListedOrClosed'
  BY PeerTableAssumption DEF IndInv, ListedOrClosed, TypeOK, HandleHello, AddPeer, MapPeer, Goto
<1>3. ListedHasReader'
  BY DEF IndInv, ListedHasReader, TypeOK, HandleHello, AddPeer, MapPeer, Goto
<1>. QED
  BY <1>1, <1>2, <1>3 DEF IndInv

\* HandleIncoming is about to return, and still has to call RemovePeer.
LEMMA ReadFailsKeeps ==
    ASSUME IndInv, NEW c \in Conns, ReadFails(c)
    PROVE  IndInv'
<1>1. TypeOK'
  BY DEF IndInv, TypeOK, ReadFails, Goto
<1>2. ListedOrClosed'
  BY DEF IndInv, ListedOrClosed, TypeOK, ReadFails, Goto
<1>3. ListedHasReader'
  BY DEF IndInv, ListedHasReader, TypeOK, ReadFails, Goto
<1>. QED
  BY <1>1, <1>2, <1>3 DEF IndInv

\* RemovePeer by ID: if another connection has the ID, this one is closed already.
LEMMA ExitKeeps ==
    ASSUME IndInv, NEW c \in Conns, Exit(c)
    PROVE  IndInv'
<1>1. TypeOK'
  BY DEF IndInv, TypeOK, Exit, RemovePeer, Goto
<1>2. ListedOrClosed'
  BY DEF IndInv, ListedOrClosed, TypeOK, Exit, RemovePeer, Goto
<1>3. ListedHasReader'
  BY DEF IndInv, ListedHasReader, TypeOK, Exit, RemovePeer, Goto
<1>. QED
  BY <1>1, <1>2, <1>3 DEF IndInv

\* A broadcast starts a goroutine for a registered connection.
LEMMA BroadcastKeeps ==
    ASSUME IndInv, NEW c \in Conns, Broadcast(c)
    PROVE  IndInv'
<1>1. TypeOK'
  BY DEF IndInv, TypeOK, Broadcast
<1>2. ListedOrClosed'
  BY DEF IndInv, ListedOrClosed, TypeOK, Broadcast
<1>3. ListedHasReader'
  BY DEF IndInv, ListedHasReader, TypeOK, Broadcast
<1>. QED
  BY <1>1, <1>2, <1>3 DEF IndInv

\* Its write succeeds or fails.
LEMMA WriteManifestKeeps ==
    ASSUME IndInv, NEW c \in Conns, WriteManifest(c)
    PROVE  IndInv'
<1>1. TypeOK'
  BY DEF IndInv, TypeOK, WriteManifest
<1>2. ListedOrClosed'
  BY DEF IndInv, ListedOrClosed, TypeOK, WriteManifest
<1>3. ListedHasReader'
  BY DEF IndInv, ListedHasReader, TypeOK, WriteManifest
<1>. QED
  BY <1>1, <1>2, <1>3 DEF IndInv

\* RemovePeer by ID, from the goroutine whose write failed.
LEMMA DropPeerKeeps ==
    ASSUME IndInv, NEW c \in Conns, DropPeer(c)
    PROVE  IndInv'
<1>1. TypeOK'
  BY DEF IndInv, TypeOK, DropPeer, RemovePeer
<1>2. ListedOrClosed'
  BY DEF IndInv, ListedOrClosed, TypeOK, DropPeer, RemovePeer
<1>3. ListedHasReader'
  BY DEF IndInv, ListedHasReader, TypeOK, DropPeer, RemovePeer
<1>. QED
  BY <1>1, <1>2, <1>3 DEF IndInv

\* The remote end goes away.
LEMMA RemoteGoneKeeps ==
    ASSUME IndInv, NEW c \in Conns, RemoteGone(c)
    PROVE  IndInv'
<1>1. TypeOK'
  BY DEF IndInv, TypeOK, RemoteGone
<1>2. ListedOrClosed'
  BY DEF IndInv, ListedOrClosed, TypeOK, RemoteGone
<1>3. ListedHasReader'
  BY DEF IndInv, ListedHasReader, TypeOK, RemoteGone
<1>. QED
  BY <1>1, <1>2, <1>3 DEF IndInv

\* Nobody is connected at the start.
LEMMA InitEstablishes == Init => IndInv
  BY DEF Init, IndInv, TypeOK, ListedOrClosed, ListedHasReader

\* Every step keeps the invariant,
LEMMA NextKeeps == IndInv /\ [Next]_vars => IndInv'
<1>. SUFFICES ASSUME IndInv, [Next]_vars PROVE IndInv'
  OBVIOUS
<1>1. CASE UNCHANGED vars
  BY <1>1 DEF IndInv, TypeOK, ListedOrClosed, ListedHasReader, vars
<1>2. ASSUME NEW c \in Conns, Step(c) PROVE IndInv'
  BY <1>2, DialKeeps, RelayPeerKeeps, InboundKeeps, SendHelloKeeps, RegisterKeeps, ReadHelloKeeps,
     HandleHelloKeeps, ReadFailsKeeps, ExitKeeps, BroadcastKeeps, WriteManifestKeeps, DropPeerKeeps,
     RemoteGoneKeeps DEF Step
<1>. QED
  BY <1>1, <1>2 DEF Next

\* so it always holds.
LEMMA Invariance == Spec => []IndInv
  BY InitEstablishes, NextKeeps, PTL DEF Spec

(***************************************************************************)
(* The table maps IDs to connections, and every connection that was set up *)
(* has an ID.                                                              *)
(***************************************************************************)
THEOREM TypeCorrect == Spec => []TypeOK
  BY Invariance, PTL DEF IndInv

(***************************************************************************)
(* However replacements (AddPeer), deferred removals (HandleIncoming) and  *)
(* removals after failed writes (sendManifest) of one ID interleave, a     *)
(* connection that was registered is still registered or is closed.        *)
(***************************************************************************)
THEOREM NothingLeaks == Spec => []ListedOrClosed
  BY Invariance, PTL DEF IndInv

(***************************************************************************)
(* Every registered connection has a HandleIncoming that has still to call *)
(* RemovePeer, so no address stays blocked for tryDialGroup by a peer that *)
(* nobody reads from.                                                      *)
(***************************************************************************)
THEOREM PeersHaveReaders == Spec => []ListedHasReader
  BY Invariance, PTL DEF IndInv
=============================================================================
