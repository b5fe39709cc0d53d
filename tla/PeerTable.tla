----------------------------- MODULE PeerTable -----------------------------
(***************************************************************************)
(* The peers of one sync engine (internal/sync/engine.go: AddPeer,         *)
(* RemovePeer, HandleIncoming, sendManifest, ConnectAndHello), with the    *)
(* three ways a connection gets there: dialled by tryDialGroup and         *)
(* accepted by handleInbound (internal/app/app.go), or opened through the  *)
(* relay by ConnectPeer (internal/relay/client.go).                        *)
(*                                                                         *)
(* Engine.peers is keyed by an ID: the address for a dialled peer, the     *)
(* peer ID of the HELLO for an inbound one, the peer ID for a relay peer.  *)
(* Several connections with the same ID are live at the same time when a   *)
(* peer reconnects, or reaches us both directly and through the relay.     *)
(* Each critical section under Engine.mu is one action.                    *)
(***************************************************************************)
EXTENDS Integers

CONSTANTS
    Conns,      \* connection objects, each used once
    Addrs,      \* configured or discovered addresses (IDs of dialled peers)
    PeerIDs,    \* peer IDs (IDs of inbound and relay peers)
    None        \* no connection

Ids == Addrs \cup PeerIDs

ASSUME PeerTableAssumption == None \notin Conns /\ None \notin Ids /\ Addrs \cap PeerIDs = {}

VARIABLES
    pc,        \* pc[c]: the goroutine that sets c up and then runs HandleIncoming
    conn,      \* conn[c]: "open", "broken" (ended, not closed by the engine), "closed"
    id,        \* id[c]: Peer.ID
    peers,     \* Engine.peers
    sender,    \* sender[c]: a sendManifest goroutine that holds the Peer of c
    dialing,   \* App.dialing: addresses being dialled
    relayed    \* the connections that were opened through the relay

vars == <<pc, conn, id, peers, sender, dialing, relayed>>

TypeOK ==
    /\ pc \in [Conns -> {"none", "hello", "add", "run", "rehello", "exit", "done"}]
    /\ conn \in [Conns -> {"open", "broken", "closed"}]
    /\ id \in [Conns -> Ids \cup {None}]
    /\ \A c \in Conns : pc[c] # "none" => id[c] # None
    /\ peers \in [Ids -> Conns \cup {None}]
    /\ sender \in [Conns -> {"idle", "writing", "failed"}]
    /\ dialing \in SUBSET Addrs /\ relayed \in SUBSET Conns

Goto(c, l) == pc' = [pc EXCEPT ![c] = l]

\* AddPeer with the connection it replaces left open.
MapPeer(c) == peers' = [peers EXCEPT ![id[c]] = c]

\* The other connection registered under the ID is closed.
AddPeer(c) ==
    /\ MapPeer(c)
    /\ LET old == peers[id[c]]
       IN conn' = IF old \in {None, c} THEN conn ELSE [conn EXCEPT ![old] = "closed"]

\* Whatever connection is registered under the ID is closed and forgotten.
RemovePeer(i) ==
    /\ conn' = IF peers[i] = None THEN conn ELSE [conn EXCEPT ![peers[i]] = "closed"]
    /\ peers' = [peers EXCEPT ![i] = None]

-----------------------------------------------------------------------------
(* Connections come up *)

\* tryDialGroup, and the dial succeeds.  (A dial that fails leaves no trace.)
Dial(c, a) ==
    /\ pc[c] = "none" /\ a \notin dialing /\ peers[a] = None
    /\ dialing' = dialing \cup {a}
    /\ id' = [id EXCEPT ![c] = a]
    /\ conn' = [conn EXCEPT ![c] = "open"]
    /\ Goto(c, "hello")
    /\ UNCHANGED <<peers, sender, relayed>>

\* The relay client opened a virtual connection: ConnectPeer starts.
RelayPeer(c, p) ==
    /\ pc[c] = "none"
    /\ id' = [id EXCEPT ![c] = p]
    /\ conn' = [conn EXCEPT ![c] = "open"]
    /\ Goto(c, "hello")
    /\ relayed' = relayed \cup {c}
    /\ UNCHANGED <<peers, sender, dialing>>

\* A connection is accepted, and its peer is called i.
Accepted(c, i) ==
    /\ pc[c] = "none"
    /\ id' = [id EXCEPT ![c] = i]
    /\ conn' = [conn EXCEPT ![c] = "open"]
    /\ Goto(c, "add")
    /\ UNCHANGED <<peers, sender, dialing, relayed>>

\* Mutant: a HELLO without a peer ID leaves the peer without one.
InboundAnonymous(c, p) == Accepted(c, p) \/ Accepted(c, None)

\* handleInbound read a HELLO for this group; one without a peer ID names the
\* peer by its remote address, which is another member of PeerIDs.
Inbound(c, p) == Accepted(c, p)

\* Mutant: tryDialGroup forgets a dial only when it succeeded.
SendHelloDialing(c) ==
    /\ pc[c] = "hello"
    /\ \/ Goto(c, "add") /\ UNCHANGED conn
       \/ Goto(c, "done") /\ conn' = [conn EXCEPT ![c] = "closed"]
    /\ UNCHANGED <<id, peers, sender, dialing, relayed>>

\* SendHello of ConnectAndHello or ConnectPeer succeeds, or fails and the
\* connection is closed.
SendHello(c) ==
    /\ pc[c] = "hello"
    /\ \/ Goto(c, "add") /\ UNCHANGED <<conn, dialing>>
       \/ /\ Goto(c, "done") /\ conn' = [conn EXCEPT ![c] = "closed"]
          /\ dialing' = dialing \ {id[c]}
    /\ UNCHANGED <<id, peers, sender, relayed>>

\* go OnPeerConnected, go HandleIncoming, and the dial is over.  (tryDialGroup
\* clears dialing a moment later, which can only delay another dial.)
Started(c) ==
    /\ pc[c] = "add"
    /\ Goto(c, "run")
    /\ dialing' = dialing \ {id[c]}
    /\ UNCHANGED <<id, sender, relayed>>

\* Mutant: the replaced connection stays open.
RegisterOver(c) == Started(c) /\ MapPeer(c) /\ UNCHANGED conn

Register(c) == Started(c) /\ AddPeer(c)

-----------------------------------------------------------------------------
(* HandleIncoming *)

\* A HELLO is read; AddPeer comes next.  Only relay peers get here: the one
\* that accepts a direct connection sends no HELLO, and handleInbound has read
\* the one that the dialling side sent.  A relay peer that has to attach us
\* again says HELLO again.
ReadHello(c) ==
    /\ pc[c] = "run" /\ c \in relayed
    /\ Goto(c, "rehello")
    /\ UNCHANGED <<conn, id, peers, sender, dialing, relayed>>

HandleHello(c) ==
    /\ pc[c] = "rehello"
    /\ AddPeer(c)
    /\ Goto(c, "run")
    /\ UNCHANGED <<id, sender, dialing, relayed>>

\* A read error, a malformed payload or a HELLO of another group: return.
ReadFails(c) ==
    /\ pc[c] = "run"
    /\ Goto(c, "exit")
    /\ UNCHANGED <<conn, id, peers, sender, dialing, relayed>>

\* Mutant: the peer stays registered when its handler returns.
ExitOnly(c) ==
    /\ pc[c] = "exit"
    /\ Goto(c, "done") /\ conn' = [conn EXCEPT ![c] = "closed"]
    /\ UNCHANGED <<id, peers, sender, dialing, relayed>>

\* The deferred RemovePeer.
Exit(c) ==
    /\ pc[c] = "exit"
    /\ RemovePeer(id[c])
    /\ Goto(c, "done")
    /\ UNCHANGED <<id, sender, dialing, relayed>>

-----------------------------------------------------------------------------
(* sendManifest *)

\* A broadcast lists the peers and starts a goroutine with the Peer of c.
Broadcast(c) ==
    /\ sender[c] = "idle" /\ id[c] # None /\ peers[id[c]] = c
    /\ sender' = [sender EXCEPT ![c] = "writing"]
    /\ UNCHANGED <<pc, conn, id, peers, dialing, relayed>>

\* A write may fail on a connection that is still open, and one to a virtual
\* connection that is closed may succeed: virtualConn.Write does not look.
WriteManifest(c) ==
    /\ sender[c] = "writing"
    /\ \E result \in {"idle", "failed"} : sender' = [sender EXCEPT ![c] = result]
    /\ UNCHANGED <<pc, conn, id, peers, dialing, relayed>>

\* The write failed: RemovePeer.
DropPeer(c) ==
    /\ sender[c] = "failed"
    /\ RemovePeer(id[c])
    /\ sender' = [sender EXCEPT ![c] = "idle"]
    /\ UNCHANGED <<pc, id, dialing, relayed>>

-----------------------------------------------------------------------------
\* A direct connection ends or stops answering the TCP keepalives; the relay
\* client closes a virtual one.  A relay peer can also go without the relay
\* telling (RelayServer, Introduced): its connection just stays open.
RemoteGone(c) ==
    /\ conn[c] = "open"
    /\ conn' = [conn EXCEPT ![c] = "broken"]
    /\ UNCHANGED <<pc, id, peers, sender, dialing, relayed>>

Init ==
    /\ pc = [c \in Conns |-> "none"]
    /\ conn = [c \in Conns |-> "closed"]
    /\ id = [c \in Conns |-> None]
    /\ peers = [i \in Ids |-> None]
    /\ sender = [c \in Conns |-> "idle"]
    /\ dialing = {} /\ relayed = {}

Step(c) ==
    \/ SendHello(c) \/ Register(c) \/ ReadHello(c) \/ HandleHello(c) \/ ReadFails(c) \/ Exit(c)
    \/ Broadcast(c) \/ WriteManifest(c) \/ DropPeer(c) \/ RemoteGone(c)
    \/ \E a \in Addrs : Dial(c, a)
    \/ \E p \in PeerIDs : RelayPeer(c, p) \/ Inbound(c, p)

Next == \E c \in Conns : Step(c)

Spec == Init /\ [][Next]_vars

(***************************************************************************)
(* Fairness: tryDialGroup and the deferred RemovePeer run to their ends,   *)
(* and HandleIncoming notices that a direct connection is closed or dead:  *)
(* EnableKeepAlive (transport.go) makes a read of it fail.  Nothing is     *)
(* assumed of relay peers: a virtual connection has no deadline, and may   *)
(* stay open without anybody at its other end.                             *)
(***************************************************************************)
Fairness ==
    \A c \in Conns :
        /\ WF_vars(c \notin relayed /\ SendHello(c)) /\ WF_vars(c \notin relayed /\ Register(c))
        /\ WF_vars(conn[c] # "open" /\ c \notin relayed /\ ReadFails(c))
        /\ WF_vars(Exit(c))

FairSpec == Spec /\ Fairness

-----------------------------------------------------------------------------
(* Properties *)

(***************************************************************************)
(* No connection leaks: once AddPeer was called for it, a connection is    *)
(* registered or closed, however the replacements and removals of its ID   *)
(* interleave (engine.go: AddPeer, RemovePeer).                            *)
(***************************************************************************)
ListedOrClosed ==
    \A c \in Conns : pc[c] \in {"run", "rehello", "exit", "done"} =>
        conn[c] = "closed" \/ peers[id[c]] = c

(***************************************************************************)
(* A registered peer has a HandleIncoming that will notice when it is      *)
(* gone: no manifest is announced to a peer nobody listens to, and         *)
(* tryDialGroup, which does not dial an address that is registered, never  *)
(* waits for a connection that no goroutine can give up.                   *)
(***************************************************************************)
ListedHasReader ==
    \A i \in Ids : peers[i] # None =>
        id[peers[i]] = i /\ pc[peers[i]] \in {"run", "rehello", "exit"}

\* tryDialGroup does not dial a.
LockedOut(a) == a \in dialing \/ peers[a] # None

(***************************************************************************)
(* A configured address is connected or can be dialled, again and again:   *)
(* neither a dial that came to nothing, nor the death of a connection in   *)
(* the middle of announcements, replacements and removals of its ID, locks *)
(* tryDialGroup out for good (app.go: tryDialGroup, engine.go: AddPeer,    *)
(* RemovePeer, HandleIncoming).                                            *)
(***************************************************************************)
AddressIsRetried ==
    \A a \in Addrs :
        []<>(~LockedOut(a) \/ (peers[a] # None /\ conn[peers[a]] = "open"))
=============================================================================
