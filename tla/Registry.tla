------------------------------ MODULE Registry ------------------------------
(***************************************************************************)
(* Who belongs to a node's mesh: the threads of MeshNode that discover     *)
(* peers, register their keys with the consensus engine, open TLS          *)
(* connections to them and prune them.  Each thread runs on its own; a     *)
(* step is the part of a handler between two of the mutexes it takes.      *)
(*                                                                         *)
(*   listener   p2p_listener_loop: discovery beacons and ANNOUNCE          *)
(*   tcp        tcp_listener_loop: peer lists that others send             *)
(*   pruner     liveness_monitor: prune_stale_peers                        *)
(*   worker     tls_worker_loop: connect_tls_to_peer                       *)
(*   acceptor   tls_acceptor_loop                                          *)
(*   sender     whichever thread is in broadcast_pbft_stage                *)
(*                                                                         *)
(* A message here has passed its parsing, signature and clock checks: one  *)
(* that fails them, or the rate limit, changes nothing.                    *)
(***************************************************************************)
EXTENDS PeerManager, Sequences

CONSTANTS
    Traffic,   \* what may arrive during a behaviour: a set of records
               \* [msgs, pex, inbound, unpin]
    MaxNodes,  \* bound on total_nodes: no message is taken above it
    MaxQueue   \* bound on the TLS connection queue, for the same purpose

VARIABLES
    keys,         \* m_peer_public_keys of the engine, NoKey if none
    total_nodes,  \* m_total_nodes of the engine
    listener,     \* the message the listener handles, and how far it is
    pruner,       \* the stale peers still to prune, and how far it is
    tls_queue,    \* m_tls_connect_queue
    worker, acceptor, sender,
    traffic,      \* the element of Traffic that this behaviour meets
    heard,        \* history: the keys each path brought for a peer
    unpinned,     \* history: the peers unpinned so far
    unconfirmed,  \* history: the peers whose key a heartbeat stored
    uncounted,    \* history: the peers pruned without having a key
    overtaken,    \* history: the peers pruned while being registered
    abandoned     \* history: the connections that no table names any more

engineVars == <<keys, total_nodes>>
tlsVars == <<tls_queue, worker, acceptor, sender, abandoned>>
historyVars == <<heard, unpinned, unconfirmed, uncounted, overtaken>>
registryVars == <<peers, tofu, open, active_ssl, keys, total_nodes, listener,
                  pruner, tls_queue, worker, acceptor, sender, traffic,
                  heard, unpinned, unconfirmed, uncounted, overtaken, abandoned>>

NoPeer == ""
Message == [path : Path, peer : Peer, key : Key, cert : Cert \cup {NoCert},
            tls : BOOLEAN]
NoMessage == [path |-> "none", peer |-> NoPeer, key |-> NoKey, cert |-> NoCert,
              tls |-> FALSE]

ASSUME TrafficAssumption ==
    /\ {NoPeer, NoSsl, Inbound} \cap Peer = {}
    /\ \A t \in Traffic : t.msgs \subseteq Message /\ t.pex \subseteq Peer

\* What a peer sends: its key on both paths, its certificate only in a beacon,
\* which also says whether it has a TLS listener.
announce_identity(p, key) ==
    [path |-> "announce", peer |-> p, key |-> key, cert |-> NoCert, tls |-> FALSE]
send_discovery_beacon(p, key, cert, tls) ==
    [path |-> "beacon", peer |-> p, key |-> key, cert |-> cert, tls |-> tls]

ListenerIdle == [at |-> "idle", msg |-> NoMessage, isNew |-> FALSE, dual |-> FALSE]
PrunerIdle == [at |-> "idle", id |-> NoPeer, todo |-> {}]
WorkerIdle == [at |-> "idle", id |-> NoPeer, fd |-> NoFd]
SenderIdle == [at |-> "idle", id |-> NoPeer, fd |-> NoFd, ssl |-> NoSsl,
               freed |-> FALSE, pruned |-> FALSE]

RegistryInit ==
    /\ PeerManagerInit /\ TransportInit
    /\ keys = provisioned
    /\ total_nodes = 1 + Cardinality({p \in Peer : is_peer_pre_provisioned(p)})
    /\ listener = ListenerIdle
    /\ pruner = PrunerIdle
    /\ tls_queue = <<>>
    /\ worker = WorkerIdle
    /\ acceptor = NoFd
    /\ sender = SenderIdle
    /\ traffic \in Traffic
    /\ heard = [p \in Peer |-> [path \in Path |-> {}]]
    /\ unpinned = {} /\ unconfirmed = {} /\ uncounted = {} /\ overtaken = {} /\ abandoned = {}

-----------------------------------------------------------------------------
\* The engine's membership, PBFT.hpp.

register_peer_key(p, key) ==
    /\ keys' = [keys EXCEPT ![p] = key]
    /\ UNCHANGED total_nodes

increment_peers ==
    /\ total_nodes' = total_nodes + 1
    /\ UNCHANGED keys

\* Mutant: only a peer that has a key is taken off the count, and it keeps
\* the key.
prune_peer_KeepsKey(p) ==
    /\ total_nodes' = IF keys[p] # NoKey /\ total_nodes > 1 THEN total_nodes - 1
                                                           ELSE total_nodes
    /\ UNCHANGED keys
\* The count goes down whether or not p was counted.
prune_peer(p) ==
    /\ keys' = [keys EXCEPT ![p] = NoKey]
    /\ total_nodes' = IF total_nodes > 1 THEN total_nodes - 1 ELSE 1

-----------------------------------------------------------------------------
\* The listener.

\* A beacon is dropped if its certificate is not the pinned one; otherwise
\* its certificate, if it has one, is pinned.
ReceiveBeacon ==
    /\ listener.at = "idle" /\ total_nodes < MaxNodes /\ Len(tls_queue) < MaxQueue
    /\ \E m \in traffic.msgs :
          /\ m.path = "beacon"
          /\ m.cert # NoCert => verify_tls_cert(m.peer, m.cert)
          /\ IF m.cert # NoCert THEN pin_tls_fingerprint(m.peer, m.cert)
                                ELSE UNCHANGED tofu
          /\ listener' = [ListenerIdle EXCEPT !.at = "add", !.msg = m]
          /\ heard' = [heard EXCEPT ![m.peer][m.path] = @ \cup {m.key}]
    /\ UNCHANGED <<peers, transportVars, engineVars, pruner, tlsVars, traffic,
                   unpinned, unconfirmed, uncounted, overtaken>>

ReceiveAnnounce ==
    /\ listener.at = "idle" /\ total_nodes < MaxNodes
    /\ \E m \in traffic.msgs :
          /\ m.path = "announce"
          /\ listener' = [ListenerIdle EXCEPT !.at = "add", !.msg = m]
          /\ heard' = [heard EXCEPT ![m.peer][m.path] = @ \cup {m.key}]
    /\ UNCHANGED <<peers, tofu, transportVars, engineVars, pruner, tlsVars,
                   traffic, unpinned, unconfirmed, uncounted, overtaken>>

AddSender ==
    /\ listener.at = "add"
    /\ \E isNew \in BOOLEAN :
          /\ add_peer(listener.msg.peer, listener.msg.key, isNew)
          /\ listener' = [listener EXCEPT !.at = "confirm", !.isNew = isNew]
    /\ UNCHANGED <<tofu, transportVars, engineVars, pruner, tlsVars, traffic,
                   historyVars>>

\* A refused key ends the handler.  A beacon of a peer that was in the table
\* refreshes its entry first; an ANNOUNCE does not.
ConfirmPath ==
    /\ listener.at = "confirm"
    /\ LET m == listener.msg IN
       \E dual, mismatch \in BOOLEAN :
          /\ confirm_path(m.peer, m.path, m.key,
                          [dual |-> dual, mismatch |-> mismatch])
          /\ listener' =
                IF mismatch THEN ListenerIdle
                ELSE [listener EXCEPT
                        !.dual = dual,
                        !.at = IF m.path = "beacon" /\ ~listener.isNew
                               THEN "refresh" ELSE "register"]
    /\ UNCHANGED <<tofu, transportVars, engineVars, pruner, tlsVars, traffic,
                   historyVars>>

\* The heartbeat of an entry that holds another key is not refreshed.  An entry
\* without a key, which the pruner and a peer list have put in the place of the
\* confirmed one, gets the key with no path confirmed.
RefreshHeartbeat ==
    /\ listener.at = "refresh"
    /\ LET m == listener.msg IN
       /\ IF peers[m.peer].key \in {NoKey, m.key}
          THEN update_peer_heartbeat(m.peer, m.key) ELSE UNCHANGED peers
       /\ unconfirmed' = unconfirmed \cup
             {p \in {m.peer} : has_peer(p) /\ peers[p].key = NoKey}
    /\ listener' = IF listener.dual THEN [listener EXCEPT !.at = "register"]
                                    ELSE ListenerIdle
    /\ UNCHANGED <<tofu, transportVars, engineVars, pruner, tlsVars, traffic,
                   heard, unpinned, uncounted, overtaken>>

\* Where a handler goes on once the registration is behind it.
AfterRegistration ==
    IF listener.msg.path = "beacon" THEN [listener EXCEPT !.at = "pex"]
                                    ELSE ListenerIdle

RegisterKey ==
    /\ listener.at = "register"
    /\ LET m == listener.msg IN
       IF listener.dual /\ keys[m.peer] = NoKey
       THEN /\ register_peer_key(m.peer, m.key)
            /\ listener' = [listener EXCEPT !.at = "count"]
       ELSE listener' = AfterRegistration /\ UNCHANGED engineVars
    /\ UNCHANGED <<peers, tofu, transportVars, pruner, tlsVars, traffic,
                   historyVars>>

CountPeer ==
    /\ listener.at = "count"
    /\ increment_peers
    /\ listener' = AfterRegistration
    /\ UNCHANGED <<peers, tofu, transportVars, pruner, tlsVars, traffic,
                   historyVars>>

\* perform_pex_handshake with the sender, if it is still in the table: a peer
\* of its list joins the table without a key.  It may fail at any point, and
\* then teaches nothing more.
PexHandshake ==
    /\ listener.at = "pex"
    /\ \/ /\ has_peer(listener.msg.peer)
          /\ \E q \in traffic.pex : add_peer(q, NoKey, TRUE)
          /\ UNCHANGED listener
       \/ /\ listener' = [listener EXCEPT !.at = "queue"]
          /\ UNCHANGED peers
    /\ UNCHANGED <<tofu, transportVars, engineVars, pruner, tlsVars, traffic,
                   historyVars>>

QueueConnection ==
    /\ listener.at = "queue"
    /\ tls_queue' = IF listener.msg.tls THEN Append(tls_queue, listener.msg.peer)
                                        ELSE tls_queue
    /\ listener' = ListenerIdle
    /\ UNCHANGED <<peers, tofu, transportVars, engineVars, pruner, worker,
                   acceptor, sender, abandoned, traffic, historyVars>>

\* The TCP thread: a peer list that another node sends, or the reply to the
\* handshake made with a peer learned from it.
TcpLearnsPeer ==
    /\ \E q \in traffic.pex : add_peer(q, NoKey, TRUE)
    /\ UNCHANGED <<tofu, transportVars, engineVars, listener, pruner, tlsVars,
                   traffic, historyVars>>

-----------------------------------------------------------------------------
\* The pruner.

Age(p) ==
    /\ has_peer(p) /\ ~peers[p].stale
    /\ peers' = [peers EXCEPT ![p].stale = TRUE]
    /\ UNCHANGED <<tofu, transportVars, engineVars, listener, pruner, tlsVars,
                   traffic, historyVars>>

ListStale ==
    /\ pruner.at = "idle" /\ get_stale_peers # {}
    /\ pruner' = [PrunerIdle EXCEPT !.at = "close", !.todo = get_stale_peers]
    /\ UNCHANGED <<peers, tofu, transportVars, engineVars, listener, tlsVars,
                   traffic, historyVars>>

\* What close(f) does to a sender that uses f, when it runs on behalf of p.
SenderAfterClose(f, p) ==
    [sender EXCEPT !.freed = @ \/ (sender.at = "write" /\ sender.fd = f
                                   /\ sender.ssl # NoSsl),
                   !.pruned = @ \/ (sender.at # "idle" /\ sender.id = p)]

\* Mutant: the descriptor of a peer that has been heard of again is closed
\* and the peer is kept.
CloseStale_KeepsFresh(p) ==
    /\ pruner.at = "close" /\ p \in pruner.todo
    /\ IF peers[p].fd # NoFd
       THEN close(peers[p].fd) ELSE UNCHANGED transportVars
    /\ sender' = SenderAfterClose(peers[p].fd, p)
    /\ pruner' = IF peers[p].stale
                 THEN [at |-> "remove", id |-> p, todo |-> pruner.todo \ {p}]
                 ELSE [pruner EXCEPT !.todo = @ \ {p},
                                     !.at = IF pruner.todo = {p} THEN "idle" ELSE @]
    /\ UNCHANGED <<peers, tofu, engineVars, listener, tls_queue, worker,
                   acceptor, abandoned, traffic, historyVars>>
CloseStale(p) ==
    /\ pruner.at = "close" /\ p \in pruner.todo
    /\ IF peers[p].fd # NoFd
       THEN close(peers[p].fd) ELSE UNCHANGED transportVars
    /\ sender' = SenderAfterClose(peers[p].fd, p)
    /\ pruner' = [at |-> "remove", id |-> p, todo |-> pruner.todo \ {p}]
    /\ UNCHANGED <<peers, tofu, engineVars, listener, tls_queue, worker,
                   acceptor, abandoned, traffic, historyVars>>

\* The peer whose handler is past confirm_path and may still register it.
BeingRegistered ==
    IF listener.at \in {"refresh", "register", "count"} THEN {listener.msg.peer} ELSE {}

\* An entry that got a descriptor after it was closed takes it along.
RemoveStale ==
    /\ pruner.at = "remove"
    /\ LET p == pruner.id IN
       /\ remove_peer(p)
       /\ pruner' = [pruner EXCEPT !.at = "prune"]
       /\ overtaken' = overtaken \cup ({p} \cap BeingRegistered)
       /\ abandoned' = abandoned \cup {f \in Fd : peers[p].fd = f /\ active_ssl[f] = p}
    /\ UNCHANGED <<tofu, transportVars, engineVars, listener, tls_queue, worker,
                   acceptor, sender, traffic, heard, unpinned, unconfirmed, uncounted>>

\* A provisioned peer stays in the engine.
PruneStale ==
    /\ pruner.at = "prune"
    /\ LET p == pruner.id IN
       /\ IF is_peer_pre_provisioned(p) THEN UNCHANGED engineVars ELSE prune_peer(p)
       /\ overtaken' = overtaken \cup ({p} \cap BeingRegistered)
       /\ uncounted' = uncounted \cup {q \in {p} : keys[q] = NoKey}
    /\ pruner' = IF pruner.todo = {} THEN PrunerIdle
                 ELSE [PrunerIdle EXCEPT !.at = "close", !.todo = pruner.todo]
    /\ UNCHANGED <<peers, tofu, transportVars, listener, tlsVars, traffic,
                   heard, unpinned, unconfirmed>>

\* unpin_peer_key: an operator's call, for a peer in the table.
UnpinPeer(p) ==
    /\ p \in traffic.unpin /\ has_peer(p)
    /\ unpin_peer_key(p)
    /\ unpinned' = unpinned \cup {p}
    /\ UNCHANGED <<transportVars, engineVars, listener, pruner, tlsVars,
                   traffic, heard, unconfirmed, uncounted, overtaken>>

-----------------------------------------------------------------------------
\* TLS connections.

\* Mutant: the table is not asked for a connection.
TakeTask_Unasked ==
    /\ worker.at = "idle" /\ tls_queue # <<>>
    /\ tls_queue' = Tail(tls_queue)
    /\ worker' = [WorkerIdle EXCEPT !.at = "connect", !.id = Head(tls_queue)]
    /\ UNCHANGED <<peers, tofu, transportVars, engineVars, listener, pruner,
                   acceptor, sender, abandoned, traffic, historyVars>>
\* A peer that already has a connection needs no other.
TakeTask ==
    /\ worker.at = "idle" /\ tls_queue # <<>>
    /\ tls_queue' = Tail(tls_queue)
    /\ worker' = IF peers[Head(tls_queue)].fd # NoFd THEN WorkerIdle
                 ELSE [WorkerIdle EXCEPT !.at = "connect", !.id = Head(tls_queue)]
    /\ UNCHANGED <<peers, tofu, transportVars, engineVars, listener, pruner,
                   acceptor, sender, abandoned, traffic, historyVars>>

Connect ==
    /\ worker.at = "connect"
    /\ \/ \E f \in Fd : /\ OpenSocket(f)
                        /\ worker' = [worker EXCEPT !.at = "handshake", !.fd = f]
       \/ worker' = WorkerIdle /\ UNCHANGED transportVars
    /\ UNCHANGED <<peers, tofu, engineVars, listener, pruner, tls_queue,
                   acceptor, sender, abandoned, traffic, historyVars>>

Handshake ==
    /\ worker.at = "handshake"
    /\ \/ /\ HandshakeDone(worker.fd, worker.id)
          /\ worker' = [worker EXCEPT !.at = "store"]
       \/ /\ close(worker.fd)
          /\ worker' = WorkerIdle
    /\ UNCHANGED <<peers, tofu, engineVars, listener, pruner, tls_queue,
                   acceptor, sender, abandoned, traffic, historyVars>>

\* A peer that is no longer in the table gets no descriptor.
StoreConnection ==
    /\ worker.at = "store"
    /\ set_peer_tls_fd(worker.id, worker.fd)
    /\ abandoned' = IF has_peer(worker.id) THEN abandoned ELSE abandoned \cup {worker.fd}
    /\ worker' = WorkerIdle
    /\ UNCHANGED <<tofu, transportVars, engineVars, listener, pruner, tls_queue,
                   acceptor, sender, traffic, historyVars>>

\* tls_acceptor_loop keeps a connection only if it comes from the port that a
\* peer's beacon advertises as its TLS listener.  connect() binds no source
\* port, so a peer's connection comes from a port the kernel chose, which is
\* outside TLS_PORT_START .. TLS_PORT_START + 99: it is closed.
AcceptConnection ==
    /\ acceptor = NoFd /\ traffic.inbound
    /\ \E f \in Fd : accept(f) /\ acceptor' = f
    /\ UNCHANGED <<peers, tofu, engineVars, listener, pruner, tls_queue, worker,
                   sender, abandoned, traffic, historyVars>>

RejectConnection ==
    /\ acceptor # NoFd
    /\ close(acceptor) /\ sender' = SenderAfterClose(acceptor, NoPeer)
    /\ acceptor' = NoFd
    /\ UNCHANGED <<peers, tofu, engineVars, listener, pruner, tls_queue, worker,
                   abandoned, traffic, historyVars>>

-----------------------------------------------------------------------------
\* broadcast_pbft_stage, for one peer of its list: the descriptor is read from
\* the table, the SSL object is looked up, and it is used without the lock.

PickDescriptor(p) ==
    /\ sender.at = "idle" /\ peers[p].fd # NoFd
    /\ sender' = [SenderIdle EXCEPT !.at = "lookup", !.id = p, !.fd = peers[p].fd,
                     !.pruned = pruner.at = "remove" /\ pruner.id = p]
    /\ UNCHANGED <<peers, tofu, transportVars, engineVars, listener, pruner,
                   tls_queue, worker, acceptor, abandoned, traffic, historyVars>>

LookUpSsl ==
    /\ sender.at = "lookup"
    /\ sender' = [sender EXCEPT !.at = "write", !.ssl = active_ssl[sender.fd]]
    /\ UNCHANGED <<peers, tofu, transportVars, engineVars, listener, pruner,
                   tls_queue, worker, acceptor, abandoned, traffic, historyVars>>

\* A whole send ends there.  After a short one the table forgets the
\* descriptor, which stays open.
WriteMessage ==
    /\ sender.at = "write"
    /\ sender' = SenderIdle
    /\ \/ UNCHANGED <<peers, abandoned>>
       \/ /\ set_peer_tls_fd(sender.id, NoFd)
          /\ abandoned' = abandoned \cup {f \in Fd : peers[sender.id].fd = f}
    /\ UNCHANGED <<tofu, transportVars, engineVars, listener, pruner, tls_queue,
                   worker, acceptor, traffic, historyVars>>

-----------------------------------------------------------------------------
ListenerNext ==
    \/ ReceiveBeacon \/ ReceiveAnnounce \/ AddSender \/ ConfirmPath
    \/ RefreshHeartbeat \/ RegisterKey \/ CountPeer \/ PexHandshake
    \/ QueueConnection

PrunerNext ==
    ListStale \/ (\E p \in Peer : CloseStale(p)) \/ RemoveStale \/ PruneStale

TlsNext ==
    \/ TakeTask \/ Connect \/ Handshake \/ StoreConnection
    \/ AcceptConnection \/ RejectConnection
    \/ (\E p \in Peer : PickDescriptor(p)) \/ LookUpSsl \/ WriteMessage

RegistryNext ==
    \/ ListenerNext \/ TcpLearnsPeer \/ PrunerNext \/ TlsNext
    \/ \E p \in Peer : Age(p) \/ UnpinPeer(p)

RegistrySpec == RegistryInit /\ [][RegistryNext]_registryVars

-----------------------------------------------------------------------------
\* Type invariant.
RegistryTypeOK ==
    /\ peers \in [Peer -> PeerEntry]
    /\ tofu \in [Peer -> Cert \cup {NoCert}]
    /\ open \subseteq Fd
    /\ active_ssl \in [Fd -> Peer \cup {Inbound, NoSsl}]
    /\ keys \in [Peer -> Key \cup {NoKey}]
    /\ total_nodes \in Nat \ {0}
    /\ listener \in [at : {"idle", "add", "confirm", "refresh", "register",
                           "count", "pex", "queue"},
                     msg : Message \cup {NoMessage},
                     isNew : BOOLEAN, dual : BOOLEAN]
    /\ listener.at # "idle" => listener.msg \in Message
    /\ pruner \in [at : {"idle", "close", "remove", "prune"},
                   id : Peer \cup {NoPeer}, todo : SUBSET Peer]
    /\ pruner.at \in {"remove", "prune"} => pruner.id \in Peer
    /\ tls_queue \in Seq(Peer)
    /\ worker \in [at : {"idle", "connect", "handshake", "store"},
                   id : Peer \cup {NoPeer}, fd : Fd \cup {NoFd}]
    /\ acceptor \in Fd \cup {NoFd}
    /\ sender \in [at : {"idle", "lookup", "write"}, id : Peer \cup {NoPeer},
                   fd : Fd \cup {NoFd}, ssl : Peer \cup {Inbound, NoSsl},
                   freed : BOOLEAN, pruned : BOOLEAN]
    /\ traffic \in Traffic
    /\ heard \in [Peer -> [Path -> SUBSET Key]]
    /\ unpinned \subseteq Peer /\ unconfirmed \subseteq Peer /\ uncounted \subseteq Peer
    /\ overtaken \subseteq Peer /\ abandoned \subseteq Fd

\* "PBFT key registration only occurs when both paths agree on the same key"
\* (PeerManager.hpp): the key the engine holds for a peer is its provisioned
\* key or one that both its beacon and its ANNOUNCE brought, whatever the
\* pruner, the peer lists and the order of the messages do in between.  A peer
\* that an operator unpinned is excepted: unpin_peer_key clears the key and
\* keeps the paths, so a key that only the other path brings is registered.
\* So is a peer whose entry was replaced by one of a peer list while its beacon
\* was handled: update_peer_heartbeat stores the beacon's key, confirms no path,
\* and an ANNOUNCE with any other key then confirms the stored one.
RegisteredKeysAgree ==
    \A p \in Peer :
        /\ is_peer_pre_provisioned(p) => keys[p] = provisioned[p]
        /\ keys[p] # NoKey /\ ~is_peer_pre_provisioned(p) /\ p \notin unpinned \cup unconfirmed
             => \A path \in Path : keys[p] \in heard[p][path]

\* A member of the engine is a peer of the table: the liveness monitor, which
\* walks the table, can find and prune it.  The exceptions are the provisioned
\* peers, the peer prune_stale_peers is busy with, and a peer that was pruned
\* between its confirm_path and its registration: nothing will ever prune it.
MembersListed ==
    \A p \in Peer :
        keys[p] # NoKey /\ ~has_peer(p)
          => \/ is_peer_pre_provisioned(p)
             \/ pruner.at = "prune" /\ pruner.id = p
             \/ p \in overtaken

\* The quorum is computed from total_nodes, which is this node and the peers
\* with a key (but the one between register_peer_key and increment_peers), as
\* long as no peer was pruned that had no key, and none between the two calls.
CountIsExact ==
    uncounted = {} /\ overtaken = {}
      => total_nodes = 1 + Cardinality({p \in Peer : keys[p] # NoKey}
                             \ (IF listener.at = "count" THEN {listener.msg.peer} ELSE {}))

\* The descriptor in a peer's entry carries the TLS connection to that peer,
\* but between the two calls with which prune_stale_peers closes it and
\* removes the entry.
TableNamesOwnConnection ==
    \A p \in Peer :
        peers[p].fd # NoFd /\ ~(pruner.at = "remove" /\ pruner.id = p)
          => active_ssl[peers[p].fd] = p

\* A vote is written to the connection of the peer it is meant for, through an
\* SSL object that still exists, unless that peer was pruned since the sender
\* read its descriptor.
SendsUseOwnConnection ==
    sender.at = "write" /\ ~sender.pruned
      => sender.ssl = sender.id /\ ~sender.freed

\* A connection that stays open without an entry that names it was dropped by
\* one of three steps: a failed send, a peer pruned while its connection was
\* being made, an entry removed with a descriptor it got after the close.
LeaksHaveCause ==
    \A f \in Fd :
        active_ssl[f] # NoSsl
          => \/ \E p \in Peer : peers[p].fd = f
             \/ worker.fd = f \/ acceptor = f \/ f \in abandoned

\* "Key and TLS cert unpinned ... next beacon will accept new key and cert"
\* (MeshNode::unpin_peer_key): once a peer of the table has been unpinned and
\* while it has no key, no beacon of it is refused.
UnpinAcceptsNewKey ==
    \A p \in unpinned, k \in Key :
        has_peer(p) /\ peers[p].key = NoKey => ~KeyMismatch(p, "beacon", k)
=============================================================================
