--------------------------- MODULE RegistryProofs ---------------------------
(***************************************************************************)
(* Proofs about the peer registry, for every set of peers, keys and        *)
(* descriptors and every traffic: which keys the engine may hold, who its  *)
(* members are and how they are counted; that the threads of a node use a  *)
(* TLS connection for its own peer only, although they share descriptor    *)
(* numbers that the kernel reuses; and which steps abandon a connection.   *)
(* Last, the key files by which a node is known, across crashes            *)
(* (KeyStore).                                                             *)
(***************************************************************************)
EXTENDS Registry, KeyStore, TLAPS, FiniteSetTheorems

-----------------------------------------------------------------------------
(* What the methods of PeerManager do to the table, entry by entry.        *)

TableType == peers \in [Peer -> PeerEntry]

\* add_peer adds an entry that has the given key and no path, or none.
LEMMA AddPeerEffect ==
  ASSUME NEW p \in Peer, NEW key \in Key \cup {NoKey}, NEW isNew \in BOOLEAN,
         TableType, add_peer(p, key, isNew)
  PROVE  /\ TableType'
         /\ \A q \in Peer :
              \/ peers'[q] = peers[q]
              \/ /\ q = p /\ ~peers[q].in
                 /\ peers'[q].in /\ peers'[q].key = key
                 /\ peers'[q].paths = {} /\ peers'[q].fd = NoFd
<1>. DEFINE new == [NoEntry EXCEPT !.in = TRUE, !.key = key]
<1>1. CASE ~isNew
  BY <1>1, Zenon DEF add_peer, TableType
<1>2. CASE isNew
  <2>1. peers' = [peers EXCEPT ![p] = new]
    BY <1>2, Zenon DEF add_peer
  <2>2. NoEntry \in PeerEntry
    BY Zenon DEF NoEntry, PeerEntry
  <2>3. /\ new \in PeerEntry
        /\ new.in /\ new.key = key
        /\ new.paths = NoEntry.paths /\ new.fd = NoEntry.fd
    BY <2>2, Zenon DEF PeerEntry
  <2>4. NoEntry.paths = {} /\ NoEntry.fd = NoFd
    BY Zenon DEF NoEntry
  <2>5. ~peers[p].in
    BY <1>2, Zenon DEF add_peer, has_peer
  <2>. HIDE DEF new
  <2>. QED  BY <2>1, <2>3, <2>4, <2>5, Zenon DEF TableType
<1>. QED  BY <1>1, <1>2, Zenon

\* update_peer_heartbeat changes no path, and a key only where there is none.
LEMMA HeartbeatEffect ==
  ASSUME NEW p \in Peer, NEW key \in Key,
         TableType, update_peer_heartbeat(p, key)
  PROVE  /\ TableType'
         /\ \A q \in Peer :
              /\ peers'[q].in = peers[q].in /\ peers'[q].fd = peers[q].fd
              /\ peers'[q].paths = peers[q].paths
              /\ \/ peers'[q].key = peers[q].key
                 \/ q = p /\ peers[q].in /\ peers[q].key = NoKey
<1>1. CASE ~has_peer(p)
  BY <1>1, Zenon DEF update_peer_heartbeat, TableType
<1>2. CASE has_peer(p)
  <2>. DEFINE new == [peers[p] EXCEPT !.stale = FALSE,
                                      !.key = IF peers[p].key = NoKey THEN key ELSE peers[p].key]
  <2>1. peers' = [peers EXCEPT ![p] = new]
    BY <1>2, Zenon DEF update_peer_heartbeat, TableType
  <2>2. /\ new \in PeerEntry
        /\ new.in = peers[p].in /\ new.fd = peers[p].fd /\ new.paths = peers[p].paths
        /\ new.key = peers[p].key \/ peers[p].key = NoKey
    BY Zenon DEF PeerEntry, TableType
  <2>. HIDE DEF new
  <2>. QED  BY <1>2, <2>1, <2>2, Zenon DEF TableType, has_peer
<1>. QED  BY <1>1, <1>2, Zenon

\* set_peer_tls_fd changes one descriptor of an entry that is in the table.
LEMMA SetFdEffect ==
  ASSUME NEW p \in Peer, NEW fd \in Fd \cup {NoFd},
         TableType, set_peer_tls_fd(p, fd)
  PROVE  /\ TableType'
         /\ \A q \in Peer :
              /\ peers'[q].in = peers[q].in /\ peers'[q].key = peers[q].key
              /\ peers'[q].paths = peers[q].paths
              /\ peers'[q].fd = IF q = p /\ peers[q].in THEN fd ELSE peers[q].fd
<1>1. CASE ~has_peer(p)
  BY <1>1, Zenon DEF set_peer_tls_fd, TableType, has_peer
<1>2. CASE has_peer(p)
  <2>. DEFINE new == [peers[p] EXCEPT !.fd = fd]
  <2>1. peers' = [peers EXCEPT ![p] = new]
    BY <1>2, Zenon DEF set_peer_tls_fd, TableType
  <2>2. /\ new \in PeerEntry
        /\ new.in = peers[p].in /\ new.fd = fd /\ new.paths = peers[p].paths
        /\ new.key = peers[p].key
    BY Zenon DEF PeerEntry, TableType
  <2>. HIDE DEF new
  <2>. QED  BY <1>2, <2>1, <2>2, Zenon DEF TableType, has_peer
<1>. QED  BY <1>1, <1>2, Zenon

\* remove_peer leaves nothing of the entry.
LEMMA RemoveEffect ==
  ASSUME NEW p \in Peer, TableType, remove_peer(p)
  PROVE  /\ TableType'
         /\ ~peers'[p].in /\ peers'[p].key = NoKey
         /\ peers'[p].paths = {} /\ peers'[p].fd = NoFd
         /\ \A q \in Peer \ {p} : peers'[q] = peers[q]
<1>1. NoEntry \in PeerEntry
  BY Zenon DEF NoEntry, PeerEntry
<1>. QED  BY <1>1, Zenon DEF remove_peer, TableType, NoEntry

\* unpin_peer_key clears the key and keeps the rest.
LEMMA UnpinEffect ==
  ASSUME NEW p \in Peer, TableType, unpin_peer_key(p)
  PROVE  /\ TableType'
         /\ \A q \in Peer :
              /\ peers'[q].in = peers[q].in /\ peers'[q].fd = peers[q].fd
              /\ peers'[q].paths = peers[q].paths
              /\ q # p => peers'[q].key = peers[q].key
<1>1. CASE ~has_peer(p)
  BY <1>1, Zenon DEF unpin_peer_key, TableType
<1>2. CASE has_peer(p)
  <2>. DEFINE new == [peers[p] EXCEPT !.key = NoKey]
  <2>1. peers' = [peers EXCEPT ![p] = new]
    BY <1>2, Zenon DEF unpin_peer_key, TableType
  <2>2. /\ new \in PeerEntry
        /\ new.in = peers[p].in /\ new.fd = peers[p].fd /\ new.paths = peers[p].paths
    BY Zenon DEF PeerEntry, TableType
  <2>. HIDE DEF new
  <2>. QED  BY <2>1, <2>2, Zenon DEF TableType
<1>. QED  BY <1>1, <1>2, Zenon

\* Age changes nothing but the heartbeat.
LEMMA AgeEffect ==
  ASSUME NEW p \in Peer, TableType, Age(p)
  PROVE  /\ TableType'
         /\ \A q \in Peer :
              /\ peers'[q].in = peers[q].in /\ peers'[q].fd = peers[q].fd
              /\ peers'[q].paths = peers[q].paths /\ peers'[q].key = peers[q].key
<1>. DEFINE new == [peers[p] EXCEPT !.stale = TRUE]
<1>1. peers' = [peers EXCEPT ![p] = new]
  BY Zenon DEF Age, TableType
<1>2. /\ new \in PeerEntry
      /\ new.in = peers[p].in /\ new.fd = peers[p].fd /\ new.paths = peers[p].paths
      /\ new.key = peers[p].key
  BY Zenon DEF PeerEntry, TableType
<1>. HIDE DEF new
<1>. QED  BY <1>1, <1>2, Zenon DEF TableType

\* confirm_path that refuses nothing, for an entry of the table: one path more,
\* and the key only where there was none.
LEMMA ConfirmEffect ==
  ASSUME NEW p \in Peer, NEW path \in Path, NEW key \in Key,
         TableType, has_peer(p),
         peers' = [peers EXCEPT ![p].paths = @ \cup {path},
                                ![p].key = IF @ = NoKey THEN key ELSE @]
  PROVE  /\ TableType'
         /\ peers'[p].paths = peers[p].paths \cup {path}
         /\ peers'[p].key = IF peers[p].key = NoKey THEN key ELSE peers[p].key
         /\ \A q \in Peer : peers'[q].in = peers[q].in /\ peers'[q].fd = peers[q].fd
         /\ \A q \in Peer \ {p} : peers'[q] = peers[q]
<1>. DEFINE new == [peers[p] EXCEPT !.paths = peers[p].paths \cup {path},
                                    !.key = IF peers[p].key = NoKey THEN key ELSE peers[p].key]
<1>1. peers' = [peers EXCEPT ![p] = new]
  BY Zenon DEF TableType
<1>2. /\ new \in PeerEntry
      /\ new.in = peers[p].in /\ new.fd = peers[p].fd
      /\ new.paths = peers[p].paths \cup {path}
      /\ new.key = IF peers[p].key = NoKey THEN key ELSE peers[p].key
  BY Zenon DEF PeerEntry, TableType
<1>. HIDE DEF new
<1>. QED  BY <1>1, <1>2, Zenon DEF TableType

-----------------------------------------------------------------------------
(* Types.                                                                  *)

\* A thread that is busy knows with whom, and with which descriptor.
RegistryType ==
    /\ RegistryTypeOK
    /\ worker.at # "idle" => worker.id \in Peer
    /\ worker.at \in {"handshake", "store"} => worker.fd \in Fd
    /\ sender.at # "idle" => sender.id \in Peer /\ sender.fd \in Fd

\* The types hold initially.
LEMMA TypeInit ==
  RegistryInit => RegistryType
<1>. SUFFICES ASSUME RegistryInit PROVE RegistryType
  OBVIOUS
<1>. USE RegistryAssumption, TrafficAssumption
<1>. USE DEF RegistryInit, PeerManagerInit, TransportInit
<1>1. peers \in [Peer -> PeerEntry]
  BY Zenon DEF NoEntry, PeerEntry
<1>2. tofu \in [Peer -> Cert \cup {NoCert}] /\ open \subseteq Fd
  OBVIOUS
<1>3. active_ssl \in [Fd -> Peer \cup {Inbound, NoSsl}]
  OBVIOUS
<1>4. keys \in [Peer -> Key \cup {NoKey}]
  OBVIOUS
<1>5. total_nodes \in Nat \ {0}
  <2>1. IsFiniteSet({p \in Peer : is_peer_pre_provisioned(p)})
    BY FS_Subset, Zenon
  <2>2. Cardinality({p \in Peer : is_peer_pre_provisioned(p)}) \in Nat
    BY <2>1, FS_CardinalityType, Zenon
  <2>. QED  BY <2>2
<1>6. /\ listener \in [at : {"idle", "add", "confirm", "refresh", "register",
                            "count", "pex", "queue"},
                      msg : Message \cup {NoMessage}, isNew : BOOLEAN, dual : BOOLEAN]
      /\ listener.at = "idle"
  BY Zenon DEF ListenerIdle
<1>7. /\ pruner \in [at : {"idle", "close", "remove", "prune"},
                    id : Peer \cup {NoPeer}, todo : SUBSET Peer]
      /\ pruner.at = "idle"
  BY Zenon DEF PrunerIdle
<1>8. tls_queue \in Seq(Peer)
  OBVIOUS
<1>9. /\ worker \in [at : {"idle", "connect", "handshake", "store"},
                    id : Peer \cup {NoPeer}, fd : Fd \cup {NoFd}]
      /\ worker.at = "idle"
  BY Zenon DEF WorkerIdle
<1>10. acceptor \in Fd \cup {NoFd} /\ traffic \in Traffic
  OBVIOUS
<1>11. /\ sender \in [at : {"idle", "lookup", "write"}, id : Peer \cup {NoPeer},
                     fd : Fd \cup {NoFd}, ssl : Peer \cup {Inbound, NoSsl},
                     freed : BOOLEAN, pruned : BOOLEAN]
       /\ sender.at = "idle"
  BY Zenon DEF SenderIdle
<1>12. heard \in [Peer -> [Path -> SUBSET Key]]
  OBVIOUS
<1>13. /\ unpinned \subseteq Peer /\ unconfirmed \subseteq Peer /\ uncounted \subseteq Peer
       /\ overtaken \subseteq Peer /\ abandoned \subseteq Fd
  OBVIOUS
<1>. HIDE DEF RegistryInit, PeerManagerInit, TransportInit
<1>. QED
  BY <1>1, <1>2, <1>3, <1>4, <1>5, <1>6, <1>7, <1>8, <1>9, <1>10, <1>11, <1>12, <1>13
  DEF RegistryType, RegistryTypeOK

\* A step of the listener keeps the types.
LEMMA ListenerKeepsType ==
  ASSUME RegistryType, ListenerNext \/ TcpLearnsPeer
  PROVE  RegistryType'
<1>. USE RegistryAssumption, TrafficAssumption
<1>. USE DEF engineVars, tlsVars, transportVars, historyVars
<1>. DEFINE ListenerRecord ==
              [at : {"idle", "add", "confirm", "refresh", "register", "count", "pex", "queue"},
               msg : Message \cup {NoMessage}, isNew : BOOLEAN, dual : BOOLEAN]
<1>0. TableType
  BY Zenon DEF RegistryType, RegistryTypeOK, TableType
<1>1. CASE ReceiveBeacon
  <2>1. PICK m \in traffic.msgs :
          /\ m.path = "beacon"
          /\ tofu' = tofu \/ tofu' = [tofu EXCEPT ![m.peer] = m.cert]
          /\ listener' = [ListenerIdle EXCEPT !.at = "add", !.msg = m]
          /\ heard' = [heard EXCEPT ![m.peer][m.path] = @ \cup {m.key}]
    BY <1>1, Zenon DEF ReceiveBeacon, pin_tls_fingerprint
  <2>2. m \in Message
    BY Zenon DEF RegistryType, RegistryTypeOK
  <2>3. tofu' \in [Peer -> Cert \cup {NoCert}]
    BY <2>1, <2>2 DEF Message, RegistryType, RegistryTypeOK
  <2>4. /\ listener' \in ListenerRecord
        /\ listener'.msg \in Message
    BY <2>1, <2>2, Zenon DEF ListenerIdle
  <2>5. heard' \in [Peer -> [Path -> SUBSET Key]]
    BY <2>1, <2>2 DEF Message, Path, RegistryType, RegistryTypeOK
  <2>. QED  BY <1>1, <2>3, <2>4, <2>5 DEF ReceiveBeacon, RegistryType, RegistryTypeOK
<1>2. CASE ReceiveAnnounce
  <2>1. PICK m \in traffic.msgs :
          /\ m.path = "announce"
          /\ listener' = [ListenerIdle EXCEPT !.at = "add", !.msg = m]
          /\ heard' = [heard EXCEPT ![m.peer][m.path] = @ \cup {m.key}]
    BY <1>2, Zenon DEF ReceiveAnnounce
  <2>2. m \in Message
    BY Zenon DEF RegistryType, RegistryTypeOK
  <2>4. /\ listener' \in ListenerRecord
        /\ listener'.msg \in Message
    BY <2>1, <2>2, Zenon DEF ListenerIdle
  <2>5. heard' \in [Peer -> [Path -> SUBSET Key]]
    BY <2>1, <2>2 DEF Message, Path, RegistryType, RegistryTypeOK
  <2>. QED  BY <1>2, <2>4, <2>5 DEF ReceiveAnnounce, RegistryType, RegistryTypeOK
<1>3. CASE AddSender
  <2>1. PICK isNew \in BOOLEAN :
          /\ add_peer(listener.msg.peer, listener.msg.key, isNew)
          /\ listener' = [listener EXCEPT !.at = "confirm", !.isNew = isNew]
    BY <1>3, Zenon DEF AddSender
  <2>2. listener.msg \in Message
    BY <1>3, Zenon DEF AddSender, RegistryType, RegistryTypeOK
  <2>3. TableType'
    BY <1>0, <2>1, <2>2, AddPeerEffect DEF Message
  <2>4. /\ listener' \in ListenerRecord
        /\ listener'.msg \in Message
    BY <2>1, <2>2, Zenon DEF RegistryType, RegistryTypeOK
  <2>. QED  BY <1>3, <2>3, <2>4 DEF AddSender, RegistryType, RegistryTypeOK, TableType
<1>4. CASE ConfirmPath
  <2>. DEFINE m == listener.msg
  <2>1. PICK dual \in BOOLEAN, mismatch \in BOOLEAN :
          /\ confirm_path(m.peer, m.path, m.key, [dual |-> dual, mismatch |-> mismatch])
          /\ listener' =
                IF mismatch THEN ListenerIdle
                ELSE [listener EXCEPT
                        !.dual = dual,
                        !.at = IF m.path = "beacon" /\ ~listener.isNew
                               THEN "refresh" ELSE "register"]
    BY <1>4, Zenon DEF ConfirmPath
  <2>2. m \in Message
    BY <1>4, Zenon DEF ConfirmPath, RegistryType, RegistryTypeOK
  <2>3. TableType'
    BY <1>0, <2>1, <2>2, ConfirmEffect, Zenon DEF Message, confirm_path, TableType
  <2>4. /\ listener' \in ListenerRecord
        /\ listener'.at # "idle" => listener'.msg \in Message
    BY <2>1, <2>2, Zenon DEF RegistryType, RegistryTypeOK, ListenerIdle
  <2>. QED  BY <1>4, <2>3, <2>4 DEF ConfirmPath, RegistryType, RegistryTypeOK, TableType
<1>5. CASE RefreshHeartbeat
  <2>2. listener.msg \in Message
    BY <1>5, Zenon DEF RefreshHeartbeat, RegistryType, RegistryTypeOK
  <2>3. TableType'
    BY <1>0, <1>5, <2>2, HeartbeatEffect, Zenon DEF Message, RefreshHeartbeat, TableType
  <2>4. /\ listener' \in ListenerRecord
        /\ listener'.at # "idle" => listener'.msg \in Message
    BY <1>5, <2>2, Zenon DEF RefreshHeartbeat, RegistryType, RegistryTypeOK, ListenerIdle
  <2>5. unconfirmed' \subseteq Peer
    BY <1>5, <2>2 DEF RefreshHeartbeat, RegistryType, RegistryTypeOK, Message
  <2>. QED  BY <1>5, <2>3, <2>4, <2>5 DEF RefreshHeartbeat, RegistryType, RegistryTypeOK, TableType
<1>6. CASE RegisterKey
  <2>2. listener.msg \in Message
    BY <1>6, Zenon DEF RegisterKey, RegistryType, RegistryTypeOK
  <2>3. keys' \in [Peer -> Key \cup {NoKey}] /\ total_nodes' = total_nodes
    <3>1. \/ UNCHANGED <<keys, total_nodes>>
          \/ /\ keys' = [keys EXCEPT ![listener.msg.peer] = listener.msg.key]
             /\ UNCHANGED total_nodes
      BY <1>6, Zenon DEF RegisterKey, register_peer_key, engineVars
    <3>2. keys \in [Peer -> Key \cup {NoKey}] /\ listener.msg.key \in Key
      BY <2>2, Zenon DEF Message, RegistryType, RegistryTypeOK
    <3>. QED  BY <3>1, <3>2, Zenon
  <2>4. /\ listener' \in ListenerRecord
        /\ listener'.at # "idle" => listener'.msg \in Message
    <3>1. \/ listener' = ListenerIdle
          \/ listener' = [listener EXCEPT !.at = "pex"]
          \/ listener' = [listener EXCEPT !.at = "count"]
      BY <1>6, Zenon DEF RegisterKey, AfterRegistration
    <3>2. listener \in ListenerRecord
      BY Zenon DEF RegistryType, RegistryTypeOK
    <3>3. CASE listener' = ListenerIdle
      BY <3>3, Zenon DEF ListenerIdle
    <3>4. CASE listener' = [listener EXCEPT !.at = "pex"]
      BY <2>2, <3>2, <3>4, Zenon
    <3>5. CASE listener' = [listener EXCEPT !.at = "count"]
      BY <2>2, <3>2, <3>5, Zenon
    <3>. QED  BY <3>1, <3>3, <3>4, <3>5, Zenon
  <2>. QED  BY <1>6, <2>3, <2>4 DEF RegisterKey, RegistryType, RegistryTypeOK
<1>7. CASE CountPeer
  <2>2. listener.msg \in Message
    BY <1>7, Zenon DEF CountPeer, RegistryType, RegistryTypeOK
  <2>3. keys' = keys /\ total_nodes' \in Nat \ {0}
    BY <1>7 DEF CountPeer, increment_peers, RegistryType, RegistryTypeOK
  <2>4. /\ listener' \in ListenerRecord
        /\ listener'.at # "idle" => listener'.msg \in Message
    BY <1>7, <2>2, Zenon DEF CountPeer, AfterRegistration, RegistryType, RegistryTypeOK, ListenerIdle
  <2>. QED  BY <1>7, <2>3, <2>4 DEF CountPeer, RegistryType, RegistryTypeOK
<1>8. CASE PexHandshake
  <2>2. listener.msg \in Message
    BY <1>8, Zenon DEF PexHandshake, RegistryType, RegistryTypeOK
  <2>3. TableType'
    <3>1. CASE \E q \in traffic.pex : add_peer(q, NoKey, TRUE)
      BY <1>0, <3>1, AddPeerEffect, Zenon DEF RegistryType, RegistryTypeOK
    <3>2. CASE UNCHANGED peers
      BY <1>0, <3>2, Zenon DEF TableType
    <3>. QED  BY <1>8, <3>1, <3>2, Zenon DEF PexHandshake
  <2>4. /\ listener' \in ListenerRecord
        /\ listener'.msg \in Message
    <3>1. listener' = listener \/ listener' = [listener EXCEPT !.at = "queue"]
      BY <1>8, Zenon DEF PexHandshake
    <3>2. listener \in ListenerRecord
      BY Zenon DEF RegistryType, RegistryTypeOK
    <3>. QED  BY <2>2, <3>1, <3>2, Zenon DEF ListenerRecord
  <2>. QED  BY <1>8, <2>3, <2>4 DEF PexHandshake, RegistryType, RegistryTypeOK, TableType
<1>9. CASE QueueConnection
  <2>2. listener.msg \in Message
    BY <1>9, Zenon DEF QueueConnection, RegistryType, RegistryTypeOK
  <2>3. tls_queue' \in Seq(Peer)
    BY <1>9, <2>2 DEF QueueConnection, Message, RegistryType, RegistryTypeOK
  <2>4. /\ listener' \in ListenerRecord
        /\ listener'.at = "idle"
    BY <1>9, Zenon DEF QueueConnection, ListenerIdle
  <2>. QED  BY <1>9, <2>3, <2>4 DEF QueueConnection, RegistryType, RegistryTypeOK
<1>10. CASE TcpLearnsPeer
  <2>3. TableType'
    BY <1>0, <1>10, AddPeerEffect, Zenon DEF TcpLearnsPeer, RegistryType, RegistryTypeOK
  <2>. QED  BY <1>10, <2>3 DEF TcpLearnsPeer, RegistryType, RegistryTypeOK, TableType
<1>. QED
  BY <1>1, <1>2, <1>3, <1>4, <1>5, <1>6, <1>7, <1>8, <1>9, <1>10 DEF ListenerNext

\* A step of the pruner, of the clock or of the operator keeps the types.
LEMMA PrunerKeepsType ==
  ASSUME RegistryType, PrunerNext \/ (\E p \in Peer : Age(p) \/ UnpinPeer(p))
  PROVE  RegistryType'
<1>. USE RegistryAssumption, TrafficAssumption
<1>. USE DEF engineVars, tlsVars, transportVars, historyVars
<1>. DEFINE PrunerRecord == [at : {"idle", "close", "remove", "prune"},
                             id : Peer \cup {NoPeer}, todo : SUBSET Peer]
<1>0. TableType
  BY Zenon DEF RegistryType, RegistryTypeOK, TableType
<1>1. CASE ListStale
  <2>1. /\ pruner' \in PrunerRecord
        /\ pruner'.at = "close"
    BY <1>1, Zenon DEF ListStale, PrunerIdle, get_stale_peers
  <2>. QED  BY <1>1, <2>1 DEF ListStale, RegistryType, RegistryTypeOK
<1>2. ASSUME NEW p \in Peer, CloseStale(p) PROVE RegistryType'
  <2>1. /\ pruner' \in PrunerRecord
        /\ pruner'.id \in Peer
    BY <1>2, Zenon DEF CloseStale, RegistryType, RegistryTypeOK
  <2>2. open' \subseteq Fd /\ active_ssl' \in [Fd -> Peer \cup {Inbound, NoSsl}]
    BY <1>2, Zenon DEF CloseStale, close, RegistryType, RegistryTypeOK
  <2>3. /\ sender' \in [at : {"idle", "lookup", "write"}, id : Peer \cup {NoPeer},
                       fd : Fd \cup {NoFd}, ssl : Peer \cup {Inbound, NoSsl},
                       freed : BOOLEAN, pruned : BOOLEAN]
        /\ sender'.at = sender.at /\ sender'.id = sender.id /\ sender'.fd = sender.fd
    BY <1>2, Zenon DEF CloseStale, SenderAfterClose, RegistryType, RegistryTypeOK
  <2>. QED  BY <1>2, <2>1, <2>2, <2>3 DEF CloseStale, RegistryType, RegistryTypeOK
<1>3. CASE RemoveStale
  <2>1. /\ pruner' \in PrunerRecord
        /\ pruner'.id \in Peer
    BY <1>3, Zenon DEF RemoveStale, RegistryType, RegistryTypeOK
  <2>2. TableType'
    BY <1>0, <1>3, RemoveEffect, Zenon DEF RemoveStale, RegistryType, RegistryTypeOK
  <2>3. overtaken' \subseteq Peer /\ abandoned' \subseteq Fd
    BY <1>3 DEF RemoveStale, RegistryType, RegistryTypeOK
  <2>4. UNCHANGED <<tofu, open, active_ssl, keys, total_nodes, listener, tls_queue, worker,
                    acceptor, sender, traffic, heard, unpinned, unconfirmed, uncounted>>
    BY <1>3, Zenon DEF RemoveStale
  <2>. QED  BY <2>1, <2>2, <2>3, <2>4 DEF RegistryType, RegistryTypeOK, TableType
<1>4. CASE PruneStale
  <2>1. /\ pruner' \in PrunerRecord
        /\ pruner'.at \in {"idle", "close"}
    BY <1>4, Zenon DEF PruneStale, PrunerIdle, RegistryType, RegistryTypeOK
  <2>2. keys' \in [Peer -> Key \cup {NoKey}] /\ total_nodes' \in Nat \ {0}
    <3>1. CASE UNCHANGED engineVars
      BY <3>1, Zenon DEF RegistryType, RegistryTypeOK
    <3>2. CASE prune_peer(pruner.id)
      <4>1. keys' = [keys EXCEPT ![pruner.id] = NoKey]
        BY <3>2, Zenon DEF prune_peer
      <4>2. total_nodes' = IF total_nodes > 1 THEN total_nodes - 1 ELSE 1
        BY <3>2, Zenon DEF prune_peer
      <4>3. total_nodes' \in Nat \ {0}
        BY <4>2 DEF RegistryType, RegistryTypeOK
      <4>. QED  BY <4>1, <4>3, Zenon DEF RegistryType, RegistryTypeOK
    <3>. QED  BY <1>4, <3>1, <3>2, Zenon DEF PruneStale
  <2>3. overtaken' \subseteq Peer /\ uncounted' \subseteq Peer
    BY <1>4 DEF PruneStale, RegistryType, RegistryTypeOK
  <2>. QED  BY <1>4, <2>1, <2>2, <2>3 DEF PruneStale, RegistryType, RegistryTypeOK
<1>5. ASSUME NEW p \in Peer, Age(p) PROVE RegistryType'
  <2>1. TableType'
    BY <1>0, <1>5, AgeEffect, Zenon
  <2>. QED  BY <1>5, <2>1 DEF Age, RegistryType, RegistryTypeOK, TableType
<1>6. ASSUME NEW p \in Peer, UnpinPeer(p) PROVE RegistryType'
  <2>1. TableType'
    BY <1>0, <1>6, UnpinEffect, Zenon DEF UnpinPeer
  <2>2. tofu' \in [Peer -> Cert \cup {NoCert}]
    BY <1>6, Zenon DEF UnpinPeer, unpin_peer_key, RegistryType, RegistryTypeOK
  <2>. QED  BY <1>6, <2>1, <2>2 DEF UnpinPeer, RegistryType, RegistryTypeOK, TableType
<1>. QED  BY <1>1, <1>2, <1>3, <1>4, <1>5, <1>6, Zenon DEF PrunerNext

\* A step of a TLS thread or of a sender keeps the types.
LEMMA TlsKeepsType ==
  ASSUME RegistryType, TlsNext
  PROVE  RegistryType'
<1>. USE RegistryAssumption, TrafficAssumption
<1>. USE DEF engineVars, tlsVars, transportVars, historyVars
<1>. DEFINE WorkerRecord == [at : {"idle", "connect", "handshake", "store"},
                             id : Peer \cup {NoPeer}, fd : Fd \cup {NoFd}]
            SenderRecord == [at : {"idle", "lookup", "write"}, id : Peer \cup {NoPeer},
                             fd : Fd \cup {NoFd}, ssl : Peer \cup {Inbound, NoSsl},
                             freed : BOOLEAN, pruned : BOOLEAN]
<1>0. TableType
  BY Zenon DEF RegistryType, RegistryTypeOK, TableType
<1>1. CASE TakeTask
  <2>1. tls_queue \in Seq(Peer) /\ tls_queue # <<>>
    BY <1>1, Zenon DEF TakeTask, RegistryType, RegistryTypeOK
  <2>2. Head(tls_queue) \in Peer /\ Tail(tls_queue) \in Seq(Peer)
    BY <2>1
  <2>3. /\ worker' \in WorkerRecord
        /\ \/ worker'.at = "idle"
           \/ worker'.at = "connect" /\ worker'.id \in Peer
    BY <1>1, <2>2, Zenon DEF TakeTask, WorkerIdle
  <2>. QED  BY <1>1, <2>2, <2>3 DEF TakeTask, RegistryType, RegistryTypeOK
<1>2. CASE Connect
  <2>1. CASE \E f \in Fd : OpenSocket(f) /\ worker' = [worker EXCEPT !.at = "handshake", !.fd = f]
    <3>1. PICK f \in Fd : OpenSocket(f) /\ worker' = [worker EXCEPT !.at = "handshake", !.fd = f]
      BY <2>1, Zenon
    <3>2. /\ worker' \in WorkerRecord
          /\ worker'.at = "handshake" /\ worker'.id \in Peer /\ worker'.fd \in Fd
      BY <1>2, <3>1, Zenon DEF Connect, RegistryType, RegistryTypeOK
    <3>3. open' \subseteq Fd /\ active_ssl' = active_ssl
      BY <3>1 DEF OpenSocket, RegistryType, RegistryTypeOK
    <3>4. UNCHANGED <<peers, tofu, keys, total_nodes, listener, pruner, tls_queue, acceptor,
                      sender, abandoned, traffic, heard, unpinned, unconfirmed, uncounted,
                      overtaken>>
      BY <1>2, Zenon DEF Connect
    <3>. QED  BY <3>2, <3>3, <3>4 DEF RegistryType, RegistryTypeOK
  <2>2. CASE worker' = WorkerIdle /\ UNCHANGED transportVars
    <3>1. worker' \in WorkerRecord /\ worker'.at = "idle"
      BY <2>2, Zenon DEF WorkerIdle
    <3>. QED  BY <1>2, <2>2, <3>1 DEF Connect, RegistryType, RegistryTypeOK
  <2>. QED  BY <1>2, <2>1, <2>2, Zenon DEF Connect
<1>3. CASE Handshake
  <2>1. /\ worker' \in WorkerRecord
        /\ \/ worker'.at = "idle"
           \/ worker'.at = "store" /\ worker'.id \in Peer /\ worker'.fd \in Fd
    BY <1>3 DEF Handshake, WorkerIdle, RegistryType, RegistryTypeOK
  <2>2. open' \subseteq Fd /\ active_ssl' \in [Fd -> Peer \cup {Inbound, NoSsl}]
    BY <1>3, Zenon DEF Handshake, HandshakeDone, close, RegistryType, RegistryTypeOK
  <2>. QED  BY <1>3, <2>1, <2>2 DEF Handshake, RegistryType, RegistryTypeOK
<1>4. CASE StoreConnection
  <2>1. worker' \in WorkerRecord /\ worker'.at = "idle"
    BY <1>4, Zenon DEF StoreConnection, WorkerIdle
  <2>2. TableType'
    BY <1>0, <1>4, SetFdEffect, Zenon DEF StoreConnection, RegistryType, RegistryTypeOK
  <2>3. abandoned' \subseteq Fd
    BY <1>4, Zenon DEF StoreConnection, RegistryType, RegistryTypeOK
  <2>. QED  BY <1>4, <2>1, <2>2, <2>3 DEF StoreConnection, RegistryType, RegistryTypeOK, TableType
<1>5. CASE AcceptConnection
  <2>1. /\ acceptor' \in Fd
        /\ open' \subseteq Fd /\ active_ssl' \in [Fd -> Peer \cup {Inbound, NoSsl}]
    BY <1>5 DEF AcceptConnection, accept, IsLowestFree, RegistryType, RegistryTypeOK
  <2>. QED  BY <1>5, <2>1 DEF AcceptConnection, RegistryType, RegistryTypeOK
<1>6. CASE RejectConnection
  <2>1. open' \subseteq Fd /\ active_ssl' \in [Fd -> Peer \cup {Inbound, NoSsl}]
    BY <1>6, Zenon DEF RejectConnection, close, RegistryType, RegistryTypeOK
  <2>2. /\ sender' \in SenderRecord
        /\ sender'.at = sender.at /\ sender'.id = sender.id /\ sender'.fd = sender.fd
    BY <1>6, Zenon DEF RejectConnection, SenderAfterClose, RegistryType, RegistryTypeOK
  <2>. QED  BY <1>6, <2>1, <2>2 DEF RejectConnection, RegistryType, RegistryTypeOK
<1>7. ASSUME NEW p \in Peer, PickDescriptor(p) PROVE RegistryType'
  <2>1. peers[p].fd \in Fd
    BY <1>7, <1>0, Zenon DEF PickDescriptor, TableType, PeerEntry
  <2>2. sender' \in SenderRecord /\ sender'.id \in Peer /\ sender'.fd \in Fd
    BY <1>7, <2>1, Zenon DEF PickDescriptor, SenderIdle
  <2>. QED  BY <1>7, <2>2 DEF PickDescriptor, RegistryType, RegistryTypeOK
<1>8. CASE LookUpSsl
  <2>1. sender' \in SenderRecord /\ sender'.id \in Peer /\ sender'.fd \in Fd
    BY <1>8, Zenon DEF LookUpSsl, RegistryType, RegistryTypeOK
  <2>. QED  BY <1>8, <2>1 DEF LookUpSsl, RegistryType, RegistryTypeOK
<1>9. CASE WriteMessage
  <2>1. sender' \in SenderRecord /\ sender'.at = "idle"
    BY <1>9, Zenon DEF WriteMessage, SenderIdle
  <2>2. TableType'
    BY <1>0, <1>9, SetFdEffect, Zenon DEF WriteMessage, TableType, RegistryType, RegistryTypeOK
  <2>3. abandoned' \subseteq Fd
    BY <1>9, Zenon DEF WriteMessage, RegistryType, RegistryTypeOK
  <2>. QED  BY <1>9, <2>1, <2>2, <2>3 DEF WriteMessage, RegistryType, RegistryTypeOK, TableType
<1>. QED
  BY <1>1, <1>2, <1>3, <1>4, <1>5, <1>6, <1>7, <1>8, <1>9 DEF TlsNext

\* Every step keeps the types.
LEMMA TypeNext ==
  ASSUME RegistryType, [RegistryNext]_registryVars
  PROVE  RegistryType'
<1>1. CASE UNCHANGED registryVars
  BY <1>1 DEF registryVars, RegistryType, RegistryTypeOK
<1>. QED
  BY <1>1, ListenerKeepsType, PrunerKeepsType, TlsKeepsType, Zenon DEF RegistryNext

-----------------------------------------------------------------------------
(* The keys the engine holds.                                              *)

\* A peer to which the rule of the two paths applies.
Regular(p) == ~is_peer_pre_provisioned(p) /\ p \notin unpinned \cup unconfirmed

\* An entry's key was brought by every path that is marked as confirmed, and an
\* entry that has a key and no path is the one the listener is about to confirm.
\* The key of a handler that may register was brought by both paths.
EntryInv(p) ==
    /\ ~peers[p].in => peers[p].key = NoKey
    /\ keys[p] # NoKey => \A path \in Path : keys[p] \in heard[p][path]
    /\ \A path \in peers[p].paths : peers[p].key \in heard[p][path]
    /\ peers[p].key # NoKey /\ peers[p].paths = {}
         => listener.at = "confirm" /\ listener.msg.peer = p /\ listener.msg.key = peers[p].key
    /\ listener.at \in {"refresh", "register", "count"} /\ listener.dual /\ listener.msg.peer = p
         => \A path \in Path : listener.msg.key \in heard[p][path]

KeyInv ==
    /\ \A p \in Peer : is_peer_pre_provisioned(p) => keys[p] = provisioned[p]
    /\ listener.at # "idle" => listener.msg.key \in heard[listener.msg.peer][listener.msg.path]
    /\ \A p \in Peer : Regular(p) => EntryInv(p)

\* It holds initially: only the provisioned keys are there.
LEMMA KeyInit ==
  RegistryInit => KeyInv
BY DEF RegistryInit, PeerManagerInit, KeyInv, EntryInv, Regular, is_peer_pre_provisioned,
       NoEntry, ListenerIdle

\* A received message is what its path brought; the keys heard only grow.
LEMMA ReceiveKeepsKeyInv ==
  ASSUME RegistryType, KeyInv, ReceiveBeacon \/ ReceiveAnnounce
  PROVE  KeyInv'
<1>. USE TrafficAssumption
<1>1. PICK m \in traffic.msgs :
        /\ listener' = [ListenerIdle EXCEPT !.at = "add", !.msg = m]
        /\ heard' = [heard EXCEPT ![m.peer][m.path] = @ \cup {m.key}]
  BY Zenon DEF ReceiveBeacon, ReceiveAnnounce
<1>2. m \in Message
  BY Zenon DEF RegistryType, RegistryTypeOK
<1>3. /\ heard'[m.peer][m.path] = heard[m.peer][m.path] \cup {m.key}
      /\ \A p \in Peer, path \in Path : heard[p][path] \subseteq heard'[p][path]
  BY <1>1, <1>2 DEF RegistryType, RegistryTypeOK, Message
<1>4. listener'.at = "add" /\ listener'.msg = m
  BY <1>1, Zenon DEF ListenerIdle
<1>5. UNCHANGED <<peers, keys, unpinned, unconfirmed>> /\ listener.at = "idle"
  BY Zenon DEF ReceiveBeacon, ReceiveAnnounce, engineVars
<1>6. \A p \in Peer : peers[p].paths \subseteq Path
  BY Zenon DEF RegistryType, RegistryTypeOK, PeerEntry
<1>. QED
  BY <1>3, <1>4, <1>5, <1>6, Zenon DEF KeyInv, EntryInv, Regular, is_peer_pre_provisioned

\* A new entry has the key that the handler is about to confirm, and no path.
LEMMA AddSenderKeepsKeyInv ==
  ASSUME RegistryType, KeyInv, AddSender
  PROVE  KeyInv'
<1>1. PICK isNew \in BOOLEAN :
        /\ add_peer(listener.msg.peer, listener.msg.key, isNew)
        /\ listener' = [listener EXCEPT !.at = "confirm", !.isNew = isNew]
  BY Zenon DEF AddSender
<1>2. listener.msg \in Message /\ TableType
  BY Zenon DEF AddSender, RegistryType, RegistryTypeOK, TableType
<1>3. \A q \in Peer :
         \/ peers'[q] = peers[q]
         \/ /\ q = listener.msg.peer /\ peers'[q].in
            /\ peers'[q].key = listener.msg.key /\ peers'[q].paths = {}
  BY <1>1, <1>2, AddPeerEffect DEF Message
<1>4. listener'.at = "confirm" /\ listener'.msg = listener.msg /\ listener.at = "add"
  BY <1>1, Zenon DEF AddSender, RegistryType, RegistryTypeOK
<1>5. UNCHANGED <<keys, heard, unpinned, unconfirmed>>
  BY Zenon DEF AddSender, engineVars, historyVars
<1>. QED
  BY <1>3, <1>4, <1>5 DEF KeyInv, EntryInv, Regular, is_peer_pre_provisioned

\* A confirmed path brought the entry's key: either the entry had no path, and
\* then it has the key of this very handler or none, or it had a key, which must
\* be the one shown now.
LEMMA ConfirmKeepsKeyInv ==
  ASSUME RegistryType, KeyInv, ConfirmPath
  PROVE  KeyInv'
<1>0. PICK m : m = listener.msg
  OBVIOUS
<1>. DEFINE p == m.peer
<1>1. PICK dual \in BOOLEAN, mismatch \in BOOLEAN :
        /\ confirm_path(m.peer, m.path, m.key, [dual |-> dual, mismatch |-> mismatch])
        /\ listener' =
              IF mismatch THEN ListenerIdle
              ELSE [listener EXCEPT
                      !.dual = dual,
                      !.at = IF m.path = "beacon" /\ ~listener.isNew
                             THEN "refresh" ELSE "register"]
  BY <1>0, Zenon DEF ConfirmPath
<1>2. m \in Message /\ TableType /\ listener.at = "confirm"
  BY <1>0, Zenon DEF ConfirmPath, RegistryType, RegistryTypeOK, TableType
<1>3. UNCHANGED <<keys, heard, unpinned, unconfirmed>>
  BY Zenon DEF ConfirmPath, engineVars, historyVars
<1>4. p \in Peer /\ m.path \in Path /\ m.key \in Key /\ m.key \in heard[p][m.path]
  BY <1>0, <1>2, Zenon DEF Message, KeyInv
<1>5. CASE mismatch
  <2>1. peers' = peers /\ listener'.at = "idle" /\ has_peer(p) /\ KeyMismatch(p, m.path, m.key)
    BY <1>1, <1>5, Zenon DEF confirm_path, ListenerIdle
  <2>2. Regular(p) => peers[p].paths # {}
    BY <1>0, <1>2, <2>1, Zenon DEF KeyInv, EntryInv, Regular, KeyMismatch
  <2>. QED
    BY <1>0, <1>2, <1>3, <2>1, <2>2, Zenon DEF KeyInv, EntryInv, Regular, is_peer_pre_provisioned
<1>6. CASE ~mismatch /\ ~has_peer(p)
  <2>1. peers' = peers /\ ~dual
    BY <1>1, <1>6, Zenon DEF confirm_path
  <2>2. listener'.at \in {"refresh", "register"} /\ listener'.msg = m /\ ~listener'.dual
    BY <1>0, <1>1, <1>6, <2>1, Zenon DEF RegistryType, RegistryTypeOK
  <2>. QED
    BY <1>0, <1>2, <1>3, <1>6, <2>1, <2>2
    DEF KeyInv, EntryInv, Regular, is_peer_pre_provisioned, has_peer
<1>7. CASE ~mismatch /\ has_peer(p)
  <2>1. /\ ~KeyMismatch(p, m.path, m.key)
        /\ dual = (peers[p].paths \cup {m.path} = Path)
        /\ peers' = [peers EXCEPT ![p].paths = @ \cup {m.path},
                                  ![p].key = IF @ = NoKey THEN m.key ELSE @]
    BY <1>1, <1>7, Zenon DEF confirm_path
  <2>2. listener'.at \in {"refresh", "register"} /\ listener'.msg = m /\ listener'.dual = dual
    BY <1>0, <1>1, <1>7, Zenon DEF RegistryType, RegistryTypeOK
  <2>3. /\ peers'[p].paths = peers[p].paths \cup {m.path}
        /\ peers'[p].key = IF peers[p].key = NoKey THEN m.key ELSE peers[p].key
        /\ peers'[p].in
        /\ \A q \in Peer \ {p} : peers'[q] = peers[q]
    BY <1>2, <1>4, <1>7, <2>1, ConfirmEffect, Zenon DEF has_peer
  <2>4. ASSUME Regular(p) PROVE peers'[p].key = m.key
    <3>1. CASE peers[p].paths = {}
      <4>1. EntryInv(p)
        BY <1>4, <2>4, Zenon DEF KeyInv
      <4>2. peers[p].key # NoKey => peers[p].key = m.key
        BY <1>0, <3>1, <4>1, Zenon DEF EntryInv
      <4>. QED  BY <2>3, <4>2, Zenon
    <3>2. CASE peers[p].paths # {}
      <4>1. PICK path \in peers[p].paths : peers[p].key \in heard[p][path]
        BY <1>4, <2>4, <3>2 DEF KeyInv, EntryInv
      <4>2. peers[p].key # NoKey
        <5>1. peers[p].paths \subseteq Path
          BY <1>2, <1>4, Zenon DEF TableType, PeerEntry
        <5>2. heard \in [Peer -> [Path -> SUBSET Key]]
          BY Zenon DEF RegistryType, RegistryTypeOK
        <5>3. heard[p][path] \subseteq Key
          BY <1>4, <4>1, <5>1, <5>2
        <5>. QED  BY <4>1, <5>3, RegistryAssumption, Zenon
      <4>. QED  BY <2>1, <2>3, <2>4, <3>2, <4>2, Zenon DEF KeyMismatch, Regular
    <3>. QED  BY <3>1, <3>2, Zenon
  <2>5. Regular(p)' => EntryInv(p)'
    <3>. SUFFICES ASSUME Regular(p)' PROVE EntryInv(p)'
      OBVIOUS
    <3>1. Regular(p) /\ EntryInv(p)
      BY <1>3, <1>4, Zenon DEF KeyInv, Regular, is_peer_pre_provisioned
    <3>2. \A path \in peers'[p].paths : peers'[p].key \in heard'[p][path]
      <4>1. peers'[p].key = m.key
        BY <2>4, <3>1, Zenon
      <4>2. \A path \in peers[p].paths : m.key \in heard[p][path]
        <5>1. peers[p].paths # {} => peers[p].key = m.key
          BY <1>2, <1>4, <2>3, <3>1, <4>1, RegistryAssumption
          DEF EntryInv, RegistryType, RegistryTypeOK, TableType, PeerEntry
        <5>. QED  BY <3>1, <5>1, Zenon DEF EntryInv
      <4>. QED  BY <1>3, <1>4, <2>3, <4>1, <4>2, Zenon
    <3>3. dual => \A path \in Path : m.key \in heard'[p][path]
      BY <2>1, <2>3, <2>4, <3>1, <3>2, Zenon
    <3>. QED  BY <1>3, <2>2, <2>3, <3>1, <3>2, <3>3 DEF EntryInv
  <2>6. ASSUME NEW q \in Peer \ {p}, Regular(q)'
        PROVE  EntryInv(q)'
    <3>1. EntryInv(q)
      BY <1>3, <2>6, Zenon DEF KeyInv, Regular, is_peer_pre_provisioned
    <3>2. peers'[q] = peers[q] /\ m.peer # q /\ keys' = keys /\ heard' = heard
      BY <1>0, <1>3, <2>3, Zenon
    <3>3. ~(peers[q].key # NoKey /\ peers[q].paths = {})
      BY <1>0, <3>1, <3>2, Zenon DEF EntryInv
    <3>. QED  BY <2>2, <3>1, <3>2, <3>3, Zenon DEF EntryInv
  <2>7. \A q \in Peer : Regular(q)' => EntryInv(q)'
    BY <2>5, <2>6, Zenon
  <2>. QED
    BY <1>0, <1>3, <1>4, <2>2, <2>7, Zenon DEF KeyInv, is_peer_pre_provisioned
<1>. QED  BY <1>5, <1>6, <1>7, Zenon

\* What every step but those of the listener up to the registration does: it
\* keeps or clears an entry, or unpins it, and forgets no key that was heard.
LEMMA KeyInvFrame ==
  ASSUME RegistryType, KeyInv,
         UNCHANGED <<heard, unconfirmed>>, unpinned \subseteq unpinned',
         \A q \in Peer : q \notin unpinned' =>
            \/ /\ peers'[q].in = peers[q].in /\ peers'[q].key = peers[q].key
               /\ peers'[q].paths = peers[q].paths
            \/ peers'[q].key = NoKey /\ peers'[q].paths = {},
         \A q \in Peer : keys'[q] = keys[q] \/ (keys'[q] = NoKey /\ ~is_peer_pre_provisioned(q)),
         \/ listener' = listener
         \/ /\ listener.at \in {"count", "pex", "queue"}
            /\ listener'.at = "idle" \/ (listener'.at \in {"pex", "queue"} /\ listener'.msg = listener.msg)
  PROVE  KeyInv'
<1>1. \A q \in Peer : Regular(q)' => Regular(q)
  BY Zenon DEF Regular, is_peer_pre_provisioned
<1>2. ASSUME NEW q \in Peer, Regular(q)' PROVE EntryInv(q)'
  <2>1. EntryInv(q) /\ q \notin unpinned'
    BY <1>1, <1>2, Zenon DEF KeyInv, Regular
  <2>2. keys'[q] # NoKey => \A path \in Path : keys'[q] \in heard'[q][path]
    BY <2>1, Zenon DEF EntryInv
  <2>3. /\ ~peers'[q].in => peers'[q].key = NoKey
        /\ \A path \in peers'[q].paths : peers'[q].key \in heard'[q][path]
    BY <2>1, Zenon DEF EntryInv
  <2>4. peers'[q].key # NoKey /\ peers'[q].paths = {}
          => /\ listener'.at = "confirm" /\ listener'.msg.peer = q
             /\ listener'.msg.key = peers'[q].key
    BY <2>1, Zenon DEF EntryInv
  <2>5. listener'.at \in {"refresh", "register", "count"} /\ listener'.dual /\ listener'.msg.peer = q
          => \A path \in Path : listener'.msg.key \in heard'[q][path]
    BY <2>1, Zenon DEF EntryInv
  <2>. QED  BY <2>2, <2>3, <2>4, <2>5, Zenon DEF EntryInv
<1>3. listener'.at # "idle"
        => listener'.msg.key \in heard'[listener'.msg.peer][listener'.msg.path]
  BY Zenon DEF KeyInv
<1>4. \A p \in Peer : is_peer_pre_provisioned(p) => keys'[p] = provisioned[p]
  BY Zenon DEF KeyInv
<1>. QED  BY <1>2, <1>3, <1>4, Zenon DEF KeyInv, is_peer_pre_provisioned

\* A refreshed entry keeps its key and its paths, or is one whose key a
\* heartbeat stored.
LEMMA RefreshKeepsKeyInv ==
  ASSUME RegistryType, KeyInv, RefreshHeartbeat
  PROVE  KeyInv'
<1>1. PICK m : m = listener.msg
  OBVIOUS
<1>2. m \in Message /\ TableType /\ listener.at = "refresh"
  BY <1>1, Zenon DEF RefreshHeartbeat, RegistryType, RegistryTypeOK, TableType
<1>3. UNCHANGED <<keys, heard, unpinned>>
  BY Zenon DEF RefreshHeartbeat, engineVars
<1>4. unconfirmed' = unconfirmed \cup {p \in {m.peer} : has_peer(p) /\ peers[p].key = NoKey}
  BY <1>1, Zenon DEF RefreshHeartbeat
<1>5. \A q \in Peer : q \notin unconfirmed' =>
         /\ peers'[q].in = peers[q].in /\ peers'[q].paths = peers[q].paths
         /\ peers'[q].key = peers[q].key
  <2>1. CASE UNCHANGED peers
    BY <2>1, Zenon
  <2>2. CASE update_peer_heartbeat(m.peer, m.key)
    BY <1>2, <1>4, <2>2, HeartbeatEffect DEF Message, has_peer
  <2>. QED  BY <1>1, <2>1, <2>2, Zenon DEF RefreshHeartbeat
<1>6. \/ listener'.at = "idle"
      \/ listener'.at = "register" /\ listener'.msg = m /\ listener'.dual = listener.dual
  BY <1>1, Zenon DEF RefreshHeartbeat, ListenerIdle, RegistryType, RegistryTypeOK
<1>. QED
  BY <1>1, <1>2, <1>3, <1>4, <1>5, <1>6 DEF KeyInv, EntryInv, Regular, is_peer_pre_provisioned

\* Only a key that both paths brought is registered, and only where there is
\* none; a provisioned peer always has one.
LEMMA RegisterKeepsKeyInv ==
  ASSUME RegistryType, KeyInv, RegisterKey
  PROVE  KeyInv'
<1>1. PICK m : m = listener.msg
  OBVIOUS
<1>2. m \in Message /\ listener.at = "register"
  BY <1>1, Zenon DEF RegisterKey, RegistryType, RegistryTypeOK
<1>3. UNCHANGED <<peers, heard, unpinned, unconfirmed>>
  BY Zenon DEF RegisterKey, historyVars
<1>4. CASE listener.dual /\ keys[m.peer] = NoKey
  <2>1. keys' = [keys EXCEPT ![m.peer] = m.key]
    BY <1>1, <1>4, Zenon DEF RegisterKey, register_peer_key
  <2>2. listener'.at = "count" /\ listener'.msg = m /\ listener'.dual = listener.dual
    BY <1>1, <1>4, Zenon DEF RegisterKey, RegistryType, RegistryTypeOK
  <2>3. ~is_peer_pre_provisioned(m.peer)
    BY <1>2, <1>4, Zenon DEF KeyInv, is_peer_pre_provisioned, Message
  <2>4. \A q \in Peer : q # m.peer => keys'[q] = keys[q]
    BY <2>1, Zenon DEF RegistryType, RegistryTypeOK
  <2>5. keys'[m.peer] = m.key
    BY <1>2, <2>1, Zenon DEF RegistryType, RegistryTypeOK, Message
  <2>. QED
    BY <1>1, <1>2, <1>3, <1>4, <2>2, <2>3, <2>4, <2>5
    DEF KeyInv, EntryInv, Regular, is_peer_pre_provisioned
<1>5. CASE ~(listener.dual /\ keys[m.peer] = NoKey)
  <2>1. keys' = keys
    BY <1>1, <1>5, Zenon DEF RegisterKey, engineVars
  <2>2. listener'.at = "idle" \/ (listener'.at = "pex" /\ listener'.msg = m)
    BY <1>1, <1>5 DEF RegisterKey, AfterRegistration, ListenerIdle, RegistryType, RegistryTypeOK
  <2>. QED
    BY <1>1, <1>2, <1>3, <2>1, <2>2, Zenon DEF KeyInv, EntryInv, Regular, is_peer_pre_provisioned
<1>. QED  BY <1>4, <1>5, Zenon

\* A peer learned from a list gets an entry without a key.
LEMMA ListedEffect ==
  ASSUME RegistryType, \E x \in traffic.pex : add_peer(x, NoKey, TRUE)
  PROVE  \A q \in Peer :
            \/ peers'[q] = peers[q]
            \/ /\ ~peers[q].in /\ peers'[q].in /\ peers'[q].key = NoKey
               /\ peers'[q].paths = {} /\ peers'[q].fd = NoFd
<1>1. PICK x \in traffic.pex : add_peer(x, NoKey, TRUE)
  BY Zenon
<1>2. x \in Peer /\ TableType
  BY TrafficAssumption, Zenon DEF RegistryType, RegistryTypeOK, TableType
<1>. QED  BY <1>1, <1>2, AddPeerEffect, Zenon

\* Every step keeps the invariant of the keys.
LEMMA KeyNext ==
  ASSUME RegistryType, KeyInv, [RegistryNext]_registryVars
  PROVE  KeyInv'
<1>. USE DEF engineVars, historyVars, tlsVars
<1>0. TableType
  BY Zenon DEF RegistryType, RegistryTypeOK, TableType
<1>1. CASE ReceiveBeacon \/ ReceiveAnnounce
  BY <1>1, ReceiveKeepsKeyInv, Zenon
<1>2. CASE AddSender \/ ConfirmPath \/ RefreshHeartbeat \/ RegisterKey
  BY <1>2, AddSenderKeepsKeyInv, ConfirmKeepsKeyInv, RefreshKeepsKeyInv, RegisterKeepsKeyInv, Zenon
<1>3. CASE CountPeer
  <2>1. listener'.at = "idle" \/ (listener'.at = "pex" /\ listener'.msg = listener.msg)
    BY <1>3, Zenon DEF CountPeer, AfterRegistration, ListenerIdle, RegistryType, RegistryTypeOK
  <2>2. UNCHANGED <<peers, keys, heard, unpinned, unconfirmed>> /\ listener.at = "count"
    BY <1>3, Zenon DEF CountPeer, increment_peers
  <2>. QED  BY <2>1, <2>2, KeyInvFrame, Zenon
<1>4. CASE PexHandshake
  <2>1. listener' = listener
        \/ (listener'.at = "queue" /\ listener'.msg = listener.msg /\ listener.at = "pex")
    BY <1>4, Zenon DEF PexHandshake, RegistryType, RegistryTypeOK
  <2>2. UNCHANGED <<keys, heard, unpinned, unconfirmed>>
    BY <1>4, Zenon DEF PexHandshake
  <2>3. peers' = peers \/ \E q \in traffic.pex : add_peer(q, NoKey, TRUE)
    BY <1>4, Zenon DEF PexHandshake
  <2>4. \A q \in Peer : peers'[q] = peers[q] \/ (peers'[q].key = NoKey /\ peers'[q].paths = {})
    BY <2>3, ListedEffect, Zenon
  <2>. QED  BY <2>1, <2>2, <2>4, KeyInvFrame, Zenon
<1>5. CASE QueueConnection
  <2>1. listener'.at = "idle" /\ listener.at = "queue"
    BY <1>5, Zenon DEF QueueConnection, ListenerIdle
  <2>2. UNCHANGED <<peers, keys, heard, unpinned, unconfirmed>>
    BY <1>5, Zenon DEF QueueConnection
  <2>. QED  BY <2>1, <2>2, KeyInvFrame, Zenon
<1>6. CASE TcpLearnsPeer
  <2>2. UNCHANGED <<keys, heard, unpinned, unconfirmed, listener>>
    BY <1>6, Zenon DEF TcpLearnsPeer
  <2>3. \E q \in traffic.pex : add_peer(q, NoKey, TRUE)
    BY <1>6, Zenon DEF TcpLearnsPeer
  <2>4. \A q \in Peer : peers'[q] = peers[q] \/ (peers'[q].key = NoKey /\ peers'[q].paths = {})
    BY <2>3, ListedEffect, Zenon
  <2>. QED  BY <2>2, <2>4, KeyInvFrame, Zenon
<1>7. CASE ListStale \/ \E p \in Peer : CloseStale(p)
  <2>1. UNCHANGED <<peers, keys, heard, unpinned, unconfirmed, listener>>
    BY <1>7, Zenon DEF ListStale, CloseStale
  <2>. QED  BY <2>1, KeyInvFrame, Zenon
<1>8. CASE RemoveStale
  <2>1. UNCHANGED <<keys, heard, unpinned, unconfirmed, listener>>
    BY <1>8, Zenon DEF RemoveStale
  <2>2. remove_peer(pruner.id) /\ pruner.id \in Peer
    BY <1>8, Zenon DEF RemoveStale, RegistryType, RegistryTypeOK
  <2>3. \A q \in Peer : peers'[q] = peers[q] \/ (peers'[q].key = NoKey /\ peers'[q].paths = {})
    BY <1>0, <2>2, RemoveEffect, Zenon
  <2>. QED  BY <2>1, <2>3, KeyInvFrame, Zenon
<1>9. CASE PruneStale
  <2>1. UNCHANGED <<peers, heard, unpinned, unconfirmed, listener>>
    BY <1>9, Zenon DEF PruneStale
  <2>2. keys' = keys \/ (keys' = [keys EXCEPT ![pruner.id] = NoKey]
                         /\ ~is_peer_pre_provisioned(pruner.id))
    BY <1>9, Zenon DEF PruneStale, prune_peer
  <2>3. \A q \in Peer : keys'[q] = keys[q] \/ (keys'[q] = NoKey /\ ~is_peer_pre_provisioned(q))
    BY <2>2, Zenon DEF RegistryType, RegistryTypeOK
  <2>. QED  BY <2>1, <2>3, KeyInvFrame, Zenon
<1>10. ASSUME NEW p \in Peer, Age(p) PROVE KeyInv'
  <2>1. UNCHANGED <<keys, heard, unpinned, unconfirmed, listener>>
    BY <1>10, Zenon DEF Age
  <2>2. \A q \in Peer : /\ peers'[q].in = peers[q].in /\ peers'[q].key = peers[q].key
                        /\ peers'[q].paths = peers[q].paths
    BY <1>0, <1>10, AgeEffect, Zenon
  <2>. QED  BY <2>1, <2>2, KeyInvFrame, Zenon
<1>11. ASSUME NEW p \in Peer, UnpinPeer(p) PROVE KeyInv'
  <2>1. UNCHANGED <<keys, heard, unconfirmed, listener>> /\ unpinned' = unpinned \cup {p}
    BY <1>11, Zenon DEF UnpinPeer
  <2>2. \A q \in Peer : q # p => /\ peers'[q].in = peers[q].in /\ peers'[q].key = peers[q].key
                                 /\ peers'[q].paths = peers[q].paths
    BY <1>0, <1>11, UnpinEffect, Zenon DEF UnpinPeer
  <2>. QED  BY <2>1, <2>2, KeyInvFrame, Zenon
<1>12. CASE TakeTask \/ Connect \/ Handshake \/ AcceptConnection \/ RejectConnection
            \/ LookUpSsl \/ (\E p \in Peer : PickDescriptor(p))
  <2>1. UNCHANGED <<peers, keys, heard, unpinned, unconfirmed, listener>>
    BY <1>12, Zenon DEF TakeTask, Connect, Handshake, AcceptConnection, RejectConnection,
                 LookUpSsl, PickDescriptor
  <2>. QED  BY <2>1, KeyInvFrame, Zenon
<1>13. CASE StoreConnection
  <2>1. UNCHANGED <<keys, heard, unpinned, unconfirmed, listener>>
    BY <1>13, Zenon DEF StoreConnection
  <2>2. set_peer_tls_fd(worker.id, worker.fd) /\ worker.id \in Peer /\ worker.fd \in Fd
    BY <1>13, Zenon DEF StoreConnection, RegistryType
  <2>3. \A q \in Peer : /\ peers'[q].in = peers[q].in /\ peers'[q].key = peers[q].key
                        /\ peers'[q].paths = peers[q].paths
    BY <1>0, <2>2, SetFdEffect, Zenon
  <2>. QED  BY <2>1, <2>3, KeyInvFrame, Zenon
<1>14. CASE WriteMessage
  <2>1. UNCHANGED <<keys, heard, unpinned, unconfirmed, listener>>
    BY <1>14, Zenon DEF WriteMessage
  <2>2. peers' = peers \/ (set_peer_tls_fd(sender.id, NoFd) /\ sender.id \in Peer)
    BY <1>14, Zenon DEF WriteMessage, RegistryType
  <2>3. \A q \in Peer : /\ peers'[q].in = peers[q].in /\ peers'[q].key = peers[q].key
                        /\ peers'[q].paths = peers[q].paths
    BY <1>0, <2>2, SetFdEffect, Zenon
  <2>. QED  BY <2>1, <2>3, KeyInvFrame, Zenon
<1>15. CASE UNCHANGED registryVars
  <2>1. UNCHANGED <<peers, keys, heard, unpinned, unconfirmed, listener>>
    BY <1>15, Zenon DEF registryVars
  <2>. QED  BY <2>1, KeyInvFrame, Zenon
<1>. QED
  BY <1>1, <1>2, <1>3, <1>4, <1>5, <1>6, <1>7, <1>8, <1>9, <1>10, <1>11, <1>12, <1>13,
     <1>14, <1>15, Zenon
  DEF RegistryNext, ListenerNext, PrunerNext, TlsNext

\* RegisteredKeysAgree holds in every behaviour: whatever order the threads run
\* in, the engine holds a provisioned key or one that both the beacon and the
\* ANNOUNCE of the peer brought, but for the two exceptions it names.
THEOREM KeysAgree ==
  RegistrySpec => []RegisteredKeysAgree
<1>1. RegistryInit => RegistryType /\ KeyInv
  BY TypeInit, KeyInit, Zenon
<1>2. RegistryType /\ KeyInv /\ [RegistryNext]_registryVars => (RegistryType /\ KeyInv)'
  BY TypeNext, KeyNext, Zenon
<1>3. KeyInv => RegisteredKeysAgree
  BY Zenon DEF KeyInv, RegisteredKeysAgree, Regular, EntryInv
<1>. QED  BY <1>1, <1>2, <1>3, PTL DEF RegistrySpec

-----------------------------------------------------------------------------
(* The members of the engine, and their number.                            *)

\* A handler that may register a peer has its entry in the table, unless the
\* pruner has overtaken it.
MemberInv ==
    /\ MembersListed
    /\ listener.at \in {"refresh", "register"} /\ listener.dual
         => has_peer(listener.msg.peer) \/ listener.msg.peer \in overtaken

\* The peer to be counted is a member, unless it was pruned since.
CountInv ==
    /\ CountIsExact
    /\ overtaken = {} /\ listener.at = "count" => keys[listener.msg.peer] # NoKey

\* Both hold initially: the members are the provisioned peers.
LEMMA MemberInit ==
  RegistryInit => MemberInv /\ CountInv
<1>. SUFFICES ASSUME RegistryInit PROVE MemberInv /\ CountInv
  OBVIOUS
<1>1. keys = provisioned /\ listener.at = "idle"
  BY Zenon DEF RegistryInit, ListenerIdle
<1>2. {p \in Peer : keys[p] # NoKey} \ {} = {p \in Peer : is_peer_pre_provisioned(p)}
  BY <1>1, Zenon DEF is_peer_pre_provisioned
<1>3. CountIsExact
  BY <1>1, <1>2, Zenon DEF RegistryInit, CountIsExact
<1>. QED
  BY <1>1, <1>3, Zenon DEF MemberInv, CountInv, MembersListed, is_peer_pre_provisioned

\* What every step does that neither registers, counts nor prunes.
LEMMA MemberFrame ==
  ASSUME RegistryType, MemberInv, CountInv,
         UNCHANGED <<keys, total_nodes>>,
         uncounted \subseteq uncounted', overtaken \subseteq overtaken',
         \A q \in Peer :
            \/ peers[q].in => peers'[q].in
            \/ /\ pruner'.at = "prune" /\ pruner'.id = q
               /\ listener' = listener
               /\ q = listener.msg.peer /\ listener.at \in {"refresh", "register", "count"}
                    => q \in overtaken',
         \A q \in Peer : pruner.at = "prune" /\ pruner.id = q /\ ~peers'[q].in
                          => pruner'.at = "prune" /\ pruner'.id = q,
         \/ listener' = listener
         \/ /\ listener.at # "count" /\ listener'.at # "count"
            /\ listener'.at \in {"refresh", "register"} /\ listener'.dual =>
                 \/ peers'[listener'.msg.peer].in
                 \/ /\ listener'.msg = listener.msg /\ listener.dual
                    /\ listener.at \in {"refresh", "register"}
                    /\ peers'[listener.msg.peer].in = peers[listener.msg.peer].in
  PROVE  MemberInv' /\ CountInv'
<1>1. MembersListed'
  BY Zenon DEF MemberInv, MembersListed, has_peer, is_peer_pre_provisioned
<1>2. listener'.at \in {"refresh", "register"} /\ listener'.dual
        => peers'[listener'.msg.peer].in \/ listener'.msg.peer \in overtaken'
  <2>1. CASE listener' = listener
    <3>1. listener.at \in {"refresh", "register"} => listener.msg.peer \in Peer
      BY Zenon DEF RegistryType, RegistryTypeOK, Message
    <3>. QED  BY <2>1, <3>1, Zenon DEF MemberInv, has_peer
  <2>2. CASE listener' # listener
    BY <2>2, Zenon DEF MemberInv, has_peer
  <2>. QED  BY <2>1, <2>2, Zenon
<1>3. listener'.at = "count" <=> listener.at = "count"
  OBVIOUS
<1>4. listener.at = "count" => listener'.msg = listener.msg
  OBVIOUS
<1>5. CountIsExact'
  BY <1>3, <1>4, Zenon DEF CountInv, CountIsExact
<1>6. overtaken' = {} /\ listener'.at = "count" => keys'[listener'.msg.peer] # NoKey
  BY <1>3, <1>4, Zenon DEF CountInv
<1>. QED  BY <1>1, <1>2, <1>5, <1>6, Zenon DEF MemberInv, CountInv, has_peer

\* register_peer_key makes the peer of the handler a member that is not counted
\* yet.
LEMMA RegisterKeepsMembers ==
  ASSUME RegistryType, MemberInv, CountInv, RegisterKey
  PROVE  MemberInv' /\ CountInv'
<1>1. PICK m : m = listener.msg
  OBVIOUS
<1>2. m \in Message /\ m.peer \in Peer /\ m.key \in Key /\ listener.at = "register"
  BY <1>1, Zenon DEF RegisterKey, RegistryType, RegistryTypeOK, Message
<1>3. UNCHANGED <<peers, pruner, total_nodes, uncounted, overtaken>>
  BY Zenon DEF RegisterKey, historyVars, register_peer_key, engineVars
<1>4. CASE listener.dual /\ keys[m.peer] = NoKey
  <2>1. keys' = [keys EXCEPT ![m.peer] = m.key]
    BY <1>1, <1>4, Zenon DEF RegisterKey, register_peer_key
  <2>2. listener'.at = "count" /\ listener'.msg = m
    BY <1>1, <1>4 DEF RegisterKey, RegistryType, RegistryTypeOK
  <2>3. m.key # NoKey /\ keys'[m.peer] = m.key /\ \A q \in Peer \ {m.peer} : keys'[q] = keys[q]
    BY <1>2, <2>1, RegistryAssumption DEF RegistryType, RegistryTypeOK
  <2>4. MembersListed'
    BY <1>1, <1>2, <1>3, <1>4, <2>3, Zenon
    DEF MemberInv, MembersListed, has_peer, is_peer_pre_provisioned
  <2>5. {p \in Peer : keys'[p] # NoKey} \ {m.peer} = {p \in Peer : keys[p] # NoKey} \ {}
    BY <1>4, <2>3, Zenon
  <2>6. CountIsExact'
    BY <1>2, <1>3, <2>2, <2>5, Zenon DEF CountInv, CountIsExact
  <2>. QED  BY <2>2, <2>3, <2>4, <2>6, Zenon DEF MemberInv, CountInv
<1>5. CASE ~(listener.dual /\ keys[m.peer] = NoKey)
  <2>1. keys' = keys
    BY <1>1, <1>5, Zenon DEF RegisterKey, engineVars
  <2>2. listener'.at \in {"idle", "pex"}
    BY <1>1, <1>5 DEF RegisterKey, AfterRegistration, ListenerIdle, RegistryType, RegistryTypeOK
  <2>. QED  BY <1>2, <1>3, <2>1, <2>2, MemberFrame, Zenon
<1>. QED  BY <1>4, <1>5, Zenon

\* increment_peers counts it.
LEMMA CountKeepsMembers ==
  ASSUME RegistryType, MemberInv, CountInv, CountPeer
  PROVE  MemberInv' /\ CountInv'
<1>. DEFINE m == listener.msg.peer
            K == {p \in Peer : keys[p] # NoKey}
<1>1. UNCHANGED <<peers, pruner, keys, uncounted, overtaken>> /\ total_nodes' = total_nodes + 1
  BY Zenon DEF CountPeer, historyVars, increment_peers
<1>2. listener.at = "count" /\ listener'.at \in {"idle", "pex"} /\ m \in Peer
  BY Zenon DEF CountPeer, AfterRegistration, ListenerIdle, RegistryType, RegistryTypeOK, Message
<1>3. ASSUME uncounted' = {}, overtaken' = {}
      PROVE  total_nodes' = 1 + Cardinality(K)
  <2>1. m \in K /\ total_nodes = 1 + Cardinality(K \ {m})
    BY <1>1, <1>2, <1>3, Zenon DEF CountInv, CountIsExact
  <2>2. IsFiniteSet(K)
    BY FS_Subset, RegistryAssumption, Zenon
  <2>. HIDE DEF K, m
  <2>3. Cardinality(K \ {m}) = Cardinality(K) - 1 /\ Cardinality(K) \in Nat
    BY <2>1, <2>2, FS_RemoveElement, FS_CardinalityType, Zenon
  <2>. QED  BY <1>1, <2>1, <2>3
<1>4. {p \in Peer : keys'[p] # NoKey} \ {} = K
  BY <1>1, Zenon
<1>5. CountInv'
  BY <1>2, <1>3, <1>4, Zenon DEF CountInv, CountIsExact
<1>6. MemberInv'
  BY <1>1, <1>2, Zenon DEF MemberInv, MembersListed, has_peer, is_peer_pre_provisioned
<1>. QED  BY <1>5, <1>6, Zenon

\* prune_peer takes off a member that was counted, if the peer was one and no
\* handler is between register_peer_key and increment_peers for it.
LEMMA PruneKeepsMembers ==
  ASSUME RegistryType, MemberInv, CountInv, PruneStale
  PROVE  MemberInv' /\ CountInv'
<1>1. PICK p : p = pruner.id
  OBVIOUS
<1>2. p \in Peer /\ pruner.at = "prune"
  BY <1>1, Zenon DEF PruneStale, RegistryType, RegistryTypeOK
<1>3. UNCHANGED <<peers, listener>>
  BY Zenon DEF PruneStale
<1>4. /\ overtaken' = overtaken \cup ({p} \cap BeingRegistered)
      /\ uncounted' = uncounted \cup {q \in {p} : keys[q] = NoKey}
  BY <1>1, Zenon DEF PruneStale
<1>5. \/ is_peer_pre_provisioned(p) /\ UNCHANGED engineVars
      \/ ~is_peer_pre_provisioned(p) /\ prune_peer(p)
  BY <1>1, Zenon DEF PruneStale
<1>6. keys'[p] = NoKey \/ is_peer_pre_provisioned(p)
  BY <1>2, <1>5, Zenon DEF prune_peer, RegistryType, RegistryTypeOK
<1>7. \A q \in Peer : q # p => keys'[q] = keys[q]
  BY <1>5, Zenon DEF prune_peer, engineVars, RegistryType, RegistryTypeOK
<1>8. MemberInv'
  <2>1. MembersListed'
    BY <1>1, <1>3, <1>4, <1>6, <1>7, Zenon
    DEF MemberInv, MembersListed, has_peer, is_peer_pre_provisioned
  <2>. QED  BY <1>3, <1>4, <2>1, Zenon DEF MemberInv, has_peer
<1>9. CountInv'
  <2>1. CASE is_peer_pre_provisioned(p)
    BY <1>3, <1>4, <1>5, <2>1, Zenon DEF CountInv, CountIsExact, engineVars
  <2>2. CASE ~is_peer_pre_provisioned(p) /\ ~(uncounted' = {} /\ overtaken' = {})
    <3>1. overtaken' = {} /\ listener.at = "count" => keys'[listener.msg.peer] = keys[listener.msg.peer]
      BY <1>4, <1>7, Zenon DEF BeingRegistered, RegistryType, RegistryTypeOK, Message
    <3>. QED  BY <1>3, <1>4, <2>2, <3>1, Zenon DEF CountInv, CountIsExact
  <2>3. CASE ~is_peer_pre_provisioned(p) /\ uncounted' = {} /\ overtaken' = {}
    <3>. DEFINE X == IF listener.at = "count" THEN {listener.msg.peer} ELSE {}
                C == {q \in Peer : keys[q] # NoKey} \ X
    <3>1. uncounted = {} /\ overtaken = {} /\ keys[p] # NoKey /\ p \notin X
      BY <1>4, <2>3, Zenon DEF BeingRegistered
    <3>2. p \in C /\ total_nodes = 1 + Cardinality(C)
      BY <1>2, <3>1, Zenon DEF CountInv, CountIsExact
    <3>3. IsFiniteSet(C)
      BY FS_Subset, RegistryAssumption, Zenon
    <3>4. {q \in Peer : keys'[q] # NoKey} \ X = C \ {p}
      BY <1>2, <1>6, <1>7, <2>3, Zenon
    <3>5. total_nodes' = IF total_nodes > 1 THEN total_nodes - 1 ELSE 1
      BY <1>5, <2>3, Zenon DEF prune_peer
    <3>6. total_nodes' = 1 + Cardinality(C \ {p})
      <4>. HIDE DEF C
      <4>1. Cardinality(C) \in Nat /\ Cardinality(C \ {p}) = Cardinality(C) - 1
        BY <3>2, <3>3, FS_RemoveElement, FS_CardinalityType, Zenon
      <4>2. Cardinality(C \ {p}) \in Nat
        BY <3>3, FS_RemoveElement, FS_CardinalityType, Zenon
      <4>. QED  BY <3>2, <3>5, <4>1, <4>2
    <3>7. CountIsExact'
      BY <1>3, <3>4, <3>6, Zenon DEF CountIsExact
    <3>8. listener.at = "count" => keys'[listener.msg.peer] # NoKey
      BY <1>7, <3>1, Zenon DEF CountInv, RegistryType, RegistryTypeOK, Message
    <3>. QED  BY <1>3, <3>7, <3>8, Zenon DEF CountInv
  <2>. QED  BY <2>1, <2>2, <2>3, Zenon
<1>. QED  BY <1>8, <1>9, Zenon

\* confirm_path returns true only for a peer that is in the table.
LEMMA ConfirmKeepsMembers ==
  ASSUME RegistryType, MemberInv, CountInv, ConfirmPath
  PROVE  MemberInv' /\ CountInv'
<1>1. PICK m : m = listener.msg
  OBVIOUS
<1>2. PICK dual \in BOOLEAN, mismatch \in BOOLEAN :
        /\ confirm_path(m.peer, m.path, m.key, [dual |-> dual, mismatch |-> mismatch])
        /\ listener' =
              IF mismatch THEN ListenerIdle
              ELSE [listener EXCEPT
                      !.dual = dual,
                      !.at = IF m.path = "beacon" /\ ~listener.isNew
                             THEN "refresh" ELSE "register"]
  BY <1>1, Zenon DEF ConfirmPath
<1>3. m \in Message /\ TableType /\ listener.at = "confirm"
  BY <1>1, Zenon DEF ConfirmPath, RegistryType, RegistryTypeOK, TableType
<1>4. UNCHANGED <<keys, total_nodes, pruner, uncounted, overtaken>>
  BY Zenon DEF ConfirmPath, engineVars, historyVars
<1>5. /\ \A q \in Peer : peers'[q].in = peers[q].in
      /\ dual => peers[m.peer].in
  <2>1. CASE UNCHANGED peers /\ dual = FALSE
    BY <2>1, Zenon
  <2>2. CASE /\ has_peer(m.peer)
             /\ peers' = [peers EXCEPT ![m.peer].paths = @ \cup {m.path},
                                       ![m.peer].key = IF @ = NoKey THEN m.key ELSE @]
    BY <1>3, <2>2, ConfirmEffect, Zenon DEF has_peer, Message
  <2>. QED  BY <1>2, <2>1, <2>2, Zenon DEF confirm_path
<1>6. \/ listener'.at = "idle"
      \/ /\ listener'.at \in {"refresh", "register"}
         /\ listener'.msg = m /\ listener'.dual = dual
  BY <1>1, <1>2, Zenon DEF ListenerIdle, RegistryType, RegistryTypeOK
<1>7. m.peer \in Peer
  BY <1>3, Zenon DEF Message
<1>. QED  BY <1>3, <1>4, <1>5, <1>6, <1>7, MemberFrame, Zenon

\* Every step keeps both invariants.
LEMMA MemberNext ==
  ASSUME RegistryType, MemberInv, CountInv, [RegistryNext]_registryVars
  PROVE  MemberInv' /\ CountInv'
<1>. USE DEF engineVars, historyVars, tlsVars
<1>0. TableType
  BY Zenon DEF RegistryType, RegistryTypeOK, TableType
<1>1. CASE ReceiveBeacon \/ ReceiveAnnounce
  <2>1. listener.at = "idle" /\ listener'.at = "add"
    BY <1>1, Zenon DEF ReceiveBeacon, ReceiveAnnounce, ListenerIdle
  <2>2. UNCHANGED <<peers, pruner, keys, total_nodes, uncounted, overtaken>>
    BY <1>1, Zenon DEF ReceiveBeacon, ReceiveAnnounce
  <2>. QED  BY <2>1, <2>2, MemberFrame, Zenon
<1>2. CASE AddSender
  <2>1. listener.at = "add" /\ listener'.at = "confirm"
    BY <1>2, Zenon DEF AddSender, RegistryType, RegistryTypeOK
  <2>2. UNCHANGED <<pruner, keys, total_nodes, uncounted, overtaken>>
    BY <1>2, Zenon DEF AddSender
  <2>3. \A q \in Peer : peers[q].in => peers'[q].in
    <3>1. listener.msg.peer \in Peer /\ listener.msg.key \in Key
      BY <2>1, Zenon DEF RegistryType, RegistryTypeOK, Message
    <3>. QED  BY <1>0, <1>2, <3>1, AddPeerEffect, Zenon DEF AddSender
  <2>. QED  BY <2>1, <2>2, <2>3, MemberFrame, Zenon
<1>3. CASE ConfirmPath \/ RegisterKey \/ CountPeer \/ PruneStale
  BY <1>3, ConfirmKeepsMembers, RegisterKeepsMembers, CountKeepsMembers, PruneKeepsMembers, Zenon
<1>4. CASE RefreshHeartbeat
  <2>1. /\ listener.at = "refresh" /\ listener.msg \in Message
        /\ \/ listener'.at = "idle"
           \/ listener'.at = "register" /\ listener'.msg = listener.msg /\ listener.dual
    BY <1>4, Zenon DEF RefreshHeartbeat, ListenerIdle, RegistryType, RegistryTypeOK
  <2>2. UNCHANGED <<pruner, keys, total_nodes, uncounted, overtaken>>
    BY <1>4, Zenon DEF RefreshHeartbeat
  <2>3. \A q \in Peer : peers'[q].in = peers[q].in
    <3>1. peers' = peers \/ update_peer_heartbeat(listener.msg.peer, listener.msg.key)
      BY <1>4, Zenon DEF RefreshHeartbeat
    <3>. QED  BY <1>0, <2>1, <3>1, HeartbeatEffect, Zenon DEF Message
  <2>4. listener.msg.peer \in Peer
    BY <2>1, Zenon DEF Message
  <2>. QED  BY <2>1, <2>2, <2>3, <2>4, MemberFrame, Zenon
<1>5. CASE PexHandshake \/ TcpLearnsPeer
  <2>1. listener' = listener \/ (listener.at = "pex" /\ listener'.at = "queue")
    BY <1>5, Zenon DEF PexHandshake, TcpLearnsPeer, RegistryType, RegistryTypeOK
  <2>2. UNCHANGED <<pruner, keys, total_nodes, uncounted, overtaken>>
    BY <1>5, Zenon DEF PexHandshake, TcpLearnsPeer
  <2>3. peers' = peers \/ \E x \in traffic.pex : add_peer(x, NoKey, TRUE)
    BY <1>5, Zenon DEF PexHandshake, TcpLearnsPeer
  <2>4. \A q \in Peer : peers[q].in => peers'[q].in
    BY <2>3, ListedEffect, Zenon
  <2>. QED  BY <2>1, <2>2, <2>4, MemberFrame, Zenon
<1>6. CASE QueueConnection
  <2>1. listener.at = "queue" /\ listener'.at = "idle"
    BY <1>6, Zenon DEF QueueConnection, ListenerIdle
  <2>2. UNCHANGED <<peers, pruner, keys, total_nodes, uncounted, overtaken>>
    BY <1>6, Zenon DEF QueueConnection
  <2>. QED  BY <2>1, <2>2, MemberFrame, Zenon
<1>7. CASE ListStale \/ \E p \in Peer : CloseStale(p)
  <2>1. pruner.at \in {"idle", "close"}
    BY <1>7, Zenon DEF ListStale, CloseStale
  <2>2. UNCHANGED <<peers, listener, keys, total_nodes, uncounted, overtaken>>
    BY <1>7, Zenon DEF ListStale, CloseStale
  <2>. QED  BY <2>1, <2>2, MemberFrame, Zenon
<1>8. CASE RemoveStale
  <2>1. UNCHANGED <<keys, total_nodes, listener, uncounted>>
    BY <1>8, Zenon DEF RemoveStale
  <2>2. /\ remove_peer(pruner.id) /\ pruner.id \in Peer /\ pruner.at = "remove"
        /\ pruner'.at = "prune" /\ pruner'.id = pruner.id
        /\ overtaken' = overtaken \cup ({pruner.id} \cap BeingRegistered)
    BY <1>8, Zenon DEF RemoveStale, RegistryType, RegistryTypeOK
  <2>3. \A q \in Peer : q # pruner.id => peers'[q] = peers[q]
    BY <1>0, <2>2, RemoveEffect, Zenon
  <2>. QED  BY <2>1, <2>2, <2>3, MemberFrame, Zenon DEF BeingRegistered
<1>9. ASSUME NEW p \in Peer, Age(p) \/ UnpinPeer(p) PROVE MemberInv' /\ CountInv'
  <2>1. UNCHANGED <<listener, pruner, keys, total_nodes, uncounted, overtaken>>
    BY <1>9, Zenon DEF Age, UnpinPeer
  <2>2. \A q \in Peer : peers'[q].in = peers[q].in
    BY <1>0, <1>9, AgeEffect, UnpinEffect, Zenon DEF UnpinPeer
  <2>. QED  BY <2>1, <2>2, MemberFrame, Zenon
<1>10. CASE TlsNext
  <2>1. UNCHANGED <<listener, pruner, keys, total_nodes, uncounted, overtaken>>
    BY <1>10, Zenon DEF TlsNext, TakeTask, Connect, Handshake, StoreConnection, AcceptConnection,
                 RejectConnection, PickDescriptor, LookUpSsl, WriteMessage
  <2>2. \A q \in Peer : peers'[q].in = peers[q].in
    <3>1. \/ UNCHANGED peers
          \/ set_peer_tls_fd(worker.id, worker.fd) /\ worker.id \in Peer /\ worker.fd \in Fd
          \/ set_peer_tls_fd(sender.id, NoFd) /\ sender.id \in Peer
      BY <1>10, Zenon DEF TlsNext, TakeTask, Connect, Handshake, StoreConnection, AcceptConnection,
                   RejectConnection, PickDescriptor, LookUpSsl, WriteMessage, RegistryType
    <3>. QED  BY <1>0, <3>1, SetFdEffect, Zenon
  <2>. QED  BY <2>1, <2>2, MemberFrame, Zenon
<1>11. CASE UNCHANGED registryVars
  <2>1. UNCHANGED <<peers, listener, pruner, keys, total_nodes, uncounted, overtaken>>
    BY <1>11, Zenon DEF registryVars
  <2>. QED  BY <2>1, MemberFrame, Zenon
<1>. QED
  BY <1>1, <1>2, <1>3, <1>4, <1>5, <1>6, <1>7, <1>8, <1>9, <1>10, <1>11, Zenon
  DEF RegistryNext, ListenerNext, PrunerNext

\* MembersListed holds in every behaviour: the liveness monitor can find every
\* member of the engine but those it names.
THEOREM MembersAreListed ==
  RegistrySpec => []MembersListed
<1>1. RegistryInit => RegistryType /\ MemberInv /\ CountInv
  BY TypeInit, MemberInit, Zenon
<1>2. RegistryType /\ MemberInv /\ CountInv /\ [RegistryNext]_registryVars
        => (RegistryType /\ MemberInv /\ CountInv)'
  BY TypeNext, MemberNext, Zenon
<1>3. MemberInv => MembersListed
  BY Zenon DEF MemberInv
<1>. QED  BY <1>1, <1>2, <1>3, PTL DEF RegistrySpec

\* CountIsExact holds in every behaviour: until a peer without a key is pruned,
\* or one that is being registered, total_nodes is the number of the members
\* and this node.
THEOREM CountStaysExact ==
  RegistrySpec => []CountIsExact
<1>1. RegistryInit => RegistryType /\ MemberInv /\ CountInv
  BY TypeInit, MemberInit, Zenon
<1>2. RegistryType /\ MemberInv /\ CountInv /\ [RegistryNext]_registryVars
        => (RegistryType /\ MemberInv /\ CountInv)'
  BY TypeNext, MemberNext, Zenon
<1>3. CountInv => CountIsExact
  BY Zenon DEF CountInv
<1>. QED  BY <1>1, <1>2, <1>3, PTL DEF RegistrySpec
-----------------------------------------------------------------------------
(* Connections and the descriptors that name them. *)

\* A descriptor number is never the mark for none.
LEMMA FdIsNumber ==
  NoFd \notin Fd
BY RegistryAssumption DEF NoFd

\* The marks in m_active_ssl are no peers.
LEMMA PeerNames ==
  NoSsl \notin Peer /\ Inbound \notin Peer /\ NoSsl # Inbound
<1>1. NoSsl # Inbound
  BY Zenon DEF NoSsl, Inbound
<1>. QED  BY <1>1, TrafficAssumption, Zenon

Removing(p) == pruner.at = "remove" /\ pruner.id = p

\* A descriptor with an SSL object is open.  What the worker holds belongs to no
\* entry yet, what the acceptor holds to no peer, and what a sender has read
\* stays the connection of its peer until that peer is pruned.
ConnInv ==
    /\ \A f \in Fd : active_ssl[f] # NoSsl => f \in open
    /\ TableNamesOwnConnection
    /\ worker.at = "handshake" => worker.fd \in open /\ active_ssl[worker.fd] = NoSsl
    /\ worker.at = "store" => active_ssl[worker.fd] = worker.id
    /\ worker.at \in {"handshake", "store"}
         => \A p \in Peer : peers[p].fd = worker.fd => Removing(p)
    /\ acceptor # NoFd => active_ssl[acceptor] = Inbound
    /\ sender.at # "idle" /\ ~sender.pruned => active_ssl[sender.fd] = sender.id
    /\ sender.at = "lookup" => ~sender.freed
    /\ SendsUseOwnConnection

\* An open connection is in the entry of its peer, in the hands of a thread, or
\* abandoned; and the worker opens one only for a peer that has none.
LeakInv ==
    /\ \A p \in Peer : ~peers[p].in => peers[p].fd = NoFd
    /\ \A f \in Fd : active_ssl[f] # NoSsl
         => \/ \E p \in Peer : peers[p].fd = f /\ active_ssl[f] = p
            \/ worker.fd = f /\ worker.at = "store"
            \/ acceptor = f \/ f \in abandoned
    /\ worker.at = "connect" => worker.fd = NoFd
    /\ worker.at # "idle"
         => \/ peers[worker.id].fd \in {NoFd, worker.fd}
            \/ active_ssl[peers[worker.id].fd] # worker.id

\* Both hold initially: there is no connection.
LEMMA ConnInit ==
  RegistryInit => ConnInv /\ LeakInv
BY DEF RegistryInit, PeerManagerInit, TransportInit, ConnInv, LeakInv, WorkerIdle, SenderIdle,
       NoEntry, TableNamesOwnConnection, SendsUseOwnConnection

\* The threads that have nothing to do with connections add entries without a
\* descriptor.
LEMMA ConnFrame ==
  ASSUME RegistryType, ConnInv, LeakInv,
         UNCHANGED <<open, active_ssl, worker, acceptor, sender, abandoned>>,
         \A q \in Peer :
            \/ peers'[q].fd = peers[q].fd /\ peers'[q].in = peers[q].in
            \/ ~peers[q].in /\ peers'[q].fd = NoFd,
         pruner' = pruner \/ pruner.at # "remove"
  PROVE  ConnInv' /\ LeakInv'
<1>1. \A q \in Peer : peers'[q].fd = peers[q].fd
  BY Zenon DEF LeakInv
<1>2. \A q \in Peer : ~peers'[q].in => peers'[q].fd = NoFd
  BY Zenon DEF LeakInv
<1>3. \A q \in Peer : Removing(q) => Removing(q)'
  BY Zenon DEF Removing
<1>4. TableNamesOwnConnection'
  BY <1>1, <1>3, Zenon DEF ConnInv, TableNamesOwnConnection, Removing
<1>5. SendsUseOwnConnection'
  BY Zenon DEF ConnInv, SendsUseOwnConnection
<1>6. ConnInv'
  BY <1>1, <1>3, <1>4, <1>5, Zenon DEF ConnInv
<1>7. worker'.at # "idle" => worker'.id \in Peer
  BY Zenon DEF RegistryType
<1>8. LeakInv'
  BY <1>1, <1>2, <1>7, Zenon DEF LeakInv
<1>. QED  BY <1>6, <1>8, Zenon

\* Closing the descriptor of an entry closes no other peer's connection, for an
\* entry that is not being removed names its own.
LEMMA CloseKeepsConn ==
  ASSUME RegistryType, ConnInv, LeakInv, NEW p \in Peer, CloseStale(p)
  PROVE  ConnInv' /\ LeakInv'
<1>. USE PeerNames
<1>1. PICK f : f = peers[p].fd
  OBVIOUS
<1>2. /\ pruner.at = "close" /\ pruner'.at = "remove" /\ pruner'.id = p
      /\ UNCHANGED <<peers, worker, acceptor, abandoned>>
  BY Zenon DEF CloseStale, RegistryType, RegistryTypeOK
<1>3. f \in Fd \cup {NoFd}
  BY <1>1, Zenon DEF RegistryType, RegistryTypeOK, PeerEntry
<1>4. /\ f # NoFd => open' = open \ {f} /\ active_ssl' = [active_ssl EXCEPT ![f] = NoSsl]
      /\ f = NoFd => open' = open /\ active_ssl' = active_ssl
  BY <1>1, Zenon DEF CloseStale, close, transportVars
<1>5. /\ \A g \in Fd : g # f => active_ssl'[g] = active_ssl[g]
      /\ f \in Fd => active_ssl'[f] = NoSsl
  BY <1>3, <1>4, FdIsNumber DEF RegistryType, RegistryTypeOK
<1>6. f # NoFd => f \in Fd /\ active_ssl[f] = p
  BY <1>1, <1>2, <1>3, Zenon DEF ConnInv, TableNamesOwnConnection
<1>7. /\ sender'.at = sender.at /\ sender'.id = sender.id /\ sender'.fd = sender.fd
      /\ sender'.ssl = sender.ssl
      /\ sender'.pruned = (sender.pruned \/ (sender.at # "idle" /\ sender.id = p))
      /\ sender'.freed = (sender.freed \/ (sender.at = "write" /\ sender.fd = f
                                            /\ sender.ssl # NoSsl))
  BY <1>1, Zenon DEF CloseStale, SenderAfterClose, RegistryType, RegistryTypeOK
<1>8. \A g \in Fd : active_ssl'[g] # NoSsl => g \in open'
  BY <1>4, <1>5, Zenon DEF ConnInv
<1>9. TableNamesOwnConnection'
  <2>. SUFFICES ASSUME NEW q \in Peer, peers[q].fd # NoFd, q # p
                PROVE  active_ssl'[peers[q].fd] = q
    BY <1>2, Zenon DEF TableNamesOwnConnection
  <2>1. peers[q].fd \in Fd /\ active_ssl[peers[q].fd] = q
    BY <1>2, Zenon DEF ConnInv, TableNamesOwnConnection, RegistryType, RegistryTypeOK, PeerEntry
  <2>. QED  BY <1>5, <1>6, <2>1, Zenon
<1>10. worker.at \in {"handshake", "store"} => worker.fd # f /\ worker.fd \in Fd
  BY <1>1, <1>2, Zenon DEF ConnInv, Removing, RegistryType
<1>11. acceptor # NoFd => acceptor # f /\ acceptor \in Fd
  BY <1>6 DEF ConnInv, RegistryType, RegistryTypeOK
<1>12. sender'.at # "idle" /\ ~sender'.pruned
         => sender.fd \in Fd /\ sender.fd # f /\ active_ssl'[sender.fd] = sender.id
  <2>. SUFFICES ASSUME sender'.at # "idle", ~sender'.pruned
                PROVE  sender.fd \in Fd /\ sender.fd # f /\ active_ssl'[sender.fd] = sender.id
    OBVIOUS
  <2>1. sender.at # "idle" /\ ~sender.pruned /\ sender.id # p
    BY <1>7, Zenon
  <2>2. sender.fd \in Fd /\ active_ssl[sender.fd] = sender.id
    BY <2>1, Zenon DEF ConnInv, RegistryType
  <2>3. NoFd \notin Fd
    BY FdIsNumber, Zenon
  <2>. QED  BY <1>5, <1>6, <2>1, <2>2, <2>3, Zenon
<1>13. SendsUseOwnConnection'
  BY <1>7, <1>12, Zenon DEF ConnInv, SendsUseOwnConnection
<1>14. ConnInv'
  <2>1. /\ worker'.at = "handshake" => worker'.fd \in open' /\ active_ssl'[worker'.fd] = NoSsl
        /\ worker'.at = "store" => active_ssl'[worker'.fd] = worker'.id
    BY <1>2, <1>4, <1>5, <1>10, Zenon DEF ConnInv
  <2>2. worker'.at \in {"handshake", "store"}
          => \A q \in Peer : peers'[q].fd = worker'.fd => Removing(q)'
    BY <1>2, Zenon DEF ConnInv, Removing
  <2>3. acceptor' # NoFd => active_ssl'[acceptor'] = Inbound
    BY <1>2, <1>5, <1>11, Zenon DEF ConnInv
  <2>. QED  BY <1>7, <1>8, <1>9, <1>12, <1>13, <2>1, <2>2, <2>3, Zenon DEF ConnInv
<1>15. LeakInv'
  <2>1. \A g \in Fd : active_ssl'[g] # NoSsl => active_ssl'[g] = active_ssl[g]
    BY <1>5, Zenon
  <2>2. worker'.at # "idle"
         => \/ peers'[worker'.id].fd \in {NoFd, worker'.fd}
            \/ active_ssl'[peers'[worker'.id].fd] # worker'.id
    <3>1. ASSUME worker.at # "idle", peers[worker.id].fd \notin {NoFd, worker.fd}
          PROVE  active_ssl'[peers[worker.id].fd] # worker.id
      <4>1. /\ worker.id \in Peer /\ peers[worker.id].fd \in Fd
            /\ active_ssl[peers[worker.id].fd] # worker.id
        BY <3>1, Zenon DEF LeakInv, RegistryType, RegistryTypeOK, PeerEntry
      <4>. QED  BY <1>5, <4>1, Zenon
    <3>. QED  BY <1>2, <3>1, Zenon
  <2>. QED  BY <1>2, <2>1, <2>2, Zenon DEF LeakInv
<1>. QED  BY <1>14, <1>15, Zenon

\* The removed entry's connection, if it got one after the close, is abandoned.
LEMMA RemoveKeepsConn ==
  ASSUME RegistryType, ConnInv, LeakInv, RemoveStale
  PROVE  ConnInv' /\ LeakInv'
<1>1. PICK p : p = pruner.id
  OBVIOUS
<1>2. /\ p \in Peer /\ pruner.at = "remove" /\ pruner'.at = "prune"
      /\ remove_peer(p) /\ TableType
      /\ abandoned' = abandoned \cup {f \in Fd : peers[p].fd = f /\ active_ssl[f] = p}
      /\ UNCHANGED <<open, active_ssl, worker, acceptor, sender>>
  BY <1>1, Zenon DEF RemoveStale, transportVars, RegistryType, RegistryTypeOK, TableType
<1>3. /\ ~peers'[p].in /\ peers'[p].fd = NoFd
      /\ \A q \in Peer \ {p} : peers'[q] = peers[q]
  BY <1>2, RemoveEffect, Zenon
<1>4. TableNamesOwnConnection'
  BY <1>1, <1>2, <1>3, Zenon DEF ConnInv, TableNamesOwnConnection
<1>5. SendsUseOwnConnection'
  BY <1>2, Zenon DEF ConnInv, SendsUseOwnConnection
<1>6. worker'.at \in {"handshake", "store"}
        => \A q \in Peer : peers'[q].fd = worker'.fd => Removing(q)'
  <2>1. NoFd \notin Fd
    BY FdIsNumber, Zenon
  <2>. QED  BY <1>1, <1>2, <1>3, <2>1, Zenon DEF ConnInv, Removing, RegistryType
<1>7. ConnInv'
  BY <1>2, <1>4, <1>5, <1>6, Zenon DEF ConnInv
<1>8. \A f \in Fd : active_ssl'[f] # NoSsl
        => \/ \E q \in Peer : peers'[q].fd = f /\ active_ssl'[f] = q
           \/ worker'.fd = f /\ worker'.at = "store"
           \/ acceptor' = f \/ f \in abandoned'
  BY <1>2, <1>3, Zenon DEF LeakInv
<1>9. worker'.at # "idle"
        => \/ peers'[worker'.id].fd \in {NoFd, worker'.fd}
           \/ active_ssl'[peers'[worker'.id].fd] # worker'.id
  BY <1>2, <1>3, Zenon DEF LeakInv, RegistryType
<1>10. LeakInv'
  BY <1>2, <1>3, <1>8, <1>9, Zenon DEF LeakInv
<1>. QED  BY <1>7, <1>10, Zenon

\* The worker takes a task only for a peer without a connection.
LEMMA TakeKeepsConn ==
  ASSUME RegistryType, ConnInv, LeakInv, TakeTask
  PROVE  ConnInv' /\ LeakInv'
<1>1. /\ worker.at = "idle"
      /\ UNCHANGED <<peers, open, active_ssl, pruner, acceptor, sender, abandoned>>
  BY Zenon DEF TakeTask, transportVars
<1>2. \/ worker'.at = "idle"
      \/ worker'.at = "connect" /\ worker'.fd = NoFd /\ peers[worker'.id].fd = NoFd
  BY Zenon DEF TakeTask, WorkerIdle
<1>3. ConnInv'
  BY <1>1, <1>2, Zenon DEF ConnInv, TableNamesOwnConnection, SendsUseOwnConnection
<1>4. LeakInv'
  BY <1>1, <1>2, Zenon DEF LeakInv
<1>. QED  BY <1>3, <1>4, Zenon

\* A new descriptor is one that was not open: no entry, thread or sender that
\* still counts names it.
LEMMA ConnectKeepsConn ==
  ASSUME RegistryType, ConnInv, LeakInv, Connect
  PROVE  ConnInv' /\ LeakInv'
<1>1. worker.at = "connect" /\ UNCHANGED <<peers, pruner, acceptor, sender, abandoned>>
  BY Zenon DEF Connect
<1>2. CASE worker' = WorkerIdle /\ UNCHANGED transportVars
  <2>1. worker'.at = "idle" /\ UNCHANGED <<open, active_ssl>>
    BY <1>2, Zenon DEF WorkerIdle, transportVars
  <2>2. ConnInv'
    BY <1>1, <2>1, Zenon DEF ConnInv, TableNamesOwnConnection, SendsUseOwnConnection
  <2>3. LeakInv'
    BY <1>1, <2>1, Zenon DEF LeakInv
  <2>. QED  BY <2>2, <2>3, Zenon
<1>3. ASSUME NEW f \in Fd, OpenSocket(f),
             worker' = [worker EXCEPT !.at = "handshake", !.fd = f]
      PROVE  ConnInv' /\ LeakInv'
  <2>1. worker'.at = "handshake" /\ worker'.fd = f /\ worker'.id = worker.id
    BY <1>3, Zenon DEF RegistryType, RegistryTypeOK
  <2>2. f \notin open /\ open' = open \cup {f} /\ active_ssl' = active_ssl
    BY <1>3, Zenon DEF OpenSocket, IsLowestFree
  <2>3. active_ssl[f] = NoSsl
    BY <2>2, Zenon DEF ConnInv
  <2>4. \A p \in Peer : peers[p].fd = f => Removing(p)
    <3>1. \A p \in Peer : NoSsl # p /\ NoFd # f
      BY FdIsNumber, PeerNames, Zenon
    <3>. QED  BY <2>3, <3>1, Zenon DEF ConnInv, TableNamesOwnConnection, Removing
  <2>5. ConnInv'
    BY <1>1, <2>1, <2>2, <2>3, <2>4, Zenon
    DEF ConnInv, TableNamesOwnConnection, SendsUseOwnConnection, Removing
  <2>6. worker.id \in Peer /\ NoSsl \notin Peer
    BY <1>1, PeerNames, Zenon DEF RegistryType
  <2>7. worker'.at # "idle"
          => \/ peers'[worker'.id].fd \in {NoFd, worker'.fd}
             \/ active_ssl'[peers'[worker'.id].fd] # worker'.id
    BY <1>1, <2>1, <2>2, Zenon DEF LeakInv
  <2>8. LeakInv'
    BY <1>1, <2>1, <2>2, <2>3, <2>7, Zenon DEF LeakInv
  <2>. QED  BY <2>5, <2>8, Zenon
<1>. QED  BY <1>2, <1>3, Zenon DEF Connect

\* The end of a handshake names the connection after its peer; a failed one
\* closes a descriptor that carries none.
LEMMA HandshakeKeepsConn ==
  ASSUME RegistryType, ConnInv, LeakInv, Handshake
  PROVE  ConnInv' /\ LeakInv'
<1>. USE PeerNames
<1>1. /\ worker.at = "handshake" /\ UNCHANGED <<peers, pruner, acceptor, sender, abandoned>>
      /\ worker.id \in Peer
  BY Zenon DEF Handshake, RegistryType
<1>2. PICK f \in Fd : f = worker.fd
  BY <1>1, Zenon DEF RegistryType
<1>3. f \in open /\ active_ssl[f] = NoSsl
  BY <1>1, <1>2, Zenon DEF ConnInv
<1>4. CASE HandshakeDone(worker.fd, worker.id) /\ worker' = [worker EXCEPT !.at = "store"]
  <2>1. worker'.at = "store" /\ worker'.fd = f /\ worker'.id = worker.id
    BY <1>2, <1>4, Zenon DEF RegistryType, RegistryTypeOK
  <2>2. /\ open' = open /\ active_ssl'[f] = worker.id
        /\ \A g \in Fd : g # f => active_ssl'[g] = active_ssl[g]
    BY <1>2, <1>4, Zenon DEF HandshakeDone, RegistryType, RegistryTypeOK
  <2>3. TableNamesOwnConnection'
    <3>. SUFFICES ASSUME NEW q \in Peer, peers[q].fd # NoFd, ~Removing(q)
                  PROVE  active_ssl'[peers[q].fd] = q
      BY <1>1, Zenon DEF TableNamesOwnConnection, Removing
    <3>1. peers[q].fd \in Fd /\ active_ssl[peers[q].fd] = q
      BY Zenon DEF ConnInv, TableNamesOwnConnection, Removing, RegistryType, RegistryTypeOK, PeerEntry
    <3>. QED  BY <1>3, <2>2, <3>1, Zenon
  <2>4. acceptor' # NoFd => active_ssl'[acceptor'] = Inbound
    BY <1>1, <1>3, <2>2, Zenon DEF ConnInv, RegistryType, RegistryTypeOK
  <2>5. sender.at # "idle" /\ ~sender.pruned => active_ssl'[sender.fd] = sender.id
    BY <1>3, <2>2, Zenon DEF ConnInv, RegistryType
  <2>6. ConnInv'
    BY <1>1, <1>2, <1>3, <2>1, <2>2, <2>3, <2>4, <2>5, Zenon
    DEF ConnInv, SendsUseOwnConnection, Removing
  <2>7. \A g \in Fd : active_ssl'[g] # NoSsl
          => \/ \E q \in Peer : peers'[q].fd = g /\ active_ssl'[g] = q
             \/ worker'.fd = g /\ worker'.at = "store"
             \/ acceptor' = g \/ g \in abandoned'
    BY <1>1, <2>1, <2>2, Zenon DEF LeakInv
  <2>8. \/ peers'[worker'.id].fd \in {NoFd, worker'.fd}
        \/ active_ssl'[peers'[worker'.id].fd] # worker'.id
    <3>1. peers[worker.id].fd \in Fd \cup {NoFd}
      BY <1>1, Zenon DEF RegistryType, RegistryTypeOK, PeerEntry
    <3>. QED  BY <1>1, <1>2, <2>1, <2>2, <3>1, Zenon DEF LeakInv
  <2>9. LeakInv'
    BY <1>1, <2>1, <2>7, <2>8, Zenon DEF LeakInv
  <2>. QED  BY <2>6, <2>9, Zenon
<1>5. CASE close(worker.fd) /\ worker' = WorkerIdle
  <2>1. worker'.at = "idle"
    BY <1>5, Zenon DEF WorkerIdle
  <2>2. /\ open' = open \ {f}
        /\ \A g \in Fd : active_ssl'[g] = active_ssl[g]
    BY <1>2, <1>3, <1>5, Zenon DEF close, RegistryType, RegistryTypeOK
  <2>3. TableNamesOwnConnection'
    BY <1>1, <2>2, Zenon
    DEF ConnInv, TableNamesOwnConnection, RegistryType, RegistryTypeOK, PeerEntry
  <2>4. acceptor' # NoFd => active_ssl'[acceptor'] = Inbound
    BY <1>1, <2>2, Zenon DEF ConnInv, RegistryType, RegistryTypeOK
  <2>5. sender.at # "idle" /\ ~sender.pruned => active_ssl'[sender.fd] = sender.id
    BY <2>2, Zenon DEF ConnInv, RegistryType
  <2>6. ConnInv'
    BY <1>1, <1>3, <2>1, <2>2, <2>3, <2>4, <2>5, Zenon DEF ConnInv, SendsUseOwnConnection
  <2>7. LeakInv'
    BY <1>1, <2>1, <2>2, Zenon DEF LeakInv
  <2>. QED  BY <2>6, <2>7, Zenon
<1>. QED  BY <1>4, <1>5, Zenon DEF Handshake

\* The connection goes into the entry of its peer, which has no other, or is
\* abandoned.
LEMMA StoreKeepsConn ==
  ASSUME RegistryType, ConnInv, LeakInv, StoreConnection
  PROVE  ConnInv' /\ LeakInv'
<1>1. /\ worker.at = "store" /\ UNCHANGED <<pruner, acceptor, sender, open, active_ssl>>
      /\ worker.id \in Peer /\ worker.fd \in Fd
      /\ set_peer_tls_fd(worker.id, worker.fd)
      /\ abandoned' = IF has_peer(worker.id) THEN abandoned ELSE abandoned \cup {worker.fd}
  BY Zenon DEF StoreConnection, RegistryType, transportVars
<1>2. TableType /\ worker'.at = "idle"
  BY Zenon DEF StoreConnection, WorkerIdle, RegistryType, RegistryTypeOK, TableType
<1>3. \A q \in Peer :
        /\ peers'[q].in = peers[q].in
        /\ peers'[q].fd = IF q = worker.id /\ peers[q].in THEN worker.fd ELSE peers[q].fd
  BY <1>1, <1>2, SetFdEffect, Zenon
<1>4. TableNamesOwnConnection'
  BY <1>1, <1>3, Zenon DEF ConnInv, TableNamesOwnConnection
<1>5. ConnInv'
  BY <1>1, <1>2, <1>4, Zenon DEF ConnInv, SendsUseOwnConnection
<1>6. \A f \in Fd : active_ssl[f] # NoSsl
        => \/ \E q \in Peer : peers'[q].fd = f /\ active_ssl[f] = q
           \/ acceptor = f \/ f \in abandoned'
  <2>. SUFFICES ASSUME NEW f \in Fd, active_ssl[f] # NoSsl
                PROVE  \/ \E q \in Peer : peers'[q].fd = f /\ active_ssl[f] = q
                       \/ acceptor = f \/ f \in abandoned'
    OBVIOUS
  <2>1. CASE worker.fd = f
    BY <1>1, <1>3, <2>1, Zenon DEF ConnInv, has_peer
  <2>2. ASSUME NEW q \in Peer, peers[q].fd = f, active_ssl[f] = q, worker.fd # f
        PROVE  peers'[q].fd = f
    <3>1. NoFd # f
      BY FdIsNumber, Zenon
    <3>2. q # worker.id
      BY <1>1, <2>2, <3>1, Zenon DEF LeakInv
    <3>. QED  BY <1>3, <2>2, <3>2, Zenon
  <2>. QED  BY <1>1, <2>1, <2>2, Zenon DEF LeakInv
<1>7. LeakInv'
  BY <1>1, <1>2, <1>3, <1>6, Zenon DEF LeakInv
<1>. QED  BY <1>5, <1>7, Zenon

\* An accepted connection has a new descriptor, and belongs to no peer.
LEMMA AcceptKeepsConn ==
  ASSUME RegistryType, ConnInv, LeakInv, AcceptConnection
  PROVE  ConnInv' /\ LeakInv'
<1>. USE PeerNames
<1>1. UNCHANGED <<peers, pruner, worker, sender, abandoned>> /\ acceptor = NoFd
  BY Zenon DEF AcceptConnection
<1>2. PICK f \in Fd : accept(f) /\ acceptor' = f
  BY Zenon DEF AcceptConnection
<1>3. /\ f \notin open /\ open' = open \cup {f} /\ active_ssl'[f] = Inbound
      /\ \A g \in Fd : g # f => active_ssl'[g] = active_ssl[g]
  BY <1>2 DEF accept, IsLowestFree, RegistryType, RegistryTypeOK
<1>4. active_ssl[f] = NoSsl /\ NoSsl # Inbound
  BY <1>3, Zenon DEF ConnInv
<1>5. TableNamesOwnConnection'
  <2>. SUFFICES ASSUME NEW q \in Peer, peers[q].fd # NoFd, ~Removing(q)
                PROVE  active_ssl'[peers[q].fd] = q
    BY <1>1, Zenon DEF TableNamesOwnConnection, Removing
  <2>1. peers[q].fd \in Fd /\ active_ssl[peers[q].fd] = q
    BY Zenon DEF ConnInv, TableNamesOwnConnection, Removing, RegistryType, RegistryTypeOK, PeerEntry
  <2>. QED  BY <1>3, <1>4, <2>1, Zenon
<1>6. /\ worker.at = "handshake" => worker.fd \in open' /\ active_ssl'[worker.fd] = NoSsl
      /\ worker.at = "store" => active_ssl'[worker.fd] = worker.id
  BY <1>3, <1>4, Zenon DEF ConnInv, RegistryType
<1>7. sender.at # "idle" /\ ~sender.pruned => active_ssl'[sender.fd] = sender.id
  BY <1>3, <1>4, Zenon DEF ConnInv, RegistryType
<1>8. ConnInv'
  BY <1>1, <1>2, <1>3, <1>5, <1>6, <1>7, Zenon DEF ConnInv, SendsUseOwnConnection, Removing
<1>9. \A g \in Fd : active_ssl'[g] # NoSsl
        => \/ \E q \in Peer : peers'[q].fd = g /\ active_ssl'[g] = q
           \/ worker'.fd = g /\ worker'.at = "store"
           \/ acceptor' = g \/ g \in abandoned'
  <2>1. NoFd \notin Fd
    BY FdIsNumber, Zenon
  <2>. QED  BY <1>1, <1>2, <1>3, <2>1, Zenon DEF LeakInv
<1>10. worker.at # "idle"
         => \/ peers[worker.id].fd \in {NoFd, worker.fd}
            \/ active_ssl'[peers[worker.id].fd] # worker.id
  <2>1. worker.at # "idle" => worker.id \in Peer /\ peers[worker.id].fd \in Fd \cup {NoFd}
    BY Zenon DEF RegistryType, RegistryTypeOK, PeerEntry
  <2>. QED  BY <1>3, <2>1, Zenon DEF LeakInv
<1>11. LeakInv'
  BY <1>1, <1>9, <1>10, Zenon DEF LeakInv
<1>. QED  BY <1>8, <1>11, Zenon

\* Closing it closes no peer's connection.
LEMMA RejectKeepsConn ==
  ASSUME RegistryType, ConnInv, LeakInv, RejectConnection
  PROVE  ConnInv' /\ LeakInv'
<1>. USE PeerNames
<1>1. UNCHANGED <<peers, pruner, worker, abandoned>> /\ acceptor # NoFd /\ acceptor' = NoFd
  BY Zenon DEF RejectConnection
<1>2. PICK f \in Fd : f = acceptor
  BY <1>1, Zenon DEF RegistryType, RegistryTypeOK
<1>3. active_ssl[f] = Inbound /\ Inbound # NoSsl
  BY <1>1, <1>2, Zenon DEF ConnInv
<1>4. /\ open' = open \ {f} /\ active_ssl'[f] = NoSsl
      /\ \A g \in Fd : g # f => active_ssl'[g] = active_ssl[g]
  BY <1>2, Zenon DEF RejectConnection, close, RegistryType, RegistryTypeOK
<1>5. /\ sender'.at = sender.at /\ sender'.id = sender.id /\ sender'.fd = sender.fd
      /\ sender'.ssl = sender.ssl
      /\ ~sender'.pruned => ~sender.pruned
      /\ sender'.freed => sender.freed \/ (sender.at = "write" /\ sender.fd = f)
  BY <1>2, Zenon DEF RejectConnection, SenderAfterClose, RegistryType, RegistryTypeOK
<1>6. TableNamesOwnConnection'
  <2>. SUFFICES ASSUME NEW q \in Peer, peers[q].fd # NoFd, ~Removing(q)
                PROVE  active_ssl'[peers[q].fd] = q
    BY <1>1, Zenon DEF TableNamesOwnConnection, Removing
  <2>1. peers[q].fd \in Fd /\ active_ssl[peers[q].fd] = q
    BY Zenon DEF ConnInv, TableNamesOwnConnection, Removing, RegistryType, RegistryTypeOK, PeerEntry
  <2>. QED  BY <1>3, <1>4, <2>1, Zenon
<1>7. /\ worker.at = "handshake" => worker.fd \in open' /\ active_ssl'[worker.fd] = NoSsl
      /\ worker.at = "store" => active_ssl'[worker.fd] = worker.id
  BY <1>3, <1>4, Zenon DEF ConnInv, RegistryType
<1>8. sender.at # "idle" /\ ~sender.pruned
        => sender.fd \in Fd /\ sender.fd # f /\ active_ssl'[sender.fd] = sender.id
  BY <1>3, <1>4, Zenon DEF ConnInv, RegistryType
<1>9. SendsUseOwnConnection'
  BY <1>5, <1>8, Zenon DEF ConnInv, SendsUseOwnConnection
<1>10. \A g \in Fd : active_ssl'[g] # NoSsl => g \in open'
  BY <1>4, Zenon DEF ConnInv
<1>11. ConnInv'
  BY <1>1, <1>5, <1>6, <1>7, <1>8, <1>9, <1>10, Zenon DEF ConnInv, Removing
<1>12. \A g \in Fd : active_ssl'[g] # NoSsl
        => \/ \E q \in Peer : peers'[q].fd = g /\ active_ssl'[g] = q
           \/ worker'.fd = g /\ worker'.at = "store"
           \/ acceptor' = g \/ g \in abandoned'
  BY <1>1, <1>2, <1>4, Zenon DEF LeakInv
<1>13. worker.at # "idle"
         => \/ peers[worker.id].fd \in {NoFd, worker.fd}
            \/ active_ssl'[peers[worker.id].fd] # worker.id
  <2>1. worker.at # "idle" => worker.id \in Peer /\ peers[worker.id].fd \in Fd \cup {NoFd}
    BY Zenon DEF RegistryType, RegistryTypeOK, PeerEntry
  <2>. QED  BY <1>4, <2>1, Zenon DEF LeakInv
<1>14. LeakInv'
  BY <1>1, <1>12, <1>13, Zenon DEF LeakInv
<1>. QED  BY <1>11, <1>14, Zenon

\* A sender reads the descriptor of an entry, which is the peer's own connection
\* unless the entry is being removed, and finds that connection's SSL object.
LEMMA SenderKeepsConn ==
  ASSUME RegistryType, ConnInv, LeakInv,
         LookUpSsl \/ (\E p \in Peer : PickDescriptor(p))
  PROVE  ConnInv' /\ LeakInv'
<1>1. UNCHANGED <<peers, pruner, worker, acceptor, abandoned, open, active_ssl>>
  BY Zenon DEF LookUpSsl, PickDescriptor, transportVars
<1>2. /\ sender'.at # "idle" /\ ~sender'.pruned => active_ssl[sender'.fd] = sender'.id
      /\ sender'.at = "write" /\ ~sender'.pruned => sender'.ssl = sender'.id /\ ~sender'.freed
  <2>1. CASE LookUpSsl
    <3>1. /\ sender.at = "lookup" /\ sender'.at = "write" /\ sender'.ssl = active_ssl[sender.fd]
          /\ sender'.fd = sender.fd /\ sender'.id = sender.id
          /\ sender'.pruned = sender.pruned /\ sender'.freed = sender.freed
      BY <2>1, Zenon DEF LookUpSsl, RegistryType, RegistryTypeOK
    <3>. QED  BY <3>1, Zenon DEF ConnInv
  <2>2. ASSUME NEW p \in Peer, PickDescriptor(p)
        PROVE  sender'.at = "lookup" /\ (~sender'.pruned => active_ssl[sender'.fd] = sender'.id)
    <3>1. /\ sender'.at = "lookup" /\ sender'.fd = peers[p].fd /\ sender'.id = p
          /\ ~sender'.pruned => ~(pruner.at = "remove" /\ pruner.id = p)
          /\ peers[p].fd # NoFd
      BY <2>2, Zenon DEF PickDescriptor, SenderIdle
    <3>. QED  BY <3>1, Zenon DEF ConnInv, TableNamesOwnConnection
  <2>. QED  BY <2>1, <2>2, Zenon
<1>3. sender'.at = "lookup" => ~sender'.freed
  <2>1. CASE LookUpSsl
    <3>1. sender'.at = "write"
      BY <2>1, Zenon DEF LookUpSsl, RegistryType, RegistryTypeOK
    <3>. QED  BY <3>1, Zenon
  <2>2. ASSUME NEW p \in Peer, PickDescriptor(p) PROVE ~sender'.freed
    BY <2>2, Zenon DEF PickDescriptor, SenderIdle
  <2>. QED  BY <2>1, <2>2, Zenon
<1>4. ConnInv'
  BY <1>1, <1>2, <1>3, Zenon DEF ConnInv, TableNamesOwnConnection, SendsUseOwnConnection, Removing
<1>5. LeakInv'
  BY <1>1, Zenon DEF LeakInv
<1>. QED  BY <1>4, <1>5, Zenon

\* A failed send abandons the descriptor of the entry.
LEMMA WriteKeepsConn ==
  ASSUME RegistryType, ConnInv, LeakInv, WriteMessage
  PROVE  ConnInv' /\ LeakInv'
<1>1. /\ UNCHANGED <<pruner, worker, acceptor, open, active_ssl>>
      /\ sender.id \in Peer /\ TableType
  BY Zenon DEF WriteMessage, transportVars, RegistryType, RegistryTypeOK, TableType
<1>2. sender'.at = "idle"
  BY Zenon DEF WriteMessage, SenderIdle
<1>3. CASE UNCHANGED <<peers, abandoned>>
  <2>1. ConnInv'
    BY <1>1, <1>2, <1>3, Zenon DEF ConnInv, TableNamesOwnConnection, SendsUseOwnConnection, Removing
  <2>2. LeakInv'
    BY <1>1, <1>3, Zenon DEF LeakInv
  <2>. QED  BY <2>1, <2>2, Zenon
<1>4. CASE /\ set_peer_tls_fd(sender.id, NoFd)
           /\ abandoned' = abandoned \cup {f \in Fd : peers[sender.id].fd = f}
  <2>1. \A q \in Peer : /\ peers'[q].in = peers[q].in
                        /\ peers'[q].fd = peers[q].fd \/ (q = sender.id /\ peers'[q].fd = NoFd)
    BY <1>1, <1>4, SetFdEffect, Zenon
  <2>2. NoFd \notin Fd
    BY FdIsNumber, Zenon
  <2>3. ConnInv'
    BY <1>1, <1>2, <2>1, <2>2, Zenon
    DEF ConnInv, TableNamesOwnConnection, SendsUseOwnConnection, Removing, RegistryType
  <2>4. \A g \in Fd : active_ssl'[g] # NoSsl
          => \/ \E q \in Peer : peers'[q].fd = g /\ active_ssl'[g] = q
             \/ worker'.fd = g /\ worker'.at = "store"
             \/ acceptor' = g \/ g \in abandoned'
    BY <1>1, <1>4, <2>1, Zenon DEF LeakInv
  <2>5. worker'.at # "idle"
          => \/ peers'[worker'.id].fd \in {NoFd, worker'.fd}
             \/ active_ssl'[peers'[worker'.id].fd] # worker'.id
    BY <1>1, <2>1, Zenon DEF LeakInv, RegistryType
  <2>6. LeakInv'
    BY <1>1, <2>1, <2>4, <2>5, Zenon DEF LeakInv
  <2>. QED  BY <2>3, <2>6, Zenon
<1>. QED  BY <1>3, <1>4, Zenon DEF WriteMessage

\* Every step keeps both invariants.
LEMMA ConnNext ==
  ASSUME RegistryType, ConnInv, LeakInv, [RegistryNext]_registryVars
  PROVE  ConnInv' /\ LeakInv'
<1>. USE DEF engineVars, historyVars, tlsVars, transportVars
<1>0. TableType
  BY Zenon DEF RegistryType, RegistryTypeOK, TableType
<1>1. CASE ListenerNext \/ TcpLearnsPeer
  <2>1. UNCHANGED <<open, active_ssl, worker, acceptor, sender, abandoned, pruner>>
    BY <1>1, Zenon DEF ListenerNext, ReceiveBeacon, ReceiveAnnounce, AddSender, ConfirmPath,
                RefreshHeartbeat, RegisterKey, CountPeer, PexHandshake, QueueConnection,
                TcpLearnsPeer
  <2>2. \A q \in Peer :
            \/ peers'[q].fd = peers[q].fd /\ peers'[q].in = peers[q].in
            \/ ~peers[q].in /\ peers'[q].fd = NoFd
    <3>1. CASE UNCHANGED peers
      BY <3>1, Zenon
    <3>2. CASE \E x \in traffic.pex : add_peer(x, NoKey, TRUE)
      BY <3>2, ListedEffect, Zenon
    <3>3. CASE AddSender
      <4>1. listener.msg.peer \in Peer /\ listener.msg.key \in Key
        BY <3>3, Zenon DEF AddSender, RegistryType, RegistryTypeOK, Message
      <4>. QED  BY <1>0, <3>3, <4>1, AddPeerEffect DEF AddSender
    <3>4. CASE ConfirmPath
      <4>1. PICK m : m = listener.msg
        OBVIOUS
      <4>2. m.peer \in Peer /\ m.path \in Path /\ m.key \in Key
        BY <3>4, <4>1, Zenon DEF ConfirmPath, RegistryType, RegistryTypeOK, Message
      <4>3. \/ UNCHANGED peers
            \/ /\ has_peer(m.peer)
               /\ peers' = [peers EXCEPT ![m.peer].paths = @ \cup {m.path},
                                         ![m.peer].key = IF @ = NoKey THEN m.key ELSE @]
        BY <3>4, <4>1, Zenon DEF ConfirmPath, confirm_path
      <4>. QED  BY <1>0, <4>2, <4>3, ConfirmEffect, Zenon
    <3>5. CASE RefreshHeartbeat
      <4>1. listener.msg.peer \in Peer /\ listener.msg.key \in Key
        BY <3>5, Zenon DEF RefreshHeartbeat, RegistryType, RegistryTypeOK, Message
      <4>2. UNCHANGED peers \/ update_peer_heartbeat(listener.msg.peer, listener.msg.key)
        BY <3>5, Zenon DEF RefreshHeartbeat
      <4>. QED  BY <1>0, <4>1, <4>2, HeartbeatEffect, Zenon
    <3>. QED
      BY <1>1, <3>1, <3>2, <3>3, <3>4, <3>5, Zenon
      DEF ListenerNext, ReceiveBeacon, ReceiveAnnounce, RegisterKey, CountPeer, PexHandshake,
          QueueConnection, TcpLearnsPeer
  <2>. QED  BY <2>1, <2>2, ConnFrame, Zenon
<1>2. CASE ListStale \/ PruneStale
  <2>1. UNCHANGED <<peers, open, active_ssl, worker, acceptor, sender, abandoned>>
    BY <1>2, Zenon DEF ListStale, PruneStale
  <2>2. pruner.at # "remove"
    BY <1>2, Zenon DEF ListStale, PruneStale
  <2>. QED  BY <2>1, <2>2, ConnFrame, Zenon
<1>3. ASSUME NEW p \in Peer, Age(p) \/ UnpinPeer(p) PROVE ConnInv' /\ LeakInv'
  <2>1. UNCHANGED <<open, active_ssl, worker, acceptor, sender, abandoned, pruner>>
    BY <1>3, Zenon DEF Age, UnpinPeer
  <2>2. \A q \in Peer : peers'[q].fd = peers[q].fd /\ peers'[q].in = peers[q].in
    BY <1>0, <1>3, AgeEffect, UnpinEffect, Zenon DEF UnpinPeer
  <2>. QED  BY <2>1, <2>2, ConnFrame, Zenon
<1>4. CASE UNCHANGED registryVars
  <2>1. UNCHANGED <<peers, open, active_ssl, worker, acceptor, sender, abandoned, pruner>>
    BY <1>4, Zenon DEF registryVars
  <2>. QED  BY <2>1, ConnFrame, Zenon
<1>5. CASE RemoveStale \/ \E p \in Peer : CloseStale(p)
  BY <1>5, RemoveKeepsConn, CloseKeepsConn, Zenon
<1>6. CASE TlsNext
  BY <1>6, TakeKeepsConn, ConnectKeepsConn, HandshakeKeepsConn, StoreKeepsConn,
     AcceptKeepsConn, RejectKeepsConn, SenderKeepsConn, WriteKeepsConn, Zenon
  DEF TlsNext
<1>. QED
  BY <1>1, <1>2, <1>3, <1>4, <1>5, <1>6, Zenon DEF RegistryNext, PrunerNext

\* The three invariants hold together in every behaviour.
LEMMA ConnectionInvariant == RegistrySpec => [](RegistryType /\ ConnInv /\ LeakInv)
<1>1. RegistryInit => RegistryType /\ ConnInv /\ LeakInv
  BY TypeInit, ConnInit, Zenon
<1>2. RegistryType /\ ConnInv /\ LeakInv /\ [RegistryNext]_registryVars
        => (RegistryType /\ ConnInv /\ LeakInv)'
  BY TypeNext, ConnNext, Zenon
<1>. QED  BY <1>1, <1>2, PTL DEF RegistrySpec

\* TableNamesOwnConnection holds in every behaviour: although descriptor numbers
\* are reused, a peer's entry names its own connection, but for the window of
\* the pruner that the property names.
THEOREM ConnectionsAreOwn == RegistrySpec => []TableNamesOwnConnection
<1>1. ConnInv => TableNamesOwnConnection
  BY Zenon DEF ConnInv
<1>. QED  BY <1>1, ConnectionInvariant, PTL

\* SendsUseOwnConnection holds in every behaviour: a vote is written to the
\* connection of the peer it is meant for, unless that peer was pruned since
\* the sender read its descriptor.
THEOREM VotesReachTheirPeer == RegistrySpec => []SendsUseOwnConnection
<1>1. ConnInv => SendsUseOwnConnection
  BY Zenon DEF ConnInv
<1>. QED  BY <1>1, ConnectionInvariant, PTL

\* LeaksHaveCause holds in every behaviour: a connection that nobody names any
\* more went through one of the three steps that abandon it.
THEOREM LeaksAreAccounted == RegistrySpec => []LeaksHaveCause
<1>1. LeakInv => LeaksHaveCause
  BY Zenon DEF LeakInv, LeaksHaveCause
<1>. QED  BY <1>1, ConnectionInvariant, PTL

-----------------------------------------------------------------------------
(* The key store.                                                          *)

Busy == {"open", "write", "rename"}

\* Type invariant.
KeyTypeOK ==
    /\ file \in [Name -> Int] /\ tmp \in Int
    /\ storing \in [name : Name \cup {"none"}, value : Int]
    /\ stage \in Busy \cup {"down", "load", "tls", "certify", "context", "up"}
    /\ identity \in Int /\ tls_key \in Int
    /\ generated \in Nat
    /\ reported \subseteq Name /\ unread \in BOOLEAN

\* A file that is being written has a name and a key, and reaches its rename
\* whole.
StoringInv ==
    /\ stage \in Busy => storing.name \in Name /\ storing.value > Absent
    /\ stage = "rename" => tmp = storing.value

\* The constructor has the identity behind it.
PastIdentity ==
    \/ stage \in {"tls", "certify", "context", "up"}
    \/ stage \in Busy /\ storing.name # "identity"

\* Unless one of the exceptions happened, what the node runs with is the
\* identity in the file, and it has not run before there was one.
IdentityInv ==
    "identity" \in reported \/ unread
    \/ /\ file["identity"] >= Absent
       /\ announced \subseteq {file["identity"]}
       /\ announced # {} => file["identity"] > Absent
       /\ PastIdentity => identity = file["identity"] /\ identity > Absent
       /\ stage \in Busy /\ storing.name = "identity"
            => file["identity"] = Absent /\ storing.value = identity

\* Unless a store failed, both TLS files are of this start when they are read.
TlsInv ==
    /\ stage = "certify" \/ (stage \in Busy /\ storing.name = "tls_cert")
         => tls_key > Absent /\ ("tls_key" \in reported \/ file["tls_key"] = tls_key)
    /\ stage \in Busy /\ storing.name \in {"tls_key", "tls_cert"} => storing.value = tls_key
    /\ stage = "context" /\ reported \cap {"tls_key", "tls_cert"} = {}
         => tls_key > Absent /\ file["tls_key"] = tls_key /\ file["tls_cert"] = tls_key
    /\ TlsPairMatches

KeyFilesInv == KeyTypeOK /\ StoringInv /\ IdentityInv /\ TlsInv

\* It holds initially: there are no files.
LEMMA KeyFilesInit == KeyStoreInit => KeyFilesInv
<1>. SUFFICES ASSUME KeyStoreInit PROVE KeyFilesInv
  OBVIOUS
<1>1. KeyTypeOK
  <2>1. [x \in Name |-> Absent] \in [Name -> Int] /\ Absent \in Int /\ 0 \in Nat
    BY DEF Absent
  <2>2. NotStoring \in [name : Name \cup {"none"}, value : Int]
    BY DEF NotStoring, Absent
  <2>. QED  BY <2>1, <2>2, Zenon DEF KeyStoreInit, KeyTypeOK
<1>2. StoringInv
  BY Zenon DEF KeyStoreInit, StoringInv, Busy
<1>3. IdentityInv
  BY DEF KeyStoreInit, IdentityInv, PastIdentity, Busy, Name, Absent
<1>4. TlsInv
  BY Zenon DEF KeyStoreInit, TlsInv, TlsPairMatches, Busy
<1>. QED  BY <1>1, <1>2, <1>3, <1>4, Zenon DEF KeyFilesInv

\* The return of store_* leads to the next stage of the constructor.
LEMMA ReturnStage ==
  ASSUME storing.name \in Name, Return
  PROVE  /\ storing' = NotStoring /\ tmp' = Absent
         /\ storing.name = "identity" => stage' = "tls"
         /\ storing.name = "tls_key" => stage' = "certify"
         /\ storing.name = "tls_cert" => stage' = "context"
BY Zenon DEF Return, Name

\* A store that failed.
LEMMA ReturnFalseKeepsInv ==
  ASSUME KeyFilesInv, stage \in Busy, ReturnFalse
  PROVE  KeyFilesInv'
<1>1. storing.name \in Name /\ Return
  BY Zenon DEF KeyFilesInv, StoringInv, ReturnFalse
<1>2. /\ reported' = reported \cup {storing.name}
      /\ UNCHANGED <<file, identity, tls_key, pair, generated, announced, unread>>
  BY Zenon DEF ReturnFalse
<1>3. storing.name \in {"identity", "tls_key", "tls_cert"}
  BY <1>1, Zenon DEF Name
<1>4. KeyTypeOK'
  <2>1. /\ stage' \in {"tls", "certify", "context"} /\ storing' = NotStoring /\ tmp' = Absent
    BY <1>1, <1>3, ReturnStage, Zenon
  <2>2. NotStoring \in [name : Name \cup {"none"}, value : Int] /\ Absent \in Int
    BY DEF NotStoring, Absent
  <2>3. reported' \subseteq Name
    BY <1>1, <1>2, Zenon DEF KeyFilesInv, KeyTypeOK
  <2>. QED  BY <1>2, <2>1, <2>2, <2>3, Zenon DEF KeyFilesInv, KeyTypeOK
<1>5. StoringInv'
  BY <1>1, <1>3, ReturnStage, Zenon DEF StoringInv, Busy
<1>6. IdentityInv'
  BY <1>1, <1>2, <1>3, ReturnStage, Zenon
     DEF KeyFilesInv, IdentityInv, PastIdentity, Busy, KeyTypeOK
<1>7. TlsInv'
  BY <1>1, <1>2, <1>3, ReturnStage, Zenon
     DEF KeyFilesInv, StoringInv, TlsInv, TlsPairMatches, Busy, KeyTypeOK
<1>. QED  BY <1>4, <1>5, <1>6, <1>7, Zenon DEF KeyFilesInv

\* The steps before a file is written.
LEMMA StartKeepsInv == ASSUME KeyFilesInv, Start PROVE KeyFilesInv'
<1>1. KeyTypeOK'
  BY DEF KeyFilesInv, KeyTypeOK, Start, Absent
<1>2. StoringInv'
  BY Zenon DEF StoringInv, Start, Busy
<1>3. IdentityInv'
  BY Zenon DEF KeyFilesInv, IdentityInv, PastIdentity, Start, Busy
<1>4. TlsInv'
  BY Zenon DEF TlsInv, TlsPairMatches, Start, Busy
<1>. QED  BY <1>1, <1>2, <1>3, <1>4, Zenon DEF KeyFilesInv

\* A new identity is made only while there is none in the file.
LEMMA LoadKeepsInv == ASSUME KeyFilesInv, LoadIdentity PROVE KeyFilesInv'
<1>. PICK opened \in BOOLEAN :
          /\ unread' = (unread \/ (~opened /\ file["identity"] # Absent))
          /\ \/ /\ opened /\ Loaded("identity") # Absent
                /\ identity' = Loaded("identity") /\ stage' = "tls"
                /\ UNCHANGED <<storing, generated, reported>>
             \/ /\ ~(opened /\ Loaded("identity") # Absent)
                /\ generated' = generated + 1 /\ identity' = generated + 1
                /\ \/ /\ storing' = [name |-> "identity", value |-> generated + 1]
                      /\ stage' = "open" /\ UNCHANGED reported
                   \/ reported' = reported \cup {"identity"} /\ stage' = "tls" /\ UNCHANGED storing
  BY Zenon DEF LoadIdentity, store_key
<1>0. /\ UNCHANGED <<file, tmp, tls_key, pair, announced>> /\ stage = "load"
      /\ file["identity"] \in Int /\ generated \in Nat
  BY Zenon DEF LoadIdentity, KeyFilesInv, KeyTypeOK, Name
<1>1. KeyTypeOK'
  <2>1. generated + 1 \in Nat /\ generated + 1 \in Int /\ Loaded("identity") \in Int
    BY <1>0 DEF Loaded, Absent
  <2>2. [name |-> "identity", value |-> generated + 1] \in [name : Name \cup {"none"}, value : Int]
    BY <2>1, Zenon DEF Name
  <2>3. "identity" \in Name
    BY Zenon DEF Name
  <2>. QED  BY <1>0, <2>1, <2>2, <2>3, Zenon DEF KeyFilesInv, KeyTypeOK, Busy
<1>2. StoringInv'
  BY <1>0 DEF StoringInv, Busy, Name, Absent
<1>3. IdentityInv'
  <2>. SUFFICES ASSUME ~("identity" \in reported'), ~unread' PROVE IdentityInv'
    BY Zenon DEF IdentityInv
  <2>1. "identity" \notin reported /\ ~unread /\ (opened \/ file["identity"] = Absent)
    BY Zenon
  <2>2. /\ file["identity"] >= Absent /\ announced \subseteq {file["identity"]}
        /\ announced # {} => file["identity"] > Absent
    BY <2>1, Zenon DEF KeyFilesInv, IdentityInv
  <2>3. CASE opened /\ Loaded("identity") # Absent
    <3>1. identity' = file["identity"] /\ file["identity"] > Absent /\ stage' = "tls"
      BY <2>3, <1>0, Zenon DEF Loaded
    <3>. QED  BY <1>0, <2>2, <3>1, Zenon DEF IdentityInv, PastIdentity, Busy
  <2>4. CASE ~(opened /\ Loaded("identity") # Absent)
    <3>1. file["identity"] = Absent /\ identity' = generated + 1 /\ stage' = "open"
          /\ storing' = [name |-> "identity", value |-> generated + 1]
      BY <1>0, <2>1, <2>2, <2>4 DEF Loaded, Absent
    <3>. QED  BY <1>0, <2>2, <3>1, Zenon DEF IdentityInv, PastIdentity, Busy, Absent
  <2>. QED  BY <2>3, <2>4, Zenon
<1>4. TlsInv'
  <2>1. \A x : x \in reported => x \in reported'
    OBVIOUS
  <2>2. stage' \notin {"certify", "context"}
    OBVIOUS
  <2>3. ~(stage' \in Busy /\ storing.name' \in {"tls_key", "tls_cert"})
    BY <1>0 DEF Busy
  <2>4. TlsPairMatches'
    BY <1>0, <2>1, Zenon DEF KeyFilesInv, TlsInv, TlsPairMatches
  <2>. QED  BY <2>2, <2>3, <2>4, Zenon DEF TlsInv
<1>. QED  BY <1>1, <1>2, <1>3, <1>4, Zenon DEF KeyFilesInv

\* A TLS key is new and is about to be stored.
LEMMA GenerateKeepsInv == ASSUME KeyFilesInv, generate_key PROVE KeyFilesInv'
<1>1. KeyTypeOK'
  <2>1. generated + 1 \in Nat /\ generated + 1 \in Int
    BY DEF KeyFilesInv, KeyTypeOK
  <2>2. [name |-> "tls_key", value |-> generated + 1] \in [name : Name \cup {"none"}, value : Int]
    BY <2>1, Zenon DEF Name
  <2>. QED  BY <2>1, <2>2, Zenon DEF KeyFilesInv, KeyTypeOK, generate_key, store_key, Busy
<1>2. StoringInv'
  BY DEF KeyFilesInv, KeyTypeOK, StoringInv, generate_key, store_key, Busy, Name, Absent
<1>3. IdentityInv'
  BY Zenon DEF KeyFilesInv, IdentityInv, PastIdentity, generate_key, store_key, Busy
<1>4. TlsInv'
  BY Zenon DEF KeyFilesInv, KeyTypeOK, TlsInv, TlsPairMatches, generate_key, store_key, Busy, Absent
<1>. QED  BY <1>1, <1>2, <1>3, <1>4, Zenon DEF KeyFilesInv

\* The steps of store_*.
LEMMA OpenKeepsInv == ASSUME KeyFilesInv, OpenTmp PROVE KeyFilesInv'
<1>1. CASE ReturnFalse
  BY <1>1, ReturnFalseKeepsInv, Zenon DEF OpenTmp, Busy
<1>2. CASE ~ReturnFalse
  <2>1. /\ stage = "open" /\ tmp' = Torn /\ stage' = "write" /\ Torn \in Int
        /\ UNCHANGED <<file, storing, identity, tls_key, pair, generated, announced,
                       reported, unread>>
    BY <1>2 DEF OpenTmp, Torn
  <2>2. KeyTypeOK'
    BY <2>1, Zenon DEF KeyFilesInv, KeyTypeOK, Busy
  <2>3. StoringInv'
    BY <2>1, Zenon DEF KeyFilesInv, StoringInv, Busy
  <2>4. IdentityInv'
    BY <2>1, Zenon DEF KeyFilesInv, IdentityInv, PastIdentity, Busy
  <2>5. TlsInv'
    BY <2>1, Zenon DEF KeyFilesInv, TlsInv, TlsPairMatches, Busy
  <2>. QED  BY <2>2, <2>3, <2>4, <2>5, Zenon DEF KeyFilesInv
<1>. QED  BY <1>1, <1>2, Zenon

\* A write that succeeds leaves the whole key in the temporary file.
LEMMA WriteKeepsInv == ASSUME KeyFilesInv, WriteTmp PROVE KeyFilesInv'
<1>1. CASE ReturnFalse
  BY <1>1, ReturnFalseKeepsInv, Zenon DEF WriteTmp, Busy
<1>2. CASE ~ReturnFalse
  <2>1. /\ stage = "write" /\ tmp' = storing.value /\ stage' = "rename"
        /\ UNCHANGED <<file, storing, identity, tls_key, pair, generated, announced,
                       reported, unread>>
    BY <1>2, Zenon DEF WriteTmp
  <2>2. KeyTypeOK'
    BY <2>1, Zenon DEF KeyFilesInv, KeyTypeOK, Busy
  <2>3. StoringInv'
    BY <2>1, Zenon DEF KeyFilesInv, StoringInv, Busy
  <2>4. IdentityInv'
    BY <2>1, Zenon DEF KeyFilesInv, IdentityInv, PastIdentity, Busy
  <2>5. TlsInv'
    BY <2>1, Zenon DEF KeyFilesInv, TlsInv, TlsPairMatches, Busy
  <2>. QED  BY <2>2, <2>3, <2>4, <2>5, Zenon DEF KeyFilesInv
<1>. QED  BY <1>1, <1>2, Zenon

\* A rename replaces the file by what was to be stored.
LEMMA RenameKeepsInv == ASSUME KeyFilesInv, Rename PROVE KeyFilesInv'
<1>1. CASE ReturnFalse
  BY <1>1, ReturnFalseKeepsInv, Zenon DEF Rename, Busy
<1>2. CASE ~ReturnFalse
  <2>1. /\ stage = "rename" /\ file' = [file EXCEPT ![storing.name] = tmp] /\ Return
        /\ UNCHANGED <<identity, tls_key, pair, generated, announced, reported, unread>>
    BY <1>2, Zenon DEF Rename
  <2>2. storing.name \in Name /\ tmp = storing.value /\ tmp > Absent
    BY <2>1, Zenon DEF KeyFilesInv, StoringInv, Busy
  <2>3. storing.name \in {"identity", "tls_key", "tls_cert"}
    BY <2>2, Zenon DEF Name
  <2>4. /\ storing' = NotStoring /\ tmp' = Absent
        /\ storing.name = "identity" => stage' = "tls"
        /\ storing.name = "tls_key" => stage' = "certify"
        /\ storing.name = "tls_cert" => stage' = "context"
    BY <2>1, <2>2, ReturnStage, Zenon
  <2>5. KeyTypeOK'
    <3>1. NotStoring \in [name : Name \cup {"none"}, value : Int] /\ Absent \in Int
      BY DEF NotStoring, Absent
    <3>2. file' \in [Name -> Int]
      BY <2>1, Zenon DEF KeyFilesInv, KeyTypeOK
    <3>3. stage' \in {"tls", "certify", "context"}
      BY <2>3, <2>4, Zenon
    <3>. QED  BY <2>1, <2>4, <3>1, <3>2, <3>3, Zenon DEF KeyFilesInv, KeyTypeOK
  <2>6. StoringInv'
    BY <2>3, <2>4, Zenon DEF StoringInv, Busy
  <2>7. \A x \in Name : file'[x] = IF x = storing.name THEN tmp ELSE file[x]
    BY <2>1, Zenon DEF KeyFilesInv, KeyTypeOK
  <2>8. IdentityInv'
    <3>1. /\ storing.name = "identity" => file'["identity"] = storing.value
          /\ storing.name # "identity" => file'["identity"] = file["identity"]
      BY <2>2, <2>7, Zenon DEF Name
    <3>. QED
      BY <2>1, <2>2, <2>3, <2>4, <3>1
         DEF KeyFilesInv, KeyTypeOK, IdentityInv, PastIdentity, Busy, Absent
  <2>9. TlsInv'
    <3>1. /\ storing.name = "tls_key" => file'["tls_key"] = storing.value
          /\ storing.name = "tls_cert" => file'["tls_cert"] = storing.value
          /\ storing.name # "tls_key" => file'["tls_key"] = file["tls_key"]
      BY <2>2, <2>7, Zenon DEF Name
    <3>. QED
      BY <2>1, <2>2, <2>3, <2>4, <3>1, Zenon
         DEF KeyFilesInv, TlsInv, TlsPairMatches, Busy
  <2>. QED  BY <2>5, <2>6, <2>8, <2>9, Zenon DEF KeyFilesInv
<1>. QED  BY <1>1, <1>2, Zenon

\* The steps after the files are written.
LEMMA CertifyKeepsInv == ASSUME KeyFilesInv, generate_certificate PROVE KeyFilesInv'
<1>0. /\ stage = "certify"
      /\ \/ /\ storing' = [name |-> "tls_cert", value |-> tls_key] /\ stage' = "open"
            /\ announced' = announced
         \/ stage' = "up" /\ UNCHANGED storing /\ announced' = announced \cup {identity}
      /\ UNCHANGED <<file, tmp, identity, tls_key, pair, generated, reported, unread>>
  BY Zenon DEF generate_certificate, store_certificate
<1>1. KeyTypeOK'
  <2>1. [name |-> "tls_cert", value |-> tls_key] \in [name : Name \cup {"none"}, value : Int]
    BY Zenon DEF KeyFilesInv, KeyTypeOK, Name
  <2>. QED  BY <1>0, <2>1, Zenon DEF KeyFilesInv, KeyTypeOK, Busy
<1>2. StoringInv'
  BY <1>0 DEF KeyFilesInv, TlsInv, StoringInv, Busy, Name
<1>3. IdentityInv'
  BY <1>0 DEF KeyFilesInv, IdentityInv, PastIdentity, Busy
<1>4. TlsInv'
  BY <1>0 DEF KeyFilesInv, TlsInv, TlsPairMatches, Busy
<1>. QED  BY <1>1, <1>2, <1>3, <1>4, Zenon DEF KeyFilesInv

\* The pair is read from two files of this start.
LEMMA ContextKeepsInv == ASSUME KeyFilesInv, TLSContext PROVE KeyFilesInv'
<1>0. /\ stage = "context" /\ stage' = "up"
      /\ announced' = announced \cup {identity}
      /\ UNCHANGED <<file, tmp, storing, identity, tls_key, generated, reported, unread>>
  BY Zenon DEF TLSContext
<1>1. KeyTypeOK'
  BY <1>0, Zenon DEF KeyFilesInv, KeyTypeOK
<1>2. StoringInv'
  BY <1>0, Zenon DEF StoringInv, Busy
<1>3. IdentityInv'
  BY <1>0, Zenon DEF KeyFilesInv, IdentityInv, PastIdentity, Busy
<1>4. TlsPairMatches'
  <2>. SUFFICES ASSUME pair' # <<>>, reported \cap {"tls_key", "tls_cert"} = {}
                PROVE  pair'[1] # Absent /\ pair'[1] = pair'[2]
    BY <1>0, Zenon DEF TlsPairMatches
  <2>1. tls_key > Absent /\ file["tls_key"] = tls_key /\ file["tls_cert"] = tls_key
    BY <1>0, Zenon DEF KeyFilesInv, TlsInv
  <2>2. Loaded("tls_cert") = tls_key /\ Loaded("tls_key") = tls_key
    BY <2>1, Zenon DEF Loaded
  <2>3. pair' = <<tls_key, tls_key>>
    BY <2>2, Zenon DEF TLSContext
  <2>. QED  BY <2>1, <2>3 DEF KeyFilesInv, KeyTypeOK, Absent
<1>5. TlsInv'
  BY <1>0, <1>4, Zenon DEF TlsInv, Busy
<1>. QED  BY <1>1, <1>2, <1>3, <1>5, Zenon DEF KeyFilesInv

\* A killed process leaves the files as they are.
LEMMA KilledKeepsInv == ASSUME KeyFilesInv, Killed PROVE KeyFilesInv'
<1>1. KeyTypeOK'
  <2>1. NotStoring \in [name : Name \cup {"none"}, value : Int] /\ Absent \in Int
    BY DEF NotStoring, Absent
  <2>. QED  BY <2>1, Zenon DEF KeyFilesInv, KeyTypeOK, Killed
<1>2. StoringInv'
  BY Zenon DEF StoringInv, Killed, Busy
<1>3. IdentityInv'
  BY Zenon DEF KeyFilesInv, IdentityInv, PastIdentity, Killed, Busy
<1>4. TlsInv'
  BY Zenon DEF KeyFilesInv, TlsInv, TlsPairMatches, Killed, Busy
<1>. QED  BY <1>1, <1>2, <1>3, <1>4, Zenon DEF KeyFilesInv

\* KeyFilesInv is inductive.
LEMMA KeyStep == KeyFilesInv /\ [KeyStoreNext]_keyVars => KeyFilesInv'
<1>. SUFFICES ASSUME KeyFilesInv, [KeyStoreNext]_keyVars PROVE KeyFilesInv'
  OBVIOUS
<1>1. CASE UNCHANGED keyVars
  BY <1>1 DEF keyVars, KeyFilesInv, KeyTypeOK, StoringInv, IdentityInv, PastIdentity, TlsInv,
              TlsPairMatches
<1>2. CASE KeyStoreNext
  BY <1>2, StartKeepsInv, LoadKeepsInv, GenerateKeepsInv, OpenKeepsInv, WriteKeepsInv,
     RenameKeepsInv, CertifyKeepsInv, ContextKeepsInv, KilledKeepsInv, Zenon DEF KeyStoreNext
<1>. QED  BY <1>1, <1>2, Zenon

\* The invariant allows at most one identity to have been announced.
LEMMA OneIdentity == KeyFilesInv => IdentityIsStable
<1>. SUFFICES ASSUME KeyFilesInv, "identity" \notin reported, ~unread
              PROVE  Cardinality(announced) <= 1
  BY Zenon DEF IdentityIsStable
<1>1. announced = {} \/ announced = {file["identity"]}
  BY Zenon DEF KeyFilesInv, IdentityInv
<1>2. Cardinality({}) = 0 /\ Cardinality({file["identity"]}) = 1
  BY FS_EmptySet, FS_Singleton, Zenon
<1>. QED  BY <1>1, <1>2

\* However often and wherever the process is killed, a node that could store its
\* identity and can open it never runs with another one.
THEOREM IdentitySurvives == KeyStoreSpec => []IdentityIsStable
BY KeyFilesInit, KeyStep, OneIdentity, PTL DEF KeyStoreSpec

\* A server context made from files that were all stored holds a certificate with
\* its own key, whatever earlier processes left in the directory.
THEOREM TlsPairIsOne == KeyStoreSpec => []TlsPairMatches
<1>1. KeyFilesInv => TlsPairMatches
  BY Zenon DEF KeyFilesInv, TlsInv
<1>. QED  BY <1>1, KeyFilesInit, KeyStep, PTL DEF KeyStoreSpec
=============================================================================
