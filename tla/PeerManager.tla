----------------------------- MODULE PeerManager -----------------------------
(***************************************************************************)
(* class PeerManager of src/consensus/PeerManager.cpp: the table of peers  *)
(* that the threads of a node share, the TLS certificates it has pinned    *)
(* and the dual-path confirmation of a peer's key.  A method takes one     *)
(* mutex for its whole body and is one operator; a returned value is the   *)
(* last parameter.                                                         *)
(*                                                                         *)
(* Addresses and ports are left out.  "verified" is left out because it is *)
(* set and cleared together with the key.  A heartbeat is abstracted to    *)
(* whether more than LIVENESS_SEC have passed since it.                    *)
(***************************************************************************)
EXTENDS Transport, Integers

CONSTANTS
    Key,          \* public keys, without the empty string
    Cert,         \* TLS certificate fingerprints, without the empty string
    provisioned   \* m_pre_provisioned_keys, "" where there is none

NoKey == ""
NoCert == ""
NoFd == -1

ASSUME RegistryAssumption ==
    /\ IsFiniteSet(Peer)
    /\ NoKey \notin Key
    /\ NoCert \notin Cert
    /\ Fd \subseteq Nat
    /\ provisioned \in [Peer -> Key \cup {NoKey}]

VARIABLES
    peers,   \* m_peers
    tofu     \* m_tofu_trust: the pinned certificate, NoCert if none

Path == {"beacon", "announce"}

\* An entry of m_peers; "in" tells an entry from an absent one.
PeerEntry == [in : BOOLEAN, key : Key \cup {NoKey}, paths : SUBSET Path,
              fd : Fd \cup {NoFd}, stale : BOOLEAN]

NoEntry == [in |-> FALSE, key |-> NoKey, paths |-> {}, fd |-> NoFd, stale |-> FALSE]

PeerManagerInit ==
    /\ peers = [p \in Peer |-> NoEntry]
    /\ tofu = [p \in Peer |-> NoCert]

has_peer(p) == peers[p].in

\* Returns whether p was not in the table and has been added.
add_peer(p, key, isNew) ==
    /\ isNew = ~has_peer(p)
    /\ peers' = IF isNew
                THEN [peers EXCEPT ![p] = [NoEntry EXCEPT !.in = TRUE, !.key = key]]
                ELSE peers

\* Absent peers are left absent; a key that is already known is kept.
update_peer_heartbeat(p, key) ==
    peers' = IF has_peer(p)
             THEN [peers EXCEPT ![p].stale = FALSE,
                                ![p].key = IF @ = NoKey THEN key ELSE @]
             ELSE peers

\* Mutant: the row is kept until the peer is heard of again.
remove_peer_KeepsRow(p) ==
    peers' = [peers EXCEPT ![p].key = NoKey, ![p].paths = {}]
remove_peer(p) ==
    peers' = [peers EXCEPT ![p] = NoEntry]

get_stale_peers == {p \in Peer : has_peer(p) /\ peers[p].stale}

set_peer_tls_fd(p, fd) ==
    peers' = IF has_peer(p) THEN [peers EXCEPT ![p].fd = fd] ELSE peers

\* A certificate is refused when another one is pinned.
verify_tls_cert(p, cert) == tofu[p] \in {NoCert, cert}

pin_tls_fingerprint(p, cert) == tofu' = [tofu EXCEPT ![p] = cert]

is_peer_pre_provisioned(p) == provisioned[p] # NoKey

\* Clears the key but not the confirmed paths.
unpin_peer_key(p) ==
    /\ peers' = IF has_peer(p) THEN [peers EXCEPT ![p].key = NoKey] ELSE peers
    /\ tofu' = [tofu EXCEPT ![p] = NoCert]

-----------------------------------------------------------------------------
\* Dual-path confirmation.  Both callers have checked that the key is not
\* empty.

\* Mutant: a second path may bring another key.
KeyMismatch_FirstPathOnly(p, path, key) ==
    IF is_peer_pre_provisioned(p)
    THEN key # provisioned[p]
    ELSE path \in peers[p].paths /\ key # peers[p].key
\* A provisioned peer must show its provisioned key.  Another peer must show
\* the stored key on a path that has confirmed it, and on its second path too
\* unless the stored key has been cleared.
KeyMismatch(p, path, key) ==
    IF is_peer_pre_provisioned(p)
    THEN key # provisioned[p]
    ELSE \/ path \in peers[p].paths /\ key # peers[p].key
         \/ peers[p].paths # {} /\ peers[p].key # NoKey /\ key # peers[p].key

\* Returns whether both paths have now confirmed a key, and whether the key
\* was refused.
confirm_path(p, path, key, result) ==
    \/ /\ ~has_peer(p)
       /\ result = [dual |-> FALSE, mismatch |-> FALSE]
       /\ UNCHANGED peers
    \/ /\ has_peer(p) /\ KeyMismatch(p, path, key)
       /\ result = [dual |-> FALSE, mismatch |-> TRUE]
       /\ UNCHANGED peers
    \/ /\ has_peer(p) /\ ~KeyMismatch(p, path, key)
       /\ result = [dual |-> peers[p].paths \cup {path} = Path, mismatch |-> FALSE]
       /\ peers' = [peers EXCEPT ![p].paths = @ \cup {path},
                                 ![p].key = IF @ = NoKey THEN key ELSE @]
=============================================================================
