------------------------------ MODULE Transport ------------------------------
(***************************************************************************)
(* class TransportLayer of src/net/TransportLayer.cpp: the descriptors of  *)
(* the TLS connections and the SSL object of each.  Bytes, certificates    *)
(* and the handshake's messages are left out: a call may succeed or fail   *)
(* wherever the code can see it do so.  A connection is named after the    *)
(* peer it was opened to; one that was accepted is Inbound.                *)
(***************************************************************************)
EXTENDS Naturals, FiniteSets

CONSTANTS
    Peer,        \* the other nodes' identifiers
    Fd,          \* descriptor numbers the kernel hands out to connections
    MAX_ACTIVE   \* m_active_ssl entries above which accept() refuses

VARIABLES
    open,        \* the descriptors the process has open
    active_ssl   \* m_active_ssl: what the SSL object of a descriptor talks to

transportVars == <<open, active_ssl>>

Inbound == "inbound"
NoSsl == "none"

TransportInit ==
    /\ open = {}
    /\ active_ssl = [f \in Fd |-> NoSsl]

\* The kernel hands out the lowest number that is free.
IsLowestFree(f) == f \in Fd \ open /\ \A g \in Fd \ open : f <= g

\* socket() and ::connect() of connect(): a descriptor without an SSL object.
OpenSocket(f) ==
    /\ IsLowestFree(f)
    /\ open' = open \cup {f}
    /\ UNCHANGED active_ssl

\* The end of connect(): SSL_connect and the verification succeeded.  If not,
\* connect() calls close().
HandshakeDone(f, p) ==
    /\ active_ssl' = [active_ssl EXCEPT ![f] = p]
    /\ UNCHANGED open

\* accept() returns a descriptor whose handshake is done.  A failed handshake
\* leaves nothing behind.
accept(f) ==
    /\ Cardinality({g \in Fd : active_ssl[g] # NoSsl}) < MAX_ACTIVE
    /\ IsLowestFree(f)
    /\ open' = open \cup {f}
    /\ active_ssl' = [active_ssl EXCEPT ![f] = Inbound]

\* close() forgets the SSL object and closes the descriptor, whoever has it.
close(f) ==
    /\ open' = open \ {f}
    /\ active_ssl' = [active_ssl EXCEPT ![f] = NoSsl]
=============================================================================
