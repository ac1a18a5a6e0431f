----------------------------- MODULE MCRegistry -----------------------------
(***************************************************************************)
(* Instances of Registry: what may arrive in a behaviour.                  *)
(***************************************************************************)
EXTENDS Registry

\* A peer shows two keys on both paths and may be unpinned.
Rekeyed == [msgs |-> {send_discovery_beacon("p", "k1", "c1", FALSE),
                      send_discovery_beacon("p", "k2", "c2", FALSE),
                      announce_identity("p", "k1"),
                      announce_identity("p", "k2")},
            pex |-> {}, inbound |-> FALSE, unpin |-> {"p"}]

\* A peer, whose ANNOUNCE may show another key, is also known from peer lists,
\* and another peer only from them.
Listed == [msgs |-> {send_discovery_beacon("p", "k1", NoCert, FALSE),
                     announce_identity("p", "k1"),
                     announce_identity("p", "k2")},
           pex |-> {"p", "q"}, inbound |-> FALSE, unpin |-> {}]

\* A provisioned peer shows its key, and another one.
Provided == [msgs |-> {send_discovery_beacon("r", "k1", NoCert, FALSE),
                       send_discovery_beacon("r", "k2", NoCert, FALSE),
                       announce_identity("r", "k1")},
             pex |-> {"r", "q"}, inbound |-> FALSE, unpin |-> {}]

\* A peer with a TLS listener; connections come in as well and take the
\* descriptor numbers that closed ones leave.
Connected == [msgs |-> {send_discovery_beacon("p", "k1", NoCert, TRUE)},
              pex |-> {}, inbound |-> TRUE, unpin |-> {}]

MCTraffic == {Rekeyed, Listed, Provided, Connected}
MCUnpinTraffic == {Rekeyed}
MCProvisioned == [p \in Peer |-> IF p = "r" THEN "k1" ELSE NoKey]
=============================================================================
