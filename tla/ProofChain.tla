----------------------------- MODULE ProofChain -----------------------------
(***************************************************************************)
(* class ProofChain of src/crypto/ProofChain.hpp: the chain of executed    *)
(* rounds and the Merkle proofs exported for its links.  Every method used *)
(* by the node holds the mutex for its whole body.  A hash is the tuple of *)
(* what is hashed; timestamps and signatures are not part of it.           *)
(***************************************************************************)
EXTENDS Integers, Sequences

CONSTANTS
    Data,       \* what a link records
    MAX_CHAIN,  \* links kept
    MaxLinks    \* bound on the links appended

VARIABLES
    links,         \* m_links
    chain_seq,     \* m_seq
    merkle_root,   \* m_merkle_root
    merkle_dirty,  \* m_merkle_dirty
    proof          \* the last proof exported to a file

chainVars == <<links, chain_seq, merkle_root, merkle_dirty, proof>>

NoHash == <<>>
NoProof == [seq |-> -1]

ChainInit ==
    /\ links = <<>> /\ chain_seq = 0
    /\ merkle_root = NoHash /\ merkle_dirty = FALSE
    /\ proof = NoProof

\* link_hash: the hash of to_string().
LinkHash(seq, data, parent) == <<seq, data, parent>>

\* Mutant: the root is only recomputed when the chain grows.
append_CleanWhenFull(data) ==
    /\ chain_seq < MaxLinks
    /\ LET parent == IF links = <<>> THEN NoHash ELSE links[Len(links)].hash
           link == [seq |-> chain_seq, data |-> data, parent |-> parent,
                    hash |-> LinkHash(chain_seq, data, parent)]
           grown == Append(links, link)
       IN /\ links' = IF Len(grown) > MAX_CHAIN THEN Tail(grown) ELSE grown
          /\ merkle_dirty' = (merkle_dirty \/ Len(grown) <= MAX_CHAIN)
    /\ chain_seq' = chain_seq + 1
    /\ UNCHANGED <<merkle_root, proof>>
\* The oldest link is dropped from a full chain.
append(data) ==
    /\ chain_seq < MaxLinks
    /\ LET parent == IF links = <<>> THEN NoHash ELSE links[Len(links)].hash
           link == [seq |-> chain_seq, data |-> data, parent |-> parent,
                    hash |-> LinkHash(chain_seq, data, parent)]
           grown == Append(links, link)
       IN links' = IF Len(grown) > MAX_CHAIN THEN Tail(grown) ELSE grown
    /\ chain_seq' = chain_seq + 1
    /\ merkle_dirty' = TRUE
    /\ UNCHANGED <<merkle_root, proof>>

-----------------------------------------------------------------------------
\* The Merkle tree.  A node without a partner is hashed alone.

Leaves == [i \in 1 .. Len(links) |-> links[i].hash]

NextLayer(layer) ==
    [j \in 1 .. (Len(layer) + 1) \div 2 |->
        IF 2 * j <= Len(layer) THEN <<layer[2 * j - 1], layer[2 * j]>>
                               ELSE <<layer[2 * j - 1]>>]

\* What compute_sibling_path notes of a layer: a node without a partner adds
\* nothing to the path.
Sibling(layer, i) ==
    IF i % 2 = 0 THEN <<[side |-> "L", hash |-> layer[i - 1]]>>
    ELSE IF i < Len(layer) THEN <<[side |-> "R", hash |-> layer[i + 1]]>>
    ELSE <<>>

\* The while loop of rebuild_merkle and of compute_sibling_path, which climbs
\* from the i-th leaf: its variables after h turns.  A layer of n nodes is down
\* to one before n turns, and there the loop stays.
Climb(w) ==
    IF Len(w.layer) <= 1 THEN w
    ELSE [layer |-> NextLayer(w.layer), idx |-> (w.idx + 1) \div 2,
          siblings |-> w.siblings \o Sibling(w.layer, w.idx)]
Turns(leaves, i) ==
    LET w[h \in 0 .. Len(leaves)] ==
            IF h = 0 THEN [layer |-> leaves, idx |-> i, siblings |-> <<>>]
                     ELSE Climb(w[h - 1])
    IN  w

MerkleRoot(leaves) == Turns(leaves, 1)[Len(leaves)].layer[1]
SiblingPath(leaves, i) == Turns(leaves, i)[Len(leaves)].siblings

\* The loop of verify_proof, to its end: every sibling is hashed with what the
\* ones before it gave, on the side it names.
HashWith(cur, s) == IF s.side = "L" THEN <<s.hash, cur>> ELSE <<cur, s.hash>>
Rehash(leaf, siblings) ==
    LET cur[j \in 0 .. Len(siblings)] ==
            IF j = 0 THEN leaf ELSE HashWith(cur[j - 1], siblings[j])
    IN  cur[Len(siblings)]
verify_proof(root, leaf, siblings) == Rehash(leaf, siblings) = root

RebuiltRoot == IF merkle_dirty /\ links # <<>> THEN MerkleRoot(Leaves) ELSE merkle_root

get_root_hash ==
    /\ links # <<>>
    /\ merkle_root' = RebuiltRoot /\ merkle_dirty' = FALSE
    /\ UNCHANGED <<links, chain_seq, proof>>

\* The number asked for is used as a position in the chain.
export_proof_to_file(seq) ==
    /\ seq < Len(links)
    /\ merkle_root' = RebuiltRoot /\ merkle_dirty' = FALSE
    /\ proof' = [seq |-> seq, leaf |-> links[seq + 1].hash, root |-> RebuiltRoot,
                 siblings |-> SiblingPath(Leaves, seq + 1),
                 size |-> Len(links), evicted |-> links[1].seq > 0]
    /\ UNCHANGED <<links, chain_seq>>

ChainNext ==
    \/ \E d \in Data : append(d)
    \/ get_root_hash
    \/ \E s \in 0 .. MaxLinks : export_proof_to_file(s)

ChainSpec == ChainInit /\ [][ChainNext]_chainVars

-----------------------------------------------------------------------------
\* A position and the size of its layer, one layer up.
Halved(c) == [size |-> (c.size + 1) \div 2, idx |-> (c.idx + 1) \div 2]

\* The size of each layer of a tree over n leaves, and the position there of
\* the node above the i-th leaf.
Places(n, i) ==
    LET p[h \in 0 .. n] ==
            IF h = 0 THEN [size |-> n, idx |-> i]
            ELSE Halved(p[h - 1])
    IN  p

\* The position has a partner on every layer below the root.
AlwaysPaired(n, i) ==
    \A h \in 0 .. n : LET p == Places(n, i)[h]
                      IN  p.size <= 1 \/ p.idx % 2 = 0 \/ p.idx < p.size

\* What export_proof_to_file writes is a proof: verify_proof accepts it, and as
\* long as no link has been evicted it is about the link of the number asked
\* for.  A link that is hashed alone on some layer is excepted: its path leaves
\* that step out.
ExportedProofVerifies ==
    proof # NoProof =>
        /\ AlwaysPaired(proof.size, proof.seq + 1)
             => verify_proof(proof.root, proof.leaf, proof.siblings)
        /\ ~proof.evicted => proof.leaf[1] = proof.seq
=============================================================================
