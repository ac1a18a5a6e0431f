------------------------------ MODULE KeyStore ------------------------------
(***************************************************************************)
(* The keys a node keeps across restarts: store_key, load_key and          *)
(* store_certificate of src/crypto/KeyManager.cpp, in the order in which   *)
(* the constructor of MeshNode calls them, and the TLSContext that reads   *)
(* the files back.  The process may be killed between any two system       *)
(* calls; what it has written stays.                                       *)
(*                                                                         *)
(* A key is the number of its generation, and a certificate the number of  *)
(* the key it was made for.  A file is written under a temporary name,     *)
(* that of the process, and renamed.  Nothing in the program sets a        *)
(* passphrase or another backend: the files hold plain PEM.                *)
(***************************************************************************)
EXTENDS Integers, FiniteSets

CONSTANT MaxKeys   \* bound on the keys generated

Name == {"identity", "tls_key", "tls_cert"}
Absent == 0
Torn == -1         \* what PEM_read cannot read

VARIABLES
    file,       \* the files of the keystore
    tmp,        \* the temporary file of the process, for the file it writes
    storing,    \* the file being written, and what is to be in it
    stage,      \* how far the constructor is
    identity,   \* m_private_key
    tls_key,    \* the key generated for TLS
    pair,       \* the certificate and key of the server context, <<>> if there is none
    generated,  \* keys generated so far
    announced,  \* history: the identities with which the node has run
    reported,   \* history: the files whose store_* returned false or was not called
    unread      \* history: the identity could not be opened

keyVars == <<file, tmp, storing, stage, identity, tls_key, pair, generated,
             announced, reported, unread>>

NotStoring == [name |-> "none", value |-> Absent]

KeyStoreInit ==
    /\ file = [x \in Name |-> Absent] /\ tmp = Absent /\ storing = NotStoring
    /\ stage = "down" /\ identity = Absent /\ tls_key = Absent /\ pair = <<>>
    /\ generated = 0 /\ announced = {} /\ reported = {} /\ unread = FALSE

\* The process starts.
Start ==
    /\ stage = "down" /\ stage' = "load"
    /\ identity' = Absent /\ tls_key' = Absent /\ pair' = <<>>
    /\ UNCHANGED <<file, tmp, storing, generated, announced, reported, unread>>

\* load_key: the key in the file, or none.
Loaded(x) == IF file[x] > Absent THEN file[x] ELSE Absent

\* What store_key and store_certificate write, and under which name.
store_key(x, key) == storing' = [name |-> x, value |-> key]
store_certificate(cert) == storing' = [name |-> "tls_cert", value |-> cert]

\* A key that can be loaded is the identity.  Otherwise a new one is made and,
\* if it can be copied, stored.
LoadIdentity ==
    /\ stage = "load"
    /\ \E opened \in BOOLEAN :
          /\ unread' = (unread \/ (~opened /\ file["identity"] # Absent))
          /\ IF opened /\ Loaded("identity") # Absent
             THEN /\ identity' = Loaded("identity") /\ stage' = "tls"
                  /\ UNCHANGED <<storing, generated, reported>>
             ELSE /\ generated < MaxKeys
                  /\ generated' = generated + 1 /\ identity' = generated + 1
                  /\ \/ store_key("identity", generated + 1) /\ stage' = "open" /\ UNCHANGED reported
                     \/ reported' = reported \cup {"identity"} /\ stage' = "tls" /\ UNCHANGED storing
    /\ UNCHANGED <<file, tmp, tls_key, pair, announced>>

\* A new TLS key at every start.
generate_key ==
    /\ stage = "tls" /\ generated < MaxKeys
    /\ generated' = generated + 1 /\ tls_key' = generated + 1
    /\ store_key("tls_key", generated + 1) /\ stage' = "open"
    /\ UNCHANGED <<file, tmp, identity, pair, announced, reported, unread>>

\* The end of a store_*.  Its result is ignored: the constructor goes on.
Return ==
    /\ storing' = NotStoring /\ tmp' = Absent
    /\ stage' = CASE storing.name = "identity" -> "tls"
                  [] storing.name = "tls_key" -> "certify"
                  [] storing.name = "tls_cert" -> "context"

ReturnFalse ==
    /\ Return /\ reported' = reported \cup {storing.name}
    /\ UNCHANGED <<file, identity, tls_key, pair, generated, announced, unread>>

OpenTmp ==
    /\ stage = "open"
    /\ \/ /\ tmp' = Torn /\ stage' = "write"
          /\ UNCHANGED <<file, storing, identity, tls_key, pair, generated, announced,
                         reported, unread>>
       \/ ReturnFalse

\* Mutant: a write that fails is not noticed.
WriteTmp_Unchecked ==
    /\ stage = "write"
    /\ tmp' \in {Torn, storing.value} /\ stage' = "rename"
    /\ UNCHANGED <<file, storing, identity, tls_key, pair, generated, announced, reported, unread>>
\* A write that fails removes the temporary file.
WriteTmp ==
    /\ stage = "write"
    /\ \/ /\ tmp' = storing.value /\ stage' = "rename"
          /\ UNCHANGED <<file, storing, identity, tls_key, pair, generated, announced,
                         reported, unread>>
       \/ ReturnFalse

Rename ==
    /\ stage = "rename"
    /\ \/ /\ file' = [file EXCEPT ![storing.name] = tmp]
          /\ Return
          /\ UNCHANGED <<identity, tls_key, pair, generated, announced, reported, unread>>
       \/ ReturnFalse

\* Mutant: a certificate that exists is kept.
generate_certificate_Keeps ==
    /\ stage = "certify"
    /\ IF file["tls_cert"] = Absent
       THEN store_certificate(tls_key) /\ stage' = "open"
       ELSE stage' = "context" /\ UNCHANGED storing
    /\ UNCHANGED <<file, tmp, identity, tls_key, pair, generated, announced, reported, unread>>
\* Without a certificate there are no paths for the TLS contexts.
generate_certificate ==
    /\ stage = "certify"
    /\ \/ store_certificate(tls_key) /\ stage' = "open"
       \/ stage' = "up" /\ UNCHANGED storing
    /\ announced' = IF stage' = "up" THEN announced \cup {identity} ELSE announced
    /\ UNCHANGED <<file, tmp, identity, tls_key, pair, generated, reported, unread>>

\* TLSContext: the files are read, whichever process wrote them, and the key is
\* taken only if it belongs to the certificate.  The result of load_certificate
\* is ignored.  Without contexts the node uses UDP only.  The node then announces
\* its identity.
TLSContext ==
    /\ stage = "context" /\ stage' = "up"
    /\ LET cert == Loaded("tls_cert")
           key == IF Loaded("tls_key") = cert THEN cert ELSE Absent
       IN pair' \in {<<>>, <<cert, key>>}
    /\ announced' = announced \cup {identity}
    /\ UNCHANGED <<file, tmp, storing, identity, tls_key, generated, reported, unread>>

\* external: the process is killed.
Killed ==
    /\ stage # "down" /\ stage' = "down"
    /\ storing' = NotStoring /\ tmp' = Absent
    /\ UNCHANGED <<file, identity, tls_key, pair, generated, announced, reported, unread>>

KeyStoreNext ==
    \/ Start \/ LoadIdentity \/ generate_key \/ OpenTmp \/ WriteTmp \/ Rename
    \/ generate_certificate \/ TLSContext \/ Killed

KeyStoreSpec == KeyStoreInit /\ [][KeyStoreNext]_keyVars

-----------------------------------------------------------------------------
\* "Persistent identity - load from keystore on restart, generate only once"
\* (MeshNode::MeshNode): a node that was killed at any moment, also while it
\* wrote its keys, runs with the identity it had, which its peers have pinned.
\* It changes only if store_key returned false for the first one, which the
\* constructor ignores, or if the file could not be opened.
IdentityIsStable ==
    "identity" \in reported \/ unread \/ Cardinality(announced) <= 1

\* The two files for TLS are written one after the other and every start
\* replaces both.  A server context that exists holds a certificate and its key,
\* whenever an earlier process was killed between the two: only a failed store
\* leaves the file of an earlier start, for another key, and the node accepts no
\* connection without noticing.
TlsPairMatches ==
    pair # <<>> /\ reported \cap {"tls_key", "tls_cert"} = {}
      => pair[1] # Absent /\ pair[1] = pair[2]
=============================================================================
