------------------------------ MODULE MCStores ------------------------------
(***************************************************************************)
(* One run for the state a node keeps outside the consensus engine: the    *)
(* peer registry with its connections, the isolation of targets, the       *)
(* journal, the proof chain and the keystore.  These share no variable and *)
(* no step of one waits for another, so their steps commute: a behaviour   *)
(* exercises one of them, its focus, and the others stay as they start.    *)
(***************************************************************************)
EXTENDS MCRegistry, Response, StateJournal, ProofChain, KeyStore

VARIABLE focus

\* Identifiers and evidence for Response.
MCUpper == [t \in Target |-> IF t = "alpha" THEN "ALPHA" ELSE t]
MCTextPrefix == {<<a, a>> : a \in Addr} \cup {<<"10.0.0.1", "10.0.0.10">>}
Ev(event, verdict, pid, src) ==
    [schema |-> TRUE, event |-> event, verdict |-> verdict, pid |-> pid, src |-> src]
Verdict == Ev("", "CRITICAL", 0, NoAddr)
FromLoopback == Ev("", "THREAT", 0, "127.0.0.1")
Lateral == Ev("lateral_movement", "", 0, "10.0.0.10")
Escalation == {Ev("privilege_escalation", "", pid, NoAddr) : pid \in {5, 9}}
MCEvidence == {NoEvidence, Verdict, FromLoopback, Lateral} \cup Escalation

\* Two targets whose addresses match as text; a target that moves to and from
\* the loopback network; the safe list; a process that exits by itself.
Overlap == [evidence |-> {Verdict}, targets |-> {"alpha", "10.0.0.10"},
            moves |-> {<<"alpha", "10.0.0.1">>}, safe |-> {}, exits |-> {},
            backends |-> {"NFTABLES", "IPTABLES"}]
Local == [evidence |-> {Verdict, FromLoopback}, targets |-> {"alpha"},
          moves |-> {<<"alpha", "127.0.0.1">>, <<"alpha", "10.0.0.1">>},
          safe |-> {}, exits |-> {}, backends |-> {"NFTABLES"}]
Safe == [evidence |-> {NoEvidence, Lateral, Verdict}, targets |-> {"alpha"},
         moves |-> {<<"alpha", "10.0.0.1">>}, safe |-> {"alpha", "10.0.0.10"},
         exits |-> {}, backends |-> {}]
Kill == [evidence |-> Escalation, targets |-> {"alpha"},
         moves |-> {<<"alpha", "10.0.0.1">>},
         safe |-> {}, exits |-> {5}, backends |-> {"IPTABLES"}]
MCScene == {Overlap, Local, Safe, Kill}

-----------------------------------------------------------------------------
storeVars == <<registryVars, responseVars, journalVars, chainVars, keyVars, focus>>

MCInit ==
    /\ focus \in {"registry", "response", "journal", "chain", "keys"}
    /\ RegistryInit /\ ResponseInit /\ JournalInit /\ ChainInit /\ KeyStoreInit
    /\ focus # "registry" => traffic = Connected
    /\ focus # "response" => scene = Kill

MCNext ==
    \/ /\ focus = "registry" /\ RegistryNext
       /\ UNCHANGED <<responseVars, journalVars, chainVars, keyVars, focus>>
    \/ /\ focus = "response" /\ ResponseNext
       /\ UNCHANGED <<registryVars, journalVars, chainVars, keyVars, focus>>
    \/ /\ focus = "journal" /\ JournalNext
       /\ UNCHANGED <<registryVars, responseVars, chainVars, keyVars, focus>>
    \/ /\ focus = "chain" /\ ChainNext
       /\ UNCHANGED <<registryVars, responseVars, journalVars, keyVars, focus>>
    \/ /\ focus = "keys" /\ KeyStoreNext
       /\ UNCHANGED <<registryVars, responseVars, journalVars, chainVars, focus>>

MCSpec == MCInit /\ [][MCNext]_storeVars
=============================================================================
