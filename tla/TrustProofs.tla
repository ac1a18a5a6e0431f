---------------------------- MODULE TrustProofs -----------------------------
(***************************************************************************)
(* Nobody fails at another node as long as the threads of a proposer       *)
(* broadcast one after the other, for every set of nodes, threads and      *)
(* rounds.                                                                 *)
(***************************************************************************)
EXTENDS MeshProofs
-----------------------------------------------------------------------------
(* Facts about sequence numbers. *)

\* The number a after l.
LEMMA NextNumber ==
    ASSUME NEW a \in Nat, NEW l \in Nat, a > l, ~(a > l + 1)
    PROVE  a = l + 1
OBVIOUS

\* A number beyond the next one has one before it that is still beyond l.
LEMMA NumberBetween ==
    ASSUME NEW a \in Nat, NEW l \in Nat, a > l + 1
    PROVE  a > 1 /\ a - 1 > l /\ ~(a - 1 >= a)
OBVIOUS

\* The numbers up to s are numbers up to s + 1.
LEMMA NumberTaken ==
    ASSUME NEW s \in Nat
    PROVE  /\ s = (s + 1) - 1
           /\ \A a \in 1 .. s : a \in 1 .. s + 1 /\ a < s + 1
OBVIOUS

\* A number that was taken.
LEMMA NumberUsed ==
    ASSUME NEW s \in Nat, NEW l \in Nat, l = s - 1
    PROVE  /\ s \in 1 .. s /\ s > 0 /\ s = l + 1 /\ ~(s < s)
           /\ s > 1 => l > 0
OBVIOUS

\* A number is 0 or more, and below the next one.
LEMMA NumberOrder ==
    ASSUME NEW l \in Nat
    PROVE  /\ l = 0 \/ l > 0
           /\ l <= l /\ l <= l + 1 /\ l + 1 \in Nat /\ ~(l + 1 <= l) /\ ~(l > l)
OBVIOUS

\* A number up to the limit has one below the limit before it.
LEMMA NumberBelow ==
    ASSUME NEW l \in Nat, NEW top \in Nat, NEW s \in 0 .. top, NEW lim \in Nat,
           top <= lim, l + 1 \in 1 .. s
    PROVE  l < lim
OBVIOUS

\* A number beyond l that is not the next one is beyond the next one.
LEMMA NumberBeyond ==
    ASSUME NEW a \in Nat, NEW l \in Nat, a > l, a # l + 1
    PROVE  a > l + 1
OBVIOUS

\* A number beyond the next one is beyond l.
LEMMA NumberSkips ==
    ASSUME NEW a \in Nat, NEW l \in Nat, a > l + 1
    PROVE  a > l
OBVIOUS

\* The order of three numbers.
LEMMA NumberTransitive ==
    ASSUME NEW a \in Nat, NEW b \in Nat, NEW c \in Nat, a <= b, b <= c
    PROVE  a <= c
OBVIOUS

\* One more message of p is recorded.
LEMMA OneMore ==
    ASSUME NEW P, NEW k \in [P -> Nat], NEW p \in P
    PROVE  /\ [k EXCEPT ![p] = k[p] + 1] \in [P -> Nat]
           /\ [k EXCEPT ![p] = k[p] + 1][p] = k[p] + 1
           /\ \A q \in P : q # p => [k EXCEPT ![p] = k[p] + 1][q] = k[q]
OBVIOUS

\* One entry of one row of a table is set.
LEMMA OneEntrySet ==
    ASSUME NEW f, NEW n \in DOMAIN f, NEW p \in DOMAIN f[n], NEW e, NEW h,
           h = [f EXCEPT ![n][p] = e]
    PROVE  /\ h[n][p] = e
           /\ \A q \in DOMAIN f[n] : q # p => h[n][q] = f[n][q]
           /\ \A q \in DOMAIN f : q # n => h[q] = f[q]
OBVIOUS
-----------------------------------------------------------------------------
(* Nobody fails when a node broadcasts one message at a time. *)

\* The messages in S, when the nodes have taken the numbers up to sq: they are
\* numbered without a repetition, and each names the hash of the one before.
MessagesChained(S, sq) ==
    \A m \in S :
        /\ m.sig = TRUE /\ m.seq \in 1 .. sq[m.sender]
        /\ m.seq > 1 => \E h \in S : /\ h.sender = m.sender /\ h.seq = m.seq - 1
                                     /\ m.prev = compute_message_hash(h)
        /\ \A h \in S : h.sender = m.sender /\ h.seq = m.seq => h = m

\* A thread t of n in state x, when n has taken the number sq and has recorded
\* its own message l.
ThreadInTurn(n, t, x, sq, l, S) ==
    /\ x.pc = "chain" => \A m \in S : m.sender = n => m.seq < sq
    /\ x.pc = "verify" => x.msg.sender = n
    /\ x.pc = "advance" /\ t # "listener" => x.msg.sender = n
    /\ Sends(n, x) => x.msg.seq = sq /\ l = sq - 1
NodeSends(n, f, sq, l, S) ==
    /\ \A t \in Thread : ThreadInTurn(n, t, f[t], sq, l, S)
    /\ \A t, u \in Thread : Sends(n, f[t]) /\ Sends(n, f[u]) => t = u
    /\ (\A t \in Thread : ~Sends(n, f[t])) => l = sq

\* What an engine keeps of a sender p of which it has recorded the messages up
\* to l: the history h and the ages r.
SenderKept(p, h, r, l, S) ==
    /\ l \in Nat /\ DOMAIN h \subseteq 1 .. l
    /\ l > 0 => /\ l \in DOMAIN h
                /\ \E m \in S : m.sender = p /\ m.seq = l /\ h[l] = compute_message_hash(m)
    /\ \A i \in 1 .. RATE_MAX : i > l => r[i] = RATE_WINDOW

\* The listener of n, in state x, has the message of another node in hand.
Heard(n, x) == x.pc = "advance" /\ x.msg.sender # n

\* What n has not recorded of the others is under way to it, but for what its
\* listener has in hand, and that is the next one; N is under way, k has the
\* numbers recorded and z are the hashes seen.
NodeHears(n, x, N, S, k, z) ==
    /\ \A g \in z : \E m \in S : g = compute_message_hash(m) /\ m.seq <= k[m.sender]
    /\ Heard(n, x) => x.msg.seq = k[x.msg.sender] + 1
    /\ \A m \in N : /\ m.sender # n /\ m.seq > k[m.sender]
                    /\ Heard(n, x) => m # x.msg
    /\ \A m \in S : m.sender # n /\ m.seq > k[m.sender] /\ m \notin N
                       => Heard(n, x) /\ m = x.msg

AllTrusted == NobodyFails /\ \A n \in Host : peer_keys[n] = Node

\* A node that proposes nothing has only its listener at work.
OnlyListens == \A n \in Host \ Proposers, t \in Thread \ {"listener"} : thr[n][t].pc = "rest"

\* The invariant, when last has the numbers that each node has recorded.
SerialFor(last) ==
    /\ last \in [Host -> [Node -> Nat]] /\ MessagesChained(sent, seq) /\ AllTrusted
    /\ \A n \in Host :
          /\ NodeSends(n, thr[n], seq[n], last[n][n], sent)
          /\ NodeHears(n, thr[n]["listener"], net[n], sent, last[n], seen[n])
          /\ \A p \in Node : SenderKept(p, history[n][p], rate[n][p], last[n][p], sent)
SerialInv == MeshInv /\ CauseInv /\ OnlyListens /\ \E last : SerialFor(last)

\* No sender can come to the limits of its peers, and datagrams keep their order.
WithinLimits == InOrder /\ MaxSeq <= RATE_MAX /\ MAX_SEQUENCE_GAP >= 1

\* The next message of a sender passes the checks of an engine that has recorded
\* the one before it.
LEMMA NextIsAuthentic ==
    ASSUME NEW n \in Host, NEW m \in sent, NEW r, NEW l, MessagesChained(sent, seq),
           SenderKept(m.sender, history[n][m.sender], r, l, sent), m.seq = l + 1,
           MAX_SEQUENCE_GAP >= 1
    PROVE  Authentic(n, m)
<1> DEFINE h == history[n][m.sender]
<1>1. l \in Nat /\ DOMAIN h \subseteq 1 .. l /\ MAX_SEQUENCE_GAP \in Nat
  BY LimitsAssumption, Zenon DEF SenderKept
<1>2. m.sig
  BY Zenon DEF MessagesChained
<1>3. CASE l = 0
  <2>1. DOMAIN h = {}
    BY <1>1, <1>3
  <2> QED
    BY <1>2, <2>1, Zenon DEF Authentic, verify_message_chaining, verify_sequence_continuity
<1>4. CASE l > 0
  <2>1. PICK g \in sent : g.sender = m.sender /\ g.seq = l /\ h[l] = compute_message_hash(g)
    BY <1>4, Zenon DEF SenderKept
  <2>2. m.seq > 1 /\ m.seq - 1 = l
    BY <1>1, <1>4
  <2>3. PICK o \in sent : /\ o.sender = m.sender /\ o.seq = m.seq - 1
                          /\ m.prev = compute_message_hash(o)
    BY <2>2, Zenon DEF MessagesChained
  <2>4. o = g
    BY <2>1, <2>2, <2>3 DEF MessagesChained
  <2>5. l \in DOMAIN h
    BY <1>4, Zenon DEF SenderKept
  <2> HIDE DEF h
  <2>6. m.seq - 1 \in DOMAIN h /\ h[m.seq - 1] = m.prev
    BY <2>1, <2>2, <2>3, <2>4, <2>5, Zenon
  <2>7. m.seq <= l + MAX_SEQUENCE_GAP
    BY <1>1
  <2> QED
    BY <1>2, <2>5, <2>6, <2>7, Zenon
       DEF Authentic, verify_message_chaining, verify_sequence_continuity, h
<1> QED
  BY <1>1, <1>3, <1>4

\* Nobody was caught, so nobody is banned.
LEMMA NobodyDropped ==
    ASSUME CauseInv, AllTrusted, NEW n \in Host, NEW p \in Node
    PROVE  ~Dropped(n, p)
<1>1. CaughtIn(banned, peer_keys) = {}
  BY Zenon DEF AllTrusted, CaughtIn
<1>2. banned[n] = {}
  BY <1>1, Zenon DEF CauseInv, BansDeserved
<1> QED
  BY <1>2, Zenon DEF Dropped, AllTrusted

\* verify_message passes such a message, and changes nothing.
LEMMA VerifiesNext ==
    ASSUME EngineInv, AllTrusted, NEW n \in Host, NEW m, IsMessage(m), NEW ok \in BOOLEAN,
           ~Dropped(n, m.sender), Authentic(n, m), verify_message(n, m, ok)
    PROVE  ok = TRUE /\ UNCHANGED engineVars
<1>1. /\ ok = TRUE /\ failures' = [failures EXCEPT ![n][m.sender] = 0]
      /\ UNCHANGED <<memberVars, equivocators, chainVars, roundVars, current_view>>
  BY Zenon DEF verify_message
<1>2. /\ failures \in [Host -> [Node -> Nat]] /\ failures[n][m.sender] = 0
      /\ m.sender \in Node
  BY Zenon DEF EngineInv, EngineTypeOK, AllTrusted, NobodyFails, IsMessage
<1>3. failures' = failures
  BY <1>1, <1>2, Zenon
<1> QED
  BY <1>1, <1>3, Zenon DEF engineVars, trustVars

\* The history and the ages that detect_equivocation and the rate limit leave
\* when the next message m of its sender is recorded: an eviction spares it.
LEMMA KeepsNext ==
    ASSUME NEW S, NEW m \in S, NEW h, NEW r, NEW l, SenderKept(m.sender, h, r, l, S),
           m.seq = l + 1, NEW kept,
           kept = IF Cardinality(DOMAIN h \cup {m.seq}) <= MAX_MSG_HISTORY
                  THEN DOMAIN h \cup {m.seq}
                  ELSE {s \in DOMAIN h \cup {m.seq} :
                           \E t \in DOMAIN h \cup {m.seq} : t < s},
           NEW g,
           g = [s \in kept |-> IF s = m.seq THEN compute_message_hash(m) ELSE h[s]]
    PROVE  SenderKept(m.sender, g, Stamped(r), l + 1, S)
<1>1. l \in Nat /\ DOMAIN h \subseteq 1 .. l
  BY Zenon DEF SenderKept
<1>2. DOMAIN g = kept /\ kept \subseteq 1 .. l + 1
  BY <1>1
<1>3. m.seq \in kept
  <2>1. CASE DOMAIN h = {}
    <3>1. DOMAIN h \cup {m.seq} = {m.seq}
      BY <2>1, Zenon
    <3>2. Cardinality(DOMAIN h \cup {m.seq}) = 1
      BY <3>1, FS_Singleton, Zenon
    <3>3. Cardinality(DOMAIN h \cup {m.seq}) <= MAX_MSG_HISTORY
      BY <3>2, LimitsAssumption
    <3> QED
      BY <3>3, Zenon
  <2>2. CASE DOMAIN h # {}
    <3>1. PICK t \in DOMAIN h : t < m.seq
      BY <1>1, <2>2
    <3> QED
      BY <3>1, Zenon
  <2> QED
    BY <2>1, <2>2, Zenon
<1>4. g[l + 1] = compute_message_hash(m)
  BY <1>3, Zenon
<1>5. \A i \in 1 .. RATE_MAX : i > l + 1 => Stamped(r)[i] = RATE_WINDOW
  <2> SUFFICES ASSUME NEW i \in 1 .. RATE_MAX, i > l + 1 PROVE Stamped(r)[i] = RATE_WINDOW
    OBVIOUS
  <2>1. RATE_MAX \in Nat
    BY LimitsAssumption, Zenon
  <2>2. i # 1 /\ i - 1 \in 1 .. RATE_MAX /\ i - 1 > l
    BY <1>1, <2>1
  <2>3. r[i - 1] = RATE_WINDOW
    BY <2>2, Zenon DEF SenderKept
  <2> QED
    BY <2>2, <2>3, Zenon DEF Stamped
<1>6. m.seq = l + 1 /\ l + 1 \in Nat
  BY <1>1
<1> QED
  BY <1>2, <1>3, <1>4, <1>5, <1>6, Zenon DEF SenderKept

\* What the engine of n leaves of a message m that it records.
Records(n, m, l) ==
    /\ UNCHANGED <<memberVars, trustVars>>
    /\ \E g, r, z : /\ SenderKept(m.sender, g, r, l + 1, sent)
                    /\ z \subseteq seen[n] \cup {compute_message_hash(m)}
                    /\ history' = [history EXCEPT ![n][m.sender] = g]
                    /\ rate' = [rate EXCEPT ![n][m.sender] = r]
                    /\ seen' = [seen EXCEPT ![n] = z]

\* advance_state finds room for the next message of a sender, has not seen it,
\* and records it without a conflict.
LEMMA CountsNext ==
    ASSUME EngineInv, NEW n \in Host, NEW m \in sent, IsMessage(m), NEW res,
           ~Dropped(n, m.sender), NEW l,
           SenderKept(m.sender, history[n][m.sender], rate[n][m.sender], l, sent),
           m.seq = l + 1, l < RATE_MAX, compute_message_hash(m) \notin seen[n],
           advance_state(n, m, res)
    PROVE  Records(n, m, l)
<1> DEFINE h == history[n][m.sender]
           r == rate[n][m.sender]
           hash == compute_message_hash(m)
           seqs == DOMAIN h \cup {m.seq}
           kept == IF Cardinality(seqs) <= MAX_MSG_HISTORY THEN seqs
                   ELSE {s \in seqs : \E t \in seqs : t < s}
           g == [s \in kept |-> IF s = m.seq THEN hash ELSE h[s]]
<1>1. l \in Nat /\ DOMAIN h \subseteq 1 .. l /\ RATE_MAX \in Nat \ {0}
  BY LimitsAssumption, Zenon DEF SenderKept
<1>2. check_rate_limit(n, m.sender)
  <2>1. RATE_MAX \in 1 .. RATE_MAX /\ RATE_MAX > l
    BY <1>1
  <2> QED
    BY <2>1, Zenon DEF SenderKept, check_rate_limit
<1>3. Counted(n, m, res)
  BY <1>2, Zenon DEF advance_state, RateLimited, Repeated
<1>4. m.seq \notin DOMAIN h
  BY <1>1
<1>5. /\ history' = [history EXCEPT ![n][m.sender] = g]
      /\ UNCHANGED trustVars
  BY <1>3, <1>4, Zenon DEF Counted, detect_equivocation
<1>6. rate' = [rate EXCEPT ![n][m.sender] = Stamped(r)]
  <2>1. rate \in [Host -> [Node -> [1 .. RATE_MAX -> 0 .. RATE_WINDOW]]] /\ m.sender \in Node
    BY Zenon DEF EngineInv, EngineTypeOK, IsMessage
  <2>2. rate' = [rate EXCEPT ![n][m.sender] = Stamped(@)]
    BY <1>3, Zenon DEF Counted, StampRate
  <2> QED
    BY <2>1, <2>2, Zenon
<1>7. \E z : /\ z \subseteq seen[n] \cup {hash}
             /\ seen' = [seen EXCEPT ![n] = z]
  BY <1>3, Zenon DEF Counted, RememberSeen
<1>8. UNCHANGED memberVars
  BY <1>3, Zenon DEF Counted
<1>9. SenderKept(m.sender, g, Stamped(r), l + 1, sent)
  BY KeepsNext, Zenon
<1> HIDE DEF g, r, hash
<1>10. UNCHANGED <<memberVars, trustVars>>
  BY <1>5, <1>8, Zenon
<1> QED
  BY <1>5, <1>6, <1>7, <1>9, <1>10, Zenon DEF Records, hash
-----------------------------------------------------------------------------
\* A thread goes on, and broadcasts if and only if it did before.
LEMMA SendsOn ==
    ASSUME NEW n, NEW f, NEW sq, NEW l, NEW S, NodeSends(n, f, sq, l, S),
           DOMAIN f = Thread, NEW t \in Thread, NEW x, ThreadInTurn(n, t, x, sq, l, S),
           Sends(n, x) <=> Sends(n, f[t])
    PROVE  NodeSends(n, [f EXCEPT ![t] = x], sq, l, S)
<1> DEFINE g == [f EXCEPT ![t] = x]
<1>1. g[t] = x /\ \A u \in Thread : u # t => g[u] = f[u]
  OBVIOUS
<1> HIDE DEF g
<1>2. \A u \in Thread : Sends(n, g[u]) <=> Sends(n, f[u])
  BY <1>1, Zenon
<1>3. \A u \in Thread : ThreadInTurn(n, u, g[u], sq, l, S)
  BY <1>1, Zenon DEF NodeSends
<1>4. NodeSends(n, g, sq, l, S)
  BY <1>2, <1>3, Zenon DEF NodeSends
<1> QED
  BY <1>4, Zenon DEF g

\* A thread that does not broadcast can be anything else.
LEMMA IdleInTurn ==
    ASSUME NEW n, NEW t, NEW x, NEW sq, NEW l, NEW S,
           x.pc \notin {"chain", "verify", "advance"}
    PROVE  ThreadInTurn(n, t, x, sq, l, S) /\ ~Sends(n, x) /\ ~Heard(n, x)
BY Zenon DEF ThreadInTurn, Sends, Heard

\* A step of the threads of one node n, of its engine and of what is under way
\* to it, after which it has recorded k.
LEMMA SerialOfOne ==
    ASSUME NEW last, SerialFor(last), NEW n \in Host, NEW k \in [Node -> Nat],
           sent' = sent, MessagesChained(sent, seq'), AllTrusted',
           \A q \in Host \ {n} : /\ thr'[q] = thr[q] /\ seq'[q] = seq[q]
                                 /\ net'[q] = net[q] /\ seen'[q] = seen[q]
                                 /\ history'[q] = history[q] /\ rate'[q] = rate[q],
           NodeSends(n, thr'[n], seq'[n], k[n], sent),
           NodeHears(n, thr'[n]["listener"], net'[n], sent, k, seen'[n]),
           \A p \in Node : SenderKept(p, history'[n][p], rate'[n][p], k[p], sent)
    PROVE  \E next : SerialFor(next)'
<1> DEFINE next == [last EXCEPT ![n] = k]
<1>1. last \in [Host -> [Node -> Nat]]
  BY Zenon DEF SerialFor
<1>2. next \in [Host -> [Node -> Nat]] /\ next[n] = k /\ \A q \in Host : q # n => next[q] = last[q]
  BY <1>1, Zenon
<1> HIDE DEF next
<1>3. ASSUME NEW q \in Host
      PROVE  /\ NodeSends(q, thr'[q], seq'[q], next[q][q], sent')
             /\ NodeHears(q, thr'[q]["listener"], net'[q], sent', next[q], seen'[q])
             /\ \A p \in Node : SenderKept(p, history'[q][p], rate'[q][p], next[q][p], sent')
  <2>1. CASE q = n
    BY <1>2, <2>1, Zenon
  <2>2. CASE q # n
    <3>1. /\ NodeSends(q, thr[q], seq[q], last[q][q], sent)
          /\ NodeHears(q, thr[q]["listener"], net[q], sent, last[q], seen[q])
          /\ \A p \in Node : SenderKept(p, history[q][p], rate[q][p], last[q][p], sent)
      BY Zenon DEF SerialFor
    <3>2. /\ thr'[q] = thr[q] /\ seq'[q] = seq[q]
          /\ net'[q] = net[q] /\ seen'[q] = seen[q] /\ next[q] = last[q]
          /\ history'[q] = history[q] /\ rate'[q] = rate[q]
      BY <1>2, <2>2, Zenon
    <3> QED
      BY <3>1, <3>2, Zenon
  <2> QED
    BY <2>1, <2>2, Zenon
<1>4. MessagesChained(sent', seq')
  OBVIOUS
<1>5. SerialFor(next)'
  BY <1>2, <1>3, <1>4, Zenon DEF SerialFor
<1> QED
  BY <1>5, Zenon
-----------------------------------------------------------------------------
\* A thread t of n goes to x, and the engines keep what they have recorded.
Moved(n, t, x) == thr' = [thr EXCEPT ![n][t] = x]
MovesTo(n, t, x) ==
    /\ Moved(n, t, x)
    /\ UNCHANGED <<seq, sent, history, seen, rate, failures, equivocators, peer_keys>>

ListensAs(n, x) == thr'[n]["listener"] = x

\* The two ways in which the threads move.
LEMMA MovedAt ==
    ASSUME MeshInv, NEW n \in Host, NEW t \in Thread, NEW pc, NEW m, At(n, t, pc, m)
    PROVE  \E x : Moved(n, t, x) /\ x.pc = pc /\ x.msg = m
<1>1. ThreadsTyped
  BY Zenon DEF MeshInv
<1>2. PICK x : thr' = [thr EXCEPT ![n][t] = x] /\ x.pc = pc /\ x.msg = m
  BY <1>1, AtMoves
<1> QED
  BY <1>2, Zenon DEF Moved

\* A thread returns to rest, or to the bans it still has to propose.
LEMMA MovedBack ==
    ASSUME MeshInv, NEW n \in Host, NEW t \in Thread, Return(n, t)
    PROVE  \E x : Moved(n, t, x) /\ x.pc \in {"rest", "propose"}
<1>1. ThreadsTyped
  BY Zenon DEF MeshInv
<1>2. PICK x : thr' = [thr EXCEPT ![n][t] = x] /\ x.pc \in {"rest", "propose"}
  BY <1>1, ReturnMoves, Zenon
<1> QED
  BY <1>2, Zenon DEF Moved

\* The threads of n after such a step.
LEMMA ListenerAfter ==
    ASSUME MeshInv, NEW n \in Host, NEW t \in Thread, NEW x, Moved(n, t, x)
    PROVE  ListensAs(n, IF t = "listener" THEN x ELSE thr[n]["listener"])
BY Zenon DEF MeshInv, ThreadsTyped, Thread, Moved, ListensAs

\* Only the thread that moves changes.
LEMMA ThreadsAfter ==
    ASSUME MeshInv, NEW n \in Host, NEW t \in Thread, NEW x, Moved(n, t, x)
    PROVE  /\ thr'[n] = [thr[n] EXCEPT ![t] = x] /\ DOMAIN thr[n] = Thread
           /\ \A q \in Host \ {n} : thr'[q] = thr[q]
BY Zenon DEF MeshInv, ThreadsTyped, Thread, Moved

\* A step in which nothing is recorded, and n broadcasts as before.
LEMMA MoveSerial ==
    ASSUME MeshInv, NEW last, SerialFor(last), NEW n \in Host, NEW t \in Thread, NEW x,
           MovesTo(n, t, x), \A q \in Host \ {n} : net'[q] = net[q],
           ThreadInTurn(n, t, x, seq[n], last[n][n], sent),
           Sends(n, x) <=> Sends(n, thr[n][t]),
           NodeHears(n, thr'[n]["listener"], net'[n], sent, last[n], seen[n])
    PROVE  \E next : SerialFor(next)'
<1>1. /\ Moved(n, t, x)
      /\ sent' = sent /\ seq' = seq /\ history' = history /\ rate' = rate /\ seen' = seen
      /\ failures' = failures /\ equivocators' = equivocators /\ peer_keys' = peer_keys
  BY Zenon DEF MovesTo
<1>2. /\ last[n] \in [Node -> Nat] /\ MessagesChained(sent, seq) /\ AllTrusted
      /\ NodeSends(n, thr[n], seq[n], last[n][n], sent)
      /\ \A p \in Node : SenderKept(p, history[n][p], rate[n][p], last[n][p], sent)
  BY Zenon DEF SerialFor
<1>3. /\ thr'[n] = [thr[n] EXCEPT ![t] = x] /\ DOMAIN thr[n] = Thread
      /\ \A q \in Host \ {n} : thr'[q] = thr[q]
  BY <1>1, ThreadsAfter, Zenon
<1>4. NodeSends(n, thr'[n], seq[n], last[n][n], sent)
  <2>1. NodeSends(n, [thr[n] EXCEPT ![t] = x], seq[n], last[n][n], sent)
    BY <1>2, <1>3, SendsOn, Zenon
  <2> QED
    BY <1>3, <2>1, Zenon
<1>5. AllTrusted'
  BY <1>1, <1>2, Zenon DEF AllTrusted, NobodyFails
<1>6. \A q \in Host \ {n} : /\ thr'[q] = thr[q] /\ seq'[q] = seq[q]
                            /\ net'[q] = net[q] /\ seen'[q] = seen[q]
                            /\ history'[q] = history[q] /\ rate'[q] = rate[q]
  BY <1>1, <1>3, Zenon
<1>7. /\ NodeSends(n, thr'[n], seq'[n], last[n][n], sent)
      /\ NodeHears(n, thr'[n]["listener"], net'[n], sent, last[n], seen'[n])
      /\ MessagesChained(sent, seq')
      /\ \A p \in Node : SenderKept(p, history'[n][p], rate'[n][p], last[n][p], sent)
  BY <1>1, <1>2, <1>4, Zenon
<1> QED
  BY <1>1, <1>2, <1>5, <1>6, <1>7, SerialOfOne, Zenon

\* What n hears does not depend on a thread that has no message of another node.
LEMMA HearsStill ==
    ASSUME NEW n, NEW x, NEW y, NEW N, NEW S, NEW k, NEW z,
           NodeHears(n, x, N, S, k, z), ~Heard(n, x), ~Heard(n, y)
    PROVE  NodeHears(n, y, N, S, k, z)
BY Zenon DEF NodeHears

\* A step outside of the broadcast and of advance_state.
LEMMA QuietSerial ==
    ASSUME MeshInv, NEW last, SerialFor(last), NEW n \in Host, NEW t \in Thread, NEW x,
           MovesTo(n, t, x), net' = net,
           thr[n][t].pc \notin {"chain", "verify", "advance"},
           x.pc \notin {"chain", "verify", "advance"}
    PROVE  \E next : SerialFor(next)'
<1>0. Moved(n, t, x)
  BY Zenon DEF MovesTo
<1>1. NodeHears(n, thr[n]["listener"], net[n], sent, last[n], seen[n])
  BY Zenon DEF SerialFor
<1>2. ~Heard(n, thr[n][t]) /\ ~Sends(n, thr[n][t])
  BY IdleInTurn, Zenon
<1>3. ~Heard(n, x) /\ ~Sends(n, x) /\ ThreadInTurn(n, t, x, seq[n], last[n][n], sent)
  BY IdleInTurn, Zenon
<1>4. thr'[n]["listener"] = IF t = "listener" THEN x ELSE thr[n]["listener"]
  BY <1>0, ListenerAfter, Zenon DEF ListensAs
<1>5. NodeHears(n, thr'[n]["listener"], net'[n], sent, last[n], seen[n])
  BY <1>1, <1>2, <1>3, <1>4, HearsStill, Zenon
<1>6. \A q \in Host \ {n} : net'[q] = net[q]
  BY Zenon
<1> QED
  BY <1>2, <1>3, <1>5, <1>6, MoveSerial, Zenon

\* The steps that start a proposal leave the messages and the engines alone.
LEMMA StartingSerial ==
    ASSUME MeshInv, NEW last, SerialFor(last), NEW n \in Host, Starting(n)
    PROVE  \E next : SerialFor(next)'
<1> DEFINE Kept == /\ UNCHANGED <<seq, sent, history, seen, rate, failures, equivocators,
                                  peer_keys>>
                   /\ net' = net
<1>1. ThreadsTyped /\ "beacon" \in Thread /\ Callers \subseteq Thread
  BY Zenon DEF MeshInv, Thread
<1>2. UNCHANGED engineVars /\ UNCHANGED <<seq, sent, net>> => Kept
  BY Zenon DEF engineVars, trustVars, chainVars, memberVars
<1>3. ASSUME NEW t \in Callers, NEW k \in Round, CheckCooldown(n, t, k)
      PROVE  \E next : SerialFor(next)'
  <2> DEFINE m == [stage |-> "PRE_PREPARE", round |-> k]
  <2>1. thr[n][t].pc = "rest" /\ At(n, t, "cool", m) /\ Kept /\ t \in Thread
    BY <1>1, <1>2, <1>3, Zenon DEF CheckCooldown
  <2> HIDE DEF m, Kept
  <2>2. PICK x : Moved(n, t, x) /\ x.pc = "cool"
    BY <1>1, <2>1, MovedAt
  <2>3. MovesTo(n, t, x) /\ net' = net
    BY <2>1, <2>2, Zenon DEF MovesTo, Kept
  <2> QED
    BY <1>1, <2>1, <2>2, <2>3, QuietSerial, Zenon
<1>4. ASSUME NEW t \in Callers, SetCooldown(n, t)
      PROVE  \E next : SerialFor(next)'
  <2>1. thr[n][t].pc = "cool" /\ At(n, t, "broadcast", thr[n][t].msg) /\ Kept /\ t \in Thread
    BY <1>1, <1>2, <1>4, Zenon DEF SetCooldown
  <2> HIDE DEF Kept
  <2>2. PICK x : Moved(n, t, x) /\ x.pc = "broadcast"
    BY <1>1, <2>1, MovedAt
  <2>3. MovesTo(n, t, x) /\ net' = net
    BY <2>1, <2>2, Zenon DEF MovesTo, Kept
  <2>4. /\ thr[n][t].pc \notin {"chain", "verify", "advance"}
        /\ x.pc \notin {"chain", "verify", "advance"}
    BY <2>1, <2>2, Zenon
  <2> QED
    BY <1>1, <2>1, <2>3, <2>4, QuietSerial, Zenon
<1>5. ASSUME DrainBans(n)
      PROVE  \E next : SerialFor(next)'
  <2> DEFINE y == [Resting EXCEPT !.pc = "propose", !.bans = recent_bans[n]]
  <2>1. /\ thr[n]["beacon"].pc = "rest" /\ Kept
        /\ Moved(n, "beacon", y)
    BY <1>5, Zenon DEF Moved, DrainBans, drain_recent_bans, trustVars, chainVars
  <2>2. y.pc = "propose"
    BY Zenon DEF Resting
  <2> HIDE DEF y, Kept
  <2>3. MovesTo(n, "beacon", y) /\ net' = net
    BY <2>1, <2>2, Zenon DEF MovesTo, Kept
  <2>4. /\ thr[n]["beacon"].pc \notin {"chain", "verify", "advance"}
        /\ y.pc \notin {"chain", "verify", "advance"}
    BY <2>1, <2>2, Zenon
  <2> QED
    BY <1>1, <2>1, <2>3, <2>4, QuietSerial, Zenon
<1>6. ASSUME NEW p, ProposeBan(n, p)
      PROVE  \E next : SerialFor(next)'
  <2>1. Kept /\ thr[n]["beacon"].pc = "propose"
    BY <1>2, <1>6, Zenon DEF ProposeBan
  <2>2. DOMAIN thr[n]["beacon"] = {"pc", "msg", "bans"}
    BY <1>1, Zenon DEF ThreadsTyped, ThreadTyped
  <2>3. PICK x : Moved(n, "beacon", x) /\ x.pc \in {"broadcast", "rest", "propose"}
    BY <1>6, <2>1, <2>2 DEF ProposeBan, Resting, Moved
  <2> HIDE DEF Kept
  <2>4. MovesTo(n, "beacon", x) /\ net' = net
    BY <2>1, <2>3, Zenon DEF MovesTo, Kept
  <2>5. /\ thr[n]["beacon"].pc \notin {"chain", "verify", "advance"}
        /\ x.pc \notin {"chain", "verify", "advance"}
    BY <2>1, <2>3, Zenon
  <2> QED
    BY <1>1, <2>1, <2>4, <2>5, QuietSerial, Zenon
<1> QED
  BY <1>3, <1>4, <1>5, <1>6, Zenon DEF Starting

\* Executing a round leaves what the engines keep of their senders.
LEMMA ExecuteSerial ==
    ASSUME MeshInv, NEW last, SerialFor(last), NEW n \in Host, NEW t \in Thread,
           Execute(n, t)
    PROVE  \E next : SerialFor(next)'
<1>1. /\ thr[n][t].pc = "execute" /\ Return(n, t) /\ UNCHANGED <<seq, sent, net>>
      /\ UNCHANGED engineVars \/ \E p : ban_peer_local(n, p)
  BY Zenon DEF Execute
<1>2. UNCHANGED <<history, seen, rate, failures, equivocators, peer_keys>>
  BY <1>1, Zenon DEF ban_peer_local, engineVars, trustVars, chainVars, memberVars
<1>3. PICK x : Moved(n, t, x) /\ x.pc \in {"rest", "propose"}
  BY <1>1, MovedBack, Zenon
<1>4. MovesTo(n, t, x) /\ net' = net
  BY <1>1, <1>2, <1>3, Zenon DEF MovesTo
<1>5. /\ thr[n][t].pc \notin {"chain", "verify", "advance"}
      /\ x.pc \notin {"chain", "verify", "advance"}
  BY <1>1, <1>3, Zenon
<1> QED
  BY <1>1, <1>4, <1>5, QuietSerial, Zenon

\* A node's own message passes its own engine.
LEMMA VerifyOwnSerial ==
    ASSUME MeshInv, CauseInv, WithinLimits, NEW last, SerialFor(last), NEW n \in Host,
           NEW t \in Thread, VerifyOwn(n, t)
    PROVE  \E next : SerialFor(next)'
<1> DEFINE m == thr[n][t].msg
<1>1. thr[n][t].pc = "verify" /\ m \in sent /\ IsMessage(m)
  BY MessageInHand, Zenon DEF VerifyOwn
<1>2. /\ \/ verify_message(n, m, TRUE) /\ At(n, t, "advance", m)
         \/ verify_message(n, m, FALSE) /\ Return(n, t)
      /\ UNCHANGED <<seq, sent, net>>
  BY Zenon DEF VerifyOwn
<1>3. n \in Node /\ m.sender \in Node
  BY <1>1, HostAssumption, Zenon DEF IsMessage
<1>4. /\ MessagesChained(sent, seq) /\ AllTrusted
      /\ NodeSends(n, thr[n], seq[n], last[n][n], sent)
      /\ SenderKept(n, history[n][n], rate[n][n], last[n][n], sent)
      /\ NodeHears(n, thr[n]["listener"], net[n], sent, last[n], seen[n])
  BY <1>3, Zenon DEF SerialFor
<1>5. Sends(n, thr[n][t]) /\ ~Heard(n, thr[n][t])
  BY <1>1, Zenon DEF Sends, Heard
<1>6. m.sender = n /\ m.seq = seq[n] /\ last[n][n] = seq[n] - 1
  BY <1>1, <1>4, <1>5, Zenon DEF NodeSends, ThreadInTurn
<1> HIDE DEF m
<1>7. seq[n] \in Nat
  BY DEF MeshInv, NodesTyped
<1>8. m.seq = last[n][n] + 1
  BY <1>6, <1>7
<1>9. Authentic(n, m)
  BY <1>1, <1>4, <1>6, <1>8, NextIsAuthentic, Zenon DEF WithinLimits
<1>10. ~Dropped(n, m.sender)
  BY <1>3, <1>4, NobodyDropped, Zenon
<1>11. At(n, t, "advance", m) /\ UNCHANGED engineVars
  BY <1>1, <1>2, <1>4, <1>9, <1>10, VerifiesNext, Zenon DEF MeshInv
<1>12. PICK x : Moved(n, t, x) /\ x.pc = "advance" /\ x.msg = m
  BY <1>11, MovedAt
<1>13. MovesTo(n, t, x) /\ net' = net
  BY <1>2, <1>11, <1>12, Zenon DEF MovesTo, engineVars, memberVars, trustVars, chainVars
<1>14. Sends(n, x) /\ ~Heard(n, x) /\ ThreadInTurn(n, t, x, seq[n], last[n][n], sent)
  BY <1>6, <1>12, Zenon DEF Sends, Heard, ThreadInTurn
<1>15. thr'[n]["listener"] = IF t = "listener" THEN x ELSE thr[n]["listener"]
  BY <1>12, ListenerAfter, Zenon DEF ListensAs
<1>16. NodeHears(n, thr'[n]["listener"], net'[n], sent, last[n], seen[n])
  BY <1>4, <1>5, <1>13, <1>14, <1>15, HearsStill, Zenon
<1>17. \A q \in Host \ {n} : net'[q] = net[q]
  BY <1>13, Zenon
<1> QED
  BY <1>5, <1>13, <1>14, <1>16, <1>17, MoveSerial, Zenon

\* What a node receives is the next message of its sender, and passes.
LEMMA ReceiveSerial ==
    ASSUME MeshInv, CauseInv, WithinLimits, NEW last, SerialFor(last), NEW n \in Host,
           NEW m \in net[n], Receive(n, m)
    PROVE  \E next : SerialFor(next)'
<1>1. m \in sent /\ IsMessage(m) /\ net[n] \subseteq sent /\ "listener" \in Thread
  BY Zenon DEF MeshInv, NodesTyped, SentTyped, Thread
<1>2. /\ thr[n]["listener"].pc = "rest"
      /\ \A h \in net[n] : h.sender = m.sender => h.seq >= m.seq
      /\ net' = [net EXCEPT ![n] = @ \ {m}]
      /\ \/ verify_message(n, m, TRUE) /\ At(n, "listener", "advance", m)
         \/ verify_message(n, m, FALSE) /\ UNCHANGED thr
      /\ UNCHANGED <<seq, sent>>
  BY Zenon DEF Receive, WithinLimits
<1>3. m.sender \in Node /\ m.seq \in Nat
  BY <1>1, Zenon DEF IsMessage
<1> DEFINE p == m.sender
           k == last[n]
<1>4. /\ MessagesChained(sent, seq) /\ AllTrusted /\ k \in [Node -> Nat]
      /\ SenderKept(p, history[n][p], rate[n][p], k[p], sent)
      /\ NodeHears(n, thr[n]["listener"], net[n], sent, k, seen[n])
  BY <1>3, Zenon DEF SerialFor
<1>5. ~Heard(n, thr[n]["listener"]) /\ ~Sends(n, thr[n]["listener"])
  BY <1>2, IdleInTurn, Zenon
<1> HIDE DEF k
<1>6. /\ p # n /\ m.seq > k[p]
      /\ \A h \in sent : h.sender # n /\ h.seq > k[h.sender] => h \in net[n]
  BY <1>4, <1>5, Zenon DEF NodeHears
<1>7. m.seq = k[p] + 1
  <2>0. m.seq \in Nat /\ k[p] \in Nat
    BY <1>3, <1>4, Zenon
  <2> SUFFICES ASSUME m.seq > k[p] + 1 PROVE FALSE
    BY <1>6, <2>0, NextNumber, Zenon
  <2>1. m.seq > 1 /\ m.seq - 1 > k[p] /\ ~(m.seq - 1 >= m.seq)
    BY <2>0, NumberBetween, Zenon
  <2>2. PICK h \in sent : h.sender = p /\ h.seq = m.seq - 1
    BY <1>1, <1>4, <2>1, Zenon DEF MessagesChained
  <2>3. h.seq > k[h.sender] /\ ~(h.seq >= m.seq)
    BY <2>1, <2>2, Zenon
  <2>4. h \in net[n]
    BY <1>6, <2>2, <2>3, Zenon
  <2> QED
    BY <1>2, <2>2, <2>3, <2>4, Zenon
<1>8. Authentic(n, m)
  BY <1>1, <1>4, <1>7, NextIsAuthentic, Zenon DEF WithinLimits
<1>9. ~Dropped(n, p)
  BY <1>3, <1>4, NobodyDropped, Zenon
<1>10. At(n, "listener", "advance", m) /\ UNCHANGED engineVars
  BY <1>1, <1>2, <1>4, <1>8, <1>9, VerifiesNext, Zenon DEF MeshInv
<1>11. PICK x : Moved(n, "listener", x) /\ x.pc = "advance" /\ x.msg = m
  BY <1>1, <1>10, MovedAt
<1>12. MovesTo(n, "listener", x)
  <2>1. UNCHANGED <<history, seen, rate, failures, equivocators, peer_keys>>
    BY <1>10, Zenon DEF engineVars, memberVars, trustVars, chainVars
  <2>2. UNCHANGED <<seq, sent>>
    BY <1>2, Zenon
  <2> QED
    BY <1>11, <2>1, <2>2, Zenon DEF MovesTo
<1>13. ~Sends(n, x) /\ Heard(n, x) /\ ThreadInTurn(n, "listener", x, seq[n], last[n][n], sent)
  BY <1>6, <1>11, Zenon DEF Sends, Heard, ThreadInTurn
<1>14. thr'[n]["listener"] = x
  BY <1>1, <1>11, ListenerAfter, Zenon DEF ListensAs
<1>15. net'[n] = net[n] \ {m} /\ \A q \in Host \ {n} : net'[q] = net[q]
  BY <1>2, Zenon DEF MeshInv, NodesTyped
<1>16. NodeHears(n, x, net[n] \ {m}, sent, k, seen[n])
  <2>1. \A g \in seen[n] : \E o \in sent : g = compute_message_hash(o) /\ o.seq <= k[o.sender]
    BY <1>4, Zenon DEF NodeHears
  <2>2. \A o \in net[n] \ {m} : o.sender # n /\ o.seq > k[o.sender] /\ o # x.msg
    BY <1>4, <1>11, Zenon DEF NodeHears
  <2>3. \A o \in sent : o.sender # n /\ o.seq > k[o.sender] /\ o \notin net[n] \ {m}
                           => o = x.msg
    BY <1>6, <1>11, Zenon
  <2> QED
    BY <1>7, <1>11, <1>13, <2>1, <2>2, <2>3, Zenon DEF NodeHears
<1>17. NodeHears(n, thr'[n]["listener"], net'[n], sent, last[n], seen[n])
  BY <1>14, <1>15, <1>16, Zenon DEF k
<1> QED
  BY <1>1, <1>5, <1>12, <1>13, <1>15, <1>17, MoveSerial, Zenon
-----------------------------------------------------------------------------
\* The number is taken when no other thread of the node is broadcasting.
LEMMA TakeSequenceSerial ==
    ASSUME MeshInv, NEW last, SerialFor(last), NEW n \in Host, NEW t \in Thread,
           TakeSequence(n, t), OneSends(n)'
    PROVE  \E next : SerialFor(next)'
<1> DEFINE m == [stage |-> thr[n][t].msg.stage, round |-> thr[n][t].msg.round,
                 seq |-> seq[n] + 1, view |-> current_view[n]]
<1>1. /\ thr[n][t].pc = "broadcast" /\ seq' = [seq EXCEPT ![n] = @ + 1]
      /\ At(n, t, "chain", m) /\ UNCHANGED <<engineVars, sent, net>>
  BY Zenon DEF TakeSequence
<1>2. m.seq = seq[n] + 1
  OBVIOUS
<1> HIDE DEF m
<1>3. PICK x : Moved(n, t, x) /\ x.pc = "chain" /\ x.msg = m
  BY <1>1, MovedAt
<1>40. thr'[n]["listener"] = IF t = "listener" THEN x ELSE thr[n]["listener"]
  BY <1>3, ListenerAfter, Zenon DEF ListensAs
<1>4. /\ thr'[n] = [thr[n] EXCEPT ![t] = x] /\ DOMAIN thr[n] = Thread
      /\ \A q \in Host \ {n} : thr'[q] = thr[q]
  BY <1>3, ThreadsAfter, Zenon
<1>5. /\ sent' = sent /\ net' = net /\ history' = history /\ rate' = rate /\ seen' = seen
      /\ failures' = failures /\ equivocators' = equivocators /\ peer_keys' = peer_keys
  BY <1>1, Zenon DEF engineVars, memberVars, trustVars, chainVars
<1>6. /\ last[n] \in [Node -> Nat] /\ MessagesChained(sent, seq) /\ AllTrusted
      /\ NodeSends(n, thr[n], seq[n], last[n][n], sent)
      /\ NodeHears(n, thr[n]["listener"], net[n], sent, last[n], seen[n])
      /\ \A p \in Node : SenderKept(p, history[n][p], rate[n][p], last[n][p], sent)
  BY Zenon DEF SerialFor
<1>7. thr'[n][t] = x /\ \A u \in Thread : u # t => thr'[n][u] = thr[n][u]
  BY <1>4, Zenon
<1>8. Sends(n, x) /\ ~Heard(n, x) /\ ~Sends(n, thr[n][t]) /\ ~Heard(n, thr[n][t])
  BY <1>1, <1>3, Zenon DEF Sends, Heard
<1>9. \A u \in Thread : ~Sends(n, thr[n][u])
  <2>1. \A u \in Thread : Sends(n, thr'[n][t]) /\ Sends(n, thr'[n][u]) => t = u
    BY Zenon DEF OneSends
  <2> QED
    BY <1>7, <1>8, <2>1, Zenon
<1>10. last[n][n] = seq[n]
  BY <1>6, <1>9, Zenon DEF NodeSends
<1>11. seq \in [Host -> Nat] /\ seq' \in [Host -> Nat] /\ seq'[n] = seq[n] + 1
       /\ \A q \in Host : q # n => seq'[q] = seq[q]
  BY <1>1 DEF MeshInv, NodesTyped
<1>12. \A o \in sent : o.sender \in Host /\ o.seq \in 1 .. seq[o.sender]
  BY <1>6, Zenon DEF MeshInv, SentTyped, MessagesChained
<1>13. MessagesChained(sent, seq')
  <2>1. ASSUME NEW o \in sent PROVE o.seq \in 1 .. seq'[o.sender]
    <3>1. o.sender \in Host /\ o.seq \in 1 .. seq[o.sender] /\ seq[o.sender] \in Nat
      BY <1>11, <1>12, Zenon
    <3>2. o.seq \in 1 .. seq[o.sender] + 1
      BY <3>1, NumberTaken, Zenon
    <3> QED
      BY <1>11, <3>1, <3>2, Zenon
  <2> QED
    BY <1>6, <2>1, Zenon DEF MessagesChained
<1>14. ThreadInTurn(n, t, x, seq'[n], last[n][n], sent)
  <2>0. seq[n] \in Nat
    BY <1>11, Zenon
  <2>1. ASSUME NEW o \in sent, o.sender = n PROVE o.seq < seq'[n]
    BY <1>11, <1>12, <2>0, <2>1, NumberTaken, Zenon
  <2>2. x.msg.seq = seq'[n] /\ last[n][n] = seq'[n] - 1
    BY <1>2, <1>3, <1>10, <1>11, <2>0, NumberTaken, Zenon
  <2> QED
    BY <1>3, <2>1, <2>2, Zenon DEF ThreadInTurn
<1>15. \A u \in Thread : u # t => ThreadInTurn(n, u, thr'[n][u], seq'[n], last[n][n], sent)
  <2> SUFFICES ASSUME NEW u \in Thread, u # t
               PROVE  ThreadInTurn(n, u, thr[n][u], seq'[n], last[n][n], sent)
    BY <1>7, Zenon
  <2>1. ~Sends(n, thr[n][u]) /\ ThreadInTurn(n, u, thr[n][u], seq[n], last[n][n], sent)
    BY <1>6, <1>9, Zenon DEF NodeSends
  <2> QED
    BY <2>1, Zenon DEF Sends, ThreadInTurn
<1>16. NodeSends(n, thr'[n], seq'[n], last[n][n], sent)
  <2>1. \A u \in Thread : ThreadInTurn(n, u, thr'[n][u], seq'[n], last[n][n], sent)
    BY <1>7, <1>14, <1>15, Zenon
  <2>2. \A u \in Thread : Sends(n, thr'[n][u]) <=> u = t
    BY <1>7, <1>8, <1>9, Zenon
  <2> QED
    BY <2>1, <2>2, Zenon DEF NodeSends
<1>17. NodeHears(n, thr'[n]["listener"], net'[n], sent, last[n], seen'[n])
  <2>1. NodeHears(n, thr'[n]["listener"], net[n], sent, last[n], seen[n])
    BY <1>40, <1>6, <1>8, HearsStill, Zenon
  <2> QED
    BY <1>5, <2>1, Zenon
<1>18. AllTrusted'
  BY <1>5, <1>6, Zenon DEF AllTrusted, NobodyFails
<1>19. \A q \in Host \ {n} : /\ thr'[q] = thr[q] /\ seq'[q] = seq[q]
                             /\ net'[q] = net[q] /\ seen'[q] = seen[q]
                             /\ history'[q] = history[q] /\ rate'[q] = rate[q]
  BY <1>4, <1>5, <1>11, Zenon
<1>20. \A p \in Node : SenderKept(p, history'[n][p], rate'[n][p], last[n][p], sent)
  BY <1>5, <1>6, Zenon
<1> QED
  BY <1>5, <1>6, <1>13, <1>16, <1>17, <1>18, <1>19, <1>20, SerialOfOne, Zenon

\* A new message that follows the last one of its sender.
LEMMA ChainsNew ==
    ASSUME NEW S, NEW sq, MessagesChained(S, sq), NEW m, m.sig = TRUE,
           m.seq \in 1 .. sq[m.sender],
           m.seq > 1 => \E h \in S : /\ h.sender = m.sender /\ h.seq = m.seq - 1
                                     /\ m.prev = compute_message_hash(h),
           \A h \in S : h.sender = m.sender => h.seq # m.seq
    PROVE  MessagesChained(S \cup {m}, sq)
<1> SUFFICES ASSUME NEW o \in S \cup {m}
             PROVE  /\ o.sig = TRUE /\ o.seq \in 1 .. sq[o.sender]
                    /\ o.seq > 1 => \E h \in S \cup {m} :
                                       /\ h.sender = o.sender /\ h.seq = o.seq - 1
                                       /\ o.prev = compute_message_hash(h)
                    /\ \A h \in S \cup {m} : h.sender = o.sender /\ h.seq = o.seq => h = o
  BY Zenon DEF MessagesChained
<1>1. CASE o \in S
  <2>1. /\ o.sig = TRUE /\ o.seq \in 1 .. sq[o.sender]
        /\ o.seq > 1 => \E h \in S : /\ h.sender = o.sender /\ h.seq = o.seq - 1
                                     /\ o.prev = compute_message_hash(h)
        /\ \A h \in S : h.sender = o.sender /\ h.seq = o.seq => h = o
    BY <1>1, Zenon DEF MessagesChained
  <2>2. ~(m.sender = o.sender /\ m.seq = o.seq)
    BY <1>1, Zenon
  <2> QED
    BY <2>1, <2>2, Zenon
<1>2. CASE o = m
  BY <1>2, Zenon
<1> QED
  BY <1>1, <1>2, Zenon

\* What a node keeps of a sender stays so as more is sent.
LEMMA KeptWithMore ==
    ASSUME NEW p, NEW h, NEW r, NEW l, NEW S, NEW T, S \subseteq T, SenderKept(p, h, r, l, S)
    PROVE  SenderKept(p, h, r, l, T)
BY Zenon DEF SenderKept

\* The hash that the next message of n names.
LEMMA LastSentHash ==
    ASSUME NEW n \in Host, NEW r, NEW l, SenderKept(n, history[n][n], r, l, sent), l > 0
    PROVE  \E h \in sent : /\ h.sender = n /\ h.seq = l
                           /\ get_last_sent_hash(n) = compute_message_hash(h)
<1> DEFINE H == history[n][n]
           top == CHOOSE s \in DOMAIN H : \A t \in DOMAIN H : t <= s
<1>1. l \in Nat /\ DOMAIN H \subseteq 1 .. l /\ l \in DOMAIN H
  BY Zenon DEF SenderKept
<1>2. \A t \in DOMAIN H : t <= l
  BY <1>1
<1>3. top \in DOMAIN H /\ \A t \in DOMAIN H : t <= top
  BY <1>1, <1>2, Zenon
<1>4. top = l
  BY <1>1, <1>3
<1>5. get_last_sent_hash(n) = H[l]
  BY <1>1, <1>4, Zenon DEF get_last_sent_hash
<1> QED
  BY <1>5, Zenon DEF SenderKept

\* The message that SendVote makes, and what it changes.
LEMMA SendVoteMakes ==
    ASSUME MeshInv, NEW n \in Host, NEW t \in Thread, SendVote(n, t)
    PROVE  \E m : /\ m.sender = n /\ m.sig = TRUE /\ m.seq = thr[n][t].msg.seq
                  /\ m.prev = get_last_sent_hash(n)
                  /\ thr[n][t].pc = "chain" /\ At(n, t, "verify", m)
                  /\ sent' = sent \cup {m}
                  /\ net' = [q \in Host |-> IF q = n THEN net[q] ELSE net[q] \cup {m}]
                  /\ UNCHANGED <<seq, history, seen, rate, failures, equivocators, peer_keys>>
<1> DEFINE b == thr[n][t].msg
           m == [stage |-> b.stage, sender |-> n, round |-> b.round, seq |-> b.seq,
                 view |-> b.view, sig |-> TRUE, prev |-> get_last_sent_hash(n)]
<1>1. /\ thr[n][t].pc = "chain"
      /\ set_round_commit_sig(n, m.round) \/ UNCHANGED engineVars
      /\ sent' = sent \cup {m}
      /\ net' = [q \in Host |-> IF q = n THEN net[q] ELSE net[q] \cup {m}]
      /\ At(n, t, "verify", m) /\ UNCHANGED seq
  BY Zenon DEF SendVote
<1>2. UNCHANGED <<history, seen, rate, failures, equivocators, peer_keys>>
  BY <1>1, Zenon DEF set_round_commit_sig, engineVars, memberVars, trustVars, chainVars
<1>3. /\ m.sender = n /\ m.sig = TRUE /\ m.seq = thr[n][t].msg.seq
      /\ m.prev = get_last_sent_hash(n)
  OBVIOUS
<1> HIDE DEF m
<1>4. UNCHANGED <<seq, history, seen, rate, failures, equivocators, peer_keys>>
  BY <1>1, <1>2, Zenon
<1> QED
  BY <1>1, <1>3, <1>4, Zenon

\* What another node q hears when a new message m is under way to it.
LEMMA HearsMore ==
    ASSUME NEW q, NEW x, NEW N, NEW S, NEW k, NEW z, NodeHears(q, x, N, S, k, z),
           NEW m, m.sender # q, m.seq > k[m.sender], Heard(q, x) => m # x.msg
    PROVE  NodeHears(q, x, N \cup {m}, S \cup {m}, k, z)
<1>1. \A g \in z : \E o \in S \cup {m} : g = compute_message_hash(o) /\ o.seq <= k[o.sender]
  BY Zenon DEF NodeHears
<1>2. \A o \in N \cup {m} : /\ o.sender # q /\ o.seq > k[o.sender]
                            /\ Heard(q, x) => o # x.msg
  BY Zenon DEF NodeHears
<1>3. \A o \in S \cup {m} : o.sender # q /\ o.seq > k[o.sender] /\ o \notin N \cup {m}
                               => Heard(q, x) /\ o = x.msg
  BY Zenon DEF NodeHears
<1>4. Heard(q, x) => x.msg.seq = k[x.msg.sender] + 1
  BY Zenon DEF NodeHears
<1> QED
  BY <1>1, <1>2, <1>3, <1>4, Zenon DEF NodeHears

\* What a node sends does not change what it hears.
LEMMA HearsOwn ==
    ASSUME NEW n, NEW x, NEW N, NEW S, NEW k, NEW z, NodeHears(n, x, N, S, k, z),
           NEW m, m.sender = n
    PROVE  NodeHears(n, x, N, S \cup {m}, k, z)
<1>1. \A g \in z : \E o \in S \cup {m} : g = compute_message_hash(o) /\ o.seq <= k[o.sender]
  BY Zenon DEF NodeHears
<1>2. \A o \in S \cup {m} : o.sender # n /\ o.seq > k[o.sender] /\ o \notin N
                               => Heard(n, x) /\ o = x.msg
  BY Zenon DEF NodeHears
<1> QED
  BY <1>1, <1>2, Zenon DEF NodeHears

\* Every other node has recorded less of n than n has broadcast.
LEMMA SendVoteSerial ==
    ASSUME MeshInv, NEW last, SerialFor(last), NEW n \in Host, NEW t \in Thread,
           SendVote(n, t)
    PROVE  \E next : SerialFor(next)'
<1>1. PICK m : /\ m.sender = n /\ m.sig = TRUE /\ m.seq = thr[n][t].msg.seq
               /\ m.prev = get_last_sent_hash(n)
               /\ thr[n][t].pc = "chain" /\ At(n, t, "verify", m)
               /\ sent' = sent \cup {m}
               /\ net' = [q \in Host |-> IF q = n THEN net[q] ELSE net[q] \cup {m}]
               /\ UNCHANGED <<seq, history, seen, rate, failures, equivocators, peer_keys>>
  BY SendVoteMakes, Zenon
<1>2. PICK x : Moved(n, t, x) /\ x.pc = "verify" /\ x.msg = m
  BY <1>1, MovedAt
<1>3. /\ thr'[n] = [thr[n] EXCEPT ![t] = x] /\ DOMAIN thr[n] = Thread
      /\ \A q \in Host \ {n} : thr'[q] = thr[q]
  BY <1>2, ThreadsAfter, Zenon
<1>4. thr'[n]["listener"] = IF t = "listener" THEN x ELSE thr[n]["listener"]
  BY <1>2, ListenerAfter, Zenon DEF ListensAs
<1>5. /\ last \in [Host -> [Node -> Nat]] /\ MessagesChained(sent, seq) /\ AllTrusted
      /\ \A q \in Host :
            /\ NodeSends(q, thr[q], seq[q], last[q][q], sent)
            /\ NodeHears(q, thr[q]["listener"], net[q], sent, last[q], seen[q])
            /\ \A p \in Node : SenderKept(p, history[q][p], rate[q][p], last[q][p], sent)
  BY Zenon DEF SerialFor
<1>6. n \in Node /\ seq[n] \in Nat /\ \A q \in Host : last[q][n] \in Nat
  <2>1. n \in Node /\ seq[n] \in 0 .. MaxSeq
    BY HostAssumption, Zenon DEF MeshInv, NodesTyped
  <2>2. seq[n] \in Nat
    BY <2>1
  <2>3. ASSUME NEW q \in Host PROVE last[q][n] \in Nat
    <3>1. last[q] \in [Node -> Nat]
      BY <1>5, Zenon
    <3> QED
      BY <2>1, <3>1, Zenon
  <2> QED
    BY <2>1, <2>2, <2>3, Zenon
<1>7. Sends(n, thr[n][t]) /\ Sends(n, x)
  BY <1>1, <1>2, Zenon DEF Sends
<1>8. /\ \A o \in sent : o.sender = n => o.seq < seq[n]
      /\ m.seq = seq[n] /\ last[n][n] = seq[n] - 1
  <2>1. ThreadInTurn(n, t, thr[n][t], seq[n], last[n][n], sent)
    BY <1>5, Zenon DEF NodeSends
  <2> QED
    BY <1>1, <1>7, <2>1, Zenon DEF ThreadInTurn
<1>80. /\ seq[n] \in 1 .. seq[n] /\ seq[n] > 0 /\ ~(seq[n] < seq[n])
       /\ seq[n] > 1 => last[n][n] > 0
  BY <1>6, <1>8, NumberUsed, Zenon
<1>9. MessagesChained(sent', seq')
  <2>1. m.seq \in 1 .. seq[m.sender]
    BY <1>1, <1>8, <1>80, Zenon
  <2>2. \A o \in sent : o.sender = m.sender => o.seq # m.seq
    BY <1>1, <1>8, <1>80, Zenon
  <2>3. ASSUME m.seq > 1
        PROVE  \E h \in sent : /\ h.sender = m.sender /\ h.seq = m.seq - 1
                               /\ m.prev = compute_message_hash(h)
    <3>1. last[n][n] > 0 /\ last[n][n] = m.seq - 1
      BY <1>8, <1>80, <2>3, Zenon
    <3>2. SenderKept(n, history[n][n], rate[n][n], last[n][n], sent)
      BY <1>5, <1>6, Zenon
    <3>3. PICK h \in sent : /\ h.sender = n /\ h.seq = last[n][n]
                            /\ get_last_sent_hash(n) = compute_message_hash(h)
      BY <3>1, <3>2, LastSentHash, Zenon
    <3> QED
      BY <1>1, <3>1, <3>3, Zenon
  <2>4. MessagesChained(sent \cup {m}, seq)
    BY <1>1, <1>5, <2>1, <2>2, <2>3, ChainsNew, Zenon
  <2> QED
    BY <1>1, <2>4, Zenon
<1>10. NodeSends(n, thr'[n], seq[n], last[n][n], sent')
  <2>1. thr'[n][t] = x /\ \A u \in Thread : u # t => thr'[n][u] = thr[n][u]
    BY <1>3, Zenon
  <2>2. \A u \in Thread : u # t => ~Sends(n, thr[n][u])
    BY <1>5, <1>7, Zenon DEF NodeSends
  <2>3. ThreadInTurn(n, t, x, seq[n], last[n][n], sent')
    <3>1. x.pc # "chain" /\ x.msg.sender = n /\ x.msg.seq = seq[n]
      BY <1>1, <1>2, <1>8, Zenon
    <3> QED
      BY <1>8, <3>1, Zenon DEF ThreadInTurn
  <2>4. ASSUME NEW u \in Thread, u # t
        PROVE  ThreadInTurn(n, u, thr[n][u], seq[n], last[n][n], sent')
    <3>1. ~Sends(n, thr[n][u]) /\ ThreadInTurn(n, u, thr[n][u], seq[n], last[n][n], sent)
      BY <1>5, <2>2, <2>4, Zenon DEF NodeSends
    <3> QED
      BY <3>1, Zenon DEF Sends, ThreadInTurn
  <2>5. \A u \in Thread : ThreadInTurn(n, u, thr'[n][u], seq[n], last[n][n], sent')
    BY <2>1, <2>3, <2>4, Zenon
  <2> QED
    BY <1>7, <2>1, <2>2, <2>5, Zenon DEF NodeSends
<1>11. ASSUME NEW q \in Host, q # n
       PROVE  NodeSends(q, thr'[q], seq[q], last[q][q], sent')
  <2>1. thr'[q] = thr[q] /\ NodeSends(q, thr[q], seq[q], last[q][q], sent)
    BY <1>3, <1>5, <1>11, Zenon
  <2>2. ASSUME NEW u \in Thread
        PROVE  ThreadInTurn(q, u, thr[q][u], seq[q], last[q][q], sent')
    <3>1. ThreadInTurn(q, u, thr[q][u], seq[q], last[q][q], sent)
      BY <2>1, Zenon DEF NodeSends
    <3> QED
      BY <1>1, <1>11, <3>1, Zenon DEF ThreadInTurn
  <2> QED
    BY <2>1, <2>2, Zenon DEF NodeSends
<1>12. NodeHears(n, thr'[n]["listener"], net'[n], sent', last[n], seen[n])
  <2>1. ~Heard(n, thr[n][t]) /\ ~Heard(n, x)
    BY <1>1, <1>2, Zenon DEF Heard
  <2>2. NodeHears(n, thr'[n]["listener"], net[n], sent, last[n], seen[n])
    BY <1>4, <1>5, <2>1, HearsStill, Zenon
  <2>3. NodeHears(n, thr'[n]["listener"], net[n], sent \cup {m}, last[n], seen[n])
    BY <1>1, <2>2, HearsOwn, Zenon
  <2> QED
    BY <1>1, <2>3, Zenon
<1>13. ASSUME NEW q \in Host, q # n
       PROVE  NodeHears(q, thr'[q]["listener"], net'[q], sent', last[q], seen[q])
  <2>1. /\ thr'[q] = thr[q] /\ net'[q] = net[q] \cup {m}
        /\ NodeHears(q, thr[q]["listener"], net[q], sent, last[q], seen[q])
        /\ SenderKept(n, history[q][n], rate[q][n], last[q][n], sent)
    BY <1>1, <1>3, <1>5, <1>6, <1>13, Zenon
  <2>2. m.seq > last[q][n]
    <3>1. CASE last[q][n] = 0
      BY <1>8, <1>80, <3>1, Zenon
    <3>2. CASE last[q][n] > 0
      <4>1. PICK o \in sent : o.sender = n /\ o.seq = last[q][n]
        BY <2>1, <3>2, Zenon DEF SenderKept
      <4> QED
        BY <1>6, <1>8, <4>1, Zenon
    <3>3. last[q][n] \in Nat
      BY <1>6, Zenon
    <3> QED
      BY <3>1, <3>2, <3>3, NumberOrder, Zenon
  <2>3. ASSUME Heard(q, thr[q]["listener"]) PROVE m # thr[q]["listener"].msg
    <3>1. "listener" \in Thread /\ thr[q]["listener"].pc = "advance"
      BY <2>3, Zenon DEF Thread, Heard
    <3>2. thr[q]["listener"].msg \in sent
      BY <3>1, MessageInHand
    <3>3. m \notin sent
      BY <1>1, <1>8, <1>80, Zenon
    <3> QED
      BY <3>2, <3>3, Zenon
  <2>4. NodeHears(q, thr[q]["listener"], net[q] \cup {m}, sent \cup {m}, last[q], seen[q])
    BY <1>1, <1>13, <2>1, <2>2, <2>3, HearsMore, Zenon
  <2> QED
    BY <1>1, <2>1, <2>4, Zenon
<1>14. \A q \in Host, p \in Node :
          SenderKept(p, history[q][p], rate[q][p], last[q][p], sent')
  <2>1. sent \subseteq sent'
    BY <1>1, Zenon
  <2> QED
    BY <1>5, <2>1, KeptWithMore, Zenon
<1>15. AllTrusted'
  BY <1>1, <1>5, Zenon DEF AllTrusted, NobodyFails
<1>16. \A q \in Host : /\ NodeSends(q, thr'[q], seq[q], last[q][q], sent')
                       /\ NodeHears(q, thr'[q]["listener"], net'[q], sent', last[q], seen[q])
  BY <1>10, <1>11, <1>12, <1>13, Zenon
<1>17. seq' = seq /\ history' = history /\ rate' = rate /\ seen' = seen
  BY <1>1, Zenon
<1>18. \A q \in Host :
          /\ NodeSends(q, thr'[q], seq'[q], last[q][q], sent')
          /\ NodeHears(q, thr'[q]["listener"], net'[q], sent', last[q], seen'[q])
          /\ \A p \in Node : SenderKept(p, history'[q][p], rate'[q][p], last[q][p], sent')
  BY <1>14, <1>16, <1>17, Zenon
<1>19. SerialFor(last)'
  BY <1>5, <1>9, <1>15, <1>18, Zenon DEF SerialFor
<1> QED
  BY <1>19, Zenon
-----------------------------------------------------------------------------
\* The message that a thread hands to advance_state is the next of its sender;
\* a thread other than the listener has a message of its own node.
LEMMA InHandIsNext ==
    ASSUME NEW n \in Host, NEW t \in Thread, NEW f, NEW sq \in Nat, NEW k, NEW S, NEW N, NEW z,
           f[t].pc = "advance", NodeSends(n, f, sq, k[n], S),
           NodeHears(n, f["listener"], N, S, k, z), k[n] \in Nat
    PROVE  /\ f[t].msg.seq = k[f[t].msg.sender] + 1
           /\ f[t].msg.sender = n => Sends(n, f[t]) /\ sq = k[n] + 1 /\ ~Heard(n, f[t])
           /\ f[t].msg.sender # n => ~Sends(n, f[t]) /\ t = "listener" /\ Heard(n, f[t])
<1>1. ThreadInTurn(n, t, f[t], sq, k[n], S)
  BY Zenon DEF NodeSends
<1>2. CASE f[t].msg.sender = n
  <2>1. Sends(n, f[t]) /\ ~Heard(n, f[t])
    BY <1>2, Zenon DEF Sends, Heard
  <2>2. f[t].msg.seq = sq /\ k[n] = sq - 1
    BY <1>1, <2>1, Zenon DEF ThreadInTurn
  <2>3. sq = k[n] + 1
    BY <2>2, NumberUsed, Zenon
  <2> QED
    BY <1>2, <2>1, <2>2, <2>3, Zenon
<1>3. CASE f[t].msg.sender # n
  <2>1. t = "listener" /\ Heard(n, f[t]) /\ ~Sends(n, f[t])
    BY <1>1, <1>3, Zenon DEF ThreadInTurn, Heard, Sends
  <2>2. f[t].msg.seq = k[f[t].msg.sender] + 1
    BY <2>1, Zenon DEF NodeHears
  <2> QED
    BY <1>3, <2>1, <2>2, Zenon
<1> QED
  BY <1>2, <1>3, Zenon

\* After it has recorded its own message, the node is in step with itself.
LEMMA SendsDone ==
    ASSUME NEW n, NEW f, NEW sq, NEW l, NEW S, NodeSends(n, f, sq, l, S),
           DOMAIN f = Thread, NEW t \in Thread, NEW x,
           x.pc \notin {"chain", "verify", "advance"}, Sends(n, f[t])
    PROVE  NodeSends(n, [f EXCEPT ![t] = x], sq, sq, S)
<1> DEFINE g == [f EXCEPT ![t] = x]
<1>1. g[t] = x /\ \A u \in Thread : u # t => g[u] = f[u]
  OBVIOUS
<1> HIDE DEF g
<1>2. ThreadInTurn(n, t, x, sq, sq, S) /\ ~Sends(n, x)
  BY IdleInTurn, Zenon
<1>3. ASSUME NEW u \in Thread, u # t
      PROVE  ThreadInTurn(n, u, f[u], sq, sq, S) /\ ~Sends(n, f[u])
  <2>1. ~Sends(n, f[u]) /\ ThreadInTurn(n, u, f[u], sq, l, S)
    BY <1>3, Zenon DEF NodeSends
  <2> QED
    BY <2>1, Zenon DEF ThreadInTurn
<1>4. \A u \in Thread : ThreadInTurn(n, u, g[u], sq, sq, S) /\ ~Sends(n, g[u])
  BY <1>1, <1>2, <1>3, Zenon
<1>5. NodeSends(n, g, sq, sq, S)
  BY <1>4, Zenon DEF NodeSends
<1> QED
  BY <1>5, Zenon DEF g

\* What n hears once it has recorded m, the next message of its sender: y is the
\* listener then, which has put m away or was busy with something else.
LEMMA HearsNext ==
    ASSUME NEW n, NEW x, NEW y, NEW N, NEW S, NEW k \in [Node -> Nat], NEW z, NEW w,
           NodeHears(n, x, N, S, k, z), NEW sq, MessagesChained(S, sq), N \subseteq S,
           \A o \in S : o.sender \in Node /\ o.seq \in Nat,
           NEW m \in S, m.seq = k[m.sender] + 1, w \subseteq z \cup {compute_message_hash(m)},
           \/ m.sender = n /\ (y = x \/ (~Heard(n, x) /\ ~Heard(n, y)))
           \/ m.sender # n /\ Heard(n, x) /\ x.msg = m /\ ~Heard(n, y),
           NEW j, j = [k EXCEPT ![m.sender] = k[m.sender] + 1]
    PROVE  NodeHears(n, y, N, S, j, w)
<1>1. /\ m.sender \in Node /\ m.seq \in Nat /\ j[m.sender] = m.seq
      /\ \A p \in Node : k[p] \in Nat /\ (p # m.sender => j[p] = k[p])
  OBVIOUS
<1>2. ASSUME NEW p \in Node PROVE k[p] <= j[p] /\ j[p] \in Nat
  <2>1. /\ k[p] \in Nat
        /\ j[p] = k[p] \/ j[p] = k[p] + 1
    BY <1>1, Zenon
  <2> QED
    BY <2>1, NumberOrder, Zenon
<1>3. ASSUME NEW g \in w
      PROVE  \E o \in S : g = compute_message_hash(o) /\ o.seq <= j[o.sender]
  <2>1. CASE g = compute_message_hash(m)
    BY <1>1, <2>1, NumberOrder, Zenon
  <2>2. CASE g \in z
    <3>1. PICK o \in S : g = compute_message_hash(o) /\ o.seq <= k[o.sender]
      BY <2>2, Zenon DEF NodeHears
    <3>2. o.sender \in Node /\ o.seq \in Nat
      BY <3>1, Zenon
    <3>3. k[o.sender] \in Nat /\ j[o.sender] \in Nat /\ k[o.sender] <= j[o.sender]
      BY <1>1, <1>2, <3>2, Zenon
    <3>4. o.seq <= j[o.sender]
      BY <3>1, <3>2, <3>3, NumberTransitive, Zenon
    <3> QED
      BY <3>1, <3>4, Zenon
  <2> QED
    BY <1>3, <2>1, <2>2, Zenon
<1>4. CASE m.sender = n
  <2>1. NodeHears(n, y, N, S, k, z)
    BY <1>4, HearsStill, Zenon
  <2>2. Heard(n, y) => y.msg.sender # n
    BY Zenon DEF Heard
  <2>3. \A p : p # n => j[p] = k[p]
    BY <1>4
  <2> HIDE DEF Heard
  <2>4. Heard(n, y) => y.msg.seq = j[y.msg.sender] + 1
    BY <2>1, <2>2, <2>3, Zenon DEF NodeHears
  <2>5. \A o \in N : o.sender # n /\ o.seq > j[o.sender] /\ (Heard(n, y) => o # y.msg)
    BY <2>1, <2>3, Zenon DEF NodeHears
  <2>6. \A o \in S : o.sender # n /\ o.seq > j[o.sender] /\ o \notin N
                        => Heard(n, y) /\ o = y.msg
    BY <2>1, <2>3, Zenon DEF NodeHears
  <2> QED
    BY <1>3, <2>4, <2>5, <2>6, Zenon DEF NodeHears
<1>5. CASE m.sender # n
  <2>1. Heard(n, x) /\ x.msg = m /\ ~Heard(n, y)
    BY <1>5, Zenon
  <2>2. ASSUME NEW o \in N PROVE o.sender # n /\ o.seq > j[o.sender]
    <3>1. o \in S /\ o.sender # n /\ o.seq > k[o.sender] /\ o # m
      BY <2>1, Zenon DEF NodeHears
    <3>2. ~(o.sender = m.sender /\ o.seq = m.seq)
      BY <3>1, Zenon DEF MessagesChained
    <3>3. o.sender \in Node /\ o.seq \in Nat
      BY <3>1, Zenon
    <3>4. CASE o.sender = m.sender
      <4>1. k[m.sender] \in Nat /\ o.seq > k[m.sender] /\ o.seq # k[m.sender] + 1
        BY <1>1, <3>1, <3>2, <3>4, Zenon
      <4>2. o.seq > k[m.sender] + 1
        BY <3>3, <4>1, NumberBeyond, Zenon
      <4> QED
        BY <1>1, <3>1, <3>4, <4>2, Zenon
    <3>5. CASE o.sender # m.sender
      BY <1>1, <3>1, <3>3, <3>5, Zenon
    <3> QED
      BY <3>4, <3>5, Zenon
  <2>3. ASSUME NEW o \in S, o.sender # n, o.seq > j[o.sender], o \notin N PROVE FALSE
    <3>0. o.sender \in Node /\ o.seq \in Nat
      BY <2>3, Zenon
    <3>1. o.seq > k[o.sender]
      BY <1>1, <2>3, <3>0, NumberSkips, Zenon
    <3>2. o = m
      BY <2>1, <2>3, <3>1, Zenon DEF NodeHears
    <3> QED
      BY <1>1, <2>3, <3>2, NumberOrder, Zenon
  <2> QED
    BY <1>3, <2>1, <2>2, <2>3, Zenon DEF NodeHears
<1> QED
  BY <1>4, <1>5, Zenon

\* The hash of the next message of a sender was not seen.
LEMMA NextUnseen ==
    ASSUME NEW n, NEW x, NEW N, NEW S, NEW k \in [Node -> Nat], NEW z,
           NodeHears(n, x, N, S, k, z), NEW m, m.sender \in Node, m.seq = k[m.sender] + 1
    PROVE  compute_message_hash(m) \notin z
<1> SUFFICES ASSUME compute_message_hash(m) \in z PROVE FALSE
  OBVIOUS
<1>1. PICK o \in S : compute_message_hash(m) = compute_message_hash(o) /\ o.seq <= k[o.sender]
  BY Zenon DEF NodeHears
<1>2. o.sender = m.sender /\ o.seq = m.seq
  BY <1>1, Zenon DEF compute_message_hash
<1>3. k[m.sender] \in Nat
  OBVIOUS
<1> QED
  BY <1>1, <1>2, <1>3, NumberOrder, Zenon

\* advance_state records the next message of its sender.
LEMMA AdvanceSerial ==
    ASSUME MeshInv, CauseInv, WithinLimits, NEW last, SerialFor(last), NEW n \in Host,
           NEW t \in Thread, Advance(n, t)
    PROVE  \E next : SerialFor(next)'
<1> DEFINE m == thr[n][t].msg
           p == m.sender
           k == last[n]
           j == [k EXCEPT ![p] = k[p] + 1]
<1>1. /\ thr[n][t].pc = "advance" /\ m \in sent /\ IsMessage(m)
      /\ UNCHANGED <<seq, sent, net>>
  BY MessageInHand, AdvanceFacts, Zenon
<1>2. PICK res \in PBFTStage : AdvanceWith(n, t, m, res)
  BY AdvanceFacts, Zenon
<1>3. /\ MessagesChained(sent, seq) /\ AllTrusted /\ k \in [Node -> Nat]
      /\ NodeSends(n, thr[n], seq[n], k[n], sent)
      /\ NodeHears(n, thr[n]["listener"], net[n], sent, k, seen[n])
      /\ \A q \in Node : SenderKept(q, history[n][q], rate[n][q], k[q], sent)
  BY Zenon DEF SerialFor
<1>4. /\ n \in Node /\ p \in Node /\ k[n] \in Nat /\ seq[n] \in Nat /\ net[n] \subseteq sent
      /\ \A o \in sent : o.sender \in Node /\ o.seq \in Nat
  <2>1. n \in Node /\ p \in Node /\ seq[n] \in 0 .. MaxSeq /\ net[n] \subseteq sent
    BY <1>1, HostAssumption, Zenon DEF IsMessage, MeshInv, NodesTyped
  <2>2. \A o \in sent : o.sender \in Node /\ o.seq \in Nat
    BY Zenon DEF IsMessage, MeshInv, SentTyped
  <2>3. seq[n] \in Nat
    BY <2>1
  <2>4. k[n] \in Nat
    BY <1>3, <2>1, Zenon
  <2> QED
    BY <2>1, <2>2, <2>3, <2>4, Zenon
<1> HIDE DEF k
<1>5. /\ m.seq = k[p] + 1
      /\ p = n => Sends(n, thr[n][t]) /\ seq[n] = k[n] + 1 /\ ~Heard(n, thr[n][t])
      /\ p # n => ~Sends(n, thr[n][t]) /\ t = "listener" /\ Heard(n, thr[n][t])
  BY <1>1, <1>3, <1>4, InHandIsNext, Zenon
<1>6. k[p] < RATE_MAX
  <2>1. p \in Host /\ seq[p] \in 0 .. MaxSeq /\ m.seq \in 1 .. seq[p]
    BY <1>1, <1>3, Zenon DEF MeshInv, SentTyped, NodesTyped, MessagesChained
  <2>2. MaxSeq <= RATE_MAX /\ MaxSeq \in Nat /\ RATE_MAX \in Nat /\ k[p] \in Nat
    BY <1>3, <1>4, MeshAssumption, LimitsAssumption, Zenon DEF WithinLimits
  <2>3. m.seq = k[p] + 1
    BY <1>5, Zenon
  <2> QED
    BY <2>1, <2>2, <2>3, NumberBelow, Zenon
<1>7. compute_message_hash(m) \notin seen[n]
  BY <1>3, <1>4, <1>5, NextUnseen, Zenon
<1>8. ~Dropped(n, p)
  BY <1>3, <1>4, NobodyDropped, Zenon
<1>9. SenderKept(p, history[n][p], rate[n][p], k[p], sent)
  BY <1>3, <1>4, Zenon
<1>10. advance_state(n, m, res)
  BY <1>2, Zenon DEF AdvanceWith
<1>11. EngineInv
  BY Zenon DEF MeshInv
<1>12. Records(n, m, k[p])
  BY <1>1, <1>5, <1>6, <1>7, <1>8, <1>9, <1>10, <1>11, CountsNext, Zenon
<1>13. PICK x : Moved(n, t, x) /\ x.pc \notin {"chain", "verify", "advance"}
  <2> DEFINE b == [stage |-> res, round |-> m.round]
  <2>1. Return(n, t) \/ At(n, t, "broadcast", b) \/ At(n, t, "execute", m)
    BY <1>2, Zenon DEF AdvanceWith
  <2> HIDE DEF b, m
  <2>2. CASE Return(n, t)
    BY <2>2, MovedBack, Zenon
  <2>3. CASE At(n, t, "broadcast", b)
    BY <2>3, MovedAt
  <2>4. CASE At(n, t, "execute", m)
    BY <2>4, MovedAt
  <2> QED
    BY <2>1, <2>2, <2>3, <2>4, Zenon
<1>14. /\ thr'[n] = [thr[n] EXCEPT ![t] = x] /\ DOMAIN thr[n] = Thread
       /\ \A q \in Host \ {n} : thr'[q] = thr[q]
  BY <1>13, ThreadsAfter, Zenon
<1>15. thr'[n]["listener"] = IF t = "listener" THEN x ELSE thr[n]["listener"]
  BY <1>13, ListenerAfter, Zenon DEF ListensAs
<1>16. ~Sends(n, x) /\ ~Heard(n, x) /\ ThreadInTurn(n, t, x, seq[n], k[n], sent)
  BY <1>13, IdleInTurn, Zenon
<1>17. j \in [Node -> Nat] /\ j[p] = k[p] + 1 /\ \A q \in Node : q # p => j[q] = k[q]
  BY <1>3, <1>4, OneMore, Zenon
<1>18. NodeSends(n, thr'[n], seq[n], j[n], sent)
  <2>1. CASE p = n
    <3>1. NodeSends(n, [thr[n] EXCEPT ![t] = x], seq[n], seq[n], sent)
      BY <1>3, <1>5, <1>13, <1>14, <2>1, SendsDone, Zenon
    <3>2. j[n] = seq[n]
      BY <1>5, <1>17, <2>1, Zenon
    <3> QED
      BY <1>14, <3>1, <3>2, Zenon
  <2>2. CASE p # n
    <3>1. NodeSends(n, [thr[n] EXCEPT ![t] = x], seq[n], k[n], sent)
      BY <1>3, <1>5, <1>14, <1>16, <2>2, SendsOn, Zenon
    <3>2. j[n] = k[n]
      BY <1>4, <1>17, <2>2, Zenon
    <3> QED
      BY <1>14, <3>1, <3>2, Zenon
  <2> QED
    BY <2>1, <2>2, Zenon
<1>19. PICK g, r, z :
          /\ SenderKept(p, g, r, k[p] + 1, sent)
          /\ z \subseteq seen[n] \cup {compute_message_hash(m)}
          /\ history' = [history EXCEPT ![n][p] = g]
          /\ rate' = [rate EXCEPT ![n][p] = r]
          /\ seen' = [seen EXCEPT ![n] = z]
  BY <1>12, Zenon DEF Records
<1>20. /\ DOMAIN history = Host /\ DOMAIN rate = Host /\ DOMAIN seen = Host
       /\ DOMAIN history[n] = Node /\ DOMAIN rate[n] = Node
  BY Zenon DEF MeshInv, EngineInv, EngineTypeOK
<1>21. NodeHears(n, thr'[n]["listener"], net[n], sent, j, z)
  <2> DEFINE y == thr'[n]["listener"]
             o == thr[n]["listener"]
  <2>1. \/ p = n /\ (y = o \/ (~Heard(n, o) /\ ~Heard(n, y)))
        \/ p # n /\ Heard(n, o) /\ o.msg = m /\ ~Heard(n, y)
    BY <1>5, <1>15, <1>16, Zenon
  <2> HIDE DEF y, o, j, m
  <2>2. j = [k EXCEPT ![p] = k[p] + 1]
    BY Zenon DEF j
  <2>3. NodeHears(n, o, net[n], sent, k, seen[n])
    BY <1>3, Zenon DEF o
  <2>4. NodeHears(n, y, net[n], sent, j, z)
    BY <1>1, <1>3, <1>4, <1>5, <1>19, <2>1, <2>2, <2>3, HearsNext, Zenon
  <2> QED
    BY <2>4, Zenon DEF y
<1> HIDE DEF j, m
<1>22. /\ seen'[n] = z /\ history'[n][p] = g /\ rate'[n][p] = r
       /\ \A q \in Node : q # p => history'[n][q] = history[n][q] /\ rate'[n][q] = rate[n][q]
       /\ \A q \in Host \ {n} : /\ seen'[q] = seen[q] /\ history'[q] = history[q]
                                /\ rate'[q] = rate[q]
  <2>1. /\ seen'[n] = z
        /\ \A q \in Host \ {n} : seen'[q] = seen[q]
    BY <1>19, <1>20, Zenon
  <2>2. /\ history'[n][p] = g
        /\ \A q \in Node : q # p => history'[n][q] = history[n][q]
        /\ \A q \in Host \ {n} : history'[q] = history[q]
    BY <1>4, <1>19, <1>20, OneEntrySet, Zenon
  <2>3. /\ rate'[n][p] = r
        /\ \A q \in Node : q # p => rate'[n][q] = rate[n][q]
        /\ \A q \in Host \ {n} : rate'[q] = rate[q]
    BY <1>4, <1>19, <1>20, OneEntrySet, Zenon
  <2> QED
    BY <2>1, <2>2, <2>3, Zenon
<1>23. ASSUME NEW q \in Node
       PROVE  SenderKept(q, history'[n][q], rate'[n][q], j[q], sent)
  <2>1. CASE q = p
    BY <1>17, <1>19, <1>22, <2>1, Zenon
  <2>2. CASE q # p
    BY <1>3, <1>17, <1>22, <2>2, Zenon
  <2> QED
    BY <2>1, <2>2, Zenon
<1>24. AllTrusted'
  <2>1. failures' = failures /\ equivocators' = equivocators /\ peer_keys' = peer_keys
    BY <1>12, Zenon DEF Records, memberVars, trustVars
  <2> QED
    BY <1>3, <2>1, Zenon DEF AllTrusted, NobodyFails
<1>25. sent' = sent /\ net' = net /\ seq' = seq
  BY <1>1, Zenon
<1>26. /\ NodeSends(n, thr'[n], seq'[n], j[n], sent)
       /\ NodeHears(n, thr'[n]["listener"], net'[n], sent, j, seen'[n])
       /\ MessagesChained(sent, seq')
  BY <1>3, <1>18, <1>21, <1>22, <1>25, Zenon
<1>27. \A q \in Host \ {n} : /\ thr'[q] = thr[q] /\ seq'[q] = seq[q]
                             /\ net'[q] = net[q] /\ seen'[q] = seen[q]
                             /\ history'[q] = history[q] /\ rate'[q] = rate[q]
  BY <1>14, <1>22, <1>25, Zenon
<1> QED
  BY <1>17, <1>23, <1>24, <1>25, <1>26, <1>27, SerialOfOne, Zenon

\* A stuttering step.
LEMMA SerialStays ==
    ASSUME NEW last, SerialFor(last), UNCHANGED meshVars
    PROVE  \E next : SerialFor(next)'
<1>1. /\ sent' = sent /\ net' = net /\ seq' = seq /\ thr' = thr /\ seen' = seen
      /\ history' = history /\ rate' = rate /\ failures' = failures
      /\ equivocators' = equivocators /\ peer_keys' = peer_keys
  BY Zenon DEF meshVars, engineVars, memberVars, trustVars, chainVars
<1>2. SerialFor(last)'
  BY <1>1, Zenon DEF SerialFor, AllTrusted, NobodyFails
<1> QED
  BY <1>2, Zenon

\* A thread that was at rest stays so, at a node that proposes nothing.
LEMMA OneThreadMoves ==
    ASSUME MeshInv, OnlyListens, NEW n \in Host, NEW t \in Thread, NEW x, Moved(n, t, x),
           n \in Proposers \/ t = "listener" \/ thr[n][t].pc # "rest"
    PROVE  OnlyListens'
<1>1. ASSUME NEW q \in Host \ Proposers, NEW u \in Thread \ {"listener"}
      PROVE  thr'[q][u].pc = "rest"
  <2>1. thr[q][u].pc = "rest" /\ ~(q = n /\ u = t)
    BY Zenon DEF OnlyListens
  <2>2. thr'[q][u] = thr[q][u]
    BY <2>1, Zenon DEF Moved, MeshInv, ThreadsTyped
  <2> QED
    BY <2>1, <2>2, Zenon
<1> QED
  BY <1>1, Zenon DEF OnlyListens

\* The bans that would set the beacon to work never come.
LEMMA OnlyListensStays ==
    ASSUME MeshInv, CauseInv, OnlyListens, AllTrusted, [MeshNext]_meshVars
    PROVE  OnlyListens'
<1>1. CASE UNCHANGED meshVars
  BY <1>1, Zenon DEF meshVars, OnlyListens
<1>2. ASSUME NEW n \in Host, Starting(n) PROVE OnlyListens'
  <2>1. "beacon" \in Thread /\ Callers \subseteq Thread
    BY Zenon DEF Thread
  <2>2. ASSUME NEW t \in Callers, NEW k \in Round, CheckCooldown(n, t, k) PROVE OnlyListens'
    <3>1. n \in Proposers /\ At(n, t, "cool", [stage |-> "PRE_PREPARE", round |-> k])
      BY <2>2, Zenon DEF CheckCooldown, Proposers
    <3>2. \E x : Moved(n, t, x)
      BY <3>1, Zenon DEF At, Moved
    <3> QED
      BY <2>1, <3>1, <3>2, OneThreadMoves, Zenon
  <2>3. ASSUME NEW t \in Callers, SetCooldown(n, t) PROVE OnlyListens'
    <3>1. thr[n][t].pc = "cool" /\ \E x : Moved(n, t, x)
      BY <2>3, Zenon DEF SetCooldown, At, Moved
    <3> QED
      BY <2>1, <3>1, OneThreadMoves, Zenon
  <2>4. ~DrainBans(n)
    <3>1. CaughtIn(banned, peer_keys) = {}
      BY Zenon DEF AllTrusted, CaughtIn
    <3>2. recent_bans[n] = {}
      BY <3>1, Zenon DEF CauseInv, BansDeserved
    <3> QED
      BY <3>2, Zenon DEF DrainBans
  <2>5. ASSUME NEW p, ProposeBan(n, p) PROVE OnlyListens'
    <3>1. thr[n]["beacon"].pc = "propose" /\ \E x : Moved(n, "beacon", x)
      BY <2>5, Zenon DEF ProposeBan, Moved
    <3> QED
      BY <2>1, <3>1, OneThreadMoves, Zenon
  <2> QED
    BY <1>2, <2>2, <2>3, <2>4, <2>5, Zenon DEF Starting
<1>3. ASSUME NEW n \in Host, NEW t \in Thread, Broadcasting(n, t) PROVE OnlyListens'
  <2>1. thr[n][t].pc \in {"broadcast", "chain", "verify", "advance", "execute"}
    BY <1>3, Zenon DEF Broadcasting, TakeSequence, SendVote, VerifyOwn, Advance, Execute
  <2>2. \E x : Moved(n, t, x)
    BY <1>3, Zenon DEF Broadcasting, TakeSequence, SendVote, VerifyOwn, Advance, Execute,
                       At, Return, Moved
  <2> QED
    BY <2>1, <2>2, OneThreadMoves, Zenon
<1>4. ASSUME NEW n \in Host, NEW m \in net[n], Receive(n, m) PROVE OnlyListens'
  <2>1. CASE UNCHANGED thr
    BY <2>1, Zenon DEF OnlyListens
  <2>2. CASE At(n, "listener", "advance", m)
    <3>1. "listener" \in Thread /\ \E x : Moved(n, "listener", x)
      BY <2>2, Zenon DEF At, Moved, Thread
    <3> QED
      BY <3>1, OneThreadMoves
  <2> QED
    BY <1>4, <2>1, <2>2, Zenon DEF Receive
<1> QED
  BY <1>1, <1>2, <1>3, <1>4, Zenon DEF MeshNext

\* So it broadcasts one message at a time as it is.
LEMMA ListenerSendsAlone ==
    ASSUME OnlyListens', NEW n \in Host \ Proposers
    PROVE  OneSends(n)'
<1>1. \A t \in Thread : t # "listener" => ~Sends(n, thr'[n][t])
  BY DEF OnlyListens, Sends
<1> QED
  BY <1>1, Zenon DEF OneSends

\* Every step of the serial mesh.
LEMMA SerialStep ==
    ASSUME WithinLimits, MeshInv, CauseInv, NEW last, SerialFor(last), MeshNext,
           \A n \in Host : OneSends(n)'
    PROVE  \E next : SerialFor(next)'
<1>1. PICK n \in Host : \/ Starting(n)
                        \/ \E t \in Thread : Broadcasting(n, t)
                        \/ \E m \in net[n] : Receive(n, m)
  BY Zenon DEF MeshNext
<1>2. CASE Starting(n)
  BY <1>2, StartingSerial, Zenon
<1>3. ASSUME NEW t \in Thread, Broadcasting(n, t) PROVE \E next : SerialFor(next)'
  BY <1>3, TakeSequenceSerial, SendVoteSerial, VerifyOwnSerial, AdvanceSerial,
     ExecuteSerial, Zenon DEF Broadcasting
<1>4. ASSUME NEW m \in net[n], Receive(n, m) PROVE \E next : SerialFor(next)'
  BY <1>4, ReceiveSerial, Zenon
<1> QED
  BY <1>1, <1>2, <1>3, <1>4, Zenon

\* Nobody has sent anything at first.
LEMMA SerialInit == MeshInit => \E last : SerialFor(last)
<1> SUFFICES ASSUME MeshInit PROVE \E last : SerialFor(last)
  OBVIOUS
<1> DEFINE none == [n \in Host |-> [p \in Node |-> 0]]
<1>1. /\ sent = {} /\ \A n \in Host : seq[n] = 0 /\ net[n] = {} /\ seen[n] = {}
      /\ \A n \in Host, t \in Thread : thr[n][t].pc = "rest"
  BY Zenon DEF MeshInit, EngineInit, Resting
<1>2. \A n \in Host, p \in Node : history[n][p] = NoHistory /\ rate[n][p] = NoRate
  BY Zenon DEF MeshInit, EngineInit
<1>3. AllTrusted
  BY HostAssumption, Zenon DEF MeshInit, EngineInit, AllTrusted, NobodyFails
<1>4. MessagesChained(sent, seq)
  BY <1>1, Zenon DEF MessagesChained
<1>5. none \in [Host -> [Node -> Nat]] /\ \A n \in Host, p \in Node : none[n][p] = 0
  OBVIOUS
<1> HIDE DEF none
<1>6. ASSUME NEW n \in Host
      PROVE  /\ NodeSends(n, thr[n], seq[n], none[n][n], sent)
             /\ NodeHears(n, thr[n]["listener"], net[n], sent, none[n], seen[n])
             /\ \A p \in Node : SenderKept(p, history[n][p], rate[n][p], none[n][p], sent)
  <2>1. \A t \in Thread : /\ ThreadInTurn(n, t, thr[n][t], seq[n], none[n][n], sent)
                          /\ ~Sends(n, thr[n][t]) /\ ~Heard(n, thr[n][t])
    BY <1>1, Zenon DEF ThreadInTurn, Sends, Heard
  <2>2. n \in Node /\ "listener" \in Thread
    BY HostAssumption, Zenon DEF Thread
  <2>3. NodeSends(n, thr[n], seq[n], none[n][n], sent)
    BY <1>1, <1>5, <2>1, <2>2, Zenon DEF NodeSends
  <2>4. NodeHears(n, thr[n]["listener"], net[n], sent, none[n], seen[n])
    BY <1>1, <2>1, <2>2, Zenon DEF NodeHears
  <2>5. DOMAIN NoHistory = {}
    BY Zenon DEF NoHistory
  <2>6. \A p \in Node : SenderKept(p, NoHistory, NoRate, 0, sent)
    BY <2>5 DEF SenderKept, NoRate
  <2> QED
    BY <1>2, <1>5, <2>3, <2>4, <2>6, Zenon
<1>7. SerialFor(none)
  BY <1>3, <1>4, <1>5, <1>6, Zenon DEF SerialFor
<1> QED
  BY <1>7, Zenon

\* When a node that proposes broadcasts one message at a time, the datagrams of
\* a sender arrive in order and none is missing, no node exhausts the rate limit
\* of its peers and nobody asks for a ban by hand, no engine ever records a
\* failure or an equivocation, for any number of nodes, of which any number may
\* be down, and any number of rounds and threads.  What makes honest nodes fail
\* one another is then only the gap that broadcast_pbft_stage leaves between
\* taking a number and recording the hash that the next message must name, when
\* two threads of a proposer run into it.
THEOREM SerialNodesNeverFail ==
    NoBanProposed /\ WithinLimits /\ SerialMeshSpec => []NobodyFails
<1>1. SerialInv => NobodyFails
  BY Zenon DEF SerialInv, SerialFor, AllTrusted
<1>2. NoBanProposed /\ WithinLimits => (NoBanProposed /\ WithinLimits)'
  BY Zenon DEF NoBanProposed, WithinLimits
<1>3. MeshInit => SerialInv
  <2>1. MeshInit => OnlyListens
    BY DEF MeshInit, OnlyListens, Resting
  <2> QED
    BY <2>1, InitMesh, CauseInit, SerialInit, Zenon DEF SerialInv
<1>4. ASSUME NoBanProposed, WithinLimits, SerialInv, [SerialMeshNext]_meshVars
      PROVE  SerialInv'
  <2>1. MeshInv /\ CauseInv /\ OnlyListens /\ [MeshNext]_meshVars
    BY <1>4, Zenon DEF SerialInv, SerialMeshNext
  <2>2. PICK last : SerialFor(last)
    BY <1>4, Zenon DEF SerialInv
  <2>3. MeshInv' /\ CauseInv'
    BY <1>4, <2>1, MeshStep, CauseStep, Zenon
  <2>4. OnlyListens'
    BY <2>1, <2>2, OnlyListensStays, Zenon DEF SerialFor
  <2>5. CASE UNCHANGED meshVars
    BY <2>2, <2>3, <2>4, <2>5, SerialStays, Zenon DEF SerialInv
  <2>6. CASE SerialMeshNext
    <3>1. \A n \in Host \ Proposers : OneSends(n)'
      BY <2>4, ListenerSendsAlone, Zenon
    <3>2. MeshNext /\ \A n \in Host : OneSends(n)'
      BY <2>6, <3>1, Zenon DEF SerialMeshNext
    <3>3. \E next : SerialFor(next)'
      BY <1>4, <2>1, <2>2, <3>2, SerialStep, Zenon
    <3> QED
      BY <2>3, <2>4, <3>3, Zenon DEF SerialInv
  <2> QED
    BY <1>4, <2>5, <2>6, Zenon
<1> QED
  BY <1>1, <1>2, <1>3, <1>4, PTL DEF SerialMeshSpec
=============================================================================
