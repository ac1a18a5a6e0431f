----------------------------- MODULE NodeProofs -----------------------------
(***************************************************************************)
(* Proofs about what a node does by itself and what it keeps, for every    *)
(* number of threads and starts and every length of its files and windows: *)
(* the proofs that the chain exports verify, the journal keeps its records *)
(* and its numbering, the joins of main protect the mesh, and the          *)
(* heartbeat does not keep a node under suspicion by its own rounds.       *)
(***************************************************************************)
EXTENDS StateJournal, Heartbeat, NodeProgram, ProofChain, SequenceTheorems,
        WellFoundedInduction, TLAPS

\* A set of naturals that is not empty has a least element.
LEMMA LeastNat ==
  ASSUME NEW T, T \subseteq Nat, T # {}
  PROVE  \E x \in T : \A y \in T : x <= y
<1>1. PICK R : R = OpToRel(<, Nat)
  BY Zenon
<1>2. IsWellFoundedOn(R, Nat)
  BY <1>1, NatLessThanWellFounded, Zenon
<1>3. PICK x \in T : \A y \in T : <<y, x>> \notin R
  BY <1>2, WFMin, Zenon
<1>4. \A y \in Nat : y < x => <<y, x>> \in R
  BY <1>1, Zenon DEF OpToRel
<1>5. ASSUME NEW y \in T PROVE x <= y
  <2>1. ~(y < x)
    BY <1>3, <1>4, Zenon
  <2>. QED  BY <2>1
<1>. QED  BY <1>5, Zenon

\* A set of naturals that is bounded has a largest element.
LEMMA GreatestNat ==
  ASSUME NEW T, T \subseteq Nat, T # {}, NEW n \in Nat, \A x \in T : x <= n
  PROVE  \E z \in T : \A y \in T : y <= z
<1>. DEFINE D == {n - x : x \in T}
<1>1. D \subseteq Nat /\ D # {}
  <2>1. \A x \in T : n - x \in Nat
    OBVIOUS
  <2>. QED  BY <2>1, Zenon
<1>2. PICK d \in D : \A e \in D : d <= e
  <2>. HIDE DEF D
  <2>. QED  BY <1>1, LeastNat, Zenon
<1>3. PICK x \in T : d = n - x
  OBVIOUS
<1>4. \A y \in T : y <= x
  <2>. TAKE y \in T
  <2>1. d <= n - y
    BY <1>2, Zenon
  <2>. QED  BY <2>1, <1>3
<1>. QED  BY <1>4, Zenon

-----------------------------------------------------------------------------
(***************************************************************************)
(* The proof chain.                                                        *)
(***************************************************************************)

\* Induction: a set of naturals with 0 and every successor of a member that is
\* at most n holds everything up to n.
LEMMA ReachesAll ==
  ASSUME NEW n \in Nat, NEW T, 0 \in T, \A h \in 1 .. n : h - 1 \in T => h \in T
  PROVE  \A h \in 0 .. n : h \in T
<1>. DEFINE B == {h \in 0 .. n : h \notin T}
<1>1. SUFFICES B = {}
  OBVIOUS
<1>2. SUFFICES ASSUME B # {} PROVE FALSE
  OBVIOUS
<1>3. B \subseteq Nat
  OBVIOUS
<1>4. PICK x \in B : \A y \in B : x <= y
  <2>. HIDE DEF B
  <2>. QED  BY <1>2, <1>3, LeastNat, Zenon
<1>5. x \in 1 .. n /\ x \notin T
  OBVIOUS
<1>6. x - 1 \in 0 .. n /\ ~(x <= x - 1)
  BY <1>5
<1>7. x - 1 \in T
  BY <1>4, <1>6, Zenon
<1>. QED  BY <1>5, <1>7, Zenon

\* The variables of the climbing loop: the function that Turns returns obeys the
\* equation it is defined by.
IsTurns(w, leaves, i, n) ==
  w = [h \in 0 .. n |-> IF h = 0 THEN [layer |-> leaves, idx |-> i, siblings |-> <<>>]
                        ELSE Climb(w[h - 1])]

\* There is such a function, however many turns are made.
LEMMA TurnsExist ==
  ASSUME NEW leaves, NEW i, NEW n \in Nat
  PROVE  \E w : IsTurns(w, leaves, i, n)
<1>. DEFINE T == {m \in 0 .. n : \E w : IsTurns(w, leaves, i, m)}
<1>1. 0 \in T
  <2>. DEFINE w == [h \in 0 .. 0 |-> [layer |-> leaves, idx |-> i, siblings |-> <<>>]]
  <2>1. IsTurns(w, leaves, i, 0)
    BY DEF IsTurns
  <2>. HIDE DEF w
  <2>. QED  BY <2>1
<1>2. ASSUME NEW m \in 1 .. n, m - 1 \in T PROVE m \in T
  <2>1. PICK v : IsTurns(v, leaves, i, m - 1)
    BY <1>2, Zenon
  <2>. DEFINE w == [h \in 0 .. m |-> IF h = m THEN Climb(v[m - 1]) ELSE v[h]]
  <2>2. \A h \in 0 .. m - 1 : w[h] = v[h]
    OBVIOUS
  <2>3. \A h \in 0 .. m - 1 : v[h] = IF h = 0 THEN [layer |-> leaves, idx |-> i, siblings |-> <<>>]
                                    ELSE Climb(v[h - 1])
    <3>. TAKE h \in 0 .. m - 1
    <3>. DEFINE u == [g \in 0 .. m - 1 |-> IF g = 0 THEN [layer |-> leaves, idx |-> i, siblings |-> <<>>]
                        ELSE Climb(v[g - 1])]
    <3>1. v = u
      BY <2>1, Zenon DEF IsTurns
    <3>2. u[h] = IF h = 0 THEN [layer |-> leaves, idx |-> i, siblings |-> <<>>]
                                    ELSE Climb(v[h - 1])
      BY Zenon
    <3>. HIDE DEF u
    <3>. QED  BY <3>1, <3>2, Zenon
  <2>4. ASSUME NEW h \in 0 .. m
        PROVE  w[h] = IF h = 0 THEN [layer |-> leaves, idx |-> i, siblings |-> <<>>]
                      ELSE Climb(w[h - 1])
    <3>1. CASE h = m
      <4>1. w[h] = Climb(v[m - 1])
        BY <3>1, Zenon
      <4>2. w[h - 1] = v[m - 1] /\ h # 0
        BY <3>1, <2>2
      <4>. HIDE DEF w
      <4>. QED  BY <4>1, <4>2, Zenon
    <3>2. CASE h = 0
      <4>1. w[h] = v[0] /\ 0 \in 0 .. m - 1
        BY <3>2, <2>2
      <4>. HIDE DEF w
      <4>. QED  BY <4>1, <3>2, <2>3, Zenon
    <3>3. CASE h # m /\ h # 0
      <4>1. h \in 0 .. m - 1 /\ h - 1 \in 0 .. m - 1
        BY <3>3
      <4>2. w[h] = v[h] /\ w[h - 1] = v[h - 1]
        BY <4>1, <2>2, Zenon
      <4>. HIDE DEF w
      <4>. QED  BY <4>1, <4>2, <3>3, <2>3, Zenon
    <3>. QED  BY <3>1, <3>2, <3>3, Zenon
  <2>5. IsTurns(w, leaves, i, m)
    <3>1. w = [h \in 0 .. m |-> w[h]]
      OBVIOUS
    <3>. HIDE DEF w
    <3>. QED  BY <3>1, <2>4, Zenon DEF IsTurns
  <2>. HIDE DEF w
  <2>. QED  BY <2>5
<1>3. n \in 0 .. n
  OBVIOUS
<1>. HIDE DEF T
<1>4. n \in T
  BY <1>1, <1>2, <1>3, ReachesAll, Zenon
<1>. QED  BY <1>4, Zenon DEF T

\* What Turns returns, turn by turn.
LEMMA TurnsUnfold ==
  ASSUME NEW leaves, NEW i, Len(leaves) \in Nat
  PROVE  /\ Turns(leaves, i)[0] = [layer |-> leaves, idx |-> i, siblings |-> <<>>]
         /\ \A h \in 1 .. Len(leaves) : Turns(leaves, i)[h] = Climb(Turns(leaves, i)[h - 1])
<1>1. IsTurns(Turns(leaves, i), leaves, i, Len(leaves))
  <2>1. \E w : IsTurns(w, leaves, i, Len(leaves))
    BY TurnsExist, Zenon
  <2>. QED  BY <2>1, Zenon DEF IsTurns, Turns
<1>. DEFINE v == Turns(leaves, i)
            u == [h \in 0 .. Len(leaves) |-> IF h = 0 THEN [layer |-> leaves, idx |-> i, siblings |-> <<>>]
                        ELSE Climb(v[h - 1])]
<1>2. v = u
  BY <1>1, Zenon DEF IsTurns
<1>. HIDE DEF v
<1>3. u[0] = [layer |-> leaves, idx |-> i, siblings |-> <<>>]
  OBVIOUS
<1>4. \A h \in 1 .. Len(leaves) : u[h] = Climb(v[h - 1])
  OBVIOUS
<1>. HIDE DEF u
<1>. QED  BY <1>2, <1>3, <1>4, Zenon DEF v

\* The loop of verify_proof, likewise.
IsRehash(w, leaf, siblings, n) ==
  w = [h \in 0 .. n |-> IF h = 0 THEN leaf ELSE HashWith(w[h - 1], siblings[h])]

\* There is such a function, however many siblings there are.
LEMMA RehashExists ==
  ASSUME NEW leaf, NEW siblings, NEW n \in Nat
  PROVE  \E w : IsRehash(w, leaf, siblings, n)
<1>. DEFINE T == {m \in 0 .. n : \E w : IsRehash(w, leaf, siblings, m)}
<1>1. 0 \in T
  <2>. DEFINE w == [h \in 0 .. 0 |-> leaf]
  <2>1. IsRehash(w, leaf, siblings, 0)
    BY DEF IsRehash
  <2>. HIDE DEF w
  <2>. QED  BY <2>1
<1>2. ASSUME NEW m \in 1 .. n, m - 1 \in T PROVE m \in T
  <2>1. PICK v : IsRehash(v, leaf, siblings, m - 1)
    BY <1>2, Zenon
  <2>. DEFINE w == [h \in 0 .. m |-> IF h = m THEN HashWith(v[m - 1], siblings[m]) ELSE v[h]]
  <2>2. \A h \in 0 .. m - 1 : w[h] = v[h]
    OBVIOUS
  <2>3. \A h \in 0 .. m - 1 : v[h] = IF h = 0 THEN leaf ELSE HashWith(v[h - 1], siblings[h])
    <3>. TAKE h \in 0 .. m - 1
    <3>. DEFINE u == [g \in 0 .. m - 1 |-> IF g = 0 THEN leaf ELSE HashWith(v[g - 1], siblings[g])]
    <3>1. v = u
      BY <2>1, Zenon DEF IsRehash
    <3>2. u[h] = IF h = 0 THEN leaf ELSE HashWith(v[h - 1], siblings[h])
      BY Zenon
    <3>. HIDE DEF u
    <3>. QED  BY <3>1, <3>2, Zenon
  <2>4. ASSUME NEW h \in 0 .. m
        PROVE  w[h] = IF h = 0 THEN leaf ELSE HashWith(w[h - 1], siblings[h])
    <3>1. CASE h = m
      <4>1. w[h] = HashWith(v[m - 1], siblings[m])
        BY <3>1, Zenon
      <4>2. w[h - 1] = v[m - 1] /\ h # 0
        BY <3>1, <2>2
      <4>. HIDE DEF w
      <4>. QED  BY <4>1, <4>2, <3>1, Zenon
    <3>2. CASE h = 0
      <4>1. w[h] = v[0] /\ 0 \in 0 .. m - 1
        BY <3>2, <2>2
      <4>. HIDE DEF w
      <4>. QED  BY <4>1, <3>2, <2>3, Zenon
    <3>3. CASE h # m /\ h # 0
      <4>1. h \in 0 .. m - 1 /\ h - 1 \in 0 .. m - 1
        BY <3>3
      <4>2. w[h] = v[h] /\ w[h - 1] = v[h - 1]
        BY <4>1, <2>2, Zenon
      <4>. HIDE DEF w
      <4>. QED  BY <4>1, <4>2, <3>3, <2>3, Zenon
    <3>. QED  BY <3>1, <3>2, <3>3, Zenon
  <2>5. IsRehash(w, leaf, siblings, m)
    <3>1. w = [h \in 0 .. m |-> w[h]]
      OBVIOUS
    <3>. HIDE DEF w
    <3>. QED  BY <3>1, <2>4, Zenon DEF IsRehash
  <2>. HIDE DEF w
  <2>. QED  BY <2>5
<1>3. n \in 0 .. n
  OBVIOUS
<1>. HIDE DEF T
<1>4. n \in T
  BY <1>1, <1>2, <1>3, ReachesAll, Zenon
<1>. QED  BY <1>4, Zenon DEF T

\* The hash after all the siblings comes from the values of the loop one by one.
LEMMA RehashUnfold ==
  ASSUME NEW leaf, NEW siblings, Len(siblings) \in Nat
  PROVE  \E cur : /\ Rehash(leaf, siblings) = cur[Len(siblings)] /\ cur[0] = leaf
                  /\ \A j \in 1 .. Len(siblings) :
                        cur[j] = HashWith(cur[j - 1], siblings[j])
<1>. DEFINE v == CHOOSE w : IsRehash(w, leaf, siblings, Len(siblings))
            u == [h \in 0 .. Len(siblings) |->
                    IF h = 0 THEN leaf ELSE HashWith(v[h - 1], siblings[h])]
<1>1. \E w : IsRehash(w, leaf, siblings, Len(siblings))
  BY RehashExists, Zenon
<1>2. IsRehash(v, leaf, siblings, Len(siblings))
  BY <1>1, Zenon
<1>3. Rehash(leaf, siblings) = v[Len(siblings)]
  BY Zenon DEF Rehash, IsRehash
<1>. HIDE DEF v
<1>4. v = u
  BY <1>2, Zenon DEF IsRehash
<1>5. u[0] = leaf
  OBVIOUS
<1>6. \A j \in 1 .. Len(siblings) : u[j] = HashWith(v[j - 1], siblings[j])
  OBVIOUS
<1>. HIDE DEF u
<1>7. v[0] = leaf /\ \A j \in 1 .. Len(siblings) : v[j] = HashWith(v[j - 1], siblings[j])
  BY <1>4, <1>5, <1>6, Zenon
<1>. QED  BY <1>3, <1>7, Zenon

\* The sizes of the layers and the positions there, likewise.
IsPlaces(w, size, i, n) ==
  w = [h \in 0 .. n |-> IF h = 0 THEN [size |-> size, idx |-> i] ELSE Halved(w[h - 1])]

\* There is such a function, however many layers there are.
LEMMA PlacesExist ==
  ASSUME NEW size, NEW i, NEW n \in Nat
  PROVE  \E w : IsPlaces(w, size, i, n)
<1>. DEFINE T == {m \in 0 .. n : \E w : IsPlaces(w, size, i, m)}
<1>1. 0 \in T
  <2>. DEFINE w == [h \in 0 .. 0 |-> [size |-> size, idx |-> i]]
  <2>1. IsPlaces(w, size, i, 0)
    BY DEF IsPlaces
  <2>. HIDE DEF w
  <2>. QED  BY <2>1
<1>2. ASSUME NEW m \in 1 .. n, m - 1 \in T PROVE m \in T
  <2>1. PICK v : IsPlaces(v, size, i, m - 1)
    BY <1>2, Zenon
  <2>. DEFINE w == [h \in 0 .. m |-> IF h = m THEN Halved(v[m - 1]) ELSE v[h]]
  <2>2. \A h \in 0 .. m - 1 : w[h] = v[h]
    OBVIOUS
  <2>3. \A h \in 0 .. m - 1 : v[h] = IF h = 0 THEN [size |-> size, idx |-> i] ELSE Halved(v[h - 1])
    <3>. TAKE h \in 0 .. m - 1
    <3>. DEFINE u == [g \in 0 .. m - 1 |-> IF g = 0 THEN [size |-> size, idx |-> i] ELSE Halved(v[g - 1])]
    <3>1. v = u
      BY <2>1, Zenon DEF IsPlaces
    <3>2. u[h] = IF h = 0 THEN [size |-> size, idx |-> i] ELSE Halved(v[h - 1])
      BY Zenon
    <3>. HIDE DEF u
    <3>. QED  BY <3>1, <3>2, Zenon
  <2>4. ASSUME NEW h \in 0 .. m
        PROVE  w[h] = IF h = 0 THEN [size |-> size, idx |-> i] ELSE Halved(w[h - 1])
    <3>1. CASE h = m
      <4>1. w[h] = Halved(v[m - 1])
        BY <3>1, Zenon
      <4>2. w[h - 1] = v[m - 1] /\ h # 0
        BY <3>1, <2>2
      <4>. HIDE DEF w
      <4>. QED  BY <4>1, <4>2, <3>1, Zenon
    <3>2. CASE h = 0
      <4>1. w[h] = v[0] /\ 0 \in 0 .. m - 1
        BY <3>2, <2>2
      <4>. HIDE DEF w
      <4>. QED  BY <4>1, <3>2, <2>3, Zenon
    <3>3. CASE h # m /\ h # 0
      <4>1. h \in 0 .. m - 1 /\ h - 1 \in 0 .. m - 1
        BY <3>3
      <4>2. w[h] = v[h] /\ w[h - 1] = v[h - 1]
        BY <4>1, <2>2, Zenon
      <4>. HIDE DEF w
      <4>. QED  BY <4>1, <4>2, <3>3, <2>3, Zenon
    <3>. QED  BY <3>1, <3>2, <3>3, Zenon
  <2>5. IsPlaces(w, size, i, m)
    <3>1. w = [h \in 0 .. m |-> w[h]]
      OBVIOUS
    <3>. HIDE DEF w
    <3>. QED  BY <3>1, <2>4, Zenon DEF IsPlaces
  <2>. HIDE DEF w
  <2>. QED  BY <2>5
<1>3. n \in 0 .. n
  OBVIOUS
<1>. HIDE DEF T
<1>4. n \in T
  BY <1>1, <1>2, <1>3, ReachesAll, Zenon
<1>. QED  BY <1>4, Zenon DEF T

\* What Places returns, layer by layer.
LEMMA PlacesUnfold ==
  ASSUME NEW n \in Nat, NEW i
  PROVE  /\ Places(n, i)[0] = [size |-> n, idx |-> i]
         /\ \A h \in 1 .. n : Places(n, i)[h] = Halved(Places(n, i)[h - 1])
<1>1. IsPlaces(Places(n, i), n, i, n)
  <2>1. \E w : IsPlaces(w, n, i, n)
    BY PlacesExist, Zenon
  <2>. QED  BY <2>1, Zenon DEF IsPlaces, Places
<1>. DEFINE v == Places(n, i)
            u == [h \in 0 .. n |-> IF h = 0 THEN [size |-> n, idx |-> i]
                    ELSE Halved(v[h - 1])]
<1>2. v = u
  BY <1>1, Zenon DEF IsPlaces
<1>. HIDE DEF v
<1>3. u[0] = [size |-> n, idx |-> i]
  OBVIOUS
<1>4. \A h \in 1 .. n : u[h] = Halved(v[h - 1])
  OBVIOUS
<1>. HIDE DEF u
<1>. QED  BY <1>2, <1>3, <1>4, Zenon DEF v

\* One more sibling is one more hash.
LEMMA RehashAppend ==
  ASSUME NEW leaf, NEW S, NEW siblings \in Seq(S), NEW x \in S
  PROVE  Rehash(leaf, siblings \o <<x>>) = HashWith(Rehash(leaf, siblings), x)
<1>. DEFINE n == Len(siblings)
            more == siblings \o <<x>>
<1>1. /\ n \in Nat /\ Len(more) = n + 1 /\ more[n + 1] = x
      /\ \A j \in 1 .. n : more[j] = siblings[j]
  OBVIOUS
<1>2. Len(more) \in Nat
  BY <1>1
<1>. HIDE DEF more
<1>3. PICK cur : /\ Rehash(leaf, siblings) = cur[n] /\ cur[0] = leaf
                 /\ \A j \in 1 .. n : cur[j] = HashWith(cur[j - 1], siblings[j])
  BY <1>1, RehashUnfold
<1>4. PICK nxt : /\ Rehash(leaf, more) = nxt[Len(more)] /\ nxt[0] = leaf
                 /\ \A j \in 1 .. Len(more) : nxt[j] = HashWith(nxt[j - 1], more[j])
  BY <1>2, RehashUnfold
<1>. HIDE DEF n
<1>. DEFINE T == {j \in 0 .. n : nxt[j] = cur[j]}
<1>5. 0 \in T
  BY <1>1, <1>3, <1>4
<1>6. ASSUME NEW j \in 1 .. n, j - 1 \in T PROVE j \in T
  <2>1. nxt[j - 1] = cur[j - 1]
    BY <1>6, Zenon
  <2>2. j \in 1 .. Len(more) /\ more[j] = siblings[j]
    BY <1>1
  <2>3. nxt[j] = cur[j]
    BY <2>1, <2>2, <1>3, <1>4, Zenon
  <2>4. j \in 0 .. n
    BY <1>1
  <2>. QED  BY <2>3, <2>4, Zenon
<1>. HIDE DEF T
<1>7. n \in T
  <2>1. \A j \in 0 .. n : j \in T
    BY <1>1, <1>5, <1>6, ReachesAll, Zenon
  <2>. QED  BY <2>1, <1>1
<1>8. nxt[n] = cur[n]
  BY <1>7, Zenon DEF T
<1>9. /\ n + 1 \in 1 .. Len(more) /\ (n + 1) - 1 = n
  BY <1>1
<1>10. nxt[n + 1] = HashWith(nxt[n], x)
  BY <1>9, <1>1, <1>4, Zenon
<1>. QED  BY <1>10, <1>8, <1>1, <1>3, <1>4, Zenon DEF more

IsSeq(s) == \E S : s \in Seq(S)

\* A function on the first numbers is a sequence.
LEMMA FcnIsSeq ==
  ASSUME NEW f, NEW k \in Nat, f = [j \in 1 .. k |-> f[j]]
  PROVE  IsSeq(f) /\ Len(f) = k
<1>. DEFINE S == {f[j] : j \in 1 .. k}
<1>1. f \in [1 .. k -> S]
  OBVIOUS
<1>2. f \in Seq(S) /\ Len(f) = k
  <2>. HIDE DEF S
  <2>. QED  BY <1>1
<1>. QED  BY <1>2, Zenon DEF IsSeq

\* The next layer has half as many nodes, each the hash of two below it or of one.
LEMMA NextLayerIs ==
  ASSUME NEW layer, IsSeq(layer), NEW n \in Nat, n = Len(layer)
  PROVE  /\ IsSeq(NextLayer(layer)) /\ Len(NextLayer(layer)) = (n + 1) \div 2
         /\ \A j \in 1 .. (n + 1) \div 2 :
               NextLayer(layer)[j] = IF 2 * j <= n THEN <<layer[2 * j - 1], layer[2 * j]>>
                                                   ELSE <<layer[2 * j - 1]>>
<1>1. (n + 1) \div 2 \in Nat
  OBVIOUS
<1>2. PICK f : f = NextLayer(layer)
  OBVIOUS
<1>3. f = [j \in 1 .. (n + 1) \div 2 |->
             IF 2 * j <= n THEN <<layer[2 * j - 1], layer[2 * j]>> ELSE <<layer[2 * j - 1]>>]
  BY <1>2, Zenon DEF NextLayer
<1>4. \A j \in 1 .. (n + 1) \div 2 :
         f[j] = IF 2 * j <= n THEN <<layer[2 * j - 1], layer[2 * j]>> ELSE <<layer[2 * j - 1]>>
  BY <1>3, Zenon
<1>5. f = [j \in 1 .. (n + 1) \div 2 |-> f[j]]
  BY <1>3, <1>4, Zenon
<1>6. IsSeq(f) /\ Len(f) = (n + 1) \div 2
  BY <1>1, <1>5, FcnIsSeq, Zenon
<1>. QED  BY <1>2, <1>4, <1>6, Zenon

\* What the loop has reached after some turns: the layer r of the tree, of the
\* size and with the position that p says, and the path to it.
Reached(w, r, p, leaf) ==
  /\ IsSeq(w.layer) /\ w.layer = r.layer /\ Len(w.layer) = p.size
  /\ w.idx = p.idx /\ p.size \in Nat /\ p.idx \in 1 .. p.size
  /\ IsSeq(w.siblings) /\ Rehash(leaf, w.siblings) = w.layer[w.idx]

\* One turn of the loop at a node that has a partner, or at the root.
LEMMA ClimbReaches ==
  ASSUME NEW w, NEW r, NEW p, NEW leaf, Reached(w, r, p, leaf),
         p.size <= 1 \/ p.idx % 2 = 0 \/ p.idx < p.size
  PROVE  Reached(Climb(w), Climb(r), Halved(p), leaf)
<1>. USE DEF Halved
<1>. DEFINE q == Halved(p)
<1>0. /\ IsSeq(w.layer) /\ w.layer = r.layer /\ Len(w.layer) = p.size
      /\ w.idx = p.idx /\ p.size \in Nat /\ p.idx \in 1 .. p.size
      /\ IsSeq(w.siblings) /\ Rehash(leaf, w.siblings) = w.layer[w.idx]
  BY Zenon DEF Reached
<1>1. CASE p.size <= 1
  <2>1. Climb(w) = w /\ Climb(r) = r
    BY <1>0, <1>1, Zenon DEF Climb
  <2>2. q.size = p.size /\ q.idx = p.idx
    BY <1>0, <1>1
  <2>. HIDE DEF q
  <2>3. Reached(w, r, q, leaf)
    BY <2>2, <1>0, Zenon DEF Reached
  <2>. QED  BY <2>1, <2>3, Zenon DEF q
<1>2. CASE p.size > 1
  <2>. DEFINE n == p.size
              i == p.idx
              up == NextLayer(w.layer)
              j == (i + 1) \div 2
  <2>1. n \in Nat /\ n > 1 /\ i \in 1 .. n /\ (i % 2 = 0 \/ i < n)
    BY <1>0, <1>2
  <2>2. /\ IsSeq(up) /\ Len(up) = (n + 1) \div 2
        /\ \A k \in 1 .. (n + 1) \div 2 :
              up[k] = IF 2 * k <= n THEN <<w.layer[2 * k - 1], w.layer[2 * k]>>
                                    ELSE <<w.layer[2 * k - 1]>>
    BY <1>0, NextLayerIs, Zenon
  <2>3. Climb(w) = [layer |-> up, idx |-> j,
                    siblings |-> w.siblings \o Sibling(w.layer, i)]
    BY <1>0, <2>1 DEF Climb
  <2>4. Climb(r).layer = up
    <3>1. Climb(r) = [layer |-> NextLayer(r.layer), idx |-> (r.idx + 1) \div 2,
                      siblings |-> r.siblings \o Sibling(r.layer, r.idx)]
      BY <1>0, <2>1 DEF Climb
    <3>. QED  BY <3>1, <1>0
  <2>. HIDE DEF up, n, i
  <2>5. j \in 1 .. (n + 1) \div 2 /\ 2 * j <= n /\ (n + 1) \div 2 \in Nat
    BY <2>1
  <2>6. up[j] = <<w.layer[2 * j - 1], w.layer[2 * j]>>
    BY <2>2, <2>5, Zenon
  <2>7. \E x : Sibling(w.layer, i) = <<x>> /\ HashWith(w.layer[i], x) = up[j]
    <3>1. CASE i % 2 = 0
      <4>1. 2 * j = i /\ 2 * j - 1 = i - 1
        BY <3>1, <2>1
      <4>2. Sibling(w.layer, i) = <<[side |-> "L", hash |-> w.layer[i - 1]]>>
        BY <3>1, Zenon DEF Sibling
      <4>3. HashWith(w.layer[i], [side |-> "L", hash |-> w.layer[i - 1]])
              = <<w.layer[i - 1], w.layer[i]>>
        BY Zenon DEF HashWith
      <4>. QED  BY <4>1, <4>2, <4>3, <2>6, Zenon
    <3>2. CASE i % 2 # 0
      <4>1. 2 * j = i + 1 /\ 2 * j - 1 = i /\ i < n
        BY <3>2, <2>1
      <4>2. Sibling(w.layer, i) = <<[side |-> "R", hash |-> w.layer[i + 1]]>>
        BY <3>2, <4>1, <1>0, Zenon DEF Sibling, n
      <4>3. HashWith(w.layer[i], [side |-> "R", hash |-> w.layer[i + 1]])
              = <<w.layer[i], w.layer[i + 1]>>
        BY Zenon DEF HashWith
      <4>. QED  BY <4>1, <4>2, <4>3, <2>6, Zenon
    <3>. QED  BY <3>1, <3>2, Zenon
  <2>8. PICK x : Sibling(w.layer, i) = <<x>> /\ HashWith(w.layer[i], x) = up[j]
    BY <2>7, Zenon
  <2>9. IsSeq(w.siblings \o <<x>>) /\ Rehash(leaf, w.siblings \o <<x>>) = up[j]
    <3>1. PICK S : w.siblings \in Seq(S)
      BY <1>0, Zenon DEF IsSeq
    <3>2. w.siblings \in Seq(S \cup {x}) /\ x \in S \cup {x}
      BY <3>1
    <3>3. w.siblings \o <<x>> \in Seq(S \cup {x})
      BY <3>2
    <3>4. Rehash(leaf, w.siblings \o <<x>>) = HashWith(Rehash(leaf, w.siblings), x)
      BY <3>2, RehashAppend
    <3>. QED  BY <3>3, <3>4, <2>8, <1>0, Zenon DEF IsSeq, i
  <2>10. /\ Climb(w).layer = up /\ Climb(w).idx = j
         /\ Climb(w).siblings = w.siblings \o <<x>>
    BY <2>3, <2>8
  <2>11. q.size = (n + 1) \div 2 /\ q.idx = j
    BY Zenon DEF n, i
  <2>. HIDE DEF q, j
  <2>12. Reached(Climb(w), Climb(r), q, leaf)
    BY <2>2, <2>4, <2>5, <2>9, <2>10, <2>11, Zenon DEF Reached
  <2>. QED  BY <2>12, Zenon DEF q
<1>3. p.size <= 1 \/ p.size > 1
  BY <1>0
<1>. QED  BY <1>1, <1>2, <1>3, Zenon

\* A tree over n leaves is down to its root after n turns.
LEMMA RootIsReached ==
  ASSUME NEW n \in Nat \ {0}, NEW i \in 1 .. n
  PROVE  Places(n, i)[n].size = 1
<1>. DEFINE p == Places(n, i)
<1>1. /\ p[0] = [size |-> n, idx |-> i]
      /\ \A h \in 1 .. n : p[h] = Halved(p[h - 1])
  BY PlacesUnfold
<1>. HIDE DEF p
<1>. DEFINE T == {h \in 0 .. n : /\ p[h].size \in Nat \ {0}
                                 /\ p[h].size <= 1 \/ p[h].size <= n - h}
<1>2. 0 \in T
  BY <1>1
<1>3. ASSUME NEW h \in 1 .. n, h - 1 \in T PROVE h \in T
  <2>1. PICK s \in Nat \ {0} : s = p[h - 1].size /\ (s <= 1 \/ s <= n - (h - 1))
    BY <1>3, Zenon
  <2>2. p[h].size = (s + 1) \div 2
    <3>1. p[h] = Halved(p[h - 1])
      BY <1>1, Zenon
    <3>2. p[h] = [size |-> (s + 1) \div 2, idx |-> (p[h - 1].idx + 1) \div 2]
      BY <3>1, <2>1, Zenon DEF Halved
    <3>. QED  BY <3>2
  <2>3. (s + 1) \div 2 \in Nat \ {0} /\ ((s + 1) \div 2 <= 1 \/ (s + 1) \div 2 <= s - 1)
    BY <2>1
  <2>. QED  BY <2>1, <2>2, <2>3
<1>. HIDE DEF T
<1>4. n \in T
  <2>1. \A h \in 0 .. n : h \in T
    BY <1>2, <1>3, ReachesAll, Zenon
  <2>. QED  BY <2>1
<1>5. p[n].size \in Nat \ {0} /\ (p[n].size <= 1 \/ p[n].size <= n - n)
  BY <1>4, Zenon DEF T
<1>6. p[n].size = 1
  BY <1>5
<1>. QED  BY <1>6, Zenon DEF p

\* The path from a leaf that has a partner on every layer leads to the root.
LEMMA PathLeadsToRoot ==
  ASSUME NEW leaves, IsSeq(leaves), NEW n \in Nat \ {0}, n = Len(leaves),
         NEW i \in 1 .. n, AlwaysPaired(n, i)
  PROVE  verify_proof(MerkleRoot(leaves), leaves[i], SiblingPath(leaves, i))
<1>. DEFINE w == Turns(leaves, i)
            r == Turns(leaves, 1)
            p == Places(n, i)
<1>1. /\ w[0] = [layer |-> leaves, idx |-> i, siblings |-> <<>>]
      /\ \A h \in 1 .. n : w[h] = Climb(w[h - 1])
  BY TurnsUnfold, Zenon
<1>2. /\ r[0] = [layer |-> leaves, idx |-> 1, siblings |-> <<>>]
      /\ \A h \in 1 .. n : r[h] = Climb(r[h - 1])
  BY TurnsUnfold
<1>3. /\ p[0] = [size |-> n, idx |-> i]
      /\ \A h \in 1 .. n : p[h] = Halved(p[h - 1])
  BY PlacesUnfold
<1>4. \A h \in 0 .. n : p[h].size <= 1 \/ p[h].idx % 2 = 0 \/ p[h].idx < p[h].size
  BY Zenon DEF AlwaysPaired
<1>5. p[n].size = 1
  BY RootIsReached, Zenon
<1>6. MerkleRoot(leaves) = r[n].layer[1] /\ SiblingPath(leaves, i) = w[n].siblings
  BY Zenon DEF MerkleRoot, SiblingPath
<1>. HIDE DEF w, r, p
<1>. DEFINE T == {h \in 0 .. n : Reached(w[h], r[h], p[h], leaves[i])}
<1>7. 0 \in T
  <2>1. IsSeq(<<>>)
    <3>1. <<>> \in Seq({})
      OBVIOUS
    <3>. QED  BY <3>1, Zenon DEF IsSeq
  <2>2. Rehash(leaves[i], <<>>) = leaves[i]
    <3>1. Len(<<>>) = 0 /\ Len(<<>>) \in Nat
      OBVIOUS
    <3>2. PICK cur : Rehash(leaves[i], <<>>) = cur[Len(<<>>)] /\ cur[0] = leaves[i]
      BY <3>1, RehashUnfold
    <3>. QED  BY <3>1, <3>2, Zenon
  <2>3. Reached(w[0], r[0], p[0], leaves[i])
    BY <1>1, <1>2, <1>3, <2>1, <2>2 DEF Reached
  <2>. QED  BY <2>3
<1>8. ASSUME NEW h \in 1 .. n, h - 1 \in T PROVE h \in T
  <2>1. Reached(w[h - 1], r[h - 1], p[h - 1], leaves[i]) /\ h - 1 \in 0 .. n
    BY <1>8, Zenon
  <2>2. Reached(Climb(w[h - 1]), Climb(r[h - 1]), Halved(p[h - 1]), leaves[i])
    BY <2>1, <1>4, ClimbReaches, Zenon
  <2>3. Reached(w[h], r[h], p[h], leaves[i])
    BY <2>2, <1>1, <1>2, <1>3, Zenon
  <2>. QED  BY <2>3
<1>. HIDE DEF T
<1>9. n \in T
  <2>1. \A h \in 0 .. n : h \in T
    BY <1>7, <1>8, ReachesAll, Zenon
  <2>. QED  BY <2>1
<1>10. Reached(w[n], r[n], p[n], leaves[i])
  BY <1>9, Zenon DEF T
<1>11. Rehash(leaves[i], w[n].siblings) = r[n].layer[1]
  BY <1>5, <1>10 DEF Reached
<1>. QED  BY <1>6, <1>11, Zenon DEF verify_proof

\* The links are numbered in the order of the chain, a link's hash covers its
\* number, and a root that is not dirty is the root over the links.
ChainInv ==
  /\ IsSeq(links) /\ chain_seq \in Nat /\ merkle_dirty \in BOOLEAN
  /\ \A k \in 1 .. Len(links) :
        /\ links[k].hash[1] = links[k].seq
        /\ links[k].seq + Len(links) - k + 1 = chain_seq
        /\ links[k].seq \in Nat
  /\ links # <<>> /\ ~merkle_dirty => merkle_root = MerkleRoot(Leaves)
  /\ ExportedProofVerifies

\* The empty chain.
LEMMA ChainInitInv == ChainInit => ChainInv
<1>. SUFFICES ASSUME ChainInit PROVE ChainInv
  OBVIOUS
<1>1. links = <<>> /\ chain_seq = 0 /\ merkle_dirty = FALSE /\ proof = NoProof
  BY Zenon DEF ChainInit
<1>2. IsSeq(links) /\ Len(links) = 0
  <2>1. links \in Seq({})
    BY <1>1
  <2>. QED  BY <2>1, <1>1, Zenon DEF IsSeq
<1>3. ExportedProofVerifies
  BY <1>1, Zenon DEF ExportedProofVerifies
<1>4. 1 .. Len(links) = {} /\ chain_seq \in Nat
  BY <1>1, <1>2
<1>. QED  BY <1>1, <1>2, <1>3, <1>4, Zenon DEF ChainInv

\* append numbers and hashes a new link, and may drop the oldest.
LEMMA AppendKeeps ==
  ASSUME ChainInv, NEW d \in Data, append(d)
  PROVE  ChainInv'
<1>1. PICK S : links \in Seq(S)
  BY Zenon DEF ChainInv, IsSeq
<1>2. PICK parent, link, grown :
        /\ link = [seq |-> chain_seq, data |-> d, parent |-> parent,
                   hash |-> LinkHash(chain_seq, d, parent)]
        /\ grown = Append(links, link)
        /\ links' = IF Len(grown) > MAX_CHAIN THEN Tail(grown) ELSE grown
  BY Zenon DEF append
<1>3. link.seq = chain_seq /\ link.hash[1] = chain_seq
  BY <1>2, Zenon DEF LinkHash
<1>4. chain_seq \in Nat /\ chain_seq' = chain_seq + 1 /\ merkle_dirty' = TRUE
      /\ proof' = proof
  BY Zenon DEF ChainInv, append
<1>5. /\ grown \in Seq(S \cup {link}) /\ Len(links) \in Nat /\ Len(grown) = Len(links) + 1
      /\ \A k \in 1 .. Len(links) : grown[k] = links[k]
      /\ grown[Len(links) + 1] = link
  <2>1. links \in Seq(S \cup {link})
    BY <1>1
  <2>. QED  BY <2>1, <1>2
<1>6. \A k \in 1 .. Len(grown) : /\ grown[k].hash[1] = grown[k].seq
                                 /\ grown[k].seq + Len(grown) - k + 1 = chain_seq + 1
                                 /\ grown[k].seq \in Nat
  <2>. SUFFICES ASSUME NEW k \in 1 .. Len(grown)
                PROVE  /\ grown[k].hash[1] = grown[k].seq
                       /\ grown[k].seq + Len(grown) - k + 1 = chain_seq + 1
                       /\ grown[k].seq \in Nat
    OBVIOUS
  <2>1. CASE k = Len(links) + 1
    BY <2>1, <1>3, <1>4, <1>5
  <2>2. CASE k # Len(links) + 1
    <3>1. k \in 1 .. Len(links) /\ grown[k] = links[k]
      BY <2>2, <1>5
    <3>2. /\ links[k].hash[1] = links[k].seq
          /\ links[k].seq + Len(links) - k + 1 = chain_seq
          /\ links[k].seq \in Nat
      BY <3>1, Zenon DEF ChainInv
    <3>. QED  BY <3>1, <3>2, <1>4, <1>5
  <2>. QED  BY <2>1, <2>2, Zenon
<1>7. ExportedProofVerifies'
  BY <1>4, Zenon DEF ChainInv, ExportedProofVerifies
<1>8. CASE links' = grown
  <2>1. IsSeq(links')
    BY <1>5, <1>8, Zenon DEF IsSeq
  <2>. QED  BY <2>1, <1>4, <1>6, <1>7, <1>8 DEF ChainInv
<1>9. CASE links' = Tail(grown)
  <2>1. /\ Tail(grown) \in Seq(S \cup {link}) /\ Len(Tail(grown)) = Len(grown) - 1
        /\ \A k \in 1 .. Len(grown) - 1 : Tail(grown)[k] = grown[k + 1]
    BY <1>5
  <2>2. IsSeq(links')
    BY <2>1, <1>9, Zenon DEF IsSeq
  <2>3. \A k \in 1 .. Len(links') : /\ links'[k].hash[1] = links'[k].seq
                                    /\ links'[k].seq + Len(links') - k + 1 = chain_seq + 1
                                    /\ links'[k].seq \in Nat
    <3>. SUFFICES ASSUME NEW k \in 1 .. Len(grown) - 1
                  PROVE  /\ grown[k + 1].hash[1] = grown[k + 1].seq
                         /\ grown[k + 1].seq + (Len(grown) - 1) - k + 1 = chain_seq + 1
                         /\ grown[k + 1].seq \in Nat
      BY <1>9, <2>1
    <3>1. k + 1 \in 1 .. Len(grown) /\ Len(grown) \in Nat
      BY <1>5
    <3>2. /\ grown[k + 1].hash[1] = grown[k + 1].seq
          /\ grown[k + 1].seq + Len(grown) - (k + 1) + 1 = chain_seq + 1
          /\ grown[k + 1].seq \in Nat
      BY <3>1, <1>6, Zenon
    <3>. QED  BY <3>1, <3>2, <1>4
  <2>. QED  BY <2>2, <2>3, <1>4, <1>7 DEF ChainInv
<1>. QED  BY <1>2, <1>8, <1>9, Zenon

\* The root that rebuild_merkle leaves is the root over the links.
LEMMA RebuiltIsRoot ==
  ASSUME ChainInv, links # <<>>
  PROVE  RebuiltRoot = MerkleRoot(Leaves)
BY Zenon DEF ChainInv, RebuiltRoot

\* get_root_hash recomputes a root that is dirty.
LEMMA RootKeeps ==
  ASSUME ChainInv, get_root_hash
  PROVE  ChainInv'
<1>1. /\ links # <<>> /\ merkle_root' = RebuiltRoot /\ merkle_dirty' = FALSE
      /\ links' = links /\ chain_seq' = chain_seq /\ proof' = proof
  BY Zenon DEF get_root_hash
<1>2. merkle_root' = MerkleRoot(Leaves)
  BY <1>1, RebuiltIsRoot, Zenon
<1>3. Leaves' = Leaves
  BY <1>1, Zenon DEF Leaves
<1>4. MerkleRoot(Leaves)' = MerkleRoot(Leaves)
  BY <1>3, Zenon DEF MerkleRoot, Turns
<1>5. ExportedProofVerifies'
  BY <1>1, Zenon DEF ChainInv, ExportedProofVerifies
<1>. QED  BY <1>1, <1>2, <1>4, <1>5, Zenon DEF ChainInv

\* export_proof_to_file writes the path of the link at a position.
LEMMA ExportKeeps ==
  ASSUME ChainInv, NEW s \in Nat, export_proof_to_file(s)
  PROVE  ChainInv'
<1>1. /\ s < Len(links) /\ merkle_root' = RebuiltRoot /\ merkle_dirty' = FALSE
      /\ links' = links /\ chain_seq' = chain_seq
      /\ proof' = [seq |-> s, leaf |-> links[s + 1].hash, root |-> RebuiltRoot,
                   siblings |-> SiblingPath(Leaves, s + 1),
                   size |-> Len(links), evicted |-> links[1].seq > 0]
  BY Zenon DEF export_proof_to_file
<1>2. PICK S : links \in Seq(S)
  BY Zenon DEF ChainInv, IsSeq
<1>3. links # <<>> /\ Len(links) \in Nat \ {0} /\ s + 1 \in 1 .. Len(links)
  BY <1>1, <1>2
<1>4. RebuiltRoot = MerkleRoot(Leaves)
  BY <1>3, RebuiltIsRoot, Zenon
<1>5. /\ IsSeq(Leaves) /\ Len(Leaves) = Len(links)
      /\ Leaves[s + 1] = links[s + 1].hash
  <2>1. Leaves = [i \in 1 .. Len(links) |-> links[i].hash]
    BY Zenon DEF Leaves
  <2>2. PICK f : f = Leaves
    OBVIOUS
  <2>3. f = [j \in 1 .. Len(links) |-> f[j]] /\ f[s + 1] = links[s + 1].hash
    BY <2>1, <2>2, <1>3, Zenon
  <2>. QED  BY <2>2, <2>3, <1>3, FcnIsSeq, Zenon
<1>6. ASSUME AlwaysPaired(Len(links), s + 1)
      PROVE  verify_proof(MerkleRoot(Leaves), links[s + 1].hash, SiblingPath(Leaves, s + 1))
  <2>1. verify_proof(MerkleRoot(Leaves), Leaves[s + 1], SiblingPath(Leaves, s + 1))
    BY <1>3, <1>5, <1>6, PathLeadsToRoot, Zenon
  <2>. QED  BY <2>1, <1>5, Zenon
<1>7. ASSUME ~(links[1].seq > 0) PROVE links[s + 1].hash[1] = s
  <2>1. /\ links[1].seq \in Nat /\ links[1].seq + Len(links) - 1 + 1 = chain_seq
        /\ links[s + 1].hash[1] = links[s + 1].seq /\ links[s + 1].seq \in Nat
        /\ links[s + 1].seq + Len(links) - (s + 1) + 1 = chain_seq
    <3>1. \A k \in 1 .. Len(links) :
             /\ links[k].hash[1] = links[k].seq
             /\ links[k].seq + Len(links) - k + 1 = chain_seq
             /\ links[k].seq \in Nat
      BY Zenon DEF ChainInv
    <3>2. 1 \in 1 .. Len(links)
      BY <1>3
    <3>. QED  BY <1>3, <3>1, <3>2, Zenon
  <2>2. links[1].seq = 0 /\ Len(links) \in Nat
    BY <2>1, <1>3, <1>7
  <2>3. links[s + 1].seq = s
    BY <2>1, <2>2
  <2>. QED  BY <2>1, <2>3, Zenon
<1>8. ExportedProofVerifies'
  <2>1. /\ proof'.seq = s /\ proof'.leaf = links[s + 1].hash /\ proof'.root = MerkleRoot(Leaves)
        /\ proof'.siblings = SiblingPath(Leaves, s + 1) /\ proof'.size = Len(links)
        /\ proof'.evicted = (links[1].seq > 0)
    BY <1>1, <1>4, Zenon
  <2>2. AlwaysPaired(proof'.size, proof'.seq + 1)
           => verify_proof(proof'.root, proof'.leaf, proof'.siblings)
    BY <2>1, <1>6, Zenon
  <2>3. ~proof'.evicted => proof'.leaf[1] = proof'.seq
    BY <2>1, <1>7, Zenon
  <2>. QED  BY <2>2, <2>3, Zenon DEF ExportedProofVerifies
<1>9. Leaves' = Leaves
  BY <1>1, Zenon DEF Leaves
<1>10. MerkleRoot(Leaves)' = MerkleRoot(Leaves)
  BY <1>9, Zenon DEF MerkleRoot, Turns
<1>. QED  BY <1>1, <1>4, <1>8, <1>10, Zenon DEF ChainInv

\* What export_proof_to_file writes is accepted by verify_proof, for a chain of
\* any length and every position that has a partner on each layer, however often
\* the oldest link was dropped and the root recomputed meanwhile; and it is about
\* the link of the number asked for as long as none was dropped.
THEOREM ExportsVerify == ChainSpec => []ExportedProofVerifies
<1>1. ChainInv /\ [ChainNext]_chainVars => ChainInv'
  <2>. SUFFICES ASSUME ChainInv, [ChainNext]_chainVars PROVE ChainInv'
    OBVIOUS
  <2>1. ASSUME NEW s \in 0 .. MaxLinks, export_proof_to_file(s) PROVE ChainInv'
    BY <2>1, ExportKeeps
  <2>2. CASE UNCHANGED chainVars
    <3>1. Leaves' = Leaves
      BY <2>2, Zenon DEF chainVars, Leaves
    <3>2. MerkleRoot(Leaves)' = MerkleRoot(Leaves)
      BY <3>1, Zenon DEF MerkleRoot, Turns
    <3>3. ExportedProofVerifies'
      BY <2>2, Zenon DEF ChainInv, chainVars, ExportedProofVerifies
    <3>. QED  BY <2>2, <3>2, <3>3, Zenon DEF ChainInv, chainVars
  <2>. QED  BY <2>1, <2>2, AppendKeeps, RootKeeps, Zenon DEF ChainNext
<1>2. ChainInv => ExportedProofVerifies
  BY Zenon DEF ChainInv
<1>. QED  BY ChainInitInv, <1>1, <1>2, PTL DEF ChainSpec

-----------------------------------------------------------------------------
(***************************************************************************)
(* The journal.                                                            *)
(***************************************************************************)

\* The records of a file and the places of a thread in append.
Record == [num : 0 .. MaxSeq, whole : BOOLEAN, boot : Nat]
Critical == {"copy", "truncate", "write"}
WriterState == [at : {"idle", "lock"} \cup Critical, seq : 0 .. MaxSeq]

JournalTyped ==
    /\ jseq \in 0 .. MaxSeq /\ gen \in Nat /\ boot \in Nat /\ boots \in Nat
    /\ current \in Seq(Seq(Record)) /\ backup \in Seq(Seq(Record))
    /\ writer \in [Writer -> WriterState]
    /\ spoiled \in BOOLEAN /\ misread \in BOOLEAN
    /\ written \subseteq [num : 0 .. MaxSeq, boot : Nat, gen : Nat]

\* At most one thread is past the mutex; until it has truncated the file that it
\* copied, the backup is spoiled, and before it truncates, the backup is a copy.
RotationInv ==
    /\ \A v, w \in Writer : v # w /\ writer[v].at \in Critical => writer[w].at \notin Critical
    /\ \A w \in Writer : /\ writer[w].at \in {"copy", "truncate"} => spoiled
                         /\ writer[w].at = "truncate" => misread \/ backup = current
    /\ \A r \in written : r.gen <= gen
    /\ RotationKeepsRecords

\* The lines that can be read back.
WellFormed(line) == Len(line) = 1 /\ line[1].whole

\* The numbers that are given out are new: no two threads have the same, no line
\* that can be read back has the number of a thread, and in a process that runs
\* none has a number that is still to be given out.
NumbersInv ==
    /\ boot = 0 => \A w \in Writer : writer[w].at = "idle"
    /\ \A w \in Writer : writer[w].at # "idle" => writer[w].seq >= 1 /\ writer[w].seq <= jseq
    /\ \A v, w \in Writer :
          v # w /\ writer[v].at # "idle" /\ writer[w].at # "idle" => writer[v].seq # writer[w].seq
    /\ \A i \in 1 .. Len(current) : WellFormed(current[i]) =>
          /\ current[i][1].num >= 1
          /\ boot > 0 => current[i][1].num <= jseq
          /\ \A w \in Writer : writer[w].at # "idle" => current[i][1].num # writer[w].seq
    /\ NumbersAreUnique

JournalInv == JournalTyped /\ RotationInv /\ NumbersInv

-----------------------------------------------------------------------------
\* x is the file f with the record r after it, in the last line or in one of its own.
WithRecord(f, r, x) ==
    \/ f # <<>> /\ x = [f EXCEPT ![Len(f)] = Append(@, r)]
    \/ x = Append(f, <<r>>)

\* x holds what f does, and r if r was written whole; a line of x that can be read
\* back is one of f or the last, with r in it.
Keeps(f, r, x) ==
    /\ x \in Seq(Seq(Record))
    /\ \A num, b : Holds(f, num, b) => Holds(x, num, b)
    /\ r.whole => Holds(x, r.num, r.boot)
    /\ \A i \in 1 .. Len(x) : WellFormed(x[i]) =>
          \/ i \in 1 .. Len(f) /\ x[i] = f[i]
          \/ i = Len(x) /\ x[i][1] = r

\* The record that append writes leaves the records before it in the file.
LEMMA ExtendedFile ==
  ASSUME NEW f \in Seq(Seq(Record)), NEW r \in Record, NEW x, WithRecord(f, r, x)
  PROVE  Keeps(f, r, x)
<1>1. Len(f) \in Nat /\ \A i \in 1 .. Len(f) : f[i] \in Seq(Record)
  OBVIOUS
<1>2. r = [num |-> r.num, whole |-> r.whole, boot |-> r.boot] /\ r.whole \in BOOLEAN
  BY Zenon DEF Record
<1>3. CASE f # <<>> /\ x = [f EXCEPT ![Len(f)] = Append(@, r)]
  <2>1. PICK k : k = Len(f)
    OBVIOUS
  <2>2. k \in 1 .. Len(f) /\ f[k] \in Seq(Record)
    BY <1>1, <1>3, <2>1
  <2>3. PICK g : g = Append(f[k], r)
    BY Zenon
  <2>4. /\ g \in Seq(Record) /\ Len(g) = Len(f[k]) + 1 /\ Len(f[k]) \in Nat
        /\ \A j \in 1 .. Len(f[k]) : g[j] = f[k][j]
        /\ g[Len(f[k]) + 1] = r
    BY <2>2, <2>3, AppendProperties
  <2>5. x = [f EXCEPT ![k] = g]
    BY <1>3, <2>1, <2>3, Zenon
  <2>6. /\ x \in Seq(Seq(Record)) /\ Len(x) = Len(f)
        /\ x[k] = g /\ \A j \in 1 .. Len(f) : j # k => x[j] = f[j]
    BY <2>2, <2>4, <2>5, ExceptSeq
  <2>7. ASSUME NEW num, NEW b, Holds(f, num, b) PROVE Holds(x, num, b)
    <3>0. PICK i \in 1 .. Len(f) : \E j \in 1 .. Len(f[i]) :
            f[i][j] = [num |-> num, whole |-> TRUE, boot |-> b]
      BY <2>7, Zenon DEF Holds
    <3>1. PICK j \in 1 .. Len(f[i]) : f[i][j] = [num |-> num, whole |-> TRUE, boot |-> b]
      BY <3>0, Zenon
    <3>2. CASE i = k
      <4>1. j \in 1 .. Len(f[k]) /\ j \in 1 .. Len(g)
        BY <2>4, <3>1, <3>2
      <4>2. x[i][j] = f[i][j]
        BY <2>4, <2>6, <3>2, <4>1, Zenon
      <4>3. i \in 1 .. Len(x) /\ j \in 1 .. Len(x[i])
        BY <2>6, <3>2, <4>1, Zenon
      <4>. QED  BY <3>1, <4>2, <4>3, Zenon DEF Holds
    <3>3. CASE i # k
      <4>1. i \in 1 .. Len(x) /\ x[i] = f[i]
        BY <2>6, <3>3, Zenon
      <4>. QED  BY <3>1, <4>1, Zenon DEF Holds
    <3>. QED  BY <3>2, <3>3, Zenon
  <2>8. ASSUME r.whole PROVE Holds(x, r.num, r.boot)
    <3>1. Len(f[k]) + 1 \in 1 .. Len(g)
      BY <2>4
    <3>2. r = [num |-> r.num, whole |-> TRUE, boot |-> r.boot]
      BY <1>2, <2>8, Zenon
    <3>. QED  BY <2>2, <2>4, <2>6, <3>1, <3>2, Zenon DEF Holds
  <2>9. ASSUME NEW i \in 1 .. Len(x), WellFormed(x[i]), i = k
        PROVE  x[i][1] = r
    <3>1. Len(g) = 1
      BY <2>6, <2>9, Zenon DEF WellFormed
    <3>2. Len(f[k]) + 1 = 1
      BY <2>4, <3>1, Zenon
    <3>. QED  BY <2>4, <2>6, <2>9, <3>2, Zenon
  <2>10. k = Len(x)
    BY <2>1, <2>6, Zenon
  <2>. QED  BY <2>6, <2>7, <2>8, <2>9, <2>10, Zenon DEF Keeps
<1>4. CASE x = Append(f, <<r>>)
  <2>1. <<r>> \in Seq(Record) /\ Len(<<r>>) = 1 /\ <<r>>[1] = r
    OBVIOUS
  <2>2. PICK g : g = <<r>>
    BY Zenon
  <2>3. /\ x \in Seq(Seq(Record)) /\ Len(x) = Len(f) + 1
        /\ \A i \in 1 .. Len(f) : x[i] = f[i]
        /\ x[Len(f) + 1] = g
    BY <1>4, <2>1, <2>2, AppendProperties
  <2>4. \A i \in 1 .. Len(f) : i \in 1 .. Len(x)
    BY <1>1, <2>3
  <2>5. ASSUME NEW num, NEW b, Holds(f, num, b) PROVE Holds(x, num, b)
    BY <2>3, <2>4, <2>5, Zenon DEF Holds
  <2>6. Len(f) + 1 \in 1 .. Len(x) /\ 1 \in 1 .. Len(g)
    BY <1>1, <2>1, <2>2, <2>3
  <2>7. ASSUME r.whole PROVE Holds(x, r.num, r.boot)
    <3>1. r = [num |-> r.num, whole |-> TRUE, boot |-> r.boot]
      BY <1>2, <2>7, Zenon
    <3>2. x[Len(f) + 1][1] = r /\ 1 \in 1 .. Len(x[Len(f) + 1])
      BY <2>1, <2>2, <2>3, <2>6, Zenon
    <3>. QED  BY <2>6, <3>1, <3>2, Zenon DEF Holds
  <2>8. ASSUME NEW i \in 1 .. Len(x)
        PROVE  (i \in 1 .. Len(f) /\ x[i] = f[i]) \/ (i = Len(x) /\ x[i][1] = r)
    <3>1. i \in 1 .. Len(f) \/ i = Len(f) + 1
      BY <1>1, <2>3
    <3>. QED  BY <2>1, <2>2, <2>3, <3>1, Zenon
  <2>. QED  BY <2>3, <2>5, <2>7, <2>8, Zenon DEF Keeps
<1>. QED  BY <1>3, <1>4, Zenon DEF WithRecord

\* extract_seq gives a number within the bound, and the number of a line that can
\* be read back.
LEMMA LineSeqBound ==
  ASSUME NEW line \in Seq(Record)
  PROVE  /\ LineSeq(line) \in 0 .. MaxSeq
         /\ WellFormed(line) /\ line[1].num >= 1 => LineSeq(line) = line[1].num
<1>1. Len(line) \in Nat /\ \A i \in 1 .. Len(line) : line[i].num \in 0 .. MaxSeq
  <2>1. \A i \in 1 .. Len(line) : line[i] \in Record
    OBVIOUS
  <2>2. \A r \in Record : r.num \in 0 .. MaxSeq
    BY Zenon DEF Record
  <2>. QED  BY <2>1, <2>2
<1>2. CASE \E i \in 1 .. Len(line) : line[i].num > 0
  <2>. DEFINE T == {i \in 1 .. Len(line) : line[i].num > 0}
  <2>1. T # {} /\ T \subseteq Nat
    BY <1>1, <1>2
  <2>2. PICK k \in T : \A j \in T : k <= j
    <3>. HIDE DEF T
    <3>. QED  BY <2>1, LeastNat, Zenon
  <2>3. \A j \in 1 .. k - 1 : line[j].num = 0
    <3>. TAKE j \in 1 .. k - 1
    <3>1. j \in 1 .. Len(line) /\ ~(k <= j)
      BY <1>1
    <3>2. ~(line[j].num > 0)
      BY <2>2, <3>1, Zenon
    <3>. QED  BY <1>1, <3>1, <3>2
  <2>4. PICK i : i = CHOOSE m \in 1 .. Len(line) : /\ line[m].num > 0
                                                  /\ \A j \in 1 .. m - 1 : line[j].num = 0
    OBVIOUS
  <2>5. i \in 1 .. Len(line) /\ line[i].num > 0
    <3>1. \E m \in 1 .. Len(line) : line[m].num > 0 /\ \A j \in 1 .. m - 1 : line[j].num = 0
      BY <2>2, <2>3, Zenon
    <3>. QED  BY <3>1, <2>4, Zenon
  <2>6. LineSeq(line) = line[i].num
    BY <1>2, <2>4, Zenon DEF LineSeq
  <2>7. WellFormed(line) => i = 1
    BY <2>5 DEF WellFormed
  <2>. QED  BY <1>1, <2>5, <2>6, <2>7, Zenon
<1>3. CASE ~\E i \in 1 .. Len(line) : line[i].num > 0
  <2>1. LineSeq(line) = 0
    BY <1>3, Zenon DEF LineSeq
  <2>2. ~(WellFormed(line) /\ line[1].num >= 1)
    <3>. SUFFICES ASSUME WellFormed(line), line[1].num >= 1 PROVE FALSE
      OBVIOUS
    <3>1. 1 \in 1 .. Len(line)
      BY DEF WellFormed
    <3>2. line[1].num > 0
      BY <1>1, <3>1
    <3>. QED  BY <1>3, <3>1, <3>2, Zenon
  <2>. QED  BY <2>1, <2>2, JournalAssumption
<1>. QED  BY <1>2, <1>3, Zenon

\* The constructor continues after every number that can be read back.
LEMMA RecoveredBound ==
  ASSUME current \in Seq(Seq(Record))
  PROVE  /\ Recovered \in 0 .. MaxSeq
         /\ \A i \in 1 .. Len(current) :
               WellFormed(current[i]) /\ current[i][1].num >= 1 => current[i][1].num <= Recovered
<1>1. PICK T : T = {0} \cup {LineSeq(current[i]) : i \in 1 .. Len(current)}
  BY Zenon
<1>2. \A i \in 1 .. Len(current) : current[i] \in Seq(Record)
  OBVIOUS
<1>3. T \subseteq 0 .. MaxSeq /\ T # {}
  BY <1>1, <1>2, LineSeqBound, JournalAssumption
<1>4. \E n \in T : \A m \in T : m <= n
  <2>1. T \subseteq Nat /\ \A x \in T : x <= MaxSeq
    BY <1>3, JournalAssumption
  <2>. QED  BY <1>3, <2>1, GreatestNat, JournalAssumption, Zenon
<1>5. Recovered \in T /\ \A m \in T : m <= Recovered
  BY <1>1, <1>4, Zenon DEF Recovered
<1>6. ASSUME NEW i \in 1 .. Len(current), WellFormed(current[i]), current[i][1].num >= 1
      PROVE  current[i][1].num <= Recovered
  <2>1. LineSeq(current[i]) = current[i][1].num
    BY <1>2, <1>6, LineSeqBound, Zenon
  <2>. QED  BY <1>1, <1>5, <2>1, Zenon
<1>. QED  BY <1>3, <1>5, <1>6, Zenon

\* The number of a line that can be read back is within the bound.
LEMMA FirstNumber ==
  ASSUME NEW f \in Seq(Seq(Record)), NEW i \in 1 .. Len(f), WellFormed(f[i])
  PROVE  f[i][1].num \in 0 .. MaxSeq
<1>1. f[i] \in Seq(Record) /\ Len(f[i]) = 1
  BY DEF WellFormed
<1>2. f[i][1] \in Record
  BY <1>1
<1>. QED  BY <1>2, Zenon DEF Record

-----------------------------------------------------------------------------
\* The journal starts in the invariant.
LEMMA JournalInitInv == JournalInit => JournalInv
<1>. SUFFICES ASSUME JournalInit PROVE JournalInv
  OBVIOUS
<1>1. /\ jseq = 0 /\ current = <<>> /\ backup = <<>> /\ boot = 1 /\ boots = 1 /\ gen = 0
      /\ spoiled = FALSE /\ misread = FALSE /\ written = {}
      /\ writer = [w \in Writer |-> WriterIdle]
  BY Zenon DEF JournalInit
<1>2. writer \in [Writer -> WriterState] /\ \A w \in Writer : writer[w].at = "idle"
  BY <1>1, JournalAssumption DEF WriterState, WriterIdle
<1>3. JournalTyped
  <2>1. <<>> \in Seq(Seq(Record)) /\ 0 \in 0 .. MaxSeq
    BY JournalAssumption
  <2>. QED  BY <1>1, <1>2, <2>1, Zenon DEF JournalTyped
<1>4. RotationInv
  BY <1>1, <1>2, Zenon DEF RotationInv, RotationKeepsRecords, Critical
<1>5. NumbersInv
  BY <1>1, <1>2, SMTT(30) DEF NumbersInv, NumbersAreUnique
<1>. QED  BY <1>3, <1>4, <1>5, Zenon DEF JournalInv

\* The number is new: it is larger than any that a thread or a line has.
LEMMA TakeSeqInv ==
  ASSUME JournalInv, NEW w \in Writer, TakeSeq(w)
  PROVE  JournalInv'
<1>1. /\ boot > 0 /\ writer[w].at = "idle" /\ jseq < MaxSeq /\ jseq' = jseq + 1
      /\ writer' = [writer EXCEPT ![w] = [at |-> "lock", seq |-> jseq + 1]]
      /\ UNCHANGED <<current, backup, boot, boots, gen, spoiled, misread, written>>
  BY Zenon DEF TakeSeq
<1>2. JournalTyped /\ RotationInv /\ NumbersInv
  BY Zenon DEF JournalInv
<1>3. PICK r : r = [at |-> "lock", seq |-> jseq + 1]
  BY Zenon
<1>4. r \in WriterState /\ r.at = "lock" /\ r.seq = jseq + 1 /\ jseq + 1 \in 0 .. MaxSeq
      /\ jseq \in Nat
  BY <1>1, <1>2, <1>3, JournalAssumption DEF JournalTyped, WriterState
<1>5. /\ writer' \in [Writer -> WriterState] /\ writer'[w] = r
      /\ \A v \in Writer : v # w => writer'[v] = writer[v]
  BY <1>1, <1>2, <1>3, <1>4, Zenon DEF JournalTyped
<1>6. JournalTyped'
  BY <1>1, <1>2, <1>4, <1>5, Zenon DEF JournalTyped
<1>7. RotationInv'
  BY <1>1, <1>2, <1>4, <1>5, Zenon DEF RotationInv, RotationKeepsRecords, Critical
<1>8. NumbersInv'
  <2>1. boot' = 0 => \A v \in Writer : writer'[v].at = "idle"
    BY <1>1
  <2>2. \A v \in Writer : writer[v].seq \in Nat
    BY <1>2 DEF JournalTyped, WriterState
  <2>3. \A v \in Writer : writer'[v].at # "idle" => writer'[v].seq >= 1 /\ writer'[v].seq <= jseq'
    <3>1. jseq + 1 >= 1 /\ jseq + 1 <= jseq + 1 /\ \A x \in Nat : x <= jseq => x <= jseq + 1
      BY <1>4
    <3>2. \A v \in Writer : writer[v].at # "idle" => writer[v].seq >= 1 /\ writer[v].seq <= jseq
      BY <1>2, Zenon DEF NumbersInv
    <3>. SUFFICES ASSUME NEW v \in Writer, writer'[v].at # "idle"
                  PROVE  writer'[v].seq >= 1 /\ writer'[v].seq <= jseq'
      BY Zenon
    <3>3. CASE v = w
      BY <1>1, <1>4, <1>5, <3>1, <3>3, Zenon
    <3>4. CASE v # w
      BY <1>1, <1>5, <2>2, <3>1, <3>2, <3>4, Zenon
    <3>. QED  BY <3>3, <3>4, Zenon
  <2>4. \A u, v \in Writer :
          u # v /\ writer'[u].at # "idle" /\ writer'[v].at # "idle" => writer'[u].seq # writer'[v].seq
    <3>1. \A x \in Nat : x <= jseq => x # jseq + 1
      BY <1>4
    <3>2. \A v \in Writer : v # w /\ writer'[v].at # "idle" => writer'[v].seq # jseq + 1
      <4>1. \A v \in Writer : writer[v].at # "idle" => writer[v].seq <= jseq
        BY <1>2, Zenon DEF NumbersInv
      <4>. QED  BY <1>5, <2>2, <3>1, <4>1, Zenon
    <3>3. \A u, v \in Writer : u # v /\ writer[u].at # "idle" /\ writer[v].at # "idle"
                                  => writer[u].seq # writer[v].seq
      BY <1>2 DEF NumbersInv
    <3>. SUFFICES ASSUME NEW u \in Writer, NEW v \in Writer, u # v,
                         writer'[u].at # "idle", writer'[v].at # "idle"
                  PROVE  writer'[u].seq # writer'[v].seq
      BY Zenon
    <3>4. CASE u = w
      BY <1>4, <1>5, <3>2, <3>4, Zenon
    <3>5. CASE v = w
      BY <1>4, <1>5, <3>2, <3>5, Zenon
    <3>6. CASE u # w /\ v # w
      <4>1. writer'[u] = writer[u] /\ writer'[v] = writer[v]
        BY <1>5, <3>6, Zenon
      <4>. QED  BY <3>3, <4>1, Zenon
    <3>. QED  BY <3>4, <3>5, <3>6, Zenon
  <2>5. ASSUME NEW i \in 1 .. Len(current), WellFormed(current[i])
        PROVE  /\ current[i][1].num >= 1 /\ current[i][1].num <= jseq'
               /\ \A v \in Writer : writer'[v].at # "idle" => current[i][1].num # writer'[v].seq
    <3>1. PICK n : n = current[i][1].num
      OBVIOUS
    <3>2. /\ n >= 1 /\ n <= jseq /\ n \in Int
          /\ \A v \in Writer : writer[v].at # "idle" => n # writer[v].seq
      <4>1. n \in 0 .. MaxSeq
        BY <1>2, <2>5, <3>1, FirstNumber, Zenon DEF JournalTyped
      <4>. QED  BY <1>1, <1>2, <2>5, <3>1, <4>1, SMTT(30) DEF NumbersInv
    <3>. QED  BY <1>1, <1>4, <1>5, <3>1, <3>2, SMTT(30)
  <2>. QED  BY <1>1, <1>2, <2>1, <2>3, <2>4, <2>5 DEF NumbersInv, NumbersAreUnique
<1>. QED  BY <1>6, <1>7, <1>8, Zenon DEF JournalInv

\* The properties, of the state after a step.
LEMMA RecordsKept ==
  ASSUME misread' \/ \A r \in written' :
            /\ r.gen = gen' => Holds(current', r.num, r.boot)
            /\ r.gen + 1 = gen' /\ ~spoiled' => Holds(backup', r.num, r.boot)
  PROVE  RotationKeepsRecords'
<1>. QED  BY Zenon DEF RotationKeepsRecords, Holds

\* NumbersAreUnique in the form in which the steps establish it.
LEMMA NumbersDiffer ==
  ASSUME \A i, j \in 1 .. Len(current') :
            i # j /\ WellFormed(current'[i]) /\ WellFormed(current'[j])
              => current'[i][1].num # current'[j][1].num
  PROVE  NumbersAreUnique'
<1>. QED  BY Zenon DEF NumbersAreUnique, WellFormed

\* A step that gives out no number and writes no record keeps the numbering.
LEMMA NumbersRest ==
  ASSUME JournalTyped, NumbersInv, boot' = boot, jseq' = jseq,
         current' = current \/ current' = <<>>,
         \A v \in Writer : \/ writer'[v].at = "idle"
                           \/ writer[v].at # "idle" /\ writer'[v].seq = writer[v].seq
  PROVE  NumbersInv'
<1>1. boot' = 0 => \A v \in Writer : writer'[v].at = "idle"
  BY Zenon DEF NumbersInv
<1>2. /\ \A v \in Writer : writer'[v].at # "idle" => writer'[v].seq >= 1 /\ writer'[v].seq <= jseq'
      /\ \A u, v \in Writer :
            u # v /\ writer'[u].at # "idle" /\ writer'[v].at # "idle" => writer'[u].seq # writer'[v].seq
  BY Zenon DEF NumbersInv
<1>3. \A i \in 1 .. Len(current') : current' = current /\ i \in 1 .. Len(current)
  <2>1. \A i \in 1 .. Len(<<>>) : FALSE
    OBVIOUS
  <2>. QED  BY <2>1, Zenon
<1>4. \A i \in 1 .. Len(current') : WellFormed(current'[i]) =>
          /\ current'[i][1].num >= 1
          /\ boot' > 0 => current'[i][1].num <= jseq'
          /\ \A w \in Writer : writer'[w].at # "idle" => current'[i][1].num # writer'[w].seq
  BY <1>3, Zenon DEF NumbersInv
<1>5. NumbersAreUnique'
  <2>1. \A i, j \in 1 .. Len(current) :
          i # j /\ WellFormed(current[i]) /\ WellFormed(current[j])
            => current[i][1].num # current[j][1].num
    BY Zenon DEF NumbersInv, NumbersAreUnique, WellFormed
  <2>2. \A i, j \in 1 .. Len(current') :
          i # j /\ WellFormed(current'[i]) /\ WellFormed(current'[j])
            => current'[i][1].num # current'[j][1].num
    BY <1>3, <2>1, Zenon
  <2>. QED  BY <2>2, NumbersDiffer, Zenon
<1>. QED  BY <1>1, <1>2, <1>4, <1>5, Zenon DEF NumbersInv

\* A thread that goes on keeps its number.
LEMMA WriterGoesOn ==
  ASSUME JournalTyped, NEW w \in Writer, NEW a \in {"lock"} \cup Critical,
         writer' = [writer EXCEPT ![w].at = a]
  PROVE  /\ writer' \in [Writer -> WriterState]
         /\ writer'[w].at = a /\ writer'[w].seq = writer[w].seq
         /\ \A v \in Writer : v # w => writer'[v] = writer[v]
<1>1. PICK r : r = [writer[w] EXCEPT !.at = a]
  BY Zenon
<1>2. r \in WriterState /\ r.at = a /\ r.seq = writer[w].seq
  BY <1>1, Zenon DEF JournalTyped, WriterState
<1>3. writer' = [writer EXCEPT ![w] = r]
  BY <1>1, Zenon
<1>. QED  BY <1>2, <1>3, Zenon DEF JournalTyped

\* A thread that returns from append is idle.
LEMMA WriterReturns ==
  ASSUME JournalTyped, NEW w \in Writer, writer' = [writer EXCEPT ![w] = WriterIdle]
  PROVE  /\ writer' \in [Writer -> WriterState]
         /\ writer'[w].at = "idle"
         /\ \A v \in Writer : v # w => writer'[v] = writer[v]
<1>1. WriterIdle \in WriterState /\ WriterIdle.at = "idle"
  BY JournalAssumption DEF WriterIdle, WriterState
<1>. QED  BY <1>1, Zenon DEF JournalTyped

\* Only a thread that finds the mutex free goes past it, and the backup is spoiled
\* from the moment it is emptied.
LEMMA LockFileInv ==
  ASSUME JournalInv, NEW w \in Writer, LockFile(w)
  PROVE  JournalInv'
<1>1. JournalTyped /\ RotationInv /\ NumbersInv
  BY Zenon DEF JournalInv
<1>2. /\ writer[w].at = "lock" /\ \A v \in Writer : writer[v].at \in {"idle", "lock"}
      /\ UNCHANGED <<jseq, current, boot, boots, gen, misread, written>>
  BY Zenon DEF LockFile, MutexFree
<1>3. \/ /\ writer' = [writer EXCEPT ![w] = WriterIdle] /\ UNCHANGED <<backup, spoiled>>
      \/ /\ writer' = [writer EXCEPT ![w].at = "copy"] /\ backup' = <<>> /\ spoiled' = TRUE
      \/ /\ writer' = [writer EXCEPT ![w].at = "write"] /\ UNCHANGED <<backup, spoiled>>
  BY Zenon DEF LockFile
<1>4. /\ writer' \in [Writer -> WriterState]
      /\ \A v \in Writer : v # w => writer'[v] = writer[v]
      /\ \/ writer'[w].at = "idle" /\ UNCHANGED <<backup, spoiled>>
         \/ /\ writer'[w].at = "copy" /\ writer'[w].seq = writer[w].seq
            /\ backup' = <<>> /\ spoiled' = TRUE
         \/ writer'[w].at = "write" /\ writer'[w].seq = writer[w].seq /\ UNCHANGED <<backup, spoiled>>
  BY <1>1, <1>3, WriterGoesOn, WriterReturns DEF Critical
<1>5. JournalTyped'
  <2>1. backup' \in Seq(Seq(Record)) /\ spoiled' \in BOOLEAN
    <3>1. <<>> \in Seq(Seq(Record))
      OBVIOUS
    <3>. QED  BY <1>1, <1>4, <3>1, Zenon DEF JournalTyped
  <2>. QED  BY <1>1, <1>2, <1>4, <2>1, Zenon DEF JournalTyped
<1>6. RotationInv'
  <2>1. \A u, v \in Writer : u # v /\ writer'[u].at \in Critical => writer'[v].at \notin Critical
    BY <1>2, <1>4, Zenon DEF Critical
  <2>2. \A v \in Writer : /\ writer'[v].at \in {"copy", "truncate"} => spoiled'
                          /\ writer'[v].at # "truncate"
    BY <1>2, <1>4, Zenon
  <2>3. RotationKeepsRecords'
    <3>1. misread \/ \A r \in written :
            /\ r.gen = gen => Holds(current, r.num, r.boot)
            /\ r.gen + 1 = gen /\ ~spoiled => Holds(backup, r.num, r.boot)
      BY <1>1, Zenon DEF RotationInv, RotationKeepsRecords
    <3>2. spoiled' = TRUE \/ UNCHANGED <<backup, spoiled>>
      BY <1>4, Zenon
    <3>. QED  BY <1>2, <3>1, <3>2, RecordsKept
  <2>. QED  BY <1>1, <1>2, <2>1, <2>2, <2>3, Zenon DEF RotationInv
<1>7. NumbersInv'
  BY <1>1, <1>2, <1>4, NumbersRest, Zenon
<1>. QED  BY <1>5, <1>6, <1>7, Zenon DEF JournalInv

\* The thread truncates the file only after a copy, unless it misread the file.
LEMMA CopyFileInv ==
  ASSUME JournalInv, NEW w \in Writer, CopyFile(w)
  PROVE  JournalInv'
<1>1. JournalTyped /\ RotationInv /\ NumbersInv
  BY Zenon DEF JournalInv
<1>2. /\ writer[w].at = "copy" /\ UNCHANGED <<jseq, current, boot, boots, gen, spoiled, written>>
  BY Zenon DEF CopyFile
<1>3. /\ backup' = current \/ \E n \in 0 .. Len(current) - 1 : backup' = SubSeq(current, 1, n)
      /\ \/ writer' = [writer EXCEPT ![w].at = "write"] /\ UNCHANGED misread
         \/ /\ writer' = [writer EXCEPT ![w].at = "truncate"]
            /\ (backup' = current /\ UNCHANGED misread) \/ misread' = TRUE
  BY Zenon DEF CopyFile
<1>4. /\ writer' \in [Writer -> WriterState]
      /\ writer'[w].seq = writer[w].seq
      /\ \A v \in Writer : v # w => writer'[v] = writer[v]
      /\ \/ writer'[w].at = "write" /\ UNCHANGED misread
         \/ writer'[w].at = "truncate" /\ ((backup' = current /\ UNCHANGED misread) \/ misread' = TRUE)
  BY <1>1, <1>3, WriterGoesOn, Zenon DEF Critical
<1>5. JournalTyped'
  <2>1. backup' \in Seq(Seq(Record))
    <3>1. current \in Seq(Seq(Record))
      BY <1>1, Zenon DEF JournalTyped
    <3>2. \A n \in 0 .. Len(current) - 1 : SubSeq(current, 1, n) \in Seq(Seq(Record))
      BY <3>1
    <3>. QED  BY <1>3, <3>1, <3>2, Zenon
  <2>2. misread' \in BOOLEAN
    BY <1>1, <1>4, Zenon DEF JournalTyped
  <2>. QED  BY <1>1, <1>2, <1>4, <2>1, <2>2, Zenon DEF JournalTyped
<1>6. RotationInv'
  <2>1. spoiled = TRUE /\ \A v \in Writer : v # w => writer[v].at \notin Critical
    BY <1>1, <1>2, Zenon DEF RotationInv, Critical, JournalTyped
  <2>2. \A u, v \in Writer : u # v /\ writer'[u].at \in Critical => writer'[v].at \notin Critical
    BY <1>4, <2>1, Zenon
  <2>3. \A v \in Writer : /\ writer'[v].at \in {"copy", "truncate"} => spoiled'
                          /\ writer'[v].at = "truncate" => misread' \/ backup' = current'
    BY <1>2, <1>4, <2>1, Zenon DEF Critical
  <2>4. RotationKeepsRecords'
    <3>1. misread' = misread \/ misread' = TRUE
      BY <1>4, Zenon
    <3>. QED  BY <1>1, <1>2, <2>1, <3>1, Zenon DEF RotationInv, RotationKeepsRecords
  <2>. QED  BY <1>1, <1>2, <2>2, <2>3, <2>4, Zenon DEF RotationInv
<1>7. NumbersInv'
  BY <1>1, <1>2, <1>4, NumbersRest, Zenon
<1>. QED  BY <1>5, <1>6, <1>7, Zenon DEF JournalInv

\* What the file held is in the backup when the file is truncated.
LEMMA TruncateFileInv ==
  ASSUME JournalInv, NEW w \in Writer, TruncateFile(w)
  PROVE  JournalInv'
<1>1. JournalTyped /\ RotationInv /\ NumbersInv
  BY Zenon DEF JournalInv
<1>2. /\ writer[w].at = "truncate" /\ writer' = [writer EXCEPT ![w].at = "write"]
      /\ UNCHANGED <<jseq, backup, boot, boots, misread, written>>
      /\ \/ current' = <<>> /\ gen' = gen + 1 /\ spoiled' = FALSE
         \/ UNCHANGED <<current, gen, spoiled>>
  BY Zenon DEF TruncateFile
<1>3. /\ writer' \in [Writer -> WriterState]
      /\ writer'[w].at = "write" /\ writer'[w].seq = writer[w].seq
      /\ \A v \in Writer : v # w => writer'[v] = writer[v]
  BY <1>1, <1>2, WriterGoesOn, Zenon DEF Critical
<1>4. gen \in Nat /\ \A r \in written : r.gen \in Nat /\ r.gen <= gen
  BY <1>1, Zenon DEF JournalTyped, RotationInv
<1>5. JournalTyped'
  <2>1. current' \in Seq(Seq(Record)) /\ gen' \in Nat /\ spoiled' \in BOOLEAN
    <3>1. <<>> \in Seq(Seq(Record))
      OBVIOUS
    <3>2. current' \in Seq(Seq(Record))
      BY <1>1, <1>2, <3>1, Zenon DEF JournalTyped
    <3>3. gen' \in Nat
      BY <1>2, <1>4
    <3>4. spoiled' \in BOOLEAN
      BY <1>1, <1>2, Zenon DEF JournalTyped
    <3>. QED  BY <3>2, <3>3, <3>4, Zenon
  <2>. QED  BY <1>1, <1>2, <1>3, <2>1, Zenon DEF JournalTyped
<1>6. RotationInv'
  <2>1. (misread \/ backup = current) /\ \A v \in Writer : v # w => writer[v].at \notin Critical
    BY <1>1, <1>2, Zenon DEF RotationInv, Critical
  <2>2. /\ \A u, v \in Writer : u # v /\ writer'[u].at \in Critical => writer'[v].at \notin Critical
        /\ \A v \in Writer : writer'[v].at \notin {"copy", "truncate"}
    BY <1>3, <2>1, Zenon DEF Critical
  <2>3. \A r \in written' : r.gen <= gen'
    BY <1>2, <1>4
  <2>4. RotationKeepsRecords'
    <3>1. CASE misread
      BY <1>2, <3>1, Zenon DEF RotationKeepsRecords
    <3>2. CASE ~misread /\ current' = <<>> /\ gen' = gen + 1 /\ spoiled' = FALSE
      <4>1. ASSUME NEW r \in written
            PROVE  /\ r.gen # gen'
                   /\ r.gen + 1 = gen' => Holds(backup, r.num, r.boot)
        <5>1. r.gen # gen' /\ (r.gen + 1 = gen' => r.gen = gen)
          BY <1>4, <3>2
        <5>2. r.gen = gen => Holds(current, r.num, r.boot)
          BY <1>1, <3>2, Zenon DEF RotationInv, RotationKeepsRecords
        <5>. QED  BY <2>1, <3>2, <5>1, <5>2, Zenon
      <4>. QED  BY <1>2, <4>1, RecordsKept, Zenon
    <3>3. CASE UNCHANGED <<current, gen, spoiled>>
      <4>1. misread \/ \A r \in written :
              /\ r.gen = gen => Holds(current, r.num, r.boot)
              /\ r.gen + 1 = gen /\ ~spoiled => Holds(backup, r.num, r.boot)
        BY <1>1, Zenon DEF RotationInv, RotationKeepsRecords
      <4>. QED  BY <1>2, <3>3, <4>1, RecordsKept, Zenon
    <3>. QED  BY <1>2, <3>1, <3>2, <3>3, Zenon
  <2>. QED  BY <2>2, <2>3, <2>4, Zenon DEF RotationInv
<1>7. NumbersInv'
  BY <1>1, <1>2, <1>3, NumbersRest, Zenon
<1>. QED  BY <1>5, <1>6, <1>7, Zenon DEF JournalInv

\* The record that is written is in the file, and its number is the thread's own.
LEMMA WriteRecordInv ==
  ASSUME JournalInv, NEW w \in Writer, WriteRecord(w)
  PROVE  JournalInv'
<1>1. JournalTyped /\ RotationInv /\ NumbersInv
  BY Zenon DEF JournalInv
<1>2. /\ writer[w].at = "write" /\ writer' = [writer EXCEPT ![w] = WriterIdle]
      /\ UNCHANGED <<jseq, backup, boot, boots, gen, spoiled, misread>>
  BY Zenon DEF WriteRecord
<1>3. /\ writer' \in [Writer -> WriterState]
      /\ writer'[w].at = "idle"
      /\ \A v \in Writer : v # w => writer'[v] = writer[v]
  BY <1>1, <1>2, WriterReturns, Zenon
<1>4. /\ gen \in Nat /\ boot \in Nat /\ writer[w].seq \in 0 .. MaxSeq /\ jseq \in 0 .. MaxSeq
      /\ current \in Seq(Seq(Record)) /\ backup \in Seq(Seq(Record))
      /\ \A r \in written : r.gen \in Nat /\ r.gen <= gen
  BY <1>1, Zenon DEF JournalTyped, RotationInv, WriterState
<1>5. \A v \in Writer : v # w => writer[v].at \notin Critical
  BY <1>1, <1>2, Zenon DEF RotationInv, Critical
<1>6. /\ \A u, v \in Writer : u # v /\ writer'[u].at \in Critical => writer'[v].at \notin Critical
      /\ \A v \in Writer : writer'[v].at \notin {"copy", "truncate"}
  BY <1>3, <1>5, Zenon DEF Critical
<1>7. misread \/ \A r \in written :
         /\ r.gen = gen => Holds(current, r.num, r.boot)
         /\ r.gen + 1 = gen /\ ~spoiled => Holds(backup, r.num, r.boot)
  BY <1>1, Zenon DEF RotationInv, RotationKeepsRecords
<1>8. CASE UNCHANGED <<current, written>>
  <2>1. JournalTyped'
    BY <1>1, <1>2, <1>3, <1>8, Zenon DEF JournalTyped
  <2>2. RotationKeepsRecords'
    BY <1>2, <1>7, <1>8, RecordsKept, Zenon
  <2>3. RotationInv'
    BY <1>2, <1>4, <1>6, <1>8, <2>2, Zenon DEF RotationInv
  <2>4. NumbersInv'
    <3>1. \A v \in Writer : \/ writer'[v].at = "idle"
                            \/ writer[v].at # "idle" /\ writer'[v].seq = writer[v].seq
      BY <1>3, Zenon
    <3>. QED  BY <1>1, <1>2, <1>8, <3>1, NumbersRest, Zenon
  <2>. QED  BY <2>1, <2>3, <2>4, Zenon DEF JournalInv
<1>9. ASSUME NEW num \in {0, writer[w].seq}, NEW whole \in BOOLEAN,
             whole => num = writer[w].seq,
             current' = Extended([num |-> num, whole |-> whole, boot |-> boot]),
             written' = IF whole THEN written \cup {[num |-> num, boot |-> boot, gen |-> gen]}
                                 ELSE written
      PROVE  JournalInv'
  <2>1. PICK r : r = [num |-> num, whole |-> whole, boot |-> boot]
    BY Zenon
  <2>2. /\ r \in Record /\ r.num = num /\ r.whole = whole /\ r.boot = boot
        /\ num \in 0 .. MaxSeq
    BY <1>4, <1>9, <2>1, JournalAssumption DEF Record
  <2>3. \/ current # <<>> /\ current' = [current EXCEPT ![Len(current)] = Append(@, r)]
        \/ current' = Append(current, <<r>>)
    BY <1>9, <2>1, Zenon DEF Extended
  <2>4. /\ current' \in Seq(Seq(Record))
        /\ \A n, b : Holds(current, n, b) => Holds(current', n, b)
        /\ whole => Holds(current', num, boot)
        /\ \A i \in 1 .. Len(current') : WellFormed(current'[i]) =>
              \/ i \in 1 .. Len(current) /\ current'[i] = current[i]
              \/ i = Len(current') /\ current'[i][1] = r
    <3>1. PICK x : x = current'
      OBVIOUS
    <3>2. /\ current \in Seq(Seq(Record)) /\ r \in Record
          /\ WithRecord(current, r, x)
      BY <1>4, <2>2, <2>3, <3>1, Zenon DEF WithRecord
    <3>3. Keeps(current, r, x)
      BY <3>2, ExtendedFile, Zenon
    <3>. QED  BY <2>2, <3>1, <3>3, Zenon DEF Keeps
  <2>5. PICK e : e = [num |-> num, boot |-> boot, gen |-> gen]
    BY Zenon
  <2>6. /\ e \in [num : 0 .. MaxSeq, boot : Nat, gen : Nat]
        /\ e.num = num /\ e.boot = boot /\ e.gen = gen
    BY <1>4, <2>2, <2>5, Zenon
  <2>7. /\ written \subseteq written'
        /\ \A x \in written' : x \in written \/ (x = e /\ whole)
    BY <1>9, <2>5, Zenon
  <2>8. JournalTyped'
    <3>1. written' \subseteq [num : 0 .. MaxSeq, boot : Nat, gen : Nat]
      BY <1>1, <2>6, <2>7, Zenon DEF JournalTyped
    <3>. QED  BY <1>1, <1>2, <1>3, <2>4, <3>1, Zenon DEF JournalTyped
  <2>9. RotationInv'
    <3>1. \A x \in written' : x.gen <= gen'
      BY <1>2, <1>4, <2>6, <2>7
    <3>2. ASSUME ~misread, NEW x \in written'
          PROVE  /\ x.gen = gen => Holds(current', x.num, x.boot)
                 /\ x.gen + 1 = gen /\ ~spoiled => Holds(backup, x.num, x.boot)
      <4>1. CASE x \in written
        BY <1>7, <2>4, <3>2, <4>1, Zenon
      <4>2. CASE x = e /\ whole
        <5>1. x.gen + 1 # gen
          BY <1>4, <2>6, <4>2
        <5>. QED  BY <2>4, <2>6, <4>2, <5>1, Zenon
      <4>. QED  BY <2>7, <4>1, <4>2, Zenon
    <3>3. RotationKeepsRecords'
      BY <1>2, <3>2, RecordsKept, Zenon
    <3>. QED  BY <1>6, <3>1, <3>3, Zenon DEF RotationInv
  <2>10. NumbersInv'
    <3>1. \A v \in Writer : writer'[v].at # "idle" =>
             v # w /\ writer'[v] = writer[v] /\ writer[v].at # "idle"
      BY <1>3, Zenon
    <3>2. boot' = 0 => \A v \in Writer : writer'[v].at = "idle"
      BY <1>1, <1>2, <3>1, Zenon DEF NumbersInv
    <3>3. /\ \A v \in Writer : writer'[v].at # "idle" => writer'[v].seq >= 1 /\ writer'[v].seq <= jseq'
          /\ \A u, v \in Writer : u # v /\ writer'[u].at # "idle" /\ writer'[v].at # "idle"
                                    => writer'[u].seq # writer'[v].seq
      <4>1. \A v \in Writer : writer'[v].at # "idle" => writer'[v].seq >= 1 /\ writer'[v].seq <= jseq'
        BY <1>1, <1>2, <3>1, Zenon DEF NumbersInv
      <4>2. \A u, v \in Writer : u # v /\ writer'[u].at # "idle" /\ writer'[v].at # "idle"
                                    => writer'[u].seq # writer'[v].seq
        <5>1. \A u, v \in Writer : u # v /\ writer[u].at # "idle" /\ writer[v].at # "idle"
                                      => writer[u].seq # writer[v].seq
          BY <1>1, Zenon DEF NumbersInv
        <5>. SUFFICES ASSUME NEW u \in Writer, NEW v \in Writer, u # v,
                             writer'[u].at # "idle", writer'[v].at # "idle"
                      PROVE  writer'[u].seq # writer'[v].seq
          BY Zenon
        <5>2. /\ writer'[u] = writer[u] /\ writer[u].at # "idle"
              /\ writer'[v] = writer[v] /\ writer[v].at # "idle"
          BY <3>1, Zenon
        <5>. QED  BY <5>1, <5>2, Zenon
      <4>. QED  BY <4>1, <4>2, Zenon
    <3>4. PICK s : s = writer[w].seq
      OBVIOUS
    <3>5. /\ s >= 1 /\ s <= jseq
          /\ \A v \in Writer : v # w /\ writer[v].at # "idle" => writer[v].seq # s
          /\ \A i \in 1 .. Len(current) : WellFormed(current[i]) => current[i][1].num # s
      BY <1>1, <1>2, <3>4, Zenon DEF NumbersInv
    <3>6. \A i \in 1 .. Len(current') : WellFormed(current'[i]) =>
             \/ i \in 1 .. Len(current) /\ current'[i] = current[i]
             \/ i = Len(current') /\ current'[i][1].num = s
      <4>1. ASSUME NEW i \in 1 .. Len(current'), WellFormed(current'[i]), current'[i][1] = r
            PROVE  current'[i][1].num = s
        <5>1. whole
          BY <2>2, <4>1, Zenon DEF WellFormed
        <5>. QED  BY <1>9, <2>2, <3>4, <4>1, <5>1, Zenon
      <4>. QED  BY <2>4, <4>1, Zenon
    <3>7. \A i \in 1 .. Len(current) : WellFormed(current[i]) =>
             /\ current[i][1].num >= 1
             /\ boot > 0 => current[i][1].num <= jseq
             /\ \A v \in Writer : writer[v].at # "idle" => current[i][1].num # writer[v].seq
      BY <1>1, Zenon DEF NumbersInv
    <3>8. ASSUME NEW i \in 1 .. Len(current'), WellFormed(current'[i])
          PROVE  /\ current'[i][1].num >= 1
                 /\ boot' > 0 => current'[i][1].num <= jseq'
                 /\ \A v \in Writer : writer'[v].at # "idle" => current'[i][1].num # writer'[v].seq
      <4>1. CASE i \in 1 .. Len(current) /\ current'[i] = current[i]
        BY <1>2, <3>1, <3>7, <3>8, <4>1, Zenon
      <4>2. CASE i = Len(current') /\ current'[i][1].num = s
        BY <1>2, <3>1, <3>5, <4>2, Zenon
      <4>. QED  BY <3>6, <3>8, <4>1, <4>2, Zenon
    <3>9. \A i, j \in 1 .. Len(current) :
             i # j /\ WellFormed(current[i]) /\ WellFormed(current[j])
               => current[i][1].num # current[j][1].num
      BY <1>1, Zenon DEF NumbersInv, NumbersAreUnique, WellFormed
    <3>10. \A i, j \in 1 .. Len(current') :
             i # j /\ WellFormed(current'[i]) /\ WellFormed(current'[j])
               => current'[i][1].num # current'[j][1].num
      BY <3>5, <3>6, <3>9, Zenon
    <3>11. NumbersAreUnique'
      BY <3>10, NumbersDiffer, Zenon
    <3>. QED  BY <3>2, <3>3, <3>8, <3>11, Zenon DEF NumbersInv
  <2>. QED  BY <2>8, <2>9, <2>10, Zenon DEF JournalInv
<1>. QED  BY <1>8, <1>9, Zenon DEF WriteRecord

\* A crash leaves the files as they are and no thread with a number.
LEMMA CrashInv ==
  ASSUME JournalInv, Crash
  PROVE  JournalInv'
<1>1. JournalTyped /\ RotationInv /\ NumbersInv
  BY Zenon DEF JournalInv
<1>2. /\ boot' = 0 /\ writer' = [w \in Writer |-> WriterIdle]
      /\ UNCHANGED <<jseq, current, backup, boots, gen, spoiled, misread, written>>
  BY Zenon DEF Crash
<1>3. writer' \in [Writer -> WriterState] /\ \A w \in Writer : writer'[w].at = "idle"
  BY <1>2, JournalAssumption DEF WriterIdle, WriterState
<1>4. JournalTyped'
  BY <1>1, <1>2, <1>3, Zenon DEF JournalTyped
<1>5. RotationInv'
  <2>1. RotationKeepsRecords'
    <3>1. misread \/ \A r \in written :
            /\ r.gen = gen => Holds(current, r.num, r.boot)
            /\ r.gen + 1 = gen /\ ~spoiled => Holds(backup, r.num, r.boot)
      BY <1>1, Zenon DEF RotationInv, RotationKeepsRecords
    <3>. QED  BY <1>2, <3>1, RecordsKept, Zenon
  <2>. QED  BY <1>1, <1>2, <1>3, <2>1, Zenon DEF RotationInv, Critical
<1>6. NumbersInv'
  <2>1. NumbersAreUnique'
    BY <1>1, <1>2, Zenon DEF NumbersInv, NumbersAreUnique
  <2>2. \A i \in 1 .. Len(current') : WellFormed(current'[i]) => current'[i][1].num >= 1
    BY <1>1, <1>2, Zenon DEF NumbersInv
  <2>3. ~(boot' > 0)
    BY <1>2
  <2>. QED  BY <1>3, <2>1, <2>2, <2>3, Zenon DEF NumbersInv
<1>. QED  BY <1>4, <1>5, <1>6, Zenon DEF JournalInv

\* The constructor takes up the numbering where the file ends.
LEMMA RestartInv ==
  ASSUME JournalInv, Restart
  PROVE  JournalInv'
<1>1. JournalTyped /\ RotationInv /\ NumbersInv
  BY Zenon DEF JournalInv
<1>2. /\ boot = 0 /\ boots' = boots + 1 /\ boot' = boots + 1 /\ jseq' = Recovered
      /\ UNCHANGED <<current, backup, writer, gen, spoiled, misread, written>>
  BY Zenon DEF Restart
<1>3. /\ Recovered \in 0 .. MaxSeq
      /\ \A i \in 1 .. Len(current) :
            WellFormed(current[i]) /\ current[i][1].num >= 1 => current[i][1].num <= Recovered
  BY <1>1, RecoveredBound, Zenon DEF JournalTyped
<1>4. \A w \in Writer : writer[w].at = "idle"
  BY <1>1, <1>2, Zenon DEF NumbersInv
<1>5. JournalTyped'
  BY <1>1, <1>2, <1>3 DEF JournalTyped
<1>6. RotationInv'
  <2>1. RotationKeepsRecords'
    <3>1. misread \/ \A r \in written :
            /\ r.gen = gen => Holds(current, r.num, r.boot)
            /\ r.gen + 1 = gen /\ ~spoiled => Holds(backup, r.num, r.boot)
      BY <1>1, Zenon DEF RotationInv, RotationKeepsRecords
    <3>. QED  BY <1>2, <3>1, RecordsKept, Zenon
  <2>. QED  BY <1>1, <1>2, <1>4, <2>1, Zenon DEF RotationInv, Critical
<1>7. NumbersInv'
  <2>1. NumbersAreUnique'
    BY <1>1, <1>2, Zenon DEF NumbersInv, NumbersAreUnique
  <2>2. \A i \in 1 .. Len(current') : WellFormed(current'[i]) =>
           current'[i][1].num >= 1 /\ current'[i][1].num <= jseq'
    BY <1>1, <1>2, <1>3, Zenon DEF NumbersInv
  <2>. QED  BY <1>2, <1>4, <2>1, <2>2, Zenon DEF NumbersInv
<1>. QED  BY <1>5, <1>6, <1>7, Zenon DEF JournalInv

\* Every step of the threads, every crash and every restart keeps the invariant.
LEMMA JournalNextInv == JournalInv /\ [JournalNext]_journalVars => JournalInv'
<1>. SUFFICES ASSUME JournalInv, [JournalNext]_journalVars PROVE JournalInv'
  OBVIOUS
<1>1. CASE UNCHANGED journalVars
  <2>1. UNCHANGED <<jseq, current, backup, writer, boot, boots, gen, spoiled, misread, written>>
    BY <1>1, Zenon DEF journalVars
  <2>2. JournalTyped /\ RotationInv /\ NumbersInv
    BY Zenon DEF JournalInv
  <2>3. JournalTyped'
    BY <2>1, <2>2, Zenon DEF JournalTyped
  <2>4. RotationInv'
    BY <2>1, <2>2, SMTT(30) DEF RotationInv, RotationKeepsRecords, Holds
  <2>5. NumbersInv'
    BY <2>1, <2>2 DEF NumbersInv, NumbersAreUnique
  <2>. QED  BY <2>3, <2>4, <2>5, Zenon DEF JournalInv
<1>2. ASSUME NEW w \in Writer,
             TakeSeq(w) \/ LockFile(w) \/ CopyFile(w) \/ TruncateFile(w) \/ WriteRecord(w)
      PROVE  JournalInv'
  BY <1>2, TakeSeqInv, LockFileInv, CopyFileInv, TruncateFileInv, WriteRecordInv, Zenon
<1>. QED  BY <1>1, <1>2, CrashInv, RestartInv, Zenon DEF JournalNext

\* Rotation loses nothing that it rotates, for any number of threads, numbers,
\* starts and lines.
THEOREM RotationLosesNothing == JournalSpec => []RotationKeepsRecords
<1>1. JournalInv => RotationKeepsRecords
  BY Zenon DEF JournalInv, RotationInv
<1>. QED  BY <1>1, JournalInitInv, JournalNextInv, PTL DEF JournalSpec

\* No two lines that can be read back have the same number, however the threads
\* interleave and wherever the process crashes.
THEOREM NumberingContinues == JournalSpec => []NumbersAreUnique
<1>1. JournalInv => NumbersAreUnique
  BY Zenon DEF JournalInv, NumbersInv
<1>. QED  BY <1>1, JournalInitInv, JournalNextInv, PTL DEF JournalSpec

-----------------------------------------------------------------------------
(***************************************************************************)
(* The start and the end of the program.                                   *)
(***************************************************************************)

\* The places of main after each of its joins, and after the flag of the mesh is
\* cleared.
AfterIpc == {"shutdown_bridge", "return", "exited", "aborted"}
AfterWorker == {"close_sockets", "join_ipc"} \cup AfterIpc
AfterListener == {"join_worker"} \cup AfterWorker
AfterDiscovery == {"join_listener"} \cup AfterListener
AfterStop == {"notify", "stop_discovery", "join_discovery"} \cup AfterDiscovery
AfterHeartbeat == {"stop_mesh"} \cup AfterStop
BeforeJoins == {"boot", "start_discovery", "start_threads", "idle", "join_heartbeat"}

\* The places of main and the owners of the port are known.
ProgramTyped ==
    /\ main \in BeforeJoins \cup AfterHeartbeat
    /\ started \subseteq {"heartbeat", "ipc", "listener", "worker", "discovery", "reaper"}
    /\ port \in {"free", "mesh", "discovery"}
    /\ bridge \in {"none", "running", "exited", "reaped"}
    /\ sockets \in BOOLEAN

\* A thread that runs is owned until main has joined it; then it is done, and no
\* object owns it.
Joined(after, thread, state) ==
    IF main \in after THEN thread \notin started /\ state \in {"none", "done"}
                      ELSE state # "none" => thread \in started

\* What main has brought to an end on its way out.
EndedInv ==
    /\ main \in AfterStop => ~mesh_running
    /\ main \in AfterDiscovery => "discovery" \notin started
    /\ main \in AfterIpc => "ipc" \notin started
    /\ ~sockets => main \in AfterWorker
    /\ main \in {"return", "exited", "aborted"} => bridge \in {"none", "reaped"}
    /\ main = "aborted" => started # {}

\* The threads that main joins.
JoinedInv ==
    /\ Joined(AfterHeartbeat, "heartbeat", heartbeat)
    /\ Joined(AfterListener, "listener", listener)
    /\ Joined(AfterWorker, "worker", worker)

\* The port that the listener wanted is bound while the mesh runs.
PortInv ==
    /\ port = "discovery" => discovery # "none"
    /\ mesh_running /\ listener \in {"loop", "handle"} /\ ~refused => port # "free"

\* The inductive invariant.
ProgramInv == ProgramTyped /\ JoinedInv /\ EndedInv /\ PortInv /\ OnlyCommandsComeLate

\* The program starts in the invariant.
LEMMA ProgramInitInv == ProgramInit => ProgramInv
BY Zenon DEF ProgramInit, ProgramInv, ProgramTyped, JoinedInv, Joined, EndedInv, PortInv, OnlyCommandsComeLate,
       BeforeJoins, AfterHeartbeat, AfterStop, AfterDiscovery, AfterListener, AfterWorker, AfterIpc

\* A thread that uses the mesh while its sockets are open is not late.
LEMMA UsesMeshInTime ==
  ASSUME NEW thread, late \subseteq {"ipc"}, UsesMesh(thread), sockets \/ thread = "ipc"
  PROVE  late' \subseteq {"ipc"}
<1>1. CASE sockets
  BY <1>1, Zenon DEF UsesMesh
<1>2. CASE ~sockets
  <2>1. late' = late \cup {thread}
    BY <1>2, Zenon DEF UsesMesh
  <2>. QED  BY <1>2, <2>1, Zenon
<1>. QED  BY <1>1, <1>2, Zenon

\* The places of the control socket and of its client do not matter.
LEMMA ProgramKept ==
  ASSUME ProgramInv, UNCHANGED <<mesh_running, main, heartbeat, listener, worker, started,
                                 sockets, bridge, late, discovery, port, refused>>
  PROVE  ProgramInv'
BY DEF ProgramInv, ProgramTyped, JoinedInv, Joined, EndedInv, PortInv, OnlyCommandsComeLate

\* Every step keeps the invariant.
LEMMA ProgramNextInv == ProgramInv /\ [ProgramNext]_programVars => ProgramInv'
<1>. SUFFICES ASSUME ProgramInv, [ProgramNext]_programVars PROVE ProgramInv'  OBVIOUS
<1>. USE DEF ProgramInv, ProgramTyped, JoinedInv, Joined, EndedInv, PortInv, OnlyCommandsComeLate,
       BeforeJoins, AfterHeartbeat, AfterStop, AfterDiscovery, AfterListener, AfterWorker, AfterIpc
<1>0. CASE UNCHANGED programVars
  BY <1>0 DEF programVars, netVars
<1>1. CASE StartMesh /\ main \notin {"exited", "aborted"}
  BY <1>1, Zenon DEF StartMesh, netVars
<1>2. CASE StartDiscovery /\ main \notin {"exited", "aborted"}
  BY <1>2, Zenon DEF StartDiscovery, netVars
<1>3. CASE StartThreads /\ main \notin {"exited", "aborted"}
  BY <1>3, Zenon DEF StartThreads, netVars
<1>4. CASE signal_handler /\ main \notin {"exited", "aborted"}
  BY <1>4 DEF signal_handler, netVars
<1>5. CASE LeaveIdle /\ main \notin {"exited", "aborted"}
  BY <1>5, Zenon DEF LeaveIdle, netVars, Main
<1>6. CASE JoinHeartbeat /\ main \notin {"exited", "aborted"}
  BY <1>6, Zenon DEF JoinHeartbeat, netVars, Join, Main
<1>7. CASE StopMesh /\ main \notin {"exited", "aborted"}
  BY <1>7, Zenon DEF StopMesh, netVars, Main
<1>8. CASE NotifyWorker /\ main \notin {"exited", "aborted"}
  BY <1>8, Zenon DEF NotifyWorker, netVars, Main
<1>9. CASE StopDiscovery /\ main \notin {"exited", "aborted"}
  BY <1>9, Zenon DEF StopDiscovery, netVars, Main
<1>10. CASE JoinDiscovery /\ main \notin {"exited", "aborted"}
  BY <1>10, Zenon DEF JoinDiscovery, netVars, Main
<1>11. CASE JoinListener /\ main \notin {"exited", "aborted"}
  BY <1>11, Zenon DEF JoinListener, netVars, Join, Main
<1>12. CASE JoinWorker /\ main \notin {"exited", "aborted"}
  BY <1>12, Zenon DEF JoinWorker, netVars, Join, Main
<1>13. CASE CloseSockets /\ main \notin {"exited", "aborted"}
  BY <1>13, Zenon DEF CloseSockets, netVars, Main
<1>14. CASE JoinIpc /\ main \notin {"exited", "aborted"}
  BY <1>14, Zenon DEF JoinIpc, netVars, Join, Main
<1>15. CASE ShutdownBridge /\ main \notin {"exited", "aborted"}
  BY <1>15, Zenon DEF ShutdownBridge, netVars, Main
<1>16. CASE ReturnFromMain /\ main \notin {"exited", "aborted"}
  BY <1>16, Zenon DEF ReturnFromMain, netVars
<1>17. CASE HeartbeatStep /\ main \notin {"exited", "aborted"}
  BY <1>17, Zenon DEF HeartbeatStep, netVars, UsesMesh
<1>18. CASE IpcOpen /\ main \notin {"exited", "aborted"}
  BY <1>18, ProgramKept, Zenon DEF IpcOpen, netVars
<1>19. CASE IpcSelect /\ main \notin {"exited", "aborted"}
  BY <1>19, ProgramKept, Zenon DEF IpcSelect, netVars
<1>20. CASE ClientSends /\ main \notin {"exited", "aborted"}
  BY <1>20, ProgramKept, Zenon DEF ClientSends, netVars
<1>21. CASE IpcExecute /\ main \notin {"exited", "aborted"}
  <2>1. late' \subseteq {"ipc"}
    BY <1>21, UsesMeshInTime, Zenon DEF IpcExecute
  <2>2. UNCHANGED <<mesh_running, main, heartbeat, listener, worker, started, sockets, bridge,
                    discovery, port, refused>>
    BY <1>21, Zenon DEF IpcExecute, netVars
  <2>. QED  BY <2>1, <2>2
<1>22. CASE ListenerBind /\ main \notin {"exited", "aborted"}
  <2>1. UNCHANGED <<mesh_running, main, heartbeat, ipc, worker, started, sockets, bridge, late,
                    discovery>>
    BY <1>22, Zenon DEF ListenerBind
  <2>2. /\ listener = "bind" /\ listener' \in {"loop", "done"}
        /\ \/ listener' = "loop" /\ refused' = refused
              /\ port' = IF port = "free" THEN "mesh" ELSE port
           \/ refused' = TRUE /\ port' = port
    BY <1>22, Zenon DEF ListenerBind
  <2>. QED  BY <1>22, <2>1, <2>2
<1>23. CASE ListenerStep /\ main \notin {"exited", "aborted"}
  <2>1. late' \subseteq {"ipc"}
    <3>1. CASE UNCHANGED late
      BY <3>1, Zenon
    <3>2. CASE listener = "handle" /\ UsesMesh("listener")
      BY <3>2, UsesMeshInTime, Zenon
    <3>. QED  BY <1>23, <3>1, <3>2, Zenon DEF ListenerStep
  <2>2. UNCHANGED <<mesh_running, main, heartbeat, sockets, bridge, discovery, port, refused>>
    BY <1>23, Zenon DEF ListenerStep, netVars
  <2>3. started' \in {started, started \cup {"reaper"}}
    BY <1>23, Zenon DEF ListenerStep, notify_webhook, enqueue_reap
  <2>4. listener \in {"loop", "handle"} /\ listener' \in {"loop", "handle", "done"}
        /\ (listener' = "handle" => mesh_running)
    BY <1>23, Zenon DEF ListenerStep
  <2>5. worker' = worker \/ (worker = "waiting" /\ worker' = "test")
    BY <1>23, Zenon DEF ListenerStep
  <2>. QED  BY <2>1, <2>2, <2>3, <2>4, <2>5
<1>24. CASE tls_worker_loop /\ main \notin {"exited", "aborted"}
  <2>1. late' \subseteq {"ipc"}
    <3>1. CASE UNCHANGED late
      BY <3>1, Zenon
    <3>2. CASE worker = "task" /\ UsesMesh("worker")
      BY <3>2, UsesMeshInTime, Zenon
    <3>. QED  BY <1>24, <3>1, <3>2, Zenon DEF tls_worker_loop
  <2>2. UNCHANGED <<mesh_running, main, heartbeat, listener, started, sockets, bridge,
                    discovery, port, refused>>
    BY <1>24, Zenon DEF tls_worker_loop, netVars
  <2>3. worker \notin {"none", "done"} /\ worker' # "none"
    BY <1>24, Zenon DEF tls_worker_loop
  <2>. QED  BY <2>1, <2>2, <2>3
<1>25. CASE beacon_loop /\ main \notin {"exited", "aborted"}
  BY <1>25 DEF beacon_loop, netVars
<1>26. CASE BridgeExits /\ main \notin {"exited", "aborted"}
  BY <1>26 DEF BridgeExits, netVars
<1>. QED
  BY <1>0, <1>1, <1>2, <1>3, <1>4, <1>5, <1>6, <1>7, <1>8, <1>9, <1>10, <1>11, <1>12, <1>13, <1>14, <1>15, <1>16, <1>17, <1>18, <1>19, <1>20, <1>21, <1>22, <1>23, <1>24, <1>25, <1>26, Zenon DEF ProgramNext, MainStep

\* The joins of main come before the sockets are closed (main, MeshNode::stop): in
\* whatever order the threads run, only the command thread, which is joined
\* last, can use the mesh after stop().
THEOREM NoThreadComesLate == ProgramSpec => []OnlyCommandsComeLate
<1>1. ProgramInv => OnlyCommandsComeLate
  BY Zenon DEF ProgramInv
<1>. QED  BY <1>1, ProgramInitInv, ProgramNextInv, PTL DEF ProgramSpec

\* main returns with every thread joined except the webhook reaper, which no code
\* joins, and with the telemetry child waited for.
THEOREM ReaperAloneIsLeft == ProgramSpec => []OnlyReaperIsLeft
<1>1. ProgramInv => OnlyReaperIsLeft
  <2>. SUFFICES ASSUME ProgramInv PROVE OnlyReaperIsLeft  OBVIOUS
  <2>1. ASSUME main = "aborted" PROVE started = {"reaper"}
    <3>1. started \subseteq {"reaper"}
      BY <2>1, Zenon DEF ProgramInv, ProgramTyped, JoinedInv, Joined, EndedInv, AfterHeartbeat,
                  AfterStop, AfterDiscovery, AfterListener, AfterWorker, AfterIpc
    <3>2. started # {}
      BY <2>1, Zenon DEF ProgramInv, EndedInv
    <3>. QED  BY <3>1, <3>2, Zenon
  <2>. QED  BY <2>1, Zenon DEF ProgramInv, EndedInv, OnlyReaperIsLeft
<1>. QED  BY <1>1, ProgramInitInv, ProgramNextInv, PTL DEF ProgramSpec

\* Whoever wins the race for UDP 9998 (p2p_listener_loop, PeerDiscovery::start), a
\* running mesh whose listener is in its loop has it bound unless PeerDiscovery
\* was started or the system refused a socket.
THEOREM SomebodyHearsBeacons == ProgramSpec => []BeaconsAreHeard
<1>1. ProgramInv => BeaconsAreHeard
  BY Zenon DEF ProgramInv, ProgramTyped, PortInv, BeaconsAreHeard
<1>. QED  BY <1>1, ProgramInitInv, ProgramNextInv, PTL DEF ProgramSpec

-----------------------------------------------------------------------------
(***************************************************************************)
(* The heartbeat.                                                          *)
(***************************************************************************)

\* The ages stay within their bounds.
HeartTypeOK ==
    /\ last_score \in Nat
    /\ targeted \in 0 .. WINDOW /\ outside \in 0 .. WINDOW
    /\ s_first \in BOOLEAN /\ s_last \in 0 .. PERIOD + 1
    /\ echo \in 0 .. ECHO

\* While votes on a round of its own may arrive, the round is at most ECHO
\* heartbeats old; hence a last vote that is younger than any from outside tells
\* how long ago that round was.
HeartInv ==
    /\ HeartTypeOK
    /\ s_first => echo = 0
    /\ echo > 0 => s_last + echo <= ECHO + 1
    /\ targeted < WINDOW /\ targeted < outside => s_last <= ECHO + targeted
    /\ ~causeless

-----------------------------------------------------------------------------
\* The largest of three numbers is one of them.
LEMMA MaxOfThree ==
  ASSUME NEW a \in Int, NEW b \in Int, NEW c \in Int
  PROVE  Max({a, b, c}) \in {a, b, c}
<1>1. \E x \in {a, b, c} : \A y \in {a, b, c} : x >= y
  OBVIOUS
<1>. QED  BY <1>1, Zenon DEF Max

\* The smaller of two numbers is one of them.
LEMMA MinOfTwo ==
  ASSUME NEW a \in Int, NEW b \in Int
  PROVE  Min({a, b}) \in {a, b}
<1>1. \E x \in {a, b} : \A y \in {a, b} : x <= y
  OBVIOUS
<1>. QED  BY <1>1, Zenon DEF Min

\* The score of the model, turned into an entropy, is a number.
LEMMA OnnxEntropyIsInt ==
  ASSUME NEW score \in Nat
  PROVE  onnx_to_entropy(score) \in Int
<1>1. ((score - 50) * 1000) \div 150 \in Int
  OBVIOUS
<1>2. Min({1000, ((score - 50) * 1000) \div 150}) \in {1000, ((score - 50) * 1000) \div 150}
  BY <1>1, MinOfTwo
<1>. QED  BY <1>1, <1>2 DEF onnx_to_entropy

\* A critical entropy that neither the model nor the network explains is that of
\* a recent vote.
LEMMA CriticalByVote ==
  ASSUME NEW score \in Nat, NEW net \in Int,
         Entropy(score, net) > 650, onnx_to_entropy(score) <= 650, net <= 650
  PROVE  targeted < WINDOW
<1>. DEFINE o == onnx_to_entropy(score)
            v == IF is_targeted_recently THEN 680 ELSE 0
<1>1. o \in Int  BY OnnxEntropyIsInt, Zenon
<1>2. v \in Int  OBVIOUS
<1>3. Entropy(score, net) = Max({o, net, v})  BY DEF Entropy
<1>4. o <= 650  OBVIOUS
<1>. HIDE DEF o
<1>5. v \in {0, 680}  OBVIOUS
<1>6. v = 680 => is_targeted_recently  OBVIOUS
<1>. HIDE DEF v
<1>7. Max({o, net, v}) \in {o, net, v}  BY <1>1, <1>2, MaxOfThree
<1>8. v = 680  BY <1>1, <1>2, <1>3, <1>4, <1>5, <1>7
<1>. QED  BY <1>6, <1>8 DEF is_targeted_recently

-----------------------------------------------------------------------------
\* It holds when the loop begins.
LEMMA HeartInitInv == HeartInit => HeartInv
<1>. SUFFICES ASSUME HeartInit PROVE HeartInv  OBVIOUS
<1>1. s_first \in BOOLEAN /\ ~causeless
  BY Zenon DEF HeartInit
<1>2. echo = 0 /\ targeted = outside  BY Zenon DEF HeartInit
<1>3. HeartTypeOK
  BY <1>1, HeartbeatAssumption DEF HeartInit, HeartTypeOK
<1>. QED  BY <1>1, <1>2, <1>3, HeartbeatAssumption DEF HeartInv, HeartTypeOK

\* A decayed score is a number.
LEMMA DecayIsNat ==
  ASSUME NEW n \in Nat
  PROVE  decay(n) \in Nat
BY DEF decay

\* An age grows by at most one and stays below its bound.
LEMMA OlderBounds ==
  ASSUME NEW cap \in Nat, NEW age \in 0 .. cap
  PROVE  /\ Older(age, cap) \in 0 .. cap
         /\ Older(age, cap) <= age + 1
         /\ Older(age, cap) < cap => Older(age, cap) = age + 1
BY DEF Older

\* A round of age l, of age k at the next heartbeat, while its votes may arrive for b
\* more heartbeats, or t heartbeats after the last vote.
LEMMA AgeSums ==
  ASSUME NEW e \in Nat, NEW l \in Nat, NEW k \in Nat, k <= l + 1
  PROVE  /\ k <= 1 => k + e <= e + 1
         /\ \A b \in Nat : l + b <= e + 1 => k + (b - 1) <= e + 1
         /\ \A t \in Nat : l <= e + t => k <= e + (t + 1)
OBVIOUS

\* A vote on the node's own round finds echo > 0.
LEMMA VoteKeepsInv ==
  ASSUME HeartInv, NEW own \in BOOLEAN, VoteAgainst(own)
  PROVE  HeartInv'
<1>1. CASE own
  BY <1>1, HeartbeatAssumption DEF HeartInv, HeartTypeOK, VoteAgainst
<1>2. CASE ~own
  BY <1>2, HeartbeatAssumption DEF HeartInv, HeartTypeOK, VoteAgainst
<1>. QED  BY <1>1, <1>2, Zenon

\* A heartbeat adds one to every age; a round that it starts is its first cause
\* unless the model, the network or another node's round explains it.
LEMMA HeartbeatKeepsInv ==
  ASSUME HeartInv, Heartbeat
  PROVE  HeartInv'
<1>1. PICK score \in Score \cup {last_score, decay(last_score)},
           net \in network_entropy_score, peers \in BOOLEAN :
        /\ s_first' = SelfInitiates(Entropy(score, net), peers).first
        /\ s_last' = Older(SelfInitiates(Entropy(score, net), peers).since, PERIOD + 1)
        /\ echo' = IF SelfInitiates(Entropy(score, net), peers).starts THEN ECHO
                   ELSE IF echo > 0 THEN echo - 1 ELSE 0
        /\ causeless' = (causeless \/ /\ SelfInitiates(Entropy(score, net), peers).starts
                                       /\ onnx_to_entropy(score) <= 650
                                       /\ net <= 650
                                       /\ outside = WINDOW)
        /\ last_score' = score
        /\ targeted' = Older(targeted, WINDOW) /\ outside' = Older(outside, WINDOW)
  BY DEF Heartbeat
<1>. DEFINE entropy == Entropy(score, net)
            critical == entropy > 650 /\ peers
            since == IF critical /\ s_first THEN 0 ELSE s_last
            starts == critical /\ since > PERIOD
<1>2. /\ SelfInitiates(entropy, peers).first = (s_first /\ ~critical)
      /\ SelfInitiates(entropy, peers).since = IF starts THEN 0 ELSE since
      /\ SelfInitiates(entropy, peers).starts = starts
  BY Zenon DEF SelfInitiates
<1>3. score \in Nat
  BY HeartbeatAssumption, DecayIsNat, Zenon DEF HeartInv, HeartTypeOK
<1>4. net \in Int
  BY DEF network_entropy_score
<1>5. entropy > 650 /\ onnx_to_entropy(score) <= 650 /\ net <= 650 => targeted < WINDOW
  BY <1>3, <1>4, CriticalByVote
<1>6. /\ s_first \in BOOLEAN /\ s_last \in 0 .. PERIOD + 1 /\ echo \in 0 .. ECHO
      /\ targeted \in 0 .. WINDOW /\ outside \in 0 .. WINDOW
      /\ PERIOD \in Nat /\ WINDOW \in Nat /\ ECHO \in Nat /\ ECHO + WINDOW <= PERIOD
  BY HeartbeatAssumption, Zenon DEF HeartInv, HeartTypeOK
<1>7. /\ s_first => echo = 0
      /\ echo > 0 => s_last + echo <= ECHO + 1
      /\ targeted < WINDOW /\ targeted < outside => s_last <= ECHO + targeted
  BY Zenon DEF HeartInv
<1>8. /\ s_first' = (s_first /\ ~critical)
      /\ s_last' = Older(IF starts THEN 0 ELSE since, PERIOD + 1)
      /\ echo' = IF starts THEN ECHO ELSE IF echo > 0 THEN echo - 1 ELSE 0
  <2>. HIDE DEF starts, since, critical
  <2>1. s_first' = (s_first /\ ~critical)  BY <1>1, <1>2, Zenon
  <2>2. s_last' = Older(IF starts THEN 0 ELSE since, PERIOD + 1)  BY <1>1, <1>2, Zenon
  <2>3. echo' = IF starts THEN ECHO ELSE IF echo > 0 THEN echo - 1 ELSE 0
    BY <1>1, <1>2, Zenon
  <2>. QED  BY <2>1, <2>2, <2>3, Zenon
<1>80. causeless' => \/ causeless
                     \/ starts /\ onnx_to_entropy(score) <= 650 /\ net <= 650 /\ outside = WINDOW
  <2>. HIDE DEF starts, since, critical
  <2>. QED  BY <1>1, <1>2, Zenon
<1>9. starts => critical /\ ~s_first /\ s_last > PERIOD
  <2>1. SUFFICES ASSUME starts PROVE critical /\ ~s_first /\ s_last > PERIOD  OBVIOUS
  <2>2. critical /\ since > PERIOD  BY <2>1, Zenon
  <2>3. CASE s_first
    <3>1. since = 0  BY <2>2, <2>3, Zenon
    <3>. QED  BY <2>2, <3>1, <1>6
  <2>4. CASE ~s_first
    <3>1. since = s_last  BY <2>4, Zenon
    <3>. QED  BY <2>2, <2>4, <3>1, Zenon
  <2>. QED  BY <2>3, <2>4, Zenon
<1>10. since \in 0 .. PERIOD + 1 /\ since <= s_last
  BY <1>6
<1>11. critical => entropy > 650
  OBVIOUS
<1>12. critical \in BOOLEAN /\ starts \in BOOLEAN
  BY Zenon
<1>13. s_first /\ ~critical => since = s_last
  OBVIOUS
<1>14. ~s_first => since = s_last
  OBVIOUS
<1>. HIDE DEF starts, since, critical, entropy
<1>15. s_last' \in 0 .. PERIOD + 1 /\ s_last' <= s_last + 1 /\ (starts => s_last' <= 1)
  <2>1. CASE starts
    <3>1. s_last' = Older(0, PERIOD + 1)  BY <1>8, <2>1, Zenon
    <3>. QED  BY <3>1, <1>6, OlderBounds
  <2>2. CASE ~starts
    <3>1. s_last' = Older(since, PERIOD + 1)  BY <1>8, <2>2, Zenon
    <3>2. s_last' \in 0 .. PERIOD + 1 /\ s_last' <= since + 1
      BY <3>1, <1>6, <1>10, OlderBounds
    <3>. QED  BY <3>2, <1>6, <1>10, <2>2
  <2>. QED  BY <2>1, <2>2, Zenon
<1>16. /\ targeted' \in 0 .. WINDOW /\ outside' \in 0 .. WINDOW
       /\ targeted' < WINDOW => targeted' = targeted + 1
       /\ outside' <= outside + 1
  BY <1>1, <1>6, OlderBounds, Zenon
<1>17. ~causeless'
  <2>0. ~causeless
    BY Zenon DEF HeartInv
  <2>. SUFFICES ASSUME causeless' PROVE FALSE
    BY Zenon
  <2>1. starts /\ onnx_to_entropy(score) <= 650 /\ net <= 650 /\ outside = WINDOW
    BY <1>80, <2>0, Zenon
  <2>2. targeted < WINDOW  BY <2>1, <1>5, <1>9, <1>11
  <2>3. s_last <= ECHO + targeted  BY <2>1, <2>2, <1>6, <1>7
  <2>. QED  BY <2>1, <2>2, <2>3, <1>6, <1>9
<1>18. echo' \in 0 .. ECHO
  BY <1>6, <1>8, <1>12
<1>19. s_first' => echo' = 0
  <2>1. SUFFICES ASSUME s_first' PROVE echo' = 0  OBVIOUS
  <2>2. s_first /\ ~critical  BY <2>1, <1>8, Zenon
  <2>3. ~starts  BY <2>2, <1>9, Zenon
  <2>4. echo = 0 /\ echo' = IF echo > 0 THEN echo - 1 ELSE 0
    BY <2>2, <2>3, <1>7, <1>8, Zenon
  <2>. QED  BY <2>4
<1>20. echo' > 0 => s_last' + echo' <= ECHO + 1
  <2>0. s_last \in Nat /\ s_last' \in Nat /\ echo \in Nat /\ ~(0 > 0)
    BY <1>6, <1>15
  <2>1. CASE starts
    <3>1. echo' = ECHO /\ s_last' <= 1
      BY <1>8, <1>15, <2>1, Zenon
    <3>. QED  BY <1>6, <1>15, <2>0, <3>1, AgeSums, Zenon
  <2>2. CASE ~starts
    <3>1. SUFFICES ASSUME echo' > 0 PROVE s_last' + echo' <= ECHO + 1
      BY Zenon
    <3>2. echo > 0 /\ echo' = echo - 1
      BY <1>8, <2>0, <2>2, <3>1, Zenon
    <3>3. s_last + echo <= ECHO + 1
      BY <1>7, <3>2, Zenon
    <3>4. s_last' + (echo - 1) <= ECHO + 1
      BY <1>6, <1>15, <2>0, <3>3, AgeSums, Zenon
    <3>. QED  BY <3>2, <3>4, Zenon
  <2>. QED  BY <2>1, <2>2, Zenon
<1>21. targeted' < WINDOW /\ targeted' < outside' => s_last' <= ECHO + targeted'
  <2>1. SUFFICES ASSUME targeted' < WINDOW, targeted' < outside'
                 PROVE  s_last' <= ECHO + targeted'
    OBVIOUS
  <2>2. targeted' = targeted + 1 /\ targeted < outside
    BY <2>1, <1>6, <1>16
  <2>3. s_last \in Nat /\ s_last' \in Nat /\ targeted \in Nat /\ targeted < WINDOW
    BY <2>1, <2>2, <1>6, <1>15
  <2>4. s_last <= ECHO + targeted
    BY <1>7, <2>2, <2>3, Zenon
  <2>5. s_last' <= ECHO + (targeted + 1)
    BY <1>6, <1>15, <2>3, <2>4, AgeSums, Zenon
  <2>. QED  BY <2>2, <2>5, Zenon
<1>22. s_first' \in BOOLEAN
  BY <1>8, Zenon
<1>23. HeartTypeOK'
  BY <1>1, <1>3, <1>15, <1>16, <1>18, <1>22, Zenon DEF HeartInv, HeartTypeOK
<1>. QED  BY <1>17, <1>19, <1>20, <1>21, <1>23, Zenon DEF HeartInv

\* Every step keeps the invariant.
LEMMA HeartNextInv == HeartInv /\ [HeartNext]_heartVars => HeartInv'
<1>. SUFFICES ASSUME HeartInv, [HeartNext]_heartVars PROVE HeartInv'  OBVIOUS
<1>1. CASE UNCHANGED heartVars
  BY <1>1, Zenon DEF HeartInv, HeartTypeOK, heartVars
<1>2. ASSUME NEW e \in Event, KernelEvent(e) PROVE HeartInv'
  BY <1>2, Zenon DEF HeartInv, HeartTypeOK, KernelEvent
<1>3. CASE WorldCalms
  BY <1>3, Zenon DEF HeartInv, HeartTypeOK, WorldCalms
<1>. QED
  BY <1>1, <1>2, <1>3, VoteKeepsInv, HeartbeatKeepsInv, Zenon DEF HeartNext

\* The node does not keep itself isolated (heartbeat_loop): whatever the model
\* reports and whenever votes arrive, no round that it starts against itself is
\* caused by the votes on its own earlier round alone.
THEOREM SelfRoundsHaveCause == HeartSpec => []SelfRoundHasCause
<1>1. HeartInv => SelfRoundHasCause
  BY Zenon DEF HeartInv, SelfRoundHasCause
<1>. QED  BY <1>1, HeartInitInv, HeartNextInv, PTL DEF HeartSpec
=============================================================================
