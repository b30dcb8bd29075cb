-------------------------- MODULE SessionTurnsProofs --------------------------
(***************************************************************************)
(* Proofs about SessionTurns: what happens to the prompts of a session,    *)
(* for any number of prompts, notes, edits and stops.                      *)
(***************************************************************************)
EXTENDS SessionTurns, FiniteSetTheorems, TLAPS

\* Whatever was queued, read, removed or started was submitted or noted before.
Recorded ==
  \A x \in Items \ given : x \notin Waiting \cup read \cup doomed \cup stopped /\ turn[x] = "none"

\* Where the prompts are that are on their way.
OnTheirWay ==
  /\ \A x \in Waiting : turn[x] = "none" /\ x \notin read
  /\ \A x \in doomed : x \notin Waiting /\ turn[x] = "none"
  /\ \A x \in stopped : turn[x] # "none"
  /\ \A x \in Items : turn[x] \in {"running"} \cup Settling => x \in read

\* A turn is torn down only with its session.
TornDown == \A x \in Items : turn[x] \in TearingDown => session # "up"

\* One status note waits at most, steers wait in front, and the others in the order in
\* which they joined.
Ordered(q, jn) ==
  \A i, j \in DOMAIN q :
    /\ q[i].kind = "status" /\ q[j].kind = "status" => i = j
    /\ q[i].delivery = "queue" /\ q[j].delivery = "steer" => j < i
    /\ /\ i < j /\ q[i].kind = "prompt" /\ q[i].delivery = "queue"
       /\ q[j].kind = "prompt" /\ q[j].delivery = "queue"
       => <<q[j].id, q[i].id>> \notin jn

InOrder == Ordered(queue, ahead) /\ \A p \in Prompts : <<p, p>> \notin ahead

\* The run in flight is that of the running turn; a turn that was stopped is halted when
\* it begins to run, unless another turn was started meanwhile.
Halting ==
  /\ agent # None => turn[agent] = "running"
  /\ \A x \in Items : turn[x] = "running" => agent = x
  /\ session = "up" /\ aborting => InFlight \subseteq stopped
  /\ ~overlap => /\ \A x, y \in InFlight : x = y
                 /\ \A x \in stopped : /\ turn[x] = "preparing" => aborting
                                       /\ turn[x] = "running" => halted

TurnsInv == TypeOK /\ Recorded /\ OnTheirWay /\ TornDown /\ InOrder /\ Halting /\ NothingLost

-----------------------------------------------------------------------------
(* Parts of a queue.                                                       *)

\* w holds entries of q in their order: the k-th is the h[k]-th of q.
PartBy(w, q, h) ==
  /\ h \in [DOMAIN w -> DOMAIN q]
  /\ \A k \in DOMAIN w : w[k] = q[h[k]]
  /\ \A k, l \in DOMAIN w : k < l => h[k] < h[l]
Part(w, q) == \E h : PartBy(w, q, h)

\* How many elements of K there are up to i.
Rank(K, i) == Cardinality({j \in K : j <= i})

LEMMA Ranks ==
  ASSUME NEW n \in Nat, NEW K \in SUBSET (1 .. n)
  PROVE  /\ Cardinality(K) \in Nat
         /\ \A i \in K : Rank(K, i) \in 1 .. Cardinality(K)
         /\ \A i, j \in K : i < j => Rank(K, i) < Rank(K, j)
         /\ \A k \in 1 .. Cardinality(K) : \E i \in K : Rank(K, i) = k
<1>1. IsFiniteSet(K) /\ Cardinality(K) \in Nat
  <2>1. IsFiniteSet(1 .. n)
    BY FS_Interval
  <2> QED BY <2>1, FS_Subset, FS_CardinalityType
<1>0. \A i \in K : i \in Nat
  OBVIOUS
<1>2. ASSUME NEW i \in K
      PROVE  /\ IsFiniteSet({j \in K : j <= i})
             /\ Rank(K, i) \in 1 .. Cardinality(K)
  <2> DEFINE A == {j \in K : j <= i}
  <2>1. A \in SUBSET K /\ i \in A
    BY <1>0
  <2>2. IsFiniteSet(A) /\ Cardinality(A) \in Nat /\ Cardinality(A) <= Cardinality(K)
    BY <1>1, <2>1, FS_Subset, FS_CardinalityType
  <2>3. Cardinality(A) # 0
    BY <2>1, <2>2, FS_EmptySet
  <2> QED BY <1>1, <2>2, <2>3 DEF Rank
<1>3. ASSUME NEW i \in K, NEW j \in K, i < j PROVE Rank(K, i) < Rank(K, j)
  <2> DEFINE A == {x \in K : x <= i}
             B == {x \in K : x <= j}
  <2>0. i \in Nat /\ j \in Nat /\ \A x \in K : x \in Nat
    BY <1>0
  <2>1. A \in SUBSET B /\ j \in B /\ j \notin A
    <3>1. \A x \in K : x <= i => x <= j
      BY <1>3, <2>0
    <3>2. ~(j <= i) /\ j <= j
      BY <1>3, <2>0
    <3> QED BY <3>1, <3>2
  <2>2. IsFiniteSet(B) /\ Rank(K, i) \in Nat /\ Rank(K, j) \in Nat
    <3>1. B \in SUBSET K
      OBVIOUS
    <3>2. IsFiniteSet(B)
      BY <1>1, <3>1, FS_Subset
    <3>3. Rank(K, i) \in 1 .. Cardinality(K) /\ Rank(K, j) \in 1 .. Cardinality(K)
      BY <1>2
    <3> HIDE DEF B
    <3> QED BY <1>1, <3>2, <3>3
  <2>3. Cardinality(A) <= Cardinality(B) /\ Cardinality(A) # Cardinality(B)
    BY <2>1, <2>2, FS_Subset
  <2> QED BY <2>2, <2>3 DEF Rank
<1>4. ASSUME NEW k \in 1 .. Cardinality(K), \A i \in K : Rank(K, i) # k PROVE FALSE
  <2> DEFINE T == (1 .. Cardinality(K)) \ {k}
             f == [i \in K |-> Rank(K, i)]
  <2>1. f \in [K -> T]
    BY <1>2, <1>4
  <2>2. IsFiniteSet(1 .. Cardinality(K)) /\ Cardinality(1 .. Cardinality(K)) = Cardinality(K)
    BY <1>1, FS_Interval
  <2>3. IsFiniteSet(T) /\ Cardinality(T) < Cardinality(K)
    <3>1. PICK c : c = Cardinality(K)
      OBVIOUS
    <3>2. PICK I : I = 1 .. c
      OBVIOUS
    <3>3. c \in Nat /\ k \in I /\ T = I \ {k} /\ IsFiniteSet(I) /\ Cardinality(I) = c
      BY <1>1, <2>2, <3>1, <3>2
    <3> HIDE DEF T
    <3>4. IsFiniteSet(I \ {k}) /\ Cardinality(I \ {k}) = c - 1
      BY <3>3, FS_RemoveElement
    <3> QED BY ONLY <3>1, <3>3, <3>4
  <2> HIDE DEF T, f
  <2>4. PICK x \in K, y \in K : x # y /\ f[x] = f[y]
    BY <1>1, <2>1, <2>3, FS_PigeonHole
  <2>5. Rank(K, x) = Rank(K, y) /\ Rank(K, x) \in Nat /\ x \in Nat /\ y \in Nat
    <3>1. f[x] = Rank(K, x) /\ f[y] = Rank(K, y)
      BY <2>4 DEF f
    <3>2. Rank(K, x) \in 1 .. Cardinality(K)
      BY <1>2, <2>4
    <3>3. x \in Nat /\ y \in Nat
      BY <1>0, <2>4
    <3> HIDE DEF f
    <3>4. Rank(K, x) = Rank(K, y)
      BY <2>4, <3>1
    <3>5. Rank(K, x) \in Nat
      BY <1>1, <3>2
    <3> QED BY <3>3, <3>4, <3>5
  <2>6. x < y \/ y < x
    BY <2>4, <2>5
  <2> QED BY <1>3, <2>5, <2>6
<1> QED BY <1>1, <1>2, <1>3, <1>4

\* Without keeps the other entries, in their order.
LEMMA WithoutIs ==
  ASSUME NEW E, NEW q \in Seq(E), NEW S
  PROVE  /\ Without(q, S) \in Seq(E)
         /\ \E h : /\ PartBy(Without(q, S), q, h)
                   /\ \A k \in DOMAIN Without(q, S) : q[h[k]].id \notin S
                   /\ \A i \in DOMAIN q : q[i].id \notin S => \E k \in DOMAIN h : h[k] = i
<1> DEFINE K == {i \in DOMAIN q : q[i].id \notin S}
           n == Cardinality(K)
           h == [k \in 1 .. n |-> CHOOSE i \in K : Rank(K, i) = k]
           w == [k \in 1 .. n |-> q[h[k]]]
<1>1. K \in SUBSET (1 .. Len(q)) /\ Len(q) \in Nat /\ DOMAIN q = 1 .. Len(q)
  OBVIOUS
<1> HIDE DEF K
<1>2. /\ n \in Nat /\ \A i \in K : Rank(K, i) \in 1 .. n
      /\ \A i, j \in K : i < j => Rank(K, i) < Rank(K, j)
      /\ \A k \in 1 .. n : \E i \in K : Rank(K, i) = k
  BY <1>1, Ranks
<1>3. \A k \in 1 .. n : h[k] \in K /\ Rank(K, h[k]) = k
  BY <1>2
<1>4. Without(q, S) = w
  BY DEF Without, K, Rank
<1>5. w \in Seq(E) /\ DOMAIN w = 1 .. n
  <2>1. \A k \in 1 .. n : q[h[k]] \in E
    <3>1. \A i \in K : q[i] \in E
      BY <1>1
    <3> HIDE DEF h, n
    <3> QED BY <1>3, <3>1
  <2> HIDE DEF h
  <2> QED BY <1>2, <2>1
<1>6. \A k, l \in 1 .. n : k < l => h[k] < h[l]
  <2> SUFFICES ASSUME NEW k \in 1 .. n, NEW l \in 1 .. n, k < l PROVE h[k] < h[l]
    OBVIOUS
  <2>1. h[k] \in K /\ h[l] \in K /\ Rank(K, h[k]) = k /\ Rank(K, h[l]) = l
    BY <1>3
  <2> HIDE DEF h, n
  <2>2. h[k] \in Nat /\ h[l] \in Nat /\ k \in Nat /\ l \in Nat
    <3>1. \A i \in K : i \in Nat
      BY <1>1
    <3> QED BY <1>2, <2>1, <3>1
  <2>3. CASE h[l] < h[k]
    BY <1>2, <2>1, <2>2, <2>3
  <2>4. CASE h[l] = h[k]
    BY <2>1, <2>2, <2>4
  <2> QED BY <2>2, <2>3, <2>4
<1>7. \A i \in K : \E k \in 1 .. n : h[k] = i
  <2> SUFFICES ASSUME NEW i \in K PROVE \E k \in 1 .. n : h[k] = i
    OBVIOUS
  <2>1. PICK k \in 1 .. n : Rank(K, i) = k
    BY <1>2
  <2>2. h[k] \in K /\ Rank(K, h[k]) = k
    BY <1>3
  <2> HIDE DEF h, n
  <2>3. h[k] \in Nat /\ i \in Nat
    <3>1. \A j \in K : j \in Nat
      BY <1>1
    <3> QED BY <2>2, <3>1
  <2>4. CASE h[k] < i
    BY <1>2, <2>1, <2>2, <2>4
  <2>5. CASE i < h[k]
    BY <1>2, <2>1, <2>2, <2>5
  <2> QED BY <2>3, <2>4, <2>5
<1>8. h \in [1 .. n -> DOMAIN q] /\ DOMAIN h = 1 .. n /\ \A k \in 1 .. n : q[h[k]].id \notin S
  <2>1. \A k \in 1 .. n : h[k] \in DOMAIN q /\ q[h[k]].id \notin S
    BY <1>3 DEF K
  <2> QED BY <2>1
<1>9. \A k \in 1 .. n : w[k] = q[h[k]]
  OBVIOUS
<1>10. \A i \in DOMAIN q : q[i].id \notin S => \E k \in 1 .. n : h[k] = i
  BY <1>7 DEF K
<1>11. DOMAIN w = 1 .. n /\ w \in Seq(E)
  BY <1>5
<1> HIDE DEF h, w, n
<1>12. PartBy(w, q, h)
  BY <1>6, <1>8, <1>9, <1>11 DEF PartBy
<1>13. \A k \in DOMAIN w : q[h[k]].id \notin S
  BY <1>8, <1>11
<1>14. \A i \in DOMAIN q : q[i].id \notin S => \E k \in DOMAIN h : h[k] = i
  BY <1>8, <1>10
<1> QED BY <1>4, <1>11, <1>12, <1>13, <1>14

-----------------------------------------------------------------------------
(* What the operations on the queue keep.                                  *)

Ids(q) == {q[i].id : i \in DOMAIN q}
UniqueIds(q) == \A i, j \in DOMAIN q : q[i].id = q[j].id => i = j
Neat(q, jn) == q \in Seq(Entries) /\ UniqueIds(q) /\ Ordered(q, jn)

\* Prompts and notes are told apart by their kinds.
LEMMA EntryParts ==
  ASSUME NEW e \in Entries
  PROVE  /\ e.id \in Items /\ e.delivery \in {"queue", "steer"}
         /\ e.kind = "prompt" <=> e.id \in Prompts
         /\ e.kind \in {"prompt", "none", "status"}
         /\ e.id \in Notes <=> e.id \notin Prompts
         /\ Steer(e) \in Entries /\ Steer(e).id = e.id /\ Steer(e).kind = e.kind
         /\ Steer(e).delivery = "steer"
         /\ Queued(e) \in Entries /\ Queued(e).id = e.id /\ Queued(e).kind = e.kind
         /\ Queued(e).delivery = "queue"
BY ConstantsAssumption DEF Entries, Items, Prompts, Notes, Kinds, Steer, Queued

LEMMA PartNeat ==
  ASSUME NEW jn, NEW q, Neat(q, jn), NEW w \in Seq(Entries), Part(w, q)
  PROVE  Neat(w, jn) /\ Ids(w) \subseteq Ids(q)
<1>1. PICK h : PartBy(w, q, h)
  BY DEF Part
<1>2. DOMAIN w = 1 .. Len(w) /\ Len(w) \in Nat /\ \A k \in DOMAIN w : k \in Nat
  OBVIOUS
<1>3. /\ \A k \in DOMAIN w : h[k] \in DOMAIN q /\ w[k] = q[h[k]]
      /\ \A k, l \in DOMAIN w : k < l => h[k] < h[l]
  BY <1>1 DEF PartBy
<1>4. DOMAIN q = 1 .. Len(q) /\ Len(q) \in Nat /\ \A k \in DOMAIN q : k \in Nat
  BY DEF Neat
<1>5. UniqueIds(w)
  <2> SUFFICES ASSUME NEW k \in DOMAIN w, NEW l \in DOMAIN w, w[k].id = w[l].id PROVE k = l
    BY DEF UniqueIds
  <2>1. h[k] = h[l]
    BY <1>3 DEF Neat, UniqueIds
  <2>2. ~(k < l) /\ ~(l < k)
    BY <1>3, <1>4, <2>1
  <2> QED BY <1>2, <2>2
<1>6. Ordered(w, jn)
  <2> SUFFICES ASSUME NEW k \in DOMAIN w, NEW l \in DOMAIN w
               PROVE  /\ w[k].kind = "status" /\ w[l].kind = "status" => k = l
                      /\ w[k].delivery = "queue" /\ w[l].delivery = "steer" => l < k
                      /\ /\ k < l /\ w[k].kind = "prompt" /\ w[k].delivery = "queue"
                         /\ w[l].kind = "prompt" /\ w[l].delivery = "queue"
                         => <<w[l].id, w[k].id>> \notin jn
    BY DEF Ordered
  <2>1. h[k] \in DOMAIN q /\ h[l] \in DOMAIN q /\ w[k] = q[h[k]] /\ w[l] = q[h[l]]
    BY <1>3
  <2>2. /\ k < l => h[k] < h[l]
        /\ l < k => h[l] < h[k]
        /\ k \in Nat /\ l \in Nat /\ h[k] \in Nat /\ h[l] \in Nat
    BY <1>2, <1>3, <1>4, <2>1
  <2> QED BY <2>1, <2>2 DEF Neat, Ordered
<1>7. Ids(w) \subseteq Ids(q)
  BY <1>3 DEF Ids
<1> QED BY <1>5, <1>6, <1>7 DEF Neat

LEMMA WithoutNeat ==
  ASSUME NEW jn, NEW q, Neat(q, jn), NEW S
  PROVE  Neat(Without(q, S), jn) /\ Ids(Without(q, S)) = Ids(q) \ S
<1>1. Without(q, S) \in Seq(Entries)
  BY WithoutIs DEF Neat
<1>2. PICK h : /\ PartBy(Without(q, S), q, h)
               /\ \A k \in DOMAIN Without(q, S) : q[h[k]].id \notin S
               /\ \A i \in DOMAIN q : q[i].id \notin S => \E k \in DOMAIN h : h[k] = i
  BY WithoutIs DEF Neat
<1>3. Neat(Without(q, S), jn) /\ Ids(Without(q, S)) \subseteq Ids(q)
  BY <1>1, <1>2, PartNeat DEF Part
<1>4. \A x \in Ids(Without(q, S)) : x \notin S
  BY <1>2 DEF Ids, PartBy
<1>5. ASSUME NEW i \in DOMAIN q, q[i].id \notin S PROVE q[i].id \in Ids(Without(q, S))
  <2>1. PICK k \in DOMAIN h : h[k] = i
    BY <1>2, <1>5
  <2>2. k \in DOMAIN Without(q, S) /\ Without(q, S)[k] = q[i]
    BY <1>2, <2>1 DEF PartBy
  <2> QED BY <2>2 DEF Ids
<1> QED BY <1>3, <1>4, <1>5 DEF Ids

\* An entry is put in front.
Front(e, q) == <<e>> \o q

LEMMA FrontIs ==
  ASSUME NEW q \in Seq(Entries), UniqueIds(q), NEW e \in Entries, e.id \notin Ids(q),
         NEW w, w = Front(e, q)
  PROVE  /\ w \in Seq(Entries) /\ UniqueIds(w) /\ Ids(w) = Ids(q) \cup {e.id}
         /\ w[1] = e
         /\ \A k \in DOMAIN w :
              /\ k \in Nat /\ k >= 1
              /\ k = 1 \/ (k - 1 \in DOMAIN q /\ w[k] = q[k - 1])
<1>1. Len(q) \in Nat /\ DOMAIN q = 1 .. Len(q) /\ \A i \in DOMAIN q : q[i] \in Entries
  OBVIOUS
<1>2. /\ w \in Seq(Entries) /\ Len(w) = Len(q) + 1 /\ DOMAIN w = 1 .. Len(q) + 1
      /\ w[1] = e /\ \A i \in DOMAIN q : w[i + 1] = q[i]
  BY <1>1 DEF Front
<1>3. \A k \in DOMAIN w : /\ k \in Nat /\ k >= 1
                          /\ k = 1 \/ (k - 1 \in DOMAIN q /\ w[k] = q[k - 1])
  <2> SUFFICES ASSUME NEW k \in DOMAIN w
               PROVE  k \in Nat /\ k >= 1 /\ (k = 1 \/ (k - 1 \in DOMAIN q /\ w[k] = q[k - 1]))
    OBVIOUS
  <2>1. k \in 1 .. Len(q) + 1
    BY <1>2
  <2>2. k \in Nat /\ k >= 1 /\ (k = 1 \/ (k - 1 \in DOMAIN q /\ (k - 1) + 1 = k))
    BY <1>1, <2>1
  <2>3. k # 1 => w[(k - 1) + 1] = q[k - 1]
    BY <1>2, <2>2
  <2> QED BY <2>2, <2>3
<1>4. Ids(w) = Ids(q) \cup {e.id}
  <2>1. ASSUME NEW k \in DOMAIN w PROVE w[k].id \in Ids(q) \cup {e.id}
    BY <1>2, <1>3 DEF Ids
  <2>2. ASSUME NEW i \in DOMAIN q PROVE q[i].id \in Ids(w)
    <3>1. i + 1 \in DOMAIN w /\ w[i + 1] = q[i]
      BY <1>1, <1>2
    <3> QED BY <3>1 DEF Ids
  <2>3. e.id \in Ids(w)
    <3>1. 1 \in DOMAIN w
      BY <1>1, <1>2
    <3> QED BY <1>2, <3>1 DEF Ids
  <2> QED BY <2>1, <2>2, <2>3 DEF Ids
<1>5. UniqueIds(w)
  <2> SUFFICES ASSUME NEW k \in DOMAIN w, NEW l \in DOMAIN w, w[k].id = w[l].id PROVE k = l
    BY DEF UniqueIds
  <2>1. CASE k = 1 \/ l = 1
    BY <1>2, <1>3, <2>1 DEF Ids
  <2>2. CASE k # 1 /\ l # 1
    <3>1. k - 1 = l - 1 /\ k \in Nat /\ l \in Nat
      BY <1>3, <2>2 DEF UniqueIds
    <3> QED BY <3>1
  <2> QED BY <2>1, <2>2
<1> QED BY <1>2, <1>3, <1>4, <1>5

LEMMA FrontNeat ==
  ASSUME NEW jn, NEW q, Neat(q, jn), NEW e \in Entries, e.delivery = "steer", e.id \notin Ids(q),
         e.kind = "status" => \A i \in DOMAIN q : q[i].kind # "status"
  PROVE  Neat(<<e>> \o q, jn) /\ Ids(<<e>> \o q) = Ids(q) \cup {e.id}
<1>1. PICK w : w = Front(e, q)
  OBVIOUS
<1>2. /\ w \in Seq(Entries) /\ UniqueIds(w) /\ Ids(w) = Ids(q) \cup {e.id} /\ w[1] = e
      /\ \A k \in DOMAIN w : /\ k \in Nat /\ k >= 1
                             /\ k = 1 \/ (k - 1 \in DOMAIN q /\ w[k] = q[k - 1])
  <2>1. q \in Seq(Entries) /\ UniqueIds(q)
    BY DEF Neat
  <2> QED BY <1>1, <2>1, FrontIs
<1>3. Ordered(w, jn)
  <2> SUFFICES ASSUME NEW k \in DOMAIN w, NEW l \in DOMAIN w
               PROVE  /\ w[k].kind = "status" /\ w[l].kind = "status" => k = l
                      /\ w[k].delivery = "queue" /\ w[l].delivery = "steer" => l < k
                      /\ /\ k < l /\ w[k].kind = "prompt" /\ w[k].delivery = "queue"
                         /\ w[l].kind = "prompt" /\ w[l].delivery = "queue"
                         => <<w[l].id, w[k].id>> \notin jn
    BY DEF Ordered
  <2>0. k \in Nat /\ l \in Nat /\ k >= 1 /\ l >= 1
    BY <1>2
  <2>1. CASE k = 1
    BY <1>2, <2>0, <2>1
  <2>2. CASE k # 1 /\ l = 1
    BY <1>2, <2>0, <2>2
  <2>3. CASE k # 1 /\ l # 1
    <3>1. /\ k - 1 \in DOMAIN q /\ w[k] = q[k - 1] /\ l - 1 \in DOMAIN q /\ w[l] = q[l - 1]
      BY <1>2, <2>3
    <3>2. /\ q[k - 1].kind = "status" /\ q[l - 1].kind = "status" => k - 1 = l - 1
          /\ q[k - 1].delivery = "queue" /\ q[l - 1].delivery = "steer" => l - 1 < k - 1
          /\ /\ k - 1 < l - 1 /\ q[k - 1].kind = "prompt" /\ q[k - 1].delivery = "queue"
             /\ q[l - 1].kind = "prompt" /\ q[l - 1].delivery = "queue"
             => <<q[l - 1].id, q[k - 1].id>> \notin jn
      BY <3>1 DEF Neat, Ordered
    <3> QED BY <2>0, <3>1, <3>2
  <2> QED BY <2>1, <2>2, <2>3
<1> QED BY <1>1, <1>2, <1>3 DEF Neat, Front

\* An entry that is no steer is put at the end.
LEMMA BackNeat ==
  ASSUME NEW jn, NEW q, Neat(q, jn), NEW e \in Entries, e.delivery = "queue", e.id \notin Ids(q),
         e.kind = "status" => \A i \in DOMAIN q : q[i].kind # "status",
         e.kind = "prompt" =>
           \A i \in DOMAIN q : q[i].kind = "prompt" => <<e.id, q[i].id>> \notin jn
  PROVE  Neat(Append(q, e), jn) /\ Ids(Append(q, e)) = Ids(q) \cup {e.id}
<1> DEFINE w == Append(q, e)
           n == Len(q)
<1>1. q \in Seq(Entries) /\ n \in Nat /\ DOMAIN q = 1 .. n
  BY DEF Neat
<1>2. /\ w \in Seq(Entries) /\ DOMAIN w = 1 .. n + 1
      /\ w[n + 1] = e /\ \A i \in DOMAIN q : w[i] = q[i]
  BY <1>1
<1> HIDE DEF w, n
<1>3. \A k \in DOMAIN w : /\ k \in Nat
                          /\ \/ k = n + 1 /\ w[k] = e
                             \/ k \in DOMAIN q /\ k < n + 1 /\ w[k] = q[k]
  <2>1. n \in Nat /\ DOMAIN q = 1 .. n /\ DOMAIN w = 1 .. n + 1
    BY <1>1, <1>2 DEF n
  <2>2. \A k \in 1 .. n + 1 : k \in Nat /\ (k = n + 1 \/ (k \in 1 .. n /\ k < n + 1))
    BY <2>1
  <2> QED BY <1>2, <2>1, <2>2
<1>4. Ids(w) = Ids(q) \cup {e.id}
  <2>1. \A k \in DOMAIN w : w[k].id \in Ids(q) \cup {e.id}
    BY <1>3 DEF Ids
  <2>2. ASSUME NEW i \in DOMAIN q PROVE q[i].id \in Ids(w)
    <3>1. i \in DOMAIN w /\ w[i] = q[i]
      BY <1>1, <1>2
    <3> QED BY <3>1 DEF Ids
  <2>3. e.id \in Ids(w)
    <3>1. n + 1 \in DOMAIN w
      BY <1>1, <1>2
    <3> QED BY <1>2, <3>1 DEF Ids
  <2> QED BY <2>1, <2>2, <2>3 DEF Ids
<1>5. UniqueIds(w)
  BY <1>3 DEF UniqueIds, Neat, Ids
<1>6. Ordered(w, jn)
  <2> SUFFICES ASSUME NEW k \in DOMAIN w, NEW l \in DOMAIN w
               PROVE  /\ w[k].kind = "status" /\ w[l].kind = "status" => k = l
                      /\ w[k].delivery = "queue" /\ w[l].delivery = "steer" => l < k
                      /\ /\ k < l /\ w[k].kind = "prompt" /\ w[k].delivery = "queue"
                         /\ w[l].kind = "prompt" /\ w[l].delivery = "queue"
                         => <<w[l].id, w[k].id>> \notin jn
    BY DEF Ordered
  <2>0. k \in Nat /\ l \in Nat /\ n \in Nat
    BY <1>1, <1>3
  <2>1. CASE k = n + 1
    BY <1>3, <2>0, <2>1
  <2>2. CASE k # n + 1 /\ l = n + 1
    BY <1>3, <2>0, <2>2
  <2>3. CASE k # n + 1 /\ l # n + 1
    BY <1>3, <2>3 DEF Neat, Ordered
  <2> QED BY <2>1, <2>2, <2>3
<1> QED BY <1>2, <1>4, <1>5, <1>6 DEF Neat, w

\* A note takes the place of the one of its kind that waits.
LEMMA MergedNeat ==
  ASSUME NEW jn, NEW q, Neat(q, jn), NEW e \in Entries, e.id \notin Ids(q), e.kind = "status",
         NEW w,
         w = [i \in DOMAIN q |-> IF Merges(q[i], e) THEN [q[i] EXCEPT !.id = e.id] ELSE q[i]],
         \E i \in DOMAIN q : Merges(q[i], e)
  PROVE  /\ Neat(w, jn) /\ e.id \in Ids(w) /\ Ids(w) \subseteq Ids(q) \cup {e.id}
         /\ Ids(q) \cap Prompts \subseteq Ids(w)
<1>1. q \in Seq(Entries) /\ DOMAIN q = 1 .. Len(q) /\ Len(q) \in Nat
  BY DEF Neat
<1>2. PICK m \in DOMAIN q : q[m].kind = "status"
  BY DEF Merges, Kinds
<1>3. ASSUME NEW i \in DOMAIN q
      PROVE  /\ w[i] = IF i = m THEN [q[m] EXCEPT !.id = e.id] ELSE q[i]
             /\ w[i].kind = q[i].kind /\ w[i].delivery = q[i].delivery
             /\ w[i].id = IF i = m THEN e.id ELSE q[i].id
             /\ w[i] \in Entries
  <2>1. Merges(q[i], e) <=> i = m
    BY <1>2 DEF Merges, Kinds, Neat, Ordered
  <2>2. q[i] \in Entries /\ q[i] = [id |-> q[i].id, kind |-> q[i].kind, delivery |-> q[i].delivery]
    BY <1>1 DEF Entries
  <2>3. w[i] = IF i = m THEN [q[i] EXCEPT !.id = e.id] ELSE q[i]
    BY <2>1
  <2>4. e.id \in Notes
    BY EntryParts
  <2>5. CASE i = m
    <3>1. q[m].kind = "status" /\ q[m] \in [id : Notes, kind : Kinds, delivery : {"queue", "steer"}]
      BY <1>2, <2>2, <2>5 DEF Entries
    <3> QED BY <2>3, <2>4, <2>5, <3>1 DEF Entries
  <2>6. CASE i # m
    BY <2>2, <2>3, <2>6
  <2> QED BY <2>3, <2>5, <2>6
<1>4. w \in Seq(Entries) /\ DOMAIN w = DOMAIN q
  <2>1. DOMAIN w = 1 .. Len(q) /\ \A i \in 1 .. Len(q) : w[i] \in Entries
    BY <1>1, <1>3
  <2>2. w = [i \in 1 .. Len(q) |-> w[i]]
    BY <1>1
  <2>3. [i \in 1 .. Len(q) |-> w[i]] \in Seq(Entries)
    BY <1>1, <2>1
  <2> QED BY <1>1, <2>1, <2>2, <2>3
<1>5. UniqueIds(w)
  <2> SUFFICES ASSUME NEW k \in DOMAIN q, NEW l \in DOMAIN q, w[k].id = w[l].id PROVE k = l
    BY <1>4 DEF UniqueIds
  <2>1. w[k].id = (IF k = m THEN e.id ELSE q[k].id) /\ w[l].id = (IF l = m THEN e.id ELSE q[l].id)
    BY <1>3
  <2> QED BY <2>1 DEF Ids, Neat, UniqueIds
<1>6. Ordered(w, jn)
  <2> SUFFICES ASSUME NEW k \in DOMAIN q, NEW l \in DOMAIN q
               PROVE  /\ w[k].kind = "status" /\ w[l].kind = "status" => k = l
                      /\ w[k].delivery = "queue" /\ w[l].delivery = "steer" => l < k
                      /\ /\ k < l /\ w[k].kind = "prompt" /\ w[k].delivery = "queue"
                         /\ w[l].kind = "prompt" /\ w[l].delivery = "queue"
                         => <<w[l].id, w[k].id>> \notin jn
    BY <1>4 DEF Ordered
  <2>1. /\ w[k].kind = q[k].kind /\ w[k].delivery = q[k].delivery
        /\ w[l].kind = q[l].kind /\ w[l].delivery = q[l].delivery
        /\ w[k].kind = "prompt" => w[k].id = q[k].id
        /\ w[l].kind = "prompt" => w[l].id = q[l].id
    BY <1>2, <1>3
  <2> QED BY <2>1 DEF Neat, Ordered
<1>7. /\ e.id \in Ids(w) /\ Ids(w) \subseteq Ids(q) \cup {e.id}
      /\ Ids(q) \cap Prompts \subseteq Ids(w)
  <2>1. w[m].id = e.id /\ m \in DOMAIN w
    BY <1>3, <1>4
  <2>2. \A k \in DOMAIN w : w[k].id \in Ids(q) \cup {e.id}
    BY <1>3, <1>4 DEF Ids
  <2>3. ASSUME NEW k \in DOMAIN q, q[k].id \in Prompts PROVE q[k].id \in Ids(w)
    <3>1. k # m
      <4>1. q[m] \in Entries
        BY <1>1
      <4> QED BY <1>2, <2>3, <4>1, EntryParts
    <3>2. w[k].id = q[k].id /\ k \in DOMAIN w
      BY <1>3, <1>4, <3>1
    <3> QED BY <3>2 DEF Ids
  <2> QED BY <2>1, <2>2, <2>3 DEF Ids
<1> QED BY <1>4, <1>5, <1>6, <1>7 DEF Neat

\* Taking an entry out makes room for one of its kind.
LEMMA RoomFor ==
  ASSUME NEW jn, NEW q, Neat(q, jn), NEW i \in DOMAIN q, NEW w, w = Without(q, {q[i].id})
  PROVE  /\ Neat(w, jn) /\ Ids(w) = Ids(q) \ {q[i].id}
         /\ q[i].kind = "status" => \A k \in DOMAIN w : w[k].kind # "status"
<1>1. Neat(w, jn) /\ Ids(w) = Ids(q) \ {q[i].id}
  BY WithoutNeat
<1>2. PICK h : /\ PartBy(w, q, h)
               /\ \A k \in DOMAIN w : q[h[k]].id \notin {q[i].id}
  BY WithoutIs DEF Neat
<1>3. ASSUME q[i].kind = "status", NEW k \in DOMAIN w PROVE w[k].kind # "status"
  <2>1. h[k] \in DOMAIN q /\ w[k] = q[h[k]] /\ h[k] # i
    BY <1>2 DEF PartBy
  <2> QED BY <1>3, <2>1 DEF Neat, Ordered
<1> QED BY <1>1, <1>3

\* new says of the prompts what jn does, but for p, which is ahead of none.
JoinsLast(jn, new, p) ==
  /\ \A x \in Prompts : <<p, x>> \notin new
  /\ \A x, y \in Prompts \ {p} : <<x, y>> \in new => <<x, y>> \in jn

LEMMA JoinsNeat ==
  ASSUME NEW jn, NEW new, NEW p \in Prompts, JoinsLast(jn, new, p),
         NEW q, Neat(q, jn), p \notin Ids(q)
  PROVE  Neat(q, new) /\ \A i \in DOMAIN q : q[i].kind = "prompt" => <<p, q[i].id>> \notin new
<1>1. \A i \in DOMAIN q : q[i] \in Entries /\ q[i].id # p
  BY DEF Neat, Ids
<1>2. \A i \in DOMAIN q : q[i].kind = "prompt" => q[i].id \in Prompts \ {p}
  BY <1>1, EntryParts
<1>3. Ordered(q, new)
  BY <1>2 DEF Neat, Ordered, JoinsLast
<1> QED BY <1>2, <1>3 DEF Neat, JoinsLast

\* service.enqueue of a prompt ...
LEMMA PromptEnqueued ==
  ASSUME NEW jn, NEW new, NEW q, Neat(q, jn), NEW p \in Prompts, JoinsLast(jn, new, p),
         NEW e \in Entries, e.id = p
  PROVE  Neat(Enqueued(q, e), new) /\ Ids(Enqueued(q, e)) = Ids(q) \cup {p}
<1> DEFINE w == Without(q, {p})
<1>1. e.kind = "prompt" /\ \A i \in DOMAIN q : ~Merges(q[i], e)
  BY EntryParts DEF Merges, Kinds
<1>2. Neat(w, jn) /\ Ids(w) = Ids(q) \ {p}
  BY WithoutNeat
<1> HIDE DEF w
<1>3. Neat(w, new) /\ \A i \in DOMAIN w : w[i].kind = "prompt" => <<p, w[i].id>> \notin new
  BY <1>2, JoinsNeat
<1>4. \/ Enqueued(q, e) = <<Steer(e)>> \o w
      \/ Enqueued(q, e) = Append(w, e) /\ e.delivery # "steer"
  BY <1>1 DEF Enqueued, w
<1>5. /\ Steer(e) \in Entries /\ Steer(e).id = p /\ Steer(e).kind = "prompt"
      /\ Steer(e).delivery = "steer" /\ e.delivery \in {"queue", "steer"}
  BY <1>1, EntryParts
<1>6. CASE Enqueued(q, e) = <<Steer(e)>> \o w
  <2>1. PICK s : s = Steer(e)
    OBVIOUS
  <2>2. Neat(<<s>> \o w, new) /\ Ids(<<s>> \o w) = Ids(w) \cup {s.id}
    BY <1>2, <1>3, <1>5, <2>1, FrontNeat
  <2> QED BY <1>2, <1>5, <1>6, <2>1, <2>2
<1>7. CASE Enqueued(q, e) = Append(w, e) /\ e.delivery # "steer"
  <2>1. Neat(Append(w, e), new) /\ Ids(Append(w, e)) = Ids(w) \cup {e.id}
    BY <1>1, <1>2, <1>3, <1>5, <1>7, BackNeat
  <2> QED BY <1>2, <1>7, <2>1
<1> QED BY <1>4, <1>6, <1>7

\* ... and of a note.
LEMMA NoteEnqueued ==
  ASSUME NEW jn, NEW q, Neat(q, jn), NEW e \in Entries, e.id \in Notes, e.delivery = "steer",
         e.id \notin Ids(q)
  PROVE  /\ Neat(Enqueued(q, e), jn) /\ e.id \in Ids(Enqueued(q, e))
         /\ Ids(Enqueued(q, e)) \subseteq Ids(q) \cup {e.id}
         /\ Ids(q) \cap Prompts \subseteq Ids(Enqueued(q, e))
<1>1. CASE \E i \in DOMAIN q : Merges(q[i], e)
  <2>1. PICK w : w = [i \in DOMAIN q |->
                       IF Merges(q[i], e) THEN [q[i] EXCEPT !.id = e.id] ELSE q[i]]
    OBVIOUS
  <2>2. Enqueued(q, e) = w
    BY <1>1, <2>1 DEF Enqueued
  <2>3. e.kind = "status"
    BY <1>1 DEF Merges, Kinds
  <2> QED BY <1>1, <2>1, <2>2, <2>3, MergedNeat
<1>2. CASE ~\E i \in DOMAIN q : Merges(q[i], e)
  <2> DEFINE w == Without(q, {e.id})
  <2>1. Neat(w, jn) /\ Ids(w) = Ids(q)
    <3>1. Neat(w, jn) /\ Ids(w) = Ids(q) \ {e.id}
      BY WithoutNeat
    <3> HIDE DEF w
    <3> QED BY <3>1
  <2>2. PICK s : s = Steer(e)
    OBVIOUS
  <2>3. s \in Entries /\ s.id = e.id /\ s.kind = e.kind /\ s.delivery = "steer"
    BY <2>2, EntryParts
  <2>4. Enqueued(q, e) = <<s>> \o w
    BY <1>2, <2>2 DEF Enqueued
  <2>5. e.kind = "status" => \A i \in DOMAIN w : w[i].kind # "status"
    <3>1. e.kind = "status" => \A i \in DOMAIN q : q[i].kind # "status"
      BY <1>2 DEF Merges, Kinds
    <3>2. PICK h : PartBy(w, q, h)
      BY WithoutIs DEF Neat
    <3> QED BY <3>1, <3>2 DEF PartBy
  <2> HIDE DEF w
  <2>6. Neat(<<s>> \o w, jn) /\ Ids(<<s>> \o w) = Ids(w) \cup {s.id}
    BY <2>1, <2>3, <2>5, FrontNeat
  <2> QED BY <2>1, <2>3, <2>4, <2>6
<1> QED BY <1>1, <1>2

\* insertUpdatedPrompt: a prompt that is no longer a steer joins anew.
Rejoins(q, i, d) == q[i].id \in Prompts /\ d = "queue" /\ q[i].delivery = "steer"
Moves(jn, new, q, i, d) ==
  IF Rejoins(q, i, d) THEN JoinsLast(jn, new, q[i].id) ELSE new = jn

LEMMA PlacedNeat ==
  ASSUME NEW jn, NEW new, NEW q, Neat(q, jn), NEW i \in DOMAIN q,
         NEW d \in {"queue", "steer"}, Moves(jn, new, q, i, d)
  PROVE  Neat(Placed(q, i, d), new) /\ Ids(Placed(q, i, d)) = Ids(q)
<1>1. PICK w : w = Without(q, {q[i].id})
  OBVIOUS
<1>2. /\ Neat(w, jn) /\ Ids(w) = Ids(q) \ {q[i].id}
      /\ q[i].kind = "status" => \A k \in DOMAIN w : w[k].kind # "status"
  BY <1>1, RoomFor
<1>3. q[i] \in Entries /\ q[i].id \in Ids(q)
  BY DEF Neat, Ids
<1>4. PICK s, b : s = Steer(q[i]) /\ b = Queued(q[i])
  OBVIOUS
<1>5. /\ s \in Entries /\ s.id = q[i].id /\ s.kind = q[i].kind /\ s.delivery = "steer"
      /\ b \in Entries /\ b.id = q[i].id /\ b.kind = q[i].kind /\ b.delivery = "queue"
      /\ q[i].kind = "prompt" <=> q[i].id \in Prompts
  BY <1>3, <1>4, EntryParts
<1>6. CASE d = "steer"
  <2>1. Placed(q, i, d) = <<s>> \o w
    BY <1>1, <1>4, <1>6 DEF Placed
  <2>2. Neat(<<s>> \o w, jn) /\ Ids(<<s>> \o w) = Ids(w) \cup {s.id}
    BY <1>2, <1>5, FrontNeat
  <2>3. new = jn
    BY <1>6 DEF Moves, Rejoins
  <2> QED BY <1>2, <1>3, <1>5, <1>6, <2>1, <2>2, <2>3
<1>7. CASE d = "queue" /\ q[i].delivery = "steer"
  <2>1. Placed(q, i, d) = Append(w, b)
    BY <1>1, <1>4, <1>7 DEF Placed
  <2>2. Neat(w, new) /\ (b.kind = "prompt" =>
          \A k \in DOMAIN w : w[k].kind = "prompt" => <<b.id, w[k].id>> \notin new)
    <3>1. CASE q[i].id \in Prompts
      <4>1. PICK p \in Prompts : p = q[i].id
        BY <3>1
      <4>2. JoinsLast(jn, new, p) /\ p \notin Ids(w)
        BY <1>2, <1>7, <4>1 DEF Moves, Rejoins
      <4>3. /\ Neat(w, new)
            /\ \A k \in DOMAIN w : w[k].kind = "prompt" => <<p, w[k].id>> \notin new
        BY <1>2, <4>2, JoinsNeat
      <4>4. b.id = p
        BY <1>5, <4>1
      <4> QED BY ONLY <4>3, <4>4
    <3>2. CASE q[i].id \notin Prompts
      <4>1. new = jn /\ b.kind # "prompt"
        BY <1>5, <3>2 DEF Moves, Rejoins
      <4> QED BY <1>2, <4>1
    <3> QED BY <3>1, <3>2
  <2>3. Neat(Append(w, b), new) /\ Ids(Append(w, b)) = Ids(w) \cup {b.id}
    BY <1>2, <1>5, <2>2, BackNeat
  <2> QED BY <1>2, <1>3, <1>5, <2>1, <2>3
<1>8. CASE d = "queue" /\ q[i].delivery # "steer"
  <2>1. new = jn /\ Placed(q, i, d) = q
    BY <1>8 DEF Moves, Rejoins, Placed
  <2> QED BY <2>1
<1> QED BY <1>6, <1>7, <1>8

\* The entries behind the i-th.
Behind(q, i) == SubSeq(q, i + 1, Len(q))

LEMMA RestNeat ==
  ASSUME NEW jn, NEW q, Neat(q, jn), NEW i \in DOMAIN q, NEW w, w = Behind(q, i)
  PROVE  /\ Neat(w, jn) /\ Ids(w) \subseteq Ids(q) \ {q[i].id}
         /\ \A j \in DOMAIN q : i < j => q[j].id \in Ids(w)
<1>1. q \in Seq(Entries) /\ DOMAIN q = 1 .. Len(q) /\ Len(q) \in Nat /\ i \in Nat
  BY DEF Neat
<1>2. PICK n \in Nat : n = Len(q)
  BY <1>1
<1>3. /\ w \in Seq(Entries) /\ Len(w) = n - i /\ DOMAIN w = 1 .. (n - i)
      /\ \A k \in 1 .. (n - i) : w[k] = q[i + k]
  <2>1. i \in 1 .. n
    BY <1>1, <1>2
  <2>2. \A k \in (i + 1) .. n : k \in 1 .. n
    BY <2>1
  <2>3. w = [k \in 1 .. (n - i) |-> q[i + k]]
    BY <1>1, <1>2, <2>1 DEF Behind
  <2>4. \A k \in 1 .. (n - i) : i + k \in 1 .. n
    BY <1>2, <2>1
  <2>5. w \in Seq(Entries)
    BY <1>1, <1>2, <2>1, <2>3, <2>4
  <2> QED BY <1>1, <1>2, <2>1, <2>3, <2>5
<1>4. PICK h : h = [k \in DOMAIN w |-> i + k]
  OBVIOUS
<1>5. PartBy(w, q, h)
  <2>1. \A k \in DOMAIN w : k \in Nat /\ i + k \in DOMAIN q
    BY <1>1, <1>2, <1>3
  <2> QED BY <1>1, <1>3, <1>4, <2>1 DEF PartBy
<1>6. Neat(w, jn) /\ Ids(w) \subseteq Ids(q)
  BY <1>3, <1>5, PartNeat DEF Part
<1>7. q[i].id \notin Ids(w)
  <2> SUFFICES ASSUME NEW k \in DOMAIN w, w[k].id = q[i].id PROVE FALSE
    BY DEF Ids
  <2>1. k \in 1 .. (n - i) /\ w[k] = q[i + k]
    BY <1>3
  <2>3. i + k \in DOMAIN q
    BY <1>1, <1>2, <2>1
  <2>2. i + k = i
    BY <2>1, <2>3 DEF Neat, UniqueIds
  <2> QED BY <1>1, <2>1, <2>2
<1>8. ASSUME NEW j \in DOMAIN q, i < j PROVE q[j].id \in Ids(w)
  <2>1. j - i \in 1 .. (n - i) /\ i + (j - i) = j
    BY <1>1, <1>2, <1>8
  <2>2. j - i \in DOMAIN w /\ w[j - i] = q[j]
    BY <1>3, <2>1
  <2> QED BY <2>2 DEF Ids
<1> QED BY <1>6, <1>7, <1>8

\* A prompt that joins does so behind all others.
LEMMA JoinsAre ==
  ASSUME NEW p \in Prompts, ahead \in SUBSET (Prompts \X Prompts), ahead' = Joins(p),
         \A x \in Prompts : <<x, x>> \notin ahead
  PROVE  /\ JoinsLast(ahead, ahead', p) /\ ahead' \in SUBSET (Prompts \X Prompts)
         /\ \A x \in Prompts : <<x, x>> \notin ahead'
<1>1. ahead' \in SUBSET (Prompts \X Prompts)
  BY DEF Joins
<1>2. \A x \in Prompts : <<p, x>> \notin ahead'
  BY DEF Joins
<1>3. \A x, y \in Prompts \ {p} : <<x, y>> \in ahead' => <<x, y>> \in ahead
  BY DEF Joins
<1>4. \A x \in Prompts : <<x, x>> \notin ahead'
  BY DEF Joins
<1> QED BY <1>1, <1>2, <1>3, <1>4 DEF JoinsLast

-----------------------------------------------------------------------------
(* The steps keep the invariant: first those of the queue.                 *)

\* The queue.
LEMMA QueueUp ==
  ASSUME TurnsInv
  PROVE  /\ Neat(queue, ahead) /\ Waiting = Ids(queue) /\ Waiting \subseteq Items
         /\ \A x \in Waiting : turn[x] = "none" /\ x \in given
                              /\ x \notin read \cup doomed \cup stopped
<1>1. Neat(queue, ahead) /\ Waiting = Ids(queue)
  BY DEF TurnsInv, TypeOK, InOrder, Neat, UniqueIds, Waiting, Ids
<1>2. \A i \in DOMAIN queue : queue[i].id \in Items
  <2>1. \A i \in DOMAIN queue : queue[i] \in Entries
    BY DEF TurnsInv, TypeOK
  <2> QED BY <2>1, EntryParts
<1>3. Waiting \subseteq Items
  BY <1>2 DEF Waiting
<1>4. \A x \in Waiting : turn[x] = "none" /\ x \notin read \cup doomed
  BY DEF TurnsInv, OnTheirWay
<1>5. \A x \in Waiting : x \notin stopped /\ x \in given
  BY <1>3, <1>4 DEF TurnsInv, OnTheirWay, Recorded
<1> QED BY <1>1, <1>3, <1>4, <1>5

\* What holds of a queue is what the invariant says of it.
LEMMA QueueFacts ==
  ASSUME NEW q, NEW jn, Neat(q, jn)
  PROVE  /\ q \in Seq(Entries) /\ Ordered(q, jn)
         /\ \A i, j \in DOMAIN q : q[i].id = q[j].id => i = j
BY DEF Neat, UniqueIds

\* Whatever happens to the queue, if the turns go on as they did: every prompt that leaves
\* it is removed or read, and whatever comes is neither.
LEMMA QueueChanges ==
  ASSUME TurnsInv, session' = session,
         Neat(queue', ahead'),
         given \subseteq given', given' \subseteq Items,
         doomed \subseteq doomed', doomed' \subseteq given',
         read \subseteq read', read' \subseteq given',
         Waiting' \subseteq given',
         \A x \in Waiting' : turn[x] = "none" /\ x \notin read' \cup doomed',
         \A x \in doomed' : turn[x] = "none",
         \A p \in (Waiting \cup (given' \ given)) \cap Prompts :
           p \in Waiting' \cup read' \cup doomed',
         ahead' \in SUBSET (Prompts \X Prompts), \A p \in Prompts : <<p, p>> \notin ahead',
         edits' \in 0 .. MaxEdits, drainDue' \in BOOLEAN, failing' \in BOOLEAN,
         UNCHANGED <<turn, agent, halted, aborting, draining, stopped, overlap, stops>>
  PROVE  TurnsInv'
<1>1. /\ queue' \in Seq(Entries) /\ Ordered(queue', ahead')
      /\ \A i, j \in DOMAIN queue' : queue'[i].id = queue'[j].id => i = j
  BY QueueFacts
<1>2. TypeOK'
  BY <1>1 DEF TurnsInv, TypeOK, Settling
<1>3. Recorded'
  BY DEF TurnsInv, Recorded, TypeOK
<1>4. OnTheirWay'
  BY DEF TurnsInv, OnTheirWay, Settling
<1>5. InFlight' = InFlight /\ \A x : Sent(x)' <=> Sent(x)
  BY DEF InFlight, Settling, Sent
<1>6. TornDown'
  BY DEF TurnsInv, TornDown
<1>7. InOrder'
  BY <1>1 DEF InOrder
<1>8. Halting'
  BY <1>5 DEF TurnsInv, Halting
<1>9. NothingLost'
  <2> SUFFICES ASSUME session' = "up", NEW x \in given' \cap Prompts
               PROVE  \/ x \in Waiting' \cup read' \cup doomed' \cup stopped'
                      \/ turn'[x] = "preparing"
    BY DEF NothingLost
  <2>1. CASE x \in given /\ x \notin Waiting
    BY <2>1 DEF TurnsInv, NothingLost
  <2>2. CASE x \notin given \/ x \in Waiting
    BY <2>2
  <2> QED BY <2>1, <2>2
<1> QED BY <1>2, <1>3, <1>4, <1>6, <1>7, <1>8, <1>9 DEF TurnsInv

\* A prompt is queued, for the first time or again.
LEMMA PromptQueued ==
  ASSUME TurnsInv, NEW p \in Prompts, NEW d \in {"queue", "steer"},
         Enqueue(Prompt(p, d)),
         \/ p \notin given /\ edits' = edits
         \/ p \in Waiting /\ edits < MaxEdits /\ edits' = edits + 1,
         UNCHANGED <<session, turn, agent, halted, aborting, draining, read, doomed, stopped,
                     overlap, stops>>
  PROVE  TurnsInv'
<1>1. PICK e : e = Prompt(p, d)
  OBVIOUS
<1>2. e \in Entries /\ e.id = p
  BY <1>1 DEF Prompt, Entries
<1>3. /\ queue' = Enqueued(queue, e) /\ given' = given \cup {p} /\ failing' = FALSE
      /\ ahead' = Joins(p)
      /\ drainDue' \in BOOLEAN
  BY <1>1, <1>2 DEF Enqueue, ScheduleDrain, TurnsInv, TypeOK
<1>5. /\ JoinsLast(ahead, ahead', p) /\ ahead' \in SUBSET (Prompts \X Prompts)
      /\ \A x \in Prompts : <<x, x>> \notin ahead'
  BY <1>3, JoinsAre DEF TurnsInv, TypeOK, InOrder
<1>6. /\ Neat(queue, ahead) /\ Waiting = Ids(queue) /\ Waiting \subseteq Items
      /\ \A x \in Waiting : turn[x] = "none" /\ x \notin read \cup doomed /\ x \in given
  BY QueueUp
<1>7. Neat(queue', ahead') /\ Waiting' = Waiting \cup {p}
  <2>1. Neat(Enqueued(queue, e), ahead') /\ Ids(Enqueued(queue, e)) = Ids(queue) \cup {p}
    BY <1>2, <1>5, <1>6, PromptEnqueued
  <2>2. Waiting' = Ids(queue')
    BY DEF Waiting, Ids
  <2> QED BY <1>3, <1>6, <2>1, <2>2
<1>8. p \in Items /\ turn[p] = "none" /\ p \notin read \cup doomed
  BY <1>6 DEF Items, TurnsInv, Recorded
<1>9. /\ given \subseteq Items /\ read \subseteq given /\ doomed \subseteq given
      /\ edits \in 0 .. MaxEdits /\ \A x \in doomed : turn[x] = "none"
  BY DEF TurnsInv, TypeOK, Recorded, OnTheirWay
<1>11. edits' \in 0 .. MaxEdits
  BY <1>9, ConstantsAssumption
<1> QED BY <1>3, <1>5, <1>6, <1>7, <1>8, <1>9, <1>11, QueueChanges

\* What the invariant says of the histories.
LEMMA Histories ==
  ASSUME TurnsInv
  PROVE  /\ given \subseteq Items /\ read \subseteq given /\ doomed \subseteq given
         /\ ahead \in SUBSET (Prompts \X Prompts) /\ \A p \in Prompts : <<p, p>> \notin ahead
         /\ edits \in 0 .. MaxEdits
         /\ {drainDue, failing} \subseteq BOOLEAN
         /\ \A x \in doomed : turn[x] = "none"
         /\ \A x \in Items \ given : turn[x] = "none" /\ x \notin Waiting \cup read \cup doomed
BY DEF TurnsInv, TypeOK, Recorded, OnTheirWay, InOrder

LEMMA SubmitAsKeeps ==
  ASSUME TurnsInv, NEW p \in Prompts, NEW d \in {"queue", "steer"}, SubmitAs(p, d)
  PROVE  TurnsInv'
<1>1. \/ p \notin given /\ edits' = edits
      \/ p \in Waiting /\ edits < MaxEdits /\ edits' = edits + 1
  BY DEF SubmitAs, Fresh
<1> QED BY <1>1, PromptQueued DEF SubmitAs

\* A steer that a side turn answers never enters the queue.
LEMMA SteerInSideTurnKeeps ==
  ASSUME TurnsInv, NEW p \in Prompts, SteerInSideTurn(p)
  PROVE  TurnsInv'
<1>1. /\ session' = session /\ p \notin given /\ given' = given \cup {p}
      /\ read' = read \cup {p} /\ queue' = queue /\ ahead' = ahead /\ doomed' = doomed
      /\ edits' = edits /\ drainDue' = drainDue /\ failing' = failing
      /\ UNCHANGED <<turn, agent, halted, aborting, draining, stopped, overlap, stops>>
  BY DEF SteerInSideTurn, Fresh, queueVars
<1>2. /\ Neat(queue', ahead') /\ Waiting' = Waiting
      /\ \A x \in Waiting : turn[x] = "none" /\ x \notin read \cup doomed /\ x \in given
  BY <1>1, QueueUp DEF Waiting
<1>3. p \in Items /\ p \notin Waiting
  BY <1>1, Histories DEF Items
<1> QED BY <1>1, <1>2, <1>3, Histories, QueueChanges

LEMMA UpdateKeeps ==
  ASSUME TurnsInv, NEW i, NEW d \in {"queue", "steer"}, Update(i, d)
  PROVE  TurnsInv'
<1>1. /\ session' = session /\ i \in DOMAIN queue
      /\ edits < MaxEdits /\ edits' = edits + 1
      /\ queue' = Placed(queue, i, d)
      /\ ahead' = IF queue[i].id \in Prompts /\ d = "queue" /\ queue[i].delivery = "steer"
                   THEN Joins(queue[i].id) ELSE ahead
      /\ failing' = FALSE /\ given' = given /\ read' = read /\ doomed' = doomed
      /\ UNCHANGED <<turn, agent, halted, aborting, draining, stopped, overlap, stops>>
  BY DEF Update
<1>2. drainDue' \in BOOLEAN
  BY Histories DEF Update, ScheduleDrain
<1>3. /\ Neat(queue, ahead) /\ Waiting = Ids(queue)
      /\ \A x \in Waiting : turn[x] = "none" /\ x \notin read \cup doomed /\ x \in given
  BY <1>1, QueueUp
<1>4. queue[i].id \in Waiting
  BY <1>1 DEF Waiting
<1>5. /\ Moves(ahead, ahead', queue, i, d) /\ ahead' \in SUBSET (Prompts \X Prompts)
      /\ \A x \in Prompts : <<x, x>> \notin ahead'
  <2>1. CASE Rejoins(queue, i, d)
    <3>1. PICK p \in Prompts : p = queue[i].id
      BY <2>1 DEF Rejoins
    <3>2. ahead' = Joins(p)
      BY <1>1, <2>1, <3>1 DEF Rejoins
    <3>3. /\ JoinsLast(ahead, ahead', p) /\ ahead' \in SUBSET (Prompts \X Prompts)
          /\ \A x \in Prompts : <<x, x>> \notin ahead'
      BY <3>2, JoinsAre, Histories
    <3> QED BY <2>1, <3>1, <3>3 DEF Moves
  <2>2. CASE ~Rejoins(queue, i, d)
    <3>1. ahead' = ahead
      BY <1>1, <2>2 DEF Rejoins
    <3> QED BY <2>2, <3>1, Histories DEF Moves
  <2> QED BY <2>1, <2>2
<1>6. Neat(queue', ahead') /\ Waiting' = Waiting
  <2>1. Neat(Placed(queue, i, d), ahead') /\ Ids(Placed(queue, i, d)) = Ids(queue)
    BY <1>1, <1>3, <1>5, PlacedNeat
  <2>2. Waiting' = Ids(queue')
    BY DEF Waiting, Ids
  <2> QED BY <1>1, <1>3, <2>1, <2>2
<1>7. edits' \in 0 .. MaxEdits
  BY <1>1, ConstantsAssumption, Histories
<1> QED BY <1>1, <1>2, <1>3, <1>5, <1>6, <1>7, Histories, QueueChanges

LEMMA DeleteKeeps ==
  ASSUME TurnsInv, NEW i, Delete(i)
  PROVE  TurnsInv'
<1>1. /\ session' = session /\ i \in DOMAIN queue
      /\ edits < MaxEdits /\ edits' = edits + 1
      /\ queue' = Without(queue, {queue[i].id})
      /\ doomed' = doomed \cup {queue[i].id}
      /\ failing' = FALSE /\ given' = given /\ read' = read /\ ahead' = ahead
      /\ UNCHANGED <<turn, agent, halted, aborting, draining, stopped, overlap, stops>>
  BY DEF Delete
<1>2. drainDue' \in BOOLEAN
  BY Histories DEF Delete, ScheduleDrain
<1>3. /\ Neat(queue, ahead) /\ Waiting = Ids(queue)
      /\ \A x \in Waiting : turn[x] = "none" /\ x \notin read \cup doomed /\ x \in given
  BY <1>1, QueueUp
<1>4. queue[i].id \in Waiting
  BY <1>1 DEF Waiting
<1>5. Neat(queue', ahead') /\ Waiting' = Waiting \ {queue[i].id}
  <2>1. Waiting' = Ids(queue')
    BY DEF Waiting, Ids
  <2> QED BY <1>1, <1>3, <2>1, WithoutNeat
<1>6. edits' \in 0 .. MaxEdits
  BY <1>1, ConstantsAssumption, Histories
<1> QED BY <1>1, <1>2, <1>3, <1>4, <1>5, <1>6, Histories, QueueChanges

\* A note merges, or is queued in front, or is read at once.
LEMMA NoteKeeps ==
  ASSUME TurnsInv, NEW n \in Notes, NEW kind \in Kinds, Note(n, kind)
  PROVE  TurnsInv'
<1>1. /\ session' = session /\ n \notin given /\ given' = given \cup {n}
      /\ doomed' = doomed /\ edits' = edits
      /\ UNCHANGED <<turn, agent, halted, aborting, draining, stopped, overlap, stops>>
  BY DEF Note, Fresh, Enqueue
<1>2. n \in Items /\ n \notin Prompts
  BY ConstantsAssumption DEF Items, Notes, Prompts
<1>3. /\ Neat(queue, ahead) /\ Waiting = Ids(queue)
      /\ \A x \in Waiting : turn[x] = "none" /\ x \notin read \cup doomed /\ x \in given
  BY <1>1, QueueUp
<1>4. ahead' = ahead
  BY <1>2 DEF Note, Enqueue
<1>6. n \notin Waiting \cup read \cup doomed /\ turn[n] = "none"
  BY <1>1, <1>2, Histories
<1>7. CASE kind = "none" /\ CanStartRun
  <2>1. read' = read \cup {n} /\ queue' = queue /\ drainDue' = drainDue /\ failing' = failing
    BY <1>7 DEF Note, queueVars
  <2>2. Waiting' = Waiting
    BY <2>1 DEF Waiting
  <2> QED BY <1>1, <1>2, <1>3, <1>4, <1>6, <2>1, <2>2, Histories, QueueChanges
<1>8. CASE ~(kind = "none" /\ CanStartRun)
  <2>1. PICK e : e = [id |-> n, kind |-> kind, delivery |-> "steer"]
    OBVIOUS
  <2>2. e \in Entries /\ e.id = n /\ e.delivery = "steer"
    BY <2>1 DEF Entries
  <2>3. queue' = Enqueued(queue, e) /\ failing' = FALSE /\ read' = read /\ drainDue' \in BOOLEAN
    BY <1>8, <2>1, Histories DEF Note, Enqueue, ScheduleDrain
  <2>4. /\ Neat(queue', ahead') /\ Waiting' \subseteq Waiting \cup {n}
        /\ Waiting \cap Prompts \subseteq Waiting'
    <3>1. n \notin Ids(queue)
      BY <1>3, <1>6
    <3>2. /\ Neat(Enqueued(queue, e), ahead)
          /\ Ids(Enqueued(queue, e)) \subseteq Ids(queue) \cup {n}
          /\ Ids(queue) \cap Prompts \subseteq Ids(Enqueued(queue, e))
      BY <1>3, <2>2, <3>1, NoteEnqueued
    <3>3. Waiting' = Ids(queue')
      BY DEF Waiting, Ids
    <3> QED BY <1>3, <1>4, <2>3, <3>2, <3>3
  <2> QED BY <1>1, <1>2, <1>3, <1>4, <1>6, <2>3, <2>4, Histories, QueueChanges
<1> QED BY <1>7, <1>8

\* The notes in front of a steer that is read go with it.
LEMMA ConsumeSteerKeeps ==
  ASSUME TurnsInv, ConsumeSteer
  PROVE  TurnsInv'
<1>1. PICK i \in DOMAIN queue :
        /\ queue[i].delivery = "steer"
        /\ \A j \in 1 .. (i - 1) : queue[j].delivery = "steer" => queue[j].id \in Notes
        /\ read' = read \cup {queue[i].id}
        /\ queue' = Without(queue, SteersBefore(i))
  BY DEF ConsumeSteer
<1>2. /\ session' = session /\ given' = given /\ ahead' = ahead
      /\ doomed' = doomed /\ edits' = edits /\ drainDue' = drainDue /\ failing' = failing
      /\ UNCHANGED <<turn, agent, halted, aborting, draining, stopped, overlap, stops>>
  BY DEF ConsumeSteer
<1>3. /\ Neat(queue, ahead) /\ Waiting = Ids(queue)
      /\ \A x \in Waiting : turn[x] = "none" /\ x \notin read \cup doomed /\ x \in given
  BY <1>2, QueueUp
<1>4. queue[i].id \in Waiting
  BY DEF Waiting
<1>5. Neat(queue', ahead') /\ Waiting' = Waiting \ SteersBefore(i)
  <2>1. Waiting' = Ids(queue')
    BY DEF Waiting, Ids
  <2>2. PICK S : S = SteersBefore(i)
    OBVIOUS
  <2> QED BY <1>1, <1>2, <1>3, <2>1, <2>2, WithoutNeat
<1>6. i \in Nat /\ i >= 1
  <2>1. DOMAIN queue = 1 .. Len(queue) /\ Len(queue) \in Nat
    BY <1>3 DEF Neat
  <2> QED BY <2>1
<1>7. queue[i].id \in SteersBefore(i)
  <2>1. i \in 1 .. i
    BY <1>6
  <2> QED BY <1>1, <2>1 DEF SteersBefore
<1>8. ASSUME NEW x \in SteersBefore(i) \cap Prompts PROVE x = queue[i].id
  <2>1. PICK j \in 1 .. i : queue[j].delivery = "steer" /\ queue[j].id = x
    BY DEF SteersBefore
  <2>2. x \notin Notes
    BY ConstantsAssumption DEF Prompts, Notes
  <2>3. j \notin 1 .. (i - 1)
    BY <1>1, <2>1, <2>2
  <2>4. j = i
    BY <1>6, <2>3
  <2> QED BY <2>1, <2>4
<1>10. \A x \in Waiting \cap Prompts : x \in Waiting' \cup read'
  BY <1>1, <1>5, <1>8
<1>11. \A x \in Waiting' : x \in Waiting /\ x # queue[i].id
  BY <1>5, <1>7
<1> QED BY <1>1, <1>2, <1>3, <1>4, <1>5, <1>10, <1>11, Histories, QueueChanges

-----------------------------------------------------------------------------
(* The steps of the turns.                                                 *)

\* What stands of the turns.
LEMMA Turns ==
  ASSUME TurnsInv
  PROVE  /\ turn \in [Items -> {"none", "preparing", "running", "over"}
                               \cup Settling \cup TearingDown]
         /\ agent \in Items \cup {None} /\ None \notin Items
         /\ draining \in Entries \cup {None} /\ None \notin Entries
         /\ {halted, aborting, overlap} \subseteq BOOLEAN
         /\ InFlight \subseteq Items
<1>1. None \notin Items /\ None \notin Entries
  BY ConstantsAssumption
<1>2. InFlight \subseteq Items
  BY DEF InFlight
<1> QED BY <1>1, <1>2 DEF TurnsInv, TypeOK

\* A turn starts, of a new prompt or of the entry that drain sends.
LEMMA TurnStarts ==
  ASSUME TurnsInv, session' = session, CanStartRun, NEW x \in Items, StartTurn(x),
         turn[x] = "none", x \notin read \cup doomed,
         given' = given \cup {x},
         Neat(queue', ahead), Waiting' \subseteq Waiting, x \notin Waiting',
         Waiting \cap Prompts \subseteq Waiting' \cup {x},
         draining' \in Entries \cup {None},
         drainDue' \in BOOLEAN,
         UNCHANGED <<agent, halted, read, doomed, stopped, ahead, edits, stops>>
  PROVE  TurnsInv'
<1>0. /\ turn \in [Items -> {"none", "preparing", "running", "over"} \cup Settling \cup TearingDown]
      /\ agent = None /\ None \notin Items
      /\ draining \in Entries \cup {None} /\ None \notin Entries
      /\ {halted, aborting, overlap} \subseteq BOOLEAN
      /\ InFlight \subseteq Items
  BY Turns DEF CanStartRun
<1>1. /\ turn' = [turn EXCEPT ![x] = "preparing"] /\ aborting' = FALSE /\ failing' = FALSE
      /\ overlap' = (overlap \/ InFlight # {})
  BY DEF StartTurn
<1>2. \A y \in Items : turn'[y] = IF y = x THEN "preparing" ELSE turn[y]
  BY <1>0, <1>1
<1>3. InFlight' = InFlight \cup {x}
  BY <1>2 DEF InFlight
<1>4. /\ queue' \in Seq(Entries) /\ Ordered(queue', ahead)
      /\ \A i, j \in DOMAIN queue' : queue'[i].id = queue'[j].id => i = j
  BY QueueFacts
<1>5. TypeOK'
  <2>1. turn' \in [Items -> {"none", "preparing", "running", "over"} \cup Settling \cup TearingDown]
    BY <1>0, <1>1
  <2>2. overlap' \in BOOLEAN
    BY <1>0, <1>1
  <2> QED BY <1>0, <1>1, <1>4, <2>1, <2>2 DEF TurnsInv, TypeOK
<1>6. Recorded'
  BY <1>2 DEF TurnsInv, Recorded
<1>7. \A y \in Waiting : y \in Items /\ turn[y] = "none" /\ y \notin read
  BY QueueUp
<1>8. OnTheirWay'
  <2>1. \A y \in Waiting' : turn'[y] = "none" /\ y \notin read'
    BY <1>2, <1>7
  <2>2. \A y \in doomed' : y \notin Waiting' /\ turn'[y] = "none"
    <3>1. doomed \subseteq Items
      BY DEF TurnsInv, TypeOK
    <3> QED BY <1>2, <3>1 DEF TurnsInv, OnTheirWay
  <2>3. \A y \in stopped' : turn'[y] # "none"
    <3>1. stopped \subseteq Items
      BY DEF TurnsInv, TypeOK
    <3> QED BY <1>2, <3>1 DEF TurnsInv, OnTheirWay
  <2>4. \A y \in Items : turn'[y] \in {"running"} \cup Settling => y \in read'
    BY <1>2 DEF TurnsInv, OnTheirWay, Settling
  <2> QED BY <2>1, <2>2, <2>3, <2>4 DEF OnTheirWay
<1>9. TornDown'
  BY <1>2 DEF TurnsInv, TornDown, TearingDown
<1>10. InOrder'
  BY <1>4 DEF TurnsInv, InOrder
<1>11. Halting'
  <2>1. \A y \in Items : turn'[y] # "running"
    BY <1>0, <1>2 DEF TurnsInv, Halting
  <2>2. ASSUME ~overlap' PROVE InFlight' = {x}
    BY <1>1, <1>3, <2>2
  <2>3. ASSUME ~overlap', NEW y \in stopped, turn'[y] = "preparing" PROVE FALSE
    <3>1. y \in Items /\ y # x
      BY DEF TurnsInv, TypeOK, OnTheirWay
    <3>2. y \in InFlight'
      BY <2>3, <3>1 DEF InFlight
    <3> QED BY <2>2, <2>3, <3>1, <3>2
  <2>4. stopped \subseteq Items
    BY DEF TurnsInv, TypeOK
  <2> QED BY <1>0, <1>1, <2>1, <2>2, <2>3, <2>4 DEF Halting
<1>12. NothingLost'
  <2> SUFFICES ASSUME session' = "up", NEW p \in given' \cap Prompts
               PROVE  \/ p \in Waiting' \cup read' \cup doomed' \cup stopped'
                      \/ turn'[p] = "preparing"
    BY DEF NothingLost
  <2>1. p \in Items
    BY DEF Items
  <2>2. CASE p = x
    BY <1>2, <2>1, <2>2
  <2>3. CASE p # x
    <3>1. turn'[p] = turn[p]
      BY <1>2, <2>1, <2>3
    <3> QED BY <2>3, <3>1 DEF TurnsInv, NothingLost
  <2> QED BY <2>2, <2>3
<1> QED BY <1>5, <1>6, <1>8, <1>9, <1>10, <1>11, <1>12 DEF TurnsInv

LEMMA SubmitKeeps ==
  ASSUME TurnsInv, NEW p \in Prompts, Submit(p)
  PROVE  TurnsInv'
<1>1. /\ session' = session /\ p \notin given
      /\ UNCHANGED <<agent, halted, draining, read, doomed, stopped, edits, stops>>
  BY DEF Submit, Fresh
<1>2. CASE CanStartRun
  <2>1. /\ StartTurn(p) /\ given' = given \cup {p} /\ queue' = queue /\ drainDue' = drainDue
        /\ ahead' = ahead
    BY <1>2 DEF Submit, queueVars
  <2>2. Neat(queue', ahead) /\ Waiting' = Waiting
    BY <1>1, <2>1, QueueUp DEF Waiting
  <2>3. p \in Items
    BY DEF Items
  <2>4. turn[p] = "none" /\ p \notin Waiting \cup read \cup doomed
    BY <1>1, <2>3, Histories
  <2>5. draining' \in Entries \cup {None}
    BY <1>1, Turns
  <2> QED BY <1>1, <1>2, <2>1, <2>2, <2>3, <2>4, <2>5, Histories, TurnStarts
<1>3. CASE ~CanStartRun
  <2>1. Enqueue(Prompt(p, "queue")) /\ UNCHANGED <<turn, aborting, overlap>>
    BY <1>3 DEF Submit
  <2> QED BY <1>1, <2>1, PromptQueued
<1> QED BY <1>2, <1>3

LEMMA DrainKeeps ==
  ASSUME TurnsInv, Drain
  PROVE  TurnsInv'
<1>1. /\ session' = session /\ drainDue' = FALSE
      /\ UNCHANGED <<agent, halted, given, read, doomed, stopped, ahead, edits, stops>>
  BY DEF Drain
<1>2. /\ Neat(queue, ahead) /\ Waiting = Ids(queue) /\ Waiting \subseteq Items
      /\ \A x \in Waiting : turn[x] = "none" /\ x \notin read \cup doomed /\ x \in given
  BY <1>1, QueueUp
<1>4. CASE aborting \/ draining # None \/ ~CanStartRun
  <2>1. UNCHANGED <<queue, draining, turn, aborting, failing, overlap>>
    BY <1>4 DEF Drain
  <2>2. Waiting' = Waiting
    BY <2>1 DEF Waiting
  <2> QED BY <1>1, <1>2, <2>1, <2>2, Histories, QueueChanges
<1>5. CASE /\ ~(aborting \/ draining # None \/ ~CanStartRun)
           /\ \A i \in DOMAIN queue : queue[i].id \in Notes
           /\ queue' = << >>
           /\ UNCHANGED <<draining, turn, aborting, failing, overlap>>
  <2>1. Neat(queue', ahead') /\ Waiting' = {}
    <3>1. Waiting' = {queue'[i].id : i \in DOMAIN queue'}
      BY DEF Waiting
    <3>2. DOMAIN queue' = {} /\ queue' \in Seq(Entries)
      BY <1>5
    <3> QED BY <3>1, <3>2 DEF Neat, UniqueIds, Ordered
  <2>2. \A x \in Waiting : x \notin Prompts
    BY <1>5, ConstantsAssumption DEF Waiting, Prompts, Notes
  <2> QED BY <1>1, <1>2, <1>5, <2>1, <2>2, Histories, QueueChanges
<1>6. ASSUME ~(aborting \/ draining # None \/ ~CanStartRun), NEW i \in DOMAIN queue,
             NextEntry(i), queue' = SubSeq(queue, i + 1, Len(queue)), draining' = queue[i],
             StartTurn(queue[i].id)
      PROVE  TurnsInv'
  <2>1. PICK e, w : e = queue[i] /\ w = queue'
    OBVIOUS
  <2>2. /\ Neat(w, ahead) /\ Ids(w) \subseteq Ids(queue) \ {e.id}
        /\ \A j \in DOMAIN queue : i < j => queue[j].id \in Ids(w)
    <3>1. PICK q : q = queue
      OBVIOUS
    <3>2. Neat(q, ahead) /\ i \in DOMAIN q /\ w = Behind(q, i) /\ e = q[i]
      BY <1>2, <1>6, <2>1, <3>1 DEF Behind
    <3>3. /\ Neat(w, ahead) /\ Ids(w) \subseteq Ids(q) \ {q[i].id}
          /\ \A j \in DOMAIN q : i < j => q[j].id \in Ids(w)
      BY ONLY <3>2, RestNeat
    <3> QED BY <3>1, <3>2, <3>3
  <2>3. Waiting' = Ids(w)
    BY <2>1 DEF Waiting, Ids
  <2>4. e \in Entries /\ e.id \in Waiting
    BY <1>2, <2>1 DEF Neat, Waiting
  <2>5. Waiting \cap Prompts \subseteq Waiting' \cup {e.id}
    <3> SUFFICES ASSUME NEW j \in DOMAIN queue, queue[j].id \in Prompts
                 PROVE  queue[j].id \in Waiting' \cup {e.id}
      BY DEF Waiting
    <3>1. DOMAIN queue = 1 .. Len(queue) /\ Len(queue) \in Nat
      BY <1>2 DEF Neat
    <3>2. queue[j].id \notin Notes
      BY ConstantsAssumption DEF Prompts, Notes
    <3>3. j \notin 1 .. (i - 1)
      BY <1>6, <3>2 DEF NextEntry
    <3>4. i < j \/ i = j
      BY <3>1, <3>3
    <3> QED BY <2>1, <2>2, <2>3, <3>4
  <2>6. given' = given \cup {e.id}
    BY <1>1, <1>2, <2>4
  <2>7. /\ StartTurn(e.id) /\ draining' = e /\ draining = None /\ CanStartRun
        /\ Neat(queue', ahead)
    BY <1>6, <2>1, <2>2
  <2>8. Waiting' \subseteq Waiting /\ e.id \notin Waiting'
    BY <1>2, <2>2, <2>3
  <2>9. e.id \in Items /\ turn[e.id] = "none" /\ e.id \notin read \cup doomed
    BY <1>2, <2>4
  <2> QED BY <1>1, <2>4, <2>5, <2>6, <2>7, <2>8, <2>9, TurnStarts
<1> QED BY <1>4, <1>5, <1>6 DEF Drain

\* A turn in flight was submitted, and its item waits nowhere.
LEMMA FlightKnown ==
  ASSUME TurnsInv, NEW x \in InFlight
  PROVE  x \in Items /\ x \in given /\ turn[x] # "none" /\ x \notin Waiting
<1>1. x \in Items /\ turn[x] # "none"
  BY DEF InFlight, Settling
<1> QED BY <1>1 DEF TurnsInv, Recorded, OnTheirWay

\* A turn that does not run goes over, or further down, and may take the session with it.
LEMMA TurnLeaves ==
  ASSUME TurnsInv, NEW x \in Items, NEW v \in {"over"} \cup TearingDown,
         turn[x] \notin {"none", "running"}, turn' = [turn EXCEPT ![x] = v],
         session' \in {"up", "failing", "gone"},
         session' = "up" => /\ session = "up" /\ v = "over" /\ queue' = queue
                            /\ x \in read \cup stopped /\ (aborting' => aborting),
         queue' = queue \/ queue' = << >>,
         draining' \in Entries \cup {None}, halted' \in BOOLEAN, aborting' \in BOOLEAN,
         drainDue' \in BOOLEAN, failing' \in BOOLEAN,
         halted => halted', x \in InFlight \/ (aborting => aborting'),
         UNCHANGED <<agent, given, read, doomed, stopped, ahead, overlap, edits, stops>>
  PROVE  TurnsInv'
<1>0. /\ turn \in [Items -> {"none", "preparing", "running", "over"} \cup Settling \cup TearingDown]
      /\ agent \in Items \cup {None} /\ None \notin Items
      /\ InFlight \subseteq Items /\ doomed \subseteq Items /\ stopped \subseteq Items
  BY Turns DEF TurnsInv, TypeOK
<1>1. \A y \in Items : turn'[y] = IF y = x THEN v ELSE turn[y]
  BY <1>0
<1>2. v \notin {"none", "preparing", "running"} \cup Settling
  BY DEF TearingDown, Settling
<1>3. InFlight' = InFlight \ {x}
  BY <1>1, <1>2 DEF InFlight
<1>4. x \in given /\ x \notin Waiting
  BY DEF TurnsInv, Recorded, OnTheirWay
<1>5. Waiting' \subseteq Waiting /\ (queue' = queue => Waiting' = Waiting)
  <2>1. CASE queue' = queue
    BY <2>1 DEF Waiting
  <2>2. CASE queue' = << >>
    <3>1. DOMAIN queue' = {}
      BY <2>2
    <3> QED BY <2>2, <3>1 DEF Waiting
  <2> QED BY <2>1, <2>2
<1>6. TypeOK'
  <2>1. turn' \in [Items -> {"none", "preparing", "running", "over"} \cup Settling \cup TearingDown]
    BY <1>0
  <2>2. CASE queue' = queue
    BY <2>1, <2>2 DEF TurnsInv, TypeOK
  <2>3. CASE queue' = << >>
    <3>1. queue' \in Seq(Entries) /\ \A i, j \in DOMAIN queue' : i = j
      BY <2>3
    <3> QED BY <2>1, <3>1 DEF TurnsInv, TypeOK
  <2> QED BY <2>2, <2>3
<1>7. Recorded'
  BY <1>1, <1>4, <1>5 DEF TurnsInv, Recorded
<1>8. OnTheirWay'
  <2>1. \A y \in Waiting' : turn'[y] = "none" /\ y \notin read
    <3>1. \A y \in Waiting : y \in Items /\ turn[y] = "none" /\ y \notin read
      BY QueueUp
    <3> QED BY <1>1, <1>4, <1>5, <3>1
  <2>2. \A y \in doomed : y \notin Waiting' /\ turn'[y] = "none"
    BY <1>0, <1>1, <1>5 DEF TurnsInv, OnTheirWay
  <2>3. \A y \in stopped : turn'[y] # "none"
    BY <1>0, <1>1, <1>2 DEF TurnsInv, OnTheirWay
  <2>4. \A y \in Items : turn'[y] \in {"running"} \cup Settling => y \in read
    BY <1>1, <1>2 DEF TurnsInv, OnTheirWay
  <2> QED BY <2>1, <2>2, <2>3, <2>4 DEF OnTheirWay
<1>9. TornDown'
  BY <1>1 DEF TurnsInv, TornDown, TearingDown
<1>10. InOrder'
  <2>1. CASE queue' = queue
    BY <2>1 DEF TurnsInv, InOrder
  <2>2. CASE queue' = << >>
    <3>1. DOMAIN queue' = {}
      BY <2>2
    <3> QED BY <3>1 DEF TurnsInv, InOrder, Ordered
  <2> QED BY <2>1, <2>2
<1>11. Halting'
  <2>1. agent' # None => turn'[agent'] = "running"
    BY <1>0, <1>1 DEF TurnsInv, Halting
  <2>2. \A y \in Items : turn'[y] = "running" => agent' = y
    BY <1>1, <1>2 DEF TurnsInv, Halting
  <2>3. session' = "up" /\ aborting' => InFlight' \subseteq stopped'
    BY <1>3 DEF TurnsInv, Halting
  <2>4. ASSUME ~overlap'
        PROVE  /\ \A y, z \in InFlight' : y = z
               /\ \A y \in stopped' : /\ turn'[y] = "preparing" => aborting'
                                      /\ turn'[y] = "running" => halted'
    <3>1. /\ \A y, z \in InFlight : y = z
          /\ \A y \in stopped : /\ turn[y] = "preparing" => aborting
                                /\ turn[y] = "running" => halted
      BY <2>4 DEF TurnsInv, Halting
    <3>2. ASSUME NEW y \in stopped
          PROVE  (turn'[y] = "preparing" => aborting') /\ (turn'[y] = "running" => halted')
      <4>1. y \in Items /\ (turn'[y] \in {"preparing", "running"} => turn'[y] = turn[y] /\ y # x)
        BY <1>0, <1>1, <1>2
      <4>2. turn'[y] = "preparing" => x \notin InFlight
        BY <3>1, <4>1 DEF InFlight
      <4> QED BY <3>1, <4>1, <4>2
    <3> QED BY <1>3, <3>1, <3>2
  <2> QED BY <2>1, <2>2, <2>3, <2>4 DEF Halting
<1>12. NothingLost'
  <2> SUFFICES ASSUME session' = "up", NEW p \in given \cap Prompts
               PROVE  p \in Waiting' \cup read \cup doomed \cup stopped \/ turn'[p] = "preparing"
    BY DEF NothingLost
  <2>1. p \in Items
    BY DEF Items
  <2> QED BY <1>1, <1>5, <2>1 DEF TurnsInv, NothingLost
<1> QED BY <1>6, <1>7, <1>8, <1>9, <1>10, <1>11, <1>12 DEF TurnsInv

\* completeInteractiveTurn
LEMMA SettledKeeps ==
  ASSUME TurnsInv, NEW x \in Items, NEW result, Settled(x, result),
         turn[x] \in Settling \/ (turn[x] = "preparing" /\ aborting),
         halted' \in BOOLEAN, halted => halted',
         UNCHANGED <<agent, given, read, doomed, stopped, ahead, overlap, edits, stops>>
  PROVE  TurnsInv'
<1>1. /\ turn' = [turn EXCEPT ![x] = "over"] /\ aborting' = FALSE /\ session' = session
      /\ draining' = (IF Sent(x) THEN None ELSE draining)
      /\ failing' \in BOOLEAN /\ drainDue' \in BOOLEAN /\ queue' = queue
  BY Histories DEF Settled, AfterTurn
<1>2. x \in InFlight /\ turn[x] \notin {"none", "running"}
  BY DEF InFlight, Settling
<1>3. session = "up" => x \in read \cup stopped
  BY <1>2 DEF TurnsInv, OnTheirWay, Halting
<1>4. draining' \in Entries \cup {None} /\ session \in {"up", "failing", "gone"}
  BY <1>1, Turns DEF TurnsInv, TypeOK
<1> QED BY <1>1, <1>2, <1>3, <1>4, TurnLeaves

\* failSession
LEMMA FailKeeps ==
  ASSUME TurnsInv, NEW x \in Items, Fail(x),
         turn[x] \in {"preparing"} \cup Settling,
         halted' \in BOOLEAN, halted => halted',
         UNCHANGED <<agent, given, read, doomed, stopped, ahead, overlap, edits, stops>>
  PROVE  TurnsInv'
<1>1. /\ turn' = [turn EXCEPT ![x] = "failing"] /\ session' = "failing"
      /\ UNCHANGED <<queue, drainDue, aborting, draining, failing>>
  BY DEF Fail, queueVars
<1>2. turn[x] \notin {"none", "running"} /\ "failing" \in TearingDown
  BY DEF Settling, TearingDown
<1>3. /\ draining' \in Entries \cup {None} /\ aborting' \in BOOLEAN /\ drainDue' \in BOOLEAN
      /\ failing' \in BOOLEAN
  BY <1>1 DEF TurnsInv, TypeOK
<1> QED BY <1>1, <1>2, <1>3, TurnLeaves

\* The teardown.
LEMMA CutOffKeeps ==
  ASSUME TurnsInv, NEW x \in Items, CutOff(x)
  PROVE  TurnsInv'
<1>1. /\ turn[x] = "failing" /\ turn' = [turn EXCEPT ![x] = "closing"]
      /\ (aborting => aborting') /\ (halted => halted')
      /\ aborting' \in BOOLEAN /\ halted' \in BOOLEAN
      /\ UNCHANGED <<session, queue, drainDue, draining, failing>>
      /\ UNCHANGED <<agent, given, read, doomed, stopped, ahead, overlap, edits, stops>>
  BY Turns DEF CutOff, queueVars, historyVars
<1>2. session' \in {"failing", "gone"} /\ "closing" \in TearingDown
  BY <1>1 DEF TurnsInv, TypeOK, TornDown, TearingDown
<1>3. draining' \in Entries \cup {None} /\ drainDue' \in BOOLEAN /\ failing' \in BOOLEAN
  BY <1>1 DEF TurnsInv, TypeOK
<1> QED BY <1>1, <1>2, <1>3, TurnLeaves

LEMMA RemoveKeeps ==
  ASSUME TurnsInv, NEW x \in Items, Remove(x)
  PROVE  TurnsInv'
<1>1. /\ turn[x] = "closing" /\ turn' = [turn EXCEPT ![x] = "over"] /\ session' = "gone"
      /\ queue' = << >> /\ draining' = None /\ drainDue' = FALSE
      /\ aborting' = aborting /\ halted' = halted /\ failing' = failing
      /\ UNCHANGED <<agent, given, read, doomed, stopped, ahead, overlap, edits, stops>>
  BY DEF Remove, historyVars
<1>2. aborting' \in BOOLEAN /\ halted' \in BOOLEAN /\ failing' \in BOOLEAN
  BY <1>1 DEF TurnsInv, TypeOK
<1> QED BY <1>1, <1>2, TurnLeaves

LEMMA StepThrowsKeeps ==
  ASSUME TurnsInv, NEW x \in Items, StepThrows(x)
  PROVE  TurnsInv'
<1>1. /\ halted' = halted
      /\ turn[x] = "preparing" \/ turn[x] \in Settling
      /\ UNCHANGED <<agent, given, read, doomed, stopped, ahead, overlap, edits, stops>>
  BY DEF StepThrows
<1>2. halted' \in BOOLEAN
  BY <1>1, Turns
<1>3. CASE aborting
  <2>1. Settled(x, "aborted")
    BY <1>3 DEF StepThrows, Throws
  <2> QED BY <1>1, <1>2, <1>3, <2>1, SettledKeeps
<1>4. CASE ~aborting
  <2>1. Fail(x)
    BY <1>4 DEF StepThrows, Throws
  <2> QED BY <1>1, <1>2, <2>1, FailKeeps
<1> QED BY <1>3, <1>4

LEMMA SettleKeeps ==
  ASSUME TurnsInv, NEW x \in Items, Settle(x)
  PROVE  TurnsInv'
<1>1. halted' \in BOOLEAN /\ halted' = halted
  BY Turns DEF Settle
<1> QED BY <1>1, SettledKeeps DEF Settle

\* The agent begins to run the turn, or refuses a second run.
LEMMA BeginRunKeeps ==
  ASSUME TurnsInv, NEW x \in Items, BeginRun(x)
  PROVE  TurnsInv'
<1>0. /\ turn \in [Items -> {"none", "preparing", "running", "over"} \cup Settling \cup TearingDown]
      /\ agent \in Items \cup {None} /\ None \notin Items
      /\ draining \in Entries \cup {None} /\ None \notin Entries
      /\ {halted, aborting, overlap} \subseteq BOOLEAN
  BY Turns
<1>1. /\ turn[x] = "preparing"
      /\ UNCHANGED <<given, doomed, stopped, ahead, overlap, edits, stops>>
  BY DEF BeginRun
<1>2. x \in InFlight
  BY <1>1 DEF InFlight
<1>3. CASE CanStartRun
  <2>1. /\ turn' = [turn EXCEPT ![x] = "running"] /\ agent' = x /\ halted' = aborting
        /\ read' = read \cup {x} /\ agent = None
        /\ UNCHANGED <<session, queue, drainDue, aborting, draining, failing>>
    BY <1>3 DEF BeginRun, HaltedAtOnce, queueVars, CanStartRun
  <2>2. \A y \in Items : turn'[y] = IF y = x THEN "running" ELSE turn[y]
    BY <1>0, <2>1
  <2>3. InFlight' = InFlight
    BY <1>1, <2>2 DEF InFlight, Settling
  <2>4. Waiting' = Waiting
    BY <2>1 DEF Waiting
  <2>5. x \in given /\ x \notin Waiting
    BY <1>1, <1>2, FlightKnown
  <2>6. TypeOK'
    <3>1. turn' \in [Items -> {"none", "preparing", "running", "over"}
                              \cup Settling \cup TearingDown]
      BY <1>0, <2>1
    <3> QED BY <1>0, <1>1, <2>1, <3>1 DEF TurnsInv, TypeOK
  <2>7. Recorded'
    BY <1>1, <2>1, <2>2, <2>4, <2>5 DEF TurnsInv, Recorded
  <2>8. OnTheirWay'
    <3>1. \A y \in Waiting : turn'[y] = "none" /\ y \notin read'
      BY <1>1, <2>1, <2>2, <2>5, QueueUp
    <3>2. \A y \in doomed : y \notin Waiting /\ turn'[y] = "none"
      <4>1. doomed \subseteq Items
        BY DEF TurnsInv, TypeOK
      <4> QED BY <1>1, <2>2, <4>1 DEF TurnsInv, OnTheirWay
    <3>3. \A y \in stopped : turn'[y] # "none"
      <4>1. stopped \subseteq Items
        BY DEF TurnsInv, TypeOK
      <4> QED BY <2>2, <4>1 DEF TurnsInv, OnTheirWay
    <3>4. \A y \in Items : turn'[y] \in {"running"} \cup Settling => y \in read'
      BY <2>1, <2>2 DEF TurnsInv, OnTheirWay
    <3> QED BY <1>1, <2>4, <3>1, <3>2, <3>3, <3>4 DEF OnTheirWay
  <2>9. TornDown'
    BY <2>1, <2>2 DEF TurnsInv, TornDown, TearingDown
  <2>10. InOrder'
    BY <1>1, <2>1 DEF TurnsInv, InOrder
  <2>11. Halting'
    <3>1. agent' # None => turn'[agent'] = "running"
      BY <2>1, <2>2
    <3>2. \A y \in Items : turn'[y] = "running" => agent' = y
      BY <1>0, <2>1, <2>2 DEF TurnsInv, Halting
    <3>3. session' = "up" /\ aborting' => InFlight' \subseteq stopped'
      BY <1>1, <2>1, <2>3 DEF TurnsInv, Halting
    <3>4. ASSUME ~overlap'
          PROVE  /\ \A y, z \in InFlight' : y = z
                 /\ \A y \in stopped' : /\ turn'[y] = "preparing" => aborting'
                                        /\ turn'[y] = "running" => halted'
      <4>1. stopped \subseteq Items
        BY DEF TurnsInv, TypeOK
      <4>2. \A y \in stopped : turn[y] = "preparing" => aborting
        BY <1>1, <3>4 DEF TurnsInv, Halting
      <4>3. \A y, z \in InFlight : y = z
        BY <1>1, <3>4 DEF TurnsInv, Halting
      <4>4. ASSUME NEW y \in stopped, turn'[y] = "running" PROVE halted'
        <5>1. y = x
          BY <2>1, <3>2, <4>1, <4>4
        <5> QED BY <1>1, <2>1, <4>2, <4>4, <5>1
      <4>5. \A y \in stopped : turn'[y] = "preparing" => aborting'
        BY <2>1, <2>2, <4>1, <4>2
      <4> QED BY <1>1, <2>3, <4>3, <4>4, <4>5
    <3> QED BY <3>1, <3>2, <3>3, <3>4 DEF Halting
  <2>12. NothingLost'
    <3>1. Prompts \subseteq Items
      BY DEF Items
    <3> QED BY <1>1, <2>1, <2>2, <2>4, <3>1 DEF TurnsInv, NothingLost
  <2> QED BY <2>6, <2>7, <2>8, <2>9, <2>10, <2>11, <2>12 DEF TurnsInv
<1>4. CASE ~CanStartRun
  <2>1. halted' = (halted \/ aborting) /\ Throws(x) /\ UNCHANGED <<agent, read>>
    BY <1>4 DEF BeginRun
  <2>2. halted' \in BOOLEAN /\ (halted => halted')
    BY <1>0, <2>1
  <2>3. CASE aborting
    <3>1. Settled(x, "aborted")
      BY <2>1, <2>3 DEF Throws
    <3> QED BY <1>1, <2>1, <2>2, <2>3, <3>1, SettledKeeps
  <2>4. CASE ~aborting
    <3>1. Fail(x)
      BY <2>1, <2>4 DEF Throws
    <3> QED BY <1>1, <2>1, <2>2, <3>1, FailKeeps
  <2> QED BY <2>3, <2>4
<1> QED BY <1>3, <1>4

LEMMA AgentEndsKeeps ==
  ASSUME TurnsInv, NEW x \in Items, AgentEnds(x)
  PROVE  TurnsInv'
<1>0. /\ turn \in [Items -> {"none", "preparing", "running", "over"} \cup Settling \cup TearingDown]
      /\ agent \in Items \cup {None} /\ None \notin Items
  BY Turns
<1>1. /\ agent = x /\ agent' = None /\ halted' = FALSE
      /\ UNCHANGED <<session, queue, drainDue, aborting, draining, given, read, doomed, stopped,
                     ahead, failing, overlap, edits, stops>>
  BY DEF AgentEnds, queueVars, historyVars
<1>2. PICK finish \in Settling : turn' = [turn EXCEPT ![x] = finish]
  BY DEF AgentEnds, Settling
<1>3. turn[x] = "running"
  BY <1>0, <1>1 DEF TurnsInv, Halting
<1>4. \A y \in Items : turn'[y] = IF y = x THEN finish ELSE turn[y]
  BY <1>0, <1>2
<1>5. InFlight' = InFlight
  BY <1>3, <1>4 DEF InFlight
<1>6. Waiting' = Waiting
  BY <1>1 DEF Waiting
<1>7. finish \notin {"none", "preparing", "running", "over"}
  BY DEF Settling
<1>8. x \in given /\ x \notin Waiting /\ x \in read
  <2>1. x \in InFlight
    BY <1>3 DEF InFlight
  <2> QED BY <1>1, <1>3, <2>1, FlightKnown DEF TurnsInv, OnTheirWay
<1>9. TypeOK'
  <2>1. turn' \in [Items -> {"none", "preparing", "running", "over"} \cup Settling \cup TearingDown]
    BY <1>0, <1>2
  <2> QED BY <1>1, <2>1 DEF TurnsInv, TypeOK
<1>10. Recorded'
  BY <1>1, <1>4, <1>6, <1>8 DEF TurnsInv, Recorded
<1>11. OnTheirWay'
  <2>1. \A y \in Waiting : turn'[y] = "none" /\ y \notin read
    BY <1>1, <1>4, <1>8, QueueUp
  <2>2. \A y \in doomed : y \notin Waiting /\ turn'[y] = "none"
    <3>1. doomed \subseteq Items
      BY DEF TurnsInv, TypeOK
    <3> QED BY <1>3, <1>4, <3>1 DEF TurnsInv, OnTheirWay
  <2>3. \A y \in stopped : turn'[y] # "none"
    <3>1. stopped \subseteq Items
      BY DEF TurnsInv, TypeOK
    <3> QED BY <1>4, <1>7, <3>1 DEF TurnsInv, OnTheirWay
  <2>4. \A y \in Items : turn'[y] \in {"running"} \cup Settling => y \in read
    BY <1>4, <1>8 DEF TurnsInv, OnTheirWay
  <2> QED BY <1>1, <1>6, <2>1, <2>2, <2>3, <2>4 DEF OnTheirWay
<1>12. TornDown'
  BY <1>1, <1>4 DEF TurnsInv, TornDown, TearingDown, Settling
<1>13. InOrder'
  BY <1>1 DEF TurnsInv, InOrder
<1>14. Halting'
  <2>1. \A y \in Items : turn'[y] # "running"
    BY <1>1, <1>4, <1>7 DEF TurnsInv, Halting
  <2>2. session' = "up" /\ aborting' => InFlight' \subseteq stopped'
    BY <1>1, <1>5 DEF TurnsInv, Halting
  <2>3. ASSUME ~overlap'
        PROVE  /\ \A y, z \in InFlight' : y = z
               /\ \A y \in stopped' : /\ turn'[y] = "preparing" => aborting'
                                      /\ turn'[y] = "running" => halted'
    <3>1. stopped \subseteq Items
      BY DEF TurnsInv, TypeOK
    <3>2. \A y, z \in InFlight : y = z
      BY <1>1, <2>3 DEF TurnsInv, Halting
    <3>3. \A y \in stopped : turn[y] = "preparing" => aborting
      BY <1>1, <2>3 DEF TurnsInv, Halting
    <3> QED BY <1>1, <1>4, <1>5, <1>7, <2>1, <3>1, <3>2, <3>3
  <2> QED BY <1>1, <2>1, <2>2, <2>3 DEF Halting
<1>15. NothingLost'
  <2>1. Prompts \subseteq Items
    BY DEF Items
  <2> QED BY <1>1, <1>4, <1>6, <1>8, <2>1 DEF TurnsInv, NothingLost
<1> QED BY <1>9, <1>10, <1>11, <1>12, <1>13, <1>14, <1>15 DEF TurnsInv

\* Stop: what it drops is removed, and every turn in flight is stopped.
LEMMA StopKeeps ==
  ASSUME TurnsInv, Stop
  PROVE  TurnsInv'
<1>0. /\ turn \in [Items -> {"none", "preparing", "running", "over"} \cup Settling \cup TearingDown]
      /\ agent \in Items \cup {None} /\ None \notin Items
      /\ InFlight \subseteq Items
  BY Turns
<1>1. /\ stops < MaxStops /\ stops' = stops + 1 /\ aborting' = TRUE
      /\ halted' = (agent # None) /\ queue' = Without(queue, Dropped)
      /\ doomed' = doomed \cup Dropped /\ stopped' = stopped \cup InFlight
      /\ UNCHANGED <<session, drainDue, turn, agent, draining, given, read, ahead, failing,
                     overlap, edits>>
  BY DEF Stop, CanStartRun, Dropped
<1>2. /\ Neat(queue, ahead) /\ Waiting = Ids(queue) /\ Waiting \subseteq Items
      /\ \A x \in Waiting : turn[x] = "none" /\ x \notin read \cup doomed /\ x \in given
  BY <1>1, QueueUp
<1>3. Neat(queue', ahead') /\ Waiting' = Waiting \ Dropped
  <2>1. Waiting' = Ids(queue')
    BY DEF Waiting, Ids
  <2>2. PICK S : S = Dropped
    OBVIOUS
  <2> QED BY <1>1, <1>2, <2>1, <2>2, WithoutNeat
<1>4. /\ queue' \in Seq(Entries) /\ Ordered(queue', ahead')
      /\ \A i, j \in DOMAIN queue' : queue'[i].id = queue'[j].id => i = j
  BY <1>3, QueueFacts
<1>5. Dropped \subseteq Waiting
  BY DEF Dropped
<1>6. InFlight' = InFlight
  BY <1>1 DEF InFlight
<1>7. TypeOK'
  <2>1. stops' \in 0 .. MaxStops
    BY <1>1, ConstantsAssumption DEF TurnsInv, TypeOK
  <2> QED BY <1>0, <1>1, <1>2, <1>4, <1>5, <2>1 DEF TurnsInv, TypeOK
<1>8. \A x \in InFlight : x \in given
  BY FlightKnown
<1>9. Recorded'
  BY <1>1, <1>2, <1>3, <1>5, <1>8 DEF TurnsInv, Recorded
<1>10. OnTheirWay'
  <2>1. \A x \in doomed' : x \notin Waiting' /\ turn'[x] = "none"
    BY <1>1, <1>2, <1>3, <1>5 DEF TurnsInv, OnTheirWay
  <2>2. \A x \in stopped' : turn'[x] # "none"
    BY <1>1 DEF TurnsInv, OnTheirWay, InFlight, Settling
  <2>3. \A x \in Items : turn'[x] \in {"running"} \cup Settling => x \in read'
    BY <1>1 DEF TurnsInv, OnTheirWay
  <2>4. \A x \in Waiting' : turn'[x] = "none" /\ x \notin read'
    BY <1>1, <1>2, <1>3
  <2> QED BY <2>1, <2>2, <2>3, <2>4 DEF OnTheirWay
<1>11. TornDown'
  BY <1>1 DEF TurnsInv, TornDown
<1>12. InOrder'
  BY <1>1, <1>4 DEF TurnsInv, InOrder
<1>13. Halting'
  <2>1. /\ agent # None => turn[agent] = "running"
        /\ \A x \in Items : turn[x] = "running" => agent = x
        /\ ~overlap => \A x, y \in InFlight : x = y
    BY DEF TurnsInv, Halting
  <2>2. \A x \in stopped' : x \in Items
    BY <1>0, <1>1 DEF TurnsInv, TypeOK
  <2>3. \A x \in stopped' : turn[x] = "running" => halted'
    BY <1>0, <1>1, <2>1, <2>2
  <2>4. InFlight' \subseteq stopped'
    BY <1>1, <1>6
  <2> QED BY <1>1, <1>6, <2>1, <2>3, <2>4 DEF Halting
<1>14. NothingLost'
  BY <1>1, <1>3, <1>5 DEF TurnsInv, NothingLost
<1> QED BY <1>7, <1>9, <1>10, <1>11, <1>12, <1>13, <1>14 DEF TurnsInv

-----------------------------------------------------------------------------
(* The theorems.                                                           *)

LEMMA InitTurns == ASSUME Init PROVE TurnsInv
<1>1. /\ session = "up" /\ queue = << >> /\ turn = [x \in Items |-> "none"]
      /\ agent = None /\ draining = None
      /\ halted = FALSE /\ aborting = FALSE /\ drainDue = FALSE
      /\ given = {} /\ read = {} /\ doomed = {} /\ stopped = {}
      /\ ahead = {}
      /\ failing = FALSE /\ overlap = FALSE /\ edits = 0 /\ stops = 0
  BY DEF Init
<1>2. queue \in Seq(Entries) /\ DOMAIN queue = {} /\ Waiting = {}
  BY <1>1 DEF Waiting
<1>3. InFlight = {} /\ \A x \in Items : turn[x] = "none"
  BY <1>1 DEF InFlight, Settling
<1>5. TypeOK
  <2>1. turn \in [Items -> {"none", "preparing", "running", "over"} \cup Settling \cup TearingDown]
    BY <1>1
  <2>2. ahead \in SUBSET (Prompts \X Prompts)
    BY <1>1
  <2>3. edits \in 0 .. MaxEdits /\ stops \in 0 .. MaxStops
    BY <1>1, ConstantsAssumption
  <2> QED BY <1>1, <1>2, <2>1, <2>2, <2>3 DEF TypeOK
<1>6. Recorded
  BY <1>1, <1>2, <1>3 DEF Recorded
<1>7. OnTheirWay
  BY <1>1, <1>2, <1>3 DEF OnTheirWay, Settling
<1>8. TornDown
  BY <1>3 DEF TornDown, TearingDown
<1>9. InOrder
  BY <1>1, <1>2 DEF InOrder, Ordered
<1>10. Halting
  BY <1>1, <1>3 DEF Halting
<1>11. NothingLost
  BY <1>1 DEF NothingLost
<1> QED BY <1>5, <1>6, <1>7, <1>8, <1>9, <1>10, <1>11 DEF TurnsInv

LEMMA StepTurns == ASSUME TurnsInv, [Next]_vars PROVE TurnsInv'
<1>1. ASSUME NEW p \in Prompts, Submit(p) PROVE TurnsInv'
  BY <1>1, SubmitKeeps
<1>2. ASSUME NEW p \in Prompts, SteerInSideTurn(p) PROVE TurnsInv'
  BY <1>2, SteerInSideTurnKeeps
<1>3. ASSUME NEW p \in Prompts, NEW d \in {"queue", "steer"}, SubmitAs(p, d) PROVE TurnsInv'
  BY <1>3, SubmitAsKeeps
<1>4. ASSUME NEW i, NEW d \in {"queue", "steer"}, Update(i, d) PROVE TurnsInv'
  BY <1>4, UpdateKeeps
<1>5. ASSUME NEW i, Delete(i) PROVE TurnsInv'
  BY <1>5, DeleteKeeps
<1>6. CASE Stop
  BY <1>6, StopKeeps
<1>7. ASSUME NEW n \in Notes, NEW kind \in Kinds, Note(n, kind) PROVE TurnsInv'
  BY <1>7, NoteKeeps
<1>8. CASE Drain
  BY <1>8, DrainKeeps
<1>9. ASSUME NEW x \in Items,
             \/ BeginRun(x) \/ StepThrows(x) \/ AgentEnds(x) \/ Settle(x) \/ CutOff(x) \/ Remove(x)
      PROVE  TurnsInv'
  BY <1>9, BeginRunKeeps, StepThrowsKeeps, AgentEndsKeeps, SettleKeeps, CutOffKeeps, RemoveKeeps
<1>10. CASE ConsumeSteer
  BY <1>10, ConsumeSteerKeeps
<1>11. CASE UNCHANGED vars
  <2>2. Waiting' = Waiting /\ InFlight' = InFlight
    BY <1>11 DEF vars, Waiting, InFlight
  <2>3. /\ TypeOK' /\ Recorded' /\ OnTheirWay' /\ TornDown' /\ InOrder' /\ Halting'
        /\ NothingLost'
    BY <1>11, <2>2
    DEF TurnsInv, vars, TypeOK, Recorded, OnTheirWay, TornDown, InOrder, Ordered, Halting,
        NothingLost
  <2> QED BY <2>3 DEF TurnsInv
<1> QED BY <1>1, <1>2, <1>3, <1>4, <1>5, <1>6, <1>7, <1>8, <1>9, <1>10, <1>11
    DEF Next, UserStep, TurnStep

\* The invariant holds always.
THEOREM TurnsInvariant == Spec => []TurnsInv
<1>1. Init => TurnsInv
  BY InitTurns
<1>2. TurnsInv /\ [Next]_vars => TurnsInv'
  BY StepTurns
<1> QED BY <1>1, <1>2, PTL DEF Spec

\* Whatever is submitted, steered, edited, merged, deleted, drained or stopped
\* (controller.enqueue, pendingPrompts.update and delete, drain, abort), as long as no turn has
\* failed the session no prompt is lost: it waits, its turn is in preparation, the model has
\* it, or its user removed it or stopped its turn.  What waits when failSession takes the
\* session from the host is lost with it.
THEOREM NoPromptIsLost == Spec => []NothingLost
BY TurnsInvariant, PTL DEF TurnsInv

\* What the service's queue holds is consistent: nothing is in it twice, nothing that was
\* sent or removed, and steers are in front.
THEOREM QueueIsConsistent == Spec => []QueueInv
<1>1. TurnsInv => QueueInv
  <2> SUFFICES ASSUME TurnsInv PROVE QueueInv
    OBVIOUS
  <2>1. TypeOK /\ NothingTwice
    BY DEF TurnsInv, OnTheirWay, NothingTwice
  <2>2. RemovedStaysRemoved
    BY DEF TurnsInv, OnTheirWay, RemovedStaysRemoved
  <2>3. SteersFirst
    BY DEF TurnsInv, InOrder, Ordered, SteersFirst
  <2> QED BY <2>1, <2>2, <2>3 DEF QueueInv
<1> QED BY <1>1, TurnsInvariant, PTL

\* A turn that was in flight at a Stop is halted when it runs, also if its run had not
\* begun (executeAgentTurn re-issues the abort), unless turns overlap.
THEOREM StopHalts == Spec => []StoppedTurnIsHalted
<1>1. TurnsInv => StoppedTurnIsHalted
  BY DEF TurnsInv, Halting, StoppedTurnIsHalted
<1> QED BY <1>1, TurnsInvariant, PTL

\* drain sends the queued prompts in the order in which they joined the queue.
THEOREM PromptsStartInTurn == Spec => InTurn
<1> DEFINE Step ==
      /\ draining' \notin {draining, None}
      /\ draining'.kind = "prompt" /\ draining'.delivery = "queue"
      => \A i \in DOMAIN queue : queue[i].kind = "prompt" /\ queue[i].delivery = "queue"
           => <<queue[i].id, draining'.id>> \notin ahead
<1>1. TurnsInv /\ [Next]_vars => Step
  <2> SUFFICES ASSUME TurnsInv, [Next]_vars, draining' \notin {draining, None},
                      draining'.kind = "prompt", draining'.delivery = "queue",
                      NEW j \in DOMAIN queue, queue[j].kind = "prompt", queue[j].delivery = "queue"
               PROVE  <<queue[j].id, draining'.id>> \notin ahead
    OBVIOUS
  <2>1. Drain
    BY DEF Next, UserStep, TurnStep, Submit, SubmitAs, SteerInSideTurn, Update, Delete, Note, Stop,
           ConsumeSteer, BeginRun, StepThrows, AgentEnds, Settle, Throws, Settled, AfterTurn, Fail,
           CutOff, Remove, vars
  <2>2. PICK i \in DOMAIN queue : NextEntry(i) /\ draining' = queue[i]
    BY <2>1 DEF Drain
  <2>3. Ordered(queue, ahead) /\ queue \in Seq(Entries)
    BY <2>1 DEF Drain, TurnsInv, InOrder, TypeOK
  <2>4. DOMAIN queue = 1 .. Len(queue) /\ Len(queue) \in Nat
    BY <2>3
  <2>5. j \notin 1 .. (i - 1)
    <3>1. queue[j].id \notin Notes
      BY <2>3, EntryParts
    <3> QED BY <2>2, <3>1 DEF NextEntry
  <2>6. CASE i < j
    BY <2>2, <2>3, <2>6 DEF Ordered
  <2>7. CASE i = j
    <3>1. queue[i].id \in Prompts
      BY <2>2, <2>3, EntryParts
    <3> QED BY <2>2, <2>7, <3>1 DEF TurnsInv, InOrder
  <2> QED BY <2>4, <2>5, <2>6, <2>7
<1> QED BY <1>1, TurnsInvariant, PTL DEF InTurn, Spec

=============================================================================
