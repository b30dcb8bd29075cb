--------------------------- MODULE HubEventsProofs ---------------------------
(***************************************************************************)
(* Proofs about HubEvents, for every number of sessions, keys, sockets and *)
(* events: what the client's listeners are called with is in order, new to *)
(* them and without gaps.                                                  *)
(*                                                                         *)
(* The invariant (EventsInv, below) has two layers for each key.  KeyBase: *)
(* what a subscription will send is past all that was sent, so nothing is  *)
(* late or twice.  KeyGap: up to there nothing was left out, the buffer of *)
(* a replay holds all that was published meanwhile, and the pages left are *)
(* enough for the rows before it.  The second layer needs a log that the   *)
(* pages can cover, the first does not: enough says which are meant.       *)
(***************************************************************************)
EXTENDS HubEvents, FiniteSetTheorems, WellFoundedInduction, TLAPS

-----------------------------------------------------------------------------
(* Sets of numbers, and sequences.                                         *)

\* How many elements of K there are up to i.
Rank(K, i) == Cardinality({j \in K : j <= i})

\* Ranks are the positions 1 .. Cardinality(K), in the order of K.
LEMMA Ranks ==
  ASSUME NEW n \in Nat, NEW K \in SUBSET (1 .. n)
  PROVE  /\ Cardinality(K) \in Nat
         /\ \A i \in K : Rank(K, i) \in 1 .. Cardinality(K)
         /\ \A i, j \in K : i < j => Rank(K, i) < Rank(K, j)
         /\ \A k \in 1 .. Cardinality(K) : \E i \in K : Rank(K, i) = k
<1>1. IsFiniteSet(K) /\ Cardinality(K) \in Nat
  <2>1. IsFiniteSet(1 .. n)
    BY FS_Interval
  <2> QED BY <2>1, FS_Subset, FS_CardinalityType
<1>0. \A i \in K : i \in Nat
  OBVIOUS
<1>2. ASSUME NEW i \in K
      PROVE  /\ IsFiniteSet({j \in K : j <= i})
             /\ Rank(K, i) \in 1 .. Cardinality(K)
  <2> DEFINE A == {j \in K : j <= i}
  <2>1. A \in SUBSET K /\ i \in A
    BY <1>0
  <2>2. IsFiniteSet(A) /\ Cardinality(A) \in Nat /\ Cardinality(A) <= Cardinality(K)
    BY <1>1, <2>1, FS_Subset, FS_CardinalityType
  <2>3. Cardinality(A) # 0
    BY <2>1, <2>2, FS_EmptySet
  <2> QED BY <1>1, <2>2, <2>3 DEF Rank
<1>3. ASSUME NEW i \in K, NEW j \in K, i < j PROVE Rank(K, i) < Rank(K, j)
  <2> DEFINE A == {x \in K : x <= i}
             B == {x \in K : x <= j}
  <2>0. i \in Nat /\ j \in Nat /\ \A x \in K : x \in Nat
    BY <1>0
  <2>1. A \in SUBSET B /\ j \in B /\ j \notin A
    <3>1. \A x \in K : x <= i => x <= j
      BY <1>3, <2>0
    <3>2. ~(j <= i) /\ j <= j
      BY <1>3, <2>0
    <3> QED BY <3>1, <3>2
  <2>2. IsFiniteSet(B) /\ Rank(K, i) \in Nat /\ Rank(K, j) \in Nat
    <3>1. B \in SUBSET K
      OBVIOUS
    <3>2. IsFiniteSet(B)
      BY <1>1, <3>1, FS_Subset
    <3>3. Rank(K, i) \in 1 .. Cardinality(K) /\ Rank(K, j) \in 1 .. Cardinality(K)
      BY <1>2
    <3> HIDE DEF B
    <3> QED BY <1>1, <3>2, <3>3
  <2>3. Cardinality(A) <= Cardinality(B) /\ Cardinality(A) # Cardinality(B)
    BY <2>1, <2>2, FS_Subset
  <2> QED BY <2>2, <2>3 DEF Rank
<1>4. ASSUME NEW k \in 1 .. Cardinality(K), \A i \in K : Rank(K, i) # k PROVE FALSE
  <2> DEFINE T == (1 .. Cardinality(K)) \ {k}
             f == [i \in K |-> Rank(K, i)]
  <2>1. f \in [K -> T]
    BY <1>2, <1>4
  <2>2. IsFiniteSet(1 .. Cardinality(K)) /\ Cardinality(1 .. Cardinality(K)) = Cardinality(K)
    BY <1>1, FS_Interval
  <2>3. IsFiniteSet(T) /\ Cardinality(T) < Cardinality(K)
    <3>1. PICK c : c = Cardinality(K)
      OBVIOUS
    <3>2. PICK I : I = 1 .. c
      OBVIOUS
    <3>3. c \in Nat /\ k \in I /\ T = I \ {k} /\ IsFiniteSet(I) /\ Cardinality(I) = c
      BY <1>1, <2>2, <3>1, <3>2
    <3> HIDE DEF T
    <3>4. IsFiniteSet(I \ {k}) /\ Cardinality(I \ {k}) = c - 1
      BY <3>3, FS_RemoveElement
    <3> QED BY ONLY <3>1, <3>3, <3>4
  <2> HIDE DEF T, f
  <2>4. PICK x \in K, y \in K : x # y /\ f[x] = f[y]
    BY <1>1, <2>1, <2>3, FS_PigeonHole
  <2>5. Rank(K, x) = Rank(K, y) /\ Rank(K, x) \in Nat /\ x \in Nat /\ y \in Nat
    <3>1. f[x] = Rank(K, x) /\ f[y] = Rank(K, y)
      BY <2>4 DEF f
    <3>2. Rank(K, x) \in 1 .. Cardinality(K)
      BY <1>2, <2>4
    <3>3. x \in Nat /\ y \in Nat
      BY <1>0, <2>4
    <3> HIDE DEF f
    <3>4. Rank(K, x) = Rank(K, y)
      BY <2>4, <3>1
    <3>5. Rank(K, x) \in Nat
      BY <1>1, <3>2
    <3> QED BY <3>3, <3>4, <3>5
  <2>6. x < y \/ y < x
    BY <2>4, <2>5
  <2> QED BY <1>3, <2>5, <2>6
<1> QED BY <1>1, <1>2, <1>3, <1>4

\* Sorted enumerates its set in increasing order.
LEMMA SortedIs ==
  ASSUME NEW n \in Nat, NEW K \in SUBSET (1 .. n)
  PROVE  /\ Cardinality(K) \in Nat
         /\ Sorted(K) \in [1 .. Cardinality(K) -> K]
         /\ \A i, j \in 1 .. Cardinality(K) : i < j => Sorted(K)[i] < Sorted(K)[j]
         /\ \A e \in K : \E i \in 1 .. Cardinality(K) : Sorted(K)[i] = e
<1>1. /\ Cardinality(K) \in Nat
      /\ \A e \in K : Rank(K, e) \in 1 .. Cardinality(K)
      /\ \A d, e \in K : d < e => Rank(K, d) < Rank(K, e)
      /\ \A j \in 1 .. Cardinality(K) : \E e \in K : Rank(K, e) = j
  BY Ranks
<1>2. PICK c \in Nat : c = Cardinality(K)
  BY <1>1
<1>3. PICK s : s = Sorted(K)
  OBVIOUS
<1>4. s = [j \in 1 .. c |-> CHOOSE e \in K : Rank(K, e) = j]
  BY <1>2, <1>3 DEF Sorted, Rank
<1>5. \A j \in 1 .. c : s[j] \in K /\ Rank(K, s[j]) = j
  <2> SUFFICES ASSUME NEW j \in 1 .. c PROVE s[j] \in K /\ Rank(K, s[j]) = j
    OBVIOUS
  <2>1. \E e \in K : Rank(K, e) = j
    BY <1>1, <1>2
  <2>2. s[j] = CHOOSE e \in K : Rank(K, e) = j
    BY <1>4
  <2> QED BY <2>1, <2>2
<1>6. \A e \in K : e \in Nat
  OBVIOUS
<1>7. ASSUME NEW d \in K, NEW e \in K, Rank(K, d) < Rank(K, e) PROVE d < e
  <2>1. Rank(K, d) \in Nat /\ Rank(K, e) \in Nat
    BY <1>1, <1>2
  <2>2. ~(Rank(K, e) < Rank(K, d)) /\ Rank(K, d) # Rank(K, e)
    BY <1>7, <2>1
  <2>3. ~(e < d) /\ d # e
    BY <1>1, <2>2
  <2> QED BY <1>6, <2>3
<1>8. ASSUME NEW d \in K, NEW e \in K, Rank(K, d) = Rank(K, e) PROVE d = e
  <2>1. Rank(K, d) \in Nat /\ Rank(K, e) \in Nat
    BY <1>1, <1>2
  <2>2. ~(Rank(K, e) < Rank(K, d)) /\ ~(Rank(K, d) < Rank(K, e))
    BY <1>8, <2>1
  <2> QED BY <1>1, <1>6, <2>2
<1>9. s \in [1 .. c -> K]
  BY <1>4, <1>5
<1>10. \A i, j \in 1 .. c : i < j => s[i] < s[j]
  <2> SUFFICES ASSUME NEW i \in 1 .. c, NEW j \in 1 .. c, i < j PROVE s[i] < s[j]
    OBVIOUS
  <2>1. s[i] \in K /\ s[j] \in K /\ Rank(K, s[i]) = i /\ Rank(K, s[j]) = j
    BY <1>5
  <2> QED BY <1>7, <2>1
<1>11. ASSUME NEW e \in K PROVE \E i \in 1 .. c : s[i] = e
  <2>1. PICK i \in 1 .. c : i = Rank(K, e)
    BY <1>1, <1>2
  <2> QED BY <1>5, <1>8, <2>1
<1> QED BY <1>2, <1>3, <1>9, <1>10, <1>11

\* At takes the elements at the positions K, in their order.
LEMMA AtIs ==
  ASSUME NEW E, NEW q \in Seq(E), NEW K \in SUBSET (DOMAIN q), NEW a, a = At(q, K)
  PROVE  /\ a \in Seq(E) /\ DOMAIN a = 1 .. Cardinality(K)
         /\ \A j \in DOMAIN a : a[j] = q[Sorted(K)[j]]
<1>1. PICK n \in Nat : n = Len(q)
  OBVIOUS
<1>2. DOMAIN q = 1 .. n /\ K \in SUBSET (1 .. n)
  BY <1>1
<1>3. PICK h : h = Sorted(K)
  OBVIOUS
<1>4. PICK c : c = Cardinality(K)
  OBVIOUS
<1>5. c \in Nat /\ h \in [1 .. c -> K]
  BY <1>2, <1>3, <1>4, SortedIs
<1>6. a = [j \in 1 .. c |-> q[h[j]]]
  <2>1. a = [j \in 1 .. c |-> q[CHOOSE i \in K : Cardinality({x \in K : x <= i}) = j]]
    BY <1>4 DEF At
  <2>2. h = [j \in 1 .. c |-> CHOOSE i \in K : Cardinality({x \in K : x <= i}) = j]
    BY <1>3, <1>4 DEF Sorted
  <2> QED BY <2>1, <2>2
<1>7. \A j \in 1 .. c : q[h[j]] \in E
  BY <1>2, <1>5
<1>8. a \in [1 .. c -> E]
  BY <1>6, <1>7
<1>9. a \in Seq(E) /\ DOMAIN a = 1 .. c
  BY <1>5, <1>8
<1>10. \A j \in 1 .. c : a[j] = q[h[j]]
  BY <1>6
<1> QED BY ONLY <1>3, <1>4, <1>9, <1>10

\* Max of a set of numbers is its largest: of the sets of numbers above each, one is smallest.
LEMMA MaxIs ==
  ASSUME NEW n \in Nat, NEW S \in SUBSET (0 .. n), S # {}
  PROVE  Max(S) \in S /\ \A x \in S : x <= Max(S)
<1> DEFINE Above(x) == {y \in S : x < y}
           Aboves == {Above(x) : x \in S}
           R == StrictSubsetOrdering(0 .. n)
<1>1. \A x \in S : x \in Nat
  OBVIOUS
<1>2. IsWellFoundedOn(R, SUBSET (0 .. n))
  <2>1. IsFiniteSet(0 .. n)
    BY FS_Interval
  <2> QED BY <2>1, FS_StrictSubsetOrderingWellFounded, FS_FiniteSubsetsOfFinite
<1>3. Aboves \subseteq SUBSET (0 .. n) /\ Aboves # {}
  <2>1. \A x \in S : Above(x) \in Aboves /\ Above(x) \subseteq 0 .. n
    OBVIOUS
  <2>2. PICK x \in S : TRUE
    OBVIOUS
  <2> HIDE DEF Above
  <2> QED BY <2>1, <2>2
<1>4. PICK A \in Aboves : \A B \in Aboves : ~(<<B, A>> \in R)
  <2> HIDE DEF Aboves, R
  <2> QED BY <1>2, <1>3, WFMin
<1>5. PICK m \in S : A = Above(m)
  BY <1>4
<1>6. ASSUME NEW x \in S, m < x PROVE FALSE
  <2>1. \A y \in S : x < y => m < y
    BY <1>1, <1>6
  <2>2. x \in Above(m) /\ ~(x < x)
    BY <1>1, <1>6
  <2>3. Above(x) \subseteq Above(m) /\ x \notin Above(x)
    BY <2>1, <2>2
  <2>4. Above(x) \subseteq 0 .. n /\ Above(m) \subseteq 0 .. n
    OBVIOUS
  <2>5. <<Above(x), Above(m)>> \in R
    BY <2>2, <2>3, <2>4 DEF StrictSubsetOrdering
  <2>6. Above(x) \in Aboves
    OBVIOUS
  <2> QED BY <1>4, <1>5, <2>5, <2>6
<1>7. \A x \in S : m >= x
  BY <1>1, <1>6
<1>8. Max(S) \in S /\ \A x \in S : Max(S) >= x
  <2>1. \E m2 \in S : \A x \in S : m2 >= x
    BY <1>7
  <2> QED BY <2>1 DEF Max
<1> QED BY <1>1, <1>8

-----------------------------------------------------------------------------
(* Wires: sequences of frames.                                             *)

EventsTo(n) == [kind : {"event"}, id : 1 .. n, sequence : 0 .. n]
FramesTo(n) == EventsTo(n) \cup [kind : {"reply"}]

\* An event carries its number or, if it is an approval shown again, none.
Proper(f) == f.kind = "event" => f.sequence \in {0, f.id}
Wires(n) == {w \in Seq(FramesTo(n)) : \A i \in DOMAIN w : Proper(w[i])}

\* Frame f is an event that the listeners of key k are called with.
Of(k, ev, f) == f.kind = "event" /\ Covers(k, ev[f.id].session)

\* The events of key k on a wire, and the numbers they carry.
IdsOn(k, ev, w) == {w[i].id : i \in {i \in DOMAIN w : Of(k, ev, w[i])}}
NumsOn(k, ev, w) == {w[i].sequence : i \in {i \in DOMAIN w : Of(k, ev, w[i])}} \ {0}

\* No event twice, and the numbers increase.
Tidy(k, ev, w) ==
  \A i, j \in DOMAIN w : i < j /\ Of(k, ev, w[i]) /\ Of(k, ev, w[j])
    => /\ w[i].id # w[j].id
       /\ w[i].sequence = 0 \/ w[j].sequence = 0 \/ w[i].sequence < w[j].sequence

\* The parts of a frame.
LEMMA FrameParts ==
  ASSUME NEW n \in Nat, NEW w \in Wires(n), NEW i \in DOMAIN w
  PROVE  /\ w[i].kind \in {"event", "reply"}
         /\ w[i].kind = "event" => /\ w[i].id \in 1 .. n /\ w[i].sequence \in {0, w[i].id}
                                   /\ w[i].sequence \in 0 .. n
<1>1. w[i] \in FramesTo(n) /\ Proper(w[i])
  BY DEF Wires
<1> QED BY <1>1 DEF FramesTo, EventsTo, Proper

\* What is on a wire are numbers of events.
LEMMA OnWireTypes ==
  ASSUME NEW n \in Nat, NEW w \in Wires(n), NEW k, NEW ev
  PROVE  IdsOn(k, ev, w) \in SUBSET (1 .. n) /\ NumsOn(k, ev, w) \in SUBSET IdsOn(k, ev, w)
<1>1. \A i \in DOMAIN w : w[i].kind = "event"
                            => w[i].id \in 1 .. n /\ w[i].sequence \in {0, w[i].id}
  BY FrameParts
<1> QED BY <1>1 DEF IdsOn, NumsOn, Of

\* The empty wire.
LEMMA EmptyWire ==
  ASSUME NEW k, NEW ev, NEW n
  PROVE  /\ << >> \in Wires(n) /\ Tidy(k, ev, << >>)
         /\ IdsOn(k, ev, << >>) = {} /\ NumsOn(k, ev, << >>) = {}
<1>1. << >> \in Wires(n)
  BY DEF Wires
<1>2. Tidy(k, ev, << >>)
  BY DEF Tidy
<1>3. IdsOn(k, ev, << >>) = {} /\ NumsOn(k, ev, << >>) = {}
  BY DEF IdsOn, NumsOn
<1> QED BY <1>1, <1>2, <1>3

\* Longer logs have more frames.
LEMMA WiresGrow ==
  ASSUME NEW m \in Nat, NEW n \in Nat, m <= n
  PROVE  EventsTo(m) \subseteq EventsTo(n) /\ FramesTo(m) \subseteq FramesTo(n)
         /\ Wires(m) \subseteq Wires(n)
<1>1. 1 .. m \subseteq 1 .. n /\ 0 .. m \subseteq 0 .. n
  OBVIOUS
<1>2. EventsTo(m) \subseteq EventsTo(n)
  BY <1>1 DEF EventsTo
<1>3. FramesTo(m) \subseteq FramesTo(n)
  BY <1>2 DEF FramesTo
<1>4. \A w : w \in Seq(FramesTo(m)) => w \in Seq(FramesTo(n))
  BY <1>3
<1>5. Wires(m) \subseteq Wires(n)
  BY <1>4 DEF Wires
<1> QED BY <1>2, <1>3, <1>5

\* What a wire carries for a key does not depend on later events.
LEMMA LaterEvents ==
  ASSUME NEW n \in Nat, NEW w \in Wires(n), NEW k, NEW ev, NEW ew,
         \A e \in 1 .. n : ew[e] = ev[e]
  PROVE  /\ IdsOn(k, ew, w) = IdsOn(k, ev, w) /\ NumsOn(k, ew, w) = NumsOn(k, ev, w)
         /\ Tidy(k, ew, w) <=> Tidy(k, ev, w)
<1>1. \A i \in DOMAIN w : Of(k, ew, w[i]) <=> Of(k, ev, w[i])
  <2> SUFFICES ASSUME NEW i \in DOMAIN w PROVE Of(k, ew, w[i]) <=> Of(k, ev, w[i])
    OBVIOUS
  <2>1. w[i].kind = "event" => w[i].id \in 1 .. n
    BY FrameParts
  <2> QED BY <2>1 DEF Of
<1>2. {i \in DOMAIN w : Of(k, ew, w[i])} = {i \in DOMAIN w : Of(k, ev, w[i])}
  BY <1>1
<1>3. Tidy(k, ew, w) <=> Tidy(k, ev, w)
  BY <1>1 DEF Tidy
<1> QED BY <1>2, <1>3 DEF IdsOn, NumsOn

\* The frames of two wires, one after the other.
LEMMA JoinedParts ==
  ASSUME NEW n \in Nat, NEW v \in Wires(n), NEW w \in Wires(n)
  PROVE  /\ v \o w \in Wires(n)
         /\ \A i \in DOMAIN v : i \in DOMAIN (v \o w) /\ (v \o w)[i] = v[i]
         /\ \A j \in DOMAIN w : Len(v) + j \in DOMAIN (v \o w) /\ (v \o w)[Len(v) + j] = w[j]
         /\ \A i \in DOMAIN (v \o w) : i \in DOMAIN v \/ \E j \in DOMAIN w : i = Len(v) + j
<1>1. v \in Seq(FramesTo(n)) /\ w \in Seq(FramesTo(n))
  BY DEF Wires
<1>2. PICK m \in Nat, l \in Nat : m = Len(v) /\ l = Len(w)
  BY <1>1
<1>3. PICK u : u = v \o w
  OBVIOUS
<1>4. u \in Seq(FramesTo(n)) /\ Len(u) = m + l
  BY <1>1, <1>2, <1>3
<1>5. /\ DOMAIN u = 1 .. m + l /\ DOMAIN v = 1 .. m /\ DOMAIN w = 1 .. l
  BY <1>1, <1>2, <1>4
<1>6. \A i \in 1 .. m : u[i] = v[i]
  BY <1>1, <1>2, <1>3
<1>7. \A j \in 1 .. l : u[m + j] = w[j]
  BY <1>1, <1>2, <1>3
<1>8. \A i \in 1 .. m : i \in 1 .. m + l
  OBVIOUS
<1>9. \A j \in 1 .. l : m + j \in 1 .. m + l
  OBVIOUS
<1>10. ASSUME NEW i \in 1 .. m + l, i \notin 1 .. m PROVE \E j \in 1 .. l : i = m + j
  <2>1. i - m \in 1 .. l /\ i = m + (i - m)
    BY <1>10
  <2> QED BY <2>1
<1>11. u \in Wires(n)
  <2> SUFFICES ASSUME NEW i \in DOMAIN u PROVE Proper(u[i])
    BY <1>4 DEF Wires
  <2>1. CASE i \in 1 .. m
    BY <1>5, <1>6, <2>1 DEF Wires
  <2>2. CASE i \notin 1 .. m
    <3>1. PICK j \in 1 .. l : i = m + j
      BY <1>5, <1>10, <2>2
    <3> QED BY <1>5, <1>7, <3>1 DEF Wires
  <2> QED BY <2>1, <2>2
<1>12. /\ \A i \in DOMAIN v : i \in DOMAIN u /\ u[i] = v[i]
       /\ \A j \in DOMAIN w : m + j \in DOMAIN u /\ u[m + j] = w[j]
       /\ \A i \in DOMAIN u : i \in DOMAIN v \/ \E j \in DOMAIN w : i = m + j
  BY <1>5, <1>6, <1>7, <1>8, <1>9, <1>10
<1> QED BY ONLY <1>2, <1>3, <1>11, <1>12

\* Wires that are joined.
LEMMA Joined ==
  ASSUME NEW n \in Nat, NEW v \in Wires(n), NEW w \in Wires(n), NEW k, NEW ev
  PROVE  /\ v \o w \in Wires(n)
         /\ IdsOn(k, ev, v \o w) = IdsOn(k, ev, v) \cup IdsOn(k, ev, w)
         /\ NumsOn(k, ev, v \o w) = NumsOn(k, ev, v) \cup NumsOn(k, ev, w)
         /\ (/\ Tidy(k, ev, v) /\ Tidy(k, ev, w)
             /\ IdsOn(k, ev, v) \cap IdsOn(k, ev, w) = {}
             /\ \A x \in NumsOn(k, ev, v), y \in NumsOn(k, ev, w) : x < y)
               => Tidy(k, ev, v \o w)
<1>1. PICK u : u = v \o w
  OBVIOUS
<1>2. PICK m : m = Len(v)
  OBVIOUS
<1>3. /\ u \in Wires(n)
      /\ \A i \in DOMAIN v : i \in DOMAIN u /\ u[i] = v[i]
      /\ \A j \in DOMAIN w : m + j \in DOMAIN u /\ u[m + j] = w[j]
      /\ \A i \in DOMAIN u : i \in DOMAIN v \/ \E j \in DOMAIN w : i = m + j
  <2>1. /\ v \o w \in Wires(n)
        /\ \A i \in DOMAIN v : i \in DOMAIN (v \o w) /\ (v \o w)[i] = v[i]
        /\ \A j \in DOMAIN w : Len(v) + j \in DOMAIN (v \o w) /\ (v \o w)[Len(v) + j] = w[j]
        /\ \A i \in DOMAIN (v \o w) : i \in DOMAIN v \/ \E j \in DOMAIN w : i = Len(v) + j
    BY JoinedParts
  <2> QED BY ONLY <1>1, <1>2, <2>1
<1>4. IdsOn(k, ev, u) = IdsOn(k, ev, v) \cup IdsOn(k, ev, w)
  <2>1. ASSUME NEW x \in IdsOn(k, ev, u) PROVE x \in IdsOn(k, ev, v) \cup IdsOn(k, ev, w)
    <3>1. PICK i \in DOMAIN u : Of(k, ev, u[i]) /\ x = u[i].id
      BY <2>1 DEF IdsOn
    <3>2. CASE i \in DOMAIN v
      BY <1>3, <3>1, <3>2 DEF IdsOn
    <3>3. CASE \E j \in DOMAIN w : i = m + j
      BY <1>3, <3>1, <3>3 DEF IdsOn
    <3> QED BY <1>3, <3>2, <3>3
  <2>2. ASSUME NEW x \in IdsOn(k, ev, v) PROVE x \in IdsOn(k, ev, u)
    <3>1. PICK i \in DOMAIN v : Of(k, ev, v[i]) /\ x = v[i].id
      BY <2>2 DEF IdsOn
    <3> QED BY <1>3, <3>1 DEF IdsOn
  <2>3. ASSUME NEW x \in IdsOn(k, ev, w) PROVE x \in IdsOn(k, ev, u)
    <3>1. PICK i \in DOMAIN w : Of(k, ev, w[i]) /\ x = w[i].id
      BY <2>3 DEF IdsOn
    <3>2. m + i \in DOMAIN u /\ u[m + i] = w[i]
      BY <1>3
    <3> QED BY <3>1, <3>2 DEF IdsOn
  <2> QED BY <2>1, <2>2, <2>3
<1>5. NumsOn(k, ev, u) = NumsOn(k, ev, v) \cup NumsOn(k, ev, w)
  <2>1. ASSUME NEW x \in NumsOn(k, ev, u) PROVE x \in NumsOn(k, ev, v) \cup NumsOn(k, ev, w)
    <3>1. PICK i \in DOMAIN u : Of(k, ev, u[i]) /\ x = u[i].sequence /\ x # 0
      BY <2>1 DEF NumsOn
    <3>2. CASE i \in DOMAIN v
      BY <1>3, <3>1, <3>2 DEF NumsOn
    <3>3. CASE \E j \in DOMAIN w : i = m + j
      BY <1>3, <3>1, <3>3 DEF NumsOn
    <3> QED BY <1>3, <3>2, <3>3
  <2>2. ASSUME NEW x \in NumsOn(k, ev, v) PROVE x \in NumsOn(k, ev, u)
    <3>1. PICK i \in DOMAIN v : Of(k, ev, v[i]) /\ x = v[i].sequence /\ x # 0
      BY <2>2 DEF NumsOn
    <3> QED BY <1>3, <3>1 DEF NumsOn
  <2>3. ASSUME NEW x \in NumsOn(k, ev, w) PROVE x \in NumsOn(k, ev, u)
    <3>1. PICK i \in DOMAIN w : Of(k, ev, w[i]) /\ x = w[i].sequence /\ x # 0
      BY <2>3 DEF NumsOn
    <3>2. m + i \in DOMAIN u /\ u[m + i] = w[i]
      BY <1>3
    <3> QED BY <3>1, <3>2 DEF NumsOn
  <2> QED BY <2>1, <2>2, <2>3
<1>6. ASSUME Tidy(k, ev, v), Tidy(k, ev, w), IdsOn(k, ev, v) \cap IdsOn(k, ev, w) = {},
             \A x \in NumsOn(k, ev, v), y \in NumsOn(k, ev, w) : x < y
      PROVE  Tidy(k, ev, u)
  <2> SUFFICES ASSUME NEW i \in DOMAIN u, NEW j \in DOMAIN u, i < j,
                      Of(k, ev, u[i]), Of(k, ev, u[j])
               PROVE  /\ u[i].id # u[j].id
                      /\ u[i].sequence = 0 \/ u[j].sequence = 0 \/ u[i].sequence < u[j].sequence
    BY DEF Tidy
  <2>0. /\ m \in Nat /\ DOMAIN v = 1 .. m
        /\ \A a \in DOMAIN w : a \in Nat \ {0}
    <3>1. v \in Seq(FramesTo(n)) /\ w \in Seq(FramesTo(n))
      BY DEF Wires
    <3> QED BY <1>2, <3>1
  <2>1. CASE i \in DOMAIN v /\ j \in DOMAIN v
    BY <1>3, <1>6, <2>1 DEF Tidy
  <2>2. CASE i \in DOMAIN v /\ j \notin DOMAIN v
    <3>1. PICK b \in DOMAIN w : j = m + b
      BY <1>3, <2>2
    <3>2. u[i] = v[i] /\ u[j] = w[b]
      BY <1>3, <2>2, <3>1
    <3>3. u[i].id \in IdsOn(k, ev, v) /\ u[j].id \in IdsOn(k, ev, w)
      BY <2>2, <3>2 DEF IdsOn
    <3>4. /\ u[i].sequence # 0 => u[i].sequence \in NumsOn(k, ev, v)
          /\ u[j].sequence # 0 => u[j].sequence \in NumsOn(k, ev, w)
      BY <2>2, <3>2 DEF NumsOn
    <3> QED BY <1>6, <3>3, <3>4
  <2>3. CASE i \notin DOMAIN v
    <3>1. PICK a \in DOMAIN w : i = m + a
      BY <1>3, <2>3
    <3>2. j \notin DOMAIN v
      BY <2>0, <3>1
    <3>3. PICK b \in DOMAIN w : j = m + b
      BY <1>3, <3>2
    <3>4. u[i] = w[a] /\ u[j] = w[b] /\ a < b
      BY <1>3, <2>0, <3>1, <3>3
    <3> QED BY <1>6, <3>4 DEF Tidy
  <2> QED BY <2>1, <2>2, <2>3
<1> QED BY ONLY <1>1, <1>3, <1>4, <1>5, <1>6

\* The frames left when the first is taken.
LEMMA TailParts ==
  ASSUME NEW n \in Nat, NEW w \in Wires(n), w # << >>, NEW k, NEW ev
  PROVE  /\ Tail(w) \in Wires(n)
         /\ IdsOn(k, ev, Tail(w)) \subseteq IdsOn(k, ev, w)
         /\ NumsOn(k, ev, Tail(w)) \subseteq NumsOn(k, ev, w)
         /\ Tidy(k, ev, w) => Tidy(k, ev, Tail(w))
         /\ NumsOn(k, ev, w) \subseteq NumsOn(k, ev, Tail(w)) \cup {Head(w).sequence}
         /\ Tidy(k, ev, w) /\ Of(k, ev, Head(w)) /\ Head(w).sequence # 0
              => \A x \in NumsOn(k, ev, Tail(w)) : Head(w).sequence < x
         /\ Of(k, ev, Head(w)) /\ Head(w).sequence # 0 => Head(w).sequence \in NumsOn(k, ev, w)
         /\ ~Of(k, ev, Head(w)) => NumsOn(k, ev, w) \subseteq NumsOn(k, ev, Tail(w))
<1>1. w \in Seq(FramesTo(n))
  BY DEF Wires
<1>2. PICK t \in Seq(FramesTo(n)) : t = Tail(w)
  <2>1. Tail(w) \in Seq(FramesTo(n))
    BY <1>1
  <2> QED BY <2>1
<1>3. /\ \A i \in DOMAIN t : i + 1 \in DOMAIN w /\ t[i] = w[i + 1] /\ i \in Nat
      /\ 1 \in DOMAIN w /\ Head(w) = w[1]
      /\ \A i \in DOMAIN w : i = 1 \/ \E j \in DOMAIN t : i = j + 1
  <2>1. PICK m \in Nat : Len(w) = m + 1
    <3>1. Len(w) \in Nat /\ Len(w) # 0
      BY <1>1
    <3>2. Len(w) - 1 \in Nat /\ Len(w) = (Len(w) - 1) + 1
      BY <3>1
    <3> QED BY <3>2
  <2>2. DOMAIN w = 1 .. m + 1 /\ DOMAIN t = 1 .. m
    BY <1>1, <1>2, <2>1
  <2>3. \A i \in 1 .. m : t[i] = w[i + 1]
    BY <1>1, <1>2, <2>1
  <2>4. \A i \in 1 .. m + 1 : i = 1 \/ (i - 1 \in 1 .. m /\ i = (i - 1) + 1)
    OBVIOUS
  <2>5. \A i \in 1 .. m : i + 1 \in 1 .. m + 1 /\ i \in Nat
    OBVIOUS
  <2>6. 1 \in 1 .. m + 1
    OBVIOUS
  <2>7. Head(w) = w[1]
    OBVIOUS
  <2> QED BY <2>2, <2>3, <2>4, <2>5, <2>6, <2>7
<1>4. t \in Wires(n)
  BY <1>2, <1>3 DEF Wires
<1>5. IdsOn(k, ev, t) \subseteq IdsOn(k, ev, w)
  BY <1>3 DEF IdsOn
<1>6. NumsOn(k, ev, t) \subseteq NumsOn(k, ev, w)
  BY <1>3 DEF NumsOn
<1>7. Tidy(k, ev, w) => Tidy(k, ev, t)
  <2> SUFFICES ASSUME Tidy(k, ev, w), NEW i \in DOMAIN t, NEW j \in DOMAIN t, i < j,
                      Of(k, ev, t[i]), Of(k, ev, t[j])
               PROVE  /\ t[i].id # t[j].id
                      /\ t[i].sequence = 0 \/ t[j].sequence = 0 \/ t[i].sequence < t[j].sequence
    BY DEF Tidy
  <2>1. i + 1 \in DOMAIN w /\ j + 1 \in DOMAIN w /\ i + 1 < j + 1 /\ t[i] = w[i + 1]
        /\ t[j] = w[j + 1]
    BY <1>3
  <2> QED BY <2>1 DEF Tidy
<1>8. NumsOn(k, ev, w) \subseteq NumsOn(k, ev, t) \cup {Head(w).sequence}
  BY <1>3 DEF NumsOn
<1>9. ASSUME Tidy(k, ev, w), Of(k, ev, Head(w)), Head(w).sequence # 0, NEW x \in NumsOn(k, ev, t)
      PROVE  Head(w).sequence < x
  <2>1. PICK j \in DOMAIN t : Of(k, ev, t[j]) /\ x = t[j].sequence /\ x # 0
    BY <1>9 DEF NumsOn
  <2>2. 1 < j + 1 /\ j + 1 \in DOMAIN w /\ t[j] = w[j + 1] /\ Head(w) = w[1] /\ 1 \in DOMAIN w
    <3>1. j \in Nat /\ j # 0
      BY <1>2, <1>3
    <3> QED BY <1>3, <3>1
  <2> QED BY <1>9, <2>1, <2>2 DEF Tidy
<1>10. Of(k, ev, Head(w)) /\ Head(w).sequence # 0 => Head(w).sequence \in NumsOn(k, ev, w)
  BY <1>3 DEF NumsOn
<1>11. ~Of(k, ev, Head(w)) => NumsOn(k, ev, w) \subseteq NumsOn(k, ev, t)
  BY <1>3 DEF NumsOn
<1> QED BY <1>2, <1>4, <1>5, <1>6, <1>7, <1>8, <1>9, <1>10, <1>11

\* The frames at the positions K of a wire.
LEMMA AtWire ==
  ASSUME NEW n \in Nat, NEW q \in Wires(n), NEW K \in SUBSET (DOMAIN q),
         NEW a, a = At(q, K)
  PROVE  /\ a \in Wires(n)
         /\ \A j \in DOMAIN a : \E i \in K : a[j] = q[i]
         /\ \A i \in K : \E j \in DOMAIN a : a[j] = q[i]
         /\ \A k, ev : Tidy(k, ev, q) => Tidy(k, ev, a)
<1>1. q \in Seq(FramesTo(n))
  BY DEF Wires
<1>2. PICK h, c : h = Sorted(K) /\ c = Cardinality(K)
  OBVIOUS
<1>3. a \in Seq(FramesTo(n)) /\ DOMAIN a = 1 .. c /\ \A j \in DOMAIN a : a[j] = q[h[j]]
  BY <1>1, <1>2, AtIs
<1>4. /\ h \in [1 .. c -> K]
      /\ \A i, j \in 1 .. c : i < j => h[i] < h[j]
      /\ \A i \in K : \E j \in 1 .. c : h[j] = i
  <2>1. PICK m : m = Len(q)
    OBVIOUS
  <2>2. m \in Nat /\ K \in SUBSET (1 .. m)
    BY <1>1, <2>1
  <2> QED BY <1>2, <2>2, SortedIs
<1>5. \A j \in DOMAIN a : h[j] \in K
  BY <1>3, <1>4
<1>6. a \in Wires(n)
  BY <1>3, <1>5 DEF Wires
<1>7. ASSUME NEW k, NEW ev PROVE Tidy(k, ev, q) => Tidy(k, ev, a)
  <2> SUFFICES ASSUME Tidy(k, ev, q), NEW i \in DOMAIN a, NEW j \in DOMAIN a, i < j,
                      Of(k, ev, a[i]), Of(k, ev, a[j])
               PROVE  /\ a[i].id # a[j].id
                      /\ a[i].sequence = 0 \/ a[j].sequence = 0 \/ a[i].sequence < a[j].sequence
    BY DEF Tidy
  <2>1. h[i] < h[j] /\ h[i] \in DOMAIN q /\ h[j] \in DOMAIN q /\ a[i] = q[h[i]] /\ a[j] = q[h[j]]
    BY <1>3, <1>4, <1>5
  <2> QED BY <2>1 DEF Tidy
<1>8. \A i \in K : \E j \in DOMAIN a : a[j] = q[i]
  BY <1>3, <1>4
<1> QED BY <1>3, <1>5, <1>6, <1>7, <1>8

\* Frames for a set of events, in their order.
LEMMA Listed ==
  ASSUME NEW n \in Nat, NEW S \in SUBSET (1 .. n), NEW s, s = Sorted(S), NEW a, DOMAIN a = DOMAIN s,
         a = [j \in DOMAIN s |-> a[j]], \A j \in DOMAIN s : a[j] \in EventsTo(n),
         \A j \in DOMAIN s : a[j].id = s[j] /\ a[j].sequence \in {0, a[j].id}
  PROVE  /\ a \in Wires(n)
         /\ \A j \in DOMAIN a : a[j].kind = "event" /\ a[j].id \in S
         /\ \A e \in S : \E j \in DOMAIN a : a[j].id = e
         /\ \A k, ev : Tidy(k, ev, a)
<1>0. \A e \in S : e \in Nat
  OBVIOUS
<1>1. PICK c : c = Cardinality(S)
  OBVIOUS
<1>2. /\ c \in Nat
      /\ s \in [1 .. c -> S]
      /\ \A i, j \in 1 .. c : i < j => s[i] < s[j]
      /\ \A e \in S : \E i \in 1 .. c : s[i] = e
  BY <1>1, SortedIs
<1>3. /\ a \in [1 .. c -> EventsTo(n)]
      /\ \A j \in 1 .. c : a[j].id = s[j] /\ a[j].sequence \in {0, a[j].id}
  BY <1>2
<1>4. DOMAIN a = 1 .. c /\ \A j \in 1 .. c : a[j] \in EventsTo(n) /\ a[j].kind = "event"
  <2>1. \A j \in 1 .. c : a[j] \in EventsTo(n)
    BY <1>3
  <2> QED BY <1>3, <2>1 DEF EventsTo
<1>5. a \in Wires(n)
  <2>1. EventsTo(n) \subseteq FramesTo(n)
    BY DEF FramesTo
  <2>2. a \in [1 .. c -> FramesTo(n)]
    BY <1>3, <2>1
  <2>3. a \in Seq(FramesTo(n))
    BY <1>2, <2>2
  <2>4. \A j \in DOMAIN a : Proper(a[j])
    BY <1>3, <1>4 DEF Proper
  <2> QED BY <2>3, <2>4 DEF Wires
<1>6. \A j \in DOMAIN a : a[j].kind = "event" /\ a[j].id \in S
  BY <1>2, <1>3, <1>4
<1>7. \A e \in S : \E j \in DOMAIN a : a[j].id = e
  BY <1>2, <1>3, <1>4
<1>8. ASSUME NEW k, NEW ev PROVE Tidy(k, ev, a)
  <2> SUFFICES ASSUME NEW i \in 1 .. c, NEW j \in 1 .. c, i < j
               PROVE  /\ a[i].id # a[j].id
                      /\ a[i].sequence = 0 \/ a[j].sequence = 0 \/ a[i].sequence < a[j].sequence
    BY <1>4 DEF Tidy
  <2>1. s[i] < s[j] /\ s[i] \in Nat /\ s[j] \in Nat
    <3>1. s[i] \in S /\ s[j] \in S
      BY <1>2
    <3>2. s[i] < s[j]
      BY <1>2
    <3> QED BY <1>0, <3>1, <3>2
  <2> QED BY <1>3, <2>1
<1> QED BY <1>5, <1>6, <1>7, <1>8

-----------------------------------------------------------------------------
(* Subscriptions, and what a step of theirs delivers.                      *)

SubsTo(n) ==
  [key : Keys, mode : {"live", "replay", "gated"}, last : 0 .. n,
   seen : SUBSET (1 .. n), buffered : Seq(FramesTo(n)), pages : 0 .. MaxPages,
   held : BOOLEAN, heard : BOOLEAN]

\* The buffer holds events of the subscription's key only.
Sound(n, ev) ==
  {sub \in SubsTo(n) : /\ sub.buffered \in Wires(n)
                       /\ \A i \in DOMAIN sub.buffered : Of(sub.key, ev, sub.buffered[i])}

\* The subscription after frames F (deliver): last is the largest number, seen the ids.
LEMMA DeliveredIs ==
  ASSUME NEW n \in Nat, NEW sub \in SubsTo(n), NEW F \in SUBSET EventsTo(n),
         NEW new, new = Delivered(sub, F)
  PROVE  /\ new \in SubsTo(n)
         /\ new.key = sub.key /\ new.mode = sub.mode /\ new.buffered = sub.buffered
         /\ new.pages = sub.pages /\ new.held = sub.held /\ new.heard = sub.heard
         /\ sub.last <= new.last /\ \A f \in F : f.sequence <= new.last
         /\ new.last = sub.last \/ \E f \in F : new.last = f.sequence
         /\ sub.seen \subseteq new.seen /\ \A f \in F : f.id \in new.seen
         /\ \A x \in new.seen : x \in sub.seen \/ \E f \in F : f.id = x
<1> DEFINE S == {sub.last} \cup {f.sequence : f \in F}
           I == {f.id : f \in F}
<1>1. \A f \in F : f.id \in 1 .. n /\ f.sequence \in 0 .. n
  BY DEF EventsTo
<1>2. sub.last \in 0 .. n /\ sub.seen \in SUBSET (1 .. n)
  BY DEF SubsTo
<1>3. S \in SUBSET (0 .. n) /\ S # {} /\ I \in SUBSET (1 .. n)
  BY <1>1, <1>2
<1>4. PICK m : m = Max(S)
  OBVIOUS
<1>5. new = [sub EXCEPT !.last = m, !.seen = sub.seen \cup I]
  BY <1>4 DEF Delivered, SubsTo
<1>6. m \in S /\ \A x \in S : x <= m
  <2> HIDE DEF S
  <2> QED BY <1>3, <1>4, MaxIs
<1>7. m \in 0 .. n /\ sub.last <= m /\ (\A f \in F : f.sequence <= m)
      /\ (m = sub.last \/ \E f \in F : m = f.sequence)
  BY <1>3, <1>6
<1>8. new \in SubsTo(n) /\ new.last = m /\ new.seen = sub.seen \cup I
  <2> HIDE DEF I
  <2>1. sub.seen \cup I \in SUBSET (1 .. n)
    BY <1>2, <1>3
  <2> QED BY <1>5, <1>7, <2>1 DEF SubsTo
<1>9. /\ new.key = sub.key /\ new.mode = sub.mode /\ new.buffered = sub.buffered
      /\ new.pages = sub.pages /\ new.held = sub.held /\ new.heard = sub.heard
  BY <1>5 DEF SubsTo
<1>10. /\ sub.seen \subseteq new.seen /\ \A f \in F : f.id \in new.seen
       /\ \A x \in new.seen : x \in sub.seen \/ \E f \in F : f.id = x
  BY <1>8
<1> QED BY <1>7, <1>8, <1>9, <1>10

\* A page of the replay: what it sends, and the subscription afterwards.
Paged(sub, new, a, P) ==
  /\ \A e \in P : e \in log /\ e > sub.last /\ Covers(sub.key, events[e].session)
  /\ \A k : Tidy(k, events, a)
  /\ \A j \in DOMAIN a : /\ Of(sub.key, events, a[j]) /\ a[j].sequence = a[j].id
                         /\ a[j].id \in P \ sub.seen
  /\ \A e \in P \ sub.seen : \E j \in DOMAIN a : a[j].id = e
  /\ new.key = sub.key /\ new.mode = sub.mode /\ new.buffered = sub.buffered
  /\ new.pages = sub.pages + 1 /\ new.held = sub.held /\ new.heard = sub.heard
  /\ new.last \in P /\ \A e \in P : e <= new.last
  /\ new.seen = sub.seen \cup P

\* A round with a page, of at most PageSize rows after the cursor.
LEMMA RoundPage ==
  ASSUME NEW n \in Nat, log \in SUBSET (1 .. n), NEW sub \in Sound(n, events),
         ~ReplayOver(sub), NEW a, a = RoundFrames(sub), NEW new, new = Round(sub),
         NEW P, P = Page(sub), sub.pages + 1 \in 0 .. MaxPages
  PROVE  a \in Wires(n) /\ new \in Sound(n, events) /\ Paged(sub, new, a, P)
<1> DEFINE G == {e \in P : Passes(sub, Numbered(e))}
           F == {Numbered(e) : e \in P}
<1>1. sub \in SubsTo(n)
  BY DEF Sound
<1>2. P \in SUBSET {e \in log : e > sub.last /\ Covers(sub.key, events[e].session)} /\ P # {}
  BY DEF Page, ReplayOver
<1>3. sub.last \in Nat /\ \A e \in P : e \in 1 .. n /\ e \in Nat /\ e > sub.last
  <2>1. sub.last \in Nat
    BY <1>1 DEF SubsTo
  <2>2. \A e \in P : e \in 1 .. n /\ e > sub.last
    BY <1>2
  <2> QED BY <2>1, <2>2
<1>4. \A e \in P : /\ Numbered(e) \in EventsTo(n) /\ Numbered(e).kind = "event"
                   /\ Numbered(e).id = e /\ Numbered(e).sequence = e
  BY <1>3 DEF Numbered, Event, EventsTo
<1>5. G = P \ sub.seen
  BY <1>3, <1>4 DEF Passes
<1>6. G \in SUBSET (1 .. n)
  BY <1>3
<1>7. PICK c, s : c = Cardinality(G) /\ s = Sorted(G)
  OBVIOUS
<1>8. c \in Nat /\ s \in [1 .. c -> G]
  <2> HIDE DEF G
  <2> QED BY <1>6, <1>7, SortedIs
<1>9. a = [j \in 1 .. c |-> Numbered(s[j])]
  <2>1. a = [j \in DOMAIN s |-> Numbered(s[j])]
    BY <1>7 DEF RoundFrames
  <2> QED BY <1>8, <2>1
<1>10. \A j \in 1 .. c : s[j] \in P /\ s[j] \in G
  BY <1>8
<1>11. a \in [1 .. c -> EventsTo(n)] /\ \A j \in 1 .. c : a[j].id = s[j] /\ a[j].sequence = s[j]
  BY <1>4, <1>9, <1>10
<1>12. /\ a \in Wires(n) /\ (\A k : Tidy(k, events, a))
       /\ \A j \in DOMAIN a : a[j].kind = "event" /\ a[j].id \in G
       /\ \A e \in G : \E j \in DOMAIN a : a[j].id = e
  <2>1. /\ DOMAIN a = DOMAIN s /\ a = [j \in DOMAIN s |-> a[j]]
        /\ \A j \in DOMAIN s : a[j] \in EventsTo(n)
        /\ \A j \in DOMAIN s : a[j].id = s[j] /\ a[j].sequence \in {0, a[j].id}
    BY <1>8, <1>11
  <2>2. PICK X : X = G
    OBVIOUS
  <2> HIDE DEF G
  <2>3. X \in SUBSET (1 .. n) /\ s = Sorted(X)
    BY <1>6, <1>7, <2>2
  <2>4. /\ a \in Wires(n) /\ (\A l, ev : Tidy(l, ev, a))
        /\ \A j \in DOMAIN a : a[j].kind = "event" /\ a[j].id \in X
        /\ \A e \in X : \E j \in DOMAIN a : a[j].id = e
    BY ONLY n \in Nat, <2>1, <2>3, Listed
  <2> QED BY <2>2, <2>4
<1>13. \A j \in DOMAIN a : Of(sub.key, events, a[j]) /\ a[j].sequence = a[j].id
  BY <1>2, <1>5, <1>11, <1>12 DEF Of
<1>14. PICK d : d = Delivered(sub, F)
  OBVIOUS
<1>15. F \in SUBSET EventsTo(n)
  BY <1>4
<1>16. /\ d \in SubsTo(n)
       /\ d.key = sub.key /\ d.mode = sub.mode /\ d.buffered = sub.buffered
       /\ d.pages = sub.pages /\ d.held = sub.held /\ d.heard = sub.heard
       /\ sub.last <= d.last /\ \A f \in F : f.sequence <= d.last
       /\ d.last = sub.last \/ \E f \in F : d.last = f.sequence
       /\ sub.seen \subseteq d.seen /\ \A f \in F : f.id \in d.seen
       /\ \A x \in d.seen : x \in sub.seen \/ \E f \in F : f.id = x
  <2> HIDE DEF F
  <2> QED BY <1>1, <1>14, <1>15, DeliveredIs
<1>17. d.seen = sub.seen \cup P
  BY <1>4, <1>16
<1>18. \A e \in P : e <= d.last
  BY <1>4, <1>16
<1>19. d.last \in P
  <2>1. PICK e \in P : TRUE
    BY <1>2
  <2>2. d.last # sub.last
    <3>1. d.last \in Nat
      BY <1>16 DEF SubsTo
    <3> QED BY <1>3, <1>18, <2>1, <3>1
  <2> QED BY <1>4, <1>16, <2>2
<1>20. new = [d EXCEPT !.pages = @ + 1]
  BY <1>14 DEF Round
<1>21. PICK p \in 0 .. MaxPages : p = sub.pages + 1
  OBVIOUS
<1>22. new = [d EXCEPT !.pages = p]
  BY <1>16, <1>20, <1>21 DEF SubsTo
<1>23. /\ new \in SubsTo(n) /\ new.last = d.last /\ new.seen = d.seen /\ new.pages = p
       /\ new.buffered = sub.buffered /\ new.key = sub.key /\ new.mode = sub.mode
       /\ new.held = sub.held /\ new.heard = sub.heard
  BY <1>16, <1>22 DEF SubsTo
<1>24. new \in Sound(n, events)
  BY <1>23 DEF Sound
<1> HIDE DEF F, G
<1> QED BY <1>2, <1>5, <1>12, <1>13, <1>17, <1>18, <1>19, <1>21, <1>23, <1>24 DEF Paged

\* The end of the replay: what was buffered goes out.
Flushed(sub, new, a) ==
  /\ \A k : Tidy(k, events, sub.buffered) => Tidy(k, events, a)
  /\ \A j \in DOMAIN a :
       \E i \in DOMAIN sub.buffered : a[j] = sub.buffered[i] /\ Passes(sub, sub.buffered[i])
  /\ \A i \in DOMAIN sub.buffered :
       Passes(sub, sub.buffered[i]) => \E j \in DOMAIN a : a[j] = sub.buffered[i]
  /\ new.mode = "gated" /\ new.buffered = << >> /\ new.seen = {} /\ new.pages = 0
  /\ new.key = sub.key /\ new.held = sub.held /\ new.heard = sub.heard
  /\ sub.last <= new.last
  /\ \A i \in DOMAIN sub.buffered : sub.buffered[i].sequence <= new.last

\* The round that ends the replay.
LEMMA RoundOver ==
  ASSUME NEW n \in Nat, NEW sub \in Sound(n, events),
         ReplayOver(sub), NEW a, a = RoundFrames(sub), NEW new, new = Round(sub)
  PROVE  a \in Wires(n) /\ new \in Sound(n, events) /\ Flushed(sub, new, a)
<1>0. PICK q : q = sub.buffered
  OBVIOUS
<1> DEFINE K == {i \in DOMAIN q : Passes(sub, q[i])}
<1>1. sub \in SubsTo(n) /\ q \in Wires(n) /\ \A i \in DOMAIN q : q[i].kind = "event"
  BY <1>0 DEF Sound, Of
<1>2. a = At(q, K) /\ K \in SUBSET (DOMAIN q)
  BY <1>0 DEF RoundFrames
<1>3. /\ a \in Wires(n)
      /\ \A j \in DOMAIN a : \E i \in K : a[j] = q[i]
      /\ \A i \in K : \E j \in DOMAIN a : a[j] = q[i]
      /\ \A k, ev : Tidy(k, ev, q) => Tidy(k, ev, a)
  <2> HIDE DEF K
  <2> QED BY <1>1, <1>2, AtWire
<1>4. PICK F : F = Range(q)
  OBVIOUS
<1>5. F = {q[i] : i \in DOMAIN q}
  BY <1>4 DEF Range
<1>6. F \in SUBSET EventsTo(n)
  <2>1. \A i \in DOMAIN q : q[i] \in FramesTo(n) /\ q[i].kind = "event"
    BY <1>1 DEF Wires
  <2>2. \A f \in FramesTo(n) : f.kind = "event" => f \in EventsTo(n)
    BY DEF FramesTo
  <2> QED BY <1>5, <2>1, <2>2
<1>7. PICK d : d = Delivered(sub, F)
  OBVIOUS
<1>8. /\ d \in SubsTo(n)
      /\ d.key = sub.key /\ d.held = sub.held /\ d.heard = sub.heard
      /\ sub.last <= d.last /\ \A f \in F : f.sequence <= d.last
  BY <1>1, <1>6, <1>7, DeliveredIs
<1>9. new = [d EXCEPT !.mode = "gated", !.buffered = << >>, !.seen = {}, !.pages = 0]
  BY <1>0, <1>4, <1>7 DEF Round
<1>10. << >> \in Seq(FramesTo(n)) /\ 0 \in 0 .. MaxPages
  BY ConstantsAssumption
<1>11. /\ new \in SubsTo(n)
       /\ new.mode = "gated" /\ new.buffered = << >> /\ new.seen = {} /\ new.pages = 0
       /\ new.last = d.last
  BY <1>8, <1>9, <1>10 DEF SubsTo
<1>12. new.key = sub.key /\ new.held = sub.held /\ new.heard = sub.heard
  BY <1>1, <1>8, <1>9 DEF SubsTo
<1>13. new \in Sound(n, events)
  <2>1. << >> \in Wires(n)
    BY EmptyWire
  <2> QED BY <1>11, <2>1 DEF Sound
<1>14. \A i \in DOMAIN q : q[i].sequence <= new.last
  BY <1>5, <1>8, <1>11
<1>15. \A k : Tidy(k, events, q) => Tidy(k, events, a)
  BY <1>3
<1> QED BY <1>0, <1>3, <1>8, <1>11, <1>12, <1>13, <1>14, <1>15 DEF Flushed

\* What a new event f leaves of a subscription.
Hearing(sub, f, new) ==
  /\ new.key = sub.key /\ new.mode = sub.mode /\ new.pages = sub.pages
  /\ new.held = sub.held /\ new.heard = sub.heard
  /\ sub.mode = "live" => new.last = sub.last /\ new.buffered = sub.buffered
  /\ sub.mode = "replay" => new.last = sub.last /\ new.seen = sub.seen
                            /\ new.buffered = Append(sub.buffered, f)
  /\ sub.mode = "gated" => new.last = f.id /\ new.seen = {}

\* A new event, n + 1, of a subscription's key.
LEMMA HeardIs ==
  ASSUME NEW n \in Nat, NEW ev, NEW ew, \A e \in 1 .. n : ew[e] = ev[e],
         NEW sub \in Sound(n, ev), Covers(sub.key, ew[n + 1].session),
         NEW f, f = Numbered(n + 1), NEW new, new = Heard(sub, f)
  PROVE  new \in Sound(n + 1, ew) /\ Hearing(sub, f, new)
<1> DEFINE m == n + 1
<1>0. m \in Nat /\ n <= m /\ 1 .. n \subseteq 1 .. m /\ 0 .. n \subseteq 0 .. m /\ m \in 1 .. m
  OBVIOUS
<1> HIDE DEF m
<1>1. sub \in SubsTo(n) /\ sub.buffered \in Wires(n)
      /\ \A i \in DOMAIN sub.buffered : Of(sub.key, ev, sub.buffered[i])
  BY DEF Sound
<1>2. Wires(n) \subseteq Wires(m) /\ Seq(FramesTo(n)) \subseteq Seq(FramesTo(m))
  <2>1. Wires(n) \subseteq Wires(m) /\ FramesTo(n) \subseteq FramesTo(m)
    BY <1>0, WiresGrow
  <2> QED BY <2>1
<1>3. sub \in SubsTo(m)
  <2>1. SUBSET (1 .. n) \subseteq SUBSET (1 .. m)
    BY <1>0
  <2> QED BY <1>0, <1>1, <1>2, <2>1 DEF SubsTo
<1>4. /\ f = [kind |-> "event", id |-> m, sequence |-> m] /\ f.kind = "event" /\ f.id = m
      /\ f.sequence = m
  BY DEF Numbered, Event, m
<1>5. f \in EventsTo(m) /\ f \in FramesTo(m) /\ Proper(f)
  BY <1>0, <1>4 DEF EventsTo, FramesTo, Proper
<1>6. \A i \in DOMAIN sub.buffered : Of(sub.key, ew, sub.buffered[i])
  <2> SUFFICES ASSUME NEW i \in DOMAIN sub.buffered PROVE Of(sub.key, ew, sub.buffered[i])
    OBVIOUS
  <2>1. PICK q : q = sub.buffered
    OBVIOUS
  <2>2. q[i].kind = "event" => q[i].id \in 1 .. n
    BY <1>1, <2>1, FrameParts
  <2> QED BY <1>1, <2>1, <2>2 DEF Of
<1>7. sub.mode \in {"live", "replay", "gated"}
  BY <1>1 DEF SubsTo
<1>8. CASE sub.mode = "live"
  <2>1. new = sub
    BY <1>8 DEF Heard
  <2>2. sub \in Sound(m, ew)
    BY <1>1, <1>2, <1>3, <1>6 DEF Sound
  <2> QED BY <1>8, <2>1, <2>2 DEF m, Hearing
<1>9. CASE sub.mode = "gated"
  <2>1. PICK F : F = {f}
    OBVIOUS
  <2>2. PICK d : d = Delivered(sub, F)
    OBVIOUS
  <2>3. F \in SUBSET EventsTo(m)
    BY <1>5, <2>1
  <2>4. /\ d \in SubsTo(m)
        /\ d.key = sub.key /\ d.mode = sub.mode /\ d.buffered = sub.buffered
        /\ d.pages = sub.pages /\ d.held = sub.held /\ d.heard = sub.heard
        /\ \A x \in F : x.sequence <= d.last
    BY <1>0, <1>3, <2>2, <2>3, DeliveredIs
  <2>5. new = [d EXCEPT !.seen = {}]
    BY <1>9, <2>1, <2>2 DEF Heard
  <2>6. d.last = m
    <3>1. d.last \in 0 .. m
      BY <2>4 DEF SubsTo
    <3>2. m <= d.last
      BY <1>4, <2>1, <2>4
    <3> QED BY <1>0, <3>1, <3>2
  <2>7. /\ new \in SubsTo(m) /\ new.key = sub.key /\ new.mode = sub.mode
        /\ new.buffered = sub.buffered
        /\ new.pages = sub.pages /\ new.held = sub.held /\ new.heard = sub.heard
        /\ new.last = m /\ new.seen = {}
    BY <2>4, <2>5, <2>6 DEF SubsTo
  <2>8. new \in Sound(m, ew)
    BY <1>1, <1>2, <1>6, <2>7 DEF Sound
  <2> QED BY <1>4, <1>9, <2>7, <2>8 DEF m, Hearing
<1>10. CASE sub.mode = "replay"
  <2>1. PICK q : q = sub.buffered
    OBVIOUS
  <2>2. PICK u : u = Append(q, f)
    OBVIOUS
  <2>3. q \in Seq(FramesTo(m)) /\ q \in Wires(m)
    BY <1>1, <1>2, <2>1 DEF Wires
  <2>4. /\ u \in Seq(FramesTo(m))
        /\ \A i \in DOMAIN u : (i \in DOMAIN q /\ u[i] = q[i]) \/ u[i] = f
    <3>1. u \in Seq(FramesTo(m)) /\ Len(u) = Len(q) + 1
      BY <1>5, <2>2, <2>3
    <3>2. \A i \in 1 .. Len(q) : u[i] = q[i]
      BY <1>5, <2>2, <2>3
    <3>3. u[Len(q) + 1] = f
      BY <1>5, <2>2, <2>3
    <3>4. DOMAIN u = 1 .. Len(q) + 1 /\ DOMAIN q = 1 .. Len(q) /\ Len(q) \in Nat
      BY <2>3, <3>1
    <3> QED BY <3>1, <3>2, <3>3, <3>4
  <2>5. u \in Wires(m)
    BY <1>5, <2>3, <2>4 DEF Wires
  <2>6. new = [sub EXCEPT !.buffered = u]
    BY <1>10, <2>1, <2>2 DEF Heard
  <2>7. /\ new \in SubsTo(m) /\ new.key = sub.key /\ new.mode = sub.mode
        /\ new.buffered = u
        /\ new.pages = sub.pages /\ new.held = sub.held /\ new.heard = sub.heard
        /\ new.last = sub.last /\ new.seen = sub.seen
    BY <1>3, <2>4, <2>6 DEF SubsTo
  <2>8. Of(sub.key, ew, f)
    BY <1>4 DEF Of, m
  <2>9. new \in Sound(m, ew)
    BY <1>6, <2>1, <2>4, <2>5, <2>7, <2>8 DEF Sound
  <2> QED BY <1>10, <2>1, <2>2, <2>7, <2>9 DEF m, Hearing
<1> QED BY <1>7, <1>8, <1>9, <1>10

\* Later events leave a subscription as it is.
LEMMA SoundGrows ==
  ASSUME NEW n \in Nat, NEW m \in Nat, n <= m, NEW ev, NEW ew, \A e \in 1 .. n : ew[e] = ev[e],
         NEW sub \in Sound(n, ev)
  PROVE  sub \in Sound(m, ew)
<1>0. 1 .. n \subseteq 1 .. m /\ 0 .. n \subseteq 0 .. m
  OBVIOUS
<1>1. sub \in SubsTo(n) /\ sub.buffered \in Wires(n)
      /\ \A i \in DOMAIN sub.buffered : Of(sub.key, ev, sub.buffered[i])
  BY DEF Sound
<1>2. Wires(n) \subseteq Wires(m) /\ Seq(FramesTo(n)) \subseteq Seq(FramesTo(m))
  <2>1. Wires(n) \subseteq Wires(m) /\ FramesTo(n) \subseteq FramesTo(m)
    BY WiresGrow
  <2> QED BY <2>1
<1>3. sub \in SubsTo(m)
  <2>1. SUBSET (1 .. n) \subseteq SUBSET (1 .. m)
    BY <1>0
  <2> QED BY <1>0, <1>1, <1>2, <2>1 DEF SubsTo
<1>6. \A i \in DOMAIN sub.buffered : Of(sub.key, ew, sub.buffered[i])
  <2> SUFFICES ASSUME NEW i \in DOMAIN sub.buffered PROVE Of(sub.key, ew, sub.buffered[i])
    OBVIOUS
  <2>1. PICK q : q = sub.buffered
    OBVIOUS
  <2>2. q[i].kind = "event" => q[i].id \in 1 .. n
    BY <1>1, <2>1, FrameParts
  <2> QED BY <1>1, <2>1, <2>2 DEF Of
<1> QED BY <1>1, <1>2, <1>3, <1>6 DEF Sound

\* The approvals shown again, and a new subscription.
Begun(n, k, since, a, new) ==
  /\ a \in Wires(n) /\ \A l, ev : Tidy(l, ev, a)
  /\ \A i \in DOMAIN a : Of(k, events, a[i]) /\ a[i].sequence = 0
  /\ new \in Sound(n, events)
  /\ new.key = k /\ new.last = since /\ new.seen = {} /\ new.pages = 0
  /\ new.held = TRUE /\ new.heard = TRUE
  /\ since = 0 => new.mode = "live"
  /\ since # 0 => new.mode = "replay" /\ new.buffered = a

\* The subscription that stream.subscribe sets up.
LEMMA SubscriptionIs ==
  ASSUME NEW n \in Nat, NEW k \in Keys, NEW since \in 0 .. n, approvals \in SUBSET (1 .. n),
         NEW a, a = Reissued(k), NEW new, new = Subscription(k, since), MaxPages \in Nat
  PROVE  Begun(n, k, since, a, new)
<1> DEFINE S == {x \in approvals : Covers(k, events[x].session)}
<1>1. PICK X : X = S
  OBVIOUS
<1>2. PICK s : s = Sorted(X)
  OBVIOUS
<1>3. X \in SUBSET (1 .. n)
  BY <1>1
<1>4. a = [j \in DOMAIN s |-> Event(s[j], 0)]
  BY <1>1, <1>2 DEF Reissued
<1>5. \A j \in DOMAIN s : s[j] \in X
  <2>1. s \in [1 .. Cardinality(X) -> X]
    BY <1>2, <1>3, SortedIs
  <2> QED BY <2>1
<1>6. \A j \in DOMAIN s : /\ a[j] \in EventsTo(n)
                          /\ a[j].id = s[j] /\ a[j].sequence = 0
  <2> SUFFICES ASSUME NEW j \in DOMAIN s
               PROVE  a[j] \in EventsTo(n) /\ a[j].id = s[j] /\ a[j].sequence = 0
    OBVIOUS
  <2>1. a[j] = [kind |-> "event", id |-> s[j], sequence |-> 0]
    BY <1>4 DEF Event
  <2>2. s[j] \in 1 .. n
    BY <1>3, <1>5
  <2>3. 0 \in 0 .. n
    OBVIOUS
  <2> QED BY <2>1, <2>2, <2>3 DEF EventsTo
<1>7. /\ a \in Wires(n) /\ (\A l, ev : Tidy(l, ev, a))
      /\ \A j \in DOMAIN a : a[j].kind = "event" /\ a[j].id \in X
  <2>1. DOMAIN a = DOMAIN s /\ a = [j \in DOMAIN s |-> a[j]]
    BY <1>4
  <2>2. \A j \in DOMAIN s : a[j] \in EventsTo(n)
    BY <1>6
  <2>3. \A j \in DOMAIN s : a[j].id = s[j] /\ a[j].sequence \in {0, a[j].id}
    BY <1>6
  <2> QED BY ONLY n \in Nat, <1>2, <1>3, <2>1, <2>2, <2>3, Listed
<1>8. \A i \in DOMAIN a : Of(k, events, a[i]) /\ a[i].sequence = 0
  <2>1. DOMAIN a = DOMAIN s
    BY <1>4
  <2> QED BY <1>1, <1>6, <1>7, <2>1 DEF Of
<1>9. PICK b : b = IF since = 0 THEN << >> ELSE a
  OBVIOUS
<1>10. PICK g \in {"live", "replay", "gated"} : g = IF since = 0 THEN "live" ELSE "replay"
  OBVIOUS
<1>11. new = [key |-> k, mode |-> g, last |-> since, seen |-> {}, buffered |-> b, pages |-> 0,
              held |-> TRUE, heard |-> TRUE]
  BY <1>9, <1>10 DEF Subscription
<1>12. b \in Wires(n) /\ \A i \in DOMAIN b : Of(k, events, b[i])
  <2>1. << >> \in Wires(n) /\ DOMAIN << >> = {}
    BY EmptyWire
  <2> QED BY <1>7, <1>8, <1>9, <2>1
<1>13. new \in SubsTo(n)
  <2>1. b \in Seq(FramesTo(n))
    BY <1>12 DEF Wires
  <2>2. {} \in SUBSET (1 .. n) /\ 0 \in 0 .. MaxPages
    OBVIOUS
  <2> QED BY <1>11, <2>1, <2>2 DEF SubsTo
<1>14. new \in Sound(n, events)
  BY <1>11, <1>12, <1>13 DEF Sound
<1> QED BY <1>7, <1>8, <1>9, <1>10, <1>11, <1>14 DEF Begun

\* An event falls under one key at most.
LEMMA OneKey ==
  ASSUME NEW k \in Keys, NEW l \in Keys, NEW s, Covers(k, s), Covers(l, s)
  PROVE  k = l
BY KeysAssumption DEF Covers

-----------------------------------------------------------------------------
(* What holds of a key: R are the numbers its listeners have reached or    *)
(* will reach, I the events on the wire, T the events told or on the wire, *)
(* and W the rows of the log that the key covers.                          *)

\* From the first event on, no row up to top is left out.
Complete(W, R, T, top) == \A e \in W : \A x \in R : x <= e /\ e <= top => e \in T

\* Nothing goes out twice or late: what is sent next is past all that was sent ...
SubBase(sub, ev, R, I) ==
  /\ sub.held
  /\ sub.mode # "live" => \A x \in R : x <= sub.last
  /\ sub.mode = "gated" => sub.seen = {}
  /\ sub.mode = "replay" => /\ I \subseteq sub.seen /\ \A x \in sub.seen : x <= sub.last
                            /\ Tidy(sub.key, ev, sub.buffered)

\* ... and nothing is skipped.  The buffer of a replay holds all events of the key after
\* b and up to d; the pages that are left are enough for the rows up to b.
Buffered(sub, ev, W, b, d) ==
  /\ b <= d /\ (sub.heard => d = Len(ev))
  /\ \A i \in DOMAIN sub.buffered : sub.buffered[i].sequence # 0
       => b < sub.buffered[i].sequence /\ sub.buffered[i].sequence <= d
  /\ \A e \in 1 .. Len(ev) : b < e /\ e <= d /\ Covers(sub.key, ev[e].session)
       => \E i \in DOMAIN sub.buffered : sub.buffered[i] = Numbered(e)
  /\ Cardinality({e \in W : sub.last < e /\ e <= b}) <= (MaxPages - sub.pages) * PageSize

SubGap(sub, ev, R, T, W) ==
  /\ sub.mode # "replay" /\ sub.heard => Complete(W, R, T, Len(ev))
  /\ sub.mode = "replay" => /\ Complete(W, R, T, sub.last)
                            /\ \E b, d \in 0 .. Len(ev) : Buffered(sub, ev, W, b, d)

\* What was sent or what the log has only shrinks, what was told only grows.
Weaker(sub, ev, R, I, T, W, Q, J, U, V) ==
  /\ SubBase(sub, ev, R, I) => SubBase(sub, ev, Q, J)
  /\ SubGap(sub, ev, R, T, W) => SubGap(sub, ev, Q, U, V)

\* Both facts are monotone in what was sent, told and kept.
LEMMA SubWeaken ==
  ASSUME NEW n \in Nat, NEW sub, NEW ev, NEW R, NEW I, NEW T, NEW W \in SUBSET (1 .. n),
         NEW Q, NEW J, NEW U, NEW V, Q \subseteq R, J \subseteq I, T \subseteq U, V \subseteq W,
         MaxPages - sub.pages \in Int
  PROVE  Weaker(sub, ev, R, I, T, W, Q, J, U, V)
<1>1. SubBase(sub, ev, R, I) => SubBase(sub, ev, Q, J)
  BY DEF SubBase
<1>2. \A top : Complete(W, R, T, top) => Complete(V, Q, U, top)
  BY DEF Complete
<1>3. ASSUME NEW b, NEW d, Buffered(sub, ev, W, b, d) PROVE Buffered(sub, ev, V, b, d)
  <2>1. PICK x, y : /\ x = {e \in W : sub.last < e /\ e <= b}
                    /\ y = {e \in V : sub.last < e /\ e <= b}
    OBVIOUS
  <2>2. IsFiniteSet(1 .. n)
    BY FS_Interval
  <2>3. x \in SUBSET (1 .. n) /\ y \in SUBSET x
    BY <2>1
  <2>4. IsFiniteSet(x) /\ Cardinality(x) \in Nat
    BY <2>2, <2>3, FS_Subset, FS_CardinalityType
  <2>5. Cardinality(y) \in Nat /\ Cardinality(y) <= Cardinality(x)
    BY <2>3, <2>4, FS_Subset, FS_CardinalityType
  <2>6. PICK c \in Int : c = (MaxPages - sub.pages) * PageSize
    BY ConstantsAssumption
  <2>7. Cardinality(x) <= c
    BY <1>3, <2>1, <2>6 DEF Buffered
  <2>8. Cardinality(y) <= c
    BY <2>4, <2>5, <2>7
  <2> QED BY <1>3, <2>1, <2>6, <2>8 DEF Buffered
<1>4. SubGap(sub, ev, R, T, W) => SubGap(sub, ev, Q, U, V)
  <2> SUFFICES ASSUME SubGap(sub, ev, R, T, W) PROVE SubGap(sub, ev, Q, U, V)
    OBVIOUS
  <2>1. sub.mode # "replay" /\ sub.heard => Complete(V, Q, U, Len(ev))
    BY <1>2 DEF SubGap
  <2>2. sub.mode = "replay" => Complete(V, Q, U, sub.last)
    BY <1>2 DEF SubGap
  <2>3. sub.mode = "replay" => \E b, d \in 0 .. Len(ev) : Buffered(sub, ev, V, b, d)
    BY <1>3 DEF SubGap
  <2> QED BY <2>1, <2>2, <2>3 DEF SubGap
<1> QED BY <1>1, <1>4 DEF Weaker

\* A subscription keeps its promises when the log, the wire and what was told grow.
Keeps(sub, new, ev, ew, R, I, T, W, D, V) ==
  /\ SubBase(sub, ev, R, I) => SubBase(new, ew, R \cup D, I \cup D)
  /\ SubBase(sub, ev, R, I) /\ SubGap(sub, ev, R, T, W) => SubGap(new, ew, R \cup D, T \cup D, V)

\* A new event that the subscription does not hear, or that is not its key's.
LEMMA NotHeard ==
  ASSUME NEW n \in Nat, NEW ev, NEW ew, Len(ev) = n, Len(ew) = n + 1,
         \A e \in 1 .. n : ew[e] = ev[e], NEW sub \in Sound(n, ev),
         NEW R \in SUBSET (0 .. n), NEW I, NEW T, NEW W \in SUBSET (1 .. n), NEW V,
         ~sub.heard \/ ~Covers(sub.key, ew[n + 1].session),
         V = IF Covers(sub.key, ew[n + 1].session) THEN W \cup {n + 1} ELSE W
  PROVE  Keeps(sub, sub, ev, ew, R, I, T, W, {}, V)
<1>1. sub \in SubsTo(n) /\ sub.buffered \in Wires(n)
  BY DEF Sound
<1>2. sub.last \in Nat /\ sub.last <= n /\ sub.heard \in BOOLEAN /\ sub.key \in Keys
  BY <1>1 DEF SubsTo
<1>3. SubBase(sub, ev, R, I) => SubBase(sub, ew, R, I)
  <2>1. PICK q, k : q = sub.buffered /\ k = sub.key
    OBVIOUS
  <2>2. Tidy(k, ew, q) <=> Tidy(k, ev, q)
    BY <1>1, <2>1, LaterEvents
  <2> QED BY <2>1, <2>2 DEF SubBase
<1>4. ASSUME SubGap(sub, ev, R, T, W) PROVE SubGap(sub, ew, R, T, V)
  <2>1. \A e \in V : e \in W \/ (e = n + 1 /\ ~sub.heard)
    BY <1>2
  <2>2. \A e \in W : e \in Nat /\ e <= n /\ e \in V
    OBVIOUS
  <2>3. sub.mode # "replay" /\ sub.heard => Complete(V, R, T, Len(ew))
    BY <1>4, <2>1, <2>2 DEF SubGap, Complete
  <2>4. ASSUME sub.mode = "replay" PROVE Complete(V, R, T, sub.last)
    BY <1>2, <1>4, <2>1, <2>2, <2>4 DEF SubGap, Complete
  <2>5. ASSUME sub.mode = "replay"
        PROVE \E b, d \in 0 .. Len(ew) : Buffered(sub, ew, V, b, d)
    <3>1. PICK b \in 0 .. n, d \in 0 .. n : Buffered(sub, ev, W, b, d)
      BY <1>4, <2>5 DEF SubGap
    <3>2. PICK c : c = IF sub.heard THEN n + 1 ELSE d
      OBVIOUS
    <3>3. c \in 0 .. n + 1 /\ d <= c /\ b <= c /\ b \in 0 .. n + 1 /\ b \in Nat /\ c \in Nat
          /\ b <= n /\ d <= n
      BY <3>1, <3>2 DEF Buffered
    <3>4. {e \in V : sub.last < e /\ e <= b} = {e \in W : sub.last < e /\ e <= b}
      BY <2>1, <2>2, <3>3
    <3>5. sub.heard => c = Len(ew)
      BY <3>2
    <3>6. \A i \in DOMAIN sub.buffered : sub.buffered[i].sequence # 0
            => b < sub.buffered[i].sequence /\ sub.buffered[i].sequence <= c
      <4>1. PICK q : q = sub.buffered
        OBVIOUS
      <4>2. \A i \in DOMAIN q : q[i].sequence # 0 => b < q[i].sequence /\ q[i].sequence <= d
        BY <3>1, <4>1 DEF Buffered
      <4>3. \A i \in DOMAIN q : q[i].sequence \in 0 .. n
        <5>1. \A i \in DOMAIN q : q[i].kind = "event"
          BY <4>1 DEF Sound, Of
        <5> QED BY <1>1, <4>1, <5>1, FrameParts
      <4> QED BY <3>3, <4>1, <4>2, <4>3
    <3>7. ASSUME NEW e \in 1 .. n + 1, b < e, e <= c, Covers(sub.key, ew[e].session)
          PROVE  \E i \in DOMAIN sub.buffered : sub.buffered[i] = Numbered(e)
      <4>1. e <= d /\ e \in 1 .. n
        <5>1. CASE sub.heard
          <6>1. e # n + 1
            BY <3>7, <5>1
          <6>2. d = n
            BY <3>1, <5>1 DEF Buffered
          <6> QED BY <6>1, <6>2
        <5>2. CASE ~sub.heard
          BY <3>2, <3>3, <3>7, <5>2
        <5> QED BY <5>1, <5>2
      <4>2. Covers(sub.key, ev[e].session)
        BY <3>7, <4>1
      <4> QED BY <3>1, <3>7, <4>1, <4>2 DEF Buffered
    <3>8. Cardinality({e \in V : sub.last < e /\ e <= b}) <= (MaxPages - sub.pages) * PageSize
      BY <3>1, <3>4 DEF Buffered
    <3>9. Buffered(sub, ew, V, b, c)
      BY <3>3, <3>5, <3>6, <3>7, <3>8 DEF Buffered
    <3> QED BY <3>3, <3>9
  <2> QED BY <2>3, <2>4, <2>5 DEF SubGap
<1>5. R \cup {} = R /\ I \cup {} = I /\ T \cup {} = T
  OBVIOUS
<1> QED BY <1>3, <1>4, <1>5 DEF Keeps

\* A new event that the subscription hears.
LEMMA HeardKeeps ==
  ASSUME NEW n \in Nat, NEW ev, NEW ew, Len(ev) = n, Len(ew) = n + 1,
         \A e \in 1 .. n : ew[e] = ev[e], NEW sub \in Sound(n, ev),
         NEW R \in SUBSET (0 .. n), NEW I, NEW T, NEW W \in SUBSET (1 .. n),
         sub.heard, Covers(sub.key, ew[n + 1].session),
         NEW f, f = Numbered(n + 1), NEW new, new = Heard(sub, f),
         NEW D, D = IF Emits(sub, f) THEN {n + 1} ELSE {}, NEW V, V = W \cup {n + 1}
  PROVE  Keeps(sub, new, ev, ew, R, I, T, W, D, V)
<1>0. n \in Nat /\ n + 1 \in Nat /\ \A x \in R : x \in Nat /\ x <= n
  OBVIOUS
<1>1. sub \in SubsTo(n) /\ sub.buffered \in Wires(n)
  BY DEF Sound
<1>2. /\ sub.last \in Nat /\ sub.last <= n /\ sub.key \in Keys /\ sub.pages \in 0 .. MaxPages
      /\ sub.mode \in {"live", "replay", "gated"} /\ sub.seen \in SUBSET (1 .. n)
  BY <1>1 DEF SubsTo
<1>3. /\ new \in Sound(n + 1, ew)
      /\ new.key = sub.key /\ new.mode = sub.mode /\ new.pages = sub.pages
      /\ new.held = sub.held /\ new.heard = sub.heard
      /\ sub.mode = "live" => new.last = sub.last /\ new.buffered = sub.buffered
      /\ sub.mode = "replay" => new.last = sub.last /\ new.seen = sub.seen
                                /\ new.buffered = Append(sub.buffered, f)
      /\ sub.mode = "gated" => new.last = n + 1 /\ new.seen = {}
  <2>1. /\ n \in Nat /\ \A e \in 1 .. n : ew[e] = ev[e]
        /\ sub \in Sound(n, ev) /\ Covers(sub.key, ew[n + 1].session)
        /\ f = Numbered(n + 1) /\ new = Heard(sub, f)
    OBVIOUS
  <2>2. new \in Sound(n + 1, ew) /\ Hearing(sub, f, new)
    BY ONLY <2>1, HeardIs
  <2>3. f.id = n + 1
    BY DEF Numbered, Event
  <2> QED BY <2>2, <2>3 DEF Hearing
<1>4. f.kind = "event" /\ f.id = n + 1 /\ f.sequence = n + 1
  BY DEF Numbered, Event
<1>5. CASE sub.mode = "live"
  <2>1. D = {n + 1}
    BY <1>5 DEF Emits
  <2>2. SubBase(sub, ev, R, I) => SubBase(new, ew, R \cup D, I \cup D)
    BY <1>3, <1>5 DEF SubBase
  <2>3. ASSUME SubGap(sub, ev, R, T, W) PROVE SubGap(new, ew, R \cup D, T \cup D, W \cup {n + 1})
    <3>1. Complete(W, R, T, n)
      BY <1>5, <2>3 DEF SubGap
    <3>2. Complete(W \cup {n + 1}, R \cup D, T \cup D, n + 1)
      BY <1>0, <2>1, <3>1 DEF Complete
    <3> QED BY <1>3, <1>5, <3>2 DEF SubGap
  <2> QED BY <2>2, <2>3 DEF Keeps
<1>6. CASE sub.mode = "gated"
  <2>1. SubBase(sub, ev, R, I) => D = {n + 1}
    <3>1. n + 1 > sub.last
      BY <1>2
    <3> QED BY <1>4, <1>6, <3>1 DEF Emits, Passes, SubBase
  <2>2. SubBase(sub, ev, R, I) => SubBase(new, ew, R \cup D, I \cup D)
    <3>1. \A x \in R \cup {n + 1} : x <= n + 1
      BY <1>0
    <3> QED BY <1>3, <1>6, <2>1, <3>1 DEF SubBase
  <2>3. ASSUME SubBase(sub, ev, R, I), SubGap(sub, ev, R, T, W)
        PROVE  SubGap(new, ew, R \cup D, T \cup D, W \cup {n + 1})
    <3>1. Complete(W, R, T, n)
      BY <1>6, <2>3 DEF SubGap
    <3>0. D = {n + 1}
      BY <2>1, <2>3
    <3>2. Complete(W \cup {n + 1}, R \cup D, T \cup D, n + 1)
      BY <1>0, <3>0, <3>1 DEF Complete
    <3> QED BY <1>3, <1>6, <3>2 DEF SubGap
  <2> QED BY <2>2, <2>3 DEF Keeps
<1>7. CASE sub.mode = "replay"
  <2>0. D = {} /\ R \cup D = R /\ T \cup D = T /\ I \cup D = I
    BY <1>7 DEF Emits
  <2>1. PICK q, u, k : q = sub.buffered /\ u = Append(q, f) /\ k = sub.key
    OBVIOUS
  <2>2. q \in Seq(FramesTo(n))
    BY <1>1, <2>1 DEF Wires
  <2>3. PICK m \in Nat : m = Len(q)
    BY <2>2
  <2>4. /\ DOMAIN q = 1 .. m /\ DOMAIN u = 1 .. m + 1
        /\ (\A i \in 1 .. m : u[i] = q[i]) /\ u[m + 1] = f
    <3>1. DOMAIN u = 1 .. m + 1
      BY <2>1, <2>2, <2>3
    <3>2. \A i \in 1 .. m : u[i] = q[i]
      BY <2>1, <2>2, <2>3
    <3> QED BY <2>1, <2>2, <2>3, <3>1, <3>2
  <2>5. \A i \in 1 .. m : q[i].kind = "event" /\ q[i].id \in 1 .. n /\ q[i].sequence \in 0 .. n
    <3>1. \A i \in DOMAIN q : q[i].kind = "event"
      BY <2>1 DEF Sound, Of
    <3> QED BY <1>1, <2>1, <2>4, <3>1, FrameParts
  <2>6. ASSUME SubBase(sub, ev, R, I) PROVE SubBase(new, ew, R, I)
    <3>1. Tidy(k, ew, q)
      <4>1. Tidy(k, ev, q)
        BY <1>7, <2>1, <2>6 DEF SubBase
      <4> QED BY <1>1, <2>1, <4>1, LaterEvents
    <3>2. Tidy(k, ew, u)
      <4> SUFFICES ASSUME NEW i \in 1 .. m + 1, NEW j \in 1 .. m + 1, i < j,
                          Of(k, ew, u[i]), Of(k, ew, u[j])
                   PROVE  /\ u[i].id # u[j].id
                          /\ u[i].sequence = 0 \/ u[j].sequence = 0 \/ u[i].sequence < u[j].sequence
        BY <2>4 DEF Tidy
      <4>1. CASE j \in 1 .. m
        <5>1. i \in 1 .. m
          BY <4>1
        <5> QED BY <2>4, <3>1, <4>1, <5>1 DEF Tidy
      <4>2. CASE j \notin 1 .. m
        <5>1. i \in 1 .. m /\ j = m + 1
          BY <4>2
        <5>2. u[i].id \in 1 .. n /\ u[i].sequence \in 0 .. n /\ u[j].id = n + 1
              /\ u[j].sequence = n + 1
          BY <1>4, <2>4, <2>5, <5>1
        <5> QED BY <5>2
      <4> QED BY <4>1, <4>2
    <3> QED BY <1>3, <1>7, <2>1, <2>6, <3>2 DEF SubBase
  <2>7. ASSUME SubGap(sub, ev, R, T, W) PROVE SubGap(new, ew, R, T, W \cup {n + 1})
    <3>1. Complete(W \cup {n + 1}, R, T, sub.last)
      <4>1. Complete(W, R, T, sub.last)
        BY <1>7, <2>7 DEF SubGap
      <4> QED BY <1>2, <4>1 DEF Complete
    <3>2. PICK b \in 0 .. n, d \in 0 .. n : Buffered(sub, ev, W, b, d)
      BY <1>7, <2>7 DEF SubGap
    <3>3. d = n /\ b \in Nat /\ b <= n /\ b \in 0 .. n + 1 /\ n + 1 \in 0 .. n + 1 /\ b <= n + 1
      BY <3>2 DEF Buffered
    <3>4. V = W \cup {n + 1}
      OBVIOUS
    <3>5. {e \in V : sub.last < e /\ e <= b} = {e \in W : sub.last < e /\ e <= b}
      BY <3>3, <3>4
    <3>6. \A i \in DOMAIN u : u[i].sequence # 0 => b < u[i].sequence /\ u[i].sequence <= n + 1
      <4> SUFFICES ASSUME NEW i \in 1 .. m + 1, u[i].sequence # 0
                   PROVE  b < u[i].sequence /\ u[i].sequence <= n + 1
        BY <2>4
      <4>1. CASE i \in 1 .. m
        <5>1. q[i].sequence # 0 => b < q[i].sequence
          BY <2>1, <2>4, <3>2, <4>1 DEF Buffered
        <5> QED BY <2>4, <2>5, <4>1, <5>1
      <4>2. CASE i = m + 1
        BY <1>4, <2>4, <3>3, <4>2
      <4> QED BY <4>1, <4>2
    <3>7. ASSUME NEW e \in 1 .. n + 1, b < e, Covers(k, ew[e].session)
          PROVE  \E i \in DOMAIN u : u[i] = Numbered(e)
      <4>1. CASE e = n + 1
        <5>1. m + 1 \in 1 .. m + 1
          OBVIOUS
        <5> QED BY <2>4, <4>1, <5>1
      <4>2. CASE e # n + 1
        <5>1. e \in 1 .. n
          BY <4>2
        <5>2. Covers(k, ev[e].session) /\ e <= d
          BY <3>3, <3>7, <5>1
        <5>3. PICK i \in 1 .. m : q[i] = Numbered(e)
          BY <2>1, <2>4, <3>2, <3>7, <5>1, <5>2 DEF Buffered
        <5>4. i \in 1 .. m + 1
          OBVIOUS
        <5> QED BY <2>4, <5>3, <5>4
      <4> QED BY <4>1, <4>2
    <3>8. Cardinality({e \in V : new.last < e /\ e <= b}) <= (MaxPages - new.pages) * PageSize
      <4>1. new.last = sub.last /\ new.pages = sub.pages
        BY <1>3, <1>7
      <4> QED BY <3>2, <3>5, <4>1 DEF Buffered
    <3>9. Buffered(new, ew, V, b, n + 1)
      <4>1. new.buffered = u /\ new.key = k /\ Len(ew) = n + 1
        BY <1>3, <1>7, <2>1
      <4> QED BY <3>3, <3>6, <3>7, <3>8, <4>1 DEF Buffered
    <3>10. Complete(V, R, T, new.last)
      BY <1>3, <1>7, <3>1, <3>4
    <3>11. SubGap(new, ew, R, T, V)
      BY <1>3, <1>7, <3>3, <3>9, <3>10 DEF SubGap
    <3> QED BY <3>4, <3>11
  <2> QED BY <2>0, <2>6, <2>7 DEF Keeps
<1> QED BY <1>2, <1>5, <1>6, <1>7

\* The first rows of L are a page: it leaves no row out, and takes PageSize rows or all.
LEMMA PageTakes ==
  ASSUME NEW n \in Nat, NEW L \in SUBSET (1 .. n), NEW P,
         P = {e \in L : Cardinality({d \in L : d <= e}) <= PageSize}
  PROVE  /\ \A e \in L : \A h \in P : e <= h => e \in P
         /\ P = L \/ PageSize <= Cardinality(P)
<1>0. PageSize \in Nat /\ PageSize # 0
  BY ConstantsAssumption
<1>1. /\ Cardinality(L) \in Nat
      /\ \A i \in L : Rank(L, i) \in 1 .. Cardinality(L)
      /\ \A i, j \in L : i < j => Rank(L, i) < Rank(L, j)
      /\ \A k \in 1 .. Cardinality(L) : \E i \in L : Rank(L, i) = k
  BY Ranks
<1>2. P = {e \in L : Rank(L, e) <= PageSize}
  BY DEF Rank
<1>3. \A e \in L : e \in Nat /\ Rank(L, e) \in Nat
  BY <1>1
<1>4. ASSUME NEW e \in L, NEW h \in P, e <= h PROVE e \in P
  <2>1. h \in L /\ Rank(L, h) <= PageSize
    BY <1>2
  <2>2. e = h \/ Rank(L, e) < Rank(L, h)
    BY <1>1, <1>3, <1>4, <2>1
  <2> QED BY <1>0, <1>2, <1>3, <2>1, <2>2
<1>5. ASSUME P # L PROVE PageSize <= Cardinality(P)
  <2>1. PICK e \in L : Rank(L, e) > PageSize
    <3>1. PICK e \in L : e \notin P
      BY <1>2, <1>5
    <3>2. ~(Rank(L, e) <= PageSize) /\ Rank(L, e) \in Nat
      BY <1>2, <1>3, <3>1
    <3> QED BY <1>0, <3>1, <3>2
  <2>2. PageSize \in 1 .. Cardinality(L)
    <3>1. Rank(L, e) <= Cardinality(L)
      BY <1>1
    <3> QED BY <1>0, <1>1, <1>3, <2>1, <3>1
  <2>3. PICK x \in L : Rank(L, x) = PageSize
    BY <1>1, <2>2
  <2>4. PICK A : A = {d \in L : d <= x}
    OBVIOUS
  <2>5. Cardinality(A) = PageSize
    BY <2>3, <2>4 DEF Rank
  <2>6. x \in P
    BY <1>0, <1>2, <2>3
  <2>7. A \in SUBSET P /\ P \in SUBSET (1 .. n)
    BY <1>2, <1>4, <2>4, <2>6
  <2>8. IsFiniteSet(1 .. n)
    BY FS_Interval
  <2>9. IsFiniteSet(P)
    BY <2>7, <2>8, FS_Subset
  <2>10. Cardinality(A) <= Cardinality(P)
    BY <2>7, <2>9, FS_Subset
  <2> QED BY <2>5, <2>10
<1> QED BY <1>4, <1>5

\* The first page of the rows L, and the rows after lo and up to b.
FirstPage(L) == {e \in L : Cardinality({d \in L : d <= e}) <= PageSize}
Between(L, lo, b) == {e \in L : lo < e /\ e <= b}

\* After a page of the rows after lo, the pages that are left are still enough.
LEMMA RowsLeft ==
  ASSUME NEW n \in Nat, NEW L \in SUBSET (1 .. n), NEW P, P = FirstPage(L),
         NEW b \in Nat, NEW hi \in P, \A e \in P : e <= hi, NEW p \in Nat, p + 1 <= MaxPages,
         Cardinality(Between(L, 0, b)) <= (MaxPages - p) * PageSize
  PROVE  Cardinality(Between(L, hi, b)) <= (MaxPages - (p + 1)) * PageSize
<1>0. PageSize \in Nat /\ MaxPages \in Nat
  BY ConstantsAssumption
<1>1. /\ \A e \in L : \A h \in P : e <= h => e \in P
      /\ P = L \/ PageSize <= Cardinality(P)
  BY PageTakes DEF FirstPage
<1>2. PICK A, B : /\ A = Between(L, 0, b) /\ B = Between(L, hi, b)
                  /\ A = {e \in L : e <= b} /\ B = {e \in L : hi < e /\ e <= b}
  <2>1. \A e \in L : 0 < e
    OBVIOUS
  <2> QED BY <2>1 DEF Between
<1>3. A \in SUBSET (1 .. n) /\ B \in SUBSET (1 .. n) /\ P \in SUBSET (1 .. n)
  BY <1>2 DEF FirstPage
<1>4. IsFiniteSet(1 .. n)
  BY FS_Interval
<1>5. /\ IsFiniteSet(A) /\ Cardinality(A) \in Nat
      /\ IsFiniteSet(B) /\ Cardinality(B) \in Nat
      /\ IsFiniteSet(P) /\ Cardinality(P) \in Nat
  BY <1>3, <1>4, FS_Subset, FS_CardinalityType
<1>6. PICK r \in Nat : r = MaxPages - (p + 1)
  BY <1>0
<1>7. /\ (MaxPages - p) * PageSize = r * PageSize + PageSize
      /\ (MaxPages - (p + 1)) * PageSize = r * PageSize
  <2>1. MaxPages - p = r + 1
    BY <1>0, <1>6
  <2>2. (r + 1) * PageSize = r * PageSize + PageSize
    BY <1>0
  <2> QED BY <1>6, <2>1, <2>2
<1>8. PICK t \in Nat : t = r * PageSize
  <2>1. r * PageSize \in Nat
    BY <1>0
  <2> QED BY <2>1
<1>9. CASE B = {}
  <2>1. Cardinality(B) = 0
    BY <1>9, FS_EmptySet
  <2> QED BY <1>2, <1>7, <1>8, <2>1
<1>10. CASE B # {}
  <2>1. (\A e \in L : e \in Nat) /\ (\A e \in P : e \in L)
    BY DEF FirstPage
  <2>2. PICK x \in B : TRUE
    BY <1>10
  <2>3. hi \in Nat /\ hi <= b /\ x \in L /\ hi < x
    <3>1. x \in L /\ hi < x /\ x <= b
      BY <1>2, <2>2
    <3>2. hi \in Nat /\ x \in Nat
      BY <2>1, <3>1
    <3> QED BY <3>1, <3>2
  <2>4. P # L
    <3>1. x \notin P
      BY <2>1, <2>3
    <3> QED BY <2>3, <3>1
  <2>5. \A e \in P : e \in A /\ e \notin B
    <3>1. \A e \in P : e \in L /\ e \in Nat /\ e <= hi /\ e <= b
      BY <2>1, <2>3
    <3>2. \A e \in P : ~(hi < e)
      BY <2>3, <3>1
    <3> QED BY <1>2, <3>1, <3>2
  <2>6. B \in SUBSET A /\ B \cup P \in SUBSET A /\ B \cap P = {}
    BY <1>2, <2>5
  <2>7. Cardinality(B \cup P) = Cardinality(B) + Cardinality(P)
    <3>1. Cardinality(B \cup P) = Cardinality(B) + Cardinality(P) - Cardinality(B \cap P)
      BY <1>5, FS_Union
    <3>2. Cardinality(B \cap P) = 0
      BY <2>6, FS_EmptySet
    <3> QED BY <1>5, <3>1, <3>2
  <2>8. Cardinality(B \cup P) <= Cardinality(A)
    BY <1>5, <2>6, FS_Subset
  <2>9. Cardinality(A) <= t + PageSize
    BY <1>2, <1>7, <1>8
  <2>10. PageSize <= Cardinality(P)
    BY <1>1, <2>4
  <2>11. Cardinality(B) <= t
    BY <1>0, <1>5, <2>7, <2>8, <2>9, <2>10
  <2> QED BY <1>2, <1>7, <1>8, <2>11
<1> QED BY <1>9, <1>10

\* What a round of the replay sends is new and in order ...
Advances(sub, new, a, R, I) ==
  LET N == NumsOn(sub.key, events, a)
      J == IdsOn(sub.key, events, a)
  IN  /\ new.key = sub.key /\ Tidy(sub.key, events, a)
      /\ J \cap I = {} /\ \A x \in R, y \in N : x < y
      /\ \A i \in DOMAIN a : Of(sub.key, events, a[i])
      /\ SubBase(new, events, R \cup N, I \cup J)

\* ... and leaves nothing out.
Completes(sub, new, a, R, T, W) ==
  LET N == NumsOn(sub.key, events, a)
  IN  /\ SubGap(new, events, R \cup N, T \cup N, W)
      /\ \A y \in R \cup N : Complete(W, R \cup N, T \cup N, y)

\* A page keeps what holds of a subscription.
LEMMA PageAdvances ==
  ASSUME NEW n \in Nat, n = Len(events), log \in SUBSET (1 .. n), NEW sub \in Sound(n, events),
         sub.mode = "replay", NEW a, a = RoundFrames(sub), NEW new, new = Round(sub),
         ~ReplayOver(sub), NEW R \in SUBSET (0 .. n), NEW I \in SUBSET (1 .. n), NEW T, NEW W,
         W = {e \in log : Covers(sub.key, events[e].session)},
         SubBase(sub, events, R, I)
  PROVE  /\ a \in Wires(n) /\ new \in Sound(n, events) /\ Advances(sub, new, a, R, I)
         /\ SubGap(sub, events, R, T, W) => Completes(sub, new, a, R, T, W)
<1>1. sub \in SubsTo(n)
  BY DEF Sound
<1>2. PICK p \in 0 .. MaxPages, lo \in 0 .. n : p = sub.pages /\ lo = sub.last
  BY <1>1 DEF SubsTo
<1>3. MaxPages \in Nat /\ p + 1 <= MaxPages /\ p \in Nat /\ sub.pages + 1 \in 0 .. MaxPages
  <2>1. MaxPages \in Nat /\ p # MaxPages
    BY <1>2, ConstantsAssumption DEF ReplayOver
  <2> QED BY <1>2, <2>1
<1>4. PICK P, k : P = Page(sub) /\ k = sub.key
  OBVIOUS
<1>5. a \in Wires(n) /\ new \in Sound(n, events) /\ Paged(sub, new, a, P)
  BY <1>3, <1>4, RoundPage
<1>6. /\ \A e \in P : e \in log /\ e > lo /\ Covers(k, events[e].session)
      /\ Tidy(k, events, a)
      /\ \A j \in DOMAIN a : /\ Of(k, events, a[j]) /\ a[j].sequence = a[j].id
                             /\ a[j].id \in P \ sub.seen
      /\ \A e \in P \ sub.seen : \E j \in DOMAIN a : a[j].id = e
      /\ new.key = sub.key /\ new.mode = sub.mode /\ new.buffered = sub.buffered
      /\ new.pages = sub.pages + 1 /\ new.held = sub.held /\ new.heard = sub.heard
      /\ new.last \in P /\ \A e \in P : e <= new.last
      /\ new.seen = sub.seen \cup P
  BY <1>2, <1>4, <1>5 DEF Paged
<1>0. PICK hi \in P : hi = new.last
  BY <1>6
<1>7. \A e \in P : e \in W /\ e \in 1 .. n /\ e \in Nat /\ lo < e /\ e <= hi
  <2>1. \A e \in P : e \in W /\ e \in 1 .. n
    BY <1>4, <1>6
  <2>2. \A e \in P : e \in Nat
    BY <2>1
  <2> QED BY <1>0, <1>2, <1>6, <2>1, <2>2
<1>8. /\ I \subseteq sub.seen /\ (\A x \in sub.seen : x <= lo) /\ (\A x \in R : x <= lo)
      /\ Tidy(k, events, sub.buffered) /\ sub.held
  BY <1>2, <1>4 DEF SubBase
<1>9. P \ sub.seen = P
  <2>1. \A e \in P : ~(e <= lo)
    BY <1>2, <1>7
  <2> QED BY <1>8, <2>1
<1>10. PICK N, J : N = NumsOn(k, events, a) /\ J = IdsOn(k, events, a)
  OBVIOUS
<1>11. J = P
  <2>1. J = {a[i].id : i \in {i \in DOMAIN a : Of(k, events, a[i])}}
    BY <1>10 DEF IdsOn
  <2>2. \A x \in J : x \in P
    BY <1>6, <2>1
  <2>3. ASSUME NEW e \in P PROVE e \in J
    <3>1. PICK j \in DOMAIN a : a[j].id = e
      BY <1>6, <1>9
    <3> QED BY <1>6, <2>1, <3>1
  <2> QED BY <2>2, <2>3
<1>12. N = P
  <2>1. N = {a[i].sequence : i \in {i \in DOMAIN a : Of(k, events, a[i])}} \ {0}
    BY <1>10 DEF NumsOn
  <2>2. \A x \in N : x \in P
    BY <1>6, <2>1
  <2>3. ASSUME NEW e \in P PROVE e \in N
    <3>1. PICK j \in DOMAIN a : a[j].id = e
      BY <1>6, <1>9
    <3>2. e # 0
      BY <1>7
    <3> QED BY <1>6, <2>1, <3>1, <3>2
  <2> QED BY <2>2, <2>3
<1>13. P \cap I = {} /\ \A x \in R, y \in P : x < y
  <2>1. \A x \in R : x \in Nat
    OBVIOUS
  <2>2. \A x \in R, y \in P : x < y
    BY <1>2, <1>7, <1>8, <2>1
  <2> QED BY <1>8, <1>9, <2>2
<1>14. /\ \A x \in R \cup P : x <= hi
       /\ \A x \in sub.seen \cup P : x <= hi
  <2>1. \A x \in R : x \in Nat
    OBVIOUS
  <2>2. \A x \in sub.seen : x \in Nat
    <3>1. sub.seen \in SUBSET (1 .. n)
      BY <1>1 DEF SubsTo
    <3> QED BY <3>1
  <2> QED BY <1>2, <1>7, <1>8, <2>1, <2>2
<1>15. SubBase(new, events, R \cup P, I \cup P)
  BY <1>4, <1>5, <1>6, <1>0, <1>8, <1>14 DEF SubBase
<1>16. Advances(sub, new, a, R, I)
  BY <1>4, <1>5, <1>6, <1>10, <1>11, <1>12, <1>13, <1>15 DEF Advances
<1>17. ASSUME SubGap(sub, events, R, T, W) PROVE Completes(sub, new, a, R, T, W)
  <2>1. PICK L : L = {e \in log : e > lo /\ Covers(k, events[e].session)}
    OBVIOUS
  <2>2. P = {e \in L : Cardinality({d \in L : d <= e}) <= PageSize} /\ L \in SUBSET (1 .. n)
    BY <1>2, <1>4, <2>1 DEF Page
  <2>3. \A e \in L : \A h \in P : e <= h => e \in P
    BY <2>2, PageTakes
  <2>4. \A e \in W : e \in Nat /\ (lo < e => e \in L)
    <3>1. \A e \in W : e \in Nat
      OBVIOUS
    <3>2. \A e \in W : lo < e => e > lo
      BY <1>2, <3>1
    <3> QED BY <1>4, <2>1, <3>1, <3>2
  <2>5. Complete(W, R \cup P, T \cup P, hi)
    <3> SUFFICES ASSUME NEW e \in W, NEW x \in R \cup P, x <= e, e <= hi, e \notin P PROVE e \in T
      BY DEF Complete
    <3>1. ~(lo < e) /\ e \in Nat
      BY <2>3, <2>4
    <3>2. e <= lo
      BY <1>2, <3>1
    <3>3. x \in R
      <4>1. x \in P => x \in Nat /\ lo < x
        BY <1>7
      <4> QED BY <1>2, <3>1, <3>2, <4>1
    <3>4. Complete(W, R, T, lo)
      BY <1>2, <1>17 DEF SubGap
    <3> QED BY <3>2, <3>3, <3>4 DEF Complete
  <2>6. \A y \in R \cup P : Complete(W, R \cup P, T \cup P, y)
    <3>0. \A y \in R : y \in Nat
      OBVIOUS
    <3>1. hi \in Nat /\ \A y \in R \cup P : y \in Nat /\ y <= hi
      BY <1>7, <1>14, <3>0
    <3>2. \A e \in W, y \in R \cup P : e <= y => e <= hi
      BY <2>4, <3>1
    <3> QED BY <2>5, <3>2 DEF Complete
  <2>7. PICK b \in 0 .. n, d \in 0 .. n : Buffered(sub, events, W, b, d)
    BY <1>17 DEF SubGap
  <2>8. Buffered(new, events, W, b, d)
    <3>1. Cardinality({e \in W : lo < e /\ e <= b}) <= (MaxPages - p) * PageSize
      BY <1>2, <2>7 DEF Buffered
    <3>2. {e \in W : lo < e /\ e <= b} = {e \in L : e <= b}
      <4>1. \A e \in L : e \in W /\ lo < e
        BY <1>2, <1>4, <2>1
      <4> QED BY <2>4, <4>1
    <3>3. Cardinality(Between(L, hi, b)) <= (MaxPages - (p + 1)) * PageSize
      <4>1. Between(L, 0, b) = {e \in L : e <= b}
        <5>1. \A e \in L : 0 < e
          BY <2>2
        <5> QED BY <5>1 DEF Between
      <4>2. Cardinality(Between(L, 0, b)) <= (MaxPages - p) * PageSize
        BY <3>1, <3>2, <4>1
      <4>3. b \in Nat /\ \A e \in P : e <= hi
        BY <1>7
      <4>4. P = FirstPage(L) /\ L \in SUBSET (1 .. n)
        BY <2>2 DEF FirstPage
      <4> QED BY ONLY n \in Nat, hi \in P, <1>3, <4>2, <4>3, <4>4, RowsLeft
    <3>4. {e \in W : hi < e /\ e <= b} = {e \in L : hi < e /\ e <= b}
      <4>1. \A e \in L : e \in W
        BY <1>2, <1>4, <2>1
      <4>2. \A e \in W : hi < e => lo < e
        BY <1>2, <1>7, <2>4
      <4> QED BY <2>4, <4>1, <4>2
    <3>5. Cardinality({e \in W : new.last < e /\ e <= b}) <= (MaxPages - new.pages) * PageSize
      BY <1>2, <1>5, <1>6, <1>0, <3>3, <3>4 DEF Between
    <3> QED BY <1>5, <1>6, <2>7, <3>5 DEF Buffered
  <2>9. SubGap(new, events, R \cup P, T \cup P, W)
    BY <1>5, <1>6, <1>0, <2>5, <2>8 DEF SubGap
  <2> QED BY <1>4, <1>10, <1>12, <2>6, <2>9 DEF Completes
<1> QED BY <1>5, <1>6, <1>16, <1>17

\* So does the end of the replay, when the buffer goes out after the pages.
LEMMA OverAdvances ==
  ASSUME NEW n \in Nat, n = Len(events), log \in SUBSET (1 .. n), NEW sub \in Sound(n, events),
         sub.mode = "replay", NEW a, a = RoundFrames(sub), NEW new, new = Round(sub),
         ReplayOver(sub), NEW R \in SUBSET (0 .. n), NEW I \in SUBSET (1 .. n), NEW T, NEW W,
         W = {e \in log : Covers(sub.key, events[e].session)},
         SubBase(sub, events, R, I)
  PROVE  /\ a \in Wires(n) /\ new \in Sound(n, events) /\ Advances(sub, new, a, R, I)
         /\ SubGap(sub, events, R, T, W) => Completes(sub, new, a, R, T, W)
<1>0. MaxPages \in Nat /\ PageSize \in Nat /\ PageSize # 0
  BY ConstantsAssumption
<1>1. sub \in SubsTo(n) /\ sub.buffered \in Wires(n)
  BY DEF Sound
<1>2. PICK p \in 0 .. MaxPages, lo \in 0 .. n : p = sub.pages /\ lo = sub.last
  BY <1>1 DEF SubsTo
<1>3. PICK q, k : q = sub.buffered /\ k = sub.key
  OBVIOUS
<1>4. /\ a \in Wires(n) /\ (Tidy(k, events, q) => Tidy(k, events, a))
      /\ \A j \in DOMAIN a : \E i \in DOMAIN q : a[j] = q[i] /\ Passes(sub, q[i])
      /\ \A i \in DOMAIN q : Passes(sub, q[i]) => \E j \in DOMAIN a : a[j] = q[i]
      /\ new \in Sound(n, events)
      /\ new.mode = "gated" /\ new.buffered = << >> /\ new.seen = {} /\ new.pages = 0
      /\ new.key = sub.key /\ new.held = sub.held /\ new.heard = sub.heard
      /\ sub.last <= new.last /\ \A i \in DOMAIN q : q[i].sequence <= new.last
  <2>1. a \in Wires(n) /\ new \in Sound(n, events) /\ Flushed(sub, new, a)
    BY RoundOver
  <2> QED BY <1>3, <2>1 DEF Flushed
<1>5. \A i \in DOMAIN q : /\ Of(k, events, q[i]) /\ q[i].id \in 1 .. n
                          /\ q[i].sequence \in {0, q[i].id} /\ q[i].sequence \in 0 .. n
  <2>1. \A i \in DOMAIN q : Of(k, events, q[i]) /\ q[i].kind = "event"
    BY <1>3 DEF Sound, Of
  <2> QED BY <1>1, <1>3, <2>1, FrameParts
<1>6. /\ I \subseteq sub.seen /\ (\A x \in sub.seen : x <= lo) /\ (\A x \in R : x <= lo)
      /\ Tidy(k, events, q) /\ sub.held
  BY <1>2, <1>3 DEF SubBase
<1>7. PICK N, J : N = NumsOn(k, events, a) /\ J = IdsOn(k, events, a)
  OBVIOUS
<1>8. \A j \in DOMAIN a : Of(k, events, a[j]) /\ Passes(sub, a[j])
                          /\ \E i \in DOMAIN q : a[j] = q[i]
  BY <1>4, <1>5
<1>9. J \cap I = {}
  <2>1. \A x \in J : x \notin sub.seen
    BY <1>7, <1>8 DEF IdsOn, Passes
  <2> QED BY <1>6, <2>1
<1>10. \A y \in N : y \in Nat /\ lo < y /\ y <= new.last /\ \E i \in DOMAIN q : y = q[i].sequence
  <2> SUFFICES ASSUME NEW y \in N
               PROVE  y \in Nat /\ lo < y /\ y <= new.last /\ \E i \in DOMAIN q : y = q[i].sequence
    OBVIOUS
  <2>1. PICK j \in DOMAIN a : y = a[j].sequence /\ y # 0
    BY <1>7 DEF NumsOn
  <2>2. PICK i \in DOMAIN q : a[j] = q[i] /\ Passes(sub, q[i])
    BY <1>8
  <2>3. y \in Nat /\ y > lo
    BY <1>2, <1>5, <2>1, <2>2 DEF Passes
  <2> QED BY <1>2, <1>4, <2>1, <2>2, <2>3
<1>11. \A x \in R, y \in N : x < y
  <2>1. \A x \in R : x \in Nat
    OBVIOUS
  <2> QED BY <1>2, <1>6, <1>10, <2>1
<1>12. SubBase(new, events, R \cup N, I \cup J)
  <2>1. \A x \in R : x \in Nat
    OBVIOUS
  <2>2. new.last \in Nat
    BY <1>4 DEF Sound, SubsTo
  <2>3. \A x \in R \cup N : x <= new.last
    BY <1>2, <1>4, <1>6, <1>10, <2>1, <2>2
  <2> QED BY <1>4, <1>6, <2>3 DEF SubBase
<1>13. Advances(sub, new, a, R, I)
  <2>1. Tidy(k, events, a)
    BY <1>3, <1>4, <1>6
  <2> QED BY <1>3, <1>4, <1>7, <1>8, <1>9, <1>11, <1>12, <2>1 DEF Advances
<1>14. ASSUME SubGap(sub, events, R, T, W) PROVE Completes(sub, new, a, R, T, W)
  <2>1. PICK b \in 0 .. n, d \in 0 .. n : Buffered(sub, events, W, b, d)
    BY <1>14 DEF SubGap
  <2>2. \A e \in W : e \in 1 .. n /\ e \in Nat /\ e \in log /\ Covers(k, events[e].session)
    BY <1>3
  <2>3. ASSUME NEW e \in W, lo < e, e <= b PROVE FALSE
    <3>1. CASE p = MaxPages
      <4>1. PICK x : x = {h \in W : lo < h /\ h <= b}
        OBVIOUS
      <4>2. Cardinality(x) <= (MaxPages - p) * PageSize
        BY <1>2, <2>1, <4>1 DEF Buffered
      <4>3. (MaxPages - p) * PageSize = 0
        <5>1. MaxPages - p = 0
          BY <1>0, <3>1
        <5>2. 0 * PageSize = 0
          BY <1>0
        <5> QED BY <5>1, <5>2
      <4>4. x \in SUBSET (1 .. n) /\ e \in x
        BY <2>2, <2>3, <4>1
      <4>5. IsFiniteSet(1 .. n)
        BY FS_Interval
      <4>6. IsFiniteSet(x) /\ Cardinality(x) \in Nat
        BY <4>4, <4>5, FS_Subset, FS_CardinalityType
      <4>7. Cardinality(x) # 0
        BY <4>4, <4>6, FS_EmptySet
      <4> QED BY <4>2, <4>3, <4>6, <4>7
    <3>2. CASE Page(sub) = {}
      <4>1. PICK L : L = {h \in log : h > sub.last /\ Covers(k, events[h].session)}
        OBVIOUS
      <4>2. Page(sub) = {h \in L : Rank(L, h) <= PageSize} /\ L \in SUBSET (1 .. n)
        BY <1>3, <4>1 DEF Page, Rank
      <4>3. e \in L
        BY <1>2, <2>2, <2>3, <4>1
      <4>4. /\ Cardinality(L) \in Nat
            /\ \A i \in L : Rank(L, i) \in 1 .. Cardinality(L)
            /\ \A j \in 1 .. Cardinality(L) : \E i \in L : Rank(L, i) = j
        BY <4>2, Ranks
      <4>5. 1 \in 1 .. Cardinality(L)
        <5>1. Rank(L, e) \in 1 .. Cardinality(L)
          BY <4>3, <4>4
        <5> QED BY <4>4, <5>1
      <4>6. PICK i \in L : Rank(L, i) = 1
        BY <4>4, <4>5
      <4>7. 1 <= PageSize
        BY <1>0
      <4> QED BY <3>2, <4>2, <4>6, <4>7
    <3> QED BY <1>2, <3>1, <3>2 DEF ReplayOver
  <2>4. ASSUME NEW e \in W, lo < e, e <= d PROVE e \in N
    <3>1. b < e
      BY <2>2, <2>3, <2>4
    <3>2. PICK i \in DOMAIN q : q[i] = Numbered(e)
      BY <1>3, <2>1, <2>2, <2>4, <3>1 DEF Buffered
    <3>3. q[i].sequence = e /\ q[i].id = e /\ e # 0
      BY <2>2, <3>2 DEF Numbered, Event
    <3>4. e \notin sub.seen
      <4>1. ~(e <= lo)
        BY <1>2, <2>2, <2>4
      <4> QED BY <1>6, <4>1
    <3>5. Passes(sub, q[i])
      BY <1>2, <2>2, <2>4, <3>3, <3>4 DEF Passes
    <3>6. PICK j \in DOMAIN a : a[j] = q[i]
      BY <1>4, <3>5
    <3> QED BY <1>7, <1>8, <3>3, <3>6 DEF NumsOn
  <2>5. \A top \in 0 .. d : Complete(W, R \cup N, T \cup N, top)
    <3> SUFFICES ASSUME NEW top \in 0 .. d, NEW e \in W, NEW x \in R \cup N, x <= e, e <= top,
                        e \notin N
                 PROVE  e \in T
      BY DEF Complete
    <3>1. ~(lo < e) /\ e <= lo
      <4>1. e <= d
        BY <2>2
      <4>2. ~(lo < e)
        BY <2>4, <4>1
      <4> QED BY <1>2, <2>2, <4>2
    <3>2. x \in R
      <4>1. x \in N => x \in Nat /\ lo < x
        BY <1>10
      <4> QED BY <1>2, <2>2, <3>1, <4>1
    <3>3. Complete(W, R, T, lo)
      BY <1>2, <1>14 DEF SubGap
    <3> QED BY <3>1, <3>2, <3>3 DEF Complete
  <2>6. SubGap(new, events, R \cup N, T \cup N, W)
    <3>1. new.heard => d = Len(events)
      BY <1>4, <2>1 DEF Buffered
    <3>2. d \in 0 .. d
      OBVIOUS
    <3> QED BY <1>4, <2>5, <3>1, <3>2 DEF SubGap
  <2>7. ASSUME NEW y \in R PROVE Complete(W, R \cup N, T \cup N, y)
    <3> SUFFICES ASSUME NEW e \in W, NEW x \in R \cup N, x <= e, e <= y, e \notin N
                 PROVE  e \in T
      BY DEF Complete
    <3>1. e <= lo /\ y \in Nat
      <4>1. y \in Nat /\ y <= lo
        BY <1>6
      <4> QED BY <1>2, <2>2, <4>1
    <3>2. x \in R
      <4>1. x \in N => x \in Nat /\ lo < x
        BY <1>10
      <4> QED BY <1>2, <2>2, <3>1, <4>1
    <3>3. Complete(W, R, T, lo)
      BY <1>2, <1>14 DEF SubGap
    <3> QED BY <3>1, <3>2, <3>3 DEF Complete
  <2>8. ASSUME NEW y \in N PROVE Complete(W, R \cup N, T \cup N, y)
    <3>1. PICK i \in DOMAIN q : y = q[i].sequence
      BY <1>10
    <3>2. y # 0 /\ y \in Nat
      BY <1>7, <1>10 DEF NumsOn
    <3>3. y <= d
      BY <1>3, <2>1, <3>1, <3>2 DEF Buffered
    <3>4. y \in 0 .. d
      BY <3>2, <3>3
    <3> QED BY <2>5, <3>4
  <2> QED BY <1>3, <1>7, <2>6, <2>7, <2>8 DEF Completes
<1> QED BY <1>4, <1>13, <1>14

\* A round of a replay.
LEMMA RoundKeeps ==
  ASSUME NEW n \in Nat, n = Len(events), log \in SUBSET (1 .. n), NEW sub \in Sound(n, events),
         sub.mode = "replay", NEW a, a = RoundFrames(sub), NEW new, new = Round(sub),
         NEW R \in SUBSET (0 .. n), NEW I \in SUBSET (1 .. n), NEW T, NEW W,
         W = {e \in log : Covers(sub.key, events[e].session)},
         SubBase(sub, events, R, I)
  PROVE  /\ a \in Wires(n) /\ new \in Sound(n, events) /\ Advances(sub, new, a, R, I)
         /\ SubGap(sub, events, R, T, W) => Completes(sub, new, a, R, T, W)
BY PageAdvances, OverAdvances

-----------------------------------------------------------------------------
(* Publication.                                                            *)

Replies == {<< >>, <<[kind |-> "reply"]>>}

\* Copies of a new event, then a reply: what a wire without frames of a key gains.
LEMMA FanOut ==
  ASSUME NEW n \in Nat, NEW c \in Nat, NEW f, f = Numbered(n + 1), NEW a,
         a = [i \in 1 .. c |-> f], NEW r \in Replies
  PROVE  /\ a \in Wires(n + 1) /\ r \in Wires(n + 1)
         /\ \A k, ev : IdsOn(k, ev, r) = {} /\ NumsOn(k, ev, r) = {} /\ Tidy(k, ev, r)
         /\ \A k, ev : ~Covers(k, ev[n + 1].session)
              => IdsOn(k, ev, a) = {} /\ NumsOn(k, ev, a) = {} /\ Tidy(k, ev, a)
         /\ \A k, ev : c = 0 => IdsOn(k, ev, a) = {} /\ NumsOn(k, ev, a) = {} /\ Tidy(k, ev, a)
         /\ \A k, ev : Covers(k, ev[n + 1].session) /\ c = 1
              => /\ IdsOn(k, ev, a) = {n + 1} /\ NumsOn(k, ev, a) = {n + 1}
                 /\ Tidy(k, ev, a)
<1>1. PICK m \in Nat : m = n + 1
  OBVIOUS
<1>2. f = [kind |-> "event", id |-> m, sequence |-> m] /\ m # 0
  BY <1>1 DEF Numbered, Event
<1>3. f.kind = "event" /\ f.id = m /\ f.sequence = m /\ f \in FramesTo(m) /\ Proper(f)
  <2>1. m \in 1 .. m /\ m \in 0 .. m
    BY <1>2
  <2>2. f \in EventsTo(m)
    BY <1>2, <2>1 DEF EventsTo
  <2> QED BY <1>2, <2>2 DEF FramesTo, Proper
<1>4. a \in Seq(FramesTo(m)) /\ DOMAIN a = 1 .. c /\ \A i \in 1 .. c : a[i] = f
  BY <1>3
<1>5. a \in Wires(m)
  BY <1>3, <1>4 DEF Wires
<1>6. /\ r \in Wires(m)
      /\ \A k, ev : \A i \in DOMAIN r : ~Of(k, ev, r[i])
  <2>1. CASE r = << >>
    BY <2>1, EmptyWire
  <2>2. CASE r = <<[kind |-> "reply"]>>
    <3>1. PICK z : z = [kind |-> "reply"]
      OBVIOUS
    <3>2. z \in FramesTo(m) /\ z.kind = "reply"
      BY <3>1 DEF FramesTo
    <3>3. r \in Seq(FramesTo(m)) /\ DOMAIN r = 1 .. 1 /\ \A i \in DOMAIN r : r[i] = z
      BY <2>2, <3>1, <3>2
    <3>4. Proper(z) /\ \A k, ev : ~Of(k, ev, z)
      BY <3>2 DEF Proper, Of
    <3> QED BY <3>3, <3>4 DEF Wires
  <2> QED BY <2>1, <2>2 DEF Replies
<1>7. ASSUME NEW w, NEW k, NEW ev, \A i \in DOMAIN w : ~Of(k, ev, w[i])
      PROVE  IdsOn(k, ev, w) = {} /\ NumsOn(k, ev, w) = {} /\ Tidy(k, ev, w)
  BY <1>7 DEF IdsOn, NumsOn, Tidy
<1>8. \A k, ev : IdsOn(k, ev, r) = {} /\ NumsOn(k, ev, r) = {} /\ Tidy(k, ev, r)
  BY <1>6, <1>7
<1>9. \A k, ev : ~Covers(k, ev[m].session)
        => IdsOn(k, ev, a) = {} /\ NumsOn(k, ev, a) = {} /\ Tidy(k, ev, a)
  <2> SUFFICES ASSUME NEW k, NEW ev, ~Covers(k, ev[m].session)
               PROVE  IdsOn(k, ev, a) = {} /\ NumsOn(k, ev, a) = {} /\ Tidy(k, ev, a)
    OBVIOUS
  <2>1. \A i \in DOMAIN a : ~Of(k, ev, a[i])
    BY <1>3, <1>4 DEF Of
  <2> QED BY <1>7, <2>1
<1>10. \A k, ev : c = 0 => IdsOn(k, ev, a) = {} /\ NumsOn(k, ev, a) = {} /\ Tidy(k, ev, a)
  <2> SUFFICES ASSUME NEW k, NEW ev, c = 0
               PROVE  IdsOn(k, ev, a) = {} /\ NumsOn(k, ev, a) = {} /\ Tidy(k, ev, a)
    OBVIOUS
  <2>1. \A i \in DOMAIN a : ~Of(k, ev, a[i])
    BY <1>4
  <2> QED BY <1>7, <2>1
<1>11. \A k, ev : Covers(k, ev[m].session) /\ c = 1
         => IdsOn(k, ev, a) = {m} /\ NumsOn(k, ev, a) = {m} /\ Tidy(k, ev, a)
  <2> SUFFICES ASSUME NEW k, NEW ev, Covers(k, ev[m].session), c = 1
               PROVE  IdsOn(k, ev, a) = {m} /\ NumsOn(k, ev, a) = {m} /\ Tidy(k, ev, a)
    OBVIOUS
  <2>1. DOMAIN a = {1} /\ a[1] = f /\ Of(k, ev, a[1])
    BY <1>3, <1>4 DEF Of
  <2>2. {i \in DOMAIN a : Of(k, ev, a[i])} = {1}
    BY <2>1
  <2> QED BY <1>2, <1>3, <2>1, <2>2 DEF IdsOn, NumsOn, Tidy
<1> QED BY <1>1, <1>5, <1>6, <1>8, <1>9, <1>10, <1>11

\* For key k, wire dn has the events D after those of wire w.
Gains(k, ev, w, ew, dn, D) ==
  /\ IdsOn(k, ew, dn) = IdsOn(k, ev, w) \cup D
  /\ NumsOn(k, ew, dn) = NumsOn(k, ev, w) \cup D
  /\ Tidy(k, ev, w) => Tidy(k, ew, dn)

\* A wire, and the copies of a new event on it.
LEMMA WireGrows ==
  ASSUME NEW n \in Nat, NEW w \in Wires(n), NEW ev, NEW ew, \A e \in 1 .. n : ew[e] = ev[e],
         NEW c \in Nat, NEW a, a = [i \in 1 .. c |-> Numbered(n + 1)], NEW r \in Replies,
         NEW dn, dn = w \o a \o r, NEW k, Covers(k, ew[n + 1].session) => c <= 1,
         NEW D, D = IF Covers(k, ew[n + 1].session) /\ c = 1 THEN {n + 1} ELSE {}
  PROVE  Gains(k, ev, w, ew, dn, D)
<1>1. PICK m \in Nat : m = n + 1 /\ n <= m
  OBVIOUS
<1>2. /\ a \in Wires(m) /\ r \in Wires(m)
      /\ IdsOn(k, ew, r) = {} /\ NumsOn(k, ew, r) = {} /\ Tidy(k, ew, r)
      /\ IdsOn(k, ew, a) = D /\ NumsOn(k, ew, a) = D /\ Tidy(k, ew, a)
  <2>1. PICK f : f = Numbered(n + 1)
    OBVIOUS
  <2>2. a = [i \in 1 .. c |-> f]
    BY <2>1
  <2>3. /\ a \in Wires(n + 1) /\ r \in Wires(n + 1)
        /\ \A l, e : IdsOn(l, e, r) = {} /\ NumsOn(l, e, r) = {} /\ Tidy(l, e, r)
        /\ \A l, e : ~Covers(l, e[n + 1].session)
             => IdsOn(l, e, a) = {} /\ NumsOn(l, e, a) = {} /\ Tidy(l, e, a)
        /\ \A l, e : c = 0 => IdsOn(l, e, a) = {} /\ NumsOn(l, e, a) = {} /\ Tidy(l, e, a)
        /\ \A l, e : Covers(l, e[n + 1].session) /\ c = 1
             => IdsOn(l, e, a) = {n + 1} /\ NumsOn(l, e, a) = {n + 1} /\ Tidy(l, e, a)
    BY <2>1, <2>2, FanOut
  <2>4. CASE ~Covers(k, ew[n + 1].session)
    BY <1>1, <2>3, <2>4
  <2>5. CASE Covers(k, ew[n + 1].session) /\ c = 0
    BY <1>1, <2>3, <2>5
  <2>6. CASE Covers(k, ew[n + 1].session) /\ c = 1
    BY <1>1, <2>3, <2>6
  <2>7. Covers(k, ew[n + 1].session) => c = 0 \/ c = 1
    OBVIOUS
  <2> QED BY <2>4, <2>5, <2>6, <2>7
<1>3. /\ IdsOn(k, ew, w) = IdsOn(k, ev, w) /\ NumsOn(k, ew, w) = NumsOn(k, ev, w)
      /\ Tidy(k, ew, w) <=> Tidy(k, ev, w)
  BY LaterEvents
<1>4. w \in Wires(m)
  BY <1>1, WiresGrow
<1>5. PICK v : v = w \o a
  OBVIOUS
<1>6. /\ v \in Wires(m)
      /\ IdsOn(k, ew, v) = IdsOn(k, ew, w) \cup D
      /\ NumsOn(k, ew, v) = NumsOn(k, ew, w) \cup D
      /\ Tidy(k, ew, w) => Tidy(k, ew, v)
  <2>1. /\ w \o a \in Wires(m)
        /\ IdsOn(k, ew, w \o a) = IdsOn(k, ew, w) \cup IdsOn(k, ew, a)
        /\ NumsOn(k, ew, w \o a) = NumsOn(k, ew, w) \cup NumsOn(k, ew, a)
        /\ (/\ Tidy(k, ew, w) /\ Tidy(k, ew, a)
            /\ IdsOn(k, ew, w) \cap IdsOn(k, ew, a) = {}
            /\ \A x \in NumsOn(k, ew, w), y \in NumsOn(k, ew, a) : x < y)
             => Tidy(k, ew, w \o a)
    BY ONLY m \in Nat, <1>2, <1>4, Joined
  <2>2. \A x \in IdsOn(k, ew, w) : x < m /\ x \in Nat
    <3>1. IdsOn(k, ew, w) \in SUBSET (1 .. n)
      BY OnWireTypes
    <3> QED BY <1>1, <3>1
  <2>3. NumsOn(k, ew, w) \subseteq IdsOn(k, ew, w)
    BY OnWireTypes
  <2>4. \A y \in D : y = m
    BY <1>1
  <2>5. IdsOn(k, ew, w) \cap D = {} /\ \A x \in NumsOn(k, ew, w), y \in D : x < y
    BY <1>1, <2>2, <2>3, <2>4
  <2> QED BY ONLY <1>2, <1>5, <2>1, <2>5
<1>7. /\ IdsOn(k, ew, dn) = IdsOn(k, ew, v) /\ NumsOn(k, ew, dn) = NumsOn(k, ew, v)
      /\ Tidy(k, ew, v) => Tidy(k, ew, dn)
  <2>1. /\ v \o r \in Wires(m)
        /\ IdsOn(k, ew, v \o r) = IdsOn(k, ew, v) \cup IdsOn(k, ew, r)
        /\ NumsOn(k, ew, v \o r) = NumsOn(k, ew, v) \cup NumsOn(k, ew, r)
        /\ (/\ Tidy(k, ew, v) /\ Tidy(k, ew, r)
            /\ IdsOn(k, ew, v) \cap IdsOn(k, ew, r) = {}
            /\ \A x \in NumsOn(k, ew, v), y \in NumsOn(k, ew, r) : x < y)
             => Tidy(k, ew, v \o r)
    BY <1>2, <1>6, Joined
  <2>2. dn = v \o r
    BY <1>5
  <2> QED BY ONLY <1>2, <2>1, <2>2
<1> QED BY <1>3, <1>6, <1>7 DEF Gains

-----------------------------------------------------------------------------
(* The keys.                                                               *)

Owned(k, ss) == {j \in DOMAIN ss : ss[j].key = k}
Rows(k, ev, lg) == {e \in lg : Covers(k, ev[e].session)}

\* The numbers the listeners of k have reached, or will by the frames on the wire.
Marks(k, ev, w, lo, hi) == (NumsOn(k, ev, w) \cup {lo, hi}) \ {0}

\* A key whose first number is lo, and whose cursor is hi.
KeyBase(k, ev, w, ss, lo, hi) ==
  /\ Tidy(k, ev, w) /\ \A x \in NumsOn(k, ev, w) : hi < x
  /\ \A i, j \in Owned(k, ss) : i = j
  /\ \A j \in Owned(k, ss) : SubBase(ss[j], ev, Marks(k, ev, w, lo, hi), IdsOn(k, ev, w))

\* Its listeners were told g.
KeyGap(k, ev, lg, w, ss, lo, hi, g) ==
  /\ \A y \in Marks(k, ev, w, lo, hi) :
       Complete(Rows(k, ev, lg), Marks(k, ev, w, lo, hi), g \cup NumsOn(k, ev, w), y)
  /\ \A j \in Owned(k, ss) :
       SubGap(ss[j], ev, Marks(k, ev, w, lo, hi), g \cup NumsOn(k, ev, w), Rows(k, ev, lg))

\* Both, or the first only, if the replay may run out of pages.
KeyInv(enough, k, ev, lg, w, ss, lo, hi, g) ==
  /\ KeyBase(k, ev, w, ss, lo, hi)
  /\ enough => KeyGap(k, ev, lg, w, ss, lo, hi, g)

\* What is sent on hearing of event n + 1 of session ew[n + 1].session.
Hearers(n, ew, ss) ==
  {j \in DOMAIN ss : /\ ss[j].heard /\ Covers(ss[j].key, ew[n + 1].session)
                     /\ Emits(ss[j], Numbered(n + 1))}
AllHear(n, ew, ss, sn) ==
  /\ DOMAIN sn = DOMAIN ss
  /\ \A j \in DOMAIN ss : sn[j] = IF ss[j].heard /\ Covers(ss[j].key, ew[n + 1].session)
                                  THEN Heard(ss[j], Numbered(n + 1)) ELSE ss[j]
Told(n, w, dn, c, r) == dn = w \o [i \in 1 .. c |-> Numbered(n + 1)] \o r

\* A subscription that hears or does not hear an event.
Grows(n, sub, new, ev, ew, R, I, T, W, D, V) ==
  /\ new \in Sound(n + 1, ew) /\ new.key = sub.key
  /\ D # {} => new.mode # "replay" /\ new.heard
  /\ Keeps(sub, new, ev, ew, R, I, T, W, D, V)

\* A publication reaches a subscription, or passes it by.
LEMMA SubGrows ==
  ASSUME NEW n \in Nat, NEW ev, NEW ew, Len(ev) = n, Len(ew) = n + 1,
         \A e \in 1 .. n : ew[e] = ev[e], NEW sub \in Sound(n, ev),
         NEW R \in SUBSET (0 .. n), NEW I, NEW T, NEW W \in SUBSET (1 .. n),
         NEW f, f = Numbered(n + 1),
         NEW new, new = IF sub.heard /\ Covers(sub.key, ew[n + 1].session)
                        THEN Heard(sub, f) ELSE sub,
         NEW D, D = IF sub.heard /\ Covers(sub.key, ew[n + 1].session) /\ Emits(sub, f)
                    THEN {n + 1} ELSE {},
         NEW V, V = IF Covers(sub.key, ew[n + 1].session) THEN W \cup {n + 1} ELSE W
  PROVE  Grows(n, sub, new, ev, ew, R, I, T, W, D, V)
<1>2. CASE sub.heard /\ Covers(sub.key, ew[n + 1].session)
  <2>1. new = Heard(sub, f) /\ D = IF Emits(sub, f) THEN {n + 1} ELSE {}
    BY <1>2
  <2>2. sub.heard /\ Covers(sub.key, ew[n + 1].session) /\ V = W \cup {n + 1}
    BY <1>2
  <2>3. new \in Sound(n + 1, ew) /\ Hearing(sub, f, new)
    BY <2>1, <2>2, HeardIs
  <2>4. Keeps(sub, new, ev, ew, R, I, T, W, D, V)
    BY <2>1, <2>2, HeardKeeps
  <2>5. D # {} => new.mode # "replay" /\ new.heard
    BY <2>1, <2>2, <2>3 DEF Emits, Hearing
  <2> QED BY <2>3, <2>4, <2>5 DEF Hearing, Grows
<1>3. CASE ~(sub.heard /\ Covers(sub.key, ew[n + 1].session))
  <2>1. new = sub /\ D = {} /\ R \cup D = R /\ T \cup D = T /\ I \cup D = I
    BY <1>3
  <2>2. ~sub.heard \/ ~Covers(sub.key, ew[n + 1].session)
    <3>1. sub.heard \in BOOLEAN
      BY DEF Sound, SubsTo
    <3> QED BY <1>3, <3>1
  <2>3. Keeps(sub, sub, ev, ew, R, I, T, W, {}, V)
    BY <2>2, NotHeard
  <2>4. sub \in Sound(n + 1, ew)
    <3>1. n + 1 \in Nat /\ n <= n + 1
      OBVIOUS
    <3> QED BY <3>1, SoundGrows
  <2> QED BY <2>1, <2>3, <2>4 DEF Grows
<1> QED BY <1>2, <1>3

\* A key at a publication.
Grown(enough, n, k, ev, ew, lg, lh, w, dn, ss, sn, lo, hi, g, r) ==
  /\ KeyInv(enough, k, ew, lh, dn, sn, lo, hi, g)
  /\ Owned(k, ss) = {} => IdsOn(k, ew, dn) = IdsOn(k, ev, w)

\* A publication keeps what holds of a key.
LEMMA KeyGrows ==
  ASSUME NEW n \in Nat, NEW ev, NEW ew, Len(ev) = n, Len(ew) = n + 1,
         \A e \in 1 .. n : ew[e] = ev[e], NEW w \in Wires(n), NEW lg \in SUBSET (1 .. n),
         NEW ss \in Seq(Sound(n, ev)), NEW sn, AllHear(n, ew, ss, sn),
         NEW r \in Replies, NEW dn, Told(n, w, dn, Cardinality(Hearers(n, ew, ss)), r),
         NEW k \in Keys, NEW lo \in 0 .. n, NEW hi \in 0 .. n, NEW g, NEW enough,
         KeyInv(enough, k, ev, lg, w, ss, lo, hi, g), NEW lh, lh = lg \cup {n + 1}
  PROVE  Grown(enough, n, k, ev, ew, lg, lh, w, dn, ss, sn, lo, hi, g, r)
<1>0. n + 1 \in Nat /\ hi < n + 1
  OBVIOUS
<1>1. PICK H, c : H = Hearers(n, ew, ss) /\ c = Cardinality(H)
  OBVIOUS
<1>2. PICK l \in Nat : DOMAIN ss = 1 .. l /\ DOMAIN sn = 1 .. l
  BY DEF AllHear
<1>3. c \in Nat /\ IsFiniteSet(H)
  <2>1. H \in SUBSET (1 .. l)
    BY <1>1, <1>2 DEF Hearers
  <2>2. IsFiniteSet(1 .. l)
    BY ONLY l \in Nat, FS_Interval
  <2> QED BY <1>1, <2>1, <2>2, FS_Subset, FS_CardinalityType
<1>4. \A j \in DOMAIN ss : ss[j] \in Sound(n, ev) /\ ss[j].key \in Keys
  <2>1. \A j \in DOMAIN ss : ss[j] \in Sound(n, ev)
    OBVIOUS
  <2> QED BY <2>1 DEF Sound, SubsTo
<1>5. PICK covered \in BOOLEAN : covered = Covers(k, ew[n + 1].session)
  BY DEF Covers
<1>6. \A i, j \in Owned(k, ss) : i = j
  BY DEF KeyInv, KeyBase
<1>7. \A j \in DOMAIN ss : Covers(ss[j].key, ew[n + 1].session) /\ covered => j \in Owned(k, ss)
  BY <1>4, <1>5, OneKey DEF Owned
<1>8. covered => H \subseteq Owned(k, ss)
  BY <1>1, <1>7 DEF Hearers
<1>9. covered => c <= 1
  <2> SUFFICES ASSUME covered PROVE c <= 1
    OBVIOUS
  <2>1. CASE H = {}
    BY <1>1, <2>1, FS_EmptySet
  <2>2. CASE H # {}
    <3>1. PICK j \in H : H = {j}
      BY <1>6, <1>8, <2>2
    <3>2. Cardinality({j}) = 1
      BY ONLY FS_Singleton
    <3> QED BY <1>1, <3>1, <3>2
  <2> QED BY <2>1, <2>2
<1>10. PICK D : D = IF covered /\ c = 1 THEN {n + 1} ELSE {}
  OBVIOUS
<1>11. /\ IdsOn(k, ew, dn) = IdsOn(k, ev, w) \cup D
       /\ NumsOn(k, ew, dn) = NumsOn(k, ev, w) \cup D
       /\ Tidy(k, ev, w) => Tidy(k, ew, dn)
  <2>1. PICK a : a = [i \in 1 .. c |-> Numbered(n + 1)]
    OBVIOUS
  <2>2. dn = w \o a \o r
    BY <1>1, <2>1 DEF Told
  <2>3. Covers(k, ew[n + 1].session) => c <= 1
    BY <1>5, <1>9
  <2>4. D = IF Covers(k, ew[n + 1].session) /\ c = 1 THEN {n + 1} ELSE {}
    BY <1>5, <1>10
  <2>5. /\ n \in Nat /\ w \in Wires(n) /\ r \in Replies
        /\ \A e \in 1 .. n : ew[e] = ev[e]
    OBVIOUS
  <2>6. Gains(k, ev, w, ew, dn, D)
    BY ONLY <1>3, <2>1, <2>2, <2>3, <2>4, <2>5, WireGrows
  <2> QED BY <2>6 DEF Gains
<1>12. Owned(k, ss) = {} => D = {}
  <2> SUFFICES ASSUME Owned(k, ss) = {}, covered PROVE c = 0
    BY <1>10
  <2>1. H = {}
    BY <1>8
  <2> QED BY <1>1, <2>1, FS_EmptySet
<1>13. PICK R, I, N, W, V : /\ R = Marks(k, ev, w, lo, hi) /\ I = IdsOn(k, ev, w)
                            /\ N = NumsOn(k, ev, w) /\ W = Rows(k, ev, lg)
                            /\ V = Rows(k, ew, lg \cup {n + 1})
  OBVIOUS
<1>14. /\ I \in SUBSET (1 .. n) /\ N \in SUBSET (1 .. n) /\ R \in SUBSET (0 .. n)
       /\ W \in SUBSET (1 .. n)
  <2>1. I \in SUBSET (1 .. n) /\ N \in SUBSET (1 .. n)
    BY <1>13, OnWireTypes
  <2>2. W \in SUBSET (1 .. n)
    BY <1>13 DEF Rows
  <2> QED BY <1>13, <2>1, <2>2 DEF Marks
<1>15. Marks(k, ew, dn, lo, hi) = R \cup D
  BY <1>0, <1>10, <1>11, <1>13 DEF Marks
<1>16. V = IF covered THEN W \cup {n + 1} ELSE W
  <2>1. \A e \in lg : Covers(k, ew[e].session) <=> Covers(k, ev[e].session)
    OBVIOUS
  <2> QED BY <1>5, <1>13, <2>1 DEF Rows
<1>17. ASSUME NEW j \in Owned(k, ss)
       PROVE  /\ sn[j] \in Sound(n + 1, ew) /\ sn[j].key = k
              /\ D # {} => sn[j].mode # "replay" /\ sn[j].heard
              /\ SubBase(ss[j], ev, R, I) => SubBase(sn[j], ew, R \cup D, I \cup D)
              /\ SubBase(ss[j], ev, R, I) /\ SubGap(ss[j], ev, R, g \cup N, W)
                   => SubGap(sn[j], ew, R \cup D, (g \cup N) \cup D, V)
  <2>1. j \in DOMAIN ss /\ ss[j].key = k
    BY DEF Owned
  <2>2. PICK sub, new : sub = ss[j] /\ new = sn[j]
    OBVIOUS
  <2>3. PICK f : f = Numbered(n + 1)
    OBVIOUS
  <2> DEFINE hears == sub.heard /\ Covers(sub.key, ew[n + 1].session)
  <2>4. new = IF hears THEN Heard(sub, f) ELSE sub
    BY <2>1, <2>2, <2>3 DEF AllHear
  <2>5. D = IF hears /\ Emits(sub, f) THEN {n + 1} ELSE {}
    <3>1. CASE covered /\ hears /\ Emits(sub, f)
      <4>1. j \in H
        BY <1>1, <2>1, <2>2, <2>3, <3>1 DEF Hearers
      <4>2. H = {j}
        BY <1>6, <1>8, <3>1, <4>1
      <4>3. c = 1
        BY <1>1, <4>2, FS_Singleton
      <4> QED BY <1>10, <3>1, <4>3
    <3>2. CASE covered /\ ~(hears /\ Emits(sub, f))
      <4>1. j \notin H
        BY <1>1, <2>2, <2>3, <3>2 DEF Hearers
      <4>2. H = {}
        BY <1>6, <1>8, <3>2, <4>1
      <4>3. c = 0
        BY <1>1, <4>2, FS_EmptySet
      <4> QED BY <1>10, <3>2, <4>3
    <3>3. CASE ~covered
      BY <1>5, <1>10, <2>1, <2>2, <2>3, <3>3
    <3> QED BY <3>1, <3>2, <3>3
  <2>6. V = IF Covers(sub.key, ew[n + 1].session) THEN W \cup {n + 1} ELSE W
    BY <1>5, <1>16, <2>1, <2>2
  <2>7. sub \in Sound(n, ev)
    BY <1>4, <2>1, <2>2
  <2>8. n \in Nat /\ Len(ev) = n /\ Len(ew) = n + 1 /\ \A e \in 1 .. n : ew[e] = ev[e]
    OBVIOUS
  <2>9. PICK T : T = g \cup N
    OBVIOUS
  <2>10. Grows(n, sub, new, ev, ew, R, I, T, W, D, V)
    BY ONLY <1>14, <2>3, <2>4, <2>5, <2>6, <2>7, <2>8, SubGrows
  <2> QED BY <2>1, <2>2, <2>9, <2>10 DEF Grows, Keeps
<1>18. Owned(k, sn) = Owned(k, ss)
  <2>1. \A j \in Owned(k, ss) : sn[j].key = k
    BY <1>17
  <2>2. ASSUME NEW j \in DOMAIN ss, sn[j].key = k PROVE ss[j].key = k
    <3>1. CASE ss[j].heard /\ Covers(ss[j].key, ew[n + 1].session)
      <4>1. PICK sub, new, f : sub = ss[j] /\ new = sn[j] /\ f = Numbered(n + 1)
        OBVIOUS
      <4>2. new = Heard(sub, f)
        BY <3>1, <4>1 DEF AllHear
      <4>3. sub \in Sound(n, ev) /\ Covers(sub.key, ew[n + 1].session)
        BY <1>4, <3>1, <4>1
      <4>4. n \in Nat /\ \A e \in 1 .. n : ew[e] = ev[e]
        OBVIOUS
      <4>5. new \in Sound(n + 1, ew) /\ Hearing(sub, f, new)
        BY ONLY <4>1, <4>2, <4>3, <4>4, HeardIs
      <4> QED BY <2>2, <4>1, <4>5 DEF Hearing
    <3>2. CASE ~(ss[j].heard /\ Covers(ss[j].key, ew[n + 1].session))
      BY <2>2, <3>2 DEF AllHear
    <3> QED BY <3>1, <3>2
  <2> QED BY <1>2, <2>1, <2>2 DEF Owned
<1>19. KeyBase(k, ew, dn, sn, lo, hi)
  <2>1. KeyBase(k, ev, w, ss, lo, hi)
    BY DEF KeyInv
  <2>2. Tidy(k, ew, dn)
    BY <1>11, <2>1 DEF KeyBase
  <2>3. \A x \in NumsOn(k, ew, dn) : hi < x
    BY <1>0, <1>10, <1>11, <2>1 DEF KeyBase
  <2>4. \A j \in Owned(k, ss) : SubBase(sn[j], ew, R \cup D, I \cup D)
    BY <1>13, <1>17, <2>1 DEF KeyBase
  <2> QED BY <1>6, <1>11, <1>13, <1>15, <1>18, <2>2, <2>3, <2>4 DEF KeyBase
<1>20. ASSUME enough PROVE KeyGap(k, ew, lg \cup {n + 1}, dn, sn, lo, hi, g)
  <2>1. KeyGap(k, ev, lg, w, ss, lo, hi, g) /\ KeyBase(k, ev, w, ss, lo, hi)
    BY <1>20 DEF KeyInv
  <2>2. \A j \in Owned(k, ss) : SubGap(sn[j], ew, R \cup D, (g \cup N) \cup D, V)
    BY <1>13, <1>17, <2>1 DEF KeyBase, KeyGap
  <2>3. g \cup NumsOn(k, ew, dn) = (g \cup N) \cup D
    BY <1>11, <1>13
  <2>4. ASSUME NEW y \in R PROVE Complete(V, R \cup D, (g \cup N) \cup D, y)
    <3> SUFFICES ASSUME NEW e \in V, NEW x \in R \cup D, x <= e, e <= y
                 PROVE  e \in g \cup N
      BY DEF Complete
    <3>1. y \in Nat /\ y <= n
      BY <1>14
    <3>2. e \in W
      BY <1>0, <1>16, <3>1
    <3>3. x \in R
      <4>1. e \in Nat
        BY <1>14, <3>2
      <4> QED BY <1>0, <1>10, <3>1, <4>1
    <3>4. Complete(W, R, g \cup N, y)
      BY <1>13, <2>1 DEF KeyGap
    <3> QED BY <3>2, <3>3, <3>4 DEF Complete
  <2>5. ASSUME NEW y \in D PROVE Complete(V, R \cup D, (g \cup N) \cup D, y)
    <3>1. y = n + 1 /\ D # {}
      BY <1>10
    <3>2. PICK j \in Owned(k, ss) : TRUE
      BY <1>12, <3>1
    <3>3. sn[j].mode # "replay" /\ sn[j].heard
      BY <1>17, <3>1
    <3> QED BY <2>2, <3>1, <3>3 DEF SubGap
  <2> QED BY <1>13, <1>15, <1>18, <2>2, <2>3, <2>4, <2>5 DEF KeyGap
<1> QED BY <1>11, <1>12, <1>19, <1>20 DEF KeyInv, Grown

\* A subscription whose listener is gone.
LEMMA DeafKeeps ==
  ASSUME NEW n, NEW ev, NEW sub \in Sound(n, ev), NEW new, new = [sub EXCEPT !.heard = FALSE]
  PROVE  /\ new \in Sound(n, ev) /\ new.key = sub.key
         /\ \A R, I : SubBase(sub, ev, R, I) => SubBase(new, ev, R, I)
         /\ \A R, T, W : SubGap(sub, ev, R, T, W) => SubGap(new, ev, R, T, W)
<1>1. sub \in SubsTo(n)
  BY DEF Sound
<1>2. /\ new.key = sub.key /\ new.mode = sub.mode /\ new.last = sub.last /\ new.seen = sub.seen
      /\ new.buffered = sub.buffered /\ new.pages = sub.pages /\ new.held = sub.held
      /\ new.heard = FALSE /\ new \in SubsTo(n)
  BY <1>1 DEF SubsTo
<1>3. new \in Sound(n, ev)
  BY <1>2 DEF Sound
<1>4. \A R, I : SubBase(sub, ev, R, I) => SubBase(new, ev, R, I)
  BY <1>2 DEF SubBase
<1>5. \A W, b, d : Buffered(sub, ev, W, b, d) => Buffered(new, ev, W, b, d)
  BY <1>2 DEF Buffered
<1>6. \A R, T, W : SubGap(sub, ev, R, T, W) => SubGap(new, ev, R, T, W)
  BY <1>2, <1>5 DEF SubGap
<1> QED BY <1>2, <1>3, <1>4, <1>6

\* The subscriptions of k are still there, perhaps without listeners, or gone.
Fewer(k, sn, ss) ==
  \A j \in Owned(k, sn) : /\ j \in Owned(k, ss)
                          /\ sn[j] = ss[j] \/ sn[j] = [ss[j] EXCEPT !.heard = FALSE]

\* The wire has fewer frames, and what left it was told.
Shrinks(k, ev, v, w, lp, hp, lo, hi, gp, g) ==
  /\ Tidy(k, ev, v) /\ \A x \in NumsOn(k, ev, v) : hp < x
  /\ IdsOn(k, ev, v) \subseteq IdsOn(k, ev, w)
  /\ Marks(k, ev, v, lp, hp) \subseteq Marks(k, ev, w, lo, hi)
  /\ g \cup NumsOn(k, ev, w) \subseteq gp \cup NumsOn(k, ev, v)

\* So does anything by which subscriptions, rows or frames only go.
LEMMA KeyShrinks ==
  ASSUME NEW n \in Nat, NEW k, NEW ev, NEW lg \in SUBSET (1 .. n), NEW w,
         NEW ss \in Seq(Sound(n, ev)),
         NEW lo, NEW hi, NEW g, NEW enough, KeyInv(enough, k, ev, lg, w, ss, lo, hi, g),
         NEW lh \in SUBSET lg, NEW v, NEW sn, NEW lp, NEW hp, NEW gp, Fewer(k, sn, ss),
         Shrinks(k, ev, v, w, lp, hp, lo, hi, gp, g)
  PROVE  KeyInv(enough, k, ev, lh, v, sn, lp, hp, gp)
<1>1. PICK R, I, T, W : /\ R = Marks(k, ev, w, lo, hi) /\ I = IdsOn(k, ev, w)
                        /\ T = g \cup NumsOn(k, ev, w) /\ W = Rows(k, ev, lg)
  OBVIOUS
<1>2. PICK Q, J, U, V : /\ Q = Marks(k, ev, v, lp, hp) /\ J = IdsOn(k, ev, v)
                        /\ U = gp \cup NumsOn(k, ev, v) /\ V = Rows(k, ev, lh)
  OBVIOUS
<1>3. Q \subseteq R /\ J \subseteq I /\ T \subseteq U /\ V \subseteq W /\ W \in SUBSET (1 .. n)
  BY <1>1, <1>2 DEF Shrinks, Rows
<1>4. \A j \in DOMAIN ss : ss[j] \in Sound(n, ev)
  OBVIOUS
<1>5. ASSUME NEW j \in Owned(k, sn)
      PROVE  /\ j \in Owned(k, ss)
             /\ SubBase(ss[j], ev, R, I) => SubBase(sn[j], ev, Q, J)
             /\ SubGap(ss[j], ev, R, T, W) => SubGap(sn[j], ev, Q, U, V)
  <2>1. PICK sub, new : sub = ss[j] /\ new = sn[j]
    OBVIOUS
  <2>2. j \in DOMAIN ss /\ sub \in Sound(n, ev) /\ new.key = k
        /\ (new = sub \/ new = [sub EXCEPT !.heard = FALSE])
    BY <1>4, <2>1 DEF Fewer, Owned
  <2>3. /\ new.key = sub.key /\ new \in Sound(n, ev)
        /\ SubBase(sub, ev, R, I) => SubBase(new, ev, R, I)
        /\ SubGap(sub, ev, R, T, W) => SubGap(new, ev, R, T, W)
    <3>1. CASE new = sub
      BY <2>2, <3>1
    <3>2. CASE new = [sub EXCEPT !.heard = FALSE]
      BY ONLY <2>2, <3>2, DeafKeeps
    <3> QED BY <2>2, <3>1, <3>2
  <2>4. MaxPages - new.pages \in Int
    BY <2>3, ConstantsAssumption DEF Sound, SubsTo
  <2>5. /\ SubBase(new, ev, R, I) => SubBase(new, ev, Q, J)
        /\ SubGap(new, ev, R, T, W) => SubGap(new, ev, Q, U, V)
    <3>1. Weaker(new, ev, R, I, T, W, Q, J, U, V)
      BY ONLY n \in Nat, <1>3, <2>4, SubWeaken
    <3> QED BY <3>1 DEF Weaker
  <2> QED BY <2>1, <2>2, <2>3, <2>5 DEF Owned
<1>6. KeyBase(k, ev, w, ss, lo, hi)
  BY DEF KeyInv
<1>7. KeyBase(k, ev, v, sn, lp, hp)
  <2>1. \A i, j \in Owned(k, sn) : i = j
    BY <1>5, <1>6 DEF KeyBase
  <2>2. \A j \in Owned(k, sn) : SubBase(sn[j], ev, Q, J)
    BY <1>1, <1>5, <1>6 DEF KeyBase
  <2> QED BY <1>2, <2>1, <2>2 DEF KeyBase, Shrinks
<1>8. ASSUME enough PROVE KeyGap(k, ev, lh, v, sn, lp, hp, gp)
  <2>1. KeyGap(k, ev, lg, w, ss, lo, hi, g)
    BY <1>8 DEF KeyInv
  <2>2. \A y \in Q : Complete(V, Q, U, y)
    BY <1>1, <1>3, <2>1 DEF KeyGap, Complete
  <2>3. \A j \in Owned(k, sn) : SubGap(sn[j], ev, Q, U, V)
    BY <1>1, <1>5, <2>1 DEF KeyGap
  <2> QED BY <1>2, <2>2, <2>3 DEF KeyGap
<1> QED BY <1>7, <1>8 DEF KeyInv

\* The wire is the same.
LEMMA SameWire ==
  ASSUME NEW enough, NEW k, NEW ev, NEW lg, NEW w, NEW ss, NEW lo, NEW hi, NEW g,
         KeyInv(enough, k, ev, lg, w, ss, lo, hi, g)
  PROVE  Shrinks(k, ev, w, w, lo, hi, lo, hi, g, g)
BY DEF KeyInv, KeyBase, Shrinks

-----------------------------------------------------------------------------
(* Frames of one key.                                                      *)

\* A key when frames a of another key are sent.
Untouched(enough, n, k, l, ev, lg, w, a, dn, ss, sn, lo, hi, g) ==
  KeyInv(enough, k, ev, lg, dn, sn, lo, hi, g) /\ IdsOn(k, ev, dn) = IdsOn(k, ev, w)

\* Frames of another key do not matter.
LEMMA KeyUntouched ==
  ASSUME NEW n \in Nat, NEW k \in Keys, NEW l \in Keys, k # l, NEW ev, NEW lg,
         NEW w \in Wires(n), NEW ss, NEW lo, NEW hi, NEW g, NEW enough,
         KeyInv(enough, k, ev, lg, w, ss, lo, hi, g),
         NEW a \in Wires(n), \A i \in DOMAIN a : Of(l, ev, a[i]), NEW dn, dn = w \o a,
         NEW sn, Owned(k, sn) = Owned(k, ss), \A j \in Owned(k, ss) : sn[j] = ss[j]
  PROVE  Untouched(enough, n, k, l, ev, lg, w, a, dn, ss, sn, lo, hi, g)
<1>1. \A i \in DOMAIN a : ~Of(k, ev, a[i])
  BY OneKey DEF Of
<1>2. IdsOn(k, ev, a) = {} /\ NumsOn(k, ev, a) = {} /\ Tidy(k, ev, a)
  BY <1>1 DEF IdsOn, NumsOn, Tidy
<1>3. /\ w \o a \in Wires(n)
      /\ IdsOn(k, ev, w \o a) = IdsOn(k, ev, w) \cup IdsOn(k, ev, a)
      /\ NumsOn(k, ev, w \o a) = NumsOn(k, ev, w) \cup NumsOn(k, ev, a)
      /\ (/\ Tidy(k, ev, w) /\ Tidy(k, ev, a)
          /\ IdsOn(k, ev, w) \cap IdsOn(k, ev, a) = {}
          /\ \A x \in NumsOn(k, ev, w), y \in NumsOn(k, ev, a) : x < y)
           => Tidy(k, ev, w \o a)
  BY Joined
<1>4. /\ IdsOn(k, ev, dn) = IdsOn(k, ev, w) /\ NumsOn(k, ev, dn) = NumsOn(k, ev, w)
      /\ Tidy(k, ev, w) => Tidy(k, ev, dn)
  <2>1. dn = w \o a
    OBVIOUS
  <2> QED BY ONLY <1>2, <1>3, <2>1
<1>5. Marks(k, ev, dn, lo, hi) = Marks(k, ev, w, lo, hi)
  BY <1>4 DEF Marks
<1>6. KeyBase(k, ev, dn, sn, lo, hi)
  BY <1>4, <1>5 DEF KeyInv, KeyBase
<1>7. enough => KeyGap(k, ev, lg, dn, sn, lo, hi, g)
  BY <1>4, <1>5 DEF KeyInv, KeyGap
<1> QED BY <1>4, <1>6, <1>7 DEF KeyInv, Untouched

\* A key when frames of its own are sent.
Served(enough, n, k, w, a, dn, sub, new, sn, j, R, I, T, W, lo, hi, g) ==
  KeyInv(enough, k, events, log, dn, sn, lo, hi, g)

\* A round of a key's only subscription, number j of sn.
LEMMA KeyAdvances ==
  ASSUME NEW n \in Nat, NEW w \in Wires(n), NEW k, NEW lo \in 0 .. n, NEW hi \in 0 .. n, NEW g,
         NEW R, R = Marks(k, events, w, lo, hi), NEW I, I = IdsOn(k, events, w),
         NEW T, T = g \cup NumsOn(k, events, w), NEW W, W = Rows(k, events, log),
         Tidy(k, events, w), \A x \in NumsOn(k, events, w) : hi < x,
         NEW sub, sub.key = k, NEW a \in Wires(n), NEW new, NEW enough,
         Advances(sub, new, a, R, I), enough => Completes(sub, new, a, R, T, W),
         NEW dn, dn = w \o a, NEW sn, NEW j, Owned(k, sn) = {j}, sn[j] = new
  PROVE  Served(enough, n, k, w, a, dn, sub, new, sn, j, R, I, T, W, lo, hi, g)
<1>1. PICK N, J, M : /\ N = NumsOn(k, events, a) /\ J = IdsOn(k, events, a)
                     /\ M = NumsOn(k, events, w)
  OBVIOUS
<1>2. /\ Tidy(k, events, a) /\ J \cap I = {} /\ (\A x \in R, y \in N : x < y)
      /\ SubBase(new, events, R \cup N, I \cup J)
  BY <1>1 DEF Advances
<1>3. M \subseteq R
  <2>1. M \subseteq M \cup {lo, hi} /\ 0 \notin M
    BY <1>1 DEF NumsOn
  <2> QED BY <1>1, <2>1 DEF Marks
<1>4. PICK ev : ev = events
  OBVIOUS
<1>5. /\ w \o a \in Wires(n)
      /\ IdsOn(k, ev, w \o a) = IdsOn(k, ev, w) \cup IdsOn(k, ev, a)
      /\ NumsOn(k, ev, w \o a) = NumsOn(k, ev, w) \cup NumsOn(k, ev, a)
      /\ (/\ Tidy(k, ev, w) /\ Tidy(k, ev, a)
          /\ IdsOn(k, ev, w) \cap IdsOn(k, ev, a) = {}
          /\ \A x \in NumsOn(k, ev, w), y \in NumsOn(k, ev, a) : x < y)
           => Tidy(k, ev, w \o a)
  BY ONLY n \in Nat, w \in Wires(n), a \in Wires(n), Joined
<1>6. IdsOn(k, events, dn) = I \cup J /\ NumsOn(k, events, dn) = M \cup N /\ Tidy(k, events, dn)
  <2>1. /\ dn = w \o a /\ I = IdsOn(k, events, w) /\ Tidy(k, events, w)
    OBVIOUS
  <2>2. I \cap J = {} /\ \A x \in M, y \in N : x < y
    BY <1>2, <1>3
  <2> QED BY ONLY <1>1, <1>2, <1>4, <1>5, <2>1, <2>2
<1>7. Marks(k, events, dn, lo, hi) = R \cup N
  <2>1. 0 \notin N
    BY <1>1 DEF NumsOn
  <2> QED BY <1>1, <1>6, <2>1 DEF Marks
<1>8. \A x \in NumsOn(k, events, dn) : hi < x
  <2> SUFFICES ASSUME NEW x \in N PROVE hi < x
    BY <1>1, <1>6
  <2>1. x \in Nat /\ x # 0
    <3>1. N \in SUBSET IdsOn(k, events, a) /\ IdsOn(k, events, a) \in SUBSET (1 .. n)
      <4>1. IdsOn(k, ev, a) \in SUBSET (1 .. n) /\ NumsOn(k, ev, a) \in SUBSET IdsOn(k, ev, a)
        BY OnWireTypes
      <4> QED BY <1>1, <1>4, <4>1
    <3> QED BY <3>1
  <2>2. hi # 0 => hi \in R
    BY DEF Marks
  <2> QED BY <1>2, <2>1, <2>2
<1>9. KeyBase(k, events, dn, sn, lo, hi)
  BY <1>2, <1>6, <1>7, <1>8 DEF KeyBase
<1>10. ASSUME enough PROVE KeyGap(k, events, log, dn, sn, lo, hi, g)
  <2>1. /\ SubGap(new, events, R \cup N, T \cup N, W)
        /\ \A y \in R \cup N : Complete(W, R \cup N, T \cup N, y)
    BY <1>1, <1>10 DEF Completes
  <2>2. g \cup NumsOn(k, events, dn) = T \cup N
    BY <1>1, <1>6
  <2> QED BY <1>7, <2>1, <2>2 DEF KeyGap
<1> QED BY <1>9, <1>10 DEF KeyInv, Served

-----------------------------------------------------------------------------
(* The inductive invariant.                                                *)

EventRecs == [session : Sessions \cup {Global}, kind : {"plain", "approval"}]
UpFrames(n) ==
  [kind : {"register"}] \cup [kind : {"unsubscribe"}, key : Keys]
    \cup [kind : {"subscribe"}, key : Keys, since : 0 .. n]

WellTyped ==
  /\ events \in Seq(EventRecs)
  /\ log \subseteq Ids /\ approvals \subseteq Ids
  /\ peer \in [Sockets -> {"unused", "open", "halfopen", "closed"}] /\ registered \subseteq Sockets
  /\ prunes \in 0 .. MaxPrunes
  /\ subs \in Seq(Sound(Len(events), events)) /\ down \in Wires(Len(events))
  /\ up \in Seq(UpFrames(Len(events)))
  /\ socket \in 0 .. MaxSockets /\ counts \subseteq Keys /\ cancelled \subseteq Keys
  /\ cursor \in [Keys -> 0 .. Len(events)] /\ first \in [Keys -> 0 .. Len(events)]
  /\ got \in [Keys -> SUBSET Ids]

\* The hub holds the client's present socket; otherwise nothing is there for it, nor sent.
Live == socket # 0 /\ peer[socket] = "open"
Linked == (socket = 0 => down = << >>) /\ (~Live => up = << >> /\ subs = << >>)

Cursors == \A k \in Keys : first[k] <= cursor[k] /\ (first[k] = 0 => cursor[k] = 0)

\* The keys the application has not unsubscribed from, and the frames about the others.
Open == Keys \ cancelled
Ended == \A i \in DOMAIN up : up[i].kind = "unsubscribe" => up[i].key \in cancelled

\* Before the hub has subscribed the client, nothing is on its way, and it is about to ask
\* for what comes after its cursor.
Fresh(k) ==
  Owned(k, subs) = {} /\ Live
    => /\ IdsOn(k, events, down) = {}
       /\ \A i \in DOMAIN up : up[i].kind = "subscribe" /\ up[i].key = k => up[i].since = cursor[k]

\* The log is never larger than what a replay can page through.
Fits == Cardinality(log) <= MaxPages * PageSize

KeysInv(enough) ==
  \A k \in Open :
    /\ k \in counts
    /\ KeyInv(enough, k, events, log, down, subs, first[k], cursor[k], got[k])

EventsInv(enough) ==
  WellTyped /\ Linked /\ Cursors /\ Ended /\ KeysInv(enough) /\ \A k \in Open : Fresh(k)

\* What the properties say follows.
LEMMA InvDelivers ==
  ASSUME NEW enough, EventsInv(enough)
  PROVE  DeliveryInv
<1> USE DEF EventsInv
<1>1. PICK n \in Nat : n = Len(events)
  BY DEF WellTyped
<1>2. TypeOK
  <2>1. Seq(Sound(n, events)) \subseteq Seq(Subs)
    <3>1. Sound(n, events) \subseteq Subs
      <4>1. Ids = 1 .. n /\ Frames = FramesTo(n)
        BY <1>1 DEF Ids, Frames, FramesTo, EventsTo
      <4> QED BY <1>1, <4>1 DEF Sound, SubsTo, Subs
    <3> QED BY <3>1
  <2>2. Wires(n) \subseteq Seq(Frames)
    BY <1>1 DEF Wires, FramesTo, EventsTo, Frames, Ids
  <2> QED BY <1>1, <2>1, <2>2 DEF WellTyped, TypeOK, EventRecs, UpFrames
<1>3. ASSUME NEW k \in counts \ cancelled
      PROVE  Tidy(k, events, down) /\ \A x \in NumsOn(k, events, down) : cursor[k] < x
  <2>1. k \in Open
    BY <1>3 DEF Open, WellTyped
  <2> QED BY <2>1 DEF KeysInv, KeyInv, KeyBase
<1>4. InOrder
  <2> SUFFICES ASSUME NEW k \in counts \ cancelled, NEW i \in DOMAIN down,
                      down[i].kind = "event", down[i].sequence # 0,
                      Covers(k, events[down[i].id].session)
               PROVE  /\ down[i].sequence > cursor[k]
                      /\ \A j \in 1 .. (i - 1) :
                           /\ down[j].kind = "event" /\ down[j].sequence # 0
                           /\ Covers(k, events[down[j].id].session)
                           => down[j].sequence < down[i].sequence
    BY DEF InOrder
  <2>0. PICK w : w = down
    OBVIOUS
  <2>1. w \in Seq(FramesTo(n)) /\ w \in Wires(n) /\ DOMAIN w = 1 .. Len(w)
    BY <1>1, <2>0 DEF WellTyped, Wires
  <2>2. Tidy(k, events, w) /\ \A x \in NumsOn(k, events, w) : cursor[k] < x
    BY <1>3, <2>0
  <2>3. w[i].sequence \in NumsOn(k, events, w)
    BY <2>0 DEF NumsOn, Of
  <2>4. cursor[k] \in Nat /\ w[i].sequence \in Nat
    <3>1. k \in Keys /\ cursor \in [Keys -> 0 .. n]
      BY <1>1 DEF WellTyped
    <3>2. w[i].sequence \in 0 .. n
      BY <2>0, <2>1, FrameParts
    <3> QED BY <3>1, <3>2
  <2>5. ASSUME NEW j \in 1 .. (i - 1), w[j].kind = "event", w[j].sequence # 0,
               Covers(k, events[w[j].id].session)
        PROVE  w[j].sequence < w[i].sequence
    <3>1. j \in DOMAIN w /\ i \in DOMAIN w /\ j < i
      BY <2>0, <2>1
    <3>2. Of(k, events, w[i]) /\ Of(k, events, w[j])
      BY <2>0, <2>5 DEF Of
    <3> QED BY <2>0, <2>2, <2>5, <3>1, <3>2 DEF Tidy
  <2>6. w[i].sequence > cursor[k]
    BY <2>2, <2>3, <2>4
  <2> QED BY <2>0, <2>5, <2>6
<1>5. NoRepeat
  BY <1>3 DEF NoRepeat, Tidy, Of
<1> QED BY <1>2, <1>4, <1>5 DEF DeliveryInv

\* Nor is anything missing.
LEMMA InvLeavesNoGap ==
  ASSUME EventsInv(TRUE)
  PROVE  NoGap
<1> SUFFICES ASSUME NEW k \in Keys \ cancelled, NEW e \in Wanted(k),
                    first[k] # 0, first[k] <= e, e <= cursor[k]
             PROVE  e \in got[k]
  BY DEF NoGap
<1>1. KeyInv(TRUE, k, events, log, down, subs, first[k], cursor[k], got[k])
  BY DEF EventsInv, KeysInv, Open
<1>2. PICK n \in Nat : n = Len(events) /\ cursor[k] \in 0 .. n /\ first[k] \in 0 .. n
  BY DEF EventsInv, WellTyped
<1>3. PICK R, N, W : /\ R = Marks(k, events, down, first[k], cursor[k])
                     /\ N = NumsOn(k, events, down) /\ W = Rows(k, events, log)
  OBVIOUS
<1>4. e \in W /\ e \in 1 .. n
  BY <1>2, <1>3 DEF Wanted, Rows, EventsInv, WellTyped, Ids
<1>5. first[k] \in R /\ cursor[k] \in R
  <2>1. cursor[k] # 0
    BY <1>2, <1>4
  <2> QED BY <1>3, <2>1 DEF Marks
<1>6. \A y \in R : Complete(W, R, got[k] \cup N, y)
  BY <1>1, <1>3 DEF KeyInv, KeyGap
<1>7. e \in got[k] \cup N
  BY <1>4, <1>5, <1>6 DEF Complete
<1>8. e \notin N
  <2>1. \A x \in N : cursor[k] < x
    BY <1>1, <1>3 DEF KeyInv, KeyBase
  <2> QED BY <1>2, <1>4, <2>1
<1> QED BY <1>7, <1>8

\* It holds at first.
LEMMA EventsInit ==
  ASSUME NEW enough, Init
  PROVE  EventsInv(enough)
<1> USE DEF Init
<1>1. Len(events) = 0 /\ events \in Seq(EventRecs) /\ Ids = {}
  BY DEF Ids
<1>2. << >> \in Wires(0) /\ \A k : Tidy(k, events, << >>) /\ IdsOn(k, events, << >>) = {}
                                   /\ NumsOn(k, events, << >>) = {}
  BY EmptyWire
<1>3. WellTyped
  <2>1. {MaxSockets, MaxPrunes} \subseteq Nat
    BY ConstantsAssumption
  <2>2. << >> \in Seq(Sound(0, events)) /\ << >> \in Seq(UpFrames(0))
    OBVIOUS
  <2> QED BY <1>1, <1>2, <2>1, <2>2 DEF WellTyped, Sockets
<1>4. Linked /\ Cursors /\ Ended
  BY DEF Linked, Cursors, Ended, Live
<1>5. ASSUME NEW k \in Open PROVE KeyInv(enough, k, events, log, down, subs, 0, 0, {})
  <2>1. Owned(k, subs) = {}
    BY DEF Owned
  <2>2. Marks(k, events, down, 0, 0) = {}
    BY <1>2 DEF Marks
  <2>3. KeyBase(k, events, down, subs, 0, 0)
    BY <1>2, <2>1 DEF KeyBase
  <2>4. KeyGap(k, events, log, down, subs, 0, 0, {})
    BY <2>1, <2>2 DEF KeyGap
  <2> QED BY <2>3, <2>4 DEF KeyInv
<1>6. KeysInv(enough)
  BY <1>5 DEF KeysInv, Open
<1>7. \A k \in Open : Fresh(k)
  BY DEF Fresh, Live
<1> QED BY <1>3, <1>4, <1>6, <1>7 DEF EventsInv

\* The subscriptions after a publication.
LEMMA AllHearIs ==
  ASSUME NEW n \in Nat, NEW ev, NEW ew, \A e \in 1 .. n : ew[e] = ev[e],
         NEW ss \in Seq(Sound(n, ev)), NEW sn, AllHear(n, ew, ss, sn),
         sn = [j \in DOMAIN ss |-> sn[j]]
  PROVE  sn \in Seq(Sound(n + 1, ew)) /\ \A k : Owned(k, sn) = Owned(k, ss)
<1>1. PICK l \in Nat : DOMAIN ss = 1 .. l
  OBVIOUS
<1>2. DOMAIN sn = 1 .. l
  BY <1>1 DEF AllHear
<1>3. ASSUME NEW j \in 1 .. l PROVE sn[j] \in Sound(n + 1, ew) /\ sn[j].key = ss[j].key
  <2>1. PICK sub, new, f : sub = ss[j] /\ new = sn[j] /\ f = Numbered(n + 1)
    OBVIOUS
  <2>2. sub \in Sound(n, ev)
    BY <1>1, <2>1
  <2>3. n \in Nat /\ n + 1 \in Nat /\ n <= n + 1 /\ \A e \in 1 .. n : ew[e] = ev[e]
    OBVIOUS
  <2>4. CASE sub.heard /\ Covers(sub.key, ew[n + 1].session)
    <3>1. new = Heard(sub, f)
      BY <1>1, <2>1, <2>4 DEF AllHear
    <3>2. new \in Sound(n + 1, ew) /\ Hearing(sub, f, new)
      BY ONLY <2>1, <2>2, <2>3, <2>4, <3>1, HeardIs
    <3> QED BY <2>1, <3>2 DEF Hearing
  <2>5. CASE ~(sub.heard /\ Covers(sub.key, ew[n + 1].session))
    <3>1. new = sub
      BY <1>1, <2>1, <2>5 DEF AllHear
    <3>2. sub \in Sound(n + 1, ew)
      BY ONLY <2>2, <2>3, SoundGrows
    <3> QED BY <2>1, <3>1, <3>2
  <2> QED BY <2>4, <2>5
<1>4. sn \in [1 .. l -> Sound(n + 1, ew)]
  BY <1>1, <1>3
<1>5. sn \in Seq(Sound(n + 1, ew))
  BY <1>4
<1>6. \A k : Owned(k, sn) = Owned(k, ss)
  BY <1>1, <1>2, <1>3 DEF Owned
<1> QED BY <1>5, <1>6

\* What a publication does, when the subscriptions are ss.
Published(enough, n, ss, lg, ev, ew, lh, sn, dn) ==
  /\ ew \in Seq(EventRecs) /\ Len(ew) = n + 1 /\ (\A e \in 1 .. n : ew[e] = ev[e])
  /\ lh \subseteq 1 .. n + 1
  /\ sn \in Seq(Sound(n + 1, ew)) /\ (\A k : Owned(k, sn) = Owned(k, ss))
  /\ dn \in Wires(n + 1)
  /\ \A k \in Open : /\ KeyInv(enough, k, ew, lh, dn, sn, first[k], cursor[k], got[k])
                     /\ Owned(k, ss) = {} => IdsOn(k, ew, dn) = IdsOn(k, ev, down)

\* A publication, to subscriptions of which the invariant's parts hold.
LEMMA PublishIs ==
  ASSUME NEW enough, EventsInv(enough), NEW s \in Sessions \cup {Global},
         NEW kind \in {"plain", "approval"}, NEW r \in Replies,
         NEW n, n = Len(events), NEW ss \in Seq(Sound(n, events)),
         \A k \in Open : KeyInv(enough, k, events, log, down, ss, first[k], cursor[k], got[k]),
         Publish(s, kind, ss, r)
  PROVE  Published(enough, n, ss, log, events, events', log', subs', down')
<1>1. PICK ev, w, lg, ew, dn, lh, sn :
        /\ ev = events /\ w = down /\ lg = log
        /\ ew = events' /\ dn = down' /\ lh = log' /\ sn = subs'
  OBVIOUS
<1>2. /\ n \in Nat /\ ev \in Seq(EventRecs) /\ Len(ev) = n /\ lg \in SUBSET (1 .. n)
      /\ w \in Wires(n)
  BY <1>1 DEF EventsInv, WellTyped, Ids
<1>3. PICK f : f = Numbered(n + 1)
  OBVIOUS
<1>4. f.id = n + 1
  BY <1>3 DEF Numbered, Event
<1>5. PICK rec \in EventRecs : rec = [session |-> s, kind |-> kind]
  BY DEF EventRecs
<1>6. ew = Append(ev, rec)
  BY <1>1, <1>5 DEF Publish
<1>7. ew \in Seq(EventRecs) /\ Len(ew) = n + 1 /\ (\A e \in 1 .. n : ew[e] = ev[e])
      /\ ew[n + 1] = rec
  BY <1>2, <1>6
<1>8. ew[n + 1].session = s
  BY <1>5, <1>7
<1>9. lh = lg \cup {n + 1}
  BY <1>1, <1>3, <1>4 DEF Publish
<1>10. /\ sn = [j \in DOMAIN ss |-> IF ss[j].heard /\ Covers(ss[j].key, s)
                                    THEN Heard(ss[j], f) ELSE ss[j]]
       /\ dn = w \o [i \in 1 .. Cardinality({j \in DOMAIN ss :
                            /\ ss[j].heard /\ Covers(ss[j].key, s)
                            /\ Emits(ss[j], f)}) |-> f] \o r
  BY <1>1, <1>3 DEF Publish
<1>11. AllHear(n, ew, ss, sn) /\ sn = [j \in DOMAIN ss |-> sn[j]]
  BY <1>3, <1>8, <1>10 DEF AllHear
<1>12. PICK c : c = Cardinality(Hearers(n, ew, ss))
  OBVIOUS
<1>13. c = Cardinality({j \in DOMAIN ss : /\ ss[j].heard /\ Covers(ss[j].key, s)
                                          /\ Emits(ss[j], f)})
  BY <1>3, <1>8, <1>12 DEF Hearers
<1>14. Told(n, w, dn, c, r)
  BY <1>3, <1>10, <1>13 DEF Told
<1>15. ss \in Seq(Sound(n, ev))
  BY <1>1
<1>16. sn \in Seq(Sound(n + 1, ew)) /\ \A k : Owned(k, sn) = Owned(k, ss)
  BY ONLY <1>2, <1>7, <1>11, <1>15, AllHearIs
<1>17. ASSUME NEW k \in Open
       PROVE  /\ KeyInv(enough, k, ew, lh, dn, sn, first[k], cursor[k], got[k])
              /\ Owned(k, ss) = {} => IdsOn(k, ew, dn) = IdsOn(k, ev, w)
  <2>1. PICK lo, hi, g : lo = first[k] /\ hi = cursor[k] /\ g = got[k]
    OBVIOUS
  <2>2. k \in Keys /\ lo \in 0 .. n /\ hi \in 0 .. n
    BY <2>1 DEF EventsInv, WellTyped, Open
  <2>3. KeyInv(enough, k, ev, lg, w, ss, lo, hi, g)
    BY <1>1, <2>1
  <2>4. Told(n, w, dn, Cardinality(Hearers(n, ew, ss)), r) /\ r \in Replies
    BY <1>12, <1>14
  <2>5. Grown(enough, n, k, ev, ew, lg, lh, w, dn, ss, sn, lo, hi, g, r)
    BY ONLY <1>2, <1>7, <1>9, <1>11, <1>15, <2>2, <2>3, <2>4, KeyGrows
  <2> QED BY <2>1, <2>5 DEF Grown
<1>18. dn \in Wires(n + 1)
  <2>1. IsFiniteSet(Hearers(n, ew, ss))
    <3>1. PICK l \in Nat : DOMAIN ss = 1 .. l
      OBVIOUS
    <3>2. Hearers(n, ew, ss) \in SUBSET (1 .. l)
      BY <3>1 DEF Hearers
    <3>3. IsFiniteSet(1 .. l)
      BY ONLY l \in Nat, FS_Interval
    <3> QED BY <3>2, <3>3, FS_Subset
  <2>2. c \in Nat
    BY <1>12, <2>1, FS_CardinalityType
  <2>3. PICK a, m : a = [i \in 1 .. c |-> f] /\ m = n + 1
    OBVIOUS
  <2>4. a \in Wires(m) /\ r \in Wires(m)
    BY ONLY <1>2, <1>3, <2>2, <2>3, r \in Replies, FanOut
  <2>5. m \in Nat /\ n <= m /\ n \in Nat
    BY <1>2, <2>3
  <2>6. w \in Wires(m)
    BY <1>2, <2>5, WiresGrow
  <2>7. w \o a \in Wires(m)
    BY ONLY <2>4, <2>5, <2>6, JoinedParts
  <2>8. PICK v : v = w \o a
    OBVIOUS
  <2>9. v \o r \in Wires(m)
    BY ONLY <2>4, <2>5, <2>7, <2>8, JoinedParts
  <2>10. dn = v \o r
    BY <1>3, <1>14, <2>3, <2>8 DEF Told
  <2> QED BY <2>3, <2>9, <2>10
<1>19. lh \subseteq 1 .. n + 1
  BY <1>2, <1>9
<1>20. Published(enough, n, ss, lg, ev, ew, lh, sn, dn)
  BY <1>1, <1>7, <1>16, <1>17, <1>18, <1>19 DEF Published
<1> QED BY <1>1, <1>20

-----------------------------------------------------------------------------
(* The actions.                                                            *)

\* The client's own state stays.
ClientStays == UNCHANGED <<socket, counts, cursor, first, got, cancelled>>

\* No frame from the client that was not there.
NothingSent == /\ up' \in Seq(UpFrames(Len(events)))
               /\ \A i \in DOMAIN up' : \E j \in DOMAIN up : up'[i] = up[j]

\* The state that the keys do not depend on, when there are m events.
HubTypes(m) ==
  /\ approvals' \subseteq 1 .. m /\ prunes' \in 0 .. MaxPrunes /\ registered' \subseteq Sockets
  /\ peer' \in [Sockets -> {"unused", "open", "halfopen", "closed"}]

\* A publication keeps the invariant, whatever else happens in the hub.
LEMMA PublishedKeeps ==
  ASSUME NEW enough, EventsInv(enough), NEW n, n = Len(events), NEW ss \in Seq(Sound(n, events)),
         Published(enough, n, ss, log, events, events', log', subs', down'),
         ClientStays, NothingSent, HubTypes(n + 1), Linked',
         Live' => Live /\ \A k \in Open : Owned(k, ss) = Owned(k, subs)
  PROVE  EventsInv(enough)'
<1>1. /\ n \in Nat /\ events \in Seq(EventRecs) /\ WellTyped /\ Cursors /\ Ended
      /\ KeysInv(enough) /\ \A k \in Open : Fresh(k)
  BY DEF EventsInv, WellTyped
<1>2. /\ events' \in Seq(EventRecs) /\ Len(events') = n + 1 /\ log' \subseteq 1 .. n + 1
      /\ subs' \in Seq(Sound(n + 1, events')) /\ down' \in Wires(n + 1)
      /\ \A k : Owned(k, subs') = Owned(k, ss)
      /\ \A k \in Open :
           /\ KeyInv(enough, k, events', log', down', subs', first[k], cursor[k], got[k])
           /\ Owned(k, ss) = {} => IdsOn(k, events', down') = IdsOn(k, events, down)
  BY DEF Published
<1>3. WellTyped'
  <2>1. 0 .. n \subseteq 0 .. (n + 1) /\ 1 .. n \subseteq 1 .. (n + 1)
    BY <1>1
  <2>2. UpFrames(n) \subseteq UpFrames(n + 1)
    BY <2>1 DEF UpFrames
  <2>3. up' \in Seq(UpFrames(n + 1))
    BY <2>2 DEF NothingSent
  <2>4. /\ cursor \in [Keys -> 0 .. n + 1] /\ first \in [Keys -> 0 .. n + 1]
        /\ got \in [Keys -> SUBSET (1 .. n + 1)]
    BY <1>1, <2>1 DEF WellTyped, Ids
  <2>5. /\ cursor' \in [Keys -> 0 .. n + 1] /\ first' \in [Keys -> 0 .. n + 1]
        /\ got' \in [Keys -> SUBSET (1 .. n + 1)]
    BY <2>4 DEF ClientStays
  <2>6. socket' \in 0 .. MaxSockets /\ counts' \subseteq Keys /\ cancelled' \subseteq Keys
    BY <1>1 DEF WellTyped, ClientStays
  <2>7. Ids' = 1 .. n + 1
    BY <1>2 DEF Ids
  <2> QED BY <1>2, <2>3, <2>5, <2>6, <2>7 DEF WellTyped, HubTypes
<1>4. Cursors'
  BY <1>1 DEF Cursors, ClientStays
<1>5. Ended'
  BY <1>1 DEF Ended, NothingSent, ClientStays
<1>6. KeysInv(enough)'
  <2>1. \A k \in Open :
          /\ KeyInv(enough, k, events', log', down', subs', first'[k], cursor'[k], got'[k])
          /\ k \in counts'
    BY <1>1, <1>2 DEF ClientStays, KeysInv
  <2>2. Open' = Open
    BY DEF Open, ClientStays
  <2> QED BY <2>1, <2>2 DEF KeysInv
<1>7. \A k \in Open' : Fresh(k)'
  <2> SUFFICES ASSUME NEW k \in Open, Owned(k, subs') = {}, Live'
               PROVE  /\ IdsOn(k, events', down') = {}
                      /\ \A i \in DOMAIN up' : up'[i].kind = "subscribe" /\ up'[i].key = k
                                                 => up'[i].since = cursor[k]
    BY DEF Fresh, Open, ClientStays
  <2>1. Owned(k, subs) = {} /\ Live /\ Owned(k, ss) = {}
    BY <1>2
  <2>2. IdsOn(k, events, down) = {}
        /\ \A i \in DOMAIN up : up[i].kind = "subscribe" /\ up[i].key = k => up[i].since = cursor[k]
    BY <1>1, <2>1 DEF Fresh
  <2> QED BY <1>2, <2>1, <2>2 DEF NothingSent
<1> QED BY <1>3, <1>4, <1>5, <1>6, <1>7 DEF EventsInv

\* With no subscriptions nothing is sent.
LEMMA NobodyHears ==
  ASSUME NEW s, NEW kind, Publish(s, kind, << >>, << >>)
  PROVE  subs' = << >> /\ (down = << >> => down' = << >>)
<1>1. DOMAIN << >> = {}
  OBVIOUS
<1>2. subs' = << >>
  BY <1>1 DEF Publish
<1>3. PICK f, H : /\ f = Numbered(Len(events) + 1)
                  /\ H = {j \in DOMAIN << >> : /\ << >>[j].heard /\ Covers(<< >>[j].key, s)
                                              /\ Emits(<< >>[j], f)}
                  /\ down' = down \o [i \in 1 .. Cardinality(H) |-> f] \o << >>
  BY DEF Publish
<1>4. H = {}
  BY <1>1, <1>3
<1>5. Cardinality(H) = 0
  BY <1>4, FS_EmptySet
<1>6. PICK c, a : c = Cardinality(H) /\ a = [i \in 1 .. c |-> f]
  OBVIOUS
<1>7. c = 0 /\ a = << >>
  BY <1>5, <1>6
<1>8. down' = down \o a \o << >>
  BY <1>3, <1>6
<1> QED BY <1>2, <1>7, <1>8

\* An event is published and no frame taken from the client.
LEMMA PublishingKeeps ==
  ASSUME NEW enough, EventsInv(enough), NEW s \in Sessions \cup {Global},
         NEW kind \in {"plain", "approval"}, Publish(s, kind, subs, << >>),
         UNCHANGED <<peer, registered, up, prunes, clientVars>>,
         approvals' \subseteq approvals \cup {Len(events) + 1}
  PROVE  EventsInv(enough)'
<1>1. PICK n \in Nat : n = Len(events)
  BY DEF EventsInv, WellTyped
<1>2. WellTyped /\ Linked /\ KeysInv(enough)
  BY DEF EventsInv
<1>3. PICK ss : ss = subs
  OBVIOUS
<1>4. ss \in Seq(Sound(n, events))
  BY <1>1, <1>2, <1>3 DEF WellTyped
<1>5. \A k \in Open : KeyInv(enough, k, events, log, down, ss, first[k], cursor[k], got[k])
  BY <1>2, <1>3 DEF KeysInv
<1>6. PICK r : r = << >>
  OBVIOUS
<1>7. r \in Replies /\ Publish(s, kind, ss, r)
  BY <1>3, <1>6 DEF Replies
<1>8. Published(enough, n, ss, log, events, events', log', subs', down')
  BY ONLY EventsInv(enough), s \in Sessions \cup {Global}, kind \in {"plain", "approval"},
          <1>1, <1>4, <1>5, <1>7, PublishIs
<1>9. ClientStays
  BY DEF clientVars, ClientStays
<1>10. NothingSent
  BY <1>1, <1>2 DEF WellTyped, NothingSent
<1>11. HubTypes(n + 1)
  <2>1. approvals \cup {n + 1} \subseteq 1 .. n + 1
    <3>1. approvals \subseteq 1 .. n
      BY <1>1, <1>2 DEF WellTyped, Ids
    <3>2. \A a \in approvals : a \in 1 .. n + 1
      BY <1>1, <3>1
    <3>3. n + 1 \in 1 .. n + 1
      BY ONLY n \in Nat
    <3> QED BY ONLY <3>2, <3>3
  <2>2. /\ prunes \in 0 .. MaxPrunes /\ registered \subseteq Sockets
        /\ peer \in [Sockets -> {"unused", "open", "halfopen", "closed"}]
    BY <1>2 DEF WellTyped
  <2> QED BY <1>1, <2>1, <2>2 DEF HubTypes
<1>12. Live' = Live
  BY <1>9 DEF Live, ClientStays
<1>13. Linked'
  <2>1. ~Live => subs' = << >> /\ (down = << >> => down' = << >>)
    <3> SUFFICES ASSUME ~Live PROVE subs' = << >> /\ (down = << >> => down' = << >>)
      OBVIOUS
    <3>1. ss = << >>
      BY <1>2, <1>3 DEF Linked
    <3>2. Publish(s, kind, << >>, << >>)
      BY <1>6, <1>7, <3>1
    <3> QED BY ONLY <3>2, NobodyHears
  <2>2. socket = 0 => ~Live
    BY DEF Live
  <2> QED BY <1>2, <1>9, <1>12, <2>1, <2>2 DEF Linked, ClientStays
<1>14. Live' => Live /\ \A k \in Open : Owned(k, ss) = Owned(k, subs)
  BY <1>3, <1>12
<1> QED
  BY ONLY EventsInv(enough), <1>1, <1>4, <1>8, <1>9, <1>10, <1>11, <1>13, <1>14, PublishedKeeps

\* Events of a session and requests for approval.
LEMMA EventPublishes ==
  ASSUME NEW enough, EventsInv(enough), NEW s \in Sessions, PublishEvent(s) \/ RequestApproval(s)
  PROVE  EventsInv(enough)'
<1>1. CASE PublishEvent(s)
  <2>1. Publish(s, "plain", subs, << >>)
        /\ UNCHANGED <<peer, registered, up, prunes, clientVars>> /\ approvals' = approvals
    BY <1>1 DEF PublishEvent
  <2>2. s \in Sessions \cup {Global} /\ "plain" \in {"plain", "approval"}
        /\ approvals' \subseteq approvals \cup {Len(events) + 1}
    BY <2>1
  <2> QED BY ONLY EventsInv(enough), <2>1, <2>2, PublishingKeeps
<1>2. CASE RequestApproval(s)
  <2>1. Publish(s, "approval", subs, << >>)
        /\ UNCHANGED <<peer, registered, up, prunes, clientVars>>
        /\ approvals' \subseteq approvals \cup {Len(events) + 1}
    BY <1>2 DEF RequestApproval
  <2>2. s \in Sessions \cup {Global} /\ "approval" \in {"plain", "approval"}
    OBVIOUS
  <2> QED BY ONLY EventsInv(enough), <2>1, <2>2, PublishingKeeps
<1> QED BY <1>1, <1>2

\* The answer to a request.
LEMMA ApprovalAnswered ==
  ASSUME NEW enough, EventsInv(enough), NEW a \in Ids, RespondApproval(a)
  PROVE  EventsInv(enough)'
<1>1. PICK s : s = events[a].session
  OBVIOUS
<1>2. Publish(s, "plain", subs, << >>)
      /\ UNCHANGED <<peer, registered, up, prunes, clientVars>>
      /\ approvals' \subseteq approvals \cup {Len(events) + 1}
  BY <1>1 DEF RespondApproval
<1>3. s \in Sessions \cup {Global} /\ "plain" \in {"plain", "approval"}
  <2>1. events \in Seq(EventRecs) /\ a \in 1 .. Len(events)
    BY DEF EventsInv, WellTyped, Ids
  <2>2. events[a] \in EventRecs
    BY <2>1
  <2> QED BY <1>1, <2>2 DEF EventRecs
<1> QED BY ONLY EventsInv(enough), <1>2, <1>3, PublishingKeeps

\* client.register: the event and the reply.
LEMMA RegisterKeeps ==
  ASSUME NEW enough, EventsInv(enough), HandleRegister
  PROVE  EventsInv(enough)'
<1>1. PICK n \in Nat : n = Len(events)
  BY DEF EventsInv, WellTyped
<1>2. WellTyped /\ Linked /\ KeysInv(enough)
  BY DEF EventsInv
<1>3. PICK ss : ss = subs
  OBVIOUS
<1>4. ss \in Seq(Sound(n, events))
  BY <1>1, <1>2, <1>3 DEF WellTyped
<1>5. \A k \in Open : KeyInv(enough, k, events, log, down, ss, first[k], cursor[k], got[k])
  BY <1>2, <1>3 DEF KeysInv
<1>6. PICK r : r = <<[kind |-> "reply"]>>
  OBVIOUS
<1>7. r \in Replies /\ Publish(Global, "plain", ss, r)
  BY <1>3, <1>6 DEF Replies, HandleRegister
<1>8. Published(enough, n, ss, log, events, events', log', subs', down')
  <2>1. Global \in Sessions \cup {Global} /\ "plain" \in {"plain", "approval"}
    OBVIOUS
  <2> QED BY ONLY EventsInv(enough), <1>1, <1>4, <1>5, <1>7, <2>1, PublishIs
<1>9. ClientStays /\ UNCHANGED <<approvals, peer, prunes>>
  BY DEF clientVars, ClientStays, HandleRegister
<1>10. up # << >> /\ up' = Tail(up) /\ registered' = registered \cup {socket}
  BY DEF HandleRegister, TakeFrame
<1>11. Live
  BY <1>2, <1>10 DEF Linked
<1>12. NothingSent
  <2>1. PICK u : u = up
    OBVIOUS
  <2>2. u \in Seq(UpFrames(n)) /\ u # << >>
    BY <1>1, <1>2, <1>10, <2>1 DEF WellTyped
  <2>3. /\ Tail(u) \in Seq(UpFrames(n))
        /\ \A i \in DOMAIN Tail(u) : i + 1 \in DOMAIN u /\ Tail(u)[i] = u[i + 1]
    BY <2>2
  <2> QED BY <1>1, <1>10, <2>1, <2>3 DEF NothingSent
<1>13. HubTypes(n + 1)
  <2>1. approvals \subseteq 1 .. n
    BY <1>1, <1>2 DEF WellTyped, Ids
  <2>2. approvals \subseteq 1 .. n + 1
    BY <1>1, <2>1
  <2>3. /\ prunes \in 0 .. MaxPrunes /\ registered \subseteq Sockets
        /\ peer \in [Sockets -> {"unused", "open", "halfopen", "closed"}]
    BY <1>2 DEF WellTyped
  <2>4. socket \in Sockets
    BY <1>2, <1>11, ConstantsAssumption DEF WellTyped, Live, Sockets
  <2> QED BY <1>9, <1>10, <2>2, <2>3, <2>4 DEF HubTypes
<1>14. Linked' /\ Live'
  BY <1>9, <1>11 DEF Linked, Live, ClientStays
<1>15. Live' => Live /\ \A k \in Open : Owned(k, ss) = Owned(k, subs)
  BY <1>3, <1>11
<1> QED
  BY ONLY EventsInv(enough), <1>1, <1>4, <1>8, <1>9, <1>12, <1>13, <1>14, <1>15, PublishedKeeps

\* The types of what a step of the client may change, when there are m events.
ClientTypes(m) ==
  /\ socket' \in 0 .. MaxSockets /\ counts' \subseteq Keys /\ cancelled' \subseteq Keys
  /\ up' \in Seq(UpFrames(m))

\* Nothing happens on the wire to the client: rows, subscriptions and listeners may go.
LEMMA SteadyKeeps ==
  ASSUME NEW enough, EventsInv(enough), UNCHANGED <<events, down, cursor, first, got>>,
         log' \subseteq log, subs' \in Seq(Sound(Len(events), events)),
         HubTypes(Len(events)), ClientTypes(Len(events)), Linked', Ended',
         Open' \subseteq Open, \A k \in Open' : k \in counts' /\ Fewer(k, subs', subs) /\ Fresh(k)'
  PROVE  EventsInv(enough)'
<1>1. PICK n \in Nat : n = Len(events)
  BY DEF EventsInv, WellTyped
<1>2. WellTyped /\ Cursors /\ KeysInv(enough)
  BY DEF EventsInv
<1>3. WellTyped'
  BY <1>2 DEF WellTyped, HubTypes, ClientTypes, Ids
<1>4. Cursors'
  BY <1>2 DEF Cursors
<1>5. ASSUME NEW k \in Open'
      PROVE  KeyInv(enough, k, events', log', down', subs', first'[k], cursor'[k], got'[k])
  <2>1. PICK ev, lg, w, ss, lo, hi, g, lh, sn :
          /\ ev = events /\ lg = log /\ w = down /\ ss = subs /\ lo = first[k] /\ hi = cursor[k]
          /\ g = got[k] /\ lh = log' /\ sn = subs'
    OBVIOUS
  <2>2. KeyInv(enough, k, ev, lg, w, ss, lo, hi, g)
    BY <1>2, <2>1 DEF KeysInv
  <2>3. lg \in SUBSET (1 .. n) /\ ss \in Seq(Sound(n, ev)) /\ lh \in SUBSET lg
    BY <1>1, <1>2, <2>1 DEF WellTyped, Ids
  <2>4. Fewer(k, sn, ss)
    BY <2>1
  <2>5. Shrinks(k, ev, w, w, lo, hi, lo, hi, g, g)
    BY ONLY <2>2, SameWire
  <2>6. KeyInv(enough, k, ev, lh, w, sn, lo, hi, g)
    BY ONLY n \in Nat, <2>2, <2>3, <2>4, <2>5, KeyShrinks
  <2> QED BY <2>1, <2>6
<1>6. KeysInv(enough)'
  BY <1>5 DEF KeysInv
<1> QED BY <1>3, <1>4, <1>6 DEF EventsInv

\* A sweep of the log.
LEMMA PruneKeeps ==
  ASSUME NEW enough, EventsInv(enough), Prune
  PROVE  EventsInv(enough)'
<1>1. WellTyped /\ Linked /\ Ended /\ KeysInv(enough) /\ \A k \in Open : Fresh(k)
  BY DEF EventsInv
<1>2. /\ UNCHANGED <<events, approvals, peer, registered, subs, up, down>>
      /\ UNCHANGED <<socket, counts, cursor, first, got, cancelled>>
      /\ log' \subseteq log /\ prunes' = prunes + 1 /\ prunes < MaxPrunes
  BY DEF Prune, clientVars
<1>3. UNCHANGED <<events, down, cursor, first, got>> /\ log' \subseteq log
  BY <1>2
<1>4. subs' \in Seq(Sound(Len(events), events)) /\ ClientTypes(Len(events))
  BY <1>1, <1>2 DEF WellTyped, ClientTypes
<1>5. HubTypes(Len(events))
  <2>1. prunes' \in 0 .. MaxPrunes
    BY <1>1, <1>2, ConstantsAssumption DEF WellTyped
  <2> QED BY <1>1, <1>2, <2>1 DEF WellTyped, HubTypes, Ids
<1>6. Linked' /\ Ended' /\ Open' = Open
  BY <1>1, <1>2 DEF Linked, Live, Ended, Open
<1>7. \A k \in Open' : k \in counts' /\ Fewer(k, subs', subs) /\ Fresh(k)'
  <2> SUFFICES ASSUME NEW k \in Open PROVE k \in counts' /\ Fewer(k, subs', subs) /\ Fresh(k)'
    BY <1>6
  <2>1. k \in counts' /\ Fewer(k, subs', subs)
    BY <1>1, <1>2 DEF KeysInv, Fewer
  <2>2. Fresh(k)'
    BY <1>1, <1>2 DEF Fresh, Live
  <2> QED BY <2>1, <2>2
<1> QED BY ONLY EventsInv(enough), <1>3, <1>4, <1>5, <1>6, <1>7, SteadyKeeps

\* The socket opens.
LEMMA ConnectKeeps ==
  ASSUME NEW enough, EventsInv(enough), Connect
  PROVE  EventsInv(enough)'
<1>1. WellTyped /\ Linked /\ Ended /\ KeysInv(enough)
  BY DEF EventsInv
<1>2. PICK n \in Sockets : socket' = n /\ peer' = [peer EXCEPT ![n] = "open"]
  BY DEF Connect
<1>3. /\ socket = 0 /\ up' = <<[kind |-> "register"]>>
      /\ UNCHANGED <<events, log, approvals, registered, subs, down, counts, cursor, first, got,
                     cancelled, prunes>>
  BY DEF Connect
<1>4. UNCHANGED <<events, down, cursor, first, got>> /\ log' \subseteq log
  BY <1>3
<1>5. subs = << >> /\ down = << >>
  BY <1>1, <1>3 DEF Linked, Live
<1>6. [kind |-> "register"] \in UpFrames(Len(events))
  BY DEF UpFrames
<1>7. up' \in Seq(UpFrames(Len(events)))
  BY <1>3, <1>6
<1>8. socket' \in 0 .. MaxSockets
  BY <1>2, ConstantsAssumption DEF Sockets
<1>9. subs' \in Seq(Sound(Len(events), events)) /\ ClientTypes(Len(events))
  BY <1>1, <1>3, <1>7, <1>8 DEF WellTyped, ClientTypes
<1>10. peer' \in [Sockets -> {"unused", "open", "halfopen", "closed"}] /\ peer'[n] = "open"
  BY <1>1, <1>2 DEF WellTyped
<1>11. HubTypes(Len(events))
  BY <1>1, <1>3, <1>10 DEF WellTyped, HubTypes, Ids
<1>12. Linked'
  <2>1. n # 0
    BY <1>2 DEF Sockets
  <2> QED BY <1>2, <1>10, <2>1 DEF Linked, Live
<1>13. up'[1].kind = "register" /\ DOMAIN up' = {1}
  BY <1>3
<1>14. Ended'
  BY <1>13 DEF Ended
<1>15. Open' = Open
  BY <1>3 DEF Open
<1>16. \A k \in Open' : k \in counts' /\ Fewer(k, subs', subs) /\ Fresh(k)'
  <2> SUFFICES ASSUME NEW k \in Open PROVE k \in counts' /\ Fewer(k, subs', subs) /\ Fresh(k)'
    BY <1>15
  <2>1. k \in counts' /\ Fewer(k, subs', subs)
    BY <1>1, <1>3 DEF KeysInv, Fewer
  <2>2. IdsOn(k, events', down') = {}
    BY <1>3, <1>5 DEF IdsOn
  <2>3. Fresh(k)'
    BY <1>13, <2>2 DEF Fresh
  <2> QED BY <2>1, <2>3
<1>17. Open' \subseteq Open
  BY <1>15
<1> QED BY ONLY EventsInv(enough), <1>4, <1>9, <1>11, <1>12, <1>14, <1>16, <1>17, SteadyKeeps

\* A frame that is taken from a sequence is no longer there, the others are.
LEMMA TailIs ==
  ASSUME NEW S, NEW q \in Seq(S), q # << >>, NEW t, t = Tail(q)
  PROVE  t \in Seq(S) /\ \A i \in DOMAIN t : \E j \in DOMAIN q : t[i] = q[j]
<1>1. t \in Seq(S) /\ \A i \in DOMAIN t : i + 1 \in DOMAIN q /\ t[i] = q[i + 1]
  OBVIOUS
<1> QED BY <1>1

\* The frame of a client: it goes out if the hub is there.
LEMMA SendIs ==
  ASSUME NEW m, up \in Seq(UpFrames(m)), NEW f \in UpFrames(m), Send(<<f>>)
  PROVE  /\ up' \in Seq(UpFrames(m)) /\ (~Live => up' = up)
         /\ \A i \in DOMAIN up' : up'[i] = f \/ \E j \in DOMAIN up : up'[i] = up[j]
<1>1. PICK u, v : u = up /\ v = up'
  OBVIOUS
<1>2. u \in Seq(UpFrames(m)) /\ v = IF Live THEN Append(u, f) ELSE u
  <2>1. u \in Seq(UpFrames(m))
    BY <1>1
  <2>2. v = IF Live THEN u \o <<f>> ELSE u
    BY <1>1 DEF Send, Live
  <2>3. u \o <<f>> = Append(u, f)
    BY <2>1
  <2> QED BY <2>1, <2>2, <2>3
<1>3. v \in Seq(UpFrames(m)) /\ (~Live => v = u)
  BY <1>2
<1>4. \A i \in DOMAIN v : v[i] = f \/ \E j \in DOMAIN u : v[i] = u[j]
  <2>1. CASE Live
    <3>1. v = Append(u, f)
      BY <1>2, <2>1
    <3> QED BY <1>2, <3>1
  <2>2. CASE ~Live
    BY <1>2, <2>2
  <2> QED BY <2>1, <2>2
<1> QED BY <1>1, <1>3, <1>4

\* What a step leaves alone in the hub.
LEMMA HubStays ==
  ASSUME WellTyped, UNCHANGED hubVars
  PROVE  /\ HubTypes(Len(events)) /\ log' \subseteq log
         /\ subs' \in Seq(Sound(Len(events), events))
         /\ events' = events /\ \A k : Fewer(k, subs', subs)
BY DEF WellTyped, hubVars, HubTypes, Ids, Fewer

\* The application's first listener of a key.
LEMMA SubscribeKeeps ==
  ASSUME NEW enough, EventsInv(enough), NEW k \in Keys, Subscribe(k)
  PROVE  EventsInv(enough)'
<1>1. WellTyped /\ Linked /\ Ended /\ KeysInv(enough) /\ \A l \in Open : Fresh(l)
  BY DEF EventsInv
<1>2. PICK f : f = SubscribeFrame(k)
  OBVIOUS
<1>3. /\ k \notin counts /\ counts' = counts \cup {k} /\ Send(<<f>>) /\ UNCHANGED hubVars
      /\ UNCHANGED <<socket, down, cursor, first, got, cancelled>>
  BY <1>2 DEF Subscribe
<1>4. PICK n \in Nat : n = Len(events)
  BY <1>1 DEF WellTyped
<1>5. f \in UpFrames(n) /\ f.key = k /\ f.kind = "subscribe"
  <2>1. cursor[k] \in 0 .. n
    BY <1>1, <1>4 DEF WellTyped
  <2> QED BY <1>2, <2>1 DEF UpFrames, SubscribeFrame
<1>6. up \in Seq(UpFrames(n))
  BY <1>1, <1>4 DEF WellTyped
<1>7. /\ up' \in Seq(UpFrames(n)) /\ (~Live => up' = up)
      /\ \A i \in DOMAIN up' : up'[i] = f \/ \E j \in DOMAIN up : up'[i] = up[j]
  BY ONLY <1>3, <1>5, <1>6, SendIs
<1>8. /\ HubTypes(Len(events)) /\ log' \subseteq log
      /\ subs' \in Seq(Sound(Len(events), events))
      /\ events' = events /\ \A l : Fewer(l, subs', subs)
  BY ONLY <1>1, <1>3, HubStays
<1>9. ClientTypes(Len(events))
  BY <1>1, <1>3, <1>4, <1>7 DEF WellTyped, ClientTypes
<1>10. subs' = subs /\ peer' = peer
  BY <1>3 DEF hubVars
<1>11. Linked' /\ Ended'
  BY <1>1, <1>3, <1>5, <1>7, <1>10 DEF Linked, Live, Ended
<1>12. Open' = Open /\ k \notin Open
  BY <1>1, <1>3 DEF Open, KeysInv
<1>13. \A l \in Open' : l \in counts' /\ Fewer(l, subs', subs) /\ Fresh(l)'
  <2> SUFFICES ASSUME NEW l \in Open PROVE l \in counts' /\ Fresh(l)'
    BY <1>8, <1>12
  <2>1. l # k /\ l \in counts'
    BY <1>1, <1>3, <1>12 DEF KeysInv
  <2>2. Fresh(l)'
    BY <1>1, <1>3, <1>5, <1>7, <1>8, <1>10, <2>1 DEF Fresh, Live
  <2> QED BY <2>1, <2>2
<1>14. UNCHANGED <<events, down, cursor, first, got>> /\ Open' \subseteq Open
  BY <1>3, <1>8, <1>12
<1> QED BY ONLY EventsInv(enough), <1>8, <1>9, <1>11, <1>13, <1>14, SteadyKeeps

\* Its last.
LEMMA UnsubscribeKeeps ==
  ASSUME NEW enough, EventsInv(enough), NEW k \in Keys, Unsubscribe(k)
  PROVE  EventsInv(enough)'
<1>1. WellTyped /\ Linked /\ Ended /\ KeysInv(enough) /\ \A l \in Open : Fresh(l)
  BY DEF EventsInv
<1>2. PICK f : f = [kind |-> "unsubscribe", key |-> k]
  OBVIOUS
<1>3. /\ counts' = counts \ {k} /\ cancelled' = cancelled \cup {k} /\ Send(<<f>>)
      /\ UNCHANGED hubVars /\ UNCHANGED <<socket, down, cursor, first, got>>
  BY <1>2 DEF Unsubscribe
<1>4. PICK n \in Nat : n = Len(events)
  BY <1>1 DEF WellTyped
<1>5. f \in UpFrames(n) /\ f.key = k /\ f.kind = "unsubscribe"
  BY <1>2 DEF UpFrames
<1>6. up \in Seq(UpFrames(n))
  BY <1>1, <1>4 DEF WellTyped
<1>7. /\ up' \in Seq(UpFrames(n)) /\ (~Live => up' = up)
      /\ \A i \in DOMAIN up' : up'[i] = f \/ \E j \in DOMAIN up : up'[i] = up[j]
  BY ONLY <1>3, <1>5, <1>6, SendIs
<1>8. /\ HubTypes(Len(events)) /\ log' \subseteq log
      /\ subs' \in Seq(Sound(Len(events), events))
      /\ events' = events /\ \A l : Fewer(l, subs', subs)
  BY ONLY <1>1, <1>3, HubStays
<1>9. ClientTypes(Len(events))
  BY <1>1, <1>3, <1>4, <1>7 DEF WellTyped, ClientTypes
<1>10. subs' = subs /\ peer' = peer
  BY <1>3 DEF hubVars
<1>11. Linked' /\ Ended'
  BY <1>1, <1>3, <1>5, <1>7, <1>10 DEF Linked, Live, Ended
<1>12. Open' = Open \ {k}
  BY <1>1, <1>3 DEF Open
<1>13. \A l \in Open' : l \in counts' /\ Fewer(l, subs', subs) /\ Fresh(l)'
  <2> SUFFICES ASSUME NEW l \in Open, l # k PROVE l \in counts' /\ Fresh(l)'
    BY <1>8, <1>12
  <2>1. l \in counts'
    BY <1>1, <1>3 DEF KeysInv
  <2>2. Fresh(l)'
    BY <1>1, <1>3, <1>5, <1>7, <1>8, <1>10 DEF Fresh, Live
  <2> QED BY <2>1, <2>2
<1>14. UNCHANGED <<events, down, cursor, first, got>> /\ Open' \subseteq Open
  BY <1>3, <1>8, <1>12
<1> QED BY ONLY EventsInv(enough), <1>8, <1>9, <1>11, <1>13, <1>14, SteadyKeeps

\* The hub restarts: only the log is left.
LEMMA RestartKeeps ==
  ASSUME NEW enough, EventsInv(enough), RestartHub
  PROVE  EventsInv(enough)'
<1>1. WellTyped /\ Linked /\ KeysInv(enough)
  BY DEF EventsInv
<1>2. /\ peer' = [n \in Sockets |-> IF peer[n] = "unused" THEN "unused" ELSE "closed"]
      /\ registered' = {} /\ subs' = << >> /\ approvals' = {} /\ up' = << >>
      /\ UNCHANGED <<events, log, down, prunes>>
      /\ UNCHANGED <<socket, counts, cursor, first, got, cancelled>>
  BY DEF RestartHub, clientVars
<1>3. HubTypes(Len(events)) /\ ClientTypes(Len(events)) /\ subs' \in Seq(Sound(Len(events), events))
  BY <1>1, <1>2 DEF WellTyped, HubTypes, ClientTypes
<1>4. ~Live'
  <2>1. socket # 0 => socket \in Sockets
    BY <1>1, ConstantsAssumption DEF WellTyped, Sockets
  <2> QED BY <1>2, <2>1 DEF Live
<1>5. Linked' /\ Ended'
  BY <1>1, <1>2, <1>4 DEF Linked, Ended
<1>6. Open' = Open
  BY <1>2 DEF Open
<1>7. \A k \in Open' : k \in counts' /\ Fewer(k, subs', subs) /\ Fresh(k)'
  <2>1. \A k : Fewer(k, subs', subs)
    BY <1>2 DEF Fewer, Owned
  <2> QED BY <1>1, <1>2, <1>4, <1>6, <2>1 DEF Fresh, KeysInv
<1>8. UNCHANGED <<events, down, cursor, first, got>> /\ log' \subseteq log /\ Open' \subseteq Open
  BY <1>2, <1>6
<1> QED BY ONLY EventsInv(enough), <1>3, <1>5, <1>7, <1>8, SteadyKeeps

\* The adapter closes one subscription, of a key the application has given up.
LEMMA UnsubscribedKeeps ==
  ASSUME NEW enough, EventsInv(enough), HandleUnsubscribe
  PROVE  EventsInv(enough)'
<1>1. WellTyped /\ Linked /\ Ended /\ KeysInv(enough) /\ \A l \in Open : Fresh(l)
  BY DEF EventsInv
<1>2. PICK n \in Nat : n = Len(events)
  BY <1>1 DEF WellTyped
<1>3. PICK u, ss, sn, c : u = up /\ ss = subs /\ sn = subs' /\ c = Head(up).key
  OBVIOUS
<1>4. /\ u # << >> /\ up' = Tail(u) /\ Head(u).kind = "unsubscribe" /\ c = Head(u).key
      /\ sn = [j \in DOMAIN ss |-> IF ss[j].key = c
                                   THEN [ss[j] EXCEPT !.held = FALSE, !.heard = FALSE] ELSE ss[j]]
      /\ UNCHANGED <<events, log, approvals, peer, registered, down, prunes>>
      /\ UNCHANGED <<socket, counts, cursor, first, got, cancelled>>
  BY <1>3 DEF HandleUnsubscribe, TakeFrame, clientVars
<1>5. u \in Seq(UpFrames(n)) /\ ss \in Seq(Sound(n, events))
  BY <1>1, <1>2, <1>3 DEF WellTyped
<1>6. up' \in Seq(UpFrames(n)) /\ \A i \in DOMAIN up' : \E j \in DOMAIN up : up'[i] = up[j]
  <2>1. PICK t, S : t = Tail(u) /\ S = UpFrames(n)
    OBVIOUS
  <2>2. u \in Seq(S) /\ u # << >> /\ t = Tail(u)
    BY <1>4, <1>5, <2>1
  <2>3. t \in Seq(S) /\ \A i \in DOMAIN t : \E j \in DOMAIN u : t[i] = u[j]
    BY ONLY <2>2, TailIs
  <2> QED BY <1>3, <1>4, <2>1, <2>3
<1>7. c \in cancelled
  <2>1. 1 \in DOMAIN u /\ Head(u) = u[1]
    <3>1. PICK S : u \in Seq(S) /\ u # << >>
      BY <1>4, <1>5
    <3> QED BY ONLY <3>1
  <2> QED BY <1>1, <1>3, <1>4, <2>1 DEF Ended
<1>8. PICK l \in Nat : DOMAIN ss = 1 .. l
  BY <1>5
<1>9. ASSUME NEW j \in 1 .. l PROVE sn[j] \in Sound(n, events) /\ sn[j].key = ss[j].key
  <2>1. PICK sub, new : sub = ss[j] /\ new = sn[j]
    OBVIOUS
  <2>2. sub \in Sound(n, events)
    BY <1>5, <1>8, <2>1
  <2>3. new = sub \/ new = [sub EXCEPT !.held = FALSE, !.heard = FALSE]
    BY <1>4, <1>8, <2>1
  <2>4. CASE new = [sub EXCEPT !.held = FALSE, !.heard = FALSE]
    <3>1. sub \in SubsTo(n)
      BY <2>2 DEF Sound
    <3>2. new.key = sub.key /\ new.buffered = sub.buffered /\ new \in SubsTo(n)
      BY <2>4, <3>1 DEF SubsTo
    <3>3. new \in Sound(n, events)
      BY <2>2, <3>2 DEF Sound
    <3> QED BY <2>1, <3>2, <3>3
  <2> QED BY <2>1, <2>2, <2>3, <2>4
<1>10. sn \in Seq(Sound(n, events)) /\ DOMAIN sn = DOMAIN ss
  <2>1. sn \in [1 .. l -> Sound(n, events)]
    BY <1>4, <1>8, <1>9
  <2> QED BY <1>8, <2>1
<1>11. \A k \in Open : Owned(k, sn) = Owned(k, ss) /\ \A j \in Owned(k, ss) : sn[j] = ss[j]
  <2> SUFFICES ASSUME NEW k \in Open PROVE Owned(k, sn) = Owned(k, ss)
                                           /\ \A j \in Owned(k, ss) : sn[j] = ss[j]
    OBVIOUS
  <2>1. k # c
    BY <1>7 DEF Open
  <2>2. Owned(k, sn) = Owned(k, ss)
    BY <1>8, <1>9, <1>10 DEF Owned
  <2>3. \A j \in Owned(k, ss) : sn[j] = ss[j]
    BY <1>4, <2>1 DEF Owned
  <2> QED BY <2>2, <2>3
<1>12. /\ UNCHANGED <<events, down, cursor, first, got>> /\ log' \subseteq log
       /\ subs' \in Seq(Sound(Len(events), events))
  BY <1>2, <1>3, <1>4, <1>10
<1>13. HubTypes(Len(events)) /\ ClientTypes(Len(events))
  BY <1>1, <1>2, <1>4, <1>6 DEF WellTyped, HubTypes, ClientTypes, Ids
<1>14. Live /\ Live'
  BY <1>1, <1>3, <1>4 DEF Linked, Live
<1>15. Linked' /\ Ended'
  BY <1>1, <1>4, <1>6, <1>14 DEF Linked, Ended, Live
<1>16. Open' = Open
  BY <1>4 DEF Open
<1>17. \A k \in Open' : k \in counts' /\ Fewer(k, subs', subs) /\ Fresh(k)'
  <2> SUFFICES ASSUME NEW k \in Open PROVE k \in counts' /\ Fewer(k, subs', subs) /\ Fresh(k)'
    BY <1>16
  <2>1. k \in counts' /\ Fewer(k, subs', subs)
    <3>1. k \in counts'
      BY <1>1, <1>4 DEF KeysInv
    <3>2. Owned(k, sn) = Owned(k, ss) /\ \A j \in Owned(k, ss) : sn[j] = ss[j]
      BY <1>11
    <3>3. Fewer(k, sn, ss)
      BY ONLY <3>2 DEF Fewer
    <3> QED BY <1>3, <3>1, <3>3
  <2>2. Owned(k, subs') = Owned(k, subs)
    BY <1>3, <1>11
  <2>3. Fresh(k)'
    <3>1. Fresh(k)
      BY <1>1
    <3> QED BY <1>4, <1>6, <1>14, <2>2, <3>1 DEF Fresh
  <2> QED BY <2>1, <2>3
<1>18. Open' \subseteq Open
  BY <1>16
<1> QED BY ONLY EventsInv(enough), <1>12, <1>13, <1>15, <1>17, <1>18, SteadyKeeps

\* The subscriptions that are left when a socket has gone, and lost their listeners.
LEMMA DeafIs ==
  ASSUME NEW n, NEW ev, NEW ss \in Seq(Sound(n, ev)), NEW sn, sn = Deaf(ss)
  PROVE  sn \in Seq(Sound(n, ev)) /\ \A k : Fewer(k, sn, ss) /\ Owned(k, sn) = Owned(k, ss)
<1>1. PICK l \in Nat : DOMAIN ss = 1 .. l
  OBVIOUS
<1>2. sn = [j \in 1 .. l |-> [ss[j] EXCEPT !.heard = FALSE]]
  BY <1>1 DEF Deaf
<1>3. ASSUME NEW j \in 1 .. l PROVE sn[j] \in Sound(n, ev) /\ sn[j].key = ss[j].key
  <2>1. PICK sub, new : sub = ss[j] /\ new = sn[j]
    OBVIOUS
  <2>2. sub \in Sound(n, ev) /\ new = [sub EXCEPT !.heard = FALSE]
    BY <1>1, <1>2, <2>1
  <2>3. new \in Sound(n, ev) /\ new.key = sub.key
    BY ONLY <2>2, DeafKeeps
  <2> QED BY <2>1, <2>3
<1>4. sn \in [1 .. l -> Sound(n, ev)]
  BY <1>2, <1>3
<1>5. sn \in Seq(Sound(n, ev)) /\ DOMAIN sn = 1 .. l
  BY <1>4
<1>6. \A k : Owned(k, sn) = Owned(k, ss)
  BY <1>1, <1>3, <1>5 DEF Owned
<1>7. \A k : Fewer(k, sn, ss)
  BY <1>1, <1>2, <1>6 DEF Fewer, Owned
<1> QED BY <1>5, <1>6, <1>7

\* The hub notices that a socket is closed.
LEMMA CloseKeeps ==
  ASSUME NEW enough, EventsInv(enough), NEW m \in Sockets, CloseSocket(m)
  PROVE  EventsInv(enough)'
<1>1. WellTyped /\ Linked /\ Ended /\ KeysInv(enough) /\ \A l \in Open : Fresh(l)
  BY DEF EventsInv
<1>2. PICK n, rest, ss : /\ n = Len(events) /\ rest = (IF m = socket THEN << >> ELSE subs)
                         /\ ss = Deaf(rest)
  OBVIOUS
<1>3. n \in Nat /\ rest \in Seq(Sound(n, events))
  BY <1>1, <1>2 DEF WellTyped
<1>4. /\ peer' = [peer EXCEPT ![m] = "closed"] /\ registered' = registered \ {m}
      /\ up' = IF m = socket THEN << >> ELSE up
      /\ UNCHANGED <<approvals, prunes>>
  BY DEF CloseSocket
<1>5. ClientStays
  BY DEF CloseSocket, clientVars, ClientStays
<1>6. IF m \in registered THEN Publish(Global, "plain", ss, << >>)
      ELSE subs' = rest /\ UNCHANGED <<events, log, down>>
  BY <1>2 DEF CloseSocket
<1>7. HubTypes(n) /\ HubTypes(n + 1)
  <2>1. approvals \subseteq 1 .. n
    BY <1>1, <1>2 DEF WellTyped, Ids
  <2>2. approvals \subseteq 1 .. n + 1
    BY <1>3, <2>1
  <2>3. peer' \in [Sockets -> {"unused", "open", "halfopen", "closed"}]
    BY <1>1, <1>4 DEF WellTyped
  <2>4. registered' \subseteq Sockets /\ prunes' \in 0 .. MaxPrunes
    BY <1>1, <1>4 DEF WellTyped
  <2> QED BY <1>4, <2>1, <2>2, <2>3, <2>4 DEF HubTypes
<1>8. NothingSent
  <2>1. << >> \in Seq(UpFrames(n)) /\ up \in Seq(UpFrames(n))
    BY <1>1, <1>2 DEF WellTyped
  <2> QED BY <1>2, <1>4, <2>1 DEF NothingSent
<1>9. Live' => Live /\ socket # m
  <2>1. peer'[m] = "closed" /\ \A i \in Sockets : i # m => peer'[i] = peer[i]
    BY <1>1, <1>4 DEF WellTyped
  <2>2. socket # 0 => socket \in Sockets
    BY <1>1, ConstantsAssumption DEF WellTyped, Sockets
  <2> QED BY <1>5, <2>1, <2>2 DEF Live, ClientStays
<1>10. ~Live' => up' = << >> /\ rest = << >>
  <2> SUFFICES ASSUME ~Live', socket # m PROVE ~Live
    BY <1>1, <1>2, <1>4 DEF Linked
  <2>1. socket # 0 => peer'[socket] = peer[socket]
    BY <1>1, <1>4, ConstantsAssumption DEF WellTyped, Sockets
  <2> QED BY <1>5, <2>1 DEF Live, ClientStays
<1>11. \A k : Fewer(k, rest, subs)
  BY <1>2 DEF Fewer, Owned
<1>12. Live' => rest = subs
  BY <1>2, <1>9
<1>13. CASE m \notin registered
  <2>1. subs' = rest /\ UNCHANGED <<events, log, down, cursor, first, got>>
    BY <1>5, <1>6, <1>13 DEF ClientStays
  <2>2. UNCHANGED <<events, down, cursor, first, got>> /\ log' \subseteq log
    BY <2>1
  <2>3. subs' \in Seq(Sound(Len(events), events)) /\ HubTypes(Len(events))
    BY <1>2, <1>3, <1>7, <2>1
  <2>4. ClientTypes(Len(events))
    BY <1>1, <1>5, <1>8 DEF WellTyped, ClientStays, ClientTypes, NothingSent
  <2>5. Linked'
    BY <1>1, <1>5, <1>10, <2>1 DEF Linked, ClientStays
  <2>6. Ended'
    BY <1>1, <1>5, <1>8 DEF Ended, NothingSent, ClientStays
  <2>7. Open' = Open
    BY <1>5 DEF Open, ClientStays
  <2>8. \A k \in Open' : k \in counts' /\ Fewer(k, subs', subs) /\ Fresh(k)'
    <3> SUFFICES ASSUME NEW k \in Open PROVE k \in counts' /\ Fewer(k, subs', subs) /\ Fresh(k)'
      BY <2>7
    <3>1. k \in counts' /\ Fewer(k, subs', subs)
      BY <1>1, <1>5, <1>11, <2>1 DEF KeysInv, ClientStays
    <3>2. Fresh(k)'
      <4>1. Fresh(k)
        BY <1>1
      <4> QED BY <1>5, <1>8, <1>9, <1>12, <2>1, <4>1 DEF Fresh, ClientStays, NothingSent
    <3> QED BY <3>1, <3>2
  <2>9. Open' \subseteq Open
    BY <2>7
  <2> QED BY ONLY EventsInv(enough), <2>2, <2>3, <2>4, <2>5, <2>6, <2>8, <2>9, SteadyKeeps
<1>14. CASE m \in registered
  <2>1. ss \in Seq(Sound(n, events)) /\ \A k : Fewer(k, ss, rest) /\ Owned(k, ss) = Owned(k, rest)
    <3>1. PICK ev : ev = events
      OBVIOUS
    <3>2. rest \in Seq(Sound(n, ev)) /\ ss = Deaf(rest)
      BY <1>2, <1>3, <3>1
    <3>3. ss \in Seq(Sound(n, ev)) /\ \A k : Fewer(k, ss, rest) /\ Owned(k, ss) = Owned(k, rest)
      BY ONLY <3>2, DeafIs
    <3> QED BY <3>1, <3>3
  <2>2. \A k : Fewer(k, ss, subs)
    <3> SUFFICES ASSUME NEW k PROVE Fewer(k, ss, subs)
      OBVIOUS
    <3>1. Fewer(k, ss, rest)
      BY <2>1
    <3>2. CASE m = socket
      <4>1. Owned(k, rest) = {}
        BY <1>2, <3>2 DEF Owned
      <4> QED BY <3>1, <4>1 DEF Fewer
    <3>3. CASE m # socket
      BY <1>2, <3>1, <3>3
    <3> QED BY <3>2, <3>3
  <2>3. ASSUME NEW k \in Open
        PROVE  KeyInv(enough, k, events, log, down, ss, first[k], cursor[k], got[k])
    <3>1. PICK ev, lg, w, sb, lo, hi, g :
            /\ ev = events /\ lg = log /\ w = down /\ sb = subs /\ lo = first[k] /\ hi = cursor[k]
            /\ g = got[k]
      OBVIOUS
    <3>2. KeyInv(enough, k, ev, lg, w, sb, lo, hi, g)
      BY <1>1, <3>1 DEF KeysInv
    <3>3. lg \in SUBSET (1 .. n) /\ sb \in Seq(Sound(n, ev)) /\ lg \in SUBSET lg
      BY <1>1, <1>2, <3>1 DEF WellTyped, Ids
    <3>4. Fewer(k, ss, sb)
      BY <2>2, <3>1
    <3>5. Shrinks(k, ev, w, w, lo, hi, lo, hi, g, g)
      BY ONLY <3>2, SameWire
    <3>6. KeyInv(enough, k, ev, lg, w, ss, lo, hi, g)
      BY ONLY <1>3, <3>2, <3>3, <3>4, <3>5, KeyShrinks
    <3> QED BY <3>1, <3>6
  <2>4. PICK r : r = << >>
    OBVIOUS
  <2>5. r \in Replies /\ Publish(Global, "plain", ss, r)
    BY <1>6, <1>14, <2>4 DEF Replies
  <2>6. Published(enough, n, ss, log, events, events', log', subs', down')
    <3>1. Global \in Sessions \cup {Global} /\ "plain" \in {"plain", "approval"} /\ n = Len(events)
      BY <1>2
    <3> QED BY ONLY EventsInv(enough), <2>1, <2>3, <2>5, <3>1, PublishIs
  <2>7. rest = << >> => subs' = << >> /\ (down = << >> => down' = << >>)
    <3> SUFFICES ASSUME rest = << >> PROVE subs' = << >> /\ (down = << >> => down' = << >>)
      OBVIOUS
    <3>1. ss = << >>
      BY <1>2 DEF Deaf
    <3>2. Publish(Global, "plain", << >>, << >>)
      BY <2>4, <2>5, <3>1
    <3> QED BY ONLY <3>2, NobodyHears
  <2>8. Linked'
    <3>1. socket = 0 => down = << >> /\ rest = << >>
      BY <1>1, <1>2 DEF Linked, Live
    <3> QED BY <1>5, <1>10, <2>7, <3>1 DEF Linked, ClientStays
  <2>9. Live' => Live /\ \A k \in Open : Owned(k, ss) = Owned(k, subs)
    BY <1>9, <1>12, <2>1
  <2>10. n = Len(events)
    BY <1>2
  <2> QED BY ONLY EventsInv(enough), <1>5, <1>7, <1>8, <2>1, <2>6, <2>8, <2>9, <2>10, PublishedKeeps
<1> QED BY <1>13, <1>14

\* What the listeners of a key were told up to its cursor does not depend on the wire.
LEMMA KeyAlone ==
  ASSUME NEW n \in Nat, NEW k, NEW ev, NEW lg \in SUBSET (1 .. n), NEW w, NEW ss,
         NEW lo \in 0 .. n, NEW hi \in 0 .. n, lo <= hi, NEW g, NEW enough,
         KeyInv(enough, k, ev, lg, w, ss, lo, hi, g)
  PROVE  KeyInv(enough, k, ev, lg, << >>, << >>, lo, hi, g)
<1>1. Tidy(k, ev, << >>) /\ NumsOn(k, ev, << >>) = {} /\ Owned(k, << >>) = {}
  <2>1. Owned(k, << >>) = {}
    BY DEF Owned
  <2>2. Tidy(k, ev, << >>) /\ NumsOn(k, ev, << >>) = {}
    BY ONLY DEF Tidy, NumsOn
  <2> QED BY <2>1, <2>2
<1>2. KeyBase(k, ev, << >>, << >>, lo, hi)
  BY <1>1 DEF KeyBase
<1>3. PICK Q, R, N, W : /\ Q = Marks(k, ev, << >>, lo, hi) /\ R = Marks(k, ev, w, lo, hi)
                        /\ N = NumsOn(k, ev, w) /\ W = Rows(k, ev, lg)
  OBVIOUS
<1>4. Q = {lo, hi} \ {0} /\ Q \subseteq R
  BY <1>1, <1>3 DEF Marks
<1>5. ASSUME enough PROVE KeyGap(k, ev, lg, << >>, << >>, lo, hi, g)
  <2>1. \A y \in R : Complete(W, R, g \cup N, y)
    BY <1>3, <1>5 DEF KeyInv, KeyGap
  <2>2. \A x \in N : hi < x
    BY <1>3 DEF KeyInv, KeyBase
  <2>3. ASSUME NEW y \in Q, NEW e \in W, NEW x \in Q, x <= e, e <= y PROVE e \in g
    <3>1. e \in g \cup N
      BY <1>4, <2>1, <2>3 DEF Complete
    <3>2. e \in Nat /\ y <= hi /\ y \in Nat
      BY <1>3, <1>4 DEF Rows
    <3> QED BY <2>2, <2>3, <3>1, <3>2
  <2>4. \A y \in Q : Complete(W, Q, g, y)
    BY <2>3 DEF Complete
  <2> QED BY <1>1, <1>3, <2>4 DEF KeyGap
<1> QED BY <1>2, <1>5 DEF KeyInv

\* The client loses its socket, with all that is on the wire.
LEMMA LossKeeps ==
  ASSUME NEW enough, EventsInv(enough), LoseSocket
  PROVE  EventsInv(enough)'
<1>1. WellTyped /\ Linked /\ Cursors /\ KeysInv(enough)
  BY DEF EventsInv
<1>2. PICK n \in Nat : n = Len(events)
  BY <1>1 DEF WellTyped
<1>3. /\ socket # 0 /\ socket' = 0
      /\ peer' = [peer EXCEPT ![socket] = IF @ = "open" THEN "halfopen" ELSE @]
      /\ up' = << >> /\ down' = << >> /\ subs' = << >>
      /\ UNCHANGED <<events, log, approvals, registered, counts, cursor, first, got, cancelled,
                     prunes>>
  BY DEF LoseSocket
<1>4. WellTyped'
  <2>1. socket \in Sockets /\ 0 \in 0 .. MaxSockets
    BY <1>1, <1>3, ConstantsAssumption DEF WellTyped, Sockets
  <2>2. peer' \in [Sockets -> {"unused", "open", "halfopen", "closed"}]
    BY <1>1, <1>3, <2>1 DEF WellTyped
  <2>3. << >> \in Wires(n)
    BY <1>2 DEF Wires
  <2>4. << >> \in Seq(UpFrames(n)) /\ << >> \in Seq(Sound(n, events))
    OBVIOUS
  <2> QED BY <1>1, <1>2, <1>3, <2>1, <2>2, <2>3, <2>4 DEF WellTyped, Ids
<1>5. Linked' /\ Cursors' /\ Ended' /\ ~Live' /\ Open' = Open
  BY <1>1, <1>3 DEF Linked, Cursors, Ended, Live, Open
<1>6. ASSUME NEW k \in Open
      PROVE  KeyInv(enough, k, events', log', down', subs', first'[k], cursor'[k], got'[k])
  <2>1. PICK ev, lg, w, ss, lo, hi, g :
          /\ ev = events /\ lg = log /\ w = down /\ ss = subs /\ lo = first[k] /\ hi = cursor[k]
          /\ g = got[k]
    OBVIOUS
  <2>2. KeyInv(enough, k, ev, lg, w, ss, lo, hi, g)
    BY <1>1, <2>1 DEF KeysInv
  <2>3. lg \in SUBSET (1 .. n) /\ lo \in 0 .. n /\ hi \in 0 .. n /\ lo <= hi
    BY <1>1, <1>2, <2>1 DEF WellTyped, Ids, Cursors, Open
  <2>4. KeyInv(enough, k, ev, lg, << >>, << >>, lo, hi, g)
    BY ONLY n \in Nat, <2>2, <2>3, KeyAlone
  <2> QED BY <1>3, <2>1, <2>4
<1>7. KeysInv(enough)'
  BY <1>1, <1>3, <1>5, <1>6 DEF KeysInv
<1>8. \A k \in Open' : Fresh(k)'
  BY <1>5 DEF Fresh
<1> QED BY <1>4, <1>5, <1>7, <1>8 DEF EventsInv

\* Listeners that have reached lo .. hi and were told g, after the frame f.
Took(k, ev, f, lo, hi, g, lp, hp, gp) ==
  IF Of(k, ev, f)
  THEN /\ hp = IF f.sequence > hi THEN f.sequence ELSE hi
       /\ lp = IF lo = 0 THEN f.sequence ELSE lo
       /\ gp = g \cup {f.id}
  ELSE lp = lo /\ hp = hi /\ gp = g

\* A frame is taken from the wire: what was sent has been told.
LEMMA KeyTakes ==
  ASSUME NEW n \in Nat, NEW k, NEW ev, NEW lg \in SUBSET (1 .. n), NEW w \in Wires(n), w # << >>,
         NEW ss \in Seq(Sound(n, ev)), NEW lo \in 0 .. n, NEW hi \in 0 .. n, NEW g, NEW enough,
         KeyInv(enough, k, ev, lg, w, ss, lo, hi, g), NEW v, v = Tail(w),
         NEW f, f = Head(w), NEW lp, NEW hp, NEW gp, Took(k, ev, f, lo, hi, g, lp, hp, gp)
  PROVE  KeyInv(enough, k, ev, lg, v, ss, lp, hp, gp)
<1>1. /\ v \in Wires(n) /\ IdsOn(k, ev, v) \subseteq IdsOn(k, ev, w)
      /\ NumsOn(k, ev, v) \subseteq NumsOn(k, ev, w)
      /\ Tidy(k, ev, w) => Tidy(k, ev, v)
      /\ NumsOn(k, ev, w) \subseteq NumsOn(k, ev, v) \cup {f.sequence}
      /\ Tidy(k, ev, w) /\ Of(k, ev, f) /\ f.sequence # 0
           => \A x \in NumsOn(k, ev, v) : f.sequence < x
      /\ Of(k, ev, f) /\ f.sequence # 0 => f.sequence \in NumsOn(k, ev, w)
      /\ ~Of(k, ev, f) => NumsOn(k, ev, w) \subseteq NumsOn(k, ev, v)
  BY TailParts
<1>2. Tidy(k, ev, w) /\ \A x \in NumsOn(k, ev, w) : hi < x
  BY DEF KeyInv, KeyBase
<1>3. PICK M, N : M = NumsOn(k, ev, w) /\ N = NumsOn(k, ev, v) /\ 0 \notin M
  <2>1. 0 \notin NumsOn(k, ev, w)
    BY ONLY DEF NumsOn
  <2> QED BY <2>1
<1>4. Shrinks(k, ev, v, w, lp, hp, lo, hi, gp, g)
  <2>1. CASE ~Of(k, ev, f)
    <3>1. lp = lo /\ hp = hi /\ gp = g
      BY <2>1 DEF Took
    <3> QED BY <1>1, <1>2, <2>1, <3>1 DEF Shrinks, Marks
  <2>2. CASE Of(k, ev, f)
    <3>1. f.sequence \in 0 .. n /\ f.sequence \in {0, f.id}
      <4>1. w \in Seq(FramesTo(n)) /\ 1 \in DOMAIN w /\ f = w[1]
        BY DEF Wires
      <4>2. f \in FramesTo(n) /\ Proper(f)
        BY <4>1 DEF Wires
      <4>3. f.kind = "event"
        BY <2>2 DEF Of
      <4>4. f \in EventsTo(n)
        BY <4>2, <4>3 DEF FramesTo
      <4> QED BY <4>2, <4>3, <4>4 DEF Proper, EventsTo
    <3>2. PICK x : x = f.sequence
      OBVIOUS
    <3>3. /\ hp = (IF x > hi THEN x ELSE hi) /\ lp = (IF lo = 0 THEN x ELSE lo)
          /\ gp = g \cup {f.id}
      BY <2>2, <3>2 DEF Took
    <3>4. CASE x = 0
      <4>1. hp = hi /\ lp = lo
        BY <3>3, <3>4
      <4>2. M \subseteq N
        BY <1>1, <1>3, <3>2, <3>4
      <4> QED BY <1>1, <1>2, <1>3, <3>3, <4>1, <4>2 DEF Shrinks, Marks
    <3>5. CASE x # 0
      <4>1. x \in M /\ hi < x /\ \A y \in N : x < y
        BY <1>1, <1>2, <1>3, <2>2, <3>2, <3>5
      <4>2. hp = x /\ x = f.id
        BY <3>1, <3>2, <3>3, <3>5, <4>1
      <4>3. ({lp, hp} \cup N) \ {0} \subseteq (M \cup {lo, hi}) \ {0}
        BY <1>1, <1>3, <3>3, <4>1, <4>2
      <4>4. g \cup M \subseteq gp \cup N
        BY <1>1, <1>3, <3>2, <3>3, <4>2
      <4> QED BY <1>1, <1>2, <1>3, <4>1, <4>2, <4>3, <4>4 DEF Shrinks, Marks
    <3> QED BY <3>4, <3>5
  <2> QED BY <2>1, <2>2
<1>5. Fewer(k, ss, ss)
  BY DEF Fewer
<1>6. lg \in SUBSET lg
  OBVIOUS
<1> QED BY <1>4, <1>5, <1>6, KeyShrinks

\* The client takes a frame that is on its way to it, and may send some.
LEMMA TakingKeeps ==
  ASSUME NEW enough, EventsInv(enough), socket # 0, down # << >>, down' = Tail(down),
         UNCHANGED hubVars, UNCHANGED <<socket, counts, cancelled>>,
         NEW n \in Nat, n = Len(events), up' \in Seq(UpFrames(n)), ~Live => up' = up,
         \A i \in DOMAIN up' : \/ \E j \in DOMAIN up : up'[i] = up[j]
                               \/ up'[i].kind = "subscribe" /\ up'[i].since = cursor[up'[i].key],
         cursor' \in [Keys -> 0 .. n], first' \in [Keys -> 0 .. n],
         got' \in [Keys -> SUBSET (1 .. n)],
         Cursors', NEW f, f = Head(down),
         \A k \in Open : /\ Took(k, events, f, first[k], cursor[k], got[k],
                                 first'[k], cursor'[k], got'[k])
  PROVE  EventsInv(enough)'
<1>1. WellTyped /\ Linked /\ Ended /\ KeysInv(enough) /\ \A k \in Open : Fresh(k)
  BY DEF EventsInv
<1>2. events' = events /\ log' = log /\ subs' = subs /\ peer' = peer
  BY DEF hubVars
<1>3. PICK w, v : w = down /\ v = Tail(w) /\ down' = v
  OBVIOUS
<1>4. w \in Wires(n) /\ w # << >> /\ f = Head(w)
  BY <1>1, <1>3 DEF WellTyped
<1>5. \A k : IdsOn(k, events, v) \subseteq IdsOn(k, events, w) /\ v \in Wires(n)
  <2> SUFFICES ASSUME NEW k
               PROVE  IdsOn(k, events, v) \subseteq IdsOn(k, events, w) /\ v \in Wires(n)
    OBVIOUS
  <2>1. PICK ev : ev = events
    OBVIOUS
  <2>2. IdsOn(k, ev, Tail(w)) \subseteq IdsOn(k, ev, w) /\ Tail(w) \in Wires(n)
    BY ONLY n \in Nat, <1>4, TailParts
  <2> QED BY <1>3, <2>1, <2>2
<1>6. WellTyped'
  <2>1. \A k : v \in Wires(n)
    BY <1>5
  <2> QED BY <1>1, <1>2, <1>3, <2>1 DEF WellTyped, hubVars, Ids
<1>7. Linked' /\ Ended' /\ Open' = Open /\ Live' = Live
  <2>1. Ended'
    BY <1>1 DEF Ended
  <2> QED BY <1>1, <1>2, <2>1 DEF Linked, Live, Open
<1>8. ASSUME NEW k \in Open
      PROVE  KeyInv(enough, k, events', log', down', subs', first'[k], cursor'[k], got'[k])
  <2>1. PICK ev, lg, ss, lo, hi, g, lp, hp, gp :
          /\ ev = events /\ lg = log /\ ss = subs /\ lo = first[k] /\ hi = cursor[k]
          /\ g = got[k] /\ lp = first'[k] /\ hp = cursor'[k] /\ gp = got'[k]
    OBVIOUS
  <2>2. KeyInv(enough, k, ev, lg, w, ss, lo, hi, g)
    BY <1>1, <1>3, <2>1 DEF KeysInv
  <2>3. lg \in SUBSET (1 .. n) /\ lo \in 0 .. n /\ hi \in 0 .. n /\ ss \in Seq(Sound(n, ev))
    BY <1>1, <2>1 DEF WellTyped, Ids, Open
  <2>4. Took(k, ev, f, lo, hi, g, lp, hp, gp)
    BY <2>1
  <2>5. v = Tail(w)
    BY <1>3
  <2>6. KeyInv(enough, k, ev, lg, v, ss, lp, hp, gp)
    BY ONLY n \in Nat, <1>4, <2>2, <2>3, <2>4, <2>5, KeyTakes
  <2> QED BY <1>2, <1>3, <2>1, <2>6
<1>9. KeysInv(enough)'
  <2>1. \A k \in Open : k \in counts'
    BY <1>1 DEF KeysInv
  <2> QED BY <1>7, <1>8, <2>1 DEF KeysInv
<1>10. ASSUME NEW k \in Open PROVE Fresh(k)'
  <2> SUFFICES ASSUME Owned(k, subs) = {}, Live
               PROVE  /\ IdsOn(k, events, v) = {}
                      /\ \A i \in DOMAIN up' : up'[i].kind = "subscribe" /\ up'[i].key = k
                                                 => up'[i].since = cursor'[k]
    BY <1>2, <1>3, <1>7 DEF Fresh
  <2>1. /\ IdsOn(k, events, w) = {}
        /\ \A i \in DOMAIN up : up[i].kind = "subscribe" /\ up[i].key = k => up[i].since = cursor[k]
    BY <1>1, <1>3 DEF Fresh
  <2>2. IdsOn(k, events, v) = {}
    BY <1>5, <2>1
  <2>3. ~Of(k, events, f)
    <3>1. 1 \in DOMAIN w /\ f = w[1]
      BY <1>4 DEF Wires
    <3>2. Of(k, events, w[1]) => w[1].id \in IdsOn(k, events, w)
      BY ONLY <3>1 DEF IdsOn
    <3> QED BY <2>1, <3>1, <3>2
  <2>4. cursor'[k] = cursor[k]
    BY <2>3 DEF Took
  <2> QED BY <2>1, <2>2, <2>4
<1> QED BY <1>6, <1>7, <1>9, <1>10 DEF EventsInv

\* The reply to the registration: the subscriptions are renewed from their cursors.
LEMMA ReplyTaken ==
  ASSUME NEW enough, EventsInv(enough), TakeReply
  PROVE  EventsInv(enough)'
<1>1. WellTyped /\ Cursors /\ Linked
  BY DEF EventsInv
<1>2. PICK n \in Nat : n = Len(events)
  BY <1>1 DEF WellTyped
<1>3. /\ socket # 0 /\ down # << >> /\ down' = Tail(down) /\ UNCHANGED hubVars
      /\ UNCHANGED <<socket, counts, cancelled>> /\ UNCHANGED <<cursor, first, got>>
  BY DEF TakeReply, clientVars
<1>4. PICK f : f = Head(down) /\ f.kind = "reply"
  BY DEF TakeReply
<1>5. PICK keys, c, sent :
        /\ c = Cardinality(counts) /\ keys \in [1 .. c -> counts]
        /\ sent = [j \in DOMAIN keys |-> SubscribeFrame(keys[j])] /\ Send(sent)
  BY DEF TakeReply, SetToSeqs
<1>6. c \in Nat
  <2>1. counts \in SUBSET Keys /\ IsFiniteSet(Keys)
    BY <1>1, ConstantsAssumption DEF WellTyped
  <2> QED BY <1>5, <2>1, FS_Subset, FS_CardinalityType
<1>7. /\ sent \in Seq(UpFrames(n)) /\ DOMAIN sent = 1 .. c
      /\ \A j \in 1 .. c : sent[j].kind = "subscribe" /\ sent[j].since = cursor[sent[j].key]
  <2>1. ASSUME NEW j \in 1 .. c
        PROVE  /\ sent[j] \in UpFrames(n) /\ sent[j].kind = "subscribe"
               /\ sent[j].since = cursor[sent[j].key]
    <3>1. sent[j] = [kind |-> "subscribe", key |-> keys[j], since |-> cursor[keys[j]]]
      BY <1>5 DEF SubscribeFrame
    <3>2. keys[j] \in Keys /\ cursor[keys[j]] \in 0 .. n
      BY <1>1, <1>2, <1>5 DEF WellTyped
    <3> QED BY <3>1, <3>2 DEF UpFrames
  <2>2. sent \in [1 .. c -> UpFrames(n)]
    BY <1>5, <2>1
  <2> QED BY <1>6, <2>1, <2>2
<1>8. PICK u, S : u = up /\ S = UpFrames(n)
  OBVIOUS
<1>9. u \in Seq(S) /\ sent \in Seq(S)
  BY <1>1, <1>2, <1>7, <1>8 DEF WellTyped
<1>10. PICK x : x = u \o sent
  OBVIOUS
<1>11. x \in Seq(S) /\ \A i \in DOMAIN x : \/ \E j \in DOMAIN u : x[i] = u[j]
                                           \/ \E j \in DOMAIN sent : x[i] = sent[j]
  <2>1. /\ x \in Seq(S) /\ DOMAIN x = 1 .. Len(u) + Len(sent) /\ Len(u) \in Nat /\ Len(sent) \in Nat
        /\ DOMAIN u = 1 .. Len(u) /\ DOMAIN sent = 1 .. Len(sent)
        /\ \A i \in 1 .. Len(u) + Len(sent) :
             x[i] = IF i <= Len(u) THEN u[i] ELSE sent[i - Len(u)]
    BY ONLY <1>9, <1>10
  <2> QED BY ONLY <2>1
<1>12. up' = IF Live THEN x ELSE u
  BY <1>5, <1>8, <1>10 DEF Send, Live
<1>13. up' \in Seq(UpFrames(n)) /\ (~Live => up' = up)
  BY <1>8, <1>9, <1>11, <1>12
<1>14. \A i \in DOMAIN up' : \/ \E j \in DOMAIN up : up'[i] = up[j]
                             \/ up'[i].kind = "subscribe" /\ up'[i].since = cursor[up'[i].key]
  <2>1. CASE Live
    BY <1>7, <1>8, <1>11, <1>12, <2>1
  <2>2. CASE ~Live
    BY <1>8, <1>12, <2>2
  <2> QED BY <2>1, <2>2
<1>15. /\ cursor' \in [Keys -> 0 .. n] /\ first' \in [Keys -> 0 .. n]
       /\ got' \in [Keys -> SUBSET (1 .. n)]
  BY <1>1, <1>2, <1>3 DEF WellTyped, Ids
<1>16. Cursors'
  BY <1>1, <1>3 DEF Cursors
<1>17. \A k \in Open : Took(k, events, f, first[k], cursor[k], got[k],
                            first'[k], cursor'[k], got'[k])
  BY <1>3, <1>4 DEF Took, Of
<1>18. f = Head(down)
  BY <1>4
<1> QED
  BY ONLY EventsInv(enough), <1>2, <1>3, <1>13, <1>14, <1>15, <1>16, <1>17, <1>18, TakingKeeps

\* An event: cursors move, listeners are called.
LEMMA EventTaken ==
  ASSUME NEW enough, EventsInv(enough), TakeEvent
  PROVE  EventsInv(enough)'
<1>1. WellTyped /\ Cursors /\ KeysInv(enough)
  BY DEF EventsInv
<1>2. PICK n \in Nat : n = Len(events)
  BY <1>1 DEF WellTyped
<1>3. /\ socket # 0 /\ down # << >> /\ down' = Tail(down) /\ UNCHANGED hubVars
      /\ UNCHANGED <<socket, counts, cancelled>> /\ up' = up
  BY DEF TakeEvent
<1>4. PICK f : f = Head(down) /\ f.kind = "event"
  BY DEF TakeEvent
<1>5. PICK hit : hit = {k \in counts : Covers(k, events[f.id].session)}
  OBVIOUS
<1>6. /\ cursor' = [k \in Keys |-> IF k \in hit THEN Advanced(k, f) ELSE cursor[k]]
      /\ first' = [k \in Keys |-> IF k \in hit /\ first[k] = 0 THEN f.sequence ELSE first[k]]
      /\ got' = [k \in Keys |-> IF k \in hit THEN got[k] \cup {f.id} ELSE got[k]]
  BY <1>4, <1>5 DEF TakeEvent
<1>7. f.id \in 1 .. n /\ f.sequence \in 0 .. n
  <2>1. PICK w : w = down
    OBVIOUS
  <2>2. w \in Seq(FramesTo(n)) /\ w # << >> /\ f = Head(w)
    BY <1>1, <1>2, <1>3, <1>4, <2>1 DEF WellTyped, Wires
  <2>3. 1 \in DOMAIN w /\ f = w[1]
    BY <2>2
  <2>4. f \in FramesTo(n)
    BY <2>2, <2>3
  <2> QED BY <1>4, <2>4 DEF FramesTo, EventsTo
<1>8. \A k \in Keys : Advanced(k, f) = IF f.sequence > cursor[k] THEN f.sequence ELSE cursor[k]
  BY DEF Advanced
<1>9. ASSUME NEW k \in Keys
      PROVE  /\ cursor[k] \in 0 .. n /\ first[k] \in 0 .. n /\ got[k] \in SUBSET (1 .. n)
             /\ cursor'[k] = IF k \in hit /\ f.sequence > cursor[k] THEN f.sequence ELSE cursor[k]
             /\ first'[k] = IF k \in hit /\ first[k] = 0 THEN f.sequence ELSE first[k]
             /\ got'[k] = IF k \in hit THEN got[k] \cup {f.id} ELSE got[k]
  BY <1>1, <1>2, <1>6, <1>8 DEF WellTyped, Ids
<1>10. /\ cursor' \in [Keys -> 0 .. n] /\ first' \in [Keys -> 0 .. n]
       /\ got' \in [Keys -> SUBSET (1 .. n)]
  <2>1. \A k \in Keys : cursor'[k] \in 0 .. n
    BY <1>7, <1>9
  <2>2. \A k \in Keys : first'[k] \in 0 .. n
    BY <1>7, <1>9
  <2>3. \A k \in Keys : got'[k] \in SUBSET (1 .. n)
    BY <1>7, <1>9
  <2> QED BY <1>6, <2>1, <2>2, <2>3
<1>11. Cursors'
  <2> SUFFICES ASSUME NEW k \in Keys
               PROVE  first'[k] <= cursor'[k] /\ (first'[k] = 0 => cursor'[k] = 0)
    BY DEF Cursors
  <2>1. first[k] <= cursor[k] /\ (first[k] = 0 => cursor[k] = 0)
    BY <1>1 DEF Cursors
  <2>2. PICK lo, hi, lp, hp, x :
          lo = first[k] /\ hi = cursor[k] /\ lp = first'[k] /\ hp = cursor'[k] /\ x = f.sequence
    OBVIOUS
  <2>3. lo \in Nat /\ hi \in Nat /\ x \in Nat /\ lo <= hi /\ (lo = 0 => hi = 0)
    <3>1. lo <= hi /\ (lo = 0 => hi = 0)
      BY <2>1, <2>2
    <3>2. lo \in 0 .. n /\ hi \in 0 .. n
      BY <1>9, <2>2
    <3>3. x \in 0 .. n
      BY <1>7, <2>2
    <3> QED BY ONLY <3>1, <3>2, <3>3, n \in Nat
  <2>4. \/ lp = lo /\ hp = hi
        \/ hp = (IF x > hi THEN x ELSE hi) /\ lp = (IF lo = 0 THEN x ELSE lo)
    BY <1>9, <2>2
  <2>5. lp <= hp /\ (lp = 0 => hp = 0)
    BY ONLY <2>3, <2>4
  <2> QED BY <2>2, <2>5
<1>12. \A k \in Open : Took(k, events, f, first[k], cursor[k], got[k],
                            first'[k], cursor'[k], got'[k])
  <2> SUFFICES ASSUME NEW k \in Open
               PROVE  Took(k, events, f, first[k], cursor[k], got[k],
                           first'[k], cursor'[k], got'[k])
    OBVIOUS
  <2>1. k \in Keys /\ (k \in hit <=> Of(k, events, f))
    BY <1>1, <1>4, <1>5 DEF KeysInv, Open, Of
  <2> QED BY <1>9, <2>1 DEF Took
<1>13. up' \in Seq(UpFrames(n)) /\ (~Live => up' = up)
  BY <1>1, <1>2, <1>3 DEF WellTyped
<1>14. \A i \in DOMAIN up' : \/ \E j \in DOMAIN up : up'[i] = up[j]
                             \/ up'[i].kind = "subscribe" /\ up'[i].since = cursor[up'[i].key]
  BY <1>3
<1>15. f = Head(down)
  BY <1>4
<1> QED
  BY ONLY EventsInv(enough), <1>2, <1>3, <1>10, <1>11, <1>12, <1>13, <1>14, <1>15, TakingKeeps

\* What a round sends is of the subscription's key.
LEMMA RoundTypes ==
  ASSUME NEW n \in Nat, log \in SUBSET (1 .. n), NEW sub \in Sound(n, events),
         NEW a, a = RoundFrames(sub), NEW new, new = Round(sub)
  PROVE  /\ a \in Wires(n) /\ new \in Sound(n, events) /\ new.key = sub.key
         /\ \A i \in DOMAIN a : Of(sub.key, events, a[i])
<1>1. CASE ReplayOver(sub)
  <2>1. a \in Wires(n) /\ new \in Sound(n, events) /\ Flushed(sub, new, a)
    BY <1>1, RoundOver
  <2>2. \A i \in DOMAIN sub.buffered : Of(sub.key, events, sub.buffered[i])
    BY DEF Sound
  <2> QED BY <2>1, <2>2 DEF Flushed
<1>2. CASE ~ReplayOver(sub)
  <2>1. sub.pages \in 0 .. MaxPages /\ sub.pages # MaxPages
    BY <1>2 DEF Sound, SubsTo, ReplayOver
  <2>2. sub.pages + 1 \in 0 .. MaxPages
    BY <2>1, ConstantsAssumption
  <2>3. PICK P : P = Page(sub)
    OBVIOUS
  <2>4. a \in Wires(n) /\ new \in Sound(n, events) /\ Paged(sub, new, a, P)
    BY <1>2, <2>2, <2>3, RoundPage
  <2> QED BY <2>4 DEF Paged
<1> QED BY <1>1, <1>2

\* A subscription of key l is served, on the present connection.
LEMMA ServedKeeps ==
  ASSUME NEW enough, EventsInv(enough), NEW n \in Nat, n = Len(events), NEW l \in Keys,
         NEW a \in Wires(n), \A i \in DOMAIN a : Of(l, events, a[i]), down' = down \o a,
         NEW sn \in Seq(Sound(n, events)), subs' = sn, Owned(l, sn) # {},
         \A k \in Keys : k # l => Owned(k, sn) = Owned(k, subs)
                                  /\ \A j \in Owned(k, subs) : sn[j] = subs[j],
         UNCHANGED <<events, log, approvals, peer, registered, prunes>>, ClientStays, Live,
         NothingSent,
         l \in Open => KeyInv(enough, l, events, log, down', sn, first[l], cursor[l], got[l])
  PROVE  EventsInv(enough)'
<1>1. WellTyped /\ Linked /\ Cursors /\ Ended /\ KeysInv(enough) /\ \A k \in Open : Fresh(k)
  BY DEF EventsInv
<1>2. Live' /\ Linked' /\ Cursors' /\ Open' = Open
  BY <1>1 DEF Live, Linked, Cursors, Open, ClientStays
<1>3. PICK w, dn : w = down /\ dn = down'
  OBVIOUS
<1>4. w \in Wires(n) /\ dn = w \o a
  BY <1>1, <1>3 DEF WellTyped
<1>5. WellTyped'
  <2>1. w \o a \in Wires(n)
    BY ONLY n \in Nat, a \in Wires(n), <1>4, JoinedParts
  <2>2. down' \in Wires(n)
    BY <1>3, <1>4, <2>1
  <2>3. up' \in Seq(UpFrames(n))
    BY DEF NothingSent
  <2> QED BY <1>1, <2>2, <2>3 DEF WellTyped, ClientStays, Ids
<1>6. Ended'
  BY <1>1 DEF Ended, NothingSent, ClientStays
<1>7. ASSUME NEW k \in Open, k # l
      PROVE  /\ KeyInv(enough, k, events, log, dn, sn, first[k], cursor[k], got[k])
             /\ IdsOn(k, events, dn) = IdsOn(k, events, w)
  <2>1. PICK ev, lg, ss, lo, hi, g : /\ ev = events /\ lg = log /\ ss = subs /\ lo = first[k]
                                     /\ hi = cursor[k] /\ g = got[k]
    OBVIOUS
  <2>2. KeyInv(enough, k, ev, lg, w, ss, lo, hi, g)
    BY <1>1, <1>3, <2>1 DEF KeysInv
  <2>3. k \in Keys /\ \A i \in DOMAIN a : Of(l, ev, a[i])
    BY <2>1 DEF Open
  <2>4. Owned(k, sn) = Owned(k, ss) /\ \A j \in Owned(k, ss) : sn[j] = ss[j]
    BY <1>7, <2>1, <2>3
  <2>5. Untouched(enough, n, k, l, ev, lg, w, a, dn, ss, sn, lo, hi, g)
    BY ONLY n \in Nat, l \in Keys, a \in Wires(n), <1>4, <1>7, <2>2, <2>3, <2>4, KeyUntouched
  <2> QED BY <2>1, <2>5 DEF Untouched
<1>8. KeysInv(enough)'
  <2>1. \A k \in Open : /\ k \in counts'
                        /\ KeyInv(enough, k, events, log, dn, sn, first[k], cursor[k], got[k])
    BY <1>1, <1>3, <1>7 DEF KeysInv, ClientStays
  <2> QED BY <1>2, <1>3, <2>1 DEF KeysInv, ClientStays
<1>9. ASSUME NEW k \in Open PROVE Fresh(k)'
  <2> SUFFICES ASSUME Owned(k, sn) = {}
               PROVE  /\ IdsOn(k, events, dn) = {}
                      /\ \A i \in DOMAIN up' : up'[i].kind = "subscribe" /\ up'[i].key = k
                                                 => up'[i].since = cursor[k]
    BY <1>3 DEF Fresh, ClientStays
  <2>1. k # l /\ k \in Keys
    BY DEF Open
  <2>2. Owned(k, subs) = {}
    BY <2>1
  <2>3. /\ IdsOn(k, events, w) = {}
        /\ \A i \in DOMAIN up : up[i].kind = "subscribe" /\ up[i].key = k => up[i].since = cursor[k]
    BY <1>1, <1>3, <2>2 DEF Fresh
  <2> QED BY <1>7, <2>1, <2>3 DEF NothingSent
<1> QED BY <1>2, <1>5, <1>6, <1>8, <1>9 DEF EventsInv

\* A round of the subscription of a key that the application has not given up.
LEMMA KeyReplays ==
  ASSUME NEW n \in Nat, n = Len(events), log \in SUBSET (1 .. n), NEW w \in Wires(n),
         NEW k \in Keys, NEW lo \in 0 .. n, NEW hi \in 0 .. n, NEW g, NEW enough,
         NEW R, R = Marks(k, events, w, lo, hi), NEW T, T = g \cup NumsOn(k, events, w),
         NEW W, W = Rows(k, events, log), NEW I, I = IdsOn(k, events, w),
         Tidy(k, events, w), \A x \in NumsOn(k, events, w) : hi < x,
         NEW sub \in Sound(n, events), sub.key = k, sub.mode = "replay",
         SubBase(sub, events, R, I), enough => SubGap(sub, events, R, T, W),
         NEW a, a = RoundFrames(sub), NEW new, new = Round(sub),
         NEW dn, dn = w \o a, NEW sn, NEW j, Owned(k, sn) = {j}, sn[j] = new
  PROVE  KeyInv(enough, k, events, log, dn, sn, lo, hi, g)
<1>1. /\ I \in SUBSET (1 .. n) /\ NumsOn(k, events, w) \in SUBSET (1 .. n)
      /\ R \in SUBSET (0 .. n)
  <2>1. PICK ev : ev = events
    OBVIOUS
  <2>2. IdsOn(k, ev, w) \in SUBSET (1 .. n) /\ NumsOn(k, ev, w) \in SUBSET IdsOn(k, ev, w)
    BY OnWireTypes
  <2> QED BY <2>1, <2>2 DEF Marks
<1>2. W = {e \in log : Covers(sub.key, events[e].session)}
  BY DEF Rows
<1>3. /\ a \in Wires(n) /\ Advances(sub, new, a, R, I)
      /\ SubGap(sub, events, R, T, W) => Completes(sub, new, a, R, T, W)
  BY <1>1, <1>2, RoundKeeps
<1>4. enough => Completes(sub, new, a, R, T, W)
  BY <1>3
<1>5. /\ R = Marks(k, events, w, lo, hi) /\ T = g \cup NumsOn(k, events, w)
      /\ W = Rows(k, events, log) /\ I = IdsOn(k, events, w)
      /\ Tidy(k, events, w) /\ (\A x \in NumsOn(k, events, w) : hi < x)
  OBVIOUS
<1>6. sub.key = k /\ dn = w \o a /\ Owned(k, sn) = {j} /\ sn[j] = new
  OBVIOUS
<1>7. Served(enough, n, k, w, a, dn, sub, new, sn, j, R, I, T, W, lo, hi, g)
  BY ONLY n \in Nat, w \in Wires(n), lo \in 0 .. n, hi \in 0 .. n,
          <1>3, <1>4, <1>5, <1>6, KeyAdvances
<1> QED BY <1>7 DEF Served

\* A round of a replay.
LEMMA ReplayKeeps ==
  ASSUME NEW enough, EventsInv(enough), NEW j \in DOMAIN subs, Replay(j)
  PROVE  EventsInv(enough)'
<1>1. WellTyped /\ Linked /\ KeysInv(enough)
  BY DEF EventsInv
<1>2. PICK n \in Nat : n = Len(events)
  BY <1>1 DEF WellTyped
<1>3. PICK ss, sub, new, a, l, w, sn :
        /\ ss = subs /\ sub = subs[j] /\ new = Round(sub) /\ a = RoundFrames(sub) /\ l = sub.key
        /\ w = down /\ sn = subs'
  OBVIOUS
<1>4. /\ sub.mode = "replay" /\ sn = [ss EXCEPT ![j] = new] /\ down' = w \o a
      /\ UNCHANGED <<events, log, approvals, peer, registered, prunes>> /\ up' = up /\ ClientStays
  BY <1>3 DEF Replay, clientVars, ClientStays
<1>5. ss \in Seq(Sound(n, events)) /\ sub \in Sound(n, events) /\ log \in SUBSET (1 .. n)
      /\ w \in Wires(n)
  BY <1>1, <1>2, <1>3 DEF WellTyped, Ids
<1>6. l \in Keys
  BY <1>3, <1>5 DEF Sound, SubsTo
<1>7. /\ a \in Wires(n) /\ new \in Sound(n, events) /\ new.key = sub.key
      /\ \A i \in DOMAIN a : Of(sub.key, events, a[i])
  BY <1>3, <1>5, RoundTypes
<1>8. /\ sn \in Seq(Sound(n, events)) /\ DOMAIN sn = DOMAIN ss /\ sn[j] = new
      /\ \A i \in DOMAIN ss : i # j => sn[i] = ss[i]
  <2>1. PICK S : S = Sound(n, events)
    OBVIOUS
  <2>2. j \in DOMAIN ss /\ ss \in Seq(S) /\ new \in S
    BY <1>3, <1>5, <1>7, <2>1
  <2>3. /\ sn \in Seq(S) /\ DOMAIN sn = DOMAIN ss /\ sn[j] = new
        /\ \A i \in DOMAIN ss : i # j => sn[i] = ss[i]
    BY ONLY <1>4, <2>2
  <2> QED BY <2>1, <2>3
<1>9. \A k : Owned(k, sn) = Owned(k, ss)
  BY <1>3, <1>7, <1>8 DEF Owned
<1>10. j \in Owned(l, ss)
  BY <1>3 DEF Owned
<1>11. \A k \in Keys : k # l => Owned(k, sn) = Owned(k, subs)
                                /\ \A i \in Owned(k, subs) : sn[i] = subs[i]
  <2> SUFFICES ASSUME NEW k \in Keys, k # l, NEW i \in Owned(k, ss) PROVE sn[i] = ss[i]
    BY <1>3, <1>9
  <2>1. i # j /\ i \in DOMAIN ss
    BY <1>3 DEF Owned
  <2> QED BY <1>8, <2>1
<1>12. Live
  <2>1. subs # << >>
    BY <1>3, <1>10 DEF Owned
  <2> QED BY <1>1, <2>1 DEF Linked
<1>13. NothingSent
  BY <1>1, <1>4 DEF WellTyped, NothingSent
<1>14. ASSUME l \in Open
       PROVE  KeyInv(enough, l, events, log, down', sn, first[l], cursor[l], got[l])
  <2>1. PICK lo, hi, g, dn : lo = first[l] /\ hi = cursor[l] /\ g = got[l] /\ dn = down'
    OBVIOUS
  <2>2. PICK R, T, W, I : /\ R = Marks(l, events, w, lo, hi) /\ I = IdsOn(l, events, w)
                          /\ T = g \cup NumsOn(l, events, w) /\ W = Rows(l, events, log)
    OBVIOUS
  <2>3. KeyInv(enough, l, events, log, w, ss, lo, hi, g)
    BY <1>1, <1>3, <1>14, <2>1 DEF KeysInv
  <2>4. /\ Tidy(l, events, w) /\ (\A x \in NumsOn(l, events, w) : hi < x)
        /\ \A i, h \in Owned(l, ss) : i = h
        /\ SubBase(sub, events, R, I)
    BY <1>3, <1>10, <2>2, <2>3 DEF KeyInv, KeyBase
  <2>5. enough => SubGap(sub, events, R, T, W)
    BY <1>3, <1>10, <2>2, <2>3 DEF KeyInv, KeyGap
  <2>6. Owned(l, sn) = {j}
    BY <1>9, <1>10, <2>4
  <2>7. lo \in 0 .. n /\ hi \in 0 .. n
    BY <1>1, <1>2, <1>6, <2>1 DEF WellTyped
  <2>8. dn = w \o a /\ sub.key = l /\ sub.mode = "replay" /\ sn[j] = new
    BY <1>3, <1>4, <1>8, <2>1
  <2>9. KeyInv(enough, l, events, log, dn, sn, lo, hi, g)
    BY ONLY <1>2, <1>3, <1>5, <1>6, <2>2, <2>4, <2>5, <2>6, <2>7, <2>8, KeyReplays
  <2> QED BY <2>1, <2>9
<1>15. Owned(l, sn) # {} /\ subs' = sn /\ down' = down \o a
  BY <1>3, <1>4, <1>9, <1>10
<1>16. \A i \in DOMAIN a : Of(l, events, a[i])
  BY <1>3, <1>7
<1>17. l \in Open => KeyInv(enough, l, events, log, down', sn, first[l], cursor[l], got[l])
  BY <1>14
<1>18. a \in Wires(n) /\ sn \in Seq(Sound(n, events))
       /\ UNCHANGED <<events, log, approvals, peer, registered, prunes>> /\ ClientStays
  BY <1>4, <1>7, <1>8
<1> QED BY ONLY EventsInv(enough), <1>2, <1>6, <1>11, <1>12, <1>13, <1>15, <1>16, <1>17,
                <1>18, ServedKeeps

\* What a new subscription sends at once: the approvals, or its first page.
Opening(new, live, a, sub) ==
  IF new.mode = "live" THEN sub = new /\ a = live ELSE sub = Round(new) /\ a = RoundFrames(new)

\* A key's new subscription, from its cursor, while nothing of the key is on the wire.
LEMMA KeyBegins ==
  ASSUME NEW n \in Nat, n = Len(events), log \in SUBSET (1 .. n), approvals \in SUBSET (1 .. n),
         NEW w \in Wires(n), NEW k \in Keys, NEW lo \in 0 .. n, NEW hi \in 0 .. n, lo <= hi, NEW g,
         NEW enough, enough => Fits, IdsOn(k, events, w) = {},
         NEW ss, KeyInv(enough, k, events, log, w, ss, lo, hi, g),
         NEW new, new = Subscription(k, hi), NEW live, live = Reissued(k),
         NEW a, NEW sub, Opening(new, live, a, sub),
         NEW dn, dn = w \o a, NEW sn, NEW j, Owned(k, sn) = {j}, sn[j] = sub
  PROVE  KeyInv(enough, k, events, log, dn, sn, lo, hi, g)
<1>1. MaxPages \in Nat /\ PageSize \in Nat
  BY ConstantsAssumption
<1>2. /\ live \in Wires(n) /\ \A l, ev : Tidy(l, ev, live)
      /\ \A i \in DOMAIN live : Of(k, events, live[i]) /\ live[i].sequence = 0
      /\ new \in Sound(n, events)
      /\ new.key = k /\ new.last = hi /\ new.seen = {} /\ new.pages = 0
      /\ new.held = TRUE /\ new.heard = TRUE
      /\ hi = 0 => new.mode = "live"
      /\ hi # 0 => new.mode = "replay" /\ new.buffered = live
  <2>1. approvals \in SUBSET (1 .. n) /\ live = Reissued(k) /\ new = Subscription(k, hi)
    OBVIOUS
  <2>2. Begun(n, k, hi, live, new)
    BY ONLY n \in Nat, k \in Keys, hi \in 0 .. n, <1>1, <2>1, SubscriptionIs
  <2> QED BY <2>2 DEF Begun
<1>3. PICK R, T, W, I : /\ R = Marks(k, events, w, lo, hi) /\ I = IdsOn(k, events, w)
                        /\ T = g \cup NumsOn(k, events, w) /\ W = Rows(k, events, log)
  OBVIOUS
<1>4. I = {} /\ NumsOn(k, events, w) = {}
  <2>1. PICK ev : ev = events
    OBVIOUS
  <2>2. NumsOn(k, ev, w) \in SUBSET IdsOn(k, ev, w)
    BY OnWireTypes
  <2> QED BY <1>3, <2>1, <2>2
<1>5. R = {lo, hi} \ {0} /\ lo \in Nat /\ hi \in Nat
  BY <1>3, <1>4 DEF Marks
<1>6. Tidy(k, events, w) /\ \A x \in NumsOn(k, events, w) : hi < x
  BY DEF KeyInv, KeyBase
<1>7. dn = w \o a /\ Owned(k, sn) = {j} /\ sn[j] = sub
  OBVIOUS
<1>8. CASE hi = 0
  <2>1. R = {}
    BY <1>5, <1>8
  <2>2. sub = new /\ a = live
    BY <1>2, <1>8 DEF Opening
  <2>3. PICK N, J : N = NumsOn(k, events, a) /\ J = IdsOn(k, events, a)
    OBVIOUS
  <2>4. N = {}
    BY <1>2, <2>2, <2>3 DEF NumsOn
  <2>5. SubBase(new, events, R \cup N, I \cup J)
    BY <1>2, <1>8 DEF SubBase
  <2>6. Advances(new, sub, a, R, I)
    BY <1>2, <1>4, <2>1, <2>2, <2>3, <2>4, <2>5 DEF Advances
  <2>7. SubGap(new, events, R \cup N, T \cup N, W)
    <3>1. new.mode # "replay"
      BY <1>2, <1>8
    <3> QED BY <2>1, <2>4, <3>1 DEF SubGap, Complete
  <2>8. enough => Completes(new, sub, a, R, T, W)
    BY <1>2, <2>1, <2>2, <2>3, <2>4, <2>7 DEF Completes
  <2>9. Served(enough, n, k, w, a, dn, new, sub, sn, j, R, I, T, W, lo, hi, g)
    <3>1. a \in Wires(n) /\ new.key = k
      BY <1>2, <2>2
    <3> QED BY ONLY n \in Nat, w \in Wires(n), lo \in 0 .. n, hi \in 0 .. n,
                    <1>3, <1>6, <1>7, <2>6, <2>8, <3>1, KeyAdvances
  <2> QED BY <2>9 DEF Served
<1>9. CASE hi # 0
  <2>1. new.mode = "replay" /\ new.buffered = live /\ sub = Round(new) /\ a = RoundFrames(new)
    BY <1>2, <1>9 DEF Opening
  <2>2. hi \in R /\ \A x \in R : x <= hi
    BY <1>5, <1>9
  <2>3. SubBase(new, events, R, I)
    BY <1>2, <1>4, <2>1, <2>2 DEF SubBase
  <2>4. ASSUME enough PROVE SubGap(new, events, R, T, W)
    <3>1. Complete(W, R, T, hi)
      BY <1>3, <2>2, <2>4 DEF KeyInv, KeyGap
    <3>2. Buffered(new, events, W, n, n)
      <4>1. PICK Q : Q = {e \in W : new.last < e /\ e <= n}
        OBVIOUS
      <4>2. Q \in SUBSET log
        BY <1>3, <4>1 DEF Rows
      <4>3. IsFiniteSet(1 .. n)
        BY ONLY n \in Nat, FS_Interval
      <4>4. IsFiniteSet(log) /\ Cardinality(log) \in Nat
        BY <4>3, FS_Subset, FS_CardinalityType
      <4>5. Cardinality(Q) <= Cardinality(log) /\ Cardinality(Q) \in Nat
        BY <4>2, <4>4, FS_Subset, FS_CardinalityType
      <4>6. PICK c \in Nat : c = MaxPages * PageSize
        BY <1>1
      <4>7. Cardinality(log) <= c
        BY <2>4, <4>6 DEF Fits
      <4>8. Cardinality(Q) <= c
        BY <4>4, <4>5, <4>7
      <4>9. (MaxPages - new.pages) * PageSize = c
        BY <1>1, <1>2, <4>6
      <4> QED BY <1>2, <2>1, <4>1, <4>8, <4>9 DEF Buffered
    <3> QED BY <1>2, <2>1, <3>1, <3>2 DEF SubGap
  <2>5. enough => SubGap(new, events, R, T, W)
    BY <2>4
  <2>6. n = Len(events) /\ log \in SUBSET (1 .. n) /\ new \in Sound(n, events) /\ new.key = k
    BY <1>2
  <2> QED BY ONLY n \in Nat, w \in Wires(n), k \in Keys, lo \in 0 .. n, hi \in 0 .. n,
                  <1>3, <1>6, <1>7, <2>1, <2>3, <2>5, <2>6, KeyReplays
<1> QED BY <1>8, <1>9

\* stream.subscribe.
LEMMA SubscribedKeeps ==
  ASSUME NEW enough, EventsInv(enough), enough => Fits, HandleSubscribe
  PROVE  EventsInv(enough)'
<1>1. WellTyped /\ Linked /\ Cursors /\ Ended /\ KeysInv(enough) /\ \A k \in Open : Fresh(k)
  BY DEF EventsInv
<1>2. PICK n \in Nat : n = Len(events)
  BY <1>1 DEF WellTyped
<1>3. PICK u, k, since : u = up /\ k = Head(u).key /\ since = Head(u).since
  OBVIOUS
<1>4. PICK new, live, ss, sn, w, dn :
        /\ new = Subscription(k, since) /\ live = Reissued(k) /\ ss = subs /\ sn = subs'
        /\ w = down /\ dn = down'
  OBVIOUS
<1>5. /\ u # << >> /\ up' = Tail(u) /\ Head(u).kind = "subscribe"
      /\ IF \E j \in DOMAIN ss : ss[j].key = k /\ ss[j].held
         THEN sn = ss /\ dn = w
         ELSE IF new.mode = "live"
         THEN sn = Append(ss, new) /\ dn = w \o live
         ELSE sn = Append(ss, Round(new)) /\ dn = w \o RoundFrames(new)
      /\ UNCHANGED <<events, log, approvals, peer, registered, prunes>> /\ ClientStays
  BY <1>3, <1>4 DEF HandleSubscribe, TakeFrame, clientVars, ClientStays
<1>6. PICK S : S = UpFrames(n)
  OBVIOUS
<1>7. u \in Seq(S)
  BY <1>1, <1>2, <1>3, <1>6 DEF WellTyped
<1>8. 1 \in DOMAIN u /\ Head(u) = u[1] /\ Head(u) \in S
  BY ONLY <1>5, <1>7
<1>9. k \in Keys /\ since \in 0 .. n
  BY <1>3, <1>5, <1>6, <1>8 DEF UpFrames
<1>10. up' \in Seq(UpFrames(n)) /\ \A i \in DOMAIN up' : \E j \in DOMAIN up : up'[i] = up[j]
  <2>1. PICK t : t = Tail(u)
    OBVIOUS
  <2>2. t \in Seq(S) /\ \A i \in DOMAIN t : \E j \in DOMAIN u : t[i] = u[j]
    BY ONLY <1>5, <1>7, <2>1, TailIs
  <2> QED BY <1>3, <1>5, <1>6, <2>1, <2>2
<1>11. NothingSent
  BY <1>2, <1>10 DEF NothingSent
<1>12. Live
  BY <1>1, <1>3, <1>5 DEF Linked
<1>13. CASE \E j \in DOMAIN ss : ss[j].key = k /\ ss[j].held
  <2>1. subs' = subs /\ down' = down
    BY <1>4, <1>5, <1>13
  <2>2. UNCHANGED <<events, down, cursor, first, got>> /\ log' \subseteq log
    BY <1>5, <2>1 DEF ClientStays
  <2>3. subs' \in Seq(Sound(Len(events), events))
    BY <1>1, <2>1 DEF WellTyped
  <2>4. HubTypes(Len(events)) /\ ClientTypes(Len(events))
    BY <1>1, <1>2, <1>5, <1>10 DEF WellTyped, HubTypes, ClientTypes, ClientStays, Ids
  <2>5. Linked' /\ Ended' /\ Open' = Open /\ Live'
    <3>1. Ended'
      BY <1>1, <1>10, <1>5 DEF Ended, ClientStays
    <3> QED BY <1>1, <1>5, <1>12, <2>1, <3>1 DEF Linked, Live, Open, ClientStays
  <2>6. \A l \in Open' : l \in counts' /\ Fewer(l, subs', subs) /\ Fresh(l)'
    <3> SUFFICES ASSUME NEW l \in Open PROVE l \in counts' /\ Fewer(l, subs', subs) /\ Fresh(l)'
      BY <2>5
    <3>1. l \in counts' /\ Fewer(l, subs', subs)
      BY <1>1, <1>5, <2>1 DEF KeysInv, Fewer, ClientStays
    <3>2. Fresh(l)'
      <4>1. Fresh(l)
        BY <1>1
      <4> QED BY <1>5, <1>10, <1>12, <2>1, <4>1 DEF Fresh, ClientStays
    <3> QED BY <3>1, <3>2
  <2>7. Open' \subseteq Open
    BY <2>5
  <2> QED BY ONLY EventsInv(enough), <2>2, <2>3, <2>4, <2>5, <2>6, <2>7, SteadyKeeps
<1>14. CASE ~\E j \in DOMAIN ss : ss[j].key = k /\ ss[j].held
  <2>0. /\ ss \in Seq(Sound(n, events)) /\ log \in SUBSET (1 .. n) /\ approvals \in SUBSET (1 .. n)
        /\ w \in Wires(n)
    BY <1>1, <1>2, <1>4 DEF WellTyped, Ids
  <2>1. PICK a, sub : /\ a = (IF new.mode = "live" THEN live ELSE RoundFrames(new))
                      /\ sub = (IF new.mode = "live" THEN new ELSE Round(new))
    OBVIOUS
  <2>2. sn = Append(ss, sub) /\ dn = w \o a
    BY <1>5, <1>14, <2>1
  <2>3. Begun(n, k, since, live, new)
    <3>1. MaxPages \in Nat
      BY ConstantsAssumption
    <3> QED BY ONLY n \in Nat, <1>4, <1>9, <2>0, <3>1, SubscriptionIs
  <2>4. /\ a \in Wires(n) /\ sub \in Sound(n, events) /\ sub.key = k
        /\ \A i \in DOMAIN a : Of(k, events, a[i])
    <3>1. CASE new.mode = "live"
      BY <2>1, <2>3, <3>1 DEF Begun
    <3>2. CASE new.mode # "live"
      <4>1. new \in Sound(n, events) /\ new.key = k
        BY <2>3 DEF Begun
      <4>2. a = RoundFrames(new) /\ sub = Round(new)
        BY <2>1, <3>2
      <4>3. /\ a \in Wires(n) /\ sub \in Sound(n, events) /\ sub.key = new.key
            /\ \A i \in DOMAIN a : Of(new.key, events, a[i])
        BY ONLY n \in Nat, <2>0, <4>1, <4>2, RoundTypes
      <4> QED BY <4>1, <4>3
    <3> QED BY <3>1, <3>2
  <2>5. PICK m \in Nat : m = Len(ss) /\ DOMAIN ss = 1 .. m
    BY <2>0
  <2>6. /\ sn \in Seq(Sound(n, events)) /\ DOMAIN sn = 1 .. m + 1 /\ sn[m + 1] = sub
        /\ \A j \in 1 .. m : sn[j] = ss[j]
    <3>1. PICK X : X = Sound(n, events)
      OBVIOUS
    <3>2. ss \in Seq(X) /\ sub \in X
      BY <2>0, <2>4, <3>1
    <3>3. /\ sn \in Seq(X) /\ DOMAIN sn = 1 .. m + 1 /\ sn[m + 1] = sub
          /\ \A j \in 1 .. m : sn[j] = ss[j]
      BY ONLY m \in Nat, <2>2, <2>5, <3>2
    <3> QED BY <3>1, <3>3
  <2>7. \A l \in Keys : l # k => Owned(l, sn) = Owned(l, ss)
                                 /\ \A j \in Owned(l, ss) : sn[j] = ss[j]
    <3> SUFFICES ASSUME NEW l \in Keys, l # k
                 PROVE  Owned(l, sn) = Owned(l, ss) /\ \A j \in Owned(l, ss) : sn[j] = ss[j]
      OBVIOUS
    <3>1. \A j \in 1 .. m + 1 : j \in 1 .. m \/ j = m + 1
      BY ONLY m \in Nat
    <3>2. \A j \in 1 .. m : j \in 1 .. m + 1
      BY ONLY m \in Nat
    <3>3. Owned(l, sn) = Owned(l, ss)
      BY <2>4, <2>5, <2>6, <3>1, <3>2 DEF Owned
    <3> QED BY <2>5, <2>6, <3>3 DEF Owned
  <2>8. m + 1 \in Owned(k, sn)
    <3>1. m + 1 \in 1 .. m + 1
      BY ONLY m \in Nat
    <3> QED BY <2>4, <2>6, <3>1 DEF Owned
  <2>9. ASSUME k \in Open
        PROVE  KeyInv(enough, k, events, log, dn, sn, first[k], cursor[k], got[k])
    <3>1. PICK lo, hi, g : lo = first[k] /\ hi = cursor[k] /\ g = got[k]
      OBVIOUS
    <3>2. KeyInv(enough, k, events, log, w, ss, lo, hi, g)
      BY <1>1, <1>4, <2>9, <3>1 DEF KeysInv
    <3>3. Owned(k, ss) = {}
      <4>1. \A j \in Owned(k, ss) : ss[j].held /\ ss[j].key = k /\ j \in DOMAIN ss
        BY <3>2 DEF KeyInv, KeyBase, SubBase, Owned
      <4> QED BY <1>14, <4>1
    <3>4. IdsOn(k, events, w) = {} /\ since = hi
      <4>1. IdsOn(k, events, w) = {}
        BY <1>1, <1>4, <1>12, <2>9, <3>3 DEF Fresh
      <4>2. \A i \in DOMAIN up :
              up[i].kind = "subscribe" /\ up[i].key = k => up[i].since = cursor[k]
        BY <1>1, <1>4, <1>12, <2>9, <3>3 DEF Fresh
      <4> QED BY <1>3, <1>5, <1>8, <3>1, <4>1, <4>2
    <3>5. Owned(k, sn) = {m + 1}
      <4>1. \A j \in Owned(k, sn) : j = m + 1
        <5> SUFFICES ASSUME NEW j \in Owned(k, sn), j # m + 1 PROVE FALSE
          OBVIOUS
        <5>1. j \in 1 .. m
          BY <2>6 DEF Owned
        <5>2. j \in Owned(k, ss)
          BY <2>5, <2>6, <5>1 DEF Owned
        <5> QED BY <3>3, <5>2
      <4> QED BY <2>8, <4>1
    <3>6. lo \in 0 .. n /\ hi \in 0 .. n /\ lo <= hi
      BY <1>1, <1>2, <1>9, <3>1 DEF WellTyped, Cursors
    <3>7. Opening(new, live, a, sub)
      BY <2>1 DEF Opening
    <3>8. new = Subscription(k, hi) /\ live = Reissued(k) /\ n = Len(events)
      BY <1>2, <1>4, <3>4
    <3>9. PICK j : j = m + 1
      OBVIOUS
    <3>10. Owned(k, sn) = {j} /\ sn[j] = sub
      BY <2>6, <3>5, <3>9
    <3>11. KeyInv(enough, k, events, log, dn, sn, lo, hi, g)
      BY ONLY n \in Nat, enough => Fits, <1>9, <2>0, <2>2, <3>2, <3>4, <3>6, <3>7, <3>8, <3>10,
              KeyBegins
    <3> QED BY <3>1, <3>11
  <2>10. /\ k \in Open => KeyInv(enough, k, events, log, down', sn, first[k], cursor[k], got[k])
         /\ down' = down \o a /\ subs' = sn /\ Owned(k, sn) # {}
         /\ \A l \in Keys : l # k => Owned(l, sn) = Owned(l, subs)
                                     /\ \A j \in Owned(l, subs) : sn[j] = subs[j]
    BY <1>4, <2>2, <2>7, <2>8, <2>9
  <2>11. /\ a \in Wires(n) /\ sn \in Seq(Sound(n, events))
         /\ \A i \in DOMAIN a : Of(k, events, a[i])
         /\ UNCHANGED <<events, log, approvals, peer, registered, prunes>> /\ ClientStays
    BY <1>5, <2>4, <2>6
  <2> QED BY ONLY EventsInv(enough), <1>2, <1>9, <1>11, <1>12, <2>10, <2>11, ServedKeeps
<1> QED BY <1>13, <1>14

-----------------------------------------------------------------------------
(* The theorems.                                                           *)

\* Every step keeps the invariant.
LEMMA EventsNext ==
  ASSUME NEW enough, EventsInv(enough), enough => Fits, Next
  PROVE  EventsInv(enough)'
<1>1. ASSUME NEW s \in Sessions, PublishEvent(s) \/ RequestApproval(s) PROVE EventsInv(enough)'
  BY <1>1, EventPublishes
<1>2. ASSUME NEW a \in Ids, RespondApproval(a) PROVE EventsInv(enough)'
  BY <1>2, ApprovalAnswered
<1>3. CASE Prune
  BY <1>3, PruneKeeps
<1>4. CASE HandleFrame
  <2>1. CASE HandleSubscribe
    BY <2>1, SubscribedKeeps
  <2>2. CASE HandleUnsubscribe
    BY <2>2, UnsubscribedKeeps
  <2>3. CASE HandleRegister
    BY <2>3, RegisterKeeps
  <2> QED BY <1>4, <2>1, <2>2, <2>3 DEF HandleFrame
<1>5. ASSUME NEW j \in DOMAIN subs, Replay(j) PROVE EventsInv(enough)'
  BY <1>5, ReplayKeeps
<1>6. ASSUME NEW m \in Sockets, CloseSocket(m) PROVE EventsInv(enough)'
  BY <1>6, CloseKeeps
<1>7. CASE RestartHub
  BY <1>7, RestartKeeps
<1>8. CASE Connect
  BY <1>8, ConnectKeeps
<1>9. CASE LoseSocket
  BY <1>9, LossKeeps
<1>10. ASSUME NEW k \in Keys, Subscribe(k) \/ Unsubscribe(k) PROVE EventsInv(enough)'
  BY <1>10, SubscribeKeeps, UnsubscribeKeeps
<1>11. CASE TakeMessage
  BY <1>11, ReplyTaken, EventTaken DEF TakeMessage
<1> QED BY <1>1, <1>2, <1>3, <1>4, <1>5, <1>6, <1>7, <1>8, <1>9, <1>10, <1>11 DEF Next

\* And so does none.
LEMMA EventsStutter ==
  ASSUME NEW enough, EventsInv(enough), UNCHANGED vars
  PROVE  EventsInv(enough)'
BY DEF vars, EventsInv, WellTyped, Linked, Live, Cursors, Ended, KeysInv, Open, Fresh, Ids

\* Over whatever losses, restarts and interleavings of replay and live events, what is on its
\* way to a listener is in the order of the log and new to it (deliver's lastDelivered and
\* deliveredEventIds).
THEOREM HubEventsDelivers == Spec => []DeliveryInv
<1>1. Init => EventsInv(FALSE)
  BY EventsInit
<1>2. EventsInv(FALSE) /\ [Next]_vars => EventsInv(FALSE)'
  BY EventsNext, EventsStutter
<1>3. EventsInv(FALSE) => DeliveryInv
  BY InvDelivers
<1> QED BY <1>1, <1>2, <1>3, PTL DEF Spec

\* And nothing is missing between the first event a listener saw and its cursor, as long as
\* a replay can page through the log (HUB_EVENT_REPLAY_MAX_PAGES: "covers the event log's
\* full retention cap").
THEOREM HubEventsLeavesNoGap == Spec /\ []Fits => []NoGap
<1>1. Init => EventsInv(TRUE)
  BY EventsInit
<1>2. EventsInv(TRUE) /\ Fits /\ [Next]_vars => EventsInv(TRUE)'
  BY EventsNext, EventsStutter
<1>3. EventsInv(TRUE) => NoGap
  BY InvLeavesNoGap
<1> QED BY <1>1, <1>2, <1>3, PTL DEF Spec
=============================================================================
