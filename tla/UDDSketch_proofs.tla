-------------------------- MODULE UDDSketch_proofs --------------------------
(***************************************************************************)
(* Proofs about UDDSketch: the list of the buckets stays in order and      *)
(* every bucket counts the values that belong into it, through any adds,   *)
(* compactions, merges and flushes; between operations there are no more   *)
(* buckets than allowed.                                                   *)
(***************************************************************************)
EXTENDS UDDSketch, InductionTheorems

-----------------------------------------------------------------------------
(* Keys                                                                    *)

AnyKey == Keys \cup {Invalid}

\* A key is a pair of numbers.
LEMMA KeyPair ==
  ASSUME NEW k \in AnyKey
  PROVE  /\ k[1] \in {-1, 0, 1, 2} /\ k[2] \in Int /\ k[2] <= MaxIndex
         /\ (k[1] = 0 => k[2] = 0) /\ (k[1] = 2 => k[2] = 0) /\ (k # Invalid => k[1] # 2)
         /\ k = <<k[1], k[2]>>
  BY SketchAssumption DEF AnyKey, Keys, Invalid, Zero

\* Keys are the same if sign and index are.
LEMMA SameKey ==
  ASSUME NEW k \in AnyKey, NEW l \in AnyKey, k[1] = l[1], k[2] = l[2]
  PROVE  k = l
<1>1. k = <<k[1], k[2]>> /\ l = <<l[1], l[2]>>
  BY KeyPair
<1> QED BY <1>1

\* partial_cmp is a strict order, in which any two keys compare,
LEMMA Order ==
  ASSUME NEW j \in AnyKey, NEW k \in AnyKey
  PROVE  /\ ~Less(j, j)
         /\ Less(j, k) => ~Less(k, j)
         /\ j = k \/ Less(j, k) \/ Less(k, j)
         /\ j # Invalid => Less(j, Invalid)
         /\ Less(j, k) => j # Invalid
<1>1. j[1] \in Int /\ j[2] \in Int /\ k[1] \in Int /\ k[2] \in Int
  BY KeyPair
<1>2. Invalid[1] = 2 /\ Invalid[2] = 0
  BY DEF Invalid
<1>3. ~Less(j, j) /\ (Less(j, k) => ~Less(k, j))
  BY <1>1 DEF Less
<1>4. j = k \/ Less(j, k) \/ Less(k, j)
  BY <1>1, KeyPair, SameKey DEF Less
<1>5. j # Invalid => Less(j, Invalid)
  BY <1>2, KeyPair DEF Less
<1>6. Less(j, k) => j # Invalid
  BY <1>2, KeyPair DEF Less
<1> QED BY <1>3, <1>4, <1>5, <1>6

LEMMA OrderChain ==
  ASSUME NEW j \in AnyKey, NEW k \in AnyKey, NEW l \in AnyKey, ~Less(k, j), ~Less(l, k)
  PROVE  /\ ~Less(l, j)
         /\ Less(j, k) \/ Less(k, l) => Less(j, l)
<1>1. \A x \in {j, k, l} : x[1] \in Int /\ x[2] \in Int
  BY KeyPair
<1>2. /\ j[1] <= k[1] /\ (j[1] = k[1] /\ j[1] = -1 => k[2] <= j[2])
      /\ (j[1] = k[1] /\ j[1] = 1 => j[2] <= k[2])
  BY <1>1 DEF Less
<1>3. /\ k[1] <= l[1] /\ (k[1] = l[1] /\ k[1] = -1 => l[2] <= k[2])
      /\ (k[1] = l[1] /\ k[1] = 1 => k[2] <= l[2])
  BY <1>1 DEF Less
<1> QED BY <1>1, <1>2, <1>3 DEF Less

\* A compaction takes a key to a key, and Invalid to itself.
LEMMA CompactKeyType ==
  /\ \A k \in Keys : CompactKey(k) \in Keys
  /\ CompactKey(Invalid) = Invalid
<1>1. ASSUME NEW k \in Keys PROVE CompactKey(k) \in Keys
  <2>1. CASE ~Indexed(k)
    BY <2>1 DEF CompactKey
  <2>2. CASE Indexed(k)
    <3>1. k[1] \in {-1, 1} /\ k[2] \in Int /\ k[2] < MaxIndex
      BY <2>2, KeyPair, SketchAssumption DEF Indexed, AnyKey
    <3>2. Halved(k[2]) \in Int /\ Halved(k[2]) <= MaxIndex
      BY <3>1, SketchAssumption DEF Halved
    <3> QED BY <2>2, <3>1, <3>2 DEF CompactKey, Keys
  <2> QED BY <2>1, <2>2
<1>2. ~Indexed(Invalid)
  BY DEF Indexed, Invalid
<1> QED BY <1>1, <1>2 DEF CompactKey

\* Sign and index of a compacted key; the index of an infinity is out of reach.
LEMMA CompactKeyParts ==
  ASSUME NEW k \in AnyKey
  PROVE  /\ CompactKey(k)[1] = k[1] /\ CompactKey(k)[2] \in Int
         /\ k[1] \in {-1, 1} =>
               \/ k[2] = MaxIndex /\ CompactKey(k)[2] = MaxIndex
               \/ k[2] < MaxIndex /\ CompactKey(k)[2] = (k[2] + 1) \div 2 /\ CompactKey(k)[2] < MaxIndex
<1>1. k[1] \in Int /\ k[2] \in Int /\ k[2] <= MaxIndex /\ MaxIndex \in Nat \ {0}
  BY KeyPair, SketchAssumption
<1>2. CASE Indexed(k)
  <2>1. k[1] \in {-1, 1} /\ k[2] < MaxIndex
    BY <1>1, <1>2 DEF Indexed
  <2>2. (k[2] + 1) \div 2 \in Int /\ (k[2] + 1) \div 2 < MaxIndex
    BY <1>1, <2>1
  <2>3. CompactKey(k)[1] = k[1] /\ CompactKey(k)[2] = (k[2] + 1) \div 2
    BY <1>2 DEF CompactKey, Halved
  <2> QED BY <2>1, <2>2, <2>3
<1>3. CASE ~Indexed(k)
  <2>1. CompactKey(k) = k
    BY <1>3 DEF CompactKey
  <2> QED BY <1>1, <1>3, <2>1 DEF Indexed
<1> QED BY <1>2, <1>3

\* It keeps the order, and takes at most two neighbours to one.
LEMMA CompactKeyOrder ==
  ASSUME NEW j \in AnyKey, NEW k \in AnyKey, Less(j, k)
  PROVE  /\ ~Less(CompactKey(k), CompactKey(j))
         /\ \A l \in AnyKey : Less(k, l) /\ CompactKey(j) = CompactKey(k) => CompactKey(l) # CompactKey(k)
<1>1. \A x \in AnyKey :
         /\ x[1] \in {-1, 0, 1, 2} /\ x[2] \in Int /\ x[2] <= MaxIndex
         /\ (x[1] = 0 => x[2] = 0) /\ (x[1] = 2 => x[2] = 0)
  BY KeyPair
<1>2. \A x \in AnyKey :
         /\ CompactKey(x)[1] = x[1] /\ CompactKey(x)[2] \in Int
         /\ x[1] \in {-1, 1} =>
               \/ x[2] = MaxIndex /\ CompactKey(x)[2] = MaxIndex
               \/ x[2] < MaxIndex /\ CompactKey(x)[2] = (x[2] + 1) \div 2 /\ CompactKey(x)[2] < MaxIndex
  BY CompactKeyParts
<1>3. ~Less(CompactKey(k), CompactKey(j))
  BY <1>1, <1>2, SketchAssumption DEF Less
<1>4. ASSUME NEW l \in AnyKey, Less(k, l), CompactKey(j) = CompactKey(k), CompactKey(l) = CompactKey(k)
      PROVE  FALSE
  <2>1. j[1] = k[1] /\ l[1] = k[1] /\ k[1] \in {-1, 1}
    BY <1>1, <1>2, <1>4 DEF Less
  <2>2. \A x \in {j, k, l} : x[2] < MaxIndex /\ CompactKey(x)[2] = (x[2] + 1) \div 2
    BY <1>1, <1>2, <1>4, <2>1, SketchAssumption DEF Less
  <2>3. (j[2] + 1) \div 2 = (k[2] + 1) \div 2 /\ (l[2] + 1) \div 2 = (k[2] + 1) \div 2
    BY <1>4, <2>2
  <2>4. (j[2] < k[2] /\ k[2] < l[2]) \/ (j[2] > k[2] /\ k[2] > l[2])
    BY <1>1, <1>4, <2>1 DEF Less
  <2> QED BY <1>1, <2>3, <2>4
<1> QED BY <1>3, <1>4

-----------------------------------------------------------------------------
(* The key of a value                                                      *)

\* The width of a bucket doubles.
LEMMA WidthDef ==
  /\ Width[0] = 1
  /\ \A c \in Nat : Width[c] \in Nat \ {0} /\ Width[c + 1] = 2 * Width[c]
<1> DEFINE g == [x \in Nat \X Nat |-> 2 * x[2]]
<1>1. g \in [Nat \X Nat -> Nat]
  OBVIOUS
<1> HIDE DEF g
<1>2. PICK f : Recurs(f, Nat, 1, g)
  BY <1>1, RecursionExists
<1>3. f \in [Nat -> Nat] /\ f[0] = 1 /\ \A n \in Nat \ {0} : f[n] = 2 * f[n - 1]
  <2>1. /\ f \in [Nat -> Nat] /\ f[0] = 1
        /\ \A n \in Nat \ {0} : f[n] = g[<<n, f[n - 1]>>]
    BY <1>2 DEF Recurs
  <2>2. \A n \in Nat, x \in Nat : g[<<n, x>>] = 2 * x
    BY DEF g
  <2>3. \A n \in Nat \ {0} : n - 1 \in Nat /\ f[n - 1] \in Nat
    BY <2>1
  <2> QED BY <2>1, <2>2, <2>3
<1>4. f = [c \in Nat |-> IF c = 0 THEN 1 ELSE 2 * f[c - 1]]
  BY <1>3
<1>5. Width = [c \in Nat |-> IF c = 0 THEN 1 ELSE 2 * Width[c - 1]]
  BY <1>4 DEF Width
<1>6. Width[0] = 1 /\ \A c \in Nat : Width[c + 1] = 2 * Width[c]
  BY <1>5
<1>7. Nat \subseteq {c \in Nat : Width[c] \in Nat \ {0}}
  <2> DEFINE T == {c \in Nat : Width[c] \in Nat \ {0}}
  <2>1. 0 \in T /\ \A c \in Nat : c \in T => c + 1 \in T
    BY <1>6
  <2> HIDE DEF T
  <2>2. Nat \subseteq T
    BY <2>1, NatSetInduction
  <2> QED BY <2>2 DEF T
<1> QED BY <1>6, <1>7

\* A quotient rounded up is the number whose multiple is next.
RoundedUp(i, w) == (i + (w - 1)) \div w

LEMMA RoundUp ==
  ASSUME NEW i \in Int, NEW w \in Nat \ {0}, NEW q \in Int
  PROVE  RoundedUp(i, w) \in Int /\ (RoundedUp(i, w) = q <=> w * q - w < i /\ i <= w * q)
<1> DEFINE a == i + (w - 1)
<1>1. a \in Int /\ w \in Int /\ w > 0
  OBVIOUS
<1>2. a \div w \in Int /\ a % w \in 0 .. w - 1 /\ a = w * (a \div w) + (a % w)
  BY <1>1
<1> DEFINE d == a \div w
<1>3. d \in Int /\ w * d <= a /\ a < w * d + w
  BY <1>2
<1> HIDE DEF d
<1>4. d = q <=> w * q <= a /\ a < w * q + w
  <2>1. CASE d = q
    BY <1>3, <2>1
  <2>2. CASE d < q
    <3>1. w * (d + 1) <= w * q
      BY <1>1, <1>3, <2>2
    <3>2. w * (d + 1) = w * d + w
      BY <1>1, <1>3
    <3> QED BY <1>1, <1>3, <2>2, <3>1, <3>2
  <2>3. CASE d > q
    <3>1. w * (q + 1) <= w * d
      BY <1>1, <1>3, <2>3
    <3>2. w * (q + 1) = w * q + w
      BY <1>1, <1>3
    <3> QED BY <1>1, <1>3, <2>3, <3>1, <3>2
  <2> QED BY <1>3, <2>1, <2>2, <2>3
<1>5. w * q \in Int
  BY <1>1
<1>6. (w * q <= a /\ a < w * q + w) <=> (w * q - w < i /\ i <= w * q)
  BY <1>1, <1>5
<1> QED BY <1>3, <1>4, <1>6 DEF d, RoundedUp

\* Rounding up twice is rounding up once.
LEMMA RoundUpTwice ==
  ASSUME NEW i \in Int, NEW w \in Nat \ {0}
  PROVE  RoundedUp(i, 2 * w) = (RoundedUp(i, w) + 1) \div 2
<1> DEFINE q == RoundedUp(i, w)
           h == (q + 1) \div 2
<1>1. q \in Int /\ w * q - w < i /\ i <= w * q
  BY RoundUp
<1> HIDE DEF q
<1>2. h \in Int /\ (q = 2 * h \/ q = 2 * h - 1)
  BY <1>1
<1> HIDE DEF h
<1>3. w * h \in Int /\ (2 * w) * h = 2 * (w * h) /\ 2 * w \in Nat \ {0}
  BY <1>2
<1>4. w * q = 2 * (w * h) \/ w * q = 2 * (w * h) - w
  <2>1. CASE q = 2 * h
    BY <1>2, <2>1
  <2>2. CASE q = 2 * h - 1
    BY <1>2, <2>2
  <2> QED BY <1>2, <2>1, <2>2
<1>5. (2 * w) * h - 2 * w < i /\ i <= (2 * w) * h
  BY <1>1, <1>3, <1>4
<1>6. RoundedUp(i, 2 * w) = h
  BY <1>2, <1>3, <1>5, RoundUp
<1> QED BY <1>6 DEF h, q

\* The key of a value is a key; an index below the infinite one stays below it.
LEMMA KeyOfType ==
  ASSUME NEW v \in Keys, NEW c \in Nat
  PROVE  KeyOf(v, c) \in Keys /\ (Indexed(v) <=> Indexed(KeyOf(v, c)))
<1>1. CASE ~Indexed(v)
  BY <1>1 DEF KeyOf
<1>2. CASE Indexed(v)
  <2>1. v[1] \in {-1, 1} /\ v[2] \in Int /\ v[2] < MaxIndex /\ MaxIndex \in Nat \ {0}
    BY <1>2, KeyPair, SketchAssumption DEF Indexed, AnyKey
  <2>2. Width[c] \in Nat \ {0}
    BY WidthDef
  <2> DEFINE w == Width[c]
             q == RoundedUp(v[2], w)
  <2>3. q \in Int /\ w * q - w < v[2]
    BY <2>1, <2>2, RoundUp
  <2>4. KeyOf(v, c) = <<v[1], q>>
    BY <1>2 DEF KeyOf, RoundedUp
  <2> HIDE DEF w, q
  <2>5. q < MaxIndex
    <3> SUFFICES ASSUME q >= MaxIndex PROVE FALSE
      BY <2>1, <2>3
    <3>1. q - 1 >= v[2] /\ q - 1 >= 0
      BY <2>1, <2>3
    <3>2. w \in Nat /\ w >= 1
      BY <2>2 DEF w
    <3>3. w * (q - 1) >= q - 1
      BY <2>3, <3>1, <3>2
    <3>4. w * (q - 1) = w * q - w
      BY <2>3, <3>2
    <3> QED BY <2>1, <2>3, <3>1, <3>2, <3>3, <3>4
  <2> QED BY <1>2, <2>1, <2>3, <2>4, <2>5 DEF Keys, Indexed
<1> QED BY <1>1, <1>2

\* What `compactions' becomes in a round.
NextRound(c) == IF c < MaxRounds THEN c + 1 ELSE MaxRounds - 1

\* A round gives every value the key it would have from then on, ...
LEMMA KeyOfCompacted ==
  ASSUME NEW v \in Keys, NEW c \in Nat
  PROVE  KeyOf(v, c + 1) = CompactKey(KeyOf(v, c))
<1>1. CASE ~Indexed(v)
  BY <1>1 DEF KeyOf, CompactKey
<1>2. CASE Indexed(v)
  <2>1. v[2] \in Int
    BY KeyPair DEF AnyKey
  <2>2. Width[c] \in Nat \ {0} /\ Width[c + 1] = 2 * Width[c]
    BY WidthDef
  <2>3. RoundedUp(v[2], Width[c + 1]) = (RoundedUp(v[2], Width[c]) + 1) \div 2
    BY <2>1, <2>2, RoundUpTwice
  <2>4. KeyOf(v, c) = <<v[1], RoundedUp(v[2], Width[c])>>
    BY <1>2 DEF KeyOf, RoundedUp
  <2>5. KeyOf(v, c + 1) = <<v[1], RoundedUp(v[2], Width[c + 1])>>
    BY <1>2 DEF KeyOf, RoundedUp
  <2>6. Indexed(KeyOf(v, c))
    BY <1>2, KeyOfType
  <2> QED BY <2>3, <2>4, <2>5, <2>6 DEF CompactKey, Halved
<1> QED BY <1>1, <1>2

\* ... also when `compactions' has reached its bound: a value of Values then has
\* the same key before the round and after it.
LEMMA KeyOfNext ==
  ASSUME NEW v \in Values, NEW c \in 0 .. MaxRounds
  PROVE  NextRound(c) \in 0 .. MaxRounds /\ KeyOf(v, NextRound(c)) = CompactKey(KeyOf(v, c))
<1>1. v \in Keys /\ MaxRounds \in Nat \ {0} /\ c \in Nat
  BY SketchAssumption
<1>2. CASE c < MaxRounds
  BY <1>1, <1>2, KeyOfCompacted DEF NextRound
<1>3. CASE c = MaxRounds
  <2>1. NextRound(c) = MaxRounds - 1 /\ MaxRounds - 1 \in Nat
    BY <1>1, <1>3 DEF NextRound
  <2>2. KeyOf(v, MaxRounds - 1) \in Keys /\ KeyOf(v, (MaxRounds - 1) + 1) = CompactKey(KeyOf(v, MaxRounds - 1))
    BY <1>1, <2>1, KeyOfType, KeyOfCompacted
  <2>3. KeyOf(v, c) = CompactKey(KeyOf(v, MaxRounds - 1))
    BY <1>1, <1>3, <2>2
  <2>4. CompactKey(KeyOf(v, MaxRounds - 1)) = KeyOf(v, MaxRounds - 1)
    <3>1. CASE ~Indexed(v)
      BY <3>1 DEF KeyOf, CompactKey
    <3>2. CASE Indexed(v)
      <4> DEFINE w == Width[MaxRounds - 1]
                 q == RoundedUp(v[2], w)
      <4>1. v[2] \in Int /\ v[2] \in 1 - w .. w /\ w \in Nat \ {0}
        BY <1>1, <2>1, <3>2, WidthDef, KeyPair, SketchAssumption DEF Indexed, AnyKey
      <4>2. KeyOf(v, MaxRounds - 1) = <<v[1], q>>
        BY <3>2 DEF KeyOf, RoundedUp
      <4>3. q \in {0, 1}
        <5> HIDE DEF w
        <5>1. CASE v[2] <= 0
          <6>1. v[2] \in Int /\ w \in Nat \ {0} /\ 0 \in Int
            BY <4>1
          <6>2. w * 0 - w < v[2] /\ v[2] <= w * 0
            BY <4>1, <5>1
          <6>3. q = 0
            BY <6>1, <6>2, RoundUp
          <6> QED BY <6>3
        <5>2. CASE v[2] > 0
          <6>1. v[2] \in Int /\ w \in Nat \ {0} /\ 1 \in Int
            BY <4>1
          <6>2. w * 1 - w < v[2] /\ v[2] <= w * 1
            BY <4>1, <5>2
          <6>3. q = 1
            BY <6>1, <6>2, RoundUp
          <6> QED BY <6>3
        <5> QED BY <4>1, <5>1, <5>2
      <4> HIDE DEF q
      <4>4. (q + 1) \div 2 = q
        BY <4>3
      <4> QED BY <4>2, <4>4 DEF CompactKey, Halved
    <3> QED BY <3>1, <3>2
  <2> QED BY <1>1, <2>1, <2>3, <2>4
<1> QED BY <1>1, <1>2, <1>3

-----------------------------------------------------------------------------
(* The list                                                                *)

\* h is the first key of D, n the one after k; Invalid if there is none.
IsFirst(D, h) == h \in D \cup {Invalid} /\ \A k \in D : ~Less(k, h)
IsNext(D, k, n) ==
    /\ n \in D \cup {Invalid} /\ Less(k, n)
    /\ \A j \in D : Less(k, j) => ~Less(j, n)

\* Finitely many buckets, of which each links to the next one in the order.
Linked(m) ==
    /\ m = [head |-> m.head, map |-> m.map]
    /\ m.map = [k \in DOMAIN m.map |-> [count |-> m.map[k].count, next |-> m.map[k].next]]
    /\ IsFiniteSet(DOMAIN m.map) /\ DOMAIN m.map \subseteq Keys
    /\ \A k \in DOMAIN m.map : m.map[k].count \in Nat
    /\ IsFirst(DOMAIN m.map, m.head)
    /\ \A k \in DOMAIN m.map : IsNext(DOMAIN m.map, k, m.map[k].next)

LEMMA NotInvalid == Invalid \notin Keys
  BY DEF Invalid, Keys

\* A walk follows the links, and stays at their end.
LEMMA WalkDef ==
  ASSUME NEW m, Linked(m)
  PROVE  /\ Walk(m)[0] = m.head
         /\ \A n \in Nat :
               /\ Walk(m)[n] \in DOMAIN m.map \cup {Invalid}
               /\ Walk(m)[n] \in DOMAIN m.map => Walk(m)[n + 1] = m.map[Walk(m)[n]].next
               /\ Walk(m)[n] = Invalid => Walk(m)[n + 1] = Invalid
<1> DEFINE D == DOMAIN m.map
           T == D \cup {Invalid}
           link == [k \in T |-> IF k = Invalid THEN k ELSE m.map[k].next]
           g == [x \in Nat \X T |-> link[x[2]]]
<1>1. m.head \in T /\ \A k \in D : m.map[k].next \in T /\ k # Invalid
  BY NotInvalid DEF Linked, IsFirst, IsNext
<1>2. link \in [T -> T]
  BY <1>1
<1>3. g \in [Nat \X T -> T]
  <2> HIDE DEF link
  <2> QED BY <1>2
<1> HIDE DEF g
<1>4. PICK f : Recurs(f, T, m.head, g)
  BY <1>1, <1>3, RecursionExists
<1>5. f \in [Nat -> T] /\ f[0] = m.head /\ \A n \in Nat \ {0} : f[n] = link[f[n - 1]]
  <2> HIDE DEF link
  <2>1. /\ f \in [Nat -> T] /\ f[0] = m.head
        /\ \A n \in Nat \ {0} : f[n] = g[<<n, f[n - 1]>>]
    BY <1>4 DEF Recurs
  <2>2. \A n \in Nat, x \in T : g[<<n, x>>] = link[x]
    BY DEF g
  <2>3. \A n \in Nat \ {0} : n - 1 \in Nat /\ f[n - 1] \in T
    BY <2>1
  <2> HIDE DEF T
  <2> QED BY <2>1, <2>2, <2>3
<1> DEFINE walk == Walk(m)
<1>6. walk = [n \in Nat |-> IF n = 0 THEN m.head ELSE link[walk[n - 1]]]
  <2>1. f = [n \in Nat |-> IF n = 0 THEN m.head ELSE link[f[n - 1]]]
    <3> HIDE DEF link
    <3> QED BY <1>5
  <2> QED BY <2>1 DEF Walk
<1> HIDE DEF walk
<1>7. walk[0] = m.head /\ \A n \in Nat : walk[n + 1] = link[walk[n]]
  <2> HIDE DEF link
  <2> QED BY <1>6
<1>8. \A n \in Nat : walk[n] \in T
  <2> DEFINE E == {n \in Nat : walk[n] \in T}
  <2>1. 0 \in E /\ \A n \in Nat : n \in E => n + 1 \in E
    <3> HIDE DEF T, link
    <3> QED BY <1>1, <1>2, <1>7
  <2> HIDE DEF E
  <2>2. Nat \subseteq E
    BY <2>1, NatSetInduction
  <2> QED BY <2>2 DEF E
<1>9. \A n \in Nat : /\ walk[n] \in D => walk[n + 1] = m.map[walk[n]].next
                     /\ walk[n] = Invalid => walk[n + 1] = Invalid
  <2>1. \A k \in T : link[k] = IF k = Invalid THEN k ELSE m.map[k].next
    OBVIOUS
  <2> HIDE DEF link, T
  <2> QED BY <1>1, <1>7, <1>8, <2>1
<1> QED BY <1>7, <1>8, <1>9 DEF walk

\* Every step of a walk leaves behind the least of the keys still before it.
LEMMA WalkAll ==
  ASSUME NEW m, Linked(m), NEW n \in Nat, n <= Cardinality(DOMAIN m.map)
  PROVE  LET Rest == {j \in DOMAIN m.map : ~Less(j, Walk(m)[n])}
         IN  /\ Cardinality(Rest) = Cardinality(DOMAIN m.map) - n
             /\ DOMAIN m.map = {Walk(m)[i] : i \in 0 .. n - 1} \cup Rest
<1> DEFINE D == DOMAIN m.map
           C == Cardinality(D)
           walk == Walk(m)
           Rest(i) == {j \in D : ~Less(j, walk[i])}
           E == {i \in Nat : i <= C => /\ Cardinality(Rest(i)) = C - i
                                       /\ D = {walk[a] : a \in 0 .. i - 1} \cup Rest(i)}
<1>1. /\ walk[0] = m.head
      /\ \A i \in Nat :
            /\ walk[i] \in D \cup {Invalid}
            /\ walk[i] \in D => walk[i + 1] = m.map[walk[i]].next
  BY WalkDef
<1>2. /\ IsFiniteSet(D) /\ D \subseteq Keys /\ C \in Nat
      /\ \A k \in D : ~Less(k, m.head)
      /\ \A k \in D : IsNext(D, k, m.map[k].next)
  BY FS_CardinalityType DEF Linked, IsFirst
<1> HIDE DEF walk, D
<1>3. 0 \in E
  <2>1. Rest(0) = D
    BY <1>1, <1>2
  <2>2. {walk[a] : a \in 0 .. 0 - 1} = {}
    OBVIOUS
  <2>3. Cardinality(Rest(0)) = C - 0
    <3>1. Cardinality(Rest(0)) = C
      BY <2>1
    <3>2. C - 0 = C
      BY <1>2
    <3> QED BY <3>1, <3>2
  <2>4. D = {walk[a] : a \in 0 .. 0 - 1} \cup Rest(0)
    BY <2>1, <2>2
  <2> QED BY <2>3, <2>4
<1>4. ASSUME NEW i \in Nat, i \in E PROVE i + 1 \in E
  <2> SUFFICES ASSUME i + 1 <= C
               PROVE  /\ Cardinality(Rest(i + 1)) = C - (i + 1)
                      /\ D = {walk[a] : a \in 0 .. (i + 1) - 1} \cup Rest(i + 1)
    OBVIOUS
  <2>1. Cardinality(Rest(i)) = C - i /\ D = {walk[a] : a \in 0 .. i - 1} \cup Rest(i)
    BY <1>2, <1>4
  <2>2. IsFiniteSet(Rest(i))
    <3>1. Rest(i) \subseteq D
      OBVIOUS
    <3> QED BY <1>2, <3>1, FS_Subset
  <2>3. walk[i] \in D
    <3> SUFFICES ASSUME walk[i] = Invalid PROVE FALSE
      BY <1>1
    <3>1. \A j \in D : Less(j, walk[i])
      BY <1>2, NotInvalid, Order DEF AnyKey
    <3>2. Cardinality(Rest(i)) = 0
      BY <3>1, FS_EmptySet
    <3> QED BY <1>2, <2>1, <3>2
  <2> DEFINE k == walk[i]
  <2>4. IsNext(D, k, walk[i + 1]) /\ k \in AnyKey /\ walk[i + 1] \in AnyKey
    BY <1>1, <1>2, <2>3 DEF AnyKey
  <2>5. Rest(i + 1) = Rest(i) \ {k}
    <3>1. \A j \in D : ~Less(j, walk[i + 1]) <=> ~Less(j, k) /\ j # k
      <4> SUFFICES ASSUME NEW j \in D PROVE ~Less(j, walk[i + 1]) <=> ~Less(j, k) /\ j # k
        OBVIOUS
      <4>1. j \in AnyKey
        BY <1>2 DEF AnyKey
      <4>2. Less(j, k) => Less(j, walk[i + 1])
        BY <2>4, <4>1, Order, OrderChain DEF IsNext
      <4>3. Less(k, j) => ~Less(j, walk[i + 1])
        BY <2>4 DEF IsNext
      <4>4. j = k => Less(j, walk[i + 1])
        BY <2>4 DEF IsNext
      <4> QED BY <2>4, <4>1, <4>2, <4>3, <4>4, Order
    <3> QED BY <3>1
  <2>6. k \in Rest(i)
    BY <2>3, <2>4, Order
  <2>7. Cardinality(Rest(i) \ {k}) = Cardinality(Rest(i)) - 1
    <3> HIDE DEF k, Rest
    <3> QED BY <2>2, <2>6, FS_RemoveElement
  <2>8. 0 .. (i + 1) - 1 = (0 .. i - 1) \cup {i}
    OBVIOUS
  <2>9. {walk[a] : a \in 0 .. (i + 1) - 1} = {walk[a] : a \in 0 .. i - 1} \cup {k}
    BY <2>8
  <2> HIDE DEF Rest, k
  <2>10. D = {walk[a] : a \in 0 .. (i + 1) - 1} \cup Rest(i + 1)
    BY <2>1, <2>5, <2>6, <2>9
  <2>11. Cardinality(Rest(i + 1)) = Cardinality(Rest(i)) - 1
    BY <2>5, <2>7
  <2>12. Cardinality(Rest(i + 1)) = C - (i + 1)
    <3> HIDE DEF C
    <3> QED BY <1>2, <2>1, <2>11
  <2> QED BY <2>10, <2>12
<1>5. n \in E
  <2> HIDE DEF E
  <2> QED BY <1>3, <1>4, NatSetInduction
<1> QED BY <1>5 DEF D, walk

\* The list has every key once, in order, and every link goes to the next place.
Sorted(m, keys) ==
    /\ keys \in [1 .. Cardinality(DOMAIN m.map) -> DOMAIN m.map]
    /\ Len(keys) = Cardinality(DOMAIN m.map) /\ Len(keys) \in Nat
    /\ DOMAIN m.map = {keys[i] : i \in 1 .. Len(keys)}
    /\ Len(keys) > 0 => keys[1] = m.head
    /\ \A i \in 1 .. Len(keys) - 1 : m.map[keys[i]].next = keys[i + 1]
    /\ \A i \in 1 .. Len(keys) - 1 : Less(keys[i], keys[i + 1])
    /\ Len(keys) > 0 => m.map[keys[Len(keys)]].next = Invalid

LEMMA ListedSorted ==
  ASSUME NEW m, Linked(m)
  PROVE  Sorted(m, Listed(m))
<1> DEFINE D == DOMAIN m.map
           C == Cardinality(D)
           walk == Walk(m)
           keys == Listed(m)
<1>1. /\ walk[0] = m.head
      /\ \A i \in Nat :
            /\ walk[i] \in D \cup {Invalid}
            /\ walk[i] \in D => walk[i + 1] = m.map[walk[i]].next
  BY WalkDef
<1>2. IsFiniteSet(D) /\ D \subseteq Keys /\ C \in Nat
  BY FS_CardinalityType DEF Linked
<1>3. \A k \in D : IsNext(D, k, m.map[k].next)
  BY DEF Linked
<1>4. ASSUME NEW n \in Nat, n <= C
      PROVE  /\ Cardinality({j \in D : ~Less(j, walk[n])}) = C - n
             /\ D = {walk[i] : i \in 0 .. n - 1} \cup {j \in D : ~Less(j, walk[n])}
  BY <1>4, WalkAll
<1>5. ASSUME NEW n \in Nat, n < C PROVE walk[n] \in D
  <2> SUFFICES ASSUME walk[n] = Invalid PROVE FALSE
    BY <1>1
  <2>1. \A j \in D : Less(j, walk[n])
    BY <1>2, NotInvalid, Order DEF AnyKey
  <2>2. {j \in D : ~Less(j, walk[n])} = {}
    BY <2>1
  <2> QED BY <1>2, <1>4, <1>5, <2>2, FS_EmptySet
<1>6. {j \in D : ~Less(j, walk[C])} = {}
  <2> DEFINE R == {j \in D : ~Less(j, walk[C])}
  <2>1. R \subseteq D /\ Cardinality(R) = 0
    BY <1>2, <1>4
  <2>2. IsFiniteSet(R)
    BY <1>2, <2>1, FS_Subset
  <2> HIDE DEF R
  <2>3. R = {}
    BY <2>1, <2>2, FS_EmptySet
  <2> QED BY <2>3 DEF R
<1>7. walk[C] = Invalid
  <2>1. walk[C] \notin D
    <3> SUFFICES ASSUME walk[C] \in D PROVE FALSE
      OBVIOUS
    <3>1. ~Less(walk[C], walk[C])
      BY <1>2, Order DEF AnyKey
    <3> QED BY <1>6, <3>1
  <2> QED BY <1>1, <1>2, <2>1
<1> HIDE DEF D, C
<1>8. {n \in 1 .. C : walk[n - 1] # Invalid} = 1 .. C
  BY <1>2, <1>5, NotInvalid
<1>9. keys = [i \in 1 .. C |-> walk[i - 1]]
  BY <1>8 DEF Listed, C, D
<1> HIDE DEF keys, walk
<1>10. keys \in [1 .. C -> D] /\ Len(keys) = C /\ \A i \in 1 .. C : keys[i] = walk[i - 1]
  <2>1. \A i \in 1 .. C : walk[i - 1] \in D
    BY <1>2, <1>5
  <2>2. keys \in [1 .. C -> D]
    BY <1>9, <2>1
  <2> QED BY <1>2, <1>9, <2>2
<1>11. D = {keys[i] : i \in 1 .. C}
  <2>1. D = {walk[i] : i \in 0 .. C - 1}
    <3> DEFINE Met(n) == {walk[i] : i \in 0 .. n - 1}
               Rest(n) == {j \in D : ~Less(j, walk[n])}
    <3>1. \A n \in Nat : n <= C => D = Met(n) \cup Rest(n)
      BY <1>4
    <3>2. Rest(C) = {}
      BY <1>6
    <3> HIDE DEF Met, Rest
    <3>3. D = Met(C)
      BY <1>2, <3>1, <3>2
    <3> QED BY <3>3 DEF Met
  <2>2. \A i \in 0 .. C - 1 : i + 1 \in 1 .. C /\ keys[i + 1] = walk[i]
    BY <1>2, <1>10
  <2>3. \A i \in 1 .. C : i - 1 \in 0 .. C - 1 /\ keys[i] = walk[i - 1]
    BY <1>2, <1>10
  <2> QED BY <2>1, <2>2, <2>3
<1>12. \A i \in 1 .. C : keys[i] \in D /\ m.map[keys[i]].next = walk[i]
  <2> SUFFICES ASSUME NEW i \in 1 .. C PROVE keys[i] \in D /\ m.map[keys[i]].next = walk[i]
    OBVIOUS
  <2>1. i - 1 \in Nat /\ (i - 1) + 1 = i /\ keys[i] = walk[i - 1] /\ keys[i] \in D
    BY <1>2, <1>10
  <2> QED BY <1>1, <2>1
<1>13. \A i \in 1 .. C - 1 : m.map[keys[i]].next = keys[i + 1] /\ Less(keys[i], keys[i + 1])
  <2> SUFFICES ASSUME NEW i \in 1 .. C - 1
               PROVE  m.map[keys[i]].next = keys[i + 1] /\ Less(keys[i], keys[i + 1])
    OBVIOUS
  <2>1. i \in 1 .. C /\ i + 1 \in 1 .. C /\ (i + 1) - 1 = i
    BY <1>2
  <2>2. m.map[keys[i]].next = keys[i + 1] /\ keys[i] \in D
    BY <1>10, <1>12, <2>1
  <2> QED BY <1>3, <2>2 DEF IsNext
<1>14. C > 0 => keys[1] = m.head /\ m.map[keys[C]].next = Invalid
  BY <1>1, <1>2, <1>7, <1>10, <1>12
<1> QED BY <1>2, <1>10, <1>11, <1>13, <1>14 DEF Sorted, keys, C, D

\* Any two places of the list are in order.
LEMMA SortedOrder ==
  ASSUME NEW m, Linked(m), NEW keys, Sorted(m, keys)
  PROVE  \A i, j \in 1 .. Len(keys) : i < j => Less(keys[i], keys[j])
<1> DEFINE L == Len(keys)
           E == {j \in Nat : j \in 1 .. L => \A i \in 1 .. L : i < j => Less(keys[i], keys[j])}
<1>1. /\ L \in Nat /\ \A i \in 1 .. L : keys[i] \in AnyKey
      /\ \A i \in 1 .. L - 1 : Less(keys[i], keys[i + 1])
  BY DEF Sorted, Linked, AnyKey
<1> HIDE DEF L
<1>2. 0 \in E
  BY <1>1
<1>3. ASSUME NEW j \in Nat, j \in E PROVE j + 1 \in E
  <2> SUFFICES ASSUME j + 1 \in 1 .. L, NEW i \in 1 .. L, i < j + 1
               PROVE  Less(keys[i], keys[j + 1])
    OBVIOUS
  <2>1. j \in 1 .. L - 1 /\ j \in 1 .. L /\ Less(keys[j], keys[j + 1])
    BY <1>1
  <2>2. i = j \/ Less(keys[i], keys[j])
    BY <1>3, <2>1
  <2>3. ~Less(keys[j + 1], keys[j]) /\ (Less(keys[i], keys[j]) => ~Less(keys[j], keys[i]))
    BY <1>1, <2>1, Order
  <2> QED BY <1>1, <2>1, <2>2, <2>3, OrderChain
<1>4. Nat \subseteq E
  <2> HIDE DEF E
  <2> QED BY <1>2, <1>3, NatSetInduction
<1> QED BY <1>1, <1>4 DEF L

-----------------------------------------------------------------------------
(* Counting a value                                                        *)

\* The loop of `entry' stops before the first key that is not less.
LEMMA BeforeFinds ==
  ASSUME NEW m, Linked(m), NEW key \in Keys, key \notin DOMAIN m.map, ~Less(key, m.head)
  PROVE  /\ Before(m, key) \in DOMAIN m.map
         /\ Less(Before(m, key), key) /\ Less(key, m.map[Before(m, key)].next)
<1> DEFINE D == DOMAIN m.map
           keys == Listed(m)
           L == Len(keys)
<1>1. Sorted(m, keys)
  BY ListedSorted
<1> HIDE DEF keys
<1>2. /\ L \in Nat /\ D = {keys[i] : i \in 1 .. L} /\ D \subseteq Keys
      /\ L > 0 => keys[1] = m.head /\ m.map[keys[L]].next = Invalid
      /\ \A i \in 1 .. L - 1 : m.map[keys[i]].next = keys[i + 1]
  BY <1>1 DEF Sorted, Linked
<1>3. m.head \in D /\ Less(m.head, key)
  <2>1. key \in AnyKey /\ m.head \in D \cup {Invalid} /\ m.head \in AnyKey /\ key # Invalid
    BY <1>2, NotInvalid DEF Linked, IsFirst, AnyKey
  <2>2. m.head # Invalid
    BY <2>1, Order
  <2> QED BY <2>1, <2>2, Order
<1>4. L > 0
  BY <1>2, <1>3
<1> DEFINE Stops(n) == /\ \A i \in 1 .. n : Less(keys[i], key)
                       /\ n = L \/ ~Less(keys[n + 1], key)
<1>5. \E n \in 1 .. L : Stops(n)
  <2> DEFINE T == {n \in 1 .. L : n = L \/ ~Less(keys[n + 1], key)}
  <2>1. T \subseteq Nat /\ T # {}
    BY <1>2, <1>4
  <2> HIDE DEF T
  <2>2. PICK n \in T : \A i \in T : n <= i
    BY <2>1, LeastNumber
  <2>3. n \in 1 .. L /\ (n = L \/ ~Less(keys[n + 1], key))
    BY DEF T
  <2>4. ASSUME NEW i \in 1 .. n PROVE Less(keys[i], key)
    <3>1. CASE i = 1
      BY <1>2, <1>3, <1>4, <3>1
    <3>2. CASE i # 1
      <4>1. i - 1 \in 1 .. L /\ i - 1 < n /\ i - 1 # L /\ (i - 1) + 1 = i
        BY <1>2, <2>3, <3>2
      <4>2. i - 1 \notin T
        BY <2>2, <2>3, <4>1
      <4> QED BY <4>1, <4>2 DEF T
    <3> QED BY <3>1, <3>2
  <2> QED BY <2>3, <2>4
<1> DEFINE passed == CHOOSE n \in 1 .. L : Stops(n)
<1>6. passed \in 1 .. L /\ Stops(passed)
  BY <1>5
<1>7. Before(m, key) = keys[passed]
  BY DEF Before, keys
<1> HIDE DEF passed
<1>8. keys[passed] \in D /\ Less(keys[passed], key)
  BY <1>2, <1>6
<1>9. Less(key, m.map[keys[passed]].next)
  <2>1. CASE passed = L
    <3>1. m.map[keys[passed]].next = Invalid
      BY <1>2, <1>4, <2>1
    <3> QED BY <3>1, NotInvalid, Order DEF AnyKey
  <2>2. CASE passed # L
    <3>1. passed + 1 \in 1 .. L /\ passed \in 1 .. L - 1
      BY <1>2, <1>6, <2>2
    <3>2. keys[passed + 1] \in D /\ m.map[keys[passed]].next = keys[passed + 1]
      BY <1>2, <3>1
    <3>3. ~Less(keys[passed + 1], key) /\ keys[passed + 1] # key
      BY <1>6, <2>2, <3>2
    <3> QED BY <1>2, <3>2, <3>3, Order DEF AnyKey
  <2> QED BY <2>1, <2>2
<1> QED BY <1>7, <1>8, <1>9

\* entry makes the bucket it is asked for, at its place in the list.
LEMMA EntryLinked ==
  ASSUME NEW m, Linked(m), NEW key \in Keys
  PROVE  LET e == Entry(m, key)
         IN  /\ Linked(e) /\ DOMAIN e.map = DOMAIN m.map \cup {key}
             /\ \A k \in DOMAIN m.map : e.map[k].count = m.map[k].count
             /\ key \notin DOMAIN m.map => e.map[key].count = 0
<1> DEFINE D == DOMAIN m.map
           e == Entry(m, key)
<1>1. CASE key \in D
  <2>1. e = m
    BY <1>1 DEF Entry
  <2> QED BY <1>1, <2>1
<1>2. ASSUME key \notin D, NEW f, DOMAIN f = D \cup {key},
             f = [k \in D \cup {key} |-> [count |-> f[k].count, next |-> f[k].next]],
             f[key].count = 0, \A k \in D : f[k].count = m.map[k].count,
             NEW h, e = [head |-> h, map |-> f],
             IsFirst(D \cup {key}, h),
             \A k \in D \cup {key} : IsNext(D \cup {key}, k, f[k].next)
      PROVE  /\ Linked(e) /\ DOMAIN e.map = D \cup {key}
             /\ \A k \in D : e.map[k].count = m.map[k].count
             /\ key \notin D => e.map[key].count = 0
  <2>1. e.head = h /\ e.map = f
    BY <1>2
  <2>2. IsFiniteSet(D \cup {key}) /\ D \cup {key} \subseteq Keys
    BY FS_AddElement DEF Linked
  <2>3. \A k \in D : m.map[k].count \in Nat
    BY DEF Linked
  <2>4. \A k \in D \cup {key} : f[k].count \in Nat
    <3>1. f[key].count = 0 /\ \A k \in D : f[k].count = m.map[k].count
      BY <1>2
    <3> QED BY <2>3, <3>1
  <2> HIDE DEF e
  <2> QED BY <1>2, <2>1, <2>2, <2>4 DEF Linked
<1>3. /\ D \subseteq Keys /\ key \in AnyKey /\ key # Invalid /\ m.head \in D \cup {Invalid}
      /\ D \subseteq AnyKey /\ Invalid \in AnyKey
      /\ \A k \in D : IsNext(D, k, m.map[k].next) /\ m.map[k].next \in AnyKey
      /\ \A k \in D : ~Less(k, m.head)
  BY NotInvalid DEF Linked, IsFirst, IsNext, AnyKey
<1>4. m.map = [k \in D |-> [count |-> m.map[k].count, next |-> m.map[k].next]]
  BY DEF Linked
<1>5. CASE key \notin D /\ Less(key, m.head)
  <2> DEFINE f == With(m.map, key, [count |-> 0, next |-> m.head])
  <2>1. e = [head |-> key, map |-> f]
    BY <1>5 DEF Entry
  <2>2. /\ f = [k \in D \cup {key} |-> f[k]] /\ DOMAIN f = D \cup {key}
        /\ f[key] = [count |-> 0, next |-> m.head]
        /\ \A k \in D : f[k] = m.map[k]
    BY <1>5 DEF With
  <2> HIDE DEF f, e
  <2>3. \A k \in D : m.map[k] = [count |-> m.map[k].count, next |-> m.map[k].next]
    BY <1>4
  <2>4. /\ f = [k \in D \cup {key} |-> [count |-> f[k].count, next |-> f[k].next]]
        /\ f[key].count = 0 /\ \A k \in D : f[k].count = m.map[k].count
    <3>1. \A k \in D : f[k] = [count |-> f[k].count, next |-> f[k].next]
      BY <2>2, <2>3
    <3>2. f[key] = [count |-> f[key].count, next |-> f[key].next] /\ f[key].count = 0
      BY <2>2
    <3>3. \A k \in D \cup {key} : f[k] = [count |-> f[k].count, next |-> f[k].next]
      BY <3>1, <3>2
    <3> QED BY <2>2, <3>2, <3>3
  <2>5. \A j \in D : Less(key, j)
    BY <1>3, <1>5, OrderChain DEF AnyKey
  <2>6. IsFirst(D \cup {key}, key)
    BY <1>3, <2>5, Order DEF IsFirst
  <2>7. IsNext(D \cup {key}, key, f[key].next)
    BY <1>3, <1>5, <2>2, Order DEF IsNext
  <2>8. ASSUME NEW k \in D PROVE IsNext(D \cup {key}, k, f[k].next)
    <3>1. ~Less(k, key) /\ f[k].next = m.map[k].next /\ IsNext(D, k, m.map[k].next)
      BY <1>3, <2>2, <2>5, Order
    <3> QED BY <3>1 DEF IsNext
  <2> QED BY <1>2, <1>5, <2>1, <2>2, <2>4, <2>6, <2>7, <2>8 DEF e
<1>6. CASE key \notin D /\ ~Less(key, m.head)
  <2> DEFINE p == Before(m, key)
             linked == [m.map EXCEPT ![p].next = key]
             f == With(linked, key, [count |-> 0, next |-> m.map[p].next])
  <2>1. p \in D /\ Less(p, key) /\ Less(key, m.map[p].next)
    BY <1>6, BeforeFinds
  <2>2. e = [head |-> m.head, map |-> f]
    <3>1. e = [m EXCEPT !.map = f]
      BY <1>6 DEF Entry
    <3>2. m = [head |-> m.head, map |-> m.map]
      BY DEF Linked
    <3> HIDE DEF f, e
    <3> QED BY <3>1, <3>2
  <2> HIDE DEF p
  <2>3. \A k \in D : m.map[k] = [count |-> m.map[k].count, next |-> m.map[k].next]
    BY <1>4
  <2>4. /\ DOMAIN linked = D
        /\ linked[p] = [count |-> m.map[p].count, next |-> key]
        /\ \A k \in D \ {p} : linked[k] = m.map[k]
    <3>1. linked = [k \in D |-> IF k = p THEN [m.map[p] EXCEPT !.next = key] ELSE m.map[k]]
      BY <1>4
    <3>2. [m.map[p] EXCEPT !.next = key] = [count |-> m.map[p].count, next |-> key]
      <4>1. PICK r : r = m.map[p]
        OBVIOUS
      <4>2. r = [count |-> r.count, next |-> r.next]
        BY <2>1, <2>3, <4>1
      <4>3. [r EXCEPT !.next = key] = [count |-> r.count, next |-> key]
        BY <4>2
      <4> QED BY <4>1, <4>3
    <3> HIDE DEF linked
    <3> QED BY <2>1, <3>1, <3>2
  <2> HIDE DEF linked
  <2>5. /\ f = [k \in D \cup {key} |-> f[k]] /\ DOMAIN f = D \cup {key}
        /\ f[key] = [count |-> 0, next |-> m.map[p].next]
        /\ \A k \in D : f[k] = linked[k]
    BY <1>6, <2>4 DEF With
  <2> HIDE DEF f, e
  <2>6. /\ f = [k \in D \cup {key} |-> [count |-> f[k].count, next |-> f[k].next]]
        /\ f[key].count = 0 /\ \A k \in D : f[k].count = m.map[k].count
    <3>1. \A k \in D \ {p} : f[k] = [count |-> f[k].count, next |-> f[k].next]
                              /\ f[k].count = m.map[k].count
      BY <2>3, <2>4, <2>5
    <3>2. f[p] = [count |-> f[p].count, next |-> f[p].next] /\ f[p].count = m.map[p].count
      BY <2>1, <2>4, <2>5
    <3>3. f[key] = [count |-> f[key].count, next |-> f[key].next] /\ f[key].count = 0
      BY <2>5
    <3>4. \A k \in D \cup {key} : f[k] = [count |-> f[k].count, next |-> f[k].next]
      BY <3>1, <3>2, <3>3
    <3> QED BY <2>5, <3>1, <3>2, <3>3, <3>4
  <2>7. IsFirst(D \cup {key}, m.head)
    BY <1>3, <1>6 DEF IsFirst
  <2>8. \A j \in D : Less(p, j) <=> Less(key, j)
    <3> SUFFICES ASSUME NEW j \in D PROVE Less(p, j) <=> Less(key, j)
      OBVIOUS
    <3>1. j \in AnyKey /\ p \in AnyKey /\ m.map[p].next \in AnyKey
      BY <1>3, <2>1
    <3>2. Less(p, j) => ~Less(j, m.map[p].next)
      BY <1>3, <2>1 DEF IsNext
    <3>3. Less(p, j) => Less(key, j)
      BY <1>3, <2>1, <3>1, <3>2, Order, OrderChain
    <3>4. Less(key, j) => Less(p, j)
      BY <1>3, <2>1, <3>1, Order, OrderChain
    <3> QED BY <3>3, <3>4
  <2>9. IsNext(D \cup {key}, key, f[key].next)
    <3>1. f[key].next = m.map[p].next /\ IsNext(D, p, m.map[p].next)
      BY <1>3, <2>1, <2>5
    <3> QED BY <1>3, <2>1, <2>8, <3>1, Order DEF IsNext
  <2>10. IsNext(D \cup {key}, p, f[p].next)
    <3>1. f[p].next = key
      BY <2>1, <2>4, <2>5
    <3>2. \A j \in D : Less(p, j) => ~Less(j, key)
      BY <1>3, <2>8, Order
    <3> QED BY <1>3, <2>1, <3>1, <3>2, Order DEF IsNext
  <2>11. ASSUME NEW k \in D \ {p} PROVE IsNext(D \cup {key}, k, f[k].next)
    <3> DEFINE n == m.map[k].next
    <3>1. f[k].next = n /\ IsNext(D, k, n) /\ n \in AnyKey /\ k \in AnyKey /\ p \in AnyKey
      BY <1>3, <2>1, <2>4, <2>5
    <3> HIDE DEF n
    <3>2. Less(k, key) => ~Less(key, n)
      <4> SUFFICES ASSUME Less(k, key) PROVE ~Less(key, n)
        OBVIOUS
      <4>1. ~Less(p, k)
        BY <1>3, <2>8, <3>1, Order
      <4>2. Less(k, p)
        BY <3>1, <4>1, Order
      <4>3. ~Less(p, n)
        BY <2>1, <3>1, <4>2 DEF IsNext
      <4>4. Less(n, key)
        BY <1>3, <2>1, <3>1, <4>3, Order, OrderChain
      <4> QED BY <1>3, <3>1, <4>4, Order
    <3> QED BY <3>1, <3>2 DEF IsNext
  <2> QED BY <1>2, <1>6, <2>2, <2>5, <2>6, <2>7, <2>9, <2>10, <2>11 DEF e
<1> QED BY <1>1, <1>5, <1>6

\* The buckets m count cnt[k] times the key k, and there are no others.
Holds(m, cnt) ==
    /\ Linked(m) /\ cnt \in [Keys -> Nat]
    /\ \A k \in Keys : k \in DOMAIN m.map <=> cnt[k] > 0
    /\ \A k \in DOMAIN m.map : m.map[k].count = cnt[k]

LEMMA EmptyHolds == Holds(Empty, [k \in Keys |-> 0])
<1>1. Empty.head = Invalid /\ DOMAIN Empty.map = {} /\ Empty.map = [k \in {} |-> {}]
  BY DEF Empty
<1>2. Empty = [head |-> Empty.head, map |-> Empty.map]
  BY DEF Empty
<1>3. Empty.map = [k \in {} |-> [count |-> Empty.map[k].count, next |-> Empty.map[k].next]]
  BY <1>1
<1>4. Linked(Empty)
  BY <1>1, <1>2, <1>3, FS_EmptySet DEF Linked, IsFirst
<1> QED BY <1>1, <1>4 DEF Holds

LEMMA IncreasedHolds ==
  ASSUME NEW m, NEW cnt, Holds(m, cnt), NEW key \in Keys, NEW n \in Nat \ {0}
  PROVE  Holds(Increased(m, key, n), [cnt EXCEPT ![key] = @ + n])
<1> DEFINE D == DOMAIN m.map
           e == Entry(m, key)
           i == Increased(m, key, n)
           c == [cnt EXCEPT ![key] = @ + n]
<1>1. /\ Linked(e) /\ DOMAIN e.map = D \cup {key}
      /\ \A k \in D : e.map[k].count = m.map[k].count
      /\ key \notin D => e.map[key].count = 0
  BY EntryLinked DEF Holds
<1>2. i = [e EXCEPT !.map[key].count = @ + n]
  BY DEF Increased
<1> HIDE DEF e, i
<1>3. /\ e = [head |-> e.head, map |-> e.map]
      /\ e.map = [k \in D \cup {key} |-> [count |-> e.map[k].count, next |-> e.map[k].next]]
      /\ \A k \in D \cup {key} : e.map[k].count \in Nat
  BY <1>1 DEF Linked
<1> DEFINE f == [k \in D \cup {key} |->
                   [count |-> IF k = key THEN e.map[k].count + n ELSE e.map[k].count,
                    next |-> e.map[k].next]]
<1>4. i = [head |-> e.head, map |-> f]
  <2>1. i = [head |-> e.head, map |-> [e.map EXCEPT ![key].count = @ + n]]
    BY <1>2, <1>3
  <2>2. [e.map EXCEPT ![key].count = @ + n] = f
    <3>1. e.map[key] = [count |-> e.map[key].count, next |-> e.map[key].next]
      BY <1>3
    <3>2. [e.map[key] EXCEPT !.count = @ + n] = f[key]
      BY <3>1
    <3>3. \A k \in D : k # key => e.map[k] = f[k]
      BY <1>3
    <3>4. DOMAIN f = D \cup {key} /\ f = [k \in D \cup {key} |-> f[k]]
      OBVIOUS
    <3> HIDE DEF f
    <3> QED BY <1>1, <1>3, <3>2, <3>3, <3>4
  <2> QED BY <2>1, <2>2
<1>5. /\ i.head = e.head /\ i.map = f /\ DOMAIN f = D \cup {key}
      /\ i = [head |-> i.head, map |-> i.map]
      /\ \A k \in D \cup {key} : f[k].next = e.map[k].next
      /\ \A k \in D : k # key => f[k].count = e.map[k].count
      /\ f[key].count = e.map[key].count + n
  BY <1>4
<1>6. f = [k \in D \cup {key} |-> [count |-> f[k].count, next |-> f[k].next]]
  OBVIOUS
<1> HIDE DEF f
<1>7. \A k \in D \cup {key} : f[k].count \in Nat
  <2>1. f[key].count \in Nat
    <3>1. e.map[key].count \in Nat
      BY <1>3
    <3> QED BY <1>5, <3>1
  <2> QED BY <1>3, <1>5, <2>1
<1>8. Linked(i)
  BY <1>1, <1>5, <1>6, <1>7 DEF Linked
<1>9. c \in [Keys -> Nat] /\ c[key] = cnt[key] + n /\ \A k \in Keys \ {key} : c[k] = cnt[k]
  BY DEF Holds
<1>10. /\ cnt \in [Keys -> Nat]
       /\ \A k \in Keys : k \in D <=> cnt[k] > 0
       /\ \A k \in D : m.map[k].count = cnt[k]
  BY DEF Holds
<1> HIDE DEF c
<1>11. \A k \in Keys : k \in D \cup {key} <=> c[k] > 0
  BY <1>9, <1>10
<1>12. f[key].count = c[key]
  <2>1. key \notin D => cnt[key] = 0
    BY <1>10
  <2>2. e.map[key].count = cnt[key]
    BY <1>1, <1>10, <2>1
  <2> QED BY <1>5, <1>9, <2>2
<1>13. \A k \in D : k # key => f[k].count = c[k]
  <2>1. D \subseteq Keys
    BY DEF Holds, Linked
  <2> QED BY <1>1, <1>5, <1>9, <1>10, <2>1
<1>14. Holds(i, c)
  BY <1>5, <1>8, <1>9, <1>11, <1>12, <1>13 DEF Holds
<1> QED BY <1>14 DEF i, c

-----------------------------------------------------------------------------
(* A compaction                                                            *)

\* The link of a new bucket goes to the next new bucket: as no three keys become
\* one, it is enough to look past one key.
LEMMA NewNextIsNext ==
  ASSUME NEW m, Linked(m), NEW j \in DOMAIN m.map
  PROVE  IsNext({CompactKey(i) : i \in DOMAIN m.map}, CompactKey(j), NewNext(m, j))
<1> DEFINE D == DOMAIN m.map
           D2 == {CompactKey(i) : i \in D}
<1>1. /\ D \subseteq AnyKey /\ D \subseteq Keys /\ Invalid \in AnyKey /\ Invalid \notin D
      /\ \A k \in D : IsNext(D, k, m.map[k].next)
      /\ \A k \in AnyKey : CompactKey(k) \in AnyKey
      /\ \A k \in D : CompactKey(k) # Invalid
      /\ CompactKey(Invalid) = Invalid
  BY NotInvalid, CompactKeyType DEF Linked, AnyKey
<1>2. ASSUME NEW n \in D \cup {Invalid}, Less(j, n), CompactKey(n) # CompactKey(j),
             \A i \in D : Less(j, i) /\ CompactKey(i) # CompactKey(j) => ~Less(i, n)
      PROVE  IsNext(D2, CompactKey(j), CompactKey(n))
  <2>1. CompactKey(n) \in D2 \cup {Invalid}
    BY <1>1
  <2>2. Less(CompactKey(j), CompactKey(n))
    BY <1>1, <1>2, CompactKeyOrder, Order
  <2>3. ASSUME NEW i \in D, Less(CompactKey(j), CompactKey(i)) PROVE ~Less(CompactKey(i), CompactKey(n))
    <3>1. i # j /\ ~Less(i, j) /\ CompactKey(i) # CompactKey(j)
      BY <1>1, <2>3, CompactKeyOrder, Order
    <3>2. Less(j, i)
      BY <1>1, <3>1, Order
    <3>3. ~Less(i, n)
      BY <1>2, <3>1, <3>2
    <3>4. i = n \/ Less(n, i)
      BY <1>1, <3>3, Order
    <3> QED BY <1>1, <3>4, CompactKeyOrder, Order
  <2> QED BY <2>1, <2>2, <2>3 DEF IsNext
<1> DEFINE n == m.map[j].next
<1>3. IsNext(D, j, n) /\ n \in D \cup {Invalid} /\ Less(j, n) /\ \A i \in D : Less(j, i) => ~Less(i, n)
  BY <1>1 DEF IsNext
<1>4. NewNext(m, j) = IF CompactKey(n) = CompactKey(j) THEN CompactKey(m.map[n].next) ELSE CompactKey(n)
  BY DEF NewNext
<1> HIDE DEF n
<1>5. CASE CompactKey(n) # CompactKey(j)
  BY <1>2, <1>3, <1>4, <1>5
<1>6. CASE CompactKey(n) = CompactKey(j)
  <2> DEFINE o == m.map[n].next
  <2>1. n \in D
    BY <1>1, <1>3, <1>6
  <2>2. o \in D \cup {Invalid} /\ Less(n, o) /\ \A i \in D : Less(n, i) => ~Less(i, o)
    BY <1>1, <2>1 DEF IsNext
  <2> HIDE DEF o
  <2>3. CompactKey(o) # CompactKey(j)
    <3>1. j \in AnyKey /\ n \in AnyKey /\ o \in AnyKey
      BY <1>1, <2>1, <2>2
    <3> QED BY <1>3, <1>6, <2>2, <3>1, CompactKeyOrder
  <2>4. Less(j, o)
    BY <1>1, <1>3, <2>1, <2>2, Order, OrderChain
  <2>5. ASSUME NEW i \in D, Less(j, i), CompactKey(i) # CompactKey(j) PROVE ~Less(i, o)
    <3>1. Less(n, i)
      BY <1>1, <1>3, <1>6, <2>1, <2>5, Order
    <3> QED BY <2>2, <3>1
  <2> QED BY <1>2, <1>4, <1>6, <2>2, <2>3, <2>4, <2>5 DEF o
<1> QED BY <1>5, <1>6

\* The sums of the counts of the old keys are the counts of the new ones.
LEMMA CompactHolds ==
  ASSUME NEW m, NEW cnt, Holds(m, cnt), NEW sum \in [Keys -> Nat],
         \A k \in Keys : sum[k] = SumOver(cnt, {j \in DOMAIN m.map : CompactKey(j) = k})
  PROVE  Holds(Compact(m), sum)
<1> DEFINE D == DOMAIN m.map
           D2 == {CompactKey(j) : j \in D}
           keys == Listed(m)
           count == [j \in D |-> m.map[j].count]
           Old(k) == {j \in D : CompactKey(j) = k}
           IsNew(k, i) == /\ CompactKey(keys[i]) = k
                          /\ \A j \in 1 .. i - 1 : CompactKey(keys[j]) # k
           First(k) == CHOOSE i \in DOMAIN keys : IsNew(k, i)
           f == [k \in D2 |-> [count |-> SumOver(count, Old(k)), next |-> NewNext(m, keys[First(k)])]]
           z == Compact(m)
<1>1. /\ Linked(m) /\ cnt \in [Keys -> Nat]
      /\ \A k \in Keys : k \in D <=> cnt[k] > 0
      /\ \A k \in D : m.map[k].count = cnt[k]
  BY DEF Holds
<1>2. Sorted(m, keys)
  BY <1>1, ListedSorted
<1>3. IsFiniteSet(D) /\ D \subseteq Keys /\ D \subseteq AnyKey /\ IsFirst(D, m.head)
  BY <1>1 DEF Linked, AnyKey
<1>4. D = {keys[i] : i \in DOMAIN keys} /\ DOMAIN keys \subseteq Nat
      /\ \A i \in DOMAIN keys : \A j \in 1 .. i - 1 : j \in DOMAIN keys
  <2>1. DOMAIN keys = 1 .. Len(keys) /\ Len(keys) \in Nat
    BY <1>2 DEF Sorted
  <2>2. D = {keys[i] : i \in DOMAIN keys}
    BY <1>2, <2>1 DEF Sorted
  <2>3. \A i \in DOMAIN keys : \A j \in 1 .. i - 1 : j \in DOMAIN keys
    BY <2>1
  <2> QED BY <2>1, <2>2, <2>3
<1>5. z = [head |-> CompactKey(m.head), map |-> f]
  BY <1>4 DEF Compact
<1> HIDE DEF keys, z
<1>6. \A k \in D2 : First(k) \in DOMAIN keys /\ keys[First(k)] \in D /\ CompactKey(keys[First(k)]) = k
  <2> SUFFICES ASSUME NEW k \in D2 PROVE \E i \in DOMAIN keys : IsNew(k, i)
    <3>1. \A i \in DOMAIN keys : keys[i] \in D
      BY <1>4
    <3> QED BY <3>1
  <2> DEFINE T == {i \in DOMAIN keys : CompactKey(keys[i]) = k}
  <2>1. T \subseteq Nat /\ T # {}
    BY <1>4
  <2> HIDE DEF T
  <2>2. PICK i \in T : \A j \in T : i <= j
    BY <2>1, LeastNumber
  <2>3. i \in DOMAIN keys /\ i \in Nat /\ CompactKey(keys[i]) = k
    BY <1>4, <2>2 DEF T
  <2>4. ASSUME NEW j \in 1 .. i - 1 PROVE CompactKey(keys[j]) # k
    <3>1. j \in DOMAIN keys /\ j < i
      BY <1>4, <2>3
    <3>2. j \notin T
      BY <2>2, <2>3, <3>1
    <3> QED BY <3>1, <3>2 DEF T
  <2> QED BY <2>3, <2>4
<1> HIDE DEF First
<1>7. /\ z.head = CompactKey(m.head) /\ z.map = f /\ DOMAIN f = D2
      /\ z = [head |-> z.head, map |-> z.map]
      /\ \A k \in D2 : f[k].count = SumOver(count, Old(k)) /\ f[k].next = NewNext(m, keys[First(k)])
  BY <1>5
<1>8. f = [k \in D2 |-> [count |-> f[k].count, next |-> f[k].next]]
  OBVIOUS
<1> HIDE DEF f
<1>9. ASSUME NEW k \in D2 PROVE IsNext(D2, k, f[k].next)
  <2>1. PICK j : j = keys[First(k)]
    OBVIOUS
  <2>2. j \in D /\ CompactKey(j) = k /\ f[k].next = NewNext(m, j)
    BY <1>6, <1>7, <2>1
  <2>3. IsNext(D2, CompactKey(j), NewNext(m, j))
    BY <1>1, <2>2, NewNextIsNext
  <2> QED BY <2>2, <2>3
<1>10. IsFiniteSet(D2) /\ D2 \subseteq Keys
  <2>1. IsFiniteSet(D2)
    <3> DEFINE g == [j \in D |-> CompactKey(j)]
    <3>1. g \in Surjection(D, D2)
      BY DEF Surjection
    <3> HIDE DEF g
    <3> QED BY <1>3, <3>1, FS_Surjection
  <2> QED BY <1>3, <2>1, CompactKeyType
<1>11. IsFirst(D2, CompactKey(m.head))
  <2>1. m.head \in D \cup {Invalid} /\ m.head \in AnyKey /\ \A k \in D : ~Less(k, m.head)
    BY <1>3 DEF IsFirst, AnyKey
  <2>2. CompactKey(m.head) \in D2 \cup {Invalid} /\ CompactKey(m.head) \in AnyKey
    BY <2>1, CompactKeyType DEF AnyKey
  <2>3. ASSUME NEW k \in D PROVE ~Less(CompactKey(k), CompactKey(m.head))
    <3>1. k = m.head \/ Less(m.head, k)
      BY <1>3, <2>1, Order
    <3> QED BY <1>3, <2>1, <2>2, <3>1, CompactKeyOrder, Order
  <2> QED BY <2>2, <2>3 DEF IsFirst
<1>12. \A k \in D2 : f[k].count = sum[k]
  <2> SUFFICES ASSUME NEW k \in D2 PROVE f[k].count = sum[k]
    OBVIOUS
  <2>1. IsFiniteSet(Old(k)) /\ \A j \in Old(k) : count[j] = cnt[j] /\ count[j] \in Int
    <3>1. Old(k) \subseteq D
      OBVIOUS
    <3>2. \A j \in D : count[j] = cnt[j] /\ cnt[j] \in Nat
      BY <1>1, <1>3
    <3>3. IsFiniteSet(Old(k))
      BY <1>3, <3>1, FS_Subset
    <3> HIDE DEF Old, count
    <3> QED BY <3>1, <3>2, <3>3
  <2> DEFINE O == Old(k)
  <2>2. sum[k] = SumOver(cnt, O) /\ f[k].count = SumOver(count, O)
    BY <1>7, <1>10
  <2>3. IsFiniteSet(O) /\ (\A j \in O : count[j] \in Int) /\ (\A j \in O : count[j] = cnt[j])
    BY <2>1
  <2> HIDE DEF O, count
  <2> QED BY <2>2, <2>3, SumSame
<1>13. \A k \in Keys : k \in D2 <=> sum[k] > 0
  <2> SUFFICES ASSUME NEW k \in Keys PROVE k \in D2 <=> sum[k] > 0
    OBVIOUS
  <2> DEFINE O == Old(k)
  <2>1. IsFiniteSet(O) /\ \A j \in O : cnt[j] \in Nat /\ cnt[j] > 0
    <3>1. O \subseteq D
      OBVIOUS
    <3>2. IsFiniteSet(O)
      BY <1>3, <3>1, FS_Subset
    <3>3. \A j \in D : cnt[j] \in Nat /\ cnt[j] > 0
      BY <1>1, <1>3
    <3> QED BY <3>1, <3>2, <3>3
  <2>2. sum[k] = SumOver(cnt, O) /\ (k \in D2 <=> O # {})
    OBVIOUS
  <2> HIDE DEF O
  <2>3. \A j \in O : cnt[j] \in Int
    BY <2>1
  <2>4. O = {} => SumOver(cnt, O) = 0
    BY <2>1, <2>3, SumType
  <2>5. SumOver(cnt, O) \in Nat /\ \A j \in O : cnt[j] <= SumOver(cnt, O)
    BY <2>1, SumNat
  <2>6. O # {} => SumOver(cnt, O) > 0
    <3> SUFFICES ASSUME NEW j \in O PROVE SumOver(cnt, O) > 0
      OBVIOUS
    <3> QED BY <2>1, <2>5
  <2> QED BY <2>2, <2>4, <2>6
<1>14. Linked(z)
  <2>1. \A k \in D2 : f[k].count \in Nat
    BY <1>10, <1>12
  <2> HIDE DEF D2
  <2> QED BY <1>7, <1>8, <1>9, <1>10, <1>11, <2>1 DEF Linked
<1>15. Holds(z, sum)
  BY <1>7, <1>12, <1>13, <1>14 DEF Holds
<1> QED BY <1>15 DEF z

-----------------------------------------------------------------------------
(* The counts of the values                                                *)

\* How many of the values that were added belong to each key, after c compactions.
Counted(a, c) == [k \in Keys |-> SumOver(a, {v \in Values : KeyOf(v, c) = k})]

\* The counts of several keys are the count of the values that belong to them.
LEMMA Regroup ==
  ASSUME NEW a \in [Values -> Nat], NEW c \in Nat, NEW J, J \subseteq Keys, IsFiniteSet(J)
  PROVE  /\ Counted(a, c) \in [Keys -> Nat]
         /\ SumOver(Counted(a, c), J) = SumOver(a, {v \in Values : KeyOf(v, c) \in J})
<1> DEFINE V(T) == {v \in Values : KeyOf(v, c) \in T}
           In(k) == {v \in Values : KeyOf(v, c) = k}
           f == Counted(a, c)
           P == {T \in SUBSET J : SumOver(f, T) = SumOver(a, V(T))}
<1>1. \A T \in SUBSET Values : IsFiniteSet(T) /\ \A v \in T : a[v] \in Nat /\ a[v] \in Int
  BY SketchAssumption, FS_Subset
<1>2. f \in [Keys -> Nat] /\ \A k \in Keys : f[k] = SumOver(a, In(k))
  <2>1. ASSUME NEW k \in Keys PROVE SumOver(a, In(k)) \in Nat
    <3> DEFINE S == In(k)
    <3>1. IsFiniteSet(S) /\ \A v \in S : a[v] \in Nat
      BY <1>1
    <3> HIDE DEF S
    <3>2. SumOver(a, S) \in Nat
      BY <3>1, SumNat
    <3> QED BY <3>2 DEF S
  <2>2. f = [k \in Keys |-> SumOver(a, In(k))]
    BY DEF Counted
  <2> HIDE DEF f
  <2> QED BY <2>1, <2>2
<1> HIDE DEF f
<1>3. \A T \in SUBSET J : IsFiniteSet(T) /\ T \subseteq Keys /\ \A k \in T : f[k] \in Int
  BY <1>2, FS_Subset
<1>4. {} \in P
  <2>1. V({}) = {}
    OBVIOUS
  <2>2. SumOver(f, {}) = 0 /\ SumOver(a, {}) = 0
    BY SumType, FS_EmptySet
  <2> QED BY <2>1, <2>2
<1>5. ASSUME NEW T \in SUBSET J, NEW x \in J \ T, T \in P PROVE T \cup {x} \in P
  <2> DEFINE A == V(T)
             B == In(x)
  <2>1. V(T \cup {x}) = A \cup B /\ A \cap B = {} /\ A \in SUBSET Values /\ B \in SUBSET Values
    OBVIOUS
  <2>2. SumOver(f, T) = SumOver(a, A) /\ f[x] = SumOver(a, B)
    BY <1>2, <1>5
  <2> HIDE DEF A, B, V, In
  <2>3. IsFiniteSet(A) /\ IsFiniteSet(B) /\ \A v \in A \cup B : a[v] \in Int
    BY <1>1, <2>1
  <2>4. SumOver(a, A \cup B) = SumOver(a, A) + SumOver(a, B)
    BY <2>1, <2>3, SumUnion
  <2>5. IsFiniteSet(T) /\ (\A k \in T : f[k] \in Int) /\ x \notin T /\ f[x] \in Int
    BY <1>2, <1>3
  <2>6. SumOver(f, T \cup {x}) = SumOver(f, T) + f[x]
    BY <2>5, SumAdd
  <2> QED BY <2>1, <2>2, <2>4, <2>6
<1>6. J \in P
  <2> HIDE DEF P
  <2>1. SUBSET J \subseteq P
    BY <1>4, <1>5, SubsetInduction
  <2> QED BY <2>1
<1> QED BY <1>2, <1>6 DEF f

\* A bucket counts as often as each of its values was added, at least.
LEMMA CountedValue ==
  ASSUME NEW a \in [Values -> Nat], NEW c \in Nat, NEW v \in Values
  PROVE  KeyOf(v, c) \in Keys /\ a[v] <= Counted(a, c)[KeyOf(v, c)]
<1> DEFINE S == {w \in Values : KeyOf(w, c) = KeyOf(v, c)}
<1>1. KeyOf(v, c) \in Keys
  BY KeyOfType, SketchAssumption
<1>2. IsFiniteSet(S) /\ (\A w \in S : a[w] \in Nat) /\ v \in S
  BY SketchAssumption, FS_Subset
<1>3. Counted(a, c)[KeyOf(v, c)] = SumOver(a, S)
  BY <1>1 DEF Counted
<1> HIDE DEF S
<1>4. \A w \in S : a[w] <= SumOver(a, S)
  BY <1>2, SumNat
<1> QED BY <1>1, <1>2, <1>3, <1>4

\* A compaction brings together what belongs together after it.
LEMMA CountedNext ==
  ASSUME NEW a \in [Values -> Nat], NEW c \in 0 .. MaxRounds, NEW m, Holds(m, Counted(a, c))
  PROVE  Holds(Compact(m), Counted(a, NextRound(c)))
<1> DEFINE D == DOMAIN m.map
           f == Counted(a, c)
           n == NextRound(c)
<1>1. c \in Nat /\ n \in Nat /\ \A v \in Values : KeyOf(v, n) = CompactKey(KeyOf(v, c))
  BY KeyOfNext, SketchAssumption DEF NextRound
<1>2. IsFiniteSet(D) /\ D \subseteq Keys
  BY DEF Holds, Linked
<1>3. \A v \in Values : KeyOf(v, c) \notin D => a[v] = 0
  <2> SUFFICES ASSUME NEW v \in Values, KeyOf(v, c) \notin D PROVE a[v] = 0
    OBVIOUS
  <2>1. KeyOf(v, c) \in Keys /\ a[v] <= f[KeyOf(v, c)] /\ a[v] \in Nat
    BY <1>1, CountedValue
  <2>2. f[KeyOf(v, c)] \in Nat /\ ~(f[KeyOf(v, c)] > 0)
    BY <2>1 DEF Holds
  <2> QED BY <2>1, <2>2
<1>4. ASSUME NEW k \in Keys
      PROVE  Counted(a, n)[k] = SumOver(f, {j \in D : CompactKey(j) = k})
  <2> DEFINE J == {j \in D : CompactKey(j) = k}
             A == {v \in Values : KeyOf(v, c) \in J}
             B == {v \in Values : KeyOf(v, n) = k}
             E == B \ A
  <2>1. J \subseteq Keys /\ IsFiniteSet(J)
    BY <1>2, FS_Subset
  <2>2. Counted(a, n)[k] = SumOver(a, B)
    BY DEF Counted
  <2>3. A \cup E = B /\ A \cap E = {} /\ A \subseteq Values /\ E \subseteq Values
    BY <1>1
  <2>4. \A v \in E : a[v] = 0
    BY <1>1, <1>3
  <2> HIDE DEF J, f
  <2>5. SumOver(f, J) = SumOver(a, A)
    BY <1>1, <2>1, Regroup DEF f
  <2> HIDE DEF A, B, E
  <2>6. IsFiniteSet(A) /\ IsFiniteSet(E) /\ (\A v \in A \cup E : a[v] \in Int) /\ \A v \in E : a[v] \in Nat
    BY <2>3, SketchAssumption, FS_Subset
  <2>7. SumOver(a, A \cup E) = SumOver(a, A) + SumOver(a, E)
    BY <2>3, <2>6, SumUnion
  <2>8. SumOver(a, E) = 0
    BY <2>4, <2>6, SumNat
  <2>9. SumOver(a, A) \in Int
    <3>1. \A v \in A : a[v] \in Int
      BY <2>6
    <3> QED BY <2>6, <3>1, SumType
  <2>10. Counted(a, n)[k] = SumOver(f, J)
    BY <2>2, <2>3, <2>5, <2>7, <2>8, <2>9
  <2> QED BY <2>10 DEF J
<1>5. Counted(a, n) \in [Keys -> Nat]
  <2>1. {} \subseteq Keys /\ IsFiniteSet({})
    BY FS_EmptySet
  <2> QED BY <1>1, <2>1, Regroup
<1> HIDE DEF n, f
<1>6. Holds(m, f)
  BY DEF f
<1> QED BY <1>4, <1>5, <1>6, CompactHolds DEF n

-----------------------------------------------------------------------------
(* Sketches                                                                *)

\* The sketch s holds each value v as often as a says: a[v] times.
SketchOf(s, a) ==
    /\ s = [buckets |-> s.buckets, compactions |-> s.compactions, num |-> s.num]
    /\ s.compactions \in 0 .. MaxRounds
    /\ a \in [Values -> Nat] /\ s.num = SumOver(a, Values)
    /\ Holds(s.buckets, Counted(a, s.compactions))

NoneAdded == [v \in Values |-> 0]

\* An operation writes the buckets and one other field.
LEMMA FieldsUpdated ==
  ASSUME NEW s, s = [buckets |-> s.buckets, compactions |-> s.compactions, num |-> s.num],
         NEW b, NEW n
  PROVE  /\ [s EXCEPT !.buckets = b, !.num = n]
            = [buckets |-> b, compactions |-> s.compactions, num |-> n]
         /\ [s EXCEPT !.buckets = b, !.compactions = n]
            = [buckets |-> b, compactions |-> n, num |-> s.num]
<1> DEFINE t == [s EXCEPT !.buckets = b]
<1>1. t = [buckets |-> b, compactions |-> s.compactions, num |-> s.num]
  OBVIOUS
<1>2. /\ [s EXCEPT !.buckets = b, !.num = n] = [t EXCEPT !.num = n]
      /\ [s EXCEPT !.buckets = b, !.compactions = n] = [t EXCEPT !.compactions = n]
  OBVIOUS
<1> HIDE DEF t
<1>3. /\ [t EXCEPT !.num = n] = [buckets |-> b, compactions |-> s.compactions, num |-> n]
      /\ [t EXCEPT !.compactions = n] = [buckets |-> b, compactions |-> n, num |-> s.num]
  BY <1>1
<1> QED BY <1>2, <1>3

\* A new sketch holds nothing.
LEMMA NewSketch == SketchOf(New, NoneAdded)
<1>1. /\ New.buckets = Empty /\ New.compactions = 0 /\ New.num = 0
      /\ New = [buckets |-> New.buckets, compactions |-> New.compactions, num |-> New.num]
  BY DEF New
<1>2. NoneAdded \in [Values -> Nat] /\ \A v \in Values : NoneAdded[v] = 0
  BY DEF NoneAdded
<1> DEFINE a == NoneAdded
<1> HIDE DEF a
<1>3. \A S \in SUBSET Values : SumOver(a, S) = 0
  <2> SUFFICES ASSUME NEW S \in SUBSET Values PROVE SumOver(a, S) = 0
    OBVIOUS
  <2>1. IsFiniteSet(S) /\ (\A v \in S : a[v] \in Nat) /\ (\A v \in S : a[v] = 0)
    BY <1>2, SketchAssumption, FS_Subset DEF a
  <2> QED BY <2>1, SumNat
<1>4. Counted(a, 0) = [k \in Keys |-> 0]
  BY <1>3 DEF Counted
<1> QED BY <1>1, <1>2, <1>3, <1>4, EmptyHolds, SketchAssumption DEF SketchOf, a

\* add_value: one value more, in its bucket.
LEMMA ValueAdded ==
  ASSUME NEW s, NEW a, SketchOf(s, a), NEW v \in Values
  PROVE  SketchOf(WithValue(s, v), [a EXCEPT ![v] = @ + 1])
<1> DEFINE c == s.compactions
           key == KeyOf(v, c)
           b == [a EXCEPT ![v] = @ + 1]
           f == Counted(a, c)
           g == Counted(b, c)
           i == Increased(s.buckets, key, 1)
           z == WithValue(s, v)
<1>1. /\ s = [buckets |-> s.buckets, compactions |-> c, num |-> s.num]
      /\ c \in 0 .. MaxRounds /\ c \in Nat /\ a \in [Values -> Nat] /\ s.num = SumOver(a, Values)
      /\ Holds(s.buckets, f)
  BY SketchAssumption DEF SketchOf
<1>2. key \in Keys
  BY <1>1, CountedValue
<1>3. b \in [Values -> Nat] /\ b[v] = a[v] + 1 /\ \A w \in Values \ {v} : b[w] = a[w]
  BY <1>1
<1> HIDE DEF b, c, i
<1>4. \A S \in SUBSET Values : SumOver(b, S) = SumOver(a, S) + (IF v \in S THEN 1 ELSE 0)
  <2> SUFFICES ASSUME NEW S \in SUBSET Values
               PROVE  SumOver(b, S) = SumOver(a, S) + (IF v \in S THEN 1 ELSE 0)
    OBVIOUS
  <2> DEFINE R == S \ {v}
  <2>1. IsFiniteSet(R) /\ R \subseteq Values /\ v \notin R
    BY SketchAssumption, FS_Subset
  <2>2. (\A w \in R : a[w] \in Int) /\ (\A w \in R : b[w] \in Int) /\ (\A w \in R : a[w] = b[w])
        /\ a[v] \in Int /\ b[v] \in Int
    BY <1>1, <1>3
  <2>3. v \in S => S = R \cup {v}
    OBVIOUS
  <2>4. v \notin S => S = R
    OBVIOUS
  <2> HIDE DEF R
  <2>5. SumOver(a, R) = SumOver(b, R)
    BY <2>1, <2>2, SumSame
  <2>6. SumOver(a, R) \in Int
    BY <2>1, <2>2, SumType
  <2>7. SumOver(a, R \cup {v}) = SumOver(a, R) + a[v]
    BY <2>1, <2>2, SumAdd
  <2>8. SumOver(b, R \cup {v}) = SumOver(b, R) + b[v]
    BY <2>1, <2>2, SumAdd
  <2>9. CASE v \in S
    <3>1. SumOver(b, S) = SumOver(b, R \cup {v}) /\ SumOver(a, S) = SumOver(a, R \cup {v})
      BY <2>3, <2>9
    <3>2. SumOver(b, S) = SumOver(a, R) + b[v] /\ SumOver(a, S) = SumOver(a, R) + a[v]
      BY <2>5, <2>7, <2>8, <3>1
    <3>3. SumOver(b, S) = SumOver(a, S) + 1
      BY <1>3, <2>2, <2>6, <3>2
    <3> QED BY <2>9, <3>3
  <2>10. CASE v \notin S
    <3>1. SumOver(b, S) = SumOver(a, S) /\ SumOver(a, S) \in Int
      BY <2>4, <2>5, <2>6, <2>10
    <3> QED BY <2>10, <3>1
  <2> QED BY <2>9, <2>10
<1>5. g = [f EXCEPT ![key] = @ + 1]
  <2>1. f \in [Keys -> Nat] /\ g \in [Keys -> Nat]
    <3>1. {} \subseteq Keys /\ IsFiniteSet({})
      BY FS_EmptySet
    <3> QED BY <1>1, <1>3, <3>1, Regroup
  <2>2. ASSUME NEW k \in Keys PROVE g[k] = f[k] + (IF k = key THEN 1 ELSE 0)
    <3> DEFINE S == {w \in Values : KeyOf(w, c) = k}
    <3>1. f[k] = SumOver(a, S) /\ g[k] = SumOver(b, S) /\ S \in SUBSET Values
      BY DEF Counted
    <3>2. v \in S <=> k = key
      OBVIOUS
    <3> HIDE DEF S, f, g
    <3> QED BY <1>4, <3>1, <3>2
  <2> HIDE DEF f, g, key
  <2>3. \A k \in Keys : g[k] = [f EXCEPT ![key] = @ + 1][k]
    BY <1>2, <2>1, <2>2
  <2> QED BY <1>2, <2>1, <2>3
<1>6. Holds(i, g)
  <2> HIDE DEF f, g, key
  <2>1. 1 \in Nat \ {0}
    OBVIOUS
  <2>2. Holds(i, [f EXCEPT ![key] = @ + 1])
    BY <1>1, <1>2, <2>1, IncreasedHolds DEF i
  <2> QED BY <1>5, <2>2
<1>7. /\ z = [buckets |-> z.buckets, compactions |-> z.compactions, num |-> z.num]
      /\ z.buckets = i /\ z.compactions = c /\ z.num = s.num + 1
  <2>1. s = [buckets |-> s.buckets, compactions |-> s.compactions, num |-> s.num]
    BY DEF SketchOf
  <2>2. z = [buckets |-> i, compactions |-> s.compactions, num |-> s.num + 1]
    <3>1. PICK n : n = s.num + 1
      OBVIOUS
    <3>2. z = [s EXCEPT !.buckets = i, !.num = n]
      BY <3>1 DEF WithValue, i, c
    <3> HIDE DEF z
    <3> QED BY <2>1, <3>1, <3>2, FieldsUpdated
  <2> HIDE DEF z
  <2> QED BY <2>2 DEF c
<1> HIDE DEF z
<1>8. z.num = SumOver(b, Values)
  BY <1>1, <1>4, <1>7
<1>9. SketchOf(z, b)
  BY <1>1, <1>3, <1>6, <1>7, <1>8 DEF SketchOf
<1> QED BY <1>9 DEF z, b, c, i

\* A compaction keeps all values.
LEMMA SketchCompacted ==
  ASSUME NEW s, NEW a, SketchOf(s, a)
  PROVE  /\ SketchOf(CompactBuckets(s), a)
         /\ CompactBuckets(s).compactions = NextRound(s.compactions)
<1> DEFINE z == CompactBuckets(s)
<1>1. /\ s = [buckets |-> s.buckets, compactions |-> s.compactions, num |-> s.num]
      /\ s.compactions \in 0 .. MaxRounds /\ a \in [Values -> Nat] /\ s.num = SumOver(a, Values)
      /\ Holds(s.buckets, Counted(a, s.compactions))
  BY DEF SketchOf
<1>2. z = [buckets |-> Compact(s.buckets), compactions |-> NextRound(s.compactions), num |-> s.num]
  <2>1. z = [s EXCEPT !.buckets = Compact(s.buckets), !.compactions = NextRound(s.compactions)]
    BY DEF CompactBuckets, NextRound
  <2> QED BY <1>1, <2>1, FieldsUpdated
<1> HIDE DEF z
<1>3. /\ z = [buckets |-> z.buckets, compactions |-> z.compactions, num |-> z.num]
      /\ z.buckets = Compact(s.buckets) /\ z.compactions = NextRound(s.compactions) /\ z.num = s.num
  BY <1>2
<1>4. z.compactions \in 0 .. MaxRounds
  BY <1>1, <1>3, SketchAssumption DEF NextRound
<1>5. Holds(z.buckets, Counted(a, z.compactions))
  BY <1>1, <1>3, CountedNext
<1> QED BY <1>1, <1>3, <1>4, <1>5 DEF SketchOf, z

\* The set of all buckets, and of all sketches.
AllBuckets ==
    [head : AnyKey, map : UNION {[D -> [count : Nat, next : AnyKey]] : D \in SUBSET Keys}]
AllSketches == [buckets : AllBuckets, compactions : 0 .. MaxRounds, num : Nat]

LEMMA LinkedBuckets ==
  ASSUME NEW m, Linked(m)
  PROVE  m \in AllBuckets
<1> DEFINE D == DOMAIN m.map
           E == [count : Nat, next : AnyKey]
<1>1. m.head \in AnyKey /\ D \in SUBSET Keys /\ m = [head |-> m.head, map |-> m.map]
  BY DEF Linked, IsFirst, AnyKey
<1>2. \A k \in D : m.map[k].count \in Nat /\ m.map[k].next \in AnyKey
  BY DEF Linked, IsNext, AnyKey
<1>3. \A k \in D : [count |-> m.map[k].count, next |-> m.map[k].next] \in E
  BY <1>2
<1>4. m.map \in [D -> E]
  <2>1. m.map = [k \in D |-> [count |-> m.map[k].count, next |-> m.map[k].next]]
    BY DEF Linked
  <2> HIDE DEF E, D
  <2> QED BY <1>3, <2>1
<1> HIDE DEF D
<1>5. m.map \in UNION {[S -> E] : S \in SUBSET Keys}
  <2> HIDE DEF E
  <2> QED BY <1>1, <1>4
<1>6. PICK h, f : m = [head |-> h, map |-> f]
  BY <1>1
<1>7. h \in AnyKey /\ f \in UNION {[S -> E] : S \in SUBSET Keys}
  BY <1>1, <1>5, <1>6
<1> QED BY <1>6, <1>7 DEF AllBuckets

LEMMA SketchIsOne ==
  ASSUME NEW s, NEW a, SketchOf(s, a)
  PROVE  s \in AllSketches
<1>1. s.buckets \in AllBuckets
  BY LinkedBuckets DEF SketchOf, Holds
<1>2. s.num \in Nat
  <2>1. IsFiniteSet(Values) /\ \A v \in Values : a[v] \in Nat
    BY SketchAssumption DEF SketchOf
  <2> QED BY <2>1, SumNat DEF SketchOf
<1>3. PICK x, y, n : s = [buckets |-> x, compactions |-> y, num |-> n]
  BY DEF SketchOf
<1>4. x \in AllBuckets /\ y \in 0 .. MaxRounds /\ n \in Nat
  <2>1. s.compactions \in 0 .. MaxRounds
    BY DEF SketchOf
  <2> QED BY <1>1, <1>2, <1>3, <2>1
<1> QED BY <1>3, <1>4 DEF AllSketches

\* Nor do the compactions that bring a sketch to the level of another one.
LEMMA SketchLevelled ==
  ASSUME NEW s, NEW a, SketchOf(s, a), NEW c \in 0 .. MaxRounds
  PROVE  /\ SketchOf(Levelled(s, c), a)
         /\ Levelled(s, c).compactions = IF s.compactions < c THEN c ELSE s.compactions
<1>1. CASE ~(s.compactions < c)
  BY <1>1 DEF Levelled
<1>2. CASE s.compactions < c
  <2> DEFINE d == s.compactions
             T == {r \in AllSketches : SketchOf(r, a)}
             g == [x \in Nat \X T |-> CompactBuckets(x[2])]
  <2>1. d \in 0 .. MaxRounds /\ MaxRounds \in Nat /\ c - d \in Nat
    BY <1>2, SketchAssumption DEF SketchOf
  <2>2. s \in T /\ \A r \in T : CompactBuckets(r) \in T
    BY SketchIsOne, SketchCompacted
  <2>3. g \in [Nat \X T -> T] /\ \A n \in Nat, r \in T : g[<<n, r>>] = CompactBuckets(r)
    <3> HIDE DEF T
    <3> QED BY <2>2
  <2> HIDE DEF T, g
  <2>4. PICK f : Recurs(f, T, s, g)
    BY <2>2, <2>3, RecursionExists
  <2>5. f \in [Nat -> T] /\ f[0] = s /\ \A n \in Nat \ {0} : f[n] = CompactBuckets(f[n - 1])
    <3>1. /\ f \in [Nat -> T] /\ f[0] = s
          /\ \A n \in Nat \ {0} : f[n] = g[<<n, f[n - 1]>>]
      BY <2>4 DEF Recurs
    <3>2. \A n \in Nat \ {0} : n - 1 \in Nat /\ f[n - 1] \in T
      BY <3>1
    <3> QED BY <2>3, <3>1, <3>2
  <2> DEFINE compacted == CHOOSE h : h = [i \in Nat |-> IF i = 0 THEN s ELSE CompactBuckets(h[i - 1])]
  <2>6. f = [i \in Nat |-> IF i = 0 THEN s ELSE CompactBuckets(f[i - 1])]
    BY <2>5
  <2>7. compacted = [i \in Nat |-> IF i = 0 THEN s ELSE CompactBuckets(compacted[i - 1])]
    BY <2>6
  <2>8. Levelled(s, c) = compacted[c - d]
    BY <1>2 DEF Levelled, CompactedTo
  <2> HIDE DEF compacted
  <2> DEFINE E == {n \in Nat : d + n <= MaxRounds =>
                                  SketchOf(compacted[n], a) /\ compacted[n].compactions = d + n}
  <2>9. 0 \in E
    BY <2>1, <2>7
  <2>10. ASSUME NEW n \in Nat, n \in E PROVE n + 1 \in E
    <3> SUFFICES ASSUME d + (n + 1) <= MaxRounds
                 PROVE  SketchOf(compacted[n + 1], a) /\ compacted[n + 1].compactions = d + (n + 1)
      OBVIOUS
    <3>1. SketchOf(compacted[n], a) /\ compacted[n].compactions = d + n /\ d + n < MaxRounds
      BY <2>1, <2>10
    <3>2. compacted[n + 1] = CompactBuckets(compacted[n])
      BY <2>7
    <3>3. NextRound(d + n) = d + (n + 1)
      BY <2>1, <3>1 DEF NextRound
    <3> QED BY <3>1, <3>2, <3>3, SketchCompacted
  <2>11. c - d \in E
    <3> HIDE DEF E
    <3> QED BY <2>1, <2>9, <2>10, NatSetInduction
  <2> QED BY <1>2, <2>1, <2>8, <2>11
<1> QED BY <1>1, <1>2

-----------------------------------------------------------------------------
(* A merge                                                                 *)

\* The counts of one sketch are added to those of the other, bucket by bucket.
LEMMA MergedHolds ==
  ASSUME NEW m, NEW cnt, Holds(m, cnt), NEW o, NEW cnto, Holds(o, cnto)
  PROVE  Holds(Merged(m, o), [k \in Keys |-> cnt[k] + cnto[k]])
<1> DEFINE keys == Listed(o)
           L == Len(keys)
           Step(i, z) == IF i \in DOMAIN keys THEN Increased(z, keys[i], o.map[keys[i]].count) ELSE m
           T == {z \in AllBuckets : \E c \in [Keys -> Nat] : Holds(z, c)}
           g == [x \in Nat \X T |-> Step(x[1], x[2])]
<1>1. Sorted(o, keys) /\ Linked(o)
  BY ListedSorted DEF Holds
<1> HIDE DEF keys
<1>2. /\ L \in Nat /\ DOMAIN keys = 1 .. L
      /\ DOMAIN o.map = {keys[i] : i \in 1 .. L}
      /\ \A i \in 1 .. L : keys[i] \in DOMAIN o.map
  BY <1>1 DEF Sorted
<1>3. \A i \in 1 .. L : keys[i] \in Keys /\ o.map[keys[i]].count = cnto[keys[i]] /\ cnto[keys[i]] \in Nat \ {0}
  BY <1>2 DEF Holds, Linked
<1>4. m \in T
  BY LinkedBuckets DEF Holds
<1>5. ASSUME NEW i \in Nat, NEW z \in T PROVE Step(i, z) \in T
  <2>1. CASE i \notin DOMAIN keys
    BY <1>4, <2>1
  <2>2. CASE i \in DOMAIN keys
    <3>1. PICK c \in [Keys -> Nat] : Holds(z, c)
      OBVIOUS
    <3> DEFINE n == o.map[keys[i]].count
               z2 == Increased(z, keys[i], n)
               c2 == [c EXCEPT ![keys[i]] = @ + n]
    <3>2. keys[i] \in Keys /\ n \in Nat \ {0}
      BY <1>2, <1>3, <2>2
    <3>3. Holds(z2, c2)
      <4> HIDE DEF n
      <4> QED BY <3>1, <3>2, IncreasedHolds
    <3> HIDE DEF z2, c2
    <3>4. c2 \in [Keys -> Nat] /\ z2 \in AllBuckets
      BY <3>3, LinkedBuckets DEF Holds
    <3> QED BY <2>2, <3>3, <3>4 DEF z2
  <2> QED BY <2>1, <2>2
<1>6. g \in [Nat \X T -> T] /\ \A n \in Nat, z \in T : g[<<n, z>>] = Step(n, z)
  <2> HIDE DEF T, Step
  <2> QED BY <1>5
<1> HIDE DEF T, g
<1>7. PICK f : Recurs(f, T, m, g)
  BY <1>4, <1>6, RecursionExists
<1>8. f \in [Nat -> T] /\ f[0] = m /\ \A n \in Nat \ {0} : f[n] = Step(n, f[n - 1])
  <2> HIDE DEF Step
  <2>1. /\ f \in [Nat -> T] /\ f[0] = m
        /\ \A n \in Nat \ {0} : f[n] = g[<<n, f[n - 1]>>]
    BY <1>7 DEF Recurs
  <2>2. \A n \in Nat \ {0} : n - 1 \in Nat /\ f[n - 1] \in T
    BY <2>1
  <2> QED BY <1>6, <2>1, <2>2
<1> DEFINE merged == CHOOSE h : h = [i \in Nat |-> Step(i, h[i - 1])]
<1>9. f = [i \in Nat |-> Step(i, f[i - 1])]
  <2>1. 0 \notin DOMAIN keys
    BY <1>2
  <2>2. Step(0, f[0 - 1]) = m
    BY <2>1
  <2>3. \A i \in Nat : f[i] = Step(i, f[i - 1])
    <3> HIDE DEF Step
    <3> QED BY <1>8, <2>2
  <2> HIDE DEF Step
  <2> QED BY <1>8, <2>3
<1>10. merged = [i \in Nat |-> Step(i, merged[i - 1])]
  <2> HIDE DEF Step
  <2> QED BY <1>9
<1>11. Merged(m, o) = merged[L]
  BY DEF Merged, keys
<1> HIDE DEF merged
<1> DEFINE Upto(n) == {keys[i] : i \in 1 .. n}
           sum(n) == [k \in Keys |-> cnt[k] + (IF k \in Upto(n) THEN cnto[k] ELSE 0)]
           E == {n \in Nat : n <= L => Holds(merged[n], sum(n))}
<1>12. cnt \in [Keys -> Nat] /\ cnto \in [Keys -> Nat]
  BY DEF Holds
<1>13. 0 \in E
  <2>1. Upto(0) = {} /\ 0 \notin DOMAIN keys
    BY <1>2
  <2>2. sum(0) = cnt
    BY <1>12, <2>1
  <2>3. merged[0] = m
    BY <1>10, <2>1
  <2> QED BY <2>2, <2>3
<1>14. ASSUME NEW n \in Nat, n \in E PROVE n + 1 \in E
  <2> SUFFICES ASSUME n + 1 <= L PROVE Holds(merged[n + 1], sum(n + 1))
    OBVIOUS
  <2> DEFINE k == keys[n + 1]
  <2>1. n + 1 \in 1 .. L /\ n <= L /\ n + 1 \in DOMAIN keys
    BY <1>2
  <2>2. merged[n + 1] = Increased(merged[n], k, cnto[k])
    <3>1. merged[n + 1] = Step(n + 1, merged[(n + 1) - 1])
      BY <1>10
    <3>2. (n + 1) - 1 = n
      OBVIOUS
    <3> QED BY <1>3, <2>1, <3>1, <3>2
  <2>3. Holds(merged[n], sum(n)) /\ k \in Keys /\ cnto[k] \in Nat \ {0}
    BY <1>3, <1>14, <2>1
  <2>4. k \notin Upto(n)
    <3> SUFFICES ASSUME NEW i \in 1 .. n, keys[i] = k PROVE FALSE
      OBVIOUS
    <3>1. i \in 1 .. L /\ i < n + 1
      BY <1>2, <2>1
    <3>2. Less(keys[i], keys[n + 1])
      BY <1>1, <2>1, <3>1, SortedOrder
    <3> QED BY <2>3, <3>2, Order DEF AnyKey
  <2>5. Upto(n + 1) = Upto(n) \cup {k}
    <3>1. 1 .. n + 1 = (1 .. n) \cup {n + 1}
      OBVIOUS
    <3> QED BY <3>1
  <2> HIDE DEF Upto, k
  <2>6. sum(n + 1) = [sum(n) EXCEPT ![k] = @ + cnto[k]]
    <3>1. \A j \in Keys : j # k => (j \in Upto(n + 1) <=> j \in Upto(n))
      BY <2>5
    <3>2. k \in Upto(n + 1)
      BY <2>5
    <3>3. sum(n)[k] + cnto[k] = sum(n + 1)[k]
      BY <1>12, <2>3, <2>4, <3>2
    <3>4. \A j \in Keys : j # k => sum(n + 1)[j] = sum(n)[j]
      BY <3>1
    <3>5. DOMAIN sum(n) = Keys /\ sum(n + 1) = [j \in Keys |-> sum(n + 1)[j]]
      OBVIOUS
    <3> HIDE DEF sum
    <3> QED BY <2>3, <3>3, <3>4, <3>5
  <2> HIDE DEF sum
  <2> QED BY <2>2, <2>3, <2>6, IncreasedHolds
<1>15. L \in E
  <2> HIDE DEF E
  <2> QED BY <1>2, <1>13, <1>14, NatSetInduction
<1>16. sum(L) = [k \in Keys |-> cnt[k] + cnto[k]]
  <2>1. \A k \in Keys : k \notin Upto(L) => cnto[k] = 0
    BY <1>2, <1>12 DEF Holds
  <2> HIDE DEF Upto
  <2>2. \A k \in Keys : cnt[k] + (IF k \in Upto(L) THEN cnto[k] ELSE 0) = cnt[k] + cnto[k]
    BY <2>1
  <2> QED BY <2>2
<1> QED BY <1>11, <1>15, <1>16

\* merge_sketch: sketches of one level hold the values of both afterwards.
LEMMA SketchesMerged ==
  ASSUME NEW s, NEW a, SketchOf(s, a), NEW o, NEW b, SketchOf(o, b), s.compactions = o.compactions
  PROVE  SketchOf(WithSketch(s, o), [v \in Values |-> a[v] + b[v]])
<1> DEFINE c == s.compactions
           f == Counted(a, c)
           h == Counted(b, c)
           d == [v \in Values |-> a[v] + b[v]]
           i == Merged(s.buckets, o.buckets)
           z == WithSketch(s, o)
<1>1. /\ s = [buckets |-> s.buckets, compactions |-> s.compactions, num |-> s.num]
      /\ c \in 0 .. MaxRounds /\ c \in Nat
      /\ a \in [Values -> Nat] /\ b \in [Values -> Nat]
      /\ s.num = SumOver(a, Values) /\ o.num = SumOver(b, Values)
      /\ Holds(s.buckets, f) /\ Holds(o.buckets, h)
  BY SketchAssumption DEF SketchOf
<1>2. d \in [Values -> Nat] /\ \A v \in Values : d[v] = a[v] + b[v]
  BY <1>1
<1> HIDE DEF c, d, i
<1>3. \A S \in SUBSET Values : SumOver(d, S) = SumOver(a, S) + SumOver(b, S)
  <2> SUFFICES ASSUME NEW S \in SUBSET Values PROVE SumOver(d, S) = SumOver(a, S) + SumOver(b, S)
    OBVIOUS
  <2>1. IsFiniteSet(S) /\ \A v \in S : a[v] \in Int /\ b[v] \in Int /\ d[v] = a[v] + b[v]
    BY <1>1, <1>2, SketchAssumption, FS_Subset
  <2> QED BY <2>1, SumPlus
<1>4. Counted(d, c) = [k \in Keys |-> f[k] + h[k]]
  BY <1>3 DEF Counted
<1>5. Holds(i, Counted(d, c))
  <2> HIDE DEF f, h
  <2> QED BY <1>1, <1>4, MergedHolds DEF i
<1>6. z = [buckets |-> i, compactions |-> s.compactions, num |-> s.num + o.num]
  <2>1. PICK n : n = s.num + o.num
    OBVIOUS
  <2>2. z = [s EXCEPT !.buckets = i, !.num = n]
    BY <2>1 DEF WithSketch, i
  <2> HIDE DEF z
  <2> QED BY <1>1, <2>1, <2>2, FieldsUpdated
<1> HIDE DEF z
<1>7. /\ z = [buckets |-> z.buckets, compactions |-> z.compactions, num |-> z.num]
      /\ z.buckets = i /\ z.compactions = c /\ z.num = SumOver(d, Values)
  BY <1>1, <1>3, <1>6 DEF c
<1>8. SketchOf(z, d)
  BY <1>1, <1>2, <1>5, <1>7 DEF SketchOf
<1> QED BY <1>8 DEF z, d, i

-----------------------------------------------------------------------------
(* The invariant                                                           *)

\* Every sketch holds what was added to it; only those in their loop may have
\* too many buckets.
SketchInv ==
    /\ growing \in SUBSET Sketches
    /\ DOMAIN sketch = Sketches /\ sketch = [x \in Sketches |-> sketch[x]]
    /\ added \in [Sketches -> [Values -> Nat]]
    /\ \A x \in Sketches : SketchOf(sketch[x], added[x])
    /\ Bounded

LEMMA InvInit == Init => SketchInv
<1> SUFFICES ASSUME Init PROVE SketchInv
  OBVIOUS
<1>1. added = [x \in Sketches |-> NoneAdded]
  BY DEF Init, NoneAdded
<1>2. NoneAdded \in [Values -> Nat]
  BY DEF NoneAdded
<1>3. \A x \in Sketches : SketchOf(sketch[x], added[x])
  BY <1>1, NewSketch DEF Init
<1>4. Bounded
  <2>1. Cardinality(DOMAIN New.buckets.map) = 0
    <3>1. DOMAIN New.buckets.map = {}
      BY DEF New, Empty
    <3> QED BY <3>1, FS_EmptySet
  <2> QED BY <2>1, SketchAssumption DEF Init, Bounded, NumBuckets
<1> QED BY <1>1, <1>2, <1>3, <1>4 DEF Init, SketchInv

\* One sketch changes: the invariant is about that one.
LEMMA OneChanges ==
  ASSUME SketchInv, NEW x \in Sketches, NEW s, NEW a, SketchOf(s, a),
         sketch' = [sketch EXCEPT ![x] = s], added' = [added EXCEPT ![x] = a],
         growing' \in SUBSET Sketches, growing \ {x} \subseteq growing',
         x \notin growing' => Cardinality(DOMAIN s.buckets.map) <= MaxBuckets
  PROVE  SketchInv'
<1>1. a \in [Values -> Nat]
  BY DEF SketchOf
<1>2. /\ DOMAIN sketch' = Sketches /\ sketch'[x] = s
      /\ \A y \in Sketches \ {x} : sketch'[y] = sketch[y]
      /\ sketch' = [y \in Sketches |-> sketch'[y]]
  BY DEF SketchInv
<1>3. /\ added' \in [Sketches -> [Values -> Nat]] /\ added'[x] = a
      /\ \A y \in Sketches \ {x} : added'[y] = added[y]
  BY <1>1 DEF SketchInv
<1>4. \A y \in Sketches : SketchOf(sketch'[y], added'[y])
  BY <1>2, <1>3 DEF SketchInv
<1>5. Bounded'
  <2> SUFFICES ASSUME NEW y \in Sketches, y \notin growing'
               PROVE  Cardinality(DOMAIN sketch'[y].buckets.map) <= MaxBuckets
    BY DEF Bounded, NumBuckets
  <2>1. CASE y = x
    BY <1>2, <2>1
  <2>2. CASE y # x
    <3>1. y \notin growing
      BY <2>2
    <3> QED BY <1>2, <2>2, <3>1 DEF SketchInv, Bounded, NumBuckets
  <2> QED BY <2>1, <2>2
<1> QED BY <1>2, <1>3, <1>4, <1>5 DEF SketchInv

LEMMA InvAddValue ==
  ASSUME SketchInv, NEW x \in Sketches, NEW v \in Values, AddValue(x, v)
  PROVE  SketchInv'
<1> DEFINE s == WithValue(sketch[x], v)
           a == [added[x] EXCEPT ![v] = @ + 1]
<1>1. SketchOf(s, a)
  BY ValueAdded DEF SketchInv
<1>2. sketch' = [sketch EXCEPT ![x] = s] /\ added' = [added EXCEPT ![x] = a]
  BY DEF AddValue
<1>3. growing' = {x} /\ growing = {}
  BY DEF AddValue
<1> HIDE DEF s, a
<1> QED BY <1>1, <1>2, <1>3, OneChanges

LEMMA InvMerge ==
  ASSUME SketchInv, NEW x \in Sketches, NEW y \in Sketches, MergeSketch(x, y)
  PROVE  SketchInv'
<1> DEFINE a == [v \in Values |-> added[x][v] + added[y][v]]
<1>1. /\ SketchOf(sketch[x], added[x]) /\ SketchOf(sketch[y], added[y])
      /\ added[x] \in [Values -> Nat] /\ added[y] \in [Values -> Nat]
      /\ growing = {} /\ added' = [added EXCEPT ![x] = a]
  BY DEF SketchInv, MergeSketch
<1>2. CASE sketch[x].num = 0
  <2>1. sketch' = [sketch EXCEPT ![x] = sketch[y]] /\ growing' = {}
    BY <1>2 DEF MergeSketch
  <2>2. a = added[y]
    <3>1. \A v \in Values : added[x][v] <= 0
      <4>1. IsFiniteSet(Values) /\ (\A v \in Values : added[x][v] \in Nat)
            /\ SumOver(added[x], Values) = 0
        BY <1>1, <1>2, SketchAssumption DEF SketchOf
      <4> QED BY <4>1, SumNat
    <3>2. \A v \in Values : added[x][v] + added[y][v] = added[y][v]
      BY <1>1, <3>1
    <3> QED BY <1>1, <3>2
  <2>3. Cardinality(DOMAIN sketch[y].buckets.map) <= MaxBuckets
    BY <1>1 DEF SketchInv, Bounded, NumBuckets
  <2> HIDE DEF a
  <2> QED BY <1>1, <2>1, <2>2, <2>3, OneChanges
<1>3. CASE sketch[x].num # 0
  <2> DEFINE s == Levelled(sketch[x], sketch[y].compactions)
             o == Levelled(sketch[y], sketch[x].compactions)
             z == WithSketch(s, o)
  <2>1. /\ SketchOf(s, added[x]) /\ SketchOf(o, added[y])
        /\ s.compactions = o.compactions
    <3>1. sketch[x].compactions \in 0 .. MaxRounds /\ sketch[y].compactions \in 0 .. MaxRounds
      BY <1>1 DEF SketchOf
    <3>2. SketchOf(s, added[x]) /\ SketchOf(o, added[y])
      BY <1>1, <3>1, SketchLevelled
    <3>3. s.compactions = IF sketch[x].compactions < sketch[y].compactions
                          THEN sketch[y].compactions ELSE sketch[x].compactions
      BY <1>1, <3>1, SketchLevelled
    <3>4. o.compactions = IF sketch[y].compactions < sketch[x].compactions
                          THEN sketch[x].compactions ELSE sketch[y].compactions
      BY <1>1, <3>1, SketchLevelled
    <3> QED BY <3>1, <3>2, <3>3, <3>4, SketchAssumption
  <2>2. sketch' = [sketch EXCEPT ![x] = z] /\ growing' = {x}
    BY <1>3 DEF MergeSketch
  <2> HIDE DEF s, o
  <2>3. SketchOf(z, a)
    BY <2>1, SketchesMerged
  <2> HIDE DEF z, a
  <2> QED BY <1>1, <2>2, <2>3, OneChanges
<1> QED BY <1>2, <1>3

LEMMA InvRound ==
  ASSUME SketchInv, NEW x \in Sketches, CompactRound(x)
  PROVE  SketchInv'
<1> DEFINE s == CompactBuckets(sketch[x])
<1>1. SketchOf(s, added[x])
  BY SketchCompacted DEF SketchInv
<1>2. sketch' = [sketch EXCEPT ![x] = s] /\ growing' = growing /\ x \in growing
  BY DEF CompactRound
<1>3. added' = [added EXCEPT ![x] = added[x]]
  BY DEF CompactRound, SketchInv
<1>4. growing' \in SUBSET Sketches
  BY <1>2 DEF SketchInv
<1> HIDE DEF s
<1> QED BY <1>1, <1>2, <1>3, <1>4, OneChanges

LEMMA InvLoopEnds ==
  ASSUME SketchInv, NEW x \in Sketches, LoopEnds(x)
  PROVE  SketchInv'
<1>1. NumBuckets(x) \in Nat /\ ~(NumBuckets(x) > MaxBuckets)
  <2>1. IsFiniteSet(DOMAIN sketch[x].buckets.map)
    BY DEF SketchInv, SketchOf, Holds, Linked
  <2> QED BY <2>1, FS_CardinalityType DEF LoopEnds, TooMany, NumBuckets
<1>2. UNCHANGED <<sketch, added>> /\ growing' = growing \ {x}
  BY DEF LoopEnds
<1>3. Bounded'
  BY <1>1, <1>2, SketchAssumption DEF SketchInv, Bounded, NumBuckets
<1> QED BY <1>2, <1>3 DEF SketchInv

LEMMA InvFlush ==
  ASSUME SketchInv, NEW x \in Sketches, NEW y \in Sketches, Flush(x, y)
  PROVE  SketchInv'
<1>1. /\ growing = {} /\ growing' = {} /\ x # y
      /\ sketch' = [sketch EXCEPT ![x] = New, ![y] = sketch[x]]
      /\ added' = [added EXCEPT ![x] = NoneAdded, ![y] = added[x]]
  BY DEF Flush, NoneAdded
<1>2. NoneAdded \in [Values -> Nat]
  BY DEF NoneAdded
<1>3. /\ DOMAIN sketch' = Sketches /\ sketch' = [z \in Sketches |-> sketch'[z]]
      /\ sketch'[x] = New /\ sketch'[y] = sketch[x]
      /\ \A z \in Sketches \ {x, y} : sketch'[z] = sketch[z]
  BY <1>1 DEF SketchInv
<1>4. /\ added' \in [Sketches -> [Values -> Nat]]
      /\ added'[x] = NoneAdded /\ added'[y] = added[x]
      /\ \A z \in Sketches \ {x, y} : added'[z] = added[z]
  BY <1>1, <1>2 DEF SketchInv
<1>5. \A z \in Sketches : SketchOf(sketch'[z], added'[z])
  BY <1>3, <1>4, NewSketch DEF SketchInv
<1>6. Bounded'
  <2>1. Cardinality(DOMAIN New.buckets.map) <= MaxBuckets
    <3>1. DOMAIN New.buckets.map = {}
      BY DEF New, Empty
    <3> QED BY <3>1, FS_EmptySet, SketchAssumption
  <2>2. \A z \in Sketches : Cardinality(DOMAIN sketch[z].buckets.map) <= MaxBuckets
    BY <1>1 DEF SketchInv, Bounded, NumBuckets
  <2> QED BY <1>1, <1>3, <2>1, <2>2 DEF Bounded, NumBuckets
<1> QED BY <1>1, <1>3, <1>4, <1>5, <1>6 DEF SketchInv

LEMMA InvNext == SketchInv /\ [Next]_vars => SketchInv'
<1> SUFFICES ASSUME SketchInv, [Next]_vars PROVE SketchInv'
  OBVIOUS
<1>1. CASE UNCHANGED vars
  BY <1>1 DEF vars, SketchInv, Bounded, NumBuckets
<1>2. ASSUME NEW x \in Sketches, NEW v \in Values, AddValue(x, v) PROVE SketchInv'
  BY <1>2, InvAddValue
<1>3. ASSUME NEW x \in Sketches, NEW y \in Sketches, MergeSketch(x, y) PROVE SketchInv'
  BY <1>3, InvMerge
<1>4. ASSUME NEW x \in Sketches, NEW y \in Sketches, Flush(x, y) PROVE SketchInv'
  BY <1>4, InvFlush
<1>5. ASSUME NEW x \in Sketches, CompactRound(x) PROVE SketchInv'
  BY <1>5, InvRound
<1>6. ASSUME NEW x \in Sketches, LoopEnds(x) PROVE SketchInv'
  BY <1>6, InvLoopEnds
<1> QED BY <1>1, <1>2, <1>3, <1>4, <1>5, <1>6 DEF Next

LEMMA InvHolds == Spec => []SketchInv
  BY InvInit, InvNext, PTL DEF Spec

-----------------------------------------------------------------------------
(* The properties                                                          *)

\* A sketch never has an empty bucket, or one under an Invalid key.
THEOREM TypeCorrect == Spec => []TypeOK
<1>1. SketchInv => TypeOK
  <2> SUFFICES ASSUME SketchInv, NEW x \in Sketches
               PROVE  /\ sketch[x].num \in Nat /\ sketch[x].compactions \in Nat
                      /\ \A k \in DOMAIN sketch[x].buckets.map :
                            k \in {-1, 0, 1} \X Int /\ sketch[x].buckets.map[k].count \in Nat \ {0}
    BY DEF SketchInv, TypeOK
  <2>1. SketchOf(sketch[x], added[x])
    BY DEF SketchInv
  <2>2. sketch[x].num \in Nat /\ sketch[x].compactions \in Nat
    <3>1. sketch[x] \in AllSketches
      BY <2>1, SketchIsOne
    <3> QED BY <3>1, SketchAssumption DEF AllSketches
  <2> DEFINE f == Counted(added[x], sketch[x].compactions)
             m == sketch[x].buckets
  <2>3. Holds(m, f)
    BY <2>1 DEF SketchOf
  <2> HIDE DEF f, m
  <2>4. \A k \in DOMAIN m.map : k \in Keys /\ m.map[k].count = f[k] /\ f[k] \in Nat /\ f[k] > 0
    BY <2>3 DEF Holds, Linked
  <2>5. \A k \in DOMAIN m.map : k \in {-1, 0, 1} \X Int /\ m.map[k].count \in Nat \ {0}
    BY <2>4 DEF Keys
  <2> QED BY <2>2, <2>5 DEF m
<1> QED BY <1>1, InvHolds, PTL

\* The list visits every bucket once and in increasing order, for any values, any
\* number of buckets, and after any adds, compactions, merges and flushes.
THEOREM ListInOrderHolds == Spec => []ListInOrder
<1>1. SketchInv => ListInOrder
  <2> SUFFICES ASSUME SketchInv, NEW x \in Sketches
               PROVE  LET keys == Listed(sketch[x].buckets)
                      IN  /\ {keys[i] : i \in DOMAIN keys} = DOMAIN sketch[x].buckets.map
                          /\ \A i \in 2 .. Len(keys) : Less(keys[i - 1], keys[i])
    BY DEF ListInOrder
  <2> DEFINE m == sketch[x].buckets
             keys == Listed(m)
  <2>1. Linked(m)
    BY DEF SketchInv, SketchOf, Holds
  <2>2. Sorted(m, keys)
    BY <2>1, ListedSorted
  <2> HIDE DEF m, keys
  <2>3. DOMAIN keys = 1 .. Len(keys) /\ Len(keys) \in Nat
    BY <2>2 DEF Sorted
  <2>4. {keys[i] : i \in DOMAIN keys} = DOMAIN m.map
    BY <2>2, <2>3 DEF Sorted
  <2>5. \A i \in 2 .. Len(keys) : Less(keys[i - 1], keys[i])
    <3> SUFFICES ASSUME NEW i \in 2 .. Len(keys) PROVE Less(keys[i - 1], keys[i])
      OBVIOUS
    <3>1. i - 1 \in 1 .. Len(keys) - 1 /\ (i - 1) + 1 = i
      BY <2>3
    <3> QED BY <2>2, <3>1 DEF Sorted
  <2> QED BY <2>4, <2>5 DEF m, keys
<1> QED BY <1>1, InvHolds, PTL

\* A bucket counts exactly the values that would be put into it now, wherever and
\* at whatever level of compaction they were added.
THEOREM CountsMatchHolds == Spec => []CountsMatch
<1>1. SketchInv => CountsMatch
  <2> SUFFICES ASSUME SketchInv, NEW x \in Sketches
               PROVE  LET In(k) == {v \in Values : KeyOf(v, sketch[x].compactions) = k}
                          map == sketch[x].buckets.map
                      IN  /\ \A v \in Values :
                                added[x][v] > 0 => KeyOf(v, sketch[x].compactions) \in DOMAIN map
                          /\ \A k \in DOMAIN map : map[k].count = SumOver(added[x], In(k))
    BY DEF CountsMatch
  <2> DEFINE a == added[x]
             c == sketch[x].compactions
             m == sketch[x].buckets
             f == Counted(a, c)
  <2>1. Holds(m, f) /\ a \in [Values -> Nat] /\ c \in Nat
    BY SketchAssumption DEF SketchInv, SketchOf
  <2>2. ASSUME NEW v \in Values, a[v] > 0 PROVE KeyOf(v, c) \in DOMAIN m.map
    <3>1. KeyOf(v, c) \in Keys /\ a[v] <= f[KeyOf(v, c)]
      BY <2>1, CountedValue
    <3> HIDE DEF f, m, a, c
    <3>2. f[KeyOf(v, c)] \in Nat /\ a[v] \in Nat
      BY <2>1, <3>1 DEF Holds
    <3> QED BY <2>1, <2>2, <3>1, <3>2 DEF Holds
  <2>3. ASSUME NEW k \in DOMAIN m.map
        PROVE  m.map[k].count = SumOver(a, {v \in Values : KeyOf(v, c) = k})
    <3>1. k \in Keys /\ m.map[k].count = f[k]
      BY <2>1 DEF Holds, Linked
    <3> QED BY <3>1 DEF Counted
  <2> QED BY <2>2, <2>3
<1> QED BY <1>1, InvHolds, PTL

\* Between operations a sketch has at most max_buckets buckets.
THEOREM BoundedHolds == Spec => []Bounded
<1>1. SketchInv => Bounded
  BY DEF SketchInv
<1> QED BY <1>1, InvHolds, PTL

-----------------------------------------------------------------------------
(* Queries                                                                 *)

\* More values, no smaller a sum; a value with no count makes no difference.
LEMMA SumGrows ==
  ASSUME NEW a \in [Values -> Nat], NEW A, NEW B \in SUBSET Values, A \subseteq B
  PROVE  /\ SumOver(a, A) \in Nat /\ SumOver(a, B) \in Nat /\ SumOver(a, A) <= SumOver(a, B)
         /\ \A v \in B \ A : a[v] > 0 => SumOver(a, A) < SumOver(a, B)
         /\ (\A v \in B \ A : a[v] = 0) => SumOver(a, A) = SumOver(a, B)
<1> DEFINE E == B \ A
<1>1. IsFiniteSet(A) /\ IsFiniteSet(E) /\ IsFiniteSet(B)
  BY SketchAssumption, FS_Subset
<1>2. \A v \in Values : a[v] \in Nat /\ a[v] \in Int
  OBVIOUS
<1>3. A \cup E = B /\ A \cap E = {} /\ A \subseteq Values /\ E \subseteq Values
  OBVIOUS
<1> HIDE DEF E
<1>4. SumOver(a, A) \in Nat /\ SumOver(a, B) \in Nat
  <2>1. (\A v \in A : a[v] \in Nat) /\ (\A v \in B : a[v] \in Nat)
    BY <1>2, <1>3
  <2> QED BY <1>1, <2>1, SumNat
<1>5. /\ SumOver(a, E) \in Nat /\ \A v \in E : a[v] <= SumOver(a, E)
      /\ (\A v \in E : a[v] = 0) => SumOver(a, E) = 0
  <2>1. \A v \in E : a[v] \in Nat
    BY <1>2, <1>3
  <2> QED BY <1>1, <2>1, SumNat
<1>6. SumOver(a, B) = SumOver(a, A) + SumOver(a, E)
  <2>1. \A v \in A \cup E : a[v] \in Int
    BY <1>2, <1>3
  <2> QED BY <1>1, <1>3, <2>1, SumUnion
<1>7. ASSUME NEW v \in E, a[v] > 0 PROVE SumOver(a, A) < SumOver(a, B)
  <2>1. a[v] <= SumOver(a, E) /\ a[v] \in Nat
    BY <1>2, <1>3, <1>5
  <2> QED BY <1>4, <1>5, <1>6, <1>7, <2>1
<1> QED BY <1>4, <1>5, <1>6, <1>7 DEF E

\* A value without a bucket was not added, and every bucket has a value.
LEMMA BucketsHaveValues ==
  ASSUME NEW s, NEW a, SketchOf(s, a)
  PROVE  /\ \A v \in Values : KeyOf(v, s.compactions) \notin DOMAIN s.buckets.map => a[v] = 0
         /\ \A k \in DOMAIN s.buckets.map :
               \E v \in Values : KeyOf(v, s.compactions) = k /\ a[v] > 0
<1> DEFINE c == s.compactions
           D == DOMAIN s.buckets.map
           f == Counted(a, c)
<1>1. /\ a \in [Values -> Nat] /\ c \in Nat /\ Holds(s.buckets, f)
  BY SketchAssumption DEF SketchOf
<1>2. f \in [Keys -> Nat] /\ D \subseteq Keys /\ \A k \in Keys : k \in D <=> f[k] > 0
  BY <1>1 DEF Holds, Linked
<1>3. ASSUME NEW v \in Values, KeyOf(v, c) \notin D PROVE a[v] = 0
  <2>1. KeyOf(v, c) \in Keys /\ a[v] <= f[KeyOf(v, c)]
    BY <1>1, CountedValue
  <2> HIDE DEF f, D, c
  <2> QED BY <1>1, <1>2, <1>3, <2>1
<1>4. ASSUME NEW k \in D PROVE \E v \in Values : KeyOf(v, c) = k /\ a[v] > 0
  <2> SUFFICES ASSUME \A v \in Values : KeyOf(v, c) = k => a[v] = 0 PROVE FALSE
    BY <1>1
  <2> DEFINE S == {v \in Values : KeyOf(v, c) = k}
  <2>1. IsFiniteSet(S) /\ (\A v \in S : a[v] \in Nat) /\ \A v \in S : a[v] = 0
    BY <1>1, SketchAssumption, FS_Subset
  <2>2. f[k] = SumOver(a, S)
    BY <1>2 DEF Counted
  <2> HIDE DEF S
  <2>3. SumOver(a, S) = 0
    BY <2>1, SumNat
  <2> QED BY <1>2, <2>2, <2>3
<1> QED BY <1>3, <1>4

\* h is one-to-one on S, and g has at each of its elements the value of f at its image.
Renames(h, S, g, f) ==
    /\ \A i \in S : g[i] = f[h[i]] /\ g[i] \in Int
    /\ \A i, j \in S : h[i] = h[j] => i = j

Images(h, T) == {h[i] : i \in T}

\* A sum over renamed elements.
LEMMA SumRenamed ==
  ASSUME NEW S, IsFiniteSet(S), NEW h, NEW g, NEW f, Renames(h, S, g, f)
  PROVE  SumOver(g, S) = SumOver(f, Images(h, S))
<1> DEFINE P == {T \in SUBSET S : SumOver(g, T) = SumOver(f, Images(h, T))}
<1>1. {} \in P
  <2>1. Images(h, {}) = {}
    BY DEF Images
  <2>2. SumOver(g, {}) = 0 /\ SumOver(f, {}) = 0
    BY SumType, FS_EmptySet
  <2> QED BY <2>1, <2>2
<1>2. ASSUME NEW T \in SUBSET S, NEW i \in S \ T, T \in P PROVE T \cup {i} \in P
  <2> DEFINE A == Images(h, T)
             k == h[i]
             U == T \cup {i}
  <2>1. Images(h, U) = A \cup {k} /\ k \notin A
    BY DEF Images, Renames
  <2>2. IsFiniteSet(T) /\ i \notin T
    BY FS_Subset
  <2>3. (\A j \in T : g[j] \in Int) /\ g[i] \in Int /\ f[k] = g[i]
    BY DEF Renames
  <2>4. \A x \in A : f[x] \in Int
    BY DEF Images, Renames
  <2>5. IsFiniteSet(A)
    <3> DEFINE r == [j \in T |-> h[j]]
    <3>1. r \in Surjection(T, A)
      BY DEF Surjection, Images
    <3> HIDE DEF r, A
    <3> QED BY <2>2, <3>1, FS_Surjection
  <2>6. SumOver(g, T) = SumOver(f, A) /\ U \in SUBSET S
    BY <1>2
  <2> HIDE DEF A, k
  <2>7. SumOver(g, U) = SumOver(g, T) + g[i]
    BY <2>2, <2>3, SumAdd
  <2>8. SumOver(f, A \cup {k}) = SumOver(f, A) + f[k]
    BY <2>1, <2>3, <2>4, <2>5, SumAdd
  <2>9. SumOver(g, U) = SumOver(f, Images(h, U))
    BY <2>1, <2>3, <2>6, <2>7, <2>8
  <2> QED BY <2>6, <2>9
<1> HIDE DEF P
<1>3. SUBSET S \subseteq P
  BY <1>1, <1>2, SubsetInduction
<1> QED BY <1>3 DEF P

\* A sum over places of the list is one over their keys.
LEMMA SumPlaces ==
  ASSUME NEW m, Linked(m), NEW keys, Sorted(m, keys), NEW f \in [Keys -> Nat],
         NEW g, NEW I \in SUBSET (1 .. Len(keys)), \A i \in I : g[i] = f[keys[i]]
  PROVE  SumOver(g, I) = SumOver(f, Images(keys, I))
<1> DEFINE L == Len(keys)
<1>1. L \in Nat /\ \A i \in 1 .. L : keys[i] \in DOMAIN m.map /\ keys[i] \in Keys
  BY DEF Sorted, Linked
<1> HIDE DEF L
<1>2. IsFiniteSet(I)
  <2>1. 1 \in Int /\ L \in Int
    BY <1>1
  <2>2. IsFiniteSet(1 .. L)
    BY <2>1, FS_Interval
  <2> QED BY <2>2, FS_Subset DEF L
<1>3. \A i \in I : g[i] = f[keys[i]] /\ g[i] \in Int
  BY <1>1 DEF L
<1>4. ASSUME NEW i \in I, NEW j \in I, keys[i] = keys[j] PROVE i = j
  <2> SUFFICES ASSUME i # j PROVE FALSE
    OBVIOUS
  <2>1. i \in 1 .. Len(keys) /\ j \in 1 .. Len(keys) /\ i \in Int /\ j \in Int
    OBVIOUS
  <2>2. Less(keys[i], keys[j]) \/ Less(keys[j], keys[i])
    BY <2>1, SortedOrder
  <2>3. keys[i] \in AnyKey
    BY <1>1, <2>1 DEF AnyKey, L
  <2> QED BY <1>4, <2>2, <2>3, Order
<1>5. Renames(keys, I, g, f)
  BY <1>3, <1>4 DEF Renames
<1> QED BY <1>2, <1>5, SumRenamed

\* The places of the list and the keys there.
LEMMA SortedDomain ==
  ASSUME NEW m, Linked(m), NEW keys, Sorted(m, keys)
  PROVE  /\ Len(keys) \in Nat /\ Len(keys) \in Int /\ DOMAIN keys = 1 .. Len(keys)
         /\ \A i \in 1 .. Len(keys) : keys[i] \in DOMAIN m.map /\ keys[i] \in Keys /\ keys[i] \in AnyKey
         /\ \A k \in DOMAIN m.map : \E i \in 1 .. Len(keys) : keys[i] = k
<1>1. Len(keys) \in Nat /\ DOMAIN keys = 1 .. Len(keys)
  BY DEF Sorted
<1>2. \A i \in 1 .. Len(keys) : keys[i] \in DOMAIN m.map /\ keys[i] \in Keys /\ keys[i] \in AnyKey
  BY DEF Sorted, Linked, AnyKey
<1>3. DOMAIN m.map = {keys[i] : i \in 1 .. Len(keys)}
  BY DEF Sorted
<1> QED BY <1>1, <1>2, <1>3

\* What the counts at some places of the list add up to: the values that belong there.
LEMMA CountOfValues ==
  ASSUME NEW s, NEW a, SketchOf(s, a),
         NEW I \in SUBSET (1 .. Len(Listed(s.buckets))), NEW W \in SUBSET Values,
         \A v \in Values : KeyOf(v, s.compactions) \in DOMAIN s.buckets.map =>
            (v \in W <=> \E i \in I : Listed(s.buckets)[i] = KeyOf(v, s.compactions))
  PROVE  CountOf(s.buckets, I) = SumOver(a, W)
<1> DEFINE c == s.compactions
           m == s.buckets
           f == Counted(a, c)
           keys == Listed(m)
           g == [i \in I |-> m.map[keys[i]].count]
           K == {keys[i] : i \in I}
           V == {v \in Values : KeyOf(v, c) \in K}
<1>1. /\ a \in [Values -> Nat] /\ c \in Nat /\ Holds(m, f) /\ Linked(m)
      /\ \A v \in Values : KeyOf(v, c) \notin DOMAIN m.map => a[v] = 0
  BY BucketsHaveValues, SketchAssumption DEF SketchOf, Holds
<1>2. Sorted(m, keys)
  BY <1>1, ListedSorted
<1>3. CountOf(m, I) = SumOver(g, I)
  BY DEF CountOf
<1>4. V \subseteq Values /\ K \subseteq DOMAIN m.map /\ \A v \in V \cup W : (v \in V /\ v \in W) \/ a[v] = 0
  <2>1. K \subseteq DOMAIN m.map
    BY <1>2 DEF Sorted
  <2>2. ASSUME NEW v \in Values PROVE (v \in V /\ v \in W) \/ (v \notin V /\ v \notin W) \/ a[v] = 0
    <3>1. CASE KeyOf(v, c) \notin DOMAIN m.map
      BY <1>1, <3>1
    <3>2. CASE KeyOf(v, c) \in DOMAIN m.map
      <4>1. v \in W <=> \E i \in I : keys[i] = KeyOf(v, c)
        BY <3>2
      <4>2. v \in V <=> \E i \in I : keys[i] = KeyOf(v, c)
        OBVIOUS
      <4> QED BY <4>1, <4>2
    <3> QED BY <3>1, <3>2
  <2> QED BY <2>1, <2>2
<1> HIDE DEF f, keys, m, c
<1>5. \A i \in 1 .. Len(keys) : keys[i] \in DOMAIN m.map /\ keys[i] \in Keys /\ m.map[keys[i]].count = f[keys[i]]
                               /\ f[keys[i]] \in Nat
  BY <1>1, <1>2 DEF Holds, Linked, Sorted
<1>6. I \in SUBSET (1 .. Len(keys)) /\ IsFiniteSet(I)
  <2>1. I \in SUBSET (1 .. Len(keys))
    BY DEF keys, m
  <2>2. Len(keys) \in Int /\ 1 \in Int
    BY <1>2, SortedDomain
  <2>3. IsFiniteSet(1 .. Len(keys))
    BY <2>2, FS_Interval
  <2> QED BY <2>1, <2>3, FS_Subset
<1>7. IsFiniteSet(K)
  BY <1>1, <1>4, FS_Subset DEF Linked
<1>8. SumOver(g, I) = SumOver(f, K)
  <2>1. \A i \in I : g[i] = f[keys[i]]
    BY <1>5, <1>6
  <2>2. f \in [Keys -> Nat] /\ I \in SUBSET (1 .. Len(keys))
    BY <1>1, <1>6 DEF Holds
  <2> HIDE DEF g
  <2>3. SumOver(g, I) = SumOver(f, Images(keys, I))
    BY <1>1, <1>2, <2>1, <2>2, SumPlaces
  <2> QED BY <2>3 DEF Images
<1>9. SumOver(f, K) = SumOver(a, V)
  <2>1. K \subseteq Keys /\ IsFiniteSet(K)
    BY <1>1, <1>4, <1>7 DEF Linked
  <2> HIDE DEF K
  <2> QED BY <1>1, <2>1, Regroup DEF f
<1>10. SumOver(a, V) = SumOver(a, W)
  <2> DEFINE B == V \cup W
  <2>1. /\ B \in SUBSET Values /\ V \subseteq B /\ W \subseteq B
        /\ (\A v \in B \ V : a[v] = 0) /\ \A v \in B \ W : a[v] = 0
    BY <1>4
  <2> HIDE DEF B, V
  <2>2. SumOver(a, V) = SumOver(a, B)
    BY <1>1, <2>1, SumGrows
  <2>3. SumOver(a, W) = SumOver(a, B)
    BY <1>1, <2>1, SumGrows
  <2> QED BY <2>2, <2>3
<1> QED BY <1>3, <1>8, <1>9, <1>10 DEF m

\* The rank of a key of the list is the count of the buckets up to it.
LEMMA RankIsCount ==
  ASSUME SketchInv, NEW x \in Sketches, NEW i \in 1 .. Len(Listed(sketch[x].buckets))
  PROVE  CountOf(sketch[x].buckets, 1 .. i) = RankOf(x, Listed(sketch[x].buckets)[i])
<1> DEFINE s == sketch[x]
           m == s.buckets
           keys == Listed(m)
           k == keys[i]
           W == NotAbove(x, k)
<1>1. SketchOf(s, added[x]) /\ Linked(m)
  BY DEF SketchInv, SketchOf, Holds
<1>2. Sorted(m, keys)
  BY <1>1, ListedSorted
<1>3. /\ Len(keys) \in Nat /\ DOMAIN m.map = {keys[j] : j \in 1 .. Len(keys)}
      /\ \A j \in 1 .. Len(keys) : keys[j] \in AnyKey
  BY <1>1, <1>2 DEF Sorted, Linked, AnyKey
<1>4. \A j, l \in 1 .. Len(keys) : j < l => Less(keys[j], keys[l])
  BY <1>1, <1>2, SortedOrder
<1>5. W \in SUBSET Values /\ 1 .. i \in SUBSET (1 .. Len(keys))
  BY <1>3 DEF NotAbove
<1>6. ASSUME NEW v \in Values, KeyOf(v, s.compactions) \in DOMAIN m.map
      PROVE  v \in W <=> \E j \in 1 .. i : keys[j] = KeyOf(v, s.compactions)
  <2>1. PICK j \in 1 .. Len(keys) : keys[j] = KeyOf(v, s.compactions)
    BY <1>3, <1>6
  <2>2. v \in W <=> ~Less(k, keys[j])
    BY <2>1 DEF NotAbove
  <2>3. j \in 1 .. i <=> ~Less(k, keys[j])
    <3> HIDE DEF keys
    <3>1. i \in 1 .. Len(keys)
      BY DEF keys, m, s
    <3>2. CASE j < i
      BY <1>3, <1>4, <3>1, <3>2, Order
    <3>3. CASE j = i
      BY <1>3, <3>1, <3>3, Order
    <3>4. CASE i < j
      BY <1>3, <1>4, <3>1, <3>4, Order
    <3> QED BY <1>3, <3>1, <3>2, <3>3, <3>4
  <2>4. \A l \in 1 .. i : keys[l] = keys[j] => l = j
    <3> HIDE DEF keys, m, s
    <3> SUFFICES ASSUME NEW l \in 1 .. i, keys[l] = keys[j], l # j PROVE FALSE
      OBVIOUS
    <3>1. l \in 1 .. Len(keys)
      BY <1>3, <1>5
    <3>2. Less(keys[l], keys[j]) \/ Less(keys[j], keys[l])
      BY <1>3, <1>4, <3>1
    <3> QED BY <1>3, <3>1, <3>2, Order
  <2> HIDE DEF keys, m, s, W, k
  <2> QED BY <2>1, <2>2, <2>3, <2>4
<1>7. CountOf(m, 1 .. i) = SumOver(added[x], W)
  <2> HIDE DEF W
  <2> QED BY <1>1, <1>5, <1>6, CountOfValues
<1> QED BY <1>7 DEF RankOf

\* The last key of a sketch that is not empty has the highest rank.
LEMMA LastRank ==
  ASSUME SketchInv, NEW x \in Sketches, sketch[x].num > 0
  PROVE  LET keys == Listed(sketch[x].buckets)
         IN  /\ Len(keys) \in Nat /\ Len(keys) > 0
             /\ RankOf(x, keys[Len(keys)]) = sketch[x].num
             /\ \A l \in DOMAIN sketch[x].buckets.map :
                   Less(l, keys[Len(keys)]) => RankOf(x, l) < sketch[x].num
<1> DEFINE s == sketch[x]
           a == added[x]
           c == s.compactions
           m == s.buckets
           D == DOMAIN m.map
           keys == Listed(m)
           n == s.num
<1>1. SketchOf(s, a) /\ Linked(m) /\ a \in [Values -> Nat] /\ c \in Nat /\ n = SumOver(a, Values)
  BY SketchAssumption DEF SketchInv, SketchOf, Holds
<1>2. Sorted(m, keys)
  BY <1>1, ListedSorted
<1>3. /\ Len(keys) \in Nat /\ \A i \in 1 .. Len(keys) : keys[i] \in D /\ keys[i] \in AnyKey
      /\ \A k \in D : \E i \in 1 .. Len(keys) : keys[i] = k
  BY <1>1, <1>2, SortedDomain
<1>4. /\ \A v \in Values : KeyOf(v, c) \notin D => a[v] = 0
      /\ \A k \in D : \E v \in Values : KeyOf(v, c) = k /\ a[v] > 0
  BY <1>1, BucketsHaveValues
<1>5. \A i, j \in 1 .. Len(keys) : i < j => Less(keys[i], keys[j])
  BY <1>1, <1>2, SortedOrder
<1>6. \A k : RankOf(x, k) = SumOver(a, NotAbove(x, k)) /\ NotAbove(x, k) \subseteq Values
              /\ \A v \in Values : v \in NotAbove(x, k) <=> ~Less(k, KeyOf(v, c))
  BY DEF RankOf, NotAbove
<1>7. IsFiniteSet(Values) /\ n > 0
  BY SketchAssumption
<1> HIDE DEF n, keys, D, m, c, a
<1>8. Len(keys) > 0
  <2> SUFFICES ASSUME Len(keys) = 0 PROVE FALSE
    BY <1>3
  <2>1. \A v \in Values : a[v] = 0 /\ a[v] \in Nat
    BY <1>1, <1>3, <1>4
  <2>2. SumOver(a, Values) = 0
    BY <1>7, <2>1, SumNat
  <2> QED BY <1>1, <1>7, <2>2
<1> DEFINE L == Len(keys)
           k == keys[L]
<1>9. L \in 1 .. Len(keys) /\ k \in AnyKey /\ k \in D
  BY <1>3, <1>8
<1>10. RankOf(x, k) = n
  <2>1. ASSUME NEW v \in Values \ NotAbove(x, k) PROVE a[v] = 0
    <3> SUFFICES ASSUME KeyOf(v, c) \in D PROVE FALSE
      BY <1>4
    <3>1. PICK i \in 1 .. Len(keys) : keys[i] = KeyOf(v, c)
      BY <1>3
    <3>2. Less(k, keys[i])
      BY <1>6, <3>1
    <3>3. keys[i] \in AnyKey
      BY <1>3
    <3>4. CASE i = L
      BY <1>9, <3>2, <3>4, Order
    <3>5. CASE i # L
      <4>1. i < L
        BY <1>3, <3>5
      <4>2. Less(keys[i], k)
        BY <1>5, <1>9, <4>1
      <4> QED BY <1>9, <3>2, <3>3, <4>2, Order
    <3> QED BY <3>4, <3>5
  <2> DEFINE W == NotAbove(x, k)
  <2>2. W \subseteq Values /\ \A v \in Values \ W : a[v] = 0
    BY <1>6, <2>1
  <2>3. RankOf(x, k) = SumOver(a, W)
    BY <1>6
  <2> HIDE DEF W
  <2>4. SumOver(a, W) = SumOver(a, Values)
    BY <1>1, <2>2, SumGrows
  <2> QED BY <1>1, <2>3, <2>4
<1>11. ASSUME NEW l \in D, Less(l, k) PROVE RankOf(x, l) < n
  <2>1. PICK v \in Values : KeyOf(v, c) = k /\ a[v] > 0
    BY <1>4, <1>9
  <2> DEFINE W == NotAbove(x, l)
  <2>2. W \subseteq Values /\ v \in Values \ W /\ RankOf(x, l) = SumOver(a, W)
    BY <1>6, <1>11, <2>1
  <2> HIDE DEF W
  <2>3. SumOver(a, W) < SumOver(a, Values)
    BY <1>1, <2>1, <2>2, SumGrows
  <2> QED BY <1>1, <2>2, <2>3
<1> QED BY <1>3, <1>8, <1>10, <1>11 DEF n, keys, D, m

\* A set of numbers has one that is its minimum.
LEMMA MinOfSet ==
  ASSUME NEW S, S \subseteq Nat, S # {}
  PROVE  Min(S) \in S /\ \A n \in S : Min(S) <= n
<1>1. \E n \in S : \A i \in S : n <= i
  BY LeastNumber
<1> QED BY <1>1 DEF Min

\* What the estimate for a rank is.
LEMMA EstimateIsRank ==
  ASSUME SketchInv, NEW x \in Sketches, sketch[x].num > 0, NEW r \in 1 .. sketch[x].num + 1
  PROVE  LET k == EstimateQuantile(sketch[x], r)
         IN  /\ k # Invalid
             /\ RankOf(x, k) >= r \/ RankOf(x, k) = sketch[x].num
             /\ \A l \in DOMAIN sketch[x].buckets.map : Less(l, k) => RankOf(x, l) < r
<1> DEFINE s == sketch[x]
           m == s.buckets
           D == DOMAIN m.map
           keys == Listed(m)
           L == Len(keys)
           n == s.num
           k == EstimateQuantile(s, r)
           hits == {i \in DOMAIN keys : r <= CountOf(m, 1 .. i)}
<1>1. /\ Linked(m) /\ n \in Nat /\ r \in Nat
      /\ \A l : RankOf(x, l) \in Nat
  <2>1. SketchOf(s, added[x]) /\ added[x] \in [Values -> Nat] /\ n = SumOver(added[x], Values)
    BY DEF SketchInv, SketchOf
  <2>2. n \in Nat
    BY <2>1, SumGrows
  <2>3. ASSUME NEW l PROVE RankOf(x, l) \in Nat
    <3>1. NotAbove(x, l) \subseteq Values
      BY DEF NotAbove
    <3>2. SumOver(added[x], NotAbove(x, l)) \in Nat
      BY <2>1, <3>1, SumGrows
    <3> QED BY <3>2 DEF RankOf
  <2>4. r \in Nat
    BY <2>2
  <2> QED BY <2>1, <2>2, <2>3, <2>4 DEF SketchOf, Holds
<1>2. Sorted(m, keys)
  BY <1>1, ListedSorted
<1>3. /\ L \in Nat /\ DOMAIN keys = 1 .. L
      /\ \A i \in 1 .. L : keys[i] \in D /\ keys[i] \in Keys /\ keys[i] \in AnyKey
      /\ \A l \in D : \E i \in 1 .. L : keys[i] = l
  BY <1>1, <1>2, SortedDomain
<1>4. \A i, j \in 1 .. L : i < j => Less(keys[i], keys[j])
  BY <1>1, <1>2, SortedOrder
<1>5. L > 0 /\ RankOf(x, keys[L]) = n /\ \A l \in D : Less(l, keys[L]) => RankOf(x, l) < n
  BY LastRank
<1>6. \A i \in 1 .. L : CountOf(m, 1 .. i) = RankOf(x, keys[i])
  BY RankIsCount
<1>7. k = IF r >= n THEN (IF keys = <<>> THEN Zero ELSE keys[L])
          ELSE IF hits = {} THEN Invalid ELSE keys[Min(hits)]
  BY DEF EstimateQuantile, Reached
<1>8. hits \subseteq 1 .. L /\ \A i \in 1 .. L : i \in hits <=> r <= RankOf(x, keys[i])
  BY <1>3, <1>6
<1>9. keys # <<>>
  BY <1>3, <1>5
<1>10. L \in 1 .. L
  BY <1>3, <1>5
<1> HIDE DEF k, hits, L, n, keys, D, m, s
<1>11. CASE r >= n
  <2>1. k = keys[L] /\ k \in Keys
    BY <1>3, <1>7, <1>9, <1>10, <1>11
  <2>2. \A l \in D : Less(l, k) => RankOf(x, l) < r
    BY <1>1, <1>5, <1>11, <2>1
  <2>3. k # Invalid /\ RankOf(x, k) = n
    BY <1>5, <2>1, NotInvalid
  <2> QED BY <2>2, <2>3 DEF k, n, D, m, s
<1>12. CASE r < n
  <2>1. L \in hits
    <3>1. r <= RankOf(x, keys[L])
      BY <1>1, <1>5, <1>12
    <3> QED BY <1>8, <1>10, <3>1
  <2>2. hits \subseteq Nat
    BY <1>3, <1>8
  <2>3. Min(hits) \in hits /\ \A i \in hits : Min(hits) <= i
    BY <2>1, <2>2, MinOfSet
  <2>4. PICK h \in hits : h = Min(hits) /\ \A i \in hits : h <= i
    BY <2>3
  <2>5. k = keys[h] /\ h \in 1 .. L /\ k \in Keys /\ k \in AnyKey
    <3>1. ~(r >= n) /\ hits # {}
      BY <1>1, <1>12, <2>1
    <3>2. k = keys[Min(hits)]
      BY <1>7, <3>1
    <3> QED BY <1>3, <1>8, <2>4, <3>2
  <2>6. RankOf(x, k) >= r
    BY <1>1, <1>8, <2>5
  <2>7. ASSUME NEW l \in D, Less(l, k) PROVE RankOf(x, l) < r
    <3>1. PICK j \in 1 .. L : keys[j] = l
      BY <1>3
    <3>2. j < h
      <4>1. keys[j] \in AnyKey
        BY <1>3
      <4>2. ~(h < j) /\ h # j
        BY <1>4, <2>5, <2>7, <3>1, <4>1, Order
      <4> QED BY <1>3, <2>5, <4>2
    <3>3. j \notin hits
      BY <1>3, <2>4, <2>5, <3>2
    <3> QED BY <1>1, <1>8, <3>1, <3>3
  <2>8. k # Invalid
    BY <2>5, NotInvalid
  <2> QED BY <2>6, <2>7, <2>8 DEF k, D, m, s
<1> QED BY <1>1, <1>11, <1>12

\* The estimate for a rank is the bucket of the value of that rank, and the
\* code's unreachable!() is not reached.
THEOREM QuantileIsRankHolds == Spec => []QuantileIsRank
<1>1. SketchInv => QuantileIsRank
  <2> SUFFICES ASSUME SketchInv, NEW x \in Sketches \ growing,
                      NEW r \in 1 .. sketch[x].num + 1, sketch[x].num > 0
               PROVE  LET k == EstimateQuantile(sketch[x], r)
                      IN  /\ k # Invalid
                          /\ RankOf(x, k) >= r \/ RankOf(x, k) = sketch[x].num
                          /\ \A l \in DOMAIN sketch[x].buckets.map : Less(l, k) => RankOf(x, l) < r
    BY DEF QuantileIsRank
  <2> QED BY EstimateIsRank
<1> QED BY <1>1, InvHolds, PTL

\* The order of the values is that of their keys, after any number of rounds.
LEMMA KeyOfOrder ==
  ASSUME NEW u \in Keys, NEW v \in Keys, ~Less(v, u)
  PROVE  \A c \in Nat : ~Less(KeyOf(v, c), KeyOf(u, c))
<1> DEFINE E == {c \in Nat : ~Less(KeyOf(v, c), KeyOf(u, c))}
<1>1. \A c \in Nat : KeyOf(u, c) \in AnyKey /\ KeyOf(v, c) \in AnyKey
  BY KeyOfType DEF AnyKey
<1>2. 0 \in E
  <2>1. \A w \in Keys : KeyOf(w, 0) = w
    <3> SUFFICES ASSUME NEW w \in Keys PROVE KeyOf(w, 0) = w
      OBVIOUS
    <3>1. w[1] \in Int /\ w[2] \in Int /\ w = <<w[1], w[2]>>
      BY DEF Keys
    <3>2. Width[0] = 1
      BY WidthDef
    <3>3. (w[2] + (Width[0] - 1)) \div Width[0] = w[2]
      BY <3>1, <3>2
    <3> QED BY <3>1, <3>3 DEF KeyOf
  <2> QED BY <2>1
<1>3. ASSUME NEW c \in Nat, c \in E PROVE c + 1 \in E
  <2>1. KeyOf(u, c + 1) = CompactKey(KeyOf(u, c)) /\ KeyOf(v, c + 1) = CompactKey(KeyOf(v, c))
    BY KeyOfCompacted
  <2>2. KeyOf(u, c) = KeyOf(v, c) \/ Less(KeyOf(u, c), KeyOf(v, c))
    BY <1>1, <1>3, Order
  <2>3. ~Less(KeyOf(v, c + 1), KeyOf(u, c + 1))
    <3>1. CASE KeyOf(u, c) = KeyOf(v, c)
      <4>1. KeyOf(u, c + 1) = KeyOf(v, c + 1) /\ KeyOf(u, c + 1) \in AnyKey
        BY <1>1, <2>1, <3>1
      <4> QED BY <4>1, Order
    <3>2. CASE Less(KeyOf(u, c), KeyOf(v, c))
      BY <1>1, <2>1, <3>2, CompactKeyOrder
    <3> QED BY <2>2, <3>1, <3>2
  <2> QED BY <2>3
<1> HIDE DEF E
<1>4. Nat \subseteq E
  BY <1>2, <1>3, NatSetInduction
<1> QED BY <1>4 DEF E

\* The buckets below that of a boundary count the values below it, and with its
\* own bucket those that are not above it.
LEMMA BelowAndOwn ==
  ASSUME SketchInv, NEW x \in Sketches, NEW b \in Keys
  PROVE  LET s == sketch[x]
             k == KeyOf(b, s.compactions)
             bel == SumOver(added[x], Below(x, k))
         IN  /\ bel \in Nat /\ RankOf(x, k) \in Nat /\ bel <= RankOf(x, k)
             /\ TwiceAtValue(s, b) = bel + RankOf(x, k)
<1> DEFINE s == sketch[x]
           a == added[x]
           c == s.compactions
           m == s.buckets
           D == DOMAIN m.map
           k == KeyOf(b, c)
           keys == Listed(m)
           f == Counted(a, c)
           I == {i \in DOMAIN keys : Less(keys[i], k)}
           W == Below(x, k)
           Own == {v \in Values : KeyOf(v, c) = k}
           own == IF k \in D THEN m.map[k].count ELSE 0
<1>1. SketchOf(s, a) /\ Linked(m) /\ Holds(m, f) /\ a \in [Values -> Nat] /\ c \in Nat
  BY SketchAssumption DEF SketchInv, SketchOf, Holds
<1>2. Sorted(m, keys)
  BY <1>1, ListedSorted
<1>3. /\ DOMAIN keys = 1 .. Len(keys)
      /\ \A l \in D : \E i \in 1 .. Len(keys) : keys[i] = l
  BY <1>1, <1>2, SortedDomain
<1>4. k \in Keys /\ k \in AnyKey /\ \A v \in Values : KeyOf(v, c) \in AnyKey
  BY <1>1, KeyOfType, SketchAssumption DEF AnyKey
<1>5. TwiceAtValue(s, b) = 2 * CountOf(m, I) + own
  BY DEF TwiceAtValue, Target
<1>6. CountOf(m, I) = SumOver(a, W)
  <2>1. I \in SUBSET (1 .. Len(Listed(s.buckets))) /\ W \in SUBSET Values
    BY <1>3 DEF Below
  <2>2. \A v \in Values : KeyOf(v, s.compactions) \in DOMAIN s.buckets.map =>
           (v \in W <=> \E i \in I : Listed(s.buckets)[i] = KeyOf(v, s.compactions))
    <3> SUFFICES ASSUME NEW v \in Values, KeyOf(v, c) \in D
                 PROVE  v \in W <=> \E i \in I : keys[i] = KeyOf(v, c)
      OBVIOUS
    <3>1. v \in W <=> Less(KeyOf(v, c), k)
      BY DEF Below
    <3>2. PICK i \in 1 .. Len(keys) : keys[i] = KeyOf(v, c)
      BY <1>3
    <3> HIDE DEF W, k, keys, D, c
    <3> QED BY <1>3, <3>1, <3>2
  <2> HIDE DEF I, W
  <2> QED BY <1>1, <2>1, <2>2, CountOfValues
<1>7. own = SumOver(a, Own) /\ own \in Nat
  <2>1. f[k] = SumOver(a, Own) /\ f \in [Keys -> Nat] /\ f[k] \in Nat
    BY <1>1, <1>4 DEF Counted, Holds
  <2> HIDE DEF f, k, m, Own
  <2>2. own = f[k]
    BY <1>1, <1>4, <2>1 DEF Holds
  <2> QED BY <2>1, <2>2
<1>8. RankOf(x, k) = SumOver(a, W) + SumOver(a, Own) /\ SumOver(a, W) \in Nat
  <2>1. NotAbove(x, k) = W \cup Own
    <3>1. \A v \in Values : v \in NotAbove(x, k) <=> v \in W \cup Own
      <4> SUFFICES ASSUME NEW v \in Values
                   PROVE  ~Less(k, KeyOf(v, c)) <=> (Less(KeyOf(v, c), k) \/ KeyOf(v, c) = k)
        BY DEF NotAbove, Below
      <4> HIDE DEF k, c
      <4> QED BY <1>4, Order
    <3> QED BY <3>1 DEF NotAbove, Below
  <2>2. W \cap Own = {}
    <3> SUFFICES ASSUME NEW v \in W, KeyOf(v, c) = k PROVE FALSE
      OBVIOUS
    <3>1. Less(k, k)
      BY DEF Below
    <3> QED BY <1>4, <3>1, Order
  <2>3. W \subseteq Values /\ Own \subseteq Values
    BY DEF Below
  <2>4. RankOf(x, k) = SumOver(a, W \cup Own)
    BY <2>1 DEF RankOf
  <2> HIDE DEF W, Own, k
  <2>5. IsFiniteSet(W) /\ IsFiniteSet(Own) /\ (\A v \in W \cup Own : a[v] \in Int) /\ \A v \in W : a[v] \in Nat
    BY <1>1, <2>3, SketchAssumption, FS_Subset
  <2>6. SumOver(a, W) \in Nat
    BY <2>5, SumNat
  <2> QED BY <2>2, <2>4, <2>5, <2>6, SumUnion
<1> HIDE DEF W, Own, own
<1> QED BY <1>5, <1>6, <1>7, <1>8 DEF W

\* The greatest of numbers that do not exceed r.
LEMMA MaxOfBounded ==
  ASSUME NEW S, NEW r \in Nat, S \subseteq 0 .. r, S # {}
  PROVE  Max(S) \in S /\ \A n \in S : n <= Max(S)
<1> DEFINE T == {r - n : n \in S}
<1>1. T \subseteq Nat /\ T # {}
  OBVIOUS
<1> HIDE DEF T
<1>2. PICK t \in T : \A u \in T : t <= u
  BY <1>1, LeastNumber
<1>3. PICK n \in S : t = r - n
  BY DEF T
<1>4. \A i \in S : n >= i
  <2> SUFFICES ASSUME NEW i \in S PROVE n >= i
    OBVIOUS
  <2>1. t <= r - i
    BY <1>2 DEF T
  <2> QED BY <1>3, <2>1
<1>5. Max(S) \in S /\ \A i \in S : Max(S) >= i
  BY <1>4 DEF Max
<1>6. \A i \in S : i \in Int
  OBVIOUS
<1> QED BY <1>5, <1>6

\* The line of a Prometheus bucket counts every value of a lower bucket than that
\* of its boundary and no value of a higher one, also after compactions have
\* widened the buckets, and whichever way halves are rounded.
THEOREM BucketsBracketHolds == Spec => []BucketsBracket
<1>1. SketchInv => BucketsBracket
  <2> SUFFICES ASSUME SketchInv, NEW x \in Sketches \ growing, NEW up \in {0, 1}, NEW le \in Boundaries
               PROVE  LET counts == BucketCounts(sketch[x], up)
                          k == KeyOf(le, sketch[x].compactions)
                      IN  Cumulative(counts, le) \in
                            SumOver(added[x], Below(x, k)) .. RankOf(x, k)
    BY DEF BucketsBracket
  <2> DEFINE s == sketch[x]
             c == s.compactions
             counts == BucketCounts(s, up)
             K(b) == KeyOf(b, c)
             bel(b) == SumOver(added[x], Below(x, K(b)))
             rank(b) == RankOf(x, K(b))
             upto == {b \in Boundaries : ~Less(le, b)}
             S == {counts[b] : b \in upto}
  <2>1. Boundaries \subseteq Keys /\ c \in Nat /\ added[x] \in [Values -> Nat]
    BY SketchAssumption DEF SketchInv, SketchOf
  <2>2. \A b \in Boundaries :
           bel(b) \in Nat /\ rank(b) \in Nat /\ bel(b) <= rank(b) /\ TwiceAtValue(s, b) = bel(b) + rank(b)
    BY <2>1, BelowAndOwn
  <2>3. \A b \in Boundaries : counts[b] = (TwiceAtValue(s, b) + up) \div 2
    BY DEF BucketCounts
  <2>4. ASSUME NEW b \in upto PROVE rank(b) <= rank(le)
    <3>1. b \in Keys /\ le \in Keys /\ ~Less(le, b)
      BY <2>1
    <3>2. ~Less(K(le), K(b)) /\ K(le) \in AnyKey /\ K(b) \in AnyKey
      BY <2>1, <3>1, KeyOfOrder, KeyOfType DEF AnyKey
    <3>3. \A v \in Values : K(v) \in AnyKey
      BY <2>1, KeyOfType, SketchAssumption DEF AnyKey
    <3> DEFINE A == NotAbove(x, K(b))
               B == NotAbove(x, K(le))
    <3>4. A \subseteq B /\ B \subseteq Values
      <4>1. ASSUME NEW v \in A PROVE v \in B
        <5>1. v \in Values /\ ~Less(K(b), K(v))
          BY DEF NotAbove
        <5>2. ~Less(K(le), K(v))
          <6> HIDE DEF K
          <6> QED BY <3>2, <3>3, <5>1, OrderChain
        <5> QED BY <5>1, <5>2 DEF NotAbove
      <4> QED BY <4>1 DEF NotAbove
    <3>5. rank(b) = SumOver(added[x], A) /\ rank(le) = SumOver(added[x], B)
      BY DEF RankOf
    <3> HIDE DEF A, B, rank
    <3> QED BY <2>1, <3>4, <3>5, SumGrows
  <2>5. ~Less(le, le)
    BY <2>1, Order DEF AnyKey
  <2>6. le \in upto /\ upto \subseteq Boundaries
    BY <2>5
  <2> HIDE DEF upto, rank, bel, counts, s
  <2>7. ASSUME NEW b \in upto PROVE counts[b] \in bel(b) .. rank(b)
    <3>1. /\ bel(b) \in Nat /\ rank(b) \in Nat /\ bel(b) <= rank(b)
          /\ counts[b] = (bel(b) + rank(b) + up) \div 2
      BY <2>2, <2>3, <2>6
    <3>2. \A m, n \in Nat : m <= n => (m + n + up) \div 2 \in m .. n
      OBVIOUS
    <3> QED BY <3>1, <3>2
  <2>8. S \subseteq 0 .. rank(le) /\ rank(le) \in Nat
    <3>1. ASSUME NEW b \in upto PROVE counts[b] \in 0 .. rank(le)
      BY <2>2, <2>4, <2>6, <2>7
    <3> QED BY <2>2, <3>1
  <2>9. counts[le] \in S /\ counts[le] \in bel(le) .. rank(le)
    BY <2>6, <2>7
  <2>10. Cumulative(counts, le) = Max(S)
    BY DEF Cumulative, upto
  <2> HIDE DEF S
  <2>11. Max(S) \in S /\ \A n \in S : n <= Max(S)
    BY <2>8, <2>9, MaxOfBounded
  <2>12. Max(S) \in bel(le) .. rank(le)
    <3>1. Max(S) \in 0 .. rank(le)
      BY <2>8, <2>11
    <3>2. counts[le] <= Max(S)
      BY <2>9, <2>11
    <3>3. bel(le) \in Nat /\ rank(le) \in Nat
      BY <2>2
    <3> QED BY <2>9, <3>1, <3>2, <3>3
  <2> QED BY <2>10, <2>12 DEF bel, rank, counts, s
<1> QED BY <1>1, InvHolds, PTL

=============================================================================
