------------------------- MODULE ExportFormats_proofs -------------------------
(* Proofs about ExportFormats and the definitions it exports: what a struct *)
(* exports tells it from the other structs of its metric, and so does what  *)
(* it hashes.  Where definitions keep names, keys and labels apart, no line *)
(* of a flush or of the raw points may be taken for one of another series.  *)
EXTENDS ExportFormats, StripedAggMap_proofs

-----------------------------------------------------------------------------
(* FlattenSeq.                                                             *)

\* The values of the recursion in FlattenSeq.
Flattens(fl, seqs) ==
    fl = [i \in 1 .. Len(seqs) |-> IF i = 1 THEN seqs[i] ELSE fl[i - 1] \o seqs[i]]

\* The concatenations of the first sequences.
PrefixesJoined(p, seqs, S) ==
    /\ p \in [0 .. Len(seqs) -> Seq(S)]
    /\ p[0] = <<>>
    /\ \A i \in 1 .. Len(seqs) : p[i] = p[i - 1] \o seqs[i]
    /\ p[Len(seqs)] = FlattenSeq(seqs)

\* There is a function that Flattens defines.
LEMMA FlattensExists ==
  ASSUME NEW S, NEW seqs \in Seq(Seq(S)), seqs # <<>>
  PROVE  \E fl : Flattens(fl, seqs)
<1> DEFINE n == Len(seqs)
           g == [x \in Nat \X Seq(S) |-> IF x[1] \in 1 .. n THEN x[2] \o seqs[x[1]] ELSE x[2]]
<1>1. <<>> \in Seq(S) /\ \A i \in 1 .. n : seqs[i] \in Seq(S)
  OBVIOUS
<1>2. g \in [Nat \X Seq(S) -> Seq(S)]
  BY <1>1
<1>3. PICK f : Recurs(f, Seq(S), <<>>, g)
  <2> HIDE DEF g
  <2> QED BY <1>1, <1>2, RecursionExists
<1>4. \A i \in 1 .. n : f[i] = f[i - 1] \o seqs[i] /\ f[i] \in Seq(S)
  <2> TAKE i \in 1 .. n
  <2>1. i \in Nat \ {0} /\ i - 1 \in Nat
    OBVIOUS
  <2>2. f[i] = g[<<i, f[i - 1]>>] /\ f[i - 1] \in Seq(S)
    BY <1>3, <2>1 DEF Recurs
  <2>3. g[<<i, f[i - 1]>>] = f[i - 1] \o seqs[i]
    BY <2>1, <2>2
  <2>4. f[i] \in Seq(S)
    BY <1>3 DEF Recurs
  <2> QED BY <2>2, <2>3, <2>4
<1> DEFINE fl == [i \in 1 .. n |-> f[i]]
<1>5. ASSUME NEW i \in 1 .. n
      PROVE  fl[i] = IF i = 1 THEN seqs[i] ELSE fl[i - 1] \o seqs[i]
  <2>1. CASE i = 1
    <3>1. f[0] = <<>>
      BY <1>3 DEF Recurs
    <3>2. <<>> \o seqs[1] = seqs[1]
      BY <1>1, <2>1, ConcatEmptySeq
    <3>3. fl[i] = f[0] \o seqs[1]
      <4>1. 1 \in 1 .. n /\ 1 - 1 = 0
        BY <2>1
      <4>2. f[1] = f[0] \o seqs[1]
        BY <1>4, <4>1
      <4> QED BY <2>1, <4>2
    <3> QED BY <2>1, <3>1, <3>2, <3>3
  <2>2. CASE i # 1
    <3>1. i - 1 \in 1 .. n
      BY <2>2
    <3> QED BY <1>4, <2>2, <3>1
  <2> QED BY <2>1, <2>2
<1>6. Flattens(fl, seqs)
  BY <1>5 DEF Flattens
<1> QED BY <1>6

\* FlattenSeq appends the sequences one after the other.
LEMMA PrefixesExist ==
  ASSUME NEW S, NEW seqs \in Seq(Seq(S))
  PROVE  \E p : PrefixesJoined(p, seqs, S)
<1> DEFINE n == Len(seqs)
<1>1. CASE seqs = <<>>
  <2>1. FlattenSeq(seqs) = <<>>
    BY <1>1 DEF FlattenSeq
  <2>2. PrefixesJoined([i \in 0 .. Len(seqs) |-> <<>>], seqs, S)
    BY <1>1, <2>1 DEF PrefixesJoined
  <2> QED BY <2>2
<1>2. CASE seqs # <<>>
  <2> DEFINE c == CHOOSE fl : Flattens(fl, seqs)
  <2>1. Flattens(c, seqs)
    BY <1>2, FlattensExists
  <2>2. n \in Nat \ {0}
    BY <1>2
  <2>3. FlattenSeq(seqs) = c[n]
    BY <2>2 DEF FlattenSeq, Flattens
  <2> HIDE DEF c
  <2>4. \A i \in 1 .. n : c[i] = IF i = 1 THEN seqs[i] ELSE c[i - 1] \o seqs[i]
    <3> TAKE i \in 1 .. n
    <3>1. c = [j \in 1 .. n |-> IF j = 1 THEN seqs[j] ELSE c[j - 1] \o seqs[j]]
      BY <2>1 DEF Flattens
    <3> QED BY <3>1
  <2> DEFINE p == [i \in 0 .. n |-> IF i = 0 THEN <<>> ELSE c[i]]
             T == {i \in Nat : i \in 1 .. n => c[i] \in Seq(S)}
  <2>5. 0 \in T
    OBVIOUS
  <2>6. ASSUME NEW i \in Nat, i \in T PROVE i + 1 \in T
    <3> SUFFICES ASSUME i + 1 \in 1 .. n PROVE c[i + 1] \in Seq(S)
      OBVIOUS
    <3>1. seqs[i + 1] \in Seq(S)
      OBVIOUS
    <3>2. CASE i = 0
      BY <2>4, <3>1, <3>2
    <3>3. CASE i # 0
      <4>1. c[i] \in Seq(S) /\ (i + 1) - 1 = i /\ i + 1 # 1
        BY <2>6, <3>3
      <4>2. c[i + 1] = c[i] \o seqs[i + 1]
        BY <2>4, <4>1
      <4> QED BY <3>1, <4>1, <4>2
    <3> QED BY <3>2, <3>3
  <2>7. Nat \subseteq T
    <3> HIDE DEF T
    <3> QED BY <2>5, <2>6, NatSetInduction
  <2>8. p \in [0 .. n -> Seq(S)]
    BY <2>2, <2>7
  <2>9. \A i \in 1 .. n : p[i] = p[i - 1] \o seqs[i]
    <3> TAKE i \in 1 .. n
    <3>1. seqs[i] \in Seq(S)
      OBVIOUS
    <3>2. CASE i = 1
      <4>1. p[i] = seqs[1] /\ p[i - 1] = <<>>
        BY <2>4, <3>2
      <4>2. <<>> \o seqs[1] = seqs[1]
        BY <3>1, <3>2, ConcatEmptySeq
      <4> QED BY <3>2, <4>1, <4>2
    <3>3. CASE i # 1
      <4>1. i - 1 \in 0 .. n /\ i - 1 # 0 /\ i \in 0 .. n /\ i # 0
        BY <3>3
      <4>2. p[i] = c[i] /\ p[i - 1] = c[i - 1]
        BY <4>1
      <4> QED BY <2>4, <3>3, <4>2
    <3> QED BY <3>2, <3>3
  <2>10. p[0] = <<>> /\ p[n] = FlattenSeq(seqs)
    BY <2>2, <2>3
  <2> HIDE DEF p
  <2>11. PrefixesJoined(p, seqs, S)
    BY <2>8, <2>9, <2>10 DEF PrefixesJoined
  <2> QED BY <2>11
<1> QED BY <1>1, <1>2

\* What holds of the empty sequence, and of each longer prefix if of the one
\* before, holds of the whole concatenation.
LEMMA FlattenInduction ==
  ASSUME NEW S, NEW seqs \in Seq(Seq(S)), NEW p, PrefixesJoined(p, seqs, S),
         NEW T, 0 \in T, \A i \in 1 .. Len(seqs) : i - 1 \in T => i \in T
  PROVE  0 .. Len(seqs) \subseteq T
<1> DEFINE n == Len(seqs)
           E == {i \in Nat : i <= n => i \in T}
<1>1. 0 \in E /\ n \in Nat
  OBVIOUS
<1>2. ASSUME NEW i \in Nat, i \in E PROVE i + 1 \in E
  <2> SUFFICES ASSUME i + 1 <= n PROVE i + 1 \in T
    OBVIOUS
  <2>1. i + 1 \in 1 .. n /\ (i + 1) - 1 = i
    BY <1>1
  <2>2. i \in T
    BY <1>1, <1>2
  <2> QED BY <2>1, <2>2
<1>3. Nat \subseteq E
  <2> HIDE DEF E
  <2> QED BY <1>1, <1>2, NatSetInduction
<1> QED BY <1>1, <1>3

LEMMA FlattenType ==
  ASSUME NEW S, NEW seqs \in Seq(Seq(S))
  PROVE  FlattenSeq(seqs) \in Seq(S)
<1>1. PICK p : PrefixesJoined(p, seqs, S)
  BY PrefixesExist
<1> QED BY <1>1 DEF PrefixesJoined

LEMMA RangeConcat ==
  ASSUME NEW S, NEW s \in Seq(S), NEW t \in Seq(S)
  PROVE  Range(s \o t) = Range(s) \cup Range(t)
<1>1. ASSUME NEW x \in Range(s \o t) PROVE x \in Range(s) \cup Range(t)
  <2>1. PICK i \in 1 .. Len(s) + Len(t) : x = (s \o t)[i]
    BY ConcatProperties, LenProperties DEF Range
  <2>2. CASE i <= Len(s)
    BY <2>1, <2>2 DEF Range
  <2>3. CASE i > Len(s)
    <3>1. i - Len(s) \in 1 .. Len(t) /\ x = t[i - Len(s)]
      BY <2>1, <2>3
    <3> QED BY <3>1 DEF Range
  <2> QED BY <2>1, <2>2, <2>3
<1>2. ASSUME NEW x \in Range(s) PROVE x \in Range(s \o t)
  <2>1. PICK i \in 1 .. Len(s) : x = s[i]
    BY DEF Range
  <2>2. i \in 1 .. Len(s \o t) /\ (s \o t)[i] = x
    BY <2>1
  <2> QED BY <2>2, ConcatProperties, LenProperties DEF Range
<1>3. ASSUME NEW x \in Range(t) PROVE x \in Range(s \o t)
  <2>1. PICK i \in 1 .. Len(t) : x = t[i]
    BY DEF Range
  <2>2. i + Len(s) \in 1 .. Len(s \o t) /\ (s \o t)[i + Len(s)] = x
    BY <2>1
  <2> QED BY <2>2, ConcatProperties, LenProperties DEF Range
<1> QED BY <1>1, <1>2, <1>3

LEMMA RangeSingle ==
  ASSUME NEW t, DOMAIN t = {1}
  PROVE  Range(t) = {t[1]}
  BY DEF Range

LEMMA Singleton ==
  ASSUME NEW S, NEW x \in S
  PROVE  <<x>> \in Seq(S) /\ DOMAIN <<x>> = {1} /\ <<x>>[1] = x
  OBVIOUS

LEMMA InjectiveDef ==
  ASSUME NEW s
  PROVE  IsInjective(s) <=> \A i, j \in DOMAIN s : s[i] = s[j] => i = j
  BY DEF IsInjective

\* Sequences that are injective and have no element in common are so together.
LEMMA InjectiveConcat ==
  ASSUME NEW S, NEW s \in Seq(S), NEW t \in Seq(S), IsInjective(s), IsInjective(t),
         \A x \in Range(s), y \in Range(t) : x # y
  PROVE  IsInjective(s \o t)
<1> DEFINE m == Len(s)
           n == Len(t)
           u == s \o t
<1>1. /\ DOMAIN s = 1 .. m /\ DOMAIN t = 1 .. n /\ DOMAIN u = 1 .. m + n
      /\ m \in Nat /\ n \in Nat
  OBVIOUS
<1>2. /\ \A i \in 1 .. m : u[i] = s[i]
      /\ \A i \in 1 .. n : u[m + i] = t[i]
  OBVIOUS
<1>3. \A i \in 1 .. m + n : i \in 1 .. m \/ \E k \in 1 .. n : i = m + k
  <2> TAKE i \in 1 .. m + n
  <2>1. i \in 1 .. m \/ (i - m \in 1 .. n /\ i = m + (i - m))
    BY <1>1
  <2> QED BY <2>1
<1>4. /\ \A i, j \in 1 .. m : s[i] = s[j] => i = j
      /\ \A i, j \in 1 .. n : t[i] = t[j] => i = j
  BY <1>1, InjectiveDef
<1>5. \A i \in 1 .. m, j \in 1 .. n : s[i] # t[j]
  <2> TAKE i \in 1 .. m, j \in 1 .. n
  <2>1. s[i] \in Range(s) /\ t[j] \in Range(t)
    BY <1>1 DEF Range
  <2> QED BY <2>1
<1> HIDE DEF m, n, u
<1> SUFFICES ASSUME NEW i \in 1 .. m + n, NEW j \in 1 .. m + n, u[i] = u[j]
             PROVE  i = j
  BY <1>1, InjectiveDef DEF u
<1>6. CASE i \in 1 .. m /\ j \in 1 .. m
  BY <1>2, <1>4, <1>6
<1>7. ASSUME NEW k \in 1 .. n, i = m + k, NEW l \in 1 .. n, j = m + l PROVE i = j
  <2>1. u[i] = t[k] /\ u[j] = t[l]
    BY <1>2, <1>7
  <2> QED BY <1>4, <1>7, <2>1
<1>8. ASSUME NEW k \in 1 .. n, i = m + k, j \in 1 .. m PROVE FALSE
  <2>1. u[i] = t[k] /\ u[j] = s[j]
    BY <1>2, <1>8
  <2> QED BY <1>5, <1>8, <2>1
<1>9. ASSUME NEW k \in 1 .. n, j = m + k, i \in 1 .. m PROVE FALSE
  <2>1. u[i] = s[i] /\ u[j] = t[k]
    BY <1>2, <1>9
  <2> QED BY <1>5, <1>9, <2>1
<1> QED BY <1>3, <1>6, <1>7, <1>8, <1>9

\* The concatenation has the elements of the sequences.
Elements(seqs, k) == UNION {Range(seqs[i]) : i \in 1 .. k}

LEMMA PrefixRange ==
  ASSUME NEW S, NEW seqs \in Seq(Seq(S)), NEW p, PrefixesJoined(p, seqs, S)
  PROVE  \A k \in 0 .. Len(seqs) : Range(p[k]) = Elements(seqs, k)
<1> DEFINE U(k) == UNION {Range(seqs[i]) : i \in 1 .. k}
           T == {k \in 0 .. Len(seqs) : Range(p[k]) = U(k)}
<1>2. 0 \in T
  BY DEF PrefixesJoined, Range
<1>3. ASSUME NEW k \in 1 .. Len(seqs), k - 1 \in T PROVE k \in T
  <2>1. p[k - 1] \in Seq(S) /\ seqs[k] \in Seq(S) /\ p[k] = p[k - 1] \o seqs[k]
    <3>1. k - 1 \in 0 .. Len(seqs)
      OBVIOUS
    <3>2. p[k - 1] \in Seq(S) /\ p[k] = p[k - 1] \o seqs[k]
      BY <3>1 DEF PrefixesJoined
    <3> QED BY <3>2
  <2>2. Range(p[k]) = U(k - 1) \cup Range(seqs[k])
    BY <1>3, <2>1, RangeConcat
  <2>3. 1 .. k = 1 .. (k - 1) \cup {k}
    OBVIOUS
  <2>4. U(k) = U(k - 1) \cup Range(seqs[k])
    BY <2>3
  <2>5. k \in 0 .. Len(seqs)
    OBVIOUS
  <2> QED BY <2>2, <2>4, <2>5
<1>4. 0 .. Len(seqs) \subseteq T
  <2> HIDE DEF T
  <2> QED BY <1>2, <1>3, FlattenInduction
<1> QED BY <1>4 DEF Elements

LEMMA FlattenRange ==
  ASSUME NEW S, NEW seqs \in Seq(Seq(S))
  PROVE  Range(FlattenSeq(seqs)) = Elements(seqs, Len(seqs))
<1>1. PICK p : PrefixesJoined(p, seqs, S)
  BY PrefixesExist
<1>2. Len(seqs) \in 0 .. Len(seqs)
  OBVIOUS
<1>3. Range(p[Len(seqs)]) = Elements(seqs, Len(seqs))
  BY <1>1, <1>2, PrefixRange
<1> QED BY <1>1, <1>3 DEF PrefixesJoined

-----------------------------------------------------------------------------
(* Keys.                                                                   *)

LEMMA KeysDistinctDef ==
  ASSUME NEW tags
  PROVE  KeysDistinct(tags) <=>
           \A i, j \in DOMAIN tags : tags[i][1] = tags[j][1] => i = j
  BY DEF KeysDistinct, IsInjective

\* What has distinct keys, and no key in common, has distinct keys together, and
\* the other way round.
LEMMA KeysConcat ==
  ASSUME NEW S, NEW s \in Seq(S), NEW t \in Seq(S)
  PROVE  KeysDistinct(s \o t) <=>
           /\ KeysDistinct(s) /\ KeysDistinct(t)
           /\ \A i \in DOMAIN s, j \in DOMAIN t : s[i][1] # t[j][1]
<1> DEFINE m == Len(s)
           n == Len(t)
           u == s \o t
<1>1. /\ DOMAIN s = 1 .. m /\ DOMAIN t = 1 .. n /\ DOMAIN u = 1 .. m + n
      /\ m \in Nat /\ n \in Nat
  OBVIOUS
<1>2. /\ \A i \in 1 .. m : u[i] = s[i] /\ i \in 1 .. m + n
      /\ \A i \in 1 .. n : u[m + i] = t[i] /\ m + i \in 1 .. m + n
  OBVIOUS
<1>3. \A i \in 1 .. m + n : i \in 1 .. m \/ \E k \in 1 .. n : i = m + k
  <2> TAKE i \in 1 .. m + n
  <2>1. i \in 1 .. m \/ (i - m \in 1 .. n /\ i = m + (i - m))
    BY <1>1
  <2> QED BY <2>1
<1> HIDE DEF m, n, u
<1>4. ASSUME KeysDistinct(u)
      PROVE  /\ KeysDistinct(s) /\ KeysDistinct(t)
             /\ \A i \in DOMAIN s, j \in DOMAIN t : s[i][1] # t[j][1]
  <2>1. \A i, j \in 1 .. m + n : u[i][1] = u[j][1] => i = j
    BY <1>1, <1>4, KeysDistinctDef
  <2>2. \A i, j \in 1 .. m : s[i][1] = s[j][1] => i = j
    BY <1>2, <2>1
  <2>3. \A i, j \in 1 .. n : t[i][1] = t[j][1] => i = j
    <3> TAKE i, j \in 1 .. n
    <3>1. t[i][1] = t[j][1] => m + i = m + j
      BY <1>2, <2>1
    <3> QED BY <1>1, <3>1
  <2>4. \A i \in 1 .. m, j \in 1 .. n : s[i][1] # t[j][1]
    <3> TAKE i \in 1 .. m, j \in 1 .. n
    <3>1. s[i][1] = t[j][1] => i = m + j
      BY <1>2, <2>1
    <3> QED BY <1>1, <3>1
  <2> QED BY <1>1, <2>2, <2>3, <2>4, KeysDistinctDef
<1>5. ASSUME KeysDistinct(s), KeysDistinct(t),
             \A i \in DOMAIN s, j \in DOMAIN t : s[i][1] # t[j][1]
      PROVE  KeysDistinct(u)
  <2> SUFFICES ASSUME NEW i \in 1 .. m + n, NEW j \in 1 .. m + n, u[i][1] = u[j][1]
               PROVE  i = j
    BY <1>1, KeysDistinctDef
  <2>1. CASE i \in 1 .. m /\ j \in 1 .. m
    BY <1>1, <1>2, <1>5, <2>1, KeysDistinctDef
  <2>2. \A k, l \in 1 .. n : t[k][1] = t[l][1] => k = l
    BY <1>1, <1>5, KeysDistinctDef
  <2>3. \A k \in 1 .. m, l \in 1 .. n : s[k][1] # t[l][1]
    BY <1>1, <1>5
  <2>4. ASSUME NEW k \in 1 .. n, i = m + k, NEW l \in 1 .. n, j = m + l PROVE i = j
    <3>1. u[i] = t[k] /\ u[j] = t[l]
      BY <1>2, <2>4
    <3> QED BY <2>2, <2>4, <3>1
  <2>5. ASSUME NEW k \in 1 .. n, i = m + k, j \in 1 .. m PROVE FALSE
    <3>1. u[i] = t[k] /\ u[j] = s[j]
      BY <1>2, <2>5
    <3> QED BY <2>3, <2>5, <3>1
  <2>6. ASSUME NEW k \in 1 .. n, j = m + k, i \in 1 .. m PROVE FALSE
    <3>1. u[i] = s[i] /\ u[j] = t[k]
      BY <1>2, <2>6
    <3> QED BY <2>3, <2>6, <3>1
  <2> QED BY <1>3, <2>1, <2>4, <2>5, <2>6
<1> QED BY <1>4, <1>5 DEF u

LEMMA FlattenKeys ==
  ASSUME NEW S, NEW seqs \in Seq(Seq(S)),
         \A i \in 1 .. Len(seqs) : KeysDistinct(seqs[i]),
         \A i, j \in 1 .. Len(seqs) : i # j =>
            \A x \in Range(seqs[i]), y \in Range(seqs[j]) : x[1] # y[1]
  PROVE  KeysDistinct(FlattenSeq(seqs))
<1>1. PICK p : PrefixesJoined(p, seqs, S)
  BY PrefixesExist
<1> DEFINE T == {k \in 0 .. Len(seqs) : KeysDistinct(p[k])}
<1>2. 0 \in T
  <2>1. DOMAIN p[0] = {}
    BY <1>1 DEF PrefixesJoined
  <2> QED BY <2>1, KeysDistinctDef
<1>3. ASSUME NEW k \in 1 .. Len(seqs), k - 1 \in T PROVE k \in T
  <2>1. k - 1 \in 0 .. Len(seqs) /\ k \in 0 .. Len(seqs)
    OBVIOUS
  <2>2. seqs[k] \in Seq(S)
    OBVIOUS
  <2>3. p[k - 1] \in Seq(S) /\ p[k] = p[k - 1] \o seqs[k]
    BY <1>1, <2>1 DEF PrefixesJoined
  <2>4. ASSUME NEW i \in DOMAIN p[k - 1], NEW j \in DOMAIN seqs[k]
        PROVE  p[k - 1][i][1] # seqs[k][j][1]
    <3>1. p[k - 1][i] \in Elements(seqs, k - 1)
      <4>1. p[k - 1][i] \in Range(p[k - 1])
        BY DEF Range
      <4>2. Range(p[k - 1]) = Elements(seqs, k - 1)
        BY <1>1, <2>1, PrefixRange
      <4> QED BY <4>1, <4>2
    <3>2. PICK l \in 1 .. k - 1 : p[k - 1][i] \in Range(seqs[l])
      BY <3>1 DEF Elements
    <3>3. l \in 1 .. Len(seqs) /\ l # k
      OBVIOUS
    <3>4. seqs[k][j] \in Range(seqs[k])
      BY DEF Range
    <3> QED BY <3>2, <3>3, <3>4
  <2>5. KeysDistinct(p[k - 1]) /\ KeysDistinct(seqs[k])
    BY <1>3
  <2>6. KeysDistinct(p[k - 1] \o seqs[k])
    <3> DEFINE s == p[k - 1]
               t == seqs[k]
    <3>1. s \in Seq(S) /\ t \in Seq(S)
      BY <2>2, <2>3
    <3>2. \A i \in DOMAIN s, j \in DOMAIN t : s[i][1] # t[j][1]
      BY <2>4
    <3> HIDE DEF s, t
    <3>3. KeysDistinct(s) /\ KeysDistinct(t)
      BY <2>5 DEF s, t
    <3>4. KeysDistinct(s \o t)
      BY <3>1, <3>2, <3>3, KeysConcat
    <3> QED BY <3>4 DEF s, t
  <2> QED BY <2>1, <2>3, <2>6
<1>4. 0 .. Len(seqs) \subseteq T
  <2> HIDE DEF T
  <2> QED BY <1>1, <1>2, <1>3, FlattenInduction
<1>5. Len(seqs) \in 0 .. Len(seqs)
  OBVIOUS
<1> QED BY <1>1, <1>4, <1>5 DEF PrefixesJoined

-----------------------------------------------------------------------------
(* What a struct exports.                                                  *)

\* The pairs of each field.
Exported(metric, fields) ==
    [i \in DOMAIN fields |->
        LET ref == metric.tags[i]
        IN  [k \in DOMAIN fields[i] |-> <<ExportKey(ref), ExportValue(ref.ty, fields[i][k])>>]]

LEMMA ExportKeyType == \A ref \in TagRefs : ExportKey(ref) \in STRING
  BY DEF ExportKey, TagRefs, TagDefs, None

\* A value of an enum is one of its variants.
LEMMA ExportValueType ==
  ASSUME NEW ty \in TagDefs, NEW strings \in SUBSET STRING, NEW v \in TagValues(ty, strings)
  PROVE  /\ IsEnum(ty) => /\ VariantOf(ty, v) \in DOMAIN Variants(ty)
                          /\ Variants(ty)[VariantOf(ty, v)][1] = v
         /\ ExportValue(ty, v) \in STRING
<1>1. CASE IsEnum(ty)
  <2>1. Variants(ty) \in Seq(STRING \X STRING)
    BY <1>1 DEF IsEnum, Variants, None, TagDefs
  <2>2. PICK i \in DOMAIN Variants(ty) : Variants(ty)[i][1] = v
    BY <1>1 DEF TagValues
  <2>3. /\ VariantOf(ty, v) \in DOMAIN Variants(ty)
        /\ Variants(ty)[VariantOf(ty, v)][1] = v
    BY <2>2 DEF VariantOf
  <2>4. Variants(ty)[VariantOf(ty, v)] \in STRING \X STRING
    BY <2>1, <2>3
  <2> QED BY <1>1, <2>3, <2>4 DEF ExportValue
<1>2. CASE ~IsEnum(ty)
  BY <1>2 DEF TagValues, ExportValue
<1> QED BY <1>1, <1>2

\* Values that are exported as different strings when they differ.
LEMMA ExportValueApart ==
  ASSUME NEW ty \in TagDefs, ValuesApart(ty), NEW strings \in SUBSET STRING,
         NEW v \in TagValues(ty, strings), NEW w \in TagValues(ty, strings),
         ExportValue(ty, v) = ExportValue(ty, w)
  PROVE  v = w
<1>1. CASE IsEnum(ty)
  <2> DEFINE i == VariantOf(ty, v)
             j == VariantOf(ty, w)
  <2>1. /\ i \in DOMAIN Variants(ty) /\ Variants(ty)[i][1] = v
        /\ j \in DOMAIN Variants(ty) /\ Variants(ty)[j][1] = w
    BY <1>1, ExportValueType
  <2>2. Variants(ty)[i][2] = Variants(ty)[j][2]
    BY <1>1 DEF ExportValue
  <2> HIDE DEF i, j
  <2>3. i = j
    BY <1>1, <2>1, <2>2 DEF ValuesApart, IsInjective
  <2> QED BY <2>1, <2>3
<1>2. CASE ~IsEnum(ty)
  BY <1>2 DEF ExportValue
<1> QED BY <1>1, <1>2

\* A field holds a value of its tag, or nothing.
LEMMA FieldsForm ==
  ASSUME NEW metric \in MetricStructs, NEW strings \in SUBSET STRING,
         NEW f \in FieldsOf(metric, strings)
  PROVE  /\ Len(metric.tags) \in Nat
         /\ DOMAIN metric.tags = 1 .. Len(metric.tags) /\ DOMAIN f = 1 .. Len(metric.tags)
         /\ f = [i \in DOMAIN f |-> f[i]]
         /\ \A i \in 1 .. Len(metric.tags) :
               /\ metric.tags[i] \in TagRefs
               /\ f[i] = None \/ \E v \in TagValues(metric.tags[i].ty, strings) : f[i] = <<v>>
<1>1. metric.tags \in Seq(TagRefs)
  BY DEF MetricStructs
<1>2. DOMAIN f = 1 .. Len(metric.tags) /\ f = [i \in DOMAIN f |-> f[i]]
  BY DEF FieldsOf
<1>3. \A i \in 1 .. Len(metric.tags) : f[i] \in FieldValues(metric.tags[i], strings)
  BY DEF FieldsOf
<1>4. ASSUME NEW i \in 1 .. Len(metric.tags)
      PROVE  f[i] = None \/ \E v \in TagValues(metric.tags[i].ty, strings) : f[i] = <<v>>
  BY <1>3 DEF FieldValues, Some
<1> QED BY <1>1, <1>2, <1>4

\* A field exports the pair of its value, if it has one.
LEMMA ExportedForm ==
  ASSUME NEW metric \in MetricStructs, NEW strings \in SUBSET STRING,
         NEW f \in FieldsOf(metric, strings)
  PROVE  /\ Exported(metric, f) \in Seq(Seq(STRING \X STRING))
         /\ Len(Exported(metric, f)) = Len(metric.tags)
         /\ \A i \in 1 .. Len(metric.tags) :
               /\ KeysDistinct(Exported(metric, f)[i])
               /\ \A x : x \in Range(Exported(metric, f)[i]) <=>
                     /\ f[i] # None
                     /\ x = <<ExportKey(metric.tags[i]),
                              ExportValue(metric.tags[i].ty, f[i][1])>>
<1> DEFINE n == Len(metric.tags)
           e == Exported(metric, f)
           key(i) == ExportKey(metric.tags[i])
           value(i) == ExportValue(metric.tags[i].ty, f[i][1])
<1>1. n \in Nat /\ DOMAIN f = 1 .. n
  BY FieldsForm
<1>2. ASSUME NEW i \in 1 .. n
      PROVE  /\ e[i] \in Seq(STRING \X STRING)
             /\ KeysDistinct(e[i])
             /\ \A x : x \in Range(e[i]) <=> f[i] # None /\ x = <<key(i), value(i)>>
  <2>1. e[i] = [k \in DOMAIN f[i] |->
                   <<key(i), ExportValue(metric.tags[i].ty, f[i][k])>>]
    BY <1>1 DEF Exported
  <2>2. metric.tags[i] \in TagRefs /\ metric.tags[i].ty \in TagDefs
    <3>1. metric.tags[i] \in TagRefs
      BY FieldsForm
    <3> QED BY <3>1 DEF TagRefs
  <2>3. CASE f[i] = None
    <3>1. e[i] = <<>>
      BY <2>1, <2>3 DEF None
    <3>2. DOMAIN e[i] = {}
      BY <3>1
    <3> QED BY <2>3, <3>1, <3>2, KeysDistinctDef DEF Range
  <2>4. ASSUME NEW v \in TagValues(metric.tags[i].ty, strings), f[i] = <<v>>
        PROVE  /\ e[i] \in Seq(STRING \X STRING)
               /\ KeysDistinct(e[i])
               /\ \A x : x \in Range(e[i]) <=> f[i] # None /\ x = <<key(i), value(i)>>
    <3>1. DOMAIN f[i] = {1} /\ f[i][1] = v /\ f[i] # None
      BY <2>4 DEF None
    <3>2. DOMAIN e[i] = 1 .. 1 /\ e[i][1] = <<key(i), value(i)>>
      BY <2>1, <3>1
    <3>3. key(i) \in STRING /\ value(i) \in STRING
      BY <2>2, <3>1, ExportKeyType, ExportValueType
    <3>4. e[i] = <<<<key(i), value(i)>>>>
      BY <2>1, <3>1, <3>2
    <3> HIDE DEF key, value, e
    <3>5. e[i] \in Seq(STRING \X STRING)
      BY <3>3, <3>4
    <3>6. KeysDistinct(e[i])
      BY <3>2, KeysDistinctDef
    <3>7. Range(e[i]) = {<<key(i), value(i)>>}
      <4>1. DOMAIN e[i] = {1}
        BY <3>2
      <4>2. Range(e[i]) = {e[i][1]}
        BY <4>1, RangeSingle
      <4> QED BY <3>2, <4>2
    <3> QED BY <3>1, <3>5, <3>6, <3>7
  <2> QED BY <2>3, <2>4, FieldsForm
<1>3. DOMAIN e = 1 .. n
  BY <1>1 DEF Exported
<1>4. e = [i \in 1 .. n |-> e[i]]
  BY <1>1 DEF Exported
<1> HIDE DEF n, e, key, value
<1>5. e \in [1 .. n -> Seq(STRING \X STRING)]
  BY <1>2, <1>4
<1>6. e \in Seq(Seq(STRING \X STRING)) /\ Len(e) = n
  BY <1>1, <1>3, <1>5
<1> QED BY <1>2, <1>6 DEF n, e, key, value

\* What is exported of a struct: the pair of every field that holds a value.
LEMMA PairsForm ==
  ASSUME NEW metric \in MetricStructs, NEW strings \in SUBSET STRING,
         NEW f \in FieldsOf(metric, strings)
  PROVE  /\ ExportPairs(metric, f) \in Seq(STRING \X STRING)
         /\ \A x : x \in Range(ExportPairs(metric, f)) <=>
               \E i \in 1 .. Len(metric.tags) :
                  /\ f[i] # None
                  /\ x = <<ExportKey(metric.tags[i]), ExportValue(metric.tags[i].ty, f[i][1])>>
<1>1. ExportPairs(metric, f) = FlattenSeq(Exported(metric, f))
  BY DEF ExportPairs, Exported
<1>2. Exported(metric, f) \in Seq(Seq(STRING \X STRING))
  BY ExportedForm
<1>3. ExportPairs(metric, f) \in Seq(STRING \X STRING)
  BY <1>1, <1>2, FlattenType
<1>4. Range(ExportPairs(metric, f)) = Elements(Exported(metric, f), Len(metric.tags))
  BY <1>1, <1>2, FlattenRange, ExportedForm
<1>5. \A x : x \in Range(ExportPairs(metric, f)) <=>
         \E i \in 1 .. Len(metric.tags) : x \in Range(Exported(metric, f)[i])
  BY <1>4 DEF Elements
<1> DEFINE Pair(i) == <<ExportKey(metric.tags[i]), ExportValue(metric.tags[i].ty, f[i][1])>>
<1>6. \A i \in 1 .. Len(metric.tags) : \A x :
         x \in Range(Exported(metric, f)[i]) <=> f[i] # None /\ x = Pair(i)
  BY ExportedForm
<1> HIDE DEF Pair
<1>7. \A x : x \in Range(ExportPairs(metric, f)) <=>
         \E i \in 1 .. Len(metric.tags) : f[i] # None /\ x = Pair(i)
  BY <1>5, <1>6
<1> QED BY <1>3, <1>7 DEF Pair

LEMMA KeysAppend ==
  ASSUME NEW S, NEW s \in Seq(S), NEW x \in S
  PROVE  KeysDistinct(Append(s, x)) <=>
           KeysDistinct(s) /\ \A i \in DOMAIN s : s[i][1] # x[1]
<1>1. Append(s, x) = s \o <<x>> /\ <<x>> \in Seq(S)
  BY AppendIsConcat
<1>2. DOMAIN <<x>> = {1} /\ <<x>>[1] = x
  OBVIOUS
<1>3. KeysDistinct(<<x>>)
  BY <1>2, KeysDistinctDef
<1>4. KeysDistinct(s \o <<x>>) <=>
        /\ KeysDistinct(s) /\ KeysDistinct(<<x>>)
        /\ \A i \in DOMAIN s, j \in DOMAIN <<x>> : s[i][1] # <<x>>[j][1]
  BY <1>1, KeysConcat
<1>5. (\A i \in DOMAIN s, j \in DOMAIN <<x>> : s[i][1] # <<x>>[j][1]) <=>
        \A i \in DOMAIN s : s[i][1] # x[1]
  BY <1>2
<1> QED BY <1>1, <1>3, <1>4, <1>5

\* The keys of the tags of a metric.
KeysOf(metric) == [i \in DOMAIN metric.tags |-> <<ExportKey(metric.tags[i])>>]

LEMMA KeysOfForm ==
  ASSUME NEW metric \in MetricStructs
  PROVE  /\ KeysOf(metric) \in Seq(Seq(STRING))
         /\ DOMAIN KeysOf(metric) = 1 .. Len(metric.tags)
         /\ \A i \in 1 .. Len(metric.tags) : KeysOf(metric)[i][1] = ExportKey(metric.tags[i])
<1> DEFINE n == Len(metric.tags)
<1>1. metric.tags \in Seq(TagRefs)
  BY DEF MetricStructs
<1>2. n \in Nat /\ DOMAIN metric.tags = 1 .. n
  BY <1>1
<1>3. \A i \in 1 .. n : ExportKey(metric.tags[i]) \in STRING
  BY <1>1, ExportKeyType
<1>4. KeysOf(metric) \in [1 .. n -> Seq(STRING)]
  BY <1>2, <1>3 DEF KeysOf
<1>5. KeysOf(metric) \in Seq(Seq(STRING))
  BY <1>2, <1>4
<1> QED BY <1>2, <1>4, <1>5 DEF KeysOf

\* Where the tags have distinct keys, so have the pairs that a struct exports, and
\* each of them has the key of a tag.
LEMMA PairsKeys ==
  ASSUME NEW metric \in MetricStructs, NEW strings \in SUBSET STRING,
         NEW f \in FieldsOf(metric, strings), KeysDistinct(KeysOf(metric))
  PROVE  /\ KeysDistinct(ExportPairs(metric, f))
         /\ \A k \in DOMAIN ExportPairs(metric, f) : \E i \in DOMAIN KeysOf(metric) :
               ExportPairs(metric, f)[k][1] = KeysOf(metric)[i][1]
<1> DEFINE n == Len(metric.tags)
           e == Exported(metric, f)
           key(i) == ExportKey(metric.tags[i])
<1>1. \A i, j \in 1 .. n : key(i) = key(j) => i = j
  BY KeysDistinctDef, KeysOfForm
<1>2. \A i \in 1 .. n : \A x \in Range(e[i]) : x[1] = key(i)
  BY ExportedForm
<1>3. e \in Seq(Seq(STRING \X STRING)) /\ Len(e) = n /\ \A i \in 1 .. n : KeysDistinct(e[i])
  BY ExportedForm
<1>4. ExportPairs(metric, f) = FlattenSeq(e)
  BY DEF ExportPairs, Exported
<1> HIDE DEF n, e, key
<1>5. KeysDistinct(FlattenSeq(e))
  BY <1>1, <1>2, <1>3, FlattenKeys
<1>6. ASSUME NEW k \in DOMAIN ExportPairs(metric, f)
      PROVE  \E i \in DOMAIN KeysOf(metric) :
                ExportPairs(metric, f)[k][1] = KeysOf(metric)[i][1]
  <2>1. ExportPairs(metric, f)[k] \in Range(ExportPairs(metric, f))
    BY DEF Range
  <2>2. PICK i \in 1 .. Len(metric.tags) :
           ExportPairs(metric, f)[k] =
             <<ExportKey(metric.tags[i]), ExportValue(metric.tags[i].ty, f[i][1])>>
    BY <2>1, PairsForm
  <2>3. ExportPairs(metric, f)[k][1] = ExportKey(metric.tags[i])
    BY <2>2
  <2> QED BY <2>3, KeysOfForm
<1> QED BY <1>4, <1>5, <1>6

\* Where the tags of a metric have distinct keys, and the variants of each distinct
\* strings, two of its structs that export the same pairs, in whatever order, have
\* the same fields: an optional tag that is None is told from any value, and from
\* another tag of the same type under an alias (lib.rs export_pairs).
THEOREM PairsTellStructs ==
  ASSUME NEW metric \in MetricStructs, KeysDistinct(KeysOf(metric)),
         \A i \in DOMAIN metric.tags : ValuesApart(metric.tags[i].ty),
         NEW strings \in SUBSET STRING,
         NEW f \in FieldsOf(metric, strings), NEW g \in FieldsOf(metric, strings),
         Range(ExportPairs(metric, f)) = Range(ExportPairs(metric, g))
  PROVE  f = g
<1> DEFINE n == Len(metric.tags)
           key(i) == ExportKey(metric.tags[i])
           value(h, i) == ExportValue(metric.tags[i].ty, h[i][1])
<1>1. \A i, j \in 1 .. n : key(i) = key(j) => i = j
  BY KeysDistinctDef, KeysOfForm
\* A field that holds a value holds it in the other struct, too.
<1>2. ASSUME NEW h \in FieldsOf(metric, strings), NEW l \in FieldsOf(metric, strings),
             Range(ExportPairs(metric, h)) \subseteq Range(ExportPairs(metric, l)),
             NEW i \in 1 .. n, h[i] # None
      PROVE  h[i] = l[i]
  <2>1. <<key(i), value(h, i)>> \in Range(ExportPairs(metric, h))
    BY <1>2, PairsForm
  <2>2. PICK j \in 1 .. n : l[j] # None /\ <<key(i), value(h, i)>> = <<key(j), value(l, j)>>
    BY <1>2, <2>1, PairsForm
  <2>3. i = j
    BY <1>1, <2>2
  <2>4. l[i] # None /\ value(h, i) = value(l, i)
    BY <2>2, <2>3
  <2>5. PICK v \in TagValues(metric.tags[i].ty, strings) : h[i] = <<v>>
    BY <1>2, FieldsForm
  <2>6. PICK w \in TagValues(metric.tags[i].ty, strings) : l[i] = <<w>>
    BY <2>4, FieldsForm
  <2>7. metric.tags[i].ty \in TagDefs /\ ValuesApart(metric.tags[i].ty)
    <3>1. metric.tags[i] \in TagRefs /\ i \in DOMAIN metric.tags
      BY FieldsForm
    <3> QED BY <3>1 DEF TagRefs
  <2>8. ExportValue(metric.tags[i].ty, v) = ExportValue(metric.tags[i].ty, w)
    BY <2>4, <2>5, <2>6
  <2>9. v = w
    BY <2>7, <2>8, ExportValueApart
  <2> QED BY <2>5, <2>6, <2>9
<1>3. \A i \in 1 .. n : f[i] = g[i]
  <2> TAKE i \in 1 .. n
  <2>1. f[i] # None => f[i] = g[i]
    BY <1>2
  <2>2. g[i] # None => f[i] = g[i]
    BY <1>2
  <2> QED BY <2>1, <2>2
<1>4. /\ DOMAIN f = 1 .. n /\ f = [i \in DOMAIN f |-> f[i]]
      /\ DOMAIN g = 1 .. n /\ g = [i \in DOMAIN g |-> g[i]]
  BY FieldsForm
<1> HIDE DEF n
<1> QED BY <1>3, <1>4

-----------------------------------------------------------------------------
(* What a struct hashes.                                                   *)

\* What the hasher is fed with.
Tokens == ({"bytes"} \X STRING) \cup ({"discriminant"} \X Int)

\* Two sequences neither of which continues the other.
Diverge(s, t) == \E k \in DOMAIN s \cap DOMAIN t : s[k] # t[k]

\* What is appended is found behind what was there.
LEMMA ConcatBehind ==
  ASSUME NEW S, NEW s \in Seq(S), NEW t \in Seq(S), NEW k \in DOMAIN t
  PROVE  Len(s) + k \in DOMAIN (s \o t) /\ (s \o t)[Len(s) + k] = t[k]
<1>1. k \in 1 .. Len(t) /\ Len(s) \in Nat /\ Len(t) \in Nat
  OBVIOUS
<1>2. s \o t \in Seq(S) /\ Len(s \o t) = Len(s) + Len(t)
  BY ConcatProperties
<1>3. Len(s) + k \in 1 .. Len(s) + Len(t) /\ Len(s) + k > Len(s)
  BY <1>1
<1>4. (s \o t)[Len(s) + k] = t[(Len(s) + k) - Len(s)]
  BY <1>3, ConcatProperties
<1>5. DOMAIN (s \o t) = 1 .. Len(s) + Len(t)
  BY <1>2
<1> QED BY <1>1, <1>3, <1>4, <1>5

\* A later prefix continues an earlier one.
LEMMA PrefixesGrow ==
  ASSUME NEW S, NEW seqs \in Seq(Seq(S)), NEW p, PrefixesJoined(p, seqs, S),
         NEW i \in 0 .. Len(seqs)
  PROVE  \A k \in DOMAIN p[i] : k \in DOMAIN FlattenSeq(seqs) /\ FlattenSeq(seqs)[k] = p[i][k]
<1> DEFINE n == Len(seqs)
           T == {j \in 0 .. n : i <= j =>
                    \A k \in DOMAIN p[i] : k \in DOMAIN p[j] /\ p[j][k] = p[i][k]}
<1>1. n \in Nat /\ 0 \in T
  OBVIOUS
<1>2. ASSUME NEW j \in 1 .. n, j - 1 \in T PROVE j \in T
  <2> SUFFICES ASSUME i < j, NEW k \in DOMAIN p[i] PROVE k \in DOMAIN p[j] /\ p[j][k] = p[i][k]
    OBVIOUS
  <2>1. p[j - 1] \in Seq(S) /\ seqs[j] \in Seq(S) /\ p[j] = p[j - 1] \o seqs[j]
    <3>1. j - 1 \in 0 .. Len(seqs) /\ j \in 1 .. Len(seqs)
      OBVIOUS
    <3>2. p[j - 1] \in Seq(S) /\ p[j] = p[j - 1] \o seqs[j]
      BY <3>1 DEF PrefixesJoined
    <3>3. seqs[j] \in Seq(S)
      BY <3>1
    <3> QED BY <3>2, <3>3
  <2>2. k \in DOMAIN p[j - 1] /\ p[j - 1][k] = p[i][k]
    BY <1>2
  <2> DEFINE s == p[j - 1]
             t == seqs[j]
  <2>3. s \in Seq(S) /\ t \in Seq(S) /\ k \in DOMAIN s
    BY <2>1, <2>2
  <2> HIDE DEF s, t
  <2>4. k \in DOMAIN (s \o t) /\ (s \o t)[k] = s[k]
    BY <2>3
  <2> QED BY <2>1, <2>2, <2>4 DEF s, t
<1>3. 0 .. n \subseteq T
  <2> HIDE DEF T
  <2> QED BY <1>1, <1>2, FlattenInduction
<1>4. p[n] = FlattenSeq(seqs)
  BY DEF PrefixesJoined
<1>5. n \in T
  <2>1. n \in 0 .. n
    BY <1>1
  <2> HIDE DEF T
  <2> QED BY <1>3, <2>1
<1>6. i <= n
  OBVIOUS
<1> QED BY <1>4, <1>5, <1>6

\* If codes that differ diverge, the concatenation tells what was encoded.
LEMMA CodesApart ==
  ASSUME NEW S, NEW a \in Seq(Seq(S)), NEW b \in Seq(Seq(S)), Len(a) = Len(b),
         \A i \in 1 .. Len(a) : a[i] = b[i] \/ Diverge(a[i], b[i]),
         FlattenSeq(a) = FlattenSeq(b)
  PROVE  \A i \in 1 .. Len(a) : a[i] = b[i]
<1> DEFINE n == Len(a)
           Wrong == {i \in 1 .. n : a[i] # b[i]}
<1> SUFFICES ASSUME Wrong # {} PROVE FALSE
  OBVIOUS
<1>1. PICK i \in Wrong : \A j \in Wrong : i <= j
  <2>1. Wrong \subseteq Nat
    OBVIOUS
  <2> HIDE DEF Wrong
  <2> QED BY <2>1, LeastNumber
<1>2. PICK p : PrefixesJoined(p, a, S)
  BY PrefixesExist
<1>3. PICK q : PrefixesJoined(q, b, S)
  BY PrefixesExist
<1> DEFINE T == {j \in 0 .. n : j < i => p[j] = q[j]}
<1>4. 0 \in T
  BY <1>2, <1>3 DEF PrefixesJoined
<1>5. ASSUME NEW j \in 1 .. n, j - 1 \in T PROVE j \in T
  <2> SUFFICES ASSUME j < i PROVE p[j] = q[j]
    OBVIOUS
  <2>1. a[j] = b[j]
    BY <1>1
  <2>2. p[j - 1] = q[j - 1]
    BY <1>5
  <2>3. p[j] = p[j - 1] \o a[j] /\ q[j] = q[j - 1] \o b[j]
    BY <1>2, <1>3 DEF PrefixesJoined
  <2> QED BY <2>1, <2>2, <2>3
<1>6. 0 .. n \subseteq T
  <2> HIDE DEF T
  <2> QED BY <1>2, <1>4, <1>5, FlattenInduction
<1>7. i \in 1 .. n /\ i - 1 \in 0 .. n /\ a[i] # b[i]
  OBVIOUS
<1>8. p[i - 1] = q[i - 1]
  <2>1. i - 1 < i
    BY <1>7
  <2>2. i - 1 \in T
    <3> HIDE DEF T, Wrong
    <3> QED BY <1>6, <1>7
  <2> QED BY <2>1, <2>2
<1>9. PICK k \in DOMAIN a[i] \cap DOMAIN b[i] : a[i][k] # b[i][k]
  BY <1>7 DEF Diverge
<1> DEFINE u == p[i - 1]
           s == a[i]
           t == b[i]
           m == Len(u) + k
<1>10. u \in Seq(S) /\ s \in Seq(S) /\ t \in Seq(S)
  <2>1. u \in Seq(S)
    BY <1>2, <1>7 DEF PrefixesJoined
  <2>2. s \in Seq(S) /\ t \in Seq(S)
    BY <1>7
  <2> QED BY <2>1, <2>2
<1>11. p[i] = u \o s /\ q[i] = u \o t
  <2>1. p[i] = p[i - 1] \o a[i]
    BY <1>2, <1>7 DEF PrefixesJoined
  <2>2. q[i] = q[i - 1] \o b[i]
    BY <1>3, <1>7 DEF PrefixesJoined
  <2> QED BY <1>8, <2>1, <2>2
<1>12. /\ m \in DOMAIN (u \o s) /\ (u \o s)[m] = s[k]
       /\ m \in DOMAIN (u \o t) /\ (u \o t)[m] = t[k]
  <2>1. k \in DOMAIN s /\ k \in DOMAIN t
    BY <1>9
  <2> HIDE DEF u, s, t
  <2> QED BY <1>10, <2>1, ConcatBehind
<1> HIDE DEF u, s, t, m
<1>13. m \in DOMAIN p[i] /\ p[i][m] = s[k] /\ m \in DOMAIN q[i] /\ q[i][m] = t[k]
  BY <1>11, <1>12
<1>14. FlattenSeq(a)[m] = p[i][m] /\ FlattenSeq(b)[m] = q[i][m]
  <2>1. i \in 0 .. Len(a) /\ i \in 0 .. Len(b)
    BY <1>7
  <2> QED BY <1>2, <1>3, <1>13, <2>1, PrefixesGrow
<1> QED BY <1>9, <1>13, <1>14 DEF s, t

\* The concatenation of nothing, and of one sequence.
LEMMA FlattenFew ==
  ASSUME NEW S, NEW s \in Seq(S)
  PROVE  FlattenSeq(<<>>) = <<>> /\ FlattenSeq(<<s>>) = s
<1>1. FlattenSeq(<<>>) = <<>>
  BY DEF FlattenSeq
<1>2. <<s>> \in Seq(Seq(S)) /\ Len(<<s>>) = 1 /\ <<s>>[1] = s
  OBVIOUS
<1>3. PICK p : PrefixesJoined(p, <<s>>, S)
  BY <1>2, PrefixesExist
<1>4. FlattenSeq(<<s>>) = <<>> \o s
  <2> DEFINE seqs == <<s>>
  <2>1. seqs[1] = s /\ Len(seqs) = 1 /\ PrefixesJoined(p, seqs, S)
    BY <1>2, <1>3
  <2> HIDE DEF seqs
  <2>2. p[0] = <<>> /\ p[1] = FlattenSeq(seqs)
    BY <2>1 DEF PrefixesJoined
  <2>3. p[1] = p[1 - 1] \o seqs[1]
    <3>1. 1 \in 1 .. Len(seqs)
      BY <2>1
    <3> QED BY <2>1, <3>1 DEF PrefixesJoined
  <2>4. p[1 - 1] = <<>>
    BY <2>2
  <2>5. FlattenSeq(seqs) = <<>> \o s
    BY <2>1, <2>2, <2>3, <2>4
  <2> QED BY <2>5 DEF seqs
<1>5. <<>> \o s = s
  BY ConcatEmptySeq
<1> QED BY <1>1, <1>4, <1>5

\* So do two sequences of one element, unless they are the same.
LEMMA SinglesDiverge ==
  ASSUME NEW x \in Tokens, NEW y \in Tokens
  PROVE  /\ <<x>> \in Seq(Tokens)
         /\ x = y \/ Diverge(<<x>>, <<y>>)
<1>1. /\ DOMAIN <<x>> = {1} /\ <<x>>[1] = x
      /\ DOMAIN <<y>> = {1} /\ <<y>>[1] = y
  OBVIOUS
<1> QED BY <1>1 DEF Diverge

\* What a tag adds tells its value, unless there is no choice.
LEMMA TagForm ==
  ASSUME NEW ty \in TagDefs, NEW strings \in SUBSET STRING,
         NEW v \in TagValues(ty, strings), NEW w \in TagValues(ty, strings)
  PROVE  /\ HashedTag(ty, v) \in Seq(Tokens)
         /\ v = w \/ Diverge(HashedTag(ty, v), HashedTag(ty, w))
<1>1. CASE ~IsEnum(ty)
  <2>1. v \in STRING /\ w \in STRING
    BY <1>1 DEF TagValues
  <2>2. HashedTag(ty, v) = <<<<"bytes", v>>>> /\ HashedTag(ty, w) = <<<<"bytes", w>>>>
    BY <1>1 DEF HashedTag
  <2>3. <<"bytes", v>> \in Tokens /\ <<"bytes", w>> \in Tokens
    BY <2>1 DEF Tokens
  <2>4. v = w \/ <<"bytes", v>> # <<"bytes", w>>
    OBVIOUS
  <2> QED BY <2>2, <2>3, <2>4, SinglesDiverge
<1>2. CASE IsEnum(ty)
  <2> DEFINE i == VariantOf(ty, v)
             j == VariantOf(ty, w)
  <2>1. Variants(ty) \in Seq(STRING \X STRING)
    BY <1>2 DEF IsEnum, Variants, None, TagDefs
  <2>2. /\ i \in 1 .. Len(Variants(ty)) /\ Variants(ty)[i][1] = v
        /\ j \in 1 .. Len(Variants(ty)) /\ Variants(ty)[j][1] = w
        /\ Len(Variants(ty)) \in Nat
    <3>1. DOMAIN Variants(ty) = 1 .. Len(Variants(ty)) /\ Len(Variants(ty)) \in Nat
      BY <2>1
    <3> QED BY <1>2, <3>1, ExportValueType
  <2> HIDE DEF i, j
  <2>3. CASE Len(Variants(ty)) = 1
    <3>1. HashedTag(ty, v) = <<>>
      BY <1>2, <2>3 DEF HashedTag
    <3>2. v = w
      BY <2>2, <2>3
    <3> QED BY <3>1, <3>2
  <2>4. CASE Len(Variants(ty)) # 1
    <3>1. /\ HashedTag(ty, v) = <<<<"discriminant", i - 1>>>>
          /\ HashedTag(ty, w) = <<<<"discriminant", j - 1>>>>
      BY <1>2, <2>4 DEF HashedTag, i, j
    <3>2. <<"discriminant", i - 1>> \in Tokens /\ <<"discriminant", j - 1>> \in Tokens
      BY <2>2 DEF Tokens
    <3>3. v = w \/ <<"discriminant", i - 1>> # <<"discriminant", j - 1>>
      BY <2>2
    <3> QED BY <3>1, <3>2, <3>3, SinglesDiverge
  <2> QED BY <2>3, <2>4
<1> QED BY <1>1, <1>2

\* What a field adds: of an optional one its discriminant and then, as of a required
\* one, what its tag adds.
LEMMA FieldForm ==
  ASSUME NEW ref \in TagRefs, NEW strings \in SUBSET STRING, NEW x \in FieldValues(ref, strings)
  PROVE  \/ /\ x = None /\ ref.optional
            /\ HashedField(ref, x) = <<<<"discriminant", 0>>>>
         \/ \E v \in TagValues(ref.ty, strings) :
               /\ x = <<v>>
               /\ HashedField(ref, x) = IF ref.optional
                                        THEN <<<<"discriminant", 1>>>> \o HashedTag(ref.ty, v)
                                        ELSE HashedTag(ref.ty, v)
<1> DEFINE parts == [k \in DOMAIN x |-> HashedTag(ref.ty, x[k])]
<1>1. ref.optional \in BOOLEAN /\ ref.ty \in TagDefs
  BY DEF TagRefs
<1>2. HashedField(ref, x) = IF ref.optional
                            THEN <<<<"discriminant", Len(x)>>>> \o FlattenSeq(parts)
                            ELSE FlattenSeq(parts)
  BY DEF HashedField
<1>3. CASE x = None
  <2>1. ref.optional
    BY <1>3 DEF FieldValues, Some, None
  <2>2. parts = <<>> /\ Len(x) = 0
    BY <1>3 DEF None
  <2>3. FlattenSeq(parts) = <<>>
    BY <2>2, FlattenFew, EmptySeq
  <2>4. <<"discriminant", 0>> \in Tokens
    BY DEF Tokens
  <2>5. <<<<"discriminant", 0>>>> \o <<>> = <<<<"discriminant", 0>>>>
    BY <2>4, ConcatEmptySeq
  <2> HIDE DEF parts
  <2>6. HashedField(ref, x) = <<<<"discriminant", 0>>>> \o <<>>
    BY <1>2, <2>1, <2>2, <2>3
  <2> QED BY <1>3, <2>1, <2>5, <2>6
<1>4. CASE x # None
  <2>1. PICK v \in TagValues(ref.ty, strings) : x = <<v>>
    BY <1>4 DEF FieldValues, Some
  <2>2. DOMAIN x = {1} /\ x[1] = v /\ Len(x) = 1
    BY <2>1
  <2>3. parts = <<HashedTag(ref.ty, v)>>
    <3>1. DOMAIN parts = 1 .. 1 /\ parts[1] = HashedTag(ref.ty, v)
      BY <2>2
    <3>2. parts = [k \in 1 .. 1 |-> HashedTag(ref.ty, v)]
      BY <2>2
    <3> QED BY <3>2
  <2>4. HashedTag(ref.ty, v) \in Seq(Tokens)
    BY <1>1, TagForm
  <2> HIDE DEF parts
  <2>5. FlattenSeq(parts) = HashedTag(ref.ty, v)
    BY <2>3, <2>4, FlattenFew
  <2>6. HashedField(ref, x) = IF ref.optional
                              THEN <<<<"discriminant", 1>>>> \o HashedTag(ref.ty, v)
                              ELSE HashedTag(ref.ty, v)
    BY <1>2, <2>2, <2>5
  <2> QED BY <2>1, <2>6
<1> QED BY <1>3, <1>4

\* What a field adds tells its value.
LEMMA FieldTells ==
  ASSUME NEW ref \in TagRefs, NEW strings \in SUBSET STRING,
         NEW x \in FieldValues(ref, strings), NEW y \in FieldValues(ref, strings)
  PROVE  /\ HashedField(ref, x) \in Seq(Tokens)
         /\ x = y \/ Diverge(HashedField(ref, x), HashedField(ref, y))
<1> DEFINE none == <<<<"discriminant", 0>>>>
           some == <<<<"discriminant", 1>>>>
           tag(v) == HashedTag(ref.ty, v)
<1>1. ref.ty \in TagDefs
  BY DEF TagRefs
<1>2. /\ none \in Seq(Tokens) /\ DOMAIN none = {1} /\ none[1] = <<"discriminant", 0>>
      /\ some \in Seq(Tokens) /\ DOMAIN some = {1} /\ some[1] = <<"discriminant", 1>>
      /\ Len(some) = 1
  <2>1. <<"discriminant", 0>> \in Tokens /\ <<"discriminant", 1>> \in Tokens
    BY DEF Tokens
  <2> QED BY <2>1
<1>3. \A v \in TagValues(ref.ty, strings) : tag(v) \in Seq(Tokens)
  BY <1>1, TagForm
<1>4. \A v, w \in TagValues(ref.ty, strings) : v = w \/ Diverge(tag(v), tag(w))
  BY <1>1, TagForm
<1>5. <<"discriminant", 0>> # <<"discriminant", 1>>
  OBVIOUS
<1> HIDE DEF none, some, tag
<1>6. \A v \in TagValues(ref.ty, strings) :
         /\ some \o tag(v) \in Seq(Tokens)
         /\ 1 \in DOMAIN (some \o tag(v)) /\ (some \o tag(v))[1] = some[1]
         /\ \A k \in DOMAIN tag(v) : /\ k + 1 \in DOMAIN (some \o tag(v))
                                     /\ (some \o tag(v))[k + 1] = tag(v)[k]
  <2> TAKE v \in TagValues(ref.ty, strings)
  <2>1. tag(v) \in Seq(Tokens)
    BY <1>3
  <2> DEFINE t == tag(v)
  <2>2. t \in Seq(Tokens)
    BY <2>1
  <2> HIDE DEF t
  <2>3. /\ some \o t \in Seq(Tokens)
        /\ 1 \in DOMAIN (some \o t) /\ (some \o t)[1] = some[1]
    BY <1>2, <2>2
  <2>4. ASSUME NEW k \in DOMAIN t
        PROVE  k + 1 \in DOMAIN (some \o t) /\ (some \o t)[k + 1] = t[k]
    <3>1. Len(some) + k \in DOMAIN (some \o t) /\ (some \o t)[Len(some) + k] = t[k]
      BY <1>2, <2>2, ConcatBehind
    <3>2. Len(some) + k = k + 1
      BY <1>2, <2>2
    <3> QED BY <3>1, <3>2
  <2> QED BY <2>3, <2>4 DEF t
<1>7. \A v \in TagValues(ref.ty, strings) :
         Diverge(none, some \o tag(v)) /\ Diverge(some \o tag(v), none)
  BY <1>2, <1>5, <1>6 DEF Diverge
<1>8. ASSUME NEW v \in TagValues(ref.ty, strings), NEW w \in TagValues(ref.ty, strings),
             Diverge(tag(v), tag(w))
      PROVE  Diverge(some \o tag(v), some \o tag(w))
  <2>1. PICK k \in DOMAIN tag(v) \cap DOMAIN tag(w) : tag(v)[k] # tag(w)[k]
    BY <1>8 DEF Diverge
  <2>2. /\ k + 1 \in DOMAIN (some \o tag(v)) /\ (some \o tag(v))[k + 1] = tag(v)[k]
        /\ k + 1 \in DOMAIN (some \o tag(w)) /\ (some \o tag(w))[k + 1] = tag(w)[k]
    BY <1>6, <2>1
  <2> DEFINE s == some \o tag(v)
             t == some \o tag(w)
  <2>3. k + 1 \in DOMAIN s \cap DOMAIN t /\ s[k + 1] # t[k + 1]
    BY <2>1, <2>2
  <2> HIDE DEF s, t
  <2>4. Diverge(s, t)
    BY <2>3 DEF Diverge
  <2> QED BY <2>4 DEF s, t
<1>9. \A z \in FieldValues(ref, strings) :
         \/ z = None /\ ref.optional /\ HashedField(ref, z) = none
         \/ \E v \in TagValues(ref.ty, strings) :
               /\ z = <<v>>
               /\ HashedField(ref, z) = IF ref.optional THEN some \o tag(v) ELSE tag(v)
  BY FieldForm DEF none, some, tag
<1>10. HashedField(ref, x) \in Seq(Tokens)
  <2>1. CASE x = None /\ HashedField(ref, x) = none
    BY <1>2, <2>1
  <2>2. ASSUME NEW v \in TagValues(ref.ty, strings),
               HashedField(ref, x) = IF ref.optional THEN some \o tag(v) ELSE tag(v)
        PROVE  HashedField(ref, x) \in Seq(Tokens)
    <3>1. CASE ref.optional
      BY <1>6, <2>2, <3>1
    <3>2. CASE ~ref.optional
      BY <1>3, <2>2, <3>2
    <3> QED BY <3>1, <3>2
  <2> QED BY <1>9, <2>1, <2>2
<1>11. CASE ref.optional
  <2>1. \/ x = None /\ HashedField(ref, x) = none
        \/ \E v \in TagValues(ref.ty, strings) : x = <<v>> /\ HashedField(ref, x) = some \o tag(v)
    BY <1>9, <1>11
  <2>2. \/ y = None /\ HashedField(ref, y) = none
        \/ \E v \in TagValues(ref.ty, strings) : y = <<v>> /\ HashedField(ref, y) = some \o tag(v)
    BY <1>9, <1>11
  <2> QED BY <1>4, <1>7, <1>8, <1>10, <2>1, <2>2
<1>12. CASE ~ref.optional
  <2>1. PICK v \in TagValues(ref.ty, strings) : x = <<v>> /\ HashedField(ref, x) = tag(v)
    BY <1>9, <1>12
  <2>2. PICK w \in TagValues(ref.ty, strings) : y = <<w>> /\ HashedField(ref, y) = tag(w)
    BY <1>9, <1>12
  <2> QED BY <1>4, <1>10, <2>1, <2>2
<1> QED BY <1>11, <1>12

\* Two structs of one metric that feed the hasher with the same have the same fields:
\* no optional tag is mistaken for a missing one, and no value of a field runs into
\* the next field, whatever the tags of the metric are (lib.rs tags_hash, which
\* leaves out the names of the fields).
THEOREM HashTellsStructs ==
  ASSUME NEW metric \in MetricStructs, NEW strings \in SUBSET STRING,
         NEW f \in FieldsOf(metric, strings), NEW g \in FieldsOf(metric, strings),
         Hashed(metric, f) = Hashed(metric, g)
  PROVE  f = g
<1> DEFINE n == Len(metric.tags)
           Code(h) == [i \in DOMAIN h |-> HashedField(metric.tags[i], h[i])]
<1>1. /\ n \in Nat
      /\ DOMAIN f = 1 .. n /\ f = [i \in DOMAIN f |-> f[i]]
      /\ DOMAIN g = 1 .. n /\ g = [i \in DOMAIN g |-> g[i]]
  BY FieldsForm
<1>2. \A i \in 1 .. n : metric.tags[i] \in TagRefs
  BY FieldsForm
<1>3. \A i \in 1 .. n : /\ f[i] \in FieldValues(metric.tags[i], strings)
                        /\ g[i] \in FieldValues(metric.tags[i], strings)
  BY DEF FieldsOf
<1>4. /\ Code(f) \in [1 .. n -> Seq(Tokens)]
      /\ Code(g) \in [1 .. n -> Seq(Tokens)]
      /\ \A i \in 1 .. n : f[i] = g[i] \/ Diverge(Code(f)[i], Code(g)[i])
  <2>1. \A i \in 1 .. n : /\ HashedField(metric.tags[i], f[i]) \in Seq(Tokens)
                          /\ HashedField(metric.tags[i], g[i]) \in Seq(Tokens)
                          /\ f[i] = g[i] \/ Diverge(HashedField(metric.tags[i], f[i]),
                                                    HashedField(metric.tags[i], g[i]))
    BY <1>2, <1>3, FieldTells
  <2> QED BY <1>1, <2>1
<1>5. Hashed(metric, f) = FlattenSeq(Code(f)) /\ Hashed(metric, g) = FlattenSeq(Code(g))
  BY DEF Hashed
<1> DEFINE a == Code(f)
           b == Code(g)
<1>6. /\ a \in Seq(Seq(Tokens)) /\ b \in Seq(Seq(Tokens)) /\ Len(a) = n /\ Len(b) = n
      /\ FlattenSeq(a) = FlattenSeq(b)
      /\ \A i \in 1 .. n : f[i] = g[i] \/ Diverge(a[i], b[i])
      /\ \A i \in 1 .. n : f[i] = g[i] => a[i] = b[i]
  <2>1. \A i \in 1 .. n : f[i] = g[i] => a[i] = b[i]
    BY <1>1
  <2>2. FlattenSeq(a) = FlattenSeq(b)
    BY <1>5
  <2>3. a \in [1 .. n -> Seq(Tokens)] /\ b \in [1 .. n -> Seq(Tokens)]
    BY <1>4
  <2> DEFINE Codes == Seq(Tokens)
  <2> HIDE DEF a, b, n, Codes
  <2>4. \A c \in [1 .. n -> Codes] : c \in Seq(Codes) /\ Len(c) = n
    <3> TAKE c \in [1 .. n -> Codes]
    <3>1. DOMAIN c = 1 .. n
      OBVIOUS
    <3> QED BY <1>1, <3>1
  <2>5. a \in Seq(Seq(Tokens)) /\ b \in Seq(Seq(Tokens)) /\ Len(a) = n /\ Len(b) = n
    BY <2>3, <2>4 DEF Codes
  <2> QED BY <1>4, <2>1, <2>2, <2>5 DEF a, b
<1> HIDE DEF a, b, n
<1>7. \A i \in 1 .. n : a[i] = b[i]
  <2>1. Len(a) = Len(b) /\ \A i \in 1 .. Len(a) : a[i] = b[i] \/ Diverge(a[i], b[i])
    BY <1>6
  <2>2. \A i \in 1 .. Len(a) : a[i] = b[i]
    BY <1>6, <2>1, CodesApart
  <2> QED BY <1>6, <2>2
<1>8. \A i \in 1 .. n : f[i] = g[i]
  BY <1>6, <1>7 DEF Diverge
<1> QED BY <1>1, <1>8

-----------------------------------------------------------------------------
(* The tags of a line.                                                     *)

LEMMA KeysApartParts ==
  ASSUME NEW metric \in MetricStructs, KeysApart(metric)
  PROVE  /\ KeysDistinct(KeysOf(metric)) /\ KeysDistinct(DefaultTags)
         /\ \A i \in DOMAIN DefaultTags, j \in DOMAIN KeysOf(metric) :
               DefaultTags[i][1] # KeysOf(metric)[j][1]
         /\ metric.kind = "histogram" =>
               \A j \in DOMAIN KeysOf(metric) : KeysOf(metric)[j][1] # "le"
<1> DEFINE S == (STRING \X STRING) \cup Seq(STRING) \cup {<<"le">>}
           keys == KeysOf(metric)
<1>1. DefaultTags \in Seq(S)
  BY FormatsAssumption, SeqMonotonic
<1>2. keys \in Seq(S)
  BY KeysOfForm, SeqMonotonic
<1>3. <<"le">> \in S /\ <<"le">>[1] = "le"
  OBVIOUS
<1>4. KeysDistinct(DefaultTags \o keys)
  BY DEF KeysApart, KeysOf, FormatTags
<1>5. metric.kind = "histogram" => KeysDistinct(Append(keys, <<"le">>))
  BY DEF KeysApart, KeysOf
<1> HIDE DEF S, keys
<1>6. /\ KeysDistinct(keys) /\ KeysDistinct(DefaultTags)
      /\ \A i \in DOMAIN DefaultTags, j \in DOMAIN keys : DefaultTags[i][1] # keys[j][1]
  BY <1>1, <1>2, <1>4, KeysConcat
<1>7. metric.kind = "histogram" => \A j \in DOMAIN keys : keys[j][1] # "le"
  BY <1>2, <1>3, <1>5, KeysAppend
<1> QED BY <1>6, <1>7 DEF keys

\* No line has two tags of one key.
LEMMA TagsDistinct ==
  ASSUME NEW metric \in MetricStructs, KeysApart(metric), NEW strings \in SUBSET STRING,
         NEW f \in FieldsOf(metric, strings)
  PROVE  /\ KeysDistinct(FormatTags(ExportPairs(metric, f)))
         /\ KeysDistinct(ExportPairs(metric, f))
         /\ metric.kind = "histogram" =>
               \A le : KeysDistinct(Append(ExportPairs(metric, f), <<"le", le>>))
<1> DEFINE pairs == ExportPairs(metric, f)
           keys == KeysOf(metric)
<1>1. /\ pairs \in Seq(STRING \X STRING) /\ KeysDistinct(pairs)
      /\ \A k \in DOMAIN pairs : \E i \in DOMAIN keys : pairs[k][1] = keys[i][1]
  BY KeysApartParts, PairsForm, PairsKeys
<1>2. /\ DefaultTags \in Seq(STRING \X STRING) /\ KeysDistinct(DefaultTags)
      /\ \A i \in DOMAIN DefaultTags, j \in DOMAIN keys : DefaultTags[i][1] # keys[j][1]
  BY KeysApartParts, FormatsAssumption
<1>3. metric.kind = "histogram" => \A j \in DOMAIN keys : keys[j][1] # "le"
  BY KeysApartParts
<1> HIDE DEF pairs, keys
<1>4. KeysDistinct(DefaultTags \o pairs)
  <2>1. \A i \in DOMAIN DefaultTags, k \in DOMAIN pairs : DefaultTags[i][1] # pairs[k][1]
    BY <1>1, <1>2
  <2> QED BY <1>1, <1>2, <2>1, KeysConcat
<1>5. ASSUME metric.kind = "histogram", NEW le
      PROVE  KeysDistinct(Append(pairs, <<"le", le>>))
  <2> DEFINE S == (STRING \X STRING) \cup {<<"le", le>>}
  <2>1. pairs \in Seq(S) /\ <<"le", le>> \in S /\ <<"le", le>>[1] = "le"
    BY <1>1, SeqMonotonic
  <2>2. \A k \in DOMAIN pairs : pairs[k][1] # <<"le", le>>[1]
    BY <1>1, <1>3, <1>5, <2>1
  <2> HIDE DEF S
  <2> QED BY <1>1, <2>1, <2>2, KeysAppend
<1> QED BY <1>1, <1>4, <1>5 DEF pairs, FormatTags

-----------------------------------------------------------------------------
(* Series that are structs.                                                *)

LEMMA StructForm ==
  ASSUME Series \subseteq Structs, Kind = KindOfStruct(Series), NEW s \in Series
  PROVE  /\ Definition[s.metric] \in Definitions
         /\ Definition[s.metric] \in MetricStructs
         /\ Kind[s] = Definition[s.metric].kind
         /\ s.fields \in FieldsOf(Definition[s.metric], Strings)
         /\ s = [metric |-> s.metric, fields |-> s.fields]
<1>1. PICK metric \in Definitions : \E f \in FieldsOf(metric, Strings) :
         s = [metric |-> metric.ident, fields |-> f]
  BY DEF Structs
<1>2. /\ s.metric = metric.ident /\ s.fields \in FieldsOf(metric, Strings)
      /\ s = [metric |-> s.metric, fields |-> s.fields]
  BY <1>1
<1>3. Definition[s.metric] = CHOOSE m \in Definitions : m.ident = s.metric
  BY <1>2 DEF Definition
<1>4. Definition[s.metric] \in Definitions /\ Definition[s.metric].ident = metric.ident
  BY <1>2, <1>3
<1>5. Definition[s.metric] = metric
  BY <1>4, CompilesAssumption
<1>6. metric \in MetricStructs
  BY CompilesAssumption DEF Compiles
<1>7. Kind[s] = Definition[s.metric].kind
  BY DEF KindOfStruct
<1> QED BY <1>2, <1>5, <1>6, <1>7

LEMMA IdentOfStruct ==
  ASSUME Series \subseteq Structs, NEW s \in Series
  PROVE  Definition[s.metric].ident = s.metric
<1>1. PICK metric \in Definitions : \E f \in FieldsOf(metric, Strings) :
         s = [metric |-> metric.ident, fields |-> f]
  BY DEF Structs
<1>2. Definition[s.metric] = CHOOSE m \in Definitions : m.ident = s.metric
  BY <1>1 DEF Definition
<1> QED BY <1>1, <1>2

\* Structs of one metric that export the same pairs are the same.
LEMMA PairsApart ==
  ASSUME Distinguishable, NEW s \in Series, NEW t \in Series, s.metric = t.metric,
         Pairs(s) = Pairs(t)
  PROVE  s = t
<1> DEFINE metric == Definition[s.metric]
<1>1. /\ metric \in Definitions /\ metric \in MetricStructs
      /\ s.fields \in FieldsOf(metric, Strings) /\ t.fields \in FieldsOf(metric, Strings)
  BY StructForm DEF Distinguishable
<1>2. KeysDistinct(KeysOf(metric))
  BY <1>1, KeysApartParts DEF Distinguishable
<1>3. \A i \in DOMAIN metric.tags : ValuesApart(metric.tags[i].ty)
  BY <1>1 DEF Distinguishable
<1>4. Range(ExportPairs(metric, s.fields)) = Range(ExportPairs(metric, t.fields))
  BY DEF Pairs
<1> HIDE DEF metric
<1>5. s.fields = t.fields
  BY <1>1, <1>2, <1>3, <1>4, PairsTellStructs, StringsAssumption
<1> QED BY <1>5, StructForm DEF Distinguishable


-----------------------------------------------------------------------------
(* The lines of a series.                                                  *)

\* The names that lines are made of.
LEMMA NameType ==
  ASSUME NEW metric \in MetricStructs
  PROVE  FullName(metric) \in Seq(Words) /\ Joined(FullName(metric)) \in Words
<1>1. metric.namespace \in Seq(Words) /\ metric.name \in Words
  BY DEF MetricStructs
<1>2. FullName(metric) \in Seq(Words)
  <2>1. <<metric.name>> \in Seq(Words)
    BY <1>1
  <2>2. Prefix \o metric.namespace \in Seq(Words)
    BY <1>1, FormatsAssumption, ConcatProperties
  <2> QED BY <2>1, <2>2, ConcatProperties DEF FullName
<1>3. Joined(FullName(metric)) \in Seq(STRING)
  BY <1>2, FlattenType DEF Joined, Words
<1> QED BY <1>2, <1>3 DEF Words

LEMMA LineParts ==
  ASSUME NEW m, NEW n, NEW t, NEW u
  PROVE  /\ Line(m, t).name = m /\ Line(m, t).tags = t
         /\ Line(m, t) = Line(n, u) => m = n /\ t = u
<1>1. Line(m, t).name = m /\ Line(m, t).tags = t /\ Line(n, u).name = n /\ Line(n, u).tags = u
  BY DEF Line
<1> QED BY <1>1

\* Of one word after the name of a metric there are these.
HistogramParts ==
    <<<<"count">>, <<"avg">>>> \o
    [i \in DOMAIN Percentiles |-> PercentileLabel(Percentiles[i])]

LEMMA HistogramPartsApart ==
  ASSUME LabelsApart
  PROVE  HistogramParts \in Seq(Range(HistogramParts)) /\ IsInjective(HistogramParts)
<1> DEFINE n == Len(Percentiles)
           labels == [i \in DOMAIN Percentiles |-> PercentileLabel(Percentiles[i])]
           head == <<<<"count">>, <<"avg">>>>
           S == Range(head) \cup Range(labels)
<1>1. n \in Nat /\ DOMAIN Percentiles = 1 .. n /\ DOMAIN labels = 1 .. n
  BY FormatsAssumption
<1>2. labels \in Seq(S) /\ IsInjective(labels)
  <2>1. labels \in [1 .. n -> S]
    BY <1>1 DEF Range
  <2> QED BY <1>1, <2>1 DEF LabelsApart
<1>3. DOMAIN head = 1 .. 2 /\ head[1] = <<"count">> /\ head[2] = <<"avg">>
  OBVIOUS
<1>4. <<"count">> # <<"avg">>
  <2>1. <<"count">>[1] # <<"avg">>[1]
    OBVIOUS
  <2> QED BY <2>1
<1>5. Range(labels) = {labels[i] : i \in 1 .. n}
  BY <1>1 DEF Range
<1>6. \A i \in 1 .. n : Len(labels[i]) = 2
  BY <1>1 DEF PercentileLabel
<1>7. Range(head) = {<<"count">>, <<"avg">>}
  BY <1>3 DEF Range
<1>8. \A x \in Range(head) : Len(x) = 1
  BY <1>7
<1>9. head \in Seq(S)
  <2>1. <<"count">> \in S /\ <<"avg">> \in S
    BY <1>7
  <2> HIDE DEF S
  <2> QED BY <2>1
<1>10. IsInjective(head)
  BY <1>3, <1>4, InjectiveDef
<1>11. \A x \in Range(head), y \in Range(labels) : x # y
  <2> TAKE x \in Range(head), y \in Range(labels)
  <2>1. Len(x) = 1
    BY <1>8
  <2>2. Len(y) = 2
    BY <1>5, <1>6
  <2> QED BY <2>1, <2>2
<1>12. HistogramParts = head \o labels
  BY DEF HistogramParts
<1> HIDE DEF S, head, labels
<1>13. IsInjective(HistogramParts) /\ HistogramParts \in Seq(S)
  BY <1>2, <1>9, <1>10, <1>11, <1>12, InjectiveConcat, ConcatProperties
<1>14. HistogramParts \in Seq(Range(HistogramParts))
  BY <1>13 DEF Range
<1> QED BY <1>13, <1>14

\* StatsD: each line of a series has its tags, and no two have one name.
LEMMA StatsdForm ==
  ASSUME Distinguishable, NEW s \in Series
  PROVE  /\ \A line \in Range(StatsdLines(s)) : line.tags = FormatTags(Pairs(s))
         /\ IsInjective(StatsdLines(s))
<1> DEFINE name == FullName(Definition[s.metric])
           tags == FormatTags(Pairs(s))
<1>1. name \in Seq(Words)
  BY StructForm, NameType DEF Distinguishable
<1>2. CASE Kind[s] = "histogram" /\ ~Passthrough /\ ~Distribution
  <2> DEFINE L == [i \in DOMAIN HistogramParts |-> Line(Append(name, HistogramParts[i]), tags)]
  <2>1. StatsdLines(s) = L
    BY <1>2 DEF StatsdLines, HistogramParts
  <2>2. \A i \in DOMAIN L : L[i] = Line(Append(name, HistogramParts[i]), tags) /\ i \in DOMAIN HistogramParts
    OBVIOUS
  <2> HIDE DEF L
  <2>3. ASSUME NEW i \in DOMAIN L, NEW j \in DOMAIN L, L[i] = L[j] PROVE i = j
    <3> DEFINE S == Words \cup Range(HistogramParts)
    <3>1. name \in Seq(S)
      BY <1>1, SeqMonotonic
    <3>2. HistogramParts[i] \in S /\ HistogramParts[j] \in S
      BY <2>2 DEF Range
    <3> HIDE DEF S, name, tags
    <3>3. Append(name, HistogramParts[i]) = Append(name, HistogramParts[j])
      <4>1. L[i].name = Append(name, HistogramParts[i]) /\ L[j].name = Append(name, HistogramParts[j])
        BY <2>2, LineParts
      <4> QED BY <2>3, <4>1
    <3>4. HistogramParts[i] = HistogramParts[j]
      BY <3>1, <3>2, <3>3, AppendInjective
    <3> QED BY <2>2, <3>4, HistogramPartsApart, InjectiveDef DEF Distinguishable
  <2> HIDE DEF name, tags
  <2>4. IsInjective(L)
    BY <2>3, InjectiveDef
  <2>5. \A line \in Range(L) : line.tags = tags
    BY <2>2, LineParts DEF Range
  <2> QED BY <2>1, <2>4, <2>5 DEF tags
<1>3. CASE ~(Kind[s] = "histogram" /\ ~Passthrough /\ ~Distribution)
  <2>1. StatsdLines(s) = <<Line(name, tags)>>
    BY <1>3 DEF StatsdLines
  <2>2. DOMAIN StatsdLines(s) = {1} /\ StatsdLines(s)[1] = Line(name, tags)
    BY <2>1
  <2>3. IsInjective(StatsdLines(s))
    BY <2>2, InjectiveDef
  <2>4. Range(StatsdLines(s)) = {Line(name, tags)}
    BY <2>2, RangeSingle
  <2> QED BY <2>3, <2>4, LineParts
<1> QED BY <1>2, <1>3

LEMMA NamesDiffer ==
  ASSUME NEW name \in Words, NEW x, NEW y
  PROVE  /\ Append(name, x) # name
         /\ Append(name, x) = Append(name, y) => x = y
<1> DEFINE S == STRING \cup {x, y}
<1>1. name \in Seq(S) /\ x \in S /\ y \in S
  BY SeqMonotonic DEF Words
<1> HIDE DEF S
<1>2. Len(Append(name, x)) = Len(name) + 1 /\ Len(name) \in Nat
  BY <1>1
<1>3. Append(name, x) = Append(name, y) => x = y
  BY <1>1, AppendInjective
<1> QED BY <1>2, <1>3

LEMMA BucketTags ==
  ASSUME NEW p \in Seq(STRING \X STRING), NEW q \in Seq(STRING \X STRING), NEW x, NEW y,
         Append(p, <<"le", x>>) = Append(q, <<"le", y>>)
  PROVE  p = q /\ x = y
<1> DEFINE S == (STRING \X STRING) \cup {<<"le", x>>, <<"le", y>>}
<1>1. p \in Seq(S) /\ q \in Seq(S) /\ <<"le", x>> \in S /\ <<"le", y>> \in S
  BY SeqMonotonic
<1> HIDE DEF S
<1>2. p = q /\ <<"le", x>> = <<"le", y>>
  BY <1>1, AppendInjective
<1> QED BY <1>2

LEMMA PairsType ==
  ASSUME Distinguishable, NEW s \in Series
  PROVE  Pairs(s) \in Seq(STRING \X STRING)
  BY StructForm, PairsForm, StringsAssumption DEF Distinguishable, Pairs

\* Prometheus: the lines of the buckets of a series have its tags and another one,
\* the other lines have its tags, and no two lines are the same.
BucketLine(name, tags, le) == Line(Append(name, "bucket"), Append(tags, <<"le", le>>))

LEMMA PrometheusForm ==
  ASSUME Distinguishable, NEW s \in Series, NEW name,
         name = Joined(FullName(Definition[s.metric]))
  PROVE  /\ \A line \in Range(PrometheusLines(s)) :
               \/ line.tags = Pairs(s) /\ line.name # Append(name, "bucket")
               \/ Kind[s] = "histogram" /\ \E le : line = BucketLine(name, Pairs(s), le)
         /\ IsInjective(PrometheusLines(s))
<1> DEFINE tags == Pairs(s)
<1>1. name \in Words /\ tags \in Seq(STRING \X STRING)
  BY StructForm, NameType, PairsType DEF Distinguishable
<1>2. Kind[s] \in {"count", "gauge", "histogram"}
  BY SeriesAssumption DEF Kinds
<1>3. CASE Kind[s] = "count"
  <2> DEFINE line == Line(Append(name, "total"), tags)
  <2>1. PrometheusLines(s) = <<line>>
    BY <1>3 DEF PrometheusLines
  <2>2. line.tags = tags /\ line.name = Append(name, "total")
    BY LineParts
  <2> HIDE DEF line
  <2>3. DOMAIN PrometheusLines(s) = {1} /\ PrometheusLines(s)[1] = line
    BY <2>1
  <2>4. Range(PrometheusLines(s)) = {line}
    BY <2>3, RangeSingle
  <2>5. line.name # Append(name, "bucket")
    BY <1>1, <2>2, NamesDiffer
  <2> QED BY <2>2, <2>3, <2>4, <2>5, InjectiveDef
<1>4. CASE Kind[s] = "gauge"
  <2> DEFINE line == Line(name, tags)
  <2>1. PrometheusLines(s) = <<line>>
    BY <1>4 DEF PrometheusLines
  <2>2. line.tags = tags /\ line.name = name
    BY LineParts
  <2> HIDE DEF line
  <2>3. DOMAIN PrometheusLines(s) = {1} /\ PrometheusLines(s)[1] = line
    BY <2>1
  <2>4. Range(PrometheusLines(s)) = {line}
    BY <2>3, RangeSingle
  <2>5. line.name # Append(name, "bucket")
    BY <1>1, <2>2, NamesDiffer
  <2> QED BY <2>2, <2>3, <2>4, <2>5, InjectiveDef
<1>5. CASE Kind[s] = "histogram"
  <2> DEFINE bucket(le) == BucketLine(name, tags, le)
             buckets == [i \in DOMAIN Boundaries |-> bucket(FormatLe(Boundaries[i]))]
             last == bucket("+Inf")
             sum == Line(Append(name, "sum"), tags)
             count == Line(Append(name, "count"), tags)
             rest == <<last, sum, count>>
             n == Len(Boundaries)
             S == Range(buckets) \cup {last, sum, count}
  <2>1. PrometheusLines(s) = buckets \o rest
    BY <1>5 DEF PrometheusLines, BucketLine
  <2>2. n \in Nat /\ DOMAIN Boundaries = 1 .. n /\ DOMAIN buckets = 1 .. n
    BY FormatsAssumption
  <2>3. /\ \A le : bucket(le).name = Append(name, "bucket")
        /\ \A x, y : bucket(x) = bucket(y) => x = y
    <3>1. \A le : /\ bucket(le).name = Append(name, "bucket")
                  /\ bucket(le).tags = Append(tags, <<"le", le>>)
      BY LineParts DEF BucketLine
    <3> HIDE DEF bucket, tags
    <3>2. ASSUME NEW x, NEW y, bucket(x) = bucket(y) PROVE x = y
      <4>1. Append(tags, <<"le", x>>) = Append(tags, <<"le", y>>)
        BY <3>1, <3>2
      <4> QED BY <1>1, <4>1, BucketTags
    <3> QED BY <3>1, <3>2
  <2>4. /\ sum.name = Append(name, "sum") /\ sum.tags = tags
        /\ count.name = Append(name, "count") /\ count.tags = tags
    BY LineParts
  <2>5. /\ Append(name, "sum") # Append(name, "bucket")
        /\ Append(name, "count") # Append(name, "bucket")
        /\ Append(name, "sum") # Append(name, "count")
    <3>1. "sum" # "bucket" /\ "count" # "bucket" /\ "sum" # "count"
      OBVIOUS
    <3> QED BY <1>1, <3>1, NamesDiffer
  <2>6. /\ DOMAIN rest = 1 .. 3 /\ rest[1] = last /\ rest[2] = sum /\ rest[3] = count
    OBVIOUS
  <2>7. \A i \in 1 .. n : buckets[i] = bucket(FormatLe(Boundaries[i]))
    BY <2>2
  <2>8. last = bucket("+Inf")
    OBVIOUS
  <2> HIDE DEF bucket, buckets, last, sum, count, tags, n
  <2>9. last # sum /\ last # count /\ sum # count
    BY <2>3, <2>4, <2>5, <2>8
  <2>10. IsInjective(rest)
    BY <2>6, <2>9, InjectiveDef
  <2>11. IsInjective(buckets)
    <3>1. \A i, j \in 1 .. n : FormatLe(Boundaries[i]) = FormatLe(Boundaries[j]) => i = j
      BY <2>2 DEF Distinguishable, LabelsApart, IsInjective
    <3> QED BY <2>2, <2>3, <2>7, <3>1, InjectiveDef
  <2>12. buckets \in Seq(S) /\ rest \in Seq(S)
    <3>1. buckets \in [1 .. n -> S]
      <4>1. \A i \in 1 .. n : buckets[i] \in S
        BY <2>2 DEF Range
      <4>2. buckets = [i \in 1 .. n |-> buckets[i]]
        BY <2>2 DEF buckets
      <4> HIDE DEF S
      <4> QED BY <4>1, <4>2
    <3>2. last \in S /\ sum \in S /\ count \in S
      OBVIOUS
    <3> HIDE DEF S
    <3> QED BY <2>2, <3>1, <3>2
  <2>13. Range(rest) = {last, sum, count}
    BY <2>6 DEF Range
  <2>14. \A x \in Range(buckets) :
            \E i \in 1 .. n : x = bucket(FormatLe(Boundaries[i]))
    BY <2>2, <2>7 DEF Range
  <2>15. \A x \in Range(buckets), y \in Range(rest) : x # y
    <3> TAKE x \in Range(buckets), y \in Range(rest)
    <3>1. PICK i \in 1 .. n : x = bucket(FormatLe(Boundaries[i]))
      BY <2>14
    <3>2. x # last
      <4>1. FormatLe(Boundaries[i]) # "+Inf"
        BY <2>2 DEF Distinguishable, LabelsApart
      <4> QED BY <2>3, <2>8, <3>1, <4>1
    <3>3. x # sum /\ x # count
      BY <2>3, <2>4, <2>5, <3>1
    <3> QED BY <2>13, <3>2, <3>3
  <2> HIDE DEF rest, S
  <2>16. IsInjective(buckets \o rest) /\ Range(buckets \o rest) = Range(buckets) \cup Range(rest)
    BY <2>10, <2>11, <2>12, <2>15, InjectiveConcat, RangeConcat
  <2>17. ASSUME NEW line \in Range(buckets \o rest)
         PROVE  \/ line.tags = tags /\ line.name # Append(name, "bucket")
                \/ \E le : line = BucketLine(name, tags, le)
    <3>1. CASE line \in Range(buckets) \/ line = last
      BY <2>8, <2>14, <3>1 DEF bucket
    <3>2. CASE line = sum \/ line = count
      BY <2>4, <2>5, <3>2
    <3> QED BY <2>13, <2>16, <3>1, <3>2
  <2> QED BY <1>5, <2>1, <2>16, <2>17 DEF tags
<1> QED BY <1>2, <1>3, <1>4, <1>5


\* The lines of different series differ.
LEMMA StatsdApart ==
  ASSUME Distinguishable, NEW s \in Series, NEW t \in Series \ {s}
  PROVE  Range(StatsdLines(s)) \cap Range(StatsdLines(t)) = {}
<1> SUFFICES ASSUME NEW line \in Range(StatsdLines(s)), line \in Range(StatsdLines(t))
             PROVE  FALSE
  OBVIOUS
<1>1. StatsdOf[s] = StatsdLines(s) /\ StatsdOf[t] = StatsdLines(t)
  BY DEF StatsdOf
<1>2. CASE s.metric # t.metric
  <2>1. NamesOf(StatsdOf, s) \cap NamesOf(StatsdOf, t) = {}
    BY <1>2 DEF Distinguishable, NamesApart
  <2> QED BY <1>1, <2>1 DEF NamesOf
<1>3. CASE s.metric = t.metric
  <2>1. FormatTags(Pairs(s)) = FormatTags(Pairs(t))
    <3>1. line.tags = FormatTags(Pairs(s)) /\ line.tags = FormatTags(Pairs(t))
      BY StatsdForm
    <3> QED BY <3>1
  <2>2. Pairs(s) = Pairs(t)
    <3>1. /\ DefaultTags \in Seq(STRING \X STRING)
          /\ Pairs(s) \in Seq(STRING \X STRING) /\ Pairs(t) \in Seq(STRING \X STRING)
      BY FormatsAssumption, PairsType
    <3> QED BY <2>1, <3>1, ConcatSimplifications DEF FormatTags
  <2> QED BY <1>3, <2>2, PairsApart
<1> QED BY <1>2, <1>3

LEMMA PrometheusApart ==
  ASSUME Distinguishable, NEW s \in Series, NEW t \in Series \ {s}
  PROVE  Range(PrometheusLines(s)) \cap Range(PrometheusLines(t)) = {}
<1> SUFFICES ASSUME NEW line \in Range(PrometheusLines(s)), line \in Range(PrometheusLines(t))
             PROVE  FALSE
  OBVIOUS
<1>1. PrometheusOf[s] = PrometheusLines(s) /\ PrometheusOf[t] = PrometheusLines(t)
  BY DEF PrometheusOf
<1>2. CASE s.metric # t.metric
  <2>1. NamesOf(PrometheusOf, s) \cap NamesOf(PrometheusOf, t) = {}
    BY <1>2 DEF Distinguishable, NamesApart
  <2> QED BY <1>1, <2>1 DEF NamesOf
<1>3. CASE s.metric = t.metric
  <2> DEFINE name == Joined(FullName(Definition[s.metric]))
  <2>1. name = Joined(FullName(Definition[t.metric]))
    BY <1>3
  <2> HIDE DEF name
  <2>2. /\ \/ line.tags = Pairs(s) /\ line.name # Append(name, "bucket")
           \/ \E le : line = BucketLine(name, Pairs(s), le)
        /\ \/ line.tags = Pairs(t) /\ line.name # Append(name, "bucket")
           \/ \E le : line = BucketLine(name, Pairs(t), le)
    BY <2>1, PrometheusForm DEF name
  <2>3. \A tags, le : /\ BucketLine(name, tags, le).name = Append(name, "bucket")
                      /\ BucketLine(name, tags, le).tags = Append(tags, <<"le", le>>)
    BY LineParts DEF BucketLine
  <2>4. Pairs(s) \in Seq(STRING \X STRING) /\ Pairs(t) \in Seq(STRING \X STRING)
    BY PairsType
  <2>5. Pairs(s) = Pairs(t)
    <3>1. CASE line.name # Append(name, "bucket")
      BY <2>2, <2>3, <3>1
    <3>2. CASE line.name = Append(name, "bucket")
      <4>1. PICK x : line = BucketLine(name, Pairs(s), x)
        BY <2>2, <3>2
      <4>2. PICK y : line = BucketLine(name, Pairs(t), y)
        BY <2>2, <3>2
      <4>3. Append(Pairs(s), <<"le", x>>) = Append(Pairs(t), <<"le", y>>)
        BY <2>3, <4>1, <4>2
      <4> QED BY <2>4, <4>3, BucketTags
    <3> QED BY <3>1, <3>2
  <2> QED BY <1>3, <2>5, PairsApart
<1> QED BY <1>2, <1>3

\* Where definitions and options keep names, keys, variants and labels apart, no
\* series is taken for another one: the tags that are exported tell the structs of
\* a metric apart.
THEOREM SeriesReadable ==
  ASSUME Distinguishable
  PROVE  Series \subseteq Readable
<1> SUFFICES ASSUME NEW s \in Series
             PROVE  Unmistakable(StatsdOf, s) /\ Unmistakable(PrometheusOf, s)
  BY DEF Readable
<1>1. \A t \in Series : StatsdOf[t] = StatsdLines(t) /\ PrometheusOf[t] = PrometheusLines(t)
  BY DEF StatsdOf, PrometheusOf
<1>2. /\ KeysDistinct(FormatTags(Pairs(s))) /\ KeysDistinct(Pairs(s))
      /\ Kind[s] = "histogram" => \A le : KeysDistinct(Append(Pairs(s), <<"le", le>>))
  <2> DEFINE metric == Definition[s.metric]
  <2>1. /\ metric \in MetricStructs /\ metric \in Definitions /\ Kind[s] = metric.kind
        /\ s.fields \in FieldsOf(metric, Strings)
    BY StructForm DEF Distinguishable
  <2>2. KeysApart(metric)
    BY <2>1 DEF Distinguishable
  <2> HIDE DEF metric
  <2> QED BY <2>1, <2>2, TagsDistinct, StringsAssumption DEF Pairs, metric
<1>3. Unmistakable(StatsdOf, s)
  <2>1. IsInjective(StatsdLines(s))
    BY StatsdForm
  <2>2. \A t \in Series \ {s} : Range(StatsdLines(s)) \cap Range(StatsdLines(t)) = {}
    BY StatsdApart
  <2>3. \A line \in Range(StatsdLines(s)) : KeysDistinct(line.tags)
    BY <1>2, StatsdForm
  <2> QED BY <1>1, <2>1, <2>2, <2>3 DEF Unmistakable
<1>4. Unmistakable(PrometheusOf, s)
  <2>1. IsInjective(PrometheusLines(s))
    BY PrometheusForm
  <2>2. \A t \in Series \ {s} : Range(PrometheusLines(s)) \cap Range(PrometheusLines(t)) = {}
    BY PrometheusApart
  <2>3. ASSUME NEW line \in Range(PrometheusLines(s)) PROVE KeysDistinct(line.tags)
    <3> DEFINE name == Joined(FullName(Definition[s.metric]))
    <3>1. \/ line.tags = Pairs(s)
          \/ Kind[s] = "histogram" /\ \E le : line = BucketLine(name, Pairs(s), le)
      BY PrometheusForm
    <3> HIDE DEF name
    <3>2. \A le : BucketLine(name, Pairs(s), le).tags = Append(Pairs(s), <<"le", le>>)
      BY LineParts DEF BucketLine
    <3> QED BY <1>2, <3>1, <3>2
  <2> QED BY <1>1, <2>1, <2>2, <2>3 DEF Unmistakable
<1> QED BY <1>3, <1>4

-----------------------------------------------------------------------------
(* OwnSeries.                                                              *)

\* Structs whose combined hashes are equal are the same.
LEMMA HashesApart ==
  ASSUME Series \subseteq Structs, Kind = KindOfStruct(Series), HashTells, LeafNamesDiffer,
         NEW s \in Series, NEW t \in Series, CombineHash(s) = CombineHash(t)
  PROVE  s = t
<1> DEFINE m == Definition[s.metric]
           n == Definition[t.metric]
<1>1. /\ m \in Definitions /\ m \in MetricStructs
      /\ s.fields \in FieldsOf(m, Strings) /\ s = [metric |-> s.metric, fields |-> s.fields]
  BY StructForm
<1>2. n \in Definitions /\ t.fields \in FieldsOf(n, Strings)
      /\ t = [metric |-> t.metric, fields |-> t.fields]
  BY StructForm
<1>3. m.name = n.name /\ Hashed(m, s.fields) = Hashed(n, t.fields)
  BY DEF HashTells
<1>4. m.ident = s.metric /\ n.ident = t.metric
  BY IdentOfStruct
<1> HIDE DEF m, n
<1>5. m = n
  BY <1>1, <1>2, <1>3 DEF LeafNamesDiffer
<1>6. s.fields = t.fields
  BY <1>1, <1>2, <1>3, <1>5, HashTellsStructs, StringsAssumption
<1> QED BY <1>1, <1>2, <1>4, <1>5, <1>6

\* Metrics carry the records of their own struct only, and no record is dropped for
\* its kind, if no two metrics have one leaf name and 64 bits are enough to tell what
\* is hashed: the hash of the tags and the name take care of the rest, though neither
\* namespace nor kind is part of it.
THEOREM StructsKeptApart ==
  ASSUME Series \subseteq Structs, Kind = KindOfStruct(Series), HashTells, LeafNamesDiffer
  PROVE  Spec => [](OwnSeries /\ NoneMistaken)
<1>1. \A s, t \in Series : CombineHash(s) = CombineHash(t) => s = t
  BY HashesApart
<1>2. Spec => []OwnSeries
  BY <1>1, OwnSeriesHolds
<1>3. Spec => []NoneMistaken
  BY <1>1, NoneMistakenHolds
<1> QED BY <1>2, <1>3, PTL

-----------------------------------------------------------------------------
(* LinesDistinct.                                                          *)

\* What a running flush has taken lies in the stripes it has visited, one metric
\* for each hash whose stripe has not grown its table.
Regrown(h) == Home(h).epoch # 0
BatchOnce ==
    \A f \in Flushers : \A m \in batch[f] :
        /\ StripeOf(CombineHash(m.key)) < cursor[f]
        /\ \A n \in batch[f] : CombineHash(m.key) = CombineHash(n.key) =>
              m = n \/ Regrown(CombineHash(m.key))

\* Where the table has not grown there is one slot for each hash.
LEMMA OneSlot ==
  ASSUME TypeOK, NEW p \in DOMAIN entries, NEW q \in DOMAIN entries, p.hash = q.hash,
         ~Regrown(p.hash)
  PROVE  p = q
<1>1. p \in [hash : Hashes, epoch : Nat] /\ q \in [hash : Hashes, epoch : Nat]
  BY DEF TypeOK
<1>2. p.epoch <= 0 /\ q.epoch <= 0
  BY DEF TypeOK, Regrown
<1>3. p.epoch = 0 /\ q.epoch = 0
  BY <1>1, <1>2
<1>4. p = [hash |-> p.hash, epoch |-> p.epoch] /\ q = [hash |-> q.hash, epoch |-> q.epoch]
  BY <1>1
<1> QED BY <1>3, <1>4

LEMMA BatchOnceStripe ==
  ASSUME IInv, BatchOnce, NEW f \in Flushers, FlushStripe(f)
  PROVE  BatchOnce'
<1> DEFINE taken == {entries[p] : p \in {x \in InStripe(cursor[f]) : Emitted(entries[x])}}
<1>1. /\ batch \in [Flushers -> SUBSET Entries]
      /\ cursor \in [Flushers -> {Idle} \cup 0 .. StripeCount]
      /\ cursor[f] \in 0 .. StripeCount - 1
  BY DEF IInv, TypeOK, FlushStripe, Visiting
<1>2. /\ batch' = [batch EXCEPT ![f] = @ \cup taken]
      /\ cursor' = [cursor EXCEPT ![f] = @ + 1] /\ epoch' = epoch
  BY DEF FlushStripe
<1>3. /\ \A m \in taken : StripeOf(CombineHash(m.key)) = cursor[f]
      /\ \A m, n \in taken : CombineHash(m.key) = CombineHash(n.key) =>
            m = n \/ Regrown(CombineHash(m.key))
  <2>1. \A p \in DOMAIN entries : CombineHash(entries[p].key) = p.hash
    BY DEF IInv, Origins
  <2>2. \A m \in taken : StripeOf(CombineHash(m.key)) = cursor[f]
    BY <2>1 DEF InStripe
  <2>3. ASSUME NEW p \in DOMAIN entries, NEW q \in DOMAIN entries, p.hash = q.hash
        PROVE  entries[p] = entries[q] \/ Regrown(p.hash)
    BY <2>3, OneSlot DEF IInv
  <2>4. \A m, n \in taken : CombineHash(m.key) = CombineHash(n.key) =>
           m = n \/ Regrown(CombineHash(m.key))
    BY <2>1, <2>3 DEF InStripe
  <2> QED BY <2>2, <2>4
<1> HIDE DEF taken
<1>4. /\ cursor'[f] = cursor[f] + 1 /\ batch'[f] = batch[f] \cup taken
      /\ \A g \in Flushers \ {f} : cursor'[g] = cursor[g] /\ batch'[g] = batch[g]
      /\ \A h : Regrown(h)' <=> Regrown(h)
  BY <1>1, <1>2 DEF Regrown, Home
<1>5. \A m \in batch[f], n \in taken : CombineHash(m.key) # CombineHash(n.key)
  <2> TAKE m \in batch[f], n \in taken
  <2>1. StripeOf(CombineHash(m.key)) < cursor[f] /\ StripeOf(CombineHash(n.key)) = cursor[f]
    BY <1>3 DEF BatchOnce
  <2>2. cursor[f] \in Int
    BY <1>1
  <2> QED BY <2>1, <2>2
<1>6. ASSUME NEW m \in batch'[f] PROVE StripeOf(CombineHash(m.key)) < cursor'[f]
  <2>1. m \in batch[f] => /\ m \in Entries /\ CombineHash(m.key) \in Nat
                          /\ StripeOf(CombineHash(m.key)) \in Nat
    BY <1>1, SeriesAssumption, SizeAssumption DEF Entries, CombineHash, StripeOf
  <2> QED BY <1>1, <1>3, <1>4, <1>6, <2>1 DEF BatchOnce
<1>7. \A m, n \in batch'[f] : CombineHash(m.key) = CombineHash(n.key) =>
         m = n \/ Regrown(CombineHash(m.key))
  BY <1>3, <1>4, <1>5 DEF BatchOnce
<1>8. ASSUME NEW g \in Flushers, NEW m \in batch'[g]
      PROVE  /\ StripeOf(CombineHash(m.key)) < cursor'[g]
             /\ \A n \in batch'[g] : CombineHash(m.key) = CombineHash(n.key) =>
                   m = n \/ Regrown(CombineHash(m.key))
  <2>1. CASE g = f
    BY <1>6, <1>7, <1>8, <2>1
  <2>2. CASE g # f
    BY <1>4, <1>8, <2>2 DEF BatchOnce
  <2> QED BY <2>1, <2>2
<1> QED BY <1>4, <1>8 DEF BatchOnce, StripeOf, CombineHash

\* A table that has grown has grown for good.
LEMMA RegrownStays ==
  ASSUME IInv, [Next]_vars, NEW h \in Hashes, Regrown(h)
  PROVE  Regrown(h)'
<1>1. StripeOf(h) \in Stripes /\ epoch \in [Stripes -> Nat]
  BY HashType DEF IInv, TypeOK
<1>2. CASE epoch' = epoch
  BY <1>2 DEF Regrown, Home
<1>3. CASE EpochGrows
  BY <1>1, <1>3 DEF EpochGrows, Regrown, Home
<1>4. CASE Record
  BY <1>3, <1>4, GaugeUpsert DEF Record
<1>5. ASSUME NEW f \in Flushers, FlushStep(f) PROVE epoch' = epoch
  BY <1>5 DEF FlushStep, FlushStart, FlushStripe, FlushReturn
<1> QED BY <1>2, <1>4, <1>5 DEF Next, RawTryRecv, RawReceiverDropped, vars

LEMMA BatchOnceNext == IInv /\ BatchOnce /\ [Next]_vars => BatchOnce'
<1> SUFFICES ASSUME IInv, BatchOnce, [Next]_vars PROVE BatchOnce'
  OBVIOUS
<1>1. /\ batch \in [Flushers -> SUBSET Entries]
      /\ cursor \in [Flushers -> {Idle} \cup 0 .. StripeCount]
  BY DEF IInv, TypeOK
<1>2. ASSUME \A g \in Flushers : \/ batch'[g] = {}
                                 \/ batch'[g] = batch[g] /\ cursor'[g] = cursor[g]
      PROVE  BatchOnce'
  <2> SUFFICES ASSUME NEW g \in Flushers, NEW m \in batch[g],
                      batch'[g] = batch[g], cursor'[g] = cursor[g]
               PROVE  /\ StripeOf(CombineHash(m.key)) < cursor[g]
                      /\ \A n \in batch[g] : CombineHash(m.key) = CombineHash(n.key) =>
                            m = n \/ Regrown(CombineHash(m.key))'
    BY <1>2 DEF BatchOnce, StripeOf, CombineHash
  <2>1. CombineHash(m.key) \in Hashes
    BY <1>1 DEF Hashes, Entries
  <2> QED BY <2>1, RegrownStays DEF BatchOnce
<1>3. ASSUME NEW f \in Flushers, FlushStart(f) PROVE BatchOnce'
  <2>1. batch[f] = {} /\ batch' = batch
    BY <1>3 DEF IInv, IdleHoldsNothing, FlushStart
  <2>2. \A g \in Flushers \ {f} : cursor'[g] = cursor[g]
    BY <1>1, <1>3 DEF FlushStart
  <2> QED BY <1>2, <2>1, <2>2
<1>4. ASSUME NEW f \in Flushers, FlushReturn(f) PROVE BatchOnce'
  <2>1. batch'[f] = {} /\ \A g \in Flushers \ {f} : batch'[g] = batch[g] /\ cursor'[g] = cursor[g]
    BY <1>1, <1>4 DEF FlushReturn
  <2> QED BY <1>2, <2>1
<1>5. CASE Record
  <2>1. UNCHANGED <<batch, cursor>>
    BY <1>5 DEF Record, RecordCount, RecordGauge, RecordHistogram
  <2> QED BY <1>2, <2>1
<1>6. CASE UNCHANGED <<batch, cursor>>
  BY <1>2, <1>6
<1> QED BY <1>3, <1>4, <1>5, <1>6, BatchOnceStripe
        DEF Next, FlushStep, RawTryRecv, RawReceiverDropped, vars

\* What the exporters write for a flush names no series twice whose stripe has not
\* grown its table, and no line of it, or of the raw points, may be taken for one of
\* another series, where the definitions and the options of the exporters keep names,
\* keys, variants and labels apart: for any structs of the definitions, any hash and
\* any number of concurrent flushes.
THEOREM LinesDistinctHolds ==
  ASSUME Distinguishable
  PROVE  Spec => []LinesDistinct
<1>1. Init => BatchOnce
  BY DEF Init, BatchOnce
<1>2. IInv /\ BatchOnce => LinesDistinct
  <2> SUFFICES ASSUME IInv, BatchOnce PROVE LinesDistinct
    OBVIOUS
  <2>1. ASSUME NEW f \in Flushers, NEW m \in batch[f], NEW n \in batch[f]
        PROVE  m.key \in Readable /\ (m.key = n.key => m = n \/ PlacedAnew(m.key))
    <3>1. m \in Entries
      BY DEF IInv, TypeOK
    <3>2. m.key \in Series
      BY <3>1 DEF Entries
    <3> QED BY <3>2, SeriesReadable DEF BatchOnce, Regrown, PlacedAnew
  <2>2. ASSUME NEW k \in DOMAIN rawQueue PROVE log[rawQueue[k]].series \in Readable
    <3>1. rawQueue[k] \in Ids /\ log \in Seq([series : Series, value : Values \cup {NaN}])
      BY DEF IInv, TypeOK
    <3>2. log[rawQueue[k]] \in [series : Series, value : Values \cup {NaN}]
      BY <3>1, ElementOfSeq DEF Ids
    <3>3. log[rawQueue[k]].series \in Series
      BY <3>2
    <3> QED BY <3>3, SeriesReadable
  <2> QED BY <2>1, <2>2 DEF LinesDistinct
<1> QED BY <1>1, <1>2, InvInit, InvNext, BatchOnceNext, PTL DEF Spec
=============================================================================
