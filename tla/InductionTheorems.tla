------------------------- MODULE InductionTheorems -------------------------
(* Induction on numbers and on finite sets, definition by recursion, and    *)
(* sums over finite sets.  Induction is stated with sets in the place of    *)
(* predicates, recursion with functions in the place of operators.          *)
EXTENDS Sums, WellFoundedInduction, FiniteSetTheorems, TLAPS

-----------------------------------------------------------------------------
(* Induction.                                                              *)

\* A set that holds 0, and with a number the next one, holds all of them.
LEMMA NatSetInduction ==
  ASSUME NEW T, 0 \in T, \A n \in Nat : n \in T => n + 1 \in T
  PROVE  Nat \subseteq T
<1> SUFFICES ASSUME Nat \ T # {} PROVE FALSE
  OBVIOUS
<1> DEFINE R == OpToRel(<, Nat)
<1>1. IsWellFoundedOn(R, Nat)
  BY NatLessThanWellFounded
<1>2. \A x, y \in Nat : y < x => <<y, x>> \in R
  BY DEF OpToRel
<1>3. PICK x \in Nat \ T : \A y \in Nat \ T : ~(<<y, x>> \in R)
  <2> HIDE DEF R
  <2> QED BY <1>1, WFMin
<1> HIDE DEF R
<1>4. x \in Nat /\ x # 0 /\ x - 1 \in Nat
  OBVIOUS
<1>5. <<x - 1, x>> \in R
  BY <1>2, <1>4
<1>6. x - 1 \in T
  BY <1>3, <1>4, <1>5
<1>7. (x - 1) + 1 \in T
  BY <1>4, <1>6
<1>8. (x - 1) + 1 = x
  BY <1>4
<1> QED BY <1>7, <1>8

\* Of the numbers in a set there is a least one.
LEMMA LeastNumber ==
  ASSUME NEW T, T \subseteq Nat, T # {}
  PROVE  \E n \in T : \A m \in T : n <= m
<1> SUFFICES ASSUME \A n \in T : \E m \in T : m < n PROVE FALSE
  OBVIOUS
<1> DEFINE E == {n \in Nat : \A m \in T : n < m}
<1>1. 0 \in E
  OBVIOUS
<1>2. ASSUME NEW n \in Nat, n \in E PROVE n + 1 \in E
  <2>1. \A m \in T : n + 1 <= m
    BY <1>2
  <2>2. n + 1 \notin T
    BY <2>1
  <2> QED BY <2>1, <2>2
<1>3. Nat \subseteq E
  <2> HIDE DEF E
  <2> QED BY <1>1, <1>2, NatSetInduction
<1>4. PICK n \in T : TRUE
  OBVIOUS
<1>5. n \in Nat /\ n < n
  BY <1>3, <1>4
<1> QED BY <1>5

\* A set of subsets of a finite set that holds the empty one, and with a subset
\* those that have one element more, holds all of them.
LEMMA SubsetInduction ==
  ASSUME NEW S, IsFiniteSet(S), NEW P, {} \in P,
         \A T \in SUBSET S : \A x \in S \ T : T \in P => T \cup {x} \in P
  PROVE  SUBSET S \subseteq P
<1> DEFINE E == {n \in Nat : \A T \in SUBSET S : Cardinality(T) = n => T \in P}
<1>1. \A T \in SUBSET S : IsFiniteSet(T) /\ Cardinality(T) \in Nat
  BY FS_Subset, FS_CardinalityType
<1>2. 0 \in E
  BY <1>1, FS_EmptySet
<1>3. ASSUME NEW n \in Nat, n \in E PROVE n + 1 \in E
  <2> SUFFICES ASSUME NEW T \in SUBSET S, Cardinality(T) = n + 1 PROVE T \in P
    OBVIOUS
  <2>1. T # {}
    BY <1>1, FS_EmptySet
  <2>2. PICK x \in T : TRUE
    BY <2>1
  <2> DEFINE U == T \ {x}
  <2>3. U \in SUBSET S /\ x \in S \ U /\ T = U \cup {x}
    BY <2>2
  <2>4. Cardinality(U) = n
    <3>1. Cardinality(T \ {x}) = Cardinality(T) - 1
      BY <1>1, <2>2, FS_RemoveElement
    <3> QED BY <3>1
  <2>5. U \in P
    BY <1>3, <2>3, <2>4
  <2> HIDE DEF U
  <2> QED BY <2>3, <2>5
<1>4. Nat \subseteq E
  <2> HIDE DEF E
  <2> QED BY <1>2, <1>3, NatSetInduction
<1> QED BY <1>1, <1>4

-----------------------------------------------------------------------------
(* Recursion.                                                              *)

\* The first n + 1 values of the function that starts with b and goes on by g.
Begins(f, b, g, n) ==
    f[0] = b /\ \A k \in 1 .. n : f[k] = g[<<k, f[k - 1]>>]

\* Two such functions agree as far as both go.
LEMMA BeginsAgree ==
  ASSUME NEW b, NEW g, NEW m \in Nat, NEW n \in Nat, NEW e, NEW f,
         Begins(e, b, g, m), Begins(f, b, g, n)
  PROVE  \A k \in Nat : k <= m /\ k <= n => e[k] = f[k]
<1> DEFINE E == {k \in Nat : k <= m /\ k <= n => e[k] = f[k]}
<1>1. 0 \in E
  BY DEF Begins
<1>2. ASSUME NEW k \in Nat, k \in E PROVE k + 1 \in E
  <2> SUFFICES ASSUME k + 1 <= m, k + 1 <= n PROVE e[k + 1] = f[k + 1]
    OBVIOUS
  <2>1. e[k] = f[k]
    BY <1>2
  <2>2. k + 1 \in 1 .. m /\ k + 1 \in 1 .. n /\ (k + 1) - 1 = k
    OBVIOUS
  <2>3. e[k + 1] = g[<<k + 1, e[(k + 1) - 1]>>] /\ f[k + 1] = g[<<k + 1, f[(k + 1) - 1]>>]
    BY <2>2 DEF Begins
  <2> QED BY <2>1, <2>2, <2>3
<1>3. Nat \subseteq E
  <2> HIDE DEF E
  <2> QED BY <1>1, <1>2, NatSetInduction
<1> QED BY <1>3

\* The whole of such a function, with values in T.
Recurs(f, T, b, g) ==
    /\ f \in [Nat -> T]
    /\ f[0] = b
    /\ \A n \in Nat \ {0} : f[n] = g[<<n, f[n - 1]>>]

\* There is one.
LEMMA RecursionExists ==
  ASSUME NEW T, NEW b \in T, NEW g \in [Nat \X T -> T]
  PROVE  \E f : Recurs(f, T, b, g)
<1> DEFINE S == {n \in Nat : \E f \in [Nat -> T] : Begins(f, b, g, n)}
<1>1. 0 \in S
  <2>1. Begins([k \in Nat |-> b], b, g, 0)
    BY DEF Begins
  <2> QED BY <2>1
<1>2. ASSUME NEW n \in Nat, n \in S PROVE n + 1 \in S
  <2>1. PICK f \in [Nat -> T] : Begins(f, b, g, n)
    BY <1>2
  <2> DEFINE e == [f EXCEPT ![n + 1] = g[<<n + 1, f[n]>>]]
  <2>2. g[<<n + 1, f[n]>>] \in T
    OBVIOUS
  <2>3. e \in [Nat -> T]
    BY <2>2
  <2>4. e[n + 1] = g[<<n + 1, f[n]>>] /\ \A k \in 0 .. n : e[k] = f[k]
    OBVIOUS
  <2>5. Begins(e, b, g, n + 1)
    <3> HIDE DEF e
    <3> SUFFICES ASSUME NEW k \in 1 .. n + 1 PROVE e[k] = g[<<k, e[k - 1]>>]
      BY <2>1, <2>4 DEF Begins
    <3>1. CASE k = n + 1
      BY <2>4, <3>1
    <3>2. CASE k # n + 1
      <4>1. k \in 1 .. n /\ k \in 0 .. n /\ k - 1 \in 0 .. n
        BY <3>2
      <4> QED BY <2>1, <2>4, <4>1 DEF Begins
    <3> QED BY <3>1, <3>2
  <2> HIDE DEF e
  <2> QED BY <2>3, <2>5
<1>3. \A n \in Nat : \E f \in [Nat -> T] : Begins(f, b, g, n)
  <2> HIDE DEF S
  <2>1. Nat \subseteq S
    BY <1>1, <1>2, NatSetInduction
  <2> QED BY <2>1 DEF S
<1> DEFINE H(n) == CHOOSE f \in [Nat -> T] : Begins(f, b, g, n)
           F == [n \in Nat |-> H(n)[n]]
<1>4. \A n \in Nat : H(n) \in [Nat -> T] /\ Begins(H(n), b, g, n)
  BY <1>3
<1> HIDE DEF H
<1>5. F \in [Nat -> T]
  BY <1>4
<1>6. F[0] = b
  BY <1>4 DEF Begins
<1>7. ASSUME NEW n \in Nat \ {0} PROVE F[n] = g[<<n, F[n - 1]>>]
  <2>1. n - 1 \in Nat /\ n \in 1 .. n
    OBVIOUS
  <2>2. H(n)[n - 1] = H(n - 1)[n - 1]
    BY <1>4, <2>1, BeginsAgree
  <2>3. H(n)[n] = g[<<n, H(n)[n - 1]>>]
    BY <1>4, <2>1 DEF Begins
  <2> QED BY <2>1, <2>2, <2>3
<1> QED
  <2> HIDE DEF F
  <2> QED BY <1>5, <1>6, <1>7 DEF Recurs

-----------------------------------------------------------------------------
(* Sums over finite sets.                                                  *)

\* g gives the sums of f over the subsets of S, whichever element is taken last.
Adding(g, f, S) ==
    /\ g \in [SUBSET S -> Int]
    /\ g[{}] = 0
    /\ \A T \in SUBSET S : \A x \in T : g[T] = f[x] + g[T \ {x}]

\* Two such functions agree where both are defined and add the same.
LEMMA AddingAgree ==
  ASSUME NEW S, NEW T, NEW U, U \subseteq S, U \subseteq T, IsFiniteSet(U),
         NEW f, NEW e, \A x \in U : f[x] = e[x],
         NEW g, Adding(g, f, S), NEW h, Adding(h, e, T)
  PROVE  g[U] = h[U]
<1> DEFINE P == {V \in SUBSET U : g[V] = h[V]}
<1>1. {} \in P
  BY DEF Adding
<1>2. ASSUME NEW V \in SUBSET U, NEW x \in U \ V, V \in P PROVE V \cup {x} \in P
  <2> DEFINE W == V \cup {x}
  <2>1. W \in SUBSET S /\ W \in SUBSET T /\ x \in W /\ W \ {x} = V
    OBVIOUS
  <2> HIDE DEF W
  <2>2. g[W] = f[x] + g[V] /\ h[W] = e[x] + h[V]
    BY <2>1 DEF Adding
  <2> QED BY <1>2, <2>2 DEF W
<1>3. SUBSET U \subseteq P
  <2> HIDE DEF P
  <2> QED BY <1>1, <1>2, SubsetInduction
<1> QED BY <1>3

\* The element that SumOver takes of a set.
Chosen(T) == CHOOSE x \in T : TRUE

\* g adds the chosen elements up.
Folding(g, f, S) ==
    g = [T \in SUBSET S |-> IF T = {} THEN 0 ELSE f[Chosen(T)] + g[T \ {Chosen(T)}]]

\* There is a function that adds the chosen elements up,
LEMMA FoldingExists ==
  ASSUME NEW S, IsFiniteSet(S), NEW f, \A x \in S : f[x] \in Int
  PROVE  \E g \in [SUBSET S -> Int] : Folding(g, f, S)
<1> DEFINE Upto(n, g) ==
             \A T \in SUBSET S : Cardinality(T) <= n =>
                g[T] = IF T = {} THEN 0 ELSE f[Chosen(T)] + g[T \ {Chosen(T)}]
           E == {n \in Nat : \E g \in [SUBSET S -> Int] : Upto(n, g)}
<1>1. \A T \in SUBSET S : IsFiniteSet(T) /\ Cardinality(T) \in Nat /\ Cardinality(T) <= Cardinality(S)
  BY FS_Subset, FS_CardinalityType
<1>2. \A T \in SUBSET S : T # {} =>
         /\ Chosen(T) \in T /\ T \ {Chosen(T)} \in SUBSET S
         /\ Cardinality(T \ {Chosen(T)}) = Cardinality(T) - 1
  <2> SUFFICES ASSUME NEW T \in SUBSET S, T # {}
               PROVE  /\ Chosen(T) \in T /\ T \ {Chosen(T)} \in SUBSET S
                      /\ Cardinality(T \ {Chosen(T)}) = Cardinality(T) - 1
    OBVIOUS
  <2>1. Chosen(T) \in T
    BY DEF Chosen
  <2> QED BY <1>1, <2>1, FS_RemoveElement
<1>3. 0 \in E
  <2> DEFINE g == [T \in SUBSET S |-> 0]
  <2>1. g \in [SUBSET S -> Int]
    OBVIOUS
  <2>2. Upto(0, g)
    <3> SUFFICES ASSUME NEW T \in SUBSET S, Cardinality(T) <= 0 PROVE T = {}
      OBVIOUS
    <3> QED BY <1>1, FS_EmptySet
  <2> QED BY <2>1, <2>2
<1>4. ASSUME NEW n \in Nat, n \in E PROVE n + 1 \in E
  <2>1. PICK g \in [SUBSET S -> Int] : Upto(n, g)
    BY <1>4
  <2> DEFINE h == [T \in SUBSET S |->
                     IF Cardinality(T) = n + 1 THEN f[Chosen(T)] + g[T \ {Chosen(T)}] ELSE g[T]]
  <2>2. h \in [SUBSET S -> Int]
    <3> SUFFICES ASSUME NEW T \in SUBSET S, Cardinality(T) = n + 1
                 PROVE  f[Chosen(T)] + g[T \ {Chosen(T)}] \in Int
      OBVIOUS
    <3>1. T # {}
      BY FS_EmptySet
    <3>2. Chosen(T) \in S /\ T \ {Chosen(T)} \in SUBSET S
      BY <1>2, <3>1
    <3> QED BY <3>2
  <2>3. Upto(n + 1, h)
    <3> SUFFICES ASSUME NEW T \in SUBSET S, Cardinality(T) <= n + 1
                 PROVE  h[T] = IF T = {} THEN 0 ELSE f[Chosen(T)] + h[T \ {Chosen(T)}]
      OBVIOUS
    <3>1. CASE T = {}
      <4>1. Cardinality(T) = 0
        BY <3>1, FS_EmptySet
      <4>2. h[T] = g[T]
        BY <4>1
      <4> QED BY <2>1, <3>1, <4>1, <4>2
    <3>2. CASE T # {}
      <4> DEFINE U == T \ {Chosen(T)}
      <4>1. U \in SUBSET S /\ Cardinality(U) = Cardinality(T) - 1 /\ Cardinality(T) \in Nat
        BY <1>1, <1>2, <3>2
      <4>2. h[U] = g[U]
        <5>1. Cardinality(U) # n + 1
          BY <4>1
        <5> HIDE DEF U
        <5> QED BY <4>1, <5>1
      <4>3. CASE Cardinality(T) = n + 1
        <5>1. h[T] = f[Chosen(T)] + g[U]
          BY <4>3
        <5> QED BY <3>2, <4>2, <5>1
      <4>4. CASE Cardinality(T) # n + 1
        <5>1. h[T] = g[T] /\ Cardinality(T) <= n
          BY <4>1, <4>4
        <5>2. g[T] = f[Chosen(T)] + g[U]
          BY <2>1, <3>2, <5>1
        <5> QED BY <3>2, <4>2, <5>1, <5>2
      <4> QED BY <4>3, <4>4
    <3> QED BY <3>1, <3>2
  <2> HIDE DEF h, Upto
  <2> QED BY <2>2, <2>3
<1>5. Cardinality(S) \in E
  <2>1. Cardinality(S) \in Nat
    BY FS_CardinalityType
  <2> HIDE DEF E
  <2> QED BY <1>3, <1>4, <2>1, NatSetInduction
<1>6. PICK g \in [SUBSET S -> Int] : Upto(Cardinality(S), g)
  BY <1>5
<1>7. \A T \in SUBSET S : g[T] = IF T = {} THEN 0 ELSE f[Chosen(T)] + g[T \ {Chosen(T)}]
  BY <1>1, <1>6
<1> QED BY <1>7 DEF Folding

\* ... and SumOver takes its value from one.
LEMMA SumOverFolds ==
  ASSUME NEW S, NEW f, \E g : Folding(g, f, S)
  PROVE  \E g : Folding(g, f, S) /\ SumOver(f, S) = g[S]
<1> DEFINE g == CHOOSE h :
             h = [T \in SUBSET S |-> IF T = {} THEN 0 ELSE f[Chosen(T)] + h[T \ {Chosen(T)}]]
<1>1. g = [T \in SUBSET S |-> IF T = {} THEN 0 ELSE f[Chosen(T)] + g[T \ {Chosen(T)}]]
  BY DEF Folding
<1>2. SumOver(f, S) = g[S]
  BY DEF SumOver, MapThenFoldSet, Chosen
<1> QED BY <1>1, <1>2 DEF Folding

\* Any function that adds the chosen elements up has numbers for values,
LEMMA FoldingType ==
  ASSUME NEW S, IsFiniteSet(S), NEW f, \A x \in S : f[x] \in Int, NEW g, Folding(g, f, S)
  PROVE  g \in [SUBSET S -> Int]
<1> DEFINE E == {n \in Nat : \A T \in SUBSET S : Cardinality(T) = n => g[T] \in Int}
<1>1. \A T \in SUBSET S : IsFiniteSet(T) /\ Cardinality(T) \in Nat /\ (Cardinality(T) = 0 => T = {})
  BY FS_Subset, FS_CardinalityType, FS_EmptySet
<1>2. \A T \in SUBSET S : g[T] = IF T = {} THEN 0 ELSE f[Chosen(T)] + g[T \ {Chosen(T)}]
  BY DEF Folding
<1>3. 0 \in E
  <2>1. g[{}] = 0
    BY <1>2
  <2>2. \A T \in SUBSET S : Cardinality(T) = 0 => g[T] = 0
    BY <1>1, <2>1
  <2> QED BY <2>2
<1>4. ASSUME NEW n \in Nat, n \in E PROVE n + 1 \in E
  <2> SUFFICES ASSUME NEW T \in SUBSET S, Cardinality(T) = n + 1 PROVE g[T] \in Int
    OBVIOUS
  <2>1. T # {}
    BY FS_EmptySet
  <2>2. PICK c \in T : c = Chosen(T)
    BY <2>1 DEF Chosen
  <2>3. T \ {c} \in SUBSET S /\ Cardinality(T \ {c}) = Cardinality(T) - 1
    BY <1>1, FS_RemoveElement
  <2>4. g[T \ {c}] \in Int
    BY <1>4, <2>3
  <2>5. g[T] = f[c] + g[T \ {c}]
    BY <1>2, <2>1, <2>2
  <2> QED BY <2>4, <2>5
<1>5. Nat \subseteq E
  <2> HIDE DEF E
  <2> QED BY <1>3, <1>4, NatSetInduction
<1>6. \A T \in SUBSET S : g[T] \in Int
  BY <1>1, <1>5
<1>7. g = [T \in SUBSET S |-> g[T]]
  BY DEF Folding
<1> QED BY <1>6, <1>7

\* ... and adds all elements up.
LEMMA FoldingAdds ==
  ASSUME NEW S, IsFiniteSet(S), NEW f, \A x \in S : f[x] \in Int, NEW g, Folding(g, f, S)
  PROVE  Adding(g, f, S)
<1> DEFINE E == {n \in Nat : \A T \in SUBSET S : Cardinality(T) = n =>
                                \A x \in T : g[T] = f[x] + g[T \ {x}]}
<1>1. \A T \in SUBSET S : IsFiniteSet(T) /\ Cardinality(T) \in Nat /\ (Cardinality(T) = 0 => T = {})
  BY FS_Subset, FS_CardinalityType, FS_EmptySet
<1>2. \A T \in SUBSET S : \A x \in T :
         T \ {x} \in SUBSET S /\ Cardinality(T \ {x}) = Cardinality(T) - 1
  BY <1>1, FS_RemoveElement
<1>3. \A T \in SUBSET S : g[T] = IF T = {} THEN 0 ELSE f[Chosen(T)] + g[T \ {Chosen(T)}]
  BY DEF Folding
<1>4. g \in [SUBSET S -> Int]
  BY FoldingType
<1>5. 0 \in E
  BY <1>1
<1>6. ASSUME NEW n \in Nat, n \in E PROVE n + 1 \in E
  <2> SUFFICES ASSUME NEW T \in SUBSET S, Cardinality(T) = n + 1, NEW x \in T
               PROVE  g[T] = f[x] + g[T \ {x}]
    OBVIOUS
  <2>1. PICK c \in T : c = Chosen(T)
    BY DEF Chosen
  <2>2. g[T] = f[c] + g[T \ {c}]
    BY <1>3, <2>1
  <2>3. CASE x = c
    BY <2>2, <2>3
  <2>4. CASE x # c
    <3> DEFINE U == T \ {c}
               V == T \ {x}
               W == T \ {c, x}
    <3>1. /\ U \in SUBSET S /\ V \in SUBSET S /\ W \in SUBSET S
          /\ x \in U /\ c \in V /\ U \ {x} = W /\ V \ {c} = W
      BY <2>4
    <3>2. Cardinality(U) = n /\ Cardinality(V) = n
      BY <1>2
    <3> HIDE DEF U, V, W
    <3>3. g[U] = f[x] + g[W] /\ g[V] = f[c] + g[W]
      BY <1>6, <3>1, <3>2
    <3>4. f[x] \in Int /\ f[c] \in Int /\ g[W] \in Int
      BY <1>4, <3>1
    <3>5. f[c] + g[U] = f[x] + g[V]
      BY <3>3, <3>4
    <3> QED BY <2>2, <3>5 DEF U, V
  <2> QED BY <2>3, <2>4
<1>7. Nat \subseteq E
  <2> HIDE DEF E
  <2> QED BY <1>5, <1>6, NatSetInduction
<1>8. \A T \in SUBSET S : \A x \in T : g[T] = f[x] + g[T \ {x}]
  BY <1>1, <1>7
<1>9. g[{}] = 0
  BY <1>3
<1> QED BY <1>4, <1>8, <1>9 DEF Adding

\* What SumOver is: the value of a function that adds up.
LEMMA SumOverAdds ==
  ASSUME NEW S, IsFiniteSet(S), NEW f, \A x \in S : f[x] \in Int
  PROVE  \E g : Adding(g, f, S) /\ SumOver(f, S) = g[S]
<1>1. PICK g : Folding(g, f, S) /\ SumOver(f, S) = g[S]
  BY FoldingExists, SumOverFolds
<1> QED BY <1>1, FoldingAdds

\* A sum of no numbers is 0, any other is a number.
LEMMA SumType ==
  ASSUME NEW S, IsFiniteSet(S), NEW f, \A x \in S : f[x] \in Int
  PROVE  SumOver(f, S) \in Int /\ (S = {} => SumOver(f, S) = 0)
<1>1. PICK g : Adding(g, f, S) /\ SumOver(f, S) = g[S]
  BY SumOverAdds
<1>2. g[S] \in Int /\ g[{}] = 0
  BY <1>1 DEF Adding
<1> QED BY <1>1, <1>2

\* A sum depends only on what is added.
LEMMA SumSame ==
  ASSUME NEW S, IsFiniteSet(S), NEW f, \A x \in S : f[x] \in Int, NEW e, \A x \in S : f[x] = e[x]
  PROVE  SumOver(f, S) = SumOver(e, S)
<1>1. PICK g : Adding(g, f, S) /\ SumOver(f, S) = g[S]
  BY SumOverAdds
<1>2. \A x \in S : e[x] \in Int
  OBVIOUS
<1>3. PICK h : Adding(h, e, S) /\ SumOver(e, S) = h[S]
  BY <1>2, SumOverAdds
<1>4. g[S] = h[S]
  BY <1>1, <1>3, AddingAgree
<1> QED BY <1>1, <1>3, <1>4

\* One element more.
LEMMA SumAdd ==
  ASSUME NEW S, IsFiniteSet(S), NEW f, \A x \in S : f[x] \in Int, NEW y, y \notin S, f[y] \in Int
  PROVE  SumOver(f, S \cup {y}) = SumOver(f, S) + f[y]
<1> DEFINE T == S \cup {y}
<1>1. IsFiniteSet(T) /\ (\A x \in T : f[x] \in Int) /\ y \in T /\ T \ {y} = S /\ S \in SUBSET T
  BY FS_AddElement
<1> HIDE DEF T
<1>2. PICK g : Adding(g, f, T) /\ SumOver(f, T) = g[T]
  BY <1>1, SumOverAdds
<1>3. PICK h : Adding(h, f, S) /\ SumOver(f, S) = h[S]
  BY SumOverAdds
<1>4. g[S] = h[S]
  <2>1. S \subseteq T /\ S \subseteq S /\ \A x \in S : f[x] = f[x]
    BY <1>1
  <2> QED BY <1>2, <1>3, <2>1, AddingAgree
<1>5. g[T] = f[y] + g[S] /\ g[S] \in Int
  BY <1>1, <1>2 DEF Adding
<1> QED BY <1>2, <1>3, <1>4, <1>5 DEF T

\* The sum of two functions.
LEMMA SumPlus ==
  ASSUME NEW S, IsFiniteSet(S), NEW f, NEW e, NEW d,
         \A x \in S : f[x] \in Int /\ e[x] \in Int /\ d[x] = f[x] + e[x]
  PROVE  SumOver(d, S) = SumOver(f, S) + SumOver(e, S)
<1> DEFINE P == {T \in SUBSET S : SumOver(d, T) = SumOver(f, T) + SumOver(e, T)}
<1>1. {} \in P
  BY SumType, FS_EmptySet
<1>2. ASSUME NEW T \in SUBSET S, NEW y \in S \ T, T \in P PROVE T \cup {y} \in P
  <2>1. IsFiniteSet(T) /\ y \notin T
    BY FS_Subset
  <2>2. \A x \in T : f[x] \in Int /\ e[x] \in Int /\ d[x] \in Int
    OBVIOUS
  <2>3. f[y] \in Int /\ e[y] \in Int /\ d[y] \in Int /\ d[y] = f[y] + e[y]
    OBVIOUS
  <2>4. /\ SumOver(f, T \cup {y}) = SumOver(f, T) + f[y] /\ SumOver(f, T) \in Int
        /\ SumOver(e, T \cup {y}) = SumOver(e, T) + e[y] /\ SumOver(e, T) \in Int
        /\ SumOver(d, T \cup {y}) = SumOver(d, T) + d[y]
    BY <2>1, <2>2, <2>3, SumAdd, SumType
  <2>5. SumOver(d, T) = SumOver(f, T) + SumOver(e, T)
    BY <1>2
  <2>6. SumOver(d, T \cup {y}) = SumOver(f, T \cup {y}) + SumOver(e, T \cup {y})
    BY <2>3, <2>4, <2>5
  <2> QED BY <2>6
<1>3. SUBSET S \subseteq P
  <2> HIDE DEF P
  <2> QED BY <1>1, <1>2, SubsetInduction
<1> QED BY <1>3

\* The sum over two sets that have nothing in common.
LEMMA SumUnion ==
  ASSUME NEW S, IsFiniteSet(S), NEW T, IsFiniteSet(T), S \cap T = {},
         NEW f, \A x \in S \cup T : f[x] \in Int
  PROVE  SumOver(f, S \cup T) = SumOver(f, S) + SumOver(f, T)
<1> DEFINE P == {U \in SUBSET T : SumOver(f, S \cup U) = SumOver(f, S) + SumOver(f, U)}
<1>1. {} \in P
  <2>1. S \cup {} = S
    OBVIOUS
  <2>2. SumOver(f, {}) = 0 /\ SumOver(f, S) \in Int
    BY SumType, FS_EmptySet
  <2> QED BY <2>1, <2>2
<1>2. ASSUME NEW U \in SUBSET T, NEW y \in T \ U, U \in P PROVE U \cup {y} \in P
  <2>1. IsFiniteSet(U) /\ IsFiniteSet(S \cup U) /\ y \notin U /\ y \notin S \cup U
    BY FS_Subset, FS_Union
  <2>2. (\A x \in U : f[x] \in Int) /\ (\A x \in S \cup U : f[x] \in Int) /\ f[y] \in Int
    OBVIOUS
  <2>3. /\ SumOver(f, U \cup {y}) = SumOver(f, U) + f[y]
        /\ SumOver(f, (S \cup U) \cup {y}) = SumOver(f, S \cup U) + f[y]
        /\ SumOver(f, U) \in Int /\ SumOver(f, S) \in Int
    BY <2>1, <2>2, SumAdd, SumType
  <2>4. SumOver(f, S \cup U) = SumOver(f, S) + SumOver(f, U)
    BY <1>2
  <2>5. S \cup (U \cup {y}) = (S \cup U) \cup {y}
    OBVIOUS
  <2>6. SumOver(f, S \cup (U \cup {y})) = SumOver(f, S) + SumOver(f, U \cup {y})
    <3>1. (SumOver(f, S) + SumOver(f, U)) + f[y] = SumOver(f, S) + (SumOver(f, U) + f[y])
      BY <2>2, <2>3
    <3> QED BY <2>3, <2>4, <2>5, <3>1
  <2> QED BY <2>6
<1>3. SUBSET T \subseteq P
  <2> HIDE DEF P
  <2> QED BY <1>1, <1>2, SubsetInduction
<1> QED BY <1>3

\* Natural numbers add up to one, no smaller than each of them, and to 0 only if
\* they all are.
LEMMA SumNat ==
  ASSUME NEW S, IsFiniteSet(S), NEW f, \A x \in S : f[x] \in Nat
  PROVE  /\ SumOver(f, S) \in Nat
         /\ \A x \in S : f[x] <= SumOver(f, S)
         /\ (\A x \in S : f[x] = 0) => SumOver(f, S) = 0
<1> DEFINE P == {T \in SUBSET S : /\ SumOver(f, T) \in Nat
                                  /\ \A x \in T : f[x] <= SumOver(f, T)
                                  /\ (\A x \in T : f[x] = 0) => SumOver(f, T) = 0}
<1>1. {} \in P
  <2>1. SumOver(f, {}) = 0
    BY SumType, FS_EmptySet
  <2> QED BY <2>1
<1>2. ASSUME NEW T \in SUBSET S, NEW y \in S \ T, T \in P PROVE T \cup {y} \in P
  <2>1. IsFiniteSet(T) /\ y \notin T /\ f[y] \in Int /\ \A x \in T : f[x] \in Int
    BY FS_Subset
  <2>2. SumOver(f, T \cup {y}) = SumOver(f, T) + f[y]
    BY <2>1, SumAdd
  <2>3. SumOver(f, T) \in Nat /\ f[y] \in Nat /\ \A x \in T : f[x] \in Nat /\ f[x] <= SumOver(f, T)
    BY <1>2
  <2>4. (\A x \in T : f[x] = 0) => SumOver(f, T) = 0
    BY <1>2
  <2>5. SumOver(f, T \cup {y}) \in Nat /\ \A x \in T \cup {y} : f[x] <= SumOver(f, T \cup {y})
    BY <2>2, <2>3
  <2>6. (\A x \in T \cup {y} : f[x] = 0) => SumOver(f, T \cup {y}) = 0
    BY <2>2, <2>4
  <2> QED BY <2>5, <2>6
<1>3. SUBSET S \subseteq P
  <2> HIDE DEF P
  <2> QED BY <1>1, <1>2, SubsetInduction
<1> QED BY <1>3
=============================================================================
