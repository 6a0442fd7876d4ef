----------------------------- MODULE Sums_proofs -----------------------------
(***************************************************************************)
(* What SumOver computes, for every finite set: it may be taken apart at   *)
(* any element, split over disjoint sets and bounded term by term.         *)
(*                                                                         *)
(* Induction is stated over sets (the set of good numbers, the set of good *)
(* subsets), so that a proof can name the set it needs.                    *)
(***************************************************************************)
EXTENDS Sums, FiniteSetTheorems, WellFoundedInduction, TLAPS

\* A set of natural numbers has a least one.
THEOREM LeastNumber ==
  ASSUME NEW W, W \subseteq Nat, W # {}
  PROVE  \E m \in W : \A n \in W : m <= n
  <1>1. PICK m \in W : \A n \in W : ~ (<<n, m>> \in OpToRel(<, Nat))
    BY NatLessThanWellFounded, WFMin, Zenon
  <1>2. \A n \in W : ~ (n < m)
    BY <1>1 DEF OpToRel
  <1> QED BY <1>2

\* Induction over the natural numbers: a set that has 0, and with each number
\* the next one, has them all.
THEOREM NumberInduction ==
  ASSUME NEW G, 0 \in G, \A n \in Nat : n \in G => n + 1 \in G
  PROVE  Nat \subseteq G
  <1> SUFFICES ASSUME ~ (Nat \subseteq G) PROVE FALSE
    OBVIOUS
  <1>1. PICK m \in Nat \ G : \A n \in Nat \ G : m <= n
    BY LeastNumber
  <1>2. m # 0
    OBVIOUS
  <1>3. m - 1 \in Nat /\ m - 1 \in G
    BY <1>1, <1>2
  <1>4. (m - 1) + 1 \in G
    BY <1>3
  <1> QED BY <1>4

\* A subset with n + 1 elements is not empty, and has n without any of them.
LEMMA SmallerSubset ==
  ASSUME NEW S, IsFiniteSet(S), NEW T \in SUBSET S, NEW n \in Nat,
         Cardinality(T) = n + 1
  PROVE  T # {} /\ \A x \in T : Cardinality(T \ {x}) = n
  <1>1. IsFiniteSet(T)
    BY FS_Subset
  <1>2. n + 1 # 0 /\ (n + 1) - 1 = n
    OBVIOUS
  <1>3. T # {}
    BY <1>2, FS_EmptySet, Zenon
  <1>4. ASSUME NEW x \in T PROVE Cardinality(T \ {x}) = n
    <2>1. Cardinality(T \ {x}) = Cardinality(T) - 1
      BY <1>1, FS_RemoveElement
    <2> QED BY <1>2, <2>1, Zenon
  <1> QED BY <1>3, <1>4

\* Induction over the subsets of a finite set, by adding elements.
THEOREM SubsetInduction ==
  ASSUME NEW S, IsFiniteSet(S), NEW G, {} \in G,
         \A T \in SUBSET S : \A x \in S \ T : T \in G => T \cup {x} \in G
  PROVE  S \in G
  <1> DEFINE N == {n \in Nat : \A T \in SUBSET S : Cardinality(T) = n => T \in G}
  <1>1. \A T \in SUBSET S : IsFiniteSet(T) /\ Cardinality(T) \in Nat
    BY FS_Subset, FS_CardinalityType
  <1>2. 0 \in N
    BY <1>1, FS_EmptySet
  <1>3. ASSUME NEW n \in Nat, n \in N PROVE n + 1 \in N
    <2> SUFFICES ASSUME NEW T \in SUBSET S, Cardinality(T) = n + 1 PROVE T \in G
      OBVIOUS
    <2>1. T # {}
      BY SmallerSubset
    <2>2. PICK x \in T : TRUE
      BY <2>1
    <2>3. Cardinality(T \ {x}) = n
      BY SmallerSubset
    <2>4. T \ {x} \in G
      BY <1>3, <2>3
    <2>5. (T \ {x}) \cup {x} \in G
      BY <2>4
    <2>6. (T \ {x}) \cup {x} = T
      OBVIOUS
    <2> QED BY <2>5, <2>6
  <1>4. Nat \subseteq N
    <2> HIDE DEF N
    <2> QED BY <1>2, <1>3, NumberInduction
  <1> QED BY <1>1, <1>4

-----------------------------------------------------------------------------
(* The recursion of the definition.                                        *)

SumPick(T) == CHOOSE x \in T : TRUE

SumStep(f, g, T) == IF T = {} THEN 0 ELSE f[SumPick(T)] + g[T \ {SumPick(T)}]

\* The function on the subsets of S that the definition chooses.
SumTable(f, S) == CHOOSE g : g = [T \in SUBSET S |-> SumStep(f, g, T)]

LEMMA SumOverUnfold == ASSUME NEW f, NEW S PROVE SumOver(f, S) = SumTable(f, S)[S]
  BY DEF SumOver, MapThenSumSet, MapThenFoldSet, SumTable, SumStep, SumPick

\* It exists: on the empty set, and from the subsets of at most n elements on
\* to those of n + 1.
LEMMA SumsExist ==
  ASSUME NEW f, NEW S, IsFiniteSet(S)
  PROVE  \A T \in SUBSET S : SumTable(f, S)[T] = SumStep(f, SumTable(f, S), T)
  <1> DEFINE Upto(n) == {T \in SUBSET S : Cardinality(T) <= n}
             G == {n \in Nat : \E g : g = [T \in Upto(n) |-> SumStep(f, g, T)]}
  <1>1. \A T \in SUBSET S : IsFiniteSet(T) /\ Cardinality(T) \in Nat
    BY FS_Subset, FS_CardinalityType
  <1>2. \A T \in SUBSET S : Cardinality(T) = 0 <=> T = {}
    BY <1>1, FS_EmptySet
  <1>3. 0 \in G
    <2> DEFINE g == [T \in Upto(0) |-> 0]
    <2>1. \A T \in Upto(0) : T = {}
      BY <1>1, <1>2
    <2>2. g = [T \in Upto(0) |-> SumStep(f, g, T)]
      BY <2>1 DEF SumStep
    <2> HIDE DEF g
    <2> QED BY <2>2
  <1>4. ASSUME NEW n \in Nat, n \in G PROVE n + 1 \in G
    <2>1. PICK g : g = [T \in Upto(n) |-> SumStep(f, g, T)]
      BY <1>4
    <2> DEFINE h == [T \in Upto(n + 1) |-> SumStep(f, g, T)]
    <2>2. \A T \in Upto(n) : T \in Upto(n + 1) /\ h[T] = g[T]
      BY <1>1, <2>1
    <2>3. ASSUME NEW T \in Upto(n + 1) PROVE SumStep(f, h, T) = SumStep(f, g, T)
      <3>1. CASE T = {}
        BY <3>1 DEF SumStep
      <3>2. CASE T # {}
        <4>1. SumPick(T) \in T
          BY <3>2 DEF SumPick
        <4>2. Cardinality(T \ {SumPick(T)}) = Cardinality(T) - 1
          BY <1>1, <4>1, FS_RemoveElement
        <4>3. T \ {SumPick(T)} \in Upto(n)
          BY <1>1, <4>2
        <4> QED BY <2>2, <4>3 DEF SumStep
      <3> QED BY <3>1, <3>2
    <2>4. h = [T \in Upto(n + 1) |-> SumStep(f, h, T)]
      BY <2>3
    <2> HIDE DEF h
    <2> QED BY <2>4
  <1>5. Cardinality(S) \in G
    <2>1. Nat \subseteq G
      <3> HIDE DEF G
      <3> QED BY <1>3, <1>4, NumberInduction
    <2> QED BY <1>1, <2>1
  <1>6. Upto(Cardinality(S)) = SUBSET S
    BY <1>1, FS_Subset
  <1>7. \E g : g = [T \in SUBSET S |-> SumStep(f, g, T)]
    BY <1>5, <1>6
  <1>8. SumTable(f, S) = [T \in SUBSET S |-> SumStep(f, SumTable(f, S), T)]
    BY <1>7, Zenon DEF SumTable
  <1> QED BY <1>8

\* On the subsets of T it is the function of T itself.
LEMMA SumsRestrict ==
  ASSUME NEW f, NEW S, IsFiniteSet(S), NEW T \in SUBSET S
  PROVE  SumTable(f, S)[T] = SumOver(f, T)
  <1> DEFINE g == SumTable(f, S)
             h == SumTable(f, T)
             G == {n \in Nat : \A U \in SUBSET T : Cardinality(U) = n => g[U] = h[U]}
  <1>1. IsFiniteSet(T) /\ \A U \in SUBSET T : IsFiniteSet(U) /\ Cardinality(U) \in Nat
    BY FS_Subset, FS_CardinalityType
  <1>2. \A U \in SUBSET T : g[U] = SumStep(f, g, U) /\ h[U] = SumStep(f, h, U)
    <2>1. \A U \in SUBSET S : g[U] = SumStep(f, g, U)
      BY SumsExist, Zenon
    <2>2. \A U \in SUBSET T : h[U] = SumStep(f, h, U)
      BY <1>1, SumsExist, Zenon
    <2> HIDE DEF g, h
    <2> QED BY <2>1, <2>2
  <1> HIDE DEF g, h
  <1>3. 0 \in G
    <2>1. \A U \in SUBSET T : Cardinality(U) = 0 => U = {}
      BY <1>1, FS_EmptySet
    <2> QED BY <1>2, <2>1 DEF SumStep
  <1>4. ASSUME NEW n \in Nat, n \in G PROVE n + 1 \in G
    <2> SUFFICES ASSUME NEW U \in SUBSET T, Cardinality(U) = n + 1 PROVE g[U] = h[U]
      OBVIOUS
    <2>1. U # {} /\ U \in SUBSET S
      BY <1>1, SmallerSubset
    <2>2. SumPick(U) \in U
      BY <2>1 DEF SumPick
    <2>3. Cardinality(U \ {SumPick(U)}) = n
      BY <2>1, <2>2, SmallerSubset
    <2>4. g[U \ {SumPick(U)}] = h[U \ {SumPick(U)}]
      BY <1>4, <2>3
    <2> QED BY <1>2, <2>1, <2>4 DEF SumStep
  <1>5. Nat \subseteq G
    <2> HIDE DEF G
    <2> QED BY <1>3, <1>4, NumberInduction
  <1>6. g[T] = h[T]
    BY <1>1, <1>5
  <1> QED BY <1>6, SumOverUnfold DEF g, h

LEMMA SumOverStep ==
  ASSUME NEW f, NEW S, IsFiniteSet(S)
  PROVE  SumOver(f, S) = IF S = {} THEN 0
                         ELSE f[SumPick(S)] + SumOver(f, S \ {SumPick(S)})
  <1>2. SumTable(f, S)[S] = SumStep(f, SumTable(f, S), S)
    BY SumsExist
  <1>3. CASE S = {}
    BY <1>2, <1>3, SumOverUnfold DEF SumStep
  <1>4. CASE S # {}
    <2>1. S \ {SumPick(S)} \in SUBSET S
      OBVIOUS
    <2>2. SumTable(f, S)[S \ {SumPick(S)}] = SumOver(f, S \ {SumPick(S)})
      BY <2>1, SumsRestrict
    <2> QED BY <1>2, <1>4, <2>2, SumOverUnfold DEF SumStep
  <1> QED BY <1>3, <1>4

-----------------------------------------------------------------------------
(* Sums of integers.                                                       *)

LEMMA SumOverEmpty == ASSUME NEW f PROVE SumOver(f, {}) = 0
  BY SumOverStep, FS_EmptySet

LEMMA SumOverType ==
  ASSUME NEW f, NEW S, IsFiniteSet(S), \A x \in S : f[x] \in Int
  PROVE  SumOver(f, S) \in Int
  <1> DEFINE G == {n \in Nat : \A T \in SUBSET S :
                                  Cardinality(T) = n => SumOver(f, T) \in Int}
  <1>1. \A T \in SUBSET S : IsFiniteSet(T) /\ Cardinality(T) \in Nat
    BY FS_Subset, FS_CardinalityType
  <1>2. 0 \in G
    BY <1>1, FS_EmptySet, SumOverEmpty
  <1>3. ASSUME NEW n \in Nat, n \in G PROVE n + 1 \in G
    <2> SUFFICES ASSUME NEW T \in SUBSET S, Cardinality(T) = n + 1
                 PROVE  SumOver(f, T) \in Int
      OBVIOUS
    <2>1. T # {}
      BY SmallerSubset
    <2>2. SumPick(T) \in T
      BY <2>1 DEF SumPick
    <2>3. Cardinality(T \ {SumPick(T)}) = n
      BY <2>2, SmallerSubset
    <2>4. SumOver(f, T \ {SumPick(T)}) \in Int
      BY <1>3, <2>3
    <2>5. SumOver(f, T) = f[SumPick(T)] + SumOver(f, T \ {SumPick(T)})
      BY <1>1, <2>1, SumOverStep
    <2>6. f[SumPick(T)] \in Int
      BY <2>2
    <2> QED BY <2>4, <2>5, <2>6
  <1>4. Nat \subseteq G
    <2> HIDE DEF G
    <2> QED BY <1>2, <1>3, NumberInduction
  <1> QED BY <1>1, <1>4

\* A sum may be taken apart at any of its terms: the order does not matter.
THEOREM SumOverRemove ==
  ASSUME NEW f, NEW S, IsFiniteSet(S), \A x \in S : f[x] \in Int, NEW y \in S
  PROVE  SumOver(f, S) = f[y] + SumOver(f, S \ {y})
  <1> DEFINE G == {n \in Nat : \A T \in SUBSET S : Cardinality(T) = n =>
                     \A z \in T : SumOver(f, T) = f[z] + SumOver(f, T \ {z})}
  <1>1. \A T \in SUBSET S : /\ IsFiniteSet(T) /\ Cardinality(T) \in Nat
                            /\ SumOver(f, T) \in Int
    BY FS_Subset, FS_CardinalityType, SumOverType
  <1>2. 0 \in G
    BY <1>1, FS_EmptySet
  <1>3. ASSUME NEW n \in Nat, n \in G PROVE n + 1 \in G
    <2> SUFFICES ASSUME NEW T \in SUBSET S, Cardinality(T) = n + 1, NEW z \in T
                 PROVE  SumOver(f, T) = f[z] + SumOver(f, T \ {z})
      OBVIOUS
    <2> DEFINE x == SumPick(T)
    <2>1. x \in T
      BY DEF SumPick
    <2>2. SumOver(f, T) = f[x] + SumOver(f, T \ {x})
      BY <1>1, SumOverStep
    <2> HIDE DEF x
    <2>3. CASE x = z
      BY <2>2, <2>3
    <2>4. CASE x # z
      <3>1. /\ z \in T \ {x} /\ T \ {x} \in SUBSET S
            /\ x \in T \ {z} /\ T \ {z} \in SUBSET S
        BY <2>1, <2>4
      <3>2. Cardinality(T \ {x}) = n /\ Cardinality(T \ {z}) = n
        BY <2>1, SmallerSubset
      <3>3. SumOver(f, T \ {x}) = f[z] + SumOver(f, (T \ {x}) \ {z})
        BY <1>3, <3>1, <3>2
      <3>4. SumOver(f, T \ {z}) = f[x] + SumOver(f, (T \ {z}) \ {x})
        BY <1>3, <3>1, <3>2
      <3>5. (T \ {x}) \ {z} = (T \ {z}) \ {x} /\ (T \ {x}) \ {z} \in SUBSET S
        OBVIOUS
      <3>6. f[x] \in Int /\ f[z] \in Int /\ SumOver(f, (T \ {x}) \ {z}) \in Int
        BY <1>1, <2>1, <3>5
      <3> DEFINE rest == SumOver(f, (T \ {x}) \ {z})
      <3>7. /\ SumOver(f, T) = f[x] + (f[z] + rest)
            /\ SumOver(f, T \ {z}) = f[x] + rest
        BY <2>2, <3>3, <3>4, <3>5, Zenon
      <3>8. rest \in Int
        BY <3>6
      <3> HIDE DEF rest
      <3>9. f[x] + (f[z] + rest) = f[z] + (f[x] + rest)
        BY <3>6, <3>8
      <3> QED BY <3>7, <3>9, Zenon
    <2> QED BY <2>3, <2>4
  <1>4. Nat \subseteq G
    <2> HIDE DEF G
    <2> QED BY <1>2, <1>3, NumberInduction
  <1> QED BY <1>1, <1>4

THEOREM SumOverAdd ==
  ASSUME NEW f, NEW S, IsFiniteSet(S), NEW y, y \notin S,
         \A x \in S \cup {y} : f[x] \in Int
  PROVE  SumOver(f, S \cup {y}) = SumOver(f, S) + f[y]
  <1>1. IsFiniteSet(S \cup {y}) /\ (S \cup {y}) \ {y} = S
    BY FS_AddElement
  <1>2. SumOver(f, S \cup {y}) = f[y] + SumOver(f, (S \cup {y}) \ {y})
    BY <1>1, SumOverRemove
  <1>3. SumOver(f, S) \in Int /\ f[y] \in Int
    BY SumOverType
  <1>4. f[y] + SumOver(f, S) = SumOver(f, S) + f[y]
    BY <1>3
  <1> QED BY <1>1, <1>2, <1>4, Zenon

\* The image of a finite set.
LEMMA ImageIsFinite ==
  ASSUME NEW h, NEW S, IsFiniteSet(S) PROVE IsFiniteSet({h[x] : x \in S})
  <1> DEFINE G == {T \in SUBSET S : IsFiniteSet({h[x] : x \in T})}
  <1>1. {} \in G
    <2>1. {h[x] : x \in {}} = {}
      OBVIOUS
    <2> QED BY <2>1, FS_EmptySet
  <1>2. ASSUME NEW T \in SUBSET S, NEW x \in S \ T, T \in G
        PROVE  T \cup {x} \in G
    <2>1. {h[y] : y \in T \cup {x}} = {h[y] : y \in T} \cup {h[x]}
      OBVIOUS
    <2>2. IsFiniteSet({h[y] : y \in T} \cup {h[x]})
      <3>1. PICK X : X = {h[y] : y \in T}
        OBVIOUS
      <3>2. IsFiniteSet(X \cup {h[x]})
        BY <1>2, <3>1, FS_AddElement
      <3> QED BY <3>1, <3>2
    <2> QED BY <2>1, <2>2
  <1> HIDE DEF G
  <1>3. S \in G
    BY <1>1, <1>2, SubsetInduction
  <1> QED BY <1>3 DEF G

-----------------------------------------------------------------------------
(* Bounds, unions, blocks and images.                                      *)

\* If each term of f is at most that of g and k more, the sums differ by at
\* most k for each term.
THEOREM SumOverCompare ==
  ASSUME NEW f, NEW g, NEW S, IsFiniteSet(S), NEW k \in Int,
         \A x \in S : f[x] \in Int /\ g[x] \in Int /\ f[x] <= g[x] + k
  PROVE  SumOver(f, S) <= SumOver(g, S) + Cardinality(S) * k
  <1> DEFINE G == {T \in SUBSET S :
                     SumOver(f, T) <= SumOver(g, T) + Cardinality(T) * k}
  <1>1. {} \in G
    BY SumOverEmpty, FS_EmptySet
  <1>2. ASSUME NEW T \in SUBSET S, NEW x \in S \ T, T \in G
        PROVE  T \cup {x} \in G
    <2>1. IsFiniteSet(T) /\ Cardinality(T) \in Nat
          /\ Cardinality(T \cup {x}) = Cardinality(T) + 1
      BY FS_Subset, FS_CardinalityType, FS_AddElement
    <2>2. SumOver(f, T) \in Int /\ SumOver(g, T) \in Int
      BY <2>1, SumOverType
    <2>3. /\ SumOver(f, T \cup {x}) = SumOver(f, T) + f[x]
          /\ SumOver(g, T \cup {x}) = SumOver(g, T) + g[x]
      BY <2>1, SumOverAdd
    <2>4. (Cardinality(T) + 1) * k = Cardinality(T) * k + k
      BY <2>1
    <2>5. PICK a, b, c, d, n : /\ a = SumOver(f, T) /\ b = SumOver(g, T) /\ c = f[x]
                               /\ d = g[x] /\ n = Cardinality(T) * k
      OBVIOUS
    <2>6. a \in Int /\ b \in Int /\ c \in Int /\ d \in Int /\ n \in Int
      BY <2>1, <2>2, <2>5
    <2>7. a <= b + n /\ c <= d + k
      BY <1>2, <2>5
    <2>8. a + c <= (b + d) + (n + k)
      BY <2>6, <2>7
    <2>9. SumOver(f, T \cup {x}) <= SumOver(g, T \cup {x}) + Cardinality(T \cup {x}) * k
      BY <2>1, <2>3, <2>4, <2>5, <2>8, Zenon
    <2> QED BY <2>9
  <1> HIDE DEF G
  <1>3. S \in G
    BY <1>1, <1>2, SubsetInduction
  <1> QED BY <1>3 DEF G

THEOREM SumOverMonotone ==
  ASSUME NEW f, NEW g, NEW S, IsFiniteSet(S),
         \A x \in S : f[x] \in Int /\ g[x] \in Int /\ f[x] <= g[x]
  PROVE  SumOver(f, S) <= SumOver(g, S)
  <1>1. \A x \in S : f[x] <= g[x] + 0
    OBVIOUS
  <1>2. SumOver(f, S) <= SumOver(g, S) + Cardinality(S) * 0
    BY <1>1, SumOverCompare
  <1>3. Cardinality(S) \in Nat /\ SumOver(f, S) \in Int /\ SumOver(g, S) \in Int
    BY FS_CardinalityType, SumOverType
  <1> QED BY <1>2, <1>3

\* Only the terms matter.
THEOREM SumOverEqual ==
  ASSUME NEW f, NEW g, NEW S, IsFiniteSet(S), \A x \in S : f[x] \in Int /\ f[x] = g[x]
  PROVE  SumOver(f, S) = SumOver(g, S)
  <1>1. SumOver(f, S) <= SumOver(g, S) /\ SumOver(g, S) <= SumOver(f, S)
    BY SumOverMonotone
  <1>2. SumOver(f, S) \in Int /\ SumOver(g, S) \in Int
    BY SumOverType
  <1> QED BY <1>1, <1>2

LEMMA SumOverNat ==
  ASSUME NEW f, NEW S, IsFiniteSet(S), \A x \in S : f[x] \in Nat
  PROVE  SumOver(f, S) \in Nat
  <1> DEFINE G == {T \in SUBSET S : SumOver(f, T) \in Nat}
  <1>1. {} \in G
    BY SumOverEmpty
  <1>2. ASSUME NEW T \in SUBSET S, NEW x \in S \ T, T \in G
        PROVE  T \cup {x} \in G
    <2>1. SumOver(f, T \cup {x}) = SumOver(f, T) + f[x]
      BY FS_Subset, SumOverAdd
    <2> QED BY <1>2, <2>1
  <1> HIDE DEF G
  <1>3. S \in G
    BY <1>1, <1>2, SubsetInduction
  <1> QED BY <1>3 DEF G

THEOREM SumOverUnion ==
  ASSUME NEW f, NEW S, NEW T, IsFiniteSet(S), IsFiniteSet(T), S \cap T = {},
         \A x \in S \cup T : f[x] \in Int
  PROVE  SumOver(f, S \cup T) = SumOver(f, S) + SumOver(f, T)
  <1> DEFINE G == {U \in SUBSET T : SumOver(f, S \cup U) = SumOver(f, S) + SumOver(f, U)}
  <1>1. {} \in G
    <2>1. S \cup {} = S
      OBVIOUS
    <2>2. SumOver(f, S) \in Int
      BY SumOverType
    <2> QED BY <2>1, <2>2, SumOverEmpty
  <1>2. ASSUME NEW U \in SUBSET T, NEW x \in T \ U, U \in G
        PROVE  U \cup {x} \in G
    <2>1. IsFiniteSet(U) /\ IsFiniteSet(S \cup U) /\ x \notin S \cup U
          /\ S \cup (U \cup {x}) = (S \cup U) \cup {x}
      BY FS_Subset, FS_Union
    <2>2. /\ SumOver(f, U \cup {x}) = SumOver(f, U) + f[x]
          /\ SumOver(f, (S \cup U) \cup {x}) = SumOver(f, S \cup U) + f[x]
      BY <2>1, SumOverAdd
    <2>3. SumOver(f, S) \in Int /\ SumOver(f, U) \in Int /\ f[x] \in Int
      BY <2>1, SumOverType
    <2>4. (SumOver(f, S) + SumOver(f, U)) + f[x] = SumOver(f, S) + (SumOver(f, U) + f[x])
      BY <2>3
    <2>5. SumOver(f, S \cup (U \cup {x})) = SumOver(f, S) + SumOver(f, U \cup {x})
      BY <1>2, <2>1, <2>2, <2>4, Zenon
    <2> QED BY <2>5
  <1> HIDE DEF G
  <1>3. T \in G
    BY <1>1, <1>2, SubsetInduction
  <1> QED BY <1>3 DEF G

THEOREM SumOverSubset ==
  ASSUME NEW f, NEW S, IsFiniteSet(S), NEW T \in SUBSET S, \A x \in S : f[x] \in Nat
  PROVE  SumOver(f, T) <= SumOver(f, S)
  <1>1. IsFiniteSet(T) /\ IsFiniteSet(S \ T) /\ T \cup (S \ T) = S /\ T \cap (S \ T) = {}
    BY FS_Subset
  <1>2. SumOver(f, S) = SumOver(f, T) + SumOver(f, S \ T)
    <2>1. PICK X, Y : X = T /\ Y = S \ T
      OBVIOUS
    <2>2. SumOver(f, X \cup Y) = SumOver(f, X) + SumOver(f, Y)
      <3>1. IsFiniteSet(X) /\ IsFiniteSet(Y) /\ X \cap Y = {} /\ \A x \in X \cup Y : f[x] \in Int
        BY <1>1, <2>1
      <3> QED BY <3>1, SumOverUnion
    <2> QED BY <1>1, <2>1, <2>2, Zenon
  <1>3. SumOver(f, T) \in Nat /\ SumOver(f, S \ T) \in Nat
    BY <1>1, SumOverNat
  <1> QED BY <1>2, <1>3

\* The sum of the sums of disjoint blocks.
THEOREM SumOverBlocks ==
  ASSUME NEW f, NEW F, NEW B, NEW I, IsFiniteSet(I),
         \A i \in I : /\ IsFiniteSet(B[i]) /\ F[i] = SumOver(f, B[i])
                      /\ \A x \in B[i] : f[x] \in Int,
         \A i, j \in I : i # j => B[i] \cap B[j] = {}
  PROVE  /\ IsFiniteSet(UNION {B[i] : i \in I})
         /\ SumOver(f, UNION {B[i] : i \in I}) = SumOver(F, I)
  <1> DEFINE U(J) == UNION {B[i] : i \in J}
             G == {J \in SUBSET I : IsFiniteSet(U(J)) /\ SumOver(f, U(J)) = SumOver(F, J)}
  <1>1. {} \in G
    <2>1. U({}) = {}
      OBVIOUS
    <2> QED BY <2>1, SumOverEmpty, FS_EmptySet
  <1>2. ASSUME NEW J \in SUBSET I, NEW i \in I \ J, J \in G
        PROVE  J \cup {i} \in G
    <2>1. U(J \cup {i}) = U(J) \cup B[i] /\ U(J) \cap B[i] = {}
      OBVIOUS
    <2>2. IsFiniteSet(U(J)) /\ SumOver(f, U(J)) = SumOver(F, J)
      BY <1>2
    <2>3. \A x \in U(J) \cup B[i] : f[x] \in Int
      OBVIOUS
    <2> HIDE DEF U
    <2>4. /\ SumOver(f, U(J \cup {i})) = SumOver(f, U(J)) + SumOver(f, B[i])
          /\ IsFiniteSet(U(J \cup {i}))
      <3>1. PICK X, Y, Z : X = U(J) /\ Y = B[i] /\ Z = U(J \cup {i})
        OBVIOUS
      <3>2. /\ Z = X \cup Y /\ X \cap Y = {} /\ IsFiniteSet(X) /\ IsFiniteSet(Y)
            /\ \A x \in X \cup Y : f[x] \in Int
        BY <2>1, <2>2, <2>3, <3>1
      <3>3. SumOver(f, X \cup Y) = SumOver(f, X) + SumOver(f, Y)
        BY <3>2, SumOverUnion
      <3>4. IsFiniteSet(X \cup Y)
        BY <3>2, FS_Union
      <3> QED BY <3>1, <3>2, <3>3, <3>4
    <2>5. \A j \in I : F[j] \in Int
      BY SumOverType
    <2>6. SumOver(F, J \cup {i}) = SumOver(F, J) + F[i]
      <3>1. IsFiniteSet(J) /\ i \notin J /\ \A j \in J \cup {i} : F[j] \in Int
        BY <2>5, FS_Subset
      <3> QED BY <3>1, SumOverAdd
    <2> QED BY <2>2, <2>4, <2>6
  <1> HIDE DEF G
  <1>3. I \in G
    BY <1>1, <1>2, SubsetInduction
  <1> QED BY <1>3 DEF G

\* Renaming the indices.
THEOREM SumOverImage ==
  ASSUME NEW f, NEW g, NEW h, NEW S, IsFiniteSet(S),
         \A x \in S : f[x] \in Int /\ f[x] = g[h[x]],
         \A x, y \in S : h[x] = h[y] => x = y
  PROVE  /\ IsFiniteSet({h[x] : x \in S})
         /\ SumOver(f, S) = SumOver(g, {h[x] : x \in S})
  <1> DEFINE H(T) == {h[x] : x \in T}
             G == {T \in SUBSET S : IsFiniteSet(H(T)) /\ SumOver(f, T) = SumOver(g, H(T))}
  <1>1. {} \in G
    <2>1. H({}) = {}
      OBVIOUS
    <2> QED BY <2>1, SumOverEmpty, FS_EmptySet
  <1>2. ASSUME NEW T \in SUBSET S, NEW x \in S \ T, T \in G
        PROVE  T \cup {x} \in G
    <2>1. H(T \cup {x}) = H(T) \cup {h[x]} /\ h[x] \notin H(T)
          /\ \A y \in H(T) \cup {h[x]} : g[y] \in Int
      OBVIOUS
    <2>2. IsFiniteSet(T) /\ IsFiniteSet(H(T))
      BY <1>2, FS_Subset
    <2> HIDE DEF H
    <2>3. SumOver(f, T \cup {x}) = SumOver(f, T) + f[x]
      BY <2>2, SumOverAdd
    <2>4. /\ SumOver(g, H(T \cup {x})) = SumOver(g, H(T)) + g[h[x]]
          /\ IsFiniteSet(H(T \cup {x}))
      <3>1. PICK X, Y, y : X = H(T) /\ Y = H(T \cup {x}) /\ y = h[x]
        OBVIOUS
      <3>2. /\ Y = X \cup {y} /\ y \notin X /\ IsFiniteSet(X)
            /\ \A z \in X \cup {y} : g[z] \in Int
        BY <2>1, <2>2, <3>1
      <3>3. SumOver(g, X \cup {y}) = SumOver(g, X) + g[y] /\ IsFiniteSet(X \cup {y})
        BY <3>2, SumOverAdd, FS_AddElement
      <3> QED BY <3>1, <3>2, <3>3
    <2> QED BY <1>2, <2>3, <2>4
  <1> HIDE DEF G
  <1>3. S \in G
    BY <1>1, <1>2, SubsetInduction
  <1> QED BY <1>3 DEF G

THEOREM SumOverConstant ==
  ASSUME NEW f, NEW S, IsFiniteSet(S), NEW k \in Int, \A x \in S : f[x] = k
  PROVE  SumOver(f, S) = Cardinality(S) * k
  <1> DEFINE G == {T \in SUBSET S : SumOver(f, T) = Cardinality(T) * k}
  <1>1. {} \in G
    BY SumOverEmpty, FS_EmptySet
  <1>2. ASSUME NEW T \in SUBSET S, NEW x \in S \ T, T \in G
        PROVE  T \cup {x} \in G
    <2>1. IsFiniteSet(T) /\ Cardinality(T) \in Nat
          /\ Cardinality(T \cup {x}) = Cardinality(T) + 1
      BY FS_Subset, FS_CardinalityType, FS_AddElement
    <2>2. SumOver(f, T \cup {x}) = SumOver(f, T) + k
      BY <2>1, SumOverAdd
    <2>3. (Cardinality(T) + 1) * k = Cardinality(T) * k + k
      BY <2>1
    <2>4. SumOver(f, T \cup {x}) = Cardinality(T \cup {x}) * k
      BY <1>2, <2>1, <2>2, <2>3, Zenon
    <2> QED BY <2>4
  <1> HIDE DEF G
  <1>3. S \in G
    BY <1>1, <1>2, SubsetInduction
  <1> QED BY <1>3 DEF G

\* A factor of all terms is a factor of the sum.
THEOREM SumOverScale ==
  ASSUME NEW f, NEW g, NEW S, IsFiniteSet(S), NEW k \in Int,
         \A x \in S : f[x] \in Int /\ g[x] = k * f[x]
  PROVE  SumOver(g, S) = k * SumOver(f, S)
  <1> DEFINE G == {T \in SUBSET S : SumOver(g, T) = k * SumOver(f, T)}
  <1>1. {} \in G
    BY SumOverEmpty
  <1>2. ASSUME NEW T \in SUBSET S, NEW x \in S \ T, T \in G
        PROVE  T \cup {x} \in G
    <2>1. IsFiniteSet(T) /\ SumOver(f, T) \in Int /\ k * f[x] \in Int
      BY FS_Subset, SumOverType
    <2>2. /\ SumOver(f, T \cup {x}) = SumOver(f, T) + f[x]
          /\ SumOver(g, T \cup {x}) = SumOver(g, T) + k * f[x]
      BY <2>1, SumOverAdd
    <2>3. PICK s \in Int, y \in Int : s = SumOver(f, T) /\ y = f[x]
      BY <2>1
    <2>4. k * (s + y) = k * s + k * y
      OBVIOUS
    <2>5. SumOver(g, T) = k * s
      BY <1>2, <2>3
    <2> QED BY <2>2, <2>3, <2>4, <2>5, Zenon
  <1> HIDE DEF G
  <1>3. S \in G
    BY <1>1, <1>2, SubsetInduction
  <1> QED BY <1>3 DEF G

\* A finite set of numbers has a greatest one.
THEOREM GreatestNumber ==
  ASSUME NEW S, IsFiniteSet(S), S \subseteq Int, S # {}
  PROVE  \E m \in S : \A n \in S : n <= m
  <1> DEFINE G == {T \in SUBSET S : T = {} \/ \E m \in T : \A n \in T : n <= m}
  <1>1. {} \in G
    OBVIOUS
  <1>2. ASSUME NEW T \in SUBSET S, NEW x \in S \ T, T \in G
        PROVE  T \cup {x} \in G
    <2>1. CASE T = {}
      BY <2>1
    <2>2. CASE T # {}
      <3>1. PICK m \in T : \A n \in T : n <= m
        BY <1>2, <2>2
      <3>2. CASE x <= m
        BY <3>1, <3>2
      <3>3. CASE ~(x <= m)
        <4>1. \A n \in T \cup {x} : n <= x
          BY <3>1, <3>3
        <4> QED BY <4>1
      <3> QED BY <3>2, <3>3
    <2> QED BY <2>1, <2>2
  <1> HIDE DEF G
  <1>3. S \in G
    BY <1>1, <1>2, SubsetInduction
  <1> QED BY <1>3 DEF G

LEMMA MaxIsGreatest ==
  ASSUME NEW S, IsFiniteSet(S), S \subseteq Int, S # {}
  PROVE  Max(S) \in S /\ \A n \in S : n <= Max(S)
  <1>1. \E m \in S : \A n \in S : m >= n
    BY GreatestNumber
  <1> QED BY <1>1 DEF Max

\* One term changes.
THEOREM SumOverChange ==
  ASSUME NEW f, NEW g, NEW S, IsFiniteSet(S), NEW y \in S,
         \A x \in S : f[x] \in Int /\ g[x] \in Int, \A x \in S \ {y} : g[x] = f[x]
  PROVE  SumOver(g, S) = SumOver(f, S) + (g[y] - f[y])
  <1>1. /\ SumOver(f, S) = f[y] + SumOver(f, S \ {y})
        /\ SumOver(g, S) = g[y] + SumOver(g, S \ {y})
    BY SumOverRemove
  <1>2. IsFiniteSet(S \ {y})
    BY FS_Subset
  <1>3. SumOver(g, S \ {y}) = SumOver(f, S \ {y}) /\ SumOver(f, S \ {y}) \in Int
    BY <1>2, SumOverEqual, SumOverType
  <1> QED BY <1>1, <1>3
=============================================================================
