----------------------------- MODULE SumProofs ------------------------------
(* Induction on finite sets and on numbers in the form of sets, and what     *)
(* follows for the sums of the community modules: a sum over a finite set    *)
(* does not depend on the order in which the fold picks the elements.        *)
EXTENDS Integers, Functions, FiniteSetsExt, FiniteSetTheorems,
        WellFoundedInduction, TLAPS

-----------------------------------------------------------------------------
(* A set that has every finite set whose parts it has, has S.                *)
LEMMA SetInduction ==
    ASSUME NEW S, IsFiniteSet(S), NEW G,
           \A T \in SUBSET S : (\A x \in T : T \ {x} \in G) => T \in G
    PROVE  S \in G
<1> DEFINE Bad == {T \in SUBSET S : T \notin G}
<1>1. SUFFICES ASSUME Bad # {} PROVE FALSE
  OBVIOUS
<1>2. Bad \subseteq FiniteSubsetsOf(S)
  BY FS_FiniteSubsetsOfFinite
<1>3. PICK T \in Bad : \A U \in Bad : ~(<<U, T>> \in StrictSubsetOrdering(S))
  <2> HIDE DEF Bad
  <2> QED BY <1>1, <1>2, FS_StrictSubsetOrderingWellFounded, WFMin
<1>4. \A x \in T : T \ {x} \in G
  <2> SUFFICES ASSUME NEW x \in T, T \ {x} \notin G PROVE FALSE
    OBVIOUS
  <2>1. T \ {x} \in Bad
    OBVIOUS
  <2>2. <<T \ {x}, T>> \in StrictSubsetOrdering(S)
    BY DEF StrictSubsetOrdering
  <2> QED BY <1>3, <2>1, <2>2
<1> QED BY <1>4

(* A set that has every number when it has those below, has them all.        *)
LEMMA NumberInduction ==
    ASSUME NEW G, \A n \in Nat : (\A m \in Nat : m < n => m \in G) => n \in G
    PROVE  Nat \subseteq G
<1> DEFINE Bad == Nat \ G
<1>1. SUFFICES ASSUME Bad # {} PROVE FALSE
  OBVIOUS
<1>2. Bad \subseteq Nat
  OBVIOUS
<1>3. PICK n \in Bad : \A m \in Bad : ~(<<m, n>> \in OpToRel(<, Nat))
  <2> HIDE DEF Bad
  <2> QED BY <1>1, <1>2, NatLessThanWellFounded, WFMin
<1>4. \A m \in Nat : m < n => m \in G
  BY <1>3 DEF OpToRel
<1> QED BY <1>4

LEMMA PartsAreFinite ==
    ASSUME NEW a \in Int, NEW b \in Int, NEW S, S \subseteq a .. b
    PROVE  IsFiniteSet(S)
<1>1. IsFiniteSet(a .. b)
  BY FS_Interval
<1> QED
  BY <1>1, FS_Subset

HasEnds(S) == \E a, b \in S : \A x \in S : a <= x /\ x <= b

LEMMA EndsExist ==
    ASSUME NEW S \in SUBSET Int, IsFiniteSet(S) PROVE S = {} \/ HasEnds(S)
<1> DEFINE G == {T \in SUBSET S : T = {} \/ HasEnds(T)}
<1>1. ASSUME NEW T \in SUBSET S, \A x \in T : T \ {x} \in G PROVE T \in G
  <2> SUFFICES ASSUME T # {} PROVE HasEnds(T)
    OBVIOUS
  <2>1. PICK y \in T : TRUE
    OBVIOUS
  <2>2. CASE T \ {y} = {}
    <3>1. \A x \in T : x = y
      BY <2>1, <2>2
    <3>2. y \in Int
      BY <2>1
    <3>3. \A x \in T : y <= x /\ x <= y
      BY <3>1, <3>2
    <3> QED
      BY <2>1, <3>3 DEF HasEnds
  <2>3. CASE T \ {y} # {}
    <3>1. HasEnds(T \ {y})
      BY <1>1, <2>1, <2>3
    <3>2. PICK a \in T, b \in T : \A x \in T \ {y} : a <= x /\ x <= b
      BY <3>1 DEF HasEnds
    <3>3. a \in Int /\ b \in Int /\ y \in Int /\ \A x \in T : x \in Int
      BY <2>1
    <3>4. PICK c \in {a, y}, d \in {b, y} : c <= a /\ c <= y /\ b <= d /\ y <= d
      BY <3>3
    <3>5. c \in T /\ d \in T /\ c \in Int /\ d \in Int
      BY <2>1, <3>3
    <3>6. ASSUME NEW x \in T PROVE c <= x /\ x <= d
      <4>1. CASE x = y
        BY <3>4, <4>1
      <4>2. CASE x # y
        <5>1. a <= x /\ x <= b /\ x \in Int
          BY <3>2, <3>3, <4>2
        <5> QED
          BY <3>3, <3>4, <3>5, <5>1
      <4> QED
        BY <4>1, <4>2
    <3> QED
      BY <3>5, <3>6 DEF HasEnds
  <2> QED
    BY <2>2, <2>3
<1>2. S \in G
  <2> HIDE DEF G
  <2> QED
    BY <1>1, SetInduction
<1> QED
  BY <1>2

LEMMA LeastAndGreatest ==
    ASSUME NEW S \in SUBSET Int, IsFiniteSet(S), S # {}
    PROVE  /\ Min(S) \in S /\ \A x \in S : Min(S) <= x
           /\ Max(S) \in S /\ \A x \in S : x <= Max(S)
<1>1. PICK a \in S, b \in S : \A x \in S : a <= x /\ x <= b
  BY EndsExist DEF HasEnds
<1>2. \A x \in S : b >= x
  BY <1>1
<1>3. Min(S) \in S /\ \A x \in S : Min(S) <= x
  BY <1>1 DEF Min
<1>4. Max(S) \in S /\ \A x \in S : Max(S) >= x
  BY <1>2 DEF Max
<1>5. \A x \in S : x <= Max(S)
  BY <1>4
<1> QED
  BY <1>3, <1>4, <1>5

-----------------------------------------------------------------------------
(* The recursive function of the fold exists.                                *)
Picked(s) == CHOOSE x \in s : TRUE
SumBody(f, g, s) == IF s = {} THEN 0 ELSE f[Picked(s)] + g[s \ {Picked(s)}]
IsFold(f, g, S) == g = [s \in SUBSET S |-> SumBody(f, g, s)]

LEMMA FoldExists ==
    ASSUME NEW f, NEW S, IsFiniteSet(S)
    PROVE  \E g : IsFold(f, g, S)
<1> DEFINE Upto(g, n) ==
        \A s \in SUBSET S : Cardinality(s) < n => g[s] = SumBody(f, g, s)
           G == {n \in Nat : \E g : Upto(g, n)}
<1>1. \A s \in SUBSET S : IsFiniteSet(s) /\ Cardinality(s) \in Nat
  BY FS_Subset, FS_CardinalityType
<1>2. ASSUME NEW n \in Nat, \A m \in Nat : m < n => m \in G PROVE n \in G
  <2>1. CASE n = 0
    BY <2>1, <1>1
  <2>2. CASE n # 0
    <3>1. n - 1 \in G
      BY <1>2, <2>2
    <3>2. PICK g : Upto(g, n - 1)
      BY <3>1
    <3> DEFINE h == [s \in SUBSET S |-> SumBody(f, g, s)]
    <3>3. ASSUME NEW s \in SUBSET S, Cardinality(s) < n PROVE h[s] = SumBody(f, h, s)
      <4>1. CASE s = {}
        BY <4>1 DEF SumBody
      <4>2. CASE s # {}
        <5>1. Picked(s) \in s
          BY <4>2 DEF Picked
        <5> DEFINE r == s \ {Picked(s)}
        <5>2. r \in SUBSET S /\ Cardinality(r) < n - 1
          BY <5>1, <1>1, <3>3, FS_RemoveElement
        <5>3. g[r] = SumBody(f, g, r)
          BY <3>2, <5>2
        <5>4. h[r] = g[r]
          BY <5>2, <5>3
        <5> QED BY <5>4, <4>2 DEF SumBody
      <4> QED BY <4>1, <4>2
    <3>4. Upto(h, n)
      <4> HIDE DEF h
      <4> QED BY <3>3
    <3> QED BY <3>4
  <2> QED BY <2>1, <2>2
<1>3. Nat \subseteq G
  <2> HIDE DEF G
  <2> QED BY <1>2, NumberInduction
<1>4. PICK g : Upto(g, Cardinality(S) + 1)
  BY <1>1, <1>3
<1>5. \A s \in SUBSET S : g[s] = SumBody(f, g, s)
  BY <1>1, <1>4, FS_Subset
<1> DEFINE h == [s \in SUBSET S |-> g[s]]
<1>6. ASSUME NEW s \in SUBSET S PROVE SumBody(f, h, s) = SumBody(f, g, s)
  <2>1. s \ {Picked(s)} \in SUBSET S
    OBVIOUS
  <2>2. h[s \ {Picked(s)}] = g[s \ {Picked(s)}]
    BY <2>1
  <2> QED BY <2>2 DEF SumBody
<1>7. IsFold(f, h, S)
  BY <1>5, <1>6 DEF IsFold
<1> QED BY <1>7

(* It is the same for a smaller set.                                         *)
LEMMA FoldUnique ==
    ASSUME NEW f, NEW S, IsFiniteSet(S), NEW T \in SUBSET S, NEW g, NEW h,
           IsFold(f, g, S), IsFold(f, h, T)
    PROVE  g[T] = h[T]
<1> DEFINE G == {U \in SUBSET T : g[U] = h[U]}
<1>1. IsFiniteSet(T)
  BY FS_Subset
<1>2. ASSUME NEW U \in SUBSET T, \A x \in U : U \ {x} \in G PROVE U \in G
  <2>1. g[U] = SumBody(f, g, U) /\ h[U] = SumBody(f, h, U)
    BY DEF IsFold
  <2>2. CASE U = {}
    BY <2>1, <2>2 DEF SumBody
  <2>3. CASE U # {}
    <3>1. Picked(U) \in U
      BY <2>3 DEF Picked
    <3>2. g[U \ {Picked(U)}] = h[U \ {Picked(U)}]
      BY <3>1, <1>2
    <3> QED BY <2>1, <3>2 DEF SumBody
  <2> QED BY <2>2, <2>3
<1>3. T \in G
  <2> HIDE DEF G
  <2> QED BY <1>1, <1>2, SetInduction
<1> QED BY <1>3

LEMMA SumFolds ==
    ASSUME NEW f, NEW S, IsFiniteSet(S)
    PROVE  \E g : IsFold(f, g, S) /\ SumFunctionOnSet(f, S) = g[S]
<1> DEFINE g == CHOOSE i : IsFold(f, i, S)
<1>1. SumFunctionOnSet(f, S) = g[S]
  BY DEF SumFunctionOnSet, FoldFunctionOnSet, MapThenFoldSet, IsFold, SumBody,
         Picked
<1>2. IsFold(f, g, S)
  BY FoldExists
<1> QED BY <1>1, <1>2

-----------------------------------------------------------------------------
(* The sums.                                                                 *)
LEMMA SumOfNone == ASSUME NEW f PROVE SumFunctionOnSet(f, {}) = 0
<1>1. PICK g : IsFold(f, g, {}) /\ SumFunctionOnSet(f, {}) = g[{}]
  BY SumFolds, FS_EmptySet
<1>2. g[{}] = SumBody(f, g, {})
  BY <1>1 DEF IsFold
<1> QED BY <1>1, <1>2 DEF SumBody

LEMMA SumPicked ==
    ASSUME NEW f, NEW S, IsFiniteSet(S), S # {}
    PROVE  SumFunctionOnSet(f, S) =
             f[Picked(S)] + SumFunctionOnSet(f, S \ {Picked(S)})
<1> DEFINE T == S \ {Picked(S)}
<1>1. PICK g : IsFold(f, g, S) /\ SumFunctionOnSet(f, S) = g[S]
  BY SumFolds
<1>2. IsFiniteSet(T) /\ T \in SUBSET S
  BY FS_Subset
<1>3. PICK h : IsFold(f, h, T) /\ SumFunctionOnSet(f, T) = h[T]
  BY <1>2, SumFolds
<1>4. g[T] = h[T]
  BY <1>1, <1>2, <1>3, FoldUnique
<1>5. g[S] = f[Picked(S)] + g[T]
  BY <1>1 DEF IsFold, SumBody
<1> QED BY <1>1, <1>3, <1>4, <1>5

LEMMA SumIsInt ==
    ASSUME NEW f, NEW S, IsFiniteSet(S), \A x \in S : f[x] \in Int
    PROVE  SumFunctionOnSet(f, S) \in Int
<1> DEFINE G == {T \in SUBSET S : SumFunctionOnSet(f, T) \in Int}
<1>1. ASSUME NEW T \in SUBSET S, \A x \in T : T \ {x} \in G PROVE T \in G
  <2>1. CASE T = {}
    BY <2>1, SumOfNone
  <2>2. CASE T # {}
    <3>1. Picked(T) \in T
      BY <2>2 DEF Picked
    <3>2. IsFiniteSet(T)
      BY FS_Subset
    <3>3. SumFunctionOnSet(f, T \ {Picked(T)}) \in Int /\ f[Picked(T)] \in Int
      BY <1>1, <3>1
    <3>4. SumFunctionOnSet(f, T) \in Int
      BY <2>2, <3>2, <3>3, SumPicked
    <3> QED BY <3>4
  <2> QED BY <2>1, <2>2
<1>2. S \in G
  <2> HIDE DEF G
  <2> QED BY <1>1, SetInduction
<1> QED BY <1>2

(* Any element may be taken out.                                             *)
LEMMA SumTakeOut ==
    ASSUME NEW f, NEW S, IsFiniteSet(S), \A x \in S : f[x] \in Int, NEW x \in S
    PROVE  SumFunctionOnSet(f, S) = f[x] + SumFunctionOnSet(f, S \ {x})
<1> DEFINE Sum(T) == SumFunctionOnSet(f, T)
           G == {T \in SUBSET S : \A y \in T : Sum(T) = f[y] + Sum(T \ {y})}
<1>1. \A T \in SUBSET S : IsFiniteSet(T) /\ Sum(T) \in Int
  <2> SUFFICES ASSUME NEW T \in SUBSET S PROVE IsFiniteSet(T) /\ Sum(T) \in Int
    OBVIOUS
  <2>1. IsFiniteSet(T)
    BY FS_Subset
  <2> QED BY <2>1, SumIsInt
<1>2. ASSUME NEW T \in SUBSET S, \A y \in T : T \ {y} \in G PROVE T \in G
  <2> SUFFICES ASSUME NEW y \in T PROVE Sum(T) = f[y] + Sum(T \ {y})
    OBVIOUS
  <2> DEFINE p == Picked(T)
  <2>1. p \in T /\ Sum(T) = f[p] + Sum(T \ {p})
    BY <1>1, SumPicked DEF Picked
  <2>2. CASE y = p
    BY <2>1, <2>2
  <2>3. CASE y # p
    <3> HIDE DEF p
    <3>1. Sum(T \ {p}) = f[y] + Sum((T \ {p}) \ {y})
      BY <1>2, <2>1, <2>3
    <3>2. Sum(T \ {y}) = f[p] + Sum((T \ {y}) \ {p})
      BY <1>2, <2>1, <2>3
    <3>3. (T \ {p}) \ {y} = (T \ {y}) \ {p}
      OBVIOUS
    <3>4. f[y] \in Int /\ f[p] \in Int /\ Sum((T \ {y}) \ {p}) \in Int
      BY <1>1, <2>1
    <3>5. Sum(T) \in Int /\ Sum(T \ {p}) \in Int /\ Sum(T \ {y}) \in Int
      BY <1>1
    <3> HIDE DEF Sum
    <3>6. Sum((T \ {p}) \ {y}) = Sum((T \ {y}) \ {p})
      BY <3>3
    <3> DEFINE r == Sum((T \ {y}) \ {p})
    <3>7. Sum(T) = f[p] + (f[y] + r) /\ Sum(T \ {y}) = f[p] + r /\ r \in Int
      BY <2>1, <3>1, <3>2, <3>4, <3>6
    <3> HIDE DEF r
    <3> QED BY <3>4, <3>7
  <2> QED BY <2>2, <2>3
<1>3. S \in G
  <2> HIDE DEF G
  <2> QED BY <1>2, SetInduction
<1> QED BY <1>3

LEMMA SumPutIn ==
    ASSUME NEW f, NEW S, IsFiniteSet(S), \A x \in S : f[x] \in Int,
           NEW x, x \notin S, f[x] \in Int
    PROVE  SumFunctionOnSet(f, S \cup {x}) = SumFunctionOnSet(f, S) + f[x]
<1>1. IsFiniteSet(S \cup {x}) /\ (S \cup {x}) \ {x} = S
  BY FS_AddElement
<1>2. SumFunctionOnSet(f, S \cup {x}) = f[x] + SumFunctionOnSet(f, S)
  BY <1>1, SumTakeOut
<1>3. SumFunctionOnSet(f, S) \in Int
  BY SumIsInt
<1> QED BY <1>2, <1>3

(* Equal summands, equal sums.                                               *)
LEMMA SumOfEquals ==
    ASSUME NEW f, NEW g, NEW S, IsFiniteSet(S), \A x \in S : f[x] = g[x]
    PROVE  SumFunctionOnSet(f, S) = SumFunctionOnSet(g, S)
<1> DEFINE G == {T \in SUBSET S : SumFunctionOnSet(f, T) = SumFunctionOnSet(g, T)}
<1>1. ASSUME NEW T \in SUBSET S, \A x \in T : T \ {x} \in G PROVE T \in G
  <2>1. CASE T = {}
    BY <2>1, SumOfNone
  <2>2. CASE T # {}
    <3>1. Picked(T) \in T
      BY <2>2 DEF Picked
    <3>2. IsFiniteSet(T)
      BY FS_Subset
    <3>3. SumFunctionOnSet(f, T \ {Picked(T)}) = SumFunctionOnSet(g, T \ {Picked(T)})
      BY <1>1, <3>1
    <3> QED BY <2>2, <3>1, <3>2, <3>3, SumPicked
  <2> QED BY <2>1, <2>2
<1>2. S \in G
  <2> HIDE DEF G
  <2> QED BY <1>1, SetInduction
<1> QED BY <1>2

(* One summand changes, and the sum by as much.                              *)
LEMMA SumOfChanged ==
    ASSUME NEW f, NEW g, NEW S, IsFiniteSet(S), NEW x \in S,
           \A y \in S : f[y] \in Int /\ g[y] \in Int,
           \A y \in S \ {x} : f[y] = g[y]
    PROVE  SumFunctionOnSet(g, S) = SumFunctionOnSet(f, S) - f[x] + g[x]
<1>1. IsFiniteSet(S \ {x})
  BY FS_Subset
<1>2. SumFunctionOnSet(f, S \ {x}) = SumFunctionOnSet(g, S \ {x})
  BY <1>1, SumOfEquals
<1>3. SumFunctionOnSet(f, S \ {x}) \in Int
  BY <1>1, SumIsInt
<1>4. SumFunctionOnSet(f, S) = f[x] + SumFunctionOnSet(f, S \ {x})
  BY SumTakeOut
<1>5. SumFunctionOnSet(g, S) = g[x] + SumFunctionOnSet(g, S \ {x})
  BY SumTakeOut
<1> QED BY <1>2, <1>3, <1>4, <1>5

LEMMA SumOfZeros ==
    ASSUME NEW f, NEW S, IsFiniteSet(S), \A x \in S : f[x] = 0
    PROVE  SumFunctionOnSet(f, S) = 0
<1> DEFINE G == {T \in SUBSET S : SumFunctionOnSet(f, T) = 0}
<1>1. ASSUME NEW T \in SUBSET S, \A x \in T : T \ {x} \in G PROVE T \in G
  <2>1. CASE T = {}
    BY <2>1, SumOfNone
  <2>2. CASE T # {}
    <3>1. Picked(T) \in T
      BY <2>2 DEF Picked
    <3>2. IsFiniteSet(T)
      BY FS_Subset
    <3>3. SumFunctionOnSet(f, T \ {Picked(T)}) = 0
      BY <1>1, <3>1
    <3> QED BY <2>2, <3>1, <3>2, <3>3, SumPicked
  <2> QED BY <2>1, <2>2
<1>2. S \in G
  <2> HIDE DEF G
  <2> QED BY <1>1, SetInduction
<1> QED BY <1>2

LEMMA SumIsNat ==
    ASSUME NEW f, NEW S, IsFiniteSet(S), \A x \in S : f[x] \in Nat
    PROVE  SumFunctionOnSet(f, S) \in Nat
<1> DEFINE G == {T \in SUBSET S : SumFunctionOnSet(f, T) \in Nat}
<1>1. ASSUME NEW T \in SUBSET S, \A x \in T : T \ {x} \in G PROVE T \in G
  <2>1. CASE T = {}
    BY <2>1, SumOfNone
  <2>2. CASE T # {}
    <3>1. Picked(T) \in T
      BY <2>2 DEF Picked
    <3>2. IsFiniteSet(T)
      BY FS_Subset
    <3>3. SumFunctionOnSet(f, T \ {Picked(T)}) \in Nat /\ f[Picked(T)] \in Nat
      BY <1>1, <3>1
    <3>4. SumFunctionOnSet(f, T) \in Nat
      BY <2>2, <3>2, <3>3, SumPicked
    <3> QED BY <3>4
  <2> QED BY <2>1, <2>2
<1>2. S \in G
  <2> HIDE DEF G
  <2> QED BY <1>1, SetInduction
<1> QED BY <1>2

LEMMA SumOfOne ==
    ASSUME NEW f, NEW x, f[x] \in Int
    PROVE  SumFunctionOnSet(f, {x}) = f[x]
<1>1. SumFunctionOnSet(f, {} \cup {x}) = SumFunctionOnSet(f, {}) + f[x]
  BY SumPutIn, FS_EmptySet
<1> QED BY <1>1, SumOfNone

(* The sum over two sets that have nothing in common.                        *)
LEMMA SumOfTwo ==
    ASSUME NEW f, NEW S, NEW T, IsFiniteSet(S), IsFiniteSet(T), S \cap T = {},
           \A x \in S \cup T : f[x] \in Int
    PROVE  SumFunctionOnSet(f, S \cup T) =
             SumFunctionOnSet(f, S) + SumFunctionOnSet(f, T)
<1> DEFINE Sum(U) == SumFunctionOnSet(f, U)
           G == {U \in SUBSET T : Sum(S \cup U) = Sum(S) + Sum(U)}
<1>1. ASSUME NEW U \in SUBSET T, \A x \in U : U \ {x} \in G PROVE U \in G
  <2>1. CASE U = {}
    <3>1. Sum(S) \in Int
      BY SumIsInt
    <3>2. S \cup U = S /\ Sum(U) = 0
      BY <2>1, SumOfNone
    <3>3. Sum(S \cup U) = Sum(S)
      BY <3>2
    <3> HIDE DEF Sum
    <3>4. Sum(S \cup U) = Sum(S) + Sum(U)
      BY <3>1, <3>2, <3>3 DEF Sum
    <3> QED BY <3>4 DEF Sum
  <2>2. CASE U # {}
    <3>1. PICK x \in U : TRUE
      BY <2>2
    <3> DEFINE V == U \ {x}
    <3>2. IsFiniteSet(U) /\ IsFiniteSet(V) /\ IsFiniteSet(S \cup V)
      BY FS_Subset, FS_Union
    <3>3. Sum(S \cup V) = Sum(S) + Sum(V)
      BY <1>1, <3>1
    <3>4. (S \cup V) \cup {x} = S \cup U /\ V \cup {x} = U /\ x \notin S \cup V /\ x \notin V
      BY <3>1
    <3>5. f[x] \in Int /\ \A y \in S \cup V : f[y] \in Int
      BY <3>1
    <3> HIDE DEF V
    <3>6. Sum(S \cup U) = Sum(S \cup V) + f[x]
      <4>1. SumFunctionOnSet(f, (S \cup V) \cup {x}) = SumFunctionOnSet(f, S \cup V) + f[x]
        BY <3>2, <3>4, <3>5, SumPutIn
      <4> QED BY <4>1, <3>4
    <3>7. Sum(U) = Sum(V) + f[x]
      <4>1. SumFunctionOnSet(f, V \cup {x}) = SumFunctionOnSet(f, V) + f[x]
        BY <3>2, <3>4, <3>5, SumPutIn
      <4> QED BY <4>1, <3>4
    <3>8. Sum(S) \in Int /\ Sum(V) \in Int
      BY <3>2, <3>5, SumIsInt
    <3> HIDE DEF Sum
    <3>9. Sum(S \cup U) = Sum(S) + Sum(U)
      BY <3>3, <3>5, <3>6, <3>7, <3>8
    <3> QED BY <3>9 DEF Sum
  <2> QED BY <2>1, <2>2
<1>2. T \in G
  <2> HIDE DEF G
  <2> QED BY <1>1, SetInduction
<1> QED BY <1>2

(* A sum of sums and of differences.                                         *)
AddsTo(f, g, h, S) ==
    \A x \in S : f[x] \in Int /\ g[x] \in Int /\ h[x] = f[x] + g[x]
SumsAddTo(f, g, h, S) ==
    SumFunctionOnSet(h, S) = SumFunctionOnSet(f, S) + SumFunctionOnSet(g, S)

LEMMA SumOfSums ==
    ASSUME NEW f, NEW g, NEW h, NEW S, IsFiniteSet(S), AddsTo(f, g, h, S)
    PROVE  SumsAddTo(f, g, h, S)
<1> DEFINE G == {T \in SUBSET S : SumFunctionOnSet(h, T) =
                            SumFunctionOnSet(f, T) + SumFunctionOnSet(g, T)}
<1> USE DEF AddsTo, SumsAddTo
<1>1. ASSUME NEW T \in SUBSET S, \A x \in T : T \ {x} \in G PROVE T \in G
  <2>1. CASE T = {}
    BY <2>1, SumOfNone
  <2>2. CASE T # {}
    <3>1. PICK x \in T : x = Picked(T)
      BY <2>2 DEF Picked
    <3>2. IsFiniteSet(T) /\ IsFiniteSet(T \ {x})
      BY FS_Subset
    <3>3. /\ SumFunctionOnSet(f, T) = f[x] + SumFunctionOnSet(f, T \ {x})
          /\ SumFunctionOnSet(g, T) = g[x] + SumFunctionOnSet(g, T \ {x})
          /\ SumFunctionOnSet(h, T) = h[x] + SumFunctionOnSet(h, T \ {x})
      BY <2>2, <3>1, <3>2, SumPicked
    <3>4. SumFunctionOnSet(h, T \ {x}) =
            SumFunctionOnSet(f, T \ {x}) + SumFunctionOnSet(g, T \ {x})
      BY <1>1
    <3>5. \A y \in T \ {x} : f[y] \in Int /\ g[y] \in Int
      OBVIOUS
    <3>6. PICK u \in Int : u = SumFunctionOnSet(f, T \ {x})
      BY <3>2, <3>5, SumIsInt
    <3>7. PICK v \in Int : v = SumFunctionOnSet(g, T \ {x})
      BY <3>2, <3>5, SumIsInt
    <3>8. PICK i \in Int, j \in Int : i = f[x] /\ j = g[x]
      OBVIOUS
    <3>9. h[x] = i + j
      BY <3>8
    <3>10. (i + j) + (u + v) = (i + u) + (j + v)
      OBVIOUS
    <3>11. SumFunctionOnSet(h, T) =
            SumFunctionOnSet(f, T) + SumFunctionOnSet(g, T)
      BY Zenon, <3>3, <3>4, <3>6, <3>7, <3>8, <3>9, <3>10
    <3> QED
      BY <3>11
  <2> QED
    BY <2>1, <2>2
<1>2. S \in G
  <2> HIDE DEF G
  <2> QED
    BY <1>1, SetInduction
<1> QED
  BY <1>2

LeavesOf(f, g, h, S) ==
    \A x \in S : f[x] \in Int /\ g[x] \in Int /\ h[x] = f[x] - g[x]
SumsLeave(f, g, h, S) ==
    SumFunctionOnSet(h, S) = SumFunctionOnSet(f, S) - SumFunctionOnSet(g, S)

LEMMA SumOfDifferences ==
    ASSUME NEW f, NEW g, NEW h, NEW S, IsFiniteSet(S), LeavesOf(f, g, h, S)
    PROVE  SumsLeave(f, g, h, S)
<1>1. \A x \in S : g[x] \in Int /\ h[x] \in Int /\ f[x] = g[x] + h[x]
  BY DEF LeavesOf
<1>2. SumFunctionOnSet(f, S) = SumFunctionOnSet(g, S) + SumFunctionOnSet(h, S)
  <2>1. AddsTo(g, h, f, S)
    BY <1>1 DEF AddsTo
  <2>2. SumsAddTo(g, h, f, S)
    BY <2>1, SumOfSums
  <2> QED
    BY <2>2 DEF SumsAddTo
<1>3. \A x \in S : g[x] \in Int
  BY <1>1
<1>4. \A x \in S : h[x] \in Int
  BY <1>1
<1>5. SumFunctionOnSet(g, S) \in Int /\ SumFunctionOnSet(h, S) \in Int
  BY <1>3, <1>4, SumIsInt
<1> QED
  BY <1>2, <1>5 DEF SumsLeave

(* The sums of the first numbers of a sequence of positive ones: they rise,  *)
(* and every number up to the last lies between two.                         *)
FirstSum(s, m) == SumFunctionOnSet(s, 1 .. m)

Rising(s, n) ==
    /\ FirstSum(s, 0) = 0 /\ \A m \in 0 .. n : FirstSum(s, m) \in Nat
    /\ \A m \in 1 .. n : FirstSum(s, m) = FirstSum(s, m - 1) + s[m]
    /\ \A i, j \in 0 .. n : i < j => FirstSum(s, i) < FirstSum(s, j)
    /\ \A d \in 1 .. FirstSum(s, n) :
        \E m \in 1 .. n : FirstSum(s, m - 1) < d /\ d <= FirstSum(s, m)

LEMMA FirstSums ==
    ASSUME NEW s, NEW n \in Nat, \A m \in 1 .. n : s[m] \in Nat \ {0}
    PROVE  Rising(s, n)
<1> DEFINE Sum(m) == SumFunctionOnSet(s, 1 .. m)
<1>1. ASSUME NEW m \in 0 .. n PROVE IsFiniteSet(1 .. m) /\ Sum(m) \in Nat
  <2>1. 1 \in Int /\ m \in Int /\ 1 .. m \subseteq 1 .. m
    OBVIOUS
  <2>2. IsFiniteSet(1 .. m)
    BY Zenon, <2>1, PartsAreFinite
  <2>3. \A k \in 1 .. m : s[k] \in Nat
    OBVIOUS
  <2> QED
    BY <2>2, <2>3, SumIsNat
<1>2. ASSUME NEW m \in 1 .. n PROVE Sum(m) = Sum(m - 1) + s[m]
  <2>1. 1 \in Int /\ m - 1 \in Int /\ 1 .. m - 1 \subseteq 1 .. m - 1
    OBVIOUS
  <2>2. IsFiniteSet(1 .. m - 1)
    BY Zenon, <2>1, PartsAreFinite
  <2>3. /\ \A k \in 1 .. m - 1 : s[k] \in Int
        /\ m \notin 1 .. m - 1 /\ s[m] \in Int
    OBVIOUS
  <2>4. 1 .. m = (1 .. m - 1) \cup {m}
    OBVIOUS
  <2>5. SumFunctionOnSet(s, (1 .. m - 1) \cup {m}) =
            SumFunctionOnSet(s, 1 .. m - 1) + s[m]
    BY <2>2, <2>3, SumPutIn
  <2> QED
    BY <2>4, <2>5
<1>3. Sum(0) = 0
  <2>1. 1 .. 0 = {}
    OBVIOUS
  <2> QED
    BY <2>1, SumOfNone
<1>4. /\ \A m \in 0 .. n : Sum(m) \in Nat
      /\ \A m \in 1 .. n : Sum(m) = Sum(m - 1) + s[m]
  BY <1>1, <1>2
<1> DEFINE Up == {m \in Nat : m <= n => \A i \in 0 .. n : i < m => Sum(i) < Sum(m)}
           In == {m \in Nat : m <= n => \A d \in 1 .. Sum(m) :
                        \E k \in 1 .. n : Sum(k - 1) < d /\ d <= Sum(k)}
<1> HIDE DEF Sum
<1>5. ASSUME NEW m \in Nat, \A k \in Nat : k < m => k \in Up PROVE m \in Up
  <2> SUFFICES ASSUME m <= n, NEW i \in 0 .. n, i < m PROVE Sum(i) < Sum(m)
    OBVIOUS
  <2>1. m \in 1 .. n /\ m - 1 \in Nat /\ m - 1 \in 0 .. n /\ m - 1 < m
    OBVIOUS
  <2>2. PICK before \in Nat : before = Sum(m - 1)
    BY <1>4, <2>1
  <2>3. PICK length \in Nat \ {0} : length = s[m]
    BY <2>1
  <2>4. Sum(m) = before + length
    BY Zenon, <1>4, <2>1, <2>2, <2>3
  <2>5. i = m - 1 \/ i < m - 1
    OBVIOUS
  <2>6. PICK at \in Nat : at = Sum(i)
    BY <1>4
  <2>7. m - 1 \in Up
    BY <1>5, <2>1
  <2>8. i < m - 1 => Sum(i) < Sum(m - 1)
    BY <2>1, <2>7
  <2>9. at <= before
    BY <2>2, <2>5, <2>6, <2>8
  <2>10. at < before + length
    BY <2>9
  <2> QED
    BY Zenon, <2>4, <2>6, <2>10
<1>6. Nat \subseteq Up
  <2> HIDE DEF Up
  <2> QED
    BY <1>5, NumberInduction
<1>7. \A i, j \in 0 .. n : i < j => Sum(i) < Sum(j)
  BY <1>6
<1>8. ASSUME NEW m \in Nat, \A k \in Nat : k < m => k \in In PROVE m \in In
  <2> SUFFICES ASSUME m <= n, NEW d \in 1 .. Sum(m)
               PROVE  \E k \in 1 .. n : Sum(k - 1) < d /\ d <= Sum(k)
    OBVIOUS
  <2>1. m # 0
    BY <1>3
  <2>2. m \in 1 .. n /\ m - 1 \in Nat /\ m - 1 \in 0 .. n /\ m - 1 < m
    BY <2>1
  <2>3. Sum(m - 1) \in Nat /\ Sum(m) \in Nat
    BY <1>4, <2>2
  <2>4. CASE d <= Sum(m - 1)
    <3>1. d \in 1 .. Sum(m - 1)
      BY <2>3, <2>4
    <3>2. m - 1 \in In
      BY <1>8, <2>2
    <3> QED
      BY <2>2, <3>1, <3>2
  <2>5. CASE ~(d <= Sum(m - 1))
    <3>1. Sum(m - 1) < d /\ d <= Sum(m)
      BY <2>3, <2>5
    <3> QED
      BY <2>2, <3>1
  <2> QED
    BY <2>4, <2>5
<1>9. Nat \subseteq In
  <2> HIDE DEF In
  <2> QED
    BY <1>8, NumberInduction
<1>10. \A d \in 1 .. Sum(n) : \E m \in 1 .. n : Sum(m - 1) < d /\ d <= Sum(m)
  BY <1>9
<1> QED
  BY <1>3, <1>4, <1>7, <1>10 DEF Rising, FirstSum, Sum

(* What is zero need not be added.                                           *)
LEMMA SumOfRest ==
    ASSUME NEW f, NEW S, NEW T \in SUBSET S, IsFiniteSet(S),
           \A x \in T : f[x] \in Int, \A x \in S \ T : f[x] = 0
    PROVE  SumFunctionOnSet(f, S) = SumFunctionOnSet(f, T)
<1>1. IsFiniteSet(T) /\ IsFiniteSet(S \ T) /\ T \cup (S \ T) = S /\ T \cap (S \ T) = {}
  BY FS_Subset
<1>2. \A x \in T \cup (S \ T) : f[x] \in Int
  OBVIOUS
<1>3. SumFunctionOnSet(f, T \cup (S \ T)) =
        SumFunctionOnSet(f, T) + SumFunctionOnSet(f, S \ T)
  BY <1>1, <1>2, SumOfTwo
<1>4. SumFunctionOnSet(f, S \ T) = 0
  BY <1>1, SumOfZeros
<1>5. SumFunctionOnSet(f, T) \in Int
  BY <1>1, SumIsInt
<1> QED BY <1>1, <1>3, <1>4, <1>5

(* The sum over parts of which no two have anything in common.               *)
Disjoint(P, S) == \A x, y \in S : x # y => P[x] \cap P[y] = {}
AllOf(P, S) == UNION {P[x] : x \in S}

InParts(f, g, P, S) ==
    /\ IsFiniteSet(S) /\ Disjoint(P, S)
    /\ \A x \in S : IsFiniteSet(P[x]) /\ g[x] = SumFunctionOnSet(f, P[x])
    /\ \A x \in S : \A y \in P[x] : f[y] \in Int

LEMMA SumOfParts ==
    ASSUME NEW f, NEW g, NEW P, NEW S, InParts(f, g, P, S)
    PROVE  /\ IsFiniteSet(AllOf(P, S))
           /\ SumFunctionOnSet(g, S) = SumFunctionOnSet(f, AllOf(P, S))
<1> USE DEF InParts
<1> DEFINE G == {T \in SUBSET S :
                    /\ IsFiniteSet(AllOf(P, T))
                    /\ SumFunctionOnSet(g, T) = SumFunctionOnSet(f, AllOf(P, T))}
<1>1. ASSUME NEW T \in SUBSET S, \A x \in T : T \ {x} \in G PROVE T \in G
  <2>1. CASE T = {}
    <3>1. AllOf(P, T) = {}
      BY <2>1 DEF AllOf
    <3> QED BY <3>1, <2>1, SumOfNone, FS_EmptySet
  <2>2. CASE T # {}
    <3>1. PICK x \in T : TRUE
      BY <2>2
    <3>2. PICK V : V = T \ {x}
      OBVIOUS
    <3>3. IsFiniteSet(V) /\ V \cup {x} = T /\ x \notin V /\ V \subseteq S /\ x \in S
      BY <3>1, <3>2, FS_Subset
    <3>4. /\ IsFiniteSet(AllOf(P, V))
          /\ SumFunctionOnSet(g, V) = SumFunctionOnSet(f, AllOf(P, V))
      BY <1>1, <3>1, <3>2
    <3>5. AllOf(P, T) = AllOf(P, V) \cup P[x]
      BY <3>3 DEF AllOf
    <3>6. AllOf(P, V) \cap P[x] = {}
      BY <3>3 DEF AllOf, Disjoint
    <3>7. IsFiniteSet(P[x]) /\ g[x] = SumFunctionOnSet(f, P[x])
      BY <3>3
    <3>8. \A y \in AllOf(P, V) \cup P[x] : f[y] \in Int
      BY <3>3 DEF AllOf
    <3>9. SumFunctionOnSet(f, AllOf(P, T)) =
            SumFunctionOnSet(f, AllOf(P, V)) + SumFunctionOnSet(f, P[x])
      BY <3>4, <3>5, <3>6, <3>7, <3>8, SumOfTwo
    <3>10. \A y \in S : g[y] \in Int
      <4> SUFFICES ASSUME NEW y \in S PROVE g[y] \in Int
        OBVIOUS
      <4>1. SumFunctionOnSet(f, P[y]) \in Int
        BY SumIsInt
      <4> QED BY <4>1
    <3>11. SumFunctionOnSet(g, T) = SumFunctionOnSet(g, V) + g[x]
      <4>1. SumFunctionOnSet(g, V \cup {x}) = SumFunctionOnSet(g, V) + g[x]
        BY <3>3, <3>10, SumPutIn
      <4> QED BY <4>1, <3>3
    <3>12. SumFunctionOnSet(g, T) = SumFunctionOnSet(f, AllOf(P, T))
      BY <3>4, <3>7, <3>9, <3>11
    <3>13. IsFiniteSet(AllOf(P, T))
      BY <3>4, <3>5, <3>7, FS_Union
    <3> QED BY <3>12, <3>13
  <2> QED BY <2>1, <2>2
<1>2. S \in G
  <2> HIDE DEF G
  <2> QED BY <1>1, SetInduction
<1> QED BY <1>2

(* The sum over what distinct names stand for.                               *)
Renames(f, g, h, S) ==
    /\ IsFiniteSet(S) /\ \A x \in S : f[h[x]] \in Int /\ g[x] = f[h[x]]
    /\ \A x, y \in S : h[x] = h[y] => x = y

LEMMA SumRenamed ==
    ASSUME NEW f, NEW g, NEW h, NEW S, Renames(f, g, h, S)
    PROVE  SumFunctionOnSet(g, S) = SumFunctionOnSet(f, {h[x] : x \in S})
<1>1. PICK P : P = [x \in S |-> {h[x]}]
  OBVIOUS
<1>2. AllOf(P, S) = {h[x] : x \in S}
  BY <1>1 DEF AllOf
<1>3. Disjoint(P, S)
  BY <1>1 DEF Disjoint, Renames
<1>4. ASSUME NEW x \in S
      PROVE  IsFiniteSet(P[x]) /\ g[x] = SumFunctionOnSet(f, P[x])
  <2>1. PICK y : y = h[x]
    OBVIOUS
  <2>2. P[x] = {y} /\ f[y] \in Int /\ g[x] = f[y]
    BY <1>1, <2>1 DEF Renames
  <2>3. IsFiniteSet({y}) /\ SumFunctionOnSet(f, {y}) = f[y]
    BY <2>2, SumOfOne, FS_Singleton
  <2> QED
    BY <2>2, <2>3
<1>5. \A x \in S : \A y \in P[x] : f[y] \in Int
  BY <1>1 DEF Renames
<1>6. InParts(f, g, P, S)
  BY <1>3, <1>4, <1>5 DEF InParts, Renames
<1> QED
  BY <1>2, <1>6, SumOfParts

(* Debts in their order, each paid with what the earlier ones leave of the   *)
(* payments: together they leave what the payments do not cover.             *)
OldestFirst(d, left, paid, n) ==
    \A m \in 1 .. n :
        /\ d[m] \in Nat /\ left[m] \in Nat
        /\ left[m] = IF paid <= FirstSum(d, m - 1) THEN d[m]
                     ELSE IF paid - FirstSum(d, m - 1) >= d[m] THEN 0
                     ELSE d[m] - (paid - FirstSum(d, m - 1))
PaidOff(d, left, paid, m) ==
    /\ FirstSum(d, m) \in Nat /\ FirstSum(left, m) \in Nat
    /\ FirstSum(left, m) = IF paid <= FirstSum(d, m) THEN FirstSum(d, m) - paid ELSE 0

LEMMA PayingOldestFirst ==
    ASSUME NEW d, NEW left, NEW paid \in Nat, NEW n \in Nat,
           OldestFirst(d, left, paid, n)
    PROVE  \A m \in 0 .. n : PaidOff(d, left, paid, m)
<1>1. FirstSum(d, 0) = 0 /\ FirstSum(left, 0) = 0
  <2>1. 1 .. 0 = {}
    OBVIOUS
  <2> QED
    BY <2>1, SumOfNone DEF FirstSum
<1>2. PaidOff(d, left, paid, 0)
  BY <1>1 DEF PaidOff
<1>3. ASSUME NEW m \in 1 .. n, PaidOff(d, left, paid, m - 1)
      PROVE  PaidOff(d, left, paid, m)
  <2>1. PICK before \in Nat : before = FirstSum(d, m - 1)
    BY <1>3 DEF PaidOff
  <2>2. PICK rest \in Nat : rest = FirstSum(left, m - 1)
    BY <1>3 DEF PaidOff
  <2>3. PICK debt \in Nat : debt = d[m]
    BY DEF OldestFirst
  <2>4. PICK more : more = left[m]
    OBVIOUS
  <2>5. more = IF paid <= before THEN debt
               ELSE IF paid - before >= debt THEN 0 ELSE debt - (paid - before)
    BY <2>1, <2>3, <2>4 DEF OldestFirst
  <2>6. more \in Nat
    BY <2>5
  <2>7. rest = IF paid <= before THEN before - paid ELSE 0
    BY <1>3, <2>1, <2>2 DEF PaidOff
  <2>8. ASSUME NEW k \in 1 .. m PROVE d[k] \in Int /\ left[k] \in Int
    <3>1. k \in 1 .. n
      OBVIOUS
    <3> QED
      BY <3>1 DEF OldestFirst
  <2>9. IsFiniteSet(1 .. m - 1) /\ (1 .. m - 1) \cup {m} = 1 .. m /\ m \notin 1 .. m - 1
    <3>1. m - 1 \in Int /\ 1 \in Int
      OBVIOUS
    <3>2. IsFiniteSet(1 .. m - 1)
      BY <3>1, FS_Interval
    <3>3. (1 .. m - 1) \cup {m} = 1 .. m /\ m \notin 1 .. m - 1
      OBVIOUS
    <3> QED
      BY <3>2, <3>3
  <2>10. FirstSum(d, m) = before + debt
    BY <2>1, <2>3, <2>8, <2>9, SumPutIn DEF FirstSum
  <2>11. FirstSum(left, m) = rest + more
    BY <2>2, <2>4, <2>8, <2>9, SumPutIn DEF FirstSum
  <2>12. rest + more = IF paid <= before + debt THEN (before + debt) - paid ELSE 0
    BY <2>5, <2>7
  <2> QED
    BY <2>6, <2>10, <2>11, <2>12 DEF PaidOff
<1>4. PICK G : G = {m \in Nat : m <= n => PaidOff(d, left, paid, m)}
  OBVIOUS
<1>5. ASSUME NEW m \in Nat, \A k \in Nat : k < m => k \in G PROVE m \in G
  <2>1. CASE m = 0
    BY <1>2, <1>4, <2>1
  <2>2. CASE m \in 1 .. n
    <3>1. m - 1 \in Nat /\ m - 1 < m /\ m - 1 <= n
      BY <2>2
    <3>2. PaidOff(d, left, paid, m - 1)
      BY <1>4, <1>5, <3>1
    <3> QED
      BY <1>3, <1>4, <2>2, <3>2
  <2>3. CASE m > n
    BY <1>4, <2>3
  <2> QED
    BY <2>1, <2>2, <2>3
<1>6. Nat \subseteq G
  BY <1>5, NumberInduction
<1> QED
  BY <1>4, <1>6

(* A sum of the steps from number to number is the way from the first to the *)
(* last.                                                                     *)
Steps(f, g, n) ==
    /\ \A m \in 0 .. n : g[m] \in Int
    /\ \A m \in 1 .. n : f[m] = g[m - 1] - g[m]

LEMMA SumOfSteps ==
    ASSUME NEW f, NEW g, NEW n \in Nat, Steps(f, g, n)
    PROVE  SumFunctionOnSet(f, 1 .. n) = g[0] - g[n]
<1>1. ASSUME NEW m \in 1 .. n PROVE f[m] \in Int /\ m - 1 \in 0 .. n /\ m \in 0 .. n
  <2>1. m - 1 \in 0 .. n /\ m \in 0 .. n
    OBVIOUS
  <2> QED
    BY <2>1 DEF Steps
<1>2. PICK G : G = {m \in Nat : m <= n => SumFunctionOnSet(f, 1 .. m) = g[0] - g[m]}
  OBVIOUS
<1>3. ASSUME NEW m \in Nat, \A k \in Nat : k < m => k \in G PROVE m \in G
  <2>1. CASE m = 0
    <3>1. 1 .. 0 = {} /\ g[0] \in Int
      BY DEF Steps
    <3>2. SumFunctionOnSet(f, 1 .. 0) = 0
      BY <3>1, SumOfNone
    <3> QED
      BY <1>2, <2>1, <3>1, <3>2
  <2>2. CASE m \in 1 .. n
    <3>1. m - 1 \in Nat /\ m - 1 < m /\ m - 1 <= n
      BY <2>2
    <3>2. SumFunctionOnSet(f, 1 .. m - 1) = g[0] - g[m - 1]
      BY <1>2, <1>3, <3>1
    <3>3. \A k \in 1 .. m : f[k] \in Int
      BY <1>1, <2>2
    <3>4. IsFiniteSet(1 .. m - 1) /\ (1 .. m - 1) \cup {m} = 1 .. m /\ m \notin 1 .. m - 1
      <4>1. m - 1 \in Int /\ 1 \in Int
        OBVIOUS
      <4>2. IsFiniteSet(1 .. m - 1)
        BY <4>1, FS_Interval
      <4>3. (1 .. m - 1) \cup {m} = 1 .. m /\ m \notin 1 .. m - 1
        BY <2>2
      <4> QED
        BY <4>2, <4>3
    <3>5. SumFunctionOnSet(f, 1 .. m) = SumFunctionOnSet(f, 1 .. m - 1) + f[m]
      BY <3>3, <3>4, SumPutIn
    <3>6. f[m] = g[m - 1] - g[m] /\ g[0] \in Int /\ g[m - 1] \in Int /\ g[m] \in Int
      BY <1>1, <2>2 DEF Steps
    <3> QED
      BY <1>2, <3>2, <3>5, <3>6
  <2>3. CASE m > n
    BY <1>2, <2>3
  <2> QED
    BY <2>1, <2>2, <2>3
<1>4. Nat \subseteq G
  BY <1>3, NumberInduction
<1> QED
  BY <1>2, <1>4

(* Larger summands, a larger sum.                                            *)
NotLess(f, g, S) == \A x \in S : f[x] \in Int /\ g[x] \in Int /\ f[x] <= g[x]
SumsNotLess(f, g, S) ==
    /\ SumFunctionOnSet(f, S) \in Int /\ SumFunctionOnSet(g, S) \in Int
    /\ SumFunctionOnSet(f, S) <= SumFunctionOnSet(g, S)

LEMMA SumsInOrder ==
    ASSUME NEW f, NEW g, NEW S, IsFiniteSet(S), NotLess(f, g, S)
    PROVE  SumsNotLess(f, g, S)
<1>1. PICK h : h = [x \in S |-> g[x] - f[x]]
  OBVIOUS
<1>2. LeavesOf(g, f, h, S) /\ \A x \in S : h[x] \in Nat
  BY <1>1 DEF LeavesOf, NotLess
<1>3. SumsLeave(g, f, h, S) /\ SumFunctionOnSet(h, S) \in Nat
  BY <1>2, SumOfDifferences, SumIsNat
<1>4. SumFunctionOnSet(f, S) \in Int /\ SumFunctionOnSet(g, S) \in Int
  BY SumIsInt DEF NotLess
<1> QED
  BY <1>3, <1>4 DEF SumsLeave, SumsNotLess

(* A set has as many elements as there are ones in the sum over it.          *)
LEMMA SumOfOnes ==
    ASSUME NEW f, NEW S, IsFiniteSet(S), \A x \in S : f[x] = 1
    PROVE  SumFunctionOnSet(f, S) = Cardinality(S)
<1> DEFINE G == {T \in SUBSET S : SumFunctionOnSet(f, T) = Cardinality(T)}
<1>1. ASSUME NEW T \in SUBSET S, \A x \in T : T \ {x} \in G PROVE T \in G
  <2>1. CASE T = {}
    BY <2>1, SumOfNone, FS_EmptySet
  <2>2. CASE T # {}
    <3>1. Picked(T) \in T
      BY <2>2 DEF Picked
    <3>2. IsFiniteSet(T) /\ Cardinality(T) \in Nat
      BY FS_Subset, FS_CardinalityType
    <3>3. /\ SumFunctionOnSet(f, T \ {Picked(T)}) = Cardinality(T \ {Picked(T)})
          /\ f[Picked(T)] = 1
      BY <1>1, <3>1
    <3>4. Cardinality(T \ {Picked(T)}) = Cardinality(T) - 1
      BY <3>1, <3>2, FS_RemoveElement
    <3>5. SumFunctionOnSet(f, T) = Cardinality(T)
      BY <2>2, <3>2, <3>3, <3>4, SumPicked
    <3> QED BY <3>5
  <2> QED BY <2>1, <2>2
<1>2. S \in G
  <2> HIDE DEF G
  <2> QED BY <1>1, SetInduction
<1> QED BY <1>2

-----------------------------------------------------------------------------
(* What is done again and again to a value makes a function of the numbers   *)
(* up to any of them.                                                        *)
IsIterated(f, a, do, n) == f = [m \in 0 .. n |-> IF m = 0 THEN a ELSE do[f[m - 1]]]

LEMMA Iterates ==
    ASSUME NEW a, NEW do, NEW n \in Nat
    PROVE  \E f : IsIterated(f, a, do, n)
<1> DEFINE Upto(f, k) == f = [m \in 0 .. k |-> IF m = 0 THEN a ELSE do[f[m - 1]]]
           G == {k \in Nat : \E f : Upto(f, k)}
<1>1. ASSUME NEW k \in Nat, \A m \in Nat : m < k => m \in G PROVE k \in G
  <2>1. CASE k = 0
    <3> DEFINE f == [m \in 0 .. 0 |-> a]
    <3>1. Upto(f, k)
      BY <2>1
    <3> QED BY <3>1
  <2>2. CASE k # 0
    <3>1. k - 1 \in G
      BY <1>1, <2>2
    <3>2. PICK f : Upto(f, k - 1)
      BY <3>1
    <3> DEFINE g == [m \in 0 .. k |-> IF m = k THEN do[f[k - 1]] ELSE f[m]]
    <3>3. \A m \in 0 .. k - 1 : g[m] = f[m] /\ f[m] = IF m = 0 THEN a ELSE do[f[m - 1]]
      BY <3>2
    <3>4. ASSUME NEW m \in 0 .. k PROVE g[m] = IF m = 0 THEN a ELSE do[g[m - 1]]
      <4>1. CASE m = k
        <5>1. k - 1 \in 0 .. k - 1
          BY <2>2
        <5>2. g[k - 1] = f[k - 1]
          BY <5>1, <3>3
        <5>3. g[k] = do[f[k - 1]]
          OBVIOUS
        <5> HIDE DEF g
        <5> QED BY <4>1, <2>2, <5>2, <5>3
      <4>2. CASE m = 0
        <5>1. m \in 0 .. k - 1
          BY <4>2, <2>2
        <5> HIDE DEF g
        <5> QED BY <4>2, <5>1, <3>3
      <4>3. CASE m \in 1 .. k - 1
        <5>1. m \in 0 .. k - 1 /\ m - 1 \in 0 .. k - 1
          BY <4>3
        <5>2. g[m] = do[f[m - 1]] /\ g[m - 1] = f[m - 1]
          <6> HIDE DEF g
          <6> QED BY <5>1, <4>3, <3>3
        <5> HIDE DEF g
        <5> QED BY <4>3, <5>2
      <4> QED BY <4>1, <4>2, <4>3
    <3>5. Upto(g, k)
      BY <3>4
    <3> QED BY <3>5
  <2> QED BY <2>1, <2>2
<1>2. Nat \subseteq G
  <2> HIDE DEF G
  <2> QED BY <1>1, NumberInduction
<1> QED BY <1>2 DEF IsIterated

LEMMA IteratesIn ==
    ASSUME NEW X, NEW a \in X, NEW do \in [X -> X], NEW n \in Nat
    PROVE  \E f \in [0 .. n -> X] : IsIterated(f, a, do, n)
<1>0. PICK f : IsIterated(f, a, do, n)
  BY Iterates
<1>1. f = [m \in 0 .. n |-> IF m = 0 THEN a ELSE do[f[m - 1]]]
  BY <1>0 DEF IsIterated
<1> DEFINE G == {m \in Nat : m <= n => f[m] \in X}
<1>2. ASSUME NEW m \in Nat, \A k \in Nat : k < m => k \in G PROVE m \in G
  <2>1. CASE m = 0
    BY <1>1, <2>1
  <2>2. CASE m # 0
    <3>1. m - 1 \in Nat /\ m - 1 < m
      BY <2>2
    <3>2. SUFFICES ASSUME m <= n PROVE f[m] \in X
      OBVIOUS
    <3>3. f[m - 1] \in X
      BY <1>2, <3>1, <3>2
    <3>4. f[m] = do[f[m - 1]]
      BY <1>1, <2>2, <3>2
    <3> QED BY <3>3, <3>4
  <2> QED BY <2>1, <2>2
<1>3. Nat \subseteq G
  <2> HIDE DEF G
  <2> QED BY <1>2, NumberInduction
<1>4. \A m \in 0 .. n : f[m] \in X
  BY <1>3
<1>5. f \in [0 .. n -> X]
  BY <1>1, <1>4
<1> QED BY <1>0, <1>5

-----------------------------------------------------------------------------
(* Trees.  Every element of D has a parent in D or none.                     *)
Parents(par, D, none) ==
    none \notin D /\ IsFiniteSet(D) /\ \A c \in D : par[c] \in D \cup {none}

(* The elements so many steps below none.                                    *)
Above(par, D, A) == {c \in D : par[c] \in A}
IsLevels(lev, par, D, none, M) ==
    lev = [n \in 0 .. M |-> IF n = 0 THEN {none} ELSE Above(par, D, lev[n - 1])]

LEMMA LevelsExist ==
    ASSUME NEW par, NEW D, NEW none, NEW M \in Nat
    PROVE  \E lev : IsLevels(lev, par, D, none, M)
<1> DEFINE X == SUBSET (D \cup {none})
           do == [A \in X |-> Above(par, D, A)]
<1>1. do \in [X -> X]
  BY DEF Above
<1>2. {none} \in X
  OBVIOUS
<1>3. PICK f \in [0 .. M -> X] : IsIterated(f, {none}, do, M)
  <2> HIDE DEF do, X
  <2> QED BY <1>1, <1>2, IteratesIn
<1>4. \A m \in 0 .. M : m # 0 => do[f[m - 1]] = Above(par, D, f[m - 1])
  <2> SUFFICES ASSUME NEW m \in 0 .. M, m # 0
               PROVE  do[f[m - 1]] = Above(par, D, f[m - 1])
    OBVIOUS
  <2>1. m - 1 \in 0 .. M
    OBVIOUS
  <2>2. f[m - 1] \in X
    BY <2>1
  <2> QED BY <2>2
<1>5. IsLevels(f, par, D, none, M)
  <2> HIDE DEF do
  <2> QED BY <1>3, <1>4 DEF IsLevels, IsIterated
<1> QED BY <1>5

LEMMA LevelMember ==
    ASSUME NEW par, NEW D, NEW none, NEW M \in Nat, NEW lev,
           Parents(par, D, none), IsLevels(lev, par, D, none, M)
    PROVE  /\ lev[0] = {none}
           /\ \A n \in 1 .. M : lev[n] = Above(par, D, lev[n - 1])
           /\ \A n \in 1 .. M : \A c : c \in lev[n] <=> c \in D /\ par[c] \in lev[n - 1]
           /\ \A n \in 1 .. M : none \notin lev[n]
<1>1. \A n \in 0 .. M : lev[n] = IF n = 0 THEN {none} ELSE Above(par, D, lev[n - 1])
  BY DEF IsLevels
<1>2. lev[0] = {none} /\ \A n \in 1 .. M : lev[n] = Above(par, D, lev[n - 1])
  BY <1>1
<1> QED BY <1>2 DEF Above, Parents

(* An element is on one level only.                                          *)
LEMMA LevelsApart ==
    ASSUME NEW par, NEW D, NEW none, NEW M \in Nat, NEW lev,
           Parents(par, D, none), IsLevels(lev, par, D, none, M)
    PROVE  \A n, m \in 0 .. M : \A c : c \in lev[n] /\ c \in lev[m] => n = m
<1> DEFINE G == {n \in Nat : n <= M =>
                    \A m \in 0 .. M : \A c : c \in lev[n] /\ c \in lev[m] => n = m}
<1>1. ASSUME NEW n \in Nat, \A k \in Nat : k < n => k \in G PROVE n \in G
  <2> SUFFICES ASSUME n <= M, NEW m \in 0 .. M, NEW c, c \in lev[n], c \in lev[m]
               PROVE  n = m
    OBVIOUS
  <2>1. CASE n = 0 \/ m = 0
    BY <2>1, LevelMember
  <2>2. CASE n # 0 /\ m # 0
    <3>1. n \in 1 .. M /\ m \in 1 .. M /\ n - 1 \in Nat /\ n - 1 < n /\ m - 1 \in 0 .. M
      BY <2>2
    <3>2. par[c] \in lev[n - 1] /\ par[c] \in lev[m - 1]
      BY <3>1, LevelMember
    <3>3. n - 1 = m - 1
      BY <1>1, <3>1, <3>2
    <3> QED BY <3>1, <3>3
  <2> QED BY <2>1, <2>2
<1>2. Nat \subseteq G
  <2> HIDE DEF G
  <2> QED BY <1>1, NumberInduction
<1>3. \A n \in 0 .. M : n \in G
  BY <1>2
<1> QED BY <1>3

(* There are no more levels than elements.                                   *)
LEMMA LevelsEnd ==
    ASSUME NEW par, NEW D, NEW none, NEW M \in Nat, NEW lev,
           Parents(par, D, none), IsLevels(lev, par, D, none, M),
           NEW n \in 1 .. M, NEW e \in lev[n]
    PROVE  n <= Cardinality(D)
<1> DEFINE G == {k \in Nat : k < n => lev[n - k] # {}}
<1>1. ASSUME NEW k \in Nat, \A i \in Nat : i < k => i \in G PROVE k \in G
  <2> SUFFICES ASSUME k < n PROVE lev[n - k] # {}
    OBVIOUS
  <2>1. CASE k = 0
    BY <2>1
  <2>2. CASE k # 0
    <3>1. /\ k - 1 \in Nat /\ k - 1 < k /\ k - 1 < n
          /\ n - (k - 1) \in 1 .. M /\ (n - (k - 1)) - 1 = n - k
      BY <2>2
    <3>2. PICK c : c \in lev[n - (k - 1)]
      BY <1>1, <3>1
    <3>3. par[c] \in lev[n - k]
      BY <3>1, <3>2, LevelMember
    <3> QED BY <3>3
  <2> QED BY <2>1, <2>2
<1>2. Nat \subseteq G
  <2> HIDE DEF G
  <2> QED BY <1>1, NumberInduction
<1>3. \A i \in 1 .. n : lev[i] # {}
  <2> SUFFICES ASSUME NEW i \in 1 .. n PROVE lev[i] # {}
    OBVIOUS
  <2>1. n - i \in Nat /\ n - i < n /\ n - (n - i) = i
    OBVIOUS
  <2>2. n - i \in G
    BY <1>2, <2>1
  <2> QED BY <2>1, <2>2
<1> DEFINE one == [i \in 1 .. n |-> Picked(lev[i])]
<1>4. \A i \in 1 .. n : one[i] \in lev[i]
  BY <1>3 DEF Picked
<1>5. \A i \in 1 .. n : one[i] \in D
  BY <1>4, LevelMember
<1>6. \A i, j \in 1 .. n : one[i] = one[j] => i = j
  <2> HIDE DEF one
  <2> QED BY <1>4, LevelsApart
<1>7. one \in Injection(1 .. n, D)
  <2>1. one \in [1 .. n -> D]
    BY <1>5
  <2> HIDE DEF one
  <2> QED BY <2>1, <1>6 DEF Injection, IsInjective
<1>8. Cardinality(1 .. n) <= Cardinality(D)
  <2> HIDE DEF one
  <2> QED BY <1>7, FS_Injection DEF Parents
<1>9. Cardinality(1 .. n) = n
  BY FS_Interval
<1> QED BY <1>8, <1>9

(* The way from an element up to none.                                       *)
Up(par, none, d) == IF d = none THEN none ELSE par[d]
IsWay(up, par, none, c, n) ==
    up = [i \in 0 .. n |-> IF i = 0 THEN c ELSE Up(par, none, up[i - 1])]

LEMMA WayExists ==
    ASSUME NEW par, NEW D, NEW none, Parents(par, D, none), NEW c \in D, NEW n \in Nat
    PROVE  \E up : IsWay(up, par, none, c, n)
<1> DEFINE X == D \cup {none}
           do == [d \in X |-> Up(par, none, d)]
<1>1. do \in [X -> X] /\ c \in X
  BY DEF Parents, Up
<1>2. PICK f \in [0 .. n -> X] : IsIterated(f, c, do, n)
  <2> HIDE DEF do, X
  <2> QED BY <1>1, IteratesIn
<1>3. \A m \in 0 .. n : m # 0 => do[f[m - 1]] = Up(par, none, f[m - 1])
  <2> SUFFICES ASSUME NEW m \in 0 .. n, m # 0
               PROVE  do[f[m - 1]] = Up(par, none, f[m - 1])
    OBVIOUS
  <2>1. m - 1 \in 0 .. n
    OBVIOUS
  <2>2. f[m - 1] \in X
    BY <2>1
  <2> QED BY <2>2
<1>4. IsWay(f, par, none, c, n)
  <2> HIDE DEF do
  <2> QED BY <1>2, <1>3 DEF IsWay, IsIterated
<1> QED BY <1>4

LEMMA WaySteps ==
    ASSUME NEW par, NEW D, NEW none, Parents(par, D, none), NEW c \in D,
           NEW n \in Nat, NEW up, IsWay(up, par, none, c, n)
    PROVE  /\ up[0] = c
           /\ \A i \in 1 .. n : up[i] = Up(par, none, up[i - 1])
           /\ \A i \in 0 .. n : up[i] \in D \cup {none}
<1>1. \A i \in 0 .. n : up[i] = IF i = 0 THEN c ELSE Up(par, none, up[i - 1])
  BY DEF IsWay
<1>2. up[0] = c /\ \A i \in 1 .. n : up[i] = Up(par, none, up[i - 1])
  BY <1>1
<1> DEFINE G == {i \in Nat : i <= n => up[i] \in D \cup {none}}
<1>3. ASSUME NEW i \in Nat, \A k \in Nat : k < i => k \in G PROVE i \in G
  <2> SUFFICES ASSUME i <= n PROVE up[i] \in D \cup {none}
    OBVIOUS
  <2>1. CASE i = 0
    BY <1>2, <2>1
  <2>2. CASE i # 0
    <3>1. i - 1 \in Nat /\ i - 1 < i /\ i - 1 <= n /\ i \in 1 .. n
      BY <2>2
    <3>2. up[i - 1] \in D \cup {none}
      BY <1>3, <3>1
    <3>3. up[i] = Up(par, none, up[i - 1])
      BY <1>2, <3>1
    <3> QED BY <3>2, <3>3 DEF Up, Parents
  <2> QED BY <2>1, <2>2
<1>4. Nat \subseteq G
  <2> HIDE DEF G
  <2> QED BY <1>3, NumberInduction
<1>5. \A i \in 0 .. n : up[i] \in D \cup {none}
  BY <1>4
<1> QED BY <1>2, <1>5

(* It gets to none for the first time after as many steps as the level says. *)
LEMMA WayOfLevel ==
    ASSUME NEW par, NEW D, NEW none, Parents(par, D, none),
           NEW M \in Nat, NEW lev, IsLevels(lev, par, D, none, M),
           NEW n \in Nat, NEW c \in D, NEW up, IsWay(up, par, none, c, n),
           NEW k \in 0 .. M, k <= n, c \in lev[k]
    PROVE  up[k] = none /\ \A i \in 0 .. k - 1 : up[i] # none
<1> DEFINE G == {i \in Nat : i <= k => up[i] \in lev[k - i]}
<1>1. ASSUME NEW i \in Nat, \A j \in Nat : j < i => j \in G PROVE i \in G
  <2> SUFFICES ASSUME i <= k PROVE up[i] \in lev[k - i]
    OBVIOUS
  <2>1. CASE i = 0
    BY <2>1, WaySteps
  <2>2. CASE i # 0
    <3>1. /\ i - 1 \in Nat /\ i - 1 < i /\ i - 1 <= k /\ i \in 1 .. n
          /\ k - (i - 1) \in 1 .. M /\ (k - (i - 1)) - 1 = k - i
      BY <2>2
    <3>2. up[i - 1] \in lev[k - (i - 1)]
      BY <1>1, <3>1
    <3>3. up[i] = Up(par, none, up[i - 1])
      BY <3>1, WaySteps
    <3>4. up[i - 1] # none /\ par[up[i - 1]] \in lev[k - i]
      BY <3>1, <3>2, LevelMember
    <3> QED BY <3>3, <3>4 DEF Up
  <2> QED BY <2>1, <2>2
<1>2. Nat \subseteq G
  <2> HIDE DEF G
  <2> QED BY <1>1, NumberInduction
<1>3. \A i \in 0 .. k : up[i] \in lev[k - i]
  BY <1>2
<1>4. up[k] = none
  <2>1. up[k] \in lev[0]
    BY <1>3
  <2> QED BY <2>1, LevelMember
<1>5. ASSUME NEW i \in 0 .. k - 1 PROVE up[i] # none
  <2>1. up[i] \in lev[k - i] /\ k - i \in 1 .. M
    BY <1>3
  <2> QED BY <2>1, LevelMember
<1> QED BY <1>4, <1>5

LEMMA LevelOfWay ==
    ASSUME NEW par, NEW D, NEW none, Parents(par, D, none),
           NEW M \in Nat, NEW lev, IsLevels(lev, par, D, none, M),
           NEW n \in Nat, NEW c \in D, NEW up, IsWay(up, par, none, c, n),
           NEW k \in 0 .. M, k <= n, up[k] = none, \A i \in 0 .. k - 1 : up[i] # none
    PROVE  c \in lev[k]
<1> DEFINE G == {i \in Nat : i <= k => up[k - i] \in lev[i]}
<1>1. ASSUME NEW i \in Nat, \A j \in Nat : j < i => j \in G PROVE i \in G
  <2> SUFFICES ASSUME i <= k PROVE up[k - i] \in lev[i]
    OBVIOUS
  <2>1. CASE i = 0
    BY <2>1, LevelMember
  <2>2. CASE i # 0
    <3>1. /\ i - 1 \in Nat /\ i - 1 < i /\ i - 1 <= k /\ i \in 1 .. M
          /\ k - i \in 0 .. k - 1 /\ k - i \in 0 .. n
          /\ k - (i - 1) \in 1 .. n /\ (k - (i - 1)) - 1 = k - i
      BY <2>2
    <3>2. up[k - (i - 1)] \in lev[i - 1]
      BY <1>1, <3>1
    <3>3. up[k - (i - 1)] = Up(par, none, up[k - i])
      BY <3>1, WaySteps
    <3>4. up[k - i] \in D /\ up[k - i] # none
      BY <3>1, WaySteps
    <3>5. par[up[k - i]] \in lev[i - 1]
      BY <3>2, <3>3, <3>4 DEF Up
    <3> QED BY <3>1, <3>4, <3>5, LevelMember
  <2> QED BY <2>1, <2>2
<1>2. Nat \subseteq G
  <2> HIDE DEF G
  <2> QED BY <1>1, NumberInduction
<1>3. up[0] \in lev[k]
  <2>1. k \in Nat /\ k - k = 0
    OBVIOUS
  <2>2. k \in G
    BY <1>2, <2>1
  <2> QED BY <2>1, <2>2
<1> QED BY <1>3, WaySteps

(* What is at most so many steps below an element.                           *)
IsBelow(w, par, C, r, N) ==
    w = [n \in 0 .. N |-> IF n = 0 THEN {} ELSE Above(par, C, {r} \cup w[n - 1])]

LEMMA BelowExists ==
    ASSUME NEW par, NEW C, NEW r, NEW N \in Nat
    PROVE  \E w : IsBelow(w, par, C, r, N)
<1> DEFINE X == SUBSET C
           do == [A \in X |-> Above(par, C, {r} \cup A)]
<1>1. do \in [X -> X] /\ {} \in X
  BY DEF Above
<1>2. PICK f \in [0 .. N -> X] : IsIterated(f, {}, do, N)
  <2> HIDE DEF do, X
  <2> QED BY <1>1, IteratesIn
<1>3. \A m \in 0 .. N : m # 0 => do[f[m - 1]] = Above(par, C, {r} \cup f[m - 1])
  <2> SUFFICES ASSUME NEW m \in 0 .. N, m # 0
               PROVE  do[f[m - 1]] = Above(par, C, {r} \cup f[m - 1])
    OBVIOUS
  <2>1. m - 1 \in 0 .. N
    OBVIOUS
  <2>2. f[m - 1] \in X
    BY <2>1
  <2> QED BY <2>2
<1>4. IsBelow(f, par, C, r, N)
  <2> HIDE DEF do
  <2> QED BY <1>2, <1>3 DEF IsBelow, IsIterated
<1> QED BY <1>4

Below(w, par, C, r, N) ==
    /\ w[0] = {}
    /\ \A n \in 1 .. N : \A d :
            d \in w[n] <=> d \in C /\ (par[d] = r \/ par[d] \in w[n - 1])
    /\ \A n \in 0 .. N : w[n] \subseteq C

LEMMA BelowMember ==
    ASSUME NEW par, NEW C, NEW r, NEW N \in Nat, NEW w, IsBelow(w, par, C, r, N)
    PROVE  Below(w, par, C, r, N)
<1>1. \A n \in 0 .. N : w[n] = IF n = 0 THEN {} ELSE Above(par, C, {r} \cup w[n - 1])
  BY DEF IsBelow
<1>2. w[0] = {}
  <2>1. 0 \in 0 .. N
    OBVIOUS
  <2> QED BY <2>1 DEF IsBelow
<1>3. \A n \in 1 .. N : w[n] = Above(par, C, {r} \cup w[n - 1])
  <2> SUFFICES ASSUME NEW n \in 1 .. N PROVE w[n] = Above(par, C, {r} \cup w[n - 1])
    OBVIOUS
  <2>1. n \in 0 .. N /\ n # 0
    OBVIOUS
  <2> QED BY <1>1, <2>1
<1>4. \A n \in 1 .. N : \A d :
        d \in w[n] <=> d \in C /\ (par[d] = r \/ par[d] \in w[n - 1])
  BY <1>3 DEF Above
<1>5. ASSUME NEW n \in 0 .. N PROVE w[n] \subseteq C
  <2>1. CASE n = 0
    BY <2>1, <1>2
  <2>2. CASE n # 0
    BY <2>2, <1>4
  <2> QED BY <2>1, <2>2
<1> QED BY <1>2, <1>4, <1>5 DEF Below

(* A part C of a tree in which parents stay.                                 *)
PartOf(C, par, D, none) == C \subseteq D /\ \A c \in C : par[c] \in C \cup {none}

LEMMA BelowLevels ==
    ASSUME NEW par, NEW D, NEW none, Parents(par, D, none),
           NEW M \in Nat, NEW lev, IsLevels(lev, par, D, none, M),
           NEW C, PartOf(C, par, D, none), NEW N \in Nat, N < M,
           NEW r \in lev[1], NEW w, IsBelow(w, par, C, r, N)
    PROVE  \A n \in 0 .. N : \A d \in w[n] : \E k \in 2 .. n + 1 : d \in lev[k]
<1> DEFINE G == {n \in Nat : n <= N => \A d \in w[n] : \E k \in 2 .. n + 1 : d \in lev[k]}
<1>0. Below(w, par, C, r, N)
  BY BelowMember
<1>1. ASSUME NEW n \in Nat, \A j \in Nat : j < n => j \in G PROVE n \in G
  <2> SUFFICES ASSUME n <= N, NEW d \in w[n] PROVE \E k \in 2 .. n + 1 : d \in lev[k]
    OBVIOUS
  <2>1. n \in 1 .. N
    BY <1>0 DEF Below
  <2>2. d \in C /\ d \in D /\ (par[d] = r \/ par[d] \in w[n - 1])
    BY <1>0, <2>1 DEF Below, PartOf
  <2>3. CASE par[d] = r
    <3>1. 2 \in 1 .. M /\ 2 - 1 = 1 /\ 2 \in 2 .. n + 1
      BY <2>1
    <3>2. d \in lev[2]
      BY <2>2, <2>3, <3>1, LevelMember
    <3> QED BY <3>1, <3>2
  <2>4. CASE par[d] \in w[n - 1]
    <3>1. n - 1 \in Nat /\ n - 1 < n /\ n - 1 <= N
      BY <2>1
    <3>2. PICK k \in 2 .. (n - 1) + 1 : par[d] \in lev[k]
      BY <1>1, <2>4, <3>1
    <3>3. k + 1 \in 1 .. M /\ (k + 1) - 1 = k /\ k + 1 \in 2 .. n + 1
      BY <2>1
    <3>4. d \in lev[k + 1]
      BY <2>2, <3>2, <3>3, LevelMember
    <3> QED BY <3>3, <3>4
  <2> QED BY <2>2, <2>3, <2>4
<1>2. Nat \subseteq G
  <2> HIDE DEF G
  <2> QED BY <1>1, NumberInduction
<1>3. \A n \in 0 .. N : n \in G
  BY <1>2
<1> QED BY <1>3

(* Nothing is below two roots.                                               *)
LEMMA BelowApart ==
    ASSUME NEW par, NEW D, NEW none, Parents(par, D, none),
           NEW C, PartOf(C, par, D, none), NEW N \in Nat,
           NEW r \in D, par[r] = none, NEW w, IsBelow(w, par, C, r, N),
           NEW q \in D, par[q] = none, NEW v, IsBelow(v, par, C, q, N)
    PROVE  \A n \in 0 .. N : \A m \in 0 .. N : \A d :
                d \in w[n] /\ d \in {q} \cup v[m] => r = q
<1> DEFINE G == {n \in Nat : n <= N => \A m \in 0 .. N : \A d :
                                d \in w[n] /\ d \in {q} \cup v[m] => r = q}
<1>4. Below(w, par, C, r, N) /\ Below(v, par, C, q, N)
  BY BelowMember
<1>0. \A n \in 0 .. N : none \notin w[n] /\ none \notin v[n]
  BY <1>4 DEF Below, PartOf, Parents
<1>1. ASSUME NEW n \in Nat, \A j \in Nat : j < n => j \in G PROVE n \in G
  <2> SUFFICES ASSUME n <= N, NEW m \in 0 .. N, NEW d, d \in w[n], d \in {q} \cup v[m]
               PROVE  r = q
    OBVIOUS
  <2>1. n \in 1 .. N
    BY <1>4 DEF Below
  <2>2. par[d] = r \/ par[d] \in w[n - 1]
    BY <2>1, <1>4 DEF Below
  <2>3. r # none /\ q # none
    BY DEF Parents
  <2>4. n - 1 \in Nat /\ n - 1 < n /\ n - 1 \in 0 .. N
    BY <2>1
  <2>5. par[d] # none
    BY <1>0, <2>2, <2>3, <2>4
  <2>6. d # q /\ d \in v[m]
    BY <2>5
  <2>7. m \in 1 .. N
    BY <2>6, <1>4 DEF Below
  <2>8. m - 1 \in 0 .. N
    BY <2>7
  <2>9. par[d] = q \/ par[d] \in v[m - 1]
    BY <2>6, <2>7, <1>4 DEF Below
  <2>10. CASE par[d] = r /\ par[d] = q
    BY <2>10
  <2>11. CASE par[d] = r /\ par[d] \in v[m - 1]
    <3>1. m - 1 \in 1 .. N
      BY <2>8, <2>11, <1>4 DEF Below
    <3>2. par[r] = q \/ par[r] \in v[m - 1 - 1]
      BY <2>11, <3>1, <1>4 DEF Below
    <3>3. m - 1 - 1 \in 0 .. N
      BY <3>1
    <3> QED BY <1>0, <2>3, <3>2, <3>3
  <2>12. CASE par[d] \in w[n - 1]
    BY <1>1, <2>4, <2>8, <2>9, <2>12
  <2> QED BY <2>2, <2>9, <2>10, <2>11, <2>12
<1>2. Nat \subseteq G
  <2> HIDE DEF G
  <2> QED BY <1>1, NumberInduction
<1>3. \A n \in 0 .. N : n \in G
  BY <1>2
<1> QED BY <1>3

(* What is on a level is a root or below one.                                *)
Covered(par, C, r, N, c, k) ==
    \A w : IsBelow(w, par, C, r, N) => \A j \in k - 1 .. N : c \in {r} \cup w[j]

LEMMA BelowCovers ==
    ASSUME NEW par, NEW D, NEW none, Parents(par, D, none),
           NEW M \in Nat, NEW lev, IsLevels(lev, par, D, none, M),
           NEW C, PartOf(C, par, D, none), NEW N \in Nat
    PROVE  \A k \in 1 .. M : \A c \in C :
                c \in lev[k] => \E r \in C : r \in lev[1] /\ Covered(par, C, r, N, c, k)
<1> DEFINE G == {k \in Nat : k \in 1 .. M => \A c \in C :
                c \in lev[k] => \E r \in C : r \in lev[1] /\ Covered(par, C, r, N, c, k)}
<1>1. ASSUME NEW k \in Nat, \A j \in Nat : j < k => j \in G PROVE k \in G
  <2> SUFFICES ASSUME k \in 1 .. M, NEW c \in C, c \in lev[k]
               PROVE  \E r \in C : r \in lev[1] /\ Covered(par, C, r, N, c, k)
    OBVIOUS
  <2>1. CASE k = 1
    <3>1. c \in lev[1] /\ Covered(par, C, c, N, c, k)
      BY <2>1 DEF Covered
    <3> QED BY <3>1
  <2>2. CASE k # 1
    <3>1. k - 1 \in Nat /\ k - 1 < k /\ k - 1 \in 1 .. M
      BY <2>2
    <3>2. par[c] \in lev[k - 1]
      BY LevelMember
    <3>3. par[c] \in C
      BY <3>1, <3>2, LevelMember DEF PartOf
    <3>4. PICK r \in C : r \in lev[1] /\ Covered(par, C, r, N, par[c], k - 1)
      BY <1>1, <3>1, <3>2, <3>3
    <3>5. Covered(par, C, r, N, c, k)
      <4> SUFFICES ASSUME NEW w, IsBelow(w, par, C, r, N), NEW j \in k - 1 .. N
                   PROVE  c \in {r} \cup w[j]
        BY DEF Covered
      <4>1. j \in 1 .. N /\ j - 1 \in (k - 1) - 1 .. N
        BY <3>1
      <4>2. par[c] \in {r} \cup w[j - 1]
        BY <3>4, <4>1 DEF Covered
      <4>3. Below(w, par, C, r, N) /\ c \in C
        BY BelowMember
      <4> QED BY <4>1, <4>2, <4>3 DEF Below
    <3> QED BY <3>4, <3>5
  <2> QED BY <2>1, <2>2
<1>2. Nat \subseteq G
  <2> HIDE DEF G
  <2> QED BY <1>1, NumberInduction
<1>3. \A k \in 1 .. M : k \in G
  BY <1>2
<1> QED BY <1>3

(* Each root with what is below it: together all that is on the levels.      *)
LEMMA TreeSize ==
    ASSUME NEW par, NEW D, NEW none, Parents(par, D, none),
           NEW M \in Nat, NEW lev, IsLevels(lev, par, D, none, M),
           NEW C, PartOf(C, par, D, none),
           NEW N \in Nat, N < M, Cardinality(D) <= N,
           NEW R, R = {c \in C : c \in lev[1]},
           NEW W, \A r \in R : IsBelow(W[r], par, C, r, N),
           NEW g, \A r \in R : g[r] = 1 + Cardinality(W[r][N])
    PROVE  SumFunctionOnSet(g, R) = Cardinality({c \in C : \E k \in 1 .. N : c \in lev[k]})
<1> DEFINE P == [r \in R |-> {r} \cup W[r][N]]
           f == [c \in C |-> 1]
           All == {c \in C : \E k \in 1 .. N : c \in lev[k]}
<1>1. IsFiniteSet(C) /\ IsFiniteSet(R) /\ IsFiniteSet(All)
  <2>1. IsFiniteSet(C)
    BY FS_Subset DEF Parents, PartOf
  <2>2. R \subseteq C /\ All \subseteq C
    OBVIOUS
  <2> QED BY <2>1, <2>2, FS_Subset
<1>2. \A r \in R : r \in C /\ r \in D /\ r \in lev[1] /\ par[r] = none
  <2> SUFFICES ASSUME NEW r \in R PROVE r \in C /\ r \in D /\ r \in lev[1] /\ par[r] = none
    OBVIOUS
  <2>1. r \in lev[1] /\ 1 \in 1 .. M /\ 1 - 1 = 0
    OBVIOUS
  <2>2. par[r] \in lev[0] /\ r \in D
    BY <2>1, LevelMember
  <2> QED BY <2>1, <2>2, LevelMember
<1>3. ASSUME NEW r \in R
      PROVE  /\ P[r] = {r} \cup W[r][N] /\ P[r] \subseteq All /\ IsFiniteSet(P[r])
             /\ g[r] = Cardinality(P[r])
  <2>1. IsBelow(W[r], par, C, r, N) /\ r \in lev[1] /\ r \in C
    BY <1>2
  <2>2. \A d \in W[r][N] : \E k \in 2 .. N + 1 : d \in lev[k]
    BY <2>1, BelowLevels
  <2>3. \A d \in W[r][N] : d \in C /\ \E k \in 2 .. N : d \in lev[k]
    <3> SUFFICES ASSUME NEW d \in W[r][N] PROVE d \in C /\ \E k \in 2 .. N : d \in lev[k]
      OBVIOUS
    <3>1. d \in C
      <4>1. Below(W[r], par, C, r, N) /\ N \in 0 .. N
        BY <2>1, BelowMember
      <4> QED BY <4>1 DEF Below
    <3>2. PICK k \in 2 .. N + 1 : d \in lev[k]
      BY <2>2
    <3>3. k \in 1 .. M
      OBVIOUS
    <3>4. k <= Cardinality(D)
      BY <3>2, <3>3, LevelsEnd
    <3>5. k <= N
      <4>1. Cardinality(D) \in Nat
        BY FS_CardinalityType DEF Parents
      <4> QED BY <3>4, <4>1
    <3> QED BY <3>1, <3>2, <3>5
  <2>4. 1 <= N
    <3>1. 1 \in 1 .. M
      OBVIOUS
    <3>2. 1 <= Cardinality(D)
      BY <2>1, <3>1, LevelsEnd
    <3>3. Cardinality(D) \in Nat
      BY FS_CardinalityType DEF Parents
    <3> QED BY <3>2, <3>3
  <2>5. {r} \cup W[r][N] \subseteq All
    BY <2>1, <2>3, <2>4
  <2>6. r \notin W[r][N]
    <3> SUFFICES ASSUME r \in W[r][N] PROVE FALSE
      OBVIOUS
    <3>1. PICK k \in 2 .. N : r \in lev[k]
      BY <2>3
    <3>2. k \in 0 .. M /\ 1 \in 0 .. M
      OBVIOUS
    <3>3. k = 1
      BY <2>1, <3>1, <3>2, LevelsApart
    <3> QED BY <3>1, <3>3
  <2>7. IsFiniteSet(W[r][N]) /\ IsFiniteSet({r} \cup W[r][N])
    <3>1. W[r][N] \subseteq All
      BY <2>5
    <3> HIDE DEF All
    <3> QED BY <1>1, <2>5, <3>1, FS_Subset
  <2>8. Cardinality(W[r][N] \cup {r}) = Cardinality(W[r][N]) + 1
    BY <2>6, <2>7, FS_AddElement
  <2>9. W[r][N] \cup {r} = {r} \cup W[r][N] /\ Cardinality(W[r][N]) \in Nat
    BY <2>7, FS_CardinalityType
  <2>10. g[r] = Cardinality({r} \cup W[r][N])
    <3>1. g[r] = 1 + Cardinality(W[r][N])
      OBVIOUS
    <3>2. Cardinality({r} \cup W[r][N]) = Cardinality(W[r][N]) + 1
      BY <2>8, <2>9
    <3> QED BY <2>9, <3>1, <3>2
  <2> QED BY <2>5, <2>7, <2>10
<1>4. Disjoint(P, R)
  <2> SUFFICES ASSUME NEW r \in R, NEW q \in R, r # q, NEW d,
                      d \in {r} \cup W[r][N], d \in {q} \cup W[q][N]
               PROVE  FALSE
    BY DEF Disjoint
  <2>1. /\ r \in D /\ par[r] = none /\ IsBelow(W[r], par, C, r, N)
        /\ q \in D /\ par[q] = none /\ IsBelow(W[q], par, C, q, N)
        /\ N \in 0 .. N
    BY <1>2
  <2>2. CASE d \in W[r][N]
    BY <2>1, <2>2, BelowApart
  <2>3. CASE d \in W[q][N]
    BY <2>1, <2>3, BelowApart
  <2> QED BY <2>2, <2>3
<1>5. AllOf(P, R) = All
  <2>1. ASSUME NEW c \in All PROVE \E r \in R : c \in P[r]
    <3>1. PICK k \in 1 .. N : c \in lev[k]
      OBVIOUS
    <3>2. k \in 1 .. M /\ N \in k - 1 .. N /\ c \in C
      OBVIOUS
    <3>3. PICK r \in C : r \in lev[1] /\ Covered(par, C, r, N, c, k)
      BY <3>1, <3>2, BelowCovers
    <3>4. r \in R
      BY <3>3
    <3>5. c \in {r} \cup W[r][N]
      BY <3>2, <3>3, <3>4 DEF Covered
    <3> QED BY <3>4, <3>5
  <2>2. ASSUME NEW r \in R, NEW c \in P[r] PROVE c \in All
    BY <1>3
  <2> HIDE DEF P, All
  <2> QED BY <2>1, <2>2 DEF AllOf
<1>6. \A r \in R : \A c \in P[r] : c \in C
  <2>1. All \subseteq C
    OBVIOUS
  <2> HIDE DEF P, All
  <2> QED BY <1>3, <2>1
<1>7. \A c \in C : f[c] = 1
  OBVIOUS
<1> HIDE DEF P, f, All
<1>8. ASSUME NEW r \in R PROVE IsFiniteSet(P[r]) /\ g[r] = SumFunctionOnSet(f, P[r])
  <2>1. IsFiniteSet(P[r]) /\ \A c \in P[r] : f[c] = 1
    BY <1>3, <1>6, <1>7
  <2>2. SumFunctionOnSet(f, P[r]) = Cardinality(P[r])
    BY <2>1, SumOfOnes
  <2> QED BY <1>3, <2>1, <2>2
<1>9. \A r \in R : \A c \in P[r] : f[c] \in Int
  BY <1>6, <1>7
<1>10. InParts(f, g, P, R)
  BY <1>1, <1>4, <1>8, <1>9 DEF InParts
<1>11. SumFunctionOnSet(g, R) = SumFunctionOnSet(f, All)
  BY <1>5, <1>10, SumOfParts
<1>12. \A c \in All : f[c] = 1
  BY <1>7 DEF All
<1>13. SumFunctionOnSet(f, All) = Cardinality(All)
  BY <1>1, <1>12, SumOfOnes
<1> QED BY <1>11, <1>13 DEF All
=============================================================================
