----------------------------- MODULE TrafficProofs -----------------------------
(***************************************************************************)
(* Proofs about Traffic, for logs of any length over any addresses.        *)
(*                                                                         *)
(* The properties are about sums over dictionaries, and a sum is a         *)
(* recursion over a finite set.  The library's induction theorems take a   *)
(* predicate, which the provers cannot instantiate; stated for a set of    *)
(* numbers or of sets instead, as here, induction is an ordinary fact.     *)
(***************************************************************************)
EXTENDS Traffic, FiniteSetTheorems, WellFoundedInduction, TLAPS

(* Every set of numbers has a least one. *)
LEMMA LeastNumber ==
  ASSUME NEW S, S \subseteq Nat, S # {}
  PROVE  \E x \in S : \A y \in S : x <= y
<1> DEFINE less == {p \in Nat \X Nat : p[1] < p[2]}
<1>1. IsWellFoundedOn(less, Nat)
  BY NatLessThanWellFounded DEF OpToRel
<1> HIDE DEF less
<1>2. \E x \in S : \A y \in S : <<y, x>> \notin less
  BY <1>1, WFMin
<1>3. \A x, y \in S : <<y, x>> \notin less => x <= y
  BY DEF less
<1> QED
  BY <1>2, <1>3

(* Induction over numbers, and over the subsets of a finite set. *)
LEMMA NumbersAreReached ==
  ASSUME NEW good, 0 \in good, \A n \in Nat : n \in good => n + 1 \in good
  PROVE  Nat \subseteq good
<1> SUFFICES ASSUME Nat \ good # {} PROVE FALSE
  OBVIOUS
<1>1. PICK n \in Nat \ good : \A m \in Nat \ good : n <= m
  BY LeastNumber
<1>2. n - 1 \in Nat /\ n - 1 \notin Nat \ good
  BY <1>1
<1>3. (n - 1) + 1 \in good
  BY <1>2
<1> QED
  BY <1>1, <1>3

LEMMA SubsetsAreReached ==
  ASSUME NEW S, IsFiniteSet(S), NEW good, {} \in good,
         \A T \in SUBSET S : \A x \in S \ T : T \in good => T \cup {x} \in good
  PROVE  S \in good
<1> DEFINE sizes == {n \in Nat : \A T \in SUBSET S : Cardinality(T) = n => T \in good}
<1>1. \A T \in SUBSET S : IsFiniteSet(T) /\ Cardinality(T) \in Nat
  BY FS_Subset, FS_CardinalityType
<1>2. 0 \in sizes
  BY <1>1, FS_EmptySet
<1>3. ASSUME NEW n \in Nat, n \in sizes
      PROVE  n + 1 \in sizes
  <2> SUFFICES ASSUME NEW T \in SUBSET S, Cardinality(T) = n + 1
               PROVE  T \in good
    OBVIOUS
  <2>1. PICK x \in T : TRUE
    BY <1>1, FS_EmptySet
  <2>2. T \ {x} \in SUBSET S /\ Cardinality(T \ {x}) = n
    <3>1. IsFiniteSet(T)
      BY <1>1
    <3>2. Cardinality(T \ {x}) = Cardinality(T) - 1
      BY <2>1, <3>1, FS_RemoveElement
    <3> QED
      BY <3>2
  <2>3. T \ {x} \in good
    BY <1>3, <2>2
  <2>4. (T \ {x}) \cup {x} = T /\ x \in S \ (T \ {x})
    BY <2>1
  <2> QED
    BY <2>2, <2>3, <2>4
<1> HIDE DEF sizes
<1>4. Cardinality(S) \in sizes
  BY <1>1, <1>2, <1>3, NumbersAreReached
<1> QED
  BY <1>4 DEF sizes
-----------------------------------------------------------------------------
(* Sums.                                                                   *)

Pick(s) == CHOOSE x \in s : TRUE

PickThenSum(f, it, s) ==
  IF s = {} THEN 0 ELSE f[Pick(s)] + it[s \ {Pick(s)}]

Sums(f, S, it) == it = [s \in SUBSET S |-> PickThenSum(f, it, s)]

LEMMA SumForm ==
  ASSUME NEW f, NEW S
  PROVE  SumFunctionOnSet(f, S) = (CHOOSE it : Sums(f, S, it))[S]
  BY DEF SumFunctionOnSet, FoldFunctionOnSet, MapThenFoldSet, Sums, PickThenSum, Pick

(* There are sums: first of the small subsets, then of larger ones. *)
LEMMA SumsExist ==
  ASSUME NEW f, NEW S, IsFiniteSet(S)
  PROVE  \E it : Sums(f, S, it)
<1> DEFINE Small(n) == {s \in SUBSET S : Cardinality(s) <= n}
           SmallSums(n, it) == it = [s \in Small(n) |-> PickThenSum(f, it, s)]
           good == {n \in Nat : \E it : SmallSums(n, it)}
<1>1. \A s \in SUBSET S : IsFiniteSet(s) /\ Cardinality(s) \in Nat
  BY FS_Subset, FS_CardinalityType
<1>2. \A s \in SUBSET S : Cardinality(s) = 0 <=> s = {}
  BY <1>1, FS_EmptySet
<1>3. \A s \in SUBSET S : s # {} => /\ s \ {Pick(s)} \in SUBSET S
                                    /\ Cardinality(s \ {Pick(s)}) = Cardinality(s) - 1
  BY <1>1, FS_RemoveElement DEF Pick
<1>4. 0 \in good
  <2> DEFINE it == [s \in Small(0) |-> 0]
  <2>1. \A s \in Small(0) : s = {}
    BY <1>1, <1>2
  <2>2. SmallSums(0, it)
    BY <2>1 DEF PickThenSum
  <2> QED
    BY <2>2
<1>5. ASSUME NEW n \in Nat, n \in good
      PROVE  n + 1 \in good
  <2>1. PICK it : SmallSums(n, it)
    BY <1>5
  <2> DEFINE next == [s \in Small(n + 1) |-> PickThenSum(f, it, s)]
  <2>2. \A s \in Small(n) : s \in Small(n + 1) /\ next[s] = it[s]
    BY <1>1, <2>1
  <2>3. \A s \in Small(n + 1) : s # {} => s \ {Pick(s)} \in Small(n)
    BY <1>1, <1>3
  <2>4. \A s \in Small(n + 1) : PickThenSum(f, next, s) = PickThenSum(f, it, s)
    BY <2>2, <2>3 DEF PickThenSum
  <2>5. SmallSums(n + 1, next)
    BY <2>4
  <2>6. n + 1 \in Nat
    OBVIOUS
  <2> HIDE DEF next, SmallSums
  <2>7. \E later : SmallSums(n + 1, later)
    BY <2>5
  <2> QED
    BY <2>6, <2>7
<1> HIDE DEF good
<1>6. Cardinality(S) \in good
  BY <1>1, <1>4, <1>5, NumbersAreReached
<1>7. PICK it : SmallSums(Cardinality(S), it)
  BY <1>6 DEF good
<1>8. Small(Cardinality(S)) = SUBSET S
  BY FS_Subset
<1> QED
  BY <1>7, <1>8 DEF Sums

(* And only one of each set, whatever it is a subset of. *)
LEMMA SumsAgree ==
  ASSUME NEW S, IsFiniteSet(S), NEW T, NEW U, S \subseteq T, S \subseteq U,
         NEW f, NEW g, \A x \in S : f[x] = g[x],
         NEW it, Sums(f, T, it), NEW jt, Sums(g, U, jt)
  PROVE  it[S] = jt[S]
<1> DEFINE good == {n \in Nat : \A s \in SUBSET S : Cardinality(s) = n => it[s] = jt[s]}
<1>1. \A s \in SUBSET S : IsFiniteSet(s) /\ Cardinality(s) \in Nat
  BY FS_Subset, FS_CardinalityType
<1>2. \A s \in SUBSET S : /\ it[s] = PickThenSum(f, it, s)
                          /\ jt[s] = PickThenSum(g, jt, s)
  BY DEF Sums
<1>3. 0 \in good
  BY <1>1, <1>2, FS_EmptySet DEF PickThenSum
<1>4. ASSUME NEW n \in Nat, n \in good
      PROVE  n + 1 \in good
  <2> SUFFICES ASSUME NEW s \in SUBSET S, Cardinality(s) = n + 1
               PROVE  it[s] = jt[s]
    OBVIOUS
  <2>1. s # {} /\ Pick(s) \in s
    BY FS_EmptySet DEF Pick
  <2>2. s \ {Pick(s)} \in SUBSET S /\ Cardinality(s \ {Pick(s)}) = n
    <3>1. IsFiniteSet(s)
      BY <1>1
    <3>2. Cardinality(s \ {Pick(s)}) = Cardinality(s) - 1
      BY <2>1, <3>1, FS_RemoveElement
    <3> QED
      BY <3>2
  <2>3. it[s \ {Pick(s)}] = jt[s \ {Pick(s)}]
    BY <1>4, <2>2
  <2> QED
    BY <1>2, <2>1, <2>3 DEF PickThenSum
<1> HIDE DEF good
<1>5. Cardinality(S) \in good
  BY <1>1, <1>3, <1>4, NumbersAreReached
<1> QED
  BY <1>5 DEF good

LEMMA SumOfAgreeing ==
  ASSUME NEW S, IsFiniteSet(S), NEW f, NEW g, \A x \in S : f[x] = g[x]
  PROVE  SumFunctionOnSet(f, S) = SumFunctionOnSet(g, S)
<1> DEFINE it == CHOOSE i : Sums(f, S, i)
           jt == CHOOSE j : Sums(g, S, j)
<1>1. Sums(f, S, it) /\ Sums(g, S, jt)
  BY SumsExist
<1> HIDE DEF it, jt
<1>2. it[S] = jt[S]
  BY <1>1, SumsAgree
<1> QED
  BY <1>2, SumForm DEF it, jt

(* The recursion that defines the sum. *)
LEMMA SumRecursion ==
  ASSUME NEW f, NEW S, IsFiniteSet(S)
  PROVE  /\ SumFunctionOnSet(f, {}) = 0
         /\ S # {} => /\ Pick(S) \in S
                      /\ SumFunctionOnSet(f, S)
                           = f[Pick(S)] + SumFunctionOnSet(f, S \ {Pick(S)})
<1> DEFINE it(T) == CHOOSE i : Sums(f, T, i)
<1>1. IsFiniteSet({}) /\ IsFiniteSet(S \ {Pick(S)})
  BY FS_EmptySet, FS_RemoveElement
<1>2. /\ Sums(f, S, it(S)) /\ Sums(f, {}, it({}))
      /\ Sums(f, S \ {Pick(S)}, it(S \ {Pick(S)}))
  BY <1>1, SumsExist
<1>3. /\ SumFunctionOnSet(f, S) = it(S)[S]
      /\ SumFunctionOnSet(f, {}) = it({})[{}]
      /\ SumFunctionOnSet(f, S \ {Pick(S)}) = it(S \ {Pick(S)})[S \ {Pick(S)}]
  BY SumForm
<1> HIDE DEF it
<1>4. it({})[{}] = 0
  BY <1>2 DEF Sums, PickThenSum
<1>5. ASSUME S # {}
      PROVE  Pick(S) \in S /\ it(S)[S] = f[Pick(S)] + it(S)[S \ {Pick(S)}]
  BY <1>2, <1>5 DEF Sums, PickThenSum, Pick
<1>6. it(S)[S \ {Pick(S)}] = it(S \ {Pick(S)})[S \ {Pick(S)}]
  BY <1>1, <1>2, SumsAgree
<1> QED
  BY <1>3, <1>4, <1>5, <1>6

(* Any element may be taken out first. *)
LEMMA SumWithout ==
  ASSUME NEW S, IsFiniteSet(S), NEW f, \A x \in S : f[x] \in Int
  PROVE  /\ SumFunctionOnSet(f, S) \in Int
         /\ \A x \in S : SumFunctionOnSet(f, S) = f[x] + SumFunctionOnSet(f, S \ {x})
<1> DEFINE Sum(T) == SumFunctionOnSet(f, T)
           Splits(T) == /\ Sum(T) \in Int
                        /\ \A x \in T : Sum(T) = f[x] + Sum(T \ {x})
           good == {n \in Nat : \A T \in SUBSET S : Cardinality(T) <= n => Splits(T)}
<1>1. \A T \in SUBSET S : IsFiniteSet(T) /\ Cardinality(T) \in Nat
  BY FS_Subset, FS_CardinalityType
<1>2. Splits({})
  <2>1. Sum({}) = 0
    BY SumRecursion
  <2> HIDE DEF Sum
  <2> QED
    BY <2>1
<1>3. ASSUME NEW T \in SUBSET S, T # {}
      PROVE  Pick(T) \in T /\ Sum(T) = f[Pick(T)] + Sum(T \ {Pick(T)})
  BY <1>1, <1>3, SumRecursion
<1>4. ASSUME NEW T \in SUBSET S, NEW x \in T
      PROVE  T \ {x} \in SUBSET S /\ Cardinality(T \ {x}) = Cardinality(T) - 1
  <2>1. IsFiniteSet(T)
    BY <1>1
  <2> QED
    BY <2>1, FS_RemoveElement
<1> HIDE DEF Sum
<1>5. 0 \in good
  <2>1. \A T \in SUBSET S : Cardinality(T) <= 0 => T = {}
    BY <1>1, FS_EmptySet
  <2> QED
    BY <1>2, <2>1
<1>6. ASSUME NEW n \in Nat, n \in good
      PROVE  n + 1 \in good
  <2> SUFFICES ASSUME NEW T \in SUBSET S, Cardinality(T) <= n + 1, T # {}
               PROVE  Splits(T)
    BY <1>2
  <2> DEFINE y == Pick(T)
  <2>1. y \in T /\ Sum(T) = f[y] + Sum(T \ {y})
    BY <1>3
  <2> HIDE DEF y
  <2>2. \A U \in SUBSET S : Cardinality(U) <= n => Splits(U)
    BY <1>6
  <2>3. \A x \in T : T \ {x} \in SUBSET S /\ Cardinality(T \ {x}) <= n
    BY <1>1, <1>4
  <2>4. \A x \in T : Splits(T \ {x})
    BY <2>2, <2>3
  <2>5. \A x \in T : f[x] \in Int /\ Sum(T \ {x}) \in Int
    BY <2>4
  <2>6. ASSUME NEW x \in T, x # y
        PROVE  Sum(T) = f[x] + Sum(T \ {x})
    <3>1. Sum(T \ {y}) = f[x] + Sum((T \ {y}) \ {x})
      BY <2>1, <2>4, <2>6
    <3>2. Sum(T \ {x}) = f[y] + Sum((T \ {x}) \ {y})
      BY <2>1, <2>4, <2>6
    <3>3. (T \ {y}) \ {x} = (T \ {x}) \ {y}
      OBVIOUS
    <3>4. Sum((T \ {x}) \ {y}) \in Int
      <4>1. Cardinality((T \ {x}) \ {y}) = Cardinality(T \ {x}) - 1
        BY <1>4, <2>1, <2>3, <2>6
      <4>2. (T \ {x}) \ {y} \in SUBSET S /\ Cardinality((T \ {x}) \ {y}) <= n
        BY <1>1, <2>3, <4>1
      <4> QED
        BY <2>2, <4>2
    <3> QED
      BY <2>1, <2>5, <3>1, <3>2, <3>3, <3>4
  <2>7. Sum(T) \in Int
    BY <2>1, <2>5
  <2> QED
    BY <2>1, <2>6, <2>7
<1> HIDE DEF good
<1>7. Cardinality(S) \in good
  BY <1>1, <1>5, <1>6, NumbersAreReached
<1> QED
  BY <1>1, <1>7 DEF good, Sum

(* The sum after one entry of a dictionary, an old or a new one, grew. *)
LEMMA SumOfGrown ==
  ASSUME NEW f, IsFiniteSet(DOMAIN f), \A y \in DOMAIN f : f[y] \in Int,
         NEW g, NEW x, DOMAIN g = DOMAIN f \cup {x},
         \A y \in DOMAIN f \ {x} : g[y] = f[y],
         NEW d \in Int, g[x] = (IF x \in DOMAIN f THEN f[x] ELSE 0) + d
  PROVE  SumFunction(g) = SumFunction(f) + d
<1> DEFINE rest == DOMAIN f \ {x}
<1>1. IsFiniteSet(DOMAIN g) /\ IsFiniteSet(rest) /\ DOMAIN g \ {x} = rest
  BY FS_AddElement, FS_Subset
<1>2. \A y \in DOMAIN g : g[y] \in Int
  OBVIOUS
<1>3. SumFunctionOnSet(g, DOMAIN g) = g[x] + SumFunctionOnSet(g, rest)
  BY <1>1, <1>2, SumWithout
<1>4. SumFunctionOnSet(g, rest) = SumFunctionOnSet(f, rest)
  BY <1>1, SumOfAgreeing
<1>5. SumFunctionOnSet(f, rest) \in Int
  BY <1>1, SumWithout
<1>6. SumFunctionOnSet(f, DOMAIN f)
        = (IF x \in DOMAIN f THEN f[x] ELSE 0) + SumFunctionOnSet(f, rest)
  <2>1. CASE x \in DOMAIN f
    BY <2>1, SumWithout
  <2>2. CASE x \notin DOMAIN f
    <3>1. rest = DOMAIN f
      BY <2>2
    <3> QED
      BY <1>5, <2>2, <3>1
  <2> QED
    BY <2>1, <2>2
<1> HIDE DEF rest
<1> QED
  BY <1>2, <1>3, <1>4, <1>5, <1>6 DEF SumFunction

(* The sum over a part is no more than the whole. *)
LEMMA SumOfPart ==
  ASSUME NEW S, IsFiniteSet(S), NEW T, T \subseteq S, NEW f, \A x \in S : f[x] \in Nat
  PROVE  /\ SumFunctionOnSet(f, S) \in Nat
         /\ SumFunctionOnSet(f, T) \in Nat
         /\ SumFunctionOnSet(f, T) <= SumFunctionOnSet(f, S)
<1> DEFINE Sum(U) == SumFunctionOnSet(f, U)
           good == {U \in SUBSET S : /\ Sum(U) \in Nat /\ Sum(U \cap T) \in Nat
                                     /\ Sum(U \cap T) <= Sum(U)}
<1>1. {} \in good
  <2>1. Sum({}) = 0
    BY SumRecursion
  <2>2. {} \cap T = {}
    OBVIOUS
  <2> HIDE DEF Sum
  <2> QED
    BY <2>1, <2>2
<1>2. ASSUME NEW U \in SUBSET S, NEW x \in S \ U, U \in good
      PROVE  U \cup {x} \in good
  <2>1. IsFiniteSet(U \cup {x}) /\ IsFiniteSet((U \cap T) \cup {x})
    BY FS_Subset
  <2>2. (U \cup {x}) \ {x} = U /\ ((U \cap T) \cup {x}) \ {x} = U \cap T
    OBVIOUS
  <2>3. Sum(U \cup {x}) = f[x] + Sum(U)
    BY <2>1, <2>2, SumWithout
  <2>4. Sum((U \cap T) \cup {x}) = f[x] + Sum(U \cap T)
    BY <2>1, <2>2, SumWithout
  <2> HIDE DEF Sum
  <2>5. Sum(U \cup {x}) \in Nat /\ Sum(U) <= Sum(U \cup {x})
    BY <1>2, <2>3
  <2>6. Sum((U \cup {x}) \cap T) \in Nat /\ Sum((U \cup {x}) \cap T) <= Sum(U \cup {x})
    <3>1. CASE x \in T
      <4>1. (U \cup {x}) \cap T = (U \cap T) \cup {x}
        BY <3>1
      <4>2. Sum((U \cup {x}) \cap T) = f[x] + Sum(U \cap T)
        BY <2>4, <4>1
      <4> QED
        BY <1>2, <2>3, <4>2
    <3>2. CASE x \notin T
      <4>1. (U \cup {x}) \cap T = U \cap T
        BY <3>2
      <4> QED
        BY <1>2, <2>5, <4>1
    <3> QED
      BY <3>1, <3>2
  <2> QED
    BY <2>5, <2>6
<1>3. S \in good
  <2> HIDE DEF good
  <2> QED
    BY <1>1, <1>2, SubsetsAreReached
<1>4. S \cap T = T
  OBVIOUS
<1> QED
  BY <1>3, <1>4

(* A sum of numbers of which each is more than b by N. *)
LEMMA SumAbove ==
  ASSUME NEW S, IsFiniteSet(S), NEW f, NEW N \in Nat, NEW b \in Nat,
         \A x \in S : f[x] \in Nat /\ f[x] * N > b
  PROVE  SumFunctionOnSet(f, S) * N >= Cardinality(S) * (b + 1)
<1> DEFINE Sum(U) == SumFunctionOnSet(f, U)
           good == {U \in SUBSET S : Sum(U) * N >= Cardinality(U) * (b + 1)}
<1>1. {} \in good
  <2>1. Sum({}) = 0
    BY SumRecursion
  <2>2. Cardinality({}) = 0
    BY FS_EmptySet
  <2> HIDE DEF Sum
  <2> QED
    BY <2>1, <2>2
<1>2. ASSUME NEW U \in SUBSET S, NEW x \in S \ U, U \in good
      PROVE  U \cup {x} \in good
  <2>1. IsFiniteSet(U) /\ IsFiniteSet(U \cup {x})
    BY FS_Subset
  <2>2. (U \cup {x}) \ {x} = U
    OBVIOUS
  <2>3. Sum(U \cup {x}) = f[x] + Sum(U)
    BY <2>1, <2>2, SumWithout
  <2>4. Cardinality(U) \in Nat /\ Cardinality(U \cup {x}) = Cardinality(U) + 1
    BY <2>1, FS_AddElement, FS_CardinalityType
  <2>5. Sum(U) \in Int
    BY <2>1, SumWithout
  <2> HIDE DEF Sum
  <2>6. Sum(U \cup {x}) * N = f[x] * N + Sum(U) * N
    BY <2>3, <2>5
  <2>7. Cardinality(U \cup {x}) * (b + 1) = Cardinality(U) * (b + 1) + (b + 1)
    BY <2>4
  <2>8. f[x] * N >= b + 1
    OBVIOUS
  <2>9. Sum(U) * N >= Cardinality(U) * (b + 1)
    BY <1>2
  <2>10. f[x] * N \in Int /\ Sum(U) * N \in Int /\ Cardinality(U) * (b + 1) \in Int
    BY <2>4, <2>5
  <2> QED
    BY <2>6, <2>7, <2>8, <2>9, <2>10
<1>3. S \in good
  <2> HIDE DEF good
  <2> QED
    BY <1>1, <1>2, SubsetsAreReached
<1> QED
  BY <1>3

(* The entries of up to two keys, old or new ones, grew. *)
BothGrew(f, g, x, y, E, d, e) ==
  /\ IsFiniteSet(DOMAIN f) /\ \A z \in DOMAIN f : f[z] \in Int
  /\ E \subseteq {x, y} /\ d \in Int /\ e \in Int
  /\ DOMAIN g = DOMAIN f \cup E
  /\ \A z \in DOMAIN g :
       g[z] = (IF z \in DOMAIN f THEN f[z] ELSE 0)
                + (IF z = x /\ z \in E THEN d ELSE 0)
                + (IF z = y /\ z \in E THEN e ELSE 0)

LEMMA SumOfBothGrown ==
  ASSUME NEW f, NEW g, NEW x, NEW y, NEW E, NEW d, NEW e, BothGrew(f, g, x, y, E, d, e)
  PROVE  SumFunction(g) = SumFunction(f) + (IF x \in E THEN d ELSE 0)
                                         + (IF y \in E THEN e ELSE 0)
<1> USE DEF BothGrew
<1> DEFINE h == [z \in DOMAIN f \cup (E \cap {x}) |->
                   (IF z \in DOMAIN f THEN f[z] ELSE 0) + (IF z \in E \cap {x} THEN d ELSE 0)]
<1>1. DOMAIN h = DOMAIN f \cup (E \cap {x}) /\ IsFiniteSet(DOMAIN h)
  <2>1. CASE x \in E
    <3>1. DOMAIN f \cup (E \cap {x}) = DOMAIN f \cup {x}
      BY <2>1
    <3> QED
      BY <3>1, FS_AddElement
  <2>2. CASE x \notin E
    <3>1. DOMAIN f \cup (E \cap {x}) = DOMAIN f
      BY <2>2
    <3> QED
      BY <3>1
  <2> QED
    BY <2>1, <2>2
<1>2. \A z \in DOMAIN h :
        h[z] = (IF z \in DOMAIN f THEN f[z] ELSE 0) + (IF z \in E \cap {x} THEN d ELSE 0)
  OBVIOUS
<1>3. h = [z \in DOMAIN h |-> h[z]]
  OBVIOUS
<1> HIDE DEF h
<1>4. \A z \in DOMAIN h : h[z] \in Int
  BY <1>1, <1>2
<1>5. SumFunction(f) \in Int
  BY SumWithout DEF SumFunction
<1>6. SumFunction(h) = SumFunction(f) + (IF x \in E THEN d ELSE 0)
  <2>1. CASE x \in E
    <3>1. DOMAIN h = DOMAIN f \cup {x} /\ h[x] = (IF x \in DOMAIN f THEN f[x] ELSE 0) + d
      BY <1>1, <1>2, <2>1
    <3>2. \A z \in DOMAIN f \ {x} : h[z] = f[z]
      BY <1>1, <1>2
    <3>3. SumFunction(h) = SumFunction(f) + d
      BY <3>1, <3>2, SumOfGrown
    <3> QED
      BY <2>1, <3>3
  <2>2. CASE x \notin E
    <3>1. DOMAIN h = DOMAIN f /\ \A z \in DOMAIN f : h[z] = f[z]
      BY <1>1, <1>2, <2>2
    <3>2. SumFunctionOnSet(h, DOMAIN f) = SumFunctionOnSet(f, DOMAIN f)
      BY <3>1, SumOfAgreeing
    <3> QED
      BY <1>5, <2>2, <3>1, <3>2 DEF SumFunction
  <2> QED
    BY <2>1, <2>2
<1>7. SumFunction(g) = SumFunction(h) + (IF y \in E THEN e ELSE 0)
  <2>1. CASE y \in E
    <3>1. DOMAIN g = DOMAIN h \cup {y} /\ g[y] = (IF y \in DOMAIN h THEN h[y] ELSE 0) + e
      BY <1>1, <1>2, <2>1
    <3>2. \A z \in DOMAIN h \ {y} : g[z] = h[z]
      BY <1>1, <1>2
    <3>3. SumFunction(g) = SumFunction(h) + e
      BY <1>1, <1>4, <3>1, <3>2, SumOfGrown
    <3> QED
      BY <2>1, <3>3
  <2>2. CASE y \notin E
    <3>1. DOMAIN g = DOMAIN h /\ \A z \in DOMAIN h : g[z] = h[z]
      BY <1>1, <1>2, <2>2
    <3>2. SumFunctionOnSet(g, DOMAIN h) = SumFunctionOnSet(h, DOMAIN h)
      BY <1>1, <3>1, SumOfAgreeing
    <3>3. SumFunctionOnSet(h, DOMAIN h) \in Int
      BY <1>1, <1>4, SumWithout
    <3> QED
      BY <2>2, <3>1, <3>2, <3>3 DEF SumFunction
  <2> QED
    BY <2>1, <2>2
<1> QED
  BY <1>5, <1>6, <1>7
-----------------------------------------------------------------------------
(* The devices.                                                            *)

LEMMA Appended ==
  ASSUME NEW S, NEW s \in Seq(S), IsInjective(s), NEW x \in S, x \notin Range(s)
  PROVE  /\ s \o <<x>> \in Seq(S) /\ IsInjective(s \o <<x>>)
         /\ Range(s \o <<x>>) = Range(s) \cup {x}
<1> DEFINE t == s \o <<x>>
<1>1. t \in Seq(S) /\ Len(t) = Len(s) + 1 /\ DOMAIN t = 1 .. Len(s) + 1
  OBVIOUS
<1>2. (\A i \in 1 .. Len(s) : t[i] = s[i]) /\ t[Len(s) + 1] = x
  OBVIOUS
<1>3. DOMAIN s = 1 .. Len(s) /\ Len(s) \in Nat
  OBVIOUS
<1> HIDE DEF t
<1>4. DOMAIN t = DOMAIN s \cup {Len(s) + 1} /\ Len(s) + 1 \notin DOMAIN s
  BY <1>1, <1>3
<1>5. IsInjective(t)
  BY <1>2, <1>3, <1>4 DEF IsInjective, Range
<1>6. Range(t) = Range(s) \cup {x}
  BY <1>2, <1>3, <1>4 DEF Range
<1> QED
  BY <1>1, <1>5, <1>6 DEF t

LEMMA ConnectionForm ==
  ASSUME NEW c \in Connections
  PROVE  /\ c.src \in Addresses \cup {Unset} /\ c.dst \in Addresses \cup {Unset}
         /\ c.orig \in Nat /\ c.resp \in Nat /\ Total(c) \in Nat /\ Failed(c) \in {0, 1}
<1>1. Bytes \subseteq Nat
  BY TrafficAssumption
<1>2. /\ c.src \in Addresses \cup {Unset} /\ c.dst \in Addresses \cup {Unset}
      /\ c.orig \in Bytes /\ c.resp \in Bytes
  BY DEF Connections
<1>3. c.orig \in Nat /\ c.resp \in Nat
  BY <1>1, <1>2
<1>4. Total(c) \in Nat
  BY <1>3 DEF Total
<1>5. Failed(c) \in {0, 1}
  BY DEF Failed
<1> QED
  BY <1>2, <1>3, <1>4, <1>5

LEMMA DestinationForm ==
  ASSUME NEW m, NEW c, m \in [in : Nat, out : Nat, total : Nat, failed : Nat],
         c.orig \in Nat, c.resp \in Nat
  PROVE  /\ AddDestination(m, c) \in [in : Nat, out : Nat, total : Nat, failed : Nat]
         /\ AddDestination(m, c).in = m.in + c.orig
         /\ AddDestination(m, c).out = m.out + c.resp
         /\ AddDestination(m, c).total = m.total + Total(c)
         /\ AddDestination(m, c).failed = m.failed
<1>1. /\ m.in + c.orig \in Nat /\ m.out + c.resp \in Nat
      /\ m.total + Total(c) \in Nat
  BY DEF Total
<1>2. ASSUME NEW in \in Nat, NEW out \in Nat, NEW total \in Nat
      PROVE  LET r == [m EXCEPT !.in = in, !.out = out, !.total = total]
             IN  /\ r \in [in : Nat, out : Nat, total : Nat, failed : Nat]
                 /\ r.in = in /\ r.out = out /\ r.total = total /\ r.failed = m.failed
  OBVIOUS
<1> QED
  BY <1>1, <1>2 DEF AddDestination

(* What the dictionary has of an address before a row is counted. *)
Before(ip) == IF ip \in DOMAIN devices THEN devices[ip] ELSE Fresh

(* A row adds its local ends to the dictionary, and its bytes to theirs. *)
LEMMA RowIsCounted ==
  ASSUME TypeOK, NEW c \in Connections, CountDevices(c)
  PROVE  /\ order' \in Seq(Locals) /\ IsInjective(order')
         /\ DOMAIN devices' = Range(order')
         /\ DOMAIN devices' = DOMAIN devices \cup LocalEnds(c)
         /\ devices' = [ip \in DOMAIN devices' |-> devices'[ip]]
         /\ \A ip \in DOMAIN devices' :
              /\ devices'[ip] \in [in : Nat, out : Nat, total : Nat, failed : Nat]
              /\ devices'[ip].in + devices'[ip].out - devices'[ip].total
                   = Before(ip).in + Before(ip).out - Before(ip).total
              /\ devices'[ip].total
                   = Before(ip).total
                       + (IF ip = c.src /\ ip \in LocalEnds(c) THEN Total(c) ELSE 0)
                       + (IF ip = c.dst /\ ip \in LocalEnds(c) THEN Total(c) ELSE 0)
              /\ devices'[ip].failed
                   = Before(ip).failed
                       + (IF ip = c.src /\ ip \in LocalEnds(c) THEN Failed(c) ELSE 0)
                       + (IF ip = c.dst /\ ip \in LocalEnds(c) THEN 0 ELSE 0)
<1> DEFINE met(ip) == IF ip \in LocalEnds(c) \ DOMAIN devices THEN <<ip>> ELSE <<>>
           sourced(ip) == IF ip = c.src THEN AddSource(Before(ip), c) ELSE Before(ip)
           first == order \o met(c.src)
<1>1. /\ order' = first \o (IF c.dst = c.src THEN <<>> ELSE met(c.dst))
      /\ devices' = [ip \in Range(order') |->
           IF ip = c.dst /\ c.src # Unset THEN AddDestination(sourced(ip), c)
           ELSE sourced(ip)]
  BY DEF CountDevices, Before
<1>2. /\ c.src \in Addresses \cup {Unset} /\ c.dst \in Addresses \cup {Unset}
      /\ c.orig \in Nat /\ c.resp \in Nat /\ Total(c) \in Nat /\ Failed(c) \in {0, 1}
  BY ConnectionForm
<1>3. LocalEnds(c) \subseteq Locals /\ LocalEnds(c) \subseteq {c.src, c.dst}
  BY <1>2 DEF LocalEnds, Locals, IsLocal, IsPrivate
<1>4. /\ order \in Seq(Locals) /\ IsInjective(order)
      /\ DOMAIN devices = Range(order)
      /\ \A ip \in DOMAIN devices :
           devices[ip] \in [in : Nat, out : Nat, total : Nat, failed : Nat]
  BY DEF TypeOK
<1>5. /\ first \in Seq(Locals) /\ IsInjective(first)
      /\ Range(first) = DOMAIN devices \cup (LocalEnds(c) \cap {c.src})
  <2>1. CASE c.src \in LocalEnds(c) \ DOMAIN devices
    <3>1. first = order \o <<c.src>>
      BY <2>1
    <3>2. c.src \in Locals /\ c.src \notin Range(order)
      BY <1>3, <1>4, <2>1
    <3> HIDE DEF first
    <3> QED
      BY <1>4, <2>1, <3>1, <3>2, Appended
  <2>2. CASE c.src \notin LocalEnds(c) \ DOMAIN devices
    <3>1. first = order \o <<>> /\ order \o <<>> = order
      BY <1>4, <2>2
    <3> HIDE DEF first
    <3> QED
      BY <1>4, <2>2, <3>1
  <2> QED
    BY <2>1, <2>2
<1> HIDE DEF first
<1>6. /\ order' \in Seq(Locals) /\ IsInjective(order')
      /\ Range(order') = DOMAIN devices \cup LocalEnds(c)
  <2>1. CASE c.dst # c.src /\ c.dst \in LocalEnds(c) \ DOMAIN devices
    <3>1. order' = first \o <<c.dst>>
      BY <1>1, <2>1
    <3>2. c.dst \in Locals /\ c.dst \notin Range(first)
      BY <1>3, <1>5, <2>1
    <3>3. /\ order' \in Seq(Locals) /\ IsInjective(order')
          /\ Range(order') = Range(first) \cup {c.dst}
      BY <1>5, <3>1, <3>2, Appended
    <3> QED
      BY <1>3, <1>5, <2>1, <3>3
  <2>2. CASE ~(c.dst # c.src /\ c.dst \in LocalEnds(c) \ DOMAIN devices)
    <3>1. order' = first \o <<>> /\ first \o <<>> = first
      BY <1>1, <1>5, <2>2
    <3> QED
      BY <1>3, <1>5, <2>2, <3>1
  <2> QED
    BY <2>1, <2>2
<1>7. /\ DOMAIN devices' = Range(order')
      /\ devices' = [ip \in DOMAIN devices' |-> devices'[ip]]
  BY <1>1
<1>8. \A ip \in Range(order') : (ip = c.src \/ (ip = c.dst /\ c.src # Unset)) <=> ip \in LocalEnds(c)
  <2>1. Range(order') \subseteq Locals
    BY <1>6 DEF Range
  <2> QED
    BY <2>1 DEF LocalEnds, Locals, IsLocal, IsPrivate
<1>9. ASSUME NEW ip \in DOMAIN devices'
      PROVE  /\ devices'[ip] \in [in : Nat, out : Nat, total : Nat, failed : Nat]
             /\ devices'[ip].in + devices'[ip].out - devices'[ip].total
                  = Before(ip).in + Before(ip).out - Before(ip).total
             /\ devices'[ip].total
                  = Before(ip).total
                      + (IF ip = c.src /\ ip \in LocalEnds(c) THEN Total(c) ELSE 0)
                      + (IF ip = c.dst /\ ip \in LocalEnds(c) THEN Total(c) ELSE 0)
             /\ devices'[ip].failed
                  = Before(ip).failed
                      + (IF ip = c.src /\ ip \in LocalEnds(c) THEN Failed(c) ELSE 0)
                      + (IF ip = c.dst /\ ip \in LocalEnds(c) THEN 0 ELSE 0)
  <2> DEFINE m == Before(ip)
  <2>1. m \in [in : Nat, out : Nat, total : Nat, failed : Nat]
    BY <1>4 DEF Before, Fresh
  <2> HIDE DEF m
  <2> DEFINE n == AddSource(m, c)
  <2>5. /\ n \in [in : Nat, out : Nat, total : Nat, failed : Nat]
        /\ n.in = m.in + c.resp /\ n.out = m.out + c.orig
        /\ n.total = m.total + Total(c) /\ n.failed = m.failed + Failed(c)
    BY <1>2, <2>1 DEF AddSource, Total
  <2> HIDE DEF n
  <2>2. CASE ip = c.src /\ ip # c.dst
    <3>1. devices'[ip] = n /\ ip \in LocalEnds(c)
      BY <1>1, <1>7, <1>8, <2>2 DEF m, n
    <3> QED
      BY <1>2, <2>1, <2>2, <2>5, <3>1 DEF m, Total
  <2>6. CASE ip = c.src /\ ip = c.dst
    <3>1. ip \in LocalEnds(c) /\ c.src # Unset
      BY <1>7, <1>8, <2>6 DEF LocalEnds
    <3>2. devices'[ip] = AddDestination(n, c)
      BY <1>1, <1>7, <2>6, <3>1 DEF m, n
    <3>3. /\ AddDestination(n, c) \in [in : Nat, out : Nat, total : Nat, failed : Nat]
          /\ AddDestination(n, c).in = n.in + c.orig
          /\ AddDestination(n, c).out = n.out + c.resp
          /\ AddDestination(n, c).total = n.total + Total(c)
          /\ AddDestination(n, c).failed = n.failed
      BY <1>2, <2>5, DestinationForm
    <3> QED
      BY <1>2, <2>1, <2>5, <2>6, <3>1, <3>2, <3>3 DEF m, Total
  <2>3. CASE ip = c.dst /\ c.src # Unset /\ ip # c.src
    <3>1. devices'[ip] = AddDestination(m, c) /\ ip \in LocalEnds(c)
      BY <1>1, <1>7, <1>8, <2>3 DEF m
    <3>2. /\ AddDestination(m, c) \in [in : Nat, out : Nat, total : Nat, failed : Nat]
          /\ AddDestination(m, c).in = m.in + c.orig
          /\ AddDestination(m, c).out = m.out + c.resp
          /\ AddDestination(m, c).total = m.total + Total(c)
          /\ AddDestination(m, c).failed = m.failed
      BY <1>2, <2>1, DestinationForm
    <3> QED
      BY <1>2, <2>1, <2>3, <3>1, <3>2 DEF m, Total
  <2>4. CASE ~(ip = c.dst /\ c.src # Unset) /\ ip # c.src
    <3>1. devices'[ip] = m /\ ip \notin LocalEnds(c)
      BY <1>1, <1>7, <1>8, <2>4 DEF m
    <3> QED
      BY <1>2, <2>1, <2>4, <3>1 DEF m
  <2> QED
    BY <2>2, <2>3, <2>4, <2>6
<1> QED
  BY <1>6, <1>7, <1>9
-----------------------------------------------------------------------------
(* The dictionaries and totals have the types of their comments.           *)
LEMMA InitTypes == Init => TypeOK
  BY TrafficAssumption DEF Init, TypeOK, IsInjective, Range

LEMMA NextTypes == TypeOK /\ [Next]_vars => TypeOK'
<1> SUFFICES ASSUME TypeOK, [Next]_vars PROVE TypeOK'
  OBVIOUS
<1>1. ASSUME NEW c \in Connections, Row(c) PROVE TypeOK'
  <2>1. /\ c.src \in Addresses \cup {Unset} /\ c.dst \in Addresses \cup {Unset}
        /\ Total(c) \in Nat /\ Failed(c) \in {0, 1}
    BY ConnectionForm
  <2>2. rows \in 0 .. MaxRows /\ rows < MaxRows /\ rows' = rows + 1 /\ MaxRows \in Nat
    BY <1>1, TrafficAssumption DEF TypeOK, Row
  <2>3. /\ order' \in Seq(Locals) /\ IsInjective(order')
        /\ DOMAIN devices' = Range(order')
    BY <1>1, RowIsCounted DEF Row
  <2>4. \A ip \in DOMAIN devices' :
          devices'[ip] \in [in : Nat, out : Nat, total : Nat, failed : 0 .. rows']
    <3> SUFFICES ASSUME NEW ip \in DOMAIN devices'
                 PROVE  devices'[ip] \in [in : Nat, out : Nat, total : Nat, failed : 0 .. rows']
      OBVIOUS
    <3>1. /\ devices'[ip] \in [in : Nat, out : Nat, total : Nat, failed : Nat]
          /\ devices'[ip].failed
               = Before(ip).failed
                   + (IF ip = c.src /\ ip \in LocalEnds(c) THEN Failed(c) ELSE 0)
                   + (IF ip = c.dst /\ ip \in LocalEnds(c) THEN 0 ELSE 0)
      BY <1>1, RowIsCounted DEF Row
    <3>2. Before(ip).failed \in 0 .. rows
      BY <2>2 DEF TypeOK, Before, Fresh
    <3>3. devices'[ip].failed \in 0 .. rows'
      BY <2>1, <2>2, <3>1, <3>2
    <3> QED
      BY <3>1, <3>3
  <2>5. network' \in [active : {rows'}, failed : 0 .. rows', internal : Nat, external : Nat]
    <3>1. network \in [active : {rows}, failed : 0 .. rows, internal : Nat, external : Nat]
      BY DEF TypeOK
    <3> QED
      BY <1>1, <2>1, <2>2, <3>1 DEF Row, CountNetwork
  <2>6. /\ DOMAIN grouped' \subseteq Addresses \X Addresses
        /\ \A key \in DOMAIN grouped' : grouped'[key] \in [bytes : Nat, count : 1 .. rows']
    <3>1. /\ DOMAIN grouped \subseteq Addresses \X Addresses
          /\ \A key \in DOMAIN grouped : grouped[key] \in [bytes : Nat, count : 1 .. rows]
      BY DEF TypeOK
    <3>2. CASE ~IsOutbound(c)
      <4>1. grouped' = grouped
        BY <1>1, <3>2 DEF Row, GroupConnection
      <4> QED
        BY <2>2, <3>1, <4>1
    <3>3. CASE IsOutbound(c)
      <4> DEFINE key == <<c.src, c.dst>>
                 known == IF key \in DOMAIN grouped THEN grouped[key]
                          ELSE [bytes |-> 0, count |-> 0]
      <4>1. /\ DOMAIN grouped' = DOMAIN grouped \cup {key}
            /\ grouped'[key] = [bytes |-> known.bytes + Total(c), count |-> known.count + 1]
            /\ \A k \in DOMAIN grouped \ {key} : grouped'[k] = grouped[k]
        BY <1>1, <3>3 DEF Row, GroupConnection
      <4>2. key \in Addresses \X Addresses
        BY <2>1, <3>3 DEF IsOutbound, IsPrivate
      <4>3. known \in [bytes : Nat, count : 0 .. rows]
        BY <2>2, <3>1
      <4> HIDE DEF key, known
      <4>4. grouped'[key] \in [bytes : Nat, count : 1 .. rows']
        BY <2>1, <2>2, <4>1, <4>3
      <4> QED
        BY <2>2, <3>1, <4>1, <4>2, <4>4
    <3> QED
      BY <3>2, <3>3
  <2>7. outside' \in [bytes : Nat, failed : 0 .. rows', unowned : Nat]
    <3>1. outside \in [bytes : Nat, failed : 0 .. rows, unowned : Nat]
      BY DEF TypeOK
    <3> QED
      BY <1>1, <2>1, <2>2, <3>1 DEF Row
  <2>8. rows' \in 0 .. MaxRows
    BY <2>2
  <2> QED
    BY <2>3, <2>4, <2>5, <2>6, <2>7, <2>8 DEF TypeOK
<1>2. CASE UNCHANGED vars
  BY <1>2 DEF vars, TypeOK
<1> QED
  BY <1>1, <1>2 DEF Next

(* A device is in the dictionary exactly if it is in the order of          *)
(* insertion, once; what is kept of it and of the network are counts, no   *)
(* more failures than rows were read.                                      *)
THEOREM TrafficTypes == Spec => []TypeOK
<1> QED
  BY InitTypes, NextTypes, PTL DEF Spec
-----------------------------------------------------------------------------
(* The two calculators.                                                    *)

LEMMA DevicesAreFinite ==
  ASSUME TypeOK
  PROVE  /\ IsFiniteSet(DOMAIN devices)
         /\ Cardinality(DOMAIN devices) = Len(order)
         /\ DOMAIN order = 1 .. Len(order) /\ Len(order) \in Nat
<1>1. /\ order \in Seq(Locals) /\ IsInjective(order) /\ DOMAIN devices = Range(order)
  BY DEF TypeOK
<1>2. DOMAIN order = 1 .. Len(order) /\ Len(order) \in Nat
  BY <1>1
<1>3. order \in Bijection(1 .. Len(order), DOMAIN devices)
  BY <1>1, <1>2 DEF Bijection, Injection, Surjection, IsInjective, Range
<1>4. IsFiniteSet(1 .. Len(order)) /\ Cardinality(1 .. Len(order)) = Len(order)
  <2>1. 1 \in Int /\ Len(order) \in Int
    BY <1>2
  <2>2. /\ IsFiniteSet(1 .. Len(order))
        /\ Cardinality(1 .. Len(order)) = IF 1 > Len(order) THEN 0 ELSE Len(order) - 1 + 1
    BY <2>1, FS_Interval
  <2> QED
    BY <1>2, <2>2
<1>5. ExistsBijection(1 .. Len(order), DOMAIN devices)
  BY <1>3 DEF ExistsBijection
<1>6. IsFiniteSet(DOMAIN devices) /\ Cardinality(DOMAIN devices) = Cardinality(1 .. Len(order))
  BY <1>4, <1>5, FS_Bijection
<1> QED
  BY <1>2, <1>4, <1>6

(* What a row adds to the sums over all devices. *)
LEMMA RowIsSummed ==
  ASSUME TypeOK, NEW c \in Connections, CountDevices(c)
  PROVE  /\ SumFunction(Totals) \in Int /\ SumFunction(Failures) \in Int
         /\ SumFunction(Totals')
              = SumFunction(Totals) + (IF c.src \in LocalEnds(c) THEN Total(c) ELSE 0)
                                    + (IF c.dst \in LocalEnds(c) THEN Total(c) ELSE 0)
         /\ SumFunction(Failures')
              = SumFunction(Failures) + (IF c.src \in LocalEnds(c) THEN Failed(c) ELSE 0)
<1>1. /\ DOMAIN Totals = DOMAIN devices /\ DOMAIN Failures = DOMAIN devices
      /\ DOMAIN Totals' = DOMAIN devices' /\ DOMAIN Failures' = DOMAIN devices'
      /\ DOMAIN devices' = DOMAIN devices \cup LocalEnds(c)
  BY RowIsCounted DEF Totals, Failures
<1>2. /\ \A ip \in DOMAIN devices : /\ Totals[ip] = devices[ip].total
                                    /\ Failures[ip] = devices[ip].failed
      /\ \A ip \in DOMAIN devices' : /\ Totals'[ip] = devices'[ip].total
                                     /\ Failures'[ip] = devices'[ip].failed
  BY DEF Totals, Failures
<1>4. \A ip \in DOMAIN devices : Totals[ip] \in Nat /\ Failures[ip] \in Nat
  BY <1>2 DEF TypeOK
<1>5. IsFiniteSet(DOMAIN devices)
  BY DevicesAreFinite
<1>6. LocalEnds(c) \subseteq {c.src, c.dst} /\ Total(c) \in Int /\ Failed(c) \in Int
  BY ConnectionForm DEF LocalEnds
<1>7. \A ip \in DOMAIN devices' :
        /\ Before(ip).total = IF ip \in DOMAIN devices THEN Totals[ip] ELSE 0
        /\ Before(ip).failed = IF ip \in DOMAIN devices THEN Failures[ip] ELSE 0
  BY <1>2 DEF Before, Fresh
<1>8. \A ip \in DOMAIN Totals' :
        Totals'[ip] = (IF ip \in DOMAIN Totals THEN Totals[ip] ELSE 0)
                        + (IF ip = c.src /\ ip \in LocalEnds(c) THEN Total(c) ELSE 0)
                        + (IF ip = c.dst /\ ip \in LocalEnds(c) THEN Total(c) ELSE 0)
  BY <1>1, <1>2, <1>7, RowIsCounted
<1>9. \A ip \in DOMAIN Failures' :
        Failures'[ip] = (IF ip \in DOMAIN Failures THEN Failures[ip] ELSE 0)
                          + (IF ip = c.src /\ ip \in LocalEnds(c) THEN Failed(c) ELSE 0)
                          + (IF ip = c.dst /\ ip \in LocalEnds(c) THEN 0 ELSE 0)
  BY <1>1, <1>2, <1>7, RowIsCounted
<1> HIDE DEF Totals, Failures
<1>10. SumFunction(Totals')
         = SumFunction(Totals) + (IF c.src \in LocalEnds(c) THEN Total(c) ELSE 0)
                               + (IF c.dst \in LocalEnds(c) THEN Total(c) ELSE 0)
  <2> DEFINE f == Totals
             g == Totals'
             D == Total(c)
             E == LocalEnds(c)
  <2>1. \A ip \in DOMAIN f : f[ip] \in Int
    BY <1>1, <1>4
  <2>2. IsFiniteSet(DOMAIN f) /\ DOMAIN g = DOMAIN f \cup E
    BY <1>1, <1>5
  <2>3. E \subseteq {c.src, c.dst} /\ D \in Int
    BY <1>6
  <2>4. \A ip \in DOMAIN g : g[ip] = (IF ip \in DOMAIN f THEN f[ip] ELSE 0)
                                      + (IF ip = c.src /\ ip \in E THEN D ELSE 0)
                                      + (IF ip = c.dst /\ ip \in E THEN D ELSE 0)
    BY <1>8
  <2> HIDE DEF f, g, D, E
  <2>5. BothGrew(f, g, c.src, c.dst, E, D, D)
    BY <2>1, <2>2, <2>3, <2>4 DEF BothGrew
  <2>6. SumFunction(g) = SumFunction(f) + (IF c.src \in E THEN D ELSE 0)
                                        + (IF c.dst \in E THEN D ELSE 0)
    BY <2>5, SumOfBothGrown
  <2> QED
    BY <2>6 DEF f, g, D, E
<1>11. SumFunction(Failures')
         = SumFunction(Failures) + (IF c.src \in LocalEnds(c) THEN Failed(c) ELSE 0)
                                 + (IF c.dst \in LocalEnds(c) THEN 0 ELSE 0)
  <2> DEFINE f == Failures
             g == Failures'
             D == Failed(c)
             E == LocalEnds(c)
  <2>1. \A ip \in DOMAIN f : f[ip] \in Int
    BY <1>1, <1>4
  <2>2. IsFiniteSet(DOMAIN f) /\ DOMAIN g = DOMAIN f \cup E
    BY <1>1, <1>5
  <2>3. E \subseteq {c.src, c.dst} /\ D \in Int /\ 0 \in Int
    BY <1>6
  <2>4. \A ip \in DOMAIN g : g[ip] = (IF ip \in DOMAIN f THEN f[ip] ELSE 0)
                                      + (IF ip = c.src /\ ip \in E THEN D ELSE 0)
                                      + (IF ip = c.dst /\ ip \in E THEN 0 ELSE 0)
    BY <1>9
  <2> HIDE DEF f, g, D, E
  <2>5. BothGrew(f, g, c.src, c.dst, E, D, 0)
    BY <2>1, <2>2, <2>3, <2>4 DEF BothGrew
  <2>6. SumFunction(g) = SumFunction(f) + (IF c.src \in E THEN D ELSE 0)
                                        + (IF c.dst \in E THEN 0 ELSE 0)
    BY <2>5, SumOfBothGrown
  <2> QED
    BY <2>6 DEF f, g, D, E
<1>12. SumFunction(Totals) \in Int /\ SumFunction(Failures) \in Int
  BY <1>1, <1>4, <1>5, SumWithout DEF SumFunction
<1> QED
  BY <1>6, <1>10, <1>11, <1>12

LEMMA InitTotals == Init => TotalsAreConserved
<1> SUFFICES ASSUME Init PROVE TotalsAreConserved
  OBVIOUS
<1>1. DOMAIN Totals = {} /\ DOMAIN Failures = {} /\ DOMAIN devices = {}
  BY DEF Init, Totals, Failures
<1>2. SumFunction(Totals) = 0 /\ SumFunction(Failures) = 0
  BY <1>1, SumRecursion, FS_EmptySet DEF SumFunction
<1> QED
  BY <1>1, <1>2 DEF Init, TotalsAreConserved

LEMMA NextTotals == TypeOK /\ TotalsAreConserved /\ [Next]_vars => TotalsAreConserved'
<1> SUFFICES ASSUME TypeOK, TotalsAreConserved, [Next]_vars PROVE TotalsAreConserved'
  OBVIOUS
<1>1. ASSUME NEW c \in Connections, Row(c) PROVE TotalsAreConserved'
  <2> DEFINE T == Total(c)
             F == Failed(c)
             s == c.src \in LocalEnds(c)
             d == c.dst \in LocalEnds(c)
  <2>1. T \in Nat /\ F \in Nat
    BY ConnectionForm
  <2>2. /\ SumFunction(Totals) \in Int /\ SumFunction(Failures) \in Int
        /\ SumFunction(Totals')
             = SumFunction(Totals) + (IF s THEN T ELSE 0) + (IF d THEN T ELSE 0)
        /\ SumFunction(Failures') = SumFunction(Failures) + (IF s THEN F ELSE 0)
    BY <1>1, RowIsSummed DEF Row
  <2>3. /\ IsLocal(c.src) <=> s
        /\ IsLocal(c.src) => (IsLocal(c.dst) <=> d)
        /\ d => c.src # Unset
        /\ LocalEnds(c) = {} <=> ~s /\ ~d
    BY DEF LocalEnds, IsLocal, IsPrivate
  <2>4. /\ network.internal \in Nat /\ network.external \in Nat /\ network.failed \in Int
        /\ outside.bytes \in Nat /\ outside.failed \in Int
    BY DEF TypeOK
  <2>5. /\ network'.internal = network.internal + (IF s /\ d THEN T ELSE 0)
        /\ network'.external = network.external + (IF s /\ d THEN 0 ELSE T)
        /\ network'.failed = network.failed + F
    BY <1>1, <2>3 DEF Row, CountNetwork
  <2>6. /\ outside'.bytes = outside.bytes + (IF ~s /\ ~d THEN T ELSE 0)
        /\ outside'.failed = outside.failed + (IF s THEN 0 ELSE F)
    BY <1>1, <2>3 DEF Row
  <2>7. /\ SumFunction(Totals)
             = 2 * network.internal + network.external - outside.bytes
        /\ network.failed = SumFunction(Failures) + outside.failed
        /\ \A ip \in DOMAIN devices :
             devices[ip].total = devices[ip].in + devices[ip].out
    BY DEF TotalsAreConserved
  <2> HIDE DEF T, F, s, d
  <2>8. SumFunction(Totals') = 2 * network'.internal + network'.external - outside'.bytes
    BY <2>1, <2>2, <2>4, <2>5, <2>6, <2>7
  <2>9. network'.failed = SumFunction(Failures') + outside'.failed
    BY <2>1, <2>2, <2>4, <2>5, <2>6, <2>7
  <2>10. ASSUME NEW ip \in DOMAIN devices'
         PROVE  devices'[ip].total = devices'[ip].in + devices'[ip].out
    <3>1. /\ devices'[ip] \in [in : Nat, out : Nat, total : Nat, failed : Nat]
          /\ devices'[ip].in + devices'[ip].out - devices'[ip].total
               = Before(ip).in + Before(ip).out - Before(ip).total
      BY <1>1, RowIsCounted DEF Row
    <3>2. Before(ip).in + Before(ip).out - Before(ip).total = 0
      <4>1. CASE ip \in DOMAIN devices
        <5>1. Before(ip) = devices[ip] /\ devices[ip].in \in Nat /\ devices[ip].out \in Nat
          <6>1. devices[ip] \in [in : Nat, out : Nat, total : Nat, failed : 0 .. rows]
            BY <4>1 DEF TypeOK
          <6> QED
            BY <4>1, <6>1 DEF Before
        <5>2. devices[ip].total = devices[ip].in + devices[ip].out
          BY <4>1, <2>7
        <5> QED
          BY <5>1, <5>2
      <4>2. CASE ip \notin DOMAIN devices
        BY <4>2 DEF Before, Fresh
      <4> QED
        BY <4>1, <4>2
    <3> QED
      BY <3>1, <3>2
  <2> QED
    BY <2>8, <2>9, <2>10 DEF TotalsAreConserved
<1>2. CASE UNCHANGED vars
  BY <1>2 DEF vars, TotalsAreConserved, Totals, Failures
<1> QED
  BY <1>1, <1>2 DEF Next

(* Over logs of any length, the totals of the devices and of the network   *)
(* account for the same bytes, once or twice as they should, and for the   *)
(* same failures.                                                          *)
THEOREM TotalsAddUp == Spec => []TotalsAreConserved
<1>1. Init => TypeOK /\ TotalsAreConserved
  BY InitTypes, InitTotals
<1>2. TypeOK /\ TotalsAreConserved /\ [Next]_vars => (TypeOK /\ TotalsAreConserved)'
  BY NextTypes, NextTotals
<1> QED
  BY <1>1, <1>2, PTL DEF Spec
-----------------------------------------------------------------------------
(* The connections.                                                        *)

(* The bytes grouped under some of the keys. *)
Portion(keys) ==
  SumFunction([key \in DOMAIN grouped \cap keys |-> grouped[key].bytes])

FarKeys == {key \in Addresses \X Addresses : ~IsLocal(key[2])}
KeysOf(ip) == {key \in Addresses \X Addresses : key[1] = ip}

(* What is stored of a connection is of a device that was seen, and never  *)
(* more than was seen of it: for all devices, not the known ones alone.    *)
ConnectionsFit ==
  /\ IsFiniteSet(DOMAIN grouped)
  /\ \A key \in DOMAIN grouped : key[1] \in DOMAIN devices
  /\ \A ip \in DOMAIN devices : Portion(KeysOf(ip)) <= devices[ip].total
  /\ Portion(FarKeys) + outside.unowned = network.external

LEMMA PortionsAreNumbers ==
  ASSUME TypeOK, IsFiniteSet(DOMAIN grouped), NEW keys
  PROVE  Portion(keys) \in Int
<1> DEFINE f == [key \in DOMAIN grouped \cap keys |-> grouped[key].bytes]
<1>1. IsFiniteSet(DOMAIN f)
  BY FS_Subset
<1>2. \A key \in DOMAIN f : f[key] \in Int
  BY DEF TypeOK
<1> HIDE DEF f
<1>3. SumFunction(f) \in Int
  BY <1>1, <1>2, SumWithout DEF SumFunction
<1> QED
  BY <1>3 DEF Portion, f

LEMMA NoPortion ==
  ASSUME NEW keys, DOMAIN grouped \cap keys = {}
  PROVE  Portion(keys) = 0
<1> DEFINE f == [key \in DOMAIN grouped \cap keys |-> grouped[key].bytes]
<1>1. DOMAIN f = {}
  OBVIOUS
<1> HIDE DEF f
<1>2. SumFunction(f) = 0
  BY <1>1, SumRecursion, FS_EmptySet DEF SumFunction
<1> QED
  BY <1>2 DEF Portion, f

(* What a row adds to the portions. *)
LEMMA RowIsGrouped ==
  ASSUME TypeOK, IsFiniteSet(DOMAIN grouped),
         NEW c \in Connections, GroupConnection(c), NEW keys
  PROVE  /\ IsFiniteSet(DOMAIN grouped')
         /\ DOMAIN grouped'
              = DOMAIN grouped \cup (IF IsOutbound(c) THEN {<<c.src, c.dst>>} ELSE {})
         /\ Portion(keys)'
              = Portion(keys) + (IF IsOutbound(c) /\ <<c.src, c.dst>> \in keys
                                   THEN Total(c) ELSE 0)
<1>1. Portion(keys) \in Int
  BY PortionsAreNumbers
<1>2. CASE ~IsOutbound(c)
  <2>1. grouped' = grouped
    BY <1>2 DEF GroupConnection
  <2>2. Portion(keys)' = Portion(keys)
    BY <2>1 DEF Portion
  <2> QED
    BY <1>1, <1>2, <2>1, <2>2
<1>3. CASE IsOutbound(c)
  <2> DEFINE key == <<c.src, c.dst>>
             known == IF key \in DOMAIN grouped THEN grouped[key]
                      ELSE [bytes |-> 0, count |-> 0]
             f == [k \in DOMAIN grouped \cap keys |-> grouped[k].bytes]
             g == [k \in DOMAIN grouped' \cap keys |-> grouped'[k].bytes]
  <2>1. /\ DOMAIN grouped' = DOMAIN grouped \cup {key}
        /\ grouped'[key].bytes = known.bytes + Total(c)
        /\ \A k \in DOMAIN grouped \ {key} : grouped'[k] = grouped[k]
    BY <1>3 DEF GroupConnection
  <2>2. known.bytes = IF key \in DOMAIN grouped THEN grouped[key].bytes ELSE 0
    OBVIOUS
  <2>3. IsFiniteSet(DOMAIN grouped')
    BY <2>1, FS_AddElement
  <2>4. /\ DOMAIN f = DOMAIN grouped \cap keys
        /\ DOMAIN g = DOMAIN grouped' \cap keys
        /\ \A k \in DOMAIN f : f[k] = grouped[k].bytes
        /\ \A k \in DOMAIN g : g[k] = grouped'[k].bytes
    OBVIOUS
  <2>5. Portion(keys) = SumFunction(f) /\ Portion(keys)' = SumFunction(g)
    BY DEF Portion
  <2>6. \A k \in DOMAIN f : f[k] \in Int
    BY DEF TypeOK
  <2>7. IsFiniteSet(DOMAIN f)
    BY FS_Subset
  <2>8. Total(c) \in Int
    BY ConnectionForm
  <2> HIDE DEF key, known, f, g
  <2>9. CASE key \in keys
    <3>1. DOMAIN g = DOMAIN f \cup {key}
      BY <2>1, <2>4, <2>9
    <3>2. \A k \in DOMAIN f \ {key} : g[k] = f[k]
      BY <2>1, <2>4
    <3>3. g[key] = (IF key \in DOMAIN f THEN f[key] ELSE 0) + Total(c)
      BY <2>1, <2>2, <2>4, <2>9, <3>1
    <3>4. SumFunction(g) = SumFunction(f) + Total(c)
      BY <2>6, <2>7, <2>8, <3>1, <3>2, <3>3, SumOfGrown
    <3> QED
      BY <1>3, <2>1, <2>3, <2>5, <2>9, <3>4 DEF key
  <2>10. CASE key \notin keys
    <3>1. DOMAIN g = DOMAIN f /\ \A k \in DOMAIN f : g[k] = f[k]
      BY <2>1, <2>4, <2>10
    <3>2. SumFunctionOnSet(g, DOMAIN f) = SumFunctionOnSet(f, DOMAIN f)
      BY <2>7, <3>1, SumOfAgreeing
    <3> QED
      BY <1>1, <1>3, <2>1, <2>3, <2>5, <2>10, <3>1, <3>2 DEF SumFunction, key
  <2> QED
    BY <2>9, <2>10
<1> QED
  BY <1>2, <1>3

LEMMA InitConnections == Init => ConnectionsFit
<1> SUFFICES ASSUME Init PROVE ConnectionsFit
  OBVIOUS
<1>1. DOMAIN grouped = {} /\ DOMAIN devices = {}
  BY DEF Init
<1>2. Portion(FarKeys) = 0
  BY <1>1, NoPortion
<1>3. IsFiniteSet(DOMAIN grouped)
  BY <1>1, FS_EmptySet
<1> QED
  BY <1>1, <1>2, <1>3 DEF Init, ConnectionsFit

LEMMA NextConnections == TypeOK /\ ConnectionsFit /\ [Next]_vars => ConnectionsFit'
<1> SUFFICES ASSUME TypeOK, ConnectionsFit, [Next]_vars PROVE ConnectionsFit'
  OBVIOUS
<1>1. ASSUME NEW c \in Connections, Row(c) PROVE ConnectionsFit'
  <2> DEFINE key == <<c.src, c.dst>>
  <2>1. /\ CountDevices(c) /\ CountNetwork(c) /\ GroupConnection(c)
        /\ outside' =
             [bytes |-> outside.bytes + IF LocalEnds(c) = {} THEN Total(c) ELSE 0,
              failed |-> outside.failed + IF IsLocal(c.src) THEN 0 ELSE Failed(c),
              unowned |-> outside.unowned
                + IF (IsLocal(c.src) /\ IsLocal(c.dst)) \/ (IsPrivate(c.src) /\ c.dst # Unset)
                    THEN 0 ELSE Total(c)]
    BY <1>1 DEF Row
  <2>2. /\ IsFiniteSet(DOMAIN grouped)
        /\ \A k \in DOMAIN grouped : k[1] \in DOMAIN devices
        /\ \A ip \in DOMAIN devices : Portion(KeysOf(ip)) <= devices[ip].total
        /\ Portion(FarKeys) + outside.unowned = network.external
    BY DEF ConnectionsFit
  <2>3. /\ Total(c) \in Nat
        /\ c.src \in Addresses \cup {Unset} /\ c.dst \in Addresses \cup {Unset}
    BY ConnectionForm
  <2>4. /\ IsFiniteSet(DOMAIN grouped')
        /\ DOMAIN grouped' = DOMAIN grouped \cup (IF IsOutbound(c) THEN {key} ELSE {})
    BY <2>1, <2>2, RowIsGrouped
  <2>5. IsOutbound(c) => c.src \in LocalEnds(c) /\ key \in Addresses \X Addresses
    BY <2>3 DEF IsOutbound, IsLocal, IsPrivate, LocalEnds
  <2>6. DOMAIN devices' = DOMAIN devices \cup LocalEnds(c)
    BY <1>1, <2>1, RowIsCounted
  <2>7. \A k \in DOMAIN grouped' : k[1] \in DOMAIN devices'
    BY <2>2, <2>4, <2>5, <2>6
  <2>8. ASSUME NEW ip \in DOMAIN devices'
        PROVE  Portion(KeysOf(ip))' <= devices'[ip].total
    <3>1. Portion(KeysOf(ip)) \in Int
      BY <2>2, PortionsAreNumbers
    <3>2. Portion(KeysOf(ip)) <= Before(ip).total
      <4>1. CASE ip \in DOMAIN devices
        BY <2>2, <4>1 DEF Before
      <4>2. CASE ip \notin DOMAIN devices
        <5>1. DOMAIN grouped \cap KeysOf(ip) = {}
          BY <2>2, <4>2 DEF KeysOf
        <5>2. Portion(KeysOf(ip)) = 0
          BY <5>1, NoPortion
        <5> QED
          BY <4>2, <5>2 DEF Before, Fresh
      <4> QED
        BY <4>1, <4>2
    <3>3. Before(ip).total \in Nat
      BY DEF Before, Fresh, TypeOK
    <3>4. devices'[ip].total
            = Before(ip).total
                + (IF ip = c.src /\ ip \in LocalEnds(c) THEN Total(c) ELSE 0)
                + (IF ip = c.dst /\ ip \in LocalEnds(c) THEN Total(c) ELSE 0)
      BY <1>1, <2>1, RowIsCounted
    <3>5. IsOutbound(c) /\ key \in KeysOf(ip) => ip = c.src /\ ip \in LocalEnds(c)
      BY <2>5 DEF KeysOf
    <3>6. ASSUME NEW q, q = KeysOf(ip)
          PROVE  Portion(q)' = Portion(q) + (IF IsOutbound(c) /\ key \in q THEN Total(c) ELSE 0)
      BY <2>1, <2>2, RowIsGrouped
    <3> QED
      BY <2>3, <3>1, <3>2, <3>3, <3>4, <3>5, <3>6
  <2>9. Portion(FarKeys)' + outside'.unowned = network'.external
    <3>1. Portion(FarKeys) \in Int /\ outside.unowned \in Nat /\ network.external \in Nat
      BY <2>2, PortionsAreNumbers DEF TypeOK
    <3>2. Portion(FarKeys)'
            = Portion(FarKeys) + (IF IsOutbound(c) /\ key \in FarKeys THEN Total(c) ELSE 0)
      BY <2>1, <2>2, RowIsGrouped
    <3>3. IsOutbound(c) => (key \in FarKeys <=> ~IsLocal(c.dst))
      BY <2>5 DEF FarKeys
    <3>4. outside'.unowned
            = outside.unowned
                + (IF (IsLocal(c.src) /\ IsLocal(c.dst)) \/ (IsPrivate(c.src) /\ c.dst # Unset)
                     THEN 0 ELSE Total(c))
      BY <2>1
    <3>5. network'.external
            = network.external + (IF IsLocal(c.src) /\ IsLocal(c.dst) THEN 0 ELSE Total(c))
      BY <2>1 DEF CountNetwork
    <3>6. /\ IsOutbound(c) <=> IsPrivate(c.src) /\ c.dst # Unset /\ ~IsPrivate(c.dst)
          /\ IsPrivate(c.src) => IsLocal(c.src)
          /\ IsPrivate(c.dst) => IsLocal(c.dst)
          /\ IsLocal(c.dst) => c.dst # Unset
      BY DEF IsOutbound, IsLocal, IsPrivate
    <3> QED
      BY <2>2, <2>3, <3>1, <3>2, <3>3, <3>4, <3>5, <3>6
  <2> QED
    BY <2>4, <2>7, <2>8, <2>9 DEF ConnectionsFit
<1>2. CASE UNCHANGED vars
  <2>1. UNCHANGED <<grouped, devices, outside, network>>
    BY <1>2 DEF vars
  <2> QED
    BY <2>1 DEF ConnectionsFit, Portion
<1> QED
  BY <1>1, <1>2 DEF Next

LEMMA FitIsConserved == TypeOK /\ ConnectionsFit => ConnectionsAreConserved
<1> SUFFICES ASSUME TypeOK, ConnectionsFit PROVE ConnectionsAreConserved
  OBVIOUS
<1>1. DOMAIN grouped \subseteq Addresses \X Addresses
  BY DEF TypeOK
<1>2. {key \in DOMAIN grouped : ~IsLocal(key[2])} = DOMAIN grouped \cap FarKeys
  BY <1>1 DEF FarKeys
<1>3. \A ip \in Known : {key \in RecentConnections : key[1] = ip}
                          = DOMAIN grouped \cap KeysOf(ip)
  BY <1>1 DEF RecentConnections, KeysOf
<1>4. \A ip \in {key[1] : key \in RecentConnections} : ip \in Known /\ ip \in DOMAIN devices
  BY DEF RecentConnections, ConnectionsFit
<1>5. SumFunction([key \in {k \in DOMAIN grouped : ~IsLocal(k[2])} |-> grouped[key].bytes])
        = Portion(FarKeys)
  BY <1>2 DEF Portion
<1>6. ASSUME NEW ip \in {key[1] : key \in RecentConnections}
      PROVE  /\ ip \in DOMAIN devices
             /\ SumFunction([key \in {k \in RecentConnections : k[1] = ip} |->
                               grouped[key].bytes]) <= devices[ip].total
  <2>1. ip \in Known /\ ip \in DOMAIN devices
    BY <1>4, <1>6
  <2>2. SumFunction([key \in {k \in RecentConnections : k[1] = ip} |-> grouped[key].bytes])
          = Portion(KeysOf(ip))
    BY <1>3, <2>1 DEF Portion
  <2> QED
    BY <2>1, <2>2 DEF ConnectionsFit
<1> QED
  BY <1>5, <1>6 DEF ConnectionsAreConserved, ConnectionsFit

(* The connections that are stored are the network's traffic with the      *)
(* outside, but for what came from there or has a link-local end, and of   *)
(* no device more than was counted for it.                                 *)
THEOREM ConnectionsAddUp == Spec => []ConnectionsAreConserved
<1>1. Init => TypeOK /\ ConnectionsFit
  BY InitTypes, InitConnections
<1>2. TypeOK /\ ConnectionsFit /\ [Next]_vars => (TypeOK /\ ConnectionsFit)'
  BY NextTypes, NextConnections
<1>3. TypeOK /\ ConnectionsFit => ConnectionsAreConserved
  BY FitIsConserved
<1> QED
  BY <1>1, <1>2, <1>3, PTL DEF Spec
-----------------------------------------------------------------------------
(* The ranking.                                                            *)

StrictlyOrders(R, n) ==
  /\ \A i \in 1 .. n : <<i, i>> \notin R
  /\ \A i, j \in 1 .. n : i # j => <<i, j>> \in R \/ <<j, i>> \in R
  /\ \A i, j, k \in 1 .. n : <<i, j>> \in R /\ <<j, k>> \in R => <<i, k>> \in R

Predecessors(R, n) == [i \in 1 .. n |-> Cardinality({j \in 1 .. n : <<j, i>> \in R})]

(* In a strict total order of n places, the numbers of predecessors are    *)
(* those below n, and grow along the order.                                *)
LEMMA PlacesAreRanked ==
  ASSUME NEW n \in Nat, NEW R, StrictlyOrders(R, n)
  PROVE  /\ \A i \in 1 .. n : Predecessors(R, n)[i] \in 0 .. n - 1
         /\ \A i, j \in 1 .. n :
              Predecessors(R, n)[i] < Predecessors(R, n)[j] <=> <<i, j>> \in R
         /\ \A m \in 0 .. n - 1 : \E i \in 1 .. n : Predecessors(R, n)[i] = m
<1> DEFINE count == Predecessors(R, n)
<1> DEFINE D == 1 .. n
           before(i) == {j \in D : <<j, i>> \in R}
<1>1. IsFiniteSet(D) /\ Cardinality(D) = n
  <2>1. 1 \in Int /\ n \in Int
    OBVIOUS
  <2>2. IsFiniteSet(D) /\ Cardinality(D) = IF 1 > n THEN 0 ELSE n - 1 + 1
    BY <2>1, FS_Interval
  <2> QED
    BY <2>2
<1>2. /\ \A i \in D : before(i) \in SUBSET D /\ count[i] = Cardinality(before(i))
      /\ count = [i \in D |-> count[i]]
  BY DEF Predecessors
<1> HIDE DEF count
<1>3. \A i \in D : IsFiniteSet(before(i)) /\ count[i] \in Nat
  <2> SUFFICES ASSUME NEW i \in D PROVE IsFiniteSet(before(i)) /\ count[i] \in Nat
    OBVIOUS
  <2>1. before(i) \in SUBSET D /\ count[i] = Cardinality(before(i))
    BY <1>2
  <2> HIDE DEF before, D
  <2>2. IsFiniteSet(before(i))
    BY <1>1, <2>1, FS_Subset
  <2> QED
    BY <2>1, <2>2, FS_CardinalityType
<1>4. \A i \in D : count[i] \in Nat
  BY <1>3
<1>5. \A i \in D : count[i] <= n - 1
  <2> SUFFICES ASSUME NEW i \in D PROVE count[i] <= n - 1
    OBVIOUS
  <2>1. before(i) \in SUBSET (D \ {i})
    BY DEF StrictlyOrders
  <2>2. IsFiniteSet(D \ {i}) /\ Cardinality(D \ {i}) = n - 1
    BY <1>1, FS_RemoveElement
  <2>3. Cardinality(before(i)) <= Cardinality(D \ {i})
    BY <2>1, <2>2, FS_Subset
  <2> QED
    BY <1>2, <2>2, <2>3
<1>6. ASSUME NEW i \in D, NEW j \in D, <<i, j>> \in R
      PROVE  count[i] < count[j]
  <2>1. before(i) \in SUBSET before(j) /\ i \in before(j) \ before(i)
    BY <1>6 DEF StrictlyOrders
  <2>2. IsFiniteSet(before(j)) /\ before(i) # before(j)
    BY <1>3, <2>1
  <2>3. /\ Cardinality(before(i)) <= Cardinality(before(j))
        /\ Cardinality(before(i)) # Cardinality(before(j))
    BY <2>1, <2>2, FS_Subset
  <2>4. /\ count[i] \in Nat /\ count[i] = Cardinality(before(i))
        /\ count[j] \in Nat /\ count[j] = Cardinality(before(j))
    BY <1>2, <1>3
  <2> HIDE DEF before
  <2> QED
    BY <2>3, <2>4
<1>7. \A i, j \in D : count[i] < count[j] => <<i, j>> \in R
  <2> SUFFICES ASSUME NEW i \in D, NEW j \in D, count[i] < count[j]
               PROVE  <<i, j>> \in R
    OBVIOUS
  <2>1. i # j /\ <<j, i>> \notin R
    BY <1>6, <1>4
  <2> QED
    BY <2>1 DEF StrictlyOrders
<1>8. \A i, j \in D : i # j => count[i] # count[j]
  <2> SUFFICES ASSUME NEW i \in D, NEW j \in D, i # j
               PROVE  count[i] # count[j]
    OBVIOUS
  <2>1. <<i, j>> \in R \/ <<j, i>> \in R
    BY DEF StrictlyOrders
  <2> HIDE DEF D, before
  <2>2. count[i] < count[j] \/ count[j] < count[i]
    BY <1>6, <2>1
  <2>3. count[i] \in Nat /\ count[j] \in Nat
    BY <1>4
  <2> QED
    BY <2>2, <2>3
<1>9. \A i \in D : count[i] \in 0 .. n - 1
  BY <1>5, <1>4
<1>10. IsFiniteSet(0 .. n - 1) /\ Cardinality(0 .. n - 1) = n
  <2>1. 0 \in Int /\ n - 1 \in Int
    OBVIOUS
  <2>2. /\ IsFiniteSet(0 .. n - 1)
        /\ Cardinality(0 .. n - 1) = IF 0 > n - 1 THEN 0 ELSE n - 1 - 0 + 1
    BY <2>1, FS_Interval
  <2> QED
    BY <2>2
<1>11. count \in Injection(D, 0 .. n - 1)
  <2>1. count \in [D -> 0 .. n - 1]
    BY <1>2, <1>9
  <2> QED
    BY <1>8, <2>1 DEF Injection, IsInjective
<1>12. count \in Surjection(D, 0 .. n - 1)
  BY <1>1, <1>10, <1>11, FS_Injection
<1>13. \A m \in 0 .. n - 1 : \E i \in D : count[i] = m
  BY <1>12 DEF Surjection
<1> QED
  BY <1>6, <1>7, <1>9, <1>13 DEF count

(* The devices, all of them, sorted by what they moved. *)
LEMMA SortedForm ==
  ASSUME TypeOK
  PROVE  /\ Len(order) \in Nat /\ Cardinality(DOMAIN devices) = Len(order)
         /\ Sorted \in Seq(DOMAIN devices) /\ Len(Sorted) = Len(order)
         /\ \A m, n \in 1 .. Len(order) : m < n =>
              /\ Sorted[m] # Sorted[n]
              /\ devices[Sorted[m]].total >= devices[Sorted[n]].total
         /\ \A ip \in DOMAIN devices : \E n \in 1 .. Len(order) : Sorted[n] = ip
<1> DEFINE L == Len(order)
           D == 1 .. L
           R == {p \in D \X D : Precedes(p[1], p[2])}
           count == Predecessors(R, L)
           preds(i) == Cardinality({j \in DOMAIN order : Precedes(j, i)})
           at(n) == CHOOSE i \in DOMAIN order : preds(i) = n - 1
<1>1. L \in Nat /\ DOMAIN order = D /\ Cardinality(DOMAIN devices) = L
  BY DevicesAreFinite
<1>2. /\ \A i \in D : order[i] \in DOMAIN devices
      /\ \A ip \in DOMAIN devices : \E i \in D : order[i] = ip
      /\ \A i, j \in D : order[i] = order[j] => i = j
  BY <1>1 DEF TypeOK, Range, IsInjective
<1>3. \A i \in D : devices[order[i]].total \in Nat
  BY <1>2 DEF TypeOK
<1>4. \A i, j \in D : <<i, j>> \in R <=> Precedes(i, j)
  OBVIOUS
<1>5. \A i \in D : <<i, i>> \notin R
  BY <1>3, <1>4 DEF Precedes
<1>6. \A i, j \in D : i # j => <<i, j>> \in R \/ <<j, i>> \in R
  BY <1>1, <1>3, <1>4 DEF Precedes
<1>7. \A i, j, k \in D : <<i, j>> \in R /\ <<j, k>> \in R => <<i, k>> \in R
  BY <1>1, <1>3, <1>4 DEF Precedes
<1>8. \A i \in D : {j \in D : <<j, i>> \in R} = {j \in D : Precedes(j, i)}
  BY <1>4
<1> HIDE DEF R
<1>9. \A i \in D : count[i] = preds(i)
  BY <1>1, <1>8 DEF Predecessors
<1>10. StrictlyOrders(R, L)
  BY <1>5, <1>6, <1>7 DEF StrictlyOrders
<1>11. /\ \A i \in D : count[i] \in 0 .. L - 1
       /\ \A i, j \in D : count[i] < count[j] <=> <<i, j>> \in R
       /\ \A m \in 0 .. L - 1 : \E i \in D : count[i] = m
  BY <1>1, <1>10, PlacesAreRanked
<1> HIDE DEF count
<1>12. \A n \in D : n - 1 \in 0 .. L - 1
  BY <1>1
<1>13. Sorted = [n \in DOMAIN order |-> order[at(n)]]
  BY DEF Sorted
<1> HIDE DEF preds
<1>14. \A n \in D : \E i \in DOMAIN order : preds(i) = n - 1
  BY <1>1, <1>9, <1>11, <1>12
<1>15. \A n \in D : at(n) \in D /\ count[at(n)] = n - 1
  BY <1>1, <1>9, <1>14
<1> HIDE DEF at
<1>16. Sorted \in [D -> DOMAIN devices]
  BY <1>1, <1>2, <1>13, <1>15
<1>17. Sorted \in Seq(DOMAIN devices) /\ Len(Sorted) = L
  BY <1>1, <1>16
<1>18. ASSUME NEW m \in D, NEW n \in D, m < n
       PROVE  /\ Sorted[m] # Sorted[n]
              /\ devices[Sorted[m]].total >= devices[Sorted[n]].total
  <2>1. count[at(m)] < count[at(n)]
    BY <1>1, <1>15, <1>18
  <2>2. at(m) \in D /\ at(n) \in D /\ Precedes(at(m), at(n)) /\ at(m) # at(n)
    BY <1>4, <1>5, <1>11, <1>15, <2>1
  <2>3. Sorted[m] = order[at(m)] /\ Sorted[n] = order[at(n)]
    BY <1>1, <1>13
  <2>4. order[at(m)] # order[at(n)]
    BY <1>2, <2>2
  <2>5. /\ devices[order[at(m)]].total \in Nat
        /\ devices[order[at(n)]].total \in Nat
    BY <1>3, <2>2
  <2>6. devices[order[at(m)]].total >= devices[order[at(n)]].total
    BY <2>2, <2>5 DEF Precedes
  <2> QED
    BY <2>3, <2>4, <2>6
<1>19. ASSUME NEW ip \in DOMAIN devices
       PROVE  \E n \in D : Sorted[n] = ip
  <2>1. PICK i \in D : order[i] = ip
    BY <1>2
  <2> DEFINE n == count[i] + 1
  <2>2. n \in D /\ n - 1 = count[i]
    BY <1>1, <1>11
  <2> HIDE DEF n
  <2>3. count[at(n)] = count[i] /\ at(n) \in D
    BY <1>15, <2>2
  <2>4. \A j, k \in D : count[j] = count[k] => j = k
    <3> SUFFICES ASSUME NEW j \in D, NEW k \in D, j # k
                 PROVE  count[j] # count[k]
      OBVIOUS
    <3>1. count[j] < count[k] \/ count[k] < count[j]
      BY <1>6, <1>11
    <3> QED
      BY <1>11, <3>1
  <2>5. at(n) = i
    BY <2>1, <2>3, <2>4
  <2> QED
    BY <1>1, <1>13, <2>1, <2>2, <2>5
<1> QED
  BY <1>1, <1>17, <1>18, <1>19

LEMMA TalkersForm ==
  ASSUME TypeOK, NEW k, k = IF Len(order) < TopN THEN Len(order) ELSE TopN
  PROVE  /\ k \in Nat /\ k <= Len(order)
         /\ DOMAIN TopTalkers = 1 .. k /\ Len(TopTalkers) = k
         /\ \A i \in 1 .. k : /\ TopTalkers[i].ip = Sorted[i]
                              /\ TopTalkers[i].total = devices[Sorted[i]].total
                              /\ TopTalkers[i].hog <=> IsHog(Sorted[i])
<1> DEFINE top == SubSeq(Sorted, 1, k)
           T == {TopTalkers[i] : i \in 1 .. k}
<1>1. /\ Sorted \in Seq(DOMAIN devices) /\ Len(Sorted) = Len(order)
      /\ Len(order) \in Nat
  BY SortedForm
<1>2. TopN \in Nat
  BY TrafficAssumption
<1>3. k \in Nat /\ k <= Len(order)
  BY <1>1, <1>2
<1>4. DOMAIN top = 1 .. k /\ \A i \in 1 .. k : top[i] = Sorted[i]
  BY <1>1, <1>3
<1>5. TopTalkers = [i \in DOMAIN top |->
        [ip |-> top[i], total |-> devices[top[i]].total, hog |-> IsHog(top[i])]]
  BY DEF TopTalkers
<1> HIDE DEF top
<1>6. DOMAIN TopTalkers = 1 .. k
  BY <1>4, <1>5
<1>7. \A i \in 1 .. k : /\ TopTalkers[i].ip = Sorted[i]
                        /\ TopTalkers[i].total = devices[Sorted[i]].total
                        /\ TopTalkers[i].hog <=> IsHog(Sorted[i])
  BY <1>4, <1>5
<1>8. TopTalkers \in [1 .. k -> T]
  BY <1>4, <1>5
<1> HIDE DEF T
<1>9. Len(TopTalkers) = k
  BY <1>3, <1>8
<1> QED
  BY <1>3, <1>6, <1>7, <1>9

(* Less than half of the devices consume more than twice the average. *)
LEMMA HogsAreFew ==
  ASSUME TypeOK, NEW hogs, hogs \subseteq DOMAIN devices, hogs # {},
         \A ip \in hogs : IsHog(ip)
  PROVE  2 * Cardinality(hogs) < Cardinality(DOMAIN devices)
<1> DEFINE N == Cardinality(DOMAIN devices)
           H == Cardinality(hogs)
           all == SumFunctionOnSet(Totals, DOMAIN devices)
           part == SumFunctionOnSet(Totals, hogs)
<1>1. DOMAIN Totals = DOMAIN devices /\ \A ip \in DOMAIN devices : Totals[ip] = devices[ip].total
  BY DEF Totals
<1>2. \A ip \in DOMAIN devices : Totals[ip] \in Nat
  BY <1>1 DEF TypeOK
<1>3. IsFiniteSet(DOMAIN devices) /\ IsFiniteSet(hogs)
  <2>1. IsFiniteSet(DOMAIN devices)
    BY DevicesAreFinite
  <2> QED
    BY <2>1, FS_Subset
<1>4. N \in Nat /\ H \in Nat
  BY <1>3, FS_CardinalityType
<1>5. H # 0
  BY <1>3, FS_EmptySet
<1>6. all \in Nat /\ part \in Nat /\ part <= all
  BY <1>2, <1>3, SumOfPart
<1>7. \A ip \in hogs : Totals[ip] \in Nat /\ Totals[ip] * N > 2 * all
  BY <1>1, <1>2 DEF IsHog, TotalOfAll, SumFunction
<1> HIDE DEF N, H, all, part
<1>8. 2 * all \in Nat
  BY <1>6
<1>9. part * N >= H * (2 * all + 1)
  <2>1. SumFunctionOnSet(Totals, hogs) * N >= Cardinality(hogs) * (2 * all + 1)
    BY <1>3, <1>4, <1>7, <1>8, SumAbove
  <2> QED
    BY <2>1 DEF part, H
<1>10. all * N >= part * N
  BY <1>4, <1>6
<1>11. H * (2 * all + 1) = all * (2 * H) + H
  BY <1>4, <1>6
<1>12. ASSUME N <= 2 * H
       PROVE  FALSE
  <2>1. all * N <= all * (2 * H)
    BY <1>4, <1>6, <1>12
  <2>2. all * N \in Int /\ part * N \in Int /\ all * (2 * H) \in Int
    BY <1>4, <1>6
  <2> QED
    BY <1>4, <1>5, <1>9, <1>10, <1>11, <2>1, <2>2
<1> QED
  BY <1>4, <1>12 DEF N, H

LEMMA TypesRankHogs == TypeOK => HogsHeadTheRanking
<1> SUFFICES ASSUME TypeOK PROVE HogsHeadTheRanking
  OBVIOUS
<1> DEFINE k == IF Len(order) < TopN THEN Len(order) ELSE TopN
           places == DOMAIN TopTalkers
           hogs == {i \in places : TopTalkers[i].hog}
<1>1. /\ k \in Nat /\ k <= Len(order)
      /\ DOMAIN TopTalkers = 1 .. k /\ Len(TopTalkers) = k
      /\ \A i \in 1 .. k : /\ TopTalkers[i].ip = Sorted[i]
                           /\ TopTalkers[i].total = devices[Sorted[i]].total
                           /\ TopTalkers[i].hog <=> IsHog(Sorted[i])
  BY TalkersForm
<1>2. /\ Len(order) \in Nat /\ Cardinality(DOMAIN devices) = Len(order)
      /\ Sorted \in Seq(DOMAIN devices) /\ Len(Sorted) = Len(order)
      /\ \A m, n \in 1 .. Len(order) : m < n =>
           /\ Sorted[m] # Sorted[n]
           /\ devices[Sorted[m]].total >= devices[Sorted[n]].total
      /\ \A ip \in DOMAIN devices : \E n \in 1 .. Len(order) : Sorted[n] = ip
  BY SortedForm
<1>3. places = 1 .. k
  BY <1>1
<1>4. \A i \in places : /\ i \in 1 .. Len(order)
                        /\ TopTalkers[i].ip = Sorted[i] /\ Sorted[i] \in DOMAIN devices
                        /\ TopTalkers[i].total = devices[Sorted[i]].total
                        /\ TopTalkers[i].hog <=> IsHog(Sorted[i])
                        /\ devices[Sorted[i]].total \in Nat
  <2> SUFFICES ASSUME NEW i \in places
               PROVE  /\ i \in 1 .. Len(order)
                      /\ TopTalkers[i].ip = Sorted[i] /\ Sorted[i] \in DOMAIN devices
                      /\ TopTalkers[i].total = devices[Sorted[i]].total
                      /\ TopTalkers[i].hog <=> IsHog(Sorted[i])
                      /\ devices[Sorted[i]].total \in Nat
    OBVIOUS
  <2>1. i \in 1 .. Len(order) /\ i \in 1 .. k
    BY <1>1, <1>2, <1>3
  <2>2. Sorted[i] \in DOMAIN devices
    BY <1>2, <2>1
  <2>3. devices[Sorted[i]].total \in Nat
    BY <2>2 DEF TypeOK
  <2> QED
    BY <1>1, <2>1, <2>2, <2>3
<1>5. k = TopN \/ k = Cardinality(DOMAIN devices)
  BY <1>2
<1> HIDE DEF k
<1>6. ASSUME NEW i \in places, NEW j \in places, i < j
      PROVE  /\ TopTalkers[i].ip # TopTalkers[j].ip
             /\ TopTalkers[i].total >= TopTalkers[j].total
             /\ j \in hogs => i \in hogs
  <2>1. /\ TopTalkers[i].ip # TopTalkers[j].ip
        /\ TopTalkers[i].total >= TopTalkers[j].total
    <3>1. /\ Sorted[i] # Sorted[j]
          /\ devices[Sorted[i]].total >= devices[Sorted[j]].total
      BY <1>2, <1>4, <1>6
    <3>2. /\ TopTalkers[i].ip = Sorted[i] /\ TopTalkers[j].ip = Sorted[j]
          /\ TopTalkers[i].total = devices[Sorted[i]].total
          /\ TopTalkers[j].total = devices[Sorted[j]].total
      BY <1>4
    <3> QED
      BY <3>1, <3>2
  <2>2. ASSUME j \in hogs PROVE i \in hogs
    <3> DEFINE N == Cardinality(DOMAIN devices)
               s == devices[Sorted[i]].total
               t == devices[Sorted[j]].total
               b == 2 * TotalOfAll
    <3>1. t * N > b
      BY <1>4, <2>2 DEF IsHog
    <3>2. s \in Nat /\ t \in Nat /\ N \in Nat /\ s >= t
      BY <1>2, <1>4, <2>1
    <3>3. b \in Int
      <4>1. /\ IsFiniteSet(DOMAIN devices) /\ DOMAIN Totals = DOMAIN devices
            /\ \A ip \in DOMAIN devices : Totals[ip] \in Int
        BY DevicesAreFinite DEF TypeOK, Totals
      <4>2. TotalOfAll \in Int
        BY <4>1, SumWithout DEF TotalOfAll, SumFunction
      <4> QED
        BY <4>2
    <3> HIDE DEF N, s, t, b
    <3>4. s * N >= t * N /\ s * N \in Int /\ t * N \in Int
      BY <3>2
    <3>5. s * N > b
      BY <3>1, <3>3, <3>4
    <3>6. IsHog(Sorted[i])
      BY <3>5 DEF IsHog, N, s, b
    <3> QED
      BY <1>4, <3>6
  <2> QED
    BY <2>1, <2>2
<1>7. ASSUME NEW ip \in DOMAIN devices \ {TopTalkers[i].ip : i \in places}, NEW i \in places
      PROVE  TopTalkers[i].total >= devices[ip].total
  <2>1. PICK n \in 1 .. Len(order) : Sorted[n] = ip
    BY <1>2
  <2>2. n \notin places
    BY <1>4, <2>1
  <2>3. i < n
    BY <1>1, <1>2, <1>3, <2>2
  <2> QED
    BY <1>2, <1>4, <2>1, <2>3
<1>8. ASSUME hogs # {}
      PROVE  2 * Cardinality(hogs) < Cardinality(DOMAIN devices)
  <2> DEFINE those == {Sorted[i] : i \in hogs}
             f == [i \in hogs |-> Sorted[i]]
  <2>1. IsFiniteSet(hogs)
    <3>1. 1 \in Int /\ k \in Int
      BY <1>1
    <3>2. IsFiniteSet(1 .. k)
      BY <3>1, FS_Interval
    <3>3. hogs \in SUBSET (1 .. k)
      BY <1>3
    <3> QED
      BY <3>2, <3>3, FS_Subset
  <2>2. \A i, j \in hogs : i # j => Sorted[i] # Sorted[j]
    <3> SUFFICES ASSUME NEW i \in hogs, NEW j \in hogs, i # j
                 PROVE  Sorted[i] # Sorted[j]
      OBVIOUS
    <3>1. i \in 1 .. Len(order) /\ j \in 1 .. Len(order)
      BY <1>4
    <3>2. i < j \/ j < i
      BY <3>1
    <3> QED
      BY <1>2, <3>1, <3>2
  <2>3. f \in Bijection(hogs, those)
    BY <2>2 DEF Bijection, Injection, Surjection, IsInjective
  <2>4. ExistsBijection(hogs, those)
    BY <2>3 DEF ExistsBijection
  <2> HIDE DEF those, f
  <2>5. Cardinality(those) = Cardinality(hogs)
    BY <2>1, <2>4, FS_Bijection
  <2>6. those \subseteq DOMAIN devices /\ those # {} /\ \A ip \in those : IsHog(ip)
    BY <1>4, <1>8 DEF those
  <2> QED
    BY <2>5, <2>6, HogsAreFew
<1> QED
  BY <1>1, <1>5, <1>6, <1>7, <1>8 DEF HogsHeadTheRanking

(* Of any number of devices, the ranking shows those that move most, in    *)
(* order and once each; the hogs come first, and are less than half of all *)
(* devices.                                                                *)
THEOREM HogsComeFirst == Spec => []HogsHeadTheRanking
<1>1. TypeOK => HogsHeadTheRanking
  BY TypesRankHogs
<1> QED
  BY <1>1, TrafficTypes, PTL
=============================================================================
