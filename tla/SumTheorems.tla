----------------------------- MODULE SumTheorems -----------------------------
(***************************************************************************)
(* The sums of the models (SumFunctionOnSet of the community modules) over *)
(* finite sets: that the recursion defines them at all, that it may take   *)
(* the elements in any order, and what follows for sums that change in one *)
(* element.  Induction is by least counterexamples: the library's          *)
(* induction theorems take an operator, these take a set.                  *)
(***************************************************************************)
EXTENDS Integers, FiniteSets, Functions, FiniteSetTheorems, WellFoundedInduction, TLAPS

\* The recursion of SumFunctionOnSet, on the subsets of S.
SumsOver(w, S, f) ==
  f = [s \in SUBSET S |-> IF s = {} THEN 0
                          ELSE LET x == CHOOSE x \in s : TRUE IN w[x] + f[s \ {x}]]
Sums(w, S) == CHOOSE f : SumsOver(w, S, f)

\* A sum is the recursive function the community modules define.
LEMMA SumIsRecursive ==
  ASSUME NEW w, NEW S PROVE SumFunctionOnSet(w, S) = Sums(w, S)[S]
  BY DEF SumFunctionOnSet, FoldFunctionOnSet, MapThenFoldSet, Sums, SumsOver

(***************************************************************************)
(* Induction.                                                              *)
(***************************************************************************)
\* A set of numbers that is not empty has a least one.
LEMMA LeastNumber ==
  ASSUME NEW B \in SUBSET Nat, B # {}
  PROVE  \E n \in B : \A m \in B : n <= m
<1> DEFINE R == OpToRel(<, Nat)
<1>1. PICK x \in B : \A y \in B : ~ (<<y, x>> \in R)
  <2> HIDE DEF R
  <2> QED BY NatLessThanWellFounded, WFMin DEF R
<1>2. \A y \in B : ~(y < x)
  BY <1>1 DEF OpToRel
<1> QED BY <1>2

\* A proper subset misses an element.
LEMMA ProperSubset ==
  ASSUME NEW T, NEW U \in SUBSET T, U # T PROVE \E y \in T : y \notin U
  OBVIOUS

\* A set of sets that holds every subset of S whose proper subsets it holds, holds S.
LEMMA SubsetInduction ==
  ASSUME NEW S, IsFiniteSet(S), NEW G,
         \A T \in SUBSET S : (\A U \in SUBSET T : U # T => U \in G) => T \in G
  PROVE  S \in G
<1> SUFFICES ASSUME S \notin G PROVE FALSE
  OBVIOUS
<1> DEFINE Bad == {T \in SUBSET S : T \notin G}
           B == {Cardinality(T) : T \in Bad}
<1>1. \A T \in Bad : IsFiniteSet(T) /\ Cardinality(T) \in Nat
  BY FS_Subset, FS_CardinalityType
<1>2. B \in SUBSET Nat /\ B # {}
  BY <1>1
<1>3. PICK n \in B : \A m \in B : n <= m
  <2> HIDE DEF B
  <2> QED BY <1>2, LeastNumber
<1>4. PICK T \in Bad : n = Cardinality(T)
  OBVIOUS
<1>5. ASSUME NEW U \in SUBSET T, U # T PROVE U \in G
  <2> SUFFICES ASSUME U \notin G PROVE FALSE
    OBVIOUS
  <2>1. U \in Bad /\ Cardinality(U) \in Nat /\ Cardinality(T) \in Nat
    BY <1>1
  <2>2. Cardinality(U) < Cardinality(T)
    <3>1. PICK y \in T : y \notin U
      BY <1>5, ProperSubset
    <3>2. Cardinality(T \ {y}) = Cardinality(T) - 1 /\ IsFiniteSet(T \ {y})
      BY <1>1, <3>1, FS_RemoveElement
    <3>3. Cardinality(U) <= Cardinality(T \ {y})
      <4>1. U \in SUBSET (T \ {y})
        BY <3>1
      <4> QED BY <3>2, <4>1, FS_Subset
    <3> QED BY <2>1, <3>2, <3>3
  <2> QED BY <1>3, <1>4, <2>1, <2>2
<1> QED BY <1>4, <1>5

\* The same, one element at a time.
LEMMA ElementInduction ==
  ASSUME NEW S, IsFiniteSet(S), NEW G, {} \in G,
         \A T \in SUBSET S, x \in S : x \notin T /\ T \in G => T \cup {x} \in G
  PROVE  S \in G
<1>1. ASSUME NEW T \in SUBSET S, \A U \in SUBSET T : U # T => U \in G
      PROVE  T \in G
  <2>1. CASE T # {}
    <3>1. PICK x \in T : TRUE
      BY <2>1
    <3>2. T \ {x} \in G /\ (T \ {x}) \cup {x} = T
      BY <1>1, <3>1
    <3> QED BY <3>1, <3>2
  <2> QED BY <2>1
<1> QED BY <1>1, SubsetInduction

(***************************************************************************)
(* The recursion has a solution, and only one.                             *)
(***************************************************************************)
\* The sums of the subsets of a set do not depend on the set they are recursed from.
LEMMA SumsAgree ==
  ASSUME NEW w, NEW S, IsFiniteSet(S), NEW T \in SUBSET S,
         NEW f, SumsOver(w, S, f), NEW g, SumsOver(w, T, g)
  PROVE  f[T] = g[T]
<1> DEFINE G == {U \in SUBSET T : f[U] = g[U]}
<1>1. ASSUME NEW U \in SUBSET T, \A V \in SUBSET U : V # U => V \in G
      PROVE  U \in G
  <2> DEFINE x == CHOOSE x \in U : TRUE
  <2>1. CASE U # {}
    <3>1. x \in U
      BY <2>1
    <3> HIDE DEF x
    <3>2. U \ {x} \in G
      BY <1>1, <3>1
    <3>3. f[U] = w[x] + f[U \ {x}] /\ g[U] = w[x] + g[U \ {x}]
      BY <2>1 DEF SumsOver, x
    <3> QED BY <3>2, <3>3
  <2>2. CASE U = {}
    BY <2>2 DEF SumsOver
  <2> QED BY <2>1, <2>2
<1>2. IsFiniteSet(T)
  BY FS_Subset
<1> HIDE DEF G
<1>3. T \in G
  BY <1>1, <1>2, SubsetInduction
<1> QED BY <1>3 DEF G

\* Over a finite set the recursive function satisfies its equation.
LEMMA SumsExist ==
  ASSUME NEW w, NEW S, IsFiniteSet(S)
  PROVE  SumsOver(w, S, Sums(w, S))
<1> DEFINE G == {T \in SUBSET S : \E f : SumsOver(w, T, f)}
<1>1. ASSUME NEW T \in SUBSET S, \A U \in SUBSET T : U # T => U \in G
      PROVE  T \in G
  <2> DEFINE x(U) == CHOOSE x \in U : TRUE
             part == [U \in SUBSET T |-> Sums(w, U)[U]]
             f == [U \in SUBSET T |-> IF U = {} THEN 0 ELSE w[x(U)] + part[U \ {x(U)}]]
  <2>1. ASSUME NEW U \in SUBSET T, U # T PROVE SumsOver(w, U, Sums(w, U))
    BY <1>1, <2>1 DEF Sums
  <2>2. ASSUME NEW U \in SUBSET T, U # T PROVE part[U] = f[U]
    <3>1. SumsOver(w, U, Sums(w, U)) /\ IsFiniteSet(U)
      BY <2>1, <2>2, FS_Subset
    <3>2. CASE U = {}
      BY <3>1, <3>2 DEF SumsOver
    <3>3. CASE U # {}
      <4>1. x(U) \in U
        BY <3>3
      <4>2. Sums(w, U)[U] = w[x(U)] + Sums(w, U)[U \ {x(U)}]
        BY <3>1, <3>3 DEF SumsOver
      <4> HIDE DEF x
      <4>3. U \ {x(U)} \in SUBSET T /\ U \ {x(U)} # T
        BY <2>2
      <4>4. SumsOver(w, U \ {x(U)}, Sums(w, U \ {x(U)}))
        BY <2>1, <4>3
      <4>5. Sums(w, U)[U \ {x(U)}] = Sums(w, U \ {x(U)})[U \ {x(U)}]
        BY <3>1, <4>4, SumsAgree
      <4>6. part[U \ {x(U)}] = Sums(w, U \ {x(U)})[U \ {x(U)}]
        BY <4>3
      <4> QED BY <3>3, <4>2, <4>5, <4>6
    <3> QED BY <3>2, <3>3
  <2>3. ASSUME NEW U \in SUBSET T, U # {} PROVE part[U \ {x(U)}] = f[U \ {x(U)}]
    <3>1. x(U) \in U
      BY <2>3
    <3> HIDE DEF x
    <3>2. U \ {x(U)} \in SUBSET T /\ U \ {x(U)} # T
      BY <3>1
    <3> QED BY <2>2, <3>2
  <2>4. f = [U \in SUBSET T |-> IF U = {} THEN 0 ELSE w[x(U)] + f[U \ {x(U)}]]
    <3>1. \A U \in SUBSET T :
            (IF U = {} THEN 0 ELSE w[x(U)] + part[U \ {x(U)}])
              = (IF U = {} THEN 0 ELSE w[x(U)] + f[U \ {x(U)}])
      <4> HIDE DEF f, x, part
      <4> QED BY <2>3
    <3> QED BY <3>1, Zenon
  <2>5. SumsOver(w, T, f)
    BY <2>4 DEF SumsOver
  <2> QED BY <2>5
<1> HIDE DEF G
<1>2. S \in G
  BY <1>1, SubsetInduction
<1> QED BY <1>2 DEF G, Sums

(***************************************************************************)
(* Sums.                                                                   *)
(***************************************************************************)
\* The sum over nothing is 0.
LEMMA SumEmpty == ASSUME NEW w PROVE SumFunctionOnSet(w, {}) = 0
<1>1. SumsOver(w, {}, Sums(w, {})) /\ {} \in SUBSET {}
  BY SumsExist, FS_EmptySet
<1>2. Sums(w, {})[{}] = 0
  BY <1>1 DEF SumsOver
<1> QED BY <1>2, SumIsRecursive

\* A sum is one of its terms and the sum of the others.
LEMMA SumChosen ==
  ASSUME NEW w, NEW S, IsFiniteSet(S), S # {}
  PROVE  \E x \in S : SumFunctionOnSet(w, S) = w[x] + SumFunctionOnSet(w, S \ {x})
<1> DEFINE x == CHOOSE x \in S : TRUE
<1>1. x \in S
  OBVIOUS
<1>2. Sums(w, S)[S] = w[x] + Sums(w, S)[S \ {x}]
  <2>1. SumsOver(w, S, Sums(w, S)) /\ S \in SUBSET S
    BY SumsExist
  <2> QED BY <2>1 DEF SumsOver
<1> HIDE DEF x
<1>3. IsFiniteSet(S \ {x})
  BY FS_RemoveElement
<1>4. Sums(w, S)[S \ {x}] = Sums(w, S \ {x})[S \ {x}]
  BY <1>3, SumsExist, SumsAgree
<1> QED BY <1>1, <1>2, <1>4, SumIsRecursive

\* A sum is an integer.
LEMMA SumType ==
  ASSUME NEW S, IsFiniteSet(S), NEW w, \A x \in S : w[x] \in Int
  PROVE  SumFunctionOnSet(w, S) \in Int
<1> DEFINE G == {T \in SUBSET S : SumFunctionOnSet(w, T) \in Int}
<1>1. ASSUME NEW T \in SUBSET S, \A U \in SUBSET T : U # T => U \in G
      PROVE  T \in G
  <2>1. CASE T # {}
    <3>1. IsFiniteSet(T)
      BY FS_Subset
    <3>2. PICK x \in T : SumFunctionOnSet(w, T) = w[x] + SumFunctionOnSet(w, T \ {x})
      BY <2>1, <3>1, SumChosen
    <3>3. T \ {x} \in G
      BY <1>1, <3>2
    <3> QED BY <3>2, <3>3
  <2>2. CASE T = {}
    BY <2>2, SumEmpty
  <2> QED BY <2>1, <2>2
<1> HIDE DEF G
<1>2. S \in G
  BY <1>1, SubsetInduction
<1> QED BY <1>2 DEF G

\* Any element may be taken first.
THEOREM SumRemove ==
  ASSUME NEW S, IsFiniteSet(S), NEW w, \A x \in S : w[x] \in Int, NEW y \in S
  PROVE  SumFunctionOnSet(w, S) = w[y] + SumFunctionOnSet(w, S \ {y})
<1> DEFINE G == {T \in SUBSET S :
                   \A x \in T : SumFunctionOnSet(w, T) = w[x] + SumFunctionOnSet(w, T \ {x})}
<1>1. ASSUME NEW T \in SUBSET S, \A U \in SUBSET T : U # T => U \in G
      PROVE  T \in G
  <2> SUFFICES ASSUME NEW x \in T
               PROVE  SumFunctionOnSet(w, T) = w[x] + SumFunctionOnSet(w, T \ {x})
    OBVIOUS
  <2>1. IsFiniteSet(T)
    BY FS_Subset
  <2>2. PICK z \in T : SumFunctionOnSet(w, T) = w[z] + SumFunctionOnSet(w, T \ {z})
    BY <2>1, SumChosen
  <2>3. CASE x # z
    <3>1. /\ T \ {z} \in G /\ x \in T \ {z}
          /\ T \ {x} \in G /\ z \in T \ {x}
      BY <1>1, <2>3
    <3>2. (T \ {z}) \ {x} = (T \ {x}) \ {z}
      OBVIOUS
    <3>3. SumFunctionOnSet(w, T \ {z}) = w[x] + SumFunctionOnSet(w, (T \ {z}) \ {x})
      BY <3>1
    <3>4. SumFunctionOnSet(w, T \ {x}) = w[z] + SumFunctionOnSet(w, (T \ {z}) \ {x})
      BY <3>1, <3>2
    <3>5. IsFiniteSet((T \ {z}) \ {x}) /\ (T \ {z}) \ {x} \in SUBSET S
      BY <2>1, FS_Subset
    <3>6. SumFunctionOnSet(w, (T \ {z}) \ {x}) \in Int
      BY <3>5, SumType
    <3>7. w[x] \in Int /\ w[z] \in Int
      OBVIOUS
    <3> QED BY <2>2, <3>3, <3>4, <3>6, <3>7
  <2> QED BY <2>2, <2>3
<1> HIDE DEF G
<1>2. S \in G
  BY <1>1, SubsetInduction
<1> QED BY <1>2 DEF G

(***************************************************************************)
(* Sums that differ a little.                                              *)
(***************************************************************************)
\* Adding one element adds its weight.
LEMMA SumAdd ==
  ASSUME NEW S, IsFiniteSet(S), NEW w, \A x \in S : w[x] \in Int, NEW y, y \notin S, w[y] \in Int
  PROVE  SumFunctionOnSet(w, S \cup {y}) = w[y] + SumFunctionOnSet(w, S)
<1> DEFINE T == S \cup {y}
<1>1. IsFiniteSet(T)
  BY FS_AddElement
<1>2. T \ {y} = S /\ y \in T /\ \A x \in T : w[x] \in Int
  OBVIOUS
<1> HIDE DEF T
<1>3. SumFunctionOnSet(w, T) = w[y] + SumFunctionOnSet(w, T \ {y})
  BY <1>1, <1>2, SumRemove
<1> QED BY <1>2, <1>3 DEF T

\* A sum over a part, with smaller weights, is smaller.
LEMMA SumMonotone ==
  ASSUME NEW S, IsFiniteSet(S), NEW T \in SUBSET S, NEW w, NEW v,
         \A x \in S : w[x] \in Nat, \A x \in T : v[x] \in Nat /\ v[x] <= w[x]
  PROVE  SumFunctionOnSet(v, T) <= SumFunctionOnSet(w, S)
<1> DEFINE G == {U \in SUBSET S : SumFunctionOnSet(v, U \cap T) <= SumFunctionOnSet(w, U)}
<1>1. {} \in G
  BY SumEmpty
<1>2. ASSUME NEW U \in SUBSET S, NEW x \in S, x \notin U, U \in G PROVE U \cup {x} \in G
  <2>1. IsFiniteSet(U) /\ IsFiniteSet(U \cap T)
    BY FS_Subset
  <2>2. SumFunctionOnSet(w, U) \in Int /\ SumFunctionOnSet(v, U \cap T) \in Int
    BY <2>1, SumType
  <2>3. SumFunctionOnSet(w, U \cup {x}) = w[x] + SumFunctionOnSet(w, U)
    BY <1>2, <2>1, SumAdd
  <2>4. SumFunctionOnSet(v, U \cap T) <= SumFunctionOnSet(w, U) /\ w[x] \in Nat
    BY <1>2
  <2>5. CASE x \in T
    <3>1. (U \cup {x}) \cap T = (U \cap T) \cup {x} /\ x \notin U \cap T
      BY <1>2, <2>5
    <3>2. SumFunctionOnSet(v, (U \cap T) \cup {x}) = v[x] + SumFunctionOnSet(v, U \cap T)
      <4>1. \A y \in U \cap T : v[y] \in Int
        OBVIOUS
      <4>2. v[x] \in Int
        BY <2>5
      <4> QED BY <2>1, <3>1, <4>1, <4>2, SumAdd
    <3>3. v[x] \in Nat /\ v[x] <= w[x]
      BY <2>5
    <3>4. v[x] + SumFunctionOnSet(v, U \cap T) <= w[x] + SumFunctionOnSet(w, U)
      BY <2>2, <2>4, <3>3
    <3> QED BY <2>3, <3>1, <3>2, <3>4
  <2>6. CASE x \notin T
    <3>1. (U \cup {x}) \cap T = U \cap T
      BY <2>6
    <3>2. SumFunctionOnSet(v, U \cap T) <= w[x] + SumFunctionOnSet(w, U)
      BY <2>2, <2>4
    <3> QED BY <2>3, <3>1, <3>2
  <2> QED BY <2>5, <2>6
<1> HIDE DEF G
<1>3. S \in G
  BY <1>1, <1>2, ElementInduction
<1>4. S \cap T = T
  OBVIOUS
<1> QED BY <1>3, <1>4 DEF G

\* A sum of numbers is a number, and no less than any of its terms.
LEMMA SumOfNumbers ==
  ASSUME NEW S, IsFiniteSet(S), NEW w, \A x \in S : w[x] \in Nat
  PROVE  SumFunctionOnSet(w, S) \in Nat /\ \A y \in S : w[y] <= SumFunctionOnSet(w, S)
<1>1. \A x \in S : w[x] \in Int
  OBVIOUS
<1>2. SumFunctionOnSet(w, S) \in Int
  BY <1>1, SumType
<1>3. ASSUME NEW T \in SUBSET S PROVE SumFunctionOnSet(w, T) \in Int /\ SumFunctionOnSet(w, T) >= 0
  <2>1. IsFiniteSet(T) /\ SumFunctionOnSet(w, {}) = 0 /\ {} \in SUBSET T
    BY FS_Subset, SumEmpty
  <2>2. SumFunctionOnSet(w, T) \in Int
    BY <1>1, <2>1, SumType
  <2>3. SumFunctionOnSet(w, {}) <= SumFunctionOnSet(w, T)
    BY <2>1, SumMonotone
  <2> QED BY <2>1, <2>2, <2>3
<1>4. ASSUME NEW y \in S PROVE w[y] <= SumFunctionOnSet(w, S)
  <2>1. SumFunctionOnSet(w, S) = w[y] + SumFunctionOnSet(w, S \ {y})
    BY <1>1, SumRemove
  <2>2. SumFunctionOnSet(w, S \ {y}) \in Int /\ SumFunctionOnSet(w, S \ {y}) >= 0
    BY <1>3
  <2> QED BY <2>1, <2>2
<1> QED BY <1>2, <1>3, <1>4

\* Only the weights of the elements matter.
LEMMA SumSame ==
  ASSUME NEW S, IsFiniteSet(S), NEW w, NEW v, \A x \in S : w[x] \in Int /\ v[x] = w[x]
  PROVE  SumFunctionOnSet(v, S) = SumFunctionOnSet(w, S)
<1> DEFINE G == {U \in SUBSET S : SumFunctionOnSet(v, U) = SumFunctionOnSet(w, U)}
<1>1. {} \in G
  BY SumEmpty
<1>2. ASSUME NEW U \in SUBSET S, NEW x \in S, x \notin U, U \in G PROVE U \cup {x} \in G
  <2>1. IsFiniteSet(U)
    BY FS_Subset
  <2>2. /\ SumFunctionOnSet(w, U \cup {x}) = w[x] + SumFunctionOnSet(w, U)
        /\ SumFunctionOnSet(v, U \cup {x}) = v[x] + SumFunctionOnSet(v, U)
    BY <1>2, <2>1, SumAdd
  <2> QED BY <1>2, <2>2
<1> HIDE DEF G
<1>3. S \in G
  BY <1>1, <1>2, ElementInduction
<1> QED BY <1>3 DEF G

\* One weight changes: so does the sum, by as much.
LEMMA SumChange ==
  ASSUME NEW S, IsFiniteSet(S), NEW w, NEW v, \A x \in S : w[x] \in Int /\ v[x] \in Int,
         NEW y \in S, \A x \in S : x # y => v[x] = w[x]
  PROVE  SumFunctionOnSet(v, S) = SumFunctionOnSet(w, S) + v[y] - w[y]
<1>1. /\ SumFunctionOnSet(w, S) = w[y] + SumFunctionOnSet(w, S \ {y})
      /\ SumFunctionOnSet(v, S) = v[y] + SumFunctionOnSet(v, S \ {y})
  BY SumRemove
<1>2. IsFiniteSet(S \ {y})
  BY FS_RemoveElement
<1>3. SumFunctionOnSet(v, S \ {y}) = SumFunctionOnSet(w, S \ {y})
  BY <1>2, SumSame
<1>4. SumFunctionOnSet(w, S \ {y}) \in Int /\ w[y] \in Int /\ v[y] \in Int
  BY <1>2, SumType
<1> QED BY <1>1, <1>3, <1>4
=============================================================================
