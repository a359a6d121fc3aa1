---------------------------- MODULE SumTheorems ----------------------------
(***************************************************************************)
(* The sum of a function's values over a finite set, as quantities are     *)
(* summed by receipts, invoices, credit notes and cost allocations. The    *)
(* community modules define it by recursion on the set. Each lemma that    *)
(* needs induction argues by a smallest counterexample: a finite set on    *)
(* which the lemma fails although it holds on each proper subset.          *)
(***************************************************************************)
EXTENDS Integers, FiniteSets, Functions, FiniteSetTheorems, WellFoundedInduction, TLAPS

(* The element that the recursion takes out of s next.                       *)
Pick(s) == CHOOSE x \in s : TRUE

(* g sums m over every subset of S.                                          *)
IsSum(m, S, g) ==
    g = [s \in SUBSET S |-> IF s = {} THEN 0 ELSE m[Pick(s)] + g[s \ {Pick(s)}]]

(* The sum of the community modules is the value at S of a function on the   *)
(* subsets of S that is defined by IsSum.                                    *)
LEMMA SumUnfolds ==
    ASSUME NEW m, NEW S
    PROVE  SumFunctionOnSet(m, S) = (CHOOSE g : IsSum(m, S, g))[S]
  BY Zenon DEF SumFunctionOnSet, FoldFunctionOnSet, MapThenFoldSet, IsSum, Pick

(* The element taken out of a set is one of its own.                         *)
LEMMA PickIn == ASSUME NEW s, s # {} PROVE Pick(s) \in s
  BY DEF Pick

(* A set of numbers with an element has a least one.                         *)
LEMMA LeastNumber ==
    ASSUME NEW N \in SUBSET Nat, N # {}
    PROVE  \E n \in N : \A k \in N : n <= k
  <1> DEFINE R == OpToRel(<, Nat)
  <1>1. \E n \in N : \A k \in N : ~(<<k, n>> \in R)
    <2>1. IsWellFoundedOn(R, Nat)
      BY NatLessThanWellFounded
    <2> HIDE DEF R
    <2> QED  BY <2>1, WFMin
  <1>2. \A k, n \in Nat : ~(<<k, n>> \in R) => n <= k
    BY DEF OpToRel
  <1> QED  BY <1>1, <1>2

(* A family of finite sets has a member without a smaller one in the family. *)
LEMMA SmallestSet ==
    ASSUME NEW F, \A S \in F : IsFiniteSet(S), F # {}
    PROVE  \E S \in F : \A T \in F : ~(T \subseteq S /\ T # S)
<1> DEFINE N == {Cardinality(S) : S \in F}
<1>1. N \in SUBSET Nat /\ N # {}
  BY FS_CardinalityType
<1>2. PICK n \in N : \A k \in N : n <= k
  BY <1>1, LeastNumber
<1>3. PICK S \in F : Cardinality(S) = n
  BY <1>2
<1>4. ASSUME NEW T \in F, T \subseteq S, T # S PROVE FALSE
  <2>1. Cardinality(T) < Cardinality(S)
    <3>1. IsFiniteSet(S) /\ T \in SUBSET S
      BY <1>4
    <3>2. Cardinality(T) <= Cardinality(S) /\ (Cardinality(S) = Cardinality(T) => S = T)
      BY <3>1, FS_Subset
    <3>3. Cardinality(T) \in Nat /\ Cardinality(S) \in Nat
      BY FS_CardinalityType
    <3> QED BY <1>4, <3>2, <3>3
  <2>2. Cardinality(T) \in N /\ Cardinality(T) \in Nat /\ Cardinality(S) \in Nat
    BY <1>1
  <2> QED BY <1>2, <1>3, <2>1, <2>2
<1> QED BY <1>4

(* One step of the recursion: the empty set sums to 0, and any other set to  *)
(* one of its elements and the rest.                                         *)
LEMMA SumStep ==
    ASSUME NEW m, NEW S, NEW g, IsSum(m, S, g)
    PROVE  /\ g[{}] = 0
           /\ \A s \in SUBSET S : s # {} => /\ Pick(s) \in s /\ s \ {Pick(s)} \in SUBSET S
                                          /\ g[s] = m[Pick(s)] + g[s \ {Pick(s)}]
<1>1. g = [s \in SUBSET S |-> IF s = {} THEN 0 ELSE m[Pick(s)] + g[s \ {Pick(s)}]]
  BY DEF IsSum
<1>2. \A s \in SUBSET S : g[s] = IF s = {} THEN 0 ELSE m[Pick(s)] + g[s \ {Pick(s)}]
  BY <1>1, Zenon
<1> QED BY <1>2, PickIn

(* Two such functions agree on the finite sets on which the summed values    *)
(* do. The proof looks at a smallest set they disagree on.                   *)
LEMMA SumUnique ==
    ASSUME NEW m, NEW n, NEW S, NEW T, NEW g, NEW h, IsSum(m, S, g), IsSum(n, T, h),
           NEW u, IsFiniteSet(u), u \subseteq S, u \subseteq T, \A x \in u : m[x] = n[x]
    PROVE  g[u] = h[u]
<1> DEFINE F == {s \in SUBSET u : g[s] # h[s]}
<1>1. SUFFICES F = {}
  OBVIOUS
<1>2. SUFFICES ASSUME F # {} PROVE FALSE
  OBVIOUS
<1>3. \A s \in F : IsFiniteSet(s)
  BY FS_Subset
<1>4. PICK s \in F : \A t \in F : ~(t \subseteq s /\ t # s)
  <2> HIDE DEF F
  <2> QED BY <1>2, <1>3, SmallestSet
<1>5. s \in SUBSET S /\ s \in SUBSET T /\ s \in SUBSET u /\ g[s] # h[s]
  OBVIOUS
<1> HIDE DEF F
<1>a. /\ g[{}] = 0
      /\ s # {} => Pick(s) \in s /\ g[s] = m[Pick(s)] + g[s \ {Pick(s)}]
  BY <1>5, SumStep
<1>b. /\ h[{}] = 0
      /\ s # {} => h[s] = n[Pick(s)] + h[s \ {Pick(s)}]
  BY <1>5, SumStep
<1>6. s # {}
  BY <1>5, <1>a, <1>b
<1> DEFINE x == Pick(s)
<1>7. x \in s /\ g[s] = m[x] + g[s \ {x}] /\ h[s] = n[x] + h[s \ {x}]
  BY <1>6, <1>a, <1>b
<1> HIDE DEF x
<1>8. s \ {x} \in SUBSET u /\ s \ {x} \subseteq s /\ s \ {x} # s
  BY <1>5, <1>7
<1>9. g[s \ {x}] = h[s \ {x}]
  BY <1>4, <1>8 DEF F
<1>10. m[x] = n[x]
  BY <1>5, <1>7
<1> QED BY <1>5, <1>7, <1>9, <1>10

(* There is such a function on the subsets of every finite set: a smallest   *)
(* set without one could be given one, made of those of its subsets.         *)
LEMMA SumExists ==
    ASSUME NEW m, NEW S, IsFiniteSet(S)
    PROVE  \E g : IsSum(m, S, g)
<1> DEFINE F == {s \in SUBSET S : ~ \E g : IsSum(m, s, g)}
<1>1. SUFFICES ASSUME F # {} PROVE FALSE
  OBVIOUS
<1>2. \A s \in F : IsFiniteSet(s)
  BY FS_Subset
<1>3. PICK s \in F : \A t \in F : ~(t \subseteq s /\ t # s)
  <2> HIDE DEF F
  <2> QED BY <1>1, <1>2, SmallestSet
<1>4. s \in SUBSET S /\ IsFiniteSet(s) /\ ~ \E g : IsSum(m, s, g)
  BY <1>2
<1> DEFINE H(t) == CHOOSE g : IsSum(m, t, g)
<1>5. \A t \in SUBSET s : t # s => IsSum(m, t, H(t))
  <2> SUFFICES ASSUME NEW t \in SUBSET s, t # s PROVE \E g : IsSum(m, t, g)
    OBVIOUS
  <2> QED BY <1>3, <1>4
<1> HIDE DEF H, F
<1> DEFINE V(t) == IF t = {} THEN 0 ELSE m[Pick(t)] + H(t \ {Pick(t)})[t \ {Pick(t)}]
           g == [t \in SUBSET s |-> V(t)]
<1>6. \A t \in SUBSET s : t # s => H(t)[t] = V(t)
  <2> SUFFICES ASSUME NEW t \in SUBSET s, t # s PROVE H(t)[t] = V(t)
    OBVIOUS
  <2>1. IsSum(m, t, H(t)) /\ t \in SUBSET t
    BY <1>5
  <2>2. CASE t = {}
    BY <2>1, <2>2, SumStep
  <2>3. CASE t # {}
    <3> DEFINE v == t \ {Pick(t)}
    <3>1. Pick(t) \in t /\ H(t)[t] = m[Pick(t)] + H(t)[v]
      BY <2>1, <2>3, SumStep
    <3>2. v \in SUBSET s /\ v # s /\ v \subseteq t
      BY <3>1
    <3>3. IsSum(m, v, H(v)) /\ IsFiniteSet(v)
      BY <1>4, <1>5, <3>2, FS_Subset
    <3>4. H(t)[v] = H(v)[v]
      <4> HIDE DEF v
      <4> QED BY <2>1, <3>2, <3>3, SumUnique
    <3> QED BY <2>3, <3>1, <3>4
  <2> QED BY <2>2, <2>3
<1>7. ASSUME NEW t \in SUBSET s, t # {} PROVE V(t) = m[Pick(t)] + g[t \ {Pick(t)}]
  <2>1. t \ {Pick(t)} \in SUBSET s /\ t \ {Pick(t)} # s
    BY <1>7, PickIn
  <2>2. g[t \ {Pick(t)}] = V(t \ {Pick(t)})
    BY <2>1
  <2>3. V(t \ {Pick(t)}) = H(t \ {Pick(t)})[t \ {Pick(t)}]
    BY <1>6, <2>1
  <2>4. V(t) = m[Pick(t)] + H(t \ {Pick(t)})[t \ {Pick(t)}]
    BY <1>7
  <2> HIDE DEF V, g
  <2> QED BY <2>2, <2>3, <2>4
<1>8. V({}) = 0
  OBVIOUS
<1>9. IsSum(m, s, g)
  <2>1. \A t \in SUBSET s : V(t) = IF t = {} THEN 0 ELSE m[Pick(t)] + g[t \ {Pick(t)}]
    <3> HIDE DEF V, g
    <3> QED BY <1>7, <1>8
  <2>2. [t \in SUBSET s |-> V(t)] = [t \in SUBSET s |-> IF t = {} THEN 0 ELSE m[Pick(t)] + g[t \ {Pick(t)}]]
    <3> HIDE DEF V, g
    <3> QED BY <2>1, Zenon
  <2>3. g = [t \in SUBSET s |-> V(t)]
    OBVIOUS
  <2> HIDE DEF g, V
  <2> QED BY <2>2, <2>3, Zenon DEF IsSum
<1> QED BY <1>4, <1>9

-----------------------------------------------------------------------------
(* The sum over a finite set is the value of such a function.                *)
LEMMA SumIs ==
    ASSUME NEW m, NEW S, IsFiniteSet(S)
    PROVE  \E g : IsSum(m, S, g) /\ SumFunctionOnSet(m, S) = g[S]
<1>1. IsSum(m, S, CHOOSE g : IsSum(m, S, g))
  BY SumExists, Zenon
<1> QED BY <1>1, SumUnfolds

(* The sum over no element.                                                  *)
LEMMA SumOfNone == ASSUME NEW m PROVE SumFunctionOnSet(m, {}) = 0
<1>1. PICK g : IsSum(m, {}, g) /\ SumFunctionOnSet(m, {}) = g[{}]
  BY SumIs, FS_EmptySet
<1> QED BY <1>1, SumStep

(* The sum looks at the summed values only.                                  *)
LEMMA SumCongruence ==
    ASSUME NEW m, NEW n, NEW S, IsFiniteSet(S), \A x \in S : m[x] = n[x]
    PROVE  SumFunctionOnSet(m, S) = SumFunctionOnSet(n, S)
<1>1. PICK g : IsSum(m, S, g) /\ SumFunctionOnSet(m, S) = g[S]
  BY SumIs
<1>2. PICK h : IsSum(n, S, h) /\ SumFunctionOnSet(n, S) = h[S]
  BY SumIs
<1> QED BY <1>1, <1>2, SumUnique

(* The sum over a set is one element and the sum over the rest.              *)
LEMMA SumPicks ==
    ASSUME NEW m, NEW S, IsFiniteSet(S), S # {}
    PROVE  /\ Pick(S) \in S
           /\ SumFunctionOnSet(m, S) = m[Pick(S)] + SumFunctionOnSet(m, S \ {Pick(S)})
<1>0. PICK x : x = Pick(S)
  OBVIOUS
<1>1. PICK g : IsSum(m, S, g) /\ SumFunctionOnSet(m, S) = g[S]
  BY SumIs
<1>2. x \in S /\ g[S] = m[x] + g[S \ {x}]
  BY <1>0, <1>1, SumStep
<1>3. IsFiniteSet(S \ {x})
  BY FS_Subset
<1>4. PICK h : IsSum(m, S \ {x}, h) /\ SumFunctionOnSet(m, S \ {x}) = h[S \ {x}]
  BY <1>3, SumIs
<1>5. g[S \ {x}] = h[S \ {x}]
  BY <1>1, <1>3, <1>4, SumUnique
<1> QED BY <1>0, <1>1, <1>2, <1>4, <1>5

(* A sum of integers is an integer.                                          *)
LEMMA SumType ==
    ASSUME NEW m, NEW S, IsFiniteSet(S), \A x \in S : m[x] \in Int
    PROVE  SumFunctionOnSet(m, S) \in Int
<1> DEFINE F == {s \in SUBSET S : SumFunctionOnSet(m, s) \notin Int}
<1>1. SUFFICES ASSUME F # {} PROVE FALSE
  OBVIOUS
<1>2. \A s \in F : IsFiniteSet(s)
  BY FS_Subset
<1>3. PICK s \in F : \A t \in F : ~(t \subseteq s /\ t # s)
  <2> HIDE DEF F
  <2> QED BY <1>1, <1>2, SmallestSet
<1>4. s \in SUBSET S /\ IsFiniteSet(s) /\ SumFunctionOnSet(m, s) \notin Int
  BY <1>2
<1>5. s # {}
  BY <1>4, SumOfNone
<1>6. PICK x : x \in s /\ SumFunctionOnSet(m, s) = m[x] + SumFunctionOnSet(m, s \ {x})
  BY <1>4, <1>5, SumPicks
<1>7. SumFunctionOnSet(m, s \ {x}) \in Int
  BY <1>3, <1>4, <1>6
<1>8. m[x] \in Int
  BY <1>4, <1>6
<1> HIDE DEF F
<1> QED BY <1>4, <1>6, <1>7, <1>8

(* Any element can be summed first.                                          *)
LEMMA SumSplits ==
    ASSUME NEW m, NEW S, IsFiniteSet(S), \A x \in S : m[x] \in Int, NEW z \in S
    PROVE  SumFunctionOnSet(m, S) = m[z] + SumFunctionOnSet(m, S \ {z})
<1> DEFINE F == {s \in SUBSET S : \E a \in s : SumFunctionOnSet(m, s) # m[a] + SumFunctionOnSet(m, s \ {a})}
<1>1. SUFFICES ASSUME F # {} PROVE FALSE
  OBVIOUS
<1>2. \A s \in F : IsFiniteSet(s)
  BY FS_Subset
<1>3. PICK s \in F : \A t \in F : ~(t \subseteq s /\ t # s)
  <2> HIDE DEF F
  <2> QED BY <1>1, <1>2, SmallestSet
<1>4. PICK a \in s : SumFunctionOnSet(m, s) # m[a] + SumFunctionOnSet(m, s \ {a})
  OBVIOUS
<1>5. s \in SUBSET S /\ IsFiniteSet(s)
  BY <1>2
<1>6. PICK b : b \in s /\ SumFunctionOnSet(m, s) = m[b] + SumFunctionOnSet(m, s \ {b})
  BY <1>5, SumPicks
<1>7. a # b
  BY <1>4, <1>6
<1>8. PICK t : t = (s \ {b}) \ {a} /\ t = (s \ {a}) \ {b}
  OBVIOUS
<1>9. SumFunctionOnSet(m, s \ {b}) = m[a] + SumFunctionOnSet(m, t)
  <2>1. s \ {b} \in SUBSET S /\ s \ {b} \subseteq s /\ s \ {b} # s /\ a \in s \ {b}
    BY <1>5, <1>6, <1>7
  <2> QED BY <1>3, <1>8, <2>1
<1>10. SumFunctionOnSet(m, s \ {a}) = m[b] + SumFunctionOnSet(m, t)
  <2>1. s \ {a} \in SUBSET S /\ s \ {a} \subseteq s /\ s \ {a} # s /\ b \in s \ {a}
    BY <1>5, <1>6, <1>7
  <2> QED BY <1>3, <1>8, <2>1
<1> HIDE DEF F
<1>11. m[a] \in Int /\ m[b] \in Int
  BY <1>5, <1>6
<1>12. SumFunctionOnSet(m, t) \in Int
  <2>1. IsFiniteSet(t) /\ \A x \in t : m[x] \in Int
    BY <1>5, <1>8, FS_Subset
  <2> QED BY <2>1, SumType
<1> QED BY <1>4, <1>6, <1>9, <1>10, <1>11, <1>12

(* An element that joins the summed ones.                                    *)
LEMMA SumAdds ==
    ASSUME NEW m, NEW S, IsFiniteSet(S), NEW z, z \notin S, \A x \in S \cup {z} : m[x] \in Int
    PROVE  SumFunctionOnSet(m, S \cup {z}) = m[z] + SumFunctionOnSet(m, S)
<1>1. IsFiniteSet(S \cup {z}) /\ (S \cup {z}) \ {z} = S
  BY FS_AddElement
<1> QED BY <1>1, SumSplits

(* What a sum is between.                                                    *)
LEMMA SumBetween ==
    ASSUME NEW m, NEW n, NEW S, IsFiniteSet(S), \A x \in S : m[x] \in Int /\ n[x] \in Int /\ m[x] <= n[x]
    PROVE  SumFunctionOnSet(m, S) <= SumFunctionOnSet(n, S)
<1> DEFINE F == {s \in SUBSET S : ~ (SumFunctionOnSet(m, s) <= SumFunctionOnSet(n, s))}
<1>1. SUFFICES ASSUME F # {} PROVE FALSE
  OBVIOUS
<1>2. \A s \in F : IsFiniteSet(s)
  BY FS_Subset
<1>3. PICK s \in F : \A t \in F : ~(t \subseteq s /\ t # s)
  <2> HIDE DEF F
  <2> QED BY <1>1, <1>2, SmallestSet
<1>4. s \in SUBSET S /\ IsFiniteSet(s) /\ ~ (SumFunctionOnSet(m, s) <= SumFunctionOnSet(n, s))
  BY <1>2
<1>5. s # {}
  BY <1>4, SumOfNone
<1>6. PICK x : x \in s
  BY <1>5
<1>7. SumFunctionOnSet(m, s \ {x}) <= SumFunctionOnSet(n, s \ {x})
  BY <1>3, <1>4, <1>6
<1> HIDE DEF F
<1>8. SumFunctionOnSet(m, s) = m[x] + SumFunctionOnSet(m, s \ {x})
  BY <1>4, <1>6, SumSplits
<1>9. SumFunctionOnSet(n, s) = n[x] + SumFunctionOnSet(n, s \ {x})
  BY <1>4, <1>6, SumSplits
<1>10. IsFiniteSet(s \ {x}) /\ \A y \in s \ {x} : m[y] \in Int /\ n[y] \in Int
  BY <1>4, FS_Subset
<1>11. SumFunctionOnSet(m, s \ {x}) \in Int /\ SumFunctionOnSet(n, s \ {x}) \in Int
  BY <1>10, SumType
<1>12. m[x] \in Int /\ n[x] \in Int /\ m[x] <= n[x]
  BY <1>4, <1>6
<1> QED BY <1>4, <1>7, <1>8, <1>9, <1>11, <1>12

(* Sums add up element by element.                                           *)
LEMMA SumOfSums ==
    ASSUME NEW m, NEW n, NEW d, NEW S, IsFiniteSet(S),
           \A x \in S : n[x] \in Int /\ d[x] \in Int /\ m[x] = n[x] + d[x]
    PROVE  SumFunctionOnSet(m, S) = SumFunctionOnSet(n, S) + SumFunctionOnSet(d, S)
<1> DEFINE F == {s \in SUBSET S : SumFunctionOnSet(m, s) # SumFunctionOnSet(n, s) + SumFunctionOnSet(d, s)}
<1>1. SUFFICES ASSUME F # {} PROVE FALSE
  OBVIOUS
<1>2. \A s \in F : IsFiniteSet(s)
  BY FS_Subset
<1>3. PICK s \in F : \A t \in F : ~(t \subseteq s /\ t # s)
  <2> HIDE DEF F
  <2> QED BY <1>1, <1>2, SmallestSet
<1>4. s \in SUBSET S /\ IsFiniteSet(s) /\ SumFunctionOnSet(m, s) # SumFunctionOnSet(n, s) + SumFunctionOnSet(d, s)
  BY <1>2
<1>5. s # {}
  BY <1>4, SumOfNone
<1>6. PICK x : x \in s
  BY <1>5
<1>7. SumFunctionOnSet(m, s \ {x}) = SumFunctionOnSet(n, s \ {x}) + SumFunctionOnSet(d, s \ {x})
  BY <1>3, <1>4, <1>6
<1> HIDE DEF F
<1>8. \A y \in s : m[y] \in Int /\ n[y] \in Int /\ d[y] \in Int
  BY <1>4
<1>9. SumFunctionOnSet(m, s) = m[x] + SumFunctionOnSet(m, s \ {x})
  BY <1>4, <1>6, <1>8, SumSplits
<1>10. SumFunctionOnSet(n, s) = n[x] + SumFunctionOnSet(n, s \ {x})
  BY <1>4, <1>6, <1>8, SumSplits
<1>11. SumFunctionOnSet(d, s) = d[x] + SumFunctionOnSet(d, s \ {x})
  BY <1>4, <1>6, <1>8, SumSplits
<1>12. IsFiniteSet(s \ {x}) /\ \A y \in s \ {x} : n[y] \in Int /\ d[y] \in Int
  BY <1>4, <1>8, FS_Subset
<1>13. SumFunctionOnSet(n, s \ {x}) \in Int /\ SumFunctionOnSet(d, s \ {x}) \in Int
  BY <1>12, SumType
<1>14. n[x] \in Int /\ d[x] \in Int /\ m[x] = n[x] + d[x]
  BY <1>4, <1>6
<1> QED BY <1>4, <1>7, <1>9, <1>10, <1>11, <1>13, <1>14

(* Elements that count nothing can be left out.                              *)
LEMMA SumZeros ==
    ASSUME NEW m, NEW S, IsFiniteSet(S), NEW T, T \subseteq S, \A x \in S : m[x] \in Int,
           \A x \in S \ T : m[x] = 0
    PROVE  SumFunctionOnSet(m, S) = SumFunctionOnSet(m, T)
<1> DEFINE F == {s \in SUBSET S : T \subseteq s /\ SumFunctionOnSet(m, s) # SumFunctionOnSet(m, T)}
<1>1. SUFFICES ASSUME F # {} PROVE FALSE
  OBVIOUS
<1>2. \A s \in F : IsFiniteSet(s)
  BY FS_Subset
<1>3. PICK s \in F : \A t \in F : ~(t \subseteq s /\ t # s)
  <2> HIDE DEF F
  <2> QED BY <1>1, <1>2, SmallestSet
<1>4. s \in SUBSET S /\ T \subseteq s /\ IsFiniteSet(s) /\ SumFunctionOnSet(m, s) # SumFunctionOnSet(m, T)
  BY <1>2
<1>5. PICK x : x \in s /\ x \notin T
  <2>1. s # T
    BY <1>4
  <2> QED BY <1>4, <2>1
<1>6. SumFunctionOnSet(m, s \ {x}) = SumFunctionOnSet(m, T)
  <2>1. s \ {x} \in SUBSET S /\ T \subseteq s \ {x} /\ s \ {x} \subseteq s /\ s \ {x} # s
    BY <1>4, <1>5
  <2> QED BY <1>3, <2>1
<1> HIDE DEF F
<1>7. SumFunctionOnSet(m, s) = m[x] + SumFunctionOnSet(m, s \ {x})
  BY <1>4, <1>5, SumSplits
<1>8. m[x] = 0
  BY <1>4, <1>5
<1>9. SumFunctionOnSet(m, s \ {x}) \in Int
  <2>1. IsFiniteSet(s \ {x}) /\ \A y \in s \ {x} : m[y] \in Int
    BY <1>4, FS_Subset
  <2> QED BY <2>1, SumType
<1> QED BY <1>4, <1>6, <1>7, <1>8, <1>9

(* A sum whose elements are smaller, zero or gone is smaller.                *)
LEMMA SumShrinks ==
    ASSUME NEW m, NEW n, NEW S, NEW T, IsFiniteSet(S), IsFiniteSet(T),
           \A x \in S : m[x] \in Nat, \A x \in T : n[x] \in Int,
           \A x \in T : n[x] = 0 \/ (x \in S /\ n[x] <= m[x])
    PROVE  SumFunctionOnSet(n, T) <= SumFunctionOnSet(m, S)
<1> DEFINE a == [x \in S \cup T |-> IF x \in S THEN m[x] ELSE 0]
           b == [x \in S \cup T |-> IF x \in T THEN n[x] ELSE 0]
<1>1. IsFiniteSet(S \cup T)
  BY FS_Union
<1>2. \A x \in S \cup T : a[x] \in Int /\ b[x] \in Int /\ b[x] <= a[x]
  OBVIOUS
<1>3. /\ \A x \in S : a[x] = m[x] /\ m[x] \in Int
      /\ \A x \in (S \cup T) \ S : a[x] = 0
  OBVIOUS
<1>4. /\ \A x \in T : b[x] = n[x]
      /\ \A x \in (S \cup T) \ T : b[x] = 0
  OBVIOUS
<1>d. S \subseteq S \cup T /\ T \subseteq S \cup T
  OBVIOUS
<1> HIDE DEF a, b
<1>5. SumFunctionOnSet(b, S \cup T) <= SumFunctionOnSet(a, S \cup T)
  BY <1>1, <1>2, SumBetween
<1>6. SumFunctionOnSet(a, S \cup T) = SumFunctionOnSet(a, S)
  BY <1>1, <1>2, <1>3, <1>d, SumZeros
<1>7. SumFunctionOnSet(b, S \cup T) = SumFunctionOnSet(b, T)
  BY <1>1, <1>2, <1>4, <1>d, SumZeros
<1>8. SumFunctionOnSet(a, S) = SumFunctionOnSet(m, S)
  BY <1>3, SumCongruence
<1>9. SumFunctionOnSet(b, T) = SumFunctionOnSet(n, T)
  BY <1>4, SumCongruence
<1> QED BY <1>5, <1>6, <1>7, <1>8, <1>9

(* A sum of natural numbers is one.                                          *)
LEMMA SumNatural ==
    ASSUME NEW m, NEW S, IsFiniteSet(S), \A x \in S : m[x] \in Nat
    PROVE  SumFunctionOnSet(m, S) \in Nat
<1>1. SumFunctionOnSet(m, S) \in Int
  BY SumType
<1>2. IsFiniteSet({}) /\ SumFunctionOnSet(m, {}) = 0
  BY FS_EmptySet, SumOfNone
<1>3. SumFunctionOnSet(m, {}) <= SumFunctionOnSet(m, S)
  BY <1>2, SumShrinks
<1> QED BY <1>1, <1>2, <1>3

=============================================================================
