------------------------------ MODULE FiniteSums ------------------------------
(***************************************************************************)
(* Facts about SumFunctionOnSet, the sums the relay account ledger is made  *)
(* of.  The induction over finite sets is an argument by the smallest       *)
(* counterexample: the subsets of a finite set that break a claim, if there *)
(* are any, have a minimal one among them.                                  *)
(***************************************************************************)
EXTENDS Integers, FiniteSets, Functions, FiniteSetTheorems, WellFoundedInduction, TLAPS

LEMMA SmallestSubset ==
  ASSUME NEW S, IsFiniteSet(S), NEW C \in SUBSET (SUBSET S), C # {}
  PROVE  \E T \in C : \A U \in C : U \subseteq T => U = T
<1>1. IsWellFoundedOn(StrictSubsetOrdering(S), FiniteSubsetsOf(S))
  BY FS_StrictSubsetOrderingWellFounded
<1>2. FiniteSubsetsOf(S) = SUBSET S
  BY FS_FiniteSubsetsOfFinite
<1>3. PICK T \in C : \A U \in C : ~(<<U, T>> \in StrictSubsetOrdering(S))
  BY <1>1, <1>2, WFMin
<1>4. QED
  BY <1>3 DEF StrictSubsetOrdering

LEMMA SmallestNumber ==
  ASSUME NEW C \in SUBSET Nat, C # {}
  PROVE  \E n \in C : \A m \in C : n <= m
<1> DEFINE R == {p \in Nat \X Nat : p[1] < p[2]}
<1>1. IsWellFoundedOn(R, Nat)
  BY NatLessThanWellFounded DEF OpToRel
<1> HIDE DEF R
<1>2. PICK n \in C : \A m \in C : ~(<<m, n>> \in R)
  BY <1>1, WFMin
<1>3. ASSUME NEW m \in C, m < n PROVE FALSE
  BY <1>2, <1>3 DEF R
<1>4. QED
  BY <1>3

\* The element a sum takes first.
First(s) == CHOOSE x \in s : TRUE

\* The equation that the partial sums of F over the subsets of S satisfy.
Iterates(g, F, D) ==
    g = [s \in D |-> IF s = {} THEN 0 ELSE F[First(s)] + g[s \ {First(s)}]]

LEMMA IteratesExists ==
  ASSUME NEW F, NEW S, IsFiniteSet(S)
  PROVE  \E g : Iterates(g, F, SUBSET S)
<1> DEFINE D(n) == {s \in SUBSET S : Cardinality(s) <= n}
           C == {n \in Nat : ~\E g : Iterates(g, F, D(n))}
<1>1. \A s \in SUBSET S : IsFiniteSet(s) /\ Cardinality(s) \in Nat
  BY FS_Subset, FS_CardinalityType
<1>2. \A s \in SUBSET S : s # {} =>
         /\ First(s) \in s /\ s \ {First(s)} \in SUBSET S
         /\ Cardinality(s \ {First(s)}) = Cardinality(s) - 1
  BY <1>1, FS_RemoveElement DEF First
<1>3. \A s \in SUBSET S : Cardinality(s) = 0 => s = {}
  BY <1>1, FS_EmptySet
<1>4. \E g : Iterates(g, F, D(0))
  <2> DEFINE g == [s \in D(0) |-> 0]
  <2>1. \A s \in D(0) : s = {}
    BY <1>1, <1>3
  <2>2. Iterates(g, F, D(0))
    BY <2>1 DEF Iterates
  <2>3. QED
    BY <2>2
<1>5. ASSUME NEW n \in Nat, NEW g, Iterates(g, F, D(n))
      PROVE  \E h : Iterates(h, F, D(n + 1))
  <2> DEFINE E == D(n + 1)
             h == [s \in E |-> IF s = {} THEN 0 ELSE F[First(s)] + g[s \ {First(s)}]]
  <2>0. \A s \in D(n) : s \in E
    BY <1>1
  <2>1. \A s \in D(n) : s \in E /\ h[s] = g[s]
    <3>1. g = [s \in D(n) |-> IF s = {} THEN 0 ELSE F[First(s)] + g[s \ {First(s)}]]
      BY <1>5 DEF Iterates
    <3> HIDE DEF D
    <3>2. QED
      BY <2>0, <3>1
  <2>2. \A s \in E : s # {} => s \ {First(s)} \in D(n)
    BY <1>1, <1>2
  <2> HIDE DEF D
  <2>3. \A s \in E : s # {} => h[s \ {First(s)}] = g[s \ {First(s)}]
    BY <2>1, <2>2
  <2>4. h = [s \in E |-> IF s = {} THEN 0 ELSE F[First(s)] + h[s \ {First(s)}]]
    BY <2>3
  <2>5. QED
    BY <2>4 DEF Iterates
<1>6. C = {}
  <2> SUFFICES ASSUME C # {} PROVE FALSE
    OBVIOUS
  <2>1. PICK n \in C : \A m \in C : n <= m
    BY SmallestNumber
  <2>2. n # 0
    BY <1>4, <2>1
  <2>3. n - 1 \in Nat /\ n - 1 \notin C /\ (n - 1) + 1 = n
    <3> HIDE DEF C
    <3>1. n \in Nat
      BY <2>1 DEF C
    <3>2. QED
      BY <2>1, <2>2, <3>1
  <2>4. \E g : Iterates(g, F, D(n - 1))
    BY <2>3
  <2>5. \E g : Iterates(g, F, D((n - 1) + 1))
    BY <1>5, <2>3, <2>4
  <2>6. QED
    BY <2>1, <2>3, <2>5
<1>7. Cardinality(S) \in Nat /\ D(Cardinality(S)) = SUBSET S
  BY <1>1, FS_Subset, FS_CardinalityType
<1>8. \E g : Iterates(g, F, D(Cardinality(S)))
  BY <1>6, <1>7
<1>9. QED
  BY <1>7, <1>8

LEMMA SumIterates ==
  ASSUME NEW F, NEW S, IsFiniteSet(S)
  PROVE  \E g : Iterates(g, F, SUBSET S) /\ SumFunctionOnSet(F, S) = g[S]
<1> DEFINE g == CHOOSE g : Iterates(g, F, SUBSET S)
<1>1. Iterates(g, F, SUBSET S)
  BY IteratesExists
<1>2. SumFunctionOnSet(F, S) = g[S]
  BY DEF SumFunctionOnSet, FoldFunctionOnSet, MapThenFoldSet, Iterates, First
<1>3. QED
  BY <1>1, <1>2

LEMMA SumEmpty == \A F : SumFunctionOnSet(F, {}) = 0
<1> SUFFICES ASSUME NEW F PROVE SumFunctionOnSet(F, {}) = 0
  OBVIOUS
<1>1. PICK g : Iterates(g, F, SUBSET {}) /\ SumFunctionOnSet(F, {}) = g[{}]
  BY SumIterates, FS_EmptySet
<1>2. QED
  BY <1>1 DEF Iterates

\* A sum is the element it takes first and the sum of the others.
LEMMA SumFirst ==
  ASSUME NEW F, NEW S, IsFiniteSet(S), S # {}
  PROVE  /\ First(S) \in S
         /\ SumFunctionOnSet(F, S) = F[First(S)] + SumFunctionOnSet(F, S \ {First(S)})
<1> DEFINE T == S \ {First(S)}
<1>1. First(S) \in S /\ T \in SUBSET S /\ IsFiniteSet(T)
  BY FS_RemoveElement DEF First
<1>2. PICK g : Iterates(g, F, SUBSET S) /\ SumFunctionOnSet(F, S) = g[S]
  BY SumIterates
<1>3. PICK h : Iterates(h, F, SUBSET T) /\ SumFunctionOnSet(F, T) = h[T]
  BY <1>1, SumIterates
<1>4. \A u \in SUBSET T :
         /\ u \in SUBSET S
         /\ g[u] = IF u = {} THEN 0 ELSE F[First(u)] + g[u \ {First(u)}]
         /\ h[u] = IF u = {} THEN 0 ELSE F[First(u)] + h[u \ {First(u)}]
  BY <1>1, <1>2, <1>3 DEF Iterates
<1> DEFINE C == {u \in SUBSET T : g[u] # h[u]}
<1> HIDE DEF T
<1>5. C = {}
  <2> SUFFICES ASSUME C # {} PROVE FALSE
    OBVIOUS
  <2>1. PICK u \in C : \A v \in C : v \subseteq u => v = u
    <3>1. C \in SUBSET (SUBSET T)
      OBVIOUS
    <3> HIDE DEF C
    <3>2. QED
      BY <3>1, <1>1, SmallestSubset
  <2>2. u # {}
    BY <1>4, <2>1
  <2>3. First(u) \in u
    BY <2>2 DEF First
  <2>4. u \ {First(u)} \in SUBSET T /\ u \ {First(u)} # u
    BY <2>1, <2>3
  <2>5. g[u \ {First(u)}] = h[u \ {First(u)}]
    BY <2>1, <2>4
  <2>6. QED
    BY <1>4, <2>1, <2>2, <2>5
<1>6. g[T] = h[T]
  BY <1>5
<1>7. g[S] = F[First(S)] + g[T]
  BY <1>2 DEF Iterates, T
<1>8. QED
  BY <1>1, <1>2, <1>3, <1>6, <1>7 DEF T

LEMMA SumType ==
  ASSUME NEW F, NEW S, IsFiniteSet(S), \A x \in S : F[x] \in Int
  PROVE  SumFunctionOnSet(F, S) \in Int
<1> DEFINE C == {u \in SUBSET S : SumFunctionOnSet(F, u) \notin Int}
<1>1. C = {}
  <2> SUFFICES ASSUME C # {} PROVE FALSE
    OBVIOUS
  <2>1. PICK u \in C : \A v \in C : v \subseteq u => v = u
    <3>1. C \in SUBSET (SUBSET S)
      OBVIOUS
    <3> HIDE DEF C
    <3>2. QED
      BY <3>1, SmallestSubset
  <2>2. u # {} /\ IsFiniteSet(u)
    <3>1. u \in SUBSET S /\ SumFunctionOnSet(F, u) \notin Int
      BY <2>1
    <3>2. SumFunctionOnSet(F, {}) \in Int
      BY SumEmpty
    <3>3. u # {}
      BY <3>1, <3>2
    <3>4. IsFiniteSet(u)
      BY <3>1, FS_Subset
    <3>5. QED
      BY <3>3, <3>4
  <2>3. /\ First(u) \in u
        /\ SumFunctionOnSet(F, u) = F[First(u)] + SumFunctionOnSet(F, u \ {First(u)})
    BY <2>2, SumFirst
  <2>4. u \ {First(u)} \in SUBSET S /\ u \ {First(u)} # u /\ F[First(u)] \in Int
    BY <2>1, <2>3
  <2>5. SumFunctionOnSet(F, u \ {First(u)}) \in Int
    BY <2>1, <2>4
  <2>6. QED
    BY <2>1, <2>3, <2>4, <2>5
<1>2. QED
  BY <1>1

\* A sum depends on the summands alone.
LEMMA SumEqual ==
  ASSUME NEW F, NEW G, NEW S, IsFiniteSet(S), \A x \in S : F[x] = G[x]
  PROVE  SumFunctionOnSet(F, S) = SumFunctionOnSet(G, S)
<1> DEFINE C == {u \in SUBSET S : SumFunctionOnSet(F, u) # SumFunctionOnSet(G, u)}
<1>1. C = {}
  <2> SUFFICES ASSUME C # {} PROVE FALSE
    OBVIOUS
  <2>1. PICK u \in C : \A v \in C : v \subseteq u => v = u
    <3>1. C \in SUBSET (SUBSET S)
      OBVIOUS
    <3> HIDE DEF C
    <3>2. QED
      BY <3>1, SmallestSubset
  <2>2. u # {} /\ IsFiniteSet(u)
    BY <2>1, SumEmpty, FS_Subset
  <2>3. /\ First(u) \in u
        /\ SumFunctionOnSet(F, u) = F[First(u)] + SumFunctionOnSet(F, u \ {First(u)})
        /\ SumFunctionOnSet(G, u) = G[First(u)] + SumFunctionOnSet(G, u \ {First(u)})
    BY <2>2, SumFirst
  <2>4. u \ {First(u)} \in SUBSET S /\ u \ {First(u)} # u /\ F[First(u)] = G[First(u)]
    BY <2>1, <2>3
  <2>5. SumFunctionOnSet(F, u \ {First(u)}) = SumFunctionOnSet(G, u \ {First(u)})
    BY <2>1, <2>4
  <2>6. QED
    BY <2>1, <2>3, <2>4, <2>5
<1>2. QED
  BY <1>1

\* The order does not matter: any element can be taken first.
LEMMA SumRemove ==
  ASSUME NEW F, NEW S, IsFiniteSet(S), \A x \in S : F[x] \in Int, NEW x \in S
  PROVE  SumFunctionOnSet(F, S) = F[x] + SumFunctionOnSet(F, S \ {x})
<1> DEFINE C == {u \in SUBSET S :
                    \E y \in u : SumFunctionOnSet(F, u)
                                     # F[y] + SumFunctionOnSet(F, u \ {y})}
<1>0. \A u \in SUBSET S : IsFiniteSet(u) /\ SumFunctionOnSet(F, u) \in Int
  BY SumType, FS_Subset
<1>1. C = {}
  <2> SUFFICES ASSUME C # {} PROVE FALSE
    OBVIOUS
  <2>1. PICK u \in C : \A v \in C : v \subseteq u => v = u
    <3>1. C \in SUBSET (SUBSET S)
      OBVIOUS
    <3> HIDE DEF C
    <3>2. QED
      BY <3>1, SmallestSubset
  <2>2. PICK y \in u : SumFunctionOnSet(F, u) # F[y] + SumFunctionOnSet(F, u \ {y})
    BY <2>1
  <2> DEFINE z == First(u)
             v == u \ {z}
             w == v \ {y}
  <2>3. u \in SUBSET S /\ z \in u /\ SumFunctionOnSet(F, u) = F[z] + SumFunctionOnSet(F, v)
    BY <1>0, <2>1, <2>2, SumFirst
  <2> HIDE DEF z
  <2>4. y # z /\ y \in v /\ v \in SUBSET S /\ v # u /\ v \subseteq u
    BY <2>2, <2>3
  <2>5. SumFunctionOnSet(F, v) = F[y] + SumFunctionOnSet(F, w)
    BY <2>1, <2>4
  <2>6. u \ {y} \in SUBSET S /\ z \in u \ {y} /\ u \ {y} # u /\ (u \ {y}) \ {z} = w
    BY <2>2, <2>3, <2>4
  <2>7. SumFunctionOnSet(F, u \ {y}) = F[z] + SumFunctionOnSet(F, w)
    BY <2>1, <2>6
  <2>8. F[y] \in Int /\ F[z] \in Int /\ SumFunctionOnSet(F, w) \in Int
    BY <1>0, <2>2, <2>3, <2>4
  <2>9. QED
    BY <2>2, <2>3, <2>5, <2>7, <2>8
<1>2. QED
  BY <1>1

LEMMA SumAdd ==
  ASSUME NEW F, NEW S, IsFiniteSet(S), NEW x, x \notin S,
         \A y \in S \cup {x} : F[y] \in Int
  PROVE  SumFunctionOnSet(F, S \cup {x}) = F[x] + SumFunctionOnSet(F, S)
<1>1. IsFiniteSet(S \cup {x}) /\ (S \cup {x}) \ {x} = S /\ x \in S \cup {x}
  BY FS_AddElement
<1>2. SumFunctionOnSet(F, S \cup {x}) = F[x] + SumFunctionOnSet(F, (S \cup {x}) \ {x})
  BY <1>1, SumRemove
<1>3. QED
  BY <1>1, <1>2

\* The sum over two sets that have nothing in common.
LEMMA SumUnion ==
  ASSUME NEW F, NEW S, NEW T, IsFiniteSet(S), IsFiniteSet(T), S \cap T = {},
         \A x \in S \cup T : F[x] \in Int
  PROVE  SumFunctionOnSet(F, S \cup T) = SumFunctionOnSet(F, S) + SumFunctionOnSet(F, T)
<1> DEFINE C == {u \in SUBSET T : SumFunctionOnSet(F, S \cup u)
                                     # SumFunctionOnSet(F, S) + SumFunctionOnSet(F, u)}
<1>0. SumFunctionOnSet(F, S) \in Int
  BY SumType
<1>1. C = {}
  <2> SUFFICES ASSUME C # {} PROVE FALSE
    OBVIOUS
  <2>1. PICK u \in C : \A v \in C : v \subseteq u => v = u
    <3>1. C \in SUBSET (SUBSET T)
      OBVIOUS
    <3> HIDE DEF C
    <3>2. QED
      BY <3>1, SmallestSubset
  <2>2. u # {}
    <3>1. S \cup {} = S /\ SumFunctionOnSet(F, {}) = 0
      BY SumEmpty
    <3>2. SumFunctionOnSet(F, S \cup {})
             = SumFunctionOnSet(F, S) + SumFunctionOnSet(F, {})
      BY <1>0, <3>1
    <3>3. QED
      BY <2>1, <3>2
  <2>3. PICK x \in u : TRUE
    BY <2>2
  <2> DEFINE v == u \ {x}
  <2>4. /\ v \in SUBSET T /\ v # u /\ u \in SUBSET T /\ x \notin S \cup v
        /\ S \cup u = (S \cup v) \cup {x} /\ u = v \cup {x}
    BY <2>1, <2>3
  <2> HIDE DEF v
  <2>5. IsFiniteSet(v) /\ IsFiniteSet(S \cup v) /\ \A y \in S \cup u : F[y] \in Int
    BY <2>4, FS_Subset, FS_Union
  <2>6. SumFunctionOnSet(F, S \cup v) = SumFunctionOnSet(F, S) + SumFunctionOnSet(F, v)
    BY <2>1, <2>4
  <2>7. SumFunctionOnSet(F, (S \cup v) \cup {x}) = F[x] + SumFunctionOnSet(F, S \cup v)
    BY <2>4, <2>5, SumAdd
  <2>8. SumFunctionOnSet(F, v \cup {x}) = F[x] + SumFunctionOnSet(F, v)
    BY <2>4, <2>5, SumAdd
  <2>9. F[x] \in Int /\ SumFunctionOnSet(F, v) \in Int
    BY <2>3, <2>4, <2>5, SumType
  <2>10. SumFunctionOnSet(F, S \cup u) = SumFunctionOnSet(F, S) + SumFunctionOnSet(F, u)
    <3>1. SumFunctionOnSet(F, S \cup u) = F[x] + SumFunctionOnSet(F, S \cup v)
      BY <2>4, <2>7
    <3>2. SumFunctionOnSet(F, u) = F[x] + SumFunctionOnSet(F, v)
      BY <2>4, <2>8
    <3>3. QED
      BY <1>0, <2>6, <2>9, <3>1, <3>2
  <2>11. QED
    BY <2>1, <2>10
<1>2. T \notin C
  BY <1>1
<1>3. QED
  BY <1>2

LEMMA SumZero ==
  ASSUME NEW F, NEW S, IsFiniteSet(S), \A x \in S : F[x] = 0
  PROVE  SumFunctionOnSet(F, S) = 0
<1> DEFINE C == {u \in SUBSET S : SumFunctionOnSet(F, u) # 0}
<1>1. C = {}
  <2> SUFFICES ASSUME C # {} PROVE FALSE
    OBVIOUS
  <2>1. PICK u \in C : \A v \in C : v \subseteq u => v = u
    <3>1. C \in SUBSET (SUBSET S)
      OBVIOUS
    <3> HIDE DEF C
    <3>2. QED
      BY <3>1, SmallestSubset
  <2>2. u # {} /\ IsFiniteSet(u)
    BY <2>1, SumEmpty, FS_Subset
  <2>3. /\ First(u) \in u
        /\ SumFunctionOnSet(F, u) = F[First(u)] + SumFunctionOnSet(F, u \ {First(u)})
    BY <2>2, SumFirst
  <2>4. u \ {First(u)} \in SUBSET S /\ u \ {First(u)} # u /\ F[First(u)] = 0
    BY <2>1, <2>3
  <2>5. SumFunctionOnSet(F, u \ {First(u)}) = 0
    BY <2>1, <2>4
  <2>6. QED
    BY <2>1, <2>3, <2>4, <2>5
<1>2. QED
  BY <1>1

\* A sum over a part and the rest.
LEMMA SumSplit ==
  ASSUME NEW F, NEW S, IsFiniteSet(S), \A x \in S : F[x] \in Int, NEW T \in SUBSET S
  PROVE  /\ IsFiniteSet(T) /\ IsFiniteSet(S \ T)
         /\ SumFunctionOnSet(F, S) = SumFunctionOnSet(F, T) + SumFunctionOnSet(F, S \ T)
<1>1. IsFiniteSet(T) /\ IsFiniteSet(S \ T)
  BY FS_Subset
<1> DEFINE R == S \ T
<1>2. T \cup R = S /\ T \cap R = {} /\ IsFiniteSet(R)
  BY <1>1
<1> HIDE DEF R
<1>3. SumFunctionOnSet(F, T \cup R) = SumFunctionOnSet(F, T) + SumFunctionOnSet(F, R)
  BY <1>1, <1>2, SumUnion
<1>4. SumFunctionOnSet(F, S) = SumFunctionOnSet(F, T) + SumFunctionOnSet(F, R)
  BY <1>2, <1>3
<1>5. QED
  BY <1>1, <1>4 DEF R

\* Summands that are zero do not count.
LEMMA SumSupport ==
  ASSUME NEW F, NEW S, IsFiniteSet(S), \A x \in S : F[x] \in Int,
         NEW T \in SUBSET S, \A x \in S \ T : F[x] = 0
  PROVE  SumFunctionOnSet(F, S) = SumFunctionOnSet(F, T)
<1>1. IsFiniteSet(T) /\ IsFiniteSet(S \ T)
  BY FS_Subset
<1>2. SumFunctionOnSet(F, S \ T) = 0
  BY <1>1, SumZero
<1>3. SumFunctionOnSet(F, T) \in Int
  BY <1>1, SumType
<1>4. SumFunctionOnSet(F, S) = SumFunctionOnSet(F, T) + SumFunctionOnSet(F, S \ T)
  BY SumSplit
<1>5. QED
  BY <1>2, <1>3, <1>4

LEMMA SumPlus ==
  ASSUME NEW F, NEW G, NEW H, NEW S, IsFiniteSet(S),
         \A x \in S : F[x] \in Int /\ G[x] \in Int /\ H[x] = F[x] + G[x]
  PROVE  SumFunctionOnSet(H, S) = SumFunctionOnSet(F, S) + SumFunctionOnSet(G, S)
<1> DEFINE C == {u \in SUBSET S : SumFunctionOnSet(H, u)
                                     # SumFunctionOnSet(F, u) + SumFunctionOnSet(G, u)}
<1>1. C = {}
  <2> SUFFICES ASSUME C # {} PROVE FALSE
    OBVIOUS
  <2>1. PICK u \in C : \A v \in C : v \subseteq u => v = u
    <3>1. C \in SUBSET (SUBSET S)
      OBVIOUS
    <3> HIDE DEF C
    <3>2. QED
      BY <3>1, SmallestSubset
  <2>2. u # {} /\ IsFiniteSet(u)
    <3>1. SumFunctionOnSet(H, {}) = SumFunctionOnSet(F, {}) + SumFunctionOnSet(G, {})
      BY SumEmpty
    <3>2. u # {}
      BY <2>1, <3>1
    <3>3. IsFiniteSet(u)
      BY <2>1, FS_Subset
    <3>4. QED
      BY <3>2, <3>3
  <2> DEFINE x == First(u)
             v == u \ {x}
  <2>3. /\ x \in u
        /\ SumFunctionOnSet(F, u) = F[x] + SumFunctionOnSet(F, v)
        /\ SumFunctionOnSet(G, u) = G[x] + SumFunctionOnSet(G, v)
        /\ SumFunctionOnSet(H, u) = H[x] + SumFunctionOnSet(H, v)
    BY <2>2, SumFirst
  <2> HIDE DEF x
  <2>4. v \in SUBSET S /\ v # u /\ v \subseteq u /\ x \in S
    BY <2>1, <2>3
  <2>5. SumFunctionOnSet(H, v) = SumFunctionOnSet(F, v) + SumFunctionOnSet(G, v)
    BY <2>1, <2>4
  <2>6. SumFunctionOnSet(F, v) \in Int /\ SumFunctionOnSet(G, v) \in Int
    BY <2>4, SumType, FS_Subset
  <2>7. SumFunctionOnSet(H, u) = SumFunctionOnSet(F, u) + SumFunctionOnSet(G, u)
    BY <2>3, <2>4, <2>5, <2>6
  <2>8. QED
    BY <2>1, <2>7
<1>2. S \notin C
  BY <1>1
<1>3. QED
  BY <1>2

LEMMA SumNatural ==
  ASSUME NEW F, NEW S, IsFiniteSet(S), \A x \in S : F[x] \in Nat
  PROVE  SumFunctionOnSet(F, S) \in Nat
<1> DEFINE C == {u \in SUBSET S : SumFunctionOnSet(F, u) \notin Nat}
<1>1. C = {}
  <2> SUFFICES ASSUME C # {} PROVE FALSE
    OBVIOUS
  <2>1. PICK u \in C : \A v \in C : v \subseteq u => v = u
    <3>1. C \in SUBSET (SUBSET S)
      OBVIOUS
    <3> HIDE DEF C
    <3>2. QED
      BY <3>1, SmallestSubset
  <2>2. u # {}
    <3>1. SumFunctionOnSet(F, {}) \in Nat
      BY SumEmpty
    <3>2. QED
      BY <2>1, <3>1
  <2>3. IsFiniteSet(u)
    BY <2>1, FS_Subset
  <2>4. /\ First(u) \in u
        /\ SumFunctionOnSet(F, u) = F[First(u)] + SumFunctionOnSet(F, u \ {First(u)})
    BY <2>2, <2>3, SumFirst
  <2>5. u \ {First(u)} \in SUBSET S /\ u \ {First(u)} # u /\ F[First(u)] \in Nat
    BY <2>1, <2>4
  <2>6. SumFunctionOnSet(F, u \ {First(u)}) \in Nat
    BY <2>1, <2>5
  <2>7. QED
    BY <2>1, <2>4, <2>5, <2>6
<1>2. QED
  BY <1>1

LEMMA SumMonotone ==
  ASSUME NEW F, NEW S, IsFiniteSet(S), \A x \in S : F[x] \in Nat, NEW T \in SUBSET S
  PROVE  SumFunctionOnSet(F, T) <= SumFunctionOnSet(F, S)
<1>1. IsFiniteSet(T) /\ IsFiniteSet(S \ T)
  BY FS_Subset
<1>2. SumFunctionOnSet(F, T) \in Nat /\ SumFunctionOnSet(F, S \ T) \in Nat
  BY <1>1, SumNatural
<1>3. SumFunctionOnSet(F, S) = SumFunctionOnSet(F, T) + SumFunctionOnSet(F, S \ T)
  BY SumSplit
<1>4. QED
  BY <1>2, <1>3

\* The same summands under other names.
LEMMA SumReindex ==
  ASSUME NEW F, NEW G, NEW S, NEW T, IsFiniteSet(S), NEW h \in [S -> T],
         \A x, y \in S : h[x] = h[y] => x = y, \A y \in T : \E x \in S : h[x] = y,
         \A x \in S : F[x] \in Int /\ G[h[x]] = F[x]
  PROVE  SumFunctionOnSet(F, S) = SumFunctionOnSet(G, T)
<1> DEFINE Image(u) == {y \in T : \E x \in u : h[x] = y}
           C == {u \in SUBSET S : SumFunctionOnSet(F, u) # SumFunctionOnSet(G, Image(u))}
<1>0. IsFiniteSet(T)
  <2>1. h \in Surjection(S, T)
    BY DEF Surjection
  <2>2. QED
    BY <2>1, FS_Surjection
<1>1. C = {}
  <2> SUFFICES ASSUME C # {} PROVE FALSE
    OBVIOUS
  <2>1. PICK u \in C : \A v \in C : v \subseteq u => v = u
    <3>1. C \in SUBSET (SUBSET S)
      OBVIOUS
    <3> HIDE DEF C
    <3>2. QED
      BY <3>1, SmallestSubset
  <2>2. u # {}
    <3>1. Image({}) = {}
      OBVIOUS
    <3>2. SumFunctionOnSet(F, {}) = SumFunctionOnSet(G, Image({}))
      BY <3>1, SumEmpty
    <3>3. QED
      BY <2>1, <3>2
  <2>3. PICK x \in u : TRUE
    BY <2>2
  <2> DEFINE v == u \ {x}
  <2>4. /\ u \in SUBSET S /\ v \in SUBSET S /\ v # u /\ v \subseteq u /\ x \in S
        /\ x \notin v /\ u = v \cup {x}
    BY <2>1, <2>3
  <2> HIDE DEF v
  <2>5. h[x] \notin Image(v) /\ Image(u) = Image(v) \cup {h[x]}
    BY <2>4
  <2>6. SumFunctionOnSet(F, v) = SumFunctionOnSet(G, Image(v))
    BY <2>1, <2>4
  <2>7. /\ IsFiniteSet(v) /\ IsFiniteSet(Image(v))
        /\ \A y \in v \cup {x} : F[y] \in Int
        /\ \A y \in Image(v) \cup {h[x]} : G[y] \in Int
    <3>1. Image(v) \in SUBSET T
      OBVIOUS
    <3>2. \A y \in T : G[y] \in Int
      OBVIOUS
    <3> HIDE DEF Image
    <3>3. QED
      BY <1>0, <2>4, <3>1, <3>2, FS_Subset
  <2>8. SumFunctionOnSet(F, v \cup {x}) = F[x] + SumFunctionOnSet(F, v)
    BY <2>4, <2>7, SumAdd
  <2> HIDE DEF Image, C
  <2>9. SumFunctionOnSet(G, Image(v) \cup {h[x]}) = G[h[x]] + SumFunctionOnSet(G, Image(v))
    BY <2>5, <2>7, SumAdd
  <2>10. SumFunctionOnSet(F, u) = SumFunctionOnSet(G, Image(u))
    BY <2>4, <2>5, <2>6, <2>8, <2>9
  <2>11. QED
    BY <2>1, <2>10 DEF C
<1>2. Image(S) = T /\ S \notin C
  BY <1>1
<1>3. QED
  BY <1>2

===============================================================================
