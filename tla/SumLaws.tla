------------------------------ MODULE SumLaws -------------------------------
(***************************************************************************)
(* Sums over finite sets, for the proofs about quantities and balances: what *)
(* the library's SumFunctionOnSet(f, S) is when S is empty, gains or loses   *)
(* an element, or when f changes at one place.                             *)
(*                                                                         *)
(* The library defines a sum by recursion over the subsets of S.  That the   *)
(* recursion has exactly one solution, and what it computes, is shown without *)
(* an induction rule: a set of sets on which a claim fails would have a     *)
(* smallest member (SmallestFails), and for that one the claim is proved.   *)
(***************************************************************************)
EXTENDS FiniteSetTheorems, Functions, TLAPS

\* The element that the recursion takes out first.
SumFirst(s) == CHOOSE x \in s : TRUE

\* g tells the sum of f over every subset of T.
SumsUp(f, g, T) ==
  g = [s \in SUBSET T |-> IF s = {} THEN 0 ELSE f[SumFirst(s)] + g[s \ {SumFirst(s)}]]

AllSums(f, T) == CHOOSE g : SumsUp(f, g, T)

\* The library's sum is that recursion's.
LEMMA SumIs ==
  ASSUME NEW f, NEW S
  PROVE  SumFunctionOnSet(f, S) = AllSums(f, S)[S]
BY DEF SumFunctionOnSet, FoldFunctionOnSet, MapThenFoldSet, AllSums, SumsUp, SumFirst

\* A set that has an element is picked one of its own.
LEMMA FirstIn == ASSUME NEW S, S # {} PROVE SumFirst(S) \in S
BY DEF SumFirst

\* Among subsets of a finite set there is one that contains none of the others.
LEMMA SmallestFails ==
  ASSUME NEW S, IsFiniteSet(S), NEW F \in SUBSET (SUBSET S), F # {}
  PROVE  \E T \in F : \A U \in F : U \subseteq T => U = T
<1>1. F \subseteq FiniteSubsetsOf(S)
  BY FS_FiniteSubsetsOfFinite
<1>2. PICK T \in F : \A U \in F : ~(<<U, T>> \in StrictSubsetOrdering(S))
  BY <1>1, WFMin, FS_StrictSubsetOrderingWellFounded
<1>3. \A U \in F : U \subseteq T => U = T
  BY <1>2 DEF StrictSubsetOrdering
<1> QED BY <1>3

\* The recursion has at most one solution.
LEMMA SumsUnique ==
  ASSUME NEW f, NEW S, IsFiniteSet(S), NEW g, NEW h, SumsUp(f, g, S), SumsUp(f, h, S)
  PROVE  g = h
<1> DEFINE F == {s \in SUBSET S : g[s] # h[s]}
<1>1. F = {}
  <2> SUFFICES ASSUME F # {} PROVE FALSE
    OBVIOUS
  <2>1. PICK T \in F : \A U \in F : U \subseteq T => U = T
    <3> HIDE DEF F
    <3>1. F \in SUBSET (SUBSET S)
      BY DEF F
    <3> QED BY <3>1, SmallestFails
  <2>2. T # {}
    BY DEF SumsUp
  <2>3. SumFirst(T) \in T
    BY <2>2, FirstIn
  <2>4. g[T \ {SumFirst(T)}] = h[T \ {SumFirst(T)}]
    BY <2>1, <2>3
  <2>5. g[T] = f[SumFirst(T)] + g[T \ {SumFirst(T)}] /\ h[T] = f[SumFirst(T)] + h[T \ {SumFirst(T)}]
    BY <2>2 DEF SumsUp
  <2> QED BY <2>4, <2>5, <2>1
<1> QED BY <1>1 DEF SumsUp

\* A solution for a set is one for its subsets.
LEMMA SumsSubset ==
  ASSUME NEW f, NEW S, NEW g, SumsUp(f, g, S), NEW T \in SUBSET S
  PROVE  SumsUp(f, [s \in SUBSET T |-> g[s]], T)
<1> DEFINE h == [s \in SUBSET T |-> g[s]]
<1>1. \A s \in SUBSET T : h[s] = IF s = {} THEN 0 ELSE f[SumFirst(s)] + h[s \ {SumFirst(s)}]
  <2> SUFFICES ASSUME NEW s \in SUBSET T PROVE h[s] = IF s = {} THEN 0 ELSE f[SumFirst(s)] + h[s \ {SumFirst(s)}]
    OBVIOUS
  <2>1. h[s] = g[s] /\ h[s \ {SumFirst(s)}] = g[s \ {SumFirst(s)}]
    OBVIOUS
  <2> QED BY <2>1 DEF SumsUp
<1>2. h = [s \in SUBSET T |-> h[s]]
  OBVIOUS
<1> HIDE DEF h
<1>3. SumsUp(f, h, T)
  BY <1>1, <1>2 DEF SumsUp
<1> QED BY <1>3 DEF h

\* The recursion has a solution for every finite set.
LEMMA SumsExist ==
  ASSUME NEW f, NEW S, IsFiniteSet(S)
  PROVE  SumsUp(f, AllSums(f, S), S)
<1> DEFINE F == {T \in SUBSET S : ~ \E g : SumsUp(f, g, T)}
           H(u) == AllSums(f, u)[u]
<1>1. F = {}
  <2> SUFFICES ASSUME F # {} PROVE FALSE
    OBVIOUS
  <2>1. PICK T \in F : \A U \in F : U \subseteq T => U = T
    <3> HIDE DEF F
    <3>1. F \in SUBSET (SUBSET S)
      BY DEF F
    <3> QED BY <3>1, SmallestFails
  <2>2. \A U \in SUBSET T : U # T => SumsUp(f, AllSums(f, U), U)
    BY <2>1 DEF AllSums
  <2>3. \A U \in SUBSET T : U # T /\ U # {} => H(U) = f[SumFirst(U)] + H(U \ {SumFirst(U)})
    <3> SUFFICES ASSUME NEW U \in SUBSET T, U # T, U # {}
                 PROVE  H(U) = f[SumFirst(U)] + H(U \ {SumFirst(U)})
      OBVIOUS
    <3> DEFINE V == U \ {SumFirst(U)}
               g == AllSums(f, U)
    <3>1. SumsUp(f, g, U) /\ V \in SUBSET U /\ V \in SUBSET T /\ V # T
      BY <2>2, FirstIn
    <3>2. g[U] = f[SumFirst(U)] + g[V]
      BY <3>1 DEF SumsUp
    <3>3. SumsUp(f, AllSums(f, V), V) /\ IsFiniteSet(V)
      BY <2>2, <3>1, FS_Subset
    <3> HIDE DEF V, g
    <3>4. SumsUp(f, [s \in SUBSET V |-> g[s]], V)
      BY <3>1, SumsSubset
    <3>5. AllSums(f, V) = [s \in SUBSET V |-> g[s]]
      BY <3>3, <3>4, SumsUnique
    <3>6. AllSums(f, V)[V] = g[V]
      BY <3>5
    <3> QED BY <3>2, <3>6 DEF g, V
  <2>4. H({}) = 0 \/ T = {}
    BY <2>2 DEF SumsUp
  <2> DEFINE G == [s \in SUBSET T |-> IF s = {} THEN 0 ELSE f[SumFirst(s)] + H(s \ {SumFirst(s)})]
  <2>5. ASSUME NEW s \in SUBSET T, s # {} PROVE G[s] = f[SumFirst(s)] + G[s \ {SumFirst(s)}]
    <3> DEFINE u == s \ {SumFirst(s)}
    <3>1. u \in SUBSET T /\ u # T /\ T # {}
      BY <2>5, FirstIn
    <3>2. G[s] = f[SumFirst(s)] + H(u)
      BY <2>5
    <3>3. CASE u = {}
      <4>1. H(u) = 0
        BY <3>1, <3>3, <2>4
      <4>2. G[u] = 0
        BY <3>3
      <4> QED BY <3>2, <4>1, <4>2
    <3>4. CASE u # {}
      <4>1. G[u] = f[SumFirst(u)] + H(u \ {SumFirst(u)})
        BY <3>1, <3>4
      <4>2. H(u) = f[SumFirst(u)] + H(u \ {SumFirst(u)})
        BY <3>1, <3>4, <2>3
      <4> QED BY <3>2, <4>1, <4>2
    <3> QED BY <3>3, <3>4
  <2>6. G = [s \in SUBSET T |-> IF s = {} THEN 0 ELSE f[SumFirst(s)] + G[s \ {SumFirst(s)}]]
    <3>1. \A s \in SUBSET T : G[s] = IF s = {} THEN 0 ELSE f[SumFirst(s)] + G[s \ {SumFirst(s)}]
      BY <2>5
    <3>2. G = [s \in SUBSET T |-> G[s]]
      OBVIOUS
    <3> HIDE DEF G
    <3> QED BY <3>1, <3>2
  <2>7. SumsUp(f, G, T)
    <3> HIDE DEF G
    <3> QED BY <2>6 DEF SumsUp
  <2> QED BY <2>7, <2>1
<1>2. S \notin F
  BY <1>1
<1> QED BY <1>2 DEF AllSums

\* The empty sum.
LEMMA SumEmpty == ASSUME NEW f PROVE SumFunctionOnSet(f, {}) = 0
<1>1. SumsUp(f, AllSums(f, {}), {})
  BY SumsExist, FS_EmptySet
<1>2. AllSums(f, {})[{}] = 0
  BY <1>1 DEF SumsUp
<1> QED BY <1>2, SumIs

\* The element the recursion takes out first adds its value.
LEMMA SumPick ==
  ASSUME NEW f, NEW S, IsFiniteSet(S), S # {}
  PROVE  SumFunctionOnSet(f, S) = f[SumFirst(S)] + SumFunctionOnSet(f, S \ {SumFirst(S)})
<1> DEFINE V == S \ {SumFirst(S)}
           g == AllSums(f, S)
<1>1. SumsUp(f, g, S) /\ IsFiniteSet(V) /\ V \in SUBSET S
  BY SumsExist, FS_Subset
<1>2. g[S] = f[SumFirst(S)] + g[V]
  BY <1>1 DEF SumsUp
<1> HIDE DEF V, g
<1>3. SumsUp(f, [s \in SUBSET V |-> g[s]], V) /\ SumsUp(f, AllSums(f, V), V)
  BY <1>1, SumsSubset, SumsExist
<1>5. AllSums(f, V) = [s \in SUBSET V |-> g[s]]
  BY <1>1, <1>3, SumsUnique
<1>4. AllSums(f, V)[V] = g[V]
  BY <1>5
<1> QED BY <1>2, <1>4, SumIs DEF g, V

\* The sum of integers is one.
LEMMA SumInt ==
  ASSUME NEW f, NEW S, IsFiniteSet(S), \A i \in S : f[i] \in Int
  PROVE  SumFunctionOnSet(f, S) \in Int
<1> DEFINE F == {T \in SUBSET S : SumFunctionOnSet(f, T) \notin Int}
<1>1. F = {}
  <2> SUFFICES ASSUME F # {} PROVE FALSE
    OBVIOUS
  <2>1. PICK T \in F : \A U \in F : U \subseteq T => U = T
    <3> HIDE DEF F
    <3>1. F \in SUBSET (SUBSET S)
      BY DEF F
    <3> QED BY <3>1, SmallestFails
  <2>2. T # {}
    BY SumEmpty
  <2>3. IsFiniteSet(T) /\ SumFirst(T) \in T
    BY <2>2, FirstIn, FS_Subset
  <2>4. SumFunctionOnSet(f, T \ {SumFirst(T)}) \in Int
    BY <2>1, <2>3
  <2>5. SumFunctionOnSet(f, T) = f[SumFirst(T)] + SumFunctionOnSet(f, T \ {SumFirst(T)})
    BY <2>2, <2>3, SumPick
  <2>6. f[SumFirst(T)] \in Int
    BY <2>3
  <2> QED BY <2>4, <2>5, <2>6
<1>2. S \notin F
  BY <1>1
<1> QED BY <1>2

\* Any element may be taken out first.
LEMMA SumTake ==
  ASSUME NEW f, NEW S, IsFiniteSet(S), \A i \in S : f[i] \in Int, NEW x \in S
  PROVE  SumFunctionOnSet(f, S) = f[x] + SumFunctionOnSet(f, S \ {x})
<1> DEFINE Splits(T) == \A y \in T : SumFunctionOnSet(f, T) = f[y] + SumFunctionOnSet(f, T \ {y})
           F == {T \in SUBSET S : ~Splits(T)}
<1>1. F = {}
  <2> SUFFICES ASSUME F # {} PROVE FALSE
    OBVIOUS
  <2>1. PICK T \in F : \A U \in F : U \subseteq T => U = T
    <3> HIDE DEF F
    <3>1. F \in SUBSET (SUBSET S)
      BY DEF F
    <3> QED BY <3>1, SmallestFails
  <2>2. PICK y \in T : SumFunctionOnSet(f, T) # f[y] + SumFunctionOnSet(f, T \ {y})
    BY <2>1
  <2> DEFINE p == SumFirst(T)
             R == T \ {y, p}
  <2>3. p \in T /\ IsFiniteSet(T) /\ IsFiniteSet(R) /\ R \subseteq S
    BY <2>2, FirstIn, FS_Subset
  <2>4. SumFunctionOnSet(f, T) = f[p] + SumFunctionOnSet(f, T \ {p})
    BY <2>2, <2>3, SumPick
  <2>5. p # y
    BY <2>2, <2>4
  <2>6. Splits(T \ {p}) /\ Splits(T \ {y})
    BY <2>1, <2>2, <2>3
  <2>7. SumFunctionOnSet(f, T \ {p}) = f[y] + SumFunctionOnSet(f, R)
    <3>1. y \in T \ {p} /\ (T \ {p}) \ {y} = R
      BY <2>2, <2>5
    <3> QED BY <3>1, <2>6
  <2>8. SumFunctionOnSet(f, T \ {y}) = f[p] + SumFunctionOnSet(f, R)
    <3>1. p \in T \ {y} /\ (T \ {y}) \ {p} = R
      BY <2>3, <2>5
    <3> QED BY <3>1, <2>6
  <2>9. SumFunctionOnSet(f, R) \in Int /\ f[p] \in Int /\ f[y] \in Int
    BY <2>2, <2>3, SumInt
  <2> QED
    <3> HIDE DEF p, R
    <3> QED BY <2>2, <2>4, <2>7, <2>8, <2>9
<1>2. Splits(S)
  BY <1>1
<1> QED BY <1>2

\* One more element adds its value.
LEMMA SumAdd ==
  ASSUME NEW f, NEW S, IsFiniteSet(S), NEW x, x \notin S, \A i \in S \cup {x} : f[i] \in Int
  PROVE  SumFunctionOnSet(f, S \cup {x}) = SumFunctionOnSet(f, S) + f[x]
<1> DEFINE T == S \cup {x}
<1>1. IsFiniteSet(T) /\ x \in T /\ T \ {x} = S /\ \A i \in T : f[i] \in Int
  BY FS_AddElement
<1> HIDE DEF T
<1>2. SumFunctionOnSet(f, T) = f[x] + SumFunctionOnSet(f, S)
  BY <1>1, SumTake
<1>3. SumFunctionOnSet(f, S) \in Int /\ f[x] \in Int
  BY <1>1, SumInt
<1> QED BY <1>2, <1>3 DEF T

\* Only the values at the elements count.
LEMMA SumSame ==
  ASSUME NEW f, NEW g, NEW S, IsFiniteSet(S), \A i \in S : f[i] = g[i]
  PROVE  SumFunctionOnSet(f, S) = SumFunctionOnSet(g, S)
<1> DEFINE F == {T \in SUBSET S : SumFunctionOnSet(f, T) # SumFunctionOnSet(g, T)}
<1>1. F = {}
  <2> SUFFICES ASSUME F # {} PROVE FALSE
    OBVIOUS
  <2>1. PICK T \in F : \A U \in F : U \subseteq T => U = T
    <3> HIDE DEF F
    <3>1. F \in SUBSET (SUBSET S)
      BY DEF F
    <3> QED BY <3>1, SmallestFails
  <2>2. T # {}
    BY SumEmpty
  <2>3. IsFiniteSet(T) /\ SumFirst(T) \in T
    BY <2>2, FirstIn, FS_Subset
  <2>4. SumFunctionOnSet(f, T \ {SumFirst(T)}) = SumFunctionOnSet(g, T \ {SumFirst(T)})
    BY <2>1, <2>3
  <2>5. /\ SumFunctionOnSet(f, T) = f[SumFirst(T)] + SumFunctionOnSet(f, T \ {SumFirst(T)})
        /\ SumFunctionOnSet(g, T) = g[SumFirst(T)] + SumFunctionOnSet(g, T \ {SumFirst(T)})
    BY <2>2, <2>3, SumPick
  <2>6. f[SumFirst(T)] = g[SumFirst(T)]
    BY <2>3
  <2> QED BY <2>1, <2>4, <2>5, <2>6
<1>2. S \notin F
  BY <1>1
<1> QED BY <1>2

\* One value changes.
LEMMA SumChange ==
  ASSUME NEW f, NEW g, NEW S, IsFiniteSet(S), NEW x \in S,
         \A i \in S : f[i] \in Int /\ g[i] \in Int, \A i \in S \ {x} : f[i] = g[i]
  PROVE  SumFunctionOnSet(g, S) = SumFunctionOnSet(f, S) + (g[x] - f[x])
<1> DEFINE V == S \ {x}
<1>1. IsFiniteSet(V) /\ \A i \in V : f[i] \in Int /\ f[i] = g[i]
  BY FS_Subset
<1>2. SumFunctionOnSet(f, S) = f[x] + SumFunctionOnSet(f, V) /\ SumFunctionOnSet(g, S) = g[x] + SumFunctionOnSet(g, V)
  BY SumTake
<1> HIDE DEF V
<1>3. SumFunctionOnSet(f, V) = SumFunctionOnSet(g, V) /\ SumFunctionOnSet(f, V) \in Int
  BY <1>1, SumSame, SumInt
<1>4. f[x] \in Int /\ g[x] \in Int
  OBVIOUS
<1> QED BY <1>2, <1>3, <1>4

\* Values that are nowhere negative have such a sum, which is at least each of them.
LEMMA SumNat ==
  ASSUME NEW f, NEW S, IsFiniteSet(S), \A i \in S : f[i] \in Nat
  PROVE  /\ SumFunctionOnSet(f, S) \in Nat
         /\ \A i \in S : f[i] <= SumFunctionOnSet(f, S)
<1> DEFINE F == {T \in SUBSET S : SumFunctionOnSet(f, T) \notin Nat}
<1>1. F = {}
  <2> SUFFICES ASSUME F # {} PROVE FALSE
    OBVIOUS
  <2>1. PICK T \in F : \A U \in F : U \subseteq T => U = T
    <3> HIDE DEF F
    <3>1. F \in SUBSET (SUBSET S)
      BY DEF F
    <3> QED BY <3>1, SmallestFails
  <2>2. T # {}
    BY SumEmpty
  <2>3. IsFiniteSet(T) /\ SumFirst(T) \in T
    BY <2>2, FirstIn, FS_Subset
  <2>4. SumFunctionOnSet(f, T \ {SumFirst(T)}) \in Nat
    BY <2>1, <2>3
  <2>5. SumFunctionOnSet(f, T) = f[SumFirst(T)] + SumFunctionOnSet(f, T \ {SumFirst(T)})
    BY <2>2, <2>3, SumPick
  <2>6. f[SumFirst(T)] \in Nat
    BY <2>3
  <2> QED BY <2>1, <2>4, <2>5, <2>6
<1>2. SumFunctionOnSet(f, S) \in Nat
  BY <1>1
<1>3. ASSUME NEW i \in S PROVE f[i] <= SumFunctionOnSet(f, S)
  <2>1. SumFunctionOnSet(f, S) = f[i] + SumFunctionOnSet(f, S \ {i})
    BY SumTake
  <2>2. SumFunctionOnSet(f, S \ {i}) \in Nat
    BY <1>1
  <2> QED BY <2>1, <2>2
<1> QED BY <1>2, <1>3

\* Elements whose value is zero may be left out.
LEMMA SumZeros ==
  ASSUME NEW f, NEW S, IsFiniteSet(S), NEW R \in SUBSET S, \A i \in S \ R : f[i] = 0,
         \A i \in R : f[i] \in Int
  PROVE  SumFunctionOnSet(f, S) = SumFunctionOnSet(f, R)
<1> DEFINE F == {T \in SUBSET (S \ R) : SumFunctionOnSet(f, R \cup T) # SumFunctionOnSet(f, R)}
<1>1. F = {}
  <2> SUFFICES ASSUME F # {} PROVE FALSE
    OBVIOUS
  <2>1. PICK T \in F : \A U \in F : U \subseteq T => U = T
    <3> HIDE DEF F
    <3>1. F \in SUBSET (SUBSET S)
      BY DEF F
    <3> QED BY <3>1, SmallestFails
  <2>2. T # {} /\ T \subseteq S \ R /\ SumFunctionOnSet(f, R \cup T) # SumFunctionOnSet(f, R)
    OBVIOUS
  <2>3. PICK x \in T : TRUE
    BY <2>2
  <2> DEFINE V == R \cup (T \ {x})
  <2>4. SumFunctionOnSet(f, V) = SumFunctionOnSet(f, R)
    <3>1. T \ {x} \in SUBSET (S \ R) /\ T \ {x} \notin F
      <4> HIDE DEF F
      <4>1. T \ {x} \subseteq T /\ T \ {x} # T
        BY <2>3
      <4> QED BY <4>1, <2>1, <2>2
    <3> QED BY <3>1
  <2>5. IsFiniteSet(V) /\ x \notin V /\ R \cup T = V \cup {x} /\ f[x] = 0 /\ \A i \in V : f[i] \in Int
    BY <2>2, <2>3, FS_Subset
  <2> HIDE DEF V, F
  <2>6. SumFunctionOnSet(f, V \cup {x}) = SumFunctionOnSet(f, V) + f[x] /\ SumFunctionOnSet(f, V) \in Int
    <3>1. \A i \in V \cup {x} : f[i] \in Int
      BY <2>5
    <3> QED BY <2>5, <3>1, SumAdd, SumInt
  <2>7. SumFunctionOnSet(f, R \cup T) = SumFunctionOnSet(f, V)
    <3>1. PICK a : a = SumFunctionOnSet(f, V) /\ a \in Int /\ a + 0 = a
      BY <2>6
    <3> QED BY <2>5, <2>6, <3>1
  <2> QED BY <2>2, <2>4, <2>7
<1>2. (S \ R) \notin F /\ R \cup (S \ R) = S
  BY <1>1
<1> QED BY <1>2

\* The sum of the values at the elements with a property is the sum over all the
\* elements of those values, and zero elsewhere.
LEMMA SumWhere ==
  ASSUME NEW f, NEW S, IsFiniteSet(S), NEW R \in SUBSET S, \A i \in R : f[i] \in Int
  PROVE  SumFunctionOnSet(f, R) = SumFunctionOnSet([i \in S |-> IF i \in R THEN f[i] ELSE 0], S)
<1> DEFINE g == [i \in S |-> IF i \in R THEN f[i] ELSE 0]
<1>1. (\A i \in S \ R : g[i] = 0) /\ (\A i \in R : g[i] = f[i] /\ g[i] \in Int) /\ IsFiniteSet(R)
  BY FS_Subset
<1> HIDE DEF g
<1>2. SumFunctionOnSet(g, S) = SumFunctionOnSet(g, R)
  BY <1>1, SumZeros
<1>3. SumFunctionOnSet(f, R) = SumFunctionOnSet(g, R)
  BY <1>1, SumSame
<1> QED BY <1>2, <1>3 DEF g

\* Values that add up element by element have sums that do.
LEMMA SumPlus ==
  ASSUME NEW f, NEW g, NEW h, NEW S, IsFiniteSet(S),
         \A i \in S : f[i] \in Int /\ g[i] \in Int /\ h[i] = f[i] + g[i]
  PROVE  SumFunctionOnSet(h, S) = SumFunctionOnSet(f, S) + SumFunctionOnSet(g, S)
<1> DEFINE F == {T \in SUBSET S : SumFunctionOnSet(h, T) # SumFunctionOnSet(f, T) + SumFunctionOnSet(g, T)}
<1>1. F = {}
  <2> SUFFICES ASSUME F # {} PROVE FALSE
    OBVIOUS
  <2>1. PICK T \in F : \A U \in F : U \subseteq T => U = T
    <3> HIDE DEF F
    <3>1. F \in SUBSET (SUBSET S)
      BY DEF F
    <3> QED BY <3>1, SmallestFails
  <2>2. T # {}
    <3>1. /\ SumFunctionOnSet(f, {}) = 0 /\ SumFunctionOnSet(g, {}) = 0
          /\ SumFunctionOnSet(h, {}) = 0
      BY SumEmpty
    <3>2. SumFunctionOnSet(h, {}) = SumFunctionOnSet(f, {}) + SumFunctionOnSet(g, {})
      BY <3>1
    <3> QED BY <3>2
  <2> DEFINE x == SumFirst(T)
             V == T \ {x}
  <2>3. IsFiniteSet(T) /\ x \in T /\ IsFiniteSet(V) /\ V \subseteq S
    BY <2>2, FirstIn, FS_Subset
  <2>4. SumFunctionOnSet(h, V) = SumFunctionOnSet(f, V) + SumFunctionOnSet(g, V)
    BY <2>1, <2>3
  <2>5. /\ SumFunctionOnSet(f, T) = f[x] + SumFunctionOnSet(f, V)
        /\ SumFunctionOnSet(g, T) = g[x] + SumFunctionOnSet(g, V)
        /\ SumFunctionOnSet(h, T) = h[x] + SumFunctionOnSet(h, V)
    BY <2>2, <2>3, SumPick
  <2>6. f[x] \in Int /\ g[x] \in Int /\ h[x] = f[x] + g[x] /\ T \in SUBSET S
    BY <2>3
  <2> HIDE DEF V, x
  <2>7. SumFunctionOnSet(f, V) \in Int /\ SumFunctionOnSet(g, V) \in Int
    BY <2>3, SumInt
  <2>8. SumFunctionOnSet(h, T) = SumFunctionOnSet(f, T) + SumFunctionOnSet(g, T)
    BY <2>4, <2>5, <2>6, <2>7
  <2> QED BY <2>1, <2>8
<1>2. S \notin F
  BY <1>1
<1> QED BY <1>2

\* Adding to one value adds as much to the sum.
LEMMA SumBump ==
  ASSUME NEW f, NEW S, IsFiniteSet(S), NEW x \in S, NEW d \in Int,
         \A i \in S : f[i] \in Int,
         NEW g, \A i \in S : g[i] = IF i = x THEN f[i] + d ELSE f[i]
  PROVE  SumFunctionOnSet(g, S) = SumFunctionOnSet(f, S) + d
<1>1. \A i \in S : f[i] \in Int /\ g[i] \in Int
  OBVIOUS
<1>2. \A i \in S \ {x} : f[i] = g[i]
  OBVIOUS
<1>3. SumFunctionOnSet(g, S) = SumFunctionOnSet(f, S) + (g[x] - f[x])
  BY <1>1, <1>2, SumChange
<1>4. g[x] = f[x] + d /\ SumFunctionOnSet(f, S) \in Int
  BY SumInt
<1> QED BY <1>3, <1>4

\* The sum of zeros.
LEMMA SumNone ==
  ASSUME NEW f, NEW S, IsFiniteSet(S), \A i \in S : f[i] = 0
  PROVE  SumFunctionOnSet(f, S) = 0
<1>1. SumFunctionOnSet(f, S) = SumFunctionOnSet(f, {})
  BY SumZeros
<1> QED BY <1>1, SumEmpty
\* The sum over two sets that share nothing is that of their sums.
LEMMA SumUnion ==
  ASSUME NEW f, NEW S, NEW R, IsFiniteSet(S), IsFiniteSet(R), S \cap R = {},
         \A i \in S \cup R : f[i] \in Int
  PROVE  SumFunctionOnSet(f, S \cup R) = SumFunctionOnSet(f, S) + SumFunctionOnSet(f, R)
<1> DEFINE T == S \cup R
           a == [i \in T |-> IF i \in S THEN f[i] ELSE 0]
           b == [i \in T |-> IF i \in R THEN f[i] ELSE 0]
<1>1. IsFiniteSet(T) /\ S \in SUBSET T /\ R \in SUBSET T
  BY FS_Union
<1>2. SumFunctionOnSet(f, S) = SumFunctionOnSet(a, T) /\ SumFunctionOnSet(f, R) = SumFunctionOnSet(b, T)
  <2>1. (\A i \in S : f[i] \in Int) /\ (\A i \in R : f[i] \in Int)
    OBVIOUS
  <2> HIDE DEF T
  <2> QED BY <1>1, <2>1, SumWhere
<1>3. \A i \in T : a[i] \in Int /\ b[i] \in Int /\ f[i] = a[i] + b[i]
  OBVIOUS
<1> HIDE DEF T, a, b
<1>4. SumFunctionOnSet(f, T) = SumFunctionOnSet(a, T) + SumFunctionOnSet(b, T)
  BY <1>1, <1>3, SumPlus
<1> QED BY <1>2, <1>4 DEF T

\* A finite set has finitely many images.
LEMMA FiniteImage ==
  ASSUME NEW S, IsFiniteSet(S), NEW g
  PROVE  IsFiniteSet({g[x] : x \in S})
<1> DEFINE T == {g[x] : x \in S}
           h == [x \in S |-> g[x]]
<1>1. h \in Surjection(S, T)
  BY DEF Surjection
<1> HIDE DEF T, h
<1>2. IsFiniteSet(T)
  BY <1>1, FS_Surjection
<1> QED BY <1>2 DEF T

\* Summing over the values of a function that takes each once.
LEMMA SumImage ==
  ASSUME NEW f, NEW g, NEW S, IsFiniteSet(S),
         \A x, y \in S : g[x] = g[y] => x = y,
         \A x \in S : f[g[x]] \in Int
  PROVE  SumFunctionOnSet(f, {g[x] : x \in S}) = SumFunctionOnSet([x \in S |-> f[g[x]]], S)
<1> DEFINE h == [x \in S |-> f[g[x]]]
           Im(T) == {g[x] : x \in T}
           F == {T \in SUBSET S : SumFunctionOnSet(f, Im(T)) # SumFunctionOnSet(h, T)}
<1>1. F = {}
  <2> SUFFICES ASSUME F # {} PROVE FALSE
    OBVIOUS
  <2>1. PICK T \in F : \A U \in F : U \subseteq T => U = T
    <3> HIDE DEF F
    <3>1. F \in SUBSET (SUBSET S)
      BY DEF F
    <3> QED BY <3>1, SmallestFails
  <2>2. T # {}
    <3>1. Im({}) = {}
      OBVIOUS
    <3>2. SumFunctionOnSet(f, {}) = 0 /\ SumFunctionOnSet(h, {}) = 0
      <4> HIDE DEF h
      <4> QED BY SumEmpty
    <3> QED BY <3>1, <3>2
  <2> DEFINE x == SumFirst(T)
             V == T \ {x}
  <2>3. IsFiniteSet(T) /\ x \in T /\ x \in S /\ IsFiniteSet(V) /\ V \subseteq S
    BY <2>2, FirstIn, FS_Subset
  <2>4. SumFunctionOnSet(f, Im(V)) = SumFunctionOnSet(h, V)
    BY <2>1, <2>3
  <2>5. SumFunctionOnSet(h, T) = h[x] + SumFunctionOnSet(h, V)
    <3> HIDE DEF h
    <3> QED BY <2>2, <2>3, SumPick
  <2>6. Im(T) = Im(V) \cup {g[x]} /\ g[x] \notin Im(V)
    BY <2>3
  <2>7. IsFiniteSet(Im(V))
    BY <2>3, FiniteImage
  <2>8. (\A i \in Im(V) \cup {g[x]} : f[i] \in Int) /\ h[x] = f[g[x]]
    BY <2>3
  <2>9. SumFunctionOnSet(f, Im(V)) \in Int
    BY <2>7, <2>8, SumInt
  <2>10. SumFunctionOnSet(f, Im(T)) = SumFunctionOnSet(f, Im(V)) + f[g[x]]
    <3> HIDE DEF V, x, Im
    <3> QED BY <2>6, <2>7, <2>8, SumAdd
  <2>11. PICK m \in Int : m = f[g[x]]
    BY <2>8
  <2>12. PICK n \in Int : n = SumFunctionOnSet(f, Im(V))
    BY <2>9
  <2>13. SumFunctionOnSet(f, Im(T)) = SumFunctionOnSet(h, T)
    <3> HIDE DEF V, x, Im, h
    <3> QED BY <2>4, <2>5, <2>8, <2>10, <2>11, <2>12
  <2> QED BY <2>1, <2>13
<1>2. S \notin F
  BY <1>1
<1> QED BY <1>2
=============================================================================
