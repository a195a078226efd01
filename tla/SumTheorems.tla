---------------------------- MODULE SumTheorems ----------------------------
(***************************************************************************)
(* Sums of integers over a finite set: what the balances of BillingSession *)
(* and the books of QuotaLedger are made of.                               *)
(*                                                                         *)
(* SumFunctionOnSet is defined by a CHOOSE of a recursive function on the  *)
(* subsets.  That such a function exists and is unique is shown here       *)
(* without an induction rule, by minimal counterexample: a set of bad      *)
(* subsets of a finite set has a smallest member, and the one below it is  *)
(* good.  Every other fact is proved from there in the same way.           *)
(***************************************************************************)
EXTENDS Integers, FiniteSets, Functions, FiniteSetTheorems, TLAPS

\* The element by which the recursion of a sum shrinks a set.
Pick(s) == CHOOSE x \in s : TRUE

\* g is the recursive function whose value on S is the sum of f over S.
IsSum(g, f, S) ==
    g = [s \in SUBSET S |->
           IF s = {} THEN 0 ELSE f[Pick(s)] + g[s \ {Pick(s)}]]

\* The library's definition, with its fold written out.
LEMMA SumUnfolds ==
    ASSUME NEW f, NEW S
    PROVE  SumFunctionOnSet(f, S) = (CHOOSE g : IsSum(g, f, S))[S]
BY DEF SumFunctionOnSet, FoldFunctionOnSet, MapThenFoldSet, IsSum, Pick

\* A set of subsets of a finite set has a member with no other below it.
LEMMA MinimalSet ==
    ASSUME NEW S, IsFiniteSet(S), NEW B, B \subseteq SUBSET S, B # {}
    PROVE  \E m \in B : \A t \in B : t \subseteq m => t = m
<1>1. IsWellFoundedOn(StrictSubsetOrdering(S), SUBSET S)
  BY FS_StrictSubsetOrderingWellFounded, FS_FiniteSubsetsOfFinite
<1>2. PICK m \in B : \A t \in B : <<t, m>> \notin StrictSubsetOrdering(S)
  BY <1>1, WFMin
<1> QED
  BY <1>2 DEF StrictSubsetOrdering

\* A nonempty set of natural numbers has a least member.
LEMMA LeastNumber ==
    ASSUME NEW B, B \subseteq Nat, B # {}
    PROVE  \E m \in B : \A n \in B : m <= n
<1>1. PICK k \in B : TRUE
  OBVIOUS
<1> DEFINE Below(n) == {i \in 0 .. k : i < n}
<1> DEFINE D == {Below(n) : n \in {b \in B : b <= k}}
<1>2. IsFiniteSet(0 .. k)
  BY FS_Interval
<1>3. Below(k) \in D
  BY <1>1
<1>4. \A d \in D : d \subseteq 0 .. k
  OBVIOUS
<1>5. PICK m \in D : \A t \in D : t \subseteq m => t = m
  <2>1. D \subseteq SUBSET (0 .. k) /\ D # {}
    BY <1>3, <1>4
  <2> DEFINE K == 0 .. k
  <2>2. IsFiniteSet(K) /\ D \subseteq SUBSET K /\ D # {}
    BY <1>2, <2>1
  <2> HIDE DEF D, K
  <2> QED BY <2>2, MinimalSet
<1>6. PICK b \in B : b <= k /\ m = Below(b)
  BY <1>5
<1>7. ASSUME NEW n \in B, n < b PROVE FALSE
  <2>1. Below(n) \in D
    BY <1>6, <1>7
  <2>2. Below(n) \subseteq m
    BY <1>6, <1>7
  <2>3. Below(n) = Below(b)
    BY <1>5, <1>6, <2>1, <2>2
  <2>4. n \in Below(b) /\ n \notin Below(n)
    BY <1>6, <1>7
  <2> QED BY <2>3, <2>4
<1> QED BY <1>6, <1>7

\* g satisfies the recursion on the subsets of at most n elements.
SumUpTo(g, f, S, n) ==
    \A s \in SUBSET S : Cardinality(s) <= n =>
        g[s] = IF s = {} THEN 0 ELSE f[Pick(s)] + g[s \ {Pick(s)}]

\* A nonempty set contains the element that is picked from it.
LEMMA PickIsIn ==
    ASSUME NEW s, s # {}
    PROVE  Pick(s) \in s
BY DEF Pick

\* The recursion has a solution up to every size: extend a solution up to
\* n - 1 by one more unfolding.
LEMMA SumUpToExists ==
    ASSUME NEW f, NEW S, IsFiniteSet(S)
    PROVE  \A n \in Nat : \E g : g = [s \in SUBSET S |-> g[s]]
                                 /\ SumUpTo(g, f, S, n)
<1> DEFINE Good(n) == \E g : g = [s \in SUBSET S |-> g[s]]
                             /\ SumUpTo(g, f, S, n)
           B == {n \in Nat : ~Good(n)}
<1> SUFFICES ASSUME B # {} PROVE FALSE
  OBVIOUS
<1>1. PICK m \in B : \A n \in B : m <= n
  <2>1. B \subseteq Nat
    OBVIOUS
  <2> HIDE DEF B
  <2> QED BY <2>1, LeastNumber
<1>2. \A s \in SUBSET S : /\ IsFiniteSet(s) /\ Cardinality(s) \in Nat
                          /\ Cardinality(s) = 0 => s = {}
  BY FS_Subset, FS_CardinalityType, FS_EmptySet
<1>3. \A s \in SUBSET S : s # {} =>
        /\ Pick(s) \in s /\ s \ {Pick(s)} \in SUBSET S
        /\ Cardinality(s \ {Pick(s)}) = Cardinality(s) - 1
  BY <1>2, FS_RemoveElement, PickIsIn
<1>4. CASE m = 0
  <2> DEFINE g == [s \in SUBSET S |-> 0]
  <2>1. SumUpTo(g, f, S, 0)
    BY <1>2 DEF SumUpTo
  <2>2. g = [s \in SUBSET S |-> g[s]]
    OBVIOUS
  <2>3. Good(0)
    <3> HIDE DEF g
    <3> QED BY <2>1, <2>2
  <2> QED BY <2>3, <1>4
<1>5. CASE m # 0
  <2>1. m - 1 \in Nat /\ m - 1 \notin B
    <3>1. m \in Nat
      BY <1>1
    <3> HIDE DEF B
    <3> QED BY <1>1, <1>5, <3>1
  <2>2. PICK h : h = [s \in SUBSET S |-> h[s]] /\ SumUpTo(h, f, S, m - 1)
    BY <2>1
  <2> DEFINE g == [s \in SUBSET S |->
                     IF s = {} THEN 0 ELSE f[Pick(s)] + h[s \ {Pick(s)}]]
  <2>3. ASSUME NEW s \in SUBSET S, Cardinality(s) <= m - 1
        PROVE  g[s] = h[s]
    BY <2>2, <2>3 DEF SumUpTo
  <2>4. SumUpTo(g, f, S, m)
    <3>1. SUFFICES ASSUME NEW s \in SUBSET S, Cardinality(s) <= m
                   PROVE  g[s] = IF s = {} THEN 0
                                 ELSE f[Pick(s)] + g[s \ {Pick(s)}]
      BY DEF SumUpTo
    <3>2. CASE s = {}
      BY <3>2
    <3>3. CASE s # {}
      <4>1. /\ s \ {Pick(s)} \in SUBSET S
            /\ Cardinality(s \ {Pick(s)}) <= m - 1
        BY <1>2, <1>3, <3>1, <3>3
      <4>2. g[s \ {Pick(s)}] = h[s \ {Pick(s)}]
        BY <2>3, <4>1
      <4> QED BY <4>2, <3>3
    <3> QED BY <3>2, <3>3
  <2>5. g = [s \in SUBSET S |-> g[s]]
    OBVIOUS
  <2>6. Good(m)
    <3> HIDE DEF g
    <3> QED BY <2>4, <2>5
  <2> QED BY <2>6
<1> QED BY <1>4, <1>5

\* The recursion has a solution.
LEMMA SumExists ==
    ASSUME NEW f, NEW S, IsFiniteSet(S)
    PROVE  \E g : IsSum(g, f, S)
<1>1. Cardinality(S) \in Nat
  BY FS_CardinalityType
<1>2. PICK g : g = [s \in SUBSET S |-> g[s]]
               /\ SumUpTo(g, f, S, Cardinality(S))
  BY <1>1, SumUpToExists
<1>3. \A s \in SUBSET S : Cardinality(s) <= Cardinality(S)
  BY FS_Subset
<1>4. IsSum(g, f, S)
  BY <1>2, <1>3 DEF IsSum, SumUpTo
<1> QED BY <1>4

\* Two functions equal on T have, on the subsets of T, the same sum,
\* whichever superset of T the recursion was solved on.
LEMMA SumUnique ==
    ASSUME NEW f, NEW h, NEW S, IsFiniteSet(S), NEW T \in SUBSET S,
           \A x \in T : f[x] = h[x],
           NEW g, IsSum(g, f, S), NEW k, IsSum(k, h, T)
    PROVE  \A s \in SUBSET T : g[s] = k[s]
<1> DEFINE B == {s \in SUBSET T : g[s] # k[s]}
<1> SUFFICES ASSUME B # {} PROVE FALSE
  OBVIOUS
<1>1. IsFiniteSet(T)
  BY FS_Subset
<1>2. PICK m \in B : \A t \in B : t \subseteq m => t = m
  <2>1. B \subseteq SUBSET T
    OBVIOUS
  <2> HIDE DEF B
  <2> QED BY <1>1, <2>1, MinimalSet
<1>3. m # {}
  BY <1>2 DEF IsSum
<1>4. Pick(m) \in m
  BY <1>3, PickIsIn
<1>5. g[m \ {Pick(m)}] = k[m \ {Pick(m)}]
  BY <1>2, <1>4
<1>6. g[m] = f[Pick(m)] + g[m \ {Pick(m)}]
  BY <1>2, <1>3 DEF IsSum
<1>7. k[m] = h[Pick(m)] + k[m \ {Pick(m)}]
  BY <1>2, <1>3 DEF IsSum
<1> QED BY <1>2, <1>4, <1>5, <1>6, <1>7

\* The sum over a subset is the value there of the solution on the whole set.
LEMMA SumAgrees ==
    ASSUME NEW f, NEW S, IsFiniteSet(S), NEW g, IsSum(g, f, S)
    PROVE  \A s \in SUBSET S : SumFunctionOnSet(f, s) = g[s]
<1> SUFFICES ASSUME NEW s \in SUBSET S
             PROVE  SumFunctionOnSet(f, s) = g[s]
  OBVIOUS
<1>1. IsFiniteSet(s)
  BY FS_Subset
<1> DEFINE k == CHOOSE x : IsSum(x, f, s)
<1>2. IsSum(k, f, s)
  BY <1>1, SumExists
<1>3. SumFunctionOnSet(f, s) = k[s]
  BY SumUnfolds
<1> HIDE DEF k
<1>4. g[s] = k[s]
  BY <1>2, SumUnique
<1> QED BY <1>3, <1>4

\* The empty sum is zero.
LEMMA SumEmpty ==
    ASSUME NEW f
    PROVE  SumFunctionOnSet(f, {}) = 0
<1>1. IsFiniteSet({})
  BY FS_EmptySet
<1>2. PICK g : IsSum(g, f, {})
  BY <1>1, SumExists
<1>3. SumFunctionOnSet(f, {}) = g[{}]
  BY <1>1, <1>2, SumAgrees
<1> QED BY <1>2, <1>3 DEF IsSum

\* A sum is the picked element's value plus the sum of the rest.
LEMMA SumPick ==
    ASSUME NEW f, NEW S, IsFiniteSet(S), S # {}
    PROVE  SumFunctionOnSet(f, S)
             = f[Pick(S)] + SumFunctionOnSet(f, S \ {Pick(S)})
<1>1. PICK g : IsSum(g, f, S)
  BY SumExists
<1>2. SumFunctionOnSet(f, S) = g[S]
  BY <1>1, SumAgrees
<1>3. SumFunctionOnSet(f, S \ {Pick(S)}) = g[S \ {Pick(S)}]
  BY <1>1, SumAgrees
<1> QED BY <1>1, <1>2, <1>3 DEF IsSum

\* A sum of integers is an integer.
LEMMA SumType ==
    ASSUME NEW f, NEW S, IsFiniteSet(S), \A x \in S : f[x] \in Int
    PROVE  SumFunctionOnSet(f, S) \in Int
<1> DEFINE B == {s \in SUBSET S : SumFunctionOnSet(f, s) \notin Int}
<1> SUFFICES ASSUME B # {} PROVE FALSE
  OBVIOUS
<1>1. PICK m \in B : \A t \in B : t \subseteq m => t = m
  <2>1. B \subseteq SUBSET S
    OBVIOUS
  <2> HIDE DEF B
  <2> QED BY <2>1, MinimalSet
<1>2. m # {}
  <2>1. SumFunctionOnSet(f, {}) \in Int
    BY SumEmpty
  <2>2. SumFunctionOnSet(f, m) \notin Int
    BY <1>1
  <2> QED BY <2>1, <2>2
<1>3. Pick(m) \in m /\ IsFiniteSet(m)
  BY <1>2, PickIsIn, FS_Subset
<1>4. SumFunctionOnSet(f, m \ {Pick(m)}) \in Int
  BY <1>1, <1>3
<1>5. SumFunctionOnSet(f, m)
        = f[Pick(m)] + SumFunctionOnSet(f, m \ {Pick(m)})
  BY <1>2, <1>3, SumPick
<1> QED BY <1>1, <1>3, <1>4, <1>5

\* A sum depends only on the values on its set.
LEMMA SumSame ==
    ASSUME NEW f, NEW h, NEW S, IsFiniteSet(S), \A x \in S : f[x] = h[x]
    PROVE  SumFunctionOnSet(f, S) = SumFunctionOnSet(h, S)
<1>1. PICK g : IsSum(g, f, S)
  BY SumExists
<1>2. PICK k : IsSum(k, h, S)
  BY SumExists
<1>3. g[S] = k[S]
  BY <1>1, <1>2, SumUnique
<1> QED BY <1>1, <1>2, <1>3, SumAgrees

\* Any element can be taken out of a sum, not only the picked one.
LEMMA SumRemove ==
    ASSUME NEW f, NEW S, IsFiniteSet(S), \A x \in S : f[x] \in Int,
           NEW x \in S
    PROVE  SumFunctionOnSet(f, S) = f[x] + SumFunctionOnSet(f, S \ {x})
<1> DEFINE Bad(s) == \E y \in s : SumFunctionOnSet(f, s)
                                    # f[y] + SumFunctionOnSet(f, s \ {y})
           B == {s \in SUBSET S : Bad(s)}
<1> SUFFICES ASSUME B # {} PROVE FALSE
  OBVIOUS
<1>1. PICK m \in B : \A t \in B : t \subseteq m => t = m
  <2>1. B \subseteq SUBSET S
    OBVIOUS
  <2> HIDE DEF B
  <2> QED BY <2>1, MinimalSet
<1>2. PICK y \in m : SumFunctionOnSet(f, m)
                       # f[y] + SumFunctionOnSet(f, m \ {y})
  BY <1>1
<1>3. m \in SUBSET S /\ IsFiniteSet(m)
  BY <1>1, FS_Subset
<1> DEFINE p == Pick(m)
<1>4. p \in m
  BY <1>2, PickIsIn
<1>5. SumFunctionOnSet(f, m) = f[p] + SumFunctionOnSet(f, m \ {p})
  BY <1>2, <1>3, SumPick
<1> HIDE DEF p
<1>6. p # y
  BY <1>2, <1>5
<1>7. ASSUME NEW a \in m, NEW b \in m, a # b
      PROVE  SumFunctionOnSet(f, m \ {a})
               = f[b] + SumFunctionOnSet(f, (m \ {a}) \ {b})
  <2>1. m \ {a} \in SUBSET S /\ m \ {a} # m /\ b \in m \ {a}
    BY <1>3, <1>7
  <2>2. m \ {a} \notin B
    <3> HIDE DEF B
    <3> QED BY <1>1, <2>1
  <2> QED BY <2>1, <2>2
<1>8. (m \ {p}) \ {y} = (m \ {y}) \ {p}
  OBVIOUS
<1>9. SumFunctionOnSet(f, (m \ {p}) \ {y}) \in Int
  <2>1. IsFiniteSet((m \ {p}) \ {y})
    BY <1>3, FS_Subset
  <2> QED BY <2>1, <1>3, SumType
<1>10. f[p] \in Int /\ f[y] \in Int
  BY <1>2, <1>3, <1>4
<1> QED BY <1>2, <1>4, <1>5, <1>6, <1>7, <1>8, <1>9, <1>10

\* Adding an element adds its value.
LEMMA SumAdd ==
    ASSUME NEW f, NEW S, IsFiniteSet(S), NEW x, x \notin S,
           \A y \in S \cup {x} : f[y] \in Int
    PROVE  SumFunctionOnSet(f, S \cup {x}) = f[x] + SumFunctionOnSet(f, S)
<1>1. IsFiniteSet(S \cup {x})
  BY FS_AddElement
<1>2. x \in S \cup {x} /\ (S \cup {x}) \ {x} = S
  OBVIOUS
<1> QED BY <1>1, <1>2, SumRemove

\* Changing one value changes the sum by the difference: what a step of one
\* request, or of one operation, does to a balance.
LEMMA SumChange ==
    ASSUME NEW S, IsFiniteSet(S), NEW f \in [S -> Int], NEW h \in [S -> Int],
           NEW x \in S, \A y \in S \ {x} : h[y] = f[y]
    PROVE  SumFunctionOnSet(h, S) = SumFunctionOnSet(f, S) - f[x] + h[x]
<1> DEFINE R == S \ {x}
<1>1. IsFiniteSet(R)
  BY FS_Subset
<1>2. SumFunctionOnSet(h, R) = SumFunctionOnSet(f, R)
  BY <1>1, SumSame
<1>3. SumFunctionOnSet(f, R) \in Int
  BY <1>1, SumType
<1>4. SumFunctionOnSet(f, S) = f[x] + SumFunctionOnSet(f, R)
  BY SumRemove
<1>5. SumFunctionOnSet(h, S) = h[x] + SumFunctionOnSet(h, R)
  BY SumRemove
<1> HIDE DEF R
<1> QED BY <1>2, <1>3, <1>4, <1>5

\* Sums are monotonic in the values.
LEMMA SumOrder ==
    ASSUME NEW f, NEW h, NEW S, IsFiniteSet(S),
           \A x \in S : f[x] \in Int /\ h[x] \in Int /\ f[x] <= h[x]
    PROVE  SumFunctionOnSet(f, S) <= SumFunctionOnSet(h, S)
<1> DEFINE Ordered(s) == SumFunctionOnSet(f, s) <= SumFunctionOnSet(h, s)
           B == {s \in SUBSET S : ~Ordered(s)}
<1> SUFFICES ASSUME B # {} PROVE FALSE
  OBVIOUS
<1>1. PICK m \in B : \A t \in B : t \subseteq m => t = m
  <2>1. B \subseteq SUBSET S
    OBVIOUS
  <2> HIDE DEF B
  <2> QED BY <2>1, MinimalSet
<1>2. m # {}
  <2>1. Ordered({})
    BY SumEmpty
  <2>2. ~Ordered(m)
    BY <1>1
  <2> HIDE DEF Ordered
  <2> QED BY <2>1, <2>2
<1> DEFINE p == Pick(m)
           r == m \ {p}
<1>3. p \in m /\ IsFiniteSet(m) /\ IsFiniteSet(r)
  BY <1>2, PickIsIn, FS_Subset
<1>4. SumFunctionOnSet(f, m) = f[p] + SumFunctionOnSet(f, r)
  BY <1>2, <1>3, SumPick
<1>5. SumFunctionOnSet(h, m) = h[p] + SumFunctionOnSet(h, r)
  BY <1>2, <1>3, SumPick
<1>6. SumFunctionOnSet(f, r) \in Int /\ SumFunctionOnSet(h, r) \in Int
  BY <1>1, <1>3, SumType
<1>7. f[p] \in Int /\ h[p] \in Int /\ f[p] <= h[p]
  BY <1>1, <1>3
<1>8. Ordered(r)
  <2>1. r \in SUBSET S /\ r \subseteq m /\ r # m
    BY <1>1, <1>3
  <2>2. r \notin B
    <3> HIDE DEF B, r
    <3> QED BY <1>1, <2>1
  <2> HIDE DEF Ordered, r
  <2> QED BY <2>1, <2>2
<1> HIDE DEF p, r
<1>9. Ordered(m)
  BY <1>4, <1>5, <1>6, <1>7, <1>8
<1> HIDE DEF Ordered
<1> QED BY <1>1, <1>9

\* A sum of zeros is zero.
LEMMA SumZero ==
    ASSUME NEW f, NEW S, IsFiniteSet(S), \A x \in S : f[x] = 0
    PROVE  SumFunctionOnSet(f, S) = 0
<1> DEFINE B == {s \in SUBSET S : SumFunctionOnSet(f, s) # 0}
<1> SUFFICES ASSUME B # {} PROVE FALSE
  OBVIOUS
<1>2. PICK m \in B : \A t \in B : t \subseteq m => t = m
  <2>1. B \subseteq SUBSET S
    OBVIOUS
  <2> HIDE DEF B
  <2> QED BY <2>1, MinimalSet
<1>3. m # {}
  BY <1>2, SumEmpty
<1>4. Pick(m) \in m /\ IsFiniteSet(m)
  BY <1>3, PickIsIn, FS_Subset
<1>5. SumFunctionOnSet(f, m \ {Pick(m)}) = 0
  BY <1>2, <1>4
<1>6. SumFunctionOnSet(f, m)
        = f[Pick(m)] + SumFunctionOnSet(f, m \ {Pick(m)})
  BY <1>3, <1>4, SumPick
<1> QED BY <1>2, <1>4, <1>5, <1>6

\* A sum over a subset is the sum over the whole set of the function made zero
\* outside of it: a request can then join or leave the set without a new sum.
LEMMA SumSubset ==
    ASSUME NEW S, IsFiniteSet(S), NEW T, T \subseteq S,
           NEW f, \A x \in S : f[x] \in Int,
           NEW h, \A x \in S : h[x] = IF x \in T THEN f[x] ELSE 0
    PROVE  SumFunctionOnSet(f, T) = SumFunctionOnSet(h, S)
<1> DEFINE Same(s) == SumFunctionOnSet(f, s \cap T) = SumFunctionOnSet(h, s)
           B == {s \in SUBSET S : ~Same(s)}
<1> SUFFICES ASSUME B # {} PROVE FALSE
  <2>1. B = {} => Same(S)
    OBVIOUS
  <2>2. S \cap T = T
    OBVIOUS
  <2> QED BY <2>1, <2>2
<1>1. PICK m \in B : \A t \in B : t \subseteq m => t = m
  <2>1. B \subseteq SUBSET S
    OBVIOUS
  <2> HIDE DEF B
  <2> QED BY <2>1, MinimalSet
<1>2. m # {}
  <2>1. {} \cap T = {}
    OBVIOUS
  <2>2. Same({})
    BY <2>1, SumEmpty
  <2>3. ~Same(m)
    BY <1>1
  <2> HIDE DEF Same
  <2> QED BY <2>2, <2>3
<1> DEFINE p == Pick(m)
           r == m \ {p}
<1>3. p \in m /\ m \subseteq S /\ IsFiniteSet(m) /\ IsFiniteSet(r)
  BY <1>1, <1>2, PickIsIn, FS_Subset
<1>4. SumFunctionOnSet(h, m) = h[p] + SumFunctionOnSet(h, r)
  BY <1>2, <1>3, SumPick
<1>5. Same(r)
  <2>1. r \in SUBSET S /\ r \subseteq m /\ r # m
    BY <1>1, <1>3
  <2>2. r \notin B
    <3> HIDE DEF B, r
    <3> QED BY <1>1, <2>1
  <2> HIDE DEF Same, r
  <2> QED BY <2>1, <2>2
<1>6. SumFunctionOnSet(f, m \cap T)
        = h[p] + SumFunctionOnSet(f, r \cap T)
  <2>1. IsFiniteSet(m \cap T) /\ IsFiniteSet(r \cap T)
    BY <1>3, FS_Subset
  <2>2. CASE p \in T
    <3>1. p \in m \cap T /\ (m \cap T) \ {p} = r \cap T
      BY <1>3, <2>2
    <3>2. SumFunctionOnSet(f, m \cap T)
            = f[p] + SumFunctionOnSet(f, (m \cap T) \ {p})
      <4> DEFINE M == m \cap T
      <4>1. IsFiniteSet(M) /\ p \in M /\ \A x \in M : f[x] \in Int
        BY <1>3, <2>1, <3>1
      <4> HIDE DEF M, p
      <4>2. SumFunctionOnSet(f, M) = f[p] + SumFunctionOnSet(f, M \ {p})
        BY <4>1, SumRemove
      <4> QED BY <4>2 DEF M
    <3> QED BY <1>3, <2>2, <3>1, <3>2
  <2>3. CASE p \notin T
    <3>1. m \cap T = r \cap T
      BY <2>3
    <3>2. h[p] = 0
      BY <1>3, <2>3
    <3>3. SumFunctionOnSet(f, r \cap T) \in Int
      <4>1. \A x \in r \cap T : f[x] \in Int
        BY <1>3
      <4> HIDE DEF r
      <4> QED BY <2>1, <4>1, SumType
    <3>4. SumFunctionOnSet(f, m \cap T) = SumFunctionOnSet(f, r \cap T)
      BY <3>1
    <3> HIDE DEF p, r
    <3> QED BY <3>2, <3>3, <3>4
  <2> QED BY <2>2, <2>3
<1>7. Same(m)
  BY <1>4, <1>5, <1>6
<1> HIDE DEF Same
<1> QED BY <1>1, <1>7
=============================================================================
