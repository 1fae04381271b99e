--------------------------- MODULE ResearchProofs ---------------------------
(***************************************************************************)
(* Proofs about a search: the promotion gate of Gate in every one of its   *)
(* trials, for any number of windows, cells and starts and any returns;    *)
(* and the leaderboard of Research, for any configurations and rows.       *)
(*                                                                         *)
(* The gate counts windows, so its proofs rest on the sum of a function    *)
(* over a finite set.  A sum is a fold, which no proof here can unfold:    *)
(* TotalIsUnits shows that it is the size of a set, by looking at a        *)
(* smallest set for which it would not be.                                 *)
(***************************************************************************)
EXTENDS Research, FiniteSetTheorems, SequenceTheorems, WellFoundedInduction, TLAPS

-----------------------------------------------------------------------------
(* Sums over finite sets.                                                  *)

\* The sum of the values of f on S, which Count, CountUpTo and CountGe are.
Total(f, S) == MapThenSumSet(LAMBDA x : f[x], S)

\* A set with one element for each unit of that sum.
Units(f, S, W) == {u \in S \X (1..W) : u[2] <= f[u[1]]}

\* Every non-empty set of natural numbers has a least element.
LEMMA LeastNatural ==
  ASSUME NEW T \in SUBSET Nat, T # {}
  PROVE  \E n \in T : \A m \in T : n <= m
<1>1. PICK n \in T : \A m \in T : <<m, n>> \notin OpToRel(<, Nat)
  BY NatLessThanWellFounded, WFMin
<1>2. \A m \in T : ~(m < n)
  BY <1>1 DEF OpToRel
<1> QED
  BY <1>2

\* Every non-empty set of finite sets has a member with no other below it.
LEMMA LeastSet ==
  ASSUME NEW S, IsFiniteSet(S), NEW T \in SUBSET SUBSET S, T # {}
  PROVE  \E s \in T : \A r \in T : r \subseteq s => r = s
<1>1. SUBSET S = FiniteSubsetsOf(S)
  BY FS_FiniteSubsetsOfFinite
<1>2. PICK s \in T : \A r \in T : <<r, s>> \notin StrictSubsetOrdering(S)
  BY <1>1, FS_StrictSubsetOrderingWellFounded, WFMin
<1> QED
  BY <1>2 DEF StrictSubsetOrdering

\* A finite non-empty set of integers has a smallest element, which is Min.
LEMMA MinExists ==
  ASSUME NEW S \in SUBSET Int, IsFiniteSet(S), S # {}
  PROVE  Min(S) \in S /\ \A x \in S : Min(S) <= x
<1> DEFINE below(x) == {y \in S : y < x}
           sizes == {Cardinality(below(x)) : x \in S}
<1>1. \A x \in S : IsFiniteSet(below(x)) /\ Cardinality(below(x)) \in Nat
  BY FS_Subset, FS_CardinalityType
<1>2. sizes \in SUBSET Nat /\ sizes # {}
  BY <1>1
<1>3. PICK n \in sizes : \A m \in sizes : n <= m
  <2> HIDE DEF sizes
  <2> QED  BY <1>2, LeastNatural
<1>4. PICK x \in S : \A z \in S : Cardinality(below(x)) <= Cardinality(below(z))
  BY <1>3
<1>5. \A z \in S : ~(z < x)
  <2> SUFFICES ASSUME NEW z \in S, z < x PROVE FALSE
    OBVIOUS
  <2>0. x \in Int /\ z \in Int /\ \A y \in S : y \in Int
    OBVIOUS
  <2>1. below(z) \subseteq below(x) /\ z \in below(x) /\ z \notin below(z)
    <3>1. \A y \in S : y < z => y < x
      BY <2>0
    <3>2. z < x /\ ~(z < z)
      BY <2>0
    <3> QED
      BY <3>1, <3>2
  <2>2. Cardinality(below(z)) <= Cardinality(below(x)) /\ below(z) # below(x)
    BY <1>1, <2>1, FS_Subset
  <2>3. Cardinality(below(z)) # Cardinality(below(x))
    BY <1>1, <2>1, <2>2, FS_Subset
  <2> QED
    BY <1>1, <1>4, <2>2, <2>3
<1>6. \A z \in S : x <= z
  BY <1>5
<1> QED
  BY <1>6 DEF Min

\* The same for the largest element.
LEMMA MaxExists ==
  ASSUME NEW S \in SUBSET Int, IsFiniteSet(S), S # {}
  PROVE  Max(S) \in S /\ \A x \in S : x <= Max(S)
<1> DEFINE N == {-x : x \in S}
           minus == [x \in S |-> -x]
<1>1. IsFiniteSet(N)
  <2>1. N = {minus[x] : x \in S}
    OBVIOUS
  <2>2. minus \in Surjection(S, N)
    BY DEF Surjection
  <2> QED
    BY <2>2, FS_Surjection
<1>2. N \in SUBSET Int /\ N # {}
  OBVIOUS
<1>3. PICK n \in N : \A y \in N : n <= y
  <2> HIDE DEF N
  <2> QED  BY <1>1, <1>2, MinExists
<1>4. PICK x \in S : n = -x
  OBVIOUS
<1>5. \A z \in S : -z \in N
  OBVIOUS
<1>6. \A z \in S : z <= x
  BY <1>3, <1>4, <1>5
<1> QED
  BY <1>6 DEF Max

-----------------------------------------------------------------------------
\* The units of a sum are finitely many; a point more adds its value.
LEMMA UnitsStep ==
  ASSUME NEW S, IsFiniteSet(S), NEW W \in Nat, NEW f, \A x \in S : f[x] \in 0..W
  PROVE  /\ \A s \in SUBSET S :
              IsFiniteSet(Units(f, s, W)) /\ Cardinality(Units(f, s, W)) \in Nat
         /\ \A s \in SUBSET S : \A x \in s :
              Cardinality(Units(f, s, W)) = f[x] + Cardinality(Units(f, s \ {x}, W))
<1>1. IsFiniteSet(S \X (1..W))
  <2>1. \A k \in Nat : IsFiniteSet(1..k) /\ Cardinality(1..k) = k
    BY FS_Interval
  <2> QED
    BY <2>1, FS_Product
<1>2. \A T \in SUBSET S : IsFiniteSet(Units(f, T, W)) /\ Cardinality(Units(f, T, W)) \in Nat
  <2> SUFFICES ASSUME NEW T \in SUBSET S PROVE IsFiniteSet(Units(f, T, W))
    BY FS_CardinalityType
  <2>1. Units(f, T, W) \in SUBSET (S \X (1..W))
    BY DEF Units
  <2> QED
    BY <1>1, <2>1, FS_Subset
<1>3. ASSUME NEW s \in SUBSET S, NEW x \in s
      PROVE  Cardinality(Units(f, s, W)) = f[x] + Cardinality(Units(f, s \ {x}, W))
  <2> DEFINE A == Units(f, {x}, W)
             B == Units(f, s \ {x}, W)
             column == [k \in 1..f[x] |-> <<x, k>>]
  <2>1. Units(f, s, W) = A \cup B /\ A \cap B = {}
    BY DEF Units
  <2>2. column \in Bijection(1..f[x], A)
    <3>1. f[x] \in 0..W
      OBVIOUS
    <3>2. column \in [1..f[x] -> A]
      BY <3>1 DEF Units
    <3>3. \A a \in A : \E k \in 1..f[x] : column[k] = a
      BY <3>1 DEF Units
    <3> QED
      BY <3>2, <3>3 DEF Bijection, Injection, Surjection, IsInjective
  <2>3. IsFiniteSet(1..f[x]) /\ Cardinality(1..f[x]) = f[x]
    <3>1. \A k \in Nat : IsFiniteSet(1..k) /\ Cardinality(1..k) = k
      BY FS_Interval
    <3>2. f[x] \in Nat
      OBVIOUS
    <3> QED
      BY <3>1, <3>2
  <2>4. IsFiniteSet(A) /\ Cardinality(A) = f[x]
    <3> HIDE DEF A, column
    <3>1. ExistsBijection(1..f[x], A)
      BY <2>2 DEF ExistsBijection
    <3> QED
      BY <2>3, <3>1, FS_Bijection
  <2>5. IsFiniteSet(B) /\ Cardinality(B) \in Nat
    BY <1>2
  <2>6. Cardinality(A \cup B) = Cardinality(A) + Cardinality(B) - Cardinality(A \cap B)
    <3> HIDE DEF A, B
    <3> QED  BY <2>4, <2>5, FS_Union
  <2>7. Cardinality(A \cap B) = 0
    BY <2>1, FS_EmptySet
  <2>8. Cardinality(A \cup B) = f[x] + Cardinality(B)
    <3> HIDE DEF A, B
    <3> QED  BY <2>4, <2>5, <2>6, <2>7
  <2> QED
    BY <2>1, <2>8
<1> QED
  BY <1>2, <1>3

\* A sum is the number of its units: the fold is defined by recursion over the
\* subsets of S, and the numbers of units solve its equation, uniquely.
LEMMA TotalIsUnits ==
  ASSUME NEW S, IsFiniteSet(S), NEW W \in Nat, NEW f, \A x \in S : f[x] \in 0..W
  PROVE  Total(f, S) = Cardinality(Units(f, S, W))
<1> DEFINE pick(s) == CHOOSE x \in s : TRUE
           Step(h) == [s \in SUBSET S |->
                         IF s = {} THEN 0 ELSE f[pick(s)] + h[s \ {pick(s)}]]
           g == [s \in SUBSET S |-> Cardinality(Units(f, s, W))]
<1>1. \A s \in SUBSET S : s # {} => pick(s) \in s
  OBVIOUS
<1>2. ASSUME NEW s \in SUBSET S, s # {}
      PROVE  Cardinality(Units(f, s, W))
               = f[pick(s)] + Cardinality(Units(f, s \ {pick(s)}, W))
  <2>1. pick(s) \in s
    BY <1>1, <1>2
  <2> HIDE DEF pick
  <2> QED
    BY <2>1, UnitsStep
<1>3. Units(f, {}, W) = {}
  BY DEF Units
<1>4. g = Step(g)
  <2> SUFFICES ASSUME NEW s \in SUBSET S
               PROVE  g[s] = IF s = {} THEN 0 ELSE f[pick(s)] + g[s \ {pick(s)}]
    OBVIOUS
  <2>1. CASE s = {}
    BY <1>3, <2>1, FS_EmptySet
  <2>2. CASE s # {}
    <3>1. s \ {pick(s)} \in SUBSET S
      OBVIOUS
    <3> HIDE DEF pick
    <3> QED
      BY <1>2, <2>2, <3>1
  <2> QED
    BY <2>1, <2>2
<1>5. ASSUME NEW h, h = Step(h)
      PROVE  h[S] = g[S]
  <2> DEFINE Differ == {s \in SUBSET S : h[s] # g[s]}
  <2>1. CASE Differ = {}
    BY <2>1
  <2>2. CASE Differ # {}
    <3>1. PICK s \in Differ : \A r \in Differ : r \subseteq s => r = s
      <4> HIDE DEF Step, g
      <4>1. Differ \in SUBSET SUBSET S
        OBVIOUS
      <4> HIDE DEF Differ
      <4> QED  BY <2>2, <4>1, LeastSet
    <3>2. h[s] = (IF s = {} THEN 0 ELSE f[pick(s)] + h[s \ {pick(s)}])
      BY <1>5
    <3>3. g[s] = (IF s = {} THEN 0 ELSE f[pick(s)] + g[s \ {pick(s)}])
      BY <1>4
    <3>4. s # {} => s \ {pick(s)} \in SUBSET S /\ s \ {pick(s)} # s
      BY <1>1
    <3>5. s # {} => h[s \ {pick(s)}] = g[s \ {pick(s)}]
      <4> HIDE DEF pick, g, Step
      <4> QED  BY <3>1, <3>4
    <3>6. h[s] = g[s]
      <4> HIDE DEF pick, g, Step
      <4> QED  BY <3>2, <3>3, <3>5
    <3> QED
      BY <3>6
  <2> QED
    BY <2>1, <2>2
<1>6. Total(f, S) = (CHOOSE h : h = Step(h))[S]
  BY DEF Total, MapThenSumSet, MapThenFoldSet
<1>7. (CHOOSE h : h = Step(h))[S] = g[S]
  <2> HIDE DEF Step, g
  <2> QED  BY <1>4, <1>5
<1> QED
  BY <1>6, <1>7

\* The values to be added are natural numbers, none above some bound.
Summable(f, S) == \E W \in Nat : \A x \in S : f[x] \in 0..W

\* A part of them can be added too.
LEMMA SummablePart ==
  ASSUME NEW S, NEW f, Summable(f, S), NEW A \in SUBSET S
  PROVE  Summable(f, A)
  BY DEF Summable

\* A total is a natural number, and a point more adds its value.
LEMMA TotalStep ==
  ASSUME NEW S, IsFiniteSet(S), NEW f, Summable(f, S), NEW x \in S
  PROVE  /\ Total(f, S) \in Nat /\ Total(f, S \ {x}) \in Nat /\ f[x] \in Nat
         /\ Total(f, S) = f[x] + Total(f, S \ {x})
<1>1. PICK W \in Nat : \A y \in S : f[y] \in 0..W
  BY DEF Summable
<1>2. ASSUME NEW s \in SUBSET S
      PROVE  Total(f, s) = Cardinality(Units(f, s, W))
  <2>1. IsFiniteSet(s) /\ \A y \in s : f[y] \in 0..W
    BY <1>1, FS_Subset
  <2> QED
    BY <2>1, TotalIsUnits
<1>3. S \ {x} \in SUBSET S /\ S \in SUBSET S
  OBVIOUS
<1>4. \A s \in SUBSET S : Cardinality(Units(f, s, W)) \in Nat
  BY <1>1, UnitsStep
<1>5. Cardinality(Units(f, S, W)) = f[x] + Cardinality(Units(f, S \ {x}, W))
  BY <1>1, <1>3, UnitsStep
<1>6. f[x] \in Nat
  BY <1>1
<1> QED
  BY <1>2, <1>3, <1>4, <1>5, <1>6

\* Disjoint parts add up, and a part is no more than the whole.
LEMMA TotalOfParts ==
  ASSUME NEW S, IsFiniteSet(S), NEW f, Summable(f, S), NEW A \in SUBSET S
  PROVE  /\ Total(f, S) \in Nat /\ Total(f, A) \in Nat /\ Total(f, S \ A) \in Nat
         /\ Total(f, S) = Total(f, A) + Total(f, S \ A)
<1>1. PICK W \in Nat : \A y \in S : f[y] \in 0..W
  BY DEF Summable
<1> DEFINE B == S \ A
           UA == Units(f, A, W)
           UB == Units(f, B, W)
<1>2. ASSUME NEW s \in SUBSET S
      PROVE  Total(f, s) = Cardinality(Units(f, s, W))
  <2>1. IsFiniteSet(s) /\ \A y \in s : f[y] \in 0..W
    BY <1>1, FS_Subset
  <2> QED
    BY <2>1, TotalIsUnits
<1>3. /\ IsFiniteSet(UA) /\ Cardinality(UA) \in Nat
      /\ IsFiniteSet(UB) /\ Cardinality(UB) \in Nat
  BY <1>1, UnitsStep
<1>4. Units(f, S, W) = UA \cup UB /\ UA \cap UB = {}
  BY DEF Units
<1>5. Cardinality(UA \cup UB) = Cardinality(UA) + Cardinality(UB)
  <2> HIDE DEF UA, UB
  <2>1. Cardinality(UA \cup UB)
          = Cardinality(UA) + Cardinality(UB) - Cardinality(UA \cap UB)
    BY <1>3, FS_Union
  <2> QED
    BY <1>3, <1>4, <2>1, FS_EmptySet
<1>6. Total(f, A) = Cardinality(UA) /\ Total(f, B) = Cardinality(UB)
  BY <1>2
<1>7. Total(f, S) = Cardinality(UA \cup UB)
  BY <1>2, <1>4
<1> HIDE DEF UA, UB
<1> QED
  BY <1>3, <1>5, <1>6, <1>7

\* Only the values on the set matter.
LEMMA TotalOfSame ==
  ASSUME NEW S, IsFiniteSet(S), NEW f, Summable(f, S), NEW g, \A x \in S : f[x] = g[x]
  PROVE  Total(f, S) = Total(g, S)
<1>1. PICK W \in Nat : \A x \in S : f[x] \in 0..W
  BY DEF Summable
<1>2. \A x \in S : g[x] \in 0..W
  BY <1>1
<1>3. Units(f, S, W) = Units(g, S, W)
  BY DEF Units
<1>4. Total(f, S) = Cardinality(Units(f, S, W))
  BY <1>1, TotalIsUnits
<1>5. Total(g, S) = Cardinality(Units(g, S, W))
  BY <1>2, TotalIsUnits
<1> QED
  BY <1>3, <1>4, <1>5

\* The total of nothing, and of zeros.
LEMMA TotalOfZeros ==
  ASSUME NEW S, IsFiniteSet(S), NEW f, \A x \in S : f[x] = 0
  PROVE  Total(f, S) = 0
<1>1. \A x \in S : f[x] \in 0..0
  OBVIOUS
<1>2. Units(f, S, 0) = {}
  BY DEF Units
<1> QED
  BY <1>1, <1>2, TotalIsUnits, FS_EmptySet

\* Totals add up pointwise.
LEMMA TotalOfSum ==
  ASSUME NEW S, IsFiniteSet(S), NEW f, Summable(f, S), NEW g, Summable(g, S),
         NEW h, \A x \in S : h[x] = f[x] + g[x]
  PROVE  Total(h, S) = Total(f, S) + Total(g, S)
<1> DEFINE Differ == {s \in SUBSET S : Total(h, s) # Total(f, s) + Total(g, s)}
<1>1. Summable(h, S)
  <2>1. PICK W \in Nat : \A x \in S : f[x] \in 0..W
    BY DEF Summable
  <2>2. PICK V \in Nat : \A x \in S : g[x] \in 0..V
    BY DEF Summable
  <2>3. W + V \in Nat /\ \A x \in S : h[x] \in 0..(W + V)
    BY <2>1, <2>2
  <2> QED
    BY <2>3 DEF Summable
<1>2. ASSUME NEW s \in SUBSET S, NEW x \in s, s \ {x} \notin Differ
      PROVE  s \notin Differ
  <2>1. IsFiniteSet(s) /\ Summable(h, s) /\ Summable(f, s) /\ Summable(g, s)
    BY <1>1, FS_Subset, SummablePart
  <2>2. Total(h, s) = h[x] + Total(h, s \ {x})
    BY <2>1, TotalStep
  <2>3. Total(f, s) = f[x] + Total(f, s \ {x}) /\ Total(f, s \ {x}) \in Nat /\ f[x] \in Nat
    BY <2>1, TotalStep
  <2>4. Total(g, s) = g[x] + Total(g, s \ {x}) /\ Total(g, s \ {x}) \in Nat /\ g[x] \in Nat
    BY <2>1, TotalStep
  <2>5. Total(h, s \ {x}) = Total(f, s \ {x}) + Total(g, s \ {x})
    BY <1>2
  <2>6. h[x] = f[x] + g[x]
    OBVIOUS
  <2> QED
    BY <2>2, <2>3, <2>4, <2>5, <2>6
<1>3. {} \notin Differ
  <2>1. Total(f, {}) = 0 /\ Total(g, {}) = 0 /\ Total(h, {}) = 0
    BY TotalOfZeros, FS_EmptySet
  <2> QED
    BY <2>1
<1>4. Differ \in SUBSET SUBSET S
  OBVIOUS
<1>5. ASSUME Differ # {} PROVE FALSE
  <2> HIDE DEF Differ
  <2>1. PICK s \in Differ : \A r \in Differ : r \subseteq s => r = s
    BY <1>4, <1>5, LeastSet
  <2>2. PICK x \in s : TRUE
    BY <1>3, <2>1
  <2>3. s \ {x} \notin Differ
    BY <2>1, <2>2
  <2> QED
    BY <1>2, <1>4, <2>1, <2>2, <2>3
<1> QED
  BY <1>5

-----------------------------------------------------------------------------
(* The counts of a cell's windows.                                         *)

\* Returns are finitely many integers.
LEMMA ReturnsFinite ==
  /\ IsFiniteSet(Returns) /\ Returns \in SUBSET Int /\ \A r \in Returns : r \in Int
  /\ Target \in Int
  BY GateAssumption

\* Lists of results of any length.
Counts == [Returns -> Nat]

\* Counts can be added, since there are finitely many returns.
LEMMA CountsSummable ==
  ASSUME NEW rs \in Counts, NEW A \in SUBSET Returns
  PROVE  Summable(rs, A) /\ IsFiniteSet(A)
<1> USE ReturnsFinite
<1> DEFINE Values == {rs[r] : r \in A}
<1>1. IsFiniteSet(A)
  BY FS_Subset
<1>2. IsFiniteSet(Values)
  <2> DEFINE part == [r \in A |-> rs[r]]
  <2>1. part \in Surjection(A, Values)
    BY DEF Surjection
  <2> QED
    BY <1>1, <2>1, FS_Surjection
<1>3. \A r \in A : rs[r] \in Values
  OBVIOUS
<1>4. \A v \in Values : v \in Nat
  BY DEF Counts
<1> HIDE DEF Values
<1>5. CASE A = {}
  BY <1>1, <1>5 DEF Summable
<1>6. CASE A # {}
  <2>1. Values # {}
    BY <1>3, <1>6
  <2>2. Values \in SUBSET Int
    BY <1>4
  <2>3. Max(Values) \in Values /\ \A v \in Values : v <= Max(Values)
    BY <1>2, <2>1, <2>2, MaxExists
  <2>4. Max(Values) \in Nat /\ \A r \in A : rs[r] \in Nat /\ rs[r] <= Max(Values)
    BY <1>3, <1>4, <2>3
  <2> QED
    BY <1>1, <2>4 DEF Summable
<1> QED
  BY <1>5, <1>6

\* How many windows missed the target.
CountBelow(rs) == Total(rs, {r \in Returns : r < Target})

\* The counts are totals, and every window either reached the target or not.
LEMMA CountTypes ==
  ASSUME NEW rs \in Counts
  PROVE  /\ Count(rs) = Total(rs, Returns) /\ Count(rs) \in Nat
         /\ CountGe(rs) = Total(rs, {x \in Returns : x >= Target}) /\ CountGe(rs) \in Nat
         /\ CountBelow(rs) \in Nat
         /\ Count(rs) = CountGe(rs) + CountBelow(rs)
         /\ \A r \in Returns : /\ CountUpTo(rs, r) = Total(rs, {x \in Returns : x <= r})
                               /\ CountUpTo(rs, r) \in Nat
<1> USE ReturnsFinite
<1>1. Summable(rs, Returns)
  BY CountsSummable
<1>2. \A A \in SUBSET Returns :
        /\ Total(rs, A) \in Nat
        /\ Total(rs, Returns) = Total(rs, A) + Total(rs, Returns \ A)
  BY <1>1, TotalOfParts
<1>3. Count(rs) = Total(rs, Returns)
  BY DEF Count, Total
<1>4. CountGe(rs) = Total(rs, {x \in Returns : x >= Target})
  BY DEF CountGe, Total
<1>5. \A r \in Returns : CountUpTo(rs, r) = Total(rs, {x \in Returns : x <= r})
  BY DEF CountUpTo, Total
<1>6. Returns \ {x \in Returns : x >= Target} = {x \in Returns : x < Target}
  <2>1. \A x \in Returns : ~(x >= Target) <=> x < Target
    OBVIOUS
  <2> QED
    BY <2>1
<1>7. Count(rs) = CountGe(rs) + CountBelow(rs)
  <2> DEFINE G == {x \in Returns : x >= Target}
  <2>1. Total(rs, Returns) = Total(rs, G) + Total(rs, Returns \ G)
    BY <1>2
  <2> QED
    BY <1>3, <1>4, <1>6, <2>1 DEF CountBelow
<1>8. Count(rs) \in Nat /\ CountGe(rs) \in Nat /\ CountBelow(rs) \in Nat
  BY <1>2, <1>3, <1>4 DEF CountBelow
<1>9. \A r \in Returns : CountUpTo(rs, r) \in Nat
  BY <1>2, <1>5
<1> QED
  BY <1>3, <1>4, <1>5, <1>7, <1>8, <1>9

\* One window more is one more in the count, and no return had more windows
\* than there were.
LEMMA CountOneMore ==
  ASSUME NEW rs \in Counts, NEW r \in Returns
  PROVE  /\ [rs EXCEPT ![r] = @ + 1] \in Counts
         /\ Count([rs EXCEPT ![r] = @ + 1]) = Count(rs) + 1
         /\ rs[r] <= Count(rs)
<1> USE ReturnsFinite
<1> DEFINE more == [rs EXCEPT ![r] = @ + 1]
<1>1. more \in Counts /\ more[r] = rs[r] + 1 /\ rs[r] \in Nat
  BY DEF Counts
<1>2. \A x \in Returns \ {r} : more[x] = rs[x]
  BY DEF Counts
<1> HIDE DEF more
<1>3. Summable(rs, Returns)
  BY CountsSummable
<1>4. Summable(more, Returns)
  BY <1>1, CountsSummable
<1>5. /\ Total(rs, Returns) = rs[r] + Total(rs, Returns \ {r})
      /\ Total(rs, Returns \ {r}) \in Nat
  BY <1>3, TotalStep
<1>6. Total(more, Returns) = more[r] + Total(more, Returns \ {r})
  BY <1>4, TotalStep
<1>7. Total(more, Returns \ {r}) = Total(rs, Returns \ {r})
  <2>1. IsFiniteSet(Returns \ {r}) /\ Summable(more, Returns \ {r})
    BY <1>1, CountsSummable
  <2> QED
    BY <1>2, <2>1, TotalOfSame
<1>8. Count(rs) = Total(rs, Returns) /\ Count(more) = Total(more, Returns)
  BY <1>1, CountTypes
<1>9. Count(more) = Count(rs) + 1 /\ rs[r] <= Count(rs)
  BY <1>1, <1>5, <1>6, <1>7, <1>8
<1> QED
  BY <1>1, <1>9 DEF more

\* The k-th smallest return exists, as long as there are k windows.
LEMMA KthExists ==
  ASSUME NEW rs \in Counts, NEW k \in 1..Count(rs)
  PROVE  /\ Kth(rs, k) \in Returns
         /\ \A r \in Returns : CountUpTo(rs, r) >= k => Kth(rs, k) <= r
<1> USE ReturnsFinite
<1> DEFINE enough == {r \in Returns : CountUpTo(rs, r) >= k}
<1>1. Count(rs) \in Nat /\ Count(rs) = Total(rs, Returns)
  BY CountTypes
<1>2. Returns # {}
  <2> SUFFICES ASSUME Returns = {} PROVE FALSE
    OBVIOUS
  <2>1. Count(rs) = 0
    BY <1>1, TotalOfZeros, FS_EmptySet
  <2> QED
    BY <2>1
<1>3. Max(Returns) \in Returns /\ \A r \in Returns : r <= Max(Returns)
  BY <1>2, MaxExists
<1>4. {x \in Returns : x <= Max(Returns)} = Returns
  BY <1>3
<1>5. CountUpTo(rs, Max(Returns)) = Count(rs)
  BY <1>1, <1>3, <1>4, CountTypes
<1>6. Max(Returns) \in enough
  BY <1>1, <1>3, <1>5
<1>7. enough \in SUBSET Int /\ IsFiniteSet(enough)
  BY FS_Subset
<1>8. Kth(rs, k) = Min(enough)
  BY DEF Kth
<1>9. Min(enough) \in enough /\ \A r \in enough : Min(enough) <= r
  <2> HIDE DEF enough
  <2> QED  BY <1>6, <1>7, MinExists
<1> QED
  BY <1>8, <1>9

\* The median of some windows is a number.
LEMMA MedianType ==
  ASSUME NEW rs \in Counts, Count(rs) > 0
  PROVE  Median2(rs) \in Int
<1> DEFINE n == Count(rs)
<1>1. n \in Nat /\ n > 0
  BY CountTypes
<1>2. (n + 1) \div 2 \in 1..n /\ n \div 2 + 1 \in 1..n
  BY <1>1
<1>3. Kth(rs, (n + 1) \div 2) \in Returns /\ Kth(rs, n \div 2 + 1) \in Returns
  BY <1>2, KthExists
<1>4. Kth(rs, (n + 1) \div 2) \in Int /\ Kth(rs, n \div 2 + 1) \in Int
  BY <1>3, ReturnsFinite
<1>5. Median2(rs) = Kth(rs, (n + 1) \div 2) + Kth(rs, n \div 2 + 1)
  BY DEF Median2
<1> QED
  BY <1>4, <1>5

\* If more than half of the windows missed the target, so did their median.
LEMMA MedianMisses ==
  ASSUME NEW rs \in Counts, CountBelow(rs) > Count(rs) \div 2
  PROVE  Count(rs) > 0 /\ Median2(rs) < 2 * Target
<1> USE ReturnsFinite
<1> DEFINE n == Count(rs)
           low == {r \in Returns : r < Target}
<1>1. /\ n \in Nat /\ CountBelow(rs) \in Nat /\ CountGe(rs) \in Nat
      /\ n = CountGe(rs) + CountBelow(rs)
  BY CountTypes
<1>2. n > 0 /\ (n + 1) \div 2 \in 1..n /\ n \div 2 + 1 \in 1..n
      /\ CountBelow(rs) >= n \div 2 + 1 /\ CountBelow(rs) >= (n + 1) \div 2
  BY <1>1
<1>3. low # {}
  <2> SUFFICES ASSUME low = {} PROVE FALSE
    OBVIOUS
  <2>1. CountBelow(rs) = 0
    BY TotalOfZeros, FS_EmptySet DEF CountBelow
  <2> QED
    BY <1>1, <1>2, <2>1
<1>4. PICK top \in low : \A r \in low : r <= top
  <2>1. IsFiniteSet(low) /\ low \in SUBSET Int
    BY FS_Subset
  <2> HIDE DEF low
  <2> QED
    BY <1>3, <2>1, MaxExists
<1>5. {x \in Returns : x <= top} = low
  <2>1. \A x \in Returns : x <= top <=> x < Target
    BY <1>4
  <2> QED
    BY <2>1
<1>6. CountUpTo(rs, top) = CountBelow(rs)
  BY <1>4, <1>5, CountTypes DEF CountBelow
<1>7. Kth(rs, (n + 1) \div 2) <= top /\ Kth(rs, (n + 1) \div 2) \in Int
  BY <1>2, <1>4, <1>6, KthExists
<1>8. Kth(rs, n \div 2 + 1) <= top /\ Kth(rs, n \div 2 + 1) \in Int
  BY <1>2, <1>4, <1>6, KthExists
<1>9. top \in Int /\ top < Target
  BY <1>4
<1>10. Median2(rs) = Kth(rs, (n + 1) \div 2) + Kth(rs, n \div 2 + 1)
  BY DEF Median2
<1> QED
  BY <1>2, <1>7, <1>8, <1>9, <1>10

\* What fail-fast concludes is true of the windows that were run,
LEMMA UnreachableMisses ==
  ASSUME NEW rs \in Counts, Count(rs) <= Windows, Unreachable(rs)
  PROVE  Count(rs) > 0 /\ Median2(rs) < 2 * Target
<1>1. Count(rs) \in Nat /\ CountBelow(rs) \in Nat /\ CountGe(rs) \in Nat
      /\ Count(rs) = CountGe(rs) + CountBelow(rs) /\ Windows \in Nat
  BY CountTypes, GateAssumption
<1>2. CountBelow(rs) > Windows \div 2
  BY <1>1 DEF Unreachable, WindowsNeeded
<1>3. Windows \div 2 >= Count(rs) \div 2
  BY <1>1
<1>4. CountBelow(rs) > Count(rs) \div 2
  BY <1>1, <1>2, <1>3
<1> QED
  BY <1>4, MedianMisses

\* and of all the windows, whatever the others would have returned.
LEMMA CompletionMisses ==
  ASSUME NEW rs \in Counts, Count(rs) <= Windows, Unreachable(rs),
         NEW all \in Completions(rs)
  PROVE  Median2(all) < 2 * Target
<1> USE ReturnsFinite
<1> DEFINE G == {x \in Returns : x >= Target}
<1>1. PICK more \in Results : /\ Count(more) = Windows - Count(rs)
                              /\ all = [r \in Returns |-> rs[r] + more[r]]
  BY DEF Completions
<1>2. more \in Counts /\ all \in Counts
  BY <1>1 DEF Results, Counts
<1>3. Summable(rs, Returns) /\ Summable(more, Returns)
  BY <1>2, CountsSummable
<1>4. IsFiniteSet(G) /\ Summable(rs, G) /\ Summable(more, G)
  BY <1>2, CountsSummable
<1>5. \A r \in Returns : all[r] = rs[r] + more[r]
  BY <1>1
<1>7. Total(all, Returns) = Total(rs, Returns) + Total(more, Returns)
  BY <1>3, <1>5, TotalOfSum
<1>8. Total(all, G) = Total(rs, G) + Total(more, G)
  <2>1. \A r \in G : all[r] = rs[r] + more[r]
    BY <1>5
  <2> HIDE DEF G
  <2> QED
    BY <1>4, <2>1, TotalOfSum
<1>9. /\ Count(rs) \in Nat /\ CountGe(rs) \in Nat /\ Count(rs) = Total(rs, Returns)
      /\ CountGe(rs) = Total(rs, G)
  BY CountTypes
<1>10. /\ Count(more) \in Nat /\ CountGe(more) \in Nat /\ Count(more) = Total(more, Returns)
       /\ CountGe(more) = Total(more, G) /\ CountBelow(more) \in Nat
       /\ Count(more) = CountGe(more) + CountBelow(more)
  BY <1>2, CountTypes
<1>11. /\ Count(all) \in Nat /\ CountGe(all) \in Nat /\ Count(all) = Total(all, Returns)
       /\ CountGe(all) = Total(all, G) /\ CountBelow(all) \in Nat
       /\ Count(all) = CountGe(all) + CountBelow(all)
  BY <1>2, CountTypes
<1>12. Count(all) = Windows
  BY <1>1, <1>7, <1>9, <1>10, <1>11, GateAssumption
<1>13. CountGe(all) <= CountGe(rs) + (Windows - Count(rs))
  BY <1>1, <1>8, <1>9, <1>10, <1>11
<1>14. CountBelow(all) > Count(all) \div 2
  BY <1>9, <1>11, <1>12, <1>13 DEF Unreachable, WindowsNeeded
<1> QED
  BY <1>2, <1>14, MedianMisses

-----------------------------------------------------------------------------
(* The inductive invariant of the gate.                                    *)

\* What the parts of a trial are.
Verdict == [promote : BOOLEAN, worst : Int, bail : Bails]
Cell == [runs : Results, breach : BOOLEAN, bail : Bails]

GateTypes ==
  /\ split \in Splits \cup {"idle", "done"}
  /\ runs \in Results /\ Count(runs) <= Windows
  /\ breach \in BOOLEAN /\ bail \in Bails
  /\ cells \in Seq(Cell)
  /\ verdict \in [Splits -> Verdict \cup {None}]

\* Fail-fast has a reason: a breach is one, and so is an unreachable target.
BailHasReason ==
  /\ breach => bail = "drawdown"
  /\ bail # "no" => Count(runs) > 0
  /\ bail = "unreachable" => Unreachable(runs)

\* worst is the least of the medians of the cells so far.
WorstIsLeast ==
  IF cells = <<>> THEN worst = None
  ELSE /\ worst \in {Median2(cells[i].runs) : i \in DOMAIN cells}
       /\ \A i \in DOMAIN cells : worst <= Median2(cells[i].runs)
MediansAreNumbers == \A i \in DOMAIN cells : Median2(cells[i].runs) \in Int

\* A cell that did not fail the gate.
Passed(c) ==
  /\ Count(c.runs) = Windows /\ ~c.breach
  /\ Median2(c.runs) >= 2 * Target

\* Where a trial has got to, and what its verdicts rest on.
TrialIsSound ==
  /\ split = "idle" => verdict = [x \in Splits |-> None]
  /\ split = "train" => verdict["test"] = None
  /\ split = "test" => \A i \in DOMAIN cells : Passed(cells[i])
  /\ split \in {"test", "done"} => verdict["train"] \in Verdict
  /\ split = "done" =>
       LET v == verdict["test"] IN
       /\ v \in Verdict /\ v.worst = worst
       /\ v.promote => Len(cells) = Cells /\ \A i \in DOMAIN cells : Passed(cells[i])
       /\ ~v.promote /\ v.bail # "drawdown" => worst < 2 * Target

\* The inductive invariant of the gate.
GateInv ==
  GateTypes /\ BailHasReason /\ MediansAreNumbers /\ WorstIsLeast /\ TrialIsSound

-----------------------------------------------------------------------------
\* Min on two numbers.
LEMMA MinOfTwo ==
  ASSUME NEW a \in Int, NEW b \in Int
  PROVE  Min({a, b}) = IF a <= b THEN a ELSE b
  BY DEF Min

\* Max on two numbers.
LEMMA MaxOfTwo ==
  ASSUME NEW a \in Int, NEW b \in Int
  PROVE  Max({a, b}) = IF a <= b THEN b ELSE a
  BY DEF Max

\* A least element is the minimum.
LEMMA MinIs ==
  ASSUME NEW S \in SUBSET Int, NEW x \in S, \A y \in S : x <= y
  PROVE  Min(S) = x
<1>1. \A z \in S : (\A y \in S : z <= y) => z = x
  <2> TAKE z \in S
  <2>1. z \in Int /\ x \in Int /\ x <= z
    OBVIOUS
  <2> QED
    BY <2>1
<1> QED
  BY <1>1 DEF Min

\* Results are counts.
LEMMA ResultsAreCounts ==
  ASSUME NEW rs \in Results
  PROVE  rs \in Counts /\ Count(rs) \in Nat
<1>1. rs \in Counts
  BY GateAssumption DEF Results, Counts
<1> QED
  BY <1>1, CountTypes

\* A cell that begins has run nothing.
LEMMA NoRunsYet == NoRuns \in Results /\ Count(NoRuns) = 0
<1>1. NoRuns \in Results
  BY GateAssumption DEF NoRuns, Results
<1>2. \A r \in Returns : NoRuns[r] = 0
  BY DEF NoRuns
<1>3. Total(NoRuns, Returns) = 0
  BY <1>2, ReturnsFinite, TotalOfZeros
<1> QED
  BY <1>1, <1>3, ResultsAreCounts, CountTypes

\* The first trial starts from nothing.
LEMMA GateInitial == Init => GateInv
<1> SUFFICES ASSUME Init PROVE GateInv
  OBVIOUS
<1>1. GateTypes
  <2>1. runs \in Results /\ Count(runs) <= Windows
    BY NoRunsYet, GateAssumption DEF Init
  <2>2. cells \in Seq(Cell)
    BY EmptySeq DEF Init
  <2> QED
    BY <2>1, <2>2 DEF Init, GateTypes, Splits, Bails
<1>2. BailHasReason /\ MediansAreNumbers /\ WorstIsLeast
  BY DEF Init, BailHasReason, MediansAreNumbers, WorstIsLeast
<1>3. TrialIsSound
  BY DEF Init, TrialIsSound
<1> QED
  BY <1>1, <1>2, <1>3 DEF GateInv

\* A new evaluation, and a new trial, start with an empty cell.
LEMMA EvaluationStep ==
  ASSUME GateInv, Train \/ Test \/ NextTrial
  PROVE  GateInv'
<1>1. /\ NewCell /\ cells' = <<>> /\ worst' = None
      /\ split' \in Splits \cup {"idle"}
      /\ verdict' \in [Splits -> Verdict \cup {None}]
  BY DEF GateInv, GateTypes, Train, Test, NextTrial, Evaluate, Splits
<1>2. GateTypes'
  <2>1. Count(runs') <= Windows /\ runs' \in Results
    BY <1>1, NoRunsYet, GateAssumption DEF NewCell
  <2>2. cells' \in Seq(Cell)
    BY <1>1, EmptySeq
  <2> QED
    BY <1>1, <2>1, <2>2 DEF GateTypes, NewCell, Bails
<1>3. BailHasReason' /\ MediansAreNumbers' /\ WorstIsLeast'
  BY <1>1 DEF NewCell, BailHasReason, MediansAreNumbers, WorstIsLeast
<1>4. TrialIsSound'
  <2>1. CASE Train
    BY <2>1 DEF GateInv, TrialIsSound, Train, Evaluate, Splits
  <2>2. CASE Test
    BY <1>1, <2>2 DEF GateInv, GateTypes, TrialIsSound, Test, Evaluate, Splits
  <2>3. CASE NextTrial
    BY <2>3 DEF NextTrial, TrialIsSound
  <2> QED
    BY <2>1, <2>2, <2>3
<1> QED
  BY <1>2, <1>3, <1>4 DEF GateInv

\* A window that is run adds one result, and may end the cell.
LEMMA WindowStep ==
  ASSUME GateInv, RunWindow
  PROVE  GateInv'
<1>1. PICK r \in Returns : runs' = [runs EXCEPT ![r] = @ + 1]
  BY DEF RunWindow
<1>2. runs \in Counts /\ Count(runs) \in Nat /\ Count(runs) < Windows /\ Windows \in Nat
  BY ResultsAreCounts, GateAssumption DEF GateInv, GateTypes, RunWindow
<1>3. Count(runs') = Count(runs) + 1 /\ runs[r] <= Count(runs)
  BY <1>1, <1>2, CountOneMore
<1>4. runs' \in Results
  BY <1>1, <1>2, <1>3 DEF Counts, Results, GateInv, GateTypes
<1>5. breach' \in BOOLEAN /\ bail' \in Bails /\ bail = "no"
  BY DEF RunWindow, Running, FailFast, Bails
<1>6. GateTypes'
  BY <1>2, <1>3, <1>4, <1>5 DEF GateInv, GateTypes, RunWindow
<1>7. BailHasReason'
  <2>1. Count(runs') > 0
    BY <1>2, <1>3
  <2>2. breach' => bail' = "drawdown"
    BY DEF RunWindow
  <2>3. bail' = "unreachable" => Unreachable(runs')
    BY DEF RunWindow
  <2> QED
    BY <2>1, <2>2, <2>3 DEF BailHasReason, Unreachable
<1>8. MediansAreNumbers' /\ WorstIsLeast'
  BY DEF GateInv, RunWindow, MediansAreNumbers, WorstIsLeast
<1>9. TrialIsSound'
  BY DEF GateInv, RunWindow, Running, TrialIsSound, Passed, Splits
<1> QED
  BY <1>6, <1>7, <1>8, <1>9 DEF GateInv

\* A finished cell, with the worst median brought up to date.
LEMMA FinishedCell ==
  ASSUME GateInv, CellOver, Finished, NewCell, worst' = Worst
  PROVE  /\ Median2(runs) \in Int /\ Worst \in Int /\ Worst <= Median2(runs)
         /\ cells' \in Seq(Cell) /\ Len(cells') = Len(cells) + 1
         /\ \A i \in DOMAIN cells : cells'[i] = cells[i]
         /\ DOMAIN cells' = DOMAIN cells \cup {Len(cells) + 1}
         /\ cells'[Len(cells) + 1] = [runs |-> runs, breach |-> breach, bail |-> bail]
         /\ BailHasReason' /\ MediansAreNumbers' /\ WorstIsLeast'
<1> DEFINE c == [runs |-> runs, breach |-> breach, bail |-> bail]
           n == Len(cells)
<1>1. cells \in Seq(Cell) /\ c \in Cell /\ runs \in Counts /\ Count(runs) \in Nat
  BY ResultsAreCounts DEF GateInv, GateTypes, Cell
<1>2. Count(runs) > 0
  BY <1>1, GateAssumption DEF CellOver, GateInv, BailHasReason
<1>3. Median2(runs) \in Int
  BY <1>1, <1>2, MedianType
<1>4. cells' = Append(cells, c)
  BY DEF Finished
<1>5. /\ cells' \in Seq(Cell) /\ Len(cells') = n + 1 /\ n \in Nat
      /\ DOMAIN cells = 1..n /\ DOMAIN cells' = 1..(n + 1)
      /\ \A i \in 1..n : cells'[i] = cells[i]
      /\ cells'[n + 1] = c
  BY <1>1, <1>4
<1>6. DOMAIN cells' = DOMAIN cells \cup {n + 1}
  BY <1>5
<1>7. /\ \A i \in DOMAIN cells : Median2(cells'[i].runs) = Median2(cells[i].runs)
      /\ Median2(cells'[n + 1].runs) = Median2(runs)
  BY <1>5
<1>8. MediansAreNumbers'
  BY <1>3, <1>6, <1>7 DEF GateInv, MediansAreNumbers
<1>9. CASE cells = <<>>
  <2>1. worst = None /\ Worst = Median2(runs)
    BY <1>9 DEF GateInv, WorstIsLeast, Worst
  <2>2. DOMAIN cells' = {n + 1} /\ cells' # <<>>
    <3>1. n = 0
      BY <1>9, EmptySeq
    <3>2. DOMAIN cells = {} /\ Len(cells') # 0
      BY <1>5, <3>1
    <3> QED
      BY <1>6, <3>2, EmptySeq
  <2>3. WorstIsLeast'
    BY <1>3, <1>7, <2>1, <2>2 DEF WorstIsLeast
  <2> QED
    BY <1>3, <1>5, <1>6, <1>8, <2>1, <2>3, NoRunsYet DEF NewCell, BailHasReason
<1>10. CASE cells # <<>>
  <2>1. /\ worst \in {Median2(cells[i].runs) : i \in DOMAIN cells}
        /\ \A i \in DOMAIN cells : worst <= Median2(cells[i].runs)
    BY <1>10 DEF GateInv, WorstIsLeast
  <2>2. worst \in Int /\ worst # None
    BY <2>1, GateAssumption DEF GateInv, MediansAreNumbers
  <2>3. Worst = IF worst <= Median2(runs) THEN worst ELSE Median2(runs)
    BY <1>3, <2>2, MinOfTwo DEF Worst
  <2>4. /\ Worst \in Int /\ Worst \in {worst, Median2(runs)}
        /\ Worst <= Median2(runs) /\ Worst <= worst
    BY <1>3, <2>2, <2>3
  <2>5. cells' # <<>>
    BY <1>5
  <2>6. \A i \in DOMAIN cells' : Worst <= Median2(cells'[i].runs)
    BY <1>6, <1>7, <2>1, <2>2, <2>4 DEF GateInv, MediansAreNumbers
  <2>7. Worst \in {Median2(cells'[i].runs) : i \in DOMAIN cells'}
    <3>1. CASE Worst = worst
      BY <1>6, <1>7, <2>1, <3>1
    <3>2. CASE Worst = Median2(runs)
      BY <1>6, <1>7, <3>2
    <3> QED
      BY <2>4, <3>1, <3>2
  <2>8. WorstIsLeast'
    BY <2>5, <2>6, <2>7 DEF WorstIsLeast
  <2> QED
    BY <1>3, <1>5, <1>6, <1>8, <2>4, <2>8, NoRunsYet DEF NewCell, BailHasReason
<1> QED
  BY <1>9, <1>10

\* A cell that did not fail has passed.
LEMMA PassedCell ==
  ASSUME GateInv, CellOver, ~Fails
  PROVE  Passed([runs |-> runs, breach |-> breach, bail |-> bail])
<1>1. bail = "no" /\ ~(Median2(runs) < 2 * Target) /\ Count(runs) = Windows
  BY DEF Fails, CellOver
<1>2. ~breach
  BY <1>1 DEF GateInv, BailHasReason
<1>3. runs \in Counts /\ Count(runs) > 0
  BY <1>1, ResultsAreCounts, GateAssumption DEF GateInv, GateTypes
<1>4. Median2(runs) \in Int
  BY <1>3, MedianType
<1>5. Median2(runs) >= 2 * Target
  BY <1>1, <1>4, ReturnsFinite
<1> QED
  BY <1>1, <1>2, <1>5 DEF Passed

\* The last cell decides: with a rejection,
LEMMA RejectStep ==
  ASSUME GateInv, Reject
  PROVE  GateInv'
<1>1. CellOver /\ Fails /\ Finished /\ NewCell /\ worst' = Worst /\ Close(FALSE, Worst)
  BY DEF Reject
<1>2. /\ Median2(runs) \in Int /\ Worst \in Int /\ Worst <= Median2(runs)
      /\ cells' \in Seq(Cell)
      /\ BailHasReason' /\ MediansAreNumbers' /\ WorstIsLeast'
  BY <1>1, FinishedCell
<1> DEFINE v == [promote |-> FALSE, worst |-> Worst, bail |-> bail]
<1>3. v \in Verdict /\ split \in Splits
  BY <1>1, <1>2 DEF Verdict, GateInv, GateTypes, CellOver
<1>4. /\ verdict' = [verdict EXCEPT ![split] = v]
      /\ split' = IF split = "test" THEN "done" ELSE split
  BY <1>1 DEF Close
<1>5. GateTypes'
  <2>1. Count(runs') <= Windows /\ runs' \in Results
    BY <1>1, NoRunsYet, GateAssumption DEF NewCell
  <2>2. verdict' \in [Splits -> Verdict \cup {None}]
    BY <1>3, <1>4 DEF GateInv, GateTypes
  <2> QED
    BY <1>1, <1>2, <1>3, <1>4, <2>1, <2>2 DEF GateTypes, NewCell, Bails
<1>6. bail # "drawdown" => Worst < 2 * Target
  <2>1. CASE bail = "unreachable"
    <3>1. Unreachable(runs) /\ runs \in Counts /\ Count(runs) <= Windows
      BY <2>1, ResultsAreCounts DEF GateInv, GateTypes, BailHasReason
    <3>2. Median2(runs) < 2 * Target
      BY <3>1, UnreachableMisses
    <3> QED
      BY <1>2, <3>2, ReturnsFinite
  <2>2. CASE bail = "no"
    BY <1>1, <1>2, <2>2, ReturnsFinite DEF Fails
  <2> QED
    BY <2>1, <2>2 DEF GateInv, GateTypes, Bails
<1>7. TrialIsSound'
  <2>1. CASE split = "train"
    BY <1>3, <1>4, <2>1 DEF GateInv, GateTypes, TrialIsSound, Splits
  <2>2. CASE split = "test"
    <3>1. split' = "done" /\ verdict'["test"] = v /\ verdict'["train"] = verdict["train"]
      BY <1>4, <2>2 DEF GateInv, GateTypes, Splits
    <3>2. verdict["train"] \in Verdict
      BY <2>2 DEF GateInv, TrialIsSound
    <3> QED
      BY <1>1, <1>3, <1>6, <3>1, <3>2 DEF TrialIsSound
  <2> QED
    BY <1>3, <2>1, <2>2 DEF Splits
<1> QED
  BY <1>2, <1>5, <1>7 DEF GateInv

\* or with a promotion,
LEMMA PromoteStep ==
  ASSUME GateInv, Promote
  PROVE  GateInv'
<1>1. /\ CellOver /\ ~Fails /\ Finished /\ NewCell /\ worst' = Worst /\ Close(TRUE, Worst)
      /\ Len(cells) + 1 = Cells
  BY DEF Promote
<1>2. /\ Worst \in Int /\ cells' \in Seq(Cell) /\ Len(cells') = Len(cells) + 1
      /\ \A i \in DOMAIN cells : cells'[i] = cells[i]
      /\ DOMAIN cells' = DOMAIN cells \cup {Len(cells) + 1}
      /\ cells'[Len(cells) + 1] = [runs |-> runs, breach |-> breach, bail |-> bail]
      /\ BailHasReason' /\ MediansAreNumbers' /\ WorstIsLeast'
  BY <1>1, FinishedCell
<1> DEFINE v == [promote |-> TRUE, worst |-> Worst, bail |-> bail]
<1>3. v \in Verdict /\ split \in Splits
  BY <1>1, <1>2 DEF Verdict, GateInv, GateTypes, CellOver
<1>4. /\ verdict' = [verdict EXCEPT ![split] = v]
      /\ split' = IF split = "test" THEN "done" ELSE split
  BY <1>1 DEF Close
<1>5. GateTypes'
  <2>1. Count(runs') <= Windows /\ runs' \in Results
    BY <1>1, NoRunsYet, GateAssumption DEF NewCell
  <2>2. verdict' \in [Splits -> Verdict \cup {None}]
    BY <1>3, <1>4 DEF GateInv, GateTypes
  <2> QED
    BY <1>1, <1>2, <1>3, <1>4, <2>1, <2>2 DEF GateTypes, NewCell, Bails
<1>6. split = "test" => \A i \in DOMAIN cells' : Passed(cells'[i])
  BY <1>1, <1>2, PassedCell DEF GateInv, TrialIsSound
<1>7. TrialIsSound'
  <2>1. CASE split = "train"
    BY <1>3, <1>4, <2>1 DEF GateInv, GateTypes, TrialIsSound, Splits
  <2>2. CASE split = "test"
    <3>1. split' = "done" /\ verdict'["test"] = v /\ verdict'["train"] = verdict["train"]
      BY <1>4, <2>2 DEF GateInv, GateTypes, Splits
    <3>2. verdict["train"] \in Verdict
      BY <2>2 DEF GateInv, TrialIsSound
    <3>3. \A i \in DOMAIN cells' : Passed(cells[i])'
      BY <1>6, <2>2 DEF Passed
    <3> QED
      BY <1>1, <1>2, <1>3, <3>1, <3>2, <3>3 DEF TrialIsSound
  <2> QED
    BY <1>3, <2>1, <2>2 DEF Splits
<1> QED
  BY <1>2, <1>5, <1>7 DEF GateInv

\* and otherwise the next cell begins.
LEMMA NextCellStep ==
  ASSUME GateInv, NextCell
  PROVE  GateInv'
<1>1. /\ CellOver /\ ~Fails /\ Finished /\ NewCell /\ worst' = Worst
      /\ UNCHANGED <<split, offsets, verdict>>
  BY DEF NextCell
<1>2. /\ cells' \in Seq(Cell)
      /\ \A i \in DOMAIN cells : cells'[i] = cells[i]
      /\ DOMAIN cells' = DOMAIN cells \cup {Len(cells) + 1}
      /\ cells'[Len(cells) + 1] = [runs |-> runs, breach |-> breach, bail |-> bail]
      /\ BailHasReason' /\ MediansAreNumbers' /\ WorstIsLeast'
  BY <1>1, FinishedCell
<1>3. GateTypes'
  <2>1. Count(runs') <= Windows /\ runs' \in Results
    BY <1>1, NoRunsYet, GateAssumption DEF NewCell
  <2> QED
    BY <1>1, <1>2, <2>1 DEF GateInv, GateTypes, NewCell, Bails
<1>4. split \in Splits
  BY <1>1 DEF CellOver
<1>5. split = "test" => \A i \in DOMAIN cells' : Passed(cells[i])'
  BY <1>1, <1>2, PassedCell DEF GateInv, TrialIsSound, Passed
<1>6. TrialIsSound'
  BY <1>1, <1>4, <1>5 DEF GateInv, TrialIsSound, Splits
<1> QED
  BY <1>2, <1>3, <1>6 DEF GateInv

\* What a trial keeps whatever step it takes.
LEMMA GateStep == GateInv /\ [Next]_vars => GateInv'
<1> SUFFICES ASSUME GateInv, [Next]_vars PROVE GateInv'
  OBVIOUS
<1>1. CASE UNCHANGED vars
  <2>1. GateTypes' /\ BailHasReason' /\ MediansAreNumbers' /\ WorstIsLeast'
    BY <1>1
       DEF vars, cell, GateInv, GateTypes, BailHasReason, MediansAreNumbers, WorstIsLeast
  <2>2. TrialIsSound'
    BY <1>1 DEF vars, cell, GateInv, TrialIsSound, Passed
  <2> QED
    BY <2>1, <2>2 DEF GateInv
<1> QED
  BY <1>1, EvaluationStep, WindowStep, NextCellStep, RejectStep, PromoteStep DEF Next

\* The whole search takes the steps of the gate, one trial at a time.
LEMMA SearchStepsGate == [ResearchNext]_researchVars => [Next]_vars
  BY DEF ResearchNext, researchVars, Trial, Collect, CheckBoard, OpenBoard, Flush,
         CloseBoard, Kill, Next

-----------------------------------------------------------------------------
\* The inductive invariant of the gate, in every trial of a search: counts and
\* cells are well-formed, a cell gave up for a reason that its counts show, and
\* the verdicts rest on the cells.
THEOREM GateInvariant == ResearchSpec => []GateInv
<1>1. ResearchInit => GateInv
  BY GateInitial DEF ResearchInit
<1>2. GateInv /\ [ResearchNext]_researchVars => GateInv'
  BY GateStep, SearchStepsGate
<1> QED
  BY <1>1, <1>2, PTL DEF ResearchSpec

\* eval.py's fail-fast is only an economy: when it gives a cell up because the
\* target has become unreachable, no results of the windows that are left could
\* have saved it, for any number of windows, any returns and any target.
THEOREM FailFastIsSound == ResearchSpec => []BailIsSound
<1>1. GateInv => BailIsSound
  <2> SUFFICES ASSUME GateInv, bail = "unreachable", NEW all \in Completions(runs)
               PROVE  Median2(all) < 2 * Target
    BY DEF BailIsSound
  <2>1. runs \in Counts /\ Count(runs) <= Windows /\ Unreachable(runs)
    BY ResultsAreCounts DEF GateInv, GateTypes, BailHasReason
  <2> QED
    BY <2>1, CompletionMisses
<1> QED
  BY <1>1, GateInvariant, PTL

\* A promoted configuration earned it on every window of every cell of the test
\* split, and the median reported is the worst of the cells.
THEOREM PromotionsAreEarned == ResearchSpec => []PromotionIsEarned
<1>1. GateInv => PromotionIsEarned
  <2> SUFFICES ASSUME GateInv, split = "done", verdict["test"].promote
               PROVE  /\ Len(cells) = Cells
                      /\ \A i \in 1..Cells : Passed(cells[i])
                      /\ verdict["test"].worst
                           = Min({Median2(cells[i].runs) : i \in 1..Cells})
    BY DEF PromotionIsEarned, Passed
  <2>1. /\ Len(cells) = Cells /\ \A i \in DOMAIN cells : Passed(cells[i])
        /\ verdict["test"].worst = worst
    BY DEF GateInv, TrialIsSound
  <2>2. DOMAIN cells = 1..Cells /\ cells # <<>>
    <3>1. cells \in Seq(Cell) /\ Cells > 0
      BY GateAssumption DEF GateInv, GateTypes
    <3> QED
      BY <2>1, <3>1, EmptySeq
  <2> DEFINE medians == {Median2(cells[i].runs) : i \in 1..Cells}
  <2>3. medians \in SUBSET Int
    BY <2>2 DEF GateInv, MediansAreNumbers
  <2>4. worst \in medians /\ \A m \in medians : worst <= m
    BY <2>2 DEF GateInv, WorstIsLeast
  <2>5. Min(medians) = worst
    <3> HIDE DEF medians
    <3> QED  BY <2>3, <2>4, MinIs
  <2> QED
    BY <2>1, <2>2, <2>5
<1> QED
  BY <1>1, GateInvariant, PTL

\* A rejected configuration never ranks as if it had passed, however few of its
\* windows were run, unless the drawdown limit ended its evaluation.
THEOREM RejectionsShow == ResearchSpec => []RejectionShows
<1>1. GateInv => RejectionShows
  <2> SUFFICES ASSUME GateInv, split = "done", ~verdict["test"].promote,
                      verdict["test"].bail # "drawdown"
               PROVE  GeneralizationScore(verdict["train"].worst, verdict["test"].worst)
                        < 2 * Target
    BY DEF RejectionShows
  <2> DEFINE train == verdict["train"].worst
             test == verdict["test"].worst
  <2>1. train \in Int /\ test \in Int /\ test < 2 * Target
    BY DEF GateInv, TrialIsSound, Verdict
  <2>2. Max({0, train - test}) >= 0 /\ Max({0, train - test}) \in Int
    <3>1. train - test \in Int
      BY <2>1
    <3> HIDE DEF train, test
    <3> QED
      BY <3>1, MaxOfTwo
  <2>3. GeneralizationScore(train, test) = test - Max({0, train - test})
    BY DEF GeneralizationScore
  <2> HIDE DEF train, test
  <2>4. GeneralizationScore(train, test) < 2 * Target
    BY <2>1, <2>2, <2>3, ReturnsFinite
  <2> QED
    BY <2>4 DEF train, test
<1> QED
  BY <1>1, GateInvariant, PTL

-----------------------------------------------------------------------------
(* The rows of a search and the halves of its text.                        *)

\* What may be in a row, a line and a file.
ConfigSet == {MutationGrid[i] : i \in Nat} \cup {Candidates[i] : i \in Nat}
Result == [config : ConfigSet, promoted : BOOLEAN, score : Int]
Row == ToSet(OtherRows) \cup Result
Line == {Header} \cup (Searches \X Row)
Piece == Line \X {0, 1}
Steps == {"search", "open", "write", "done", "dead"}

\* The types of the search.
BoardTypes ==
  /\ program \in Programs /\ results \in Seq(Result)
  /\ created \in BOOLEAN /\ disturbed \in BOOLEAN
  /\ board \in Seq(Piece)
  /\ writer \in [Searches -> [pc : Steps, header : BOOLEAN, buffer : Seq(Piece)]]

\* Every place of the ranking is taken by one result.
LEMMA RankIsBijection ==
  ASSUME results \in Seq(Result)
  PROVE  /\ \A i \in DOMAIN results : Rank(i) \in DOMAIN results
         /\ \A i, j \in DOMAIN results : Rank(i) = Rank(j) => i = j
         /\ \A i, j \in DOMAIN results : Ahead(i, j) => Rank(i) < Rank(j)
         /\ \A k \in DOMAIN results : \E i \in DOMAIN results : Rank(i) = k
<1> DEFINE D == DOMAIN results
           ahead(i) == {j \in D : Ahead(j, i)}
<1>0. D = 1..Len(results) /\ Len(results) \in Nat /\ \A i \in D : results[i] \in Result
  OBVIOUS
<1>1. /\ D = 1..Len(results) /\ Len(results) \in Nat
      /\ \A i \in D : i \in Int /\ results[i].score \in Int
  <2>1. \A r \in Result : r.score \in Int
    BY DEF Result
  <2> QED
    BY <1>0, <2>1
<1>2. IsFiniteSet(D) /\ Cardinality(D) = Len(results)
  <2>1. IsFiniteSet(1..Len(results))
        /\ Cardinality(1..Len(results))
             = IF 1 > Len(results) THEN 0 ELSE Len(results) - 1 + 1
    BY <1>1, FS_Interval
  <2> QED
    BY <1>1, <2>1
<1>3. /\ \A i \in D : ~Ahead(i, i)
      /\ \A i, j \in D : i # j => Ahead(i, j) \/ Ahead(j, i)
      /\ \A h, i, j \in D : Ahead(h, i) /\ Ahead(i, j) => Ahead(h, j)
  BY <1>1 DEF Ahead
<1> HIDE DEF D
<1>4. \A i \in D : /\ IsFiniteSet(ahead(i)) /\ Cardinality(ahead(i)) \in Nat
                   /\ Rank(i) = Cardinality(ahead(i)) + 1
                   /\ Cardinality(ahead(i)) < Cardinality(D)
  <2> TAKE i \in D
  <2>1. ahead(i) \in SUBSET D /\ ahead(i) # D
    BY <1>3
  <2>2. IsFiniteSet(ahead(i)) /\ Cardinality(ahead(i)) <= Cardinality(D)
        /\ (Cardinality(D) = Cardinality(ahead(i)) => D = ahead(i))
    BY <1>2, <2>1, FS_Subset
  <2>3. Cardinality(ahead(i)) \in Nat /\ Cardinality(D) \in Nat
    BY <1>2, <2>2, FS_CardinalityType
  <2>4. Rank(i) = Cardinality(ahead(i)) + 1
    BY DEF Rank, D
  <2> HIDE DEF ahead
  <2> QED
    BY <2>1, <2>2, <2>3, <2>4
<1>5. \A i \in D : Rank(i) \in D
  <2> TAKE i \in D
  <2>1. Cardinality(ahead(i)) \in Nat /\ Cardinality(ahead(i)) < Len(results)
        /\ Rank(i) = Cardinality(ahead(i)) + 1
    BY <1>2, <1>4
  <2> HIDE DEF ahead
  <2> QED
    BY <1>1, <2>1
<1>6. ASSUME NEW i \in D, NEW j \in D, Ahead(i, j) PROVE Rank(i) < Rank(j)
  <2>1. ahead(i) \in SUBSET ahead(j) /\ ahead(i) # ahead(j)
    BY <1>3, <1>6
  <2>2. Cardinality(ahead(i)) <= Cardinality(ahead(j))
        /\ Cardinality(ahead(i)) # Cardinality(ahead(j))
    BY <1>4, <2>1, FS_Subset
  <2> HIDE DEF ahead
  <2> QED
    BY <1>4, <2>2
<1> HIDE DEF ahead
<1>7. \A i, j \in D : Rank(i) = Rank(j) => i = j
  <2> SUFFICES ASSUME NEW i \in D, NEW j \in D, Rank(i) = Rank(j), i # j PROVE FALSE
    OBVIOUS
  <2>1. Rank(i) < Rank(j) \/ Rank(j) < Rank(i)
    BY <1>3, <1>6
  <2>2. Rank(i) \in Int /\ Rank(j) \in Int
    BY <1>4
  <2> QED
    BY <2>1, <2>2
<1>8. \A k \in D : \E i \in D : Rank(i) = k
  <2> DEFINE rank == [i \in D |-> Rank(i)]
  <2>1. rank \in [D -> D] /\ \A i, j \in D : rank[i] = rank[j] => i = j
    BY <1>5, <1>7
  <2>2. rank \in Injection(D, D)
    BY <2>1 DEF Injection, IsInjective
  <2>3. rank \in Surjection(D, D)
    BY <1>2, <2>2, FS_Injection
  <2> QED
    BY <2>3 DEF Surjection
<1> QED
  BY <1>5, <1>6, <1>7, <1>8 DEF D

\* feature_search's rows are its results, each once, best first.
LEMMA RankedIsSorted ==
  ASSUME results \in Seq(Result), program = "feature_search"
  PROVE  /\ Ranked \in Seq(Result) /\ Len(Ranked) = Len(results)
         /\ \A i \in DOMAIN results : Ranked[Rank(i)] = results[i]
         /\ \A i, j \in DOMAIN results : i < j => Ranked[i].score >= Ranked[j].score
<1> DEFINE D == DOMAIN results
           at(k) == CHOOSE i \in D : Rank(i) = k
<1>0. D = 1..Len(results) /\ Len(results) \in Nat /\ \A i \in D : results[i] \in Result
  OBVIOUS
<1>1. /\ D = 1..Len(results) /\ Len(results) \in Nat
      /\ \A i \in D : results[i] \in Result /\ results[i].score \in Int /\ i \in Int
  <2>1. \A r \in Result : r.score \in Int
    BY DEF Result
  <2> QED
    BY <1>0, <2>1
<1>2. /\ \A i \in D : Rank(i) \in D
      /\ \A i, j \in D : Rank(i) = Rank(j) => i = j
      /\ \A i, j \in D : Ahead(i, j) => Rank(i) < Rank(j)
      /\ \A k \in D : \E i \in D : Rank(i) = k
  BY RankIsBijection
<1>3. Ranked = [k \in D |-> results[at(k)]]
  BY DEF Ranked
<1> HIDE DEF D
<1>4. \A k \in D : at(k) \in D /\ Rank(at(k)) = k
  BY <1>2
<1>5. \A i \in D : at(Rank(i)) = i
  BY <1>2, <1>4
<1> HIDE DEF at
<1>6. Ranked \in [1..Len(results) -> Result]
  BY <1>1, <1>3, <1>4
<1>7. Ranked \in Seq(Result) /\ Len(Ranked) = Len(results)
  BY <1>1, <1>6
<1>8. \A i \in D : Ranked[Rank(i)] = results[i]
  BY <1>2, <1>3, <1>5
<1>9. ASSUME NEW k \in D, NEW l \in D, k < l PROVE Ranked[k].score >= Ranked[l].score
  <2>1. at(k) \in D /\ at(l) \in D /\ Rank(at(k)) = k /\ Rank(at(l)) = l
    BY <1>4
  <2>2. k \in Int /\ l \in Int /\ ~(l < k)
    BY <1>1, <1>9
  <2>3. ~Ahead(at(l), at(k))
    <3> SUFFICES ASSUME Ahead(at(l), at(k)) PROVE FALSE
      OBVIOUS
    <3>1. Rank(at(l)) < Rank(at(k))
      BY <1>2, <2>1
    <3> QED
      BY <2>1, <2>2, <3>1
  <2>4. results[at(k)].score >= results[at(l)].score
    BY <1>1, <2>1, <2>3 DEF Ahead
  <2> QED
    BY <1>3, <2>4
<1> QED
  BY <1>7, <1>8, <1>9 DEF D

\* The rows of a search are lines of its own.
LEMMA RowsType ==
  ASSUME results \in Seq(Result), NEW p \in Searches
  PROVE  Rows(p) \in Seq({p} \X Row)
<1> DEFINE rows == IF p = "this" THEN Ranked ELSE OtherRows
<1>1. rows \in Seq(Row)
  <2>1. CASE p = "this" /\ program = "feature_search"
    BY <2>1, RankedIsSorted DEF Row
  <2>2. CASE p = "this" /\ program # "feature_search"
    BY <2>2 DEF Row, Ranked
  <2>3. CASE p # "this"
    BY <2>3, RowsAssumption DEF Row
  <2> QED
    BY <2>1, <2>2, <2>3
<1>2. Rows(p) = [i \in DOMAIN rows |-> <<p, rows[i]>>]
  BY DEF Rows
<1> HIDE DEF rows
<1>3. /\ DOMAIN rows = 1..Len(rows) /\ Len(rows) \in Nat
      /\ \A i \in DOMAIN rows : rows[i] \in Row
  BY <1>1
<1>4. Rows(p) \in [1..Len(rows) -> {p} \X Row]
  BY <1>2, <1>3
<1> QED
  BY <1>3, <1>4

\* Lines cut in two.
LEMMA HalvesType ==
  ASSUME NEW S, NEW s \in Seq(S)
  PROVE  /\ Halves(s) \in Seq(S \X {0, 1}) /\ Len(Halves(s)) = 2 * Len(s)
         /\ \A h \in 1..(2 * Len(s)) :
              Halves(s)[h] = <<s[(h + 1) \div 2], h % 2>> /\ (h + 1) \div 2 \in 1..Len(s)
<1> DEFINE n == 2 * Len(s)
<1>1. n \in Nat
  OBVIOUS
<1>2. \A h \in 1..n : (h + 1) \div 2 \in 1..Len(s) /\ h % 2 \in {0, 1}
  OBVIOUS
<1>3. \A h \in 1..n : <<s[(h + 1) \div 2], h % 2>> \in S \X {0, 1}
  BY <1>2
<1>4. Halves(s) = [h \in 1..n |-> <<s[(h + 1) \div 2], h % 2>>]
  BY DEF Halves
<1>5. Halves(s) \in [1..n -> S \X {0, 1}]
  BY <1>3, <1>4
<1>6. Halves(s) \in Seq(S \X {0, 1}) /\ Len(Halves(s)) = n
  BY <1>1, <1>5
<1> QED
  BY <1>2, <1>4, <1>6

\* No row is a header.
LEMMA HeaderIsNoRow ==
  \A x \in Searches \X Row : x # Header
<1> SUFFICES ASSUME NEW a, NEW b PROVE <<a, b>> # Header
  OBVIOUS
<1>1. Len(<<a, b>>) = 2 /\ Len(Header) = 1
  BY DEF Header
<1> QED
  BY <1>1

\* The places of the leaderboard that hold a search's own rows, and how many of
\* its half rows it has not yet written.
Own(p) == {i \in DOMAIN board : board[i][1] \in {p} \X Row}
Owed(p) == 2 * Len(Rows(p))
Unwritten(p) == Len(writer[p].buffer)
Left(p) == IF Unwritten(p) <= Owed(p) THEN Unwritten(p) ELSE Owed(p)

\* The buffer is what is left of the text.
IsRest(p) ==
  /\ writer[p].pc = "done" => writer[p].buffer = <<>>
  /\ writer[p].pc = "write" =>
       /\ Unwritten(p) <= Len(Text(p))
       /\ \A i \in 1..Unwritten(p) :
            writer[p].buffer[i] = Text(p)[Len(Text(p)) - Unwritten(p) + i]

\* The rows it has written are on the leaderboard, in order, and no others.
IsWritten(p) ==
  /\ writer[p].pc \in {"search", "open"} => Own(p) = {}
  /\ writer[p].pc \in {"write", "done"} =>
       /\ Cardinality(Own(p)) = Owed(p) - Left(p)
       /\ \A i \in Own(p) : board[i] = Halves(Rows(p))[Cardinality(Own(p) \cap 1..i)]

\* Whole lines, of which the first halves of the given number are headers.
Whole(b, headers) ==
  /\ Len(b) % 2 = 0
  /\ \A i \in DOMAIN b :
       /\ b[i][2] = i % 2 /\ (b[i][1] = Header) = (i <= headers)
       /\ i % 2 = 0 => b[i][1] = b[i - 1][1]
Good(b) == Len(b) > 0 /\ Whole(b, 2)
\* The leaderboard between two appends.
SoundBoard == IF created THEN Good(board) ELSE board = <<>>
\* Undisturbed appends take turns, and each leaves the leaderboard whole.
InTurn ==
  ~disturbed =>
    /\ \A p, q \in Searches : Appending(p) /\ Appending(q) => p = q
    /\ (\A p \in Searches : writer[p].pc # "write") => SoundBoard
    /\ \A p \in Searches :
         /\ writer[p].pc = "open" => writer[p].header = ~created
         /\ writer[p].pc = "write" => created /\ Good(board \o writer[p].buffer)

\* The inductive invariant of the leaderboard.
BoardInv ==
  /\ BoardTypes
  /\ \A p \in Searches : IsRest(p) /\ IsWritten(p)
  /\ InTurn

\* The halves of the header in the text of a search.
HeaderLen(p) == IF writer[p].header THEN 2 ELSE 0

\* The text is the header, if there is one, and then the rows.
LEMMA TextType ==
  ASSUME BoardTypes, NEW p \in Searches
  PROVE  /\ Text(p) \in Seq(Piece)
         /\ Owed(p) \in Nat /\ Owed(p) % 2 = 0
         /\ HeaderLen(p) \in {0, 2} /\ Len(Text(p)) = HeaderLen(p) + Owed(p)
         /\ \A h \in 1..HeaderLen(p) : Text(p)[h] = <<Header, h % 2>>
         /\ Halves(Rows(p)) \in Seq(({p} \X Row) \X {0, 1})
         /\ Len(Halves(Rows(p))) = Owed(p)
         /\ \A h \in 1..Owed(p) :
              /\ Text(p)[HeaderLen(p) + h] = Halves(Rows(p))[h]
              /\ Halves(Rows(p))[h] = <<Rows(p)[(h + 1) \div 2], h % 2>>
              /\ Rows(p)[(h + 1) \div 2] \in {p} \X Row
<1> DEFINE rows == Rows(p)
           top == IF writer[p].header THEN <<Header>> ELSE <<>>
           lines == top \o rows
           H == HeaderLen(p)
<1>1. rows \in Seq({p} \X Row)
  BY RowsType DEF BoardTypes
<1>2. Text(p) = Halves(lines)
  BY DEF Text
<1>3. top \in Seq(Line) /\ H \in {0, 2} /\ Len(top) = H \div 2 /\ (H = 2 => top[1] = Header)
  <2>1. Header \in Line
    BY DEF Line
  <2>2. CASE writer[p].header
    <3>1. H = 2 /\ top = <<Header>>
      BY <2>2 DEF HeaderLen
    <3> QED
      BY <2>1, <3>1
  <2>3. CASE ~writer[p].header
    <3>1. H = 0 /\ top = <<>>
      BY <2>3 DEF HeaderLen
    <3> QED
      BY <3>1
  <2> QED
    BY <2>2, <2>3
<1>4. rows \in Seq(Line)
  BY <1>1 DEF Line
<1> HIDE DEF rows, top, H
<1>5. /\ lines \in Seq(Line) /\ Len(lines) = Len(top) + Len(rows)
      /\ \A i \in 1..Len(top) : lines[i] = top[i]
      /\ \A i \in 1..Len(rows) : lines[Len(top) + i] = rows[i]
  BY <1>3, <1>4
<1> HIDE DEF lines
<1>6. /\ Halves(lines) \in Seq(Line \X {0, 1}) /\ Len(Halves(lines)) = 2 * Len(lines)
      /\ \A h \in 1..(2 * Len(lines)) :
           /\ Halves(lines)[h] = <<lines[(h + 1) \div 2], h % 2>>
           /\ (h + 1) \div 2 \in 1..Len(lines)
  BY <1>5, HalvesType
<1>7. /\ Halves(rows) \in Seq(({p} \X Row) \X {0, 1}) /\ Len(Halves(rows)) = 2 * Len(rows)
      /\ \A h \in 1..(2 * Len(rows)) :
           /\ Halves(rows)[h] = <<rows[(h + 1) \div 2], h % 2>>
           /\ (h + 1) \div 2 \in 1..Len(rows)
  BY <1>1, HalvesType
<1>8. Len(rows) \in Nat /\ Len(lines) \in Nat /\ 2 * Len(lines) = H + 2 * Len(rows)
      /\ Owed(p) = 2 * Len(rows)
  <2>1. Len(rows) \in Nat /\ Len(lines) \in Nat /\ Len(lines) = H \div 2 + Len(rows)
    BY <1>1, <1>3, <1>5
  <2> QED
    BY <1>3, <2>1 DEF Owed, rows
<1>9. \A h \in 1..H : Halves(lines)[h] = <<Header, h % 2>>
  <2> TAKE h \in 1..H
  <2>1. H = 2 /\ h \in 1..2 /\ (h + 1) \div 2 = 1 /\ h \in 1..(2 * Len(lines))
    BY <1>3, <1>8
  <2>2. lines[1] = Header
    BY <1>3, <1>5, <2>1
  <2> QED
    BY <1>6, <2>1, <2>2
<1>10. ASSUME NEW h \in 1..(2 * Len(rows))
       PROVE  /\ Halves(lines)[H + h] = Halves(rows)[h]
              /\ rows[(h + 1) \div 2] \in {p} \X Row
  <2> DEFINE k == (h + 1) \div 2
  <2>1. /\ k \in 1..Len(rows) /\ (H + h + 1) \div 2 = Len(top) + k /\ (H + h) % 2 = h % 2
        /\ H + h \in 1..(2 * Len(lines))
    BY <1>3, <1>8
  <2>2. lines[Len(top) + k] = rows[k] /\ rows[k] \in {p} \X Row
    <3> HIDE DEF k
    <3> QED  BY <1>1, <1>5, <2>1
  <2>3. Halves(lines)[H + h] = <<lines[(H + h + 1) \div 2], (H + h) % 2>>
    BY <1>6, <2>1
  <2>4. Halves(rows)[h] = <<rows[k], h % 2>>
    BY <1>7
  <2> QED
    BY <2>1, <2>2, <2>3, <2>4
<1>11. Owed(p) % 2 = 0
  BY <1>8
<1>12. Len(Text(p)) = H + Owed(p) /\ Owed(p) \in Nat /\ Len(Halves(rows)) = Owed(p)
  BY <1>2, <1>6, <1>7, <1>8
<1>13. Text(p) \in Seq(Piece)
  BY <1>2, <1>6 DEF Piece
<1>14. \A h \in 1..H : Text(p)[h] = <<Header, h % 2>>
  BY <1>2, <1>9
<1>15. \A h \in 1..Owed(p) :
         /\ Text(p)[H + h] = Halves(rows)[h]
         /\ Halves(rows)[h] = <<rows[(h + 1) \div 2], h % 2>>
         /\ rows[(h + 1) \div 2] \in {p} \X Row
  BY <1>2, <1>7, <1>8, <1>10
<1> QED
  BY <1>3, <1>7, <1>11, <1>12, <1>13, <1>14, <1>15 DEF H, rows

\* The rows of a search that appends do not change any more.
LEMMA RowsStay ==
  ASSUME NEW p \in Searches, program' = program,
         results' = results \/ p = "other"
  PROVE  Rows(p)' = Rows(p)
<1>1. CASE p = "other"
  BY <1>1 DEF Rows
<1>2. CASE results' = results
  <2>1. Ranked' = Ranked
    BY <1>2 DEF Ranked, Rank, Ahead
  <2> QED
    BY <2>1 DEF Rows
<1> QED
  BY <1>1, <1>2
\* An even number of halves in front changes no half's kind.
LEMMA EvenShift ==
  ASSUME NEW a \in Nat, NEW b \in Nat, a % 2 = 0
  PROVE  (a + b) % 2 = b % 2
  OBVIOUS

\* The half before a second half belongs to the same line.
LEMMA SecondHalf ==
  ASSUME NEW m \in Nat, NEW h \in 1..m, h % 2 = 0
  PROVE  h - 1 \in 1..m /\ (h - 1 + 1) \div 2 = (h + 1) \div 2
  OBVIOUS

\* A text is whole lines, with a header or without one.
LEMMA TextIsWhole ==
  ASSUME BoardTypes, NEW p \in Searches
  PROVE  Whole(Text(p), HeaderLen(p)) /\ (writer[p].header => Good(Text(p)))
<1> DEFINE H == HeaderLen(p)
           t == Text(p)
           halves == Halves(Rows(p))
<1>1. /\ t \in Seq(Piece)
      /\ Owed(p) \in Nat /\ Owed(p) % 2 = 0
      /\ H \in {0, 2} /\ Len(t) = H + Owed(p)
      /\ \A h \in 1..H : t[h] = <<Header, h % 2>>
      /\ \A h \in 1..Owed(p) :
           /\ t[H + h] = halves[h]
           /\ halves[h] = <<Rows(p)[(h + 1) \div 2], h % 2>>
           /\ Rows(p)[(h + 1) \div 2] \in {p} \X Row
  BY TextType
<1>2. writer[p].header => H = 2
  BY DEF HeaderLen
<1> HIDE DEF H, t, halves
<1>3. ASSUME NEW i \in DOMAIN t
      PROVE  /\ t[i][2] = i % 2 /\ (t[i][1] = Header) = (i <= H)
             /\ i % 2 = 0 => t[i][1] = t[i - 1][1]
  <2>0. i \in 1..(H + Owed(p)) /\ i \in Int
    BY <1>1
  <2>1. CASE i <= H
    <3>1. i \in 1..H /\ (i % 2 = 0 => i - 1 \in 1..H)
      BY <1>1, <2>0, <2>1
    <3> QED
      BY <1>1, <2>1, <3>1
  <2>2. CASE ~(i <= H)
    <3> DEFINE h == i - H
    <3>1. /\ h \in 1..Owed(p) /\ i = H + h /\ h % 2 = i % 2
          /\ i % 2 = 0 => /\ h - 1 \in 1..Owed(p) /\ i - 1 = H + (h - 1)
                          /\ (h - 1 + 1) \div 2 = (h + 1) \div 2
      <4>0. H \in {0, 2}
        BY <1>1
      <4>1. H \in Nat /\ H % 2 = 0
        BY <4>0
      <4>a. Owed(p) \in Nat
        BY <1>1
      <4>2. h \in 1..Owed(p) /\ i = H + h /\ h \in Nat /\ i - 1 = H + (h - 1)
        BY <2>0, <2>2, <4>1, <4>a
      <4> HIDE DEF h
      <4>3. i % 2 = h % 2
        BY <4>1, <4>2, EvenShift
      <4> QED
        BY <4>a, <4>2, <4>3, SecondHalf
    <3> HIDE DEF h
    <3>2. /\ t[i] = <<Rows(p)[(h + 1) \div 2], h % 2>>
          /\ Rows(p)[(h + 1) \div 2] \in {p} \X Row
      BY <1>1, <3>1
    <3>3. Rows(p)[(h + 1) \div 2] # Header
      <4>1. Rows(p)[(h + 1) \div 2] \in Searches \X Row
        BY <3>2
      <4> QED
        BY <4>1, HeaderIsNoRow
    <3>4. i % 2 = 0 => t[i - 1] = <<Rows(p)[(h + 1) \div 2], (h - 1) % 2>>
      <4> SUFFICES ASSUME i % 2 = 0
                   PROVE  t[i - 1] = <<Rows(p)[(h + 1) \div 2], (h - 1) % 2>>
        OBVIOUS
      <4> DEFINE g == h - 1
      <4>1. g \in 1..Owed(p) /\ i - 1 = H + g /\ (g + 1) \div 2 = (h + 1) \div 2
        BY <3>1
      <4> HIDE DEF g
      <4>2. t[H + g] = <<Rows(p)[(g + 1) \div 2], g % 2>>
        BY <1>1, <4>1
      <4> QED
        BY <4>1, <4>2 DEF g
    <3> QED
      BY <2>2, <3>1, <3>2, <3>3, <3>4
  <2> QED
    BY <2>1, <2>2
<1>4. Len(t) % 2 = 0 /\ (H = 2 => Len(t) > 0)
  BY <1>1
<1>5. Whole(t, H)
  BY <1>3, <1>4 DEF Whole
<1> QED
  BY <1>2, <1>4, <1>5 DEF Good, H, t

\* Rows after a sound leaderboard leave it sound.
LEMMA RowsAfter ==
  ASSUME NEW S, NEW b \in Seq(S), NEW t \in Seq(S), Good(b), Whole(t, 0)
  PROVE  Good(b \o t)
<1> DEFINE n == Len(b)
           c == b \o t
<1>1. /\ c \in Seq(S) /\ Len(c) = n + Len(t) /\ n \in Nat /\ Len(t) \in Nat
      /\ \A i \in 1..n : c[i] = b[i]
      /\ \A j \in 1..Len(t) : c[n + j] = t[j]
  OBVIOUS
<1>2. n > 0 /\ n % 2 = 0 /\ n >= 2 /\ Len(t) % 2 = 0
  BY <1>1 DEF Good, Whole
<1>b. \A i \in 1..n : /\ b[i][2] = i % 2 /\ (b[i][1] = Header) = (i <= 2)
                      /\ i % 2 = 0 => b[i][1] = b[i - 1][1]
  BY DEF Good, Whole
<1>t. \A i \in 1..Len(t) : /\ t[i][2] = i % 2 /\ t[i][1] # Header
                           /\ i % 2 = 0 => t[i][1] = t[i - 1][1]
  BY DEF Whole
<1> HIDE DEF n, c
<1>3. ASSUME NEW i \in DOMAIN c
      PROVE  /\ c[i][2] = i % 2 /\ (c[i][1] = Header) = (i <= 2)
             /\ i % 2 = 0 => c[i][1] = c[i - 1][1]
  <2>0. i \in 1..(n + Len(t)) /\ i \in Int
    BY <1>1
  <2>1. CASE i <= n
    <3>1. i \in 1..n /\ (i % 2 = 0 => i - 1 \in 1..n)
      BY <1>1, <2>0, <2>1
    <3> QED
      BY <1>1, <1>b, <3>1
  <2>2. CASE ~(i <= n)
    <3> DEFINE j == i - n
    <3>1. /\ j \in 1..Len(t) /\ i = n + j /\ j % 2 = i % 2 /\ ~(i <= 2)
          /\ i % 2 = 0 => j - 1 \in 1..Len(t) /\ i - 1 = n + (j - 1)
      <4>1. /\ j \in 1..Len(t) /\ j \in Nat /\ i = n + j /\ ~(i <= 2)
            /\ i - 1 = n + (j - 1)
        <5>1. n \in Nat /\ n >= 2 /\ Len(t) \in Nat
          BY <1>1, <1>2
        <5>2. i \in Int /\ 1 <= i /\ i <= n + Len(t) /\ n < i
          BY <2>0, <2>2, <5>1
        <5>a. i - n \in Int /\ 1 <= i - n /\ i - n <= Len(t)
          BY <5>1, <5>2
        <5>b. i = n + (i - n)
          BY <5>1, <5>2
        <5>c. i - 1 = n + (i - n - 1)
          BY <5>1, <5>2
        <5>3. j \in 1..Len(t) /\ i = n + j /\ i - 1 = n + (j - 1)
          BY <5>1, <5>a, <5>b, <5>c
        <5>4. j \in Nat
          BY <5>3, <5>1
        <5> QED
          BY <5>1, <5>2, <5>3, <5>4
      <4> HIDE DEF j
      <4>2. i % 2 = j % 2
        BY <1>1, <1>2, <4>1, EvenShift
      <4> QED
        BY <1>1, <4>1, <4>2, SecondHalf
    <3> HIDE DEF j
    <3>2. c[i] = t[j] /\ (i % 2 = 0 => c[i - 1] = t[j - 1])
      BY <1>1, <3>1
    <3> QED
      BY <1>t, <3>1, <3>2
  <2> QED
    BY <2>1, <2>2
<1>4. Len(c) > 0 /\ Len(c) % 2 = 0
  <2>1. n \in Nat /\ Len(t) \in Nat /\ n % 2 = 0 /\ Len(t) % 2 = 0 /\ n > 0
    BY <1>1, <1>2
  <2>2. (n + Len(t)) % 2 = 0
    BY <2>1, EvenShift
  <2> QED
    BY <1>1, <2>1, <2>2
<1> QED
  BY <1>3, <1>4 DEF Good, Whole, c

-----------------------------------------------------------------------------
(* What a flush does to the rows.                                          *)

\* The types of the leaderboard's parts.
LEMMA WriterTypes ==
  ASSUME BoardTypes, NEW p \in Searches
  PROVE  /\ writer[p] \in [pc : Steps, header : BOOLEAN, buffer : Seq(Piece)]
         /\ writer[p].buffer \in Seq(Piece) /\ Unwritten(p) \in Nat
         /\ DOMAIN board = 1..Len(board) /\ Len(board) \in Nat /\ board \in Seq(Piece)
  BY DEF BoardTypes, Unwritten

\* A search whose writer stands still keeps its part of the invariant.
LEMMA Untouched ==
  ASSUME NEW q \in Searches, writer'[q] = writer[q], program' = program,
         results' = results \/ q = "other"
  PROVE  /\ Rows(q)' = Rows(q) /\ Text(q)' = Text(q)
         /\ Owed(q)' = Owed(q) /\ Left(q)' = Left(q)
         /\ IsRest(q) => IsRest(q)'
<1>1. Rows(q)' = Rows(q)
  BY RowsStay
<1>2. Text(q)' = Text(q)
  BY <1>1 DEF Text, Halves
<1>3. Owed(q)' = Owed(q) /\ Unwritten(q)' = Unwritten(q)
  BY <1>1 DEF Owed, Unwritten
<1>4. Left(q)' = Left(q)
  BY <1>3 DEF Left
<1>5. IsRest(q) => IsRest(q)'
  BY <1>2, <1>3 DEF IsRest
<1> QED
  BY <1>1, <1>2, <1>3, <1>4, <1>5

\* So it does with the rows on a leaderboard that stands still.
LEMMA UntouchedBoard ==
  ASSUME NEW q \in Searches, writer'[q] = writer[q], program' = program,
         results' = results \/ q = "other", board' = board
  PROVE  IsWritten(q) => IsWritten(q)'
<1>1. Rows(q)' = Rows(q) /\ Owed(q)' = Owed(q) /\ Left(q)' = Left(q)
  BY Untouched
<1>2. Own(q)' = Own(q)
  BY DEF Own
<1>3. Halves(Rows(q))' = Halves(Rows(q))
  BY <1>1 DEF Halves
<1> QED
  BY <1>1, <1>2, <1>3 DEF IsWritten

-----------------------------------------------------------------------------
\* Where the elements of two sequences are in their concatenation.
LEMMA Concatenation ==
  ASSUME NEW S, NEW s \in Seq(S), NEW t \in Seq(S)
  PROVE  /\ s \o t \in Seq(S) /\ Len(s \o t) = Len(s) + Len(t)
         /\ \A i \in 1..Len(s) : (s \o t)[i] = s[i]
         /\ \A i \in 1..Len(t) : (s \o t)[Len(s) + i] = t[i]
  OBVIOUS

\* What is left of a sequence without its first elements.
LEMMA Remainder ==
  ASSUME NEW S, NEW t \in Seq(S), NEW n \in 1..Len(t)
  PROVE  LET v == SubSeq(t, n + 1, Len(t)) IN
         /\ v \in Seq(S) /\ Len(v) = Len(t) - n
         /\ \A i \in 1..(Len(t) - n) : v[i] = t[n + i]
<1> DEFINE v == SubSeq(t, n + 1, Len(t))
           l == Len(t)
<1>1. l \in Nat /\ n \in Nat /\ n <= l
  OBVIOUS
<1>2. v \in Seq(S) /\ Len(v) = IF n + 1 <= l THEN l - (n + 1) + 1 ELSE 0
  BY <1>1
<1>3. \A i \in 1..(l - (n + 1) + 1) : v[i] = t[(n + 1) + i - 1]
  BY <1>1
<1> HIDE DEF v, l
<1>4. l - (n + 1) + 1 = l - n
  BY <1>1
<1>5. Len(v) = l - n
  BY <1>1, <1>2
<1>6. ASSUME NEW i \in 1..(l - n) PROVE v[i] = t[n + i]
  <2>1. (n + 1) + i - 1 = n + i
    BY <1>1
  <2>2. v[i] = t[(n + 1) + i - 1]
    BY <1>3, <1>4
  <2> QED
    BY <2>1, <2>2
<1> QED
  BY <1>2, <1>5, <1>6 DEF v, l

\* What a flush moves from the buffer: halves of the header, then rows.
LEMMA FlushedHalves ==
  ASSUME BoardTypes, NEW p \in Searches, IsRest(p), writer[p].pc = "write",
         NEW n \in 1..Unwritten(p)
  PROVE  LET c == SubSeq(writer[p].buffer, 1, n) IN
         /\ c \in Seq(Piece) /\ Len(c) = n
         /\ \A j \in 1..n :
              /\ j <= Unwritten(p) - Owed(p) => c[j][1] = Header
              /\ j > Unwritten(p) - Owed(p) =>
                   /\ Owed(p) - Unwritten(p) + j \in 1..Owed(p)
                   /\ c[j] = Halves(Rows(p))[Owed(p) - Unwritten(p) + j]
                   /\ c[j][1] \in {p} \X Row
<1> DEFINE c == SubSeq(writer[p].buffer, 1, n)
           L == Unwritten(p)
           R == Owed(p)
           H == HeaderLen(p)
           T == Len(Text(p))
           halves == Halves(Rows(p))
<1>1. writer[p].buffer \in Seq(Piece) /\ L \in Nat /\ Len(writer[p].buffer) = L
  BY WriterTypes DEF Unwritten
<1>2. c \in Seq(Piece) /\ Len(c) = n /\ \A j \in 1..n : c[j] = writer[p].buffer[j]
  BY <1>1
<1>3. /\ R \in Nat /\ H \in {0, 2} /\ T = H + R
      /\ \A h \in 1..H : Text(p)[h] = <<Header, h % 2>>
      /\ \A h \in 1..R :
           /\ Text(p)[H + h] = halves[h]
           /\ halves[h] = <<Rows(p)[(h + 1) \div 2], h % 2>>
           /\ Rows(p)[(h + 1) \div 2] \in {p} \X Row
  BY TextType
<1>4. /\ L <= T
      /\ \A i \in 1..L : writer[p].buffer[i] = Text(p)[T - L + i]
  BY DEF IsRest
<1>n. L \in Nat /\ R \in Nat /\ H \in {0, 2} /\ T = H + R /\ L <= T
  BY <1>1, <1>3, <1>4
<1> HIDE DEF L, R, H, T, c, halves
<1>5. ASSUME NEW j \in 1..n
      PROVE  /\ j <= L - R => c[j][1] = Header
             /\ j > L - R =>
                  /\ R - L + j \in 1..R
                  /\ c[j] = halves[R - L + j]
                  /\ c[j][1] \in {p} \X Row
  <2>1. j \in 1..L /\ j \in Int /\ n \in Int /\ j <= n
    BY <1>1 DEF L
  <2>2. c[j] = Text(p)[T - L + j]
    BY <1>2, <1>4, <2>1
  <2>3. CASE j <= L - R
    <3>1. T - L + j \in 1..H
      BY <1>n, <2>1, <2>3
    <3>2. c[j][1] = Header
      BY <1>3, <2>2, <3>1
    <3>3. ~(j > L - R)
      BY <1>n, <2>1, <2>3
    <3> QED
      BY <3>2, <3>3
  <2>4. CASE ~(j <= L - R)
    <3>1. R - L + j \in 1..R /\ T - L + j = H + (R - L + j)
      BY <1>n, <2>1, <2>4
    <3>2. c[j] = halves[R - L + j] /\ c[j][1] \in {p} \X Row
      BY <1>3, <2>2, <3>1
    <3> QED
      BY <2>4, <3>1, <3>2
  <2> QED
    BY <2>3, <2>4
<1> QED
  BY <1>2, <1>5 DEF c, L, R, halves

\* A flush of another search leaves the own rows of this one where they were.
LEMMA FlushOthers ==
  ASSUME BoardTypes, NEW p \in Searches, NEW q \in Searches, q # p,
         writer'[q] = writer[q], program' = program, results' = results,
         NEW c \in Seq(Piece), board' = board \o c,
         \A j \in 1..Len(c) : c[j][1] = Header \/ c[j][1] \in {p} \X Row,
         IsWritten(q)
  PROVE  IsWritten(q)'
<1> DEFINE m == Len(board)
<1>1. /\ m \in Nat /\ Len(c) \in Nat /\ DOMAIN board = 1..m
      /\ DOMAIN (board') = 1..(m + Len(c))
      /\ \A i \in 1..m : board'[i] = board[i]
      /\ \A j \in 1..Len(c) : board'[m + j] = c[j]
  BY WriterTypes
<1>2. \A x : x = Header \/ x \in {p} \X Row => x \notin {q} \X Row
  BY HeaderIsNoRow
<1> HIDE DEF m
<1>3. \A i \in 1..(m + Len(c)) : i \in 1..m \/ \E j \in 1..Len(c) : i = m + j
  <2> TAKE i \in 1..(m + Len(c))
  <2>1. CASE i <= m
    BY <1>1, <2>1
  <2>2. CASE ~(i <= m)
    <3>1. i - m \in 1..Len(c) /\ i = m + (i - m)
      BY <1>1, <2>2
    <3> QED
      BY <3>1
  <2> QED
    BY <2>1, <2>2
<1>4. \A i \in 1..m : i \in 1..(m + Len(c))
  BY <1>1
<1>5. Own(q)' = Own(q)
  <2>1. Own(q) = {i \in 1..m : board[i][1] \in {q} \X Row}
    BY <1>1 DEF Own
  <2>2. Own(q)' = {i \in 1..(m + Len(c)) : board'[i][1] \in {q} \X Row}
    BY <1>1 DEF Own
  <2>3. ASSUME NEW i \in 1..(m + Len(c)), board'[i][1] \in {q} \X Row
        PROVE  i \in 1..m /\ board[i][1] \in {q} \X Row
    BY <1>1, <1>2, <1>3, <2>3
  <2>4. ASSUME NEW i \in 1..m, board[i][1] \in {q} \X Row
        PROVE  i \in 1..(m + Len(c)) /\ board'[i][1] \in {q} \X Row
    BY <1>1, <1>4, <2>4
  <2> QED
    BY <2>1, <2>2, <2>3, <2>4
<1>6. \A i \in Own(q) : board'[i] = board[i]
  BY <1>1 DEF Own
<1>7. Rows(q)' = Rows(q) /\ Owed(q)' = Owed(q) /\ Left(q)' = Left(q)
  BY Untouched
<1>8. Halves(Rows(q))' = Halves(Rows(q))
  BY <1>7 DEF Halves
<1> QED
  BY <1>5, <1>6, <1>7, <1>8 DEF IsWritten

\* A flush appends the next own rows behind those that are there.
LEMMA FlushOwn ==
  ASSUME BoardTypes, NEW p \in Searches, IsRest(p), IsWritten(p),
         writer[p].pc = "write", NEW n \in 1..Unwritten(p),
         board' = board \o SubSeq(writer[p].buffer, 1, n),
         writer' = [writer EXCEPT ![p].buffer = SubSeq(@, n + 1, Len(@))],
         program' = program, results' = results
  PROVE  IsRest(p)' /\ IsWritten(p)'
<1> DEFINE L == Unwritten(p)
           R == Owed(p)
           b == writer[p].buffer
           c == SubSeq(b, 1, n)
           m == Len(board)
           halves == Halves(Rows(p))
           left(l) == IF l <= R THEN l ELSE R
           own == Own(p)
           new == (m + (L - left(L)) + 1)..(m + n)
<1>1. /\ b \in Seq(Piece) /\ L \in Nat /\ Len(b) = L
      /\ m \in Nat /\ DOMAIN board = 1..m /\ board \in Seq(Piece)
  BY WriterTypes DEF Unwritten
<1>2. /\ writer'[p].pc = "write" /\ writer'[p].header = writer[p].header
      /\ writer'[p].buffer = SubSeq(b, n + 1, L)
  BY WriterTypes, <1>1 DEF BoardTypes
<1>3. /\ n \in Nat /\ n <= L /\ L - n \in Nat
      /\ Len(writer'[p].buffer) = L - n
      /\ \A i \in 1..(L - n) : writer'[p].buffer[i] = b[n + i]
  <2>1. n \in Nat /\ n <= L /\ L - n \in Nat
    BY <1>1
  <2> DEFINE rest == SubSeq(b, n + 1, L)
  <2>0. n \in 1..L
    OBVIOUS
  <2> HIDE DEF L, b
  <2>2. Len(rest) = L - n /\ \A i \in 1..(L - n) : rest[i] = b[n + i]
    <3>1. b \in Seq(Piece) /\ n \in 1..Len(b) /\ Len(b) = L
      BY <1>1, <2>0
    <3> QED
      BY <3>1, Remainder
  <2> QED
    BY <1>2, <2>1, <2>2
<1>4. Rows(p)' = Rows(p)
  BY RowsStay
<1>5. /\ Text(p)' = Text(p) /\ Owed(p)' = R /\ Unwritten(p)' = L - n
      /\ Halves(Rows(p))' = halves
  BY <1>2, <1>3, <1>4 DEF Text, Owed, Unwritten, Halves
<1>6. Left(p)' = left(L - n) /\ Left(p) = left(L)
  BY <1>5 DEF Left
<1>7. /\ R \in Nat /\ L <= Len(Text(p)) /\ Len(Text(p)) \in Nat
      /\ \A i \in 1..L : b[i] = Text(p)[Len(Text(p)) - L + i]
  <2>1. R \in Nat /\ HeaderLen(p) \in {0, 2} /\ Len(Text(p)) = HeaderLen(p) + R
    BY TextType
  <2> QED
    BY <2>1 DEF IsRest
<1>8. /\ c \in Seq(Piece) /\ Len(c) = n
      /\ \A j \in 1..n :
           /\ j <= L - R => c[j][1] = Header
           /\ j > L - R =>
                /\ R - L + j \in 1..R
                /\ c[j] = halves[R - L + j]
                /\ c[j][1] \in {p} \X Row
  BY FlushedHalves
<1>9. /\ DOMAIN (board') = 1..(m + n)
      /\ \A i \in 1..m : board'[i] = board[i]
      /\ \A j \in 1..n : board'[m + j] = c[j]
  <2>1. c \in Seq(Piece) /\ Len(c) = n /\ board' = board \o c
    BY <1>8
  <2>2. board \in Seq(Piece)
    BY <1>1
  <2> HIDE DEF c
  <2>3. /\ board' \in Seq(Piece) /\ Len(board') = m + n
        /\ \A i \in 1..m : board'[i] = board[i]
        /\ \A j \in 1..n : board'[m + j] = c[j]
    <3>1. /\ board \o c \in Seq(Piece) /\ Len(board \o c) = Len(board) + Len(c)
          /\ \A i \in 1..Len(board) : (board \o c)[i] = board[i]
          /\ \A i \in 1..Len(c) : (board \o c)[Len(board) + i] = c[i]
      BY <2>1, <2>2, Concatenation
    <3> QED
      BY <2>1, <3>1
  <2> QED
    BY <2>3
<1>10. /\ Cardinality(own) = R - left(L)
       /\ \A i \in own : board[i] = halves[Cardinality(own \cap 1..i)]
  BY <1>6 DEF IsWritten
<1>11. own = {i \in 1..m : board[i][1] \in {p} \X Row}
       /\ Own(p)' = {i \in 1..(m + n) : board'[i][1] \in {p} \X Row}
  BY <1>1, <1>9 DEF Own
<1>12. IsRest(p)'
  <2> DEFINE T == Len(Text(p))
  <2>1. L - n <= T
    BY <1>1, <1>3, <1>7
  <2>2. ASSUME NEW i \in 1..(L - n) PROVE writer'[p].buffer[i] = Text(p)[T - (L - n) + i]
    <3>1. n + i \in 1..L /\ T - L + (n + i) = T - (L - n) + i
      <4>1. L \in Nat /\ n \in Nat /\ n <= L /\ T \in Nat /\ i \in 1..(L - n)
        BY <1>1, <1>3, <1>7
      <4> HIDE DEF L, T
      <4> QED
        BY <4>1
    <3>2. b[n + i] = Text(p)[T - L + (n + i)]
      BY <1>7, <3>1
    <3> QED
      BY <1>3, <3>1, <3>2
  <2> QED
    BY <1>2, <1>5, <2>1, <2>2 DEF IsRest
<1>n. L \in Nat /\ R \in Nat /\ m \in Nat /\ n \in Nat /\ n <= L
  BY <1>1, <1>3, <1>7
<1> HIDE DEF L, b, c, m, halves, own
<1> HIDE DEF R
<1>13. /\ left(L) \in Nat /\ L - left(L) >= 0 /\ left(L) <= R
       /\ \A j \in 1..n : (j > L - R) <=> (j >= L - left(L) + 1)
  <2>1. left(L) \in Nat /\ L - left(L) >= 0 /\ left(L) <= R
    BY <1>n
  <2>2. ASSUME NEW j \in 1..n PROVE (j > L - R) <=> (j >= L - left(L) + 1)
    <3>1. j \in Int /\ j >= 1
      BY <1>n
    <3> QED
      BY <1>n, <3>1
  <2> QED
    BY <2>1, <2>2
<1>14. Own(p)' = own \cup new
  <2>1. ASSUME NEW i \in 1..(m + n), i <= m
        PROVE  i \in Own(p)' <=> i \in own \cup new
    <3>1. i \in 1..m /\ i \notin new
      BY <1>1, <1>13, <2>1
    <3> QED
      BY <1>9, <1>11, <3>1
  <2>2. ASSUME NEW i \in 1..(m + n), ~(i <= m)
        PROVE  i \in Own(p)' <=> i \in own \cup new
    <3> DEFINE j == i - m
    <3>1. j \in 1..n /\ i = m + j /\ i \notin 1..m
      BY <1>n, <2>2
    <3>2. i \in new <=> j >= L - left(L) + 1
      <4> DEFINE d == L - left(L)
      <4>1. d \in Int /\ m \in Nat /\ n \in Nat /\ j \in 1..n /\ i = m + j
        BY <1>n, <1>13, <3>1
      <4> HIDE DEF d, j
      <4>2. i \in (m + d + 1)..(m + n) <=> j >= d + 1
        BY <4>1
      <4> QED
        BY <4>2 DEF d
    <3>3. i \notin own
      BY <1>11, <3>1
    <3>4. j \in Int /\ L - R \in Int
      BY <1>1, <1>7, <3>1
    <3> HIDE DEF j
    <3>5. (j > L - R) <=> c[j][1] \in {p} \X Row
      <4>1. ~(j > L - R) => j <= L - R
        BY <3>4
      <4> QED
        BY <1>8, <3>1, <4>1, HeaderIsNoRow
    <3>6. i \in Own(p)' <=> c[j][1] \in {p} \X Row
      BY <1>9, <1>11, <3>1
    <3> QED
      BY <1>13, <3>1, <3>2, <3>3, <3>5, <3>6
  <2>3. own \cup new \in SUBSET (1..(m + n))
    <3>1. \A i \in 1..m : i \in 1..(m + n)
      BY <1>n
    <3>2. \A i \in new : i \in 1..(m + n)
      <4> TAKE i \in new
      <4> DEFINE lo == m + (L - left(L)) + 1
      <4>1. lo \in Int /\ lo >= 1 /\ i \in lo..(m + n)
        <5>1. m \in Nat /\ left(L) \in Nat /\ L \in Nat /\ L - left(L) >= 0
          BY <1>n, <1>13
        <5> HIDE DEF left
        <5> QED
          BY <5>1
      <4> HIDE DEF lo
      <4> QED
        BY <1>n, <4>1
    <3> HIDE DEF new
    <3> QED
      BY <1>11, <3>1, <3>2
  <2>4. \A i \in 1..(m + n) : i <= m \/ ~(i <= m)
    OBVIOUS
  <2>5. Own(p)' \in SUBSET (1..(m + n))
    BY <1>11
  <2> QED
    BY <2>1, <2>2, <2>3, <2>4, <2>5
<1>15. /\ IsFiniteSet(own) /\ \A i : IsFiniteSet(own \cap 1..i)
       /\ \A x \in own : x \in 1..m
  <2>1. IsFiniteSet(1..m)
    BY <1>1, FS_Interval
  <2>2. own \in SUBSET (1..m)
    BY <1>11
  <2>3. IsFiniteSet(own)
    BY <2>1, <2>2, FS_Subset
  <2> QED
    BY <2>2, <2>3, FS_Subset
\* What the new places add to a count of the own ones.
<1>16. ASSUME NEW k \in 0..n
       PROVE  Cardinality(own \cup ((m + (L - left(L)) + 1)..(m + k)))
                = R - left(L) + (IF L - left(L) + 1 > k THEN 0 ELSE k - (L - left(L)))
  <2> DEFINE lo == m + (L - left(L)) + 1
             hi == m + k
  <2>1. lo \in Int /\ hi \in Int /\ lo > m
    BY <1>1, <1>13
  <2>2. IsFiniteSet(lo..hi) /\ Cardinality(lo..hi) = IF lo > hi THEN 0 ELSE hi - lo + 1
    <3> HIDE DEF lo, hi
    <3> QED
      BY <2>1, FS_Interval
  <2>3. own \cap lo..hi = {}
    <3> SUFFICES ASSUME NEW x \in own, x \in lo..hi PROVE FALSE
      OBVIOUS
    <3>1. x \in 1..m
      BY <1>15
    <3> HIDE DEF lo, hi
    <3> QED
      BY <1>1, <2>1, <3>1
  <2>4. Cardinality(own \cup lo..hi)
          = Cardinality(own) + Cardinality(lo..hi) - Cardinality(own \cap lo..hi)
    <3> HIDE DEF lo, hi
    <3> QED
      BY <1>15, <2>2, FS_Union
  <2>5. Cardinality({}) = 0
    BY FS_EmptySet
  <2>6. lo > hi <=> L - left(L) + 1 > k
    BY <1>1, <1>13
  <2>7. hi - lo + 1 = k - (L - left(L))
    BY <1>1, <1>13
  <2>8. Cardinality(own \cup lo..hi) = R - left(L) + Cardinality(lo..hi)
    <3>1. Cardinality(own \cup lo..hi) = Cardinality(own) + Cardinality(lo..hi)
      <4> HIDE DEF lo, hi
      <4>1. Cardinality(own) \in Int /\ Cardinality(lo..hi) \in Int
        BY <1>15, <2>2, FS_CardinalityType
      <4> QED
        <5>1. Cardinality(own \cap lo..hi) = 0
          BY <2>3, <2>5
        <5> QED
          BY <2>4, <4>1, <5>1
    <3> QED
      BY <1>10, <3>1
  <2> QED
    BY <2>2, <2>6, <2>7, <2>8
<1>17. Cardinality(Own(p)') = R - left(L - n)
  <2>1. n \in 0..n
    BY <1>3
  <2>2. Cardinality(own \cup new)
          = R - left(L) + (IF L - left(L) + 1 > n THEN 0 ELSE n - (L - left(L)))
    BY <1>16, <2>1
  <2>3. R - left(L) + (IF L - left(L) + 1 > n THEN 0 ELSE n - (L - left(L)))
          = R - left(L - n)
    BY <1>n
  <2> QED
    BY <1>14, <2>2, <2>3
<1>18. ASSUME NEW i \in Own(p)'
       PROVE  board'[i] = halves[Cardinality(Own(p)' \cap 1..i)]
  <2>1. CASE i \in own
    <3>1. Own(p)' \cap 1..i = own \cap 1..i
      <4>1. i \in 1..m
        BY <1>15, <2>1
      <4>2. \A x \in new : x \notin 1..i
        BY <1>1, <1>13, <4>1
      <4> QED
        BY <1>14, <4>2
    <3> QED
      BY <1>9, <1>10, <1>15, <2>1, <3>1
  <2>2. CASE i \notin own
    <3> DEFINE j == i - m
               lo == m + (L - left(L)) + 1
    <3>1. /\ i \in new /\ j \in 1..n /\ i = m + j /\ j >= L - left(L) + 1
          /\ j \in 0..n
      <4>1. i \in new
        BY <1>14, <2>2
      <4>2. /\ m \in Nat /\ n \in Nat /\ L - left(L) \in Nat
            /\ i \in (m + (L - left(L)) + 1)..(m + n)
        BY <1>1, <1>3, <1>13, <4>1
      <4> HIDE DEF left, new
      <4>3. /\ i \in Int /\ m + (L - left(L)) + 1 <= i /\ i <= m + n
        BY <4>2
      <4>4. i - m \in 1..n /\ i = m + (i - m) /\ i - m >= L - left(L) + 1 /\ i - m \in 0..n
        BY <4>2, <4>3
      <4> QED
        BY <4>1, <4>4
    <3>2. Own(p)' \cap 1..i = own \cup lo..(m + j)
      <4>1. \A x \in own : x \in 1..i
        BY <1>1, <1>15, <3>1
      <4>2. \A x \in new : x \in 1..i <=> x \in lo..(m + j)
        BY <1>1, <1>13, <3>1
      <4>3. \A x \in lo..(m + j) : x \in new
        BY <1>1, <1>13, <3>1
      <4> HIDE DEF j, lo, new
      <4> QED
        BY <1>14, <4>1, <4>2, <4>3
    <3>3. Cardinality(own \cup lo..(m + j)) = R - left(L) + (j - (L - left(L)))
      <4>1. Cardinality(own \cup lo..(m + j))
              = R - left(L) + (IF L - left(L) + 1 > j THEN 0 ELSE j - (L - left(L)))
        BY <1>16, <3>1
      <4> QED
        BY <1>1, <1>13, <3>1, <4>1
    <3>4. R - left(L) + (j - (L - left(L))) = R - L + j
      <4>1. j \in Int /\ left(L) \in Int
        BY <1>13, <3>1
      <4> HIDE DEF j, left
      <4> QED
        BY <1>n, <4>1
    <3>5. board'[i] = c[j] /\ c[j] = halves[R - L + j]
      <4>1. j > L - R
        BY <1>13, <3>1
      <4> HIDE DEF j
      <4> QED
        BY <1>8, <1>9, <3>1, <4>1
    <3> QED
      BY <3>2, <3>3, <3>4, <3>5
  <2> QED
    BY <2>1, <2>2
<1>19. IsWritten(p)'
  BY <1>2, <1>5, <1>6, <1>17, <1>18 DEF IsWritten
<1> QED
  BY <1>12, <1>19

\* What a flush writes, the file and the buffer together do not lose.
LEMMA FlushKeepsText ==
  ASSUME NEW S, NEW b \in Seq(S), NEW t \in Seq(S), NEW n \in 1..Len(t)
  PROVE  (b \o SubSeq(t, 1, n)) \o SubSeq(t, n + 1, Len(t)) = b \o t
<1> DEFINE u == SubSeq(t, 1, n)
           v == SubSeq(t, n + 1, Len(t))
           x == (b \o u) \o v
           y == b \o t
<1>1. Len(t) \in Nat /\ n \in Nat /\ n <= Len(t) /\ Len(b) \in Nat
  OBVIOUS
<1>2. u \in Seq(S) /\ Len(u) = n /\ \A i \in 1..n : u[i] = t[i]
  BY <1>1
<1>3. v \in Seq(S) /\ Len(v) = Len(t) - n /\ \A i \in 1..(Len(t) - n) : v[i] = t[n + i]
  BY Remainder
<1> HIDE DEF u, v
<1>4. /\ b \o u \in Seq(S) /\ Len(b \o u) = Len(b) + n
      /\ \A i \in 1..Len(b) : (b \o u)[i] = b[i]
      /\ \A i \in 1..n : (b \o u)[Len(b) + i] = u[i]
  BY <1>1, <1>2
<1>5. /\ x \in Seq(S) /\ Len(x) = Len(b) + Len(t)
      /\ \A i \in 1..(Len(b) + n) : x[i] = (b \o u)[i]
      /\ \A i \in 1..(Len(t) - n) : x[Len(b) + n + i] = v[i]
  <2> DEFINE w == b \o u
  <2>1. w \in Seq(S) /\ Len(w) = Len(b) + n
    BY <1>4
  <2> HIDE DEF w
  <2>2. /\ w \o v \in Seq(S) /\ Len(w \o v) = Len(w) + Len(v)
        /\ \A i \in 1..Len(w) : (w \o v)[i] = w[i]
        /\ \A i \in 1..Len(v) : (w \o v)[Len(w) + i] = v[i]
    <3>1. v \in Seq(S) /\ w \in Seq(S)
      BY <1>3, <2>1
    <3> QED
      BY <3>1, Concatenation
  <2>3. Len(w) + Len(v) = Len(b) + Len(t)
    BY <1>1, <1>3, <2>1
  <2> QED
    BY <1>1, <1>3, <2>1, <2>2, <2>3 DEF w
<1>6. /\ y \in Seq(S) /\ Len(y) = Len(b) + Len(t)
      /\ \A i \in 1..Len(b) : y[i] = b[i]
      /\ \A i \in 1..Len(t) : y[Len(b) + i] = t[i]
  BY <1>1
<1> HIDE DEF x, y
<1>7. ASSUME NEW i \in 1..(Len(b) + Len(t)) PROVE x[i] = y[i]
  <2>1. CASE i <= Len(b)
    <3>1. i \in 1..Len(b) /\ i \in 1..(Len(b) + n)
      BY <1>1, <2>1
    <3> QED
      BY <1>4, <1>5, <1>6, <3>1
  <2>2. CASE ~(i <= Len(b)) /\ i <= Len(b) + n
    <3> DEFINE j == i - Len(b)
    <3>1. j \in 1..n /\ j \in 1..Len(t) /\ i = Len(b) + j /\ i \in 1..(Len(b) + n)
      BY <1>1, <2>2
    <3> HIDE DEF j
    <3>2. x[i] = t[j]
      <4>1. x[i] = (b \o u)[Len(b) + j]
        BY <1>5, <3>1
      <4>2. (b \o u)[Len(b) + j] = t[j]
        BY <1>2, <1>4, <3>1
      <4> QED
        BY <4>1, <4>2
    <3>3. y[i] = t[j]
      BY <1>6, <3>1
    <3> QED
      BY <3>2, <3>3
  <2>3. CASE ~(i <= Len(b) + n)
    <3> DEFINE j == i - Len(b) - n
    <3>1. /\ j \in 1..(Len(t) - n) /\ n + j \in 1..Len(t)
          /\ i = Len(b) + n + j /\ i = Len(b) + (n + j)
      BY <1>1, <2>3
    <3> HIDE DEF j
    <3>2. x[i] = v[j] /\ v[j] = t[n + j]
      BY <1>3, <1>5, <3>1
    <3>3. y[i] = t[n + j]
      BY <1>6, <3>1
    <3> QED
      BY <3>2, <3>3
  <2>4. i \in Int /\ Len(b) + n \in Int /\ Len(b) \in Int
    BY <1>1
  <2> QED
    BY <2>1, <2>2, <2>3, <2>4
<1>8. x = y
  BY <1>5, <1>6, <1>7, SeqEqual
<1> QED
  BY <1>8 DEF x, y, u, v

-----------------------------------------------------------------------------
\* No search has opened the leaderboard yet.
LEMMA BoardInitial == ResearchInit => BoardInv
<1> SUFFICES ASSUME ResearchInit PROVE BoardInv
  OBVIOUS
<1>1. BoardTypes
  <2>1. <<>> \in Seq(Piece) /\ <<>> \in Seq(Result)
    OBVIOUS
  <2>2. writer \in [Searches -> [pc : Steps, header : BOOLEAN, buffer : Seq(Piece)]]
    BY <2>1 DEF ResearchInit, Steps
  <2> QED
    BY <2>1, <2>2 DEF ResearchInit, BoardTypes
<1>2. ASSUME NEW p \in Searches
      PROVE  writer[p].pc = "search" /\ Own(p) = {}
  BY DEF ResearchInit, Own
<1>3. \A p \in Searches : IsRest(p) /\ IsWritten(p)
  BY <1>2 DEF IsRest, IsWritten
<1>4. InTurn
  BY <1>2 DEF InTurn, Appending, SoundBoard, ResearchInit
<1> QED
  BY <1>1, <1>3, <1>4 DEF BoardInv

\* The row of a trial that is over.
LEMMA CollectedRow ==
  ASSUME GateInv, BoardTypes, Collect
  PROVE  results' \in Seq(Result)
<1> DEFINE test == verdict["test"]
           train == verdict["train"]
           config == Configs[Len(results) + 1]
           row == [config |-> config, promoted |-> test.promote,
                   score |-> GeneralizationScore(train.worst, test.worst)]
<1>1. split = "done" /\ results' = Append(results, row)
  BY DEF Collect, NextTrial
<1>2. train \in Verdict /\ test \in Verdict
  BY <1>1 DEF GateInv, TrialIsSound
<1>3. test.promote \in BOOLEAN /\ test.worst \in Int /\ train.worst \in Int
  BY <1>2 DEF Verdict
<1>4. GeneralizationScore(train.worst, test.worst) \in Int
  <2> HIDE DEF train, test
  <2>1. train.worst - test.worst \in Int
    BY <1>3
  <2>2. Max({0, train.worst - test.worst}) \in Int
    BY <2>1, MaxOfTwo
  <2> QED
    BY <1>3, <2>2 DEF GeneralizationScore
<1>5. config \in ConfigSet
  <2>1. Len(results) + 1 \in Nat
    BY DEF BoardTypes
  <2> HIDE DEF config
  <2>2. config = MutationGrid[Len(results) + 1] \/ config = Candidates[Len(results) + 1]
    BY DEF Configs, config
  <2> QED
    BY <2>1, <2>2 DEF ConfigSet
<1>6. row \in Result
  <2> HIDE DEF test, train, config
  <2> QED
    BY <1>3, <1>4, <1>5 DEF Result
<1> HIDE DEF row
<1> QED
  BY <1>1, <1>6 DEF BoardTypes

\* The types are kept.
LEMMA BoardTypesStep ==
  ASSUME GateInv, BoardTypes, [ResearchNext]_researchVars
  PROVE  BoardTypes'
<1>1. CASE UNCHANGED researchVars
  BY <1>1 DEF researchVars, boardVars, BoardTypes
<1>2. CASE Trial
  BY <1>2 DEF Trial, boardVars, BoardTypes
<1>3. CASE Collect
  BY <1>3, CollectedRow DEF Collect, boardVars, BoardTypes
<1>4. ASSUME NEW p \in Searches, CheckBoard(p) PROVE BoardTypes'
  <2>1. writer' \in [Searches -> [pc : Steps, header : BOOLEAN, buffer : Seq(Piece)]]
    <3>a. (~created) \in BOOLEAN
      OBVIOUS
    <3>b. "open" \in Steps
      BY DEF Steps
    <3>2. writer' = [writer EXCEPT ![p].pc = "open", ![p].header = ~created]
      BY <1>4 DEF CheckBoard
    <3> QED
      BY <3>a, <3>b, <3>2 DEF BoardTypes
  <2> QED
    BY <1>4, <2>1 DEF CheckBoard, BoardTypes
<1>5. ASSUME NEW p \in Searches, OpenBoard(p) PROVE BoardTypes'
  <2>1. Text(p) \in Seq(Piece)
    BY TextType
  <2> QED
    BY <1>5, <2>1 DEF OpenBoard, BoardTypes, Steps
<1>6. ASSUME NEW p \in Searches, Flush(p) PROVE BoardTypes'
  <2>1. PICK n \in 1..Len(writer[p].buffer) :
          /\ board' = board \o SubSeq(writer[p].buffer, 1, n)
          /\ writer' = [writer EXCEPT ![p].buffer = SubSeq(@, n + 1, Len(@))]
    BY <1>6 DEF Flush
  <2>2. SubSeq(writer[p].buffer, 1, n) \in Seq(Piece)
        /\ SubSeq(writer[p].buffer, n + 1, Len(writer[p].buffer)) \in Seq(Piece)
    BY WriterTypes
  <2>3. board' \in Seq(Piece)
    BY <2>1, <2>2 DEF BoardTypes
  <2> QED
    BY <1>6, <2>1, <2>2, <2>3 DEF Flush, BoardTypes
<1>7. ASSUME NEW p \in Searches, CloseBoard(p) PROVE BoardTypes'
  BY <1>7 DEF CloseBoard, BoardTypes, Steps
<1>8. ASSUME NEW p \in Searches, Kill(p) PROVE BoardTypes'
  <2>1. <<>> \in Seq(Piece)
    OBVIOUS
  <2>2. writer' \in [Searches -> [pc : Steps, header : BOOLEAN, buffer : Seq(Piece)]]
    BY <1>8, <2>1 DEF Kill, BoardTypes, Steps
  <2> QED
    BY <1>8, <2>2 DEF Kill, BoardTypes
<1> QED
  BY <1>1, <1>2, <1>3, <1>4, <1>5, <1>6, <1>7, <1>8 DEF ResearchNext

-----------------------------------------------------------------------------
(* Every step of an append keeps the invariant of the leaderboard.         *)

\* Steps that leave the writers alone.
LEMMA StandingStep ==
  ASSUME BoardInv, UNCHANGED boardVars, program' = program,
         results' = results \/ writer["this"].pc = "search"
  PROVE  (\A p \in Searches : IsRest(p) /\ IsWritten(p))' /\ InTurn'
<1>1. writer' = writer /\ board' = board /\ created' = created /\ disturbed' = disturbed
  BY DEF boardVars
<1>2. ASSUME NEW p \in Searches PROVE IsRest(p)' /\ IsWritten(p)'
  <2>0. IsRest(p) /\ IsWritten(p)
    BY DEF BoardInv
  <2>1. CASE results' = results \/ p = "other"
    BY <1>1, <2>0, <2>1, Untouched, UntouchedBoard
  <2>2. CASE writer["this"].pc = "search" /\ p = "this"
    <3>1. writer'[p].pc = "search" /\ Own(p)' = {}
      BY <1>1, <2>0, <2>2 DEF IsWritten, Own
    <3> QED
      BY <3>1 DEF IsRest, IsWritten
  <2> QED
    BY <2>1, <2>2 DEF Searches
<1>3. InTurn'
  BY <1>1 DEF BoardInv, InTurn, Appending, SoundBoard
<1> QED
  BY <1>2, <1>3

\* The searches other than the one that takes a step of its append.
LEMMA OtherSearches ==
  ASSUME BoardInv, NEW p \in Searches, NEW q \in Searches, q # p,
         writer'[q] = writer[q], board' = board, program' = program, results' = results
  PROVE  IsRest(q)' /\ IsWritten(q)'
  BY Untouched, UntouchedBoard DEF BoardInv

\* The search looks whether the file exists; nothing but its own place changes.
LEMMA CheckStep ==
  ASSUME BoardInv, NEW p \in Searches, CheckBoard(p)
  PROVE  (\A q \in Searches : IsRest(q) /\ IsWritten(q))' /\ InTurn'
<1>1. /\ writer[p].pc = "search" /\ UNCHANGED <<program, results, created, board>>
      /\ disturbed' = (disturbed \/ \E q \in Searches : Appending(q))
      /\ writer'[p].pc = "open" /\ writer'[p].header = ~created
      /\ \A q \in Searches : q # p => writer'[q] = writer[q]
  BY DEF CheckBoard, BoardInv, BoardTypes
<1>2. IsRest(p)' /\ IsWritten(p)'
  <2>1. Own(p) = {} /\ Own(p)' = Own(p)
    BY <1>1 DEF BoardInv, IsWritten, Own
  <2> QED
    BY <1>1, <2>1 DEF IsRest, IsWritten
<1>3. ASSUME ~disturbed' PROVE InTurn'
  <2>1. ~disturbed /\ \A q \in Searches : ~Appending(q) /\ writer[q].pc # "write"
    BY <1>1, <1>3 DEF Appending
  <2>2. SoundBoard /\ SoundBoard'
    BY <1>1, <2>1 DEF BoardInv, InTurn, SoundBoard
  <2>3. \A q \in Searches : q # p => writer'[q].pc \notin {"open", "write"}
    BY <1>1, <2>1 DEF Appending
  <2> QED
    BY <1>1, <2>2, <2>3 DEF InTurn, Appending
<1> QED
  BY <1>1, <1>2, <1>3, OtherSearches DEF InTurn

\* Opening creates the file if need be, and fills the buffer.
LEMMA OpenStep ==
  ASSUME BoardInv, NEW p \in Searches, OpenBoard(p)
  PROVE  (\A q \in Searches : IsRest(q) /\ IsWritten(q))' /\ InTurn'
<1>1. /\ writer[p].pc = "open" /\ UNCHANGED <<program, results, board, disturbed>>
      /\ created' = TRUE
      /\ writer'[p].pc = "write" /\ writer'[p].header = writer[p].header
      /\ writer'[p].buffer = Text(p)
      /\ \A q \in Searches : q # p => writer'[q] = writer[q]
  BY DEF OpenBoard, BoardInv, BoardTypes
<1>2. Rows(p)' = Rows(p)
  BY <1>1, RowsStay
<1>3. Text(p)' = Text(p) /\ Owed(p)' = Owed(p)
  BY <1>1, <1>2 DEF Text, Halves, Owed
<1>4. /\ Text(p) \in Seq(Piece) /\ Len(Text(p)) \in Nat
      /\ Owed(p) \in Nat /\ Len(Text(p)) >= Owed(p)
  <2>1. /\ Text(p) \in Seq(Piece) /\ Owed(p) \in Nat
        /\ HeaderLen(p) \in {0, 2} /\ Len(Text(p)) = HeaderLen(p) + Owed(p)
    BY TextType DEF BoardInv
  <2> QED
    BY <2>1
<1>5. IsRest(p)'
  <2>1. Unwritten(p)' = Len(Text(p))
    BY <1>1 DEF Unwritten
  <2>2. \A i \in 1..Len(Text(p)) : Len(Text(p)) - Len(Text(p)) + i = i
    BY <1>4
  <2> QED
    BY <1>1, <1>3, <1>4, <2>1, <2>2 DEF IsRest
<1>6. IsWritten(p)'
  <2>1. Own(p)' = {}
    BY <1>1 DEF BoardInv, IsWritten, Own
  <2>2. Left(p)' = Owed(p)
    BY <1>1, <1>3, <1>4 DEF Left, Unwritten
  <2>3. Cardinality({}) = Owed(p) - Owed(p)
    BY <1>4, FS_EmptySet
  <2> QED
    BY <1>1, <1>3, <2>1, <2>2, <2>3 DEF IsWritten
<1>7. ASSUME ~disturbed' PROVE InTurn'
  <2>1. /\ ~disturbed
        /\ \A q \in Searches : q # p => ~Appending(q) /\ writer[q].pc # "write"
        /\ writer[p].header = ~created
    BY <1>1, <1>7 DEF BoardInv, InTurn, Appending
  <2>2. SoundBoard
    BY <1>1, <1>7, <2>1 DEF BoardInv, InTurn
  <2>3. Whole(Text(p), HeaderLen(p)) /\ (writer[p].header => Good(Text(p)))
    BY TextIsWhole DEF BoardInv
  <2>4. board \in Seq(Piece)
    BY DEF BoardInv, BoardTypes
  <2>5. Good(board \o Text(p))
    <3>1. CASE created
      <4>1. Good(board) /\ Whole(Text(p), 0)
        BY <2>1, <2>2, <2>3, <3>1 DEF SoundBoard, HeaderLen
      <4> QED
        BY <1>4, <2>4, <4>1, RowsAfter
    <3>2. CASE ~created
      <4>1. board = <<>> /\ Good(Text(p))
        BY <2>1, <2>2, <2>3, <3>2 DEF SoundBoard
      <4>2. <<>> \o Text(p) = Text(p)
        BY <1>4
      <4> QED
        BY <4>1, <4>2
    <3> QED
      BY <3>1, <3>2
  <2>6. \A q \in Searches : q # p => writer'[q].pc \notin {"open", "write"}
    BY <1>1, <2>1 DEF Appending
  <2> QED
    BY <1>1, <2>5, <2>6 DEF InTurn, Appending
<1> QED
  BY <1>1, <1>5, <1>6, <1>7, OtherSearches DEF InTurn

\* A flush moves halves from the buffer to the file.
LEMMA FlushStep ==
  ASSUME BoardInv, NEW p \in Searches, Flush(p)
  PROVE  (\A q \in Searches : IsRest(q) /\ IsWritten(q))' /\ InTurn'
<1>1. PICK n \in 1..Len(writer[p].buffer) :
        /\ board' = board \o SubSeq(writer[p].buffer, 1, n)
        /\ writer' = [writer EXCEPT ![p].buffer = SubSeq(@, n + 1, Len(@))]
  BY DEF Flush
<1> DEFINE b == writer[p].buffer
           c == SubSeq(b, 1, n)
<1>2. /\ writer[p].pc = "write" /\ UNCHANGED <<program, results, created, disturbed>>
      /\ writer'[p].pc = "write" /\ writer'[p].buffer = SubSeq(b, n + 1, Len(b))
      /\ \A q \in Searches : q # p => writer'[q] = writer[q]
  <2>1. writer[p].pc = "write" /\ UNCHANGED <<program, results, created, disturbed>>
    BY DEF Flush
  <2>2. writer \in [Searches -> [pc : Steps, header : BOOLEAN, buffer : Seq(Piece)]]
    BY DEF BoardInv, BoardTypes
  <2> QED
    BY <1>1, <2>1, <2>2
<1>3. n \in 1..Unwritten(p) /\ BoardTypes /\ IsRest(p) /\ IsWritten(p)
  BY DEF Unwritten, BoardInv
<1>4. IsRest(p)' /\ IsWritten(p)'
  BY <1>1, <1>2, <1>3, FlushOwn
<1>5. /\ c \in Seq(Piece) /\ Len(c) = n
      /\ \A j \in 1..n : c[j][1] = Header \/ c[j][1] \in {p} \X Row
  <2>1. Owed(p) \in Nat /\ Unwritten(p) \in Nat
    BY <1>3, TextType, WriterTypes
  <2>2. /\ c \in Seq(Piece) /\ Len(c) = n
        /\ \A j \in 1..n :
             /\ j <= Unwritten(p) - Owed(p) => c[j][1] = Header
             /\ j > Unwritten(p) - Owed(p) => c[j][1] \in {p} \X Row
    BY <1>2, <1>3, FlushedHalves
  <2>3. \A j \in 1..n : j <= Unwritten(p) - Owed(p) \/ j > Unwritten(p) - Owed(p)
    BY <2>1
  <2> QED
    BY <2>2, <2>3
<1>6. ASSUME NEW q \in Searches, q # p PROVE IsRest(q)' /\ IsWritten(q)'
  <2>1. IsRest(q) /\ IsWritten(q)
    BY DEF BoardInv
  <2>2. IsRest(q)'
    BY <1>2, <1>6, <2>1, Untouched
  <2> HIDE DEF c
  <2>3. \A j \in 1..Len(c) : c[j][1] = Header \/ c[j][1] \in {p} \X Row
    BY <1>5
  <2>4. board' = board \o c /\ writer'[q] = writer[q]
    BY <1>1, <1>2, <1>6 DEF c
  <2>5. IsWritten(q)'
    BY <1>2, <1>3, <1>5, <1>6, <2>1, <2>3, <2>4, FlushOthers
  <2> QED
    BY <2>2, <2>5
<1>7. ASSUME ~disturbed' PROVE InTurn'
  <2>1. /\ ~disturbed /\ \A q \in Searches : q # p => ~Appending(q)
        /\ created /\ Good(board \o b)
    BY <1>2, <1>7 DEF BoardInv, InTurn, Appending
  <2>2. board' \o writer'[p].buffer = board \o b
    <3>1. b \in Seq(Piece) /\ board \in Seq(Piece)
      BY <1>3, WriterTypes
    <3> HIDE DEF b
    <3>2. n \in 1..Len(b)
      BY DEF b
    <3>3. (board \o SubSeq(b, 1, n)) \o SubSeq(b, n + 1, Len(b)) = board \o b
      BY <3>1, <3>2, FlushKeepsText
    <3>4. board' = board \o SubSeq(b, 1, n) /\ writer'[p].buffer = SubSeq(b, n + 1, Len(b))
      BY <1>1, <1>2 DEF b
    <3> QED
      BY <3>3, <3>4
  <2>3. \A q \in Searches : q # p => writer'[q].pc \notin {"open", "write"}
    BY <1>2, <2>1 DEF Appending
  <2> QED
    BY <1>2, <2>1, <2>2, <2>3 DEF InTurn, Appending
<1> QED
  BY <1>4, <1>6, <1>7 DEF InTurn

\* Closing writes nothing: the buffer is empty.
LEMMA CloseStep ==
  ASSUME BoardInv, NEW p \in Searches, CloseBoard(p)
  PROVE  (\A q \in Searches : IsRest(q) /\ IsWritten(q))' /\ InTurn'
<1>1. /\ writer[p].pc = "write" /\ writer[p].buffer = <<>>
      /\ UNCHANGED <<program, results, created, board, disturbed>>
      /\ writer'[p].pc = "done" /\ writer'[p].header = writer[p].header
      /\ writer'[p].buffer = <<>>
      /\ \A q \in Searches : q # p => writer'[q] = writer[q]
  BY DEF CloseBoard, BoardInv, BoardTypes
<1>2. IsRest(p)' /\ IsWritten(p)'
  <2>1. Rows(p)' = Rows(p)
    BY <1>1, RowsStay
  <2>2. /\ Owed(p)' = Owed(p) /\ Unwritten(p)' = Unwritten(p) /\ Own(p)' = Own(p)
        /\ Halves(Rows(p))' = Halves(Rows(p))
    BY <1>1, <2>1 DEF Owed, Unwritten, Own, Halves
  <2>3. Left(p)' = Left(p)
    BY <2>2 DEF Left
  <2> QED
    BY <1>1, <2>2, <2>3 DEF BoardInv, IsRest, IsWritten
<1>3. ASSUME ~disturbed' PROVE InTurn'
  <2>1. /\ ~disturbed /\ \A q \in Searches : q # p => ~Appending(q)
        /\ created /\ Good(board \o <<>>)
    BY <1>1, <1>3 DEF BoardInv, InTurn, Appending
  <2>2. board \in Seq(Piece)
    BY DEF BoardInv, BoardTypes
  <2>3. SoundBoard'
    <3>1. board \o <<>> = board
      BY <2>2
    <3> QED
      BY <1>1, <2>1, <3>1 DEF SoundBoard
  <2>4. \A q \in Searches : writer'[q].pc \notin {"open", "write"}
    BY <1>1, <2>1 DEF Appending
  <2> QED
    BY <2>3, <2>4 DEF InTurn, Appending
<1> QED
  BY <1>1, <1>2, <1>3, OtherSearches DEF InTurn

\* A kill loses the buffer, and disturbs if there was something in it.
LEMMA KillStep ==
  ASSUME BoardInv, NEW p \in Searches, Kill(p)
  PROVE  (\A q \in Searches : IsRest(q) /\ IsWritten(q))' /\ InTurn'
<1>1. /\ writer[p].pc \in {"open", "write"}
      /\ disturbed' = (disturbed \/ writer[p].buffer # <<>>)
      /\ UNCHANGED <<program, results, created, board>>
      /\ writer'[p].pc = "dead"
      /\ \A q \in Searches : q # p => writer'[q] = writer[q]
  BY DEF Kill, Appending, BoardInv, BoardTypes
<1>2. IsRest(p)' /\ IsWritten(p)'
  BY <1>1 DEF IsRest, IsWritten
<1>3. ASSUME ~disturbed' PROVE InTurn'
  <2>1. /\ ~disturbed /\ writer[p].buffer = <<>>
        /\ \A q \in Searches : q # p => ~Appending(q) /\ writer[q].pc # "write"
    BY <1>1, <1>3 DEF BoardInv, InTurn, Appending
  <2>2. SoundBoard
    <3>1. CASE writer[p].pc = "open"
      BY <1>1, <2>1, <3>1 DEF BoardInv, InTurn
    <3>2. CASE writer[p].pc = "write"
      <4>1. created /\ Good(board \o <<>>) /\ board \in Seq(Piece)
        BY <2>1, <3>2 DEF BoardInv, InTurn, BoardTypes
      <4>2. board \o <<>> = board
        BY <4>1
      <4> QED
        BY <4>1, <4>2 DEF SoundBoard
    <3> QED
      BY <1>1, <3>1, <3>2
  <2>3. SoundBoard'
    BY <1>1, <2>2 DEF SoundBoard
  <2>4. \A q \in Searches : writer'[q].pc \notin {"open", "write"}
    BY <1>1, <2>1 DEF Appending
  <2> QED
    BY <2>3, <2>4 DEF InTurn, Appending
<1> QED
  BY <1>1, <1>2, <1>3, OtherSearches DEF InTurn

\* Every step of a search or of its gate keeps the invariant.
LEMMA BoardStep == GateInv /\ BoardInv /\ [ResearchNext]_researchVars => BoardInv'
<1> SUFFICES ASSUME GateInv, BoardInv, [ResearchNext]_researchVars PROVE BoardInv'
  OBVIOUS
<1>1. BoardTypes'
  BY BoardTypesStep DEF BoardInv
<1>2. CASE UNCHANGED researchVars \/ Trial
  BY <1>1, <1>2, StandingStep DEF researchVars, Trial, BoardInv
<1>3. CASE Collect
  BY <1>1, <1>3, StandingStep DEF Collect, Searching, BoardInv
<1>4. CASE \E p \in Searches :
             CheckBoard(p) \/ OpenBoard(p) \/ Flush(p) \/ CloseBoard(p) \/ Kill(p)
  BY <1>1, <1>4, CheckStep, OpenStep, FlushStep, CloseStep, KillStep DEF BoardInv
<1> QED
  BY <1>2, <1>3, <1>4 DEF ResearchNext

-----------------------------------------------------------------------------
\* The inductive invariant of the leaderboard: what is in a buffer is the rest of
\* the text of its search, what the search has written is there in its order,
\* and undisturbed appends take turns.
THEOREM BoardInvariant == ResearchSpec => []BoardInv
<1>1. ResearchInit => BoardInv
  BY BoardInitial
<1>2. GateInv /\ BoardInv /\ [ResearchNext]_researchVars => BoardInv'
  BY BoardStep
<1> QED
  BY <1>1, <1>2, GateInvariant, PTL DEF ResearchSpec

\* append_to_leaderboard writes one header, as the first line, and no broken
\* line, as long as no two appends overlap and none is killed half-way.
THEOREM HeaderIsWrittenOnce == ResearchSpec => []HeaderOnce
<1>1. BoardInv => HeaderOnce
  <2> DEFINE lines == [i \in 1..(Len(board) \div 2) |-> board[2 * i][1]]
  <2> SUFFICES ASSUME BoardInv, ~disturbed, created,
                      \A p \in Searches : writer[p].pc # "write"
               PROVE  /\ board = Halves(lines) /\ lines # <<>>
                      /\ \A i \in DOMAIN lines : (lines[i] = Header) = (i = 1)
    BY DEF HeaderOnce
  <2>1. Good(board) /\ board \in Seq(Piece)
    BY DEF BoardInv, InTurn, SoundBoard, BoardTypes
  <2> DEFINE n == Len(board) \div 2
  <2>2. n \in Nat /\ n > 0 /\ Len(board) = 2 * n /\ DOMAIN board = 1..(2 * n)
    <3>1. Len(board) \in Nat /\ Len(board) % 2 = 0 /\ Len(board) > 0
      BY <2>1 DEF Good, Whole
    <3> QED
      BY <2>1, <3>1
  <2>3. \A h \in 1..(2 * n) :
          /\ board[h][2] = h % 2 /\ (board[h][1] = Header) = (h <= 2)
          /\ h % 2 = 0 => board[h][1] = board[h - 1][1]
    BY <2>1, <2>2 DEF Good, Whole
  <2>4. \A h \in 1..(2 * n) : board[h] = <<board[h][1], board[h][2]>>
    BY <2>1, <2>2 DEF Piece
  <2>5. /\ lines = [i \in 1..n |-> board[2 * i][1]] /\ DOMAIN lines = 1..n
        /\ \A i \in 1..n : lines[i] = board[2 * i][1]
    OBVIOUS
  <2>6. lines \in Seq(Line) /\ Len(lines) = n
    <3>1. \A i \in 1..n : 2 * i \in 1..(2 * n)
      BY <2>2
    <3>2. \A i \in 1..n : board[2 * i][1] \in Line
      BY <2>1, <2>2, <3>1 DEF Piece
    <3> HIDE DEF n
    <3>3. lines \in [1..n -> Line]
      BY <2>5, <3>2
    <3> QED
      BY <2>2, <3>3
  <2> HIDE DEF lines, n
  <2>7. /\ Halves(lines) \in Seq(Line \X {0, 1}) /\ Len(Halves(lines)) = 2 * n
        /\ \A h \in 1..(2 * n) :
             Halves(lines)[h] = <<lines[(h + 1) \div 2], h % 2>> /\ (h + 1) \div 2 \in 1..n
    BY <2>6, HalvesType
  <2>8. ASSUME NEW h \in 1..(2 * n) PROVE board[h] = Halves(lines)[h]
    <3> DEFINE i == (h + 1) \div 2
    <3>1. i \in 1..n /\ lines[i] = board[2 * i][1]
      BY <2>5, <2>7
    <3>2. board[2 * i][1] = board[h][1]
      <4>1. CASE h % 2 = 0
        <5>1. 2 * i = h
          BY <2>2, <4>1
        <5> QED
          BY <5>1
      <4>2. CASE h % 2 # 0
        <5>1. 2 * i = h + 1 /\ 2 * i \in 1..(2 * n) /\ (2 * i) % 2 = 0 /\ 2 * i - 1 = h
          BY <2>2, <4>2
        <5> HIDE DEF i
        <5> QED
          BY <2>3, <5>1
      <4> QED
        BY <4>1, <4>2
    <3>3. board[h] = <<board[h][1], h % 2>>
      BY <2>3, <2>4
    <3>4. Halves(lines)[h] = <<lines[i], h % 2>>
      BY <2>7
    <3> QED
      BY <3>1, <3>2, <3>3, <3>4
  <2>9. board = Halves(lines)
    <3>1. board \in Seq(Line \X {0, 1})
      BY <2>1 DEF Piece
    <3> QED
      BY <2>2, <2>7, <2>8, <3>1, SeqEqual
  <2>10. ASSUME NEW i \in DOMAIN lines PROVE (lines[i] = Header) = (i = 1)
    <3>1. i \in 1..n /\ 2 * i \in 1..(2 * n) /\ ((2 * i <= 2) = (i = 1))
      BY <2>2, <2>5
    <3> QED
      BY <2>3, <2>5, <3>1
  <2>11. lines # <<>>
    BY <2>2, <2>6
  <2> QED
    BY <2>9, <2>10, <2>11
<1> QED
  BY <1>1, BoardInvariant, PTL

\* What a search that has returned appended is on the leaderboard: no half of
\* its rows is lost, changed or written twice, and they are in its order,
\* however the appends of two searches interleave and wherever one of them is
\* killed (halves of the other's rows may stand between them).
THEOREM SearchesStayOnBoard == ResearchSpec => []SearchIsOnBoard
<1>1. BoardInv => SearchIsOnBoard
  <2> SUFFICES ASSUME BoardInv, NEW p \in Searches, writer[p].pc = "done"
               PROVE  LET own == {i \in DOMAIN board : board[i][1] \in ToSet(Rows(p))}
                      IN  /\ Cardinality(own) = Len(Halves(Rows(p)))
                          /\ \A i \in own :
                               board[i] = Halves(Rows(p))[Cardinality(own \cap 1..i)]
    BY DEF SearchIsOnBoard
  <2> DEFINE own == {i \in DOMAIN board : board[i][1] \in ToSet(Rows(p))}
             halves == Halves(Rows(p))
  <2>1. /\ Owed(p) \in Nat /\ Len(halves) = Owed(p)
        /\ \A h \in 1..Owed(p) : halves[h] = <<Rows(p)[(h + 1) \div 2], h % 2>>
    BY TextType DEF BoardInv
  <2>2. /\ Cardinality(Own(p)) = Owed(p)
        /\ \A i \in Own(p) : board[i] = halves[Cardinality(Own(p) \cap 1..i)]
    <3>1. Unwritten(p) = 0
      <4>1. writer[p].buffer = <<>>
        BY DEF BoardInv, IsRest
      <4> QED
        BY <4>1 DEF Unwritten
    <3>2. Left(p) = 0
      BY <2>1, <3>1 DEF Left
    <3>3. /\ Cardinality(Own(p)) = Owed(p) - Left(p)
          /\ \A i \in Own(p) : board[i] = halves[Cardinality(Own(p) \cap 1..i)]
      BY DEF BoardInv, IsWritten
    <3> QED
      BY <2>1, <3>2, <3>3
  <2>3. Rows(p) \in Seq({p} \X Row) /\ DOMAIN Rows(p) = 1..Len(Rows(p))
    BY RowsType DEF BoardInv, BoardTypes
  <2>4. ToSet(Rows(p)) \subseteq {p} \X Row
    BY <2>3 DEF ToSet
  <2>5. ASSUME NEW i \in Own(p) PROVE board[i][1] \in ToSet(Rows(p))
    <3> DEFINE k == Cardinality(Own(p) \cap 1..i)
    <3>1. IsFiniteSet(Own(p)) /\ i \in 1..i
      <4>1. Own(p) \in SUBSET (1..Len(board)) /\ Len(board) \in Nat
        BY WriterTypes DEF BoardInv, Own
      <4>2. IsFiniteSet(1..Len(board))
        BY <4>1, FS_Interval
      <4> QED
        BY <4>1, <4>2, FS_Subset
    <3>2. IsFiniteSet(Own(p) \cap 1..i) /\ k <= Owed(p)
      BY <2>2, <3>1, FS_Subset
    <3>3. k \in Nat /\ k # 0
      <4>1. k \in Nat
        BY <3>2, FS_CardinalityType
      <4>2. i \in Own(p) \cap 1..i
        BY <3>1
      <4> QED
        BY <3>2, <4>1, <4>2, FS_EmptySet
    <3>4. k \in 1..Owed(p)
      BY <2>1, <3>2, <3>3
    <3>a. board[i] = halves[k]
      BY <2>2
    <3> HIDE DEF k, halves
    <3>5. (k + 1) \div 2 \in DOMAIN Rows(p)
      <4>1. Len(Rows(p)) \in Nat /\ k \in 1..(2 * Len(Rows(p)))
        BY <2>3, <3>4 DEF Owed
      <4> QED
        BY <2>3, <4>1
    <3>6. board[i][1] = Rows(p)[(k + 1) \div 2]
      BY <2>1, <3>4, <3>a
    <3> QED
      BY <3>5, <3>6 DEF ToSet
  <2>6. own = Own(p)
    BY <2>4, <2>5 DEF Own
  <2> HIDE DEF own, halves
  <2>7. Cardinality(own) = Len(halves)
        /\ \A i \in own : board[i] = halves[Cardinality(own \cap 1..i)]
    BY <2>1, <2>2, <2>6
  <2> QED
    BY <2>7 DEF own, halves
<1> QED
  BY <1>1, BoardInvariant, PTL
=============================================================================
