--------------------------- MODULE PipelineProofs ---------------------------
(***************************************************************************)
(* Proofs about the way from an exchange to a training set, for any        *)
(* markets, symbols, horizons, page and window sizes and any interleaving  *)
(* of the programs and their kills.                                        *)
(***************************************************************************)
EXTENDS Pipeline, FiniteSetTheorems, SequenceTheorems, WellFoundedInduction, TLAPS

-----------------------------------------------------------------------------
(* Numbers, finite sets and sequences.                                     *)

\* Every non-empty set of natural numbers has a least element.
LEMMA LeastNatural ==
  ASSUME NEW T \in SUBSET Nat, T # {}
  PROVE  \E n \in T : \A m \in T : n <= m
<1>1. PICK n \in T : \A m \in T : <<m, n>> \notin OpToRel(<, Nat)
  BY NatLessThanWellFounded, WFMin
<1>2. \A m \in T : ~(m < n)
  BY <1>1 DEF OpToRel
<1> QED
  BY <1>2

\* Every non-empty set of finite sets has a member with no other below it.
LEMMA LeastSet ==
  ASSUME NEW S, IsFiniteSet(S), NEW T \in SUBSET SUBSET S, T # {}
  PROVE  \E s \in T : \A r \in T : r \subseteq s => r = s
<1>1. SUBSET S = FiniteSubsetsOf(S)
  BY FS_FiniteSubsetsOfFinite
<1>2. PICK s \in T : \A r \in T : <<r, s>> \notin StrictSubsetOrdering(S)
  BY <1>1, FS_StrictSubsetOrderingWellFounded, WFMin
<1> QED
  BY <1>2 DEF StrictSubsetOrdering

\* A finite non-empty set of integers has a smallest element, which is Min.
LEMMA MinExists ==
  ASSUME NEW S \in SUBSET Int, IsFiniteSet(S), S # {}
  PROVE  Min(S) \in S /\ \A x \in S : Min(S) <= x
<1> DEFINE below(x) == {y \in S : y < x}
           sizes == {Cardinality(below(x)) : x \in S}
<1>1. \A x \in S : IsFiniteSet(below(x)) /\ Cardinality(below(x)) \in Nat
  BY FS_Subset, FS_CardinalityType
<1>2. sizes \in SUBSET Nat /\ sizes # {}
  BY <1>1
<1>3. PICK n \in sizes : \A m \in sizes : n <= m
  <2> HIDE DEF sizes
  <2> QED  BY <1>2, LeastNatural
<1>4. PICK x \in S : \A z \in S : Cardinality(below(x)) <= Cardinality(below(z))
  BY <1>3
<1>5. \A z \in S : ~(z < x)
  <2> SUFFICES ASSUME NEW z \in S, z < x PROVE FALSE
    OBVIOUS
  <2>0. x \in Int /\ z \in Int /\ \A y \in S : y \in Int
    OBVIOUS
  <2>1. below(z) \subseteq below(x) /\ z \in below(x) /\ z \notin below(z)
    <3>1. \A y \in S : y < z => y < x
      BY <2>0
    <3>2. z < x /\ ~(z < z)
      BY <2>0
    <3> QED
      BY <3>1, <3>2
  <2>2. Cardinality(below(z)) <= Cardinality(below(x)) /\ below(z) # below(x)
    BY <1>1, <2>1, FS_Subset
  <2>3. Cardinality(below(z)) # Cardinality(below(x))
    BY <1>1, <2>1, <2>2, FS_Subset
  <2> QED
    BY <1>1, <1>4, <2>2, <2>3
<1>6. \A z \in S : x <= z
  BY <1>5
<1> QED
  BY <1>6 DEF Min

\* The same for the largest element.
LEMMA MaxExists ==
  ASSUME NEW S \in SUBSET Int, IsFiniteSet(S), S # {}
  PROVE  Max(S) \in S /\ \A x \in S : x <= Max(S)
<1> DEFINE N == {-x : x \in S}
           minus == [x \in S |-> -x]
<1>1. IsFiniteSet(N)
  <2>1. N = {minus[x] : x \in S}
    OBVIOUS
  <2>2. minus \in Surjection(S, N)
    BY DEF Surjection
  <2> QED
    BY <2>2, FS_Surjection
<1>2. N \in SUBSET Int /\ N # {}
  OBVIOUS
<1>3. PICK n \in N : \A y \in N : n <= y
  <2> HIDE DEF N
  <2> QED  BY <1>1, <1>2, MinExists
<1>4. PICK x \in S : n = -x
  OBVIOUS
<1>5. \A z \in S : -z \in N
  OBVIOUS
<1>6. \A z \in S : z <= x
  BY <1>3, <1>4, <1>5
<1> QED
  BY <1>6 DEF Max

\* The sum of the numerators over a set, however the fold picks from it.
Total(f, S) == MapThenSumSet(LAMBDA x : f[x][1], S)
Pick(S) == CHOOSE x \in S : TRUE
Folded(f, h, s) == IF s = {} THEN 0 ELSE f[Pick(s)][1] + h[s \ {Pick(s)}]
Unfolded(f, s) == IF s = {} THEN 0 ELSE f[Pick(s)][1] + Total(f, s \ {Pick(s)})

LEMMA TotalUnfolds ==
  ASSUME NEW f, NEW S, IsFiniteSet(S)
  PROVE  Total(f, S) = Unfolded(f, S)
<1> DEFINE T == {s \in SUBSET S : Total(f, s) # Unfolded(f, s)}
<1> SUFFICES ASSUME T # {} PROVE FALSE
  OBVIOUS
<1>1. PICK s \in T : \A r \in T : r \subseteq s => r = s
  <2>1. T \in SUBSET SUBSET S
    OBVIOUS
  <2> HIDE DEF T
  <2> QED
    BY <2>1, LeastSet
<1>2. s \in SUBSET S /\ Total(f, s) # Unfolded(f, s)
  OBVIOUS
<1>3. \A r \in SUBSET s : r # s => Total(f, r) = Unfolded(f, r)
  <2> SUFFICES ASSUME NEW r \in SUBSET s, r # s, Total(f, r) # Unfolded(f, r) PROVE FALSE
    OBVIOUS
  <2>1. r \in T
    BY <1>2
  <2> QED
    BY <1>1, <2>1
<1> HIDE DEF T
<1>4. \A r \in SUBSET s : r # {} => Pick(r) \in r /\ r \ {Pick(r)} \in SUBSET s /\ r \ {Pick(r)} # s
  BY DEF Pick
<1> DEFINE g == [r \in SUBSET s |-> IF r = s THEN Unfolded(f, s) ELSE Total(f, r)]
<1>5. ASSUME NEW r \in SUBSET s PROVE g[r] = Folded(f, g, r)
  <2>1. g[r] = Unfolded(f, r)
    BY <1>3
  <2>2. r # {} => g[r \ {Pick(r)}] = Total(f, r \ {Pick(r)})
    BY <1>4
  <2> HIDE DEF g
  <2> QED
    BY <2>1, <2>2 DEF Folded, Unfolded
<1>6. g = [r \in SUBSET s |-> Folded(f, g, r)]
  <2>1. g = [r \in SUBSET s |-> g[r]]
    OBVIOUS
  <2> HIDE DEF g
  <2> QED
    BY <1>5, <2>1
<1>7. g[s] = Unfolded(f, s)
  OBVIOUS
<1> HIDE DEF g
<1>8. ASSUME NEW h, h = [r \in SUBSET s |-> Folded(f, h, r)]
      PROVE  h[s] = g[s]
  <2> DEFINE D == {r \in SUBSET s : h[r] # g[r]}
  <2> SUFFICES ASSUME D # {} PROVE FALSE
    OBVIOUS
  <2>1. PICK r \in D : \A q \in D : q \subseteq r => q = r
    <3>1. D \in SUBSET SUBSET s /\ IsFiniteSet(s)
      BY <1>2, FS_Subset
    <3> HIDE DEF D
    <3> QED
      BY <3>1, LeastSet
  <2>2. r \in SUBSET s /\ h[r] # g[r]
    OBVIOUS
  <2>3. h[r] = Folded(f, h, r) /\ g[r] = Folded(f, g, r)
    BY <1>5, <1>8, <2>2
  <2>4. r # {} => h[r \ {Pick(r)}] = g[r \ {Pick(r)}]
    <3>1. r # {} => r \ {Pick(r)} \in SUBSET s /\ r \ {Pick(r)} # r /\ r \ {Pick(r)} \subseteq r
      BY <1>4, <2>2
    <3> QED
      BY <2>1, <3>1
  <2> QED
    BY <2>2, <2>3, <2>4 DEF Folded
<1>9. Total(f, s) = (CHOOSE h : h = [r \in SUBSET s |-> Folded(f, h, r)])[s]
  BY DEF Total, MapThenSumSet, MapThenFoldSet, Folded, Pick
<1>10. (CHOOSE h : h = [r \in SUBSET s |-> Folded(f, h, r)])[s] = g[s]
  BY <1>6, <1>8
<1> QED
  BY <1>2, <1>7, <1>9, <1>10

\* Only the values on the set matter.
LEMMA TotalOfSame ==
  ASSUME NEW S, IsFiniteSet(S), NEW f, NEW g, \A x \in S : f[x][1] = g[x][1]
  PROVE  Total(f, S) = Total(g, S)
<1> DEFINE T == {s \in SUBSET S : Total(f, s) # Total(g, s)}
<1> SUFFICES ASSUME T # {} PROVE FALSE
  OBVIOUS
<1>1. PICK s \in T : \A r \in T : r \subseteq s => r = s
  <2>1. T \in SUBSET SUBSET S
    OBVIOUS
  <2> HIDE DEF T
  <2> QED
    BY <2>1, LeastSet
<1>2. s \in SUBSET S /\ Total(f, s) # Total(g, s)
  OBVIOUS
<1>3. Total(f, s) = Unfolded(f, s) /\ Total(g, s) = Unfolded(g, s)
  BY <1>2, FS_Subset, TotalUnfolds
<1>4. s # {} => Pick(s) \in s /\ s \ {Pick(s)} \in SUBSET S /\ s \ {Pick(s)} # s
  BY <1>2 DEF Pick
<1>5. s # {} => Total(f, s \ {Pick(s)}) = Total(g, s \ {Pick(s)})
  BY <1>1, <1>4
<1> QED
  BY <1>2, <1>3, <1>4, <1>5 DEF Unfolded

IsTotal(f, s) ==
  /\ Total(f, s) \in Int
  /\ \A x \in s : Total(f, s \ {x}) \in Int /\ Total(f, s) = f[x][1] + Total(f, s \ {x})

\* A sum of integers is one, and any element of the set adds its value.
LEMMA TotalStep ==
  ASSUME NEW S, IsFiniteSet(S), NEW f, \A x \in S : f[x][1] \in Int
  PROVE  IsTotal(f, S) /\ Total(f, {}) = 0
<1> DEFINE T == {s \in SUBSET S : ~IsTotal(f, s)}
<1>0. Total(f, {}) = 0
  BY FS_EmptySet, TotalUnfolds DEF Unfolded
<1> SUFFICES ASSUME T # {} PROVE FALSE
  BY <1>0
<1>1. PICK s \in T : \A r \in T : r \subseteq s => r = s
  <2>1. T \in SUBSET SUBSET S
    OBVIOUS
  <2> HIDE DEF T
  <2> QED
    BY <2>1, LeastSet
<1>2. s \in SUBSET S /\ ~IsTotal(f, s)
  OBVIOUS
<1>3. \A r \in SUBSET s : r # s => IsTotal(f, r)
  <2> SUFFICES ASSUME NEW r \in SUBSET s, r # s, ~IsTotal(f, r) PROVE FALSE
    OBVIOUS
  <2>1. r \in T
    BY <1>2
  <2> QED
    BY <1>1, <2>1
<1> HIDE DEF T
<1>4. s # {}
  BY <1>0, <1>2 DEF IsTotal
<1> DEFINE y == Pick(s)
<1>5. y \in s
  BY <1>4 DEF Pick
<1>6. Total(f, s) = f[y][1] + Total(f, s \ {y})
  BY <1>2, <1>4, FS_Subset, TotalUnfolds DEF Unfolded
<1> HIDE DEF y
<1>7. \A x \in s : IsTotal(f, s \ {x}) /\ f[x][1] \in Int
  <2>1. \A x \in s : s \ {x} \in SUBSET s /\ s \ {x} # s
    OBVIOUS
  <2> QED
    BY <1>2, <1>3, <2>1
<1>8. \A x \in s : Total(f, s \ {x}) \in Int
  BY <1>7 DEF IsTotal
<1>9. ASSUME NEW x \in s, x # y PROVE Total(f, s) = f[x][1] + Total(f, s \ {x})
  <2>1. x \in s \ {y} /\ y \in s \ {x} /\ (s \ {x}) \ {y} = (s \ {y}) \ {x}
    BY <1>5, <1>9
  <2> DEFINE rest == (s \ {y}) \ {x}
  <2>2. Total(f, s \ {y}) = f[x][1] + Total(f, rest) /\ Total(f, rest) \in Int
    BY <1>5, <1>7, <2>1 DEF IsTotal
  <2>3. Total(f, s \ {x}) = f[y][1] + Total(f, rest)
    BY <1>7, <2>1 DEF IsTotal
  <2>4. f[x][1] \in Int /\ f[y][1] \in Int
    BY <1>5, <1>7
  <2> HIDE DEF rest
  <2> QED
    BY <1>6, <2>2, <2>3, <2>4
<1>10. Total(f, s) \in Int
  <2>1. f[y][1] \in Int /\ Total(f, s \ {y}) \in Int
    BY <1>5, <1>7, <1>8
  <2> QED
    BY <1>6, <2>1
<1>11. ASSUME NEW x \in s PROVE Total(f, s) = f[x][1] + Total(f, s \ {x})
  <2>1. CASE x = y
    BY <1>6, <2>1
  <2>2. CASE x # y
    BY <1>9, <2>2
  <2> QED
    BY <2>1, <2>2
<1> QED
  BY <1>2, <1>8, <1>10, <1>11 DEF IsTotal

\* Ascending lists a finite set of integers, each once and the smaller first.
LEMMA AscendingLists ==
  ASSUME NEW S \in SUBSET Int, IsFiniteSet(S)
  PROVE  /\ Cardinality(S) \in Nat
         /\ Ascending(S) \in Seq(S) /\ Len(Ascending(S)) = Cardinality(S)
         /\ \A i, j \in 1..Cardinality(S) : i < j => Ascending(S)[i] < Ascending(S)[j]
         /\ \A x \in S : \E i \in 1..Cardinality(S) : Ascending(S)[i] = x
<1> DEFINE n == Cardinality(S)
           below(x) == {y \in S : y < x}
           rank(x) == Cardinality(below(x)) + 1
<1>0. n \in Nat /\ \A x \in S : x \in Int
  BY FS_CardinalityType
<1>1. \A x \in S : /\ IsFiniteSet(below(x)) /\ Cardinality(below(x)) \in Nat
                   /\ Cardinality(below(x)) < n
  <2> TAKE x \in S
  <2>1. below(x) \in SUBSET S /\ below(x) # S
    BY <1>0
  <2>2. /\ IsFiniteSet(below(x)) /\ Cardinality(below(x)) <= n
        /\ (n = Cardinality(below(x)) => S = below(x))
    BY <2>1, FS_Subset
  <2>3. Cardinality(below(x)) \in Nat
    BY <2>2, FS_CardinalityType
  <2> HIDE DEF below, n
  <2> QED
    BY <1>0, <2>1, <2>2, <2>3
<1>2. ASSUME NEW x \in S, NEW y \in S, x < y PROVE rank(x) < rank(y)
  <2>1. below(x) \in SUBSET below(y) /\ below(x) # below(y)
    <3>1. \A z \in S : z < x => z < y
      BY <1>0, <1>2
    <3>2. x < y /\ ~(x < x)
      BY <1>0, <1>2
    <3> QED
      BY <3>1, <3>2
  <2>2. Cardinality(below(x)) <= Cardinality(below(y))
        /\ Cardinality(below(x)) # Cardinality(below(y))
    BY <1>1, <2>1, FS_Subset
  <2> HIDE DEF below
  <2> QED
    BY <1>1, <2>2
<1>3. \A x \in S : rank(x) \in 1..n
  <2> HIDE DEF below, n
  <2> QED
    BY <1>0, <1>1
<1> HIDE DEF rank
<1>4. \A x, y \in S : rank(x) = rank(y) => x = y
  <2> SUFFICES ASSUME NEW x \in S, NEW y \in S, rank(x) = rank(y), x # y PROVE FALSE
    OBVIOUS
  <2>1. rank(x) < rank(y) \/ rank(y) < rank(x)
    BY <1>0, <1>2
  <2>2. rank(x) \in Int
    BY <1>0, <1>3
  <2> QED
    BY <2>1, <2>2
<1>5. \A k \in 1..n : \E x \in S : rank(x) = k
  <2> DEFINE r == [x \in S |-> rank(x)]
  <2>1. IsFiniteSet(1..n) /\ Cardinality(1..n) = n
    BY <1>0, FS_Interval
  <2>2. r \in Injection(S, 1..n)
    <3>1. r \in [S -> 1..n] /\ \A x, y \in S : r[x] = r[y] => x = y
      BY <1>3, <1>4
    <3> QED
      BY <3>1 DEF Injection, IsInjective
  <2>3. r \in Surjection(S, 1..n)
    BY <2>1, <2>2, FS_Injection
  <2> QED
    BY <2>3 DEF Surjection
<1>6. \A i \in 1..n : Ascending(S)[i] \in S /\ rank(Ascending(S)[i]) = i
  <2> TAKE i \in 1..n
  <2>1. PICK x \in S : rank(x) = i
    BY <1>5
  <2>2. Cardinality(below(x)) = i - 1
    BY <1>0, <1>1, <2>1 DEF rank
  <2>3. Ascending(S)[i] \in S /\ Cardinality(below(Ascending(S)[i])) = i - 1
    BY <2>2 DEF Ascending
  <2> QED
    BY <1>0, <2>3 DEF rank
<1>7. Ascending(S) \in Seq(S) /\ Len(Ascending(S)) = n
  <2> DEFINE th(i) == CHOOSE h \in S : Cardinality({x \in S : x < h}) = i - 1
  <2>1. Ascending(S) = [i \in 1..n |-> th(i)]
    BY DEF Ascending
  <2> HIDE DEF n, th
  <2>2. \A i \in 1..n : th(i) \in S
    BY <1>6, <2>1
  <2> QED
    BY <1>0, <2>1, <2>2
<1>8. ASSUME NEW i \in 1..n, NEW j \in 1..n, i < j PROVE Ascending(S)[i] < Ascending(S)[j]
  <2> DEFINE x == Ascending(S)[i]
             y == Ascending(S)[j]
  <2>1. x \in S /\ y \in S /\ rank(x) = i /\ rank(y) = j
    BY <1>6
  <2> HIDE DEF x, y
  <2>2. x # y /\ ~(y < x)
    BY <1>2, <1>8, <2>1
  <2>3. x \in Int /\ y \in Int
    BY <1>0, <2>1
  <2>4. x < y
    BY <2>2, <2>3
  <2> QED
    BY <2>4 DEF x, y
<1>9. \A x \in S : \E i \in 1..n : Ascending(S)[i] = x
  BY <1>3, <1>4, <1>6
<1> QED
  BY <1>0, <1>7, <1>8, <1>9

\* What is taken from some places of a sequence is at those places, once each.
LEMMA AtIs ==
  ASSUME NEW X, NEW seq \in Seq(X), NEW places \in SUBSET DOMAIN seq
  PROVE  /\ At(seq, places) \in Seq(X) /\ Len(At(seq, places)) = Cardinality(places)
         /\ \A k \in DOMAIN At(seq, places) : \E i \in places : At(seq, places)[k] = seq[i]
         /\ \A i \in places : \E k \in DOMAIN At(seq, places) : At(seq, places)[k] = seq[i]
         /\ IsInjective(seq) => IsInjective(At(seq, places))
<1> DEFINE n == Cardinality(places)
           up == Ascending(places)
<1>1. places \in SUBSET Int /\ IsFiniteSet(places) /\ DOMAIN seq = 1..Len(seq)
  <2>1. DOMAIN seq = 1..Len(seq) /\ Len(seq) \in Nat /\ 1 \in Int
    OBVIOUS
  <2>2. IsFiniteSet(1..Len(seq)) /\ 1..Len(seq) \in SUBSET Int
    BY <2>1, FS_Interval
  <2>3. IsFiniteSet(places)
    BY <2>1, <2>2, FS_Subset
  <2> QED
    BY <2>1, <2>2, <2>3
<1>2. /\ n \in Nat /\ \A k \in 1..n : up[k] \in places
      /\ \A i, j \in 1..n : i < j => up[i] < up[j]
      /\ \A i \in places : \E k \in 1..n : up[k] = i
  <2>1. /\ n \in Nat /\ up \in Seq(places) /\ Len(up) = n
        /\ \A i, j \in 1..n : i < j => up[i] < up[j]
        /\ \A i \in places : \E k \in 1..n : up[k] = i
    BY <1>1, AscendingLists
  <2> HIDE DEF n, up
  <2> QED
    BY <2>1
<1>3. At(seq, places) = [k \in 1..n |-> seq[up[k]]]
  BY DEF At
<1> HIDE DEF n, up
<1>4. \A k \in 1..n : seq[up[k]] \in X /\ up[k] \in Int
  BY <1>1, <1>2
<1>5. At(seq, places) \in Seq(X) /\ Len(At(seq, places)) = n /\ DOMAIN At(seq, places) = 1..n
  BY <1>2, <1>3, <1>4
<1>6. ASSUME IsInjective(seq) PROVE IsInjective(At(seq, places))
  <2> SUFFICES ASSUME NEW i \in 1..n, NEW j \in 1..n, i # j PROVE seq[up[i]] # seq[up[j]]
    BY <1>3, <1>5 DEF IsInjective
  <2>1. up[i] # up[j]
    <3>1. up[i] < up[j] \/ up[j] < up[i]
      BY <1>2
    <3> QED
      BY <1>4, <3>1
  <2> QED
    BY <1>2, <1>6, <2>1 DEF IsInjective
<1>7. /\ \A k \in 1..n : \E i \in places : At(seq, places)[k] = seq[i]
      /\ \A i \in places : \E k \in 1..n : At(seq, places)[k] = seq[i]
  BY <1>2, <1>3
<1> QED
  BY <1>5, <1>6, <1>7 DEF n

-----------------------------------------------------------------------------
(* What the programs hold.                                                 *)

Bar == [high : Nat, low : Nat, close : Nat \ {0}]

\* A series that can be held at hour t.
IsSeries(f, t) == DOMAIN f \subseteq 0..t /\ f \in [DOMAIN f -> Bar]

\* What assert_no_leakage is to make sure of, with the context as it was.
ForecastRow(s) ==
  {r \in [symbol : {s}, timestamp : Hours, context_end : Hours, target : Nat,
          context : SUBSET Hours] :
     /\ r.context_end = r.timestamp /\ r.timestamp < r.target
     /\ r.timestamp \in r.context /\ \A h \in r.context : h <= r.timestamp}
Forecasts(s) == [ToSet(Horizons) -> Seq(ForecastRow(s))]

Places == {"idle", "fetch", "join", "export", "write"} \cup Ended
Plans == {"none", "binance", "dump", "export"}

\* The record of a program at hour t.
IsProgram(r, t) ==
  /\ r \in [pc : Places, plan : Plans, forecasts : BOOLEAN, todo : {r.todo},
            cursor : Nat \cup {None}, until : 0..t,
            got : {[src \in Sources |-> [s \in Sym |-> r.got[src][s]]]},
            joined : {[s \in Sym |-> r.joined[s]]}, chunks : {r.chunks}]
  /\ \A src \in Sources, s \in Sym : IsSeries(r.got[src][s], t)
  /\ \A s \in Sym : r.joined[s] \in {None} \cup Forecasts(s)
  /\ r.pc \in {"join", "export"} => r.todo \in Seq(Sym)

\* A fetch has nothing yet of what is still to be fetched...
IsFetch(r) ==
  /\ r.todo \in Seq(Sources \X Sym) /\ IsInjective(r.todo)
  /\ \A i \in DOMAIN r.todo :
       i > 1 \/ r.cursor = None => r.got[r.todo[i][1]][r.todo[i][2]] = <<>>

\* ... and, of what is being fetched in the market m, whatever was traded
\* before the cursor.
IsPaging(r, m) ==
  LET src == r.todo[1][1]
      s == r.todo[1][2]
      held == DOMAIN r.got[src][s]
  IN  /\ r.todo # <<>> /\ src # "dump" /\ held \subseteq 0..r.until
      /\ src = "binance" =>
           {h \in Hours : m[s][h] > 0 /\ Since <= h /\ h < r.cursor /\ h <= r.until}
             \subseteq held

IsSound(r, m, t) ==
  /\ IsProgram(r, t)
  /\ r.pc = "fetch" => IsFetch(r)
  /\ r.pc = "fetch" /\ r.cursor # None => IsPaging(r, m)

ProgramsAreSound ==
  /\ job = [j \in Jobs |-> job[j]]
  /\ \A j \in Jobs : IsSound(job[j], tape, clock)

FilesAreSound ==
  /\ cache = [s \in Sym |-> cache[s]]
  /\ \A s \in Sym : cache[s] \in [ToSet(Horizons) -> {None, Failed} \cup Seq(ForecastRow(s))]

MarketIsSound == tape \in Tapes /\ clock \in FirstHour..LastHour

TrainingIsSound ==
  /\ train \in [pc : {"features", "prices", "dataset", "model", "metadata"} \cup Ended,
                read : {train.read}, features : {train.features}, prices : {train.prices},
                samples : {train.samples}]
  /\ artifact \subseteq {"model", "metadata"}

\* The inductive invariant of the programs and of what they hold.
ProgramInv == MarketIsSound /\ ProgramsAreSound /\ FilesAreSound /\ TrainingIsSound

\* The series of no bars.
LEMMA EmptySeries == DOMAIN <<>> = {} /\ \A t : IsSeries(<<>>, t)
  BY DEF IsSeries

\* A program that holds nothing.
LEMMA IdleIsProgram ==
  ASSUME NEW t \in Nat
  PROVE  /\ IsProgram(Idle, t) /\ Idle.pc = "idle" /\ Idle.plan = "none"
         /\ Idle.cursor = None /\ Idle.until = 0
         /\ \A src \in Sources, s \in Sym : Idle.got[src][s] = <<>>
         /\ \A s \in Sym : Idle.joined[s] = None
<1>1. 0 \in 0..t
  OBVIOUS
<1>2. /\ \A src \in Sources, s \in Sym : Idle.got[src][s] = <<>>
      /\ \A s \in Sym : Idle.joined[s] = None
      /\ Idle.got = [src \in Sources |-> [s \in Sym |-> Idle.got[src][s]]]
      /\ Idle.joined = [s \in Sym |-> Idle.joined[s]]
  BY DEF Idle
<1>3. Idle \in [pc : {"idle"}, plan : {"none"}, forecasts : {FALSE}, todo : {Idle.todo},
                cursor : {None}, until : {0}, got : {Idle.got}, joined : {Idle.joined},
                chunks : {Idle.chunks}]
  BY DEF Idle
<1> QED
  BY <1>1, <1>2, <1>3, EmptySeries DEF IsProgram, Places, Plans

\* A program that ended, or was killed, is sound.
LEMMA EndIsSound ==
  ASSUME NEW t \in Nat, NEW m, NEW pc \in Ended
  PROVE  IsSound([Idle EXCEPT !.pc = pc], m, t)
<1> DEFINE r == [Idle EXCEPT !.pc = pc]
<1>1. IsProgram(Idle, t)
  BY IdleIsProgram
<1>2. /\ r.pc = pc /\ r.plan = Idle.plan /\ r.got = Idle.got /\ r.joined = Idle.joined
      /\ r \in [pc : {pc}, plan : Plans, forecasts : BOOLEAN, todo : {r.todo},
                cursor : Nat \cup {None}, until : 0..t, got : {Idle.got},
                joined : {Idle.joined}, chunks : {r.chunks}]
  BY <1>1 DEF IsProgram
<1> HIDE DEF r
<1>3. IsProgram(r, t) /\ pc # "fetch"
  BY <1>1, <1>2 DEF IsProgram, Ended, Places
<1> QED
  BY <1>2, <1>3 DEF IsSound, r

\* Nothing but the clock matters to a program, and it may go on.
LEMMA TimePasses ==
  ASSUME NEW r, NEW m, NEW t \in Nat, IsSound(r, m, t)
  PROVE  IsSound(r, m, t + 1)
<1>1. 0..t \subseteq 0..(t + 1)
  OBVIOUS
<1>2. \A f : IsSeries(f, t) => IsSeries(f, t + 1)
  BY <1>1 DEF IsSeries
<1>3. IsProgram(r, t + 1)
  BY <1>1, <1>2 DEF IsProgram, IsSound
<1> QED
  BY <1>3 DEF IsSound

\* It is enough to look at the program that makes the step.
LEMMA OneProgram ==
  ASSUME MarketIsSound, ProgramsAreSound, NEW j \in Jobs, NEW r, IsSound(r, tape, clock),
         job' = [job EXCEPT ![j] = r], UNCHANGED <<tape, clock>>
  PROVE  MarketIsSound' /\ ProgramsAreSound' /\ job'[j] = r
  BY DEF MarketIsSound, ProgramsAreSound

-----------------------------------------------------------------------------
(* Fetching.                                                               *)

\* The fetches of one source, a symbol at a time.
Fetches(src, syms) == [i \in DOMAIN syms |-> <<src, syms[i]>>]

LEMMA FetchesAre ==
  ASSUME NEW src \in Sources, NEW syms \in Seq(Sym), IsInjective(syms)
  PROVE  /\ Fetches(src, syms) \in Seq(Sources \X Sym) /\ IsInjective(Fetches(src, syms))
         /\ Len(Fetches(src, syms)) = Len(syms)
         /\ \A i \in 1..Len(syms) : Fetches(src, syms)[i][1] = src
<1>1. DOMAIN syms = 1..Len(syms) /\ Len(syms) \in Nat /\ \A i \in 1..Len(syms) : syms[i] \in Sym
  OBVIOUS
<1>2. \A i \in 1..Len(syms) : Fetches(src, syms)[i] = <<src, syms[i]>>
  BY <1>1 DEF Fetches
<1>3. Fetches(src, syms) \in Seq(Sources \X Sym) /\ Len(Fetches(src, syms)) = Len(syms)
      /\ DOMAIN Fetches(src, syms) = 1..Len(syms)
  BY <1>1 DEF Fetches
<1>4. IsInjective(Fetches(src, syms))
  BY <1>1, <1>2, <1>3 DEF IsInjective
<1> QED
  BY <1>2, <1>3, <1>4

\* No two fetches of a plan are of the same source and symbol.
LEMMA PlanIsFetch ==
  ASSUME NEW plan \in {"none", "binance", "dump"}
  PROVE  FetchPlan(plan) \in Seq(Sources \X Sym) /\ IsInjective(FetchPlan(plan))
<1> DEFINE first == CASE plan = "binance" -> Fetches("binance", FetchBinance)
                      [] plan = "dump"    -> Fetches("dump", Symbols)
                      [] OTHER            -> <<>>
           last == Fetches("kraken", Symbols)
<1>1. Symbols \in Seq(Sym) /\ IsInjective(Symbols)
  BY BarsAssumption DEF Sym
<1>2. FetchBinance \in Seq(Sym) /\ IsInjective(FetchBinance)
  BY <1>1, AtIs DEF FetchBinance
<1>3. /\ last \in Seq(Sources \X Sym) /\ IsInjective(last)
      /\ \A i \in 1..Len(last) : last[i][1] = "kraken"
  BY <1>1, FetchesAre DEF Sources
<1>4. /\ first \in Seq(Sources \X Sym) /\ IsInjective(first)
      /\ \A i \in 1..Len(first) : first[i][1] # "kraken"
  <2>1. CASE plan = "none"
    BY <2>1 DEF IsInjective
  <2>2. CASE plan = "binance"
    BY <1>2, <2>2, FetchesAre DEF Sources
  <2>3. CASE plan = "dump"
    BY <1>1, <2>3, FetchesAre DEF Sources
  <2> QED
    BY <2>1, <2>2, <2>3
<1>5. FetchPlan(plan) = first \o last
  BY DEF FetchPlan, Fetches
<1> HIDE DEF first, last
<1>6. first \o last \in Seq(Sources \X Sym)
  BY <1>3, <1>4
<1>7. ASSUME NEW i \in DOMAIN (first \o last), NEW k \in DOMAIN (first \o last),
             (first \o last)[i] = (first \o last)[k]
      PROVE  i = k
  <2>1. /\ Len(first) \in Nat /\ Len(last) \in Nat /\ i \in Int /\ k \in Int
        /\ i \in 1..Len(first) \/ i - Len(first) \in 1..Len(last)
        /\ k \in 1..Len(first) \/ k - Len(first) \in 1..Len(last)
    BY <1>3, <1>4
  <2>2. /\ i \in 1..Len(first) => (first \o last)[i] = first[i]
        /\ k \in 1..Len(first) => (first \o last)[k] = first[k]
        /\ i - Len(first) \in 1..Len(last) => (first \o last)[i] = last[i - Len(first)]
        /\ k - Len(first) \in 1..Len(last) => (first \o last)[k] = last[k - Len(first)]
    BY <1>3, <1>4, <2>1
  <2>3. i \in 1..Len(first) <=> k \in 1..Len(first)
    BY <1>3, <1>4, <1>7, <2>1, <2>2
  <2>4. CASE i \in 1..Len(first)
    BY <1>4, <1>7, <2>2, <2>3, <2>4 DEF IsInjective
  <2>5. CASE i \notin 1..Len(first)
    <3>1. last[i - Len(first)] = last[k - Len(first)]
          /\ i - Len(first) \in DOMAIN last /\ k - Len(first) \in DOMAIN last
      BY <1>3, <1>7, <2>1, <2>2, <2>3, <2>5
    <3>2. i - Len(first) = k - Len(first)
      BY <1>3, <3>1 DEF IsInjective
    <3> QED
      BY <2>1, <3>2
  <2> QED
    BY <2>4, <2>5
<1> QED
  BY <1>5, <1>6, <1>7 DEF IsInjective

LEMMA StartStep ==
  ASSUME ProgramInv, NEW j \in Jobs, NEW plan \in Plans, NEW f \in BOOLEAN, Start(j, plan, f)
  PROVE  MarketIsSound' /\ ProgramsAreSound'
<1> DEFINE r == [Idle EXCEPT
                   !.pc = IF plan = "export" THEN "export" ELSE "fetch",
                   !.plan = plan, !.forecasts = f,
                   !.todo = IF plan = "export" THEN Symbols ELSE FetchPlan(plan)]
<1>0. clock \in Nat
  BY PipelineAssumption DEF ProgramInv, MarketIsSound
<1>1. /\ r.pc = (IF plan = "export" THEN "export" ELSE "fetch")
      /\ r.todo = (IF plan = "export" THEN Symbols ELSE FetchPlan(plan))
      /\ r.got = Idle.got /\ r.joined = Idle.joined /\ r.cursor = Idle.cursor
      /\ r \in [pc : {"fetch", "export"}, plan : Plans, forecasts : BOOLEAN, todo : {r.todo},
                cursor : Nat \cup {None}, until : 0..clock, got : {Idle.got},
                joined : {Idle.joined}, chunks : {r.chunks}]
  BY <1>0, IdleIsProgram DEF IsProgram
<1> HIDE DEF r
<1>2. IsProgram(Idle, clock) /\ Symbols \in Seq(Sym) /\ Idle.cursor = None
      /\ \A src \in Sources, s \in Sym : Idle.got[src][s] = <<>>
  BY <1>0, IdleIsProgram, BarsAssumption DEF Sym
<1>3. IsProgram(r, clock)
  BY <1>1, <1>2 DEF IsProgram, Places
<1>4. r.pc = "fetch" => IsFetch(r)
  <2>1. ASSUME plan # "export" PROVE IsFetch(r)
    <3>1. FetchPlan(plan) \in Seq(Sources \X Sym) /\ IsInjective(FetchPlan(plan))
      BY <2>1, PlanIsFetch DEF Plans
    <3>2. \A i \in DOMAIN r.todo : r.todo[i][1] \in Sources /\ r.todo[i][2] \in Sym
      BY <1>1, <2>1, <3>1
    <3> QED
      BY <1>1, <1>2, <2>1, <3>1, <3>2 DEF IsFetch
  <2> QED
    BY <1>1, <2>1
<1>5. IsSound(r, tape, clock)
  BY <1>1, <1>2, <1>3, <1>4 DEF IsSound
<1>6. job' = [job EXCEPT ![j] = r] /\ UNCHANGED <<tape, clock>>
  BY DEF Start, r
<1> QED
  BY <1>5, <1>6, OneProgram DEF ProgramInv

\* The market and the clock.
LEMMA MarketIs ==
  ASSUME MarketIsSound
  PROVE  /\ clock \in Nat /\ clock \in Hours /\ DumpEnd \in Nat /\ DumpEnd <= clock
         /\ \A s \in Sym, h \in Hours : tape[s][h] \in Nat
<1>1. tape \in [Sym -> [Hours -> Nat]]
  BY PipelineAssumption DEF MarketIsSound, Sym, Hours
<1>2. clock \in Nat /\ clock \in Hours /\ DumpEnd \in Nat /\ DumpEnd <= clock
  BY PipelineAssumption DEF MarketIsSound, Hours
<1> QED
  BY <1>1, <1>2

\* What a dump holds.
LEMMA DumpIsSeries ==
  ASSUME MarketIsSound, NEW s \in Sym
  PROVE  /\ IsSeries(Dump(s), clock) /\ \A h \in DOMAIN Dump(s) : h \in Traded(s) /\ h < DumpEnd
         /\ \A h \in DOMAIN Dump(s) : Dump(s)[h] =
              [high |-> tape[s][h] + (h % 2), low |-> tape[s][h], close |-> tape[s][h]]
<1>1. CASE s \notin Dumped
  BY <1>1, EmptySeries DEF Dump
<1>2. CASE s \in Dumped
  <2> DEFINE D == {x \in Traded(s) : x < DumpEnd}
             bar(h) == [high |-> tape[s][h] + (h % 2), low |-> tape[s][h], close |-> tape[s][h]]
  <2>1. Dump(s) = [h \in D |-> bar(h)]
    BY <1>2 DEF Dump
  <2>2. \A h \in D : h \in 0..clock /\ bar(h) \in Bar
    BY MarketIs DEF Traded, Hours, Bar
  <2> HIDE DEF bar
  <2>3. \A h \in D : h \in Traded(s) /\ h < DumpEnd
    OBVIOUS
  <2> HIDE DEF D
  <2>4. IsSeries(Dump(s), clock) /\ DOMAIN Dump(s) = D /\ \A h \in D : Dump(s)[h] = bar(h)
    BY <2>1, <2>2 DEF IsSeries
  <2> QED
    BY <2>3, <2>4 DEF bar
<1> QED
  BY <1>1, <1>2

\* The rest of a loop.
LEMMA TailIs ==
  ASSUME NEW X, NEW q \in Seq(X), q # <<>>
  PROVE  /\ Tail(q) \in Seq(X) /\ Head(q) \in X /\ Head(q) = q[1] /\ 1 \in DOMAIN q
         /\ \A i \in DOMAIN Tail(q) : i \in Nat /\ i + 1 \in DOMAIN q /\ i + 1 > 1
                                      /\ Tail(q)[i] = q[i + 1]
         /\ IsInjective(q) =>
              IsInjective(Tail(q)) /\ \A i \in DOMAIN Tail(q) : Tail(q)[i] # q[1]
<1>1. /\ Tail(q) \in Seq(X) /\ Head(q) \in X /\ Head(q) = q[1] /\ 1 \in DOMAIN q
      /\ \A i \in DOMAIN Tail(q) : i \in Nat /\ i + 1 \in DOMAIN q /\ i + 1 > 1
                                   /\ Tail(q)[i] = q[i + 1]
  OBVIOUS
<1>2. ASSUME IsInjective(q)
      PROVE  IsInjective(Tail(q)) /\ \A i \in DOMAIN Tail(q) : Tail(q)[i] # q[1]
  <2>1. \A i \in DOMAIN Tail(q) : Tail(q)[i] # q[1]
    BY <1>1, <1>2 DEF IsInjective
  <2>2. ASSUME NEW i \in DOMAIN Tail(q), NEW k \in DOMAIN Tail(q), Tail(q)[i] = Tail(q)[k]
        PROVE  i = k
    <3>1. i + 1 = k + 1 /\ i \in Nat /\ k \in Nat
      BY <1>1, <1>2, <2>2 DEF IsInjective
    <3> QED
      BY <3>1
  <2> QED
    BY <2>1, <2>2 DEF IsInjective
<1> QED
  BY <1>1, <1>2

\* The fetch of one source and symbol is over, and leaves a series.
LEMMA FetchedIsSound ==
  ASSUME NEW r, NEW m, NEW t \in Nat, IsSound(r, m, t), r.pc = "fetch", r.todo # <<>>,
         NEW f, IsSeries(f, t)
  PROVE  IsSound([r EXCEPT !.got[r.todo[1][1]][r.todo[1][2]] = f, !.cursor = None,
                           !.todo = Tail(@)], m, t)
<1> DEFINE src == r.todo[1][1]
           s == r.todo[1][2]
           n == [r EXCEPT !.got[src][s] = f, !.cursor = None, !.todo = Tail(@)]
           got == [r.got EXCEPT ![src][s] = f]
<1>0. IsProgram(r, t) /\ IsFetch(r)
  BY DEF IsSound
<1>1. /\ r.todo \in Seq(Sources \X Sym) /\ src \in Sources /\ s \in Sym
      /\ \A i \in DOMAIN r.todo : i > 1 => r.got[r.todo[i][1]][r.todo[i][2]] = <<>>
      /\ IsInjective(r.todo)
  BY <1>0, TailIs DEF IsFetch
<1>2. /\ Tail(r.todo) \in Seq(Sources \X Sym) /\ IsInjective(Tail(r.todo))
      /\ \A i \in DOMAIN Tail(r.todo) :
           /\ Tail(r.todo)[i] = r.todo[i + 1] /\ i + 1 \in DOMAIN r.todo /\ i + 1 > 1
           /\ Tail(r.todo)[i] # r.todo[1]
  BY <1>1, TailIs
<1>3. /\ n.pc = "fetch" /\ n.cursor = None /\ n.todo = Tail(r.todo) /\ n.got = got
      /\ n.joined = r.joined
      /\ n \in [pc : Places, plan : Plans, forecasts : BOOLEAN, todo : {n.todo},
                cursor : Nat \cup {None}, until : 0..t, got : {got},
                joined : {r.joined}, chunks : {n.chunks}]
  BY <1>0 DEF IsProgram
<1> HIDE DEF n
<1>4. /\ got = [x \in Sources |-> [y \in Sym |-> got[x][y]]]
      /\ \A x \in Sources, y \in Sym :
           got[x][y] = IF x = src /\ y = s THEN f ELSE r.got[x][y]
  <2>1. r.got = [x \in Sources |-> [y \in Sym |-> r.got[x][y]]]
    BY <1>0 DEF IsProgram
  <2> QED
    BY <1>1, <2>1
<1> HIDE DEF got
<1>5. IsProgram(n, t)
  <2>1. r.joined = [x \in Sym |-> r.joined[x]] /\ \A x \in Sym : r.joined[x] \in {None} \cup Forecasts(x)
    BY <1>0 DEF IsProgram
  <2>2. \A x \in Sources, y \in Sym : IsSeries(got[x][y], t)
    BY <1>0, <1>4 DEF IsProgram
  <2> QED
    BY <1>3, <1>4, <2>1, <2>2 DEF IsProgram
<1>6. IsFetch(n)
  <2> SUFFICES ASSUME NEW i \in DOMAIN Tail(r.todo)
               PROVE  got[Tail(r.todo)[i][1]][Tail(r.todo)[i][2]] = <<>>
    BY <1>2, <1>3 DEF IsFetch
  <2> DEFINE x == Tail(r.todo)[i]
  <2>1. x \in Sources \X Sym /\ r.todo[1] \in Sources \X Sym /\ x # r.todo[1]
    BY <1>1, <1>2, TailIs
  <2>2. ~(x[1] = src /\ x[2] = s)
    BY <2>1
  <2>3. r.got[x[1]][x[2]] = <<>>
    BY <1>1, <1>2
  <2> QED
    BY <1>4, <2>1, <2>2, <2>3
<1> QED
  BY <1>3, <1>5, <1>6 DEF IsSound, n

\* What is offered was traded and is not of the future.
LEMMA OfferedIs ==
  ASSUME MarketIsSound, NEW s \in Sym, NEW src
  PROVE  /\ IsFiniteSet(Offered(src, s)) /\ Offered(src, s) \in SUBSET Int
         /\ Offered(src, s) \subseteq Traded(s)
         /\ \A h \in Offered(src, s) : h \in Nat /\ h <= clock /\ h \in Hours
         /\ src # "kraken" => Offered(src, s) = {h \in Traded(s) : h <= clock}
<1>1. /\ Offered(src, s) \subseteq Traded(s)
      /\ \A h \in Offered(src, s) : h <= clock
      /\ src # "kraken" => Offered(src, s) = {h \in Traded(s) : h <= clock}
  BY DEF Offered
<1>2. IsFiniteSet(Hours) /\ Hours \subseteq Nat
  BY PipelineAssumption, FS_Interval DEF Hours
<1>3. Traded(s) \subseteq Hours
  BY DEF Traded
<1>4. IsFiniteSet(Offered(src, s))
  BY <1>1, <1>2, <1>3, FS_Subset
<1>5. \A h \in Offered(src, s) : h \in Nat /\ h \in Int /\ h \in Hours
  <2> TAKE h \in Offered(src, s)
  <2>1. h \in Hours
    BY <1>1, <1>3
  <2>2. h \in Nat
    BY <1>2, <2>1
  <2> QED
    BY <2>1, <2>2
<1>6. Offered(src, s) \in SUBSET Int
  BY <1>5
<1> QED
  BY <1>1, <1>4, <1>5, <1>6

\* A page has no gap; it is empty only if there is nothing left; and if it has
\* nothing but the hour it was asked for, that is all there is.
LEMMA PageIs ==
  ASSUME MarketIsSound, NEW s \in Sym, NEW src \in Sources \ {"kraken"}, NEW since \in Nat
  PROVE  LET batch == Batch(src, s, since) IN
         /\ \A h \in Offered(src, s), g \in batch : since <= h /\ h <= g => h \in batch
         /\ batch = {} => \A h \in Offered(src, s) : h < since
         /\ (\A g \in batch : g <= since) => \A h \in Offered(src, s) : h <= since
<1> DEFINE O == Offered(src, s)
           batch == Batch(src, s, since)
           before(h) == {x \in O : since <= x /\ x < h}
<1>1. /\ IsFiniteSet(O) /\ O \in SUBSET Int
      /\ \A h : h \in batch <=> h \in O /\ h >= since /\ Cardinality(before(h)) < PageLimit
  BY OfferedIs DEF Batch
<1>2. PageLimit \in Nat /\ PageLimit > 1
  BY PipelineAssumption
<1>3. \A h : IsFiniteSet(before(h)) /\ Cardinality(before(h)) \in Nat
  BY <1>1, FS_Subset, FS_CardinalityType
<1> HIDE DEF O, batch
<1>4. ASSUME NEW h \in O, NEW g \in batch, since <= h, h <= g PROVE h \in batch
  <2>0. g \in Int /\ \A x \in O : x \in Int
    BY <1>1
  <2>1. before(h) \subseteq before(g)
    BY <1>4, <2>0
  <2>2. Cardinality(before(h)) <= Cardinality(before(g))
    BY <1>3, <2>1, FS_Subset
  <2> HIDE DEF before
  <2>3. Cardinality(before(h)) < PageLimit
    BY <1>1, <1>2, <1>3, <1>4, <2>2
  <2> QED
    BY <1>1, <1>4, <2>3
<1>5. ASSUME NEW h \in O, h >= since PROVE \E g \in batch : g <= h
  <2> DEFINE T == {x \in O : x >= since}
             g == Min(T)
  <2>1. IsFiniteSet(T) /\ T \in SUBSET Int /\ h \in T
    BY <1>1, <1>5, FS_Subset
  <2>2. g \in T /\ \A x \in T : g <= x
    <3> HIDE DEF T
    <3> QED
      BY <2>1, MinExists
  <2>3. g \in O /\ g >= since /\ g \in Int /\ g <= h
    BY <1>1, <2>1, <2>2
  <2> HIDE DEF g
  <2>4. ASSUME NEW x \in before(g) PROVE FALSE
    <3>1. x \in T /\ x < g /\ x \in Int
      BY <1>1
    <3>2. g <= x
      BY <2>2, <3>1
    <3> QED
      BY <2>3, <3>1, <3>2
  <2>5. Cardinality(before(g)) < PageLimit
    <3>1. before(g) = {}
      BY <2>4
    <3>2. Cardinality(before(g)) = 0
      BY <3>1, FS_EmptySet
    <3> HIDE DEF before
    <3> QED
      BY <1>2, <3>2
  <2> QED
    BY <1>1, <2>3, <2>5
<1>6. ASSUME NEW h \in O, h > since PROVE \E g \in batch : g > since
  <2> DEFINE T == {x \in O : x > since}
             g == Min(T)
  <2>1. IsFiniteSet(T) /\ T \in SUBSET Int /\ h \in T
    BY <1>1, <1>6, FS_Subset
  <2>2. g \in T /\ \A x \in T : g <= x
    <3> HIDE DEF T
    <3> QED
      BY <2>1, MinExists
  <2>3. g \in O /\ g > since /\ g \in Int
    BY <1>1, <2>1, <2>2
  <2> HIDE DEF g
  <2>4. ASSUME NEW x \in before(g), x # since PROVE FALSE
    <3>1. x \in T /\ x < g /\ x \in Int
      BY <1>1, <2>4
    <3>2. g <= x
      BY <2>2, <3>1
    <3> QED
      BY <2>3, <3>1, <3>2
  <2>5. Cardinality(before(g)) <= 1
    <3>1. IsFiniteSet({since}) /\ Cardinality({since}) = 1
      BY FS_Singleton
    <3>2. before(g) \subseteq {since}
      BY <2>4
    <3> QED
      BY <3>1, <3>2, FS_Subset
  <2>6. Cardinality(before(g)) < PageLimit
    <3> HIDE DEF before
    <3> QED
      BY <1>2, <1>3, <2>5
  <2>7. g >= since
    BY <2>3
  <2> QED
    BY <1>1, <2>3, <2>6, <2>7
<1>7. \A h \in O : h \in Int
  BY <1>1
<1>8. batch = {} => \A h \in O : h < since
  BY <1>5, <1>7
<1>9. (\A g \in batch : g <= since) => \A h \in O : h <= since
  <2>1. \A g \in batch : g \in Int
    BY <1>1
  <2> QED
    BY <1>6, <1>7, <2>1
<1> QED
  BY <1>4, <1>8, <1>9 DEF O, batch

\* dict.update.
LEMMA UpdateIs ==
  ASSUME NEW f, NEW g
  PROVE  /\ DOMAIN Update(f, g) = DOMAIN f \cup DOMAIN g
         /\ \A x \in DOMAIN f \cup DOMAIN g :
              Update(f, g)[x] = IF x \in DOMAIN g THEN g[x] ELSE f[x]
         /\ Update(f, g) = [x \in DOMAIN Update(f, g) |-> Update(f, g)[x]]
  BY DEF Update

LEMMA UpdateIsSeries ==
  ASSUME NEW f, NEW g, NEW t, IsSeries(f, t), IsSeries(g, t)
  PROVE  IsSeries(Update(f, g), t)
<1> DEFINE u == Update(f, g)
<1>1. /\ DOMAIN u = DOMAIN f \cup DOMAIN g /\ u = [x \in DOMAIN u |-> u[x]]
      /\ \A x \in DOMAIN f \cup DOMAIN g : u[x] = IF x \in DOMAIN g THEN g[x] ELSE f[x]
  BY UpdateIs
<1> HIDE DEF u
<1>2. /\ \A x \in DOMAIN f : x \in 0..t /\ f[x] \in Bar
      /\ \A x \in DOMAIN g : x \in 0..t /\ g[x] \in Bar
  BY DEF IsSeries
<1>3. \A x \in DOMAIN u : x \in 0..t /\ u[x] \in Bar
  BY <1>1, <1>2
<1>4. IsSeries(u, t)
  BY <1>1, <1>3 DEF IsSeries
<1> QED
  BY <1>4 DEF u

\* The bars of one page.
LEMMA QuotesAre ==
  ASSUME MarketIsSound, NEW s \in Sym, NEW src \in {"binance", "kraken"},
         NEW D, D \subseteq Offered(src, s)
  PROVE  IsSeries([h \in D |-> Quote(src, s, h)], clock)
<1>1. \A h \in D : h \in 0..clock /\ Quote(src, s, h) \in Bar
  <2> TAKE h \in D
  <2>1. h \in Traded(s) /\ h \in Nat /\ h <= clock /\ h \in Hours
    BY OfferedIs
  <2>2. /\ tape[s][h] \in Nat /\ tape[s][h] > 0 /\ Forming \in Nat \ {0} /\ clock \in Nat
    BY <2>1, MarketIs, PipelineAssumption DEF Traded
  <2> DEFINE c == (IF h = clock THEN Forming ELSE tape[s][h]) + (IF src = "binance" THEN 1 ELSE 0)
  <2>3. c \in Nat \ {0} /\ h % 2 \in Nat
    BY <2>1, <2>2
  <2>4. Quote(src, s, h) = [high |-> c + (h % 2), low |-> c, close |-> c]
    BY DEF Quote
  <2> HIDE DEF c
  <2> QED
    BY <2>1, <2>2, <2>3, <2>4 DEF Bar
<1> QED
  BY <1>1 DEF IsSeries

LEMMA OpenFetchStep ==
  ASSUME ProgramInv, NEW j \in Jobs, OpenFetch(j)
  PROVE  MarketIsSound' /\ ProgramsAreSound'
<1> DEFINE r == job[j]
           src == r.todo[1][1]
           s == r.todo[1][2]
<1>0. MarketIsSound /\ ProgramsAreSound /\ clock \in Nat /\ UNCHANGED <<tape, clock>>
  BY MarketIs DEF ProgramInv, OpenFetch
<1>1. /\ IsSound(r, tape, clock) /\ r.pc = "fetch" /\ r.todo # <<>> /\ r.cursor = None
      /\ job' = IF Head(r.todo)[1] = "dump"
                THEN [job EXCEPT ![j].got["dump"][Head(r.todo)[2]] = Dump(Head(r.todo)[2]),
                                 ![j].todo = Tail(@)]
                ELSE [job EXCEPT ![j].cursor = Since, ![j].until = clock]
  BY <1>0 DEF OpenFetch, ProgramsAreSound
<1>2. /\ Head(r.todo) = r.todo[1] /\ 1 \in DOMAIN r.todo
      /\ src \in Sources /\ s \in Sym /\ IsFetch(r) /\ IsProgram(r, clock)
  <2>1. r.todo \in Seq(Sources \X Sym) /\ IsFetch(r) /\ IsProgram(r, clock)
    BY <1>1 DEF IsSound, IsFetch
  <2>2. r.todo[1] \in Sources \X Sym /\ Head(r.todo) = r.todo[1] /\ 1 \in DOMAIN r.todo
    BY <1>1, <2>1, TailIs
  <2> QED
    BY <2>1, <2>2
<1>3. CASE src = "dump"
  <2> DEFINE n == [r EXCEPT !.got[src][s] = Dump(s), !.cursor = None, !.todo = Tail(@)]
  <2>1. IsSound(n, tape, clock)
    BY <1>0, <1>1, <1>2, DumpIsSeries, FetchedIsSound
  <2>2. job' = [job EXCEPT ![j] = n]
    <3>1. n = [r EXCEPT !.got["dump"][s] = Dump(s), !.todo = Tail(@)]
      BY <1>1, <1>2, <1>3 DEF IsProgram
    <3>2. job' = [job EXCEPT ![j] = [r EXCEPT !.got["dump"][s] = Dump(s), !.todo = Tail(@)]]
      BY <1>1, <1>2, <1>3
    <3> QED
      BY <3>1, <3>2
  <2> HIDE DEF n
  <2> QED
    BY <1>0, <2>1, <2>2, OneProgram
<1>4. CASE src # "dump"
  <2> DEFINE n == [r EXCEPT !.cursor = Since, !.until = clock]
  <2>1. /\ n.pc = "fetch" /\ n.cursor = Since /\ n.until = clock /\ n.todo = r.todo
        /\ n.got = r.got /\ n.joined = r.joined
        /\ n \in [pc : Places, plan : Plans, forecasts : BOOLEAN, todo : {n.todo},
                  cursor : Nat \cup {None}, until : 0..clock, got : {n.got},
                  joined : {n.joined}, chunks : {n.chunks}]
    <3>1. clock \in 0..clock /\ Since \in Nat
      BY <1>0, PipelineAssumption
    <3>2. IsProgram(r, clock) /\ r.pc = "fetch"
      BY <1>1, <1>2
    <3> HIDE DEF r
    <3> QED
      BY <3>1, <3>2 DEF IsProgram
  <2>2. job' = [job EXCEPT ![j] = n]
    BY <1>1, <1>2, <1>4
  <2> HIDE DEF n
  <2>3. IsProgram(n, clock)
    BY <1>1, <1>2, <2>1 DEF IsProgram
  <2>4. IsFetch(n)
    BY <1>1, <1>2, <2>1 DEF IsFetch
  <2>5. IsPaging(n, tape)
    <3>1. r.got[src][s] = <<>>
      BY <1>1, <1>2 DEF IsFetch
    <3>2. \A h \in Hours : ~(Since <= h /\ h < Since)
      BY PipelineAssumption DEF Hours
    <3> QED
      BY <1>1, <1>4, <2>1, <3>1, <3>2, EmptySeries DEF IsPaging
  <2>6. IsSound(n, tape, clock)
    BY <2>3, <2>4, <2>5 DEF IsSound
  <2> QED
    BY <1>0, <2>2, <2>6, OneProgram
<1> QED
  BY <1>3, <1>4

\* What a program is fetching, the page that it gets and what it then holds.
SourceOf(r) == r.todo[1][1]
NameOf(r) == r.todo[1][2]
PageOf(r) == Batch(SourceOf(r), NameOf(r), r.cursor)
Quotes(r) == [h \in {x \in PageOf(r) : x <= r.until} |-> Quote(SourceOf(r), NameOf(r), h)]
Fetched(r) == Update(r.got[SourceOf(r)][NameOf(r)], Quotes(r))
NextOf(r) == NextCursor(PageOf(r), r.cursor, r.until)

LEMMA PagingIs ==
  ASSUME MarketIsSound, NEW r, IsSound(r, tape, clock), r.pc = "fetch", r.cursor # None
  PROVE  /\ r.todo # <<>> /\ r.todo \in Seq(Sources \X Sym) /\ Head(r.todo) = r.todo[1]
         /\ SourceOf(r) \in {"binance", "kraken"} /\ NameOf(r) \in Sym
         /\ r.cursor \in Nat /\ r.until \in 0..clock
         /\ IsSeries(r.got[SourceOf(r)][NameOf(r)], clock)
         /\ DOMAIN r.got[SourceOf(r)][NameOf(r)] \subseteq 0..r.until
         /\ SourceOf(r) = "binance" =>
              \A h \in Traded(NameOf(r)) : Since <= h /\ h < r.cursor /\ h <= r.until =>
                h \in DOMAIN r.got[SourceOf(r)][NameOf(r)]
<1>1. IsProgram(r, clock) /\ IsFetch(r) /\ IsPaging(r, tape)
  BY DEF IsSound
<1>2. /\ r.todo # <<>> /\ r.todo \in Seq(Sources \X Sym) /\ SourceOf(r) # "dump"
      /\ DOMAIN r.got[SourceOf(r)][NameOf(r)] \subseteq 0..r.until
  BY <1>1 DEF IsFetch, IsPaging, SourceOf, NameOf
<1>3. Head(r.todo) = r.todo[1] /\ r.todo[1] \in Sources \X Sym
  BY <1>2, TailIs
<1>4. SourceOf(r) \in {"binance", "kraken"} /\ NameOf(r) \in Sym
  BY <1>2, <1>3 DEF SourceOf, NameOf, Sources
<1>5. /\ r.cursor \in Nat /\ r.until \in 0..clock
      /\ IsSeries(r.got[SourceOf(r)][NameOf(r)], clock)
  BY <1>1, <1>4 DEF IsProgram, Sources
<1>6. SourceOf(r) = "binance" =>
        \A h \in Traded(NameOf(r)) : Since <= h /\ h < r.cursor /\ h <= r.until =>
          h \in DOMAIN r.got[SourceOf(r)][NameOf(r)]
  BY <1>1 DEF IsPaging, SourceOf, NameOf, Traded
<1> QED
  BY <1>2, <1>3, <1>4, <1>5, <1>6

\* What a page adds, and where that leaves the fetch.
LEMMA PageAdds ==
  ASSUME MarketIsSound, NEW r, IsSound(r, tape, clock), r.pc = "fetch", r.cursor # None
  PROVE  /\ IsSeries(Fetched(r), clock) /\ NextOf(r) \in Nat \cup {None}
         /\ DOMAIN Fetched(r) \subseteq 0..r.until
         /\ NextOf(r) # None /\ SourceOf(r) = "binance" =>
              \A h \in Traded(NameOf(r)) : Since <= h /\ h < NextOf(r) /\ h <= r.until =>
                h \in DOMAIN Fetched(r)
         /\ NextOf(r) = None =>
              Offered(SourceOf(r), NameOf(r)) \cap (Since..r.until) \subseteq DOMAIN Fetched(r)
<1> DEFINE src == SourceOf(r)
           s == NameOf(r)
           O == Offered(src, s)
           c == r.cursor
           u == r.until
           held == DOMAIN r.got[src][s]
           batch == PageOf(r)
           next == NextOf(r)
<1>1. /\ src \in {"binance", "kraken"} /\ s \in Sym /\ c \in Nat /\ u \in 0..clock
      /\ IsSeries(r.got[src][s], clock) /\ held \subseteq 0..u
      /\ src = "binance" => \A h \in Traded(s) : Since <= h /\ h < c /\ h <= u => h \in held
  BY PagingIs
<1>2. clock \in Nat /\ u \in Nat /\ u <= clock /\ Since \in Nat
  BY <1>1, MarketIs, PipelineAssumption
<1>3. /\ IsFiniteSet(O) /\ O \in SUBSET Int /\ O \subseteq Traded(s)
      /\ \A h \in O : h \in Nat /\ h <= clock
      /\ src = "binance" => O = {h \in Traded(s) : h <= clock}
      /\ \A h \in Traded(s) : h \in Nat
  <2>1. \A h \in Traded(s) : h \in Nat
    BY PipelineAssumption DEF Traded, Hours
  <2> QED
    BY <1>1, <2>1, OfferedIs
<1>4. /\ batch \subseteq O /\ \A g \in batch : g \in Nat
      /\ src = "kraken" => batch = O
      /\ src = "binance" => \A g \in batch : g >= c
  <2>1. batch \subseteq O /\ (src = "kraken" => batch = O)
        /\ (src = "binance" => \A g \in batch : g >= c)
    BY <1>1 DEF PageOf, Batch
  <2> QED
    BY <1>3, <2>1
<1>5. IsFiniteSet(batch) /\ batch \in SUBSET Int
  BY <1>3, <1>4, FS_Subset
<1>6. DOMAIN Quotes(r) = {x \in batch : x <= u} /\ IsSeries(Quotes(r), clock)
  <2>1. {x \in batch : x <= u} \subseteq O
    BY <1>4
  <2> QED
    BY <1>1, <2>1, QuotesAre DEF Quotes
<1>7. IsSeries(Fetched(r), clock) /\ DOMAIN Fetched(r) = held \cup {x \in batch : x <= u}
  <2>1. Fetched(r) = Update(r.got[src][s], Quotes(r))
    BY DEF Fetched
  <2>2. DOMAIN Update(r.got[src][s], Quotes(r)) = held \cup {x \in batch : x <= u}
    BY <1>6, UpdateIs
  <2>3. IsSeries(Update(r.got[src][s], Quotes(r)), clock)
    BY <1>1, <1>6, UpdateIsSeries
  <2> QED
    BY <2>1, <2>2, <2>3
<1>8. DOMAIN Fetched(r) \subseteq 0..u
  BY <1>1, <1>2, <1>4, <1>7
<1>9. batch # {} => Max(batch) \in batch /\ Max(batch) \in Nat /\ \A g \in batch : g <= Max(batch)
  BY <1>4, <1>5, MaxExists
<1>10. next \in Nat \cup {None}
  BY <1>9 DEF NextOf, NextCursor
<1>11. /\ next # None => batch # {} /\ next = Max(batch) + 1
       /\ next = None => batch = {} \/ Max(batch) < c + 1 \/ Max(batch) + 1 > u
  BY <1>9, PipelineAssumption DEF NextOf, NextCursor
<1>12. CASE src = "kraken"
  BY <1>4, <1>7, <1>8, <1>10, <1>12
<1>13. CASE src = "binance"
  <2>1. /\ \A h \in O, g \in batch : c <= h /\ h <= g => h \in batch
        /\ batch = {} => \A h \in O : h < c
        /\ (\A g \in batch : g <= c) => \A h \in O : h <= c
    <3>1. src \in Sources \ {"kraken"}
      BY <1>13 DEF Sources
    <3> QED
      BY <1>1, <3>1, PageIs DEF PageOf
  <2>2. ASSUME NEW h \in Traded(s), Since <= h, h <= u, next # None => h < next
        PROVE  h \in held \/ h \in batch
    <3>1. h \in O /\ h \in Nat
      BY <1>2, <1>3, <1>13, <2>2
    <3>2. SUFFICES ASSUME h >= c PROVE h \in batch
      BY <1>1, <1>13, <2>2, <3>1
    <3>3. batch # {}
      BY <1>1, <2>1, <3>1, <3>2
    <3>4. Max(batch) \in batch /\ Max(batch) \in Nat /\ \A g \in batch : g <= Max(batch)
      BY <1>9, <3>3
    <3>5. h <= Max(batch)
      <4>1. CASE next # None
        BY <1>11, <2>2, <3>1, <3>4, <4>1
      <4>2. CASE Max(batch) < c + 1
        <5>1. \A g \in batch : g <= c
          BY <1>1, <1>4, <3>4, <4>2
        <5>2. h <= c /\ Max(batch) >= c
          BY <1>4, <1>13, <2>1, <3>1, <3>4, <5>1
        <5> QED
          BY <1>1, <3>1, <3>4, <5>2
      <4>3. CASE Max(batch) + 1 > u
        BY <1>2, <2>2, <3>1, <3>4, <4>3
      <4> QED
        BY <1>11, <3>3, <4>1, <4>2, <4>3
    <3> QED
      BY <2>1, <3>1, <3>2, <3>4, <3>5
  <2>3. ASSUME NEW h \in Traded(s), Since <= h, h <= u, next # None => h < next
        PROVE  h \in DOMAIN Fetched(r)
    BY <1>7, <2>2, <2>3
  <2>4. O \subseteq Traded(s) /\ \A h \in Since..u : Since <= h /\ h <= u
    BY <1>2, <1>3
  <2> QED
    BY <1>7, <1>8, <1>10, <2>3, <2>4
<1> QED
  BY <1>1, <1>12, <1>13

\* The program after a page.
AfterPage(r) ==
  [r EXCEPT !.got[SourceOf(r)][NameOf(r)] = Fetched(r), !.cursor = NextOf(r),
            !.todo = IF NextOf(r) = None THEN Tail(@) ELSE @]

LEMMA FetchPageIs ==
  ASSUME ProgramInv, NEW j \in Jobs, FetchPage(j)
  PROVE  /\ MarketIsSound /\ ProgramsAreSound /\ UNCHANGED <<tape, clock>>
         /\ IsSound(job[j], tape, clock) /\ job[j].pc = "fetch" /\ job[j].cursor # None
         /\ job' = [job EXCEPT ![j] = AfterPage(job[j])]
<1> DEFINE r == job[j]
<1>1. /\ MarketIsSound /\ ProgramsAreSound /\ UNCHANGED <<tape, clock>>
      /\ IsSound(r, tape, clock) /\ r.pc = "fetch" /\ r.cursor # None
  BY DEF ProgramInv, FetchPage, ProgramsAreSound
<1>2. Head(r.todo) = r.todo[1]
  BY <1>1, PagingIs
<1>3. job' = [job EXCEPT ![j].got[SourceOf(r)][NameOf(r)] = Update(@, Quotes(r)),
                         ![j].cursor = NextOf(r),
                         ![j].todo = IF NextOf(r) = None THEN Tail(@) ELSE @]
  <2> DEFINE goes(item, page, next) ==
               job' = [job EXCEPT ![j].got[item[1]][item[2]] = Update(@, page),
                                  ![j].cursor = next,
                                  ![j].todo = IF next = None THEN Tail(@) ELSE @]
             page(item, batch) == [h \in {x \in batch : x <= r.until} |-> Quote(item[1], item[2], h)]
  <2>1. goes(Head(r.todo),
             page(Head(r.todo), Batch(Head(r.todo)[1], Head(r.todo)[2], r.cursor)),
             NextCursor(Batch(Head(r.todo)[1], Head(r.todo)[2], r.cursor), r.cursor, r.until))
    <3>1. \E item \in {Head(r.todo)} : \E batch \in {Batch(item[1], item[2], r.cursor)} :
          \E pg \in {page(item, batch)}, next \in {NextCursor(batch, r.cursor, r.until)} :
            goes(item, pg, next)
      BY DEF FetchPage
    <3> HIDE DEF goes, page
    <3> QED
      BY <3>1
  <2>2. /\ page(Head(r.todo), Batch(Head(r.todo)[1], Head(r.todo)[2], r.cursor)) = Quotes(r)
        /\ NextCursor(Batch(Head(r.todo)[1], Head(r.todo)[2], r.cursor), r.cursor, r.until) = NextOf(r)
        /\ Head(r.todo)[1] = SourceOf(r) /\ Head(r.todo)[2] = NameOf(r)
    BY <1>2 DEF SourceOf, NameOf, Quotes, NextOf, PageOf
  <2> HIDE DEF page
  <2>3. goes(Head(r.todo), Quotes(r), NextOf(r))
    BY <2>1, <2>2
  <2> QED
    BY <2>2, <2>3
<1>4. job' = [job EXCEPT ![j] = AfterPage(r)]
  BY <1>3 DEF AfterPage, Fetched
<1> QED
  BY <1>1, <1>4

LEMMA FetchPageStep ==
  ASSUME ProgramInv, NEW j \in Jobs, FetchPage(j)
  PROVE  MarketIsSound' /\ ProgramsAreSound'
<1> DEFINE r == job[j]
           n == AfterPage(r)
           got == [r.got EXCEPT ![SourceOf(r)][NameOf(r)] = Fetched(r)]
<1>1. /\ MarketIsSound /\ ProgramsAreSound /\ UNCHANGED <<tape, clock>>
      /\ IsSound(r, tape, clock) /\ r.pc = "fetch" /\ r.cursor # None
      /\ job' = [job EXCEPT ![j] = n] /\ clock \in Nat
  BY FetchPageIs, MarketIs
<1>2. /\ r.todo # <<>> /\ r.todo \in Seq(Sources \X Sym) /\ r.until \in 0..clock
      /\ SourceOf(r) \in {"binance", "kraken"} /\ NameOf(r) \in Sym
  BY <1>1, PagingIs
<1>3. /\ IsSeries(Fetched(r), clock) /\ NextOf(r) \in Nat \cup {None}
      /\ DOMAIN Fetched(r) \subseteq 0..r.until
      /\ NextOf(r) # None /\ SourceOf(r) = "binance" =>
           \A h \in Traded(NameOf(r)) : Since <= h /\ h < NextOf(r) /\ h <= r.until =>
             h \in DOMAIN Fetched(r)
  BY <1>1, PageAdds
<1>4. IsProgram(r, clock) /\ IsFetch(r) /\ SourceOf(r) \in Sources
  BY <1>1, <1>2 DEF IsSound, Sources
<1>5. CASE NextOf(r) = None
  <2>1. n = [r EXCEPT !.got[r.todo[1][1]][r.todo[1][2]] = Fetched(r), !.cursor = None,
                      !.todo = Tail(@)]
    BY <1>5 DEF AfterPage, SourceOf, NameOf
  <2>2. IsSound(n, tape, clock)
    <3> HIDE DEF r, n
    <3> QED
      BY <1>1, <1>2, <1>3, <2>1, FetchedIsSound
  <2> HIDE DEF n
  <2> QED
    BY <1>1, <2>2, OneProgram
<1>6. CASE NextOf(r) # None
  <2>1. /\ n.pc = "fetch" /\ n.cursor = NextOf(r) /\ n.todo = r.todo /\ n.got = got
        /\ n.joined = r.joined /\ n.until = r.until
        /\ n \in [pc : Places, plan : Plans, forecasts : BOOLEAN, todo : {r.todo},
                  cursor : Nat \cup {None}, until : 0..clock, got : {got},
                  joined : {r.joined}, chunks : {n.chunks}]
    <3> HIDE DEF r
    <3> QED
      BY <1>1, <1>3, <1>4, <1>6 DEF IsProgram, AfterPage
  <2> HIDE DEF n
  <2>2. /\ got = [x \in Sources |-> [y \in Sym |-> got[x][y]]]
        /\ \A x \in Sources, y \in Sym :
             got[x][y] = IF x = SourceOf(r) /\ y = NameOf(r) THEN Fetched(r) ELSE r.got[x][y]
    <3>1. r.got = [x \in Sources |-> [y \in Sym |-> r.got[x][y]]]
      BY <1>4 DEF IsProgram
    <3> QED
      BY <1>2, <1>4, <3>1
  <2> HIDE DEF got
  <2>3. IsProgram(n, clock)
    <3>1. /\ r.joined = [x \in Sym |-> r.joined[x]]
          /\ \A x \in Sym : r.joined[x] \in {None} \cup Forecasts(x)
      BY <1>4 DEF IsProgram
    <3>2. \A x \in Sources, y \in Sym : IsSeries(got[x][y], clock)
      BY <1>3, <1>4, <2>2 DEF IsProgram
    <3> QED
      BY <2>1, <2>2, <3>1, <3>2 DEF IsProgram
  <2>4. IsFetch(n)
    <3>1. /\ r.todo \in Seq(Sources \X Sym) /\ IsInjective(r.todo)
          /\ \A i \in DOMAIN r.todo : i > 1 => r.got[r.todo[i][1]][r.todo[i][2]] = <<>>
      BY <1>4 DEF IsFetch
    <3>2. ASSUME NEW i \in DOMAIN r.todo, i > 1
          PROVE  got[r.todo[i][1]][r.todo[i][2]] = <<>>
      <4>1. 1 \in DOMAIN r.todo /\ 1 # i
        BY <1>2, <3>2, TailIs
      <4>2. r.todo[i] \in Sources \X Sym /\ r.todo[1] \in Sources \X Sym /\ r.todo[i] # r.todo[1]
        BY <3>1, <4>1 DEF IsInjective
      <4>3. ~(r.todo[i][1] = SourceOf(r) /\ r.todo[i][2] = NameOf(r))
        BY <4>2 DEF SourceOf, NameOf
      <4>4. r.todo[i][1] \in Sources /\ r.todo[i][2] \in Sym
        BY <4>2
      <4> QED
        BY <2>2, <3>1, <3>2, <4>3, <4>4
    <3> QED
      BY <1>6, <2>1, <3>1, <3>2 DEF IsFetch
  <2>5. IsPaging(n, tape)
    <3>1. got[SourceOf(r)][NameOf(r)] = Fetched(r) /\ SourceOf(r) # "dump"
      BY <1>2, <1>4, <2>2
    <3> QED
      BY <1>2, <1>3, <1>6, <2>1, <3>1 DEF IsPaging, SourceOf, NameOf, Traded
  <2>6. IsSound(n, tape, clock)
    BY <2>3, <2>4, <2>5 DEF IsSound
  <2> QED
    BY <1>1, <2>6, OneProgram
<1> QED
  BY <1>5, <1>6

-----------------------------------------------------------------------------
(* Forecasts.                                                              *)

LEMMA MaxOfTwo ==
  ASSUME NEW a \in Int, NEW b \in Int
  PROVE  Max({a, b}) = IF a < b THEN b ELSE a
  BY DEF Max

\* The elements of a slice.
LEMMA SliceIs ==
  ASSUME NEW X, NEW q \in Seq(X), NEW a \in 1..Len(q), NEW b \in 1..Len(q), a <= b
  PROVE  ToSet(SubSeq(q, a, b)) = {q[i] : i \in a..b}
<1> DEFINE v == SubSeq(q, a, b)
<1>0. a \in Int /\ b \in Int /\ a <= b
  OBVIOUS
<1>1. v \in Seq(X) /\ Len(v) = b - a + 1 /\ \A i \in 1..(b - a + 1) : v[i] = q[a + i - 1]
  OBVIOUS
<1> HIDE DEF v
<1>2. DOMAIN v = 1..(b - a + 1)
  BY <1>1
<1>3. \A i \in 1..(b - a + 1) : a + i - 1 \in a..b
  BY <1>0
<1>4. \A i \in a..b : i - a + 1 \in 1..(b - a + 1) /\ a + (i - a + 1) - 1 = i
  BY <1>0
<1>5. ToSet(v) = {v[i] : i \in 1..(b - a + 1)}
  BY <1>2 DEF ToSet
<1>6. ASSUME NEW i \in 1..(b - a + 1) PROVE \E x \in a..b : v[i] = q[x]
  BY <1>1, <1>3
<1>7. ASSUME NEW i \in a..b PROVE \E x \in 1..(b - a + 1) : v[x] = q[i]
  BY <1>1, <1>4
<1>8. ToSet(v) = {q[i] : i \in a..b}
  <2>1. {v[i] : i \in 1..(b - a + 1)} \subseteq {q[i] : i \in a..b}
    BY <1>6
  <2>2. {q[i] : i \in a..b} \subseteq {v[i] : i \in 1..(b - a + 1)}
    <3> SUFFICES ASSUME NEW i \in a..b PROVE \E x \in 1..(b - a + 1) : v[x] = q[i]
      OBVIOUS
    <3> QED
      BY <1>7
  <2> QED
    BY <1>5, <2>1, <2>2
<1> QED
  BY <1>8 DEF v

\* The forecasts of a series are of its own hours and know nothing later.
LEMMA ForecastRowsAre ==
  ASSUME NEW s, NEW bars, NEW t \in Hours, IsSeries(bars, t), NEW horizon \in Nat \ {0}
  PROVE  ForecastRows(s, bars, horizon) \in Seq(ForecastRow(s))
<1> DEFINE ts == Ascending(DOMAIN bars)
           n == Cardinality(DOMAIN bars)
           last == Max({0, Len(ts) - ContextLength + 1})
           at(k) == k + ContextLength - 1
           row(k) == [symbol |-> s, timestamp |-> ts[at(k)], context_end |-> ts[at(k)],
                      target |-> ts[at(k)] + horizon,
                      context |-> ToSet(SubSeq(ts, at(k) - ContextLength + 1, at(k)))]
<1>1. t \in Nat /\ 0..t \subseteq Hours /\ Hours \subseteq Nat /\ ContextLength \in Nat \ {0}
  BY PipelineAssumption, BarsAssumption DEF Hours
<1>2. DOMAIN bars \subseteq Hours /\ DOMAIN bars \in SUBSET Int /\ IsFiniteSet(DOMAIN bars)
  <2>1. IsFiniteSet(0..t) /\ DOMAIN bars \subseteq 0..t /\ 0..t \subseteq Int
    BY <1>1, FS_Interval DEF IsSeries
  <2> QED
    BY <1>1, <2>1, FS_Subset
<1>3. /\ n \in Nat /\ ts \in Seq(DOMAIN bars) /\ Len(ts) = n
      /\ \A i, j \in 1..n : i < j => ts[i] < ts[j]
  BY <1>2, AscendingLists
<1>4. ForecastRows(s, bars, horizon) = [k \in 1..last |-> row(k)]
  BY DEF ForecastRows
<1> HIDE DEF ts
<1>5. last \in Nat /\ last = IF 0 < n - ContextLength + 1 THEN n - ContextLength + 1 ELSE 0
  BY <1>1, <1>3, MaxOfTwo
<1> HIDE DEF n, last, row
<1>6. ts \in Seq(Hours) /\ \A i \in 1..n : ts[i] \in Hours /\ ts[i] \in Nat
  BY <1>1, <1>2, <1>3
<1>7. ASSUME NEW k \in 1..last PROVE row(k) \in ForecastRow(s)
  <2> DEFINE i == at(k)
             context == ToSet(SubSeq(ts, i - ContextLength + 1, i))
  <2>1. i \in 1..n /\ i - ContextLength + 1 \in 1..n /\ i - ContextLength + 1 <= i
        /\ i - ContextLength + 1 = k
    BY <1>1, <1>3, <1>5
  <2>2. row(k) = [symbol |-> s, timestamp |-> ts[i], context_end |-> ts[i],
                  target |-> ts[i] + horizon, context |-> context]
    BY DEF row
  <2> HIDE DEF i
  <2>3. context = {ts[x] : x \in k..i}
    BY <1>3, <1>6, <2>1, SliceIs
  <2> HIDE DEF context
  <2>4. /\ \A x \in k..i : x \in 1..n /\ (x = i \/ x < i)
        /\ i \in k..i
    BY <1>3, <2>1
  <2>5. \A x \in k..i : ts[x] \in Hours /\ ts[x] \in Nat /\ ts[x] <= ts[i]
    BY <1>3, <1>6, <2>1, <2>4
  <2>6. context \in SUBSET Hours /\ ts[i] \in context /\ \A h \in context : h <= ts[i]
    BY <2>3, <2>4, <2>5
  <2>7. ts[i] \in Hours /\ ts[i] \in Nat /\ ts[i] + horizon \in Nat /\ ts[i] < ts[i] + horizon
    BY <1>6, <2>1
  <2> QED
    BY <2>2, <2>6, <2>7 DEF ForecastRow
<1> QED
  BY <1>4, <1>5, <1>7

-----------------------------------------------------------------------------
(* After the fetch.                                                        *)

\* The merged series of a symbol: Kraken's bar, else Binance's, else the dump's.
LEMMA MergedIs ==
  ASSUME NEW j \in Jobs, NEW s \in Sym, NEW t,
         \A src \in Sources : IsSeries(job[j].got[src][s], t)
  PROVE  LET got(src) == job[j].got[src][s]
             all == DOMAIN got("dump") \cup DOMAIN got("binance") \cup DOMAIN got("kraken")
         IN  /\ IsSeries(Series(j)[s], t)
             /\ Series(j)[s] = [h \in all |->
                  IF h \in DOMAIN got("kraken") THEN got("kraken")[h]
                  ELSE IF h \in DOMAIN got("binance") THEN got("binance")[h] ELSE got("dump")[h]]
<1> DEFINE d == job[j].got["dump"][s]
           b == job[j].got["binance"][s]
           k == job[j].got["kraken"][s]
           all == DOMAIN d \cup DOMAIN b \cup DOMAIN k
           v == <<job[j].got["dump"], job[j].got["binance"], job[j].got["kraken"]>>
           has(h) == {i \in DOMAIN v : h \in DOMAIN v[i][s]}
           bar(h) == IF h \in DOMAIN k THEN k[h] ELSE IF h \in DOMAIN b THEN b[h] ELSE d[h]
<1>1. DOMAIN v = 1..3 /\ v[1][s] = d /\ v[2][s] = b /\ v[3][s] = k
  OBVIOUS
<1>2. Series(j)[s] = [h \in UNION {DOMAIN v[i][s] : i \in DOMAIN v} |-> v[Max(has(h))][s][h]]
  <2>1. \A w : MergeSeries(w)[s] =
                 [h \in UNION {DOMAIN w[i][s] : i \in DOMAIN w} |->
                    w[Max({i \in DOMAIN w : h \in DOMAIN w[i][s]})][s][h]]
    BY DEF MergeSeries, Sym
  <2>2. Series(j) = MergeSeries(v)
    BY DEF Series
  <2> HIDE DEF v
  <2> QED
    BY <2>1, <2>2
<1> HIDE DEF v, d, b, k
<1>3. UNION {DOMAIN v[i][s] : i \in DOMAIN v} = all
  <2>1. 1..3 = {1, 2, 3}
    OBVIOUS
  <2> QED
    BY <1>1, <2>1
<1>4. ASSUME NEW h \in all PROVE v[Max(has(h))][s][h] = bar(h)
  <2>1. has(h) \in SUBSET Int /\ IsFiniteSet(has(h)) /\ has(h) # {}
    <3>1. IsFiniteSet(1..3) /\ 1..3 \in SUBSET Int /\ has(h) \subseteq 1..3
      <4>1. 1 \in Int /\ 3 \in Int /\ has(h) \subseteq 1..3 /\ 1..3 \in SUBSET Int
        BY <1>1
      <4>2. IsFiniteSet(1..3)
        <5> DEFINE n == 3
        <5>1. n \in Int
          OBVIOUS
        <5> HIDE DEF n
        <5>2. IsFiniteSet(1..n)
          BY <5>1, FS_Interval
        <5> QED
          BY <5>2 DEF n
      <4> QED
        BY <4>1, <4>2
    <3>2. 1 \in has(h) \/ 2 \in has(h) \/ 3 \in has(h)
      BY <1>1
    <3> QED
      BY <3>1, <3>2, FS_Subset
  <2>2. Max(has(h)) \in has(h) /\ \A i \in has(h) : i <= Max(has(h))
    <3> HIDE DEF has
    <3> QED
      BY <2>1, MaxExists
  <2> DEFINE i == Max(has(h))
  <2>3. /\ i \in 1..3 /\ h \in DOMAIN v[i][s]
        /\ h \in DOMAIN k => 3 <= i
        /\ h \in DOMAIN b => 2 <= i
    BY <1>1, <2>2
  <2> HIDE DEF i
  <2>4. i = 1 \/ i = 2 \/ i = 3
    BY <2>3
  <2>5. v[i][s][h] = bar(h)
    BY <1>1, <2>3, <2>4
  <2> QED
    BY <2>5 DEF i
<1>5. Series(j)[s] = [h \in all |-> bar(h)]
  BY <1>2, <1>3, <1>4
<1>6. IsSeries(d, t) /\ IsSeries(b, t) /\ IsSeries(k, t)
  BY DEF Sources, d, b, k
<1>7. \A h \in all : h \in 0..t /\ bar(h) \in Bar
  BY <1>6 DEF IsSeries
<1> HIDE DEF bar
<1>8. IsSeries(Series(j)[s], t)
  BY <1>5, <1>7 DEF IsSeries
<1> QED
  BY <1>5, <1>8 DEF bar, d, b, k

\* The symbols that have bars.
LEMMA PresentIs ==
  ASSUME NEW series
  PROVE  /\ Present(series) \in Seq(Sym) /\ IsInjective(Present(series))
         /\ ToSet(Present(series)) = {s \in Sym : series[s] # <<>>}
<1> DEFINE places == {i \in DOMAIN Symbols : series[Symbols[i]] # <<>>}
           kept == At(Symbols, places)
<1>1. Symbols \in Seq(Sym) /\ IsInjective(Symbols) /\ places \in SUBSET DOMAIN Symbols
  BY BarsAssumption DEF Sym
<1>2. /\ kept \in Seq(Sym) /\ IsInjective(kept)
      /\ \A k \in DOMAIN kept : \E i \in places : kept[k] = Symbols[i]
      /\ \A i \in places : \E k \in DOMAIN kept : kept[k] = Symbols[i]
  BY <1>1, AtIs
<1>3. Present(series) = kept
  BY DEF Present
<1> HIDE DEF kept
<1>4. \A k \in DOMAIN kept : kept[k] \in Sym /\ series[kept[k]] # <<>>
  BY <1>1, <1>2
<1>5. \A s \in Sym : series[s] # <<>> => \E k \in DOMAIN kept : kept[k] = s
  <2>1. \A s \in Sym : \E i \in DOMAIN Symbols : Symbols[i] = s
    BY DEF Sym, ToSet
  <2> QED
    BY <1>2, <2>1
<1>6. ToSet(kept) = {s \in Sym : series[s] # <<>>}
  BY <1>4, <1>5 DEF ToSet
<1> QED
  BY <1>2, <1>3, <1>6

\* A program that does not fetch and leaves alone what it has fetched.
LEMMA GoesOn ==
  ASSUME NEW r, NEW n, NEW m, NEW t, IsProgram(r, t),
         n \in [pc : Places \ {"fetch"}, plan : {r.plan}, forecasts : {r.forecasts},
                todo : {n.todo}, cursor : Nat \cup {None}, until : {r.until}, got : {r.got},
                joined : {r.joined}, chunks : {n.chunks}],
         n.pc \in {"join", "export"} => n.todo \in Seq(Sym)
  PROVE  IsSound(n, m, t)
<1>1. n.got = r.got /\ n.joined = r.joined /\ n.pc # "fetch"
  OBVIOUS
<1>2. n \in [pc : Places, plan : Plans, forecasts : BOOLEAN, todo : {n.todo},
             cursor : Nat \cup {None}, until : 0..t, got : {n.got}, joined : {n.joined},
             chunks : {n.chunks}]
  BY DEF IsProgram
<1>3. IsProgram(n, t)
  BY <1>1, <1>2 DEF IsProgram
<1> QED
  BY <1>1, <1>3 DEF IsSound

\* What a step of one program finds.
LEMMA OneFinds ==
  ASSUME ProgramInv, NEW j \in Jobs
  PROVE  /\ MarketIsSound /\ ProgramsAreSound /\ clock \in Nat /\ clock \in Hours
         /\ IsSound(job[j], tape, clock) /\ IsProgram(job[j], clock)
         /\ \A src \in Sources, s \in Sym : IsSeries(job[j].got[src][s], clock)
  BY MarketIs DEF ProgramInv, ProgramsAreSound, IsSound, IsProgram

LEMMA ProgramGoesOn ==
  ASSUME ProgramInv, NEW j \in Jobs, NEW n,
         n \in [pc : Places \ {"fetch"}, plan : {job[j].plan}, forecasts : {job[j].forecasts},
                todo : {n.todo}, cursor : Nat \cup {None}, until : {job[j].until},
                got : {job[j].got}, joined : {job[j].joined}, chunks : {n.chunks}],
         n.pc \in {"join", "export"} => n.todo \in Seq(Sym),
         job' = [job EXCEPT ![j] = n], UNCHANGED <<tape, clock>>
  PROVE  MarketIsSound' /\ ProgramsAreSound'
<1>1. IsSound(n, tape, clock)
  <2>1. IsProgram(job[j], clock)
    BY OneFinds
  <2> QED
    BY <2>1, GoesOn
<1> QED
  BY <1>1, OneFinds, OneProgram

\* A program that dies, or is killed.
LEMMA DieStep ==
  ASSUME ProgramInv, NEW j \in Jobs, Die(j), UNCHANGED <<tape, clock>>
  PROVE  MarketIsSound' /\ ProgramsAreSound'
<1>1. job' = [job EXCEPT ![j] = [Idle EXCEPT !.pc = "dead"]]
  BY DEF Die
<1>2. IsSound([Idle EXCEPT !.pc = "dead"], tape, clock)
  BY OneFinds, EndIsSound DEF Ended
<1> QED
  BY <1>1, <1>2, OneFinds, OneProgram

LEMMA BeginCacheStep ==
  ASSUME ProgramInv, BeginCache
  PROVE  MarketIsSound' /\ ProgramsAreSound'
<1> DEFINE r == job["cache"]
           todo == CachePlan(Series("cache"))
           n == [r EXCEPT !.pc = "write", !.todo = todo]
<1>1. job' = [job EXCEPT !["cache"] = n] /\ UNCHANGED <<tape, clock>> /\ "cache" \in Jobs
  BY DEF BeginCache, Jobs
<1>2. IsProgram(r, clock)
  BY <1>1, OneFinds
<1> HIDE DEF todo, r
<1>3. IsSound(n, tape, clock)
  <2>1. n \in [pc : Places \ {"fetch"}, plan : {r.plan}, forecasts : {r.forecasts},
               todo : {n.todo}, cursor : Nat \cup {None}, until : {r.until}, got : {r.got},
               joined : {r.joined}, chunks : {n.chunks}] /\ n.pc = "write"
    BY <1>2 DEF IsProgram, Places
  <2> HIDE DEF n
  <2> QED
    BY <1>2, <2>1, GoesOn
<1> HIDE DEF n
<1> QED
  BY <1>1, <1>3, OneFinds, OneProgram

\* One write to a forecast file.
LEMMA OneFile ==
  ASSUME FilesAreSound, NEW s, NEW h, NEW v, cache' = [cache EXCEPT ![s][h] = v],
         s \in Sym /\ h \in ToSet(Horizons) => v \in {None, Failed} \cup Seq(ForecastRow(s))
  PROVE  FilesAreSound'
<1> DEFINE Row(x) == {None, Failed} \cup Seq(ForecastRow(x))
<1>1. /\ cache = [x \in Sym |-> cache[x]]
      /\ \A x \in Sym : cache[x] \in [ToSet(Horizons) -> Row(x)]
      /\ s \in Sym /\ h \in ToSet(Horizons) => v \in Row(s)
  BY DEF FilesAreSound
<1> HIDE DEF Row
<1>2. /\ cache' = [x \in Sym |-> cache'[x]]
      /\ \A x \in Sym : cache'[x] = IF x = s THEN [cache[s] EXCEPT ![h] = v] ELSE cache[x]
  BY <1>1
<1>3. \A x \in Sym : cache'[x] \in [ToSet(Horizons) -> Row(x)]
  BY <1>1, <1>2
<1> QED
  BY <1>2, <1>3 DEF FilesAreSound, Row

LEMMA WriteCacheStep ==
  ASSUME ProgramInv, WriteCache
  PROVE  MarketIsSound' /\ ProgramsAreSound' /\ FilesAreSound'
<1> DEFINE r == job["cache"]
           s == Head(r.todo)[1]
           h == Head(r.todo)[2]
           rows == ForecastRows(s, Series("cache")[s], h)
<1>1. /\ UNCHANGED <<tape, clock>> /\ "cache" \in Jobs /\ r.pc = "write"
      /\ \/ Die("cache") /\ UNCHANGED cache
         \/ /\ cache' = [cache EXCEPT ![s][h] = Failed]
            /\ job' = [job EXCEPT !["cache"].cursor = 0]
         \/ /\ cache' = [cache EXCEPT ![s][h] = rows]
            /\ job' = [job EXCEPT !["cache"].cursor = None, !["cache"].todo = Tail(@)]
  <2> DEFINE goes(x, g, q) ==
               IF ~AssertNoLeakage(q)
               THEN Die("cache") /\ UNCHANGED cache
               ELSE IF job["cache"].cursor = None
               THEN /\ cache' = [cache EXCEPT ![x][g] = Failed]
                    /\ job' = [job EXCEPT !["cache"].cursor = 0]
               ELSE /\ cache' = [cache EXCEPT ![x][g] = q]
                    /\ job' = [job EXCEPT !["cache"].cursor = None, !["cache"].todo = Tail(@)]
  <2>1. \E x \in {s}, g \in {h} : \E q \in {ForecastRows(x, Series("cache")[x], g)} : goes(x, g, q)
    BY DEF WriteCache
  <2> HIDE DEF goes
  <2>2. goes(s, h, rows)
    BY <2>1
  <2> HIDE DEF s, h, rows
  <2> QED
    BY <2>2 DEF goes, WriteCache, Jobs
<1>2. IsProgram(r, clock) /\ FilesAreSound /\ clock \in Hours
  BY <1>1, OneFinds DEF ProgramInv
<1>3. s \in Sym /\ h \in ToSet(Horizons) => rows \in Seq(ForecastRow(s))
  <2> SUFFICES ASSUME s \in Sym, h \in ToSet(Horizons) PROVE rows \in Seq(ForecastRow(s))
    OBVIOUS
  <2> HIDE DEF s, h
  <2>1. h \in Nat \ {0}
    BY BarsAssumption DEF ToSet
  <2>2. IsSeries(Series("cache")[s], clock)
    BY <1>1, OneFinds, MergedIs
  <2> QED
    BY <1>2, <2>1, <2>2, ForecastRowsAre
<1> HIDE DEF s, h, rows
<1>4. FilesAreSound'
  <2>1. CASE UNCHANGED cache
    BY <1>2, <2>1 DEF FilesAreSound
  <2>2. CASE cache' = [cache EXCEPT ![s][h] = Failed]
    BY <1>2, <2>2, OneFile
  <2>3. CASE cache' = [cache EXCEPT ![s][h] = rows]
    BY <1>2, <1>3, <2>3, OneFile
  <2> QED
    BY <1>1, <2>1, <2>2, <2>3
<1>6. MarketIsSound' /\ ProgramsAreSound'
  <2>1. CASE Die("cache")
    BY <1>1, <2>1, DieStep
  <2>2. CASE job' = [job EXCEPT !["cache"].cursor = 0]
    <3> DEFINE n == [r EXCEPT !.cursor = 0]
    <3>1. job' = [job EXCEPT !["cache"] = n]
      BY <2>2
    <3>2. n.pc = "write" /\ n \in
            [pc : Places \ {"fetch"}, plan : {r.plan}, forecasts : {r.forecasts},
             todo : {n.todo}, cursor : Nat \cup {None}, until : {r.until}, got : {r.got},
             joined : {r.joined}, chunks : {n.chunks}]
      <4> HIDE DEF r
      <4> QED
        BY <1>1, <1>2 DEF IsProgram, Places
    <3> HIDE DEF n
    <3> QED
      BY <1>1, <3>1, <3>2, ProgramGoesOn
  <2>3. CASE job' = [job EXCEPT !["cache"].cursor = None, !["cache"].todo = Tail(@)]
    <3> DEFINE n == [r EXCEPT !.cursor = None, !.todo = Tail(r.todo)]
    <3>1. job' = [job EXCEPT !["cache"] = n]
      BY <2>3
    <3>2. n.pc = "write" /\ n \in
            [pc : Places \ {"fetch"}, plan : {r.plan}, forecasts : {r.forecasts},
             todo : {n.todo}, cursor : Nat \cup {None}, until : {r.until}, got : {r.got},
             joined : {r.joined}, chunks : {n.chunks}]
      <4> HIDE DEF r
      <4> QED
        BY <1>1, <1>2 DEF IsProgram, Places
    <3> HIDE DEF n
    <3> QED
      BY <1>1, <3>1, <3>2, ProgramGoesOn
  <2> QED
    BY <1>1, <2>1, <2>2, <2>3
<1> QED
  BY <1>4, <1>6

LEMMA EndCacheStep ==
  ASSUME ProgramInv, EndCache
  PROVE  MarketIsSound' /\ ProgramsAreSound'
<1>1. /\ job' = [job EXCEPT !["cache"] = [Idle EXCEPT !.pc = "done"]]
      /\ UNCHANGED <<tape, clock>> /\ "cache" \in Jobs
  BY DEF EndCache, Jobs
<1>2. IsSound([Idle EXCEPT !.pc = "done"], tape, clock)
  BY <1>1, OneFinds, EndIsSound DEF Ended
<1> QED
  BY <1>1, <1>2, OneFinds, OneProgram

LEMMA AlignStep ==
  ASSUME ProgramInv, Align
  PROVE  MarketIsSound' /\ ProgramsAreSound'
<1> DEFINE r == job["data"]
           todo == IF r.forecasts THEN Present(Series("data")) ELSE <<>>
           n == [r EXCEPT !.pc = "join", !.todo = todo]
<1>1. UNCHANGED <<tape, clock>> /\ "data" \in Jobs
  BY DEF Align, Jobs
<1>2. IsProgram(r, clock)
  BY <1>1, OneFinds
<1>3. CASE job' = [job EXCEPT !["data"] = n]
  <2>1. todo \in Seq(Sym)
    BY PresentIs
  <2> HIDE DEF todo, r
  <2>2. n \in [pc : Places \ {"fetch"}, plan : {r.plan}, forecasts : {r.forecasts},
               todo : {n.todo}, cursor : Nat \cup {None}, until : {r.until}, got : {r.got},
               joined : {r.joined}, chunks : {n.chunks}] /\ n.todo = todo
    BY <1>2 DEF IsProgram, Places
  <2> HIDE DEF n
  <2>3. IsSound(n, tape, clock)
    BY <1>2, <2>1, <2>2, GoesOn
  <2> QED
    BY <1>1, <1>3, <2>3, OneFinds, OneProgram DEF r
<1>4. CASE Die("data")
  BY <1>1, <1>4, DieStep
<1>5. job' = [job EXCEPT !["data"] = n] \/ Die("data")
  BY DEF Align
<1> QED
  BY <1>3, <1>4, <1>5

\* What is read from the forecast files of a symbol.
LEMMA LoadIs ==
  ASSUME FilesAreSound, NEW s \in Sym
  PROVE  LoadForecasts(s) \in {None, Failed} \cup Forecasts(s)
<1> DEFINE bad == {k \in DOMAIN Horizons : cache[s][Horizons[k]] \in {None, Failed}}
<1>1. LoadForecasts(s) = IF bad = {} THEN cache[s] ELSE cache[s][Horizons[Min(bad)]]
  BY DEF LoadForecasts
<1>2. cache[s] \in [ToSet(Horizons) -> {None, Failed} \cup Seq(ForecastRow(s))]
  BY DEF FilesAreSound
<1>3. ASSUME bad = {} PROVE cache[s] \in Forecasts(s)
  <2>1. \A h \in ToSet(Horizons) : cache[s][h] \notin {None, Failed}
    BY <1>3 DEF ToSet
  <2>2. \A h \in ToSet(Horizons) : cache[s][h] \in Seq(ForecastRow(s))
    BY <1>2, <2>1
  <2> QED
    BY <1>2, <2>2 DEF Forecasts
<1>4. ASSUME bad # {} PROVE cache[s][Horizons[Min(bad)]] \in {None, Failed}
  <2>1. DOMAIN Horizons = 1..Len(Horizons) /\ Len(Horizons) \in Nat /\ 1 \in Int
    BY BarsAssumption
  <2>2. IsFiniteSet(1..Len(Horizons)) /\ 1..Len(Horizons) \in SUBSET Int
    BY <2>1, FS_Interval
  <2>3. IsFiniteSet(bad) /\ bad \in SUBSET Int
    BY <2>1, <2>2, FS_Subset
  <2>4. Min(bad) \in bad
    <3> HIDE DEF bad
    <3> QED
      BY <1>4, <2>3, MinExists
  <2> QED
    BY <2>4
<1> QED
  BY <1>1, <1>3, <1>4

LEMMA JoinForecastsStep ==
  ASSUME ProgramInv, JoinForecasts
  PROVE  MarketIsSound' /\ ProgramsAreSound'
<1> DEFINE r == job["data"]
           s == Head(r.todo)
           fc == LoadForecasts(s)
           n == [r EXCEPT !.joined[s] = fc, !.todo = Tail(@)]
           joined == [r.joined EXCEPT ![s] = fc]
<1>1. /\ UNCHANGED <<tape, clock>> /\ "data" \in Jobs /\ r.pc = "join" /\ r.todo # <<>>
      /\ \/ Die("data")
         \/ fc # Failed /\ job' = [job EXCEPT !["data"] = n]
  BY DEF JoinForecasts, Jobs
<1>2. IsProgram(r, clock) /\ FilesAreSound
  BY <1>1, OneFinds DEF ProgramInv
<1>3. r.todo \in Seq(Sym) /\ Tail(r.todo) \in Seq(Sym) /\ s \in Sym
  BY <1>1, <1>2, TailIs DEF IsProgram
<1>4. fc \in {None, Failed} \cup Forecasts(s)
  BY <1>2, <1>3, LoadIs
<1> HIDE DEF r, fc
<1>5. ASSUME fc # Failed PROVE IsSound(n, tape, clock)
  <2>1. /\ n.todo = Tail(r.todo) /\ n.got = r.got /\ n.joined = joined /\ n.pc = "join"
        /\ n \in [pc : Places, plan : Plans, forecasts : BOOLEAN, todo : {n.todo},
                  cursor : Nat \cup {None}, until : 0..clock, got : {r.got},
                  joined : {joined}, chunks : {n.chunks}]
    BY <1>1, <1>2 DEF IsProgram, Places
  <2> HIDE DEF n
  <2>2. /\ joined = [x \in Sym |-> joined[x]]
        /\ \A x \in Sym : joined[x] \in {None} \cup Forecasts(x)
    <3>1. r.joined = [x \in Sym |-> r.joined[x]] /\ \A x \in Sym : r.joined[x] \in {None} \cup Forecasts(x)
      BY <1>2 DEF IsProgram
    <3> HIDE DEF s
    <3> QED
      BY <1>3, <1>4, <1>5, <3>1
  <2> HIDE DEF joined
  <2>3. IsProgram(n, clock)
    BY <1>2, <1>3, <2>1, <2>2 DEF IsProgram
  <2> QED
    BY <2>1, <2>3 DEF IsSound
<1>6. CASE Die("data")
  BY <1>1, <1>6, DieStep
<1>7. CASE fc # Failed /\ job' = [job EXCEPT !["data"] = n]
  <2> HIDE DEF n
  <2> QED
    BY <1>1, <1>5, <1>7, OneFinds, OneProgram
<1> QED
  BY <1>1, <1>6, <1>7

\* The file is opened and filled in later steps.
LEMMA WriteStep ==
  ASSUME ProgramInv, NEW names, NEW features, NEW prices, Write(names, features, prices),
         UNCHANGED <<tape, clock>>
  PROVE  MarketIsSound' /\ ProgramsAreSound'
<1> DEFINE r == job["data"]
           chunks == <<<<>>>> \o MarketBin(names, features, prices, FeaturesPerSym)
           n == [r EXCEPT !.pc = "write", !.chunks = chunks]
<1>1. job' = [job EXCEPT !["data"] = n] /\ "data" \in Jobs
  BY DEF Write, Jobs
<1>2. IsProgram(r, clock)
  BY <1>1, OneFinds
<1> HIDE DEF chunks
<1>3. n.pc = "write" /\ n \in
        [pc : Places \ {"fetch"}, plan : {r.plan}, forecasts : {r.forecasts},
         todo : {n.todo}, cursor : Nat \cup {None}, until : {r.until}, got : {r.got},
         joined : {r.joined}, chunks : {n.chunks}]
  <2> HIDE DEF r
  <2> QED
    BY <1>2 DEF IsProgram, Places
<1> HIDE DEF n
<1> QED
  BY <1>1, <1>3, ProgramGoesOn

LEMMA ExportSymbolStep ==
  ASSUME ProgramInv, ExportSymbol
  PROVE  MarketIsSound' /\ ProgramsAreSound'
<1> DEFINE r == job["data"]
           s == Head(r.todo)
           fc == IF s \in Dumped THEN LoadForecasts(s) ELSE None
           valid == {h \in DOMAIN Dump(s) :
                       \A k \in DOMAIN Horizons : Reindex(fc[Horizons[k]], h) # NoForecast}
           f == Restrict(Dump(s), valid)
           got == [r.got EXCEPT !["dump"][s] = f]
           joined == [r.joined EXCEPT ![s] = fc]
           skip == [r EXCEPT !.todo = Tail(@)]
           n == [r EXCEPT !.todo = Tail(@), !.joined[s] = fc, !.got["dump"][s] = f]
<1>1. /\ UNCHANGED <<tape, clock>> /\ "data" \in Jobs /\ r.pc = "export" /\ r.todo # <<>>
      /\ \/ Die("data")
         \/ fc \notin {None, Failed} /\ job' = [job EXCEPT !["data"] = n]
         \/ job' = [job EXCEPT !["data"] = skip]
  <2>1. /\ UNCHANGED <<tape, clock>> /\ r.pc = "export" /\ r.todo # <<>>
        /\ IF fc = Failed THEN Die("data")
           ELSE IF fc # None /\ Cardinality(valid) >= MinRows
           THEN job' = [job EXCEPT !["data"].todo = Tail(@), !["data"].joined[s] = fc,
                                   !["data"].got["dump"][s] = f]
           ELSE job' = [job EXCEPT !["data"].todo = Tail(@)]
    BY DEF ExportSymbol
  <2> HIDE DEF fc, s, valid, f
  <2> QED
    BY <2>1 DEF Jobs
<1>2. IsProgram(r, clock) /\ FilesAreSound /\ MarketIsSound
  BY <1>1, OneFinds DEF ProgramInv
<1>3. r.todo \in Seq(Sym) /\ Tail(r.todo) \in Seq(Sym) /\ s \in Sym
  BY <1>1, <1>2, TailIs DEF IsProgram
<1>4. fc \in {None, Failed} \cup Forecasts(s)
  BY <1>2, <1>3, LoadIs
<1>5. IsSeries(f, clock)
  <2>1. IsSeries(Dump(s), clock)
    BY <1>2, <1>3, DumpIsSeries
  <2>2. valid \subseteq DOMAIN Dump(s)
    OBVIOUS
  <2>3. f = [h \in valid |-> Dump(s)[h]]
    BY DEF Restrict
  <2> HIDE DEF valid, f
  <2>4. \A h \in DOMAIN Dump(s) : h \in 0..clock /\ Dump(s)[h] \in Bar
    BY <2>1 DEF IsSeries
  <2>5. f \in [valid -> Bar] /\ valid \subseteq 0..clock
    BY <2>2, <2>3, <2>4
  <2> QED
    BY <2>5 DEF IsSeries
<1> HIDE DEF r, fc, f, valid
<1>6. ASSUME fc \notin {None, Failed} PROVE IsSound(n, tape, clock)
  <2>1. /\ n.todo = Tail(r.todo) /\ n.got = got /\ n.joined = joined /\ n.pc = "export"
        /\ n \in [pc : Places, plan : Plans, forecasts : BOOLEAN, todo : {n.todo},
                  cursor : Nat \cup {None}, until : 0..clock, got : {got},
                  joined : {joined}, chunks : {n.chunks}]
    BY <1>1, <1>2 DEF IsProgram, Places
  <2> HIDE DEF n
  <2>2. /\ joined = [x \in Sym |-> joined[x]]
        /\ \A x \in Sym : joined[x] \in {None} \cup Forecasts(x)
    <3>1. r.joined = [x \in Sym |-> r.joined[x]] /\ \A x \in Sym : r.joined[x] \in {None} \cup Forecasts(x)
      BY <1>2 DEF IsProgram
    <3> HIDE DEF s
    <3> QED
      BY <1>3, <1>4, <1>6, <3>1
  <2> HIDE DEF joined
  <2>3. /\ got = [src \in Sources |-> [x \in Sym |-> got[src][x]]]
        /\ \A src \in Sources, x \in Sym : IsSeries(got[src][x], clock)
    <3>1. /\ r.got = [src \in Sources |-> [x \in Sym |-> r.got[src][x]]]
          /\ \A src \in Sources, x \in Sym : IsSeries(r.got[src][x], clock)
      BY <1>2 DEF IsProgram
    <3> HIDE DEF s
    <3>2. \A src \in Sources, x \in Sym :
            got[src][x] = IF src = "dump" /\ x = s THEN f ELSE r.got[src][x]
      BY <1>3, <3>1 DEF Sources
    <3>3. got = [src \in Sources |-> [x \in Sym |-> got[src][x]]]
      BY <1>3, <3>1 DEF Sources
    <3> QED
      BY <1>5, <3>1, <3>2, <3>3
  <2> HIDE DEF got
  <2>4. IsProgram(n, clock)
    BY <1>3, <2>1, <2>2, <2>3 DEF IsProgram
  <2> QED
    BY <2>1, <2>4 DEF IsSound
<1>7. CASE Die("data")
  BY <1>1, <1>7, DieStep
<1>8. CASE fc \notin {None, Failed} /\ job' = [job EXCEPT !["data"] = n]
  <2> HIDE DEF n
  <2> QED
    BY <1>1, <1>6, <1>8, OneFinds, OneProgram
<1>9. CASE job' = [job EXCEPT !["data"] = skip]
  <2>1. /\ skip.todo = Tail(r.todo)
        /\ skip \in [pc : Places \ {"fetch"}, plan : {r.plan}, forecasts : {r.forecasts},
             todo : {skip.todo}, cursor : Nat \cup {None}, until : {r.until}, got : {r.got},
             joined : {r.joined}, chunks : {skip.chunks}]
    BY <1>1, <1>2 DEF IsProgram, Places
  <2> HIDE DEF skip
  <2> QED
    BY <1>1, <1>3, <1>9, <2>1, ProgramGoesOn DEF r
<1> QED
  BY <1>1, <1>7, <1>8, <1>9

LEMMA WriteChunkStep ==
  ASSUME ProgramInv, WriteChunk
  PROVE  MarketIsSound' /\ ProgramsAreSound'
<1> DEFINE r == job["data"]
           n == [r EXCEPT !.chunks = Tail(@)]
<1>1. /\ job' = [job EXCEPT !["data"] = n] /\ "data" \in Jobs /\ r.pc = "write"
      /\ UNCHANGED <<tape, clock>>
  BY DEF WriteChunk, Jobs
<1>2. IsProgram(r, clock)
  BY <1>1, OneFinds
<1>3. n.pc = "write" /\ n \in
        [pc : Places \ {"fetch"}, plan : {r.plan}, forecasts : {r.forecasts},
         todo : {n.todo}, cursor : Nat \cup {None}, until : {r.until}, got : {r.got},
         joined : {r.joined}, chunks : {n.chunks}]
  <2> HIDE DEF r
  <2> QED
    BY <1>1, <1>2 DEF IsProgram, Places
<1> HIDE DEF n
<1> QED
  BY <1>1, <1>3, ProgramGoesOn

LEMMA EndDataStep ==
  ASSUME ProgramInv, EndData
  PROVE  MarketIsSound' /\ ProgramsAreSound'
<1> DEFINE r == job["data"]
           n == [r EXCEPT !.pc = "done"]
<1>1. /\ Die("data") \/ job' = [job EXCEPT !["data"] = n]
      /\ "data" \in Jobs /\ UNCHANGED <<tape, clock>>
  BY DEF EndData, Jobs
<1>2. IsProgram(r, clock)
  BY <1>1, OneFinds
<1>3. n.pc = "done" /\ n \in
        [pc : Places \ {"fetch"}, plan : {r.plan}, forecasts : {r.forecasts},
         todo : {n.todo}, cursor : Nat \cup {None}, until : {r.until}, got : {r.got},
         joined : {r.joined}, chunks : {n.chunks}]
  <2> HIDE DEF r
  <2> QED
    BY <1>2 DEF IsProgram, Places, Ended
<1> HIDE DEF n
<1> QED
  BY <1>1, <1>3, ProgramGoesOn, DieStep

-----------------------------------------------------------------------------
(* The invariant, and what follows from it.                                *)

\* A program's step keeps the programs, and what they hold, sound.
LEMMA ProgramStep ==
  ASSUME ProgramInv, CacheStep \/ DataStep
  PROVE  MarketIsSound' /\ ProgramsAreSound'
<1>1. ASSUME BuildBin PROVE MarketIsSound' /\ ProgramsAreSound'
  <2>1. UNCHANGED <<tape, clock>> /\ \E names, features, prices : Write(names, features, prices)
    BY <1>1 DEF BuildBin
  <2> QED
    BY <2>1, WriteStep
<1>2. ASSUME EndExport PROVE MarketIsSound' /\ ProgramsAreSound'
  <2>1. /\ UNCHANGED <<tape, clock>> /\ "data" \in Jobs
        /\ Die("data") \/ \E names, features, prices : Write(names, features, prices)
    BY <1>2 DEF EndExport, Jobs
  <2> QED
    BY <2>1, WriteStep, DieStep
<1>3. CASE \E j \in Jobs : OpenFetch(j) \/ FetchPage(j)
  BY <1>3, OpenFetchStep, FetchPageStep
<1>4. CASE BeginCache \/ WriteCache \/ EndCache
  BY <1>4, BeginCacheStep, WriteCacheStep, EndCacheStep
<1>5. CASE Align \/ JoinForecasts \/ BuildBin \/ ExportSymbol \/ EndExport \/ WriteChunk \/ EndData
  BY <1>1, <1>2, <1>5, AlignStep, JoinForecastsStep, ExportSymbolStep, WriteChunkStep, EndDataStep
<1> QED
  BY <1>3, <1>4, <1>5 DEF CacheStep, DataStep, Jobs

\* A run of the training program ends, or goes on with more than it had.
LEMMA TrainingIs ==
  ASSUME TrainingIsSound, NEW x, NEW y,
         NEW next \in {"prices", "dataset", "model", "metadata", "done"},
         \/ TrainFails
         \/ train' = [train EXCEPT !.pc = next]
         \/ train' = [train EXCEPT !.pc = next, !["features"] = x, !.read = y]
         \/ train' = [train EXCEPT !.pc = next, !["prices"] = x, !.read = y]
         \/ train' = [train EXCEPT !.pc = next, !.samples = x, !.read = y],
         artifact' \subseteq {"model", "metadata"}
  PROVE  TrainingIsSound'
<1>1. train \in [pc : {"features", "prices", "dataset", "model", "metadata"} \cup Ended,
                 read : {train.read}, features : {train.features}, prices : {train.prices},
                 samples : {train.samples}]
  BY DEF TrainingIsSound
<1>2. next \in {"prices", "dataset", "model", "metadata"} \cup Ended
  BY DEF Ended
<1>3. CASE TrainFails
  BY <1>3 DEF TrainingIsSound, TrainFails, NotTrained, Ended
<1>4. CASE train' = [train EXCEPT !.pc = next]
  BY <1>1, <1>2, <1>4 DEF TrainingIsSound
<1>5. CASE train' = [train EXCEPT !.pc = next, !["features"] = x, !.read = y]
  BY <1>1, <1>2, <1>5 DEF TrainingIsSound
<1>6. CASE train' = [train EXCEPT !.pc = next, !["prices"] = x, !.read = y]
  BY <1>1, <1>2, <1>6 DEF TrainingIsSound
<1>7. CASE train' = [train EXCEPT !.pc = next, !.samples = x, !.read = y]
  BY <1>1, <1>2, <1>7 DEF TrainingIsSound
<1> QED
  BY <1>3, <1>4, <1>5, <1>6, <1>7

LEMMA TrainingStep ==
  ASSUME TrainingIsSound, TrainReadsFeatures \/ TrainStep \/ KillTrain
  PROVE  TrainingIsSound'
<1>1. artifact \subseteq {"model", "metadata"}
  BY DEF TrainingIsSound
<1> DEFINE y == train.read \cup {whole}
<1>2. ASSUME TrainReadsFeatures PROVE TrainingIsSound'
  <2>1. /\ UNCHANGED artifact
        /\ TrainFails \/ \E x : train' = [train EXCEPT !.pc = "prices", !["features"] = x, !.read = y]
    BY <1>2 DEF TrainReadsFeatures, TrainReads
  <2> HIDE DEF y
  <2> QED
    BY <1>1, <2>1, TrainingIs
<1>3. ASSUME TrainReadsPrices PROVE TrainingIsSound'
  <2>1. /\ UNCHANGED artifact
        /\ TrainFails \/ \E x : train' = [train EXCEPT !.pc = "dataset", !["prices"] = x, !.read = y]
    BY <1>3 DEF TrainReadsPrices, TrainReads
  <2> HIDE DEF y
  <2> QED
    BY <1>1, <2>1, TrainingIs
<1>4. ASSUME BuildDataset PROVE TrainingIsSound'
  <2>1. /\ UNCHANGED artifact
        /\ TrainFails \/ \E x : train' = [train EXCEPT !.pc = "model", !.samples = x, !.read = y]
    BY <1>4 DEF BuildDataset
  <2> HIDE DEF y
  <2> QED
    BY <1>1, <2>1, TrainingIs
<1>5. ASSUME SaveModel PROVE TrainingIsSound'
  BY <1>1, <1>5, TrainingIs DEF SaveModel
<1>6. ASSUME SaveMetadata PROVE TrainingIsSound'
  <2>1. /\ artifact' \subseteq artifact \cup {"metadata"}
        /\ TrainFails \/ train' = [train EXCEPT !.pc = "done"]
    BY <1>6 DEF SaveMetadata
  <2> QED
    BY <1>1, <2>1, TrainingIs
<1>7. ASSUME KillTrain PROVE TrainingIsSound'
  BY <1>1, <1>7, TrainingIs DEF KillTrain
<1> QED
  BY <1>2, <1>3, <1>4, <1>5, <1>6, <1>7 DEF TrainStep

\* What the steps leave alone.
LEMMA StepsLeave ==
  /\ \A j \in Jobs : \A plan, f : Start(j, plan, f) => UNCHANGED <<tape, clock, cache, file, whole, train, artifact>>
  /\ \A j \in Jobs : OpenFetch(j) \/ FetchPage(j) \/ Kill(j) =>
       UNCHANGED <<tape, clock, cache, file, whole, train, artifact>>
  /\ BeginCache \/ EndCache \/ Align \/ JoinForecasts \/ BuildBin \/ ExportSymbol \/ EndExport
       \/ EndData => UNCHANGED <<tape, clock, cache, file, whole, train, artifact>>
  /\ WriteCache => UNCHANGED <<tape, clock, file, whole, train, artifact>>
  /\ WriteChunk => UNCHANGED <<tape, clock, cache, train, artifact>>
  /\ TrainReadsFeatures \/ TrainStep \/ KillTrain => UNCHANGED <<tape, clock, cache, file, whole, job>>
<1>1. \A j \in Jobs : \A plan, f : Start(j, plan, f) => UNCHANGED <<tape, clock, cache, file, whole, train, artifact>>
  BY DEF Start
<1>2. \A j \in Jobs : OpenFetch(j) => UNCHANGED <<tape, clock, cache, file, whole, train, artifact>>
  BY DEF OpenFetch
<1>3. \A j \in Jobs : FetchPage(j) => UNCHANGED <<tape, clock, cache, file, whole, train, artifact>>
  BY DEF FetchPage
<1>4. \A j \in Jobs : Kill(j) => UNCHANGED <<tape, clock, cache, file, whole, train, artifact>>
  BY DEF Kill
<1>5. BeginCache \/ EndCache => UNCHANGED <<tape, clock, cache, file, whole, train, artifact>>
  BY DEF BeginCache, EndCache
<1>6. Align \/ JoinForecasts => UNCHANGED <<tape, clock, cache, file, whole, train, artifact>>
  BY DEF Align, JoinForecasts
<1>7. BuildBin => UNCHANGED <<tape, clock, cache, file, whole, train, artifact>>
  BY DEF BuildBin
<1>8. ExportSymbol => UNCHANGED <<tape, clock, cache, file, whole, train, artifact>>
  BY DEF ExportSymbol
<1>9. EndExport => UNCHANGED <<tape, clock, cache, file, whole, train, artifact>>
  BY DEF EndExport
<1>10. EndData => UNCHANGED <<tape, clock, cache, file, whole, train, artifact>>
  BY DEF EndData
<1>11. WriteCache => UNCHANGED <<tape, clock, file, whole, train, artifact>>
  BY DEF WriteCache
<1>12. WriteChunk => UNCHANGED <<tape, clock, cache, train, artifact>>
  BY DEF WriteChunk
<1>13. TrainReadsFeatures \/ TrainReadsPrices => UNCHANGED <<tape, clock, cache, file, whole, job>>
  BY DEF TrainReadsFeatures, TrainReadsPrices, TrainReads
<1>14. BuildDataset => UNCHANGED <<tape, clock, cache, file, whole, job>>
  BY DEF BuildDataset
<1>15. SaveModel \/ SaveMetadata \/ KillTrain => UNCHANGED <<tape, clock, cache, file, whole, job>>
  BY DEF SaveModel, SaveMetadata, KillTrain
<1> QED
  BY <1>1, <1>2, <1>3, <1>4, <1>5, <1>6, <1>7, <1>8, <1>9, <1>10, <1>11, <1>12, <1>13, <1>14,
     <1>15 DEF TrainStep

LEMMA ProgramInit == Init => ProgramInv
<1> SUFFICES ASSUME Init PROVE ProgramInv
  OBVIOUS
<1>1. MarketIsSound /\ clock \in Nat
  BY PipelineAssumption DEF Init, MarketIsSound
<1>2. ProgramsAreSound
  <2>1. IsSound(Idle, tape, clock)
    BY <1>1, IdleIsProgram DEF IsSound
  <2> QED
    BY <2>1 DEF Init, ProgramsAreSound
<1>3. FilesAreSound
  BY DEF Init, FilesAreSound
<1>4. TrainingIsSound
  BY DEF Init, TrainingIsSound, NotTrained
<1> QED
  BY <1>1, <1>2, <1>3, <1>4 DEF ProgramInv

LEMMA ProgramNext == ProgramInv /\ [Next]_vars => ProgramInv'
<1> SUFFICES ASSUME ProgramInv, [Next]_vars PROVE ProgramInv'
  OBVIOUS
<1>0. MarketIsSound /\ ProgramsAreSound /\ FilesAreSound /\ TrainingIsSound /\ clock \in Nat
  BY MarketIs DEF ProgramInv
<1>1. CASE Tick
  <2>1. clock' = clock + 1 /\ clock < LastHour /\ UNCHANGED <<tape, cache, file, whole, job, train, artifact>>
    BY <1>1 DEF Tick
  <2>2. MarketIsSound'
    BY <1>0, <2>1, PipelineAssumption DEF MarketIsSound
  <2>3. ProgramsAreSound'
    BY <1>0, <2>1, TimePasses DEF ProgramsAreSound
  <2> QED
    BY <1>0, <2>1, <2>2, <2>3 DEF ProgramInv, FilesAreSound, TrainingIsSound
<1>2. CASE \E j \in Jobs, plan \in {"none", "binance", "dump", "export"}, f \in BOOLEAN :
             Start(j, plan, f)
  <2>1. MarketIsSound' /\ ProgramsAreSound' /\ UNCHANGED <<cache, train, artifact>>
    BY <1>2, StartStep, StepsLeave DEF Plans
  <2> QED
    BY <1>0, <2>1 DEF ProgramInv, FilesAreSound, TrainingIsSound
<1>3. CASE CacheStep \/ DataStep
  <2>1. MarketIsSound' /\ ProgramsAreSound'
    BY <1>3, ProgramStep
  <2>2. UNCHANGED <<train, artifact>>
    BY <1>3, StepsLeave DEF CacheStep, DataStep, Jobs
  <2>3. WriteCache \/ UNCHANGED cache
    BY <1>3, StepsLeave DEF CacheStep, DataStep, Jobs
  <2>4. FilesAreSound'
    <3>1. CASE WriteCache
      BY <3>1, WriteCacheStep
    <3>2. CASE UNCHANGED cache
      BY <1>0, <3>2 DEF FilesAreSound
    <3> QED
      BY <2>3, <3>1, <3>2
  <2> QED
    BY <1>0, <2>1, <2>2, <2>4 DEF ProgramInv, TrainingIsSound
<1>4. CASE TrainReadsFeatures \/ TrainStep \/ KillTrain
  <2>1. UNCHANGED <<tape, clock, cache, job>>
    BY <1>4, StepsLeave
  <2>2. TrainingIsSound'
    BY <1>0, <1>4, TrainingStep
  <2> QED
    BY <1>0, <2>1, <2>2 DEF ProgramInv, MarketIsSound, ProgramsAreSound, FilesAreSound
<1>5. CASE \E j \in Jobs : Kill(j)
  <2>1. MarketIsSound' /\ ProgramsAreSound' /\ UNCHANGED <<cache, train, artifact>>
    <3>1. PICK j \in Jobs : Kill(j)
      BY <1>5
    <3>2. Die(j)
      BY <3>1 DEF Kill
    <3> QED
      BY <3>1, <3>2, DieStep, StepsLeave
  <2> QED
    BY <1>0, <2>1 DEF ProgramInv, FilesAreSound, TrainingIsSound
<1>6. CASE UNCHANGED vars
  BY <1>0, <1>6 DEF ProgramInv, MarketIsSound, ProgramsAreSound, FilesAreSound, TrainingIsSound, vars
<1> QED
  BY <1>1, <1>2, <1>3, <1>4, <1>5, <1>6 DEF Next

\* Whatever the programs do, and whenever they are killed, a program that
\* fetches holds nothing yet of the fetches to come and, of the one that runs,
\* everything that was traded before the cursor; every series has bars of past
\* hours only; and a forecast file that can be read holds forecasts of its own
\* symbol, made of no bar that is later than the forecast's hour.
THEOREM ProgramInvariant == Spec => []ProgramInv
<1>1. Init => ProgramInv
  BY ProgramInit
<1>2. ProgramInv /\ [Next]_vars => ProgramInv'
  BY ProgramNext
<1> QED
  BY <1>1, <1>2, PTL DEF Spec

LEMMA ProgramTypes == ProgramInv => TypeOK
<1> SUFFICES ASSUME ProgramInv PROVE TypeOK
  OBVIOUS
<1>1. tape \in Tapes /\ clock \in FirstHour..LastHour
  BY DEF ProgramInv, MarketIsSound
<1>2. ASSUME NEW j \in Jobs
      PROVE  /\ job[j].pc \in {"idle", "fetch", "join", "export", "write"} \cup Ended
             /\ job[j].plan \in {"none", "binance", "dump", "export"}
             /\ job[j].cursor \in Nat \cup {None} /\ job[j].until \in 0..clock
             /\ \A src \in Sources, s \in Sym : DOMAIN job[j].got[src][s] \subseteq 0..clock
  BY OneFinds DEF IsProgram, IsSeries, Places, Plans
<1>3. ASSUME NEW s \in Sym, NEW h \in ToSet(Horizons), cache[s][h] \notin {None, Failed}
      PROVE  AssertNoLeakage(cache[s][h])
  <2> DEFINE rows == cache[s][h]
  <2>1. rows \in Seq(ForecastRow(s))
    BY <1>3 DEF ProgramInv, FilesAreSound
  <2> HIDE DEF rows
  <2>2. ASSUME NEW r \in ForecastRow(s) PROVE r.context_end <= r.timestamp /\ r.timestamp < r.target
    <3>1. r.context_end = r.timestamp /\ r.timestamp < r.target /\ r.timestamp \in Nat
      BY PipelineAssumption DEF ForecastRow, Hours
    <3> QED
      BY <3>1
  <2>3. AssertNoLeakage(rows)
    BY <2>1, <2>2 DEF AssertNoLeakage
  <2> QED
    BY <2>3 DEF rows
<1>4. /\ train.pc \in {"features", "prices", "dataset", "model", "metadata"} \cup Ended
      /\ artifact \subseteq {"model", "metadata"}
  BY DEF ProgramInv, TrainingIsSound
<1> QED
  BY <1>1, <1>2, <1>3, <1>4 DEF TypeOK

\* Types of the control state; no program ever holds a bar of the future, and
\* every forecast file that can be read passes assert_no_leakage.
THEOREM PipelineTypes == Spec => []TypeOK
  BY ProgramInvariant, ProgramTypes, PTL

\* A step that ends a fetch without ending the program is its last page.
LEMMA PageEndsFetch ==
  ASSUME ProgramInv, [Next]_vars, NEW j \in Jobs, job[j].pc = "fetch", job'[j].pc = "fetch",
         job[j].cursor # None, job'[j].cursor = None
  PROVE  FetchPage(j)
<1>0. job = [k \in Jobs |-> job[k]] /\ job'[j] # job[j] /\ \A k \in Jobs : IsProgram(job[k], clock)
  BY DEF ProgramInv, ProgramsAreSound, IsSound
<1>1. ASSUME NEW k \in Jobs, NEW r, job' = [job EXCEPT ![k] = r]
      PROVE  k = j /\ job'[j] = r
  BY <1>0, <1>1
<1>2. ASSUME NEW k \in Jobs, Die(k) PROVE FALSE
  <2>1. [Idle EXCEPT !.pc = "dead"].pc = "dead"
    BY DEF Idle
  <2> QED
    BY <1>1, <1>2, <2>1 DEF Die
<1>3. ASSUME NEW k \in Jobs, NEW plan, NEW f, Start(k, plan, f) PROVE FALSE
  <2>1. PICK r : job' = [job EXCEPT ![k] = r]
    BY <1>3 DEF Start
  <2> QED
    BY <1>1, <1>3, <2>1 DEF Start
<1>4. ASSUME NEW k \in Jobs, OpenFetch(k) PROVE FALSE
  <2>1. k # j
    BY <1>4 DEF OpenFetch
  <2>2. job'[j] = job[j]
    BY <1>0, <1>4, <2>1 DEF OpenFetch
  <2> QED
    BY <1>0, <2>2
<1>5. ASSUME NEW k \in Jobs, FetchPage(k) PROVE k = j
  BY <1>1, <1>5, FetchPageIs
<1>6. ASSUME BeginCache PROVE FALSE
  <2>1. job'["cache"].pc = "write" /\ \A k \in Jobs : k # "cache" => job'[k] = job[k]
    <3>1. "cache" \in Jobs
      BY DEF Jobs
    <3> QED
      BY <1>0, <1>6, <3>1 DEF BeginCache, IsProgram
  <2> QED
    BY <1>0, <2>1
<1>7. ASSUME WriteCache PROVE FALSE
  <2>1. job["cache"].pc = "write" /\ \A k \in Jobs : k # "cache" => job'[k] = job[k]
    BY <1>0, <1>7 DEF WriteCache, Die
  <2> QED
    BY <1>0, <2>1
<1>8. ASSUME EndCache \/ JoinForecasts \/ ExportSymbol \/ WriteChunk \/ EndData PROVE FALSE
  <2>1. \E k \in Jobs : job[k].pc # "fetch" /\ \A i \in Jobs : i # k => job'[i] = job[i]
    BY <1>0, <1>8 DEF EndCache, JoinForecasts, ExportSymbol, WriteChunk, EndData, Die, Jobs
  <2> QED
    BY <1>0, <2>1
<1>9. ASSUME Align PROVE FALSE
  <2>1. CASE Die("data")
    BY <1>2, <2>1 DEF Jobs
  <2>2. CASE ~Die("data")
    <3>1. job'["data"].pc = "join" /\ \A k \in Jobs : k # "data" => job'[k] = job[k]
      <4>1. "data" \in Jobs
        BY DEF Jobs
      <4> QED
        BY <1>0, <1>9, <2>2, <4>1 DEF Align, IsProgram
    <3> QED
      BY <1>0, <3>1
  <2> QED
    BY <2>1, <2>2
<1>10. ASSUME BuildBin \/ EndExport PROVE FALSE
  <2>1. /\ job["data"].pc # "fetch"
        /\ Die("data") \/ \E names, features, prices : Write(names, features, prices)
    BY <1>10 DEF BuildBin, EndExport
  <2>2. \A k \in Jobs : k # "data" => job'[k] = job[k]
    BY <1>0, <2>1 DEF Write, Die
  <2> QED
    BY <1>0, <2>1, <2>2
<1>11. CASE Tick \/ TrainReadsFeatures \/ TrainStep \/ KillTrain \/ UNCHANGED vars
  <2>1. UNCHANGED job
    BY <1>11, StepsLeave DEF Tick, vars
  <2> QED
    BY <1>0, <2>1
<1>12. ASSUME NEW k \in Jobs, Kill(k) PROVE FALSE
  BY <1>2, <1>12 DEF Kill
<1>13. "cache" \in Jobs /\ "data" \in Jobs
  BY DEF Jobs
<1>14. CASE CacheStep
  BY <1>4, <1>5, <1>6, <1>7, <1>8, <1>13, <1>14 DEF CacheStep
<1>15. CASE DataStep
  BY <1>4, <1>5, <1>8, <1>9, <1>10, <1>13, <1>15 DEF DataStep
<1> QED
  BY <1>3, <1>11, <1>12, <1>14, <1>15 DEF Next

LEMMA FetchEnds ==
  ASSUME ProgramInv, [Next]_vars, NEW j \in Jobs, job[j].pc = "fetch", job'[j].pc = "fetch",
         job[j].cursor # None, job'[j].cursor = None
  PROVE  LET src == Head(job[j].todo)[1]
             s == Head(job[j].todo)[2]
             held == DOMAIN job'[j].got[src][s]
         IN  /\ Offered(src, s) \cap (Since..job[j].until) \subseteq held
             /\ held \subseteq 0..job[j].until
<1> DEFINE r == job[j]
<1>1. FetchPage(j)
  BY PageEndsFetch
<1>2. /\ IsSound(r, tape, clock) /\ MarketIsSound /\ r.pc = "fetch" /\ r.cursor # None
      /\ job' = [job EXCEPT ![j] = AfterPage(r)] /\ job = [k \in Jobs |-> job[k]]
  BY <1>1, FetchPageIs DEF ProgramsAreSound
<1>3. /\ Head(r.todo) = r.todo[1] /\ SourceOf(r) \in Sources /\ NameOf(r) \in Sym
      /\ IsProgram(r, clock)
  BY <1>2, PagingIs DEF Sources, IsSound
<1>4. job'[j] = AfterPage(r)
  BY <1>2
<1> HIDE DEF r
<1>5. AfterPage(r).cursor = NextOf(r) /\ AfterPage(r).got[SourceOf(r)][NameOf(r)] = Fetched(r)
  BY <1>3 DEF AfterPage, IsProgram
<1>6. /\ Offered(SourceOf(r), NameOf(r)) \cap (Since..r.until) \subseteq DOMAIN Fetched(r)
      /\ DOMAIN Fetched(r) \subseteq 0..r.until
  BY <1>2, <1>4, <1>5, PageAdds
<1>7. Head(r.todo)[1] = SourceOf(r) /\ Head(r.todo)[2] = NameOf(r)
  BY <1>3 DEF SourceOf, NameOf
<1> QED
  BY <1>4, <1>5, <1>6, <1>7 DEF r

\* When a paged fetch ends, it holds every bar since the requested hour that
\* the exchange still offers up to the hour in which the fetch began, and none
\* after it, whatever the page limit, the window and the hours without a trade.
THEOREM FetchesAreComplete == Spec => FetchIsComplete
<1>1. ProgramInv /\ [Next]_vars =>
        [\A j \in Jobs :
           (job[j].pc = "fetch" /\ job'[j].pc = "fetch" /\ job[j].cursor # None
                                /\ job'[j].cursor = None) =>
             LET src == Head(job[j].todo)[1]
                 s == Head(job[j].todo)[2]
                 held == DOMAIN job'[j].got[src][s]
             IN  /\ Offered(src, s) \cap (Since..job[j].until) \subseteq held
                 /\ held \subseteq 0..job[j].until]_vars
  BY FetchEnds
<1> QED
  BY <1>1, ProgramInvariant, PTL DEF Spec, FetchIsComplete

-----------------------------------------------------------------------------
(* The market data file.                                                   *)

LEMMA Products ==
  ASSUME NEW m \in Nat, NEW n \in Nat, NEW w \in Nat
  PROVE  /\ m * w \in Nat /\ (m + 1) * w = m * w + w
         /\ m < n => (m + 1) * w <= n * w
         /\ m <= n => m * w <= n * w
OBVIOUS

\* The recursive function of FlattenSeq is defined.
LEMMA FlattenExists ==
  ASSUME NEW q, NEW n \in Nat
  PROVE  \E f : f = [i \in 1..n |-> IF i = 1 THEN q[i] ELSE f[i - 1] \o q[i]]
<1> DEFINE Good(m) == \E f : f = [i \in 1..m |-> IF i = 1 THEN q[i] ELSE f[i - 1] \o q[i]]
           T == {m \in Nat : ~Good(m)}
<1> SUFFICES ASSUME T # {} PROVE FALSE
  OBVIOUS
<1>1. PICK m \in T : \A k \in T : m <= k
  <2>1. T \in SUBSET Nat
    OBVIOUS
  <2> HIDE DEF T
  <2> QED
    BY <2>1, LeastNatural
<1>2. m \in Nat /\ ~Good(m)
  OBVIOUS
<1>3. m # 0
  <2>1. Good(0)
    <3> DEFINE f == [i \in 1..0 |-> q[i]]
    <3>1. f = [i \in 1..0 |-> IF i = 1 THEN q[i] ELSE f[i - 1] \o q[i]]
      OBVIOUS
    <3> HIDE DEF f
    <3> QED
      BY <3>1
  <2> QED
    BY <1>2, <2>1
<1>4. m - 1 \in Nat /\ ~(m <= m - 1)
  BY <1>2, <1>3
<1>5. Good(m - 1)
  <2> HIDE DEF Good
  <2> QED
    BY <1>1, <1>4
<1>6. PICK f : f = [i \in 1..(m - 1) |-> IF i = 1 THEN q[i] ELSE f[i - 1] \o q[i]]
  BY <1>5
<1> DEFINE last == IF m = 1 THEN q[m] ELSE f[m - 1] \o q[m]
           g == [i \in 1..m |-> IF i = m THEN last ELSE f[i]]
<1>7. ASSUME NEW i \in 1..m PROVE g[i] = IF i = 1 THEN q[i] ELSE g[i - 1] \o q[i]
  <2>1. CASE i = m
    <3>1. g[i] = last
      BY <1>7, <2>1
    <3>2. i # 1 => i - 1 \in 1..m /\ i - 1 # m
      BY <1>2, <1>7, <2>1
    <3>3. i # 1 => g[i - 1] = f[m - 1]
      BY <2>1, <3>2
    <3> QED
      BY <2>1, <3>1, <3>3
  <2>2. CASE i # m
    <3>1. i \in 1..(m - 1) /\ (i # 1 => i - 1 \in 1..m /\ i - 1 # m)
      BY <1>2, <1>7, <2>2
    <3>2. g[i] = f[i] /\ (i # 1 => g[i - 1] = f[i - 1])
      BY <1>7, <2>2, <3>1
    <3> QED
      BY <1>6, <3>1, <3>2
  <2> QED
    BY <2>1, <2>2
<1>8. g = [i \in 1..m |-> IF i = 1 THEN q[i] ELSE g[i - 1] \o q[i]]
  <2>1. g = [i \in 1..m |-> g[i]]
    OBVIOUS
  <2> HIDE DEF g
  <2> QED
    BY <1>7, <2>1
<1> QED
  <2> HIDE DEF g
  <2> QED
    BY <1>2, <1>8

\* Sequences of the same length, one after the other.
LEMMA FlattenSeqIs ==
  ASSUME NEW X, NEW q \in Seq(Seq(X)), NEW w \in Nat, \A i \in 1..Len(q) : Len(q[i]) = w
  PROVE  /\ FlattenSeq(q) \in Seq(X) /\ Len(FlattenSeq(q)) = Len(q) * w
         /\ \A i \in 1..Len(q), k \in 1..w : FlattenSeq(q)[(i - 1) * w + k] = q[i][k]
<1> DEFINE f == CHOOSE f : f = [i \in 1..Len(q) |-> IF i = 1 THEN q[i] ELSE f[i - 1] \o q[i]]
           P(m) == /\ f[m] \in Seq(X) /\ Len(f[m]) = m * w
                   /\ \A i \in 1..m, k \in 1..w : f[m][(i - 1) * w + k] = q[i][k]
           T == {m \in 1..Len(q) : ~P(m)}
<1>0. Len(q) \in Nat /\ \A i \in 1..Len(q) : q[i] \in Seq(X)
  OBVIOUS
<1>1. f = [i \in 1..Len(q) |-> IF i = 1 THEN q[i] ELSE f[i - 1] \o q[i]]
  BY <1>0, FlattenExists
<1>2. FlattenSeq(q) = IF Len(q) = 0 THEN q ELSE f[Len(q)]
  BY DEF FlattenSeq
<1> HIDE DEF f
<1>3. \A i \in 1..Len(q) : f[i] = IF i = 1 THEN q[i] ELSE f[i - 1] \o q[i]
  BY <1>1
<1>4. ASSUME T # {} PROVE FALSE
  <2>1. PICK m \in T : \A k \in T : m <= k
    <3>1. T \in SUBSET Nat
      OBVIOUS
    <3> HIDE DEF T
    <3> QED
      BY <1>4, <3>1, LeastNatural
  <2>2. m \in 1..Len(q) /\ ~P(m) /\ m \in Nat /\ q[m] \in Seq(X) /\ Len(q[m]) = w
    <3> HIDE DEF P
    <3> QED
      BY <1>0
  <2>3. CASE m = 1
    <3>1. f[1] = q[1] /\ 1 * w = w /\ 0 * w = 0
      BY <1>3, <2>2, <2>3
    <3>2. \A i \in 1..1, k \in 1..w : i = 1 /\ (i - 1) * w + k = k
      BY <3>1
    <3>3. P(1)
      BY <2>2, <2>3, <3>1, <3>2
    <3> QED
      BY <2>2, <2>3, <3>3
  <2>4. CASE m # 1
    <3> DEFINE l == m - 1
    <3>1. l \in Nat /\ m = l + 1 /\ l \in 1..Len(q) /\ ~(m <= l)
      BY <1>0, <2>2, <2>4
    <3>2. P(l)
      <4> HIDE DEF P, l
      <4> QED
        BY <2>1, <3>1
    <3>3. f[m] = f[l] \o q[m]
      BY <1>3, <2>2, <2>4
    <3> HIDE DEF l
    <3>4. l * w \in Nat /\ m * w = l * w + w
      BY <3>1, Products
    <3>5. /\ f[l] \in Seq(X) /\ Len(f[l]) = l * w
          /\ \A i \in 1..l, k \in 1..w : f[l][(i - 1) * w + k] = q[i][k]
      BY <3>2
    <3>6. /\ f[m] \in Seq(X) /\ Len(f[m]) = l * w + w
          /\ \A i \in 1..(l * w) : f[m][i] = f[l][i]
          /\ \A k \in 1..w : f[m][l * w + k] = q[m][k]
      <4> DEFINE a == f[l]
                 b == q[m]
                 c == l * w
      <4>1. a \in Seq(X) /\ b \in Seq(X) /\ Len(a) = c /\ Len(b) = w /\ f[m] = a \o b
        BY <2>2, <3>3, <3>5
      <4> HIDE DEF a, b, c
      <4>2. /\ f[m] \in Seq(X) /\ Len(f[m]) = c + w
            /\ \A i \in 1..c : f[m][i] = a[i]
            /\ \A k \in 1..w : f[m][c + k] = b[k]
        <5>1. a \in Seq(X) /\ b \in Seq(X)
          BY <4>1
        <5>2. /\ a \o b \in Seq(X) /\ Len(a \o b) = Len(a) + Len(b)
              /\ \A i \in 1..Len(a) : (a \o b)[i] = a[i]
              /\ \A k \in 1..Len(b) : (a \o b)[Len(a) + k] = b[k]
          BY <5>1
        <5> QED
          BY <4>1, <5>2
      <4> QED
        BY <4>2 DEF a, b, c
    <3>7. ASSUME NEW i \in 1..m, NEW k \in 1..w PROVE f[m][(i - 1) * w + k] = q[i][k]
      <4>1. CASE i = m
        <5>1. (i - 1) * w = l * w
          BY <3>1, <4>1
        <5> QED
          BY <3>6, <4>1, <5>1
      <4>2. CASE i # m
        <5> DEFINE j == i - 1
        <5>1. j \in Nat /\ i \in 1..l /\ j < l /\ k \in Nat /\ k > 0 /\ k <= w
          BY <3>1, <4>2
        <5> HIDE DEF j
        <5>2. j * w \in Nat /\ (j + 1) * w = j * w + w /\ (j + 1) * w <= l * w
          BY <3>1, <5>1, Products
        <5>3. j * w + k \in 1..(l * w)
          <6> DEFINE c == l * w
                     d == j * w
          <6>1. c \in Nat /\ d \in Nat /\ d + w <= c
            BY <3>4, <5>2
          <6> HIDE DEF c, d
          <6>2. d + k \in 1..c
            BY <5>1, <6>1
          <6> QED
            BY <6>2 DEF c, d
        <5>4. f[l][(i - 1) * w + k] = q[i][k]
          BY <3>5, <5>1
        <5> QED
          BY <3>6, <5>3, <5>4 DEF j
      <4> QED
        BY <4>1, <4>2
    <3>8. P(m)
      BY <3>4, <3>6, <3>7
    <3> QED
      BY <2>2, <3>8
  <2> QED
    BY <2>3, <2>4
<1>5. CASE Len(q) = 0
  <2>1. FlattenSeq(q) = <<>> /\ 0 * w = 0
    BY <1>2, <1>5
  <2> QED
    BY <1>5, <2>1
<1>6. CASE Len(q) # 0
  <2>1. Len(q) \in 1..Len(q)
    BY <1>0, <1>6
  <2>2. P(Len(q))
    BY <1>4, <2>1
  <2> QED
    BY <1>2, <1>6, <2>2
<1> QED
  BY <1>5, <1>6

\* A sequence as a function.
LEMMA SequenceIs ==
  ASSUME NEW X, NEW n \in Nat, NEW v, v = [i \in 1..n |-> v[i]], \A i \in 1..n : v[i] \in X
  PROVE  v \in Seq(X) /\ Len(v) = n
<1>1. [i \in 1..n |-> v[i]] \in Seq(X) /\ Len([i \in 1..n |-> v[i]]) = n
  OBVIOUS
<1> QED
  BY <1>1

\* nt rows of ns entries of per words.
IsBlock(rows, nt, ns, per) ==
  rows = [t \in 1..nt |-> [i \in 1..ns |-> [k \in 1..per |-> rows[t][i][k]]]]
Cells(rows, nt, ns, per) == {rows[t][i][k] : t \in 1..nt, i \in 1..ns, k \in 1..per}

LEMMA BlockIs ==
  ASSUME NEW nt \in Nat, NEW ns \in Nat, NEW per \in Nat, NEW rows, IsBlock(rows, nt, ns, per)
  PROVE  /\ DOMAIN rows = 1..nt
         /\ \A t \in 1..nt : rows[t] \in Seq(Seq(Cells(rows, nt, ns, per))) /\ Len(rows[t]) = ns
         /\ \A t \in 1..nt, i \in 1..ns : /\ rows[t][i] \in Seq(Cells(rows, nt, ns, per))
                                          /\ Len(rows[t][i]) = per
<1> DEFINE X == Cells(rows, nt, ns, per)
           cell(t, i, k) == rows[t][i][k]
<1>1. DOMAIN rows = 1..nt /\ \A t \in 1..nt : rows[t] = [i \in 1..ns |-> [k \in 1..per |-> cell(t, i, k)]]
  BY DEF IsBlock
<1>2. \A t \in 1..nt, i \in 1..ns, k \in 1..per : cell(t, i, k) \in X
  BY DEF Cells
<1> HIDE DEF X, cell
<1>3. \A t \in 1..nt, i \in 1..ns : [k \in 1..per |-> cell(t, i, k)] \in Seq(X)
                                    /\ Len([k \in 1..per |-> cell(t, i, k)]) = per
  BY <1>2
<1>4. \A t \in 1..nt, i \in 1..ns : rows[t][i] \in Seq(X) /\ Len(rows[t][i]) = per
  BY <1>1, <1>3
<1>5. \A t \in 1..nt : DOMAIN rows[t] = 1..ns /\ rows[t] = [i \in 1..ns |-> rows[t][i]]
  BY <1>1
<1>6. ASSUME NEW t \in 1..nt PROVE rows[t] \in Seq(Seq(X)) /\ Len(rows[t]) = ns
  <2> DEFINE v == rows[t]
  <2>1. v = [i \in 1..ns |-> v[i]] /\ \A i \in 1..ns : v[i] \in Seq(X)
    BY <1>4, <1>5
  <2> HIDE DEF v
  <2>2. v \in Seq(Seq(X)) /\ Len(v) = ns
    BY <2>1, SequenceIs
  <2> QED
    BY <2>2 DEF v
<1> QED
  BY <1>1, <1>4, <1>6 DEF X

\* How many words there are, and where a word of a block stands.
Size(nt, ns, per) == nt * ns * per
Place(ns, per, t, i) == ((t - 1) * ns + i - 1) * per

LEMMA FlattenIs ==
  ASSUME NEW nt \in Nat, NEW ns \in Nat, NEW per \in Nat, NEW rows, IsBlock(rows, nt, ns, per)
  PROVE  /\ Flatten(rows) \in Seq(Cells(rows, nt, ns, per))
         /\ Size(nt, ns, per) \in Nat /\ Len(Flatten(rows)) = Size(nt, ns, per)
         /\ \A t \in 1..nt, i \in 1..ns, k \in 1..per :
              Flatten(rows)[Place(ns, per, t, i) + k] = rows[t][i][k]
<1> DEFINE X == Cells(rows, nt, ns, per)
           flat(t) == FlattenSeq(rows[t])
           q == [t \in 1..nt |-> flat(t)]
           w == ns * per
<1>1. /\ DOMAIN rows = 1..nt
      /\ \A t \in 1..nt : rows[t] \in Seq(Seq(X)) /\ Len(rows[t]) = ns
      /\ \A t \in 1..nt, i \in 1..ns : Len(rows[t][i]) = per
  BY BlockIs
<1>2. Flatten(rows) = FlattenSeq(q)
  BY <1>1 DEF Flatten
<1> HIDE DEF X
<1>3. \A t \in 1..nt : /\ flat(t) \in Seq(X) /\ Len(flat(t)) = w
                       /\ \A i \in 1..ns, k \in 1..per : flat(t)[(i - 1) * per + k] = rows[t][i][k]
  <2> TAKE t \in 1..nt
  <2> DEFINE v == rows[t]
  <2>1. v \in Seq(Seq(X)) /\ Len(v) = ns /\ \A i \in 1..Len(v) : Len(v[i]) = per
    BY <1>1
  <2> HIDE DEF v
  <2>2. /\ FlattenSeq(v) \in Seq(X) /\ Len(FlattenSeq(v)) = Len(v) * per
        /\ \A i \in 1..Len(v), k \in 1..per : FlattenSeq(v)[(i - 1) * per + k] = v[i][k]
    BY <2>1, FlattenSeqIs
  <2> QED
    BY <2>1, <2>2 DEF v
<1> HIDE DEF flat
<1>4. w \in Nat
  BY Products
<1> HIDE DEF w
<1>5. q \in Seq(Seq(X)) /\ Len(q) = nt /\ \A t \in 1..nt : q[t] = flat(t) /\ Len(q[t]) = w
  BY <1>3
<1> HIDE DEF q
<1>6. /\ FlattenSeq(q) \in Seq(X) /\ Len(FlattenSeq(q)) = nt * w
      /\ \A t \in 1..nt, p \in 1..w : FlattenSeq(q)[(t - 1) * w + p] = q[t][p]
  <2>1. q \in Seq(Seq(X)) /\ w \in Nat /\ \A t \in 1..Len(q) : Len(q[t]) = w
    BY <1>4, <1>5
  <2>2. /\ FlattenSeq(q) \in Seq(X) /\ Len(FlattenSeq(q)) = Len(q) * w
        /\ \A t \in 1..Len(q), p \in 1..w : FlattenSeq(q)[(t - 1) * w + p] = q[t][p]
    BY <2>1, FlattenSeqIs
  <2> QED
    BY <1>5, <2>2
<1>7. nt * w = nt * ns * per
  BY DEF w
<1>8. ASSUME NEW t \in 1..nt, NEW i \in 1..ns, NEW k \in 1..per
      PROVE  Flatten(rows)[Place(ns, per, t, i) + k] = rows[t][i][k]
  <2> DEFINE p == (i - 1) * per + k
  <2>1. p \in 1..w
    <3> DEFINE m == i - 1
    <3>1. m \in Nat /\ m < ns /\ k \in Nat /\ 0 < k /\ k <= per
      OBVIOUS
    <3> HIDE DEF m
    <3>2. m * per \in Nat /\ m * per + per <= ns * per
      BY <3>1, Products
    <3>3. m * per + k \in 1..w
      <4> DEFINE d == m * per
      <4>1. d \in Nat /\ d + per <= w
        BY <3>2 DEF w
      <4> HIDE DEF d
      <4>2. d + k \in 1..w
        BY <1>4, <3>1, <4>1
      <4> QED
        BY <4>2 DEF d
    <3> QED
      BY <3>3 DEF m
  <2>2. FlattenSeq(q)[(t - 1) * w + p] = rows[t][i][k]
    <3>1. flat(t)[p] = rows[t][i][k]
      BY <1>3
    <3> HIDE DEF p
    <3> QED
      BY <1>5, <1>6, <2>1, <3>1
  <2>3. (t - 1) * w + p = ((t - 1) * ns + i - 1) * per + k
    <3> DEFINE m == t - 1
               n == i - 1
    <3>1. m \in Nat /\ n \in Nat /\ m * ns \in Nat /\ i = n + 1 /\ k \in Nat
      BY Products
    <3> HIDE DEF m, n
    <3>2. m * w = (m * ns) * per
      BY <3>1 DEF w
    <3>3. m * ns + i - 1 = m * ns + n
      BY <3>1
    <3>4. (m * ns + n) * per = (m * ns) * per + n * per
      BY <3>1
    <3>5. m * w + (n * per + k) = (m * ns + i - 1) * per + k
      <4>1. (m * ns) * per \in Nat /\ n * per \in Nat
        BY <3>1, Products
      <4> QED
        BY <3>1, <3>2, <3>3, <3>4, <4>1
    <3> QED
      BY <3>5 DEF m, n
  <2> QED
    BY <1>2, <2>2, <2>3 DEF Place
<1>9. nt * w \in Nat
  BY <1>4, Products
<1> QED
  BY <1>2, <1>6, <1>7, <1>8, <1>9 DEF X, Size

\* A reader finds the block whose words begin at the offset.
StandsAt(words, offset, block) ==
  /\ offset + Len(block) <= Len(words)
  /\ \A p \in 1..Len(block) : words[offset + p] = block[p]

LEMMA ReadBlockIs ==
  ASSUME NEW X, NEW words \in Seq(X), NEW offset \in Nat,
         NEW nt \in Nat, NEW ns \in Nat, NEW per \in Nat \ {0}, NEW rows, IsBlock(rows, nt, ns, per),
         StandsAt(words, offset, Flatten(rows))
  PROVE  ReadBlock(words, offset, nt, ns, per) = {rows}
<1> DEFINE place(t, i) == offset + ((t - 1) * ns + i - 1) * per
           entry(t, i) == SubSeq(words, place(t, i) + 1, place(t, i) + per)
<1>0. /\ offset + Size(nt, ns, per) <= Len(words)
      /\ \A p \in 1..Size(nt, ns, per) : words[offset + p] = Flatten(rows)[p]
  <2>1. Len(Flatten(rows)) = Size(nt, ns, per)
    BY FlattenIs
  <2> QED
    BY <2>1 DEF StandsAt
<1>1. nt * ns \in Nat /\ nt * ns * per \in Nat
  BY Products
<1>2. ASSUME NEW t \in 1..nt, NEW i \in 1..ns PROVE entry(t, i) = rows[t][i]
  <2> DEFINE c == nt * ns
             m == t - 1
             a == m * ns + i - 1
             at == a * per
  <2>1. m \in Nat /\ m < nt /\ i \in Nat /\ 0 < i /\ i <= ns
    OBVIOUS
  <2> HIDE DEF m
  <2>2. m * ns \in Nat /\ m * ns + ns <= c
    BY <2>1, Products
  <2>3. a \in Nat /\ a < c /\ c \in Nat
    <3> DEFINE d == m * ns
    <3>1. d \in Nat /\ d + ns <= c /\ c \in Nat
      BY <1>1, <2>2
    <3> HIDE DEF c, d
    <3>2. d + i - 1 \in Nat /\ d + i - 1 < c
      BY <2>1, <3>1
    <3> QED
      BY <3>1, <3>2 DEF d
  <2> HIDE DEF a, c
  <2>4. at \in Nat /\ at + per <= c * per
    BY <2>3, Products
  <2>5. place(t, i) = offset + at
    BY DEF a, m
  <2>6. /\ \A p \in 1..(c * per) : words[offset + p] = Flatten(rows)[p]
        /\ offset + c * per <= Len(words) /\ c * per \in Nat
    BY <1>0, <1>1 DEF c, Size
  <2>7. \A k \in 1..per : Flatten(rows)[at + k] = rows[t][i][k]
    <3>1. at = Place(ns, per, t, i)
      BY DEF a, m, Place
    <3>2. \A x \in 1..nt, y \in 1..ns, k \in 1..per :
            Flatten(rows)[Place(ns, per, x, y) + k] = rows[x][y][k]
      BY FlattenIs
    <3> HIDE DEF at
    <3> QED
      BY <3>1, <3>2
  <2> DEFINE all == c * per
             u == offset + at + 1
             v == offset + at + per
  <2> HIDE DEF at, all
  <2>8. \A k \in 1..per : words[offset + at + k] = rows[t][i][k]
    <3> TAKE k \in 1..per
    <3>1. at + k \in 1..all
      BY <2>4, <2>6 DEF all
    <3>2. words[offset + (at + k)] = rows[t][i][k]
      BY <2>6, <2>7, <3>1 DEF all
    <3> QED
      BY <2>4, <3>2
  <2>9. u \in 1..Len(words) /\ v \in 1..Len(words) /\ v - u + 1 = per
        /\ \A k \in 1..per : u + k - 1 = offset + at + k
    <3>1. all \in Nat /\ at \in Nat /\ at + per <= all /\ offset + all <= Len(words)
          /\ Len(words) \in Nat
      BY <2>4, <2>6 DEF all
    <3> QED
      BY <3>1
  <2> HIDE DEF u, v
  <2>10. /\ SubSeq(words, u, v) \in Seq(X) /\ Len(SubSeq(words, u, v)) = per
         /\ \A k \in 1..per : SubSeq(words, u, v)[k] = words[u + k - 1]
    BY <2>9
  <2>11. \A k \in 1..per : SubSeq(words, u, v)[k] = rows[t][i][k]
    BY <2>8, <2>9, <2>10
  <2>12. SubSeq(words, u, v) = rows[t][i]
    <3>1. rows[t][i] = [k \in 1..per |-> rows[t][i][k]]
      BY DEF IsBlock
    <3> DEFINE e == rows[t][i]
               f == SubSeq(words, u, v)
    <3>2. /\ f \in Seq(X) /\ Len(f) = per /\ \A k \in 1..per : f[k] = e[k]
          /\ e = [k \in 1..per |-> e[k]]
      BY <2>10, <2>11, <3>1
    <3> HIDE DEF e, f
    <3>3. f = [k \in 1..per |-> f[k]]
      BY <3>2
    <3>4. f = e
      BY <3>2, <3>3
    <3> QED
      BY <3>4 DEF e, f
  <2>13. u = place(t, i) + 1 /\ v = place(t, i) + per
    BY <2>5 DEF u, v
  <2> QED
    BY <2>12, <2>13
<1>3. ReadBlock(words, offset, nt, ns, per) =
        IF Len(words) < offset + nt * ns * per THEN {}
        ELSE {[t \in 1..nt |-> [i \in 1..ns |-> entry(t, i)]]}
  BY DEF ReadBlock
<1>4. ~(Len(words) < offset + nt * ns * per)
  <2> DEFINE c == nt * ns * per
  <2>1. c \in Nat /\ offset + c <= Len(words)
    BY <1>0, <1>1 DEF Size
  <2> HIDE DEF c
  <2>2. ~(Len(words) < offset + c)
    BY <2>1
  <2> QED
    BY <2>2 DEF c
<1> HIDE DEF entry
<1>5. [t \in 1..nt |-> [i \in 1..ns |-> entry(t, i)]] = [t \in 1..nt |-> [i \in 1..ns |-> rows[t][i]]]
  BY <1>2
<1>6. rows = [t \in 1..nt |-> [i \in 1..ns |-> rows[t][i]]]
  <2> DEFINE cell(t, i) == [k \in 1..per |-> rows[t][i][k]]
  <2>1. rows = [t \in 1..nt |-> [i \in 1..ns |-> cell(t, i)]]
    BY DEF IsBlock
  <2> HIDE DEF cell
  <2>2. \A t \in 1..nt, i \in 1..ns : rows[t][i] = cell(t, i)
    BY <2>1
  <2>3. [t \in 1..nt |-> [i \in 1..ns |-> rows[t][i]]] = [t \in 1..nt |-> [i \in 1..ns |-> cell(t, i)]]
    BY <2>2
  <2> QED
    BY <2>1, <2>3
<1> QED
  BY <1>3, <1>4, <1>5, <1>6

\* The header comes back, and so does what stands behind it.
WithHeader(names, nt, fps, rest) == (<<Len(names), nt, fps>> \o names) \o rest

LEMMA HeaderIs ==
  ASSUME NEW X, NEW names \in Seq(X), NEW nt \in Nat, NEW fps \in Nat, NEW rest \in Seq(X),
         Nat \subseteq X
  PROVE  LET words == WithHeader(names, nt, fps, rest) IN
         /\ words \in Seq(X) /\ StandsAt(words, HeaderSize + Len(names), rest)
         /\ ReadHeader(words) = {[ns |-> Len(names), nt |-> nt, fps |-> fps]}
         /\ ReadSymbols(words) = {names}
<1> DEFINE ns == Len(names)
           head == <<ns, nt, fps>>
           top == head \o names
           words == top \o rest
<1>1. ns \in Nat /\ head \in Seq(X) /\ Len(head) = 3 /\ head[1] = ns /\ head[2] = nt /\ head[3] = fps
  OBVIOUS
<1> HIDE DEF head, ns
<1>2. /\ top \in Seq(X) /\ Len(top) = 3 + Len(names)
      /\ \A p \in 1..3 : top[p] = head[p]
      /\ \A p \in 1..Len(names) : top[3 + p] = names[p]
  <2>1. /\ top \in Seq(X) /\ Len(top) = Len(head) + Len(names)
        /\ \A p \in 1..Len(head) : top[p] = head[p]
        /\ \A p \in 1..Len(names) : top[Len(head) + p] = names[p]
    <3>1. head \in Seq(X) /\ names \in Seq(X)
      BY <1>1
    <3> QED
      BY <3>1
  <2> QED
    BY <1>1, <2>1
<1>3. words = WithHeader(names, nt, fps, rest) /\ Len(names) = ns
  BY DEF top, head, ns, WithHeader
<1> HIDE DEF top
<1>4. /\ words \in Seq(X) /\ Len(words) = Len(top) + Len(rest)
      /\ \A p \in 1..Len(top) : words[p] = top[p]
      /\ \A p \in 1..Len(rest) : words[Len(top) + p] = rest[p]
  <2>1. top \in Seq(X) /\ rest \in Seq(X)
    BY <1>2
  <2> QED
    BY <2>1
<1> HIDE DEF words
<1>5. /\ words \in Seq(X) /\ Len(words) = 3 + ns + Len(rest) /\ Len(rest) \in Nat
      /\ words[1] = ns /\ words[2] = nt /\ words[3] = fps
      /\ \A p \in 1..ns : words[3 + p] = names[p]
      /\ \A p \in 1..Len(rest) : words[3 + ns + p] = rest[p]
  <2>1. 1 \in 1..3 /\ 2 \in 1..3 /\ 3 \in 1..3 /\ 1..3 \subseteq 1..(3 + ns)
        /\ \A p \in 1..ns : 3 + p \in 1..(3 + ns)
    BY <1>1
  <2> QED
    <3>1. \A p \in 1..(3 + ns) : words[p] = top[p]
      BY <1>2, <1>3, <1>4
    <3>2. Len(rest) \in Nat
      OBVIOUS
    <3>3. words[1] = ns /\ words[2] = nt /\ words[3] = fps
      BY <1>1, <1>2, <2>1, <3>1
    <3>4. \A p \in 1..ns : words[3 + p] = names[p]
      BY <1>2, <1>3, <2>1, <3>1
    <3> QED
      BY <1>2, <1>3, <1>4, <3>2, <3>3, <3>4
<1>6. ReadHeader(words) = {[ns |-> ns, nt |-> nt, fps |-> fps]}
  <2>1. ~(Len(words) < HeaderSize)
    BY <1>1, <1>5 DEF HeaderSize
  <2> QED
    BY <1>5, <2>1 DEF ReadHeader
<1>7. SubSeq(words, 3 + 1, 3 + ns) = names
  <2> DEFINE v == SubSeq(words, 3 + 1, 3 + ns)
  <2>1. v \in Seq(X) /\ Len(v) = ns /\ \A p \in 1..ns : v[p] = words[3 + p]
    <3>1. CASE ns = 0
      BY <1>5, <3>1
    <3>2. CASE ns # 0
      <4>1. 3 + 1 <= 3 + ns /\ 3 + 1 \in 1..Len(words) /\ 3 + ns \in 1..Len(words)
            /\ 3 + ns - (3 + 1) + 1 = ns /\ \A p \in 1..ns : 3 + 1 + p - 1 = 3 + p
        BY <1>1, <1>5, <3>2
      <4>2. v \in Seq(X) /\ Len(v) = ns /\ \A p \in 1..ns : v[p] = words[3 + 1 + p - 1]
        BY <1>1, <1>5, <4>1
      <4> QED
        BY <4>1, <4>2
    <3> QED
      BY <3>1, <3>2
  <2> HIDE DEF v
  <2>2. \A p \in 1..ns : v[p] = names[p]
    BY <1>5, <2>1
  <2>3. v = names
    BY <1>3, <2>1, <2>2
  <2> QED
    BY <2>3 DEF v
<1>8. ReadSymbols(words) = {names}
  <2>1. ReadSymbols(words) = {SubSeq(words, 3 + 1, 3 + h.ns) : h \in ReadHeader(words)}
    BY DEF ReadSymbols, HeaderSize
  <2> DEFINE h == [ns |-> ns, nt |-> nt, fps |-> fps]
             sub(g) == SubSeq(words, 3 + 1, 3 + g.ns)
  <2>2. sub(h) = names /\ ReadHeader(words) = {h}
    BY <1>6, <1>7
  <2> HIDE DEF h, sub
  <2>3. {sub(g) : g \in {h}} = {names}
    BY <2>2
  <2> QED
    BY <2>1, <2>2, <2>3 DEF sub
<1>9. StandsAt(words, HeaderSize + ns, rest)
  BY <1>1, <1>5 DEF HeaderSize, StandsAt
<1> QED
  BY <1>3, <1>5, <1>6, <1>8, <1>9

LEMMA PriceWords == PriceFeatures = 3
  BY PipelineAssumption DEF Price, ZeroBar

\* What the readers find in a file that is complete.
ReadsAs(words, names, features, prices) ==
  /\ ReadHeader(words) # {}
  /\ \A h \in ReadHeader(words) : h.ns = Len(names) /\ h.nt = Len(prices)
  /\ ReadSymbols(words) = {names}
  /\ ReadFeatures(words) = {features} /\ ReadPrices(words) = {prices}

LEMMA FileIs ==
  ASSUME NEW names \in Seq(Sym), NEW nt \in Nat, NEW fps \in Nat \ {0}, NEW features, NEW prices,
         IsBlock(features, nt, Len(names), fps), IsBlock(prices, nt, Len(names), PriceFeatures),
         NEW w, w = MarketBin(names, features, prices, fps)
  PROVE  ReadsAs((w[1] \o w[2]) \o w[3], names, features, prices)
<1> DEFINE ns == Len(names)
           F == Cells(features, nt, ns, fps)
           P == Cells(prices, nt, ns, PriceFeatures)
           X == Sym \cup Nat \cup F \cup P
           f == Flatten(features)
           p == Flatten(prices)
           top == <<ns, nt, fps>> \o names
           lf == Size(nt, ns, fps)
           lp == Size(nt, ns, PriceFeatures)
           from == HeaderSize + ns
           words == (top \o f) \o p
<1>1. PriceFeatures \in Nat \ {0} /\ ns \in Nat /\ ns = Len(names)
      /\ IsBlock(features, nt, ns, fps) /\ IsBlock(prices, nt, ns, PriceFeatures)
  BY PriceWords
<1>2. f \in Seq(F) /\ Len(f) = lf /\ p \in Seq(P) /\ Len(p) = lp
  <2> HIDE DEF ns
  <2>1. f \in Seq(F) /\ Len(f) = lf
    BY <1>1, FlattenIs
  <2>2. p \in Seq(P) /\ Len(p) = lp
    BY <1>1, FlattenIs
  <2> QED
    BY <2>1, <2>2
<1>3. w[1] = top /\ w[2] = f /\ w[3] = p /\ Len(prices) = nt
  <2>1. Len(prices) = nt
    <3>1. DOMAIN prices = 1..nt
      BY <1>1, BlockIs
    <3>2. prices = [t \in 1..nt |-> prices[t]]
      BY DEF IsBlock
    <3>3. Len([t \in 1..nt |-> prices[t]]) = nt
      OBVIOUS
    <3> QED
      BY <3>2, <3>3
  <2> HIDE DEF f, p
  <2>2. MarketBin(names, features, prices, fps) = <<top, f, p>>
    BY <2>1 DEF MarketBin, f, p
  <2> QED
    BY <2>1, <2>2
<1>4. lf \in Nat /\ lp \in Nat
  BY <1>1, FlattenIs
<1>5. f \in Seq(X) /\ p \in Seq(X) /\ names \in Seq(X) /\ Nat \subseteq X /\ top \in Seq(X)
  <2>1. F \subseteq X /\ P \subseteq X /\ Sym \subseteq X /\ Nat \subseteq X
    OBVIOUS
  <2> HIDE DEF F, P, X, f, p
  <2>2. f \in Seq(X) /\ p \in Seq(X) /\ names \in Seq(X)
    BY <1>2, <2>1
  <2>3. <<ns, nt, fps>> \in Seq(X)
    BY <1>1, <2>1
  <2> QED
    BY <2>1, <2>2, <2>3
<1> HIDE DEF F, P, X, f, p
<1>6. words = top \o (f \o p)
  <2>1. top \in Seq(X) /\ f \in Seq(X) /\ p \in Seq(X)
    BY <1>5
  <2> HIDE DEF top
  <2> QED
    BY <2>1, SMTT(30)
<1>7. f \o p \in Seq(X) /\ Len(f \o p) = lf + lp
      /\ (\A i \in 1..lf : (f \o p)[i] = f[i]) /\ \A i \in 1..lp : (f \o p)[lf + i] = p[i]
  <2>1. f \o p \in Seq(X) /\ Len(f \o p) = Len(f) + Len(p)
        /\ (\A i \in 1..Len(f) : (f \o p)[i] = f[i]) /\ \A i \in 1..Len(p) : (f \o p)[Len(f) + i] = p[i]
    <3>1. f \in Seq(X) /\ p \in Seq(X)
      BY <1>5
    <3> QED
      BY <3>1
  <2> HIDE DEF lf, lp
  <2> QED
    BY <1>2, <2>1
<1>8. /\ words \in Seq(X) /\ StandsAt(words, from, f \o p)
      /\ ReadHeader(words) = {[ns |-> ns, nt |-> nt, fps |-> fps]}
      /\ ReadSymbols(words) = {names}
  <2> DEFINE rest == f \o p
             all == WithHeader(names, nt, fps, rest)
  <2>1. rest \in Seq(X) /\ Len(rest) = lf + lp /\ words = all
    BY <1>6, <1>7 DEF WithHeader
  <2> HIDE DEF rest, lf, lp, words
  <2>2. /\ all \in Seq(X) /\ StandsAt(all, HeaderSize + Len(names), rest)
        /\ ReadHeader(all) = {[ns |-> Len(names), nt |-> nt, fps |-> fps]}
        /\ ReadSymbols(all) = {names}
    <3>1. names \in Seq(X) /\ rest \in Seq(X) /\ Nat \subseteq X /\ fps \in Nat
      BY <1>5, <2>1
    <3> QED
      BY <3>1, HeaderIs
  <2> HIDE DEF all
  <2> QED
    BY <2>1, <2>2 DEF rest
<1> HIDE DEF words
<1> DEFINE h == [ns |-> ns, nt |-> nt, fps |-> fps]
<1>9. ReadFeatures(words) = ReadBlock(words, from, nt, ns, fps)
      /\ ReadPrices(words) = ReadBlock(words, from + lf, nt, ns, PriceFeatures)
  BY <1>8 DEF ReadFeatures, ReadPrices, Size
<1>10. from \in Nat /\ from + lf \in Nat
  BY <1>1, <1>4 DEF HeaderSize
<1>11. StandsAt(words, from, f) /\ StandsAt(words, from + lf, p)
  <2> HIDE DEF lf, lp, from
  <2>1. /\ \A i \in 1..lf : i \in 1..(lf + lp)
        /\ \A i \in 1..lp : lf + i \in 1..(lf + lp) /\ from + (lf + i) = from + lf + i
    BY <1>4, <1>10
  <2>2. /\ from + (lf + lp) <= Len(words) /\ Len(words) \in Nat
        /\ \A i \in 1..(lf + lp) : words[from + i] = (f \o p)[i]
    BY <1>7, <1>8 DEF StandsAt
  <2>3. from + lf <= Len(words) /\ (from + lf) + lp <= Len(words)
    BY <1>4, <1>10, <2>2
  <2>4. \A i \in 1..lf : words[from + i] = f[i]
    BY <1>7, <2>1, <2>2
  <2>5. \A i \in 1..lp : words[from + lf + i] = p[i]
    <3> TAKE i \in 1..lp
    <3>1. words[from + (lf + i)] = (f \o p)[lf + i]
      BY <2>1, <2>2
    <3> QED
      BY <1>7, <2>1, <3>1
  <2> QED
    BY <1>2, <2>3, <2>4, <2>5 DEF StandsAt
<1>12. ReadBlock(words, from, nt, ns, fps) = {features}
       /\ ReadBlock(words, from + lf, nt, ns, PriceFeatures) = {prices}
  <2> DEFINE to == from + lf
  <2>1. words \in Seq(X) /\ from \in Nat /\ to \in Nat
        /\ StandsAt(words, from, Flatten(features)) /\ StandsAt(words, to, Flatten(prices))
    BY <1>8, <1>10, <1>11 DEF f, p
  <2> HIDE DEF ns, from, to
  <2>2. ReadBlock(words, from, nt, ns, fps) = {features}
    BY <1>1, <2>1, ReadBlockIs
  <2>3. ReadBlock(words, to, nt, ns, PriceFeatures) = {prices}
    BY <1>1, <2>1, ReadBlockIs
  <2> QED
    BY <2>2, <2>3 DEF to
<1>13. ReadHeader(words) # {} /\ \A g \in ReadHeader(words) : g.ns = ns /\ g.nt = nt
  BY <1>8
<1> QED
  BY <1>3, <1>8, <1>9, <1>11, <1>12, <1>13 DEF words, ReadsAs

-----------------------------------------------------------------------------
(* The grid.                                                               *)

\* What a row of the grid should be.
Earlier(bars, first, h) == {x \in first..h : x \in DOMAIN bars}
Filled(bars, first, h) ==
  IF h \in DOMAIN bars THEN bars[h]
  ELSE IF Earlier(bars, first, h) = {} THEN ZeroBar
  ELSE FlatBar(bars[Max(Earlier(bars, first, h))].close)

\* A bar of an exchange is not a row of zeros, and neither is one carried flat.
LEMMA BarsAreNotZero ==
  /\ \A b \in Bar : b # ZeroBar
  /\ \A c : FlatBar(c).close = c /\ (c # 0 => FlatBar(c) # ZeroBar)
<1>1. \A b \in Bar : b # ZeroBar
  BY DEF Bar, ZeroBar
<1>2. ASSUME NEW c PROVE FlatBar(c).close = c /\ (c # 0 => FlatBar(c) # ZeroBar)
  <2>1. FlatBar(c).close = c /\ ZeroBar.close = 0
    BY DEF FlatBar, ZeroBar
  <2> QED
    BY <2>1
<1> QED
  BY <1>1, <1>2

LEMMA EarlierIs ==
  ASSUME NEW bars, NEW T, IsSeries(bars, T), NEW first \in Nat, NEW h \in Nat
  PROVE  /\ IsFiniteSet(Earlier(bars, first, h)) /\ Earlier(bars, first, h) \in SUBSET Int
         /\ Earlier(bars, first, h) # {} =>
              /\ Max(Earlier(bars, first, h)) \in Earlier(bars, first, h)
              /\ \A x \in Earlier(bars, first, h) : x <= Max(Earlier(bars, first, h))
<1>1. IsFiniteSet(first..h) /\ first..h \in SUBSET Int
  BY FS_Interval
<1>2. Earlier(bars, first, h) \subseteq first..h
  BY DEF Earlier
<1>3. IsFiniteSet(Earlier(bars, first, h)) /\ Earlier(bars, first, h) \in SUBSET Int
  BY <1>1, <1>2, FS_Subset
<1> QED
  BY <1>3, MaxExists

\* One more row of the grid follows from the row before.
LEMMA FilledGoesOn ==
  ASSUME NEW bars, NEW T, IsSeries(bars, T), NEW first \in Nat, NEW h \in Nat, first <= h
  PROVE  Filled(bars, first, h) =
           IF h \in DOMAIN bars THEN bars[h]
           ELSE IF h > first /\ Filled(bars, first, h - 1) # ZeroBar
                THEN FlatBar(Filled(bars, first, h - 1).close)
           ELSE ZeroBar
<1> DEFINE E(x) == Earlier(bars, first, x)
           F(x) == Filled(bars, first, x)
<1>1. CASE h \in DOMAIN bars
  BY <1>1 DEF Filled
<1>2. CASE h \notin DOMAIN bars /\ h = first
  <2>1. E(h) = {}
    BY <1>2 DEF Earlier
  <2> QED
    BY <1>2, <2>1 DEF Filled
<1>3. CASE h \notin DOMAIN bars /\ h # first
  <2> DEFINE g == h - 1
  <2>0. g \in Nat /\ first <= g /\ h > first
    BY <1>3
  <2>1. E(h) = E(g)
    BY <1>3, <2>0 DEF Earlier
  <2> HIDE DEF g
  <2>2. \A b \in DOMAIN bars : bars[b] \in Bar /\ bars[b].close # 0
    BY DEF IsSeries, Bar
  <2>3. CASE g \in DOMAIN bars
    <3>1. g \in E(g) /\ E(g) # {}
      BY <2>0, <2>3 DEF Earlier
    <3>2. Max(E(g)) = g
      <4>1. Max(E(g)) \in E(g) /\ g <= Max(E(g))
        BY <2>0, <3>1, EarlierIs
      <4>2. Max(E(g)) \in Int /\ Max(E(g)) <= g
        BY <2>0, <4>1 DEF Earlier
      <4> QED
        BY <2>0, <4>1, <4>2
    <3>3. F(g) = bars[g] /\ F(g) # ZeroBar
      BY <2>2, <2>3, BarsAreNotZero DEF Filled
    <3>4. F(h) = FlatBar(bars[g].close)
      BY <1>3, <2>1, <3>1, <3>2 DEF Filled
    <3> QED
      BY <1>3, <2>0, <3>3, <3>4 DEF g
  <2>4. CASE g \notin DOMAIN bars /\ E(g) = {}
    <3>1. F(g) = ZeroBar
      BY <2>4 DEF Filled
    <3>2. F(h) = ZeroBar
      BY <1>3, <2>1, <2>4 DEF Filled
    <3> QED
      BY <1>3, <2>0, <3>1, <3>2 DEF g
  <2>5. CASE g \notin DOMAIN bars /\ E(g) # {}
    <3> DEFINE c == bars[Max(E(g))].close
    <3>1. c # 0
      <4>1. Max(E(g)) \in DOMAIN bars
        BY <2>0, <2>5, EarlierIs DEF Earlier
      <4> QED
        BY <2>2, <4>1
    <3>2. F(g) = FlatBar(c)
      BY <2>5 DEF Filled
    <3>3. F(h) = FlatBar(c)
      BY <1>3, <2>1, <2>5 DEF Filled
    <3> HIDE DEF c
    <3>4. F(g).close = c /\ F(g) # ZeroBar
      BY <3>1, <3>2, BarsAreNotZero
    <3> QED
      BY <1>3, <2>0, <3>3, <3>4 DEF g
  <2> QED
    BY <2>3, <2>4, <2>5
<1> QED
  BY <1>1, <1>2, <1>3

\* A column of the grid: recursion carries a row on, and nothing else.
IsColumn(column, bars, first, last) ==
  column = [t \in 1..(last - first + 1) |-> Filled(bars, first, first + t - 1)]

LEMMA ColumnIs ==
  ASSUME NEW bars, NEW T, IsSeries(bars, T), NEW first \in Nat, NEW last \in Nat
  PROVE  IsColumn(Column(bars, first, last), bars, first, last)
<1> DEFINE step(f, h) ==
             IF h \in DOMAIN bars THEN bars[h]
             ELSE IF h > first /\ f[h - 1] # ZeroBar THEN FlatBar(f[h - 1].close) ELSE ZeroBar
           Rec(f) == f = [h \in first..last |-> step(f, h)]
           row == CHOOSE f : Rec(f)
           F(h) == Filled(bars, first, h)
           g == [h \in first..last |-> F(h)]
<1>0. \A h \in first..last : h \in Nat /\ first <= h /\ (h > first => h - 1 \in first..last)
  OBVIOUS
<1>1. Rec(g)
  <2>1. \A h \in first..last : F(h) = step(g, h)
    <3> TAKE h \in first..last
    <3>1. F(h) = IF h \in DOMAIN bars THEN bars[h]
                 ELSE IF h > first /\ F(h - 1) # ZeroBar THEN FlatBar(F(h - 1).close) ELSE ZeroBar
      BY <1>0, FilledGoesOn
    <3>2. h > first => g[h - 1] = F(h - 1)
      BY <1>0
    <3> HIDE DEF F, g
    <3> QED
      BY <3>1, <3>2
  <2> HIDE DEF F, step
  <2> QED
    BY <2>1
<1>2. Rec(row)
  <2> HIDE DEF Rec, g
  <2> QED
    BY <1>1
<1>3. Column(bars, first, last) = [t \in 1..(last - first + 1) |-> row[first + t - 1]]
  BY DEF Column
<1> HIDE DEF row
<1>4. ASSUME NEW h \in first..last PROVE row[h] = F(h)
  <2> DEFINE B == {x \in first..last : row[x] # F(x)}
  <2> SUFFICES ASSUME B # {} PROVE FALSE
    OBVIOUS
  <2>1. PICK x \in B : \A y \in B : x <= y
    <3>1. B \in SUBSET Nat
      BY <1>0
    <3> HIDE DEF B
    <3> QED
      BY <3>1, LeastNatural
  <2>2. x \in first..last /\ row[x] # F(x) /\ row[x] = step(row, x) /\ g[x] = step(g, x) /\ g[x] = F(x)
    BY <1>1, <1>2
  <2>3. x > first => row[x - 1] = g[x - 1]
    <3>1. x > first => x - 1 \in first..last /\ ~(x <= x - 1)
      BY <1>0
    <3> QED
      BY <2>1, <3>1
  <2> HIDE DEF g, F
  <2>4. step(row, x) = step(g, x)
    BY <2>3
  <2> QED
    BY <2>2, <2>4
<1>5. \A t \in 1..(last - first + 1) : first + t - 1 \in first..last
  OBVIOUS
<1> QED
  BY <1>3, <1>4, <1>5 DEF IsColumn

-----------------------------------------------------------------------------
(* The market data program.                                                *)

\* Its plan tells what it is doing and what it can have: an export reads
\* dumps; any other run fetches from Kraken and at most one other source.
IsOfPlan(r) ==
  /\ r.pc \in {"fetch", "join"} => r.plan # "export"
  /\ r.pc = "export" => r.plan = "export"
  /\ r.pc = "fetch" => \A i \in DOMAIN r.todo : r.todo[i][1] \in {r.plan, "kraken"}
  /\ r.plan # "export" => \A src \in Sources \ {r.plan, "kraken"}, s \in Sym : r.got[src][s] = <<>>

DataIsSound ==
  /\ IsOfPlan(job["data"])
  /\ job["data"].pc = "join" => Alignable(Series("data"))
  /\ Exported => \A s \in Sym : \A h \in DOMAIN job["data"].got["dump"][s] :
                   h \in DOMAIN Dump(s) /\ job["data"].got["dump"][s][h] = Dump(s)[h]

\* The words of a file go into it in three pieces, after it was truncated.
IsWritten(words, chunks, w) ==
  \/ chunks = <<<<>>>> \o w
  \/ chunks = w /\ words = <<>>
  \/ chunks = <<w[2], w[3]>> /\ words = w[1]
  \/ chunks = <<w[3]>> /\ words = w[1] \o w[2]
  \/ chunks = <<>> /\ words = (w[1] \o w[2]) \o w[3]

\* What the market data file is to hold.
IsContent(names, features, prices) ==
  /\ names \in Seq(Sym) /\ names # <<>> /\ Len(prices) \in Nat \ {0}
  /\ IsBlock(features, Len(prices), Len(names), FeaturesPerSym)
  /\ IsBlock(prices, Len(prices), Len(names), PriceFeatures)
  /\ \A t \in 1..Len(prices), i \in 1..Len(names) :
       /\ prices[t][i] = RightPrice(names[i], t)
       /\ \A k \in DOMAIN Horizons : features[t][i][k] = ForecastWords(names[i], HourOf(t))[k]
       /\ ~Exported => \A k \in 1..8 :
            features[t][i][Len(Horizons) + k] = TechnicalFeatures(BarsOfFile(prices, i))[t][k]

MarketFileIsSound ==
  /\ job["data"].pc \in {"write", "done"} =>
       \E names, features, prices :
         /\ IsContent(names, features, prices)
         /\ IsWritten(file, job["data"].chunks, MarketBin(names, features, prices, FeaturesPerSym))
  /\ job["data"].pc = "done" => job["data"].chunks = <<>>

\* The inductive invariant of the market data program and its file.
DataInv == ProgramInv /\ DataIsSound /\ MarketFileIsSound

\* What the content is compared with does not change unless the program has
\* more, or another plan.
HasSame == /\ UNCHANGED tape
           /\ job'["data"].plan = job["data"].plan /\ job'["data"].got = job["data"].got
           /\ job'["data"].joined = job["data"].joined

LEMMA SameDump ==
  ASSUME UNCHANGED tape, NEW s
  PROVE  UNCHANGED Dump(s)
<1>1. UNCHANGED Traded(s)
  BY DEF Traded
<1> HIDE DEF Traded
<1> QED
  BY <1>1 DEF Dump

LEMMA SameSeries ==
  ASSUME job'["data"].got = job["data"].got
  PROVE  UNCHANGED Series("data")
BY DEF Series

LEMMA SameHours ==
  ASSUME HasSame, NEW t
  PROVE  UNCHANGED <<Exported, HourOf(t)>>
<1>1. UNCHANGED Exported /\ UNCHANGED Series("data") /\ job'["data"].got = job["data"].got
  BY SameSeries DEF HasSame, Exported
<1> QED
  BY <1>1 DEF HourOf

\* The price of a symbol by what was fetched of it.
FetchedPrice(got, s, first, h) ==
  LET own(x) == {src \in Sources : x \in DOMAIN got[src][s]}
      bar(x) == IF "kraken" \in own(x) THEN got["kraken"][s][x]
                ELSE got[CHOOSE src \in own(x) : TRUE][s][x]
      earlier == {x \in first..h : own(x) # {}}
  IN  IF own(h) # {} THEN Price(bar(h))
      ELSE IF earlier = {} THEN Price(ZeroBar)
      ELSE Price(FlatBar(bar(Max(earlier)).close))

LEMMA RightPriceIs ==
  \A s, t : RightPrice(s, t) =
    IF Exported THEN Price(Dump(s)[HourOf(t)])
    ELSE FetchedPrice(job["data"].got, s, HourOf(1), HourOf(t))
BY DEF RightPrice, FetchedPrice

LEMMA SamePrice ==
  ASSUME HasSame, NEW s, NEW t
  PROVE  UNCHANGED RightPrice(s, t)
<1>1. UNCHANGED <<Exported, HourOf(t), HourOf(1), Dump(s)>> /\ job'["data"].got = job["data"].got
  BY SameHours, SameDump DEF HasSame
<1>2. RightPrice(s, t)' = IF Exported' THEN Price(Dump(s)'[HourOf(t)'])
                          ELSE FetchedPrice(job'["data"].got, s, HourOf(1)', HourOf(t)')
  BY DEF RightPrice, FetchedPrice
<1> QED
  BY <1>1, <1>2, RightPriceIs

LEMMA SameWords ==
  ASSUME HasSame, NEW s, NEW h
  PROVE  UNCHANGED ForecastWords(s, h)
BY DEF HasSame, ForecastWords

LEMMA ContentStays ==
  ASSUME HasSame, NEW names, NEW features, NEW prices, IsContent(names, features, prices)
  PROVE  IsContent(names, features, prices)'
<1>1. \A s, t : /\ RightPrice(s, t)' = RightPrice(s, t) /\ HourOf(t)' = HourOf(t) /\ (Exported' <=> Exported)
                /\ \A h : ForecastWords(s, h)' = ForecastWords(s, h)
  BY SamePrice, SameHours, SameWords
<1> QED
  BY <1>1 DEF IsContent

\* What was fetched of a symbol is what its merged series has.
LEMMA FetchedPriceIs ==
  ASSUME ProgramInv, IsOfPlan(job["data"]), job["data"].plan # "export",
         NEW s \in Sym, NEW first \in Nat, NEW h \in Nat
  PROVE  FetchedPrice(job["data"].got, s, first, h) = Price(Filled(Series("data")[s], first, h))
<1> DEFINE got == job["data"].got
           d == got["dump"][s]
           b == got["binance"][s]
           k == got["kraken"][s]
           series == Series("data")[s]
           own(x) == {src \in Sources : x \in DOMAIN got[src][s]}
           bar(x) == IF "kraken" \in own(x) THEN got["kraken"][s][x]
                     ELSE got[CHOOSE src \in own(x) : TRUE][s][x]
           earlier == {x \in first..h : own(x) # {}}
<1>1. /\ \A src \in Sources : IsSeries(got[src][s], clock)
      /\ \A x : x \in DOMAIN series <=> x \in DOMAIN d \cup DOMAIN b \cup DOMAIN k
      /\ \A x \in DOMAIN series :
           series[x] = IF x \in DOMAIN k THEN k[x] ELSE IF x \in DOMAIN b THEN b[x] ELSE d[x]
      /\ IsSeries(series, clock)
  <2>1. "data" \in Jobs
    BY DEF Jobs
  <2>2. \A src \in Sources : IsSeries(got[src][s], clock)
    BY <2>1, OneFinds
  <2>3. /\ IsSeries(series, clock)
        /\ series = [x \in DOMAIN d \cup DOMAIN b \cup DOMAIN k |->
                       IF x \in DOMAIN k THEN k[x] ELSE IF x \in DOMAIN b THEN b[x] ELSE d[x]]
    BY <2>1, <2>2, MergedIs
  <2> HIDE DEF series, d, b, k
  <2> QED
    BY <2>2, <2>3
<1>2. DOMAIN d = {} \/ DOMAIN b = {}
  <2>1. d = <<>> \/ b = <<>>
    BY DEF IsOfPlan, Sources
  <2> QED
    BY <2>1, EmptySeries
<1>3. \A x : own(x) # {} <=> x \in DOMAIN series
  <2>1. \A x : own(x) # {} <=> x \in DOMAIN d \/ x \in DOMAIN b \/ x \in DOMAIN k
    BY DEF Sources
  <2> HIDE DEF own, series, d, b, k
  <2> QED
    BY <1>1, <2>1
<1>4. ASSUME NEW x \in DOMAIN series PROVE bar(x) = series[x]
  <2>1. "kraken" \in own(x) <=> x \in DOMAIN k
    BY DEF Sources
  <2>2. CASE x \in DOMAIN k
    <3>1. bar(x) = k[x]
      BY <2>1, <2>2
    <3> QED
      BY <1>1, <2>2, <3>1
  <2>3. CASE x \notin DOMAIN k
    <3> DEFINE src == CHOOSE src \in own(x) : TRUE
    <3>1. src \in own(x)
      BY <1>3
    <3>2. bar(x) = got[src][s][x]
      BY <2>1, <2>3
    <3>3. \/ src = "dump" /\ x \in DOMAIN d
          \/ src = "binance" /\ x \in DOMAIN b
      <4> HIDE DEF src
      <4> QED
        BY <2>1, <2>3, <3>1 DEF Sources
    <3> HIDE DEF src
    <3>4. CASE src = "dump" /\ x \in DOMAIN d
      <4>1. x \notin DOMAIN b
        BY <1>2, <3>4
      <4> QED
        BY <1>1, <2>3, <3>2, <3>4, <4>1
    <3>5. CASE src = "binance" /\ x \in DOMAIN b
      BY <1>1, <2>3, <3>2, <3>5
    <3> QED
      BY <3>3, <3>4, <3>5
  <2> QED
    BY <2>2, <2>3
<1>5. FetchedPrice(got, s, first, h) =
        IF own(h) # {} THEN Price(bar(h))
        ELSE IF earlier = {} THEN Price(ZeroBar) ELSE Price(FlatBar(bar(Max(earlier)).close))
  BY DEF FetchedPrice
<1>6. earlier = Earlier(series, first, h)
  BY <1>3 DEF Earlier
<1> HIDE DEF series, own, bar, earlier
<1>7. earlier # {} => Max(earlier) \in DOMAIN series
  <2>1. earlier # {} => Max(earlier) \in earlier
    BY <1>1, <1>6, EarlierIs
  <2> QED
    BY <1>6, <2>1 DEF Earlier
<1>8. FetchedPrice(got, s, first, h) = Price(Filled(series, first, h))
  <2>1. CASE h \in DOMAIN series
    BY <1>3, <1>4, <1>5, <2>1 DEF Filled
  <2>2. CASE h \notin DOMAIN series /\ earlier = {}
    BY <1>3, <1>5, <1>6, <2>2 DEF Filled
  <2>3. CASE h \notin DOMAIN series /\ earlier # {}
    <3>1. bar(Max(earlier)) = series[Max(earlier)]
      BY <1>4, <1>7, <2>3
    <3> QED
      BY <1>3, <1>5, <1>6, <2>3, <3>1 DEF Filled
  <2> QED
    BY <2>1, <2>2, <2>3
<1> QED
  BY <1>8 DEF series

LEMMA NoBars ==
  ASSUME NEW f, NEW t, IsSeries(f, t), DOMAIN f = {}
  PROVE  f = <<>>
<1>1. f = [x \in DOMAIN f |-> f[x]]
  BY DEF IsSeries
<1>2. <<>> = [x \in {} |-> f[x]]
  OBVIOUS
<1> QED
  BY <1>1, <1>2

\* The hours of the grid.
LEMMA GridIs ==
  ASSUME ProgramInv, Alignable(Series("data"))
  PROVE  /\ GridFirst(Series("data")) \in Nat /\ GridLast(Series("data")) \in Nat
         /\ GridFirst(Series("data")) <= GridLast(Series("data"))
         /\ Present(Series("data")) \in Seq(Sym) /\ Present(Series("data")) # <<>>
         /\ \A s \in Sym : IsSeries(Series("data")[s], clock)
<1> DEFINE series == Series("data")
           kept == Present(series)
           firsts == {Min(DOMAIN series[s]) : s \in ToSet(kept)}
           lasts == {Max(DOMAIN series[s]) : s \in ToSet(kept)}
<1>1. \A s \in Sym : IsSeries(series[s], clock)
  <2>1. "data" \in Jobs
    BY DEF Jobs
  <2> QED
    BY <2>1, OneFinds, MergedIs
<1> HIDE DEF series
<1>2. kept \in Seq(Sym) /\ ToSet(kept) = {s \in Sym : series[s] # <<>>}
  BY PresentIs
<1>3. kept # <<>> /\ GridFirst(series) <= GridLast(series)
  BY DEF Alignable, series
<1>4. ToSet(kept) # {} /\ IsFiniteSet(ToSet(kept))
  <2> HIDE DEF kept
  <2>1. DOMAIN kept = 1..Len(kept) /\ Len(kept) \in Nat /\ 1 \in DOMAIN kept
    BY <1>2, <1>3
  <2>2. ToSet(kept) = {kept[i] : i \in DOMAIN kept}
    BY DEF ToSet
  <2>3. IsFiniteSet(DOMAIN kept)
    <3>1. 1 \in Int /\ Len(kept) \in Int
      BY <2>1
    <3>2. IsFiniteSet(1..Len(kept))
      BY <3>1, FS_Interval
    <3> QED
      BY <2>1, <3>2
  <2>4. IsFiniteSet({kept[i] : i \in DOMAIN kept})
    <3>1. kept \in Surjection(DOMAIN kept, {kept[i] : i \in DOMAIN kept})
      <4>1. kept = [i \in DOMAIN kept |-> kept[i]]
        BY <1>2
      <4> QED
        BY <4>1 DEF Surjection
    <3> QED
      BY <2>3, <3>1, FS_Surjection
  <2> QED
    BY <2>1, <2>2, <2>4
<1>5. ASSUME NEW s \in ToSet(kept)
      PROVE  Min(DOMAIN series[s]) \in 0..clock /\ Max(DOMAIN series[s]) \in 0..clock
  <2> DEFINE f == series[s]
  <2>1. IsSeries(f, clock) /\ f # <<>>
    BY <1>1, <1>2
  <2> HIDE DEF f
  <2>2. DOMAIN f # {} /\ DOMAIN f \subseteq 0..clock
    BY <2>1, NoBars DEF IsSeries
  <2>3. IsFiniteSet(DOMAIN f) /\ DOMAIN f \in SUBSET Int
    <3>1. clock \in Int /\ 0 \in Int
      BY MarketIs DEF ProgramInv
    <3>2. IsFiniteSet(0..clock) /\ 0..clock \subseteq Int
      BY <3>1, FS_Interval
    <3> QED
      BY <2>2, <3>2, FS_Subset
  <2>4. Min(DOMAIN f) \in DOMAIN f /\ Max(DOMAIN f) \in DOMAIN f
    BY <2>2, <2>3, MinExists, MaxExists
  <2> QED
    BY <2>2, <2>4 DEF f
<1>6. /\ firsts \in SUBSET Int /\ lasts \in SUBSET Int /\ firsts \subseteq Nat /\ lasts \subseteq Nat
      /\ firsts # {} /\ lasts # {}
  <2>1. 0..clock \subseteq Nat /\ 0..clock \subseteq Int
    OBVIOUS
  <2> QED
    BY <1>4, <1>5, <2>1
<1>7. IsFiniteSet(firsts) /\ IsFiniteSet(lasts)
  <2> DEFINE S == ToSet(kept)
             f == [s \in S |-> Min(DOMAIN series[s])]
             g == [s \in S |-> Max(DOMAIN series[s])]
  <2>1. firsts = {f[s] : s \in S} /\ lasts = {g[s] : s \in S}
    OBVIOUS
  <2>2. f \in Surjection(S, firsts) /\ g \in Surjection(S, lasts)
    BY <2>1 DEF Surjection
  <2> QED
    BY <1>4, <2>2, FS_Surjection
<1>8. Max(firsts) \in firsts /\ Min(lasts) \in lasts
  <2> HIDE DEF firsts, lasts
  <2> QED
    BY <1>6, <1>7, MinExists, MaxExists
<1>9. GridFirst(series) = Max(firsts) /\ GridLast(series) = Min(lasts)
  BY DEF GridFirst, GridLast
<1> HIDE DEF firsts, lasts, kept
<1> QED
  BY <1>1, <1>2, <1>3, <1>6, <1>8, <1>9 DEF series, kept

\* n words.
IsWords(v, n) == v = [k \in 1..n |-> v[k]]

LEMMA Eight ==
  ASSUME NEW a, NEW b, NEW c, NEW d, NEW e, NEW f, NEW g, NEW h
  PROVE  IsWords(<<a, b, c, d, e, f, g, h>>, 8)
BY DEF IsWords

LEMMA TechnicalWords ==
  ASSUME NEW bars, NEW t \in DOMAIN bars
  PROVE  IsWords(TechnicalFeatures(bars)[t], 8) /\ IsWords(PandasFeatures(bars)[t], 8)
<1>1. \E a, b, c, d, e, f, g, h : TechnicalFeatures(bars)[t] = <<a, b, c, d, e, f, g, h>>
  BY DEF TechnicalFeatures
<1> DEFINE c == [i \in DOMAIN bars |-> <<bars[i].close, 1>>]
           close == [i \in DOMAIN bars |-> bars[i].close]
           tr == [i \in DOMAIN bars |->
                    <<Max({bars[i].high - bars[i].low} \cup
                          {Distance(x, bars[k].close) :
                             x \in {bars[i].high, bars[i].low}, k \in {i - 1} \cap DOMAIN bars}), 1>>]
           words(i) ==
             << Clip(FillNa(PctChangePandas(close, 1)[i], Zero), Minus(Half), Half),
                Clip(FillNa(PctChangePandas(close, Short)[i], Zero), Minus(One), One),
                FillNa(Std(Rolling(PctChangePandas(close, 1), Short, i)), Fallback),
                Clip(Delta(close[i], Mean(Rolling(c, Short, i))), Minus(Half), Half),
                Clip(Delta(close[i], Mean(Rolling(c, Long, i))), Minus(Half), Half),
                Clip(Over(Mean(Rolling(tr, Short, i)), c[i]), Zero, Half),
                Clip(FillNa(PctChangePandas(close, Long)[i], Zero), Minus(One), One),
                Clip(Delta(close[i], Highest(Rolling(c, Long, i))), Minus(One), Zero) >>
<1>2. PandasFeatures(bars) = [i \in DOMAIN bars |-> words(i)]
  BY DEF PandasFeatures
<1> HIDE DEF c, close, tr
<1>3. IsWords(words(t), 8)
  BY Eight
<1> HIDE DEF words
<1>4. PandasFeatures(bars)[t] = words(t)
  BY <1>2
<1> QED
  BY <1>1, <1>3, <1>4, Eight

\* m words, and n words after them.
AreJoined(c, a, b, m, n) ==
  /\ IsWords(c, m + n)
  /\ \A k \in 1..m : c[k] = a[k]
  /\ \A k \in 1..n : c[m + k] = b[k]

LEMMA JoinedWords ==
  ASSUME NEW m \in Nat, NEW n \in Nat, NEW a, NEW b, IsWords(a, m), IsWords(b, n)
  PROVE  AreJoined(a \o b, a, b, m, n)
<1> DEFINE X == {a[k] : k \in 1..m} \cup {b[k] : k \in 1..n}
           c == a \o b
<1>1. a \in Seq(X) /\ Len(a) = m /\ b \in Seq(X) /\ Len(b) = n
  <2>1. (\A k \in 1..m : a[k] \in X) /\ \A k \in 1..n : b[k] \in X
    OBVIOUS
  <2> HIDE DEF X
  <2> QED
    BY <2>1, SequenceIs DEF IsWords
<1> HIDE DEF X
<1>2. a \in Seq(X) /\ b \in Seq(X)
  BY <1>1
<1>3. /\ c \in Seq(X) /\ Len(c) = Len(a) + Len(b)
      /\ \A k \in 1..Len(a) : c[k] = a[k]
      /\ \A k \in 1..Len(b) : c[Len(a) + k] = b[k]
  BY <1>2
<1> HIDE DEF c
<1>4. IsWords(c, m + n)
  BY <1>1, <1>3 DEF IsWords
<1> QED
  BY <1>1, <1>3, <1>4 DEF c, AreJoined

LEMMA BlockOf ==
  ASSUME NEW nt, NEW ns, NEW per, NEW rows,
         rows = [t \in 1..nt |-> [i \in 1..ns |-> rows[t][i]]],
         \A t \in 1..nt, i \in 1..ns : IsWords(rows[t][i], per)
  PROVE  IsBlock(rows, nt, ns, per)
<1> DEFINE words(t, i) == [k \in 1..per |-> rows[t][i][k]]
<1>1. \A t \in 1..nt, i \in 1..ns : rows[t][i] = words(t, i)
  BY DEF IsWords
<1> HIDE DEF words
<1>2. rows = [t \in 1..nt |-> [i \in 1..ns |-> words(t, i)]]
  BY <1>1
<1> QED
  BY <1>2 DEF IsBlock, words

\* A row of prices is three words, from which the bar comes back.
LEMMA PriceIs ==
  ASSUME NEW b
  PROVE  /\ IsWords(Price(b), PriceFeatures)
         /\ b \in [high : {b.high}, low : {b.low}, close : {b.close}] =>
              b = [high |-> Price(b)[1], low |-> Price(b)[2], close |-> Price(b)[3]]
<1>1. Price(b) = <<b.high, b.low, b.close>>
  BY DEF Price
<1>2. IsWords(<<b.high, b.low, b.close>>, 3)
  BY DEF IsWords
<1> QED
  BY <1>1, <1>2, PriceWords

LEMMA WordCount == /\ Len(Horizons) \in Nat /\ DOMAIN Horizons = 1..Len(Horizons)
                   /\ FeaturesPerSym \in Nat \ {0} /\ FeaturesPerSym = Len(Horizons) + 8
  BY BarsAssumption DEF FeaturesPerSym

\* A row of features: the forecasts first.
IsFeatureRow(row, s, h, v) ==
  /\ IsWords(row, FeaturesPerSym)
  /\ \A k \in DOMAIN Horizons : row[k] = ForecastWords(s, h)[k]
  /\ \A k \in 1..8 : row[Len(Horizons) + k] = v[k]

LEMMA FeatureRow ==
  ASSUME NEW s, NEW h, NEW v, IsWords(v, 8)
  PROVE  IsFeatureRow(ForecastWords(s, h) \o v, s, h, v)
<1> DEFINE n == Len(Horizons)
           a == ForecastWords(s, h)
<1>1. n \in Nat /\ DOMAIN Horizons = 1..n /\ FeaturesPerSym = n + 8
  BY WordCount
<1>2. IsWords(a, n)
  <2>1. a = [k \in DOMAIN Horizons |-> a[k]]
    BY DEF ForecastWords
  <2> HIDE DEF a
  <2> QED
    BY <1>1, <2>1 DEF IsWords
<1>3. 8 \in Nat
  OBVIOUS
<1> HIDE DEF n, a
<1>4. AreJoined(a \o v, a, v, n, 8)
  BY <1>1, <1>2, <1>3, JoinedWords
<1> QED
  BY <1>1, <1>4 DEF a, n, AreJoined, IsFeatureRow

LEMMA FilledIsBar ==
  ASSUME NEW bars, NEW T, IsSeries(bars, T), NEW first \in Nat, NEW h \in Nat
  PROVE  LET b == Filled(bars, first, h)
         IN  b \in [high : {b.high}, low : {b.low}, close : {b.close}]
<1>1. \A x \in DOMAIN bars : bars[x] \in Bar
  BY DEF IsSeries
<1>2. \A b \in Bar : b \in [high : {b.high}, low : {b.low}, close : {b.close}]
  BY DEF Bar
<1>3. \A c : FlatBar(c) \in [high : {FlatBar(c).high}, low : {FlatBar(c).low}, close : {FlatBar(c).close}]
  BY DEF FlatBar
<1>4. ZeroBar \in [high : {ZeroBar.high}, low : {ZeroBar.low}, close : {ZeroBar.close}]
  BY DEF ZeroBar
<1>5. \/ h \in DOMAIN bars /\ Filled(bars, first, h) = bars[h]
      \/ Filled(bars, first, h) = ZeroBar
      \/ \E c : Filled(bars, first, h) = FlatBar(c)
  BY DEF Filled
<1> QED
  BY <1>1, <1>2, <1>3, <1>4, <1>5

\* What is built of fetched bars is what the file is to hold.
LEMMA BuildIs ==
  ASSUME ProgramInv, DataIsSound, BuildBin
  PROVE  \E names, features, prices :
           IsContent(names, features, prices) /\ Write(names, features, prices)
<1> DEFINE series == Series("data")
           kept == Present(series)
           hours == GridFirst(series)..GridLast(series)
           column == [i \in DOMAIN kept |-> Column(series[kept[i]], Min(hours), Max(hours))]
           tech == [i \in DOMAIN kept |-> TechnicalFeatures(column[i])]
           features == [t \in DOMAIN column[1] |-> [i \in DOMAIN kept |->
                          ForecastWords(kept[i], Min(hours) + t - 1) \o tech[i][t]]]
           prices == [t \in DOMAIN column[1] |-> [i \in DOMAIN kept |-> Price(column[i][t])]]
           first == GridFirst(series)
           last == GridLast(series)
           nt == last - first + 1
           ns == Len(kept)
           row(i, t) == Filled(series[kept[i]], first, first + t - 1)
<1>1. Write(kept, features, prices) /\ job["data"].pc = "join"
  <2> DEFINE grid(se) == GridFirst(se)..GridLast(se)
             columns(se, k, h) == [i \in DOMAIN k |-> Column(se[k[i]], Min(h), Max(h))]
             techs(k, c) == [i \in DOMAIN k |-> TechnicalFeatures(c[i])]
             featureRows(k, h, c, v) == [t \in DOMAIN c[1] |-> [i \in DOMAIN k |->
                                           ForecastWords(k[i], Min(h) + t - 1) \o v[i][t]]]
             priceRows(k, c) == [t \in DOMAIN c[1] |-> [i \in DOMAIN k |-> Price(c[i][t])]]
  <2>1. \E se \in {series} : \E k \in {Present(se)}, h \in {grid(se)} :
          \E c \in {columns(se, k, h)} : \E v \in {techs(k, c)} :
            Write(k, featureRows(k, h, c, v), priceRows(k, c))
    BY DEF BuildBin
  <2>2. /\ kept = Present(series) /\ hours = grid(series) /\ column = columns(series, kept, hours)
        /\ tech = techs(kept, column)
        /\ features = featureRows(kept, hours, column, tech) /\ prices = priceRows(kept, column)
    OBVIOUS
  <2> HIDE DEF series, kept, hours, column, tech, features, prices,
               grid, columns, techs, featureRows, priceRows
  <2>3. Write(kept, features, prices)
    BY <2>1, <2>2
  <2> QED
    BY <2>3 DEF BuildBin
<1>2. /\ first \in Nat /\ last \in Nat /\ first <= last
      /\ kept \in Seq(Sym) /\ kept # <<>> /\ \A s \in Sym : IsSeries(series[s], clock)
      /\ ~Exported /\ IsOfPlan(job["data"]) /\ job["data"].plan # "export"
  <2>1. Alignable(series) /\ IsOfPlan(job["data"]) /\ job["data"].plan # "export"
    BY <1>1 DEF DataIsSound, IsOfPlan
  <2> HIDE DEF kept
  <2> QED
    BY <2>1, GridIs DEF Exported, kept
<1> HIDE DEF series
<1>3. Min(hours) = first /\ Max(hours) = last
  <2>1. IsFiniteSet(hours) /\ hours \in SUBSET Int /\ first \in hours /\ last \in hours
        /\ \A x \in hours : x \in Int /\ first <= x /\ x <= last
    <3> HIDE DEF first, last
    <3>1. first \in Int /\ last \in Int
      BY <1>2
    <3>2. IsFiniteSet(first..last)
      BY <3>1, FS_Interval
    <3> QED
      BY <1>2, <3>2 DEF first, last
  <2> HIDE DEF hours, first, last
  <2>2. Min(hours) \in hours /\ Max(hours) \in hours /\ Min(hours) <= first /\ last <= Max(hours)
    BY <2>1, MinExists, MaxExists
  <2>3. first <= Min(hours) /\ Max(hours) <= last /\ Min(hours) \in Int /\ Max(hours) \in Int
    BY <2>1, <2>2
  <2> QED
    BY <1>2, <2>2, <2>3
<1>4. ns \in Nat \ {0} /\ DOMAIN kept = 1..ns /\ nt \in Nat \ {0} /\ \A i \in 1..ns : kept[i] \in Sym
  <2> HIDE DEF kept, first, last
  <2> QED
    BY <1>2
<1> HIDE DEF kept, first, last, hours
<1>5. \A i \in 1..ns : column[i] = [t \in 1..nt |-> row(i, t)]
  <2> TAKE i \in 1..ns
  <2> DEFINE bars == series[kept[i]]
  <2>1. IsSeries(bars, clock)
    BY <1>2, <1>4
  <2> HIDE DEF bars
  <2>2. IsColumn(Column(bars, first, last), bars, first, last)
    BY <1>2, <2>1, ColumnIs
  <2> QED
    BY <1>3, <1>4, <2>2 DEF bars, IsColumn
<1> HIDE DEF column, row, nt, ns
<1>6. DOMAIN column[1] = 1..nt /\ \A i \in 1..ns, t \in 1..nt : DOMAIN column[i] = 1..nt /\ column[i][t] = row(i, t)
  <2>1. 1 \in 1..ns
    BY <1>4
  <2>2. \A i \in 1..ns : DOMAIN column[i] = 1..nt
    BY <1>5
  <2>3. \A i \in 1..ns, t \in 1..nt : column[i][t] = row(i, t)
    <3> TAKE i \in 1..ns, t \in 1..nt
    <3> DEFINE c == column[i]
               r(x) == row(i, x)
    <3>1. c = [x \in 1..nt |-> r(x)]
      BY <1>5
    <3> HIDE DEF c, r
    <3>2. c[t] = r(t)
      BY <3>1
    <3> QED
      BY <3>2 DEF c, r
  <2> QED
    BY <2>1, <2>2, <2>3
<1>7. \A i \in 1..ns, t \in 1..nt : /\ IsWords(tech[i][t], 8) /\ tech[i] = TechnicalFeatures(column[i])
                                    /\ first + t - 1 \in Nat
  BY <1>2, <1>4, <1>6, TechnicalWords
<1> HIDE DEF tech
<1>8. /\ features = [t \in 1..nt |-> [i \in 1..ns |->
                       ForecastWords(kept[i], first + t - 1) \o tech[i][t]]]
      /\ prices = [t \in 1..nt |-> [i \in 1..ns |-> Price(row(i, t))]]
  BY <1>3, <1>4, <1>6
<1> HIDE DEF features, prices
<1>9. /\ \A t \in 1..nt, i \in 1..ns : prices[t][i] = Price(row(i, t))
      /\ \A t \in 1..nt, i \in 1..ns :
           features[t][i] = ForecastWords(kept[i], first + t - 1) \o tech[i][t]
      /\ features = [t \in 1..nt |-> [i \in 1..ns |-> features[t][i]]]
      /\ prices = [t \in 1..nt |-> [i \in 1..ns |-> prices[t][i]]]
      /\ DOMAIN prices = 1..nt
  <2> DEFINE e(t, i) == ForecastWords(kept[i], first + t - 1) \o tech[i][t]
             p(t, i) == Price(row(i, t))
  <2>1. features = [t \in 1..nt |-> [i \in 1..ns |-> e(t, i)]]
        /\ prices = [t \in 1..nt |-> [i \in 1..ns |-> p(t, i)]]
    BY <1>8
  <2> HIDE DEF e, p
  <2>2. /\ \A t \in 1..nt, i \in 1..ns : prices[t][i] = p(t, i) /\ features[t][i] = e(t, i)
        /\ DOMAIN prices = 1..nt
    BY <2>1
  <2>3. /\ features = [t \in 1..nt |-> [i \in 1..ns |-> features[t][i]]]
        /\ prices = [t \in 1..nt |-> [i \in 1..ns |-> prices[t][i]]]
    BY <2>1, <2>2
  <2> QED
    BY <2>2, <2>3 DEF e, p
<1>91. \A t \in 1..nt, i \in 1..ns :
         IsFeatureRow(features[t][i], kept[i], first + t - 1, tech[i][t])
  <2> TAKE t \in 1..nt, i \in 1..ns
  <2> DEFINE h == first + t - 1
             v == tech[i][t]
  <2>1. IsWords(v, 8) /\ features[t][i] = ForecastWords(kept[i], h) \o v
    BY <1>7, <1>9
  <2> HIDE DEF h, v
  <2>2. IsFeatureRow(ForecastWords(kept[i], h) \o v, kept[i], h, v)
    BY <2>1, FeatureRow
  <2>3. IsFeatureRow(features[t][i], kept[i], h, v)
    BY <2>1, <2>2
  <2> QED
    BY <2>3 DEF h, v
<1>10. IsBlock(features, nt, ns, FeaturesPerSym)
  <2>1. \A t \in 1..nt, i \in 1..ns : IsWords(features[t][i], FeaturesPerSym)
    BY <1>91 DEF IsFeatureRow
  <2> QED
    BY <1>9, <2>1, BlockOf
<1>11. IsBlock(prices, nt, ns, PriceFeatures)
  <2>1. \A t \in 1..nt, i \in 1..ns : IsWords(prices[t][i], PriceFeatures)
    BY <1>9, PriceIs
  <2> QED
    BY <1>9, <2>1, BlockOf
<1>12. Len(prices) = nt /\ Len(kept) = ns
  <2>1. prices = [t \in 1..nt |-> prices[t]]
    BY <1>9
  <2>2. Len([t \in 1..nt |-> prices[t]]) = nt
    BY <1>4
  <2> QED
    BY <2>1, <2>2 DEF ns
<1>13. \A t : HourOf(t) = first + t - 1
  BY <1>2 DEF HourOf, first, series
<1>14. ASSUME NEW t \in 1..nt, NEW i \in 1..ns
       PROVE  /\ prices[t][i] = RightPrice(kept[i], t)
              /\ \A k \in DOMAIN Horizons : features[t][i][k] = ForecastWords(kept[i], HourOf(t))[k]
              /\ \A k \in 1..8 :
                   features[t][i][Len(Horizons) + k] = TechnicalFeatures(BarsOfFile(prices, i))[t][k]
  <2>1. prices[t][i] = RightPrice(kept[i], t)
    <3> DEFINE s == kept[i]
               h == first + t - 1
    <3>1. s \in Sym /\ h \in Nat /\ HourOf(t) = h /\ HourOf(1) = first
      BY <1>2, <1>4, <1>7, <1>13
    <3> HIDE DEF s, h
    <3>2. RightPrice(s, t) = FetchedPrice(job["data"].got, s, first, h)
      BY <1>2, <3>1, RightPriceIs
    <3>3. FetchedPrice(job["data"].got, s, first, h) = Price(Filled(series[s], first, h))
      BY <1>2, <3>1, FetchedPriceIs DEF series
    <3> QED
      BY <1>9, <3>2, <3>3 DEF row, s, h
  <2>2. /\ \A k \in DOMAIN Horizons : features[t][i][k] = ForecastWords(kept[i], first + t - 1)[k]
        /\ \A k \in 1..8 : features[t][i][Len(Horizons) + k] = tech[i][t][k]
    BY <1>91 DEF IsFeatureRow
  <2>3. BarsOfFile(prices, i) = column[i]
    <3> DEFINE bar(x) == [high |-> prices[x][i][1], low |-> prices[x][i][2], close |-> prices[x][i][3]]
    <3>1. \A x \in 1..nt : bar(x) = column[i][x]
      <4> TAKE x \in 1..nt
      <4>1. row(i, x) \in [high : {row(i, x).high}, low : {row(i, x).low}, close : {row(i, x).close}]
        <5> DEFINE bars == series[kept[i]]
        <5>1. IsSeries(bars, clock) /\ first + x - 1 \in Nat
          BY <1>2, <1>4, <1>7
        <5> HIDE DEF bars
        <5> QED
          BY <1>2, <5>1, FilledIsBar DEF row, bars
      <4>2. row(i, x) = [high |-> Price(row(i, x))[1], low |-> Price(row(i, x))[2],
                         close |-> Price(row(i, x))[3]]
        BY <4>1, PriceIs
      <4> QED
        BY <1>6, <1>9, <4>2
    <3>2. BarsOfFile(prices, i) = [x \in 1..nt |-> bar(x)]
      BY <1>9 DEF BarsOfFile
    <3> HIDE DEF bar
    <3>3. column[i] = [x \in 1..nt |-> column[i][x]]
      BY <1>5
    <3> QED
      BY <3>1, <3>2, <3>3
  <2> QED
    BY <1>7, <1>13, <2>1, <2>2, <2>3
<1>15. IsContent(kept, features, prices)
  BY <1>2, <1>4, <1>10, <1>11, <1>12, <1>14 DEF IsContent
<1> QED
  BY <1>1, <1>15

\* Rows of features and of prices.
FeatureRows(names, nt, hour, words) ==
  [t \in 1..nt |-> [i \in 1..Len(names) |-> ForecastWords(names[i], hour[t]) \o words[t][i]]]
PriceRows(names, nt, bar) == [t \in 1..nt |-> [i \in 1..Len(names) |-> Price(bar[t][i])]]

AreRows(features, prices, names, nt, hour, bar, words) ==
  /\ Len(prices) = nt
  /\ IsBlock(features, nt, Len(names), FeaturesPerSym)
  /\ IsBlock(prices, nt, Len(names), PriceFeatures)
  /\ \A t \in 1..nt, i \in 1..Len(names) :
       /\ prices[t][i] = Price(bar[t][i])
       /\ IsFeatureRow(features[t][i], names[i], hour[t], words[t][i])

LEMMA RowsAre ==
  ASSUME NEW names \in Seq(Sym), names # <<>>, NEW nt \in Nat \ {0}, NEW hour, NEW bar, NEW words,
         \A t \in 1..nt, i \in 1..Len(names) : IsWords(words[t][i], 8)
  PROVE  AreRows(FeatureRows(names, nt, hour, words), PriceRows(names, nt, bar),
                 names, nt, hour, bar, words)
<1> DEFINE ns == Len(names)
           f(t, i) == ForecastWords(names[i], hour[t]) \o words[t][i]
           p(t, i) == Price(bar[t][i])
           features == [t \in 1..nt |-> [i \in 1..ns |-> f(t, i)]]
           prices == [t \in 1..nt |-> [i \in 1..ns |-> p(t, i)]]
<1>1. features = FeatureRows(names, nt, hour, words) /\ prices = PriceRows(names, nt, bar)
  BY DEF FeatureRows, PriceRows
<1>2. \A t \in 1..nt, i \in 1..ns : IsFeatureRow(f(t, i), names[i], hour[t], words[t][i])
  BY FeatureRow
<1>3. \A t \in 1..nt, i \in 1..ns : IsWords(f(t, i), FeaturesPerSym)
  <2> HIDE DEF f
  <2> QED
    BY <1>2 DEF IsFeatureRow
<1>4. \A t \in 1..nt, i \in 1..ns : IsWords(p(t, i), PriceFeatures)
  BY PriceIs
<1> HIDE DEF ns, f, p
<1>5. /\ \A t \in 1..nt, i \in 1..ns : features[t][i] = f(t, i) /\ prices[t][i] = p(t, i)
      /\ Len(prices) = nt
  OBVIOUS
<1>6. /\ features = [t \in 1..nt |-> [i \in 1..ns |-> features[t][i]]]
      /\ prices = [t \in 1..nt |-> [i \in 1..ns |-> prices[t][i]]]
  BY <1>5
<1> HIDE DEF features, prices
<1>7. IsBlock(features, nt, ns, FeaturesPerSym) /\ IsBlock(prices, nt, ns, PriceFeatures)
  <2>1. \A t \in 1..nt, i \in 1..ns :
          IsWords(features[t][i], FeaturesPerSym) /\ IsWords(prices[t][i], PriceFeatures)
    BY <1>3, <1>4, <1>5
  <2>2. IsBlock(features, nt, ns, FeaturesPerSym)
    BY <1>6, <2>1, BlockOf
  <2>3. IsBlock(prices, nt, ns, PriceFeatures)
    BY <1>6, <2>1, BlockOf
  <2> QED
    BY <2>2, <2>3
<1>8. \A t \in 1..nt, i \in 1..ns : IsFeatureRow(features[t][i], names[i], hour[t], words[t][i])
  BY <1>2, <1>5
<1> QED
  BY <1>1, <1>5, <1>7, <1>8 DEF AreRows, ns, p

\* The row of an hour that a dump has.
LEMMA DumpWords ==
  ASSUME ProgramInv, NEW s \in Sym, NEW h \in DOMAIN Dump(s)
  PROVE  IsWords(DumpFeatures(s, h), 8)
<1> DEFINE rows == Ascending(DOMAIN Dump(s))
           bars == [i \in DOMAIN rows |-> Dump(s)[rows[i]]]
           i == CHOOSE i \in DOMAIN rows : rows[i] = h
<1>1. IsFiniteSet(DOMAIN Dump(s)) /\ DOMAIN Dump(s) \in SUBSET Int
  <2>1. IsSeries(Dump(s), clock) /\ clock \in Int /\ 0 \in Int
    BY DumpIsSeries, MarketIs DEF ProgramInv
  <2>2. IsFiniteSet(0..clock) /\ 0..clock \subseteq Int
    BY <2>1, FS_Interval
  <2> QED
    BY <2>1, <2>2, FS_Subset DEF IsSeries
<1>2. \E x \in DOMAIN rows : rows[x] = h
  <2> DEFINE S == DOMAIN Dump(s)
  <2> HIDE DEF S
  <2>1. /\ Ascending(S) \in Seq(S) /\ Len(Ascending(S)) = Cardinality(S)
        /\ \A x \in S : \E k \in 1..Cardinality(S) : Ascending(S)[k] = x
    BY <1>1, AscendingLists DEF S
  <2>2. DOMAIN Ascending(S) = 1..Cardinality(S)
    BY <2>1
  <2> QED
    BY <2>1, <2>2 DEF S
<1> HIDE DEF rows
<1>3. i \in DOMAIN rows
  BY <1>2
<1>4. DumpFeatures(s, h) = PandasFeatures(bars)[i]
  BY DEF DumpFeatures, rows
<1>5. i \in DOMAIN bars
  BY <1>3
<1> HIDE DEF bars, i
<1> QED
  BY <1>4, <1>5, TechnicalWords

\* Nothing is to be refilled in an hour that the symbol has.
LEMMA RefillIs ==
  ASSUME NEW bars, NEW T \in Nat, IsSeries(bars, T), NEW h \in DOMAIN bars
  PROVE  Refill(bars, h) = bars[h]
<1> DEFINE before == {x \in DOMAIN bars : x <= h}
<1>1. IsFiniteSet(before) /\ before \in SUBSET Int /\ h \in before
  <2>1. DOMAIN bars \subseteq 0..T /\ h \in Int
    BY DEF IsSeries
  <2>2. T \in Int /\ 0 \in Int
    OBVIOUS
  <2>3. IsFiniteSet(0..T) /\ 0..T \subseteq Int
    BY <2>2, FS_Interval
  <2>4. before \subseteq 0..T /\ h \in before
    BY <2>1
  <2> QED
    BY <2>3, <2>4, FS_Subset
<1>2. \A x \in before : x <= h
  OBVIOUS
<1>3. Refill(bars, h) = bars[Max(before)]
  BY <1>1 DEF Refill
<1> HIDE DEF before
<1>4. Max(before) \in before /\ h <= Max(before)
  BY <1>1, MaxExists
<1>5. Max(before) = h
  <2> DEFINE m == Max(before)
  <2>1. m \in before /\ h <= m /\ m \in Int /\ h \in Int
    BY <1>1, <1>4
  <2> HIDE DEF m
  <2>2. m = h
    BY <1>2, <2>1
  <2> QED
    BY <2>2 DEF m
<1> QED
  BY <1>3, <1>5

\* What is exported of dumps is what the file is to hold.
LEMMA ExportIs ==
  ASSUME ProgramInv, DataIsSound, EndExport
  PROVE  \/ Die("data")
         \/ \E names, features, prices :
              IsContent(names, features, prices) /\ Write(names, features, prices)
<1> DEFINE series == job["data"].got["dump"]
           kept == Present(series)
           common == CommonIndex(series)
           late == {h \in common : h >= Since}
           hours == Ascending(late)
           features == [t \in DOMAIN hours |-> [i \in DOMAIN kept |->
                          ForecastWords(kept[i], hours[t]) \o DumpFeatures(kept[i], hours[t])]]
           prices == [t \in DOMAIN hours |-> [i \in DOMAIN kept |->
                        Price(Refill(series[kept[i]], hours[t]))]]
           nt == Len(hours)
           ns == Len(kept)
           bar == [t \in 1..nt |-> [i \in 1..ns |-> Dump(kept[i])[hours[t]]]]
           words == [t \in 1..nt |-> [i \in 1..ns |-> DumpFeatures(kept[i], hours[t])]]
<1>1. SUFFICES ASSUME ~Die("data")
               PROVE  \E n, f, p : IsContent(n, f, p) /\ Write(n, f, p)
  OBVIOUS
<1>2. /\ Write(kept, features, prices) /\ job["data"].pc = "export"
      /\ kept # <<>> /\ ~(nt < MinRows)
  <2> DEFINE after(se) == {h \in CommonIndex(se) : h >= Since}
             featureRows(k, hs) == [t \in DOMAIN hs |-> [i \in DOMAIN k |->
                                      ForecastWords(k[i], hs[t]) \o DumpFeatures(k[i], hs[t])]]
             priceRows(se, k, hs) == [t \in DOMAIN hs |-> [i \in DOMAIN k |->
                                        Price(Refill(se[k[i]], hs[t]))]]
             ends(se, k, c, hs) ==
               IF k = <<>> \/ Cardinality(c) < MinRows \/ Len(hs) < MinRows THEN Die("data")
               ELSE Write(k, featureRows(k, hs), priceRows(se, k, hs))
  <2>1. \E se \in {series} : \E k \in {Present(se)}, c \in {CommonIndex(se)} :
          \E hs \in {Ascending({h \in c : h >= Since})} : ends(se, k, c, hs)
    BY DEF EndExport
  <2>2. \A c, x : x \in {h \in c : h >= Since} <=> x \in c /\ x >= Since
    OBVIOUS
  <2>3. features = featureRows(kept, hours) /\ prices = priceRows(series, kept, hours)
    OBVIOUS
  <2> HIDE DEF series, kept, features, prices, featureRows, priceRows, ends
  <2>4. ends(series, kept, common, hours)
    BY <2>1 DEF kept
  <2> HIDE DEF common, late, hours
  <2>5. Write(kept, features, prices) /\ kept # <<>> /\ ~(nt < MinRows)
    BY <1>1, <2>3, <2>4 DEF ends
  <2> QED
    BY <2>5 DEF EndExport
<1>3. /\ Exported /\ clock \in Nat
      /\ \A s \in Sym : IsSeries(series[s], clock)
      /\ \A s \in Sym : \A h \in DOMAIN series[s] :
           h \in DOMAIN Dump(s) /\ series[s][h] = Dump(s)[h]
  <2>1. "data" \in Jobs /\ "dump" \in Sources
    BY DEF Jobs, Sources
  <2>2. \A s \in Sym : IsSeries(series[s], clock) /\ clock \in Nat
    BY <2>1, OneFinds
  <2>3. Exported
    BY <1>2 DEF DataIsSound, IsOfPlan, Exported
  <2>4. clock \in Nat
    BY <2>1, OneFinds
  <2> QED
    BY <2>2, <2>3, <2>4 DEF DataIsSound
<1> HIDE DEF series
<1>4. kept \in Seq(Sym) /\ kept # <<>> /\ ToSet(kept) = {s \in Sym : series[s] # <<>>}
      /\ \A i \in 1..ns : kept[i] \in Sym /\ kept[i] \in ToSet(kept)
  <2>1. kept \in Seq(Sym) /\ ToSet(kept) = {s \in Sym : series[s] # <<>>}
    BY PresentIs
  <2> HIDE DEF kept
  <2>2. \A i \in 1..ns : kept[i] \in Sym /\ kept[i] \in ToSet(kept)
    BY <2>1 DEF ToSet
  <2> QED
    BY <1>2, <2>1, <2>2
<1>5. late \subseteq common /\ common \subseteq Hours
      /\ \A h \in common, s \in ToSet(kept) : h \in DOMAIN series[s]
  BY DEF CommonIndex
<1>6. late \in SUBSET Int /\ IsFiniteSet(late)
  <2> HIDE DEF late, common
  <2>1. LastHour \in Int /\ 0 \in Int
    BY PipelineAssumption
  <2>2. IsFiniteSet(Hours) /\ Hours \subseteq Int
    BY <2>1, FS_Interval DEF Hours
  <2>3. late \subseteq Hours
    BY <1>5
  <2> QED
    BY <2>2, <2>3, FS_Subset
<1> HIDE DEF kept, common, late
<1>7. hours \in Seq(late) /\ DOMAIN hours = 1..nt /\ nt \in Nat \ {0}
  <2>1. hours \in Seq(late)
    BY <1>6, AscendingLists
  <2> HIDE DEF hours
  <2>2. MinRows \in Nat \ {0}
    BY PipelineAssumption
  <2>3. DOMAIN hours = 1..nt /\ nt \in Nat
    BY <2>1
  <2> QED
    BY <1>2, <2>1, <2>2, <2>3
<1>8. \A t \in 1..nt : HourOf(t) = hours[t]
  BY <1>3 DEF HourOf, hours, late, common, series
<1> HIDE DEF hours
<1>9. \A t \in 1..nt, i \in 1..ns :
        /\ hours[t] \in DOMAIN Dump(kept[i])
        /\ Refill(series[kept[i]], hours[t]) = Dump(kept[i])[hours[t]]
        /\ IsWords(DumpFeatures(kept[i], hours[t]), 8)
  <2> TAKE t \in 1..nt, i \in 1..ns
  <2> DEFINE s == kept[i]
             h == hours[t]
             bars == series[s]
  <2>1. s \in Sym /\ h \in DOMAIN bars
    BY <1>4, <1>5, <1>7
  <2>2. IsSeries(bars, clock) /\ h \in DOMAIN Dump(s) /\ bars[h] = Dump(s)[h]
    BY <1>3, <2>1
  <2> HIDE DEF bars, s, h
  <2>3. Refill(bars, h) = bars[h]
    BY <1>3, <2>1, <2>2, RefillIs
  <2>4. IsWords(DumpFeatures(s, h), 8)
    BY <2>1, <2>2, DumpWords
  <2> QED
    BY <2>2, <2>3, <2>4 DEF s, h, bars
<1>10. /\ features = [t \in 1..nt |-> [i \in 1..ns |->
                        ForecastWords(kept[i], hours[t]) \o words[t][i]]]
       /\ prices = [t \in 1..nt |-> [i \in 1..ns |-> Price(bar[t][i])]]
       /\ \A t \in 1..nt, i \in 1..ns : IsWords(words[t][i], 8)
       /\ \A t \in 1..nt, i \in 1..ns : Price(bar[t][i]) = Price(Dump(kept[i])[hours[t]])
  <2>1. DOMAIN kept = 1..ns
    BY <1>4
  <2> HIDE DEF nt, ns
  <2>2. \A t \in 1..nt, i \in 1..ns : /\ words[t][i] = DumpFeatures(kept[i], hours[t])
                                      /\ bar[t][i] = Dump(kept[i])[hours[t]]
    OBVIOUS
  <2> HIDE DEF words, bar
  <2> DEFINE f(t, i) == ForecastWords(kept[i], hours[t]) \o DumpFeatures(kept[i], hours[t])
             g(t, i) == ForecastWords(kept[i], hours[t]) \o words[t][i]
             p(t, i) == Price(Refill(series[kept[i]], hours[t]))
             q(t, i) == Price(bar[t][i])
  <2>3. \A t \in 1..nt, i \in 1..ns : f(t, i) = g(t, i)
    BY <2>2
  <2>4. \A t \in 1..nt, i \in 1..ns : p(t, i) = q(t, i)
    BY <1>9, <2>2
  <2>5. features = [t \in 1..nt |-> [i \in 1..ns |-> f(t, i)]]
        /\ prices = [t \in 1..nt |-> [i \in 1..ns |-> p(t, i)]]
    BY <1>7, <2>1
  <2> HIDE DEF f, g, p, q, features, prices
  <2>6. features = [t \in 1..nt |-> [i \in 1..ns |-> g(t, i)]]
    BY <2>3, <2>5
  <2>7. prices = [t \in 1..nt |-> [i \in 1..ns |-> q(t, i)]]
    BY <2>4, <2>5
  <2> QED
    BY <1>9, <2>2, <2>6, <2>7 DEF g, q
<1> HIDE DEF features, prices, words, bar, nt
<1>11. /\ Len(prices) = nt
       /\ IsBlock(features, nt, ns, FeaturesPerSym) /\ IsBlock(prices, nt, ns, PriceFeatures)
       /\ \A t \in 1..nt, i \in 1..ns :
            /\ prices[t][i] = Price(bar[t][i])
            /\ IsFeatureRow(features[t][i], kept[i], hours[t], words[t][i])
  <2>1. features = FeatureRows(kept, nt, hours, words) /\ prices = PriceRows(kept, nt, bar)
    BY <1>10 DEF FeatureRows, PriceRows
  <2>2. \A t \in 1..nt, i \in 1..ns : IsWords(words[t][i], 8)
    BY <1>10
  <2>3. AreRows(FeatureRows(kept, nt, hours, words), PriceRows(kept, nt, bar),
                kept, nt, hours, bar, words)
    BY <1>4, <1>7, <2>2, RowsAre
  <2>4. AreRows(features, prices, kept, nt, hours, bar, words)
    BY <2>1, <2>3
  <2> QED
    BY <2>4 DEF AreRows
<1> HIDE DEF ns
<1>12. ASSUME NEW t \in 1..nt, NEW i \in 1..ns
       PROVE  /\ prices[t][i] = RightPrice(kept[i], t)
              /\ \A k \in DOMAIN Horizons : features[t][i][k] = ForecastWords(kept[i], HourOf(t))[k]
  <2>1. RightPrice(kept[i], t) = Price(Dump(kept[i])[hours[t]])
    BY <1>3, <1>8, RightPriceIs
  <2>2. prices[t][i] = RightPrice(kept[i], t)
    BY <1>10, <1>11, <2>1
  <2>3. IsFeatureRow(features[t][i], kept[i], hours[t], words[t][i]) /\ HourOf(t) = hours[t]
    BY <1>8, <1>11
  <2> QED
    BY <2>2, <2>3 DEF IsFeatureRow
<1>13. IsContent(kept, features, prices)
  BY <1>3, <1>4, <1>7, <1>11, <1>12 DEF IsContent, ns
<1> QED
  BY <1>2, <1>13

\* The data program has another record.
LEMMA NewRecord ==
  ASSUME ProgramInv, NEW n, job' = [job EXCEPT !["data"] = n]
  PROVE  job'["data"] = n
<1>1. job = [j \in Jobs |-> job[j]] /\ "data" \in Jobs
  BY DEF ProgramInv, ProgramsAreSound, Jobs
<1> QED
  BY <1>1

\* Nothing of the data program and its file changes.
LEMMA DataRests ==
  ASSUME DataIsSound, MarketFileIsSound, job'["data"] = job["data"], UNCHANGED <<tape, file, whole>>
  PROVE  DataIsSound' /\ MarketFileIsSound'
<1>1. HasSame
  BY DEF HasSame
<1>2. UNCHANGED Series("data") /\ (Exported' <=> Exported)
  BY SameSeries DEF Exported
<1>3. \A s : Dump(s)' = Dump(s)
  BY SameDump
<1>4. DataIsSound'
  BY <1>2, <1>3 DEF DataIsSound
<1>5. MarketFileIsSound'
  <2>1. \A names, features, prices : IsContent(names, features, prices) => IsContent(names, features, prices)'
    BY <1>1, ContentStays
  <2> QED
    BY <2>1 DEF MarketFileIsSound
<1> QED
  BY <1>4, <1>5

LEMMA DataDies ==
  ASSUME ProgramInv, Die("data")
  PROVE  DataIsSound' /\ MarketFileIsSound' /\ job'["data"].pc # "write"
<1> DEFINE n == [Idle EXCEPT !.pc = "dead"]
<1>1. job'["data"] = n
  BY NewRecord DEF Die
<1>2. n.pc = "dead" /\ n.plan = "none" /\ \A src \in Sources, s \in Sym : n.got[src][s] = <<>>
  BY DEF Idle
<1> HIDE DEF n
<1>3. DataIsSound'
  BY <1>1, <1>2 DEF DataIsSound, IsOfPlan, Exported
<1>4. MarketFileIsSound'
  BY <1>1, <1>2 DEF MarketFileIsSound
<1> QED
  BY <1>1, <1>2, <1>3, <1>4

\* Every fetch of a plan is from the plan's own source or from Kraken.
LEMMA PlanIsOfPlan ==
  ASSUME NEW plan \in {"none", "binance", "dump"}
  PROVE  \A i \in DOMAIN FetchPlan(plan) : FetchPlan(plan)[i][1] \in {plan, "kraken"}
<1> DEFINE first == CASE plan = "binance" -> Fetches("binance", FetchBinance)
                      [] plan = "dump"    -> Fetches("dump", Symbols)
                      [] OTHER            -> <<>>
           last == Fetches("kraken", Symbols)
<1>1. Symbols \in Seq(Sym) /\ IsInjective(Symbols)
  BY BarsAssumption DEF Sym
<1>2. FetchBinance \in Seq(Sym) /\ IsInjective(FetchBinance)
  BY <1>1, AtIs DEF FetchBinance
<1>3. last \in Seq(Sources \X Sym) /\ \A i \in 1..Len(last) : last[i][1] = "kraken"
  BY <1>1, FetchesAre DEF Sources
<1>4. first \in Seq(Sources \X Sym) /\ \A i \in 1..Len(first) : first[i][1] = plan
  <2>1. CASE plan = "none"
    BY <2>1
  <2>2. CASE plan = "binance"
    BY <1>2, <2>2, FetchesAre DEF Sources
  <2>3. CASE plan = "dump"
    BY <1>1, <2>3, FetchesAre DEF Sources
  <2> QED
    BY <2>1, <2>2, <2>3
<1>5. FetchPlan(plan) = first \o last
  BY DEF FetchPlan, Fetches
<1> HIDE DEF first, last
<1>6. first \in Seq(Sources \X Sym) /\ last \in Seq(Sources \X Sym)
  BY <1>3, <1>4
<1>7. /\ DOMAIN (first \o last) = 1..(Len(first) + Len(last)) /\ Len(first) \in Nat /\ Len(last) \in Nat
      /\ \A i \in 1..(Len(first) + Len(last)) :
           (first \o last)[i] = IF i <= Len(first) THEN first[i] ELSE last[i - Len(first)]
  BY <1>6
<1> QED
  BY <1>3, <1>4, <1>5, <1>7

LEMMA DataStarts ==
  ASSUME ProgramInv, MarketFileIsSound, NEW plan \in Plans, NEW f, Start("data", plan, f)
  PROVE  DataIsSound' /\ MarketFileIsSound' /\ job'["data"].pc # "write"
<1> DEFINE n == [Idle EXCEPT
                   !.pc = IF plan = "export" THEN "export" ELSE "fetch",
                   !.plan = plan, !.forecasts = f,
                   !.todo = IF plan = "export" THEN Symbols ELSE FetchPlan(plan)]
<1>1. job'["data"] = n
  BY NewRecord DEF Start
<1>2. /\ n.pc = (IF plan = "export" THEN "export" ELSE "fetch") /\ n.plan = plan
      /\ plan # "export" => n.todo = FetchPlan(plan)
      /\ \A src \in Sources, s \in Sym : n.got[src][s] = <<>>
  BY DEF Idle
<1> HIDE DEF n
<1>3. plan # "export" => \A i \in DOMAIN n.todo : n.todo[i][1] \in {plan, "kraken"}
  BY <1>2, PlanIsOfPlan DEF Plans
<1>4. IsOfPlan(n)
  BY <1>2, <1>3 DEF IsOfPlan
<1>5. \A s \in Sym : DOMAIN n.got["dump"][s] = {}
  BY <1>2, EmptySeries DEF Sources
<1>6. DataIsSound'
  BY <1>1, <1>2, <1>4, <1>5 DEF DataIsSound, Exported
<1> QED
  BY <1>1, <1>2, <1>6 DEF MarketFileIsSound

\* A fetch has more only of the source that it asks.
HasMore(r, n) ==
  /\ n.pc = "fetch" /\ n.plan = r.plan /\ n.todo \in {r.todo, Tail(r.todo)}
  /\ \A src \in Sources, s \in Sym : src # r.todo[1][1] => n.got[src][s] = r.got[src][s]

LEMMA FetchIsOfPlan ==
  ASSUME NEW r, NEW n, IsOfPlan(r), r.pc = "fetch", r.todo \in Seq(Sources \X Sym), r.todo # <<>>,
         HasMore(r, n)
  PROVE  IsOfPlan(n)
<1>0. /\ n.pc = "fetch" /\ n.plan = r.plan /\ n.todo \in {r.todo, Tail(r.todo)}
      /\ \A src \in Sources, s \in Sym : src # r.todo[1][1] => n.got[src][s] = r.got[src][s]
  BY DEF HasMore
<1>1. \A i \in DOMAIN r.todo : r.todo[i][1] \in {r.plan, "kraken"}
  BY DEF IsOfPlan
<1>2. \A i \in DOMAIN n.todo : n.todo[i][1] \in {r.plan, "kraken"}
  <2>1. CASE n.todo = r.todo
    BY <1>1, <2>1
  <2>2. CASE n.todo = Tail(r.todo)
    BY <1>1, <2>2, TailIs
  <2> QED
    BY <1>0, <2>1, <2>2
<1>3. r.todo[1][1] \in {r.plan, "kraken"}
  BY <1>1, TailIs
<1> QED
  BY <1>0, <1>2, <1>3 DEF IsOfPlan

LEMMA DataFetches ==
  ASSUME ProgramInv, DataIsSound, MarketFileIsSound, OpenFetch("data") \/ FetchPage("data")
  PROVE  DataIsSound' /\ MarketFileIsSound' /\ job'["data"].pc # "write"
<1> DEFINE r == job["data"]
<1>1. /\ IsOfPlan(r) /\ r.pc = "fetch" /\ r.todo # <<>> /\ r.todo \in Seq(Sources \X Sym)
      /\ IsProgram(r, clock) /\ file' = file
  <2>1. "data" \in Jobs
    BY DEF Jobs
  <2>2. r.pc = "fetch" /\ IsSound(r, tape, clock) /\ IsProgram(r, clock)
    BY <2>1, OneFinds DEF OpenFetch, FetchPage
  <2>3. r.todo # <<>>
    <3>1. CASE OpenFetch("data")
      BY <3>1 DEF OpenFetch
    <3>2. CASE FetchPage("data")
      <4>1. IsSound(r, tape, clock) /\ r.pc = "fetch" /\ r.cursor # None
        BY <2>1, <3>2, FetchPageIs
      <4> QED
        BY <4>1 DEF IsSound, IsPaging
    <3> QED
      BY <3>1, <3>2
  <2>4. file' = file
    BY <2>1, StepsLeave
  <2> QED
    BY <2>2, <2>3, <2>4 DEF DataIsSound, IsSound, IsFetch
<1>2. PICK n : job'["data"] = n /\ HasMore(r, n)
  <2> DEFINE src == r.todo[1][1]
             s == r.todo[1][2]
  <2>1. /\ r \in [pc : Places, plan : Plans, forecasts : BOOLEAN, todo : {r.todo},
                  cursor : Nat \cup {None}, until : 0..clock,
                  got : {[x \in Sources |-> [y \in Sym |-> r.got[x][y]]]},
                  joined : {r.joined}, chunks : {r.chunks}]
        /\ Head(r.todo) = r.todo[1]
    BY <1>1, TailIs DEF IsProgram
  <2>2. CASE OpenFetch("data") /\ src = "dump"
    <3> DEFINE n == [r EXCEPT !.got["dump"][s] = Dump(s), !.todo = Tail(@)]
    <3>1. job' = [job EXCEPT !["data"] = n]
      <4>1. job' = [job EXCEPT !["data"].got["dump"][s] = Dump(s), !["data"].todo = Tail(@)]
        BY <2>1, <2>2 DEF OpenFetch
      <4> QED
        BY <4>1
    <3>2. job'["data"] = n
      <4> HIDE DEF n
      <4> QED
        BY <3>1, NewRecord
    <3>3. n.pc = "fetch" /\ n.plan = r.plan /\ n.todo = Tail(r.todo)
      <4> HIDE DEF r, s
      <4> QED
        BY <1>1, <2>1
    <3>4. \A x \in Sources, y \in Sym : x # "dump" => n.got[x][y] = r.got[x][y]
      <4> HIDE DEF r, s
      <4>1. n.got = [r.got EXCEPT !["dump"][s] = Dump(s)]
        BY <2>1
      <4> HIDE DEF n
      <4> QED
        BY <2>1, <4>1
    <3> HIDE DEF n
    <3>5. \A x \in Sources, y \in Sym : x # src => n.got[x][y] = r.got[x][y]
      BY <2>2, <3>4
    <3>6. HasMore(r, n)
      BY <3>3, <3>5 DEF HasMore
    <3> QED
      BY <3>2, <3>6
  <2>3. CASE OpenFetch("data") /\ src # "dump"
    <3> DEFINE n == [r EXCEPT !.cursor = Since, !.until = clock]
    <3>1. job' = [job EXCEPT !["data"] = n]
      <4>1. job' = [job EXCEPT !["data"].cursor = Since, !["data"].until = clock]
        BY <2>1, <2>3 DEF OpenFetch
      <4> QED
        BY <4>1
    <3>2. job'["data"] = n
      <4> HIDE DEF n
      <4> QED
        BY <3>1, NewRecord
    <3>3. n.pc = "fetch" /\ n.plan = r.plan /\ n.todo = r.todo /\ n.got = r.got
      <4> HIDE DEF r
      <4> QED
        BY <1>1, <2>1
    <3> HIDE DEF n
    <3>4. HasMore(r, n)
      BY <3>3 DEF HasMore
    <3> QED
      BY <3>2, <3>4
  <2>4. CASE FetchPage("data")
    <3> DEFINE n == AfterPage(r)
    <3>1. job' = [job EXCEPT !["data"] = n]
      <4>1. "data" \in Jobs
        BY DEF Jobs
      <4> QED
        BY <2>4, <4>1, FetchPageIs
    <3>2. job'["data"] = n
      BY <3>1, NewRecord
    <3>3. n.pc = "fetch" /\ n.plan = r.plan /\ n.todo \in {r.todo, Tail(r.todo)}
      <4> HIDE DEF r
      <4> QED
        BY <1>1, <2>1 DEF AfterPage, SourceOf, NameOf
    <3>4. \A x \in Sources, y \in Sym : x # src => n.got[x][y] = r.got[x][y]
      <4>1. n.got = [r.got EXCEPT ![src][s] = Fetched(r)]
        <5> HIDE DEF r
        <5> QED
          BY <2>1 DEF AfterPage, SourceOf, NameOf
      <4> HIDE DEF n, r, s, src
      <4> QED
        BY <2>1, <4>1
    <3> HIDE DEF n
    <3>5. HasMore(r, n)
      BY <3>3, <3>4 DEF HasMore
    <3> QED
      BY <3>2, <3>5
  <2> QED
    BY <2>2, <2>3, <2>4
<1>3. IsOfPlan(n)
  <2> HIDE DEF r
  <2> QED
    BY <1>1, <1>2, FetchIsOfPlan
<1>4. DataIsSound'
  <2>1. job'["data"] = n /\ n.pc = "fetch" /\ n.plan # "export"
    BY <1>1, <1>2 DEF HasMore, IsOfPlan
  <2> QED
    BY <1>3, <2>1 DEF DataIsSound, Exported
<1>5. job'["data"].pc = "fetch"
  BY <1>2 DEF HasMore
<1> QED
  BY <1>4, <1>5 DEF MarketFileIsSound

LEMMA DataJoins ==
  ASSUME ProgramInv, DataIsSound, MarketFileIsSound, Align \/ JoinForecasts
  PROVE  DataIsSound' /\ MarketFileIsSound' /\ job'["data"].pc # "write"
<1> DEFINE r == job["data"]
<1>1. SUFFICES ASSUME ~Die("data")
               PROVE  DataIsSound' /\ MarketFileIsSound' /\ job'["data"].pc # "write"
  BY DataDies
<1>2. IsProgram(r, clock) /\ file' = file
  <2>1. "data" \in Jobs
    BY DEF Jobs
  <2> QED
    BY <2>1, OneFinds, StepsLeave
<1>3. PICK n : /\ job'["data"] = n /\ n.pc = "join" /\ n.plan = r.plan /\ n.got = r.got
               /\ r.pc \in {"fetch", "join"} /\ Alignable(Series("data"))
  <2>1. r \in [pc : Places, plan : Plans, forecasts : BOOLEAN, todo : {r.todo},
               cursor : Nat \cup {None}, until : 0..clock, got : {r.got},
               joined : {r.joined}, chunks : {r.chunks}]
    BY <1>2 DEF IsProgram
  <2>2. CASE Align
    <3> DEFINE todo == IF r.forecasts THEN Present(Series("data")) ELSE <<>>
               n == [r EXCEPT !.pc = "join", !.todo = todo]
    <3>1. job' = [job EXCEPT !["data"] = n] /\ r.pc = "fetch" /\ Alignable(Series("data"))
      BY <1>1, <2>2 DEF Align
    <3>2. n.pc = "join" /\ n.plan = r.plan /\ n.got = r.got
      <4> HIDE DEF r
      <4> QED
        BY <2>1
    <3> HIDE DEF n
    <3>3. job'["data"] = n
      BY <3>1, NewRecord
    <3> QED
      BY <3>1, <3>2, <3>3
  <2>3. CASE JoinForecasts
    <3> DEFINE s == Head(r.todo)
               fc == LoadForecasts(s)
               n == [r EXCEPT !.joined[s] = fc, !.todo = Tail(@)]
    <3>1. job' = [job EXCEPT !["data"] = n] /\ r.pc = "join"
      BY <1>1, <2>3 DEF JoinForecasts
    <3>2. n.pc = "join" /\ n.plan = r.plan /\ n.got = r.got
      <4> HIDE DEF r, s, fc
      <4> QED
        BY <2>1, <3>1 DEF r
    <3> HIDE DEF n
    <3>3. job'["data"] = n
      BY <3>1, NewRecord
    <3> QED
      BY <3>1, <3>2, <3>3 DEF DataIsSound
  <2> QED
    BY <2>2, <2>3
<1>4. UNCHANGED Series("data")
  BY <1>3, SameSeries
<1>5. IsOfPlan(n) /\ n.plan # "export"
  BY <1>3 DEF DataIsSound, IsOfPlan
<1>6. DataIsSound'
  BY <1>3, <1>4, <1>5 DEF DataIsSound, Exported
<1> QED
  BY <1>3, <1>6 DEF MarketFileIsSound

\* A symbol that is exported is exported as it was dumped.
LEMMA DataExports ==
  ASSUME ProgramInv, DataIsSound, MarketFileIsSound, ExportSymbol
  PROVE  DataIsSound' /\ MarketFileIsSound' /\ job'["data"].pc # "write"
<1> DEFINE r == job["data"]
           s == Head(r.todo)
           fc == IF s \in Dumped THEN LoadForecasts(s) ELSE None
           valid == {h \in DOMAIN Dump(s) :
                       \A k \in DOMAIN Horizons : Reindex(fc[Horizons[k]], h) # NoForecast}
           f == Restrict(Dump(s), valid)
           skip == [r EXCEPT !.todo = Tail(@)]
           keep == [r EXCEPT !.todo = Tail(@), !.joined[s] = fc, !.got["dump"][s] = f]
<1>1. SUFFICES ASSUME ~Die("data")
               PROVE  DataIsSound' /\ MarketFileIsSound' /\ job'["data"].pc # "write"
  BY DataDies
<1>2. /\ job' = [job EXCEPT !["data"] = keep] \/ job' = [job EXCEPT !["data"] = skip]
      /\ r.pc = "export" /\ UNCHANGED <<tape, file, whole>>
  <2>1. /\ UNCHANGED <<tape, file, whole>> /\ r.pc = "export"
        /\ IF fc = Failed THEN Die("data")
           ELSE IF fc # None /\ Cardinality(valid) >= MinRows
           THEN job' = [job EXCEPT !["data"].todo = Tail(@), !["data"].joined[s] = fc,
                                   !["data"].got["dump"][s] = f]
           ELSE job' = [job EXCEPT !["data"].todo = Tail(@)]
    BY DEF ExportSymbol
  <2> HIDE DEF fc, s, valid, f
  <2> QED
    BY <1>1, <2>1
<1>3. /\ r \in [pc : Places, plan : Plans, forecasts : BOOLEAN, todo : {r.todo},
                cursor : Nat \cup {None}, until : 0..clock,
                got : {[x \in Sources |-> [y \in Sym |-> r.got[x][y]]]},
                joined : {r.joined}, chunks : {r.chunks}]
      /\ r.plan = "export"
      /\ \A x \in Sym : \A h \in DOMAIN r.got["dump"][x] : h \in DOMAIN Dump(x) /\ r.got["dump"][x][h] = Dump(x)[h]
  <2>1. "data" \in Jobs
    BY DEF Jobs
  <2>2. IsProgram(r, clock)
    BY <2>1, OneFinds
  <2>3. r.plan = "export"
    BY <1>2 DEF DataIsSound, IsOfPlan
  <2> QED
    BY <2>2, <2>3 DEF IsProgram, DataIsSound, Exported
<1>4. \A h \in DOMAIN f : h \in DOMAIN Dump(s) /\ f[h] = Dump(s)[h]
  <2>1. f = [h \in valid |-> Dump(s)[h]]
    BY DEF Restrict
  <2>2. valid \subseteq DOMAIN Dump(s)
    OBVIOUS
  <2> HIDE DEF valid, f
  <2> QED
    BY <2>1, <2>2
<1> HIDE DEF fc, f
<1>5. PICK n : /\ job'["data"] = n /\ n.pc = "export" /\ n.plan = "export"
               /\ \A x \in Sym : n.got["dump"][x] \in {r.got["dump"][x]} \cup {f : y \in {s} \cap {x}}
  <2>1. CASE job' = [job EXCEPT !["data"] = keep]
    <3>1. keep.pc = "export" /\ keep.plan = "export"
      <4> HIDE DEF r, s
      <4> QED
        BY <1>2, <1>3
    <3>2. \A x \in Sym : keep.got["dump"][x] \in {r.got["dump"][x]} \cup {f : y \in {s} \cap {x}}
      <4> HIDE DEF r, s
      <4>1. keep.got = [r.got EXCEPT !["dump"][s] = f]
        BY <1>3
      <4> HIDE DEF keep
      <4> DEFINE got == r.got
      <4>2. /\ got = [x \in Sources |-> [y \in Sym |-> got[x][y]]]
            /\ keep.got = [got EXCEPT !["dump"][s] = f] /\ "dump" \in Sources
        BY <1>3, <4>1 DEF Sources
      <4> HIDE DEF got
      <4>3. ASSUME NEW x \in Sym PROVE keep.got["dump"][x] = IF x = s THEN f ELSE got["dump"][x]
        BY <4>2
      <4> QED
        BY <4>3 DEF got
    <3> HIDE DEF keep
    <3>3. job'["data"] = keep
      BY <2>1, NewRecord
    <3> QED
      BY <3>1, <3>2, <3>3
  <2>2. CASE job' = [job EXCEPT !["data"] = skip]
    <3>1. skip.pc = "export" /\ skip.plan = "export" /\ skip.got = r.got
      <4> HIDE DEF r
      <4> QED
        BY <1>2, <1>3
    <3> HIDE DEF skip
    <3>2. job'["data"] = skip
      BY <2>2, NewRecord
    <3> QED
      BY <3>1, <3>2
  <2> QED
    BY <1>2, <2>1, <2>2
<1>6. \A x : Dump(x)' = Dump(x)
  BY <1>2, SameDump
<1>7. \A x \in Sym : \A h \in DOMAIN n.got["dump"][x] :
        h \in DOMAIN Dump(x) /\ n.got["dump"][x][h] = Dump(x)[h]
  <2> TAKE x \in Sym
  <2>1. \/ n.got["dump"][x] = r.got["dump"][x]
        \/ n.got["dump"][x] = f /\ s = x
    BY <1>5
  <2> HIDE DEF r, s
  <2> QED
    BY <1>3, <1>4, <2>1
<1>8. DataIsSound'
  BY <1>5, <1>6, <1>7 DEF DataIsSound, IsOfPlan
<1> QED
  BY <1>5, <1>8 DEF MarketFileIsSound

\* A block of rows is not empty.
LEMMA BlockHasWords ==
  ASSUME NEW rows, NEW nt \in Nat \ {0}, NEW ns \in Nat \ {0}, NEW per \in Nat \ {0},
         IsBlock(rows, nt, ns, per)
  PROVE  Flatten(rows) # <<>>
<1>1. Size(nt, ns, per) # 0
  <2>1. ns * per \in Nat \ {0} /\ (nt * ns) * per = nt * (ns * per)
    OBVIOUS
  <2> DEFINE m == ns * per
  <2> HIDE DEF m
  <2>2. nt * m # 0
    BY <2>1 DEF m
  <2> QED
    BY <2>1, <2>2 DEF Size, m
<1>2. Flatten(rows) \in Seq(Cells(rows, nt, ns, per)) /\ Len(Flatten(rows)) = Size(nt, ns, per)
  BY FlattenIs
<1> HIDE DEF Flatten
<1> QED
  BY <1>1, <1>2

LEMMA OneBefore ==
  ASSUME NEW z, NEW a, NEW b, NEW c
  PROVE  /\ Head(<<z>> \o <<a, b, c>>) = z /\ Tail(<<z>> \o <<a, b, c>>) = <<a, b, c>>
         /\ <<z>> \o <<a, b, c>> # <<>>
<1> DEFINE Y == {z, a, b, c}
           e == <<z>>
           w == <<a, b, c>>
           s == e \o w
<1>1. e \in Seq(Y) /\ w \in Seq(Y) /\ Len(e) = 1 /\ Len(w) = 3 /\ e[1] = z
  OBVIOUS
<1> HIDE DEF Y, e, w
<1>2. e \in Seq(Y) /\ w \in Seq(Y)
  BY <1>1
<1>3. /\ s \in Seq(Y) /\ Len(s) = Len(e) + Len(w)
      /\ \A k \in 1..Len(e) : s[k] = e[k]
      /\ \A k \in 1..Len(w) : s[Len(e) + k] = w[k]
  BY <1>2
<1> HIDE DEF s
<1>4. s # <<>> /\ Len(s) = 4 /\ s[1] = z /\ \A k \in 1..3 : s[k + 1] = w[k]
  BY <1>1, <1>3
<1>5. Head(s) = z
  BY <1>3, <1>4
<1>6. Tail(s) \in Seq(Y) /\ Len(Tail(s)) = 3 /\ \A k \in 1..3 : Tail(s)[k] = s[k + 1]
  <2>1. s \in Seq(Y) /\ s # <<>>
    BY <1>3, <1>4
  <2>2. Tail(s) \in Seq(Y) /\ \A k \in DOMAIN Tail(s) : Tail(s)[k] = s[k + 1]
    BY <2>1, TailIs
  <2>3. Len(Tail(s)) = Len(s) - 1
    BY <2>1
  <2> DEFINE t == Tail(s)
  <2> HIDE DEF t
  <2>4. t \in Seq(Y) /\ Len(t) = 3
    BY <1>4, <2>2, <2>3 DEF t
  <2>5. DOMAIN t = 1..3
    BY <2>4
  <2> QED
    BY <2>2, <2>4, <2>5 DEF t
<1>7. Tail(s) = w
  <2>1. Tail(s) \in Seq(Y) /\ Len(Tail(s)) = 3 /\ \A k \in 1..3 : Tail(s)[k] = w[k]
    BY <1>4, <1>6
  <2> DEFINE t == Tail(s)
  <2> HIDE DEF t
  <2>2. t = [k \in 1..3 |-> t[k]] /\ w = [k \in 1..3 |-> w[k]]
    <3> DEFINE n == 3
    <3>1. t \in Seq(Y) /\ Len(t) = n /\ w \in Seq(Y) /\ Len(w) = n
      BY <1>1, <2>1 DEF t
    <3> HIDE DEF n
    <3>2. t = [k \in 1..n |-> t[k]] /\ w = [k \in 1..n |-> w[k]]
      BY <3>1
    <3> QED
      BY <3>2 DEF n
  <2>3. \A k \in 1..3 : t[k] = w[k]
    BY <2>1 DEF t
  <2> QED
    BY <2>2, <2>3 DEF t
<1> QED
  BY <1>4, <1>5, <1>7 DEF s, e, w

\* The next of the writes.
LEMMA WrittenGoesOn ==
  ASSUME NEW X, NEW a \in Seq(X), a # <<>>, NEW b, b # <<>>, NEW c, c # <<>>,
         NEW words, NEW chunks, chunks # <<>>, IsWritten(words, chunks, <<a, b, c>>)
  PROVE  IsWritten(IF Head(chunks) = <<>> THEN <<>> ELSE words \o Head(chunks), Tail(chunks), <<a, b, c>>)
<1> DEFINE w == <<a, b, c>>
           next == IF Head(chunks) = <<>> THEN <<>> ELSE words \o Head(chunks)
<1>1. w[1] = a /\ w[2] = b /\ w[3] = c
  OBVIOUS
<1>2. CASE chunks = <<<<>>>> \o w
  <2>1. Head(<<<<>>>> \o w) = <<>> /\ Tail(<<<<>>>> \o w) = w
    BY OneBefore
  <2>2. Head(chunks) = <<>> /\ Tail(chunks) = <<a, b, c>>
    BY <1>2, <2>1
  <2> QED
    BY <2>2 DEF IsWritten
<1>3. CASE chunks = w /\ words = <<>>
  <2>1. Head(chunks) = a /\ Tail(chunks) = <<b, c>>
    BY <1>3
  <2>2. <<>> \o a = a
    OBVIOUS
  <2>3. next = a
    BY <1>3, <2>1, <2>2
  <2> QED
    BY <1>1, <2>1, <2>3 DEF IsWritten
<1>4. CASE chunks = <<w[2], w[3]>> /\ words = w[1]
  <2>1. Head(chunks) = b /\ Tail(chunks) = <<c>>
    BY <1>1, <1>4
  <2>2. next = a \o b
    BY <1>1, <1>4, <2>1
  <2> QED
    BY <1>1, <2>1, <2>2 DEF IsWritten
<1>5. CASE chunks = <<w[3]>> /\ words = w[1] \o w[2]
  <2>1. Head(chunks) = c /\ Tail(chunks) = <<>>
    BY <1>1, <1>5
  <2>2. next = (a \o b) \o c
    BY <1>1, <1>5, <2>1
  <2> QED
    BY <1>1, <2>1, <2>2 DEF IsWritten
<1> QED
  BY <1>2, <1>3, <1>4, <1>5 DEF IsWritten

\* The words of the content's file.
LEMMA ContentWords ==
  ASSUME NEW names, NEW features, NEW prices, IsContent(names, features, prices)
  PROVE  \E X : \E a \in Seq(X) : \E b, c :
           /\ a # <<>> /\ b # <<>> /\ c # <<>>
           /\ MarketBin(names, features, prices, FeaturesPerSym) = <<a, b, c>>
<1> DEFINE X == Nat \cup Sym
           head == <<Len(names), Len(prices), FeaturesPerSym>>
           a == head \o names
           b == Flatten(features)
           c == Flatten(prices)
<1>1. /\ names \in Seq(Sym) /\ names # <<>> /\ Len(prices) \in Nat \ {0}
      /\ IsBlock(features, Len(prices), Len(names), FeaturesPerSym)
      /\ IsBlock(prices, Len(prices), Len(names), PriceFeatures)
  BY DEF IsContent
<1>2. Len(names) \in Nat \ {0} /\ FeaturesPerSym \in Nat \ {0} /\ PriceFeatures \in Nat \ {0}
  BY <1>1, WordCount, PriceWords
<1>3. b # <<>> /\ c # <<>>
  BY <1>1, <1>2, BlockHasWords
<1>4. a \in Seq(X) /\ a # <<>>
  <2>1. head \in Seq(X) /\ names \in Seq(X) /\ Len(head) = 3
    BY <1>1, <1>2
  <2> HIDE DEF X, head
  <2> DEFINE k == Len(head)
  <2> HIDE DEF k
  <2>2. head \o names \in Seq(X) /\ Len(head \o names) = k + Len(names)
    <3>1. head \in Seq(X) /\ names \in Seq(X)
      BY <2>1
    <3> QED
      BY <3>1 DEF k
  <2>3. 3 + Len(names) # 0
    BY <1>2
  <2> QED
    BY <2>1, <2>2, <2>3 DEF k
<1>5. MarketBin(names, features, prices, FeaturesPerSym) = <<a, b, c>>
  BY DEF MarketBin
<1> HIDE DEF X, a, b, c
<1> QED
  BY <1>3, <1>4, <1>5

\* Writing goes on with the same content.
LEMMA ContentIsWritten ==
  ASSUME ProgramInv, WriteChunk, NEW names, NEW features, NEW prices,
         IsContent(names, features, prices),
         IsWritten(file, job["data"].chunks, MarketBin(names, features, prices, FeaturesPerSym))
  PROVE  /\ HasSame /\ job["data"].pc = "write" /\ job'["data"].pc = "write"
         /\ job["data"].chunks # <<>> /\ job'["data"].chunks = Tail(job["data"].chunks)
         /\ IsContent(names, features, prices)'
         /\ IsWritten(file', job'["data"].chunks, MarketBin(names, features, prices, FeaturesPerSym))
<1> DEFINE r == job["data"]
           n == [r EXCEPT !.chunks = Tail(@)]
<1>1. /\ r.pc = "write" /\ r.chunks # <<>> /\ UNCHANGED tape
      /\ file' = IF Head(r.chunks) = <<>> THEN <<>> ELSE file \o Head(r.chunks)
      /\ job' = [job EXCEPT !["data"] = n]
  BY DEF WriteChunk
<1>2. n.pc = "write" /\ n.plan = r.plan /\ n.got = r.got /\ n.joined = r.joined /\ n.chunks = Tail(r.chunks)
  <2>1. "data" \in Jobs
    BY DEF Jobs
  <2>2. IsProgram(r, clock)
    BY <2>1, OneFinds
  <2> HIDE DEF r
  <2> QED
    BY <1>1, <2>2 DEF IsProgram
<1> HIDE DEF n
<1>3. job'["data"] = n
  BY <1>1, NewRecord
<1>4. HasSame
  BY <1>1, <1>2, <1>3 DEF HasSame
<1>5. IsWritten(file', n.chunks, MarketBin(names, features, prices, FeaturesPerSym))
  <2> DEFINE w == MarketBin(names, features, prices, FeaturesPerSym)
  <2>1. PICK X : \E a \in Seq(X) : \E b, c :
               a # <<>> /\ b # <<>> /\ c # <<>> /\ w = <<a, b, c>>
    BY ContentWords
  <2>2. PICK a, b, c : /\ a \in Seq(X)
                       /\ a # <<>> /\ b # <<>> /\ c # <<>> /\ w = <<a, b, c>>
    BY <2>1
  <2> HIDE DEF w, r
  <2>3. IsWritten(file, r.chunks, <<a, b, c>>)
    BY <2>2 DEF w, r
  <2>4. IsWritten(IF Head(r.chunks) = <<>> THEN <<>> ELSE file \o Head(r.chunks), Tail(r.chunks), <<a, b, c>>)
    BY <1>1, <2>2, <2>3, WrittenGoesOn
  <2>5. IsWritten(file', n.chunks, <<a, b, c>>)
    BY <1>1, <1>2, <2>4
  <2> QED
    BY <2>2, <2>5 DEF w
<1>6. IsContent(names, features, prices)'
  BY <1>4, ContentStays
<1> QED
  BY <1>1, <1>2, <1>3, <1>4, <1>5, <1>6

\* Writing goes on, or ends.
LEMMA DataWrites ==
  ASSUME ProgramInv, DataIsSound, MarketFileIsSound, WriteChunk
  PROVE  DataIsSound' /\ MarketFileIsSound'
<1>1. PICK names, features, prices :
        /\ IsContent(names, features, prices)
        /\ IsWritten(file, job["data"].chunks, MarketBin(names, features, prices, FeaturesPerSym))
  BY DEF WriteChunk, MarketFileIsSound
<1>2. /\ HasSame /\ job["data"].pc = "write" /\ job'["data"].pc = "write"
      /\ IsContent(names, features, prices)'
      /\ IsWritten(file', job'["data"].chunks, MarketBin(names, features, prices, FeaturesPerSym))
  BY <1>1, ContentIsWritten
<1>3. MarketFileIsSound'
  BY <1>2 DEF MarketFileIsSound
<1>4. UNCHANGED Series("data") /\ (Exported' <=> Exported) /\ \A s : Dump(s)' = Dump(s)
  BY <1>2, SameSeries, SameDump DEF Exported, HasSame
<1>5. job'["data"].plan = job["data"].plan /\ job'["data"].got = job["data"].got
  BY <1>2 DEF HasSame
<1>6. DataIsSound'
  BY <1>2, <1>4, <1>5 DEF DataIsSound, IsOfPlan
<1> QED
  BY <1>3, <1>6

\* The file is opened for what it is to hold.
LEMMA DataOpens ==
  ASSUME ProgramInv, DataIsSound, MarketFileIsSound, BuildBin \/ EndExport
  PROVE  DataIsSound' /\ MarketFileIsSound'
<1> DEFINE r == job["data"]
<1>1. SUFFICES ASSUME ~Die("data")
               PROVE  DataIsSound' /\ MarketFileIsSound'
  BY DataDies
<1>2. PICK names, features, prices :
        IsContent(names, features, prices) /\ Write(names, features, prices)
  BY <1>1, BuildIs, ExportIs
<1>3. UNCHANGED tape
  BY StepsLeave
<1> DEFINE w == MarketBin(names, features, prices, FeaturesPerSym)
           n == [r EXCEPT !.pc = "write", !.chunks = <<<<>>>> \o w]
<1>4. job' = [job EXCEPT !["data"] = n]
  BY <1>2 DEF Write
<1> HIDE DEF w
<1>5. /\ n.pc = "write" /\ n.plan = r.plan /\ n.got = r.got /\ n.joined = r.joined
      /\ n.chunks = <<<<>>>> \o w
  <2>1. "data" \in Jobs
    BY DEF Jobs
  <2>2. IsProgram(r, clock)
    BY <2>1, OneFinds
  <2> HIDE DEF r
  <2> QED
    BY <2>2 DEF IsProgram
<1> HIDE DEF n
<1>6. job'["data"] = n
  BY <1>4, NewRecord
<1>7. HasSame
  BY <1>3, <1>5, <1>6 DEF HasSame
<1>8. IsContent(names, features, prices)'
  BY <1>2, <1>7, ContentStays
<1>9. IsWritten(file', n.chunks, w)
  BY <1>3, <1>5 DEF IsWritten
<1>10. MarketFileIsSound'
  BY <1>5, <1>6, <1>8, <1>9 DEF MarketFileIsSound, w
<1>11. UNCHANGED Series("data") /\ (Exported' <=> Exported) /\ \A s : Dump(s)' = Dump(s)
  BY <1>7, SameSeries, SameDump DEF Exported, HasSame
<1>12. DataIsSound'
  BY <1>5, <1>6, <1>11 DEF DataIsSound, IsOfPlan
<1> QED
  BY <1>10, <1>12

LEMMA FileEnds ==
  ASSUME ProgramInv, EndData, ~Die("data")
  PROVE  /\ HasSame /\ UNCHANGED <<file, whole>> /\ job["data"].pc = "write" /\ job'["data"].pc = "done"
         /\ job["data"].chunks = <<>> /\ job'["data"].chunks = <<>>
<1> DEFINE r == job["data"]
           n == [r EXCEPT !.pc = "done"]
<1>1. /\ r.pc = "write" /\ r.chunks = <<>> /\ UNCHANGED <<tape, file, whole>>
      /\ job' = [job EXCEPT !["data"] = n]
  BY DEF EndData
<1>2. n.pc = "done" /\ n.plan = r.plan /\ n.got = r.got /\ n.joined = r.joined /\ n.chunks = r.chunks
  <2>1. "data" \in Jobs
    BY DEF Jobs
  <2>2. IsProgram(r, clock)
    BY <2>1, OneFinds
  <2> HIDE DEF r
  <2> QED
    BY <2>2 DEF IsProgram
<1> HIDE DEF n
<1>3. job'["data"] = n
  BY <1>1, NewRecord
<1>4. HasSame
  BY <1>1, <1>2, <1>3 DEF HasSame
<1> QED
  BY <1>1, <1>2, <1>3, <1>4

LEMMA DataEnds ==
  ASSUME ProgramInv, DataIsSound, MarketFileIsSound, EndData
  PROVE  DataIsSound' /\ MarketFileIsSound' /\ job'["data"].pc # "write"
<1>1. SUFFICES ASSUME ~Die("data")
               PROVE  DataIsSound' /\ MarketFileIsSound' /\ job'["data"].pc # "write"
  BY DataDies
<1>2. /\ HasSame /\ UNCHANGED <<file, whole>> /\ job["data"].pc = "write" /\ job'["data"].pc = "done"
      /\ job["data"].chunks = <<>> /\ job'["data"].chunks = <<>>
  BY <1>1, FileEnds
<1>3. \A names, features, prices : IsContent(names, features, prices) => IsContent(names, features, prices)'
  BY <1>2, ContentStays
<1>4. MarketFileIsSound'
  BY <1>2, <1>3 DEF MarketFileIsSound
<1>5. UNCHANGED Series("data") /\ (Exported' <=> Exported) /\ \A s : Dump(s)' = Dump(s)
  BY <1>2, SameSeries, SameDump DEF Exported, HasSame
<1>6. job'["data"].plan = job["data"].plan /\ job'["data"].got = job["data"].got
  BY <1>2 DEF HasSame
<1>7. DataIsSound'
  BY <1>2, <1>5, <1>6 DEF DataIsSound, IsOfPlan
<1> QED
  BY <1>2, <1>4, <1>7

-----------------------------------------------------------------------------
(* The invariant of the market data file, and what follows from it.        *)

\* A step of another program.
LEMMA OthersRest ==
  ASSUME ProgramInv,
         \/ Tick \/ CacheStep \/ TrainReadsFeatures \/ TrainStep \/ KillTrain \/ Kill("cache")
         \/ \E plan, f : Start("cache", plan, f)
         \/ UNCHANGED vars
  PROVE  UNCHANGED <<tape, file, whole>> /\ job'["data"] = job["data"]
<1>1. "cache" \in Jobs
  BY DEF Jobs
<1>2. UNCHANGED <<tape, file, whole>>
  BY <1>1, StepsLeave DEF Tick, CacheStep, vars
<1>3. UNCHANGED job \/ \E n : job' = [job EXCEPT !["cache"] = n]
  <2>1. CASE Tick \/ TrainReadsFeatures \/ TrainStep \/ KillTrain \/ UNCHANGED vars
    BY <2>1, StepsLeave DEF Tick, vars
  <2>2. CASE OpenFetch("cache")
    <3> DEFINE r == job["cache"]
               s == Head(r.todo)[2]
    <3>1. \/ job' = [job EXCEPT !["cache"].got["dump"][s] = Dump(s), !["cache"].todo = Tail(@)]
          \/ job' = [job EXCEPT !["cache"].cursor = Since, !["cache"].until = clock]
      BY <2>2 DEF OpenFetch
    <3>2. \/ job' = [job EXCEPT !["cache"] = [r EXCEPT !.got["dump"][s] = Dump(s), !.todo = Tail(@)]]
          \/ job' = [job EXCEPT !["cache"] = [r EXCEPT !.cursor = Since, !.until = clock]]
      BY <3>1
    <3> HIDE DEF r
    <3> QED
      BY <3>2
  <2>3. CASE FetchPage("cache")
    BY <1>1, <2>3, FetchPageIs
  <2>4. CASE BeginCache
    <3> DEFINE n == [job["cache"] EXCEPT !.pc = "write", !.todo = CachePlan(Series("cache"))]
    <3>1. job' = [job EXCEPT !["cache"] = n]
      BY <2>4 DEF BeginCache
    <3> HIDE DEF n
    <3> QED
      BY <3>1
  <2>5. CASE WriteCache
    <3> DEFINE r == job["cache"]
    <3>1. \/ Die("cache")
          \/ job' = [job EXCEPT !["cache"] = [r EXCEPT !.cursor = 0]]
          \/ job' = [job EXCEPT !["cache"] = [r EXCEPT !.cursor = None, !.todo = Tail(@)]]
      BY <2>5 DEF WriteCache
    <3> HIDE DEF r
    <3> QED
      BY <3>1 DEF Die
  <2>6. CASE EndCache \/ Kill("cache") \/ \E plan, f : Start("cache", plan, f)
    BY <2>6 DEF EndCache, Kill, Die, Start
  <2> QED
    BY <2>1, <2>2, <2>3, <2>4, <2>5, <2>6 DEF CacheStep
<1>4. job'["data"] = job["data"]
  <2>1. job = [j \in Jobs |-> job[j]] /\ "data" \in Jobs
    BY DEF ProgramInv, ProgramsAreSound, Jobs
  <2> QED
    BY <1>3, <2>1
<1> QED
  BY <1>2, <1>4

LEMMA DataInit == Init => DataInv
<1> SUFFICES ASSUME Init PROVE DataInv
  OBVIOUS
<1>1. job["data"] = Idle
  BY DEF Init, Jobs
<1>2. Idle.pc = "idle" /\ Idle.plan = "none" /\ \A src \in Sources, s \in Sym : Idle.got[src][s] = <<>>
  BY DEF Idle
<1>3. DataIsSound
  BY <1>1, <1>2 DEF DataIsSound, IsOfPlan, Exported
<1>4. MarketFileIsSound
  BY <1>1, <1>2 DEF MarketFileIsSound
<1> QED
  BY <1>3, <1>4, ProgramInit DEF DataInv

LEMMA DataNext == DataInv /\ [Next]_vars => DataInv'
<1> SUFFICES ASSUME DataInv, [Next]_vars PROVE DataInv'
  OBVIOUS
<1>1. ProgramInv /\ DataIsSound /\ MarketFileIsSound
  BY DEF DataInv
<1>2. ProgramInv'
  BY <1>1, ProgramNext
<1>3. CASE Tick \/ CacheStep \/ TrainReadsFeatures \/ TrainStep \/ KillTrain \/ UNCHANGED vars
  BY <1>1, <1>2, <1>3, OthersRest, DataRests DEF DataInv
<1>4. CASE \E j \in Jobs, plan \in {"none", "binance", "dump", "export"}, f \in BOOLEAN :
             Start(j, plan, f)
  <2>1. PICK j \in Jobs, plan \in {"none", "binance", "dump", "export"}, f \in BOOLEAN :
          Start(j, plan, f)
    BY <1>4
  <2>2. CASE j = "cache"
    BY <1>1, <1>2, <2>1, <2>2, OthersRest, DataRests DEF DataInv
  <2>3. CASE j = "data"
    BY <1>1, <1>2, <2>1, <2>3, DataStarts DEF DataInv, Plans
  <2> QED
    BY <2>2, <2>3 DEF Jobs
<1>5. CASE DataStep
  BY <1>1, <1>2, <1>5, DataFetches, DataJoins, DataOpens, DataExports, DataWrites, DataEnds
     DEF DataStep, DataInv
<1>6. CASE \E j \in Jobs : Kill(j)
  <2>1. PICK j \in Jobs : Kill(j)
    BY <1>6
  <2>2. CASE j = "cache"
    BY <1>1, <1>2, <2>1, <2>2, OthersRest, DataRests DEF DataInv
  <2>3. CASE j = "data"
    BY <1>1, <1>2, <2>1, <2>3, DataDies DEF DataInv, Kill
  <2> QED
    BY <2>2, <2>3 DEF Jobs
<1> QED
  BY <1>3, <1>4, <1>5, <1>6 DEF Next

\* A market data file that its program has finished, and one that it is still
\* writing up to where it is, is what its bars and forecasts say: the words of
\* the header, the names and the two blocks, in this order and of these sizes.
THEOREM DataInvariant == Spec => []DataInv
<1>1. Init => DataInv
  BY DataInit
<1>2. DataInv /\ [Next]_vars => DataInv'
  BY DataNext
<1> QED
  BY <1>1, <1>2, PTL DEF Spec

\* What is read back of a file that is complete.
LEMMA ContentIsRead ==
  ASSUME NEW names, NEW features, NEW prices, IsContent(names, features, prices),
         NEW w, w = MarketBin(names, features, prices, FeaturesPerSym)
  PROVE  ReadsAs((w[1] \o w[2]) \o w[3], names, features, prices)
<1> DEFINE nt == Len(prices)
           fps == FeaturesPerSym
<1>1. /\ names \in Seq(Sym) /\ nt \in Nat /\ fps \in Nat \ {0}
      /\ IsBlock(features, nt, Len(names), fps) /\ IsBlock(prices, nt, Len(names), PriceFeatures)
  BY WordCount DEF IsContent
<1>2. w = MarketBin(names, features, prices, fps)
  OBVIOUS
<1> HIDE DEF nt, fps
<1> QED
  BY <1>1, <1>2, FileIs

LEMMA FinishedFile ==
  ASSUME DataInv, Written
  PROVE  \E names, features, prices :
           /\ IsContent(names, features, prices)
           /\ ReadSymbols(file) = {names} /\ ReadFeatures(file) = {features}
           /\ ReadPrices(file) = {prices}
<1>1. PICK names, features, prices :
        /\ IsContent(names, features, prices)
        /\ IsWritten(file, <<>>, MarketBin(names, features, prices, FeaturesPerSym))
  BY DEF DataInv, MarketFileIsSound, Written
<1> DEFINE w == MarketBin(names, features, prices, FeaturesPerSym)
<1>2. file = (w[1] \o w[2]) \o w[3]
  <2> DEFINE a == w[1]
             b == w[2]
             c == w[3]
  <2>1. w = <<a, b, c>>
    BY DEF MarketBin
  <2> HIDE DEF a, b, c
  <2>2. <<<<>>>> \o <<a, b, c>> # <<>>
    BY OneBefore
  <2>3. <<a, b, c>> # <<>> /\ <<b, c>> # <<>> /\ <<c>> # <<>>
    OBVIOUS
  <2> HIDE DEF w
  <2>4. <<>> # w /\ <<>> # <<<<>>>> \o w
    BY <2>1, <2>2, <2>3
  <2> QED
    BY <1>1, <2>3, <2>4 DEF IsWritten, w, a, b, c
<1>3. w = MarketBin(names, features, prices, FeaturesPerSym)
  OBVIOUS
<1> HIDE DEF w
<1>4. ReadsAs(file, names, features, prices)
  BY <1>1, <1>2, <1>3, ContentIsRead
<1> QED
  BY <1>1, <1>4 DEF ReadsAs

\* The price block of a finished file has, in every row, what each symbol's own
\* bars say of that hour.
LEMMA OwnBars == DataInv => RowsAreOwnBars
<1> SUFFICES ASSUME DataInv, Written PROVE RowsAreOwnBars
  BY DEF RowsAreOwnBars
<1>1. PICK names, features, prices :
        /\ IsContent(names, features, prices)
        /\ ReadSymbols(file) = {names} /\ ReadPrices(file) = {prices}
  BY FinishedFile
<1>2. DOMAIN names = 1..Len(names) /\ DOMAIN prices = 1..Len(prices)
  BY <1>1 DEF IsContent, IsBlock
<1>3. \A t \in DOMAIN prices, i \in DOMAIN names : prices[t][i] = RightPrice(names[i], t)
  BY <1>1, <1>2 DEF IsContent
<1> QED
  BY <1>1, <1>3 DEF RowsAreOwnBars

\* No reader of a finished file (binpack's readers, after build_bin or
\* export_binary) finds a neighbour's bar, a bar of another symbol or of a
\* source that should have been overruled, or a row that the filling made up.
THEOREM EveryRowIsOwnBars == Spec => []RowsAreOwnBars
BY DataInvariant, OwnBars, PTL

-----------------------------------------------------------------------------
(* The technical features do not see what comes later.                     *)

\* r is the beginning of the series s: t of its n values.
IsStart(r, t, s, n) ==
  /\ n \in Nat /\ t \in 1..n
  /\ DOMAIN s = 1..n /\ Len(s) = n
  /\ DOMAIN r = 1..t /\ Len(r) = t /\ \A k \in 1..t : r[k] = s[k]

LEMMA StartIs ==
  ASSUME NEW n \in Nat, NEW t \in 1..n, NEW s, s = [k \in 1..n |-> s[k]]
  PROVE  IsStart([k \in 1..t |-> s[k]], t, s, n)
<1>1. Len(s) = n
  <2>1. Len([k \in 1..n |-> s[k]]) = n
    OBVIOUS
  <2> QED
    BY <2>1
<1>2. DOMAIN s = 1..n
  OBVIOUS
<1>3. Len([k \in 1..t |-> s[k]]) = t
  OBVIOUS
<1> QED
  BY <1>1, <1>2, <1>3 DEF IsStart

LEMMA ChangeIsCausal ==
  ASSUME NEW r, NEW t, NEW s, NEW n, IsStart(r, t, s, n), NEW m \in Nat \ {0}, NEW k \in 1..t
  PROVE  PctChange(r, m)[k] = PctChange(s, m)[k]
<1>1. k \in 1..n /\ t \in Nat /\ (k > m => k - m \in 1..t)
  BY DEF IsStart
<1>2. r[k] = s[k] /\ (k > m => r[k - m] = s[k - m])
  BY <1>1 DEF IsStart
<1>3. /\ PctChange(r, m)[k] = IF k > m /\ r[k - m] # 0 THEN <<r[k] - r[k - m], r[k - m]>> ELSE Zero
      /\ PctChange(s, m)[k] = IF k > m /\ s[k - m] # 0 THEN <<s[k] - s[k - m], s[k - m]>> ELSE Zero
  BY <1>1 DEF PctChange, IsStart
<1> QED
  BY <1>2, <1>3

\* The sum that the deque keeps.
Sum(acc, s, w, i) == IF i = 0 THEN 0 ELSE acc[i - 1] + s[i] - (IF i > w THEN s[i - w] ELSE 0)

IsSum(f, s, w, n) == f = [i \in 0..n |-> Sum(f, s, w, i)]

LEMMA SumExists ==
  ASSUME NEW s, NEW w, NEW n \in Nat
  PROVE  \E f : IsSum(f, s, w, n)
<1> DEFINE Good(m) == \E f : f = [i \in 0..m |-> Sum(f, s, w, i)]
           T == {m \in Nat : ~Good(m)}
<1> SUFFICES ASSUME T # {} PROVE FALSE
  BY DEF IsSum
<1>1. PICK m \in T : \A k \in T : m <= k
  <2>1. T \in SUBSET Nat
    OBVIOUS
  <2> HIDE DEF T
  <2> QED
    BY <2>1, LeastNatural
<1>2. m \in Nat /\ ~Good(m)
  OBVIOUS
<1>3. m # 0
  <2>1. Good(0)
    <3> DEFINE f == [i \in 0..0 |-> 0]
    <3>1. f = [i \in 0..0 |-> Sum(f, s, w, i)]
      BY DEF Sum
    <3> HIDE DEF f
    <3> QED
      BY <3>1
  <2> QED
    BY <1>2, <2>1
<1>4. m - 1 \in Nat /\ ~(m <= m - 1)
  BY <1>2, <1>3
<1>5. Good(m - 1)
  <2> HIDE DEF Good
  <2> QED
    BY <1>1, <1>4
<1>6. PICK f : f = [i \in 0..(m - 1) |-> Sum(f, s, w, i)]
  BY <1>5
<1> DEFINE last == Sum(f, s, w, m)
           g == [i \in 0..m |-> IF i = m THEN last ELSE f[i]]
<1>7. ASSUME NEW i \in 0..m PROVE g[i] = Sum(g, s, w, i)
  <2>1. i # 0 => i - 1 \in 0..m /\ i - 1 # m /\ g[i - 1] = f[i - 1]
    BY <1>2, <1>7
  <2>2. Sum(g, s, w, i) = Sum(f, s, w, i)
    <3> HIDE DEF g
    <3> QED
      BY <2>1 DEF Sum
  <2>3. CASE i = m
    BY <2>2, <2>3
  <2>4. CASE i # m
    <3>1. i \in 0..(m - 1) /\ g[i] = f[i]
      BY <1>2, <1>7, <2>4
    <3>2. f[i] = Sum(f, s, w, i)
      BY <1>6, <3>1
    <3> QED
      BY <2>2, <3>1, <3>2
  <2> QED
    BY <2>3, <2>4
<1>8. g = [i \in 0..m |-> Sum(g, s, w, i)]
  <2>1. g = [i \in 0..m |-> g[i]]
    OBVIOUS
  <2> HIDE DEF g
  <2> QED
    BY <1>7, <2>1
<1> QED
  <2> HIDE DEF g
  <2> QED
    BY <1>2, <1>8

\* The rolling mean is that of the recursive sum of its deque.
IsMeanBy(f, s, w, n, t) ==
  IsSum(f, s, w, n) /\ RollingMean(s, w)[t] = <<f[t], Min({t, w})>>

LEMMA MeanIs ==
  ASSUME NEW s, NEW n \in Nat, DOMAIN s = 1..n, Len(s) = n, NEW w, NEW t \in 1..n
  PROVE  \E f : IsMeanBy(f, s, w, n, t)
<1> DEFINE f == CHOOSE f : f = [i \in 0..n |-> Sum(f, s, w, i)]
<1>1. f = [i \in 0..n |-> Sum(f, s, w, i)]
  <2>1. \E x : IsSum(x, s, w, n)
    BY SumExists
  <2>2. \E x : x = [i \in 0..n |-> Sum(x, s, w, i)]
    BY <2>1 DEF IsSum
  <2> QED
    BY <2>2
<1>2. RollingMean(s, w) = [i \in 1..n |-> <<f[i], Min({i, w})>>]
  BY DEF RollingMean, Sum
<1> HIDE DEF f
<1> QED
  BY <1>1, <1>2 DEF IsSum, IsMeanBy

LEMMA MeanIsCausal ==
  ASSUME NEW r, NEW t, NEW s, NEW n, IsStart(r, t, s, n), NEW w \in Nat \ {0}
  PROVE  RollingMean(r, w)[t] = RollingMean(s, w)[t]
<1>1. /\ n \in Nat /\ t \in 1..n /\ t \in Nat /\ t \in 1..t /\ DOMAIN s = 1..n /\ Len(s) = n
      /\ DOMAIN r = 1..t /\ Len(r) = t /\ \A k \in 1..t : r[k] = s[k]
  BY DEF IsStart
<1>2. PICK f : IsMeanBy(f, r, w, t, t)
  BY <1>1, MeanIs
<1>3. PICK g : IsMeanBy(g, s, w, n, t)
  BY <1>1, MeanIs
<1>4. f[t] = g[t]
  <2> DEFINE B == {x \in 0..t : f[x] # g[x]}
  <2> SUFFICES ASSUME B # {} PROVE FALSE
    BY <1>1
  <2>1. PICK x \in B : \A y \in B : x <= y
    <3>1. B \in SUBSET Nat
      OBVIOUS
    <3> HIDE DEF B
    <3> QED
      BY <3>1, LeastNatural
  <2>2. x \in 0..t /\ x \in 0..n /\ f[x] # g[x]
    BY <1>1
  <2>3. f[x] = Sum(f, r, w, x) /\ g[x] = Sum(g, s, w, x)
    BY <1>2, <1>3, <2>2 DEF IsMeanBy, IsSum
  <2>4. x # 0 => f[x - 1] = g[x - 1]
    <3>1. x # 0 => x - 1 \in 0..t /\ ~(x <= x - 1)
      BY <1>1, <2>2
    <3> QED
      BY <2>1, <3>1
  <2>5. x # 0 => r[x] = s[x] /\ (x > w => r[x - w] = s[x - w])
    <3>1. x # 0 => x \in 1..t /\ (x > w => x - w \in 1..t)
      BY <1>1, <2>2
    <3> QED
      BY <1>1, <3>1
  <2>6. Sum(f, r, w, x) = Sum(g, s, w, x)
    BY <2>4, <2>5 DEF Sum
  <2> QED
    BY <2>2, <2>3, <2>6
<1> QED
  BY <1>2, <1>3, <1>4 DEF IsMeanBy

LEMMA MaximumIsCausal ==
  ASSUME NEW r, NEW t, NEW s, NEW n, IsStart(r, t, s, n), NEW w \in Nat \ {0}
  PROVE  RollingMax(r, w)[t] = RollingMax(s, w)[t]
<1> DEFINE first == Max({1, t - w + 1})
<1>1. /\ n \in Nat /\ t \in 1..n /\ t \in Nat /\ DOMAIN s = 1..n
      /\ DOMAIN r = 1..t /\ \A k \in 1..t : r[k] = s[k]
  BY DEF IsStart
<1>2. first \in Nat /\ 1 <= first
  BY <1>1, MaxOfTwo
<1>3. RollingMax(r, w)[t] = Max({r[k] : k \in first..t}) /\ RollingMax(s, w)[t] = Max({s[k] : k \in first..t})
  BY <1>1 DEF RollingMax
<1> HIDE DEF first
<1>4. {r[k] : k \in first..t} = {s[k] : k \in first..t}
  <2>1. \A k \in first..t : k \in 1..t
    BY <1>1, <1>2
  <2> QED
    BY <1>1, <2>1
<1> QED
  BY <1>3, <1>4

LEMMA VolatilityIsCausal ==
  ASSUME NEW r, NEW t, NEW s, NEW n, IsStart(r, t, s, n), NEW w \in Nat \ {0}
  PROVE  RollingStdOfReturns(r, w)[t] = RollingStdOfReturns(s, w)[t]
<1> DEFINE first == Max({2, t - w + 1})
           a == [k \in first..t |-> PctChange(r, 1)[k]]
           b == [k \in first..t |-> PctChange(s, 1)[k]]
<1>1. n \in Nat /\ t \in 1..n /\ t \in Nat /\ DOMAIN s = 1..n /\ DOMAIN r = 1..t
  BY DEF IsStart
<1>2. first \in Nat /\ 2 <= first
  BY <1>1, MaxOfTwo
<1>3. /\ RollingStdOfReturns(r, w)[t] = IF t - first + 1 < 2 THEN Fallback ELSE Variance(a)
      /\ RollingStdOfReturns(s, w)[t] = IF t - first + 1 < 2 THEN Fallback ELSE Variance(b)
  BY <1>1 DEF RollingStdOfReturns
<1> HIDE DEF first
<1>4. \A k \in first..t : PctChange(r, 1)[k] = PctChange(s, 1)[k]
  <2>1. \A k \in first..t : k \in 1..t
    BY <1>1, <1>2
  <2>2. 1 \in Nat \ {0}
    OBVIOUS
  <2> QED
    BY <2>1, <2>2, ChangeIsCausal
<1>5. a = b
  BY <1>4
<1> HIDE DEF a, b
<1> QED
  BY <1>3, <1>5

LEMMA RangeIsCausal ==
  ASSUME NEW r, NEW t, NEW s, NEW n, IsStart(r, t, s, n), NEW k \in 1..t
  PROVE  TrueRange(r)[k] = TrueRange(s)[k]
<1>1. k \in 1..n /\ t \in Nat /\ (k # 1 => k - 1 \in 1..t)
  BY DEF IsStart
<1>2. r[k] = s[k] /\ (k # 1 => r[k - 1] = s[k - 1])
  BY <1>1 DEF IsStart
<1> DEFINE e(q) == IF k = 1 THEN q[k].high - q[k].low
                   ELSE Max({q[k].high - q[k].low, Distance(q[k].high, q[k - 1].close),
                             Distance(q[k].low, q[k - 1].close)})
<1>3. TrueRange(r)[k] = e(r) /\ TrueRange(s)[k] = e(s)
  BY <1>1 DEF TrueRange, IsStart
<1>4. e(r) = e(s)
  BY <1>2
<1> QED
  BY <1>3, <1>4

\* The features of a row are those of the series cut off after it.
LEMMA TechnicalIsCausal ==
  ASSUME NEW n \in Nat, NEW t \in 1..n, NEW bars, bars = [k \in 1..n |-> bars[k]]
  PROVE  TechnicalFeatures([k \in 1..t |-> bars[k]])[t] = TechnicalFeatures(bars)[t]
<1> DEFINE cut == [k \in 1..t |-> bars[k]]
           close(q) == [i \in DOMAIN q |-> q[i].close]
           words(q, c, atr, i) ==
         << Clip(PctChange(c, 1)[i], Minus(Half), Half),
            Clip(PctChange(c, Short)[i], Minus(One), One),
            RollingStdOfReturns(c, Short)[i],
            Clip(Delta(c[i], RollingMean(c, Short)[i]), Minus(Half), Half),
            Clip(Delta(c[i], RollingMean(c, Long)[i]), Minus(Half), Half),
            Clip(Over(atr[i], <<c[i], 1>>), Zero, Half),
            Clip(PctChange(c, Long)[i], Minus(One), One),
            Clip(Delta(c[i], <<RollingMax(c, Long)[i], 1>>), Minus(One), Zero) >>
           c == close(bars)
           d == close(cut)
           atr == RollingMean(TrueRange(bars), Short)
           btr == RollingMean(TrueRange(cut), Short)
<1>1. /\ TechnicalFeatures(bars) = [i \in DOMAIN bars |-> words(bars, c, atr, i)]
      /\ TechnicalFeatures(cut) = [i \in DOMAIN cut |-> words(cut, d, btr, i)]
  BY DEF TechnicalFeatures
<1>2. /\ Short \in Nat \ {0} /\ Long \in Nat \ {0} /\ 1 \in Nat \ {0} /\ t \in 1..t /\ t \in Nat
      /\ DOMAIN bars = 1..n /\ DOMAIN cut = 1..t
  BY WindowsAssumption
<1>3. IsStart(cut, t, bars, n)
  BY StartIs
<1>4. IsStart(d, t, c, n)
  <2>1. c = [k \in 1..n |-> c[k]] /\ d = [k \in 1..t |-> c[k]]
    BY <1>2
  <2> HIDE DEF c, d
  <2> QED
    BY <2>1, StartIs
<1>5. IsStart(TrueRange(cut), t, TrueRange(bars), n)
  <2> DEFINE p == TrueRange(bars)
             q == TrueRange(cut)
  <2>1. DOMAIN p = 1..n /\ DOMAIN q = 1..t /\ p = [k \in 1..n |-> p[k]] /\ q = [k \in 1..t |-> q[k]]
    BY <1>2 DEF TrueRange
  <2>2. \A k \in 1..t : q[k] = p[k]
    BY <1>3, RangeIsCausal
  <2> HIDE DEF p, q
  <2>3. q = [k \in 1..t |-> p[k]]
    BY <2>1, <2>2
  <2>4. IsStart([k \in 1..t |-> p[k]], t, p, n)
    BY <2>1, StartIs
  <2> QED
    BY <2>3, <2>4 DEF p, q
<1> HIDE DEF cut, c, d
<1>6. /\ PctChange(d, 1)[t] = PctChange(c, 1)[t] /\ PctChange(d, Short)[t] = PctChange(c, Short)[t]
      /\ PctChange(d, Long)[t] = PctChange(c, Long)[t]
  BY <1>2, <1>4, ChangeIsCausal
<1>7. /\ RollingStdOfReturns(d, Short)[t] = RollingStdOfReturns(c, Short)[t]
      /\ RollingMean(d, Short)[t] = RollingMean(c, Short)[t]
      /\ RollingMean(d, Long)[t] = RollingMean(c, Long)[t]
      /\ RollingMax(d, Long)[t] = RollingMax(c, Long)[t]
  BY <1>2, <1>4, VolatilityIsCausal, MeanIsCausal, MaximumIsCausal
<1>8. d[t] = c[t]
  BY <1>2, <1>4 DEF IsStart
<1>9. btr[t] = atr[t]
  BY <1>2, <1>5, MeanIsCausal
<1> HIDE DEF atr, btr
<1>10. words(cut, d, btr, t) = words(bars, c, atr, t)
  BY <1>6, <1>7, <1>8, <1>9
<1> HIDE DEF words
<1> QED
  BY <1>1, <1>2, <1>10 DEF cut

\* A forecast of a symbol that is found for an hour is of that symbol and hour,
\* and of no bar after it.
IsForecast(f, s, h) ==
  f # NoForecast =>
    /\ f.symbol = s /\ f.timestamp = h /\ f.target > h
    /\ Max(f.context) = f.context_end /\ f.context_end <= h

LEMMA ReindexIs ==
  ASSUME NEW s, NEW rows \in Seq(ForecastRow(s)), NEW h
  PROVE  IsForecast(Reindex(rows, h), s, h)
<1> DEFINE f == CHOOSE r \in ToSet(rows) : r.timestamp = h
<1>1. CASE \A k \in DOMAIN rows : rows[k].timestamp # h
  BY <1>1 DEF Reindex, IsForecast
<1>2. CASE \E k \in DOMAIN rows : rows[k].timestamp = h
  <2>1. Reindex(rows, h) = f
    BY <1>2 DEF Reindex
  <2>2. \E r \in ToSet(rows) : r.timestamp = h
    BY <1>2 DEF ToSet
  <2>3. f \in ToSet(rows) /\ f.timestamp = h
    BY <2>2
  <2> HIDE DEF f
  <2>4. f \in ForecastRow(s)
    BY <2>3 DEF ToSet
  <2>5. /\ f.symbol = s /\ f.timestamp \in Hours /\ f.context_end = f.timestamp
        /\ f.timestamp < f.target /\ f.target \in Nat /\ f.context \in SUBSET Hours
        /\ f.timestamp \in f.context /\ \A x \in f.context : x <= f.timestamp
    BY <2>4 DEF ForecastRow
  <2>6. Max(f.context) = f.timestamp
    <3> DEFINE C == f.context
               m == f.timestamp
    <3>1. IsFiniteSet(Hours) /\ Hours \subseteq Int
      <4>1. LastHour \in Int /\ 0 \in Int
        BY PipelineAssumption
      <4> QED
        BY <4>1, FS_Interval DEF Hours
    <3>2. C \in SUBSET Int /\ IsFiniteSet(C) /\ m \in C /\ \A x \in C : x <= m
      BY <2>5, <3>1, FS_Subset
    <3> HIDE DEF C, m
    <3>3. Max(C) \in C /\ m <= Max(C)
      BY <3>2, MaxExists
    <3>4. Max(C) <= m /\ Max(C) \in Int /\ m \in Int
      BY <3>2, <3>3
    <3>5. Max(C) = m
      BY <3>3, <3>4
    <3> QED
      BY <3>5 DEF C, m
  <2>7. f.target > h /\ f.context_end <= h
    <3>1. h \in Nat
      BY <2>3, <2>5 DEF Hours
    <3> QED
      BY <2>3, <2>5, <3>1
  <2> QED
    BY <2>1, <2>3, <2>5, <2>6, <2>7 DEF IsForecast
<1> QED
  BY <1>1, <1>2

LEMMA ForecastWordsAre ==
  ASSUME ProgramInv, NEW s \in Sym, NEW h, NEW k \in DOMAIN Horizons
  PROVE  IsForecast(ForecastWords(s, h)[k], s, h)
<1> DEFINE joined == job["data"].joined[s]
<1>1. joined \in {None} \cup Forecasts(s)
  <2>1. "data" \in Jobs
    BY DEF Jobs
  <2> QED
    BY <2>1, OneFinds DEF IsProgram
<1>2. ForecastWords(s, h)[k] = IF joined = None THEN NoForecast ELSE Reindex(joined[Horizons[k]], h)
  BY DEF ForecastWords
<1> HIDE DEF joined
<1>3. CASE joined = None
  BY <1>2, <1>3 DEF IsForecast
<1>4. CASE joined # None
  <2>1. Horizons[k] \in ToSet(Horizons)
    BY DEF ToSet
  <2>2. joined[Horizons[k]] \in Seq(ForecastRow(s))
    BY <1>1, <1>4, <2>1 DEF Forecasts
  <2> QED
    BY <1>2, <1>4, <2>2, ReindexIs
<1> QED
  BY <1>3, <1>4

\* No row of a finished file knows the future.
LEMMA NoFuture == DataInv => NoFutureInRow
<1> SUFFICES ASSUME DataInv, Written PROVE NoFutureInRow
  BY DEF NoFutureInRow
<1>1. PICK names, features, prices :
        /\ IsContent(names, features, prices)
        /\ ReadSymbols(file) = {names} /\ ReadFeatures(file) = {features}
        /\ ReadPrices(file) = {prices}
  BY FinishedFile
<1> DEFINE nt == Len(prices)
           ns == Len(names)
<1>2. /\ ProgramInv /\ nt \in Nat /\ names \in Seq(Sym)
      /\ DOMAIN names = 1..ns /\ DOMAIN features = 1..nt /\ DOMAIN prices = 1..nt
      /\ \A i \in 1..ns : names[i] \in Sym
  BY <1>1 DEF DataInv, IsContent, IsBlock
<1> SUFFICES ASSUME NEW t \in 1..nt, NEW i \in 1..ns
             PROVE  /\ \A k \in DOMAIN Horizons : IsForecast(features[t][i][k], names[i], HourOf(t))
                    /\ ~Exported => \A k \in 1..8 :
                         Same(features[t][i][Len(Horizons) + k],
                              TechnicalFeatures(SubSeq(BarsOfFile(prices, i), 1, t))[t][k])
  <2> DEFINE row(f, p, n, x, y) ==
               /\ \A k \in DOMAIN Horizons : IsForecast(f[x][y][k], n[y], HourOf(x))
               /\ ~Exported =>
                    LET seen == TechnicalFeatures(SubSeq(BarsOfFile(p, y), 1, x))[x]
                    IN  \A k \in 1..8 : Same(f[x][y][Len(Horizons) + k], seen[k])
  <2>1. \A t \in 1..nt, i \in 1..ns : row(features, prices, names, t, i)
    OBVIOUS
  <2>2. SUFFICES ASSUME NEW f \in ReadFeatures(file), NEW p \in ReadPrices(file), NEW n \in ReadSymbols(file)
                 PROVE  \A x \in DOMAIN f, y \in DOMAIN n : row(f, p, n, x, y)
    BY DEF NoFutureInRow, IsForecast
  <2> HIDE DEF row, nt, ns
  <2> QED
    BY <1>1, <1>2, <2>1
<1>3. /\ \A k \in DOMAIN Horizons : features[t][i][k] = ForecastWords(names[i], HourOf(t))[k]
      /\ ~Exported => \A k \in 1..8 :
           features[t][i][Len(Horizons) + k] = TechnicalFeatures(BarsOfFile(prices, i))[t][k]
  BY <1>1 DEF IsContent
<1>4. \A k \in DOMAIN Horizons : IsForecast(features[t][i][k], names[i], HourOf(t))
  BY <1>2, <1>3, ForecastWordsAre
<1>5. TechnicalFeatures(SubSeq(BarsOfFile(prices, i), 1, t))[t] = TechnicalFeatures(BarsOfFile(prices, i))[t]
  <2> DEFINE bars == BarsOfFile(prices, i)
             X == {bars[k] : k \in 1..nt}
  <2>1. bars = [k \in 1..nt |-> bars[k]]
    BY <1>2 DEF BarsOfFile
  <2>2. bars \in Seq(X) /\ Len(bars) = nt
    <3>1. \A k \in 1..nt : bars[k] \in X
      OBVIOUS
    <3> HIDE DEF bars, X, nt
    <3> QED
      BY <1>2, <2>1, <3>1, SequenceIs
  <2> HIDE DEF bars, X, nt
  <2>3. SubSeq(bars, 1, t) = [k \in 1..t |-> bars[k]]
    BY <1>2, <2>2
  <2>4. TechnicalFeatures([k \in 1..t |-> bars[k]])[t] = TechnicalFeatures(bars)[t]
    BY <1>2, <2>1, TechnicalIsCausal
  <2> QED
    BY <2>3, <2>4 DEF bars
<1>6. \A x : Same(x, x)
  BY DEF Same
<1> QED
  BY <1>3, <1>4, <1>5, <1>6

\* In every row of a finished file a forecast is of the row's own symbol and
\* hour and saw no later bar, and the technical features are those of the
\* series cut off after the row (assert_no_leakage, compute_technical_features).
THEOREM NoRowKnowsTheFuture == Spec => []NoFutureInRow
BY DataInvariant, NoFuture, PTL

-----------------------------------------------------------------------------
(* The two definitions of the technical features are the same.             *)

\* The rows of a window of w rows that ends at row t.
Window(n, w, t) == {k \in 1..n : k > t - w /\ k <= t}

\* What it holds, and how it differs from the one before.
WindowSteps(n, w, t) ==
  /\ Window(n, w, t) \subseteq 1..n
  /\ IsFiniteSet(Window(n, w, t)) /\ Cardinality(Window(n, w, t)) = Min({t, w})
  /\ Window(n, w, t) = Max({1, t - w + 1})..t
  /\ t > 0 => t \notin Window(n, w, t - 1)
  /\ t > w => /\ t - w \in Window(n, w, t - 1) /\ t - w \in 1..n
              /\ Window(n, w, t) = (Window(n, w, t - 1) \cup {t}) \ {t - w}
  /\ 0 < t /\ t <= w => Window(n, w, t) = Window(n, w, t - 1) \cup {t}

LEMMA WindowIs ==
  ASSUME NEW n \in Nat, NEW w \in Nat \ {0}, NEW t \in 0..n
  PROVE  WindowSteps(n, w, t)
<1>1. Min({t, w}) = IF t <= w THEN t ELSE w
  <2>1. t \in Int /\ w \in Int
    OBVIOUS
  <2> QED
    BY <2>1 DEF Min
<1>2. Max({1, t - w + 1}) = IF t <= w THEN 1 ELSE t - w + 1
  <2> DEFINE b == t - w + 1
  <2>1. b \in Int /\ 1 \in Int /\ (t <= w <=> b <= 1) /\ (~(t <= w) => 1 <= b)
    OBVIOUS
  <2> HIDE DEF b
  <2>2. Max({1, b}) = IF b <= 1 THEN 1 ELSE b
    BY <2>1, MaxOfTwo
  <2> QED
    BY <2>1, <2>2 DEF b
<1> DEFINE a == IF t <= w THEN 1 ELSE t - w + 1
<1>3. a \in Int /\ a >= 1 /\ Window(n, w, t) = a..t
  BY DEF Window
<1>4. IsFiniteSet(a..t) /\ Cardinality(a..t) = IF a > t THEN 0 ELSE t - a + 1
  <2> HIDE DEF a
  <2> QED
    BY <1>3, FS_Interval
<1>5. (IF a > t THEN 0 ELSE t - a + 1) = IF t <= w THEN t ELSE w
  OBVIOUS
<1>6. Window(n, w, t) \subseteq 1..n /\ (t > 0 => t \notin Window(n, w, t - 1))
  BY DEF Window
<1>7. t > w => /\ t - w \in Window(n, w, t - 1) /\ t - w \in 1..n
               /\ Window(n, w, t) = (Window(n, w, t - 1) \cup {t}) \ {t - w}
  BY DEF Window
<1>8. 0 < t /\ t <= w => Window(n, w, t) = Window(n, w, t - 1) \cup {t}
  BY DEF Window
<1> QED
  BY <1>1, <1>2, <1>3, <1>4, <1>5, <1>6, <1>7, <1>8 DEF WindowSteps

\* The deque of rolling means keeps the sum of its window.
LEMMA SumIsTotal ==
  ASSUME NEW n \in Nat, NEW w \in Nat \ {0}, NEW s, NEW f, IsSum(f, s, w, n),
         NEW p, \A k \in 1..n : p[k][1] = s[k] /\ s[k] \in Int, NEW t \in 0..n
  PROVE  f[t] = Total(p, Window(n, w, t))
<1> DEFINE T == {x \in 0..n : f[x] # Total(p, Window(n, w, x))}
<1> SUFFICES ASSUME T # {} PROVE FALSE
  OBVIOUS
<1>1. PICK x \in T : \A y \in T : x <= y
  <2>1. T \in SUBSET Nat
    OBVIOUS
  <2> HIDE DEF T
  <2> QED
    BY <2>1, LeastNatural
<1>2. x \in 0..n /\ f[x] # Total(p, Window(n, w, x))
  OBVIOUS
<1>3. f[x] = Sum(f, s, w, x)
  BY <1>2 DEF IsSum
<1>4. x # 0
  <2>1. Window(n, w, 0) = {}
    BY DEF Window
  <2>2. Total(p, {}) = 0
    BY FS_EmptySet, TotalStep
  <2> QED
    BY <1>2, <1>3, <2>1, <2>2 DEF Sum
<1>5. x - 1 \in 0..n /\ ~(x <= x - 1) /\ x > 0 /\ x \in 1..n
  BY <1>2, <1>4
<1>6. f[x - 1] = Total(p, Window(n, w, x - 1))
  BY <1>1, <1>5
<1> HIDE DEF T
<1> DEFINE A == Window(n, w, x - 1)
           W == Window(n, w, x)
           U == A \cup {x}
<1>7. /\ IsFiniteSet(A) /\ A \subseteq 1..n /\ x \notin A
      /\ x > w => x - w \in A /\ x - w \in 1..n /\ W = U \ {x - w}
      /\ ~(x > w) => W = U
  <2>1. x > 0 /\ (~(x > w) => x <= w)
    BY <1>5
  <2>2. WindowSteps(n, w, x)
    BY <1>2, WindowIs
  <2>3. WindowSteps(n, w, x - 1)
    <3> DEFINE y == x - 1
    <3>1. y \in 0..n
      BY <1>5
    <3> HIDE DEF y
    <3>2. WindowSteps(n, w, y)
      BY <3>1, WindowIs
    <3> QED
      BY <3>2 DEF y
  <2>4. IsFiniteSet(A) /\ A \subseteq 1..n
    BY <2>3 DEF WindowSteps
  <2>5. /\ x \notin A /\ (x > w => x - w \in A /\ x - w \in 1..n /\ W = U \ {x - w})
        /\ x <= w => W = U
    BY <2>1, <2>2 DEF WindowSteps
  <2> QED
    BY <2>1, <2>4, <2>5
<1> HIDE DEF A, W
<1>8. IsTotal(p, U)
  <2>1. IsFiniteSet(U)
    BY <1>7, FS_AddElement
  <2>2. \A k \in U : p[k][1] \in Int
    BY <1>5, <1>7
  <2> HIDE DEF U
  <2> QED
    BY <2>1, <2>2, TotalStep
<1>9. Total(p, U) = s[x] + Total(p, A) /\ Total(p, A) \in Int /\ s[x] \in Int
  <2>1. U \ {x} = A /\ x \in U
    BY <1>7
  <2> HIDE DEF U
  <2> QED
    BY <1>5, <1>8, <2>1 DEF IsTotal
<1>10. x > w => Total(p, U) = s[x - w] + Total(p, W) /\ Total(p, W) \in Int /\ s[x - w] \in Int
  <2>1. x > w => x - w \in U /\ W = U \ {x - w} /\ p[x - w][1] = s[x - w] /\ s[x - w] \in Int
    BY <1>7
  <2> HIDE DEF U
  <2> QED
    BY <1>8, <2>1 DEF IsTotal
<1>11. f[x] = Total(p, A) + s[x] - (IF x > w THEN s[x - w] ELSE 0)
  BY <1>3, <1>4, <1>6 DEF Sum, A
<1>12. f[x] = Total(p, W)
  <2>1. CASE x > w
    <3>1. /\ f[x] = Total(p, A) + s[x] - s[x - w]
          /\ Total(p, U) = s[x - w] + Total(p, W) /\ Total(p, W) \in Int /\ s[x - w] \in Int
      BY <1>10, <1>11, <2>1
    <3> HIDE DEF U
    <3> QED
      BY <1>9, <3>1
  <2>2. CASE ~(x > w)
    <3>1. Total(p, W) = s[x] + Total(p, A) /\ f[x] = Total(p, A) + s[x] - 0
      BY <1>7, <1>9, <1>11, <2>2
    <3> QED
      BY <1>9, <3>1
  <2> QED
    BY <2>1, <2>2
<1> QED
  BY <1>2, <1>12 DEF W

\* A series of numbers, as the pairs that pandas' mean is taken of.
IsPairs(p, s, n) == /\ n \in Nat /\ DOMAIN s = 1..n /\ Len(s) = n /\ DOMAIN p = 1..n
                    /\ \A k \in 1..n : s[k] \in Int /\ p[k] = <<s[k], 1>>

\* No row of it is left out of a window.
LEMMA WholeWindow ==
  ASSUME NEW n, NEW s, NEW p, IsPairs(p, s, n), NEW w \in Nat \ {0}, NEW t \in 1..n
  PROVE  /\ DOMAIN Rolling(p, w, t) = Window(n, w, t)
         /\ \A k \in Window(n, w, t) : Rolling(p, w, t)[k] = <<s[k], 1>>
<1> DEFINE D == {k \in DOMAIN p : k > t - w /\ k <= t /\ p[k] # NaN}
<1>1. \A k \in 1..n : p[k] = <<s[k], 1>> /\ p[k] # NaN
  <2>1. \A a : <<a, 1>> # <<0, 0>>
    OBVIOUS
  <2> QED
    BY <2>1 DEF IsPairs, NaN
<1>2. D = Window(n, w, t)
  BY <1>1 DEF IsPairs, Window
<1>3. Rolling(p, w, t) = [k \in D |-> p[k]]
  BY DEF Rolling, Restrict
<1> HIDE DEF D
<1> QED
  BY <1>1, <1>2, <1>3 DEF Window

\* rolling_mean and pandas' rolling(min_periods=1).mean().
LEMMA SameMean ==
  ASSUME NEW n, NEW s, NEW p, IsPairs(p, s, n), NEW w \in Nat \ {0}, NEW t \in 1..n
  PROVE  RollingMean(s, w)[t] = Mean(Rolling(p, w, t))
<1> DEFINE W == Window(n, w, t)
           r == Rolling(p, w, t)
<1>1. /\ n \in Nat /\ DOMAIN s = 1..n /\ Len(s) = n /\ t \in 0..n
      /\ \A k \in 1..n : s[k] \in Int /\ p[k][1] = s[k] /\ <<s[k], 1>>[1] = s[k]
  BY DEF IsPairs
<1>2. DOMAIN r = W /\ \A k \in W : r[k] = <<s[k], 1>>
  BY WholeWindow
<1>3. IsFiniteSet(W) /\ Cardinality(W) = Min({t, w}) /\ W \subseteq 1..n
  BY <1>1, WindowIs DEF WindowSteps
<1>4. PICK f : IsMeanBy(f, s, w, n, t)
  BY <1>1, MeanIs
<1>5. f[t] = Total(p, W) /\ RollingMean(s, w)[t] = <<f[t], Min({t, w})>>
  BY <1>1, <1>4, SumIsTotal DEF IsMeanBy
<1> HIDE DEF W, r
<1>6. Total(p, W) = Total(r, W)
  <2>1. \A k \in W : p[k][1] = r[k][1]
    BY <1>1, <1>2, <1>3
  <2> QED
    BY <1>3, <2>1, TotalOfSame
<1>7. Mean(r) = <<Total(r, DOMAIN r), Cardinality(DOMAIN r)>>
  BY DEF Mean, Total
<1> QED
  BY <1>2, <1>3, <1>4, <1>5, <1>6, <1>7 DEF r

\* rolling_max and pandas' rolling(min_periods=1).max().
LEMMA SameMaximum ==
  ASSUME NEW n, NEW s, NEW p, IsPairs(p, s, n), NEW w \in Nat \ {0}, NEW t \in 1..n
  PROVE  <<RollingMax(s, w)[t], 1>> = Highest(Rolling(p, w, t))
<1> DEFINE W == Window(n, w, t)
           r == Rolling(p, w, t)
<1>1. n \in Nat /\ t \in 0..n /\ DOMAIN s = 1..n /\ t > 0
  BY DEF IsPairs
<1>2. DOMAIN r = W /\ \A k \in W : r[k] = <<s[k], 1>>
  BY WholeWindow
<1>3. W = Max({1, t - w + 1})..t
  <2>1. WindowSteps(n, w, t)
    BY <1>1, WindowIs
  <2> QED
    BY <2>1 DEF WindowSteps
<1>4. RollingMax(s, w)[t] = Max({s[k] : k \in Max({1, t - w + 1})..t})
  BY <1>1 DEF RollingMax
<1> HIDE DEF W, r
<1>5. {s[k] : k \in W} = {r[k][1] : k \in W}
  <2>1. \A k \in W : r[k][1] = s[k]
    BY <1>2
  <2> QED
    BY <2>1
<1>6. Highest(r) = <<Max({r[k][1] : k \in DOMAIN r}), 1>>
  BY DEF Highest
<1> QED
  BY <1>2, <1>3, <1>4, <1>5, <1>6 DEF r

\* pct_change and pandas' pct_change with its missing values filled.
LEMMA SameChange ==
  ASSUME NEW n \in Nat, NEW s, DOMAIN s = 1..n, \A k \in 1..n : s[k] \in Nat \ {0},
         NEW w \in Nat \ {0}, NEW t \in 1..n
  PROVE  /\ PctChange(s, w)[t] = FillNa(PctChangePandas(s, w)[t], Zero)
         /\ PctChangePandas(s, w)[t] = NaN <=> t <= w
         /\ t > w => /\ PctChange(s, w)[t] = PctChangePandas(s, w)[t]
                     /\ PctChangePandas(s, w)[t][2] # 0
<1> DEFINE pair == <<s[t] - s[t - w], s[t - w]>>
<1>1. PctChange(s, w)[t] = IF t > w /\ s[t - w] # 0 THEN pair ELSE Zero
  BY DEF PctChange
<1>2. PctChangePandas(s, w)[t] = IF t <= w THEN NaN ELSE pair
  BY DEF PctChangePandas
<1>3. t > w <=> ~(t <= w)
  OBVIOUS
<1>4. t > w => s[t - w] # 0
  <2>1. t > w => t - w \in 1..n
    OBVIOUS
  <2> QED
    BY <2>1
<1>5. t > w => pair # NaN /\ pair[2] # 0
  BY <1>4 DEF NaN
<1> HIDE DEF pair
<1> QED
  BY <1>1, <1>2, <1>3, <1>4, <1>5 DEF FillNa

\* The standard deviation of the returns; where it is not a number, Same holds
\* of whatever it is compared with.
LEMMA SameVolatility ==
  ASSUME NEW n \in Nat, NEW s, DOMAIN s = 1..n, \A k \in 1..n : s[k] \in Nat \ {0},
         NEW w \in Nat \ {0}, w > 1, NEW t \in 1..n
  PROVE  Same(RollingStdOfReturns(s, w)[t],
              FillNa(Std(Rolling(PctChangePandas(s, 1), w, t)), Fallback))
<1> DEFINE p == PctChangePandas(s, 1)
           r == Rolling(p, w, t)
           first == Max({2, t - w + 1})
           q == [k \in first..t |-> PctChange(s, 1)[k]]
           D == {k \in DOMAIN p : k > t - w /\ k <= t /\ p[k] # NaN}
<1>1. \A k \in 1..n : /\ p[k] = NaN <=> k <= 1
                      /\ k > 1 => PctChange(s, 1)[k] = p[k] /\ p[k][2] # 0
  BY SameChange
<1>2. DOMAIN p = 1..n
  BY DEF PctChangePandas
<1> HIDE DEF p
<1>3. first = IF 2 < t - w + 1 THEN t - w + 1 ELSE 2
  <2> DEFINE b == t - w + 1
  <2>1. b \in Int
    OBVIOUS
  <2> HIDE DEF b
  <2>2. Max({2, b}) = IF 2 < b THEN b ELSE 2
    BY <2>1, MaxOfTwo
  <2> QED
    BY <2>2 DEF b
<1> HIDE DEF first
<1>4. first \in Int /\ first >= 2
  BY <1>3
<1>5. D = first..t
  <2>1. \A k \in 1..n : k > 1 <=> ~(k <= 1)
    OBVIOUS
  <2>2. \A k \in 1..n : k \in D <=> k > t - w /\ k <= t /\ k > 1
    BY <1>1, <1>2, <2>1
  <2>3. \A k \in 1..n : k > t - w /\ k <= t /\ k > 1 <=> k \in first..t
    BY <1>3
  <2>4. first..t \subseteq 1..n /\ D \subseteq 1..n
    BY <1>2, <1>4
  <2> HIDE DEF D
  <2> QED
    BY <2>2, <2>3, <2>4
<1>6. r = [k \in D |-> p[k]]
  BY DEF Rolling, Restrict
<1>7. \A k \in first..t : k \in 1..n /\ k > 1
  BY <1>4
<1>8. r = q
  <2> HIDE DEF D
  <2>1. \A k \in first..t : PctChange(s, 1)[k] = p[k]
    BY <1>1, <1>7
  <2> QED
    BY <1>5, <1>6, <2>1
<1>9. DOMAIN r = first..t /\ \A k \in DOMAIN r : r[k][2] # 0
  <2> HIDE DEF D
  <2>1. DOMAIN r = first..t
    BY <1>5, <1>6
  <2>2. \A k \in first..t : r[k] = p[k]
    BY <1>5, <1>6
  <2> QED
    BY <1>1, <1>7, <2>1, <2>2
<1>10. Cardinality(first..t) < 2 <=> t - first + 1 < 2
  <2>1. Cardinality(first..t) = IF first > t THEN 0 ELSE t - first + 1
    BY <1>4, FS_Interval
  <2> QED
    BY <1>4, <2>1
<1>11. RollingStdOfReturns(s, w)[t] = IF t - first + 1 < 2 THEN Fallback ELSE Variance(q)
  BY DEF RollingStdOfReturns, first
<1> HIDE DEF q, r
<1>12. CASE t - first + 1 < 2
  <2>1. Std(r) = NaN
    BY <1>9, <1>10, <1>12 DEF Std
  <2> QED
    BY <1>11, <1>12, <2>1 DEF FillNa, Same, r, p
<1>13. CASE ~(t - first + 1 < 2)
  <2>1. Std(r) = Variance(r)
    BY <1>9, <1>10, <1>13 DEF Std
  <2>2. Same(NaN, Fallback)
    BY DEF Same, NaN, Fallback
  <2>3. \A x : Same(x, x)
    BY DEF Same
  <2> QED
    BY <1>8, <1>11, <1>13, <2>1, <2>2, <2>3 DEF FillNa, r, p
<1> QED
  BY <1>12, <1>13

\* A bar of a price block.
IsBars(bars, n) ==
  /\ n \in Nat /\ DOMAIN bars = 1..n
  /\ \A k \in 1..n : bars[k].high \in Int /\ bars[k].low \in Int /\ bars[k].close \in Nat \ {0}

\* true_range and the row-wise maximum of its three columns.
LEMMA SameRange ==
  ASSUME NEW n, NEW bars, IsBars(bars, n), NEW t \in 1..n
  PROVE  /\ TrueRange(bars)[t] \in Int
         /\ TrueRange(bars)[t] =
              Max({bars[t].high - bars[t].low} \cup
                  {Distance(x, bars[k].close) :
                     x \in {bars[t].high, bars[t].low}, k \in {t - 1} \cap DOMAIN bars})
<1> DEFINE range == bars[t].high - bars[t].low
           last == bars[t - 1].close
           high == Distance(bars[t].high, last)
           low == Distance(bars[t].low, last)
           all == {Distance(x, bars[k].close) :
                     x \in {bars[t].high, bars[t].low}, k \in {t - 1} \cap DOMAIN bars}
<1> SUFFICES TrueRange(bars)[t] \in Int /\ TrueRange(bars)[t] = Max({range} \cup all)
  OBVIOUS
<1>1. range \in Int /\ n \in Nat /\ DOMAIN bars = 1..n
  BY DEF IsBars
<1>2. TrueRange(bars)[t] = IF t = 1 THEN range ELSE Max({range, high, low})
  BY <1>1 DEF TrueRange
<1>3. CASE t = 1
  <2>1. {t - 1} \cap DOMAIN bars = {}
    BY <1>1, <1>3
  <2>2. {range} \cup all = {range}
    BY <2>1
  <2>3. Max({range}) = range
    <3> HIDE DEF range
    <3> QED
      BY <1>1 DEF Max
  <2> HIDE DEF range, all
  <2> QED
    BY <1>1, <1>2, <1>3, <2>2, <2>3
<1>4. CASE t # 1
  <2>1. {t - 1} \cap DOMAIN bars = {t - 1} /\ t - 1 \in 1..n
    BY <1>1, <1>4
  <2>2. all = {high, low}
    BY <2>1
  <2>3. high \in Int /\ low \in Int
    BY <2>1 DEF IsBars, Distance
  <2> HIDE DEF range, all, high, low
  <2>4. {range} \cup all = {range, high, low} /\ IsFiniteSet({range, high, low})
    <3>1. {range, high, low} = ({range} \cup {high}) \cup {low}
      OBVIOUS
    <3>2. IsFiniteSet(({range} \cup {high}) \cup {low})
      BY FS_EmptySet, FS_AddElement, FS_Singleton
    <3> QED
      BY <2>2, <3>1, <3>2
  <2>5. Max({range, high, low}) \in Int
    <3> DEFINE X == {range, high, low}
    <3>1. X \in SUBSET Int /\ X # {} /\ IsFiniteSet(X)
      BY <1>1, <2>3, <2>4
    <3> HIDE DEF X
    <3>2. Max(X) \in X
      BY <3>1, MaxExists
    <3> QED
      BY <3>1, <3>2 DEF X
  <2> QED
    BY <1>2, <1>4, <2>4, <2>5
<1> QED
  BY <1>3, <1>4

Close(bars) == [i \in DOMAIN bars |-> bars[i].close]
ClosePairs(bars) == [i \in DOMAIN bars |-> <<bars[i].close, 1>>]
RangePairs(bars) ==
  [i \in DOMAIN bars |->
     <<Max({bars[i].high - bars[i].low} \cup
           {Distance(x, bars[k].close) :
              x \in {bars[i].high, bars[i].low}, k \in {i - 1} \cap DOMAIN bars}), 1>>]

\* The words of a row by either definition.
LoopWords(bars, c, i) ==
  << Clip(PctChange(c, 1)[i], Minus(Half), Half),
     Clip(PctChange(c, Short)[i], Minus(One), One),
     RollingStdOfReturns(c, Short)[i],
     Clip(Delta(c[i], RollingMean(c, Short)[i]), Minus(Half), Half),
     Clip(Delta(c[i], RollingMean(c, Long)[i]), Minus(Half), Half),
     Clip(Over(RollingMean(TrueRange(bars), Short)[i], <<c[i], 1>>), Zero, Half),
     Clip(PctChange(c, Long)[i], Minus(One), One),
     Clip(Delta(c[i], <<RollingMax(c, Long)[i], 1>>), Minus(One), Zero) >>
PandasWords(close, c, tr, i) ==
  << Clip(FillNa(PctChangePandas(close, 1)[i], Zero), Minus(Half), Half),
     Clip(FillNa(PctChangePandas(close, Short)[i], Zero), Minus(One), One),
     FillNa(Std(Rolling(PctChangePandas(close, 1), Short, i)), Fallback),
     Clip(Delta(close[i], Mean(Rolling(c, Short, i))), Minus(Half), Half),
     Clip(Delta(close[i], Mean(Rolling(c, Long, i))), Minus(Half), Half),
     Clip(Over(Mean(Rolling(tr, Short, i)), c[i]), Zero, Half),
     Clip(FillNa(PctChangePandas(close, Long)[i], Zero), Minus(One), One),
     Clip(Delta(close[i], Highest(Rolling(c, Long, i))), Minus(One), Zero) >>

LEMMA WordsOfBoth ==
  ASSUME NEW bars, NEW t \in DOMAIN bars
  PROVE  /\ TechnicalFeatures(bars)[t] = LoopWords(bars, Close(bars), t)
         /\ PandasFeatures(bars)[t] = PandasWords(Close(bars), ClosePairs(bars), RangePairs(bars), t)
<1>1. TechnicalFeatures(bars) = [i \in DOMAIN bars |-> LoopWords(bars, Close(bars), i)]
  BY DEF TechnicalFeatures, LoopWords, Close
<1>2. PandasFeatures(bars) =
        [i \in DOMAIN bars |-> PandasWords(Close(bars), ClosePairs(bars), RangePairs(bars), i)]
  BY DEF PandasFeatures, PandasWords, Close, ClosePairs, RangePairs
<1> QED
  BY <1>1, <1>2

\* The loops and pandas make the same features of positive prices.
LEMMA SameFeatures ==
  ASSUME NEW n, NEW bars, IsBars(bars, n), NEW t \in 1..n
  PROVE  \A k \in 1..8 : Same(TechnicalFeatures(bars)[t][k], PandasFeatures(bars)[t][k])
<1> DEFINE c == Close(bars)
           p == ClosePairs(bars)
           r == TrueRange(bars)
           q == RangePairs(bars)
<1>1. /\ Short \in Nat \ {0} /\ Short > 1 /\ Long \in Nat \ {0} /\ 1 \in Nat \ {0}
      /\ n \in Nat /\ DOMAIN bars = 1..n
  BY WindowsAssumption DEF IsBars
<1>2. /\ DOMAIN c = 1..n /\ Len(c) = n /\ \A k \in 1..n : c[k] \in Nat \ {0}
      /\ IsPairs(p, c, n)
  <2>1. DOMAIN c = 1..n /\ DOMAIN p = 1..n /\ \A k \in 1..n : c[k] \in Nat \ {0} /\ p[k] = <<c[k], 1>>
    BY <1>1 DEF IsBars, Close, ClosePairs
  <2>2. Len(c) = n
    <3>1. Len([i \in 1..n |-> bars[i].close]) = n
      BY <1>1
    <3> QED
      BY <1>1, <3>1 DEF Close
  <2> HIDE DEF c, p
  <2> QED
    BY <1>1, <2>1, <2>2 DEF IsPairs
<1>3. IsPairs(q, r, n)
  <2>1. DOMAIN r = 1..n /\ Len(r) = n
    BY <1>1 DEF TrueRange
  <2>2. DOMAIN q = 1..n
    BY <1>1 DEF RangePairs
  <2>3. \A k \in 1..n : r[k] \in Int /\ q[k] = <<r[k], 1>>
    BY <1>1, SameRange DEF RangePairs
  <2> HIDE DEF r, q
  <2> QED
    BY <1>1, <2>1, <2>2, <2>3 DEF IsPairs
<1>4. p[t] = <<c[t], 1>>
  BY <1>2 DEF IsPairs
<1>5. /\ TechnicalFeatures(bars)[t] = LoopWords(bars, c, t)
      /\ PandasFeatures(bars)[t] = PandasWords(c, p, q, t)
  BY <1>1, WordsOfBoth
<1> HIDE DEF c, p, q
<1>6. /\ PctChange(c, 1)[t] = FillNa(PctChangePandas(c, 1)[t], Zero)
      /\ PctChange(c, Short)[t] = FillNa(PctChangePandas(c, Short)[t], Zero)
      /\ PctChange(c, Long)[t] = FillNa(PctChangePandas(c, Long)[t], Zero)
  BY <1>1, <1>2, SameChange
<1>7. /\ RollingMean(c, Short)[t] = Mean(Rolling(p, Short, t))
      /\ RollingMean(c, Long)[t] = Mean(Rolling(p, Long, t))
      /\ <<RollingMax(c, Long)[t], 1>> = Highest(Rolling(p, Long, t))
  BY <1>1, <1>2, SameMean, SameMaximum
<1>8. RollingMean(TrueRange(bars), Short)[t] = Mean(Rolling(q, Short, t))
  BY <1>1, <1>3, SameMean
<1>9. Same(RollingStdOfReturns(c, Short)[t],
           FillNa(Std(Rolling(PctChangePandas(c, 1), Short, t)), Fallback))
  BY <1>1, <1>2, SameVolatility
<1>10. \A k \in 1..8 : k # 3 => LoopWords(bars, c, t)[k] = PandasWords(c, p, q, t)[k]
  BY <1>4, <1>6, <1>7, <1>8 DEF LoopWords, PandasWords
<1>11. Same(LoopWords(bars, c, t)[3], PandasWords(c, p, q, t)[3])
  BY <1>9 DEF LoopWords, PandasWords
<1>12. \A x : Same(x, x)
  BY DEF Same
<1> QED
  BY <1>5, <1>10, <1>11, <1>12

\* Whatever was fetched, a price is three numbers.
LEMMA FetchedIsPrice ==
  ASSUME NEW got, NEW c \in Nat, NEW s, NEW first, NEW h,
         \A src \in Sources : IsSeries(got[src][s], c)
  PROVE  \A k \in 1..3 : FetchedPrice(got, s, first, h)[k] \in Nat
<1> DEFINE own(x) == {src \in Sources : x \in DOMAIN got[src][s]}
           bar(x) == IF "kraken" \in own(x) THEN got["kraken"][s][x]
                     ELSE got[CHOOSE src \in own(x) : TRUE][s][x]
           earlier == {x \in first..h : own(x) # {}}
<1>1. \A src \in Sources : \A x \in DOMAIN got[src][s] : x \in 0..c /\ got[src][s][x] \in Bar
  BY DEF IsSeries
<1>2. ASSUME NEW x, own(x) # {} PROVE x \in 0..c /\ bar(x) \in Bar
  <2> DEFINE src == CHOOSE src \in own(x) : TRUE
  <2>1. src \in own(x)
    BY <1>2
  <2> HIDE DEF src
  <2>2. x \in DOMAIN got[src][s] /\ src \in Sources
    BY <2>1
  <2>3. CASE "kraken" \in own(x)
    BY <1>1, <2>2, <2>3
  <2>4. CASE "kraken" \notin own(x)
    <3>1. bar(x) = got[src][s][x]
      BY <2>4 DEF src
    <3> QED
      BY <1>1, <2>2, <3>1
  <2> QED
    BY <2>3, <2>4
<1>3. earlier # {} => Max(earlier) \in earlier
  <2> SUFFICES ASSUME earlier # {} PROVE Max(earlier) \in earlier
    OBVIOUS
  <2>1. earlier \subseteq 0..c
    BY <1>2
  <2>2. IsFiniteSet(0..c) /\ 0..c \subseteq Int
    BY FS_Interval
  <2> HIDE DEF earlier
  <2>3. IsFiniteSet(earlier) /\ earlier \in SUBSET Int
    BY <2>1, <2>2, FS_Subset
  <2> QED
    BY <2>3, MaxExists
<1>4. FetchedPrice(got, s, first, h) =
        IF own(h) # {} THEN Price(bar(h))
        ELSE IF earlier = {} THEN Price(ZeroBar) ELSE Price(FlatBar(bar(Max(earlier)).close))
  BY DEF FetchedPrice
<1>5. earlier # {} => own(Max(earlier)) # {}
  BY <1>3
<1> HIDE DEF own, bar, earlier
<1>6. \A b \in Bar : \A k \in 1..3 : Price(b)[k] \in Nat /\ Price(FlatBar(b.close))[k] \in Nat
  BY DEF Price, FlatBar, Bar
<1>7. \A k \in 1..3 : Price(ZeroBar)[k] \in Nat
  BY DEF Price, ZeroBar
<1> QED
  BY <1>2, <1>4, <1>5, <1>6, <1>7

\* In a finished file the features of the loops are those of pandas, wherever
\* there is no zero price.
LEMMA Parity == DataInv => TechnicalParity
<1> SUFFICES ASSUME DataInv, Written, ~Exported PROVE TechnicalParity
  BY DEF TechnicalParity
<1>1. PICK names, features, prices :
        /\ IsContent(names, features, prices)
        /\ ReadSymbols(file) = {names} /\ ReadFeatures(file) = {features}
        /\ ReadPrices(file) = {prices}
  BY FinishedFile
<1> DEFINE nt == Len(prices)
           ns == Len(names)
<1>2. /\ ProgramInv /\ nt \in Nat /\ DOMAIN names = 1..ns /\ DOMAIN prices = 1..nt
      /\ \A i \in 1..ns : names[i] \in Sym
  BY <1>1 DEF DataInv, IsContent, IsBlock
<1> SUFFICES ASSUME NEW i \in 1..ns, \A t \in 1..nt : BarsOfFile(prices, i)[t].close > 0, NEW t \in 1..nt
             PROVE  \A k \in 1..8 : Same(features[t][i][Len(Horizons) + k],
                                         PandasFeatures(BarsOfFile(prices, i))[t][k])
  <2> DEFINE row(f, p, n, y) ==
               LET bars == BarsOfFile(p, y)
                   pandas == PandasFeatures(bars)
               IN  (\A x \in DOMAIN bars : bars[x].close > 0) =>
                     \A x \in DOMAIN bars, k \in 1..8 :
                       Same(f[x][y][Len(Horizons) + k], pandas[x][k])
  <2>1. \A i \in 1..ns : DOMAIN BarsOfFile(prices, i) = 1..nt
    BY <1>2 DEF BarsOfFile
  <2> HIDE DEF nt, ns
  <2>2. \A i \in 1..ns : row(features, prices, names, i)
    BY <2>1
  <2>3. SUFFICES ASSUME NEW f \in ReadFeatures(file), NEW p \in ReadPrices(file), NEW n \in ReadSymbols(file)
                 PROVE  \A y \in DOMAIN n : row(f, p, n, y)
    BY DEF TechnicalParity
  <2> HIDE DEF row
  <2> QED
    BY <1>1, <1>2, <2>2
<1> DEFINE bars == BarsOfFile(prices, i)
<1>3. \A k \in 1..8 : features[t][i][Len(Horizons) + k] = TechnicalFeatures(bars)[t][k]
  BY <1>1 DEF IsContent
<1>4. \A x \in 1..nt : \A k \in 1..3 : prices[x][i][k] \in Nat
  <2> SUFFICES ASSUME NEW x \in 1..nt PROVE \A k \in 1..3 : prices[x][i][k] \in Nat
    OBVIOUS
  <2>1. prices[x][i] = FetchedPrice(job["data"].got, names[i], HourOf(1), HourOf(x))
    BY <1>1, RightPriceIs DEF IsContent
  <2>2. "data" \in Jobs /\ clock \in Nat
    BY <1>2, PipelineAssumption DEF Jobs, ProgramInv, MarketIsSound
  <2>3. \A src \in Sources : IsSeries(job["data"].got[src][names[i]], clock)
    BY <1>2, <2>2, OneFinds
  <2> DEFINE got == job["data"].got
             first == HourOf(1)
             h == HourOf(x)
  <2> HIDE DEF got, first, h
  <2>4. \A k \in 1..3 : FetchedPrice(got, names[i], first, h)[k] \in Nat
    BY <2>2, <2>3, FetchedIsPrice DEF got
  <2> QED
    BY <2>1, <2>4 DEF got, first, h
<1>5. IsBars(bars, nt)
  <2>1. DOMAIN bars = 1..nt
    BY <1>2 DEF BarsOfFile
  <2>2. \A x \in 1..nt : bars[x] = [high |-> prices[x][i][1], low |-> prices[x][i][2],
                                    close |-> prices[x][i][3]]
    BY <1>2 DEF BarsOfFile
  <2>3. \A x \in 1..nt : bars[x].high \in Nat /\ bars[x].low \in Nat /\ bars[x].close \in Nat
    <3> HIDE DEF bars, nt
    <3>1. \A x \in 1..nt : /\ bars[x].high = prices[x][i][1] /\ bars[x].low = prices[x][i][2]
                           /\ bars[x].close = prices[x][i][3]
      <4> SUFFICES ASSUME NEW x \in 1..nt
                   PROVE  /\ bars[x].high = prices[x][i][1] /\ bars[x].low = prices[x][i][2]
                          /\ bars[x].close = prices[x][i][3]
        OBVIOUS
      <4> DEFINE a == prices[x][i][1]
                 b == prices[x][i][2]
                 c == prices[x][i][3]
      <4>1. bars[x] = [high |-> a, low |-> b, close |-> c]
        BY <2>2
      <4> HIDE DEF a, b, c
      <4>2. bars[x].high = a /\ bars[x].low = b /\ bars[x].close = c
        BY <4>1
      <4> QED
        BY <4>2 DEF a, b, c
    <3>2. 1 \in 1..3 /\ 2 \in 1..3 /\ 3 \in 1..3
      OBVIOUS
    <3> QED
      BY <1>4, <3>1, <3>2
  <2>4. \A x \in 1..nt : bars[x].close > 0
    OBVIOUS
  <2> HIDE DEF bars, nt
  <2>5. \A x \in 1..nt : bars[x].high \in Int /\ bars[x].low \in Int /\ bars[x].close \in Nat \ {0}
    BY <2>3, <2>4
  <2> QED
    BY <1>2, <2>1, <2>5 DEF IsBars
<1> HIDE DEF bars, nt
<1>6. \A k \in 1..8 : Same(TechnicalFeatures(bars)[t][k], PandasFeatures(bars)[t][k])
  BY <1>5, SameFeatures
<1> QED
  BY <1>3, <1>6 DEF bars

\* The features that the loops of technical.py write are those of the pandas
\* definition that they mirror, for any positive prices and both windows.
THEOREM DefinitionsAgree == Spec => []TechnicalParity
BY DataInvariant, Parity, PTL

-----------------------------------------------------------------------------
(* The training set.                                                       *)

\* The first words of a file, and a file whose header has numbers.
IsPart(v, w) ==
  \E X : /\ v \in Seq(X) /\ w \in Seq(X) /\ Len(v) <= Len(w)
         /\ \A i \in 1..Len(v) : v[i] = w[i]
HasNumbers(w) ==
  \A h \in ReadHeader(w) : h.ns \in Nat /\ h.nt \in Nat /\ h.fps \in Nat \ {0}

LEMMA PartHeader ==
  ASSUME NEW v, NEW w, IsPart(v, w), NEW h \in ReadHeader(v)
  PROVE  ReadHeader(w) = {h} /\ ReadHeader(v) = {h}
<1>1. PICK X : /\ v \in Seq(X) /\ w \in Seq(X) /\ Len(v) <= Len(w)
               /\ \A i \in 1..Len(v) : v[i] = w[i]
  BY DEF IsPart
<1>2. ~(Len(v) < 3) /\ Len(v) \in Nat /\ Len(w) \in Nat
  BY <1>1 DEF ReadHeader, HeaderSize
<1>3. ~(Len(w) < 3) /\ v[1] = w[1] /\ v[2] = w[2] /\ v[3] = w[3]
  <2>1. 1 \in 1..Len(v) /\ 2 \in 1..Len(v) /\ 3 \in 1..Len(v) /\ ~(Len(w) < 3)
    BY <1>1, <1>2
  <2> QED
    BY <1>1, <2>1
<1> QED
  BY <1>2, <1>3 DEF ReadHeader, HeaderSize

\* A slice of the first words is that slice of all words.
LEMMA PartSlice ==
  ASSUME NEW v, NEW w, IsPart(v, w), NEW a \in 1..Len(v), NEW b \in 1..Len(v), a <= b
  PROVE  SubSeq(v, a, b) = SubSeq(w, a, b)
<1>1. PICK X : /\ v \in Seq(X) /\ w \in Seq(X) /\ Len(v) <= Len(w)
               /\ \A i \in 1..Len(v) : v[i] = w[i]
  BY DEF IsPart
<1> DEFINE e == SubSeq(v, a, b)
           f == SubSeq(w, a, b)
           n == b - a + 1
<1>2. n \in Nat /\ a \in 1..Len(w) /\ b \in 1..Len(w) /\ \A k \in 1..n : a + k - 1 \in 1..Len(v)
  BY <1>1
<1>3. e \in Seq(X) /\ Len(e) = n /\ \A k \in 1..n : e[k] = v[a + k - 1]
  BY <1>1
<1>4. f \in Seq(X) /\ Len(f) = n /\ \A k \in 1..n : f[k] = w[a + k - 1]
  BY <1>1, <1>2
<1> HIDE DEF e, f, n
<1>5. \A k \in 1..n : e[k] = f[k]
  BY <1>1, <1>2, <1>3, <1>4
<1>6. e = [k \in 1..n |-> e[k]] /\ f = [k \in 1..n |-> f[k]]
  BY <1>2, <1>3, <1>4
<1>7. [k \in 1..n |-> e[k]] = [k \in 1..n |-> f[k]]
  BY <1>5
<1>8. e = f
  BY <1>6, <1>7
<1> QED
  BY <1>8 DEF e, f

\* What a reader gets of the first words, it gets of all words.
LEMMA PartBlock ==
  ASSUME NEW v, NEW w, IsPart(v, w), NEW offset \in Nat, NEW nt \in Nat, NEW ns \in Nat,
         NEW per \in Nat \ {0}, NEW rows \in ReadBlock(v, offset, nt, ns, per)
  PROVE  rows \in ReadBlock(w, offset, nt, ns, per)
<1> DEFINE place(t, i) == offset + ((t - 1) * ns + i - 1) * per
           entry(u, t, i) == SubSeq(u, place(t, i) + 1, place(t, i) + per)
           size == nt * ns * per
<1>1. PICK X : v \in Seq(X) /\ w \in Seq(X) /\ Len(v) <= Len(w)
  BY DEF IsPart
<1>2. nt * ns \in Nat /\ size \in Nat
  BY Products
<1>3. \A u : ReadBlock(u, offset, nt, ns, per) =
        IF Len(u) < offset + size THEN {} ELSE {[t \in 1..nt |-> [i \in 1..ns |-> entry(u, t, i)]]}
  BY DEF ReadBlock
<1>4. /\ Len(v) \in Nat /\ Len(w) \in Nat /\ offset + size <= Len(v) /\ ~(Len(w) < offset + size)
      /\ rows = [t \in 1..nt |-> [i \in 1..ns |-> entry(v, t, i)]]
  <2> HIDE DEF size, entry
  <2>1. Len(v) \in Nat /\ Len(w) \in Nat
    BY <1>1
  <2>2. ~(Len(v) < offset + size) /\ rows = [t \in 1..nt |-> [i \in 1..ns |-> entry(v, t, i)]]
    BY <1>3
  <2> QED
    BY <1>1, <1>2, <2>1, <2>2
<1>5. ASSUME NEW t \in 1..nt, NEW i \in 1..ns PROVE entry(v, t, i) = entry(w, t, i)
  <2> DEFINE c == nt * ns
             m == t - 1
             a == m * ns + i - 1
             at == a * per
  <2>1. m \in Nat /\ m < nt /\ i \in Nat /\ 0 < i /\ i <= ns
    OBVIOUS
  <2> HIDE DEF m
  <2>2. m * ns \in Nat /\ m * ns + ns <= c
    BY <2>1, Products
  <2>3. a \in Nat /\ a < c /\ c \in Nat
    <3> DEFINE d == m * ns
    <3>1. d \in Nat /\ d + ns <= c /\ c \in Nat
      BY <1>2, <2>2
    <3> HIDE DEF c, d
    <3>2. d + i - 1 \in Nat /\ d + i - 1 < c
      BY <2>1, <3>1
    <3> QED
      BY <3>1, <3>2 DEF d
  <2> HIDE DEF a, c
  <2>4. at \in Nat /\ at + per <= c * per
    BY <2>3, Products
  <2>5. place(t, i) = offset + at
    BY DEF a, m
  <2>6. c * per \in Nat /\ offset + c * per <= Len(v)
    BY <1>2, <1>4 DEF c
  <2> DEFINE all == c * per
             x == offset + at + 1
             y == offset + at + per
  <2> HIDE DEF at, all
  <2>7. x \in 1..Len(v) /\ y \in 1..Len(v) /\ x <= y
    <3>1. all \in Nat /\ at \in Nat /\ at + per <= all /\ offset + all <= Len(v)
      BY <2>4, <2>6 DEF all
    <3> QED
      BY <1>4, <3>1
  <2>8. x = place(t, i) + 1 /\ y = place(t, i) + per
    BY <2>5
  <2> HIDE DEF x, y, place
  <2>9. SubSeq(v, x, y) = SubSeq(w, x, y)
    BY <2>7, PartSlice
  <2> QED
    BY <2>8, <2>9
<1> HIDE DEF entry, size
<1>6. [t \in 1..nt |-> [i \in 1..ns |-> entry(v, t, i)]] = [t \in 1..nt |-> [i \in 1..ns |-> entry(w, t, i)]]
  BY <1>5
<1> QED
  BY <1>3, <1>4, <1>6

LEMMA PartIsRead ==
  ASSUME NEW v, NEW w, IsPart(v, w), HasNumbers(w)
  PROVE  ReadFeatures(v) \subseteq ReadFeatures(w) /\ ReadPrices(v) \subseteq ReadPrices(w)
<1>1. CASE ReadHeader(v) = {}
  BY <1>1 DEF ReadFeatures, ReadPrices
<1>2. CASE ReadHeader(v) # {}
  <2>1. PICK h : h \in ReadHeader(v)
    BY <1>2
  <2>2. ReadHeader(v) = {h} /\ ReadHeader(w) = {h}
    BY <2>1, PartHeader
  <2>3. h.ns \in Nat /\ h.nt \in Nat /\ h.fps \in Nat \ {0} /\ PriceFeatures \in Nat \ {0}
    BY <2>2, PriceWords DEF HasNumbers
  <2> DEFINE from == HeaderSize + h.ns
             lf == h.nt * h.ns * h.fps
  <2>4. from \in Nat /\ lf \in Nat
    <3>1. h.nt * h.ns \in Nat
      BY <2>3, Products
    <3> QED
      BY <2>3, <3>1, Products DEF HeaderSize
  <2>5. \A u : ReadHeader(u) = {h} =>
          /\ ReadFeatures(u) = ReadBlock(u, from, h.nt, h.ns, h.fps)
          /\ ReadPrices(u) = ReadBlock(u, from + lf, h.nt, h.ns, PriceFeatures)
    BY DEF ReadFeatures, ReadPrices
  <2> DEFINE to == from + lf
  <2>6. to \in Nat
    <3> HIDE DEF from, lf
    <3> QED
      BY <2>4
  <2> HIDE DEF from, lf, to
  <2>7. ReadFeatures(v) \subseteq ReadFeatures(w)
    BY <2>2, <2>3, <2>4, <2>5, PartBlock
  <2>8. ReadPrices(v) \subseteq ReadPrices(w)
    <3>1. ReadPrices(v) = ReadBlock(v, to, h.nt, h.ns, PriceFeatures)
          /\ ReadPrices(w) = ReadBlock(w, to, h.nt, h.ns, PriceFeatures)
      BY <2>2, <2>5 DEF to
    <3> QED
      BY <2>3, <2>6, <3>1, PartBlock
  <2> QED
    BY <2>7, <2>8
<1> QED
  BY <1>1, <1>2

\* A price block has the rows of which the header tells.
LEMMA PricesHaveRows ==
  ASSUME NEW w, NEW h \in ReadHeader(w), h.nt \in Nat, NEW prices \in ReadPrices(w)
  PROVE  Len(prices) = h.nt
<1> DEFINE place(t, i) == HeaderSize + h.ns + h.nt * h.ns * h.fps + ((t - 1) * h.ns + i - 1) * PriceFeatures
           entry(t, i) == SubSeq(w, place(t, i) + 1, place(t, i) + PriceFeatures)
           row(t) == [i \in 1..h.ns |-> entry(t, i)]
<1>1. ReadHeader(w) = {h}
  BY DEF ReadHeader
<1>2. prices = [t \in 1..h.nt |-> row(t)]
  BY <1>1 DEF ReadPrices, ReadBlock
<1> HIDE DEF row
<1> DEFINE n == h.nt
<1>3. n \in Nat /\ prices = [t \in 1..n |-> row(t)]
  BY <1>2
<1> HIDE DEF n
<1>4. Len([t \in 1..n |-> row(t)]) = n
  BY <1>3
<1> QED
  BY <1>3, <1>4 DEF n

\* A sequence begins what is made of it by adding another one.
LEMMA ConcatIs ==
  ASSUME NEW X, NEW a \in Seq(X), NEW b \in Seq(X)
  PROVE  a \o b \in Seq(X) /\ Len(a \o b) = Len(a) + Len(b)
         /\ \A i \in 1..Len(a) : (a \o b)[i] = a[i]
OBVIOUS

\* The pieces of a file, in the order of the writes.
LEMMA PiecesArePart ==
  ASSUME NEW X, NEW a \in Seq(X), NEW b \in Seq(X), NEW c \in Seq(X)
  PROVE  LET w == (a \o b) \o c IN
         IsPart(<<>>, w) /\ IsPart(a, w) /\ IsPart(a \o b, w) /\ IsPart(w, w)
<1> DEFINE d == a \o b
           w == d \o c
<1>1. d \in Seq(X) /\ Len(d) = Len(a) + Len(b) /\ \A i \in 1..Len(a) : d[i] = a[i]
  BY ConcatIs, Zenon
<1> HIDE DEF d
<1>2. w \in Seq(X) /\ Len(w) = Len(d) + Len(c) /\ \A i \in 1..Len(d) : w[i] = d[i]
  BY <1>1, ConcatIs, Zenon
<1> HIDE DEF w
<1>3. Len(a) \in Nat /\ Len(b) \in Nat /\ Len(c) \in Nat
  OBVIOUS
<1>4. IsPart(<<>>, w)
  <2>1. <<>> \in Seq(X) /\ Len(<<>>) = 0 /\ 0 <= Len(w) /\ 1..0 = {}
    BY <1>1, <1>2, <1>3
  <2> QED
    BY <1>2, <2>1 DEF IsPart
<1>5. IsPart(a, w)
  <2>1. Len(a) <= Len(w) /\ 1..Len(a) \subseteq 1..Len(d)
    BY <1>1, <1>2, <1>3
  <2>2. \A i \in 1..Len(a) : a[i] = w[i]
    BY <1>1, <1>2, <2>1
  <2> QED
    BY <1>2, <2>1, <2>2 DEF IsPart
<1>6. IsPart(d, w)
  <2>1. Len(d) <= Len(w)
    BY <1>1, <1>2, <1>3
  <2> QED
    BY <1>1, <1>2, <2>1 DEF IsPart
<1>7. IsPart(w, w)
  <2>1. Len(w) <= Len(w)
    BY <1>1, <1>2, <1>3
  <2> QED
    BY <1>2, <2>1 DEF IsPart
<1> QED
  BY <1>4, <1>5, <1>6, <1>7 DEF w, d

\* The file of a content: its pieces, and the numbers of its header.
LEMMA ContentIsText ==
  ASSUME NEW names, NEW features, NEW prices, IsContent(names, features, prices)
  PROVE  \E X : \E a, b, c \in Seq(X) :
           /\ a # <<>> /\ b # <<>> /\ c # <<>> /\ HasNumbers((a \o b) \o c)
           /\ MarketBin(names, features, prices, FeaturesPerSym) = <<a, b, c>>
<1> DEFINE ns == Len(names)
           nt == Len(prices)
           fps == FeaturesPerSym
           F == Cells(features, nt, ns, fps)
           P == Cells(prices, nt, ns, PriceFeatures)
           X == Nat \cup Sym \cup F \cup P
           head == <<ns, nt, fps>>
           a == head \o names
           b == Flatten(features)
           c == Flatten(prices)
<1>1. /\ names \in Seq(Sym) /\ names # <<>> /\ nt \in Nat \ {0}
      /\ IsBlock(features, nt, ns, fps) /\ IsBlock(prices, nt, ns, PriceFeatures)
  BY DEF IsContent
<1>2. ns \in Nat \ {0} /\ fps \in Nat \ {0} /\ PriceFeatures \in Nat \ {0}
  BY <1>1, WordCount, PriceWords
<1>3. Nat \subseteq X /\ Sym \subseteq X /\ F \subseteq X /\ P \subseteq X
  OBVIOUS
<1>4. MarketBin(names, features, prices, FeaturesPerSym) = <<a, b, c>>
  BY DEF MarketBin
<1>5. head \in Seq(X) /\ names \in Seq(X) /\ Len(head) = 3
      /\ head[1] = ns /\ head[2] = nt /\ head[3] = fps
  <2>1. ns \in X /\ nt \in X /\ fps \in X
    BY <1>1, <1>2, <1>3
  <2> HIDE DEF ns, nt, fps, X
  <2>2. head \in Seq(X) /\ Len(head) = 3 /\ head[1] = ns /\ head[2] = nt /\ head[3] = fps
    BY <2>1
  <2>3. names \in Seq(X)
    <3>1. names \in Seq(Sym) /\ Sym \subseteq X
      BY <1>1, <1>3
    <3> QED
      BY <3>1
  <2> QED
    BY <2>2, <2>3
<1> HIDE DEF ns, nt, fps, F, P, X, head
<1>6. b # <<>> /\ c # <<>> /\ b \in Seq(F) /\ c \in Seq(P)
  <2>1. b # <<>> /\ c # <<>>
    BY <1>1, <1>2, BlockHasWords
  <2>2. b \in Seq(F)
    BY <1>1, <1>2, FlattenIs DEF F
  <2>3. c \in Seq(P)
    BY <1>1, <1>2, FlattenIs DEF P
  <2> QED
    BY <2>1, <2>2, <2>3
<1> HIDE DEF b, c
<1>7. b \in Seq(X) /\ c \in Seq(X)
  BY <1>3, <1>6
<1>8. /\ a \in Seq(X) /\ Len(a) = Len(head) + Len(names)
      /\ \A i \in 1..Len(head) : a[i] = head[i]
  <2>1. head \in Seq(X) /\ names \in Seq(X)
    BY <1>5
  <2> QED
    BY <2>1
<1> HIDE DEF a
<1>9. ~(Len(a) < 3) /\ a[1] = ns /\ a[2] = nt /\ a[3] = fps /\ a # <<>>
  <2>1. Len(names) \in Nat
    BY <1>5
  <2>2. ~(Len(a) < 3)
    BY <1>5, <1>8, <2>1
  <2>3. a[1] = ns /\ a[2] = nt /\ a[3] = fps
    BY <1>5, <1>8
  <2> QED
    BY <2>2, <2>3
<1>10. HasNumbers((a \o b) \o c)
  <2> DEFINE w == (a \o b) \o c
             h == [ns |-> ns, nt |-> nt, fps |-> fps]
  <2>1. IsPart(a, w)
    BY <1>7, <1>8, PiecesArePart
  <2> HIDE DEF w
  <2>2. h \in ReadHeader(a)
    BY <1>9 DEF ReadHeader, HeaderSize
  <2>3. ReadHeader(w) = {h}
    <3> HIDE DEF h
    <3> QED
      BY <2>1, <2>2, PartHeader
  <2>4. h.ns \in Nat /\ h.nt \in Nat /\ h.fps \in Nat \ {0}
    BY <1>1, <1>2
  <2> HIDE DEF h
  <2>5. HasNumbers(w)
    BY <2>3, <2>4 DEF HasNumbers
  <2> QED
    BY <2>5 DEF w
<1> QED
  BY <1>4, <1>6, <1>7, <1>8, <1>9, <1>10

\* What is in the file are the first words of the file that was begun last.
IsBegun(names, features, prices) ==
  LET w == MarketBin(names, features, prices, FeaturesPerSym)
  IN  /\ IsContent(names, features, prices) /\ IsWritten(file, job["data"].chunks, w)
      /\ job["data"].chunks = <<<<>>>> \o w \/ whole = (w[1] \o w[2]) \o w[3]

FileFollows ==
  /\ IsPart(file, whole) /\ HasNumbers(whole)
  /\ job["data"].pc = "write" => \E names, features, prices : IsBegun(names, features, prices)

\* The rows of a sample lie below the split.
LEMMA SplitIs ==
  ASSUME NEW nt \in Nat, NEW t \in 1..(TMax(nt) - Horizon)
  PROVE  t \in 1..nt /\ t + Horizon \in 1..nt /\ 100 * (t + Horizon) <= nt * SplitPct
<1> DEFINE q == nt * SplitPct
           m == q \div 100
<1>1. SplitPct \in 1..100 /\ Horizon \in Nat \ {0}
  BY PipelineAssumption
<1>2. q \in Nat /\ q <= nt * 100
  <2>1. SplitPct \in Nat /\ SplitPct <= 100
    BY <1>1
  <2> QED
    BY <2>1
<1>3. TMax(nt) = m
  BY DEF TMax
<1> HIDE DEF q
<1>4. m \in Nat /\ 100 * m <= q
  BY <1>2
<1> HIDE DEF m
<1>5. m <= nt
  BY <1>2, <1>4
<1>6. t \in Nat /\ 0 < t /\ t + Horizon <= m
  BY <1>1, <1>3, <1>4
<1> QED
  BY <1>1, <1>4, <1>5, <1>6 DEF q

\* What a sample is: a row of both blocks and the label of its symbol, below
\* the split.
IsSampled(features, prices) ==
  \A p \in DOMAIN train.samples :
    /\ 100 * (p[1] + Horizon) <= Len(prices) * SplitPct
    /\ train.samples[p].x = features[p[1]][p[2]] /\ CloseAt(prices, p[1], p[2]) > 0
    /\ train.samples[p].y = (CloseAt(prices, p[1] + Horizon, p[2]) > CloseAt(prices, p[1], p[2]))

\* What training has read of one file, that file has when it is complete.
TrainingFollows ==
  /\ train.pc = "features" => train.read = {}
  /\ train.pc \notin {"features", "dead"} => train.read # {}
  /\ train.pc \in {"features", "prices", "dataset", "dead"} => train.samples = <<>>
  /\ \A w : train.read = {w} =>
       /\ train.pc # "dead" => train.features \in ReadFeatures(w)
       /\ train.pc \in {"dataset", "model", "metadata", "done"} => train.prices \in ReadPrices(w)
       /\ train.samples # <<>> => IsSampled(train.features, train.prices)

\* The inductive invariant of the training set.
SetInv == DataInv /\ FileFollows /\ TrainingFollows

LEMMA FileStays ==
  ASSUME FileFollows, HasSame, UNCHANGED <<file, whole>>,
         job'["data"].chunks = job["data"].chunks, job'["data"].pc = job["data"].pc
  PROVE  FileFollows'
<1>1. \A names, features, prices : IsContent(names, features, prices) => IsContent(names, features, prices)'
  BY ContentStays
<1>2. \A names, features, prices : IsBegun(names, features, prices) => IsBegun(names, features, prices)'
  BY <1>1 DEF IsBegun
<1> QED
  BY <1>2 DEF FileFollows

LEMMA FileRests ==
  ASSUME FileFollows, UNCHANGED <<file, whole>>, job'["data"].pc # "write"
  PROVE  FileFollows'
BY DEF FileFollows

\* The old file stays until the first of the writes.
LEMMA FileIsOpened ==
  ASSUME ProgramInv, DataIsSound, FileFollows, BuildBin \/ EndExport, UNCHANGED <<file, whole>>
  PROVE  FileFollows'
<1> DEFINE r == job["data"]
<1>1. CASE Die("data")
  <2> DEFINE n == [Idle EXCEPT !.pc = "dead"]
  <2>1. job'["data"] = n
    BY <1>1, NewRecord DEF Die
  <2>2. n.pc = "dead"
    BY DEF Idle
  <2> QED
    BY <2>1, <2>2, FileRests
<1>2. CASE ~Die("data")
  <2>1. PICK names, features, prices :
          IsContent(names, features, prices) /\ Write(names, features, prices)
    BY <1>2, BuildIs, ExportIs
  <2>2. UNCHANGED tape
    BY StepsLeave
  <2> DEFINE w == MarketBin(names, features, prices, FeaturesPerSym)
             n == [r EXCEPT !.pc = "write", !.chunks = <<<<>>>> \o w]
  <2>3. job' = [job EXCEPT !["data"] = n]
    BY <2>1 DEF Write
  <2> HIDE DEF w
  <2>4. /\ n.plan = r.plan /\ n.got = r.got /\ n.joined = r.joined
        /\ n.chunks = <<<<>>>> \o w
    <3>1. "data" \in Jobs
      BY DEF Jobs
    <3>2. IsProgram(r, clock)
      BY <3>1, OneFinds
    <3> HIDE DEF r
    <3> QED
      BY <3>2 DEF IsProgram
  <2> HIDE DEF n
  <2>5. job'["data"] = n
    BY <2>3, NewRecord
  <2>6. HasSame
    BY <2>2, <2>4, <2>5 DEF HasSame
  <2>7. IsContent(names, features, prices)'
    BY <2>1, <2>6, ContentStays
  <2>8. IsBegun(names, features, prices)'
    BY <2>4, <2>5, <2>7 DEF IsBegun, IsWritten, w
  <2> QED
    BY <2>8 DEF FileFollows
<1> QED
  BY <1>1, <1>2

\* What is written is the rest of the same file.
LEMMA FileGoesOn ==
  ASSUME ProgramInv, FileFollows, WriteChunk
  PROVE  FileFollows'
<1> DEFINE chunks == job["data"].chunks
<1>1. PICK names, features, prices : IsBegun(names, features, prices)
  BY DEF WriteChunk, FileFollows
<1> DEFINE w == MarketBin(names, features, prices, FeaturesPerSym)
<1>2. /\ IsContent(names, features, prices) /\ IsWritten(file, chunks, w)
      /\ chunks = <<<<>>>> \o w \/ whole = (w[1] \o w[2]) \o w[3]
  BY <1>1 DEF IsBegun
<1>3. /\ IsContent(names, features, prices)' /\ IsWritten(file', Tail(chunks), w)
      /\ job'["data"].chunks = Tail(chunks) /\ chunks # <<>>
  BY <1>2, ContentIsWritten
<1>4. PICK X : \E a, b, c \in Seq(X) :
        a # <<>> /\ b # <<>> /\ c # <<>> /\ HasNumbers((a \o b) \o c) /\ w = <<a, b, c>>
  BY <1>2, ContentIsText
<1>5. PICK a \in Seq(X), b \in Seq(X), c \in Seq(X) :
        a # <<>> /\ b # <<>> /\ c # <<>> /\ HasNumbers((a \o b) \o c) /\ w = <<a, b, c>>
  BY <1>4
<1>6. whole' = IF Head(chunks) = <<>>
               THEN (Tail(chunks)[1] \o Tail(chunks)[2]) \o Tail(chunks)[3] ELSE whole
  BY DEF WriteChunk
<1> HIDE DEF w, chunks
<1>7. w[1] = a /\ w[2] = b /\ w[3] = c
  BY <1>5
<1>8. whole' = (a \o b) \o c /\ Tail(chunks) \in {w, <<b, c>>, <<c>>, <<>>}
  <2>1. CASE chunks = <<<<>>>> \o w
    <3>1. Head(<<<<>>>> \o <<a, b, c>>) = <<>> /\ Tail(<<<<>>>> \o <<a, b, c>>) = <<a, b, c>>
      BY OneBefore
    <3>2. Head(chunks) = <<>> /\ Tail(chunks) = w
      BY <1>5, <2>1, <3>1
    <3> QED
      BY <1>6, <1>7, <3>2
  <2>2. CASE chunks # <<<<>>>> \o w
    <3>1. chunks \in {<<a, b, c>>, <<b, c>>, <<c>>}
      BY <1>2, <1>3, <1>5, <1>7, <2>2 DEF IsWritten
    <3>2. Head(chunks) # <<>> /\ Tail(chunks) \in {<<b, c>>, <<c>>, <<>>}
      <4>1. CASE chunks = <<a, b, c>>
        <5>1. Head(<<a, b, c>>) = a /\ Tail(<<a, b, c>>) = <<b, c>>
          OBVIOUS
        <5> QED
          BY <1>5, <4>1, <5>1
      <4>2. CASE chunks = <<b, c>>
        <5>1. Head(<<b, c>>) = b /\ Tail(<<b, c>>) = <<c>>
          OBVIOUS
        <5> QED
          BY <1>5, <4>2, <5>1
      <4>3. CASE chunks = <<c>>
        <5>1. Head(<<c>>) = c /\ Tail(<<c>>) = <<>>
          OBVIOUS
        <5> QED
          BY <1>5, <4>3, <5>1
      <4> QED
        BY <3>1, <4>1, <4>2, <4>3
    <3> QED
      BY <1>2, <1>6, <1>7, <2>2, <3>2
  <2> QED
    BY <2>1, <2>2
<1>9. Tail(chunks) # <<<<>>>> \o w
  <2> DEFINE z == <<>>
             s == <<z>> \o <<a, b, c>>
  <2>1. Head(s) = z /\ Tail(s) = <<a, b, c>> /\ s # <<>>
    BY OneBefore
  <2> HIDE DEF z
  <2>2. s # <<a, b, c>> /\ s # <<b, c>> /\ s # <<c>>
    <3> HIDE DEF s
    <3>1. Head(<<a, b, c>>) = a /\ Head(<<b, c>>) = b /\ Head(<<c>>) = c
      OBVIOUS
    <3>2. a # z /\ b # z /\ c # z
      BY <1>5 DEF z
    <3> QED
      BY <2>1, <3>1, <3>2
  <2>3. s # <<>>
    BY <2>1
  <2> QED
    BY <1>5, <1>8, <2>2, <2>3 DEF z
<1>10. file' \in {<<>>, a, a \o b, (a \o b) \o c}
  BY <1>3, <1>7, <1>9 DEF IsWritten
<1>11. IsPart(file', whole') /\ HasNumbers(whole')
  <2> DEFINE all == (a \o b) \o c
  <2>1. IsPart(<<>>, all) /\ IsPart(a, all) /\ IsPart(a \o b, all) /\ IsPart(all, all)
    BY PiecesArePart
  <2> HIDE DEF all
  <2>2. IsPart(file', all)
    BY <1>10, <2>1 DEF all
  <2> QED
    BY <1>5, <1>8, <2>2 DEF all
<1>12. IsBegun(names, features, prices)'
  BY <1>3, <1>7, <1>8 DEF IsBegun, w
<1> QED
  BY <1>11, <1>12 DEF FileFollows

\* A step of training reads what the file that was begun last has.
LEMMA TrainingReads ==
  ASSUME TrainingIsSound, FileFollows, TrainingFollows, TrainReadsFeatures \/ TrainReadsPrices
  PROVE  TrainingFollows'
<1> DEFINE y == train.read \cup {whole}
<1>1. IsPart(file, whole) /\ HasNumbers(whole)
  BY DEF FileFollows
<1>2. CASE TrainFails
  BY <1>2 DEF TrainFails, NotTrained, TrainingFollows
<1>3. CASE TrainReadsFeatures /\ ~TrainFails
  <2>1. PICK rows \in ReadFeatures(file) :
          train' = [train EXCEPT !.pc = "prices", !["features"] = rows, !.read = y]
    BY <1>3 DEF TrainReadsFeatures, TrainReads
  <2>2. train.read = {} /\ train.samples = <<>>
    BY <1>3 DEF TrainReadsFeatures, TrainReads, TrainingFollows
  <2>3. rows \in ReadFeatures(whole)
    BY <1>1, PartIsRead
  <2>4. y = {whole}
    BY <2>2
  <2> HIDE DEF y
  <2>5. train'.pc = "prices" /\ train'.features = rows /\ train'.read = y /\ train'.samples = train.samples
    BY <2>1 DEF TrainingIsSound
  <2> QED
    BY <2>2, <2>3, <2>4, <2>5 DEF TrainingFollows
<1>4. CASE TrainReadsPrices /\ ~TrainFails
  <2>1. PICK rows \in ReadPrices(file) :
          train' = [train EXCEPT !.pc = "dataset", !["prices"] = rows, !.read = y]
    BY <1>4 DEF TrainReadsPrices, TrainReads
  <2>2. train.pc = "prices" /\ train.read # {} /\ train.samples = <<>>
    BY <1>4 DEF TrainReadsPrices, TrainReads, TrainingFollows
  <2>3. rows \in ReadPrices(whole)
    BY <1>1, PartIsRead
  <2>4. \A w : y = {w} => w = whole /\ train.read = {w}
    BY <2>2
  <2> HIDE DEF y
  <2>5. /\ train'.pc = "dataset" /\ train'.features = train.features /\ train'.prices = rows
        /\ train'.read = y /\ train'.samples = train.samples
    BY <2>1 DEF TrainingIsSound
  <2>6. train'.read # {}
    BY <2>5 DEF y
  <2> QED
    BY <2>2, <2>3, <2>4, <2>5, <2>6 DEF TrainingFollows
<1> QED
  BY <1>2, <1>3, <1>4

\* build_dataset on the blocks of one file.
LEMMA SetIsBuilt ==
  ASSUME TrainingIsSound, FileFollows, TrainingFollows, BuildDataset
  PROVE  TrainingFollows'
<1> DEFINE y == train.read \cup {whole}
<1>1. CASE TrainFails
  BY <1>1 DEF TrainFails, NotTrained, TrainingFollows
<1>2. CASE ~TrainFails
  <2>1. PICK h \in ReadHeader(file) :
          train' = [train EXCEPT !.pc = "model",
                      !.samples = Samples((1..(TMax(h.nt) - Horizon)) \X (1..h.ns)), !.read = y]
    BY <1>2 DEF BuildDataset
  <2> DEFINE rows == (1..(TMax(h.nt) - Horizon)) \X (1..h.ns)
             s == Samples(rows)
  <2>2. /\ train'.pc = "model" /\ train'.features = train.features /\ train'.prices = train.prices
        /\ train'.read = y /\ train'.samples = s
    <3> HIDE DEF s, y
    <3> QED
      BY <2>1 DEF TrainingIsSound, s
  <2>3. train.pc = "dataset" /\ train.read # {}
    BY DEF BuildDataset, TrainingFollows
  <2>4. \A w : y = {w} => w = whole /\ train.read = {w}
    BY <2>3
  <2>5. ReadHeader(whole) = {h} /\ h.nt \in Nat
    <3>1. IsPart(file, whole) /\ HasNumbers(whole)
      BY DEF FileFollows
    <3>2. ReadHeader(whole) = {h}
      BY <2>1, <3>1, PartHeader
    <3> QED
      BY <3>1, <3>2 DEF HasNumbers
  <2>6. ASSUME NEW w, y = {w}
        PROVE  /\ train.features \in ReadFeatures(w) /\ train.prices \in ReadPrices(w)
               /\ IsSampled(train.features, train.prices)'
    <3>1. w = whole /\ train.features \in ReadFeatures(w) /\ train.prices \in ReadPrices(w)
      BY <2>3, <2>4, <2>6 DEF TrainingFollows
    <3>2. Len(train.prices) = h.nt
      BY <2>5, <3>1, PricesHaveRows
    <3>3. ASSUME NEW p \in DOMAIN s
          PROVE  /\ p[1] \in 1..(TMax(h.nt) - Horizon)
                 /\ s[p].x = train.features[p[1]][p[2]] /\ CloseAt(train.prices, p[1], p[2]) > 0
                 /\ s[p].y = (CloseAt(train.prices, p[1] + Horizon, p[2]) > CloseAt(train.prices, p[1], p[2]))
      <4>1. p \in rows /\ Now(p) > 0
        BY <3>3 DEF Samples
      <4>2. p[1] \in 1..(TMax(h.nt) - Horizon)
        BY <4>1
      <4>3. s[p] = [x |-> train.features[p[1]][p[2]],
                    y |-> CloseAt(train.prices, p[1] + Horizon, p[2]) > Now(p)]
        <5> HIDE DEF rows
        <5> QED
          BY <4>1 DEF Samples
      <4>4. Now(p) = CloseAt(train.prices, p[1], p[2])
        BY DEF Now
      <4> HIDE DEF s, rows
      <4> QED
        BY <4>1, <4>2, <4>3, <4>4
    <3> HIDE DEF s, rows
    <3>4. \A p \in DOMAIN s : 100 * (p[1] + Horizon) <= h.nt * SplitPct
      <4> DEFINE n == h.nt
      <4>1. n \in Nat /\ \A p \in DOMAIN s : p[1] \in 1..(TMax(n) - Horizon)
        BY <2>5, <3>3
      <4> HIDE DEF n
      <4>2. \A p \in DOMAIN s : 100 * (p[1] + Horizon) <= n * SplitPct
        BY <4>1, SplitIs
      <4> QED
        BY <4>2 DEF n
    <3> HIDE DEF y
    <3>5. \A p \in DOMAIN s : 100 * (p[1] + Horizon) <= Len(train.prices) * SplitPct
      BY <3>2, <3>4
    <3>6. IsSampled(train.features, train.prices)'
      BY <2>2, <3>3, <3>5 DEF IsSampled, CloseAt
    <3> QED
      BY <3>1, <3>6
  <2> HIDE DEF s, rows
  <2>7. train'.read # {}
    BY <2>2
  <2> HIDE DEF y
  <2> QED
    BY <2>2, <2>6, <2>7 DEF TrainingFollows
<1> QED
  BY <1>1, <1>2

\* Nothing more is read, or all is lost.
LEMMA TrainingEnds ==
  ASSUME TrainingIsSound, TrainingFollows, SaveModel \/ SaveMetadata \/ KillTrain
  PROVE  TrainingFollows'
<1>1. CASE TrainFails
  BY <1>1 DEF TrainFails, NotTrained, TrainingFollows
<1>2. CASE ~TrainFails
  <2>1. /\ train' = [train EXCEPT !.pc = "metadata"] \/ train' = [train EXCEPT !.pc = "done"]
        /\ train.pc \in {"model", "metadata"}
    BY <1>2 DEF SaveModel, SaveMetadata, KillTrain
  <2>2. /\ train'.pc \in {"metadata", "done"} /\ train'.features = train.features
        /\ train'.prices = train.prices /\ train'.samples = train.samples /\ train'.read = train.read
    BY <2>1 DEF TrainingIsSound
  <2>3. IsSampled(train.features, train.prices) => IsSampled(train.features, train.prices)'
    BY <2>2 DEF IsSampled, CloseAt
  <2> QED
    BY <2>1, <2>2, <2>3 DEF TrainingFollows
<1> QED
  BY <1>1, <1>2

LEMMA SetInit == Init => SetInv
<1> SUFFICES ASSUME Init PROVE SetInv
  OBVIOUS
<1>1. job["data"].pc = "idle"
  BY DEF Init, Jobs, Idle
<1>2. IsPart(file, whole) /\ HasNumbers(whole)
  <2>1. whole = file /\ file \in OldFiles
    BY DEF Init
  <2>2. /\ Len(file) \in Nat /\ file = [i \in 1..Len(file) |-> file[i]]
        /\ \A h \in ReadHeader(file) : h.ns \in Nat /\ h.nt \in Nat /\ h.fps \in Nat \ {0}
    BY <2>1, OldFilesAssumption
  <2> DEFINE X == {file[i] : i \in 1..Len(file)}
             n == Len(file)
  <2>3. \A i \in 1..n : file[i] \in X
    OBVIOUS
  <2>4. n \in Nat /\ file = [i \in 1..n |-> file[i]]
    BY <2>2
  <2> HIDE DEF X, n
  <2>5. file \in Seq(X)
    BY <2>3, <2>4, SequenceIs
  <2> QED
    BY <2>1, <2>2, <2>5 DEF IsPart, HasNumbers
<1>3. TrainingFollows
  BY DEF Init, NotTrained, TrainingFollows
<1> QED
  BY <1>1, <1>2, <1>3, DataInit DEF SetInv, FileFollows

LEMMA SetNext == SetInv /\ [Next]_vars => SetInv'
<1> SUFFICES ASSUME SetInv, [Next]_vars PROVE FileFollows' /\ TrainingFollows'
  BY DataNext DEF SetInv
<1>1. /\ ProgramInv /\ DataIsSound /\ MarketFileIsSound /\ TrainingIsSound
      /\ FileFollows /\ TrainingFollows
  BY DEF SetInv, DataInv, ProgramInv
<1>2. CASE \/ Tick \/ CacheStep \/ TrainReadsFeatures \/ TrainStep \/ KillTrain \/ Kill("cache")
           \/ \E plan, f : Start("cache", plan, f)
           \/ UNCHANGED vars
  <2>1. UNCHANGED <<tape, file, whole>> /\ job'["data"] = job["data"]
    BY <1>1, <1>2, OthersRest
  <2>2. FileFollows'
    BY <1>1, <2>1, FileStays DEF HasSame
  <2>3. CASE TrainReadsFeatures \/ TrainStep \/ KillTrain
    BY <1>1, <2>2, <2>3, TrainingReads, SetIsBuilt, TrainingEnds DEF TrainStep
  <2>4. CASE \/ Tick \/ CacheStep \/ Kill("cache") \/ UNCHANGED vars
             \/ \E plan, f : Start("cache", plan, f)
    <3>1. UNCHANGED train
      BY <2>4, StepsLeave DEF Tick, CacheStep, vars, Jobs
    <3> QED
      BY <1>1, <2>2, <3>1 DEF TrainingFollows, IsSampled
  <2> QED
    BY <1>2, <2>3, <2>4
<1>3. CASE DataStep \/ Kill("data") \/ \E plan \in Plans : \E f : Start("data", plan, f)
  <2>1. UNCHANGED train
    BY <1>3, StepsLeave DEF DataStep, Jobs
  <2>2. TrainingFollows'
    BY <1>1, <2>1 DEF TrainingFollows, IsSampled
  <2>3. CASE WriteChunk
    BY <1>1, <2>2, <2>3, FileGoesOn
  <2>4. CASE ~WriteChunk
    <3>1. UNCHANGED <<file, whole>>
      BY <1>3, <2>4, StepsLeave DEF DataStep, Jobs
    <3>2. CASE BuildBin \/ EndExport
      BY <1>1, <2>2, <3>1, <3>2, FileIsOpened
    <3>3. CASE ~(BuildBin \/ EndExport)
      <4>1. job'["data"].pc # "write"
        <5>1. CASE DataStep
          BY <1>1, <2>4, <3>3, <5>1, DataFetches, DataJoins, DataExports, DataEnds DEF DataStep
        <5>2. CASE Kill("data")
          BY <1>1, <5>2, DataDies DEF Kill
        <5>3. CASE \E plan \in Plans : \E f : Start("data", plan, f)
          BY <1>1, <5>3, DataStarts
        <5> QED
          BY <1>3, <5>1, <5>2, <5>3
      <4> QED
        BY <1>1, <2>2, <3>1, <4>1, FileRests
    <3> QED
      BY <3>2, <3>3
  <2> QED
    BY <2>3, <2>4
<1> QED
  BY <1>2, <1>3 DEF Next, Jobs, Plans

\* What training has read of one file, finished, cut off, replaced or still
\* being written, is what that file has when it is complete; so is what training
\* made of it.
THEOREM TrainingInvariant == Spec => []SetInv
<1>1. Init => SetInv
  BY SetInit
<1>2. SetInv /\ [Next]_vars => SetInv'
  BY SetNext
<1> QED
  BY <1>1, <1>2, PTL DEF Spec

LEMMA SoundSet == SetInv => DatasetIsSound
<1> SUFFICES ASSUME SetInv, NEW w \in train.read, train.samples # <<>>, train.read = {w}
             PROVE  \E features \in ReadFeatures(w), prices \in ReadPrices(w) :
                      IsSampled(features, prices)
  BY DEF DatasetIsSound, IsSampled
<1>1. train.pc \in {"model", "metadata", "done"}
  BY DEF SetInv, DataInv, ProgramInv, TrainingIsSound, TrainingFollows, Ended
<1> QED
  BY <1>1 DEF SetInv, TrainingFollows

\* A training set (build_dataset) whose blocks were read of one file is made of
\* all of it: each sample is a row of the arrays that the file has when it is
\* complete, labelled by that symbol's own prices, and no label looks past the
\* split, whether the file is still being written, was cut off when its program
\* was killed, or is an earlier one that is about to be replaced.
THEOREM TrainingSetsAreSound == Spec => []DatasetIsSound
BY TrainingInvariant, SoundSet, PTL

=============================================================================
