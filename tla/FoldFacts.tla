----------------------------- MODULE FoldFacts -----------------------------
(***************************************************************************)
(* Facts about the folds of the models, for the modules that prove about   *)
(* them.                                                                   *)
(*                                                                         *)
(* A fold over a list is defined on sets of its positions, from a set      *)
(* without its largest to the whole (MapThenFoldSet, from which FoldLeft   *)
(* is made).  FoldExists is that such a function exists; FoldChain follows *)
(* it along the list, one position at a time, which is how an induction    *)
(* on the list is made: UpTo.                                              *)
(*                                                                         *)
(* A sum over a finite set, for natural summands (SumFunctionOnSet), is    *)
(* the number of its units, so that how the fold computes it matters to    *)
(* one lemma only; SumChange is what a sum over all workers, threads or    *)
(* cells becomes when one of them changes.                                 *)
(***************************************************************************)
EXTENDS Functions, FiniteSetsExt, FiniteSetTheorems, WellFoundedInduction, TLAPS

-----------------------------------------------------------------------------
(* Finite sets *)

\* What a function makes of finitely many things is finite.
LEMMA FiniteImage ==
  ASSUME NEW S, IsFiniteSet(S), NEW f, f = [x \in S |-> f[x]]
  PROVE  IsFiniteSet({f[x] : x \in S})
<1> DEFINE T == {f[x] : x \in S}
<1>1. f \in Surjection(S, T)
  BY DEF Surjection
<1> QED
  BY <1>1, FS_Surjection

-----------------------------------------------------------------------------
(* Folds: a fold from the left goes from the value for the first k - 1      *)
(* elements to the value for the first k.                                   *)

\* Of the sets of numbers up to n, one of those with a property in which it is
\* the least.
LEMMA SmallestSet ==
  ASSUME NEW n \in Nat
  PROVE  \A bad \in SUBSET (SUBSET (1..n)) :
            bad # {} => \E T \in bad : \A U \in bad : U \subseteq T => U = T
<1> SUFFICES ASSUME NEW bad \in SUBSET (SUBSET (1..n)), bad # {}
             PROVE  \E T \in bad : \A U \in bad : U \subseteq T => U = T
  OBVIOUS
<1>1. IsFiniteSet(1..n)
  BY FS_Interval
<1>2. IsWellFoundedOn(StrictSubsetOrdering(1..n), SUBSET (1..n))
  BY <1>1, FS_StrictSubsetOrderingWellFounded, FS_FiniteSubsetsOfFinite
<1>3. \E T \in bad : \A U \in bad : <<U, T>> \notin StrictSubsetOrdering(1..n)
  BY <1>2, WFMin
<1> QED
  BY <1>3 DEF StrictSubsetOrdering

\* What holds of 0, and of k whenever it holds of k - 1, holds up to n.
LEMMA UpTo ==
  ASSUME NEW n \in Nat
  PROVE  \A good \in SUBSET (0..n) :
            0 \in good /\ (\A k \in 1..n : k - 1 \in good => k \in good) => good = 0..n
<1> SUFFICES ASSUME NEW good \in SUBSET (0..n),
                    0 \in good, \A k \in 1..n : k - 1 \in good => k \in good
             PROVE  good = 0..n
  OBVIOUS
<1> SUFFICES ASSUME NEW m \in 0..n, m \notin good PROVE FALSE
  OBVIOUS
<1> DEFINE bad == {1..k : k \in (0..n) \ good}
<1>1. bad \in SUBSET (SUBSET (1..n)) /\ bad # {}
  OBVIOUS
<1>2. PICK B \in bad : \A U \in bad : U \subseteq B => U = B
  <2>1. \A b \in SUBSET (SUBSET (1..n)) :
           b # {} => \E B \in b : \A U \in b : U \subseteq B => U = B
    BY SmallestSet
  <2> HIDE DEF bad
  <2> QED
    BY <1>1, <2>1
<1>3. PICK k \in (0..n) \ good : B = 1..k
  OBVIOUS
<1>4. k \in 1..n /\ k - 1 \notin good /\ k - 1 \in 0..n
  OBVIOUS
<1>5. 1..(k - 1) \subseteq 1..k /\ 1..(k - 1) # 1..k
  BY <1>4
<1> QED
  BY <1>2, <1>3, <1>4, <1>5

\* The largest and the smallest of a set of numbers are what they say.
LEMMA MaxIn ==
  ASSUME NEW n \in Nat, NEW T \in SUBSET (1..n), T # {}
  PROVE  Max(T) \in T /\ \A y \in T : Max(T) >= y
<1> SUFFICES \E x \in T : \A y \in T : x >= y
  BY DEF Max
<1> SUFFICES ASSUME \A x \in T : \E y \in T : ~(x >= y) PROVE FALSE
  OBVIOUS
<1> DEFINE good == {k \in 0..n : \A y \in T : y <= n - k}
<1>1. 0 \in good
  OBVIOUS
<1>2. ASSUME NEW k \in 1..n, k - 1 \in good
      PROVE  k \in good
  <2>1. \A y \in T : y <= n - k + 1 /\ y \in Int
    BY <1>2
  <2>2. n - k + 1 \notin T
    BY <2>1
  <2> QED
    BY <2>1, <2>2
<1>3. good = 0..n
  <2>1. \A b \in SUBSET (0..n) :
           0 \in b /\ (\A k \in 1..n : k - 1 \in b => k \in b) => b = 0..n
    BY UpTo
  <2> HIDE DEF good
  <2>2. good \in SUBSET (0..n)
    BY DEF good
  <2> QED
    BY <1>1, <1>2, <2>1, <2>2
<1>4. n \in good
  <2> HIDE DEF good
  <2> QED
    BY <1>3
<1>5. \A y \in T : y <= 0
  BY <1>4
<1>6. PICK y \in T : TRUE
  OBVIOUS
<1> QED
  BY <1>5, <1>6

LEMMA MinIn ==
  ASSUME NEW n \in Nat, NEW T \in SUBSET (1..n), T # {}
  PROVE  Min(T) \in T /\ \A y \in T : Min(T) <= y
<1> SUFFICES \E x \in T : \A y \in T : x <= y
  BY DEF Min
<1> DEFINE mirror == {n + 1 - y : y \in T}
<1>1. mirror \in SUBSET (1..n) /\ mirror # {}
  <2>1. \A y \in T : n + 1 - y \in 1..n
    OBVIOUS
  <2>2. PICK y \in T : TRUE
    OBVIOUS
  <2> QED
    BY <2>1, <2>2
<1>2. PICK x \in mirror : \A y \in mirror : x >= y
  <2>1. Max(mirror) \in mirror /\ \A y \in mirror : Max(mirror) >= y
    BY <1>1, MaxIn
  <2> QED
    BY <2>1
<1>3. n + 1 - x \in T
  BY <1>2
<1>4. \A y \in T : n + 1 - x <= y
  BY <1>2
<1> QED
  BY <1>3, <1>4

\* Without its largest number, a stretch ends one earlier.
LEMMA MaxOfFirst ==
  ASSUME NEW n \in Nat, NEW k \in 1..n
  PROVE  Max(1..k) = k /\ (1..k) \ {Max(1..k)} = 1..(k - 1)
<1>1. 1..k \in SUBSET (1..k) /\ 1..k # {} /\ k \in Nat
  OBVIOUS
<1>2. Max(1..k) \in 1..k /\ \A y \in 1..k : Max(1..k) >= y
  BY <1>1, MaxIn
<1>3. Max(1..k) = k
  BY <1>2
<1> QED
  BY <1>3

\* g gives the fold over each set of numbers up to n; h does, as long as its
\* values are in V; p gives the fold over the numbers up to each k.
IsFold(g, n, base, F) ==
    \A T \in SUBSET (1..n) :
       g[T] = IF T = {} THEN base ELSE F[<<g[T \ {Max(T)}], Max(T)>>]
IsFoldWithin(h, n, V, base, F) ==
    /\ h[{}] = base
    /\ \A T \in SUBSET (1..n) :
          T # {} /\ h[T \ {Max(T)}] \in V => h[T] = F[<<h[T \ {Max(T)}], Max(T)>>]
IsChain(p, n, base, F, end) ==
    p[0] = base /\ p[n] = end /\ \A k \in 1..n : p[k] = F[<<p[k - 1], k>>]

\* A function on sets of numbers may be defined by what it gives for a set
\* without its largest number.
LEMMA FoldExists ==
  ASSUME NEW n \in Nat, NEW V, NEW base \in V, NEW F \in [V \X (1..n) -> V]
  PROVE  \E g \in [SUBSET (1..n) -> V] : IsFold(g, n, base, F)
<1> DEFINE Right(g, S) == \A T \in SUBSET S :
                 g[T] = IF T = {} THEN base ELSE F[<<g[T \ {Max(T)}], Max(T)>>]
           bad == {S \in SUBSET (1..n) : ~ \E g \in [SUBSET S -> V] : Right(g, S)}
<1> SUFFICES bad = {}
  BY DEF IsFold
<1> SUFFICES ASSUME bad # {} PROVE FALSE
  OBVIOUS
<1>1. PICK S \in bad : \A U \in bad : U \subseteq S => U = S
  <2> HIDE DEF bad
  <2>1. bad \in SUBSET (SUBSET (1..n))
    BY DEF bad
  <2> QED
    <3>1. \A b \in SUBSET (SUBSET (1..n)) :
             b # {} => \E B \in b : \A U \in b : U \subseteq B => U = B
      BY SmallestSet
    <3> QED
      BY <2>1, <3>1
<1>2. S # {}
  <2> SUFFICES ASSUME S = {} PROVE FALSE
    OBVIOUS
  <2> DEFINE g == [T \in SUBSET S |-> base]
  <2>1. g \in [SUBSET S -> V] /\ Right(g, S)
    OBVIOUS
  <2> QED
    BY <2>1
<1> DEFINE x == Max(S)
           R == S \ {x}
<1>3. x \in S /\ x \in 1..n /\ \A y \in S : x >= y
  BY <1>2, MaxIn
<1> HIDE DEF x
<1>4. R \notin bad /\ R \in SUBSET (1..n)
  <2>1. R \subseteq S /\ R # S /\ R \in SUBSET (1..n)
    BY <1>1, <1>3
  <2> QED
    BY <1>1, <2>1
<1>5. PICK h \in [SUBSET R -> V] : Right(h, R)
  BY <1>4
<1> DEFINE g == [T \in SUBSET S |-> IF x \in T THEN F[<<h[T \ {x}], x>>] ELSE h[T]]
<1>6. g \in [SUBSET S -> V]
  OBVIOUS
<1>7. ASSUME NEW T \in SUBSET S
      PROVE  g[T] = IF T = {} THEN base ELSE F[<<g[T \ {Max(T)}], Max(T)>>]
  <2>1. CASE x \in T
    <3>1. Max(T) = x
      <4>1. T \in SUBSET (1..n) /\ T # {}
        BY <2>1
      <4> DEFINE m == Max(T)
      <4>2. m \in T /\ \A y \in T : m >= y
        BY <4>1, MaxIn
      <4> HIDE DEF m
      <4>3. m \in S /\ m \in Int /\ x \in Int
        BY <1>3, <4>1, <4>2
      <4>4. m >= x /\ x >= m
        BY <1>3, <2>1, <4>2, <4>3
      <4> QED
        BY <4>3, <4>4 DEF m
    <3>2. T \ {x} \in SUBSET S /\ g[T \ {x}] = h[T \ {x}]
      OBVIOUS
    <3> QED
      BY <2>1, <3>1, <3>2
  <2>2. CASE x \notin T
    <3>1. T \in SUBSET R /\ T \in SUBSET (1..n)
      BY <2>2
    <3>2. h[T] = IF T = {} THEN base ELSE F[<<h[T \ {Max(T)}], Max(T)>>]
      BY <1>5, <3>1
    <3>3. g[T] = h[T] /\ g[T \ {Max(T)}] = h[T \ {Max(T)}]
      BY <2>2
    <3> QED
      BY <3>2, <3>3
  <2> QED
    BY <2>1, <2>2
<1>8. Right(g, S)
  BY <1>7
<1> QED
  BY <1>6, <1>8

\* Such a function, followed from one number to the next.
LEMMA FoldChain ==
  ASSUME NEW n \in Nat, NEW V, NEW base \in V, NEW F \in [V \X (1..n) -> V],
         NEW h, IsFoldWithin(h, n, V, base, F)
  PROVE  \E p \in [0..n -> V] : IsChain(p, n, base, F, h[1..n])
<1> DEFINE p == [k \in 0..n |-> h[1..k]]
<1>1. h[1..0] = base
  <2>1. 1..0 = {}
    OBVIOUS
  <2> QED
    BY <2>1 DEF IsFoldWithin
<1>2. ASSUME NEW k \in 1..n, h[1..(k - 1)] \in V
      PROVE  h[1..k] = F[<<h[1..(k - 1)], k>>]
  <2>1. Max(1..k) = k /\ (1..k) \ {Max(1..k)} = 1..(k - 1)
    BY MaxOfFirst
  <2>2. 1..k \in SUBSET (1..n) /\ 1..k # {}
    OBVIOUS
  <2> QED
    BY <1>2, <2>1, <2>2 DEF IsFoldWithin
<1>3. \A k \in 0..n : h[1..k] \in V
  <2> DEFINE good == {k \in 0..n : h[1..k] \in V}
  <2>1. 0 \in good
    BY <1>1
  <2>2. ASSUME NEW k \in 1..n, k - 1 \in good
        PROVE  k \in good
    <3>1. h[1..(k - 1)] \in V /\ <<h[1..(k - 1)], k>> \in V \X (1..n)
      BY <2>2
    <3> QED
      BY <1>2, <3>1
  <2>3. good \in SUBSET (0..n)
    OBVIOUS
  <2>4. \A b \in SUBSET (0..n) :
           0 \in b /\ (\A k \in 1..n : k - 1 \in b => k \in b) => b = 0..n
    BY UpTo
  <2> HIDE DEF good
  <2>5. good = 0..n
    BY <2>1, <2>2, <2>3, <2>4
  <2> QED
    BY <2>5 DEF good
<1>4. ASSUME NEW k \in 1..n
      PROVE  p[k] = F[<<p[k - 1], k>>]
  <2>1. k - 1 \in 0..n /\ k \in 0..n
    OBVIOUS
  <2> QED
    BY <1>2, <1>3, <2>1
<1>5. p \in [0..n -> V] /\ p[0] = base /\ p[n] = h[1..n]
  BY <1>1, <1>3
<1> HIDE DEF p
<1> QED
  BY <1>4, <1>5 DEF IsChain

-----------------------------------------------------------------------------
(* Sums *)

\* A summand of n has n units.
Units(f, S) == {u \in S \X Nat : u[2] < f[u[1]]}

LEMMA UpToCardinality ==
  ASSUME NEW n \in Nat
  PROVE  IsFiniteSet(0..(n - 1)) /\ Cardinality(0..(n - 1)) = n
<1>1. 0 \in Int /\ n - 1 \in Int
  OBVIOUS
<1>2. /\ IsFiniteSet(0..(n - 1))
      /\ Cardinality(0..(n - 1)) = IF 0 > n - 1 THEN 0 ELSE (n - 1) - 0 + 1
  BY <1>1, FS_Interval
<1> QED
  BY <1>2

\* One summand more is so many units more.
LEMMA AddUnits ==
  ASSUME NEW T, NEW x \in T, NEW f, f[x] \in Nat, IsFiniteSet(Units(f, T \ {x}))
  PROVE  /\ IsFiniteSet(Units(f, T))
         /\ Cardinality(Units(f, T)) = f[x] + Cardinality(Units(f, T \ {x}))
<1> DEFINE rest == Units(f, T \ {x})
           own == {x} \X (0..(f[x] - 1))
<1>1. f[x] \in Nat
  OBVIOUS
<1>2. IsFiniteSet(0..(f[x] - 1)) /\ Cardinality(0..(f[x] - 1)) = f[x]
  BY <1>1, UpToCardinality
<1>3. IsFiniteSet(own) /\ Cardinality(own) = f[x]
  <2>1. IsFiniteSet({x}) /\ Cardinality({x}) = 1
    BY FS_Singleton
  <2>2. IsFiniteSet(own) /\ Cardinality(own) = Cardinality({x}) * Cardinality(0..(f[x] - 1))
    BY <1>2, <2>1, FS_Product
  <2> QED
    BY <1>1, <1>2, <2>1, <2>2
<1>4. Units(f, T) = rest \cup own
  <2>1. \A u : u \in Units(f, T) <=> u \in rest \/ u \in own
    BY <1>1 DEF Units
  <2> QED
    BY <2>1
<1>5. rest \cap own = {}
  BY DEF Units
<1>6. IsFiniteSet(rest) /\ Cardinality(rest) \in Nat
  BY FS_CardinalityType
<1> HIDE DEF rest, own
<1>7. /\ IsFiniteSet(rest \cup own)
      /\ Cardinality(rest \cup own)
            = Cardinality(rest) + Cardinality(own) - Cardinality(rest \cap own)
  BY <1>3, <1>6, FS_Union
<1>8. Cardinality(rest \cap own) = 0
  BY <1>5, FS_EmptySet
<1>9. Cardinality(rest \cup own) = f[x] + Cardinality(rest)
  BY <1>1, <1>3, <1>6, <1>7, <1>8
<1> QED
  BY <1>4, <1>7, <1>9 DEF rest

\* Finitely many summands have finitely many units.
LEMMA FinitelyManyUnits ==
  ASSUME NEW S, IsFiniteSet(S), NEW f, \A y \in S : f[y] \in Nat
  PROVE  \A T \in SUBSET S : IsFiniteSet(Units(f, T))
<1> DEFINE bad == {T \in SUBSET S : ~IsFiniteSet(Units(f, T))}
<1> SUFFICES ASSUME bad # {} PROVE FALSE
  OBVIOUS
<1>1. IsWellFoundedOn(StrictSubsetOrdering(S), SUBSET S)
  BY FS_StrictSubsetOrderingWellFounded, FS_FiniteSubsetsOfFinite
<1>2. PICK T \in bad : \A U \in bad : <<U, T>> \notin StrictSubsetOrdering(S)
  <2> HIDE DEF bad
  <2>1. bad \subseteq SUBSET S
    BY DEF bad
  <2> QED
    BY <1>1, <2>1, WFMin
<1>3. T # {}
  <2>1. Units(f, {}) = {}
    BY DEF Units
  <2> QED
    BY <2>1, FS_EmptySet
<1>4. PICK x \in T : TRUE
  BY <1>3
<1>5. T \ {x} \notin bad
  BY <1>2, <1>4 DEF StrictSubsetOrdering
<1> QED
  BY <1>4, <1>5, AddUnits

\* The fold that SumFunctionOnSet is counts the units.
LEMMA SumIsUnits ==
  ASSUME NEW S, IsFiniteSet(S), NEW f, \A y \in S : f[y] \in Nat
  PROVE  SumFunctionOnSet(f, S) = Cardinality(Units(f, S))
<1> DEFINE Pick(T) == CHOOSE x \in T : TRUE
           Step(g) == [T \in SUBSET S |->
                         IF T = {} THEN 0 ELSE f[Pick(T)] + g[T \ {Pick(T)}]]
           iter == CHOOSE g : g = Step(g)
           count == [T \in SUBSET S |-> Cardinality(Units(f, T))]
<1>1. SumFunctionOnSet(f, S) = iter[S]
  BY DEF SumFunctionOnSet, FoldFunctionOnSet, MapThenFoldSet
<1>2. count = Step(count)
  <2>1. ASSUME NEW T \in SUBSET S
        PROVE  count[T] = IF T = {} THEN 0 ELSE f[Pick(T)] + count[T \ {Pick(T)}]
    <3>1. Units(f, {}) = {}
      BY DEF Units
    <3>2. CASE T = {}
      BY <3>1, <3>2, FS_EmptySet
    <3>3. CASE T # {}
      <4>1. Pick(T) \in T
        BY <3>3
      <4> HIDE DEF Pick
      <4>2. T \ {Pick(T)} \in SUBSET S /\ IsFiniteSet(Units(f, T \ {Pick(T)}))
        BY FinitelyManyUnits
      <4>3. Cardinality(Units(f, T)) = f[Pick(T)] + Cardinality(Units(f, T \ {Pick(T)}))
        BY <4>1, <4>2, AddUnits
      <4> QED
        BY <3>3, <4>2, <4>3
    <3> QED
      BY <3>2, <3>3
  <2> QED
    BY <2>1
<1>3. iter = Step(iter)
  BY <1>2
<1>4. iter = count
  <2> DEFINE bad == {T \in SUBSET S : iter[T] # count[T]}
  <2>1. bad = {}
    <3> SUFFICES ASSUME bad # {} PROVE FALSE
      OBVIOUS
    <3>1. IsWellFoundedOn(StrictSubsetOrdering(S), SUBSET S)
      BY FS_StrictSubsetOrderingWellFounded, FS_FiniteSubsetsOfFinite
    <3>2. PICK T \in bad : \A U \in bad : <<U, T>> \notin StrictSubsetOrdering(S)
      <4> HIDE DEF bad
      <4>1. bad \subseteq SUBSET S
        BY DEF bad
      <4> QED
        BY <3>1, <4>1, WFMin
    <3>3. T \in SUBSET S /\ iter[T] # count[T]
      BY <3>2
    <3>4. /\ iter[T] = IF T = {} THEN 0 ELSE f[Pick(T)] + iter[T \ {Pick(T)}]
          /\ count[T] = IF T = {} THEN 0 ELSE f[Pick(T)] + count[T \ {Pick(T)}]
      <4> HIDE DEF iter, count, Pick, bad
      <4> QED
        BY <1>2, <1>3, <3>3
    <3>5. T # {} => Pick(T) \in T
      OBVIOUS
    <3> HIDE DEF Pick, iter, count
    <3>6. T # {} => T \ {Pick(T)} \in SUBSET S /\ T \ {Pick(T)} \notin bad
      BY <3>2, <3>3, <3>5, ZenonT(40) DEF StrictSubsetOrdering
    <3> QED
      BY <3>3, <3>4, <3>6
  <2> QED
    BY <1>2, <1>3, <2>1
<1> QED
  BY <1>1, <1>4

-----------------------------------------------------------------------------
(* What proofs about sums need *)

LEMMA SumType ==
  ASSUME NEW S, IsFiniteSet(S), NEW f, \A y \in S : f[y] \in Nat
  PROVE  SumFunctionOnSet(f, S) \in Nat
  BY SumIsUnits, FinitelyManyUnits, FS_CardinalityType

\* One summand may be taken out of the sum.
LEMMA SumSplit ==
  ASSUME NEW S, IsFiniteSet(S), NEW f, \A y \in S : f[y] \in Nat, NEW x \in S
  PROVE  SumFunctionOnSet(f, S) = f[x] + SumFunctionOnSet(f, S \ {x})
<1>1. IsFiniteSet(S \ {x}) /\ S \ {x} \in SUBSET S
  BY FS_Subset
<1>2. Cardinality(Units(f, S)) = f[x] + Cardinality(Units(f, S \ {x}))
  <2>1. IsFiniteSet(Units(f, S \ {x})) /\ S \in SUBSET S
    BY <1>1, FinitelyManyUnits
  <2> QED
    BY <2>1, AddUnits
<1> QED
  BY <1>1, <1>2, SumIsUnits

\* Only the summands matter.
LEMMA SumSame ==
  ASSUME NEW S, IsFiniteSet(S), NEW f, NEW g, \A y \in S : f[y] \in Nat /\ f[y] = g[y]
  PROVE  SumFunctionOnSet(f, S) = SumFunctionOnSet(g, S)
<1>1. Units(f, S) = Units(g, S)
  BY DEF Units
<1> QED
  BY <1>1, SumIsUnits

\* The sum changes as the one summand does that changes.
LEMMA SumChange ==
  ASSUME NEW S, IsFiniteSet(S), NEW x \in S,
         NEW f, NEW g, \A y \in S : f[y] \in Nat /\ g[y] \in Nat,
         \A y \in S : y # x => f[y] = g[y]
  PROVE  SumFunctionOnSet(g, S) + f[x] = SumFunctionOnSet(f, S) + g[x]
<1>1. IsFiniteSet(S \ {x})
  BY FS_Subset
<1>2. /\ SumFunctionOnSet(f, S) = f[x] + SumFunctionOnSet(f, S \ {x})
      /\ SumFunctionOnSet(g, S) = g[x] + SumFunctionOnSet(g, S \ {x})
  BY SumSplit
<1>3. SumFunctionOnSet(f, S \ {x}) = SumFunctionOnSet(g, S \ {x})
  BY <1>1, SumSame
<1>4. SumFunctionOnSet(f, S \ {x}) \in Nat
  BY <1>1, SumType
<1> QED
  BY <1>2, <1>3, <1>4

\* Nothing adds up to nothing.
LEMMA SumZero ==
  ASSUME NEW S, IsFiniteSet(S), NEW f, \A y \in S : f[y] = 0
  PROVE  SumFunctionOnSet(f, S) = 0
<1>1. Units(f, S) = {}
  BY DEF Units
<1>2. \A y \in S : f[y] \in Nat
  OBVIOUS
<1> QED
  BY <1>1, <1>2, SumIsUnits, FS_EmptySet

\* Summands that are k at most, and 0 outside T, add up to k for each of T.
LEMMA SumBound ==
  ASSUME NEW S, IsFiniteSet(S), NEW T \in SUBSET S, NEW k \in Nat,
         NEW f, \A y \in S : f[y] \in 0..k, \A y \in S \ T : f[y] = 0
  PROVE  SumFunctionOnSet(f, S) <= Cardinality(T) * k
<1>1. \A y \in S : f[y] \in Nat
  OBVIOUS
<1>2. IsFiniteSet(T) /\ IsFiniteSet(0..(k - 1)) /\ Cardinality(0..(k - 1)) = k
  BY FS_Subset, UpToCardinality
<1>3. /\ IsFiniteSet(T \X (0..(k - 1)))
      /\ Cardinality(T \X (0..(k - 1))) = Cardinality(T) * k
  BY <1>2, FS_Product
<1>4. Units(f, S) \subseteq T \X (0..(k - 1))
  BY DEF Units
<1>5. Cardinality(Units(f, S)) <= Cardinality(T) * k
  BY <1>3, <1>4, FS_Subset
<1> QED
  BY <1>1, <1>5, SumIsUnits

\* A sum over fewer is no larger.
LEMMA SumOverFewer ==
  ASSUME NEW S, IsFiniteSet(S), NEW f, \A y \in S : f[y] \in Nat, NEW T \in SUBSET S
  PROVE  SumFunctionOnSet(f, T) <= SumFunctionOnSet(f, S)
<1>1. Units(f, T) \subseteq Units(f, S)
  BY DEF Units
<1>2. Cardinality(Units(f, T)) <= Cardinality(Units(f, S))
  BY <1>1, FinitelyManyUnits, FS_Subset
<1>3. IsFiniteSet(T) /\ \A y \in T : f[y] \in Nat
  BY FS_Subset
<1> QED
  BY <1>2, <1>3, SumIsUnits
=============================================================================
