--------------------------- MODULE PlanningProofs ---------------------------
(***************************************************************************)
(* The planning cycle, from the rules of a policy and the passes of the    *)
(* allocator to what the days keep, for any book, budgets and prices.      *)
(*                                                                         *)
(* The allocator's passes are recursions over finite sets.  A set of       *)
(* subsets of D that lacks one only if it lacks a smaller one has them all *)
(* (Peel, Grow), and a recursion that takes an element away has a          *)
(* solution (Iterates); so every pass keeps a choice feasible, whatever    *)
(* the prices, and the prices bound what any feasible choice earns.  A     *)
(* cycle's offers are then followed from Generate to the knapsack and back *)
(* to the case: what is done is no more than what was funded.              *)
(***************************************************************************)
EXTENDS Planning, Admission, FiniteSetTheorems, FunctionTheorems, SequenceTheorems,
        WellFoundedInduction, TLAPS

-----------------------------------------------------------------------------
(* Induction, and recursion over finite sets *)

\* A set that lacks a finite set only if it lacks one of an element less has every
\* finite set.
LEMMA Peel ==
  ASSUME NEW D, IsFiniteSet(D), NEW G,
         \A T \in SUBSET D : T \notin G => \E x \in T : T \ {x} \notin G
  PROVE  SUBSET D \subseteq G
<1> SUFFICES ASSUME (SUBSET D) \ G # {} PROVE FALSE
  OBVIOUS
<1> DEFINE B == (SUBSET D) \ G
<1>1. IsWellFoundedOn(StrictSubsetOrdering(D), SUBSET D)
  BY FS_StrictSubsetOrderingWellFounded, FS_FiniteSubsetsOfFinite
<1>2. PICK T \in B : \A U \in B : ~(<<U, T>> \in StrictSubsetOrdering(D))
  <2> HIDE DEF B
  <2>1. B \subseteq SUBSET D /\ B # {}
    BY DEF B
  <2> QED BY <1>1, <2>1, WFMin
<1>3. PICK x \in T : T \ {x} \in SUBSET D /\ T \ {x} \notin G
  OBVIOUS
<1>4. <<T \ {x}, T>> \in StrictSubsetOrdering(D)
  BY <1>3 DEF StrictSubsetOrdering
<1> QED BY <1>2, <1>3, <1>4

\* And so has a set that has the empty set, and with a set every set of one
\* element more.
LEMMA Grow ==
  ASSUME NEW D, IsFiniteSet(D), NEW G, {} \in G,
         \A T \in SUBSET D : \A x \in D \ T : T \in G => T \cup {x} \in G
  PROVE  SUBSET D \subseteq G
<1>1. ASSUME NEW T \in SUBSET D, T \notin G
      PROVE  \E x \in T : T \ {x} \notin G
  <2>1. PICK x \in T : TRUE
    BY <1>1
  <2>2. (T \ {x}) \cup {x} = T /\ x \in D \ (T \ {x}) /\ T \ {x} \in SUBSET D
    OBVIOUS
  <2> QED BY <1>1, <2>2
<1> QED BY <1>1, Peel

\* A set of numbers that has 0, and with a number the next, has them all.
LEMMA Count ==
  ASSUME NEW G, 0 \in G, \A n \in Nat : n \in G => n + 1 \in G, NEW m \in Nat
  PROVE  m \in G
<1> DEFINE D == 1 .. m
           H == {S \in SUBSET D : Cardinality(S) \in G}
<1>1. IsFiniteSet(D) /\ Cardinality(D) = m
  BY FS_Interval
<1>2. {} \in H
  BY FS_EmptySet
<1>3. ASSUME NEW T \in SUBSET D, NEW x \in D \ T, T \in H
      PROVE  T \cup {x} \in H
  <2>1. IsFiniteSet(T) /\ Cardinality(T) \in Nat
    BY <1>1, FS_Subset, FS_CardinalityType
  <2>2. Cardinality(T \cup {x}) = Cardinality(T) + 1
    BY <2>1, FS_AddElement
  <2> QED BY <1>3, <2>1, <2>2
<1>4. SUBSET D \subseteq H
  <2> HIDE DEF D, H
  <2> QED BY <1>1, <1>2, <1>3, Grow
<1> QED BY <1>1, <1>4

\* A finite set of numbers has a greatest and a least.
LEMMA Bounds ==
  ASSUME NEW S \in SUBSET Int, IsFiniteSet(S), S # {}
  PROVE  /\ Max(S) \in S /\ \A x \in S : x <= Max(S)
         /\ Min(S) \in S /\ \A x \in S : Min(S) <= x
<1> DEFINE G == {T \in SUBSET S : T = {} \/ ((\E m \in T : \A x \in T : x <= m)
                                             /\ (\E m \in T : \A x \in T : m <= x))}
<1>1. {} \in G
  OBVIOUS
<1>2. ASSUME NEW T \in SUBSET S, NEW x \in S \ T, T \in G
      PROVE  T \cup {x} \in G
  <2>1. CASE T = {}
    BY <2>1
  <2>2. CASE T # {}
    <3>1. PICK m \in T : \A y \in T : y <= m
      BY <1>2, <2>2
    <3>2. PICK l \in T : \A y \in T : l <= y
      BY <1>2, <2>2
    <3>3. \E k \in T \cup {x} : \A y \in T \cup {x} : y <= k
      <4>1. CASE x <= m BY <4>1, <3>1
      <4>2. CASE m <= x BY <4>2, <3>1
      <4> QED BY <4>1, <4>2
    <3>4. \E k \in T \cup {x} : \A y \in T \cup {x} : k <= y
      <4>1. CASE l <= x BY <4>1, <3>2
      <4>2. CASE x <= l BY <4>2, <3>2
      <4> QED BY <4>1, <4>2
    <3> QED BY <3>3, <3>4
  <2> QED BY <2>1, <2>2
<1>3. S \in G
  <2> HIDE DEF G
  <2> QED BY <1>1, <1>2, Grow
<1>4. PICK m \in S : \A x \in S : x <= m
  BY <1>3
<1>5. PICK l \in S : \A x \in S : l <= x
  BY <1>3
<1>6. /\ \E y \in S : \A x \in S : y >= x
      /\ \E y \in S : \A x \in S : y =< x
  BY <1>4, <1>5
<1>7. Max(S) \in S /\ \A x \in S : Max(S) >= x
  BY <1>6 DEF Max
<1>8. Min(S) \in S /\ \A x \in S : Min(S) =< x
  BY <1>6 DEF Min
<1> QED BY <1>7, <1>8

\* A recursion over the subsets of D with values in V: from s it goes on without
\* pick[s], until it stops.
Recursion(D, V, Stop, base, step, pick) ==
  /\ IsFiniteSet(D) /\ {} \in Stop
  /\ base \in [SUBSET D -> V] /\ step \in [(SUBSET D) \X V -> V]
  /\ \A s \in SUBSET D : s \notin Stop => pick[s] \in s

Unrolls(it, D, V, Stop, base, step, pick) ==
  /\ it \in [SUBSET D -> V]
  /\ \A s \in SUBSET D :
       it[s] = IF s \in Stop THEN base[s] ELSE step[<<s, it[s \ {pick[s]}]>>]

\* Such a recursion defines a function, as the folds of the allocator do.
LEMMA Iterates ==
  ASSUME NEW D, NEW V, NEW Stop, NEW base, NEW step, NEW pick,
         Recursion(D, V, Stop, base, step, pick)
  PROVE  \E it : Unrolls(it, D, V, Stop, base, step, pick)
<1> USE DEF Recursion
<1> DEFINE Right(it, s) == it[s] = IF s \in Stop THEN base[s]
                                   ELSE step[<<s, it[s \ {pick[s]}]>>]
           G == {n \in Nat : \E it \in [SUBSET D -> V] :
                   \A s \in SUBSET D : Cardinality(s) <= n => Right(it, s)}
<1>1. ASSUME NEW s \in SUBSET D
      PROVE  /\ IsFiniteSet(s) /\ Cardinality(s) \in Nat
             /\ Cardinality(s) <= Cardinality(D)
             /\ Cardinality(s) = 0 => s = {}
             /\ \A x \in s : Cardinality(s \ {x}) = Cardinality(s) - 1
  BY FS_Subset, FS_CardinalityType, FS_EmptySet, FS_RemoveElement
<1>2. 0 \in G
  <2>1. base \in [SUBSET D -> V] /\ \A s \in SUBSET D : Cardinality(s) <= 0 => Right(base, s)
    BY <1>1
  <2> QED BY <2>1
<1>3. ASSUME NEW n \in Nat, n \in G
      PROVE  n + 1 \in G
  <2>1. PICK it \in [SUBSET D -> V] :
          \A s \in SUBSET D : Cardinality(s) <= n => Right(it, s)
    BY <1>3
  <2> DEFINE next == [s \in SUBSET D |-> IF s \in Stop THEN base[s]
                                         ELSE step[<<s, it[s \ {pick[s]}]>>]]
  <2>2. next \in [SUBSET D -> V]
    <3>1. ASSUME NEW s \in SUBSET D, s \notin Stop
          PROVE  step[<<s, it[s \ {pick[s]}]>>] \in V
      <4>1. it[s \ {pick[s]}] \in V
        OBVIOUS
      <4> QED BY <4>1
    <3> QED BY <3>1
  <2>3. ASSUME NEW s \in SUBSET D, Cardinality(s) <= n
        PROVE  next[s] = it[s]
    BY <2>1, <2>3
  <2>4. ASSUME NEW s \in SUBSET D, Cardinality(s) <= n + 1
        PROVE  Right(next, s)
    <3>1. CASE s \in Stop
      BY <3>1
    <3>2. CASE s \notin Stop
      <4>1. pick[s] \in s /\ s \ {pick[s]} \in SUBSET D
        BY <3>2
      <4>2. Cardinality(s \ {pick[s]}) <= n
        BY <1>1, <2>4, <4>1
      <4>3. next[s \ {pick[s]}] = it[s \ {pick[s]}]
        BY <2>3, <4>1, <4>2
      <4>4. next[s] = step[<<s, it[s \ {pick[s]}]>>]
        BY <3>2
      <4> HIDE DEF next
      <4> QED BY <3>2, <4>3, <4>4
    <3> HIDE DEF next, Right
    <3> QED BY <3>1, <3>2
  <2>5. \A s \in SUBSET D : Cardinality(s) <= n + 1 => Right(next, s)
    <3> HIDE DEF next, Right
    <3> QED BY <2>4
  <2>6. \E h \in [SUBSET D -> V] :
          \A s \in SUBSET D : Cardinality(s) <= n + 1 => Right(h, s)
    <3> HIDE DEF next, Right
    <3> QED BY <2>2, <2>5
  <2>7. n + 1 \in Nat
    OBVIOUS
  <2> HIDE DEF next, Right
  <2> QED BY <2>6, <2>7
<1>4. Cardinality(D) \in Nat
  BY FS_CardinalityType
<1>5. Cardinality(D) \in G
  <2> HIDE DEF G
  <2> QED BY <1>2, <1>3, <1>4, Count
<1>6. PICK it \in [SUBSET D -> V] :
        \A s \in SUBSET D : Cardinality(s) <= Cardinality(D) => Right(it, s)
  BY <1>5
<1>7. \A s \in SUBSET D : Right(it, s)
  BY <1>1, <1>6
<1> QED BY <1>7 DEF Unrolls

-----------------------------------------------------------------------------
(* Sums *)

\* tot gives every subset of D the sum of f over it.
SumsOf(tot, f, D) ==
  /\ tot \in [SUBSET D -> Int] /\ tot[{}] = 0
  /\ \A s \in SUBSET D : \A x \in s : tot[s] = f[x] + tot[s \ {x}]

\* Whatever the order the elements are taken in.
LEMMA SumsExist ==
  ASSUME NEW D, IsFiniteSet(D), NEW f, \A x \in D : f[x] \in Int
  PROVE  \E tot : SumsOf(tot, f, D)
<1> DEFINE G == {T \in SUBSET D : \E tot : SumsOf(tot, f, T)}
<1>1. {} \in G
  <2>1. SumsOf([s \in SUBSET {} |-> 0], f, {})
    BY DEF SumsOf
  <2> QED BY <2>1
<1>2. ASSUME NEW T \in SUBSET D, NEW x \in D \ T, T \in G
      PROVE  T \cup {x} \in G
  <2>1. PICK tot : SumsOf(tot, f, T)
    BY <1>2
  <2> DEFINE U == T \cup {x}
             more == [s \in SUBSET U |-> IF x \in s THEN f[x] + tot[s \ {x}] ELSE tot[s]]
  <2>2. ASSUME NEW s \in SUBSET U
        PROVE  s \ {x} \in SUBSET T /\ (x \notin s => s \in SUBSET T /\ s \ {x} = s)
    OBVIOUS
  <2>3. \A s \in SUBSET T : tot[s] \in Int
    BY <2>1 DEF SumsOf
  <2>4. more \in [SUBSET U -> Int]
    <3>1. ASSUME NEW s \in SUBSET U
          PROVE  (IF x \in s THEN f[x] + tot[s \ {x}] ELSE tot[s]) \in Int
      BY <2>2, <2>3
    <3> QED BY <3>1
  <2>5. more[{}] = 0
    BY <2>1 DEF SumsOf
  <2>6. ASSUME NEW s \in SUBSET U, NEW y \in s
        PROVE  more[s] = f[y] + more[s \ {y}]
    <3>1. CASE y = x
      <4>1. more[s] = f[x] + tot[s \ {x}]
        BY <3>1
      <4>2. more[s \ {x}] = tot[s \ {x}]
        OBVIOUS
      <4> QED BY <3>1, <4>1, <4>2
    <3>2. CASE y # x /\ x \in s
      <4>1. more[s] = f[x] + tot[s \ {x}] /\ more[s \ {y}] = f[x] + tot[(s \ {y}) \ {x}]
        BY <3>2
      <4>2. y \in s \ {x} /\ s \ {x} \in SUBSET T
        BY <3>2
      <4>3. tot[s \ {x}] = f[y] + tot[(s \ {x}) \ {y}]
        BY <2>1, <4>2 DEF SumsOf
      <4>4. (s \ {x}) \ {y} = (s \ {y}) \ {x} /\ (s \ {x}) \ {y} \in SUBSET T
        OBVIOUS
      <4>5. f[x] \in Int /\ f[y] \in Int /\ tot[(s \ {x}) \ {y}] \in Int
        BY <2>3, <4>4
      <4> HIDE DEF more
      <4>6. more[s] = f[x] + (f[y] + tot[(s \ {x}) \ {y}])
        BY <4>1, <4>3
      <4>7. more[s \ {y}] = f[x] + tot[(s \ {x}) \ {y}]
        BY <4>1, <4>4
      <4>8. \A a, b, c \in Int : a + (b + c) = b + (a + c)
        OBVIOUS
      <4> QED BY <4>5, <4>6, <4>7, <4>8
    <3>3. CASE x \notin s
      <4>1. more[s] = tot[s] /\ more[s \ {y}] = tot[s \ {y}] /\ s \in SUBSET T
        BY <3>3
      <4> QED BY <2>1, <4>1 DEF SumsOf
    <3> QED BY <3>1, <3>2, <3>3
  <2>7. SumsOf(more, f, U)
    <3> HIDE DEF more
    <3> QED BY <2>4, <2>5, <2>6 DEF SumsOf
  <2> QED BY <2>7
<1>3. SUBSET D \subseteq G
  <2> HIDE DEF G
  <2> QED BY <1>1, <1>2, Grow
<1> QED BY <1>3

\* The library's sum is that sum.
LEMMA SumIs ==
  ASSUME NEW f, NEW D, IsFiniteSet(D), \A i \in D : f[i] \in Int,
         NEW tot, SumsOf(tot, f, D), NEW S \in SUBSET D
  PROVE  SumFunctionOnSet(f, S) = tot[S]
<1> DEFINE Sum(it, s) == IF s = {} THEN 0
                         ELSE f[CHOOSE x \in s : TRUE] + it[s \ {CHOOSE x \in s : TRUE}]
           iter == CHOOSE it : it = [s \in SUBSET S |-> Sum(it, s)]
           own == [s \in SUBSET S |-> tot[s]]
<1>1. ASSUME NEW s \in SUBSET S, s # {}
      PROVE  /\ (CHOOSE x \in s : TRUE) \in s
             /\ \A x \in s : tot[s] = f[x] + tot[s \ {x}]
  BY <1>1 DEF SumsOf
<1>2. own = [s \in SUBSET S |-> Sum(own, s)]
  <2>1. ASSUME NEW s \in SUBSET S
        PROVE  own[s] = Sum(own, s)
    <3>1. CASE s = {}
      BY <3>1 DEF SumsOf
    <3>2. CASE s # {}
      <4>1. PICK x \in s : x = (CHOOSE y \in s : TRUE)
        BY <1>1, <3>2
      <4>2. own[s] = f[x] + own[s \ {x}]
        BY <1>1, <3>2
      <4> QED BY <3>2, <4>1, <4>2
    <3> QED BY <3>1, <3>2
  <2> QED BY <2>1
<1>3. iter = [s \in SUBSET S |-> Sum(iter, s)]
  <2> HIDE DEF own, Sum
  <2> QED BY <1>2
<1>4. SumFunctionOnSet(f, S) = iter[S]
  BY DEF SumFunctionOnSet, FoldFunctionOnSet, MapThenFoldSet
<1> HIDE DEF iter
<1> DEFINE G == {s \in SUBSET S : iter[s] = tot[s]}
<1>5. ASSUME NEW s \in SUBSET S, s \notin G
      PROVE  \E x \in s : s \ {x} \notin G
  <2>1. s # {}
    BY <1>3, <1>5 DEF SumsOf
  <2>2. PICK x \in s : x = (CHOOSE y \in s : TRUE)
    BY <2>1
  <2>3. iter[s] = f[x] + iter[s \ {x}]
    BY <1>3, <2>1, <2>2
  <2>4. tot[s] = f[x] + tot[s \ {x}]
    BY <1>1, <2>1
  <2> QED BY <1>5, <2>2, <2>3, <2>4
<1>6. SUBSET S \subseteq G
  <2>1. IsFiniteSet(S)
    BY FS_Subset
  <2> HIDE DEF G
  <2> QED BY <1>5, <2>1, Peel
<1> QED BY <1>4, <1>6

\* So it may be taken an element at a time.
LEMMA Sums ==
  ASSUME NEW f, NEW D, IsFiniteSet(D), \A i \in D : f[i] \in Int
  PROVE  /\ SumFunctionOnSet(f, {}) = 0
         /\ \A S \in SUBSET D :
              /\ SumFunctionOnSet(f, S) \in Int
              /\ \A i \in S : SumFunctionOnSet(f, S) = f[i] + SumFunctionOnSet(f, S \ {i})
<1>1. PICK tot : SumsOf(tot, f, D)
  BY SumsExist
<1>2. \A S \in SUBSET D : SumFunctionOnSet(f, S) = tot[S]
  BY <1>1, SumIs
<1>3. /\ tot[{}] = 0 /\ \A S \in SUBSET D : tot[S] \in Int
      /\ \A S \in SUBSET D : \A i \in S : tot[S] = f[i] + tot[S \ {i}]
  BY <1>1 DEF SumsOf
<1>4. ASSUME NEW S \in SUBSET D, NEW i \in S
      PROVE  SumFunctionOnSet(f, S) = f[i] + SumFunctionOnSet(f, S \ {i})
  <2>1. S \ {i} \in SUBSET D
    OBVIOUS
  <2> QED BY <1>2, <1>3, <2>1
<1> QED BY <1>2, <1>3, <1>4

\* A sum grows by what joins it.
LEMMA SumWith ==
  ASSUME NEW f, NEW D, IsFiniteSet(D), \A i \in D : f[i] \in Int,
         NEW S \in SUBSET D, NEW i \in D \ S
  PROVE  SumFunctionOnSet(f, S \cup {i}) = f[i] + SumFunctionOnSet(f, S)
<1>1. S \cup {i} \in SUBSET D /\ (S \cup {i}) \ {i} = S /\ i \in S \cup {i}
  OBVIOUS
<1> QED BY <1>1, Sums

-----------------------------------------------------------------------------
(* What a choice uses *)

\* Candidates the knapsack can be asked about.
IsPool(pool) ==
  /\ IsFiniteSet(DOMAIN pool) /\ DOMAIN pool \subseteq Int
  /\ \A i \in DOMAIN pool : IsCandidate(pool[i])

Fields == {"margin", "contacts", "discount"}
Scarce == {"contacts", "discount"}

\* A total is a number, and each candidate adds its own to it.
LEMMA Totals ==
  ASSUME NEW pool, IsPool(pool), NEW field \in Fields
  PROVE  /\ Total(pool, {}, field) = 0
         /\ \A S \in SUBSET DOMAIN pool :
              /\ Total(pool, S, field) \in Int
              /\ \A i \in S : Total(pool, S, field) = pool[i][field] + Total(pool, S \ {i}, field)
<1> DEFINE D == DOMAIN pool
           f == [i \in D |-> pool[i][field]]
<1>1. IsFiniteSet(D) /\ \A i \in D : f[i] \in Int /\ f[i] = pool[i][field]
  BY DEF IsPool, Fields, IsCandidate
<1>2. ASSUME NEW S PROVE Total(pool, S, field) = SumFunctionOnSet(f, S)
  BY DEF Total
<1> HIDE DEF D, f
<1>3. /\ SumFunctionOnSet(f, {}) = 0
      /\ \A S \in SUBSET D :
           /\ SumFunctionOnSet(f, S) \in Int
           /\ \A i \in S : SumFunctionOnSet(f, S) = f[i] + SumFunctionOnSet(f, S \ {i})
  BY <1>1, Sums
<1> QED BY <1>1, <1>2, <1>3 DEF D

\* A total grows by what joins the choice.
LEMMA TotalWith ==
  ASSUME NEW pool, IsPool(pool), NEW field \in Fields,
         NEW S \in SUBSET DOMAIN pool, NEW i \in DOMAIN pool \ S
  PROVE  Total(pool, S \cup {i}, field) = pool[i][field] + Total(pool, S, field)
<1>1. S \cup {i} \in SUBSET DOMAIN pool /\ (S \cup {i}) \ {i} = S /\ i \in S \cup {i}
  OBVIOUS
<1> QED BY <1>1, Totals

\* More candidates use no less of a scarce resource.
LEMMA TotalGrows ==
  ASSUME NEW pool, IsPool(pool), NEW field \in Scarce,
         NEW T \in SUBSET DOMAIN pool, NEW S \in SUBSET T
  PROVE  0 <= Total(pool, S, field) /\ Total(pool, S, field) <= Total(pool, T, field)
<1>1. field \in Fields /\ \A i \in DOMAIN pool : pool[i][field] \in Nat
  BY DEF Fields, Scarce, IsPool, IsCandidate
<1> DEFINE G == {U \in SUBSET (DOMAIN pool) :
                   \A R \in SUBSET U : /\ 0 <= Total(pool, R, field)
                                       /\ Total(pool, R, field) <= Total(pool, U, field)}
<1>2. {} \in G
  <2>1. Total(pool, {}, field) = 0
    BY <1>1, Totals
  <2> QED BY <2>1
<1>3. ASSUME NEW U \in SUBSET DOMAIN pool, NEW x \in DOMAIN pool \ U, U \in G
      PROVE  U \cup {x} \in G
  <2>1. Total(pool, U \cup {x}, field) = pool[x][field] + Total(pool, U, field)
    BY <1>1, TotalWith
  <2>2. ASSUME NEW R \in SUBSET (U \cup {x})
        PROVE  0 <= Total(pool, R, field) /\ Total(pool, R, field) <= Total(pool, U \cup {x}, field)
    <3>1. Total(pool, U, field) \in Int /\ pool[x][field] \in Nat
      BY <1>1, Totals
    <3>2. CASE x \notin R
      <4>1. /\ R \in SUBSET U /\ 0 <= Total(pool, R, field)
            /\ Total(pool, R, field) <= Total(pool, U, field)
        BY <1>3, <3>2
      <4>2. Total(pool, R, field) \in Int
        BY <1>1, Totals
      <4> QED BY <2>1, <3>1, <4>1, <4>2
    <3>3. CASE x \in R
      <4>1. /\ 0 <= Total(pool, R \ {x}, field)
            /\ Total(pool, R \ {x}, field) <= Total(pool, U, field)
        BY <1>3
      <4>2. R \ {x} \in SUBSET DOMAIN pool /\ R \in SUBSET DOMAIN pool
        OBVIOUS
      <4>3. /\ Total(pool, R \ {x}, field) \in Int
            /\ Total(pool, R, field) = pool[x][field] + Total(pool, R \ {x}, field)
        BY <1>1, <3>3, <4>2, Totals
      <4> QED BY <2>1, <3>1, <4>1, <4>3
    <3> QED BY <3>2, <3>3
  <2> QED BY <2>2
<1>4. SUBSET DOMAIN pool \subseteq G
  <2>1. IsFiniteSet(DOMAIN pool)
    BY DEF IsPool
  <2> HIDE DEF G
  <2> QED BY <1>2, <1>3, <2>1, Grow
<1>5. T \in G
  <2> HIDE DEF G
  <2> QED BY <1>4
<1> QED BY <1>5

\* Candidates that use nothing may join freely.
LEMMA TotalFree ==
  ASSUME NEW pool, IsPool(pool), NEW field \in Scarce,
         NEW S \in SUBSET DOMAIN pool, NEW F \in SUBSET DOMAIN pool,
         \A i \in F : pool[i][field] = 0
  PROVE  Total(pool, S \cup F, field) = Total(pool, S, field)
<1>1. field \in Fields
  BY DEF Fields, Scarce
<1>0. IsFiniteSet(F)
  BY FS_Subset DEF IsPool
<1> DEFINE G == {E \in SUBSET F : Total(pool, S \cup E, field) = Total(pool, S, field)}
<1>2. {} \in G
  <2>1. S \cup {} = S
    OBVIOUS
  <2> QED BY <2>1
<1>3. ASSUME NEW E \in SUBSET F, NEW x \in F \ E, E \in G
      PROVE  E \cup {x} \in G
  <2>1. CASE x \in S
    <3>1. S \cup (E \cup {x}) = S \cup E
      BY <2>1
    <3> QED BY <1>3, <3>1
  <2>2. CASE x \notin S
    <3>1. S \cup (E \cup {x}) = (S \cup E) \cup {x} /\ S \cup E \in SUBSET DOMAIN pool
      OBVIOUS
    <3>2. x \in DOMAIN pool \ (S \cup E)
      BY <2>2
    <3>3. Total(pool, (S \cup E) \cup {x}, field) = pool[x][field] + Total(pool, S \cup E, field)
      BY <1>1, <3>1, <3>2, TotalWith
    <3>4. Total(pool, S \cup E, field) \in Int
      BY <1>1, <3>1, Totals
    <3> QED BY <1>3, <3>1, <3>3, <3>4
  <2> QED BY <2>1, <2>2
<1>4. SUBSET F \subseteq G
  <2> HIDE DEF G
  <2> QED BY <1>0, <1>2, <1>3, Grow
<1>5. F \in G
  <2> HIDE DEF G
  <2> QED BY <1>4
<1> QED BY <1>5

-----------------------------------------------------------------------------
(* One action a case, and the customers' caps *)

CapsHold(pool, S, b) ==
  /\ \A i, j \in S : pool[i].case = pool[j].case => i = j
  /\ \A i \in S : CustomerContacts(pool, S, pool[i].customer) <= b.perCustomer

\* A choice that loses candidates keeps the caps.
LEMMA CapsLeave ==
  ASSUME NEW pool, IsPool(pool), NEW b, IsBudgets(b),
         NEW S \in SUBSET DOMAIN pool, CapsHold(pool, S, b), NEW T \in SUBSET S
  PROVE  CapsHold(pool, T, b)
<1>1. ASSUME NEW i \in T
      PROVE  CustomerContacts(pool, T, pool[i].customer) <= b.perCustomer
  <2> DEFINE Own(U) == {k \in U : pool[k].customer = pool[i].customer}
  <2>1. Total(pool, Own(S), "contacts") <= b.perCustomer
    BY DEF CapsHold, CustomerContacts
  <2>2. Own(S) \in SUBSET DOMAIN pool /\ Own(T) \in SUBSET Own(S)
    OBVIOUS
  <2> HIDE DEF Own
  <2>3. Total(pool, Own(T), "contacts") <= Total(pool, Own(S), "contacts")
    BY <2>2, TotalGrows DEF Scarce
  <2>4. /\ Total(pool, Own(T), "contacts") \in Int /\ Total(pool, Own(S), "contacts") \in Int
        /\ b.perCustomer \in Int
    <3>1. Own(T) \in SUBSET DOMAIN pool
      BY <2>2
    <3> QED BY <2>2, <3>1, Totals DEF Fields, IsBudgets
  <2>5. Total(pool, Own(T), "contacts") <= b.perCustomer
    BY <2>1, <2>3, <2>4
  <2> QED BY <2>5 DEF Own, CustomerContacts
<1> QED BY <1>1 DEF CapsHold

\* A candidate of some customer who is heard no more often for it joins.
LEMMA CapsJoin ==
  ASSUME NEW pool, IsPool(pool), NEW b, IsBudgets(b),
         NEW S \in SUBSET DOMAIN pool, CapsHold(pool, S, b),
         NEW i \in DOMAIN pool, FitsCaps(pool, S, b, i)
  PROVE  i \notin S /\ CapsHold(pool, S \cup {i}, b)
<1>1. \A k \in S : pool[k].case # pool[i].case
  BY DEF FitsCaps
<1>2. i \notin S
  BY <1>1
<1> DEFINE Own(U, c) == {k \in U : pool[k].customer = c}
           Heard(U, c) == Total(pool, Own(U, c), "contacts")
<1>3. ASSUME NEW c
      PROVE  /\ Heard(S, c) \in Int /\ pool[i].contacts \in {0, 1}
             /\ Heard(S \cup {i}, c) = IF c = pool[i].customer
                                       THEN pool[i].contacts + Heard(S, c) ELSE Heard(S, c)
  <2>1. Own(S, c) \in SUBSET DOMAIN pool /\ i \in DOMAIN pool \ Own(S, c)
    BY <1>2
  <2>2. Own(S \cup {i}, c) = IF c = pool[i].customer THEN Own(S, c) \cup {i} ELSE Own(S, c)
    OBVIOUS
  <2> HIDE DEF Own
  <2>3. Total(pool, Own(S, c) \cup {i}, "contacts")
          = pool[i]["contacts"] + Total(pool, Own(S, c), "contacts")
    BY <2>1, TotalWith DEF Fields
  <2>4. Total(pool, Own(S, c), "contacts") \in Int
    BY <2>1, Totals DEF Fields
  <2>5. pool[i].contacts \in {0, 1}
    BY DEF IsPool, IsCandidate
  <2> QED BY <2>2, <2>3, <2>4, <2>5
<1>4. ASSUME NEW U, NEW c PROVE CustomerContacts(pool, U, c) = Heard(U, c)
  BY DEF CustomerContacts
<1>5. \A j \in S : Heard(S, pool[j].customer) <= b.perCustomer
  BY <1>4 DEF CapsHold
<1>6. pool[i].contacts > 0 =>
        Heard(S, pool[i].customer) + pool[i].contacts <= b.perCustomer
  BY <1>4 DEF FitsCaps
<1>7. Heard(S, pool[i].customer) <= b.perCustomer
  <2>1. CASE \E j \in S : pool[j].customer = pool[i].customer
    BY <1>5, <2>1
  <2>2. CASE ~\E j \in S : pool[j].customer = pool[i].customer
    <3>1. Own(S, pool[i].customer) = {}
      BY <2>2
    <3>2. Total(pool, {}, "contacts") = 0
      BY Totals DEF Fields
    <3>3. 0 <= b.perCustomer
      BY DEF IsBudgets
    <3> QED BY <3>1, <3>2, <3>3
  <2> QED BY <2>1, <2>2
<1> HIDE DEF Heard
<1>8. ASSUME NEW j \in S \cup {i}
      PROVE  Heard(S \cup {i}, pool[j].customer) <= b.perCustomer
  <2>1. b.perCustomer \in Int
    BY DEF IsBudgets
  <2>2. CASE pool[j].customer = pool[i].customer
    <3>1. Heard(S \cup {i}, pool[j].customer) = pool[i].contacts + Heard(S, pool[i].customer)
      BY <1>3, <2>2
    <3>2. Heard(S, pool[i].customer) \in Int /\ pool[i].contacts \in {0, 1}
      BY <1>3
    <3> QED BY <1>6, <1>7, <2>1, <3>1, <3>2
  <2>3. CASE pool[j].customer # pool[i].customer
    BY <1>3, <1>5, <2>3
  <2> QED BY <2>2, <2>3
<1>9. \A j, k \in S \cup {i} : pool[j].case = pool[k].case => j = k
  BY <1>1 DEF CapsHold
<1> QED BY <1>2, <1>4, <1>8, <1>9 DEF CapsHold

-----------------------------------------------------------------------------
(* The passes of the allocator *)

\* A finite set has finitely many values.
LEMMA Image ==
  ASSUME NEW S, IsFiniteSet(S), NEW f
  PROVE  IsFiniteSet({f[x] : x \in S})
<1> DEFINE T == {f[x] : x \in S}
           g == [x \in S |-> f[x]]
<1>1. g \in Surjection(S, T)
  BY DEF Surjection
<1> HIDE DEF T, g
<1>2. IsFiniteSet(T)
  BY <1>1, FS_Surjection
<1> QED BY <1>2 DEF T

\* There is a last one, it is one of them, and none is worth less.
LEMMA LastIsOne ==
  ASSUME NEW S \in SUBSET Int, IsFiniteSet(S), S # {}, NEW key, \A i \in S : key[i] \in Int
  PROVE  LastBy(key, S) \in S /\ \A i \in S : key[LastBy(key, S)] <= key[i]
<1> DEFINE keys == {key[i] : i \in S}
<1>1. keys \in SUBSET Int /\ keys # {} /\ IsFiniteSet(keys)
  BY Image
<1>2. Min(keys) \in keys /\ \A m \in keys : Min(keys) <= m
  <2> HIDE DEF keys
  <2> QED BY <1>1, Bounds
<1> DEFINE least == {i \in S : key[i] = Min(keys)}
<1>3. least \in SUBSET S /\ least # {}
  BY <1>2
<1>4. IsFiniteSet(least)
  BY <1>3, FS_Subset
<1>5. Max(least) \in least
  <2> HIDE DEF least
  <2>1. least \in SUBSET Int
    BY <1>3
  <2> QED BY <1>3, <1>4, <2>1, Bounds
<1>6. LastBy(key, S) = Max(least)
  BY DEF LastBy
<1>7. key[Max(least)] = Min(keys) /\ Max(least) \in S
  BY <1>3, <1>5
<1> QED BY <1>2, <1>6, <1>7

\* What fits may join.
LEMMA FitsJoin ==
  ASSUME NEW pool, IsPool(pool), NEW b, IsBudgets(b),
         NEW S \in SUBSET DOMAIN pool, Feasible(pool, S, b),
         NEW i \in DOMAIN pool, Fits(pool, S, b, i)
  PROVE  Feasible(pool, S \cup {i}, b)
<1>1. CapsHold(pool, S, b) /\ FitsCaps(pool, S, b, i)
  BY DEF Feasible, CapsHold, Fits
<1>2. i \notin S /\ CapsHold(pool, S \cup {i}, b)
  BY <1>1, CapsJoin
<1>3. ASSUME NEW field \in Scarce
      PROVE  Total(pool, S \cup {i}, field) = Total(pool, S, field) + pool[i][field]
  <2>1. field \in Fields /\ pool[i][field] \in Int
    BY DEF Scarce, Fields, IsPool, IsCandidate
  <2>2. Total(pool, S \cup {i}, field) = pool[i][field] + Total(pool, S, field)
    BY <1>2, <2>1, TotalWith
  <2>3. Total(pool, S, field) \in Int
    BY <2>1, Totals
  <2> QED BY <2>1, <2>2, <2>3
<1>4. /\ Total(pool, S \cup {i}, "contacts") <= b.contacts
      /\ Total(pool, S \cup {i}, "discount") <= b.discount
  BY <1>3 DEF Scarce, Fits
<1> QED BY <1>2, <1>4 DEF Feasible, CapsHold

\* The empty choice is feasible, whatever the budgets.
LEMMA NothingIsFeasible ==
  ASSUME NEW pool, IsPool(pool), NEW b, IsBudgets(b)
  PROVE  Feasible(pool, {}, b)
<1>1. Total(pool, {}, "contacts") = 0 /\ Total(pool, {}, "discount") = 0
  BY Totals DEF Fields
<1> QED BY <1>1 DEF Feasible, IsBudgets

\* What joins only when it fits leaves the choice feasible.
LEMMA TakeKeeps ==
  ASSUME NEW pool, IsPool(pool), NEW b, IsBudgets(b),
         NEW ch \in SUBSET DOMAIN pool, Feasible(pool, ch, b),
         NEW is \in SUBSET DOMAIN pool, NEW last,
         \A s \in SUBSET is : s # {} => last[s] \in s
  PROVE  /\ Take(pool, ch, b, is, last) \in SUBSET DOMAIN pool
         /\ Feasible(pool, Take(pool, ch, b, is, last), b)
<1> DEFINE V == SUBSET DOMAIN pool
           With(acc, i) == IF Fits(pool, acc, b, i) THEN acc \cup {i} ELSE acc
           Taken(it, s) == IF s = {} THEN ch ELSE With(it[s \ {last[s]}], last[s])
           iter == CHOOSE it : it = [s \in SUBSET is |-> Taken(it, s)]
<1>1. IsFiniteSet(is)
  BY FS_Subset DEF IsPool
<1>2. \E it : it = [s \in SUBSET is |-> Taken(it, s)]
  <2> DEFINE base == [s \in SUBSET is |-> ch]
             step == [p \in (SUBSET is) \X V |-> IF p[1] = {} THEN ch
                                                 ELSE With(p[2], last[p[1]])]
             Stop == {{}}
  <2>1. base \in [SUBSET is -> V]
    OBVIOUS
  <2>2. step \in [(SUBSET is) \X V -> V]
    <3>1. ASSUME NEW p \in (SUBSET is) \X V
          PROVE  (IF p[1] = {} THEN ch ELSE With(p[2], last[p[1]])) \in V
      OBVIOUS
    <3> HIDE DEF With
    <3> QED BY <3>1
  <2>3. {} \in Stop /\ \A s \in SUBSET is : s \notin Stop => last[s] \in s
    OBVIOUS
  <2>4. PICK it : Unrolls(it, is, V, Stop, base, step, last)
    <3> HIDE DEF base, step, Stop, V
    <3>1. Recursion(is, V, Stop, base, step, last)
      BY <1>1, <2>1, <2>2, <2>3 DEF Recursion
    <3> QED BY <3>1, Iterates
  <2>5. ASSUME NEW s \in SUBSET is
        PROVE  it[s] = Taken(it, s)
    <3>1. CASE s = {}
      BY <2>4, <3>1 DEF Unrolls
    <3>2. CASE s # {}
      <4>1. it[s] = step[<<s, it[s \ {last[s]}]>>]
        BY <2>4, <3>2 DEF Unrolls
      <4>2. s \ {last[s]} \in SUBSET is
        OBVIOUS
      <4>3. it[s \ {last[s]}] \in V
        BY <2>4, <4>2 DEF Unrolls
      <4>4. step[<<s, it[s \ {last[s]}]>>] = With(it[s \ {last[s]}], last[s])
        <5>1. <<s, it[s \ {last[s]}]>> \in (SUBSET is) \X V
          BY <4>3
        <5> HIDE DEF With, V
        <5> QED BY <3>2, <5>1
      <4> QED BY <3>2, <4>1, <4>4
    <3> QED BY <3>1, <3>2
  <2>6. it = [s \in SUBSET is |-> Taken(it, s)]
    <3>1. it = [s \in SUBSET is |-> it[s]]
      BY <2>4 DEF Unrolls
    <3> HIDE DEF Taken
    <3> QED BY <2>5, <3>1
  <2> QED BY <2>6
<1>3. iter = [s \in SUBSET is |-> Taken(iter, s)]
  <2> HIDE DEF Taken
  <2> QED BY <1>2
<1>4. Take(pool, ch, b, is, last) = iter[is]
  BY DEF Take, MapThenFoldSet
<1> HIDE DEF iter
<1> DEFINE G == {s \in SUBSET is : iter[s] \in V /\ Feasible(pool, iter[s], b)}
<1>5. ASSUME NEW s \in SUBSET is, s \notin G
      PROVE  \E x \in s : s \ {x} \notin G
  <2>1. iter[s] = Taken(iter, s)
    BY <1>3
  <2>2. s # {}
    BY <1>5, <2>1
  <2>3. last[s] \in s /\ last[s] \in DOMAIN pool
    BY <2>2
  <2>4. ASSUME s \ {last[s]} \in G PROVE FALSE
    <3>1. PICK acc \in V : acc = iter[s \ {last[s]}] /\ Feasible(pool, acc, b)
      BY <2>4
    <3>2. iter[s] = With(acc, last[s])
      BY <2>1, <2>2, <3>1
    <3>3. With(acc, last[s]) \in V /\ Feasible(pool, With(acc, last[s]), b)
      BY <2>3, <3>1, FitsJoin
    <3> QED BY <1>5, <3>2, <3>3
  <2> QED BY <2>3, <2>4
<1>6. SUBSET is \subseteq G
  <2> HIDE DEF G
  <2> QED BY <1>1, <1>5, Peel
<1>7. is \in G
  <2> HIDE DEF G
  <2> QED BY <1>6
<1> QED BY <1>4, <1>7

\* _fill adds only what fits.
LEMMA FillKeeps ==
  ASSUME NEW pool, IsPool(pool), NEW b, IsBudgets(b),
         NEW ch \in SUBSET DOMAIN pool, Feasible(pool, ch, b)
  PROVE  Fill(pool, ch, b) \in SUBSET DOMAIN pool /\ Feasible(pool, Fill(pool, ch, b), b)
<1> DEFINE rest == Worth(pool) \ ch
           last == [s \in SUBSET rest |-> LastBy(Margins(pool), s)]
<1>1. rest \in SUBSET DOMAIN pool
  BY DEF Worth
<1>2. ASSUME NEW s \in SUBSET rest, s # {}
      PROVE  last[s] \in s
  <2>1. s \in SUBSET DOMAIN pool /\ s \in SUBSET Int
    BY <1>1 DEF IsPool
  <2>2. IsFiniteSet(s)
    BY <2>1, FS_Subset DEF IsPool
  <2>3. \A i \in s : Margins(pool)[i] \in Int
    BY <2>1 DEF Margins, IsPool, IsCandidate
  <2>4. LastBy(Margins(pool), s) \in s
    BY <1>2, <2>1, <2>2, <2>3, LastIsOne
  <2> QED BY <2>4
<1>3. Fill(pool, ch, b) = Take(pool, ch, b, rest, last)
  BY DEF Fill
<1> HIDE DEF rest, last
<1> QED BY <1>1, <1>2, <1>3, TakeKeeps

\* Density orders what is worth taking: a * y >= b * x and b * z >= c * y are passed
\* on, whatever the signs of the values.
LEMMA Ratios ==
  ASSUME NEW a \in Int, NEW b \in Int, NEW c \in Int,
         NEW x \in Nat \ {0}, NEW y \in Nat \ {0}, NEW z \in Nat \ {0},
         a * y >= b * x, b * z >= c * y
  PROVE  a * z >= c * x
<1>1. (a * y) * z >= (b * x) * z
  <2>1. \A u, v \in Int : \A w \in Nat : u >= v => u * w >= v * w
    OBVIOUS
  <2>2. a * y \in Int /\ b * x \in Int /\ z \in Nat
    OBVIOUS
  <2> QED BY <2>1, <2>2
<1>2. (b * z) * x >= (c * y) * x
  <2>1. \A u, v \in Int : \A w \in Nat : u >= v => u * w >= v * w
    OBVIOUS
  <2>2. b * z \in Int /\ c * y \in Int /\ x \in Nat
    OBVIOUS
  <2> QED BY <2>1, <2>2
<1>3. (a * y) * z = (a * z) * y /\ (b * x) * z = (b * z) * x /\ (c * y) * x = (c * x) * y
  OBVIOUS
<1>4. (a * z) * y >= (c * x) * y
  <2>1. (a * y) * z \in Int /\ (b * x) * z \in Int /\ (c * y) * x \in Int
    OBVIOUS
  <2> QED BY <1>1, <1>2, <1>3, <2>1
<1>5. ASSUME a * z < c * x PROVE FALSE
  <2>1. \A u, v \in Int : \A w \in Nat \ {0} : u < v => u * w < v * w
    OBVIOUS
  <2>2. (a * z) * y < (c * x) * y
    <3>1. a * z \in Int /\ c * x \in Int
      OBVIOUS
    <3> QED BY <1>5, <2>1, <3>1
  <2>3. (a * z) * y \in Int /\ (c * x) * y \in Int
    OBVIOUS
  <2> QED BY <1>4, <2>2, <2>3
<1>6. a * z \in Int /\ c * x \in Int
  OBVIOUS
<1> QED BY <1>5, <1>6

\* At least as dense.
AsDense(c, d) == ~Denser(d, c)

\* Density, by cross multiplication, is a total preorder.
LEMMA DensityOrders ==
  ASSUME NEW c, IsCandidate(c), NEW d, IsCandidate(d), NEW e, IsCandidate(e)
  PROVE  /\ Denser(c, d) => AsDense(c, d)
         /\ AsDense(c, d) /\ AsDense(d, e) => AsDense(c, e)
<1>1. Cost(c) \in Nat /\ Cost(d) \in Nat /\ Cost(e) \in Nat
  BY AllocatorAssumption DEF IsCandidate, Cost
<1>2. c.margin \in Int /\ d.margin \in Int /\ e.margin \in Int
  BY DEF IsCandidate
<1>3. ASSUME Denser(c, d) PROVE AsDense(c, d)
  <2>1. c.margin * Cost(d) \in Int /\ d.margin * Cost(c) \in Int
    BY <1>1, <1>2
  <2> QED BY <1>1, <1>3, <2>1 DEF Denser, AsDense
<1>4. ASSUME AsDense(c, d), AsDense(d, e) PROVE AsDense(c, e)
  <2>1. CASE Cost(c) = 0
    BY <1>1, <2>1 DEF AsDense, Denser
  <2>2. CASE Cost(e) = 0
    BY <1>1, <1>4, <2>2 DEF AsDense, Denser
  <2>3. CASE Cost(c) > 0 /\ Cost(e) > 0
    <3>1. Cost(d) > 0
      BY <1>1, <1>4, <2>3 DEF AsDense, Denser
    <3>2. /\ c.margin * Cost(d) \in Int /\ d.margin * Cost(c) \in Int
          /\ d.margin * Cost(e) \in Int /\ e.margin * Cost(d) \in Int
          /\ c.margin * Cost(e) \in Int /\ e.margin * Cost(c) \in Int
      BY <1>1, <1>2
    <3>3. c.margin * Cost(d) >= d.margin * Cost(c)
      BY <1>1, <1>4, <2>3, <3>1, <3>2 DEF AsDense, Denser
    <3>4. d.margin * Cost(e) >= e.margin * Cost(d)
      BY <1>1, <1>4, <2>3, <3>1, <3>2 DEF AsDense, Denser
    <3>5. Cost(c) \in Nat \ {0} /\ Cost(d) \in Nat \ {0} /\ Cost(e) \in Nat \ {0}
      BY <1>1, <2>3, <3>1
    <3>6. c.margin * Cost(e) >= e.margin * Cost(c)
      BY <1>2, <3>3, <3>4, <3>5, Ratios
    <3> QED BY <1>1, <2>3, <3>2, <3>6 DEF AsDense, Denser
  <2> QED BY <1>1, <2>1, <2>2, <2>3
<1> QED BY <1>3, <1>4

\* So there is always a least dense one, the last of equals.
LEMMA LeastDenseIsOne ==
  ASSUME NEW pool, IsPool(pool), NEW S \in SUBSET DOMAIN pool, S # {}
  PROVE  LeastDense(pool, S) \in S
<1> DEFINE Before(j, i) == \/ Denser(pool[j], pool[i])
                           \/ ~Denser(pool[i], pool[j]) /\ j < i
           G == {T \in SUBSET S : T = {} \/ \E i \in T : \A j \in T \ {i} : Before(j, i)}
<1>1. \A i \in DOMAIN pool : IsCandidate(pool[i]) /\ i \in Int
  BY DEF IsPool
<1>2. ASSUME NEW i \in DOMAIN pool, NEW j \in DOMAIN pool, i # j
      PROVE  Before(i, j) \/ Before(j, i)
  <2>1. i < j \/ j < i
    BY <1>1, <1>2
  <2> QED BY <1>1, <2>1, DensityOrders DEF AsDense
<1>3. ASSUME NEW i \in DOMAIN pool, NEW j \in DOMAIN pool, NEW k \in DOMAIN pool,
             Before(k, j), Before(j, i)
      PROVE  Before(k, i)
  <2>1. IsCandidate(pool[i]) /\ IsCandidate(pool[j]) /\ IsCandidate(pool[k])
    BY <1>1
  <2>2. AsDense(pool[k], pool[j])
    BY <1>3, <2>1, DensityOrders DEF AsDense
  <2>3. AsDense(pool[j], pool[i])
    BY <1>3, <2>1, DensityOrders DEF AsDense
  <2>4. AsDense(pool[k], pool[i])
    BY <2>1, <2>2, <2>3, DensityOrders
  <2>5. CASE Denser(pool[k], pool[j])
    <3>1. ~AsDense(pool[j], pool[k])
      BY <2>5 DEF AsDense
    <3>2. ~AsDense(pool[i], pool[k])
      BY <2>1, <2>3, <3>1, DensityOrders
    <3> QED BY <3>2 DEF AsDense
  <2>6. CASE Denser(pool[j], pool[i])
    <3>1. ~AsDense(pool[i], pool[j])
      BY <2>6 DEF AsDense
    <3>2. ~AsDense(pool[i], pool[k])
      BY <2>1, <2>2, <3>1, DensityOrders
    <3> QED BY <3>2 DEF AsDense
  <2>7. CASE k < j /\ j < i
    BY <1>1, <2>4, <2>7 DEF AsDense
  <2> QED BY <1>3, <2>5, <2>6, <2>7
<1> HIDE DEF Before
<1>4. {} \in G
  OBVIOUS
<1>5. ASSUME NEW T \in SUBSET S, NEW x \in S \ T, T \in G
      PROVE  T \cup {x} \in G
  <2>1. CASE T = {}
    BY <2>1
  <2>2. CASE T # {}
    <3>1. PICK i \in T : \A j \in T \ {i} : Before(j, i)
      BY <1>5, <2>2
    <3>2. CASE Before(i, x)
      <4>1. \A j \in (T \cup {x}) \ {x} : Before(j, x)
        BY <1>3, <3>1, <3>2
      <4> QED BY <4>1
    <3>3. CASE Before(x, i)
      <4>1. \A j \in (T \cup {x}) \ {i} : Before(j, i)
        BY <3>1, <3>3
      <4> QED BY <4>1
    <3>4. Before(i, x) \/ Before(x, i)
      <4>1. i # x /\ i \in DOMAIN pool /\ x \in DOMAIN pool
        OBVIOUS
      <4> QED BY <1>2, <4>1
    <3> QED BY <3>2, <3>3, <3>4
  <2> QED BY <2>1, <2>2
<1>6. S \in G
  <2>1. IsFiniteSet(S)
    BY FS_Subset DEF IsPool
  <2> HIDE DEF G
  <2> QED BY <1>4, <1>5, <2>1, Grow
<1>7. \E i \in S : \A j \in S \ {i} : Before(j, i)
  BY <1>6
<1> QED BY <1>7 DEF LeastDense, Before

\* _greedy takes only what fits.
LEMMA GreedyIsFeasible ==
  ASSUME NEW pool, IsPool(pool), NEW b, IsBudgets(b)
  PROVE  Greedy(pool, b) \in SUBSET DOMAIN pool /\ Feasible(pool, Greedy(pool, b), b)
<1> DEFINE last == [s \in SUBSET Worth(pool) |-> LeastDense(pool, s)]
<1>1. Worth(pool) \in SUBSET DOMAIN pool
  BY DEF Worth
<1>2. ASSUME NEW s \in SUBSET Worth(pool), s # {}
      PROVE  last[s] \in s
  <2>1. s \in SUBSET DOMAIN pool
    BY <1>1
  <2> QED BY <1>2, <2>1, LeastDenseIsOne
<1>3. Greedy(pool, b) = Take(pool, {}, b, Worth(pool), last)
  BY DEF Greedy
<1>4. {} \in SUBSET DOMAIN pool /\ Feasible(pool, {}, b)
  BY NothingIsFeasible
<1> HIDE DEF last
<1> QED BY <1>1, <1>2, <1>3, <1>4, TakeKeeps

-----------------------------------------------------------------------------

\* An exchange is for something that fits once the other is out.
LEMMA ExchangeKeeps ==
  ASSUME NEW pool, IsPool(pool), NEW b, IsBudgets(b),
         NEW ch \in SUBSET DOMAIN pool, Feasible(pool, ch, b)
  PROVE  Exchange(pool, ch, b) \in SUBSET DOMAIN pool /\ Feasible(pool, Exchange(pool, ch, b), b)
<1> DEFINE swaps == Swaps(pool, ch, b)
           Gain(s) == pool[s[2]].margin - pool[s[1]].margin
           best == CHOOSE s \in swaps : \A t \in swaps : Gain(t) <= Gain(s)
<1>1. Exchange(pool, ch, b) = IF swaps = {} THEN ch ELSE (ch \ {best[1]}) \cup {best[2]}
  BY DEF Exchange
<1>2. CASE swaps = {}
  <2> HIDE DEF swaps, best
  <2> QED BY <1>1, <1>2
<1>3. CASE swaps # {}
  <2>0. /\ swaps \in SUBSET (ch \X (Worth(pool) \ ch))
        /\ \A s \in swaps : FitsReplacing(pool, ch, b, s[1], s[2])
    BY DEF Swaps
  <2>1. best \in swaps
    <3>1. IsFiniteSet(swaps)
      <4>1. IsFiniteSet(ch) /\ IsFiniteSet(Worth(pool) \ ch)
        BY FS_Subset DEF IsPool, Worth
      <4>2. IsFiniteSet(ch \X (Worth(pool) \ ch))
        BY <4>1, FS_Product
      <4> HIDE DEF swaps
      <4> QED BY <2>0, <4>2, FS_Subset
    <3> DEFINE gain == [s \in swaps |-> Gain(s)]
               gains == {gain[s] : s \in swaps}
    <3>2. \A s \in swaps : Gain(s) \in Int
      <4> HIDE DEF swaps
      <4> QED BY <2>0 DEF Worth, IsPool, IsCandidate
    <3>3. gains \in SUBSET Int /\ gains # {} /\ IsFiniteSet(gains)
      <4> HIDE DEF swaps, Gain
      <4> QED BY <1>3, <3>1, <3>2, Image
    <3>4. Max(gains) \in gains /\ \A g \in gains : g <= Max(gains)
      <4> HIDE DEF gains
      <4> QED BY <3>3, Bounds
    <3>5. \E s \in swaps : \A t \in swaps : Gain(t) <= Gain(s)
      <4> HIDE DEF swaps, Gain
      <4>1. PICK s \in swaps : Gain(s) = Max(gains)
        BY <3>4
      <4> QED BY <3>4, <4>1
    <3> HIDE DEF swaps, Gain
    <3> QED BY <3>5
  <2>2. PICK k \in ch, i \in Worth(pool) \ ch : best = <<k, i>> /\ FitsReplacing(pool, ch, b, k, i)
    <3>1. PICK s \in ch \X (Worth(pool) \ ch) :
            s = best /\ FitsReplacing(pool, ch, b, s[1], s[2])
      <4> HIDE DEF best, swaps
      <4> QED BY <2>0, <2>1
    <3>2. s[1] \in ch /\ s[2] \in Worth(pool) \ ch /\ s = <<s[1], s[2]>>
      OBVIOUS
    <3> HIDE DEF best
    <3> QED BY <3>1, <3>2
  <2>3. Exchange(pool, ch, b) = (ch \ {k}) \cup {i}
    <3> HIDE DEF best, swaps
    <3> QED BY <1>1, <1>3, <2>2
  <2>4. Feasible(pool, ch \ {k}, b)
    <3>1. ch \ {k} \in SUBSET ch /\ CapsHold(pool, ch, b)
      BY DEF Feasible, CapsHold
    <3>2. CapsHold(pool, ch \ {k}, b)
      BY <3>1, CapsLeave
    <3>3. ASSUME NEW field \in Scarce
          PROVE  /\ Total(pool, ch \ {k}, field) <= Total(pool, ch, field)
                 /\ Total(pool, ch \ {k}, field) \in Int /\ Total(pool, ch, field) \in Int
      BY TotalGrows, Totals DEF Scarce, Fields
    <3>4. /\ Total(pool, ch \ {k}, "contacts") <= b.contacts
          /\ Total(pool, ch \ {k}, "discount") <= b.discount
      BY <3>3 DEF Feasible, Scarce, IsBudgets
    <3> QED BY <3>2, <3>4 DEF Feasible, CapsHold
  <2>5. i \in DOMAIN pool /\ Fits(pool, ch \ {k}, b, i) /\ ch \ {k} \in SUBSET DOMAIN pool
    BY <2>2 DEF Worth, FitsReplacing
  <2>6. Feasible(pool, (ch \ {k}) \cup {i}, b)
    BY <2>4, <2>5, FitsJoin
  <2> QED BY <2>3, <2>5, <2>6
<1> QED BY <1>2, <1>3

\* So do MAX_SWAP_PASSES of them.
LEMMA ImproveKeeps ==
  ASSUME NEW pool, IsPool(pool), NEW b, IsBudgets(b),
         NEW ch \in SUBSET DOMAIN pool, Feasible(pool, ch, b)
  PROVE  Improve(pool, ch, b) \in SUBSET DOMAIN pool /\ Feasible(pool, Improve(pool, ch, b), b)
<1> DEFINE Pass(acc) == Exchange(pool, acc, b)
           Good(acc) == acc \in SUBSET DOMAIN pool /\ Feasible(pool, acc, b)
<1>1. \A acc : Good(acc) => Good(Pass(acc))
  BY ExchangeKeeps
<1>2. Improve(pool, ch, b) = Pass(Pass(Pass(Pass(ch))))
  BY DEF Improve
<1>3. Good(ch)
  OBVIOUS
<1>4. Good(Pass(Pass(Pass(Pass(ch)))))
  <2> HIDE DEF Good, Pass
  <2> QED BY <1>1, <1>3
<1> QED BY <1>2, <1>4

\* What the relaxation looks at, and what it has chosen of every part of it, with the
\* least valuable one decided last.
Values(pool, lc, ld) == [i \in DOMAIN pool |-> Reduced(pool[i], lc, ld)]
Positive(pool, lc, ld) == {i \in DOMAIN pool : Values(pool, lc, ld)[i] > 0}
IsChosen(it, pool, b, lc, ld) ==
  \A s \in SUBSET Positive(pool, lc, ld) :
    /\ s = {} => it[s] = {}
    /\ s # {} => \E x \in s :
         /\ \A i \in s : Values(pool, lc, ld)[x] <= Values(pool, lc, ld)[i]
         /\ it[s] = IF FitsCaps(pool, it[s \ {x}], b, x) THEN it[s \ {x}] \cup {x}
                    ELSE it[s \ {x}]

\* The fold of _select is such a choice.
LEMMA SelectUnfolds ==
  ASSUME NEW pool, IsPool(pool), NEW b, NEW lc \in Int, NEW ld \in Int
  PROVE  \E it : /\ IsChosen(it, pool, b, lc, ld)
                 /\ Select(pool, b, lc, ld) = it[Positive(pool, lc, ld)]
<1> DEFINE value == Values(pool, lc, ld)
           is == Positive(pool, lc, ld)
           V == SUBSET DOMAIN pool
           last == [s \in SUBSET is |-> LastBy(value, s)]
           With(acc, i) == IF FitsCaps(pool, acc, b, i) THEN acc \cup {i} ELSE acc
           Taken(it, s) == IF s = {} THEN {} ELSE With(it[s \ {LastBy(value, s)}], LastBy(value, s))
           iter == CHOOSE it : it = [s \in SUBSET is |-> Taken(it, s)]
<1>1. is \in SUBSET DOMAIN pool /\ IsFiniteSet(is)
  BY FS_Subset DEF IsPool, Positive
<1>2. \A i \in DOMAIN pool : value[i] \in Int
  BY DEF IsPool, IsCandidate, Reduced, Values
<1>3. Select(pool, b, lc, ld) = iter[is]
  BY DEF Select, MapThenFoldSet, Values, Positive
<1> HIDE DEF value, is
<1>4. ASSUME NEW s \in SUBSET is, s # {}
      PROVE  LastBy(value, s) \in s /\ \A i \in s : value[LastBy(value, s)] <= value[i]
  <2>1. s \in SUBSET Int /\ IsFiniteSet(s) /\ \A i \in s : value[i] \in Int
    BY <1>1, <1>2, FS_Subset DEF IsPool
  <2> QED BY <1>4, <2>1, LastIsOne
<1>5. \E it : it = [s \in SUBSET is |-> Taken(it, s)]
  <2> DEFINE base == [s \in SUBSET is |-> {}]
             step == [p \in (SUBSET is) \X V |-> IF p[1] = {} THEN {}
                                                 ELSE With(p[2], last[p[1]])]
             Stop == {{}}
  <2>1. base \in [SUBSET is -> V]
    OBVIOUS
  <2>2. step \in [(SUBSET is) \X V -> V]
    <3>1. ASSUME NEW p \in (SUBSET is) \X V
          PROVE  (IF p[1] = {} THEN {} ELSE With(p[2], last[p[1]])) \in V
      <4>1. p[1] # {} => last[p[1]] \in DOMAIN pool
        BY <1>1, <1>4
      <4> HIDE DEF last
      <4> QED BY <4>1
    <3> HIDE DEF With
    <3> QED BY <3>1
  <2>3. {} \in Stop /\ \A s \in SUBSET is : s \notin Stop => last[s] \in s
    BY <1>4
  <2>4. PICK it : Unrolls(it, is, V, Stop, base, step, last)
    <3> HIDE DEF base, step, Stop, V, last
    <3>1. Recursion(is, V, Stop, base, step, last)
      BY <1>1, <2>1, <2>2, <2>3 DEF Recursion
    <3> QED BY <3>1, Iterates
  <2>5. ASSUME NEW s \in SUBSET is
        PROVE  it[s] = Taken(it, s)
    <3>1. CASE s = {}
      BY <2>4, <3>1 DEF Unrolls
    <3>2. CASE s # {}
      <4>1. it[s] = step[<<s, it[s \ {last[s]}]>>]
        BY <2>4, <3>2 DEF Unrolls
      <4>2. s \ {last[s]} \in SUBSET is
        OBVIOUS
      <4>3. it[s \ {last[s]}] \in V
        BY <2>4, <4>2 DEF Unrolls
      <4>4. step[<<s, it[s \ {last[s]}]>>] = With(it[s \ {last[s]}], last[s])
        <5>1. <<s, it[s \ {last[s]}]>> \in (SUBSET is) \X V
          BY <4>3
        <5> HIDE DEF With, V
        <5> QED BY <3>2, <5>1
      <4>5. last[s] = LastBy(value, s)
        OBVIOUS
      <4> HIDE DEF With, step
      <4> QED BY <3>2, <4>1, <4>4, <4>5
    <3> QED BY <3>1, <3>2
  <2>6. it = [s \in SUBSET is |-> Taken(it, s)]
    <3>1. it = [s \in SUBSET is |-> it[s]]
      BY <2>4 DEF Unrolls
    <3> HIDE DEF Taken
    <3> QED BY <2>5, <3>1
  <2> QED BY <2>6
<1>6. iter = [s \in SUBSET is |-> Taken(iter, s)]
  <2> HIDE DEF Taken
  <2> QED BY <1>5
<1> HIDE DEF iter
<1>7. ASSUME NEW s \in SUBSET is, s # {}
      PROVE  \E x \in s : /\ \A i \in s : value[x] <= value[i]
                          /\ iter[s] = With(iter[s \ {x}], x)
  <2>1. PICK x \in s : x = LastBy(value, s) /\ \A i \in s : value[x] <= value[i]
    BY <1>4, <1>7
  <2>2. iter[s] = Taken(iter, s)
    BY <1>6
  <2> HIDE DEF With
  <2> QED BY <1>7, <2>1, <2>2
<1>8. \A s \in SUBSET is : s = {} => iter[s] = {}
  BY <1>6
<1>9. IsChosen(iter, pool, b, lc, ld)
  BY <1>7, <1>8 DEF IsChosen, is, value
<1> QED BY <1>3, <1>9 DEF is

\* The relaxation keeps the caps, whatever the prices.
LEMMA SelectKeepsCaps ==
  ASSUME NEW pool, IsPool(pool), NEW b, IsBudgets(b), NEW lc \in Int, NEW ld \in Int
  PROVE  /\ Select(pool, b, lc, ld) \in SUBSET Positive(pool, lc, ld)
         /\ Select(pool, b, lc, ld) \in SUBSET DOMAIN pool
         /\ CapsHold(pool, Select(pool, b, lc, ld), b)
<1> DEFINE is == Positive(pool, lc, ld)
<1>1. is \in SUBSET DOMAIN pool /\ IsFiniteSet(is)
  BY FS_Subset DEF IsPool, Positive
<1>2. PICK it : IsChosen(it, pool, b, lc, ld) /\ Select(pool, b, lc, ld) = it[is]
  BY SelectUnfolds
<1> DEFINE G == {s \in SUBSET is : it[s] \in SUBSET s /\ CapsHold(pool, it[s], b)}
<1>3. ASSUME NEW s \in SUBSET is, s \notin G
      PROVE  \E x \in s : s \ {x} \notin G
  <2>1. s # {}
    BY <1>2, <1>3 DEF CapsHold, IsChosen
  <2>2. PICK x \in s : it[s] = IF FitsCaps(pool, it[s \ {x}], b, x)
                               THEN it[s \ {x}] \cup {x} ELSE it[s \ {x}]
    BY <1>2, <2>1 DEF IsChosen
  <2>3. ASSUME s \ {x} \in G PROVE FALSE
    <3>1. PICK acc \in SUBSET (s \ {x}) : acc = it[s \ {x}] /\ CapsHold(pool, acc, b)
      BY <2>3
    <3>2. acc \in SUBSET DOMAIN pool /\ x \in DOMAIN pool
      BY <1>1
    <3>3. FitsCaps(pool, acc, b, x) => CapsHold(pool, acc \cup {x}, b)
      BY <3>1, <3>2, CapsJoin
    <3>4. acc \cup {x} \in SUBSET s /\ acc \in SUBSET s
      OBVIOUS
    <3> QED BY <1>3, <2>2, <3>1, <3>3, <3>4
  <2> QED BY <2>3
<1>4. SUBSET is \subseteq G
  <2> HIDE DEF G, is
  <2> QED BY <1>1, <1>3, Peel
<1>5. is \in G
  <2> HIDE DEF G
  <2> QED BY <1>4
<1> QED BY <1>1, <1>2, <1>5

\* Trimming takes away until the budget is met.
LEMMA TrimMeets ==
  ASSUME NEW pool, IsPool(pool), NEW field \in Scarce, NEW limit \in Nat,
         NEW ch \in SUBSET DOMAIN pool
  PROVE  /\ Trim(pool, ch, field, limit) \in SUBSET ch
         /\ Total(pool, Trim(pool, ch, field, limit), field) <= limit
<1> DEFINE Worst(spenders) == CHOOSE i \in spenders :
                                \A j \in spenders : pool[i].margin <= pool[j].margin
           Spenders(kept) == {i \in kept : pool[i][field] > 0}
           V == SUBSET ch
           Stop == {s \in V : Total(pool, s, field) <= limit}
           pick == [s \in V |-> Worst(Spenders(s))]
           Kept(it, s) == IF Total(pool, s, field) <= limit THEN s
                          ELSE it[s \ {Worst(Spenders(s))}]
           iter == CHOOSE it : it = [s \in V |-> Kept(it, s)]
<1>0. IsFiniteSet(ch) /\ field \in Fields /\ \A i \in DOMAIN pool : pool[i][field] \in Nat
  BY FS_Subset DEF IsPool, IsCandidate, Scarce, Fields
<1>1. ASSUME NEW s \in V, ~(Total(pool, s, field) <= limit)
      PROVE  Worst(Spenders(s)) \in s
  <2>1. Spenders(s) # {}
    <3>1. ASSUME Spenders(s) = {} PROVE FALSE
      <4>1. \A i \in s : pool[i][field] = 0
        BY <1>0, <3>1
      <4>2. {} \cup s = s /\ {} \in SUBSET DOMAIN pool /\ s \in SUBSET DOMAIN pool
        OBVIOUS
      <4>3. Total(pool, {} \cup s, field) = Total(pool, {}, field)
        BY <4>1, <4>2, TotalFree
      <4>4. Total(pool, {}, field) = 0
        BY <1>0, Totals
      <4> QED BY <1>1, <4>2, <4>3, <4>4
    <3> QED BY <3>1
  <2> DEFINE S == Spenders(s)
             margin == [i \in S |-> pool[i].margin]
             margins == {margin[i] : i \in S}
  <2>2. S \in SUBSET DOMAIN pool /\ \A i \in S : margin[i] \in Int
    BY DEF IsPool, IsCandidate
  <2>3. margins \in SUBSET Int /\ margins # {} /\ IsFiniteSet(margins)
    <3>1. IsFiniteSet(S)
      BY <2>2, FS_Subset DEF IsPool
    <3> HIDE DEF S, margin
    <3> QED BY <2>1, <2>2, <3>1, Image DEF S
  <2>4. Min(margins) \in margins /\ \A m \in margins : Min(margins) <= m
    <3> HIDE DEF margins
    <3> QED BY <2>3, Bounds
  <2>5. PICK i \in S : margin[i] = Min(margins)
    BY <2>4
  <2>6. \A j \in S : pool[i].margin <= pool[j].margin
    BY <2>4, <2>5
  <2>7. Worst(S) \in S
    <3> HIDE DEF S
    <3> QED BY <2>6
  <2> QED BY <2>7
<1>2. Trim(pool, ch, field, limit) = iter[ch]
  BY DEF Trim
<1> HIDE DEF Worst, Spenders
<1>3. \E it : it = [s \in V |-> Kept(it, s)]
  <2> DEFINE base == [s \in V |-> s]
             step == [p \in V \X V |-> p[2]]
  <2>1. base \in [V -> V] /\ step \in [V \X V -> V]
    OBVIOUS
  <2>2. {} \in Stop
    <3>1. Total(pool, {}, field) = 0
      BY <1>0, Totals
    <3> QED BY <3>1
  <2>3. \A s \in V : s \notin Stop => pick[s] \in s
    BY <1>1
  <2>4. PICK it : Unrolls(it, ch, V, Stop, base, step, pick)
    <3>1. Recursion(ch, V, Stop, base, step, pick)
      <4> HIDE DEF base, step, Stop, pick
      <4> QED BY <1>0, <2>1, <2>2, <2>3 DEF Recursion
    <3> HIDE DEF base, step, Stop, pick
    <3> QED BY <3>1, Iterates
  <2>5. ASSUME NEW s \in V
        PROVE  it[s] = Kept(it, s)
    <3>1. CASE Total(pool, s, field) <= limit
      BY <2>4, <3>1 DEF Unrolls
    <3>2. CASE ~(Total(pool, s, field) <= limit)
      <4>1. it[s] = step[<<s, it[s \ {pick[s]}]>>]
        BY <2>4, <3>2 DEF Unrolls
      <4>2. it[s \ {pick[s]}] \in V
        <5>1. s \ {pick[s]} \in V
          OBVIOUS
        <5> QED BY <2>4, <5>1 DEF Unrolls
      <4>3. step[<<s, it[s \ {pick[s]}]>>] = it[s \ {pick[s]}]
        BY <4>2
      <4> QED BY <3>2, <4>1, <4>3
    <3> QED BY <3>1, <3>2
  <2>6. it = [s \in V |-> Kept(it, s)]
    <3>1. it = [s \in V |-> it[s]]
      BY <2>4 DEF Unrolls
    <3> HIDE DEF Kept
    <3> QED BY <2>5, <3>1
  <2> QED BY <2>6
<1>4. iter = [s \in V |-> Kept(iter, s)]
  <2> HIDE DEF Kept
  <2> QED BY <1>3
<1> HIDE DEF iter
<1> DEFINE G == {s \in V : iter[s] \in V /\ Total(pool, iter[s], field) <= limit}
<1>5. ASSUME NEW s \in V, s \notin G
      PROVE  \E x \in s : s \ {x} \notin G
  <2>1. ~(Total(pool, s, field) <= limit)
    BY <1>4, <1>5
  <2>2. PICK x \in s : x = Worst(Spenders(s))
    BY <1>1, <2>1
  <2>3. iter[s] = iter[s \ {x}]
    BY <1>4, <2>1, <2>2
  <2> QED BY <1>5, <2>3
<1>6. V \subseteq G
  <2> HIDE DEF G
  <2> QED BY <1>0, <1>5, Peel
<1>7. ch \in G
  <2> HIDE DEF G
  <2> QED BY <1>6
<1> QED BY <1>2, <1>7

-----------------------------------------------------------------------------
(* What the allocator makes of it *)

\* The prices are among Prices.
LEMMA Priced ==
  ASSUME NEW pool, NEW b
  PROVE  Multipliers(pool, b)[1] \in Nat /\ Multipliers(pool, b)[2] \in Nat
<1>1. ASSUME NEW S \in SUBSET Prices
      PROVE  (IF S = {} THEN Max(Prices) ELSE Min(S)) \in Nat
  <2>1. /\ Prices \in SUBSET Int /\ Prices # {} /\ IsFiniteSet(Prices)
        /\ IsFiniteSet(S) /\ S \in SUBSET Int
    <3>1. Prices \subseteq Nat /\ 0 \in Prices /\ IsFiniteSet(Prices)
      BY AllocatorAssumption
    <3>2. IsFiniteSet(S)
      BY <3>1, FS_Subset
    <3> QED BY <3>1, <3>2
  <2>2. Max(Prices) \in Prices /\ (S # {} => Min(S) \in S)
    BY <2>1, Bounds
  <2> QED BY <2>2, AllocatorAssumption
<1>2. \A l : BisectContact(pool, b, l) \in Nat /\ BisectDiscount(pool, b, l) \in Nat
  BY <1>1 DEF BisectContact, BisectDiscount
<1> DEFINE Round(l) == LET lc == BisectContact(pool, b, l[2])
                       IN <<lc, BisectDiscount(pool, b, lc)>>
<1>3. \A l : Round(l)[1] \in Nat /\ Round(l)[2] \in Nat
  BY <1>2
<1>4. Multipliers(pool, b) = Round(Round(Round(Round(<<0, 0>>))))
  BY DEF Multipliers
<1> HIDE DEF Round
<1> QED BY <1>3, <1>4

\* Relaxed, trimmed, filled and improved, or greedy: what is kept is feasible.
LEMMA KnapsackIsFeasible ==
  ASSUME NEW pool, IsPool(pool), NEW b, IsBudgets(b),
         NEW l, l[1] \in Int, l[2] \in Int
  PROVE  Knapsack(pool, b, l) \in SUBSET DOMAIN pool /\ Feasible(pool, Knapsack(pool, b, l), b)
<1> DEFINE relaxed == Select(pool, b, l[1], l[2])
           spoken == Trim(pool, relaxed, "contacts", b.contacts)
           trimmed == Trim(pool, spoken, "discount", b.discount)
           priced == Fill(pool, trimmed, b)
           greedy == Fill(pool, Greedy(pool, b), b)
           better == IF Total(pool, greedy, "margin") > Total(pool, priced, "margin")
                     THEN greedy ELSE priced
           Good(ch) == ch \in SUBSET DOMAIN pool /\ Feasible(pool, ch, b)
<1>0. b.contacts \in Nat /\ b.discount \in Nat /\ "contacts" \in Scarce /\ "discount" \in Scarce
      /\ "contacts" \in Fields /\ "discount" \in Fields
  BY DEF IsBudgets, Scarce, Fields
<1>1. relaxed \in SUBSET DOMAIN pool /\ CapsHold(pool, relaxed, b)
  BY SelectKeepsCaps
<1>2. spoken \in SUBSET relaxed /\ Total(pool, spoken, "contacts") <= b.contacts
  <2> HIDE DEF relaxed
  <2> QED BY <1>0, <1>1, TrimMeets
<1>3. trimmed \in SUBSET spoken /\ Total(pool, trimmed, "discount") <= b.discount
  <2>1. spoken \in SUBSET DOMAIN pool
    BY <1>1, <1>2
  <2> HIDE DEF spoken
  <2> QED BY <1>0, <2>1, TrimMeets
<1>4. Good(trimmed)
  <2> HIDE DEF relaxed, spoken, trimmed
  <2>1. /\ trimmed \in SUBSET relaxed /\ spoken \in SUBSET DOMAIN pool
        /\ trimmed \in SUBSET DOMAIN pool
    BY <1>1, <1>2, <1>3
  <2>2. CapsHold(pool, trimmed, b)
    BY <1>1, <2>1, CapsLeave
  <2>3. Total(pool, trimmed, "contacts") <= Total(pool, spoken, "contacts")
    BY <1>0, <1>3, <2>1, TotalGrows
  <2>4. Total(pool, trimmed, "contacts") \in Int /\ Total(pool, spoken, "contacts") \in Int
    BY <1>0, <2>1, Totals
  <2>5. Total(pool, trimmed, "contacts") <= b.contacts
    BY <1>0, <1>2, <2>3, <2>4
  <2> QED BY <1>3, <2>1, <2>2, <2>5 DEF Feasible, CapsHold
<1>5. Good(priced)
  <2> HIDE DEF trimmed
  <2> QED BY <1>4, FillKeeps
<1>6. Good(greedy)
  BY GreedyIsFeasible, FillKeeps
<1>7. Good(better)
  <2> HIDE DEF Good, greedy, priced
  <2> QED BY <1>5, <1>6
<1>8. Knapsack(pool, b, l) = Improve(pool, better, b)
  BY DEF Knapsack
<1> HIDE DEF better
<1> QED BY <1>7, <1>8, ImproveKeeps

\* The free actions use nothing, and come one to a case.
LEMMA CostlessKeeps ==
  ASSUME NEW pool, IsPool(pool), NEW b, IsBudgets(b),
         NEW ch \in SUBSET DOMAIN pool, Feasible(pool, ch, b)
  PROVE  /\ TakeCostless(pool, ch) \in SUBSET DOMAIN pool
         /\ Feasible(pool, TakeCostless(pool, ch), b)
<1> DEFINE F == FreeOnes(pool, ch, DOMAIN pool)
<1>1. /\ F \in SUBSET DOMAIN pool
      /\ \A i \in F : /\ pool[i].contacts = 0 /\ pool[i].discount = 0
                      /\ \A k \in ch : pool[k].case # pool[i].case
  BY DEF FreeOnes, Costless
<1>2. \A i, j \in F : pool[i].case = pool[j].case => i = j
  <2>1. \A i \in F : pool[i].margin \in Int /\ i \in Int
    BY <1>1 DEF IsPool, IsCandidate
  <2>2. ASSUME NEW i \in F, NEW j \in F, pool[i].case = pool[j].case
        PROVE  pool[j].margin < pool[i].margin \/ (pool[j].margin = pool[i].margin /\ i <= j)
    BY <2>2 DEF FreeOnes
  <2> HIDE DEF F
  <2> QED BY <2>1, <2>2
<1>3. TakeCostless(pool, ch) = ch \cup F
  BY DEF TakeCostless
<1> HIDE DEF F
<1>4. ASSUME NEW field \in Scarce
      PROVE  Total(pool, ch \cup F, field) = Total(pool, ch, field)
  <2>1. \A i \in F : pool[i][field] = 0
    BY <1>1 DEF Scarce
  <2> QED BY <1>1, <2>1, TotalFree
<1>5. ASSUME NEW i \in ch \cup F
      PROVE  CustomerContacts(pool, ch \cup F, pool[i].customer) <= b.perCustomer
  <2> DEFINE Own(U) == {k \in U : pool[k].customer = pool[i].customer}
  <2>1. Own(ch \cup F) = Own(ch) \cup Own(F)
    OBVIOUS
  <2>2. Own(ch) \in SUBSET DOMAIN pool /\ Own(F) \in SUBSET DOMAIN pool
        /\ \A k \in Own(F) : pool[k]["contacts"] = 0
    BY <1>1
  <2> HIDE DEF Own
  <2>3. Total(pool, Own(ch) \cup Own(F), "contacts") = Total(pool, Own(ch), "contacts")
    BY <2>2, TotalFree DEF Scarce
  <2>4. Total(pool, Own(ch), "contacts") <= b.perCustomer
    <3>1. CASE \E k \in ch : pool[k].customer = pool[i].customer
      <4>1. PICK k \in ch : pool[k].customer = pool[i].customer
        BY <3>1
      <4>2. CustomerContacts(pool, ch, pool[k].customer) <= b.perCustomer
        BY DEF Feasible
      <4> QED BY <4>1, <4>2 DEF CustomerContacts, Own
    <3>2. CASE ~\E k \in ch : pool[k].customer = pool[i].customer
      <4>1. Own(ch) = {}
        BY <3>2 DEF Own
      <4>2. Total(pool, {}, "contacts") = 0
        BY Totals DEF Fields
      <4> QED BY <4>1, <4>2 DEF IsBudgets
    <3> QED BY <3>1, <3>2
  <2>5. Total(pool, Own(ch \cup F), "contacts") <= b.perCustomer
    BY <2>1, <2>3, <2>4
  <2> QED BY <2>5 DEF CustomerContacts, Own
<1>6. \A i, j \in ch \cup F : pool[i].case = pool[j].case => i = j
  BY <1>1, <1>2 DEF Feasible
<1>7. /\ Total(pool, ch \cup F, "contacts") <= b.contacts
      /\ Total(pool, ch \cup F, "discount") <= b.discount
  BY <1>4 DEF Scarce, Feasible
<1> QED BY <1>1, <1>3, <1>5, <1>6, <1>7 DEF Feasible

\* No case that has a free action is left without any.
LEMMA CostlessServes ==
  ASSUME NEW pool, IsPool(pool), NEW ch \in SUBSET DOMAIN pool,
         NEW i \in DOMAIN pool, Costless(pool[i])
  PROVE  \E k \in TakeCostless(pool, ch) : pool[k].case = pool[i].case
<1> SUFFICES ASSUME \A k \in ch : pool[k].case # pool[i].case
             PROVE  \E k \in FreeOnes(pool, ch, DOMAIN pool) : pool[k].case = pool[i].case
  BY DEF TakeCostless
<1> DEFINE own == {j \in DOMAIN pool : Costless(pool[j]) /\ pool[j].case = pool[i].case}
           margin == [j \in own |-> pool[j].margin]
           margins == {margin[j] : j \in own}
           best == {j \in own : margin[j] = Max(margins)}
<1>1. own \in SUBSET DOMAIN pool /\ i \in own /\ IsFiniteSet(own)
  BY FS_Subset DEF IsPool
<1>2. \A j \in own : j \in Int /\ pool[j].margin \in Int /\ margin[j] = pool[j].margin
  BY DEF IsPool, IsCandidate
<1>3. margins \in SUBSET Int /\ margins # {} /\ IsFiniteSet(margins)
  <2> HIDE DEF own, margin
  <2> QED BY <1>1, <1>2, Image
<1>4. Max(margins) \in margins /\ \A m \in margins : m <= Max(margins)
  <2> HIDE DEF margins
  <2> QED BY <1>3, Bounds
<1>5. best # {} /\ best \in SUBSET own
  BY <1>4
<1>6. best \in SUBSET Int /\ IsFiniteSet(best)
  <2> HIDE DEF own, best
  <2> QED BY <1>1, <1>2, <1>5, FS_Subset
<1>7. Min(best) \in best /\ \A j \in best : Min(best) <= j
  <2> HIDE DEF best
  <2> QED BY <1>5, <1>6, Bounds
<1>8. PICK k \in own : k = Min(best) /\ margin[k] = Max(margins)
  <2> HIDE DEF own, margin, margins
  <2> QED BY <1>7
<1>9. ASSUME NEW j \in own
      PROVE  pool[j].margin < pool[k].margin \/ (pool[j].margin = pool[k].margin /\ k <= j)
  <2> HIDE DEF own, margin, margins
  <2>1. margin[j] <= margin[k] /\ margin[j] \in Int /\ margin[k] \in Int
    <3>1. margin[j] \in margins
      BY DEF margins
    <3> QED BY <1>2, <1>4, <1>8, <3>1
  <2>2. CASE margin[j] = margin[k]
    <3>1. j \in best
      BY <1>8, <2>2
    <3> HIDE DEF best
    <3> QED BY <1>2, <1>7, <1>8, <2>2, <3>1
  <2>3. CASE margin[j] # margin[k]
    BY <1>2, <2>1, <2>3
  <2> QED BY <2>2, <2>3
<1>10. k \in FreeOnes(pool, ch, DOMAIN pool)
  <2> HIDE DEF margin, margins, best
  <2> QED BY <1>9 DEF FreeOnes
<1> QED BY <1>10

\* "We do not get to exceed it": whatever it is asked, what the allocator funds is
\* within the budgets, and it leaves no case that had a free action without any.
LEMMA AllocatesWithin ==
  ASSUME NEW pool, IsPool(pool), NEW b, IsBudgets(b)
  PROVE  LET chosen == Allocate(pool, b).chosen
         IN /\ chosen \in SUBSET DOMAIN pool /\ Feasible(pool, chosen, b)
            /\ \A i \in DOMAIN pool : Costless(pool[i]) =>
                 \E k \in chosen : pool[k].case = pool[i].case
<1> DEFINE l == Multipliers(pool, b)
           knapsack == Knapsack(pool, b, l)
<1>1. l[1] \in Int /\ l[2] \in Int
  BY Priced
<1>2. knapsack \in SUBSET DOMAIN pool /\ Feasible(pool, knapsack, b)
  <2> HIDE DEF l
  <2> QED BY <1>1, KnapsackIsFeasible
<1>3. Allocate(pool, b).chosen = TakeCostless(pool, knapsack)
  BY DEF Allocate
<1> HIDE DEF knapsack
<1> QED BY <1>2, <1>3, CostlessKeeps, CostlessServes

-----------------------------------------------------------------------------
(* The certified bound *)

\* No customer has two cases to choose between.
Loners(pool) ==
  \A i, j \in DOMAIN pool :
    pool[i].customer = pool[j].customer => pool[i].case = pool[j].case

\* Then the relaxation has, for every case, an action as good as any its customer's
\* cap admits.
LEMMA SelectServes ==
  ASSUME NEW pool, IsPool(pool), Loners(pool), NEW b, IsBudgets(b),
         NEW lc \in Int, NEW ld \in Int,
         NEW i \in Positive(pool, lc, ld), pool[i].contacts <= b.perCustomer
  PROVE  \E k \in Select(pool, b, lc, ld) :
           /\ pool[k].case = pool[i].case
           /\ Values(pool, lc, ld)[i] <= Values(pool, lc, ld)[k]
<1> DEFINE is == Positive(pool, lc, ld)
           value == Values(pool, lc, ld)
           Serves(ch, j) == \E k \in ch : pool[k].case = pool[j].case /\ value[j] <= value[k]
           Open(s) == {j \in s : pool[j].contacts <= b.perCustomer}
<1>1. is \in SUBSET DOMAIN pool /\ IsFiniteSet(is)
  BY FS_Subset DEF IsPool, Positive
<1>2. \A j \in DOMAIN pool : value[j] \in Int /\ pool[j].contacts \in {0, 1}
  BY DEF IsPool, IsCandidate, Reduced, Values
<1>3. PICK it : IsChosen(it, pool, b, lc, ld) /\ Select(pool, b, lc, ld) = it[is]
  BY SelectUnfolds
<1> DEFINE G == {s \in SUBSET is : it[s] \in SUBSET s /\ \A j \in Open(s) : Serves(it[s], j)}
<1>4. ASSUME NEW s \in SUBSET is, s \notin G
      PROVE  \E x \in s : s \ {x} \notin G
  <2>1. s # {}
    BY <1>3, <1>4 DEF IsChosen
  <2>2. PICK x \in s : /\ \A j \in s : value[x] <= value[j]
                       /\ it[s] = IF FitsCaps(pool, it[s \ {x}], b, x)
                                  THEN it[s \ {x}] \cup {x} ELSE it[s \ {x}]
    BY <1>3, <2>1 DEF IsChosen
  <2>3. ASSUME s \ {x} \in G PROVE FALSE
    <3>1. PICK acc \in SUBSET (s \ {x}) : acc = it[s \ {x}]
      BY <2>3
    <3>2. \A j \in Open(s \ {x}) : Serves(acc, j)
      BY <2>3, <3>1
    <3>3. x \in DOMAIN pool /\ acc \in SUBSET DOMAIN pool
      BY <1>1
    <3>4. CASE FitsCaps(pool, acc, b, x)
      <4>1. it[s] = acc \cup {x}
        BY <2>2, <3>1, <3>4
      <4>2. Serves(acc \cup {x}, x)
        BY <1>2, <3>3
      <4>3. \A j \in Open(s) : Serves(acc \cup {x}, j)
        BY <3>2, <4>2
      <4> QED BY <1>4, <4>1, <4>3
    <3>5. CASE ~FitsCaps(pool, acc, b, x)
      <4>1. it[s] = acc
        BY <2>2, <3>1, <3>5
      <4>2. ASSUME pool[x].contacts <= b.perCustomer
            PROVE  \E k \in acc : pool[k].case = pool[x].case
        <5> SUFFICES ASSUME \A k \in acc : pool[k].case # pool[x].case PROVE FALSE
          OBVIOUS
        <5>1. {k \in acc : pool[k].customer = pool[x].customer} = {}
          BY <3>3 DEF Loners
        <5>2. CustomerContacts(pool, acc, pool[x].customer) = 0
          BY <5>1, Totals DEF CustomerContacts, Fields
        <5> QED BY <1>2, <3>3, <3>5, <4>2, <5>2 DEF FitsCaps
      <4>3. x \in Open(s) => Serves(acc, x)
        BY <2>2, <4>2
      <4>4. \A j \in Open(s) : Serves(acc, j)
        BY <3>2, <4>3
      <4> QED BY <1>4, <4>1, <4>4
    <3> QED BY <3>4, <3>5
  <2> QED BY <2>3
<1>5. SUBSET is \subseteq G
  <2> HIDE DEF G, is
  <2> QED BY <1>1, <1>4, Peel
<1>6. is \in G
  <2> HIDE DEF G
  <2> QED BY <1>5
<1>7. i \in Open(is)
  OBVIOUS
<1> QED BY <1>3, <1>6, <1>7

OnePerCase(pool, S) == \A i, j \in S : pool[i].case = pool[j].case => i = j

\* One choice is worth no more than another of positive values that has something as
\* good for every case.
LEMMA WorthNoMore ==
  ASSUME NEW pool, IsPool(pool), NEW f, \A i \in DOMAIN pool : f[i] \in Int,
         NEW S \in SUBSET DOMAIN pool, OnePerCase(pool, S),
         NEW R \in SUBSET DOMAIN pool, OnePerCase(pool, R), \A k \in R : f[k] > 0,
         \A i \in S : f[i] > 0 => \E k \in R : pool[k].case = pool[i].case /\ f[i] <= f[k]
  PROVE  SumFunctionOnSet(f, S) <= SumFunctionOnSet(f, R)
<1> DEFINE D == DOMAIN pool
           Sum(U) == SumFunctionOnSet(f, U)
           For(U) == {k \in R : \E i \in U : pool[i].case = pool[k].case}
<1>1. IsFiniteSet(D) /\ IsFiniteSet(S) /\ IsFiniteSet(R)
  BY FS_Subset DEF IsPool
<1>2. /\ Sum({}) = 0
      /\ \A U \in SUBSET D : Sum(U) \in Int
      /\ \A U \in SUBSET D : \A i \in D \ U : Sum(U \cup {i}) = f[i] + Sum(U)
  <2> HIDE DEF D
  <2>1. \A i \in D : f[i] \in Int
    BY DEF D
  <2>2. Sum({}) = 0 /\ \A U \in SUBSET D : Sum(U) \in Int
    BY <1>1, <2>1, Sums
  <2>3. \A U \in SUBSET D : \A i \in D \ U : Sum(U \cup {i}) = f[i] + Sum(U)
    BY Zenon, <1>1, <2>1, SumWith
  <2> QED BY <2>2, <2>3
<1> HIDE DEF Sum
<1> DEFINE G == {U \in SUBSET S : Sum(U) <= Sum(For(U))}
<1>3. {} \in G
  <2>1. For({}) = {}
    OBVIOUS
  <2> QED BY <1>2, <2>1
<1>4. ASSUME NEW U \in SUBSET S, NEW x \in S \ U, U \in G
      PROVE  U \cup {x} \in G
  <2>1. U \in SUBSET D /\ x \in D \ U /\ For(U) \in SUBSET D
    OBVIOUS
  <2>2. /\ Sum(U \cup {x}) = f[x] + Sum(U) /\ Sum(U) <= Sum(For(U))
        /\ Sum(U) \in Int /\ Sum(For(U)) \in Int /\ f[x] \in Int
    BY <1>2, <1>4, <2>1
  <2>3. \A k \in R : pool[k].case = pool[x].case => k \notin For(U)
    BY DEF OnePerCase
  <2>4. CASE \E k \in R : pool[k].case = pool[x].case
    <3>1. PICK k \in R : pool[k].case = pool[x].case
      BY <2>4
    <3>2. For(U \cup {x}) = For(U) \cup {k}
      BY <3>1 DEF OnePerCase
    <3>3. k \in D \ For(U)
      BY <2>3, <3>1
    <3>4. Sum(For(U \cup {x})) = f[k] + Sum(For(U))
      BY <1>2, <2>1, <3>2, <3>3
    <3>5. f[x] <= f[k] /\ f[k] \in Int
      <4>1. f[x] > 0 => \E j \in R : pool[j].case = pool[x].case /\ f[x] <= f[j]
        OBVIOUS
      <4>2. \A j \in R : pool[j].case = pool[x].case => j = k
        BY <3>1 DEF OnePerCase
      <4>3. f[k] > 0 /\ f[k] \in Int
        BY <3>1
      <4> QED BY <2>2, <4>1, <4>2, <4>3
    <3>6. Sum(U \cup {x}) <= Sum(For(U \cup {x}))
      BY <2>2, <3>4, <3>5
    <3> QED BY <3>6
  <2>5. CASE ~\E k \in R : pool[k].case = pool[x].case
    <3>1. For(U \cup {x}) = For(U)
      BY <2>5
    <3>2. f[x] <= 0
      BY <2>2, <2>5
    <3> HIDE DEF For
    <3>3. Sum(U \cup {x}) <= Sum(For(U \cup {x}))
      BY <2>2, <3>1, <3>2
    <3> QED BY <3>3
  <2> QED BY <2>4, <2>5
<1>5. SUBSET S \subseteq G
  <2> HIDE DEF G
  <2> QED BY <1>1, <1>3, <1>4, Grow
<1>6. S \in G
  <2> HIDE DEF G
  <2> QED BY <1>5
<1>7. Sum(S) <= Sum(For(S))
  BY <1>6
<1>8. PICK F \in SUBSET R : F = For(S)
  OBVIOUS
<1>9. PICK rest \in SUBSET R : rest = R \ F
  OBVIOUS
<1> DEFINE H == {E \in SUBSET rest : Sum(F) <= Sum(F \cup E)}
<1>10. {} \in H
  <2>1. F \cup {} = F /\ F \in SUBSET D
    OBVIOUS
  <2> QED BY <1>2, <2>1
<1>11. ASSUME NEW E \in SUBSET rest, NEW x \in rest \ E, E \in H
       PROVE  E \cup {x} \in H
  <2>1. F \cup (E \cup {x}) = (F \cup E) \cup {x} /\ x \in D \ (F \cup E) /\ F \cup E \in SUBSET D
    BY <1>9
  <2>2. Sum(F \cup (E \cup {x})) = f[x] + Sum(F \cup E) /\ f[x] > 0 /\ f[x] \in Int
    BY <1>2, <2>1
  <2>3. Sum(F) <= Sum(F \cup E) /\ Sum(F) \in Int /\ Sum(F \cup E) \in Int
    <3>1. F \in SUBSET D
      OBVIOUS
    <3> QED BY <1>2, <1>11, <2>1, <3>1
  <2>4. Sum(F) <= Sum(F \cup (E \cup {x}))
    BY <2>2, <2>3
  <2> QED BY <2>4
<1>12. SUBSET rest \subseteq H
  <2>1. IsFiniteSet(rest)
    BY <1>1, FS_Subset
  <2> HIDE DEF H
  <2> QED BY <1>10, <1>11, <2>1, Grow
<1>13. rest \in H
  <2> HIDE DEF H
  <2> QED BY <1>12
<1>14. F \cup rest = R
  BY <1>9
<1>15. Sum(F) <= Sum(R)
  BY <1>13, <1>14
<1>16. Sum(S) \in Int /\ Sum(F) \in Int /\ Sum(R) \in Int
  BY <1>2
<1>17. Sum(S) <= Sum(R)
  BY <1>7, <1>8, <1>15, <1>16
<1> QED BY <1>17 DEF Sum

\* What a choice earns is what it is worth at the prices and the price of what it uses.
LEMMA EarnsWhatItUses ==
  ASSUME NEW pool, IsPool(pool), NEW lc \in Nat, NEW ld \in Nat,
         NEW S \in SUBSET DOMAIN pool
  PROVE  /\ ReducedTotal(pool, S, lc, ld) \in Int
         /\ Total(pool, S, "margin") = ReducedTotal(pool, S, lc, ld)
              + lc * Total(pool, S, "contacts") + ld * Total(pool, S, "discount")
<1> DEFINE f == Values(pool, lc, ld)
           R(U) == SumFunctionOnSet(f, U)
           M(U) == Total(pool, U, "margin")
           C(U) == Total(pool, U, "contacts")
           T(U) == Total(pool, U, "discount")
           D == DOMAIN pool
<1>1. ASSUME NEW i \in D
      PROVE  /\ f[i] = pool[i].margin - lc * pool[i].contacts - ld * pool[i].discount
             /\ pool[i].margin \in Int /\ pool[i].contacts \in Int /\ pool[i].discount \in Int
             /\ f[i] \in Int
  <2>1. pool[i].margin \in Int /\ pool[i].contacts \in Int /\ pool[i].discount \in Int
    BY DEF IsPool, IsCandidate
  <2>2. f[i] = pool[i].margin - lc * pool[i].contacts - ld * pool[i].discount
    BY DEF Values, Reduced
  <2>3. lc * pool[i].contacts \in Int /\ ld * pool[i].discount \in Int
    BY <2>1
  <2> HIDE DEF f
  <2> QED BY <2>1, <2>2, <2>3
<1>2. /\ R({}) = 0 /\ M({}) = 0 /\ C({}) = 0 /\ T({}) = 0
      /\ \A U \in SUBSET D : R(U) \in Int /\ M(U) \in Int /\ C(U) \in Int /\ T(U) \in Int
      /\ \A U \in SUBSET D : \A i \in D \ U :
           /\ R(U \cup {i}) = f[i] + R(U)
           /\ M(U \cup {i}) = pool[i].margin + M(U)
           /\ C(U \cup {i}) = pool[i].contacts + C(U)
           /\ T(U \cup {i}) = pool[i].discount + T(U)
  <2>0. IsFiniteSet(D) /\ "margin" \in Fields /\ "contacts" \in Fields /\ "discount" \in Fields
    BY DEF IsPool, Fields
  <2>1. M({}) = 0 /\ C({}) = 0 /\ T({}) = 0
    BY <2>0, Totals
  <2>2. \A U \in SUBSET D : M(U) \in Int /\ C(U) \in Int /\ T(U) \in Int
    BY <2>0, Totals
  <2>3. \A U \in SUBSET D : \A i \in D \ U :
          /\ M(U \cup {i}) = pool[i].margin + M(U)
          /\ C(U \cup {i}) = pool[i].contacts + C(U)
          /\ T(U \cup {i}) = pool[i].discount + T(U)
    BY Zenon, <2>0, TotalWith
  <2> HIDE DEF f, D
  <2>4. R({}) = 0 /\ \A U \in SUBSET D : R(U) \in Int
    BY <1>1, <2>0, Sums
  <2>5. \A U \in SUBSET D : \A i \in D \ U : R(U \cup {i}) = f[i] + R(U)
    BY Zenon, <1>1, <2>0, SumWith
  <2> QED BY <2>1, <2>2, <2>3, <2>4, <2>5
<1> HIDE DEF R, M, C, T, f
<1> DEFINE Balanced(m, r, c, t) == m = r + lc * c + ld * t
           G == {U \in SUBSET D : Balanced(M(U), R(U), C(U), T(U))}
<1>3. {} \in G
  BY <1>2
<1>4. ASSUME NEW U \in SUBSET D, NEW x \in D \ U, U \in G
      PROVE  U \cup {x} \in G
  <2>1. /\ R(U \cup {x}) = f[x] + R(U) /\ M(U \cup {x}) = pool[x].margin + M(U)
        /\ C(U \cup {x}) = pool[x].contacts + C(U) /\ T(U \cup {x}) = pool[x].discount + T(U)
    BY <1>2
  <2>2. R(U) \in Int /\ M(U) \in Int /\ C(U) \in Int /\ T(U) \in Int
    BY <1>2
  <2>3. Balanced(M(U), R(U), C(U), T(U))
    BY <1>4
  <2>4. Balanced(pool[x].margin, f[x], pool[x].contacts, pool[x].discount)
    <3>1. ASSUME NEW m \in Int, NEW r \in Int, NEW c \in Int, NEW t \in Int,
                 r = m - lc * c - ld * t
          PROVE  Balanced(m, r, c, t)
      <4>1. lc * c \in Int /\ ld * t \in Int
        OBVIOUS
      <4> QED BY <3>1, <4>1
    <3> HIDE DEF Balanced
    <3> QED BY <1>1, <3>1
  <2>5. ASSUME NEW m \in Int, NEW r \in Int, NEW c \in Int, NEW t \in Int, Balanced(m, r, c, t),
               NEW n \in Int, NEW q \in Int, NEW d \in Int, NEW u \in Int, Balanced(n, q, d, u)
        PROVE  Balanced(m + n, r + q, c + d, t + u)
    <3>1. /\ lc * c \in Int /\ lc * d \in Int /\ lc * (c + d) = lc * c + lc * d
          /\ ld * t \in Int /\ ld * u \in Int /\ ld * (t + u) = ld * t + ld * u
      OBVIOUS
    <3> QED BY <2>5, <3>1
  <2> HIDE DEF Balanced
  <2>6. Balanced(pool[x].margin + M(U), f[x] + R(U), pool[x].contacts + C(U),
                 pool[x].discount + T(U))
    BY <1>1, <2>2, <2>3, <2>4, <2>5
  <2> QED BY <2>1, <2>6
<1>5. SUBSET D \subseteq G
  <2>1. IsFiniteSet(D)
    BY DEF IsPool
  <2> HIDE DEF G, D
  <2> QED BY <1>3, <1>4, <2>1, Grow
<1>6. S \in G
  <2> HIDE DEF G
  <2> QED BY <1>5
<1>7. R(S) = ReducedTotal(pool, S, lc, ld)
  BY DEF R, f, Values, ReducedTotal
<1> QED BY <1>2, <1>6, <1>7 DEF M, C, T

\* Weak duality: at any prices the relaxation's value bounds what a feasible choice
\* earns.
LEMMA DualBounds ==
  ASSUME NEW pool, IsPool(pool), Loners(pool), NEW b, IsBudgets(b),
         NEW lc \in Nat, NEW ld \in Nat,
         NEW S \in SUBSET DOMAIN pool, Feasible(pool, S, b)
  PROVE  /\ Dual(pool, b, lc, ld) \in Int
         /\ Total(pool, S, "margin") <= Dual(pool, b, lc, ld)
<1> DEFINE f == Values(pool, lc, ld)
           R == Select(pool, b, lc, ld)
<1>0. lc \in Int /\ ld \in Int /\ "contacts" \in Fields /\ "discount" \in Fields
  BY DEF Fields
<1>1. /\ R \in SUBSET Positive(pool, lc, ld) /\ R \in SUBSET DOMAIN pool
      /\ CapsHold(pool, R, b)
  BY <1>0, SelectKeepsCaps
<1>2. \A i \in DOMAIN pool : f[i] \in Int
  BY <1>0 DEF IsPool, IsCandidate, Reduced, Values
<1>3. OnePerCase(pool, S) /\ OnePerCase(pool, R) /\ \A k \in R : f[k] > 0
  BY <1>1 DEF OnePerCase, Feasible, CapsHold, Positive
<1>4. ASSUME NEW i \in S PROVE pool[i].contacts <= b.perCustomer
  <2> DEFINE own == {k \in S : pool[k].customer = pool[i].customer}
  <2>1. own \in SUBSET DOMAIN pool /\ i \in own /\ own \ {i} \in SUBSET DOMAIN pool
        /\ own \ {i} \in SUBSET own
    OBVIOUS
  <2>2. Total(pool, own, "contacts") <= b.perCustomer
    BY DEF Feasible, CustomerContacts
  <2> HIDE DEF own
  <2>3. Total(pool, own, "contacts") = pool[i]["contacts"] + Total(pool, own \ {i}, "contacts")
    BY <1>0, <2>1, Totals
  <2>4. 0 <= Total(pool, own \ {i}, "contacts") /\ Total(pool, own \ {i}, "contacts") \in Int
    BY <1>0, <2>1, TotalGrows, Totals DEF Scarce
  <2>5. pool[i].contacts \in Int /\ b.perCustomer \in Int
    BY DEF IsPool, IsCandidate, IsBudgets
  <2> QED BY <2>2, <2>3, <2>4, <2>5
<1>5. ASSUME NEW i \in S, f[i] > 0
      PROVE  \E k \in R : pool[k].case = pool[i].case /\ f[i] <= f[k]
  <2>1. i \in Positive(pool, lc, ld)
    BY <1>5 DEF Positive
  <2> QED BY <1>0, <1>4, <2>1, SelectServes
<1> HIDE DEF f, R
<1>6. SumFunctionOnSet(f, S) <= SumFunctionOnSet(f, R)
  BY <1>1, <1>2, <1>3, <1>5, WorthNoMore
<1>7. /\ ReducedTotal(pool, S, lc, ld) = SumFunctionOnSet(f, S)
      /\ ReducedTotal(pool, R, lc, ld) = SumFunctionOnSet(f, R)
  BY DEF ReducedTotal, f, Values
<1>8. /\ ReducedTotal(pool, S, lc, ld) \in Int
      /\ Total(pool, S, "margin") = ReducedTotal(pool, S, lc, ld)
           + lc * Total(pool, S, "contacts") + ld * Total(pool, S, "discount")
      /\ ReducedTotal(pool, R, lc, ld) \in Int
  BY <1>1, EarnsWhatItUses
<1>9. /\ Total(pool, S, "contacts") \in Int /\ Total(pool, S, "discount") \in Int
      /\ Total(pool, S, "contacts") <= b.contacts /\ Total(pool, S, "discount") <= b.discount
      /\ b.contacts \in Int /\ b.discount \in Int
  BY <1>0, Totals DEF Feasible, IsBudgets
<1>10. ASSUME NEW p \in Nat, NEW u \in Int, NEW v \in Int, u <= v
       PROVE  p * u \in Int /\ p * v \in Int /\ p * u <= p * v
  BY <1>10
<1>11. /\ lc * Total(pool, S, "contacts") <= lc * b.contacts
       /\ lc * Total(pool, S, "contacts") \in Int /\ lc * b.contacts \in Int
  BY <1>9, <1>10
<1>12. /\ ld * Total(pool, S, "discount") <= ld * b.discount
       /\ ld * Total(pool, S, "discount") \in Int /\ ld * b.discount \in Int
  BY <1>9, <1>10
<1>13. Dual(pool, b, lc, ld) = ReducedTotal(pool, R, lc, ld) + lc * b.contacts + ld * b.discount
  BY DEF Dual, R
<1>14. ReducedTotal(pool, S, lc, ld) <= ReducedTotal(pool, R, lc, ld)
  BY <1>6, <1>7
<1> DEFINE rs == ReducedTotal(pool, S, lc, ld)
           rr == ReducedTotal(pool, R, lc, ld)
           cs == lc * Total(pool, S, "contacts")
           cb == lc * b.contacts
           ds == ld * Total(pool, S, "discount")
           db == ld * b.discount
<1>15. rs \in Int /\ rr \in Int /\ cs \in Int /\ cb \in Int /\ ds \in Int /\ db \in Int
  BY <1>8, <1>11, <1>12
<1>16. rs <= rr /\ cs <= cb /\ ds <= db
  BY <1>11, <1>12, <1>14
<1>17. Total(pool, S, "margin") = rs + cs + ds /\ Dual(pool, b, lc, ld) = rr + cb + db
  BY <1>8, <1>13
<1> HIDE DEF rs, rr, cs, cb, ds, db
<1> QED BY <1>15, <1>16, <1>17

-----------------------------------------------------------------------------
(* The window of a day *)

WindowInv ==
  /\ cands \in Populations /\ budgets \in Authorised
  /\ batch = Allocate(cands, budgets)
  /\ funded \in SUBSET DOMAIN cands /\ Feasible(cands, funded, budgets)

\* A population is candidates at finitely many places.
LEMMA PopulationIsPool ==
  ASSUME NEW p \in Populations
  PROVE  IsPool(p)
<1>1. p \in Seq(Range(p)) /\ \A i \in DOMAIN p : IsCandidate(p[i])
  BY AdmissionAssumption
<1>2. PICK n \in Nat : DOMAIN p = 1 .. n
  BY <1>1
<1>3. IsFiniteSet(1 .. n) /\ 1 .. n \subseteq Int
  BY FS_Interval
<1> QED BY <1>1, <1>2, <1>3 DEF IsPool

\* An arrival joins only if it fits what is funded already.
LEMMA WindowInvHolds == Window => []WindowInv
<1>1. EmptyWindow => WindowInv
  <2>1. ASSUME EmptyWindow PROVE Feasible(cands, {}, budgets)
    BY <2>1, PopulationIsPool, NothingIsFeasible, AdmissionAssumption DEF EmptyWindow
  <2> QED BY <2>1 DEF EmptyWindow, WindowInv
<1>2. WindowInv /\ [Arrival]_window => WindowInv'
  <2> SUFFICES ASSUME WindowInv, [Arrival]_window PROVE WindowInv'
    OBVIOUS
  <2>1. CASE UNCHANGED window
    BY <2>1 DEF WindowInv, window
  <2>2. ASSUME NEW i \in DOMAIN cands, Offer(i) PROVE WindowInv'
    <3>1. UNCHANGED <<cands, budgets, batch>> /\ i \in DOMAIN cands
      BY <2>2 DEF Offer
    <3>2. CASE Answer(i) = "funded"
      <4>1. funded' = funded \cup {i}
        BY <2>2, <3>2 DEF Offer
      <4>2. IsPool(cands) /\ IsBudgets(budgets)
        BY PopulationIsPool, AdmissionAssumption DEF WindowInv
      <4>3. Fits(cands, funded, budgets, i)
        <5>1. /\ FitsCaps(cands, funded, budgets, i)
              /\ ~(Total(cands, funded, "contacts") + cands[i].contacts > budgets.contacts)
              /\ ~(Total(cands, funded, "discount") + cands[i].discount > budgets.discount)
          BY <3>2 DEF Answer
        <5>2. /\ Total(cands, funded, "contacts") \in Int
              /\ Total(cands, funded, "discount") \in Int
          BY <4>2, Totals DEF WindowInv, Fields
        <5>3. /\ cands[i].contacts \in Int /\ cands[i].discount \in Int
              /\ budgets.contacts \in Int /\ budgets.discount \in Int
          BY <4>2, <3>1 DEF IsPool, IsCandidate, IsBudgets
        <5> QED BY <5>1, <5>2, <5>3 DEF Fits
      <4>4. Feasible(cands, funded \cup {i}, budgets)
        BY <3>1, <4>2, <4>3, FitsJoin DEF WindowInv
      <4> QED BY <3>1, <4>1, <4>4 DEF WindowInv
    <3>3. CASE Answer(i) # "funded"
      <4>1. UNCHANGED funded
        BY <2>2, <3>3 DEF Offer
      <4> QED BY <3>1, <4>1 DEF WindowInv
    <3> QED BY <3>2, <3>3
  <2> QED BY <2>1, <2>2 DEF Arrival
<1> QED BY <1>1, <1>2, PTL DEF Window

\* "We do not get to exceed it" (lagrangian.py:604-606): whatever the candidates, the
\* budgets and the arrival order, neither the window nor the batch passes what the
\* merchant authorised.
THEOREM WindowKeepsBudgets == Window => []WithinBudgets
<1>1. WindowInv => WithinBudgets
  <2> SUFFICES ASSUME WindowInv PROVE WithinBudgets
    OBVIOUS
  <2>1. IsPool(cands) /\ IsBudgets(budgets)
    BY PopulationIsPool, AdmissionAssumption DEF WindowInv
  <2>2. Feasible(cands, batch.chosen, budgets)
    BY <2>1, AllocatesWithin DEF WindowInv
  <2> QED BY <2>2 DEF WindowInv, WithinBudgets
<1> QED BY <1>1, WindowInvHolds, PTL

\* "The Lagrangian dual is a provable upper bound on the true optimum"
\* (lagrangian.py:30-34), for any population in which no customer has two cases, any
\* budgets and whatever prices the bisection returned.
THEOREM DualBoundIsCertified == Window => []DualBoundsLoners
<1>1. WindowInv => DualBoundsLoners
  <2> SUFFICES ASSUME WindowInv, Loners(cands)
               PROVE  batch.dual >= Optimum(cands, budgets) - 1
    BY DEF DualBoundsLoners, Loners
  <2>1. IsPool(cands) /\ IsBudgets(budgets)
    BY PopulationIsPool, AdmissionAssumption DEF WindowInv
  <2>2. PICK lc \in Nat, ld \in Nat : batch.dual = Dual(cands, budgets, lc, ld)
    <3>1. batch.dual = Dual(cands, budgets, Multipliers(cands, budgets)[1],
                            Multipliers(cands, budgets)[2])
      BY DEF WindowInv, Allocate
    <3> QED BY <3>1, Priced
  <2> DEFINE choices == {S \in SUBSET DOMAIN cands : Feasible(cands, S, budgets)}
             margin == [S \in choices |-> Total(cands, S, "margin")]
             margins == {margin[S] : S \in choices}
  <2>3. IsFiniteSet(choices)
    <3>1. IsFiniteSet(DOMAIN cands)
      BY <2>1 DEF IsPool
    <3>2. IsFiniteSet(SUBSET DOMAIN cands)
      BY <3>1, FS_SUBSET
    <3> QED BY <3>2, FS_Subset
  <2>4. {} \in choices
    BY <2>1, NothingIsFeasible
  <2>5. \A S \in choices : margin[S] \in Int /\ margin[S] <= batch.dual
    <3>1. ASSUME NEW S \in choices
          PROVE  Total(cands, S, "margin") \in Int /\ Total(cands, S, "margin") <= batch.dual
      BY <2>1, <2>2, Totals, DualBounds DEF Fields
    <3> QED BY <3>1
  <2>6. batch.dual \in Int
    BY <2>1, <2>2, <2>4, DualBounds
  <2>7. margins \in SUBSET Int /\ margins # {} /\ IsFiniteSet(margins)
    <3> HIDE DEF choices, margin
    <3> QED BY <2>3, <2>4, <2>5, Image
  <2>8. Max(margins) \in margins
    <3> HIDE DEF margins
    <3> QED BY <2>7, Bounds
  <2>9. Optimum(cands, budgets) = Max(margins)
    <3>1. margins = {Total(cands, S, "margin") : S \in choices}
      OBVIOUS
    <3> QED BY <3>1 DEF Optimum
  <2>10. Max(margins) \in Int /\ Max(margins) <= batch.dual
    BY <2>5, <2>8
  <2> HIDE DEF margins
  <2> QED BY <2>6, <2>9, <2>10
<1> QED BY <1>1, WindowInvHolds, PTL

\* "This cannot fire on data" (lagrangian.py:563): it does not, as long as no customer
\* has two cases.
THEOREM LonersNeverRaise == Window => [](Loners(cands) => NeverRaises)
<1>1. WindowInv => (Loners(cands) => NeverRaises)
  <2> SUFFICES ASSUME WindowInv, Loners(cands)
               PROVE  ~(batch.dual < batch.margin - 1)
    BY DEF NeverRaises, Raises
  <2>1. IsPool(cands) /\ IsBudgets(budgets)
    BY PopulationIsPool, AdmissionAssumption DEF WindowInv
  <2>2. PICK l : l = Multipliers(cands, budgets)
    OBVIOUS
  <2>3. l[1] \in Nat /\ l[2] \in Nat
    BY <2>2, Priced
  <2>4. PICK knapsack \in SUBSET DOMAIN cands :
          /\ Feasible(cands, knapsack, budgets)
          /\ batch.margin = Total(cands, knapsack, "margin")
    <3>1. batch.margin = Total(cands, Knapsack(cands, budgets, l), "margin")
      BY <2>2 DEF WindowInv, Allocate
    <3> QED BY <2>1, <2>3, <3>1, KnapsackIsFeasible
  <2>5. batch.dual = Dual(cands, budgets, l[1], l[2])
    BY <2>2 DEF WindowInv, Allocate
  <2>6. batch.dual \in Int /\ batch.margin <= batch.dual
    BY <2>1, <2>3, <2>4, <2>5, DualBounds
  <2>7. batch.margin \in Int
    BY <2>1, <2>4, Totals DEF Fields
  <2> QED BY <2>6, <2>7
<1> QED BY <1>1, WindowInvHolds, PTL

-----------------------------------------------------------------------------
(* Lists *)

\* A list's indices have a greatest.
LEMMA LastIndex ==
  ASSUME NEW n \in Nat, NEW s \in SUBSET (1 .. n), s # {}
  PROVE  Max(s) \in s
<1>1. IsFiniteSet(1 .. n) /\ s \in SUBSET Int
  BY FS_Interval
<1>2. IsFiniteSet(s)
  BY <1>1, FS_Subset
<1> QED BY <1>1, <1>2, Bounds

\* A comprehension keeps only what it asks for.
LEMMA KeepWithin ==
  ASSUME NEW T, NEW seq \in Seq(T), NEW S
  PROVE  Keep(seq, S) \in Seq(T \cap S)
<1> DEFINE D == 1 .. Len(seq)
           V == Seq(T \cap S)
           With(kept, x) == IF x \in S THEN Append(kept, x) ELSE kept
           Kept(it, s) == IF s = {} THEN << >> ELSE With(it[s \ {Max(s)}], seq[Max(s)])
           iter == CHOOSE it : it = [s \in SUBSET D |-> Kept(it, s)]
<1>0. IsFiniteSet(D) /\ << >> \in V
  BY FS_Interval
<1>1. DOMAIN seq = D /\ IsFiniteSet(D) /\ Len(seq) \in Nat
  BY FS_Interval
<1>2. ASSUME NEW s \in SUBSET D, s # {}
      PROVE  Max(s) \in s /\ Max(s) \in D /\ seq[Max(s)] \in T
  <2>1. PICK m \in s : m = Max(s)
    BY <1>1, <1>2, LastIndex
  <2>2. m \in D /\ seq[m] \in T
    OBVIOUS
  <2> QED BY <2>1, <2>2
<1>3. ASSUME NEW kept \in V, NEW x \in T
      PROVE  With(kept, x) \in V
  BY <1>3
<1>4. \E it : it = [s \in SUBSET D |-> Kept(it, s)]
  <2> DEFINE pick == [s \in SUBSET D |-> Max(s)]
             base == [s \in SUBSET D |-> << >>]
             step == [p \in (SUBSET D) \X V |-> IF p[1] = {} THEN << >>
                                                ELSE With(p[2], seq[pick[p[1]]])]
             Stop == {{}}
  <2>1. base \in [SUBSET D -> V]
    OBVIOUS
  <2>2. step \in [(SUBSET D) \X V -> V]
    <3>1. ASSUME NEW p \in (SUBSET D) \X V
          PROVE  (IF p[1] = {} THEN << >> ELSE With(p[2], seq[pick[p[1]]])) \in V
      <4>1. CASE p[1] = {}
        BY <4>1
      <4>2. CASE p[1] # {}
        <5>1. p[1] \in SUBSET D /\ p[2] \in V /\ pick[p[1]] = Max(p[1])
          OBVIOUS
        <5>2. seq[pick[p[1]]] \in T
          BY <1>2, <4>2, <5>1
        <5> HIDE DEF With, pick, V
        <5> QED BY <1>3, <4>2, <5>1, <5>2
      <4> QED BY <4>1, <4>2
    <3> HIDE DEF With
    <3> QED BY <3>1
  <2>3. {} \in Stop /\ \A s \in SUBSET D : s \notin Stop => pick[s] \in s
    BY <1>2
  <2>4. PICK it : Unrolls(it, D, V, Stop, base, step, pick)
    <3> HIDE DEF base, step, Stop, V, pick, D
    <3>1. Recursion(D, V, Stop, base, step, pick)
      BY <1>1, <2>1, <2>2, <2>3 DEF Recursion
    <3> QED BY <3>1, Iterates
  <2>5. ASSUME NEW s \in SUBSET D
        PROVE  it[s] = Kept(it, s)
    <3>1. CASE s = {}
      BY <2>4, <3>1 DEF Unrolls
    <3>2. CASE s # {}
      <4>1. it[s] = step[<<s, it[s \ {pick[s]}]>>] /\ pick[s] = Max(s)
        BY <2>4, <3>2 DEF Unrolls
      <4>2. s \ {pick[s]} \in SUBSET D
        OBVIOUS
      <4>3. it[s \ {pick[s]}] \in V
        <5> HIDE DEF V, pick
        <5> QED BY <2>4, <4>2 DEF Unrolls
      <4>4. step[<<s, it[s \ {pick[s]}]>>] = With(it[s \ {pick[s]}], seq[pick[s]])
        <5>1. <<s, it[s \ {pick[s]}]>> \in (SUBSET D) \X V
          <6> HIDE DEF V, D, pick
          <6> QED BY <4>3
        <5> HIDE DEF With, V, pick, D
        <5> QED BY <3>2, <5>1
      <4> HIDE DEF pick, step, With
      <4> QED BY <3>2, <4>1, <4>4
    <3> QED BY <3>1, <3>2
  <2>6. it = [s \in SUBSET D |-> Kept(it, s)]
    <3>1. it = [s \in SUBSET D |-> it[s]]
      <4> HIDE DEF V
      <4> QED BY <2>4 DEF Unrolls
    <3> HIDE DEF Kept
    <3> QED BY <2>5, <3>1
  <2> QED BY <2>6
<1>5. iter = [s \in SUBSET D |-> Kept(iter, s)]
  <2> HIDE DEF Kept
  <2> QED BY <1>4
<1>6. Keep(seq, S) = iter[D]
  BY <1>1 DEF Keep, FoldLeft, MapThenFoldSet
<1> HIDE DEF iter
<1> DEFINE G == {s \in SUBSET D : iter[s] \in V}
<1>7. ASSUME NEW s \in SUBSET D, s \notin G
      PROVE  \E x \in s : s \ {x} \notin G
  <2>1. iter[s] = Kept(iter, s)
    BY <1>5
  <2>2. s # {}
    <3> HIDE DEF V, With
    <3> QED BY <1>0, <1>7, <2>1
  <2>3. PICK x \in s : x = Max(s) /\ seq[x] \in T
    BY <1>2, <2>2
  <2>4. iter[s] = With(iter[s \ {x}], seq[x])
    BY <2>1, <2>2, <2>3
  <2>5. s \ {x} \in SUBSET D
    OBVIOUS
  <2>6. ASSUME iter[s \ {x}] \in V PROVE FALSE
    <3> HIDE DEF With, V
    <3> QED BY <1>3, <1>7, <2>3, <2>4, <2>6
  <2> QED BY <2>5, <2>6
<1>8. SUBSET D \subseteq G
  <2> HIDE DEF G, D
  <2> QED BY <1>0, <1>7, Peel
<1>9. D \in G
  <2> HIDE DEF G
  <2> QED BY <1>8
<1> QED BY <1>6, <1>9

-----------------------------------------------------------------------------
(* What a cycle proposes *)

\* A case's offers, at some hours.
Offers(row, ats) ==
  {Candidate(row, kind, ch, at, pct) :
     kind \in ActionKinds, ch \in Channels, at \in ats, pct \in {0, 5, 10, 15, 25}}

\* An offer is about its own case; its discount is its tier of the amount.
LEMMA OfferFields ==
  ASSUME NEW row, row.amount \in Nat, NEW ats, NEW o \in Offers(row, ats)
  PROVE  /\ o.case = row.id /\ o.customer = row.customer /\ o.amount = row.amount
         /\ o.kind \in ActionKinds /\ o.channel \in Channels
         /\ o.pct \in {0, 5, 10, 15, 25} /\ o.discount = (row.amount \div 100) * o.pct
         /\ o.discount \in Nat
<1>1. PICK kind \in ActionKinds, ch \in Channels, at \in ats, pct \in {0, 5, 10, 15, 25} :
        o = Candidate(row, kind, ch, at, pct)
  BY DEF Offers
<1>2. row.amount \div 100 \in Nat
  OBVIOUS
<1>3. (row.amount \div 100) * pct \in Nat
  BY <1>2
<1> QED BY <1>1, <1>3 DEF Candidate

\* The generator makes nothing else.
LEMMA GeneratesOffers ==
  ASSUME NEW row, row.consent \subseteq Channels, NEW p, NEW asOf, NEW curve
  PROVE  \E ats : Generate(row, p, asOf, curve) \in Seq(Offers(row, ats))
<1> DEFINE slot == BestSlot(asOf, row.decline, curve)
           noticed == IF slot > asOf + NoticeHours THEN slot ELSE asOf + NoticeHours
           at == ContactHour(asOf)
           ats == {asOf, slot, noticed, at}
           T == Offers(row, ats)
<1>1. ASSUME NEW kind \in ActionKinds, NEW ch \in Channels, NEW when \in ats,
             NEW pct \in {0, 5, 10, 15, 25}
      PROVE  Candidate(row, kind, ch, when, pct) \in T
  <2> HIDE DEF ats
  <2> QED BY DEF Offers
<1>2. asOf \in ats /\ slot \in ats /\ noticed \in ats /\ at \in ats
  OBVIOUS
<1>3. {"suppress", "silent_retry", "schedule_debit", "message", "discount_offer",
       "voice_call"} \subseteq ActionKinds
      /\ {"none", "email", "sms", "whatsapp", "voice"} = Channels
  BY DEF ActionKinds, Channels
<1>4. <<Candidate(row, "suppress", "none", asOf, 0)>> \in Seq(T)
  <2>1. Candidate(row, "suppress", "none", asOf, 0) \in T
    BY <1>1, <1>2, <1>3
  <2> HIDE DEF T
  <2> QED BY <2>1
<1>5. MoneyMoving(row, asOf, curve) \in Seq(T)
  <2>1. /\ Candidate(row, "silent_retry", "none", slot, 0) \in T
        /\ Candidate(row, "schedule_debit", "none", noticed, 0) \in T
    <3> HIDE DEF T, ats, slot, noticed
    <3> QED BY <1>1, <1>2, <1>3
  <2> HIDE DEF T
  <2>2. /\ << >> \in Seq(T)
        /\ <<Candidate(row, "silent_retry", "none", slot, 0),
             Candidate(row, "schedule_debit", "none", noticed, 0)>> \in Seq(T)
    BY <2>1
  <2>3. MoneyMoving(row, asOf, curve) =
          IF row.rail \in MandateRails /\ Lookup(row.decline).silently
               /\ Lookup(row.decline).transience # "permanent"
          THEN <<Candidate(row, "silent_retry", "none", slot, 0),
                 Candidate(row, "schedule_debit", "none", noticed, 0)>>
          ELSE << >>
    BY DEF MoneyMoving
  <2> QED BY <2>2, <2>3
<1>6. UsableMessaging(row, p) \in Seq(Channels)
  <2>1. Messaging \in Seq(Channels)
    BY <1>3 DEF Messaging
  <2>2. UsableMessaging(row, p)
          \in Seq(Channels \cap {ch \in Channels : Usable(row, p, ch)})
    BY <2>1, KeepWithin DEF UsableMessaging
  <2>3. Channels \cap {ch \in Channels : Usable(row, p, ch)} \subseteq Channels
    OBVIOUS
  <2> QED BY <2>2, <2>3
<1>7. Messages(row, p, at) \in Seq(T)
  <2> DEFINE chs == UsableMessaging(row, p)
  <2>1. chs \in Seq(Channels) /\ DOMAIN chs = 1 .. Len(chs) /\ Len(chs) \in Nat
    BY <1>6
  <2> HIDE DEF chs
  <2>2. \A i \in 1 .. Len(chs) : Candidate(row, "message", chs[i], at, 0) \in T
    <3>1. ASSUME NEW i \in 1 .. Len(chs)
          PROVE  Candidate(row, "message", chs[i], at, 0) \in T
      <4>1. chs[i] \in Channels
        BY <2>1
      <4> HIDE DEF T, ats, at
      <4> QED BY <1>1, <1>2, <1>3, <4>1
    <3> QED BY <3>1
  <2>3. [i \in DOMAIN chs |-> Candidate(row, "message", chs[i], at, 0)] \in Seq(T)
    <3> HIDE DEF T, at
    <3> QED BY <2>1, <2>2
  <2> QED BY <2>3 DEF Messages, chs
<1>8. Discounts(row, p, at) \in Seq(T)
  <2> DEFINE tiers == Keep(Tiers, 0 .. p.maxPct)
             ch == CHOOSE c \in Preferred(row, p) : TRUE
  <2>1. tiers \in Seq({5, 10, 15, 25})
    <3>1. Tiers \in Seq({5, 10, 15, 25})
      BY DEF Tiers
    <3>2. tiers \in Seq({5, 10, 15, 25} \cap (0 .. p.maxPct))
      <4> HIDE DEF tiers
      <4>1. tiers = Keep(Tiers, 0 .. p.maxPct)
        BY DEF tiers
      <4> QED BY <3>1, <4>1, KeepWithin
    <3>3. {5, 10, 15, 25} \cap (0 .. p.maxPct) \subseteq {5, 10, 15, 25}
      OBVIOUS
    <3> HIDE DEF tiers
    <3> QED BY <3>2, <3>3
  <2>2. CASE Preferred(row, p) = {}
    <3>1. Discounts(row, p, at) = << >>
      BY <2>2 DEF Discounts
    <3> HIDE DEF T
    <3> QED BY <3>1
  <2>3. CASE Preferred(row, p) # {}
    <3>1. Preferred(row, p) \subseteq Channels
      <4>1. Usable(row, p, row.preferred) => row.preferred \in Channels
        BY DEF Usable
      <4>2. UsableMessaging(row, p) # << >> => UsableMessaging(row, p)[1] \in Channels
        BY <1>6
      <4> QED BY <4>1, <4>2 DEF Preferred
    <3>2. ch \in Channels
      BY <2>3, <3>1
    <3> HIDE DEF tiers, ch
    <3>3. DOMAIN tiers = 1 .. Len(tiers) /\ Len(tiers) \in Nat
      BY <2>1
    <3>4. ASSUME NEW i \in 1 .. Len(tiers)
          PROVE  Candidate(row, "discount_offer", ch, at, tiers[i]) \in T
      <4>1. tiers[i] \in {0, 5, 10, 15, 25}
        BY <2>1
      <4> HIDE DEF T, ats, at
      <4> QED BY <1>1, <1>2, <1>3, <3>2, <4>1
    <3>5. [i \in DOMAIN tiers |-> Candidate(row, "discount_offer", ch, at, tiers[i])] \in Seq(T)
      <4> HIDE DEF T, at
      <4> QED BY <3>3, <3>4
    <3>6. Discounts(row, p, at) =
            [i \in DOMAIN tiers |-> Candidate(row, "discount_offer", ch, at, tiers[i])]
      BY <2>3 DEF Discounts, tiers, ch
    <3> QED BY <3>5, <3>6
  <2> QED BY <2>2, <2>3
<1>9. Voice(row, p, at) \in Seq(T)
  <2>1. Candidate(row, "voice_call", "voice", at, 0) \in T
    <3> HIDE DEF T, ats, at
    <3> QED BY <1>1, <1>2, <1>3
  <2> HIDE DEF T, at
  <2> QED BY <2>1 DEF Voice
<1>10. Generate(row, p, asOf, curve) \in Seq(T)
  <2> DEFINE mm == MoneyMoving(row, asOf, curve)
             ms == Messages(row, p, at)
             ds == Discounts(row, p, at)
             v == Voice(row, p, at)
             no == <<Candidate(row, "suppress", "none", asOf, 0)>>
  <2>1. Generate(row, p, asOf, curve) = no \o mm \o ms \o ds \o v
    BY DEF Generate
  <2> HIDE DEF T, mm, ms, ds, v, no
  <2>2. no \in Seq(T) /\ mm \in Seq(T) /\ ms \in Seq(T) /\ ds \in Seq(T) /\ v \in Seq(T)
    BY <1>4, <1>5, <1>7, <1>8, <1>9 DEF mm, ms, ds, v, no
  <2> QED BY <2>1, <2>2
<1> QED BY <1>10

\* Every arm scores every action.
LEMMA ScoresAreNumbers ==
  ASSUME NEW s, IsScorer(s), NEW key, key.kind \in ActionKinds, NEW code
  PROVE  Uplift(s, key, code) \in Int
<1>0. PICK kind : kind = key.kind
  OBVIOUS
<1>1. ReasonCodeScorer(kind, code) \in Int
  <2>1. \A x : ByTransience(x) \in Nat
    BY DEF ByTransience
  <2> DEFINE base == ByTransience(Lookup(code).transience)
  <2>2. base \in Nat /\ base \div 2 \in Nat
    BY <2>1
  <2> HIDE DEF base
  <2>3. ReasonCodeScorer(kind, code) =
          IF kind = "suppress" THEN 0
          ELSE IF kind = "silent_retry" /\ Lookup(code).silently THEN base + base \div 2
          ELSE base
    BY DEF ReasonCodeScorer, base
  <2>4. CASE kind = "suppress"
    BY <2>3, <2>4
  <2>5. CASE kind # "suppress"
    BY <2>2, <2>3, <2>5
  <2> QED BY <2>4, <2>5
<1>2. CASE s.name \in {"uplift", "propensity"}
  <2>1. Uplift(s, key, code) = ModelScorer(s.value, key)
    BY <1>2 DEF Uplift
  <2> QED BY <1>2, <2>1 DEF IsScorer, ModelScorer, ZeroSuppress
<1>3. CASE s.name = "constant"
  BY <1>3, <1>0 DEF IsScorer, Uplift, ConstantScorer
<1>4. CASE s.name = "reason_code"
  BY <1>0, <1>1, <1>4 DEF Uplift
<1>5. CASE s.name = "retry_only"
  BY <1>5 DEF IsScorer, Uplift, RetryOnlyScorer
<1>6. CASE s.name = "zero"
  BY <1>6 DEF Uplift, ZeroScorer
<1> QED BY <1>2, <1>3, <1>4, <1>5, <1>6 DEF IsScorer, Arms

\* A stored cap is clamped whatever it was.
LEMMA CapIsANumber ==
  ASSUME NEW packs, IsFiniteSet(packs), \A pack \in packs : IsPack(pack)
  PROVE  LoadPolicy(packs).cap \in Int
<1>1. CASE Active(packs) = {}
  BY <1>1 DEF LoadPolicy, DefaultPolicy
<1>2. CASE Active(packs) # {}
  <2> DEFINE version == [pack \in packs |-> pack.version]
             versions == {version[pack] : pack \in Active(packs)}
             newest == CHOOSE p \in Active(packs) :
                         \A q \in Active(packs) : q.version <= p.version
  <2>1. Active(packs) \in SUBSET packs
    BY DEF Active
  <2>2. IsFiniteSet(versions) /\ versions \in SUBSET Int /\ versions # {}
    <3>1. IsFiniteSet(Active(packs))
      BY <2>1, FS_Subset
    <3>2. IsFiniteSet(versions)
      <4> HIDE DEF version
      <4> QED BY <3>1, Image
    <3>3. \A pack \in Active(packs) : version[pack] \in Int
      BY <2>1 DEF IsPack
    <3> HIDE DEF version
    <3> QED BY <1>2, <3>2, <3>3
  <2>3. Max(versions) \in versions /\ \A v \in versions : v <= Max(versions)
    <3> HIDE DEF versions
    <3> QED BY <2>2, Bounds
  <2>4. PICK p \in Active(packs) : version[p] = Max(versions)
    BY <2>3
  <2>5. \A q \in Active(packs) : version[q] <= version[p]
    BY <2>3, <2>4
  <2>6. \A q \in Active(packs) : q.version <= p.version
    BY <2>1, <2>5
  <2>7. newest \in packs
    BY <2>1, <2>6
  <2> HIDE DEF newest
  <2>8. LoadPolicy(packs) = Compile(newest.compiled)
    BY <1>2 DEF LoadPolicy, newest
  <2>9. Compile(newest.compiled).cap \in Int
    <3>1. "cap" \in DOMAIN newest.compiled => newest.compiled.cap \in Int
      BY <2>7 DEF IsPack
    <3> QED BY <3>1 DEF Compile, Clamp, DefaultPolicy
  <2> QED BY <2>8, <2>9
<1> QED BY <1>1, <1>2

\* So does the margin of an offer.
LEMMA MarginIsANumber ==
  ASSUME NEW uplift \in Int, NEW amount \in Nat, NEW mdr \in Int, NEW discount \in Int,
         NEW cost \in Int
  PROVE  ExpectedMargin(uplift, amount, mdr, discount, cost) \in Int
<1>1. amount \div 10000 \in Int /\ 100 - mdr \in Int
  OBVIOUS
<1>2. (amount \div 10000) * uplift \in Int
  BY <1>1
<1>3. (amount \div 10000) * uplift * (100 - mdr) \in Int
  BY <1>1, <1>2
<1>4. ((amount \div 10000) * uplift * (100 - mdr)) \div 100 \in Int
  <2> DEFINE x == (amount \div 10000) * uplift * (100 - mdr)
  <2> HIDE DEF x
  <2>1. x \in Int => x \div 100 \in Int
    OBVIOUS
  <2> QED BY <1>3, <2>1 DEF x
<1> DEFINE gain == ((amount \div 10000) * uplift * (100 - mdr)) \div 100
<1>5. gain - discount - cost \in Int
  <2> HIDE DEF gain
  <2>1. gain \in Int
    BY <1>4 DEF gain
  <2> QED BY <2>1
<1> QED BY <1>5 DEF ExpectedMargin

\* A day is planned from rows and offers like these.
Planned ==
  /\ book \in Books /\ IsScorer(scorer) /\ policy.cap \in Int
  /\ limits.contact \in Nat /\ limits.discount \in Nat
  /\ ledger.contact \in Nat /\ ledger.discount \in Nat
  /\ \A c \in Cases : \E ats : proposals[c] \in Seq(Offers(book[c], ats))

\* What a cycle loads is a row, and its limits and packs are of their types.
LEMMA RowsOfTheBook ==
  ASSUME Planned
  PROVE  /\ IsFiniteSet(Cases) /\ Cases \subseteq Nat /\ Loaded \subseteq Cases
         /\ \A c \in Cases : book[c].id = c /\ IsRow(book[c])
BY PlanningAssumption DEF Planned, Cases, Loaded

\* What an offer is worth is a number.
LEMMA OfferIsScored ==
  ASSUME Planned, NEW c \in Cases, NEW ats, NEW o \in Offers(book[c], ats)
  PROVE  MarginOf(c, o) \in Int /\ UpliftOf(c, o) \in Int /\ ChannelCost[o.channel] \in Nat
<1>1. IsRow(book[c])
  BY RowsOfTheBook
<1>2. o.kind \in ActionKinds /\ o.channel \in Channels /\ o.amount \in Nat /\ o.discount \in Nat
  BY <1>1, OfferFields DEF IsRow
<1>3. UpliftOf(c, o) \in Int
  <2>1. KeyFor(o).kind \in ActionKinds
    BY <1>2 DEF KeyFor
  <2> QED BY <2>1, ScoresAreNumbers DEF UpliftOf, Planned
<1>4. ChannelCost[o.channel] \in Nat
  BY <1>2 DEF ChannelCost, Channels
<1>5. book[c].mdr \in Int
  BY <1>1 DEF IsRow
<1> DEFINE fee == ChannelCost[o.channel]
           up == UpliftOf(c, o)
<1>6. fee \in Int /\ up \in Int /\ o.discount \in Int
  BY <1>2, <1>3, <1>4
<1> HIDE DEF fee, up
<1>7. ExpectedMargin(up, o.amount, book[c].mdr, o.discount, fee) \in Int
  BY <1>2, <1>5, <1>6, MarginIsANumber
<1> QED BY <1>3, <1>4, <1>7 DEF MarginOf, fee, up

\* A candidate as the knapsack is given it: an offer of a case that is open.
IsEntry(e) ==
  /\ e.case \in Loaded /\ e.customer = book[e.case].customer /\ IsCandidate(e)
  /\ e.contacts = IF ContactsCustomer(e.kind) THEN 1 ELSE 0
  /\ e.from.case = e.case /\ e.from.customer = e.customer
  /\ e.from.kind = e.kind /\ e.from.discount = e.discount

\* The entries of one case are offers of it, and finitely many.
LEMMA EntriesOfACase ==
  ASSUME Planned, NEW c \in Loaded
  PROVE  /\ ForAllocator(c) \in Seq(Range(ForAllocator(c)))
         /\ \A e \in Range(ForAllocator(c)) : IsEntry(e) /\ e.case = c
<1> DEFINE wanted == {cand \in Range(proposals[c]) :
                        /\ cand.kind # "suppress"
                        /\ is_feasible(Request(c, cand), policy, Context(c))}
           feasible == Keep(proposals[c], wanted)
           Entry(i) == [case |-> c, customer |-> feasible[i].customer,
                        kind |-> feasible[i].kind, margin |-> MarginOf(c, feasible[i]),
                        contacts |-> IF IsContact(feasible[i]) THEN 1 ELSE 0,
                        discount |-> feasible[i].discount,
                        cost |-> ChannelCost[feasible[i].channel],
                        from |-> Indexed(feasible, feasible[i])]
<1>1. c \in Cases /\ book[c].id = c /\ IsRow(book[c])
  BY RowsOfTheBook
<1>2. PICK ats : proposals[c] \in Seq(Offers(book[c], ats))
  BY <1>1 DEF Planned
<1>3. feasible \in Seq(Offers(book[c], ats) \cap wanted)
  <2> HIDE DEF wanted
  <2> QED BY <1>2, KeepWithin
<1>4. ForAllocator(c) = [i \in DOMAIN feasible |-> Entry(i)]
  BY DEF ForAllocator
<1> HIDE DEF feasible
<1>5. PICK n \in Nat : DOMAIN feasible = 1 .. n
  BY <1>3
<1>6. ASSUME NEW i \in DOMAIN feasible
      PROVE  /\ feasible[i] \in Offers(book[c], ats)
             /\ \E j \in DOMAIN feasible :
                  /\ Indexed(feasible, feasible[i]) = feasible[j]
                  /\ feasible[j].kind = feasible[i].kind
                  /\ feasible[j].discount = feasible[i].discount
  <2>1. feasible[i] \in Offers(book[c], ats)
    BY <1>3
  <2> DEFINE same == {j \in DOMAIN feasible :
                        /\ feasible[j].kind = feasible[i].kind
                        /\ feasible[j].channel = feasible[i].channel
                        /\ feasible[j].discount = feasible[i].discount}
  <2>2. same \in SUBSET (1 .. n) /\ same # {}
    BY <1>5
  <2>3. IsFiniteSet(same) /\ same \in SUBSET Int
    <3> DEFINE N == 1 .. n
    <3>1. IsFiniteSet(N) /\ N \in SUBSET Int
      BY FS_Interval
    <3>2. same \in SUBSET N
      BY <2>2
    <3> HIDE DEF same, N
    <3> QED BY <3>1, <3>2, FS_Subset
  <2>4. Min(same) \in same
    <3> HIDE DEF same
    <3> QED BY <2>2, <2>3, Bounds
  <2>5. Indexed(feasible, feasible[i]) = feasible[Min(same)]
    BY DEF Indexed
  <2>6. PICK j \in same : Indexed(feasible, feasible[i]) = feasible[j]
    <3> HIDE DEF same
    <3> QED BY <2>4, <2>5
  <2> QED BY <2>1, <2>6
<1>7. ASSUME NEW i \in DOMAIN feasible
      PROVE  IsEntry(Entry(i)) /\ Entry(i).case = c
  <2>1. PICK o \in Offers(book[c], ats) : o = feasible[i]
    BY <1>6
  <2>2. PICK j \in DOMAIN feasible : /\ Indexed(feasible, o) = feasible[j]
                                    /\ feasible[j].kind = o.kind
                                    /\ feasible[j].discount = o.discount
    BY <1>6, <2>1
  <2>3. PICK f \in Offers(book[c], ats) : f = feasible[j]
    BY <1>6
  <2>4. /\ o.case = c /\ o.customer = book[c].customer /\ o.discount \in Nat
        /\ f.case = c /\ f.customer = book[c].customer
    BY <1>1, OfferFields DEF IsRow
  <2>5. MarginOf(c, o) \in Int /\ ChannelCost[o.channel] \in Nat
    BY <1>1, OfferIsScored
  <2> DEFINE e == [case |-> c, customer |-> o.customer, kind |-> o.kind,
                   margin |-> MarginOf(c, o), contacts |-> IF IsContact(o) THEN 1 ELSE 0,
                   discount |-> o.discount, cost |-> ChannelCost[o.channel], from |-> f]
  <2>6. Entry(i) = e
    BY <2>1, <2>2, <2>3
  <2>7. /\ e.case = c /\ e.customer = o.customer /\ e.kind = o.kind /\ e.from = f
        /\ e.margin \in Int /\ e.discount = o.discount /\ e.cost \in Nat
        /\ e.contacts = IF ContactsCustomer(o.kind) THEN 1 ELSE 0
    BY <2>5 DEF IsContact
  <2> HIDE DEF e, Entry
  <2>8. IsCandidate(e)
    BY <2>4, <2>7 DEF IsCandidate
  <2>9. IsEntry(e)
    BY <2>2, <2>3, <2>4, <2>7, <2>8 DEF IsEntry
  <2> QED BY <2>6, <2>7, <2>9
<1>8. Range(ForAllocator(c)) = {Entry(i) : i \in DOMAIN feasible}
  <2> HIDE DEF Entry
  <2> QED BY <1>4 DEF Range
<1>9. ForAllocator(c) \in Seq(Range(ForAllocator(c)))
  <2> DEFINE E == Range(ForAllocator(c))
  <2>1. \A i \in 1 .. n : Entry(i) \in E
    <3> HIDE DEF Entry
    <3> QED BY <1>5, <1>8
  <2> HIDE DEF E, Entry
  <2>2. [i \in 1 .. n |-> Entry(i)] \in Seq(E)
    BY <2>1
  <2> QED BY <1>4, <1>5, <2>2 DEF E
<1>10. \A e \in Range(ForAllocator(c)) : IsEntry(e) /\ e.case = c
  <2> HIDE DEF Entry
  <2> QED BY <1>7, <1>8
<1> QED BY <1>9, <1>10

\* All of them, case after case, are what the knapsack is given.
LEMMA EntriesOfAll ==
  ASSUME Planned
  PROVE  \E T : Fundable \in Seq(T) /\ \A e \in T : IsEntry(e)
<1> DEFINE T == UNION {Range(ForAllocator(c)) : c \in Loaded}
           V == Seq(T)
           Joined(it, s) == IF s = {} THEN << >> ELSE it[s \ {Max(s)}] \o ForAllocator(Max(s))
           iter == CHOOSE it : it = [s \in SUBSET Loaded |-> Joined(it, s)]
<1>1. IsFiniteSet(Loaded) /\ Loaded \in SUBSET Int
  BY RowsOfTheBook, FS_Subset
<1>2. ASSUME NEW s \in SUBSET Loaded, s # {}
      PROVE  Max(s) \in s
  <2>1. s \in SUBSET Int /\ IsFiniteSet(s)
    BY <1>1, FS_Subset
  <2> QED BY <1>2, <2>1, Bounds
<1>3. ASSUME NEW c \in Loaded
      PROVE  ForAllocator(c) \in V
  <2>1. Range(ForAllocator(c)) \subseteq T
    OBVIOUS
  <2>2. ForAllocator(c) \in Seq(Range(ForAllocator(c)))
    BY EntriesOfACase
  <2> HIDE DEF T
  <2> QED BY <2>1, <2>2
<1>4. ASSUME NEW before \in V, NEW c \in Loaded
      PROVE  before \o ForAllocator(c) \in V
  <2> HIDE DEF T
  <2> QED BY <1>3
<1>5. << >> \in V
  <2> HIDE DEF T
  <2> QED OBVIOUS
<1> HIDE DEF V, T
<1>6. \E it : it = [s \in SUBSET Loaded |-> Joined(it, s)]
  <2> DEFINE pick == [s \in SUBSET Loaded |-> Max(s)]
             base == [s \in SUBSET Loaded |-> << >>]
             After(before, c) == before \o ForAllocator(c)
             step == [p \in (SUBSET Loaded) \X V |-> IF p[1] = {} THEN << >>
                                                     ELSE After(p[2], pick[p[1]])]
             Stop == {{}}
  <2>1. base \in [SUBSET Loaded -> V]
    BY <1>5
  <2>2. step \in [(SUBSET Loaded) \X V -> V]
    <3>1. ASSUME NEW p \in (SUBSET Loaded) \X V
          PROVE  (IF p[1] = {} THEN << >> ELSE After(p[2], pick[p[1]])) \in V
      <4>1. CASE p[1] = {}
        BY <1>5, <4>1
      <4>2. CASE p[1] # {}
        <5>1. p[1] \in SUBSET Loaded /\ p[2] \in V /\ pick[p[1]] = Max(p[1])
          OBVIOUS
        <5>2. pick[p[1]] \in Loaded
          BY <1>2, <4>2, <5>1
        <5> HIDE DEF pick
        <5> QED BY <1>4, <4>2, <5>1, <5>2
      <4> QED BY <4>1, <4>2
    <3> HIDE DEF After
    <3> QED BY <3>1
  <2>3. {} \in Stop /\ \A s \in SUBSET Loaded : s \notin Stop => pick[s] \in s
    BY <1>2
  <2>4. PICK it : Unrolls(it, Loaded, V, Stop, base, step, pick)
    <3> HIDE DEF base, step, Stop, pick
    <3>1. Recursion(Loaded, V, Stop, base, step, pick)
      BY <1>1, <2>1, <2>2, <2>3 DEF Recursion
    <3> QED BY <3>1, Iterates
  <2>5. ASSUME NEW s \in SUBSET Loaded
        PROVE  it[s] = Joined(it, s)
    <3>1. CASE s = {}
      BY <2>4, <3>1 DEF Unrolls
    <3>2. CASE s # {}
      <4>1. it[s] = step[<<s, it[s \ {pick[s]}]>>] /\ pick[s] = Max(s)
        BY <2>4, <3>2 DEF Unrolls
      <4>2. s \ {pick[s]} \in SUBSET Loaded
        OBVIOUS
      <4>3. it[s \ {pick[s]}] \in V
        <5> HIDE DEF pick
        <5> QED BY <2>4, <4>2 DEF Unrolls
      <4>4. step[<<s, it[s \ {pick[s]}]>>] = After(it[s \ {pick[s]}], pick[s])
        <5>1. <<s, it[s \ {pick[s]}]>> \in (SUBSET Loaded) \X V
          <6> HIDE DEF pick
          <6> QED BY <4>3
        <5> HIDE DEF After, pick
        <5> QED BY <3>2, <5>1
      <4> HIDE DEF pick, step
      <4> QED BY <3>2, <4>1, <4>4
    <3> QED BY <3>1, <3>2
  <2>6. it = [s \in SUBSET Loaded |-> Joined(it, s)]
    <3>1. it = [s \in SUBSET Loaded |-> it[s]]
      BY <2>4 DEF Unrolls
    <3> HIDE DEF Joined
    <3> QED BY <2>5, <3>1
  <2> QED BY <2>6
<1>7. iter = [s \in SUBSET Loaded |-> Joined(iter, s)]
  <2> HIDE DEF Joined
  <2> QED BY <1>6
<1>8. Fundable = iter[Loaded]
  BY DEF Fundable, MapThenFoldSet
<1> HIDE DEF iter
<1> DEFINE G == {s \in SUBSET Loaded : iter[s] \in V}
<1>9. ASSUME NEW s \in SUBSET Loaded, s \notin G
      PROVE  \E x \in s : s \ {x} \notin G
  <2>1. iter[s] = Joined(iter, s)
    BY <1>7
  <2>2. s # {}
    BY <1>5, <1>9, <2>1
  <2>3. PICK x \in s : x = Max(s)
    BY <1>2, <2>2
  <2>4. iter[s] = iter[s \ {x}] \o ForAllocator(x)
    BY <2>1, <2>2, <2>3
  <2>5. x \in Loaded
    OBVIOUS
  <2> QED BY <1>4, <1>9, <2>4, <2>5
<1>10. SUBSET Loaded \subseteq G
  <2> HIDE DEF G
  <2> QED BY <1>1, <1>9, Peel
<1>11. Loaded \in G
  <2> HIDE DEF G
  <2> QED BY <1>10
<1>12. \A e \in T : IsEntry(e)
  BY EntriesOfACase DEF T
<1> QED BY <1>8, <1>11, <1>12 DEF V

-----------------------------------------------------------------------------
(* What is done about what was funded *)

\* A sum is one over the elements that have something to add to it.
LEMMA Backed ==
  ASSUME NEW pool, IsPool(pool), NEW field \in Scarce, NEW J \in SUBSET DOMAIN pool,
         NEW E, IsFiniteSet(E), NEW f, NEW back,
         \A a \in E : f[a] \in Nat /\ \E i \in J : back[i] = a /\ f[a] <= pool[i][field]
  PROVE  /\ SumFunctionOnSet(f, E) \in Nat
         /\ SumFunctionOnSet(f, E) <= Total(pool, J, field)
<1>0. field \in Fields
  BY DEF Fields, Scarce
<1> DEFINE Of(T) == {i \in J : back[i] \in T}
           Sum(T) == SumFunctionOnSet(f, T)
           Spent(T) == Total(pool, Of(T), field)
           G == {T \in SUBSET E : Sum(T) \in Nat /\ Sum(T) <= Spent(T)}
<1>1. \A a \in E : f[a] \in Int
  OBVIOUS
<1>2. {} \in G
  <2>1. Sum({}) = 0
    BY <1>1, Sums
  <2>2. Of({}) = {}
    OBVIOUS
  <2>3. Total(pool, {}, field) = 0
    BY <1>0, Totals
  <2> QED BY <2>1, <2>2, <2>3
<1>3. ASSUME NEW T \in SUBSET E, NEW x \in E \ T, T \in G
      PROVE  T \cup {x} \in G
  <2>1. Sum(T \cup {x}) = f[x] + Sum(T)
    BY <1>1, SumWith
  <2>2. PICK i \in J : back[i] = x /\ f[x] <= pool[i][field]
    OBVIOUS
  <2>3. /\ Of(T) \in SUBSET DOMAIN pool /\ i \in DOMAIN pool \ Of(T)
        /\ Of(T \cup {x}) \in SUBSET DOMAIN pool
        /\ Of(T) \cup {i} \in SUBSET Of(T \cup {x})
    BY <2>2
  <2> HIDE DEF Of
  <2>4. Total(pool, Of(T) \cup {i}, field) = pool[i][field] + Total(pool, Of(T), field)
    BY <1>0, <2>3, TotalWith
  <2>5. Total(pool, Of(T) \cup {i}, field) <= Total(pool, Of(T \cup {x}), field)
    BY <2>3, TotalGrows
  <2>6. /\ Total(pool, Of(T), field) \in Int /\ Total(pool, Of(T \cup {x}), field) \in Int
        /\ Total(pool, Of(T) \cup {i}, field) \in Int
    <3>1. Of(T) \cup {i} \in SUBSET DOMAIN pool
      BY <2>3
    <3> QED BY <1>0, <2>3, <3>1, Totals
  <2>7. pool[i][field] \in Int /\ f[x] \in Nat
    BY <2>3 DEF IsPool, IsCandidate, Scarce
  <2>8. Sum(T) \in Nat /\ Sum(T) <= Total(pool, Of(T), field)
    BY <1>3 DEF Of
  <2> HIDE DEF Sum
  <2>9. Sum(T \cup {x}) \in Nat /\ Sum(T \cup {x}) <= Total(pool, Of(T \cup {x}), field)
    BY <2>1, <2>2, <2>4, <2>5, <2>6, <2>7, <2>8
  <2> QED BY <2>9 DEF Of, Sum
<1>4. E \in G
  <2> HIDE DEF G
  <2> QED BY <1>2, <1>3, Grow
<1>5. Of(E) \in SUBSET J
  OBVIOUS
<1>6. Spent(E) <= Total(pool, J, field)
  <2> HIDE DEF Of
  <2> QED BY <1>5, TotalGrows
<1>7. Spent(E) \in Int /\ Total(pool, J, field) \in Int
  <2> HIDE DEF Of
  <2> QED BY <1>0, <1>5, Totals
<1>8. Sum(E) \in Nat /\ Sum(E) <= Spent(E)
  BY <1>4
<1> HIDE DEF Spent
<1> QED BY <1>6, <1>7, <1>8

\* A set has as many elements as it has ones.
LEMMA Ones ==
  ASSUME NEW E, IsFiniteSet(E)
  PROVE  Cardinality(E) = SumFunctionOnSet([a \in E |-> 1], E)
<1> DEFINE one == [a \in E |-> 1]
           G == {T \in SUBSET E : Cardinality(T) = SumFunctionOnSet(one, T)}
<1>1. \A a \in E : one[a] \in Int /\ one[a] = 1
  OBVIOUS
<1> HIDE DEF one
<1>2. {} \in G
  BY <1>1, FS_EmptySet, Sums
<1>3. ASSUME NEW T \in SUBSET E, NEW x \in E \ T, T \in G
      PROVE  T \cup {x} \in G
  <2>1. SumFunctionOnSet(one, T \cup {x}) = one[x] + SumFunctionOnSet(one, T)
    BY <1>1, SumWith
  <2>2. IsFiniteSet(T)
    BY FS_Subset
  <2>3. Cardinality(T \cup {x}) = Cardinality(T) + 1 /\ Cardinality(T) \in Nat
    BY <2>2, FS_AddElement, FS_CardinalityType
  <2> QED BY <1>1, <1>3, <2>1, <2>3
<1>4. E \in G
  <2> HIDE DEF G
  <2> QED BY <1>2, <1>3, Grow
<1> QED BY <1>4 DEF one

\* What is done has no more contacts than what was funded.
LEMMA BackedContacts ==
  ASSUME NEW pool, IsPool(pool), NEW J \in SUBSET DOMAIN pool, NEW E, IsFiniteSet(E),
         \A a \in E : \E i \in J : pool[i].from = a /\ pool[i].contacts = 1
  PROVE  Cardinality(E) <= Total(pool, J, "contacts")
<1> DEFINE one == [a \in E |-> 1]
           back == [i \in DOMAIN pool |-> pool[i].from]
<1>1. \A a \in E : one[a] \in Nat /\ \E i \in J : back[i] = a /\ one[a] <= pool[i]["contacts"]
  <2> SUFFICES ASSUME NEW a \in E
               PROVE  one[a] \in Nat /\ \E i \in J : back[i] = a /\ one[a] <= pool[i]["contacts"]
    OBVIOUS
  <2>1. PICK i \in J : pool[i].from = a /\ pool[i].contacts = 1
    OBVIOUS
  <2> QED BY <2>1
<1>2. SumFunctionOnSet(one, E) <= Total(pool, J, "contacts")
  <2> HIDE DEF one, back
  <2> QED BY <1>1, Backed DEF Scarce
<1> QED BY <1>2, Ones

\* What no rule blocks, no rule of either pack holds of: PolicyDecision.blocks is
\* empty exactly then (engine.py:44-46).
LEMMA NothingBlocks ==
  ASSUME NEW r, NEW p, NEW ctx
  PROVE  Blocks(r, p, ctx) = {} <=>
           /\ ~(rbi_predebit_24h(r) \/ rbi_predebit_missing(r)) /\ ~rbi_afa_limit(r)
           /\ ~npci_represent_cap(r) /\ ~trai_quiet_hours(r)
           /\ ~trai_dlt_template(r) /\ ~dpdp_consent(r)
           /\ ~contact_cap(r, p, ctx) /\ ~discount_ceiling(r, p)
           /\ ~discount_stacking(r, p, ctx) /\ ~allowed_channel(r, p)
           /\ ~blackout(r, p) /\ ~minimum_value(r, p)
<1> DEFINE reg == Regulatory(r)
           mer == Merchant(r, p, ctx)
<1>1. DOMAIN reg = {"RBI_PREDEBIT_24H", "RBI_AFA_LIMIT", "NPCI_REPRESENT_CAP",
                    "TRAI_QUIET_HOURS", "TRAI_DLT_TEMPLATE", "DPDP_CONSENT"}
  BY DEF Regulatory
<1>2. DOMAIN mer = {"MERCHANT_CONTACT_CAP", "MERCHANT_DISCOUNT_CEILING",
                    "MERCHANT_DISCOUNT_STACKING", "MERCHANT_ALLOWED_CHANNEL",
                    "MERCHANT_BLACKOUT", "MERCHANT_MIN_VALUE"}
  BY DEF Merchant
<1>3. Failing(reg) = {} <=>
        /\ ~(rbi_predebit_24h(r) \/ rbi_predebit_missing(r)) /\ ~rbi_afa_limit(r)
        /\ ~npci_represent_cap(r) /\ ~trai_quiet_hours(r)
        /\ ~trai_dlt_template(r) /\ ~dpdp_consent(r)
  <2>1. /\ reg.RBI_PREDEBIT_24H <=> rbi_predebit_24h(r) \/ rbi_predebit_missing(r)
        /\ reg.RBI_AFA_LIMIT <=> rbi_afa_limit(r)
        /\ reg.NPCI_REPRESENT_CAP <=> npci_represent_cap(r)
        /\ reg.TRAI_QUIET_HOURS <=> trai_quiet_hours(r)
        /\ reg.TRAI_DLT_TEMPLATE <=> trai_dlt_template(r)
        /\ reg.DPDP_CONSENT <=> dpdp_consent(r)
    BY DEF Regulatory
  <2> HIDE DEF reg
  <2>2. Failing(reg) = {} <=> \A rule \in DOMAIN reg : ~reg[rule]
    BY DEF Failing
  <2> QED BY <1>1, <2>1, <2>2
<1>4. Failing(mer) = {} <=>
        /\ ~contact_cap(r, p, ctx) /\ ~discount_ceiling(r, p)
        /\ ~discount_stacking(r, p, ctx) /\ ~allowed_channel(r, p)
        /\ ~blackout(r, p) /\ ~minimum_value(r, p)
  BY <1>2 DEF Failing, Merchant
<1>5. Blocks(r, p, ctx) = {} <=> Failing(reg) = {} /\ Failing(mer) = {}
  BY DEF Blocks
<1> QED BY <1>3, <1>4, <1>5

\* What is allowed is blocked by nothing and needs no approval.
LEMMA Allowed ==
  ASSUME NEW r, NEW p, NEW ctx
  PROVE  Verdict(r, p, ctx) = "allow" <=>
           Blocks(r, p, ctx) = {} /\ ~approval_threshold(r, p, ctx)
BY DEF Verdict

-----------------------------------------------------------------------------
(* What a policy allows *)

\* No setting of q is laxer than p's.
NoWider(q, p) ==
  /\ q.cap <= p.cap /\ q.maxPct <= p.maxPct
  /\ q.threshold <= p.threshold /\ q.floor >= p.floor
  /\ q.channels \subseteq p.channels /\ p.blackout \subseteq q.blackout
  /\ q.stacking => p.stacking

\* A merchant who narrows a policy, or is given the defaults of a narrower segment,
\* has nothing allowed that was not allowed before (store.py: the most restrictive
\* value of every setting is the safe one).
THEOREM NarrowerAllowsLess ==
  ASSUME NEW r \in Requests, NEW ctx \in Contexts,
         NEW p \in Policies, NEW q \in Policies,
         NoWider(q, p), Verdict(r, q, ctx) = "allow"
  PROVE  Verdict(r, p, ctx) = "allow"
<1>1. Blocks(r, q, ctx) = {} /\ ~approval_threshold(r, q, ctx)
  BY Allowed
<1>2. ~contact_cap(r, p, ctx)
  <2>1. ~contact_cap(r, q, ctx)
    BY <1>1, NothingBlocks
  <2> QED BY <2>1 DEF contact_cap, NoWider, Policies, Contexts
<1>3. ~discount_ceiling(r, p) /\ ~discount_stacking(r, p, ctx)
  <2>1. ~discount_ceiling(r, q) /\ ~discount_stacking(r, q, ctx)
    BY <1>1, NothingBlocks
  <2> QED BY <2>1 DEF discount_ceiling, discount_stacking, NoWider, Policies, Requests
<1>4. ~allowed_channel(r, p) /\ ~blackout(r, p)
  <2>1. ~allowed_channel(r, q) /\ ~blackout(r, q)
    BY <1>1, NothingBlocks
  <2> QED BY <2>1 DEF allowed_channel, blackout, NoWider
<1>5. ~minimum_value(r, p)
  <2>1. ~minimum_value(r, q)
    BY <1>1, NothingBlocks
  <2> QED BY <2>1 DEF minimum_value, NoWider, Policies, Requests
<1>6. ~approval_threshold(r, p, ctx)
  BY <1>1 DEF approval_threshold, NoWider, Policies, Requests
<1>7. Blocks(r, p, ctx) = {}
  BY <1>1, <1>2, <1>3, <1>4, <1>5, NothingBlocks
<1> QED BY <1>6, <1>7, Allowed

\* A reviewer's approval (approvals.py) clears the escalation and only that: no rule
\* that blocks a request is lifted by it, and none is brought in.
THEOREM ApprovalAnswersOnlyTheEscalation ==
  ASSUME NEW r, NEW p, NEW ctx \in Contexts
  PROVE  LET approved == [ctx EXCEPT !.approved = TRUE]
         IN /\ Verdict(r, p, approved) # "escalate"
            /\ Verdict(r, p, approved) = "block" <=> Verdict(r, p, ctx) = "block"
<1> DEFINE approved == [ctx EXCEPT !.approved = TRUE]
<1>1. /\ approved.approved /\ approved.contacts = ctx.contacts
      /\ approved.recentDiscount = ctx.recentDiscount
  BY DEF Contexts
<1>2. ~approval_threshold(r, p, approved)
  BY <1>1 DEF approval_threshold
<1>3. /\ contact_cap(r, p, approved) <=> contact_cap(r, p, ctx)
      /\ discount_stacking(r, p, approved) <=> discount_stacking(r, p, ctx)
  BY <1>1 DEF contact_cap, discount_stacking
<1>4. Blocks(r, p, approved) = {} <=> Blocks(r, p, ctx) = {}
  <2> HIDE DEF approved
  <2> QED BY <1>3, NothingBlocks
<1> QED BY <1>2, <1>4 DEF Verdict

\* Settings of a segment, within the bounds a pack is held to.
IsSegment(q) ==
  /\ DOMAIN q = {"cap", "maxPct", "threshold", "floor", "channels"}
  /\ q.cap \in Nat /\ q.cap <= 14 /\ q.maxPct \in Nat /\ q.maxPct <= 50
  /\ q.threshold \in Nat /\ q.threshold <= 100000000
  /\ q.floor \in Nat /\ q.floor <= 1000000
  /\ q.channels \in SUBSET Channels /\ q.channels # {}

\* They are compiled to themselves, and to the defaults of what they do not name.
LEMMA SegmentCompiles ==
  ASSUME NEW q, IsSegment(q)
  PROVE  LET p == Compile(q)
         IN /\ p.cap = q.cap /\ p.maxPct = q.maxPct /\ p.threshold = q.threshold
            /\ p.floor = q.floor /\ p.channels = q.channels
            /\ p.blackout = {} /\ p.stacking = FALSE
<1>1. /\ Clamp(q.cap, 0, 14) = q.cap /\ Clamp(q.maxPct, 0, 50) = q.maxPct
      /\ Clamp(q.threshold, 0, 100000000) = q.threshold
      /\ Clamp(q.floor, 0, 1000000) = q.floor
  BY SMT DEF Clamp, IsSegment
<1>2. DefaultPolicy["blackout"] = {} /\ DefaultPolicy["stacking"] = FALSE
  BY SMT DEF DefaultPolicy
<1> QED BY SMT, <1>1, <1>2 DEF Compile, IsSegment

\* No setting of q is below the narrowest.
Laxer(q) ==
  /\ IsSegment(q) /\ 2 <= q.cap /\ 2 <= q.maxPct /\ 1500000 <= q.threshold
  /\ q.floor <= 500000 /\ "email" \in q.channels

\* "Adding a segment and forgetting its policy should ... never let the agent spend
\* more on their behalf than anyone intended" (store.py:121-125): the defaults of a
\* segment nobody configured are no laxer than any segment's.  A lender's are the
\* exception: they do not have the email that the unknown segment is given.
THEOREM UnknownSegmentIsNarrowest ==
  ASSUME NEW s \in Segments
  PROVE  LET unknown == Compile(SegmentDefaults["other"])
             known == Compile(SegmentDefaults[s])
         IN s # "nbfc_lending" => NoWider(unknown, known)
<1> DEFINE other == SegmentDefaults["other"]
<1>0. other = Segment(2, 2, 1500000, 500000, {"email"})
  BY SMT DEF SegmentDefaults, Segments
<1> HIDE DEF other
<1>1. /\ other.cap = 2 /\ other.maxPct = 2 /\ other.threshold = 1500000
      /\ other.floor = 500000 /\ other.channels = {"email"}
  BY SMT, <1>0 DEF Segment
<1>2. ASSUME s # "nbfc_lending"
      PROVE  Laxer(SegmentDefaults[s])
  <2>1. CASE s = "d2c_subscription"
    <3>1. SegmentDefaults[s]
            = Segment(3, 15, 2500000, 10000, {"whatsapp", "sms", "email"})
      BY SMT, <2>1 DEF SegmentDefaults, Segments
    <3> QED BY SMT, <3>1 DEF Segment, Laxer, IsSegment, Channels
  <2>2. CASE s = "edtech"
    <3>1. SegmentDefaults[s]
            = Segment(4, 20, 5000000, 50000, {"whatsapp", "sms", "email", "voice"})
      BY SMT, <2>2 DEF SegmentDefaults, Segments
    <3> QED BY SMT, <3>1 DEF Segment, Laxer, IsSegment, Channels
  <2>3. CASE s = "saas"
    <3>1. SegmentDefaults[s]
            = Segment(2, 10, 10000000, 100000, {"email", "whatsapp"})
      BY SMT, <2>3 DEF SegmentDefaults, Segments
    <3> QED BY SMT, <3>1 DEF Segment, Laxer, IsSegment, Channels
  <2>4. CASE s = "marketplace"
    <3>1. SegmentDefaults[s]
            = Segment(2, 12, 1500000, 5000, {"whatsapp", "sms", "email"})
      BY SMT, <2>4 DEF SegmentDefaults, Segments
    <3> QED BY SMT, <3>1 DEF Segment, Laxer, IsSegment, Channels
  <2>5. CASE s = "b2b_services"
    <3>1. SegmentDefaults[s]
            = Segment(2, 5, 2500000, 500000, {"email", "whatsapp", "voice"})
      BY SMT, <2>5 DEF SegmentDefaults, Segments
    <3> QED BY SMT, <3>1 DEF Segment, Laxer, IsSegment, Channels
  <2>6. CASE s = "other"
    <3>1. SegmentDefaults[s]
            = Segment(2, 2, 1500000, 500000, {"email"})
      BY SMT, <2>6 DEF SegmentDefaults, Segments
    <3> QED BY SMT, <3>1 DEF Segment, Laxer, IsSegment, Channels
  <2>7. s \in {"d2c_subscription", "edtech", "saas", "marketplace", "b2b_services", "other"}
    BY <1>2 DEF Segments
  <2> QED BY <2>1, <2>2, <2>3, <2>4, <2>5, <2>6, <2>7
<1>3. IsSegment(other)
  BY SMT, <1>0 DEF Segment, IsSegment, Channels
<1>4. ASSUME NEW q, Laxer(q)
      PROVE  NoWider(Compile(other), Compile(q))
  <2>1. IsSegment(q)
    BY SMT, <1>4 DEF Laxer
  <2> DEFINE unknown == Compile(other)
             known == Compile(q)
  <2>2. /\ unknown.cap = other.cap /\ unknown.maxPct = other.maxPct
        /\ unknown.threshold = other.threshold /\ unknown.floor = other.floor
        /\ unknown.channels = other.channels
        /\ unknown.blackout = {} /\ unknown.stacking = FALSE
    BY Zenon, <1>3, SegmentCompiles
  <2>3. /\ known.cap = q.cap /\ known.maxPct = q.maxPct /\ known.threshold = q.threshold
        /\ known.floor = q.floor /\ known.channels = q.channels
        /\ known.blackout = {} /\ known.stacking = FALSE
    BY Zenon, <2>1, SegmentCompiles
  <2> HIDE DEF unknown, known
  <2>4. NoWider(unknown, known)
    BY SMT, <1>1, <1>4, <2>2, <2>3 DEF NoWider, Laxer, IsSegment
  <2> QED BY <2>4 DEF unknown, known
<1> QED BY <1>2, <1>4 DEF other

\* What the allocator funds, as the offers it was made from.
Funded == {Fundable[i].from : i \in Allocate(Fundable, Budgets).chosen}

\* Whatever of it is done is within the day's budgets and one contact a customer,
\* and policy allowed it.
LEMMA DoneIsWithin ==
  ASSUME Planned, ledger.contact = 0, ledger.discount = 0, IsFiniteSet(sent),
         NEW executed \in SUBSET Ruled(Funded, "allow")
  PROVE  /\ IsFiniteSet(executed)
         /\ Cardinality({a \in executed : IsContact(a)}) <= limits.contact
         /\ SumFunction([a \in executed |-> a.discount]) \in Nat
         /\ SumFunction([a \in executed |-> a.discount]) <= limits.discount
         /\ \A a \in executed :
              /\ a.customer = book[a.case].customer
              /\ IsContact(a) =>
                   /\ ContactsThisWindow(a.case) < policy.cap
                   /\ Cardinality({o \in executed : IsContact(o) /\ o.customer = a.customer}) <= 1
<1> DEFINE pool == Fundable
           b == Budgets
           J == Allocate(pool, b).chosen
<1>1. PICK T : pool \in Seq(T) /\ \A e \in T : IsEntry(e)
  BY EntriesOfAll
<1>2. PICK n \in Nat : DOMAIN pool = 1 .. n
  BY <1>1
<1>3. \A i \in DOMAIN pool : IsEntry(pool[i])
  BY <1>1, <1>2
<1>4. IsPool(pool)
  <2>1. IsFiniteSet(1 .. n) /\ 1 .. n \subseteq Int
    BY FS_Interval
  <2> HIDE DEF pool
  <2> QED BY <1>2, <1>3, <2>1 DEF IsPool, IsEntry
<1>5. /\ b.contacts = limits.contact /\ b.discount = limits.discount /\ b.perCustomer = 1
      /\ b.contacts \in Nat /\ b.discount \in Nat /\ b.perCustomer \in Nat
  <2>1. limits.contact \in Nat /\ limits.discount \in Nat
    BY DEF Planned
  <2>2. Left("contact") = limits.contact /\ Left("discount") = limits.discount
    <3>1. \A m \in Nat : (IF 0 < m THEN m - 0 ELSE 0) = m
      OBVIOUS
    <3> QED BY <2>1, <3>1 DEF Left
  <2> QED BY <2>1, <2>2 DEF Budgets, PerCustomerContacts
<1>6. IsBudgets(b)
  BY <1>5 DEF IsBudgets
<1> HIDE DEF pool, b
<1>7. J \in SUBSET DOMAIN pool /\ Feasible(pool, J, b)
  BY <1>4, <1>6, AllocatesWithin
<1>8. Funded = {pool[i].from : i \in J}
  BY DEF Funded, pool, b
<1> HIDE DEF J
<1>9. executed \in SUBSET Funded /\ \A a \in executed : VerdictOn(a.case, a) = "allow"
  BY DEF Ruled
<1>10. IsFiniteSet(J)
  BY <1>4, <1>7, FS_Subset DEF IsPool
<1>11. IsFiniteSet(executed)
  <2> DEFINE from == [i \in J |-> pool[i].from]
  <2>1. IsFiniteSet({from[i] : i \in J})
    <3> HIDE DEF from
    <3> QED BY <1>10, Image
  <2>2. {from[i] : i \in J} = Funded
    BY <1>8
  <2> HIDE DEF from
  <2> QED BY <1>9, <2>1, <2>2, FS_Subset
<1>12. ASSUME NEW a \in executed
       PROVE  \E i \in J : /\ pool[i].from = a /\ IsEntry(pool[i])
                           /\ pool[i].customer = a.customer
                           /\ pool[i].contacts = IF IsContact(a) THEN 1 ELSE 0
                           /\ pool[i].discount = a.discount /\ a.discount \in Nat
                           /\ a.case \in Loaded /\ a.customer = book[a.case].customer
  <2>1. PICK i \in J : pool[i].from = a
    BY <1>8, <1>9
  <2>2. IsEntry(pool[i])
    BY <1>3, <1>7
  <2> QED BY <2>1, <2>2 DEF IsEntry, IsContact, IsCandidate
<1>13. Cardinality({a \in executed : IsContact(a)}) <= limits.contact
  <2> DEFINE E == {a \in executed : IsContact(a)}
  <2>1. IsFiniteSet(E)
    BY <1>11, FS_Subset
  <2>2. \A a \in E : \E i \in J : pool[i].from = a /\ pool[i].contacts = 1
    BY <1>12
  <2> HIDE DEF E
  <2>3. Cardinality(E) <= Total(pool, J, "contacts")
    BY <1>4, <1>7, <2>1, <2>2, BackedContacts
  <2>4. Total(pool, J, "contacts") <= b.contacts /\ Total(pool, J, "contacts") \in Int
    BY <1>4, <1>7, Totals DEF Feasible, Fields
  <2>5. Cardinality(E) \in Nat
    BY <2>1, FS_CardinalityType
  <2>6. Cardinality(E) <= limits.contact
    BY <1>5, <2>3, <2>4, <2>5
  <2> QED BY <2>6 DEF E
<1>14. /\ SumFunction([a \in executed |-> a.discount]) \in Nat
       /\ SumFunction([a \in executed |-> a.discount]) <= limits.discount
  <2> DEFINE f == [a \in executed |-> a.discount]
             back == [i \in DOMAIN pool |-> pool[i].from]
  <2>1. \A a \in executed : f[a] \in Nat /\ \E i \in J : back[i] = a /\ f[a] <= pool[i]["discount"]
    <3> SUFFICES ASSUME NEW a \in executed
                 PROVE  f[a] \in Nat /\ \E i \in J : back[i] = a /\ f[a] <= pool[i]["discount"]
      OBVIOUS
    <3>1. PICK i \in J : pool[i].from = a /\ pool[i].discount = a.discount /\ a.discount \in Nat
      BY <1>12
    <3>2. f[a] = a.discount /\ back[i] = a
      BY <1>7, <3>1
    <3>3. f[a] \in Nat /\ f[a] <= pool[i]["discount"]
      BY <3>1, <3>2
    <3> QED BY <3>2, <3>3
  <2>2. SumFunction(f) = SumFunctionOnSet(f, executed)
    BY DEF SumFunction
  <2> HIDE DEF f, back
  <2>3. /\ SumFunctionOnSet(f, executed) \in Nat
        /\ SumFunctionOnSet(f, executed) <= Total(pool, J, "discount")
    BY ZenonT(60), <1>4, <1>7, <1>11, <2>1, Backed DEF Scarce
  <2>4. Total(pool, J, "discount") <= b.discount /\ Total(pool, J, "discount") \in Int
    BY <1>4, <1>7, Totals DEF Feasible, Fields
  <2>5. SumFunction(f) \in Nat /\ SumFunction(f) <= limits.discount
    BY <1>5, <2>2, <2>3, <2>4
  <2> QED BY <2>5 DEF f
<1>15. ASSUME NEW a \in executed, IsContact(a)
       PROVE  ContactsThisWindow(a.case) < policy.cap
  <2> DEFINE r == Request(a.case, a)
             ctx == Context(a.case)
  <2>1. Verdict(r, policy, ctx) = "allow"
    BY <1>9 DEF VerdictOn
  <2>2. r.kind = a.kind /\ ctx.contacts = ContactsThisWindow(a.case)
    BY DEF Request, Context
  <2> HIDE DEF r, ctx
  <2>3. ~contact_cap(r, policy, ctx)
    BY <2>1, Allowed, NothingBlocks
  <2>4. ~(ContactsThisWindow(a.case) >= policy.cap)
    BY <1>15, <2>2, <2>3 DEF contact_cap, IsContact
  <2>5. ContactsThisWindow(a.case) \in Int /\ policy.cap \in Int
    <3>1. IsFiniteSet(WeekOf(book[a.case].customer))
      <4>1. WeekOf(book[a.case].customer) \in SUBSET sent
        BY DEF WeekOf
      <4> QED BY <4>1, FS_Subset
    <3> QED BY <3>1, FS_CardinalityType DEF ContactsThisWindow, Planned
  <2> QED BY <2>4, <2>5
<1>16. ASSUME NEW a \in executed, IsContact(a)
       PROVE  Cardinality({o \in executed : IsContact(o) /\ o.customer = a.customer}) <= 1
  <2> DEFINE E == {o \in executed : IsContact(o) /\ o.customer = a.customer}
             Own == {k \in J : pool[k].customer = a.customer}
  <2>1. IsFiniteSet(E)
    BY <1>11, FS_Subset
  <2>2. Own \in SUBSET DOMAIN pool
    BY <1>7
  <2>3. \A o \in E : \E i \in Own : pool[i].from = o /\ pool[i].contacts = 1
    BY <1>12
  <2>4. PICK k \in J : pool[k].customer = a.customer
    BY <1>12
  <2>5. Total(pool, Own, "contacts") <= 1
    BY <1>5, <1>7, <2>4 DEF Feasible, CustomerContacts
  <2> HIDE DEF E, Own
  <2>6. Cardinality(E) <= Total(pool, Own, "contacts")
    BY <1>4, <2>1, <2>2, <2>3, BackedContacts
  <2>7. Total(pool, Own, "contacts") \in Int /\ Cardinality(E) \in Nat
    BY <1>4, <2>1, <2>2, Totals, FS_CardinalityType DEF Fields
  <2>8. Cardinality(E) <= 1
    BY <2>5, <2>6, <2>7
  <2> QED BY <2>8 DEF E
<1> QED BY <1>11, <1>12, <1>13, <1>14, <1>15, <1>16

\* What was done before today is on file as such, and the ledger is today's.
Filed ==
  /\ day \in Nat /\ IsFiniteSet(sent) /\ \A a \in sent : a.day \in 0 .. day
  /\ IsFiniteSet(landed) /\ \A a \in landed : a.day \in 0 .. day
  /\ phase # "done" => /\ \A a \in sent \cup landed : a.day < day
                       /\ ledger.contact = 0 /\ ledger.discount = 0

\* The invariant.
PlanInv == Planned /\ Filed /\ WeeklyCapHolds /\ DayWithinBudget /\ FreeRetryTaken

\* What a day adds to what was done before, and to what is on record of it.
LEMMA DoneToday ==
  ASSUME PlanInv, phase = "judged", NEW done \in SUBSET Ruled(Funded, "allow"),
         NEW executed \in SUBSET done,
         NEW S, S = sent \cup {Executed(cand) : cand \in executed},
         NEW L, L = landed \cup {Executed(cand) : cand \in done}
  PROVE  /\ IsFiniteSet(S) /\ \A a \in S : a.day \in 0 .. day
         /\ IsFiniteSet(L) /\ \A a \in L : a.day \in 0 .. day
         /\ \A a \in L : IsContact(a) => Cardinality(WeekUpTo(S \ {a}, a)) < policy.cap
         /\ \A d \in 0 .. day : Cardinality({a \in L : a.day = d /\ IsContact(a)}) <= limits.contact
<1> DEFINE new == {Executed(cand) : cand \in done}
           recorded == {Executed(cand) : cand \in executed}
<1>1. /\ Planned /\ day \in Nat /\ IsFiniteSet(sent) /\ IsFiniteSet(landed)
      /\ \A a \in sent \cup landed : a.day \in 0 .. day /\ a.day < day
      /\ ledger.contact = 0 /\ ledger.discount = 0
  BY DEF PlanInv, Filed
<1>2. /\ IsFiniteSet(done)
      /\ Cardinality({a \in done : IsContact(a)}) <= limits.contact
      /\ \A a \in done :
           /\ a.customer = book[a.case].customer
           /\ IsContact(a) =>
                /\ ContactsThisWindow(a.case) < policy.cap
                /\ Cardinality({o \in done : IsContact(o) /\ o.customer = a.customer}) <= 1
  BY <1>1, DoneIsWithin
<1>3. \A cand \in done : /\ Executed(cand).day = day
                         /\ Executed(cand).customer = cand.customer
                         /\ (IsContact(Executed(cand)) <=> IsContact(cand))
  BY DEF Executed, IsContact
<1>4. \* A part of today's is no more than the part of done it was made from.
      ASSUME NEW E \in SUBSET done
      PROVE  /\ IsFiniteSet({Executed(cand) : cand \in E})
             /\ Cardinality({Executed(cand) : cand \in E}) <= Cardinality(E)
             /\ Cardinality(E) \in Nat /\ Cardinality({Executed(cand) : cand \in E}) \in Nat
  <2> DEFINE g == [cand \in E |-> Executed(cand)]
             img == {Executed(cand) : cand \in E}
  <2>1. g \in Surjection(E, img)
    BY DEF Surjection
  <2>2. IsFiniteSet(E)
    BY <1>2, FS_Subset
  <2> HIDE DEF g, img
  <2>3. IsFiniteSet(img) /\ Cardinality(img) <= Cardinality(E)
    BY <2>1, <2>2, FS_Surjection
  <2>4. Cardinality(E) \in Nat /\ Cardinality(img) \in Nat
    BY <2>2, <2>3, FS_CardinalityType
  <2> QED BY <2>3, <2>4 DEF img
<1>5. IsFiniteSet(S) /\ IsFiniteSet(L)
  <2>1. IsFiniteSet(new) /\ IsFiniteSet(recorded)
    BY <1>4
  <2> HIDE DEF new, recorded
  <2>2. S = sent \cup recorded
    BY DEF recorded
  <2>3. L = landed \cup new
    BY DEF new
  <2>4. IsFiniteSet(sent) /\ IsFiniteSet(landed)
    BY <1>1
  <2>5. IsFiniteSet(S)
    BY <2>1, <2>2, <2>4, FS_Union, ZenonT(30)
  <2>6. IsFiniteSet(L)
    BY <2>1, <2>3, <2>4, FS_Union, ZenonT(30)
  <2> QED BY <2>5, <2>6
<1>6. /\ \A a \in S : a.day \in 0 .. day
      /\ \A a \in L : a.day \in 0 .. day
  <2>1. day \in 0 .. day
    BY <1>1
  <2> QED BY <1>1, <1>3, <2>1
<1>7. ASSUME NEW a \in L, IsContact(a)
      PROVE  Cardinality(WeekUpTo(S \ {a}, a)) < policy.cap
  <2>1. CASE a \in landed
    <3>1. WeekUpTo(S \ {a}, a) = WeekUpTo(sent \ {a}, a)
      <4>1. \A x \in recorded : x.day = day
        BY <1>3
      <4>2. a.day < day /\ a.day \in Int /\ day \in Int
        BY <1>1, <2>1
      <4>3. \A x \in recorded : ~(x.day <= a.day)
        BY <4>1, <4>2
      <4> QED BY <4>3 DEF WeekUpTo
    <3>2. Cardinality(WeekUpTo(sent \ {a}, a)) < policy.cap
      BY <1>7, <2>1 DEF PlanInv, WeeklyCapHolds
    <3> QED BY <3>1, <3>2
  <2>2. CASE a \in new
    <3>1. PICK cand \in done : a = Executed(cand)
      BY <2>2
    <3> DEFINE old == WeekOf(cand.customer)
               E == {o \in done : IsContact(o) /\ o.customer = cand.customer}
    <3>2. a.day = day /\ a.customer = cand.customer /\ IsContact(cand)
      BY <1>3, <1>7, <3>1
    <3>3. Cardinality(old) < policy.cap /\ Cardinality(E) <= 1
      BY <1>2, <3>2 DEF ContactsThisWindow
    <3>4. \A o \in E : o = cand
      <4>1. IsFiniteSet(E) /\ cand \in E
        BY <1>2, <3>2, FS_Subset
      <4> HIDE DEF E
      <4>2. ASSUME NEW o \in E, o # cand
            PROVE  FALSE
        <5>1. /\ IsFiniteSet(E \ {cand})
              /\ Cardinality(E \ {cand}) = Cardinality(E) - 1
          BY <4>1, FS_RemoveElement
        <5>2. Cardinality(E) \in Nat /\ Cardinality(E \ {cand}) \in Nat
          BY <4>1, <5>1, FS_CardinalityType
        <5>3. Cardinality(E \ {cand}) = 0
          BY <3>3, <5>1, <5>2
        <5>4. E \ {cand} = {}
          BY <5>1, <5>3, FS_EmptySet
        <5> QED BY <4>2, <5>4
      <4> QED BY <4>2
    <3>5. WeekUpTo(S \ {a}, a) \in SUBSET old
      <4>1. ASSUME NEW x \in WeekUpTo(S \ {a}, a)
            PROVE  x \in old
        <5>1. /\ x \in S /\ x # a /\ x.customer = cand.customer /\ IsContact(x)
              /\ day - x.day <= 7
          BY <3>2, <4>1 DEF WeekUpTo
        <5>2. CASE x \in sent
          BY <5>1, <5>2 DEF WeekOf
        <5>3. CASE x \in recorded
          <6>1. PICK o \in executed : x = Executed(o)
            BY <5>3
          <6>2. o \in E
            BY <1>3, <5>1, <6>1
          <6>3. o = cand
            BY <3>4, <6>2
          <6> QED BY <3>1, <5>1, <6>1, <6>3
        <5> QED BY <5>1, <5>2, <5>3
      <4> QED BY <4>1
    <3>6. IsFiniteSet(old) /\ Cardinality(old) \in Nat
      <4>1. old \in SUBSET sent
        BY DEF WeekOf
      <4> HIDE DEF old
      <4> QED BY <1>1, <4>1, FS_Subset, FS_CardinalityType
    <3> HIDE DEF old, E
    <3>7. /\ Cardinality(WeekUpTo(S \ {a}, a)) <= Cardinality(old)
          /\ Cardinality(WeekUpTo(S \ {a}, a)) \in Nat
      <4>1. /\ IsFiniteSet(WeekUpTo(S \ {a}, a))
            /\ Cardinality(WeekUpTo(S \ {a}, a)) <= Cardinality(old)
        BY <3>5, <3>6, FS_Subset
      <4> QED BY <4>1, FS_CardinalityType
    <3>8. policy.cap \in Int
      BY <1>1 DEF Planned
    <3> QED BY <3>3, <3>6, <3>7, <3>8
  <2> QED BY <2>1, <2>2
<1>8. ASSUME NEW d \in 0 .. day
      PROVE  Cardinality({a \in L : a.day = d /\ IsContact(a)}) <= limits.contact
  <2>1. CASE d = day
    <3> DEFINE E == {o \in done : IsContact(o)}
               img == {Executed(o) : o \in E}
    <3>1. {a \in L : a.day = d /\ IsContact(a)} = img
      <4>1. \A a \in landed : a.day # d
        BY <1>1, <2>1
      <4> QED BY <1>3, <2>1, <4>1
    <3>2. /\ Cardinality(img) <= Cardinality(E)
          /\ Cardinality(E) \in Nat /\ Cardinality(img) \in Nat
      <4>1. E \in SUBSET done
        OBVIOUS
      <4> HIDE DEF E
      <4> QED BY <1>4, <4>1
    <3>3. Cardinality(E) <= limits.contact
      BY <1>2
    <3>4. limits.contact \in Nat
      BY <1>1 DEF Planned
    <3> HIDE DEF img, E
    <3>5. Cardinality(img) <= limits.contact
      BY <3>2, <3>3, <3>4
    <3> QED BY <3>1, <3>5
  <2>2. CASE d # day
    <3>1. {a \in L : a.day = d /\ IsContact(a)} = {a \in landed : a.day = d /\ IsContact(a)}
      BY <1>3, <2>2
    <3>2. Cardinality({a \in landed : a.day = d /\ IsContact(a)}) <= limits.contact
      BY DEF PlanInv, DayWithinBudget
    <3> QED BY <3>1, <3>2
  <2> QED BY <2>1, <2>2
<1> QED BY <1>5, <1>6, <1>7, <1>8

\* No step but Propose and NextDay changes what is proposed, and neither loses what
\* a cycle rests on.
LEMMA ProposeOffers ==
  ASSUME PlanInv, Propose
  PROVE  PlanInv'
<1>1. PICK suppressing \in SUBSET Issuers, curve \in Timing :
        proposals' = [c \in Cases |->
          IF c \notin Loaded THEN << >>
          ELSE LET all == Generate(book[c], policy, Now, curve)
               IN Keep(all, {cand \in Range(all) : cand.kind \notin DropsFor(c, suppressing)})]
  BY DEF Propose
<1>2. ASSUME NEW c \in Cases
      PROVE  \E ats : proposals'[c] \in Seq(Offers(book[c], ats))
  <2>1. CASE c \notin Loaded
    BY <1>1, <2>1
  <2>2. CASE c \in Loaded
    <3> DEFINE all == Generate(book[c], policy, Now, curve)
               kept == {cand \in Range(all) : cand.kind \notin DropsFor(c, suppressing)}
    <3>1. book[c].consent \subseteq Channels
      BY RowsOfTheBook DEF PlanInv, IsRow
    <3>2. PICK ats : all \in Seq(Offers(book[c], ats))
      BY <3>1, GeneratesOffers
    <3>3. proposals'[c] = Keep(all, kept)
      BY <1>1, <2>2
    <3> HIDE DEF all, kept
    <3>4. Keep(all, kept) \in Seq(Offers(book[c], ats) \cap kept)
      BY <3>2, KeepWithin
    <3>5. Keep(all, kept) \in Seq(Offers(book[c], ats))
      <4>1. Offers(book[c], ats) \cap kept \subseteq Offers(book[c], ats)
        OBVIOUS
      <4> QED BY <3>4, <4>1
    <3> QED BY <3>3, <3>5
  <2> QED BY <2>1, <2>2
<1>3. /\ UNCHANGED <<book, policy, scorer, limits, day, state, reason, sent, landed, ledger, plan>>
      /\ phase = "idle" /\ phase' = "proposed"
  BY DEF Propose
<1>4. Planned'
  BY <1>2, <1>3 DEF PlanInv, Planned, Cases
<1>5. Filed'
  BY <1>3 DEF PlanInv, Filed
<1>6. WeeklyCapHolds' /\ DayWithinBudget' /\ FreeRetryTaken'
  BY <1>3 DEF PlanInv, WeeklyCapHolds, WeekUpTo, DayWithinBudget, FreeRetryTaken, IsContact
<1> QED BY <1>4, <1>5, <1>6 DEF PlanInv

\* What is done is some of what the plan on record funded and policy allows.
LEMMA Acted ==
  ASSUME Act
  PROVE  /\ phase = "judged" /\ phase' = "done"
         /\ plan' = [cands |-> Fundable, alloc |-> Allocate(Fundable, Budgets)]
         /\ UNCHANGED <<book, policy, scorer, limits, day, proposals, reason>>
         /\ \/ UNCHANGED <<state, sent, landed, ledger>>
            \/ \E done \in SUBSET Ruled(Funded, "allow") : \E executed \in SUBSET done :
                 /\ state' = Fates(Funded, executed)
                 /\ sent' = sent \cup {Executed(cand) : cand \in executed}
                 /\ landed' = landed \cup {Executed(cand) : cand \in done}
                 /\ Charge(executed)
<1>1. PICK entries, alloc : entries = Fundable /\ alloc = Allocate(Fundable, Budgets)
  OBVIOUS
<1>2. plan' = [cands |-> entries, alloc |-> alloc]
  BY <1>1 DEF Act
<1>3. plan'.cands = entries /\ plan'.alloc = alloc
  BY <1>2
<1>4. {plan'.cands[i].from : i \in plan'.alloc.chosen} = Funded
  BY <1>1, <1>3 DEF Funded
<1>5. \/ UNCHANGED <<state, sent, landed, ledger>>
      \/ \E done \in SUBSET Ruled(Funded, "allow") : \E executed \in SUBSET done :
           /\ state' = Fates(Funded, executed)
           /\ sent' = sent \cup {Executed(cand) : cand \in executed}
           /\ landed' = landed \cup {Executed(cand) : cand \in done}
           /\ Charge(executed)
  BY <1>4 DEF Act
<1> QED BY <1>1, <1>2, <1>5 DEF Act

\* Acting on what was funded keeps the cap, the budgets and the free retries.
LEMMA ActKeepsBudgets ==
  ASSUME PlanInv, Act
  PROVE  PlanInv'
<1> DEFINE alloc == Allocate(Fundable, Budgets)
<1>1. /\ phase = "judged" /\ phase' = "done" /\ plan' = [cands |-> Fundable, alloc |-> alloc]
      /\ UNCHANGED <<book, policy, scorer, limits, day, proposals, reason>>
      /\ \/ UNCHANGED <<state, sent, landed, ledger>>
         \/ \E done \in SUBSET Ruled(Funded, "allow") : \E executed \in SUBSET done :
              /\ sent' = sent \cup {Executed(cand) : cand \in executed}
              /\ landed' = landed \cup {Executed(cand) : cand \in done}
              /\ Charge(executed)
  BY Acted
<1>2. Planned /\ Filed
  BY DEF PlanInv
<1>3. FreeRetryTaken'
  <2>1. PICK T : Fundable \in Seq(T) /\ \A e \in T : IsEntry(e)
    BY <1>2, EntriesOfAll
  <2> DEFINE pool == Fundable
             b == Budgets
  <2>2. PICK n \in Nat : DOMAIN pool = 1 .. n
    BY <2>1
  <2>3. IsPool(pool)
    <3>1. IsFiniteSet(1 .. n) /\ 1 .. n \subseteq Int
      BY FS_Interval
    <3>2. \A i \in DOMAIN pool : IsEntry(pool[i])
      BY <2>1, <2>2
    <3> HIDE DEF pool
    <3> QED BY <2>2, <3>1, <3>2 DEF IsPool, IsEntry
  <2>4. IsBudgets(b)
    BY <1>2, <1>1 DEF Planned, Filed, Budgets, Left, PerCustomerContacts, IsBudgets
  <2> HIDE DEF pool, b
  <2>5. \A i \in DOMAIN pool : Costless(pool[i]) =>
          \E k \in Allocate(pool, b).chosen : pool[k].case = pool[i].case
    BY <2>3, <2>4, AllocatesWithin
  <2>6. plan'.cands = pool /\ plan'.alloc = Allocate(pool, b)
    BY <1>1 DEF pool, b
  <2>7. \A i \in DOMAIN plan'.cands : Costless(plan'.cands[i]) =>
          \E k \in plan'.alloc.chosen : plan'.cands[k].case = plan'.cands[i].case
    BY <2>5, <2>6
  <2> QED BY <2>7 DEF FreeRetryTaken
<1> HIDE DEF alloc
<1>4. CASE UNCHANGED <<state, sent, landed, ledger>>
  <2>1. Planned' /\ Filed'
    BY <1>1, <1>2, <1>4 DEF Planned, Filed, Cases
  <2>2. WeeklyCapHolds' /\ DayWithinBudget'
    BY <1>1, <1>4 DEF PlanInv, WeeklyCapHolds, WeekUpTo, DayWithinBudget, IsContact
  <2> QED BY <1>3, <2>1, <2>2 DEF PlanInv
<1>5. ASSUME NEW done \in SUBSET Ruled(Funded, "allow"), NEW executed \in SUBSET done,
             sent' = sent \cup {Executed(cand) : cand \in executed},
             landed' = landed \cup {Executed(cand) : cand \in done}, Charge(executed)
      PROVE  PlanInv'
  <2>1. PICK S, L : /\ S = sent \cup {Executed(cand) : cand \in executed}
                    /\ L = landed \cup {Executed(cand) : cand \in done}
    OBVIOUS
  <2>2. /\ IsFiniteSet(S) /\ \A a \in S : a.day \in 0 .. day
        /\ IsFiniteSet(L) /\ \A a \in L : a.day \in 0 .. day
        /\ \A a \in L : IsContact(a) => Cardinality(WeekUpTo(S \ {a}, a)) < policy.cap
        /\ \A d \in 0 .. day :
             Cardinality({a \in L : a.day = d /\ IsContact(a)}) <= limits.contact
    <3>1. PlanInv /\ phase = "judged"
      BY <1>1
    <3> QED BY <2>1, <3>1, DoneToday
  <2>3. sent' = S /\ landed' = L
    BY <1>5, <2>1
  <2>0. executed \in SUBSET Ruled(Funded, "allow")
    OBVIOUS
  <2> DEFINE spoken == Cardinality({a \in executed : IsContact(a)})
             given == SumFunction([a \in executed |-> a.discount])
  <2>4. /\ spoken \in Nat /\ spoken <= limits.contact
        /\ given \in Nat /\ given <= limits.discount
    <3>1. /\ ledger.contact = 0 /\ ledger.discount = 0 /\ IsFiniteSet(sent)
      BY <1>1, <1>2 DEF Filed
    <3>2. /\ IsFiniteSet(executed) /\ spoken <= limits.contact
          /\ given \in Nat /\ given <= limits.discount
      BY <1>2, <2>0, <3>1, DoneIsWithin
    <3>3. IsFiniteSet({a \in executed : IsContact(a)})
      BY <3>2, FS_Subset
    <3>4. spoken \in Nat
      BY <3>3, FS_CardinalityType
    <3> QED BY <3>2, <3>4
  <2>5. ledger' = [contact |-> ledger.contact + spoken, discount |-> ledger.discount + given]
    BY <1>5 DEF Charge
  <2> HIDE DEF spoken, given
  <2>6. /\ ledger'.contact \in Nat /\ ledger'.discount \in Nat
        /\ ledger'.contact <= limits.contact /\ ledger'.discount <= limits.discount
    <3>1. ledger.contact = 0 /\ ledger.discount = 0
      BY <1>1, <1>2 DEF Filed
    <3>2. ledger'.contact = 0 + spoken /\ ledger'.discount = 0 + given
      BY <2>5, <3>1
    <3> QED BY <2>4, <3>2
  <2>7. Planned' /\ Filed'
    BY <1>1, <1>2, <2>2, <2>3, <2>6 DEF Planned, Filed, Cases
  <2>8. WeeklyCapHolds'
    BY <1>1, <2>2, <2>3 DEF WeeklyCapHolds, WeekUpTo, IsContact
  <2>9. DayWithinBudget'
    BY <1>1, <2>2, <2>3, <2>6 DEF DayWithinBudget, IsContact
  <2> QED BY <1>3, <2>7, <2>8, <2>9 DEF PlanInv
<1> QED BY <1>1, <1>4, <1>5

\* A new day has nothing on its ledger yet.
LEMMA NextDayStartsAfresh ==
  ASSUME PlanInv, NextDay
  PROVE  PlanInv'
<1>1. /\ day' = day + 1 /\ phase' = "idle" /\ proposals' = [c \in Cases |-> << >>]
      /\ ledger' = [contact |-> 0, discount |-> 0]
      /\ UNCHANGED <<book, policy, scorer, limits, state, reason, sent, landed>>
  BY DEF NextDay
<1>2. /\ Planned /\ day \in Nat /\ IsFiniteSet(sent) /\ IsFiniteSet(landed)
      /\ \A a \in sent \cup landed : a.day \in 0 .. day
  BY DEF PlanInv, Filed
<1>3. \A c \in Cases : \E ats : proposals'[c] \in Seq(Offers(book[c], ats))
  BY <1>1
<1>4. Planned'
  BY <1>1, <1>2, <1>3 DEF Planned, Cases
<1>5. Filed'
  BY <1>1, <1>2 DEF Filed
<1>6. WeeklyCapHolds' /\ FreeRetryTaken'
  BY <1>1 DEF PlanInv, WeeklyCapHolds, WeekUpTo, FreeRetryTaken, IsContact
<1>7. DayWithinBudget'
  <2>1. limits.contact \in Nat /\ limits.discount \in Nat
    BY <1>2 DEF Planned
  <2>2. ASSUME NEW d \in 0 .. day + 1
        PROVE  Cardinality({a \in landed : a.day = d /\ IsContact(a)}) <= limits.contact
    <3>1. CASE d \in 0 .. day
      BY <3>1 DEF PlanInv, DayWithinBudget
    <3>2. CASE d \notin 0 .. day
      <4>1. {a \in landed : a.day = d /\ IsContact(a)} = {}
        BY <1>2, <3>2
      <4>2. Cardinality({}) = 0
        BY FS_EmptySet
      <4> QED BY <2>1, <4>1, <4>2
    <3> QED BY <3>1, <3>2
  <2>3. ledger'.contact = 0 /\ ledger'.discount = 0
    BY <1>1
  <2>4. ledger'.contact <= limits.contact /\ ledger'.discount <= limits.discount
    BY <2>1, <2>3
  <2> QED BY <1>1, <2>2, <2>4 DEF DayWithinBudget, IsContact
<1> QED BY <1>4, <1>5, <1>6, <1>7 DEF PlanInv

\* Every step of the planning cycle keeps it.
LEMMA PlanInvHolds == Spec => []PlanInv
<1>1. Init => PlanInv
  <2> SUFFICES ASSUME Init PROVE PlanInv
    OBVIOUS
  <2>1. /\ book \in Books /\ scorer \in Scorers /\ limits \in Limits
        /\ \E packs \in PolicyPacks : policy = LoadPolicy(packs)
        /\ day = 0 /\ phase = "idle" /\ proposals = [c \in Cases |-> << >>] /\ sent = {} /\ landed = {}
        /\ ledger = [contact |-> 0, discount |-> 0]
    BY DEF Init
  <2>2. policy.cap \in Int
    <3>1. PICK packs \in PolicyPacks : policy = LoadPolicy(packs)
      BY <2>1
    <3>2. IsFiniteSet(packs) /\ \A pack \in packs : IsPack(pack)
      BY PlanningAssumption
    <3> QED BY <3>1, <3>2, CapIsANumber
  <2>3. limits.contact \in Nat /\ limits.discount \in Nat /\ IsScorer(scorer)
    BY <2>1, PlanningAssumption
  <2>4. \A c \in Cases : \E ats : proposals[c] \in Seq(Offers(book[c], ats))
    BY <2>1
  <2>5. Planned
    BY <2>1, <2>2, <2>3, <2>4 DEF Planned
  <2>6. Filed
    BY <2>1, FS_EmptySet DEF Filed
  <2>7. WeeklyCapHolds /\ FreeRetryTaken
    BY <2>1 DEF WeeklyCapHolds, FreeRetryTaken
  <2>8. DayWithinBudget
    <3>1. \A d \in 0 .. day : {a \in landed : a.day = d /\ IsContact(a)} = {}
      BY <2>1
    <3>2. Cardinality({}) = 0
      BY FS_EmptySet
    <3> QED BY <2>1, <2>3, <3>1, <3>2 DEF DayWithinBudget
  <2> QED BY <2>5, <2>6, <2>7, <2>8 DEF PlanInv
<1>2. PlanInv /\ [Next]_vars => PlanInv'
  <2> SUFFICES ASSUME PlanInv, [Next]_vars PROVE PlanInv'
    OBVIOUS
  <2>1. CASE Propose
    BY <2>1, ProposeOffers
  <2>2. CASE Judge
    <3>1. /\ phase = "proposed" /\ phase' = "judged"
          /\ UNCHANGED <<book, policy, scorer, limits, day, proposals, sent, landed, ledger, plan>>
      BY <2>2 DEF Judge
    <3>2. Planned' /\ Filed'
      BY <3>1 DEF PlanInv, Planned, Filed, Cases
    <3>3. WeeklyCapHolds' /\ DayWithinBudget' /\ FreeRetryTaken'
      BY <3>1 DEF PlanInv, WeeklyCapHolds, WeekUpTo, DayWithinBudget, FreeRetryTaken, IsContact
    <3> QED BY <3>2, <3>3 DEF PlanInv
  <2>3. CASE Act
    BY <2>3, ActKeepsBudgets
  <2>4. CASE NextDay
    BY <2>4, NextDayStartsAfresh
  <2>5. CASE UNCHANGED vars
    <3>1. Planned' /\ Filed'
      BY <2>5 DEF PlanInv, Planned, Filed, Cases, vars
    <3>2. WeeklyCapHolds' /\ DayWithinBudget' /\ FreeRetryTaken'
      BY <2>5 DEF PlanInv, WeeklyCapHolds, WeekUpTo, DayWithinBudget, FreeRetryTaken, IsContact, vars
    <3> QED BY <3>1, <3>2 DEF PlanInv
  <2> QED BY <2>1, <2>2, <2>3, <2>4, <2>5 DEF Next
<1> QED BY <1>1, <1>2, PTL DEF Spec

\* "MERCHANT_CONTACT_CAP" (merchantpack.py): whatever the book, the scorer, the policies
\* and the day's limits, nobody is contacted, on record or not, once the contacts on record
\* in the week before have reached the cap, because the knapsack gives a customer at most
\* one a day and policy counts those on record.
THEOREM WeeklyCapIsKept == Spec => []WeeklyCapHolds
BY PlanInvHolds, PTL DEF PlanInv

\* What is done in a day, on record or not, is within the budget of contacts, and what is
\* charged within both: the allocator is asked for what the ledger has left, and no more is
\* done than it funded.
THEOREM DayKeepsBudgets == Spec => []DayWithinBudget
BY PlanInvHolds, PTL DEF PlanInv

\* A plan that was acted on has an action for every case that had a free one, whatever
\* the knapsack and its exchanges made of the rest (_take_costless_actions).
THEOREM FreeRetriesAreTaken == Spec => []FreeRetryTaken
BY PlanInvHolds, PTL DEF PlanInv

-----------------------------------------------------------------------------
(* Why a case was stopped *)

\* The first rule that holds is the reason given.
LEMMA FirstRule ==
  ASSUME NEW s, NEW i \in 1 .. 10, Evaluate(s) = Order[i]
  PROVE  Holds(Order[i], s) /\ \A j \in 1 .. i - 1 : ~Holds(Order[j], s)
<1> DEFINE held == [k \in 1 .. 10 |-> Holds(Order[k], s)]
           H == {k \in 1 .. 10 : held[k]}
           First(k) == held[k] /\ \A j \in 1 .. k - 1 : ~held[j]
<1>1. DOMAIN Order = 1 .. 10
  BY DEF Order
<1>2. \A k, j \in 1 .. 10 : Order[k] = Order[j] => k = j
  BY DEF Order
<1>3. \A k \in 1 .. 10 : Order[k] # Continue
  BY DEF Order, Continue
<1>4. Evaluate(s) = IF H # {} THEN Order[CHOOSE k \in 1 .. 10 : First(k)] ELSE Continue
  <2>1. ASSUME NEW k \in 1 .. 10
        PROVE  (Holds(Order[k], s) /\ \A j \in 1 .. k - 1 : ~Holds(Order[j], s)) <=> First(k)
    <3>1. held[k] <=> Holds(Order[k], s)
      OBVIOUS
    <3>2. \A j \in 1 .. k - 1 : held[j] <=> Holds(Order[j], s)
      OBVIOUS
    <3> HIDE DEF held
    <3> QED BY <3>1, <3>2
  <2>2. (\E k \in DOMAIN Order : Holds(Order[k], s)) <=> H # {}
    BY <1>1
  <2>3. (CHOOSE k \in DOMAIN Order :
           Holds(Order[k], s) /\ \A j \in 1 .. k - 1 : ~Holds(Order[j], s))
          = CHOOSE k \in 1 .. 10 : First(k)
    <3> HIDE DEF First
    <3> QED BY <1>1, <2>1
  <2> QED BY <2>2, <2>3 DEF Evaluate
<1>5. H # {}
  BY <1>3, <1>4
<1>6. \E k \in 1 .. 10 : First(k)
  <2>1. H \in SUBSET Int /\ IsFiniteSet(H)
    <3>1. IsFiniteSet(1 .. 10)
      <4>1. PICK n \in Nat : n = 10
        OBVIOUS
      <4>2. IsFiniteSet(1 .. n)
        BY FS_Interval
      <4> QED BY <4>1, <4>2
    <3>2. H \in SUBSET (1 .. 10)
      <4> HIDE DEF held
      <4> QED OBVIOUS
    <3>3. IsFiniteSet(H)
      <4> HIDE DEF H
      <4> QED BY <3>1, <3>2, FS_Subset
    <3> QED BY <3>2, <3>3
  <2>2. Min(H) \in H /\ \A k \in H : Min(H) <= k
    <3> HIDE DEF H
    <3> QED BY <1>5, <2>1, Bounds
  <2>3. PICK m \in H : \A k \in H : m <= k
    BY <2>2
  <2>4. First(m)
    <3> HIDE DEF held
    <3> QED BY <2>3
  <2> QED BY <2>4
<1>7. PICK k \in 1 .. 10 : First(k) /\ Evaluate(s) = Order[k]
  BY <1>4, <1>5, <1>6
<1>8. k = i
  BY <1>2, <1>7
<1> QED BY <1>7, <1>8

\* The best of a case's offers, when one of them is worth something.
LEMMA BestOffer ==
  ASSUME Planned, NEW c \in Cases, NEW is \in SUBSET DOMAIN proposals[c]
  PROVE  /\ Top(c, is) \in Int /\ \A i \in is : MarginOf(c, proposals[c][i]) <= Top(c, is)
         /\ Top(c, is) > 0 => /\ BestAt(c, is) \in is
                              /\ MarginOf(c, proposals[c][BestAt(c, is)]) = Top(c, is)
<1> DEFINE worth == [i \in DOMAIN proposals[c] |-> MarginOf(c, proposals[c][i])]
           of == {worth[i] : i \in is}
           best == {i \in is : worth[i] = Top(c, is)}
<1>1. PICK ats : proposals[c] \in Seq(Offers(book[c], ats))
  BY DEF Planned
<1>2. PICK n \in Nat : DOMAIN proposals[c] = 1 .. n
  BY <1>1
<1>3. ASSUME NEW i \in DOMAIN proposals[c]
      PROVE  worth[i] \in Int
  <2>1. PICK o \in Offers(book[c], ats) : o = proposals[c][i]
    BY <1>1
  <2>2. MarginOf(c, o) \in Int
    BY OfferIsScored
  <2> QED BY <2>1, <2>2
<1>4. IsFiniteSet(is) /\ is \in SUBSET Int
  <2>1. IsFiniteSet(1 .. n)
    BY FS_Interval
  <2> QED BY <1>2, <2>1, FS_Subset
<1>5. \A i \in is : worth[i] = MarginOf(c, proposals[c][i])
  OBVIOUS
<1>6. Top(c, is) = Max({0} \cup of)
  <2>1. of = {MarginOf(c, proposals[c][i]) : i \in is}
    BY <1>5
  <2> QED BY <2>1 DEF Top
<1> HIDE DEF worth
<1>7. {0} \cup of \in SUBSET Int /\ IsFiniteSet({0} \cup of) /\ {0} \cup of # {}
  <2>1. IsFiniteSet(of)
    BY <1>4, Image
  <2>2. of \in SUBSET Int
    BY <1>3
  <2> HIDE DEF of
  <2> QED BY <2>1, <2>2, FS_AddElement
<1>8. Max({0} \cup of) \in {0} \cup of /\ \A x \in {0} \cup of : x <= Max({0} \cup of)
  <2> DEFINE all == {0} \cup of
  <2> HIDE DEF of
  <2>1. all \in SUBSET Int /\ IsFiniteSet(all) /\ all # {}
    BY <1>7
  <2> HIDE DEF all
  <2>2. Max(all) \in all /\ \A x \in all : x <= Max(all)
    BY <2>1, Bounds
  <2> QED BY <2>2 DEF all
<1>9. Top(c, is) \in Int /\ \A i \in is : worth[i] <= Top(c, is)
  BY <1>6, <1>7, <1>8
<1>10. ASSUME Top(c, is) > 0
       PROVE  BestAt(c, is) \in is /\ worth[BestAt(c, is)] = Top(c, is)
  <2>1. best # {} /\ best \in SUBSET is
    BY <1>6, <1>8, <1>10
  <2>2. BestAt(c, is) = Min(best)
    <3>1. best = {i \in is : MarginOf(c, proposals[c][i]) = Top(c, is)}
      BY <1>5
    <3> QED BY <3>1 DEF BestAt
  <2>3. Min(best) \in best
    <3> HIDE DEF best
    <3>1. IsFiniteSet(best) /\ best \in SUBSET Int
      BY <1>4, <2>1, FS_Subset
    <3> QED BY <2>1, <3>1, Bounds
  <2>4. PICK k \in best : k = BestAt(c, is)
    BY <2>2, <2>3
  <2> QED BY <2>4
<1> QED BY <1>5, <1>9, <1>10

\* An ample budget pays for every offer.
LEMMA AmpleIs ==
  ASSUME Planned, NEW c \in Cases
  PROVE  Ample(c) \in Int /\ Ample(c) > 0 /\ Affordable(c, Ample(c)) = Acting(c)
<1> DEFINE price == [i \in DOMAIN proposals[c] |-> proposals[c][i].discount]
           of == {price[i] : i \in DOMAIN proposals[c]}
           all == {0} \cup of
<1>1. PICK ats : proposals[c] \in Seq(Offers(book[c], ats))
  BY DEF Planned
<1>2. PICK n \in Nat : DOMAIN proposals[c] = 1 .. n
  BY <1>1
<1>3. \A i \in DOMAIN proposals[c] : proposals[c][i].discount \in Nat
  <2>1. book[c].amount \in Nat
    BY RowsOfTheBook DEF IsRow
  <2> QED BY <1>1, <1>2, <2>1, OfferFields
<1>4. of = {proposals[c][i].discount : i \in DOMAIN proposals[c]}
  OBVIOUS
<1>5. IsFiniteSet(of)
  <2>1. IsFiniteSet(DOMAIN proposals[c])
    BY <1>2, FS_Interval
  <2> HIDE DEF price
  <2> QED BY <2>1, Image
<1>6. of \in SUBSET Nat
  BY <1>3, <1>4
<1>7. Ample(c) = 1 + Max(all)
  BY <1>4 DEF Ample
<1>8. all \in SUBSET Int /\ IsFiniteSet(all) /\ all # {} /\ 0 \in all
      /\ \A i \in DOMAIN proposals[c] : proposals[c][i].discount \in all
  <2> HIDE DEF of
  <2>1. \A i \in DOMAIN proposals[c] : proposals[c][i].discount \in of
    BY <1>4
  <2> QED BY <1>5, <1>6, <2>1, FS_AddElement
<1> HIDE DEF all
<1>9. Max(all) \in all /\ \A x \in all : x <= Max(all)
  BY <1>8, Bounds
<1>10. Ample(c) \in Int /\ Ample(c) > 0
  <2>1. PICK m \in all : m = Max(all)
    BY <1>9
  <2>2. m \in Int /\ 0 <= m
    BY <1>8, <1>9, <2>1
  <2> QED BY <1>7, <2>1, <2>2
<1>11. \A i \in DOMAIN proposals[c] : proposals[c][i].discount <= Ample(c)
  <2> SUFFICES ASSUME NEW i \in DOMAIN proposals[c]
               PROVE  proposals[c][i].discount <= Ample(c)
    OBVIOUS
  <2>1. proposals[c][i].discount <= Max(all) /\ Max(all) \in Int
    BY <1>8, <1>9
  <2> QED BY <1>3, <1>7, <2>1
<1> QED BY <1>10, <1>11 DEF Affordable, Acting

\* A discount is a twentieth of the amount at least: it does not pay for itself on
\* an effect of half a percent.
LEMMA DiscountNeedsEffect ==
  ASSUME NEW u \in Int, NEW amount \in Nat, NEW mdr \in 0 .. 100,
         NEW pct \in {5, 10, 15, 25}, NEW cost \in Nat, u < 50,
         NEW discount, discount = (amount \div 100) * pct
  PROVE  ExpectedMargin(u, amount, mdr, discount, cost) <= 0
<1> DEFINE a == amount \div 10000
           h == amount \div 100
           left == 100 - mdr
           au == a * u
           gain == (au * left) \div 100
<1>1. a \in Nat /\ h \in Nat /\ h >= 100 * a /\ left \in 0 .. 100
  OBVIOUS
<1> HIDE DEF a, h, left
<1>2. au \in Int /\ au <= 49 * a
  <2>1. \A x \in Int : \A y \in Nat : x <= 49 => y * x <= 49 * y
    OBVIOUS
  <2> QED BY <1>1, <2>1
<1> HIDE DEF au
<1>3. gain \in Int /\ gain <= 49 * a
  <2>1. au * left \in Int /\ au * left <= 100 * (49 * a)
    <3>1. \A x \in Int : \A y \in 0 .. 100 : \A z \in Nat : x <= z => x * y <= 100 * z
      <4> SUFFICES ASSUME NEW x \in Int, NEW y \in 0 .. 100, NEW z \in Nat, x <= z
                   PROVE  x * y <= 100 * z
        OBVIOUS
      <4>1. x * y <= z * y
        OBVIOUS
      <4>2. z * y <= z * 100
        OBVIOUS
      <4>3. x * y \in Int /\ z * y \in Int /\ z * 100 = 100 * z
        OBVIOUS
      <4> QED BY <4>1, <4>2, <4>3
    <3>2. 49 * a \in Nat
      BY <1>1
    <3>3. au * left \in Int
      BY <1>1, <1>2
    <3> QED BY <1>1, <1>2, <3>1, <3>2, <3>3
  <2>2. \A x \in Int : \A y \in Int : x <= 100 * y => x \div 100 \in Int /\ x \div 100 <= y
    OBVIOUS
  <2>3. 49 * a \in Int
    BY <1>1
  <2> QED BY <2>1, <2>2, <2>3
<1> HIDE DEF gain
<1>4. h * pct \in Int /\ h * pct >= 500 * a
  <2>1. h * pct >= 5 * h
    BY <1>1
  <2> QED BY <1>1, <2>1
<1>5. gain - h * pct - cost <= 0
  <2> DEFINE d == h * pct
  <2>1. d \in Int /\ d >= 500 * a
    BY <1>4
  <2> HIDE DEF d
  <2>2. gain - d - cost <= 0
    BY <1>1, <1>3, <2>1
  <2> QED BY <2>2 DEF d
<1> QED BY <1>5 DEF ExpectedMargin, gain, au, a, h, left

\* A case that is stopped because the discount budget is spent would not be stopped
\* under one that pays for any of its offers.
LEMMA StoppedForTheBudgetOnly ==
  ASSUME Planned, NEW c \in Cases, NEW d \in Int,
         Evaluate(Snapshot(c, d)) = "discount_budget_spent"
  PROVE  Evaluate(Snapshot(c, Ample(c))) = Continue
<1> DEFINE ample == Ample(c)
           s == Snapshot(c, d)
           r == Snapshot(c, ample)
<1>1. ample \in Int /\ ample > 0 /\ Affordable(c, ample) = Acting(c)
  BY AmpleIs
<1> HIDE DEF ample
<1>2. ASSUME NEW x
      PROVE  /\ Snapshot(c, x).obligation = book[c].obligation
             /\ Snapshot(c, x).decline = book[c].decline
             /\ Snapshot(c, x).age = book[c].age + day
             /\ Snapshot(c, x).attempts = book[c].attempts
             /\ Snapshot(c, x).optedOut = book[c].optedOut
             /\ Snapshot(c, x).promise = book[c].promise
             /\ Snapshot(c, x).degraded = FALSE
             /\ Snapshot(c, x).contacts = ContactsThisWindow(c)
             /\ Snapshot(c, x).cap = policy.cap
             /\ Snapshot(c, x).contactsLeft = Left("contact")
             /\ Snapshot(c, x).discountLeft = x
             /\ Snapshot(c, x).costless = (\E i \in Acting(c) : CostlessProposal(proposals[c][i]))
             /\ Snapshot(c, x).margin = Top(c, Affordable(c, x))
             /\ Snapshot(c, x).needsDiscount = BlockedOnDiscount(c, x)
             /\ Top(c, Affordable(c, x)) > 0 =>
                  Snapshot(c, x).uplift = UpliftOf(c, proposals[c][BestAt(c, Affordable(c, x))])
  BY Zenon DEF Snapshot, Best
<1>3. /\ s.obligation = r.obligation /\ s.decline = r.decline /\ s.age = r.age
      /\ s.attempts = r.attempts /\ s.optedOut = r.optedOut /\ s.promise = r.promise
      /\ s.degraded = r.degraded /\ s.contacts = r.contacts /\ s.cap = r.cap
      /\ s.contactsLeft = r.contactsLeft /\ s.costless = r.costless
      /\ s.needsDiscount = BlockedOnDiscount(c, d)
      /\ r.margin = Top(c, Acting(c)) /\ r.discountLeft = ample
      /\ Top(c, Acting(c)) > 0 => r.uplift = UpliftOf(c, proposals[c][BestAt(c, Acting(c))])
  <2> HIDE DEF s, r
  <2>1. s = Snapshot(c, d) /\ r = Snapshot(c, ample)
    BY DEF s, r
  <2>2. /\ s.obligation = book[c].obligation /\ r.obligation = book[c].obligation
        /\ s.decline = book[c].decline /\ r.decline = book[c].decline
        /\ s.age = book[c].age + day /\ r.age = book[c].age + day
        /\ s.attempts = book[c].attempts /\ r.attempts = book[c].attempts
        /\ s.optedOut = book[c].optedOut /\ r.optedOut = book[c].optedOut
        /\ s.promise = book[c].promise /\ r.promise = book[c].promise
        /\ s.degraded = FALSE /\ r.degraded = FALSE
    BY ZenonT(60), <1>2, <2>1
  <2>3. /\ s.contacts = ContactsThisWindow(c) /\ r.contacts = ContactsThisWindow(c)
        /\ s.cap = policy.cap /\ r.cap = policy.cap
        /\ s.contactsLeft = Left("contact") /\ r.contactsLeft = Left("contact")
        /\ s.costless = r.costless
    BY ZenonT(60), <1>2, <2>1
  <2>4. /\ s.needsDiscount = BlockedOnDiscount(c, d)
        /\ r.margin = Top(c, Affordable(c, ample)) /\ r.discountLeft = ample
        /\ Top(c, Affordable(c, ample)) > 0 =>
             r.uplift = UpliftOf(c, proposals[c][BestAt(c, Affordable(c, ample))])
    <3>1. s.needsDiscount = BlockedOnDiscount(c, d)
      BY <1>2, <2>1
    <3>2. r.margin = Top(c, Affordable(c, ample)) /\ r.discountLeft = ample
      BY <1>2, <2>1
    <3>3. Top(c, Affordable(c, ample)) > 0 =>
            r.uplift = UpliftOf(c, proposals[c][BestAt(c, Affordable(c, ample))])
      BY ZenonT(60), <1>2, <2>1
    <3> QED BY <3>1, <3>2, <3>3
  <2> QED BY <1>1, <2>2, <2>3, <2>4
<1> HIDE DEF s, r
<1>4. Holds(Order[9], s) /\ \A j \in 1 .. 8 : ~Holds(Order[j], s)
  <2>1. Order[9] = "discount_budget_spent"
    BY DEF Order
  <2>2. Evaluate(s) = Order[9]
    BY <2>1 DEF s
  <2> QED BY <2>2, FirstRule
<1>5. BlockedOnDiscount(c, d)
  <2>1. s.needsDiscount
    BY <1>4 DEF Order, Holds
  <2> QED BY <1>3, <2>1
<1>6. Top(c, Acting(c)) >= MinMargin /\ proposals[c][BestAt(c, Acting(c))].discount > 0
  BY <1>5 DEF BlockedOnDiscount
<1> DEFINE o == proposals[c][BestAt(c, Acting(c))]
<1>7. Acting(c) \in SUBSET DOMAIN proposals[c]
  BY DEF Acting
<1>8. /\ Top(c, Acting(c)) \in Int /\ Top(c, Acting(c)) > 0
      /\ BestAt(c, Acting(c)) \in Acting(c) /\ MarginOf(c, o) = Top(c, Acting(c))
  <2>1. Top(c, Acting(c)) \in Int
    BY <1>7, BestOffer
  <2>2. Top(c, Acting(c)) > 0
    BY <1>6, <2>1 DEF MinMargin
  <2> QED BY <1>7, <2>1, <2>2, BestOffer
<1>9. UpliftOf(c, o) \in Int /\ UpliftOf(c, o) >= 50
  <2>1. PICK ats : proposals[c] \in Seq(Offers(book[c], ats))
    BY DEF Planned
  <2>2. PICK f \in Offers(book[c], ats) : f = o
    BY <1>7, <1>8, <2>1
  <2>3. /\ MarginOf(c, f) \in Int /\ UpliftOf(c, f) \in Int /\ ChannelCost[f.channel] \in Nat
    BY OfferIsScored
  <2>4. book[c].amount \in Nat /\ book[c].mdr \in 0 .. 100
    BY RowsOfTheBook DEF IsRow
  <2>5. /\ f.amount = book[c].amount /\ f.pct \in {0, 5, 10, 15, 25}
        /\ f.discount = (book[c].amount \div 100) * f.pct
    BY <2>4, OfferFields
  <2>6. f.pct \in {5, 10, 15, 25}
    <3>1. f.pct # 0
      <4>1. \A x \in Int : x * 0 = 0
        OBVIOUS
      <4>2. book[c].amount \div 100 \in Int
        BY <2>4
      <4>3. f.discount > 0
        BY <1>6, <2>2
      <4> QED BY <2>5, <4>1, <4>2, <4>3
    <3> QED BY <2>5, <3>1
  <2>7. MarginOf(c, f) = ExpectedMargin(UpliftOf(c, f), book[c].amount, book[c].mdr,
                                        f.discount, ChannelCost[f.channel])
    BY <2>5 DEF MarginOf
  <2>8. MarginOf(c, f) > 0
    BY <1>8, <2>2
  <2>9. ASSUME UpliftOf(c, f) < 50 PROVE FALSE
    <3> DEFINE u == UpliftOf(c, f)
               fee == ChannelCost[f.channel]
               amount == book[c].amount
               mdr == book[c].mdr
               pct == f.pct
               given == f.discount
    <3>1. /\ u \in Int /\ fee \in Nat /\ u < 50
          /\ amount \in Nat /\ mdr \in 0 .. 100 /\ pct \in {5, 10, 15, 25}
          /\ given = (amount \div 100) * pct
      BY <2>3, <2>4, <2>5, <2>6, <2>9
    <3> HIDE DEF u, fee, amount, mdr, pct, given
    <3>2. ExpectedMargin(u, amount, mdr, given, fee) <= 0
      BY ZenonT(60), <3>1, DiscountNeedsEffect
    <3>3. MarginOf(c, f) <= 0
      BY <2>7, <3>2 DEF u, fee, amount, mdr, given
    <3> QED BY <2>3, <2>8, <3>3
  <2> QED BY <2>2, <2>3, <2>9
<1>10. r.uplift \in Int /\ r.uplift >= 50 /\ r.margin >= 500 /\ r.margin \in Int
  BY <1>3, <1>6, <1>8, <1>9 DEF MinMargin
<1>11. ASSUME NEW j \in 1 .. 8
       PROVE  ~Holds(Order[j], r)
  <2>1. ~Holds(Order[j], s)
    BY <1>4
  <2>2. CASE j = 1
    BY <1>3, <2>1, <2>2 DEF Order, Holds
  <2>3. CASE j = 2
    BY <1>3, <2>1, <2>3 DEF Order, Holds
  <2>4. CASE j = 3
    BY <1>3, <2>1, <2>4 DEF Order, Holds
  <2>5. CASE j = 4
    <3>1. Lookup(s.decline).transience # "permanent"
      BY <2>1, <2>5 DEF Order, Holds, LostCause
    <3>2. Lookup(r.decline).transience # "permanent"
      BY <1>3, <3>1
    <3>3. ~(r.uplift < LostCauseUplift)
      BY <1>10 DEF LostCauseUplift
    <3> QED BY <2>5, <3>2, <3>3 DEF Order, Holds, LostCause
  <2>6. CASE j = 5
    BY <1>3, <2>1, <2>6 DEF Order, Holds
  <2>7. CASE j = 6
    BY <1>3, <2>1, <2>7 DEF Order, Holds
  <2>8. CASE j = 7
    BY <1>3, <2>1, <2>8 DEF Order, Holds
  <2>9. CASE j = 8
    BY <1>3, <2>1, <2>9 DEF Order, Holds, OutOfContacts
  <2> QED BY <2>2, <2>3, <2>4, <2>5, <2>6, <2>7, <2>8, <2>9
<1>12. ~Holds(Order[9], r)
  <2>1. ~(r.discountLeft <= 0)
    BY <1>1, <1>3
  <2> QED BY <2>1 DEF Order, Holds
<1>13. ~Holds(Order[10], r)
  <2>1. ~(r.margin < MinMargin)
    BY <1>10 DEF MinMargin
  <2> QED BY <2>1 DEF Order, Holds
<1>14. \A j \in DOMAIN Order : ~Holds(Order[j], r)
  <2>1. DOMAIN Order = 1 .. 10
    BY DEF Order
  <2>2. \A j \in 1 .. 10 : j \in 1 .. 8 \/ j = 9 \/ j = 10
    OBVIOUS
  <2> QED BY <1>11, <1>12, <1>13, <2>1, <2>2
<1>15. Evaluate(r) = Continue
  BY <1>14 DEF Evaluate
<1> QED BY <1>15 DEF r, ample

\* What a stop is judged by does not change while the cycle goes on to act.
LEMMA SnapshotStays ==
  ASSUME UNCHANGED <<book, policy, scorer, limits, day, proposals, sent, landed, ledger>>,
         NEW c, NEW d
  PROVE  /\ Snapshot(c, d)' = Snapshot(c, d) /\ Ample(c)' = Ample(c)
         /\ Left("discount")' = Left("discount")
<1>0. /\ book' = book /\ policy' = policy /\ scorer' = scorer /\ limits' = limits
      /\ day' = day /\ proposals' = proposals /\ sent' = sent /\ ledger' = ledger
  OBVIOUS
<1>1. Left("discount")' = Left("discount") /\ Left("contact")' = Left("contact")
  BY <1>0 DEF Left
<1>2. ContactsThisWindow(c)' = ContactsThisWindow(c)
  BY <1>0 DEF ContactsThisWindow, WeekOf, IsContact
<1>3. ASSUME NEW o
      PROVE  MarginOf(c, o)' = MarginOf(c, o) /\ UpliftOf(c, o)' = UpliftOf(c, o)
  BY <1>0 DEF MarginOf, UpliftOf
<1>4. Acting(c)' = Acting(c) /\ Affordable(c, d)' = Affordable(c, d)
  BY <1>0 DEF Acting, Affordable
<1>5. ASSUME NEW is
      PROVE  Top(c, is)' = Top(c, is) /\ BestAt(c, is)' = BestAt(c, is)
  <2>1. Top(c, is)' = Top(c, is)
    BY <1>0, <1>3 DEF Top
  <2>2. BestAt(c, is)' = BestAt(c, is)
    BY <1>0, <1>3, <2>1 DEF BestAt
  <2> QED BY <2>1, <2>2
<1>6. PICK A, B : A = Acting(c) /\ B = Affordable(c, d)
  OBVIOUS
<1>7. Acting(c)' = A /\ Affordable(c, d)' = B
  BY <1>4, <1>6
<1>8. /\ Top(c, A)' = Top(c, A) /\ BestAt(c, A)' = BestAt(c, A)
      /\ Top(c, B)' = Top(c, B) /\ BestAt(c, B)' = BestAt(c, B)
  BY <1>5
<1>9. BlockedOnDiscount(c, d)' = BlockedOnDiscount(c, d)
  <2>1. BlockedOnDiscount(c, d) =
          (Top(c, B) < MinMargin /\ Top(c, A) >= MinMargin
            /\ proposals[c][BestAt(c, A)].discount > 0)
    BY <1>6 DEF BlockedOnDiscount
  <2>2. BlockedOnDiscount(c, d)' =
          (Top(c, B)' < MinMargin /\ Top(c, A)' >= MinMargin
            /\ proposals'[c][BestAt(c, A)'].discount > 0)
    BY <1>7 DEF BlockedOnDiscount
  <2> QED BY <1>0, <1>8, <2>1, <2>2
<1>10. Best(c, d)' = Best(c, d)
  <2> DEFINE free == \E i \in A : CostlessProposal(proposals[c][i])
             top == Top(c, B)
             at == BestAt(c, B)
             up == IF top > 0 THEN UpliftOf(c, proposals[c][at])
                   ELSE IF A = {} THEN 0 ELSE Max({UpliftOf(c, proposals[c][i]) : i \in A})
  <2>1. Best(c, d) = [margin |-> top, uplift |-> up,
                      needsDiscount |-> BlockedOnDiscount(c, d), costless |-> free]
    BY <1>6 DEF Best
  <2>2. Best(c, d)' = [margin |-> top', uplift |-> up',
                       needsDiscount |-> BlockedOnDiscount(c, d)', costless |-> free']
    BY <1>7 DEF Best
  <2>3. top' = top
    BY <1>8
  <2>4. up' = up
    <3>1. \A i : UpliftOf(c, proposals[c][i])' = UpliftOf(c, proposals[c][i])
      BY <1>0 DEF UpliftOf
    <3>2. PICK i : i = BestAt(c, B)
      OBVIOUS
    <3>3. BestAt(c, B)' = i
      BY <1>8, <3>2
    <3>4. UpliftOf(c, proposals[c][at])' = UpliftOf(c, proposals[c][i])'
      BY <3>3 DEF UpliftOf
    <3>5. UpliftOf(c, proposals[c][at])' = UpliftOf(c, proposals[c][at])
      BY <3>1, <3>2, <3>4
    <3>6. {UpliftOf(c, proposals[c][k])' : k \in A} = {UpliftOf(c, proposals[c][k]) : k \in A}
      BY <3>1
    <3> HIDE DEF top, at
    <3> QED BY <2>3, <3>5, <3>6
  <2>5. free' = free
    BY <1>0 DEF CostlessProposal, IsContact
  <2> HIDE DEF top, up, free
  <2> QED BY <1>9, <2>1, <2>2, <2>3, <2>4, <2>5
<1>11. Snapshot(c, d)' = Snapshot(c, d)
  BY <1>0, <1>1, <1>2, <1>10 DEF Snapshot
<1>12. Ample(c)' = Ample(c)
  BY <1>0 DEF Ample
<1> QED BY <1>1, <1>11, <1>12

\* Only a case that is open is judged, and it has no reason yet.
Judging ==
  /\ \A c \in Cases : state[c] = "open" => reason[c] = None
  /\ phase = "proposed" => \A c \in Cases : proposals[c] # << >> => state[c] = "open"
  /\ BudgetStopsAreHonest

\* Every step keeps it: Judge establishes it and nothing it reads changes before NextDay.
LEMMA JudgingHolds == Spec => []Judging
<1>1. Init => Judging
  BY DEF Init, Judging, BudgetStopsAreHonest, Cases
<1>2. PlanInv /\ Judging /\ [Next]_vars => Judging'
  <2> SUFFICES ASSUME PlanInv, Judging, [Next]_vars PROVE Judging'
    OBVIOUS
  <2>1. CASE Propose
    <3>1. /\ UNCHANGED <<book, state, reason>> /\ phase' = "proposed"
          /\ \A c \in Cases : c \notin Loaded => proposals'[c] = << >>
      BY <2>1 DEF Propose
    <3> QED BY <3>1 DEF Judging, BudgetStopsAreHonest, Cases, Loaded
  <2>2. CASE Judge
    <3> DEFINE verdict == [c \in Loaded |-> Evaluate(Snapshot(c, Left("discount")))]
               stopped == {c \in Loaded : verdict[c] # Continue}
    <3>1. /\ phase = "proposed" /\ phase' = "judged"
          /\ state' = [c \in Cases |-> IF c \in stopped THEN "stopped" ELSE state[c]]
          /\ reason' = [c \in Cases |-> IF c \in stopped THEN verdict[c] ELSE reason[c]]
          /\ UNCHANGED <<book, policy, scorer, limits, day, proposals, sent, landed, ledger, plan>>
      BY <2>2 DEF Judge
    <3>2. ASSUME NEW c \in Cases, state'[c] = "open"
          PROVE  reason'[c] = None
      <4>1. c \notin stopped
        BY <3>1, <3>2
      <4> HIDE DEF stopped, verdict
      <4> QED BY <3>1, <3>2, <4>1 DEF Judging
    <3>3. ASSUME NEW c \in Cases, reason'[c] = "discount_budget_spent",
                 proposals'[c] # << >>
          PROVE  Evaluate(Snapshot(c, Ample(c)))' = Continue
      <4>1. state[c] = "open" /\ reason[c] = None
        BY <3>1, <3>3 DEF Judging
      <4>2. c \in Loaded /\ reason'[c] = Evaluate(Snapshot(c, Left("discount")))
        BY <3>1, <3>3, <4>1 DEF Loaded, None
      <4>3. PICK dl, am : dl = Left("discount") /\ am = Ample(c)
        OBVIOUS
      <4>4. dl \in Int
        BY <4>3 DEF PlanInv, Planned, Left
      <4>5. Evaluate(Snapshot(c, dl)) = "discount_budget_spent"
        BY <3>3, <4>2, <4>3
      <4>6. Evaluate(Snapshot(c, am)) = Continue
        BY <4>3, <4>4, <4>5, StoppedForTheBudgetOnly DEF PlanInv
      <4>7. Snapshot(c, am)' = Snapshot(c, am) /\ Ample(c)' = Ample(c)
        BY <3>1, SnapshotStays
      <4>8. Snapshot(c, Ample(c))' = Snapshot(c, am)'
        BY <4>3, <4>7 DEF Snapshot
      <4> QED BY <4>6, <4>7, <4>8
    <3>4. BudgetStopsAreHonest'
      BY <3>1, <3>3 DEF BudgetStopsAreHonest, Cases
    <3>5. \A c \in Cases' : state'[c] = "open" => reason'[c] = None
      BY <3>1, <3>2 DEF Cases
    <3> QED BY <3>1, <3>4, <3>5 DEF Judging
  <2>3. CASE Act
    <3>1. /\ phase' = "done" /\ UNCHANGED <<book, reason>>
          /\ \/ UNCHANGED state
             \/ \E executed \in SUBSET Ruled(Funded, "allow") : state' = Fates(Funded, executed)
      BY <2>3, Acted
    <3>2. ASSUME NEW c \in Cases, state'[c] = "open"
          PROVE  state[c] = "open"
      BY <3>1, <3>2 DEF Fates
    <3> QED BY <3>1, <3>2 DEF Judging, BudgetStopsAreHonest, Cases
  <2>4. CASE NextDay
    <3>1. phase' = "idle" /\ UNCHANGED <<book, state, reason>>
      BY <2>4 DEF NextDay
    <3> QED BY <3>1 DEF Judging, BudgetStopsAreHonest, Cases
  <2>5. CASE UNCHANGED vars
    <3>1. UNCHANGED <<book, policy, scorer, limits, day, phase, proposals, state, reason,
                      sent, landed, ledger, plan>>
      BY <2>5 DEF vars
    <3>2. ASSUME NEW c
          PROVE  Snapshot(c, Ample(c))' = Snapshot(c, Ample(c))
      <4>1. PICK am : am = Ample(c)
        OBVIOUS
      <4>2. Snapshot(c, am)' = Snapshot(c, am) /\ Ample(c)' = Ample(c)
        BY <3>1, SnapshotStays
      <4>3. Snapshot(c, Ample(c))' = Snapshot(c, am)'
        BY <4>1, <4>2 DEF Snapshot
      <4> QED BY <4>1, <4>2, <4>3
    <3>3. BudgetStopsAreHonest'
      BY <3>1, <3>2 DEF Judging, BudgetStopsAreHonest, Cases
    <3> QED BY <3>1, <3>3 DEF Judging, Cases
  <2> QED BY <2>1, <2>2, <2>3, <2>4, <2>5 DEF Next
<1> QED BY <1>1, <1>2, PlanInvHolds, PTL DEF Spec

\* "Raising the budget would change it" (pipeline.py:375-376): a case stopped because the
\* discount budget is spent would go on under a budget that pays for any of its offers.
THEOREM BudgetStopsAreReversible == Spec => []BudgetStopsAreHonest
BY JudgingHolds, PTL DEF Judging
=============================================================================
