------------------------------ MODULE FiniteSums ------------------------------
(***************************************************************************)
(* What the proofs about money rest on: the sum of a function over a       *)
(* finite set (SumFunctionOnSet of the library, which takes the elements   *)
(* in an order of its own choice) does not depend on that order, and       *)
(* changes by what is added, removed or changed.  The arguments are by a   *)
(* least counterexample, which every family of finite sets has.            *)
(***************************************************************************)
EXTENDS Integers, FiniteSetsExt, FiniteSetTheorems, TLAPS

\* Among finite sets some has no other below it.
LEMMA LeastSet ==
  ASSUME NEW U, IsFiniteSet(U), NEW Family, Family \subseteq SUBSET U, Family # {}
  PROVE  \E T \in Family : \A s \in Family : s \subseteq T => s = T
<1> DEFINE R == StrictSubsetOrdering(U)
           S == FiniteSubsetsOf(U)
<1>1. Family \subseteq S
  BY FS_Subset DEF FiniteSubsetsOf
<1>2. IsWellFoundedOn(R, S)
  BY FS_StrictSubsetOrderingWellFounded
<1>3. PICK T \in Family : \A s \in Family : ~(<<s, T>> \in R)
  <2> HIDE DEF R, S
  <2> QED
    BY <1>1, <1>2, WFMin
<1>4. ASSUME NEW s \in Family, s \subseteq T, s # T PROVE FALSE
  <2>1. <<s, T>> \in R
    BY <1>4 DEF StrictSubsetOrdering
  <2> QED
    BY <1>3, <2>1
<1> QED
  BY <1>3, <1>4

-----------------------------------------------------------------------------
(* The recursion that defines a sum *)

Unfold(f, g, s) == IF s = {} THEN 0 ELSE f[CHOOSE x \in s : TRUE] + g[s \ {CHOOSE x \in s : TRUE}]
Sums(f, S, g) == g = [s \in SUBSET S |-> Unfold(f, g, s)]
TheSums(f, S) == CHOOSE g : Sums(f, S, g)

LEMMA SumUnfolded ==
  ASSUME NEW f, NEW S
  PROVE  SumFunctionOnSet(f, S) = TheSums(f, S)[S]
BY DEF SumFunctionOnSet, FoldFunctionOnSet, MapThenFoldSet, TheSums, Sums, Unfold

\* The recursion has one solution at most, also over different sets.
LEMMA SumsAgree ==
  ASSUME NEW f, NEW T, IsFiniteSet(T), NEW S \in SUBSET T, NEW g, Sums(f, S, g), NEW h, Sums(f, T, h)
  PROVE  g[S] = h[S]
<1> DEFINE Differ == {s \in SUBSET S : g[s] # h[s]}
<1> SUFFICES ASSUME Differ # {} PROVE FALSE
  OBVIOUS
<1>1. Differ # {} /\ Differ \subseteq SUBSET T /\ \A s \in SUBSET T : IsFiniteSet(s)
  BY FS_Subset
<1>2. PICK s \in Differ : \A u \in Differ : u \subseteq s => u = s
  <2> HIDE DEF Differ
  <2> QED
    BY <1>1, LeastSet
<1> DEFINE x == CHOOSE x \in s : TRUE
<1>3. g[s] = Unfold(f, g, s) /\ h[s] = Unfold(f, h, s)
  BY DEF Sums
<1>4. s # {} /\ x \in s
  BY <1>3 DEF Unfold
<1>5. g[s \ {x}] = h[s \ {x}]
  BY <1>2, <1>4
<1> QED
  BY <1>3, <1>4, <1>5 DEF Unfold

LEMMA SumsExist ==
  ASSUME NEW f, NEW S, IsFiniteSet(S)
  PROVE  Sums(f, S, TheSums(f, S))
<1> DEFINE Bad == {s \in SUBSET S : ~ \E g : Sums(f, s, g)}
<1>1. ASSUME Bad # {} PROVE FALSE
  <2>1. Bad \subseteq SUBSET S /\ \A s \in SUBSET S : IsFiniteSet(s)
    BY FS_Subset
  <2>2. PICK T \in Bad : \A u \in Bad : u \subseteq T => u = T
    <3> HIDE DEF Bad
    <3> QED
      BY <1>1, <2>1, LeastSet
  <2>3. \A u \in SUBSET T : u # T => Sums(f, u, TheSums(f, u))
    <3> SUFFICES ASSUME NEW u \in SUBSET T, u # T PROVE Sums(f, u, TheSums(f, u))
      OBVIOUS
    <3>1. \E g : Sums(f, u, g)
      BY <2>2
    <3> QED
      BY <3>1 DEF TheSums
  <2> DEFINE C(u) == TheSums(f, u)
             G == [s \in SUBSET T |-> IF s = {} THEN 0
                    ELSE f[CHOOSE x \in s : TRUE]
                         + C(s \ {CHOOSE x \in s : TRUE})[s \ {CHOOSE x \in s : TRUE}]]
  <2> HIDE DEF C
  <2>4. \A u \in SUBSET T : u # T => G[u] = C(u)[u]
    <3> SUFFICES ASSUME NEW u \in SUBSET T, u # T PROVE G[u] = C(u)[u]
      OBVIOUS
    <3> DEFINE x == CHOOSE x \in u : TRUE
    <3>1. Sums(f, u, C(u))
      BY <2>3 DEF C
    <3>2. C(u)[u] = IF u = {} THEN 0 ELSE f[x] + C(u)[u \ {x}]
      BY <3>1 DEF Sums, Unfold
    <3>3. CASE u # {}
      <4>1. x \in u /\ u \ {x} \in SUBSET T /\ u \ {x} # T /\ u \ {x} \in SUBSET u
        BY <3>3
      <4>2. Sums(f, u \ {x}, C(u \ {x}))
        BY <2>3, <4>1 DEF C
      <4>3. IsFiniteSet(u)
        BY <2>2, FS_Subset
      <4>4. C(u \ {x})[u \ {x}] = C(u)[u \ {x}]
        <5> HIDE DEF x
        <5> QED
          BY <3>1, <4>1, <4>2, <4>3, SumsAgree
      <4> QED
        BY <3>2, <3>3, <4>4
    <3> QED
      BY <3>2, <3>3
  <2>5. \A s \in SUBSET T : G[s] = Unfold(f, G, s)
    <3> SUFFICES ASSUME NEW s \in SUBSET T PROVE G[s] = Unfold(f, G, s)
      OBVIOUS
    <3> DEFINE x == CHOOSE x \in s : TRUE
    <3>1. CASE s = {}
      BY <3>1 DEF Unfold
    <3>2. CASE s # {}
      <4>1. x \in s /\ s \ {x} \in SUBSET T /\ s \ {x} # T
        BY <3>2
      <4>2. G[s \ {x}] = C(s \ {x})[s \ {x}]
        <5> HIDE DEF x, G
        <5> QED
          BY <2>4, <4>1
      <4>3. G[s] = f[x] + C(s \ {x})[s \ {x}]
        BY <3>2
      <4> HIDE DEF G
      <4> QED
        BY <3>2, <4>2, <4>3 DEF Unfold
    <3> QED
      BY <3>1, <3>2
  <2>6. G = [s \in SUBSET T |-> G[s]]
    OBVIOUS
  <2> HIDE DEF G
  <2>7. Sums(f, T, G)
    BY <2>5, <2>6 DEF Sums
  <2> QED
    BY <2>2, <2>7
<1>2. \E g : Sums(f, S, g)
  BY <1>1
<1> QED
  BY <1>2 DEF TheSums

-----------------------------------------------------------------------------
(* What a sum is *)

LEMMA SumOfNone ==
  ASSUME NEW f
  PROVE  SumFunctionOnSet(f, {}) = 0
<1>1. Sums(f, {}, TheSums(f, {}))
  BY SumsExist, FS_EmptySet
<1> QED
  BY <1>1, SumUnfolded DEF Sums, Unfold

\* The element that the library takes first.
LEMMA SumFirst ==
  ASSUME NEW f, NEW S, IsFiniteSet(S), S # {}
  PROVE  \E x \in S : SumFunctionOnSet(f, S) = f[x] + SumFunctionOnSet(f, S \ {x})
<1> DEFINE x == CHOOSE x \in S : TRUE
<1>1. x \in S /\ IsFiniteSet(S \ {x}) /\ S \ {x} \in SUBSET S
  BY FS_RemoveElement
<1>2. Sums(f, S, TheSums(f, S))
  BY SumsExist
<1>3. TheSums(f, S)[S] = f[x] + TheSums(f, S)[S \ {x}]
  BY <1>2 DEF Sums, Unfold
<1>4. TheSums(f, S \ {x})[S \ {x}] = TheSums(f, S)[S \ {x}]
  <2> HIDE DEF x
  <2>1. Sums(f, S \ {x}, TheSums(f, S \ {x}))
    BY <1>1, SumsExist
  <2> QED
    BY <1>1, <1>2, <2>1, SumsAgree
<1> QED
  BY <1>1, <1>3, <1>4, SumUnfolded

LEMMA SumNatural ==
  ASSUME NEW f, NEW S, IsFiniteSet(S), \A x \in S : f[x] \in Nat
  PROVE  SumFunctionOnSet(f, S) \in Nat
<1> DEFINE Bad == {s \in SUBSET S : SumFunctionOnSet(f, s) \notin Nat}
<1> SUFFICES ASSUME Bad # {} PROVE FALSE
  OBVIOUS
<1>1. Bad # {} /\ Bad \subseteq SUBSET S /\ \A s \in SUBSET S : IsFiniteSet(s)
  BY FS_Subset
<1>2. PICK T \in Bad : \A u \in Bad : u \subseteq T => u = T
  <2> HIDE DEF Bad
  <2> QED
    BY <1>1, LeastSet
<1>3. T # {} /\ IsFiniteSet(T)
  BY <1>1, SumOfNone
<1>4. PICK x \in T : SumFunctionOnSet(f, T) = f[x] + SumFunctionOnSet(f, T \ {x})
  BY <1>3, SumFirst
<1>5. SumFunctionOnSet(f, T \ {x}) \in Nat
  BY <1>2, <1>4
<1> QED
  BY <1>4, <1>5

\* Any element may be taken first.
LEMMA SumAny ==
  ASSUME NEW f, NEW S, IsFiniteSet(S), \A y \in S : f[y] \in Nat, NEW x \in S
  PROVE  SumFunctionOnSet(f, S) = f[x] + SumFunctionOnSet(f, S \ {x})
<1> DEFINE Sum(s) == SumFunctionOnSet(f, s)
           Bad == {s \in SUBSET S : \E y \in s : Sum(s) # f[y] + Sum(s \ {y})}
<1> SUFFICES ASSUME Bad # {} PROVE FALSE
  OBVIOUS
<1>1. Bad # {} /\ Bad \subseteq SUBSET S /\ \A s \in SUBSET S : IsFiniteSet(s)
  BY FS_Subset
<1>2. PICK T \in Bad : \A u \in Bad : u \subseteq T => u = T
  <2> HIDE DEF Bad
  <2> QED
    BY <1>1, LeastSet
<1>3. PICK y \in T : Sum(T) # f[y] + Sum(T \ {y})
  OBVIOUS
<1>4. IsFiniteSet(T) /\ T \subseteq S
  BY <1>1
<1> HIDE DEF Sum
<1>5. PICK z \in T : Sum(T) = f[z] + Sum(T \ {z})
  BY <1>4, SumFirst DEF Sum
<1>6. y # z /\ y \in T \ {z} /\ z \in T \ {y} /\ (T \ {z}) \ {y} = (T \ {y}) \ {z}
  BY <1>3, <1>5
<1>7. \A u \in SUBSET T : u # T => \A w \in u : Sum(u) = f[w] + Sum(u \ {w})
  BY <1>2, <1>4
<1>8. /\ Sum(T \ {z}) = f[y] + Sum((T \ {z}) \ {y})
      /\ Sum(T \ {y}) = f[z] + Sum((T \ {y}) \ {z})
  BY <1>6, <1>7
<1>9. Sum((T \ {y}) \ {z}) \in Nat /\ f[y] \in Nat /\ f[z] \in Nat
  <2>1. IsFiniteSet((T \ {y}) \ {z}) /\ (T \ {y}) \ {z} \subseteq S
    BY <1>4, FS_Subset
  <2> QED
    BY <1>4, <2>1, SumNatural DEF Sum
<1>10. \A i, j, k \in Nat : i + (j + k) = j + (i + k)
  OBVIOUS
<1>11. Sum(T) = f[z] + (f[y] + Sum((T \ {y}) \ {z}))
  BY <1>5, <1>6, <1>8
<1>12. f[y] + Sum(T \ {y}) = f[y] + (f[z] + Sum((T \ {y}) \ {z}))
  BY <1>8
<1> QED
  BY <1>3, <1>9, <1>10, <1>11, <1>12

LEMMA SumSame ==
  ASSUME NEW f, NEW g, NEW S, IsFiniteSet(S), \A x \in S : f[x] = g[x]
  PROVE  SumFunctionOnSet(f, S) = SumFunctionOnSet(g, S)
<1> DEFINE Unlike == {s \in SUBSET S : SumFunctionOnSet(f, s) # SumFunctionOnSet(g, s)}
<1> SUFFICES ASSUME Unlike # {} PROVE FALSE
  OBVIOUS
<1>1. Unlike # {} /\ Unlike \subseteq SUBSET S /\ \A s \in SUBSET S : IsFiniteSet(s)
  BY FS_Subset
<1>2. PICK T \in Unlike : \A u \in Unlike : u \subseteq T => u = T
  <2> HIDE DEF Unlike
  <2> QED
    BY <1>1, LeastSet
<1>3. T # {} /\ IsFiniteSet(T) /\ T \subseteq S
  BY <1>1, SumOfNone
<1> DEFINE x == CHOOSE x \in T : TRUE
           rest == T \ {x}
<1>4. x \in T /\ rest \in SUBSET T /\ rest # T /\ IsFiniteSet(rest)
  BY <1>3, FS_RemoveElement
<1>5. SumFunctionOnSet(f, rest) = SumFunctionOnSet(g, rest)
  BY <1>2, <1>4
<1>6. \A h : SumFunctionOnSet(h, T) = h[x] + SumFunctionOnSet(h, rest)
  <2> SUFFICES ASSUME NEW h PROVE SumFunctionOnSet(h, T) = h[x] + SumFunctionOnSet(h, rest)
    OBVIOUS
  <2>1. Sums(h, T, TheSums(h, T)) /\ Sums(h, rest, TheSums(h, rest))
    <3> HIDE DEF rest
    <3> QED
      BY <1>3, <1>4, SumsExist
  <2>2. TheSums(h, T)[T] = h[x] + TheSums(h, T)[rest]
    BY <1>3, <2>1 DEF Sums, Unfold
  <2>3. TheSums(h, rest)[rest] = TheSums(h, T)[rest]
    <3> HIDE DEF rest
    <3> QED
      BY <1>3, <1>4, <2>1, SumsAgree
  <2> QED
    BY <2>2, <2>3, SumUnfolded
<1> QED
  BY <1>2, <1>3, <1>4, <1>5, <1>6

-----------------------------------------------------------------------------
(* How a sum changes *)

LEMMA SumAdded ==
  ASSUME NEW f, NEW S, IsFiniteSet(S), NEW x, x \notin S, \A y \in S \union {x} : f[y] \in Nat
  PROVE  SumFunctionOnSet(f, S \union {x}) = f[x] + SumFunctionOnSet(f, S)
<1>1. IsFiniteSet(S \union {x}) /\ x \in S \union {x} /\ (S \union {x}) \ {x} = S
  BY FS_AddElement
<1> QED
  BY <1>1, SumAny

LEMMA SumGrows ==
  ASSUME NEW f, NEW T, IsFiniteSet(T), \A y \in T : f[y] \in Nat, NEW S \in SUBSET T
  PROVE  SumFunctionOnSet(f, S) <= SumFunctionOnSet(f, T)
<1> DEFINE Sum(s) == SumFunctionOnSet(f, s)
           Bad == {u \in SUBSET T : S \subseteq u /\ ~(Sum(S) <= Sum(u))}
<1> SUFFICES ASSUME Bad # {} PROVE FALSE
  OBVIOUS
<1>1. Bad # {} /\ Bad \subseteq SUBSET T /\ \A s \in SUBSET T : IsFiniteSet(s)
  BY FS_Subset
<1>2. PICK u \in Bad : \A v \in Bad : v \subseteq u => v = u
  <2> HIDE DEF Bad
  <2> QED
    BY <1>1, LeastSet
<1>3. \A s \in SUBSET T : Sum(s) \in Nat
  BY <1>1, SumNatural
<1>4. PICK y \in u : y \notin S
  <2>1. u # S
    BY <1>2, <1>3
  <2> QED
    BY <1>2, <2>1
<1> HIDE DEF Sum
<1>5. Sum(u) = f[y] + Sum(u \ {y})
  BY <1>1, <1>2, SumAny DEF Sum
<1>6. Sum(S) <= Sum(u \ {y})
  BY <1>2, <1>4
<1>7. Sum(S) \in Nat /\ Sum(u) \in Nat /\ Sum(u \ {y}) \in Nat /\ f[y] \in Nat
  BY <1>2, <1>3
<1> QED
  BY <1>2, <1>5, <1>6, <1>7

\* One value changes.
LEMMA SumChanged ==
  ASSUME NEW S, IsFiniteSet(S), NEW x \in S, NEW f, NEW g, f[x] \in Nat, g[x] \in Nat,
         \A y \in S \ {x} : f[y] = g[y] /\ f[y] \in Nat
  PROVE  g[x] + SumFunctionOnSet(f, S) = f[x] + SumFunctionOnSet(g, S)
<1>1. IsFiniteSet(S \ {x})
  BY FS_RemoveElement
<1>2. /\ SumFunctionOnSet(f, S) = f[x] + SumFunctionOnSet(f, S \ {x})
      /\ SumFunctionOnSet(g, S) = g[x] + SumFunctionOnSet(g, S \ {x})
  BY SumAny
<1>3. SumFunctionOnSet(f, S \ {x}) = SumFunctionOnSet(g, S \ {x})
  BY <1>1, SumSame
<1>4. SumFunctionOnSet(f, S \ {x}) \in Nat
  BY <1>1, SumNatural
<1> HIDE DEF SumFunctionOnSet
<1> QED
  BY <1>2, <1>3, <1>4

\* Numbers have a smallest.
LEMMA Smallest ==
  ASSUME NEW N \in SUBSET Nat, N # {}
  PROVE  Min(N) \in N /\ \A n \in N : Min(N) <= n
<1>1. PICK bound \in N : TRUE
  OBVIOUS
<1> DEFINE below(n) == 0..n - 1
           small == {n \in N : n <= bound}
           family == {below(n) : n \in small}
<1>2. IsFiniteSet(0..bound) /\ family # {} /\ family \subseteq SUBSET (0..bound)
  <2>1. bound \in small /\ below(bound) \in family
    BY <1>1
  <2>2. \A n \in small : below(n) \subseteq 0..bound
    BY <1>1
  <2>3. family \subseteq SUBSET (0..bound)
    <3> HIDE DEF small, below
    <3> QED
      BY <2>2
  <2>4. IsFiniteSet(0..bound)
    BY <1>1, FS_Interval
  <2>5. family # {}
    BY <2>1
  <2> HIDE DEF family
  <2> QED
    BY <2>3, <2>4, <2>5
<1>3. PICK x \in family : \A y \in family : y \subseteq x => y = x
  <2> DEFINE all == 0..bound
  <2>1. IsFiniteSet(all) /\ family # {} /\ family \subseteq SUBSET all
    BY <1>2
  <2> HIDE DEF family, all
  <2> QED
    BY <2>1, LeastSet
<1>4. PICK n \in small : x = below(n)
  BY <1>3
<1>5. ASSUME NEW m \in N, ~(n <= m) PROVE FALSE
  <2>1. m \in Nat /\ n \in Nat /\ m < n /\ m \in small
    BY <1>1, <1>5
  <2>2. below(m) \in family /\ below(m) \subseteq below(n) /\ m \in below(n) /\ m \notin below(m)
    BY <2>1
  <2> QED
    BY <1>3, <1>4, <2>2
<1>6. n \in N /\ \A m \in N : n <= m
  BY <1>5
<1> QED
  BY <1>6 DEF Min

LEMMA SumZero ==
  ASSUME NEW f, NEW S, IsFiniteSet(S), \A x \in S : f[x] = 0
  PROVE  SumFunctionOnSet(f, S) = 0
<1> DEFINE Bad == {s \in SUBSET S : SumFunctionOnSet(f, s) # 0}
<1> SUFFICES ASSUME Bad # {} PROVE FALSE
  OBVIOUS
<1>1. Bad # {} /\ Bad \subseteq SUBSET S /\ \A s \in SUBSET S : IsFiniteSet(s)
  BY FS_Subset
<1>2. PICK T \in Bad : \A u \in Bad : u \subseteq T => u = T
  <2> HIDE DEF Bad
  <2> QED
    BY <1>1, LeastSet
<1>3. T # {} /\ IsFiniteSet(T)
  BY <1>1, SumOfNone
<1>4. PICK x \in T : SumFunctionOnSet(f, T) = f[x] + SumFunctionOnSet(f, T \ {x})
  BY <1>3, SumFirst
<1>5. SumFunctionOnSet(f, T \ {x}) = 0 /\ f[x] = 0
  BY <1>2, <1>4
<1> QED
  BY <1>4, <1>5

-----------------------------------------------------------------------------
(* Sums of several functions *)

\* The sum of two functions, value by value.
LEMMA SumPlus ==
  ASSUME NEW S, IsFiniteSet(S), NEW f, NEW g, NEW h,
         \A x \in S : f[x] \in Nat /\ g[x] \in Nat /\ h[x] = f[x] + g[x]
  PROVE  SumFunctionOnSet(h, S) = SumFunctionOnSet(f, S) + SumFunctionOnSet(g, S)
<1> DEFINE Sum(k, s) == SumFunctionOnSet(k, s)
           Bad == {s \in SUBSET S : Sum(h, s) # Sum(f, s) + Sum(g, s)}
<1> SUFFICES ASSUME Bad # {} PROVE FALSE
  OBVIOUS
<1>1. Bad # {} /\ Bad \subseteq SUBSET S /\ \A s \in SUBSET S : IsFiniteSet(s)
  BY FS_Subset
<1>2. PICK T \in Bad : \A u \in Bad : u \subseteq T => u = T
  <2> HIDE DEF Bad
  <2> QED
    BY <1>1, LeastSet
<1>3. T # {} /\ IsFiniteSet(T)
  <2>1. SUFFICES ASSUME T = {} PROVE FALSE
    BY <1>1, <1>2
  <2>2. SumFunctionOnSet(f, {}) = 0 /\ SumFunctionOnSet(g, {}) = 0 /\ SumFunctionOnSet(h, {}) = 0
    BY SumOfNone
  <2>3. Sum(h, T) # Sum(f, T) + Sum(g, T)
    BY <1>2
  <2> QED
    BY <2>1, <2>2, <2>3
<1>4. PICK x \in T : TRUE
  BY <1>3
<1>5. x \in S /\ T \ {x} \in SUBSET S /\ T \ {x} # T /\ T \ {x} \subseteq T /\ IsFiniteSet(T \ {x})
  BY <1>1, <1>4
<1>6. \A y \in S : f[y] \in Nat /\ g[y] \in Nat /\ h[y] \in Nat
  OBVIOUS
<1>7. /\ Sum(f, T) = f[x] + Sum(f, T \ {x})
      /\ Sum(g, T) = g[x] + Sum(g, T \ {x})
      /\ Sum(h, T) = h[x] + Sum(h, T \ {x})
  BY <1>3, <1>6, SumAny
<1>8. Sum(f, T \ {x}) \in Nat /\ Sum(g, T \ {x}) \in Nat
  BY <1>5, <1>6, SumNatural
<1>9. Sum(h, T \ {x}) = Sum(f, T \ {x}) + Sum(g, T \ {x})
  BY <1>2, <1>5
<1>10. Sum(h, T) # Sum(f, T) + Sum(g, T)
  BY <1>2
<1>11. h[x] = f[x] + g[x] /\ f[x] \in Nat /\ g[x] \in Nat
  BY <1>5
<1> HIDE DEF Sum
<1> QED
  BY <1>7, <1>8, <1>9, <1>10, <1>11

\* A function that is one value on a subset and zero elsewhere.
LEMMA SumConstant ==
  ASSUME NEW S, IsFiniteSet(S), NEW C \in SUBSET S, NEW c \in Nat, NEW f,
         \A x \in S : f[x] = IF x \in C THEN c ELSE 0
  PROVE  SumFunctionOnSet(f, S) = c * Cardinality(C)
<1> DEFINE Sum(s) == SumFunctionOnSet(f, s)
           Bad == {s \in SUBSET S : Sum(s) # c * Cardinality(s \cap C)}
<1>1. ASSUME Bad # {} PROVE FALSE
  <2>1. Bad # {} /\ Bad \subseteq SUBSET S /\ \A s \in SUBSET S : IsFiniteSet(s)
    BY <1>1, FS_Subset
  <2>2. PICK T \in Bad : \A u \in Bad : u \subseteq T => u = T
    <3> HIDE DEF Bad
    <3> QED
      BY <2>1, LeastSet
  <2>3. T # {} /\ IsFiniteSet(T)
    <3>1. SUFFICES ASSUME T = {} PROVE FALSE
      BY <2>1, <2>2
    <3>2. SumFunctionOnSet(f, {}) = 0 /\ Cardinality({}) = 0
      BY SumOfNone, FS_EmptySet
    <3>3. Sum(T) # c * Cardinality(T \cap C) /\ T \cap C = {}
      BY <2>2, <3>1
    <3>4. Sum(T) = 0 /\ Cardinality(T \cap C) = 0
      BY <3>1, <3>2, <3>3
    <3> QED
      BY <3>3, <3>4
  <2>4. PICK x \in T : TRUE
    BY <2>3
  <2> DEFINE u == T \ {x}
  <2>5. x \in S /\ u \in SUBSET S /\ u # T /\ u \subseteq T /\ IsFiniteSet(u \cap C)
    BY <2>1, <2>4, FS_Subset
  <2>6. Sum(T) = f[x] + Sum(u)
    BY <2>3, SumAny
  <2>7. Sum(u) = c * Cardinality(u \cap C)
    BY <2>2, <2>5
  <2>8. Cardinality(u \cap C) \in Nat
    BY <2>5, FS_CardinalityType
  <2>9. Sum(T) # c * Cardinality(T \cap C)
    BY <2>2
  <2>10. CASE x \in C
    <3>1. T \cap C = (u \cap C) \cup {x} /\ x \notin u \cap C
      BY <2>4, <2>10
    <3>2. Cardinality(T \cap C) = Cardinality(u \cap C) + 1
      BY <2>5, <3>1, FS_AddElement
    <3>3. f[x] = c
      BY <2>5, <2>10
    <3>4. \A k \in Nat : c + c * k = c * (k + 1)
      OBVIOUS
    <3> HIDE DEF Sum, u
    <3> QED
      BY <2>6, <2>7, <2>8, <2>9, <3>2, <3>3, <3>4
  <2>11. CASE x \notin C
    <3>1. T \cap C = u \cap C
      BY <2>4, <2>11
    <3>2. f[x] = 0
      BY <2>5, <2>11
    <3> DEFINE k == c * Cardinality(u \cap C)
    <3>3. k \in Nat
      BY <2>8
    <3>4. Sum(T) # k
      BY <2>9, <3>1
    <3>5. Sum(u) = k
      BY <2>7
    <3> HIDE DEF Sum, u, k
    <3> QED
      BY <2>6, <3>2, <3>3, <3>4, <3>5
  <2> QED
    BY <2>10, <2>11
<1>2. S \in SUBSET S /\ S \cap C = C
  OBVIOUS
<1> QED
  BY <1>1, <1>2

\* Zero values may be left out.
LEMMA SumOnlyWhere ==
  ASSUME NEW S, IsFiniteSet(S), NEW C \in SUBSET S, NEW f, NEW g,
         \A x \in S : f[x] \in Nat /\ (x \notin C => f[x] = 0),
         \A x \in C : g[x] = f[x]
  PROVE  SumFunctionOnSet(f, S) = SumFunctionOnSet(g, C)
<1> DEFINE Sum(s) == SumFunctionOnSet(f, s)
           Bad == {s \in SUBSET S : Sum(s) # Sum(s \cap C)}
<1>1. ASSUME Bad # {} PROVE FALSE
  <2>1. Bad # {} /\ Bad \subseteq SUBSET S /\ \A s \in SUBSET S : IsFiniteSet(s)
    BY <1>1, FS_Subset
  <2>2. PICK T \in Bad : \A u \in Bad : u \subseteq T => u = T
    <3> HIDE DEF Bad
    <3> QED
      BY <2>1, LeastSet
  <2>3. PICK x \in T : x \notin C
    <3>1. T \cap C # T
      BY <2>2
    <3> QED
      BY <3>1
  <2> DEFINE u == T \ {x}
  <2>4. x \in S /\ u \in SUBSET S /\ u # T /\ u \subseteq T /\ u \cap C = T \cap C /\ IsFiniteSet(T)
    BY <2>1, <2>3
  <2>5. Sum(T) = f[x] + Sum(u)
    BY <2>4, SumAny
  <2>6. Sum(u) = Sum(T \cap C)
    <3>1. u \notin Bad
      BY <2>2, <2>4
    <3> HIDE DEF u
    <3> QED
      BY <2>4, <3>1
  <2>7. Sum(u) \in Nat /\ f[x] = 0
    BY <2>1, <2>3, <2>4, SumNatural
  <2>8. Sum(T) # Sum(T \cap C)
    BY <2>2
  <2> HIDE DEF Sum, u
  <2> QED
    BY <2>5, <2>6, <2>7, <2>8
<1>2. Sum(S) = Sum(S \cap C)
  BY <1>1
<1>3. S \cap C = C /\ IsFiniteSet(C)
  BY FS_Subset
<1>4. Sum(C) = SumFunctionOnSet(g, C)
  BY <1>3, SumSame
<1> QED
  BY <1>2, <1>3, <1>4

\* Values no greater give a sum no greater.
LEMMA SumBelow ==
  ASSUME NEW S, IsFiniteSet(S), NEW f, NEW g,
         \A x \in S : f[x] \in Nat /\ g[x] \in Nat /\ f[x] <= g[x]
  PROVE  SumFunctionOnSet(f, S) <= SumFunctionOnSet(g, S)
<1> DEFINE d == [x \in S |-> g[x] - f[x]]
<1>1. \A x \in S : d[x] \in Nat /\ g[x] = f[x] + d[x]
  OBVIOUS
<1> HIDE DEF d
<1>2. SumFunctionOnSet(g, S) = SumFunctionOnSet(f, S) + SumFunctionOnSet(d, S)
  BY <1>1, SumPlus
<1>3. SumFunctionOnSet(f, S) \in Nat /\ SumFunctionOnSet(d, S) \in Nat
  BY <1>1, SumNatural
<1> QED
  BY <1>2, <1>3

Transposed(h, g, S, T) == \A x \in S, y \in T : h[x][y] \in Nat /\ g[y][x] = h[x][y]
SumsOf(sums, h, S, T) == \A x \in S : sums[x] = SumFunctionOnSet(h[x], T)

\* A sum by rows is the sum by columns.
LEMMA SumSwapped ==
  ASSUME NEW S, IsFiniteSet(S), NEW T, IsFiniteSet(T),
         NEW h, NEW g, Transposed(h, g, S, T),
         NEW rows, SumsOf(rows, h, S, T), NEW columns, SumsOf(columns, g, T, S)
  PROVE  SumFunctionOnSet(rows, S) = SumFunctionOnSet(columns, T)
<1> USE DEF Transposed, SumsOf
<1> DEFINE col(s) == [y \in T |-> SumFunctionOnSet(g[y], s)]
           Bad == {s \in SUBSET S : SumFunctionOnSet(rows, s) # SumFunctionOnSet(col(s), T)}
<1>1. ASSUME Bad # {} PROVE FALSE
  <2>1. Bad # {} /\ Bad \subseteq SUBSET S /\ \A s \in SUBSET S : IsFiniteSet(s)
    BY <1>1, FS_Subset
  <2>2. PICK s \in Bad : \A u \in Bad : u \subseteq s => u = s
    <3> HIDE DEF Bad
    <3> QED
      BY <2>1, LeastSet
  <2>3. s # {}
    <3>1. SUFFICES ASSUME s = {} PROVE FALSE
      OBVIOUS
    <3>2. SumFunctionOnSet(rows, {}) = 0
      BY SumOfNone
    <3>3. \A y \in T : col({})[y] = 0
      BY SumOfNone
    <3>4. SumFunctionOnSet(col({}), T) = 0
      <4> HIDE DEF col
      <4> QED BY <3>3, SumZero
    <3> QED
      BY <2>2, <3>1, <3>2, <3>4
  <2>4. PICK x \in s : TRUE
    BY <2>3
  <2> DEFINE u == s \ {x}
  <2>5. /\ x \in S /\ s \in SUBSET S /\ u \in SUBSET S /\ u # s /\ u \subseteq s
        /\ IsFiniteSet(s) /\ IsFiniteSet(u)
    BY <2>1, <2>4
  <2>6. \A z \in S : rows[z] \in Nat
    BY SumNatural
  <2>7. SumFunctionOnSet(rows, s) = rows[x] + SumFunctionOnSet(rows, u)
    BY <2>5, <2>6, SumAny
  <2>8. \A y \in T : /\ h[x][y] \in Nat /\ col(u)[y] \in Nat
                     /\ col(s)[y] = h[x][y] + col(u)[y]
    <3> SUFFICES ASSUME NEW y \in T
                 PROVE  /\ h[x][y] \in Nat /\ col(u)[y] \in Nat
                        /\ col(s)[y] = h[x][y] + col(u)[y]
      OBVIOUS
    <3> DEFINE c == g[y]
    <3>1. \A z \in S : c[z] \in Nat
      OBVIOUS
    <3>2. c[x] = h[x][y]
      BY <2>5
    <3>3. col(s)[y] = SumFunctionOnSet(c, s) /\ col(u)[y] = SumFunctionOnSet(c, u)
      OBVIOUS
    <3> HIDE DEF c
    <3>4. SumFunctionOnSet(c, s) = c[x] + SumFunctionOnSet(c, u)
      BY <2>5, <3>1, SumAny
    <3>5. SumFunctionOnSet(c, u) \in Nat
      BY <2>5, <3>1, SumNatural
    <3> HIDE DEF col
    <3> QED
      BY <2>5, <3>2, <3>3, <3>4, <3>5
  <2>9. SumFunctionOnSet(col(s), T) = SumFunctionOnSet(h[x], T) + SumFunctionOnSet(col(u), T)
    <3> DEFINE whole == col(s)
               row == h[x]
               rest == col(u)
    <3>1. \A y \in T : row[y] \in Nat /\ rest[y] \in Nat /\ whole[y] = row[y] + rest[y]
      BY <2>8
    <3> HIDE DEF whole, row, rest
    <3>2. SumFunctionOnSet(whole, T) = SumFunctionOnSet(row, T) + SumFunctionOnSet(rest, T)
      BY <3>1, SumPlus
    <3> QED BY <3>2 DEF whole, row, rest
  <2>10. SumFunctionOnSet(rows, u) = SumFunctionOnSet(col(u), T)
    <3>1. u \notin Bad
      BY <2>2, <2>5
    <3> HIDE DEF u, col
    <3> QED
      BY <2>5, <3>1
  <2>11. SumFunctionOnSet(rows, s) # SumFunctionOnSet(col(s), T)
    BY <2>2
  <2>12. rows[x] = SumFunctionOnSet(h[x], T)
    BY <2>5
  <2> HIDE DEF col, u
  <2> QED
    BY <2>7, <2>9, <2>10, <2>11, <2>12
<1>2. SumFunctionOnSet(rows, S) = SumFunctionOnSet(col(S), T)
  BY <1>1
<1>3. \A y \in T : col(S)[y] = columns[y]
  OBVIOUS
<1>4. SumFunctionOnSet(col(S), T) = SumFunctionOnSet(columns, T)
  <2> HIDE DEF col
  <2> QED BY <1>3, SumSame
<1> QED
  BY <1>2, <1>4

\* A finite set of numbers has a largest.
LEMMA Largest ==
  ASSUME NEW T \in SUBSET Nat, IsFiniteSet(T), T # {}
  PROVE  Max(T) \in T /\ \A n \in T : n <= Max(T)
<1> DEFINE above(n) == {m \in T : n < m}
           family == {above(n) : n \in T}
<1>1. family # {} /\ family \subseteq SUBSET T /\ IsFiniteSet(T)
  OBVIOUS
<1>2. PICK x \in family : \A y \in family : y \subseteq x => y = x
  <2> DEFINE all == T
  <2>1. family # {} /\ family \subseteq SUBSET all /\ IsFiniteSet(all)
    BY <1>1
  <2> HIDE DEF family, all
  <2> QED
    BY <2>1, LeastSet
<1>3. PICK n \in T : x = above(n)
  BY <1>2
<1>4. ASSUME NEW m \in T, ~(m <= n) PROVE FALSE
  <2>1. m \in Nat /\ n \in Nat /\ n < m
    BY <1>4
  <2>2. above(m) \subseteq above(n)
    <3>1. ASSUME NEW k \in T, m < k PROVE n < k
      <4>1. k \in Nat
        OBVIOUS
      <4> QED BY <2>1, <3>1, <4>1
    <3> QED BY <3>1
  <2>3. above(m) \in family /\ m \in above(n) /\ m \notin above(m)
    BY <2>1
  <2> QED
    BY <1>2, <1>3, <2>2, <2>3
<1>5. n \in T /\ \A m \in T : m <= n
  BY <1>4
<1>6. \A m \in T : n >= m
  BY <1>5
<1> QED
  BY <1>5, <1>6 DEF Max
===============================================================================
