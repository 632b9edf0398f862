------------------------------ MODULE HandProofs ------------------------------
(***************************************************************************)
(* Proofs about the life of a table in the engine, the betting of a hand,  *)
(* its settlement and the next deal: for every number of players, blinds,  *)
(* stacks and add-ons, and however the cards fall.                         *)
(***************************************************************************)
EXTENDS Hand, FiniteSums

------------------------------------------------------------------------------
(***************************************************************************)
(* The ring of seats                                                       *)
(***************************************************************************)

\* The walk around the table finds the nearest seat of a non-empty set
\* (nextActivePlayer and nextFundedPlayer terminate with the seat they seek).
LEMMA NearestSeat ==
  ASSUME NEW S \in SUBSET Seats, S # {}, NEW from \in Seats
  PROVE  /\ NextClockwise(S, from) \in S
         /\ \A q \in S : Clockwise(from, NextClockwise(S, from)) <= Clockwise(from, q)
<1> DEFINE T == {Clockwise(from, p) : p \in S}
<1>1. \A p \in S : Clockwise(from, p) \in Nat
  BY SeatsAssumption DEF Seats, Clockwise
<1>2. PICK t \in T : \A u \in T : t <= u
  <2>1. T \in SUBSET Nat /\ T # {}
    BY <1>1
  <2> QED BY <2>1, Smallest
<1>3. \E p \in S : \A q \in S : Clockwise(from, p) <= Clockwise(from, q)
  BY <1>2
<1> QED BY <1>3 DEF NextClockwise

------------------------------------------------------------------------------
(***************************************************************************)
(* The settlement of a hand, as arithmetic: for whatever commitments,      *)
(* contenders and scores.                                                  *)
(***************************************************************************)
Commitments == [Seats -> Nat]

\* Somebody still in the hand has committed as much as anybody.
Covers(committed, alive) ==
  \E p \in alive : \A q \in Seats : committed[q] <= committed[p]

LEMMA SeatsFinite == IsFiniteSet(Seats) /\ \A S \in SUBSET Seats : IsFiniteSet(S)
<1>1. IsFiniteSet(Seats)
  BY SeatsAssumption, FS_Interval DEF Seats
<1> QED
  BY <1>1, FS_Subset

LEMMA CardinalityNatural ==
  ASSUME NEW S \in SUBSET Seats
  PROVE  Cardinality(S) \in Nat /\ (S # {} => Cardinality(S) \in 1..9)
<1>1. IsFiniteSet(S) /\ IsFiniteSet(Seats)
  BY SeatsFinite
<1>2. Cardinality(Seats) = N
  BY SeatsAssumption, FS_Interval DEF Seats
<1>3. Cardinality(S) \in Nat /\ Cardinality(S) <= N
  BY <1>1, <1>2, FS_CardinalityType, FS_Subset
<1>4. S # {} => Cardinality(S) # 0
  BY <1>1, FS_EmptySet
<1> QED
  BY <1>3, <1>4, SeatsAssumption

\* The seats of a ring are met one at a time.
LEMMA RingOrder ==
  ASSUME NEW from \in Seats, NEW p \in Seats, NEW q \in Seats
  PROVE  /\ Clockwise(from, p) \in Nat
         /\ Clockwise(from, p) = Clockwise(from, q) => p = q
BY SeatsAssumption DEF Seats, Clockwise

\* In a set of seats some seat is met last.
LEMMA LastSeat ==
  ASSUME NEW S \in SUBSET Seats, S # {}, NEW from \in Seats
  PROVE  \E z \in S : \A p \in S \ {z} : Clockwise(from, p) < Clockwise(from, z)
<1> DEFINE steps == {Clockwise(from, p) : p \in S}
<1>1. steps \in SUBSET Nat /\ steps # {}
  BY RingOrder
<1>2. IsFiniteSet(steps)
  <2>1. \A p \in S : Clockwise(from, p) \in 0..N
    BY SeatsAssumption DEF Seats, Clockwise
  <2>2. steps \subseteq 0..N /\ IsFiniteSet(0..N)
    BY <2>1, SeatsAssumption, FS_Interval
  <2> QED BY <2>2, FS_Subset
<1>3. PICK z \in S : \A p \in S : Clockwise(from, p) <= Clockwise(from, z)
  <2>1. \E n \in steps : \A m \in steps : m <= n
    <3> HIDE DEF steps
    <3> QED BY <1>1, <1>2, Largest
  <2> QED BY <2>1
<1>4. ASSUME NEW p \in S \ {z} PROVE Clockwise(from, p) < Clockwise(from, z)
  <2>1. /\ Clockwise(from, p) \in Nat /\ Clockwise(from, z) \in Nat
        /\ Clockwise(from, p) # Clockwise(from, z)
    BY RingOrder
  <2> QED BY <1>3, <2>1
<1> QED BY <1>4

------------------------------------------------------------------------------
(* One pot *)

Ahead(S, from, p) == {q \in S : Clockwise(from, q) < Clockwise(from, p)}

\* Exactly k of at least k winners have fewer than k winners before them.
LEMMA FirstSeats ==
  ASSUME NEW W \in SUBSET Seats, NEW from \in Seats, NEW k \in Nat, k <= Cardinality(W)
  PROVE  Cardinality({p \in W : Cardinality(Ahead(W, from, p)) < k}) = k
<1> DEFINE First(S) == {p \in S : Cardinality(Ahead(S, from, p)) < k}
           Bad == {S \in SUBSET W : k <= Cardinality(S) /\ Cardinality(First(S)) # k}
<1>1. ASSUME Bad # {} PROVE FALSE
  <2>1. Bad # {} /\ Bad \subseteq SUBSET W /\ IsFiniteSet(W)
    BY <1>1, SeatsFinite
  <2>2. PICK T \in Bad : \A u \in Bad : u \subseteq T => u = T
    <3> HIDE DEF Bad
    <3> QED
      BY <2>1, LeastSet
  <2>3. /\ T \in SUBSET Seats /\ IsFiniteSet(T) /\ k <= Cardinality(T) /\ Cardinality(First(T)) # k
        /\ Cardinality(T) \in Nat
    BY <2>2, SeatsFinite, CardinalityNatural
  <2>4. \A p \in T : /\ Ahead(T, from, p) \subseteq T \ {p}
                     /\ IsFiniteSet(Ahead(T, from, p))
                     /\ Cardinality(Ahead(T, from, p)) \in Nat
                     /\ Cardinality(Ahead(T, from, p)) < Cardinality(T)
    <3> SUFFICES ASSUME NEW p \in T
                 PROVE  /\ Ahead(T, from, p) \subseteq T \ {p}
                        /\ IsFiniteSet(Ahead(T, from, p))
                        /\ Cardinality(Ahead(T, from, p)) \in Nat
                        /\ Cardinality(Ahead(T, from, p)) < Cardinality(T)
      OBVIOUS
    <3>1. Clockwise(from, p) \in Nat
      BY <2>3, RingOrder
    <3>2. Ahead(T, from, p) \subseteq T \ {p}
      BY <3>1 DEF Ahead
    <3>3. IsFiniteSet(T \ {p}) /\ Cardinality(T \ {p}) = Cardinality(T) - 1
      BY <2>3, FS_RemoveElement
    <3>4. /\ IsFiniteSet(Ahead(T, from, p))
          /\ Cardinality(Ahead(T, from, p)) <= Cardinality(T \ {p})
      BY <3>2, <3>3, FS_Subset
    <3>5. Cardinality(Ahead(T, from, p)) \in Nat
      BY <3>4, FS_CardinalityType
    <3> QED BY <2>3, <3>2, <3>3, <3>4, <3>5
  <2>5. Cardinality(T) # k
    <3>1. Cardinality(T) = k => First(T) = T
      BY <2>4
    <3> QED BY <2>3, <3>1
  <2>6. T # {}
    BY <2>3, <2>5, FS_EmptySet
  <2>7. PICK z \in T : \A p \in T \ {z} : Clockwise(from, p) < Clockwise(from, z)
    BY <2>3, <2>6, LastSeat
  <2> DEFINE u == T \ {z}
  <2>8. /\ IsFiniteSet(u) /\ Cardinality(u) = Cardinality(T) - 1
        /\ u \in SUBSET W /\ u \subseteq T /\ u # T
    BY <2>3, <2>7, FS_RemoveElement
  <2>9. Ahead(T, from, z) = u
    BY <2>4, <2>7 DEF Ahead
  <2>10. \A p \in u : Ahead(T, from, p) = Ahead(u, from, p)
    <3> SUFFICES ASSUME NEW p \in u PROVE Ahead(T, from, p) = Ahead(u, from, p)
      OBVIOUS
    <3>1. Clockwise(from, p) < Clockwise(from, z)
      BY <2>7
    <3>2. Clockwise(from, p) \in Nat /\ Clockwise(from, z) \in Nat
      BY <2>3, <2>7, RingOrder
    <3>3. ~(Clockwise(from, z) < Clockwise(from, p))
      BY <3>1, <3>2
    <3> QED BY <3>3 DEF Ahead
  <2>11. z \notin First(T)
    <3>1. Cardinality(Ahead(T, from, z)) = Cardinality(T) - 1
      BY <2>8, <2>9
    <3>2. ~(Cardinality(Ahead(T, from, z)) < k)
      BY <2>3, <2>5, <3>1
    <3> QED BY <3>2
  <2>12. First(T) = First(u)
    BY <2>7, <2>10, <2>11
  <2>13. u \in Bad
    BY <2>3, <2>5, <2>8, <2>12
  <2> HIDE DEF u, Bad
  <2> QED BY <2>2, <2>8, <2>13
<1>2. W \in SUBSET W
  OBVIOUS
<1> QED BY <1>1, <1>2

\* A pot is shared out to the last chip.
LEMMA PotShared ==
  ASSUME NEW amount \in Nat, NEW W \in SUBSET Seats, W # {}, NEW button \in Seats
  PROVE  /\ \A p \in Seats : Award(amount, W, button, p) \in Nat
         /\ SumFunctionOnSet([p \in Seats |-> Award(amount, W, button, p)], Seats) = amount
<1> DEFINE n == Cardinality(W)
           share == amount \div n
           odd == amount % n
           first == {p \in W : Cardinality(Ahead(W, button, p)) < odd}
           f == [p \in Seats |-> IF p \in W THEN share ELSE 0]
           g == [p \in Seats |-> IF p \in first THEN 1 ELSE 0]
           h == [p \in Seats |-> Award(amount, W, button, p)]
<1>1. n \in 1..9
  BY CardinalityNatural
<1>2. share \in Nat /\ odd \in Nat /\ odd <= n /\ share * n + odd = amount
  <2> HIDE DEF n
  <2> QED BY <1>1
<1>3. \A p \in Seats : f[p] \in Nat /\ g[p] \in Nat /\ h[p] = f[p] + g[p]
  <2> SUFFICES ASSUME NEW p \in Seats PROVE f[p] \in Nat /\ g[p] \in Nat /\ h[p] = f[p] + g[p]
    OBVIOUS
  <2>1. f[p] \in Nat /\ g[p] \in Nat
    BY <1>2
  <2>2. CASE p \in W
    <3>1. h[p] = share + (IF Cardinality(Ahead(W, button, p)) < odd THEN 1 ELSE 0)
      BY <2>2 DEF Award, Ahead
    <3>2. g[p] = (IF Cardinality(Ahead(W, button, p)) < odd THEN 1 ELSE 0) /\ f[p] = share
      BY <2>2
    <3> QED BY <2>1, <3>1, <3>2
  <2>3. CASE p \notin W
    <3>1. h[p] = 0 /\ f[p] = 0 /\ g[p] = 0
      BY <2>3 DEF Award
    <3> QED BY <3>1
  <2> QED BY <2>1, <2>2, <2>3
<1>4. SumFunctionOnSet(h, Seats) = SumFunctionOnSet(f, Seats) + SumFunctionOnSet(g, Seats)
  <2> HIDE DEF f, g, h
  <2> QED BY <1>3, SeatsFinite, SumPlus
<1>5. SumFunctionOnSet(f, Seats) = share * n
  <2>1. \A p \in Seats : f[p] = IF p \in W THEN share ELSE 0
    OBVIOUS
  <2> HIDE DEF f, share
  <2> QED BY <1>2, <2>1, SeatsFinite, SumConstant
<1>6. SumFunctionOnSet(g, Seats) = odd
  <2>1. \A p \in Seats : g[p] = IF p \in first THEN 1 ELSE 0
    OBVIOUS
  <2>2. first \in SUBSET Seats
    OBVIOUS
  <2>3. Cardinality(first) = odd
    <3> HIDE DEF odd
    <3> QED BY <1>2, FirstSeats
  <2>4. SumFunctionOnSet(g, Seats) = 1 * Cardinality(first)
    <3> HIDE DEF g, first
    <3> QED BY <2>1, <2>2, SeatsFinite, SumConstant
  <2> HIDE DEF odd, g, first
  <2> QED BY <1>2, <2>3, <2>4
<1>7. \A p \in Seats : h[p] \in Nat
  <2> HIDE DEF f, g, h
  <2> QED BY <1>3
<1>8. SumFunctionOnSet(h, Seats) = amount
  <2> HIDE DEF f, g, h, share, odd, n
  <2> QED BY <1>2, <1>4, <1>5, <1>6
<1> QED BY <1>7, <1>8

\* No player gets more than the pot, a player who is not among the winners
\* nothing, and one who wins alone all of it.
LEMMA AwardBounds ==
  ASSUME NEW amount \in Nat, NEW W \in SUBSET Seats, NEW button \in Seats, NEW p \in Seats
  PROVE  /\ Award(amount, W, button, p) \in Nat
         /\ Award(amount, W, button, p) <= amount
         /\ p \notin W => Award(amount, W, button, p) = 0
         /\ W = {p} => Award(amount, W, button, p) = amount
<1>1. p \notin W => Award(amount, W, button, p) = 0
  BY DEF Award
<1>2. CASE p \in W
  <2> DEFINE h == [q \in Seats |-> Award(amount, W, button, q)]
  <2>1. /\ \A q \in Seats : h[q] \in Nat
        /\ SumFunctionOnSet(h, Seats) = amount
    BY <1>2, PotShared
  <2>2. h[p] = Award(amount, W, button, p)
    OBVIOUS
  <2> HIDE DEF h
  <2>3. /\ SumFunctionOnSet(h, Seats) = h[p] + SumFunctionOnSet(h, Seats \ {p})
        /\ SumFunctionOnSet(h, Seats \ {p}) \in Nat
    <3>1. IsFiniteSet(Seats \ {p})
      BY SeatsFinite
    <3> QED BY <2>1, <3>1, SeatsFinite, SumAny, SumNatural
  <2>4. h[p] <= amount
    BY <2>1, <2>3
  <2>5. W = {p} => h[p] = amount
    <3>1. SUFFICES ASSUME W = {p} PROVE h[p] = amount
      OBVIOUS
    <3>2. SumFunctionOnSet(h, Seats \ {p}) = 0
      <4>1. \A q \in Seats \ {p} : h[q] = 0
        BY <3>1 DEF h, Award
      <4>2. IsFiniteSet(Seats \ {p})
        BY SeatsFinite
      <4> QED BY <4>1, <4>2, SumZero
    <3> QED BY <2>1, <2>3, <3>2
  <2> QED BY <1>2, <2>1, <2>2, <2>4, <2>5
<1> QED BY <1>1, <1>2

------------------------------------------------------------------------------
(* The levels at which the pots are cut *)

LEMMA LevelsFinite ==
  ASSUME NEW committed \in Commitments
  PROVE  /\ Levels(committed) \in SUBSET (Nat \ {0})
         /\ IsFiniteSet(Levels(committed))
         /\ \A p \in Seats : committed[p] # 0 => committed[p] \in Levels(committed)
<1> DEFINE all == {committed[p] : p \in Seats}
<1>1. all \in SUBSET Nat
  BY DEF Commitments
<1>2. committed \in Surjection(Seats, all)
  BY DEF Commitments, Surjection
<1>3. IsFiniteSet(all)
  <2> HIDE DEF all
  <2> QED BY <1>2, SeatsFinite, FS_Surjection
<1>4. IsFiniteSet(all \ {0})
  <2> HIDE DEF all
  <2> QED BY <1>3, FS_Subset
<1> QED BY <1>1, <1>4 DEF Levels

\* A level is above the one below it, and nothing is committed in between.
LEMMA LevelBelow ==
  ASSUME NEW committed \in Commitments, NEW level \in Levels(committed)
  PROVE  /\ Below(committed, level) \in Nat /\ Below(committed, level) < level
         /\ Below(committed, level) \in {0} \cup Levels(committed)
         /\ \A l \in Levels(committed) : l < level => l <= Below(committed, level)
         /\ \A p \in Seats : committed[p] < level => committed[p] <= Below(committed, level)
<1> DEFINE lower == {0} \cup {l \in Levels(committed) : l < level}
<1>1. level \in Nat /\ level > 0 /\ Levels(committed) \in SUBSET Nat
  BY LevelsFinite
<1>2. lower \in SUBSET Nat /\ lower # {} /\ \A l \in lower : l < level
  BY <1>1
<1>3. IsFiniteSet(lower)
  <2>1. lower \subseteq 0..level
    <3>1. \A l \in lower : l \in Nat /\ l < level
      BY <1>2
    <3> HIDE DEF lower
    <3> QED BY <1>1, <3>1
  <2>2. IsFiniteSet(0..level)
    BY <1>1, FS_Interval
  <2> QED BY <2>1, <2>2, FS_Subset
<1>4. Max(lower) \in lower /\ \A l \in lower : l <= Max(lower)
  <2> HIDE DEF lower
  <2> QED BY <1>2, <1>3, Largest
<1>5. Below(committed, level) = Max(lower)
  BY DEF Below
<1>6. \A p \in Seats : committed[p] < level => committed[p] \in lower
  BY LevelsFinite
<1>7. \A l \in Levels(committed) : l < level => l \in lower
  OBVIOUS
<1>8. lower \subseteq {0} \cup Levels(committed)
  OBVIOUS
<1> HIDE DEF lower
<1> QED BY <1>2, <1>4, <1>5, <1>6, <1>7, <1>8

LEMMA SliceNatural ==
  ASSUME NEW committed \in Commitments, NEW level \in Levels(committed)
  PROVE  /\ Slice(committed, level) \in Nat
         /\ Contributors(committed, level) \in SUBSET Seats
         /\ Contributors(committed, level) # {}
<1>1. Contributors(committed, level) \in SUBSET Seats
  BY DEF Contributors
<1>2. level - Below(committed, level) \in Nat
  <2>1. level \in Nat
    BY LevelsFinite
  <2> QED BY <2>1, LevelBelow
<1>3. Cardinality(Contributors(committed, level)) \in Nat
  BY <1>1, CardinalityNatural
<1>4. Contributors(committed, level) # {}
  <2>1. PICK p \in Seats : committed[p] = level
    BY DEF Levels
  <2>2. level \in Nat
    BY LevelsFinite
  <2> QED BY <2>1, <2>2 DEF Contributors
<1>5. Slice(committed, level) \in Nat
  <2>1. \A i, j \in Nat : i * j \in Nat
    OBVIOUS
  <2> QED BY <1>2, <1>3, <2>1 DEF Slice
<1> QED BY <1>1, <1>4, <1>5

\* The slices up to a level hold what each player has committed up to it.
Slices(committed) == [l \in Levels(committed) |-> Slice(committed, l)]
Capped(committed, cap) == [q \in Seats |-> MinOf(cap, committed[q])]
UpTo(committed, cap) == {l \in Levels(committed) : l <= cap}

LEMMA SlicesUpTo ==
  ASSUME NEW committed \in Commitments, NEW cap \in {0} \cup Levels(committed)
  PROVE  SumFunctionOnSet(Slices(committed), UpTo(committed, cap))
           = SumFunctionOnSet(Capped(committed, cap), Seats)
<1> DEFINE all == {0} \cup Levels(committed)
           Holds(m) == SumFunctionOnSet(Slices(committed), UpTo(committed, m))
                         = SumFunctionOnSet(Capped(committed, m), Seats)
           Bad == {m \in all : ~Holds(m)}
<1>1. ASSUME Bad # {} PROVE FALSE
  <2>1. Bad \in SUBSET Nat
    BY LevelsFinite
  <2>2. PICK m \in Bad : \A k \in Bad : m <= k
    <3> HIDE DEF Bad
    <3> QED BY <1>1, <2>1, Smallest
  <2>3. CASE m = 0
    <3>1. UpTo(committed, 0) = {}
      <4>1. \A l \in Levels(committed) : ~(l <= 0)
        BY LevelsFinite
      <4> QED BY <4>1 DEF UpTo
    <3>2. \A q \in Seats : Capped(committed, 0)[q] = 0
      BY DEF Capped, MinOf, Commitments
    <3>3. SumFunctionOnSet(Capped(committed, 0), Seats) = 0
      BY <3>2, SeatsFinite, SumZero
    <3>4. SumFunctionOnSet(Slices(committed), {}) = 0
      BY SumOfNone
    <3> QED BY <2>2, <2>3, <3>1, <3>3, <3>4
  <2>4. CASE m # 0
    <3> DEFINE b == Below(committed, m)
               C == Contributors(committed, m)
               d == [q \in Seats |-> IF q \in C THEN m - b ELSE 0]
    <3>1. m \in Levels(committed) /\ m \in Nat
      BY <2>1, <2>2, <2>4
    <3>2. /\ b \in Nat /\ b < m /\ b \in all
          /\ \A l \in Levels(committed) : l < m => l <= b
          /\ \A p \in Seats : committed[p] < m => committed[p] <= b
      BY <3>1, LevelBelow
    <3>3. Holds(b)
      <4>1. b \notin Bad
        <5> HIDE DEF Bad, b
        <5> QED BY <2>1, <2>2, <3>1, <3>2
      <4> QED BY <3>2, <4>1
    <3>4. /\ UpTo(committed, m) = UpTo(committed, b) \cup {m}
          /\ m \notin UpTo(committed, b)
      <4>1. \A l \in Levels(committed) : l \in Nat
        BY LevelsFinite
      <4>2. \A l \in Levels(committed) : l <= m <=> (l <= b \/ l = m)
        <5> SUFFICES ASSUME NEW l \in Levels(committed) PROVE l <= m <=> (l <= b \/ l = m)
          OBVIOUS
        <5>1. l \in Nat /\ (l < m => l <= b)
          BY <3>2, <4>1
        <5> HIDE DEF b
        <5> QED BY <3>1, <3>2, <5>1
      <4>3. ~(m <= b)
        <5> HIDE DEF b
        <5> QED BY <3>1, <3>2
      <4> HIDE DEF b
      <4> QED BY <3>1, <4>2, <4>3 DEF UpTo
    <3>5. SumFunctionOnSet(Slices(committed), UpTo(committed, m))
            = Slice(committed, m) + SumFunctionOnSet(Slices(committed), UpTo(committed, b))
      <4>1. \A l \in UpTo(committed, b) \cup {m} : Slices(committed)[l] \in Nat
        BY <3>1, SliceNatural DEF UpTo, Slices
      <4>2. IsFiniteSet(UpTo(committed, b))
        <5> HIDE DEF b
        <5> QED BY LevelsFinite, FS_Subset DEF UpTo
      <4>3. Slices(committed)[m] = Slice(committed, m)
        BY <3>1 DEF Slices
      <4> HIDE DEF b
      <4> QED BY <3>4, <4>1, <4>2, <4>3, SumAdded
    <3>6. SumFunctionOnSet(d, Seats) = Slice(committed, m)
      <4>1. \A q \in Seats : d[q] = IF q \in C THEN m - b ELSE 0
        OBVIOUS
      <4>2. m - b \in Nat /\ C \in SUBSET Seats
        BY <3>1, <3>2, SliceNatural
      <4>3. SumFunctionOnSet(d, Seats) = (m - b) * Cardinality(C)
        <5> HIDE DEF d, C, b
        <5> QED BY <4>1, <4>2, SeatsFinite, SumConstant
      <4> QED BY <4>3 DEF Slice
    <3>7. \A q \in Seats : /\ Capped(committed, b)[q] \in Nat /\ d[q] \in Nat
                           /\ Capped(committed, m)[q] = Capped(committed, b)[q] + d[q]
      <4> SUFFICES ASSUME NEW q \in Seats
                   PROVE  /\ Capped(committed, b)[q] \in Nat /\ d[q] \in Nat
                          /\ Capped(committed, m)[q] = Capped(committed, b)[q] + d[q]
        OBVIOUS
      <4>1. /\ committed[q] \in Nat
            /\ committed[q] < m => committed[q] <= b
            /\ q \in C <=> committed[q] >= m
        BY <3>2 DEF Commitments, Contributors
      <4>2. /\ Capped(committed, b)[q] = MinOf(b, committed[q])
            /\ Capped(committed, m)[q] = MinOf(m, committed[q])
            /\ d[q] = IF q \in C THEN m - b ELSE 0
        BY DEF Capped
      <4> HIDE DEF b, C, d
      <4> QED BY <3>1, <3>2, <4>1, <4>2 DEF MinOf
    <3>8. SumFunctionOnSet(Capped(committed, m), Seats)
            = SumFunctionOnSet(Capped(committed, b), Seats) + SumFunctionOnSet(d, Seats)
      <4> HIDE DEF b, d
      <4> QED BY <3>7, SeatsFinite, SumPlus
    <3>9. SumFunctionOnSet(Capped(committed, b), Seats) \in Nat
      <4> HIDE DEF b, d
      <4> QED BY <3>7, SeatsFinite, SumNatural
    <3>10. ~Holds(m)
      BY <2>2
    <3>11. Slice(committed, m) \in Nat
      BY <3>1, SliceNatural
    <3> HIDE DEF b, d
    <3> QED BY <3>3, <3>5, <3>6, <3>8, <3>9, <3>10, <3>11
  <2> QED BY <2>3, <2>4
<1> QED BY <1>1

------------------------------------------------------------------------------
(* Who gets what of a level *)

\* The part of a slice that a player gets: of a pot by the scores, and a slice
\* with one contributor back.
Share(committed, alive, score, button, l, p) ==
  IF l \in Contested(committed)
  THEN Award(Slice(committed, l), Best(Eligible(committed, alive, l), score), button, p)
  ELSE IF Contributors(committed, l) = {p} THEN Slice(committed, l) ELSE 0

Shares(committed, alive, score, button) ==
  [l \in Levels(committed) |-> [p \in Seats |-> Share(committed, alive, score, button, l, p)]]

LEMMA BestExists ==
  ASSUME NEW S \in SUBSET Seats, S # {}, NEW score \in [Seats -> 1..N]
  PROVE  Best(S, score) \in SUBSET S /\ Best(S, score) # {}
<1> DEFINE ranks == {score[p] : p \in S}
<1>1. ranks \subseteq 1..N /\ ranks # {}
  OBVIOUS
<1>2. IsFiniteSet(ranks) /\ ranks \in SUBSET Nat
  <2>1. IsFiniteSet(1..N) /\ 1..N \subseteq Nat
    BY SeatsAssumption, FS_Interval
  <2> HIDE DEF ranks
  <2> QED BY <1>1, <2>1, FS_Subset
<1>3. \E n \in ranks : \A m \in ranks : m <= n
  <2> HIDE DEF ranks
  <2> QED BY <1>1, <1>2, Largest
<1>4. \E p \in S : \A q \in S : score[q] <= score[p]
  BY <1>3
<1> QED BY <1>4 DEF Best

\* A share is part of the slice, nothing for a player who has folded or not
\* committed so much, and all of it for the only best hand.
ShareBounds(committed, alive, score, l, p, share) ==
  /\ share \in Nat
  /\ share <= Slice(committed, l)
  /\ p \notin alive \/ ~(l <= committed[p]) => share = 0
  /\ Best(alive, score) = {p} /\ l <= committed[p] => share = Slice(committed, l)

LEMMA ShareFacts ==
  ASSUME NEW committed \in Commitments, NEW alive \in SUBSET Seats,
         Covers(committed, alive), NEW score \in [Seats -> 1..N], NEW button \in Seats,
         NEW l \in Levels(committed)
  PROVE  /\ SumFunctionOnSet([p \in Seats |-> Share(committed, alive, score, button, l, p)], Seats)
              = Slice(committed, l)
         /\ \A p \in Seats : ShareBounds(committed, alive, score, l, p,
                                         Share(committed, alive, score, button, l, p))
<1> DEFINE slice == Slice(committed, l)
           C == Contributors(committed, l)
           E == Eligible(committed, alive, l)
           W == Best(E, score)
           f == [p \in Seats |-> Share(committed, alive, score, button, l, p)]
<1>1. slice \in Nat /\ C \in SUBSET Seats /\ C # {} /\ l \in Nat /\ l > 0
  BY SliceNatural, LevelsFinite
<1>2. \A p \in Seats : committed[p] \in Nat /\ (p \in C <=> l <= committed[p])
  <2> SUFFICES ASSUME NEW p \in Seats
               PROVE  committed[p] \in Nat /\ (p \in C <=> l <= committed[p])
    OBVIOUS
  <2>1. committed[p] \in Nat
    BY DEF Commitments
  <2>2. p \in C <=> committed[p] >= l
    BY DEF Contributors
  <2> QED BY <1>1, <2>1, <2>2
<1>3. PICK top \in alive : top \in C
  <2>1. PICK top \in alive : \A q \in Seats : committed[q] <= committed[top]
    BY DEF Covers
  <2>2. PICK q \in Seats : l <= committed[q]
    BY <1>1, <1>2
  <2>3. committed[q] <= committed[top] /\ committed[q] \in Nat /\ committed[top] \in Nat
    BY <1>2, <2>1
  <2>4. l <= committed[top]
    BY <1>1, <2>2, <2>3
  <2> QED BY <1>2, <2>4
<1>4. E = C \cap alive /\ E \in SUBSET Seats /\ E # {}
  BY <1>1, <1>3 DEF Eligible
<1>5. W \in SUBSET E /\ W # {} /\ W \in SUBSET Seats
  <2> HIDE DEF E
  <2> QED BY <1>4, BestExists
<1>6. \A p \in Seats : Best(alive, score) = {p} /\ p \in C => W = {p}
  <2> SUFFICES ASSUME NEW p \in Seats, Best(alive, score) = {p}, p \in C PROVE W = {p}
    OBVIOUS
  <2>1. p \in alive /\ \A q \in alive : score[q] <= score[p]
    BY DEF Best
  <2>2. p \in W
    BY <1>4, <2>1 DEF Best
  <2>3. ASSUME NEW q \in W PROVE q \in Best(alive, score)
    <3>1. q \in alive /\ score[p] <= score[q]
      BY <1>4, <1>5, <2>1, <2>2, <2>3 DEF Best
    <3>2. \A r \in alive : score[r] <= score[q]
      <4> SUFFICES ASSUME NEW r \in alive PROVE score[r] <= score[q]
        OBVIOUS
      <4>1. score[r] \in Int /\ score[p] \in Int /\ score[q] \in Int
        BY <3>1
      <4>2. score[r] <= score[p]
        BY <2>1
      <4> QED BY <3>1, <4>1, <4>2
    <3> QED BY <3>1, <3>2 DEF Best
  <2> QED BY <2>2, <2>3
<1>7. CASE l \in Contested(committed)
  <2>1. \A p \in Seats : Share(committed, alive, score, button, l, p) = Award(slice, W, button, p)
    BY <1>7 DEF Share
  <2>2. f = [p \in Seats |-> Award(slice, W, button, p)]
    BY <2>1
  <2>3. SumFunctionOnSet([p \in Seats |-> Award(slice, W, button, p)], Seats) = slice
    <3> HIDE DEF slice, W
    <3> QED BY <1>1, <1>5, PotShared
  <2>4. \A p \in Seats : /\ Award(slice, W, button, p) \in Nat
                         /\ Award(slice, W, button, p) <= slice
                         /\ p \notin W => Award(slice, W, button, p) = 0
                         /\ W = {p} => Award(slice, W, button, p) = slice
    <3> HIDE DEF slice, W
    <3> QED BY <1>1, <1>5, AwardBounds
  <2>5. SumFunctionOnSet(f, Seats) = slice
    <3> HIDE DEF slice, W, f
    <3> QED BY <2>2, <2>3
  <2> HIDE DEF slice, W, E, C
  <2> QED BY <1>2, <1>4, <1>5, <1>6, <2>1, <2>4, <2>5 DEF slice, ShareBounds
<1>8. CASE l \notin Contested(committed)
  <2>1. C = {top}
    <3>1. Cardinality(C) \in 1..9 /\ IsFiniteSet(C)
      BY <1>1, CardinalityNatural, SeatsFinite
    <3>2. ~(Cardinality(C) > 1)
      BY <1>8 DEF Contested
    <3>3. Cardinality(C) = 1
      BY <3>1, <3>2
    <3>4. \E x : C = {x}
      BY <3>1, <3>3, FS_Singleton
    <3> QED BY <1>3, <3>4
  <2>2. \A p \in Seats : Share(committed, alive, score, button, l, p) = IF p = top THEN slice ELSE 0
    BY <1>8, <2>1 DEF Share
  <2>3. SumFunctionOnSet(f, Seats) = slice
    <3>1. \A p \in Seats : f[p] = IF p \in {top} THEN slice ELSE 0
      BY <2>2
    <3>2. {top} \in SUBSET Seats /\ Cardinality({top}) = 1
      BY <1>1, <1>3, FS_Singleton
    <3>3. SumFunctionOnSet(f, Seats) = slice * Cardinality({top})
      <4> HIDE DEF f, slice
      <4> QED BY <1>1, <3>1, <3>2, SeatsFinite, SumConstant
    <3> HIDE DEF f, slice
    <3> QED BY <1>1, <3>2, <3>3
  <2> HIDE DEF slice, C
  <2> QED BY <1>1, <1>2, <1>3, <2>1, <2>2, <2>3 DEF slice, ShareBounds
<1> QED BY <1>7, <1>8

\* settleShowdown pays a player its share of every level.
LEMMA PayoutIsShares ==
  ASSUME NEW committed \in Commitments, NEW alive \in SUBSET Seats,
         Covers(committed, alive), NEW score \in [Seats -> 1..N], NEW button \in Seats,
         NEW p \in Seats, ~ \E sole \in Seats : alive = {sole}
  PROVE  Payout(committed, alive, score, button, p)
           = SumFunctionOnSet([l \in Levels(committed) |->
                                 Share(committed, alive, score, button, l, p)], Levels(committed))
<1> DEFINE L == Levels(committed)
           A(l) == Award(Slice(committed, l), Best(Eligible(committed, alive, l), score), button, p)
           solo == {l \in L : Contributors(committed, l) = {p}}
           pots == [l \in Contested(committed) |-> A(l)]
           back == [l \in solo |-> Slice(committed, l)]
           f == [l \in L |-> IF l \in solo THEN Slice(committed, l) ELSE 0]
           g == [l \in L |-> IF l \in Contested(committed) THEN A(l) ELSE 0]
           h == [l \in L |-> Share(committed, alive, score, button, l, p)]
<1>1. IsFiniteSet(L) /\ solo \in SUBSET L /\ Contested(committed) \in SUBSET L
  BY LevelsFinite DEF Contested
<1>2. Payout(committed, alive, score, button, p)
        = SumFunctionOnSet(back, solo) + SumFunctionOnSet(pots, Contested(committed))
  <2>1. Refund(committed, p) = SumFunctionOnSet(back, solo)
    BY DEF Refund, SumFunction
  <2>2. SumFunction(pots) = SumFunctionOnSet(pots, Contested(committed))
    BY DEF SumFunction
  <2> QED BY <2>1, <2>2 DEF Payout
<1>3. \A l \in L : l \in solo => l \notin Contested(committed)
  <2> SUFFICES ASSUME NEW l \in L, Contributors(committed, l) = {p}, l \in Contested(committed)
               PROVE  FALSE
    OBVIOUS
  <2>1. Cardinality({p}) = 1
    BY FS_Singleton
  <2>2. Cardinality(Contributors(committed, l)) > 1
    BY DEF Contested
  <2> QED BY <2>1, <2>2
<1>4. \A l \in L : /\ h[l] = f[l] + g[l] /\ f[l] \in Nat /\ g[l] \in Nat
                   /\ l \notin solo => f[l] = 0
                   /\ l \notin Contested(committed) => g[l] = 0
  <2> SUFFICES ASSUME NEW l \in L
               PROVE  /\ h[l] = f[l] + g[l] /\ f[l] \in Nat /\ g[l] \in Nat
                      /\ l \notin solo => f[l] = 0
                      /\ l \notin Contested(committed) => g[l] = 0
    OBVIOUS
  <2>1. h[l] = Share(committed, alive, score, button, l, p) /\ h[l] \in Nat
    BY ShareFacts DEF ShareBounds
  <2>2. Slice(committed, l) \in Nat
    BY SliceNatural
  <2>3. CASE l \in Contested(committed)
    <3>1. h[l] = A(l) /\ g[l] = A(l) /\ f[l] = 0
      BY <1>3, <2>1, <2>3 DEF Share
    <3> HIDE DEF A, h, g, f
    <3> QED BY <1>3, <2>1, <2>3, <3>1
  <2>4. CASE l \notin Contested(committed)
    <3>1. h[l] = f[l] /\ g[l] = 0 /\ (l \notin solo => f[l] = 0)
      BY <2>1, <2>4 DEF Share
    <3> HIDE DEF h, g, f
    <3> QED BY <2>1, <2>4, <3>1
  <2> QED BY <2>3, <2>4
<1>5. SumFunctionOnSet(h, L) = SumFunctionOnSet(f, L) + SumFunctionOnSet(g, L)
  <2> HIDE DEF f, g, h, L
  <2> QED BY <1>1, <1>4, SumPlus
<1>6. SumFunctionOnSet(f, L) = SumFunctionOnSet(back, solo)
  <2>1. \A l \in solo : back[l] = f[l]
    BY <1>1
  <2> HIDE DEF f, back, solo, L
  <2> QED BY <1>1, <1>4, <2>1, SumOnlyWhere
<1>7. SumFunctionOnSet(g, L) = SumFunctionOnSet(pots, Contested(committed))
  <2>1. \A l \in Contested(committed) : pots[l] = g[l]
    BY <1>1
  <2> HIDE DEF g, pots, solo, L
  <2> QED BY <1>1, <1>4, <2>1, SumOnlyWhere
<1> HIDE DEF f, g, back, pots, solo
<1> QED BY <1>2, <1>5, <1>6, <1>7

\* What is paid out is what was committed, to the last chip.
LEMMA PayoutsConserve ==
  ASSUME NEW committed \in Commitments, NEW alive \in SUBSET Seats,
         Covers(committed, alive), NEW score \in [Seats -> 1..N], NEW button \in Seats
  PROVE  /\ \A p \in Seats : Payouts(committed, alive, score, button)[p] \in Nat
         /\ SumFunctionOnSet(Payouts(committed, alive, score, button), Seats)
              = SumFunctionOnSet(committed, Seats)
<1> DEFINE paid == Payouts(committed, alive, score, button)
           L == Levels(committed)
           shares == Shares(committed, alive, score, button)
<1>1. \A q \in Seats : committed[q] \in Nat
  BY DEF Commitments
<1>2. SumFunctionOnSet(committed, Seats) \in Nat
  BY <1>1, SeatsFinite, SumNatural
<1>3. CASE \E sole \in Seats : alive = {sole}
  <2>1. \A p \in Seats : paid[p] = IF p \in alive THEN SumFunctionOnSet(committed, Seats) ELSE 0
    BY <1>3 DEF Payouts, Payout
  <2>2. Cardinality(alive) = 1
    BY <1>3, FS_Singleton
  <2>3. SumFunctionOnSet(paid, Seats) = SumFunctionOnSet(committed, Seats) * Cardinality(alive)
    <3> HIDE DEF paid
    <3> QED BY <1>2, <2>1, SeatsFinite, SumConstant
  <2> DEFINE total == SumFunctionOnSet(committed, Seats)
  <2>4. total * Cardinality(alive) = total
    BY <1>2, <2>2
  <2>5. \A p \in Seats : paid[p] \in Nat
    BY <1>2, <2>1
  <2> QED BY <2>3, <2>4, <2>5
<1>4. CASE ~ \E sole \in Seats : alive = {sole}
  <2>1. \A l \in L, p \in Seats : shares[l][p] = Share(committed, alive, score, button, l, p)
    BY DEF Shares
  <2>2. \A l \in L, p \in Seats : shares[l][p] \in Nat
    <3> SUFFICES ASSUME NEW l \in L, NEW p \in Seats PROVE shares[l][p] \in Nat
      OBVIOUS
    <3>1. shares[l][p] = Share(committed, alive, score, button, l, p)
      BY <2>1
    <3>2. Share(committed, alive, score, button, l, p) \in Nat
      BY ShareFacts DEF ShareBounds
    <3> QED BY <3>1, <3>2
  <2> DEFINE byPlayer == [p \in Seats |->
                            [l \in L |-> Share(committed, alive, score, button, l, p)]]
  <2>3. \A p \in Seats : paid[p] = SumFunctionOnSet(byPlayer[p], L)
    <3> SUFFICES ASSUME NEW p \in Seats
                 PROVE  paid[p] = SumFunctionOnSet(byPlayer[p], L)
      OBVIOUS
    <3>1. paid[p] = Payout(committed, alive, score, button, p)
      BY DEF Payouts
    <3>2. byPlayer[p] = [l \in L |-> Share(committed, alive, score, button, l, p)]
      OBVIOUS
    <3> HIDE DEF byPlayer
    <3> QED BY <1>4, <3>1, <3>2, PayoutIsShares
  <2>4. \A l \in L : Slices(committed)[l] = SumFunctionOnSet(shares[l], Seats)
    <3> SUFFICES ASSUME NEW l \in L
                 PROVE  Slices(committed)[l] = SumFunctionOnSet(shares[l], Seats)
      OBVIOUS
    <3>1. shares[l] = [p \in Seats |-> Share(committed, alive, score, button, l, p)]
      BY DEF Shares
    <3>2. Slices(committed)[l] = Slice(committed, l)
      BY DEF Slices
    <3> HIDE DEF shares
    <3> QED BY <3>1, <3>2, ShareFacts
  <2>5. SumFunctionOnSet(Slices(committed), L) = SumFunctionOnSet(paid, Seats)
    <3>1. IsFiniteSet(L) /\ IsFiniteSet(Seats)
      BY LevelsFinite, SeatsFinite
    <3>2. Transposed(shares, byPlayer, L, Seats)
      BY <2>1, <2>2 DEF Transposed
    <3>3. SumsOf(Slices(committed), shares, L, Seats) /\ SumsOf(paid, byPlayer, Seats, L)
      BY <2>3, <2>4 DEF SumsOf
    <3> HIDE DEF shares, byPlayer, paid, L
    <3> QED BY <3>1, <3>2, <3>3, SumSwapped
  <2>6. SumFunctionOnSet(Slices(committed), L) = SumFunctionOnSet(committed, Seats)
    <3>1. PICK top \in alive : \A q \in Seats : committed[q] <= committed[top]
      BY DEF Covers
    <3> DEFINE cap == committed[top]
    <3>2. cap \in Nat /\ cap \in {0} \cup L
      BY <1>1, LevelsFinite
    <3>3. UpTo(committed, cap) = L
      BY <3>1 DEF UpTo, Levels
    <3>4. \A q \in Seats : Capped(committed, cap)[q] = committed[q]
      <4> SUFFICES ASSUME NEW q \in Seats PROVE Capped(committed, cap)[q] = committed[q]
        OBVIOUS
      <4>1. committed[q] <= cap /\ committed[q] \in Nat
        BY <1>1, <3>1
      <4>2. Capped(committed, cap)[q] = MinOf(cap, committed[q])
        BY DEF Capped
      <4> HIDE DEF cap
      <4> QED BY <3>2, <4>1, <4>2 DEF MinOf
    <3>5. SumFunctionOnSet(Capped(committed, cap), Seats) = SumFunctionOnSet(committed, Seats)
      <4> HIDE DEF cap
      <4> QED BY <3>4, SeatsFinite, SumSame
    <3>6. SumFunctionOnSet(Slices(committed), UpTo(committed, cap))
            = SumFunctionOnSet(Capped(committed, cap), Seats)
      <4> HIDE DEF cap
      <4> QED BY <3>2, SlicesUpTo
    <3> QED BY <3>3, <3>5, <3>6
  <2>7. \A p \in Seats : paid[p] \in Nat
    <3> SUFFICES ASSUME NEW p \in Seats PROVE paid[p] \in Nat
      OBVIOUS
    <3>1. \A l \in L : byPlayer[p][l] \in Nat
      BY ShareFacts DEF ShareBounds
    <3> HIDE DEF byPlayer
    <3>2. SumFunctionOnSet(byPlayer[p], L) \in Nat
      BY <3>1, LevelsFinite, SumNatural
    <3> QED BY <2>3, <3>2
  <2> QED BY <2>5, <2>6, <2>7
<1> QED BY <1>3, <1>4

\* Table stakes: nobody collects more from an opponent than it has committed
\* itself, and one that holds the only best hand collects exactly that.
LEMMA PayoutBounds ==
  ASSUME NEW committed \in Commitments, NEW alive \in SUBSET Seats,
         Covers(committed, alive), NEW score \in [Seats -> 1..N], NEW button \in Seats,
         NEW p \in Seats
  PROVE  LET paid == Payout(committed, alive, score, button, p)
             reach == SumFunctionOnSet(Capped(committed, committed[p]), Seats)
         IN  /\ p \notin alive => paid = 0
             /\ p \in alive => paid <= reach
             /\ Best(alive, score) = {p} => paid = reach
<1> DEFINE paid == Payout(committed, alive, score, button, p)
           cap == committed[p]
           reach == SumFunctionOnSet(Capped(committed, cap), Seats)
           L == Levels(committed)
           U == UpTo(committed, cap)
           f == [l \in L |-> Share(committed, alive, score, button, l, p)]
<1>1. \A q \in Seats : committed[q] \in Nat
  BY DEF Commitments
<1>2. Best(alive, score) = {p} => p \in alive
  BY DEF Best
<1>3. CASE \E sole \in Seats : alive = {sole}
  <2>1. paid = IF p \in alive THEN SumFunctionOnSet(committed, Seats) ELSE 0
    BY <1>3 DEF Payout
  <2>2. p \in alive => reach = SumFunctionOnSet(committed, Seats)
    <3> SUFFICES ASSUME p \in alive PROVE reach = SumFunctionOnSet(committed, Seats)
      OBVIOUS
    <3>1. \A q \in Seats : committed[q] <= cap
      BY <1>3 DEF Covers
    <3>2. \A q \in Seats : Capped(committed, cap)[q] = committed[q]
      <4> SUFFICES ASSUME NEW q \in Seats PROVE Capped(committed, cap)[q] = committed[q]
        OBVIOUS
      <4>1. committed[q] <= cap /\ committed[q] \in Nat /\ cap \in Nat
        BY <1>1, <3>1
      <4>2. Capped(committed, cap)[q] = MinOf(cap, committed[q])
        BY DEF Capped
      <4> HIDE DEF cap
      <4> QED BY <4>1, <4>2 DEF MinOf
    <3> HIDE DEF cap
    <3> QED BY <3>2, SeatsFinite, SumSame
  <2>3. SumFunctionOnSet(committed, Seats) \in Nat
    BY <1>1, SeatsFinite, SumNatural
  <2> HIDE DEF paid, reach
  <2>4. p \in alive => paid = reach /\ paid <= reach
    BY <2>1, <2>2, <2>3
  <2> QED BY <1>2, <2>1, <2>4 DEF paid, reach
<1>4. CASE ~ \E sole \in Seats : alive = {sole}
  <2>1. paid = SumFunctionOnSet(f, L)
    <3> HIDE DEF f, L
    <3> QED BY <1>4, PayoutIsShares DEF f, L
  <2>2. \A l \in L : /\ f[l] \in Nat /\ f[l] <= Slices(committed)[l] /\ Slices(committed)[l] \in Nat
                     /\ p \notin alive \/ l \notin U => f[l] = 0
                     /\ Best(alive, score) = {p} /\ l \in U => f[l] = Slices(committed)[l]
    <3> SUFFICES ASSUME NEW l \in L
                 PROVE  /\ f[l] \in Nat /\ f[l] <= Slices(committed)[l] /\ Slices(committed)[l] \in Nat
                        /\ p \notin alive \/ l \notin U => f[l] = 0
                        /\ Best(alive, score) = {p} /\ l \in U => f[l] = Slices(committed)[l]
      OBVIOUS
    <3>1. f[l] = Share(committed, alive, score, button, l, p)
      OBVIOUS
    <3>2. Slices(committed)[l] = Slice(committed, l) /\ Slice(committed, l) \in Nat
      BY SliceNatural DEF Slices
    <3>3. l \in U <=> l <= committed[p]
      BY DEF UpTo
    <3> DEFINE share == Share(committed, alive, score, button, l, p)
    <3>4. ShareBounds(committed, alive, score, l, p, share)
      BY ShareFacts
    <3> HIDE DEF f, U, share
    <3> QED BY <3>1, <3>2, <3>3, <3>4 DEF share, ShareBounds
  <2>3. U \in SUBSET L /\ IsFiniteSet(L) /\ IsFiniteSet(U)
    BY LevelsFinite, FS_Subset DEF UpTo
  <2>4. SumFunctionOnSet(f, L) = SumFunctionOnSet(f, U)
    <3> HIDE DEF f, L, U
    <3> QED BY <2>2, <2>3, SumOnlyWhere
  <2>5. SumFunctionOnSet(Slices(committed), U) = reach
    <3>1. cap \in {0} \cup L
      BY LevelsFinite
    <3> HIDE DEF cap
    <3> QED BY <3>1, SlicesUpTo
  <2>6. SumFunctionOnSet(f, U) <= SumFunctionOnSet(Slices(committed), U)
    <3> HIDE DEF f, U, L
    <3> QED BY <2>2, <2>3, SumBelow
  <2>7. p \notin alive => SumFunctionOnSet(f, L) = 0
    <3> HIDE DEF f, U, L
    <3> QED BY <2>2, <2>3, SumZero
  <2>8. Best(alive, score) = {p} => SumFunctionOnSet(f, U) = SumFunctionOnSet(Slices(committed), U)
    <3> HIDE DEF f, U, L
    <3> QED BY <2>2, <2>3, SumSame
  <2> HIDE DEF f, U, L, paid, reach
  <2> QED BY <2>1, <2>4, <2>5, <2>6, <2>7, <2>8 DEF paid, reach
<1> QED BY <1>3, <1>4

------------------------------------------------------------------------------
(***************************************************************************)
(* What a command does, before finishOrPassAction decides how the hand     *)
(* goes on: only the actor pays, it stays active only if it matches the    *)
(* wager, a higher wager is its own, and the raise rights follow the rule. *)
(***************************************************************************)
\* Who but the actor may raise a wager `bet' by at least `raise'.
OpenRights(bet, raise) ==
  {p \in Active(status') \ {actor} :
     lastActedBet[p] = NoBet \/ bet - lastActedBet[p] >= raise}

Effect(committed, bet, raise, actedNow, rights) ==
  /\ committed \in [Seats -> Nat]
  /\ bet \in Nat
  /\ raise \in Nat \ {0}
  /\ actedNow \in SUBSET Seats
  /\ stack' \in [Seats -> Nat]
  /\ handCommitted' \in [Seats -> Nat]
  /\ status' \in [Seats -> {"active", "folded", "all-in"}]
  /\ \A p \in Seats \ {actor} :
       /\ committed[p] = streetCommitted[p]
       /\ stack'[p] = stack[p]
       /\ handCommitted'[p] = handCommitted[p]
       /\ status'[p] = status[p]
  /\ handCommitted'[actor] - committed[actor] = StreetBase
  /\ stack'[actor] + handCommitted'[actor] = stack[actor] + handCommitted[actor]
  /\ streetCommitted[actor] <= committed[actor]
  /\ committed[actor] <= bet
  /\ status'[actor] = "active" => stack'[actor] > 0 /\ committed[actor] = bet
  /\ status'[actor] = "all-in" => stack'[actor] = 0
  /\ status'[actor] = "folded" => committed[actor] = streetCommitted[actor]
  /\ currentBet <= bet
  /\ currentBet < bet => status'[actor] # "folded" /\ committed[actor] = bet
  /\ actor \in actedNow
  /\ bet = currentBet => actedNow = acted \cup {actor}
  /\ rights = OpenRights(bet, raise)

USE SeatsAssumption, BlindsAssumption DEF Seats, NoBet

\* The actor holds whole chips, no more than the wager it may have to match.
LEMMA ActorChips ==
  ASSUME BettingInv, MayAct
  PROVE  /\ actor \in Seats
         /\ stack[actor] \in Nat /\ stack[actor] > 0
         /\ streetCommitted[actor] \in Nat
         /\ handCommitted[actor] \in Nat
         /\ StreetBase \in Nat
         /\ currentBet \in Nat
         /\ streetCommitted[actor] <= currentBet
         /\ minimumRaise \in Nat \ {0}
         /\ acted \in SUBSET Seats
         /\ Maximum \in Nat
<1>1. /\ actor \in Seats
      /\ stack[actor] \in Nat
      /\ streetCommitted[actor] \in Nat
      /\ handCommitted[actor] \in Nat
      /\ currentBet \in Nat
      /\ minimumRaise \in Nat \ {0}
      /\ acted \in SUBSET Seats
  BY DEF BettingInv, TypeOK
<1>2. /\ status[actor] = "active" => stack[actor] > 0
      /\ streetCommitted[actor] <= handCommitted[actor]
      /\ streetCommitted[actor] <= currentBet
  BY <1>1 DEF BettingInv, EngineAsserts
<1>3. status[actor] = "active"
  BY DEF MayAct
<1> QED BY <1>1, <1>2, <1>3 DEF StreetBase, Maximum

\* Raising the actor's street commitment to `amount' by paying the difference.
LEMMA PayEffect ==
  ASSUME BettingInv, MayAct,
         NEW amount \in Nat,
         streetCommitted[actor] <= amount, amount <= Maximum,
         Pay(amount - streetCommitted[actor])
  PROVE  /\ [streetCommitted EXCEPT ![actor] = amount] \in [Seats -> Nat]
         /\ [streetCommitted EXCEPT ![actor] = amount][actor] = amount
         /\ stack' \in [Seats -> Nat]
         /\ handCommitted' \in [Seats -> Nat]
         /\ status' \in [Seats -> {"active", "folded", "all-in"}]
         /\ \A p \in Seats \ {actor} :
              /\ [streetCommitted EXCEPT ![actor] = amount][p] = streetCommitted[p]
              /\ stack'[p] = stack[p]
              /\ handCommitted'[p] = handCommitted[p]
              /\ status'[p] = status[p]
         /\ handCommitted'[actor] - amount = StreetBase
         /\ stack'[actor] + handCommitted'[actor] = stack[actor] + handCommitted[actor]
         /\ stack'[actor] = Maximum - amount
         /\ status'[actor] = IF amount = Maximum THEN "all-in" ELSE "active"
<1> DEFINE paid == amount - streetCommitted[actor]
<1>1. paid \in Nat /\ paid <= stack[actor] /\ (stack[actor] = paid <=> amount = Maximum)
  BY ActorChips DEF Maximum
<1>2. Pay(paid)
  OBVIOUS
<1> HIDE DEF paid
<1> HIDE DEF Seats
<1>3. /\ stack' \in [Seats -> Nat]
      /\ stack'[actor] = stack[actor] - paid
      /\ \A p \in Seats \ {actor} : stack'[p] = stack[p]
  <2>1. stack \in [Seats -> Nat] /\ actor \in Seats
    BY DEF BettingInv, TypeOK
  <2>2. stack' = [stack EXCEPT ![actor] = stack[actor] - paid]
    BY <1>2, <2>1 DEF Pay
  <2>3. stack[actor] - paid \in Nat
    BY <1>1, <2>1
  <2> QED BY <2>1, <2>2, <2>3
<1>4. /\ handCommitted' \in [Seats -> Nat]
      /\ handCommitted'[actor] = handCommitted[actor] + paid
      /\ \A p \in Seats \ {actor} : handCommitted'[p] = handCommitted[p]
  <2>1. handCommitted \in [Seats -> Nat] /\ actor \in Seats
    BY DEF BettingInv, TypeOK
  <2>2. handCommitted' = [handCommitted EXCEPT ![actor] = handCommitted[actor] + paid]
    BY <1>2, <2>1 DEF Pay
  <2>3. handCommitted[actor] + paid \in Nat
    BY <1>1, <2>1
  <2> QED BY <2>1, <2>2, <2>3
<1>5. /\ status' \in [Seats -> {"active", "folded", "all-in"}]
      /\ status'[actor] = IF stack[actor] = paid THEN "all-in" ELSE "active"
      /\ \A p \in Seats \ {actor} : status'[p] = status[p]
  <2>1. status \in [Seats -> {"active", "folded", "all-in"}] /\ status[actor] = "active"
    BY DEF BettingInv, TypeOK, MayAct
  <2>2. status' = [status EXCEPT ![actor] = IF stack[actor] = paid THEN "all-in" ELSE "active"]
    BY <1>2, <2>1 DEF Pay
  <2> QED BY <2>1, <2>2, ActorChips
<1>6. /\ [streetCommitted EXCEPT ![actor] = amount] \in [Seats -> Nat]
      /\ [streetCommitted EXCEPT ![actor] = amount][actor] = amount
      /\ \A p \in Seats \ {actor} :
           [streetCommitted EXCEPT ![actor] = amount][p] = streetCommitted[p]
  BY ActorChips DEF BettingInv, TypeOK
<1>7. status'[actor] = IF amount = Maximum THEN "all-in" ELSE "active"
  BY <1>1, <1>5
<1>8. /\ handCommitted'[actor] - amount = StreetBase
      /\ stack'[actor] + handCommitted'[actor] = stack[actor] + handCommitted[actor]
      /\ stack'[actor] = Maximum - amount
  <2>1. /\ stack'[actor] = stack[actor] - paid
        /\ handCommitted'[actor] = handCommitted[actor] + paid
        /\ paid = amount - streetCommitted[actor]
    BY <1>3, <1>4 DEF paid
  <2>2. /\ stack[actor] \in Nat
        /\ streetCommitted[actor] \in Nat
        /\ handCommitted[actor] \in Nat
    BY ActorChips
  <2> QED BY <2>1, <2>2 DEF StreetBase, Maximum
<1> QED BY <1>3, <1>4, <1>5, <1>6, <1>7, <1>8

\* The raise rights the actor leaves when the wager stays.
LEMMA KeptRights ==
  ASSUME BettingInv, MayAct,
         \A p \in Seats \ {actor} : status'[p] = status[p]
  PROVE  raiseRights \ {actor} = OpenRights(currentBet, minimumRaise)
BY DEF BettingInv, RaiseRightsRule, MayAct, Active, OpenRights

LEMMA FoldEffect ==
  ASSUME BettingInv, Fold
  PROVE  Effect(streetCommitted, currentBet, minimumRaise,
                acted \cup {actor}, raiseRights \ {actor})
<1>1. MayAct
  BY DEF Fold
<1>2. /\ status' \in [Seats -> {"active", "folded", "all-in"}]
      /\ \A p \in Seats \ {actor} : status'[p] = status[p]
      /\ status'[actor] = "folded"
  BY DEF BettingInv, TypeOK, Fold
<1>3. /\ streetCommitted \in [Seats -> Nat]
      /\ stack \in [Seats -> Nat] /\ stack' = stack
      /\ handCommitted \in [Seats -> Nat] /\ handCommitted' = handCommitted
  BY DEF BettingInv, TypeOK, Fold
<1>4. raiseRights \ {actor} = OpenRights(currentBet, minimumRaise)
  BY <1>1, <1>2, KeptRights
<1>5. /\ currentBet \in Nat /\ streetCommitted[actor] \in Nat /\ handCommitted[actor] \in Nat
      /\ streetCommitted[actor] <= currentBet
      /\ minimumRaise \in Nat \ {0}
      /\ actor \in Seats /\ acted \in SUBSET Seats
  BY <1>1, ActorChips
<1>6. ~(currentBet < currentBet)
  BY <1>5
<1> HIDE DEF Seats
<1> QED BY <1>2, <1>3, <1>4, <1>5, <1>6 DEF Effect, StreetBase

LEMMA CheckEffect ==
  ASSUME BettingInv, Check
  PROVE  Effect(streetCommitted, currentBet, minimumRaise,
                acted \cup {actor}, raiseRights \ {actor})
<1>1. MayAct
  BY DEF Check
<1>2. streetCommitted[actor] = currentBet
  BY <1>1, ActorChips DEF Check, ToCall
<1>3. /\ streetCommitted \in [Seats -> Nat]
      /\ stack \in [Seats -> Nat] /\ stack' = stack
      /\ handCommitted \in [Seats -> Nat] /\ handCommitted' = handCommitted
      /\ status \in [Seats -> {"active", "folded", "all-in"}] /\ status' = status
      /\ status[actor] = "active"
  BY DEF BettingInv, TypeOK, Check, MayAct
<1>4. raiseRights \ {actor} = OpenRights(currentBet, minimumRaise)
  BY <1>1, <1>3, KeptRights
<1> QED BY <1>1, <1>2, <1>3, <1>4, ActorChips DEF Effect, StreetBase

LEMMA CallEffect ==
  ASSUME BettingInv, Call
  PROVE  Effect([streetCommitted EXCEPT ![actor] = @ + CallCost], currentBet, minimumRaise,
                acted \cup {actor}, raiseRights \ {actor})
<1> DEFINE amount == streetCommitted[actor] + CallCost
<1>1. MayAct
  BY DEF Call
<1>2. /\ amount \in Nat /\ streetCommitted[actor] <= amount /\ amount <= Maximum
      /\ amount <= currentBet
      /\ amount - streetCommitted[actor] = CallCost
      /\ amount # Maximum => amount = currentBet
  BY <1>1, ActorChips DEF CallCost, ToCall, MinOf, Maximum
<1>3. Pay(amount - streetCommitted[actor])
  BY <1>2 DEF Call
<1>4. [streetCommitted EXCEPT ![actor] = @ + CallCost] = [streetCommitted EXCEPT ![actor] = amount]
  OBVIOUS
<1> HIDE DEF amount
<1> DEFINE committed == [streetCommitted EXCEPT ![actor] = amount]
<1>5. /\ committed \in [Seats -> Nat]
      /\ committed[actor] = amount
      /\ stack' \in [Seats -> Nat]
      /\ handCommitted' \in [Seats -> Nat]
      /\ status' \in [Seats -> {"active", "folded", "all-in"}]
      /\ \A p \in Seats \ {actor} :
           /\ committed[p] = streetCommitted[p]
           /\ stack'[p] = stack[p]
           /\ handCommitted'[p] = handCommitted[p]
           /\ status'[p] = status[p]
      /\ handCommitted'[actor] - amount = StreetBase
      /\ stack'[actor] + handCommitted'[actor] = stack[actor] + handCommitted[actor]
      /\ stack'[actor] = Maximum - amount
      /\ status'[actor] = IF amount = Maximum THEN "all-in" ELSE "active"
  BY <1>1, <1>2, <1>3, PayEffect
<1> HIDE DEF committed
<1>6. raiseRights \ {actor} = OpenRights(currentBet, minimumRaise)
  BY <1>1, <1>5, KeptRights
<1>7. /\ currentBet \in Nat /\ Maximum \in Nat /\ streetCommitted[actor] \in Nat
      /\ minimumRaise \in Nat \ {0}
      /\ actor \in Seats /\ acted \in SUBSET Seats
  BY <1>1, ActorChips
<1>8. /\ status'[actor] = "active" => stack'[actor] > 0 /\ amount = currentBet
      /\ status'[actor] = "all-in" => stack'[actor] = 0
      /\ status'[actor] # "folded"
  <2>1. /\ stack'[actor] = Maximum - amount
        /\ status'[actor] = IF amount = Maximum THEN "all-in" ELSE "active"
    BY <1>5
  <2> QED BY <1>2, <1>7, <2>1
<1>9. ~(currentBet < currentBet)
  BY <1>7
<1> HIDE DEF Seats
<1>10. Effect(committed, currentBet, minimumRaise, acted \cup {actor}, raiseRights \ {actor})
  BY <1>2, <1>5, <1>6, <1>7, <1>8, <1>9 DEF Effect
<1> QED BY <1>4, <1>10 DEF committed

\* A bet or raise of the actor to `amount', full or not.
LEMMA WagerEffect ==
  ASSUME BettingInv, MayAct,
         NEW amount \in 1..Maximum, currentBet < amount,
         Pay(amount - streetCommitted[actor]),
         NEW size \in Nat \ {0},
         NEW actedNow \in SUBSET Seats, actor \in actedNow,
         NEW rights, rights = OpenRights(amount, size)
  PROVE  Effect([streetCommitted EXCEPT ![actor] = amount], amount, size, actedNow, rights)
<1> DEFINE committed == [streetCommitted EXCEPT ![actor] = amount]
<1>1. /\ currentBet \in Nat /\ Maximum \in Nat /\ streetCommitted[actor] \in Nat
      /\ streetCommitted[actor] <= currentBet
  BY ActorChips
<1>2. amount \in Nat /\ streetCommitted[actor] <= amount /\ amount <= Maximum
  BY <1>1
<1>3. /\ committed \in [Seats -> Nat]
      /\ committed[actor] = amount
      /\ stack' \in [Seats -> Nat]
      /\ handCommitted' \in [Seats -> Nat]
      /\ status' \in [Seats -> {"active", "folded", "all-in"}]
      /\ \A p \in Seats \ {actor} :
           /\ committed[p] = streetCommitted[p]
           /\ stack'[p] = stack[p]
           /\ handCommitted'[p] = handCommitted[p]
           /\ status'[p] = status[p]
      /\ handCommitted'[actor] - amount = StreetBase
      /\ stack'[actor] + handCommitted'[actor] = stack[actor] + handCommitted[actor]
      /\ stack'[actor] = Maximum - amount
      /\ status'[actor] = IF amount = Maximum THEN "all-in" ELSE "active"
  BY <1>2, PayEffect
<1> HIDE DEF committed
<1>4. /\ status'[actor] = "active" => stack'[actor] > 0
      /\ status'[actor] = "all-in" => stack'[actor] = 0
      /\ status'[actor] # "folded"
  <2>1. /\ stack'[actor] = Maximum - amount
        /\ status'[actor] = IF amount = Maximum THEN "all-in" ELSE "active"
    BY <1>3
  <2> QED BY <1>1, <1>2, <2>1
<1>5. currentBet <= amount /\ amount # currentBet
  BY <1>1, <1>2
<1> HIDE DEF Seats
<1>6. Effect(committed, amount, size, actedNow, rights)
  BY <1>2, <1>3, <1>4, <1>5 DEF Effect
<1> QED BY <1>6 DEF committed

\* After a full bet or raise everybody else may raise again.
LEMMA FullWagerEffect ==
  ASSUME BettingInv, MayAct,
         NEW amount \in 1..Maximum, NEW size \in Nat \ {0},
         size = amount - currentBet,
         FullWager(amount, size)
  PROVE  Effect([streetCommitted EXCEPT ![actor] = amount], amount, size,
                {actor}, Active(status') \ {actor})
<1>1. currentBet \in Nat /\ Maximum \in Nat /\ actor \in Seats
  BY ActorChips
<1>2. currentBet < amount
  BY <1>1
<1>3. \A p \in Seats : lastActedBet[p] \in Nat \cup {NoBet} /\ lastActedBet[p] <= currentBet
  BY DEF BettingInv, TypeOK, FacedAtMostBet
<1>4. \A p \in Seats : lastActedBet[p] = NoBet \/ amount - lastActedBet[p] >= size
  BY <1>1, <1>3
<1>5. Active(status') \ {actor} = OpenRights(amount, size)
  BY <1>4 DEF OpenRights, Active
<1>6. Pay(amount - streetCommitted[actor])
  BY DEF FullWager
<1> QED BY <1>1, <1>2, <1>5, <1>6, WagerEffect

\* An all-in bet below the minimum: whoever acted on this street has checked,
\* and may not raise.
LEMMA ShortBetEffect ==
  ASSUME BettingInv, MayAct,
         NEW amount \in 1..Maximum, currentBet = 0, ~(amount >= minimumRaise),
         ShortBet(amount)
  PROVE  Effect([streetCommitted EXCEPT ![actor] = amount], amount, minimumRaise,
                acted \cup {actor}, raiseRights \ {actor})
<1>1. /\ Maximum \in Nat /\ minimumRaise \in Nat \ {0}
      /\ actor \in Seats /\ acted \in SUBSET Seats
  BY ActorChips
<1>2. Pay(amount - streetCommitted[actor])
  BY DEF ShortBet
<1>3. \A p \in Seats : lastActedBet[p] = NoBet \/ lastActedBet[p] = 0
  BY DEF BettingInv, TypeOK, FacedAtMostBet
<1>4. \A p \in Seats : lastActedBet[p] # NoBet =>
        ~(currentBet - lastActedBet[p] >= minimumRaise) /\ ~(amount - lastActedBet[p] >= minimumRaise)
  BY <1>1, <1>3
<1>5. \A p \in Seats \ {actor} : status'[p] = status[p]
  <2>1. status \in [Seats -> {"active", "folded", "all-in"}]
    BY DEF BettingInv, TypeOK
  <2> QED BY <1>1, <1>2, <2>1 DEF Pay
<1>6. raiseRights \ {actor} = OpenRights(currentBet, minimumRaise)
  BY <1>5, KeptRights
<1>7. raiseRights \ {actor} = OpenRights(amount, minimumRaise)
  BY <1>4, <1>6 DEF OpenRights, Active
<1>8. currentBet < amount /\ actor \in acted \cup {actor} /\ acted \cup {actor} \in SUBSET Seats
  BY <1>1
<1> QED BY <1>1, <1>2, <1>7, <1>8, WagerEffect

\* An incomplete raise: the rights that were open stay, and those of the players
\* who now face a full raise since they acted are opened.
LEMMA ShortRaiseEffect ==
  ASSUME BettingInv, MayAct,
         NEW amount \in 1..Maximum, currentBet < amount,
         ShortRaise(amount)
  PROVE  Effect([streetCommitted EXCEPT ![actor] = amount], amount, minimumRaise,
                acted \cup {actor}, ReopenedRights(amount))
<1>1. /\ Maximum \in Nat /\ minimumRaise \in Nat \ {0} /\ currentBet \in Nat
      /\ actor \in Seats /\ acted \in SUBSET Seats
  BY ActorChips
<1>2. Pay(amount - streetCommitted[actor])
  BY DEF ShortRaise
<1>3. \A p \in Seats : lastActedBet[p] \in Nat \cup {NoBet}
  BY DEF BettingInv, TypeOK
<1>4. \A p \in Seats : currentBet - lastActedBet[p] >= minimumRaise
                        => amount - lastActedBet[p] >= minimumRaise
  BY <1>1, <1>3
<1>5. \A p \in Seats \ {actor} : status'[p] = status[p]
  <2>1. status \in [Seats -> {"active", "folded", "all-in"}]
    BY DEF BettingInv, TypeOK
  <2> QED BY <1>1, <1>2, <2>1 DEF Pay
<1>6. raiseRights \ {actor} = OpenRights(currentBet, minimumRaise)
  BY <1>5, KeptRights
<1>7. ReopenedRights(amount) = OpenRights(amount, minimumRaise)
  BY <1>4, <1>6 DEF ReopenedRights, OpenRights, Active
<1>8. actor \in acted \cup {actor} /\ acted \cup {actor} \in SUBSET Seats
  BY <1>1
<1> QED BY <1>1, <1>2, <1>7, <1>8, WagerEffect

\* Every command is an effect on the players followed by finishOrPassAction.
LEMMA CommandEffect ==
  ASSUME BettingInv, Next
  PROVE  /\ MayAct
         /\ \E committed, bet, raise, actedNow, rights :
              /\ Effect(committed, bet, raise, actedNow, rights)
              /\ FinishOrPass(committed, bet, raise, actedNow, rights)
<1>1. CASE Fold
  BY <1>1, FoldEffect DEF Fold
<1>2. CASE Check
  BY <1>2, CheckEffect DEF Check
<1>3. CASE Call
  BY <1>3, CallEffect DEF Call
<1>4. CASE \E amount \in 1..Maximum : Bet(amount)
  <2>1. PICK amount \in 1..Maximum : Bet(amount)
    BY <1>4
  <2>2. MayAct /\ currentBet = 0
    BY <2>1 DEF Bet, BetAccepted
  <2>3. minimumRaise \in Nat \ {0} /\ Maximum \in Nat
    BY <2>2, ActorChips
  <2>4. CASE amount >= minimumRaise
    <3>1. FullWager(amount, amount) /\ amount \in Nat \ {0} /\ amount = amount - currentBet
      BY <2>1, <2>2, <2>3, <2>4 DEF Bet
    <3> QED BY <2>2, <3>1, FullWagerEffect DEF FullWager
  <2>5. CASE ~(amount >= minimumRaise)
    <3>1. ShortBet(amount)
      BY <2>1, <2>5 DEF Bet
    <3> QED BY <2>2, <2>5, <3>1, ShortBetEffect DEF ShortBet
  <2> QED BY <2>4, <2>5
<1>5. CASE \E amount \in 1..Maximum : Raise(amount)
  <2>1. PICK amount \in 1..Maximum : Raise(amount)
    BY <1>5
  <2>2. MayAct /\ amount > currentBet
    BY <2>1 DEF Raise, RaiseAccepted
  <2>3. currentBet \in Nat /\ Maximum \in Nat
    BY <2>2, ActorChips
  <2>4. CASE amount - currentBet >= minimumRaise
    <3>1. FullWager(amount, amount - currentBet)
      BY <2>1, <2>4 DEF Raise
    <3>2. amount - currentBet \in Nat \ {0}
      BY <2>2, <2>3
    <3> QED BY <2>2, <3>1, <3>2, FullWagerEffect DEF FullWager
  <2>5. CASE ~(amount - currentBet >= minimumRaise)
    <3>1. ShortRaise(amount) /\ currentBet < amount
      BY <2>1, <2>2, <2>3, <2>5 DEF Raise
    <3> QED BY <2>2, <3>1, ShortRaiseEffect DEF ShortRaise
  <2> QED BY <2>4, <2>5
<1>6. CASE Timeout
  BY <1>1, <1>2, <1>6 DEF Timeout
<1> QED BY <1>1, <1>2, <1>3, <1>4, <1>5, <1>6 DEF Next

------------------------------------------------------------------------------
(***************************************************************************)
(* What an effect keeps, whatever finishOrPassAction then decides.         *)
(***************************************************************************)

\* The facts of the invariant about the seats, in one place.
LEMMA SeatFacts ==
  ASSUME BettingInv, MayAct, NEW p \in Seats
  PROVE  /\ stack[p] \in Nat
         /\ streetCommitted[p] \in Nat
         /\ handCommitted[p] \in Nat
         /\ streetCommitted[p] <= handCommitted[p]
         /\ streetCommitted[p] <= currentBet
         /\ status[p] = "active" => stack[p] > 0
         /\ status[p] = "all-in" => stack[p] = 0
         /\ handCommitted[p] - streetCommitted[p] <= StreetBase
         /\ status[p] = "active" => handCommitted[p] - streetCommitted[p] = StreetBase
<1>1. /\ stack[p] \in Nat
      /\ streetCommitted[p] \in Nat
      /\ handCommitted[p] \in Nat
  BY DEF BettingInv, TypeOK
<1>2. /\ streetCommitted[p] <= handCommitted[p]
      /\ streetCommitted[p] <= currentBet
      /\ status[p] = "active" => stack[p] > 0
      /\ status[p] = "all-in" => stack[p] = 0
  BY DEF BettingInv, EngineAsserts
<1>3. /\ handCommitted[p] - streetCommitted[p] <= StreetBase
      /\ status[p] = "active" => handCommitted[p] - streetCommitted[p] = StreetBase
  BY DEF BettingInv, StreetLevels, Live, MayAct, Active
<1> QED BY <1>1, <1>2, <1>3

\* The same facts after an effect.
LEMMA SeatFactsAfter ==
  ASSUME BettingInv, MayAct,
         NEW committed, NEW bet, NEW raise, NEW actedNow, NEW rights,
         Effect(committed, bet, raise, actedNow, rights),
         NEW p \in Seats
  PROVE  /\ committed[p] \in Nat
         /\ handCommitted'[p] \in Nat
         /\ stack'[p] \in Nat
         /\ committed[p] <= handCommitted'[p]
         /\ committed[p] <= bet
         /\ status'[p] = "active" => stack'[p] > 0
         /\ status'[p] = "all-in" => stack'[p] = 0
         /\ handCommitted'[p] - committed[p] <= StreetBase
         /\ status'[p] = "active" => handCommitted'[p] - committed[p] = StreetBase
         /\ status'[p] = "active" => status[p] = "active"
<1>1. /\ bet \in Nat /\ currentBet \in Nat /\ currentBet <= bet /\ StreetBase \in Nat
      /\ committed[p] \in Nat /\ handCommitted'[p] \in Nat /\ stack'[p] \in Nat
  BY ActorChips DEF Effect
<1>2. CASE p = actor
  <2>1. /\ handCommitted'[actor] - committed[actor] = StreetBase
        /\ committed[actor] <= bet
        /\ status'[actor] = "active" => stack'[actor] > 0
        /\ status'[actor] = "all-in" => stack'[actor] = 0
    BY DEF Effect
  <2>2. status[actor] = "active"
    BY DEF MayAct
  <2> QED BY <1>1, <1>2, <2>1, <2>2
<1>3. CASE p # actor
  <2>1. /\ committed[p] = streetCommitted[p]
        /\ stack'[p] = stack[p]
        /\ handCommitted'[p] = handCommitted[p]
        /\ status'[p] = status[p]
    BY <1>3 DEF Effect
  <2> QED BY <1>1, <2>1, SeatFacts
<1> QED BY <1>2, <1>3

\* If the actor already matches the wager, so does every other active player:
\* who matches without having acted is the last to act.
LEMMA OthersMatch ==
  ASSUME BettingInv, MayAct, streetCommitted[actor] = currentBet,
         NEW q \in Active(status), q # actor
  PROVE  streetCommitted[q] = currentBet
<1>1. actor \in Active(status) /\ Live
  BY ActorChips DEF MayAct, Active, Live
<1>2. SUFFICES ASSUME streetCommitted[q] # currentBet
               PROVE  FALSE
  OBVIOUS
<1>3. q \in Seats /\ actor \in Seats
  BY ActorChips DEF Active
<1>4. currentBet > 0
  BY <1>2, <1>3, SeatFacts, ActorChips
<1>5. actor \notin acted
  BY <1>1 DEF BettingInv, TurnOrder, OwesAction, Live
<1>6. Turn(actor) < Turn(q)
  BY <1>3 DEF Turn, Clockwise
<1>7. ~OwesAction(q)
  BY <1>1, <1>4, <1>5, <1>6 DEF BettingInv, OptionIsLast
<1> QED BY <1>2, <1>7 DEF OwesAction

\* Somebody still in the hand stands behind the wager.
LEMMA WagerHeld ==
  ASSUME BettingInv, MayAct,
         NEW committed, NEW bet, NEW raise, NEW actedNow, NEW rights,
         Effect(committed, bet, raise, actedNow, rights)
  PROVE  \E p \in Contenders(status') : handCommitted'[p] = StreetBase + bet
<1>1. actor \in Seats /\ currentBet \in Nat /\ bet \in Nat /\ currentBet <= bet /\ StreetBase \in Nat
  BY ActorChips DEF Effect
<1>2. /\ committed[actor] \in Nat /\ handCommitted'[actor] \in Nat
      /\ streetCommitted[actor] \in Nat /\ handCommitted[actor] \in Nat
      /\ handCommitted'[actor] - committed[actor] = StreetBase
      /\ streetCommitted[actor] <= committed[actor] /\ committed[actor] <= bet
      /\ status'[actor] = "folded" => committed[actor] = streetCommitted[actor]
      /\ currentBet < bet => status'[actor] # "folded" /\ committed[actor] = bet
  BY <1>1, SeatFactsAfter, ActorChips DEF Effect
<1>3. CASE status'[actor] # "folded" /\ committed[actor] = bet
  <2>1. handCommitted'[actor] = StreetBase + bet
    BY <1>1, <1>2, <1>3
  <2> QED BY <1>1, <1>3, <2>1 DEF Contenders
<1>4. CASE bet = currentBet /\ ~(status'[actor] # "folded" /\ committed[actor] = bet)
  <2>1. PICK p \in Contenders(status) : handCommitted[p] = StreetBase + currentBet
    BY DEF BettingInv, WagerHolder, Live, MayAct
  <2>2. CASE p # actor
    <3>1. p \in Seats \ {actor} /\ status[p] # "folded"
      BY <2>1, <2>2 DEF Contenders
    <3>2. handCommitted'[p] = handCommitted[p] /\ status'[p] = status[p]
      BY <3>1 DEF Effect
    <3> QED BY <1>4, <2>1, <3>1, <3>2 DEF Contenders
  <2>3. CASE p = actor
    <3>1. streetCommitted[actor] = currentBet
      BY <1>1, <1>2, <2>1, <2>3 DEF StreetBase
    <3>2. committed[actor] = bet
      BY <1>1, <1>2, <1>4, <3>1
    <3>3. \E q \in Active(status) : q # actor
      <4>1. ~HandOver(status, streetCommitted, currentBet)
        BY DEF BettingInv, StreetOpen, Live, MayAct
      <4>2. \A q \in Active(status) : q = actor => streetCommitted[q] = currentBet
        BY <3>1
      <4> QED BY <4>1, <4>2 DEF HandOver, AtMostOne, Matched
    <3>4. PICK q \in Active(status) : q # actor
      BY <3>3
    <3>5. streetCommitted[q] = currentBet
      BY <3>1, <3>4, OthersMatch
    <3>6. q \in Seats \ {actor} /\ status[q] = "active"
      BY <3>4 DEF Active
    <3>7. handCommitted[q] = StreetBase + currentBet
      BY <1>1, <3>5, <3>6, SeatFacts
    <3>8. handCommitted'[q] = handCommitted[q] /\ status'[q] = "active"
      BY <3>6 DEF Effect
    <3> QED BY <1>4, <3>6, <3>7, <3>8 DEF Contenders
  <2> QED BY <2>2, <2>3
<1> QED BY <1>1, <1>2, <1>3, <1>4

\* Hence no pot is without an eligible player.
LEMMA PotCovered ==
  ASSUME BettingInv, MayAct,
         NEW committed, NEW bet, NEW raise, NEW actedNow, NEW rights,
         Effect(committed, bet, raise, actedNow, rights)
  PROVE  ContenderCoversPot'
<1>1. PICK p \in Contenders(status') : handCommitted'[p] = StreetBase + bet
  BY WagerHeld
<1>2. bet \in Nat /\ StreetBase \in Nat
  BY ActorChips DEF Effect
<1>3. \A q \in Seats : handCommitted'[q] <= StreetBase + bet
  BY <1>2, SeatFactsAfter
<1> QED BY <1>1, <1>3 DEF ContenderCoversPot

\* An active player who matches the wager has committed as much as anybody.
LEMMA LevelsAfter ==
  ASSUME BettingInv, MayAct,
         NEW committed, NEW bet, NEW raise, NEW actedNow, NEW rights,
         Effect(committed, bet, raise, actedNow, rights),
         NEW p \in Seats, status'[p] = "active", committed[p] = bet,
         NEW q \in Seats
  PROVE  handCommitted'[q] <= handCommitted'[p]
<1>1. bet \in Nat /\ StreetBase \in Nat
  BY ActorChips DEF Effect
<1>2. /\ committed[q] \in Nat /\ handCommitted'[q] \in Nat
      /\ committed[q] <= bet
      /\ handCommitted'[q] - committed[q] <= StreetBase
  BY SeatFactsAfter
<1>3. handCommitted'[p] \in Nat /\ handCommitted'[p] - committed[p] = StreetBase
  BY SeatFactsAfter
<1> QED BY <1>1, <1>2, <1>3

\* The street commitments and the faced wagers stay at most the wager.
LEMMA FacedBets ==
  ASSUME BettingInv, MayAct,
         NEW committed, NEW bet, NEW raise, NEW actedNow, NEW rights,
         Effect(committed, bet, raise, actedNow, rights),
         lastActedBet' = [lastActedBet EXCEPT ![actor] = bet]
  PROVE  /\ lastActedBet' \in [Seats -> Nat \cup {NoBet}]
         /\ lastActedBet'[actor] = bet
         /\ \A p \in Seats \ {actor} : lastActedBet'[p] = lastActedBet[p]
         /\ \A p \in Seats : lastActedBet'[p] <= bet
<1>1. actor \in Seats /\ bet \in Nat /\ currentBet \in Nat /\ currentBet <= bet
  BY ActorChips DEF Effect
<1>2. lastActedBet \in [Seats -> Nat \cup {NoBet}] /\ \A p \in Seats : lastActedBet[p] <= currentBet
  BY DEF BettingInv, TypeOK, FacedAtMostBet
<1>3. \A p \in Seats : lastActedBet[p] <= bet
  BY <1>1, <1>2
<1> QED BY <1>1, <1>2, <1>3

------------------------------------------------------------------------------
(***************************************************************************)
(* finishOrPassAction keeps the invariant.                                 *)
(***************************************************************************)

\* The hand is over.
LEMMA FinishKeeps ==
  ASSUME BettingInv, MayAct,
         NEW committed, NEW bet, NEW raise, NEW actedNow, NEW rights,
         Effect(committed, bet, raise, actedNow, rights),
         Finish(committed, bet, raise, actedNow),
         UNCHANGED buttonSeat
  PROVE  BettingInv'
<1>1. ~Live'
  BY DEF Finish, Live
<1>2. TypeOK'
  <2>1. /\ phase' = "complete" /\ currentBet' = bet /\ minimumRaise' = raise
        /\ streetCommitted' = committed /\ acted' = actedNow /\ raiseRights' = {}
        /\ actor' = actor /\ boardCount' = boardCount
        /\ lastActedBet' = [lastActedBet EXCEPT ![actor] = bet]
    BY DEF Finish
  <2>2. lastActedBet' \in [Seats -> Nat \cup {NoBet}]
    BY <2>1, FacedBets
  <2>3. /\ buttonSeat \in Seats /\ actor \in Seats /\ boardCount \in 0..5
    BY DEF BettingInv, TypeOK
  <2>4. /\ committed \in [Seats -> Nat] /\ bet \in Nat /\ raise \in Nat \ {0}
        /\ actedNow \in SUBSET Seats
        /\ stack' \in [Seats -> Nat] /\ handCommitted' \in [Seats -> Nat]
        /\ status' \in [Seats -> {"active", "folded", "all-in"}]
    BY DEF Effect
  <2> HIDE DEF Seats
  <2> QED BY <2>1, <2>2, <2>3, <2>4 DEF TypeOK, Phases
<1>3. EngineAsserts'
  <2>1. phase' = "complete" /\ currentBet' = bet /\ streetCommitted' = committed
        /\ boardCount' = boardCount
    BY DEF Finish
  <2>2. boardCount \in BoardCards(phase) /\ phase \in Phases
    BY DEF BettingInv, EngineAsserts, TypeOK
  <2>3. boardCount' \in BoardCards("complete")
    BY <2>1, <2>2 DEF BoardCards, Phases, Streets
  <2> QED BY <2>1, <2>3, SeatFactsAfter DEF EngineAsserts
<1>4. FacedAtMostBet'
  BY FacedBets DEF Finish, FacedAtMostBet
<1>5. ContenderCoversPot'
  BY PotCovered
<1>6. ShowdownMatched'
  <2>1. SUFFICES ASSUME ~AtMostOne(Contenders(status')),
                        NEW p \in Active(status'), NEW q \in Seats
                 PROVE  handCommitted'[q] <= handCommitted'[p]
    BY DEF ShowdownMatched, Active
  <2>2. committed[p] = bet
    BY <2>1 DEF Finish, HandOver, Matched
  <2> QED BY <2>2, LevelsAfter DEF Active
<1> QED
  BY <1>1, <1>2, <1>3, <1>4, <1>5, <1>6
     DEF BettingInv, Live, TurnOrder, RaiseRightsRule, StreetLevels, WagerHolder,
         OptionIsLast, StreetOpen

\* The next street opens: nobody has acted on it and nothing is committed.
LEMMA CloseStreetKeeps ==
  ASSUME BettingInv, MayAct,
         NEW committed, NEW bet, NEW raise, NEW actedNow, NEW rights,
         Effect(committed, bet, raise, actedNow, rights),
         CloseStreet(committed, bet, actedNow),
         UNCHANGED buttonSeat
  PROVE  BettingInv'
<1>1. /\ phase' = NextPhase(phase)
      /\ boardCount' = DealBoard(boardCount, NextPhase(phase))
      /\ actor' = NextActor(status', stack', buttonSeat)
      /\ currentBet' = 0
      /\ minimumRaise' = BigBlind
      /\ streetCommitted' = [p \in Seats |-> 0]
      /\ acted' = {}
      /\ raiseRights' = Active(status')
      /\ lastActedBet' = [p \in Seats |-> NoBet]
      /\ buttonSeat' = buttonSeat
  BY DEF CloseStreet
<1>2. /\ ~HandOver(status', committed, bet)
      /\ ~AtMostOne(Active(status'))
      /\ \A p \in Active(status') : committed[p] = bet
  BY DEF CloseStreet, StreetClosed, Matched
<1>3. /\ stack' \in [Seats -> Nat] /\ handCommitted' \in [Seats -> Nat]
      /\ status' \in [Seats -> {"active", "folded", "all-in"}]
      /\ bet \in Nat /\ StreetBase \in Nat /\ buttonSeat \in Seats
  BY ActorChips DEF Effect, BettingInv, TypeOK
<1>4. actor' \in Active(status') /\ actor' \in Seats
  <2>1. Active(status') = {p \in Active(status') : stack'[p] > 0}
    BY SeatFactsAfter DEF Active
  <2>2. Active(status') \in SUBSET Seats /\ Active(status') # {}
    BY <1>2 DEF Active, AtMostOne
  <2>3. actor' = NextClockwise(Active(status'), buttonSeat)
    BY <1>1, <2>1, <2>2 DEF NextActor
  <2> QED BY <1>3, <2>2, <2>3, NearestSeat
<1>5. \A p \in Seats : /\ handCommitted'[p] <= StreetBase + bet
                       /\ p \in Active(status') => handCommitted'[p] = StreetBase + bet
  <2>1. TAKE p \in Seats
  <2>2. /\ committed[p] \in Nat /\ handCommitted'[p] \in Nat
        /\ committed[p] <= bet
        /\ handCommitted'[p] - committed[p] <= StreetBase
        /\ status'[p] = "active" => handCommitted'[p] - committed[p] = StreetBase
    BY SeatFactsAfter
  <2>3. p \in Active(status') => status'[p] = "active" /\ committed[p] = bet
    BY <1>2 DEF Active
  <2>4. bet \in Nat /\ StreetBase \in Nat
    BY <1>3
  <2> QED BY <2>2, <2>3, <2>4
<1>6. phase \in Streets /\ boardCount \in BoardCards(phase)
  BY DEF BettingInv, EngineAsserts, TypeOK, MayAct, Phases
<1>7. boardCount' \in 0..5 /\ boardCount' \in BoardCards(phase') /\ phase' \in Phases
  BY <1>1, <1>6 DEF BoardCards, DealBoard, NextPhase, Phases, Streets
<1>8. TypeOK'
  <2>1. minimumRaise' \in Nat \ {0} /\ lastActedBet' \in [Seats -> Nat \cup {NoBet}]
    BY <1>1
  <2>2. Active(status') \in SUBSET Seats
    BY DEF Active
  <2> HIDE DEF Seats
  <2> QED BY <1>1, <1>3, <1>4, <1>7, <2>1, <2>2 DEF TypeOK
<1>9. EngineAsserts'
  <2>1. \A p \in Seats :
          /\ streetCommitted'[p] <= handCommitted'[p]
          /\ status'[p] = "active" => stack'[p] > 0
          /\ status'[p] = "all-in" => stack'[p] = 0
          /\ streetCommitted'[p] <= currentBet'
    BY <1>1, <1>3, SeatFactsAfter
  <2>2. status'[actor'] = "active" /\ stack'[actor'] > 0
    BY <1>4, <2>1 DEF Active
  <2> QED BY <1>7, <2>1, <2>2 DEF EngineAsserts
<1>10. TurnOrder'
  BY <1>1 DEF TurnOrder, OwesAction
<1>11. ContenderCoversPot'
  BY PotCovered
<1>19. ShowdownMatched'
  <2>1. \A p \in Active(status') : p \in Seats /\ handCommitted'[p] = StreetBase + bet
    BY <1>5 DEF Active
  <2> QED BY <1>5, <2>1 DEF ShowdownMatched
<1>12. RaiseRightsRule'
  BY <1>1 DEF RaiseRightsRule, Active
<1>13. StreetBase' = StreetBase + bet
  BY <1>1, <1>3, <1>4, <1>5 DEF StreetBase
<1>14. StreetLevels'
  <2>1. \A p \in Seats : handCommitted'[p] - streetCommitted'[p] = handCommitted'[p]
    BY <1>1, <1>3
  <2> QED BY <1>5, <1>13, <2>1 DEF StreetLevels
<1>15. WagerHolder'
  <2>1. PICK p \in Contenders(status') : handCommitted'[p] = StreetBase + bet
    BY WagerHeld
  <2>2. StreetBase' + currentBet' = StreetBase + bet
    BY <1>1, <1>3, <1>13
  <2> QED BY <2>1, <2>2 DEF WagerHolder
<1>16. OptionIsLast'
  BY <1>1 DEF OptionIsLast
<1>17. StreetOpen'
  <2>1. ~AtMostOne(Contenders(status')) /\ ~AtMostOne(Active(status'))
    BY <1>2 DEF HandOver
  <2> QED BY <2>1 DEF StreetOpen, HandOver
<1>18. FacedAtMostBet'
  BY <1>1 DEF FacedAtMostBet
<1> QED
  BY <1>8, <1>9, <1>10, <1>11, <1>12, <1>14, <1>15, <1>16, <1>17, <1>18, <1>19
     DEF BettingInv

\* The turn order seen from the next actor: rotate the ring to its seat, and
\* the previous actor comes last.
LEMMA TurnShift ==
  ASSUME NEW from \in Seats, NEW next \in Seats, next # from,
         NEW p \in Seats, NEW q \in Seats,
         q # from => Clockwise(from, next) <= Clockwise(from, q),
         p # from => Clockwise(from, next) <= Clockwise(from, p),
         (IF p = next THEN 0 ELSE Clockwise(next, p)) < (IF q = next THEN 0 ELSE Clockwise(next, q))
  PROVE  /\ p # from
         /\ q # from => Clockwise(from, p) < Clockwise(from, q)
BY DEF Clockwise

\* The next active player is asked, on the same street.
LEMMA PassActionKeeps ==
  ASSUME BettingInv, MayAct,
         NEW committed, NEW bet, NEW raise, NEW actedNow, NEW rights,
         Effect(committed, bet, raise, actedNow, rights),
         PassAction(committed, bet, raise, actedNow, rights),
         UNCHANGED buttonSeat
  PROVE  BettingInv'
<1> DEFINE OwesNext(p) == p \notin acted' \/ streetCommitted'[p] # currentBet'
           TurnNext(p) == IF p = actor' THEN 0 ELSE Clockwise(actor', p)
<1>1. /\ actor' = NextActor(status', stack', actor)
      /\ currentBet' = bet
      /\ minimumRaise' = raise
      /\ streetCommitted' = committed
      /\ acted' = actedNow
      /\ raiseRights' = rights
      /\ lastActedBet' = [lastActedBet EXCEPT ![actor] = bet]
      /\ phase' = phase /\ boardCount' = boardCount /\ buttonSeat' = buttonSeat
  BY DEF PassAction
<1>2. /\ ~HandOver(status', committed, bet)
      /\ ~StreetClosed(status', committed, bet, actedNow)
  BY DEF PassAction
<1>3. /\ committed \in [Seats -> Nat] /\ stack' \in [Seats -> Nat]
      /\ handCommitted' \in [Seats -> Nat]
      /\ status' \in [Seats -> {"active", "folded", "all-in"}]
      /\ bet \in Nat /\ raise \in Nat \ {0} /\ actedNow \in SUBSET Seats
      /\ currentBet \in Nat /\ currentBet <= bet
      /\ actor \in Seats /\ buttonSeat \in Seats /\ StreetBase \in Nat
      /\ bet = currentBet => actedNow = acted \cup {actor}
      /\ actor \in actedNow
      /\ status'[actor] = "active" => committed[actor] = bet
      /\ rights = OpenRights(bet, raise)
  BY ActorChips DEF Effect, BettingInv, TypeOK
<1>4. Active(status') \in SUBSET Seats
  BY DEF Active
\* Somebody else owes an action.
<1>5. \E r \in Active(status') : r # actor /\ (r \notin actedNow \/ committed[r] # bet)
  <2>1. \E r \in Active(status') : r \notin actedNow \/ committed[r] # bet
    BY <1>2 DEF HandOver, StreetClosed, Matched
  <2>2. actor \in Active(status') => actor \in actedNow /\ committed[actor] = bet
    BY <1>3 DEF Active
  <2> QED BY <2>1, <2>2
<1>6. /\ actor' \in Active(status')
      /\ \A q \in Active(status') : Clockwise(actor, actor') <= Clockwise(actor, q)
  <2>1. Active(status') = {p \in Active(status') : stack'[p] > 0}
    BY SeatFactsAfter DEF Active
  <2>2. actor' = NextClockwise(Active(status'), actor)
    BY <1>1, <1>5, <2>1 DEF NextActor
  <2> QED BY <1>3, <1>4, <1>5, <2>2, NearestSeat
<1>7. actor' # actor /\ actor' \in Seats
  <2>1. PICK r \in Active(status') : r # actor
    BY <1>5
  <2>2. Clockwise(actor, actor') <= Clockwise(actor, r)
    BY <1>6, <2>1
  <2>3. r \in Seats /\ actor \in Seats /\ actor' \in Seats
    BY <1>3, <1>4, <1>6, <2>1
  <2>4. Clockwise(actor, r) < N /\ Clockwise(actor, actor) = N
    BY <2>1, <2>3 DEF Clockwise
  <2>5. Clockwise(actor, r) \in Nat
    BY <2>3 DEF Clockwise
  <2> QED BY <2>2, <2>3, <2>4, <2>5
\* The others keep their place in the turn order; the actor is now last.
<1>8. \A p, q \in Active(status') :
        TurnNext(p) < TurnNext(q) =>
          /\ p # actor
          /\ q # actor => Turn(p) < Turn(q)
  <2>1. TAKE p, q \in Active(status')
  <2>2. HAVE TurnNext(p) < TurnNext(q)
  <2>3. (IF p = actor' THEN 0 ELSE Clockwise(actor', p)) < (IF q = actor' THEN 0 ELSE Clockwise(actor', q))
    BY <2>2
  <2>4. p \in Seats /\ q \in Seats
    BY <1>4
  <2>5. p # actor /\ (q # actor => Clockwise(actor, p) < Clockwise(actor, q))
    BY <1>3, <1>6, <1>7, <2>3, <2>4, TurnShift
  <2> QED BY <2>5 DEF Turn
<1>9. \A p \in Active(status') : p # actor =>
        p \in Active(status) /\ committed[p] = streetCommitted[p]
  <2>1. TAKE p \in Active(status')
  <2>2. HAVE p # actor
  <2>3. p \in Seats \ {actor} /\ status'[p] = "active"
    BY <2>2 DEF Active
  <2> QED BY <2>3 DEF Effect, Active
\* A new wager is owed by everybody else, an old one by those who owed it.
<1>10. \A p \in Active(status') : p # actor =>
         (OwesNext(p) <=> (currentBet < bet \/ OwesAction(p)))
  <2>1. TAKE p \in Active(status')
  <2>2. HAVE p # actor
  <2>3. p \in Seats /\ committed[p] = streetCommitted[p]
    BY <1>9, <2>2 DEF Active
  <2>4. OwesNext(p) <=> (p \notin actedNow \/ committed[p] # bet)
    BY <1>1
  <2>5. streetCommitted[p] \in Nat /\ streetCommitted[p] <= currentBet
    BY <2>3, SeatFacts
  <2>6. CASE currentBet < bet
    BY <1>3, <2>3, <2>4, <2>5, <2>6
  <2>7. CASE bet = currentBet
    BY <1>3, <2>2, <2>3, <2>4, <2>7 DEF OwesAction
  <2> QED BY <1>3, <2>6, <2>7
<1>11. actor \in Active(status') => ~OwesNext(actor)
  BY <1>1, <1>3 DEF Active
<1>12. TypeOK'
  <2>1. lastActedBet' \in [Seats -> Nat \cup {NoBet}]
    BY <1>1, FacedBets
  <2>2. rights \in SUBSET Seats
    BY <1>3 DEF OpenRights, Active
  <2>3. phase \in Phases /\ boardCount \in 0..5
    BY DEF BettingInv, TypeOK
  <2> HIDE DEF Seats
  <2> QED BY <1>1, <1>3, <1>7, <2>1, <2>2, <2>3 DEF TypeOK
<1>13. EngineAsserts'
  <2>1. \A p \in Seats :
          /\ streetCommitted'[p] <= handCommitted'[p]
          /\ status'[p] = "active" => stack'[p] > 0
          /\ status'[p] = "all-in" => stack'[p] = 0
          /\ streetCommitted'[p] <= currentBet'
    BY <1>1, SeatFactsAfter
  <2>2. status'[actor'] = "active" /\ stack'[actor'] > 0
    BY <1>6, <1>7, <2>1 DEF Active
  <2>3. boardCount' \in BoardCards(phase')
    BY <1>1 DEF BettingInv, EngineAsserts
  <2> QED BY <2>1, <2>2, <2>3 DEF EngineAsserts
<1>14. Live
  BY DEF Live, MayAct
<1>15. \A p, q \in Active(status') :
         OwesNext(q) /\ TurnNext(p) < TurnNext(q) => OwesNext(p)
  <2>1. TAKE p, q \in Active(status')
  <2>2. HAVE OwesNext(q) /\ TurnNext(p) < TurnNext(q)
  <2>3. q # actor
    BY <1>11, <2>2
  <2>4. p # actor /\ Turn(p) < Turn(q)
    BY <1>8, <2>2, <2>3
  <2>5. p \in Active(status) /\ q \in Active(status)
    BY <1>9, <2>3, <2>4
  <2>6. OwesAction(q) => OwesAction(p)
    BY <1>14, <2>4, <2>5 DEF BettingInv, TurnOrder, Live
  <2> QED BY <1>10, <2>2, <2>3, <2>4, <2>6
<1>16. TurnOrder'
  <2>1. PICK r \in Active(status') : r # actor /\ (r \notin actedNow \/ committed[r] # bet)
    BY <1>5
  <2>2. OwesNext(r)
    BY <1>1, <2>1
  <2>3. CASE r = actor'
    BY <1>15, <2>2, <2>3 DEF TurnOrder, OwesAction, Turn
  <2>4. CASE r # actor'
    <3>1. TurnNext(actor') < TurnNext(r)
      <4>1. TurnNext(actor') = 0
        OBVIOUS
      <4>2. TurnNext(r) = Clockwise(actor', r)
        BY <2>4
      <4>3. r \in Seats /\ Clockwise(actor', r) > 0
        BY <1>4, <1>7, <2>1 DEF Clockwise
      <4> QED BY <4>1, <4>2, <4>3
    <3>2. OwesNext(actor')
      BY <1>6, <1>15, <2>2, <3>1
    <3> QED BY <1>15, <3>2 DEF TurnOrder, OwesAction, Turn
  <2> QED BY <2>3, <2>4
<1>17. ContenderCoversPot'
  BY PotCovered
<1>18. RaiseRightsRule'
  <2>1. /\ lastActedBet'[actor] = bet
        /\ \A p \in Seats \ {actor} : lastActedBet'[p] = lastActedBet[p]
    BY <1>1, FacedBets
  <2>2. ~(lastActedBet'[actor] = NoBet) /\ ~(bet - lastActedBet'[actor] >= raise)
    BY <1>3, <2>1
  <2>3. rights = {p \in Active(status') :
                    lastActedBet'[p] = NoBet \/ bet - lastActedBet'[p] >= raise}
    BY <1>3, <2>1, <2>2 DEF OpenRights, Active
  <2> QED BY <1>1, <2>3 DEF RaiseRightsRule
<1>19. StreetBase' = StreetBase
  <2>1. handCommitted'[actor'] - committed[actor'] = StreetBase
    BY <1>6, <1>7, SeatFactsAfter DEF Active
  <2> QED BY <1>1, <2>1 DEF StreetBase
<1>20. StreetLevels'
  BY <1>1, <1>19, SeatFactsAfter DEF StreetLevels, Active
<1>21. WagerHolder'
  BY <1>1, <1>19, WagerHeld DEF WagerHolder
<1>22. OptionIsLast'
  <2>1. SUFFICES ASSUME NEW p \in Active(status'), NEW q \in Active(status'),
                        committed[p] = bet, bet > 0, p \notin actedNow,
                        TurnNext(p) < TurnNext(q)
                 PROVE  ~OwesNext(q)
    BY <1>1 DEF OptionIsLast, OwesAction, Turn
  <2>2. p # actor
    BY <1>3, <2>1
  <2>3. p \in Active(status) /\ streetCommitted[p] = bet /\ p \in Seats
    BY <1>9, <2>1, <2>2 DEF Active
  <2>4. bet = currentBet
    BY <1>3, <2>3, SeatFacts
  <2>5. p \notin acted
    BY <1>3, <2>1, <2>4
  <2>6. CASE q = actor
    BY <1>11, <2>6
  <2>7. CASE q # actor
    <3>1. q \in Active(status) /\ Turn(p) < Turn(q)
      BY <1>8, <1>9, <2>1, <2>7
    <3>2. ~OwesAction(q)
      BY <1>14, <2>1, <2>3, <2>4, <2>5, <3>1 DEF BettingInv, OptionIsLast
    <3> QED BY <1>3, <1>10, <2>4, <2>7, <3>2
  <2> QED BY <2>6, <2>7
<1>23. StreetOpen'
  BY <1>1, <1>2 DEF StreetOpen, HandOver, AtMostOne, Matched, Contenders, Active
<1>24. FacedAtMostBet'
  BY <1>1, FacedBets DEF FacedAtMostBet
<1>25. ShowdownMatched'
  BY <1>1, <1>14 DEF ShowdownMatched, Live
<1> QED
  BY <1>12, <1>13, <1>16, <1>17, <1>18, <1>20, <1>21, <1>22, <1>23, <1>24, <1>25
     DEF BettingInv

------------------------------------------------------------------------------
(***************************************************************************)
(* The deal establishes the invariant.                                     *)
(***************************************************************************)

\* The state after the blinds of sb and bb, with `first' to open the betting.
Dealt(chips, button, sb, bb, first) ==
  /\ phase = IF DealtComplete(chips, sb, bb) THEN "complete" ELSE "preflop"
  /\ buttonSeat = button
  /\ actor = first
  /\ currentBet = BlindBet(chips, sb, bb)
  /\ minimumRaise = BigBlind
  /\ stack = [p \in Seats |-> chips[p] - Posted(chips, sb, bb, p)]
  /\ streetCommitted = [p \in Seats |-> Posted(chips, sb, bb, p)]
  /\ handCommitted = streetCommitted
  /\ status = DealtStatus(chips, sb, bb)
  /\ acted = {}
  /\ raiseRights = Active(status)
  /\ lastActedBet = [p \in Seats |-> NoBet]
  /\ boardCount = 0

\* Whoever is dealt in between two players with chips: the big blind closes the
\* first round, and the small blind is the last to act before it.
LEMMA DealtInv ==
  ASSUME NEW chips \in [Seats -> Nat],
         NEW button \in Seats, NEW sb \in Seats, NEW bb \in Seats, NEW first \in Seats,
         sb # bb, chips[sb] > 0, chips[bb] > 0,
         \A q \in Seats : q # bb /\ chips[q] > 0 => Clockwise(bb, q) <= Clockwise(bb, sb),
         Dealt(chips, button, sb, bb, first),
         Live => /\ first \in Active(status)
                 /\ \A q \in Active(status) : Clockwise(bb, first) <= Clockwise(bb, q)
  PROVE  BettingInv
<1> DEFINE posted(p) == Posted(chips, sb, bb, p)
           blind == BlindBet(chips, sb, bb)
<1>1. \A p \in Seats : /\ chips[p] \in Nat /\ posted(p) \in Nat /\ posted(p) <= chips[p]
                       /\ p # sb /\ p # bb => posted(p) = 0
  BY DEF Posted, MinOf
<1>2. /\ posted(sb) > 0 /\ posted(sb) <= SmallBlind
      /\ posted(bb) > 0
      /\ posted(bb) <= SmallBlind => posted(bb) = chips[bb]
  BY DEF Posted, MinOf
<1>3. /\ blind \in Nat /\ blind > 0
      /\ posted(sb) <= blind /\ posted(bb) <= blind
      /\ blind = posted(sb) \/ blind = posted(bb)
  BY <1>1, <1>2 DEF BlindBet
<1>4. \A p \in Seats : posted(p) <= blind
  <2>1. TAKE p \in Seats
  <2>2. p # sb /\ p # bb => posted(p) = 0
    BY <1>1
  <2> HIDE DEF posted, blind
  <2> QED BY <1>3, <2>2
<1>5. /\ actor = first /\ buttonSeat = button
      /\ phase \in {"complete", "preflop"}
      /\ currentBet = blind /\ minimumRaise = BigBlind
      /\ handCommitted = streetCommitted
      /\ acted = {} /\ raiseRights = Active(status) /\ boardCount = 0
      /\ \A p \in Seats : /\ stack[p] = chips[p] - posted(p)
                          /\ streetCommitted[p] = posted(p)
                          /\ lastActedBet[p] = NoBet
  BY DEF Dealt
<1>6. \A p \in Seats : /\ status[p] \in {"active", "folded", "all-in"}
                       /\ status[p] = "active" <=> chips[p] # posted(p)
                       /\ status[p] = "all-in" => chips[p] = posted(p)
                       /\ status[p] = "folded" => chips[p] = 0
  <2>1. status = DealtStatus(chips, sb, bb)
    BY DEF Dealt
  <2>2. TAKE p \in Seats
  <2>3. status[p] = IF chips[p] = 0 THEN "folded"
                    ELSE IF chips[p] = posted(p) THEN "all-in" ELSE "active"
    BY <2>1 DEF DealtStatus
  <2>4. chips[p] = 0 => chips[p] = posted(p)
    BY <1>1
  <2> QED BY <2>3, <2>4
<1>7. status[sb] # "folded" /\ status[bb] # "folded"
  BY <1>6
<1>8. TypeOK
  <2>1. stack \in [Seats -> Nat]
    <3>1. \A p \in Seats : chips[p] - posted(p) \in Nat
      <4>1. TAKE p \in Seats
      <4>2. chips[p] \in Nat /\ posted(p) \in Nat /\ posted(p) <= chips[p]
        BY <1>1
      <4> QED BY <4>2
    <3> QED BY <3>1 DEF Dealt
  <2>2. streetCommitted \in [Seats -> Nat] /\ handCommitted \in [Seats -> Nat]
    BY <1>1 DEF Dealt
  <2>3. status \in [Seats -> {"active", "folded", "all-in"}]
    BY DEF Dealt, DealtStatus
  <2>4. lastActedBet \in [Seats -> Nat \cup {NoBet}]
    BY DEF Dealt
  <2>5. Active(status) \in SUBSET Seats
    BY DEF Active
  <2>6. minimumRaise \in Nat \ {0} /\ phase \in Phases /\ boardCount \in 0..5
    BY <1>5 DEF Phases, Streets
  <2> HIDE DEF Seats
  <2> QED BY <1>3, <1>5, <2>1, <2>2, <2>3, <2>4, <2>5, <2>6 DEF TypeOK
<1>9. EngineAsserts
  <2>1. \A p \in Seats :
          /\ streetCommitted[p] <= handCommitted[p]
          /\ status[p] = "active" => stack[p] > 0
          /\ status[p] = "all-in" => stack[p] = 0
          /\ streetCommitted[p] <= currentBet
    <3>1. TAKE p \in Seats
    <3>2. /\ chips[p] \in Nat /\ posted(p) \in Nat /\ posted(p) <= chips[p] /\ posted(p) <= blind
          /\ stack[p] = chips[p] - posted(p) /\ streetCommitted[p] = posted(p)
      BY <1>1, <1>4, <1>5
    <3> HIDE DEF posted, blind
    <3> QED BY <1>5, <1>6, <3>2
  <2>2. phase # "complete" => status[actor] = "active" /\ stack[actor] > 0
    BY <1>5, <2>1 DEF Live, Active
  <2>3. boardCount \in BoardCards(phase)
    BY <1>5 DEF BoardCards
  <2> QED BY <2>1, <2>2, <2>3 DEF EngineAsserts
<1>10. \A p \in Seats : OwesAction(p)
  BY <1>5 DEF OwesAction
<1>11. TurnOrder
  BY <1>5, <1>10 DEF TurnOrder, Active
<1>12. \E p \in Contenders(status) : handCommitted[p] = blind
  BY <1>3, <1>5, <1>7 DEF Contenders
<1>13. ContenderCoversPot
  BY <1>4, <1>5, <1>12 DEF ContenderCoversPot
<1>14. RaiseRightsRule
  BY <1>5 DEF RaiseRightsRule, Active
<1>15. \A p \in Seats : handCommitted[p] - streetCommitted[p] = 0
  <2>1. TAKE p \in Seats
  <2>2. handCommitted[p] = posted(p) /\ streetCommitted[p] = posted(p) /\ posted(p) \in Nat
    BY <1>1, <1>5
  <2> QED BY <2>2
<1>16. StreetBase = 0
  BY <1>5, <1>15 DEF StreetBase
<1>17. StreetLevels
  BY <1>15, <1>16 DEF StreetLevels
<1>18. WagerHolder
  <2>1. StreetBase + currentBet = blind
    BY <1>3, <1>5, <1>16
  <2> QED BY <1>12, <2>1 DEF WagerHolder
<1>19. OptionIsLast
  <2>1. SUFFICES ASSUME Live, NEW p \in Active(status), NEW q \in Active(status),
                        posted(p) = blind, Turn(p) < Turn(q)
                 PROVE  FALSE
    BY <1>5 DEF OptionIsLast, Active
  <2>2. p \in Seats /\ q \in Seats /\ chips[p] # posted(p) /\ chips[q] # posted(q)
    BY <1>6 DEF Active
  <2>3. /\ first \in Active(status)
        /\ \A r \in Active(status) : Clockwise(bb, first) <= Clockwise(bb, r)
    BY <2>1
  <2>4. (IF p = first THEN 0 ELSE Clockwise(first, p)) < (IF q = first THEN 0 ELSE Clockwise(first, q))
    BY <1>5, <2>1 DEF Turn
  <2>5. first # bb
    <3>1. SUFFICES ASSUME first = bb
                   PROVE  FALSE
      OBVIOUS
    <3>2. Clockwise(bb, q) >= Clockwise(bb, bb)
      BY <2>3, <3>1
    <3>3. q = bb
      BY <2>2, <3>2 DEF Clockwise
    <3> QED BY <2>2, <2>4, <3>1, <3>3 DEF Clockwise
  <2>6. p # bb /\ (q # bb => Clockwise(bb, p) < Clockwise(bb, q))
    BY <2>2, <2>3, <2>4, <2>5, TurnShift
  <2>7. p = sb
    BY <1>1, <1>3, <2>1, <2>2, <2>6
  <2>8. q # bb
    <3>1. posted(bb) <= SmallBlind
      BY <1>1, <1>2, <1>3, <2>1, <2>7
    <3> QED BY <1>2, <2>2, <3>1
  <2>9. chips[q] > 0
    BY <1>1, <2>2
  <2>10. Clockwise(bb, q) <= Clockwise(bb, sb)
    BY <2>2, <2>8, <2>9
  <2>11. Clockwise(bb, q) \in Int /\ Clockwise(bb, sb) \in Int
    BY <2>2 DEF Clockwise
  <2> QED BY <2>6, <2>7, <2>8, <2>10, <2>11
<1>20. StreetOpen
  <2>1. ~AtMostOne(Contenders(status))
    BY <1>7 DEF AtMostOne, Contenders
  <2>2. Live => ~DealtComplete(chips, sb, bb)
    BY DEF Dealt, Live
  <2>3. status = DealtStatus(chips, sb, bb)
    BY DEF Dealt
  <2>4. Active(status) \in SUBSET Seats
    BY DEF Active
  <2>5. DealtComplete(chips, sb, bb) <=>
          AtMostOne(Active(status)) /\ \A p \in Active(status) : posted(p) = blind
    BY <2>3 DEF DealtComplete
  <2>6. Matched(status, streetCommitted, currentBet) <=> \A p \in Active(status) : posted(p) = blind
    BY <1>5, <2>4 DEF Matched
  <2> QED BY <2>1, <2>2, <2>5, <2>6 DEF StreetOpen, HandOver
<1>21. FacedAtMostBet
  BY <1>3, <1>5 DEF FacedAtMostBet
<1>22. ShowdownMatched
  <2>1. phase = "complete" => DealtComplete(chips, sb, bb)
    BY DEF Dealt
  <2>2. status = DealtStatus(chips, sb, bb)
    BY DEF Dealt
  <2>3. DealtComplete(chips, sb, bb) => \A p \in Active(status) : posted(p) = blind
    BY <2>2 DEF DealtComplete
  <2> QED BY <1>4, <1>5, <2>1, <2>3 DEF ShowdownMatched, Active
<1> QED
  BY <1>8, <1>9, <1>11, <1>13, <1>14, <1>17, <1>18, <1>19, <1>20, <1>21, <1>22
     DEF BettingInv

\* The first deal.
LEMMA InitInv == Init => BettingInv
<1>1. SUFFICES ASSUME NEW chips \in [Seats -> StartStacks], NEW button \in Seats,
                      StartHand(chips, button)
               PROVE  BettingInv
  BY DEF Init
<1> DEFINE sb == SmallBlindSeat(button)
           bb == BigBlindSeat(button)
           active == Active(DealtStatus(chips, sb, bb))
           first == IF active = {} THEN SeatAfter(bb) ELSE NextClockwise(active, bb)
<1>2. /\ chips \in [Seats -> Nat]
      /\ \A p \in Seats : chips[p] > 0
  <2>1. StartStacks \subseteq Nat /\ \A c \in StartStacks : c \in Nat /\ c > 0
    BY StacksAssumption
  <2> HIDE DEF Seats
  <2> QED BY <2>1
<1>3. sb \in Seats /\ bb \in Seats /\ sb # bb /\ SeatAfter(bb) \in Seats
  BY DEF SmallBlindSeat, BigBlindSeat, SeatAfter
<1>4. \A q \in Seats : q # bb => Clockwise(bb, q) <= Clockwise(bb, sb)
  <2>1. bb = SeatAfter(sb)
    BY DEF BigBlindSeat
  <2>2. TAKE q \in Seats
  <2> HIDE DEF sb, bb
  <2> QED BY <1>3, <2>1 DEF SeatAfter, Clockwise
<1>5. active \in SUBSET Seats
  BY DEF Active
<1>6. active # {} => /\ first \in active
                     /\ \A q \in active : Clockwise(bb, first) <= Clockwise(bb, q)
  BY <1>3, <1>5, NearestSeat
<1>7. first \in Seats
  BY <1>3, <1>5, <1>6
<1>8. Dealt(chips, button, sb, bb, first)
  BY <1>1 DEF StartHand, Dealt
<1>9. Live => active # {}
  BY <1>1 DEF StartHand, Live, DealtComplete, AtMostOne
<1>10. active = Active(status)
  BY <1>1 DEF StartHand
<1> HIDE DEF sb, bb, active, first
<1> QED BY <1>1, <1>2, <1>3, <1>4, <1>6, <1>7, <1>8, <1>9, <1>10, DealtInv

------------------------------------------------------------------------------
(* Every command of a hand *)

\* A step of the betting keeps the invariant.
LEMMA NextInv == BettingInv /\ [Next]_vars => BettingInv'
<1>1. SUFFICES ASSUME BettingInv, [Next]_vars
               PROVE  BettingInv'
  OBVIOUS
<1>2. CASE Next
  <2>1. PICK committed, bet, raise, actedNow, rights :
           /\ MayAct
           /\ Effect(committed, bet, raise, actedNow, rights)
           /\ FinishOrPass(committed, bet, raise, actedNow, rights)
    BY <1>1, <1>2, CommandEffect
  <2>2. buttonSeat' = buttonSeat
    BY <2>1 DEF FinishOrPass
  <2>3. CASE Finish(committed, bet, raise, actedNow)
    BY <1>1, <2>1, <2>2, <2>3, FinishKeeps
  <2>4. CASE CloseStreet(committed, bet, actedNow)
    BY <1>1, <2>1, <2>2, <2>4, CloseStreetKeeps
  <2>5. CASE PassAction(committed, bet, raise, actedNow, rights)
    BY <1>1, <2>1, <2>2, <2>5, PassActionKeeps
  <2> QED BY <2>1, <2>3, <2>4, <2>5 DEF FinishOrPass
<1>3. CASE UNCHANGED vars
  BY <1>1, <1>3
     DEF vars, wagers, BettingInv, TypeOK, EngineAsserts, TurnOrder, ContenderCoversPot, ShowdownMatched,
         RaiseRightsRule, StreetLevels, WagerHolder, OptionIsLast, StreetOpen,
         FacedAtMostBet, OwesAction, Turn, Live, StreetBase, HandOver, Matched,
         Contenders, Active
<1> QED BY <1>1, <1>2, <1>3

\* A command moves chips only between the actor's own stack and commitment.
LEMMA CommandsMoveOwnChips ==
  BettingInv /\ Next => \A p \in Seats : Wealth(p)' = Wealth(p)
<1> SUFFICES ASSUME BettingInv, Next, NEW p \in Seats
             PROVE  (stack[p] + handCommitted[p])' = stack[p] + handCommitted[p]
  BY DEF Wealth
<1>1. PICK committed, bet, raise, actedNow, rights :
         MayAct /\ Effect(committed, bet, raise, actedNow, rights)
  BY CommandEffect
<1>2. CASE p = actor
  BY <1>1, <1>2 DEF Effect
<1>3. CASE p # actor
  BY <1>1, <1>3 DEF Effect
<1> QED BY <1>2, <1>3

(***************************************************************************)
(* What the client offers is what the engine accepts: legalActions splits  *)
(* the offers by type, and each offered range is the accepted one.         *)
(***************************************************************************)
LEMMA OffersMatch == TypeOK => OffersAreAccepted
<1> SUFFICES ASSUME TypeOK, MayAct PROVE OffersAreAccepted
  BY DEF OffersAreAccepted
<1> DEFINE offered(t) == {a \in LegalActions : a.type = t}
           bet   == [type |-> "bet", min |-> MinOf(minimumRaise, Maximum), max |-> Maximum]
           raise == [type |-> "raise", min |-> MinOf(currentBet + minimumRaise, Maximum),
                     max |-> Maximum]
<1>1. /\ actor \in Seats /\ currentBet \in Nat /\ minimumRaise \in Nat /\ minimumRaise > 0
      /\ Maximum \in Nat /\ ToCall \in Nat
  BY DEF TypeOK, Maximum, ToCall
<1>2. /\ (offered("check") # {}) <=> ~(ToCall > 0)
      /\ (offered("call") # {}) <=> ToCall > 0
  <2>1. CASE ToCall > 0
    <3>1. [type |-> "call", min |-> 0, max |-> 0] \in offered("call")
      BY <2>1 DEF LegalActions
    <3>2. offered("check") = {}
      BY <2>1 DEF LegalActions
    <3> QED BY <2>1, <3>1, <3>2
  <2>2. CASE ~(ToCall > 0)
    <3>1. [type |-> "check", min |-> 0, max |-> 0] \in offered("check")
      BY <2>2 DEF LegalActions
    <3>2. offered("call") = {}
      BY <2>2 DEF LegalActions
    <3> QED BY <2>2, <3>1, <3>2
  <2> QED BY <2>1, <2>2
<1>3. offered("bet") = IF currentBet = 0 /\ Maximum > 0 THEN {bet} ELSE {}
  BY DEF LegalActions
<1>4. offered("raise") = IF ~(currentBet = 0 /\ Maximum > 0)
                            /\ actor \in raiseRights /\ Maximum > currentBet
                         THEN {raise} ELSE {}
  BY DEF LegalActions
<1>5. bet.min = MinOf(minimumRaise, Maximum) /\ bet.max = Maximum
  OBVIOUS
<1>6. raise.min = MinOf(currentBet + minimumRaise, Maximum) /\ raise.max = Maximum
  OBVIOUS
<1> HIDE DEF bet, raise
<1>7. ASSUME NEW amount \in 0..Maximum + 1
      PROVE  BetAccepted(amount) <=> \E a \in offered("bet") : amount \in a.min..a.max
  <2>1. CASE currentBet = 0 /\ Maximum > 0
    <3>1. (\E a \in offered("bet") : amount \in a.min..a.max) <=> amount \in bet.min..bet.max
      BY <1>3, <2>1
    <3> QED BY <3>1, <2>1, <1>1, <1>5 DEF BetAccepted, MinOf
  <2>2. CASE ~(currentBet = 0 /\ Maximum > 0)
    <3>1. ~(\E a \in offered("bet") : amount \in a.min..a.max)
      BY <1>3, <2>2
    <3> QED BY <3>1, <2>2, <1>1 DEF BetAccepted
  <2> QED BY <2>1, <2>2
<1>8. ASSUME NEW amount \in 0..Maximum + 1
      PROVE  RaiseAccepted(amount) <=> \E a \in offered("raise") : amount \in a.min..a.max
  <2>1. CASE currentBet # 0 /\ actor \in raiseRights /\ Maximum > currentBet
    <3>1. (\E a \in offered("raise") : amount \in a.min..a.max)
             <=> amount \in raise.min..raise.max
      BY <1>4, <2>1
    <3> QED BY <3>1, <2>1, <1>1, <1>6 DEF RaiseAccepted, MinOf
  <2>2. CASE ~(currentBet # 0 /\ actor \in raiseRights /\ Maximum > currentBet)
    <3>1. ~(\E a \in offered("raise") : amount \in a.min..a.max)
      BY <1>1, <1>4, <2>2
    <3> QED BY <3>1, <2>2, <1>1 DEF RaiseAccepted
  <2> QED BY <2>1, <2>2
<1> HIDE DEF offered
<1>9. /\ (offered("check") # {}) <=> (ToCall = 0)
      /\ (offered("call") # {}) <=> (ToCall # 0)
  BY <1>1, <1>2
<1> QED BY <1>7, <1>8, <1>9 DEF OffersAreAccepted, offered

------------------------------------------------------------------------------
(***************************************************************************)
(* From hand to hand: settling a hand, adding chips and dealing the next   *)
(* one keep the invariant of the betting.                                  *)
(***************************************************************************)
HIDE DEF Seats

\* What settleShowdown pays, in a state of the invariant.
LEMMA SettlementFacts ==
  ASSUME BettingInv, NEW score \in Scores
  PROVE  /\ handCommitted \in Commitments /\ Contenders(status) \in SUBSET Seats
         /\ Covers(handCommitted, Contenders(status))
         /\ score \in [Seats -> 1..N] /\ buttonSeat \in Seats
         /\ \A p \in Seats :
              Payouts(handCommitted, Contenders(status), score, buttonSeat)[p] \in Nat
<1>1. handCommitted \in Commitments /\ buttonSeat \in Seats
  BY DEF BettingInv, TypeOK, Commitments
<1>2. Contenders(status) \in SUBSET Seats
  BY DEF Contenders
<1>3. Covers(handCommitted, Contenders(status))
  BY DEF BettingInv, ContenderCoversPot, Covers
<1>4. score \in [Seats -> 1..N]
  BY DEF Scores
<1> QED BY <1>1, <1>2, <1>3, <1>4, PayoutsConserve

LEMMA SettleKeeps == BettingInv /\ Settle => BettingInv'
<1> SUFFICES ASSUME BettingInv, NEW score \in Scores, SettleWith(score) PROVE BettingInv'
  BY DEF Settle
<1> PICK paid : paid = Payouts(handCommitted, Contenders(status), score, buttonSeat)
  OBVIOUS
<1>1. \A p \in Seats : paid[p] \in Nat
  BY SettlementFacts
<1>2. /\ stack' = [p \in Seats |-> stack[p] + paid[p]]
      /\ status' = [p \in Seats |-> IF status[p] = "all-in" /\ stack[p] + paid[p] > 0
                                    THEN "active" ELSE status[p]]
      /\ handCommitted' = [p \in Seats |-> 0]
      /\ streetCommitted' = [p \in Seats |-> 0]
      /\ currentBet' = 0 /\ acted' = {} /\ raiseRights' = {}
      /\ lastActedBet' = [p \in Seats |-> NoBet]
      /\ boardCount' \in {boardCount, 5}
      /\ phase = "complete" /\ phase' = phase
      /\ buttonSeat' = buttonSeat /\ actor' = actor /\ minimumRaise' = minimumRaise
  BY DEF SettleWith
<1>3. TypeOK
  BY DEF BettingInv
<1>4. \A p \in Seats : /\ stack[p] \in Nat /\ stack'[p] = stack[p] + paid[p] /\ stack'[p] \in Nat
                       /\ status[p] = "active" => stack[p] > 0
  BY <1>1, <1>2, <1>3 DEF TypeOK, BettingInv, EngineAsserts
<1>5. TypeOK'
  <2>1. stack' \in [Seats -> Nat]
    <3>1. \A p \in Seats : stack[p] + paid[p] \in Nat
      BY <1>1, <1>4
    <3> QED BY <1>2, <3>1
  <2>2. status' \in [Seats -> {"active", "folded", "all-in"}]
    BY <1>2, <1>3 DEF TypeOK
  <2>3. boardCount' \in 0..5
    BY <1>2, <1>3 DEF TypeOK
  <2>4. /\ handCommitted' \in [Seats -> Nat] /\ streetCommitted' \in [Seats -> Nat]
        /\ lastActedBet' \in [Seats -> Nat \cup {NoBet}] /\ currentBet' \in Nat
    BY <1>2
  <2> QED BY <1>2, <1>3, <2>1, <2>2, <2>3, <2>4 DEF TypeOK
<1>6. EngineAsserts'
  <2>1. \A p \in Seats : /\ streetCommitted'[p] <= handCommitted'[p]
                         /\ streetCommitted'[p] <= currentBet'
    BY <1>2
  <2>2. ASSUME NEW p \in Seats
        PROVE  /\ status'[p] = "active" => stack'[p] > 0
               /\ status'[p] = "all-in" => stack'[p] = 0
    <3>1. status'[p] = IF status[p] = "all-in" /\ stack'[p] > 0 THEN "active" ELSE status[p]
      BY <1>2, <1>4
    <3>2. /\ stack[p] \in Nat /\ paid[p] \in Nat /\ stack'[p] \in Nat /\ stack'[p] = stack[p] + paid[p]
      BY <1>1, <1>4
    <3>3. CASE status[p] = "all-in"
      BY <3>1, <3>2, <3>3
    <3>4. CASE status[p] # "all-in"
      <4>1. status'[p] = status[p] /\ (status[p] = "active" => stack[p] > 0)
        BY <1>4, <3>1, <3>4
      <4> QED BY <3>2, <3>4, <4>1
    <3> QED BY <3>3, <3>4
  <2>3. boardCount' \in BoardCards(phase')
    <3>1. boardCount \in BoardCards(phase)
      BY DEF BettingInv, EngineAsserts
    <3> QED BY <1>2, <3>1 DEF BoardCards
  <2> QED BY <1>2, <2>1, <2>2, <2>3 DEF EngineAsserts
<1>7. Contenders(status') = Contenders(status)
  BY <1>2 DEF Contenders
<1>8. ContenderCoversPot' /\ ShowdownMatched'
  <2>1. PICK p \in Contenders(status) : TRUE
    BY DEF BettingInv, ContenderCoversPot
  <2>2. \A q \in Seats : handCommitted'[q] = 0
    BY <1>2
  <2>3. p \in Seats /\ \A q \in Active(status') : q \in Seats
    BY DEF Contenders, Active
  <2> QED BY <1>7, <2>1, <2>2, <2>3 DEF ContenderCoversPot, ShowdownMatched
<1>9. FacedAtMostBet'
  BY <1>2 DEF FacedAtMostBet
<1> QED
  BY <1>2, <1>5, <1>6, <1>8, <1>9
     DEF BettingInv, TurnOrder, RaiseRightsRule, StreetLevels, WagerHolder, OptionIsLast,
         StreetOpen, Live

LEMMA AddOnKeeps ==
  ASSUME BettingInv, NEW p \in Seats, NEW amount \in AddOns, AddOn(p, amount)
  PROVE  BettingInv'
<1>1. /\ phase = "complete" /\ \A q \in Seats : handCommitted[q] = 0
      /\ stack' = [stack EXCEPT ![p] = @ + amount]
      /\ status' = [status EXCEPT ![p] = IF @ = "all-in" THEN "active" ELSE @]
      /\ UNCHANGED <<phase, buttonSeat, actor, handCommitted, boardCount>>
      /\ UNCHANGED <<currentBet, minimumRaise, streetCommitted, acted, raiseRights, lastActedBet>>
  BY DEF AddOn, Settled, wagers
<1>2. TypeOK /\ EngineAsserts /\ amount \in Nat /\ amount > 0
  BY AddOnsAssumption DEF BettingInv
<1>3. TypeOK'
  <2>1. stack' \in [Seats -> Nat] /\ status' \in [Seats -> {"active", "folded", "all-in"}]
    BY <1>1, <1>2 DEF TypeOK
  <2> QED BY <1>1, <1>2, <2>1 DEF TypeOK
<1>4. EngineAsserts'
  <2>1. ASSUME NEW q \in Seats
        PROVE  /\ status'[q] = "active" => stack'[q] > 0
               /\ status'[q] = "all-in" => stack'[q] = 0
    <3>1. CASE q = p
      <4>1. stack'[p] = stack[p] + amount /\ stack[p] \in Nat /\ status'[p] # "all-in"
        BY <1>1, <1>2 DEF TypeOK
      <4> QED BY <1>2, <3>1, <4>1
    <3>2. CASE q # p
      <4>1. stack'[q] = stack[q] /\ status'[q] = status[q]
        BY <1>1, <1>2, <3>2 DEF TypeOK
      <4> QED BY <1>2, <4>1 DEF EngineAsserts
    <3> QED BY <3>1, <3>2
  <2> QED BY <1>1, <1>2, <2>1 DEF EngineAsserts
<1>5. Contenders(status') = Contenders(status)
  BY <1>1, <1>2 DEF TypeOK, Contenders
<1>6. ContenderCoversPot' /\ ShowdownMatched'
  <2>1. PICK r \in Contenders(status) : TRUE
    BY DEF BettingInv, ContenderCoversPot
  <2>2. r \in Seats /\ \A q \in Active(status') : q \in Seats
    BY DEF Contenders, Active
  <2>3. \A q \in Seats : handCommitted'[q] = 0
    BY <1>1
  <2> QED BY <1>5, <2>1, <2>2, <2>3 DEF ContenderCoversPot, ShowdownMatched
<1>7. FacedAtMostBet'
  BY <1>1 DEF BettingInv, FacedAtMostBet
<1> QED
  BY <1>1, <1>3, <1>4, <1>6, <1>7
     DEF BettingInv, TurnOrder, RaiseRightsRule, StreetLevels, WagerHolder, OptionIsLast,
         StreetOpen, Live

\* Who follows the nearest seat behind the small blind comes before the small
\* blind when the big blind walks on.
LEMMA RingThird ==
  ASSUME NEW sb \in Seats, NEW bb \in Seats, NEW q \in Seats, sb # bb, q # bb,
         Clockwise(sb, bb) <= Clockwise(sb, q)
  PROVE  /\ Clockwise(bb, q) <= Clockwise(bb, sb)
         /\ q # sb => Clockwise(bb, q) < Clockwise(bb, sb)
BY DEF Seats, Clockwise

\* DealtInv as a formula, so that it can be said of the next state.
DealEstablishes ==
  \A chips \in [Seats -> Nat], button \in Seats, sb \in Seats, bb \in Seats, first \in Seats :
    /\ sb # bb /\ chips[sb] > 0 /\ chips[bb] > 0
    /\ \A q \in Seats : q # bb /\ chips[q] > 0 => Clockwise(bb, q) <= Clockwise(bb, sb)
    /\ Dealt(chips, button, sb, bb, first)
    /\ Live => /\ first \in Active(status)
               /\ \A q \in Active(status) : Clockwise(bb, first) <= Clockwise(bb, q)
    => BettingInv

LEMMA DealSound == DealEstablishes
BY DealtInv DEF DealEstablishes

LEMMA DealNext ==
  ASSUME NEW chips \in [Seats -> Nat], NEW button \in Seats, NEW sb \in Seats,
         NEW bb \in Seats, NEW first \in Seats,
         sb # bb, chips[sb] > 0, chips[bb] > 0,
         \A q \in Seats : q # bb /\ chips[q] > 0 => Clockwise(bb, q) <= Clockwise(bb, sb),
         Dealt(chips, button, sb, bb, first)',
         NEW able, able = Active(DealtStatus(chips, sb, bb)),
         ~DealtComplete(chips, sb, bb) => /\ first \in able
                                          /\ \A q \in able : Clockwise(bb, first) <= Clockwise(bb, q)
  PROVE  BettingInv'
<1>1. DealEstablishes'
  BY DealSound, PTL
<1>2. Live' => ~DealtComplete(chips, sb, bb)
  BY DEF Dealt, Live
<1>3. Active(status)' = able
  BY DEF Dealt
<1> QED BY <1>1, <1>2, <1>3 DEF DealEstablishes

LEMMA AdvanceKeeps == BettingInv /\ AdvanceHand => BettingInv'
<1> SUFFICES ASSUME BettingInv, AdvanceHand PROVE BettingInv'
  OBVIOUS
<1>1. PICK chips, funded, button, sb, bb, first :
        /\ chips = stack
        /\ funded = Funded
        /\ button = NextClockwise(funded, buttonSeat)
        /\ sb = IF Cardinality(funded) = 2 THEN button ELSE NextClockwise(funded, button)
        /\ bb = NextClockwise(funded, sb)
        /\ first = IF Cardinality(funded) = 2 THEN button ELSE NextClockwise(funded, bb)
  OBVIOUS
<1>2. Dealt(chips, button, sb, bb, first)' /\ Cardinality(funded) >= 2
  BY <1>1 DEF AdvanceHand, Dealt
<1>3. /\ chips \in [Seats -> Nat] /\ buttonSeat \in Seats
      /\ funded \in SUBSET Seats /\ IsFiniteSet(funded) /\ Cardinality(funded) \in Nat
      /\ \A q \in Seats : q \in funded <=> chips[q] > 0
  <2>1. chips \in [Seats -> Nat] /\ buttonSeat \in Seats
    BY <1>1 DEF BettingInv, TypeOK
  <2>2. funded \in SUBSET Seats /\ \A q \in Seats : q \in funded <=> chips[q] > 0
    BY <1>1 DEF Funded
  <2> QED BY <2>1, <2>2, SeatsFinite, CardinalityNatural
<1>4. funded # {}
  BY <1>2, <1>3, FS_EmptySet
<1>5. button \in funded /\ sb \in funded /\ bb \in funded
  <2>1. button \in funded
    BY <1>1, <1>3, <1>4, NearestSeat
  <2>2. sb \in funded
    BY <1>1, <1>3, <1>4, <2>1, NearestSeat
  <2> QED BY <1>1, <1>3, <1>4, <2>1, <2>2, NearestSeat
<1>6. \A q \in funded : Clockwise(sb, bb) <= Clockwise(sb, q)
  BY <1>1, <1>3, <1>4, <1>5, NearestSeat
<1>7. sb # bb
  <2>1. PICK q \in funded : q # sb
    <3>1. funded # {sb}
      BY <1>2, FS_Singleton
    <3> QED BY <1>5, <3>1
  <2>2. Clockwise(sb, q) < Clockwise(sb, sb)
    BY <1>3, <1>5, <2>1 DEF Seats, Clockwise
  <2>3. Clockwise(sb, bb) <= Clockwise(sb, q)
    BY <1>6
  <2>4. Clockwise(sb, q) \in Nat /\ Clockwise(sb, bb) \in Nat /\ Clockwise(sb, sb) \in Nat
    BY <1>3, <1>5, RingOrder
  <2> QED BY <2>2, <2>3, <2>4
<1>8. \A q \in funded : q # bb => /\ Clockwise(bb, q) <= Clockwise(bb, sb)
                                  /\ q # sb => Clockwise(bb, q) < Clockwise(bb, sb)
  BY <1>3, <1>5, <1>6, <1>7, RingThird
<1>9. first \in Seats
  BY <1>1, <1>3, <1>4, <1>5, NearestSeat
<1> DEFINE posted(p) == Posted(chips, sb, bb, p)
           able == {p \in funded : chips[p] # posted(p)}
<1>10. Active(DealtStatus(chips, sb, bb)) = able
  <2>1. \A p \in Seats : DealtStatus(chips, sb, bb)[p] = "active" <=> chips[p] # 0 /\ chips[p] # posted(p)
    BY DEF DealtStatus
  <2>2. \A p \in Seats : chips[p] # 0 <=> p \in funded
    BY <1>3
  <2> QED BY <1>3, <2>1, <2>2 DEF Active
<1>11. CASE Cardinality(funded) = 2
  <2>1. funded = {sb, bb} /\ first = sb
    <3>1. {sb, bb} \in SUBSET funded /\ Cardinality({sb, bb}) = 2
      <4>1. IsFiniteSet({bb}) /\ Cardinality({bb}) = 1
        BY FS_Singleton
      <4>2. {sb, bb} = {bb} \cup {sb} /\ sb \notin {bb}
        BY <1>7
      <4>3. Cardinality({sb, bb}) = 2
        BY <4>1, <4>2, FS_AddElement
      <4> QED BY <1>5, <4>3
    <3> QED BY <1>1, <1>3, <1>11, <3>1, FS_Subset
  <2>2. ~DealtComplete(chips, sb, bb) => sb \in able
    <3>1. SUFFICES ASSUME sb \notin able PROVE DealtComplete(chips, sb, bb)
      OBVIOUS
    <3>2. able \subseteq {bb}
      BY <2>1, <3>1
    <3>3. bb \in able => posted(bb) = BlindBet(chips, sb, bb)
      <4>1. SUFFICES ASSUME chips[bb] # posted(bb) PROVE posted(bb) = BlindBet(chips, sb, bb)
        OBVIOUS
      <4>2. /\ posted(bb) = MinOf(chips[bb], BigBlind)
            /\ posted(sb) = MinOf(chips[sb], SmallBlind)
            /\ chips[sb] \in Nat /\ chips[bb] \in Nat
        BY <1>3, <1>5, <1>7 DEF Posted
      <4>3. posted(sb) <= posted(bb)
        BY <4>1, <4>2 DEF MinOf
      <4> QED BY <4>3 DEF BlindBet
    <3> QED BY <1>10, <3>2, <3>3 DEF DealtComplete, AtMostOne
  <2>3. \A q \in able : Clockwise(bb, sb) <= Clockwise(bb, q)
    <3>1. Clockwise(bb, sb) <= Clockwise(bb, sb) /\ Clockwise(bb, sb) <= Clockwise(bb, bb)
      BY <1>3, <1>5 DEF Seats, Clockwise
    <3> QED BY <2>1, <3>1
  <2> QED BY <1>2, <1>3, <1>5, <1>7, <1>8, <1>9, <1>10, <2>1, <2>2, <2>3, DealNext
<1>12. CASE Cardinality(funded) # 2
  <2>1. first \in funded /\ \A q \in funded : Clockwise(bb, first) <= Clockwise(bb, q)
    BY <1>1, <1>3, <1>4, <1>5, <1>12, NearestSeat
  <2>2. PICK r \in funded : r # sb /\ r # bb
    <3>1. IsFiniteSet({sb, bb}) /\ Cardinality({sb, bb}) = 2
      <4>1. IsFiniteSet({bb}) /\ Cardinality({bb}) = 1
        BY FS_Singleton
      <4>2. {sb, bb} = {bb} \cup {sb} /\ sb \notin {bb}
        BY <1>7
      <4> QED BY <4>1, <4>2, FS_AddElement
    <3>2. ~(funded \in SUBSET {sb, bb})
      <4>1. SUFFICES ASSUME funded \in SUBSET {sb, bb} PROVE FALSE
        OBVIOUS
      <4>2. Cardinality(funded) <= 2
        BY <3>1, <4>1, FS_Subset
      <4> QED BY <1>2, <1>3, <1>12, <4>2
    <3> QED BY <3>2
  <2>3. first # sb /\ first # bb
    <3>1. /\ Clockwise(bb, first) <= Clockwise(bb, r)
          /\ Clockwise(bb, r) < Clockwise(bb, sb)
          /\ Clockwise(bb, sb) <= Clockwise(bb, bb)
      <4>1. Clockwise(bb, sb) <= Clockwise(bb, bb)
        BY <1>3, <1>5 DEF Seats, Clockwise
      <4> QED BY <1>8, <2>1, <2>2, <4>1
    <3>2. \A q \in {first, r, sb, bb} : Clockwise(bb, q) \in Nat
      BY <1>3, <1>5, <1>9, <2>2, RingOrder
    <3> QED BY <3>1, <3>2
  <2>4. first \in able
    <3>1. chips[first] \in Nat /\ chips[first] > 0
      BY <1>3, <1>9, <2>1
    <3>2. posted(first) = 0
      BY <2>3, <3>1 DEF Posted, MinOf
    <3> QED BY <2>1, <3>1, <3>2
  <2>5. \A q \in able : Clockwise(bb, first) <= Clockwise(bb, q)
    BY <2>1
  <2> QED BY <1>2, <1>3, <1>5, <1>7, <1>8, <1>9, <1>10, <2>4, <2>5, DealNext
<1> QED BY <1>11, <1>12

\* A step of the table keeps the invariant.
LEMMA HandNextInv == BettingInv /\ [HandNext]_vars => BettingInv'
<1> SUFFICES ASSUME BettingInv, [HandNext]_vars PROVE BettingInv'
  OBVIOUS
<1>1. CASE [Next]_vars
  BY <1>1, NextInv
<1>2. CASE Settle
  BY <1>2, SettleKeeps
<1>3. CASE AdvanceHand
  BY <1>3, AdvanceKeeps
<1>4. ASSUME NEW p \in Seats, NEW amount \in AddOns, AddOn(p, amount) PROVE BettingInv'
  BY <1>4, AddOnKeeps
<1> QED BY <1>1, <1>2, <1>3, <1>4 DEF HandNext

------------------------------------------------------------------------------
(***************************************************************************)
(* The chips of the table.                                                 *)
(***************************************************************************)
\* A defined formula, so that it can be said of the next state too.
TotalSplit ==
  TypeOK => /\ TotalChips = SumFunctionOnSet(stack, Seats) + SumFunctionOnSet(handCommitted, Seats)
            /\ SumFunctionOnSet(stack, Seats) \in Nat
            /\ SumFunctionOnSet(handCommitted, Seats) \in Nat

LEMMA TotalIsSum == TotalSplit
<1> SUFFICES ASSUME TypeOK
             PROVE  /\ TotalChips = SumFunctionOnSet(stack, Seats) + SumFunctionOnSet(handCommitted, Seats)
                    /\ SumFunctionOnSet(stack, Seats) \in Nat
                    /\ SumFunctionOnSet(handCommitted, Seats) \in Nat
  BY DEF TotalSplit
<1>1. DOMAIN stack = Seats /\ DOMAIN handCommitted = Seats
  BY DEF TypeOK
<1>2. \A p \in Seats : stack[p] \in Nat /\ handCommitted[p] \in Nat
  BY DEF TypeOK
<1> QED BY <1>1, <1>2, SeatsFinite, SumNatural DEF TotalChips, SumFunction

LEMMA TotalIsSumNext == TotalSplit'
BY TotalIsSum, PTL

\* Settling moves the commitments to the stacks, once.
LEMMA SettleConserves ==
  ASSUME BettingInv, Settle
  PROVE  \/ \A p \in Seats : Wealth(p)' = Wealth(p)
         \/ AwaitsSettlement /\ Settled' /\ TotalChips' = TotalChips
<1> PICK score \in Scores : SettleWith(score)
  BY DEF Settle
<1> PICK paid : paid = Payouts(handCommitted, Contenders(status), score, buttonSeat)
  OBVIOUS
<1>1. /\ \A p \in Seats : paid[p] \in Nat
      /\ SumFunctionOnSet(paid, Seats) = SumFunctionOnSet(handCommitted, Seats)
  BY SettlementFacts, PayoutsConserve
<1>2. /\ \A p \in Seats : stack'[p] = stack[p] + paid[p] /\ handCommitted'[p] = 0
      /\ phase = "complete" /\ phase' = "complete"
  BY DEF SettleWith
<1>3. TypeOK /\ TypeOK'
  BY SettleKeeps DEF BettingInv, Settle
<1>4. \A p \in Seats : stack[p] \in Nat /\ handCommitted[p] \in Nat
  BY <1>3 DEF TypeOK
<1>5. CASE Settled
  <2>1. SumFunctionOnSet(paid, Seats) = 0
    <3>1. \A p \in Seats : handCommitted[p] = 0
      BY <1>5 DEF Settled
    <3> QED BY <1>1, <3>1, SeatsFinite, SumZero
  <2>2. ASSUME NEW p \in Seats PROVE Wealth(p)' = Wealth(p)
    <3>1. SumFunctionOnSet(paid, Seats) = paid[p] + SumFunctionOnSet(paid, Seats \ {p})
      BY <1>1, SeatsFinite, SumAny
    <3>2. SumFunctionOnSet(paid, Seats \ {p}) \in Nat
      <4>1. IsFiniteSet(Seats \ {p})
        BY SeatsFinite
      <4> QED BY <1>1, <4>1, SumNatural
    <3>3. paid[p] = 0
      BY <1>1, <2>1, <3>1, <3>2
    <3>4. handCommitted[p] = 0
      BY <1>5 DEF Settled
    <3> QED BY <1>2, <1>4, <3>3, <3>4 DEF Wealth
  <2> QED BY <2>2
<1>6. CASE ~Settled
  <2>1. AwaitsSettlement /\ Settled'
    BY <1>2, <1>6 DEF AwaitsSettlement, Settled
  <2>2. SumFunctionOnSet(stack', Seats)
          = SumFunctionOnSet(stack, Seats) + SumFunctionOnSet(paid, Seats)
    <3>1. \A p \in Seats : stack[p] \in Nat /\ paid[p] \in Nat /\ stack'[p] = stack[p] + paid[p]
      BY <1>1, <1>2, <1>4
    <3> QED BY <3>1, SeatsFinite, SumPlus
  <2>3. SumFunctionOnSet(handCommitted', Seats) = 0
    BY <1>2, SeatsFinite, SumZero
  <2>4. TotalChips' = TotalChips
    BY <1>1, <1>3, <2>2, <2>3, TotalIsSum, TotalIsSumNext DEF TotalSplit
  <2> QED BY <2>1, <2>4
<1> QED BY <1>5, <1>6

LEMMA AddOnAdds ==
  ASSUME BettingInv, NEW p \in Seats, NEW amount \in AddOns, AddOn(p, amount)
  PROVE  Settled /\ Settled' /\ TotalChips' - TotalChips = amount
<1>1. /\ Settled /\ Settled' /\ stack' = [stack EXCEPT ![p] = @ + amount]
      /\ handCommitted' = handCommitted
  BY DEF AddOn, Settled
<1>2. TypeOK /\ TypeOK' /\ amount \in Nat
  BY AddOnKeeps, AddOnsAssumption DEF BettingInv
<1>3. /\ stack'[p] = stack[p] + amount
      /\ \A q \in Seats : stack[q] \in Nat /\ stack'[q] \in Nat
      /\ \A q \in Seats \ {p} : stack[q] = stack'[q]
  BY <1>1, <1>2 DEF TypeOK
<1>4. stack'[p] + SumFunctionOnSet(stack, Seats) = stack[p] + SumFunctionOnSet(stack', Seats)
  BY <1>3, SeatsFinite, SumChanged
<1>5. TotalChips' - TotalChips = amount
  <2>1. /\ TotalChips = SumFunctionOnSet(stack, Seats) + SumFunctionOnSet(handCommitted, Seats)
        /\ TotalChips' = SumFunctionOnSet(stack', Seats) + SumFunctionOnSet(handCommitted, Seats)
        /\ SumFunctionOnSet(stack, Seats) \in Nat /\ SumFunctionOnSet(stack', Seats) \in Nat
        /\ SumFunctionOnSet(handCommitted, Seats) \in Nat
    BY <1>1, <1>2, TotalIsSum, TotalIsSumNext DEF TotalSplit
  <2>2. stack[p] \in Nat
    BY <1>3
  <2> QED BY <1>2, <1>3, <1>4, <2>1, <2>2
<1> QED BY <1>1, <1>5

\* The next deal only posts blinds.
LEMMA DealMovesOwnChips ==
  ASSUME BettingInv, AdvanceHand, NEW p \in Seats
  PROVE  Wealth(p)' = Wealth(p)
<1>1. PICK posted : /\ stack'[p] = stack[p] - posted[p] /\ handCommitted'[p] = posted[p]
                    /\ posted[p] \in Int
  <2>1. PICK sb, bb : /\ stack' = [q \in Seats |-> stack[q] - Posted(stack, sb, bb, q)]
                      /\ handCommitted' = [q \in Seats |-> Posted(stack, sb, bb, q)]
    BY DEF AdvanceHand
  <2>2. /\ stack'[p] = stack[p] - Posted(stack, sb, bb, p)
        /\ handCommitted'[p] = Posted(stack, sb, bb, p)
    BY <2>1
  <2>3. stack[p] \in Nat
    BY DEF BettingInv, TypeOK
  <2>4. Posted(stack, sb, bb, p) \in Int
    BY <2>3, BlindsAssumption DEF Posted, MinOf
  <2> QED BY <2>2, <2>4
<1>2. handCommitted[p] = 0 /\ stack[p] \in Nat
  BY DEF AdvanceHand, Settled, BettingInv, TypeOK
<1> QED BY <1>1, <1>2 DEF Wealth

\* No player collects more from another than it has committed itself.
LEMMA StakesBounded == BettingInv => TableStakes
<1> SUFFICES ASSUME BettingInv, NEW score \in Scores, NEW p \in Seats
             PROVE  LET alive == Contenders(status)
                        paid  == Payouts(handCommitted, alive, score, buttonSeat)
                        reach == SumFunction([q \in Seats |-> MinOf(handCommitted[p], handCommitted[q])])
                    IN  /\ paid[p] <= (IF p \in alive THEN reach ELSE 0)
                        /\ Best(alive, score) = {p} => paid[p] = reach
  BY DEF TableStakes
<1> DEFINE alive == Contenders(status)
           paid == Payouts(handCommitted, alive, score, buttonSeat)
           reach == SumFunction([q \in Seats |-> MinOf(handCommitted[p], handCommitted[q])])
<1>1. reach = SumFunctionOnSet(Capped(handCommitted, handCommitted[p]), Seats)
  BY DEF SumFunction, Capped
<1>2. paid[p] = Payout(handCommitted, alive, score, buttonSeat, p)
  BY DEF Payouts
<1>3. /\ p \notin alive => paid[p] = 0
      /\ p \in alive => paid[p] <= reach
      /\ Best(alive, score) = {p} => paid[p] = reach
  <2> HIDE DEF reach, paid
  <2> QED BY <1>1, <1>2, SettlementFacts, PayoutBounds
<1> HIDE DEF alive, paid, reach
<1>4. /\ paid[p] <= (IF p \in alive THEN reach ELSE 0)
      /\ Best(alive, score) = {p} => paid[p] = reach
  BY <1>3
<1> QED BY <1>4 DEF alive, paid, reach

------------------------------------------------------------------------------
(***************************************************************************)
(* The theorems: of one hand (Spec), and of hand after hand (HandSpec).    *)
(***************************************************************************)

\* The inductive invariant holds throughout a hand.
THEOREM BettingInvariant == Spec => []BettingInv
<1>1. Init => BettingInv
  BY InitInv
<1>2. BettingInv /\ [Next]_vars => BettingInv'
  BY NextInv
<1> QED BY <1>1, <1>2, PTL DEF Spec

\* And it holds throughout the life of a table: advanceHand deals no hand,
\* with whatever seats busted or funded, that startHand could not have dealt.
THEOREM HandInvariant == HandSpec => []BettingInv
<1>1. Init => BettingInv
  BY InitInv
<1>2. BettingInv /\ [HandNext]_vars => BettingInv'
  BY HandNextInv
<1> QED BY <1>1, <1>2, PTL DEF HandSpec

\* The fields of the state keep their types.
THEOREM TypesKept == (Spec => []TypeOK) /\ (HandSpec => []TypeOK)
<1>1. BettingInv => TypeOK
  BY DEF BettingInv
<1> QED BY <1>1, BettingInvariant, HandInvariant, PTL

\* assertInvariants accepts every state of a hand.
THEOREM AssertionsHold == (Spec => []EngineAsserts) /\ (HandSpec => []EngineAsserts)
<1>1. BettingInv => EngineAsserts
  BY DEF BettingInv
<1> QED BY <1>1, BettingInvariant, HandInvariant, PTL

\* Nobody is skipped, nobody asked twice, and the actor always owes an action.
THEOREM TurnsInOrder == (Spec => []TurnOrder) /\ (HandSpec => []TurnOrder)
<1>1. BettingInv => TurnOrder
  BY DEF BettingInv
<1> QED BY <1>1, BettingInvariant, HandInvariant, PTL

\* Every pot of every hand has a player who may win it.
THEOREM PotsAreCovered == (Spec => []ContenderCoversPot) /\ (HandSpec => []ContenderCoversPot)
<1>1. BettingInv => ContenderCoversPot
  BY DEF BettingInv
<1> QED BY <1>1, BettingInvariant, HandInvariant, PTL

\* No hand goes to showdown over a player who still faces a wager.
THEOREM ShowdownsMatched == (Spec => []ShowdownMatched) /\ (HandSpec => []ShowdownMatched)
<1>1. BettingInv => ShowdownMatched
  BY DEF BettingInv
<1> QED BY <1>1, BettingInvariant, HandInvariant, PTL

\* The bookkeeping of raise rights implements the rule it stands for.
THEOREM RaiseRightsFollowRule == (Spec => []RaiseRightsRule) /\ (HandSpec => []RaiseRightsRule)
<1>1. BettingInv => RaiseRightsRule
  BY DEF BettingInv
<1> QED BY <1>1, BettingInvariant, HandInvariant, PTL

\* legalActions, which the client's action panel is drawn from, and
\* applyCommandResult, which judges the command, agree on every reachable
\* table: no offered amount is refused, and no acceptable one is withheld.
THEOREM OffersHold == (Spec => []OffersAreAccepted) /\ (HandSpec => []OffersAreAccepted)
<1>1. (Spec => []TypeOK) /\ (HandSpec => []TypeOK)
  BY TypesKept
<1> QED BY <1>1, OffersMatch, PTL

\* Betting moves chips only between a player's own stack and its commitment.
THEOREM PlayersKeepTheirChips == Spec => [][\A p \in Seats : Wealth(p)' = Wealth(p)]_vars
<1>1. BettingInv /\ [Next]_vars => [\A p \in Seats : Wealth(p)' = Wealth(p)]_vars
  BY CommandsMoveOwnChips
<1> QED BY <1>1, BettingInvariant, PTL DEF Spec

\* However the cards fall at whatever end of a hand, settleShowdown pays by
\* table stakes: its side pots, odd chips and refunds give a player no more of
\* any opponent's chips than it has put in itself.
THEOREM SettlementIsFair == HandSpec => []TableStakes
BY StakesBounded, HandInvariant, PTL

\* No chip appears or vanishes in the life of a table: the odd chips of split
\* pots, uncalled bets and folded commitments are all paid out, once.
THEOREM ChipsAreConserved == HandSpec => ChipsConserved
<1> DEFINE Kept == \/ \A p \in Seats : Wealth(p)' = Wealth(p)
                   \/ AwaitsSettlement /\ Settled' /\ TotalChips' = TotalChips
                   \/ Settled /\ Settled' /\ TotalChips' - TotalChips \in AddOns
<1>1. BettingInv /\ HandNext => Kept
  <2> SUFFICES ASSUME BettingInv, HandNext PROVE Kept
    OBVIOUS
  <2>1. CASE Next
    BY <2>1, CommandsMoveOwnChips
  <2>2. CASE Settle
    BY <2>2, SettleConserves
  <2>3. CASE AdvanceHand
    BY <2>3, DealMovesOwnChips
  <2>4. ASSUME NEW p \in Seats, NEW amount \in AddOns, AddOn(p, amount) PROVE Kept
    BY <2>4, AddOnAdds
  <2> QED BY <2>1, <2>2, <2>3, <2>4 DEF HandNext
<1>2. BettingInv /\ [HandNext]_vars => [Kept]_vars
  BY <1>1
<1>3. HandSpec => [][Kept]_vars
  <2> HIDE DEF Kept
  <2> QED BY <1>2, HandInvariant, PTL DEF HandSpec
<1> QED BY <1>3 DEF ChipsConserved
==============================================================================
