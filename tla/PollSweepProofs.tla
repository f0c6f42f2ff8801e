-------------------------- MODULE PollSweepProofs --------------------------
(***************************************************************************)
(* The values sent after a frame that began with pollIndex 0 are of that   *)
(* frame, all of them, in every world of at least 4 cells across and       *)
(* whatever lists are sent and frames cut short before.                    *)
(*                                                                         *)
(* First that the world's own polls are in the order of the sweep and in   *)
(* the world, then what the sweep has done by the time it is at a cell.    *)
(***************************************************************************)
EXTENDS PollSweep, FiniteSetTheorems, TLAPS

----------------------------------------------------------------------------
(* Places in an ordered set *)

LEMMA Smallest ==
  ASSUME NEW T, T \subseteq Nat, T # {}
  PROVE  \E x \in T : \A y \in T : x <= y
<1>1. PICK x \in T : \A y \in T : ~(<<y, x>> \in OpToRel(<, Nat))
  BY NatLessThanWellFounded, WFMin
<1>2. \A y \in T : ~(y < x)
  BY <1>1 DEF OpToRel
<1> QED BY <1>2

Below(S, c) == {d \in S : d < c}

LEMMA BelowIsFinite ==
  ASSUME NEW S, IsFiniteSet(S), NEW c
  PROVE  IsFiniteSet(Below(S, c)) /\ Cardinality(Below(S, c)) \in Nat
<1>1. Below(S, c) \subseteq S
  BY DEF Below
<1> QED BY <1>1, FS_Subset, FS_CardinalityType

\* A smaller element has fewer below it.
LEMMA BelowGrows ==
  ASSUME NEW S, S \subseteq Nat, IsFiniteSet(S), NEW c \in S, NEW e \in S, c < e
  PROVE  Cardinality(Below(S, c)) < Cardinality(Below(S, e))
<1> DEFINE T == Below(S, c) \cup {c}
<1>1. IsFiniteSet(Below(S, c)) /\ Cardinality(Below(S, c)) \in Nat /\ c \notin Below(S, c)
  BY BelowIsFinite DEF Below
<1>2. Cardinality(T) = Cardinality(Below(S, c)) + 1
  BY <1>1, FS_AddElement
<1>3. T \subseteq Below(S, e)
  <2>1. \A d \in S : d \in Nat /\ c \in Nat /\ e \in Nat
    OBVIOUS
  <2>2. \A d \in S : d < c => d < e
    BY <2>1
  <2> QED BY <2>2 DEF Below
<1>4. Cardinality(T) <= Cardinality(Below(S, e))
  BY <1>3, BelowIsFinite, FS_Subset
<1> QED BY <1>1, <1>2, <1>4, BelowIsFinite

\* For every place in a finite set there is an element with so many below it.
LEMMA PlaceTaken ==
  ASSUME NEW S, S \subseteq Nat, IsFiniteSet(S), NEW k \in Nat, k < Cardinality(S)
  PROVE  \E c \in S : Cardinality(Below(S, c)) = k
<1> DEFINE Taken(n) == \E c \in S : Cardinality(Below(S, c)) = n
           T == {n \in Nat : n < Cardinality(S) /\ ~Taken(n)}
<1>0. SUFFICES ASSUME T # {} PROVE FALSE
  OBVIOUS
<1>1. PICK n \in T : \A m \in T : n <= m
  BY <1>0, Smallest
<1>2. Cardinality(S) \in Nat /\ n \in Nat /\ n < Cardinality(S) /\ ~Taken(n)
  BY <1>1, FS_CardinalityType
<1>3. CASE n = 0
  <2>1. S # {}
    BY <1>2, <1>3, FS_EmptySet
  <2>2. PICK c \in S : \A d \in S : c <= d
    BY <2>1, Smallest
  <2>3. Below(S, c) = {}
    <3>1. \A d \in S : d \in Nat /\ c \in Nat
      OBVIOUS
    <3>2. \A d \in S : ~(d < c)
      BY <2>2, <3>1
    <3> QED BY <3>2 DEF Below
  <2> QED BY <1>2, <1>3, <2>3, FS_EmptySet
<1>4. CASE n # 0
  <2>1. n - 1 \in Nat /\ n - 1 < n /\ n - 1 < Cardinality(S)
    BY <1>2, <1>4
  <2>2. Taken(n - 1)
    <3>1. n - 1 \notin T
      BY <1>1, <1>2, <2>1
    <3> QED BY <2>1, <3>1
  <2>3. PICK c \in S : Cardinality(Below(S, c)) = n - 1
    BY <2>2
  <2> DEFINE Up == Below(S, c) \cup {c}
             Above == {d \in S : c < d}
  <2>4. IsFiniteSet(Below(S, c)) /\ c \notin Below(S, c)
    BY BelowIsFinite DEF Below
  <2>5. Cardinality(Up) = n
    <3>1. Cardinality(Up) = Cardinality(Below(S, c)) + 1
      BY <2>4, FS_AddElement
    <3> QED BY <1>2, <2>3, <3>1
  <2>6. Above # {}
    <3>1. ASSUME Above = {} PROVE S = Up
      <4>1. \A d \in S : d \in Nat /\ c \in Nat /\ ~(c < d)
        BY <3>1
      <4>2. \A d \in S : d < c \/ d = c
        BY <4>1
      <4> QED BY <4>2 DEF Below
    <3> QED BY <1>2, <2>5, <3>1
  <2>7. PICK e \in Above : \A d \in Above : e <= d
    BY <2>6, Smallest
  <2>8. e \in S /\ c < e
    OBVIOUS
  <2>9. ASSUME NEW d \in S PROVE d < e <=> d \in Up
    <3>1. d < e => d <= c
      BY <2>7
    <3>2. d \in Up <=> d <= c
      BY DEF Below
    <3> QED BY <2>8, <3>1, <3>2
  <2>10. Below(S, e) = Up
    <3>1. Up \subseteq S
      BY DEF Below
    <3> HIDE DEF Up
    <3> QED BY <2>9, <3>1 DEF Below
  <2> QED BY <1>2, <2>5, <2>8, <2>10
<1> QED BY <1>3, <1>4

----------------------------------------------------------------------------
(* The world's own polls *)

\* A place in a row of rows.
LEMMA RowMajor ==
  ASSUME NEW b \in Nat, NEW n \in Nat, NEW x \in 0 .. b - 1, NEW y \in 0 .. n - 1
  PROVE  x * n + y \in 0 .. b * n - 1
<1>1. b - 1 - x \in Nat /\ x \in Nat /\ y \in Nat /\ n - 1 - y \in Nat
  OBVIOUS
<1>2. (b - 1 - x) * n \in Nat /\ x * n \in Nat /\ b * n \in Nat
  BY <1>1
<1>3. b * n = x * n + (b - 1 - x) * n + n
  BY <1>1
<1> QED BY <1>1, <1>2, <1>3

LEMMA RankInCells ==
  ASSUME NEW i \in Coords, NEW j \in Coords, NEW k \in Coords
  PROVE  Rank(i, j, k) \in Cells
<1>1. Size \in Nat
  BY PollSweepAssumption
<1>2. i * Size + j \in 0 .. Size * Size - 1
  BY <1>1, RowMajor DEF Coords
<1>3. Size * Size \in Nat
  BY <1>1
<1>4. (i * Size + j) * Size + k \in 0 .. (Size * Size) * Size - 1
  BY <1>1, <1>2, <1>3, RowMajor DEF Coords
<1> QED BY <1>4 DEF Rank, Cells, NumCells

LEMMA SampledFacts ==
  /\ Sampled \subseteq Cells /\ Sampled \subseteq Nat
  /\ IsFiniteSet(Sampled) /\ Count \in Nat /\ Count >= 1
  /\ NumCells \in Nat
<1>1. Size \in Nat /\ Size >= 4 /\ NumCells \in Nat /\ Cells \subseteq Nat
  BY PollSweepAssumption DEF NumCells, Cells
<1>2. Sampled \subseteq Cells
  BY RankInCells DEF Sampled, Steps
<1>3. IsFiniteSet(Sampled)
  <2>1. IsFiniteSet(Cells)
    BY <1>1, FS_Interval DEF Cells
  <2> QED BY <1>2, <2>1, FS_Subset
<1>4. 2 \in Steps
  <2>1. Size \div 4 \in Nat /\ Size \div 4 > 0
    BY <1>1
  <2>2. (2 - 2) % (Size \div 4) = 0
    BY <2>1
  <2> QED BY <1>1, <2>2 DEF Steps, Coords
<1>5. Sampled # {}
  BY <1>4 DEF Sampled
<1>6. Count \in Nat /\ Count # 0
  BY <1>3, <1>5, FS_CardinalityType, FS_EmptySet DEF Count
<1> QED BY <1>1, <1>2, <1>3, <1>6

\* setPollIndices finds all the cells it samples, in the order of the sweep.
LEMMA DefaultPollsInOrder ==
  /\ DOMAIN DefaultPolls = 1 .. Count
  /\ \A n \in 1 .. Count : DefaultPolls[n] \in Cells /\ DefaultPolls[n] \in Nat
  /\ \A m, n \in 1 .. Count : m < n => DefaultPolls[m] < DefaultPolls[n]
<1>1. DefaultPolls = [n \in 1 .. Count |->
                        CHOOSE c \in Sampled : Cardinality(Below(Sampled, c)) = n - 1]
  BY DEF DefaultPolls, InOrderOf, Below, Count
<1>2. ASSUME NEW n \in 1 .. Count
      PROVE  /\ DefaultPolls[n] \in Sampled
             /\ Cardinality(Below(Sampled, DefaultPolls[n])) = n - 1
  <2>1. n - 1 \in Nat /\ n - 1 < Cardinality(Sampled)
    BY SampledFacts DEF Count
  <2>2. \E c \in Sampled : Cardinality(Below(Sampled, c)) = n - 1
    BY <2>1, SampledFacts, PlaceTaken
  <2>3. DefaultPolls[n] = CHOOSE c \in Sampled : Cardinality(Below(Sampled, c)) = n - 1
    BY <1>1
  <2> QED BY <2>2, <2>3
<1>3. ASSUME NEW m \in 1 .. Count, NEW n \in 1 .. Count, m < n
      PROVE  DefaultPolls[m] < DefaultPolls[n]
  <2>1. DefaultPolls[m] \in Nat /\ DefaultPolls[n] \in Nat
    BY <1>2, SampledFacts
  <2>2. ASSUME DefaultPolls[n] < DefaultPolls[m] PROVE FALSE
    <3>1. n - 1 < m - 1
      BY <1>2, <2>2, SampledFacts, BelowGrows
    <3> QED BY <1>3, <3>1, SampledFacts
  <2>3. DefaultPolls[m] # DefaultPolls[n]
    BY <1>2, <1>3, SampledFacts
  <2> QED BY <2>1, <2>2, <2>3
<1> QED BY <1>1, <1>2, <1>3, SampledFacts

----------------------------------------------------------------------------
(* The sweep *)

\* By the time the sweep is at a cell, the polls before that cell have been met,
\* and those are the first k of the list.
Met(k) ==
    /\ fresh = 0 .. k - 1
    /\ pollIndex = IF k = Count THEN 0 ELSE k
    /\ \A n \in 1 .. Count : DefaultPolls[n] < pos <=> n <= k

Sampling == pos # Idle /\ enableMessage /\ start = 0 /\ pollIndices = DefaultPolls

SweepInv ==
    /\ pos \in 0 .. NumCells + 1
    /\ Sampling => \E k \in 0 .. Count : Met(k)

\* The sweep goes on by one cell, which is the next poll or none.
LEMMA MetGrows ==
  ASSUME pos \in Nat, enableMessage, pollIndices = DefaultPolls, Cell,
         NEW k \in 0 .. Count, Met(k)
  PROVE  \E l \in 0 .. Count : Met(l)'
<1>1. pos' = pos + 1 /\ Count \in Nat /\ Count >= 1
  BY SampledFacts DEF Cell
<1>2. \A n \in 1 .. Count : DefaultPolls[n] \in Nat
  BY DefaultPollsInOrder
<1>3. \A m, n \in 1 .. Count : m < n => DefaultPolls[m] < DefaultPolls[n]
  BY DefaultPollsInOrder
<1>4. \A n \in 1 .. Count : DefaultPolls[n] < pos <=> n <= k
  BY DEF Met
<1> DEFINE Here == DefaultPolls[pollIndex + 1] = pos
<1>5. CASE k = Count
  <2>1. pollIndex = 0 /\ fresh = 0 .. k - 1
    BY <1>5 DEF Met
  <2>2. 1 \in 1 .. Count /\ 1 <= k
    BY <1>1, <1>5
  <2>3. DefaultPolls[1] < pos
    BY <1>4, <2>2
  <2>4. ~Here
    BY <1>2, <2>1, <2>2, <2>3
  <2>5. pollIndex' = pollIndex /\ fresh' = fresh
    BY <2>4 DEF Cell
  <2>6. \A n \in 1 .. Count : DefaultPolls[n] < pos + 1
    <3>1. \A n \in 1 .. Count : n <= k
      BY <1>1, <1>5
    <3> QED BY <1>2, <1>4, <3>1
  <2>7. \A n \in 1 .. Count : n <= k
    BY <1>1, <1>5
  <2>8. Met(k)'
    BY <1>1, <1>5, <2>1, <2>5, <2>6, <2>7 DEF Met
  <2> QED BY <2>8
<1>6. CASE k # Count
  <2>1. k \in Nat /\ k + 1 \in 1 .. Count /\ pollIndex = k /\ fresh = 0 .. k - 1
    BY <1>1, <1>6 DEF Met
  <2>2. ~(DefaultPolls[k + 1] < pos)
    BY <1>4, <2>1
  <2>3. CASE Here
    <3>1. DefaultPolls[k + 1] = pos
      BY <2>1, <2>3
    <3>2. fresh' = fresh \cup {k} /\ pollIndex' = NextPollIndex
      BY <2>1, <2>3 DEF Cell
    <3>3. fresh' = 0 .. (k + 1) - 1
      BY <2>1, <3>2
    <3>4. pollIndex' = IF k + 1 = Count THEN 0 ELSE k + 1
      BY <1>1, <2>1, <3>2 DEF NextPollIndex
    <3>5. ASSUME NEW n \in 1 .. Count PROVE DefaultPolls[n] < pos + 1 <=> n <= k + 1
      <4>1. CASE n <= k
        <5>1. DefaultPolls[n] < pos
          BY <1>4, <4>1
        <5> QED BY <1>2, <2>1, <4>1, <5>1
      <4>2. CASE n = k + 1
        BY <1>2, <2>1, <3>1, <4>2
      <4>3. CASE n > k + 1
        <5>1. DefaultPolls[k + 1] < DefaultPolls[n]
          BY <1>3, <2>1, <4>3
        <5> QED BY <1>2, <2>1, <3>1, <4>3, <5>1
      <4> QED BY <2>1, <4>1, <4>2, <4>3
    <3>6. Met(k + 1)'
      BY <1>1, <3>3, <3>4, <3>5 DEF Met
    <3>7. k + 1 \in 0 .. Count
      BY <1>1, <2>1
    <3> QED BY <3>6, <3>7
  <2>4. CASE ~Here
    <3>1. pollIndex' = pollIndex /\ fresh' = fresh
      BY <2>4 DEF Cell
    <3>2. DefaultPolls[k + 1] > pos
      BY <1>2, <2>1, <2>2, <2>4
    <3>3. ASSUME NEW n \in 1 .. Count PROVE DefaultPolls[n] < pos + 1 <=> n <= k
      <4>1. CASE n <= k
        <5>1. DefaultPolls[n] < pos
          BY <1>4, <4>1
        <5> QED BY <1>2, <4>1, <5>1
      <4>2. CASE n = k + 1
        BY <1>2, <2>1, <3>2, <4>2
      <4>3. CASE n > k + 1
        <5>1. DefaultPolls[k + 1] < DefaultPolls[n]
          BY <1>3, <2>1, <4>3
        <5> QED BY <1>2, <2>1, <3>2, <4>3, <5>1
      <4> QED BY <2>1, <4>1, <4>2, <4>3
    <3>4. Met(k)'
      BY <1>1, <1>6, <2>1, <3>1, <3>3 DEF Met
    <3> QED BY <3>4
  <2> QED BY <2>3, <2>4
<1> QED BY <1>5, <1>6

LEMMA SweepInit == Init => SweepInv
<1>1. NumCells \in Nat
  BY SampledFacts
<1> QED BY <1>1 DEF Init, SweepInv, Sampling, Idle

LEMMA SweepStep == SweepInv /\ [Next]_vars => SweepInv'
<1> SUFFICES ASSUME SweepInv, [Next]_vars PROVE SweepInv'
  OBVIOUS
<1>1. NumCells \in Nat /\ Count \in Nat /\ Count >= 1
  BY SampledFacts
<1>2. pos \in 0 .. NumCells + 1
  BY DEF SweepInv
<1>3. CASE Frame
  <2>1. pos' = 0 /\ fresh' = {} /\ start' = pollIndex'
    BY <1>3 DEF Frame
  <2>2. ASSUME start' = 0 PROVE Met(0)'
    <3>1. \A n \in 1 .. Count : ~(DefaultPolls[n] < 0) /\ ~(n <= 0)
      BY DefaultPollsInOrder
    <3>2. fresh' = 0 .. 0 - 1
      BY <2>1
    <3> QED BY <1>1, <2>1, <2>2, <3>1, <3>2 DEF Met
  <2>3. 0 \in 0 .. Count /\ pos' \in 0 .. NumCells + 1
    BY <1>1, <2>1
  <2> QED BY <2>2, <2>3 DEF SweepInv, Sampling
<1>4. CASE Cell
  <2>1. pos \in Nat /\ pos' = pos + 1 /\ pos' \in 0 .. NumCells + 1 /\ pos # Idle
    BY <1>1, <1>4 DEF Cell, Cells, Idle
  <2>2. UNCHANGED <<enableMessage, start, pollIndices>>
    BY <1>4 DEF Cell
  <2>3. ASSUME Sampling' PROVE \E k \in 0 .. Count : Met(k)'
    <3>1. Sampling
      BY <2>1, <2>2, <2>3 DEF Sampling
    <3>2. PICK k \in 0 .. Count : Met(k)
      BY <3>1 DEF SweepInv
    <3>3. enableMessage /\ pollIndices = DefaultPolls
      BY <3>1 DEF Sampling
    <3> QED BY <1>4, <2>1, <3>2, <3>3, MetGrows
  <2> QED BY <2>1, <2>3 DEF SweepInv
<1>5. CASE CutShort \/ Finish
  <2>1. pos' = Idle
    BY <1>5 DEF CutShort, Finish
  <2> QED BY <1>1, <2>1 DEF SweepInv, Sampling, Idle
<1>6. CASE UNCHANGED vars
  BY <1>6 DEF vars, SweepInv, Sampling, Met
<1> QED BY <1>3, <1>4, <1>5, <1>6 DEF Next

\* A frame that begins with pollIndex 0 renews every value of the world's own
\* polls before oscValues is sent, and leaves pollIndex at 0 for the next one.
THEOREM WholeSnapshots == Spec => []SnapshotIsWhole
<1>1. SweepInv => SnapshotIsWhole
  <2> SUFFICES ASSUME SweepInv, Sending, start = 0, pollIndices = DefaultPolls
               PROVE  fresh = Slots /\ pollIndex = 0
    BY DEF SnapshotIsWhole
  <2>1. NumCells \in Nat /\ Count \in Nat /\ Count >= 1
    BY SampledFacts
  <2>2. pos = NumCells /\ Sampling
    BY <2>1 DEF Sending, Sampling, Idle
  <2>3. PICK k \in 0 .. Count : Met(k)
    BY <2>2 DEF SweepInv
  <2>4. Count \in 1 .. Count /\ DefaultPolls[Count] < NumCells
    BY <2>1, DefaultPollsInOrder DEF Cells
  <2>5. Count <= k
    BY <2>2, <2>3, <2>4 DEF Met
  <2>6. k = Count
    BY <2>1, <2>5
  <2> QED BY <2>3, <2>6 DEF Met, Slots
<1> QED BY SweepInit, SweepStep, <1>1, PTL DEF Spec
=============================================================================
