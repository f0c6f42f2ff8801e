-------------------------- MODULE AutomatonProofs --------------------------
(***************************************************************************)
(* The in-place sweep implements the synchronous automaton, for every      *)
(* finite lattice, neighbourhood, order of the sweep and local rule: these *)
(* proofs never look inside NextState.  The last part does: the sums of    *)
(* its weights, where NaN comes from, and the cell of the trigger.         *)
(***************************************************************************)
EXTENDS Automaton, FiniteSetTheorems, TLAPS

OnLattice(f) == f = [c \in Cells |-> f[c]]

Inv ==
    /\ OnLattice(state)
    /\ OnLattice(lastState)
    /\ add \in Adds
    /\ pc \in {"idle", "sweep"}
    /\ pc = "sweep" => at \in Nat \ {0}
    /\ SweepInv

LEMMA InvInit == Init => Inv
  BY AutomatonAssumption DEF Init, Inv, OnLattice, Zeros, SweepInv

\* The step that computes one cell puts that cell, and no other, on the new side.
LEMMA SweepCellKeepsSweepInv ==
  ASSUME Inv, SweepCell, renew, pc' = "sweep"
  PROVE  SweepInv'
<1> DEFINE New(i) == NextState(lastState, habitat[Order[i]], weights, add)
<1>1. /\ pc = "sweep" /\ at \in DOMAIN Order /\ at \in Nat
      /\ at' = at + 1
      /\ state' = [state EXCEPT ![Order[at]] = New(at)]
      /\ lastState' = lastState
      /\ UNCHANGED <<habitat, weights, add>>
  BY DEF Inv, SweepCell, NextCell, rule, clock
<1>2. SUFFICES ASSUME NEW i \in DOMAIN Order
               PROVE  state'[Order[i]] = IF i < at + 1 THEN New(i) ELSE lastState[Order[i]]
  BY <1>1 DEF SweepInv
<1>3. i \in Nat /\ Order[i] \in Cells /\ Order[at] \in Cells
  BY <1>1, AutomatonAssumption
<1>4. DOMAIN state = Cells
  BY DEF Inv, OnLattice
<1>5. state[Order[i]] = IF i < at THEN New(i) ELSE lastState[Order[i]]
  BY <1>1 DEF Inv, SweepInv
<1>6. CASE i = at
  BY <1>6, <1>1, <1>3, <1>4
<1>7. CASE i # at
  <2>1. Order[i] # Order[at]
    BY <1>7, <1>1, AutomatonAssumption
  <2>2. state'[Order[i]] = state[Order[i]]
    BY <2>1, <1>1, <1>3, <1>4
  <2>3. i < at + 1 <=> i < at
    BY <1>7, <1>1, <1>3
  <2> QED BY <2>2, <2>3, <1>5
<1> QED BY <1>6, <1>7

LEMMA InvStep == Inv /\ [Next]_vars => Inv'
<1> SUFFICES ASSUME Inv, [Next]_vars PROVE Inv'
  OBVIOUS
<1>1. CASE SetWeights
  BY <1>1 DEF SetWeights, Inv, OnLattice, SweepInv, cellvars, clock
<1>2. CASE ResetWorld
  BY <1>2, AutomatonAssumption DEF ResetWorld, Inv, OnLattice, SweepInv, Zeros, clock
<1>3. CASE StartFrame
  <2>1. OnLattice(state)' /\ OnLattice(lastState)'
    BY <1>3 DEF StartFrame, PrepareNext, Inv, OnLattice
  <2>2. add' \in Adds /\ pc' = "sweep" /\ at' = 1
    BY <1>3 DEF StartFrame
  <2>3. renew' => lastState' = state /\ state' = state
    BY <1>3 DEF StartFrame, PrepareNext
  <2>4. SweepInv'
    <3> SUFFICES ASSUME renew', NEW i \in DOMAIN Order
                 PROVE  ~(i < 1) /\ state'[Order[i]] = lastState'[Order[i]]
      BY <2>2 DEF SweepInv
    <3> QED BY <2>3, AutomatonAssumption
  <2> QED BY <2>1, <2>2, <2>4 DEF Inv
<1>4. CASE SweepCell
  <2>1. /\ at \in Nat \ {0} /\ at \in DOMAIN Order /\ pc = "sweep"
        /\ (pc' = "sweep" /\ at' = at + 1) \/ pc' = "idle"
        /\ add' = add /\ renew' = renew
    BY <1>4 DEF SweepCell, Inv, clock
  <2>2. OnLattice(state)' /\ OnLattice(lastState)'
    BY <1>4 DEF SweepCell, NextCell, UpdatePhase, Inv, OnLattice
  <2>3. SweepInv'
    BY <1>4, <2>1, SweepCellKeepsSweepInv DEF SweepInv
  <2> QED BY <2>1, <2>2, <2>3 DEF Inv
<1>5. CASE EndFrame
  BY <1>5 DEF EndFrame, Inv, OnLattice, SweepInv, cellvars
<1>6. CASE UNCHANGED vars
  BY <1>6 DEF vars, cellvars, rule, clock, Inv, OnLattice, SweepInv
<1> QED BY <1>1, <1>2, <1>3, <1>4, <1>5, <1>6 DEF Next

\* Half-way through the sweep: prepareNext's copy is never overwritten before
\* the last cell has read it, and every cell swept has its new state.
THEOREM SweepInvariant == Spec => []SweepInv
<1>1. Inv => SweepInv
  BY DEF Inv
<1> QED BY InvInit, InvStep, <1>1, PTL DEF Spec

----------------------------------------------------------------------------
(* Refinement *)

LEMMA InitRefines == Init => Sync!Init
  BY DEF Init, Sync!Init, Settled

\* A frame cut short leaves the cells up to the one being drawn moved on.
LEMMA CutShortRefines ==
  ASSUME Inv, SweepCell, renew, pc' = "idle"
  PROVE  Sync!CutShort
<1> DEFINE moved == {Order[i] : i \in {j \in DOMAIN Order : j <= at}}
           New(c) == NextState(lastState, habitat[c], weights, add)
<1>1. /\ pc = "sweep" /\ at \in DOMAIN Order /\ at \in Nat
      /\ state' = [state EXCEPT ![Order[at]] = New(Order[at])]
      /\ Settled = lastState /\ Settled' = state'
      /\ UNCHANGED <<habitat, weights>> /\ add \in Adds
  BY DEF Inv, SweepCell, NextCell, rule, Settled
<1>2. moved \in SUBSET Cells
  BY AutomatonAssumption
<1>3. ASSUME NEW c \in Cells
      PROVE  state'[c] = IF c \in moved THEN New(c) ELSE lastState[c]
  <2>1. PICK i \in DOMAIN Order : Order[i] = c
    BY AutomatonAssumption
  <2>2. i \in Nat
    BY AutomatonAssumption
  <2>3. state[c] = IF i < at THEN New(c) ELSE lastState[c]
    BY <1>1, <2>1 DEF Inv, SweepInv
  <2>4. c \in moved <=> i <= at
    BY <2>1, AutomatonAssumption
  <2>5. DOMAIN state = Cells /\ Order[at] \in Cells
    BY <1>1, AutomatonAssumption DEF Inv, OnLattice
  <2>6. CASE i = at
    BY <2>6, <2>1, <2>4, <2>5, <1>1
  <2>7. CASE i # at
    <3>1. Order[at] # c
      BY <2>7, <2>1, <1>1, AutomatonAssumption
    <3>2. state'[c] = state[c]
      BY <3>1, <2>5, <1>1
    <3>3. i <= at <=> i < at
      BY <2>7, <2>2, <1>1
    <3> QED BY <3>2, <3>3, <2>3, <2>4
  <2> QED BY <2>6, <2>7
<1>4. state' = [c \in Cells |-> IF c \in moved THEN New(c) ELSE lastState[c]]
  <2>1. state' = [c \in Cells |-> state'[c]]
    BY InvStep DEF Inv, OnLattice, Next
  <2> HIDE DEF moved, New
  <2> QED BY <2>1, <1>3
<1>5. Settled' = [c \in Cells |-> IF c \in moved
                                  THEN NextState(Settled, habitat[c], weights, add)
                                  ELSE Settled[c]]
  BY <1>1, <1>4
<1> HIDE DEF moved
<1> QED BY <1>1, <1>2, <1>5 DEF Sync!CutShort

\* The end of the frame is where the generation becomes visible as a whole.
LEMMA EndFrameRefines ==
  ASSUME Inv, EndFrame, renew
  PROVE  Sync!Generation
<1> DEFINE New(c) == NextState(lastState, habitat[c], weights, add)
<1>1. /\ pc = "sweep" /\ at \in Nat \ {0} /\ at \notin DOMAIN Order
      /\ Settled = lastState /\ Settled' = state
      /\ UNCHANGED <<habitat, weights>> /\ add \in Adds
  BY DEF Inv, EndFrame, cellvars, rule, Settled
<1>2. ASSUME NEW c \in Cells PROVE state[c] = New(c)
  <2>1. PICK i \in DOMAIN Order : Order[i] = c
    BY AutomatonAssumption
  <2>2. i < at
    BY <1>1, <2>1, AutomatonAssumption
  <2> QED BY <1>1, <2>1, <2>2 DEF Inv, SweepInv
<1>3. state = [c \in Cells |-> New(c)]
  <2>1. state = [c \in Cells |-> state[c]]
    BY DEF Inv, OnLattice
  <2> HIDE DEF New
  <2> QED BY <2>1, <1>2
<1>4. Settled' = [c \in Cells |-> NextState(Settled, habitat[c], weights, add)]
  BY <1>1, <1>3
<1> QED BY <1>1, <1>4 DEF Sync!Generation

LEMMA StepRefines == Inv /\ [Next]_vars => [Sync!Next]_(Sync!vars)
<1> SUFFICES ASSUME Inv, [Next]_vars PROVE Sync!Next \/ UNCHANGED Sync!vars
  OBVIOUS
<1> USE DEF Sync!vars
<1>1. CASE SetWeights
  BY <1>1 DEF SetWeights, cellvars, clock, Settled, Sync!Next, Sync!SetWeights
<1>2. CASE ResetWorld
  BY <1>2 DEF ResetWorld, clock, Settled, Sync!Next, Sync!Reset
<1>3. CASE StartFrame
  BY <1>3 DEF StartFrame, PrepareNext, rule, Settled
<1>4. CASE SweepCell
  <2>1. CASE renew /\ pc' = "idle"
    BY <1>4, <2>1, CutShortRefines DEF Sync!Next
  <2>2. CASE renew /\ pc' # "idle"
    BY <1>4, <2>2 DEF SweepCell, NextCell, rule, clock, Settled
  <2>3. CASE ~renew
    BY <1>4, <2>3 DEF SweepCell, UpdatePhase, rule, clock, Settled
  <2> QED BY <2>1, <2>2, <2>3
<1>5. CASE EndFrame
  <2>1. CASE renew
    BY <1>5, <2>1, EndFrameRefines DEF Sync!Next
  <2>2. CASE ~renew
    BY <1>5, <2>2 DEF EndFrame, cellvars, rule, Settled
  <2> QED BY <2>1, <2>2
<1>6. CASE UNCHANGED vars
  BY <1>6 DEF vars, cellvars, rule, clock, Settled
<1> QED BY <1>1, <1>2, <1>3, <1>4, <1>5, <1>6 DEF Next

\* FxWorld's prepareNext and the loops of drawCells, with exceptions that may
\* end them after any cell, implement the automaton whose cells all move at
\* once (or, in a frame cut short, some of them).
THEOREM Refinement == Spec => SweepIsSynchronous
<1> QED BY InvInit, InvStep, InitRefines, StepRefines, PTL
        DEF Spec, SweepIsSynchronous, Sync!Spec

----------------------------------------------------------------------------
(* Sums *)

\* Of a set of natural numbers one is the smallest.
LEMMA Smallest ==
  ASSUME NEW T, T \subseteq Nat, T # {}
  PROVE  \E x \in T : \A y \in T : x <= y
<1>1. PICK x \in T : \A y \in T : ~(<<y, x>> \in OpToRel(<, Nat))
  BY NatLessThanWellFounded, WFMin
<1>2. \A y \in T : ~(y < x)
  BY <1>1 DEF OpToRel
<1> QED BY <1>2

\* The element SumFunction takes next.
Picked(s) == CHOOSE x \in s : TRUE

\* g adds up f over the subsets in family, in the order of SumFunction.
AddsUp(g, f, family) ==
    g = [s \in family |-> IF s = {} THEN 0 ELSE f[Picked(s)] + g[s \ {Picked(s)}]]

\* The subsets with at most n elements.
UpTo(S, n) == {s \in SUBSET S : Cardinality(s) <= n}

\* It is an element.
LEMMA PickedIn == \A s : s # {} => Picked(s) \in s
  BY DEF Picked

\* Without it a set has one element less.
LEMMA WithoutPicked ==
  ASSUME NEW S, IsFiniteSet(S), NEW s \in SUBSET S, s # {}
  PROVE  /\ s \ {Picked(s)} \in SUBSET S
         /\ Cardinality(s) \in Nat \ {0}
         /\ Cardinality(s \ {Picked(s)}) = Cardinality(s) - 1
<1>1. IsFiniteSet(s)
  BY FS_Subset
<1>2. Picked(s) \in s
  BY PickedIn
<1>3. Cardinality(s) \in Nat /\ Cardinality(s) # 0
  BY <1>1, FS_CardinalityType, FS_EmptySet
<1>4. Cardinality(s \ {Picked(s)}) = Cardinality(s) - 1
  BY <1>1, <1>2, FS_RemoveElement
<1> QED BY <1>3, <1>4

\* There is such a g: for the subsets with at most n + 1 elements it is made of the
\* one for those with at most n.
LEMMA SumExists ==
  ASSUME NEW S, IsFiniteSet(S), NEW f
  PROVE  \E g : AddsUp(g, f, SUBSET S)
<1> DEFINE P(n) == \E g : AddsUp(g, f, UpTo(S, n))
<1>1. P(0)
  <2>1. UpTo(S, 0) = {{}}
    <3>1. \A s \in SUBSET S : s # {} => ~(Cardinality(s) <= 0)
      <4> SUFFICES ASSUME NEW s \in SUBSET S, s # {} PROVE ~(Cardinality(s) <= 0)
        OBVIOUS
      <4>1. Cardinality(s) \in Nat \ {0}
        BY WithoutPicked
      <4> QED BY <4>1
    <3> QED BY <3>1, FS_EmptySet DEF UpTo
  <2>2. AddsUp([s \in {{}} |-> 0], f, {{}})
    BY DEF AddsUp
  <2> QED BY <2>1, <2>2
<1>2. ASSUME NEW n \in Nat, P(n) PROVE P(n + 1)
  <2>1. PICK g : AddsUp(g, f, UpTo(S, n))
    BY <1>2
  <2> DEFINE h == [s \in UpTo(S, n + 1) |->
                      IF s = {} THEN 0 ELSE f[Picked(s)] + g[s \ {Picked(s)}]]
  <2>2. \A s \in UpTo(S, n) : g[s] = h[s]
    <3>1. UpTo(S, n) \subseteq UpTo(S, n + 1)
      <4>1. \A s \in SUBSET S : Cardinality(s) \in Nat
        BY FS_Subset, FS_CardinalityType
      <4> QED BY <4>1 DEF UpTo
    <3> QED BY <2>1, <3>1 DEF AddsUp
  <2>3. \A s \in UpTo(S, n + 1) : s # {} => s \ {Picked(s)} \in UpTo(S, n)
    BY WithoutPicked DEF UpTo
  <2>4. AddsUp(h, f, UpTo(S, n + 1))
    <3>1. ASSUME NEW s \in UpTo(S, n + 1), s # {}
          PROVE  g[s \ {Picked(s)}] = h[s \ {Picked(s)}]
      BY <2>2, <2>3, <3>1
    <3> HIDE DEF h
    <3>2. h = [s \in UpTo(S, n + 1) |->
                  IF s = {} THEN 0 ELSE f[Picked(s)] + h[s \ {Picked(s)}]]
      BY <3>1 DEF h
    <3> QED BY <3>2 DEF AddsUp
  <2> QED BY <2>4
<1>3. \A n \in Nat : P(n)
  <2> DEFINE T == {n \in Nat : ~P(n)}
  <2> HIDE DEF P
  <2>1. SUFFICES ASSUME T # {} PROVE FALSE
    OBVIOUS
  <2>2. PICK n \in T : \A m \in T : n <= m
    BY <2>1, Smallest
  <2>3. n # 0 /\ n - 1 \in Nat
    BY <1>1, <2>2
  <2>4. P(n - 1)
    BY <2>2, <2>3
  <2>5. P((n - 1) + 1)
    BY <1>2, <2>3, <2>4
  <2> QED BY <2>2, <2>3, <2>5
<1>4. Cardinality(S) \in Nat /\ UpTo(S, Cardinality(S)) = SUBSET S
  BY FS_CardinalityType, FS_Subset DEF UpTo
<1> QED BY <1>3, <1>4

\* So SumFunction is what its definition says.
LEMMA SumUnfolds ==
  ASSUME NEW f, IsFiniteSet(DOMAIN f)
  PROVE  \E g : AddsUp(g, f, SUBSET DOMAIN f) /\ SumFunction(f) = g[DOMAIN f]
<1> DEFINE g == CHOOSE g : AddsUp(g, f, SUBSET DOMAIN f)
<1>1. AddsUp(g, f, SUBSET DOMAIN f)
  BY SumExists
<1>2. SumFunction(f) = g[DOMAIN f]
  BY DEF SumFunction, SumFunctionOnSet, FoldFunctionOnSet, MapThenFoldSet, AddsUp, Picked
<1> QED BY <1>1, <1>2

\* The sum of numbers of a set closed under + is one of them.
LEMMA SumType ==
  ASSUME NEW f, IsFiniteSet(DOMAIN f), NEW V, 0 \in V, \A x, y \in V : x + y \in V,
         \A x \in DOMAIN f : f[x] \in V
  PROVE  SumFunction(f) \in V
<1>1. PICK g : AddsUp(g, f, SUBSET DOMAIN f) /\ SumFunction(f) = g[DOMAIN f]
  BY SumUnfolds
<1> DEFINE S == DOMAIN f
           P(n) == \A s \in SUBSET S : Cardinality(s) = n => g[s] \in V
<1>2. \A s \in SUBSET S : g[s] = IF s = {} THEN 0 ELSE f[Picked(s)] + g[s \ {Picked(s)}]
  BY <1>1 DEF AddsUp
<1>3. \A n \in Nat : P(n)
  <2> DEFINE T == {n \in Nat : ~P(n)}
  <2>1. SUFFICES ASSUME T # {} PROVE FALSE
    OBVIOUS
  <2>2. PICK n \in T : \A m \in T : n <= m
    BY <2>1, Smallest
  <2>3. PICK s \in SUBSET S : Cardinality(s) = n /\ g[s] \notin V
    OBVIOUS
  <2>4. s # {}
    BY <1>2, <2>3
  <2>5. /\ s \ {Picked(s)} \in SUBSET S /\ Cardinality(s \ {Picked(s)}) = n - 1
        /\ n - 1 \in Nat /\ Picked(s) \in S
    BY <2>3, <2>4, WithoutPicked, PickedIn
  <2>6. g[s \ {Picked(s)}] \in V
    BY <2>2, <2>5
  <2>7. g[s] = f[Picked(s)] + g[s \ {Picked(s)}]
    BY <1>2, <2>4
  <2>8. f[Picked(s)] \in V
    BY <2>5
  <2> HIDE DEF T, P
  <2> QED BY <2>3, <2>6, <2>7, <2>8
<1>4. Cardinality(S) \in Nat
  BY FS_CardinalityType
<1> QED BY <1>1, <1>3, <1>4

----------------------------------------------------------------------------
(* Numbers *)

Numbers == Int \cup {NaN}

\* The rule gives a number, or NaN; and a number unless the weights add up to 0 or
\* a neighbour was NaN.
LEMMA NextStateType ==
  ASSUME NEW last \in [Cells -> Numbers], NEW neighbours \in Seq(Cells),
         NEW ws \in Seq(Nat), NEW plus \in Int
  PROVE  /\ NextState(last, neighbours, ws, plus) \in Numbers
         /\ SumFunction(Weights(neighbours, ws)) # 0 /\ (\A c \in Cells : last[c] \in Int)
              => NextState(last, neighbours, ws, plus) \in Int
<1> DEFINE D == DOMAIN neighbours
           w == Weights(neighbours, ws)
           sum == SumFunction([i \in D |-> last[neighbours[i]] * w[i]])
           nan == \E i \in D : last[neighbours[i]] = NaN
<1>1. D = 1 .. Len(neighbours) /\ IsFiniteSet(D) /\ \A i \in D : neighbours[i] \in Cells
  BY FS_Interval
<1>2. w \in [D -> Nat]
  BY DEF Weights
<1>3. SumFunction(w) \in Nat
  <2> HIDE DEF w
  <2>1. IsFiniteSet(DOMAIN w) /\ \A i \in DOMAIN w : w[i] \in Nat
    BY <1>1, <1>2
  <2>2. 0 \in Nat /\ \A x, y \in Nat : x + y \in Nat
    OBVIOUS
  <2> QED BY <2>1, <2>2, SumType
<1>4. ASSUME ~nan PROVE sum \in Int
  <2>1. \A i \in D : last[neighbours[i]] * w[i] \in Int
    BY <1>1, <1>2, <1>4 DEF Numbers
  <2> DEFINE f == [i \in D |-> last[neighbours[i]] * w[i]]
  <2>2. IsFiniteSet(DOMAIN f) /\ \A i \in DOMAIN f : f[i] \in Int
    BY <1>1, <2>1
  <2> HIDE DEF f
  <2>3. SumFunction(f) \in Int
    BY <2>2, SumType
  <2> QED BY <2>3 DEF f
<1>5. ASSUME SumFunction(w) # 0, ~nan PROVE Wrapped(sum \div SumFunction(w) + plus) \in Int
  <2> HIDE DEF w, sum
  <2>1. sum \div SumFunction(w) \in Int
    BY <1>3, <1>4, <1>5
  <2> QED BY <2>1, CellRuleAssumption DEF Wrapped
<1>6. NextState(last, neighbours, ws, plus) =
        IF SumFunction(w) = 0 \/ nan THEN NaN ELSE Wrapped(sum \div SumFunction(w) + plus)
  BY DEF NextState
<1>7. (\A c \in Cells : last[c] \in Int) => ~nan
  BY <1>1, CellRuleAssumption
<1>8. w = Weights(neighbours, ws)
  OBVIOUS
<1> HIDE DEF w, sum, nan
<1> QED BY <1>5, <1>6, <1>7, <1>8 DEF Numbers

NumbersOK ==
    /\ state \in [Cells -> Numbers] /\ lastState \in [Cells -> Numbers]
    /\ velocity \in [Cells -> Numbers] /\ cphase \in [Cells -> Numbers]
    /\ habitat \in Habitats /\ weights \in WeightLists /\ add \in Adds /\ ratio \in Rates

\* As long as no generation had weights that add up to 0 all states are numbers.
Healthy ==
    ~zeroed => /\ \A c \in Cells : state[c] \in Int /\ lastState[c] \in Int
               /\ pc = "sweep" /\ renew =>
                     \A c \in Cells : SumFunction(Weights(habitat[c], weights)) # 0

LEMMA NumbersInit == Init => NumbersOK /\ Healthy
  BY AutomatonAssumption, CellRuleAssumption DEF Init, NumbersOK, Healthy, Numbers, Zeros

LEMMA NumbersSweep == NumbersOK /\ Healthy /\ SweepCell => NumbersOK' /\ Healthy'
<1> SUFFICES ASSUME NumbersOK, Healthy, SweepCell PROVE NumbersOK' /\ Healthy'
  OBVIOUS
<1> DEFINE c == Order[at]
           avg == NextState(lastState, habitat[c], weights, add)
<1>1. /\ pc = "sweep" /\ at \in DOMAIN Order
      /\ UNCHANGED <<habitat, weights, add, ratio, renew, zeroed>>
  BY DEF SweepCell, rule, clock
<1>2. c \in Cells
  BY <1>1, AutomatonAssumption
<1>3. CASE renew
  <2>1. /\ state' = [state EXCEPT ![c] = avg]
        /\ velocity' = [velocity EXCEPT ![c] = VelocityTo(avg, lastState[c])]
        /\ UNCHANGED <<lastState, cphase>>
    BY <1>3 DEF SweepCell, NextCell
  <2>2. habitat[c] \in Seq(Cells) /\ weights \in Seq(Nat) /\ add \in Int
        /\ ratio \in Nat \ {0} /\ Grain \in Nat \ {0}
    BY <1>2, AutomatonAssumption DEF NumbersOK
  <2>3. /\ avg \in Numbers
        /\ ~zeroed => avg \in Int
    BY <1>1, <1>2, <1>3, <2>2, NextStateType DEF NumbersOK, Healthy
  <2> HIDE DEF avg
  <2>4. VelocityTo(avg, lastState[c]) \in Numbers
    <3>1. lastState[c] \in Numbers
      BY <1>2 DEF NumbersOK
    <3> QED BY <2>2, <2>3, <3>1 DEF VelocityTo, Numbers
  <2>5. NumbersOK'
    BY <1>1, <2>1, <2>3, <2>4 DEF NumbersOK
  <2>6. Healthy'
    BY <1>1, <1>2, <2>1, <2>3 DEF Healthy, NumbersOK
  <2> QED BY <2>5, <2>6
<1>4. CASE ~renew
  <2>1. /\ cphase' = [cphase EXCEPT ![c] = IF NaN \in {cphase[c], velocity[c]} THEN NaN
                                           ELSE Wrapf(cphase[c] + velocity[c])]
        /\ UNCHANGED <<state, lastState, velocity>>
    BY <1>4 DEF SweepCell, UpdatePhase
  <2>2. cphase'[c] \in Numbers /\ cphase' = [cphase EXCEPT ![c] = cphase'[c]]
    <3>1. cphase[c] \in Numbers /\ velocity[c] \in Numbers /\ One * Grain \in Nat \ {0}
      BY <1>2, AutomatonAssumption, CellRuleAssumption DEF NumbersOK
    <3>2. (IF NaN \in {cphase[c], velocity[c]} THEN NaN
           ELSE Wrapf(cphase[c] + velocity[c])) \in Numbers
      BY <3>1 DEF Wrapf, Numbers
    <3> QED BY <1>2, <2>1, <3>2 DEF NumbersOK
  <2>3. NumbersOK'
    BY <1>1, <1>2, <2>1, <2>2 DEF NumbersOK
  <2>4. Healthy'
    BY <1>1, <1>4, <2>1 DEF Healthy
  <2> QED BY <2>3, <2>4
<1> QED BY <1>3, <1>4

LEMMA NumbersNext == NumbersOK /\ Healthy /\ [Next]_vars => NumbersOK' /\ Healthy'
<1> SUFFICES ASSUME NumbersOK, Healthy, [Next]_vars PROVE NumbersOK' /\ Healthy'
  OBVIOUS
<1>1. CASE SetWeights
  BY <1>1 DEF SetWeights, NumbersOK, Healthy, cellvars, clock
<1>2. CASE ResetWorld
  BY <1>2, AutomatonAssumption, CellRuleAssumption
     DEF ResetWorld, NumbersOK, Healthy, Numbers, Zeros, clock
<1>3. CASE StartFrame
  <2>1. NumbersOK'
    BY <1>3 DEF StartFrame, PrepareNext, NumbersOK, rule
  <2>2. ASSUME renew' PROVE Healthy'
    <3>1. /\ lastState' = state /\ UNCHANGED <<state, rule>>
          /\ zeroed' = (zeroed \/ \E c \in Cells : SumFunction(Weights(habitat[c], weights)) = 0)
      BY <1>3, <2>2 DEF StartFrame, PrepareNext
    <3>2. ~zeroed' => /\ ~zeroed
                      /\ \A c \in Cells : SumFunction(Weights(habitat'[c], weights')) # 0
      BY <3>1 DEF rule
    <3> QED BY <3>1, <3>2 DEF Healthy
  <2>3. ASSUME ~renew' PROVE Healthy'
    BY <1>3, <2>3 DEF StartFrame, Healthy
  <2>4. Healthy'
    BY <2>2, <2>3
  <2> QED BY <2>1, <2>4
<1>4. CASE SweepCell
  BY <1>4, NumbersSweep
<1>5. CASE EndFrame
  BY <1>5 DEF EndFrame, NumbersOK, Healthy, cellvars, rule
<1>6. CASE UNCHANGED vars
  BY <1>6 DEF vars, cellvars, rule, clock, NumbersOK, Healthy
<1> QED BY <1>1, <1>2, <1>3, <1>4, <1>5, <1>6 DEF Next

\* Neither the average nor what is taken off it makes a NaN of numbers: only the
\* division of Cell.m's next:: and next::: by weights that add up to 0, or by no
\* neighbours, does; and a world that never had such weights has none.
THEOREM NaNOnlyFromZeros == Spec => []NaNOnlyFromZeroWeights
<1>1. Healthy => NaNOnlyFromZeroWeights
  BY CellRuleAssumption DEF Healthy, NaNOnlyFromZeroWeights
<1> QED BY <1>1, NumbersInit, NumbersNext, PTL DEF Spec

----------------------------------------------------------------------------
(* The trigger *)

\* Half-way through the sweep max is the first of the cells swept with the largest
\* phase, if all their phases are numbers.
MaxSoFar ==
    pc = "sweep" =>
        /\ at \in 1 .. Len(Order) + 1
        /\ at = 1 => max = Order[1]
        /\ at > 1 => \E j \in 1 .. at - 1 :
              /\ max = Order[j]
              /\ (\A i \in 1 .. at - 1 : cphase[Order[i]] # NaN) =>
                    \A i \in 1 .. at - 1 :
                        /\ cphase[Order[i]] <= cphase[max]
                        /\ cphase[Order[i]] = cphase[max] => j <= i

LEMMA MaxSweep == NumbersOK /\ NumbersOK' /\ MaxSoFar /\ SweepCell => MaxSoFar'
<1> SUFFICES ASSUME NumbersOK, NumbersOK', MaxSoFar, SweepCell, pc' = "sweep" PROVE MaxSoFar'
  BY DEF MaxSoFar
<1>1. /\ pc = "sweep" /\ at \in 1 .. Len(Order) /\ at' = at + 1
      /\ max' = IF Below(cphase'[max], cphase'[Order[at]]) THEN Order[at] ELSE max
  BY AutomatonAssumption DEF SweepCell, MaxSoFar
<1>2. \A i \in 1 .. Len(Order) : Order[i] \in Cells
  BY AutomatonAssumption
<1>3. \A i \in 1 .. at - 1 : i \in 1 .. Len(Order) /\ Order[i] # Order[at]
  BY <1>1, AutomatonAssumption
<1>4. \A i \in 1 .. at - 1 : cphase'[Order[i]] = cphase[Order[i]]
  BY <1>1, <1>2, <1>3 DEF SweepCell, NextCell, UpdatePhase, NumbersOK
<1>5. \A i \in 1 .. at : cphase'[Order[i]] \in Numbers
  BY <1>1, <1>2 DEF NumbersOK
<1> DEFINE Good(j, n) == \A i \in 1 .. n :
               /\ cphase'[Order[i]] <= cphase'[Order[j]]
               /\ cphase'[Order[i]] = cphase'[Order[j]] => j <= i
           Clean(n) == \A i \in 1 .. n : cphase'[Order[i]] # NaN
<1>6. SUFFICES \E j \in 1 .. at : max' = Order[j] /\ (Clean(at) => Good(j, at))
  <2>1. at' \in 1 .. Len(Order) + 1 /\ at' > 1 /\ at' # 1 /\ at' - 1 = at
    BY <1>1, AutomatonAssumption
  <2> QED BY <2>1 DEF MaxSoFar
<1>7. CASE at = 1
  <2>1. max = Order[1] /\ max' = Order[1]
    BY <1>1, <1>7 DEF MaxSoFar
  <2>2. Clean(1) => cphase'[Order[1]] \in Int
    BY <1>1, <1>5, <1>7 DEF Numbers
  <2> QED BY <1>7, <2>1, <2>2
<1>8. CASE at > 1
  <2>1. PICK j \in 1 .. at - 1 : max = Order[j] /\ (Clean(at - 1) => Good(j, at - 1))
    BY <1>1, <1>4, <1>8 DEF MaxSoFar
  <2>2. Clean(at) => /\ Clean(at - 1)
                     /\ \A i \in 1 .. at : cphase'[Order[i]] \in Int
    BY <1>1, <1>5 DEF Numbers
  <2>3. CASE max' = Order[at]
    <3>1. SUFFICES ASSUME Clean(at) PROVE Good(at, at)
      BY <1>1, <2>3
    <3>2. Below(cphase'[max], cphase'[Order[at]])
      BY <1>1, <1>3, <2>1, <2>3
    <3>3. cphase'[Order[j]] < cphase'[Order[at]]
      BY <2>1, <3>2 DEF Below
    <3>4. \A i \in 1 .. at - 1 : cphase'[Order[i]] <= cphase'[Order[j]]
      BY <2>1, <2>2, <3>1
    <3>5. ASSUME NEW i \in 1 .. at - 1 PROVE cphase'[Order[i]] < cphase'[Order[at]]
      <4>1. {cphase'[Order[i]], cphase'[Order[j]], cphase'[Order[at]]} \subseteq Int
        BY <1>1, <2>2, <3>1
      <4> QED BY <3>3, <3>4, <4>1
    <3> QED BY <1>1, <2>2, <3>1, <3>5
  <2>4. CASE max' = max /\ max' # Order[at]
    <3>1. SUFFICES ASSUME Clean(at) PROVE Good(j, at)
      BY <1>1, <2>1, <2>4
    <3>2. ~(cphase'[Order[j]] < cphase'[Order[at]])
      BY <1>1, <2>1, <2>4, <3>1 DEF Below
    <3>3. cphase'[Order[j]] \in Int /\ cphase'[Order[at]] \in Int
      BY <1>1, <2>1, <2>2, <3>1
    <3> QED BY <1>1, <2>1, <2>2, <3>1, <3>2, <3>3
  <2> QED BY <1>1, <2>3, <2>4
<1> QED BY <1>1, <1>7, <1>8

LEMMA MaxNext == NumbersOK /\ NumbersOK' /\ MaxSoFar /\ [Next]_vars => MaxSoFar'
<1> SUFFICES ASSUME NumbersOK, NumbersOK', MaxSoFar, [Next]_vars PROVE MaxSoFar'
  OBVIOUS
<1>1. CASE SetWeights \/ ResetWorld \/ EndFrame
  BY <1>1 DEF SetWeights, ResetWorld, EndFrame, MaxSoFar
<1>2. CASE StartFrame
  BY <1>2, AutomatonAssumption DEF StartFrame, MaxSoFar
<1>3. CASE SweepCell
  BY <1>3, MaxSweep
<1>4. CASE UNCHANGED vars
  BY <1>4 DEF vars, cellvars, MaxSoFar
<1> QED BY <1>1, <1>2, <1>3, <1>4 DEF Next

\* drawCells compares each cell, as it leaves it, with the largest so far: the cell
\* of the trigger message has the largest phase of all, and is the first with it.
\* No cell changes once it has been compared.
THEOREM TriggerIsTheMax == Spec => []TriggerIsMax
<1>1. NumbersOK /\ MaxSoFar => TriggerIsMax
  <2> SUFFICES ASSUME NumbersOK, MaxSoFar, pc = "sweep", at \notin DOMAIN Order,
                      \A c \in Cells : cphase[c] # NaN, NEW i \in DOMAIN Order
               PROVE  /\ cphase[Order[i]] <= cphase[max]
                      /\ cphase[Order[i]] = cphase[max] => \E j \in 1 .. i : Order[j] = max
    BY DEF TriggerIsMax
  <2>1. at = Len(Order) + 1 /\ i \in 1 .. at - 1 /\ at > 1 /\ Len(Order) \in Nat
    BY AutomatonAssumption DEF MaxSoFar
  <2>2. \A k \in 1 .. at - 1 : cphase[Order[k]] # NaN
    BY <2>1, AutomatonAssumption
  <2> QED BY <2>1, <2>2 DEF MaxSoFar
<1>2. Init => MaxSoFar
  BY DEF Init, MaxSoFar
<1> QED BY <1>1, <1>2, NumbersInit, NumbersNext, MaxNext, PTL DEF Spec
=============================================================================
