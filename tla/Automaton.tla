----------------------------- MODULE Automaton -----------------------------
(***************************************************************************)
(* The cellular automaton as the program computes it: FxWorld's cells,     *)
(* swept in place, one cell after the other, by drawCells (objc/FxView.m). *)
(*                                                                         *)
(* A frame either starts a generation (prepareNext, then next: for every   *)
(* cell) or moves the displayed phase of every cell on by its velocity.    *)
(* Drawing a cell may raise an exception, which leaves the frame where it  *)
(* is; between two frames the weights or the whole world may be replaced.  *)
(***************************************************************************)
EXTENDS CellRule

CONSTANTS Cells, Habitats, WeightLists, Seeds, Adds,
          Order,        \* the order in which the three nested loops visit the cells
          Rates,        \* frame rates the client may set
          Grain,        \* a multiple of all rates: phases are multiples of 1/(One*Grain)
          MaxFrames     \* bound on the frames of a behaviour

ASSUME AutomatonAssumption ==
    /\ Order \in Seq(Cells)
    /\ \A i, j \in DOMAIN Order : Order[i] = Order[j] => i = j
    /\ \A c \in Cells : \E i \in DOMAIN Order : Order[i] = c
    /\ Seeds \subseteq [Cells -> 0 .. One]
    /\ Habitats \subseteq [Cells -> Seq(Cells)]
    /\ WeightLists \subseteq Seq(Nat)     \* wspec, of f(x)public.sc: 0 to 10
    /\ Adds \subseteq Int
    /\ Rates \subseteq Nat \ {0} /\ Grain \in Nat \ {0}

VARIABLES
    state, lastState, velocity, cphase,   \* ivars of the Cells (cphase: phase)
    habitat, weights,                     \* of FxWorld
    phase, ratio, renew, add,             \* of FxView and drawCells
    pc, at,                               \* where the sweep is
    max,                                  \* the cell with the largest phase so far
    frames,                               \* number of frames begun
    zeroed                                \* history: a generation had weights of sum 0

cellvars == <<state, lastState, velocity, cphase>>
rule     == <<habitat, weights>>
clock    == <<phase, ratio, renew, add>>
vars     == <<cellvars, rule, clock, pc, at, max, frames, zeroed>>

Wrapf(x) == x % (One * Grain)             \* wrapf(x, 0.0f, 1.0f) of fxutil

Zeros == [c \in Cells |-> 0]

\* The cells of a new FxWorld have the states of the seeds and nothing else.
Init ==
    /\ state \in Seeds
    /\ lastState = Zeros /\ velocity = Zeros /\ cphase = Zeros
    /\ habitat \in Habitats
    /\ weights \in WeightLists
    /\ ratio \in Rates /\ phase = ratio
    /\ renew = FALSE
    /\ add \in Adds
    /\ pc = "idle" /\ at = 0
    /\ max = Order[1]
    /\ frames = 0
    /\ zeroed = FALSE

\* resetWorld, for 2.
SetWeights ==
    /\ pc = "idle"
    /\ weights' \in WeightLists
    /\ UNCHANGED <<cellvars, habitat, clock, pc, at, max, frames, zeroed>>

\* A plausible slip: the cells are taken over from the old world ...
ResetKeepingCells ==
    /\ pc = "idle"
    /\ habitat' \in Habitats
    /\ weights' \in WeightLists
    /\ zeroed' = FALSE
    /\ UNCHANGED <<cellvars, clock, pc, at, max, frames>>

\* ... while for 1 the code makes a new FxWorld with cells of its own.
ResetWorld ==
    /\ pc = "idle"
    /\ state' \in Seeds
    /\ lastState' = Zeros /\ velocity' = Zeros /\ cphase' = Zeros
    /\ habitat' \in Habitats
    /\ weights' \in WeightLists
    /\ zeroed' = FALSE
    /\ UNCHANGED <<clock, pc, at, max, frames>>

\* A plausible slip: prepareNext is not called ...
PrepareNextForgotten == lastState' = lastState

\* ... in the code it makes every cell remember its state.
PrepareNext == lastState' = state

\* drawCells up to the sweep.
StartFrame ==
    /\ pc = "idle"
    /\ frames < MaxFrames
    /\ add' \in Adds
    /\ \/ /\ phase = ratio
          /\ renew' = TRUE
          /\ phase' = 0
          /\ ratio' \in Rates
          /\ PrepareNext
          /\ zeroed' = (zeroed \/ \E c \in Cells :
                            SumFunction(Weights(habitat[c], weights)) = 0)
       \/ /\ phase # ratio
          /\ renew' = FALSE
          /\ UNCHANGED <<phase, ratio, lastState, zeroed>>
    /\ pc' = "sweep" /\ at' = 1
    /\ max' = Order[1]
    /\ frames' = frames + 1
    /\ UNCHANGED <<state, velocity, cphase, rule>>

\* The velocity that takes a cell from one state to another in ratio frames.
VelocityTo(avg, last) ==
    IF NaN \in {avg, last} THEN NaN ELSE ((avg - last) * Grain) \div ratio

\* A plausible slip: the rule reads the states that the sweep is changing ...
NextCellReadingStates(c) ==
    LET avg == NextState(state, habitat[c], weights, add)
    IN  /\ state' = [state EXCEPT ![c] = avg]
        /\ velocity' = [velocity EXCEPT ![c] = VelocityTo(avg, lastState[c])]
        /\ UNCHANGED <<lastState, cphase>>

\* ... while Cell.m's next: reads what prepareNext saved.
NextCell(c) ==
    LET avg == NextState(lastState, habitat[c], weights, add)
    IN  /\ state' = [state EXCEPT ![c] = avg]
        /\ velocity' = [velocity EXCEPT ![c] = VelocityTo(avg, lastState[c])]
        /\ UNCHANGED <<lastState, cphase>>

\* Cell.m's updatePhase.
UpdatePhase(c) ==
    /\ cphase' = [cphase EXCEPT ![c] =
                    IF NaN \in {cphase[c], velocity[c]} THEN NaN
                    ELSE Wrapf(cphase[c] + velocity[c])]
    /\ UNCHANGED <<state, lastState, velocity>>

\* A plausible slip: of equal phases the last one wins ...
BelowOrEqual(p, q) == NaN \notin {p, q} /\ p <= q

\* ... where the code keeps the first.  Comparisons with NaN are false.
Below(p, q) == NaN \notin {p, q} /\ p < q

\* One cell of the sweep: it is computed, drawn, and compared.
SweepCell ==
    /\ pc = "sweep" /\ at \in DOMAIN Order
    /\ IF renew THEN NextCell(Order[at]) ELSE UpdatePhase(Order[at])
    /\ \/ /\ pc' = "sweep" /\ at' = at + 1
          /\ max' = IF Below(cphase'[max], cphase'[Order[at]]) THEN Order[at] ELSE max
       \/ /\ pc' = "idle" /\ at' = 0      \* drawCell raised
          /\ max' = max
    /\ UNCHANGED <<rule, clock, frames, zeroed>>

\* The end of drawCells: the trigger message carries max.
EndFrame ==
    /\ pc = "sweep" /\ at \notin DOMAIN Order
    /\ phase' = phase + 1
    /\ pc' = "idle" /\ at' = 0
    /\ UNCHANGED <<cellvars, rule, ratio, renew, add, max, frames, zeroed>>

Next == SetWeights \/ ResetWorld \/ StartFrame \/ SweepCell \/ EndFrame

Spec == Init /\ [][Next]_vars

----------------------------------------------------------------------------
(* Properties *)

\* While a generation is being computed in place, the cells already swept
\* have their new state and the others still the old one, and what the rule
\* reads, the states saved by prepareNext, does not change under the sweep.
SweepInv ==
    pc = "sweep" /\ renew =>
        \A i \in DOMAIN Order :
            state[Order[i]] =
                IF i < at THEN NextState(lastState, habitat[Order[i]], weights, add)
                          ELSE lastState[Order[i]]

\* The average of the client's weights is a division by their sum: cells turn
\* into NaN only if a generation was computed with weights that add up to 0.
NaNOnlyFromZeroWeights == ~zeroed => \A c \in Cells : state[c] # NaN

\* The trigger message of a frame names a cell with the largest phase of the
\* lattice, and of those the first in the sweep, as long as phases are numbers.
TriggerIsMax ==
    pc = "sweep" /\ at \notin DOMAIN Order /\ (\A c \in Cells : cphase[c] # NaN) =>
        \A i \in DOMAIN Order :
            /\ cphase[Order[i]] <= cphase[max]
            /\ cphase[Order[i]] = cphase[max] =>
                  \E j \in 1 .. i : Order[j] = max

\* In a sweep the world is seen as it was before, until its last cell is done.
Settled == IF pc = "sweep" /\ renew THEN lastState ELSE state

Sync == INSTANCE SyncAutomaton WITH cells <- Settled

\* The sweep implements the synchronous automaton: no cell ever sees a state
\* of the generation it is helping to compute.
SweepIsSynchronous == Sync!Spec
=============================================================================
