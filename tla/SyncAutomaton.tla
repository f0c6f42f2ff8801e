--------------------------- MODULE SyncAutomaton ---------------------------
(***************************************************************************)
(* What FxWorld promises: a synchronous cellular automaton.  All cells     *)
(* take their new state at once, each from the states its neighbours had   *)
(* before.  There is no sweep, no order of the cells and no frame here.    *)
(***************************************************************************)
CONSTANTS NextState(_, _, _, _), \* the local rule
          Cells,        \* the lattice
          Habitats,     \* neighbourhoods: functions from cells to sequences of cells
          WeightLists,  \* lists of weights the client may set
          Seeds,        \* states a new world may start in
          Adds          \* values of the add setting

VARIABLES cells,        \* the state of every cell
          habitat, weights

vars == <<cells, habitat, weights>>

Init == cells \in Seeds /\ habitat \in Habitats /\ weights \in WeightLists

\* The whole lattice moves one generation on.
Generation ==
    /\ \E add \in Adds :
        cells' = [c \in Cells |-> NextState(cells, habitat[c], weights, add)]
    /\ UNCHANGED <<habitat, weights>>

\* A frame was cut short by an exception: only some cells have moved on.
CutShort ==
    /\ \E add \in Adds, moved \in SUBSET Cells :
        cells' = [c \in Cells |-> IF c \in moved
                                  THEN NextState(cells, habitat[c], weights, add)
                                  ELSE cells[c]]
    /\ UNCHANGED <<habitat, weights>>

SetWeights == weights' \in WeightLists /\ UNCHANGED <<cells, habitat>>

Reset == cells' \in Seeds /\ habitat' \in Habitats /\ weights' \in WeightLists

Next == Generation \/ CutShort \/ SetWeights \/ Reset

Spec == Init /\ [][Next]_vars
=============================================================================
