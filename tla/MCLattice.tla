----------------------------- MODULE MCLattice -----------------------------
(***************************************************************************)
(* Seeds at the origin, on its sides and elsewhere, flat and empty ones,   *)
(* and such that cross either border of the lattice.  Of the radii, 3 is   *)
(* the largest below the size.                                             *)
(***************************************************************************)
EXTENDS Lattice

Box(corner, front, extent, depth) ==
    [left |-> corner, top |-> corner, front |-> front,
     width |-> extent, height |-> extent, depth |-> depth]

MCBoxes == {Box(c, f, e, d) : c \in -1 .. 2, f \in {0, 1}, e \in 0 .. 3, d \in 1 .. 3}
=============================================================================
