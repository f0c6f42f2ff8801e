------------------------------ MODULE Lattice ------------------------------
(***************************************************************************)
(* The lattice of cells: the offsets of a habitat (Habitat.m), the seed    *)
(* (Seeds.m), the cells and their neighbours on a torus (FxWorld.m).       *)
(*                                                                         *)
(* A world is built in the order of resetWorld: habitat, seed, cells,      *)
(* neighbours.  Sequences are numbered from 1, the code's arrays from 0.   *)
(***************************************************************************)
EXTENDS Integers, Sequences, SequencesExt

CONSTANTS Size,         \* WORLD_SIZE
          Radii,        \* the radii that may be asked for
          Boxes         \* the seed areas: left, top, front, width, height, depth

Coords == 0 .. Size - 1
Cells  == Coords \X Coords \X Coords

ASSUME LatticeAssumption ==
    /\ Size \in Nat \ {0}
    /\ Radii \subseteq Nat
    /\ Boxes \subseteq [left : Int, top : Int, front : Int,
                        width : Int, height : Int, depth : Int]

VARIABLES
    stage,      \* what is built: "none", "habitat", "seed", "cells", "world" or "raised"
    moore,      \* a Moore or a von Neumann habitat
    radius,
    box,
    indices,    \* of the habitat: a sequence of offsets <<x, y, z>>
    seed,       \* the cells to be set to 1
    alive,      \* the cells with state 1
    habitat     \* of every cell: the sequence of its neighbours

vars == <<stage, moore, radius, box, indices, seed, alive, habitat>>

Init ==
    /\ stage = "none"
    /\ moore \in BOOLEAN /\ radius \in Radii /\ box \in Boxes
    /\ indices = <<>> /\ seed = {} /\ alive = {} /\ habitat = <<>>

----------------------------------------------------------------------------
(* Habitat *)

\* The offsets of a cube, y outermost and z innermost ...
Cube(r) ==
    LET w == 2 * r + 1
    IN  [n \in 1 .. w * w * w |->
            <<(((n - 1) \div w) % w) - r, ((n - 1) \div (w * w)) - r, ((n - 1) % w) - r>>]

\* A plausible slip: x is the outermost loop.
MooreTurned(r) ==
    LET o == RemoveFirst(Cube(r), <<0, 0, 0>>)
    IN  [n \in DOMAIN o |-> <<o[n][2], o[n][1], o[n][3]>>]

\* A plausible slip: with the centre.
MooreWithCentre(r) == Cube(r)

\* initMoore: without the centre, which is in the cube once.
Moore(r) == RemoveFirst(Cube(r), <<0, 0, 0>>)

\* A plausible slip: opposite offsets side by side.
NeumannInPairs(r) ==
    << <<-1, 0, 0>>, <<1, 0, 0>>, <<0, -1, 0>>, <<0, 1, 0>>, <<0, 0, -1>>, <<0, 0, 1>> >>

\* initNeumann: whatever the radius.
Neumann(r) ==
    << <<-1, 0, 0>>, <<0, -1, 0>>, <<0, 0, -1>>, <<0, 0, 1>>, <<0, 1, 0>>, <<1, 0, 0>> >>

InitHabitat ==
    /\ stage = "none" /\ stage' = "habitat"
    /\ indices' = IF moore THEN Moore(radius) ELSE Neumann(radius)
    /\ UNCHANGED <<moore, radius, box, seed, alive, habitat>>

----------------------------------------------------------------------------
(* Seeds *)

\* A plausible slip: the far faces are one further.
WireCubeOpen(b) ==
    {c \in (b.left .. b.left + b.width - 1) \X (b.top .. b.top + b.height - 1)
                \X (b.front .. b.front + b.depth - 1) :
        \/ c[1] = b.left \/ c[2] = b.top \/ c[3] = b.front
        \/ c[1] = b.width \/ c[2] = b.height \/ c[3] = b.depth}

\* wireCube.  The near faces are told by the corner of the box, the far ones
\* by its extent alone.
WireCube(b) ==
    {c \in (b.left .. b.left + b.width - 1) \X (b.top .. b.top + b.height - 1)
                \X (b.front .. b.front + b.depth - 1) :
        \/ c[1] = b.left \/ c[2] = b.top \/ c[3] = b.front
        \/ c[1] = b.width - 1 \/ c[2] = b.height - 1 \/ c[3] = b.depth - 1}

InitSeed ==
    /\ stage = "habitat" /\ stage' = "seed"
    /\ seed' = WireCube(box)
    /\ UNCHANGED <<moore, radius, box, indices, alive, habitat>>

----------------------------------------------------------------------------
(* FxWorld *)

\* initCells; a seed that is no cell raises.
InitCells ==
    /\ stage = "seed"
    /\ \/ seed \subseteq Cells /\ stage' = "cells" /\ alive' = seed
       \/ ~(seed \subseteq Cells) /\ stage' = "raised" /\ alive' = alive
    /\ UNCHANGED <<moore, radius, box, indices, seed, habitat>>

\* wrapi(x, 0, size - 1)
Wrap(x) == x % Size

Neighbour(c, d) == <<Wrap(c[1] + d[1]), Wrap(c[2] + d[2]), Wrap(c[3] + d[3])>>

SetHabitat ==
    /\ stage = "cells" /\ stage' = "world"
    /\ habitat' = [c \in Cells |-> [n \in DOMAIN indices |-> Neighbour(c, indices[n])]]
    /\ UNCHANGED <<moore, radius, box, indices, seed, alive>>

Next == InitHabitat \/ InitSeed \/ InitCells \/ SetHabitat

Spec == Init /\ [][Next]_vars

----------------------------------------------------------------------------
(* Properties *)

Built == stage = "world"

\* How far the habitat reaches.
Reach == IF moore THEN radius ELSE 1

\* Neighbourhood is mutual, on the torus and at its seams: if d is the n-th
\* neighbour of c, c is the n-th neighbour of d counted from the end.  The
\* client's preset "symmetry", a mirrored list of weights, relies on it.  A cell
\* has its neighbours once each, and is none of them itself, as long as the
\* habitat fits into the torus.
Mutual ==
    Built =>
        /\ habitat \in [Cells -> [DOMAIN indices -> Cells]]
        /\ \A c \in Cells : \A n \in DOMAIN indices :
                habitat[habitat[c][n]][Len(indices) + 1 - n] = c
        /\ 2 * Reach < Size => \A c \in Cells : IsInjective(Append(habitat[c], c))

InBox(x, y, z) ==
    /\ x \in box.left .. box.left + box.width - 1
    /\ y \in box.top .. box.top + box.height - 1
    /\ z \in box.front .. box.front + box.depth - 1

\* The cells of the box with a side on no other cell of it.
Surface == {c \in Cells : /\ InBox(c[1], c[2], c[3])
                          /\ \E d \in {-1, 1} : \/ ~InBox(c[1] + d, c[2], c[3])
                                                \/ ~InBox(c[1], c[2] + d, c[3])
                                                \/ ~InBox(c[1], c[2], c[3] + d)}

\* In such a direction all cells of the box are on its near or on its far face.
Thin(corner, extent) == extent <= 1 \/ (corner = 0 /\ extent = 2)

\* The seed of a box is its surface if the box lies at the origin or is thin in some
\* direction, and of no other box: wireCube tells the far faces by the extent alone,
\* leaves those of a box elsewhere open and may put a wall inside it.
SeedIsSurface ==
    Built => (alive = Surface <=> \/ box.left = 0 /\ box.top = 0 /\ box.front = 0
                                  \/ Thin(box.left, box.width)
                                  \/ Thin(box.top, box.height)
                                  \/ Thin(box.front, box.depth))

Drawn == {10 + 1, 4 + 1, 12 + 1}

\* The neighbours with the indices 10, 4 and 12 are the ones at the left, below and
\* in front of every cell that has them there.
DrawnAreSides ==
    \A c \in Cells :
        /\ c[1] > 0 => habitat[c][10 + 1] = <<c[1] - 1, c[2], c[3]>>
        /\ c[2] > 0 => habitat[c][4 + 1]  = <<c[1], c[2] - 1, c[3]>>
        /\ c[3] > 0 => habitat[c][12 + 1] = <<c[1], c[2], c[3] - 1>>

\* The grid is drawn to the neighbours with these three indices.  They exist in
\* every Moore habitat but that of radius 0, and in no von Neumann habitat, where
\* drawing raises; but of all radii up to the size it is 1 alone that makes them the
\* sides of the cell, which drawGrid takes them for.
GridMeetsNeighbours ==
    Built =>
        /\ Drawn \subseteq DOMAIN indices <=> moore /\ radius > 0
        /\ moore /\ radius \in 1 .. Size - 1 => (DrawnAreSides <=> radius = 1)
=============================================================================
