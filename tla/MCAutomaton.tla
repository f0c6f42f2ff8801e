---------------------------- MODULE MCAutomaton ----------------------------
(***************************************************************************)
(* A ring of three cells, each with its two neighbours in either order,    *)
(* swept from the first to the last.  The middle cell has a neighbour on   *)
(* either side of the sweep; so has, around the ring, each other one.      *)
(***************************************************************************)
EXTENDS Automaton

Ring   == 1 .. 3
InTurn == <<1, 2, 3>>

Before(c) == IF c = 1 THEN 3 ELSE c - 1
After(c)  == IF c = 3 THEN 1 ELSE c + 1

Neighbourhoods == {[c \in Ring |-> <<Before(c), After(c)>>]}

\* One seeded cell, as a seed list sets cells to 1.0.
OneSeed == {[c \in Ring |-> IF c = 2 THEN One ELSE 0]}

\* Lopsided weights, a list of the wrong length, and zeros.
SomeWeights == {<<2, 1>>, <<1>>, <<0, 0>>}
=============================================================================
