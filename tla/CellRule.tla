------------------------------ MODULE CellRule ------------------------------
(***************************************************************************)
(* The local rule of the automaton: the two next: methods of objc/Cell.m.  *)
(*                                                                         *)
(* States are multiples of 1/One; an average is rounded down to one, where *)
(* the code rounds a float.  Division by a sum of zero gives NaN, and NaN  *)
(* passes through every sum and through the test against 1.                *)
(***************************************************************************)
EXTENDS Integers, Sequences, Functions

CONSTANTS One,          \* 1.0f
          NaN           \* what 0.0f / 0.0f gives: not a number

ASSUME CellRuleAssumption == One \in Nat \ {0} /\ NaN \notin Int

\* The states of the neighbours of a cell, weighted.  A list of weights of
\* another length than the neighbourhood is ignored.
Weights(neighbours, weights) ==
    IF Len(weights) = Len(neighbours) THEN weights ELSE [i \in DOMAIN neighbours |-> 1]

\* The code takes 1 off what is above 1.
Wrapped(avg) == IF avg > One THEN avg - One ELSE avg

\* The new state of a cell with these neighbours, from the states "last".
NextState(last, neighbours, weights, add) ==
    LET w   == Weights(neighbours, weights)
        sum == SumFunction([i \in DOMAIN neighbours |-> last[neighbours[i]] * w[i]])
    IN  IF SumFunction(w) = 0 \/ \E i \in DOMAIN neighbours : last[neighbours[i]] = NaN
        THEN NaN
        ELSE Wrapped(sum \div SumFunction(w) + add)
=============================================================================
