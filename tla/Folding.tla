------------------------------ MODULE Folding -------------------------------
(***************************************************************************)
(* A loop over a sequence.                                                 *)
(***************************************************************************)
EXTENDS Integers, Sequences

\* The sequence s taken from the left, one element after the other.  (FoldLeft,
\* but for the definition: a function of how many elements have been taken.)
Folded(op(_, _), base, s) ==
    LET taken[n \in 0 .. Len(s)] == IF n = 0 THEN base ELSE op(taken[n - 1], s[n])
    IN  taken[Len(s)]
=============================================================================
