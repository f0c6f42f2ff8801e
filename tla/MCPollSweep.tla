---------------------------- MODULE MCPollSweep ----------------------------
(***************************************************************************)
(* A lattice of 4 x 4 x 4 cells, with 8 polls of its own.  The lists sent  *)
(* are in the order of the sweep, against it, of one cell only, and with   *)
(* one coordinate beyond the lattice.                                      *)
(***************************************************************************)
EXTENDS PollSweep

MCLists == {<<2, 2, 2, 2, 3, 3, 3, 3>>, <<3, 2, 1, 0, 3, 2, 1, 0>>,
            <<1, 1, 1, 1, 1, 1, 1, 1>>, <<0, 1, 2, 3, 4, 0, 1, 2>>}
=============================================================================
