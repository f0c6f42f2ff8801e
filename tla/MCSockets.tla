----------------------------- MODULE MCSockets ------------------------------
(***************************************************************************)
(* Two servers and two addresses, which are freed and made again with      *)
(* another protocol or TTL, with so few descriptors that they run out and  *)
(* come back at once.                                                      *)
(***************************************************************************)
EXTENDS Sockets, TLC

CONSTANTS s1, s2, a1, a2

MCServers   == {s1, s2}
MCAddresses == {a1, a2}
MCFds       == 3 .. 4

\* A TTL taken back, and one whose lowest byte is another, 0.
MCTtls      == {-1, 256}

Symmetric == Permutations(MCServers) \cup Permutations(MCAddresses)
=============================================================================
