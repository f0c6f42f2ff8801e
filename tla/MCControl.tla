----------------------------- MODULE MCControl -----------------------------
(***************************************************************************)
(* Small instances of FxControl: the messages a client may send in a run.  *)
(* Each run takes the kinds whose handlers race with the part of the frame *)
(* it is about, so that several of them fit into one behaviour.            *)
(***************************************************************************)
EXTENDS FxControl

Setting(a, r) == [kind |-> "settings", add |-> a, frameRate |-> r]
Cell          == [kind |-> "cell", setcell |-> TRUE]
Quit          == [kind |-> "quit", done |-> 1]
PatchCmd(p, c, v) == [kind |-> "patch", patch |-> p, cmd |-> c, value |-> v]
Poll(a, b)    == [kind |-> "poll", setpoll |-> TRUE, poll1 |-> a, poll2 |-> b]

\* sendReset and sendWeights of the client; the latter sends zeros for
\* everything but the weights, the radius among them.
Reset(s, h, a, w) == [kind |-> "world", reset |-> 1, seed |-> s, habitat |-> h,
                      area |-> a, weights |-> w]
Weights(w)        == [kind |-> "world", reset |-> 2, seed |-> 0, habitat |-> 1,
                      area |-> "fits", weights |-> w]

\* Rates below and above the one in force, frames cut short by cell commands or
\* by the grid drawn on a von Neumann world, and quit.
ClockMessages == {Setting(3, 1), Setting(5, 2), Cell, Quit,
                  PatchCmd(2, 0, 1), Reset(0, 1, "fits", "w1")}

\* Two poll lists, world commands that can and that cannot be honoured, changes
\* of weights, a cell command, and patch commands that differ in all three
\* globals, one of them for an unknown patch.
MailMessages == {Poll(7, 7), Poll(8, 8), Cell,
                 Reset(0, 1, "fits", "w1"), Reset(1, 0, "fits", "w1"),
                 Reset(0, 0, "outside", "w2"), Weights("w2"), Weights("w3"),
                 PatchCmd(2, 0, 1), PatchCmd(1, 1, 2), PatchCmd(2, 0, 0), PatchCmd(5, 0, 1)}
=============================================================================
