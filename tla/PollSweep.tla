----------------------------- MODULE PollSweep -----------------------------
(***************************************************************************)
(* The polled cells.  In every other frame the sweep of drawCells          *)
(* (FxView.m) looks, at each cell, whether it is the one poll under the    *)
(* world's pollIndex; if so its phase goes into oscValues and pollIndex    *)
(* moves on.  At the end of the frame all of oscValues is sent.            *)
(*                                                                         *)
(* pollIndex belongs to the world: a new list of polls does not reset it,  *)
(* and neither does a frame cut short; only a new world starts at 0.       *)
(* Instead of its phases, fresh holds which of oscValues are of this frame.*)
(***************************************************************************)
EXTENDS Integers, FiniteSets

CONSTANTS Size,         \* WORLD_SIZE
          Lists,        \* the lists that may be sent, of x coordinates
          MaxDisturbed  \* bound on the frames with a command or cut short

Coords   == 0 .. Size - 1
NumCells == Size * Size * Size
Cells    == 0 .. NumCells - 1           \* in the order of the sweep
Rank(i, j, k) == (i * Size + j) * Size + k

Nowhere  == NumCells                    \* a poll outside the lattice
Idle     == NumCells + 1

\* setPollIndices: with NULL takes every (size / 4)-th cell from the third on,
\* in the order of its three loops.
Steps   == {o \in Coords : o >= 2 /\ (o - 2) % (Size \div 4) = 0}
Sampled == {Rank(i, j, k) : i \in Steps, j \in Steps, k \in Steps}

InOrderOf(Key(_)) ==
    [n \in 1 .. Cardinality(Sampled) |->
        CHOOSE c \in Sampled : Cardinality({d \in Sampled : Key(d) < Key(c)}) = n - 1]

\* A plausible slip: the loop over i is the innermost.
DefaultPollsTurned ==
    LET Turned(c) == Rank(c % Size, (c \div Size) % Size, c \div (Size * Size))
    IN  InOrderOf(Turned)

DefaultPolls == LET Itself(c) == c IN InOrderOf(Itself)

\* poll_handler stores every third number it is sent, getPollIndices reads them
\* all: y and z of a poll that was sent are 0 always.
Polls(xs) == [n \in DOMAIN xs |-> IF xs[n] \in Coords THEN Rank(xs[n], 0, 0) ELSE Nowhere]

Count == Cardinality(Sampled)           \* 64, as many as poll_handler stores
Slots == 0 .. Count - 1

ASSUME PollSweepAssumption ==
    /\ Size \in Nat /\ Size >= 4
    /\ \A xs \in Lists : xs \in [1 .. Count -> Int]
    /\ MaxDisturbed \in Nat

VARIABLES
    pos,            \* next cell of the sweep; Idle between two frames
    pollIndices,    \* of the world
    pollIndex,      \* of the world
    start,          \* history: pollIndex at the beginning of the frame
    fresh,          \* which of oscValues are of this frame
    enableMessage,
    disturbed       \* number of frames with a command, or cut short

vars == <<pos, pollIndices, pollIndex, start, fresh, enableMessage, disturbed>>

Init ==
    /\ pos = Idle
    /\ pollIndices = DefaultPolls /\ pollIndex = 0
    /\ start = 0 /\ fresh = {}
    /\ enableMessage = FALSE
    /\ disturbed = 0

Disturb == disturbed < MaxDisturbed /\ disturbed' = disturbed + 1

\* A frame begins: first the world may be reset, then a list of polls be taken, so
\* that the polls of a new world are the ones sent if both have been asked for.
Frame == \E reset, sent \in BOOLEAN :
    /\ pos = Idle
    /\ IF reset \/ sent THEN Disturb ELSE UNCHANGED disturbed
    /\ pollIndex' = IF reset THEN 0 ELSE pollIndex
    /\ IF sent THEN \E xs \in Lists : pollIndices' = Polls(xs)
       ELSE pollIndices' = IF reset THEN DefaultPolls ELSE pollIndices
    /\ pos' = 0 /\ fresh' = {} /\ start' = pollIndex'
    /\ UNCHANGED enableMessage

\* A plausible slip: the last poll is taken for one beyond the last.
NextPollIndexEarly == IF pollIndex = Count - 2 THEN 0 ELSE pollIndex + 1

NextPollIndex == IF pollIndex = Count - 1 THEN 0 ELSE pollIndex + 1

Cell ==
    /\ pos \in Cells
    /\ pos' = pos + 1
    /\ IF enableMessage /\ pollIndices[pollIndex + 1] = pos
         THEN fresh' = fresh \cup {pollIndex} /\ pollIndex' = NextPollIndex
         ELSE UNCHANGED <<pollIndex, fresh>>
    /\ UNCHANGED <<pollIndices, start, enableMessage, disturbed>>

\* drawCell raises: the rest of the frame is not carried out, and the next
\* frame is one with messages again if this one was.
CutShort ==
    /\ pos \in Cells
    /\ Disturb
    /\ pos' = Idle
    /\ UNCHANGED <<pollIndices, pollIndex, start, fresh, enableMessage>>

\* The end of the sweep: oscValues is sent in every other frame.
Finish ==
    /\ pos = NumCells
    /\ pos' = Idle
    /\ enableMessage' = ~enableMessage
    /\ UNCHANGED <<pollIndices, pollIndex, start, fresh, disturbed>>

Next == Frame \/ Cell \/ CutShort \/ Finish

\* The timer repeats, and every frame comes to an end.
Spec == Init /\ [][Next]_vars /\ WF_vars(Frame \/ Cell \/ Finish)

----------------------------------------------------------------------------
(* Properties *)

Sending == pos = NumCells /\ enableMessage

\* With the world's own polls, what is sent to the client is of one frame, the
\* whole of it: the list is in the order of the sweep.  It takes a frame that
\* begins with pollIndex 0, and leaves it at 0 for the next one.
SnapshotIsWhole ==
    Sending /\ start = 0 /\ pollIndices = DefaultPolls
        => fresh = Slots /\ pollIndex = 0

\* A poll outside the lattice is never met, and none after it.
Stuck == pollIndices[pollIndex + 1] = Nowhere

\* Whatever lists the client sends, and whatever frames are cut short, every
\* one of the values sent is renewed again and again, unless a poll lies outside
\* the lattice.
AlwaysRenewed == <>[]Stuck \/ \A s \in Slots : []<>(s \in fresh)
=============================================================================
