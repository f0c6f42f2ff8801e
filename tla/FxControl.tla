----------------------------- MODULE FxControl -----------------------------
(***************************************************************************)
(* The two threads of the Fx application and the memory they share.        *)
(*                                                                         *)
(* The liblo server thread runs the handlers of objc/FxOSC.m, which store  *)
(* the arguments of an OSC message in global variables.  The main thread   *)
(* draws one frame per tick of a 24 Hz timer (objc/main.m, objc/FxView.m)  *)
(* and reads the same globals one at a time.  No lock is held by either.   *)
(*                                                                         *)
(* Every load and store of a global that a property can tell apart is a    *)
(* step of its own.  The stores of one handler take effect in any order:   *)
(* they are plain stores to unrelated globals, racing with the loads, and  *)
(* the Release build is optimised and runs on weakly ordered processors.   *)
(* Loads happen in program order: an Objective-C call separates them.      *)
(*                                                                         *)
(* The 26 weights are one global, the seed area is one ("fits" or          *)
(* "outside" the lattice), and so are habitat and radius: 1 if a cell gets *)
(* fewer than 13 neighbours.  The nine settings used only for drawing and  *)
(* the coordinates of a cell command are left out: the frame that reads    *)
(* the latter raises before it uses the state.  A message that is lost,    *)
(* duplicated or overtaken on its way is covered: any message may be       *)
(* received next.                                                          *)
(***************************************************************************)
EXTENDS Integers, FiniteSets

CONSTANTS Messages,     \* the messages a client may send
          MaxMessages,  \* bound: how many of them are received
          NPatches,     \* patches known to setPatch (4 in the code)
          NCmds         \* attributes known to setPatch (11 in the code)

Grid   == 2             \* the patch setPatch selects on 2
Active == 0             \* the attribute setPatch selects on 0

FirstRate == 4          \* int frameRate = 4
FirstAdd  == 2          \* float add = 0.02, in hundredths

(***************************************************************************)
(* The globals each handler stores.  A message is a record that holds its  *)
(* kind and, under the name of the global, the value to be stored there.   *)
(***************************************************************************)
\* A plausible slip in patch_handler: an argument is forgotten.
PatchStoresWithoutCmd == {"patch", "value"}

SettingStores == {"add", "frameRate"}
CellStores    == {"setcell"}
PatchStores   == {"patch", "cmd", "value"}
ResetStores   == {"reset", "seed", "habitat", "area", "weights"}
PollStores    == {"setpoll", "poll1", "poll2"}
QuitStores    == {"done"}

Stores(kind) ==
    CASE kind = "settings" -> SettingStores
      [] kind = "cell"     -> CellStores
      [] kind = "patch"    -> PatchStores
      [] kind = "world"    -> ResetStores
      [] kind = "poll"     -> PollStores
      [] kind = "quit"     -> QuitStores

Kinds == {"settings", "cell", "patch", "world", "poll", "quit"}

\* The client's frame slider runs from 1 to 12, so every rate it sends is
\* positive, and its world commands ask for 1 or 2; poll_handler and cell_handler
\* store true, quit_handler 1.  Everything else only bounds the instance.
ASSUME MessagesAssumption ==
    /\ \A m \in Messages :
          /\ m.kind \in Kinds
          /\ m.kind = "settings" => m.frameRate \in Nat \ {0}
          /\ m.kind = "world" => m.reset \in {1, 2} /\ m.habitat \in {0, 1}
          /\ m.kind = "poll" => m.setpoll = TRUE
          /\ m.kind = "cell" => m.setcell = TRUE
          /\ m.kind = "quit" => m.done = 1
    /\ MaxMessages \in Nat
    /\ NPatches \in Nat \ {0}
    /\ NCmds \in Nat \ {0}

VARIABLES
    mem,        \* the globals of FxOSC.m
    msg,        \* the message the server thread handles, or handled last
    unstored,   \* the globals its handler has still to store
    received,   \* number of messages received
    pc,         \* where the main thread is in its frame
    at,         \* index of the loop or if-chain the main thread is in
    loc,        \* what the main thread has read: its local variables
    patches,    \* the attributes of the patches of FxDraw
    world,      \* the FxWorld object behind FxView's pointer
    phase, ratio, renew, enableMessage,   \* ivars of FxView
    gen,        \* the value of add the last generation was computed with
    app,        \* "running", "terminated", or "undefined" behaviour
    whole       \* history: see Watch

listener == <<msg, unstored, received>>
clock    == <<phase, ratio, renew, enableMessage>>
vars     == <<mem, listener, pc, at, loc, patches, world, clock, gen, app, whole>>

PatchIds == 0 .. NPatches - 1
CmdIds   == 0 .. NCmds - 1
Garbage  == NPatches    \* the uninitialised pointer p of setPatch

InitMem == [add |-> FirstAdd, frameRate |-> FirstRate,
            setcell |-> FALSE,
            patch |-> 0, cmd |-> 0, value |-> 0,
            reset |-> 0, seed |-> 0, habitat |-> 0, area |-> "fits",
            weights |-> "zero",
            setpoll |-> FALSE, poll1 |-> 0, poll2 |-> 0,
            done |-> 0]

\* initWorld: a Moore habitat, weights that are all 1, the default poll
\* lattice.  The object is retained once more than it is released, so a reset
\* leaks it: its retain count is 2.
InitWorld == [refs |-> 2, habitat |-> 0, weights |-> "one",
              polls |-> <<"default", "default">>]

Init ==
    /\ mem = InitMem
    /\ msg = [kind |-> "none"]
    /\ unstored = {}
    /\ received = 0
    /\ pc = "idle"
    /\ at = 0
    /\ loc = [p |-> 0, habitat |-> 0, seed |-> "fits", polls |-> <<0, 0>>, add |-> FirstAdd]
    /\ patches = [p \in PatchIds |-> [c \in CmdIds |-> 0]]
    /\ world = InitWorld
    /\ phase = FirstRate
    /\ ratio = FirstRate
    /\ renew = FALSE
    /\ enableMessage = FALSE
    /\ gen = FirstAdd
    /\ app = "running"
    /\ whole = [world |-> FALSE, poll |-> FALSE, patch |-> TRUE]

----------------------------------------------------------------------------
(* The server thread *)

\* lo_server_thread dispatches a message to its handler; the next one is
\* received only when the handler has returned.
Receive ==
    /\ unstored = {}
    /\ received < MaxMessages
    /\ \E m \in Messages : msg' = m /\ unstored' = Stores(m.kind)
    /\ received' = received + 1
    /\ UNCHANGED <<mem, pc, at, loc, patches, world, clock, gen, app>>

\* One store of the handler that is running.
HandlerStore(g) ==
    /\ g \in unstored
    /\ mem' = [mem EXCEPT ![g] = msg[g]]
    /\ unstored' = unstored \ {g}
    /\ UNCHANGED <<msg, received, pc, at, loc, patches, world, clock, gen, app>>

ServerThread == Receive \/ \E g \in unstored : HandlerStore(g)

----------------------------------------------------------------------------
(* The main thread: one frame.  "Goto(l)" moves to label l at index 0. *)

Goto(l) == pc' = l /\ at' = 0

\* An exception leaves drawCells; the run loop logs it and the timer goes on.
Raise == Goto("idle")

Crash == app' = "undefined" /\ Goto("idle")

\* FxWorld's dealloc releases, twice, rows of cells that it does not own, and
\* goes on using them: an object that is really deallocated is the end.
Release(l) ==
    /\ world' = [world EXCEPT !.refs = @ - 1]
    /\ \/ world.refs > 1 /\ Goto(l) /\ app' = app
       \/ world.refs = 1 /\ Crash

TimerFires ==
    /\ pc = "idle"
    /\ Goto("patch")
    /\ UNCHANGED <<mem, listener, loc, patches, world, clock, gen, app>>

\* The if-chain on the global "patch", which is loaded again by each test.
TestPatch ==
    /\ pc = "patch"
    /\ \/ /\ at \in PatchIds /\ mem.patch # at
          /\ pc' = pc /\ at' = at + 1
          /\ loc' = loc
       \/ /\ at \in PatchIds /\ mem.patch = at
          /\ loc' = [loc EXCEPT !.p = at]
          /\ Goto("cmd")
       \/ /\ at \notin PatchIds
          /\ loc' = [loc EXCEPT !.p = Garbage]
          /\ Goto("cmd")
    /\ UNCHANGED <<mem, listener, patches, world, clock, gen, app>>

\* The if-chain on the global "cmd".
TestCmd ==
    /\ pc = "cmd"
    /\ \/ /\ at \in CmdIds /\ mem.cmd # at
          /\ pc' = pc /\ at' = at + 1
       \/ /\ at \in CmdIds /\ mem.cmd = at
          /\ pc' = "value" /\ at' = at
       \/ /\ at \notin CmdIds
          /\ Goto("reset")
    /\ UNCHANGED <<mem, listener, loc, patches, world, clock, gen, app>>

\* The body of the branch taken: the global "value" goes to the patch.
SetAttribute ==
    /\ pc = "value"
    /\ \/ /\ loc.p = Garbage
          /\ Crash
          /\ patches' = patches
       \/ /\ loc.p # Garbage
          /\ patches' = [patches EXCEPT ![loc.p][at] = mem.value]
          /\ Goto("reset")
          /\ app' = app
    /\ UNCHANGED <<mem, listener, loc, world, clock, gen>>

TestReset ==
    /\ pc = "reset"
    /\ Goto(IF mem.reset > 0 THEN "isReset" ELSE "cell")
    /\ UNCHANGED <<mem, listener, loc, patches, world, clock, gen, app>>

\* A plausible slip: the release is hoisted out of the branch that rebuilds.
ReleaseBeforeTest ==
    /\ pc = "isReset"
    /\ Release(IF mem.reset = 1 THEN "habitat" ELSE "isWeights")
    /\ UNCHANGED <<mem, listener, loc, patches, clock, gen>>

\* resetWorld, first test: the world is released before there is a new one.
ReleaseWorld ==
    /\ pc = "isReset"
    /\ \/ /\ mem.reset = 1
          /\ Release("habitat")
       \/ /\ mem.reset # 1
          /\ Goto("isWeights")
          /\ UNCHANGED <<world, app>>
    /\ UNCHANGED <<mem, listener, loc, patches, clock, gen>>

ReadHabitat ==
    /\ pc = "habitat"
    /\ loc' = [loc EXCEPT !.habitat = mem.habitat]
    /\ Goto("seed")
    /\ UNCHANGED <<mem, listener, patches, world, clock, gen, app>>

\* A seed other than 0 leaves the local variable "seed" uninitialised.
ReadSeed ==
    /\ pc = "seed"
    /\ \/ /\ mem.seed = 0
          /\ Goto("area") /\ loc' = loc
       \/ /\ mem.seed # 0
          /\ Goto("rebuild") /\ loc' = [loc EXCEPT !.seed = "garbage"]
    /\ UNCHANGED <<mem, listener, patches, world, clock, gen, app>>

ReadArea ==
    /\ pc = "area"
    /\ loc' = [loc EXCEPT !.seed = mem.area]
    /\ Goto("rebuild")
    /\ UNCHANGED <<mem, listener, patches, world, clock, gen, app>>

\* getWeights and FxWorld's init.  Seeds beyond the lattice raise an
\* NSRangeException: the pointer is left to the world released once, and
\* reset is left at 1.
Rebuild ==
    /\ pc = "rebuild"
    /\ \/ /\ loc.seed = "garbage"
          /\ Crash /\ world' = world
       \/ /\ loc.seed = "outside"
          /\ Raise /\ UNCHANGED <<world, app>>
       \/ /\ loc.seed = "fits"
          /\ world' = [InitWorld EXCEPT !.habitat = loc.habitat, !.weights = mem.weights]
          /\ Goto("resetDone") /\ app' = app
    /\ UNCHANGED <<mem, listener, loc, patches, clock, gen>>

\* resetWorld, second test.
TestWeights ==
    /\ pc = "isWeights"
    /\ Goto(IF mem.reset = 2 THEN "weights" ELSE "resetDone")
    /\ UNCHANGED <<mem, listener, loc, patches, world, clock, gen, app>>

\* A plausible slip: new weights are taken note of but not applied.
SetWeightsDropped ==
    /\ pc = "weights"
    /\ Goto("resetDone")
    /\ UNCHANGED <<mem, listener, loc, patches, world, clock, gen, app>>

SetWeights ==
    /\ pc = "weights"
    /\ Goto("resetDone")
    /\ world' = [world EXCEPT !.weights = mem.weights]
    /\ UNCHANGED <<mem, listener, loc, patches, clock, gen, app>>

ResetDone ==
    /\ pc = "resetDone"
    /\ mem' = [mem EXCEPT !.reset = 0]
    /\ Goto("cell")
    /\ UNCHANGED <<listener, loc, patches, world, clock, gen, app>>

TestCell ==
    /\ pc = "cell"
    /\ Goto(IF mem.setcell THEN "getCell" ELSE "poll")
    /\ UNCHANGED <<mem, listener, loc, patches, world, clock, gen, app>>

\* A plausible slip: the flag is left for the frame to clear when it is done.
GetCellKeepingFlag ==
    /\ pc = "getCell"
    /\ Raise
    /\ UNCHANGED <<mem, listener, loc, patches, world, clock, gen, app>>

\* getCell clears the flag.  What drawCells then addresses by x and y is a row
\* of cells, not a cell: an array has no setState:, which raises.
GetCell ==
    /\ pc = "getCell"
    /\ mem' = [mem EXCEPT !.setcell = FALSE]
    /\ Raise
    /\ UNCHANGED <<listener, loc, patches, world, clock, gen, app>>

TestPoll ==
    /\ pc = "poll"
    /\ Goto(IF mem.setpoll THEN "clearPoll" ELSE "clock")
    /\ UNCHANGED <<mem, listener, loc, patches, world, clock, gen, app>>

\* getPollIndices clears the flag, then loads the list element by element.
ClearPoll ==
    /\ pc = "clearPoll"
    /\ mem' = [mem EXCEPT !.setpoll = FALSE]
    /\ Goto("readPoll1")
    /\ UNCHANGED <<listener, loc, patches, world, clock, gen, app>>

ReadPoll1 ==
    /\ pc = "readPoll1"
    /\ loc' = [loc EXCEPT !.polls[1] = mem.poll1]
    /\ Goto("readPoll2")
    /\ UNCHANGED <<mem, listener, patches, world, clock, gen, app>>

\* A plausible slip: the flag is cleared once the list has been copied.
ReadPoll2ThenClear ==
    /\ pc = "readPoll2"
    /\ loc' = [loc EXCEPT !.polls[2] = mem.poll2]
    /\ mem' = [mem EXCEPT !.setpoll = FALSE]
    /\ world' = [world EXCEPT !.polls = loc'.polls]
    /\ Goto("clock")
    /\ UNCHANGED <<listener, patches, clock, gen, app>>

\* ... and FxWorld's setPollIndices: keeps the copy.
ReadPoll2 ==
    /\ pc = "readPoll2"
    /\ loc' = [loc EXCEPT !.polls[2] = mem.poll2]
    /\ world' = [world EXCEPT !.polls = loc'.polls]
    /\ Goto("clock")
    /\ UNCHANGED <<mem, listener, patches, clock, gen, app>>

\* A plausible slip: the rate is taken from the settings in every frame.
TickFollowingSettings ==
    /\ pc = "clock"
    /\ loc' = [loc EXCEPT !.add = mem.add]
    /\ renew' = (phase = ratio)
    /\ \/ phase = ratio /\ phase' = 0 /\ Goto("renew")
       \/ phase # ratio /\ phase' = phase /\ Goto("sweep")
    /\ ratio' = mem.frameRate
    /\ UNCHANGED <<mem, listener, patches, world, enableMessage, gen, app>>

\* add is loaded, and this frame is found to compute a generation or not.
Tick ==
    /\ pc = "clock"
    /\ loc' = [loc EXCEPT !.add = mem.add]
    /\ renew' = (phase = ratio)
    /\ \/ phase = ratio /\ phase' = 0 /\ Goto("renew")
       \/ phase # ratio /\ phase' = phase /\ Goto("sweep")
    /\ UNCHANGED <<mem, listener, patches, world, ratio, enableMessage, gen, app>>

\* Plausible slips: the rate is never taken from the settings again ...
RenewKeepingRate ==
    /\ pc = "renew"
    /\ ratio' = ratio
    /\ Goto("sweep")
    /\ UNCHANGED <<mem, listener, loc, patches, world, phase, renew, enableMessage, gen, app>>

\* ... or counts the frames between two generations.
RenewOneLess ==
    /\ pc = "renew"
    /\ ratio' = mem.frameRate - 1
    /\ Goto("sweep")
    /\ UNCHANGED <<mem, listener, loc, patches, world, phase, renew, enableMessage, gen, app>>

\* prepareNext, and the number of frames up to the next generation.
Renew ==
    /\ pc = "renew"
    /\ ratio' = mem.frameRate
    /\ Goto("sweep")
    /\ UNCHANGED <<mem, listener, loc, patches, world, phase, renew, enableMessage, gen, app>>

\* The grid patch draws from neighbours 10 and 12 of a cell, which a von Neumann
\* habitat, or a radius of 0, does not give it: the first row of cells raises.
DrawRaises == world.habitat = 1 /\ Grid \in PatchIds /\ patches[Grid][Active] # 0

Sweep ==
    /\ pc = "sweep"
    /\ \/ /\ ~DrawRaises
          /\ gen' = IF renew THEN loc.add ELSE gen
          /\ Goto("finish")
       \/ /\ DrawRaises
          /\ Raise /\ gen' = gen
    /\ UNCHANGED <<mem, listener, loc, patches, world, clock, app>>

\* A plausible slip: the phase starts over before the frame that tests it.
FinishWrapping ==
    /\ pc = "finish"
    /\ enableMessage' = ~enableMessage
    /\ phase' = (phase + 1) % ratio
    /\ app' = IF mem.done = 1 THEN "terminated" ELSE app
    /\ Goto("idle")
    /\ UNCHANGED <<mem, listener, loc, patches, world, ratio, renew, gen>>

\* The end of drawCells, and the test of "done" in main.m's update:.
Finish ==
    /\ pc = "finish"
    /\ enableMessage' = ~enableMessage
    /\ phase' = phase + 1
    /\ app' = IF mem.done = 1 THEN "terminated" ELSE app
    /\ Goto("idle")
    /\ UNCHANGED <<mem, listener, loc, patches, world, ratio, renew, gen>>

SetPatch   == TestPatch \/ TestCmd \/ SetAttribute
ResetWorld == ReleaseWorld \/ ReadHabitat \/ ReadSeed \/ ReadArea \/ Rebuild
                \/ TestWeights \/ SetWeights \/ ResetDone
SetCell    == TestCell \/ GetCell
SetPoll    == TestPoll \/ ClearPoll \/ ReadPoll1 \/ ReadPoll2
Generation == Tick \/ Renew \/ Sweep \/ Finish
MainThread == TimerFires \/ SetPatch \/ TestReset \/ ResetWorld \/ SetCell \/ SetPoll \/ Generation

----------------------------------------------------------------------------
(***************************************************************************)
(* History.  whole[k] says that the two threads kept out of each other's   *)
(* way on mailbox k:                                                       *)
(*   world: since the last world command began to be stored, the main      *)
(*          thread has not been inside resetWorld during a store;          *)
(*   poll:  it has not cleared or copied the list during the last stores   *)
(*          (the stores may come between two of its steps);                *)
(*   patch: it has never been inside setPatch while a patch command was    *)
(*          being stored.                                                  *)
(***************************************************************************)
Busy(k) == msg.kind = k /\ unstored # {}

InSetPatch   == pc \in {"patch", "cmd", "value"}
InResetWorld == pc \in {"isReset", "habitat", "seed", "area", "rebuild",
                        "isWeights", "weights", "resetDone"}
InGetPoll    == pc \in {"clearPoll", "readPoll1", "readPoll2"}

Starts(k) == received' # received /\ msg'.kind = k

Watch == whole' =
    [world |-> (whole.world \/ Starts("world")) /\ ~(Busy("world") /\ InResetWorld)',
     poll  |-> (whole.poll \/ Starts("poll"))
                  /\ ~(Busy("poll") /\ InGetPoll /\ pc' # pc),
     patch |-> whole.patch /\ ~(Busy("patch") /\ InSetPatch)']

\* The process has ended, or its behaviour is undefined: nothing more is said.
Stopped == app # "running" /\ UNCHANGED vars

Next == \/ app = "running" /\ (ServerThread \/ MainThread) /\ Watch
        \/ Stopped

\* The timer repeats and both threads are scheduled; no message has to come.
Fairness == /\ WF_vars(app = "running" /\ MainThread /\ Watch)
            /\ WF_vars(app = "running" /\ (\E g \in unstored : HandlerStore(g)) /\ Watch)

Spec     == Init /\ [][Next]_vars
FairSpec == Spec /\ Fairness

----------------------------------------------------------------------------
(* Properties *)

TypeOK ==
    /\ mem.frameRate \in Nat \ {0}
    /\ mem.setcell \in BOOLEAN /\ mem.setpoll \in BOOLEAN
    /\ mem.reset \in 0 .. 2 /\ mem.done \in 0 .. 1
    /\ received \in 0 .. MaxMessages
    /\ unstored # {} => unstored \subseteq Stores(msg.kind)
    /\ at \in 0 .. (NPatches + NCmds)
    /\ loc.p \in PatchIds \cup {Garbage}
    /\ phase \in Nat /\ ratio \in Nat \ {0}
    /\ renew \in BOOLEAN /\ enableMessage \in BOOLEAN
    /\ world.refs \in 0 .. 2 /\ world.habitat \in 0 .. 1
    /\ app \in {"running", "terminated", "undefined"}
    /\ pc \in {"idle", "patch", "cmd", "value", "reset", "isReset", "habitat", "seed",
              "area", "rebuild", "isWeights", "weights", "resetDone", "cell", "getCell",
              "poll", "clearPoll", "readPoll1", "readPoll2", "clock", "renew", "sweep",
              "finish"}

\* drawCells starts a generation when phase == frameRateRatio, an equality:
\* once phase had passed the ratio, the automaton would stand still for good.
\* It never does, whatever rates arrive and wherever a frame is cut short.
PhaseInStep ==
    /\ phase <= ratio
    /\ pc \in {"sweep", "finish"} => phase < ratio

\* A world command (reset or new weights) that was stored while the main
\* thread was not inside resetWorld takes effect: its request is not cleared
\* by resetDone with other weights in force than the ones it brought.
ResetTaken ==
    app = "running" /\ whole.world /\ ~Busy("world") /\ mem.reset = 0
        => world.weights = mem.weights

\* getPollIndices clears its flag before it copies the list: of a list that
\* was stored between two steps of the frame the world ends up with a whole
\* copy, though the frame may have been in the middle of copying an older one.
PollTaken ==
    app = "running" /\ whole.poll /\ ~Busy("poll") /\ ~mem.setpoll /\ ~InGetPoll
        => loc.polls = <<mem.poll1, mem.poll2>>

\* setPatch applies what three separate globals hold.  Unless it ran while a
\* patch command was being stored, an attribute only ever gets a value that
\* some command asked for it (at first the globals ask for nothing: 0, 0, 0).
PatchAsAsked ==
    whole.patch =>
        \A p \in PatchIds, c \in CmdIds :
            patches[p][c] # 0 =>
                \E m \in Messages : /\ m.kind = "patch"
                                    /\ m.patch = p /\ m.cmd = c /\ m.value = patches[p][c]

\* The world the frame draws is deallocated under it, or a pointer is used that
\* was never set, for two reasons only: a reset that could not be honoured
\* (random seeds, seeds beyond the lattice), or a patch number that setPatch
\* found in none of its tests, because no patch has it or because it changed
\* between the tests.  Any number of other resets and changes of weights, in
\* any frame, leave the retain count of the world in force where it was.
UndefinedExplained ==
    app = "undefined" =>
        \/ loc.seed # "fits"
        \/ loc.p = Garbage /\ (~whole.patch \/ mem.patch \notin PatchIds)

\* The grid patch on a von Neumann world cuts every frame short; liveness is
\* promised if that state of affairs does not come back for ever.
DrawingRecovers == <>[]~DrawRaises

\* quit_handler's flag is read at the very end of a frame; the application
\* terminates although cell commands make frames end early.
QuitTerminates == DrawingRecovers => (mem.done = 1 ~> app # "running")

\* The automaton goes on for ever: a frame that computes a generation always
\* comes again, whatever the frame rate was set to and when.
GenerationsGoOn == DrawingRecovers => []<>(pc = "renew" \/ app # "running")

\* When no more settings come, the last ones end up in force: generations are
\* computed with the last add, and spaced by the last frame rate.
SettingsTakeEffect ==
    DrawingRecovers =>
        <>[](app # "running" \/ (gen = mem.add /\ ratio = mem.frameRate))

\* The comment on the global says that 1 asks for the world to be reset and 2
\* for the weights to be changed.  When resetDone withdraws a request all of whose
\* globals have been stored by then, the world should have the weights it asked
\* for: also if the request was seen, as its first store, before the others were.
RequestWithdrawnWasServed ==
    pc = "resetDone" /\ ~Busy("world") => world.weights = mem.weights
=============================================================================
