-------------------------- MODULE FxControlProofs --------------------------
(***************************************************************************)
(* What FxControl promises for every value of its constants.               *)
(***************************************************************************)
EXTENDS FxControl, TLAPS

----------------------------------------------------------------------------
(* The clock of the automaton: phase never passes the ratio. *)

\* The rate in memory is positive: it is the first one or came in a settings
\* message, and only the handler of such a message stores it.
RateOK ==
    /\ "frameRate" \in DOMAIN mem
    /\ mem.frameRate \in Nat \ {0}
    /\ "frameRate" \in unstored => msg \in Messages /\ msg.kind = "settings"

\* A generation that is due has already put phase back to 0 when the new
\* ratio is loaded; that is what keeps the order of the two from mattering.
ClockOK ==
    /\ phase \in Nat
    /\ ratio \in Nat \ {0}
    /\ pc = "renew" => phase = 0
    /\ PhaseInStep

ClockInv == RateOK /\ ClockOK

LEMMA ClockInit == Init => ClockInv
  BY DEF Init, InitMem, ClockInv, RateOK, ClockOK, PhaseInStep, FirstRate

\* Only a settings message has a frame rate to store.
LEMMA OnlySettingsStoreRate ==
  ASSUME NEW m \in Messages, "frameRate" \in Stores(m.kind)
  PROVE  m.kind = "settings"
  BY MessagesAssumption DEF Stores, Kinds, SettingStores, CellStores, PatchStores,
     ResetStores, PollStores, QuitStores

LEMMA ClockListener == ClockInv /\ ServerThread => ClockInv'
<1> SUFFICES ASSUME ClockInv, ServerThread PROVE ClockInv'
  OBVIOUS
<1> USE DEF ClockInv
<1>1. CASE Receive
  <2>1. PICK m \in Messages : msg' = m /\ unstored' = Stores(m.kind)
    BY <1>1 DEF Receive
  <2>2. "frameRate" \in unstored' => msg' \in Messages /\ msg'.kind = "settings"
    BY <2>1, OnlySettingsStoreRate
  <2>3. RateOK'
    BY <1>1, <2>2 DEF Receive, RateOK
  <2>4. ClockOK'
    BY <1>1 DEF Receive, ClockOK, PhaseInStep, clock
  <2> QED BY <2>3, <2>4
<1>2. ASSUME NEW g \in unstored, HandlerStore(g) PROVE ClockInv'
  <2>1. "frameRate" \in DOMAIN mem' /\ mem'.frameRate \in Nat \ {0}
    <3>1. CASE g = "frameRate"
      <4>1. msg.frameRate \in Nat \ {0}
        BY <3>1, <1>2, MessagesAssumption DEF RateOK
      <4>2. mem' = [mem EXCEPT !["frameRate"] = msg.frameRate]
        BY <3>1, <1>2 DEF HandlerStore
      <4> QED BY <4>1, <4>2 DEF RateOK
    <3>2. CASE g # "frameRate"
      BY <3>2, <1>2 DEF HandlerStore, RateOK
    <3> QED BY <3>1, <3>2
  <2>2. RateOK'
    BY <2>1, <1>2 DEF HandlerStore, RateOK
  <2>3. ClockOK'
    BY <1>2 DEF HandlerStore, ClockOK, PhaseInStep, clock
  <2> QED BY <2>2, <2>3
<1> QED BY <1>1, <1>2 DEF ServerThread

\* The main thread clears flags in memory but never stores a rate.
LEMMA MainKeepsRate == RateOK /\ MainThread => RateOK'
<1> SUFFICES ASSUME RateOK, MainThread PROVE RateOK'
  OBVIOUS
<1>1. unstored' = unstored /\ msg' = msg
  BY DEF MainThread, SetPatch, ResetWorld, SetCell, SetPoll, Generation, TimerFires,
     TestPatch, TestCmd, SetAttribute, TestReset, ReleaseWorld, ReadHabitat, ReadSeed,
     ReadArea, Rebuild, TestWeights, SetWeights, ResetDone, TestCell, GetCell, TestPoll,
     ClearPoll, ReadPoll1, ReadPoll2, Tick, Renew, Sweep, Finish, listener
<1>2. "frameRate" \in DOMAIN mem' /\ mem'.frameRate = mem.frameRate
  <2>1. CASE ResetDone \/ GetCell \/ ClearPoll
    BY <2>1 DEF ResetDone, GetCell, ClearPoll, RateOK
  <2>2. CASE ~(ResetDone \/ GetCell \/ ClearPoll)
    BY <2>2 DEF RateOK, MainThread, SetPatch, ResetWorld, SetCell, SetPoll, Generation,
       TimerFires, TestPatch, TestCmd, SetAttribute, TestReset, ReleaseWorld, ReadHabitat,
       ReadSeed, ReadArea, Rebuild, TestWeights, SetWeights, TestCell, TestPoll, ReadPoll1,
       ReadPoll2, Tick, Renew, Sweep, Finish
  <2> QED BY <2>1, <2>2
<1> QED BY <1>1, <1>2 DEF RateOK

LEMMA MainKeepsClock == ClockInv /\ MainThread => ClockOK'
<1> SUFFICES ASSUME ClockInv, MainThread PROVE ClockOK'
  OBVIOUS
<1> USE DEF ClockInv, ClockOK, PhaseInStep, Goto, Release, Crash, Raise
<1>1. CASE TimerFires \/ SetPatch
  BY <1>1 DEF TimerFires, SetPatch, TestPatch, TestCmd, SetAttribute, clock
<1>2. CASE TestReset \/ ReleaseWorld \/ ReadHabitat \/ ReadSeed \/ ReadArea
  BY <1>2 DEF TestReset, ReleaseWorld, ReadHabitat, ReadSeed, ReadArea, clock
<1>3. CASE Rebuild \/ TestWeights \/ SetWeights \/ ResetDone
  BY <1>3 DEF Rebuild, TestWeights, SetWeights, ResetDone, clock
<1>4. CASE SetCell
  BY <1>4 DEF SetCell, TestCell, GetCell, clock
<1>5. CASE SetPoll
  BY <1>5 DEF SetPoll, TestPoll, ClearPoll, ReadPoll1, ReadPoll2, clock
<1>6. CASE Tick
  BY <1>6 DEF Tick
<1>7. CASE Renew
  BY <1>7 DEF Renew, RateOK
<1>8. CASE Sweep
  BY <1>8 DEF Sweep, clock
<1>9. CASE Finish
  BY <1>9 DEF Finish
<1> QED
  BY <1>1, <1>2, <1>3, <1>4, <1>5, <1>6, <1>7, <1>8, <1>9
  DEF MainThread, ResetWorld, Generation

\* Every step keeps the clock in order.
LEMMA ClockNext == ClockInv /\ [Next]_vars => ClockInv'
<1> SUFFICES ASSUME ClockInv, [Next]_vars PROVE ClockInv'
  OBVIOUS
<1>1. CASE ServerThread
  BY <1>1, ClockListener
<1>2. CASE MainThread
  BY <1>2, MainKeepsRate, MainKeepsClock DEF ClockInv
<1>3. CASE UNCHANGED vars
  BY <1>3 DEF vars, listener, clock, ClockInv, RateOK, ClockOK, PhaseInStep
<1> QED BY <1>1, <1>2, <1>3 DEF Next, Stopped

\* drawCells tests phase == frameRateRatio (FxView.m): phase never passes the
\* ratio, for any number of messages with any positive rates, stored in any
\* order between any two loads of the frame.
THEOREM ClockNeverOverruns == Spec => []PhaseInStep
<1>1. ClockInv => PhaseInStep
  BY DEF ClockInv, ClockOK
<1> QED BY ClockInit, ClockNext, <1>1, PTL DEF Spec

----------------------------------------------------------------------------
(* The world's retain count, and setPatch's pointer *)

Building == {"habitat", "seed", "area", "rebuild"}

\* The retain count of the world in force is 2, except while a new one is being
\* built, or after that has failed.
WorldOK ==
    /\ "refs" \in DOMAIN world /\ "seed" \in DOMAIN loc
    /\ world.refs \in {1, 2}
    /\ world.refs = 2 \/ pc \in Building \/ loc.seed # "fits"

\* Unless a patch command was being stored, the tests of setPatch that failed
\* would still fail, and its pointer is unset only if all of them do.
PointerOK ==
    /\ "patch" \in DOMAIN mem /\ "p" \in DOMAIN loc
    /\ "patch" \in unstored => msg.kind = "patch"
    /\ whole.patch => ~(Busy("patch") /\ InSetPatch)
    /\ pc = "patch" => at \in 0 .. NPatches
    /\ whole.patch /\ pc = "patch" => \A p \in PatchIds : p < at => mem.patch # p
    /\ whole.patch /\ pc \in {"cmd", "value"} /\ loc.p = Garbage => mem.patch \notin PatchIds

CauseInv == UndefinedExplained /\ (app = "running" => WorldOK /\ PointerOK)

LEMMA CauseInit == Init => CauseInv
  BY DEF Init, InitMem, InitWorld, CauseInv, WorldOK, PointerOK, UndefinedExplained, Busy,
     InSetPatch

\* Only a patch message has a patch number to store.
LEMMA OnlyPatchStoresPatch ==
  ASSUME NEW m \in Messages, "patch" \in Stores(m.kind)
  PROVE  m.kind = "patch"
  BY MessagesAssumption DEF Stores, Kinds, SettingStores, CellStores, PatchStores,
     ResetStores, PollStores, QuitStores

\* The history of setPatch only ever falls, and does so when the two threads meet.
LEMMA WatchPatch ==
  ASSUME Watch, whole'.patch
  PROVE  whole.patch /\ ~(Busy("patch")' /\ InSetPatch')
  BY DEF Watch

\* The server thread may store a patch number under setPatch, but not unnoticed.
LEMMA CauseListener ==
  ASSUME WorldOK, PointerOK, ServerThread, Watch
  PROVE  app' = app /\ WorldOK' /\ PointerOK'
<1>1. CASE Receive
  <2>1. PICK m \in Messages : msg' = m /\ unstored' = Stores(m.kind)
    BY <1>1 DEF Receive
  <2>2. "patch" \in unstored' => msg'.kind = "patch"
    BY <2>1, OnlyPatchStoresPatch
  <2>3. WorldOK' /\ app' = app
    BY <1>1 DEF Receive, WorldOK
  <2>4. PointerOK'
    BY <1>1, <2>2, WatchPatch DEF Receive, PointerOK
  <2> QED BY <2>3, <2>4
<1>2. ASSUME NEW g \in unstored, HandlerStore(g)
      PROVE  app' = app /\ WorldOK' /\ PointerOK'
  <2>1. WorldOK' /\ app' = app
    BY <1>2 DEF HandlerStore, WorldOK
  <2>2. CASE g = "patch"
    <3>1. Busy("patch")
      BY <1>2, <2>2 DEF Busy, PointerOK
    <3>2. whole.patch => pc \notin {"patch", "cmd", "value"}
      BY <3>1 DEF PointerOK, InSetPatch
    <3>3. pc' = pc /\ loc' = loc /\ msg' = msg /\ unstored' \subseteq unstored
      BY <1>2 DEF HandlerStore
    <3>4. "patch" \in DOMAIN mem' /\ "p" \in DOMAIN loc'
      <4>1. mem' = [mem EXCEPT ![g] = msg[g]]
        BY <1>2 DEF HandlerStore
      <4>2. DOMAIN mem' = DOMAIN mem
        BY <4>1
      <4> QED BY <3>3, <4>2 DEF PointerOK
    <3>5. at' = at /\ ("patch" \in unstored' => msg'.kind = "patch")
      BY <1>2, <3>3 DEF HandlerStore, PointerOK
    <3>6. whole'.patch => whole.patch /\ ~(Busy("patch")' /\ InSetPatch')
      BY WatchPatch
    <3> QED BY <2>1, <3>2, <3>3, <3>4, <3>5, <3>6 DEF PointerOK
  <2>3. CASE g # "patch"
    <3>1. mem'.patch = mem.patch /\ "patch" \in DOMAIN mem'
      BY <1>2, <2>3 DEF HandlerStore, PointerOK
    <3> QED BY <1>2, <2>1, <3>1, WatchPatch DEF HandlerStore, PointerOK, InSetPatch, Busy
  <2> QED BY <2>1, <2>2, <2>3
<1> QED BY <1>1, <1>2 DEF ServerThread

\* The main thread leaves the patch number, and what is still to be stored, alone.
LEMMA MainKeepsPatch ==
  ASSUME PointerOK, MainThread
  PROVE  /\ msg' = msg /\ unstored' = unstored
         /\ mem'.patch = mem.patch /\ "patch" \in DOMAIN mem'
<1>1. unstored' = unstored /\ msg' = msg
  BY DEF MainThread, SetPatch, ResetWorld, SetCell, SetPoll, Generation, TimerFires,
     TestPatch, TestCmd, SetAttribute, TestReset, ReleaseWorld, ReadHabitat, ReadSeed,
     ReadArea, Rebuild, TestWeights, SetWeights, ResetDone, TestCell, GetCell, TestPoll,
     ClearPoll, ReadPoll1, ReadPoll2, Tick, Renew, Sweep, Finish, listener
<1>2. CASE ResetDone \/ GetCell \/ ClearPoll
  BY <1>1, <1>2 DEF ResetDone, GetCell, ClearPoll, PointerOK
<1>3. CASE ~(ResetDone \/ GetCell \/ ClearPoll)
  BY <1>1, <1>3 DEF PointerOK, MainThread, SetPatch, ResetWorld, SetCell, SetPoll, Generation,
     TimerFires, TestPatch, TestCmd, SetAttribute, TestReset, ReleaseWorld, ReadHabitat,
     ReadSeed, ReadArea, Rebuild, TestWeights, SetWeights, TestCell, TestPoll, ReadPoll1,
     ReadPoll2, Tick, Renew, Sweep, Finish
<1> QED BY <1>2, <1>3

\* The world is lost only to a reset that follows one that failed.
LEMMA MainKeepsWorld ==
  ASSUME WorldOK, app = "running", MainThread
  PROVE  /\ app' = "undefined" => loc'.seed # "fits" \/ (SetAttribute /\ loc.p = Garbage)
         /\ app' = "running" => WorldOK'
<1> USE DEF WorldOK, Building, Goto, Raise, Crash
<1>1. CASE ReleaseWorld
  BY <1>1 DEF ReleaseWorld, Release
<1>2. CASE ReadHabitat \/ ReadSeed \/ ReadArea
  BY <1>2 DEF ReadHabitat, ReadSeed, ReadArea
<1>3. CASE Rebuild
  BY <1>3 DEF Rebuild, InitWorld
<1>4. CASE SetAttribute
  BY <1>4 DEF SetAttribute
<1>5. CASE SetWeights \/ ReadPoll1 \/ ReadPoll2 \/ TestPatch \/ Tick
  BY <1>5 DEF SetWeights, ReadPoll1, ReadPoll2, TestPatch, Tick
<1>6. CASE Finish
  BY <1>6 DEF Finish
<1>7. CASE TimerFires \/ TestCmd \/ TestReset \/ TestWeights \/ ResetDone
  BY <1>7 DEF TimerFires, TestCmd, TestReset, TestWeights, ResetDone
<1>8. CASE TestCell \/ GetCell \/ TestPoll \/ ClearPoll \/ Renew \/ Sweep
  BY <1>8 DEF TestCell, GetCell, TestPoll, ClearPoll, Renew, Sweep
<1> QED
  BY <1>1, <1>2, <1>3, <1>4, <1>5, <1>6, <1>7, <1>8
  DEF MainThread, SetPatch, ResetWorld, SetCell, SetPoll, Generation

\* setPatch finds no patch only if the number is none of a patch.
LEMMA MainKeepsPointer ==
  ASSUME PointerOK, MainThread, Watch
  PROVE  PointerOK'
<1> USE DEF PointerOK
<1>1. whole'.patch => whole.patch /\ ~(Busy("patch")' /\ InSetPatch')
  BY WatchPatch
<1>2. /\ msg' = msg /\ unstored' = unstored
      /\ mem'.patch = mem.patch /\ "patch" \in DOMAIN mem'
  BY MainKeepsPatch
<1>3. "p" \in DOMAIN loc'
  BY DEF MainThread, SetPatch, ResetWorld, SetCell, SetPoll, Generation, TimerFires,
     TestPatch, TestCmd, SetAttribute, TestReset, ReleaseWorld, ReadHabitat, ReadSeed,
     ReadArea, Rebuild, TestWeights, SetWeights, ResetDone, TestCell, GetCell, TestPoll,
     ClearPoll, ReadPoll1, ReadPoll2, Tick, Renew, Sweep, Finish
<1>4. CASE TimerFires
  BY <1>1, <1>2, <1>3, <1>4, MessagesAssumption DEF TimerFires, Goto, PatchIds
<1>5. CASE TestPatch
  <2>1. CASE at \in PatchIds /\ mem.patch # at /\ pc' = pc /\ at' = at + 1 /\ loc' = loc
    BY <1>1, <1>2, <1>3, <1>5, <2>1, MessagesAssumption DEF TestPatch, PatchIds
  <2>2. CASE at \in PatchIds /\ loc' = [loc EXCEPT !.p = at] /\ Goto("cmd")
    BY <1>1, <1>2, <1>3, <2>2, MessagesAssumption DEF PatchIds, Garbage, Goto
  <2>3. CASE at \notin PatchIds /\ loc' = [loc EXCEPT !.p = Garbage] /\ Goto("cmd")
    <3>1. at = NPatches
      BY <1>5, <2>3, MessagesAssumption DEF TestPatch, PatchIds
    <3>2. whole'.patch => mem.patch \notin PatchIds
      BY <1>1, <1>5, <3>1, MessagesAssumption DEF TestPatch, PatchIds
    <3> QED BY <1>1, <1>2, <1>3, <2>3, <3>2 DEF Goto
  <2> QED BY <1>5, <2>1, <2>2, <2>3 DEF TestPatch
<1>6. CASE TestCmd
  BY <1>1, <1>2, <1>3, <1>6 DEF TestCmd, Goto
<1>7. CASE ~(TimerFires \/ TestPatch \/ TestCmd)
  <2>1. pc' \notin {"patch", "cmd", "value"}
    BY <1>7 DEF MainThread, SetPatch, ResetWorld, SetCell, SetPoll, Generation, Goto, Raise,
       Crash, Release, SetAttribute, TestReset, ReleaseWorld, ReadHabitat, ReadSeed,
       ReadArea, Rebuild, TestWeights, SetWeights, ResetDone, TestCell, GetCell, TestPoll,
       ClearPoll, ReadPoll1, ReadPoll2, Tick, Renew, Sweep, Finish
  <2> QED BY <1>1, <1>2, <1>3, <2>1
<1> QED BY <1>4, <1>5, <1>6, <1>7

\* Every step that is not explained leaves the process running.
LEMMA CauseNext == CauseInv /\ [Next]_vars => CauseInv'
<1> SUFFICES ASSUME CauseInv, [Next]_vars PROVE CauseInv'
  OBVIOUS
<1>1. CASE app = "running" /\ ServerThread /\ Watch
  <2>1. app' = app /\ WorldOK' /\ PointerOK'
    BY <1>1, CauseListener DEF CauseInv
  <2> QED BY <1>1, <2>1 DEF CauseInv, UndefinedExplained
<1>2. CASE app = "running" /\ MainThread /\ Watch
  <2>1. PointerOK'
    BY <1>2, MainKeepsPointer DEF CauseInv
  <2>2. app' = "running" => WorldOK'
    BY <1>2, MainKeepsWorld DEF CauseInv
  <2>3. CASE app' = "undefined" /\ loc'.seed # "fits"
    BY <2>3 DEF CauseInv, UndefinedExplained
  <2>4. CASE app' = "undefined" /\ SetAttribute /\ loc.p = Garbage
    <3>1. loc' = loc /\ mem' = mem /\ pc = "value"
      BY <2>4 DEF SetAttribute
    <3>2. whole'.patch => mem'.patch \notin PatchIds
      BY <1>2, <2>4, <3>1, WatchPatch DEF CauseInv, PointerOK
    <3> QED BY <2>4, <3>1, <3>2 DEF CauseInv, UndefinedExplained
  <2>5. app' = "undefined" => loc'.seed # "fits" \/ (SetAttribute /\ loc.p = Garbage)
    BY <1>2, MainKeepsWorld DEF CauseInv
  <2>6. CASE app' # "undefined"
    BY <2>1, <2>2, <2>6 DEF CauseInv, UndefinedExplained
  <2> QED BY <2>3, <2>4, <2>5, <2>6
<1>3. CASE UNCHANGED vars
  BY <1>3 DEF vars, listener, clock, CauseInv, UndefinedExplained, WorldOK, PointerOK, Busy,
     InSetPatch
<1> QED BY <1>1, <1>2, <1>3 DEF Next, Stopped

\* The retain count of the world and setPatch's pointer (FxView.m, FxOSC.m):
\* undefined behaviour has a cause, for any number of any messages.
THEOREM UndefinedHasACause == Spec => []UndefinedExplained
<1>1. CauseInv => UndefinedExplained
  BY DEF CauseInv
<1> QED BY CauseInit, CauseNext, <1>1, PTL DEF Spec

----------------------------------------------------------------------------
(***************************************************************************)
(* The mailboxes between the two threads: any messages, any number of      *)
(* them, any number of patches.                                            *)
(***************************************************************************)
Globals == {"patch", "cmd", "value", "reset", "weights", "setpoll", "poll1", "poll2"}

\* The types the mailboxes need.
Mailed ==
    /\ Globals \subseteq DOMAIN mem
    /\ mem.reset \in 0 .. 2
    /\ unstored # {} => msg \in Messages /\ unstored \subseteq Stores(msg.kind)
    /\ "weights" \in DOMAIN world
    /\ {"p", "polls"} \subseteq DOMAIN loc /\ loc.polls = <<loc.polls[1], loc.polls[2]>>

\* Every mailbox is stored by the handler of one kind of message.
LEMMA OneKindStores ==
    ASSUME NEW m \in Messages, NEW g \in Stores(m.kind)
    PROVE  /\ g \in ResetStores => m.kind = "world"
           /\ g \in PollStores => m.kind = "poll"
           /\ g \in PatchStores => m.kind = "patch"
  BY MessagesAssumption DEF Stores, Kinds, SettingStores, CellStores, PatchStores,
     ResetStores, PollStores, QuitStores

\* One store changes one global.
LEMMA StoresOne ==
    ASSUME Mailed, NEW g \in unstored, HandlerStore(g)
    PROVE  /\ \A h \in Globals : mem'[h] = IF h = g THEN msg[g] ELSE mem[h]
           /\ Globals \subseteq DOMAIN mem'
           /\ msg' = msg /\ unstored' = unstored \ {g}
           /\ msg \in Messages /\ g \in Stores(msg.kind)
  BY DEF Mailed, HandlerStore

\* The main thread withdraws requests and clears flags; it stores nothing else.
LEMMA MainMem ==
    ASSUME Mailed, MainThread
    PROVE  /\ msg' = msg /\ unstored' = unstored
           /\ Globals \subseteq DOMAIN mem'
           /\ \A h \in Globals \ {"reset", "setpoll"} : mem'[h] = mem[h]
           /\ ~ResetDone => mem'.reset = mem.reset
           /\ ResetDone => mem'.reset = 0
           /\ ~ClearPoll => mem'.setpoll = mem.setpoll
<1> USE DEF Mailed, Globals
<1>1. CASE ResetDone
  BY <1>1 DEF ResetDone, ClearPoll, listener
<1>2. CASE GetCell \/ ClearPoll
  BY <1>2 DEF GetCell, ClearPoll, ResetDone, listener
<1>3. CASE ~(ResetDone \/ GetCell \/ ClearPoll)
  BY <1>3 DEF MainThread, SetPatch, ResetWorld, SetCell, SetPoll, Generation, TimerFires,
     TestPatch, TestCmd, SetAttribute, TestReset, ReleaseWorld, ReadHabitat, ReadSeed,
     ReadArea, Rebuild, TestWeights, SetWeights, TestCell, TestPoll, ReadPoll1, ReadPoll2,
     Tick, Renew, Sweep, Finish, listener
<1> QED BY <1>1, <1>2, <1>3

LEMMA MailedInit == Init => Mailed
  BY DEF Init, InitMem, InitWorld, Mailed, Globals

LEMMA MailedNext == Mailed /\ [Next]_vars => Mailed'
<1> SUFFICES ASSUME Mailed, [Next]_vars PROVE Mailed'
  OBVIOUS
<1>1. CASE Receive
  BY <1>1 DEF Receive, Mailed
<1>2. ASSUME NEW g \in unstored, HandlerStore(g) PROVE Mailed'
  <2>1. mem'.reset \in 0 .. 2
    <3>1. g = "reset" => msg.reset \in {1, 2}
      BY <1>2, StoresOne, OneKindStores, MessagesAssumption DEF ResetStores
    <3> QED BY <1>2, <3>1, StoresOne DEF Mailed, Globals
  <2>2. world' = world /\ loc' = loc
    BY <1>2 DEF HandlerStore
  <2> QED BY <1>2, <2>1, <2>2, StoresOne DEF Mailed
<1>3. CASE MainThread
  <2>1. mem'.reset \in 0 .. 2 /\ Globals \subseteq DOMAIN mem'
    BY <1>3, MainMem DEF Mailed
  <2>2. unstored' # {} => msg' \in Messages /\ unstored' \subseteq Stores(msg'.kind)
    BY <1>3, MainMem DEF Mailed
  <2>3. "weights" \in DOMAIN world'
    BY <1>3 DEF Mailed, InitWorld, MainThread, SetPatch, ResetWorld, SetCell, SetPoll,
       Generation, TimerFires, TestPatch, TestCmd, SetAttribute, TestReset, ReleaseWorld,
       Release, ReadHabitat, ReadSeed, ReadArea, Rebuild, TestWeights, SetWeights, ResetDone,
       TestCell, GetCell, TestPoll, ClearPoll, ReadPoll1, ReadPoll2, Tick, Renew, Sweep, Finish
  <2>4. {"p", "polls"} \subseteq DOMAIN loc' /\ loc'.polls = <<loc'.polls[1], loc'.polls[2]>>
    BY <1>3 DEF Mailed, MainThread, SetPatch, ResetWorld, SetCell, SetPoll,
       Generation, TimerFires, TestPatch, TestCmd, SetAttribute, TestReset, ReleaseWorld,
       Release, ReadHabitat, ReadSeed, ReadArea, Rebuild, TestWeights, SetWeights, ResetDone,
       TestCell, GetCell, TestPoll, ClearPoll, ReadPoll1, ReadPoll2, Tick, Renew, Sweep, Finish
  <2> QED BY <2>1, <2>2, <2>3, <2>4 DEF Mailed
<1>4. CASE UNCHANGED vars
  BY <1>4 DEF Mailed, vars, listener
<1> QED BY <1>1, <1>2, <1>3, <1>4 DEF Next, ServerThread, Stopped

----------------------------------------------------------------------------
(* World commands *)

\* While a command is being stored the main thread keeps out, or its history
\* is no longer whole; what it finds afterwards is a request that is not
\* withdrawn before the weights it came with are in force.
ResetOK ==
    /\ Busy("world") => ~InResetWorld /\ ("reset" \in unstored \/ mem.reset # 0)
    /\ ~Busy("world") =>
         /\ mem.reset = 0 => world.weights = mem.weights
         /\ InResetWorld => mem.reset # 0
         /\ pc = "isWeights" => mem.reset = 2
         /\ pc = "resetDone" => world.weights = mem.weights

ResetInv == app = "running" /\ whole.world => ResetOK

LEMMA ResetServer ==
    ASSUME Mailed, ResetInv, app = "running", ServerThread, Watch
    PROVE  ResetInv'
<1> SUFFICES ASSUME whole'.world PROVE ResetOK'
  BY DEF ResetInv
<1>1. /\ whole.world \/ Starts("world")
      /\ ~(Busy("world")' /\ InResetWorld')
  BY DEF Watch
<1>2. CASE Receive
  <2>1. PICK m \in Messages : msg' = m /\ unstored' = Stores(m.kind)
    BY <1>2 DEF Receive
  <2>2. unstored = {} /\ UNCHANGED <<mem, pc, world>>
    BY <1>2 DEF Receive
  <2>3. CASE m.kind = "world"
    <3>1. Busy("world")' /\ "reset" \in unstored'
      BY <2>1, <2>3 DEF Busy, Stores, ResetStores
    <3> QED BY <1>1, <3>1 DEF ResetOK
  <2>4. CASE m.kind # "world"
    <3>1. ~Busy("world")' /\ ~Busy("world") /\ whole.world
      BY <1>1, <2>1, <2>2, <2>4 DEF Busy, Starts
    <3> QED BY <2>2, <3>1 DEF ResetInv, ResetOK, InResetWorld
  <2> QED BY <2>3, <2>4
<1>3. ASSUME NEW g \in unstored, HandlerStore(g) PROVE ResetOK'
  <2>1. whole.world /\ UNCHANGED <<pc, world, received>>
    BY <1>1, <1>3 DEF HandlerStore, Starts
  <2>2. ResetOK
    BY <2>1 DEF ResetInv
  <2>3. CASE msg.kind = "world"
    <3>1. Busy("world")
      BY <2>3 DEF Busy
    <3>2. "reset" \in unstored' \/ mem'.reset # 0
      <4>1. g = "reset" => msg.reset \in {1, 2}
        BY <1>3, <2>3, StoresOne, MessagesAssumption
      <4> QED BY <1>3, <2>2, <3>1, <4>1, StoresOne DEF ResetOK, Globals
    <3>3. ~InResetWorld'
      BY <2>1, <2>2, <3>1 DEF ResetOK, InResetWorld
    <3>4. ~Busy("world")' => mem'.reset # 0
      BY <1>3, <2>3, <3>2, StoresOne DEF Busy
    <3> QED BY <3>2, <3>3, <3>4 DEF ResetOK, InResetWorld
  <2>4. CASE msg.kind # "world"
    <3>1. g \notin ResetStores
      BY <1>3, <2>4, StoresOne, OneKindStores
    <3>2. mem'.reset = mem.reset /\ mem'.weights = mem.weights
      BY <1>3, <3>1, StoresOne DEF ResetStores, Globals
    <3>3. ~Busy("world") /\ ~Busy("world")'
      BY <1>3, <2>4, StoresOne DEF Busy
    <3> QED BY <2>1, <2>2, <3>2, <3>3 DEF ResetOK, InResetWorld
  <2> QED BY <2>3, <2>4
<1> QED BY <1>2, <1>3 DEF ServerThread

LEMMA ResetMain ==
    ASSUME Mailed, ResetInv, app = "running", MainThread, Watch
    PROVE  ResetInv'
<1> SUFFICES ASSUME app' = "running", whole'.world PROVE ResetOK'
  BY DEF ResetInv
<1>1. msg' = msg /\ unstored' = unstored /\ (Busy("world")' <=> Busy("world"))
  BY MainMem DEF Busy
<1>2. received' = received
  BY DEF MainThread, SetPatch, ResetWorld, SetCell, SetPoll, Generation, TimerFires,
     TestPatch, TestCmd, SetAttribute, TestReset, ReleaseWorld, ReadHabitat, ReadSeed,
     ReadArea, Rebuild, TestWeights, SetWeights, ResetDone, TestCell, GetCell, TestPoll,
     ClearPoll, ReadPoll1, ReadPoll2, Tick, Renew, Sweep, Finish, listener
<1>3. whole.world /\ ~(Busy("world")' /\ InResetWorld')
  BY <1>2 DEF Watch, Starts
<1>4. ResetOK
  BY <1>3 DEF ResetInv
<1>5. CASE Busy("world")
  <2>1. ~ResetDone
    BY <1>4, <1>5 DEF ResetOK, ResetDone, InResetWorld
  <2>2. mem'.reset = mem.reset
    BY <2>1, MainMem
  <2> QED BY <1>1, <1>3, <1>4, <1>5, <2>2 DEF ResetOK
<1>6. CASE ~Busy("world")
  <2> USE <1>1, <1>4, <1>6 DEF ResetOK, InResetWorld, Goto
  <2>1. mem'.weights = mem.weights
    BY MainMem DEF Globals
  <2>2. CASE TestReset
    BY <2>2 DEF TestReset, Mailed
  <2>3. CASE ReleaseWorld
    BY <2>3 DEF ReleaseWorld, Release, Crash, Mailed
  <2>4. CASE ReadHabitat \/ ReadSeed \/ ReadArea
    BY <2>4 DEF ReadHabitat, ReadSeed, ReadArea
  <2>5. CASE Rebuild
    BY <2>5 DEF Rebuild, Raise, Crash, InitWorld
  <2>6. CASE TestWeights
    BY <2>6 DEF TestWeights
  <2>7. CASE SetWeights
    BY <2>7 DEF SetWeights, Mailed
  <2>8. CASE ResetDone
    BY <2>1, <2>8, MainMem DEF ResetDone
  <2>9. CASE ~(TestReset \/ ResetWorld)
    <3>1. mem'.reset = mem.reset
      BY <2>9, MainMem DEF ResetWorld
    <3>2. world'.weights = world.weights /\ ~InResetWorld'
      BY <2>9 DEF Mailed, MainThread, ResetWorld, SetPatch, SetCell, SetPoll, Generation,
         TimerFires, TestPatch, TestCmd, SetAttribute, TestCell, GetCell, TestPoll, ClearPoll,
         ReadPoll1, ReadPoll2, Tick, Renew, Sweep, Finish, Raise, Crash
    <3> QED BY <2>1, <3>1, <3>2
  <2> QED BY <2>2, <2>3, <2>4, <2>5, <2>6, <2>7, <2>8, <2>9 DEF ResetWorld
<1> QED BY <1>5, <1>6

LEMMA ResetStutter == ResetInv /\ UNCHANGED vars => ResetInv'
  BY DEF vars, listener, ResetInv, ResetOK, Busy, InResetWorld

\* resetWorld and resetDone (FxView.m, FxOSC.m) do not lose a world command that
\* reset_handler stored while they were not running, whatever else arrives and
\* wherever in the frame it is stored.
THEOREM ResetIsNotLost == Spec => []ResetTaken
<1>1. Init => Mailed /\ ResetInv
  BY MailedInit DEF Init, ResetInv
<1>2. Mailed /\ ResetInv /\ [Next]_vars => Mailed' /\ ResetInv'
  BY MailedNext, ResetServer, ResetMain, ResetStutter DEF Next, Stopped
<1>3. ResetInv => ResetTaken
  BY DEF ResetInv, ResetOK, ResetTaken
<1> QED BY <1>1, <1>2, <1>3, PTL DEF Spec

----------------------------------------------------------------------------
(* Poll lists *)

\* While a list is being stored its flag is still to be set, or is up.  Then,
\* until the flag is cleared it is up; from there on the copy is true as far as it
\* goes.
PollOK ==
    /\ Busy("poll") => "setpoll" \in unstored \/ mem.setpoll = TRUE
    /\ ~Busy("poll") =>
         \/ mem.setpoll = TRUE
         \/ pc = "readPoll1"
         \/ pc = "readPoll2" /\ loc.polls[1] = mem.poll1
         \/ ~InGetPoll /\ loc.polls[1] = mem.poll1 /\ loc.polls[2] = mem.poll2

PollInv == app = "running" /\ whole.poll => PollOK

LEMMA PollServer ==
    ASSUME Mailed, PollInv, app = "running", ServerThread, Watch
    PROVE  PollInv'
<1> SUFFICES ASSUME whole'.poll PROVE PollOK'
  BY DEF PollInv
<1>1. whole.poll \/ Starts("poll")
  BY DEF Watch
<1>2. CASE Receive
  <2>1. PICK m \in Messages : msg' = m /\ unstored' = Stores(m.kind)
    BY <1>2 DEF Receive
  <2>2. unstored = {} /\ UNCHANGED <<mem, pc, loc>>
    BY <1>2 DEF Receive
  <2>3. CASE m.kind = "poll"
    <3>1. Busy("poll")' /\ "setpoll" \in unstored'
      BY <2>1, <2>3 DEF Busy, Stores, PollStores
    <3> QED BY <3>1 DEF PollOK
  <2>4. CASE m.kind # "poll"
    <3>1. ~Busy("poll")' /\ ~Busy("poll") /\ whole.poll
      BY <1>1, <2>1, <2>2, <2>4 DEF Busy, Starts
    <3> QED BY <2>2, <3>1 DEF PollInv, PollOK, InGetPoll
  <2> QED BY <2>3, <2>4
<1>3. ASSUME NEW g \in unstored, HandlerStore(g) PROVE PollOK'
  <2>1. PollOK /\ UNCHANGED <<pc, loc>>
    BY <1>1, <1>3 DEF HandlerStore, Starts, PollInv
  <2>2. CASE msg.kind = "poll"
    <3>1. Busy("poll")
      BY <2>2 DEF Busy
    <3>2. "setpoll" \in unstored' \/ mem'.setpoll = TRUE
      <4>1. g = "setpoll" => msg.setpoll = TRUE
        BY <1>3, <2>2, StoresOne, MessagesAssumption
      <4> QED BY <1>3, <2>1, <3>1, <4>1, StoresOne DEF PollOK, Globals
    <3> QED BY <1>3, <2>2, <3>2, StoresOne DEF PollOK, Busy
  <2>3. CASE msg.kind # "poll"
    <3>1. g \notin PollStores
      BY <1>3, <2>3, StoresOne, OneKindStores
    <3>2. mem'.setpoll = mem.setpoll /\ mem'.poll1 = mem.poll1 /\ mem'.poll2 = mem.poll2
      BY <1>3, <3>1, StoresOne DEF PollStores, Globals
    <3>3. ~Busy("poll") /\ ~Busy("poll")'
      BY <1>3, <2>3, StoresOne DEF Busy
    <3> QED BY <2>1, <3>2, <3>3 DEF PollOK, InGetPoll
  <2> QED BY <2>2, <2>3
<1> QED BY <1>2, <1>3 DEF ServerThread

LEMMA PollMain ==
    ASSUME Mailed, PollInv, app = "running", MainThread, Watch
    PROVE  PollInv'
<1> SUFFICES ASSUME whole'.poll PROVE PollOK'
  BY DEF PollInv
<1>1. msg' = msg /\ unstored' = unstored /\ (Busy("poll")' <=> Busy("poll"))
  BY MainMem DEF Busy
<1>2. received' = received
  BY DEF MainThread, SetPatch, ResetWorld, SetCell, SetPoll, Generation, TimerFires,
     TestPatch, TestCmd, SetAttribute, TestReset, ReleaseWorld, ReadHabitat, ReadSeed,
     ReadArea, Rebuild, TestWeights, SetWeights, ResetDone, TestCell, GetCell, TestPoll,
     ClearPoll, ReadPoll1, ReadPoll2, Tick, Renew, Sweep, Finish, listener
<1>3. whole.poll /\ ~(Busy("poll") /\ InGetPoll /\ pc' # pc)
  BY <1>2 DEF Watch, Starts
<1>4. PollOK
  BY <1>3 DEF PollInv
<1>5. mem'.poll1 = mem.poll1 /\ mem'.poll2 = mem.poll2
  BY MainMem DEF Globals
<1>6. CASE ClearPoll
  <2>1. pc' = "readPoll1" /\ pc = "clearPoll"
    BY <1>6 DEF ClearPoll, Goto
  <2>2. ~Busy("poll")'
    BY <1>1, <1>3, <2>1 DEF InGetPoll
  <2> QED BY <2>1, <2>2 DEF PollOK
<1>7. CASE ~ClearPoll
  <2>1. mem'.setpoll = mem.setpoll
    BY <1>7, MainMem
  <2>2. CASE Busy("poll") \/ mem.setpoll = TRUE
    BY <1>1, <1>4, <2>1, <2>2 DEF PollOK
  <2>3. CASE ~Busy("poll") /\ mem.setpoll # TRUE
    <3> USE <1>1, <1>4, <1>5, <2>1, <2>3 DEF PollOK, InGetPoll, Goto
    <3>1. CASE ReadPoll1
      BY <3>1 DEF ReadPoll1, Mailed
    <3>2. CASE ReadPoll2
      BY <3>2 DEF ReadPoll2, Mailed
    <3>3. CASE TestPoll
      BY <3>3 DEF TestPoll
    <3>4. CASE ~SetPoll
      <4>1. pc \notin {"clearPoll", "readPoll1", "readPoll2"}
        BY <3>4 DEF MainThread, SetPatch, ResetWorld, SetCell, Generation, TimerFires,
           TestPatch, TestCmd, SetAttribute, TestReset, ReleaseWorld, ReadHabitat, ReadSeed,
           ReadArea, Rebuild, TestWeights, SetWeights, ResetDone, TestCell, GetCell,
           Tick, Renew, Sweep, Finish
      <4>2. loc'.polls = loc.polls /\ pc' \notin {"clearPoll", "readPoll1", "readPoll2"}
        BY <3>4, <4>1 DEF Mailed, MainThread, SetPatch, ResetWorld, SetCell, Generation, TimerFires,
           TestPatch, TestCmd, SetAttribute, TestReset, ReleaseWorld, Release, Raise, Crash,
           ReadHabitat, ReadSeed, ReadArea, Rebuild, TestWeights, SetWeights, ResetDone,
           TestCell, GetCell, Tick, Renew, Sweep, Finish
      <4> QED BY <4>1, <4>2
    <3> QED BY <1>7, <3>1, <3>2, <3>3, <3>4 DEF SetPoll
  <2> QED BY <2>2, <2>3
<1> QED BY <1>6, <1>7

LEMMA PollStutter == PollInv /\ UNCHANGED vars => PollInv'
  BY DEF vars, listener, PollInv, PollOK, Busy, InGetPoll

\* getPollIndices (FxOSC.m) clears its flag before it copies the list, so that a
\* list stored between two steps of the frame is copied whole, however many came
\* before it.
THEOREM PollIsNotLost == Spec => []PollTaken
<1>1. Init => Mailed /\ PollInv
  BY MailedInit DEF Init, PollInv
<1>2. Mailed /\ PollInv /\ [Next]_vars => Mailed' /\ PollInv'
  BY MailedNext, PollServer, PollMain, PollStutter DEF Next, Stopped
<1>3. Mailed /\ PollInv => PollTaken
  <2> SUFFICES ASSUME Mailed, PollInv, app = "running", whole.poll, ~Busy("poll"), ~mem.setpoll,
                      ~InGetPoll
               PROVE  loc.polls = <<mem.poll1, mem.poll2>>
    BY DEF PollTaken
  <2>1. loc.polls[1] = mem.poll1 /\ loc.polls[2] = mem.poll2
    BY DEF PollInv, PollOK, InGetPoll
  <2> QED BY <2>1 DEF Mailed
<1> QED BY <1>1, <1>2, <1>3, PTL DEF Spec

----------------------------------------------------------------------------
(* Patch commands *)

\* The three globals hold what one command asked for; at first they ask for
\* nothing.
Asked == \E m \in Messages : /\ m.kind = "patch" /\ mem.patch = m.patch
                             /\ mem.cmd = m.cmd /\ mem.value = m.value

AskedOK ==
    /\ Busy("patch") => \A g \in PatchStores : g \in unstored \/ mem[g] = msg[g]
    /\ ~Busy("patch") => Asked \/ mem.value = 0

\* Unless a command was being stored, setPatch has found what the globals hold.
FoundOK ==
    whole.patch =>
        /\ ~(Busy("patch") /\ InSetPatch)
        /\ pc \in {"cmd", "value"} /\ loc.p # Garbage => loc.p = mem.patch
        /\ pc = "value" => at = mem.cmd

PatchShape == DOMAIN patches = PatchIds /\ \A p \in PatchIds : DOMAIN patches[p] = CmdIds

PatchInv == AskedOK /\ FoundOK /\ PatchShape /\ PatchAsAsked

LEMMA PatchServer ==
    ASSUME Mailed, PatchInv, ServerThread, Watch
    PROVE  PatchInv'
<1>1. whole'.patch => whole.patch /\ ~(Busy("patch")' /\ InSetPatch')
  BY DEF Watch
<1>2. UNCHANGED <<pc, at, loc, patches>>
  BY DEF ServerThread, Receive, HandlerStore
<1>3. PatchShape' /\ PatchAsAsked'
  BY <1>1, <1>2 DEF PatchInv, PatchShape, PatchAsAsked
<1>4. CASE Receive
  <2>1. PICK m \in Messages : msg' = m /\ unstored' = Stores(m.kind)
    BY <1>4 DEF Receive
  <2>2. mem' = mem /\ ~Busy("patch")
    BY <1>4 DEF Receive, Busy
  <2>3. AskedOK'
    BY <2>1, <2>2 DEF PatchInv, AskedOK, Asked, Busy, Stores
  <2>4. FoundOK'
    BY <1>1, <1>2, <2>2 DEF PatchInv, FoundOK
  <2> QED BY <1>3, <2>3, <2>4 DEF PatchInv
<1>5. ASSUME NEW g \in unstored, HandlerStore(g) PROVE PatchInv'
  <2>1. CASE msg.kind = "patch"
    <3>1. Busy("patch")
      BY <2>1 DEF Busy
    <3>2. \A h \in PatchStores : h \in unstored' \/ mem'[h] = msg[h]
      BY <1>5, <3>1, StoresOne DEF PatchInv, AskedOK, PatchStores, Globals
    <3>3. AskedOK'
      <4>1. CASE unstored' = {}
        BY <1>5, <2>1, <3>2, <4>1, StoresOne DEF AskedOK, Asked, Busy, PatchStores
      <4>2. CASE unstored' # {}
        BY <1>5, <2>1, <3>2, <4>2, StoresOne DEF AskedOK, Busy
      <4> QED BY <4>1, <4>2
    <3>4. FoundOK'
      BY <1>1, <1>2, <3>1 DEF PatchInv, FoundOK, InSetPatch
    <3> QED BY <1>3, <3>3, <3>4 DEF PatchInv
  <2>2. CASE msg.kind # "patch"
    <3>1. g \notin PatchStores
      BY <1>5, <2>2, StoresOne, OneKindStores
    <3>2. mem'.patch = mem.patch /\ mem'.cmd = mem.cmd /\ mem'.value = mem.value
      BY <1>5, <3>1, StoresOne DEF PatchStores, Globals
    <3>3. ~Busy("patch") /\ ~Busy("patch")'
      BY <1>5, <2>2, StoresOne DEF Busy
    <3>4. AskedOK' /\ FoundOK'
      BY <1>1, <1>2, <3>2, <3>3 DEF PatchInv, AskedOK, Asked, FoundOK
    <3> QED BY <1>3, <3>4 DEF PatchInv
  <2> QED BY <2>1, <2>2
<1> QED BY <1>4, <1>5 DEF ServerThread

LEMMA PatchMain ==
    ASSUME Mailed, PatchInv, MainThread, Watch
    PROVE  PatchInv'
<1>1. whole'.patch => whole.patch /\ ~(Busy("patch")' /\ InSetPatch')
  BY DEF Watch
<1>2. msg' = msg /\ unstored' = unstored /\ (Busy("patch")' <=> Busy("patch"))
  BY MainMem DEF Busy
<1>3. mem'.patch = mem.patch /\ mem'.cmd = mem.cmd /\ mem'.value = mem.value
  BY MainMem DEF Globals
<1>4. AskedOK'
  BY <1>2, <1>3 DEF PatchInv, AskedOK, Asked, PatchStores
<1>5. FoundOK'
  <2>1. CASE TestPatch
    BY <1>1, <1>3, <2>1 DEF TestPatch, Goto, FoundOK, Mailed
  <2>2. CASE TestCmd
    BY <1>1, <1>3, <2>2 DEF TestCmd, Goto, FoundOK, PatchInv
  <2>3. CASE ~(TestPatch \/ TestCmd)
    <3>1. pc' \notin {"cmd", "value"}
      BY <2>3 DEF MainThread, SetPatch, ResetWorld, SetCell, SetPoll, Generation, Goto, Raise,
         Crash, Release, TimerFires, SetAttribute, TestReset, ReleaseWorld, ReadHabitat,
         ReadSeed, ReadArea, Rebuild, TestWeights, SetWeights, ResetDone, TestCell, GetCell,
         TestPoll, ClearPoll, ReadPoll1, ReadPoll2, Tick, Renew, Sweep, Finish
    <3> QED BY <1>1, <3>1 DEF FoundOK
  <2> QED BY <2>1, <2>2, <2>3
<1>6. CASE SetAttribute
  <2>1. CASE patches' = patches
    BY <1>1, <1>4, <1>5, <2>1 DEF PatchInv, PatchShape, PatchAsAsked
  <2>2. CASE loc.p # Garbage /\ patches' = [patches EXCEPT ![loc.p][at] = mem.value]
    <3>1. PatchShape'
      BY <2>2 DEF PatchInv, PatchShape
    <3>2. ASSUME whole'.patch, NEW p \in PatchIds, NEW c \in CmdIds, patches'[p][c] # 0
          PROVE  \E m \in Messages : /\ m.kind = "patch" /\ m.patch = p /\ m.cmd = c
                                     /\ m.value = patches'[p][c]
      <4>1. CASE p = loc.p /\ c = at
        <5>1. patches'[p][c] = mem.value
          BY <2>2, <4>1 DEF PatchInv, PatchShape
        <5>2. loc.p = mem.patch /\ at = mem.cmd /\ ~Busy("patch")
          BY <1>1, <1>6, <2>2, <3>2 DEF SetAttribute, PatchInv, FoundOK, InSetPatch
        <5>3. Asked
          BY <3>2, <5>1, <5>2 DEF PatchInv, AskedOK
        <5> QED BY <4>1, <5>1, <5>2, <5>3 DEF Asked
      <4>2. CASE ~(p = loc.p /\ c = at)
        <5>1. patches'[p][c] = patches[p][c]
          BY <2>2, <4>2 DEF PatchInv, PatchShape
        <5> QED BY <1>1, <3>2, <5>1 DEF PatchInv, PatchAsAsked
      <4> QED BY <4>1, <4>2
    <3>3. PatchAsAsked'
      BY <3>2 DEF PatchAsAsked
    <3> QED BY <1>4, <1>5, <3>1, <3>3 DEF PatchInv
  <2> QED BY <1>6, <2>1, <2>2 DEF SetAttribute
<1>7. CASE ~SetAttribute
  <2>1. patches' = patches
    BY <1>7 DEF MainThread, SetPatch, ResetWorld, SetCell, SetPoll, Generation, TimerFires,
       TestPatch, TestCmd, TestReset, ReleaseWorld, ReadHabitat, ReadSeed, ReadArea, Rebuild,
       TestWeights, SetWeights, ResetDone, TestCell, GetCell, TestPoll, ClearPoll, ReadPoll1,
       ReadPoll2, Tick, Renew, Sweep, Finish
  <2> QED BY <1>1, <1>4, <1>5, <2>1 DEF PatchInv, PatchShape, PatchAsAsked
<1> QED BY <1>6, <1>7

LEMMA PatchInit == Init => PatchInv
  BY DEF Init, InitMem, PatchInv, AskedOK, FoundOK, PatchShape, PatchAsAsked, Busy

LEMMA PatchStutter == PatchInv /\ UNCHANGED vars => PatchInv'
  BY DEF vars, listener, PatchInv, AskedOK, Asked, FoundOK, PatchShape, PatchAsAsked, Busy,
     InSetPatch

\* setPatch (FxOSC.m) puts the three globals together: unless it ran while
\* patch_handler stored them, an attribute has a value that some command asked
\* for it, for any number of patches, attributes and commands.
THEOREM PatchesAreAsAsked == Spec => []PatchAsAsked
<1>1. Init => Mailed /\ PatchInv
  BY MailedInit, PatchInit
<1>2. Mailed /\ PatchInv /\ [Next]_vars => Mailed' /\ PatchInv'
  BY MailedNext, PatchServer, PatchMain, PatchStutter DEF Next, Stopped
<1>3. PatchInv => PatchAsAsked
  BY DEF PatchInv
<1> QED BY <1>1, <1>2, <1>3, PTL DEF Spec

----------------------------------------------------------------------------
(* Types *)

\* What TypeOK leaves out: the names of the globals and local variables, and
\* where in a chain of tests the main thread may be.
Shapes ==
    /\ DOMAIN mem = DOMAIN InitMem /\ mem.habitat \in {0, 1}
    /\ unstored # {} => msg \in Messages
    /\ {"p", "habitat", "seed"} \subseteq DOMAIN loc /\ loc.habitat \in {0, 1}
    /\ {"refs", "habitat"} \subseteq DOMAIN world
    /\ pc = "patch" => at \in 0 .. NPatches
    /\ pc \in {"cmd", "value"} => at \in 0 .. NCmds

MemOK == /\ mem.setcell \in BOOLEAN /\ mem.setpoll \in BOOLEAN
         /\ mem.reset \in 0 .. 2 /\ mem.done \in 0 .. 1
         /\ DOMAIN mem = DOMAIN InitMem /\ mem.habitat \in {0, 1}

LEMMA WhatIsStored ==
  ASSUME NEW m \in Messages, NEW g \in Stores(m.kind)
  PROVE  /\ g \in DOMAIN InitMem
         /\ g = "setcell" => m[g] \in BOOLEAN
         /\ g = "setpoll" => m[g] \in BOOLEAN
         /\ g = "reset" => m[g] \in 0 .. 2
         /\ g = "done" => m[g] \in 0 .. 1
         /\ g = "habitat" => m[g] \in {0, 1}
<1>1. m.kind \in Kinds
  BY MessagesAssumption
<1>2. /\ g = "setcell" => m.kind = "cell"
      /\ g = "setpoll" => m.kind = "poll"
      /\ g \in {"reset", "habitat"} => m.kind = "world"
      /\ g = "done" => m.kind = "quit"
  BY <1>1 DEF Stores, Kinds, SettingStores, CellStores, PatchStores, ResetStores, PollStores, QuitStores
<1>3. g \in DOMAIN InitMem
  BY <1>1 DEF Stores, Kinds, SettingStores, CellStores, PatchStores, ResetStores, PollStores,
     QuitStores, InitMem
<1>4. CASE g = "setcell"
  BY <1>2, <1>3, <1>4, MessagesAssumption
<1>5. CASE g = "setpoll"
  BY <1>2, <1>3, <1>5, MessagesAssumption
<1>6. CASE g = "reset"
  <2>1. m.reset \in {1, 2}
    BY <1>2, <1>6, MessagesAssumption
  <2> QED BY <1>3, <1>6, <2>1
<1>7. CASE g = "done"
  <2>1. m.done = 1
    BY <1>2, <1>7, MessagesAssumption
  <2> QED BY <1>3, <1>7, <2>1
<1>8. CASE g = "habitat"
  <2>1. m.habitat \in {0, 1}
    BY <1>2, <1>8, MessagesAssumption
  <2> QED BY <1>3, <1>8, <2>1
<1> QED BY <1>3, <1>4, <1>5, <1>6, <1>7, <1>8

TypesInv == TypeOK /\ Shapes

LEMMA TypesInit == Init => TypesInv
<1> SUFFICES ASSUME Init PROVE TypesInv
  OBVIOUS
<1>1. 0 \in PatchIds /\ 0 \in 0 .. MaxMessages /\ 0 \in 0 .. (NPatches + NCmds)
  BY MessagesAssumption DEF PatchIds
<1>2. /\ mem.frameRate = 4 /\ mem.setcell = FALSE /\ mem.setpoll = FALSE
      /\ mem.reset = 0 /\ mem.done = 0 /\ mem.habitat = 0
  BY DEF Init, InitMem, FirstRate
<1>3. /\ world.refs = 2 /\ world.habitat = 0 /\ {"refs", "habitat"} \subseteq DOMAIN world
  BY DEF Init, InitWorld
<1>4. /\ loc.p = 0 /\ loc.habitat = 0 /\ {"p", "habitat", "seed"} \subseteq DOMAIN loc
  BY DEF Init
<1>5. /\ DOMAIN mem = DOMAIN InitMem /\ unstored = {} /\ received = 0 /\ at = 0
      /\ pc = "idle" /\ app = "running" /\ phase = 4 /\ ratio = 4
      /\ renew = FALSE /\ enableMessage = FALSE
  BY DEF Init, FirstRate
<1>6. TypeOK
  <2>1. /\ mem.setcell \in BOOLEAN /\ mem.setpoll \in BOOLEAN
        /\ renew \in BOOLEAN /\ enableMessage \in BOOLEAN
    BY <1>2, <1>5
  <2>2. /\ mem.frameRate \in Nat \ {0} /\ mem.reset \in 0 .. 2 /\ mem.done \in 0 .. 1
        /\ phase \in Nat /\ ratio \in Nat \ {0}
        /\ world.refs \in 0 .. 2 /\ world.habitat \in 0 .. 1
    BY <1>2, <1>3, <1>5
  <2> QED BY <1>1, <1>4, <1>5, <2>1, <2>2 DEF TypeOK
<1>7. Shapes
  BY <1>2, <1>3, <1>4, <1>5 DEF Shapes
<1> QED BY <1>6, <1>7 DEF TypesInv

LEMMA TypesServer ==
  ASSUME TypesInv, ClockInv', ServerThread
  PROVE  TypesInv'
<1> USE DEF TypesInv
<1>0. mem'.frameRate \in Nat \ {0} /\ phase' \in Nat /\ ratio' \in Nat \ {0}
  BY DEF ClockInv, RateOK, ClockOK
<1>1. CASE Receive
  <2>1. PICK m \in Messages : msg' = m /\ unstored' = Stores(m.kind)
    BY <1>1 DEF Receive
  <2>2. received' \in 0 .. MaxMessages
    BY <1>1, MessagesAssumption DEF Receive, TypeOK
  <2> QED BY <1>1, <2>1, <2>2 DEF Receive, TypeOK, Shapes, clock
<1>2. ASSUME NEW g \in unstored, HandlerStore(g)
      PROVE  TypesInv'
  <2>1. /\ mem' = [mem EXCEPT ![g] = msg[g]] /\ unstored' = unstored \ {g}
        /\ UNCHANGED <<msg, received, pc, at, loc, patches, world, clock, gen, app>>
    BY <1>2 DEF HandlerStore
  <2>2. msg \in Messages /\ g \in Stores(msg.kind) /\ unstored \subseteq Stores(msg.kind)
    BY <1>2 DEF TypeOK, Shapes
  <2>3. /\ g \in DOMAIN InitMem
        /\ g = "setcell" => msg[g] \in BOOLEAN
        /\ g = "setpoll" => msg[g] \in BOOLEAN
        /\ g = "reset" => msg[g] \in 0 .. 2
        /\ g = "done" => msg[g] \in 0 .. 1
        /\ g = "habitat" => msg[g] \in {0, 1}
    BY <2>2, WhatIsStored
  <2>4. MemOK
    BY DEF TypeOK, Shapes, MemOK
  <2>5. {"setcell", "setpoll", "reset", "done", "habitat"} \subseteq DOMAIN mem
    BY <2>4 DEF MemOK, InitMem
  <2>6. \A n \in DOMAIN mem : mem'[n] = IF n = g THEN msg[g] ELSE mem[n]
    BY <2>1
  <2>7. MemOK'
    <3>1. DOMAIN mem' = DOMAIN mem
      BY <2>1
    <3>2. /\ mem'["setcell"] \in BOOLEAN /\ mem'["setpoll"] \in BOOLEAN
          /\ mem'["reset"] \in 0 .. 2 /\ mem'["done"] \in 0 .. 1 /\ mem'["habitat"] \in {0, 1}
      BY <2>3, <2>4, <2>5, <2>6 DEF MemOK
    <3> QED BY <2>4, <3>1, <3>2 DEF MemOK
  <2> QED BY <1>0, <2>1, <2>2, <2>7 DEF TypeOK, Shapes, clock, MemOK
<1> QED BY <1>1, <1>2 DEF ServerThread

LEMMA TypesMain ==
  ASSUME TypesInv, ClockInv', WorldOK, MainThread
  PROVE  TypesInv'
<1> USE DEF TypesInv, TypeOK, Shapes, Goto, Raise, Crash
<1>0. mem'.frameRate \in Nat \ {0} /\ phase' \in Nat /\ ratio' \in Nat \ {0}
  BY DEF ClockInv, RateOK, ClockOK
<1>1. NPatches \in Nat \ {0} /\ NCmds \in Nat \ {0} /\ 0 \in 0 .. NPatches /\ 0 \in 0 .. NCmds
      /\ 0 \in 0 .. (NPatches + NCmds)
  BY MessagesAssumption
<1>2. CASE TimerFires
  BY <1>0, <1>1, <1>2 DEF TimerFires, clock, listener
<1>3. CASE TestPatch
  BY <1>0, <1>1, <1>3 DEF TestPatch, clock, listener, PatchIds, Garbage
<1>4. CASE TestCmd
  BY <1>0, <1>1, <1>4 DEF TestCmd, clock, listener, CmdIds
<1>5. CASE SetAttribute
  BY <1>0, <1>1, <1>5 DEF SetAttribute, clock, listener
<1>6. CASE TestReset \/ TestWeights \/ TestCell \/ TestPoll
  BY <1>0, <1>1, <1>6 DEF TestReset, TestWeights, TestCell, TestPoll, clock, listener
<1>7. CASE ReleaseWorld
  BY <1>0, <1>1, <1>7 DEF ReleaseWorld, Release, WorldOK, clock, listener
<1>8. CASE ReadHabitat \/ ReadSeed \/ ReadArea
  BY <1>0, <1>1, <1>8 DEF ReadHabitat, ReadSeed, ReadArea, clock, listener
<1>9. CASE Rebuild \/ SetWeights
  <2>1. /\ world'.refs \in 0 .. 2 /\ world'.habitat \in 0 .. 1
        /\ {"refs", "habitat"} \subseteq DOMAIN world'
    <3>1. CASE Rebuild
      <4>1. world' = world \/ world' = [InitWorld EXCEPT !.habitat = loc.habitat, !.weights = mem.weights]
        BY <3>1 DEF Rebuild
      <4>2. CASE world' = world
        BY <4>2
      <4>3. CASE world' = [InitWorld EXCEPT !.habitat = loc.habitat, !.weights = mem.weights]
        <5>1. world'.refs = 2 /\ world'.habitat = loc.habitat /\ {"refs", "habitat"} \subseteq DOMAIN world'
          BY <4>3 DEF InitWorld
        <5>2. loc.habitat \in 0 .. 1
          OBVIOUS
        <5> QED BY <5>1, <5>2
      <4> QED BY <4>1, <4>2, <4>3
    <3>2. CASE SetWeights
      BY <3>2 DEF SetWeights
    <3> QED BY <1>9, <3>1, <3>2
  <2> QED BY <1>0, <1>1, <1>9, <2>1 DEF Rebuild, SetWeights, clock, listener
<1>10. CASE ResetDone \/ GetCell \/ ClearPoll
  <2>1. MemOK'
    <3>1. {"setcell", "setpoll", "reset", "done", "habitat"} \subseteq DOMAIN mem
      BY DEF InitMem
    <3>2. MemOK
      BY DEF MemOK
    <3>3. CASE ResetDone
      <4>1. mem' = [mem EXCEPT !["reset"] = 0]
        BY <3>3 DEF ResetDone
      <4> QED BY <3>1, <3>2, <4>1 DEF MemOK
    <3>4. CASE GetCell
      <4>1. mem' = [mem EXCEPT !["setcell"] = FALSE]
        BY <3>4 DEF GetCell
      <4> QED BY <3>1, <3>2, <4>1 DEF MemOK
    <3>5. CASE ClearPoll
      <4>1. mem' = [mem EXCEPT !["setpoll"] = FALSE]
        BY <3>5 DEF ClearPoll
      <4> QED BY <3>1, <3>2, <4>1 DEF MemOK
    <3> QED BY <1>10, <3>3, <3>4, <3>5
  <2> QED BY <1>0, <1>1, <1>10, <2>1 DEF ResetDone, GetCell, ClearPoll, MemOK, clock, listener
<1>11. CASE ReadPoll1 \/ ReadPoll2
  BY <1>0, <1>1, <1>11 DEF ReadPoll1, ReadPoll2, clock, listener
<1>12. CASE Tick \/ Renew \/ Sweep \/ Finish
  BY <1>0, <1>1, <1>12 DEF Tick, Renew, Sweep, Finish, clock, listener
<1> QED
  BY <1>2, <1>3, <1>4, <1>5, <1>6, <1>7, <1>8, <1>9, <1>10, <1>11, <1>12
  DEF MainThread, SetPatch, ResetWorld, SetCell, SetPoll, Generation

\* TypeOK: the globals and the local variables of a frame have the values the
\* code's types and tests allow, for any messages; what a world command asks for
\* is 0, 1 or 2, and the retain count of the world is never below 0.
THEOREM TypesHold == Spec => []TypeOK
<1>1. Init => ClockInv /\ CauseInv /\ TypesInv
  BY ClockInit, CauseInit, TypesInit
<1>2. ASSUME ClockInv, CauseInv, TypesInv, [Next]_vars, ClockInv'
      PROVE  TypesInv'
  <2>1. CASE app = "running" /\ ServerThread
    BY <1>2, <2>1, TypesServer
  <2>2. CASE app = "running" /\ MainThread
    BY <1>2, <2>2, TypesMain DEF CauseInv
  <2>3. CASE UNCHANGED vars
    BY <1>2, <2>3 DEF vars, listener, clock, TypesInv, TypeOK, Shapes
  <2> QED BY <1>2, <2>1, <2>2, <2>3 DEF Next, Stopped
<1>3. TypesInv => TypeOK
  BY DEF TypesInv
<1>4. ClockInv /\ CauseInv /\ [Next]_vars => ClockInv' /\ CauseInv'
  BY ClockNext, CauseNext
<1> QED BY <1>1, <1>2, <1>3, <1>4, PTL DEF Spec
=============================================================================
