# Fx, specified in TLA+

Fx shows a three-dimensional cellular automaton (Objective-C, `objc/`) and is
played over OSC from SuperCollider (`sc/`). Its messages arrive through a copy
of liblo (`objc/lo/`). This directory holds TLA+ models of it, the TLC
configurations that check them on small instances, and proofs that TLAPS checks
for every value of the constants.

## The system

| Component | State | Operations | Correct if |
|---|---|---|---|
| Frame loop and OSC mailbox: `FxOSC.m`, `FxView.m`, `main.m` | some sixty global variables of `FxOSC.m`; `phase`, `frameRateRatio`, `renew`, `enableMessage` of the view; the world pointer | six OSC handlers that store arguments in globals; one frame (`drawCells`) per tick of a 24 Hz timer, which reads them | a command stored is carried out, whole; the automaton goes on at the rate last set; quit ends the program |
| Cellular automaton: `Cell.m`, `FxWorld.m` | per cell `state`, `lastState`, `velocity`, `phase`; weights, habitat, poll indices | `prepareNext`, `next:`, `updatePhase`, `setWeights:`, a new world | every generation is the synchronous step of the rule |
| Lattice geometry: `Habitat.m`, `Seeds.m`, `FxWorld.m` | lists of offsets; the neighbours of every cell | `initMoore:`, `initNeumann:`, `wireCube`, `setHabitat` | neighbours are symmetric on the torus and come in the order the weights assume |
| Drawing: `FxDraw.m`, `Patch.m` | four patches with eleven attributes | `drawCell:` and one method per patch | drawing does not end the frame |
| liblo server: `lo/server.c`, `server_thread.c`, `timetag.c` | socket, list of queued messages, list of methods; `active`, `done` | receive, dispatch, queue; start, stop, free | a message is dispatched once, in the order of timetags; a stop returns |
| liblo messages: `message.c`, `bundle.c`, `blob.c`, `lo_endian.h` | a type and a data buffer that grow, cached pointers into the data; arrays of messages | add, look at, serialise, deserialise, free | what is sent comes out, and nothing else is accepted; buffers and pointers hold |
| liblo methods: `server.c`, `pattern_match.c` | a linked list of methods | add, delete, dispatch, list; one recursive matcher | a message reaches what is registered, whatever handlers change; a pattern matches what it means |
| liblo sending: `send.c`, `address.c`, `server.c` | the sockets of servers and addresses, and a global with the newest server's; `errnum` and `ttl` of addresses | open and free servers and addresses, resolve, pick or create a socket, send | a socket has one owner, the right one is used, errors are told |
| Client: `f(x)public.sc` | copies of settings, responders | `send...`, add and remove responders | - (the environment) |

How they interact: the liblo server thread calls the handlers, which write
globals; the main thread reads them once per frame and clears the request flags
(`reset`, `setcell`, `setpoll`). There is no lock, and nothing orders the stores
of a handler. The main thread sends averages, polled states and the trigger
cell to the client.

What is hard: two threads over unlocked globals, with flags raised before their
payload and cleared in the middle of its use; frames cut short by exceptions,
which the timer's run loop logs and survives; counters compared for equality; an
automaton computed in place; a priority queue under a moving clock; a thread
that must be stopped while it waits; a list that handlers change under the walk
that called them; buffers that move under pointers into them; descriptors that
are closed and come back while another thread sends. PROJECT.json lists each
hazard at its line.

## Modules

```
FxControl  <- MCControl                          threads, globals, frames
               FxControlProofs
CellRule   <- Automaton <- MCAutomaton, AutomatonProofs
                 |= SyncAutomaton                the automaton, and what it implements
LoServer   <- MCLoServer, LoServerProofs         the server, its thread, its queue
                 |= Scheduler                    what the queue implements
PatternMatch <- Methods                          its list of methods, and dispatch
                   <- Matching                   the matcher, and what patterns mean
                         <- MCMethods, MethodsProofs
Wire <- Messages <- Bundles                      messages and bundles, to the byte
                   <- MCMessages, MessagesProofs
Folding    <- Methods, Wire                      loops over sequences
Sockets    <- MCSockets, SocketsProofs           servers, addresses, sending
Lattice    <- MCLattice, LatticeProofs           habitats, seeds and neighbours
PollSweep  <- MCPollSweep, PollSweepProofs       the polled cells
```

**FxControl** is the centre. `mem` holds the globals, by name. A handler is
`Receive`, which puts the globals it stores in `unstored`, followed by one
`HandlerStore(g)` per global, in any order: they are plain stores to unrelated
variables, the Release configuration is optimised and builds for PowerPC, and
the reader takes no lock. The main thread has a label per load that matters:
`TestPatch`/`TestCmd`/`SetAttribute` are `setPatch` (which loads `patch` again
in every test of its chain); `TestReset`, `ReleaseWorld`, `ReadHabitat`,
`ReadSeed`, `ReadArea`, `Rebuild`, `TestWeights`, `SetWeights`, `ResetDone` are
`resetWorld`; `TestCell`/`GetCell`, `TestPoll`/`ClearPoll`/`ReadPoll1`/`ReadPoll2`
the two other mailboxes; `Tick`, `Renew`, `Sweep`, `Finish` the rest of the
frame. Three outcomes end a frame: its last statement, an exception (`Raise`),
and undefined behaviour (`Crash`), after which nothing is claimed.

- The world is represented by its retain count and by what tells two worlds
  apart. The count is 2 in the code (`new`, then `retain`), so `[world release]`
  leaks it; a reset that fails leaves it at 1, and the next one deallocates it
  under an FxWorld `dealloc` that releases rows it does not own.
- The 26 weights, the poll list (two elements) and the seed area are single or
  double values; the nine settings used only for drawing are left out.
- `whole` is history: it says whether the two threads have kept out of each
  other's way on a mailbox. The properties are stated relative to it, because
  the code promises nothing else.

**CellRule** is `next:`, in multiples of 1/One; NaN is a constant that is no
integer, which a state becomes when it is divided by weights that add up to 0. **Automaton** sweeps
the lattice in place, cell by cell, as `drawCells` does, and may be cut short
after any cell. **SyncAutomaton** is what it should amount to: all cells at once
(`Generation`), or a set of them (`CutShort`). The refinement mapping shows the
states saved by `prepareNext` while a generation is being computed.

**LoServer** has the network (`Deliver`, `Vanish`, `ErrorComes`, `ErrorGoes`,
`ClientSends`, `ClientCloses`), the server thread (`Loop`, `Poll`, `Recv`, `Wait`,
`Read`, `ReadError`, `Element`, `EndOfData`, `FirstOfBatch`, `RestOfBatch`,
`Exit`) and the application (`Start`, `StartFails`, `Stop`, `Joined`,
`JoinsNothing`, `Free`). `Recv` is its own label because `lo_server_recv` asks
again what `lo_server_recv_noblock` asked, with a later clock. `Wait` is its
poll, and `Read` the call after it: `recvfrom` over UDP, `accept` over TCP,
where label "accepted" is the `recv` of what the client may send. They block: what
poll has announced may have vanished by then, and a client may send nothing for
ever. POLLERR or POLLHUP alone make either poll return to the loop, without a look
at the queue; an error that comes after it is taken by `ReadError`. `Diff` is
`lo_timetag_diff` in quarters of a second, with the code's factor. When
`pthread_create` fails `active` stays 1, and a later stop joins a thread that is
not there: `ctl` becomes "undefined" and nothing is claimed any more.
**Scheduler** is a stable priority queue over sets.

**Methods** is the linked list itself: `first`, `next` and the nodes freed.
`Add`/`Walk` are `lo_server_add_method`, `Delete`/`Visit`/`Deleted`
`lo_server_del_method`, `Dispatch`, `Method`, `Return`, `End` `dispatch_method`.
One thread runs all of it, but between `Method` and `Return` a handler runs, and
may change the list. A use of freed memory sets `undefined`, and nothing follows.
`table` is history: what is registered. A message has one argument. `Listing`
is the answer to a message that asks what is below a path. Paths and patterns
are sequences of characters, and whether one matches the other is asked of
**PatternMatch**: `LoPatternMatch` is the recursive matcher as a recursive
function over the places of the pattern and the string, `InSet` its loop over a
set in brackets and `Alternatives` the one over a list in braces. `Glob` says which
strings a pattern means. It is written over items (a character, `?`, `*`, a set, a
list of alternatives), each of which `Takes` some strings; a set `Denotes` its
characters and ranges. `TextOf` is the pattern as it is written, and `Spelled` says
which items can be told from what is around them: no comma inside an
alternative, no bracket inside a set but at its beginning, no range without an end.
`Readable` says which lists the code can read. **Matching** adds to Methods a program that calls the matcher.
**Folding** has the one definition of a loop over a sequence, `Folded`: a recursive
function of how many elements have been taken. Methods walks its nodes with it, and
Wire takes arguments and elements one by one.

**Wire** has the pure part of messages: `ValidateString`, `ValidateBlob`,
`ValidateArg`, `Argv`, `Serialise`, `Deserialise` and the bundle functions over
sequences of bytes, with the byte order of the host as a parameter.
**Messages** is one `lo_message` over time: type and data buffers with their
room, the block the data is in (realloc moves it), the cached `argv`, and
`lo_message_add` as a walk over values that may be missing, surplus or of
unknown type (`AddNext`, `AddEnd`). `Receive` is the message sent and
deserialised by a host. **Bundles** adds an array of messages and what
`lo_bundle_free_messages` frees of it. What its `qsort` leaves is said by rank
(`InOrder`: how many pointers are below, and not above, the one in a place); with
which path a message is added is a parameter (`PathAt`).

**Sockets** has the descriptors of the process (the lowest free one is given
out, so one that was closed comes back at once), servers that are being opened
(`NewServer`, `PortInUse`, `Bound`, and a failure after every call:
`Unresolved`, `NoSocket`, `BindFails`), freed, or accept connections, addresses,
whose TTL can be set (`SetTtl`), and a call that sends (`Call`, `Check`, `Pick`,
`Load`, `Create`, `ConnectFails`, `CreateFails`, `Transmit`). The servers belong to
another thread than the call, and may come and go between any two of its steps,
as `send_data` takes no lock: also between `Pick`, which tests
`lo_client_sockets.udp`, and `Load`, which reads it again and may find another
socket or -1. The other thread also makes, changes and frees other addresses
than the one the call is for. `Transmit` is one step with everything up to the return. History
are `lost`, `newest`, `asked` (the TTLs an address has asked for) and of a call
`via` (whose socket it has loaded), `server` (was there a UDP server then) and
`freed` (the newest server was freed between `Pick` and `Load` and none came
instead, or the one whose socket was loaded before `Transmit`).

**Lattice** builds a world in four steps, as `resetWorld` does. `Moore` and
`Neumann` are the sequences of offsets, in the code's order; `wrapi` is external
(its source is not in the repository) and taken to be the remainder.

**PollSweep** follows `pollIndex` through the sweep. A frame may begin with a new
world, with a new list, or with both, in this order. Instead of phases, `fresh`
holds which of `oscValues` the present frame has stored. `Polls` is
`getPollIndices` after `poll_handler`, which drops y and z. The client's lists
therefore name cells of one edge, many times each; `AlwaysRenewed` shows that
their values are renewed all the same, though over many frames.

Operators named after a plausible slip (`RenewKeepingRate`, `FreeWithoutStop`,
...) stand before the definition they distort. Nothing uses them: they are there
to try a property against a program that has the slip.

## Runs

| Run | Bounds | Shows |
|---|---|---|
| MCControlClock | 3 messages of 6; 3 patches, 1 attribute | `PhaseInStep`, `GenerationsGoOn`, `SettingsTakeEffect`, `QuitTerminates`: rates 1 and 2 against 4, frames cut short by cell commands and by the grid on a von Neumann world, and quit, in every order and at every point of a frame |
| MCControlMail | 2 messages of 12; 3 patches, 2 attributes | `ResetTaken`, `PollTaken`, `PatchAsAsked`, `UndefinedExplained`: two commands for each mailbox, world commands that cannot be honoured and a patch that does not exist among them |
| MCControlReset | 1 message | violated: `RequestWithdrawnWasServed`, by one world command whose weights are stored after `resetWorld` has loaded them |
| MCAutomaton | ring of 3 cells; lopsided weights, zeros, and a list too short | `SweepInv`, `TriggerIsMax`, `NaNOnlyFromZeroWeights`, `SweepIsSynchronous` |
| MCLoServer | 3 bundles, 4 messages that can be read, two timetags, 2 starts, UDP and TCP | `JoinedOnce`, `BundlesInOnePiece`, `QueueIsScheduler`, `StopReturns`, `QueuedIsDispatched` |
| MCLoEarly | 2 packets | violated: `NotBeforeItsTime` |
| MCMethods | 4 methods of 6, 2 deletions of 3, 1 message of 2; patterns of up to 3 items of 11, strings of up to 4 of 3 letters | `ListIsTable`, `DeletionIsComplete`, `UndefinedExplained`, `CalledAsRegistered`, `ListingIsTable`, `MatcherIsGlob` |
| MCMethodsArgv | 2 methods, 1 message | violated: `ArgvAsDocumented` |
| MCLattice | 64 cells, radii 0 to 3, 96 areas | `Mutual`, `SeedIsSurface`, `GridMeetsNeighbours` |
| MCPollSweep | 64 cells, 8 polls, 4 lists, 2 disturbances | `SnapshotIsWhole`, `AlwaysRenewed` |
| MCMessages | up to 3 arguments of 8, lists with 5 kinds of mistake, bundles of up to 5, both byte orders | `BuffersHold`, `AddTells`, `RoundTrip`, `DamageShows`, `HostsAgree`, `BundleWhole`, `FreedOnce` |
| MCSockets | 2 servers, 2 addresses, 2 descriptors, 2 tries to bind, TTLs -1 and 256 set | `OneOwner`, `ThroughItsSocket`, `ErrnumTells`, `TtlExplained` |

Why the bounds are enough. A mailbox holds one command, so a lost or torn one
takes two messages; the main thread repeats the same frame for ever, and the
first rate (4) makes a generation at every fourth frame, so a change of rates
is seen under way, to a rate that divides the phase reached and to one that is
below it. Three patches are the smallest chain with a first, a middle and a
last test, and a number beyond them; the grid is one of them. On a ring of three cells each cell has a
swept and an unswept neighbour. Two bundles with one timetag make arrival
decide, and one that is earlier makes it not decide. Quarters of a second are
the coarsest unit in which the factor of `lo_timetag_diff` shows. The clocks of
MCLoServer start at second 1 and stop when every packet is due (quarters 8 or
10). Two starts are one more than a stop.

Four methods make a head, a tail and two neighbours in between; one message
suffices, because nothing but the list outlives it. A string of four has room
for two alternatives and what is before and after them. In a lattice of side 4
a habitat of radius 1 fits and those of radius 2 and 3 overlap themselves. The areas
are flat, thin and thick boxes at the origin, on its sides and away from it, for
each of which `wireCube` does something else; some are empty, some do not fit.
Side 4 also
gives PollSweep the smallest list of its own, 8 polls for the program's 64, and
the lists sent to it have as many.

The arguments of MCMessages have lengths at, below and above the four bytes of
padding, and one of eight bytes; three of them, and five elements of a bundle, make the type, data and element
buffers double. `DamageShows` tries every prefix of what is sent. Two servers
replace each other under a call, and one address asks for a TTL while another
does not; they have two descriptors between them, so that those run out, and one
that is closed comes back to an owner of another kind at once. A second attempt to
bind (17 in the code) is what the loss of the first one's socket takes. A TTL of -1
takes back the one an address was made with, and 256 is 0 as a byte.

`CHECK_DEADLOCK FALSE` is set where behaviours end by design: LoServer's,
Automaton's and Methods', when clocks, frames or messages are used up, and
Lattice's, when the world is built. The others are checked for deadlock.

### Fairness

- FxControl: weak fairness of the main thread (the timer repeats, and a frame is
  a finite sequence of statements) and of each handler (the scheduler runs the
  server thread). None on `Receive`: no message has to come. A client that
  sent a cell command in every frame for ever could keep the quit flag
  from being read; the bound on messages excludes it.
- `DrawingRecovers` is a premise of the three liveness properties: the grid patch
  on a von Neumann world raises in every frame, before the end of which quit
  would be seen, until a client changes one of the two.
- LoServer: weak fairness of the clock, of the server thread, and of a join whose
  thread has ended or was never there. None on the network, on clients that have
  connected, nor on the application. Hence `StopReturns` and `QueuedIsDispatched`
  have an exception, `Blocked`: the thread is for ever in a poll with nothing
  queued, in a read of what has vanished, or in the `recv` from a client that is silent.
  The second has another one: a socket that has an error again and again, for poll
  then returns to the loop before the queue is looked at.
- PollSweep: weak fairness of the frame's own steps, for the timer repeats. None
  on commands or frames cut short; there are at most two of them.

## Findings

1. `reset_handler` stores `reset` first and the weights last. A frame in between
   takes the request, makes the world with the old weights, and withdraws the request
   in `resetDone` when the new ones have been stored: they never take effect,
   though it was the only world command (MCControlReset).
2. `lo_timetag_diff` counts fractions four times too high. Bundles are dispatched
   up to three quarters of a second early, and bundles of different seconds may
   change places (MCLoEarly). `QueueIsScheduler` holds for the order the code uses.
3. After a method that takes its arguments coerced, the next method is called
   with a NULL argv (MCMethodsArgv). In Fx a message to a pattern such as "/fx/*"
   does this to `poll_handler`, the one method without a typespec.

Seen while reading. What a model has, it has as the code does; properties that
meet it say so.

- Frame loop: the comment on `seed` announces random seeds, for which
  `resetWorld` uses an uninitialised variable (a cause that `UndefinedExplained`
  names). FxView.m comments the 26 weights in another order than `initMoore`
  lists the neighbours.
- Client: ramps ask for `opts.msgRate`, which no class here has;
  `removeTriggerResponder` removes the states responder.
- Matcher: when the rest of the string does not match after an alternative, the
  first character of the next alternative is skipped, so "{a,ab}c" does not match
  "abc" and "{a,xab}c" does; a string that ends inside a list is not
  matched though "\*" follows. `Readable` excludes such patterns. The comment at
  the top writes [^set]; the code, like OSC, takes '!'.
- Servers: each further try to bind opens a socket without closing the one
  before; a failing `getaddrinfo` leaks the server and that socket; accepted TCP
  connections are never closed (`OneOwner` names these), and a message
  that arrives in two parts is read as one part. A queued message is dispatched
  with the sender of the packet received last. A TCP client that connects and
  sends nothing stops the thread, the queue and any stop (`Blocked` names this).
- Sending: `lo_send_timestamped` and `lo_send_from` test `t->errnum` where
  `lo_send` tests the result of adding the arguments; a call over TCP from a
  server closes -1 and reports EBADF; an address made from a URL asks for TTL 0, and a TTL
  that was set stays on the socket when -1 takes it back. lo.h says of the server of
  `lo_send_from` that it "can be NULL to use new socket"; the code uses the newest
  server's, or the address's own again (`ThroughItsSocket` says which). When that
  server is freed between the two loads of its socket, or before the message is sent,
  the call fails or the message leaves through whatever has got the descriptor.
  The question in `send.c` whether the socket closed there is still its own is
  answered by `OneOwner`.
- Messages: `lo_swap64` exchanges halves on big-endian hosts too, and
  `lo_message_add_char` writes the byte that only a little-endian host will send
  where it belongs (`HostsAgree` leaves out both, they do not arrive as they
  were);
  `lo_message_add_midi` copies as many bytes as a pointer has.

## Proofs

Each theorem is for all values of the constants, under the assumptions the
modules declare; TLC evaluates those in every run.

**FxControlProofs**, for any set of messages (assumed: rates
are positive, as the client's slider, 1 to 12, makes them; world commands ask for
1 or 2 and for one of two habitats; poll, cell and quit commands raise their flags),
any number of patches and attributes:

- `ClockNeverOverruns`: `Spec => []PhaseInStep`. The property is not inductive:
  that the new ratio is at least 1 depends on the rate in memory, hence on who
  may store it (`RateOK`), and that it does not undercut the phase depends on
  phase having been put back to 0 first (`ClockOK`).
- `UndefinedHasACause`: `Spec => []UndefinedExplained`. `WorldOK` says that the
  retain count is 2, except while a new world is being built or after that has
  failed; `PointerOK` that the tests of `setPatch` that failed would still fail
  unless the history says that a command was stored under them.
- `TypesHold`: `Spec => []TypeOK`, the globals, the world and the local copies of
  the main thread.
- `ResetIsNotLost`, `PollIsNotLost`, `PatchesAreAsAsked`: the three mailboxes. The
  strengthenings say what the main thread's local copies are at each of its
  labels, and that a handler which is storing has been noticed by `whole`.

**AutomatonProofs**, for any lattice, neighbourhoods, weights, seeds and order:

- `SweepInvariant`: `Spec => []SweepInv`, from an inductive strengthening with the
  place of the sweep.
- `Refinement`: `Spec => SweepIsSynchronous`. Every step of the sweep is a
  stutter but the last (or the one that raises), which is a generation (or a part
  of one) of the synchronous automaton. Neither looks inside the rule.
- `NaNOnlyFromZeros`: `Spec => []NaNOnlyFromZeroWeights`. The rule gives a number
  from numbers if its weights do not add up to 0 (`NextStateType`; the sum is a
  fold, which has to be shown to be what its definition says first). `Healthy`
  says that all states are numbers as long as no generation had such weights.
- `TriggerIsTheMax`: `Spec => []TriggerIsMax`, from `MaxSoFar`: `max` is the
  first of the cells swept so far with the largest phase.

**LoServerProofs**, for any packets, any number of starts and
any clock (assumed: each message of the packets has a name of its own):

- `ThreadsAreJoinedOnce`, from what a thread and the application know of each other
  at each label.
- `QueueImplementsScheduler`: `Spec => QueueIsScheduler`, the refinement of
  Scheduler. The invariant says that no name is in two of network, socket, hand
  and queue (`Once`, `Fresh`), and that the queue is sorted by `Diff` (`Sorted`).
  `queue_data` inserts before the first later entry; that there is such a place is
  a least element of a finite set of places.
- `BundlesStayWhole`: `Spec => []BundlesInOnePiece`. `PieceInv` is about the log and
  the queue as one list: the messages of a bundle stand side by side in it, in
  order (`Whole`), those dispatched at once and those queued alike; what the
  bundle at hand has added to the log is its end, and what it has queued came last
  (`Current`); the clock was read once for it and decides for all its elements alike. An entry
  is inserted behind those of its own time, hence never inside another bundle, for
  the entries of a bundle have one time.

**MethodsProofs**, for any methods, messages, deletions and patterns, in any number
(assumed of Matching: the strings and items are of characters other than 0, and
`Spelled`):

- `TheListIsTheTable`, `DeletionsAreComplete`: the invariant says where in `table`
  the local variables `it` and `prev` are (`AtPlace`, `AddOK`), and that the
  list is in the order of adding, which is why a node is in it once. `prev` is
  wrong at the first place only, where it is not used.
- `MisuseIsExplained`: the node at which the walk stands while a handler runs is
  the last one called.
- `CallsFollowTheList`: `Spec => []CalledAsRegistered`. `ProgressOK` says what has
  been called when the walk is at a node: of the methods before it that are still
  there, those that accept the message, and that none but the last has dealt
  with it. It needs the order of the list, for what a handler adds must lie behind
  the node. What a pattern matches plays no part in these proofs.
- `ListingsNameTheTable`: `Spec => ListingIsTable`, an action property. A walk along
  `next` from `first` collects `table` (`ChainIsTable`: the nodes of the list are in
  the order of adding, so it ends within as many steps as there are nodes), and
  the names taken from it one by one are those of the nodes passed so far, none
  twice (`ListingNames`). Both are folds; an invariant of a fold is proved by
  `ByPlace`, place by place.
- `MatcherMeansGlob`: `MatchingSpec => []MatcherIsGlob`, for strings and patterns of
  any length. Four recursive functions are shown to be what their definitions say
  first: each value depends on places further on in the pattern only, so there is
  one such function (`RowsExist`, `RowsAgree`). Then, from the last item to the
  first (`Backwards`), what the code matches from where the item begins is what the
  items from there on mean (`ItemsRight`), by the kind of the item:
  `SetRead` reads a set character by character from its bracket back; `StarMeans`
  says that the places a star leaves out cannot match, for
  which the end of the string must not match what follows; and `ListOnward` goes
  through a list, alternative by alternative and character by character. Each
  condition of `Readable` is used there: when an alternative has fitted but what follows
  does not match, the code compares the second character of the next one with the
  first that has fitted, and they must differ; and what follows a list must need a
  character, for the code gives up at the end of the string.

**SocketsProofs**, for any numbers of descriptors, servers, addresses and tries:

- `SocketsHaveOneOwner`: who may hold what in which state, descriptor by descriptor.
- `SentThroughItsSocket`: `Serving` says that `lo_client_sockets` names servers that
  live, of which the newest is the last; `Leaves` what a call knows at each of its
  steps, and that all that can take it away is the server it was going to use being
  freed (`freed`), since nobody frees the address or the server it was given.
- `FailuresAreTold`: the result and `errnum` are stored in one step, and no other
  step of a call or of the other thread changes either while the result stands.
- `TtlIsExplained`: `Spec => []TtlExplained`, from who may have set the TTL of each
  open socket: an address's own has the default or one the address has asked for
  (`OwnHasAsked`), as no other address sends through it, and a descriptor that is
  closed loses what was set (`FreeHasDefault`).

**PollSweepProofs**, for any world at least 4 cells across, any lists and any
disturbances:

- `WholeSnapshots`: `Spec => []SnapshotIsWhole`. `DefaultPollsInOrder` shows that the
  world's own list is in the order of the sweep (its elements are those of a set,
  placed by how many are smaller); then pollIndex is, at every cell of a frame
  that began at 0, the number of polls met so far, and wraps to 0 at the last.

**LatticeProofs**, for any size, radius and box:

- `NeighboursAreMutual`: `Spec => []Mutual`. Both habitats are the offsets of a cube
  or a cross, once each, in an order that negation turns round; the rest is
  arithmetic modulo Size. The proof needs `2 * Reach < Size`: a von Neumann
  habitat reaches 1 whatever its radius is, which `radius` alone does not say.
- `TheGridMeetsNeighbours`: the offsets with the indices 10, 4 and 12 are the three
  sides for radius 1 (`DrawnOfOne`). For a larger one the first of them lies in the
  first layer of the cube (`DrawnOfMore`), and leads to another cell than the side
  also where the habitat overlaps itself. Radius 0 and a von Neumann habitat have
  fewer offsets.
- `SeedsAreSurfaces`: both directions. In a box that is not thin and not at the origin
  there is a cell on a far face that `wireCube` leaves out (`UnmarkedFacts`).

**MessagesProofs**, for any arguments, calls of `lo_message_add` and paths, both
byte orders, and any number of arguments and bundled messages. An argument has
the value its type asks for (`WellTyped`: four bytes, eight, no terminator in a
string, no more in a blob than a packet holds), and the items of a call that have
a type and a value do, too (`Callable`).

- `MessageInvariant`: a message is the list of what was added to it (`Contents`),
  its buffers have room for it (`Buffers`), its pointers are those that would now be
  found (`Pointers`), and `Calls` says what of its list a running `lo_message_add`
  has taken, and that it has added all of that as long as its result is 0.
- `BuffersAlwaysHold` and `AddAlwaysTells` follow. The first assumes that a pointer
  has four bytes, as on the hosts Fx is built for: with eight, `lo_message_add_midi`
  writes beyond the room, and `BuffersHold` is false.
- `MessagesComeBack`, `HostsAlwaysAgree`. Type by type, an argument as it is stored
  has the size `lo_arg_size` finds, is validated to that size whatever follows,
  and comes out of the two conversions as it was (`ArgIsFaithful`; of the other byte
  order, `ArgIsUnderstood`). A message is the concatenation of such parts:
  `Parts` names what is before and after each, and the folds of `Argv`, `Serialise`
  and `ReadArgs` are followed from part to part.
- `DamageAlwaysShows` goes the other way. What the validation accepts as an
  argument is one that some host sends (`ArgMeant`), hence every sequence of bytes
  it accepts is a message (`OnlyMessages`), which serialised again is the same.
  Nothing may follow a message (`NothingAfter`), hence none is accepted early.
- `EachFreedOnce`: of a list of pointers, in each place the one of that rank exists;
  so equal ones stand together once they are sorted, and the walk that skips
  repetitions frees each once.
- `BundlesComeWhole`: `BundleSpec => [](BundleFits => BundleWhole)`, where
  `BundleFits` says that no message of the bundle is larger than a packet, the
  largest size of which the model tells the value. The elements of a bundle, followed
  by a piece with which no element begins (`Stuck`), are found to be its messages
  and that piece (`ElementsAre`); and a bundle cut short is messages and such a piece
  (`CutOf`), so it is accepted only when the piece is empty.

The inductive invariants begin with the types of the variables (`Typed`,
`ListTyped`, ...).

The provers have no induction over data. Where a proof needs one over the natural
numbers (a sum, places in a set, the first later entry of a queue), it takes a
least counterexample from the well-foundedness of `<` (the lemmas `Smallest`).

Only model-checked: liveness (`GenerationsGoOn`, `SettingsTakeEffect`,
`QuitTerminates`, `StopReturns`, `QueuedIsDispatched`, `AlwaysRenewed`), which needs
`ENABLED`. Every other property of a passing run is a theorem.

## Not modelled

- The client. It is a script of one thread that shares nothing with the program
  but messages, and is the environment of FxControl, which takes messages at any
  time, also those the client would not send. Nor is it composed with
  FxControl: what it keeps is what the user asked for, not what the program
  answers.
- Two threads that send at once, to one address or to two, and an address or server
  that is freed under a call it was given to. Fx sends from its main thread only.
- What `lo_server_free` does between taking the socket out of `lo_client_sockets` and
  closing it: it is one step. So is `send_data` from the TTL on.
- Parts of messages: a packet is read whole over TCP, too, and sent whole or not.
- The settings used only for drawing, the averages of the eight sections of the
  lattice and the messages with them, OpenGL calls.
- The values of coerced arguments: Methods has whether there are any.
- Multicast membership, host names, URLs as text, printing functions, `method.c`.
- The seeds nothing calls (`Seeds.m` but for `wireCube`), the nib and Xcode files,
  the Windows branches.
