------------------------------ MODULE LoServer ------------------------------
(***************************************************************************)
(* A liblo server and the thread that serves it: lo/server_thread.c, and   *)
(* of lo/server.c the receive loop, the handling of bundles, and the queue *)
(* of messages whose timetag lies in the future.                           *)
(*                                                                         *)
(* Three processes share the state: the network fills the socket, the      *)
(* server thread empties it and hands messages to their methods, and the   *)
(* application starts, stops and frees the server thread.  Time passes     *)
(* between any two steps.                                                  *)
(*                                                                         *)
(* A timetag has a seconds and a fraction part; fractions are counted in   *)
(* quarters of a second, 2^30 of the units of the wire.  What a method     *)
(* does, and how it is found, is left out: handing a message to its        *)
(* methods is one step, recorded in log.                                   *)
(***************************************************************************)
EXTENDS Integers, Sequences, SequencesExt, FiniteSets

CONSTANTS Packets,      \* what the network may deliver, each at most once
          MaxTime,      \* bound: the clock stops here
          MaxStarts     \* bound on the number of starts

(***************************************************************************)
(* A packet is a bundle: a timetag and a sequence of elements, each the    *)
(* name of a message or Malformed.  A message sent on its own is           *)
(* dispatched at once, like a bundle of one element for an instant past.   *)
(***************************************************************************)
Malformed == "malformed"

Ids == (UNION {{p.elems[i] : i \in DOMAIN p.elems} : p \in Packets}) \ {Malformed}

Timetags == {p.ts : p \in Packets}

\* Every message has a name of its own.
ASSUME LoServerAssumption ==
    /\ \A p \in Packets : p.ts \in [sec : Nat, frac : 0 .. 3] /\ DOMAIN p.elems = 1 .. Len(p.elems)
    /\ \A p, q \in Packets : \A i \in DOMAIN p.elems, j \in DOMAIN q.elems :
          p.elems[i] = q.elems[j] /\ p.elems[i] # Malformed => p = q /\ i = j
    /\ MaxTime \in Nat /\ MaxStarts \in Nat

VARIABLES
    time,       \* quarters of a second since the start
    unsent,     \* packets the network has still to deliver
    socket,     \* packets waiting in the socket; over TCP, connections
    error,      \* the socket has an error to report, or was hung up
    stream,     \* s->protocol is LO_TCP
    queue,      \* s->queued: entries [id, ts, n] in the order of the list
    arrivals,   \* history: number of messages queued; n in an entry
    log,        \* history: messages handed to their methods, and if too early
    pc,         \* where the server thread is; "none" if there is no thread
    packet,     \* the data being dispatched
    at,         \* index of its element
    since,      \* "now" of lo_server_dispatch_data, or the time of the batch
    active,     \* st->active
    done,       \* st->done
    ctl,        \* where the application is: "idle", "joining", "freed", or in
                \* "undefined" behaviour
    starts,
    failed      \* history: pthread_create has failed

network == <<unsent, socket, error, stream>>
sched   == <<queue, arrivals, log>>
thread  == <<pc, packet, at, since>>
app     == <<active, ctl, starts, failed>>
vars    == <<time, network, sched, thread, app, done>>

Init ==
    /\ time = 4
    /\ unsent = Packets
    /\ socket = <<>> /\ error = FALSE /\ stream \in BOOLEAN
    /\ queue = <<>> /\ arrivals = 0 /\ log = <<>>
    /\ pc = "none"
    /\ packet = [ts |-> [sec |-> 0, frac |-> 0], elems |-> <<>>]
    /\ at = 1
    /\ since = [sec |-> 0, frac |-> 0]
    /\ active = FALSE /\ done = FALSE
    /\ ctl = "idle" /\ starts = 0 /\ failed = FALSE

----------------------------------------------------------------------------
(* Timetags *)

Timetag(t) == [sec |-> t \div 4, frac |-> t % 4]
Now == Timetag(time)

\* lo_timetag_diff multiplies the fractions by 0.00000000093132257461, which
\* is 2^-30: a quarter of a second, 2^30 units, counts as a whole one.
Diff(a, b) == (a.sec - b.sec) + (a.frac - b.frac)

\* The number by which the code orders timetags ...
CodeTime(ts) == ts.sec + ts.frac

\* ... and the instant, in quarters of a second.
Instant(ts) == 4 * ts.sec + ts.frac

\* lo_server_next_event_delay is below 0.01: the head of the queue is due.
\* An empty queue is due in 100 seconds.
Due == queue # <<>> /\ Diff(queue[1].ts, Now) <= 0

----------------------------------------------------------------------------
(* The network, and time *)

Tick == time < MaxTime /\ time' = time + 1
        /\ UNCHANGED <<network, sched, thread, app, done>>

\* Over TCP a client connects; what it sends comes later, if at all.
Deliver == ctl # "freed" /\ \E p \in unsent :
    /\ unsent' = unsent \ {p}
    /\ socket' = Append(socket, p)
    /\ UNCHANGED <<time, error, stream, sched, thread, app, done>>

\* A datagram that was announced as ready is dropped, its checksum was wrong; or
\* a client has gone before its connection was accepted.
Vanish ==
    /\ socket # <<>>
    /\ socket' = Tail(socket)
    /\ UNCHANGED <<time, unsent, error, stream, sched, thread, app, done>>

\* The socket gets an error to report (POLLERR, POLLHUP); the next call that uses
\* the socket takes it, one that sends through it too.
ErrorComes ==
    /\ ctl # "freed" /\ ~error
    /\ error' = TRUE
    /\ UNCHANGED <<time, unsent, socket, stream, sched, thread, app, done>>

ErrorGoes ==
    /\ error /\ error' = FALSE
    /\ UNCHANGED <<time, unsent, socket, stream, sched, thread, app, done>>

----------------------------------------------------------------------------
(* The server thread *)

\* A plausible slip: the loop does not look at st->active.
LoopForever ==
    /\ pc = "loop"
    /\ pc' = "poll"
    /\ UNCHANGED <<time, network, sched, packet, at, since, app, done>>

\* thread_func's loop.
Loop ==
    /\ pc = "loop"
    /\ pc' = IF active THEN "poll" ELSE "exit"
    /\ UNCHANGED <<time, network, sched, packet, at, since, app, done>>

Exit ==
    /\ pc = "exit"
    /\ pc' = "exited" /\ done' = TRUE
    /\ UNCHANGED <<time, network, sched, packet, at, since, app>>

\* poll returns an error and nothing else.
Hangup == error /\ socket = <<>>

\* poll returns, and there is something to read or, with it, an error.
Ready == socket # <<>>

\* A plausible slip: only what poll says is looked at, not the queue.
PollForData ==
    /\ pc = "poll"
    /\ pc' = IF Ready THEN "recv" ELSE "loop"
    /\ UNCHANGED <<time, network, sched, packet, at, since, app, done>>

\* lo_server_recv_noblock: poll says there is data or an error, or times out after
\* 10 ms, and then the queue may be due; an error that comes later is not seen.
Poll ==
    /\ pc = "poll"
    /\ \/ (Ready \/ Due) /\ pc' = "recv"
       \/ (Hangup \/ ~(Ready \/ Due)) /\ pc' = "loop"
    /\ UNCHANGED <<time, network, sched, packet, at, since, app, done>>

\* lo_server_recv: what is due comes first ...
Recv ==
    /\ pc = "recv"
    /\ pc' = IF Due THEN "batch" ELSE "wait"
    /\ UNCHANGED <<time, network, sched, packet, at, since, app, done>>

\* ... otherwise it polls again, now without looking at st->active, until there is
\* data, an error, or the queue is due when poll has timed out.
Wait ==
    /\ pc = "wait"
    /\ \/ Ready /\ pc' = "read"
       \/ Hangup /\ pc' = "loop"
       \/ Due /\ pc' = "batch"
    /\ UNCHANGED <<time, network, sched, packet, at, since, app, done>>

\* lo_server_recv_raw: recvfrom.  It blocks until there is something, whatever
\* poll has said and however long the queue has been due.  (An empty datagram is
\* a packet without elements.)  lo_server_recv_raw_stream: accept, likewise.
Read ==
    /\ pc = "read" /\ ~error
    /\ Ready
    /\ packet' = Head(socket) /\ socket' = Tail(socket)
    /\ at' = 1
    /\ \/ ~stream /\ pc' = "element" /\ since' = Now       \* lo_timetag_now(&now)
       \/ stream /\ pc' = "accepted" /\ UNCHANGED since
    /\ UNCHANGED <<time, unsent, error, stream, sched, app, done>>

\* No data: the call takes the error, and lo_server_recv returns 0.
ReadError ==
    /\ pc = "read" /\ error
    /\ error' = FALSE
    /\ pc' = "loop"
    /\ UNCHANGED <<time, unsent, socket, stream, sched, packet, at, since, app, done>>

\* The recv of lo_server_recv_raw_stream, which waits for what its client does: it
\* sends its packet ...
ClientSends ==
    /\ pc = "accepted"
    /\ pc' = "element" /\ since' = Now
    /\ UNCHANGED <<time, network, sched, packet, at, app, done>>

\* ... or announces one that is too large, or closes the connection ...
ClientCloses ==
    /\ pc = "accepted"
    /\ pc' = "loop"
    /\ UNCHANGED <<time, network, sched, packet, at, since, app, done>>

\* ... or neither, for ever.

\* A plausible slip: before the first entry that is not earlier.
QueueBeforeEqual(e) ==
    LET i == CHOOSE i \in 1 .. Len(queue) + 1 :
                /\ \A j \in 1 .. i - 1 : Diff(queue[j].ts, e.ts) < 0
                /\ i \in DOMAIN queue => Diff(queue[i].ts, e.ts) >= 0
    IN  InsertAt(queue, i, e)

\* queue_data: before the first entry that is later.
QueueData(e) ==
    LET i == CHOOSE i \in 1 .. Len(queue) + 1 :
                /\ \A j \in 1 .. i - 1 : Diff(queue[j].ts, e.ts) <= 0
                /\ i \in DOMAIN queue => Diff(queue[i].ts, e.ts) > 0
    IN  InsertAt(queue, i, e)

HandOn(id, ts) == log' = Append(log, [id |-> id, early |-> time < Instant(ts)])

\* A plausible slip: the time is asked anew for every element.
ElementAskingTheTime ==
    /\ pc = "element" /\ at \in DOMAIN packet.elems /\ packet.elems[at] # Malformed
    /\ at' = at + 1
    /\ \/ /\ Diff(packet.ts, Now) <= 0
          /\ HandOn(packet.elems[at], packet.ts)
          /\ UNCHANGED <<queue, arrivals>>
       \/ /\ Diff(packet.ts, Now) > 0
          /\ queue' = QueueData([id |-> packet.elems[at], ts |-> packet.ts, n |-> arrivals])
          /\ arrivals' = arrivals + 1
          /\ log' = log
    /\ UNCHANGED <<time, network, pc, packet, since, app, done>>

\* lo_server_dispatch_data, one element of the bundle: an element that cannot
\* be deserialised ends it, whatever has become of the elements before.
Element ==
    /\ pc = "element" /\ at \in DOMAIN packet.elems /\ packet.elems[at] # Malformed
    /\ at' = at + 1
    /\ \/ /\ Diff(packet.ts, since) <= 0
          /\ HandOn(packet.elems[at], packet.ts)
          /\ UNCHANGED <<queue, arrivals>>
       \/ /\ Diff(packet.ts, since) > 0
          /\ queue' = QueueData([id |-> packet.elems[at], ts |-> packet.ts, n |-> arrivals])
          /\ arrivals' = arrivals + 1
          /\ log' = log
    /\ UNCHANGED <<time, network, pc, packet, since, app, done>>

EndOfData ==
    /\ pc = "element"
    /\ at \in DOMAIN packet.elems => packet.elems[at] = Malformed
    /\ pc' = "loop"
    /\ UNCHANGED <<time, network, sched, packet, at, since, app, done>>

\* dispatch_queued: the head of the list, which there is, as only this thread
\* takes from it ...
FirstOfBatch ==
    /\ pc = "batch"
    /\ queue # <<>>
    /\ HandOn(queue[1].id, queue[1].ts)
    /\ since' = queue[1].ts
    /\ queue' = Tail(queue)
    /\ pc' = "batchMore"
    /\ UNCHANGED <<time, network, arrivals, packet, at, app, done>>

SameInstant == queue # <<>> /\ Diff(queue[1].ts, since) <= 0

\* ... and the ones for the same instant (an epsilon apart).
RestOfBatch ==
    /\ pc = "batchMore"
    /\ \/ /\ SameInstant
          /\ HandOn(queue[1].id, queue[1].ts)
          /\ queue' = Tail(queue)
          /\ pc' = pc
       \/ /\ ~SameInstant
          /\ pc' = "loop"
          /\ UNCHANGED <<queue, log>>
    /\ UNCHANGED <<time, network, arrivals, packet, at, since, app, done>>

ServerThread == Loop \/ Exit \/ Poll \/ Recv \/ Wait \/ Read \/ ReadError \/ Element
                  \/ EndOfData \/ FirstOfBatch \/ RestOfBatch

----------------------------------------------------------------------------
(* The application *)

\* lo_server_thread_start ...
Start ==
    /\ ctl = "idle" /\ ~active
    /\ starts < MaxStarts
    /\ starts' = starts + 1
    /\ active' = TRUE /\ done' = FALSE
    /\ pc' = "loop"
    /\ UNCHANGED <<time, network, sched, packet, at, since, ctl, failed>>

\* ... where pthread_create fails: a message is printed.
StartFails ==
    /\ ctl = "idle" /\ ~active
    /\ starts < MaxStarts
    /\ starts' = starts + 1
    /\ active' = TRUE /\ done' = FALSE
    /\ failed' = TRUE
    /\ UNCHANGED <<time, network, sched, thread, ctl>>

\* A plausible slip: whether there is a thread is not asked.
StopUnasked ==
    /\ ctl = "idle"
    /\ active' = FALSE
    /\ ctl' = "joining"
    /\ UNCHANGED <<time, network, sched, thread, done, starts, failed>>

\* lo_server_thread_stop, up to pthread_join.
Stop ==
    /\ ctl = "idle" /\ active
    /\ active' = FALSE
    /\ ctl' = "joining"
    /\ UNCHANGED <<time, network, sched, thread, done, starts, failed>>

Joined ==
    /\ ctl = "joining"
    /\ pc = "exited"
    /\ ctl' = "idle" /\ pc' = "none"
    /\ UNCHANGED <<time, network, sched, packet, at, since, active, done, starts, failed>>

\* pthread_join of a thread that was joined before, or that there never was:
\* an error, which is printed, or anything.
JoinsNothing ==
    /\ ctl = "joining"
    /\ pc = "none"
    /\ ctl' \in {"idle", "undefined"}
    /\ UNCHANGED <<time, network, sched, thread, active, done, starts, failed>>

\* A plausible slip: the server is freed though its thread still serves it.
FreeWithoutStop ==
    /\ ctl = "idle"
    /\ ctl' = "freed"
    /\ socket' = <<>> /\ error' = FALSE
    /\ UNCHANGED <<time, unsent, stream, sched, thread, active, done, starts, failed>>

\* lo_server_thread_free, once it has stopped the thread: lo_server_free, which
\* closes the socket.  The messages still queued are neither dispatched nor freed.
Free ==
    /\ ctl = "idle" /\ ~active
    /\ ctl' = "freed"
    /\ socket' = <<>> /\ error' = FALSE
    /\ UNCHANGED <<time, unsent, stream, sched, thread, active, done, starts, failed>>

Application == Start \/ StartFails \/ Stop \/ Joined \/ JoinsNothing \/ Free

Network == Deliver \/ Vanish \/ ErrorComes \/ ErrorGoes \/ ClientSends \/ ClientCloses

Next == Tick \/ Network \/ ServerThread \/ Application

\* Time passes, both threads are scheduled, and a join that can return does.  The
\* network does what it likes, or nothing.
Fairness == WF_vars(Tick) /\ WF_vars(ServerThread) /\ WF_vars(Joined \/ JoinsNothing)

Spec     == Init /\ [][Next]_vars
FairSpec == Spec /\ Fairness

----------------------------------------------------------------------------
(* Properties *)

Pending == {queue[i] : i \in DOMAIN queue}
LogIds  == [i \in DOMAIN log |-> log[i].id]

Sched == INSTANCE Scheduler WITH pending <- Pending, log <- LogIds, Time <- CodeTime

\* queue_data and dispatch_queued together are a stable priority queue on the
\* order of lo_timetag_diff: nothing is lost in the list or dispatched twice,
\* and messages for one instant are dispatched in the order they came.
QueueIsScheduler == Sched!Spec

\* The packet an element came in, by its name.
Together(id1, id2) == \E p \in Packets : \E i, j \in DOMAIN p.elems :
                         i < j /\ p.elems[i] = id1 /\ p.elems[j] = id2

\* The messages of a bundle reach their methods in the order of the bundle and in
\* one piece, with no other message between them: at once or from the queue, with
\* other bundles for the same instant there, and however the clock moves while its
\* elements are looked at one by one.
BundlesInOnePiece ==
    \A i, j \in DOMAIN LogIds : i < j =>
        /\ ~Together(LogIds[j], LogIds[i])
        /\ Together(LogIds[i], LogIds[j]) =>
              \A k \in i + 1 .. j - 1 : Together(LogIds[i], LogIds[k])

\* Once lo_server_thread_free has freed the server no thread serves it, and
\* once a stop has returned none is left to run a method.  However start, stop and
\* free follow each other, lo_server_thread_stop joins a thread that was created
\* and not joined before, unless pthread_create has failed.
JoinedOnce ==
    /\ ctl = "freed" => pc = "none"
    /\ ctl = "idle" /\ ~active => pc = "none"
    /\ ctl = "undefined" \/ (ctl = "joining" /\ pc = "none") => failed

\* The thread is in lo_server_recv, where it looks neither at st->active nor, once
\* it reads, at the queue: it polls with nothing queued, or reads what has vanished
\* since poll announced it, or from a TCP client that sends nothing.
Blocked ==
    \/ pc = "wait" /\ socket = <<>> /\ queue = <<>>
    \/ pc = "read" /\ socket = <<>>
    \/ pc = "accepted"

\* A stop returns, however many of the server's loops the thread is in and whatever
\* is in the queue, unless the thread is blocked for ever.
StopReturns == <>[](ctl = "joining") => <>[]Blocked

\* A thread that is started and not stopped again empties the queue, again and
\* again: unless it is blocked for ever, or the socket has an error again and again,
\* which comes before the queue.  (What leaves the queue is dispatched, see
\* QueueIsScheduler.)
QueuedIsDispatched ==
    <>[](active /\ pc # "none") =>
        <>[]Blocked \/ []<>error \/ []<>(queue = <<>>)

\* lo.h: the timetag is the "timestamp at which the message will be processed",
\* so no message is processed before its timetag.
NotBeforeItsTime == \A i \in DOMAIN log : ~log[i].early
=============================================================================
