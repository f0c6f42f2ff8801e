--------------------------- MODULE LoServerProofs ---------------------------
(***************************************************************************)
(* What LoServer promises for every value of its constants: any packets,   *)
(* and any number of starts.                                               *)
(***************************************************************************)
EXTENDS LoServer, SequenceTheorems, FiniteSetTheorems, TLAPS

----------------------------------------------------------------------------
(* The life of the thread *)

\* There is a thread as long as st->active says so, and until it was joined;
\* unless pthread_create has failed.
LifeInv ==
    /\ ctl = "idle" /\ ~active => pc = "none"
    /\ ctl = "idle" /\ active => pc # "none" \/ failed
    /\ ctl = "joining" => ~active /\ (pc # "none" \/ failed)
    /\ ctl = "freed" => pc = "none"
    /\ ctl = "undefined" => pc = "none" /\ failed

LEMMA LifeStep == LifeInv /\ [Next]_vars => LifeInv'
<1> SUFFICES ASSUME LifeInv, [Next]_vars PROVE LifeInv'
  OBVIOUS
<1> USE DEF LifeInv
<1>1. CASE Tick \/ Deliver \/ Vanish \/ ErrorComes \/ ErrorGoes
  BY <1>1 DEF Tick, Deliver, Vanish, ErrorComes, ErrorGoes, thread, app
<1>2. CASE ServerThread \/ ClientSends \/ ClientCloses
  \* These steps begin and end at a label of the thread.
  <2>1. pc # "none" /\ pc' # "none" /\ UNCHANGED app
    BY <1>2 DEF ServerThread, Loop, Exit, Poll, Recv, Wait, Read, ReadError, Element,
                EndOfData, FirstOfBatch, RestOfBatch, ClientSends, ClientCloses
  <2> QED BY <2>1 DEF app
<1>3. CASE Start
  BY <1>3 DEF Start
<1>4. CASE StartFails
  BY <1>4 DEF StartFails, thread
<1>5. CASE Stop
  BY <1>5 DEF Stop, thread
<1>6. CASE Joined
  BY <1>6 DEF Joined
<1>7. CASE JoinsNothing
  BY <1>7 DEF JoinsNothing, thread
<1>8. CASE Free
  BY <1>8 DEF Free, thread
<1>9. CASE UNCHANGED vars
  BY <1>9 DEF vars, thread, app
<1> QED BY <1>1, <1>2, <1>3, <1>4, <1>5, <1>6, <1>7, <1>8, <1>9 DEF Next, Network, Application

LEMMA Life == Spec => []LifeInv
<1>1. Init => LifeInv
  BY DEF Init, LifeInv
<1> QED BY <1>1, LifeStep, PTL DEF Spec

\* However often the thread is started and stopped: once a stop has returned, or
\* the server was freed, no thread serves it, and lo_server_thread_stop joins a
\* thread that is there, unless pthread_create has failed.
THEOREM ThreadsAreJoinedOnce == Spec => []JoinedOnce
<1>1. LifeInv => JoinedOnce
  BY DEF LifeInv, JoinedOnce
<1> QED BY <1>1, Life, PTL

----------------------------------------------------------------------------
(***************************************************************************)
(* The queue of a liblo server implements Scheduler, a stable priority     *)
(* queue, for any packets, times of arrival and numbers of starts.         *)
(*                                                                         *)
(* Three things are needed beside the list itself: that queue_data finds   *)
(* a place in the list for every message (Place), that the list is sorted  *)
(* by time and, within one time, by arrival (Sorted), and that a message   *)
(* still to come is not one that came before (Fresh).                      *)
(***************************************************************************)
Entries == [id : Ids, ts : Timetags, n : Nat]
Record  == [id : Ids, early : BOOLEAN]

----------------------------------------------------------------------------
(* Inserting into a list *)

\* What the list is after an insertion, entry by entry.
LEMMA Inserted ==
  ASSUME NEW S, NEW q \in Seq(S), NEW i \in 1 .. Len(q) + 1, NEW e \in S
  PROVE  LET r == InsertAt(q, i, e)
         IN  /\ r \in Seq(S) /\ Len(r) = Len(q) + 1
             /\ \A k \in 1 .. Len(r) :
                    r[k] = IF k < i THEN q[k] ELSE IF k = i THEN e ELSE q[k - 1]
<1> DEFINE before == SubSeq(q, 1, i - 1)
           after  == SubSeq(q, i, Len(q))
<1>1. \A k \in DOMAIN q : q[k] \in S /\ DOMAIN q = 1 .. Len(q) /\ Len(q) \in Nat
  OBVIOUS
<1>2. /\ before \in Seq(S) /\ Len(before) = i - 1
      /\ \A k \in 1 .. i - 1 : before[k] = q[k]
  BY SubSeqProperties
<1>3. /\ after \in Seq(S) /\ Len(after) = Len(q) - i + 1
      /\ \A k \in 1 .. Len(q) - i + 1 : after[k] = q[i + k - 1]
  BY SubSeqProperties
<1>4. <<e>> \in Seq(S) /\ Len(<<e>>) = 1 /\ <<e>>[1] = e
  OBVIOUS
<1> DEFINE front == before \o <<e>>
<1>5. /\ front \in Seq(S) /\ Len(front) = i
      /\ \A k \in 1 .. i : front[k] = IF k < i THEN q[k] ELSE e
  <2>1. /\ front \in Seq(S) /\ Len(front) = Len(before) + Len(<<e>>)
        /\ \A k \in 1 .. Len(before) + Len(<<e>>) :
              front[k] = IF k <= Len(before) THEN before[k] ELSE <<e>>[k - Len(before)]
    BY <1>2, <1>4, ConcatProperties
  <2> HIDE DEF before, front
  <2> QED BY <2>1, <1>2, <1>4
<1>6. InsertAt(q, i, e) = front \o after
  BY DEF InsertAt
<1> HIDE DEF before, after, front
<1>7. front \in Seq(S) /\ after \in Seq(S)
  BY <1>3, <1>5
<1>8. /\ front \o after \in Seq(S) /\ Len(front \o after) = Len(front) + Len(after)
      /\ \A k \in 1 .. Len(front) + Len(after) :
            (front \o after)[k] = IF k <= Len(front) THEN front[k] ELSE after[k - Len(front)]
  BY <1>7, ConcatProperties
<1> QED BY <1>3, <1>5, <1>6, <1>8

\* Of a set of natural numbers one is the smallest.
LEMMA Smallest ==
  ASSUME NEW T, T \subseteq Nat, T # {}
  PROVE  \E x \in T : \A y \in T : x <= y
<1>1. PICK x \in T : \A y \in T : ~(<<y, x>> \in OpToRel(<, Nat))
  BY NatLessThanWellFounded, WFMin
<1>2. \A y \in T : ~(y < x)
  BY <1>1 DEF OpToRel
<1> QED BY <1>2

LEMMA TimetagType == \A ts \in Timetags : ts \in [sec : Nat, frac : 0 .. 3]
  BY LoServerAssumption DEF Timetags

LEMMA DiffIsDifference ==
  ASSUME NEW a \in Timetags, NEW b \in Timetags
  PROVE  Diff(a, b) = CodeTime(a) - CodeTime(b) /\ CodeTime(a) \in Int /\ CodeTime(b) \in Int
  BY TimetagType DEF Diff, CodeTime

\* The place queue_data looks for: after all that are not later, up to the first
\* that is.
IsPlace(q, e, i) ==
    /\ \A j \in 1 .. i - 1 : Diff(q[j].ts, e.ts) <= 0
    /\ i \in DOMAIN q => Diff(q[i].ts, e.ts) > 0

LEMMA Place ==
  ASSUME NEW q \in Seq(Entries), NEW e \in Entries
  PROVE  \E i \in 1 .. Len(q) + 1 : IsPlace(q, e, i)
<1> DEFINE Later == {j \in 1 .. Len(q) : Diff(q[j].ts, e.ts) > 0}
<1>1. \A j \in 1 .. Len(q) : Diff(q[j].ts, e.ts) \in Int
  <2> TAKE j \in 1 .. Len(q)
  <2>1. q[j] \in Entries
    OBVIOUS
  <2>2. q[j].ts \in Timetags /\ e.ts \in Timetags
    BY <2>1 DEF Entries
  <2> QED BY <2>2, DiffIsDifference
<1>2. CASE Later = {}
  <2>1. IsPlace(q, e, Len(q) + 1)
    BY <1>1, <1>2 DEF IsPlace
  <2> QED BY <2>1
<1>3. CASE Later # {}
  <2>1. PICK i \in Later : \A j \in Later : i <= j
    <3>1. Later \subseteq Nat
      OBVIOUS
    <3> HIDE DEF Later
    <3> QED BY <3>1, <1>3, Smallest
  <2>2. \A j \in 1 .. i - 1 : j \notin Later /\ j \in 1 .. Len(q)
    BY <2>1
  <2>3. IsPlace(q, e, i)
    BY <2>1, <2>2, <1>1 DEF IsPlace
  <2> QED BY <2>1, <2>3
<1> QED BY <1>2, <1>3

\* The list after queue_data, entry by entry.
LEMMA Queued ==
  ASSUME queue \in Seq(Entries), NEW e \in Entries
  PROVE  \E i \in 1 .. Len(queue) + 1 :
            /\ IsPlace(queue, e, i)
            /\ QueueData(e) \in Seq(Entries) /\ Len(QueueData(e)) = Len(queue) + 1
            /\ \A k \in 1 .. Len(queue) + 1 :
                  QueueData(e)[k] = IF k < i THEN queue[k] ELSE IF k = i THEN e ELSE queue[k - 1]
<1> DEFINE i == CHOOSE i \in 1 .. Len(queue) + 1 : IsPlace(queue, e, i)
<1>1. i \in 1 .. Len(queue) + 1 /\ IsPlace(queue, e, i)
  BY Place
<1>2. QueueData(e) = InsertAt(queue, i, e)
  BY DEF QueueData, IsPlace
<1> HIDE DEF i
<1>3. /\ InsertAt(queue, i, e) \in Seq(Entries)
      /\ Len(InsertAt(queue, i, e)) = Len(queue) + 1
      /\ \A k \in 1 .. Len(queue) + 1 :
            InsertAt(queue, i, e)[k] = IF k < i THEN queue[k] ELSE IF k = i THEN e ELSE queue[k - 1]
  BY <1>1, Inserted
<1> QED BY <1>1, <1>2, <1>3

----------------------------------------------------------------------------
(* The invariant *)

Typed ==
    /\ unsent \subseteq Packets /\ socket \in Seq(Packets)
    /\ queue \in Seq(Entries) /\ arrivals \in Nat /\ log \in Seq(Record)
    /\ at \in Nat

\* The thread has a packet: it has come, or its client may yet send it.
HasPacket == pc \in {"accepted", "element"}

\* A packet is delivered once.
Once ==
    /\ \A i, j \in DOMAIN socket : socket[i] = socket[j] => i = j
    /\ \A i \in DOMAIN socket : socket[i] \notin unsent
    /\ HasPacket => /\ packet \in Packets \ unsent
                    /\ \A i \in DOMAIN socket : socket[i] # packet

Known == {queue[i].id : i \in DOMAIN queue} \cup {log[i].id : i \in DOMAIN log}

\* The i-th element of p has still to be looked at.
ToCome(p, i) == \/ p \in unsent
                \/ \E k \in DOMAIN socket : socket[k] = p
                \/ HasPacket /\ packet = p /\ i >= at

Fresh == \A p \in Packets : \A i \in DOMAIN p.elems :
            ToCome(p, i) /\ p.elems[i] # Malformed => p.elems[i] \notin Known

Earlier(d, e) == CodeTime(d.ts) < CodeTime(e.ts) \/ (CodeTime(d.ts) = CodeTime(e.ts) /\ d.n < e.n)

Sorted ==
    /\ \A i \in DOMAIN queue : queue[i].n < arrivals
    /\ \A i, j \in DOMAIN queue : i < j => Earlier(queue[i], queue[j])

Inv == Typed /\ Once /\ Fresh /\ Sorted

LEMMA InvInit == Init => Inv
<1> SUFFICES ASSUME Init PROVE Inv
  OBVIOUS
<1>1. Typed
  BY DEF Init, Typed
<1>2. socket = <<>> /\ queue = <<>> /\ log = <<>> /\ pc = "none"
  BY DEF Init
<1>3. Once /\ Fresh /\ Sorted
  BY <1>2 DEF Once, Fresh, Sorted, Known, HasPacket, ToCome, Init
<1> QED BY <1>1, <1>3 DEF Inv

\* What a message that is looked at adds to Known was not there before, and is
\* not the name of one still to come.
LEMMA ElementIsFresh ==
  ASSUME Inv, Element
  PROVE  /\ packet \in Packets /\ at \in DOMAIN packet.elems
         /\ packet.elems[at] \in Ids \ Known /\ packet.ts \in Timetags
<1>1. /\ pc = "element" /\ packet \in Packets /\ at \in Nat
      /\ at \in DOMAIN packet.elems /\ packet.elems[at] # Malformed
  BY DEF Element, Inv, Once, Typed, HasPacket
<1>2. packet.elems[at] \in Ids /\ packet.ts \in Timetags
  BY <1>1 DEF Ids, Timetags
<1>3. packet.elems[at] \notin Known
  BY <1>1 DEF Inv, Fresh, ToCome, HasPacket
<1> QED BY <1>1, <1>2, <1>3

\* Steps that touch neither the packets nor the queue.
Quiet == UNCHANGED <<unsent, socket, sched, packet, at>> /\ (HasPacket' => HasPacket)

LEMMA QuietStep == Inv /\ Quiet => Inv'
  BY DEF Inv, Typed, Once, Fresh, ToCome, Sorted, Known, Quiet, sched

LEMMA DeliverStep == Inv /\ Deliver => Inv'
<1> SUFFICES ASSUME Inv, Deliver PROVE Inv'
  OBVIOUS
<1> USE DEF HasPacket
<1>1. PICK p \in unsent : unsent' = unsent \ {p} /\ socket' = Append(socket, p)
  BY DEF Deliver
<1>2. UNCHANGED <<sched, packet, at, pc>>
  BY DEF Deliver, thread
<1>3. /\ p \in Packets /\ Len(socket) \in Nat /\ DOMAIN socket = 1 .. Len(socket)
      /\ Append(socket, p) \in Seq(Packets) /\ DOMAIN socket' = 1 .. Len(socket) + 1
      /\ \A i \in 1 .. Len(socket) : socket'[i] = socket[i]
      /\ socket'[Len(socket) + 1] = p
  BY <1>1 DEF Inv, Typed
<1>4. Typed'
  BY <1>1, <1>2, <1>3 DEF Inv, Typed, sched
<1>5. Once'
  BY <1>1, <1>2, <1>3 DEF Inv, Once
<1>6. \A q, i : ToCome(q, i)' => ToCome(q, i)
  BY <1>1, <1>2, <1>3 DEF ToCome
<1>7. Fresh' /\ Sorted'
  BY <1>2, <1>6 DEF Inv, Fresh, Sorted, Known, sched
<1> QED BY <1>4, <1>5, <1>7 DEF Inv

\* A packet is taken out of the socket.
LEMMA SocketTail ==
  ASSUME Inv, socket # <<>>, socket' = Tail(socket)
  PROVE  /\ Head(socket) \in Packets /\ socket' \in Seq(Packets)
         /\ 1 \in DOMAIN socket /\ Head(socket) = socket[1]
         /\ \A k \in DOMAIN socket' : k + 1 \in DOMAIN socket /\ socket'[k] = socket[k + 1]
                                     /\ k \in Nat /\ k > 0
<1>1. socket \in Seq(Packets)
  BY DEF Inv, Typed
<1>2. /\ Head(socket) \in Packets /\ Tail(socket) \in Seq(Packets)
      /\ Len(Tail(socket)) = Len(socket) - 1
      /\ \A i \in 1 .. Len(Tail(socket)) : Tail(socket)[i] = socket[i + 1]
  BY <1>1, HeadTailProperties
<1>3. Len(socket) \in Nat /\ Len(socket) > 0 /\ DOMAIN socket = 1 .. Len(socket)
  BY <1>1
<1>4. DOMAIN Tail(socket) = 1 .. Len(socket) - 1
  BY <1>2
<1>5. Head(socket) = socket[1]
  BY <1>1
<1> QED BY <1>2, <1>3, <1>4, <1>5

LEMMA VanishStep == Inv /\ Vanish => Inv'
<1> SUFFICES ASSUME Inv, Vanish PROVE Inv'
  OBVIOUS
<1> USE DEF HasPacket
<1>1. /\ socket # <<>> /\ socket' = Tail(socket)
      /\ UNCHANGED <<unsent, queue, arrivals, log, packet, at, pc>>
  BY DEF Vanish, sched, thread
<1>2. Typed'
  BY <1>1, SocketTail DEF Inv, Typed
<1>3. Once'
  BY <1>1, SocketTail DEF Inv, Once
<1>4. \A q, i : ToCome(q, i)' => ToCome(q, i)
  BY <1>1, SocketTail DEF ToCome
<1>5. Fresh' /\ Sorted'
  BY <1>1, <1>4 DEF Inv, Fresh, Sorted, Known
<1> QED BY <1>2, <1>3, <1>5 DEF Inv

\* lo_server_free closes the socket.
LEMMA FreeStep == Inv /\ Free => Inv'
<1> SUFFICES ASSUME Inv, Free PROVE Inv'
  OBVIOUS
<1> USE DEF HasPacket
<1>1. socket' = <<>> /\ UNCHANGED <<unsent, queue, arrivals, log, packet, at, pc>>
  BY DEF Free, sched, thread
<1>2. Typed' /\ Once'
  BY <1>1 DEF Inv, Typed, Once
<1>3. \A q, i : ToCome(q, i)' => ToCome(q, i)
  BY <1>1 DEF ToCome
<1>4. Fresh' /\ Sorted'
  BY <1>1, <1>3 DEF Inv, Fresh, Sorted, Known
<1> QED BY <1>2, <1>4 DEF Inv

LEMMA ReadStep == Inv /\ Read => Inv'
<1> SUFFICES ASSUME Inv, Read PROVE Inv'
  OBVIOUS
<1> USE DEF HasPacket
<1>1. /\ socket # <<>> /\ socket' = Tail(socket) /\ packet' = Head(socket)
      /\ pc' \in {"accepted", "element"} /\ at' = 1
      /\ UNCHANGED <<unsent, queue, arrivals, log>>
  BY DEF Read, Ready, sched
<1>2. Typed'
  BY <1>1, SocketTail DEF Inv, Typed
<1>3. Once'
  BY <1>1, SocketTail DEF Inv, Once
<1>4. \A q, i : ToCome(q, i)' => ToCome(q, i)
  BY <1>1, SocketTail DEF ToCome
<1>5. Fresh' /\ Sorted'
  BY <1>1, <1>4 DEF Inv, Fresh, Sorted, Known
<1> QED BY <1>2, <1>3, <1>5 DEF Inv

\* What is common to the two steps of dispatch_queued that dispatch a message.
HeadTaken ==
    /\ queue # <<>> /\ queue' = Tail(queue)
    /\ \E early \in BOOLEAN : log' = Append(log, [id |-> queue[1].id, early |-> early])
    /\ UNCHANGED <<unsent, socket, arrivals, packet, at>>
    /\ ~HasPacket /\ ~HasPacket'

LEMMA QueueTail ==
  ASSUME Inv, HeadTaken
  PROVE  /\ queue[1] \in Entries /\ queue' \in Seq(Entries)
         /\ Len(queue) \in Nat \ {0} /\ DOMAIN queue = 1 .. Len(queue)
         /\ DOMAIN queue' = 1 .. Len(queue) - 1
         /\ \A k \in DOMAIN queue' : queue'[k] = queue[k + 1]
<1>1. queue \in Seq(Entries) /\ queue # <<>> /\ queue' = Tail(queue)
  BY DEF Inv, Typed, HeadTaken
<1>2. /\ Tail(queue) \in Seq(Entries) /\ Len(Tail(queue)) = Len(queue) - 1
      /\ \A i \in 1 .. Len(Tail(queue)) : Tail(queue)[i] = queue[i + 1]
  BY <1>1, HeadTailProperties
<1>3. Len(queue) \in Nat \ {0} /\ DOMAIN queue = 1 .. Len(queue)
  BY <1>1
<1>4. queue[1] \in Entries
  BY <1>1, <1>3
<1> QED BY <1>1, <1>2, <1>3, <1>4

\* A log that grew by one message.
LEMMA LogGrown ==
  ASSUME log \in Seq(Record), NEW r \in Record, log' = Append(log, r)
  PROVE  /\ log' \in Seq(Record)
         /\ Len(log) \in Nat /\ DOMAIN log = 1 .. Len(log) /\ DOMAIN log' = 1 .. Len(log) + 1
         /\ \A k \in 1 .. Len(log) : log'[k] = log[k]
         /\ log'[Len(log) + 1] = r
  OBVIOUS

LEMMA HeadTakenStep == Inv /\ HeadTaken => Inv'
<1> SUFFICES ASSUME Inv, HeadTaken PROVE Inv'
  OBVIOUS
<1> USE DEF HasPacket
<1>1. PICK early \in BOOLEAN : log' = Append(log, [id |-> queue[1].id, early |-> early])
  BY DEF HeadTaken
<1>2. [id |-> queue[1].id, early |-> early] \in Record
  BY QueueTail DEF Entries, Record
<1>3. log \in Seq(Record)
  BY DEF Inv, Typed
<1>4. Typed'
  BY <1>1, <1>2, <1>3, LogGrown, QueueTail DEF Inv, Typed, HeadTaken
<1>5. Once'
  BY DEF Inv, Once, HeadTaken
<1>6. \A p, i : ToCome(p, i)' => ToCome(p, i)
  BY DEF ToCome, HeadTaken
<1>7. Known' \subseteq Known
  <2>1. \A k \in DOMAIN queue' : k + 1 \in DOMAIN queue /\ queue'[k].id = queue[k + 1].id
    BY QueueTail
  <2>2. 1 \in DOMAIN queue
    BY QueueTail
  <2>3. \A k \in DOMAIN log' : (k \in DOMAIN log /\ log'[k].id = log[k].id)
                                \/ log'[k].id = queue[1].id
    BY <1>1, <1>2, <1>3, LogGrown
  <2> QED BY <2>1, <2>2, <2>3 DEF Known
<1>8. Fresh'
  BY <1>6, <1>7 DEF Inv, Fresh
<1>9. Sorted'
  <2>1. \A k \in DOMAIN queue' : k + 1 \in DOMAIN queue /\ queue'[k] = queue[k + 1] /\ k \in Nat
    BY QueueTail
  <2>2. \A k \in DOMAIN queue' : queue'[k].n < arrivals'
    BY <2>1 DEF Inv, Sorted, HeadTaken
  <2>3. ASSUME NEW j \in DOMAIN queue', NEW k \in DOMAIN queue', j < k
        PROVE  Earlier(queue'[j], queue'[k])
    <3>1. Earlier(queue[j + 1], queue[k + 1])
      BY <2>1, <2>3 DEF Inv, Sorted
    <3> QED BY <2>1, <3>1
  <2> QED BY <2>2, <2>3 DEF Sorted, Earlier
<1> QED BY <1>4, <1>5, <1>8, <1>9 DEF Inv

\* The two things lo_server_dispatch_data does with a message.
AtOnce(id) == /\ \E early \in BOOLEAN : log' = Append(log, [id |-> id, early |-> early])
              /\ UNCHANGED <<queue, arrivals>>

Kept(id, ts) == /\ queue' = QueueData([id |-> id, ts |-> ts, n |-> arrivals])
                /\ arrivals' = arrivals + 1 /\ log' = log

LEMMA ElementCases ==
  ASSUME Inv, Element
  PROVE  /\ AtOnce(packet.elems[at]) \/ Kept(packet.elems[at], packet.ts)
         /\ UNCHANGED <<unsent, socket, pc, packet>> /\ at' = at + 1
<1>1. (time < Instant(packet.ts)) \in BOOLEAN
  OBVIOUS
<1>2. AtOnce(packet.elems[at]) \/ Kept(packet.elems[at], packet.ts)
  BY <1>1 DEF Element, HandOn, AtOnce, Kept
<1> QED BY <1>2 DEF Element, network

LEMMA AtOnceKeeps ==
  ASSUME Inv, NEW id \in Ids, AtOnce(id)
  PROVE  log' \in Seq(Record) /\ Known' = Known \cup {id} /\ Sorted'
<1>1. PICK early \in BOOLEAN : log' = Append(log, [id |-> id, early |-> early])
  BY DEF AtOnce
<1>2. [id |-> id, early |-> early] \in Record /\ log \in Seq(Record)
  BY DEF Inv, Typed, Record
<1>3. /\ log' \in Seq(Record)
      /\ Len(log) \in Nat /\ DOMAIN log = 1 .. Len(log) /\ DOMAIN log' = 1 .. Len(log) + 1
      /\ \A k \in 1 .. Len(log) : log'[k] = log[k]
      /\ log'[Len(log) + 1] = [id |-> id, early |-> early]
  BY <1>1, <1>2, LogGrown
<1>4. {log'[k].id : k \in DOMAIN log'} = {log[k].id : k \in DOMAIN log} \cup {id}
  BY <1>3
<1>5. queue' = queue /\ arrivals' = arrivals
  BY DEF AtOnce
<1> QED BY <1>3, <1>4, <1>5 DEF Known, Sorted, Inv

\* The place divides the queue: what is behind the first entry that is later is
\* later, too.
LEMMA PlaceDivides ==
  ASSUME Inv, NEW e \in Entries, NEW i \in 1 .. Len(queue) + 1, IsPlace(queue, e, i)
  PROVE  \A k \in DOMAIN queue : /\ k < i => CodeTime(queue[k].ts) <= CodeTime(e.ts)
                                 /\ ~(k < i) => CodeTime(queue[k].ts) > CodeTime(e.ts)
<1>1. /\ queue \in Seq(Entries) /\ Len(queue) \in Nat /\ DOMAIN queue = 1 .. Len(queue)
      /\ e.ts \in Timetags
  BY DEF Inv, Typed, Entries
<1>2. \A k \in DOMAIN queue : /\ Diff(queue[k].ts, e.ts) = CodeTime(queue[k].ts) - CodeTime(e.ts)
                              /\ CodeTime(queue[k].ts) \in Int /\ CodeTime(e.ts) \in Int
  <2>1. \A k \in DOMAIN queue : queue[k] \in Entries
    BY <1>1
  <2>2. \A k \in DOMAIN queue : queue[k].ts \in Timetags
    BY <2>1 DEF Entries
  <2> QED BY <1>1, <2>2, DiffIsDifference
<1> SUFFICES ASSUME NEW k \in DOMAIN queue
             PROVE  /\ k < i => CodeTime(queue[k].ts) <= CodeTime(e.ts)
                    /\ ~(k < i) => CodeTime(queue[k].ts) > CodeTime(e.ts)
  OBVIOUS
<1>3. CASE k < i
  BY <1>3, <1>1, <1>2 DEF IsPlace
<1>4. CASE k = i
  BY <1>4, <1>1, <1>2 DEF IsPlace
<1>5. CASE k > i
  <2>1. i \in DOMAIN queue /\ Earlier(queue[i], queue[k])
    BY <1>5, <1>1 DEF Inv, Sorted
  <2>2. Diff(queue[i].ts, e.ts) > 0
    BY <2>1 DEF IsPlace
  <2> QED BY <1>5, <1>2, <2>1, <2>2, <1>1 DEF Earlier
<1> QED BY <1>3, <1>4, <1>5, <1>1

LEMMA KeptKeeps ==
  ASSUME Inv, NEW id \in Ids, NEW ts \in Timetags, Kept(id, ts)
  PROVE  /\ queue' \in Seq(Entries) /\ arrivals' \in Nat /\ Known' = Known \cup {id} /\ Sorted'
         /\ {queue'[k] : k \in DOMAIN queue'}
              = {queue[k] : k \in DOMAIN queue} \cup {[id |-> id, ts |-> ts, n |-> arrivals]}
<1> DEFINE e == [id |-> id, ts |-> ts, n |-> arrivals]
<1>1. arrivals \in Nat /\ queue \in Seq(Entries) /\ e \in Entries
  BY DEF Inv, Typed, Entries
<1>2. queue' = QueueData(e) /\ arrivals' = arrivals + 1 /\ log' = log
  BY DEF Kept
<1>3. e.id = id /\ e.ts = ts /\ e.n = arrivals
  OBVIOUS
<1> HIDE DEF e
<1>4. PICK i \in 1 .. Len(queue) + 1 :
          /\ IsPlace(queue, e, i)
          /\ queue' \in Seq(Entries) /\ Len(queue') = Len(queue) + 1
          /\ \A k \in 1 .. Len(queue) + 1 :
                queue'[k] = IF k < i THEN queue[k] ELSE IF k = i THEN e ELSE queue[k - 1]
  BY <1>1, <1>2, Queued
<1>5. /\ Len(queue) \in Nat /\ DOMAIN queue = 1 .. Len(queue)
      /\ DOMAIN queue' = 1 .. Len(queue) + 1
  BY <1>1, <1>4
<1>6. {queue'[k] : k \in DOMAIN queue'} = {queue[k] : k \in DOMAIN queue} \cup {e}
  <2>1. \A k \in DOMAIN queue' : queue'[k] = e \/ \E j \in DOMAIN queue : queue'[k] = queue[j]
    BY <1>4, <1>5
  <2>2. \A j \in DOMAIN queue : \E k \in DOMAIN queue' : queue'[k] = queue[j]
    <3> TAKE j \in DOMAIN queue
    <3>1. CASE j < i
      BY <3>1, <1>4, <1>5
    <3>2. CASE ~(j < i)
      <4>1. j + 1 \in DOMAIN queue' /\ queue'[j + 1] = queue[j]
        BY <3>2, <1>4, <1>5
      <4> QED BY <4>1
    <3> QED BY <3>1, <3>2
  <2>3. i \in DOMAIN queue' /\ queue'[i] = e
    BY <1>4, <1>5
  <2> QED BY <2>1, <2>2, <2>3
<1>7. {queue'[k].id : k \in DOMAIN queue'} = {queue[k].id : k \in DOMAIN queue} \cup {id}
  <2>1. {queue'[k].id : k \in DOMAIN queue'} = {x.id : x \in {queue'[k] : k \in DOMAIN queue'}}
    OBVIOUS
  <2>2. {queue[k].id : k \in DOMAIN queue} = {x.id : x \in {queue[k] : k \in DOMAIN queue}}
    OBVIOUS
  <2> QED BY <2>1, <2>2, <1>6, <1>3
<1>8. Known' = Known \cup {id}
  BY <1>2, <1>7 DEF Known
<1>9. Sorted'
  <2>1. \A k \in DOMAIN queue : queue[k].n \in Nat /\ queue[k].n < arrivals
                                /\ queue[k].ts \in Timetags
    <3>1. \A k \in DOMAIN queue : queue[k] \in Entries
      BY <1>1
    <3> QED BY <3>1 DEF Inv, Sorted, Entries
  <2>2. \A k \in DOMAIN queue' : queue'[k].n < arrivals'
    <3> TAKE k \in DOMAIN queue'
    <3>1. queue'[k] = e \/ \E j \in DOMAIN queue : queue'[k] = queue[j]
      BY <1>6
    <3> QED BY <3>1, <2>1, <1>1, <1>2, <1>3
  <2>3. \A k \in DOMAIN queue : /\ k < i => CodeTime(queue[k].ts) <= CodeTime(ts)
                                /\ ~(k < i) => CodeTime(queue[k].ts) > CodeTime(ts)
    BY <1>1, <1>3, <1>4, PlaceDivides
  <2>4. ASSUME NEW j \in DOMAIN queue', NEW k \in DOMAIN queue', j < k
        PROVE  Earlier(queue'[j], queue'[k])
    <3>1. CASE j # i /\ k # i
      <4> DEFINE Old(m) == IF m < i THEN m ELSE m - 1
      <4>1. /\ Old(j) \in DOMAIN queue /\ Old(k) \in DOMAIN queue /\ Old(j) < Old(k)
            /\ queue'[j] = queue[Old(j)] /\ queue'[k] = queue[Old(k)]
        BY <3>1, <2>4, <1>4, <1>5
      <4> QED BY <4>1 DEF Inv, Sorted
    <3>2. CASE k = i
      <4>1. j \in DOMAIN queue /\ queue'[j] = queue[j] /\ queue'[k] = e /\ j < i
        BY <3>2, <2>4, <1>4, <1>5
      <4>2. CodeTime(queue[j].ts) \in Int /\ CodeTime(ts) \in Int
        BY <4>1, <2>1, DiffIsDifference
      <4> QED BY <4>1, <4>2, <2>1, <2>3, <1>3 DEF Earlier
    <3>3. CASE j = i
      <4>1. /\ k - 1 \in DOMAIN queue /\ queue'[k] = queue[k - 1] /\ queue'[j] = e
            /\ ~(k - 1 < i)
        BY <3>3, <2>4, <1>4, <1>5
      <4>2. CodeTime(queue[k - 1].ts) \in Int /\ CodeTime(ts) \in Int
        BY <4>1, <2>1, DiffIsDifference
      <4> QED BY <4>1, <4>2, <2>3, <1>3 DEF Earlier
    <3> QED BY <3>1, <3>2, <3>3
  <2> QED BY <2>2, <2>4 DEF Sorted, Earlier
<1>10. arrivals' \in Nat
  BY <1>1, <1>2
<1> QED BY <1>4, <1>6, <1>8, <1>9, <1>10 DEF e

LEMMA ElementStep == Inv /\ Element => Inv'
<1> SUFFICES ASSUME Inv, Element PROVE Inv'
  OBVIOUS
<1> USE DEF HasPacket
<1> DEFINE id == packet.elems[at]
<1>1. /\ packet \in Packets /\ at \in DOMAIN packet.elems
      /\ id \in Ids /\ id \notin Known /\ packet.ts \in Timetags /\ pc = "element"
  BY ElementIsFresh DEF Element
<1>2. UNCHANGED <<unsent, socket, pc, packet>> /\ at' = at + 1 /\ at \in Nat
  BY ElementCases DEF Inv, Typed
<1>3. log' \in Seq(Record) /\ queue' \in Seq(Entries) /\ arrivals' \in Nat
      /\ Known' = Known \cup {id} /\ Sorted'
  <2>1. CASE AtOnce(id)
    BY <2>1, <1>1, AtOnceKeeps DEF AtOnce, Inv, Typed
  <2>2. CASE Kept(id, packet.ts)
    BY <2>2, <1>1, KeptKeeps DEF Kept, Inv, Typed
  <2> QED BY <2>1, <2>2, ElementCases
<1>4. Typed' /\ Once'
  BY <1>2, <1>3 DEF Inv, Typed, Once
<1>5. Fresh'
  <2> SUFFICES ASSUME NEW p \in Packets, NEW i \in DOMAIN p.elems,
                      ToCome(p, i)', p.elems[i] # Malformed
               PROVE  p.elems[i] \notin Known'
    BY DEF Fresh
  <2>1. ToCome(p, i) /\ ~(p = packet /\ i = at)
    <3>1. CASE p = packet
      <4>1. p \notin unsent /\ \A k \in DOMAIN socket : socket[k] # p
        BY <3>1, <1>1 DEF Inv, Once
      <4>2. i >= at + 1
        BY <4>1, <1>2 DEF ToCome
      <4> HIDE DEF id
      <4>3. CASE i = at
        BY <4>2, <4>3, <1>2
      <4>4. CASE i # at
        <5>1. i \in Int
          BY LoServerAssumption
        <5> QED BY <5>1, <4>2, <4>4, <3>1, <1>1, <1>2 DEF ToCome
      <4> QED BY <4>3, <4>4
    <3>2. CASE p # packet
      BY <3>2, <1>2 DEF ToCome
    <3> QED BY <3>1, <3>2
  <2>2. p.elems[i] \notin Known
    BY <2>1 DEF Inv, Fresh
  <2>3. p.elems[i] # id
    BY <2>1, <1>1, LoServerAssumption
  <2> QED BY <2>2, <2>3, <1>3
<1> QED BY <1>3, <1>4, <1>5 DEF Inv

LEMMA BatchTakesHead ==
  /\ Inv /\ FirstOfBatch => HeadTaken
  /\ Inv /\ RestOfBatch => HeadTaken \/ Quiet
<1>1. \A ts : (time < Instant(ts)) \in BOOLEAN
  OBVIOUS
<1>2. Inv /\ FirstOfBatch => HeadTaken
  BY <1>1 DEF FirstOfBatch, HandOn, HeadTaken, HasPacket, network
<1>3. Inv /\ RestOfBatch => HeadTaken \/ Quiet
  BY <1>1 DEF RestOfBatch, SameInstant, HandOn, HeadTaken, Quiet, HasPacket, sched, network
<1> QED BY <1>2, <1>3

\* The steps that move neither packets nor messages.
Waits == Loop \/ Exit \/ Poll \/ Recv \/ Wait \/ ReadError \/ EndOfData
           \/ ClientSends \/ ClientCloses

Commands == Start \/ StartFails \/ Stop \/ Joined \/ JoinsNothing

Others == Tick \/ ErrorComes \/ ErrorGoes \/ Waits \/ Commands \/ UNCHANGED vars

LEMMA OthersAreQuiet == Others => Quiet
<1> USE DEF Quiet, HasPacket, sched
<1>1. CASE Tick \/ ErrorComes \/ ErrorGoes \/ UNCHANGED vars
  BY <1>1 DEF Tick, ErrorComes, ErrorGoes, vars, network, thread
<1>2. CASE Waits
  BY <1>2 DEF Waits, Loop, Exit, Poll, Recv, Wait, ReadError, EndOfData, ClientSends,
              ClientCloses, network
<1>3. CASE Commands
  BY <1>3 DEF Commands, Start, StartFails, Stop, Joined, JoinsNothing, thread, network
<1> QED BY <1>1, <1>2, <1>3 DEF Others

\* Every step is one of these.
LEMMA Steps ==
  ASSUME [Next]_vars
  PROVE  Others \/ Deliver \/ Vanish \/ Free \/ Read \/ Element \/ FirstOfBatch \/ RestOfBatch
  BY DEF Next, Network, ServerThread, Application, Others, Waits, Commands

LEMMA InvStep == Inv /\ [Next]_vars => Inv'
<1> SUFFICES ASSUME Inv, [Next]_vars PROVE Inv'
  OBVIOUS
<1>1. CASE Others
  BY <1>1, OthersAreQuiet, QuietStep
<1>2. CASE Deliver
  BY <1>2, DeliverStep
<1>3. CASE Vanish
  BY <1>3, VanishStep
<1>4. CASE Free
  BY <1>4, FreeStep
<1>7. CASE Read
  BY <1>7, ReadStep
<1>5. CASE Element
  BY <1>5, ElementStep
<1>6. CASE FirstOfBatch \/ RestOfBatch
  BY <1>6, BatchTakesHead, HeadTakenStep, QuietStep
<1> QED BY <1>1, <1>2, <1>3, <1>4, <1>5, <1>6, <1>7, Steps

----------------------------------------------------------------------------
(* The refinement *)

LEMMA KnownIsKnown == Sched!Known = Known
<1>1. {p.id : p \in Pending} = {queue[i].id : i \in DOMAIN queue}
  BY DEF Pending
<1>2. {LogIds[i] : i \in DOMAIN LogIds} = {log[i].id : i \in DOMAIN log}
  BY DEF LogIds
<1> QED BY <1>1, <1>2 DEF Sched!Known, Known

\* The names in a log that grew by one message.
LEMMA LogIdsGrown ==
  ASSUME log \in Seq(Record), NEW r \in Record, log' = Append(log, r)
  PROVE  LogIds' = Append(LogIds, r.id)
<1>1. /\ Len(log) \in Nat /\ DOMAIN log = 1 .. Len(log) /\ DOMAIN log' = 1 .. Len(log) + 1
      /\ \A k \in 1 .. Len(log) : log'[k] = log[k]
      /\ log'[Len(log) + 1] = r
  BY LogGrown
<1>2. \A k \in DOMAIN log : log[k].id \in Ids
  <2>1. \A k \in DOMAIN log : log[k] \in Record
    OBVIOUS
  <2> QED BY <2>1 DEF Record
<1>3. LogIds \in Seq(Ids) /\ Len(LogIds) = Len(log)
  BY <1>1, <1>2 DEF LogIds
<1>4. LogIds' = [k \in 1 .. Len(log) + 1 |-> IF k <= Len(log) THEN LogIds[k] ELSE r.id]
  BY <1>1 DEF LogIds
<1>5. Append(LogIds, r.id)
        = [k \in 1 .. Len(log) + 1 |-> IF k <= Len(log) THEN LogIds[k] ELSE r.id]
  BY <1>1, <1>3
<1> QED BY <1>4, <1>5

LEMMA QuietIsStutter == Quiet => UNCHANGED Sched!vars
  BY DEF Quiet, sched, Sched!vars, Pending, LogIds

LEMMA ElementIsStep ==
  ASSUME Inv, Element
  PROVE  Sched!Next
<1> DEFINE id == packet.elems[at]
<1>1. id \in Ids /\ id \notin Sched!Known /\ packet.ts \in Timetags
  BY ElementIsFresh, KnownIsKnown
<1>2. CASE AtOnce(id)
  <2>1. PICK early \in BOOLEAN : log' = Append(log, [id |-> id, early |-> early])
    BY <1>2 DEF AtOnce
  <2>2. [id |-> id, early |-> early] \in Record /\ log \in Seq(Record)
    BY <1>1 DEF Inv, Typed, Record
  <2>3. LogIds' = Append(LogIds, id)
    BY <2>1, <2>2, LogIdsGrown
  <2>4. Pending' = Pending /\ arrivals' = arrivals
    BY <1>2 DEF AtOnce, Pending
  <2>5. Sched!HandOnAtOnce(id)
    BY <1>1, <2>3, <2>4 DEF Sched!HandOnAtOnce
  <2> QED BY <1>1, <2>5 DEF Sched!Next
<1>3. CASE Kept(id, packet.ts)
  <2>1. Pending' = Pending \cup {[id |-> id, ts |-> packet.ts, n |-> arrivals]}
    BY <1>1, <1>3, KeptKeeps DEF Pending
  <2>2. LogIds' = LogIds /\ arrivals' = arrivals + 1
    BY <1>3 DEF Kept, LogIds
  <2>3. Sched!Keep(id, packet.ts)
    BY <1>1, <2>1, <2>2 DEF Sched!Keep
  <2> QED BY <1>1, <2>3 DEF Sched!Next
<1> QED BY <1>2, <1>3, ElementCases

LEMMA HeadIsNext ==
  ASSUME Inv, HeadTaken
  PROVE  Sched!Next
<1>1. /\ queue[1] \in Entries /\ queue \in Seq(Entries)
      /\ Len(queue) \in Nat \ {0} /\ DOMAIN queue = 1 .. Len(queue)
      /\ DOMAIN queue' = 1 .. Len(queue) - 1
      /\ \A k \in DOMAIN queue' : queue'[k] = queue[k + 1]
  BY QueueTail DEF Inv, Typed
<1>2. PICK early \in BOOLEAN : log' = Append(log, [id |-> queue[1].id, early |-> early])
  BY DEF HeadTaken
<1>3. [id |-> queue[1].id, early |-> early] \in Record /\ log \in Seq(Record)
  BY <1>1 DEF Inv, Typed, Entries, Record
<1>4. LogIds' = Append(LogIds, queue[1].id)
  BY <1>2, <1>3, LogIdsGrown
<1>5. \A k \in DOMAIN queue : /\ queue[k].n \in Nat
                              /\ CodeTime(queue[k].ts) \in Int
  <2>1. \A k \in DOMAIN queue : queue[k] \in Entries
    BY <1>1
  <2>2. \A k \in DOMAIN queue : queue[k].ts \in Timetags /\ queue[k].n \in Nat
    BY <2>1 DEF Entries
  <2> QED BY <2>2, DiffIsDifference
<1>6. \A k \in 2 .. Len(queue) : Earlier(queue[1], queue[k])
  BY <1>1 DEF Inv, Sorted
<1>7. \A q \in Pending : Sched!Before(queue[1], q)
  <2> SUFFICES ASSUME NEW k \in DOMAIN queue PROVE Sched!Before(queue[1], queue[k])
    BY DEF Pending
  <2>1. CASE k = 1
    BY <2>1, <1>5 DEF Sched!Before
  <2>2. CASE k # 1
    <3>1. Earlier(queue[1], queue[k])
      BY <2>2, <1>1, <1>6
    <3> QED BY <3>1, <1>1, <1>5 DEF Earlier, Sched!Before
  <2> QED BY <2>1, <2>2
<1>8. Pending' = Pending \ {queue[1]}
  <2>1. \A k \in 2 .. Len(queue) : queue[k] # queue[1]
    <3> TAKE k \in 2 .. Len(queue)
    <3>1. Earlier(queue[1], queue[k]) /\ k \in DOMAIN queue /\ 1 \in DOMAIN queue
      BY <1>1, <1>6
    <3> QED BY <3>1, <1>5 DEF Earlier
  <2>2. Pending = {queue[1]} \cup {queue[k] : k \in 2 .. Len(queue)}
    BY <1>1 DEF Pending
  <2>3. Pending' = {queue[k] : k \in 2 .. Len(queue)}
    <3>1. Pending' = {queue[k + 1] : k \in 1 .. Len(queue) - 1}
      BY <1>1 DEF Pending
    <3>2. \A k \in 2 .. Len(queue) : k - 1 \in 1 .. Len(queue) - 1 /\ (k - 1) + 1 = k
      BY <1>1
    <3>3. \A k \in 1 .. Len(queue) - 1 : k + 1 \in 2 .. Len(queue)
      BY <1>1
    <3> QED BY <3>1, <3>2, <3>3
  <2> QED BY <2>1, <2>2, <2>3
<1>9. queue[1] \in Pending /\ arrivals' = arrivals
  BY <1>1 DEF Pending, HeadTaken
<1>10. Sched!HandOnNext
  BY <1>4, <1>7, <1>8, <1>9 DEF Sched!HandOnNext
<1> QED BY <1>10 DEF Sched!Next

\* queue_data and dispatch_queued implement a stable priority queue: a message is
\* lost by neither, none is dispatched twice, the earliest one goes first, and of
\* several earliest ones the one that came first.
THEOREM QueueImplementsScheduler == Spec => QueueIsScheduler
<1>1. Init => Sched!Init
  BY DEF Init, Sched!Init, Pending, LogIds
<1>2. Inv /\ [Next]_vars => [Sched!Next]_(Sched!vars)
  <2> SUFFICES ASSUME Inv, [Next]_vars PROVE Sched!Next \/ UNCHANGED Sched!vars
    OBVIOUS
  <2>1. CASE Others
    BY <2>1, OthersAreQuiet, QuietIsStutter
  <2>2. CASE Deliver \/ Vanish \/ Free \/ Read
    BY <2>2 DEF Deliver, Vanish, Free, Read, sched, Sched!vars, Pending, LogIds
  <2>3. CASE Element
    BY <2>3, ElementIsStep
  <2>4. CASE FirstOfBatch \/ RestOfBatch
    BY <2>4, BatchTakesHead, HeadIsNext, QuietIsStutter
  <2> QED BY <2>1, <2>2, <2>3, <2>4, Steps
<1> QED BY <1>1, <1>2, InvInit, InvStep, PTL DEF Spec, QueueIsScheduler, Sched!Spec

----------------------------------------------------------------------------
(***************************************************************************)
(* Bundles stay whole: in the log followed by the queue the messages of a  *)
(* packet are in the packet's order and in one piece (Whole).  For a       *)
(* message to find its place behind the last of its packet, three things   *)
(* are needed: the messages of the packet being dispatched are the last in *)
(* the log, or the last that arrived in the queue (Current); no packet is  *)
(* partly in the log and partly in the queue, unless a batch is being      *)
(* dispatched, which then holds the rest of it (Apart); and messages of    *)
(* one packet have one timetag (Tagged).                                   *)
(***************************************************************************)
Times == [sec : Nat, frac : Nat]

LEMMA DiffOfTimes ==
  ASSUME NEW a \in Times, NEW b \in Times
  PROVE  Diff(a, b) = CodeTime(a) - CodeTime(b) /\ CodeTime(a) \in Int /\ CodeTime(b) \in Int
  BY DEF Times, Diff, CodeTime

LEMMA TimetagsAreTimes == Timetags \subseteq Times
  BY TimetagType DEF Times

InOnePiece(n, a) ==
    \A i, j \in 1 .. n : i < j =>
        /\ ~Together(a[j], a[i])
        /\ Together(a[i], a[j]) => \A k \in i + 1 .. j - 1 : Together(a[i], a[k])

\* The log, followed by the queue.
All == [k \in 1 .. Len(log) + Len(queue) |->
           IF k <= Len(log) THEN log[k].id ELSE queue[k - Len(log)].id]

Whole == InOnePiece(Len(log) + Len(queue), All)

OfPacket(id) == \E i \in DOMAIN packet.elems : packet.elems[i] = id

Tagged == \A p \in Packets : \A i \in DOMAIN p.elems, k \in DOMAIN queue :
             queue[k].id = p.elems[i] => queue[k].ts = p.ts

Apart == \A k \in DOMAIN log, l \in DOMAIN queue :
            Together(log[k].id, queue[l].id) =>
                pc = "batchMore" /\ CodeTime(queue[l].ts) <= CodeTime(since)

LastInLog == \A k \in DOMAIN log : OfPacket(log[k].id) =>
                /\ Diff(packet.ts, since) <= 0
                /\ \A l \in DOMAIN log : l > k => Together(log[k].id, log[l].id)

LastInQueue == \A k \in DOMAIN queue : OfPacket(queue[k].id) =>
                  /\ Diff(packet.ts, since) > 0
                  /\ \A l \in DOMAIN queue :
                        queue[l].n > queue[k].n => Together(queue[k].id, queue[l].id)

Current == pc = "element" => LastInLog /\ LastInQueue

Clocks == time \in Nat /\ since \in Times /\ (pc = "accepted" => at = 1)

PieceInv == Tagged /\ Apart /\ Current /\ Clocks /\ Whole

\* The names of a packet's messages tell the packet and the place in it.
LEMMA TogetherBefore ==
  ASSUME NEW p \in Packets, NEW j \in DOMAIN p.elems, p.elems[j] # Malformed,
         NEW id, Together(id, p.elems[j])
  PROVE  \E i \in DOMAIN p.elems : i < j /\ id = p.elems[i]
  BY LoServerAssumption DEF Together

LEMMA TogetherAfter ==
  ASSUME NEW p \in Packets, NEW i \in DOMAIN p.elems, p.elems[i] # Malformed,
         NEW id, Together(p.elems[i], id)
  PROVE  \E j \in DOMAIN p.elems : i < j /\ id = p.elems[j]
  BY LoServerAssumption DEF Together

\* A name x is put into a row of names that are in one piece: behind those of its
\* packet, with none but them between, and not into the midst of another packet.
LEMMA OnePieceInserted ==
  ASSUME NEW n \in Nat, NEW a, NEW b, NEW m \in 1 .. n + 1, NEW x,
         InOnePiece(n, a),
         \A k \in 1 .. n + 1 : b[k] = IF k < m THEN a[k] ELSE IF k = m THEN x ELSE a[k - 1],
         \A k \in 1 .. n : ~Together(x, a[k]),
         \A k \in m .. n : ~Together(a[k], x),
         \A k \in 1 .. m - 1 : Together(a[k], x) =>
             \A l \in k + 1 .. m - 1 : Together(a[k], a[l]),
         \A k \in 1 .. m - 1, l \in m .. n : ~Together(a[k], a[l])
  PROVE  InOnePiece(n + 1, b)
<1> SUFFICES ASSUME NEW i \in 1 .. n + 1, NEW j \in 1 .. n + 1, i < j
             PROVE  /\ ~Together(b[j], b[i])
                    /\ Together(b[i], b[j]) => \A k \in i + 1 .. j - 1 : Together(b[i], b[k])
  BY DEF InOnePiece
<1>1. CASE j = m
  BY <1>1
<1>2. CASE i = m
  <2>1. j - 1 \in m .. n /\ j - 1 \in 1 .. n /\ b[j] = a[j - 1] /\ b[i] = x
    BY <1>2
  <2> QED BY <2>1
<1>3. CASE j < m
  <2>1. i \in 1 .. n /\ j \in 1 .. n /\ b[i] = a[i] /\ b[j] = a[j]
    BY <1>3
  <2>2. \A k \in i + 1 .. j - 1 : b[k] = a[k]
    BY <1>3
  <2> QED BY <2>1, <2>2 DEF InOnePiece
<1>4. CASE i > m
  <2>1. i - 1 \in 1 .. n /\ j - 1 \in 1 .. n /\ b[i] = a[i - 1] /\ b[j] = a[j - 1] /\ i - 1 < j - 1
    BY <1>4
  <2>2. \A k \in i + 1 .. j - 1 : b[k] = a[k - 1] /\ k - 1 \in (i - 1) + 1 .. (j - 1) - 1
    BY <1>4
  <2>3. /\ ~Together(a[j - 1], a[i - 1])
        /\ Together(a[i - 1], a[j - 1]) =>
              \A k \in (i - 1) + 1 .. (j - 1) - 1 : Together(a[i - 1], a[k])
    BY <2>1 DEF InOnePiece
  <2> QED BY <2>1, <2>2, <2>3
<1>5. CASE i < m /\ m < j
  <2>1. /\ i \in 1 .. n /\ j - 1 \in 1 .. n /\ b[i] = a[i] /\ b[j] = a[j - 1] /\ i < j - 1
        /\ i \in 1 .. m - 1 /\ j - 1 \in m .. n
    BY <1>5
  <2>2. ~Together(a[j - 1], a[i])
    BY <2>1 DEF InOnePiece
  <2> QED BY <2>1, <2>2
<1> QED BY <1>1, <1>2, <1>3, <1>4, <1>5

LEMMA PieceInit == Init => PieceInv
<1> SUFFICES ASSUME Init PROVE PieceInv
  OBVIOUS
<1>1. /\ log = <<>> /\ queue = <<>> /\ pc = "none" /\ time = 4
      /\ since = [sec |-> 0, frac |-> 0]
  BY DEF Init
<1>2. Tagged /\ Apart /\ Current /\ Clocks
  BY <1>1 DEF Tagged, Apart, Current, Clocks, Times
<1>3. Whole
  BY <1>1 DEF Whole, InOnePiece
<1> QED BY <1>2, <1>3 DEF PieceInv

\* Steps that move no message and leave the thread where it is, or at a place where
\* it neither has a packet nor is in a batch.
Stays ==
    /\ UNCHANGED <<sched, packet, at, since>>
    /\ pc' = pc \/ (pc # "batchMore" /\ pc' \notin {"accepted", "element"})
    /\ time \in Nat => time' \in Nat

LEMMA StaysKeeps == PieceInv /\ Stays => PieceInv'
<1> SUFFICES ASSUME PieceInv, Stays PROVE PieceInv'
  OBVIOUS
<1>1. UNCHANGED <<log, queue, arrivals, packet, at, since>>
  BY DEF Stays, sched
<1>2. Tagged' /\ Apart'
  BY <1>1 DEF PieceInv, Tagged, Apart, Stays
<1>3. Current'
  BY <1>1 DEF PieceInv, Current, LastInLog, LastInQueue, OfPacket, Stays
<1>4. Clocks' /\ Whole'
  BY <1>1 DEF PieceInv, Clocks, Whole, All, Stays
<1> QED BY <1>2, <1>3, <1>4 DEF PieceInv

\* Steps that take a packet: none of its messages came before.
Takes ==
    /\ UNCHANGED <<time, sched>>
    /\ pc # "batchMore" /\ pc' \in {"accepted", "element"}
    /\ since' = since \/ since' = Now
    /\ at' = 1

LEMMA KnownAreIds == Inv => Known \subseteq Ids
<1> SUFFICES ASSUME Inv PROVE Known \subseteq Ids
  OBVIOUS
<1>1. \A k \in DOMAIN queue : queue[k] \in Entries
  BY DEF Inv, Typed
<1>2. \A k \in DOMAIN log : log[k] \in Record
  BY DEF Inv, Typed
<1> QED BY <1>1, <1>2 DEF Known, Entries, Record

LEMMA TakesKeeps ==
  ASSUME PieceInv, Inv', Takes
  PROVE  PieceInv'
<1>1. UNCHANGED <<time, log, queue, arrivals>>
  BY DEF Takes, sched
<1>2. Tagged' /\ Apart'
  BY <1>1 DEF PieceInv, Tagged, Apart, Takes
<1>3. \A id \in Known' : ~OfPacket(id)'
  <2> SUFFICES ASSUME NEW i \in DOMAIN packet'.elems, packet'.elems[i] \in Known' PROVE FALSE
    BY DEF OfPacket
  <2>1. packet'.elems[i] # Malformed
    <3>1. \A k \in DOMAIN queue' : queue'[k] \in Entries
      BY DEF Inv, Typed
    <3>2. \A k \in DOMAIN log' : log'[k] \in Record
      BY DEF Inv, Typed
    <3> QED BY <3>1, <3>2 DEF Known, Entries, Record, Ids
  <2>2. HasPacket' /\ packet' \in Packets
    BY DEF Takes, Inv, Once, HasPacket
  <2>3. i >= at'
    BY <2>2, LoServerAssumption DEF Takes
  <2> QED BY <2>1, <2>2, <2>3 DEF Inv, Fresh, ToCome
<1>4. Current'
  BY <1>3 DEF Current, LastInLog, LastInQueue, Known
<1>5. Clocks' /\ Whole'
  <2>1. time \in Nat => Now \in Times
    BY DEF Now, Timetag, Times
  <2> QED BY <1>1, <2>1 DEF PieceInv, Clocks, Whole, All, Takes
<1> QED BY <1>2, <1>4, <1>5 DEF PieceInv

\* What came before a message of the same packet is before it in the packet.
LEMMA ElementComesAfter ==
  ASSUME Inv, Element, NEW id \in Known
  PROVE  /\ ~Together(packet.elems[at], id)
         /\ OfPacket(id) => Together(id, packet.elems[at])
         /\ Together(id, packet.elems[at]) => OfPacket(id)
<1>1. /\ packet \in Packets /\ at \in DOMAIN packet.elems /\ packet.elems[at] # Malformed
      /\ HasPacket /\ id # Malformed
  BY ElementIsFresh, KnownAreIds DEF Element, HasPacket, Ids
<1>2. \A j \in DOMAIN packet.elems : j \in Int
  BY <1>1, LoServerAssumption
<1>3. \A j \in DOMAIN packet.elems : id = packet.elems[j] => j < at
  BY <1>1, <1>2 DEF Inv, Fresh, ToCome
<1>4. ~Together(packet.elems[at], id)
  BY <1>1, <1>2, <1>3, TogetherAfter
<1>5. OfPacket(id) => Together(id, packet.elems[at])
  BY <1>1, <1>3 DEF OfPacket, Together
<1>6. Together(id, packet.elems[at]) => OfPacket(id)
  BY <1>1, TogetherBefore DEF OfPacket
<1> QED BY <1>4, <1>5, <1>6

LEMMA ElementDecides ==
  ASSUME Inv, PieceInv, Element
  PROVE  /\ LastInLog /\ LastInQueue /\ Diff(packet.ts, since) \in Int
         /\ \/ Diff(packet.ts, since) <= 0 /\ AtOnce(packet.elems[at])
            \/ Diff(packet.ts, since) > 0 /\ Kept(packet.elems[at], packet.ts)
         /\ UNCHANGED <<time, pc, packet, since>> /\ pc = "element"
<1>1. LastInLog /\ LastInQueue
  BY DEF PieceInv, Current, Element
<1>2. Diff(packet.ts, since) \in Int
  BY ElementIsFresh, TimetagsAreTimes, DiffOfTimes DEF PieceInv, Clocks
<1>3. (time < Instant(packet.ts)) \in BOOLEAN
  OBVIOUS
<1>4. \/ Diff(packet.ts, since) <= 0 /\ AtOnce(packet.elems[at])
      \/ Diff(packet.ts, since) > 0 /\ Kept(packet.elems[at], packet.ts)
  BY <1>3 DEF Element, HandOn, AtOnce, Kept
<1> QED BY <1>1, <1>2, <1>4 DEF Element

LEMMA AllType ==
  ASSUME Inv
  PROVE  /\ Len(log) \in Nat /\ DOMAIN log = 1 .. Len(log)
         /\ Len(queue) \in Nat /\ DOMAIN queue = 1 .. Len(queue)
         /\ \A k \in DOMAIN log : log[k].id \in Known /\ log[k].id \in Ids
         /\ \A k \in DOMAIN queue : queue[k].id \in Known /\ queue[k].id \in Ids
                                     /\ queue[k].ts \in Timetags /\ queue[k].n \in Nat
<1>1. log \in Seq(Record) /\ queue \in Seq(Entries)
  BY DEF Inv, Typed
<1>2. /\ \A k \in DOMAIN log : log[k] \in Record
      /\ \A k \in DOMAIN queue : queue[k] \in Entries
  BY <1>1
<1> QED BY <1>1, <1>2 DEF Record, Entries, Known

\* A message that is handed on at once goes to the end of the log.
LEMMA AtOnceKeepsPieces ==
  ASSUME Inv, PieceInv, Element, Diff(packet.ts, since) <= 0, AtOnce(packet.elems[at])
  PROVE  PieceInv'
<1> DEFINE x == packet.elems[at]
           L == Len(log)
<1>1. PICK early \in BOOLEAN : log' = Append(log, [id |-> x, early |-> early])
  BY DEF AtOnce
<1>2. UNCHANGED <<queue, arrivals, time, pc, packet, since>> /\ pc = "element"
  BY ElementDecides DEF AtOnce
<1>3. x \in Ids
  BY ElementIsFresh
<1>4. [id |-> x, early |-> early] \in Record /\ log \in Seq(Record)
  BY <1>3 DEF Inv, Typed, Record
<1>5. /\ DOMAIN log' = 1 .. L + 1 /\ Len(log') = L + 1
      /\ \A k \in 1 .. L : log'[k].id = log[k].id
      /\ log'[L + 1].id = x
  BY <1>1, <1>4, LogGrown
<1>6. \A id \in Known : /\ ~Together(x, id)
                        /\ OfPacket(id) => Together(id, x)
                        /\ Together(id, x) => OfPacket(id)
  BY ElementComesAfter
<1>7. /\ \A k \in DOMAIN log : OfPacket(log[k].id) =>
             \A l \in DOMAIN log : l > k => Together(log[k].id, log[l].id)
      /\ \A k \in DOMAIN queue : ~OfPacket(queue[k].id)
  <2>1. Diff(packet.ts, since) \in Int /\ LastInLog /\ LastInQueue
    BY ElementDecides
  <2> QED BY <2>1 DEF LastInLog, LastInQueue
<1>8. \A k \in DOMAIN log, l \in DOMAIN queue : ~Together(log[k].id, queue[l].id)
  BY <1>2 DEF PieceInv, Apart
<1> HIDE DEF x
<1>9. Tagged'
  BY <1>2 DEF PieceInv, Tagged
<1>10. Apart'
  BY <1>2, <1>5, <1>6, <1>8, AllType DEF Apart
<1>11. Current'
  <2>2. \A id : OfPacket(id)' <=> OfPacket(id)
    BY <1>2 DEF OfPacket
  <2>3. LastInLog'
    <3> SUFFICES ASSUME NEW k \in DOMAIN log', OfPacket(log'[k].id)
                 PROVE  \A l \in DOMAIN log' : l > k => Together(log'[k].id, log'[l].id)
      BY <1>2, <2>2 DEF LastInLog
    <3> TAKE l \in DOMAIN log'
    <3> HAVE l > k
    <3>1. k \in DOMAIN log /\ log'[k].id = log[k].id
      BY <1>5, AllType
    <3>2. CASE l = L + 1
      BY <3>1, <3>2, <1>5, <1>6, AllType
    <3>3. CASE l # L + 1
      BY <3>1, <3>3, <1>5, <1>7, AllType
    <3> QED BY <3>2, <3>3
  <2>4. LastInQueue'
    BY <1>2, <1>7, <2>2 DEF LastInQueue
  <2> QED BY <2>3, <2>4 DEF Current
<1>12. Clocks'
  BY <1>2 DEF PieceInv, Clocks
<1>13. Whole'
  <2> DEFINE n == L + Len(queue)
             m == L + 1
  <2>1. n \in Nat /\ m \in 1 .. n + 1 /\ n + 1 = Len(log') + Len(queue')
    BY <1>2, <1>5, AllType
  <2>2. InOnePiece(n, All)
    BY DEF PieceInv, Whole
  <2>3. \A k \in 1 .. n : /\ k <= L => k \in DOMAIN log /\ All[k] = log[k].id
                          /\ ~(k <= L) => k - L \in DOMAIN queue /\ All[k] = queue[k - L].id
    BY AllType DEF All
  <2>4. \A k \in 1 .. n + 1 : All'[k] = IF k < m THEN All[k] ELSE IF k = m THEN x ELSE All[k - 1]
    <3>1. \A k \in 1 .. n + 1 :
             All'[k] = IF k <= L + 1 THEN log'[k].id ELSE queue[k - (L + 1)].id
      BY <1>2, <1>5, <2>1 DEF All
    <3> TAKE k \in 1 .. n + 1
    <3>2. CASE k < m
      <4>1. k <= L /\ k <= L + 1 /\ k \in 1 .. n /\ k \in 1 .. L
        BY <3>2, AllType
      <4>2. All'[k] = log'[k].id /\ log'[k].id = log[k].id
        BY <3>1, <4>1, <1>5
      <4> QED BY <3>2, <4>1, <4>2, <2>3
    <3>3. CASE k = m
      BY <3>1, <3>3, <1>5, AllType
    <3>4. CASE k > m
      <4>1. k - 1 \in 1 .. n /\ ~(k - 1 <= L) /\ (k - 1) - L = k - (L + 1)
        BY <3>4, AllType
      <4> QED BY <3>1, <3>4, <4>1, <2>3, AllType
    <3> QED BY <3>2, <3>3, <3>4, AllType
  <2>5. \A k \in 1 .. n : ~Together(x, All[k])
    BY <2>3, <1>6, AllType
  <2>6. \A k \in m .. n : ~Together(All[k], x)
    <3> TAKE k \in m .. n
    <3>1. k \in 1 .. n /\ ~(k <= L)
      BY AllType
    <3> QED BY <3>1, <2>3, <1>6, <1>7, AllType
  <2>7. \A k \in 1 .. m - 1 : Together(All[k], x) =>
           \A l \in k + 1 .. m - 1 : Together(All[k], All[l])
    <3> TAKE k \in 1 .. m - 1
    <3> HAVE Together(All[k], x)
    <3> TAKE l \in k + 1 .. m - 1
    <3>1. k \in 1 .. n /\ l \in 1 .. n /\ k <= L /\ l <= L /\ l > k
      BY AllType
    <3> QED BY <3>1, <2>3, <1>6, <1>7, AllType
  <2>8. \A k \in 1 .. m - 1, l \in m .. n : ~Together(All[k], All[l])
    <3> TAKE k \in 1 .. m - 1, l \in m .. n
    <3>1. k \in 1 .. n /\ l \in 1 .. n /\ k <= L /\ ~(l <= L)
      BY AllType
    <3> QED BY <3>1, <2>3, <1>8
  <2> HIDE DEF n, m
  <2>9. InOnePiece(n + 1, All')
    BY <2>1, <2>2, <2>4, <2>5, <2>6, <2>7, <2>8, OnePieceInserted
  <2> QED BY <2>1, <2>9 DEF Whole, InOnePiece, Together
<1> QED BY <1>9, <1>10, <1>11, <1>12, <1>13 DEF PieceInv

\* A message that is kept goes behind those of its packet in the queue, which came
\* last, and before everything that is later.
LEMMA KeptKeepsPieces ==
  ASSUME Inv, PieceInv, Element, Diff(packet.ts, since) > 0, Kept(packet.elems[at], packet.ts)
  PROVE  PieceInv'
<1> DEFINE x == packet.elems[at]
           e == [id |-> x, ts |-> packet.ts, n |-> arrivals]
           L == Len(log)
<1>1. /\ packet \in Packets /\ at \in DOMAIN packet.elems /\ x \in Ids
      /\ packet.ts \in Timetags /\ arrivals \in Nat /\ queue \in Seq(Entries)
  BY ElementIsFresh DEF Inv, Typed
<1>2. UNCHANGED <<log, time, pc, packet, since>> /\ pc = "element" /\ queue' = QueueData(e)
  BY ElementDecides DEF Kept
<1>3. e \in Entries /\ e.id = x /\ e.ts = packet.ts /\ e.n = arrivals
  BY <1>1 DEF Entries
<1>4. \A id \in Known : /\ ~Together(x, id)
                        /\ OfPacket(id) => Together(id, x)
                        /\ Together(id, x) => OfPacket(id)
  BY ElementComesAfter
<1>5. /\ \A k \in DOMAIN queue : OfPacket(queue[k].id) =>
             \A l \in DOMAIN queue :
                queue[l].n > queue[k].n => Together(queue[k].id, queue[l].id)
      /\ \A k \in DOMAIN log : ~OfPacket(log[k].id)
  <2>1. Diff(packet.ts, since) \in Int /\ LastInLog /\ LastInQueue
    BY ElementDecides
  <2> QED BY <2>1 DEF LastInLog, LastInQueue
<1>6. \A k \in DOMAIN log, l \in DOMAIN queue : ~Together(log[k].id, queue[l].id)
  BY <1>2 DEF PieceInv, Apart
\* Messages of one packet have one timetag.
<1>7. \A k \in DOMAIN queue : OfPacket(queue[k].id) => queue[k].ts = packet.ts
  BY <1>1 DEF PieceInv, Tagged, OfPacket
<1>8. \A k, l \in DOMAIN queue : Together(queue[k].id, queue[l].id) => queue[k].ts = queue[l].ts
  BY DEF PieceInv, Tagged, Together
<1> HIDE DEF x, e
<1>9. PICK i \in 1 .. Len(queue) + 1 :
          /\ IsPlace(queue, e, i)
          /\ queue' \in Seq(Entries) /\ Len(queue') = Len(queue) + 1
          /\ \A k \in 1 .. Len(queue) + 1 :
                queue'[k] = IF k < i THEN queue[k] ELSE IF k = i THEN e ELSE queue[k - 1]
  <2>1. queue' = QueueData(e)
    BY <1>2
  <2>2. e \in Entries /\ queue \in Seq(Entries)
    BY <1>1, <1>3
  <2> QED BY <2>1, <2>2, Queued
<1>10. \A k \in DOMAIN queue : /\ k < i => CodeTime(queue[k].ts) <= CodeTime(packet.ts)
                               /\ ~(k < i) => CodeTime(queue[k].ts) > CodeTime(packet.ts)
  BY <1>3, <1>9, PlaceDivides
<1>11. /\ DOMAIN queue' = 1 .. Len(queue) + 1 /\ Len(queue) \in Nat
       /\ \A k \in DOMAIN queue' : queue'[k] = e \/ \E j \in DOMAIN queue : queue'[k] = queue[j]
  <2>1. /\ DOMAIN queue' = 1 .. Len(queue) + 1 /\ Len(queue) \in Nat
        /\ DOMAIN queue = 1 .. Len(queue)
    BY <1>9, AllType
  <2> SUFFICES ASSUME NEW k \in DOMAIN queue'
               PROVE  queue'[k] = e \/ \E j \in DOMAIN queue : queue'[k] = queue[j]
    BY <2>1
  <2>2. CASE k < i
    BY <2>1, <2>2, <1>9
  <2>3. CASE k = i
    BY <2>1, <2>3, <1>9
  <2>4. CASE k > i
    <3>1. k - 1 \in DOMAIN queue /\ queue'[k] = queue[k - 1]
      BY <2>1, <2>4, <1>9
    <3> QED BY <3>1
  <2> QED BY <2>1, <2>2, <2>3, <2>4
<1>12. \A k \in DOMAIN queue : CodeTime(queue[k].ts) \in Int /\ CodeTime(packet.ts) \in Int
  BY <1>1, AllType, DiffIsDifference
<1>13. Tagged'
  <2> SUFFICES ASSUME NEW p \in Packets, NEW j \in DOMAIN p.elems, NEW k \in DOMAIN queue',
                      queue'[k].id = p.elems[j]
               PROVE  queue'[k].ts = p.ts
    BY DEF Tagged
  <2>1. CASE queue'[k] = e
    <3>1. p.elems[j] = packet.elems[at] /\ p.elems[j] # Malformed
      BY <2>1, <1>1, <1>3 DEF Ids, x
    <3>2. p = packet
      BY <3>1, <1>1, LoServerAssumption
    <3> QED BY <2>1, <3>2, <1>3
  <2>2. CASE \E l \in DOMAIN queue : queue'[k] = queue[l]
    BY <2>2 DEF PieceInv, Tagged
  <2> QED BY <2>1, <2>2, <1>11
<1>14. Apart'
  <2> SUFFICES ASSUME NEW k \in DOMAIN log, NEW l \in DOMAIN queue',
                      Together(log[k].id, queue'[l].id)
               PROVE  FALSE
    BY <1>2 DEF Apart
  <2> QED BY <1>3, <1>4, <1>5, <1>6, <1>11, AllType
<1>15. Current'
  <2>1. \A id : OfPacket(id)' <=> OfPacket(id)
    BY <1>2 DEF OfPacket
  <2>2. LastInLog'
    BY <1>2, <1>5, <2>1 DEF LastInLog
  <2>3. LastInQueue'
    <3> SUFFICES ASSUME NEW k \in DOMAIN queue', OfPacket(queue'[k].id),
                        NEW l \in DOMAIN queue', queue'[l].n > queue'[k].n
                 PROVE  Together(queue'[k].id, queue'[l].id)
      BY <1>2, <2>1 DEF LastInQueue
    <3>1. \A j \in DOMAIN queue : queue[j].n \in Nat /\ queue[j].n < arrivals
      BY AllType DEF Inv, Sorted
    <3>2. PICK j \in DOMAIN queue : queue'[k] = queue[j]
      BY <3>1, <1>1, <1>3, <1>11
    <3>3. CASE queue'[l] = e
      BY <3>2, <3>3, <1>3, <1>4, AllType
    <3>4. CASE \E m \in DOMAIN queue : queue'[l] = queue[m]
      BY <3>2, <3>4, <1>5
    <3> QED BY <3>3, <3>4, <1>11
  <2> QED BY <2>2, <2>3 DEF Current
<1>16. Clocks'
  BY <1>2 DEF PieceInv, Clocks
<1>17. Whole'
  <2> DEFINE n == L + Len(queue)
             m == L + i
  <2>1. n \in Nat /\ m \in 1 .. n + 1 /\ n + 1 = Len(log') + Len(queue')
    BY <1>2, <1>9, AllType
  <2>2. InOnePiece(n, All)
    BY DEF PieceInv, Whole
  <2>3. \A k \in 1 .. n : /\ k <= L => k \in DOMAIN log /\ All[k] = log[k].id
                          /\ ~(k <= L) => k - L \in DOMAIN queue /\ All[k] = queue[k - L].id
    BY AllType DEF All
  <2>4. \A k \in 1 .. n : All[k] \in Known
    BY <2>3, AllType
  <2>5. \A k \in 1 .. n + 1 : All'[k] = IF k < m THEN All[k] ELSE IF k = m THEN x ELSE All[k - 1]
    <3>1. \A k \in 1 .. n + 1 : All'[k] = IF k <= L THEN log[k].id ELSE queue'[k - L].id
      BY <1>2, <2>1 DEF All
    <3> TAKE k \in 1 .. n + 1
    <3>2. CASE k <= L
      <4>1. k \in 1 .. n /\ k < m
        BY <3>2, AllType
      <4> QED BY <3>1, <3>2, <4>1, <2>3
    <3>3. CASE ~(k <= L)
      <4>1. k - L \in 1 .. Len(queue) + 1 /\ All'[k] = queue'[k - L].id
        BY <3>1, <3>3, AllType
      <4>2. CASE k < m
        <5>1. k - L < i /\ k \in 1 .. n
          BY <4>2, AllType
        <5> QED BY <4>1, <4>2, <5>1, <3>3, <2>3, <1>9
      <4>3. CASE k = m
        <5>1. k - L = i /\ ~(k < m)
          BY <4>3, AllType
        <5>2. queue'[k - L] = e
          BY <4>1, <5>1, <1>9
        <5> QED BY <4>1, <4>3, <5>1, <5>2, <1>3
      <4>4. CASE k > m
        <5>1. /\ ~(k - L < i) /\ k - L # i /\ ~(k < m) /\ k # m
              /\ k - 1 \in 1 .. n /\ ~(k - 1 <= L) /\ (k - 1) - L = (k - L) - 1
          BY <4>4, AllType
        <5>2. queue'[k - L] = queue[(k - L) - 1]
          BY <4>1, <5>1, <1>9
        <5> QED BY <4>1, <5>1, <5>2, <2>3
      <4>5. k < m \/ k = m \/ k > m
        BY AllType
      <4> QED BY <4>2, <4>3, <4>4, <4>5
    <3> QED BY <3>2, <3>3
  <2>6. \A k \in 1 .. n : ~Together(x, All[k])
    BY <2>4, <1>4
  <2>7. \A k \in m .. n : ~Together(All[k], x)
    <3> SUFFICES ASSUME NEW k \in m .. n, Together(All[k], x) PROVE FALSE
      OBVIOUS
    <3>1. k \in 1 .. n /\ ~(k <= L) /\ ~(k - L < i)
      BY AllType
    <3>2. k - L \in DOMAIN queue /\ OfPacket(queue[k - L].id)
      BY <3>1, <2>3, <2>4, <1>4
    <3> QED BY <3>1, <3>2, <1>7, <1>10, <1>12
  <2>8. \A k \in 1 .. m - 1 : Together(All[k], x) =>
           \A l \in k + 1 .. m - 1 : Together(All[k], All[l])
    <3> SUFFICES ASSUME NEW k \in 1 .. m - 1, Together(All[k], x), NEW l \in k + 1 .. m - 1
                 PROVE  Together(All[k], All[l])
      OBVIOUS
    <3>1. k \in 1 .. n /\ l \in 1 .. n /\ k < l /\ k - L < i /\ l - L < i
      BY AllType
    <3>2. OfPacket(All[k])
      BY <3>1, <2>4, <1>4
    <3>3. ~(k <= L)
      <4>1. k <= L => k \in DOMAIN log /\ All[k] = log[k].id
        BY <3>1, <2>3
      <4> QED BY <4>1, <3>2, <1>5
    <3>4. /\ k - L \in DOMAIN queue /\ l - L \in DOMAIN queue /\ k - L < l - L
          /\ All[k] = queue[k - L].id /\ All[l] = queue[l - L].id
      <4>1. ~(l <= L) /\ k - L < l - L
        BY <3>1, <3>3, AllType
      <4> QED BY <4>1, <3>1, <3>3, <2>3
    <3>5. Earlier(queue[k - L], queue[l - L])
      BY <3>4 DEF Inv, Sorted
    <3>6. CodeTime(queue[k - L].ts) = CodeTime(packet.ts)
          /\ CodeTime(queue[l - L].ts) <= CodeTime(packet.ts)
      BY <3>1, <3>2, <3>4, <1>7, <1>10
    <3>7. /\ CodeTime(queue[k - L].ts) \in Int /\ CodeTime(queue[l - L].ts) \in Int
          /\ CodeTime(packet.ts) \in Int
      BY <3>4, <1>12
    <3>8. queue[k - L].n < queue[l - L].n
      BY <3>5, <3>6, <3>7 DEF Earlier
    <3>9. queue[k - L].n \in Nat /\ queue[l - L].n \in Nat
      BY <3>4, AllType
    <3> QED BY <3>2, <3>4, <3>8, <3>9, <1>5
  <2>9. \A k \in 1 .. m - 1, l \in m .. n : ~Together(All[k], All[l])
    <3> SUFFICES ASSUME NEW k \in 1 .. m - 1, NEW l \in m .. n, Together(All[k], All[l])
                 PROVE  FALSE
      OBVIOUS
    <3>1. k \in 1 .. n /\ l \in 1 .. n /\ ~(l <= L) /\ k - L < i /\ ~(l - L < i)
      BY AllType
    <3>2. l - L \in DOMAIN queue /\ All[l] = queue[l - L].id
      BY <3>1, <2>3
    <3>3. CASE k <= L
      BY <3>1, <3>2, <3>3, <2>3, <1>6
    <3>4. CASE ~(k <= L)
      <4>1. k - L \in DOMAIN queue /\ queue[k - L].ts = queue[l - L].ts
        BY <3>1, <3>2, <3>4, <2>3, <1>8
      <4> QED BY <3>1, <3>2, <4>1, <1>10, <1>12
    <3> QED BY <3>3, <3>4
  <2> HIDE DEF n, m
  <2>10. InOnePiece(n + 1, All')
    BY <2>1, <2>2, <2>5, <2>6, <2>7, <2>8, <2>9, OnePieceInserted
  <2> QED BY <2>1, <2>10 DEF Whole, InOnePiece, Together
<1> QED BY <1>13, <1>14, <1>15, <1>16, <1>17 DEF PieceInv

\* The batch takes a message from the queue to the log, which leaves the row of both
\* as it is.
LEMMA HeadTakenKeepsPieces ==
  ASSUME Inv, PieceInv, HeadTaken, pc' = "batchMore", UNCHANGED time,
         CodeTime(queue[1].ts) <= CodeTime(since'), since' \in Times,
         pc = "batchMore" => since' = since
  PROVE  PieceInv'
<1> DEFINE L == Len(log)
<1>1. /\ Len(queue) \in Nat \ {0} /\ DOMAIN queue = 1 .. Len(queue)
      /\ DOMAIN queue' = 1 .. Len(queue) - 1
      /\ \A k \in DOMAIN queue' : queue'[k] = queue[k + 1] /\ k + 1 \in DOMAIN queue
  BY QueueTail
<1>2. PICK early \in BOOLEAN : log' = Append(log, [id |-> queue[1].id, early |-> early])
  BY DEF HeadTaken
<1>3. [id |-> queue[1].id, early |-> early] \in Record /\ log \in Seq(Record)
  BY <1>1, AllType DEF Inv, Typed, Record
<1>4. /\ L \in Nat /\ DOMAIN log = 1 .. L /\ DOMAIN log' = 1 .. L + 1 /\ Len(log') = L + 1
      /\ \A k \in 1 .. L : log'[k].id = log[k].id
      /\ log'[L + 1].id = queue[1].id
  BY <1>2, <1>3, LogGrown
<1>5. Tagged'
  BY <1>1 DEF PieceInv, Tagged
<1>6. Apart'
  <2> SUFFICES ASSUME NEW k \in DOMAIN log', NEW l \in DOMAIN queue',
                      Together(log'[k].id, queue'[l].id)
               PROVE  CodeTime(queue'[l].ts) <= CodeTime(since')
    BY DEF Apart
  <2>1. CASE k \in DOMAIN log
    BY <2>1, <1>1, <1>4 DEF PieceInv, Apart
  <2>2. CASE k \notin DOMAIN log
    <3>1. Together(queue[1].id, queue[l + 1].id) /\ 1 \in DOMAIN queue /\ l + 1 \in DOMAIN queue
      BY <2>2, <1>1, <1>4
    <3>2. queue[l + 1].ts = queue[1].ts
      BY <3>1 DEF PieceInv, Tagged, Together
    <3> QED BY <3>2, <1>1
  <2> QED BY <2>1, <2>2
<1>7. Current' /\ Clocks'
  BY DEF PieceInv, Current, Clocks
<1>8. Whole'
  <2> DEFINE n == L + Len(queue)
  <2>1. Len(log') + Len(queue') = n /\ Len(queue') = Len(queue) - 1
    <3>1. queue \in Seq(Entries) /\ queue # <<>> /\ queue' = Tail(queue)
      BY DEF Inv, Typed, HeadTaken
    <3>2. Len(queue') = Len(queue) - 1
      BY <3>1, HeadTailProperties
    <3> QED BY <3>2, <1>1, <1>4
  <2>2. \A k \in 1 .. n : All'[k] = All[k]
    <3> TAKE k \in 1 .. n
    <3>1. All'[k] = IF k <= L + 1 THEN log'[k].id ELSE queue'[k - (L + 1)].id
      BY <1>4, <2>1 DEF All
    <3>2. All[k] = IF k <= L THEN log[k].id ELSE queue[k - L].id
      BY DEF All
    <3>3. CASE k <= L
      BY <3>1, <3>2, <3>3, <1>1, <1>4
    <3>4. CASE k = L + 1
      <4>1. ~(k <= L) /\ k - L = 1
        BY <3>4, <1>4
      <4> QED BY <3>1, <3>2, <3>4, <4>1, <1>4
    <3>5. CASE k > L + 1
      <4>1. /\ ~(k <= L) /\ ~(k <= L + 1)
            /\ k - (L + 1) \in DOMAIN queue' /\ (k - (L + 1)) + 1 = k - L
        BY <3>5, <1>1, <1>4
      <4> QED BY <3>1, <3>2, <4>1, <1>1
    <3> QED BY <3>3, <3>4, <3>5, <1>1, <1>4
  <2>3. InOnePiece(n, All)
    BY DEF PieceInv, Whole
  <2>4. InOnePiece(n, All')
    <3>1. \A i, j \in 1 .. n : \A k \in i + 1 .. j - 1 : k \in 1 .. n
      BY <1>1, <1>4
    <3> HIDE DEF n
    <3> QED BY <2>2, <2>3, <3>1 DEF InOnePiece
  <2> QED BY <2>1, <2>4 DEF Whole, InOnePiece, Together
<1> QED BY <1>5, <1>6, <1>7, <1>8 DEF PieceInv

LEMMA BatchKeepsPieces ==
  ASSUME Inv, PieceInv, FirstOfBatch \/ RestOfBatch
  PROVE  PieceInv'
<1>1. CASE FirstOfBatch
  <2>1. HeadTaken /\ pc' = "batchMore" /\ UNCHANGED time /\ since' = queue[1].ts /\ pc = "batch"
    BY <1>1, BatchTakesHead DEF FirstOfBatch
  <2>2. queue[1].ts \in Times /\ CodeTime(queue[1].ts) \in Int
    BY <2>1, QueueTail, TimetagsAreTimes, DiffOfTimes DEF Entries
  <2> QED BY <2>1, <2>2, HeadTakenKeepsPieces
<1>2. CASE RestOfBatch /\ SameInstant
  <2>1. HeadTaken /\ pc' = "batchMore" /\ UNCHANGED <<time, since>>
    <3>1. (time < Instant(queue[1].ts)) \in BOOLEAN
      OBVIOUS
    <3> QED BY <1>2, <3>1 DEF RestOfBatch, SameInstant, HandOn, HeadTaken, HasPacket, network
  <2>2. queue[1].ts \in Times /\ since \in Times
    BY <2>1, QueueTail, TimetagsAreTimes DEF Entries, PieceInv, Clocks
  <2>3. CodeTime(queue[1].ts) <= CodeTime(since)
    <3>1. Diff(queue[1].ts, since) <= 0
      BY <1>2 DEF SameInstant
    <3> QED BY <3>1, <2>2, DiffOfTimes
  <2> QED BY <2>1, <2>2, <2>3, HeadTakenKeepsPieces
<1>3. CASE RestOfBatch /\ ~SameInstant
  <2>1. UNCHANGED <<log, queue, arrivals, time, since, packet>> /\ pc' = "loop"
    BY <1>3 DEF RestOfBatch
  \* What is left in the queue is later than the batch.
  <2>2. \A k \in DOMAIN log, l \in DOMAIN queue : ~Together(log[k].id, queue[l].id)
    <3> SUFFICES ASSUME NEW k \in DOMAIN log, NEW l \in DOMAIN queue,
                        Together(log[k].id, queue[l].id)
                 PROVE  FALSE
      OBVIOUS
    <3>1. CodeTime(queue[l].ts) <= CodeTime(since)
      BY DEF PieceInv, Apart
    <3>2. 1 \in DOMAIN queue /\ queue # <<>> /\ l \in Nat /\ l > 0
      BY AllType
    <3>3. /\ queue[1].ts \in Times /\ queue[l].ts \in Times /\ since \in Times
      BY <3>2, AllType, TimetagsAreTimes DEF PieceInv, Clocks
    <3>4. /\ Diff(queue[1].ts, since) = CodeTime(queue[1].ts) - CodeTime(since)
          /\ CodeTime(queue[1].ts) \in Int /\ CodeTime(queue[l].ts) \in Int
          /\ CodeTime(since) \in Int
      BY <3>3, DiffOfTimes
    <3>5. CodeTime(queue[1].ts) > CodeTime(since)
      BY <1>3, <3>2, <3>4 DEF SameInstant
    <3>6. l = 1 \/ Earlier(queue[1], queue[l])
      BY <3>2 DEF Inv, Sorted
    <3> QED BY <3>1, <3>4, <3>5, <3>6 DEF Earlier
  <2>3. Tagged' /\ Apart' /\ Current' /\ Clocks'
    BY <2>1, <2>2 DEF PieceInv, Tagged, Apart, Current, Clocks
  <2>4. Whole'
    BY <2>1 DEF PieceInv, Whole, All
  <2> QED BY <2>3, <2>4 DEF PieceInv
<1> QED BY <1>1, <1>2, <1>3

LEMMA PieceStep ==
  ASSUME Inv, LifeInv, PieceInv, [Next]_vars
  PROVE  PieceInv'
<1>0. Inv'
  BY InvStep
<1>1. CASE Deliver \/ Vanish \/ ErrorComes \/ ErrorGoes
  <2>1. Stays
    BY <1>1 DEF Deliver, Vanish, ErrorComes, ErrorGoes, Stays, thread
  <2> QED BY <2>1, StaysKeeps
<1>2. CASE Tick \/ UNCHANGED vars
  <2>1. Stays
    BY <1>2 DEF Tick, Stays, vars, thread
  <2> QED BY <2>1, StaysKeeps
<1>3. CASE Loop \/ Exit \/ Poll \/ Recv \/ Wait \/ ReadError \/ EndOfData \/ ClientCloses
  <2>1. Stays
    BY <1>3 DEF Loop, Exit, Poll, Recv, Wait, ReadError, EndOfData, ClientCloses, Stays
  <2> QED BY <2>1, StaysKeeps
<1>4. CASE Commands \/ Free
  <2>1. Stays
    BY <1>4 DEF Commands, Start, StartFails, Stop, Joined, JoinsNothing, Free, Stays, thread,
                LifeInv
  <2> QED BY <2>1, StaysKeeps
<1>5. CASE ClientSends \/ Read
  <2>1. Takes
    BY <1>5 DEF ClientSends, Read, Takes, PieceInv, Clocks
  <2> QED BY <2>1, <1>0, TakesKeeps
<1>6. CASE Element
  BY <1>6, ElementDecides, AtOnceKeepsPieces, KeptKeepsPieces
<1>7. CASE FirstOfBatch \/ RestOfBatch
  BY <1>7, BatchKeepsPieces
<1> QED BY <1>1, <1>2, <1>3, <1>4, <1>5, <1>6, <1>7, Steps DEF Others, Waits

\* Whatever bundles come and however the clock moves, the messages of a bundle reach
\* their methods in its order, with no other message between them.
THEOREM BundlesStayWhole == Spec => []BundlesInOnePiece
<1>1. Inv /\ PieceInv => BundlesInOnePiece
  <2> SUFFICES ASSUME Inv, PieceInv PROVE BundlesInOnePiece
    OBVIOUS
  <2>1. /\ DOMAIN LogIds = 1 .. Len(log) /\ Len(log) \in Nat /\ Len(queue) \in Nat
        /\ \A k \in 1 .. Len(log) : LogIds[k] = log[k].id
    BY AllType DEF LogIds
  <2>2. \A k \in 1 .. Len(log) : k \in 1 .. Len(log) + Len(queue) /\ All[k] = LogIds[k]
    BY <2>1 DEF All
  <2>3. InOnePiece(Len(log) + Len(queue), All)
    BY DEF PieceInv, Whole
  <2>4. \A i, j \in 1 .. Len(log) : \A k \in i + 1 .. j - 1 : k \in 1 .. Len(log)
    BY <2>1
  <2> QED BY <2>1, <2>2, <2>3, <2>4 DEF InOnePiece, BundlesInOnePiece
<1>2. Inv /\ LifeInv /\ PieceInv /\ [Next]_vars => PieceInv'
  BY PieceStep
<1>3. Init => Inv /\ PieceInv
  BY InvInit, PieceInit
<1>4. Inv /\ [Next]_vars => Inv'
  BY InvStep
<1> QED BY <1>1, <1>2, <1>3, <1>4, Life, PTL DEF Spec
=============================================================================
