------------------------------ MODULE Messages ------------------------------
(***************************************************************************)
(* A lo_message while it is built, looked at, sent and received: its type  *)
(* and data buffers, which grow by doubling, and the cached pointers to    *)
(* its arguments (lo/message.c).                                           *)
(*                                                                         *)
(* types and data are the contents of the two buffers, typesize and        *)
(* datasize the room they have.  A pointer into the data is a block and a  *)
(* place in it; realloc gives the data another block every time.           *)
(***************************************************************************)
EXTENDS Wire

CONSTANTS Hosts,            \* of Little and Big
          PointerSize,      \* 4 on ppc and i386, for which Fx is built
          Arguments,        \* what a program may add: [type, val]
          Lists,            \* calls of lo_message_add: [items, surplus]
          Paths,
          MaxArgs,          \* bound on the arguments of a message
          MaxDoublings      \* bound on the doublings one argument takes

\* Items of a list besides arguments: a type liblo does not know, and a known one
\* for which the caller passed no value.
Unknown    == [type |-> 63, val |-> <<>>]
Missing(t) == [type |-> t, val |-> <<222, 173, 190, 239>>]      \* LO_MARKER_A

Known(it) == it.type \in Types

\* An argument has the value its type asks for: the compiler sees to the sizes of
\* numbers, strings have no terminator inside, and blobs fit into a packet.
WellTyped(a) ==
    /\ a \in [type : Types, val : Seq(Byte)]
    /\ a.type \in Words \cup {Midi} => Len(a.val) = 4
    /\ a.type \in LongWords => Len(a.val) = 8
    /\ a.type \in Strings => \A i \in DOMAIN a.val : a.val[i] # Nul
    /\ a.type = Blob => Len(a.val) <= MaxSize
    /\ a.type \in Empty => a.val = <<>>

\* A list without its values is too short for its types, and the symbol that has
\* none of its own is the marker.
Callable(list) ==
    /\ list \in [items : Seq([type : Byte, val : Seq(Byte)]), surplus : Int]
    /\ \A i \in DOMAIN list.items :
            /\ Known(list.items[i]) => WellTyped(list.items[i])
            /\ list.items[i] = Missing(Symbol) => list.surplus # 0

ASSUME MessagesAssumption ==
    /\ Hosts \subseteq {Little, Big}
    /\ PointerSize \in {4, 8}
    /\ MaxArgs \in Nat /\ MaxDoublings \in Nat
    /\ \A a \in Arguments : WellTyped(a)
    /\ \A list \in Lists : Callable(list)
    /\ Paths # {} /\ Paths \subseteq Seq(Byte \ {Nul})

VARIABLES
    host,
    types, typesize,        \* without the comma and the terminator; all of the room
    data, datasize,
    block,                  \* where the data is
    argv,                   \* the cached pointers: if set, and what they are
    args,                   \* history: the arguments added
    call,                   \* lo_message_add: if running, what is left, the result
    overrun                 \* history: something was written beyond the room

message == <<types, typesize, data, datasize, block, argv, args, overrun>>
vars    == <<host, message, call>>

NoArgv == [set |-> FALSE, block |-> 0, at |-> <<>>]
NoCall == [running |-> FALSE, items |-> <<>>, list |-> [items |-> <<>>, surplus |-> 0],
           before |-> <<>>, ret |-> 0]

\* lo_message_new
Init ==
    /\ host \in Hosts
    /\ types = <<>> /\ typesize = 8
    /\ data = <<>> /\ datasize = 0 /\ block = 0
    /\ argv = NoArgv
    /\ args = <<>>
    /\ call = NoCall
    /\ overrun = FALSE

----------------------------------------------------------------------------
(* Adding *)

\* A plausible slip: the terminator is forgotten.
AddTypecharTight(t) ==
    /\ types' = Append(types, t)
    /\ typesize' = IF Len(types) + 1 >= typesize
                     THEN (IF typesize = 0 THEN 8 ELSE 2 * typesize) ELSE typesize
    /\ argv' = NoArgv

\* A plausible slip: only the data are thought to have pointers to them.
AddTypecharKeeping(t) ==
    /\ types' = Append(types, t)
    /\ typesize' = IF Len(types) + 2 >= typesize
                     THEN (IF typesize = 0 THEN 8 ELSE 2 * typesize) ELSE typesize
    /\ argv' = IF t \in Empty THEN argv ELSE NoArgv

\* lo_message_add_typechar
AddTypechar(t) ==
    /\ types' = Append(types, t)
    /\ typesize' = IF Len(types) + 2 >= typesize
                     THEN (IF typesize = 0 THEN 8 ELSE 2 * typesize) ELSE typesize
    /\ argv' = NoArgv

Capacities ==
    LET doubled[k \in 0 .. MaxDoublings] ==
            IF k = 0 THEN (IF datasize = 0 THEN 8 ELSE datasize) ELSE 2 * doubled[k - 1]
    IN  {doubled[k] : k \in 0 .. MaxDoublings}

\* lo_message_add_data, and the bytes then written to where it points: the
\* room is doubled until it is enough.
AddData(bytes, written) ==
    \E room \in Capacities :
        /\ Len(data) + Len(bytes) <= room
        /\ \A c \in Capacities : c < room => c < Len(data) + Len(bytes)
        /\ datasize' = room
        /\ data' = data \o bytes
        /\ block' = block + 1
        /\ overrun' = (overrun \/ Len(data) + written > room)

\* lo_message_add_midi copies sizeof(a) bytes, the size of a pointer.
Written(a) == IF a.type = Midi THEN PointerSize ELSE Len(ArgBytes(host, a))

\* One of lo_message_add_int32 and its like.
Put(a) ==
    /\ AddTypechar(a.type)
    /\ IF a.type \in Empty THEN UNCHANGED <<data, datasize, block, overrun>>
                           ELSE AddData(ArgBytes(host, a), Written(a))
    /\ args' = Append(args, a)

Room == Len(args) < MaxArgs

Add == \E a \in Arguments :
    /\ ~call.running /\ Room
    /\ Put(a)
    /\ call' = NoCall
    /\ UNCHANGED host

\* lo_message_add: the macro puts two markers behind the values it is given.
AddList == \E list \in Lists :
    /\ ~call.running /\ Len(args) + Len(list.items) <= MaxArgs
    /\ call' = [running |-> TRUE, items |-> list.items, list |-> list, before |-> args, ret |-> 0]
    /\ UNCHANGED <<host, message>>

Done(ret) == call' = [call EXCEPT !.running = FALSE, !.items = <<>>, !.ret = ret]

\* A plausible slip: a known type after an unknown one makes all well.
AddNextForgetting ==
    /\ call.running /\ call.items # <<>>
    /\ LET it == Head(call.items)
       IN  \/ ~Known(it) /\ call' = [call EXCEPT !.items = Tail(@), !.ret = -1]
                         /\ UNCHANGED message
           \/ Known(it) /\ Put(it) /\ call' = [call EXCEPT !.items = Tail(@), !.ret = 0]
    /\ UNCHANGED host

\* The loop of lo_message_add_varargs_internal.  An unknown type takes no value.
\* A marker in the place of a symbol ends it; in the place of a number it is
\* taken for one.
AddNext ==
    /\ call.running /\ call.items # <<>>
    /\ LET it == Head(call.items)
       IN  \/ /\ ~Known(it)
              /\ call' = [call EXCEPT !.items = Tail(@), !.ret = -1]
              /\ UNCHANGED message
           \/ /\ it = Missing(Symbol)
              /\ Done(-2)
              /\ UNCHANGED message
           \/ /\ Known(it) /\ it # Missing(Symbol)
              /\ Put(it)
              /\ call' = [call EXCEPT !.items = Tail(@)]
    /\ UNCHANGED host

\* After it the markers must be next: with a value too few or too many they are
\* not.
AddEnd ==
    /\ call.running /\ call.items = <<>>
    /\ Done(IF call.list.surplus # 0 THEN -2 ELSE call.ret)
    /\ UNCHANGED <<host, message>>

----------------------------------------------------------------------------
(* Looking, sending *)

\* lo_message_get_argv
GetArgv ==
    /\ ~call.running
    /\ argv' = IF argv.set THEN argv
               ELSE [set |-> TRUE, block |-> block, at |-> Argv(host, types, data)]
    /\ UNCHANGED <<host, types, typesize, data, datasize, block, args, call, overrun>>

\* The message is sent, and from now on the one received is looked at: its
\* buffers have no room to spare, and its pointers are set.
Receive == \E path \in Paths :
    LET r == Deserialise(host, Serialise(host, path, types, data))
    IN  /\ ~call.running
        /\ r.ok
        /\ types' = r.types /\ typesize' = PaddedSize(1 + Len(r.types))
        /\ data' = r.data /\ datasize' = Len(r.data)
        /\ block' = 1
        /\ argv' = IF r.types = <<>> THEN NoArgv ELSE [set |-> TRUE, block |-> 1, at |-> r.argv]
        /\ UNCHANGED <<host, args, call, overrun>>

\* lo_message_free, and lo_message_new again.
Renew ==
    /\ ~call.running
    /\ types' = <<>> /\ typesize' = 8
    /\ data' = <<>> /\ datasize' = 0 /\ block' = 0
    /\ argv' = NoArgv
    /\ args' = <<>>
    /\ call' = NoCall
    /\ overrun' = FALSE
    /\ UNCHANGED host

Next == Add \/ AddList \/ AddNext \/ AddEnd \/ GetArgv \/ Receive \/ Renew

Spec == Init /\ [][Next]_vars

----------------------------------------------------------------------------
(* Properties of the buffers *)

TypeOK ==
    /\ host \in Hosts
    /\ typesize \in Nat /\ datasize \in Nat /\ block \in Nat
    /\ \A i \in DOMAIN types : types[i] \in Types
    /\ Len(args) <= MaxArgs
    /\ argv.set => Len(argv.at) = Len(types)
    /\ call.running \in BOOLEAN /\ call.ret \in {0, -1, -2}

\* The cached pointers to the arguments are the ones lo_message_get_argv would
\* now find: none points into a block that realloc has freed, and none is missing.
ArgvFresh == argv.set => /\ argv.at = Argv(host, types, data)
                         /\ (\E i \in DOMAIN argv.at : argv.at[i] # 0) => argv.block = block

\* Types with their comma and terminator, and data, are in their buffers, and
\* nothing is ever written beyond: lo_message_add_typechar and _data make room
\* in time, whatever sizes a received message has left them; and the pointers to
\* the arguments follow the data wherever it is moved.
BuffersHold ==
    /\ TypeOK
    /\ Len(types) + 2 <= typesize
    /\ Len(data) <= datasize
    /\ ~overrun
    /\ ArgvFresh

WellFormed(list) == list.surplus = 0 /\ \A i \in DOMAIN list.items : Known(list.items[i])

\* A message is the list of what was added to it.  lo_message_add returns 0 if and
\* only if types and values match ("Less than 0 on failure, 0 on success"), and
\* has then added all of them.
AddTells ==
    /\ types = [i \in DOMAIN args |-> args[i].type]
    /\ data = FlattenSeq([i \in DOMAIN args |->
                 IF args[i].type \in Empty THEN <<>> ELSE ArgBytes(host, args[i])])
    /\ ~call.running /\ call # NoCall =>
           /\ call.ret = 0 <=> WellFormed(call.list)
           /\ call.ret = 0 => IsPrefix(call.before \o call.list.items, args)

----------------------------------------------------------------------------
(* Properties of what is sent *)

\* The message as Add leaves it: what is serialised depends neither on the call
\* that added the last argument nor on the pointers.
Fresh == ~argv.set /\ call = NoCall

Packet(h, path) == Serialise(h, path, types, data)

\* lo_message_deserialise is the "Opposite of lo_message_serialise()", and
\* lo_message_length says how long the form between them is.
RoundTrip == Fresh => \A path \in Paths :
    LET w == Packet(host, path)
        r == Deserialise(host, w)
    IN  /\ Len(w) = MessageLength(path, types, data)
        /\ r.ok /\ r.path = path /\ r.types = types /\ r.data = data
        /\ r.argv = Argv(host, types, data)

Canonical(w) ==
    LET r == Deserialise(host, w)
    IN  r.ok => w = Serialise(host, r.path, r.types, r.data)

\* The validation accepts nothing but what some message is serialised to: a byte
\* changed on the way gives another message, or none, and no message is accepted
\* before the last byte of it is there.
DamageShows == Fresh =>
    LET w == Packet(host, CHOOSE p \in Paths : TRUE)
    IN  /\ \A i \in DOMAIN w : \A v \in {0, 1} : Canonical([w EXCEPT ![i] = v])
        /\ \A n \in 0 .. Len(w) - 1 : ~Deserialise(host, SubSeq(w, 1, n)).ok

Other(h) == CHOOSE g \in {Little, Big} : g # h

\* Two hosts of different byte orders understand each other, as far as 32 bits
\* go: the halves of 64 are exchanged on the one with its most significant byte
\* first, and a char is in the wrong byte of its word.
HostsAgree == Fresh =>
    LET path == CHOOSE p \in Paths : TRUE
        r    == Deserialise(Other(host), Packet(host, path))
        Same(t) == t \notin LongWords \cup {Char}
    IN  /\ r.ok /\ r.types = types
        /\ (\A i \in DOMAIN types : Same(types[i])) =>
              r.data = FlattenSeq([i \in DOMAIN args |->
                 IF args[i].type \in Empty THEN <<>> ELSE ArgBytes(Other(host), args[i])])
=============================================================================
