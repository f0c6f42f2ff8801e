-------------------------------- MODULE Wire --------------------------------
(***************************************************************************)
(* OSC messages and bundles as bytes: the validation, serialisation and    *)
(* deserialisation of lo/message.c, lo/bundle.c and lo/blob.c, and what    *)
(* lo/server.c makes of a packet.                                          *)
(*                                                                         *)
(* A message in memory is a sequence of type characters and the data of    *)
(* its arguments, one after the other, in the byte order of the host.  An  *)
(* argument given by the program has a type and a value: the bytes of a    *)
(* number from the most significant one, of a string without its           *)
(* terminator, of a blob without its size.                                 *)
(***************************************************************************)
EXTENDS Integers, Sequences, SequencesExt, Folding

Byte  == 0 .. 255
Nul   == 0
Comma == 44

Int32  == 105   Float   == 102   String == 115   Blob   == 98
Int64  == 104   Timetag == 116   Double == 100   Symbol == 83
Char   == 99    Midi    == 109   True   == 84    False  == 70
Nil    == 78    Infinitum == 73

Words     == {Int32, Float, Char}           \* four bytes with an order
LongWords == {Int64, Timetag, Double}       \* eight
Strings   == {String, Symbol}
Empty     == {True, False, Nil, Infinitum}
Types     == Words \cup LongWords \cup Strings \cup Empty \cup {Blob, Midi}

Little == "little endian"
Big    == "big endian"

MaxSize == 32768                            \* LO_MAX_MSG_SIZE

Zeros(n)     == [i \in 1 .. n |-> Nul]
From(s, i)   == SubSeq(s, i, Len(s))
Padded(s, n) == s \o Zeros(n - Len(s))

----------------------------------------------------------------------------
(* Byte order: lo_endian.h *)

Swap32(host, b) == IF host = Little THEN Reverse(b) ELSE b

\* The halves are exchanged, whatever the host.
Swap64(host, b) == Swap32(host, SubSeq(b, 5, 8)) \o Swap32(host, SubSeq(b, 1, 4))

\* A plausible slip: a type is left out of both conversions.
HostEndianFloats(host, t, b) ==
    CASE t \in Words \ {Int32} -> Swap32(host, b)
      [] t \in LongWords       -> Swap64(host, b)
      [] t = Blob              -> Swap32(host, SubSeq(b, 1, 4)) \o From(b, 5)
      [] OTHER                 -> b

\* lo_arg_host_endian; the data of a blob begins with its size, the rest of it
\* has no order.
HostEndian(host, t, b) ==
    CASE t \in Words     -> Swap32(host, b)
      [] t \in LongWords -> Swap64(host, b)
      [] t = Blob        -> Swap32(host, SubSeq(b, 1, 4)) \o From(b, 5)
      [] OTHER           -> b

\* A plausible slip: the two halves of 64 bits are not exchanged.
NetworkEndianHalves(host, t, b) ==
    IF t \in LongWords THEN Swap32(host, SubSeq(b, 1, 4)) \o Swap32(host, SubSeq(b, 5, 8))
    ELSE HostEndian(host, t, b)

\* lo_arg_network_endian does the same.
NetworkEndian(host, t, b) == HostEndian(host, t, b)

\* The 32 bits of a size, of which there are never more than MaxSize bytes;
\* MaxSize + 1 stands for every larger number.
Number(b)  == IF b[1] > 0 \/ b[2] > 0 \/ 256 * b[3] + b[4] > MaxSize
                THEN MaxSize + 1 ELSE 256 * b[3] + b[4]
Network(n) == <<0, 0, n \div 256, n % 256>>

----------------------------------------------------------------------------
(* Sizes *)

\* A plausible slip: a string whose length is a multiple of four ends there.
PaddedSizeTight(n) == 4 * ((n + 3) \div 4)

\* The size of n bytes and one to four zeros: lo_strsize and lo_blobsize.
PaddedSize(n) == 4 * (n \div 4 + 1)

\* strlen, where there is a terminator.
StrLen(b) == SelectInSeq(b, LAMBDA x : x = Nul) - 1

\* lo_arg_size, of the argument at the beginning of b.
ArgSize(host, t, b) ==
    CASE t \in Empty                -> 0
      [] t \in Words \cup {Midi}    -> 4
      [] t \in LongWords            -> 8
      [] t \in Strings              -> PaddedSize(StrLen(b))
      [] t = Blob                   -> PaddedSize(4 + Number(Swap32(host, SubSeq(b, 1, 4))))

\* What lo_message_add_* leaves in the data: numbers in the order of the host, a
\* char in the first byte of its word, strings and blobs with zeros after them.
ArgBytes(host, a) ==
    CASE a.type = Char       -> <<a.val[4]>> \o SubSeq(a.val, 1, 3)
      [] a.type \in (Words \cup LongWords) \ {Char} ->
            IF host = Little THEN Reverse(a.val) ELSE a.val
      [] a.type \in Strings  -> Padded(a.val, PaddedSize(Len(a.val)))
      [] a.type = Blob       -> Padded(Swap32(host, Network(Len(a.val))) \o a.val,
                                       PaddedSize(4 + Len(a.val)))
      [] OTHER               -> a.val

----------------------------------------------------------------------------
(* Validation.  Bad stands for every negative result. *)

Bad == -1

\* A plausible slip: what follows the terminator is not looked at.
ValidateStringUnpadded(b) ==
    LET len == PaddedSize(StrLen(b))
    IN  IF StrLen(b) < 0 \/ len > Len(b) THEN Bad ELSE len

Terminated(b, n, len) == n >= 0 /\ len <= Len(b) /\ \A i \in n + 1 .. len : b[i] = Nul

ValidateString(b) ==
    IF Terminated(b, StrLen(b), PaddedSize(StrLen(b))) THEN PaddedSize(StrLen(b)) ELSE Bad

\* (Of less than four bytes the code reads the ones beyond, too; whatever they
\* are, there is no room for a blob.)
ValidateBlob(b) ==
    LET end == 4 + Number(b)
        len == PaddedSize(end)
    IN  IF Len(b) < 4 \/ Number(b) > MaxSize \/ len > Len(b)
              \/ \E i \in end + 1 .. len : b[i] # Nul
          THEN Bad ELSE len

\* A plausible slip: an argument of which nothing is left is taken for an empty one.
AtLeastOrNone(n, b) == IF Len(b) >= n THEN n ELSE IF b = <<>> THEN 0 ELSE Bad

AtLeast(n, b) == IF Len(b) >= n THEN n ELSE Bad

ValidateArg(t, b) ==
    CASE t \in Empty             -> 0
      [] t \in Words \cup {Midi} -> AtLeast(4, b)
      [] t \in LongWords         -> AtLeast(8, b)
      [] t \in Strings           -> ValidateString(b)
      [] t = Blob                -> ValidateBlob(b)
      [] OTHER                   -> Bad

----------------------------------------------------------------------------
(* Messages *)

\* The places of the arguments in the data, 0 for those without; -1 where the
\* code's pointers would leave it.  lo_message_get_argv.
Walk(host, types, data) ==
    Folded(LAMBDA acc, t :
                LET len == ArgSize(host, t, From(data, acc.at))
                IN  [at |-> acc.at + len,
                     argv |-> Append(acc.argv, IF len = 0 THEN 0 ELSE acc.at)],
             [at |-> 1, argv |-> <<>>], types)

Argv(host, types, data) == Walk(host, types, data).argv

MessageLength(path, types, data) ==
    PaddedSize(Len(path)) + PaddedSize(1 + Len(types)) + Len(data)

PaddedString(s) == Padded(s, PaddedSize(Len(s)))

\* The data in network order.
NetworkData(host, types, data) ==
    Folded(LAMBDA acc, t :
                LET len == ArgSize(host, t, From(data, acc.at))
                IN  [at |-> acc.at + len,
                     out |-> acc.out \o NetworkEndian(host, t, SubSeq(data, acc.at, acc.at + len - 1))],
             [at |-> 1, out |-> <<>>], types).out

Serialise(host, path, types, data) ==
    PaddedString(path) \o PaddedString(<<Comma>> \o types) \o NetworkData(host, types, data)

Rejected(why) == [ok |-> FALSE, why |-> why]

\* The next argument, of type t, put into the order of the host.
ReadArg(host, acc, t, len) ==
    IF ~acc.ok \/ len = Bad THEN [acc EXCEPT !.ok = FALSE]
    ELSE [ok   |-> TRUE,
          argv |-> Append(acc.argv, IF len = 0 THEN 0 ELSE Len(acc.data) + 1),
          data |-> acc.data \o HostEndian(host, t, SubSeq(acc.rest, 1, len)),
          rest |-> From(acc.rest, len + 1)]

\* The arguments are validated one after the other, each in what the ones before
\* it have left.
ReadArgs(host, types, b) ==
    Folded(LAMBDA acc, t : ReadArg(host, acc, t, ValidateArg(t, acc.rest)),
             [ok |-> TRUE, argv |-> <<>>, data |-> <<>>, rest |-> b], types)

\* A message with this path, type string and arguments as they were read.
Read(path, types, typesize, args) ==
    IF ~args.ok THEN Rejected("argument")
    ELSE IF args.rest # <<>> THEN Rejected("size")
    ELSE [ok |-> TRUE, path |-> path, types |-> types, typesize |-> typesize,
          data |-> args.data, argv |-> args.argv]

\* ... whose path is followed by b, beginning with a type string of that length.
ReadTyped(host, path, b, len) ==
    IF b = <<>> THEN Rejected("no types")
    ELSE IF len = Bad THEN Rejected("types")
    ELSE IF b[1] # Comma THEN Rejected("no comma")
    ELSE LET types == SubSeq(b, 2, StrLen(b))
         IN  Read(path, types, len, ReadArgs(host, types, From(b, len + 1)))

\* ... which takes that many bytes of w, its path.
ReadFrom(host, w, len) ==
    IF w = <<>> THEN Rejected("size")
    ELSE IF len = Bad THEN Rejected("path")
    ELSE LET typed == From(w, len + 1)
         IN  ReadTyped(host, SubSeq(w, 1, StrLen(w)), typed, ValidateString(typed))

\* lo_message_deserialise
Deserialise(host, w) == ReadFrom(host, w, ValidateString(w))

----------------------------------------------------------------------------
(* Bundles: sequences of messages, each with path, types and data *)

BundleMark == <<35, 98, 117, 110, 100, 108, 101>>       \* "#bundle"

BundleLength(b) ==
    Folded(LAMBDA n, e : n + 4 + MessageLength(e.path, e.types, e.data), 16, b)

BundleSerialise(host, ts, b) ==
    Folded(LAMBDA w, e :
                w \o Network(MessageLength(e.path, e.types, e.data))
                  \o Serialise(host, e.path, e.types, e.data),
             PaddedString(BundleMark) \o ts, b)

\* The elements of a bundle, from its first size on, as far as the sizes go;
\* then what is left over.  The code's two loops over them: n is a bound on
\* their number.
Elements(w) ==
    Folded(LAMBDA acc, i :
                IF Len(acc.rest) < 4 \/ Number(acc.rest) > Len(acc.rest) - 4 THEN acc
                ELSE [elems |-> Append(acc.elems, SubSeq(acc.rest, 5, 4 + Number(acc.rest))),
                      rest  |-> From(acc.rest, 5 + Number(acc.rest))],
             [elems |-> <<>>, rest |-> w], [i \in 1 .. Len(w) \div 4 |-> i])

\* A plausible slip: four bytes or more that are no element may be left over.
ValidateBundleLoose(w) ==
    /\ ValidateString(w) # Bad /\ SubSeq(w, 1, StrLen(w)) = BundleMark
    /\ Len(w) >= 16

\* lo_validate_bundle
ValidateBundle(w) ==
    /\ ValidateString(w) # Bad /\ SubSeq(w, 1, StrLen(w)) = BundleMark
    /\ Len(w) >= 16
    /\ Elements(From(w, 17)).rest = <<>>

\* The messages before the first that cannot be read.
Readable(all, bad) ==
    [ok |-> bad = 0, msgs |-> SubSeq(all, 1, IF bad = 0 THEN Len(all) ELSE bad - 1)]

UpToBad(all) == Readable(all, SelectInSeq(all, LAMBDA m : ~m.ok))

ReadAll(host, elems) == UpToBad([i \in DOMAIN elems |-> Deserialise(host, elems[i])])

\* A message that came without a bundle.
Alone(m) == IF m.ok THEN [ok |-> TRUE, msgs |-> <<m>>] ELSE m

\* lo_server_dispatch_data: the messages a packet is taken for, or Rejected.
Received(host, w) ==
    IF ValidateString(w) = Bad THEN Rejected("path")
    ELSE IF SubSeq(w, 1, StrLen(w)) # BundleMark THEN Alone(Deserialise(host, w))
    ELSE IF ~ValidateBundle(w) THEN Rejected("bundle")
    ELSE ReadAll(host, Elements(From(w, 17)).elems)
=============================================================================
