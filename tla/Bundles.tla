------------------------------ MODULE Bundles -------------------------------
(***************************************************************************)
(* Bundles of messages (lo/bundle.c): the array of pointers that grows by  *)
(* doubling, what is sent of it and what becomes of that, and how the      *)
(* messages are freed with their bundle.                                   *)
(*                                                                         *)
(* There are two messages: This, the one of Messages, which may be added   *)
(* to after it was put into the bundle, and That, which has no arguments.  *)
(***************************************************************************)
EXTENDS Messages

CONSTANTS MaxBundled,       \* bound on the elements of a bundle
          BundledArgs,      \* bound on the arguments of a message in a bundle
          PathAt(_)         \* the path with which the i-th message is added

This == 1                   \* the addresses of the messages
That == 2

ASSUME BundlesAssumption ==
    /\ MaxBundled \in Nat /\ BundledArgs \in Nat
    /\ \A i \in 1 .. MaxBundled : PathAt(i) \in Seq(Byte \ {Nul})

VARIABLES
    bundle, room,           \* the addresses of its messages, and for how many there is room
    freed                   \* history: what the last step has freed, with its bundle

bundleVars == <<bundle, room, freed>>

None == [of |-> <<>>, msgs |-> <<>>]

\* lo_bundle_new
BundleInit ==
    /\ Init
    /\ bundle = <<>> /\ room = 4
    /\ freed = None

\* A plausible slip: there is room for one less than there is.
AddMessageTight ==
    /\ Fresh /\ Len(args) <= BundledArgs /\ Len(bundle) < MaxBundled
    /\ \E m \in {This, That} : bundle' = Append(bundle, m)
    /\ room' = IF Len(bundle) > room THEN 2 * room ELSE room
    /\ freed' = None
    /\ UNCHANGED vars

\* lo_bundle_add_message.  (NULL is not added.)
AddMessage ==
    /\ Fresh /\ Len(args) <= BundledArgs /\ Len(bundle) < MaxBundled
    /\ \E m \in {This, That} : bundle' = Append(bundle, m)
    /\ room' = IF Len(bundle) >= room THEN 2 * room ELSE room
    /\ freed' = None
    /\ UNCHANGED vars

\* The pointers s, where the last one freed does not stand again.
WithoutRepeats(s) ==
    LET once(i) == IF i > 1 /\ s[i] = s[i - 1] THEN <<>> ELSE <<s[i]>>
    IN  FlattenSeq([i \in DOMAIN s |-> once(i)])

Below(s, a) == Cardinality({i \in DOMAIN s : s[i] < a})
UpTo(s, a)  == Cardinality({i \in DOMAIN s : s[i] <= a})

\* What qsort makes of the pointers s: fewer than k of them are below the one in
\* place k, and at least k are not above it.
InOrder(s) ==
    [k \in DOMAIN s |-> CHOOSE a \in ToSet(s) : Below(s, a) < k /\ k <= UpTo(s, a)]

\* A plausible slip: three pointers are thought to be in order as two are.
FreedUnsorted(s) == WithoutRepeats(IF Len(s) > 3 THEN InOrder(s) ELSE s)

\* What lo_bundle_free_messages frees, in its order.
Freed(s) == WithoutRepeats(IF Len(s) > 2 THEN InOrder(s) ELSE s)

\* lo_bundle_free_messages; the program goes on with a new message and bundle.
FreeMessages ==
    /\ bundle # <<>>
    /\ freed' = [of |-> bundle, msgs |-> Freed(bundle)]
    /\ bundle' = <<>> /\ room' = 4
    /\ Renew

\* A message that is in the bundle may be added to.
MessageStep ==
    /\ \/ bundle = <<>> /\ Next
       \/ bundle # <<>> /\ Len(args) < BundledArgs /\ Add
    /\ freed' = None
    /\ UNCHANGED <<bundle, room>>

BundleNext == AddMessage \/ FreeMessages \/ MessageStep

BundleSpec == BundleInit /\ [][BundleNext]_<<vars, bundleVars>>

----------------------------------------------------------------------------
Element(i) ==
    [path  |-> PathAt(i),
     types |-> IF bundle[i] = This THEN types ELSE <<>>,
     data  |-> IF bundle[i] = This THEN data ELSE <<>>]

Sent == [i \in DOMAIN bundle |-> Element(i)]
Cut(n) == SubSeq(Sent, 1, n)

\* The packet r was taken for the first n messages of the bundle.
TakenFor(r, n) ==
    /\ r.ok /\ Len(r.msgs) = n
    /\ \A i \in 1 .. n : /\ r.msgs[i].path = Sent[i].path
                         /\ r.msgs[i].types = Sent[i].types
                         /\ r.msgs[i].data = Sent[i].data

Now1 == <<0, 0, 0, 0, 0, 0, 0, 1>>          \* LO_TT_IMMEDIATE

\* A bundle is received as the messages put into it, with what was added to them
\* later; lo_bundle_length is what lo_bundle_serialise writes.  Cut short the
\* packet is rejected, or it ends where one of its elements did.
BundleWhole ==
    LET w == BundleSerialise(host, Now1, Sent)
    IN  /\ Len(bundle) <= room
        /\ Len(w) = BundleLength(Sent)
        /\ TakenFor(Received(host, w), Len(bundle))
        /\ \A n \in 0 .. Len(w) - 1 :
              LET r == Received(host, SubSeq(w, 1, n))
              IN  r.ok => \E k \in 0 .. Len(bundle) - 1 :
                              n = BundleLength(Cut(k)) /\ TakenFor(r, k)

\* lo_bundle_free_messages frees every message of the bundle once, however often
\* and in whatever order they were added ("avoid freeing the same message twice").
FreedOnce ==
    /\ ToSet(freed.msgs) = ToSet(freed.of)
    /\ \A i, j \in DOMAIN freed.msgs : freed.msgs[i] = freed.msgs[j] => i = j
=============================================================================
