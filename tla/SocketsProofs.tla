--------------------------- MODULE SocketsProofs ----------------------------
(***************************************************************************)
(* What Sockets promises for every value of its constants: any number of   *)
(* servers, addresses, descriptors and attempts.                           *)
(***************************************************************************)
EXTENDS Sockets, TLAPS

FdOrNone == Fds \cup {NoFd}

Shape(c) == c = [step |-> c.step, a |-> c.a, from |-> c.from, big |-> c.big, sock |-> c.sock,
                 ret |-> c.ret, ttl |-> c.ttl, own |-> c.own,
                 via |-> c.via, server |-> c.server, freed |-> c.freed]

CallOK ==
    /\ Shape(call)
    /\ call.server \in BOOLEAN /\ call.freed \in BOOLEAN
    /\ call.step # "none" => call.a \in Addresses

\* The types the other invariants need.
Typed ==
    /\ open \subseteq Fds
    /\ state \in [Objects -> {"none", "opening", "live"}]
    /\ proto \in [Objects -> Protocols]
    /\ socket \in [Objects -> FdOrNone]
    /\ client \in [{"udp", "tcp"} -> FdOrNone]
    /\ CallOK

LEMMA NoFdIsNone == NoFd \notin Fds
  BY SocketsAssumption DEF NoFd

LEMMA TypedInit == Init => Typed
<1> SUFFICES ASSUME Init PROVE Typed
  OBVIOUS
<1>1. CallOK
  BY DEF Init, CallOK, Shape, NoCall
<1>2. client \in [{"udp", "tcp"} -> FdOrNone]
  BY DEF Init, FdOrNone
<1> QED BY <1>1, <1>2 DEF Init, Typed, Protocols, FdOrNone

\* What the other thread's steps leave of a call: all of it, but for freed; and
\* nothing once it is done.
CallKept ==
    IF call.step = "done" THEN call'.step = "none"
    ELSE /\ call'.step = call.step /\ call'.a = call.a /\ call'.from = call.from
         /\ call'.sock = call.sock /\ call'.via = call.via /\ call'.server = call.server

LEMMA MeanwhileKeeps ==
    ASSUME CallOK, Meanwhile
    PROVE  CallOK' /\ CallKept /\ (call.step # "done" => call'.freed = call.freed)
  BY DEF CallOK, Meanwhile, CallKept, Shape, NoCall

LEMMA FreeServerKeeps ==
    ASSUME CallOK, FreeServer
    PROVE  CallOK' /\ CallKept
<1>1. PICK s \in Servers :
          call' = IF call.step = "done" THEN NoCall
                  ELSE [call EXCEPT !.freed = @ \/ (call.step = "load" /\ s = newest)
                                                \/ (call.step = "transmit" /\ s = call.via)]
  BY DEF FreeServer
<1>2. CASE call.step = "done"
  BY <1>1, <1>2 DEF CallOK, CallKept, Shape, NoCall
<1>3. CASE call.step # "done"
  <2>1. PICK b \in BOOLEAN : call' = [call EXCEPT !.freed = b]
    BY <1>1, <1>3 DEF CallOK
  <2> QED BY <1>3, <2>1 DEF CallOK, CallKept, Shape
<1> QED BY <1>2, <1>3

LEMMA OthersKeep == CallOK /\ (ServerStep \/ AddressStep) => CallOK' /\ CallKept
  BY MeanwhileKeeps, FreeServerKeeps
     DEF ServerStep, NewServer, Unresolved, NoSocket, BindFails, PortInUse, Bound, Accept,
         AddressStep, NewAddress, SetTtl, FreeAddress

LEMMA TypedServers == Typed /\ ServerStep => Typed'
<1> SUFFICES ASSUME Typed, ServerStep PROVE Typed'
  OBVIOUS
<1> USE DEF Typed, Objects, descriptors, objects, serverVars, addressVars
<1>c. CallOK'
  BY OthersKeep
<1>1. CASE NewServer
  BY <1>1, <1>c, SocketsAssumption DEF NewServer
<1>2. CASE Unresolved \/ NoSocket \/ BindFails
  BY <1>2, <1>c DEF Unresolved, NoSocket, BindFails, Gone, Protocols, FdOrNone
<1>3. CASE PortInUse
  BY <1>3, <1>c DEF PortInUse, Opens, FdOrNone
<1>4. CASE Bound
  <2>1. PICK s \in Servers, f \in Fds :
            /\ Opens(f)
            /\ state' = [state EXCEPT ![s] = "live"]
            /\ socket' = [socket EXCEPT ![s] = f]
            /\ client' = IF proto[s] = "unix" THEN client ELSE [client EXCEPT ![proto[s]] = f]
            /\ UNCHANGED proto
    BY <1>4 DEF Bound
  <2>2. open' \subseteq Fds
    BY <2>1 DEF Opens
  <2>3. client' \in [{"udp", "tcp"} -> FdOrNone]
    <3>1. f \in FdOrNone /\ (proto[s] = "unix" \/ proto[s] \in {"udp", "tcp"})
      BY DEF FdOrNone, Protocols
    <3> QED BY <2>1, <3>1
  <2> QED BY <2>1, <2>2, <2>3, <1>c DEF FdOrNone
<1>5. CASE FreeServer
  <2>1. PICK s \in Servers : Gone(s) /\ Forgets(s) /\ Closes(socket[s])
    BY <1>5 DEF FreeServer
  <2>2. client' \in [{"udp", "tcp"} -> FdOrNone]
    BY <2>1 DEF Forgets, FdOrNone
  <2> QED BY <2>1, <2>2, <1>c DEF Gone, Closes, Protocols, FdOrNone
<1>6. CASE Accept
  BY <1>6, <1>c DEF Accept, Opens
<1> QED BY <1>1, <1>2, <1>3, <1>4, <1>5, <1>6 DEF ServerStep

LEMMA TypedAddresses == Typed /\ AddressStep => Typed'
<1> SUFFICES ASSUME Typed, AddressStep PROVE Typed'
  OBVIOUS
<1> USE DEF Typed, Objects, descriptors, objects, serverVars
<1>c. CallOK'
  BY OthersKeep
<1>1. CASE NewAddress
  <2>1. PICK a \in Addresses, p \in AddressProtocols :
            /\ state' = [state EXCEPT ![a] = "live"]
            /\ proto' = [proto EXCEPT ![a] = p]
            /\ UNCHANGED <<socket, descriptors, serverVars>>
    BY <1>1 DEF NewAddress
  <2> QED BY <2>1, <1>c, SocketsAssumption
<1>2. CASE FreeAddress
  <2>1. PICK a \in Addresses : Gone(a) /\ Closes(socket[a]) /\ UNCHANGED <<lost, serverVars>>
    BY <1>2 DEF FreeAddress
  <2> QED BY <2>1, <1>c DEF Gone, Closes, Protocols, FdOrNone
<1>3. CASE SetTtl
  BY <1>3, <1>c DEF SetTtl
<1> QED BY <1>1, <1>2, <1>3 DEF AddressStep

LEMMA TypedSending == Typed /\ SendStep => Typed'
<1> SUFFICES ASSUME Typed, SendStep PROVE Typed'
  OBVIOUS
<1> USE DEF Typed, Objects, descriptors, objects, serverVars, addressVars
<1>1. ASSUME NEW f, NEW o, UseSocket(f, o), call.step = "pick" PROVE CallOK'
  <2>1. PICK b \in BOOLEAN : call' = [call EXCEPT !.step = "transmit", !.sock = f, !.via = o,
                                                  !.server = b]
    BY <1>1 DEF UseSocket
  <2> QED BY <1>1, <2>1 DEF CallOK, Shape
<1>2. ASSUME NEW a \in Addresses, NEW ret, NEW t, NEW own, call' = Done(a, ret, t, own)
      PROVE  CallOK'
  BY <1>2 DEF CallOK, Shape, Done, NoCall
<1>3. ASSUME Fails, Sending PROVE CallOK'
  BY <1>2, <1>3 DEF Fails, Sending, CallOK
<1>4. CASE Call
  <2>1. PICK a \in Addresses :
            \/ call' = Done(a, -1, -1, FALSE)
            \/ \E from, big : call' = Begun(a, from, big)
    BY <1>4, Zenon DEF Call
  <2>2. ASSUME NEW from, NEW big, call' = Begun(a, from, big) PROVE CallOK'
    BY <2>2 DEF CallOK, Shape, Begun, NoCall
  <2>3. CallOK'
    BY <1>2, <2>1, <2>2
  <2> QED BY <1>4, <2>3 DEF Call
<1>5. CASE Check
  <2>1. call.step = "check" /\ Sending
    BY <1>5 DEF Check, Sending
  <2>2. CASE call' = [call EXCEPT !.step = "pick"]
    <3>1. CallOK'
      BY <2>1, <2>2 DEF CallOK, Shape
    <3> QED BY <1>5, <3>1 DEF Check
  <2> QED BY <1>3, <1>5, <2>1, <2>2 DEF Check
<1>6. CASE Pick
  <2>1. call.step = "pick"
    BY <1>6 DEF Pick
  <2>2. CASE call' = [call EXCEPT !.step = "load"]
    <3>1. CallOK'
      BY <2>1, <2>2 DEF CallOK, Shape
    <3> QED BY <1>6, <3>1 DEF Pick
  <2> QED BY <1>1, <1>6, <2>1, <2>2 DEF Pick
<1>7. CASE Load
  <2>1. PICK b \in BOOLEAN :
            call' = [call EXCEPT !.step = "transmit", !.sock = client.udp, !.via = newest,
                                 !.server = TRUE, !.freed = b]
    BY <1>7 DEF Load, CallOK
  <2>2. call.step = "load"
    BY <1>7 DEF Load
  <2>3. CallOK'
    BY <2>1, <2>2 DEF CallOK, Shape
  <2> QED BY <1>7, <2>3 DEF Load
<1>8. CASE ConnectFails \/ CreateFails
  BY <1>3, <1>8 DEF ConnectFails, CreateFails, NoneToReuse, Sending
<1>9. CASE Create
  <2>1. PICK f \in Fds : /\ Opens(f) /\ socket' = [socket EXCEPT ![call.a] = f]
                         /\ UseSocket(f, call.a) /\ call.step = "pick"
    BY <1>9 DEF Create, NoneToReuse
  <2> QED BY <1>1, <1>9, <2>1 DEF Create, Opens, FdOrNone
<1>10. CASE Transmit
  <2>1. CallOK'
    <3>1. call.a \in Addresses /\ \E ret, t, own : call' = Done(call.a, ret, t, own)
      BY <1>10 DEF Transmit, CallOK
    <3> QED BY <1>2, <3>1
  <2>2. open' \subseteq Fds /\ socket' \in [Objects -> FdOrNone]
    BY <1>10 DEF Transmit, CloseOwn, Closes, FdOrNone
  <2> QED BY <1>10, <2>1, <2>2 DEF Transmit
<1> QED BY <1>4, <1>5, <1>6, <1>7, <1>8, <1>9, <1>10 DEF SendStep

LEMMA TypedStutter == Typed /\ UNCHANGED vars => Typed'
  BY DEF Typed, CallOK, vars, descriptors, objects, serverVars, addressVars, Objects, Shape

LEMMA TypedNext == Typed /\ [Next]_vars => Typed'
  BY TypedServers, TypedAddresses, TypedSending, TypedStutter DEF Next

LEMMA TypedAlways == Spec => []Typed
<1>1. Init => Typed
  BY TypedInit
<1>2. Typed /\ [Next]_vars => Typed'
  BY TypedNext
<1> QED BY <1>1, <1>2, PTL DEF Spec

----------------------------------------------------------------------------
(* Who owns what: OneOwner.                                                 *)

\* The same, descriptor by descriptor.
OwnedEach ==
    /\ \A o, p \in Objects : socket[o] = socket[p] /\ socket[o] # NoFd => o = p
    /\ \A o \in Objects : socket[o] # NoFd => socket[o] \in open /\ socket[o] \notin lost
    /\ \A f \in open : f \in lost \/ \E o \in Objects : socket[o] = f
    /\ lost \subseteq open

LEMMA OwnedIsEach == Typed => (OneOwner <=> OwnedEach)
  BY NoFdIsNone DEF Typed, OwnedEach, OneOwner, Held

\* What a step can do with descriptors, whoever takes it: nothing, ...
LEMMA KeepsOwned ==
    ASSUME Typed, OwnedEach, UNCHANGED <<open, lost, socket>>
    PROVE  OwnedEach'
  BY DEF OwnedEach, Objects

\* ... let the socket of an object go without closing it, ...
LEMMA LosesOwned ==
    ASSUME Typed, OwnedEach, NEW o \in Objects,
           socket' = [socket EXCEPT ![o] = NoFd],
           lost' = lost \cup ({socket[o]} \ {NoFd}), UNCHANGED open
    PROVE  OwnedEach'
  BY NoFdIsNone DEF Typed, OwnedEach, Objects

\* ... and open another for it, ...
LEMMA ReplacesOwned ==
    ASSUME Typed, OwnedEach, NEW o \in Objects, NEW f \in Fds, Opens(f),
           socket' = [socket EXCEPT ![o] = f],
           lost' = lost \cup ({socket[o]} \ {NoFd})
    PROVE  OwnedEach'
  BY NoFdIsNone DEF Typed, OwnedEach, Objects, Opens

\* ... close it, ...
LEMMA ClosesOwned ==
    ASSUME Typed, OwnedEach, NEW o \in Objects, Closes(socket[o]),
           socket' = [socket EXCEPT ![o] = NoFd], UNCHANGED lost
    PROVE  OwnedEach'
  BY NoFdIsNone DEF Typed, OwnedEach, Objects, Closes

\* ... or open one that nobody will close.
LEMMA AcceptsOwned ==
    ASSUME Typed, OwnedEach, NEW f \in Fds, Opens(f),
           lost' = lost \cup {f}, UNCHANGED socket
    PROVE  OwnedEach'
  BY NoFdIsNone DEF Typed, OwnedEach, Objects, Opens

LEMMA OwnedInit == Init => OwnedEach
  BY DEF Init, OwnedEach

LEMMA OwnedNext == Typed /\ OwnedEach /\ [Next]_vars => OwnedEach'
<1> SUFFICES ASSUME Typed, OwnedEach, [Next]_vars PROVE OwnedEach'
  OBVIOUS
<1> USE DEF descriptors, objects, serverVars, addressVars
<1>1. ASSUME UNCHANGED <<open, lost, socket>> PROVE OwnedEach'
  BY <1>1, KeepsOwned
<1>2. CASE NewServer
  BY <1>1, <1>2 DEF NewServer
<1>3. CASE Unresolved \/ NoSocket \/ BindFails
  <2>1. PICK s \in Servers : /\ socket' = [socket EXCEPT ![s] = NoFd]
                             /\ lost' = lost \cup ({socket[s]} \ {NoFd})
                             /\ UNCHANGED open
    BY <1>3 DEF Unresolved, NoSocket, BindFails, Gone
  <2> QED BY <2>1, LosesOwned DEF Objects
<1>4. CASE PortInUse \/ Bound
  <2>1. PICK s \in Servers, f \in Fds : /\ Opens(f)
                                        /\ socket' = [socket EXCEPT ![s] = f]
                                        /\ lost' = lost \cup ({socket[s]} \ {NoFd})
    BY <1>4 DEF PortInUse, Bound
  <2> QED BY <2>1, ReplacesOwned DEF Objects
<1>5. CASE FreeServer \/ FreeAddress
  <2>1. PICK o \in Objects : /\ Closes(socket[o])
                             /\ socket' = [socket EXCEPT ![o] = NoFd]
                             /\ UNCHANGED lost
    BY <1>5 DEF FreeServer, FreeAddress, Gone, Objects
  <2> QED BY <2>1, ClosesOwned
<1>6. CASE Accept
  <2>1. PICK f \in Fds : Opens(f) /\ lost' = lost \cup {f} /\ UNCHANGED socket
    BY <1>6 DEF Accept
  <2> QED BY <2>1, AcceptsOwned
<1>7. CASE NewAddress \/ SetTtl \/ Call \/ Check \/ Pick \/ Load \/ ConnectFails \/ CreateFails
  BY <1>1, <1>7 DEF NewAddress, SetTtl, Call, Check, Pick, Load, ConnectFails, CreateFails
<1>8. CASE Create
  <2>1. PICK f \in Fds : /\ Opens(f) /\ UNCHANGED lost /\ socket[call.a] = NoFd
                         /\ socket' = [socket EXCEPT ![call.a] = f] /\ call.step = "pick"
    BY <1>8 DEF Create, NoneToReuse
  <2>2. lost' = lost \cup ({socket[call.a]} \ {NoFd})
    BY <2>1
  <2> QED BY <2>1, <2>2, ReplacesOwned DEF Objects, Typed, CallOK
<1>9. CASE Transmit
  <2> call.step = "transmit"
    BY <1>9 DEF Transmit
  <2>1. CASE CloseOwn(call.a) /\ UNCHANGED lost
    BY <2>1, ClosesOwned DEF CloseOwn, Objects, Typed, CallOK
  <2>2. CASE UNCHANGED <<open, lost, socket>>
    BY <1>1, <2>2
  <2> QED BY <1>9, <2>1, <2>2 DEF Transmit
<1>10. CASE UNCHANGED vars
  BY <1>1, <1>10 DEF vars
<1> QED BY <1>2, <1>3, <1>4, <1>5, <1>6, <1>7, <1>8, <1>9, <1>10
        DEF Next, ServerStep, AddressStep, SendStep

\* However many servers fail to open, are freed or hand their sockets to what is
\* sent meanwhile, no socket has two owners and none is closed under its owner:
\* lo_server_free, lo_address_free and the close() after a send over TCP.  The
\* descriptors that stay open without an owner are those of attempts to bind and of
\* accepted connections.
THEOREM SocketsHaveOneOwner == Spec => []OneOwner
<1>1. Init => Typed /\ OwnedEach
  BY TypedInit, OwnedInit
<1>2. Typed /\ OwnedEach /\ [Next]_vars => Typed' /\ OwnedEach'
  BY TypedNext, OwnedNext
<1>3. Typed /\ OwnedEach => OneOwner
  BY OwnedIsEach
<1> QED BY <1>1, <1>2, <1>3, PTL DEF Spec

----------------------------------------------------------------------------
(* lo_client_sockets                                                       *)

LiveHasSocket == \A s \in Servers : state[s] = "live" => socket[s] # NoFd

ClientLives ==
    \A p \in {"udp", "tcp"} :
        client[p] # NoFd =>
            \E s \in Servers : state[s] = "live" /\ proto[s] = p /\ socket[s] = client[p]

NewestIsClient ==
    IF newest = None THEN client["udp"] = NoFd
    ELSE /\ newest \in Servers
         /\ state[newest] = "live" /\ proto[newest] = "udp"
         /\ client["udp"] = socket[newest]

Serving == ClientLives /\ LiveHasSocket /\ NewestIsClient

LEMMA ServesClient == Serving => ClientIsServer
  BY DEF Serving, ClientLives, NewestIsClient, ClientIsServer

LEMMA ServingInit == Init => Serving
  BY DEF Init, Serving, ClientLives, LiveHasSocket, NewestIsClient, Objects

\* What is not about a live server does not disturb it: the steps of a server that
\* is being opened, of addresses, and of a call.
LEMMA ServingElsewhere ==
    ASSUME Typed, Serving, NEW o \in Objects, o \in Servers => state[o] # "live",
           UNCHANGED <<client, newest>>,
           \A p \in Objects \ {o} : /\ state'[p] = state[p] /\ proto'[p] = proto[p]
                                   /\ socket'[p] = socket[p],
           o \in Servers => state'[o] # "live"
    PROVE  Serving'
  BY SocketsAssumption DEF Typed, Serving, ClientLives, LiveHasSocket, NewestIsClient, Objects

LEMMA ServingBound == Typed /\ Serving /\ Bound => Serving'
<1> SUFFICES ASSUME Typed, Serving, Bound PROVE Serving'
  OBVIOUS
<1>1. PICK s \in Servers, f \in Fds :
          /\ state[s] = "opening"
          /\ state' = [state EXCEPT ![s] = "live"]
          /\ socket' = [socket EXCEPT ![s] = f]
          /\ client' = IF proto[s] = "unix" THEN client ELSE [client EXCEPT ![proto[s]] = f]
          /\ newest' = IF proto[s] = "udp" THEN s ELSE newest
          /\ UNCHANGED proto
  BY DEF Bound
<1>2. s \in Objects /\ f # NoFd /\ state'[s] = "live" /\ socket'[s] = f
  BY <1>1, NoFdIsNone DEF Typed, Objects
<1>3. proto[s] = "unix" \/ proto[s] \in {"udp", "tcp"}
  BY <1>2 DEF Typed, Protocols
<1>4. ClientLives'
  <2> SUFFICES ASSUME NEW p \in {"udp", "tcp"}, client'[p] # NoFd
               PROVE  \E t \in Servers : state'[t] = "live" /\ proto'[t] = p /\ socket'[t] = client'[p]
    BY DEF ClientLives
  <2>1. CASE proto[s] = p
    BY <1>1, <1>2, <2>1 DEF Typed
  <2>2. CASE proto[s] # p
    <3>1. client'[p] = client[p]
      BY <1>1, <1>3, <2>2 DEF Typed
    <3>2. PICK t \in Servers : state[t] = "live" /\ proto[t] = p /\ socket[t] = client[p]
      BY <3>1 DEF Serving, ClientLives
    <3> QED BY <1>1, <3>1, <3>2 DEF Typed, Objects
  <2> QED BY <2>1, <2>2
<1>5. LiveHasSocket'
  BY <1>1, <1>2 DEF Serving, LiveHasSocket, Typed, Objects
<1>6. NewestIsClient'
  BY <1>1, <1>2, <1>3, SocketsAssumption DEF Serving, NewestIsClient, Typed, Objects
<1> QED BY <1>4, <1>5, <1>6 DEF Serving

LEMMA ServingFree == Typed /\ OwnedEach /\ Serving /\ FreeServer => Serving'
<1> SUFFICES ASSUME Typed, OwnedEach, Serving, FreeServer PROVE Serving'
  OBVIOUS
<1>1. PICK s \in Servers : /\ state[s] = "live"
                           /\ Gone(s) /\ Forgets(s)
                           /\ newest' = IF newest = s THEN None ELSE newest
  BY DEF FreeServer
<1>2. s \in Objects /\ socket[s] # NoFd
  BY <1>1 DEF Serving, LiveHasSocket, Objects
<1>3. \A o \in Objects \ {s} : /\ state'[o] = state[o] /\ proto'[o] = proto[o]
                              /\ socket'[o] = socket[o]
  BY <1>1 DEF Gone, Typed
<1>4. ClientLives'
  <2> SUFFICES ASSUME NEW p \in {"udp", "tcp"}, client'[p] # NoFd
               PROVE  \E t \in Servers : state'[t] = "live" /\ proto'[t] = p /\ socket'[t] = client'[p]
    BY DEF ClientLives
  <2>1. client'[p] = client[p] /\ ~(proto[s] = p /\ socket[s] = client[p])
    BY <1>1, <1>2 DEF Forgets, Typed
  <2>2. PICK t \in Servers : state[t] = "live" /\ proto[t] = p /\ socket[t] = client[p]
    BY <2>1 DEF Serving, ClientLives
  <2> QED BY <1>3, <2>1, <2>2 DEF Objects
<1>5. LiveHasSocket'
  BY <1>1, <1>2, <1>3 DEF Serving, LiveHasSocket, Gone, Typed, Objects
<1>6. NewestIsClient'
  <2>1. newest # None /\ newest # s => socket[newest] # socket[s]
    BY <1>2 DEF Serving, NewestIsClient, OwnedEach, Objects
  <2>2. newest # None /\ newest # s => client'["udp"] = client["udp"]
    BY <1>1, <2>1 DEF Serving, NewestIsClient, Forgets, Typed
  <2>3. CASE newest = None
    <3>1. client'["udp"] = NoFd
      BY <1>1, <1>2, <2>3 DEF Serving, NewestIsClient, Forgets, Typed
    <3> QED BY <1>1, <2>3, <3>1, SocketsAssumption DEF NewestIsClient, Objects
  <2>4. CASE newest = s
    <3>1. s # None /\ proto[s] = "udp" /\ client["udp"] = socket[s]
      BY <1>1, <2>4, SocketsAssumption DEF Serving, NewestIsClient, Objects
    <3>2. client'["udp"] = NoFd
      BY <1>1, <1>2, <3>1 DEF Forgets, Typed
    <3> QED BY <1>1, <2>4, <3>2 DEF NewestIsClient
  <2> QED BY <1>1, <1>3, <2>2, <2>3, <2>4 DEF Serving, NewestIsClient, Objects
<1> QED BY <1>4, <1>5, <1>6 DEF Serving

LEMMA ServingNext == Typed /\ OwnedEach /\ Serving /\ [Next]_vars => Serving'
<1> SUFFICES ASSUME Typed, OwnedEach, Serving, [Next]_vars PROVE Serving'
  OBVIOUS
<1> USE DEF descriptors, objects, serverVars, addressVars
<1>1. CASE Bound \/ FreeServer
  BY <1>1, ServingBound, ServingFree
<1>2. CASE NewServer
  <2>1. PICK s \in Servers, p \in ServerProtocols :
            /\ state[s] = "none"
            /\ state' = [state EXCEPT ![s] = "opening"]
            /\ proto' = [proto EXCEPT ![s] = p]
            /\ UNCHANGED <<socket, client, newest>>
    BY <1>2 DEF NewServer
  <2> QED BY <2>1, ServingElsewhere DEF Typed, Objects
<1>3. CASE Unresolved \/ NoSocket \/ BindFails
  <2>1. PICK s \in Servers : state[s] = "opening" /\ Gone(s) /\ UNCHANGED <<client, newest>>
    BY <1>3 DEF Unresolved, NoSocket, BindFails
  <2> QED BY <2>1, ServingElsewhere DEF Gone, Typed, Objects
<1>4. CASE PortInUse
  <2>1. PICK s \in Servers, f \in Fds : /\ state[s] = "opening"
                                        /\ socket' = [socket EXCEPT ![s] = f]
                                        /\ UNCHANGED <<state, proto, client, newest>>
    BY <1>4 DEF PortInUse
  <2> QED BY <2>1, ServingElsewhere DEF Typed, Objects
<1>5. ASSUME UNCHANGED <<state, proto, socket, client, newest>> PROVE Serving'
  BY <1>5 DEF Serving, ClientLives, LiveHasSocket, NewestIsClient
<1>6. CASE \/ Accept \/ SetTtl \/ Call \/ Check \/ Pick \/ Load \/ ConnectFails \/ CreateFails
         \/ UNCHANGED vars
  BY <1>5, <1>6 DEF Accept, SetTtl, Call, Check, Pick, Load, ConnectFails, CreateFails, vars
<1>7. CASE NewAddress
  <2>1. PICK a \in Addresses, p \in AddressProtocols :
            /\ state' = [state EXCEPT ![a] = "live"]
            /\ proto' = [proto EXCEPT ![a] = p]
            /\ UNCHANGED <<socket, client, newest>>
    BY <1>7 DEF NewAddress
  <2> QED BY <2>1, ServingElsewhere, SocketsAssumption DEF Typed, Objects
<1>8. CASE FreeAddress
  <2>1. PICK a \in Addresses : Gone(a) /\ UNCHANGED <<client, newest>>
    BY <1>8 DEF FreeAddress
  <2> QED BY <2>1, ServingElsewhere, SocketsAssumption DEF Gone, Typed, Objects
<1>9. CASE Create \/ Transmit
  <2>1. /\ \A o \in Objects \ {call.a} : socket'[o] = socket[o]
        /\ UNCHANGED <<state, proto, client, newest>>
        /\ call.a \in Addresses
    BY <1>9 DEF Create, NoneToReuse, Transmit, CloseOwn, Typed, CallOK, Objects
  <2> QED BY <2>1, ServingElsewhere, SocketsAssumption DEF Typed, Objects
<1> QED BY <1>1, <1>2, <1>3, <1>4, <1>6, <1>7, <1>8, <1>9
        DEF Next, ServerStep, AddressStep, SendStep

LEMMA ServingAlways == Spec => [](Typed /\ OwnedEach /\ Serving)
<1>1. Init => Typed /\ OwnedEach /\ Serving
  BY TypedInit, OwnedInit, ServingInit
<1>2. Typed /\ OwnedEach /\ Serving /\ [Next]_vars => Typed' /\ OwnedEach' /\ Serving'
  BY TypedNext, OwnedNext, ServingNext
<1> QED BY <1>1, <1>2, PTL DEF Spec

----------------------------------------------------------------------------
(* The socket a call sends through                                         *)

\* What is sent from and to lives: nobody frees it meanwhile.
CallLives ==
    Sending => /\ state[call.a] = "live"
               /\ call.from # None => call.from \in Servers /\ state[call.from] = "live"

\* Nothing can be freed under a call that has not looked at it, ...
NotYet == call.step \in {"check", "pick"} => ~call.freed

\* ... one that has found a UDP server finds one again, or that one was freed, ...
Loading ==
    call.step = "load" =>
        /\ call.from = None /\ proto[call.a] = "udp"
        /\ call.freed \/ newest # None

\* ... and one that has loaded a socket keeps it, or its server was freed.
Excused == call.from = None /\ proto[call.a] = "udp" /\ call.via # call.a

Picked ==
    /\ call.via \in Objects /\ state[call.via] = "live"
    /\ call.sock = socket[call.via] /\ call.sock # NoFd
    /\ call.from # None => call.via = call.from
    /\ call.from = None =>
          \/ call.via \in Servers /\ proto[call.via] = "udp" /\ proto[call.a] = "udp"
          \/ call.via = call.a /\ (proto[call.a] = "udp" => ~call.server)

Loaded == call.step = "transmit" => IF call.freed THEN Excused ELSE Picked

Leaves == CallLives /\ NotYet /\ Loading /\ Loaded

LEMMA LeavesInit == Init => Leaves
  BY DEF Init, Leaves, CallLives, NotYet, Loading, Loaded, Sending, NoCall

\* Where a call is done, or none is going on, there is nothing to show.
LEMMA LeavesIdle == ~Sending' => Leaves'
  BY DEF Leaves, CallLives, NotYet, Loading, Loaded, Sending

\* A step of the other thread that does not free what the call is using: one that
\* touches one object alone, which is not that of the call.
LEMMA LeavesElsewhere ==
    ASSUME Typed, Leaves, Sending, NEW o \in Objects,
           o # call.a, o # call.from,
           call.step = "transmit" /\ ~call.freed => o # call.via,
           \A p \in Objects \ {o} : /\ state'[p] = state[p] /\ proto'[p] = proto[p]
                                   /\ socket'[p] = socket[p],
           newest # None => newest' # None,
           CallKept, call'.freed = call.freed
    PROVE  Leaves'
<1>1. call.a \in Objects /\ (call.from # None => call.from \in Objects)
  BY DEF Sending, Typed, CallOK, Objects, Leaves, CallLives
<1>2. /\ call'.step = call.step /\ call'.a = call.a /\ call'.from = call.from
      /\ call'.sock = call.sock /\ call'.via = call.via /\ call'.server = call.server
  BY DEF CallKept, Sending
<1>3. CallLives'
  BY <1>1, <1>2 DEF Leaves, CallLives, Sending
<1>4. NotYet' /\ Loading'
  BY <1>1, <1>2 DEF Leaves, NotYet, Loading
<1>5. Loaded'
  BY <1>1, <1>2 DEF Leaves, Loaded, Excused, Picked
<1> QED BY <1>3, <1>4, <1>5 DEF Leaves

\* The server that is freed may be the very one the call sends through.
LEMMA LeavesFree == Typed /\ Serving /\ Leaves /\ Sending /\ FreeServer => Leaves'
<1> SUFFICES ASSUME Typed, Serving, Leaves, Sending, FreeServer PROVE Leaves'
  OBVIOUS
<1>1. PICK s \in Servers :
          /\ s # call.from
          /\ Gone(s)
          /\ newest' = IF newest = s THEN None ELSE newest
          /\ call' = IF call.step = "done" THEN NoCall
                     ELSE [call EXCEPT !.freed = @ \/ (call.step = "load" /\ s = newest)
                                                   \/ (call.step = "transmit" /\ s = call.via)]
  BY DEF FreeServer
<1>2. CallKept
  BY FreeServerKeeps DEF Typed
<1>3. call.step # "done" /\ call.a \in Addresses
  BY DEF Sending, Typed, CallOK
<1>4. s \in Objects /\ s # call.a /\ call.a \in Objects
  BY <1>3, SocketsAssumption DEF Objects
<1>5. \A p \in Objects \ {s} : /\ state'[p] = state[p] /\ proto'[p] = proto[p]
                              /\ socket'[p] = socket[p]
  BY <1>1 DEF Gone, Typed
<1>6. call'.freed = (call.freed \/ (call.step = "load" /\ s = newest)
                                \/ (call.step = "transmit" /\ s = call.via))
  BY <1>1, <1>3 DEF Typed, CallOK, Shape
<1>7. CASE call.step = "load" /\ s = newest
  <2>1. call'.freed = TRUE
    BY <1>6, <1>7
  <2>2. call'.step = "load" /\ call'.a = call.a /\ call'.from = call.from
    BY <1>2, <1>7 DEF CallKept
  <2>3. CallLives'
    BY <1>4, <1>5, <1>7, <2>2 DEF Leaves, CallLives, Loading, Sending
  <2>4. Loading' /\ NotYet' /\ Loaded'
    BY <1>4, <1>5, <1>7, <2>1, <2>2 DEF Leaves, Loading, NotYet, Loaded
  <2> QED BY <2>3, <2>4 DEF Leaves
<1>8. CASE call.step = "transmit" /\ s = call.via
  <2>1. call'.freed = TRUE
    BY <1>6, <1>8
  <2>2. /\ call'.step = "transmit" /\ call'.a = call.a /\ call'.from = call.from
        /\ call'.via = call.via
    BY <1>2, <1>8 DEF CallKept
  <2>3. Excused
    <3>1. CASE call.freed
      BY <1>8, <3>1 DEF Leaves, Loaded
    <3>2. CASE ~call.freed
      BY <1>1, <1>4, <1>8, <3>2 DEF Leaves, Loaded, Picked, Excused
    <3> QED BY <3>1, <3>2
  <2>4. CallLives'
    BY <1>4, <1>5, <2>2, <2>3 DEF Leaves, CallLives, Excused, Sending
  <2>5. Loading' /\ NotYet' /\ Loaded'
    BY <1>4, <1>5, <2>1, <2>2, <2>3 DEF Loading, NotYet, Loaded, Excused
  <2> QED BY <2>4, <2>5 DEF Leaves
<1>9. CASE ~(call.step = "load" /\ s = newest) /\ ~(call.step = "transmit" /\ s = call.via)
  <2>1. call'.freed = call.freed
    BY <1>6, <1>9 DEF Typed, CallOK
  <2>2. CASE newest # s
    BY <1>1, <1>2, <1>4, <1>5, <1>9, <2>1, <2>2, LeavesElsewhere
  <2>3. CASE newest = s
    <3>1. call.step \in {"check", "pick", "transmit"}
      BY <1>9, <2>3 DEF Sending
    <3>2. /\ call'.step = call.step /\ call'.a = call.a /\ call'.from = call.from
          /\ call'.sock = call.sock /\ call'.via = call.via /\ call'.server = call.server
      BY <1>2, <1>3 DEF CallKept
    <3>3. CallLives'
      BY <1>1, <1>4, <1>5, <3>2 DEF Leaves, CallLives, Sending, Objects
    <3>4. NotYet' /\ Loading'
      BY <2>1, <3>1, <3>2 DEF Leaves, NotYet, Loading
    <3>5. Loaded'
      BY <1>4, <1>5, <1>9, <2>1, <3>2 DEF Leaves, Loaded, Excused, Picked
    <3> QED BY <3>3, <3>4, <3>5 DEF Leaves
  <2> QED BY <2>2, <2>3
<1> QED BY <1>7, <1>8, <1>9

\* A call that is done is forgotten by the next step of the other thread.
LEMMA OthersIdle == ~Sending /\ CallKept => ~Sending'
  BY DEF Sending, CallKept

\* Servers come and go, but the one that is sent from stays.
LEMMA LeavesServers == Typed /\ Serving /\ Leaves /\ ServerStep => Leaves'
<1> SUFFICES ASSUME Typed, Serving, Leaves, ServerStep PROVE Leaves'
  OBVIOUS
<1> USE DEF descriptors, objects, serverVars, addressVars
<1>0. CallKept /\ (Meanwhile /\ Sending => call'.freed = call.freed)
  BY OthersKeep, MeanwhileKeeps DEF Typed, Sending
<1>1. CASE ~Sending
  BY <1>0, <1>1, OthersIdle, LeavesIdle
<1>2. CASE Sending /\ FreeServer
  BY <1>2, LeavesFree
<1>3. CASE Sending /\ ~FreeServer
  <2>1. PICK s \in Servers :
            /\ state[s] # "live" \/ UNCHANGED <<state, proto, socket>>
            /\ \A o \in Objects \ {s} : /\ state'[o] = state[o] /\ proto'[o] = proto[o]
                                       /\ socket'[o] = socket[o]
    BY <1>3 DEF ServerStep, NewServer, Unresolved, NoSocket, BindFails, PortInUse, Bound,
                Accept, Gone, Typed
  <2>2. Meanwhile /\ (newest # None => newest' # None)
    BY <1>3, SocketsAssumption
       DEF ServerStep, NewServer, Unresolved, NoSocket, BindFails, PortInUse, Bound,
           Accept, Objects
  <2>3. s \in Objects /\ call.a \in Addresses /\ s # call.a
    BY <1>3, SocketsAssumption DEF Sending, Typed, CallOK, Objects
  <2>4. CASE state[s] # "live"
    <3>1. s # call.from
      BY <1>3, <2>4, SocketsAssumption DEF Leaves, CallLives, Objects
    <3>2. call.step = "transmit" /\ ~call.freed => s # call.via
      BY <2>4 DEF Leaves, Loaded, Picked
    <3> QED BY <1>0, <1>3, <2>1, <2>2, <2>3, <3>1, <3>2, LeavesElsewhere
  <2>5. CASE UNCHANGED <<state, proto, socket>>
    BY <1>0, <1>3, <2>2, <2>5
       DEF CallKept, Leaves, CallLives, NotYet, Loading, Loaded, Excused, Picked, Sending
  <2> QED BY <2>1, <2>4, <2>5
<1> QED BY <1>1, <1>2, <1>3

LEMMA LeavesAddresses == Typed /\ Serving /\ Leaves /\ AddressStep => Leaves'
<1> SUFFICES ASSUME Typed, Serving, Leaves, AddressStep PROVE Leaves'
  OBVIOUS
<1> USE DEF descriptors, objects, serverVars
<1>0. CallKept /\ (Sending => call'.freed = call.freed)
  BY OthersKeep, MeanwhileKeeps
     DEF Typed, Sending, AddressStep, NewAddress, SetTtl, FreeAddress
<1>1. CASE ~Sending
  BY <1>0, <1>1, OthersIdle, LeavesIdle
<1>2. CASE Sending
  <2>1. PICK a \in Addresses :
            /\ a # call.a
            /\ state[a] = "none" \/ state[a] = "live"
            /\ \A o \in Objects \ {a} :
                  state'[o] = state[o] /\ proto'[o] = proto[o] /\ socket'[o] = socket[o]
    <3>1. state[call.a] = "live"
      BY <1>2 DEF Leaves, CallLives
    <3> QED BY <1>2, <3>1 DEF AddressStep, NewAddress, SetTtl, FreeAddress, Gone, Typed
  <2>2. UNCHANGED newest
    BY DEF AddressStep, NewAddress, SetTtl, FreeAddress
  <2>3. a \in Objects /\ a \notin Servers /\ a # None
    BY SocketsAssumption DEF Objects
  <2>4. a # call.from
    BY <1>2, <2>3 DEF Leaves, CallLives
  <2>5. call.step = "transmit" /\ ~call.freed => a # call.via
    BY <2>1, <2>3, <2>4 DEF Leaves, Loaded, Picked
  <2> QED BY <1>0, <1>2, <2>1, <2>2, <2>3, <2>4, <2>5, LeavesElsewhere
<1> QED BY <1>1, <1>2

LEMMA LeavesSending == Typed /\ Serving /\ Leaves /\ SendStep => Leaves'
<1> SUFFICES ASSUME Typed, Serving, Leaves, SendStep PROVE Leaves'
  OBVIOUS
<1> USE DEF descriptors, objects, serverVars, addressVars
<1>1. CASE Call
  <2>1. PICK a \in Addresses, from \in Servers \cup {None} :
            /\ state[a] = "live" /\ (from # None => state[from] = "live")
            /\ \/ call' = Done(a, -1, -1, FALSE)
               \/ \E big : call' = Begun(a, from, big)
            /\ UNCHANGED state
    BY <1>1 DEF Call
  <2>2. CASE call' = Done(a, -1, -1, FALSE)
    BY <2>2, LeavesIdle DEF Done, NoCall, Sending
  <2>3. ASSUME NEW big, call' = Begun(a, from, big) PROVE Leaves'
    <3>1. call'.step = "check" /\ call'.a = a /\ call'.from = from /\ ~call'.freed
      BY <2>3 DEF Begun, NoCall
    <3> QED BY <2>1, <3>1 DEF Leaves, CallLives, NotYet, Loading, Loaded
  <2> QED BY <2>1, <2>2, <2>3
<1>2. ASSUME Fails PROVE Leaves'
  BY <1>2, LeavesIdle DEF Fails, Done, NoCall, Sending
<1>3. CASE ConnectFails \/ CreateFails
  BY <1>2, <1>3 DEF ConnectFails, CreateFails
<1>4. CASE Check
  <2>1. CASE call' = [call EXCEPT !.step = "pick"]
    <3>1. /\ call'.step = "pick" /\ call'.a = call.a /\ call'.from = call.from
          /\ call'.freed = call.freed /\ call.step = "check"
      BY <1>4, <2>1 DEF Check, Typed, CallOK, Shape
    <3>2. UNCHANGED state
      BY <1>4 DEF Check
    <3> QED BY <3>1, <3>2 DEF Leaves, CallLives, NotYet, Loading, Loaded, Sending
  <2> QED BY <1>2, <1>4, <2>1 DEF Check
<1>5. ASSUME NEW f, NEW o, UseSocket(f, o), call.step = "pick"
      PROVE  /\ call'.step = "transmit" /\ call'.a = call.a /\ call'.from = call.from
             /\ call'.sock = f /\ call'.via = o /\ call'.freed = FALSE
             /\ call'.server = (newest # None)
             /\ state[call.a] = "live" /\ call.a \in Addresses /\ call.a \in Objects
             /\ call.from # None => call.from \in Servers /\ state[call.from] = "live"
  BY <1>5 DEF UseSocket, Leaves, CallLives, NotYet, Sending, Typed, CallOK, Shape, Objects
<1>6. ASSUME NEW f, NEW o \in Objects, UseSocket(f, o), call.step = "pick",
             state[o] = "live", f = socket'[o], f # NoFd,
             IF call.from # None THEN o = call.from
             ELSE o = call.a /\ (proto[call.a] = "udp" => newest = None),
             UNCHANGED <<state, proto>>
      PROVE  Leaves'
  <2>1. CallLives' /\ NotYet' /\ Loading'
    BY <1>5, <1>6 DEF CallLives, NotYet, Loading
  <2>2. Picked'
    BY <1>5, <1>6 DEF Picked
  <2> QED BY <1>5, <1>6, <2>1, <2>2 DEF Leaves, Loaded
<1>7. ~ThroughClient /\ proto[call.a] = "udp" => newest = None
  BY DEF ThroughClient, Serving, LiveHasSocket, NewestIsClient
<1>8. CASE Pick
  <2>1. UNCHANGED <<state, proto, socket, newest>> /\ call.step = "pick"
    BY <1>8 DEF Pick
  <2>2. CASE call.from # None /\ UseSocket(socket[call.from], call.from)
    <3>1. call.from \in Objects /\ state[call.from] = "live" /\ socket[call.from] # NoFd
      BY <2>1, <2>2 DEF Serving, LiveHasSocket, Leaves, CallLives, Sending, Objects
    <3> QED BY <1>6, <2>1, <2>2, <3>1
  <2>3. CASE call.from = None /\ ThroughClient /\ call' = [call EXCEPT !.step = "load"]
    <3>1. /\ call'.step = "load" /\ call'.a = call.a /\ call'.from = call.from
      BY <2>3 DEF Typed, CallOK, Shape
    <3>2. newest # None
      BY <2>3 DEF ThroughClient, Serving, NewestIsClient
    <3>3. CallLives' /\ NotYet' /\ Loaded'
      BY <2>1, <3>1 DEF Leaves, CallLives, NotYet, Loaded, Sending
    <3>4. Loading'
      BY <2>1, <2>3, <3>1, <3>2 DEF Loading, ThroughClient
    <3> QED BY <3>3, <3>4 DEF Leaves
  <2>4. CASE /\ call.from = None /\ ~ThroughClient /\ socket[call.a] # NoFd
             /\ UseSocket(socket[call.a], call.a)
    BY <1>5, <1>6, <1>7, <2>1, <2>4
  <2> QED BY <1>8, <2>2, <2>3, <2>4 DEF Pick
<1>9. CASE Load
  <2>1. /\ call.step = "load" /\ call'.step = "transmit"
        /\ call'.a = call.a /\ call'.from = call.from
        /\ call'.sock = client["udp"] /\ call'.via = newest /\ call'.server = TRUE
        /\ call'.freed = (call.freed /\ client["udp"] = NoFd)
        /\ UNCHANGED <<state, proto, socket, newest>>
    BY <1>9 DEF Load, Typed, CallOK, Shape
  <2>2. call.from = None /\ proto[call.a] = "udp" /\ (call.freed \/ newest # None)
    BY <2>1 DEF Leaves, Loading
  <2>3. call.a \in Addresses
    BY <2>1 DEF Typed, CallOK
  <2>4. CallLives' /\ NotYet' /\ Loading'
    BY <2>1 DEF Leaves, CallLives, NotYet, Loading, Sending
  <2>5. CASE newest = None
    <3>1. client["udp"] = NoFd
      BY <2>5 DEF Serving, NewestIsClient
    <3>2. Excused' /\ call'.freed
      BY <2>1, <2>2, <2>3, <2>5, <3>1, SocketsAssumption DEF Excused, Objects
    <3> QED BY <2>4, <3>2 DEF Leaves, Loaded
  <2>6. CASE newest # None
    <3>1. /\ newest \in Servers /\ newest \in Objects
          /\ state[newest] = "live" /\ proto[newest] = "udp"
          /\ client["udp"] = socket[newest] /\ socket[newest] # NoFd
      BY <2>6 DEF Serving, NewestIsClient, LiveHasSocket, Objects
    <3>2. Picked' /\ ~call'.freed
      BY <2>1, <2>2, <3>1 DEF Picked
    <3> QED BY <2>4, <3>2 DEF Leaves, Loaded
  <2> QED BY <2>5, <2>6
<1>10. CASE Create
  <2>1. PICK f \in Fds : /\ call.step = "pick" /\ call.from = None /\ ~ThroughClient
                         /\ socket' = [socket EXCEPT ![call.a] = f]
                         /\ UseSocket(f, call.a)
                         /\ UNCHANGED <<state, proto, newest>>
    BY <1>10 DEF Create, NoneToReuse
  <2>2. f # NoFd /\ call.a \in Objects /\ state[call.a] = "live"
    BY <1>5, <2>1, NoFdIsNone
  <2>3. f = socket'[call.a]
    BY <2>1, <2>2 DEF Typed
  <2> QED BY <1>6, <1>7, <2>1, <2>2, <2>3
<1>11. CASE Transmit
  <2>1. \E ret, t, own : call' = Done(call.a, ret, t, own)
    BY <1>11 DEF Transmit
  <2> QED BY <2>1, LeavesIdle DEF Done, NoCall, Sending
<1> QED BY <1>1, <1>3, <1>4, <1>8, <1>9, <1>10, <1>11 DEF SendStep

LEMMA LeavesStutter == Leaves /\ UNCHANGED vars => Leaves'
  BY DEF Leaves, CallLives, NotYet, Loading, Loaded, Excused, Picked, Sending, vars, objects,
         serverVars

LEMMA LeavesAlways == Spec => [](Typed /\ OwnedEach /\ Serving /\ Leaves)
<1>1. Init => Leaves
  BY LeavesInit
<1>2. Typed /\ Serving /\ Leaves /\ [Next]_vars => Leaves'
  BY LeavesServers, LeavesAddresses, LeavesSending, LeavesStutter DEF Next
<1> QED BY <1>1, <1>2, ServingAlways, PTL DEF Spec

\* send_data writes to a socket that is open and belongs to the server the packet
\* is to come from, to a UDP server that lives, or to its address ("Re-use existing
\* socket?"), and to the last only when no server had one.  The two loads of
\* lo_client_sockets that are not locked, and servers opened and freed between
\* them, leave one way out: the server whose socket is looked at is itself freed
\* before the packet is sent.
THEOREM SentThroughItsSocket == Spec => []ThroughItsSocket
<1>1. OwnedEach /\ Serving /\ Leaves => ThroughItsSocket
  BY ServesClient DEF OwnedEach, Leaves, Loaded, Picked, Excused, ThroughItsSocket
<1> QED BY <1>1, LeavesAlways, PTL

----------------------------------------------------------------------------
(* What a call leaves behind                                               *)

ErrnumOK == DOMAIN errnum = Addresses /\ ErrnumTells

LEMMA ErrnumNext == Typed /\ ErrnumOK /\ [Next]_vars => ErrnumOK'
<1> SUFFICES ASSUME Typed, ErrnumOK, [Next]_vars PROVE ErrnumOK'
  OBVIOUS
<1> USE DEF descriptors, objects, serverVars, addressVars, ErrnumOK, ErrnumTells
<1>1. CASE ServerStep \/ AddressStep
  <2>1. call'.step # "done"
    BY <1>1, OthersKeep DEF Typed, CallKept
  <2>2. DOMAIN errnum' = Addresses
    BY <1>1 DEF ServerStep, NewServer, Unresolved, NoSocket, BindFails, PortInUse, Bound,
                FreeServer, Accept, AddressStep, NewAddress, SetTtl, FreeAddress
  <2> QED BY <2>1, <2>2
<1>2. CASE Call
  <2>1. PICK a \in Addresses, badArgs \in BOOLEAN :
            /\ errnum' = [errnum EXCEPT ![a] = IF badArgs THEN AnError ELSE NoError]
            /\ badArgs => call' = Done(a, -1, -1, FALSE)
            /\ ~badArgs => \E from, big : call' = Begun(a, from, big)
    BY <1>2 DEF Call
  <2>2. CASE badArgs
    <3>1. call'.step = "done" /\ call'.a = a
      BY <2>1, <2>2 DEF Done, NoCall
    <3>2. call'.ret = -1
      BY <2>1, <2>2 DEF Done, NoCall
    <3>3. DOMAIN errnum' = Addresses /\ errnum'[a] = AnError
      BY <2>1, <2>2
    <3> QED BY <3>1, <3>2, <3>3 DEF AnError, NoError
  <2>3. CASE ~badArgs
    <3>1. call'.step = "check"
      BY <2>1, <2>3 DEF Begun, NoCall
    <3> QED BY <2>1, <3>1
  <2> QED BY <2>2, <2>3
<1>3. CASE Fails /\ Sending
  <2>1. call.a \in Addresses
    BY <1>3 DEF Sending, Typed, CallOK
  <2>2. call'.step = "done" /\ call'.a = call.a /\ call'.ret = -1
    BY <1>3 DEF Fails, Done, NoCall
  <2>3. DOMAIN errnum' = Addresses /\ errnum'[call.a] = AnError
    BY <1>3, <2>1 DEF Fails
  <2> QED BY <2>2, <2>3 DEF AnError, NoError
<1>4. CASE (Check \/ Pick \/ Load \/ ConnectFails \/ CreateFails \/ Create) /\ ~Fails
  <2>1. UNCHANGED errnum /\ call'.step # "done"
    BY <1>4 DEF Check, Pick, Load, ConnectFails, CreateFails, Create, UseSocket, Typed,
                CallOK, Shape
  <2> QED BY <2>1
<1>5. CASE Transmit
  <2>1. PICK sent \in BOOLEAN :
            /\ errnum' = [errnum EXCEPT ![call.a] = SendError(sent)]
            /\ call' = Done(call.a, IF sent THEN 1 ELSE -1, IF sent THEN TtlUsed ELSE -1,
                            call.sock = socket[call.a])
    BY <1>5, Zenon DEF Transmit
  <2>2. call'.step = "done" /\ call'.a = call.a /\ call'.ret = IF sent THEN 1 ELSE -1
    BY <2>1 DEF Done, NoCall
  <2>3. errnum'[call.a] = SendError(sent) /\ DOMAIN errnum' = Addresses
    BY <1>5, <2>1 DEF Transmit, Typed, CallOK
  <2>4. CASE sent
    BY <2>2, <2>3, <2>4 DEF SendError
  <2>5. CASE ~sent
    BY <2>2, <2>3, <2>5 DEF SendError, AnError, NoError
  <2> QED BY <2>4, <2>5
<1>6. Check \/ Pick \/ Load \/ ConnectFails \/ CreateFails \/ Create => Sending
  BY DEF Check, Pick, Load, ConnectFails, CreateFails, Create, NoneToReuse, Sending
<1>7. CASE UNCHANGED vars
  BY <1>7 DEF vars
<1> QED BY <1>1, <1>2, <1>3, <1>4, <1>5, <1>6, <1>7 DEF Next, SendStep

\* A call that fails says so twice, in its result and in the errnum of its address
\* (lo/send.c, lo_address_errno), and one that succeeds wipes out what an earlier
\* one left there.
THEOREM FailuresAreTold == Spec => []ErrnumTells
<1>1. Init => Typed /\ ErrnumOK
  <2>1. Init => call.step = "none" /\ DOMAIN errnum = Addresses
    BY DEF Init, NoCall
  <2> QED BY <2>1, TypedInit DEF ErrnumOK, ErrnumTells
<1>2. Typed /\ ErrnumOK /\ [Next]_vars => Typed' /\ ErrnumOK'
  BY TypedNext, ErrnumNext
<1>3. ErrnumOK => ErrnumTells
  BY DEF ErrnumOK
<1> QED BY <1>1, <1>2, <1>3, PTL DEF Spec

----------------------------------------------------------------------------
(* The TTL of a datagram                                                    *)

TtlTyped ==
    /\ ttl \in [Fds -> Int] /\ wanted \in [Addresses -> Int]
    /\ asked \in [Addresses -> SUBSET Int]

\* A descriptor that is free has the default TTL; the socket of an address has that
\* or one the address has asked for; and while a call transmits, no other address
\* has the socket it transmits through.
FreeHasDefault == \A f \in Fds \ open : ttl[f] = -1

OwnHasAsked ==
    /\ \A a \in Addresses : socket[a] # NoFd => ttl[socket[a]] \in {-1} \cup asked[a]
    /\ \A a \in Addresses : wanted[a] >= 0 => wanted[a] % 256 \in asked[a]
    /\ \A a \in Addresses : state[a] = "none" => socket[a] = NoFd

NotAnothers ==
    call.step = "transmit" /\ call.sock # NoFd =>
        \A b \in Addresses : socket[b] = call.sock => b = call.a

TtlOK == TtlTyped /\ FreeHasDefault /\ OwnHasAsked /\ NotAnothers /\ TtlExplained

LEMMA TtlInit == Init => TtlOK
<1> SUFFICES ASSUME Init PROVE TtlOK
  OBVIOUS
<1>1. TtlTyped /\ FreeHasDefault
  BY DEF Init, TtlTyped, FreeHasDefault
<1>2. OwnHasAsked
  BY DEF Init, OwnHasAsked, Objects
<1>3. call.step = "none"
  BY DEF Init, NoCall
<1> QED BY <1>1, <1>2, <1>3 DEF TtlOK, NotAnothers, TtlExplained

LEMMA AsTtlIsByte == ASSUME NEW t \in Int PROVE AsTtl(t) \in SUBSET Int
  BY DEF AsTtl

\* Nothing is asked of a call that is not done.
LEMMA NotDone == call'.step # "done" => TtlExplained'
  BY DEF TtlExplained

\* Servers come and go without the addresses: the descriptors they open and close
\* have the default TTL afterwards.
LEMMA TtlServers == Typed /\ OwnedEach /\ TtlOK /\ ServerStep => TtlOK'
<1> SUFFICES ASSUME Typed, OwnedEach, TtlOK, ServerStep PROVE TtlOK'
  OBVIOUS
<1> USE DEF descriptors, objects, serverVars, addressVars
<1>1. \A a \in Addresses : state'[a] = state[a] /\ socket'[a] = socket[a]
  BY SocketsAssumption DEF ServerStep, NewServer, Unresolved, NoSocket, BindFails, PortInUse,
                           Bound, FreeServer, Accept, Gone, Typed, Objects
<1>2. CallKept
  BY OthersKeep DEF Typed
<1>3. UNCHANGED <<wanted, asked>>
  BY DEF ServerStep, NewServer, Unresolved, NoSocket, BindFails, PortInUse, Bound, FreeServer,
         Accept
<1>4. \/ UNCHANGED ttl /\ open \subseteq open'
      \/ \E f \in open : Closes(f)
  <2>1. CASE FreeServer
    <3>1. PICK s \in Servers : Closes(socket[s])
      BY <2>1 DEF FreeServer
    <3>2. CASE socket[s] = NoFd
      <4>1. UNCHANGED ttl /\ open' = open
        BY <3>1, <3>2, NoFdIsNone DEF Closes, Typed, TtlOK, TtlTyped
      <4> QED BY <4>1
    <3> QED BY <3>1, <3>2 DEF OwnedEach, Objects
  <2> QED BY <2>1 DEF ServerStep, NewServer, Unresolved, NoSocket, BindFails, PortInUse, Bound,
                      Accept, Opens
<1>5. TtlTyped' /\ FreeHasDefault'
  BY <1>3, <1>4 DEF TtlOK, TtlTyped, FreeHasDefault, Closes
<1>6. OwnHasAsked'
  <2>1. \A a \in Addresses : socket[a] # NoFd => socket[a] \in Fds
    BY DEF Typed, Objects, FdOrNone
  <2>2. \A f \in Fds : ttl'[f] \in {-1, ttl[f]}
    BY <1>4 DEF Closes
  <2> QED BY <1>1, <1>3, <2>1, <2>2 DEF TtlOK, OwnHasAsked
<1>7. NotAnothers'
  BY <1>1, <1>2 DEF TtlOK, NotAnothers, CallKept
<1>8. TtlExplained'
  BY <1>2, NotDone DEF CallKept
<1> QED BY <1>5, <1>6, <1>7, <1>8 DEF TtlOK

LEMMA TtlAddresses == Typed /\ OwnedEach /\ TtlOK /\ AddressStep => TtlOK'
<1> SUFFICES ASSUME Typed, OwnedEach, TtlOK, AddressStep PROVE TtlOK'
  OBVIOUS
<1> USE DEF descriptors, objects, serverVars, addressVars
<1>0. CallKept
  BY OthersKeep DEF Typed
<1>1. TtlExplained'
  BY <1>0, NotDone DEF CallKept
<1>2. ASSUME \A b \in Addresses : socket'[b] = NoFd \/ socket'[b] = socket[b]
      PROVE  NotAnothers'
  BY <1>0, <1>2 DEF TtlOK, NotAnothers, CallKept
<1>3. CASE NewAddress
  <2>1. PICK a \in Addresses, w \in {-1, 0} :
            /\ state[a] = "none"
            /\ state' = [state EXCEPT ![a] = "live"]
            /\ wanted' = [wanted EXCEPT ![a] = w]
            /\ asked' = [asked EXCEPT ![a] = AsTtl(w)]
            /\ UNCHANGED <<socket, descriptors>>
    BY <1>3 DEF NewAddress
  <2>2. a \in Objects /\ socket[a] = NoFd
    BY <2>1 DEF Objects, TtlOK, OwnHasAsked
  <2>3. TtlTyped' /\ FreeHasDefault'
    BY <2>1, AsTtlIsByte DEF TtlOK, TtlTyped, FreeHasDefault
  <2>4. OwnHasAsked'
    <3>1. w >= 0 => w % 256 \in AsTtl(w)
      BY DEF AsTtl
    <3>2. \A b \in Addresses : /\ wanted'[b] = IF b = a THEN w ELSE wanted[b]
                               /\ asked'[b] = IF b = a THEN AsTtl(w) ELSE asked[b]
                               /\ state'[b] = IF b = a THEN "live" ELSE state[b]
      BY <2>1 DEF TtlOK, TtlTyped, Typed, Objects
    <3> QED BY <2>1, <2>2, <3>1, <3>2 DEF TtlOK, OwnHasAsked
  <2> QED BY <1>1, <1>2, <2>1, <2>3, <2>4 DEF TtlOK
<1>4. CASE SetTtl
  <2>1. PICK a \in Addresses, t \in Ttls :
            /\ wanted' = [wanted EXCEPT ![a] = t]
            /\ asked' = [asked EXCEPT ![a] = @ \cup AsTtl(t)]
            /\ UNCHANGED <<descriptors, objects>>
    BY <1>4 DEF SetTtl
  <2>2. t \in Int
    BY SocketsAssumption
  <2>3. TtlTyped' /\ FreeHasDefault'
    BY <2>1, <2>2, AsTtlIsByte DEF TtlOK, TtlTyped, FreeHasDefault
  <2>4. OwnHasAsked'
    <3>1. t >= 0 => t % 256 \in AsTtl(t)
      BY DEF AsTtl
    <3>2. \A b \in Addresses : /\ wanted'[b] = IF b = a THEN t ELSE wanted[b]
                               /\ asked'[b] = IF b = a THEN asked[a] \cup AsTtl(t) ELSE asked[b]
      BY <2>1 DEF TtlOK, TtlTyped
    <3> QED BY <2>1, <3>1, <3>2 DEF TtlOK, OwnHasAsked
  <2> QED BY <1>1, <1>2, <2>1, <2>3, <2>4 DEF TtlOK
<1>5. CASE FreeAddress
  <2>1. PICK a \in Addresses :
            /\ Gone(a) /\ Closes(socket[a])
            /\ wanted' = [wanted EXCEPT ![a] = -1]
            /\ asked' = [asked EXCEPT ![a] = {}]
    BY <1>5 DEF FreeAddress
  <2>2. \A f \in Fds : ttl'[f] = IF f = socket[a] THEN -1 ELSE ttl[f]
    BY <2>1 DEF Closes
  <2>3. TtlTyped' /\ FreeHasDefault'
    BY <2>1, <2>2 DEF Closes, TtlOK, TtlTyped, FreeHasDefault
  <2>4. \A b \in Addresses : /\ state'[b] = IF b = a THEN "none" ELSE state[b]
                             /\ socket'[b] = IF b = a THEN NoFd ELSE socket[b]
                             /\ wanted'[b] = IF b = a THEN -1 ELSE wanted[b]
                             /\ asked'[b] = IF b = a THEN {} ELSE asked[b]
    BY <2>1 DEF Gone, Typed, TtlOK, TtlTyped, Objects
  <2>5. \A b \in Addresses : socket[b] # NoFd => socket[b] \in Fds
    BY DEF Typed, Objects, FdOrNone
  <2>6. OwnHasAsked'
    BY <2>2, <2>4, <2>5 DEF TtlOK, OwnHasAsked
  <2>7. NotAnothers'
    BY <1>2, <2>4
  <2> QED BY <1>1, <2>3, <2>6, <2>7 DEF TtlOK
<1> QED BY <1>3, <1>4, <1>5 DEF AddressStep

LEMMA TtlSending ==
    Typed /\ OwnedEach /\ Serving /\ Leaves /\ TtlOK /\ SendStep => TtlOK'
<1> SUFFICES ASSUME Typed, OwnedEach, Serving, Leaves, TtlOK, SendStep PROVE TtlOK'
  OBVIOUS
<1> USE DEF descriptors, objects, serverVars, addressVars
<1>1. ASSUME UNCHANGED <<open, ttl, wanted, asked, socket, state>>
      PROVE  TtlTyped' /\ FreeHasDefault' /\ OwnHasAsked'
  BY <1>1 DEF TtlOK, TtlTyped, FreeHasDefault, OwnHasAsked
<1>2. ASSUME call'.step \notin {"transmit", "done"} PROVE NotAnothers' /\ TtlExplained'
  BY <1>2 DEF NotAnothers, TtlExplained
<1>3. ASSUME NEW a, call' = Done(a, -1, -1, FALSE) PROVE NotAnothers' /\ TtlExplained'
  BY <1>3 DEF Done, NoCall, NotAnothers, TtlExplained
<1>4. ASSUME NEW f, NEW o, UseSocket(f, o),
             f # NoFd => \A b \in Addresses : socket'[b] = f => b = call.a
      PROVE  NotAnothers' /\ TtlExplained'
  <2>1. call'.step = "transmit" /\ call'.sock = f /\ call'.a = call.a
    BY <1>4 DEF UseSocket, Typed, CallOK, Shape
  <2> QED BY <1>4, <2>1 DEF NotAnothers, TtlExplained
<1>5. \A s \in Servers, b \in Addresses : socket[s] # NoFd => socket[b] # socket[s]
  BY SocketsAssumption DEF OwnedEach, Objects
<1>6. CASE Call
  <2>1. PICK a \in Addresses :
            /\ \/ call' = Done(a, -1, -1, FALSE)
               \/ \E from, big : call' = Begun(a, from, big)
            /\ UNCHANGED <<open, ttl, wanted, asked, socket, state>>
    BY <1>6 DEF Call
  <2>2. CASE \E from, big : call' = Begun(a, from, big)
    <3>1. call'.step = "check"
      BY <2>2 DEF Begun, NoCall
    <3> QED BY <1>1, <1>2, <2>1, <3>1 DEF TtlOK
  <2> QED BY <1>1, <1>3, <2>1, <2>2 DEF TtlOK
<1>7. CASE Check
  <2>1. UNCHANGED <<open, ttl, wanted, asked, socket, state>>
    BY <1>7 DEF Check
  <2>2. CASE call' = [call EXCEPT !.step = "pick"]
    <3>1. call'.step = "pick"
      BY <2>2 DEF Typed, CallOK, Shape
    <3> QED BY <1>1, <1>2, <2>1, <3>1 DEF TtlOK
  <2> QED BY <1>1, <1>3, <1>7, <2>1, <2>2 DEF Check, Fails, TtlOK
<1>8. CASE Pick
  <2>1. UNCHANGED <<open, ttl, wanted, asked, socket, state>> /\ call.step = "pick"
    BY <1>8 DEF Pick
  <2>2. CASE call.from # None /\ UseSocket(socket[call.from], call.from)
    <3>1. call.from \in Servers
      BY <2>1, <2>2 DEF Leaves, CallLives, Sending
    <3>2. NotAnothers' /\ TtlExplained'
      BY <1>4, <1>5, <2>1, <2>2, <3>1
    <3> QED BY <1>1, <2>1, <3>2 DEF TtlOK
  <2>3. CASE call' = [call EXCEPT !.step = "load"]
    <3>1. call'.step = "load"
      BY <2>3 DEF Typed, CallOK, Shape
    <3> QED BY <1>1, <1>2, <2>1, <3>1 DEF TtlOK
  <2>4. CASE UseSocket(socket[call.a], call.a)
    <3>1. socket[call.a] # NoFd => \A b \in Addresses : socket'[b] = socket[call.a] => b = call.a
      BY <2>1 DEF OwnedEach, Objects, Typed, CallOK
    <3>2. NotAnothers' /\ TtlExplained'
      BY <1>4, <2>4, <3>1
    <3> QED BY <1>1, <2>1, <3>2 DEF TtlOK
  <2> QED BY <1>8, <2>2, <2>3, <2>4 DEF Pick
<1>9. CASE Load
  <2>1. /\ call'.step = "transmit" /\ call'.sock = client["udp"] /\ call'.a = call.a
        /\ UNCHANGED <<open, ttl, wanted, asked, socket, state>>
    BY <1>9 DEF Load, Typed, CallOK, Shape
  <2>2. client["udp"] # NoFd => newest \in Servers /\ client["udp"] = socket[newest]
    BY DEF Serving, NewestIsClient
  <2>3. NotAnothers' /\ TtlExplained'
    BY <1>5, <2>1, <2>2 DEF NotAnothers, TtlExplained
  <2> QED BY <1>1, <2>1, <2>3 DEF TtlOK
<1>10. CASE ConnectFails \/ CreateFails
  <2>1. UNCHANGED <<open, ttl, wanted, asked, socket, state>> /\ Fails
    BY <1>10 DEF ConnectFails, CreateFails
  <2> QED BY <1>1, <1>3, <2>1 DEF Fails, TtlOK
<1>11. CASE Create
  <2>1. PICK f \in Fds : /\ call.step = "pick" /\ Opens(f) /\ UseSocket(f, call.a)
                         /\ socket' = [socket EXCEPT ![call.a] = f]
                         /\ UNCHANGED <<ttl, wanted, asked, state>>
    BY <1>11 DEF Create, NoneToReuse
  <2>2. f \notin open /\ open' = open \cup {f} /\ ttl[f] = -1 /\ f # NoFd
    BY <2>1, NoFdIsNone DEF Opens, TtlOK, FreeHasDefault
  <2>3. \A b \in Addresses : socket'[b] = IF b = call.a THEN f ELSE socket[b]
    BY <2>1 DEF Typed, Objects
  <2>4. \A b \in Addresses : socket[b] # f
    BY <2>2 DEF OwnedEach, Objects
  <2>5. NotAnothers' /\ TtlExplained'
    BY <1>4, <2>1, <2>3, <2>4
  <2>6. state[call.a] = "live"
    BY <2>1 DEF Leaves, CallLives, Sending
  <2>7. TtlTyped' /\ FreeHasDefault'
    BY <2>1, <2>2 DEF TtlOK, TtlTyped, FreeHasDefault
  <2>8. OwnHasAsked'
    BY <2>1, <2>2, <2>3, <2>6 DEF TtlOK, OwnHasAsked
  <2> QED BY <2>5, <2>7, <2>8 DEF TtlOK
<1>12. CASE Transmit
  <2> DEFINE a == call.a
             f == call.sock
  <2>1. PICK sent \in BOOLEAN :
            /\ sent => f \in open
            /\ \/ proto[a] = "tcp" /\ CloseOwn(a)
               \/ /\ proto[a] = "udp" /\ f \in open
                  /\ ttl' = [ttl EXCEPT ![f] = TtlUsed]
                  /\ UNCHANGED <<open, socket>>
               \/ UNCHANGED <<open, ttl, socket>>
            /\ call' = Done(a, IF sent THEN 1 ELSE -1, IF sent THEN TtlUsed ELSE -1,
                            f = socket[a])
    BY <1>12, Zenon DEF Transmit
  <2>2. call.step = "transmit" /\ UNCHANGED <<state, proto, wanted, asked>>
    BY <1>12 DEF Transmit
  <2>3. /\ a \in Addresses /\ a \in Objects
        /\ wanted[a] \in Int /\ wanted[a] % 256 \in Int
    BY <2>2 DEF Typed, CallOK, Objects, TtlOK, TtlTyped
  <2>4. /\ call'.step = "done" /\ call'.a = a /\ call'.ret = IF sent THEN 1 ELSE -1
        /\ call'.ttl = IF sent THEN TtlUsed ELSE -1
        /\ call'.own = (f = socket[a])
    BY <2>1 DEF Done, NoCall
  <2>5. f \in open => f \in Fds /\ f # NoFd
    BY NoFdIsNone DEF Typed
  <2>6. f \in open /\ f = socket[a] => TtlUsed \in {-1} \cup asked[a]
    BY <2>3, <2>5 DEF TtlUsed, TtlOK, OwnHasAsked
  <2>7. TtlExplained'
    <3>1. CASE sent
      <4>1. call'.ttl = TtlUsed
        BY <2>4, <3>1
      <4>2. wanted[a] \in 0 .. 255 => TtlUsed = wanted[a]
        BY <2>3 DEF TtlUsed
      <4> QED BY <2>1, <2>2, <2>4, <2>6, <3>1, <4>1, <4>2 DEF TtlExplained
    <3>2. CASE ~sent
      BY <2>4, <3>2 DEF TtlExplained
    <3> QED BY <3>1, <3>2
  <2>8. NotAnothers'
    BY <2>4 DEF NotAnothers
  <2>9. TtlTyped' /\ FreeHasDefault' /\ OwnHasAsked'
    <3>1. CASE CloseOwn(a)
      <4>1. /\ \A g \in Fds : ttl'[g] = IF g = socket[a] THEN -1 ELSE ttl[g]
            /\ open' = open \ {socket[a]}
            /\ \A b \in Addresses : socket'[b] = IF b = a THEN NoFd ELSE socket[b]
        BY <2>3, <3>1 DEF CloseOwn, Closes, Typed, Objects
      <4>2. \A b \in Addresses : socket[b] # NoFd => socket[b] \in Fds
        BY DEF Typed, Objects, FdOrNone
      <4>3. TtlTyped'
        BY <2>2, <3>1 DEF CloseOwn, Closes, TtlOK, TtlTyped
      <4>4. FreeHasDefault'
        BY <4>1 DEF TtlOK, FreeHasDefault
      <4>5. OwnHasAsked'
        BY <2>2, <4>1, <4>2 DEF TtlOK, OwnHasAsked
      <4> QED BY <4>3, <4>4, <4>5
    <3>2. CASE f \in open /\ ttl' = [ttl EXCEPT ![f] = TtlUsed] /\ UNCHANGED <<open, socket>>
      <4>1. TtlUsed \in Int
        BY <2>3, <2>5, <3>2 DEF TtlUsed, TtlOK, TtlTyped
      <4>2. \A g \in Fds : ttl'[g] = IF g = f THEN TtlUsed ELSE ttl[g]
        BY <3>2 DEF TtlOK, TtlTyped
      <4>3. TtlTyped'
        BY <2>2, <3>2, <4>1 DEF TtlOK, TtlTyped
      <4>4. FreeHasDefault'
        BY <3>2, <4>2 DEF TtlOK, FreeHasDefault
      <4>5. \A b \in Addresses : socket[b] # NoFd => socket[b] \in Fds
        BY DEF Typed, Objects, FdOrNone
      <4>6. \A b \in Addresses : socket[b] = f => b = a
        BY <2>2, <2>5, <3>2 DEF TtlOK, NotAnothers
      <4>7. \A b \in Addresses : socket'[b] # NoFd => ttl'[socket'[b]] \in {-1} \cup asked'[b]
        BY <2>2, <2>6, <3>2, <4>2, <4>5, <4>6 DEF TtlOK, OwnHasAsked
      <4>8. OwnHasAsked'
        BY <2>2, <3>2, <4>7 DEF TtlOK, OwnHasAsked
      <4> QED BY <4>3, <4>4, <4>8
    <3> QED BY <1>1, <2>1, <2>2, <3>1, <3>2
  <2> QED BY <2>7, <2>8, <2>9 DEF TtlOK
<1> QED BY <1>6, <1>7, <1>8, <1>9, <1>10, <1>11, <1>12 DEF SendStep

LEMMA TtlStutter == TtlOK /\ UNCHANGED vars => TtlOK'
  BY DEF TtlOK, TtlTyped, FreeHasDefault, OwnHasAsked, NotAnothers, TtlExplained, vars,
         descriptors, objects, serverVars, addressVars

\* A datagram has the TTL its address asks for (lo_send_internal's setsockopt), as
\* far as a byte holds it; one whose address asks for none, now or any more, has the
\* default through the address's own socket, or what the address itself asked for
\* before: no other address ever sends through that socket, and its number, when it
\* was another's before, has come back with the default.
THEOREM TtlIsExplained == Spec => []TtlExplained
<1>1. Init => TtlOK
  BY TtlInit
<1>2. Typed /\ OwnedEach /\ Serving /\ Leaves /\ TtlOK /\ [Next]_vars => TtlOK'
  BY TtlServers, TtlAddresses, TtlSending, TtlStutter DEF Next
<1>3. TtlOK => TtlExplained
  BY DEF TtlOK
<1> QED BY <1>1, <1>2, <1>3, LeavesAlways, PTL DEF Spec
=============================================================================
