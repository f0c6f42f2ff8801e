------------------------------ MODULE Sockets -------------------------------
(***************************************************************************)
(* The sockets of liblo: servers (lo/server.c), addresses (lo/address.c),  *)
(* the socket of the newest server that everything is sent through         *)
(* (lo_client_sockets), and what a call that sends does (lo/send.c).       *)
(*                                                                         *)
(* Servers are opened and freed by one thread of the program while another *)
(* is in a call that sends: neither holds a lock.  A file descriptor is    *)
(* the lowest free number, so one that was closed soon comes back.         *)
(***************************************************************************)
EXTENDS Integers, FiniteSets

CONSTANTS Fds,              \* bound on the descriptors of the process
          Servers, Addresses,
          ServerProtocols, AddressProtocols,
          Tries,            \* how often a port is tried; 17 in the code
          Ttls,             \* what lo_address_set_ttl is called with
          None              \* no server

NoFd == -1                  \* also of lo_client_sockets

Protocols == {"udp", "tcp", "unix"}
Objects   == Servers \cup Addresses

ASSUME SocketsAssumption ==
    /\ Fds \subseteq Nat
    /\ ServerProtocols \cup AddressProtocols \subseteq Protocols
    /\ Servers \cap Addresses = {} /\ None \notin Objects
    /\ Tries \in Nat \ {0} /\ Ttls \subseteq Int

NoError == 0   AnError == 99      \* the values of errnum that are told apart

VARIABLES
    open,       \* the descriptors in use
    lost,       \* history: those that nobody will close
    ttl,        \* multicast TTL of every descriptor, -1 for the default
    state,      \* of every object: "none", "opening" (servers) or "live"
    proto, socket,
    tries,      \* failed attempts of a server that is being opened
    client,     \* lo_client_sockets
    newest,     \* history: the UDP server opened last
    resolved,   \* of every address: is its ai set
    errnum, wanted,         \* its errnum and its ttl
    asked,      \* history: the TTLs it has asked for since it was made
    call        \* the call that sends; in history, via whose socket it has loaded,
                \* whether there was a UDP server then, and whether it was freed since

descriptors == <<open, lost, ttl>>
objects     == <<state, proto, socket>>
serverVars  == <<tries, client, newest>>
addressVars == <<resolved, errnum, wanted, asked>>
vars        == <<descriptors, objects, serverVars, addressVars, call>>

\* What is left of an object that is freed, or could not be made.
Gone(o) ==
    /\ state' = [state EXCEPT ![o] = "none"]
    /\ proto' = [proto EXCEPT ![o] = "udp"]
    /\ socket' = [socket EXCEPT ![o] = NoFd]

Sending == call.step \in {"check", "pick", "load", "transmit"}

NoCall == [step |-> "none", a |-> None, from |-> None, big |-> FALSE, sock |-> NoFd,
           ret |-> 0, ttl |-> -1, own |-> FALSE,
           via |-> None, server |-> FALSE, freed |-> FALSE]

Begun(a, from, big) == [NoCall EXCEPT !.step = "check", !.a = a, !.from = from, !.big = big]

Done(a, ret, t, own) ==
    [NoCall EXCEPT !.step = "done", !.a = a, !.ret = ret, !.ttl = t, !.own = own]

\* A step of the other thread; what a call came to is kept for one state.
Meanwhile == call' = IF call.step = "done" THEN NoCall ELSE call

Init ==
    /\ open = {} /\ lost = {} /\ ttl = [f \in Fds |-> -1]
    /\ state = [o \in Objects |-> "none"]
    /\ proto = [o \in Objects |-> "udp"]
    /\ socket = [o \in Objects |-> NoFd]
    /\ tries = [s \in Servers |-> 0]
    /\ client = [udp |-> NoFd, tcp |-> NoFd]
    /\ newest = None
    /\ resolved = [a \in Addresses |-> FALSE]
    /\ errnum = [a \in Addresses |-> NoError]
    /\ wanted = [a \in Addresses |-> -1]
    /\ asked = [a \in Addresses |-> {}]
    /\ call = NoCall

\* socket(), accept()
Opens(f) ==
    /\ f \in Fds \ open /\ \A g \in Fds \ open : f <= g
    /\ open' = open \cup {f}

\* close(), of a descriptor or NoFd; when it comes back it has the default TTL.
Closes(f) ==
    /\ open' = open \ {f}
    /\ ttl' = [g \in Fds |-> IF g = f THEN -1 ELSE ttl[g]]

----------------------------------------------------------------------------
(* Servers *)

\* lo_server_new_*: the object, before anything can fail.
NewServer == \E s \in Servers, p \in ServerProtocols :
    /\ state[s] = "none"
    /\ state' = [state EXCEPT ![s] = "opening"]
    /\ proto' = [proto EXCEPT ![s] = p]
    /\ Meanwhile
    /\ UNCHANGED <<socket, descriptors, serverVars, addressVars>>

Ended(s) == tries' = [tries EXCEPT ![s] = 0]

\* A plausible slip: the socket to send through outlives its server.
ForgetsKeeping(s) == client' = client

\* lo_server_free takes the socket out of lo_client_sockets.
Forgets(s) ==
    client' = IF socket[s] = NoFd THEN client
              ELSE IF proto[s] = "udp" /\ client.udp = socket[s] THEN [client EXCEPT !.udp = NoFd]
              ELSE IF proto[s] = "tcp" /\ client.tcp = socket[s] THEN [client EXCEPT !.tcp = NoFd]
              ELSE client

\* getaddrinfo() fails: the object is not freed, and the socket of the attempt
\* before this one, if there was one, stays open.
Unresolved == \E s \in Servers :
    /\ state[s] = "opening" /\ proto[s] # "unix"
    /\ Gone(s) /\ Ended(s)
    /\ lost' = lost \cup ({socket[s]} \ {NoFd})
    /\ Meanwhile
    /\ UNCHANGED <<open, ttl, client, newest, addressVars>>

\* socket() fails, so does the server; also after attempts to bind.
NoSocket == \E s \in Servers :
    /\ state[s] = "opening"
    /\ Gone(s) /\ Ended(s)
    /\ lost' = lost \cup ({socket[s]} \ {NoFd})
    /\ Meanwhile
    /\ UNCHANGED <<open, ttl, client, newest, addressVars>>

\* bind(), or joining a group before it, fails for good: lo_server_free closes
\* the socket of this attempt.  The one of the attempt before is lost.
BindFails == \E s \in Servers, f \in Fds :
    /\ state[s] = "opening" /\ f \in Fds \ open
    /\ Gone(s) /\ Ended(s)
    /\ lost' = lost \cup ({socket[s]} \ {NoFd})
    /\ Meanwhile
    /\ UNCHANGED <<open, ttl, client, newest, addressVars>>

\* The port is in use: the next attempt opens another socket.
PortInUse == \E s \in Servers, f \in Fds :
    /\ state[s] = "opening" /\ proto[s] # "unix"
    /\ Opens(f)
    /\ tries[s] + 1 < Tries
    /\ tries' = [tries EXCEPT ![s] = @ + 1]
    /\ lost' = lost \cup ({socket[s]} \ {NoFd})
    /\ socket' = [socket EXCEPT ![s] = f]
    /\ Meanwhile
    /\ UNCHANGED <<ttl, state, proto, client, newest, addressVars>>

\* The socket is bound; what is sent from now on is sent through it.
Bound == \E s \in Servers, f \in Fds :
    /\ state[s] = "opening"
    /\ Opens(f)
    /\ state' = [state EXCEPT ![s] = "live"]
    /\ lost' = lost \cup ({socket[s]} \ {NoFd})
    /\ socket' = [socket EXCEPT ![s] = f]
    /\ client' = IF proto[s] = "unix" THEN client ELSE [client EXCEPT ![proto[s]] = f]
    /\ newest' = IF proto[s] = "udp" THEN s ELSE newest
    /\ Ended(s)
    /\ Meanwhile
    /\ UNCHANGED <<ttl, proto, addressVars>>

\* lo_server_free.  Nobody frees the server a message is being sent from.
FreeServer == \E s \in Servers :
    /\ state[s] = "live" /\ (Sending => s # call.from)
    /\ Gone(s)
    /\ Forgets(s)
    /\ Closes(socket[s])
    /\ newest' = IF newest = s THEN None ELSE newest
    /\ call' = IF call.step = "done" THEN NoCall
               ELSE [call EXCEPT !.freed = @ \/ (call.step = "load" /\ s = newest)
                                             \/ (call.step = "transmit" /\ s = call.via)]
    /\ UNCHANGED <<lost, tries, addressVars>>

\* lo_server_recv_raw_stream leaves the connection open it has read from ("//
\* close(sock)"), unless its message was too large.
Accept == \E s \in Servers, f \in Fds :
    /\ state[s] = "live" /\ proto[s] = "tcp"
    /\ Opens(f)
    /\ lost' = lost \cup {f}
    /\ Meanwhile
    /\ UNCHANGED <<ttl, objects, serverVars, addressVars>>

----------------------------------------------------------------------------
(* Addresses *)

\* What a ttl asks the socket for: nothing, or what fits into an unsigned char.
AsTtl(t) == IF t >= 0 THEN {t % 256} ELSE {}

\* lo_address_new, for UDP, leaves the TTL alone; lo_address_new_from_url makes
\* it 0.
NewAddress == \E a \in Addresses, p \in AddressProtocols, w \in {-1, 0} :
    /\ state[a] = "none"
    /\ p # "udp" => w = 0
    /\ state' = [state EXCEPT ![a] = "live"]
    /\ proto' = [proto EXCEPT ![a] = p]
    /\ wanted' = [wanted EXCEPT ![a] = w]
    /\ asked' = [asked EXCEPT ![a] = AsTtl(w)]
    /\ Meanwhile
    /\ UNCHANGED <<socket, descriptors, serverVars, resolved, errnum>>

\* lo_address_set_ttl, which is for UDP.  An address that is being sent to is left
\* alone, here and when it is freed.
SetTtl == \E a \in Addresses, t \in Ttls :
    /\ state[a] = "live" /\ (Sending => a # call.a)
    /\ proto[a] = "udp"
    /\ wanted' = [wanted EXCEPT ![a] = t]
    /\ asked' = [asked EXCEPT ![a] = @ \cup AsTtl(t)]
    /\ Meanwhile
    /\ UNCHANGED <<descriptors, objects, serverVars, resolved, errnum>>

\* lo_address_free
FreeAddress == \E a \in Addresses :
    /\ state[a] = "live" /\ (Sending => a # call.a)
    /\ Gone(a)
    /\ Closes(socket[a])
    /\ resolved' = [resolved EXCEPT ![a] = FALSE]
    /\ errnum' = [errnum EXCEPT ![a] = NoError]
    /\ wanted' = [wanted EXCEPT ![a] = -1]
    /\ asked' = [asked EXCEPT ![a] = {}]
    /\ Meanwhile
    /\ UNCHANGED <<lost, serverVars>>

----------------------------------------------------------------------------
(* Sending *)

\* lo_send, lo_send_from or lo_send_timestamped (which is lo_send_from with no
\* server here) is called.  lo_send alone looks at what lo_message_add says of the
\* arguments: the others send what has been added before the one that failed.
Call == \E a \in Addresses, from \in Servers \cup {None}, badArgs, big \in BOOLEAN :
    /\ ~Sending /\ state[a] = "live"
    /\ from # None => state[from] = "live"
    /\ badArgs => from = None /\ ~big
    /\ call' = IF badArgs THEN Done(a, -1, -1, FALSE) ELSE Begun(a, from, big)
    /\ errnum' = [errnum EXCEPT ![a] = IF badArgs THEN AnError ELSE NoError]
    /\ UNCHANGED <<descriptors, objects, serverVars, resolved, wanted, asked>>

Fails ==
    /\ call' = Done(call.a, -1, -1, FALSE)
    /\ errnum' = [errnum EXCEPT ![call.a] = AnError]

\* send_data: a message that is too large, and the address, which is resolved
\* once.
Check ==
    /\ call.step = "check"
    /\ \/ call.big /\ Fails /\ UNCHANGED resolved
       \/ /\ ~call.big /\ ~resolved[call.a] /\ proto[call.a] # "unix"
          /\ Fails
          /\ UNCHANGED resolved
       \/ /\ ~call.big
          /\ call' = [call EXCEPT !.step = "pick"]
          /\ resolved' = [resolved EXCEPT ![call.a] = @ \/ proto[call.a] # "unix"]
          /\ UNCHANGED errnum
    /\ UNCHANGED <<descriptors, objects, serverVars, wanted, asked>>

\* The descriptor f, of o's socket, is what sock is set to.
UseSocket(f, o) == call' = [call EXCEPT !.step = "transmit", !.sock = f, !.via = o,
                                        !.server = newest # None]

ThroughClient == proto[call.a] = "udp" /\ client.udp # NoFd

\* A plausible slip: the address's own socket goes first.
PickOwnFirst ==
    /\ call.step = "pick"
    /\ \/ call.from # None /\ UseSocket(socket[call.from], call.from)
       \/ call.from = None /\ socket[call.a] # NoFd /\ UseSocket(socket[call.a], call.a)
       \/ /\ call.from = None /\ socket[call.a] = NoFd /\ ThroughClient
          /\ call' = [call EXCEPT !.step = "load"]
    /\ UNCHANGED <<descriptors, objects, serverVars, addressVars>>

\* "Re-use existing socket?"  Whether there is one of a server is asked first ...
Pick ==
    /\ call.step = "pick"
    /\ \/ call.from # None /\ UseSocket(socket[call.from], call.from)
       \/ call.from = None /\ ThroughClient /\ call' = [call EXCEPT !.step = "load"]
       \/ /\ call.from = None /\ ~ThroughClient /\ socket[call.a] # NoFd
          /\ UseSocket(socket[call.a], call.a)
    /\ UNCHANGED <<descriptors, objects, serverVars, addressVars>>

\* ... and then it is loaded, another one than was there, or none.
Load ==
    /\ call.step = "load"
    /\ call' = [call EXCEPT !.step = "transmit", !.sock = client.udp, !.via = newest,
                            !.server = TRUE, !.freed = @ /\ client.udp = NoFd]
    /\ UNCHANGED <<descriptors, objects, serverVars, addressVars>>

NoneToReuse == /\ call.step = "pick" /\ call.from = None
               /\ ~ThroughClient /\ socket[call.a] = NoFd

\* A plausible slip: the socket that cannot be connected is not closed.
ConnectFailsKeeping == \E f \in Fds :
    /\ NoneToReuse
    /\ Opens(f)
    /\ proto[call.a] # "udp"
    /\ Fails
    /\ UNCHANGED <<lost, ttl, objects, serverVars, resolved, wanted, asked>>

\* create_socket: connect() fails ...
ConnectFails ==
    /\ NoneToReuse
    /\ proto[call.a] # "udp"
    /\ Fails
    /\ UNCHANGED <<descriptors, objects, serverVars, resolved, wanted, asked>>

\* ... or socket() does ...
CreateFails ==
    /\ NoneToReuse
    /\ Fails
    /\ UNCHANGED <<descriptors, objects, serverVars, resolved, wanted, asked>>

\* ... or neither.
Create == \E f \in Fds :
    /\ NoneToReuse
    /\ Opens(f)
    /\ socket' = [socket EXCEPT ![call.a] = f]
    /\ UseSocket(f, call.a)
    /\ UNCHANGED <<lost, ttl, state, proto, serverVars, addressVars>>

\* A plausible slip: a TTL of 0 is taken for none.
TtlUsedPositive == IF wanted[call.a] > 0 THEN wanted[call.a] % 256 ELSE ttl[call.sock]

\* The TTL a datagram is sent with; the one asked for is made an unsigned char.
TtlUsed == IF wanted[call.a] >= 0 THEN wanted[call.a] % 256 ELSE ttl[call.sock]

\* A plausible slip: the error of a send over TCP is forgotten.
SendErrorForgetting(sent) == IF sent \/ proto[call.a] = "tcp" THEN NoError ELSE AnError

\* geterror(), after the close() that follows every send over TCP.
SendError(sent) == IF sent THEN NoError ELSE AnError

\* A plausible slip: the address keeps the number of the socket that was closed.
CloseOwnKeeping(a) == Closes(socket[a]) /\ UNCHANGED socket

\* "XXX not sure this is the right behviour"
CloseOwn(a) ==
    /\ Closes(socket[a])
    /\ socket' = [socket EXCEPT ![a] = NoFd]

\* The rest of send_data.  Whatever can go wrong with a socket may; one that is
\* closed, or that listens for connections, does not send.
Transmit == \E sent \in BOOLEAN :
    LET a == call.a
        f == call.sock
    IN  /\ call.step = "transmit"
        /\ sent => /\ f \in open
                   /\ call.from # None => proto[a] = "udp" /\ proto[call.from] = "udp"
        /\ \/ proto[a] = "tcp" /\ CloseOwn(a)
           \/ /\ proto[a] = "udp" /\ f \in open
              /\ ttl' = [ttl EXCEPT ![f] = TtlUsed]
              /\ UNCHANGED <<open, socket>>
           \/ /\ proto[a] = "unix" \/ (proto[a] = "udp" /\ f \notin open)
              /\ UNCHANGED <<open, ttl, socket>>
        /\ call' = Done(a, IF sent THEN 1 ELSE -1, IF sent THEN TtlUsed ELSE -1, f = socket[a])
        /\ errnum' = [errnum EXCEPT ![a] = SendError(sent)]
        /\ UNCHANGED <<lost, state, proto, serverVars, resolved, wanted, asked>>

ServerStep  == NewServer \/ Unresolved \/ NoSocket \/ BindFails \/ PortInUse \/ Bound
                         \/ FreeServer \/ Accept
AddressStep == NewAddress \/ SetTtl \/ FreeAddress
SendStep    == Call \/ Check \/ Pick \/ Load \/ ConnectFails \/ CreateFails \/ Create \/ Transmit

Next == ServerStep \/ AddressStep \/ SendStep

Spec == Init /\ [][Next]_vars

----------------------------------------------------------------------------
(* Properties *)

Held == {socket[o] : o \in Objects} \ {NoFd}

\* No socket has two owners, none is closed under its owner, and whatever fails,
\* nothing stays open that nobody holds, but for the sockets whose ports were in
\* use and for accepted connections.
OneOwner ==
    /\ \A o, p \in Objects : socket[o] = socket[p] /\ socket[o] # NoFd => o = p
    /\ Held \cap lost = {}
    /\ open = Held \cup lost

\* lo_client_sockets names sockets of servers that live, of its protocol; for UDP
\* the one of the server opened last, if that was not freed.
ClientIsServer ==
    /\ \A p \in {"udp", "tcp"} :
          client[p] # NoFd =>
              \E s \in Servers : state[s] = "live" /\ proto[s] = p /\ socket[s] = client[p]
    /\ client.udp = IF newest = None THEN NoFd ELSE socket[newest]

\* A packet leaves through the open socket of its server, of the UDP server that was
\* opened last when it was loaded, where its receiver's answer comes in, or of its
\* address, that over UDP only if there was no such server.  One thing alone makes it
\* leave elsewhere, or nowhere: that very server is freed before the call is done
\* with its socket.  Servers that are opened, and other servers that are freed, make
\* no difference, though all that is shared is read without a lock.
ThroughItsSocket ==
    /\ ClientIsServer
    /\ call.step = "transmit" =>
          IF call.freed
          THEN call.from = None /\ proto[call.a] = "udp" /\ call.via # call.a
          ELSE /\ call.sock \in open
               /\ call.via \in Objects /\ state[call.via] = "live"
               /\ call.sock = socket[call.via]
               /\ call.from # None => call.via = call.from
               /\ call.from = None =>
                     \/ call.via \in Servers /\ proto[call.via] = "udp" /\ proto[call.a] = "udp"
                     \/ call.via = call.a /\ (proto[call.a] = "udp" => ~call.server)

\* A call that returns less than 0 leaves the reason in the address, one that does
\* not leaves none, whatever an earlier call has left there ("-1 on failure",
\* lo.h).
ErrnumTells ==
    call.step = "done" => (call.ret < 0 <=> errnum[call.a] # NoError)

\* A datagram has the TTL its address asks for, if that fits into a byte.  If it asks
\* for none, and leaves through the address's own socket, it has the default one, or
\* one the address has asked for before and taken back, which stays set: never
\* that of another address, though descriptors come back.  (Through a socket that
\* is shared it has what the last address has set there.)
TtlExplained ==
    LET a == call.a
    IN  call.step = "done" /\ call.ret > 0 /\ proto[a] = "udp" =>
            /\ wanted[a] \in 0 .. 255 => call.ttl = wanted[a]
            /\ wanted[a] < 0 /\ call.own =>
                  call.ttl \in {-1} \cup asked[a]
=============================================================================
