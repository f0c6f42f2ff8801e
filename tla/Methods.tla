------------------------------ MODULE Methods ------------------------------
(***************************************************************************)
(* The methods of a liblo server (lo/server.c): a linked list that         *)
(* lo_server_add_method appends to, lo_server_del_method unlinks and frees *)
(* from, and dispatch_method walks for every message.                      *)
(*                                                                         *)
(* One thread runs all of it.  The handler that dispatch_method calls may  *)
(* itself add and delete methods, so the list changes under the walk.      *)
(*                                                                         *)
(* A method is known by its node: the n-th ever added is node n.  Memory   *)
(* is not reused.  Messages have one argument.                             *)
(***************************************************************************)
EXTENDS PatternMatch, FiniteSets, Folding

CONSTANTS Paths,        \* paths of methods
          Specs,        \* the methods that may be added
          Messages,     \* the messages that may come
          Deletions,    \* the deletions that may be asked for
          MaxNodes,     \* bound on the number of methods added
          MaxDeletions, \* bound on the number of deletions
          MaxMessages   \* bound on the number of messages

Null == 0                       \* of a pointer to a node
Wild    == <<>>                 \* a NULL path
Generic == "any"                \* a NULL typespec
Types == {"i", "f", "s"}        \* an int32, a float, a string

ASSUME MethodsAssumption ==
    /\ Wild \notin Paths
    /\ Specs \subseteq [path : Paths \cup {Wild}, types : Types \cup {Generic}, ret : {0, 1}]
    /\ \A m \in Messages : m.path # <<>> /\ m.types \in Types
    /\ \A d \in Deletions : d.types \in Types \cup {Generic}
    /\ MaxNodes \in Nat /\ MaxDeletions \in Nat /\ MaxMessages \in Nat

VARIABLES
    first,      \* s->first
    next,       \* next of every node
    spec,       \* path and typespec of every node, and what its handler returns
    freed,      \* the nodes freed
    op,         \* what changes the list: "none", "add" or "del"
    it, prev,   \* its local variables
    del,        \* the deletion asked for
    pc,         \* dispatch_method: "idle", "method", "handler" or "end"
    at,         \* its "it"
    msg,        \* its message
    ret,        \* its "ret"
    argv,       \* is its "argv" not NULL
    called,     \* history: the methods called, and if they were given argv
    table,      \* history: the methods there are, oldest first
    reply,      \* the last listing of methods: what was asked, and the names sent
    undefined,  \* has freed memory been used, or a NULL pointer followed
    messages, deletions

list     == <<first, next, spec, freed, table>>
change   == <<op, it, prev, del, deletions>>
dispatch == <<pc, at, msg, ret, argv, called, messages>>
vars     == <<list, change, dispatch, reply, undefined>>

Nodes == 1 .. Len(spec)

NoReply == [to |-> <<>>, names |-> <<>>]

Init ==
    /\ first = Null /\ next = <<>> /\ spec = <<>> /\ freed = {}
    /\ op = "none" /\ it = Null /\ prev = Null
    /\ del = (CHOOSE d \in Deletions : TRUE) /\ msg = (CHOOSE m \in Messages : TRUE)
    /\ pc = "idle" /\ at = Null /\ ret = 1 /\ argv = TRUE
    /\ called = <<>> /\ table = <<>> /\ undefined = FALSE
    /\ messages = 0 /\ deletions = 0 /\ reply = NoReply

\* Whoever changes the list is the program between two messages, or a handler.
MayChange == op = "none" /\ pc \in {"idle", "handler"} /\ ~undefined

----------------------------------------------------------------------------
(* lo_server_add_method *)

\* A new node, appended at once to an empty list.  A path with a pattern is
\* refused.
Add == \E sp \in Specs :
    /\ MayChange
    /\ ~IsPattern(sp.path)
    /\ Len(spec) < MaxNodes
    /\ spec' = Append(spec, sp) /\ next' = Append(next, Null)
    /\ IF first = Null
         THEN /\ first' = Len(spec')
              /\ table' = Append(table, Len(spec'))
              /\ UNCHANGED <<op, it>>
         ELSE op' = "add" /\ it' = first /\ UNCHANGED <<first, table>>
    /\ UNCHANGED <<freed, prev, del, deletions, dispatch, undefined, reply>>

\* A plausible slip: after the first one.
WalkNoFurther ==
    /\ op = "add" /\ ~undefined
    /\ undefined' = (it \in freed)
    /\ next' = [next EXCEPT ![it] = Len(spec)]
    /\ table' = Append(table, Len(spec))
    /\ op' = "none" /\ it' = it
    /\ UNCHANGED <<first, spec, freed, prev, del, deletions, dispatch, reply>>

\* ... otherwise after the last one.
Walk ==
    /\ op = "add" /\ ~undefined
    /\ undefined' = (it \in freed)
    /\ \/ /\ next[it] # Null
          /\ it' = next[it]
          /\ UNCHANGED <<op, next, table>>
       \/ /\ next[it] = Null
          /\ next' = [next EXCEPT ![it] = Len(spec)]
          /\ table' = Append(table, Len(spec))
          /\ op' = "none"
          /\ it' = it
    /\ UNCHANGED <<first, spec, freed, prev, del, deletions, dispatch, reply>>

----------------------------------------------------------------------------
(* lo_server_del_method *)

Delete == \E d \in Deletions :
    /\ MayChange
    /\ deletions < MaxDeletions
    /\ first # Null
    /\ deletions' = deletions + 1
    /\ op' = "del" /\ del' = d
    /\ it' = first /\ prev' = first
    /\ UNCHANGED <<list, dispatch, undefined, reply>>

\* lo_pattern_match, for what may be asked of it here.
MatchTable == [path \in Paths, text \in {x.path : x \in Messages \cup Deletions} |->
                  IsPattern(text) /\ LoPatternMatch(path, text)]

Matches(path, text) == Wild \notin {path, text} /\ MatchTable[path, text]

\* "If paths match": NULL stands for the methods added with NULL only.
Condemned(n) ==
    /\ spec[n].path = del.path \/ Matches(spec[n].path, del.path)
    /\ spec[n].types = del.types

\* A plausible slip: the head is the node whose predecessor it is itself.
UnlinkAtFirstRound ==
    /\ IF it = prev
         THEN first' = next[it] /\ next' = next
         ELSE next' = [next EXCEPT ![prev] = next[it]] /\ first' = first
    /\ freed' = freed \cup {it}
    /\ table' = RemoveFirst(table, it)
    /\ undefined' = (it \in freed \/ (it # prev /\ prev \in freed))

Unlink ==
    /\ IF it = first
         THEN first' = next[it] /\ next' = next
         ELSE next' = [next EXCEPT ![prev] = next[it]] /\ first' = first
    /\ freed' = freed \cup {it}
    /\ table' = RemoveFirst(table, it)
    /\ undefined' = (it \in freed \/ (it # first /\ prev \in freed))

\* A plausible slip: the node after a removed one is not looked at.
VisitSkipping ==
    /\ op = "del" /\ it # Null /\ ~undefined
    /\ \/ /\ Condemned(it) /\ Unlink /\ prev' = prev
          /\ it' = IF next[it] = Null THEN Null ELSE next[next[it]]
       \/ /\ ~Condemned(it)
          /\ it' = next[it] /\ prev' = it
          /\ undefined' = (it \in freed)
          /\ UNCHANGED <<first, next, freed, table>>
    /\ UNCHANGED <<spec, op, del, deletions, dispatch, reply>>

\* One round of the loop.  When the head is removed, "it = prev" and then
\* "prev = it" leave prev at the freed head.
Visit ==
    /\ op = "del" /\ it # Null /\ ~undefined
    /\ it' = next[it]
    /\ \/ Condemned(it) /\ Unlink /\ prev' = prev
       \/ /\ ~Condemned(it)
          /\ prev' = it
          /\ undefined' = (it \in freed)
          /\ UNCHANGED <<first, next, freed, table>>
    /\ UNCHANGED <<spec, op, del, deletions, dispatch, reply>>

Deleted ==
    /\ op = "del" /\ it = Null /\ ~undefined
    /\ op' = "none"
    /\ UNCHANGED <<list, it, prev, del, deletions, dispatch, undefined, reply>>

----------------------------------------------------------------------------
(* dispatch_method *)

PathMatches(n, m)  == spec[n].path \in {Wild, m.path} \/ Matches(spec[n].path, m.path)
TypesMatch(n, m)   == spec[n].types = Generic \/ spec[n].types = m.types
Coercible(a, b)    == a = b \/ {a, b} \subseteq {"i", "f"}
Accepts(n, m)      == PathMatches(n, m) /\ (TypesMatch(n, m) \/ Coercible(m.types, spec[n].types))

\* The message comes, over UDP; the address it came from can be named ...
Dispatch == \E m \in Messages :
    /\ pc = "idle" /\ op = "none" /\ ~undefined
    /\ messages < MaxMessages
    /\ messages' = messages + 1
    /\ msg' = m /\ at' = first /\ ret' = 1 /\ argv' = TRUE /\ called' = <<>>
    /\ pc' = "method" /\ reply' = NoReply
    /\ UNCHANGED <<list, change, undefined>>

\* ... or it cannot, and the message is dropped.
Unnamed ==
    /\ pc = "idle" /\ op = "none" /\ ~undefined
    /\ messages < MaxMessages
    /\ messages' = messages + 1
    /\ UNCHANGED <<list, change, undefined, pc, at, msg, ret, argv, called, reply>>

\* The next method of the list: it is passed over, or called, with the
\* arguments as they came or with coerced ones.  (The test of ret also follows
\* a method whose path alone matches; there it never ends the walk.)
Method ==
    /\ pc = "method" /\ at # Null /\ ~undefined
    /\ \/ /\ PathMatches(at, msg) /\ TypesMatch(at, msg)
          /\ called' = Append(called, [node |-> at, argv |-> argv])
          /\ pc' = "handler"
          /\ UNCHANGED <<at, argv>>
       \/ /\ PathMatches(at, msg) /\ ~TypesMatch(at, msg) /\ Accepts(at, msg)
          /\ called' = Append(called, [node |-> at, argv |-> TRUE])
          /\ argv' = FALSE              \* after the call, see below
          /\ pc' = "handler"
          /\ at' = at
       \/ /\ ~Accepts(at, msg)
          /\ at' = next[at]
          /\ UNCHANGED <<pc, argv, called>>
    /\ UNCHANGED <<list, change, undefined, msg, ret, messages, reply>>

\* A plausible slip: a handler that is done stops the walk of a pattern, too.
ReturnStoppingPatterns ==
    /\ pc = "handler" /\ op = "none" /\ ~undefined
    /\ ret' = spec[at].ret
    /\ IF ret' = 0
         THEN pc' = "end" /\ UNCHANGED <<at, undefined>>
         ELSE pc' = "method" /\ at' = next[at] /\ undefined' = (at \in freed)
    /\ UNCHANGED <<list, change, msg, argv, called, messages, reply>>

\* The handler returns.  The walk ends if it has dealt with the message,
\* unless the path is a pattern; otherwise the next node is taken from this
\* one, wherever it is by now.
Return ==
    /\ pc = "handler" /\ op = "none" /\ ~undefined
    /\ ret' = spec[at].ret
    /\ IF ret' = 0 /\ ~IsPattern(msg.path)
         THEN pc' = "end" /\ UNCHANGED <<at, undefined>>
         ELSE pc' = "method" /\ at' = next[at] /\ undefined' = (at \in freed)
    /\ UNCHANGED <<list, change, msg, argv, called, messages, reply>>

\* What of a method's path is listed: the part after the path asked for, up to
\* the next slash.
Part(path, asked) == SubSeq(path, Len(asked) + 1, Find(path, Len(asked) + 1, {Slash}) - 1)

\* The walk from first: the next node, and those before it.
Onward(w) == IF w.at = Null THEN w ELSE [at |-> next[w.at], nodes |-> Append(w.nodes, w.at)]

\* The nodes of the list.  There are no more of them than were ever added.
Chain == Folded(LAMBDA w, sp : Onward(w), [at |-> first, nodes |-> <<>>], spec).nodes

\* A plausible slip: only neighbours in the list are compared.
WithNameAdjacent(names, path, asked) ==
    LET part == Part(path, asked)
    IN  IF IsPrefix(asked, path) /\ (names = <<>> \/ Last(names) # part)
          THEN Append(names, part) ELSE names

\* The names, and that of a method under the path asked for unless it is known.
WithName(names, path, asked) ==
    LET part == Part(path, asked)
    IN  IF IsPrefix(asked, path) /\ part \notin ToSet(names)
          THEN Append(names, part) ELSE names

\* The names of all methods under a path.
Listing(asked) == Folded(LAMBDA names, n : WithName(names, spec[n].path, asked), <<>>, Chain)

\* The end of the list, or of the walk.  If ret is 1 and the path ends in a
\* slash, the methods under it are sent to the source; an int32 argument is
\* echoed, through argv.
End ==
    /\ pc = "end" \/ (pc = "method" /\ at = Null)
    /\ ~undefined
    /\ pc' = "idle"
    /\ LET asks == ret = 1 /\ Last(msg.path) = Slash
       IN  /\ undefined' = (asks /\ msg.types = "i" /\ ~argv)
           /\ reply' = IF asks /\ ~undefined' THEN [to |-> msg.path, names |-> Listing(msg.path)]
                       ELSE reply
    /\ UNCHANGED <<list, change, at, msg, ret, argv, called, messages>>

Next == Add \/ Walk \/ Delete \/ Visit \/ Deleted
            \/ Dispatch \/ Unnamed \/ Method \/ Return \/ End

Spec == Init /\ [][Next]_vars

----------------------------------------------------------------------------
(* Properties *)

Listed == {table[i] : i \in DOMAIN table}
Heard  == {called[i].node : i \in DOMAIN called}

\* The list is a list of the methods added and not deleted, in the order they
\* were added, at every moment: lo_server_del_method leaves its prev at freed
\* memory when it removes the head, and this is why that does no harm.
ListIsTable ==
    ~undefined =>
        /\ first = IF table = <<>> THEN Null ELSE table[1]
        /\ \A i \in DOMAIN table :
              /\ next[table[i]] = IF i = Len(table) THEN Null ELSE table[i + 1]
              /\ table[i] \notin freed

\* A deletion removes every method it asks for, also when they are neighbours.
DeletionIsComplete ==
    op = "del" /\ it = Null /\ ~undefined => \A n \in Listed : ~Condemned(n)

\* Adding and deleting methods is safe, also from a handler and in the middle
\* of a walk, with two exceptions: a handler must not delete the method it was
\* called by (unless its result ends the walk), and a request to list methods
\* must not follow a call with coerced arguments.
UndefinedExplained ==
    undefined =>
        /\ op = "none"
        /\ \/ pc = "method" /\ Last(called).node \in freed
           \/ pc = "idle" /\ called # <<>> /\ ~argv

WalkIsOver == (pc = "end" \/ (pc = "method" /\ at = Null)) /\ ~undefined
Stops(n)   == spec[n].ret = 0 /\ ~IsPattern(msg.path)

\* Whatever the handlers have added or deleted meanwhile: when the walk is over
\* the methods there are have been called if they accept the message and no
\* older one has dealt with it, each once and oldest first.
CalledAsRegistered ==
    WalkIsOver =>
        /\ \A i, j \in DOMAIN called : i < j => called[i].node < called[j].node
        /\ \A n \in Listed :
              n \in Heard <=> Accepts(n, msg) /\ \A m \in Heard : Stops(m) => n <= m

\* The answer to a request to list what is under a path has a name for every
\* method there is, and each name once, whatever the handlers called for the
\* request have added and deleted.
ListingIsTable == [][
    reply' \notin {reply, NoReply} =>
        /\ ToSet(reply'.names) =
              {Part(spec[n].path, msg.path) :
                  n \in {k \in Listed : IsPrefix(msg.path, spec[k].path)}}
        /\ IsInjective(reply'.names)]_vars

\* lo_types.h: argv is "An array of lo_arg types containing the values", for
\* every handler that is called for a message.
ArgvAsDocumented == \A i \in DOMAIN called : called[i].argv
=============================================================================
