----------------------------- MODULE Scheduler -----------------------------
(***************************************************************************)
(* What the dispatch queue of a liblo server promises, without its list:   *)
(* a stable priority queue.  A message is handed to its methods at once or *)
(* kept; of the messages kept, the one that is earliest is handed on next, *)
(* and of several earliest ones the one that came first.  Every message is *)
(* handed on at most once.                                                 *)
(***************************************************************************)
EXTENDS Integers, Sequences, FiniteSets

CONSTANTS Ids,          \* names of the messages
          Timetags,     \* the timetags they may bear
          Time(_)       \* the instant a timetag stands for, as a number

VARIABLES pending,      \* messages kept: records [id, ts, n]
          arrivals,     \* number of messages that were kept, ever
          log           \* names of the messages handed on, in order

vars == <<pending, arrivals, log>>

Known == {p.id : p \in pending} \cup {log[i] : i \in DOMAIN log}

Init == pending = {} /\ arrivals = 0 /\ log = <<>>

HandOnAtOnce(id) ==
    /\ id \notin Known
    /\ log' = Append(log, id)
    /\ UNCHANGED <<pending, arrivals>>

Keep(id, ts) ==
    /\ id \notin Known
    /\ pending' = pending \cup {[id |-> id, ts |-> ts, n |-> arrivals]}
    /\ arrivals' = arrivals + 1
    /\ log' = log

Before(p, q) == Time(p.ts) < Time(q.ts) \/ (Time(p.ts) = Time(q.ts) /\ p.n <= q.n)

HandOnNext ==
    \E p \in pending :
        /\ \A q \in pending : Before(p, q)
        /\ pending' = pending \ {p}
        /\ log' = Append(log, p.id)
        /\ arrivals' = arrivals

Next == \/ \E id \in Ids : HandOnAtOnce(id)
        \/ \E id \in Ids, ts \in Timetags : Keep(id, ts)
        \/ HandOnNext

Spec == Init /\ [][Next]_vars
=============================================================================
