------------------------------ MODULE Matching ------------------------------
(***************************************************************************)
(* The methods of a server, and a program that asks lo_pattern_match       *)
(* itself.                                                                 *)
(***************************************************************************)
EXTENDS Methods

CONSTANTS Patterns,         \* sequences of the items of PatternMatch
          Strings

ASSUME MatchingAssumption ==
    /\ \A s \in Strings : s \in Seq(Chars)
    /\ \A p \in Patterns : p \in Seq(Shape) /\ \A n \in DOMAIN p : Spelled(p[n])

VARIABLE asked              \* the last call: its arguments and its result

NotAsked == [str |-> <<>>, pattern |-> <<>>, result |-> TRUE]

MatchingInit == Init /\ asked = NotAsked

\* The call depends on nothing else and changes nothing: it is made of a server
\* without methods only.
Ask ==
    /\ spec = <<>> /\ pc = "idle" /\ messages = 0 /\ asked = NotAsked
    /\ \E s \in Strings, p \in Patterns :
          asked' = [str |-> s, pattern |-> p, result |-> LoPatternMatch(s, TextOf(p))]
    /\ UNCHANGED vars

MatchingNext == Ask \/ (asked = NotAsked /\ Next /\ UNCHANGED asked)

MatchingSpec == MatchingInit /\ [][MatchingNext]_<<vars, asked>>

\* lo_pattern_match answers what the pattern means ("* matches zero or more
\* characters"; sets, ranges, "[!a] denotes any character but a"), with the
\* alternatives in braces as far as it can read them.
MatcherIsGlob ==
    Readable(asked.pattern) => asked.result = Glob(asked.str, asked.pattern)
=============================================================================
