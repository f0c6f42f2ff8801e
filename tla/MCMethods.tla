----------------------------- MODULE MCMethods -----------------------------
(***************************************************************************)
(* Methods at /a/, at /a/c below it, and one for everything; messages to   *)
(* the first, which also asks for the listing of what is below it, and to  *)
(* both by a pattern; deletions by name, by pattern and of the methods     *)
(* without a path.                                                         *)
(*                                                                         *)
(* The matcher is asked about every string of four of three letters and    *)
(* every pattern of three items of eleven kinds.                           *)
(***************************************************************************)
EXTENDS Matching

a == 97
b == 98
c == 99

A  == <<Slash, a, Slash>>
AC == <<Slash, a, Slash, c>>

MCPaths == {A, AC, <<Slash, Star>>}

MCSpecs == {[path |-> A, types |-> "f", ret |-> 1], [path |-> A, types |-> Generic, ret |-> 0],
            [path |-> AC, types |-> "s", ret |-> 0], [path |-> Wild, types |-> Generic, ret |-> 1],
            [path |-> A, types |-> "s", ret |-> 1], [path |-> <<Slash, Star>>, types |-> "i", ret |-> 0]}

MCMessages == {[path |-> A, types |-> "i"], [path |-> <<Slash, Open, a, b, Close, Star>>, types |-> "s"]}

MCDeletions == {[path |-> A, types |-> "f"], [path |-> <<Slash, Star, Slash, Star>>, types |-> Generic],
                [path |-> Wild, types |-> Generic]}

MCItems ==
    {Char1(a), Char1(b), AnyChar, AnyString, SetOf(<<a, b>>),
     SetOf(<<a, Hyphen, c>>), SetOf(<<c, Hyphen, a>>),
     SetOf(<<b, Hyphen>>), NotIn(<<a>>),
     OneOf(<<<<a, b>>, <<c, b>>>>), OneOf(<<<<a>>, <<a, b>>>>)}

MCPatterns == SeqOf(MCItems, 3) \ {<<>>}
MCStrings  == SeqOf({a, b, c}, 4)
=============================================================================
