----------------------------- MODULE MCMessages -----------------------------
(***************************************************************************)
(* An argument for every way of being stored, with the lengths at which    *)
(* padding and doubling turn over, and lists with every kind of mistake.   *)
(***************************************************************************)
EXTENDS Bundles

Arg(t, v) == [type |-> t, val |-> v]

MCArguments ==
    {Arg(Int32, <<1, 2, 3, 4>>), Arg(Char, <<9, 9, 9, 97>>), Arg(Midi, <<5, 6, 7, 8>>),
     Arg(Double, <<1, 2, 3, 4, 5, 6, 7, 8>>), Arg(String, <<97, 98, 99>>),
     Arg(Symbol, <<97, 98, 99, 100>>), Arg(Blob, <<1, 0, 1, 0>>), Arg(True, <<>>)}

List(items, surplus) == [items |-> items, surplus |-> surplus]
IntArg == Arg(Int32, <<0, 0, 0, 7>>)

MCLists ==
    {List(<<IntArg, Arg(Nil, <<>>)>>, 0), List(<<Unknown, IntArg>>, 0), List(<<IntArg>>, 1),
     List(<<Missing(Int32)>>, -1), List(<<IntArg, Missing(Symbol)>>, -1)}

MCPaths == {<<47, 97>>, <<47, 97, 98, 99>>}
MCHosts == {Little, Big}
MCPathAt(i) == <<47, 96 + i>>
=============================================================================
