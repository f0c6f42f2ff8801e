----------------------------- MODULE MCLoServer -----------------------------
(***************************************************************************)
(* The clock runs from second 1 to the middle of second 2.                 *)
(***************************************************************************)
EXTENDS LoServer

TT(s, f) == [sec |-> s, frac |-> f]
Bundle(ts, elems) == [ts |-> ts, elems |-> elems]
Message(id) == Bundle(TT(0, 0), <<id>>)

\* Two bundles for one instant, so that the order of arrival decides, one of
\* them with an element that cannot be read; and one for the next second, which
\* by the code's measure of time goes before them.
Bundles == {Bundle(TT(1, 3), <<"b", "c">>), Bundle(TT(1, 3), <<"d", Malformed, "e">>),
            Bundle(TT(2, 0), <<"a">>)}

\* A message on its own, and a bundle for the next second.
Mixed == {Message("m"), Bundle(TT(2, 0), <<"a">>)}
=============================================================================
