---------------------------- MODULE PatternMatch ----------------------------
(***************************************************************************)
(* lo_pattern_match (lo/pattern_match.c), and what a pattern means.        *)
(*                                                                         *)
(* Strings are sequences of character codes.  The pointers str and p are   *)
(* places in them; the character at the end is 0.                          *)
(***************************************************************************)
EXTENDS Integers, Sequences, SequencesExt

Star == 42   Single == 63   Open == 91   Close == 93   Negate == 33
Hyphen == 45 OpenBrace == 123 CloseBrace == 125 CommaChar == 44 Slash == 47

Chars    == (-128 .. 255) \ {0}       \* a char may have a sign
NotStars == Chars \ {Star}

\* strpbrk(path, " #*,?[]{}") # NULL: the path is a pattern
PatternChars == {32, 35, Star, CommaChar, Single, Open, Close, OpenBrace, CloseBrace}
IsPattern(path) == ToSet(path) \cap PatternChars # {}

At(s, i) == IF i \in DOMAIN s THEN s[i] ELSE 0

\* The first place from i on with one of the characters, or the end.
Find(s, i, chars) ==
    LET k == SelectInSubSeq(s, i, Len(s), LAMBDA c : c \in chars)
    IN  IF k = 0 THEN Len(s) + 1 ELSE k

\* A plausible slip: a star takes one character at least.
StarFromNext(s, i, p, j) ==
    IF At(p, j) \in {Single, Open, OpenBrace} THEN i + 1 ELSE Find(s, i + 1, {At(p, j)})

\* Where the string may go on after a star: not before the character that
\* follows it in the pattern.
StarFrom(s, i, p, j) ==
    IF At(p, j) \in {Single, Open, OpenBrace} THEN i ELSE Find(s, i, {At(p, j)})

NoSet == [ok |-> FALSE, in |-> FALSE, at |-> 0]

\* Is c in the set whose text begins at q: one character or range after the other,
\* until one of them has it.  A range that ends with the set is everything from
\* its character on.
InSet(c, p, q) ==
    LET Scan[k \in 1 .. Len(p) + 1] ==
            LET lo == At(p, k)   next == At(p, k + 1)   hi == At(p, k + 2)
                Step(in, at, last) == IF in \/ last THEN [ok |-> TRUE, in |-> in, at |-> at]
                                      ELSE Scan[at]
            IN  CASE next = 0 \/ (next = Hyphen /\ hi = 0) -> NoSet
                  [] next = Hyphen /\ hi # 0 ->
                        Step(IF hi = Close THEN c >= lo
                             ELSE c \in {lo, hi} \/ (lo < c /\ c < hi), k + 2, hi = Close)
                  [] next \notin {0, Hyphen} ->
                        Step(c = lo \/ (c = next /\ next # Close), k + 1, next = Close)
    IN  Scan[q]

\* What follows the closing brace of the list that begins at j.
Remainder(p, j) == Find(p, j + 1, {CloseBrace}) + 1

\* The loop over the alternatives in braces, which begin at j in the pattern, and
\* at start in the string.  Match[k][a] says that the pattern from k on matches the
\* string from a on.  When what follows does not match after an alternative, the
\* first character of the next one is skipped with the comma.  The code then may
\* read past the end of the pattern (x = 0), and what it answers means nothing.
Alternatives(Match, s, p, j, start) ==
    LET rest == Remainder(p, j)
        List[k \in j + 1 .. Len(p) + 2] == [a \in 1 .. Len(s) + 1 |->
            LET x == At(p, k)
                skip == Find(p, k + 1, {CommaChar, CloseBrace})
            IN  CASE x = 0 -> FALSE
                  [] x = CommaChar  -> Match[rest][a] \/ List[k + 2][start]
                  [] x = CloseBrace -> Match[k + 1][a]
                  [] x \notin {0, CommaChar, CloseBrace} /\ x = At(s, a) ->
                        ~(a = Len(s) /\ rest <= Len(p)) /\ List[k + 1][a + 1]
                  [] OTHER -> At(p, skip) = CommaChar /\ List[skip + 1][start]]
    IN  List[j + 1][start]

\* lo_pattern_match(s, p), from any place in p and any in s on.
LoPatternMatch(s, p) ==
    LET Match[j \in 1 .. Len(p) + 1] == [i \in 1 .. Len(s) + 1 |->
            LET c == At(p, j)
                more == i <= Len(s)
                negated == At(p, j + 1) = Negate
                set == InSet(At(s, i), p, IF negated THEN j + 2 ELSE j + 1)
                setEnd == Find(p, set.at, {Close})
                star == Find(p, j, NotStars)
            IN  CASE c = 0 -> ~more
                  [] c = Star -> \/ star > Len(p)
                                 \/ \E a \in StarFrom(s, i, p, star) .. Len(s) : Match[star][a]
                  [] c = Single -> more /\ Match[j + 1][i + 1]
                  [] c = Open -> /\ more /\ set.ok /\ set.in # negated
                                 /\ setEnd <= Len(p) /\ Match[setEnd + 1][i + 1]
                  [] c = OpenBrace -> /\ more /\ Remainder(p, j) <= Len(p) + 1
                                      /\ Alternatives(Match, s, p, j, i)
                  [] OTHER -> more /\ c = At(s, i) /\ Match[j + 1][i + 1]]
    IN  Match[1][1]

----------------------------------------------------------------------------
(* What a pattern means: a sequence of items, each of which stands for some  *)
(* strings, and has a text.                                                  *)

Shape == [kind : {"char", "any", "star", "set", "not", "list"},
          text : Seq(Chars), alts : Seq(Seq(Chars))]

Char1(c)    == [kind |-> "char", text |-> <<c>>, alts |-> <<>>]
AnyChar     == [kind |-> "any", text |-> <<Single>>, alts |-> <<>>]
AnyString   == [kind |-> "star", text |-> <<Star>>, alts |-> <<>>]
SetOf(text) == [kind |-> "set", text |-> text, alts |-> <<>>]
NotIn(text) == [kind |-> "not", text |-> text, alts |-> <<>>]
OneOf(alts) == [kind |-> "list", text |-> <<>>, alts |-> alts]

\* How an item is written.
ItemText(it) ==
    CASE it.kind = "set"  -> <<Open>> \o it.text \o <<Close>>
      [] it.kind = "not"  -> <<Open, Negate>> \o it.text \o <<Close>>
      [] it.kind = "list" ->
            <<OpenBrace>> \o FlattenSeq([n \in DOMAIN it.alts |->
                Append(it.alts[n], IF n = Len(it.alts) THEN CloseBrace ELSE CommaChar)])
      [] it.kind \in {"char", "any", "star"} -> it.text

TextOf(items) == FlattenSeq([n \in DOMAIN items |-> ItemText(items[n])])

\* A hyphen that makes a range: not the one at the beginning.
Ranges(text, n) == n \in 2 .. Len(text) /\ text[n] = Hyphen

\* Characters and ranges: a range has a character before the hyphen, and one or the
\* end of the set behind it.  A bracket is a character at the beginning only.
SetText(text) ==
    /\ text # <<>> /\ Close \notin ToSet(Tail(text))
    /\ \A n \in DOMAIN text : Ranges(text, n) => ~Ranges(text, n + 1)

\* Can the text of the item be told from what is around it?
Spelled(it) ==
    CASE it.kind = "char" -> \E c \in Chars \ {Star, Single, Open, OpenBrace} : it = Char1(c)
      [] it.kind = "any"  -> it = AnyChar
      [] it.kind = "star" -> it = AnyString
      [] it.kind = "set"  -> SetText(it.text) /\ it.text[1] # Negate
      [] it.kind = "not"  -> SetText(it.text)
      [] it.kind = "list" -> /\ it.alts # <<>>
                             /\ \A alt \in ToSet(it.alts) :
                                   ToSet(alt) \cap {CommaChar, CloseBrace} = {}

\* Is c one of the characters of a set, in one of its ranges ("a-z denotes all
\* characters between a to z inclusive", [z-a] is "z, a and nothing in between"),
\* or not below the one with which the set ends in a hyphen?
Denotes(text, c) ==
    \E n \in DOMAIN text : ~Ranges(text, n) /\
        \/ c = text[n]
        \/ Ranges(text, n + 1) /\ text[n] < c /\ (n + 1 < Len(text) => c < text[n + 2])

\* The item stands for s from i to before k.
Takes(it, s, i, k) ==
    CASE it.kind = "char" -> k = i + 1 /\ s[i] = it.text[1]
      [] it.kind = "set"  -> k = i + 1 /\ Denotes(it.text, s[i])
      [] it.kind = "not"  -> k = i + 1 /\ ~Denotes(it.text, s[i])
      [] it.kind = "any"  -> k = i + 1
      [] it.kind = "star" -> TRUE
      [] it.kind = "list" -> SubSeq(s, i, k - 1) \in ToSet(it.alts)

\* Does the string stand for one of the strings the items stand for?
Glob(s, items) ==
    LET From[n \in 1 .. Len(items) + 1] == [i \in 1 .. Len(s) + 1 |->
            IF n > Len(items) THEN i > Len(s)
            ELSE \E k \in i .. Len(s) + 1 : Takes(items[n], s, i, k) /\ From[n + 1][k]]
    IN  From[1][1]

\* The lists in braces lo_pattern_match can read: each alternative has two
\* characters or more, they begin differently, and with characters that are
\* nowhere else in them; and something that is not a star follows, or nothing.
Readable(items) ==
    \A n \in DOMAIN items : items[n].kind = "list" =>
        /\ \A a, b \in ToSet(items[n].alts) :
              /\ Len(a) >= 2
              /\ a[1] = b[1] => a = b
              /\ a[1] \notin ToSet(Tail(b))
        /\ n < Len(items) => \E k \in n + 1 .. Len(items) : items[k].kind # "star"
=============================================================================
