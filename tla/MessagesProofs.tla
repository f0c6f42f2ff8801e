--------------------------- MODULE MessagesProofs ---------------------------
(***************************************************************************)
(* Messages, for every list of well-typed arguments and both byte orders.  *)
(*                                                                         *)
(* First sequences: what a recursive function computes, and the parts of   *)
(* a sequence that was put together from others.  Then single strings and  *)
(* arguments, to the byte; then whole messages, and what a program sees of *)
(* them; then the messages that are freed with their bundle, what the      *)
(* validation accepts, and bundles on their way.                           *)
(***************************************************************************)
EXTENDS Bundles, FiniteSetTheorems, SequenceTheorems, WellFoundedInduction, TLAPS

----------------------------------------------------------------------------
(* Recursive functions over 0 .. n *)

LEMMA Smallest ==
  ASSUME NEW T, T \subseteq Nat, T # {}
  PROVE  \E x \in T : \A y \in T : x <= y
<1>1. PICK x \in T : \A y \in T : ~(<<y, x>> \in OpToRel(<, Nat))
  BY NatLessThanWellFounded, WFMin
<1>2. \A y \in T : ~(y < x)
  BY <1>1 DEF OpToRel
<1> QED BY <1>2

\* What holds of 0, and of a place if of the one before, holds of all.  S are the
\* places of which it holds.
LEMMA ByPlace ==
  ASSUME NEW n \in Nat, NEW S, 0 \in S, \A i \in 1 .. n : i - 1 \in S => i \in S
  PROVE  \A i \in 0 .. n : i \in S
<1> DEFINE T == {i \in 0 .. n : i \notin S}
<1> SUFFICES ASSUME T # {} PROVE FALSE
  OBVIOUS
<1>1. PICK i \in T : \A j \in T : i <= j
  <2>1. T \subseteq Nat
    OBVIOUS
  <2> HIDE DEF T
  <2> QED BY <2>1, Smallest
<1>2. i # 0 /\ i - 1 \in 0 .. n /\ i \in 1 .. n
  BY <1>1
<1>3. i - 1 \in S
  BY <1>1, <1>2
<1> QED BY <1>2, <1>3

\* The steps h[1], h[2], ... lead from base through A.
Steps(h, n, A) == h \in [1 .. n -> [A -> A]]
Run(F, base, h, n, A) ==
    F \in [0 .. n -> A] /\ F[0] = base /\ \A i \in 1 .. n : F[i] = h[i][F[i - 1]]

LEMMA Iterates ==
  ASSUME NEW n \in Nat, NEW A, NEW base \in A, NEW h, Steps(h, n, A)
  PROVE  \E F : Run(F, base, h, n, A)
<1> USE DEF Steps
<1> DEFINE P(k) == \E F \in [0 .. k -> A] :
                       F[0] = base /\ \A i \in 1 .. k : F[i] = h[i][F[i - 1]]
           S == {k \in 0 .. n : P(k)}
<1>1. 0 \in S
  <2>1. [i \in 0 .. 0 |-> base] \in [0 .. 0 -> A]
    OBVIOUS
  <2>2. P(0)
    <3> WITNESS [i \in 0 .. 0 |-> base] \in [0 .. 0 -> A]
    <3> QED OBVIOUS
  <2> QED BY <2>2
<1>2. ASSUME NEW k \in 1 .. n, k - 1 \in S PROVE k \in S
  <2>1. PICK F \in [0 .. k - 1 -> A] :
               F[0] = base /\ \A i \in 1 .. k - 1 : F[i] = h[i][F[i - 1]]
    BY <1>2
  <2> DEFINE G == [i \in 0 .. k |-> IF i < k THEN F[i] ELSE h[k][F[k - 1]]]
  <2>2. k - 1 \in 0 .. k - 1 /\ \A i \in 0 .. k : i < k => i \in 0 .. k - 1
    OBVIOUS
  <2>3. h[k][F[k - 1]] \in A
    BY <2>2
  <2>4. G \in [0 .. k -> A]
    BY <2>2, <2>3
  <2>5. G[0] = base
    BY <2>1
  <2>6. ASSUME NEW i \in 1 .. k PROVE G[i] = h[i][G[i - 1]]
    <3>1. i - 1 \in 0 .. k /\ i - 1 < k /\ i \in 0 .. k
      OBVIOUS
    <3>2. G[i - 1] = F[i - 1]
      BY <3>1
    <3>3. CASE i = k
      BY <3>1, <3>2, <3>3
    <3>4. CASE i # k
      <4>1. i \in 1 .. k - 1 /\ i < k
        BY <3>4
      <4>2. G[i] = F[i]
        BY <3>1, <4>1
      <4> QED BY <2>1, <3>2, <4>1, <4>2
    <3> QED BY <3>3, <3>4
  <2> HIDE DEF G
  <2>7. P(k)
    BY <2>4, <2>5, <2>6
  <2> HIDE DEF P
  <2> QED BY <2>7
<1> HIDE DEF P
<1>3. \A i \in 0 .. n : i \in S
  <2> HIDE DEF S
  <2> QED BY <1>1, <1>2, ByPlace
<1>4. P(n)
  BY <1>3
<1> QED BY <1>4 DEF P, Run

----------------------------------------------------------------------------
(* Sequences put together, and taken apart *)

LEMMA Split ==
  ASSUME NEW V, NEW s \in Seq(V), NEW n \in 0 .. Len(s)
  PROVE  /\ SubSeq(s, 1, n) \in Seq(V) /\ Len(SubSeq(s, 1, n)) = n
         /\ From(s, n + 1) \in Seq(V) /\ Len(From(s, n + 1)) = Len(s) - n
         /\ \A i \in 1 .. n : SubSeq(s, 1, n)[i] = s[i]
         /\ \A i \in 1 .. Len(s) - n : From(s, n + 1)[i] = s[n + i]
         /\ SubSeq(s, 1, n) \o From(s, n + 1) = s
<1>1. Len(s) \in Nat /\ \A i \in 1 .. Len(s) : s[i] \in V
  OBVIOUS
<1>2. /\ SubSeq(s, 1, n) \in Seq(V) /\ Len(SubSeq(s, 1, n)) = n
      /\ \A i \in 1 .. n : SubSeq(s, 1, n)[i] = s[i]
  BY <1>1, SubSeqProperties
<1>3. /\ SubSeq(s, n + 1, Len(s)) \in Seq(V) /\ Len(SubSeq(s, n + 1, Len(s))) = Len(s) - n
      /\ \A i \in 1 .. Len(s) - n : SubSeq(s, n + 1, Len(s))[i] = s[n + i]
  BY <1>1, SubSeqProperties
<1>4. SubSeq(s, 1, n) \o SubSeq(s, n + 1, Len(s)) = SubSeq(s, 1, Len(s))
  <2>1. 1 \in 1 .. Len(s) + 1 /\ n \in 1 - 1 .. Len(s) /\ Len(s) \in n .. Len(s)
    BY <1>1
  <2> QED BY <2>1, ConcatAdjacentSubSeq
<1>5. SubSeq(s, 1, Len(s)) = s
  BY SubSeqFull
<1> QED BY <1>2, <1>3, <1>4, <1>5 DEF From

LEMMA Unsplit ==
  ASSUME NEW V, NEW s \in Seq(V), NEW r \in Seq(V)
  PROVE  /\ s \o r \in Seq(V) /\ Len(s \o r) = Len(s) + Len(r)
         /\ \A i \in 1 .. Len(s) : (s \o r)[i] = s[i]
         /\ \A i \in 1 .. Len(r) : (s \o r)[Len(s) + i] = r[i]
         /\ SubSeq(s \o r, 1, Len(s)) = s
         /\ From(s \o r, Len(s) + 1) = r
<1> DEFINE w == s \o r
<1>1. /\ w \in Seq(V) /\ Len(w) = Len(s) + Len(r) /\ Len(s) \in Nat /\ Len(r) \in Nat
      /\ \A i \in 1 .. Len(s) + Len(r) : w[i] = IF i <= Len(s) THEN s[i] ELSE r[i - Len(s)]
  BY ConcatProperties, LenProperties
<1> HIDE DEF w
<1>2. \A i \in 1 .. Len(s) : w[i] = s[i]
  BY <1>1
<1>3. \A i \in 1 .. Len(r) : w[Len(s) + i] = r[i]
  <2> TAKE i \in 1 .. Len(r)
  <2>1. Len(s) + i \in 1 .. Len(s) + Len(r) /\ ~(Len(s) + i <= Len(s)) /\ (Len(s) + i) - Len(s) = i
    BY <1>1
  <2> QED BY <1>1, <2>1
<1>4. Len(s) \in 0 .. Len(w)
  BY <1>1
<1>5. /\ SubSeq(w, 1, Len(s)) \in Seq(V) /\ Len(SubSeq(w, 1, Len(s))) = Len(s)
      /\ From(w, Len(s) + 1) \in Seq(V) /\ Len(From(w, Len(s) + 1)) = Len(w) - Len(s)
      /\ \A i \in 1 .. Len(s) : SubSeq(w, 1, Len(s))[i] = w[i]
      /\ \A i \in 1 .. Len(w) - Len(s) : From(w, Len(s) + 1)[i] = w[Len(s) + i]
  BY <1>1, <1>4, Split
<1>6. SubSeq(w, 1, Len(s)) = s
  BY <1>2, <1>5, SeqEqual
<1>7. From(w, Len(s) + 1) = r
  <2>1. Len(w) - Len(s) = Len(r)
    BY <1>1
  <2>2. \A i \in 1 .. Len(r) : From(w, Len(s) + 1)[i] = r[i]
    BY <1>3, <1>5, <2>1
  <2> QED BY <1>5, <2>1, <2>2, SeqEqual
<1> QED BY <1>1, <1>2, <1>3, <1>6, <1>7 DEF w

\* The same of bytes, as facts.
LEMMA Joined ==
  \A x, y \in Seq(Byte) :
    /\ x \o y \in Seq(Byte) /\ Len(x \o y) = Len(x) + Len(y)
    /\ Len(x) \in Nat /\ Len(y) \in Nat
    /\ \A i \in 1 .. Len(x) : (x \o y)[i] = x[i]
    /\ \A i \in 1 .. Len(y) : (x \o y)[Len(x) + i] = y[i]
    /\ SubSeq(x \o y, 1, Len(x)) = x
    /\ From(x \o y, Len(x) + 1) = y
<1> TAKE x, y \in Seq(Byte)
<1>1. Len(x) \in Nat /\ Len(y) \in Nat
  OBVIOUS
<1> QED BY <1>1, Unsplit

LEMMA Associative == \A x, y, z \in Seq(Byte) : (x \o y) \o z = x \o (y \o z)
BY ConcatAssociative

\* G has what the first elements of s are put together to, R what the others are.
Parts(s, G, R, V) ==
    /\ G \in [0 .. Len(s) -> Seq(V)] /\ R \in [0 .. Len(s) -> Seq(V)]
    /\ G[0] = <<>> /\ R[Len(s)] = <<>>
    /\ \A i \in 1 .. Len(s) : G[i] = G[i - 1] \o s[i] /\ R[i - 1] = s[i] \o R[i]
    /\ \A i \in 0 .. Len(s) : FlattenSeq(s) = G[i] \o R[i]

LEMMA Flattened ==
  ASSUME NEW V, NEW s \in Seq(Seq(V)), NEW G \in [0 .. Len(s) -> Seq(V)], G[0] = <<>>,
         \A i \in 1 .. Len(s) : G[i] = G[i - 1] \o s[i]
  PROVE  FlattenSeq(s) = G[Len(s)]
<1> DEFINE n == Len(s)
           Cond(f) == f = [i \in 1 .. n |-> IF i = 1 THEN s[i] ELSE f[i - 1] \o s[i]]
           f == CHOOSE f : Cond(f)
           g == [i \in 1 .. n |-> G[i]]
<1>1. n \in Nat /\ \A i \in 1 .. n : s[i] \in Seq(V)
  OBVIOUS
<1>2. CASE n = 0
  BY <1>2 DEF FlattenSeq
<1>3. CASE n # 0
  <2>1. \A i \in 1 .. n : g[i] = IF i = 1 THEN s[i] ELSE g[i - 1] \o s[i]
    <3> TAKE i \in 1 .. n
    <3>1. CASE i = 1
      <4>0. 1 \in 1 .. n /\ 1 - 1 = 0
        BY <1>1, <1>3
      <4>1. G[1] = G[0] \o s[1] /\ s[1] \in Seq(V)
        BY <1>1, <4>0
      <4> QED BY <3>1, <4>1, ConcatEmptySeq
    <3>2. CASE i # 1
      <4>1. i - 1 \in 1 .. n
        BY <3>2
      <4> QED BY <3>2, <4>1
    <3> QED BY <3>1, <3>2
  <2>2. Cond(g)
    <3>1. ASSUME NEW i \in 1 .. n PROVE g[i] = IF i = 1 THEN s[i] ELSE g[i - 1] \o s[i]
      BY <2>1
    <3>2. g = [i \in 1 .. n |-> g[i]]
      OBVIOUS
    <3> HIDE DEF g
    <3> QED BY <3>1, <3>2
  <2> HIDE DEF g
  <2>3. Cond(f)
    BY <2>2
  <2>4. FlattenSeq(s) = f[n]
    BY <1>3 DEF FlattenSeq
  <2> HIDE DEF f
  <2>5. \A i \in 1 .. n : f[i] = IF i = 1 THEN s[i] ELSE f[i - 1] \o s[i]
    BY <2>3
  <2> DEFINE S == {0} \cup {i \in 1 .. n : f[i] = g[i]}
  <2>6. \A i \in 1 .. n : i - 1 \in S => i \in S
    <3> SUFFICES ASSUME NEW i \in 1 .. n, i - 1 \in S PROVE f[i] = g[i]
      OBVIOUS
    <3>1. CASE i = 1
      BY <2>1, <2>5, <3>1
    <3>2. CASE i # 1
      BY <2>1, <2>5, <3>2
    <3> QED BY <3>1, <3>2
  <2>7. \A i \in 0 .. n : i \in S
    <3>1. 0 \in S
      OBVIOUS
    <3> HIDE DEF S
    <3> QED BY <1>1, <2>6, <3>1, ByPlace
  <2>8. f[n] = g[n]
    BY <1>1, <1>3, <2>7
  <2> QED BY <1>1, <1>3, <2>4, <2>8 DEF g
<1> QED BY <1>2, <1>3

LEMMA PartsExist ==
  ASSUME NEW V, NEW s \in Seq(Seq(V))
  PROVE  \E G, R : Parts(s, G, R, V)
<1> DEFINE n == Len(s)
           front == [i \in 1 .. n |-> [x \in Seq(V) |-> x \o s[i]]]
           back  == [i \in 1 .. n |-> [x \in Seq(V) |-> s[n + 1 - i] \o x]]
<1>1. n \in Nat /\ (\A i \in 1 .. n : s[i] \in Seq(V)) /\ <<>> \in Seq(V)
  OBVIOUS
<1>2. \E F \in [0 .. n -> Seq(V)] : F[0] = <<>> /\ \A i \in 1 .. n : F[i] = F[i - 1] \o s[i]
  <2>1. front \in [1 .. n -> [Seq(V) -> Seq(V)]]
    BY <1>1
  <2>2. \A i \in 1 .. n : \A x \in Seq(V) : front[i][x] = x \o s[i]
    OBVIOUS
  <2> HIDE DEF front, n
  <2>3. PICK F \in [0 .. n -> Seq(V)] :
               F[0] = <<>> /\ \A i \in 1 .. n : F[i] = front[i][F[i - 1]]
    <3>1. Steps(front, n, Seq(V))
      BY <2>1 DEF Steps
    <3>2. \E F : Run(F, <<>>, front, n, Seq(V))
      BY <1>1, <3>1, Iterates
    <3> QED BY <3>2 DEF Run
  <2>4. \A i \in 1 .. n : i - 1 \in 0 .. n
    BY <1>1
  <2> QED BY <2>2, <2>3, <2>4
<1>3. \E F \in [0 .. n -> Seq(V)] :
         F[0] = <<>> /\ \A i \in 1 .. n : F[i] = s[n + 1 - i] \o F[i - 1]
  <2>0. \A i \in 1 .. n : n + 1 - i \in 1 .. n
    BY <1>1
  <2>1. back \in [1 .. n -> [Seq(V) -> Seq(V)]]
    <3> SUFFICES ASSUME NEW i \in 1 .. n, NEW x \in Seq(V) PROVE s[n + 1 - i] \o x \in Seq(V)
      OBVIOUS
    <3>1. s[n + 1 - i] \in Seq(V)
      BY <1>1, <2>0
    <3> QED BY <3>1, ConcatProperties
  <2>2. \A i \in 1 .. n : \A x \in Seq(V) : back[i][x] = s[n + 1 - i] \o x
    OBVIOUS
  <2> HIDE DEF back, n
  <2>3. PICK F \in [0 .. n -> Seq(V)] :
               F[0] = <<>> /\ \A i \in 1 .. n : F[i] = back[i][F[i - 1]]
    <3>1. Steps(back, n, Seq(V))
      BY <2>1 DEF Steps
    <3>2. \E F : Run(F, <<>>, back, n, Seq(V))
      BY <1>1, <3>1, Iterates
    <3> QED BY <3>2 DEF Run
  <2>4. \A i \in 1 .. n : i - 1 \in 0 .. n
    BY <1>1
  <2> QED BY <2>2, <2>3, <2>4
<1>4. PICK G \in [0 .. n -> Seq(V)] : G[0] = <<>> /\ \A i \in 1 .. n : G[i] = G[i - 1] \o s[i]
  BY <1>2
<1>5. PICK F \in [0 .. n -> Seq(V)] :
             F[0] = <<>> /\ \A i \in 1 .. n : F[i] = s[n + 1 - i] \o F[i - 1]
  BY <1>3
<1> DEFINE R == [i \in 0 .. n |-> F[n - i]]
<1> HIDE DEF n
<1>6. /\ R \in [0 .. n -> Seq(V)] /\ R[n] = <<>>
      /\ \A i \in 1 .. n : R[i - 1] = s[i] \o R[i]
  <2>1. \A i \in 0 .. n : n - i \in 0 .. n
    BY <1>1
  <2>2. n \in 0 .. n /\ n - n = 0
    BY <1>1
  <2>3. ASSUME NEW i \in 1 .. n PROVE R[i - 1] = s[i] \o R[i]
    <3>1. /\ n + 1 - i \in 1 .. n /\ n + 1 - (n + 1 - i) = i /\ (n + 1 - i) - 1 = n - i
          /\ n - (i - 1) = n + 1 - i /\ i - 1 \in 0 .. n /\ i \in 0 .. n
      BY <1>1
    <3>2. F[n + 1 - i] = s[n + 1 - (n + 1 - i)] \o F[(n + 1 - i) - 1]
      BY <1>5, <3>1
    <3> QED BY <3>1, <3>2
  <2> QED BY <1>5, <2>1, <2>2, <2>3
<1> HIDE DEF R
<1> DEFINE S == {i \in 0 .. n : G[i] \o R[i] = R[0]}
<1>7. \A i \in 0 .. n : i \in S
  <2>1. 0 \in S
    <3>1. 0 \in 0 .. n
      BY <1>1
    <3>2. R[0] \in Seq(V)
      BY <1>6, <3>1
    <3> QED BY <1>4, <3>1, <3>2, ConcatEmptySeq
  <2>2. \A i \in 1 .. n : i - 1 \in S => i \in S
    <3> SUFFICES ASSUME NEW i \in 1 .. n, i - 1 \in S PROVE i \in S
      OBVIOUS
    <3>1. i \in 0 .. n /\ i - 1 \in 0 .. n
      BY <1>1
    <3>2. G[i - 1] \in Seq(V) /\ s[i] \in Seq(V) /\ R[i] \in Seq(V)
      BY <1>1, <1>4, <1>6, <3>1
    <3>3. \A x, y, z \in Seq(V) : (x \o y) \o z = x \o (y \o z)
      BY ConcatAssociative
    <3>4. (G[i - 1] \o s[i]) \o R[i] = G[i - 1] \o (s[i] \o R[i])
      BY <3>2, <3>3
    <3> QED BY <1>4, <1>6, <3>1, <3>4
  <2> HIDE DEF S
  <2> QED BY <1>1, <2>1, <2>2, ByPlace
<1>8. FlattenSeq(s) = R[0]
  <2>1. FlattenSeq(s) = G[n]
    BY <1>4, Flattened DEF n
  <2>2. n \in 0 .. n
    BY <1>1
  <2>3. G[n] \in Seq(V)
    BY <1>4, <2>2
  <2>4. G[n] \o R[n] = R[0]
    BY <1>7, <2>2
  <2> QED BY <1>6, <2>1, <2>3, <2>4, ConcatEmptySeq
<1>9. Parts(s, G, R, V)
  BY <1>4, <1>6, <1>7, <1>8 DEF Parts, n
<1> QED BY <1>9

----------------------------------------------------------------------------
(* Strings *)

LEMMA PaddedSizeFacts ==
  ASSUME NEW n \in Nat
  PROVE  PaddedSize(n) \in Nat /\ PaddedSize(n) - n \in 1 .. 4
BY DEF PaddedSize

LEMMA ZerosFacts ==
  ASSUME NEW n \in Nat
  PROVE  Zeros(n) \in Seq(Byte) /\ Len(Zeros(n)) = n /\ \A i \in 1 .. n : Zeros(n)[i] = Nul
<1>1. Zeros(n) \in [1 .. n -> Byte]
  BY DEF Zeros, Byte, Nul
<1> QED BY <1>1 DEF Zeros

LEMMA PaddedFacts ==
  ASSUME NEW s \in Seq(Byte), NEW n \in Nat, Len(s) <= n
  PROVE  /\ Padded(s, n) \in Seq(Byte) /\ Len(Padded(s, n)) = n
         /\ \A i \in 1 .. Len(s) : Padded(s, n)[i] = s[i]
         /\ \A i \in Len(s) + 1 .. n : Padded(s, n)[i] = Nul
<1> DEFINE z == Zeros(n - Len(s))
<1>1. n - Len(s) \in Nat /\ Len(s) \in Nat
  OBVIOUS
<1>2. z \in Seq(Byte) /\ Len(z) = n - Len(s) /\ \A i \in 1 .. n - Len(s) : z[i] = Nul
  BY <1>1, ZerosFacts
<1> HIDE DEF z
<1>3. /\ s \o z \in Seq(Byte) /\ Len(s \o z) = Len(s) + Len(z)
      /\ \A i \in 1 .. Len(s) : (s \o z)[i] = s[i]
      /\ \A i \in 1 .. Len(z) : (s \o z)[Len(s) + i] = z[i]
  BY <1>2, Unsplit
<1>4. \A i \in Len(s) + 1 .. n : (s \o z)[i] = Nul
  <2> TAKE i \in Len(s) + 1 .. n
  <2>1. i - Len(s) \in 1 .. n - Len(s) /\ Len(s) + (i - Len(s)) = i
    BY <1>1
  <2> QED BY <1>2, <1>3, <2>1
<1>5. Padded(s, n) = s \o z
  BY DEF Padded, z
<1>6. Len(s) + Len(z) = n
  BY <1>1, <1>2
<1> QED BY <1>3, <1>4, <1>5, <1>6

\* strlen finds the first zero.
LEMMA StrLenIs ==
  ASSUME NEW b \in Seq(Byte), NEW n \in Nat, n < Len(b), b[n + 1] = Nul,
         \A i \in 1 .. n : b[i] # Nul
  PROVE  StrLen(b) = n
<1> DEFINE I == {i \in 1 .. Len(b) : b[i] = Nul}
<1>1. n + 1 \in I /\ \A i \in I : n + 1 <= i
  OBVIOUS
<1>2. I \subseteq Nat
  OBVIOUS
<1>3. SelectInSeq(b, LAMBDA x : x = Nul) = IF I # {} THEN Min(I) ELSE 0
  BY DEF SelectInSeq
<1> HIDE DEF I
<1>4. Min(I) = n + 1
  <2>1. Min(I) \in I /\ \A i \in I : Min(I) <= i
    BY <1>1 DEF Min
  <2>2. Min(I) \in Nat /\ n + 1 <= Min(I) /\ Min(I) <= n + 1
    BY <1>1, <1>2, <2>1
  <2> QED BY <2>2
<1> QED BY <1>1, <1>3, <1>4 DEF StrLen

LEMMA StrLenFacts ==
  ASSUME NEW b \in Seq(Byte)
  PROVE  \/ StrLen(b) = -1
         \/ /\ StrLen(b) \in 0 .. Len(b) - 1 /\ b[StrLen(b) + 1] = Nul
            /\ \A i \in 1 .. StrLen(b) : b[i] # Nul
<1> DEFINE I == {i \in 1 .. Len(b) : b[i] = Nul}
<1>1. SelectInSeq(b, LAMBDA x : x = Nul) = IF I # {} THEN Min(I) ELSE 0
  BY DEF SelectInSeq
<1>2. CASE I = {}
  <2> HIDE DEF I
  <2>1. StrLen(b) = 0 - 1
    BY <1>1, <1>2 DEF StrLen
  <2> QED BY <2>1
<1>3. CASE I # {}
  <2>1. I \subseteq Nat
    OBVIOUS
  <2>2. PICK m \in I : \A j \in I : m <= j
    <3> HIDE DEF I
    <3> QED BY <1>3, <2>1, Smallest
  <2>3. m - 1 \in Nat /\ m - 1 < Len(b) /\ b[(m - 1) + 1] = Nul
    BY <2>2
  <2>4. \A i \in 1 .. m - 1 : b[i] # Nul
    BY <2>2
  <2>5. StrLen(b) = m - 1
    BY <2>3, <2>4, StrLenIs
  <2>6. m - 1 \in 0 .. Len(b) - 1
    BY <2>3
  <2> HIDE DEF I
  <2> QED BY <2>3, <2>4, <2>5, <2>6
<1> QED BY <1>2, <1>3

\* Strings have no terminator inside.
Text == {s \in Seq(Byte) : \A i \in DOMAIN s : s[i] # Nul}

LEMMA PaddedStringFacts ==
  ASSUME NEW s \in Text, NEW r \in Seq(Byte)
  PROVE  /\ PaddedString(s) \in Seq(Byte) /\ Len(PaddedString(s)) = PaddedSize(Len(s))
         /\ StrLen(PaddedString(s) \o r) = Len(s)
         /\ ValidateString(PaddedString(s) \o r) = PaddedSize(Len(s))
         /\ SubSeq(PaddedString(s) \o r, 1, Len(s)) = s
         /\ From(PaddedString(s) \o r, PaddedSize(Len(s)) + 1) = r
<1> DEFINE p == PaddedString(s)
           n == Len(s)
           m == PaddedSize(n)
           w == p \o r
<1>1. s \in Seq(Byte) /\ n \in Nat /\ (\A i \in 1 .. n : s[i] # Nul) /\ m \in Nat /\ m - n \in 1 .. 4
  <2>1. s \in Seq(Byte) /\ n \in Nat /\ \A i \in 1 .. n : s[i] # Nul
    BY DEF Text
  <2> HIDE DEF n
  <2> QED BY <2>1, PaddedSizeFacts
<1> HIDE DEF m
<1>2. n <= m /\ n < m
  BY <1>1
<1>3. p = Padded(s, m)
  BY DEF PaddedString, m
<1>4. /\ p \in Seq(Byte) /\ Len(p) = m
      /\ (\A i \in 1 .. n : p[i] = s[i]) /\ (\A i \in n + 1 .. m : p[i] = Nul)
  BY <1>1, <1>2, <1>3, PaddedFacts
<1> HIDE DEF p
<1>5. /\ w \in Seq(Byte) /\ Len(w) = m + Len(r) /\ (\A i \in 1 .. m : w[i] = p[i])
      /\ From(w, m + 1) = r
  BY <1>4, Unsplit
<1> HIDE DEF w
<1>6. Len(r) \in Nat
  OBVIOUS
<1>7. n < Len(w) /\ m <= Len(w) /\ n \in 0 .. Len(w)
  BY <1>1, <1>2, <1>5, <1>6
<1>8. (\A i \in 1 .. n : w[i] = s[i]) /\ (\A i \in n + 1 .. m : w[i] = Nul)
  <2>1. (\A i \in 1 .. n : i \in 1 .. m) /\ (\A i \in n + 1 .. m : i \in 1 .. m)
    BY <1>1, <1>2
  <2> QED BY <1>4, <1>5, <2>1
<1>9. StrLen(w) = n
  <2>1. n + 1 \in n + 1 .. m
    BY <1>1
  <2>2. w[n + 1] = Nul /\ \A i \in 1 .. n : w[i] # Nul
    BY <1>1, <1>8, <2>1
  <2> HIDE DEF n
  <2> QED BY <1>1, <1>5, <1>7, <2>2, StrLenIs
<1>10. ValidateString(w) = m
  <2>1. Terminated(w, n, m)
    BY <1>1, <1>7, <1>8 DEF Terminated
  <2>2. PaddedSize(n) = m
    BY DEF m
  <2> QED BY <1>9, <2>1, <2>2 DEF ValidateString
<1>11. SubSeq(w, 1, n) = s
  <2>1. /\ SubSeq(w, 1, n) \in Seq(Byte) /\ Len(SubSeq(w, 1, n)) = n
        /\ \A i \in 1 .. n : SubSeq(w, 1, n)[i] = w[i]
    BY <1>5, <1>7, Split
  <2>2. \A i \in 1 .. n : SubSeq(w, 1, n)[i] = s[i]
    BY <1>8, <2>1
  <2> QED BY <1>1, <2>1, <2>2, SeqEqual
<1> QED BY <1>4, <1>5, <1>9, <1>10, <1>11 DEF w, m, p

----------------------------------------------------------------------------
(* Byte order *)

LEMMA ReverseFacts ==
  ASSUME NEW V, NEW s \in Seq(V)
  PROVE  /\ Reverse(s) \in Seq(V) /\ Len(Reverse(s)) = Len(s)
         /\ Reverse(Reverse(s)) = s
<1> DEFINE n == Len(s)
<1>1. n \in Nat /\ s \in [1 .. n -> V] /\ \A i \in 1 .. n : (n - i) + 1 \in 1 .. n
  OBVIOUS
<1>2. Reverse(s) = [i \in 1 .. n |-> s[(n - i) + 1]]
  BY DEF Reverse
<1>3. Reverse(s) \in [1 .. n -> V]
  BY <1>1, <1>2
<1>4. Reverse(s) \in Seq(V) /\ Len(Reverse(s)) = n
  BY <1>1, <1>3
<1>5. Reverse(Reverse(s)) = [i \in 1 .. n |-> Reverse(s)[(n - i) + 1]]
  BY <1>4 DEF Reverse
<1>6. \A i \in 1 .. n : Reverse(Reverse(s))[i] = s[i]
  <2> TAKE i \in 1 .. n
  <2>1. Reverse(s)[(n - i) + 1] = s[(n - ((n - i) + 1)) + 1]
    BY <1>1, <1>2
  <2>2. (n - ((n - i) + 1)) + 1 = i
    BY <1>1
  <2> QED BY <1>5, <2>1, <2>2
<1>7. Reverse(Reverse(s)) = [i \in 1 .. n |-> Reverse(Reverse(s))[i]]
  BY <1>5
<1>8. s = [i \in 1 .. n |-> s[i]]
  BY <1>1
<1> QED BY <1>4, <1>6, <1>7, <1>8

LEMMA Swap32Facts ==
  ASSUME NEW h, NEW b \in Seq(Byte)
  PROVE  /\ Swap32(h, b) \in Seq(Byte) /\ Len(Swap32(h, b)) = Len(b)
         /\ Swap32(h, Swap32(h, b)) = b
BY ReverseFacts DEF Swap32

LEMMA Swap64Facts ==
  ASSUME NEW h, NEW b \in Seq(Byte), Len(b) = 8
  PROVE  /\ Swap64(h, b) \in Seq(Byte) /\ Len(Swap64(h, b)) = 8
         /\ Swap64(h, Swap64(h, b)) = b
<1> DEFINE x == SubSeq(b, 1, 4)
           y == SubSeq(b, 5, 8)
           c == Swap64(h, b)
<1>1. /\ x \in Seq(Byte) /\ Len(x) = 4 /\ y \in Seq(Byte) /\ Len(y) = 4 /\ x \o y = b
  <2>1. 4 \in 0 .. Len(b) /\ 4 + 1 = 5 /\ Len(b) - 4 = 4
    OBVIOUS
  <2>2. /\ SubSeq(b, 1, 4) \in Seq(Byte) /\ Len(SubSeq(b, 1, 4)) = 4
        /\ From(b, 4 + 1) \in Seq(Byte) /\ Len(From(b, 4 + 1)) = Len(b) - 4
        /\ SubSeq(b, 1, 4) \o From(b, 4 + 1) = b
    BY <2>1, Split
  <2>3. From(b, 4 + 1) = SubSeq(b, 5, 8)
    BY <2>1 DEF From
  <2> QED BY <2>1, <2>2, <2>3
<1>2. c = Swap32(h, y) \o Swap32(h, x)
  BY DEF Swap64
<1>3. Swap64(h, c) = Swap32(h, SubSeq(c, 5, 8)) \o Swap32(h, SubSeq(c, 1, 4))
  BY DEF Swap64
<1> HIDE DEF x, y, c
<1>4. /\ Swap32(h, x) \in Seq(Byte) /\ Len(Swap32(h, x)) = 4 /\ Swap32(h, Swap32(h, x)) = x
      /\ Swap32(h, y) \in Seq(Byte) /\ Len(Swap32(h, y)) = 4 /\ Swap32(h, Swap32(h, y)) = y
  BY <1>1, Swap32Facts
<1>5. /\ c \in Seq(Byte) /\ Len(c) = 4 + 4
      /\ SubSeq(c, 1, 4) = Swap32(h, y) /\ From(c, 4 + 1) = Swap32(h, x)
  <2> DEFINE u == Swap32(h, y)
             v == Swap32(h, x)
  <2>1. u \in Seq(Byte) /\ v \in Seq(Byte) /\ Len(u) = 4 /\ Len(v) = 4
    BY <1>4
  <2> HIDE DEF u, v
  <2>2. /\ u \o v \in Seq(Byte) /\ Len(u \o v) = Len(u) + Len(v)
        /\ SubSeq(u \o v, 1, Len(u)) = u /\ From(u \o v, Len(u) + 1) = v
    BY <2>1, Unsplit
  <2>3. c = u \o v
    BY <1>2 DEF u, v
  <2> QED BY <2>1, <2>2, <2>3 DEF u, v
<1>6. Len(c) = 8 /\ SubSeq(c, 5, 8) = Swap32(h, x)
  BY <1>5 DEF From
<1>7. Swap64(h, c) = b
  BY <1>1, <1>3, <1>4, <1>5, <1>6
<1> QED BY <1>5, <1>6, <1>7 DEF c

\* The size of a blob, written and read.
LEMMA NumberOfNetwork ==
  ASSUME NEW n \in 0 .. MaxSize, NEW r \in Seq(Byte)
  PROVE  /\ Network(n) \in Seq(Byte) /\ Len(Network(n)) = 4
         /\ Number(Network(n) \o r) = n /\ Number(Network(n)) = n
<1>1. n \div 256 \in Byte /\ n % 256 \in Byte /\ 256 * (n \div 256) + (n % 256) = n
  BY DEF MaxSize, Byte
<1>2. 0 \in Byte
  BY DEF Byte
<1> DEFINE q == n \div 256
           m == n % 256
<1> HIDE DEF q, m
<1>3. Network(n) = <<0, 0, q, m>>
  BY DEF Network, q, m
<1>4. <<0, 0, q, m>> \in Seq(Byte) /\ Len(<<0, 0, q, m>>) = 4
  BY <1>1, <1>2 DEF q, m
<1>5. \A i \in 1 .. 4 : (<<0, 0, q, m>> \o r)[i] = <<0, 0, q, m>>[i]
  <2> DEFINE f == <<0, 0, q, m>>
  <2>1. f \in Seq(Byte) /\ Len(f) = 4
    BY <1>4
  <2> HIDE DEF f
  <2>2. \A i \in 1 .. Len(f) : (f \o r)[i] = f[i]
    BY <2>1, Unsplit
  <2>3. \A i \in 1 .. 4 : (f \o r)[i] = f[i]
    BY <2>1, <2>2
  <2> QED BY <2>3 DEF f
<1>6. LET b == <<0, 0, q, m>> \o r
      IN  b[1] = 0 /\ b[2] = 0 /\ b[3] = q /\ b[4] = m
  BY <1>5
<1>7. 256 * q + m = n /\ ~(256 * q + m > MaxSize)
  BY <1>1 DEF q, m, MaxSize
<1>8. Number(<<0, 0, q, m>> \o r) = n
  BY <1>6, <1>7 DEF Number
<1>9. Number(<<0, 0, q, m>>) = n
  BY <1>7 DEF Number
<1> QED BY <1>3, <1>4, <1>8, <1>9

----------------------------------------------------------------------------
(* Single arguments *)

Given == {a \in [type : Types, val : Seq(Byte)] : WellTyped(a)}

\* What an argument is in memory, and on the way.
Stored(h, a) == IF a.type \in Empty THEN <<>> ELSE ArgBytes(h, a)
OnWire(h, a) == NetworkEndian(h, a.type, Stored(h, a))

\* What all types have in common: stored, sent, validated and stored again an
\* argument is what it was, whatever follows it.
Faithful(h, a) ==
    /\ Stored(h, a) \in Seq(Byte) /\ OnWire(h, a) \in Seq(Byte)
    /\ Len(OnWire(h, a)) = Len(Stored(h, a))
    /\ HostEndian(h, a.type, OnWire(h, a)) = Stored(h, a)
    /\ \A r \in Seq(Byte) : /\ ArgSize(h, a.type, Stored(h, a) \o r) = Len(Stored(h, a))
                            /\ ValidateArg(a.type, OnWire(h, a) \o r) = Len(Stored(h, a))

\* Another host stores what it would have stored itself.
Understood(g, h, a) == HostEndian(g, a.type, OnWire(h, a)) = Stored(g, a)

LEMMA AtLeastFacts ==
  ASSUME NEW w \in Seq(Byte), NEW r \in Seq(Byte)
  PROVE  AtLeast(Len(w), w \o r) = Len(w)
<1>1. Len(w \o r) = Len(w) + Len(r) /\ Len(w) \in Nat /\ Len(r) \in Nat
  BY Unsplit
<1>2. Len(w \o r) >= Len(w)
  BY <1>1
<1> QED BY <1>2 DEF AtLeast

LEMMA EmptyArg ==
  ASSUME NEW h, NEW g, NEW a \in Given, a.type \in Empty
  PROVE  Faithful(h, a) /\ Understood(g, h, a)
<1>1. /\ a.type \notin Words \cup LongWords \cup {Blob}
      /\ Stored(h, a) = <<>> /\ Stored(g, a) = <<>>
  BY DEF Empty, Words, LongWords, Blob, True, False, Nil, Infinitum, Int32, Float, Char,
         Int64, Timetag, Double, Stored
<1>2. \A x, b : HostEndian(x, a.type, b) = b
  BY <1>1 DEF HostEndian
<1>3. OnWire(h, a) = <<>>
  BY <1>1, <1>2 DEF OnWire, NetworkEndian
<1>4. \A b : ArgSize(h, a.type, b) = 0 /\ ValidateArg(a.type, b) = 0
  BY <1>1 DEF ArgSize, ValidateArg, Empty, Words, LongWords, Strings, Blob, Midi, True, False, Nil,
              Infinitum, Int32, Float, Char, Int64, Timetag, Double, String, Symbol
<1>5. <<>> \in Seq(Byte) /\ Len(<<>>) = 0
  OBVIOUS
<1> QED BY <1>1, <1>2, <1>3, <1>4, <1>5 DEF Faithful, Understood

LEMMA MidiArg ==
  ASSUME NEW h, NEW g, NEW a \in Given, a.type = Midi
  PROVE  Faithful(h, a) /\ Understood(g, h, a)
<1>1. a.val \in Seq(Byte) /\ Len(a.val) = 4
  BY DEF Given, WellTyped
<1>2. a.type \notin Words \cup LongWords \cup Empty \cup Strings \cup {Blob, Char}
  BY DEF Empty, Words, LongWords, Strings, Blob, Midi, True, False, Nil, Infinitum, Int32, Float, Char,
         Int64, Timetag, Double, String, Symbol
<1>3. \A x : Stored(x, a) = a.val
  BY <1>2 DEF Stored, ArgBytes
<1>4. \A x, b : HostEndian(x, a.type, b) = b
  BY <1>2 DEF HostEndian
<1>5. OnWire(h, a) = a.val
  BY <1>3, <1>4 DEF OnWire, NetworkEndian
<1>6. \A b : ArgSize(h, a.type, b) = 4 /\ ValidateArg(a.type, b) = AtLeast(4, b)
  BY <1>2 DEF ArgSize, ValidateArg
<1>7. \A r \in Seq(Byte) : AtLeast(4, a.val \o r) = 4
  BY <1>1, AtLeastFacts
<1> QED BY <1>1, <1>3, <1>4, <1>5, <1>6, <1>7 DEF Faithful, Understood

\* A char lies in the first byte of its word, whatever the host.
CharWord(a) == <<a.val[4]>> \o SubSeq(a.val, 1, 3)

LEMMA WordArg ==
  ASSUME NEW h, NEW g, NEW a \in Given, a.type \in Words
  PROVE  Faithful(h, a) /\ (a.type # Char => Understood(g, h, a))
<1>1. a.val \in Seq(Byte) /\ Len(a.val) = 4
  BY DEF Given, WellTyped
<1>2. a.type \notin LongWords \cup Empty \cup Strings \cup {Blob, Midi}
  BY DEF Empty, Words, LongWords, Strings, Blob, Midi, True, False, Nil, Infinitum, Int32, Float, Char,
         Int64, Timetag, Double, String, Symbol
<1>3. /\ \A x : a.type # Char => Stored(x, a) = Swap32(x, a.val)
      /\ \A x : a.type = Char => Stored(x, a) = CharWord(a)
  BY <1>2 DEF Stored, ArgBytes, Swap32, CharWord, Char
<1>4. \A x, b : HostEndian(x, a.type, b) = Swap32(x, b)
  BY <1>2 DEF HostEndian
<1>5. CharWord(a) \in Seq(Byte) /\ Len(CharWord(a)) = 4
  <2>1. 3 \in 0 .. Len(a.val) /\ 4 \in 1 .. Len(a.val)
    BY <1>1
  <2>2. SubSeq(a.val, 1, 3) \in Seq(Byte) /\ Len(SubSeq(a.val, 1, 3)) = 3
    BY <1>1, <2>1, Split
  <2>3. <<a.val[4]>> \in Seq(Byte) /\ Len(<<a.val[4]>>) = 1
    BY <1>1, <2>1
  <2> DEFINE x == <<a.val[4]>>
             y == SubSeq(a.val, 1, 3)
  <2>4. x \in Seq(Byte) /\ Len(x) = 1 /\ y \in Seq(Byte) /\ Len(y) = 3
    BY <2>2, <2>3
  <2> HIDE DEF x, y
  <2>5. x \o y \in Seq(Byte) /\ Len(x \o y) = Len(x) + Len(y)
    BY <2>4, Unsplit
  <2> QED BY <2>4, <2>5 DEF CharWord, x, y
<1>6. \A x : Stored(x, a) \in Seq(Byte) /\ Len(Stored(x, a)) = 4
  BY <1>1, <1>3, <1>5, Swap32Facts
<1> DEFINE b == Stored(h, a)
           w == OnWire(h, a)
<1>7. w = Swap32(h, b)
  BY <1>4 DEF OnWire, NetworkEndian
<1>8. b \in Seq(Byte) /\ Len(b) = 4
  BY <1>6
<1> HIDE DEF b, w
<1>9. w \in Seq(Byte) /\ Len(w) = 4 /\ Swap32(h, w) = b
  BY <1>7, <1>8, Swap32Facts
<1>10. \A x : ArgSize(h, a.type, x) = 4 /\ ValidateArg(a.type, x) = AtLeast(4, x)
  BY <1>2 DEF ArgSize, ValidateArg
<1>11. \A r \in Seq(Byte) : AtLeast(4, w \o r) = 4
  BY <1>9, AtLeastFacts
<1>12. Faithful(h, a)
  BY <1>4, <1>8, <1>9, <1>10, <1>11 DEF Faithful, b, w
<1>13. ASSUME a.type # Char PROVE Understood(g, h, a)
  <2>1. b = Swap32(h, a.val)
    BY <1>3, <1>13 DEF b
  <2>2. w = a.val
    BY <1>1, <1>7, <2>1, Swap32Facts
  <2> QED BY <1>3, <1>4, <1>13, <2>2 DEF Understood, w
<1> QED BY <1>12, <1>13

LEMMA LongWordArg ==
  ASSUME NEW h, NEW a \in Given, a.type \in LongWords
  PROVE  Faithful(h, a)
<1>1. a.val \in Seq(Byte) /\ Len(a.val) = 8
  BY DEF Given, WellTyped
<1>2. a.type \notin Words \cup Empty \cup Strings \cup {Blob, Midi, Char}
  BY DEF Empty, Words, LongWords, Strings, Blob, Midi, True, False, Nil, Infinitum, Int32, Float, Char,
         Int64, Timetag, Double, String, Symbol
<1>3. Stored(h, a) = Swap32(h, a.val)
  BY <1>2 DEF Stored, ArgBytes, Swap32
<1>4. \A x, b : HostEndian(x, a.type, b) = Swap64(x, b)
  BY <1>2 DEF HostEndian
<1> DEFINE b == Stored(h, a)
           w == OnWire(h, a)
<1>5. b \in Seq(Byte) /\ Len(b) = 8
  BY <1>1, <1>3, Swap32Facts
<1>6. w = Swap64(h, b)
  BY <1>4 DEF OnWire, NetworkEndian
<1> HIDE DEF b, w
<1>7. w \in Seq(Byte) /\ Len(w) = 8 /\ Swap64(h, w) = b
  BY <1>5, <1>6, Swap64Facts
<1>8. \A x : ArgSize(h, a.type, x) = 8 /\ ValidateArg(a.type, x) = AtLeast(8, x)
  BY <1>2 DEF ArgSize, ValidateArg
<1>9. \A r \in Seq(Byte) : AtLeast(8, w \o r) = 8
  BY <1>7, AtLeastFacts
<1> QED BY <1>4, <1>5, <1>7, <1>8, <1>9 DEF Faithful, b, w

LEMMA StringArg ==
  ASSUME NEW h, NEW g, NEW a \in Given, a.type \in Strings
  PROVE  Faithful(h, a) /\ Understood(g, h, a)
<1>1. a.val \in Text
  BY DEF Given, WellTyped, Text
<1>2. a.type \notin Words \cup Empty \cup LongWords \cup {Blob, Midi, Char}
  BY DEF Empty, Words, LongWords, Strings, Blob, Midi, True, False, Nil, Infinitum, Int32, Float, Char,
         Int64, Timetag, Double, String, Symbol
<1> DEFINE p == PaddedString(a.val)
<1>3. \A x : Stored(x, a) = p
  BY <1>2 DEF Stored, ArgBytes, PaddedString
<1>4. \A x, b : HostEndian(x, a.type, b) = b
  BY <1>2 DEF HostEndian
<1>5. OnWire(h, a) = p
  BY <1>3, <1>4 DEF OnWire, NetworkEndian
<1>6. \A x : /\ ArgSize(h, a.type, x) = PaddedSize(StrLen(x))
             /\ ValidateArg(a.type, x) = ValidateString(x)
  BY <1>2 DEF ArgSize, ValidateArg
<1> HIDE DEF p
<1>7. /\ p \in Seq(Byte) /\ Len(p) = PaddedSize(Len(a.val))
      /\ \A r \in Seq(Byte) : StrLen(p \o r) = Len(a.val) /\ ValidateString(p \o r) = Len(p)
  <2>1. <<>> \in Seq(Byte)
    OBVIOUS
  <2> QED BY <1>1, <2>1, PaddedStringFacts DEF p
<1> QED BY <1>3, <1>4, <1>5, <1>6, <1>7 DEF Faithful, Understood

\* The data of a blob behind its size.
BlobTail(a) == a.val \o Zeros(PaddedSize(4 + Len(a.val)) - (4 + Len(a.val)))

LEMMA BlobTailFacts ==
  ASSUME NEW a \in Given, a.type = Blob
  PROVE  /\ Len(a.val) \in 0 .. MaxSize
         /\ BlobTail(a) \in Seq(Byte)
         /\ 4 + Len(BlobTail(a)) = PaddedSize(4 + Len(a.val))
         /\ Len(a.val) < Len(BlobTail(a))
         /\ \A i \in Len(a.val) + 1 .. Len(BlobTail(a)) : BlobTail(a)[i] = Nul
         /\ \A x : Stored(x, a) = Swap32(x, Network(Len(a.val))) \o BlobTail(a)
<1> DEFINE n == Len(a.val)
           m == PaddedSize(4 + n)
           z == Zeros(m - (4 + n))
           s == a.val
<1>1. s \in Seq(Byte) /\ n \in 0 .. MaxSize /\ n \in Nat
  BY DEF Given, WellTyped
<1>2. m \in Nat /\ m - (4 + n) \in 1 .. 4
  <2>1. 4 + n \in Nat
    BY <1>1
  <2> HIDE DEF n
  <2> QED BY <2>1, PaddedSizeFacts
<1> HIDE DEF m
<1>3. z \in Seq(Byte) /\ Len(z) = m - (4 + n) /\ \A i \in 1 .. Len(z) : z[i] = Nul
  <2>1. m - (4 + n) \in Nat
    BY <1>2
  <2> QED BY <2>1, ZerosFacts
<1> HIDE DEF z
<1>4. s \o z \in Seq(Byte) /\ Len(s \o z) = n + Len(z)
      /\ \A i \in 1 .. Len(z) : (s \o z)[n + i] = z[i]
  BY <1>1, <1>3, Unsplit
<1>5. BlobTail(a) = s \o z
  BY DEF BlobTail, m, z
<1>6. \A i \in n + 1 .. Len(s \o z) : (s \o z)[i] = Nul
  <2> TAKE i \in n + 1 .. Len(s \o z)
  <2>1. i - n \in 1 .. Len(z) /\ n + (i - n) = i
    BY <1>1, <1>2, <1>3, <1>4
  <2> QED BY <1>3, <1>4, <2>1
<1>7. ASSUME NEW x PROVE Stored(x, a) = Swap32(x, Network(n)) \o (s \o z)
  <2> DEFINE b == Swap32(x, Network(n))
  <2>1. Network(n) \in Seq(Byte) /\ Len(Network(n)) = 4
    <3>1. <<>> \in Seq(Byte)
      OBVIOUS
    <3> QED BY <1>1, <3>1, NumberOfNetwork
  <2>2. b \in Seq(Byte) /\ Len(b) = 4
    BY <2>1, Swap32Facts
  <2>3. Stored(x, a) = Padded(b \o s, m)
    BY DEF Stored, ArgBytes, m, Blob, Empty, True, False, Nil, Infinitum, Words, LongWords, Strings,
           Int32, Float, Char, Int64, Timetag, Double, String, Symbol
  <2> HIDE DEF b
  <2>4. b \o s \in Seq(Byte) /\ Len(b \o s) = 4 + n
    <3>1. \A y \in Seq(Byte) : b \o y \in Seq(Byte) /\ Len(b \o y) = Len(b) + Len(y)
      BY <2>2, Joined
    <3> QED BY <1>1, <2>2, <3>1
  <2>5. Stored(x, a) = (b \o s) \o z
    BY <2>3, <2>4 DEF Padded, z
  <2>6. (b \o s) \o z = b \o (s \o z)
    BY <1>1, <1>3, <2>2, Associative
  <2> QED BY <2>5, <2>6 DEF b
<1>8. 4 + Len(s \o z) = m /\ n < Len(s \o z)
  BY <1>1, <1>2, <1>3, <1>4
<1> QED BY <1>1, <1>4, <1>5, <1>6, <1>7, <1>8 DEF m

\* Only the first four bytes of a blob have an order.
LEMMA BlobEndian ==
  ASSUME NEW x, NEW b \in Seq(Byte), Len(b) = 4, NEW t \in Seq(Byte)
  PROVE  /\ HostEndian(x, Blob, b \o t) = Swap32(x, b) \o t
         /\ SubSeq(b \o t, 1, 4) = b /\ From(b \o t, 5) = t
         /\ b \o t \in Seq(Byte) /\ Len(b \o t) = 4 + Len(t)
         /\ \A i \in 1 .. 4 : (b \o t)[i] = b[i]
         /\ \A i \in 1 .. Len(t) : (b \o t)[4 + i] = t[i]
<1>1. /\ SubSeq(b \o t, 1, Len(b)) = b /\ From(b \o t, Len(b) + 1) = t
      /\ b \o t \in Seq(Byte) /\ Len(b \o t) = Len(b) + Len(t)
      /\ \A i \in 1 .. Len(b) : (b \o t)[i] = b[i]
      /\ \A i \in 1 .. Len(t) : (b \o t)[Len(b) + i] = t[i]
  BY Joined
<1>2. Len(b) + 1 = 5
  OBVIOUS
<1>3. \A y : HostEndian(x, Blob, y) = Swap32(x, SubSeq(y, 1, 4)) \o From(y, 5)
  BY DEF HostEndian, Blob, Words, LongWords, Int32, Float, Char, Int64, Timetag, Double
<1> QED BY <1>1, <1>2, <1>3

LEMMA BlobArg ==
  ASSUME NEW h, NEW g, NEW a \in Given, a.type = Blob
  PROVE  Faithful(h, a) /\ Understood(g, h, a)
<1> DEFINE n == Len(a.val)
           N == Network(n)
           t == BlobTail(a)
           m == PaddedSize(4 + n)
           b == Swap32(h, N) \o t
           w == N \o t
<1>1. /\ n \in 0 .. MaxSize /\ t \in Seq(Byte) /\ 4 + Len(t) = m /\ n < Len(t)
      /\ (\A i \in n + 1 .. Len(t) : t[i] = Nul)
      /\ \A x : Stored(x, a) = Swap32(x, N) \o t
  BY BlobTailFacts
<1>2. \A r \in Seq(Byte) : N \in Seq(Byte) /\ Len(N) = 4 /\ Number(N \o r) = n /\ Number(N) = n
  BY <1>1, NumberOfNetwork
<1>3. N \in Seq(Byte) /\ Len(N) = 4 /\ Number(N) = n
  <2>1. <<>> \in Seq(Byte)
    OBVIOUS
  <2> QED BY <1>2, <2>1
<1> HIDE DEF N, t, n
<1>4. \A x : Swap32(x, N) \in Seq(Byte) /\ Len(Swap32(x, N)) = 4 /\ Swap32(x, Swap32(x, N)) = N
  BY <1>3, Swap32Facts
<1>5. OnWire(h, a) = w
  <2> DEFINE c == Swap32(h, N)
  <2>0. c \in Seq(Byte) /\ Len(c) = 4 /\ t \in Seq(Byte)
    BY <1>1, <1>4
  <2> HIDE DEF c
  <2>2. HostEndian(h, Blob, c \o t) = Swap32(h, c) \o t
    BY <2>0, BlobEndian
  <2>1. HostEndian(h, Blob, Swap32(h, N) \o t) = Swap32(h, Swap32(h, N)) \o t
    BY <2>2 DEF c
  <2> QED BY <1>1, <1>4, <2>1 DEF OnWire, NetworkEndian
<1>6. b \in Seq(Byte) /\ w \in Seq(Byte) /\ Len(b) = m /\ Len(w) = m
  BY <1>1, <1>3, <1>4, BlobEndian
<1>7. \A x : HostEndian(x, Blob, w) = Stored(x, a)
  <2> TAKE x
  <2>0. N \in Seq(Byte) /\ Len(N) = 4 /\ t \in Seq(Byte)
    BY <1>1, <1>3
  <2>1. HostEndian(x, Blob, N \o t) = Swap32(x, N) \o t
    BY <2>0, BlobEndian
  <2> QED BY <1>1, <2>1
<1>8. m \in Nat /\ 4 + n \in Nat /\ n \in Nat /\ Len(t) \in Nat /\ ~(n > MaxSize)
  <2>1. n \in Nat /\ ~(n > MaxSize) /\ 4 + n \in Nat /\ Len(t) \in Nat
    BY <1>1 DEF MaxSize
  <2> QED BY <2>1, PaddedSizeFacts
<1>9. ASSUME NEW r \in Seq(Byte)
      PROVE  ArgSize(h, Blob, b \o r) = m /\ ValidateArg(Blob, w \o r) = m
  <2>1. t \o r \in Seq(Byte) /\ Len(t \o r) = Len(t) + Len(r) /\ Len(r) \in Nat
        /\ \A i \in 1 .. Len(t) : (t \o r)[i] = t[i]
    BY <1>1, Unsplit
  <2>2. b \o r = Swap32(h, N) \o (t \o r) /\ w \o r = N \o (t \o r)
    <3>1. \A x \in Seq(Byte) : (x \o t) \o r = x \o (t \o r)
      BY <1>1, Associative
    <3> QED BY <1>3, <1>4, <3>1
  <2> DEFINE u == t \o r
  <2> HIDE DEF u
  <2>3. SubSeq(b \o r, 1, 4) = Swap32(h, N)
    BY <1>4, <2>1, <2>2, BlobEndian DEF u
  <2>4. ArgSize(h, Blob, b \o r) = m
    <3>1. \A x : ArgSize(h, Blob, x) = PaddedSize(4 + Number(Swap32(h, SubSeq(x, 1, 4))))
      BY DEF ArgSize, Blob, Words, LongWords, Strings, Empty, Midi, True, False, Nil, Infinitum, Int32, Float,
             Char, Int64, Timetag, Double, String, Symbol
    <3> HIDE DEF b
    <3> QED BY <1>3, <1>4, <2>3, <3>1
  <2>5. Number(w \o r) = n
    BY <1>2, <2>1, <2>2
  <2>6. Len(w \o r) = 4 + (Len(t) + Len(r)) /\ \A i \in 1 .. Len(u) : (w \o r)[4 + i] = u[i]
    <3>1. u \in Seq(Byte) /\ Len(u) = Len(t) + Len(r) /\ w \o r = N \o u
      BY <2>1, <2>2 DEF u
    <3>2. Len(N \o u) = 4 + Len(u) /\ \A i \in 1 .. Len(u) : (N \o u)[4 + i] = u[i]
      BY <1>3, <3>1, BlobEndian
    <3> HIDE DEF w
    <3> QED BY <3>1, <3>2
  <2>7. \A i \in (4 + n) + 1 .. m : (w \o r)[i] = Nul
    <3> TAKE i \in (4 + n) + 1 .. m
    <3>1. i - 4 \in n + 1 .. Len(t) /\ i - 4 \in 1 .. Len(t) /\ i - 4 \in 1 .. Len(u) /\ 4 + (i - 4) = i
      BY <1>1, <1>8, <2>1 DEF u
    <3> QED BY <1>1, <2>1, <2>6, <3>1 DEF u
  <2>8. ~(Len(w \o r) < 4) /\ ~(m > Len(w \o r))
    BY <1>1, <1>8, <2>1, <2>6
  <2>9. ValidateBlob(w \o r) = m
    <3> HIDE DEF w
    <3> QED BY <1>8, <2>5, <2>7, <2>8 DEF ValidateBlob
  <2>10. ValidateArg(Blob, w \o r) = ValidateBlob(w \o r)
    BY DEF ValidateArg, Blob, Words, LongWords, Strings, Empty, Midi, True, False, Nil, Infinitum, Int32, Float,
           Char, Int64, Timetag, Double, String, Symbol
  <2> QED BY <2>4, <2>9, <2>10
<1> HIDE DEF b, w, m
<1> QED BY <1>1, <1>5, <1>6, <1>7, <1>9 DEF Faithful, Understood, b

\* Every argument, and what other hosts make of it.
LEMMA ArgIsFaithful ==
  ASSUME NEW h, NEW a \in Given
  PROVE  Faithful(h, a)
<1>1. a.type \in Words \cup LongWords \cup Strings \cup Empty \cup {Blob, Midi}
  BY DEF Given, Types
<1> QED BY <1>1, EmptyArg, MidiArg, WordArg, LongWordArg, StringArg, BlobArg

LEMMA ArgIsUnderstood ==
  ASSUME NEW h, NEW g, NEW a \in Given
  PROVE  /\ a.type \notin LongWords \cup {Char} => Understood(g, h, a)
         /\ HostEndian(g, a.type, OnWire(h, a)) \in Seq(Byte)
<1>1. a.type \in Words \cup LongWords \cup Strings \cup Empty \cup {Blob, Midi}
  BY DEF Given, Types
<1>2. a.type \notin LongWords \cup {Char} => Understood(g, h, a)
  BY <1>1, EmptyArg, MidiArg, WordArg, StringArg, BlobArg
<1>3. Stored(g, a) \in Seq(Byte) /\ OnWire(h, a) \in Seq(Byte)
  BY ArgIsFaithful DEF Faithful
<1>4. CASE a.type \notin LongWords \cup {Char}
  BY <1>2, <1>3, <1>4 DEF Understood
<1>5. CASE a.type = Char
  <2>0. a.type \in Words /\ a.type \notin LongWords \cup {Blob}
    BY <1>5 DEF Words, LongWords, Blob, Char, Int64, Timetag, Double
  <2>1. HostEndian(g, a.type, OnWire(h, a)) = Swap32(g, OnWire(h, a))
    BY <2>0 DEF HostEndian
  <2> QED BY <1>2, <1>3, <2>1, Swap32Facts
<1>6. CASE a.type \in LongWords
  <2>0. a.type \notin Words \cup Empty \cup Strings \cup {Char, Blob}
    BY <1>6 DEF Words, LongWords, Empty, Strings, True, False, Nil, Infinitum, Int32, Float, Char,
                Int64, Timetag, Double, String, Symbol, Blob
  <2>1. HostEndian(g, a.type, OnWire(h, a)) = Swap64(g, OnWire(h, a))
    BY <1>6, <2>0 DEF HostEndian
  <2>2. Len(OnWire(h, a)) = 8
    <3>1. Len(OnWire(h, a)) = Len(Stored(h, a))
      BY ArgIsFaithful DEF Faithful
    <3>2. Stored(h, a) = Swap32(h, a.val)
      BY <1>6, <2>0 DEF Stored, ArgBytes, Swap32
    <3>3. a.val \in Seq(Byte) /\ Len(a.val) = 8
      BY <1>6 DEF Given, WellTyped
    <3> QED BY <3>1, <3>2, <3>3, Swap32Facts
  <2> QED BY <1>2, <1>3, <2>1, <2>2, Swap64Facts
<1> QED BY <1>2, <1>4, <1>5, <1>6

----------------------------------------------------------------------------
(* Folds over the arguments *)

LEMMA SameByPlace ==
  ASSUME NEW n \in Nat, NEW F, NEW G, F[0] = G[0],
         \A i \in 1 .. n : F[i - 1] = G[i - 1] => F[i] = G[i]
  PROVE  F[n] = G[n]
<1> DEFINE S == {i \in 0 .. n : F[i] = G[i]}
<1>1. 0 \in S /\ \A i \in 1 .. n : i - 1 \in S => i \in S
  OBVIOUS
<1> HIDE DEF S
<1>2. \A i \in 0 .. n : i \in S
  BY <1>1, ByPlace
<1>3. n \in S
  BY <1>2
<1> QED BY <1>3 DEF S

WalkStep(h, d, acc, t) ==
    LET len == ArgSize(h, t, From(d, acc.at))
    IN  [at |-> acc.at + len, argv |-> Append(acc.argv, IF len = 0 THEN 0 ELSE acc.at)]

SendStep(h, d, acc, t) ==
    LET len == ArgSize(h, t, From(d, acc.at))
    IN  [at |-> acc.at + len,
         out |-> acc.out \o NetworkEndian(h, t, SubSeq(d, acc.at, acc.at + len - 1))]

\* A fold is what any function gives that begins and goes on as it does.
LEMMA WalkUnfolds ==
  ASSUME NEW h, NEW d, NEW ts, Len(ts) \in Nat, NEW F,
         F[0] = [at |-> 1, argv |-> <<>>],
         \A i \in 1 .. Len(ts) : F[i] = WalkStep(h, d, F[i - 1], ts[i])
  PROVE  Walk(h, ts, d) = F[Len(ts)]
<1> DEFINE n == Len(ts)
           Cond(f) == f = [i \in 0 .. n |-> IF i = 0 THEN [at |-> 1, argv |-> <<>>]
                                            ELSE WalkStep(h, d, f[i - 1], ts[i])]
           g == [i \in 0 .. n |-> F[i]]
           f == CHOOSE f : Cond(f)
<1>1. \A i \in 1 .. n : i - 1 \in 0 .. n /\ i \in 0 .. n /\ i # 0
  OBVIOUS
<1>2. Cond(g)
  <2>1. \A i \in 0 .. n : g[i] = IF i = 0 THEN [at |-> 1, argv |-> <<>>]
                                 ELSE WalkStep(h, d, g[i - 1], ts[i])
    <3> TAKE i \in 0 .. n
    <3>1. CASE i = 0
      BY <3>1
    <3>2. CASE i # 0
      <4>1. i \in 1 .. n /\ g[i - 1] = F[i - 1]
        BY <3>2
      <4> QED BY <3>2, <4>1
    <3> QED BY <3>1, <3>2
  <2>2. g = [i \in 0 .. n |-> g[i]]
    OBVIOUS
  <2> HIDE DEF g
  <2> QED BY <2>1, <2>2
<1> HIDE DEF g
<1>3. Cond(f)
  BY <1>2
<1>4. Walk(h, ts, d) = f[n]
  BY DEF Walk, Folded, WalkStep
<1> HIDE DEF f
<1>5. f[0] = F[0] /\ \A i \in 1 .. n : f[i] = WalkStep(h, d, f[i - 1], ts[i])
  BY <1>1, <1>3
<1>6. \A i \in 1 .. n : f[i - 1] = F[i - 1] => f[i] = F[i]
  BY <1>5
<1>7. f[n] = F[n]
  <2> HIDE DEF n
  <2> QED BY <1>5, <1>6, SameByPlace DEF n
<1> QED BY <1>4, <1>7

LEMMA SendUnfolds ==
  ASSUME NEW h, NEW d, NEW ts, Len(ts) \in Nat, NEW F,
         F[0] = [at |-> 1, out |-> <<>>],
         \A i \in 1 .. Len(ts) : F[i] = SendStep(h, d, F[i - 1], ts[i])
  PROVE  NetworkData(h, ts, d) = F[Len(ts)].out
<1> DEFINE n == Len(ts)
           Cond(f) == f = [i \in 0 .. n |-> IF i = 0 THEN [at |-> 1, out |-> <<>>]
                                            ELSE SendStep(h, d, f[i - 1], ts[i])]
           g == [i \in 0 .. n |-> F[i]]
           f == CHOOSE f : Cond(f)
<1>1. \A i \in 1 .. n : i - 1 \in 0 .. n /\ i \in 0 .. n /\ i # 0
  OBVIOUS
<1>2. Cond(g)
  <2>1. \A i \in 0 .. n : g[i] = IF i = 0 THEN [at |-> 1, out |-> <<>>]
                                 ELSE SendStep(h, d, g[i - 1], ts[i])
    <3> TAKE i \in 0 .. n
    <3>1. CASE i = 0
      BY <3>1
    <3>2. CASE i # 0
      <4>1. i \in 1 .. n /\ g[i - 1] = F[i - 1]
        BY <3>2
      <4> QED BY <3>2, <4>1
    <3> QED BY <3>1, <3>2
  <2>2. g = [i \in 0 .. n |-> g[i]]
    OBVIOUS
  <2> HIDE DEF g
  <2> QED BY <2>1, <2>2
<1> HIDE DEF g
<1>3. Cond(f)
  BY <1>2
<1>4. NetworkData(h, ts, d) = f[n].out
  BY DEF NetworkData, Folded, SendStep
<1> HIDE DEF f
<1>5. f[0] = F[0] /\ \A i \in 1 .. n : f[i] = SendStep(h, d, f[i - 1], ts[i])
  BY <1>1, <1>3
<1>6. \A i \in 1 .. n : f[i - 1] = F[i - 1] => f[i] = F[i]
  BY <1>5
<1>7. f[n] = F[n]
  <2> HIDE DEF n
  <2> QED BY <1>5, <1>6, SameByPlace DEF n
<1> QED BY <1>4, <1>7

NothingRead(b) == [ok |-> TRUE, argv |-> <<>>, data |-> <<>>, rest |-> b]

LEMMA ReadUnfolds ==
  ASSUME NEW h, NEW b, NEW ts, Len(ts) \in Nat, NEW F,
         F[0] = NothingRead(b),
         \A i \in 1 .. Len(ts) :
            F[i] = ReadArg(h, F[i - 1], ts[i], ValidateArg(ts[i], F[i - 1].rest))
  PROVE  ReadArgs(h, ts, b) = F[Len(ts)]
<1> DEFINE n == Len(ts)
           Step(acc, t) == ReadArg(h, acc, t, ValidateArg(t, acc.rest))
           Cond(f) == f = [i \in 0 .. n |-> IF i = 0 THEN NothingRead(b)
                                            ELSE Step(f[i - 1], ts[i])]
           g == [i \in 0 .. n |-> F[i]]
           f == CHOOSE f : Cond(f)
<1>1. \A i \in 1 .. n : i - 1 \in 0 .. n /\ i \in 0 .. n /\ i # 0
  OBVIOUS
<1>2. Cond(g)
  <2>1. \A i \in 0 .. n : g[i] = IF i = 0 THEN NothingRead(b) ELSE Step(g[i - 1], ts[i])
    <3> TAKE i \in 0 .. n
    <3>1. CASE i = 0
      BY <3>1
    <3>2. CASE i # 0
      <4>1. i \in 1 .. n /\ g[i - 1] = F[i - 1]
        BY <3>2
      <4> QED BY <3>2, <4>1
    <3> QED BY <3>1, <3>2
  <2>2. g = [i \in 0 .. n |-> g[i]]
    OBVIOUS
  <2> HIDE DEF g, Step
  <2> QED BY <2>1, <2>2
<1> HIDE DEF g
<1>3. Cond(f)
  BY <1>2
<1>4. ReadArgs(h, ts, b) = f[n]
  BY DEF ReadArgs, Folded, NothingRead
<1> HIDE DEF f
<1>5. f[0] = F[0] /\ \A i \in 1 .. n : f[i] = Step(f[i - 1], ts[i])
  BY <1>1, <1>3
<1>6. \A i \in 1 .. n : f[i - 1] = F[i - 1] => f[i] = F[i]
  BY <1>5
<1>7. f[n] = F[n]
  <2> HIDE DEF n
  <2> QED BY <1>5, <1>6, SameByPlace DEF n
<1> QED BY <1>4, <1>7

----------------------------------------------------------------------------
(* Whole messages *)

TypesOf(as)         == [i \in DOMAIN as |-> as[i].type]
StoredAll(h, as)    == [i \in DOMAIN as |-> Stored(h, as[i])]
SentAll(h, as)      == [i \in DOMAIN as |-> OnWire(h, as[i])]
ArrivedAll(g, h, as) == [i \in DOMAIN as |-> HostEndian(g, as[i].type, OnWire(h, as[i]))]

LEMMA SequencesOf ==
  ASSUME NEW as \in Seq(Given), NEW h, NEW g
  PROVE  /\ Len(as) \in Nat /\ DOMAIN as = 1 .. Len(as) /\ \A i \in 1 .. Len(as) : as[i] \in Given
         /\ TypesOf(as) \in Seq(Types) /\ Len(TypesOf(as)) = Len(as)
         /\ StoredAll(h, as) \in Seq(Seq(Byte)) /\ Len(StoredAll(h, as)) = Len(as)
         /\ SentAll(h, as) \in Seq(Seq(Byte)) /\ Len(SentAll(h, as)) = Len(as)
         /\ ArrivedAll(g, h, as) \in Seq(Seq(Byte)) /\ Len(ArrivedAll(g, h, as)) = Len(as)
<1> DEFINE n == Len(as)
<1>1. n \in Nat /\ DOMAIN as = 1 .. n /\ \A i \in 1 .. n : as[i] \in Given
  BY LenProperties, ElementOfSeq
<1>2. \A a \in Given : /\ a.type \in Types
                       /\ Stored(h, a) \in Seq(Byte) /\ OnWire(h, a) \in Seq(Byte)
                       /\ HostEndian(g, a.type, OnWire(h, a)) \in Seq(Byte)
  BY ArgIsFaithful, ArgIsUnderstood DEF Faithful, Given
<1> HIDE DEF n
<1>3. TypesOf(as) \in [1 .. n -> Types]
  BY <1>1, <1>2 DEF TypesOf
<1>4. StoredAll(h, as) \in [1 .. n -> Seq(Byte)]
  BY <1>1, <1>2 DEF StoredAll
<1>5. SentAll(h, as) \in [1 .. n -> Seq(Byte)]
  BY <1>1, <1>2 DEF SentAll
<1>6. ArrivedAll(g, h, as) \in [1 .. n -> Seq(Byte)]
  BY <1>1, <1>2 DEF ArrivedAll
<1>7. \A V : \A f \in [1 .. n -> V] : f \in Seq(V) /\ Len(f) = n
  BY <1>1
<1> QED BY <1>1, <1>3, <1>4, <1>5, <1>6, <1>7 DEF n

LEMMA Middle ==
  ASSUME NEW x \in Seq(Byte), NEW y \in Seq(Byte), NEW z \in Seq(Byte)
  PROVE  /\ From(x \o (y \o z), Len(x) + 1) = y \o z
         /\ SubSeq(x \o (y \o z), Len(x) + 1, Len(x) + Len(y)) = y
<1> DEFINE u == y \o z
<1>1. u \in Seq(Byte) /\ Len(y) \in Nat /\ Len(z) \in Nat /\ Len(u) = Len(y) + Len(z)
      /\ \A i \in 1 .. Len(y) : u[i] = y[i]
  BY Joined
<1> HIDE DEF u
<1> DEFINE d == x \o u
<1>2. /\ d \in Seq(Byte) /\ Len(d) = Len(x) + Len(u) /\ Len(x) \in Nat
      /\ (\A i \in 1 .. Len(u) : d[Len(x) + i] = u[i]) /\ From(d, Len(x) + 1) = u
  BY <1>1, Joined
<1> HIDE DEF d
<1> DEFINE m == Len(x) + 1
           n == Len(x) + Len(y)
<1>3. \A i \in m .. n : d[i] \in Byte
  BY <1>1, <1>2
<1>4. m \in Int /\ n \in Int /\ n - m + 1 = Len(y) /\ (m <= n \/ Len(y) = 0)
  BY <1>1, <1>2
<1>5. \A i \in 1 .. Len(y) : d[m + i - 1] = y[i]
  <2> TAKE i \in 1 .. Len(y)
  <2>1. m + i - 1 = Len(x) + i /\ i \in 1 .. Len(u)
    BY <1>1, <1>2
  <2> QED BY <1>1, <1>2, <2>1
<1> HIDE DEF m, n
<1>6. /\ SubSeq(d, m, n) \in Seq(Byte)
      /\ Len(SubSeq(d, m, n)) = IF m <= n THEN n - m + 1 ELSE 0
      /\ \A i \in 1 .. n - m + 1 : SubSeq(d, m, n)[i] = d[m + i - 1]
  BY <1>3, <1>4, SubSeqProperties
<1>7. Len(SubSeq(d, m, n)) = Len(y)
  BY <1>4, <1>6
<1>8. \A i \in 1 .. Len(y) : SubSeq(d, m, n)[i] = y[i]
  BY <1>4, <1>5, <1>6
<1>9. SubSeq(d, m, n) = y
  BY <1>6, <1>7, <1>8, SeqEqual
<1> QED BY <1>2, <1>9 DEF d, u, m, n

\* The parts before and after the i-th.
PartOf(s, G, R, i) ==
    /\ G[i - 1] \in Seq(Byte) /\ s[i] \in Seq(Byte) /\ R[i] \in Seq(Byte)
    /\ G[i] \in Seq(Byte) /\ G[i] = G[i - 1] \o s[i]
    /\ R[i - 1] = s[i] \o R[i]
    /\ FlattenSeq(s) = G[i - 1] \o (s[i] \o R[i])

LEMMA PartAt ==
  ASSUME NEW s \in Seq(Seq(Byte)), NEW G, NEW R, Parts(s, G, R, Byte)
  PROVE  \A i \in 1 .. Len(s) : PartOf(s, G, R, i)
<1> TAKE i \in 1 .. Len(s)
<1>1. i \in 0 .. Len(s) /\ i - 1 \in 0 .. Len(s) /\ s[i] \in Seq(Byte)
  OBVIOUS
<1>2. /\ G[i - 1] \in Seq(Byte) /\ R[i] \in Seq(Byte) /\ G[i] \in Seq(Byte)
      /\ G[i] = G[i - 1] \o s[i] /\ R[i - 1] = s[i] \o R[i] /\ FlattenSeq(s) = G[i - 1] \o R[i - 1]
  BY <1>1 DEF Parts
<1> QED BY <1>1, <1>2 DEF PartOf

\* A sequence is made of its first elements one after the other.
First(P, i) == [j \in 1 .. i |-> P[j]]

LEMMA FirstGrows ==
  ASSUME NEW P
  PROVE  /\ First(P, 0) = <<>>
         /\ \A i \in Nat \ {0} : First(P, i) = Append(First(P, i - 1), P[i])
<1>1. \A k \in Nat : First(P, k) \in Seq({P[j] : j \in 1 .. k}) /\ Len(First(P, k)) = k
  <2> TAKE k \in Nat
  <2>1. First(P, k) \in [1 .. k -> {P[j] : j \in 1 .. k}]
    BY DEF First
  <2> DEFINE V == {P[j] : j \in 1 .. k}
  <2> HIDE DEF V
  <2>2. First(P, k) \in [1 .. k -> V]
    BY <2>1 DEF V
  <2>3. First(P, k) \in Seq(V) /\ Len(First(P, k)) = k
    BY <2>2
  <2> QED BY <2>3 DEF V
<1>0. 0 \in Nat
  OBVIOUS
<1>3. Len(First(P, 0)) = 0 /\ First(P, 0) \in Seq({P[j] : j \in 1 .. 0})
  BY <1>0, <1>1
<1>4. First(P, 0) = <<>>
  BY <1>3
<1> SUFFICES ASSUME NEW i \in Nat \ {0} PROVE First(P, i) = Append(First(P, i - 1), P[i])
  BY <1>4
<1>2. i - 1 \in Nat
  OBVIOUS
<1> DEFINE V == {P[j] : j \in 1 .. i}
           q == Append(First(P, i - 1), P[i])
<1>5. First(P, i - 1) \in Seq(V) /\ Len(First(P, i - 1)) = i - 1
  <2>1. {P[j] : j \in 1 .. i - 1} \subseteq V
    BY <1>2
  <2> QED BY <1>1, <1>2, <2>1, SeqMonotonic
<1>6. P[i] \in V
  BY <1>2
<1> HIDE DEF V
<1>7. q \in Seq(V) /\ Len(q) = i
  BY <1>2, <1>5, <1>6
<1>8. \A j \in 1 .. i : q[j] = P[j]
  <2> TAKE j \in 1 .. i
  <2>1. CASE j = i
    BY <1>2, <1>5, <1>6, <2>1
  <2>2. CASE j # i
    <3>1. j \in 1 .. i - 1
      BY <2>2
    <3>2. q[j] = First(P, i - 1)[j]
      BY <1>5, <1>6, <3>1
    <3> QED BY <3>1, <3>2 DEF First
  <2> QED BY <2>1, <2>2
<1>9. First(P, i) \in Seq(V) /\ Len(First(P, i)) = i /\ \A j \in 1 .. i : First(P, i)[j] = P[j]
  BY <1>1 DEF V, First
<1>10. q = First(P, i)
  BY <1>7, <1>8, <1>9, SeqEqual
<1> QED BY <1>10

\* Where the parts begin; 0 for empty ones.
Places(s, G) == [i \in 1 .. Len(s) |-> IF Len(s[i]) = 0 THEN 0 ELSE Len(G[i - 1]) + 1]

\* One step of the two walks over the data, at a part y of them.
Over(h, x, y, z, t) ==
    /\ x \in Seq(Byte) /\ y \in Seq(Byte) /\ z \in Seq(Byte) /\ ArgSize(h, t, y \o z) = Len(y)
WalksOver(h, x, y, z, t, v) ==
    WalkStep(h, x \o (y \o z), [at |-> Len(x) + 1, argv |-> v], t) =
       [at |-> Len(x \o y) + 1, argv |-> Append(v, IF Len(y) = 0 THEN 0 ELSE Len(x) + 1)]
SendsOver(h, x, y, z, t, v) ==
    SendStep(h, x \o (y \o z), [at |-> Len(x) + 1, out |-> v], t) =
       [at |-> Len(x \o y) + 1, out |-> v \o NetworkEndian(h, t, y)]

LEMMA StepsOver ==
  ASSUME NEW h, NEW x, NEW y, NEW z, NEW t, NEW v, Over(h, x, y, z, t)
  PROVE  WalksOver(h, x, y, z, t, v) /\ SendsOver(h, x, y, z, t, v)
<1> DEFINE d == x \o (y \o z)
           k == Len(x)
           l == Len(y)
<1>0. x \in Seq(Byte) /\ y \in Seq(Byte) /\ z \in Seq(Byte)
  BY DEF Over
<1>1. k \in Nat /\ l \in Nat /\ Len(x \o y) = k + l
  BY <1>0, Joined
<1>2. From(d, k + 1) = y \o z /\ SubSeq(d, k + 1, k + l) = y
  BY <1>0, Middle
<1>3. ArgSize(h, t, y \o z) = l
  BY DEF Over
<1> HIDE DEF d, k, l
<1>4. k + 1 + l = Len(x \o y) + 1 /\ k + 1 + l - 1 = k + l
  BY <1>1
<1>5. WalkStep(h, d, [at |-> k + 1, argv |-> v], t) =
         [at |-> k + 1 + l, argv |-> Append(v, IF l = 0 THEN 0 ELSE k + 1)]
  BY <1>2, <1>3 DEF WalkStep
<1>6. SendStep(h, d, [at |-> k + 1, out |-> v], t) =
         [at |-> k + 1 + l, out |-> v \o NetworkEndian(h, t, SubSeq(d, k + 1, k + 1 + l - 1))]
  BY <1>2, <1>3 DEF SendStep
<1> QED BY <1>2, <1>4, <1>5, <1>6 DEF WalksOver, SendsOver, d, k, l

\* The i-th argument y in the data d.
Holds(h, d, G, R, i, y, t) ==
    /\ G[i - 1] \in Seq(Byte) /\ y \in Seq(Byte) /\ R[i] \in Seq(Byte)
    /\ G[i] = G[i - 1] \o y /\ d = G[i - 1] \o (y \o R[i])
    /\ ArgSize(h, t, y \o R[i]) = Len(y)

LEMMA StoredAt ==
  ASSUME NEW as \in Seq(Given), NEW h, NEW G, NEW R, Parts(StoredAll(h, as), G, R, Byte)
  PROVE  \A i \in 1 .. Len(as) :
           Holds(h, FlattenSeq(StoredAll(h, as)), G, R, i, Stored(h, as[i]), as[i].type)
<1> TAKE i \in 1 .. Len(as)
<1> DEFINE s == StoredAll(h, as)
           a == as[i]
<1>1. s \in Seq(Seq(Byte)) /\ Len(s) = Len(as)
  BY SequencesOf
<1>2. a \in Given /\ s[i] = Stored(h, a)
  BY SequencesOf DEF StoredAll
<1> HIDE DEF s, a
<1>3. PartOf(s, G, R, i)
  BY <1>1, PartAt DEF s
<1>4. Faithful(h, a)
  BY <1>2, ArgIsFaithful
<1>5. R[i] \in Seq(Byte)
  BY <1>3 DEF PartOf
<1>6. ArgSize(h, a.type, Stored(h, a) \o R[i]) = Len(Stored(h, a))
  BY <1>4, <1>5 DEF Faithful
<1> QED BY <1>2, <1>3, <1>6 DEF Holds, PartOf, s, a

LEMMA WalkIs ==
  ASSUME NEW as \in Seq(Given), NEW h, NEW G, NEW R, Parts(StoredAll(h, as), G, R, Byte)
  PROVE  Argv(h, TypesOf(as), FlattenSeq(StoredAll(h, as))) = Places(StoredAll(h, as), G)
<1> DEFINE s == StoredAll(h, as)
           ts == TypesOf(as)
           d == FlattenSeq(s)
           n == Len(as)
           P == Places(s, G)
           F == [i \in 0 .. n |-> [at |-> Len(G[i]) + 1, argv |-> First(P, i)]]
<1>1. n \in Nat /\ Len(s) = n /\ Len(ts) = n
  BY SequencesOf
<1>2. \A i \in 1 .. n : s[i] = Stored(h, as[i]) /\ ts[i] = as[i].type
  BY SequencesOf DEF StoredAll, TypesOf
<1>3. \A i \in 1 .. n : Holds(h, d, G, R, i, Stored(h, as[i]), as[i].type)
  BY StoredAt
<1>4. G[0] = <<>>
  BY DEF Parts
<1> HIDE DEF s, ts, d, n
<1>5. \A i \in 1 .. n : P[i] = IF Len(s[i]) = 0 THEN 0 ELSE Len(G[i - 1]) + 1
  BY <1>1 DEF Places
<1>6. First(P, n) = P
  BY <1>1 DEF First, Places
<1> HIDE DEF P
<1>7. /\ First(P, 0) = <<>>
      /\ \A i \in 1 .. n : First(P, i) = Append(First(P, i - 1), P[i])
  <2>1. \A i \in 1 .. n : i \in Nat \ {0}
    BY <1>1
  <2> QED BY <2>1, FirstGrows
<1>8. F[0] = [at |-> 1, argv |-> <<>>]
  <2>1. 0 \in 0 .. n /\ Len(G[0]) = 0
    BY <1>1, <1>4
  <2> QED BY <1>7, <2>1
<1>9. \A i \in 0 .. n : F[i] = [at |-> Len(G[i]) + 1, argv |-> First(P, i)]
  OBVIOUS
<1> HIDE DEF F
<1>10. ASSUME NEW i \in 1 .. n PROVE F[i] = WalkStep(h, d, F[i - 1], ts[i])
  <2> DEFINE x == G[i - 1]
             y == s[i]
             z == R[i]
             v == First(P, i - 1)
             t == ts[i]
  <2>1. i \in 0 .. n /\ i - 1 \in 0 .. n
    BY <1>1
  <2>2. Over(h, x, y, z, t) /\ d = x \o (y \o z) /\ G[i] = x \o y
    BY <1>2, <1>3 DEF Holds, Over
  <2>3. First(P, i) = Append(v, IF Len(y) = 0 THEN 0 ELSE Len(x) + 1)
    BY <1>5, <1>7
  <2>4. F[i - 1] = [at |-> Len(x) + 1, argv |-> v] /\ F[i] = [at |-> Len(G[i]) + 1, argv |-> First(P, i)]
    BY <1>9, <2>1
  <2> HIDE DEF x, y, z, v, t
  <2>5. WalksOver(h, x, y, z, t, v)
    BY <2>2, StepsOver
  <2>6. F[i] = WalkStep(h, d, F[i - 1], t)
    BY <2>2, <2>3, <2>4, <2>5 DEF WalksOver
  <2> QED BY <2>6 DEF t
<1>11. Walk(h, ts, d) = F[Len(ts)]
  <2>1. Len(ts) \in Nat /\ \A i \in 1 .. Len(ts) : F[i] = WalkStep(h, d, F[i - 1], ts[i])
    BY <1>1, <1>10
  <2> QED BY <1>8, <2>1, WalkUnfolds
<1>12. F[n].argv = P
  <2>1. n \in 0 .. n
    BY <1>1
  <2>2. F[n] = [at |-> Len(G[n]) + 1, argv |-> P]
    BY <1>6, <1>9, <2>1
  <2> QED BY <2>2
<1> QED BY <1>1, <1>11, <1>12 DEF Argv, P, s, ts, d

LEMMA SendIs ==
  ASSUME NEW as \in Seq(Given), NEW h
  PROVE  NetworkData(h, TypesOf(as), FlattenSeq(StoredAll(h, as))) = FlattenSeq(SentAll(h, as))
<1> DEFINE s == StoredAll(h, as)
           w == SentAll(h, as)
           ts == TypesOf(as)
           d == FlattenSeq(s)
           n == Len(as)
<1>1. n \in Nat /\ Len(s) = n /\ Len(ts) = n /\ Len(w) = n
  BY SequencesOf
<1>2. \A i \in 1 .. n : /\ s[i] = Stored(h, as[i]) /\ ts[i] = as[i].type
                        /\ w[i] = NetworkEndian(h, ts[i], s[i])
  BY SequencesOf DEF StoredAll, TypesOf, SentAll, OnWire
<1>3. s \in Seq(Seq(Byte)) /\ w \in Seq(Seq(Byte))
  BY SequencesOf
<1>4. PICK G, R : Parts(s, G, R, Byte)
  <2> HIDE DEF s
  <2> QED BY <1>3, PartsExist
<1>5. \A i \in 1 .. n : Holds(h, d, G, R, i, Stored(h, as[i]), as[i].type)
  BY <1>4, StoredAt
<1> HIDE DEF s, ts, d, n, w
<1>6. PICK GW, RW : Parts(w, GW, RW, Byte)
  BY <1>3, PartsExist
<1>7. G[0] = <<>> /\ GW[0] = <<>>
  BY <1>4, <1>6 DEF Parts
<1>8. \A i \in 1 .. n : GW[i] = GW[i - 1] \o w[i]
  BY <1>1, <1>6 DEF Parts
<1> DEFINE F == [i \in 0 .. n |-> [at |-> Len(G[i]) + 1, out |-> GW[i]]]
<1>9. F[0] = [at |-> 1, out |-> <<>>]
  <2>1. 0 \in 0 .. n /\ Len(G[0]) = 0
    BY <1>1, <1>7
  <2> QED BY <1>7, <2>1
<1>10. \A i \in 0 .. n : F[i] = [at |-> Len(G[i]) + 1, out |-> GW[i]]
  OBVIOUS
<1> HIDE DEF F
<1>11. ASSUME NEW i \in 1 .. n PROVE F[i] = SendStep(h, d, F[i - 1], ts[i])
  <2> DEFINE x == G[i - 1]
             y == s[i]
             z == R[i]
             v == GW[i - 1]
             t == ts[i]
  <2>1. i \in 0 .. n /\ i - 1 \in 0 .. n
    BY <1>1
  <2>2. Over(h, x, y, z, t) /\ d = x \o (y \o z) /\ G[i] = x \o y
    BY <1>2, <1>5 DEF Holds, Over
  <2>3. GW[i] = v \o NetworkEndian(h, t, y)
    BY <1>2, <1>8
  <2>4. F[i - 1] = [at |-> Len(x) + 1, out |-> v] /\ F[i] = [at |-> Len(G[i]) + 1, out |-> GW[i]]
    BY <1>10, <2>1
  <2> HIDE DEF x, y, z, v, t
  <2>5. SendsOver(h, x, y, z, t, v)
    BY <2>2, StepsOver
  <2>6. F[i] = SendStep(h, d, F[i - 1], t)
    BY <2>2, <2>3, <2>4, <2>5 DEF SendsOver
  <2> QED BY <2>6 DEF t
<1>12. NetworkData(h, ts, d) = F[Len(ts)].out
  <2>1. Len(ts) \in Nat /\ \A i \in 1 .. Len(ts) : F[i] = SendStep(h, d, F[i - 1], ts[i])
    BY <1>1, <1>11
  <2> QED BY <1>9, <2>1, SendUnfolds
<1>13. n \in 0 .. n
  BY <1>1
<1>14. F[n].out = GW[n]
  <2>1. F[n] = [at |-> Len(G[n]) + 1, out |-> GW[n]]
    BY <1>10, <1>13
  <2> QED BY <2>1
<1>15. GW[n] = FlattenSeq(w)
  <2>1. FlattenSeq(w) = GW[n] \o RW[n] /\ RW[n] = <<>> /\ GW[n] \in Seq(Byte)
    BY <1>1, <1>6, <1>13 DEF Parts
  <2> QED BY <2>1, ConcatEmptySeq
<1> QED BY <1>1, <1>12, <1>14, <1>15 DEF s, ts, d, w

\* One step of reading, at an argument y with z after it.
Ahead(t, x, y, z) == x \in Seq(Byte) /\ y \in Seq(Byte) /\ z \in Seq(Byte) /\ ValidateArg(t, y \o z) = Len(y)
ReadsOver(g, t, x, y, z, v) ==
    ReadArg(g, [ok |-> TRUE, argv |-> v, data |-> x, rest |-> y \o z], t, ValidateArg(t, y \o z)) =
      [ok |-> TRUE, argv |-> Append(v, IF Len(y) = 0 THEN 0 ELSE Len(x) + 1),
       data |-> x \o HostEndian(g, t, y), rest |-> z]

LEMMA ReadOver ==
  ASSUME NEW g, NEW t, NEW x, NEW y, NEW z, NEW v, Ahead(t, x, y, z)
  PROVE  ReadsOver(g, t, x, y, z, v)
<1> DEFINE u == y \o z
           l == Len(y)
<1>1. y \in Seq(Byte) /\ z \in Seq(Byte) /\ ValidateArg(t, u) = l
  BY DEF Ahead
<1>2. l \in Nat /\ SubSeq(u, 1, l) = y /\ From(u, l + 1) = z
  BY <1>1, Joined
<1>3. l # Bad
  BY <1>2 DEF Bad
<1> HIDE DEF u, l
<1> QED BY <1>1, <1>2, <1>3 DEF ReadsOver, ReadArg, u, l

\* What a host g reads of what a host h has sent, before what follows it.
LEMMA ReadIs ==
  ASSUME NEW as \in Seq(Given), NEW g, NEW h, NEW GA, NEW RA, Parts(ArrivedAll(g, h, as), GA, RA, Byte),
         NEW c \in Seq(Byte)
  PROVE  ReadArgs(g, TypesOf(as), FlattenSeq(SentAll(h, as)) \o c) =
           [ok |-> TRUE, argv |-> Places(SentAll(h, as), GA),
            data |-> FlattenSeq(ArrivedAll(g, h, as)), rest |-> c]
<1> DEFINE s == ArrivedAll(g, h, as)
           w == SentAll(h, as)
           ts == TypesOf(as)
           d == FlattenSeq(w) \o c
           n == Len(as)
           P == Places(w, GA)
<1>1. n \in Nat /\ Len(s) = n /\ Len(ts) = n /\ Len(w) = n
  BY SequencesOf
<1>2. \A i \in 1 .. n : as[i] \in Given /\ ts[i] = as[i].type /\ w[i] = OnWire(h, as[i])
                        /\ s[i] = HostEndian(g, ts[i], w[i])
  BY SequencesOf DEF ArrivedAll, TypesOf, SentAll
<1>3. w \in Seq(Seq(Byte))
  BY SequencesOf
<1>4. Parts(s, GA, RA, Byte)
  OBVIOUS
<1> HIDE DEF s, ts, d, n, w
<1>5. PICK GW, R : Parts(w, GW, R, Byte)
  BY <1>3, PartsExist
<1> DEFINE RW == [i \in 0 .. n |-> R[i] \o c]
<1>6. GA[0] = <<>> /\ RW[0] = d /\ RW[n] = c
  <2>1. 0 \in 0 .. n /\ n \in 0 .. n
    BY <1>1
  <2>2. R[0] \in Seq(Byte) /\ FlattenSeq(w) = GW[0] \o R[0] /\ GW[0] = <<>> /\ R[n] = <<>>
    BY <1>1, <1>5, <2>1 DEF Parts
  <2>3. FlattenSeq(w) = R[0] /\ <<>> \o c = c
    BY <2>2, ConcatEmptySeq
  <2>4. RW[0] = R[0] \o c /\ RW[n] = R[n] \o c
    BY <2>1
  <2> HIDE DEF RW
  <2>5. RW[0] = d /\ RW[n] = c
    BY <2>2, <2>3, <2>4 DEF d
  <2>6. GA[0] = <<>>
    BY <1>4 DEF Parts
  <2> QED BY <2>5, <2>6
<1>7. \A i \in 1 .. n : /\ GA[i] = GA[i - 1] \o s[i] /\ RW[i - 1] = w[i] \o RW[i]
                        /\ GA[i - 1] \in Seq(Byte) /\ RW[i] \in Seq(Byte)
  <2> TAKE i \in 1 .. n
  <2>1. i \in 0 .. n /\ i - 1 \in 0 .. n
    BY <1>1
  <2>2. /\ GA[i] = GA[i - 1] \o s[i] /\ GA[i - 1] \in Seq(Byte)
        /\ R[i - 1] = w[i] \o R[i] /\ R[i] \in Seq(Byte)
    BY <1>1, <1>4, <1>5, <2>1 DEF Parts
  <2>3. w[i] \in Seq(Byte)
    BY <1>1, <1>3
  <2>4. (w[i] \o R[i]) \o c = w[i] \o (R[i] \o c) /\ R[i] \o c \in Seq(Byte)
    BY <2>2, <2>3, Associative, Joined
  <2>5. RW[i] = R[i] \o c /\ RW[i - 1] = R[i - 1] \o c
    BY <2>1
  <2>6. RW[i - 1] = w[i] \o RW[i]
    <3> HIDE DEF RW
    <3> QED BY <2>2, <2>4, <2>5, Zenon
  <2>7. RW[i] \in Seq(Byte)
    BY <2>4, <2>5, Zenon
  <2> QED BY <2>2, <2>6, <2>7
<1> HIDE DEF RW
<1>8. \A i \in 1 .. n : P[i] = IF Len(w[i]) = 0 THEN 0 ELSE Len(GA[i - 1]) + 1
  BY <1>1 DEF Places
<1>9. First(P, n) = P
  BY <1>1 DEF First, Places
<1> HIDE DEF P
<1>10. /\ First(P, 0) = <<>>
       /\ \A i \in 1 .. n : First(P, i) = Append(First(P, i - 1), P[i])
  <2>1. \A i \in 1 .. n : i \in Nat \ {0}
    BY <1>1
  <2> QED BY <2>1, FirstGrows
<1> DEFINE F == [i \in 0 .. n |-> [ok |-> TRUE, argv |-> First(P, i), data |-> GA[i], rest |-> RW[i]]]
<1>11. F[0] = NothingRead(d)
  <2>1. 0 \in 0 .. n
    BY <1>1
  <2> QED BY <1>6, <1>10, <2>1 DEF NothingRead
<1>12. \A i \in 0 .. n : F[i] = [ok |-> TRUE, argv |-> First(P, i), data |-> GA[i], rest |-> RW[i]]
  OBVIOUS
<1> HIDE DEF F
<1>13. ASSUME NEW i \in 1 .. n
       PROVE  F[i] = ReadArg(g, F[i - 1], ts[i], ValidateArg(ts[i], F[i - 1].rest))
  <2> DEFINE x == GA[i - 1]
             y == w[i]
             z == RW[i]
             v == First(P, i - 1)
             t == ts[i]
  <2>1. i \in 0 .. n /\ i - 1 \in 0 .. n
    BY <1>1
  <2>2. Ahead(t, x, y, z)
    <3> DEFINE a == as[i]
    <3>1. a \in Given /\ t = a.type /\ y = OnWire(h, a)
      BY <1>2
    <3>2. x \in Seq(Byte) /\ z \in Seq(Byte)
      BY <1>7
    <3> HIDE DEF x, y, z, t, a
    <3>3. Faithful(h, a)
      BY <3>1, ArgIsFaithful
    <3>4. OnWire(h, a) \in Seq(Byte) /\ Len(OnWire(h, a)) = Len(Stored(h, a))
          /\ ValidateArg(a.type, OnWire(h, a) \o z) = Len(Stored(h, a))
      BY <3>2, <3>3 DEF Faithful
    <3> QED BY <3>1, <3>2, <3>4 DEF Ahead
  <2>3. First(P, i) = Append(v, IF Len(y) = 0 THEN 0 ELSE Len(x) + 1)
    BY <1>8, <1>10
  <2>4. GA[i] = x \o HostEndian(g, t, y) /\ RW[i - 1] = y \o z
    BY <1>2, <1>7
  <2>5. /\ F[i - 1] = [ok |-> TRUE, argv |-> v, data |-> x, rest |-> RW[i - 1]]
        /\ F[i] = [ok |-> TRUE, argv |-> First(P, i), data |-> GA[i], rest |-> z]
    BY <1>12, <2>1
  <2> HIDE DEF x, y, z, v, t
  <2>6. ReadsOver(g, t, x, y, z, v)
    BY <2>2, ReadOver
  <2>7. F[i - 1].rest = y \o z
    BY <2>4, <2>5
  <2>8. F[i] = ReadArg(g, F[i - 1], t, ValidateArg(t, F[i - 1].rest))
    BY <2>3, <2>4, <2>5, <2>6, <2>7 DEF ReadsOver
  <2> QED BY <2>8 DEF t
<1>14. ReadArgs(g, ts, d) = F[Len(ts)]
  <2>1. Len(ts) \in Nat /\ \A i \in 1 .. Len(ts) :
            F[i] = ReadArg(g, F[i - 1], ts[i], ValidateArg(ts[i], F[i - 1].rest))
    BY <1>1, <1>13
  <2> QED BY <1>11, <2>1, ReadUnfolds
<1>15. n \in 0 .. n
  BY <1>1
<1>16. GA[n] = FlattenSeq(s)
  <2>1. FlattenSeq(s) = GA[n] \o RA[n] /\ RA[n] = <<>> /\ GA[n] \in Seq(Byte)
    BY <1>1, <1>4, <1>15 DEF Parts
  <2> QED BY <2>1, ConcatEmptySeq
<1>17. F[n] = [ok |-> TRUE, argv |-> P, data |-> FlattenSeq(s), rest |-> c]
  BY <1>6, <1>9, <1>12, <1>15, <1>16
<1> QED BY <1>1, <1>14, <1>17 DEF P, s, ts, d, w

LEMMA TypesAreText ==
  ASSUME NEW ts \in Seq(Types)
  PROVE  /\ <<Comma>> \o ts \in Text /\ Len(<<Comma>> \o ts) = Len(ts) + 1 /\ Len(ts) \in Nat
         /\ (<<Comma>> \o ts)[1] = Comma
         /\ \A i \in 1 .. Len(ts) : (<<Comma>> \o ts)[i + 1] = ts[i]
<1> DEFINE c == <<Comma>>
           u == c \o ts
           n == Len(ts)
<1>1. Types \subseteq Byte \ {Nul} /\ Comma \in Byte \ {Nul}
  BY DEF Types, Words, LongWords, Strings, Empty, Byte, Nul, Comma, Int32, Float, String, Blob, Int64,
         Timetag, Double, Symbol, Char, Midi, True, False, Nil, Infinitum
<1>2. n \in Nat /\ \A i \in 1 .. n : ts[i] \in Byte \ {Nul}
  <2>1. n \in Nat /\ \A i \in 1 .. n : ts[i] \in Types
    OBVIOUS
  <2> QED BY <1>1, <2>1
<1>3. ts \in Seq(Byte)
  BY <1>1, SeqMonotonic
<1>4. c \in Seq(Byte) /\ Len(c) = 1 /\ c[1] = Comma
  BY <1>1
<1> HIDE DEF c
<1>5. /\ u \in Seq(Byte) /\ Len(u) = 1 + n /\ u[1] = Comma
      /\ \A i \in 1 .. n : u[1 + i] = ts[i]
  <2>1. /\ u \in Seq(Byte) /\ Len(u) = Len(c) + Len(ts) /\ (\A i \in 1 .. Len(c) : u[i] = c[i])
        /\ \A i \in 1 .. Len(ts) : u[Len(c) + i] = ts[i]
    BY <1>3, <1>4, Joined
  <2>2. 1 \in 1 .. Len(c)
    BY <1>4
  <2> HIDE DEF u
  <2> QED BY <1>4, <2>1, <2>2
<1>6. u[1] = Comma
  BY <1>5
<1> HIDE DEF u
<1>7. \A i \in DOMAIN u : u[i] # Nul
  <2> TAKE i \in DOMAIN u
  <2>1. i \in 1 .. 1 + n
    BY <1>5
  <2>2. CASE i = 1
    BY <1>1, <1>6, <2>2
  <2>3. CASE i # 1
    <3>1. i - 1 \in 1 .. n /\ 1 + (i - 1) = i
      BY <1>2, <2>1, <2>3
    <3>2. u[i] = ts[i - 1]
      BY <1>5, <3>1
    <3> QED BY <1>2, <3>1, <3>2
  <2> QED BY <2>2, <2>3
<1>8. \A i \in 1 .. n : u[i + 1] = ts[i]
  <2> TAKE i \in 1 .. n
  <2>1. i + 1 = 1 + i
    BY <1>2
  <2> QED BY <1>5, <2>1
<1>9. u \in Text /\ Len(u) = n + 1
  BY <1>2, <1>5, <1>7 DEF Text
<1> QED BY <1>2, <1>6, <1>8, <1>9 DEF u, c, n

\* A message with data D in network order is read as what its arguments are.
Message(path, ts, D) == PaddedString(path) \o PaddedString(<<Comma>> \o ts) \o D

LEMMA Delivered ==
  ASSUME NEW path \in Text, NEW ts \in Seq(Types), NEW D \in Seq(Byte), NEW g
  PROVE  /\ Deserialise(g, Message(path, ts, D)) =
               Read(path, ts, PaddedSize(1 + Len(ts)), ReadArgs(g, ts, D))
         /\ Len(Message(path, ts, D)) = MessageLength(path, ts, D)
<1> DEFINE p == PaddedString(path)
           u == <<Comma>> \o ts
           c == PaddedString(u)
           typed == c \o D
           w == p \o typed
           n == Len(ts)
           m == PaddedSize(Len(path))
           k == PaddedSize(Len(u))
<1>1. u \in Text /\ Len(u) = n + 1 /\ n \in Nat /\ u[1] = Comma /\ \A i \in 1 .. n : u[i + 1] = ts[i]
  BY TypesAreText
<1>2. Len(path) \in Nat
  BY DEF Text
<1> HIDE DEF u, n
<1>3. m \in Nat \ {0} /\ k \in Nat \ {0} /\ Len(u) <= k
  <2> DEFINE l == Len(u)
  <2>1. l \in Nat
    BY <1>1
  <2> HIDE DEF l
  <2>2. PaddedSize(l) \in Nat \ {0} /\ l <= PaddedSize(l)
    BY <2>1 DEF PaddedSize
  <2>3. m \in Nat \ {0}
    BY <1>2 DEF PaddedSize
  <2> QED BY <2>2, <2>3 DEF l
<1>4. /\ c \in Seq(Byte) /\ Len(c) = k /\ StrLen(typed) = Len(u) /\ ValidateString(typed) = k
      /\ SubSeq(typed, 1, Len(u)) = u /\ From(typed, k + 1) = D
  BY <1>1, PaddedStringFacts
<1> HIDE DEF c, k
<1>5. typed \in Seq(Byte) /\ Len(typed) = k + Len(D) /\ Len(D) \in Nat
  BY <1>4, Joined
<1> HIDE DEF typed
<1>6. /\ p \in Seq(Byte) /\ Len(p) = m /\ StrLen(w) = Len(path) /\ ValidateString(w) = m
      /\ SubSeq(w, 1, Len(path)) = path /\ From(w, m + 1) = typed
  BY <1>5, PaddedStringFacts
<1> HIDE DEF p, m
<1>7. w \in Seq(Byte) /\ Len(w) = m + Len(typed)
  BY <1>5, <1>6, Joined
<1>8. Message(path, ts, D) = w
  <2>1. (p \o c) \o D = p \o (c \o D)
    BY <1>4, <1>6, Associative
  <2> QED BY <2>1 DEF Message, typed, p, c, u
<1> HIDE DEF w
<1>9. SubSeq(typed, 2, n + 1) = ts
  <2>1. n + 1 <= Len(typed)
    <3>1. Len(u) <= k
      BY <1>3
    <3> QED BY <1>1, <1>3, <1>5, <3>1
  <2>2. \A i \in 2 .. n + 1 : typed[i] \in Byte
    BY <1>1, <1>5, <2>1
  <2>3. /\ SubSeq(typed, 2, n + 1) \in Seq(Byte)
        /\ Len(SubSeq(typed, 2, n + 1)) = IF 2 <= n + 1 THEN n + 1 - 2 + 1 ELSE 0
        /\ \A i \in 1 .. n + 1 - 2 + 1 : SubSeq(typed, 2, n + 1)[i] = typed[2 + i - 1]
    BY <1>1, <2>2, SubSeqProperties
  <2>4. Len(SubSeq(typed, 2, n + 1)) = n
    BY <1>1, <2>3
  <2>5. \A i \in 1 .. n : SubSeq(typed, 2, n + 1)[i] = ts[i]
    <3> TAKE i \in 1 .. n
    <3>1. i \in 1 .. n + 1 - 2 + 1 /\ 2 + i - 1 = i + 1 /\ i + 1 \in 1 .. n + 1
      BY <1>1
    <3>2. SubSeq(typed, 2, n + 1)[i] = typed[i + 1]
      BY <2>3, <3>1
    <3>3. /\ n + 1 \in 0 .. Len(typed) 
      BY <1>1, <2>1
    <3>4. \A j \in 1 .. n + 1 : SubSeq(typed, 1, n + 1)[j] = typed[j]
      BY <1>5, <3>3, Split
    <3>5. SubSeq(typed, 1, n + 1) = u
      BY <1>1, <1>4
    <3> QED BY <1>1, <3>1, <3>2, <3>4, <3>5
  <2>6. ts \in Seq(Types) /\ Len(ts) = n
    BY DEF n
  <2> QED BY <2>3, <2>4, <2>5, <2>6, SeqEqual
<1>10. typed[1] = Comma
  <2>1. Len(u) \in 0 .. Len(typed) /\ 1 \in 1 .. Len(u)
    <3>1. Len(u) \in Nat /\ Len(u) <= k
      BY <1>1, <1>3
    <3> QED BY <1>1, <1>3, <1>5, <3>1
  <2>2. SubSeq(typed, 1, Len(u))[1] = typed[1]
    BY <1>5, <2>1, Split
  <2> QED BY <1>1, <1>4, <2>2
<1>11. w # <<>> /\ typed # <<>> /\ m # Bad /\ k # Bad
  <2>1. Len(w) # 0 /\ Len(typed) # 0
    BY <1>3, <1>5, <1>7
  <2>2. m # Bad /\ k # Bad
    BY <1>3 DEF Bad
  <2> QED BY <2>1, <2>2
<1>12. ReadTyped(g, path, typed, k) = Read(path, ts, k, ReadArgs(g, ts, D))
  BY <1>1, <1>4, <1>9, <1>10, <1>11 DEF ReadTyped
<1>13. Deserialise(g, w) = ReadTyped(g, path, typed, k)
  BY <1>4, <1>6, <1>11 DEF Deserialise, ReadFrom
<1>14. k = PaddedSize(1 + n)
  <2>1. 1 + n = Len(u)
    BY <1>1
  <2> QED BY <2>1 DEF k
<1>15. Len(w) = MessageLength(path, ts, D)
  <2>1. Len(w) = m + k + Len(D)
    BY <1>3, <1>5, <1>7
  <2> QED BY <1>14, <2>1 DEF MessageLength, m, n
<1> QED BY <1>8, <1>12, <1>13, <1>14, <1>15 DEF n

\* Sent by one host and received by another.
LEMMA ReceivedIs ==
  ASSUME NEW path \in Text, NEW as \in Seq(Given), NEW g, NEW h, NEW GA, NEW RA,
         Parts(ArrivedAll(g, h, as), GA, RA, Byte)
  PROVE  LET w == Serialise(h, path, TypesOf(as), FlattenSeq(StoredAll(h, as)))
             r == Deserialise(g, w)
         IN  /\ r = [ok |-> TRUE, path |-> path, types |-> TypesOf(as),
                     typesize |-> PaddedSize(1 + Len(TypesOf(as))),
                     data |-> FlattenSeq(ArrivedAll(g, h, as)), argv |-> Places(SentAll(h, as), GA)]
             /\ Len(w) = MessageLength(path, TypesOf(as), FlattenSeq(SentAll(h, as)))
<1> DEFINE ts == TypesOf(as)
           D == FlattenSeq(SentAll(h, as))
           w == Serialise(h, path, ts, FlattenSeq(StoredAll(h, as)))
<1>1. ts \in Seq(Types) /\ SentAll(h, as) \in Seq(Seq(Byte))
  BY SequencesOf
<1>2. D \in Seq(Byte)
  <2> DEFINE s == SentAll(h, as)
  <2>1. s \in Seq(Seq(Byte))
    BY <1>1
  <2> HIDE DEF s
  <2>2. PICK G, R : Parts(s, G, R, Byte)
    BY <2>1, PartsExist
  <2>3. 0 \in 0 .. Len(s)
    BY <2>1
  <2>4. FlattenSeq(s) = G[0] \o R[0] /\ G[0] \in Seq(Byte) /\ R[0] \in Seq(Byte)
    BY <2>2, <2>3 DEF Parts
  <2>5. FlattenSeq(s) \in Seq(Byte)
    BY <2>4, Joined
  <2> QED BY <2>5 DEF s
<1>3. w = Message(path, ts, D)
  BY SendIs DEF Serialise, Message
<1>4. ReadArgs(g, ts, D) = [ok |-> TRUE, argv |-> Places(SentAll(h, as), GA),
                            data |-> FlattenSeq(ArrivedAll(g, h, as)), rest |-> <<>>]
  <2>1. <<>> \in Seq(Byte) /\ D \o <<>> = D
    BY <1>2, ConcatEmptySeq
  <2>2. ReadArgs(g, ts, D \o <<>>) = [ok |-> TRUE, argv |-> Places(SentAll(h, as), GA),
                            data |-> FlattenSeq(ArrivedAll(g, h, as)), rest |-> <<>>]
    BY <2>1, ReadIs
  <2> QED BY <2>1, <2>2
<1> HIDE DEF ts, D, w
<1>5. /\ Deserialise(g, w) = Read(path, ts, PaddedSize(1 + Len(ts)), ReadArgs(g, ts, D))
      /\ Len(w) = MessageLength(path, ts, D)
  BY <1>1, <1>2, <1>3, Delivered
<1>6. Deserialise(g, w) = [ok |-> TRUE, path |-> path, types |-> ts, typesize |-> PaddedSize(1 + Len(ts)),
         data |-> FlattenSeq(ArrivedAll(g, h, as)), argv |-> Places(SentAll(h, as), GA)]
  BY <1>4, <1>5 DEF Read
<1> QED BY <1>5, <1>6 DEF w, ts, D

\* One argument more.
LEMMA FlattenMore ==
  ASSUME NEW s \in Seq(Seq(Byte)), NEW y \in Seq(Byte)
  PROVE  FlattenSeq(Append(s, y)) = FlattenSeq(s) \o y /\ FlattenSeq(s) \in Seq(Byte)
<1> DEFINE t == Append(s, y)
           n == Len(s)
<1>1. /\ n \in Nat /\ t \in Seq(Seq(Byte)) /\ Len(t) = n + 1 /\ t[n + 1] = y
      /\ \A i \in 1 .. n : t[i] = s[i]
  BY AppendProperties
<1> HIDE DEF t
<1>2. PICK G, R : Parts(t, G, R, Byte)
  BY <1>1, PartsExist
<1>3. n \in 0 .. n + 1 /\ n + 1 \in 1 .. n + 1 /\ n + 1 \in 0 .. n + 1 /\ n + 1 - 1 = n
  BY <1>1
<1>4. /\ G[0] = <<>> /\ R[n + 1] = <<>>
      /\ FlattenSeq(t) = G[n + 1] \o R[n + 1] /\ G[n + 1] \in Seq(Byte) /\ G[n] \in Seq(Byte)
      /\ G[n + 1] = G[n] \o t[n + 1]
  <2>0. \A i \in 1 .. n + 1 : G[i] = G[i - 1] \o t[i]
    BY <1>1, <1>2 DEF Parts
  <2>1. \A k : k = n + 1 => G[k] = G[n] \o t[k]
    <3> TAKE k
    <3> HAVE k = n + 1
    <3>1. n \in Nat /\ k \in 1 .. n + 1 /\ k - 1 = n
      BY <1>1
    <3> HIDE DEF n
    <3>2. G[k] = G[k - 1] \o t[k]
      BY <2>0, <3>1
    <3> QED BY <3>1, <3>2
  <2> QED BY <1>1, <1>2, <1>3, <2>1 DEF Parts
<1>5. FlattenSeq(t) = G[n] \o y
  BY <1>1, <1>4, ConcatEmptySeq
<1> DEFINE H == [i \in 0 .. n |-> G[i]]
<1>6. H \in [0 .. n -> Seq(Byte)] /\ H[0] = <<>> /\ \A i \in 1 .. n : H[i] = H[i - 1] \o s[i]
  <2>1. \A i \in 0 .. n : i \in 0 .. n + 1
    BY <1>1
  <2>2. \A i \in 0 .. n : G[i] \in Seq(Byte)
    BY <1>1, <1>2, <2>1 DEF Parts
  <2>3. \A i \in 1 .. n : i \in 1 .. n + 1 /\ i \in 0 .. n /\ i - 1 \in 0 .. n
    BY <1>1
  <2>4. \A i \in 1 .. n : G[i] = G[i - 1] \o s[i]
    BY <1>1, <1>2, <2>3 DEF Parts
  <2>5. 0 \in 0 .. n
    BY <1>1
  <2> QED BY <1>4, <2>2, <2>3, <2>4, <2>5
<1>7. H[n] = G[n]
  BY <1>1
<1> HIDE DEF H
<1>8. FlattenSeq(s) = H[Len(s)]
  <2> HIDE DEF n
  <2>1. H \in [0 .. Len(s) -> Seq(Byte)] /\ \A i \in 1 .. Len(s) : H[i] = H[i - 1] \o s[i]
    BY <1>6 DEF n
  <2> QED BY <1>6, <2>1, Flattened
<1> QED BY <1>4, <1>5, <1>7, <1>8 DEF t

\* What is put together of parts as long is as long.
LEMMA AsLong ==
  ASSUME NEW s \in Seq(Seq(Byte)), NEW w \in Seq(Seq(Byte)), NEW G, NEW R, NEW GW, NEW RW,
         Parts(s, G, R, Byte), Parts(w, GW, RW, Byte),
         Len(w) = Len(s), \A i \in 1 .. Len(s) : Len(w[i]) = Len(s[i])
  PROVE  Len(FlattenSeq(w)) = Len(FlattenSeq(s))
<1> DEFINE n == Len(s)
           S == {i \in 0 .. n : Len(GW[i]) = Len(G[i])}
<1>1. n \in Nat /\ Len(w) = n /\ 0 \in 0 .. n /\ n \in 0 .. n
  OBVIOUS
<1> HIDE DEF n
<1>2. /\ FlattenSeq(s) = G[n] \o R[n] /\ R[n] = <<>> /\ G[n] \in Seq(Byte)
      /\ FlattenSeq(w) = GW[n] \o RW[n] /\ RW[n] = <<>> /\ GW[n] \in Seq(Byte)
  BY <1>1 DEF Parts, n
<1>3. G[0] = <<>> /\ GW[0] = <<>>
  BY DEF Parts
<1>4. \A i \in 1 .. n : PartOf(s, G, R, i) /\ PartOf(w, GW, RW, i)
  BY <1>1, PartAt DEF n
<1>5. \A i \in 1 .. n : i - 1 \in S => i \in S
  <2> SUFFICES ASSUME NEW i \in 1 .. n, i - 1 \in S PROVE i \in S
    OBVIOUS
  <2> DEFINE x == G[i - 1]
             y == s[i]
             u == GW[i - 1]
             v == w[i]
  <2>1. /\ x \in Seq(Byte) /\ y \in Seq(Byte) /\ G[i] = x \o y
        /\ u \in Seq(Byte) /\ v \in Seq(Byte) /\ GW[i] = u \o v
    BY <1>4 DEF PartOf
  <2>2. Len(u) = Len(x) /\ Len(v) = Len(y) /\ i \in 0 .. n
    BY <1>1 DEF n
  <2> HIDE DEF x, y, u, v
  <2>3. Len(GW[i]) = Len(G[i])
    <3>1. Len(x \o y) = Len(x) + Len(y)
      BY <2>1, Joined
    <3>2. Len(u \o v) = Len(u) + Len(v)
      BY <2>1, Joined
    <3> QED BY <2>1, <2>2, <3>1, <3>2
  <2> QED BY <2>2, <2>3
<1>6. 0 \in S
  BY <1>1, <1>3
<1> HIDE DEF S
<1>7. n \in S
  BY <1>1, <1>5, <1>6, ByPlace
<1>8. Len(GW[n]) = Len(G[n])
  BY <1>7 DEF S
<1> QED BY <1>2, <1>8, ConcatEmptySeq

\* To its own host a message is what it was.
LEMMA SameHost ==
  ASSUME NEW as \in Seq(Given), NEW h, NEW G, NEW R, Parts(StoredAll(h, as), G, R, Byte)
  PROVE  /\ ArrivedAll(h, h, as) = StoredAll(h, as)
         /\ Places(SentAll(h, as), G) = Places(StoredAll(h, as), G)
         /\ Len(FlattenSeq(SentAll(h, as))) = Len(FlattenSeq(StoredAll(h, as)))
<1> DEFINE s == StoredAll(h, as)
           w == SentAll(h, as)
           n == Len(as)
<1>1. /\ n \in Nat /\ DOMAIN as = 1 .. n /\ Len(s) = n /\ Len(w) = n
      /\ \A i \in 1 .. n : as[i] \in Given
  BY SequencesOf
<1>2. \A a \in Given : /\ HostEndian(h, a.type, OnWire(h, a)) = Stored(h, a)
                       /\ Len(OnWire(h, a)) = Len(Stored(h, a))
  BY ArgIsFaithful DEF Faithful
<1>3. ArrivedAll(h, h, as) = s
  <2>1. \A i \in DOMAIN as : HostEndian(h, as[i].type, OnWire(h, as[i])) = Stored(h, as[i])
    BY <1>1, <1>2
  <2> QED BY <2>1 DEF ArrivedAll, StoredAll
<1>4. \A i \in 1 .. n : s[i] = Stored(h, as[i]) /\ w[i] = OnWire(h, as[i])
  BY <1>1 DEF StoredAll, SentAll
<1>5. s \in Seq(Seq(Byte)) /\ w \in Seq(Seq(Byte)) /\ Parts(s, G, R, Byte)
  BY SequencesOf
<1> HIDE DEF s, w
<1>6. \A i \in 1 .. n : Len(w[i]) = Len(s[i])
  BY <1>1, <1>2, <1>4
<1>7. Places(w, G) = Places(s, G)
  BY <1>1, <1>6 DEF Places
<1>8. Len(FlattenSeq(w)) = Len(FlattenSeq(s))
  <2>1. PICK GW, RW : Parts(w, GW, RW, Byte)
    BY <1>5, PartsExist
  <2>2. Len(w) = Len(s) /\ \A i \in 1 .. Len(s) : Len(w[i]) = Len(s[i])
    BY <1>1, <1>6
  <2> HIDE DEF n
  <2> QED BY <1>5, <2>1, <2>2, AsLong
<1> QED BY <1>3, <1>7, <1>8 DEF s, w

----------------------------------------------------------------------------
(* The invariant *)

\* A message is what was added to it.
Contents ==
    /\ host \in Hosts
    /\ args \in Seq(Given)
    /\ types = TypesOf(args)
    /\ data = FlattenSeq(StoredAll(host, args))

Buffers ==
    /\ typesize \in Nat /\ Len(types) + 2 <= typesize
    /\ datasize \in Nat /\ Len(data) <= datasize
    /\ block \in Nat

Pointers == argv.set => argv.at = Argv(host, types, data) /\ argv.block = block

Within == ~overrun

\* How many items lo_message_add has taken.
Taken == Len(call.list.items) - Len(call.items)

\* After the arguments there were come the first n of the list.
Holding(n) ==
    /\ Len(call.before) + n <= Len(args)
    /\ \A i \in 1 .. Len(call.before) : args[i] = call.before[i]
    /\ \A i \in 1 .. n : args[Len(call.before) + i] = call.list.items[i]

\* A call that has met nothing unknown has added all it has taken; one that has
\* ended tells whether it took everything.
Calls ==
    /\ call \in [running : BOOLEAN, items : Seq([type : Byte, val : Seq(Byte)]),
                 list : [items : Seq([type : Byte, val : Seq(Byte)]), surplus : Int],
                 before : Seq(Given), ret : {0, -1, -2}]
    /\ Callable(call.list)
    /\ Taken \in Nat
    /\ \A j \in 1 .. Len(call.items) : call.items[j] = call.list.items[Taken + j]
    /\ call.running => /\ call.ret \in {0, -1}
                       /\ call.ret = 0 <=> \A i \in 1 .. Taken : Known(call.list.items[i])
                       /\ call.ret = 0 => Holding(Taken) /\ Len(args) = Len(call.before) + Taken
    /\ ~call.running => /\ call.items = <<>>
                        /\ call.ret = 0 <=> WellFormed(call.list)
                        /\ call.ret = 0 => Holding(Len(call.list.items))
    /\ Len(args) + Len(call.items) <= MaxArgs

MessageInv == Contents /\ Buffers /\ Pointers /\ Calls

----------------------------------------------------------------------------
(* The steps *)

LEMMA CapacitiesAreNumbers ==
  ASSUME datasize \in Nat
  PROVE  \A c \in Capacities : c \in Nat
<1> DEFINE n == MaxDoublings
           base == IF datasize = 0 THEN 8 ELSE datasize
           Cond(f) == f = [k \in 0 .. n |-> IF k = 0 THEN base ELSE 2 * f[k - 1]]
           f == CHOOSE f : Cond(f)
           twice == [i \in 1 .. n |-> [x \in Nat |-> 2 * x]]
<1>1. n \in Nat /\ base \in Nat
  BY MessagesAssumption
<1>2. Steps(twice, n, Nat)
  BY DEF Steps
<1>3. \A i \in 1 .. n : \A x \in Nat : twice[i][x] = 2 * x
  OBVIOUS
<1> HIDE DEF twice, base
<1>4. PICK F : Run(F, base, twice, n, Nat)
  <2> HIDE DEF n
  <2> QED BY <1>1, <1>2, Iterates
<1>5. F \in [0 .. n -> Nat] /\ F[0] = base /\ \A i \in 1 .. n : F[i] = 2 * F[i - 1]
  <2>1. F \in [0 .. n -> Nat] /\ F[0] = base /\ \A i \in 1 .. n : F[i] = twice[i][F[i - 1]]
    BY <1>4 DEF Run
  <2>2. \A i \in 1 .. n : i - 1 \in 0 .. n
    BY <1>1
  <2>3. \A i \in 1 .. n : F[i - 1] \in Nat
    BY <2>1, <2>2
  <2> QED BY <1>3, <2>1, <2>3
<1>6. Cond(F)
  <2>1. \A k \in 0 .. n : F[k] = IF k = 0 THEN base ELSE 2 * F[k - 1]
    BY <1>1, <1>5
  <2> QED BY <1>5, <2>1
<1>7. Cond(f)
  BY <1>6
<1>8. Capacities = {f[k] : k \in 0 .. n}
  BY DEF Capacities, base
<1> HIDE DEF f
<1>9. \A k \in 0 .. n : f[k] = IF k = 0 THEN base ELSE 2 * f[k - 1]
  BY <1>7
<1> DEFINE S == {k \in 0 .. n : f[k] \in Nat}
<1>10. 0 \in S /\ \A i \in 1 .. n : i - 1 \in S => i \in S
  BY <1>1, <1>9
<1> HIDE DEF S
<1>11. \A k \in 0 .. n : k \in S
  <2> HIDE DEF n
  <2> QED BY <1>1, <1>10, ByPlace
<1> QED BY <1>8, <1>11 DEF S

\* What the data of one argument do to those there were.
LEMMA ContentsGrow ==
  ASSUME Contents, NEW a \in Given, args' = Append(args, a), types' = Append(types, a.type),
         data' = data \o Stored(host, a), host' = host
  PROVE  Contents'
<1> DEFINE s == StoredAll(host, args)
           n == Len(args)
           more == Append(args, a)
<1>1. /\ args \in Seq(Given) /\ types = TypesOf(args) /\ data = FlattenSeq(s) /\ host \in Hosts
  BY DEF Contents
<1>2. /\ n \in Nat /\ more \in Seq(Given) /\ Len(more) = n + 1 /\ more[n + 1] = a
      /\ \A i \in 1 .. n : more[i] = args[i]
  BY <1>1, AppendProperties
<1>3. /\ s \in Seq(Seq(Byte)) /\ Len(s) = n /\ DOMAIN args = 1 .. n
      /\ TypesOf(args) \in Seq(Types) /\ Len(TypesOf(args)) = n
  BY <1>1, SequencesOf
<1>4. /\ StoredAll(host, more) \in Seq(Seq(Byte)) /\ Len(StoredAll(host, more)) = n + 1
      /\ TypesOf(more) \in Seq(Types) /\ Len(TypesOf(more)) = n + 1 /\ DOMAIN more = 1 .. n + 1
  BY <1>2, SequencesOf
<1>5. /\ Stored(host, a) \in Seq(Byte) /\ a.type \in Types
  BY ArgIsFaithful DEF Faithful, Given
<1> HIDE DEF more
<1>6. \A i \in 1 .. n + 1 : /\ StoredAll(host, more)[i] = IF i = n + 1 THEN Stored(host, a) ELSE s[i]
                            /\ TypesOf(more)[i] = IF i = n + 1 THEN a.type ELSE TypesOf(args)[i]
  <2> TAKE i \in 1 .. n + 1
  <2>0. i \in DOMAIN more
    BY <1>4
  <2>1. CASE i = n + 1
    BY <1>2, <2>0, <2>1 DEF StoredAll, TypesOf
  <2>2. CASE i # n + 1
    <3>1. i \in 1 .. n /\ i \in DOMAIN args
      BY <1>2, <1>3, <2>2
    <3>2. more[i] = args[i]
      BY <1>2, <3>1
    <3> QED BY <2>0, <2>2, <3>1, <3>2 DEF StoredAll, TypesOf
  <2> QED BY <2>1, <2>2
<1> DEFINE t == Append(s, Stored(host, a))
           u == Append(TypesOf(args), a.type)
<1>7. /\ t \in Seq(Seq(Byte)) /\ Len(t) = n + 1 /\ t[n + 1] = Stored(host, a) /\ \A i \in 1 .. n : t[i] = s[i]
  <2> HIDE DEF s
  <2> QED BY <1>3, <1>5, AppendProperties
<1>8. /\ u \in Seq(Types) /\ Len(u) = n + 1 /\ u[n + 1] = a.type /\ \A i \in 1 .. n : u[i] = TypesOf(args)[i]
  BY <1>3, <1>5, AppendProperties
<1> HIDE DEF s, t, u
<1>9. \A i \in 1 .. n + 1 : t[i] = StoredAll(host, more)[i] /\ u[i] = TypesOf(more)[i]
  <2> TAKE i \in 1 .. n + 1
  <2>1. CASE i = n + 1
    BY <1>6, <1>7, <1>8, <2>1
  <2>2. CASE i # n + 1
    <3>1. i \in 1 .. n
      BY <1>2, <2>2
    <3> QED BY <1>6, <1>7, <1>8, <2>2, <3>1
  <2> QED BY <2>1, <2>2
<1>10. t = StoredAll(host, more)
  BY <1>4, <1>7, <1>9, SeqEqual
<1>11. u = TypesOf(more)
  BY <1>4, <1>8, <1>9, SeqEqual
<1>12. FlattenSeq(t) = FlattenSeq(s) \o Stored(host, a)
  BY <1>3, <1>5, FlattenMore DEF t
<1>13. types' = TypesOf(args') /\ args' = more
  BY <1>1, <1>11 DEF u, more
<1>14. data' = FlattenSeq(StoredAll(host', args'))
  BY <1>1, <1>10, <1>12, <1>13
<1> QED BY <1>1, <1>2, <1>13, <1>14 DEF Contents

LEMMA ContentsAreBytes ==
  ASSUME Contents
  PROVE  /\ data \in Seq(Byte) /\ types \in Seq(Types) /\ Len(types) = Len(args)
         /\ Len(types) \in Nat /\ Len(data) \in Nat
<1> DEFINE s == StoredAll(host, args)
<1>1. args \in Seq(Given) /\ types = TypesOf(args) /\ data = FlattenSeq(s)
  BY DEF Contents
<1>2. s \in Seq(Seq(Byte)) /\ TypesOf(args) \in Seq(Types) /\ Len(TypesOf(args)) = Len(args) /\ Len(args) \in Nat
  BY <1>1, SequencesOf
<1>3. <<>> \in Seq(Byte)
  OBVIOUS
<1> HIDE DEF s
<1>4. FlattenSeq(s) \in Seq(Byte)
  BY <1>2, <1>3, FlattenMore
<1>5. Len(data) \in Nat
  BY <1>1, <1>4, LenProperties
<1> QED BY <1>1, <1>2, <1>4, <1>5

LEMMA PutKeeps ==
  ASSUME Contents, Buffers, NEW a \in Given, Put(a), host' = host
  PROVE  /\ Contents' /\ Buffers' /\ Pointers' /\ args' = Append(args, a)
         /\ PointerSize = 4 /\ Within => Within'
<1> DEFINE b == ArgBytes(host, a)
<1>1. /\ types' = Append(types, a.type) /\ argv' = NoArgv /\ args' = Append(args, a)
      /\ typesize' = IF Len(types) + 2 >= typesize
                       THEN (IF typesize = 0 THEN 8 ELSE 2 * typesize) ELSE typesize
  BY DEF Put, AddTypechar
<1>2. /\ data \in Seq(Byte) /\ Len(data) \in Nat /\ types \in Seq(Types) /\ Len(types) \in Nat
  BY ContentsAreBytes
<1>3. /\ typesize \in Nat /\ Len(types) + 2 <= typesize /\ datasize \in Nat /\ Len(data) <= datasize
      /\ block \in Nat
  BY DEF Buffers
<1>4. typesize' \in Nat /\ Len(types') + 2 <= typesize'
  <2>1. Len(types') = Len(types) + 1
    <3>1. a.type \in Types
      BY DEF Given
    <3> QED BY <1>1, <1>2, <3>1
  <2> DEFINE l == Len(types)
  <2> HIDE DEF l
  <2>2. l \in Nat /\ l + 2 <= typesize /\ Len(types') = l + 1
        /\ typesize' = IF l + 2 >= typesize THEN (IF typesize = 0 THEN 8 ELSE 2 * typesize) ELSE typesize
    BY <1>1, <1>2, <1>3, <2>1 DEF l
  <2> QED BY <1>3, <2>2
<1>5. Pointers'
  BY <1>1 DEF Pointers, NoArgv
<1>6. Stored(host, a) \in Seq(Byte)
  BY ArgIsFaithful DEF Faithful
<1>7. /\ data' = data \o Stored(host, a) /\ datasize' \in Nat /\ Len(data') <= datasize' /\ block' \in Nat
      /\ PointerSize = 4 /\ Within => Within'
  <2>1. CASE a.type \in Empty
    <3>1. Stored(host, a) = <<>> /\ UNCHANGED <<data, datasize, block, overrun>>
      BY <2>1 DEF Put, Stored
    <3> QED BY <1>2, <1>3, <3>1, ConcatEmptySeq DEF Within
  <2>2. CASE a.type \notin Empty
    <3>1. Stored(host, a) = b /\ AddData(b, Written(a))
      BY <2>2 DEF Put, Stored
    <3>2. b \in Seq(Byte)
      BY <1>6, <3>1
    <3>3. PointerSize = 4 => Written(a) = Len(b)
      <4>1. CASE a.type = Midi
        <5>1. b = a.val
          BY <4>1 DEF ArgBytes, Midi, Char, Words, LongWords, Strings, Blob, Int32, Float, Int64, Timetag,
                      Double, String, Symbol
        <5>2. Len(a.val) = 4
          BY <4>1 DEF Given, WellTyped
        <5> QED BY <4>1, <5>1, <5>2 DEF Written
      <4>2. CASE a.type # Midi
        BY <4>2 DEF Written
      <4> QED BY <4>1, <4>2
    <3> HIDE DEF b
    <3>4. PICK space \in Capacities :
               /\ Len(data) + Len(b) <= space /\ datasize' = space /\ data' = data \o b
               /\ block' = block + 1 /\ overrun' = (overrun \/ Len(data) + Written(a) > space)
      BY <3>1 DEF AddData
    <3>5. space \in Nat
      BY <1>3, CapacitiesAreNumbers
    <3>6. Len(data') = Len(data) + Len(b) /\ Len(b) \in Nat
      BY <1>2, <3>2, <3>4, Joined
    <3>7. PointerSize = 4 /\ Within => Within'
      <4> SUFFICES ASSUME PointerSize = 4, ~overrun PROVE ~overrun'
        BY DEF Within
      <4>1. ~(Len(data) + Written(a) > space)
        BY <1>2, <3>3, <3>4, <3>5, <3>6
      <4> QED BY <3>4, <4>1
    <3> QED BY <1>3, <3>1, <3>4, <3>5, <3>6, <3>7
  <2> QED BY <2>1, <2>2
<1>8. Contents'
  BY <1>1, <1>7, ContentsGrow
<1> QED BY <1>1, <1>3, <1>4, <1>5, <1>7, <1>8 DEF Buffers

\* The items, of a list of which some have been taken.
LEMMA ItemFacts ==
  ASSUME Calls, call.items # <<>>
  PROVE  LET it == Head(call.items)
             rest == Tail(call.items)
         IN  /\ it \in [type : Byte, val : Seq(Byte)]
             /\ it = call.list.items[Taken + 1] /\ Taken + 1 \in DOMAIN call.list.items
             /\ Known(it) => it \in Given
             /\ it = Missing(Symbol) => call.list.surplus # 0
             /\ rest \in Seq([type : Byte, val : Seq(Byte)])
             /\ Len(call.items) \in Nat /\ Len(rest) = Len(call.items) - 1 /\ Len(rest) \in Nat
             /\ Len(call.list.items) - Len(rest) = Taken + 1
             /\ Taken \in Nat /\ Len(call.list.items) \in Nat
             /\ \A j \in 1 .. Len(rest) : rest[j] = call.list.items[Taken + 1 + j]
<1> DEFINE I == [type : Byte, val : Seq(Byte)]
           s == call.items
           l == call.list.items
           it == Head(s)
           rest == Tail(s)
<1>1. /\ s \in Seq(I) /\ l \in Seq(I) /\ s # <<>> /\ Callable(call.list)
      /\ Taken = Len(l) - Len(s) /\ Taken \in Nat
      /\ \A j \in 1 .. Len(s) : s[j] = l[Taken + j]
  BY DEF Calls, Taken
<1> HIDE DEF I, s, l
<1>2. /\ Len(s) \in Nat \ {0} /\ Len(l) \in Nat /\ it \in I /\ it = s[1]
      /\ rest \in Seq(I) /\ Len(rest) = Len(s) - 1 /\ \A j \in 1 .. Len(s) - 1 : rest[j] = s[j + 1]
  BY <1>1
<1> HIDE DEF rest, it
<1>3. Len(l) - Len(rest) = Taken + 1 /\ Taken + 1 \in 1 .. Len(l) /\ Len(rest) \in Nat
  BY <1>1, <1>2
<1>4. it = l[Taken + 1]
  <2>1. 1 \in 1 .. Len(s)
    BY <1>2
  <2> QED BY <1>1, <1>2, <2>1
<1>5. Taken + 1 \in DOMAIN l
  BY <1>1, <1>3
<1>6. /\ Known(it) => WellTyped(it)
      /\ it = Missing(Symbol) => call.list.surplus # 0
  <2>1. \A i \in DOMAIN l : /\ Known(l[i]) => WellTyped(l[i])
                            /\ l[i] = Missing(Symbol) => call.list.surplus # 0
    BY <1>1 DEF Callable, l
  <2> HIDE DEF Known
  <2> QED BY <1>4, <1>5, <2>1
<1>7. Known(it) => it \in Given
  BY <1>6 DEF WellTyped, Given
<1>8. \A j \in 1 .. Len(rest) : rest[j] = l[Taken + 1 + j]
  <2> TAKE j \in 1 .. Len(rest)
  <2>1. j \in 1 .. Len(s) - 1 /\ j + 1 \in 1 .. Len(s) /\ Taken + (j + 1) = Taken + 1 + j
    BY <1>1, <1>2
  <2>2. rest[j] = s[j + 1] /\ s[j + 1] = l[Taken + (j + 1)]
    BY <1>1, <1>2, <2>1
  <2> QED BY <2>1, <2>2
<1> QED BY <1>1, <1>2, <1>3, <1>4, <1>5, <1>6, <1>7, <1>8 DEF I, s, l, it, rest

\* One item is taken: added, or unknown.
LEMMA CallsGoOn ==
  ASSUME Calls, call.running, call.items # <<>>, args \in Seq(Given), NEW v,
         call' = [call EXCEPT !.items = Tail(@), !.ret = v],
         \/ /\ Known(Head(call.items)) /\ v = call.ret
            /\ args' = Append(args, Head(call.items))
         \/ ~Known(Head(call.items)) /\ v = -1 /\ args' = args
  PROVE  Calls'
<1> DEFINE it == Head(call.items)
           rest == Tail(call.items)
           l == call.list.items
           k == Taken
           I == [type : Byte, val : Seq(Byte)]
           m == Len(call.before)
           n == Len(args)
<1>1. /\ it = l[k + 1] /\ (Known(it) => it \in Given) /\ rest \in Seq(I)
      /\ Len(call.items) \in Nat /\ Len(rest) = Len(call.items) - 1 /\ Len(rest) \in Nat
      /\ Len(l) - Len(rest) = k + 1 /\ k \in Nat
      /\ \A j \in 1 .. Len(rest) : rest[j] = l[k + 1 + j]
  BY ItemFacts
<1>2. /\ call \in [running : BOOLEAN, items : Seq(I), list : [items : Seq(I), surplus : Int],
                   before : Seq(Given), ret : {0, -1, -2}]
      /\ Callable(call.list) /\ call.ret \in {0, -1}
      /\ (call.ret = 0 <=> \A i \in 1 .. k : Known(l[i]))
      /\ call.ret = 0 => Holding(k) /\ n = m + k
      /\ n + Len(call.items) <= MaxArgs
  BY DEF Calls
<1>3. m \in Nat /\ n \in Nat
  BY <1>2
<1>4. v \in {0, -1}
  BY <1>2
<1>5. /\ call'.running = TRUE /\ call'.items = rest /\ call'.list = call.list
      /\ call'.before = call.before /\ call'.ret = v
  BY <1>2
<1>6. call' \in [running : BOOLEAN, items : Seq(I), list : [items : Seq(I), surplus : Int],
                 before : Seq(Given), ret : {0, -1, -2}]
  <2>1. rest \in Seq(I) /\ v \in {0, -1, -2}
    BY <1>1, <1>4
  <2> HIDE DEF I, rest
  <2> QED BY <1>2, <2>1 DEF rest
<1>7. Taken' = k + 1
  BY <1>1, <1>5 DEF Taken
<1> HIDE DEF it, rest, l, k, I, m, n
<1>8. Len(args') + Len(rest) <= MaxArgs
  <2>1. CASE args' = args
    BY <1>1, <1>2, <1>3, <2>1, MessagesAssumption DEF n
  <2>2. CASE args' # args
    <3>1. it \in Given /\ args' = Append(args, it)
      BY <1>1, <2>2 DEF it
    <3>2. Len(args') = n + 1
      BY <3>1 DEF n
    <3> QED BY <1>1, <1>2, <1>3, <3>2, MessagesAssumption
  <2> QED BY <2>1, <2>2
<1>9. v = 0 <=> \A i \in 1 .. k + 1 : Known(l[i])
  <2>1. (\A i \in 1 .. k + 1 : Known(l[i])) <=> (\A i \in 1 .. k : Known(l[i])) /\ Known(l[k + 1])
    <3>1. k + 1 \in 1 .. k + 1 /\ (\A i \in 1 .. k : i \in 1 .. k + 1)
          /\ \A i \in 1 .. k + 1 : i \in 1 .. k \/ i = k + 1
      BY <1>1
    <3> QED BY <3>1
  <2>2. (Known(it) /\ v = call.ret) \/ (~Known(it) /\ v = -1)
    BY DEF it
  <2> QED BY <1>1, <1>2, <2>1, <2>2
<1>10. ASSUME v = 0
       PROVE  /\ m + (k + 1) <= Len(args') /\ Len(args') = m + (k + 1)
              /\ \A i \in 1 .. m : args'[i] = call.before[i]
              /\ \A i \in 1 .. k + 1 : args'[m + i] = l[i]
  <2>1. Known(it) /\ call.ret = 0 /\ args' = Append(args, it)
    BY <1>10 DEF it
  <2>2. it \in Given /\ Holding(k) /\ n = m + k
    BY <1>1, <1>2, <2>1
  <2>3. /\ Len(args') = n + 1 /\ args'[n + 1] = it /\ \A i \in 1 .. n : args'[i] = args[i]
    BY <2>1, <2>2, AppendProperties DEF n
  <2>4. /\ \A i \in 1 .. m : args[i] = call.before[i]
        /\ \A i \in 1 .. k : args[m + i] = l[i]
    BY <2>2 DEF Holding, m, l
  <2>5. \A i \in 1 .. m : args'[i] = call.before[i]
    <3>1. \A i \in 1 .. m : i \in 1 .. n
      BY <1>1, <1>3, <2>2
    <3> QED BY <2>3, <2>4, <3>1
  <2>6. \A i \in 1 .. k + 1 : args'[m + i] = l[i]
    <3> TAKE i \in 1 .. k + 1
    <3>1. CASE i = k + 1
      <4>1. m + i = n + 1
        BY <1>1, <1>3, <2>2, <3>1
      <4> QED BY <1>1, <2>3, <3>1, <4>1
    <3>2. CASE i # k + 1
      <4>1. i \in 1 .. k /\ m + i \in 1 .. n
        BY <1>1, <1>3, <2>2, <3>2
      <4> QED BY <2>3, <2>4, <4>1
    <3> QED BY <3>1, <3>2
  <2> QED BY <1>1, <1>3, <2>2, <2>3, <2>5, <2>6
<1>11. v = 0 => Holding(Taken)' /\ Len(args') = Len(call'.before) + Taken'
  <2>1. call'.list.items = l /\ Len(call'.before) = m /\ call'.before = call.before
    BY <1>5 DEF l, m
  <2> QED BY <1>7, <1>10, <2>1 DEF Holding
<1>12. call'.ret = 0 <=> \A i \in 1 .. Taken' : Known(call'.list.items[i])
  BY <1>5, <1>7, <1>9 DEF l
<1>13. \A j \in 1 .. Len(call'.items) : call'.items[j] = call'.list.items[Taken' + j]
  BY <1>1, <1>5, <1>7 DEF l
<1>14. Taken' \in Nat /\ Callable(call'.list) /\ Len(args') + Len(call'.items) <= MaxArgs
  BY <1>1, <1>2, <1>5, <1>7, <1>8
<1>15. call'.ret \in {0, -1} /\ call'.ret = v /\ call'.running
  BY <1>4, <1>5
<1> HIDE DEF Known, Holding, Taken
<1> QED BY <1>6, <1>11, <1>12, <1>13, <1>14, <1>15 DEF Calls, I

\* Nothing is being added, and nothing has been.
NoneYet == call = NoCall /\ args \in Seq(Given) /\ Len(args) <= MaxArgs

LEMMA CallsNone == NoneYet => Calls
<1> SUFFICES ASSUME NoneYet PROVE Calls
  OBVIOUS
<1> USE DEF NoneYet
<1> DEFINE I == [type : Byte, val : Seq(Byte)]
<1>1. /\ call.running = FALSE /\ call.items = <<>> /\ call.list = [items |-> <<>>, surplus |-> 0]
      /\ call.before = <<>> /\ call.ret = 0 /\ call.list.items = <<>> /\ call.list.surplus = 0
  BY DEF NoCall
<1>2. <<>> \in Seq(I) /\ <<>> \in Seq(Given) /\ Len(<<>>) = 0
  OBVIOUS
<1>3. call \in [running : BOOLEAN, items : Seq(I), list : [items : Seq(I), surplus : Int],
                 before : Seq(Given), ret : {0, -1, -2}]
  <2> HIDE DEF I
  <2> QED BY <1>2 DEF NoCall
<1>4. Callable(call.list)
  <2>1. call.list \in [items : Seq(I), surplus : Int] /\ DOMAIN call.list.items = {}
    BY <1>1, <1>3
  <2> QED BY <2>1 DEF Callable, I
<1>5. Taken = 0
  BY <1>1, <1>2 DEF Taken
<1>6. WellFormed(call.list)
  BY <1>1 DEF WellFormed
<1>7. Len(args) \in Nat
  BY LenProperties
<1>8. Holding(Len(call.list.items))
  BY <1>1, <1>2, <1>7 DEF Holding
<1>9. Len(args) + Len(call.items) <= MaxArgs
  BY <1>1, <1>2, <1>7, MessagesAssumption
<1>10. \A j \in 1 .. Len(call.items) : call.items[j] = call.list.items[Taken + j]
  BY <1>1, <1>2
<1>11. Taken \in Nat
  BY <1>5
<1> HIDE DEF Holding, Taken, WellFormed, Callable
<1> QED BY <1>1, <1>3, <1>4, <1>6, <1>8, <1>9, <1>10, <1>11 DEF Calls, I

LEMMA CallsNoneNext == NoneYet' => Calls'
BY CallsNone, PTL

LEMMA CallsBegin ==
  ASSUME Contents, NEW list \in Lists, Len(args) + Len(list.items) <= MaxArgs, args' = args,
         call' = [running |-> TRUE, items |-> list.items, list |-> list, before |-> args, ret |-> 0]
  PROVE  Calls'
<1> DEFINE I == [type : Byte, val : Seq(Byte)]
<1>1. /\ call'.running = TRUE /\ call'.items = list.items /\ call'.list = list
      /\ call'.before = args /\ call'.ret = 0
  OBVIOUS
<1>2. Callable(list) /\ list \in [items : Seq(I), surplus : Int] /\ args \in Seq(Given)
  BY MessagesAssumption DEF Callable, Contents
<1>3. list.items \in Seq(I) /\ Len(list.items) \in Nat /\ Len(args) \in Nat
  <2> HIDE DEF I
  <2>1. list.items \in Seq(I)
    BY <1>2
  <2> QED BY <1>2, <2>1, LenProperties
<1>4. call' \in [running : BOOLEAN, items : Seq(I), list : [items : Seq(I), surplus : Int],
                 before : Seq(Given), ret : {0, -1, -2}]
  <2> HIDE DEF I
  <2> QED BY <1>2, <1>3
<1>5. Taken' = 0
  BY <1>1, <1>3 DEF Taken
<1>6. \A i \in 1 .. Taken' : Known(call'.list.items[i])
  BY <1>5
<1>7. Holding(Taken)' /\ Len(args') = Len(call'.before) + Taken'
  BY <1>1, <1>3, <1>5 DEF Holding
<1>8. \A j \in 1 .. Len(call'.items) : call'.items[j] = call'.list.items[Taken' + j]
  BY <1>1, <1>5
<1>9. Taken' \in Nat /\ Callable(call'.list) /\ Len(args') + Len(call'.items) <= MaxArgs
  BY <1>1, <1>2, <1>5
<1> HIDE DEF Holding, Taken, Callable, Known
<1> QED BY <1>1, <1>4, <1>6, <1>7, <1>8, <1>9 DEF Calls, I

LEMMA CallsStop ==
  ASSUME Calls, Contents, NEW v \in {0, -1, -2}, args' = args,
         call' = [call EXCEPT !.running = FALSE, !.items = <<>>, !.ret = v],
         v = 0 <=> WellFormed(call.list), v = 0 => Holding(Len(call.list.items))
  PROVE  Calls'
<1> DEFINE I == [type : Byte, val : Seq(Byte)]
<1>1. /\ call \in [running : BOOLEAN, items : Seq(I), list : [items : Seq(I), surplus : Int],
                   before : Seq(Given), ret : {0, -1, -2}]
      /\ Callable(call.list) /\ Len(args) + Len(call.items) <= MaxArgs
  BY DEF Calls
<1>2. /\ call'.running = FALSE /\ call'.items = <<>> /\ call'.list = call.list
      /\ call'.before = call.before /\ call'.ret = v
  BY <1>1
<1>3. <<>> \in Seq(I) /\ Len(<<>>) = 0
  OBVIOUS
<1>4. Len(call.items) \in Nat /\ Len(args) \in Nat /\ Len(call.list.items) \in Nat
  <2> HIDE DEF I
  <2>1. call.items \in Seq(I) /\ call.list.items \in Seq(I) /\ args \in Seq(Given)
    BY <1>1 DEF Contents
  <2> QED BY <2>1, LenProperties
<1>5. call' \in [running : BOOLEAN, items : Seq(I), list : [items : Seq(I), surplus : Int],
                 before : Seq(Given), ret : {0, -1, -2}]
  <2> HIDE DEF I
  <2> QED BY <1>1, <1>3
<1>6. Taken' = Len(call.list.items)
  BY <1>2, <1>3, <1>4 DEF Taken
<1>7. v = 0 => Holding(Len(call.list.items))'
  BY <1>2 DEF Holding
<1>8. \A j \in 1 .. Len(call'.items) : call'.items[j] = call'.list.items[Taken' + j]
  BY <1>2, <1>3
<1>9. Len(args') + Len(call'.items) <= MaxArgs
  BY <1>1, <1>2, <1>3, <1>4, MessagesAssumption
<1>10. Taken' \in Nat /\ Callable(call'.list)
  BY <1>1, <1>2, <1>4, <1>6
<1> HIDE DEF Holding, Taken, WellFormed, Callable
<1> QED BY <1>2, <1>5, <1>7, <1>8, <1>9, <1>10 DEF Calls, I

\* A step that adds nothing leaves what is known of the call.
LEMMA CallsStay ==
  ASSUME Calls, call' = call, args' = args
  PROVE  Calls'
BY DEF Calls, Taken, Holding

LEMMA ContentsStay ==
  ASSUME Contents, host' = host, args' = args, types' = types, data' = data
  PROVE  Contents'
BY DEF Contents

LEMMA NoNul == Seq(Byte \ {Nul}) \subseteq Text
<1> SUFFICES ASSUME NEW p \in Seq(Byte \ {Nul}) PROVE p \in Text
  OBVIOUS
<1> DEFINE V == Byte \ {Nul}
<1>1. p \in Seq(V) /\ V \subseteq Byte
  OBVIOUS
<1>2. p \in Seq(Byte)
  <2> HIDE DEF V
  <2> QED BY <1>1, SeqMonotonic
<1>3. \A i \in DOMAIN p : p[i] \in V
  <2> HIDE DEF V
  <2> QED BY <1>1
<1> QED BY <1>2, <1>3 DEF Text

LEMMA PathsAreText == Paths \subseteq Text
BY NoNul, MessagesAssumption

\* The message a host has sent to itself is the one it had.
LEMMA BackAgain ==
  ASSUME Contents, NEW path \in Paths
  PROVE  LET w == Serialise(host, path, types, data)
         IN  /\ Deserialise(host, w) =
                  [ok |-> TRUE, path |-> path, types |-> types, typesize |-> PaddedSize(1 + Len(types)),
                   data |-> data, argv |-> Argv(host, types, data)]
             /\ Len(w) = MessageLength(path, types, data)
<1> DEFINE s == StoredAll(host, args)
           w == Serialise(host, path, types, data)
<1>1. args \in Seq(Given) /\ types = TypesOf(args) /\ data = FlattenSeq(s)
  BY DEF Contents
<1>2. path \in Text
  BY PathsAreText
<1>3. s \in Seq(Seq(Byte))
  BY <1>1, SequencesOf
<1>4. PICK G, R : Parts(s, G, R, Byte)
  <2> HIDE DEF s
  <2> QED BY <1>3, PartsExist
<1>5. /\ ArrivedAll(host, host, args) = s /\ Places(SentAll(host, args), G) = Places(s, G)
      /\ Len(FlattenSeq(SentAll(host, args))) = Len(data)
  BY <1>1, <1>4, SameHost
<1>6. Parts(ArrivedAll(host, host, args), G, R, Byte)
  BY <1>4, <1>5
<1>7. /\ Deserialise(host, w) =
           [ok |-> TRUE, path |-> path, types |-> types, typesize |-> PaddedSize(1 + Len(types)),
            data |-> FlattenSeq(ArrivedAll(host, host, args)), argv |-> Places(SentAll(host, args), G)]
      /\ Len(w) = MessageLength(path, types, FlattenSeq(SentAll(host, args)))
  BY <1>1, <1>2, <1>6, ReceivedIs
<1>8. Argv(host, types, data) = Places(s, G)
  BY <1>1, <1>4, WalkIs
<1> HIDE DEF s, w
<1>9. Deserialise(host, w) =
           [ok |-> TRUE, path |-> path, types |-> types, typesize |-> PaddedSize(1 + Len(types)),
            data |-> data, argv |-> Argv(host, types, data)]
  BY <1>1, <1>5, <1>7, <1>8
<1>10. Len(w) = MessageLength(path, types, data)
  BY <1>5, <1>7 DEF MessageLength
<1> QED BY <1>9, <1>10 DEF w

Bare == host \in Hosts /\ args = <<>> /\ types = <<>> /\ data = <<>>

LEMMA NothingAdded == Bare => Contents
<1> SUFFICES ASSUME Bare PROVE Contents
  OBVIOUS
<1> USE DEF Bare
<1>1. <<>> \in Seq(Given) /\ <<>> \in Seq(Types) /\ Len(<<>>) = 0 /\ <<>> \in Seq(Seq(Byte))
  OBVIOUS
<1>2. TypesOf(<<>>) \in Seq(Types) /\ Len(TypesOf(<<>>)) = 0
      /\ StoredAll(host, <<>>) \in Seq(Seq(Byte)) /\ Len(StoredAll(host, <<>>)) = 0
  BY <1>1, SequencesOf
<1>3. TypesOf(<<>>) = <<>> /\ StoredAll(host, <<>>) = <<>>
  BY <1>2, EmptySeq
<1>4. FlattenSeq(<<>>) = <<>>
  BY DEF FlattenSeq
<1> QED BY <1>1, <1>3, <1>4 DEF Contents

LEMMA NothingAddedNext == Bare' => Contents'
BY NothingAdded, PTL

LEMMA Begun == Init => MessageInv /\ Within
<1> SUFFICES ASSUME Init PROVE MessageInv /\ Within
  OBVIOUS
<1>1. Contents
  BY NothingAdded DEF Init, Bare
<1>2. Buffers /\ Pointers /\ Within
  BY DEF Init, Buffers, Pointers, Within, NoArgv
<1>3. NoneYet
  <2>1. args = <<>> /\ call = NoCall
    BY DEF Init
  <2>2. <<>> \in Seq(Given) /\ Len(<<>>) = 0
    OBVIOUS
  <2> QED BY <2>1, <2>2, MessagesAssumption DEF NoneYet
<1>4. Calls
  BY <1>3, CallsNone
<1> QED BY <1>1, <1>2, <1>4 DEF MessageInv

LEMMA AddKeeps ==
  ASSUME MessageInv, Add
  PROVE  MessageInv' /\ (PointerSize = 4 /\ Within => Within')
<1>1. PICK a \in Arguments : Room /\ Put(a) /\ call' = NoCall /\ host' = host
  BY DEF Add
<1>2. a \in Given
  BY MessagesAssumption DEF Given, WellTyped
<1>3. /\ Contents' /\ Buffers' /\ Pointers' /\ args' = Append(args, a)
      /\ PointerSize = 4 /\ Within => Within'
  BY <1>1, <1>2, PutKeeps DEF MessageInv
<1>4. NoneYet'
  <2>1. args \in Seq(Given)
    BY DEF MessageInv, Contents
  <2>2. args' \in Seq(Given) /\ Len(args') = Len(args) + 1 /\ Len(args) \in Nat
    BY <1>2, <1>3, <2>1
  <2>3. Len(args') <= MaxArgs
    BY <1>1, <2>2, MessagesAssumption DEF Room
  <2> QED BY <1>1, <2>2, <2>3 DEF NoneYet
<1> QED BY <1>3, <1>4, CallsNoneNext DEF MessageInv

LEMMA AddListKeeps ==
  ASSUME MessageInv, AddList
  PROVE  MessageInv' /\ (PointerSize = 4 /\ Within => Within')
<1>1. PICK list \in Lists :
         /\ Len(args) + Len(list.items) <= MaxArgs
         /\ call' = [running |-> TRUE, items |-> list.items, list |-> list, before |-> args, ret |-> 0]
         /\ UNCHANGED <<host, message>>
  BY DEF AddList
<1>2. Calls'
  BY <1>1, CallsBegin DEF MessageInv, message
<1>3. Contents'
  BY <1>1, ContentsStay DEF MessageInv, message
<1> QED BY <1>1, <1>2, <1>3 DEF MessageInv, message, Buffers, Pointers, Within

LEMMA AddNextKeeps ==
  ASSUME MessageInv, AddNext
  PROVE  MessageInv' /\ (PointerSize = 4 /\ Within => Within')
<1> DEFINE it == Head(call.items)
<1>1. /\ call.running /\ call.items # <<>> /\ host' = host
      /\ \/ ~Known(it) /\ call' = [call EXCEPT !.items = Tail(@), !.ret = -1] /\ UNCHANGED message
         \/ it = Missing(Symbol) /\ Done(-2) /\ UNCHANGED message
         \/ /\ Known(it) /\ it # Missing(Symbol) /\ Put(it)
            /\ call' = [call EXCEPT !.items = Tail(@)]
  BY DEF AddNext
<1>2. Contents /\ Buffers /\ Pointers /\ Calls /\ args \in Seq(Given)
  BY DEF MessageInv, Contents
<1>3. /\ Known(it) => it \in Given
      /\ it = Missing(Symbol) => call.list.surplus # 0
  BY <1>1, <1>2, ItemFacts
<1> HIDE DEF it
<1>4. CASE ~Known(it) /\ call' = [call EXCEPT !.items = Tail(@), !.ret = -1] /\ UNCHANGED message
  <2>1. Calls'
    <3>1. args' = args /\ ~Known(Head(call.items))
      BY <1>4 DEF message, it
    <3> QED BY <1>1, <1>2, <1>4, <3>1, CallsGoOn
  <2>2. Contents'
    BY <1>1, <1>2, <1>4, ContentsStay DEF message
  <2> QED BY <1>1, <1>2, <1>4, <2>1, <2>2 DEF MessageInv, message, Buffers, Pointers, Within
<1>5. CASE it = Missing(Symbol) /\ Done(-2) /\ UNCHANGED message
  <2>1. Calls'
    <3>1. ~WellFormed(call.list)
      BY <1>3, <1>5 DEF WellFormed
    <3>2. call' = [call EXCEPT !.running = FALSE, !.items = <<>>, !.ret = -2]
      BY <1>5 DEF Done
    <3>3. args' = args /\ -2 \in {0, -1, -2} /\ -2 # 0
      BY <1>5 DEF message
    <3> QED BY <1>2, <3>1, <3>2, <3>3, CallsStop
  <2>2. Contents'
    BY <1>1, <1>2, <1>5, ContentsStay DEF message
  <2> QED BY <1>1, <1>2, <1>5, <2>1, <2>2 DEF MessageInv, message, Buffers, Pointers, Within
<1>6. CASE /\ Known(it) /\ it # Missing(Symbol) /\ Put(it)
           /\ call' = [call EXCEPT !.items = Tail(@)]
  <2>1. /\ Contents' /\ Buffers' /\ Pointers' /\ args' = Append(args, it)
        /\ PointerSize = 4 /\ Within => Within'
    BY <1>1, <1>2, <1>3, <1>6, PutKeeps
  <2>2. Calls'
    <3> DEFINE v == call.ret
    <3>1. call' = [call EXCEPT !.items = Tail(@), !.ret = v]
      BY <1>2, <1>6 DEF Calls
    <3>2. Known(Head(call.items)) /\ args' = Append(args, Head(call.items)) /\ v = call.ret
      BY <1>6, <2>1 DEF it
    <3> HIDE DEF v
    <3> QED BY <1>1, <1>2, <3>1, <3>2, CallsGoOn
  <2> QED BY <2>1, <2>2 DEF MessageInv
<1> QED BY <1>1, <1>4, <1>5, <1>6

LEMMA AddEndKeeps ==
  ASSUME MessageInv, AddEnd
  PROVE  MessageInv' /\ (PointerSize = 4 /\ Within => Within')
<1> DEFINE v == IF call.list.surplus # 0 THEN -2 ELSE call.ret
           l == call.list.items
<1>1. /\ call.running /\ call.items = <<>> /\ UNCHANGED <<host, message>>
      /\ call' = [call EXCEPT !.running = FALSE, !.items = <<>>, !.ret = v]
  BY DEF AddEnd, Done
<1>2. /\ Contents /\ Buffers /\ Pointers /\ Calls
      /\ call.ret \in {0, -1} /\ (call.ret = 0 <=> \A i \in 1 .. Taken : Known(l[i]))
      /\ call.ret = 0 => Holding(Taken)
  BY <1>1 DEF MessageInv, Calls
<1>3. Taken = Len(l) /\ DOMAIN l = 1 .. Len(l)
  <2>1. l \in Seq([type : Byte, val : Seq(Byte)])
    BY <1>2 DEF Calls
  <2>2. Len(l) \in Nat /\ Len(<<>>) = 0 /\ DOMAIN l = 1 .. Len(l)
    <3> HIDE DEF l
    <3> QED BY <2>1, LenProperties
  <2> QED BY <1>1, <2>2 DEF Taken
<1>4. v \in {0, -1, -2}
  BY <1>2
<1>5. v = 0 <=> WellFormed(call.list)
  <2>1. WellFormed(call.list) <=> call.list.surplus = 0 /\ \A i \in 1 .. Taken : Known(l[i])
    BY <1>3 DEF WellFormed
  <2> QED BY <1>2, <2>1
<1>6. v = 0 => Holding(Len(l))
  BY <1>2, <1>3
<1> HIDE DEF v, l
<1>7. Calls'
  BY <1>1, <1>2, <1>4, <1>5, <1>6, CallsStop DEF message, l
<1>8. Contents'
  BY <1>1, <1>2, ContentsStay DEF message
<1> QED BY <1>1, <1>2, <1>7, <1>8 DEF MessageInv, message, Buffers, Pointers, Within

LEMMA GetArgvKeeps ==
  ASSUME MessageInv, GetArgv
  PROVE  MessageInv' /\ (PointerSize = 4 /\ Within => Within')
<1>1. /\ UNCHANGED <<host, types, typesize, data, datasize, block, args, call, overrun>>
      /\ argv' = IF argv.set THEN argv
                 ELSE [set |-> TRUE, block |-> block, at |-> Argv(host, types, data)]
  BY DEF GetArgv
<1>2. Contents'
  BY <1>1, ContentsStay DEF MessageInv
<1>3. Calls'
  BY <1>1, CallsStay DEF MessageInv
<1>4. Pointers'
  BY <1>1 DEF MessageInv, Pointers
<1> QED BY <1>1, <1>2, <1>3, <1>4 DEF MessageInv, Buffers, Within

LEMMA ReceiveKeeps ==
  ASSUME MessageInv, Receive
  PROVE  MessageInv' /\ (PointerSize = 4 /\ Within => Within')
<1>1. PICK path \in Paths :
         LET r == Deserialise(host, Serialise(host, path, types, data))
         IN  /\ types' = r.types /\ typesize' = PaddedSize(1 + Len(r.types))
             /\ data' = r.data /\ datasize' = Len(r.data)
             /\ block' = 1
             /\ argv' = IF r.types = <<>> THEN NoArgv ELSE [set |-> TRUE, block |-> 1, at |-> r.argv]
             /\ UNCHANGED <<host, args, call, overrun>>
  BY DEF Receive
<1> DEFINE r == Deserialise(host, Serialise(host, path, types, data))
<1>2. r.types = types /\ r.data = data /\ r.argv = Argv(host, types, data)
  BY BackAgain DEF MessageInv
<1> HIDE DEF r
<1>3. /\ types' = types /\ typesize' = PaddedSize(1 + Len(types))
      /\ data' = data /\ datasize' = Len(data) /\ block' = 1
      /\ argv' = IF types = <<>> THEN NoArgv ELSE [set |-> TRUE, block |-> 1, at |-> Argv(host, types, data)]
      /\ UNCHANGED <<host, args, call, overrun>>
  BY <1>1, <1>2 DEF r
<1>4. Contents'
  BY <1>3, ContentsStay DEF MessageInv
<1>5. Calls'
  BY <1>3, CallsStay DEF MessageInv
<1>6. Pointers'
  BY <1>3 DEF Pointers, NoArgv
<1>7. Buffers'
  <2>1. Len(types) \in Nat /\ Len(data) \in Nat
    BY ContentsAreBytes DEF MessageInv
  <2> DEFINE l == Len(types)
  <2> HIDE DEF l
  <2>2. l \in Nat
    BY <2>1 DEF l
  <2>3. PaddedSize(1 + l) \in Nat /\ l + 2 <= PaddedSize(1 + l)
    BY <2>2 DEF PaddedSize
  <2> QED BY <1>3, <2>1, <2>3 DEF Buffers, l
<1> QED BY <1>3, <1>4, <1>5, <1>6, <1>7 DEF MessageInv, Within

LEMMA RenewKeeps ==
  ASSUME MessageInv, Renew
  PROVE  MessageInv' /\ Within'
<1>1. /\ types' = <<>> /\ typesize' = 8 /\ data' = <<>> /\ datasize' = 0 /\ block' = 0
      /\ argv' = NoArgv /\ args' = <<>> /\ call' = NoCall /\ overrun' = FALSE /\ host' = host
  BY DEF Renew
<1>2. Bare'
  BY <1>1 DEF Bare, MessageInv, Contents
<1>3. NoneYet'
  <2>1. <<>> \in Seq(Given) /\ Len(<<>>) = 0
    OBVIOUS
  <2> QED BY <1>1, <2>1, MessagesAssumption DEF NoneYet
<1>4. Buffers' /\ Pointers' /\ Within'
  BY <1>1 DEF Buffers, Pointers, Within, NoArgv
<1> QED BY <1>2, <1>3, <1>4, NothingAddedNext, CallsNoneNext DEF MessageInv

LEMMA StayKeeps ==
  ASSUME MessageInv, UNCHANGED vars
  PROVE  MessageInv' /\ (PointerSize = 4 /\ Within => Within')
<1>1. UNCHANGED <<host, types, typesize, data, datasize, block, argv, args, overrun, call>>
  BY DEF vars, message
<1>2. Contents'
  BY <1>1, ContentsStay DEF MessageInv
<1>3. Calls'
  BY <1>1, CallsStay DEF MessageInv
<1> QED BY <1>1, <1>2, <1>3 DEF MessageInv, Buffers, Pointers, Within

LEMMA Inductive ==
  ASSUME MessageInv, [BundleNext]_<<vars, bundleVars>>
  PROVE  MessageInv' /\ (PointerSize = 4 /\ Within => Within')
<1>1. \/ Add \/ AddList \/ AddNext \/ AddEnd \/ GetArgv \/ Receive \/ Renew \/ UNCHANGED vars
  BY DEF BundleNext, AddMessage, FreeMessages, MessageStep, Next
<1> QED BY <1>1, AddKeeps, AddListKeeps, AddNextKeeps, AddEndKeeps, GetArgvKeeps, ReceiveKeeps,
           RenewKeeps, StayKeeps

----------------------------------------------------------------------------
(* The properties *)

LEMMA HoldsBuffers == MessageInv /\ Within => BuffersHold
<1> SUFFICES ASSUME MessageInv, Within PROVE BuffersHold
  OBVIOUS
<1>1. /\ Contents /\ Buffers /\ Pointers /\ Calls /\ ~overrun
  BY DEF MessageInv, Within
<1>2. types \in Seq(Types) /\ Len(types) = Len(args) /\ Len(types) \in Nat
  BY <1>1, ContentsAreBytes
<1>3. \A i \in DOMAIN types : types[i] \in Types
  BY <1>2
<1>4. Len(args) <= MaxArgs /\ call.running \in BOOLEAN /\ call.ret \in {0, -1, -2}
  <2>1. /\ Len(args) + Len(call.items) <= MaxArgs /\ call.items \in Seq([type : Byte, val : Seq(Byte)])
        /\ call.running \in BOOLEAN /\ call.ret \in {0, -1, -2}
    BY <1>1 DEF Calls
  <2>2. Len(call.items) \in Nat
    BY <2>1, LenProperties
  <2> QED BY <1>2, <2>1, <2>2, MessagesAssumption
<1>5. Len(Argv(host, types, data)) = Len(types)
  <2> DEFINE s == StoredAll(host, args)
  <2>1. args \in Seq(Given) /\ types = TypesOf(args) /\ data = FlattenSeq(s)
    BY <1>1 DEF Contents
  <2>2. s \in Seq(Seq(Byte)) /\ Len(s) = Len(args)
    BY <2>1, SequencesOf
  <2>3. PICK G, R : Parts(s, G, R, Byte)
    <3> HIDE DEF s
    <3> QED BY <2>2, PartsExist
  <2>4. Argv(host, types, data) = Places(s, G)
    BY <2>1, <2>3, WalkIs
  <2> HIDE DEF s
  <2> DEFINE e(i) == IF Len(s[i]) = 0 THEN 0 ELSE Len(G[i - 1]) + 1
             n == Len(s)
  <2>5. n \in Nat /\ n = Len(types)
    BY <1>2, <2>2
  <2>6. Places(s, G) = [i \in 1 .. n |-> e(i)]
    BY DEF Places
  <2> HIDE DEF e, n
  <2>7. Len([i \in 1 .. n |-> e(i)]) = n
    BY <2>5
  <2> QED BY <2>4, <2>5, <2>6, <2>7
<1>6. TypeOK
  <2>1. host \in Hosts /\ typesize \in Nat /\ datasize \in Nat /\ block \in Nat
    BY <1>1 DEF Contents, Buffers
  <2>2. argv.set => Len(argv.at) = Len(types)
    BY <1>1, <1>5 DEF Pointers
  <2> QED BY <1>3, <1>4, <2>1, <2>2 DEF TypeOK
<1>7. ArgvFresh
  BY <1>1 DEF Pointers, ArgvFresh
<1> QED BY <1>1, <1>6, <1>7 DEF BuffersHold, Buffers

LEMMA PrefixOfArgs ==
  ASSUME Calls, args \in Seq(Given), Holding(Len(call.list.items)), WellFormed(call.list)
  PROVE  IsPrefix(call.before \o call.list.items, args)
<1> DEFINE x == call.before
           y == call.list.items
           I == [type : Byte, val : Seq(Byte)]
           m == Len(x)
           n == Len(y)
           z == x \o y
<1>1. /\ x \in Seq(Given) /\ y \in Seq(I) /\ m + n <= Len(args)
      /\ \A i \in 1 .. m : args[i] = x[i]
      /\ \A i \in 1 .. n : args[m + i] = y[i]
  BY DEF Calls, Holding
<1>2. x \in Seq(I)
  <2>1. Given \subseteq [type : Types, val : Seq(Byte)] /\ Types \subseteq Byte
    BY DEF Given, Types, Words, LongWords, Strings, Empty, Byte, Int32, Float, String, Blob, Int64,
           Timetag, Double, Symbol, Char, Midi, True, False, Nil, Infinitum
  <2>2. Given \subseteq I
    BY <2>1
  <2> HIDE DEF I, x
  <2> QED BY <1>1, <2>2, SeqMonotonic
<1> HIDE DEF x, y, I
<1>3. m \in Nat /\ n \in Nat /\ Len(args) \in Nat
  BY <1>1, <1>2
<1>4. z \in Seq(I) /\ Len(z) = m + n /\ \A i \in 1 .. m + n : z[i] = IF i <= m THEN x[i] ELSE y[i - m]
  BY <1>1, <1>2
<1>5. \A i \in 1 .. m + n : z[i] = args[i]
  <2> TAKE i \in 1 .. m + n
  <2>1. CASE i <= m
    <3>1. i \in 1 .. m
      BY <1>3, <2>1
    <3> QED BY <1>1, <1>4, <2>1, <3>1
  <2>2. CASE ~(i <= m)
    <3>1. i - m \in 1 .. n /\ m + (i - m) = i
      BY <1>3, <2>2
    <3>2. args[m + (i - m)] = y[i - m]
      BY <1>1, <3>1
    <3> QED BY <1>4, <2>2, <3>1, <3>2
  <2> QED BY <2>1, <2>2
<1> HIDE DEF z
<1> DEFINE k == m + n
<1>6. k \in Nat /\ k <= Len(args) /\ Len(z) = k /\ \A i \in 1 .. k : z[i] = args[i]
  BY <1>1, <1>3, <1>4, <1>5
<1> HIDE DEF k, m, n
<1>7. IsPrefix(z, args)
  <2>1. SubSeq(z, 1, k) = SubSeq(args, 1, k)
    <3>1. k \in 0 .. Len(args) /\ k \in 0 .. Len(z)
      BY <1>3, <1>6
    <3>2. /\ SubSeq(z, 1, k) \in Seq(I) /\ Len(SubSeq(z, 1, k)) = k
          /\ \A i \in 1 .. k : SubSeq(z, 1, k)[i] = z[i]
      BY <1>4, <3>1, Split
    <3>3. /\ SubSeq(args, 1, k) \in Seq(Given) /\ Len(SubSeq(args, 1, k)) = k
          /\ \A i \in 1 .. k : SubSeq(args, 1, k)[i] = args[i]
      BY <3>1, Split
    <3> QED BY <1>6, <3>2, <3>3, SeqEqual
  <2> QED BY <1>6, <2>1 DEF IsPrefix
<1> QED BY <1>7 DEF z, x, y

LEMMA TellsOfAdding == MessageInv => AddTells
<1> SUFFICES ASSUME MessageInv PROVE AddTells
  OBVIOUS
<1>1. Contents /\ Calls /\ args \in Seq(Given)
  BY DEF MessageInv, Contents
<1>2. types = [i \in DOMAIN args |-> args[i].type]
  BY <1>1 DEF Contents, TypesOf
<1>3. data = FlattenSeq([i \in DOMAIN args |->
                 IF args[i].type \in Empty THEN <<>> ELSE ArgBytes(host, args[i])])
  BY <1>1 DEF Contents, StoredAll, Stored
<1>4. ~call.running => /\ call.ret = 0 <=> WellFormed(call.list)
                       /\ call.ret = 0 => Holding(Len(call.list.items))
  BY <1>1 DEF Calls
<1>5. ~call.running /\ call.ret = 0 => IsPrefix(call.before \o call.list.items, args)
  BY <1>1, <1>4, PrefixOfArgs
<1> QED BY <1>2, <1>3, <1>4, <1>5 DEF AddTells

LEMMA ComesBack == MessageInv => RoundTrip
<1> SUFFICES ASSUME MessageInv, NEW path \in Paths
             PROVE  LET w == Packet(host, path)
                        r == Deserialise(host, w)
                    IN  /\ Len(w) = MessageLength(path, types, data)
                        /\ r.ok /\ r.path = path /\ r.types = types /\ r.data = data
                        /\ r.argv = Argv(host, types, data)
  BY DEF RoundTrip
<1> DEFINE w == Serialise(host, path, types, data)
           r == Deserialise(host, w)
<1>1. /\ r = [ok |-> TRUE, path |-> path, types |-> types, typesize |-> PaddedSize(1 + Len(types)),
              data |-> data, argv |-> Argv(host, types, data)]
      /\ Len(w) = MessageLength(path, types, data)
  BY BackAgain DEF MessageInv
<1> HIDE DEF r, w
<1>2. r.ok /\ r.path = path /\ r.types = types /\ r.data = data /\ r.argv = Argv(host, types, data)
  BY <1>1
<1> QED BY <1>1, <1>2 DEF Packet, r, w

LEMMA OthersUnderstand == MessageInv => HostsAgree
<1> DEFINE path == CHOOSE p \in Paths : TRUE
           g == Other(host)
           w == Packet(host, path)
           r == Deserialise(g, w)
           Same(t) == t \notin LongWords \cup {Char}
<1> SUFFICES ASSUME MessageInv
             PROVE  /\ r.ok /\ r.types = types
                    /\ (\A i \in DOMAIN types : Same(types[i])) => r.data = FlattenSeq(StoredAll(g, args))
  BY DEF HostsAgree, StoredAll, Stored
<1>1. path \in Text
  BY PathsAreText, MessagesAssumption
<1>2. args \in Seq(Given) /\ types = TypesOf(args) /\ data = FlattenSeq(StoredAll(host, args))
  BY DEF MessageInv, Contents
<1> DEFINE s == ArrivedAll(g, host, args)
<1>3. s \in Seq(Seq(Byte)) /\ DOMAIN args = 1 .. Len(args) /\ \A i \in 1 .. Len(args) : args[i] \in Given
  BY <1>2, SequencesOf
<1>4. PICK GA, RA : Parts(s, GA, RA, Byte)
  <2> HIDE DEF s
  <2> QED BY <1>3, PartsExist
<1> HIDE DEF path, g
<1>5. r = [ok |-> TRUE, path |-> path, types |-> types, typesize |-> PaddedSize(1 + Len(types)),
           data |-> FlattenSeq(s), argv |-> Places(SentAll(host, args), GA)]
  BY <1>1, <1>2, <1>4, ReceivedIs DEF Packet
<1> HIDE DEF r
<1>6. ASSUME \A i \in DOMAIN types : Same(types[i]) PROVE s = StoredAll(g, args)
  <2>1. DOMAIN types = DOMAIN args /\ \A i \in DOMAIN args : types[i] = args[i].type
    BY <1>2 DEF TypesOf
  <2>2. \A i \in DOMAIN args :
           HostEndian(g, args[i].type, OnWire(host, args[i])) = Stored(g, args[i])
    <3> TAKE i \in DOMAIN args
    <3> DEFINE a == args[i]
    <3>1. a \in Given /\ a.type \notin LongWords \cup {Char}
      BY <1>3, <1>6, <2>1
    <3> HIDE DEF a
    <3>2. Understood(g, host, a)
      BY <3>1, ArgIsUnderstood
    <3> QED BY <3>2 DEF Understood, a
  <2> QED BY <2>2 DEF ArrivedAll, StoredAll
<1>7. r.ok /\ r.types = types /\ r.data = FlattenSeq(s)
  BY <1>5
<1> QED BY <1>6, <1>7

----------------------------------------------------------------------------

\* However messages are built, sent and put into bundles: what there is of one is
\* what was added to it, its buffers have the sizes they are thought to have, its
\* pointers are fresh, and a running call of lo_message_add knows what it has done.
THEOREM MessageInvariant == BundleSpec => []MessageInv
<1>1. BundleInit => MessageInv
  BY Begun DEF BundleInit
<1>2. MessageInv /\ [BundleNext]_<<vars, bundleVars>> => MessageInv'
  BY Inductive
<1> QED BY <1>1, <1>2, PTL DEF BundleSpec

\* BuffersHold, on the hosts Fx is built for: nothing is written beyond the room of
\* a buffer, types and data fit, and no pointer to an argument is stale.
THEOREM BuffersAlwaysHold ==
  ASSUME PointerSize = 4
  PROVE  BundleSpec => []BuffersHold
<1>1. BundleInit => MessageInv /\ Within
  BY Begun DEF BundleInit
<1>2. MessageInv /\ Within /\ [BundleNext]_<<vars, bundleVars>> => (MessageInv /\ Within)'
  BY Inductive
<1>3. MessageInv /\ Within => BuffersHold
  BY HoldsBuffers
<1> QED BY <1>1, <1>2, <1>3, PTL DEF BundleSpec

\* AddTells: a message is the list of what was added to it, and lo_message_add
\* returns 0 if and only if the list it was given is right, and then has added it.
THEOREM AddAlwaysTells == BundleSpec => []AddTells
BY MessageInvariant, TellsOfAdding, PTL

\* RoundTrip: lo_message_deserialise undoes lo_message_serialise, for every list of
\* arguments and every path, and lo_message_length is the size between them.
THEOREM MessagesComeBack == BundleSpec => []RoundTrip
BY MessageInvariant, ComesBack, PTL

\* HostsAgree: a host of the other byte order reads the same types and, of all but
\* 64 bits and chars, the same values.
THEOREM HostsAlwaysAgree == BundleSpec => []HostsAgree
BY MessageInvariant, OthersUnderstand, PTL

----------------------------------------------------------------------------
(* The messages freed with their bundle *)

Under(s, a)  == {i \in DOMAIN s : s[i] < a}
NotOver(s, a) == {i \in DOMAIN s : s[i] <= a}

LEMMA Counts ==
  ASSUME NEW s \in Seq(Nat)
  PROVE  /\ \A a \in Nat : Below(s, a) \in Nat /\ UpTo(s, a) \in Nat /\ UpTo(s, a) <= Len(s)
         /\ \A a, b \in Nat : a < b => UpTo(s, a) <= Below(s, b)
         /\ \A i \in DOMAIN s : s[i] \in Nat /\ Below(s, s[i]) < UpTo(s, s[i])
<1>1. Len(s) \in Nat /\ DOMAIN s = 1 .. Len(s) /\ \A i \in DOMAIN s : s[i] \in Nat
  OBVIOUS
<1>2. IsFiniteSet(DOMAIN s) /\ Cardinality(DOMAIN s) = Len(s)
  <2>1. 1 \in Int /\ Len(s) \in Int
    BY <1>1
  <2>2. IsFiniteSet(1 .. Len(s))
        /\ Cardinality(1 .. Len(s)) = IF 1 > Len(s) THEN 0 ELSE Len(s) - 1 + 1
    BY <2>1, FS_Interval
  <2> QED BY <1>1, <2>2
<1>3. \A a : Under(s, a) \subseteq DOMAIN s /\ NotOver(s, a) \subseteq DOMAIN s
  BY DEF Under, NotOver
<1>4. \A a : /\ IsFiniteSet(Under(s, a)) /\ Below(s, a) \in Nat
             /\ IsFiniteSet(NotOver(s, a)) /\ UpTo(s, a) \in Nat /\ UpTo(s, a) <= Len(s)
  <2> TAKE a
  <2>1. IsFiniteSet(Under(s, a)) /\ IsFiniteSet(NotOver(s, a))
        /\ Cardinality(NotOver(s, a)) <= Len(s)
    BY <1>2, <1>3, FS_Subset
  <2>2. Cardinality(Under(s, a)) \in Nat /\ Cardinality(NotOver(s, a)) \in Nat
    BY <2>1, FS_CardinalityType
  <2> QED BY <2>1, <2>2 DEF Below, UpTo, Under, NotOver
<1>5. ASSUME NEW a \in Nat, NEW b \in Nat, a < b PROVE UpTo(s, a) <= Below(s, b)
  <2>1. NotOver(s, a) \subseteq Under(s, b)
    BY <1>1, <1>5 DEF NotOver, Under
  <2>2. Cardinality(NotOver(s, a)) <= Cardinality(Under(s, b))
    BY <1>4, <2>1, FS_Subset
  <2> QED BY <2>2 DEF Below, UpTo, Under, NotOver
<1>6. ASSUME NEW i \in DOMAIN s PROVE Below(s, s[i]) < UpTo(s, s[i])
  <2>1. Under(s, s[i]) \subseteq NotOver(s, s[i]) /\ i \in NotOver(s, s[i]) /\ i \notin Under(s, s[i])
    BY <1>1, <1>6 DEF NotOver, Under
  <2>2. /\ Cardinality(Under(s, s[i])) <= Cardinality(NotOver(s, s[i]))
        /\ Cardinality(NotOver(s, s[i])) # Cardinality(Under(s, s[i]))
    BY <1>4, <2>1, FS_Subset
  <2>3. Below(s, s[i]) <= UpTo(s, s[i]) /\ Below(s, s[i]) # UpTo(s, s[i])
    BY <2>2 DEF Below, UpTo, Under, NotOver
  <2> QED BY <1>4, <2>3
<1> QED BY <1>1, <1>4, <1>5, <1>6

LEMMA Members ==
  ASSUME NEW V, NEW s \in Seq(V)
  PROVE  /\ ToSet(s) = {s[i] : i \in DOMAIN s} /\ ToSet(s) \subseteq V
         /\ \A a \in ToSet(s) : \E i \in DOMAIN s : a = s[i]
BY DEF ToSet

\* Of any of the pointers one is the greatest.
LEMMA Topmost ==
  ASSUME NEW s \in Seq(Nat), NEW A, A \subseteq ToSet(s), A # {}
  PROVE  \E m \in A : \A a \in A : a <= m
<1> DEFINE T == {Len(s) - UpTo(s, a) : a \in A}
<1>1. \A a \in A : a \in Nat /\ UpTo(s, a) \in Nat /\ UpTo(s, a) <= Len(s) /\ Below(s, a) < UpTo(s, a)
                   /\ Below(s, a) \in Nat
  BY Members, Counts
<1>2. PICK x \in T : \A y \in T : x <= y
  <2>1. T \subseteq Nat /\ T # {}
    BY <1>1
  <2> HIDE DEF T
  <2> QED BY <2>1, Smallest
<1>3. PICK m \in A : x = Len(s) - UpTo(s, m)
  BY <1>2
<1>4. ASSUME NEW a \in A PROVE a <= m
  <2>1. Len(s) - UpTo(s, m) <= Len(s) - UpTo(s, a)
    BY <1>2, <1>3
  <2>2. UpTo(s, a) <= UpTo(s, m)
    BY <1>1, <2>1
  <2>3. m < a => UpTo(s, m) <= Below(s, a)
    BY <1>1, Counts
  <2>4. /\ a \in Nat /\ m \in Nat /\ UpTo(s, a) \in Nat /\ UpTo(s, m) \in Nat /\ Below(s, a) \in Nat
        /\ Below(s, a) < UpTo(s, a)
    BY <1>1
  <2>5. ~(m < a)
    BY <2>2, <2>3, <2>4
  <2> QED BY <2>4, <2>5
<1> QED BY <1>4

\* In every place there is a pointer.
LEMMA Placed ==
  ASSUME NEW s \in Seq(Nat), NEW k \in 1 .. Len(s)
  PROVE  \E a \in ToSet(s) : Below(s, a) < k /\ k <= UpTo(s, a)
<1> DEFINE P == ToSet(s)
           T == {a \in P : k <= UpTo(s, a)}
<1>1. /\ P \subseteq Nat /\ \A i \in DOMAIN s : s[i] \in P
      /\ \A a \in P : \E i \in DOMAIN s : a = s[i]
  BY Members DEF ToSet
<1>2. /\ \A a \in P : a \in Nat /\ Below(s, a) \in Nat /\ UpTo(s, a) \in Nat
  BY <1>1, Counts
<1>3. T # {}
  <2>1. P # {}
    BY <1>1
  <2> HIDE DEF P
  <2>2. PICK m \in P : \A a \in P : a <= m
    BY <2>1, Topmost DEF P
  <2>3. \A i \in DOMAIN s : s[i] <= m
    BY <1>1, <2>2
  <2>4. {i \in DOMAIN s : s[i] <= m} = 1 .. Len(s)
    BY <2>3
  <2>5. Cardinality(1 .. Len(s)) = IF 1 > Len(s) THEN 0 ELSE Len(s) - 1 + 1
    BY FS_Interval
  <2>6. UpTo(s, m) = Len(s)
    <3>1. UpTo(s, m) = Cardinality(1 .. Len(s))
      BY <2>4 DEF UpTo
    <3>2. Len(s) \in Nat /\ 1 <= Len(s)
      OBVIOUS
    <3> QED BY <2>5, <3>1, <3>2
  <2> QED BY <2>2, <2>6
<1>4. PICK a \in T : \A b \in T : a <= b
  <2>1. T \subseteq Nat
    BY <1>1
  <2> HIDE DEF T
  <2> QED BY <1>3, <2>1, Smallest
<1>5. Below(s, a) < k
  <2> SUFFICES ASSUME k <= Below(s, a) PROVE FALSE
    BY <1>2, <1>4
  <2> DEFINE L == {b \in P : b < a}
  <2>1. CASE L = {}
    <3>1. {i \in DOMAIN s : s[i] < a} = {}
      BY <1>1, <2>1
    <3>2. Below(s, a) = 0
      BY <3>1, FS_EmptySet DEF Below
    <3> QED BY <3>2
  <2>2. CASE L # {}
    <3>1. PICK m \in L : \A b \in L : b <= m
      <4>1. L \subseteq ToSet(s)
        OBVIOUS
      <4> HIDE DEF L
      <4> QED BY <2>2, <4>1, Topmost
    <3>2. ~(k <= UpTo(s, m))
      BY <1>1, <1>4, <3>1
    <3>3. {i \in DOMAIN s : s[i] < a} = {i \in DOMAIN s : s[i] <= m}
      <4>1. \A i \in DOMAIN s : s[i] \in Nat
        OBVIOUS
      <4>2. m \in Nat /\ a \in Nat /\ m < a
        BY <1>1, <1>4, <3>1
      <4>3. \A i \in DOMAIN s : s[i] < a => s[i] <= m
        BY <1>1, <3>1
      <4> QED BY <4>1, <4>2, <4>3
    <3>4. Below(s, a) = UpTo(s, m)
      BY <3>3 DEF Below, UpTo
    <3> QED BY <3>2, <3>4
  <2> QED BY <2>1, <2>2
<1> QED BY <1>4, <1>5

\* Two pointers do not fit into places in the wrong order.
LEMMA InPlace ==
  ASSUME NEW s \in Seq(Nat), NEW a \in Nat, NEW b \in Nat, NEW k \in Nat, NEW l \in Nat,
         k <= l, Below(s, a) < k, k <= UpTo(s, a), Below(s, b) < l, l <= UpTo(s, b)
  PROVE  a <= b
<1>1. b < a => UpTo(s, b) <= Below(s, a)
  BY Counts
<1>2. Below(s, a) \in Nat /\ UpTo(s, b) \in Nat
  BY Counts
<1> QED BY <1>1, <1>2

\* InOrder sorts: the same pointers, none before a smaller one.
LEMMA Sorted ==
  ASSUME NEW s \in Seq(Nat)
  PROVE  /\ InOrder(s) \in Seq(Nat) /\ ToSet(InOrder(s)) = ToSet(s)
         /\ \A k, l \in DOMAIN InOrder(s) : k <= l => InOrder(s)[k] <= InOrder(s)[l]
<1> DEFINE t == InOrder(s)
<1>1. Len(s) \in Nat /\ DOMAIN s = 1 .. Len(s) /\ DOMAIN t = DOMAIN s
      /\ t = [k \in 1 .. Len(s) |-> t[k]]
  BY DEF InOrder
<1>2. \A k \in 1 .. Len(s) : t[k] \in ToSet(s) /\ Below(s, t[k]) < k /\ k <= UpTo(s, t[k])
  <2> TAKE k \in 1 .. Len(s)
  <2>1. t[k] = CHOOSE a \in ToSet(s) : Below(s, a) < k /\ k <= UpTo(s, a)
    BY <1>1 DEF InOrder
  <2> HIDE DEF t
  <2> QED BY <2>1, Placed
<1>3. ToSet(s) \subseteq Nat /\ \A a \in ToSet(s) : \E i \in DOMAIN s : a = s[i]
  BY Members
<1> HIDE DEF t
<1>4. t \in Seq(Nat)
  <2>1. t \in [1 .. Len(s) -> Nat]
    BY <1>1, <1>2, <1>3
  <2> QED BY <1>1, <2>1, IsASeq
<1>5. \A k, l \in DOMAIN t : k <= l => t[k] <= t[l]
  <2> SUFFICES ASSUME NEW k \in DOMAIN t, NEW l \in DOMAIN t, k <= l PROVE t[k] <= t[l]
    OBVIOUS
  <2>1. k \in 1 .. Len(s) /\ l \in 1 .. Len(s) /\ k \in Nat /\ l \in Nat
    BY <1>1
  <2>2. t[k] \in Nat /\ t[l] \in Nat
    BY <1>2, <1>3, <2>1
  <2> QED BY <1>2, <2>1, <2>2, InPlace
<1>6. ASSUME NEW a \in ToSet(s) PROVE a \in ToSet(t)
  <2>1. PICK i \in DOMAIN s : a = s[i]
    BY <1>3
  <2> DEFINE k == UpTo(s, a)
  <2>2. a \in Nat /\ k \in Nat /\ k <= Len(s) /\ Below(s, a) \in Nat /\ Below(s, a) < k
    BY <2>1, Counts
  <2>3. k \in 1 .. Len(s)
    BY <2>2
  <2> HIDE DEF k
  <2>4. Below(s, t[k]) < k /\ k <= UpTo(s, t[k]) /\ t[k] \in Nat
    BY <1>2, <1>3, <2>3
  <2>5. a <= t[k] /\ t[k] <= a
    <3>1. k \in Nat /\ k <= k /\ k <= UpTo(s, a)
      BY <2>2 DEF k
    <3> QED BY <2>2, <2>4, <3>1, InPlace
  <2>6. a = t[k]
    BY <2>2, <2>4, <2>5
  <2> QED BY <1>1, <2>3, <2>6 DEF ToSet
<1>7. \A a \in ToSet(t) : a \in ToSet(s)
  BY <1>1, <1>2 DEF ToSet
<1> QED BY <1>4, <1>5, <1>6, <1>7 DEF t

\* Equal pointers stand together.
Grouped(t) == \A i, j \in DOMAIN t : i < j /\ t[i] = t[j] => t[j - 1] = t[j]

\* The elements of x are those of t in the places up to i, each once.
Once(x, t, i) ==
    /\ ToSet(x) = {t[j] : j \in 1 .. i}
    /\ \A k, l \in DOMAIN x : x[k] = x[l] => k = l

LEMMA OnceMore ==
  ASSUME NEW x \in Seq(Nat), NEW t \in Seq(Nat), NEW i \in 1 .. Len(t), Once(x, t, i - 1),
         \A j \in 1 .. i - 1 : t[j] # t[i]
  PROVE  Once(x \o <<t[i]>>, t, i)
<1> DEFINE y == x \o <<t[i]>>
<1>1. t[i] \in Nat /\ Len(x) \in Nat /\ DOMAIN x = 1 .. Len(x)
  OBVIOUS
<1>2. /\ y \in Seq(Nat) /\ DOMAIN y = 1 .. (Len(x) + 1)
      /\ \A k \in 1 .. Len(x) : y[k] = x[k]
      /\ y[Len(x) + 1] = t[i]
  BY <1>1
<1> HIDE DEF y
<1>3. \A k \in 1 .. Len(x) : x[k] # t[i]
  <2>1. ToSet(x) = {t[j] : j \in 1 .. i - 1}
    BY DEF Once
  <2>2. \A k \in 1 .. Len(x) : x[k] \in ToSet(x)
    BY <1>1 DEF ToSet
  <2>3. t[i] \notin {t[j] : j \in 1 .. i - 1}
    OBVIOUS
  <2> QED BY <2>1, <2>2, <2>3
<1>4. \A k, l \in DOMAIN y : y[k] = y[l] => k = l
  <2> SUFFICES ASSUME NEW k \in DOMAIN y, NEW l \in DOMAIN y, y[k] = y[l] PROVE k = l
    OBVIOUS
  <2>1. k \in 1 .. Len(x) \/ k = Len(x) + 1
    BY <1>1, <1>2
  <2>2. l \in 1 .. Len(x) \/ l = Len(x) + 1
    BY <1>1, <1>2
  <2>3. CASE k \in 1 .. Len(x) /\ l \in 1 .. Len(x)
    BY <1>1, <1>2, <2>3 DEF Once
  <2>4. CASE k \in 1 .. Len(x) /\ l = Len(x) + 1
    BY <1>2, <1>3, <2>4
  <2>5. CASE k = Len(x) + 1 /\ l \in 1 .. Len(x)
    BY <1>2, <1>3, <2>5
  <2> QED BY <2>1, <2>2, <2>3, <2>4, <2>5
<1>5. ToSet(y) = ToSet(x) \cup {t[i]}
  <2>1. ToSet(x) = {x[k] : k \in 1 .. Len(x)} /\ ToSet(y) = {y[k] : k \in 1 .. (Len(x) + 1)}
    BY <1>1, <1>2 DEF ToSet
  <2>2. \A v \in ToSet(y) : v \in ToSet(x) \cup {t[i]}
    <3> TAKE v \in ToSet(y)
    <3>1. PICK k \in 1 .. (Len(x) + 1) : v = y[k]
      BY <2>1
    <3>2. CASE k \in 1 .. Len(x)
      BY <1>2, <2>1, <3>1, <3>2
    <3>3. CASE k = Len(x) + 1
      BY <1>2, <3>1, <3>3
    <3> QED BY <1>1, <3>2, <3>3
  <2>3. \A v \in ToSet(x) : v \in ToSet(y)
    <3> TAKE v \in ToSet(x)
    <3>1. PICK k \in 1 .. Len(x) : v = x[k]
      BY <2>1
    <3>2. v = y[k] /\ k \in 1 .. (Len(x) + 1)
      BY <1>1, <1>2, <3>1
    <3> QED BY <2>1, <3>2
  <2>4. t[i] \in ToSet(y)
    <3>1. Len(x) + 1 \in 1 .. (Len(x) + 1)
      BY <1>1
    <3> QED BY <1>2, <2>1, <3>1
  <2> QED BY <2>2, <2>3, <2>4
<1>6. {t[j] : j \in 1 .. i} = {t[j] : j \in 1 .. i - 1} \cup {t[i]}
  <2>1. \A j \in 1 .. i : j \in 1 .. i - 1 \/ j = i
    OBVIOUS
  <2>2. i \in 1 .. i /\ \A j \in 1 .. i - 1 : j \in 1 .. i
    OBVIOUS
  <2> QED BY <2>1, <2>2
<1> QED BY <1>4, <1>5, <1>6 DEF Once, y

\* What is left of grouped pointers are the same ones, each once.
LEMMA NoRepeats ==
  ASSUME NEW t \in Seq(Nat), Grouped(t)
  PROVE  /\ ToSet(WithoutRepeats(t)) = ToSet(t)
         /\ \A k, l \in DOMAIN WithoutRepeats(t) : WithoutRepeats(t)[k] = WithoutRepeats(t)[l] => k = l
<1> DEFINE n == Len(t)
           once(i) == IF i > 1 /\ t[i] = t[i - 1] THEN <<>> ELSE <<t[i]>>
           u == [i \in DOMAIN t |-> once(i)]
<1>1. n \in Nat /\ DOMAIN t = 1 .. n /\ \A i \in 1 .. n : t[i] \in Nat
  OBVIOUS
<1>2. \A i \in 1 .. n : u[i] = once(i)
  OBVIOUS
<1>3. u \in Seq(Seq(Nat)) /\ Len(u) = n
  <2>1. \A i \in 1 .. n : once(i) \in Seq(Nat)
    BY <1>1
  <2> HIDE DEF once
  <2>2. u \in [1 .. n -> Seq(Nat)]
    BY <1>1, <2>1
  <2>3. DOMAIN u = 1 .. n
    BY <1>1
  <2> HIDE DEF u
  <2>4. u \in Seq(Seq(Nat))
    BY <1>1, <2>2, IsASeq
  <2> QED BY <1>1, <2>3, <2>4
<1>4. WithoutRepeats(t) = FlattenSeq(u)
  BY DEF WithoutRepeats
<1> HIDE DEF u
<1>5. PICK G, R : Parts(u, G, R, Nat)
  BY <1>3, PartsExist
<1>6. /\ \A i \in 0 .. n : G[i] \in Seq(Nat)
      /\ G[0] = <<>>
      /\ \A i \in 1 .. n : G[i] = G[i - 1] \o u[i]
      /\ FlattenSeq(u) = G[n]
  <2>1. G \in [0 .. n -> Seq(Nat)]
    BY <1>3, <1>5 DEF Parts
  <2>2. G[0] = <<>> /\ \A i \in 1 .. n : G[i] = G[i - 1] \o u[i]
    BY <1>3, <1>5 DEF Parts
  <2>3. FlattenSeq(u) = G[n]
    BY <1>3, <2>1, <2>2, Flattened
  <2> QED BY <2>1, <2>2, <2>3
<1> DEFINE S == {i \in 0 .. n : Once(G[i], t, i)}
<1>7. 0 \in S
  <2>1. ToSet(<<>>) = {} /\ {t[j] : j \in 1 .. 0} = {} /\ DOMAIN <<>> = {}
    BY DEF ToSet
  <2>2. Once(<<>>, t, 0)
    BY <2>1 DEF Once
  <2> QED BY <1>1, <1>6, <2>2
<1>8. \A i \in 1 .. n : i - 1 \in S => i \in S
  <2> SUFFICES ASSUME NEW i \in 1 .. n, i - 1 \in S PROVE i \in S
    OBVIOUS
  <2>1. i - 1 \in 0 .. n /\ Once(G[i - 1], t, i - 1) /\ G[i - 1] \in Seq(Nat) /\ i \in 0 .. n
    BY <1>1, <1>6
  <2>2. CASE i > 1 /\ t[i] = t[i - 1]
    <3>1. G[i] = G[i - 1]
      <4>1. u[i] = <<>>
        BY <1>2, <2>2
      <4> QED BY <1>6, <2>1, <4>1, ConcatEmptySeq
    <3>2. {t[j] : j \in 1 .. i} = {t[j] : j \in 1 .. i - 1}
      <4>1. \A j \in 1 .. i : j \in 1 .. i - 1 \/ t[j] = t[i - 1]
        BY <2>2
      <4>2. i - 1 \in 1 .. i - 1 /\ \A j \in 1 .. i - 1 : j \in 1 .. i
        BY <2>2
      <4> QED BY <4>1, <4>2
    <3>3. Once(G[i], t, i)
      BY <2>1, <3>1, <3>2 DEF Once
    <3> QED BY <2>1, <3>3
  <2>3. CASE ~(i > 1 /\ t[i] = t[i - 1])
    <3>1. G[i] = G[i - 1] \o <<t[i]>>
      BY <1>2, <1>6, <2>3
    <3>2. ASSUME NEW j \in 1 .. i - 1, t[j] = t[i] PROVE FALSE
      <4>1. j \in DOMAIN t /\ i \in DOMAIN t /\ j < i /\ i > 1
        BY <1>1
      <4>2. t[i - 1] = t[i]
        BY <3>2, <4>1 DEF Grouped
      <4> QED BY <2>3, <4>1, <4>2
    <3>3. Once(G[i], t, i)
      <4> DEFINE x == G[i - 1]
      <4>1. x \in Seq(Nat) /\ Once(x, t, i - 1) /\ \A j \in 1 .. i - 1 : t[j] # t[i]
        BY <2>1, <3>2
      <4> HIDE DEF x
      <4>2. Once(x \o <<t[i]>>, t, i)
        BY <4>1, OnceMore
      <4> QED BY <3>1, <4>2 DEF x
    <3> QED BY <2>1, <3>3
  <2> QED BY <2>2, <2>3
<1>9. Once(G[n], t, n)
  <2>1. n \in 0 .. n
    BY <1>1
  <2>2. n \in S
    <3> HIDE DEF S
    <3> QED BY <1>1, <1>7, <1>8, <2>1, ByPlace
  <2> QED BY <2>2
<1>10. WithoutRepeats(t) = G[n] /\ ToSet(t) = {t[j] : j \in 1 .. n}
  BY <1>1, <1>4, <1>6 DEF ToSet
<1> QED BY <1>9, <1>10 DEF Once

\* The pointers of a bundle are freed once each, if they are any two in either
\* order, or any others sorted.
LEMMA FreedOf ==
  ASSUME NEW s \in Seq(Nat)
  PROVE  /\ ToSet(Freed(s)) = ToSet(s)
         /\ \A k, l \in DOMAIN Freed(s) : Freed(s)[k] = Freed(s)[l] => k = l
<1>1. CASE Len(s) > 2
  <2> DEFINE t == InOrder(s)
  <2>1. /\ t \in Seq(Nat) /\ ToSet(t) = ToSet(s)
        /\ \A k, l \in DOMAIN t : k <= l => t[k] <= t[l]
    BY Sorted
  <2> HIDE DEF t
  <2>2. Grouped(t)
    <3> SUFFICES ASSUME NEW i \in DOMAIN t, NEW j \in DOMAIN t, i < j, t[i] = t[j]
                 PROVE  t[j - 1] = t[j]
      BY DEF Grouped
    <3>1. j - 1 \in DOMAIN t /\ i <= j - 1 /\ j - 1 <= j
      BY <2>1
    <3>2. t[i] <= t[j - 1] /\ t[j - 1] <= t[j] /\ t[i] \in Nat /\ t[j] \in Nat /\ t[j - 1] \in Nat
      BY <2>1, <3>1
    <3> QED BY <3>2
  <2>3. Freed(s) = WithoutRepeats(t)
    BY <1>1 DEF Freed, t
  <2> QED BY <2>1, <2>2, <2>3, NoRepeats
<1>2. CASE ~(Len(s) > 2)
  <2>1. Freed(s) = WithoutRepeats(s)
    BY <1>2 DEF Freed
  <2>2. Grouped(s)
    <3>1. \A i, j \in DOMAIN s : i < j => i = j - 1
      BY <1>2
    <3> QED BY <3>1 DEF Grouped
  <2> QED BY <2>1, <2>2, NoRepeats
<1> QED BY <1>1, <1>2

\* What a bundle holds are addresses.
FreedInv == bundle \in Seq(Nat) /\ FreedOnce

LEMMA FreedKeeps == FreedInv /\ [BundleNext]_<<vars, bundleVars>> => FreedInv'
<1> SUFFICES ASSUME FreedInv, [BundleNext]_<<vars, bundleVars>> PROVE FreedInv'
  OBVIOUS
<1>1. freed' = None => FreedOnce'
  <2>1. ToSet(None.msgs) = ToSet(None.of) /\ DOMAIN None.msgs = {}
    BY DEF None
  <2> QED BY <2>1 DEF FreedOnce
<1>2. CASE AddMessage
  <2>1. PICK m \in {This, That} : bundle' = Append(bundle, m)
    BY <1>2 DEF AddMessage
  <2>2. bundle' \in Seq(Nat)
    BY <2>1 DEF FreedInv, This, That
  <2> QED BY <1>1, <1>2, <2>2 DEF AddMessage, FreedInv
<1>3. CASE FreeMessages
  <2>1. freed'.of = bundle /\ freed'.msgs = Freed(bundle) /\ bundle' = <<>>
    BY <1>3 DEF FreeMessages
  <2>2. FreedOnce'
    BY <2>1, FreedOf DEF FreedInv, FreedOnce
  <2> QED BY <2>1, <2>2 DEF FreedInv
<1>4. CASE MessageStep
  BY <1>1, <1>4 DEF MessageStep, FreedInv
<1>5. CASE UNCHANGED <<vars, bundleVars>>
  BY <1>5 DEF bundleVars, FreedInv, FreedOnce
<1> QED BY <1>2, <1>3, <1>4, <1>5 DEF BundleNext

\* FreedOnce: every message of a bundle is freed once with it, however often and in
\* whatever order messages were added, for bundles of any length.
THEOREM EachFreedOnce == BundleSpec => []FreedOnce
<1>1. BundleInit => FreedInv
  <2>1. ToSet(None.msgs) = ToSet(None.of) /\ DOMAIN None.msgs = {}
    BY DEF None
  <2> QED BY <2>1 DEF BundleInit, FreedInv, FreedOnce
<1>2. FreedInv => FreedOnce
  BY DEF FreedInv
<1> QED BY <1>1, <1>2, FreedKeeps, PTL DEF BundleSpec

----------------------------------------------------------------------------
(* What the validation accepts *)

\* A string it accepts is one that was written.
LEMMA StringMeant ==
  ASSUME NEW b \in Seq(Byte), ValidateString(b) # Bad
  PROVE  LET s == SubSeq(b, 1, StrLen(b))
             l == ValidateString(b)
         IN  /\ s \in Text /\ Len(s) = StrLen(b) /\ l = PaddedSize(Len(s)) /\ l \in 0 .. Len(b)
             /\ b = PaddedString(s) \o From(b, l + 1) /\ From(b, l + 1) \in Seq(Byte)
             /\ PaddedString(s) = SubSeq(b, 1, l)
<1> DEFINE n == StrLen(b)
           m == PaddedSize(n)
           s == SubSeq(b, 1, n)
           p == PaddedString(s)
           q == SubSeq(b, 1, m)
<1>1. Terminated(b, n, m) /\ ValidateString(b) = m
  BY DEF ValidateString
<1>2. /\ n \in Nat /\ n \in 0 .. Len(b) - 1 /\ Len(b) \in Nat
      /\ \A i \in 1 .. n : b[i] # Nul
  <2>1. n >= 0
    BY <1>1 DEF Terminated
  <2>2. n # -1
    BY <2>1
  <2> QED BY <2>2, StrLenFacts
<1> HIDE DEF n
<1>3. m \in Nat /\ m - n \in 1 .. 4
  BY <1>2, PaddedSizeFacts
<1>4. m <= Len(b) /\ \A i \in n + 1 .. m : b[i] = Nul
  BY <1>1 DEF Terminated
<1> HIDE DEF m
<1>5. /\ s \in Seq(Byte) /\ Len(s) = n /\ \A i \in 1 .. n : s[i] = b[i]
  <2>1. n \in 0 .. Len(b)
    BY <1>2
  <2> QED BY <2>1, Split
<1>6. /\ q \in Seq(Byte) /\ Len(q) = m /\ (\A i \in 1 .. m : q[i] = b[i])
      /\ From(b, m + 1) \in Seq(Byte) /\ q \o From(b, m + 1) = b
  <2>1. m \in 0 .. Len(b)
    BY <1>2, <1>3, <1>4
  <2> QED BY <2>1, Split
<1> HIDE DEF s, q
<1>7. s \in Text
  BY <1>2, <1>5 DEF Text
<1>8. p = Padded(s, m)
  BY <1>5 DEF PaddedString, m
<1>9. /\ p \in Seq(Byte) /\ Len(p) = m
      /\ (\A i \in 1 .. n : p[i] = s[i]) /\ (\A i \in n + 1 .. m : p[i] = Nul)
  <2>1. Len(s) <= m
    BY <1>2, <1>3, <1>5
  <2> HIDE DEF p
  <2> QED BY <1>3, <1>5, <1>8, <2>1, PaddedFacts
<1> HIDE DEF p
<1>10. p = q
  <2>1. \A i \in 1 .. m : p[i] = q[i]
    <3> TAKE i \in 1 .. m
    <3>1. i \in 1 .. n \/ i \in n + 1 .. m
      BY <1>2, <1>3
    <3> QED BY <1>4, <1>5, <1>6, <1>9, <3>1
  <2> QED BY <1>6, <1>9, <2>1, SeqEqual
<1>11. m \in 0 .. Len(b) /\ m = PaddedSize(Len(s))
  BY <1>2, <1>3, <1>4, <1>5 DEF m
<1> QED BY <1>1, <1>5, <1>6, <1>7, <1>10, <1>11 DEF n, s, p, q

\* There is an argument of type t that is sent as y.
Sendable(h, t, y) == \E a \in Given : a.type = t /\ OnWire(h, a) = y

LEMMA EmptyMeant ==
  ASSUME NEW h, NEW t \in Empty
  PROVE  Sendable(h, t, <<>>)
<1> DEFINE a == [type |-> t, val |-> <<>>]
<1>1. t \notin Words \cup LongWords \cup Strings \cup {Blob, Midi} /\ t \in Types
  BY DEF Empty, Words, LongWords, Strings, Blob, Midi, True, False, Nil, Infinitum, Int32, Float, Char,
         Int64, Timetag, Double, String, Symbol, Types
<1>2. a \in Given
  <2>1. <<>> \in Seq(Byte)
    OBVIOUS
  <2>2. a \in [type : Types, val : Seq(Byte)]
    BY <1>1, <2>1
  <2>3. a.type = t /\ a.val = <<>>
    OBVIOUS
  <2> HIDE DEF a
  <2> QED BY <1>1, <2>2, <2>3 DEF Given, WellTyped
<1>3. Stored(h, a) = <<>>
  BY DEF Stored
<1>4. OnWire(h, a) = <<>>
  BY <1>1, <1>3 DEF OnWire, NetworkEndian, HostEndian
<1> QED BY <1>2, <1>4 DEF Sendable

LEMMA MidiMeant ==
  ASSUME NEW h, NEW y \in Seq(Byte), Len(y) = 4
  PROVE  Sendable(h, Midi, y)
<1> DEFINE a == [type |-> Midi, val |-> y]
<1>1. Midi \notin Words \cup LongWords \cup Empty \cup Strings \cup {Blob, Char} /\ Midi \in Types
  BY DEF Empty, Words, LongWords, Strings, Blob, Midi, True, False, Nil, Infinitum, Int32, Float, Char,
         Int64, Timetag, Double, String, Symbol, Types
<1>2. a \in Given
  BY <1>1 DEF Given, WellTyped
<1>3. Stored(h, a) = y
  BY <1>1 DEF Stored, ArgBytes
<1>4. OnWire(h, a) = y
  BY <1>1, <1>3 DEF OnWire, NetworkEndian, HostEndian
<1> QED BY <1>2, <1>4 DEF Sendable

\* Of a char the value is what brings its byte to where it is found.
LEMMA WordMeant ==
  ASSUME NEW h, NEW t \in Words, NEW y \in Seq(Byte), Len(y) = 4
  PROVE  Sendable(h, t, y)
<1> DEFINE c == Swap32(h, y)
           v == SubSeq(c, 2, 4) \o <<c[1]>>
           a == [type |-> t, val |-> IF t = Char THEN v ELSE y]
<1>1. t \notin LongWords \cup Empty \cup Strings \cup {Blob, Midi} /\ t \in Types
  BY DEF Empty, Words, LongWords, Strings, Blob, Midi, True, False, Nil, Infinitum, Int32, Float, Char,
         Int64, Timetag, Double, String, Symbol, Types
<1>2. c \in Seq(Byte) /\ Len(c) = 4 /\ Swap32(h, c) = y
  BY Swap32Facts
<1> HIDE DEF c
<1>3. v \in Seq(Byte) /\ Len(v) = 4 /\ <<v[4]>> \o SubSeq(v, 1, 3) = c
  <2> DEFINE f == <<c[1]>>
             r == SubSeq(c, 2, 4)
  <2>1. f \in Seq(Byte) /\ Len(f) = 1 /\ f[1] = c[1]
    BY <1>2
  <2>2. 1 \in 0 .. Len(c) /\ 1 + 1 = 2 /\ Len(c) - 1 = 3
    BY <1>2
  <2>3. /\ SubSeq(c, 1, 1) \in Seq(Byte) /\ Len(SubSeq(c, 1, 1)) = 1 /\ SubSeq(c, 1, 1)[1] = c[1]
        /\ From(c, 1 + 1) \in Seq(Byte) /\ Len(From(c, 1 + 1)) = Len(c) - 1
        /\ SubSeq(c, 1, 1) \o From(c, 1 + 1) = c
    <3>1. /\ SubSeq(c, 1, 1) \in Seq(Byte) /\ Len(SubSeq(c, 1, 1)) = 1
          /\ (\A i \in 1 .. 1 : SubSeq(c, 1, 1)[i] = c[i])
          /\ From(c, 1 + 1) \in Seq(Byte) /\ Len(From(c, 1 + 1)) = Len(c) - 1
          /\ SubSeq(c, 1, 1) \o From(c, 1 + 1) = c
      BY <1>2, <2>2, Split
    <3> QED BY <3>1
  <2>4. From(c, 1 + 1) = r
    BY <1>2, <2>2 DEF From
  <2>5. SubSeq(c, 1, 1) = f
    <3> DEFINE g == SubSeq(c, 1, 1)
    <3>1. g \in Seq(Byte) /\ Len(g) = 1 /\ g[1] = c[1]
      BY <2>3
    <3> HIDE DEF g, f
    <3>2. \A i \in 1 .. Len(g) : g[i] = f[i]
      BY <2>1, <3>1
    <3>3. g = f
      BY <2>1, <3>1, <3>2, SeqEqual
    <3> QED BY <3>3 DEF g
  <2>6. r \in Seq(Byte) /\ Len(r) = 3 /\ f \o r = c
    BY <2>2, <2>3, <2>4, <2>5
  <2>7. v = r \o f
    OBVIOUS
  <2> HIDE DEF f, r, v
  <2>8. /\ r \o f \in Seq(Byte) /\ Len(r \o f) = Len(r) + Len(f) /\ SubSeq(r \o f, 1, Len(r)) = r
        /\ \A i \in 1 .. Len(f) : (r \o f)[Len(r) + i] = f[i]
    BY <2>1, <2>6, Joined
  <2>9. v \in Seq(Byte) /\ Len(v) = 4 /\ SubSeq(v, 1, 3) = r /\ v[4] = f[1]
    <3>1. 1 \in 1 .. Len(f) /\ Len(r) + 1 = 4 /\ Len(r) + Len(f) = 4
      BY <2>1, <2>6
    <3>2. v[Len(r) + 1] = f[1]
      BY <2>7, <2>8, <3>1
    <3> QED BY <2>6, <2>7, <2>8, <3>1, <3>2
  <2>10. <<v[4]>> = f
    BY <2>1, <2>9 DEF f
  <2> QED BY <2>6, <2>9, <2>10
<1> HIDE DEF v
<1>4. a \in Given
  BY <1>1, <1>3 DEF Given, WellTyped
<1>5. Stored(h, a) = c
  <2>1. CASE t = Char
    <3>1. Stored(h, a) = <<v[4]>> \o SubSeq(v, 1, 3)
      BY <1>1, <2>1 DEF Stored, ArgBytes
    <3> QED BY <1>3, <3>1
  <2>2. CASE t # Char
    BY <1>1, <2>2 DEF Stored, ArgBytes, c, Swap32
  <2> QED BY <2>1, <2>2
<1>6. a.type = t
  OBVIOUS
<1> HIDE DEF a
<1>7. HostEndian(h, t, c) = Swap32(h, c)
  BY <1>1 DEF HostEndian
<1>8. OnWire(h, a) = y
  BY <1>2, <1>5, <1>6, <1>7 DEF OnWire, NetworkEndian
<1> QED BY <1>4, <1>6, <1>8 DEF Sendable

LEMMA LongWordMeant ==
  ASSUME NEW h, NEW t \in LongWords, NEW y \in Seq(Byte), Len(y) = 8
  PROVE  Sendable(h, t, y)
<1> DEFINE v == Swap32(h, Swap64(h, y))
           a == [type |-> t, val |-> v]
<1>1. t \notin Words \cup Empty \cup Strings \cup {Blob, Midi, Char} /\ t \in Types
  BY DEF Empty, Words, LongWords, Strings, Blob, Midi, True, False, Nil, Infinitum, Int32, Float, Char,
         Int64, Timetag, Double, String, Symbol, Types
<1>2. /\ Swap64(h, y) \in Seq(Byte) /\ Len(Swap64(h, y)) = 8 /\ Swap64(h, Swap64(h, y)) = y
  BY Swap64Facts
<1>3. v \in Seq(Byte) /\ Len(v) = 8 /\ Swap32(h, v) = Swap64(h, y)
  BY <1>2, Swap32Facts
<1> HIDE DEF v
<1>4. a \in Given
  BY <1>1, <1>3 DEF Given, WellTyped
<1>5. Stored(h, a) = Swap32(h, v)
  BY <1>1 DEF Stored, ArgBytes, Swap32
<1>6. a.type = t
  OBVIOUS
<1> HIDE DEF a
<1>7. OnWire(h, a) = y
  BY <1>1, <1>2, <1>3, <1>5, <1>6 DEF OnWire, NetworkEndian, HostEndian
<1> QED BY <1>4, <1>6, <1>7 DEF Sendable

LEMMA StringIsMeant ==
  ASSUME NEW h, NEW t \in Strings, NEW s \in Text
  PROVE  Sendable(h, t, PaddedString(s))
<1> DEFINE a == [type |-> t, val |-> s]
<1>1. t \notin Words \cup LongWords \cup Empty \cup {Blob, Midi, Char} /\ t \in Types
  BY DEF Empty, Words, LongWords, Strings, Blob, Midi, True, False, Nil, Infinitum, Int32, Float, Char,
         Int64, Timetag, Double, String, Symbol, Types
<1>2. a \in Given
  BY <1>1 DEF Given, WellTyped, Text
<1>3. Stored(h, a) = PaddedString(s)
  BY <1>1 DEF Stored, ArgBytes, PaddedString
<1>4. OnWire(h, a) = PaddedString(s)
  BY <1>1, <1>3 DEF OnWire, NetworkEndian, HostEndian
<1> QED BY <1>2, <1>4 DEF Sendable

LEMMA NumberMeant ==
  ASSUME NEW b, b[1] \in Byte, b[2] \in Byte, b[3] \in Byte, b[4] \in Byte, ~(Number(b) > MaxSize)
  PROVE  Number(b) \in 0 .. MaxSize /\ Network(Number(b)) = <<b[1], b[2], b[3], b[4]>>
<1>1. ASSUME NEW x \in Byte, NEW y \in Byte
      PROVE  /\ 256 * x + y \in Nat /\ (256 * x + y) \div 256 = x /\ (256 * x + y) % 256 = y
  BY DEF Byte
<1>2. ~(b[1] > 0 \/ b[2] > 0 \/ 256 * b[3] + b[4] > MaxSize)
  <2>1. SUFFICES ASSUME b[1] > 0 \/ b[2] > 0 \/ 256 * b[3] + b[4] > MaxSize PROVE FALSE
    OBVIOUS
  <2>2. Number(b) = MaxSize + 1
    BY <2>1 DEF Number
  <2> QED BY <2>2 DEF MaxSize
<1>3. Number(b) = 256 * b[3] + b[4]
  BY <1>2 DEF Number
<1>4. b[1] = 0 /\ b[2] = 0
  BY <1>2 DEF Byte
<1>5. 256 * b[3] + b[4] \in 0 .. MaxSize
  <2>1. 256 * b[3] + b[4] \in Nat
    BY <1>1
  <2>2. 256 * b[3] + b[4] <= MaxSize
    <3>1. ASSUME NEW x \in Nat, ~(x > MaxSize) PROVE x <= MaxSize
      BY <3>1 DEF MaxSize
    <3> QED BY <1>2, <2>1, <3>1
  <2>3. MaxSize \in Int
    BY DEF MaxSize
  <2>4. ASSUME NEW m \in Int, NEW x \in Nat, x <= m PROVE x \in 0 .. m
    BY <2>4
  <2> QED BY <2>1, <2>2, <2>3, <2>4
<1>6. Number(b) \div 256 = b[3] /\ Number(b) % 256 = b[4]
  BY <1>1, <1>3
<1> QED BY <1>3, <1>4, <1>5, <1>6 DEF Network

\* What is sent of a blob with the size c and t after it.
LEMMA BlobSent ==
  ASSUME NEW h, NEW a, NEW c \in Seq(Byte), NEW t \in Seq(Byte), Len(c) = 4, a.type = Blob,
         Stored(h, a) = c \o t
  PROVE  OnWire(h, a) = Swap32(h, c) \o t
<1>1. HostEndian(h, Blob, c \o t) = Swap32(h, c) \o t
  BY BlobEndian
<1> QED BY <1>1 DEF OnWire, NetworkEndian

LEMMA BlobMeant ==
  ASSUME NEW h, NEW b \in Seq(Byte), ValidateBlob(b) # Bad
  PROVE  ValidateBlob(b) \in 0 .. Len(b) /\ Sendable(h, Blob, SubSeq(b, 1, ValidateBlob(b)))
<1> DEFINE n == Number(b)
           m == PaddedSize(4 + n)
           N == SubSeq(b, 1, 4)
           v == SubSeq(b, 5, 4 + n)
           q == SubSeq(b, 1, m)
           a == [type |-> Blob, val |-> v]
<1>1. /\ ~(Len(b) < 4) /\ ~(n > MaxSize) /\ ~(m > Len(b)) /\ ValidateBlob(b) = m
      /\ \A i \in (4 + n) + 1 .. m : b[i] = Nul
  BY DEF ValidateBlob
<1>2. b[1] \in Byte /\ b[2] \in Byte /\ b[3] \in Byte /\ b[4] \in Byte /\ Len(b) \in Nat
  BY <1>1
<1>3. n \in 0 .. MaxSize
  BY <1>1, <1>2, NumberMeant
<1>4. Network(n) = <<b[1], b[2], b[3], b[4]>>
  BY <1>1, <1>2, NumberMeant
<1> HIDE DEF n
<1>5. n \in Nat /\ m \in Nat /\ m - (4 + n) \in 1 .. 4
  <2>1. 4 + n \in Nat /\ n \in Nat
    BY <1>3
  <2> QED BY <2>1, PaddedSizeFacts
<1> HIDE DEF m
<1>6. m \in 0 .. Len(b) /\ 4 + n <= Len(b)
  BY <1>1, <1>2, <1>5
<1>7. /\ N \in Seq(Byte) /\ Len(N) = 4 /\ N[1] = b[1] /\ N[2] = b[2] /\ N[3] = b[3] /\ N[4] = b[4]
      /\ \A i \in 1 .. 4 : N[i] = b[i]
  <2>1. 4 \in 0 .. Len(b)
    BY <1>1, <1>2
  <2>2. N \in Seq(Byte) /\ Len(N) = 4 /\ \A i \in 1 .. 4 : N[i] = b[i]
    BY <2>1, Split
  <2> HIDE DEF N
  <2> QED BY <2>2
<1> HIDE DEF N
<1>8. N = Network(n)
  <2> DEFINE f == <<b[1], b[2], b[3], b[4]>>
  <2>1. f \in Seq(Byte) /\ Len(f) = 4 /\ \A i \in 1 .. 4 : f[i] = N[i]
    BY <1>2, <1>7
  <2> HIDE DEF f
  <2>2. N = f
    BY <1>7, <2>1, SeqEqual
  <2> QED BY <1>4, <2>2 DEF f
<1>9. v \in Seq(Byte) /\ Len(v) = n /\ \A i \in 1 .. n : v[i] = b[4 + i]
  <2>1. \A i \in 5 .. 4 + n : b[i] \in Byte
    BY <1>5, <1>6
  <2>2. /\ v \in Seq(Byte) /\ Len(v) = IF 5 <= 4 + n THEN 4 + n - 5 + 1 ELSE 0
        /\ \A i \in 1 .. 4 + n - 5 + 1 : v[i] = b[5 + i - 1]
    BY <1>5, <2>1, SubSeqProperties
  <2> HIDE DEF v
  <2>3. Len(v) = n
    BY <1>5, <2>2
  <2>4. \A i \in 1 .. n : v[i] = b[4 + i]
    <3> TAKE i \in 1 .. n
    <3>1. i \in 1 .. 4 + n - 5 + 1 /\ 5 + i - 1 = 4 + i
      BY <1>5
    <3> QED BY <2>2, <3>1
  <2> QED BY <2>2, <2>3, <2>4
<1> HIDE DEF v
<1>10. a \in Given /\ a.type = Blob /\ a.val = v
  <2>1. Blob \notin Words \cup LongWords \cup Empty \cup Strings \cup {Midi} /\ Blob \in Types
    BY DEF Empty, Words, LongWords, Strings, Blob, Midi, True, False, Nil, Infinitum, Int32, Float,
       Char, Int64, Timetag, Double, String, Symbol, Types
  <2>2. Len(v) <= MaxSize
    <3>1. n <= MaxSize
      BY <1>3 DEF MaxSize
    <3> QED BY <1>9, <3>1
  <2> QED BY <1>9, <2>1, <2>2 DEF Given, WellTyped
<1> HIDE DEF a
<1> DEFINE t == BlobTail(a)
           c == Swap32(h, N)
<1>11. /\ t \in Seq(Byte) /\ 4 + Len(t) = m
       /\ (\A i \in n + 1 .. Len(t) : t[i] = Nul)
       /\ Stored(h, a) = c \o t
  BY <1>8, <1>9, <1>10, BlobTailFacts DEF m
<1>12. \A i \in 1 .. n : t[i] = v[i]
  <2>1. PaddedSize(4 + Len(a.val)) - (4 + Len(a.val)) \in Nat
    BY <1>5, <1>9, <1>10 DEF m
  <2> DEFINE z == Zeros(PaddedSize(4 + Len(a.val)) - (4 + Len(a.val)))
  <2>2. z \in Seq(Byte)
    BY <2>1, ZerosFacts
  <2>3. t = v \o z
    BY <1>10 DEF BlobTail
  <2> HIDE DEF z, t
  <2> QED BY <1>9, <2>2, <2>3, Joined
<1> HIDE DEF t
<1>13. OnWire(h, a) = N \o t
  <2>1. c \in Seq(Byte) /\ Len(c) = 4 /\ Swap32(h, c) = N
    BY <1>7, Swap32Facts
  <2>2. Stored(h, a) = c \o t /\ t \in Seq(Byte)
    BY <1>11
  <2> HIDE DEF c
  <2>3. OnWire(h, a) = Swap32(h, c) \o t
    BY <1>10, <2>1, <2>2, BlobSent
  <2> QED BY <2>1, <2>3
<1>14. q \in Seq(Byte) /\ Len(q) = m /\ \A i \in 1 .. m : q[i] = b[i]
  BY <1>6, Split
<1> HIDE DEF q
<1>15. N \o t = q
  <2> DEFINE w == N \o t
  <2>1. /\ w \in Seq(Byte) /\ Len(w) = 4 + Len(t)
        /\ (\A i \in 1 .. 4 : w[i] = N[i]) /\ (\A i \in 1 .. Len(t) : w[4 + i] = t[i])
    BY <1>7, <1>11, BlobEndian
  <2> HIDE DEF w
  <2>2. Len(t) \in Nat
    BY <1>11
  <2>3. ASSUME NEW i \in 1 .. m PROVE w[i] = q[i]
    <3>1. CASE i \in 1 .. 4
      BY <1>7, <1>14, <2>1, <3>1
    <3>2. CASE i \notin 1 .. 4
      <4> DEFINE j == i - 4
      <4>1. j \in 1 .. Len(t) /\ 4 + j = i /\ (j \in 1 .. n \/ j \in n + 1 .. Len(t))
        BY <1>5, <1>11, <2>2, <3>2
      <4>2. w[i] = t[j]
        BY <2>1, <4>1
      <4>3. j \in n + 1 .. Len(t) => b[i] = Nul
        <5>1. j \in n + 1 .. Len(t) => i \in (4 + n) + 1 .. m
          BY <1>5, <1>11, <2>2
        <5> QED BY <1>1, <5>1 DEF m
      <4> HIDE DEF j
      <4> QED BY <1>9, <1>11, <1>12, <1>14, <4>1, <4>2, <4>3
    <3> QED BY <3>1, <3>2
  <2>4. w = q
    BY <1>11, <1>14, <2>1, <2>3, SeqEqual
  <2> QED BY <2>4 DEF w
<1>16. Sendable(h, Blob, q)
  BY <1>10, <1>13, <1>15 DEF Sendable
<1> QED BY <1>1, <1>6, <1>16 DEF q

\* Whatever is accepted of the next argument is one that may have been sent.
LEMMA ArgMeant ==
  ASSUME NEW h, NEW t, NEW b \in Seq(Byte), ValidateArg(t, b) # Bad
  PROVE  /\ t \in Types /\ ValidateArg(t, b) \in 0 .. Len(b)
         /\ Sendable(h, t, SubSeq(b, 1, ValidateArg(t, b)))
<1> DEFINE l == ValidateArg(t, b)
           y == SubSeq(b, 1, l)
<1>1. t \in Empty \/ t \in Words \/ t = Midi \/ t \in LongWords \/ t \in Strings \/ t = Blob
  BY DEF ValidateArg
<1>2. t \in Types
  BY <1>1 DEF Types
<1>3. /\ t \in Empty => l = 0
      /\ t \in Words \cup {Midi} => l = AtLeast(4, b)
      /\ t \in LongWords => l = AtLeast(8, b)
      /\ t \in Strings => l = ValidateString(b)
      /\ t = Blob => l = ValidateBlob(b)
  BY <1>1 DEF ValidateArg, Empty, Words, LongWords, Strings, Blob, Midi, True, False, Nil, Infinitum, Int32,
     Float, Char, Int64, Timetag, Double, String, Symbol
<1>4. Len(b) \in Nat /\ l # Bad
  OBVIOUS
<1> HIDE DEF l
<1>5. \A k \in 0 .. Len(b) : SubSeq(b, 1, k) \in Seq(Byte) /\ Len(SubSeq(b, 1, k)) = k
  BY Split
<1>6. CASE t \in Empty
  <2>1. l = 0 /\ l \in 0 .. Len(b)
    BY <1>3, <1>4, <1>6
  <2>2. SubSeq(b, 1, 0) = <<>>
    <3>1. 0 \in 0 .. Len(b)
      BY <1>4
    <3> QED BY <1>5, <3>1, EmptySeq
  <2> QED BY <1>2, <1>6, <2>1, <2>2, EmptyMeant DEF l
<1>7. CASE t \in Words \cup {Midi}
  <2>1. l = 4 /\ l \in 0 .. Len(b)
    BY <1>3, <1>4, <1>7 DEF AtLeast
  <2>2. y \in Seq(Byte) /\ Len(y) = 4
    BY <1>5, <2>1
  <2> HIDE DEF y
  <2>3. Sendable(h, t, y)
    BY <1>7, <2>2, MidiMeant, WordMeant
  <2> QED BY <1>2, <2>1, <2>3 DEF l, y
<1>8. CASE t \in LongWords
  <2>1. l = 8 /\ l \in 0 .. Len(b)
    BY <1>3, <1>4, <1>8 DEF AtLeast
  <2>2. y \in Seq(Byte) /\ Len(y) = 8
    BY <1>5, <2>1
  <2> HIDE DEF y
  <2>3. Sendable(h, t, y)
    BY <1>8, <2>2, LongWordMeant
  <2> QED BY <1>2, <2>1, <2>3 DEF l, y
<1>9. CASE t \in Strings
  <2> DEFINE s == SubSeq(b, 1, StrLen(b))
  <2>1. l = ValidateString(b) /\ ValidateString(b) # Bad
    BY <1>3, <1>4, <1>9
  <2>2. s \in Text /\ l \in 0 .. Len(b) /\ PaddedString(s) = y
    BY <2>1, StringMeant
  <2> HIDE DEF s, y
  <2>3. Sendable(h, t, y)
    BY <1>9, <2>2, StringIsMeant
  <2> QED BY <1>2, <2>2, <2>3 DEF l, y
<1>10. CASE t = Blob
  <2>1. l = ValidateBlob(b) /\ ValidateBlob(b) # Bad
    BY <1>3, <1>4, <1>10
  <2>2. l \in 0 .. Len(b) /\ Sendable(h, Blob, y)
    BY <2>1, BlobMeant
  <2> QED BY <1>2, <1>10, <2>2 DEF l, y
<1> QED BY <1>1, <1>6, <1>7, <1>8, <1>9, <1>10

----------------------------------------------------------------------------
(* Whatever is accepted is a message *)

ReadStates == [ok : BOOLEAN, argv : Seq(Nat), data : Seq(Byte), rest : Seq(Byte)]

ReadNext(g, acc, t) == ReadArg(g, acc, t, ValidateArg(t, acc.rest))

\* The bytes the next argument takes.
NextBytes(acc, t) == SubSeq(acc.rest, 1, ValidateArg(t, acc.rest))

LEMMA ReadGoesOn ==
  ASSUME NEW g, NEW acc \in ReadStates, NEW t
  PROVE  /\ ReadNext(g, acc, t) \in ReadStates
         /\ ReadNext(g, acc, t).ok =>
              /\ acc.ok
              /\ NextBytes(acc, t) \in Seq(Byte) /\ Sendable(g, t, NextBytes(acc, t))
              /\ acc.rest = NextBytes(acc, t) \o ReadNext(g, acc, t).rest
<1> DEFINE b == acc.rest
           l == ValidateArg(t, b)
           y == SubSeq(b, 1, l)
           z == From(b, l + 1)
           e == HostEndian(g, t, y)
           s == ReadNext(g, acc, t)
<1>1. /\ acc.ok \in BOOLEAN /\ acc.argv \in Seq(Nat) /\ acc.data \in Seq(Byte) /\ b \in Seq(Byte)
      /\ acc = [ok |-> acc.ok, argv |-> acc.argv, data |-> acc.data, rest |-> b]
  BY DEF ReadStates
<1>2. CASE ~acc.ok \/ l = Bad
  <2>1. s = [acc EXCEPT !.ok = FALSE]
    BY <1>2 DEF ReadNext, ReadArg
  <2>2. s \in ReadStates /\ s.ok = FALSE
    <3> HIDE DEF s
    <3> QED BY <1>1, <2>1 DEF ReadStates
  <2> QED BY <2>2
<1>3. CASE acc.ok /\ l # Bad
  <2> HIDE DEF b
  <2>1. l \in 0 .. Len(b) /\ Sendable(g, t, y)
    BY <1>1, <1>3, ArgMeant
  <2> DEFINE v == IF l = 0 THEN 0 ELSE Len(acc.data) + 1
             q == Append(acc.argv, v)
             d == acc.data \o e
  <2>2. s = [ok |-> TRUE, argv |-> q, data |-> d, rest |-> z]
    BY <1>3 DEF ReadNext, ReadArg, b
  <2> HIDE DEF l
  <2>3. y \in Seq(Byte) /\ z \in Seq(Byte) /\ y \o z = b
    BY <1>1, <2>1, Split
  <2>4. e \in Seq(Byte)
    <3> HIDE DEF y
    <3>1. PICK a \in Given : a.type = t /\ OnWire(g, a) = y
      BY <2>1 DEF Sendable
    <3>2. HostEndian(g, a.type, OnWire(g, a)) \in Seq(Byte)
      BY ArgIsFaithful, ArgIsUnderstood DEF Faithful
    <3> QED BY <3>1, <3>2
  <2> HIDE DEF e, y, z
  <2>5. v \in Nat
    BY <1>1
  <2> HIDE DEF v
  <2>6. q \in Seq(Nat) /\ d \in Seq(Byte)
    BY <1>1, <2>4, <2>5, Joined
  <2> HIDE DEF q, d, s
  <2>7. s \in ReadStates /\ s.rest = z
    BY <2>2, <2>3, <2>6 DEF ReadStates
  <2>8. NextBytes(acc, t) = y
    BY DEF NextBytes, y, l, b
  <2> QED BY <1>3, <2>1, <2>3, <2>7, <2>8 DEF s, b
<1> QED BY <1>1, <1>2, <1>3

ReadRun(F, g, ts, b) ==
    /\ F[0] = NothingRead(b)
    /\ \A i \in 0 .. Len(ts) : F[i] \in ReadStates
    /\ \A i \in 1 .. Len(ts) : F[i] = ReadNext(g, F[i - 1], ts[i])
    /\ ReadArgs(g, ts, b) = F[Len(ts)]

LEMMA ReadRuns ==
  ASSUME NEW g, NEW ts, Len(ts) \in Nat, NEW b \in Seq(Byte)
  PROVE  \E F : ReadRun(F, g, ts, b)
<1> DEFINE n == Len(ts)
           A == ReadStates
           base == NothingRead(b)
           h == [i \in 1 .. n |-> [acc \in A |-> ReadNext(g, acc, ts[i])]]
<1>1. base \in A
  <2>1. <<>> \in Seq(Nat) /\ <<>> \in Seq(Byte)
    OBVIOUS
  <2> QED BY <2>1 DEF NothingRead, ReadStates
<1>2. h \in [1 .. n -> [A -> A]]
  <2>1. \A i \in 1 .. n : [acc \in A |-> ReadNext(g, acc, ts[i])] \in [A -> A]
    <3> TAKE i \in 1 .. n
    <3>1. \A acc \in A : ReadNext(g, acc, ts[i]) \in A
      BY ReadGoesOn
    <3> HIDE DEF A
    <3> QED BY <3>1
  <2> HIDE DEF A
  <2> QED BY <2>1
<1>3. \A i \in 1 .. n : \A acc \in A : h[i][acc] = ReadNext(g, acc, ts[i])
  <2> HIDE DEF A
  <2> QED OBVIOUS
<1> HIDE DEF n, A, base, h
<1>4. PICK F : Run(F, base, h, n, A)
  <2>1. n \in Nat /\ Steps(h, n, A)
    BY <1>2 DEF n, Steps
  <2> QED BY <1>1, <2>1, Iterates
<1>5. F \in [0 .. n -> A] /\ F[0] = base /\ \A i \in 1 .. n : F[i] = h[i][F[i - 1]]
  BY <1>4 DEF Run
<1>6. \A i \in 1 .. n : F[i] = ReadNext(g, F[i - 1], ts[i])
  <2> TAKE i \in 1 .. n
  <2>1. i - 1 \in 0 .. n
    BY DEF n
  <2>2. F[i - 1] \in A
    BY <1>5, <2>1
  <2> QED BY <1>3, <1>5, <2>2
<1>7. ReadArgs(g, ts, b) = F[Len(ts)]
  <2>1. \A i \in 1 .. Len(ts) : F[i] = ReadArg(g, F[i - 1], ts[i], ValidateArg(ts[i], F[i - 1].rest))
    BY <1>6 DEF ReadNext, n
  <2>2. F[0] = NothingRead(b)
    BY <1>5 DEF base
  <2> QED BY <2>1, <2>2, ReadUnfolds
<1>8. \A i \in 0 .. n : F[i] \in ReadStates
  BY <1>5 DEF A
<1> QED BY <1>5, <1>6, <1>7, <1>8 DEF ReadRun, base, n

\* Arguments of the types ts whose bytes b begins with, and all but the end c of it.
Meant(as, g, ts, b, c) ==
    as \in Seq(Given) /\ TypesOf(as) = ts /\ c \in Seq(Byte) /\ b = FlattenSeq(SentAll(g, as)) \o c

LEMMA ReadMeant ==
  ASSUME NEW g, NEW ts \in Seq(Byte), NEW b \in Seq(Byte), ReadArgs(g, ts, b).ok
  PROVE  \E as : Meant(as, g, ts, b, ReadArgs(g, ts, b).rest)
<1> DEFINE n == Len(ts)
<1>1. n \in Nat
  OBVIOUS
<1>2. PICK F : ReadRun(F, g, ts, b)
  BY <1>1, ReadRuns
<1> HIDE DEF n
<1> DEFINE W == [i \in 1 .. n |-> NextBytes(F[i - 1], ts[i])]
           S == {i \in 0 .. n : F[i].ok =>
                   /\ \A j \in 1 .. i : W[j] \in Seq(Byte) /\ Sendable(g, ts[j], W[j])
                   /\ b = FlattenSeq(First(W, i)) \o F[i].rest}
<1>3. /\ F[0] = NothingRead(b) /\ (\A i \in 0 .. n : F[i] \in ReadStates)
      /\ (\A i \in 1 .. n : F[i] = ReadNext(g, F[i - 1], ts[i]))
      /\ ReadArgs(g, ts, b) = F[n]
  BY <1>2 DEF ReadRun, n
<1>4. \A i \in 1 .. n : W[i] = NextBytes(F[i - 1], ts[i])
  OBVIOUS
<1> HIDE DEF W
<1>5. 0 \in S
  <2>1. First(W, 0) = <<>>
    BY FirstGrows
  <2>2. FlattenSeq(<<>>) = <<>>
    BY DEF FlattenSeq
  <2>3. F[0].rest = b /\ <<>> \o b = b
    BY <1>3, ConcatEmptySeq DEF NothingRead
  <2>4. 0 \in 0 .. n
    BY <1>1
  <2> QED BY <2>1, <2>2, <2>3, <2>4
<1>6. ASSUME NEW i \in 1 .. n, i - 1 \in S PROVE i \in S
  <2>1. i \in 0 .. n /\ i - 1 \in 0 .. n /\ i - 1 \in Nat /\ i \in Nat \ {0}
    BY <1>1
  <2> SUFFICES ASSUME F[i].ok
               PROVE  /\ \A j \in 1 .. i : W[j] \in Seq(Byte) /\ Sendable(g, ts[j], W[j])
                      /\ b = FlattenSeq(First(W, i)) \o F[i].rest
    BY <2>1
  <2>2. /\ F[i - 1].ok /\ W[i] \in Seq(Byte) /\ Sendable(g, ts[i], W[i])
        /\ F[i - 1].rest = W[i] \o F[i].rest /\ F[i].rest \in Seq(Byte)
    <3> DEFINE acc == F[i - 1]
               t == ts[i]
               s == F[i]
    <3>1. acc \in ReadStates /\ s = ReadNext(g, acc, t) /\ s \in ReadStates /\ s.ok /\ W[i] = NextBytes(acc, t)
      BY <1>3, <1>4, <2>1
    <3> HIDE DEF acc, t, s
    <3>2. /\ acc.ok /\ NextBytes(acc, t) \in Seq(Byte) /\ Sendable(g, t, NextBytes(acc, t))
          /\ acc.rest = NextBytes(acc, t) \o s.rest
      BY <3>1, ReadGoesOn
    <3>3. s.rest \in Seq(Byte)
      BY <3>1 DEF ReadStates
    <3> QED BY <3>1, <3>2, <3>3 DEF acc, t, s
  <2>3. /\ \A j \in 1 .. i - 1 : W[j] \in Seq(Byte) /\ Sendable(g, ts[j], W[j])
        /\ b = FlattenSeq(First(W, i - 1)) \o F[i - 1].rest
    BY <1>6, <2>2
  <2>4. \A j \in 1 .. i : W[j] \in Seq(Byte) /\ Sendable(g, ts[j], W[j])
    <3> TAKE j \in 1 .. i
    <3>1. j = i \/ j \in 1 .. i - 1
      BY <2>1
    <3> QED BY <2>2, <2>3, <3>1
  <2> DEFINE w == First(W, i - 1)
             y == W[i]
             z == F[i].rest
  <2>5. w \in Seq(Seq(Byte))
    <3>1. \A j \in 1 .. i - 1 : W[j] \in Seq(Byte)
      BY <2>3
    <3>2. w \in [1 .. i - 1 -> Seq(Byte)]
      BY <3>1 DEF First
    <3> HIDE DEF w
    <3> QED BY <2>1, <3>2
  <2>6. First(W, i) = Append(w, y)
    BY <2>1, FirstGrows
  <2>7. b = FlattenSeq(w) \o (y \o z) /\ y \in Seq(Byte) /\ z \in Seq(Byte)
    BY <2>2, <2>3
  <2> HIDE DEF w, y, z
  <2>8. FlattenSeq(Append(w, y)) = FlattenSeq(w) \o y /\ FlattenSeq(w) \in Seq(Byte)
    BY <2>5, <2>7, FlattenMore
  <2>9. (FlattenSeq(w) \o y) \o z = FlattenSeq(w) \o (y \o z)
    BY <2>7, <2>8, Associative
  <2>10. b = FlattenSeq(First(W, i)) \o z
    BY <2>6, <2>7, <2>8, <2>9
  <2> QED BY <2>4, <2>10 DEF z
<1>7. n \in S
  <2> HIDE DEF S
  <2>1. \A i \in 0 .. n : i \in S
    BY <1>1, <1>5, <1>6, ByPlace
  <2>2. n \in 0 .. n
    BY <1>1
  <2> QED BY <2>1, <2>2
<1>8. F[n].ok /\ F[n].rest \in Seq(Byte)
  <2>1. n \in 0 .. n
    BY <1>1
  <2> QED BY <1>3, <2>1 DEF ReadStates
<1>9. /\ \A j \in 1 .. n : W[j] \in Seq(Byte) /\ Sendable(g, ts[j], W[j])
      /\ b = FlattenSeq(First(W, n)) \o F[n].rest
  BY <1>7, <1>8
<1> HIDE DEF S
<1> DEFINE Of(j) == CHOOSE a \in Given : a.type = ts[j] /\ OnWire(g, a) = W[j]
           as == [j \in 1 .. n |-> Of(j)]
<1>10. \A j \in 1 .. n : Of(j) \in Given /\ Of(j).type = ts[j] /\ OnWire(g, Of(j)) = W[j]
  <2> TAKE j \in 1 .. n
  <2>1. \E a \in Given : a.type = ts[j] /\ OnWire(g, a) = W[j]
    BY <1>9 DEF Sendable
  <2> QED BY <2>1
<1> HIDE DEF Of
<1>11. as \in Seq(Given) /\ DOMAIN as = 1 .. n /\ \A j \in 1 .. n : as[j] = Of(j)
  <2>1. as \in [1 .. n -> Given]
    BY <1>10
  <2>2. \A j \in 1 .. n : as[j] = Of(j)
    OBVIOUS
  <2>3. DOMAIN as = 1 .. n
    OBVIOUS
  <2> HIDE DEF as
  <2>4. \A f \in [1 .. n -> Given] : f \in Seq(Given)
    BY <1>1
  <2>5. as \in Seq(Given)
    BY <2>1, <2>4
  <2> QED BY <2>2, <2>3, <2>5
<1> HIDE DEF as
<1>12. TypesOf(as) = ts
  <2>1. TypesOf(as) = [j \in 1 .. n |-> ts[j]]
    BY <1>10, <1>11 DEF TypesOf
  <2>2. DOMAIN ts = 1 .. n /\ ts = [j \in DOMAIN ts |-> ts[j]]
    BY DEF n
  <2> QED BY <2>1, <2>2
<1>13. SentAll(g, as) = First(W, n)
  BY <1>10, <1>11 DEF SentAll, First
<1>14. Meant(as, g, ts, b, F[n].rest)
  BY <1>8, <1>9, <1>11, <1>12, <1>13 DEF Meant
<1> QED BY <1>3, <1>14

\* What is accepted is a message, and the next bytes of it are its arguments'.
AsSent(path, as, h) == Message(path, TypesOf(as), FlattenSeq(SentAll(h, as)))

LEMMA SentIsBytes ==
  ASSUME NEW path \in Text, NEW as \in Seq(Given), NEW h
  PROVE  /\ AsSent(path, as, h) \in Seq(Byte) /\ FlattenSeq(SentAll(h, as)) \in Seq(Byte)
         /\ TypesOf(as) \in Seq(Types)
         /\ \A c \in Seq(Byte) :
               AsSent(path, as, h) \o c = Message(path, TypesOf(as), FlattenSeq(SentAll(h, as)) \o c)
<1> DEFINE s == SentAll(h, as)
           D == FlattenSeq(s)
           ts == TypesOf(as)
           p == PaddedString(path)
           u == <<Comma>> \o ts
           q == PaddedString(u)
<1>1. s \in Seq(Seq(Byte)) /\ ts \in Seq(Types)
  BY SequencesOf
<1>2. D \in Seq(Byte)
  <2> HIDE DEF s
  <2>1. <<>> \in Seq(Byte)
    OBVIOUS
  <2> QED BY <1>1, <2>1, FlattenMore
<1>3. u \in Text
  BY <1>1, TypesAreText
<1> HIDE DEF s, D, ts, u
<1>4. p \in Seq(Byte) /\ q \in Seq(Byte)
  BY <1>2, <1>3, PaddedStringFacts
<1> HIDE DEF p, q
<1>5. p \o q \in Seq(Byte) /\ (p \o q) \o D \in Seq(Byte)
  <2>1. p \o q \in Seq(Byte)
    BY <1>4, Joined
  <2> QED BY <1>2, <2>1, Joined
<1>6. \A c \in Seq(Byte) : ((p \o q) \o D) \o c = (p \o q) \o (D \o c)
  BY <1>2, <1>5, Associative
<1>7. AsSent(path, as, h) = (p \o q) \o D
  BY DEF AsSent, Message, p, q, u, D, s, ts
<1>8. \A c : Message(path, ts, D \o c) = (p \o q) \o (D \o c)
  BY DEF Message, p, q, u
<1>9. \A c \in Seq(Byte) : AsSent(path, as, h) \o c = Message(path, ts, D \o c)
  BY <1>6, <1>7, <1>8
<1> QED BY <1>1, <1>2, <1>5, <1>7, <1>9 DEF s, D, ts

\* A type string is the comma and the types after it.
LEMMA TypeString ==
  ASSUME NEW b \in Seq(Byte), NEW n \in 1 .. Len(b), b[1] = Comma
  PROVE  /\ SubSeq(b, 2, n) \in Seq(Byte)
         /\ SubSeq(b, 2, n) \in Seq(Types) => SubSeq(b, 1, n) = <<Comma>> \o SubSeq(b, 2, n)
<1> DEFINE ts == SubSeq(b, 2, n)
           u == SubSeq(b, 1, n)
           v == <<Comma>> \o ts
<1>1. n \in Nat /\ n \in 0 .. Len(b) /\ \A i \in 2 .. n : b[i] \in Byte
  OBVIOUS
<1>2. u \in Seq(Byte) /\ Len(u) = n /\ \A i \in 1 .. n : u[i] = b[i]
  BY <1>1, Split
<1>3. /\ ts \in Seq(Byte) /\ Len(ts) = IF 2 <= n THEN n - 2 + 1 ELSE 0
      /\ \A i \in 1 .. n - 2 + 1 : ts[i] = b[2 + i - 1]
  BY <1>1, SubSeqProperties
<1> HIDE DEF ts, u
<1>4. Len(ts) = n - 1
  BY <1>1, <1>3
<1>5. ASSUME ts \in Seq(Types) PROVE u = v
  <2>1. /\ v \in Text /\ Len(v) = Len(ts) + 1 /\ v[1] = Comma
        /\ \A i \in 1 .. Len(ts) : v[i + 1] = ts[i]
    BY <1>5, TypesAreText
  <2> HIDE DEF v
  <2>2. v \in Seq(Byte) /\ Len(v) = n
    BY <1>1, <1>4, <2>1 DEF Text
  <2>3. ASSUME NEW i \in 1 .. n PROVE u[i] = v[i]
    <3>1. CASE i = 1
      BY <1>2, <2>1, <3>1
    <3>2. CASE i # 1
      <4> DEFINE j == i - 1
      <4>1. j \in 1 .. Len(ts) /\ j + 1 = i /\ j \in 1 .. n - 2 + 1 /\ 2 + j - 1 = i
        BY <1>1, <1>4, <3>2
      <4> HIDE DEF j
      <4>2. ts[j] = b[i] /\ v[i] = ts[j]
        BY <1>3, <2>1, <4>1
      <4> QED BY <1>2, <4>2
    <3> QED BY <3>1, <3>2
  <2> QED BY <1>2, <2>2, <2>3, SeqEqual
<1> QED BY <1>3, <1>5 DEF ts, u

LEMMA OnlyMessages ==
  ASSUME NEW h, NEW w \in Seq(Byte), Deserialise(h, w).ok
  PROVE  \E path \in Text, as \in Seq(Given) : w = AsSent(path, as, h)
<1> DEFINE path == SubSeq(w, 1, StrLen(w))
           l == ValidateString(w)
           b == From(w, l + 1)
           k == ValidateString(b)
           n == StrLen(b)
           ts == SubSeq(b, 2, n)
           u == SubSeq(b, 1, n)
           D == From(b, k + 1)
           a == ReadArgs(h, ts, D)
<1>1. \A y : ~Rejected(y).ok
  BY DEF Rejected
<1>2. w # <<>> /\ l # Bad /\ Deserialise(h, w) = ReadTyped(h, path, b, k)
  BY <1>1 DEF Deserialise, ReadFrom
<1>3. path \in Text /\ w = PaddedString(path) \o b /\ b \in Seq(Byte)
  BY <1>2, StringMeant
<1> HIDE DEF path, l, b
<1>4. b # <<>> /\ k # Bad /\ b[1] = Comma /\ ReadTyped(h, path, b, k) = Read(path, ts, k, a)
  BY <1>1, <1>2 DEF ReadTyped
<1>5. u \in Text /\ b = PaddedString(u) \o D /\ D \in Seq(Byte)
  BY <1>3, <1>4, StringMeant
<1>6. n \in 1 .. Len(b)
  <2>1. ValidateString(b) # Bad
    BY <1>4
  <2>2. n >= 0
    BY <2>1 DEF ValidateString, Terminated
  <2>3. n \in 0 .. Len(b) - 1 /\ b[n + 1] = Nul
    <3>1. n # -1
      BY <2>2
    <3> QED BY <1>3, <3>1, StrLenFacts
  <2>4. n # 0
    <3> HIDE DEF n
    <3> QED BY <1>4, <2>3 DEF Comma, Nul
  <2> HIDE DEF n
  <2>5. Len(b) \in Nat
    BY <1>3
  <2> QED BY <2>3, <2>4, <2>5
<1> HIDE DEF n, k, D
<1>7. ts \in Seq(Byte) /\ (ts \in Seq(Types) => u = <<Comma>> \o ts)
  BY <1>3, <1>4, <1>6, TypeString
<1> HIDE DEF ts, u
<1>8. a.ok /\ a.rest = <<>>
  BY <1>1, <1>2, <1>4 DEF Read
<1>9. PICK as : Meant(as, h, ts, D, a.rest)
  BY <1>5, <1>7, <1>8, ReadMeant
<1>10. as \in Seq(Given) /\ TypesOf(as) = ts /\ D = FlattenSeq(SentAll(h, as)) \o <<>>
  BY <1>8, <1>9 DEF Meant
<1>11. FlattenSeq(SentAll(h, as)) \in Seq(Byte) /\ ts \in Seq(Types)
  BY <1>3, <1>10, SentIsBytes
<1>12. D = FlattenSeq(SentAll(h, as)) /\ u = <<Comma>> \o ts
  BY <1>7, <1>10, <1>11, ConcatEmptySeq
<1>13. w = PaddedString(path) \o (PaddedString(u) \o D)
  BY <1>3, <1>5
<1>14. PaddedString(path) \in Seq(Byte) /\ PaddedString(u) \in Seq(Byte)
  BY <1>3, <1>5, PaddedStringFacts
<1>15. w = (PaddedString(path) \o PaddedString(u)) \o D
  BY <1>5, <1>13, <1>14, Associative
<1>16. w = AsSent(path, as, h)
  BY <1>10, <1>12, <1>15 DEF AsSent, Message
<1> QED BY <1>3, <1>10, <1>16

LEMMA SentBack ==
  ASSUME NEW h, NEW path \in Text, NEW as \in Seq(Given)
  PROVE  LET w == AsSent(path, as, h)
             r == Deserialise(h, w)
         IN  w = Serialise(h, r.path, r.types, r.data)
<1> DEFINE s == StoredAll(h, as)
           w == Serialise(h, path, TypesOf(as), FlattenSeq(s))
           r == Deserialise(h, w)
<1>1. AsSent(path, as, h) = w
  BY SendIs DEF AsSent, Message, Serialise
<1>2. s \in Seq(Seq(Byte))
  BY SequencesOf
<1>3. PICK G, R : Parts(s, G, R, Byte)
  <2> HIDE DEF s
  <2> QED BY <1>2, PartsExist
<1>4. ArrivedAll(h, h, as) = s
  BY <1>3, SameHost
<1>5. Parts(ArrivedAll(h, h, as), G, R, Byte)
  BY <1>3, <1>4
<1>6. r.path = path /\ r.types = TypesOf(as) /\ r.data = FlattenSeq(ArrivedAll(h, h, as))
  <2>1. r = [ok |-> TRUE, path |-> path, types |-> TypesOf(as),
             typesize |-> PaddedSize(1 + Len(TypesOf(as))),
             data |-> FlattenSeq(ArrivedAll(h, h, as)), argv |-> Places(SentAll(h, as), G)]
    BY <1>5, ReceivedIs
  <2> HIDE DEF r
  <2> QED BY <2>1
<1> HIDE DEF r
<1>7. w = Serialise(h, r.path, r.types, r.data)
  BY <1>4, <1>6
<1> QED BY <1>1, <1>7 DEF r

Leaves(g, ts, D, c) == ReadArgs(g, ts, D \o c).ok /\ ReadArgs(g, ts, D \o c).rest = c

LEMMA LeftOver ==
  ASSUME NEW g, NEW h, NEW as \in Seq(Given), NEW c \in Seq(Byte)
  PROVE  Leaves(g, TypesOf(as), FlattenSeq(SentAll(h, as)), c)
<1> DEFINE s == ArrivedAll(g, h, as)
           r == ReadArgs(g, TypesOf(as), FlattenSeq(SentAll(h, as)) \o c)
<1>1. s \in Seq(Seq(Byte))
  BY SequencesOf
<1>2. PICK G, R : Parts(s, G, R, Byte)
  <2> HIDE DEF s
  <2> QED BY <1>1, PartsExist
<1>3. r = [ok |-> TRUE, argv |-> Places(SentAll(h, as), G), data |-> FlattenSeq(s), rest |-> c]
  BY <1>2, ReadIs
<1> HIDE DEF r
<1>4. r.ok /\ r.rest = c
  BY <1>3
<1> QED BY <1>4 DEF r, Leaves

\* What is accepted, with anything after it, is not.
LEMMA NothingAfter ==
  ASSUME NEW h, NEW p \in Seq(Byte), Deserialise(h, p).ok, NEW c \in Seq(Byte), c # <<>>
  PROVE  ~Deserialise(h, p \o c).ok
<1>1. PICK path \in Text, as \in Seq(Given) : p = AsSent(path, as, h)
  BY OnlyMessages
<1> DEFINE D == FlattenSeq(SentAll(h, as))
           ts == TypesOf(as)
<1>2. /\ D \in Seq(Byte) /\ ts \in Seq(Types) /\ p \o c = Message(path, ts, D \o c)
  BY <1>1, SentIsBytes
<1>5. ReadArgs(h, ts, D \o c).ok /\ ReadArgs(h, ts, D \o c).rest = c
  <2>1. Leaves(h, ts, D, c)
    BY LeftOver
  <2> HIDE DEF D, ts
  <2> QED BY <2>1 DEF Leaves
<1> HIDE DEF D, ts
<1>6. D \o c \in Seq(Byte)
  BY <1>2, Joined
<1>7. Deserialise(h, p \o c) = Read(path, ts, PaddedSize(1 + Len(ts)), ReadArgs(h, ts, D \o c))
  BY <1>2, <1>6, Delivered
<1>8. Deserialise(h, p \o c) = Rejected("size")
  BY <1>5, <1>7 DEF Read
<1> QED BY <1>8 DEF Rejected

LEMMA DamageIsSeen == MessageInv => DamageShows
<1> SUFFICES ASSUME MessageInv PROVE DamageShows
  OBVIOUS
<1> DEFINE path == CHOOSE p \in Paths : TRUE
           w == Packet(host, path)
<1>1. Contents /\ path \in Paths
  BY MessagesAssumption DEF MessageInv
<1> HIDE DEF path
<1>2. Deserialise(host, w).ok
  <2>1. Deserialise(host, w) = [ok |-> TRUE, path |-> path, types |-> types,
           typesize |-> PaddedSize(1 + Len(types)), data |-> data, argv |-> Argv(host, types, data)]
    BY <1>1, BackAgain DEF Packet
  <2> HIDE DEF w
  <2> QED BY <2>1
<1>3. w \in Seq(Byte)
  <2>1. args \in Seq(Given) /\ types = TypesOf(args) /\ data = FlattenSeq(StoredAll(host, args))
    BY <1>1 DEF Contents
  <2>2. path \in Text
    BY <1>1, PathsAreText
  <2>3. w = AsSent(path, args, host)
    BY <2>1, SendIs DEF Packet, Serialise, AsSent, Message
  <2> QED BY <2>1, <2>2, <2>3, SentIsBytes
<1> HIDE DEF w
<1>4. ASSUME NEW z \in Seq(Byte) PROVE Canonical(z)
  <2> SUFFICES ASSUME Deserialise(host, z).ok
               PROVE  z = Serialise(host, Deserialise(host, z).path, Deserialise(host, z).types,
                                    Deserialise(host, z).data)
    BY DEF Canonical
  <2>1. PICK p \in Text, as \in Seq(Given) : z = AsSent(p, as, host)
    BY OnlyMessages
  <2> QED BY <2>1, SentBack
<1>5. \A i \in DOMAIN w : \A v \in {0, 1} : Canonical([w EXCEPT ![i] = v])
  <2> TAKE i \in DOMAIN w
  <2> TAKE v \in {0, 1}
  <2> DEFINE z == [w EXCEPT ![i] = v]
  <2>1. v \in Byte
    BY DEF Byte
  <2>2. z \in Seq(Byte)
    BY <1>3, <2>1
  <2> HIDE DEF z
  <2>3. Canonical(z)
    BY <1>4, <2>2
  <2> QED BY <2>3 DEF z
<1>6. ASSUME NEW n \in 0 .. Len(w) - 1 PROVE ~Deserialise(host, SubSeq(w, 1, n)).ok
  <2> DEFINE p == SubSeq(w, 1, n)
             c == From(w, n + 1)
  <2>1. n \in 0 .. Len(w) /\ Len(w) - n > 0
    BY <1>3
  <2>2. p \in Seq(Byte) /\ c \in Seq(Byte) /\ Len(c) = Len(w) - n /\ p \o c = w
    BY <1>3, <2>1, Split
  <2> HIDE DEF p, c
  <2>3. c # <<>>
    BY <2>1, <2>2
  <2>4. ~Deserialise(host, p).ok
    BY <1>2, <2>2, <2>3, NothingAfter
  <2> QED BY <2>4 DEF p
<1> QED BY <1>5, <1>6 DEF DamageShows, w, path

\* A byte changed on the way gives another message, or none, and no message is
\* accepted before the last byte of it is there.
THEOREM DamageAlwaysShows == BundleSpec => []DamageShows
<1>1. BundleSpec => []MessageInv
  BY MessageInvariant
<1> QED BY <1>1, DamageIsSeen, PTL

----------------------------------------------------------------------------
(* Bundles *)

LEMMA LengthUnfolds ==
  ASSUME NEW b, Len(b) \in Nat, NEW F, F[0] = 16,
         \A i \in 1 .. Len(b) : F[i] = F[i - 1] + 4 + MessageLength(b[i].path, b[i].types, b[i].data)
  PROVE  BundleLength(b) = F[Len(b)]
<1> DEFINE n == Len(b)
           Step(l, e) == l + 4 + MessageLength(e.path, e.types, e.data)
           Cond(f) == f = [i \in 0 .. n |-> IF i = 0 THEN 16 ELSE Step(f[i - 1], b[i])]
           g == [i \in 0 .. n |-> F[i]]
           f == CHOOSE f : Cond(f)
<1>1. \A i \in 1 .. n : i - 1 \in 0 .. n /\ i \in 0 .. n /\ i # 0
  OBVIOUS
<1>2. Cond(g)
  <2>1. \A i \in 0 .. n : g[i] = IF i = 0 THEN 16 ELSE Step(g[i - 1], b[i])
    <3> TAKE i \in 0 .. n
    <3>1. CASE i = 0
      BY <3>1
    <3>2. CASE i # 0
      <4>1. i \in 1 .. n /\ g[i - 1] = F[i - 1]
        BY <3>2
      <4> QED BY <3>2, <4>1
    <3> QED BY <3>1, <3>2
  <2>2. g = [i \in 0 .. n |-> g[i]]
    OBVIOUS
  <2> HIDE DEF g, Step
  <2> QED BY <2>1, <2>2
<1> HIDE DEF g
<1>3. Cond(f)
  BY <1>2
<1>4. BundleLength(b) = f[n]
  BY DEF BundleLength, Folded
<1> HIDE DEF f
<1>5. f[0] = F[0] /\ \A i \in 1 .. n : f[i] = Step(f[i - 1], b[i])
  <2> HIDE DEF Step
  <2> QED BY <1>1, <1>3
<1>6. \A i \in 1 .. n : F[i] = Step(F[i - 1], b[i])
  OBVIOUS
<1>7. \A i \in 1 .. n : f[i - 1] = F[i - 1] => f[i] = F[i]
  <2> HIDE DEF Step
  <2> QED BY <1>5, <1>6
<1>8. f[n] = F[n]
  <2> HIDE DEF n
  <2> QED BY <1>5, <1>7, SameByPlace DEF n
<1> QED BY <1>4, <1>8

MessageOf(h, e) == Serialise(h, e.path, e.types, e.data)
SizeOf(e)       == MessageLength(e.path, e.types, e.data)

BundleRun(F, h, ts, b) ==
    /\ F[0] = PaddedString(BundleMark) \o ts
    /\ \A i \in 1 .. Len(b) : F[i] = (F[i - 1] \o Network(SizeOf(b[i]))) \o MessageOf(h, b[i])

LEMMA BundleUnfolds ==
  ASSUME NEW h, NEW ts, NEW b, Len(b) \in Nat, NEW F, BundleRun(F, h, ts, b)
  PROVE  BundleSerialise(h, ts, b) = F[Len(b)]
<1> DEFINE n == Len(b)
           base == PaddedString(BundleMark) \o ts
           Step(w, e) == (w \o Network(SizeOf(e))) \o MessageOf(h, e)
           Cond(f) == f = [i \in 0 .. n |-> IF i = 0 THEN base ELSE Step(f[i - 1], b[i])]
           g == [i \in 0 .. n |-> F[i]]
           f == CHOOSE f : Cond(f)
<1>0. F[0] = base /\ \A i \in 1 .. n : F[i] = Step(F[i - 1], b[i])
  BY DEF BundleRun
<1>1. \A i \in 1 .. n : i - 1 \in 0 .. n /\ i \in 0 .. n /\ i # 0
  OBVIOUS
<1>2. Cond(g)
  <2>1. \A i \in 0 .. n : g[i] = IF i = 0 THEN base ELSE Step(g[i - 1], b[i])
    <3> TAKE i \in 0 .. n
    <3>1. CASE i = 0
      BY <1>0, <3>1
    <3>2. CASE i # 0
      <4>1. i \in 1 .. n /\ g[i - 1] = F[i - 1]
        BY <3>2
      <4> QED BY <1>0, <3>2, <4>1
    <3> QED BY <3>1, <3>2
  <2>2. g = [i \in 0 .. n |-> g[i]]
    OBVIOUS
  <2> HIDE DEF g, Step, base
  <2> QED BY <2>1, <2>2
<1> HIDE DEF g
<1>3. Cond(f)
  BY <1>2
<1>4. BundleSerialise(h, ts, b) = f[n]
  BY DEF BundleSerialise, Folded, SizeOf, MessageOf
<1> HIDE DEF f
<1>5. f[0] = F[0] /\ \A i \in 1 .. n : f[i] = Step(f[i - 1], b[i])
  <2>1. F[0] = base
    BY <1>0
  <2> HIDE DEF Step, base, n
  <2>2. f[0] = base /\ \A i \in 1 .. n : f[i] = Step(f[i - 1], b[i])
    <3>1. 0 \in 0 .. n
      BY DEF n
    <3> QED BY <1>1, <1>3, <3>1
  <2> QED BY <2>1, <2>2
<1>6. \A i \in 1 .. n : f[i - 1] = F[i - 1] => f[i] = F[i]
  <2> HIDE DEF Step, base, n
  <2> QED BY <1>0, <1>5
<1>7. f[n] = F[n]
  <2> HIDE DEF n
  <2> QED BY <1>5, <1>6, SameByPlace DEF n
<1> QED BY <1>4, <1>7

\* No element begins with z.
Stuck(z) == Len(z) < 4 \/ Number(z) > Len(z) - 4

NextElement(acc) ==
    IF Stuck(acc.rest) THEN acc
    ELSE [elems |-> Append(acc.elems, SubSeq(acc.rest, 5, 4 + Number(acc.rest))),
          rest  |-> From(acc.rest, 5 + Number(acc.rest))]

LEMMA ElementsUnfold ==
  ASSUME NEW w, NEW n \in Nat, n = Len(w) \div 4, NEW F, F[0] = [elems |-> <<>>, rest |-> w],
         \A i \in 1 .. n : F[i] = NextElement(F[i - 1])
  PROVE  Elements(w) = F[n]
<1> DEFINE base == [elems |-> <<>>, rest |-> w]
           s == [i \in 1 .. n |-> i]
           Cond(f) == f = [i \in 0 .. n |-> IF i = 0 THEN base ELSE NextElement(f[i - 1])]
           g == [i \in 0 .. n |-> F[i]]
           f == CHOOSE f : Cond(f)
<1>1. \A i \in 1 .. n : i - 1 \in 0 .. n /\ i \in 0 .. n /\ i # 0
  OBVIOUS
<1>2. Cond(g)
  <2>1. \A i \in 0 .. n : g[i] = IF i = 0 THEN base ELSE NextElement(g[i - 1])
    <3> TAKE i \in 0 .. n
    <3>1. CASE i = 0
      BY <3>1
    <3>2. CASE i # 0
      <4>1. i \in 1 .. n /\ g[i - 1] = F[i - 1]
        BY <3>2
      <4> QED BY <3>2, <4>1
    <3> QED BY <3>1, <3>2
  <2>2. g = [i \in 0 .. n |-> g[i]]
    OBVIOUS
  <2> HIDE DEF g, base
  <2> QED BY <2>1, <2>2
<1> HIDE DEF g
<1>3. Cond(f)
  BY <1>2
<1>4. Len(s) = n
  OBVIOUS
<1>5. Elements(w) = f[n]
  <2>1. Elements(w) = Folded(LAMBDA acc, i : NextElement(acc), base, s)
    BY DEF Elements, NextElement, Stuck
  <2> HIDE DEF s, base
  <2>2. Folded(LAMBDA acc, i : NextElement(acc), base, s) = f[n]
    BY <1>4 DEF Folded
  <2> QED BY <2>1, <2>2
<1> HIDE DEF f
<1>6. f[0] = F[0] /\ \A i \in 1 .. n : f[i] = NextElement(f[i - 1])
  BY <1>1, <1>3
<1>7. \A i \in 1 .. n : f[i - 1] = F[i - 1] => f[i] = F[i]
  BY <1>6
<1>8. f[n] = F[n]
  BY <1>6, <1>7, SameByPlace
<1> QED BY <1>5, <1>8

MessagesOf(h, b) == [i \in DOMAIN b |-> MessageOf(h, b[i])]

\* Every message with its size before it.
Framed(M) == [i \in DOMAIN M |-> Network(Len(M[i])) \o M[i]]
Body(M)   == FlattenSeq(Framed(M))

\* Messages that fit into a packet.
Small(M) == M \in Seq(Seq(Byte)) /\ \A i \in 1 .. Len(M) : Len(M[i]) \in 0 .. MaxSize

LEMMA FramedFacts ==
  ASSUME NEW M, Small(M)
  PROVE  /\ Framed(M) \in Seq(Seq(Byte)) /\ Len(Framed(M)) = Len(M) /\ Len(M) \in Nat
         /\ \A i \in 1 .. Len(M) :
               /\ Framed(M)[i] = Network(Len(M[i])) \o M[i] /\ Framed(M)[i] \in Seq(Byte)
               /\ Network(Len(M[i])) \in Seq(Byte) /\ Len(Network(Len(M[i]))) = 4
               /\ M[i] \in Seq(Byte) /\ Len(M[i]) \in 0 .. MaxSize /\ Len(M[i]) \in Nat
               /\ Len(Framed(M)[i]) = 4 + Len(M[i])
<1> DEFINE n == Len(M)
           X == Framed(M)
<1>1. n \in Nat /\ DOMAIN M = 1 .. n /\ \A i \in 1 .. n : M[i] \in Seq(Byte) /\ Len(M[i]) \in 0 .. MaxSize
  BY DEF Small
<1> HIDE DEF n
<1>2. \A i \in 1 .. n :
         LET N == Network(Len(M[i]))
         IN  /\ N \in Seq(Byte) /\ Len(N) = 4 /\ N \o M[i] \in Seq(Byte)
             /\ Len(N \o M[i]) = 4 + Len(M[i]) /\ Len(M[i]) \in Nat
  <2> TAKE i \in 1 .. n
  <2> DEFINE m == M[i]
             N == Network(Len(m))
  <2>1. m \in Seq(Byte) /\ Len(m) \in 0 .. MaxSize
    BY <1>1
  <2> HIDE DEF m
  <2>2. N \in Seq(Byte) /\ Len(N) = 4
    BY <2>1, NumberOfNetwork
  <2> HIDE DEF N
  <2>3. N \o m \in Seq(Byte) /\ Len(N \o m) = Len(N) + Len(m) /\ Len(m) \in Nat
    BY <2>1, <2>2, Joined
  <2> QED BY <2>2, <2>3 DEF N, m
<1>3. X = [i \in 1 .. n |-> Network(Len(M[i])) \o M[i]]
  BY <1>1 DEF Framed
<1> HIDE DEF X
<1>4. X \in [1 .. n -> Seq(Byte)] /\ \A i \in 1 .. n : X[i] = Network(Len(M[i])) \o M[i]
  BY <1>2, <1>3
<1>5. \A V : \A f \in [1 .. n -> V] : f \in Seq(V) /\ Len(f) = n
  BY <1>1
<1>6. X \in Seq(Seq(Byte)) /\ Len(X) = n
  BY <1>4, <1>5
<1> QED BY <1>1, <1>2, <1>4, <1>6 DEF X, n

\* The first element of r, and what is after it.
LEMMA NextIs ==
  ASSUME NEW m \in Seq(Byte), Len(m) \in 0 .. MaxSize, NEW q \in Seq(Byte), NEW es
  PROVE  NextElement([elems |-> es, rest |-> (Network(Len(m)) \o m) \o q]) =
            [elems |-> Append(es, m), rest |-> q]
<1> DEFINE N == Network(Len(m))
           r == (N \o m) \o q
           l == Len(m)
<1>1. N \in Seq(Byte) /\ Len(N) = 4 /\ l \in Nat
  BY NumberOfNetwork
<1>2. m \o q \in Seq(Byte) /\ Len(m \o q) = l + Len(q) /\ Len(q) \in Nat
  BY Joined
<1>3. Number(N \o (m \o q)) = l
  BY <1>2, NumberOfNetwork
<1> HIDE DEF N
<1>4. N \o m \in Seq(Byte) /\ Len(N \o m) = 4 + l
  <2>1. N \o m \in Seq(Byte) /\ Len(N \o m) = Len(N) + Len(m)
    BY <1>1, Joined
  <2> QED BY <1>1, <2>1
<1>5. r = N \o (m \o q)
  BY <1>1, Associative
<1>6. Len(r) = 4 + (l + Len(q)) /\ From(r, Len(N \o m) + 1) = q
  <2>1. Len(N \o (m \o q)) = Len(N) + Len(m \o q)
    BY <1>1, <1>2, Joined
  <2>2. From(r, Len(N \o m) + 1) = q
    BY <1>4, Joined
  <2> QED BY <1>1, <1>2, <1>5, <2>1, <2>2
<1>7. SubSeq(r, Len(N) + 1, Len(N) + l) = m
  <2>1. SubSeq(N \o (m \o q), Len(N) + 1, Len(N) + Len(m)) = m
    BY <1>1, Middle
  <2> HIDE DEF r
  <2> QED BY <1>5, <2>1
<1> HIDE DEF r, l
<1>8. Number(r) = l
  BY <1>3, <1>5
<1>9. ~Stuck(r)
  BY <1>1, <1>2, <1>6, <1>8 DEF Stuck
<1>10. SubSeq(r, 5, 4 + l) = m
  <2>1. Len(N) + 1 = 5 /\ Len(N) + l = 4 + l
    BY <1>1
  <2> QED BY <1>7, <2>1
<1>11. From(r, 5 + l) = q
  <2>1. Len(N \o m) + 1 = 5 + l
    BY <1>1, <1>4
  <2> QED BY <1>6, <2>1
<1>12. NextElement([elems |-> es, rest |-> r]) = [elems |-> Append(es, m), rest |-> q]
  BY <1>8, <1>9, <1>10, <1>11 DEF NextElement
<1> QED BY <1>12 DEF r, N

LEMMA ElementsAre ==
  ASSUME NEW M, Small(M), NEW z \in Seq(Byte), Stuck(z)
  PROVE  Elements(Body(M) \o z) = [elems |-> M, rest |-> z]
<1> DEFINE n == Len(M)
           X == Framed(M)
           w == Body(M) \o z
           k == Len(w) \div 4
<1>1. /\ X \in Seq(Seq(Byte)) /\ Len(X) = n /\ n \in Nat
      /\ \A i \in 1 .. n : /\ X[i] = Network(Len(M[i])) \o M[i] /\ X[i] \in Seq(Byte)
                           /\ M[i] \in Seq(Byte) /\ Len(M[i]) \in 0 .. MaxSize /\ Len(M[i]) \in Nat
                           /\ Len(X[i]) = 4 + Len(M[i])
  BY FramedFacts
<1> HIDE DEF X
<1>2. PICK G, R : Parts(X, G, R, Byte)
  BY <1>1, PartsExist
<1>3. M = First(M, n)
  <2>1. DOMAIN M = 1 .. n /\ M = [i \in DOMAIN M |-> M[i]]
    BY DEF Small
  <2> QED BY <2>1 DEF First
<1> HIDE DEF n
<1>4. /\ G[0] = <<>> /\ R[n] = <<>>
      /\ \A i \in 1 .. n : G[i] = G[i - 1] \o X[i] /\ R[i - 1] = X[i] \o R[i]
      /\ \A i \in 0 .. n : G[i] \in Seq(Byte) /\ R[i] \in Seq(Byte) /\ FlattenSeq(X) = G[i] \o R[i]
  BY <1>1, <1>2 DEF Parts
<1>5. FlattenSeq(X) = R[0] /\ FlattenSeq(X) = G[n] /\ G[n] \in Seq(Byte)
  <2>1. 0 \in 0 .. n /\ n \in 0 .. n
    BY <1>1
  <2> QED BY <1>4, <2>1, ConcatEmptySeq
<1>6. 4 * n <= Len(G[n])
  <2> DEFINE S == {i \in 0 .. n : 4 * i <= Len(G[i])}
  <2>1. 0 \in S
    BY <1>1, <1>4
  <2>2. ASSUME NEW i \in 1 .. n, i - 1 \in S PROVE i \in S
    <3>1. i \in 0 .. n /\ i - 1 \in 0 .. n
      BY <1>1
    <3> DEFINE a == G[i - 1]
               x == X[i]
               l == Len(M[i])
    <3>2. a \in Seq(Byte) /\ x \in Seq(Byte) /\ G[i] = a \o x
      BY <1>1, <1>4, <3>1
    <3>3. 4 * (i - 1) <= Len(a) /\ Len(x) = 4 + l /\ l \in Nat
      BY <1>1, <2>2
    <3> HIDE DEF a, x, l
    <3>4. 4 * i <= Len(G[i])
      <4>1. Len(a \o x) = Len(a) + Len(x) /\ Len(a) \in Nat
        BY <3>2, Joined
      <4>2. Len(G[i]) = Len(a) + (4 + l)
        BY <3>2, <3>3, <4>1
      <4>3. \A u, v, c \in Nat : c = u + (4 + v) /\ 4 * (i - 1) <= u => 4 * i <= c
        BY <3>1, <1>1
      <4>4. Len(a) + (4 + l) \in Nat
        BY <3>3, <4>1
      <4> QED BY <3>3, <4>1, <4>2, <4>3, <4>4
    <3> QED BY <3>1, <3>4
  <2> HIDE DEF S
  <2>3. n \in S
    <3>1. \A i \in 0 .. n : i \in S
      BY <1>1, <2>1, <2>2, ByPlace
    <3> QED BY <1>1, <3>1
  <2> QED BY <2>3 DEF S
<1>7. w = FlattenSeq(X) \o z /\ Len(w) = Len(G[n]) + Len(z) /\ Len(z) \in Nat /\ Len(G[n]) \in Nat
  <2>1. w = G[n] \o z
    BY <1>5 DEF Body, X
  <2> HIDE DEF w
  <2> QED BY <1>5, <2>1, Joined
<1> HIDE DEF w
<1>8. k \in Nat /\ n <= k
  <2> DEFINE l == Len(w)
  <2>1. l \in Nat /\ 4 * n <= l
    BY <1>1, <1>6, <1>7
  <2> HIDE DEF l
  <2>2. l \div 4 \in Nat /\ n <= l \div 4
    BY <1>1, <2>1
  <2> QED BY <2>2 DEF l
<1>9. k = Len(w) \div 4
  OBVIOUS
<1> HIDE DEF k
<1> DEFINE F == [i \in 0 .. k |-> IF i <= n THEN [elems |-> First(M, i), rest |-> R[i] \o z]
                                  ELSE [elems |-> M, rest |-> z]]
<1>10. \A i \in 0 .. n : F[i] = [elems |-> First(M, i), rest |-> R[i] \o z]
  <2> TAKE i \in 0 .. n
  <2>1. i \in 0 .. k /\ i <= n
    BY <1>1, <1>8
  <2> QED BY <2>1
<1>11. \A i \in n .. k : F[i] = [elems |-> M, rest |-> z]
  <2> TAKE i \in n .. k
  <2>1. i \in 0 .. k /\ (i <= n => i = n)
    BY <1>1, <1>8
  <2>2. <<>> \o z = z
    BY ConcatEmptySeq
  <2>3. i = n => F[i] = [elems |-> M, rest |-> z]
    <3>1. n \in 0 .. n
      BY <1>1
    <3> HIDE DEF F
    <3> QED BY <1>3, <1>4, <1>10, <2>2, <3>1
  <2> QED BY <2>1, <2>3
<1> HIDE DEF F
<1>12. F[0] = [elems |-> <<>>, rest |-> w]
  <2>1. 0 \in 0 .. n
    BY <1>1
  <2> QED BY <1>5, <1>7, <1>10, <2>1, FirstGrows
<1>13. ASSUME NEW i \in 1 .. k PROVE F[i] = NextElement(F[i - 1])
  <2>1. CASE i <= n
    <3>1. i \in 1 .. n /\ i \in 0 .. n /\ i - 1 \in 0 .. n /\ i \in Nat \ {0}
      BY <1>1, <2>1
    <3> DEFINE m == M[i]
               q == R[i] \o z
               x == X[i]
               es == First(M, i - 1)
    <3>2. /\ m \in Seq(Byte) /\ Len(m) \in 0 .. MaxSize /\ x = Network(Len(m)) \o m /\ x \in Seq(Byte)
      BY <1>1, <3>1
    <3>3. R[i] \in Seq(Byte) /\ R[i - 1] = x \o R[i]
      BY <1>4, <3>1
    <3>4. q \in Seq(Byte)
      BY <3>3, Joined
    <3>5. R[i - 1] \o z = x \o q
      <4> HIDE DEF x
      <4>1. (x \o R[i]) \o z = x \o (R[i] \o z)
        BY <3>2, <3>3, Associative
      <4> QED BY <3>3, <4>1
    <3>6. F[i] = [elems |-> First(M, i), rest |-> q] /\ F[i - 1] = [elems |-> es, rest |-> R[i - 1] \o z]
      BY <1>10, <3>1
    <3>7. First(M, i) = Append(es, m)
      BY <3>1, FirstGrows
    <3> HIDE DEF m, q, x, es
    <3>8. NextElement([elems |-> es, rest |-> (Network(Len(m)) \o m) \o q]) =
             [elems |-> Append(es, m), rest |-> q]
      BY <3>2, <3>4, NextIs
    <3> QED BY <3>2, <3>5, <3>6, <3>7, <3>8
  <2>2. CASE ~(i <= n)
    <3>1. i \in n .. k /\ i - 1 \in n .. k
      BY <1>1, <1>8, <2>2
    <3>2. F[i] = [elems |-> M, rest |-> z] /\ F[i - 1] = [elems |-> M, rest |-> z]
      BY <1>11, <3>1
    <3> QED BY <3>2 DEF NextElement
  <2> QED BY <2>1, <2>2
<1>14. Elements(w) = F[k]
  BY <1>8, <1>9, <1>12, <1>13, ElementsUnfold
<1>15. k \in n .. k
  BY <1>1, <1>8
<1> QED BY <1>11, <1>14, <1>15 DEF w

LEMMA CutAfter ==
  ASSUME NEW x \in Seq(Byte), NEW y \in Seq(Byte), NEW c \in 0 .. Len(y)
  PROVE  /\ SubSeq(x \o y, 1, Len(x) + c) = x \o SubSeq(y, 1, c)
         /\ SubSeq(y, 1, c) \in Seq(Byte) /\ Len(SubSeq(y, 1, c)) = c
<1> DEFINE p == SubSeq(y, 1, c)
           r == From(y, c + 1)
<1>1. p \in Seq(Byte) /\ Len(p) = c /\ r \in Seq(Byte) /\ p \o r = y
  BY Split
<1> HIDE DEF p, r
<1>2. x \o y = (x \o p) \o r
  BY <1>1, Associative
<1>3. x \o p \in Seq(Byte) /\ Len(x \o p) = Len(x) + c
  BY <1>1, Joined
<1>4. SubSeq((x \o p) \o r, 1, Len(x \o p)) = x \o p
  BY <1>1, <1>3, Joined
<1> QED BY <1>1, <1>2, <1>3, <1>4 DEF p

\* The first parts of s are put together first.
LEMMA FirstParts ==
  ASSUME NEW V, NEW s \in Seq(Seq(V)), NEW G, NEW R, Parts(s, G, R, V), NEW k \in 0 .. Len(s)
  PROVE  FlattenSeq(First(s, k)) = G[k]
<1> DEFINE t == First(s, k)
           H == [i \in 0 .. k |-> G[i]]
<1>1. Len(s) \in Nat /\ k \in Nat /\ k <= Len(s) /\ \A i \in 1 .. Len(s) : s[i] \in Seq(V)
  OBVIOUS
<1>2. /\ \A i \in 0 .. Len(s) : G[i] \in Seq(V)
      /\ G[0] = <<>> /\ \A i \in 1 .. Len(s) : G[i] = G[i - 1] \o s[i]
  BY DEF Parts
<1>3. t \in [1 .. k -> Seq(V)] /\ \A i \in 1 .. k : t[i] = s[i]
  BY <1>1 DEF First
<1>4. \A U : \A f \in [1 .. k -> U] : f \in Seq(U) /\ Len(f) = k
  BY <1>1
<1> HIDE DEF t
<1>5. t \in Seq(Seq(V)) /\ Len(t) = k
  BY <1>3, <1>4
<1>6. \A i \in 0 .. k : i \in 0 .. Len(s)
  BY <1>1
<1>7. \A i \in 1 .. k : i \in 1 .. Len(s) /\ i - 1 \in 0 .. k /\ i \in 0 .. k
  BY <1>1
<1>8. 0 \in 0 .. k /\ k \in 0 .. k
  BY <1>1
<1>9. H \in [0 .. k -> Seq(V)] /\ H[0] = <<>> /\ \A i \in 1 .. k : H[i] = H[i - 1] \o t[i]
  BY <1>2, <1>3, <1>6, <1>7, <1>8
<1>10. H[k] = G[k]
  BY <1>8
<1> HIDE DEF H
<1>11. FlattenSeq(t) = H[Len(t)]
  BY <1>5, <1>9, Flattened
<1> QED BY <1>5, <1>10, <1>11 DEF t

LEMMA FirstFramed ==
  ASSUME NEW M, Small(M), NEW k \in 0 .. Len(M)
  PROVE  /\ Small(First(M, k)) /\ Len(First(M, k)) = k
         /\ Framed(First(M, k)) = First(Framed(M), k)
<1> DEFINE t == First(M, k)
<1>1. Len(M) \in Nat /\ k \in Nat /\ k <= Len(M) /\ DOMAIN M = 1 .. Len(M)
      /\ \A i \in 1 .. Len(M) : M[i] \in Seq(Byte) /\ Len(M[i]) \in 0 .. MaxSize
  BY DEF Small
<1>2. t \in [1 .. k -> Seq(Byte)] /\ \A i \in 1 .. k : t[i] = M[i]
  BY <1>1 DEF First
<1>3. \A U : \A f \in [1 .. k -> U] : f \in Seq(U) /\ Len(f) = k
  BY <1>1
<1>4. DOMAIN t = 1 .. k
  BY <1>2
<1>5. \A i \in 1 .. k : i \in 1 .. Len(M)
  BY <1>1
<1>6. First(Framed(M), k) = [i \in 1 .. k |-> Framed(M)[i]]
  BY DEF First
<1> HIDE DEF t
<1>7. t \in Seq(Seq(Byte)) /\ Len(t) = k
  BY <1>2, <1>3
<1>8. Small(t)
  BY <1>1, <1>2, <1>5, <1>7 DEF Small
<1>9. Framed(t) = [i \in 1 .. k |-> Network(Len(M[i])) \o M[i]]
  BY <1>2, <1>4 DEF Framed
<1>10. \A i \in 1 .. k : Framed(M)[i] = Network(Len(M[i])) \o M[i]
  BY <1>1, <1>5 DEF Framed
<1> QED BY <1>6, <1>7, <1>8, <1>9, <1>10 DEF t

\* A body cut short ends with whole messages and a piece of the next.
LEMMA CutOf ==
  ASSUME NEW M, Small(M), NEW c \in Nat, c < Len(Body(M))
  PROVE  \E k \in 0 .. Len(M) - 1 : \E z \in Seq(Byte) :
            /\ SubSeq(Body(M), 1, c) = Body(First(M, k)) \o z /\ Stuck(z)
            /\ c = Len(Body(First(M, k))) + Len(z)
<1> DEFINE n == Len(M)
           X == Framed(M)
           B == Body(M)
<1>1. /\ X \in Seq(Seq(Byte)) /\ Len(X) = n /\ n \in Nat
      /\ \A i \in 1 .. n : /\ X[i] = Network(Len(M[i])) \o M[i] /\ X[i] \in Seq(Byte)
                           /\ M[i] \in Seq(Byte) /\ Len(M[i]) \in 0 .. MaxSize /\ Len(M[i]) \in Nat
                           /\ Len(X[i]) = 4 + Len(M[i])
  BY FramedFacts
<1>2. PICK G, R : Parts(X, G, R, Byte)
  <2> HIDE DEF X
  <2> QED BY <1>1, PartsExist
<1>3. \A i \in 0 .. n : Body(First(M, i)) = G[i]
  <2> TAKE i \in 0 .. n
  <2>1. Body(First(M, i)) = FlattenSeq(First(X, i))
    BY FirstFramed DEF Body
  <2> HIDE DEF X
  <2> QED BY <1>1, <1>2, <2>1, FirstParts
<1>4. B = FlattenSeq(X)
  BY DEF Body
<1> HIDE DEF X, n, B
<1>5. /\ G[0] = <<>> /\ R[n] = <<>>
      /\ \A i \in 1 .. n : G[i] = G[i - 1] \o X[i] /\ R[i - 1] = X[i] \o R[i]
      /\ \A i \in 0 .. n : G[i] \in Seq(Byte) /\ R[i] \in Seq(Byte) /\ B = G[i] \o R[i]
  BY <1>1, <1>2, <1>4 DEF Parts
<1> DEFINE S == {i \in 0 .. n : Len(G[i]) <= c}
<1>6. 0 \in S
  BY <1>1, <1>5
<1>7. n \notin S
  <2>1. n \in 0 .. n
    BY <1>1
  <2>2. B = G[n] /\ G[n] \in Seq(Byte)
    BY <1>5, <2>1, ConcatEmptySeq
  <2>3. ~(Len(B) <= c) /\ Len(G[n]) = Len(B)
    BY <2>2 DEF B
  <2> QED BY <2>3
<1>8. PICK j \in 1 .. n : j - 1 \in S /\ j \notin S
  <2> SUFFICES ASSUME \A j \in 1 .. n : j - 1 \in S => j \in S PROVE FALSE
    OBVIOUS
  <2> HIDE DEF S
  <2>1. \A j \in 0 .. n : j \in S
    BY <1>1, <1>6, ByPlace
  <2> QED BY <1>1, <1>7, <2>1
<1> DEFINE g == G[j - 1]
           x == X[j]
           y == R[j]
           m == M[j]
           N == Network(Len(m))
           d == c - Len(g)
<1>9. j \in 0 .. n /\ j - 1 \in 0 .. n /\ j - 1 \in 0 .. n - 1
  BY <1>1
<1>10. /\ g \in Seq(Byte) /\ x \in Seq(Byte) /\ y \in Seq(Byte) /\ m \in Seq(Byte)
       /\ B = g \o R[j - 1] /\ R[j - 1] = x \o y /\ G[j] = g \o x /\ x = N \o m
       /\ Len(x) = 4 + Len(m) /\ Len(m) \in 0 .. MaxSize /\ Len(m) \in Nat
       /\ Len(g) <= c /\ ~(Len(G[j]) <= c)
  BY <1>1, <1>5, <1>8, <1>9
<1>11. Body(First(M, j - 1)) = g
  BY <1>3, <1>9
<1> HIDE DEF S, g, x, y, m
<1>12. N \in Seq(Byte) /\ Len(N) = 4
  BY <1>10, NumberOfNetwork
<1>13. d \in Nat /\ c = Len(g) + d /\ d < Len(x) /\ Len(y) \in Nat /\ d < 4 + Len(m)
  <2>1. Len(g \o x) = Len(g) + Len(x) /\ Len(g) \in Nat /\ Len(x) \in Nat /\ Len(y) \in Nat
    BY <1>10, Joined
  <2> QED BY <1>10, <2>1
<1> HIDE DEF N, d
<1> DEFINE r == m \o y
<1>14. x \o y = N \o r /\ r \in Seq(Byte) /\ Len(r) = Len(m) + Len(y)
  <2>1. m \in Seq(Byte) /\ y \in Seq(Byte) /\ x = N \o m
    BY <1>10
  <2>2. (N \o m) \o y = N \o (m \o y)
    BY <1>12, <2>1, Associative
  <2>3. m \o y \in Seq(Byte) /\ Len(m \o y) = Len(m) + Len(y)
    BY <2>1, Joined
  <2> QED BY <2>1, <2>2, <2>3
<1> HIDE DEF r
<1>15. x \o y \in Seq(Byte) /\ d \in 0 .. Len(x \o y)
  <2>1. x \o y \in Seq(Byte) /\ Len(x \o y) = Len(x) + Len(y) /\ Len(x) \in Nat
    BY <1>10, Joined
  <2> QED BY <1>13, <2>1
<1> DEFINE z == SubSeq(x \o y, 1, d)
<1>16. SubSeq(B, 1, c) = g \o z /\ z \in Seq(Byte) /\ Len(z) = d
  <2> DEFINE v == x \o y
  <2>0. v \in Seq(Byte) /\ d \in 0 .. Len(v)
    BY <1>15
  <2> HIDE DEF v
  <2>1. SubSeq(g \o v, 1, Len(g) + d) = g \o SubSeq(v, 1, d) /\ SubSeq(v, 1, d) \in Seq(Byte)
        /\ Len(SubSeq(v, 1, d)) = d
    <3>1. g \in Seq(Byte)
      BY <1>10
    <3> QED BY <2>0, <3>1, CutAfter
  <2> QED BY <1>10, <1>13, <2>1 DEF v
<1>17. d >= 4 => Number(z) = Len(m)
  <2> SUFFICES ASSUME d >= 4 PROVE Number(z) = Len(m)
    OBVIOUS
  <2> DEFINE e == d - 4
  <2>1. e \in 0 .. Len(r) /\ d = 4 + e
    BY <1>10, <1>13, <1>14
  <2> HIDE DEF e
  <2>2. SubSeq(N \o r, 1, Len(N) + e) = N \o SubSeq(r, 1, e) /\ SubSeq(r, 1, e) \in Seq(Byte)
    BY <1>12, <1>14, <2>1, CutAfter
  <2>3. z = N \o SubSeq(r, 1, e)
    BY <1>12, <1>14, <2>1, <2>2
  <2> HIDE DEF z
  <2>4. \A q \in Seq(Byte) : Number(N \o q) = Len(m)
    BY <1>10, NumberOfNetwork DEF N
  <2> QED BY <2>2, <2>3, <2>4
<1> HIDE DEF z
<1>18. Stuck(z)
  BY <1>10, <1>13, <1>16, <1>17 DEF Stuck
<1>19. SubSeq(B, 1, c) = Body(First(M, j - 1)) \o z /\ c = Len(Body(First(M, j - 1))) + Len(z)
  BY <1>11, <1>13, <1>16
<1> QED BY <1>9, <1>16, <1>18, <1>19 DEF B, n

\* What lo_message_add_* can make of a message, with the path it is sent to.
Deliverable(h, e) ==
    \E path \in Text, as \in Seq(Given) :
        e = [path |-> path, types |-> TypesOf(as), data |-> FlattenSeq(StoredAll(h, as))]

LEMMA MessageArrives ==
  ASSUME NEW h, NEW e, Deliverable(h, e)
  PROVE  LET r == Deserialise(h, MessageOf(h, e))
         IN  /\ MessageOf(h, e) \in Seq(Byte) /\ Len(MessageOf(h, e)) = SizeOf(e)
             /\ r.ok /\ r.path = e.path /\ r.types = e.types /\ r.data = e.data
<1>1. PICK path \in Text, as \in Seq(Given) :
         e = [path |-> path, types |-> TypesOf(as), data |-> FlattenSeq(StoredAll(h, as))]
  BY DEF Deliverable
<1> DEFINE s == StoredAll(h, as)
           w == Serialise(h, path, TypesOf(as), FlattenSeq(s))
           r == Deserialise(h, w)
<1>2. s \in Seq(Seq(Byte))
  BY SequencesOf
<1>3. PICK G, R : Parts(s, G, R, Byte)
  <2> HIDE DEF s
  <2> QED BY <1>2, PartsExist
<1>4. ArrivedAll(h, h, as) = s /\ Len(FlattenSeq(SentAll(h, as))) = Len(FlattenSeq(s))
  BY <1>3, SameHost
<1>5. Parts(ArrivedAll(h, h, as), G, R, Byte)
  BY <1>3, <1>4
<1>6. /\ r = [ok |-> TRUE, path |-> path, types |-> TypesOf(as),
              typesize |-> PaddedSize(1 + Len(TypesOf(as))),
              data |-> FlattenSeq(ArrivedAll(h, h, as)), argv |-> Places(SentAll(h, as), G)]
      /\ Len(w) = MessageLength(path, TypesOf(as), FlattenSeq(SentAll(h, as)))
  BY <1>5, ReceivedIs
<1>7. w = AsSent(path, as, h)
  BY SendIs DEF AsSent, Message, Serialise
<1>8. w \in Seq(Byte)
  BY <1>7, SentIsBytes
<1>9. MessageOf(h, e) = w /\ SizeOf(e) = MessageLength(path, TypesOf(as), FlattenSeq(s))
  BY <1>1 DEF MessageOf, SizeOf
<1> HIDE DEF w, r, s
<1>10. r.ok /\ r.path = path /\ r.types = TypesOf(as) /\ r.data = FlattenSeq(s)
  BY <1>4, <1>6
<1>11. Len(w) = SizeOf(e)
  BY <1>4, <1>6, <1>9 DEF MessageLength
<1>12. e.path = path /\ e.types = TypesOf(as) /\ e.data = FlattenSeq(s)
  BY <1>1 DEF s
<1> QED BY <1>8, <1>9, <1>10, <1>11, <1>12 DEF r

\* Messages that can be made, each of which fits into a packet.
Fitting(h, b) ==
    /\ Len(b) \in Nat /\ DOMAIN b = 1 .. Len(b)
    /\ \A i \in 1 .. Len(b) : Deliverable(h, b[i]) /\ SizeOf(b[i]) <= MaxSize

LEMMA FittingIsSmall ==
  ASSUME NEW h, NEW b, Fitting(h, b)
  PROVE  /\ Small(MessagesOf(h, b)) /\ Len(MessagesOf(h, b)) = Len(b)
         /\ \A i \in 1 .. Len(b) : MessagesOf(h, b)[i] = MessageOf(h, b[i])
         /\ \A i \in 1 .. Len(b) : SizeOf(b[i]) = Len(MessageOf(h, b[i]))
<1> DEFINE M == MessagesOf(h, b)
<1>1. Len(b) \in Nat /\ M = [i \in 1 .. Len(b) |-> MessageOf(h, b[i])]
  BY DEF Fitting, MessagesOf
<1>2. \A i \in 1 .. Len(b) : /\ MessageOf(h, b[i]) \in Seq(Byte) /\ SizeOf(b[i]) = Len(MessageOf(h, b[i]))
                             /\ Len(MessageOf(h, b[i])) \in 0 .. MaxSize
  <2> TAKE i \in 1 .. Len(b)
  <2> DEFINE e == b[i]
             m == MessageOf(h, e)
  <2>1. Deliverable(h, e) /\ SizeOf(e) <= MaxSize
    BY DEF Fitting
  <2> HIDE DEF e
  <2>2. m \in Seq(Byte) /\ Len(m) = SizeOf(e)
    BY <2>1, MessageArrives
  <2> HIDE DEF m
  <2>3. Len(m) \in Nat /\ MaxSize \in Int
    BY <2>2 DEF MaxSize
  <2>4. \A k \in Int : Len(m) <= k => Len(m) \in 0 .. k
    BY <2>3
  <2>5. Len(m) \in 0 .. MaxSize
    BY <2>1, <2>2, <2>3, <2>4
  <2> QED BY <2>2, <2>5 DEF m, e
<1> HIDE DEF M
<1>3. M \in [1 .. Len(b) -> Seq(Byte)] /\ \A i \in 1 .. Len(b) : M[i] = MessageOf(h, b[i])
  BY <1>1, <1>2
<1>4. \A V : \A f \in [1 .. Len(b) -> V] : f \in Seq(V) /\ Len(f) = Len(b)
  BY <1>1
<1>5. M \in Seq(Seq(Byte)) /\ Len(M) = Len(b)
  BY <1>3, <1>4
<1>6. Small(M)
  BY <1>2, <1>3, <1>5 DEF Small
<1> QED BY <1>2, <1>3, <1>5, <1>6 DEF M

Header(ts) == PaddedString(BundleMark) \o ts

LEMMA MarkIsText == BundleMark \in Text /\ Len(BundleMark) = 7 /\ PaddedSize(7) = 8
<1>1. BundleMark \in Seq(Byte)
  BY DEF BundleMark, Byte
<1>2. Len(BundleMark) = 7 /\ \A i \in 1 .. 7 : BundleMark[i] # Nul
  BY DEF BundleMark, Nul
<1>3. DOMAIN BundleMark = 1 .. 7
  BY <1>1, <1>2
<1>4. PaddedSize(7) = 8
  BY DEF PaddedSize
<1> QED BY <1>1, <1>2, <1>3, <1>4 DEF Text

LEMMA HeaderFacts ==
  ASSUME NEW ts \in Seq(Byte), Len(ts) = 8
  PROVE  /\ PaddedString(BundleMark) \in Seq(Byte) /\ Len(PaddedString(BundleMark)) = 8
         /\ Header(ts) \in Seq(Byte) /\ Len(Header(ts)) = 16
<1>1. <<>> \in Seq(Byte)
  OBVIOUS
<1>2. PaddedString(BundleMark) \in Seq(Byte) /\ Len(PaddedString(BundleMark)) = 8
  BY <1>1, MarkIsText, PaddedStringFacts
<1> DEFINE p == PaddedString(BundleMark)
<1> HIDE DEF p
<1>3. p \o ts \in Seq(Byte) /\ Len(p \o ts) = Len(p) + Len(ts)
  BY <1>2, Joined DEF p
<1> QED BY <1>2, <1>3 DEF p, Header

\* A bundle is its header and the messages with their sizes.
LEMMA BundleIs ==
  ASSUME NEW h, NEW b, Fitting(h, b), NEW ts \in Seq(Byte), Len(ts) = 8
  PROVE  LET B == Body(MessagesOf(h, b))
         IN  /\ BundleSerialise(h, ts, b) = Header(ts) \o B /\ B \in Seq(Byte)
             /\ BundleLength(b) = 16 + Len(B)
<1> DEFINE M == MessagesOf(h, b)
           n == Len(b)
           X == Framed(M)
           B == Body(M)
           p == Header(ts)
<1>1. Small(M) /\ Len(M) = n /\ \A i \in 1 .. n : M[i] = MessageOf(h, b[i]) /\ SizeOf(b[i]) = Len(M[i])
  BY FittingIsSmall
<1>2. n \in Nat
  BY DEF Fitting
<1>3. p \in Seq(Byte) /\ Len(p) = 16
  BY HeaderFacts
<1>4. p = PaddedString(BundleMark) \o ts
  BY DEF Header
<1>5. B = FlattenSeq(X)
  BY DEF Body
<1> HIDE DEF M, n, X, B, p
<1>6. /\ X \in Seq(Seq(Byte)) /\ Len(X) = n
      /\ \A i \in 1 .. n : /\ X[i] = Network(Len(M[i])) \o M[i] /\ X[i] \in Seq(Byte)
                           /\ Network(Len(M[i])) \in Seq(Byte)
                           /\ M[i] \in Seq(Byte) /\ Len(M[i]) \in Nat /\ Len(X[i]) = 4 + Len(M[i])
  BY <1>1, FramedFacts DEF X
<1>7. PICK G, R : Parts(X, G, R, Byte)
  BY <1>6, PartsExist
<1>8. /\ G[0] = <<>> /\ R[n] = <<>>
      /\ \A i \in 1 .. n : G[i] = G[i - 1] \o X[i]
      /\ \A i \in 0 .. n : G[i] \in Seq(Byte) /\ R[i] \in Seq(Byte) /\ B = G[i] \o R[i]
  BY <1>5, <1>6, <1>7 DEF Parts
<1>9. 0 \in 0 .. n /\ n \in 0 .. n /\ \A i \in 1 .. n : i \in 0 .. n /\ i - 1 \in 0 .. n
  BY <1>2
<1>10. B = G[n] /\ B \in Seq(Byte)
  <2>1. G[n] \in Seq(Byte) /\ B = G[n] \o <<>>
    BY <1>8, <1>9
  <2>2. G[n] \o <<>> = G[n]
    BY <2>1, ConcatEmptySeq
  <2> QED BY <2>1, <2>2
<1>11. BundleSerialise(h, ts, b) = p \o B
  <2> DEFINE F == [i \in 0 .. n |-> p \o G[i]]
  <2>1. \A i \in 0 .. n : F[i] = p \o G[i]
    OBVIOUS
  <2> HIDE DEF F
  <2>2. F[0] = p
    BY <1>3, <1>8, <1>9, <2>1, ConcatEmptySeq
  <2>3. ASSUME NEW i \in 1 .. n
        PROVE  F[i] = (F[i - 1] \o Network(SizeOf(b[i]))) \o MessageOf(h, b[i])
    <3> DEFINE g == G[i - 1]
               m == M[i]
               N == Network(Len(m))
    <3>1. /\ g \in Seq(Byte) /\ m \in Seq(Byte) /\ N \in Seq(Byte)
          /\ G[i] = g \o (N \o m) /\ F[i] = p \o G[i] /\ F[i - 1] = p \o g
          /\ MessageOf(h, b[i]) = m /\ SizeOf(b[i]) = Len(m)
      BY <1>1, <1>6, <1>8, <1>9, <2>1
    <3> HIDE DEF g, m
    <3>2. F[i] = p \o (g \o (N \o m)) /\ Network(SizeOf(b[i])) = N
      BY <3>1
    <3> HIDE DEF N
    <3>3. p \o g \in Seq(Byte) /\ N \o m \in Seq(Byte)
      BY <1>3, <3>1, Joined
    <3>4. ((p \o g) \o N) \o m = (p \o g) \o (N \o m)
      <4>1. N \in Seq(Byte) /\ m \in Seq(Byte)
        BY <3>1
      <4>2. \A u \in Seq(Byte) : (u \o N) \o m = u \o (N \o m)
        BY <4>1, Associative
      <4> QED BY <3>3, <4>2
    <3>5. (p \o g) \o (N \o m) = p \o (g \o (N \o m))
      <4>1. p \in Seq(Byte) /\ g \in Seq(Byte)
        BY <1>3, <3>1
      <4>2. \A u \in Seq(Byte) : (p \o g) \o u = p \o (g \o u)
        BY <4>1, Associative
      <4> QED BY <3>3, <4>2
    <3> QED BY <3>1, <3>2, <3>4, <3>5
  <2>4. BundleSerialise(h, ts, b) = F[n]
    <3>1. F[0] = PaddedString(BundleMark) \o ts
      BY <1>4, <2>2
    <3>2. \A i \in 1 .. Len(b) : F[i] = (F[i - 1] \o Network(SizeOf(b[i]))) \o MessageOf(h, b[i])
      BY <2>3 DEF n
    <3>3. Len(b) \in Nat
      BY <1>2 DEF n
    <3>4. BundleRun(F, h, ts, b)
      BY <3>1, <3>2 DEF BundleRun
    <3>5. BundleSerialise(h, ts, b) = F[Len(b)]
      BY <3>3, <3>4, BundleUnfolds
    <3> QED BY <3>5 DEF n
  <2> QED BY <1>9, <1>10, <2>1, <2>4
<1>12. BundleLength(b) = 16 + Len(B)
  <2> DEFINE F == [i \in 0 .. n |-> 16 + Len(G[i])]
  <2>1. \A i \in 0 .. n : F[i] = 16 + Len(G[i])
    OBVIOUS
  <2> HIDE DEF F
  <2>2. F[0] = 16
    BY <1>8, <1>9, <2>1
  <2>3. ASSUME NEW i \in 1 .. n
        PROVE  F[i] = F[i - 1] + 4 + MessageLength(b[i].path, b[i].types, b[i].data)
    <3> DEFINE g == G[i - 1]
               x == X[i]
               l == Len(M[i])
    <3>1. /\ g \in Seq(Byte) /\ x \in Seq(Byte) /\ Len(x) = 4 + l /\ l \in Nat
          /\ G[i] = g \o x /\ F[i] = 16 + Len(G[i]) /\ F[i - 1] = 16 + Len(g)
          /\ MessageLength(b[i].path, b[i].types, b[i].data) = l
      BY <1>1, <1>6, <1>8, <1>9, <2>1 DEF SizeOf
    <3> HIDE DEF g, x, l
    <3>2. Len(g \o x) = Len(g) + Len(x) /\ Len(g) \in Nat
      BY <3>1, Joined
    <3> QED BY <3>1, <3>2
  <2>4. BundleLength(b) = F[n]
    BY <1>2, <2>2, <2>3, LengthUnfolds DEF n
  <2> QED BY <1>9, <1>10, <2>1, <2>4
<1> QED BY <1>10, <1>11, <1>12 DEF p, B, M

LEMMA CutWithin ==
  ASSUME NEW x \in Seq(Byte), NEW y \in Seq(Byte), NEW c \in 0 .. Len(x)
  PROVE  SubSeq(x \o y, 1, c) = SubSeq(x, 1, c)
<1> DEFINE p == SubSeq(x, 1, c)
           r == From(x, c + 1)
<1>1. p \in Seq(Byte) /\ Len(p) = c /\ r \in Seq(Byte) /\ p \o r = x
  BY Split
<1> HIDE DEF p, r
<1>2. x \o y = p \o (r \o y) /\ r \o y \in Seq(Byte)
  <2>1. p \in Seq(Byte) /\ r \in Seq(Byte)
    BY <1>1
  <2>2. (p \o r) \o y = p \o (r \o y) /\ r \o y \in Seq(Byte)
    BY <2>1, Associative, Joined
  <2> QED BY <1>1, <2>2
<1> DEFINE z == r \o y
<1> HIDE DEF z
<1>3. SubSeq(p \o z, 1, Len(p)) = p
  BY <1>1, <1>2, Joined DEF z
<1> QED BY <1>1, <1>2, <1>3 DEF p, z

\* A packet that begins as a bundle is taken for its elements, if nothing else is left.
LEMMA ReceivedBundle ==
  ASSUME NEW h, NEW ts \in Seq(Byte), Len(ts) = 8, NEW y \in Seq(Byte)
  PROVE  Received(h, Header(ts) \o y) =
            IF Elements(y).rest = <<>> THEN ReadAll(h, Elements(y).elems) ELSE Rejected("bundle")
<1> DEFINE p == PaddedString(BundleMark)
           w == Header(ts) \o y
           v == ts \o y
<1>1. p \in Seq(Byte) /\ Len(p) = 8 /\ Header(ts) \in Seq(Byte) /\ Len(Header(ts)) = 16
      /\ Header(ts) = p \o ts
  BY HeaderFacts DEF Header
<1>2. v \in Seq(Byte)
  BY Joined
<1> HIDE DEF p
<1>3. w = p \o v
  BY <1>1, Associative
<1> HIDE DEF v
<1>4. /\ StrLen(p \o v) = Len(BundleMark) /\ ValidateString(p \o v) = PaddedSize(Len(BundleMark))
      /\ SubSeq(p \o v, 1, Len(BundleMark)) = BundleMark
  BY <1>2, MarkIsText, PaddedStringFacts DEF p
<1>5. /\ Len(Header(ts) \o y) = Len(Header(ts)) + Len(y) /\ Len(y) \in Nat
      /\ From(Header(ts) \o y, Len(Header(ts)) + 1) = y
  BY <1>1, Joined
<1>6. 16 <= Len(w) /\ From(w, 17) = y
  BY <1>1, <1>5
<1> HIDE DEF w
<1>7. ValidateString(w) = 8 /\ SubSeq(w, 1, StrLen(w)) = BundleMark
  BY <1>3, <1>4, MarkIsText
<1>8. ValidateString(w) # Bad
  BY <1>7 DEF Bad
<1>9. ValidateBundle(w) <=> Elements(y).rest = <<>>
  <2>1. Len(w) >= 16
    BY <1>3, <1>6
  <2> QED BY <1>6, <1>7, <1>8, <2>1 DEF ValidateBundle
<1>10. Received(h, w) = IF Elements(y).rest = <<>> THEN ReadAll(h, Elements(y).elems)
                        ELSE Rejected("bundle")
  BY <1>6, <1>7, <1>8, <1>9 DEF Received
<1> QED BY <1>10 DEF w

\* Without the whole of the header there is no bundle.
LEMMA TooShort ==
  ASSUME NEW h, NEW ts \in Seq(Byte), Len(ts) = 8, NEW c \in 0 .. 15
  PROVE  ~Received(h, SubSeq(Header(ts), 1, c)).ok
<1> DEFINE p == PaddedString(BundleMark)
<1>1. p \in Seq(Byte) /\ Len(p) = 8 /\ Header(ts) = p \o ts
  BY HeaderFacts DEF Header
<1>2. \A i \in 1 .. 7 : p[i] # Nul
  <2>1. \A i \in 1 .. 7 : p[i] = BundleMark[i] /\ BundleMark[i] # Nul
    <3>1. BundleMark \in Seq(Byte) /\ Len(BundleMark) = 7 /\ PaddedSize(Len(BundleMark)) = 8
      BY MarkIsText DEF Text
    <3>2. \A i \in 1 .. Len(BundleMark) : Padded(BundleMark, 8)[i] = BundleMark[i]
      <4>1. 8 \in Nat /\ Len(BundleMark) <= 8
        BY <3>1
      <4> QED BY <3>1, <4>1, PaddedFacts
    <3>3. \A i \in 1 .. 7 : BundleMark[i] # Nul
      BY <3>1, MarkIsText DEF Text
    <3> QED BY <3>1, <3>2, <3>3 DEF PaddedString
  <2> QED BY <2>1
<1> HIDE DEF p
<1>3. CASE c < 8
  <2> DEFINE w == SubSeq(p, 1, c)
  <2>1. c \in 0 .. Len(p)
    BY <1>1, <1>3
  <2>2. w \in Seq(Byte) /\ Len(w) = c /\ \A i \in 1 .. c : w[i] = p[i]
    BY <1>1, <2>1, Split
  <2>3. SubSeq(Header(ts), 1, c) = w
    BY <1>1, <2>1, CutWithin
  <2> HIDE DEF w
  <2>4. \A i \in 1 .. Len(w) : w[i] # Nul
    BY <1>2, <1>3, <2>2
  <2>5. StrLen(w) = -1
    <3>1. ASSUME StrLen(w) \in 0 .. Len(w) - 1, w[StrLen(w) + 1] = Nul PROVE FALSE
      <4>1. StrLen(w) + 1 \in 1 .. Len(w)
        BY <2>2, <3>1
      <4> QED BY <2>4, <3>1, <4>1
    <3> QED BY <2>2, <3>1, StrLenFacts
  <2>6. ValidateString(w) = Bad
    BY <2>5 DEF ValidateString, Terminated
  <2>7. ~Received(h, w).ok
    BY <2>6 DEF Received, Rejected
  <2> QED BY <2>3, <2>7
<1>4. CASE ~(c < 8)
  <2> DEFINE d == c - 8
             v == SubSeq(ts, 1, d)
             w == p \o v
  <2>1. d \in 0 .. Len(ts) /\ c = Len(p) + d /\ c < 16
    BY <1>1, <1>4
  <2> HIDE DEF d
  <2>2. SubSeq(Header(ts), 1, c) = w /\ v \in Seq(Byte) /\ Len(v) = d
    BY <1>1, <2>1, CutAfter
  <2> HIDE DEF v
  <2>3. /\ StrLen(w) = Len(BundleMark) /\ ValidateString(w) = PaddedSize(Len(BundleMark))
        /\ SubSeq(w, 1, Len(BundleMark)) = BundleMark
    BY <2>2, MarkIsText, PaddedStringFacts DEF p
  <2>4. Len(w) = 8 + d
    <3>1. p \in Seq(Byte) /\ v \in Seq(Byte)
      BY <1>1, <2>2
    <3>2. Len(p \o v) = Len(p) + Len(v)
      BY <3>1, Joined
    <3> QED BY <1>1, <2>2, <3>2
  <2> HIDE DEF w
  <2>5. ValidateString(w) # Bad /\ SubSeq(w, 1, StrLen(w)) = BundleMark
    BY <2>3, MarkIsText DEF Bad
  <2>6. ~ValidateBundle(w)
    BY <1>1, <2>1, <2>4 DEF ValidateBundle
  <2>7. ~Received(h, w).ok
    BY <2>5, <2>6 DEF Received, Rejected
  <2> QED BY <2>2, <2>7
<1> QED BY <1>3, <1>4

LEMMA AllRead ==
  ASSUME NEW h, NEW M, Len(M) \in Nat, DOMAIN M = 1 .. Len(M),
         \A i \in 1 .. Len(M) : Deserialise(h, M[i]).ok
  PROVE  /\ ReadAll(h, M).ok /\ Len(ReadAll(h, M).msgs) = Len(M)
         /\ \A i \in 1 .. Len(M) : ReadAll(h, M).msgs[i] = Deserialise(h, M[i])
<1> DEFINE n == Len(M)
           all == [i \in DOMAIN M |-> Deserialise(h, M[i])]
           I == {i \in 1 .. Len(all) : ~all[i].ok}
<1>1. all = [i \in 1 .. n |-> Deserialise(h, M[i])] /\ n \in Nat
  OBVIOUS
<1>2. Len(all) = n /\ \A i \in 1 .. n : all[i] = Deserialise(h, M[i])
  BY <1>1
<1>3. \A V : \A f \in [1 .. n -> V] : f \in Seq(V)
  BY <1>1
<1>4. all \in Seq(Range(all))
  BY <1>1, <1>3 DEF Range
<1>5. ReadAll(h, M) = Readable(all, SelectInSeq(all, LAMBDA m : ~m.ok))
  BY DEF ReadAll, UpToBad
<1>6. \A i \in 1 .. n : all[i].ok
  BY <1>2
<1> HIDE DEF all
<1>7. I = {}
  BY <1>2, <1>6
<1>8. SelectInSeq(all, LAMBDA m : ~m.ok) = 0
  BY <1>7 DEF SelectInSeq
<1>9. SubSeq(all, 1, Len(all)) = all
  BY <1>4, SubSeqFull
<1>10. ReadAll(h, M) = [ok |-> TRUE, msgs |-> all]
  BY <1>5, <1>8, <1>9 DEF Readable
<1> QED BY <1>2, <1>10

\* r is what the messages b are received as.
Arrived(r, b) ==
    /\ r.ok /\ Len(r.msgs) = Len(b)
    /\ \A i \in 1 .. Len(b) : /\ r.msgs[i].path = b[i].path
                              /\ r.msgs[i].types = b[i].types
                              /\ r.msgs[i].data = b[i].data

LEMMA AllArrive ==
  ASSUME NEW h, NEW b, Fitting(h, b), NEW ts \in Seq(Byte), Len(ts) = 8,
         NEW z \in Seq(Byte), Stuck(z)
  PROVE  LET r == Received(h, Header(ts) \o (Body(MessagesOf(h, b)) \o z))
         IN  (z = <<>> => Arrived(r, b)) /\ (r.ok => z = <<>>)
<1> DEFINE M == MessagesOf(h, b)
           B == Body(M)
           y == B \o z
           r == Received(h, Header(ts) \o y)
<1>1. /\ Small(M) /\ Len(M) = Len(b) /\ Len(b) \in Nat
      /\ \A i \in 1 .. Len(b) : M[i] = MessageOf(h, b[i])
  BY FittingIsSmall DEF Fitting
<1>2. B \in Seq(Byte)
  BY BundleIs
<1> HIDE DEF M
<1>3. Elements(y) = [elems |-> M, rest |-> z]
  BY <1>1, ElementsAre
<1> HIDE DEF B
<1>4. y \in Seq(Byte)
  BY <1>2, Joined
<1> HIDE DEF y
<1>5. r = IF z = <<>> THEN ReadAll(h, M) ELSE Rejected("bundle")
  <2>1. r = IF Elements(y).rest = <<>> THEN ReadAll(h, Elements(y).elems) ELSE Rejected("bundle")
    BY <1>4, ReceivedBundle
  <2> QED BY <1>3, <2>1
<1> HIDE DEF r
<1>6. z # <<>> => ~r.ok
  BY <1>5 DEF Rejected
<1>7. ASSUME NEW i \in 1 .. Len(b)
      PROVE  /\ Deserialise(h, M[i]).ok /\ Deserialise(h, M[i]).path = b[i].path
             /\ Deserialise(h, M[i]).types = b[i].types /\ Deserialise(h, M[i]).data = b[i].data
  <2>1. Deliverable(h, b[i])
    BY DEF Fitting
  <2> QED BY <1>1, <2>1, MessageArrives
<1>8. z = <<>> => Arrived(r, b)
  <2> SUFFICES ASSUME z = <<>> PROVE Arrived(r, b)
    OBVIOUS
  <2>1. DOMAIN M = 1 .. Len(M) /\ Len(M) \in Nat
    BY <1>1 DEF Small
  <2>2. \A i \in 1 .. Len(M) : Deserialise(h, M[i]).ok
    BY <1>1, <1>7
  <2>3. /\ ReadAll(h, M).ok /\ Len(ReadAll(h, M).msgs) = Len(M)
        /\ \A i \in 1 .. Len(M) : ReadAll(h, M).msgs[i] = Deserialise(h, M[i])
    BY <2>1, <2>2, AllRead
  <2>4. r = ReadAll(h, M)
    BY <1>5
  <2> QED BY <1>1, <1>7, <2>3, <2>4 DEF Arrived
<1> QED BY <1>6, <1>8 DEF r, y, B, M

\* A bundle is received as the messages in it, and what is left when it is cut
\* short, as the first of them or not at all.
LEMMA WholeOrFirst ==
  ASSUME NEW h, NEW b, Fitting(h, b), NEW ts \in Seq(Byte), Len(ts) = 8
  PROVE  LET w == BundleSerialise(h, ts, b)
         IN  /\ Len(w) \in Nat /\ Len(w) = BundleLength(b)
             /\ Arrived(Received(h, w), b)
             /\ \A c \in 0 .. Len(w) - 1 :
                   LET r == Received(h, SubSeq(w, 1, c))
                   IN  r.ok => \E k \in 0 .. Len(b) - 1 :
                                   c = BundleLength(First(b, k)) /\ Arrived(r, First(b, k))
<1> DEFINE M == MessagesOf(h, b)
           B == Body(M)
           p == Header(ts)
           w == BundleSerialise(h, ts, b)
<1>1. Small(M) /\ Len(M) = Len(b) /\ Len(b) \in Nat
  BY FittingIsSmall DEF Fitting
<1>2. B \in Seq(Byte) /\ w = p \o B /\ BundleLength(b) = 16 + Len(B)
  BY BundleIs
<1>3. p \in Seq(Byte) /\ Len(p) = 16
  BY HeaderFacts
<1>4. <<>> \in Seq(Byte) /\ Stuck(<<>>)
  BY DEF Stuck
<1>5. Arrived(Received(h, w), b)
  <2>1. B \o <<>> = B
    BY <1>2, ConcatEmptySeq
  <2>2. Arrived(Received(h, p \o (B \o <<>>)), b)
    BY <1>4, AllArrive
  <2> QED BY <1>2, <2>1, <2>2
<1> HIDE DEF M, p, w
<1>6. Len(w) = 16 + Len(B) /\ Len(B) \in Nat
  <2> HIDE DEF B
  <2>1. Len(p \o B) = Len(p) + Len(B) /\ Len(B) \in Nat
    BY <1>2, <1>3, Joined
  <2> QED BY <1>2, <1>3, <2>1
<1>7. ASSUME NEW c \in 0 .. Len(w) - 1, Received(h, SubSeq(w, 1, c)).ok
      PROVE  \E k \in 0 .. Len(b) - 1 :
                c = BundleLength(First(b, k)) /\ Arrived(Received(h, SubSeq(w, 1, c)), First(b, k))
  <2>1. CASE c < 16
    <3>1. c \in 0 .. 15 /\ c \in 0 .. Len(p)
      BY <1>3, <2>1
    <3>2. SubSeq(w, 1, c) = SubSeq(p, 1, c)
      <4> HIDE DEF B
      <4> QED BY <1>2, <1>3, <3>1, CutWithin
    <3> QED BY <1>7, <3>1, <3>2, TooShort DEF p
  <2>2. CASE ~(c < 16)
    <3> DEFINE d == c - 16
    <3>1. d \in Nat /\ d < Len(B) /\ d \in 0 .. Len(B) /\ c = 16 + d
      BY <1>6, <2>2
    <3> HIDE DEF d
    <3>2. SubSeq(w, 1, c) = p \o SubSeq(B, 1, d)
      <4> HIDE DEF B
      <4>1. SubSeq(p \o B, 1, Len(p) + d) = p \o SubSeq(B, 1, d)
        BY <1>2, <1>3, <3>1, CutAfter
      <4> QED BY <1>2, <1>3, <3>1, <4>1
    <3>3. PICK k \in 0 .. Len(M) - 1, z \in Seq(Byte) :
             /\ SubSeq(B, 1, d) = Body(First(M, k)) \o z /\ Stuck(z)
             /\ d = Len(Body(First(M, k))) + Len(z)
      BY <1>1, <3>1, CutOf
    <3> DEFINE f == First(b, k)
    <3>4. k \in 0 .. Len(b) - 1 /\ k \in 0 .. Len(b) /\ k \in Nat
      BY <1>1
    <3>5. Fitting(h, f) /\ First(M, k) = MessagesOf(h, f)
      <4>1. /\ f = [j \in 1 .. k |-> b[j]] /\ DOMAIN b = 1 .. Len(b)
            /\ \A j \in 1 .. k : j \in 1 .. Len(b)
        BY <3>4 DEF First, Fitting
      <4>2. Len(f) = k /\ DOMAIN f = 1 .. k /\ \A j \in 1 .. k : f[j] = b[j]
        BY <3>4, <4>1
      <4> HIDE DEF f
      <4>3. Fitting(h, f)
        BY <3>4, <4>1, <4>2 DEF Fitting
      <4>4. First(M, k) = [j \in 1 .. k |-> MessageOf(h, b[j])]
        BY <4>1 DEF First, MessagesOf, M
      <4>5. MessagesOf(h, f) = [j \in 1 .. k |-> MessageOf(h, b[j])]
        BY <4>2 DEF MessagesOf
      <4> QED BY <4>3, <4>4, <4>5
    <3> HIDE DEF f
    <3> DEFINE N == MessagesOf(h, f)
               r == Received(h, p \o (Body(N) \o z))
    <3>6. (z = <<>> => Arrived(r, f)) /\ (r.ok => z = <<>>)
      BY <3>3, <3>5, AllArrive DEF p
    <3>7. BundleLength(f) = 16 + Len(Body(N)) /\ Body(N) \in Seq(Byte)
      BY <3>5, BundleIs
    <3>8. Received(h, SubSeq(w, 1, c)) = r /\ d = Len(Body(N)) + Len(z)
      BY <3>2, <3>3, <3>5
    <3> HIDE DEF r, N
    <3>9. z = <<>>
      BY <1>7, <3>6, <3>8
    <3>10. c = BundleLength(f)
      BY <3>1, <3>7, <3>8, <3>9
    <3> QED BY <3>4, <3>6, <3>8, <3>9, <3>10 DEF f
  <2> QED BY <2>1, <2>2
<1>8. Len(w) \in Nat /\ Len(w) = BundleLength(b)
  BY <1>2, <1>6
<1> QED BY <1>5, <1>7, <1>8 DEF w

LEMMA FirstIs ==
  ASSUME NEW s, NEW k \in Nat
  PROVE  SubSeq(s, 1, k) = [j \in 1 .. k |-> s[j]]
OBVIOUS

\* Beside the message: the bundle is an array of messages, and has room for them.
BundleInv ==
    /\ MessageInv
    /\ bundle \in Seq({This, That}) /\ Len(bundle) <= MaxBundled
    /\ room \in Nat \ {0} /\ Len(bundle) <= room

LEMMA BundleKeeps == BundleInv /\ [BundleNext]_<<vars, bundleVars>> => BundleInv'
<1> SUFFICES ASSUME BundleInv, [BundleNext]_<<vars, bundleVars>> PROVE BundleInv'
  OBVIOUS
<1>1. MessageInv'
  BY Inductive DEF BundleInv
<1>2. /\ bundle \in Seq({This, That}) /\ Len(bundle) \in Nat /\ Len(bundle) <= MaxBundled
      /\ room \in Nat \ {0} /\ Len(bundle) <= room /\ MaxBundled \in Nat
  BY BundlesAssumption DEF BundleInv
<1>3. CASE AddMessage
  <2>1. PICK m \in {This, That} : bundle' = Append(bundle, m)
    BY <1>3 DEF AddMessage
  <2>2. bundle' \in Seq({This, That}) /\ Len(bundle') = Len(bundle) + 1
    BY <1>2, <2>1
  <2>3. Len(bundle) < MaxBundled /\ room' = IF Len(bundle) >= room THEN 2 * room ELSE room
    BY <1>3 DEF AddMessage
  <2>4. room' \in Nat \ {0} /\ Len(bundle) + 1 <= room' /\ Len(bundle) + 1 <= MaxBundled
    BY <1>2, <2>3
  <2> QED BY <1>1, <2>2, <2>4 DEF BundleInv
<1>4. CASE FreeMessages
  <2>1. bundle' = <<>> /\ room' = 4
    BY <1>4 DEF FreeMessages
  <2>2. <<>> \in Seq({This, That}) /\ Len(<<>>) = 0
    OBVIOUS
  <2> QED BY <1>1, <1>2, <2>1, <2>2 DEF BundleInv
<1>5. CASE MessageStep
  BY <1>1, <1>2, <1>5 DEF MessageStep, BundleInv
<1>6. CASE UNCHANGED <<vars, bundleVars>>
  BY <1>1, <1>2, <1>6 DEF bundleVars, BundleInv
<1> QED BY <1>3, <1>4, <1>5, <1>6 DEF BundleNext

\* Every message of the bundle fits into a packet.
BundleFits == \A i \in DOMAIN bundle : SizeOf(Sent[i]) <= MaxSize

LEMMA SentFits == BundleInv /\ BundleFits => Fitting(host, Sent) /\ Len(Sent) = Len(bundle)
<1> SUFFICES ASSUME BundleInv, BundleFits PROVE Fitting(host, Sent) /\ Len(Sent) = Len(bundle)
  OBVIOUS
<1>1. /\ DOMAIN bundle = 1 .. Len(bundle) /\ Len(bundle) \in Nat /\ MaxBundled \in Nat
      /\ Len(bundle) <= MaxBundled
  BY BundlesAssumption DEF BundleInv
<1>2. /\ args \in Seq(Given) /\ types = TypesOf(args) /\ data = FlattenSeq(StoredAll(host, args))
  BY DEF BundleInv, MessageInv, Contents
<1>3. <<>> \in Seq(Given) /\ TypesOf(<<>>) = <<>> /\ FlattenSeq(StoredAll(host, <<>>)) = <<>>
  <2>1. <<>> \in Seq(Given) /\ <<>> \in Seq(Types) /\ <<>> \in Seq(Seq(Byte))
    OBVIOUS
  <2>2. TypesOf(<<>>) \in Seq(Types) /\ Len(TypesOf(<<>>)) = 0
        /\ StoredAll(host, <<>>) \in Seq(Seq(Byte)) /\ Len(StoredAll(host, <<>>)) = 0
    BY <2>1, SequencesOf
  <2>3. TypesOf(<<>>) = <<>> /\ StoredAll(host, <<>>) = <<>>
    BY <2>2, EmptySeq
  <2>4. FlattenSeq(<<>>) = <<>>
    BY DEF FlattenSeq
  <2> QED BY <2>1, <2>3, <2>4
<1>4. Len(Sent) = Len(bundle) /\ DOMAIN Sent = 1 .. Len(bundle)
      /\ \A i \in 1 .. Len(bundle) : Sent[i] = Element(i)
  BY <1>1 DEF Sent
<1>5. ASSUME NEW i \in 1 .. Len(bundle) PROVE Deliverable(host, Element(i))
  <2> DEFINE path == PathAt(i)
             as == IF bundle[i] = This THEN args ELSE <<>>
  <2>1. path \in Text
    <3>1. i \in 1 .. MaxBundled
      BY <1>1
    <3>2. path \in Seq(Byte \ {Nul})
      BY <3>1, BundlesAssumption
    <3> HIDE DEF path
    <3> QED BY <3>2, NoNul
  <2>2. as \in Seq(Given)
    BY <1>2, <1>3
  <2>3. Element(i) = [path |-> path, types |-> TypesOf(as), data |-> FlattenSeq(StoredAll(host, as))]
    BY <1>2, <1>3 DEF Element
  <2> HIDE DEF path, as
  <2> QED BY <2>1, <2>2, <2>3 DEF Deliverable
<1>6. \A i \in 1 .. Len(bundle) : Deliverable(host, Sent[i]) /\ SizeOf(Sent[i]) <= MaxSize
  BY <1>1, <1>4, <1>5 DEF BundleFits
<1> QED BY <1>1, <1>4, <1>6 DEF Fitting

LEMMA IsWhole == BundleInv => (BundleFits => BundleWhole)
<1> SUFFICES ASSUME BundleInv, BundleFits PROVE BundleWhole
  OBVIOUS
<1> DEFINE w == BundleSerialise(host, Now1, Sent)
           n == Len(bundle)
<1>1. Now1 \in Seq(Byte) /\ Len(Now1) = 8
  BY DEF Now1, Byte
<1>2. Fitting(host, Sent) /\ Len(Sent) = n
  BY SentFits
<1>3. /\ Len(w) \in Nat /\ Len(w) = BundleLength(Sent)
      /\ Arrived(Received(host, w), Sent)
      /\ \A c \in 0 .. Len(w) - 1 :
            LET r == Received(host, SubSeq(w, 1, c))
            IN  r.ok => \E k \in 0 .. Len(Sent) - 1 :
                            c = BundleLength(First(Sent, k)) /\ Arrived(r, First(Sent, k))
  BY <1>1, <1>2, WholeOrFirst
<1>4. n \in Nat /\ n <= room /\ DOMAIN Sent = 1 .. n
  BY <1>2 DEF BundleInv, Fitting
<1> HIDE DEF w, n
<1>5. TakenFor(Received(host, w), n)
  BY <1>2, <1>3 DEF Arrived, TakenFor
<1>6. ASSUME NEW k \in 0 .. n - 1
      PROVE  First(Sent, k) = Cut(k) /\ \A r : Arrived(r, First(Sent, k)) => TakenFor(r, k)
  <2> DEFINE f == First(Sent, k)
  <2>1. k \in Nat /\ k <= n /\ \A j \in 1 .. k : j \in 1 .. n
    BY <1>4
  <2>2. f = [j \in 1 .. k |-> Sent[j]]
    BY DEF First
  <2>3. Len(f) = k /\ \A j \in 1 .. k : f[j] = Sent[j]
    BY <2>1, <2>2
  <2>4. Cut(k) = f
    BY <2>1, <2>2, FirstIs DEF Cut
  <2> HIDE DEF f
  <2>5. \A r : Arrived(r, f) => TakenFor(r, k)
    BY <2>3 DEF Arrived, TakenFor
  <2> QED BY <2>4, <2>5 DEF f
<1>7. ASSUME NEW c \in 0 .. Len(w) - 1, Received(host, SubSeq(w, 1, c)).ok
      PROVE  \E k \in 0 .. n - 1 :
                c = BundleLength(Cut(k)) /\ TakenFor(Received(host, SubSeq(w, 1, c)), k)
  <2>1. PICK k \in 0 .. n - 1 : /\ c = BundleLength(First(Sent, k))
                                /\ Arrived(Received(host, SubSeq(w, 1, c)), First(Sent, k))
    BY <1>2, <1>3, <1>7
  <2> QED BY <1>6, <2>1
<1> QED BY <1>3, <1>4, <1>5, <1>7 DEF BundleWhole, w, n

\* BundleWhole, for bundles of any length whose messages fit into packets: they are
\* received as the messages put into them, with what was added to these later, and
\* cut short as the first of them, if at all.
THEOREM BundlesComeWhole == BundleSpec => [](BundleFits => BundleWhole)
<1>1. BundleInit => BundleInv
  <2> SUFFICES ASSUME BundleInit PROVE BundleInv
    OBVIOUS
  <2>1. MessageInv
    BY Begun DEF BundleInit
  <2>2. <<>> \in Seq({This, That}) /\ Len(<<>>) = 0
    OBVIOUS
  <2> QED BY <2>1, <2>2, BundlesAssumption DEF BundleInit, BundleInv
<1> QED BY <1>1, BundleKeeps, IsWhole, PTL DEF BundleSpec

=============================================================================
