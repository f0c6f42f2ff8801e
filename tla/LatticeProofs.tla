--------------------------- MODULE LatticeProofs ---------------------------
(***************************************************************************)
(* The lattice, for every size, radius and box.  Division with remainder   *)
(* first, then what the offsets of both habitats have in common, and from  *)
(* that the neighbours on the torus, the grid and the seed.                *)
(***************************************************************************)
EXTENDS Lattice, SequenceTheorems, TLAPS

----------------------------------------------------------------------------
(* Division with remainder *)

LEMMA Multiples ==
  ASSUME NEW a \in Int, NEW b \in Int, NEW w \in Nat, a < b
  PROVE  (a * w) + w <= b * w
<1>1. b - a - 1 \in Nat
  OBVIOUS
<1>2. (b - a - 1) * w \in Nat
  BY <1>1
<1>3. b * w = ((b - a - 1) * w) + (a * w) + w
  BY <1>1
<1>4. a * w \in Int /\ b * w \in Int
  OBVIOUS
<1> QED BY <1>2, <1>3, <1>4

LEMMA DivMod ==
  ASSUME NEW m \in Int, NEW w \in Nat \ {0}
  PROVE  m \div w \in Int /\ m % w \in 0 .. w - 1 /\ m = ((m \div w) * w) + (m % w)
OBVIOUS

LEMMA DivModUnique ==
  ASSUME NEW w \in Nat \ {0}, NEW q \in Int, NEW s \in 0 .. w - 1,
         NEW p \in Int, NEW t \in 0 .. w - 1, (q * w) + s = (p * w) + t
  PROVE  q = p /\ s = t
<1>1. q * w \in Int /\ p * w \in Int
  OBVIOUS
<1>2. ~(q < p)
  <2>1. ASSUME q < p PROVE FALSE
    <3>1. (q * w) + w <= p * w
      BY <2>1, Multiples
    <3> QED BY <3>1, <1>1
  <2> QED BY <2>1
<1>3. ~(p < q)
  <2>1. ASSUME p < q PROVE FALSE
    <3>1. (p * w) + w <= q * w
      BY <2>1, Multiples
    <3> QED BY <3>1, <1>1
  <2> QED BY <2>1
<1>4. q = p
  BY <1>2, <1>3
<1> QED BY <1>1, <1>4

LEMMA DivModOf ==
  ASSUME NEW w \in Nat \ {0}, NEW q \in Int, NEW s \in 0 .. w - 1
  PROVE  ((q * w) + s) \div w = q /\ ((q * w) + s) % w = s
<1> DEFINE m == (q * w) + s
<1>1. m \in Int
  OBVIOUS
<1>2. m \div w \in Int /\ m % w \in 0 .. w - 1 /\ m = ((m \div w) * w) + (m % w)
  BY <1>1, DivMod
<1> QED BY <1>2, DivModUnique

\* A place in a row of rows.
LEMMA RowMajor ==
  ASSUME NEW b \in Nat, NEW n \in Nat, NEW x \in 0 .. b - 1, NEW y \in 0 .. n - 1
  PROVE  (x * n) + y \in 0 .. (b * n) - 1
<1>1. (x * n) + n <= b * n
  BY Multiples
<1>2. x * n \in Nat /\ b * n \in Nat
  OBVIOUS
<1> QED BY <1>1, <1>2

----------------------------------------------------------------------------
(* The torus *)

LEMMA WrapFacts ==
  ASSUME NEW x \in Int
  PROVE  /\ Wrap(x) \in Coords
         /\ \E q \in Int : x = (q * Size) + Wrap(x)
<1>1. Size \in Nat \ {0}
  BY LatticeAssumption
<1>2. x \div Size \in Int /\ x % Size \in 0 .. Size - 1 /\ x = ((x \div Size) * Size) + (x % Size)
  BY <1>1, DivMod
<1> QED BY <1>2 DEF Wrap, Coords

\* A step and the opposite step lead back.
LEMMA ThereAndBack ==
  ASSUME NEW x \in Coords, NEW d \in Int
  PROVE  Wrap(Wrap(x + d) + (0 - d)) = x
<1>1. Size \in Nat \ {0} /\ x \in 0 .. Size - 1 /\ x + d \in Int
  BY LatticeAssumption DEF Coords
<1>2. PICK q \in Int : x + d = (q * Size) + Wrap(x + d)
  BY <1>1, WrapFacts
<1>3. Wrap(x + d) \in Int
  BY <1>1, WrapFacts DEF Coords
<1>4. q * Size \in Int /\ (-q) * Size = -(q * Size) /\ -q \in Int
  BY <1>1
<1>5. Wrap(x + d) + (0 - d) = ((-q) * Size) + x
  BY <1>1, <1>2, <1>3, <1>4
<1>6. (((-q) * Size) + x) % Size = x
  BY <1>1, <1>4, DivModOf
<1> QED BY <1>5, <1>6 DEF Wrap

\* Steps that do not reach round the torus lead to different places.
LEMMA StepsApart ==
  ASSUME NEW x \in Coords, NEW R \in Nat, 2 * R < Size, NEW d \in -R .. R, NEW e \in -R .. R,
         Wrap(x + d) = Wrap(x + e)
  PROVE  d = e
<1>1. Size \in Nat \ {0} /\ x \in Int /\ x + d \in Int /\ x + e \in Int
  BY LatticeAssumption DEF Coords
<1>2. PICK q \in Int : x + d = (q * Size) + Wrap(x + d)
  BY <1>1, WrapFacts
<1>3. PICK p \in Int : x + e = (p * Size) + Wrap(x + e)
  BY <1>1, WrapFacts
<1>4. q * Size \in Int /\ p * Size \in Int /\ Wrap(x + d) \in Int
  BY <1>1, WrapFacts DEF Coords
<1>5. d - e = (q * Size) - (p * Size) /\ d - e < Size /\ e - d < Size
  BY <1>1, <1>2, <1>3, <1>4
<1>6. ~(q < p)
  <2>1. ASSUME q < p PROVE FALSE
    <3>1. (q * Size) + Size <= p * Size
      BY <1>1, <2>1, Multiples
    <3> QED BY <1>1, <1>4, <1>5, <3>1
  <2> QED BY <2>1
<1>7. ~(p < q)
  <2>1. ASSUME p < q PROVE FALSE
    <3>1. (p * Size) + Size <= q * Size
      BY <1>1, <2>1, Multiples
    <3> QED BY <1>1, <1>4, <1>5, <3>1
  <2> QED BY <2>1
<1>8. q = p
  BY <1>6, <1>7
<1> QED BY <1>4, <1>5, <1>8

----------------------------------------------------------------------------
(* The offsets *)

Triples == Int \X Int \X Int
Opposite(o) == <<0 - o[1], 0 - o[2], 0 - o[3]>>

\* What neighbourhood needs of the offsets of a habitat that reaches as far as R.
Offsets(o, R) ==
    /\ o \in Seq(Triples)
    /\ \A n \in 1 .. Len(o) : o[Len(o) + 1 - n] = Opposite(o[n])
    /\ \A n, m \in 1 .. Len(o) : o[n] = o[m] => n = m
    /\ \A n \in 1 .. Len(o) : o[n] # <<0, 0, 0>> /\ \A i \in 1 .. 3 : o[n][i] \in -R .. R

Width(r) == 2 * r + 1
Volume(r) == Width(r) * Width(r) * Width(r)
Digits(r) == 0 .. Width(r) - 1

\* Of the cube, the cell of row a, column b and depth c.
Place(r, a, b, c) == (((a * Width(r)) + b) * Width(r)) + c + 1

LEMMA WidthFacts ==
  ASSUME NEW r \in Nat
  PROVE  /\ Width(r) \in Nat \ {0} /\ Width(r) * Width(r) \in Nat \ {0} /\ Volume(r) \in Nat
         /\ Digits(r) \subseteq Int
  BY DEF Width, Volume, Digits

LEMMA CubeAtPlace ==
  ASSUME NEW r \in Nat, NEW a \in Digits(r), NEW b \in Digits(r), NEW c \in Digits(r)
  PROVE  /\ Place(r, a, b, c) \in 1 .. Volume(r)
         /\ Cube(r)[Place(r, a, b, c)] = <<b - r, a - r, c - r>>
<1> DEFINE w == Width(r)
           n == Place(r, a, b, c)
<1>1. w \in Nat \ {0} /\ w * w \in Nat \ {0}
  BY WidthFacts
<1>2. /\ a \in 0 .. w - 1 /\ b \in 0 .. w - 1 /\ c \in 0 .. w - 1
      /\ a \in Int /\ (a * w) + b \in Int /\ w \in Int
  BY <1>1 DEF Digits
<1>3. Cube(r) = [k \in 1 .. Volume(r) |->
                   <<(((k - 1) \div w) % w) - r, ((k - 1) \div (w * w)) - r, ((k - 1) % w) - r>>]
  BY DEF Cube, Width, Volume
<1>4. n - 1 = (((a * w) + b) * w) + c
  <2> HIDE DEF w
  <2>1. ((a * w) + b) * w \in Int
    BY <1>1, <1>2
  <2> QED BY <1>2, <2>1 DEF Place, w
<1>5. n - 1 = (a * (w * w)) + ((b * w) + c)
  BY <1>1, <1>2, <1>4
<1> HIDE DEF w, n
<1>6. (a * w) + b \in 0 .. (w * w) - 1 /\ (b * w) + c \in 0 .. (w * w) - 1
  BY <1>1, <1>2, RowMajor
<1>7. n - 1 \in 0 .. ((w * w) * w) - 1
  BY <1>1, <1>2, <1>4, <1>6, RowMajor
<1>8. (n - 1) \div w = (a * w) + b /\ (n - 1) % w = c
  <2> DEFINE q == (a * w) + b
  <2> HIDE DEF q
  <2>1. q \in Int /\ n - 1 = (q * w) + c
    BY <1>2, <1>4 DEF q
  <2>2. ((q * w) + c) \div w = q /\ ((q * w) + c) % w = c
    BY <1>1, <1>2, <2>1, DivModOf
  <2> QED BY <2>1, <2>2 DEF q
<1>9. ((a * w) + b) % w = b
  BY <1>1, <1>2, DivModOf
<1>10. (n - 1) \div (w * w) = a
  <2> DEFINE v == w * w
             t == (b * w) + c
  <2> HIDE DEF v, t
  <2>1. v \in Nat \ {0} /\ t \in 0 .. v - 1 /\ n - 1 = (a * v) + t
    BY <1>1, <1>5, <1>6 DEF v, t
  <2>2. ((a * v) + t) \div v = a
    BY <1>2, <2>1, DivModOf
  <2> QED BY <2>1, <2>2 DEF v
<1>11. Volume(r) = (w * w) * w /\ Volume(r) \in Nat /\ n \in Int
  <2>1. n = (((a * w) + b) * w) + c + 1
    BY DEF n, w, Place
  <2> QED BY <1>1, <1>2, <2>1, WidthFacts DEF Volume, w
<1>12. n \in 1 .. Volume(r)
  BY <1>7, <1>11
<1> QED BY <1>3, <1>8, <1>9, <1>10, <1>12 DEF n

LEMMA PlaceOf ==
  ASSUME NEW r \in Nat, NEW n \in 1 .. Volume(r)
  PROVE  \E a, b, c \in Digits(r) : n = Place(r, a, b, c)
<1> DEFINE w == Width(r)
           q == (n - 1) \div w
<1>1. w \in Nat \ {0} /\ Volume(r) \in Nat /\ Volume(r) = (w * w) * w /\ w * w \in Nat
  BY WidthFacts DEF Volume
<1>2. n - 1 \in Nat /\ n - 1 <= Volume(r) - 1
  BY <1>1
<1> HIDE DEF w
<1>3. q \in Int /\ (n - 1) % w \in 0 .. w - 1 /\ n - 1 = (q * w) + ((n - 1) % w)
  BY <1>1, <1>2, DivMod
<1> HIDE DEF q
<1>4. q \in 0 .. (w * w) - 1
  <2>1. q * w \in Int
    BY <1>1, <1>3
  <2>2. ASSUME q < 0 PROVE FALSE
    <3>1. (q * w) + w <= 0 * w
      BY <1>1, <1>3, <2>2, Multiples
    <3> QED BY <1>1, <1>2, <1>3, <2>1, <3>1
  <2>3. ASSUME w * w <= q PROVE FALSE
    <3>1. (w * w) * w <= q * w
      <4>1. CASE w * w = q
        BY <1>1, <4>1
      <4>2. CASE w * w < q
        <5>1. ((w * w) * w) + w <= q * w
          BY <1>1, <1>3, <4>2, Multiples
        <5> QED BY <1>1, <2>1, <5>1
      <4> QED BY <1>1, <1>3, <2>3, <4>1, <4>2
    <3> QED BY <1>1, <1>2, <1>3, <2>1, <3>1
  <2> QED BY <1>1, <1>3, <2>2, <2>3
<1>5. q \div w \in Int /\ q % w \in 0 .. w - 1 /\ q = ((q \div w) * w) + (q % w)
  BY <1>1, <1>3, DivMod
<1>6. q \div w \in 0 .. w - 1
  <2> DEFINE a == q \div w
             s == q % w
  <2>1. a \in Int /\ a * w \in Int
    BY <1>1, <1>5
  <2>2. s \in 0 .. w - 1 /\ q = (a * w) + s
    BY <1>5
  <2> HIDE DEF a, s
  <2>3. ASSUME a < 0 PROVE FALSE
    <3>1. (a * w) + w <= 0 * w
      BY <1>1, <2>1, <2>3, Multiples
    <3> QED BY <1>1, <1>4, <2>1, <2>2, <3>1
  <2>4. ASSUME w <= a PROVE FALSE
    <3>1. w * w <= a * w
      <4>1. CASE w = a
        BY <1>1, <4>1
      <4>2. CASE w < a
        <5>1. (w * w) + w <= a * w
          BY <1>1, <2>1, <4>2, Multiples
        <5> QED BY <1>1, <2>1, <5>1
      <4> QED BY <1>1, <2>1, <2>4, <4>1, <4>2
    <3> QED BY <1>1, <1>4, <2>1, <2>2, <3>1
  <2>5. a \in 0 .. w - 1
    BY <1>1, <2>1, <2>3, <2>4
  <2> QED BY <2>5 DEF a
<1>7. n = (q * w) + ((n - 1) % w) + 1
  <2>1. q * w \in Int
    BY <1>1, <1>3
  <2> QED BY <1>1, <1>3, <2>1
<1>8. n = Place(r, q \div w, q % w, (n - 1) % w)
  BY <1>5, <1>7 DEF Place, w
<1> QED BY <1>3, <1>5, <1>6, <1>8 DEF Digits, w

\* The n-th offset of the cube and the n-th from the end are opposite.
LEMMA CubeMirrored ==
  ASSUME NEW r \in Nat, NEW a \in Digits(r), NEW b \in Digits(r), NEW c \in Digits(r)
  PROVE  LET n == Place(r, a, b, c)
         IN  /\ Volume(r) + 1 - n \in 1 .. Volume(r)
             /\ Cube(r)[Volume(r) + 1 - n] = Opposite(Cube(r)[n])
<1> DEFINE w == Width(r)
           n == Place(r, a, b, c)
           x == w - 1 - a
           y == w - 1 - b
           z == w - 1 - c
<1>1. w \in Nat \ {0} /\ w = 2 * r + 1 /\ Volume(r) = (w * w) * w /\ Volume(r) \in Nat
  BY WidthFacts DEF Width, Volume
<1>2. a \in 0 .. w - 1 /\ b \in 0 .. w - 1 /\ c \in 0 .. w - 1
  BY DEF Digits
<1>3. x \in Digits(r) /\ y \in Digits(r) /\ z \in Digits(r)
  BY <1>1, <1>2 DEF Digits
<1>4. Volume(r) + 1 - n = Place(r, x, y, z)
  <2>1. n = (((a * w) + b) * w) + c + 1
    BY DEF Place
  <2>2. Place(r, x, y, z) = ((((w - 1 - a) * w) + (w - 1 - b)) * w) + (w - 1 - c) + 1
    BY DEF Place
  <2> HIDE DEF w, n, x, y, z
  <2> QED BY <1>1, <1>2, <2>1, <2>2
<1>5. /\ Cube(r)[n] = <<b - r, a - r, c - r>>
      /\ Cube(r)[Volume(r) + 1 - n] = <<y - r, x - r, z - r>>
      /\ Volume(r) + 1 - n \in 1 .. Volume(r)
  BY <1>3, <1>4, CubeAtPlace
<1>6. y - r = 0 - (b - r) /\ x - r = 0 - (a - r) /\ z - r = 0 - (c - r)
  BY <1>1, <1>2
<1> HIDE DEF w, n, x, y, z
<1>7. Cube(r)[Volume(r) + 1 - n] = Opposite(Cube(r)[n])
  BY <1>5, <1>6 DEF Opposite
<1> QED BY <1>5, <1>7 DEF n

Centre(r) == Place(r, r, r, r)

LEMMA CubeFacts ==
  ASSUME NEW r \in Nat
  PROVE  /\ Cube(r) \in Seq(Triples) /\ Len(Cube(r)) = Volume(r)
         /\ \A n \in 1 .. Volume(r) :
               /\ \A i \in 1 .. 3 : Cube(r)[n][i] \in -r .. r
               /\ Cube(r)[Volume(r) + 1 - n] = Opposite(Cube(r)[n])
         /\ \A n, m \in 1 .. Volume(r) : Cube(r)[n] = Cube(r)[m] => n = m
         /\ Centre(r) \in 1 .. Volume(r) /\ Cube(r)[Centre(r)] = <<0, 0, 0>>
         /\ Volume(r) + 1 - Centre(r) = Centre(r)
<1>1. Volume(r) \in Nat /\ Width(r) = 2 * r + 1 /\ Digits(r) = 0 .. Width(r) - 1
  BY WidthFacts DEF Width, Digits
<1>2. ASSUME NEW n \in 1 .. Volume(r)
      PROVE  \E a, b, c \in Digits(r) : n = Place(r, a, b, c) /\ Cube(r)[n] = <<b - r, a - r, c - r>>
  <2>1. PICK a, b, c \in Digits(r) : n = Place(r, a, b, c)
    BY PlaceOf
  <2>2. Cube(r)[n] = <<b - r, a - r, c - r>>
    BY <2>1, CubeAtPlace
  <2> QED BY <2>1, <2>2
<1>3. ASSUME NEW n \in 1 .. Volume(r)
      PROVE  /\ Cube(r)[n] \in Triples
             /\ \A i \in 1 .. 3 : Cube(r)[n][i] \in -r .. r
             /\ Cube(r)[Volume(r) + 1 - n] = Opposite(Cube(r)[n])
  <2>1. PICK a, b, c \in Digits(r) : n = Place(r, a, b, c) /\ Cube(r)[n] = <<b - r, a - r, c - r>>
    BY <1>2
  <2>2. b - r \in -r .. r /\ a - r \in -r .. r /\ c - r \in -r .. r
    BY <1>1
  <2>3. Cube(r)[Volume(r) + 1 - n] = Opposite(Cube(r)[n])
    BY <2>1, CubeMirrored
  <2>4. \A i \in 1 .. 3 : i = 1 \/ i = 2 \/ i = 3
    OBVIOUS
  <2>5. \A i \in 1 .. 3 : Cube(r)[n][i] \in -r .. r
    BY <2>1, <2>2, <2>4
  <2> QED BY <2>1, <2>2, <2>3, <2>5 DEF Triples
<1>4. Cube(r) \in Seq(Triples) /\ Len(Cube(r)) = Volume(r)
  <2>1. DOMAIN Cube(r) = 1 .. Volume(r) /\ Cube(r) = [n \in 1 .. Volume(r) |-> Cube(r)[n]]
    BY DEF Cube, Volume, Width
  <2>2. Cube(r) \in [1 .. Volume(r) -> Triples]
    BY <1>3, <2>1
  <2> QED BY <1>1, <2>1, <2>2
<1>5. ASSUME NEW n \in 1 .. Volume(r), NEW m \in 1 .. Volume(r), Cube(r)[n] = Cube(r)[m]
      PROVE  n = m
  <2>1. PICK a, b, c \in Digits(r) : n = Place(r, a, b, c) /\ Cube(r)[n] = <<b - r, a - r, c - r>>
    BY <1>2
  <2>2. PICK d, e, f \in Digits(r) : m = Place(r, d, e, f) /\ Cube(r)[m] = <<e - r, d - r, f - r>>
    BY <1>2
  <2>3. b - r = e - r /\ a - r = d - r /\ c - r = f - r
    BY <1>5, <2>1, <2>2
  <2>4. a = d /\ b = e /\ c = f
    BY <1>1, <2>3
  <2> QED BY <2>1, <2>2, <2>4
<1>6. /\ Centre(r) \in 1 .. Volume(r) /\ Cube(r)[Centre(r)] = <<0, 0, 0>>
  <2>1. r \in Digits(r) /\ r - r = 0
    BY <1>1
  <2> QED BY <2>1, CubeAtPlace DEF Centre
<1>7. Volume(r) + 1 - Centre(r) = Centre(r)
  <2>1. r \in Digits(r)
    BY <1>1
  <2>2. /\ Volume(r) + 1 - Centre(r) \in 1 .. Volume(r)
        /\ Cube(r)[Volume(r) + 1 - Centre(r)] = Opposite(Cube(r)[Centre(r)])
    BY <2>1, CubeMirrored DEF Centre
  <2>3. Opposite(<<0, 0, 0>>) = <<0, 0, 0>>
    BY DEF Opposite
  <2> QED BY <1>5, <1>6, <2>2, <2>3
<1> QED BY <1>3, <1>4, <1>5, <1>6, <1>7

\* The sequence without its k-th element, which is in it once.
LEMMA Removed ==
  ASSUME NEW S, NEW s \in Seq(S), NEW k \in 1 .. Len(s),
         \A i \in 1 .. Len(s) : s[i] = s[k] => i = k
  PROVE  LET r == RemoveFirst(s, s[k])
         IN  /\ r \in Seq(S) /\ Len(r) = Len(s) - 1 /\ DOMAIN r = 1 .. Len(s) - 1
             /\ \A i \in 1 .. Len(s) - 1 : r[i] = IF i < k THEN s[i] ELSE s[i + 1]
<1>1. {i \in 1 .. Len(s) : s[i] = s[k]} = {k}
  OBVIOUS
<1>2. SelectInSeq(s, LAMBDA v: v = s[k]) = k
  BY <1>1 DEF SelectInSeq, Min
<1>3. RemoveFirst(s, s[k]) = RemoveAt(s, k)
  BY <1>2 DEF RemoveFirst
<1> DEFINE front == SubSeq(s, 1, k - 1)
           back  == SubSeq(s, k + 1, Len(s))
<1>4. Len(s) \in Nat /\ \A i \in 1 .. Len(s) : s[i] \in S
  OBVIOUS
<1>5. front \in Seq(S) /\ Len(front) = k - 1 /\ \A i \in 1 .. k - 1 : front[i] = s[i]
  BY <1>4, SubSeqProperties
<1>6. /\ back \in Seq(S) /\ Len(back) = Len(s) - k
      /\ \A i \in 1 .. Len(s) - k : back[i] = s[k + i]
  BY <1>4, SubSeqProperties
<1>7. RemoveAt(s, k) = front \o back
  BY DEF RemoveAt
<1> HIDE DEF front, back
<1>8. /\ front \o back \in Seq(S) /\ Len(front \o back) = Len(front) + Len(back)
      /\ \A i \in 1 .. Len(front) + Len(back) :
           (front \o back)[i] = IF i <= Len(front) THEN front[i] ELSE back[i - Len(front)]
  BY <1>5, <1>6, ConcatProperties
<1> DEFINE r == front \o back
<1>9. Len(r) = Len(s) - 1 /\ r \in Seq(S)
  BY <1>4, <1>5, <1>6, <1>8
<1>10. DOMAIN r = 1 .. Len(s) - 1
  BY <1>9
<1>11. ASSUME NEW i \in 1 .. Len(s) - 1
       PROVE  r[i] = IF i < k THEN s[i] ELSE s[i + 1]
  <2>1. r[i] = IF i <= k - 1 THEN front[i] ELSE back[i - (k - 1)]
    BY <1>4, <1>5, <1>6, <1>8
  <2>2. CASE i < k
    BY <2>1, <2>2, <1>4, <1>5
  <2>3. CASE ~(i < k)
    <3>1. i - (k - 1) \in 1 .. Len(s) - k /\ k + (i - (k - 1)) = i + 1 /\ ~(i <= k - 1)
      BY <2>3, <1>4
    <3> QED BY <2>1, <2>3, <3>1, <1>6
  <2> QED BY <2>2, <2>3
<1> HIDE DEF r
<1> QED BY <1>3, <1>7, <1>9, <1>10, <1>11 DEF r

\* Without its centre the cube is as symmetric as before.
LEMMA MooreFacts ==
  ASSUME NEW r \in Nat
  PROVE  /\ Offsets(Moore(r), r) /\ Len(Moore(r)) = Volume(r) - 1
         /\ \A n \in 1 .. Volume(r) - 1 :
               Moore(r)[n] = IF n < Centre(r) THEN Cube(r)[n] ELSE Cube(r)[n + 1]
<1> DEFINE o == Moore(r)
           k == Centre(r)
           v == Volume(r)
           cube == Cube(r)
<1>1. /\ cube \in Seq(Triples) /\ Len(cube) = v /\ v \in Nat
      /\ k \in 1 .. v /\ cube[k] = <<0, 0, 0>> /\ v + 1 - k = k
      /\ \A n, m \in 1 .. v : cube[n] = cube[m] => n = m
      /\ \A n \in 1 .. v : cube[v + 1 - n] = Opposite(cube[n])
      /\ \A n \in 1 .. v : \A i \in 1 .. 3 : cube[n][i] \in -r .. r
  BY CubeFacts, WidthFacts
<1>2. o = RemoveFirst(cube, cube[k])
  BY <1>1 DEF Moore
<1> HIDE DEF o, k, v, cube
<1>3. /\ o \in Seq(Triples) /\ Len(o) = v - 1
      /\ \A n \in 1 .. v - 1 : o[n] = IF n < k THEN cube[n] ELSE cube[n + 1]
  <2>1. k \in 1 .. Len(cube) /\ \A i \in 1 .. Len(cube) : cube[i] = cube[k] => i = k
    BY <1>1
  <2>2. LET s == RemoveFirst(cube, cube[k])
        IN  /\ s \in Seq(Triples) /\ Len(s) = Len(cube) - 1 /\ DOMAIN s = 1 .. Len(cube) - 1
            /\ \A i \in 1 .. Len(cube) - 1 : s[i] = IF i < k THEN cube[i] ELSE cube[i + 1]
    BY <1>1, <2>1, Removed
  <2> QED BY <1>1, <1>2, <2>2
<1> DEFINE At(n) == IF n < k THEN n ELSE n + 1
<1>4. ASSUME NEW n \in 1 .. v - 1
      PROVE  \E j \in 1 .. v : /\ j = At(n) /\ j # k /\ v + 1 - j = At(v - n)
                              /\ o[n] = cube[j] /\ o[v - n] = cube[v + 1 - j]
  <2>1. At(n) \in 1 .. v /\ At(n) # k /\ At(v - n) = v + 1 - At(n) /\ v - n \in 1 .. v - 1
    BY <1>1
  <2>2. o[n] = cube[At(n)] /\ o[v - n] = cube[At(v - n)]
    BY <1>3, <2>1
  <2> HIDE DEF At
  <2> QED BY <2>1, <2>2
<1>5. \A n, m \in 1 .. v - 1 : At(n) = At(m) => n = m
  BY <1>1
<1> HIDE DEF At
<1>6. ASSUME NEW n \in 1 .. v - 1
      PROVE  /\ o[v - n] = Opposite(o[n])
             /\ o[n] # <<0, 0, 0>> /\ \A i \in 1 .. 3 : o[n][i] \in -r .. r
  <2>1. PICK j \in 1 .. v : j # k /\ o[n] = cube[j] /\ o[v - n] = cube[v + 1 - j]
    BY <1>4
  <2>2. cube[v + 1 - j] = Opposite(cube[j]) /\ \A i \in 1 .. 3 : cube[j][i] \in -r .. r
    BY <1>1
  <2>3. cube[j] # cube[k]
    BY <1>1, <2>1
  <2> QED BY <1>1, <2>1, <2>2, <2>3
<1>7. ASSUME NEW n \in 1 .. v - 1, NEW m \in 1 .. v - 1, o[n] = o[m] PROVE n = m
  <2>1. PICK j \in 1 .. v : j = At(n) /\ o[n] = cube[j]
    BY <1>4
  <2>2. PICK l \in 1 .. v : l = At(m) /\ o[m] = cube[l]
    BY <1>4
  <2>3. j = l
    BY <1>1, <1>7, <2>1, <2>2
  <2> QED BY <1>5, <2>1, <2>2, <2>3
<1>9. Len(o) + 1 = v /\ v - 1 = Len(o)
  BY <1>1, <1>3
<1>10. Offsets(o, r)
  <2>1. ASSUME NEW n \in 1 .. Len(o) PROVE n \in 1 .. v - 1 /\ Len(o) + 1 - n = v - n
    BY <1>1, <1>3
  <2>2. ASSUME NEW n \in 1 .. Len(o) PROVE o[Len(o) + 1 - n] = Opposite(o[n])
    BY <1>6, <2>1
  <2>3. \A n, m \in 1 .. Len(o) : o[n] = o[m] => n = m
    BY <1>7, <1>9
  <2>4. \A n \in 1 .. Len(o) : o[n] # <<0, 0, 0>> /\ \A i \in 1 .. 3 : o[n][i] \in -r .. r
    BY <1>6, <1>9
  <2> QED BY <1>3, <2>2, <2>3, <2>4 DEF Offsets
<1> QED BY <1>3, <1>10 DEF o, k, v, cube

LEMMA NeumannFacts ==
  ASSUME NEW r
  PROVE  Offsets(Neumann(r), 1)
<1> DEFINE o == Neumann(r)
<1>1. /\ o[1] = <<-1, 0, 0>> /\ o[2] = <<0, -1, 0>> /\ o[3] = <<0, 0, -1>>
      /\ o[4] = <<0, 0, 1>> /\ o[5] = <<0, 1, 0>> /\ o[6] = <<1, 0, 0>>
      /\ Len(o) = 6 /\ o \in Seq(Triples)
  BY DEF Neumann, Triples
<1>2. \A n \in 1 .. 6 : n = 1 \/ n = 2 \/ n = 3 \/ n = 4 \/ n = 5 \/ n = 6
  OBVIOUS
<1>3. \A n \in 1 .. 3 : n = 1 \/ n = 2 \/ n = 3
  OBVIOUS
<1> HIDE DEF o
<1>4. ASSUME NEW n \in 1 .. 6 PROVE o[6 + 1 - n] = Opposite(o[n])
  BY <1>1, <1>2 DEF Opposite
<1>5. ASSUME NEW n \in 1 .. 6, NEW m \in 1 .. 6, o[n] = o[m] PROVE n = m
  BY <1>1, <1>2, <1>5
<1>6. ASSUME NEW n \in 1 .. 6 PROVE o[n] # <<0, 0, 0>> /\ \A i \in 1 .. 3 : o[n][i] \in -1 .. 1
  BY <1>1, <1>2, <1>3
<1>7. Offsets(o, 1)
  BY <1>1, <1>4, <1>5, <1>6 DEF Offsets
<1> QED BY <1>7 DEF o

----------------------------------------------------------------------------
(* The neighbours *)

LEMMA NeighbourIsCell ==
  ASSUME NEW c \in Cells, NEW d \in Triples
  PROVE  Neighbour(c, d) \in Cells
<1>1. /\ c[1] \in Int /\ c[2] \in Int /\ c[3] \in Int /\ d[1] \in Int /\ d[2] \in Int /\ d[3] \in Int
  BY LatticeAssumption DEF Cells, Coords, Triples
<1>2. c[1] + d[1] \in Int /\ c[2] + d[2] \in Int /\ c[3] + d[3] \in Int
  BY <1>1
<1>3. Wrap(c[1] + d[1]) \in Coords /\ Wrap(c[2] + d[2]) \in Coords /\ Wrap(c[3] + d[3]) \in Coords
  BY <1>2, WrapFacts
<1> QED BY <1>3 DEF Neighbour, Cells

\* The neighbour the other way of a neighbour is the cell itself.
LEMMA NeighbourBack ==
  ASSUME NEW c \in Cells, NEW d \in Triples
  PROVE  Neighbour(Neighbour(c, d), Opposite(d)) = c
<1>1. /\ c[1] \in Coords /\ c[2] \in Coords /\ c[3] \in Coords /\ c = <<c[1], c[2], c[3]>>
  BY DEF Cells
<1>2. d[1] \in Int /\ d[2] \in Int /\ d[3] \in Int
  BY DEF Triples
<1>3. Neighbour(Neighbour(c, d), Opposite(d)) =
        <<Wrap(Wrap(c[1] + d[1]) + (0 - d[1])),
          Wrap(Wrap(c[2] + d[2]) + (0 - d[2])),
          Wrap(Wrap(c[3] + d[3]) + (0 - d[3]))>>
  BY DEF Neighbour, Opposite
<1> QED BY <1>1, <1>2, <1>3, ThereAndBack

\* Neighbours by offsets that do not reach round the torus are different cells.
LEMMA NeighboursApart ==
  ASSUME NEW c \in Cells, NEW R \in Nat, 2 * R < Size,
         NEW d \in Triples, \A i \in 1 .. 3 : d[i] \in -R .. R,
         NEW e \in Triples, \A i \in 1 .. 3 : e[i] \in -R .. R,
         Neighbour(c, d) = Neighbour(c, e)
  PROVE  d = e
<1>1. c[1] \in Coords /\ c[2] \in Coords /\ c[3] \in Coords
  BY DEF Cells
<1>2. d = <<d[1], d[2], d[3]>> /\ e = <<e[1], e[2], e[3]>>
  BY DEF Triples
<1>3. /\ Wrap(c[1] + d[1]) = Wrap(c[1] + e[1])
      /\ Wrap(c[2] + d[2]) = Wrap(c[2] + e[2])
      /\ Wrap(c[3] + d[3]) = Wrap(c[3] + e[3])
  BY DEF Neighbour
<1>4. /\ d[1] \in -R .. R /\ d[2] \in -R .. R /\ d[3] \in -R .. R
      /\ e[1] \in -R .. R /\ e[2] \in -R .. R /\ e[3] \in -R .. R
  OBVIOUS
<1>5. d[1] = e[1] /\ d[2] = e[2] /\ d[3] = e[3]
  BY <1>1, <1>3, <1>4, StepsApart
<1> QED BY <1>2, <1>5

LEMMA NoStep ==
  ASSUME NEW c \in Cells
  PROVE  Neighbour(c, <<0, 0, 0>>) = c
<1>1. Size \in Nat \ {0}
  BY LatticeAssumption
<1>2. ASSUME NEW x \in Coords PROVE Wrap(x + 0) = x
  <2>1. x \in 0 .. Size - 1 /\ x + 0 = (0 * Size) + x
    BY <1>1 DEF Coords
  <2> QED BY <1>1, <2>1, DivModOf DEF Wrap
<1>3. c[1] \in Coords /\ c[2] \in Coords /\ c[3] \in Coords /\ c = <<c[1], c[2], c[3]>>
  BY DEF Cells
<1> QED BY <1>2, <1>3 DEF Neighbour

----------------------------------------------------------------------------
(* The world as it is built *)

BuildInv ==
    /\ moore \in BOOLEAN /\ radius \in Nat /\ box \in Boxes
    /\ stage \in {"habitat", "seed", "cells", "world"} =>
          indices = IF moore THEN Moore(radius) ELSE Neumann(radius)
    /\ stage \in {"seed", "cells", "world"} => seed = WireCube(box)
    /\ stage \in {"cells", "world"} => alive = seed /\ seed \subseteq Cells
    /\ stage = "world" =>
          habitat = [c \in Cells |-> [n \in DOMAIN indices |-> Neighbour(c, indices[n])]]

LEMMA Building == Spec => []BuildInv
<1>1. Init => BuildInv
  BY LatticeAssumption DEF Init, BuildInv
<1>2. BuildInv /\ [Next]_vars => BuildInv'
  <2> SUFFICES ASSUME BuildInv, [Next]_vars PROVE BuildInv'
    OBVIOUS
  <2>1. CASE InitHabitat
    BY <2>1 DEF InitHabitat, BuildInv
  <2>2. CASE InitSeed
    BY <2>2 DEF InitSeed, BuildInv
  <2>3. CASE InitCells
    BY <2>3 DEF InitCells, BuildInv
  <2>4. CASE SetHabitat
    BY <2>4 DEF SetHabitat, BuildInv
  <2>5. CASE UNCHANGED vars
    BY <2>5 DEF vars, BuildInv
  <2> QED BY <2>1, <2>2, <2>3, <2>4, <2>5 DEF Next
<1> QED BY <1>1, <1>2, PTL DEF Spec

\* On a torus of any size, with either habitat and any radius, the n-th neighbour
\* of a cell has that cell as its n-th neighbour from the end; and where the
\* habitat fits, a cell has each neighbour once and is none itself.
THEOREM NeighboursAreMutual == Spec => []Mutual
<1>1. BuildInv => Mutual
  <2> SUFFICES ASSUME BuildInv, Built PROVE Mutual
    BY DEF Mutual
  <2>1. Offsets(indices, Reach) /\ Reach \in Nat
    BY MooreFacts, NeumannFacts DEF BuildInv, Built, Reach
  <2>2. habitat = [c \in Cells |-> [n \in DOMAIN indices |-> Neighbour(c, indices[n])]]
    BY DEF BuildInv, Built
  <2>3. /\ indices \in Seq(Triples) /\ Len(indices) \in Nat /\ DOMAIN indices = 1 .. Len(indices)
        /\ \A n \in 1 .. Len(indices) : indices[n] \in Triples
    BY <2>1 DEF Offsets
  <2>4. habitat \in [Cells -> [DOMAIN indices -> Cells]]
    BY <2>2, <2>3, NeighbourIsCell
  <2>5. ASSUME NEW c \in Cells, NEW n \in DOMAIN indices
        PROVE  habitat[habitat[c][n]][Len(indices) + 1 - n] = c
    <3> DEFINE d == indices[n]
               m == Len(indices) + 1 - n
    <3>1. d \in Triples /\ m \in DOMAIN indices /\ indices[m] = Opposite(d)
      BY <2>1, <2>3 DEF Offsets
    <3>2. habitat[c][n] = Neighbour(c, d) /\ Neighbour(c, d) \in Cells
      BY <2>2, <3>1, NeighbourIsCell
    <3>3. habitat[Neighbour(c, d)][m] = Neighbour(Neighbour(c, d), Opposite(d))
      BY <2>2, <3>1, <3>2
    <3> HIDE DEF d, m
    <3>4. habitat[habitat[c][n]][m] = c
      BY <3>1, <3>2, <3>3, NeighbourBack
    <3> QED BY <3>4 DEF m
  <2>6. ASSUME 2 * Reach < Size, NEW c \in Cells
        PROVE  IsInjective(Append(habitat[c], c))
    <3> DEFINE h == habitat[c]
               zero == <<0, 0, 0>>
    <3>1. /\ h \in Seq(Cells) /\ Len(h) = Len(indices)
          /\ \A n \in 1 .. Len(indices) : h[n] = Neighbour(c, indices[n])
      <4>1. h = [n \in 1 .. Len(indices) |-> Neighbour(c, indices[n])]
        BY <2>2, <2>3
      <4>2. h \in [1 .. Len(indices) -> Cells]
        BY <2>3, <4>1, NeighbourIsCell
      <4> HIDE DEF h
      <4> QED BY <2>3, <4>1, <4>2
    <3>2. zero \in Triples /\ \A i \in 1 .. 3 : zero[i] \in -Reach .. Reach
      <4>1. \A i \in 1 .. 3 : i = 1 \/ i = 2 \/ i = 3
        OBVIOUS
      <4>2. 0 \in -Reach .. Reach
        BY <2>1
      <4> QED BY <4>1, <4>2 DEF Triples
    <3>3. ASSUME NEW n \in 1 .. Len(indices), NEW m \in 1 .. Len(indices), h[n] = h[m]
          PROVE  n = m
      <4>1. /\ indices[n] \in Triples /\ \A i \in 1 .. 3 : indices[n][i] \in -Reach .. Reach
            /\ indices[m] \in Triples /\ \A i \in 1 .. 3 : indices[m][i] \in -Reach .. Reach
        BY <2>1, <2>3 DEF Offsets
      <4>2. Neighbour(c, indices[n]) = Neighbour(c, indices[m])
        BY <3>1, <3>3
      <4>3. indices[n] = indices[m]
        BY <2>1, <2>6, <4>1, <4>2, NeighboursApart
      <4> QED BY <2>1, <4>3 DEF Offsets
    <3>4. ASSUME NEW n \in 1 .. Len(indices) PROVE h[n] # c
      <4>1. /\ indices[n] \in Triples /\ \A i \in 1 .. 3 : indices[n][i] \in -Reach .. Reach
            /\ indices[n] # zero
        BY <2>1, <2>3 DEF Offsets
      <4>2. ASSUME h[n] = c PROVE FALSE
        <5>1. Neighbour(c, indices[n]) = Neighbour(c, zero)
          BY <3>1, <4>2, NoStep
        <5> HIDE DEF zero
        <5>2. indices[n] = zero
          BY <2>1, <2>6, <3>2, <4>1, <5>1, NeighboursApart
        <5> QED BY <4>1, <5>2
      <4> QED BY <4>2
    <3> DEFINE s == Append(h, c)
    <3> HIDE DEF h
    <3>5. /\ DOMAIN s = 1 .. Len(indices) + 1 /\ s[Len(indices) + 1] = c
          /\ \A n \in 1 .. Len(indices) : s[n] = h[n]
      BY <3>1
    <3> HIDE DEF s
    <3>6. ASSUME NEW n \in DOMAIN s, NEW m \in DOMAIN s, s[n] = s[m] PROVE n = m
      <4>1. /\ n \in 1 .. Len(indices) \/ n = Len(indices) + 1
            /\ m \in 1 .. Len(indices) \/ m = Len(indices) + 1
        BY <2>3, <3>5
      <4> QED BY <3>3, <3>4, <3>5, <3>6, <4>1
    <3>7. IsInjective(s)
      BY <3>6 DEF IsInjective
    <3> QED BY <3>7 DEF s, h
  <2> QED BY <2>4, <2>5, <2>6 DEF Mutual
<1> QED BY <1>1, Building, PTL

\* The offsets the grid is drawn to, of radius 1 ...
LEMMA DrawnOfOne ==
  /\ Moore(1)[11] = <<-1, 0, 0>> /\ Moore(1)[5] = <<0, -1, 0>> /\ Moore(1)[13] = <<0, 0, -1>>
  /\ Drawn \subseteq DOMAIN Moore(1)
<1>1. Volume(1) = 27 /\ Centre(1) = 14
  BY DEF Volume, Width, Centre, Place
<1>2. Moore(1)[11] = Cube(1)[11] /\ Moore(1)[5] = Cube(1)[5] /\ Moore(1)[13] = Cube(1)[13]
  <2>1. \A n \in 1 .. Volume(1) - 1 :
           Moore(1)[n] = IF n < Centre(1) THEN Cube(1)[n] ELSE Cube(1)[n + 1]
    BY MooreFacts
  <2> QED BY <1>1, <2>1
<1>3. /\ Place(1, 1, 0, 1) = 11 /\ Place(1, 0, 1, 1) = 5 /\ Place(1, 1, 1, 0) = 13
      /\ {0, 1} \subseteq Digits(1)
  BY DEF Place, Width, Digits
<1>4. /\ Cube(1)[11] = <<0 - 1, 1 - 1, 1 - 1>> /\ Cube(1)[5] = <<1 - 1, 0 - 1, 1 - 1>>
      /\ Cube(1)[13] = <<1 - 1, 1 - 1, 0 - 1>>
  BY <1>3, CubeAtPlace
<1>5. Moore(1) \in Seq(Triples) /\ Len(Moore(1)) = 26
  <2>1. Offsets(Moore(1), 1) /\ Len(Moore(1)) = Volume(1) - 1
    BY MooreFacts
  <2>2. Moore(1) \in Seq(Triples)
    BY <2>1 DEF Offsets
  <2>3. Len(Moore(1)) = 26
    <3>1. Volume(1) - 1 = 26
      BY <1>1
    <3> QED BY <2>1, <3>1, Zenon
  <2> QED BY <2>2, <2>3
<1> QED BY <1>2, <1>4, <1>5 DEF Drawn

LEMMA Squares ==
  ASSUME NEW k \in Nat, NEW w \in Nat, k <= w
  PROVE  k * k <= w * w /\ k * k * k <= w * w * w
<1>1. (w - k) * k \in Nat /\ (w - k) * w \in Nat
  OBVIOUS
<1>2. w * w = ((w - k) * w) + ((w - k) * k) + (k * k) /\ k * k \in Nat /\ w * w \in Nat
  OBVIOUS
<1>3. k * k <= w * w
  BY <1>1, <1>2
<1> DEFINE p == k * k
           q == w * w
<1>4. p \in Nat /\ q \in Nat /\ p <= q
  BY <1>2, <1>3
<1> HIDE DEF p, q
<1>5. (q - p) * k \in Nat /\ q * (w - k) \in Nat
  BY <1>4
<1>6. q * w = (q * (w - k)) + ((q - p) * k) + (p * k) /\ p * k \in Nat
  BY <1>4
<1>7. p * k <= q * w
  BY <1>5, <1>6
<1> QED BY <1>3, <1>7 DEF p, q

\* ... and of a larger one, where one of them lies in the first layer of the cube.
LEMMA DrawnOfMore ==
  ASSUME NEW r \in Nat, r >= 2
  PROVE  Moore(r)[11] \in Triples /\ Moore(r)[11][2] = 0 - r
<1> DEFINE w == Width(r)
<1>1. w \in Nat /\ w >= 5
  BY DEF Width
<1>2. 25 <= w * w /\ 125 <= Volume(r) /\ Volume(r) \in Nat
  <2>1. 5 * 5 <= w * w /\ 5 * 5 * 5 <= w * w * w
    BY <1>1, Squares
  <2> QED BY <2>1, WidthFacts DEF Volume
<1>3. PICK a, b, c \in Digits(r) : 11 = Place(r, a, b, c)
  <2>1. 11 \in 1 .. Volume(r)
    BY <1>2
  <2> QED BY <2>1, PlaceOf
<1>4. /\ a \in Nat /\ b \in Nat /\ c \in Nat
      /\ 10 = (((a * w) + b) * w) + c
  <2>1. a \in Nat /\ b \in Nat /\ c \in Nat
    BY <1>1 DEF Digits
  <2>2. 11 = (((a * w) + b) * w) + c + 1
    BY <1>3 DEF Place
  <2>3. ((a * w) + b) * w \in Nat
    BY <1>1, <2>1
  <2> QED BY <2>1, <2>2, <2>3
<1> HIDE DEF w
<1>5. a = 0
  <2> SUFFICES ASSUME a >= 1 PROVE FALSE
    BY <1>4
  <2>1. (a - 1) * w \in Nat /\ a * w = ((a - 1) * w) + w
    BY <1>1, <1>4
  <2> DEFINE q == (a * w) + b
  <2>2. q \in Nat /\ q >= 5
    BY <1>1, <1>4, <2>1
  <2>3. 10 = (q * w) + c
    BY <1>4
  <2> HIDE DEF q
  <2>4. (q - 5) * w \in Nat /\ q * w = ((q - 5) * w) + (5 * w)
    BY <1>1, <2>2
  <2>5. 5 * w >= 25
    BY <1>1
  <2> QED BY <1>1, <1>4, <2>3, <2>4, <2>5
<1>6. Cube(r)[11] = <<b - r, 0 - r, c - r>>
  BY <1>3, <1>5, CubeAtPlace
<1>7. 11 < Centre(r)
  <2>1. Centre(r) = (((r * w) + r) * w) + r + 1
    BY DEF Centre, Place, w
  <2>2. (r - 2) * w \in Nat /\ r * w = ((r - 2) * w) + (2 * w)
    BY <1>1
  <2> DEFINE q == (r * w) + r
  <2>3. q \in Nat /\ q >= 12
    BY <1>1, <2>2
  <2>4. Centre(r) = (q * w) + r + 1
    BY <2>1
  <2> HIDE DEF q
  <2>5. (q - 12) * w \in Nat /\ q * w = ((q - 12) * w) + (12 * w)
    BY <1>1, <2>3
  <2> QED BY <1>1, <2>4, <2>5
<1>8. Moore(r)[11] = Cube(r)[11]
  <2>1. 11 \in 1 .. Volume(r) - 1
    BY <1>2
  <2> QED BY <1>7, <2>1, MooreFacts
<1>9. b - r \in Int /\ 0 - r \in Int /\ c - r \in Int
  BY <1>4
<1> QED BY <1>6, <1>8, <1>9 DEF Triples

\* drawGrid finds the three neighbours it draws to in a Moore habitat of any radius
\* but 0, and in no other; for every radius below the size of the lattice they are
\* the sides of the cell exactly if the radius is 1.
THEOREM TheGridMeetsNeighbours == Spec => []GridMeetsNeighbours
<1>1. ASSUME NEW x \in Coords, x > 0 PROVE Wrap(x + (-1)) = x - 1
  <2>1. Size \in Nat \ {0} /\ x - 1 \in 0 .. Size - 1 /\ x + (-1) = (0 * Size) + (x - 1)
    BY <1>1, LatticeAssumption DEF Coords
  <2> QED BY <2>1, DivModOf DEF Wrap
<1>2. ASSUME NEW x \in Coords PROVE Wrap(x + 0) = x
  <2>1. Size \in Nat \ {0} /\ x \in 0 .. Size - 1 /\ x + 0 = (0 * Size) + x
    BY LatticeAssumption DEF Coords
  <2> QED BY <2>1, DivModOf DEF Wrap
<1>3. BuildInv /\ Built => (Drawn \subseteq DOMAIN indices <=> moore /\ radius > 0)
  <2> SUFFICES ASSUME BuildInv, Built
               PROVE  Drawn \subseteq DOMAIN indices <=> moore /\ radius > 0
    OBVIOUS
  <2>1. radius \in Nat /\ indices = IF moore THEN Moore(radius) ELSE Neumann(radius)
    BY DEF BuildInv, Built
  <2>2. CASE ~moore
    <3>1. DOMAIN indices = 1 .. 6
      BY <2>1, <2>2 DEF Neumann
    <3> QED BY <2>2, <3>1 DEF Drawn
  <2>3. CASE moore
    <3>1. DOMAIN indices = 1 .. Volume(radius) - 1
      <4>1. indices \in Seq(Triples) /\ Len(indices) = Volume(radius) - 1
        BY <2>1, <2>3, MooreFacts DEF Offsets
      <4> QED BY <4>1
    <3>2. CASE radius = 0
      <4>1. Volume(radius) = 1
        BY <3>2 DEF Volume, Width
      <4> QED BY <3>1, <3>2, <4>1 DEF Drawn
    <3>3. CASE radius > 0
      <4>1. Width(radius) \in Nat /\ Width(radius) >= 3
        BY <2>1, <3>3 DEF Width
      <4>2. 3 * 3 * 3 <= Volume(radius) /\ Volume(radius) \in Nat
        BY <2>1, <4>1, Squares, WidthFacts DEF Volume
      <4>3. {11, 5, 13} \subseteq 1 .. Volume(radius) - 1
        BY <4>2
      <4> QED BY <2>3, <3>1, <3>3, <4>3 DEF Drawn
    <3> QED BY <2>1, <3>2, <3>3
  <2> QED BY <2>2, <2>3
<1>4. ASSUME BuildInv, Built, moore, radius = 1 PROVE DrawnAreSides
  <2> SUFFICES ASSUME NEW c \in Cells
               PROVE  /\ c[1] > 0 => habitat[c][11] = <<c[1] - 1, c[2], c[3]>>
                      /\ c[2] > 0 => habitat[c][5]  = <<c[1], c[2] - 1, c[3]>>
                      /\ c[3] > 0 => habitat[c][13] = <<c[1], c[2], c[3] - 1>>
    BY DEF DrawnAreSides
  <2>1. indices = Moore(1)
    BY <1>4 DEF BuildInv, Built
  <2>2. /\ habitat[c][11] = Neighbour(c, <<-1, 0, 0>>)
        /\ habitat[c][5] = Neighbour(c, <<0, -1, 0>>)
        /\ habitat[c][13] = Neighbour(c, <<0, 0, -1>>)
    BY <1>4, <2>1, DrawnOfOne DEF BuildInv, Built, Drawn
  <2>3. c[1] \in Coords /\ c[2] \in Coords /\ c[3] \in Coords
    BY DEF Cells
  <2> QED BY <1>1, <1>2, <2>2, <2>3 DEF Neighbour
<1>5. ASSUME BuildInv, Built, moore, radius \in 2 .. Size - 1 PROVE ~DrawnAreSides
  <2> DEFINE c == <<1, 0, 0>>
             o == Moore(radius)[11]
  <2>1. Size \in Nat /\ radius \in Nat /\ radius >= 2 /\ radius < Size
    BY <1>5, LatticeAssumption
  <2>2. c \in Cells
    BY <2>1 DEF Cells, Coords
  <2>3. indices = Moore(radius) /\ 11 \in DOMAIN indices
    BY <1>3, <1>5, <2>1 DEF BuildInv, Built, Drawn
  <2>4. habitat[c][11] = Neighbour(c, o)
    BY <1>5, <2>2, <2>3 DEF BuildInv, Built
  <2>5. o[2] = 0 - radius
    BY <2>1, DrawnOfMore
  <2> HIDE DEF o
  <2>6. habitat[c][11][2] = Wrap(0 - radius)
    BY <2>1, <2>4, <2>5 DEF Neighbour
  <2>7. Wrap(0 - radius) = Size - radius
    <3>1. -1 \in Int /\ Size \in Nat \ {0} /\ Size - radius \in 0 .. Size - 1
      BY <2>1
    <3>2. (((-1) * Size) + (Size - radius)) % Size = Size - radius
      BY <3>1, DivModOf
    <3>3. ((-1) * Size) + (Size - radius) = 0 - radius
      BY <2>1
    <3> QED BY <3>2, <3>3 DEF Wrap
  <2>8. ASSUME DrawnAreSides PROVE FALSE
    <3>1. habitat[c][11] = <<1 - 1, 0, 0>>
      BY <2>2, <2>8 DEF DrawnAreSides
    <3> QED BY <2>1, <2>6, <2>7, <3>1
  <2> QED BY <2>8
<1>6. BuildInv => GridMeetsNeighbours
  <2> SUFFICES ASSUME BuildInv, Built, moore, radius \in 1 .. Size - 1
               PROVE  DrawnAreSides <=> radius = 1
    BY <1>3 DEF GridMeetsNeighbours
  <2>1. radius = 1 \/ radius \in 2 .. Size - 1
    BY LatticeAssumption
  <2> QED BY <1>4, <1>5, <2>1
<1> QED BY <1>6, Building, PTL

\* A direction in which a box is not thin has a place that is on neither of the
\* faces wireCube looks for: the far face itself, unless the box begins at 0.
Unmarked(corner, extent) == IF corner = 0 THEN 1 ELSE corner + extent - 1

LEMMA UnmarkedFacts ==
  ASSUME NEW corner \in Int, NEW extent \in Int, ~Thin(corner, extent)
  PROVE  LET x == Unmarked(corner, extent)
         IN  /\ x \in Int /\ x \in corner .. corner + extent - 1
             /\ x # corner /\ x # extent - 1
             /\ corner \in corner .. corner + extent - 1
             /\ corner # 0 => x + 1 \notin corner .. corner + extent - 1
  BY DEF Unmarked, Thin

\* The seed of wireCube is the surface of its box for every box at the origin and
\* every thin one, and of no other that fits into the lattice.
THEOREM SeedsAreSurfaces == Spec => []SeedIsSurface
<1> DEFINE Bare(x, y, z) == \E d \in {-1, 1} : \/ ~InBox(x + d, y, z)
                                                \/ ~InBox(x, y + d, z)
                                                \/ ~InBox(x, y, z + d)
           Near(x, y, z) == x = box.left \/ y = box.top \/ z = box.front
           Far(x, y, z) == x = box.width - 1 \/ y = box.height - 1 \/ z = box.depth - 1
           AtOrigin == box.left = 0 /\ box.top = 0 /\ box.front = 0
           ThinBox == \/ Thin(box.left, box.width) \/ Thin(box.top, box.height)
                      \/ Thin(box.front, box.depth)
<1>1. BuildInv => /\ box.left \in Int /\ box.top \in Int /\ box.front \in Int
                  /\ box.width \in Int /\ box.height \in Int /\ box.depth \in Int
  BY LatticeAssumption DEF BuildInv
<1>2. ASSUME BuildInv, Built, NEW c \in Cells
      PROVE  /\ c[1] \in Int /\ c[2] \in Int /\ c[3] \in Int /\ c = <<c[1], c[2], c[3]>>
             /\ c \in alive <=> /\ InBox(c[1], c[2], c[3])
                                /\ Near(c[1], c[2], c[3]) \/ Far(c[1], c[2], c[3])
  <2>1. c[1] \in Int /\ c[2] \in Int /\ c[3] \in Int /\ c = <<c[1], c[2], c[3]>>
    BY LatticeAssumption DEF Cells, Coords
  <2>2. alive = WireCube(box)
    BY <1>2 DEF BuildInv, Built
  <2>3. c \in WireCube(box) <=> /\ InBox(c[1], c[2], c[3])
                                /\ Near(c[1], c[2], c[3]) \/ Far(c[1], c[2], c[3])
    BY <2>1 DEF WireCube, InBox
  <2> QED BY <2>1, <2>2, <2>3
<1>3. ASSUME BuildInv, Built, AtOrigin \/ ThinBox PROVE alive = Surface
  <2>1. ASSUME NEW x \in Int, NEW y \in Int, NEW z \in Int, InBox(x, y, z)
        PROVE  Near(x, y, z) \/ Far(x, y, z) <=> Bare(x, y, z)
    <3>1. Bare(x, y, z) <=> \/ ~InBox(x - 1, y, z) \/ ~InBox(x, y - 1, z) \/ ~InBox(x, y, z - 1)
                            \/ ~InBox(x + 1, y, z) \/ ~InBox(x, y + 1, z) \/ ~InBox(x, y, z + 1)
      <4>1. x + (-1) = x - 1 /\ y + (-1) = y - 1 /\ z + (-1) = z - 1
        OBVIOUS
      <4> QED BY <4>1
    <3> HIDE DEF Bare
    <3>2. CASE AtOrigin
      BY <1>1, <1>3, <2>1, <3>1, <3>2 DEF InBox
    <3>3. CASE Thin(box.left, box.width)
      BY <1>1, <1>3, <2>1, <3>1, <3>3 DEF InBox, Thin
    <3>4. CASE Thin(box.top, box.height)
      BY <1>1, <1>3, <2>1, <3>1, <3>4 DEF InBox, Thin
    <3>5. CASE Thin(box.front, box.depth)
      BY <1>1, <1>3, <2>1, <3>1, <3>5 DEF InBox, Thin
    <3> QED BY <1>3, <3>2, <3>3, <3>4, <3>5
  <2>2. alive \subseteq Cells
    BY <1>3 DEF BuildInv, Built
  <2>3. Surface = {c \in Cells : InBox(c[1], c[2], c[3]) /\ Bare(c[1], c[2], c[3])}
    BY DEF Surface
  <2> HIDE DEF Bare, Near, Far
  <2>4. ASSUME NEW c \in Cells PROVE c \in alive <=> InBox(c[1], c[2], c[3]) /\ Bare(c[1], c[2], c[3])
    BY <1>2, <1>3, <2>1
  <2> QED BY <2>2, <2>3, <2>4
<1>4. ASSUME BuildInv, Built, ~AtOrigin, ~ThinBox PROVE alive # Surface
  <2> DEFINE x == Unmarked(box.left, box.width)
             y == Unmarked(box.top, box.height)
             z == Unmarked(box.front, box.depth)
             c == <<x, y, z>>
  <2>1. /\ x \in Int /\ x \in box.left .. box.left + box.width - 1
        /\ x # box.left /\ x # box.width - 1
        /\ box.left \in box.left .. box.left + box.width - 1
        /\ box.left # 0 => x + 1 \notin box.left .. box.left + box.width - 1
    BY <1>1, <1>4, UnmarkedFacts
  <2>2. /\ y \in Int /\ y \in box.top .. box.top + box.height - 1
        /\ y # box.top /\ y # box.height - 1
        /\ box.top \in box.top .. box.top + box.height - 1
        /\ box.top # 0 => y + 1 \notin box.top .. box.top + box.height - 1
    BY <1>1, <1>4, UnmarkedFacts
  <2>3. /\ z \in Int /\ z \in box.front .. box.front + box.depth - 1
        /\ z # box.front /\ z # box.depth - 1
        /\ box.front # 0 => z + 1 \notin box.front .. box.front + box.depth - 1
    BY <1>1, <1>4, UnmarkedFacts
  <2> HIDE DEF x, y, z
  <2>4. c \in Cells
    <3>1. <<x, box.top, z>> \in WireCube(box) /\ <<box.left, y, z>> \in WireCube(box)
      BY <2>1, <2>2, <2>3 DEF WireCube
    <3>2. <<x, box.top, z>> \in Cells /\ <<box.left, y, z>> \in Cells
      BY <1>4, <3>1 DEF BuildInv, Built
    <3> QED BY <3>2 DEF Cells
  <2>5. c \notin alive
    <3>1. ~Near(c[1], c[2], c[3]) /\ ~Far(c[1], c[2], c[3])
      BY <2>1, <2>2, <2>3
    <3> HIDE DEF Near, Far, c
    <3> QED BY <1>2, <1>4, <2>4, <3>1
  <2>6. c \in Surface
    <3>1. InBox(c[1], c[2], c[3])
      BY <2>1, <2>2, <2>3 DEF InBox
    <3>2. ~InBox(c[1] + 1, c[2], c[3]) \/ ~InBox(c[1], c[2] + 1, c[3]) \/ ~InBox(c[1], c[2], c[3] + 1)
      BY <1>4, <2>1, <2>2, <2>3 DEF InBox
    <3> HIDE DEF c
    <3> QED BY <2>4, <3>1, <3>2 DEF Surface
  <2> QED BY <2>5, <2>6
<1>5. BuildInv => SeedIsSurface
  <2> SUFFICES ASSUME BuildInv, Built PROVE alive = Surface <=> AtOrigin \/ ThinBox
    BY DEF SeedIsSurface
  <2> HIDE DEF AtOrigin, ThinBox
  <2> QED BY <1>3, <1>4
<1> QED BY <1>5, Building, PTL
=============================================================================
