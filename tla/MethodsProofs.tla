--------------------------- MODULE MethodsProofs ---------------------------
(***************************************************************************)
(* What Methods promises for any methods, messages, patterns and           *)
(* deletions, in any number: the linked list is at every moment the list   *)
(* of what is registered, a deletion leaves nothing it was asked to        *)
(* remove, and freed memory is used in one case only; a message is         *)
(* given to the methods it is for, in their order, whatever its handlers   *)
(* do to the list; and a listing of a path names each method there once.   *)
(* And what Matching promises: the answer of lo_pattern_match is what the  *)
(* pattern means.                                                          *)
(*                                                                         *)
(* The invariant says where in the list the local variables it and prev    *)
(* of the code are, and what the walk of dispatch_method has called by the *)
(* time it is at a node.  What a pattern matches is not looked at there.   *)
(*                                                                         *)
(* The matcher is unfolded from the end of the pattern: where each item    *)
(* begins, the code matches what the items from there on mean.             *)
(***************************************************************************)
EXTENDS Matching, SequenceTheorems, WellFoundedInduction, TLAPS

----------------------------------------------------------------------------
(* Sequences *)

LEMMA SeqFacts ==
  ASSUME NEW S, NEW s \in Seq(S)
  PROVE  Len(s) \in Nat /\ DOMAIN s = 1 .. Len(s) /\ \A i \in DOMAIN s : s[i] \in S
  OBVIOUS

LEMMA Appended ==
  ASSUME NEW S, NEW s \in Seq(S), NEW e \in S
  PROVE  /\ Append(s, e) \in Seq(S) /\ Len(Append(s, e)) = Len(s) + 1
         /\ DOMAIN Append(s, e) = 1 .. Len(s) + 1
         /\ \A i \in 1 .. Len(s) : Append(s, e)[i] = s[i]
         /\ Append(s, e)[Len(s) + 1] = e
  OBVIOUS

\* The sequence without its k-th element, which is in it once.
LEMMA Removed ==
  ASSUME NEW S, NEW s \in Seq(S), NEW k \in 1 .. Len(s),
         \A i \in 1 .. Len(s) : s[i] = s[k] => i = k
  PROVE  LET r == RemoveFirst(s, s[k])
         IN  /\ r \in Seq(S) /\ Len(r) = Len(s) - 1 /\ DOMAIN r = 1 .. Len(s) - 1
             /\ \A i \in 1 .. Len(s) - 1 : r[i] = IF i < k THEN s[i] ELSE s[i + 1]
<1>1. {i \in 1 .. Len(s) : s[i] = s[k]} = {k}
  OBVIOUS
<1>2. SelectInSeq(s, LAMBDA v: v = s[k]) = k
  BY <1>1 DEF SelectInSeq, Min
<1>3. RemoveFirst(s, s[k]) = RemoveAt(s, k)
  BY <1>2 DEF RemoveFirst
<1> DEFINE front == SubSeq(s, 1, k - 1)
           back  == SubSeq(s, k + 1, Len(s))
<1>4. Len(s) \in Nat /\ \A i \in 1 .. Len(s) : s[i] \in S
  OBVIOUS
<1>5. front \in Seq(S) /\ Len(front) = k - 1 /\ \A i \in 1 .. k - 1 : front[i] = s[i]
  BY <1>4, SubSeqProperties
<1>6. /\ back \in Seq(S) /\ Len(back) = Len(s) - k
      /\ \A i \in 1 .. Len(s) - k : back[i] = s[k + i]
  BY <1>4, SubSeqProperties
<1>7. RemoveAt(s, k) = front \o back
  BY DEF RemoveAt
<1> HIDE DEF front, back
<1>8. /\ front \o back \in Seq(S) /\ Len(front \o back) = Len(front) + Len(back)
      /\ \A i \in 1 .. Len(front) + Len(back) :
           (front \o back)[i] = IF i <= Len(front) THEN front[i] ELSE back[i - Len(front)]
  BY <1>5, <1>6, ConcatProperties
<1> DEFINE r == front \o back
<1>9. Len(r) = Len(s) - 1 /\ r \in Seq(S)
  BY <1>4, <1>5, <1>6, <1>8
<1>10. DOMAIN r = 1 .. Len(s) - 1
  BY <1>9
<1>11. ASSUME NEW i \in 1 .. Len(s) - 1
       PROVE  r[i] = IF i < k THEN s[i] ELSE s[i + 1]
  <2>1. r[i] = IF i <= k - 1 THEN front[i] ELSE back[i - (k - 1)]
    BY <1>4, <1>5, <1>6, <1>8
  <2>2. CASE i < k
    BY <2>1, <2>2, <1>4, <1>5
  <2>3. CASE ~(i < k)
    <3>1. i - (k - 1) \in 1 .. Len(s) - k /\ k + (i - (k - 1)) = i + 1 /\ ~(i <= k - 1)
      BY <2>3, <1>4
    <3> QED BY <2>1, <2>3, <3>1, <1>6
  <2> QED BY <2>2, <2>3
<1> HIDE DEF r
<1> QED BY <1>3, <1>7, <1>9, <1>10, <1>11 DEF r

----------------------------------------------------------------------------
(* The list *)

ListTyped ==
    /\ spec \in Seq(Specs)
    /\ next \in Seq(Nat) /\ Len(next) = Len(spec)
    /\ table \in Seq(Nat) /\ \A i \in DOMAIN table : table[i] \in 1 .. Len(spec)
    /\ freed \subseteq 1 .. Len(spec)
    /\ op \in {"none", "add", "del"}

\* Nodes stand in the list in the order in which they were made.
InOrder == \A i, j \in DOMAIN table : i < j => table[i] < table[j]

After(i) == IF i = Len(table) THEN Null ELSE table[i + 1]

Linked ==
    /\ first = IF table = <<>> THEN Null ELSE table[1]
    /\ \A i \in DOMAIN table : next[table[i]] = After(i) /\ table[i] \notin freed

\* lo_server_add_method is on its way to the end of the list with a new node.
AddOK == op = "add" =>
    /\ \E k \in DOMAIN table : it = table[k]
    /\ \A i \in DOMAIN table : table[i] < Len(spec)
    /\ Len(spec) \in 1 .. Len(spec) /\ next[Len(spec)] = Null /\ Len(spec) \notin freed

\* lo_server_del_method is at the k-th node of the list, and prev is the one before
\* it; unless k is 1, when prev may be freed, but is not looked at.
AtPlace(k) ==
    /\ it = IF k \in DOMAIN table THEN table[k] ELSE Null
    /\ k > 1 => prev = table[k - 1]
    /\ \A i \in 1 .. k - 1 : ~Condemned(table[i])

DelOK == op = "del" => \E k \in 1 .. Len(table) + 1 : AtPlace(k)

ListInv == ListTyped /\ InOrder /\ Linked /\ AddOK /\ DelOK

LEMMA ListInit == Init => ListInv
<1> SUFFICES ASSUME Init PROVE ListInv
  OBVIOUS
<1>1. /\ spec = <<>> /\ next = <<>> /\ table = <<>> /\ freed = {} /\ op = "none" /\ first = Null
  BY DEF Init
<1>2. ListTyped
  BY <1>1 DEF ListTyped
<1> QED BY <1>1, <1>2 DEF ListInv, InOrder, Linked, AddOK, DelOK

LEMMA Facts ==
  ASSUME ListInv
  PROVE  /\ Len(spec) \in Nat /\ DOMAIN spec = 1 .. Len(spec)
         /\ next \in Seq(Nat) /\ Len(next) = Len(spec) /\ DOMAIN next = 1 .. Len(spec)
         /\ table \in Seq(Nat) /\ Len(table) \in Nat /\ DOMAIN table = 1 .. Len(table)
         /\ \A i \in 1 .. Len(table) : table[i] \in 1 .. Len(spec) /\ table[i] \in Nat
         /\ \A i, j \in 1 .. Len(table) : table[i] = table[j] => i = j
         /\ table = <<>> <=> Len(table) = 0
<1>1. /\ spec \in Seq(Specs) /\ next \in Seq(Nat) /\ Len(next) = Len(spec) /\ table \in Seq(Nat)
      /\ \A i \in DOMAIN table : table[i] \in 1 .. Len(spec)
  BY DEF ListInv, ListTyped
<1>2. Len(spec) \in Nat /\ DOMAIN spec = 1 .. Len(spec) /\ DOMAIN next = 1 .. Len(spec)
  BY <1>1
<1>3. Len(table) \in Nat /\ DOMAIN table = 1 .. Len(table) /\ (table = <<>> <=> Len(table) = 0)
  BY <1>1
<1>4. \A i \in 1 .. Len(table) : table[i] \in 1 .. Len(spec) /\ table[i] \in Nat
  BY <1>1, <1>2, <1>3
<1>5. ASSUME NEW i \in 1 .. Len(table), NEW j \in 1 .. Len(table), table[i] = table[j]
      PROVE  i = j
  BY <1>3, <1>4, <1>5 DEF ListInv, InOrder
<1> QED BY <1>1, <1>2, <1>3, <1>4, <1>5

LEMMA AddStep == ListInv /\ Add => ListInv'
<1> SUFFICES ASSUME ListInv, Add PROVE ListInv'
  OBVIOUS
<1>1. PICK sp \in Specs :
          /\ MayChange
          /\ spec' = Append(spec, sp) /\ next' = Append(next, Null)
          /\ IF first = Null
               THEN /\ first' = Len(spec')
                    /\ table' = Append(table, Len(spec'))
                    /\ UNCHANGED <<op, it>>
               ELSE op' = "add" /\ it' = first /\ UNCHANGED <<first, table>>
          /\ UNCHANGED <<freed, prev, del>>
  BY DEF Add
<1> DEFINE n == Len(spec) + 1
<1>2. /\ spec' \in Seq(Specs) /\ Len(spec') = n /\ Len(spec) \in Nat
  BY <1>1 DEF ListInv, ListTyped
<1>3. /\ next' \in Seq(Nat) /\ Len(next') = n /\ DOMAIN next' = 1 .. n
      /\ \A i \in 1 .. Len(spec) : next'[i] = next[i]
      /\ next'[n] = Null
  <2>1. next \in Seq(Nat) /\ Null \in Nat /\ Len(next) = Len(spec)
    BY DEF ListInv, ListTyped, Null
  <2> QED BY <2>1, <1>1, <1>2, Appended
<1>4. n \notin freed /\ freed' = freed /\ freed \subseteq 1 .. n
  BY <1>1, <1>2 DEF ListInv, ListTyped
<1>5. op = "none"
  BY <1>1 DEF MayChange
<1>6. CASE first = Null
  <2>1. table = <<>>
    <3> SUFFICES ASSUME table # <<>> PROVE FALSE
      OBVIOUS
    <3>1. first = table[1] /\ table[1] \in 1 .. Len(spec)
      BY Facts DEF ListInv, Linked
    <3> QED BY <3>1, <1>6, <1>2 DEF Null
  <2>2. table' = <<n>> /\ first' = n /\ op' = "none"
    BY <2>1, <1>1, <1>2, <1>5, <1>6
  <2>3. /\ table' \in Seq(Nat) /\ Len(table') = 1 /\ DOMAIN table' = {1} /\ table'[1] = n
        /\ table' # <<>>
    BY <2>2, <1>2
  <2> HIDE DEF n
  <2>4. ListTyped'
    BY <2>2, <2>3, <1>1, <1>2, <1>3, <1>4 DEF ListTyped, n
  <2>5. InOrder'
    BY <2>3 DEF InOrder
  <2>6. Linked'
    BY <2>2, <2>3, <1>3, <1>4 DEF Linked, After
  <2> QED BY <2>2, <2>4, <2>5, <2>6 DEF ListInv, AddOK, DelOK
<1>7. CASE first # Null
  <2>1. table' = table /\ first' = first /\ op' = "add" /\ it' = first
    BY <1>1, <1>7
  <2>2. /\ Len(table) \in Nat \ {0} /\ DOMAIN table = 1 .. Len(table)
        /\ first = table[1] /\ 1 \in DOMAIN table
        /\ \A i \in DOMAIN table : table[i] \in 1 .. Len(spec)
    BY <1>7, Facts DEF ListInv, Linked
  <2>3. ListTyped'
    BY <2>1, <2>2, <1>2, <1>3, <1>4 DEF ListInv, ListTyped
  <2>4. InOrder'
    BY <2>1 DEF ListInv, InOrder
  <2>5. Linked'
    BY <2>1, <2>2, <1>3, <1>4 DEF ListInv, Linked, After
  <2>6. AddOK'
    BY <2>1, <2>2, <1>2, <1>3, <1>4 DEF AddOK
  <2> QED BY <2>1, <2>3, <2>4, <2>5, <2>6 DEF ListInv, DelOK
<1> QED BY <1>6, <1>7

\* At the end of the list the new node is linked, and it is in the list then.
LEMMA WalkStep == ListInv /\ Walk => ListInv' /\ ~undefined'
<1> SUFFICES ASSUME ListInv, Walk PROVE ListInv' /\ ~undefined'
  OBVIOUS
<1>1. op = "add" /\ undefined' = (it \in freed) /\ UNCHANGED <<first, spec, freed, prev, del>>
  BY DEF Walk
<1>2. PICK k \in 1 .. Len(table) : it = table[k]
  BY <1>1, Facts DEF ListInv, AddOK
<1>3. it \notin freed /\ next[it] = After(k) /\ it \in 1 .. Len(spec)
  BY <1>2, Facts DEF ListInv, Linked
<1>4. /\ \A i \in 1 .. Len(table) : table[i] < Len(spec)
      /\ Len(spec) \in 1 .. Len(spec) /\ next[Len(spec)] = Null /\ Len(spec) \notin freed
  BY <1>1, Facts DEF ListInv, AddOK
<1> DEFINE len == Len(table)
<1>5. len \in Nat /\ DOMAIN table = 1 .. len /\ Len(spec) \in Nat /\ len = Len(table)
  BY Facts
<1>6. len \in Nat
  BY <1>5
<1>7. table \in Seq(Nat)
  BY Facts
<1> HIDE DEF len
<1>8. \A i \in 1 .. len : table[i] \in Nat /\ table[i] \in 1 .. Len(spec)
  BY <1>5, Facts
<1>9. \A i, j \in 1 .. len : table[i] = table[j] => i = j
  BY <1>5, Facts
<1>10. \A i, j \in 1 .. len : i < j => table[i] < table[j]
  BY <1>5 DEF ListInv, InOrder
<1>11. \A i \in 1 .. len : /\ next[table[i]] = IF i = len THEN Null ELSE table[i + 1]
                           /\ table[i] \notin freed
  BY <1>5 DEF ListInv, Linked, After
<1>12. k \in 1 .. len /\ next[it] = IF k = len THEN Null ELSE table[k + 1]
  BY <1>2, <1>5, <1>11
<1>13. \A i \in 1 .. len : table[i] < Len(spec)
  BY <1>4, <1>5
<1>14. it = table[k] /\ \A i \in 1 .. len : table[i] # 0
  BY <1>2, <1>8, <1>6
<1>15. first = table[1]
  <2>1. table # <<>>
    BY Facts
  <2> QED BY <2>1 DEF ListInv, Linked
<1>16. CASE /\ next[it] # Null /\ it' = next[it] /\ UNCHANGED <<op, next, table>>
  <2>1. k + 1 \in 1 .. len /\ it' = table[k + 1]
    BY <1>16, <1>6, <1>12
  <2>2. AddOK'
    BY <2>1, <1>1, <1>4, <1>16, <1>5 DEF AddOK
  <2>3. ListTyped' /\ InOrder'
    BY <1>1, <1>16 DEF ListInv, ListTyped, InOrder
  <2>4. Linked'
    BY <1>1, <1>16 DEF ListInv, Linked, After
  <2> QED BY <2>2, <2>3, <2>4, <1>1, <1>3, <1>16 DEF ListInv, DelOK
<1>17. CASE /\ next[it] = Null /\ next' = [next EXCEPT ![it] = Len(spec)]
           /\ table' = Append(table, Len(spec)) /\ op' = "none" /\ it' = it
  <2>1. k = len
    <3> SUFFICES ASSUME k # len PROVE FALSE
      OBVIOUS
    <3>1. next[it] = table[k + 1] /\ k + 1 \in 1 .. len
      BY <1>6, <1>12
    <3> QED BY <3>1, <1>17, <1>14 DEF Null
  <2>2. /\ table' \in Seq(Nat) /\ Len(table') = len + 1
        /\ DOMAIN table' = 1 .. len + 1
        /\ \A i \in 1 .. len : table'[i] = table[i]
        /\ table'[len + 1] = Len(spec)
        /\ table' # <<>>
    <3>1. table' = Append(table, Len(spec))
      BY <1>17
    <3> QED BY <3>1, <1>5, <1>7, Appended
  <2>3. /\ next' \in Seq(Nat) /\ Len(next') = Len(spec) /\ DOMAIN next' = 1 .. Len(spec)
        /\ next'[it] = Len(spec)
        /\ \A m \in 1 .. Len(spec) : m # it => next'[m] = next[m]
    BY <1>3, <1>17, Facts
  <2>4. ListTyped'
    <3>1. ASSUME NEW i \in DOMAIN table' PROVE table'[i] \in 1 .. Len(spec)
      <4>1. CASE i \in 1 .. len
        BY <4>1, <2>2, <1>8
      <4>2. CASE i = len + 1
        BY <4>2, <2>2, <1>4
      <4> QED BY <4>1, <4>2, <2>2, <1>6
    <3> QED BY <3>1, <2>2, <2>3, <1>1, <1>17 DEF ListInv, ListTyped
  <2>5. InOrder'
    <3> SUFFICES ASSUME NEW i \in 1 .. len + 1, NEW j \in 1 .. len + 1, i < j
                 PROVE  table'[i] < table'[j]
      BY <2>2 DEF InOrder
    <3>1. CASE j = len + 1
      <4>1. i \in 1 .. len
        BY <3>1, <1>6
      <4> QED BY <3>1, <4>1, <2>2, <1>13
    <3>2. CASE j # len + 1
      <4>1. i \in 1 .. len /\ j \in 1 .. len
        BY <3>2, <1>6
      <4> QED BY <4>1, <2>2, <1>10
    <3> QED BY <3>1, <3>2
  <2>6. Linked'
    <3>1. first' = table'[1]
      BY <1>1, <1>12, <1>6, <1>15, <2>2
    <3>2. ASSUME NEW i \in 1 .. len + 1
          PROVE  next'[table'[i]] = After(i)' /\ table'[i] \notin freed'
      <4>1. CASE i = len + 1
        <5>1. Len(spec) # it
          BY <1>2, <1>4, Facts
        <5> QED BY <4>1, <5>1, <2>2, <2>3, <1>1, <1>4 DEF After
      <4>2. CASE i = len
        <5>1. table'[i] = it /\ it \notin freed /\ i # len + 1 /\ table'[i + 1] = Len(spec)
          BY <4>2, <2>1, <2>2, <1>3, <1>12, <1>6, <1>14
        <5> QED BY <5>1, <2>2, <2>3, <1>1 DEF After
      <4>3. CASE i \in 1 .. len - 1
        <5>1. /\ table'[i] = table[i] /\ table'[i + 1] = table[i + 1] /\ table[i] # it
              /\ i # len + 1 /\ i # len
          <6>1. i \in 1 .. len /\ i + 1 \in 1 .. len /\ i # len + 1 /\ i # len
            BY <4>3, <1>6
          <6>2. table'[i] = table[i] /\ table'[i + 1] = table[i + 1]
            BY <6>1, <2>2
          <6>3. i < k /\ k \in 1 .. len
            BY <6>1, <2>1, <1>6
          <6>4. table[i] < table[k] /\ table[i] \in Nat /\ table[k] \in Nat
            BY <6>1, <6>3, <1>8, <1>10
          <6>5. table[i] # it
            BY <6>4, <1>2
          <6> QED BY <6>1, <6>2, <6>5
        <5>2. next[table[i]] = table[i + 1] /\ table[i] \notin freed /\ table[i] \in 1 .. Len(spec)
          BY <4>3, <1>6, <1>8, <1>11
        <5> QED BY <5>1, <5>2, <2>2, <2>3, <1>1 DEF After
      <4>4. i \in 1 .. len - 1 \/ i = len \/ i = len + 1
        BY <1>6
      <4> QED BY <4>1, <4>2, <4>3, <4>4
    <3> QED BY <3>1, <3>2, <2>2 DEF Linked
  <2> QED BY <2>4, <2>5, <2>6, <1>1, <1>3, <1>17 DEF ListInv, AddOK, DelOK
<1> QED BY <1>16, <1>17 DEF Walk

LEMMA DeleteStep == ListInv /\ Delete => ListInv'
<1> SUFFICES ASSUME ListInv, Delete PROVE ListInv'
  OBVIOUS
<1>1. /\ first # Null /\ op' = "del" /\ it' = first
      /\ UNCHANGED <<first, next, spec, freed, table>>
  BY DEF Delete, list
<1>2. 1 \in 1 .. Len(table) /\ first = table[1] /\ 1 \in 1 .. Len(table) + 1
  <2>1. table # <<>>
    BY <1>1 DEF ListInv, Linked
  <2>2. Len(table) \in Nat \ {0}
    BY <2>1, Facts
  <2> QED BY <2>1, <2>2 DEF ListInv, Linked
<1>3. 1 \in DOMAIN table
  BY <1>2, Facts
<1>4. AtPlace(1)'
  BY <1>1, <1>2, <1>3 DEF AtPlace
<1>5. ListTyped' /\ InOrder'
  BY <1>1 DEF ListInv, ListTyped, InOrder
<1>6. Linked'
  BY <1>1 DEF ListInv, Linked, After
<1> QED BY <1>1, <1>2, <1>4, <1>5, <1>6 DEF ListInv, AddOK, DelOK

\* One round of the loop of lo_server_del_method, whatever stands in the list.
LEMMA VisitStep == ListInv /\ Visit => ListInv' /\ ~undefined'
<1> SUFFICES ASSUME ListInv, Visit PROVE ListInv' /\ ~undefined'
  OBVIOUS
<1> DEFINE len == Len(table)
<1>1. /\ op = "del" /\ it # Null /\ it' = next[it] /\ UNCHANGED <<spec, op, del>>
  BY DEF Visit
<1>2. len \in Nat /\ DOMAIN table = 1 .. len
  BY Facts
<1>3. PICK k \in 1 .. len + 1 : AtPlace(k)
  BY <1>1 DEF ListInv, DelOK
<1>4. k \in 1 .. len /\ it = table[k]
  BY <1>1, <1>2, <1>3 DEF AtPlace
<1>5. /\ \A i \in 1 .. len : table[i] \in Nat /\ table[i] \in 1 .. Len(spec)
      /\ \A i, j \in 1 .. len : table[i] = table[j] => i = j
  BY Facts
<1>6. \A i, j \in 1 .. len : i < j => table[i] < table[j]
  BY <1>2 DEF ListInv, InOrder
<1>7. \A i \in 1 .. len : /\ next[table[i]] = IF i = len THEN Null ELSE table[i + 1]
                          /\ table[i] \notin freed
  BY <1>2 DEF ListInv, Linked, After
<1>8. table \in Seq(Nat) /\ first = table[1] /\ 1 \in 1 .. len
  <2>1. 1 \in 1 .. len /\ len # 0
    BY <1>2, <1>4
  <2>2. table # <<>>
    BY <2>1, Facts
  <2> QED BY <2>1, <2>2, Facts DEF ListInv, Linked
<1>9. /\ k > 1 => prev = table[k - 1]
      /\ \A i \in 1 .. k - 1 : ~Condemned(table[i])
  BY <1>3 DEF AtPlace
<1>10. it' = IF k = len THEN Null ELSE table[k + 1]
  BY <1>1, <1>4, <1>7
<1>11. it \notin freed /\ it \in 1 .. Len(spec)
  BY <1>4, <1>5, <1>7
<1>12. \A n : Condemned(n)' <=> Condemned(n)
  BY <1>1 DEF Condemned, Matches, MatchTable
<1>13. table = <<>> <=> len = 0
  BY Facts
<1>14. ListTyped
  BY DEF ListInv
<1>15. len \in Nat
  BY <1>2
<1> HIDE DEF len
<1>16. CASE ~Condemned(it) /\ prev' = it /\ undefined' = (it \in freed)
            /\ UNCHANGED <<first, next, freed, table>>
  <2>1. AtPlace(k + 1)'
    <3>1. k + 1 \in 1 .. len <=> k # len
      BY <1>4, <1>15
    <3>2. it' = IF k + 1 \in DOMAIN table' THEN table'[k + 1] ELSE Null
      BY <1>2, <1>10, <1>16, <3>1
    <3>3. k + 1 > 1 => prev' = table'[k + 1 - 1]
      BY <1>4, <1>15, <1>16
    <3>4. ASSUME NEW i \in 1 .. k + 1 - 1 PROVE ~Condemned(table[i])
      <4>1. CASE i = k
        BY <4>1, <1>4, <1>16
      <4>2. CASE i # k
        <5>1. i \in 1 .. k - 1
          BY <4>2, <1>4, <1>15
        <5> QED BY <5>1, <1>9
      <4> QED BY <4>1, <4>2
    <3> QED BY <3>2, <3>3, <3>4, <1>12, <1>16 DEF AtPlace
  <2>2. k + 1 \in 1 .. len + 1
    BY <1>4, <1>15
  <2>3. DelOK'
    BY <2>1, <2>2, <1>16 DEF DelOK, len
  <2>4. ListTyped' /\ InOrder' /\ Linked'
    BY <1>1, <1>16 DEF ListInv, ListTyped, InOrder, Linked, After
  <2> QED BY <2>3, <2>4, <1>1, <1>11, <1>16 DEF ListInv, AddOK
<1>17. CASE Condemned(it) /\ Unlink /\ prev' = prev
  <2>1. /\ table' \in Seq(Nat) /\ Len(table') = len - 1 /\ DOMAIN table' = 1 .. len - 1
        /\ \A i \in 1 .. len - 1 : table'[i] = IF i < k THEN table[i] ELSE table[i + 1]
    <3>1. table' = RemoveFirst(table, table[k])
      BY <1>4, <1>17 DEF Unlink
    <3>2. \A i \in 1 .. len : table[i] = table[k] => i = k
      BY <1>4, <1>5
    <3> QED BY <3>1, <3>2, <1>4, <1>8, Removed DEF len
  <2>2. it = first <=> k = 1
    BY <1>4, <1>5, <1>8
  <2>3. k # 1 => /\ k - 1 \in 1 .. len /\ prev = table[k - 1]
                 /\ prev \notin freed /\ prev \in 1 .. Len(spec)
    <3> SUFFICES ASSUME k # 1
                 PROVE  /\ k - 1 \in 1 .. len /\ prev = table[k - 1]
                        /\ prev \notin freed /\ prev \in 1 .. Len(spec)
      OBVIOUS
    <3>1. k - 1 \in 1 .. len /\ k > 1
      BY <1>4, <1>15
    <3> QED BY <3>1, <1>5, <1>7, <1>9
  <2>4. ~undefined'
    BY <2>2, <2>3, <1>11, <1>17 DEF Unlink
  <2>5. /\ k = 1 => first' = it' /\ next' = next
        /\ k # 1 => first' = first /\ next' = [next EXCEPT ![prev] = it']
        /\ freed' = freed \cup {it}
    BY <2>2, <1>1, <1>17 DEF Unlink
  <2>6. ASSUME NEW i \in 1 .. len - 1
        PROVE  /\ table'[i] \in 1 .. Len(spec) /\ table'[i] \notin freed /\ table'[i] # it
    <3>1. CASE i < k
      <4>1. table'[i] = table[i] /\ i \in 1 .. len /\ i # k
        BY <3>1, <2>1, <1>4, <1>15
      <4> QED BY <4>1, <1>4, <1>5, <1>7
    <3>2. CASE ~(i < k)
      <4>1. table'[i] = table[i + 1] /\ i + 1 \in 1 .. len /\ i + 1 # k
        BY <3>2, <2>1, <1>4, <1>15
      <4> QED BY <4>1, <1>4, <1>5, <1>7
    <3> QED BY <3>1, <3>2
  <2>7. it' = IF k \in 1 .. len - 1 THEN table'[k] ELSE Null
    <3>1. CASE k = len
      BY <3>1, <1>10, <1>15
    <3>2. CASE k # len
      <4>1. k \in 1 .. len - 1 /\ ~(k < k)
        BY <3>2, <1>4, <1>15
      <4> QED BY <4>1, <3>2, <2>1, <1>10
    <3> QED BY <3>1, <3>2
  <2>8. next' \in Seq(Nat) /\ Len(next') = Len(spec)
    <3>1. next \in Seq(Nat) /\ Len(next) = Len(spec)
      BY <1>14 DEF ListTyped
    <3>2. it' \in Nat
      <4>1. CASE k = len
        BY <4>1, <1>10 DEF Null
      <4>2. CASE k # len
        <5>1. k + 1 \in 1 .. len
          BY <4>2, <1>4, <1>15
        <5> QED BY <5>1, <4>2, <1>5, <1>10
      <4> QED BY <4>1, <4>2
    <3>3. CASE k = 1
      BY <3>1, <3>3, <2>5
    <3>4. CASE k # 1
      BY <3>1, <3>2, <3>4, <2>3, <2>5
    <3> QED BY <3>3, <3>4
  <2>9. \A m \in 1 .. Len(spec) : (k # 1 => m # prev) => next'[m] = next[m]
    <3>1. DOMAIN next = 1 .. Len(spec)
      BY Facts
    <3> QED BY <3>1, <2>5
  <2>10. ListTyped'
    BY <2>1, <2>5, <2>6, <2>8, <1>1, <1>11, <1>14 DEF ListTyped
  <2>11. InOrder'
    <3> SUFFICES ASSUME NEW i \in 1 .. len - 1, NEW j \in 1 .. len - 1, i < j
                 PROVE  table'[i] < table'[j]
      BY <2>1 DEF InOrder
    <3> DEFINE a == IF i < k THEN i ELSE i + 1
               b == IF j < k THEN j ELSE j + 1
    <3>1. a \in 1 .. len /\ b \in 1 .. len /\ a < b
      BY <1>4, <1>15
    <3>2. table'[i] = table[a] /\ table'[j] = table[b]
      BY <2>1
    <3> HIDE DEF a, b
    <3> QED BY <3>1, <3>2, <1>6
  <2>12. Linked'
    <3>1. first' = IF table' = <<>> THEN Null ELSE table'[1]
      <4>1. table' = <<>> <=> len = 1
        BY <2>1, <1>4, <1>15
      <4>2. CASE k = 1
        BY <4>1, <4>2, <2>5, <2>7, <1>4, <1>15
      <4>3. CASE k # 1
        <5>1. 1 \in 1 .. len - 1 /\ 1 < k /\ len # 1
          BY <4>3, <1>4, <1>15
        <5> QED BY <4>1, <4>3, <5>1, <2>1, <2>5, <1>8
      <4> QED BY <4>2, <4>3
    <3>2. ASSUME NEW i \in 1 .. len - 1
          PROVE  next'[table'[i]] = IF i = len - 1 THEN Null ELSE table'[i + 1]
      <4>1. CASE i = k - 1
        <5>1. /\ k # 1 /\ i < k /\ (k \in 1 .. len - 1 <=> i # len - 1) /\ i + 1 = k
          BY <4>1, <1>4, <1>15
        <5>2. table'[i] = prev
          BY <4>1, <5>1, <2>1, <2>3
        <5>3. next'[prev] = it'
          BY <5>1, <2>3, <2>5, <1>14 DEF ListTyped
        <5> QED BY <5>1, <5>2, <5>3, <2>7
      <4>2. CASE i < k - 1
        <5>1. /\ i \in 1 .. len /\ i + 1 \in 1 .. len - 1 /\ i < k /\ i + 1 < k /\ i # len - 1
              /\ i # len /\ i # k - 1 /\ k # 1
          BY <4>2, <1>4, <1>15
        <5>2. table'[i] = table[i] /\ table'[i + 1] = table[i + 1]
          BY <5>1, <2>1
        <5>3. table[i] # prev
          BY <5>1, <2>3, <1>5
        <5>4. next'[table[i]] = next[table[i]]
          BY <5>1, <5>3, <2>9, <1>5
        <5> QED BY <5>1, <5>2, <5>4, <1>7
      <4>3. CASE i >= k
        <5>1. i + 1 \in 1 .. len /\ ~(i < k) /\ i + 1 # k - 1 /\ (i + 1 = len <=> i = len - 1)
          BY <4>3, <1>4, <1>15
        <5>2. table'[i] = table[i + 1]
          BY <5>1, <2>1
        <5>3. k # 1 => table[i + 1] # prev
          BY <5>1, <2>3, <1>5
        <5>4. next'[table[i + 1]] = next[table[i + 1]]
          BY <5>1, <5>3, <2>9, <1>5
        <5>5. next[table[i + 1]] = IF i + 1 = len THEN Null ELSE table[i + 1 + 1]
          BY <5>1, <1>7
        <5>6. i # len - 1 => table'[i + 1] = table[i + 1 + 1]
          <6> SUFFICES ASSUME i # len - 1 PROVE table'[i + 1] = table[i + 1 + 1]
            OBVIOUS
          <6>1. i + 1 \in 1 .. len - 1 /\ ~(i + 1 < k)
            BY <4>3, <1>4, <1>15
          <6> QED BY <6>1, <2>1
        <5> QED BY <5>1, <5>2, <5>4, <5>5, <5>6
      <4> QED BY <4>1, <4>2, <4>3, <1>4, <1>15
    <3> QED BY <3>1, <3>2, <2>1, <2>5, <2>6 DEF Linked, After
  <2>13. AtPlace(k)'
    <3>1. k \in 1 .. len - 1 <=> k \in DOMAIN table'
      BY <2>1
    <3>2. k > 1 => prev' = table'[k - 1]
      <4> SUFFICES ASSUME k > 1 PROVE prev' = table'[k - 1]
        OBVIOUS
      <4>1. k - 1 \in 1 .. len - 1 /\ k - 1 < k /\ k # 1
        BY <1>4, <1>15
      <4> QED BY <4>1, <2>1, <2>3, <1>17
    <3>3. ASSUME NEW i \in 1 .. k - 1 PROVE ~Condemned(table'[i])
      <4>1. i \in 1 .. len - 1 /\ i < k
        BY <1>4, <1>15
      <4> QED BY <4>1, <2>1, <1>9
    <3> QED BY <3>1, <3>2, <3>3, <2>7, <1>12 DEF AtPlace
  <2>14. k \in 1 .. Len(table') + 1
    BY <2>1, <1>4, <1>15
  <2> QED BY <2>4, <2>10, <2>11, <2>12, <2>13, <2>14, <1>1 DEF ListInv, AddOK, DelOK
<1> QED BY <1>16, <1>17 DEF Visit

LEMMA SameList == ListInv /\ UNCHANGED <<list, op, it, prev, del>> => ListInv'
<1> SUFFICES ASSUME ListInv, UNCHANGED <<list, op, it, prev, del>> PROVE ListInv'
  OBVIOUS
<1>1. UNCHANGED <<first, next, spec, freed, table, op, it, prev, del>>
  BY DEF list
<1>2. ListTyped' /\ InOrder' /\ Linked' /\ AddOK'
  BY <1>1 DEF ListInv, ListTyped, InOrder, Linked, AddOK, After
<1>3. \A k : AtPlace(k)' <=> AtPlace(k)
  BY <1>1 DEF AtPlace, Condemned, Matches, MatchTable
<1>4. DelOK'
  BY <1>1, <1>3 DEF ListInv, DelOK
<1> QED BY <1>2, <1>4 DEF ListInv

LEMMA DeletedStep == ListInv /\ Deleted => ListInv'
<1> SUFFICES ASSUME ListInv, Deleted PROVE ListInv'
  OBVIOUS
<1>1. UNCHANGED <<first, next, spec, freed, table>> /\ op' = "none"
  BY DEF Deleted, list
<1> QED BY <1>1 DEF ListInv, ListTyped, InOrder, Linked, AddOK, DelOK, After

\* Every step keeps the list as it should be, and only a handler that returns
\* to a freed node, or an echo of coerced arguments, uses what it must not.
LEMMA ListStep == ListInv /\ [Next]_vars => ListInv'
<1>1. ASSUME ListInv, Dispatch \/ Unnamed \/ Method \/ Return \/ End \/ UNCHANGED vars
      PROVE  ListInv'
  <2>1. UNCHANGED <<list, op, it, prev, del>>
    BY <1>1 DEF Dispatch, Unnamed, Method, Return, End, change, vars
  <2> QED BY <2>1, <1>1, SameList
<1> QED BY <1>1, AddStep, WalkStep, DeleteStep, VisitStep, DeletedStep DEF Next

----------------------------------------------------------------------------
(* The walk of dispatch_method *)

\* Who is called last is the node the walk is at, and argv is gone only after
\* a call.
WalkInv ==
    /\ \E S : called \in Seq(S)
    /\ pc \in {"idle", "method", "handler", "end"}
    /\ op # "none" => pc \in {"idle", "handler"}
    /\ ~argv => called # <<>>
    /\ pc = "handler" => Last(called).node = at
    /\ argv \in BOOLEAN
    /\ UndefinedExplained

LEMMA WalkInit == Init => WalkInv
<1> SUFFICES ASSUME Init PROVE WalkInv
  OBVIOUS
<1>1. called \in Seq({})
  BY DEF Init
<1> QED BY <1>1 DEF Init, WalkInv, UndefinedExplained

LEMMA Extended ==
  ASSUME NEW S, NEW s \in Seq(S), NEW e
  PROVE  /\ Append(s, e) \in Seq(S \cup {e}) /\ Append(s, e) # <<>>
         /\ Last(Append(s, e)) = e
<1>1. s \in Seq(S \cup {e})
  OBVIOUS
<1>2. /\ Append(s, e) \in Seq(S \cup {e}) /\ Len(Append(s, e)) = Len(s) + 1
      /\ Append(s, e)[Len(s) + 1] = e /\ Len(s) \in Nat
  BY <1>1, Appended
<1> QED BY <1>2 DEF Last

\* Whoever changes the list leaves the walk alone.
LEMMA ChangeKeepsWalk ==
  ASSUME ListInv, WalkInv, Add \/ Walk \/ Delete \/ Visit \/ Deleted
  PROVE  WalkInv'
<1>1. ~undefined' /\ UNCHANGED <<called, pc, argv, at>> /\ (op' # "none" => pc \in {"idle", "handler"})
  <2>1. CASE Add \/ Delete
    BY <2>1 DEF Add, Delete, MayChange, dispatch
  <2>2. CASE Walk \/ Visit
    <3>1. ~undefined'
      BY <2>2, WalkStep, VisitStep
    <3>2. op # "none" /\ UNCHANGED <<called, pc, argv, at>>
      BY <2>2 DEF Walk, Visit, dispatch
    <3> QED BY <3>1, <3>2 DEF WalkInv
  <2>3. CASE Deleted
    BY <2>3 DEF Deleted, dispatch
  <2> QED BY <2>1, <2>2, <2>3
<1> QED BY <1>1 DEF WalkInv, UndefinedExplained

LEMMA WalkInvStep == ListInv /\ WalkInv /\ [Next]_vars => WalkInv'
<1> SUFFICES ASSUME ListInv, WalkInv, [Next]_vars PROVE WalkInv'
  OBVIOUS
<1>1. CASE Dispatch
  <2>1. /\ ~undefined /\ undefined' = undefined /\ op' = "none"
        /\ called' = <<>> /\ pc' = "method" /\ argv' = TRUE
    BY <1>1 DEF Dispatch, change
  <2>2. called' \in Seq({})
    BY <2>1
  <2> QED BY <2>1, <2>2 DEF WalkInv, UndefinedExplained
<1>2. CASE Unnamed \/ UNCHANGED vars
  <2>1. UNCHANGED <<called, pc, argv, at, op, undefined, freed>>
    BY <1>2 DEF Unnamed, list, change, vars, dispatch
  <2> QED BY <2>1 DEF WalkInv, UndefinedExplained
<1>3. CASE Method
  <2>1. pc = "method" /\ ~undefined /\ undefined' = undefined /\ op' = op
    BY <1>3 DEF Method, change
  <2>2. op = "none"
    BY <2>1 DEF WalkInv
  <2>3. CASE /\ called' = Append(called, [node |-> at, argv |-> argv])
             /\ pc' = "handler" /\ UNCHANGED <<at, argv>>
    <3>1. /\ \E S : called' \in Seq(S)
          /\ called' # <<>> /\ Last(called') = [node |-> at, argv |-> argv]
      BY <2>3, Extended DEF WalkInv
    <3> QED BY <3>1, <2>1, <2>2, <2>3 DEF WalkInv, UndefinedExplained
  <2>4. CASE /\ called' = Append(called, [node |-> at, argv |-> TRUE])
             /\ argv' = FALSE /\ pc' = "handler" /\ at' = at
    <3>1. /\ \E S : called' \in Seq(S)
          /\ called' # <<>> /\ Last(called') = [node |-> at, argv |-> TRUE]
      BY <2>4, Extended DEF WalkInv
    <3>2. op' = "none" /\ argv' = FALSE /\ argv' \in BOOLEAN /\ pc' = "handler"
      BY <2>1, <2>2, <2>4, Zenon
    <3>3. Last(called').node = at'
      <4>1. Last(called').node = at
        BY <3>1
      <4> QED BY <4>1, <2>4
    <3>4. UndefinedExplained'
      BY <2>1 DEF UndefinedExplained
    <3> QED BY <3>1, <3>2, <3>4, <3>3 DEF WalkInv
  <2>5. CASE UNCHANGED <<pc, argv, called>>
    BY <2>1, <2>2, <2>5 DEF WalkInv, UndefinedExplained
  <2> QED BY <1>3, <2>3, <2>4, <2>5 DEF Method
<1>4. CASE Return
  <2>1. /\ pc = "handler" /\ op' = "none" /\ ~undefined
        /\ UNCHANGED <<argv, called, freed>>
        /\ \/ pc' = "end" /\ undefined' = undefined
           \/ pc' = "method" /\ undefined' = (at \in freed)
    BY <1>4 DEF Return, list, change
  <2>2. UndefinedExplained'
    <3>1. undefined' => pc' = "method" /\ Last(called').node \in freed'
      BY <2>1 DEF WalkInv
    <3> QED BY <3>1, <2>1 DEF UndefinedExplained
  <2>3. /\ op' = "none" /\ pc' \in {"idle", "method", "handler", "end"} /\ pc' # "handler"
        /\ argv' \in BOOLEAN /\ (~argv' => called' # <<>>) /\ \E S : called' \in Seq(S)
    BY <2>1 DEF WalkInv
  <2> QED BY <2>2, <2>3 DEF WalkInv
<1>5. CASE End
  <2>1. /\ pc' = "idle" /\ pc \in {"end", "method"} /\ op' = op
        /\ UNCHANGED <<argv, called>>
    BY <1>5 DEF End, change
  <2>2. undefined' => ~argv
    <3>1. undefined' = ((ret = 1 /\ Last(msg.path) = Slash) /\ msg.types = "i" /\ ~argv)
      BY <1>5 DEF End
    <3> QED BY <3>1
  <2>3. op' = "none" /\ (~argv' => called' # <<>>)
    BY <2>1 DEF WalkInv
  <2>4. UndefinedExplained'
    BY <2>1, <2>3, <2>2 DEF UndefinedExplained
  <2> QED BY <2>1, <2>3, <2>4 DEF WalkInv
<1> QED BY <1>1, <1>2, <1>3, <1>4, <1>5, ChangeKeepsWalk DEF Next

----------------------------------------------------------------------------
(* Theorems *)

LEMMA Invariant == Spec => [](ListInv /\ WalkInv)
<1>1. Init => ListInv /\ WalkInv
  BY ListInit, WalkInit
<1>2. (ListInv /\ WalkInv) /\ [Next]_vars => (ListInv /\ WalkInv)'
  BY ListStep, WalkInvStep
<1> QED BY <1>1, <1>2, PTL DEF Spec

\* At every moment, in the middle of a walk or of a deletion, the linked list
\* of lo/server.c holds what was added and not deleted, in the order of adding.
THEOREM TheListIsTheTable == Spec => []ListIsTable
<1>1. ListInv => ListIsTable
  BY DEF ListInv, Linked, After, ListIsTable
<1> QED BY <1>1, Invariant, PTL

\* When lo_server_del_method has reached the end of the list, no method it was
\* asked to remove is left.
THEOREM DeletionsAreComplete == Spec => []DeletionIsComplete
<1>1. ListInv => DeletionIsComplete
  <2> SUFFICES ASSUME ListInv, op = "del", it = Null, NEW n \in Listed PROVE ~Condemned(n)
    BY DEF DeletionIsComplete
  <2>1. PICK k \in 1 .. Len(table) + 1 : AtPlace(k)
    BY DEF ListInv, DelOK
  <2>2. k = Len(table) + 1
    <3> SUFFICES ASSUME k \in 1 .. Len(table) PROVE FALSE
      BY Facts
    <3>1. it = table[k] /\ table[k] \in 1 .. Len(spec)
      BY <2>1, Facts DEF AtPlace
    <3> QED BY <3>1, Facts DEF Null
  <2>3. PICK i \in 1 .. Len(table) : n = table[i]
    BY Facts DEF Listed
  <2>4. i \in 1 .. k - 1
    BY <2>2, <2>3, Facts
  <2> QED BY <2>1, <2>3, <2>4 DEF AtPlace
<1> QED BY <1>1, Invariant, PTL

\* Handlers may add and delete any methods but, if the walk goes on, the one
\* they were called by; the other misuse is a listing after coerced arguments.
THEOREM MisuseIsExplained == Spec => []UndefinedExplained
<1>1. WalkInv => UndefinedExplained
  BY DEF WalkInv
<1> QED BY <1>1, Invariant, PTL

----------------------------------------------------------------------------
(* The calls                                                                *)

Calls == [node : Nat, argv : BOOLEAN]

\* The walk has been at node n, or would have been.
Passed(n) == IF pc = "method" THEN at = Null \/ n < at ELSE n <= at

CallsOK ==
    /\ called \in Seq(Calls)
    /\ \A i, j \in DOMAIN called : i < j => called[i].node < called[j].node
    /\ \A m \in Heard : m \in 1 .. Len(spec)

\* Of the methods passed exactly those that accept the message have been called,
\* and none before the one at hand has stopped the walk.
ProgressOK ==
    pc # "idle" /\ ~undefined =>
        /\ pc = "method" => at \in Listed \cup {Null}
        /\ pc = "handler" => at \in 1 .. Len(spec) /\ at \in Listed \cup freed
        /\ \A m \in Heard : Passed(m)
        /\ \A n \in Listed : Passed(n) => (n \in Heard <=> Accepts(n, msg))
        /\ \A m \in Heard : Stops(m) => pc # "method" /\ m = at
        /\ pc # "method" => at \in Heard
        /\ pc = "end" => Stops(at)

LEMMA HeardAppended ==
  ASSUME NEW s \in Seq(Calls), NEW c \in Calls
  PROVE  {Append(s, c)[i].node : i \in DOMAIN Append(s, c)}
            = {s[i].node : i \in DOMAIN s} \cup {c.node}
<1> DEFINE r == Append(s, c)
<1>1. /\ Len(s) \in Nat /\ DOMAIN s = 1 .. Len(s) /\ DOMAIN r = 1 .. Len(s) + 1
      /\ \A i \in 1 .. Len(s) : r[i] = s[i]
      /\ r[Len(s) + 1] = c
  BY Appended
<1> HIDE DEF r
<1>2. ASSUME NEW i \in DOMAIN r PROVE r[i].node \in {s[j].node : j \in DOMAIN s} \cup {c.node}
  <2>1. i \in 1 .. Len(s) \/ i = Len(s) + 1
    BY <1>1
  <2> QED BY <1>1, <2>1
<1>3. ASSUME NEW i \in DOMAIN s PROVE s[i].node \in {r[j].node : j \in DOMAIN r}
  <2>1. i \in DOMAIN r /\ r[i] = s[i]
    BY <1>1
  <2> QED BY <2>1
<1>4. c.node \in {r[j].node : j \in DOMAIN r}
  <2>1. Len(s) + 1 \in DOMAIN r
    BY <1>1
  <2> QED BY <1>1, <2>1
<1> QED BY <1>2, <1>3, <1>4 DEF r

\* Of the list a deletion leaves out what it frees, and nothing else.
LEMMA VisitListed ==
  ASSUME ListInv, Visit
  PROVE  Listed' \subseteq Listed /\ Listed \subseteq Listed' \cup freed' /\ freed \subseteq freed'
<1>1. CASE UNCHANGED <<table, freed>>
  BY <1>1 DEF Listed
<1>2. CASE Unlink
  <2>1. op = "del" /\ it # Null
    BY DEF Visit
  <2>2. PICK k \in 1 .. Len(table) : it = table[k]
    <3>1. PICK k \in 1 .. Len(table) + 1 : AtPlace(k)
      BY <2>1 DEF ListInv, DelOK
    <3> QED BY <2>1, <3>1, Facts DEF AtPlace
  <2>3. table' = RemoveFirst(table, table[k]) /\ freed' = freed \cup {table[k]}
    BY <1>2, <2>2 DEF Unlink
  <2>4. table \in Seq(Nat) /\ Len(table) \in Nat /\ DOMAIN table = 1 .. Len(table)
    BY Facts
  <2>5. \A i \in 1 .. Len(table) : table[i] = table[k] => i = k
    BY <2>2, Facts
  <2>6. /\ DOMAIN table' = 1 .. Len(table) - 1
        /\ \A i \in 1 .. Len(table) - 1 : table'[i] = IF i < k THEN table[i] ELSE table[i + 1]
    BY <2>3, <2>4, <2>5, Removed
  <2>7. ASSUME NEW i \in DOMAIN table' PROVE table'[i] \in Listed
    <3>1. table'[i] = table[IF i < k THEN i ELSE i + 1]
      BY <2>6
    <3>2. (IF i < k THEN i ELSE i + 1) \in DOMAIN table
      BY <2>4, <2>6
    <3> QED BY <3>1, <3>2 DEF Listed
  <2>8. ASSUME NEW j \in DOMAIN table, j # k PROVE table[j] \in Listed'
    <3> DEFINE i == IF j < k THEN j ELSE j - 1
    <3>1. i \in DOMAIN table' /\ (IF i < k THEN i ELSE i + 1) = j
      BY <2>4, <2>6, <2>8
    <3>2. table'[i] = table[j]
      BY <2>6, <3>1
    <3> HIDE DEF i
    <3> QED BY <3>1, <3>2 DEF Listed
  <2>9. Listed' \subseteq Listed
    BY <2>7 DEF Listed
  <2>10. Listed \subseteq Listed' \cup freed'
    BY <2>3, <2>8 DEF Listed
  <2> QED BY <2>3, <2>9, <2>10
<1> QED BY <1>1, <1>2 DEF Visit

\* What is known of a node and a message does not change with the list.
LEMMA SameVerdicts ==
  ASSUME UNCHANGED msg, NEW n, spec'[n] = spec[n]
  PROVE  Accepts(n, msg)' = Accepts(n, msg) /\ Stops(n)' = Stops(n)
  BY DEF Accepts, PathMatches, TypesMatch, Matches, MatchTable, Stops

\* A handler may change the list: methods that come are behind the node it was
\* called by, and that node, if it goes, is freed.
LEMMA ChangeKeepsProgress ==
  ASSUME ListInv, WalkInv, CallsOK, ProgressOK, Add \/ Walk \/ Delete \/ Visit \/ Deleted
  PROVE  CallsOK' /\ ProgressOK'
<1>1. /\ ~undefined /\ pc \in {"idle", "handler"}
      /\ UNCHANGED <<called, pc, at, msg>>
  <2>1. CASE Add \/ Delete
    BY <2>1 DEF Add, Delete, MayChange, dispatch
  <2>2. CASE Walk \/ Visit \/ Deleted
    <3>1. op # "none" /\ ~undefined /\ UNCHANGED <<called, pc, at, msg>>
      BY <2>2 DEF Walk, Visit, Deleted, dispatch
    <3> QED BY <3>1 DEF WalkInv
  <2> QED BY <2>1, <2>2
<1>2. Len(spec) \in Nat /\ spec \in Seq(Specs)
  BY Facts DEF ListInv, ListTyped
<1>3. /\ Len(spec') \in Nat /\ Len(spec) <= Len(spec')
      /\ \A n \in 1 .. Len(spec) : spec'[n] = spec[n]
  <2>1. CASE Add
    BY <1>2, <2>1, Appended DEF Add
  <2>2. CASE ~Add
    BY <1>2, <2>2 DEF Walk, Delete, Visit, Deleted, list
  <2> QED BY <2>1, <2>2
<1>4. Heard' = Heard
  BY <1>1 DEF Heard
<1>5. CallsOK'
  BY <1>1, <1>2, <1>3, <1>4 DEF CallsOK
<1>6. CASE pc = "idle"
  BY <1>1, <1>5, <1>6 DEF ProgressOK
<1>7. CASE pc = "handler"
  <2>1. at \in 1 .. Len(spec) /\ at \in Listed \cup freed
    BY <1>1, <1>7 DEF ProgressOK
  <2>2. \A n \in Listed : n \in 1 .. Len(spec)
    BY Facts DEF Listed
  <2>3. \A n \in Listed' : n \in Listed \/ ~(n <= at)
    <3>1. CASE Add
      <4>1. table' = table \/ (first = Null /\ table' = Append(table, Len(spec) + 1))
        BY <1>2, <3>1 DEF Add
      <4>2. CASE table' = table
        BY <4>2 DEF Listed
      <4>3. CASE table' = Append(table, Len(spec) + 1)
        <5>1. /\ DOMAIN table' = 1 .. Len(table) + 1 /\ DOMAIN table = 1 .. Len(table)
              /\ \A i \in 1 .. Len(table) : table'[i] = table[i]
              /\ table'[Len(table) + 1] = Len(spec) + 1 /\ Len(table) \in Nat
          BY <1>2, <4>3, Facts, Appended
        <5>2. \A i \in DOMAIN table' : i \in DOMAIN table \/ i = Len(table) + 1
          BY <5>1
        <5>3. ~(Len(spec) + 1 <= at)
          BY <1>2, <2>1
        <5> QED BY <5>1, <5>2, <5>3 DEF Listed
      <4> QED BY <4>1, <4>2, <4>3
    <3>2. CASE Walk
      <4>1. op = "add" /\ (table' = table \/ table' = Append(table, Len(spec)))
        BY <3>2 DEF Walk
      <4>2. CASE table' = table
        BY <4>2 DEF Listed
      <4>3. CASE table' = Append(table, Len(spec))
        <5>1. /\ DOMAIN table' = 1 .. Len(table) + 1 /\ DOMAIN table = 1 .. Len(table)
              /\ \A i \in 1 .. Len(table) : table'[i] = table[i]
              /\ table'[Len(table) + 1] = Len(spec) /\ Len(table) \in Nat
          BY <1>2, <4>3, Facts, Appended
        <5>2. \A i \in DOMAIN table' : i \in DOMAIN table \/ i = Len(table) + 1
          BY <5>1
        <5>3. Len(spec) \notin freed /\ \A i \in DOMAIN table : table[i] < Len(spec)
          BY <4>1 DEF ListInv, AddOK
        <5>4. at # Len(spec)
          BY <1>2, <2>1, <2>2, <5>3 DEF Listed
        <5>5. ~(Len(spec) <= at)
          BY <1>2, <2>1, <5>4
        <5> QED BY <5>1, <5>2, <5>5 DEF Listed
      <4> QED BY <4>1, <4>2, <4>3
    <3>3. CASE Delete \/ Deleted
      BY <3>3 DEF Delete, Deleted, list, Listed
    <3>4. CASE Visit
      BY <3>4, VisitListed
    <3> QED BY <3>1, <3>2, <3>3, <3>4
  <2>4. at \in Listed' \cup freed'
    <3>1. CASE Visit
      BY <2>1, <3>1, VisitListed
    <3>2. CASE ~Visit
      <4>1. Listed \subseteq Listed'
        <5>1. \/ table' = table
              \/ \E e \in Nat : table' = Append(table, e)
          BY <1>2, <1>3, <3>2 DEF Add, Walk, Delete, Deleted, list
        <5>2. ASSUME NEW e \in Nat, table' = Append(table, e) PROVE Listed \subseteq Listed'
          <6>1. /\ DOMAIN table' = 1 .. Len(table) + 1 /\ DOMAIN table = 1 .. Len(table)
                /\ \A i \in 1 .. Len(table) : table'[i] = table[i] /\ Len(table) \in Nat
            BY <5>2, Facts, Appended
          <6>2. \A i \in DOMAIN table : i \in DOMAIN table'
            BY <6>1, Facts
          <6> QED BY <6>1, <6>2 DEF Listed
        <5> QED BY <5>1, <5>2 DEF Listed
      <4>2. freed' = freed
        BY <3>2 DEF Add, Walk, Delete, Deleted, list
      <4> QED BY <2>1, <4>1, <4>2
    <3> QED BY <3>1, <3>2
  <2>5. \A n \in 1 .. Len(spec) : Accepts(n, msg)' = Accepts(n, msg) /\ Stops(n)' = Stops(n)
    BY <1>1, <1>3, SameVerdicts
  <2>6. \A n : Passed(n) <=> n <= at
    BY <1>7 DEF Passed
  <2>7. \A n : Passed(n)' <=> n <= at
    BY <1>1, <1>7 DEF Passed
  <2>8. /\ \A m \in Heard : m \in 1 .. Len(spec) /\ m <= at /\ (Stops(m) => m = at)
        /\ \A n \in Listed : n <= at => (n \in Heard <=> Accepts(n, msg))
    BY <1>1, <1>7, <2>6 DEF ProgressOK, CallsOK
  <2>9. ASSUME NEW n \in Listed', n <= at PROVE n \in Heard <=> Accepts(n, msg)'
    <3>1. n \in Listed
      BY <2>3, <2>9
    <3> QED BY <2>2, <2>5, <2>8, <2>9, <3>1
  <2>10. at \in 1 .. Len(spec')
    BY <1>2, <1>3, <2>1
  <2> QED BY <1>1, <1>4, <1>5, <1>7, <2>4, <2>5, <2>7, <2>8, <2>9, <2>10 DEF ProgressOK
<1> QED BY <1>1, <1>6, <1>7

\* The node after the i-th of the list: nothing in the list is between them.
LEMMA NextNode ==
  ASSUME ListInv, NEW i \in DOMAIN table
  PROVE  /\ After(i) \in Listed \cup {Null}
         /\ \A n \in Listed : n <= table[i] <=> After(i) = Null \/ n < After(i)
<1>1. /\ Len(table) \in Nat /\ DOMAIN table = 1 .. Len(table)
      /\ \A j \in 1 .. Len(table) : table[j] \in Nat /\ table[j] > 0
      /\ i \in Nat /\ 1 <= i /\ i <= Len(table)
  BY Facts
<1>2. \A j, k \in 1 .. Len(table) : j < k => table[j] < table[k]
  BY <1>1 DEF ListInv, InOrder
<1>3. CASE i = Len(table)
  <2>1. After(i) = Null
    BY <1>3 DEF After
  <2>2. ASSUME NEW j \in 1 .. Len(table) PROVE table[j] <= table[i]
    <3>1. CASE j = i
      BY <1>1, <3>1
    <3>2. CASE j < i
      BY <1>1, <1>2, <3>2
    <3>3. j \in Nat /\ j <= i
      BY <1>1, <1>3
    <3> QED BY <1>1, <3>1, <3>2, <3>3
  <2> QED BY <1>1, <2>1, <2>2 DEF Listed
<1>4. CASE i # Len(table)
  <2>1. i + 1 \in 1 .. Len(table) /\ After(i) = table[i + 1]
    <3>1. i + 1 <= Len(table)
      BY <1>1, <1>4
    <3> QED BY <1>1, <1>4, <3>1 DEF After
  <2>2. After(i) \in Listed /\ After(i) # Null
    BY <1>1, <2>1 DEF Listed, Null
  <2>3. ASSUME NEW j \in 1 .. Len(table) PROVE table[j] <= table[i] <=> table[j] < table[i + 1]
    <3>1. table[i] < table[i + 1]
      BY <1>1, <1>2, <2>1
    <3>2. CASE j <= i
      <4>1. table[j] <= table[i]
        BY <1>1, <1>2, <3>2
      <4> QED BY <1>1, <2>1, <3>1, <4>1
    <3>3. CASE j > i
      <4>1. table[i + 1] <= table[j]
        <5>1. CASE j = i + 1
          BY <1>1, <5>1
        <5>2. CASE j > i + 1
          BY <1>1, <1>2, <2>1, <5>2
        <5> QED BY <3>3, <5>1, <5>2
      <4> QED BY <1>1, <2>1, <3>1, <4>1
    <3> QED BY <3>2, <3>3
  <2> QED BY <1>1, <2>1, <2>2, <2>3 DEF Listed
<1> QED BY <1>3, <1>4

\* The first node is the oldest.
LEMMA FirstNode ==
  ASSUME ListInv
  PROVE  /\ first \in Listed \cup {Null}
         /\ \A n \in Listed : ~(first = Null \/ n < first)
<1>1. /\ Len(table) \in Nat /\ DOMAIN table = 1 .. Len(table)
      /\ \A j \in 1 .. Len(table) : table[j] \in Nat /\ table[j] > 0
      /\ table = <<>> <=> Len(table) = 0
  BY Facts
<1>2. CASE table = <<>>
  <2>1. first = Null
    BY <1>2 DEF ListInv, Linked
  <2>2. Listed = {}
    BY <1>1, <1>2 DEF Listed
  <2> QED BY <2>1, <2>2
<1>3. CASE table # <<>>
  <2>1. 1 \in 1 .. Len(table) /\ first = table[1]
    BY <1>1, <1>3 DEF ListInv, Linked
  <2>2. first \in Listed /\ first # Null
    BY <1>1, <2>1 DEF Listed, Null
  <2>3. ASSUME NEW j \in 1 .. Len(table) PROVE ~(table[j] < first)
    <3>1. j = 1 \/ table[1] < table[j]
      BY <1>1, <2>1 DEF ListInv, InOrder
    <3> QED BY <1>1, <2>1, <3>1
  <2> QED BY <1>1, <2>2, <2>3 DEF Listed
<1> QED BY <1>2, <1>3

\* The message comes: nothing has been passed.
LEMMA DispatchProgress ==
  ASSUME ListInv, WalkInv, Dispatch
  PROVE  CallsOK' /\ ProgressOK'
<1>1. /\ called' = <<>> /\ pc' = "method" /\ at' = first /\ table' = table
  BY DEF Dispatch, list
<1>2. Heard' = {} /\ Listed' = Listed
  BY <1>1 DEF Heard, Listed
<1>3. CallsOK'
  BY <1>1, <1>2 DEF CallsOK
<1>4. \A n \in Listed : ~Passed(n)'
  BY <1>1, FirstNode DEF Passed
<1>5. at' \in Listed' \cup {Null}
  BY <1>1, <1>2, FirstNode
<1> QED BY <1>1, <1>2, <1>3, <1>4, <1>5 DEF ProgressOK

\* The walk is at a method, and calls it or goes on.
LEMMA MethodProgress ==
  ASSUME ListInv, WalkInv, CallsOK, ProgressOK, Method
  PROVE  CallsOK' /\ ProgressOK'
<1>1. /\ pc = "method" /\ at # Null /\ ~undefined
      /\ UNCHANGED <<spec, table, freed, next, msg>>
  BY DEF Method, list
<1>2. at \in Listed
  BY <1>1 DEF ProgressOK
<1>3. PICK i \in DOMAIN table : at = table[i]
  BY <1>2 DEF Listed
<1>4. /\ at \in 1 .. Len(spec) /\ at \in Nat /\ Len(spec) \in Nat /\ next[at] = After(i)
      /\ \A n \in Listed : n \in Nat
  BY <1>3, Facts DEF ListInv, Linked, Listed
<1>5. /\ \A m \in Heard : m \in Nat /\ m < at /\ ~Stops(m) /\ m \in 1 .. Len(spec)
      /\ \A n \in Listed : n < at => (n \in Heard <=> Accepts(n, msg))
  BY <1>1, <1>4 DEF ProgressOK, CallsOK, Passed
<1>6. Listed' = Listed
  BY <1>1 DEF Listed
<1>7. \A n : Accepts(n, msg)' = Accepts(n, msg) /\ Stops(n)' = Stops(n)
  BY <1>1, SameVerdicts
<1>8. ASSUME NEW b \in BOOLEAN, Accepts(at, msg), pc' = "handler", at' = at,
             called' = Append(called, [node |-> at, argv |-> b])
      PROVE  CallsOK' /\ ProgressOK'
  <2> DEFINE c == [node |-> at, argv |-> b]
  <2>1. c \in Calls /\ called \in Seq(Calls) /\ c.node = at
    BY <1>4 DEF Calls, CallsOK
  <2> HIDE DEF c
  <2>2. called' = Append(called, c)
    BY <1>8 DEF c
  <2>3. Heard' = Heard \cup {at}
    BY <2>1, <2>2, HeardAppended DEF Heard
  <2>4. /\ Len(called) \in Nat /\ DOMAIN called = 1 .. Len(called)
        /\ called' \in Seq(Calls) /\ DOMAIN called' = 1 .. Len(called) + 1
        /\ \A j \in 1 .. Len(called) : called'[j] = called[j]
        /\ called'[Len(called) + 1].node = at
    BY <2>1, <2>2, Appended
  <2>5. \A j \in 1 .. Len(called) : called[j].node < at
    BY <1>5, <2>4 DEF Heard
  <2>6. ASSUME NEW j \in DOMAIN called', NEW k \in DOMAIN called', j < k
        PROVE  called'[j].node < called'[k].node
    <3>1. j \in 1 .. Len(called) /\ (k \in 1 .. Len(called) \/ k = Len(called) + 1)
      BY <2>4, <2>6
    <3>2. CASE k \in 1 .. Len(called)
      BY <2>4, <2>6, <3>1, <3>2 DEF CallsOK
    <3>3. CASE k = Len(called) + 1
      BY <2>4, <2>5, <3>1, <3>3
    <3> QED BY <3>1, <3>2, <3>3
  <2>7. CallsOK'
    BY <1>1, <1>4, <1>5, <2>3, <2>4, <2>6 DEF CallsOK
  <2>8. \A n : Passed(n)' <=> n <= at
    BY <1>8 DEF Passed
  <2>9. \A m \in Heard' : m <= at /\ (Stops(m)' => m = at)
    BY <1>4, <1>5, <1>7, <2>3
  <2>10. ASSUME NEW n \in Listed, n <= at PROVE n \in Heard' <=> Accepts(n, msg)'
    <3>1. CASE n = at
      BY <1>7, <1>8, <2>3, <3>1
    <3>2. CASE n # at
      <4>1. n < at
        BY <1>4, <2>10, <3>2
      <4> QED BY <1>5, <1>7, <2>3, <3>2, <4>1
    <3> QED BY <3>1, <3>2
  <2> QED BY <1>1, <1>2, <1>4, <1>6, <1>8, <2>3, <2>7, <2>8, <2>9, <2>10 DEF ProgressOK
<1>9. ASSUME ~Accepts(at, msg), pc' = pc, at' = next[at], called' = called
      PROVE  CallsOK' /\ ProgressOK'
  <2>1. Heard' = Heard
    BY <1>9 DEF Heard
  <2>2. CallsOK'
    BY <1>1, <1>9, <2>1 DEF CallsOK
  <2>3. /\ at' \in Listed \cup {Null}
        /\ \A n \in Listed : Passed(n)' <=> n <= at
    BY <1>1, <1>3, <1>4, <1>9, NextNode DEF Passed
  <2>4. \A m \in Heard : Passed(m)'
    <3>1. at' = Null \/ at < at'
      BY <1>2, <1>3, <1>4, <1>9, NextNode
    <3>2. at' \in Nat
      BY <1>4, <2>3 DEF Null
    <3> QED BY <1>1, <1>4, <1>5, <1>9, <3>1, <3>2 DEF Passed
  <2>5. ASSUME NEW n \in Listed, n <= at PROVE n \in Heard <=> Accepts(n, msg)'
    <3>1. CASE n = at
      BY <1>4, <1>5, <1>7, <1>9, <3>1
    <3>2. CASE n # at
      <4>1. n < at
        BY <1>4, <2>5, <3>2
      <4> QED BY <1>5, <1>7, <4>1
    <3> QED BY <3>1, <3>2
  <2> QED BY <1>1, <1>5, <1>6, <1>7, <1>9, <2>1, <2>2, <2>3, <2>4, <2>5 DEF ProgressOK
<1>10. argv \in BOOLEAN
  BY DEF WalkInv
<1> QED BY <1>8, <1>9, <1>10 DEF Method, Accepts

\* The handler has returned: the walk ends, or goes on from where it is.
LEMMA ReturnProgress ==
  ASSUME ListInv, WalkInv, CallsOK, ProgressOK, Return
  PROVE  CallsOK' /\ ProgressOK'
<1>1. /\ pc = "handler" /\ ~undefined
      /\ UNCHANGED <<spec, table, freed, next, msg, called>>
  BY DEF Return, list
<1>2. Heard' = Heard /\ Listed' = Listed
  BY <1>1 DEF Heard, Listed
<1>3. CallsOK'
  BY <1>1, <1>2 DEF CallsOK
<1>4. \A n : Accepts(n, msg)' = Accepts(n, msg) /\ Stops(n)' = Stops(n)
  BY <1>1, SameVerdicts
<1>5. /\ at \in Listed \cup freed /\ at \in Nat
      /\ \A m \in Heard : m \in Nat /\ m <= at /\ (Stops(m) => m = at)
      /\ \A n \in Listed : n <= at => (n \in Heard <=> Accepts(n, msg))
  <2>1. at \in 1 .. Len(spec) /\ Len(spec) \in Nat
    BY <1>1, Facts DEF ProgressOK
  <2> QED BY <1>1, <2>1 DEF ProgressOK, CallsOK, Passed
<1>6. at \in Heard
  BY <1>1 DEF ProgressOK
<1>7. CASE pc' = "end" /\ at' = at /\ undefined' = undefined /\ Stops(at)
  <2>1. \A n : Passed(n)' <=> n <= at
    BY <1>7 DEF Passed
  <2> QED BY <1>2, <1>3, <1>4, <1>5, <1>6, <1>7, <2>1 DEF ProgressOK
<1>8. CASE undefined'
  BY <1>3, <1>8 DEF ProgressOK
<1>9. CASE pc' = "method" /\ at' = next[at] /\ at \notin freed /\ ~Stops(at)
  <2>1. PICK i \in DOMAIN table : at = table[i]
    BY <1>5, <1>9 DEF Listed
  <2>2. next[at] = After(i)
    BY <2>1 DEF ListInv, Linked
  <2>3. /\ at' \in Listed \cup {Null}
        /\ \A n \in Listed : Passed(n)' <=> n <= at
    BY <1>9, <2>1, <2>2, NextNode DEF Passed
  <2>4. \A m \in Heard : Passed(m)'
    <3>1. at' = Null \/ at < at'
      BY <1>5, <1>9, <2>1, <2>3 DEF Passed, Listed
    <3>2. at' \in Nat
      BY <2>3, Facts DEF Null, Listed
    <3> QED BY <1>5, <1>9, <3>1, <3>2 DEF Passed
  <2>5. \A m \in Heard : ~Stops(m)
    BY <1>5, <1>9
  <2> QED BY <1>2, <1>3, <1>4, <1>5, <1>9, <2>3, <2>4, <2>5 DEF ProgressOK
<1> QED BY <1>7, <1>8, <1>9 DEF Return, Stops

LEMMA CallsStep == ListInv /\ WalkInv /\ CallsOK /\ ProgressOK /\ [Next]_vars
                      => CallsOK' /\ ProgressOK'
<1> SUFFICES ASSUME ListInv, WalkInv, CallsOK, ProgressOK, [Next]_vars
             PROVE  CallsOK' /\ ProgressOK'
  OBVIOUS
<1>1. CASE End
  <2>1. pc' = "idle" /\ UNCHANGED <<called, spec>>
    BY <1>1 DEF End, list
  <2>2. Heard' = Heard
    BY <2>1 DEF Heard
  <2> QED BY <2>1, <2>2 DEF CallsOK, ProgressOK
<1>2. CASE Unnamed \/ UNCHANGED vars
  <2>1. UNCHANGED <<called, spec, table, freed, pc, at, msg, undefined>>
    BY <1>2 DEF Unnamed, list, vars, dispatch
  <2>2. Heard' = Heard /\ Listed' = Listed
    BY <2>1 DEF Heard, Listed
  <2>3. \A n : Accepts(n, msg)' = Accepts(n, msg) /\ Stops(n)' = Stops(n)
    BY <2>1, SameVerdicts
  <2>4. \A n : Passed(n)' <=> Passed(n)
    BY <2>1 DEF Passed
  <2> QED BY <2>1, <2>2, <2>3, <2>4 DEF CallsOK, ProgressOK
<1> QED BY <1>1, <1>2, DispatchProgress, MethodProgress, ReturnProgress, ChangeKeepsProgress
        DEF Next

LEMMA CallsInit == Init => CallsOK /\ ProgressOK
<1> SUFFICES ASSUME Init PROVE CallsOK /\ ProgressOK
  OBVIOUS
<1>1. called = <<>> /\ pc = "idle"
  BY DEF Init
<1>2. called \in Seq(Calls) /\ DOMAIN called = {}
  BY <1>1
<1> QED BY <1>1, <1>2 DEF CallsOK, ProgressOK, Heard

\* Whatever its handlers add and delete meanwhile, a message is given, when its
\* walk is over, to exactly the methods there are that accept it and are not
\* behind one that has dealt with it: each once, and the oldest first.
THEOREM CallsFollowTheList == Spec => []CalledAsRegistered
<1>1. Init => ListInv /\ WalkInv /\ CallsOK /\ ProgressOK
  BY ListInit, WalkInit, CallsInit
<1>2. (ListInv /\ WalkInv /\ CallsOK /\ ProgressOK) /\ [Next]_vars
        => (ListInv /\ WalkInv /\ CallsOK /\ ProgressOK)'
  BY ListStep, WalkInvStep, CallsStep
<1>3. ListInv /\ WalkInv /\ CallsOK /\ ProgressOK => CalledAsRegistered
  <2> SUFFICES ASSUME ListInv, WalkInv, CallsOK, ProgressOK, WalkIsOver PROVE CalledAsRegistered
    BY DEF CalledAsRegistered
  <2>1. \A i, j \in DOMAIN called : i < j => called[i].node < called[j].node
    BY DEF CallsOK
  <2>2. CASE pc = "method" /\ at = Null
    <3>1. ~undefined /\ \A n : Passed(n)
      BY <2>2 DEF WalkIsOver, Passed
    <3> QED BY <2>1, <2>2, <3>1 DEF ProgressOK, CalledAsRegistered
  <2>3. CASE pc = "end"
    <3>1. /\ ~undefined /\ \A n : Passed(n) <=> n <= at
      BY <2>3 DEF WalkIsOver, Passed
    <3>2. /\ at \in Heard /\ Stops(at)
          /\ \A m \in Heard : m <= at /\ (Stops(m) => m = at)
          /\ \A n \in Listed : n <= at => (n \in Heard <=> Accepts(n, msg))
      BY <2>3, <3>1 DEF ProgressOK
    <3> QED BY <2>1, <3>2 DEF CalledAsRegistered
  <2> QED BY <2>2, <2>3 DEF WalkIsOver
<1> QED BY <1>1, <1>2, <1>3, PTL DEF Spec

----------------------------------------------------------------------------
(* Folds over 0 .. n *)

LEMMA Smallest ==
  ASSUME NEW T, T \subseteq Nat, T # {}
  PROVE  \E x \in T : \A y \in T : x <= y
<1>1. PICK x \in T : \A y \in T : ~(<<y, x>> \in OpToRel(<, Nat))
  BY NatLessThanWellFounded, WFMin
<1>2. \A y \in T : ~(y < x)
  BY <1>1 DEF OpToRel
<1> QED BY <1>2

\* What holds of 0, and of a place if of the one before, holds of all.  S are the
\* places of which it holds.
LEMMA ByPlace ==
  ASSUME NEW n \in Nat, NEW S, 0 \in S, \A i \in 1 .. n : i - 1 \in S => i \in S
  PROVE  \A i \in 0 .. n : i \in S
<1> DEFINE T == {i \in 0 .. n : i \notin S}
<1> SUFFICES ASSUME T # {} PROVE FALSE
  OBVIOUS
<1>1. PICK i \in T : \A j \in T : i <= j
  <2>1. T \subseteq Nat
    OBVIOUS
  <2> HIDE DEF T
  <2> QED BY <2>1, Smallest
<1>2. i # 0 /\ i - 1 \in 0 .. n /\ i \in 1 .. n
  BY <1>1
<1>3. i - 1 \in S
  BY <1>1, <1>2
<1> QED BY <1>2, <1>3

\* The steps h[1], h[2], ... lead from base through A.
Steps(h, n, A) == h \in [1 .. n -> [A -> A]]
Run(F, base, h, n, A) ==
    F \in [0 .. n -> A] /\ F[0] = base /\ \A i \in 1 .. n : F[i] = h[i][F[i - 1]]

LEMMA Iterates ==
  ASSUME NEW n \in Nat, NEW A, NEW base \in A, NEW h, Steps(h, n, A)
  PROVE  \E F : Run(F, base, h, n, A)
<1> USE DEF Steps
<1> DEFINE P(k) == \E F \in [0 .. k -> A] :
                       F[0] = base /\ \A i \in 1 .. k : F[i] = h[i][F[i - 1]]
           S == {k \in 0 .. n : P(k)}
<1>1. 0 \in S
  <2>1. [i \in 0 .. 0 |-> base] \in [0 .. 0 -> A]
    OBVIOUS
  <2>2. P(0)
    <3> WITNESS [i \in 0 .. 0 |-> base] \in [0 .. 0 -> A]
    <3> QED OBVIOUS
  <2> QED BY <2>2
<1>2. ASSUME NEW k \in 1 .. n, k - 1 \in S PROVE k \in S
  <2>1. PICK F \in [0 .. k - 1 -> A] :
               F[0] = base /\ \A i \in 1 .. k - 1 : F[i] = h[i][F[i - 1]]
    BY <1>2
  <2> DEFINE G == [i \in 0 .. k |-> IF i < k THEN F[i] ELSE h[k][F[k - 1]]]
  <2>2. k - 1 \in 0 .. k - 1 /\ \A i \in 0 .. k : i < k => i \in 0 .. k - 1
    OBVIOUS
  <2>3. h[k][F[k - 1]] \in A
    BY <2>2
  <2>4. G \in [0 .. k -> A]
    BY <2>2, <2>3
  <2>5. G[0] = base
    BY <2>1
  <2>6. ASSUME NEW i \in 1 .. k PROVE G[i] = h[i][G[i - 1]]
    <3>1. i - 1 \in 0 .. k /\ i - 1 < k /\ i \in 0 .. k
      OBVIOUS
    <3>2. G[i - 1] = F[i - 1]
      BY <3>1
    <3>3. CASE i = k
      BY <3>1, <3>2, <3>3
    <3>4. CASE i # k
      <4>1. i \in 1 .. k - 1 /\ i < k
        BY <3>4
      <4>2. G[i] = F[i]
        BY <3>1, <4>1
      <4> QED BY <2>1, <3>2, <4>1, <4>2
    <3> QED BY <3>3, <3>4
  <2> HIDE DEF G
  <2>7. P(k)
    BY <2>4, <2>5, <2>6
  <2> HIDE DEF P
  <2> QED BY <2>7
<1> HIDE DEF P
<1>3. \A i \in 0 .. n : i \in S
  <2> HIDE DEF S
  <2> QED BY <1>1, <1>2, ByPlace
<1>4. P(n)
  BY <1>3
<1> QED BY <1>4 DEF P, Run

----------------------------------------------------------------------------
(* The listing *)

\* A list has no more places than there are nodes.
LEMMA Short ==
  ASSUME ListInv
  PROVE  Len(table) <= Len(spec)
<1> DEFINE m == Len(table)
           S == {i \in 0 .. m : i > 0 => i <= table[i]}
<1>1. /\ m \in Nat /\ Len(spec) \in Nat /\ DOMAIN table = 1 .. m
      /\ \A i \in 1 .. m : table[i] \in 1 .. Len(spec) /\ table[i] \in Nat
  BY Facts
<1>2. \A i, j \in 1 .. m : i < j => table[i] < table[j]
  BY <1>1 DEF ListInv, InOrder
<1> HIDE DEF m
<1>3. 0 \in S
  BY <1>1
<1>4. ASSUME NEW i \in 1 .. m, i - 1 \in S PROVE i \in S
  <2>1. CASE i = 1
    BY <1>1, <2>1
  <2>2. CASE i # 1
    <3>1. i - 1 \in 1 .. m /\ i - 1 < i /\ i - 1 <= table[i - 1]
      BY <1>1, <1>4, <2>2
    <3>2. table[i - 1] < table[i] /\ table[i - 1] \in Nat /\ table[i] \in Nat
      BY <1>1, <1>2, <3>1
    <3> QED BY <1>1, <3>1, <3>2
  <2> QED BY <2>1, <2>2
<1> HIDE DEF S
<1>5. m \in S
  <2>1. \A i \in 0 .. m : i \in S
    BY <1>1, <1>3, <1>4, ByPlace
  <2> QED BY <1>1, <2>1
<1>6. m > 0 => m <= table[m]
  BY <1>5 DEF S
<1>7. m > 0 => table[m] <= Len(spec)
  BY <1>1
<1>8. m <= Len(spec)
  <2>1. CASE m = 0
    BY <1>1, <2>1
  <2>2. CASE m > 0
    <3>1. table[m] \in Nat
      BY <1>1, <2>2
    <3> QED BY <1>1, <1>6, <1>7, <2>2, <3>1
  <2> QED BY <1>1, <2>1, <2>2
<1> QED BY <1>8 DEF m

LEMMA ChainUnfolds ==
  ASSUME NEW F, Len(spec) \in Nat, F[0] = [at |-> first, nodes |-> <<>>],
         \A i \in 1 .. Len(spec) : F[i] = Onward(F[i - 1])
  PROVE  Chain = F[Len(spec)].nodes
<1> DEFINE n == Len(spec)
           base == [at |-> first, nodes |-> <<>>]
           Cond(f) == f = [i \in 0 .. n |-> IF i = 0 THEN base ELSE Onward(f[i - 1])]
           g == [i \in 0 .. n |-> F[i]]
           f == CHOOSE f : Cond(f)
<1>1. \A i \in 1 .. n : i - 1 \in 0 .. n /\ i \in 0 .. n /\ i # 0
  OBVIOUS
<1>2. Cond(g)
  <2>1. \A i \in 0 .. n : g[i] = IF i = 0 THEN base ELSE Onward(g[i - 1])
    <3> TAKE i \in 0 .. n
    <3>1. CASE i = 0
      BY <3>1
    <3>2. CASE i # 0
      <4>1. i \in 1 .. n /\ g[i - 1] = F[i - 1]
        BY <3>2
      <4> QED BY <3>2, <4>1
    <3> QED BY <3>1, <3>2
  <2>2. g = [i \in 0 .. n |-> g[i]]
    OBVIOUS
  <2> HIDE DEF g, base
  <2> QED BY <2>1, <2>2
<1> HIDE DEF g
<1>3. Cond(f)
  BY <1>2
<1>4. Chain = f[n].nodes
  BY DEF Chain, Folded
<1> HIDE DEF f
<1>5. f[0] = F[0] /\ \A i \in 1 .. n : f[i] = Onward(f[i - 1])
  BY <1>1, <1>3
<1> DEFINE S == {i \in 0 .. n : f[i] = F[i]}
<1>6. 0 \in S /\ \A i \in 1 .. n : i - 1 \in S => i \in S
  BY <1>1, <1>5
<1> HIDE DEF S, n
<1>7. n \in S
  <2>1. \A i \in 0 .. n : i \in S
    BY <1>6, ByPlace DEF n
  <2> QED BY <2>1 DEF n
<1>8. f[n] = F[n]
  BY <1>7 DEF S
<1> QED BY <1>4, <1>8 DEF n

LEMMA ChainIsTable ==
  ASSUME ListInv
  PROVE  Chain = table
<1> DEFINE m == Len(table)
           n == Len(spec)
           Node(i) == IF i < m THEN table[i + 1] ELSE Null
           Got(i) == [j \in 1 .. i |-> table[j]]
           F == [i \in 0 .. n |-> [at |-> Node(i), nodes |-> Got(IF i < m THEN i ELSE m)]]
<1>1. /\ m \in Nat /\ n \in Nat /\ m <= n
      /\ table \in Seq(Nat) /\ DOMAIN table = 1 .. m
      /\ \A i \in 1 .. m : table[i] \in 1 .. n /\ table[i] \in Nat
      /\ table = <<>> <=> m = 0
  BY Facts, Short
<1>2. first = Node(0) /\ \A i \in 1 .. m : next[table[i]] = Node(i)
  <2>1. first = IF table = <<>> THEN Null ELSE table[1]
    BY DEF ListInv, Linked
  <2>2. \A i \in 1 .. m : next[table[i]] = IF i = m THEN Null ELSE table[i + 1]
    BY <1>1 DEF ListInv, Linked, After
  <2>3. \A i \in 1 .. m : i = m <=> ~(i < m)
    <3>1. \A k \in Nat : \A i \in 1 .. k : i = k <=> ~(i < k)
      OBVIOUS
    <3> HIDE DEF m
    <3> QED BY <1>1, <3>1
  <2> HIDE DEF m
  <2> QED BY <1>1, <2>1, <2>2, <2>3
<1>3. Got(m) = table
  <2>1. table = [j \in 1 .. m |-> table[j]]
    BY <1>1
  <2> QED BY <2>1
<1>4. Got(0) = <<>>
  OBVIOUS
<1>5. \A i \in 1 .. m : Got(i) = Append(Got(i - 1), table[i])
  <2> TAKE i \in 1 .. m
  <2> DEFINE s == Got(i - 1)
  <2>1. i \in Nat /\ i - 1 \in Nat
    BY <1>1
  <2>2. s \in Seq(Nat) /\ Len(s) = i - 1 /\ \A j \in 1 .. i - 1 : s[j] = table[j]
    <3>1. \A j \in 1 .. i - 1 : table[j] \in Nat
      BY <1>1
    <3>2. s \in [1 .. i - 1 -> Nat]
      BY <3>1
    <3>3. \A V : \A f \in [1 .. i - 1 -> V] : f \in Seq(V) /\ Len(f) = i - 1
      BY <2>1
    <3> QED BY <3>2, <3>3
  <2>3. table[i] \in Nat
    BY <1>1
  <2> HIDE DEF s
  <2>4. /\ Append(s, table[i]) \in Seq(Nat) /\ DOMAIN Append(s, table[i]) = 1 .. i
        /\ \A j \in 1 .. i : Append(s, table[i])[j] = table[j]
    <3>1. /\ Append(s, table[i]) \in Seq(Nat) /\ DOMAIN Append(s, table[i]) = 1 .. Len(s) + 1
          /\ \A j \in 1 .. Len(s) : Append(s, table[i])[j] = s[j]
          /\ Append(s, table[i])[Len(s) + 1] = table[i]
      BY <2>2, <2>3, Appended
    <3>2. Len(s) + 1 = i /\ \A j \in 1 .. i : j \in 1 .. i - 1 \/ j = i
      BY <2>1, <2>2
    <3> QED BY <2>2, <3>1, <3>2
  <2>5. Append(s, table[i]) = [j \in 1 .. i |-> table[j]]
    BY <2>4
  <2> QED BY <2>5 DEF s
<1> HIDE DEF m, n, Node, Got
<1>6. F[0] = [at |-> first, nodes |-> <<>>]
  <2>1. 0 \in 0 .. n /\ (0 < m \/ m = 0)
    BY <1>1
  <2> QED BY <1>2, <1>4, <2>1
<1>7. ASSUME NEW i \in 1 .. n PROVE F[i] = Onward(F[i - 1])
  <2>1. i \in 0 .. n /\ i - 1 \in 0 .. n /\ i \in Nat
    BY <1>1
  <2>2. CASE i <= m
    <3>1. i \in 1 .. m /\ i - 1 < m /\ (i < m \/ i = m) /\ (i - 1) + 1 = i
      BY <1>1, <2>1, <2>2
    <3>2. F[i] = [at |-> Node(i), nodes |-> Got(i)]
      BY <2>1, <3>1
    <3>3. F[i - 1] = [at |-> Node(i - 1), nodes |-> Got(i - 1)]
      BY <2>1, <3>1
    <3>4. Node(i - 1) = table[i] /\ table[i] # Null
      BY <1>1, <3>1 DEF Node, Null
    <3>5. next[table[i]] = Node(i) /\ Got(i) = Append(Got(i - 1), table[i])
      BY <1>2, <1>5, <3>1
    <3> HIDE DEF F
    <3> DEFINE w == [at |-> table[i], nodes |-> Got(i - 1)]
    <3>6. F[i - 1] = w /\ w.at = table[i] /\ w.nodes = Got(i - 1)
      BY <3>3, <3>4
    <3> HIDE DEF w
    <3>7. Onward(w) = [at |-> next[table[i]], nodes |-> Append(Got(i - 1), table[i])]
      BY <3>4, <3>6 DEF Onward
    <3> QED BY <3>2, <3>5, <3>6, <3>7
  <2>3. CASE ~(i <= m)
    <3>1. ~(i < m) /\ ~(i - 1 < m)
      BY <1>1, <2>1, <2>3
    <3>2. F[i] = [at |-> Null, nodes |-> Got(m)] /\ F[i - 1] = [at |-> Null, nodes |-> Got(m)]
      BY <2>1, <3>1 DEF Node
    <3> HIDE DEF F
    <3> QED BY <3>2 DEF Onward
  <2> QED BY <2>2, <2>3
<1>8. F[n].nodes = table
  <2>1. n \in 0 .. n /\ (n < m => n = m) /\ ~(n < m)
    BY <1>1
  <2> QED BY <1>3, <2>1
<1> HIDE DEF F
<1>9. Chain = F[n].nodes
  BY <1>1, <1>6, <1>7, ChainUnfolds DEF n
<1> QED BY <1>8, <1>9

\* The names of the first i nodes c are F[i].
NamesRun(F, c, below) ==
    /\ F[0] = <<>>
    /\ \A i \in 1 .. Len(c) : F[i] = WithName(F[i - 1], spec[c[i]].path, below)

LEMMA NamesUnfold ==
  ASSUME NEW F, NEW below, Len(Chain) \in Nat, NamesRun(F, Chain, below)
  PROVE  Listing(below) = F[Len(Chain)]
<1> DEFINE c == Chain
           n == Len(c)
           Step(names, k) == WithName(names, spec[k].path, below)
           Cond(f) == f = [i \in 0 .. n |-> IF i = 0 THEN <<>> ELSE Step(f[i - 1], c[i])]
           g == [i \in 0 .. n |-> F[i]]
           f == CHOOSE f : Cond(f)
<1>0. F[0] = <<>> /\ \A i \in 1 .. n : F[i] = Step(F[i - 1], c[i])
  BY DEF NamesRun
<1>1. \A i \in 1 .. n : i - 1 \in 0 .. n /\ i \in 0 .. n /\ i # 0
  OBVIOUS
<1> HIDE DEF c
<1>2. Cond(g)
  <2> HIDE DEF Step
  <2>1. \A i \in 0 .. n : g[i] = IF i = 0 THEN <<>> ELSE Step(g[i - 1], c[i])
    <3> TAKE i \in 0 .. n
    <3>1. CASE i = 0
      BY <1>0, <3>1
    <3>2. CASE i # 0
      <4>1. n \in Nat
        BY DEF c
      <4>2. i \in 1 .. n /\ g[i - 1] = F[i - 1]
        BY <3>2, <4>1
      <4> QED BY <1>0, <3>2, <4>2
    <3> QED BY <3>1, <3>2
  <2>2. g = [i \in 0 .. n |-> g[i]]
    OBVIOUS
  <2> HIDE DEF g
  <2> QED BY <2>1, <2>2
<1> HIDE DEF g
<1>3. Cond(f)
  BY <1>2
<1>4. Listing(below) = f[n]
  BY DEF Listing, Folded, c
<1> HIDE DEF f, Step
<1>5. n \in Nat
  BY DEF c
<1>6. f[0] = F[0] /\ \A i \in 1 .. n : f[i] = Step(f[i - 1], c[i])
  <2> HIDE DEF n
  <2>1. 0 \in 0 .. n
    BY <1>5
  <2> QED BY <1>0, <1>1, <1>3, <2>1
<1> HIDE DEF n
<1> DEFINE S == {i \in 0 .. n : f[i] = F[i]}
<1>7. 0 \in S /\ \A i \in 1 .. n : i - 1 \in S => i \in S
  BY <1>0, <1>1, <1>5, <1>6
<1> HIDE DEF S
<1>8. n \in S
  <2>1. \A i \in 0 .. n : i \in S
    BY <1>5, <1>7, ByPlace
  <2> QED BY <1>5, <2>1
<1>9. f[n] = F[n]
  BY <1>8 DEF S
<1> QED BY <1>4, <1>9 DEF n, c

LEMMA NameAdded ==
  ASSUME NEW V, NEW names \in Seq(V), IsInjective(names), NEW path, NEW below,
         Part(path, below) \in V
  PROVE  LET more == WithName(names, path, below)
         IN  /\ more \in Seq(V) /\ IsInjective(more)
             /\ ToSet(more) = ToSet(names) \cup
                   (IF IsPrefix(below, path) THEN {Part(path, below)} ELSE {})
<1> DEFINE part == Part(path, below)
           more == Append(names, part)
           l == Len(names)
<1>1. l \in Nat /\ DOMAIN names = 1 .. l /\ \A i \in 1 .. l : names[i] \in V
  OBVIOUS
<1>2. /\ more \in Seq(V) /\ DOMAIN more = 1 .. l + 1
      /\ \A i \in 1 .. l : more[i] = names[i]
      /\ more[l + 1] = part
  BY Appended
<1>3. ToSet(names) = {names[i] : i \in 1 .. l} /\ ToSet(more) = {more[i] : i \in 1 .. l + 1}
  BY <1>1, <1>2 DEF ToSet
<1>4. CASE IsPrefix(below, path) /\ part \notin ToSet(names)
  <2>1. WithName(names, path, below) = more
    BY <1>4 DEF WithName
  <2> HIDE DEF more, l
  <2>2. \A i \in 1 .. l + 1 : i \in 1 .. l \/ i = l + 1
    BY <1>1
  <2>3. \A i \in 1 .. l : i \in 1 .. l + 1
    BY <1>1
  <2>4. l + 1 \in 1 .. l + 1
    BY <1>1
  <2>5. ToSet(more) = ToSet(names) \cup {part}
    BY <1>2, <1>3, <2>2, <2>3, <2>4
  <2>6. \A i \in 1 .. l : names[i] # part
    BY <1>3, <1>4
  <2>7. \A i, j \in 1 .. l : names[i] = names[j] => i = j
    BY <1>1 DEF IsInjective
  <2>8. IsInjective(more)
    <3>1. \A i, j \in 1 .. l + 1 : more[i] = more[j] => i = j
      BY <1>2, <2>2, <2>6, <2>7
    <3> QED BY <1>2, <3>1 DEF IsInjective
  <2> QED BY <1>2, <1>4, <2>1, <2>5, <2>8
<1>5. CASE ~(IsPrefix(below, path) /\ part \notin ToSet(names))
  <2>1. WithName(names, path, below) = names
    BY <1>5 DEF WithName
  <2> QED BY <1>5, <2>1
<1> QED BY <1>4, <1>5

\* The names of methods under a path, each once.
Named(ns, below) == {Part(spec[n].path, below) : n \in {k \in ns : IsPrefix(below, spec[k].path)}}

LEMMA ListingNames ==
  ASSUME ListInv, NEW below
  PROVE  ToSet(Listing(below)) = Named(Listed, below) /\ IsInjective(Listing(below))
<1> DEFINE c == table
           n == Len(c)
           V == {Part(spec[k].path, below) : k \in 1 .. Len(spec)}
           A == {names \in Seq(V) : IsInjective(names)}
           Step(names, k) == WithName(names, spec[k].path, below)
           h == [i \in 1 .. n |-> [names \in A |-> Step(names, c[i])]]
<1>1. n \in Nat /\ DOMAIN c = 1 .. n /\ \A i \in 1 .. n : c[i] \in 1 .. Len(spec)
  BY Facts
<1>2. Chain = c
  BY ChainIsTable
<1>3. Listed = {c[i] : i \in 1 .. n}
  BY <1>1 DEF Listed
<1> HIDE DEF c, n
<1>4. \A i \in 1 .. n : Part(spec[c[i]].path, below) \in V
  BY <1>1
<1> HIDE DEF V
<1>5. \A i \in 1 .. n : \A names \in A :
         /\ Step(names, c[i]) \in A
         /\ ToSet(Step(names, c[i])) = ToSet(names) \cup Named({c[i]}, below)
  <2> TAKE i \in 1 .. n
  <2> TAKE names \in A
  <2> DEFINE path == spec[c[i]].path
  <2>1. names \in Seq(V) /\ IsInjective(names) /\ Part(path, below) \in V
    BY <1>4
  <2>2. Named({c[i]}, below) = IF IsPrefix(below, path) THEN {Part(path, below)} ELSE {}
    BY DEF Named
  <2> HIDE DEF path
  <2>3. LET more == WithName(names, path, below)
        IN  /\ more \in Seq(V) /\ IsInjective(more)
            /\ ToSet(more) = ToSet(names) \cup
                  (IF IsPrefix(below, path) THEN {Part(path, below)} ELSE {})
    BY <2>1, NameAdded
  <2> QED BY <2>2, <2>3 DEF path
<1>6. <<>> \in A /\ ToSet(<<>>) = {}
  BY DEF IsInjective, ToSet
<1> HIDE DEF A, Step
<1>7. h \in [1 .. n -> [A -> A]] /\ \A i \in 1 .. n : \A names \in A : h[i][names] = Step(names, c[i])
  BY <1>5
<1> HIDE DEF h
<1>8. PICK F : Run(F, <<>>, h, n, A)
  BY <1>1, <1>6, <1>7, Iterates DEF Steps
<1>9. /\ F[0] = <<>> /\ \A i \in 0 .. n : F[i] \in A
      /\ \A i \in 1 .. n : F[i] = h[i][F[i - 1]]
  BY <1>8 DEF Run
<1>10. \A i \in 1 .. n : F[i - 1] \in A /\ F[i] = Step(F[i - 1], c[i])
  <2>1. \A i \in 1 .. n : i - 1 \in 0 .. n
    BY <1>1
  <2> QED BY <1>7, <1>9, <2>1
<1>11. Listing(below) = F[n]
  <2>1. NamesRun(F, Chain, below)
    BY <1>2, <1>9, <1>10 DEF NamesRun, Step, n
  <2>2. Listing(below) = F[Len(Chain)]
    BY <1>1, <1>2, <2>1, NamesUnfold DEF n
  <2> QED BY <1>2, <2>2 DEF n
<1> DEFINE Upto(i) == {c[j] : j \in 1 .. i}
           S == {i \in 0 .. n : ToSet(F[i]) = Named(Upto(i), below)}
<1>12. 0 \in S
  <2>1. Upto(0) = {}
    OBVIOUS
  <2> HIDE DEF Upto
  <2>2. Named(Upto(0), below) = {}
    BY <2>1 DEF Named
  <2>3. ToSet(F[0]) = {}
    BY <1>6, <1>9
  <2>4. 0 \in 0 .. n
    BY <1>1
  <2> QED BY <2>2, <2>3, <2>4
<1>13. ASSUME NEW i \in 1 .. n, i - 1 \in S PROVE i \in S
  <2>1. Upto(i) = Upto(i - 1) \cup {c[i]}
    <3>1. 1 .. i = (1 .. i - 1) \cup {i}
      BY <1>1
    <3> QED BY <3>1
  <2> HIDE DEF Upto
  <2>2. Named(Upto(i - 1) \cup {c[i]}, below) = Named(Upto(i - 1), below) \cup Named({c[i]}, below)
    BY DEF Named
  <2>3. ToSet(F[i]) = ToSet(F[i - 1]) \cup Named({c[i]}, below)
    BY <1>5, <1>10
  <2>4. ToSet(F[i - 1]) = Named(Upto(i - 1), below) /\ i \in 0 .. n
    BY <1>1, <1>13
  <2> QED BY <2>1, <2>2, <2>3, <2>4
<1>14. n \in S
  <2> HIDE DEF S
  <2>1. \A i \in 0 .. n : i \in S
    BY <1>1, <1>12, <1>13, ByPlace
  <2> QED BY <1>1, <2>1
<1>15. ToSet(F[n]) = Named(Listed, below)
  BY <1>3, <1>14
<1>16. IsInjective(F[n])
  <2>1. n \in 0 .. n
    BY <1>1
  <2> QED BY <1>9, <2>1 DEF A
<1> QED BY <1>11, <1>15, <1>16

\* ListingIsTable: the answer to a request to list what is under a path names the
\* methods there are, each name once, for any paths, and whatever handlers did.
THEOREM ListingsNameTheTable == Spec => ListingIsTable
<1>1. ListInv /\ [Next]_vars =>
         [reply' \notin {reply, NoReply} =>
             /\ ToSet(reply'.names) =
                   {Part(spec[n].path, msg.path) :
                       n \in {k \in Listed : IsPrefix(msg.path, spec[k].path)}}
             /\ IsInjective(reply'.names)]_vars
  <2> SUFFICES ASSUME ListInv, Next, reply' \notin {reply, NoReply}
               PROVE  /\ ToSet(reply'.names) = Named(Listed, msg.path)
                      /\ IsInjective(reply'.names)
    BY DEF Named
  <2>1. CASE End
    <3>1. reply' = [to |-> msg.path, names |-> Listing(msg.path)]
      BY <2>1 DEF End
    <3>2. reply'.names = Listing(msg.path)
      BY <3>1
    <3> QED BY <3>2, ListingNames
  <2>2. CASE Dispatch
    BY <2>2 DEF Dispatch
  <2>3. CASE Add \/ Walk \/ Delete \/ Visit \/ Deleted \/ Unnamed \/ Method \/ Return
    BY <2>3 DEF Add, Walk, Delete, Visit, Deleted, Unnamed, Method, Return
  <2> QED BY <2>1, <2>2, <2>3 DEF Next
<1>2. Spec => []ListInv
  BY Invariant, PTL
<1>3. Spec => [][Next]_vars
  BY DEF Spec
<1> QED BY <1>1, <1>2, <1>3, PTL DEF ListingIsTable


----------------------------------------------------------------------------
(* Recursive functions *)

\* What holds of a place if it holds of all behind it, holds of all.
LEMMA Backwards ==
  ASSUME NEW l \in Int, NEW n \in Int, NEW S,
         \A k \in l .. n : (\A m \in k + 1 .. n : m \in S) => k \in S
  PROVE  \A k \in l .. n : k \in S
<1> DEFINE T == {d \in 0 .. n - l : n - d \notin S}
<1> SUFFICES ASSUME NEW k \in l .. n, k \notin S PROVE FALSE
  OBVIOUS
<1>1. n - k \in T
  OBVIOUS
<1>2. PICK d \in T : \A e \in T : d <= e
  <2>1. T \subseteq Nat
    OBVIOUS
  <2> HIDE DEF T
  <2> QED BY <1>1, <2>1, Smallest
<1>3. n - d \in l .. n /\ n - d \notin S /\ d \in Int
  BY <1>2
<1>4. ASSUME NEW m \in n - d + 1 .. n PROVE m \in S
  <2>1. n - m \in 0 .. n - l /\ n - m < d /\ n - (n - m) = m
    BY <1>3
  <2>2. n - m \notin T
    BY <1>2, <1>3, <2>1
  <2> QED BY <2>1, <2>2
<1> QED BY <1>3, <1>4

\* A recursive function whose value at a place depends on those behind it.  h says
\* how: h[k][f] is its value at k, if f are its values behind k.
Rows(h, l, n, V) ==
    /\ h \in [l .. n -> [[l .. n -> V] -> V]]
    /\ \A k \in l .. n : \A f, g \in [l .. n -> V] :
          (\A m \in k + 1 .. n : f[m] = g[m]) => h[k][f] = h[k][g]

\* f is such a function.
Solves(f, h, l, n, V) == f \in [l .. n -> V] /\ \A k \in l .. n : f[k] = h[k][f]

\* There is such a function.
LEMMA RowsExist ==
  ASSUME NEW l \in Int, NEW n \in Int, NEW V, NEW v \in V, NEW h, Rows(h, l, n, V)
  PROVE  \E f : Solves(f, h, l, n, V)
<1> DEFINE P(k) == \E f \in [l .. n -> V] : \A m \in k .. n : m \in l .. n => f[m] = h[m][f]
           S == {k \in l .. n : P(k)}
<1>1. \A k \in l .. n : \A f \in [l .. n -> V] : h[k][f] \in V
  BY DEF Rows
<1>2. \A k \in l .. n : \A f, g \in [l .. n -> V] :
          (\A m \in k + 1 .. n : f[m] = g[m]) => h[k][f] = h[k][g]
  BY DEF Rows
<1>3. P(n + 1)
  <2>1. [k \in l .. n |-> v] \in [l .. n -> V]
    OBVIOUS
  <2>2. \A m \in n + 1 .. n : FALSE
    OBVIOUS
  <2> QED BY <2>1, <2>2
<1>4. ASSUME NEW k \in l .. n, P(k + 1) PROVE P(k)
  <2>1. PICK f \in [l .. n -> V] : \A m \in k + 1 .. n : m \in l .. n => f[m] = h[m][f]
    BY <1>4
  <2> DEFINE g == [m \in l .. n |-> IF m = k THEN h[k][f] ELSE f[m]]
  <2>2. g \in [l .. n -> V]
    BY <1>1
  <2>3. g[k] = h[k][f] /\ \A m \in l .. n : m # k => g[m] = f[m]
    OBVIOUS
  <2> HIDE DEF g
  <2>4. ASSUME NEW m \in k .. n PROVE g[m] = h[m][g]
    <3>1. m \in l .. n /\ \A q \in m + 1 .. n : q \in l .. n /\ q # k
      OBVIOUS
    <3>2. \A q \in m + 1 .. n : f[q] = g[q]
      BY <2>3, <3>1
    <3>3. h[m][f] = h[m][g]
      BY <1>2, <2>2, <3>1, <3>2
    <3>4. g[m] = h[m][f]
      <4>1. CASE m = k
        BY <2>3, <4>1
      <4>2. CASE m # k
        <5>1. m \in k + 1 .. n
          BY <4>2
        <5> QED BY <2>1, <2>3, <3>1, <4>2, <5>1
      <4> QED BY <4>1, <4>2
    <3> QED BY <3>3, <3>4
  <2> QED BY <2>2, <2>4
<1> HIDE DEF P
<1>5. \A k \in l .. n : k \in S
  <2>1. \A k \in l .. n : (\A m \in k + 1 .. n : m \in S) => k \in S
    <3> SUFFICES ASSUME NEW k \in l .. n, \A m \in k + 1 .. n : m \in S PROVE P(k)
      OBVIOUS
    <3>1. CASE k = n
      BY <1>3, <1>4, <3>1
    <3>2. CASE k # n
      <4>1. k + 1 \in k + 1 .. n
        BY <3>2
      <4> QED BY <1>4, <4>1
    <3> QED BY <3>1, <3>2
  <2> HIDE DEF S
  <2> QED BY <2>1, Backwards
<1>6. P(l)
  <2>1. CASE l <= n
    BY <1>5, <2>1
  <2>2. CASE ~(l <= n)
    <3>1. [k \in l .. n |-> v] \in [l .. n -> V] /\ \A m \in l .. n : FALSE
      BY <2>2
    <3> QED BY <3>1 DEF P
  <2> QED BY <2>1, <2>2
<1> QED BY <1>6 DEF P, Solves

\* And one only.
LEMMA RowsAgree ==
  ASSUME NEW l \in Int, NEW n \in Int, NEW V, NEW h, Rows(h, l, n, V),
         NEW f, Solves(f, h, l, n, V), NEW g, Solves(g, h, l, n, V)
  PROVE  f = g
<1> DEFINE S == {k \in l .. n : f[k] = g[k]}
<1>1. /\ f \in [l .. n -> V] /\ g \in [l .. n -> V]
      /\ \A k \in l .. n : f[k] = h[k][f] /\ g[k] = h[k][g]
  BY DEF Solves
<1>2. \A k \in l .. n : (\A m \in k + 1 .. n : f[m] = g[m]) => h[k][f] = h[k][g]
  BY <1>1 DEF Rows
<1>3. \A k \in l .. n : (\A m \in k + 1 .. n : m \in S) => k \in S
  <2> SUFFICES ASSUME NEW k \in l .. n, \A m \in k + 1 .. n : m \in S PROVE f[k] = g[k]
    OBVIOUS
  <2>1. \A m \in k + 1 .. n : f[m] = g[m]
    OBVIOUS
  <2>2. h[k][f] = h[k][g]
    BY <1>2, <2>1
  <2> QED BY <1>1, <2>2
<1>4. \A k \in l .. n : k \in S
  <2> HIDE DEF S
  <2> QED BY <1>3, Backwards
<1>5. \A k \in l .. n : f[k] = g[k]
  BY <1>4
<1> QED BY <1>1, <1>5

\* Find, and the places from i on.
LEMMA Found ==
  ASSUME NEW s, Len(s) \in Nat, NEW i \in Nat \ {0}, NEW chars
  PROVE  \/ /\ Find(s, i, chars) \in i .. Len(s) /\ s[Find(s, i, chars)] \in chars
            /\ \A k \in i .. Find(s, i, chars) - 1 : s[k] \notin chars
         \/ /\ Find(s, i, chars) = Len(s) + 1
            /\ \A k \in i .. Len(s) : s[k] \notin chars
<1> DEFINE I == {k \in i .. Len(s) : s[k] \in chars}
           Least(x) == x \in I /\ \A y \in I : x <= y
           k == CHOOSE x \in I : \A y \in I : x <= y
<1>1. CASE I = {}
  BY <1>1 DEF Find, SelectInSubSeq
<1>2. CASE I # {}
  <2> DEFINE T == {y - i : y \in I}
  <2>1. T \subseteq Nat /\ T # {}
    BY <1>2
  <2>2. PICK d \in T : \A e \in T : d <= e
    <3> HIDE DEF T
    <3> QED BY <2>1, Smallest
  <2>3. \E x \in I : \A y \in I : x <= y
    <3>1. i + d \in I /\ d \in Int
      BY <2>2
    <3>2. \A y \in I : y - i \in T /\ y \in Int
      OBVIOUS
    <3>3. \A y \in I : d <= y - i
      BY <2>2, <3>2
    <3>4. \A y \in I : i + d <= y
      BY <3>1, <3>2, <3>3
    <3> QED BY <3>1, <3>4
  <2>4. k \in I /\ \A y \in I : k <= y
    <3> HIDE DEF I
    <3> QED BY <2>3
  <2>5. SelectInSubSeq(s, i, Len(s), LAMBDA c : c \in chars) = k
    BY <1>2 DEF SelectInSubSeq, Min
  <2>6. Find(s, i, chars) = IF k = 0 THEN Len(s) + 1 ELSE k
    BY <2>5 DEF Find
  <2>7. k \in i .. Len(s) /\ s[k] \in chars /\ \A m \in i .. k - 1 : s[m] \notin chars
    <3>1. k \in i .. Len(s) /\ s[k] \in chars
      BY <2>4
    <3>2. \A y \in I : k <= y
      BY <2>4
    <3> HIDE DEF k
    <3>3. ASSUME NEW m \in i .. k - 1 PROVE s[m] \notin chars
      <4>1. m \in i .. Len(s) /\ ~(k <= m)
        BY <3>1
      <4>2. m \notin I
        BY <3>2, <4>1
      <4> QED BY <4>1, <4>2
    <3> QED BY <3>1, <3>3
  <2> HIDE DEF k, I
  <2>8. Find(s, i, chars) = k
    BY <2>6, <2>7
  <2> QED BY <2>7, <2>8
<1> QED BY <1>1, <1>2

\* Where the sequences lie in one that is made of them: the n-th from b[n] on.
Laid(seqs, b, flat) ==
    /\ b \in [1 .. Len(seqs) + 1 -> Nat \ {0}]
    /\ b[1] = 1 /\ b[Len(seqs) + 1] = Len(flat) + 1
    /\ \A n \in 1 .. Len(seqs) + 1 : b[n] <= Len(flat) + 1
    /\ \A n \in 1 .. Len(seqs) :
          /\ b[n + 1] = b[n] + Len(seqs[n])
          /\ \A m \in 1 .. Len(seqs[n]) : flat[b[n] + m - 1] = seqs[n][m]

\* FlattenSeq, by its folds.
LEMMA FlattenUnfolds ==
  ASSUME NEW V, NEW seqs \in Seq(Seq(V)), Len(seqs) # 0
  PROVE  \E F \in [0 .. Len(seqs) -> Seq(V)] :
            /\ F[0] = <<>> /\ FlattenSeq(seqs) = F[Len(seqs)]
            /\ \A i \in 1 .. Len(seqs) : F[i] = F[i - 1] \o seqs[i]
<1> DEFINE L == Len(seqs)
           h == [i \in 1 .. L |-> [x \in Seq(V) |-> x \o seqs[i]]]
           Cond(f) == f = [i \in 1 .. L |-> IF i = 1 THEN seqs[i] ELSE f[i - 1] \o seqs[i]]
           f == CHOOSE f : Cond(f)
<1>1. L \in Nat /\ L >= 1 /\ \A i \in 1 .. L : seqs[i] \in Seq(V)
  OBVIOUS
<1>2. FlattenSeq(seqs) = f[L]
  BY DEF FlattenSeq
<1>3. Steps(h, L, Seq(V)) /\ \A i \in 1 .. L : \A x \in Seq(V) : h[i][x] = x \o seqs[i]
  BY <1>1 DEF Steps
<1> HIDE DEF L, h, f
<1>4. PICK F : Run(F, <<>>, h, L, Seq(V))
  <2>1. <<>> \in Seq(V)
    OBVIOUS
  <2> QED BY <1>1, <1>3, <2>1, Iterates
<1>5. F \in [0 .. L -> Seq(V)] /\ F[0] = <<>> /\ \A i \in 1 .. L : F[i] = h[i][F[i - 1]]
  BY <1>4 DEF Run
<1>6. \A i \in 1 .. L : i - 1 \in 0 .. L /\ i \in 0 .. L /\ F[i - 1] \in Seq(V)
  BY <1>1, <1>5
<1>7. \A i \in 1 .. L : F[i] = F[i - 1] \o seqs[i]
  BY <1>3, <1>5, <1>6
<1>8. 1 \in 1 .. L /\ F[1] = seqs[1]
  <2>1. 1 \in 1 .. L /\ 1 - 1 = 0
    BY <1>1
  <2>2. F[1] = <<>> \o seqs[1] /\ seqs[1] \in Seq(V)
    BY <1>1, <1>5, <1>7, <2>1
  <2>3. \A x \in Seq(V) : <<>> \o x = x
    OBVIOUS
  <2> QED BY <2>1, <2>2, <2>3
<1> DEFINE g == [i \in 1 .. L |-> F[i]]
<1>9. Cond(g)
  <2>1. \A i \in 1 .. L : g[i] = IF i = 1 THEN seqs[i] ELSE g[i - 1] \o seqs[i]
    <3> TAKE i \in 1 .. L
    <3>1. CASE i = 1
      BY <1>8, <3>1
    <3>2. CASE i # 1
      <4>1. i - 1 \in 1 .. L
        BY <1>1, <3>2
      <4> QED BY <1>7, <3>2, <4>1
    <3> QED BY <3>1, <3>2
  <2>2. g = [i \in 1 .. L |-> g[i]]
    OBVIOUS
  <2> HIDE DEF g
  <2> QED BY <2>1, <2>2
<1> HIDE DEF g
<1>10. Cond(f)
  BY <1>9 DEF f
<1>11. \A i \in 1 .. L : f[i] = IF i = 1 THEN seqs[i] ELSE f[i - 1] \o seqs[i]
  BY <1>10
<1> DEFINE S == {i \in 0 .. L : i = 0 \/ f[i] = F[i]}
<1>12. 0 \in S
  BY <1>1
<1>13. ASSUME NEW i \in 1 .. L, i - 1 \in S PROVE i \in S
  <2>1. CASE i = 1
    BY <1>1, <1>8, <1>11, <2>1
  <2>2. CASE i # 1
    <3>1. f[i - 1] = F[i - 1] /\ i \in 0 .. L
      BY <1>1, <1>13, <2>2
    <3> QED BY <1>7, <1>11, <2>2, <3>1
  <2> QED BY <2>1, <2>2
<1>14. L \in S
  <2> HIDE DEF S
  <2>1. \A i \in 0 .. L : i \in S
    BY <1>1, <1>12, <1>13, ByPlace
  <2> QED BY <1>1, <2>1
<1>15. f[L] = F[L]
  BY <1>1, <1>14
<1> QED BY <1>2, <1>5, <1>7, <1>15 DEF L

\* Two sequences, one after the other.
LEMMA Joined ==
  ASSUME NEW V, NEW x \in Seq(V), NEW y \in Seq(V)
  PROVE  /\ x \o y \in Seq(V) /\ Len(x \o y) = Len(x) + Len(y)
         /\ \A q \in 1 .. Len(x) : (x \o y)[q] = x[q]
         /\ \A q \in 1 .. Len(y) : (x \o y)[Len(x) + q] = y[q]
  OBVIOUS

\* The parts, one after the other.
LEMMA Flattened ==
  ASSUME NEW V, NEW seqs \in Seq(Seq(V))
  PROVE  FlattenSeq(seqs) \in Seq(V) /\ \E b : Laid(seqs, b, FlattenSeq(seqs))
<1>1. CASE Len(seqs) = 0
  <2>1. FlattenSeq(seqs) = seqs /\ seqs = <<>>
    BY <1>1 DEF FlattenSeq
  <2> DEFINE b == [n \in 1 .. 1 |-> 1]
  <2>2. Laid(<<>>, b, <<>>)
    BY DEF Laid
  <2> QED BY <2>1, <2>2
<1>2. CASE Len(seqs) # 0
  <2> DEFINE L == Len(seqs)
  <2>1. PICK F \in [0 .. L -> Seq(V)] :
            /\ F[0] = <<>> /\ FlattenSeq(seqs) = F[L]
            /\ \A i \in 1 .. L : F[i] = F[i - 1] \o seqs[i]
    BY <1>2, FlattenUnfolds
  <2>2. L \in Nat /\ \A i \in 1 .. L : seqs[i] \in Seq(V)
    OBVIOUS
  <2>3. \A i \in 0 .. L : F[i] \in Seq(V) /\ Len(F[i]) \in Nat
    OBVIOUS
  <2> HIDE DEF L
  <2>4. \A i \in 1 .. L : i - 1 \in 0 .. L /\ i \in 0 .. L
    BY <2>2
  <2>5. \A i \in 1 .. L :
           /\ Len(F[i]) = Len(F[i - 1]) + Len(seqs[i])
           /\ \A q \in 1 .. Len(F[i - 1]) : F[i][q] = F[i - 1][q]
           /\ \A q \in 1 .. Len(seqs[i]) : F[i][Len(F[i - 1]) + q] = seqs[i][q]
    <3> TAKE i \in 1 .. L
    <3> DEFINE x == F[i - 1]
               y == seqs[i]
    <3>1. x \in Seq(V) /\ y \in Seq(V) /\ F[i] = x \o y
      BY <2>1, <2>2, <2>4
    <3>2. /\ Len(F[i]) = Len(x) + Len(y)
          /\ \A q \in 1 .. Len(x) : F[i][q] = x[q]
          /\ \A q \in 1 .. Len(y) : F[i][Len(x) + q] = y[q]
      <4> HIDE DEF x, y
      <4> QED BY <3>1, Joined
    <3> QED BY <3>2
  <2>6. \A i \in 1 .. L : Len(seqs[i]) \in Nat
    BY <2>2
  <2> DEFINE Begins(n, m) == Len(F[n]) <= Len(F[m]) /\ \A q \in 1 .. Len(F[n]) : F[m][q] = F[n][q]
             S == {m \in 0 .. L : \A n \in 0 .. m : Begins(n, m)}
  <2>7. 0 \in S
    <3>1. 0 \in 0 .. L /\ \A n \in 0 .. 0 : n = 0
      BY <2>2
    <3> QED BY <2>3, <3>1
  <2>8. ASSUME NEW m \in 1 .. L, m - 1 \in S PROVE m \in S
    <3>1. m \in 0 .. L
      BY <2>4
    <3>2. ASSUME NEW n \in 0 .. m PROVE Begins(n, m)
      <4>1. CASE n = m
        BY <2>3, <3>1, <4>1 DEF Begins
      <4>2. CASE n # m
        <5>1. n \in 0 .. m - 1 /\ n \in 0 .. L
          BY <2>2, <4>2
        <5>2. Begins(n, m - 1)
          BY <2>8, <5>1
        <5>3. Len(F[m]) = Len(F[m - 1]) + Len(seqs[m])
              /\ \A q \in 1 .. Len(F[m - 1]) : F[m][q] = F[m - 1][q]
          BY <2>5
        <5>4. Len(F[n]) \in Nat /\ Len(F[m - 1]) \in Nat /\ Len(seqs[m]) \in Nat
          BY <2>3, <2>4, <2>6, <5>1
        <5>5. Len(F[n]) <= Len(F[m - 1]) /\ \A q \in 1 .. Len(F[n]) : F[m - 1][q] = F[n][q]
          BY <5>2
        <5>6. \A x, y, z \in Nat : x <= y => x <= y + z /\ 1 .. x \subseteq 1 .. y
          OBVIOUS
        <5> QED BY <5>3, <5>4, <5>5, <5>6
      <4> QED BY <4>1, <4>2
    <3> QED BY <3>1, <3>2
  <2>9. \A m \in 0 .. L : m \in S
    <3> HIDE DEF S
    <3> QED BY <2>2, <2>7, <2>8, ByPlace
  <2>10. \A n \in 0 .. L : Begins(n, L)
    BY <2>2, <2>9
  <2> DEFINE flat == F[L]
             b == [n \in 1 .. L + 1 |-> Len(F[n - 1]) + 1]
  <2>11. \A n \in 1 .. L + 1 : n - 1 \in 0 .. L
    BY <2>2
  <2>12. b \in [1 .. L + 1 -> Nat \ {0}] /\ \A n \in 1 .. L + 1 : b[n] <= Len(flat) + 1
    BY <2>2, <2>3, <2>10, <2>11
  <2>13. b[1] = 1 /\ b[L + 1] = Len(flat) + 1
    BY <2>1, <2>2
  <2>14. ASSUME NEW n \in 1 .. L
         PROVE  /\ b[n + 1] = b[n] + Len(seqs[n])
                /\ \A m \in 1 .. Len(seqs[n]) : flat[b[n] + m - 1] = seqs[n][m]
    <3>1. n \in 0 .. L /\ n - 1 \in 0 .. L /\ n \in 1 .. L + 1 /\ n + 1 \in 1 .. L + 1 /\ n + 1 - 1 = n
      BY <2>2
    <3>2. b[n] = Len(F[n - 1]) + 1 /\ b[n + 1] = Len(F[n]) + 1
      BY <3>1
    <3>3. Len(F[n - 1]) \in Nat /\ Len(F[n]) \in Nat /\ Len(seqs[n]) \in Nat
      BY <2>3, <2>6, <3>1
    <3> HIDE DEF b
    <3>4. Len(F[n]) = Len(F[n - 1]) + Len(seqs[n])
          /\ \A q \in 1 .. Len(seqs[n]) : F[n][Len(F[n - 1]) + q] = seqs[n][q]
      BY <2>5
    <3> DEFINE x == Len(F[n - 1])
               y == Len(seqs[n])
               z == Len(F[n])
    <3>5. x \in Nat /\ y \in Nat /\ z \in Nat /\ z = x + y /\ b[n] = x + 1 /\ b[n + 1] = z + 1
      BY <3>2, <3>3, <3>4
    <3>6. /\ b[n + 1] = b[n] + y
          /\ \A m \in 1 .. y : b[n] + m - 1 = x + m /\ x + m \in 1 .. z
      <4> HIDE DEF x, y, z
      <4> QED BY <3>5
    <3>7. ASSUME NEW m \in 1 .. Len(seqs[n]) PROVE flat[b[n] + m - 1] = seqs[n][m]
      <4>1. Begins(n, L)
        BY <2>10, <3>1
      <4>2. b[n] + m - 1 = x + m /\ x + m \in 1 .. z
        BY <3>6
      <4>3. F[L][x + m] = F[n][x + m]
        BY <4>1, <4>2
      <4> QED BY <3>4, <4>2, <4>3
    <3> QED BY <3>6, <3>7
  <2> HIDE DEF b
  <2>15. Laid(seqs, b, F[L])
    BY <2>12, <2>13, <2>14 DEF Laid, L
  <2>16. F[L] \in Seq(V)
    BY <2>2, <2>3
  <2> QED BY <2>1, <2>15, <2>16
<1> QED BY <1>1, <1>2

----------------------------------------------------------------------------
(* Sets in brackets *)

\* The value of Scan in InSet at k, if f are those behind k.
ScanStep(f, c, p, k) ==
    LET lo == At(p, k)   follow == At(p, k + 1)   hi == At(p, k + 2)
        Step(in, where, last) == IF in \/ last THEN [ok |-> TRUE, in |-> in, at |-> where]
                              ELSE f[where]
    IN  CASE follow = 0 \/ (follow = Hyphen /\ hi = 0) -> NoSet
          [] follow = Hyphen /\ hi # 0 ->
                Step(IF hi = Close THEN c >= lo
                     ELSE c \in {lo, hi} \/ (lo < c /\ c < hi), k + 2, hi = Close)
          [] follow \notin {0, Hyphen} ->
                Step(c = lo \/ (c = follow /\ follow # Close), k + 1, follow = Close)

\* The character at a place.
LEMMA AtFacts ==
  ASSUME NEW p \in Seq(Chars)
  PROVE  /\ Len(p) \in Nat /\ DOMAIN p = 1 .. Len(p)
         /\ \A k \in 1 .. Len(p) : At(p, k) = p[k] /\ p[k] \in Chars /\ p[k] \in Int /\ p[k] # 0
         /\ \A k \in Int : At(p, k) \in Int /\ (At(p, k) # 0 <=> k \in 1 .. Len(p))
                            /\ (At(p, k) # 0 => 1 <= k /\ k <= Len(p))
<1>1. Len(p) \in Nat /\ DOMAIN p = 1 .. Len(p) /\ \A k \in 1 .. Len(p) : p[k] \in Chars
  OBVIOUS
<1>2. \A c \in Chars : c \in Int /\ c # 0
  BY DEF Chars
<1> HIDE DEF Chars
<1> QED BY <1>1, <1>2 DEF At

\* Scan in InSet, unfolded.
LEMMA ScanUnfolds ==
  ASSUME NEW c \in Int, NEW p \in Seq(Chars)
  PROVE  \E f : /\ \A q : InSet(c, p, q) = f[q]
                /\ \A k \in 1 .. Len(p) + 1 : f[k] = ScanStep(f, c, p, k)
<1> DEFINE n == Len(p) + 1
           V == [ok : BOOLEAN, in : BOOLEAN, at : Int]
           h == [k \in 1 .. n |-> [f \in [1 .. n -> V] |-> ScanStep(f, c, p, k)]]
           Cond(f) == f = [k \in 1 .. n |-> ScanStep(f, c, p, k)]
           f == CHOOSE f : Cond(f)
<1>1. /\ n \in Nat /\ n >= 1
      /\ \A k \in Int : At(p, k) \in Int /\ (At(p, k) # 0 => k \in 1 .. n)
  BY AtFacts
<1>2. NoSet \in V
  BY DEF NoSet
<1>3. \A k \in 1 .. n : \A g \in [1 .. n -> V] : ScanStep(g, c, p, k) \in V
  <2> TAKE k \in 1 .. n
  <2> TAKE g \in [1 .. n -> V]
  <2> DEFINE lo == At(p, k)
             follow == At(p, k + 1)
             hi == At(p, k + 2)
  <2>1. lo \in Int /\ follow \in Int /\ hi \in Int
        /\ (follow # 0 => k + 1 \in 1 .. n) /\ (hi # 0 => k + 2 \in 1 .. n)
    <3>1. k \in Int /\ k + 1 \in Int /\ k + 2 \in Int
      BY <1>1
    <3>2. \A x \in Int : At(p, x) \in Int /\ (At(p, x) # 0 => x \in 1 .. n)
      BY <1>1
    <3> HIDE DEF n
    <3>3. lo \in Int
      BY <3>1, <3>2
    <3>4. follow \in Int /\ (follow # 0 => k + 1 \in 1 .. n)
      BY <3>1, <3>2
    <3>5. hi \in Int /\ (hi # 0 => k + 2 \in 1 .. n)
      BY <3>1, <3>2
    <3> QED BY <3>3, <3>4, <3>5
  <2>2. \A in \in BOOLEAN : \A where \in 1 .. n :
           [ok |-> TRUE, in |-> in, at |-> where] \in V /\ g[where] \in V
    OBVIOUS
  <2>3. k + 1 \in Int /\ k + 2 \in Int
    OBVIOUS
  <2> HIDE DEF lo, follow, hi, V
  <2>4. CASE follow = 0 \/ (follow = Hyphen /\ hi = 0)
    <3>1. ScanStep(g, c, p, k) = NoSet
      BY <2>4 DEF ScanStep, Hyphen, lo, follow, hi
    <3> QED BY <1>2, <3>1
  <2>5. CASE follow = Hyphen /\ hi # 0 /\ follow # 0
    <3> DEFINE in == IF hi = Close THEN c >= lo ELSE c \in {lo, hi} \/ (lo < c /\ c < hi)
    <3>1. in \in BOOLEAN
      <4>1. CASE hi = Close
        BY <4>1
      <4>2. CASE hi # Close
        BY <4>2
      <4> QED BY <4>1, <4>2
    <3>2. ScanStep(g, c, p, k) = IF in \/ hi = Close THEN [ok |-> TRUE, in |-> in, at |-> k + 2]
                                 ELSE g[k + 2]
      BY <2>5 DEF ScanStep, Hyphen, lo, follow, hi
    <3> HIDE DEF in
    <3> QED BY <2>1, <2>2, <2>5, <3>1, <3>2
  <2>6. CASE follow \notin {0, Hyphen}
    <3> DEFINE in == c = lo \/ (c = follow /\ follow # Close)
    <3>1. in \in BOOLEAN
      OBVIOUS
    <3>2. ScanStep(g, c, p, k) = IF in \/ follow = Close THEN [ok |-> TRUE, in |-> in, at |-> k + 1]
                                 ELSE g[k + 1]
      BY <2>6 DEF ScanStep, Hyphen, lo, follow, hi
    <3> HIDE DEF in
    <3> QED BY <2>1, <2>2, <2>6, <3>1, <3>2
  <2> QED BY <2>4, <2>5, <2>6
<1>4. ASSUME NEW k \in 1 .. n, NEW f1 \in [1 .. n -> V], NEW f2 \in [1 .. n -> V],
             \A m \in k + 1 .. n : f1[m] = f2[m]
      PROVE  ScanStep(f1, c, p, k) = ScanStep(f2, c, p, k)
  <2>1. /\ At(p, k + 1) # 0 => f1[k + 1] = f2[k + 1]
        /\ At(p, k + 2) # 0 => f1[k + 2] = f2[k + 2]
    <3>1. k + 1 \in Int /\ k + 2 \in Int /\ \A m \in 1 .. n : m > k => m \in k + 1 .. n
      BY <1>1
    <3> HIDE DEF n, V
    <3>2. ASSUME NEW m \in {k + 1, k + 2}, At(p, m) # 0 PROVE f1[m] = f2[m]
      <4>1. m \in Int /\ m > k
        BY <3>1
      <4>2. m \in 1 .. n
        BY <1>1, <3>2, <4>1
      <4> QED BY <1>4, <3>1, <4>1, <4>2
    <3> QED BY <3>2
  <2> QED BY <2>1 DEF ScanStep, Hyphen
<1>5. Rows(h, 1, n, V)
  <2> HIDE DEF n, V
  <2>1. h \in [1 .. n -> [[1 .. n -> V] -> V]]
    BY <1>3
  <2> QED BY <1>4, <2>1 DEF Rows
<1>6. PICK g : Solves(g, h, 1, n, V)
  <2> HIDE DEF n, V, h
  <2>1. 1 \in Int /\ n \in Int
    BY <1>1
  <2> QED BY <2>1, <1>2, <1>5, RowsExist
<1>7. Cond(g)
  <2>1. g \in [1 .. n -> V] /\ \A k \in 1 .. n : g[k] = ScanStep(g, c, p, k)
    BY <1>6 DEF Solves
  <2>2. g = [k \in 1 .. n |-> g[k]]
    BY <2>1
  <2> QED BY <2>1, <2>2
<1>8. Cond(f)
  <2> HIDE DEF Cond
  <2> QED BY <1>7
<1>9. \A q : InSet(c, p, q) = f[q]
  BY DEF InSet, ScanStep
<1> HIDE DEF f
<1>10. \A k \in 1 .. n : f[k] = ScanStep(f, c, p, k)
  BY <1>8
<1> QED BY <1>9, <1>10

\* Does the character at n of the text of a set, or the range it begins, have c?
Has(text, c, n) ==
    ~Ranges(text, n) /\
        \/ c = text[n]
        \/ Ranges(text, n + 1) /\ text[n] < c /\ (n + 1 < Len(text) => c < text[n + 2])

\* A result of Scan from m in the text on, if the text begins at q.
ScanRight(r, text, c, q, m) ==
    /\ r.ok = TRUE
    /\ r.in <=> \E n \in m .. Len(text) : Has(text, c, n)
    /\ r.at \in q + m .. q + Len(text)

\* In the pattern p the text of a set begins at q.
SetAt(p, q, text) ==
    /\ p \in Seq(Chars) /\ text \in Seq(Chars) /\ SetText(text)
    /\ q \in Nat \ {0} /\ q + Len(text) \in 1 .. Len(p) /\ p[q + Len(text)] = Close
    /\ \A m \in 1 .. Len(text) : p[q + m - 1] = text[m]

\* What InSet finds behind the first m characters of the set.
BehindRight(f, text, c, q, m) ==
    \A k \in m + 1 .. Len(text) : ~Ranges(text, k) => ScanRight(f[q + k - 1], text, c, q, k)

\* A set, its bracket behind it, as it stands in the pattern.
LEMMA SetAtFacts ==
  ASSUME NEW p, NEW q, NEW text, SetAt(p, q, text)
  PROVE  /\ q \in Nat /\ q >= 1 /\ Len(text) \in Nat /\ Len(text) >= 1 /\ Len(p) \in Nat
         /\ q + Len(text) <= Len(p) /\ p[q + Len(text)] = Close
         /\ DOMAIN text = 1 .. Len(text) /\ \A n \in 1 .. Len(text) : text[n] \in Int /\ text[n] # 0
         /\ \A n \in 2 .. Len(text) : text[n] # Close
         /\ \A n \in 1 .. Len(text) : At(p, q + n - 1) = text[n] /\ p[q + n - 1] = text[n]
         /\ At(p, q + Len(text)) = Close
         /\ \A n \in Int : Ranges(text, n) => ~Ranges(text, n + 1)
<1> DEFINE T == Len(text)
<1>0. /\ p \in Seq(Chars) /\ text \in Seq(Chars) /\ SetText(text)
      /\ q \in Nat \ {0} /\ q + Len(text) \in 1 .. Len(p) /\ p[q + Len(text)] = Close
      /\ \A m \in 1 .. Len(text) : p[q + m - 1] = text[m]
  BY DEF SetAt
<1>1. /\ T \in Nat /\ T >= 1 /\ DOMAIN text = 1 .. T
      /\ \A n \in 1 .. T : text[n] \in Int /\ text[n] # 0
  <2>1. T \in Nat /\ DOMAIN text = 1 .. T /\ \A n \in 1 .. T : text[n] \in Int /\ text[n] # 0
    BY <1>0, AtFacts
  <2>2. text # <<>>
    BY <1>0 DEF SetText
  <2>3. T # 0
    BY <1>0, <2>2
  <2> QED BY <2>1, <2>3
<1>2. \A n \in 2 .. T : text[n] # Close
  <2>1. \A n \in 2 .. T : n - 1 \in 1 .. T - 1 /\ text[n] = Tail(text)[n - 1]
    BY <1>0, <1>1
  <2>2. DOMAIN Tail(text) = 1 .. T - 1
    BY <1>0, <1>1
  <2> QED BY <1>0, <2>1, <2>2 DEF SetText, ToSet
<1>3. \A n \in 1 .. T : At(p, q + n - 1) = text[n] /\ p[q + n - 1] = text[n]
  <2> TAKE n \in 1 .. T
  <2>1. q + n - 1 \in 1 .. Len(p) /\ p[q + n - 1] = text[n]
    BY <1>0, <1>1
  <2> QED BY <1>0, <2>1, AtFacts
<1>4. At(p, q + T) = Close /\ Len(p) \in Nat /\ q + T <= Len(p)
  <2>1. Len(p) \in Nat /\ q + T \in 1 .. Len(p) /\ p[q + T] = Close
    BY <1>0
  <2>2. \A k \in 1 .. Len(p) : At(p, k) = p[k]
    BY <1>0, AtFacts
  <2>3. q + T <= Len(p)
    BY <2>1
  <2> HIDE DEF T
  <2> QED BY <2>1, <2>2, <2>3
<1>5. \A n \in Int : Ranges(text, n) => ~Ranges(text, n + 1)
  <2>1. \A n \in Int : Ranges(text, n) => n \in 1 .. T
    BY <1>1 DEF Ranges
  <2> QED BY <1>0, <1>1, <2>1 DEF SetText
<1> QED BY <1>0, <1>1, <1>2, <1>3, <1>4, <1>5

\* One character or range: what InSet finds from it on is right if what it
\* finds behind it is.
LEMMA ScanStepRight ==
  ASSUME NEW c \in Int, NEW p, NEW q, NEW text, SetAt(p, q, text),
         NEW m \in 1 .. Len(text), ~Ranges(text, m), NEW f, BehindRight(f, text, c, q, m)
  PROVE  ScanRight(ScanStep(f, c, p, q + m - 1), text, c, q, m)
<1> DEFINE T == Len(text)
           k == q + m - 1
           lo == At(p, k)
           follow == At(p, k + 1)
           hi == At(p, k + 2)
           r == ScanStep(f, c, p, k)
           Result(in, where) == [ok |-> TRUE, in |-> in, at |-> where]
<1>1. /\ T \in Nat /\ T >= 1 /\ q \in Nat /\ q >= 1 /\ m \in Int /\ 1 <= m /\ m <= T
      /\ \A n \in 1 .. T : text[n] \in Int /\ text[n] # 0
  BY SetAtFacts
<1>2. \A n \in 2 .. T : text[n] # Close
  BY SetAtFacts
<1>5. Ranges(text, m + 1) => ~Ranges(text, m + 2)
  <2>1. \A n \in Int : Ranges(text, n) => ~Ranges(text, n + 1)
    BY SetAtFacts
  <2>2. m + 1 \in Int /\ m + 1 + 1 = m + 2
    BY <1>1
  <2> QED BY <2>1, <2>2
<1>6. lo = text[m] /\ (m = T => follow = Close) /\ (m < T => follow = text[m + 1])
      /\ (m + 1 = T => hi = Close) /\ (m + 1 < T => hi = text[m + 2])
  <2>1. (\A n \in 1 .. T : At(p, q + n - 1) = text[n]) /\ At(p, q + T) = Close
    BY SetAtFacts
  <2>2. k + 1 = q + (m + 1) - 1 /\ k + 2 = q + (m + 2) - 1
        /\ (m = T => k + 1 = q + T) /\ (m + 1 = T => k + 2 = q + T)
        /\ (m < T => m + 1 \in 1 .. T) /\ (m + 1 < T => m + 2 \in 1 .. T)
    <3> HIDE DEF T
    <3> QED BY <1>1
  <2>3. m \in 1 .. T /\ (~(m < T) => m >= T)
    BY <1>1
  <2> HIDE DEF k, T
  <2>4. At(p, k) = text[m]
    BY <2>1, <2>3 DEF k
  <2>5. (m = T => At(p, k + 1) = Close) /\ (m < T => At(p, k + 1) = text[m + 1])
    BY <2>1, <2>2
  <2>6. (m + 1 = T => At(p, k + 2) = Close) /\ (m + 1 < T => At(p, k + 2) = text[m + 2])
    BY <2>1, <2>2
  <2> QED BY <2>4, <2>5, <2>6
<1>0. Ranges(text, m + 1) <=> m + 1 <= T /\ text[m + 1] = Hyphen
  BY <1>1 DEF Ranges
<1> HIDE DEF lo, follow, hi, r, T
<1>7. CASE m = T
  <2>0. follow = Close
    BY <1>6, <1>7
  <2>1. r.ok = TRUE /\ (r.in <=> c = lo) /\ r.at = k + 1
    <3> DEFINE in == c = lo \/ (c = follow /\ follow # Close)
    <3>1. r = IF in \/ follow = Close THEN Result(in, k + 1) ELSE f[k + 1]
      BY <2>0 DEF ScanStep, r, lo, follow, hi, Close, Hyphen
    <3>2. in <=> c = lo
      BY <2>0
    <3> HIDE DEF in
    <3> QED BY <2>0, <3>1, <3>2
  <2>2. Has(text, c, m) <=> c = lo
    BY <1>0, <1>1, <1>6, <1>7 DEF Has
  <2>3. \A n \in m .. T : n = m
    BY <1>1, <1>7
  <2>4. (c = lo) <=> \E n \in m .. T : Has(text, c, n)
    BY <1>1, <2>2, <2>3
  <2>5. k + 1 \in q + m .. q + T
    BY <1>1, <1>7
  <2> HIDE DEF k
  <2> QED BY <2>1, <2>4, <2>5 DEF ScanRight, T, r, k
<1>8. CASE Ranges(text, m + 1) /\ m + 1 = T
  <2>1. follow = Hyphen /\ hi = Close
    BY <1>0, <1>1, <1>6, <1>8
  <2>2. r = Result(c >= lo, k + 2)
    BY <2>1 DEF ScanStep, r, lo, follow, hi, Close, Hyphen
  <2>3. lo \in Int
    BY <1>1, <1>6
  <2>4. Has(text, c, m) <=> c = lo \/ lo < c
    BY <1>6, <1>8 DEF Has, T
  <2>5. \A n \in m .. T : n = m \/ n = m + 1
    BY <1>1, <1>8
  <2>6. ~Has(text, c, m + 1)
    BY <1>8 DEF Has
  <2>7. (c >= lo) <=> c = lo \/ lo < c
    BY <2>3
  <2>8. m \in m .. T
    BY <1>1
  <2>9. (c >= lo) <=> \E n \in m .. T : Has(text, c, n)
    BY <2>4, <2>5, <2>6, <2>7, <2>8
  <2>10. k + 2 \in q + m .. q + T
    BY <1>1, <1>8
  <2>11. r.ok = TRUE /\ (r.in <=> c >= lo) /\ r.at = k + 2
    BY <2>2
  <2> HIDE DEF k
  <2> QED BY <2>9, <2>10, <2>11 DEF ScanRight, T, r, k
<1>9. CASE Ranges(text, m + 1) /\ m + 1 < T
  <2> DEFINE in == c \in {lo, hi} \/ (lo < c /\ c < hi)
  <2>1. m + 2 \in 2 .. T /\ m + 2 \in 1 .. T /\ m \in m .. T /\ m + 2 \in m .. T
    BY <1>1, <1>9
  <2>2. follow = Hyphen /\ hi = text[m + 2] /\ hi # Close /\ hi # 0
    BY <1>0, <1>1, <1>2, <1>6, <1>9, <2>1
  <2>3. r = IF in THEN Result(TRUE, k + 2) ELSE f[k + 2]
    <3>1. r = IF in THEN Result(in, k + 2) ELSE f[k + 2]
      BY <2>2 DEF ScanStep, r, lo, follow, hi, Hyphen
    <3>2. in \in BOOLEAN
      OBVIOUS
    <3> HIDE DEF in
    <3> QED BY <3>1, <3>2
  <2>4. ~Ranges(text, m + 2) /\ ~Has(text, c, m + 1)
    BY <1>5, <1>9 DEF Has
  <2>5. Has(text, c, m) <=> c = lo \/ (lo < c /\ c < hi)
    BY <1>6, <1>9, <2>2 DEF Has, T
  <2>6. c = hi => Has(text, c, m + 2)
    BY <2>2, <2>4 DEF Has
  <2>7. in <=> Has(text, c, m) \/ c = hi
    BY <2>5
  <2> HIDE DEF in
  <2>8. CASE in
    <3>1. \E n \in m .. T : Has(text, c, n)
      BY <2>1, <2>6, <2>7, <2>8
    <3>2. k + 2 \in q + m .. q + T
      BY <1>1, <1>9
    <3>3. r.ok = TRUE /\ r.in = TRUE /\ r.at = k + 2
      BY <2>3, <2>8
    <3> HIDE DEF k
    <3> QED BY <3>1, <3>2, <3>3 DEF ScanRight, T, r, k
  <2>9. CASE ~in
    <3>1. m + 2 \in m + 1 .. T /\ k + 2 = q + (m + 2) - 1
      BY <1>1, <1>9
    <3>2. ScanRight(r, text, c, q, m + 2)
      <4> HIDE DEF k
      <4> QED BY <2>3, <2>4, <2>9, <3>1 DEF BehindRight, T
    <3>3. r.ok = TRUE /\ r.at \in q + (m + 2) .. q + T
          /\ (r.in <=> \E n \in m + 2 .. T : Has(text, c, n))
      BY <3>2 DEF ScanRight, T
    <3>4. \A n \in m .. T : n \in m + 2 .. T \/ n = m \/ n = m + 1
      BY <1>1
    <3>5. \A n \in m + 2 .. T : n \in m .. T
      BY <1>1
    <3>6. r.at \in q + m .. q + T
      BY <1>1, <3>3
    <3>7. ~Has(text, c, m)
      BY <2>7, <2>9
    <3>8. r.in <=> \E n \in m .. T : Has(text, c, n)
      BY <2>4, <3>3, <3>4, <3>5, <3>7
    <3> QED BY <3>3, <3>6, <3>8 DEF ScanRight, r, T
  <2> QED BY <2>8, <2>9
<1>10. CASE ~Ranges(text, m + 1) /\ m < T
  <2> DEFINE in == c = lo \/ c = follow
  <2>1. m + 1 \in 2 .. T /\ m + 1 \in 1 .. T /\ m \in m .. T /\ m + 1 \in m .. T /\ m + 1 <= T
    BY <1>1, <1>10
  <2>2. follow = text[m + 1] /\ follow # Hyphen /\ follow # Close /\ follow # 0
    BY <1>0, <1>1, <1>2, <1>6, <1>10, <2>1
  <2>3. r = IF in THEN Result(TRUE, k + 1) ELSE f[k + 1]
    BY <2>2 DEF ScanStep, r, lo, follow, hi, Hyphen
  <2>4. Has(text, c, m) <=> c = lo
    BY <1>6, <1>10 DEF Has
  <2>5. c = follow => Has(text, c, m + 1)
    BY <1>10, <2>2 DEF Has
  <2>6. CASE in
    <3>1. \E n \in m .. T : Has(text, c, n)
      BY <2>1, <2>4, <2>5, <2>6
    <3>2. k + 1 \in q + m .. q + T
      BY <1>1, <1>10
    <3>3. r.ok = TRUE /\ r.in = TRUE /\ r.at = k + 1
      BY <2>3, <2>6
    <3> HIDE DEF k
    <3> QED BY <3>1, <3>2, <3>3 DEF ScanRight, T, r, k
  <2>7. CASE ~in
    <3>1. m + 1 \in m + 1 .. T /\ k + 1 = q + (m + 1) - 1
      BY <1>1, <1>10
    <3>2. ScanRight(r, text, c, q, m + 1)
      <4> HIDE DEF k
      <4> QED BY <1>10, <2>3, <2>7, <3>1 DEF BehindRight, T
    <3>3. r.ok = TRUE /\ r.at \in q + (m + 1) .. q + T
          /\ (r.in <=> \E n \in m + 1 .. T : Has(text, c, n))
      BY <3>2 DEF ScanRight, T
    <3>4. \A n \in m .. T : n \in m + 1 .. T \/ n = m
      BY <1>1
    <3>5. \A n \in m + 1 .. T : n \in m .. T
      BY <1>1
    <3>6. r.at \in q + m .. q + T
      BY <1>1, <3>3
    <3>7. r.in <=> \E n \in m .. T : Has(text, c, n)
      BY <2>4, <2>7, <3>3, <3>4, <3>5
    <3> QED BY <3>3, <3>6, <3>7 DEF ScanRight, r, T
  <2> QED BY <2>6, <2>7
<1>11. m = T \/ (m + 1 = T /\ m < T) \/ (m + 1 < T /\ m < T)
  BY <1>1
<1> QED BY <1>7, <1>8, <1>9, <1>10, <1>11 DEF r

\* A set in a pattern is read as what it denotes, up to its bracket.
LEMMA SetRead ==
  ASSUME NEW c \in Int, NEW p, NEW q, NEW text, SetAt(p, q, text)
  PROVE  /\ InSet(c, p, q).ok = TRUE
         /\ InSet(c, p, q).in <=> Denotes(text, c)
         /\ Find(p, InSet(c, p, q).at, {Close}) = q + Len(text)
<1> DEFINE T == Len(text)
<1>1. T \in Nat /\ T >= 1 /\ DOMAIN text = 1 .. T /\ Len(p) \in Nat
      /\ q \in Nat /\ q >= 1 /\ q + T <= Len(p)
  BY SetAtFacts
<1> HIDE DEF T
<1>2. PICK f : /\ \A k : InSet(c, p, k) = f[k]
               /\ \A k \in 1 .. Len(p) + 1 : f[k] = ScanStep(f, c, p, k)
  BY ScanUnfolds DEF SetAt
<1> DEFINE S == {m \in 1 .. T : ~Ranges(text, m) => ScanRight(f[q + m - 1], text, c, q, m)}
<1>3. \A m \in 1 .. T : (\A k \in m + 1 .. T : k \in S) => m \in S
  <2> SUFFICES ASSUME NEW m \in 1 .. T, \A k \in m + 1 .. T : k \in S, ~Ranges(text, m)
               PROVE  ScanRight(f[q + m - 1], text, c, q, m)
    OBVIOUS
  <2>1. BehindRight(f, text, c, q, m)
    BY DEF BehindRight, T
  <2>2. q + m - 1 \in 1 .. Len(p) + 1
    BY <1>1
  <2> HIDE DEF S
  <2>3. ScanRight(ScanStep(f, c, p, q + m - 1), text, c, q, m)
    BY <2>1, ScanStepRight DEF T
  <2> QED BY <1>2, <2>2, <2>3
<1>4. 1 \in S
  <2> HIDE DEF S
  <2>1. \A m \in 1 .. T : m \in S
    <3>1. 1 \in Int /\ T \in Int
      BY <1>1
    <3> QED BY <1>3, <3>1, Backwards
  <2> QED BY <1>1, <2>1
<1>5. ScanRight(InSet(c, p, q), text, c, q, 1)
  <2>1. ~Ranges(text, 1) /\ q + 1 - 1 = q
    BY <1>1 DEF Ranges
  <2> QED BY <1>2, <1>4, <2>1
<1> DEFINE r == InSet(c, p, q)
<1>6. r.ok = TRUE /\ (r.in <=> \E n \in 1 .. T : Has(text, c, n)) /\ r.at \in q + 1 .. q + T
  BY <1>5 DEF ScanRight, T
<1>7. Denotes(text, c) <=> \E n \in 1 .. T : Has(text, c, n)
  BY <1>1 DEF Denotes, Has
<1> HIDE DEF r
<1>8. Find(p, r.at, {Close}) = q + T
  <2> DEFINE i == r.at
             k == Find(p, i, {Close})
  <2>1. i \in Nat \ {0} /\ i \in q + 1 .. q + T
    BY <1>1, <1>6
  <2> HIDE DEF i
  <2>2. \A x \in i .. q + T - 1 : p[x] # Close
    <3> TAKE x \in i .. q + T - 1
    <3>1. x - q \in 1 .. T - 1 /\ x - q + 1 \in 1 .. T /\ q + (x - q + 1) - 1 = x
      BY <1>1, <2>1
    <3>2. p[x] = text[x - q + 1]
      <4>1. \A n \in 1 .. T : p[q + n - 1] = text[n]
        <5>1. \A n \in 1 .. Len(text) : At(p, q + n - 1) = text[n] /\ p[q + n - 1] = text[n]
          BY SetAtFacts
        <5> QED BY <5>1 DEF T
      <4> QED BY <3>1, <4>1
    <3>3. x - q + 1 \in 2 .. T
      BY <1>1, <3>1
    <3> QED BY <3>2, <3>3, SetAtFacts DEF T
  <2>3. \/ k \in i .. Len(p) /\ p[k] \in {Close} /\ \A x \in i .. k - 1 : p[x] \notin {Close}
        \/ k = Len(p) + 1 /\ \A x \in i .. Len(p) : p[x] \notin {Close}
    BY <1>1, <2>1, Found
  <2> HIDE DEF k
  <2>4. q + T \in i .. Len(p) /\ p[q + T] = Close
    BY <1>1, <2>1, SetAtFacts DEF T
  <2>5. k \in i .. Len(p) /\ p[k] = Close /\ \A x \in i .. k - 1 : p[x] # Close
    BY <2>3, <2>4
  <2>6. ~(k < q + T)
    BY <1>1, <2>1, <2>2, <2>5
  <2>7. ~(q + T < k)
    BY <1>1, <2>1, <2>4, <2>5
  <2> QED BY <1>1, <2>1, <2>5, <2>6, <2>7 DEF k, i
<1> QED BY <1>6, <1>7, <1>8 DEF r, T

----------------------------------------------------------------------------
(* Glob, and the alternatives in braces *)

\* What is known about a place of the pattern: one answer for each of the string.
Row(s) == [1 .. Len(s) + 1 -> BOOLEAN]

\* The value of From[n][i] in Glob.
GlobAt(f, s, items, n, i) ==
    IF n > Len(items) THEN i > Len(s)
    ELSE \E k \in i .. Len(s) + 1 : Takes(items[n], s, i, k) /\ f[n + 1][k]

\* g has the values of From.
GlobRun(g, s, items) ==
    /\ g \in [1 .. Len(items) + 1 -> Row(s)]
    /\ \A n \in 1 .. Len(items) + 1 : \A i \in 1 .. Len(s) + 1 : g[n][i] = GlobAt(g, s, items, n, i)

\* From in Glob, unfolded.
LEMMA GlobUnfolds ==
  ASSUME NEW s, Len(s) \in Nat, NEW items, Len(items) \in Nat
  PROVE  \E g : GlobRun(g, s, items) /\ Glob(s, items) = g[1][1]
<1> DEFINE n == Len(items) + 1
           m == Len(s) + 1
           V == [1 .. m -> BOOLEAN]
           Step(f, k) == [i \in 1 .. m |-> GlobAt(f, s, items, k, i)]
           h == [k \in 1 .. n |-> [f \in [1 .. n -> V] |-> Step(f, k)]]
           Cond(f) == f = [k \in 1 .. n |-> Step(f, k)]
           f == CHOOSE f : Cond(f)
<1>1. n \in Nat /\ 1 \in 1 .. n /\ 1 \in Int /\ n \in Int /\ 1 \in 1 .. m
  OBVIOUS
<1>2. \A k, i, g : GlobAt(g, s, items, k, i) \in BOOLEAN
  <2> TAKE k, i, g
  <2>1. CASE k > Len(items)
    BY <2>1 DEF GlobAt
  <2>2. CASE ~(k > Len(items))
    BY <2>2 DEF GlobAt
  <2> QED BY <2>1, <2>2
<1>3. \A k, g : Step(g, k) \in V
  BY <1>2
<1>4. ASSUME NEW k \in 1 .. n, NEW f1 \in [1 .. n -> V], NEW f2 \in [1 .. n -> V],
             \A q \in k + 1 .. n : f1[q] = f2[q]
      PROVE  Step(f1, k) = Step(f2, k)
  <2>1. ~(k > Len(items)) => f1[k + 1] = f2[k + 1]
    <3> SUFFICES ASSUME ~(k > Len(items)) PROVE k + 1 \in k + 1 .. n
      BY <1>4
    <3> QED OBVIOUS
  <2>2. \A i : GlobAt(f1, s, items, k, i) = GlobAt(f2, s, items, k, i)
    BY <2>1 DEF GlobAt
  <2> QED BY <2>2
<1>5. Rows(h, 1, n, V)
  <2> HIDE DEF n, V, Step
  <2>1. h \in [1 .. n -> [[1 .. n -> V] -> V]]
    BY <1>3
  <2> QED BY <1>4, <2>1 DEF Rows
<1>6. [i \in 1 .. m |-> TRUE] \in V
  OBVIOUS
<1>7. PICK g : Solves(g, h, 1, n, V)
  <2> HIDE DEF n, V, h
  <2> QED BY <1>1, <1>5, <1>6, RowsExist
<1>8. Cond(g)
  <2> HIDE DEF n, V, Step
  <2>1. g \in [1 .. n -> V] /\ \A k \in 1 .. n : g[k] = Step(g, k)
    BY <1>7 DEF Solves
  <2>2. g = [k \in 1 .. n |-> g[k]]
    BY <2>1
  <2> QED BY <2>1, <2>2
<1>9. Cond(f)
  <2> HIDE DEF Cond
  <2> QED BY <1>8
<1>10. Glob(s, items) = f[1][1]
  BY DEF Glob, GlobAt
<1> HIDE DEF f
<1>11. f \in [1 .. n -> V] /\ \A k \in 1 .. n : f[k] = Step(f, k)
  <2> HIDE DEF n, V, Step
  <2> QED BY <1>3, <1>9
<1>12. GlobRun(f, s, items)
  <2>1. \A k \in 1 .. n : \A i \in 1 .. m : f[k][i] = GlobAt(f, s, items, k, i)
    BY <1>11
  <2> QED BY <1>11, <2>1 DEF GlobRun, Row
<1> QED BY <1>10, <1>12

\* The value of List[k][a] in Alternatives.
AltAt(f, M, s, p, j, start, k, a) ==
    LET rest == Remainder(p, j)
        x == At(p, k)
        skip == Find(p, k + 1, {CommaChar, CloseBrace})
    IN  CASE x = 0 -> FALSE
          [] x = CommaChar  -> M[rest][a] \/ f[k + 2][start]
          [] x = CloseBrace -> M[k + 1][a]
          [] x \notin {0, CommaChar, CloseBrace} /\ x = At(s, a) ->
                ~(a = Len(s) /\ rest <= Len(p)) /\ f[k + 1][a + 1]
          [] OTHER -> At(p, skip) = CommaChar /\ f[skip + 1][start]

\* An alternative matches or does not.
LEMMA AltBool ==
  ASSUME NEW f, NEW M, NEW s, NEW p, NEW j, NEW start, NEW k, NEW a,
         At(p, k) = CloseBrace => M[k + 1][a] \in BOOLEAN
  PROVE  AltAt(f, M, s, p, j, start, k, a) \in BOOLEAN
<1> USE DEF CommaChar, CloseBrace
<1>1. CASE At(p, k) = 0
  BY <1>1 DEF AltAt
<1>2. CASE At(p, k) = CommaChar
  BY <1>2 DEF AltAt
<1>3. CASE At(p, k) = CloseBrace
  BY <1>3 DEF AltAt
<1>4. CASE At(p, k) \notin {0, CommaChar, CloseBrace} /\ At(p, k) = At(s, a)
  BY <1>4 DEF AltAt
<1>5. CASE At(p, k) \notin {0, CommaChar, CloseBrace} /\ At(p, k) # At(s, a)
  BY <1>5 DEF AltAt
<1> QED BY <1>1, <1>2, <1>3, <1>4, <1>5

\* f and g, and M and N, agree where List looks from k.
Alike(f, g, M, N, p, j, k) ==
    LET skip == Find(p, k + 1, {CommaChar, CloseBrace})
    IN  /\ At(p, k) # 0 => f[k + 1] = g[k + 1] /\ f[k + 2] = g[k + 2] /\ M[k + 1] = N[k + 1]
        /\ M[Remainder(p, j)] = N[Remainder(p, j)]
        /\ At(p, skip) = CommaChar => f[skip + 1] = g[skip + 1]

\* It depends on the places behind it only.
LEMMA AltAgree ==
  ASSUME NEW f, NEW g, NEW M, NEW N, NEW s, NEW p, NEW j, NEW start, NEW k, NEW a,
         Alike(f, g, M, N, p, j, k)
  PROVE  AltAt(f, M, s, p, j, start, k, a) = AltAt(g, N, s, p, j, start, k, a)
<1> USE DEF CommaChar, CloseBrace, Alike
<1>1. CASE At(p, k) = 0
  BY <1>1 DEF AltAt
<1>2. CASE At(p, k) = CommaChar
  BY <1>2 DEF AltAt
<1>3. CASE At(p, k) = CloseBrace
  BY <1>3 DEF AltAt
<1>4. CASE At(p, k) \notin {0, CommaChar, CloseBrace} /\ At(p, k) = At(s, a)
  BY <1>4 DEF AltAt
<1>5. CASE At(p, k) \notin {0, CommaChar, CloseBrace} /\ At(p, k) # At(s, a)
  BY <1>5 DEF AltAt
<1> QED BY <1>1, <1>2, <1>3, <1>4, <1>5

\* f has the values of List.
AltRun(f, M, s, p, j, start) ==
    /\ f \in [j + 1 .. Len(p) + 2 -> Row(s)]
    /\ \A k \in j + 1 .. Len(p) + 2 : \A a \in 1 .. Len(s) + 1 :
          f[k][a] = AltAt(f, M, s, p, j, start, k, a)

\* What Match may be, in any place.
MatchType(M, s, p) == M \in [1 .. Len(p) + 1 -> Row(s)]

\* One value of List from the others ...
AltStep(f, M, s, p, j, start, k) == [a \in 1 .. Len(s) + 1 |-> AltAt(f, M, s, p, j, start, k, a)]

\* ... as a function of them.
AltHow(M, s, p, j, start) ==
    [k \in j + 1 .. Len(p) + 2 |->
        [f \in [j + 1 .. Len(p) + 2 -> Row(s)] |-> AltStep(f, M, s, p, j, start, k)]]

\* So List is a recursive function of this kind ...
LEMMA AltRows ==
  ASSUME NEW s \in Seq(Chars), NEW p \in Seq(Chars), NEW M, MatchType(M, s, p),
         NEW j \in 1 .. Len(p), NEW start
  PROVE  /\ Rows(AltHow(M, s, p, j, start), j + 1, Len(p) + 2, Row(s))
         /\ \A f \in [j + 1 .. Len(p) + 2 -> Row(s)] : \A k \in j + 1 .. Len(p) + 2 :
               AltHow(M, s, p, j, start)[k][f] = AltStep(f, M, s, p, j, start, k)
<1> DEFINE n == Len(p) + 2
           l == j + 1
           F == [l .. n -> Row(s)]
           h == AltHow(M, s, p, j, start)
<1>1. /\ Len(p) \in Nat /\ Len(s) \in Nat
      /\ \A k \in Int : At(p, k) \in Int /\ (At(p, k) # 0 => 1 <= k /\ k <= Len(p))
  <2>1. Len(p) \in Nat /\ Len(s) \in Nat
    OBVIOUS
  <2>2. \A k \in Int : At(p, k) \in Int /\ (At(p, k) # 0 => 1 <= k /\ k <= Len(p))
    BY AtFacts
  <2> QED BY <2>1, <2>2
<1>2. ASSUME NEW k \in l .. n, NEW f PROVE AltStep(f, M, s, p, j, start, k) \in Row(s)
  <2>1. ASSUME NEW a \in 1 .. Len(s) + 1 PROVE AltAt(f, M, s, p, j, start, k, a) \in BOOLEAN
    <3>1. CloseBrace # 0
      BY DEF CloseBrace
    <3>2. At(p, k) = CloseBrace => M[k + 1][a] \in BOOLEAN
      <4> SUFFICES ASSUME At(p, k) # 0 PROVE M[k + 1][a] \in BOOLEAN
        BY <3>1
      <4>1. k \in Int
        OBVIOUS
      <4>2. k + 1 \in 1 .. Len(p) + 1
        BY <1>1, <4>1
      <4>3. M[k + 1] \in Row(s)
        BY <4>2 DEF MatchType
      <4> QED BY <4>3 DEF Row
    <3> QED BY <3>2, AltBool
  <2> QED BY <2>1 DEF AltStep, Row
<1>3. ASSUME NEW k \in l .. n, NEW f \in F, NEW g \in F, \A m \in k + 1 .. n : f[m] = g[m]
      PROVE  AltStep(f, M, s, p, j, start, k) = AltStep(g, M, s, p, j, start, k)
  <2> DEFINE skip == Find(p, k + 1, {CommaChar, CloseBrace})
  <2>1. k \in Int /\ k >= 1
    BY <1>1
  <2>2. At(p, k) # 0 => f[k + 1] = g[k + 1] /\ f[k + 2] = g[k + 2]
    <3> SUFFICES ASSUME At(p, k) # 0 PROVE k + 1 \in k + 1 .. n /\ k + 2 \in k + 1 .. n
      BY <1>3
    <3> QED BY <1>1, <2>1
  <2>3. At(p, skip) = CommaChar => f[skip + 1] = g[skip + 1]
    <3> SUFFICES ASSUME At(p, skip) = CommaChar PROVE skip + 1 \in k + 1 .. n
      BY <1>3
    <3>1. \/ skip \in k + 1 .. Len(p)
          \/ skip = Len(p) + 1
      <4>1. k + 1 \in Nat \ {0}
        BY <2>1
      <4> HIDE DEF skip
      <4> QED BY <1>1, <4>1, Found DEF skip
    <3>2. skip \in Int
      BY <1>1, <2>1, <3>1
    <3>3. At(p, skip) # 0
      BY <3>2 DEF CommaChar
    <3> HIDE DEF skip
    <3>4. skip <= Len(p)
      BY <1>1, <3>2, <3>3
    <3> HIDE DEF F, h, l
    <3>5. skip >= k + 1
      BY <1>1, <2>1, <3>1, <3>4
    <3> QED BY <1>1, <2>1, <3>2, <3>4, <3>5
  <2>4. \A a : AltAt(f, M, s, p, j, start, k, a) = AltAt(g, M, s, p, j, start, k, a)
    <3> TAKE a
    <3>1. Alike(f, g, M, M, p, j, k)
      BY <2>2, <2>3 DEF Alike
    <3> QED BY <3>1, AltAgree
  <2> QED BY <2>4 DEF AltStep
<1>4. \A f \in F : \A k \in l .. n : h[k][f] = AltStep(f, M, s, p, j, start, k)
  BY DEF AltHow
<1>5. h \in [l .. n -> [F -> Row(s)]]
  <2> HIDE DEF F
  <2>1. h = [k \in l .. n |-> [f \in F |-> AltStep(f, M, s, p, j, start, k)]]
    BY DEF AltHow, F
  <2> HIDE DEF h, l, n
  <2> QED BY <1>2, <2>1
<1> HIDE DEF h, l, n
<1>6. Rows(h, l, n, Row(s))
  <2> HIDE DEF F
  <2>1. ASSUME NEW k \in l .. n, NEW f \in F, NEW g \in F, \A m \in k + 1 .. n : f[m] = g[m]
        PROVE  h[k][f] = h[k][g]
    BY <1>3, <1>4, <2>1
  <2> QED BY <1>5, <2>1 DEF Rows, F
<1> QED BY <1>4, <1>6 DEF h, l, n

\* ... and Alternatives can be unfolded.
LEMMA AlternativesUnfold ==
  ASSUME NEW s \in Seq(Chars), NEW p \in Seq(Chars), NEW M, MatchType(M, s, p),
         NEW j \in 1 .. Len(p), NEW start
  PROVE  \E f : AltRun(f, M, s, p, j, start) /\ Alternatives(M, s, p, j, start) = f[j + 1][start]
<1> DEFINE n == Len(p) + 2
           l == j + 1
           V == Row(s)
           h == AltHow(M, s, p, j, start)
           Step(f, k) == AltStep(f, M, s, p, j, start, k)
           Cond(f) == f = [k \in l .. n |-> Step(f, k)]
           f == CHOOSE f : Cond(f)
<1>1. n \in Int /\ l \in Int
  OBVIOUS
<1>2. Rows(h, l, n, V) /\ \A g \in [l .. n -> V] : \A k \in l .. n : h[k][g] = Step(g, k)
  BY AltRows
<1>3. [i \in 1 .. Len(s) + 1 |-> TRUE] \in V
  BY DEF Row
<1>4. PICK g : Solves(g, h, l, n, V)
  <2> HIDE DEF n, l, V, h
  <2> QED BY <1>1, <1>2, <1>3, RowsExist
<1>5. g \in [l .. n -> V] /\ \A k \in l .. n : g[k] = Step(g, k)
  BY <1>2, <1>4 DEF Solves
<1>6. Cond(g)
  <2> HIDE DEF n, l, V, Step
  <2>1. g = [k \in l .. n |-> g[k]]
    BY <1>5
  <2> QED BY <1>5, <2>1
<1>7. Cond(f)
  <2> HIDE DEF Cond
  <2> QED BY <1>6
<1>8. Alternatives(M, s, p, j, start) = f[j + 1][start]
  BY DEF Alternatives, AltStep, AltAt
<1> HIDE DEF f
<1>9. f = [k \in l .. n |-> Step(f, k)]
  BY <1>7
<1>10. \A k \in l .. n : f[k] = Step(f, k)
  <2> HIDE DEF n, l, Step
  <2> QED BY <1>9
<1>11. f \in [l .. n -> V]
  <2>1. \A k \in l .. n : h[k] \in [[l .. n -> V] -> V]
    BY <1>2 DEF Rows
  <2>2. \A k \in l .. n : Step(f, k) \in V
    <3> TAKE k \in l .. n
    <3>1. ASSUME NEW a \in 1 .. Len(s) + 1 PROVE AltAt(f, M, s, p, j, start, k, a) \in BOOLEAN
      <4>1. At(p, k) = CloseBrace => M[k + 1][a] \in BOOLEAN
        <5> SUFFICES ASSUME At(p, k) = CloseBrace PROVE M[k + 1][a] \in BOOLEAN
          OBVIOUS
        <5>1. k \in Int /\ k >= 1
          OBVIOUS
        <5>2. At(p, k) # 0
          BY DEF CloseBrace
        <5>3. k <= Len(p)
          BY <5>1, <5>2, AtFacts
        <5>4. k + 1 \in 1 .. Len(p) + 1
          BY <5>1, <5>3
        <5>5. M[k + 1] \in Row(s)
          BY <5>4 DEF MatchType
        <5> QED BY <5>5 DEF Row
      <4> QED BY <4>1, AltBool
    <3> QED BY <3>1 DEF AltStep, Row
  <2> HIDE DEF n, l, Step, V
  <2> QED BY <1>9, <2>2
<1>12. AltRun(f, M, s, p, j, start)
  <2>1. \A k \in l .. n : \A a \in 1 .. Len(s) + 1 : f[k][a] = AltAt(f, M, s, p, j, start, k, a)
    BY <1>10 DEF AltStep
  <2> QED BY <1>11, <2>1 DEF AltRun
<1> QED BY <1>8, <1>12

\* What Remainder can be.
LEMMA RemainderFacts ==
  ASSUME NEW p \in Seq(Chars), NEW j \in 1 .. Len(p)
  PROVE  Remainder(p, j) \in j + 2 .. Len(p) + 2
<1>1. j + 1 \in Nat \ {0} /\ Len(p) \in Nat
  OBVIOUS
<1> DEFINE k == Find(p, j + 1, {CloseBrace})
<1>2. k \in j + 1 .. Len(p) \/ k = Len(p) + 1
  BY <1>1, Found
<1>3. Remainder(p, j) = k + 1
  BY DEF Remainder
<1> HIDE DEF k
<1> QED BY <1>1, <1>2, <1>3

\* What unfolds List solves it.
LEMMA AltSolves ==
  ASSUME NEW s \in Seq(Chars), NEW p \in Seq(Chars), NEW M, MatchType(M, s, p),
         NEW j \in 1 .. Len(p), NEW start, NEW f, f \in [j + 1 .. Len(p) + 2 -> Row(s)],
         \A k \in j + 1 .. Len(p) + 2 : \A a \in 1 .. Len(s) + 1 :
            f[k][a] = AltAt(f, M, s, p, j, start, k, a)
  PROVE  Solves(f, AltHow(M, s, p, j, start), j + 1, Len(p) + 2, Row(s))
<1> DEFINE n == Len(p) + 2
           l == j + 1
<1>1. ASSUME NEW k \in l .. n PROVE f[k] = AltHow(M, s, p, j, start)[k][f]
  <2>1. f[k] = AltStep(f, M, s, p, j, start, k)
    <3>1. \A a \in 1 .. Len(s) + 1 : f[k][a] = AltAt(f, M, s, p, j, start, k, a)
      OBVIOUS
    <3>2. f[k] \in Row(s)
      OBVIOUS
    <3>3. f[k] = [a \in 1 .. Len(s) + 1 |-> f[k][a]]
      BY <3>2 DEF Row
    <3> HIDE DEF n, l
    <3> QED BY <3>1, <3>3 DEF AltStep
  <2>2. \A g \in [l .. n -> Row(s)] : AltHow(M, s, p, j, start)[k][g] = AltStep(g, M, s, p, j, start, k)
    BY AltRows
  <2> QED BY <2>1, <2>2
<1> QED BY <1>1 DEF Solves

\* The alternatives depend on what matches behind the brace.
LEMMA AlternativesAgree ==
  ASSUME NEW s \in Seq(Chars), NEW p \in Seq(Chars), NEW M, MatchType(M, s, p),
         NEW N, MatchType(N, s, p), NEW j \in 1 .. Len(p), NEW start,
         \A m \in j + 1 .. Len(p) + 1 : M[m] = N[m], Remainder(p, j) <= Len(p) + 1
  PROVE  Alternatives(M, s, p, j, start) = Alternatives(N, s, p, j, start)
<1> DEFINE n == Len(p) + 2
           l == j + 1
           h == AltHow(M, s, p, j, start)
<1>1. PICK f : AltRun(f, M, s, p, j, start) /\ Alternatives(M, s, p, j, start) = f[l][start]
  BY AlternativesUnfold
<1>2. PICK g : AltRun(g, N, s, p, j, start) /\ Alternatives(N, s, p, j, start) = g[l][start]
  BY AlternativesUnfold
<1>3. Solves(f, h, l, n, Row(s))
  BY <1>1, AltSolves DEF AltRun
<1>4. ASSUME NEW k \in l .. n, NEW a \in 1 .. Len(s) + 1
      PROVE  g[k][a] = AltAt(g, M, s, p, j, start, k, a)
  <2>1. M[Remainder(p, j)] = N[Remainder(p, j)]
    <3>1. Remainder(p, j) \in j + 1 .. Len(p) + 1
      BY RemainderFacts
    <3> QED BY <3>1
  <2>2. At(p, k) # 0 => M[k + 1] = N[k + 1]
    <3> SUFFICES ASSUME At(p, k) # 0 PROVE k + 1 \in j + 1 .. Len(p) + 1
      OBVIOUS
    <3>1. k \in Int /\ k >= j + 1
      OBVIOUS
    <3>2. k <= Len(p)
      BY <3>1, AtFacts
    <3> QED BY <3>1, <3>2
  <2>3. Alike(g, g, M, N, p, j, k)
    BY <2>1, <2>2 DEF Alike
  <2>4. AltAt(g, M, s, p, j, start, k, a) = AltAt(g, N, s, p, j, start, k, a)
    BY <2>3, AltAgree
  <2>5. g[k][a] = AltAt(g, N, s, p, j, start, k, a)
    BY <1>2 DEF AltRun
  <2> QED BY <2>4, <2>5
<1>5. Solves(g, h, l, n, Row(s))
  <2>1. g \in [l .. n -> Row(s)]
    BY <1>2 DEF AltRun
  <2> QED BY <1>4, <2>1, AltSolves
<1>6. Rows(h, l, n, Row(s)) /\ l \in Int /\ n \in Int
  BY AltRows
<1>7. f = g
  <2> HIDE DEF h, l, n
  <2> QED BY <1>3, <1>5, <1>6, RowsAgree
<1> QED BY <1>1, <1>2, <1>7

----------------------------------------------------------------------------
(* The matcher, place by place *)

\* The set, if there is one, has a bracket behind its first character.
LEMMA InSetEnds ==
  ASSUME NEW c \in Int, NEW p \in Seq(Chars), NEW q \in 1 .. Len(p) + 1
  PROVE  /\ InSet(c, p, q).in \in BOOLEAN
         /\ InSet(c, p, q).ok => InSet(c, p, q).at \in q + 1 .. Len(p)
<1> DEFINE n == Len(p)
<1>1. /\ n \in Nat
      /\ \A k \in Int : At(p, k) \in Int /\ (At(p, k) # 0 => 1 <= k /\ k <= n)
  <2>1. n \in Nat
    OBVIOUS
  <2>2. \A k \in Int : At(p, k) \in Int /\ (At(p, k) # 0 => 1 <= k /\ k <= n)
    BY AtFacts
  <2> QED BY <2>1, <2>2
<1>2. PICK f : /\ \A k : InSet(c, p, k) = f[k]
               /\ \A k \in 1 .. Len(p) + 1 : f[k] = ScanStep(f, c, p, k)
  BY ScanUnfolds
<1> HIDE DEF n
<1> DEFINE S == {k \in 1 .. n + 1 : f[k].in \in BOOLEAN /\ (f[k].ok => f[k].at \in k + 1 .. n)}
<1>3. ASSUME NEW k \in 1 .. n + 1, \A m \in k + 1 .. n + 1 : m \in S PROVE k \in S
  <2> DEFINE lo == At(p, k)
             follow == At(p, k + 1)
             hi == At(p, k + 2)
  <2>1. f[k] = ScanStep(f, c, p, k)
    BY <1>2 DEF n
  <2>2. /\ follow # 0 => k + 1 \in k + 1 .. n
        /\ hi # 0 => k + 2 \in k + 1 .. n
    <3>1. k + 1 \in Int /\ k + 2 \in Int /\ k \in Int
      OBVIOUS
    <3>2. (follow # 0 => k + 1 <= n) /\ (hi # 0 => k + 2 <= n)
      BY <1>1, <3>1
    <3> HIDE DEF follow, hi
    <3> QED BY <1>1, <3>1, <3>2
  <2>3. ASSUME NEW m \in k + 1 .. n PROVE f[m].in \in BOOLEAN /\ (f[m].ok => f[m].at \in k + 1 .. n)
    <3>1. m \in k + 1 .. n + 1
      BY <1>1
    <3>2. m \in S
      BY <1>3, <3>1
    <3>3. f[m].in \in BOOLEAN /\ (f[m].ok => f[m].at \in m + 1 .. n)
      BY <3>2
    <3>4. m + 1 .. n \subseteq k + 1 .. n
      OBVIOUS
    <3> QED BY <3>3, <3>4
  <2> HIDE DEF lo, follow, hi, S
  <2>4. CASE follow = 0 \/ (follow = Hyphen /\ hi = 0)
    <3>1. ScanStep(f, c, p, k) = NoSet
      BY <2>4 DEF ScanStep, Hyphen, lo, follow, hi
    <3>2. NoSet.in = FALSE /\ NoSet.ok = FALSE
      BY DEF NoSet
    <3>3. f[k].in = FALSE /\ f[k].ok = FALSE
      BY <2>1, <3>1, <3>2
    <3> QED BY <3>3 DEF S
  <2>5. CASE follow = Hyphen /\ hi # 0 /\ follow # 0
    <3> DEFINE in == IF hi = Close THEN c >= lo ELSE c \in {lo, hi} \/ (lo < c /\ c < hi)
    <3>1. ScanStep(f, c, p, k) = IF in \/ hi = Close THEN [ok |-> TRUE, in |-> in, at |-> k + 2]
                                 ELSE f[k + 2]
      BY <2>5 DEF ScanStep, Hyphen, lo, follow, hi
    <3>2. in \in BOOLEAN
      <4>1. CASE hi = Close
        BY <4>1
      <4>2. CASE hi # Close
        BY <4>2
      <4> QED BY <4>1, <4>2
    <3> HIDE DEF in
    <3> QED BY <2>1, <2>2, <2>3, <2>5, <3>1, <3>2 DEF S
  <2>6. CASE follow \notin {0, Hyphen}
    <3> DEFINE in == c = lo \/ (c = follow /\ follow # Close)
    <3>1. ScanStep(f, c, p, k) = IF in \/ follow = Close THEN [ok |-> TRUE, in |-> in, at |-> k + 1]
                                 ELSE f[k + 1]
      BY <2>6 DEF ScanStep, Hyphen, lo, follow, hi
    <3>2. in \in BOOLEAN
      OBVIOUS
    <3> HIDE DEF in
    <3> QED BY <2>1, <2>2, <2>3, <2>6, <3>1, <3>2 DEF S
  <2> QED BY <2>4, <2>5, <2>6
<1>4. \A k \in 1 .. n + 1 : k \in S
  <2> HIDE DEF S
  <2>1. 1 \in Int /\ n + 1 \in Int
    BY <1>1
  <2> QED BY <1>3, <2>1, Backwards
<1>5. f[q].in \in BOOLEAN /\ (f[q].ok => f[q].at \in q + 1 .. n)
  BY <1>4 DEF n
<1> QED BY <1>2, <1>5 DEF n

\* The value of Match[j][i] in LoPatternMatch.
MatchAt(M, s, p, j, i) ==
    LET c == At(p, j)
        more == i <= Len(s)
        negated == At(p, j + 1) = Negate
        set == InSet(At(s, i), p, IF negated THEN j + 2 ELSE j + 1)
        setEnd == Find(p, set.at, {Close})
        star == Find(p, j, NotStars)
    IN  CASE c = 0 -> ~more
          [] c = Star -> \/ star > Len(p)
                         \/ \E a \in StarFrom(s, i, p, star) .. Len(s) : M[star][a]
          [] c = Single -> more /\ M[j + 1][i + 1]
          [] c = Open -> /\ more /\ set.ok /\ set.in # negated
                         /\ setEnd <= Len(p) /\ M[setEnd + 1][i + 1]
          [] c = OpenBrace -> /\ more /\ Remainder(p, j) <= Len(p) + 1
                              /\ Alternatives(M, s, p, j, i)
          [] OTHER -> more /\ c = At(s, i) /\ M[j + 1][i + 1]

\* The characters that mean something where an item begins, and the end.
Special == {0, Star, Single, Open, OpenBrace}

\* A place matches or does not.
LEMMA MatchBool ==
  ASSUME NEW M, NEW s, NEW p, NEW j, NEW i
  PROVE  MatchAt(M, s, p, j, i) \in BOOLEAN
<1> USE DEF Star, Single, Open, OpenBrace
<1>1. CASE At(p, j) = 0
  BY <1>1 DEF MatchAt
<1>2. CASE At(p, j) = Star
  BY <1>2 DEF MatchAt
<1>3. CASE At(p, j) = Single
  BY <1>3 DEF MatchAt
<1>4. CASE At(p, j) = Open
  BY <1>4 DEF MatchAt
<1>5. CASE At(p, j) = OpenBrace
  BY <1>5 DEF MatchAt
<1>6. CASE At(p, j) \notin Special
  BY <1>6 DEF MatchAt, Special
<1> QED BY <1>1, <1>2, <1>3, <1>4, <1>5, <1>6 DEF Special

\* Where the set in the brackets at j begins, and where its bracket is for c.
SetBegin(p, j) == IF At(p, j + 1) = Negate THEN j + 2 ELSE j + 1
SetEnd(c, p, j) == Find(p, InSet(c, p, SetBegin(p, j)).at, {Close})

\* What it takes for two answers about a place to be the same.
LEMMA MatchAgree ==
  ASSUME NEW M, NEW N, NEW s, NEW p, NEW j, NEW i,
         At(p, j) \notin {0, Star} => M[j + 1] = N[j + 1],
         At(p, j) = Star /\ Find(p, j, NotStars) <= Len(p) =>
            M[Find(p, j, NotStars)] = N[Find(p, j, NotStars)],
         Find(p, j, NotStars) > Len(p) \/ Find(p, j, NotStars) <= Len(p),
         At(p, j) = Open /\ InSet(At(s, i), p, SetBegin(p, j)).ok /\ SetEnd(At(s, i), p, j) <= Len(p) =>
            M[SetEnd(At(s, i), p, j) + 1] = N[SetEnd(At(s, i), p, j) + 1],
         At(p, j) = OpenBrace /\ Remainder(p, j) <= Len(p) + 1 =>
            Alternatives(M, s, p, j, i) = Alternatives(N, s, p, j, i)
  PROVE  MatchAt(M, s, p, j, i) = MatchAt(N, s, p, j, i)
<1> USE DEF Star, Single, Open, OpenBrace
<1>1. CASE At(p, j) = 0
  BY <1>1 DEF MatchAt
<1>2. CASE At(p, j) = Star
  BY <1>2 DEF MatchAt
<1>3. CASE At(p, j) = Single
  BY <1>3 DEF MatchAt
<1>4. CASE At(p, j) = Open
  BY <1>4 DEF MatchAt, SetBegin, SetEnd
<1>5. CASE At(p, j) = OpenBrace
  BY <1>5 DEF MatchAt
<1>6. CASE At(p, j) \notin Special
  BY <1>6 DEF MatchAt, Special
<1> QED BY <1>1, <1>2, <1>3, <1>4, <1>5, <1>6 DEF Special

\* M has the values of Match.
MatchRun(M, s, p) ==
    /\ MatchType(M, s, p)
    /\ \A j \in 1 .. Len(p) + 1 : \A i \in 1 .. Len(s) + 1 : M[j][i] = MatchAt(M, s, p, j, i)

\* A star is followed by something else, or by the end.
LEMMA BehindStars ==
  ASSUME NEW p \in Seq(Chars), NEW j \in 1 .. Len(p) + 1
  PROVE  /\ Find(p, j, NotStars) \in j .. Len(p) + 1
         /\ Find(p, j, NotStars) <= Len(p) => p[Find(p, j, NotStars)] # Star
         /\ \A k \in j .. Find(p, j, NotStars) - 1 : p[k] = Star
         /\ At(p, j) = Star => Find(p, j, NotStars) \in j + 1 .. Len(p) + 1
<1> DEFINE n == Len(p)
           star == Find(p, j, NotStars)
<1>1. n \in Nat /\ j \in Nat \ {0} /\ j <= n + 1 /\ \A k \in 1 .. n : p[k] \in Chars /\ At(p, k) = p[k]
  <2>1. n \in Nat /\ j \in Nat \ {0} /\ j <= n + 1
    OBVIOUS
  <2>2. \A k \in 1 .. n : p[k] \in Chars /\ At(p, k) = p[k]
    BY AtFacts
  <2> QED BY <2>1, <2>2
<1>2. \/ star \in j .. n /\ p[star] \in NotStars /\ \A k \in j .. star - 1 : p[k] \notin NotStars
      \/ star = n + 1 /\ \A k \in j .. n : p[k] \notin NotStars
  BY <1>1, Found
<1>3. \A k \in 1 .. n : p[k] \in NotStars <=> p[k] # Star
  BY <1>1 DEF NotStars
<1> HIDE DEF star, n
<1>4. star \in j .. n + 1
  BY <1>1, <1>2
<1>5. star <= n => p[star] # Star
  BY <1>1, <1>2, <1>3
<1>6. \A k \in j .. star - 1 : p[k] = Star
  BY <1>1, <1>2, <1>3
<1>7. At(p, j) = Star => star # j
  <2> SUFFICES ASSUME At(p, j) = Star, star = j PROVE FALSE
    OBVIOUS
  <2>1. CASE j <= n
    BY <1>1, <1>5, <2>1
  <2>2. CASE j = n + 1
    <3>1. At(p, n + 1) = 0
      BY <1>1, AtFacts DEF n
    <3> QED BY <2>2, <3>1 DEF Star
  <2> QED BY <1>1, <2>1, <2>2
<1>8. At(p, j) = Star => star \in j + 1 .. n + 1
  BY <1>1, <1>4, <1>7
<1> QED BY <1>4, <1>5, <1>6, <1>8 DEF star, n

\* What a place in the pattern matches depends on the places behind it.
LEMMA MatchRows ==
  ASSUME NEW s \in Seq(Chars), NEW p \in Seq(Chars), NEW M, MatchType(M, s, p),
         NEW N, MatchType(N, s, p), NEW j \in 1 .. Len(p) + 1, NEW i \in 1 .. Len(s) + 1,
         \A m \in j + 1 .. Len(p) + 1 : M[m] = N[m]
  PROVE  MatchAt(M, s, p, j, i) = MatchAt(N, s, p, j, i)
<1> DEFINE n == Len(p)
           star == Find(p, j, NotStars)
           q == SetBegin(p, j)
           e == SetEnd(At(s, i), p, j)
<1>1. n \in Nat /\ Len(p) = n
  OBVIOUS
<1>2. At(p, j) # 0 => j <= n
  BY AtFacts
<1>3. At(p, j) \notin {0, Star} => M[j + 1] = N[j + 1]
  BY <1>1, <1>2
<1>4. star \in j .. n + 1 /\ (At(p, j) = Star => star \in j + 1 .. n + 1)
  BY BehindStars
<1>5. At(p, j) = Star /\ star <= n => M[star] = N[star]
  BY <1>1, <1>4
<1>6. star > n \/ star <= n
  <2> HIDE DEF star, n
  <2> QED BY <1>1, <1>4
<1>7. At(p, j) = Open /\ InSet(At(s, i), p, q).ok /\ e <= n => M[e + 1] = N[e + 1]
  <2> SUFFICES ASSUME At(p, j) = Open, InSet(At(s, i), p, q).ok, e <= n
               PROVE  M[e + 1] = N[e + 1]
    OBVIOUS
  <2>1. j <= n
    BY <1>2 DEF Open
  <2>2. At(p, j + 1) = Negate => j + 1 <= n
    <3>1. j + 1 \in Int
      OBVIOUS
    <3> QED BY <3>1, AtFacts DEF Negate
  <2>3. q \in 1 .. n + 1 /\ q >= j + 1
    BY <1>1, <2>1, <2>2 DEF SetBegin
  <2>4. At(s, i) \in Int
    BY AtFacts
  <2> DEFINE where == InSet(At(s, i), p, q).at
  <2>5. where \in q + 1 .. n
    <3> HIDE DEF q
    <3> QED BY <2>3, <2>4, InSetEnds
  <2>6. e = Find(p, where, {Close})
    BY DEF SetEnd
  <2> HIDE DEF q, e, where
  <2>7. where \in Nat \ {0} /\ where >= j
    BY <1>1, <2>3, <2>5
  <2>8. e \in where .. n \/ e = n + 1
    BY <1>1, <2>6, <2>7, Found
  <2> HIDE DEF n
  <2>9. e + 1 \in j + 1 .. n + 1
    BY <1>1, <2>1, <2>7, <2>8
  <2> QED BY <1>1, <2>9
<1>8. At(p, j) = OpenBrace /\ Remainder(p, j) <= n + 1 =>
         Alternatives(M, s, p, j, i) = Alternatives(N, s, p, j, i)
  <2> SUFFICES ASSUME At(p, j) = OpenBrace, Remainder(p, j) <= n + 1
               PROVE  Alternatives(M, s, p, j, i) = Alternatives(N, s, p, j, i)
    OBVIOUS
  <2>1. j \in 1 .. Len(p)
    BY <1>1, <1>2 DEF OpenBrace
  <2> QED BY <2>1, AlternativesAgree
<1> HIDE DEF star, q, e
<1> QED BY <1>3, <1>5, <1>6, <1>7, <1>8, MatchAgree DEF star, q, e

\* Match in LoPatternMatch, unfolded.
LEMMA MatchUnfolds ==
  ASSUME NEW s \in Seq(Chars), NEW p \in Seq(Chars)
  PROVE  \E M : MatchRun(M, s, p) /\ LoPatternMatch(s, p) = M[1][1]
<1> DEFINE n == Len(p) + 1
           m == Len(s) + 1
           V == Row(s)
           Step(f, k) == [i \in 1 .. m |-> MatchAt(f, s, p, k, i)]
           h == [k \in 1 .. n |-> [f \in [1 .. n -> V] |-> Step(f, k)]]
           Cond(f) == f = [k \in 1 .. n |-> Step(f, k)]
           f == CHOOSE f : Cond(f)
<1>1. n \in Nat /\ 1 \in 1 .. n /\ 1 \in Int /\ n \in Int /\ 1 \in 1 .. m
  OBVIOUS
<1>3. \A k, g : Step(g, k) \in V
  BY MatchBool DEF Row
<1>4. ASSUME NEW k \in 1 .. n, NEW f1 \in [1 .. n -> V], NEW f2 \in [1 .. n -> V],
             \A q \in k + 1 .. n : f1[q] = f2[q]
      PROVE  Step(f1, k) = Step(f2, k)
  <2>1. \A i \in 1 .. m : MatchAt(f1, s, p, k, i) = MatchAt(f2, s, p, k, i)
    <3> TAKE i \in 1 .. m
    <3>1. MatchType(f1, s, p) /\ MatchType(f2, s, p)
      BY DEF MatchType
    <3> QED BY <1>4, <3>1, MatchRows
  <2> QED BY <2>1
<1>5. Rows(h, 1, n, V)
  <2> HIDE DEF n, V, Step
  <2>1. h \in [1 .. n -> [[1 .. n -> V] -> V]]
    BY <1>3
  <2> QED BY <1>4, <2>1 DEF Rows
<1>6. [i \in 1 .. m |-> TRUE] \in V
  BY DEF Row
<1>7. PICK g : Solves(g, h, 1, n, V)
  <2> HIDE DEF n, V, h
  <2> QED BY <1>1, <1>5, <1>6, RowsExist
<1>8. Cond(g)
  <2> HIDE DEF n, V, Step
  <2>1. g \in [1 .. n -> V] /\ \A k \in 1 .. n : g[k] = Step(g, k)
    BY <1>7 DEF Solves
  <2>2. g = [k \in 1 .. n |-> g[k]]
    BY <2>1
  <2> QED BY <2>1, <2>2
<1>9. Cond(f)
  <2> HIDE DEF Cond
  <2> QED BY <1>8
<1>10. LoPatternMatch(s, p) = f[1][1]
  BY DEF LoPatternMatch, MatchAt
<1> HIDE DEF f
<1>11. f \in [1 .. n -> V] /\ \A k \in 1 .. n : f[k] = Step(f, k)
  <2> HIDE DEF n, V, Step
  <2> QED BY <1>3, <1>9
<1>12. MatchRun(f, s, p)
  <2>1. \A k \in 1 .. n : \A i \in 1 .. m : f[k][i] = MatchAt(f, s, p, k, i)
    BY <1>11
  <2> QED BY <1>11, <2>1 DEF MatchRun, MatchType
<1> QED BY <1>10, <1>12

----------------------------------------------------------------------------
(* The items in their text *)

\* A text stands in p from a on.
TextAt(p, a, text) ==
    /\ p \in Seq(Chars) /\ text \in Seq(Chars) /\ text # <<>>
    /\ a \in 1 .. Len(p) /\ a + Len(text) \in a + 1 .. Len(p) + 1
    /\ \A m \in 1 .. Len(text) : p[a + m - 1] = text[m]

\* The alternatives of a list as they stand between braces, each with the character
\* behind it.
Ended(alts) == [n \in DOMAIN alts |->
                   Append(alts[n], IF n = Len(alts) THEN CloseBrace ELSE CommaChar)]

\* A list stands in p from a to before b, its alternatives from B[1], B[2], ... on.
ListAt(p, a, b, alts, B) ==
    /\ p \in Seq(Chars) /\ alts \in Seq(Seq(Chars)) /\ alts # <<>>
    /\ \A t \in 1 .. Len(alts) : ToSet(alts[t]) \cap {CommaChar, CloseBrace} = {}
    /\ a \in 1 .. Len(p) /\ b \in a + 1 .. Len(p) + 1 /\ p[a] = OpenBrace
    /\ B \in [1 .. Len(alts) + 1 -> a + 1 .. b] /\ B[1] = a + 1 /\ B[Len(alts) + 1] = b
    /\ \A t \in 1 .. Len(alts) :
          /\ B[t + 1] = B[t] + Len(alts[t]) + 1
          /\ p[B[t] + Len(alts[t])] = IF t = Len(alts) THEN CloseBrace ELSE CommaChar
          /\ \A d \in 1 .. Len(alts[t]) : p[B[t] + d - 1] = alts[t][d]

\* An item stands in p from a to before b.
ItemAt(p, a, b, item) ==
    /\ a \in 1 .. Len(p) /\ b \in a + 1 .. Len(p) + 1
    /\ item.kind \in {"char", "any", "star"} => b = a + 1 /\ p[a] = item.text[1]
    /\ item.kind = "set" => /\ p[a] = Open /\ p[a + 1] # Negate
                          /\ SetAt(p, a + 1, item.text) /\ b = a + Len(item.text) + 2
    /\ item.kind = "not" => /\ p[a] = Open /\ p[a + 1] = Negate
                          /\ SetAt(p, a + 2, item.text) /\ b = a + Len(item.text) + 3
    /\ item.kind = "list" => \E B : ListAt(p, a, b, item.alts, B)

\* The codes of the special characters.
LEMMA CodesAreChars ==
  /\ {Star, Single, Open, Close, Negate, OpenBrace, CloseBrace, CommaChar} \subseteq Chars
  /\ Chars \subseteq Int /\ 0 \notin Chars
  BY DEF Chars, Star, Single, Open, Close, Negate, OpenBrace, CloseBrace, CommaChar

\* The alternatives with what is behind them, one by one.
LEMMA EndedFacts ==
  ASSUME NEW alts \in Seq(Seq(Chars))
  PROVE  /\ Ended(alts) \in Seq(Seq(Chars)) /\ Len(Ended(alts)) = Len(alts)
         /\ \A t \in 1 .. Len(alts) :
               /\ Len(Ended(alts)[t]) = Len(alts[t]) + 1
               /\ Ended(alts)[t][Len(alts[t]) + 1] = IF t = Len(alts) THEN CloseBrace ELSE CommaChar
               /\ \A d \in 1 .. Len(alts[t]) : Ended(alts)[t][d] = alts[t][d]
<1> DEFINE end(t) == IF t = Len(alts) THEN CloseBrace ELSE CommaChar
           e == Ended(alts)
<1>1. \A t : end(t) \in Chars
  BY CodesAreChars
<1>2. DOMAIN alts = 1 .. Len(alts) /\ Len(alts) \in Nat
      /\ \A t \in 1 .. Len(alts) : alts[t] \in Seq(Chars)
  OBVIOUS
<1>3. e = [t \in 1 .. Len(alts) |-> Append(alts[t], end(t))]
  BY <1>2 DEF Ended
<1> HIDE DEF e, end
<1>4. ASSUME NEW t \in 1 .. Len(alts)
      PROVE  /\ Append(alts[t], end(t)) \in Seq(Chars)
             /\ Len(Append(alts[t], end(t))) = Len(alts[t]) + 1
             /\ Append(alts[t], end(t))[Len(alts[t]) + 1] = end(t)
             /\ \A d \in 1 .. Len(alts[t]) : Append(alts[t], end(t))[d] = alts[t][d]
  <2> DEFINE x == alts[t]
             y == end(t)
  <2>1. x \in Seq(Chars) /\ y \in Chars
    BY <1>1, <1>2
  <2> HIDE DEF x, y
  <2>2. /\ Append(x, y) \in Seq(Chars) /\ Len(Append(x, y)) = Len(x) + 1
        /\ Append(x, y)[Len(x) + 1] = y
        /\ \A d \in 1 .. Len(x) : Append(x, y)[d] = x[d]
    BY <2>1
  <2> QED BY <2>2 DEF x, y
<1>5. e \in Seq(Seq(Chars)) /\ Len(e) = Len(alts)
  <2> DEFINE n == Len(alts)
             S == Seq(Chars)
             v(t) == Append(alts[t], end(t))
  <2>1. n \in Nat /\ e = [t \in 1 .. n |-> v(t)] /\ \A t \in 1 .. n : v(t) \in S
    BY <1>2, <1>3, <1>4
  <2> HIDE DEF n, S, v
  <2>2. e \in Seq(S) /\ Len(e) = n
    BY <2>1
  <2> QED BY <2>2 DEF n, S
<1>6. \A t \in 1 .. Len(alts) : e[t] = Append(alts[t], end(t))
  BY <1>3
<1>7. ASSUME NEW t \in 1 .. Len(alts)
      PROVE  /\ Len(e[t]) = Len(alts[t]) + 1
             /\ e[t][Len(alts[t]) + 1] = end(t)
             /\ \A d \in 1 .. Len(alts[t]) : e[t][d] = alts[t][d]
  BY <1>4, <1>6
<1> QED BY <1>5, <1>7 DEF e, end

\* A text in brackets, character by character.
LEMMA Bracketed ==
  ASSUME NEW x \in Seq(Chars), NEW text \in Seq(Chars)
  PROVE  /\ x \o text \o <<Close>> \in Seq(Chars)
         /\ Len(x \o text \o <<Close>>) = Len(x) + Len(text) + 1
         /\ \A m \in 1 .. Len(x) : (x \o text \o <<Close>>)[m] = x[m]
         /\ \A m \in 1 .. Len(text) : (x \o text \o <<Close>>)[Len(x) + m] = text[m]
         /\ (x \o text \o <<Close>>)[Len(x) + Len(text) + 1] = Close
<1> DEFINE y == x \o text
           z == <<Close>>
<1>1. z \in Seq(Chars) /\ Len(z) = 1 /\ z[1] = Close
  BY CodesAreChars
<1>2. /\ y \in Seq(Chars) /\ Len(y) = Len(x) + Len(text)
      /\ \A q \in 1 .. Len(x) : y[q] = x[q]
      /\ \A q \in 1 .. Len(text) : y[Len(x) + q] = text[q]
  BY Joined
<1>3. Len(x) \in Nat /\ Len(text) \in Nat
  OBVIOUS
<1> HIDE DEF y, z
<1>4. /\ y \o z \in Seq(Chars) /\ Len(y \o z) = Len(y) + Len(z)
      /\ \A q \in 1 .. Len(y) : (y \o z)[q] = y[q]
      /\ \A q \in 1 .. Len(z) : (y \o z)[Len(y) + q] = z[q]
  <2>1. y \in Seq(Chars) /\ z \in Seq(Chars)
    BY <1>1, <1>2
  <2> QED BY <2>1, Joined
<1> DEFINE w == y \o z
           lx == Len(x)
           lt == Len(text)
<1>5. lx \in Nat /\ lt \in Nat /\ Len(y) = lx + lt
  BY <1>2, <1>3
<1>6. \A m \in 1 .. lx : m \in 1 .. Len(y)
  <2> HIDE DEF lx, lt
  <2> QED BY <1>5
<1>7. \A m \in 1 .. lt : lx + m \in 1 .. Len(y)
  <2> HIDE DEF lx, lt
  <2> QED BY <1>5
<1>8. w[lx + lt + 1] = Close
  <2>1. 1 \in 1 .. Len(z)
    BY <1>1
  <2> QED BY <1>1, <1>4, <1>5, <2>1
<1>9. w \in Seq(Chars) /\ Len(w) = lx + lt + 1
  BY <1>1, <1>4, <1>5
<1> QED BY <1>2, <1>4, <1>6, <1>7, <1>8, <1>9 DEF y, z

\* How the text of an item is made.
LEMMA ItemTextCases ==
  ASSUME NEW item
  PROVE  /\ item.kind = "set" => ItemText(item) = <<Open>> \o item.text \o <<Close>>
         /\ item.kind = "not" => ItemText(item) = <<Open, Negate>> \o item.text \o <<Close>>
         /\ item.kind = "list" => ItemText(item) = <<OpenBrace>> \o FlattenSeq(Ended(item.alts))
         /\ item.kind \in {"char", "any", "star"} => ItemText(item) = item.text
<1>1. CASE item.kind = "set"
  BY <1>1 DEF ItemText
<1>2. CASE item.kind = "not"
  BY <1>2 DEF ItemText
<1>3. CASE item.kind = "list"
  BY <1>3 DEF ItemText, Ended
<1>4. CASE item.kind \in {"char", "any", "star"}
  BY <1>4 DEF ItemText
<1> QED BY <1>1, <1>2, <1>3, <1>4

\* What can be in an item that is spelled well.
LEMMA ShapeFacts ==
  ASSUME NEW item \in Shape, Spelled(item)
  PROVE  /\ item.text \in Seq(Chars) /\ item.alts \in Seq(Seq(Chars))
         /\ item.kind \in {"char", "any", "star", "set", "not", "list"}
         /\ item.kind = "char" => \E c \in Chars \ {Star, Single, Open, OpenBrace} : item.text = <<c>>
         /\ item.kind = "any" => item.text = <<Single>>
         /\ item.kind = "star" => item.text = <<Star>>
         /\ item.kind = "set" => SetText(item.text) /\ item.text[1] # Negate
         /\ item.kind = "not" => SetText(item.text)
         /\ item.kind = "list" => /\ item.alts # <<>>
                                /\ \A t \in 1 .. Len(item.alts) :
                                      ToSet(item.alts[t]) \cap {CommaChar, CloseBrace} = {}
<1>1. /\ item.text \in Seq(Chars) /\ item.alts \in Seq(Seq(Chars))
      /\ item.kind \in {"char", "any", "star", "set", "not", "list"}
  BY DEF Shape
<1>2. item.kind = "char" => \E c \in Chars \ {Star, Single, Open, OpenBrace} : item.text = <<c>>
  BY DEF Spelled, Char1
<1>3. (item.kind = "any" => item.text = <<Single>>) /\ (item.kind = "star" => item.text = <<Star>>)
  <2>1. (item.kind = "any" => item = AnyChar) /\ (item.kind = "star" => item = AnyString)
    BY DEF Spelled
  <2>2. AnyChar.text = <<Single>> /\ AnyString.text = <<Star>>
    BY DEF AnyChar, AnyString
  <2> QED BY <2>1, <2>2
<1>4. (item.kind = "set" => SetText(item.text) /\ item.text[1] # Negate)
      /\ (item.kind = "not" => SetText(item.text))
  BY DEF Spelled
<1>5. item.kind = "list" => /\ item.alts # <<>>
                          /\ \A alt \in ToSet(item.alts) : ToSet(alt) \cap {CommaChar, CloseBrace} = {}
  BY DEF Spelled
<1>6. \A t \in 1 .. Len(item.alts) : item.alts[t] \in ToSet(item.alts)
  BY <1>1 DEF ToSet
<1> QED BY <1>1, <1>2, <1>3, <1>4, <1>5, <1>6

\* Every item has a text.
LEMMA ItemTextType ==
  ASSUME NEW item \in Shape, Spelled(item)
  PROVE  ItemText(item) \in Seq(Chars) /\ ItemText(item) # <<>>
<1>1. item.text \in Seq(Chars) /\ item.alts \in Seq(Seq(Chars))
      /\ item.kind \in {"char", "any", "star", "set", "not", "list"}
  BY ShapeFacts
<1>2. \A x \in Seq(Chars) : Len(x) # 0 => x # <<>>
  OBVIOUS
<1>3. CASE item.kind = "set"
  <2>1. <<Open>> \in Seq(Chars) /\ Len(<<Open>>) = 1
    BY CodesAreChars
  <2> DEFINE x == <<Open>>
             text == item.text
  <2>2. ItemText(item) = x \o text \o <<Close>>
    BY <1>3, ItemTextCases
  <2>3. x \in Seq(Chars) /\ text \in Seq(Chars) /\ Len(x) \in Nat /\ Len(text) \in Nat
    BY <1>1, <2>1
  <2> HIDE DEF x, text
  <2>4. ItemText(item) \in Seq(Chars) /\ Len(ItemText(item)) = Len(x) + Len(text) + 1
    BY <2>2, <2>3, Bracketed
  <2> QED BY <2>3, <2>4
<1>4. CASE item.kind = "not"
  <2>1. <<Open, Negate>> \in Seq(Chars) /\ Len(<<Open, Negate>>) = 2
    BY CodesAreChars
  <2> DEFINE x == <<Open, Negate>>
             text == item.text
  <2>2. ItemText(item) = x \o text \o <<Close>>
    BY <1>4, ItemTextCases
  <2>3. x \in Seq(Chars) /\ text \in Seq(Chars) /\ Len(x) \in Nat /\ Len(text) \in Nat
    BY <1>1, <2>1
  <2> HIDE DEF x, text
  <2>4. ItemText(item) \in Seq(Chars) /\ Len(ItemText(item)) = Len(x) + Len(text) + 1
    BY <2>2, <2>3, Bracketed
  <2> QED BY <2>3, <2>4
<1>5. CASE item.kind = "list"
  <2> DEFINE flat == FlattenSeq(Ended(item.alts))
  <2>1. <<OpenBrace>> \in Seq(Chars) /\ Len(<<OpenBrace>>) = 1
    BY CodesAreChars
  <2>2. Ended(item.alts) \in Seq(Seq(Chars))
    BY <1>1, EndedFacts
  <2>3. flat \in Seq(Chars)
    <3> HIDE DEF flat
    <3> QED BY <2>2, Flattened DEF flat
  <2>4. ItemText(item) = <<OpenBrace>> \o flat
    BY <1>5, ItemTextCases
  <2> HIDE DEF flat
  <2> DEFINE x == <<OpenBrace>>
  <2>5. x \in Seq(Chars) /\ Len(x) = 1 /\ ItemText(item) = x \o flat
    BY <2>1, <2>4
  <2> HIDE DEF x
  <2>6. ItemText(item) \in Seq(Chars) /\ Len(ItemText(item)) = Len(x) + Len(flat)
    <3>1. x \o flat \in Seq(Chars) /\ Len(x \o flat) = Len(x) + Len(flat)
      BY <2>3, <2>5, Joined
    <3> QED BY <2>5, <3>1
  <2>7. Len(flat) \in Nat
    BY <2>3
  <2> QED BY <2>5, <2>6, <2>7
<1>6. CASE item.kind \in {"char", "any", "star"}
  <2>1. ItemText(item) = item.text
    BY <1>6, ItemTextCases
  <2>2. \E c : item.text = <<c>>
    BY <1>6, ShapeFacts
  <2> QED BY <1>1, <2>1, <2>2
<1> QED BY <1>1, <1>3, <1>4, <1>5, <1>6

\* x stands in p from a on.
Starts(p, a, x) == \A m \in 1 .. Len(x) : p[a + m - 1] = x[m]

\* A set, its text behind x, in the pattern.
LEMMA SetItem ==
  ASSUME NEW p, NEW a, NEW x \in Seq(Chars), NEW text \in Seq(Chars), SetText(text),
         x # <<>>, NEW w, w = x \o text \o <<Close>>, TextAt(p, a, w)
  PROVE  /\ SetAt(p, a + Len(x), text)
         /\ Len(w) = Len(x) + Len(text) + 1
         /\ Starts(p, a, x)
<1> DEFINE lx == Len(x)
           lt == Len(text)
           n == Len(p)
<1>1. /\ w \in Seq(Chars) /\ Len(w) = lx + lt + 1
      /\ \A m \in 1 .. lx : w[m] = x[m]
      /\ \A m \in 1 .. lt : w[lx + m] = text[m]
      /\ w[lx + lt + 1] = Close
  BY Bracketed
<1>2. lx \in Nat /\ lt \in Nat /\ lx >= 1
  OBVIOUS
<1>3. /\ p \in Seq(Chars) /\ a \in 1 .. n /\ a + Len(w) \in a + 1 .. n + 1
      /\ \A m \in 1 .. Len(w) : p[a + m - 1] = w[m]
  BY DEF TextAt
<1>4. n \in Nat
  BY <1>3
<1> HIDE DEF lx, lt, n
<1>5. ASSUME NEW m \in 1 .. lx PROVE p[a + m - 1] = x[m]
  <2>1. m \in 1 .. Len(w)
    BY <1>1, <1>2
  <2> QED BY <1>1, <1>3, <2>1
<1>6. ASSUME NEW m \in 1 .. lt PROVE p[a + lx + m - 1] = text[m]
  <2>1. lx + m \in 1 .. Len(w)
    BY <1>1, <1>2
  <2>2. a + (lx + m) - 1 = a + lx + m - 1
    BY <1>2, <1>3
  <2> QED BY <1>1, <1>3, <2>1, <2>2
<1>7. p[a + lx + lt] = Close
  <2>1. lx + lt + 1 \in 1 .. Len(w)
    BY <1>1, <1>2
  <2>2. a + (lx + lt + 1) - 1 = a + lx + lt
    BY <1>2, <1>3
  <2> QED BY <1>1, <1>3, <2>1, <2>2
<1>8. a + lx \in Nat \ {0} /\ a + lx + lt \in 1 .. n
  <2>1. a \in Int /\ a >= 1 /\ a + (lx + lt + 1) <= n + 1
    BY <1>1, <1>3, <1>4
  <2> QED BY <1>2, <1>4, <2>1
<1>9. SetAt(p, a + lx, text)
  BY <1>3, <1>6, <1>7, <1>8 DEF SetAt, lt, n
<1> QED BY <1>1, <1>5, <1>9 DEF lx, lt, Starts

\* The alternatives of a list, in the pattern.
LEMMA ListItem ==
  ASSUME NEW p, NEW a, NEW alts \in Seq(Seq(Chars)), alts # <<>>,
         \A t \in 1 .. Len(alts) : ToSet(alts[t]) \cap {CommaChar, CloseBrace} = {},
         TextAt(p, a, <<OpenBrace>> \o FlattenSeq(Ended(alts)))
  PROVE  \E B : ListAt(p, a, a + Len(<<OpenBrace>> \o FlattenSeq(Ended(alts))), alts, B)
<1> DEFINE x == <<OpenBrace>>
           e == Ended(alts)
           flat == FlattenSeq(e)
           w == x \o flat
           n == Len(p)
           K == Len(alts)
           lf == Len(flat)
<1>1. x \in Seq(Chars) /\ Len(x) = 1 /\ x[1] = OpenBrace
  BY CodesAreChars
<1>2. /\ e \in Seq(Seq(Chars)) /\ Len(e) = K
      /\ \A t \in 1 .. K :
            /\ Len(e[t]) = Len(alts[t]) + 1
            /\ e[t][Len(alts[t]) + 1] = IF t = K THEN CloseBrace ELSE CommaChar
            /\ \A d \in 1 .. Len(alts[t]) : e[t][d] = alts[t][d]
  BY EndedFacts
<1>3. K \in Nat /\ K >= 1 /\ \A t \in 1 .. K : Len(alts[t]) \in Nat
  OBVIOUS
<1> HIDE DEF e
<1>4. flat \in Seq(Chars) /\ \E c : Laid(e, c, flat)
  BY <1>2, Flattened
<1> HIDE DEF flat, x
<1>5. /\ w \in Seq(Chars) /\ Len(w) = Len(x) + lf
      /\ \A q \in 1 .. Len(x) : w[q] = x[q]
      /\ \A q \in 1 .. lf : w[Len(x) + q] = flat[q]
  <2>1. x \in Seq(Chars) /\ flat \in Seq(Chars)
    BY <1>1, <1>4
  <2> QED BY <2>1, Joined
<1>6. lf \in Nat
  BY <1>4
<1> HIDE DEF w, lf
<1>7. /\ p \in Seq(Chars) /\ a \in 1 .. n /\ a + Len(w) \in a + 1 .. n + 1
      /\ \A m \in 1 .. Len(w) : p[a + m - 1] = w[m]
  BY DEF TextAt, w, x, flat, e
<1>8. n \in Nat
  BY <1>7
<1> HIDE DEF n, K
<1>9. p[a] = OpenBrace
  <2>1. 1 \in 1 .. Len(x) /\ 1 \in 1 .. Len(w) /\ a + 1 - 1 = a
    BY <1>1, <1>5, <1>6, <1>7
  <2> QED BY <1>1, <1>5, <1>7, <2>1
<1>10. \A q \in 1 .. lf : p[a + q] = flat[q]
  <2> TAKE q \in 1 .. lf
  <2>1. 1 + q \in 1 .. Len(w) /\ a + (1 + q) - 1 = a + q
    BY <1>1, <1>5, <1>6, <1>7
  <2> QED BY <1>1, <1>5, <1>7, <2>1
<1>11. PICK c : Laid(e, c, flat)
  BY <1>4
<1>12. /\ c \in [1 .. K + 1 -> Nat \ {0}]
       /\ c[1] = 1 /\ c[K + 1] = lf + 1
       /\ \A t \in 1 .. K + 1 : c[t] <= lf + 1
       /\ \A t \in 1 .. K :
             /\ c[t + 1] = c[t] + Len(e[t])
             /\ \A m \in 1 .. Len(e[t]) : flat[c[t] + m - 1] = e[t][m]
  BY <1>2, <1>11 DEF Laid, lf
<1> DEFINE B == [t \in 1 .. K + 1 |-> a + c[t]]
           b == a + Len(w)
<1>13. b = a + lf + 1
  BY <1>1, <1>5, <1>6, <1>7
<1>14. B \in [1 .. K + 1 -> a + 1 .. b]
  <2>1. \A t \in 1 .. K + 1 : a + c[t] \in a + 1 .. b
    <3> TAKE t \in 1 .. K + 1
    <3>1. c[t] \in Nat \ {0} /\ c[t] <= lf + 1
      BY <1>12
    <3>2. a \in Nat /\ b = a + lf + 1
      BY <1>7, <1>13
    <3> HIDE DEF b
    <3> QED BY <1>6, <3>1, <3>2
  <2> QED BY <2>1
<1>15. B[1] = a + 1 /\ B[K + 1] = b
  BY <1>3, <1>6, <1>7, <1>12, <1>13
<1>16. ASSUME NEW t \in 1 .. K
       PROVE  /\ B[t + 1] = B[t] + Len(alts[t]) + 1
              /\ p[B[t] + Len(alts[t])] = IF t = K THEN CloseBrace ELSE CommaChar
              /\ \A d \in 1 .. Len(alts[t]) : p[B[t] + d - 1] = alts[t][d]
  <2> DEFINE l == Len(alts[t])
             C == c[t]
  <2>1. t \in 1 .. K + 1 /\ t + 1 \in 1 .. K + 1
    BY <1>3
  <2>2. B[t] = a + C /\ B[t + 1] = a + c[t + 1]
    BY <2>1
  <2>3. l \in Nat /\ C \in Nat \ {0} /\ c[t + 1] \in Nat /\ Len(e[t]) = l + 1
        /\ c[t + 1] = C + (l + 1) /\ c[t + 1] <= lf + 1
    <3>1. l \in Nat /\ Len(e[t]) = l + 1
      BY <1>2, <1>3
    <3>2. C \in Nat \ {0} /\ c[t + 1] \in Nat
      BY <1>12, <2>1
    <3>3. c[t + 1] = C + Len(e[t]) /\ c[t + 1] <= lf + 1
      BY <1>12, <2>1
    <3> QED BY <3>1, <3>2, <3>3
  <2> HIDE DEF B
  <2>4. \A m \in 1 .. l + 1 : p[a + (C + m - 1)] = e[t][m]
    <3> TAKE m \in 1 .. l + 1
    <3>1. C + m - 1 \in 1 .. lf
      <4> HIDE DEF l, C
      <4> QED BY <1>6, <2>3
    <3>2. flat[C + m - 1] = e[t][m]
      BY <1>12, <2>3
    <3> QED BY <1>10, <3>1, <3>2
  <2>5. e[t][l + 1] = (IF t = K THEN CloseBrace ELSE CommaChar)
        /\ \A d \in 1 .. l : e[t][d] = alts[t][d]
    BY <1>2
  <2> HIDE DEF l, C
  <2>6. B[t + 1] = B[t] + l + 1
    BY <1>7, <2>2, <2>3
  <2>7. p[B[t] + l] = e[t][l + 1]
    <3>1. l + 1 \in 1 .. l + 1 /\ a + (C + (l + 1) - 1) = B[t] + l
      BY <1>7, <2>2, <2>3
    <3> QED BY <2>4, <3>1
  <2>8. \A d \in 1 .. l : p[B[t] + d - 1] = e[t][d]
    <3> TAKE d \in 1 .. l
    <3> DEFINE from == B[t]
    <3>2. a \in Int /\ C \in Int /\ l \in Int /\ from = a + C
      BY <1>7, <2>2, <2>3
    <3> HIDE DEF from
    <3>1. d \in 1 .. l + 1 /\ a + (C + d - 1) = from + d - 1
      BY <3>2
    <3>3. p[from + d - 1] = e[t][d]
      BY <2>4, <3>1
    <3> QED BY <3>3 DEF from
  <2> QED BY <2>5, <2>6, <2>7, <2>8 DEF l
<1>17. b \in a + 1 .. n + 1
  BY <1>7
<1> HIDE DEF B, b
<1>18. ListAt(p, a, b, alts, B)
  BY <1>7, <1>9, <1>14, <1>15, <1>16, <1>17 DEF ListAt, n, K
<1> QED BY <1>18 DEF b, w, x, flat, e

\* Where the text of an item stands, the item does.
LEMMA ItemLaid ==
  ASSUME NEW item \in Shape, Spelled(item), NEW p, NEW a, TextAt(p, a, ItemText(item))
  PROVE  ItemAt(p, a, a + Len(ItemText(item)), item)
<1> DEFINE text == item.text
           w == ItemText(item)
           b == a + Len(w)
           n == Len(p)
<1>1. /\ text \in Seq(Chars) /\ item.alts \in Seq(Seq(Chars))
      /\ item.kind \in {"char", "any", "star", "set", "not", "list"}
  BY ShapeFacts
<1>2. w \in Seq(Chars) /\ w # <<>>
  BY ItemTextType
<1>3. /\ p \in Seq(Chars) /\ a \in 1 .. n /\ b \in a + 1 .. n + 1
      /\ \A m \in 1 .. Len(w) : p[a + m - 1] = w[m]
  BY DEF TextAt
<1>4. item.kind \in {"char", "any", "star"} => b = a + 1 /\ p[a] = text[1]
  <2> SUFFICES ASSUME item.kind \in {"char", "any", "star"} PROVE b = a + 1 /\ p[a] = text[1]
    OBVIOUS
  <2>1. w = text
    BY ItemTextCases
  <2>2. \E c : text = <<c>>
    BY ShapeFacts
  <2>3. Len(text) = 1
    BY <2>2
  <2>4. 1 \in 1 .. Len(w) /\ a + 1 - 1 = a
    BY <1>3, <2>1, <2>3
  <2> QED BY <1>3, <2>1, <2>3, <2>4
<1>5. item.kind = "set" => /\ p[a] = Open /\ p[a + 1] # Negate
                         /\ SetAt(p, a + 1, text) /\ b = a + Len(text) + 2
  <2> SUFFICES ASSUME item.kind = "set"
               PROVE  /\ p[a] = Open /\ p[a + 1] # Negate
                      /\ SetAt(p, a + 1, text) /\ b = a + Len(text) + 2
    OBVIOUS
  <2> DEFINE x == <<Open>>
  <2>1. w = x \o text \o <<Close>>
    BY ItemTextCases
  <2>2. SetText(text) /\ text[1] # Negate
    BY ShapeFacts
  <2>3. x \in Seq(Chars) /\ Len(x) = 1 /\ x[1] = Open /\ x # <<>>
    BY CodesAreChars
  <2> HIDE DEF x, text
  <2>4. /\ SetAt(p, a + Len(x), text)
        /\ Len(w) = Len(x) + Len(text) + 1
        /\ \A m \in 1 .. Len(x) : p[a + m - 1] = x[m]
    <3>0. x # <<>>
      BY <2>3
    <3>1. /\ x \in Seq(Chars) /\ text \in Seq(Chars) /\ SetText(text)
          /\ w = x \o text \o <<Close>> /\ TextAt(p, a, w)
      BY <1>1, <2>1, <2>2, <2>3 DEF text
    <3> HIDE DEF w, b, n
    <3>2. SetAt(p, a + Len(x), text)
      BY <3>0, <3>1, SetItem
    <3>3. Len(w) = Len(x) + Len(text) + 1
      BY <3>0, <3>1, SetItem
    <3>4. Starts(p, a, x)
      BY <3>0, <3>1, SetItem
    <3> QED BY <3>2, <3>3, <3>4 DEF Starts
  <2>5. SetAt(p, a + 1, text)
    BY <2>3, <2>4
  <2>6. p[a] = Open
    <3>1. 1 \in 1 .. Len(x) /\ a + 1 - 1 = a
      BY <1>3, <2>3
    <3> QED BY <2>3, <2>4, <3>1
  <2>7. p[a + 1] = text[1] /\ Len(text) \in Nat
    <3>1. Len(text) >= 1 /\ Len(text) \in Nat /\ \A m \in 1 .. Len(text) : p[a + 1 + m - 1] = text[m]
      BY <2>5, SetAtFacts
    <3>2. 1 \in 1 .. Len(text) /\ a + 1 + 1 - 1 = a + 1
      BY <1>3, <3>1
    <3> QED BY <3>1, <3>2
  <2>8. b = a + Len(text) + 2
    <3>1. Len(w) = Len(x) + Len(text) + 1 /\ a \in Int
      BY <1>3, <2>1, <2>4
    <3> HIDE DEF w
    <3> QED BY <2>3, <2>7, <3>1
  <2> QED BY <2>2, <2>5, <2>6, <2>7, <2>8
<1>6. item.kind = "not" => /\ p[a] = Open /\ p[a + 1] = Negate
                         /\ SetAt(p, a + 2, text) /\ b = a + Len(text) + 3
  <2> SUFFICES ASSUME item.kind = "not"
               PROVE  /\ p[a] = Open /\ p[a + 1] = Negate
                      /\ SetAt(p, a + 2, text) /\ b = a + Len(text) + 3
    OBVIOUS
  <2> DEFINE x == <<Open, Negate>>
  <2>1. w = x \o text \o <<Close>>
    BY ItemTextCases
  <2>2. SetText(text)
    BY ShapeFacts
  <2>3. x \in Seq(Chars) /\ Len(x) = 2 /\ x[1] = Open /\ x[2] = Negate /\ x # <<>>
    BY CodesAreChars
  <2> HIDE DEF x, text
  <2>4. /\ SetAt(p, a + Len(x), text)
        /\ Len(w) = Len(x) + Len(text) + 1
        /\ \A m \in 1 .. Len(x) : p[a + m - 1] = x[m]
    <3>0. x # <<>>
      BY <2>3
    <3>1. /\ x \in Seq(Chars) /\ text \in Seq(Chars) /\ SetText(text)
          /\ w = x \o text \o <<Close>> /\ TextAt(p, a, w)
      BY <1>1, <2>1, <2>2, <2>3 DEF text
    <3> HIDE DEF w, b, n
    <3>2. SetAt(p, a + Len(x), text)
      BY <3>0, <3>1, SetItem
    <3>3. Len(w) = Len(x) + Len(text) + 1
      BY <3>0, <3>1, SetItem
    <3>4. Starts(p, a, x)
      BY <3>0, <3>1, SetItem
    <3> QED BY <3>2, <3>3, <3>4 DEF Starts
  <2>5. SetAt(p, a + 2, text)
    BY <2>3, <2>4
  <2>6. p[a] = Open /\ p[a + 1] = Negate
    <3>1. 1 \in 1 .. Len(x) /\ a + 1 - 1 = a /\ 2 \in 1 .. Len(x) /\ a + 2 - 1 = a + 1
      BY <1>3, <2>3
    <3> QED BY <2>3, <2>4, <3>1
  <2>7. Len(text) \in Nat
    BY <1>1 DEF text
  <2>8. b = a + Len(text) + 3
    <3>1. Len(w) = Len(x) + Len(text) + 1 /\ a \in Int
      BY <1>3, <2>1, <2>4
    <3> HIDE DEF w
    <3> QED BY <2>3, <2>7, <3>1
  <2> QED BY <2>5, <2>6, <2>8
<1>7. item.kind = "list" => \E B : ListAt(p, a, b, item.alts, B)
  <2> SUFFICES ASSUME item.kind = "list" PROVE \E B : ListAt(p, a, b, item.alts, B)
    OBVIOUS
  <2> DEFINE alts == item.alts
  <2>1. w = <<OpenBrace>> \o FlattenSeq(Ended(alts))
    BY ItemTextCases
  <2>2. alts # <<>> /\ \A t \in 1 .. Len(alts) : ToSet(alts[t]) \cap {CommaChar, CloseBrace} = {}
    BY ShapeFacts
  <2>3. TextAt(p, a, <<OpenBrace>> \o FlattenSeq(Ended(alts)))
    BY <2>1
  <2>4. alts \in Seq(Seq(Chars))
    BY <1>1
  <2> HIDE DEF alts
  <2>5. \E B : ListAt(p, a, a + Len(<<OpenBrace>> \o FlattenSeq(Ended(alts))), alts, B)
    BY <2>2, <2>3, <2>4, ListItem
  <2> QED BY <2>1, <2>5 DEF alts
<1> HIDE DEF b, text
<1> QED BY <1>3, <1>4, <1>5, <1>6, <1>7 DEF ItemAt, n, b, text

\* The items, one after the other, in their text.
ItemsAt(p, items, st) ==
    /\ st \in [1 .. Len(items) + 1 -> Nat \ {0}]
    /\ st[1] = 1 /\ st[Len(items) + 1] = Len(p) + 1
    /\ \A n \in 1 .. Len(items) : ItemAt(p, st[n], st[n + 1], items[n])

\* The items stand in their text.
LEMMA ItemsLaid ==
  ASSUME NEW items \in Seq(Shape), \A n \in DOMAIN items : Spelled(items[n])
  PROVE  TextOf(items) \in Seq(Chars) /\ \E st : ItemsAt(TextOf(items), items, st)
<1> DEFINE N == Len(items)
           w(n) == ItemText(items[n])
           seqs == [n \in 1 .. N |-> w(n)]
           p == FlattenSeq(seqs)
           S == Seq(Chars)
<1>1. N \in Nat /\ DOMAIN items = 1 .. N /\ \A n \in 1 .. N : items[n] \in Shape
  OBVIOUS
<1>2. \A n \in 1 .. N : w(n) \in S /\ w(n) # <<>>
  BY <1>1, ItemTextType
<1>3. TextOf(items) = p
  BY <1>1 DEF TextOf
<1> HIDE DEF N, w
<1>4. seqs \in Seq(S) /\ Len(seqs) = N /\ \A n \in 1 .. N : seqs[n] = w(n)
  <2> HIDE DEF S
  <2> QED BY <1>1, <1>2
<1> HIDE DEF seqs
<1>5. p \in S /\ \E st : Laid(seqs, st, p)
  BY <1>4, Flattened
<1> HIDE DEF p
<1>6. PICK st : Laid(seqs, st, p)
  BY <1>5
<1>7. /\ st \in [1 .. N + 1 -> Nat \ {0}] /\ st[1] = 1 /\ st[N + 1] = Len(p) + 1
      /\ \A n \in 1 .. N + 1 : st[n] <= Len(p) + 1
      /\ \A n \in 1 .. N : /\ st[n + 1] = st[n] + Len(w(n))
                           /\ \A m \in 1 .. Len(w(n)) : p[st[n] + m - 1] = w(n)[m]
  BY <1>4, <1>6 DEF Laid
<1>8. ASSUME NEW n \in 1 .. N PROVE ItemAt(p, st[n], st[n + 1], items[n])
  <2> DEFINE x == w(n)
             a == st[n]
             L == Len(p)
  <2>1. n \in 1 .. N + 1 /\ n + 1 \in 1 .. N + 1
    BY <1>1
  <2>2. x \in Seq(Chars) /\ x # <<>> /\ Len(x) \in Nat /\ Len(x) # 0
    BY <1>2
  <2>3. L \in Nat
    BY <1>5
  <2>4. a \in Nat \ {0} /\ st[n + 1] = a + Len(x) /\ st[n + 1] <= L + 1
        /\ \A m \in 1 .. Len(x) : p[a + m - 1] = x[m]
    BY <1>7, <2>1
  <2> HIDE DEF x, a, L
  <2>5. a \in 1 .. L /\ a + Len(x) \in a + 1 .. L + 1
    BY <2>2, <2>3, <2>4
  <2>6. TextAt(p, a, x)
    BY <1>5, <2>2, <2>4, <2>5 DEF TextAt, L
  <2>7. x = ItemText(items[n])
    BY DEF x, w
  <2>8. items[n] \in Shape /\ Spelled(items[n])
    BY <1>1
  <2>9. ItemAt(p, a, a + Len(x), items[n])
    BY <2>6, <2>7, <2>8, ItemLaid
  <2> QED BY <2>4, <2>9 DEF a
<1>9. ItemsAt(p, items, st)
  BY <1>7, <1>8 DEF ItemsAt, N
<1> QED BY <1>3, <1>5, <1>9

----------------------------------------------------------------------------
(* Lists in braces *)

\* Find, if it is known where the character is.
LEMMA FoundAt ==
  ASSUME NEW p, Len(p) \in Nat, NEW i \in Nat \ {0}, NEW chars, NEW k \in i .. Len(p),
         p[k] \in chars, \A x \in i .. k - 1 : p[x] \notin chars
  PROVE  Find(p, i, chars) = k
<1> DEFINE m == Find(p, i, chars)
           n == Len(p)
<1>1. \/ m \in i .. n /\ p[m] \in chars /\ \A x \in i .. m - 1 : p[x] \notin chars
      \/ m = n + 1 /\ \A x \in i .. n : p[x] \notin chars
  BY Found
<1> HIDE DEF m, n
<1>2. n \in Nat /\ k \in i .. n
  BY DEF n
<1>3. m \in i .. n /\ p[m] \in chars /\ \A x \in i .. m - 1 : p[x] \notin chars
  BY <1>1, <1>2
<1>4. ~(m < k)
  BY <1>2, <1>3
<1>5. ~(k < m)
  BY <1>2, <1>3
<1>6. m = k
  BY <1>2, <1>3, <1>4, <1>5
<1> QED BY <1>6 DEF m

\* Where the alternative t of a list is, and what stands there.
Alternative(p, a, b, alts, B, t) ==
    /\ Len(p) \in Nat /\ Len(alts[t]) \in Nat /\ B[t] \in Nat /\ a \in Nat /\ b \in Nat
    /\ a >= 1 /\ B[t] >= a + 1 /\ B[t] + Len(alts[t]) + 1 <= b /\ b <= Len(p) + 1
    /\ B[t + 1] = B[t] + Len(alts[t]) + 1
    /\ At(p, B[t] + Len(alts[t])) = IF t = Len(alts) THEN CloseBrace ELSE CommaChar
    /\ \A d \in 0 .. Len(alts[t]) - 1 :
          /\ At(p, B[t] + d) = alts[t][d + 1]
          /\ alts[t][d + 1] \notin {0, CommaChar, CloseBrace}
          /\ Find(p, B[t] + d + 1, {CommaChar, CloseBrace}) = B[t] + Len(alts[t])

\* The alternatives are where B says.
LEMMA ListPlaces ==
  ASSUME NEW p, NEW a, NEW b, NEW alts, NEW B, ListAt(p, a, b, alts, B),
         NEW t \in 1 .. Len(alts)
  PROVE  Alternative(p, a, b, alts, B, t)
<1> DEFINE K == Len(alts)
           n == Len(p)
           l == Len(alts[t])
           c == B[t]
<1>1. /\ p \in Seq(Chars) /\ alts \in Seq(Seq(Chars)) /\ alts # <<>>
      /\ ToSet(alts[t]) \cap {CommaChar, CloseBrace} = {}
      /\ a \in 1 .. n /\ b \in a + 1 .. n + 1
      /\ B \in [1 .. K + 1 -> a + 1 .. b]
      /\ B[t + 1] = c + l + 1
      /\ p[c + l] = IF t = K THEN CloseBrace ELSE CommaChar
      /\ \A d \in 1 .. l : p[c + d - 1] = alts[t][d]
  BY DEF ListAt
<1>2. K \in Nat /\ n \in Nat /\ alts[t] \in Seq(Chars)
  BY <1>1
<1>3. l \in Nat /\ DOMAIN alts[t] = 1 .. l /\ \A d \in 1 .. l : alts[t][d] \in Chars
  BY <1>2
<1> HIDE DEF K, n, l
<1>4. t \in 1 .. K + 1 /\ t + 1 \in 1 .. K + 1
  BY <1>2 DEF K
<1>5. c \in a + 1 .. b /\ B[t + 1] \in a + 1 .. b
  BY <1>1, <1>4
<1> HIDE DEF c
<1>6. c \in Nat /\ a \in Nat /\ b \in Nat /\ a >= 1 /\ c >= a + 1 /\ c + l + 1 <= b /\ b <= n + 1
  BY <1>1, <1>2, <1>3, <1>5
<1>7. \A k \in 1 .. n : At(p, k) = p[k]
  BY <1>1, AtFacts DEF n
<1>8. At(p, c + l) = IF t = K THEN CloseBrace ELSE CommaChar
  <2>1. c + l \in 1 .. n
    BY <1>2, <1>3, <1>6
  <2> QED BY <1>1, <1>7, <2>1
<1>9. ASSUME NEW d \in 0 .. l - 1
      PROVE  At(p, c + d) = alts[t][d + 1] /\ p[c + d] = alts[t][d + 1]
             /\ alts[t][d + 1] \notin {0, CommaChar, CloseBrace}
  <2>1. d + 1 \in 1 .. l /\ c + (d + 1) - 1 = c + d /\ c + d \in 1 .. n
    BY <1>2, <1>3, <1>6
  <2>2. alts[t][d + 1] \in ToSet(alts[t]) /\ alts[t][d + 1] # 0
    BY <1>3, <2>1, CodesAreChars DEF ToSet
  <2> QED BY <1>1, <1>7, <2>1, <2>2
<1>10. ASSUME NEW d \in 0 .. l - 1
       PROVE  Find(p, c + d + 1, {CommaChar, CloseBrace}) = c + l
  <2> DEFINE i == c + d + 1
             k == c + l
             chars == {CommaChar, CloseBrace}
  <2>1. i \in Nat \ {0} /\ k \in i .. n
    BY <1>2, <1>3, <1>6
  <2>2. p[k] \in chars
    BY <1>1
  <2>3. \A x \in i .. k - 1 : p[x] \notin chars
    <3> TAKE x \in i .. k - 1
    <3>1. x - c \in 0 .. l - 1 /\ c + (x - c) = x
      BY <1>3, <1>6
    <3> QED BY <1>9, <3>1
  <2> HIDE DEF i, k, chars
  <2>4. Find(p, i, chars) = k
    BY <1>2, <2>1, <2>2, <2>3, FoundAt DEF n
  <2> QED BY <2>4 DEF i, k, chars
<1> QED BY <1>1, <1>2, <1>3, <1>6, <1>8, <1>9, <1>10 DEF K, n, l, c, Alternative

\* The brace that the code looks for is the one that closes the list.
LEMMA ListRemainder ==
  ASSUME NEW p, NEW a, NEW b, NEW alts, NEW B, ListAt(p, a, b, alts, B)
  PROVE  Remainder(p, a) = b
<1> DEFINE K == Len(alts)
           S == {t \in 0 .. K - 1 : \A x \in a + 1 .. B[t + 1] - 1 : p[x] # CloseBrace}
<1>1. /\ p \in Seq(Chars) /\ K \in Nat /\ K >= 1 /\ Len(p) \in Nat
      /\ B[1] = a + 1 /\ B[K + 1] = b /\ a \in Nat
  BY DEF ListAt
<1>2. \A t \in 1 .. K :
         /\ Len(alts[t]) \in Nat /\ B[t] \in Nat
         /\ B[t] >= a + 1 /\ B[t] + Len(alts[t]) + 1 <= b /\ b <= Len(p) + 1
         /\ B[t + 1] = B[t] + Len(alts[t]) + 1
         /\ At(p, B[t] + Len(alts[t])) = IF t = K THEN CloseBrace ELSE CommaChar
         /\ \A d \in 0 .. Len(alts[t]) - 1 :
               At(p, B[t] + d) = alts[t][d + 1] /\ alts[t][d + 1] # CloseBrace
  <2> TAKE t \in 1 .. K
  <2>1. Alternative(p, a, b, alts, B, t)
    BY ListPlaces
  <2> QED BY <2>1 DEF Alternative
<1>3. \A k \in 1 .. Len(p) : At(p, k) = p[k]
  BY <1>1, AtFacts
<1> HIDE DEF K
<1>4. ASSUME NEW t \in 1 .. K, NEW x \in B[t] .. B[t] + Len(alts[t]) - 1 PROVE p[x] # CloseBrace
  <2> DEFINE l == Len(alts[t])
             c == B[t]
  <2>1. l \in Nat /\ c \in Nat /\ c >= a + 1 /\ c + l + 1 <= b /\ b <= Len(p) + 1
        /\ \A d \in 0 .. l - 1 : At(p, c + d) # CloseBrace
    BY <1>2
  <2>2. x \in c .. c + l - 1 /\ b \in Int
    BY <1>1, <1>2 DEF ListAt
  <2> HIDE DEF l, c
  <2>3. x - c \in 0 .. l - 1 /\ c + (x - c) = x /\ x \in 1 .. Len(p)
    BY <1>1, <2>1, <2>2
  <2> QED BY <1>3, <2>1, <2>3
<1>5. 0 \in S
  BY <1>1
<1>6. ASSUME NEW t \in 1 .. K - 1, t - 1 \in S PROVE t \in S
  <2> DEFINE l == Len(alts[t])
             c == B[t]
  <2>1. t \in 1 .. K /\ t # K /\ t \in 0 .. K - 1 /\ t - 1 + 1 = t
    BY <1>1
  <2>2. l \in Nat /\ c \in Nat /\ c >= a + 1 /\ B[t + 1] = c + l + 1 /\ At(p, c + l) = CommaChar
        /\ c + l + 1 <= b /\ b <= Len(p) + 1
    BY <1>2, <2>1
  <2>3. \A x \in a + 1 .. c - 1 : p[x] # CloseBrace
    BY <1>6, <2>1
  <2>4. \A x \in c .. c + l - 1 : p[x] # CloseBrace
    BY <1>4, <2>1
  <2> HIDE DEF l, c
  <2>5. p[c + l] # CloseBrace
    <3>1. b \in Int
      BY DEF ListAt
    <3>2. c + l \in 1 .. Len(p)
      BY <1>1, <2>2, <3>1
    <3> QED BY <1>3, <2>2, <3>2 DEF CommaChar, CloseBrace
  <2>6. \A x \in a + 1 .. B[t + 1] - 1 : x \in a + 1 .. c - 1 \/ x \in c .. c + l - 1 \/ x = c + l
    BY <1>1, <2>2
  <2> QED BY <2>1, <2>3, <2>4, <2>5, <2>6
<1>7. K - 1 \in S
  <2> HIDE DEF S
  <2>1. K - 1 \in Nat
    BY <1>1
  <2>2. \A t \in 0 .. K - 1 : t \in S
    BY <1>5, <1>6, <2>1, ByPlace
  <2> QED BY <2>1, <2>2
<1> DEFINE l == Len(alts[K])
           c == B[K]
<1>8. K \in 1 .. K /\ K - 1 + 1 = K
  BY <1>1
<1>9. l \in Nat /\ c \in Nat /\ c >= a + 1 /\ b = c + l + 1 /\ At(p, c + l) = CloseBrace
      /\ b <= Len(p) + 1
  BY <1>1, <1>2, <1>8
<1>10. (\A x \in a + 1 .. c - 1 : p[x] # CloseBrace) /\ (\A x \in c .. c + l - 1 : p[x] # CloseBrace)
  BY <1>4, <1>7, <1>8
<1> HIDE DEF l, c
<1>11. \A x \in a + 1 .. c + l - 1 : p[x] # CloseBrace
  <2>1. \A x \in a + 1 .. c + l - 1 : x \in a + 1 .. c - 1 \/ x \in c .. c + l - 1
    BY <1>1, <1>9
  <2> QED BY <1>10, <2>1
<1>12. c + l \in a + 1 .. Len(p) /\ c + l \in 1 .. Len(p) /\ a + 1 \in Nat \ {0}
  BY <1>1, <1>9
<1>13. p[c + l] \in {CloseBrace}
  BY <1>3, <1>9, <1>12
<1>14. \A x \in a + 1 .. c + l - 1 : p[x] \notin {CloseBrace}
  BY <1>11
<1> DEFINE i == a + 1
           k == c + l
           chars == {CloseBrace}
<1> HIDE DEF i, k, chars
<1>15. Find(p, i, chars) = k
  <2>1. i \in Nat \ {0} /\ k \in i .. Len(p) /\ p[k] \in chars /\ \A x \in i .. k - 1 : p[x] \notin chars
    <3>1. i \in Nat \ {0} /\ k \in i .. Len(p) /\ p[k] \in chars
      BY <1>12, <1>13 DEF i, k, chars
    <3>2. \A x \in i .. k - 1 : p[x] \notin chars
      <4> TAKE x \in i .. k - 1
      <4>1. x \in a + 1 .. c + l - 1
        BY <1>1, <1>9 DEF i, k
      <4> QED BY <1>14, <4>1 DEF chars
    <3> QED BY <3>1, <3>2
  <2> HIDE DEF i, k, chars
  <2> QED BY <1>1, <2>1, FoundAt
<1> QED BY <1>9, <1>15 DEF Remainder, i, k, chars

\* A text stands in s from i on.
Fits(s, text, i) ==
    i + Len(text) <= Len(s) + 1 /\ \A d \in 1 .. Len(text) : s[i + d - 1] = text[d]

\* An alternative that fits and is followed by what the rest of the pattern matches.
Good(M, s, b, alts, i, t) == Fits(s, alts[t], i) /\ M[b][i + Len(alts[t])]

\* Some alternative from t on does.
AnyOf(M, s, b, alts, i, t) == \E u \in t .. Len(alts) : Good(M, s, b, alts, i, u)

\* What Readable says of a list, if its text stands from a to before b.
Legible(M, s, p, b, alts) ==
    /\ \A t, u \in 1 .. Len(alts) :
          /\ Len(alts[t]) >= 2
          /\ alts[t][1] = alts[u][1] => alts[t] = alts[u]
          /\ \A d \in 2 .. Len(alts[u]) : alts[u][d] # alts[t][1]
    /\ b <= Len(p) => M[b][Len(s) + 1] = FALSE

\* f are the values of List for the list that stands in p from a to before b.
ListRun(f, M, s, p, a, b, alts, B, i) ==
    /\ s \in Seq(Chars) /\ p \in Seq(Chars) /\ MatchType(M, s, p)
    /\ ListAt(p, a, b, alts, B) /\ AltRun(f, M, s, p, a, i)
    /\ i \in 1 .. Len(s) /\ Legible(M, s, p, b, alts)

\* The value of List at the place d of the alternative t, by what stands there.
ListAtPlace(f, M, s, p, b, alts, B, i, t, d, x) ==
    /\ d < Len(alts[t]) /\ alts[t][d + 1] = At(s, x) =>
          (f[B[t] + d][x] <=> ~(x = Len(s) /\ b <= Len(p)) /\ f[B[t] + d + 1][x + 1])
    /\ d < Len(alts[t]) /\ alts[t][d + 1] # At(s, x) =>
          (f[B[t] + d][x] <=> t # Len(alts) /\ f[B[t + 1]][i])
    /\ d = Len(alts[t]) /\ t # Len(alts) =>
          (f[B[t] + d][x] <=> M[b][x] \/ f[B[t + 1] + 1][i])
    /\ d = Len(alts[t]) /\ t = Len(alts) => (f[B[t] + d][x] <=> M[b][x])

\* The code at every place of an alternative.
LEMMA ListCases ==
  ASSUME NEW f, NEW M, NEW s, NEW p, NEW a, NEW b, NEW alts, NEW B, NEW i,
         ListRun(f, M, s, p, a, b, alts, B, i),
         NEW t \in 1 .. Len(alts), NEW d \in 0 .. Len(alts[t]), NEW x \in 1 .. Len(s) + 1
  PROVE  ListAtPlace(f, M, s, p, b, alts, B, i, t, d, x)
<1> USE DEF ListAtPlace
<1> DEFINE l == Len(alts[t])
           c == B[t]
           n == Len(p)
           k == c + d
           K == Len(alts)
           y == At(p, k)
           v == AltAt(f, M, s, p, a, i, k, x)
           Z == {0, CommaChar, CloseBrace}
           F == Find(p, k + 1, {CommaChar, CloseBrace})
<1>0. ListAt(p, a, b, alts, B) /\ AltRun(f, M, s, p, a, i)
  BY DEF ListRun
<1>1. Alternative(p, a, b, alts, B, t)
  BY <1>0, ListPlaces
<1>2. Remainder(p, a) = b
  BY <1>0, ListRemainder
<1>3. /\ n \in Nat /\ l \in Nat /\ c \in Nat /\ a \in Nat /\ b \in Nat
      /\ a >= 1 /\ c >= a + 1 /\ c + l + 1 <= b /\ b <= n + 1
      /\ B[t + 1] = c + l + 1
      /\ At(p, c + l) = (IF t = K THEN CloseBrace ELSE CommaChar)
      /\ \A e \in 0 .. l - 1 :
            /\ At(p, c + e) = alts[t][e + 1]
            /\ alts[t][e + 1] \notin Z
            /\ Find(p, c + e + 1, {CommaChar, CloseBrace}) = c + l
  BY <1>1 DEF Alternative
<1>4. d \in 0 .. l
  OBVIOUS
<1> HIDE DEF l, c, n, Z, K
<1>5. k \in a + 1 .. n + 2 /\ k \in Int
  BY <1>3, <1>4
<1>6. f[k][x] = v
  BY <1>0, <1>5 DEF AltRun, n
<1>7. ASSUME d < l
      PROVE y = alts[t][d + 1] /\ y \notin Z /\ F = c + l
  <2>1. d \in 0 .. l - 1
    BY <1>3, <1>4, <1>7
  <2> QED BY <1>3, <2>1
<1> HIDE DEF k
<1>8. /\ y = CommaChar => (v <=> M[b][x] \/ f[k + 2][i])
      /\ y = CloseBrace => v = M[k + 1][x]
      /\ y \notin Z /\ y = At(s, x) => (v <=> ~(x = Len(s) /\ b <= n) /\ f[k + 1][x + 1])
      /\ y \notin Z /\ y # At(s, x) => (v <=> At(p, F) = CommaChar /\ f[F + 1][i])
  <2> USE <1>2 DEF AltAt, CommaChar, CloseBrace
  <2>1. y = CommaChar => (v <=> M[b][x] \/ f[k + 2][i])
    OBVIOUS
  <2>2. y = CloseBrace => v = M[k + 1][x]
    OBVIOUS
  <2>3. y \notin Z /\ y = At(s, x) => (v <=> ~(x = Len(s) /\ b <= n) /\ f[k + 1][x + 1])
    BY DEF n, Z
  <2>4. y \notin Z /\ y # At(s, x) => (v <=> At(p, F) = CommaChar /\ f[F + 1][i])
    BY DEF Z
  <2> QED BY <2>1, <2>2, <2>3, <2>4
<1> HIDE DEF y, v, F
<1>9. CASE d < l
  <2>1. y = alts[t][d + 1] /\ y \notin Z /\ F = c + l
    BY <1>7, <1>9
  <2>2. CASE y = At(s, x)
    <3>1. k + 1 = c + d + 1
      BY DEF k
    <3>2. f[c + d][x] <=> ~(x = Len(s) /\ b <= n) /\ f[c + d + 1][x + 1]
      BY <1>6, <1>8, <2>1, <2>2, <3>1 DEF k
    <3>3. alts[t][d + 1] = At(s, x) /\ ~(d = l)
      BY <1>3, <1>4, <1>9, <2>1, <2>2
    <3> QED BY <1>9, <3>2, <3>3 DEF l, c, n
  <2>3. CASE y # At(s, x)
    <3>1. At(p, F) = CommaChar <=> t # K
      <4>1. At(p, F) = IF t = K THEN CloseBrace ELSE CommaChar
        BY <1>3, <2>1
      <4>2. CloseBrace # CommaChar
        BY DEF CommaChar, CloseBrace
      <4> QED BY <4>1, <4>2
    <3>2. F + 1 = B[t + 1]
      BY <1>3, <2>1
    <3>3. f[c + d][x] <=> t # K /\ f[B[t + 1]][i]
      BY <1>6, <1>8, <2>1, <2>3, <3>1, <3>2 DEF k
    <3>4. alts[t][d + 1] # At(s, x) /\ ~(d = l)
      BY <1>3, <1>4, <1>9, <2>1, <2>3
    <3> QED BY <1>9, <3>3, <3>4 DEF l, c, K
  <2> QED BY <2>2, <2>3
<1>10. CASE d = l
  <2>1. y = IF t = K THEN CloseBrace ELSE CommaChar
    BY <1>3, <1>10 DEF y, k
  <2>2. k + 2 = B[t + 1] + 1 /\ k + 1 = B[t + 1] /\ ~(d < l)
    BY <1>3, <1>10 DEF k
  <2>3. CASE t # K
    <3>1. f[c + d][x] <=> M[b][x] \/ f[B[t + 1] + 1][i]
      BY <1>6, <1>8, <2>1, <2>2, <2>3 DEF k
    <3> QED BY <1>10, <2>2, <2>3, <3>1 DEF l, c, K
  <2>4. CASE t = K
    <3>1. B[t + 1] = b
      BY <1>0, <2>4 DEF ListAt, K
    <3>2. f[c + d][x] <=> M[b][x]
      BY <1>6, <1>8, <2>1, <2>2, <2>4, <3>1 DEF k
    <3> QED BY <1>10, <2>2, <2>4, <3>2 DEF l, c, K
  <2> QED BY <2>3, <2>4
<1>11. d < l \/ d = l
  BY <1>3, <1>4
<1> QED BY <1>9, <1>10, <1>11

\* What the steps below use of ListRun.
ListSeen(M, s, p, b, alts, i, t) ==
    /\ Len(alts) \in Nat /\ Len(s) \in Nat /\ i \in Nat /\ i >= 1 /\ i <= Len(s)
    /\ Len(alts[t]) \in Nat /\ Len(alts[t]) >= 2
    /\ \A k \in Int : At(s, k) # 0 => k <= Len(s)
    /\ \A k \in 1 .. Len(s) : At(s, k) = s[k]
    /\ \A d \in 1 .. Len(alts[t]) : alts[t][d] # 0
    /\ Len(p) \in Nat /\ b \in Nat /\ (b <= Len(p) => M[b][Len(s) + 1] = FALSE)

\* The arguments of the lemmas below.
LEMMA ListFacts ==
  ASSUME NEW f, NEW M, NEW s, NEW p, NEW a, NEW b, NEW alts, NEW B, NEW i,
         ListRun(f, M, s, p, a, b, alts, B, i), NEW t \in 1 .. Len(alts)
  PROVE  ListSeen(M, s, p, b, alts, i, t)
<1>1. /\ s \in Seq(Chars) /\ ListAt(p, a, b, alts, B)
      /\ i \in 1 .. Len(s) /\ Legible(M, s, p, b, alts)
  BY DEF ListRun
<1>2. Len(s) \in Nat /\ (\A k \in Int : At(s, k) # 0 => k <= Len(s))
      /\ \A k \in 1 .. Len(s) : At(s, k) = s[k]
  BY <1>1, AtFacts
<1>3. Alternative(p, a, b, alts, B, t)
  BY <1>1, ListPlaces
<1>4. Len(alts[t]) \in Nat /\ Len(p) \in Nat /\ b \in Nat
      /\ \A d \in 0 .. Len(alts[t]) - 1 : alts[t][d + 1] # 0
  BY <1>3 DEF Alternative
<1>5. \A d \in 1 .. Len(alts[t]) : alts[t][d] # 0
  <2> TAKE d \in 1 .. Len(alts[t])
  <2>1. d - 1 \in 0 .. Len(alts[t]) - 1 /\ d - 1 + 1 = d
    BY <1>4
  <2> QED BY <1>4, <2>1
<1>6. Len(alts) \in Nat
  BY <1>1 DEF ListAt
<1>7. Len(alts[t]) >= 2 /\ (b <= Len(p) => M[b][Len(s) + 1] = FALSE)
  BY <1>1 DEF Legible
<1>8. i \in Nat /\ i >= 1 /\ i <= Len(s)
  BY <1>1, <1>2
<1> QED BY <1>2, <1>4, <1>5, <1>6, <1>7, <1>8 DEF ListSeen

\* The first character tells the alternative.
LEMMA FirstTells ==
  ASSUME NEW f, NEW M, NEW s, NEW p, NEW a, NEW b, NEW alts, NEW B, NEW i,
         ListRun(f, M, s, p, a, b, alts, B, i),
         NEW t \in 1 .. Len(alts), NEW u \in 1 .. Len(alts),
         s[i] = alts[t][1], Good(M, s, b, alts, i, u)
  PROVE  Good(M, s, b, alts, i, t)
<1>1. i \in Nat /\ Len(alts[u]) \in Nat /\ Len(alts[u]) >= 2
  <2>1. ListSeen(M, s, p, b, alts, i, u)
    BY ListFacts
  <2> QED BY <2>1 DEF ListSeen
<1>2. s[i] = alts[u][1]
  <2>1. 1 \in 1 .. Len(alts[u]) /\ i + 1 - 1 = i
    BY <1>1
  <2> QED BY <2>1 DEF Good, Fits
<1>3. alts[t] = alts[u]
  <2>1. Legible(M, s, p, b, alts)
    BY DEF ListRun
  <2>2. alts[t][1] = alts[u][1] => alts[t] = alts[u]
    BY <2>1 DEF Legible
  <2> QED BY <1>2, <2>2
<1> QED BY <1>3 DEF Good

\* From the second character of an alternative the next is reached, if the first of
\* some alternative has been seen.
LEMMA SecondSkips ==
  ASSUME NEW f, NEW M, NEW s, NEW p, NEW a, NEW b, NEW alts, NEW B, NEW i,
         ListRun(f, M, s, p, a, b, alts, B, i),
         NEW t \in 1 .. Len(alts), NEW u \in 1 .. Len(alts), s[i] = alts[t][1]
  PROVE  f[B[u] + 1][i] <=> u # Len(alts) /\ f[B[u + 1]][i]
<1>1. /\ i \in Nat /\ i >= 1 /\ i <= Len(s) /\ Len(s) \in Nat
      /\ Len(alts[u]) \in Nat /\ Len(alts[u]) >= 2
      /\ \A k \in 1 .. Len(s) : At(s, k) = s[k]
  <2>1. ListSeen(M, s, p, b, alts, i, u)
    BY ListFacts
  <2> QED BY <2>1 DEF ListSeen
<1>2. 2 \in 2 .. Len(alts[u]) /\ i \in 1 .. Len(s) /\ i \in 1 .. Len(s) + 1
      /\ 1 \in 0 .. Len(alts[u]) /\ 1 < Len(alts[u])
  BY <1>1
<1>3. alts[u][2] # alts[t][1]
  BY <1>2 DEF ListRun, Legible
<1>4. alts[u][1 + 1] # At(s, i)
  BY <1>1, <1>2, <1>3
<1>5. ListAtPlace(f, M, s, p, b, alts, B, i, u, 1, i)
  BY <1>2, ListCases
<1> QED BY <1>2, <1>4, <1>5 DEF ListAtPlace

\* Inside an alternative, as far as it fits, the code still decides for the list.
LEMMA ListOnward ==
  ASSUME NEW f, NEW M, NEW s, NEW p, NEW a, NEW b, NEW alts, NEW B, NEW i,
         ListRun(f, M, s, p, a, b, alts, B, i), NEW t \in 1 .. Len(alts),
         \A u \in t + 1 .. Len(alts) : f[B[u]][i] <=> AnyOf(M, s, b, alts, i, u),
         NEW d \in 0 .. Len(alts[t]), i + d <= Len(s) + 1,
         \A e \in 1 .. d : s[i + e - 1] = alts[t][e],
         d < Len(alts[t]) /\ i + d <= Len(s) /\ s[i + d] = alts[t][d + 1] =>
            (f[B[t] + d + 1][i + d + 1] <=> AnyOf(M, s, b, alts, i, t))
  PROVE  f[B[t] + d][i + d] <=> AnyOf(M, s, b, alts, i, t)
<1> DEFINE K == Len(alts)
           l == Len(alts[t])
           L == Len(s)
           c == B[t]
           G(u) == Good(M, s, b, alts, i, u)
           A(u) == AnyOf(M, s, b, alts, i, u)
<1> SUFFICES f[c + d][i + d] <=> A(t)
  OBVIOUS
<1>0. ListSeen(M, s, p, b, alts, i, t)
  BY ListFacts
<1>1. /\ K \in Nat /\ L \in Nat /\ i \in Nat /\ i >= 1 /\ i <= L /\ l \in Nat /\ l >= 2
      /\ \A k \in Int : At(s, k) # 0 => k <= L
      /\ \A k \in 1 .. L : At(s, k) = s[k]
      /\ \A e \in 1 .. l : alts[t][e] # 0
  BY <1>0 DEF ListSeen
<1>2. \A u : A(u) <=> \E w \in u .. K : G(w)
  BY DEF AnyOf
<1>3. t \in 1 .. K /\ t \in Int /\ d \in 0 .. l /\ d \in Int /\ i + d <= L + 1
  OBVIOUS
<1>4. G(t) <=> /\ i + l <= L + 1 /\ \A e \in 1 .. l : s[i + e - 1] = alts[t][e]
               /\ M[b][i + l]
  BY DEF Good, Fits
<1>5. i + d \in 1 .. L + 1
  BY <1>1, <1>3
<1>6. /\ d < l /\ alts[t][d + 1] = At(s, i + d) =>
            (f[c + d][i + d] <=> ~(i + d = L /\ b <= Len(p)) /\ f[c + d + 1][i + d + 1])
      /\ d < l /\ alts[t][d + 1] # At(s, i + d) =>
            (f[c + d][i + d] <=> t # K /\ f[B[t + 1]][i])
      /\ d = l /\ t # K => (f[c + d][i + d] <=> M[b][i + d] \/ f[B[t + 1] + 1][i])
      /\ d = l /\ t = K => (f[c + d][i + d] <=> M[b][i + d])
  <2>1. ListAtPlace(f, M, s, p, b, alts, B, i, t, d, i + d)
    BY <1>5, ListCases
  <2> QED BY <2>1 DEF ListAtPlace
<1>7. \A u \in t + 1 .. K : f[B[u]][i] <=> A(u)
  OBVIOUS
<1>8. s[i] = alts[t][1] => \A u \in 1 .. K : G(u) => G(t)
  BY FirstTells
<1>9. s[i] = alts[t][1] => (A(t) <=> G(t))
  <2>1. t \in t .. K /\ \A u \in t .. K : u \in 1 .. K
    BY <1>1, <1>3
  <2> QED BY <1>2, <1>8, <2>1
<1>10. s[i] = alts[t][1] =>
          \A u \in 1 .. K : f[B[u] + 1][i] <=> u # K /\ f[B[u + 1]][i]
  BY SecondSkips
<1>11. \A e \in 1 .. d : s[i + e - 1] = alts[t][e]
  OBVIOUS
<1>12. d < l /\ i + d <= L /\ s[i + d] = alts[t][d + 1] => (f[c + d + 1][i + d + 1] <=> A(t))
  OBVIOUS
<1>13. b <= Len(p) => M[b][L + 1] = FALSE
  BY <1>0 DEF ListSeen
<1> HIDE DEF K, l, L, c, G, A
<1>14. CASE d = l
  <2>1. s[i] = alts[t][1]
    <3>1. 1 \in 1 .. d /\ i + 1 - 1 = i
      BY <1>1, <1>14
    <3> QED BY <1>11, <3>1
  <2>2. G(t) <=> M[b][i + l]
    BY <1>3, <1>4, <1>11, <1>14
  <2>3. CASE t = K
    BY <1>6, <1>9, <1>14, <2>1, <2>2, <2>3
  <2>4. CASE t # K
    <3>1. t + 1 \in 1 .. K
      <4>1. K \in Nat /\ t \in 1 .. K
        BY <1>1, <1>3
      <4> QED BY <2>4, <4>1
    <3>2. f[B[t + 1] + 1][i] => G(t)
      <4> SUFFICES ASSUME f[B[t + 1] + 1][i] PROVE G(t)
        OBVIOUS
      <4>1. t + 1 # K /\ f[B[t + 1 + 1]][i]
        BY <1>10, <2>1, <3>1
      <4>2. t + 1 + 1 \in t + 1 .. K
        BY <1>1, <1>3, <3>1, <4>1
      <4>3. A(t + 1 + 1)
        BY <1>7, <4>1, <4>2
      <4>4. PICK u \in t + 1 + 1 .. K : G(u)
        BY <1>2, <4>3
      <4>5. u \in 1 .. K
        BY <1>1, <1>3
      <4> QED BY <1>8, <2>1, <4>4, <4>5
    <3> QED BY <1>6, <1>9, <1>14, <2>1, <2>2, <2>4, <3>2
  <2> QED BY <2>3, <2>4
<1>15. CASE d < l /\ alts[t][d + 1] = At(s, i + d)
  <2>1. d + 1 \in 1 .. l
    BY <1>1, <1>3, <1>15
  <2>2. i + d <= L
    BY <1>1, <1>3, <1>15, <2>1
  <2>3. s[i + d] = alts[t][d + 1]
    <3>1. i + d \in 1 .. L
      BY <1>1, <1>3, <2>2
    <3> QED BY <1>1, <1>15, <3>1
  <2>4. s[i] = alts[t][1]
    <3>1. CASE d = 0
      BY <1>1, <2>3, <3>1
    <3>2. CASE d # 0
      <4>1. 1 \in 1 .. d /\ i + 1 - 1 = i
        BY <1>1, <1>3, <3>2
      <4> QED BY <1>11, <4>1
    <3> QED BY <3>1, <3>2
  <2>5. ~(i + d = L /\ b <= Len(p) /\ A(t))
    <3> SUFFICES ASSUME i + d = L, b <= Len(p), A(t) PROVE FALSE
      OBVIOUS
    <3>1. G(t)
      BY <1>9, <2>4
    <3>2. i + l <= L + 1 /\ M[b][i + l]
      BY <1>4, <3>1
    <3>3. i + l = L + 1
      BY <1>1, <1>3, <1>15, <3>2
    <3> QED BY <1>13, <3>2, <3>3
  <2> QED BY <1>6, <1>12, <1>15, <2>2, <2>3, <2>5
<1>16. CASE d < l /\ alts[t][d + 1] # At(s, i + d)
  <2>1. ~G(t)
    <3> SUFFICES ASSUME G(t) PROVE FALSE
      OBVIOUS
    <3>1. d + 1 \in 1 .. l /\ i + (d + 1) - 1 = i + d
      BY <1>1, <1>3, <1>16
    <3>2. i + l <= L + 1 /\ s[i + d] = alts[t][d + 1]
      BY <1>4, <3>1
    <3>3. i + d \in 1 .. L
      BY <1>1, <1>3, <1>16, <3>2
    <3> QED BY <1>1, <1>16, <3>2, <3>3
  <2>2. A(t) <=> t # K /\ A(t + 1)
    <3>1. \A u \in t .. K : u = t \/ u \in t + 1 .. K
      BY <1>1, <1>3
    <3>2. \A u \in t + 1 .. K : u \in t .. K
      BY <1>1, <1>3
    <3>3. t = K => \A u \in t + 1 .. K : FALSE
      BY <1>1, <1>3
    <3> QED BY <1>2, <2>1, <3>1, <3>2, <3>3
  <2>3. t # K => (f[B[t + 1]][i] <=> A(t + 1))
    <3>1. t # K => t + 1 \in t + 1 .. K
      BY <1>1, <1>3
    <3> QED BY <1>7, <3>1
  <2> QED BY <1>6, <1>16, <2>2, <2>3
<1>17. d = l \/ d < l
  BY <1>1, <1>3
<1> QED BY <1>14, <1>15, <1>16, <1>17

\* So it does at its first character, if it does behind it.
LEMMA ListInner ==
  ASSUME NEW f, NEW M, NEW s, NEW p, NEW a, NEW b, NEW alts, NEW B, NEW i,
         ListRun(f, M, s, p, a, b, alts, B, i), NEW t \in 1 .. Len(alts),
         \A u \in t + 1 .. Len(alts) : f[B[u]][i] <=> AnyOf(M, s, b, alts, i, u)
  PROVE  f[B[t]][i] <=> AnyOf(M, s, b, alts, i, t)
<1> DEFINE l == Len(alts[t])
           L == Len(s)
           c == B[t]
           A == AnyOf(M, s, b, alts, i, t)
           Begun(d) == i + d <= L + 1 /\ \A e \in 1 .. d : s[i + e - 1] = alts[t][e]
           S == {d \in 0 .. l : Begun(d) => (f[c + d][i + d] <=> A)}
<1>1. L \in Nat /\ i \in Nat /\ i >= 1 /\ i <= L /\ l \in Nat
  <2>1. ListSeen(M, s, p, b, alts, i, t)
    BY ListFacts
  <2> QED BY <2>1 DEF ListSeen
<1>2. c \in Nat
  <2>1. ListAt(p, a, b, alts, B)
    BY DEF ListRun
  <2>2. Alternative(p, a, b, alts, B, t)
    BY <2>1, ListPlaces
  <2> QED BY <2>2 DEF Alternative
<1>3. ASSUME NEW d \in 0 .. l, \A m \in d + 1 .. l : m \in S PROVE d \in S
  <2> SUFFICES ASSUME Begun(d) PROVE f[c + d][i + d] <=> A
    OBVIOUS
  <2>1. d < l /\ i + d <= L /\ s[i + d] = alts[t][d + 1] => (f[c + d + 1][i + d + 1] <=> A)
    <3> SUFFICES ASSUME d < l, i + d <= L, s[i + d] = alts[t][d + 1]
                 PROVE  f[c + d + 1][i + d + 1] <=> A
      OBVIOUS
    <3>1. d + 1 \in d + 1 .. l /\ d \in Nat
      BY <1>1
    <3>2. i + (d + 1) <= L + 1
      BY <1>1, <3>1
    <3>3. \A e \in 1 .. d + 1 : s[i + e - 1] = alts[t][e]
      <4> TAKE e \in 1 .. d + 1
      <4>1. CASE e = d + 1
        BY <1>1, <3>1, <4>1
      <4>2. CASE e # d + 1
        <5>1. e \in 1 .. d
          BY <3>1, <4>2
        <5> QED BY <5>1
      <4> QED BY <4>1, <4>2
    <3>4. Begun(d + 1)
      BY <3>2, <3>3
    <3>5. d + 1 \in S
      BY <1>3, <3>1
    <3>6. f[c + (d + 1)][i + (d + 1)] <=> A
      <4> HIDE DEF Begun, A, c, l
      <4> QED BY <3>4, <3>5
    <3>7. c + (d + 1) = c + d + 1 /\ i + (d + 1) = i + d + 1
      <4>1. \A x, y \in Nat : x + (y + 1) = x + y + 1
        OBVIOUS
      <4>2. c \in Nat /\ i \in Nat /\ d \in Nat
        BY <1>1, <1>2, <3>1
      <4> HIDE DEF c
      <4> QED BY <4>1, <4>2
    <3> HIDE DEF A, c
    <3> QED BY <3>6, <3>7
  <2>2. i + d <= L + 1 /\ \A e \in 1 .. d : s[i + e - 1] = alts[t][e]
    OBVIOUS
  <2> HIDE DEF S
  <2> QED BY <2>1, <2>2, ListOnward
<1>4. 0 \in S
  <2> HIDE DEF S
  <2>1. 0 \in Int /\ l \in Int
    BY <1>1
  <2>2. \A d \in 0 .. l : d \in S
    BY <1>3, <2>1, Backwards
  <2> QED BY <1>1, <2>2
<1>5. Begun(0)
  BY <1>1
<1>6. f[c + 0][i + 0] <=> A
  <2> HIDE DEF Begun, A, c, l
  <2> QED BY <1>4, <1>5
<1>7. c + 0 = c /\ i + 0 = i
  BY <1>1, <1>2
<1> HIDE DEF A, c
<1>8. f[c][i] <=> A
  BY <1>6, <1>7
<1> QED BY <1>8 DEF A, c

\* The list matches if one of its alternatives fits and what follows matches.
LEMMA ListRight ==
  ASSUME NEW f, NEW M, NEW s, NEW p, NEW a, NEW b, NEW alts, NEW B, NEW i,
         ListRun(f, M, s, p, a, b, alts, B, i)
  PROVE  f[a + 1][i] <=> AnyOf(M, s, b, alts, i, 1)
<1> DEFINE K == Len(alts)
           Right(t) == f[B[t]][i] <=> AnyOf(M, s, b, alts, i, t)
           S == {t \in 1 .. K : Right(t)}
<1>1. K \in Nat /\ K >= 1 /\ B[1] = a + 1
  BY DEF ListRun, ListAt
<1>2. \A t \in 1 .. K : (\A u \in t + 1 .. K : u \in S) => t \in S
  <2> SUFFICES ASSUME NEW t \in 1 .. K, \A u \in t + 1 .. K : u \in S PROVE Right(t)
    OBVIOUS
  <2>1. \A u \in t + 1 .. K : Right(u)
    OBVIOUS
  <2> HIDE DEF S
  <2> QED BY <2>1, ListInner
<1>3. \A t \in 1 .. K : t \in S
  <2> HIDE DEF S
  <2>1. 1 \in Int /\ K \in Int
    BY <1>1
  <2> QED BY <1>2, <2>1, Backwards
<1>4. Right(1)
  BY <1>1, <1>3
<1> QED BY <1>1, <1>4

\* A text that fits is a part of the string.
LEMMA FitsIs ==
  ASSUME NEW s \in Seq(Chars), NEW text \in Seq(Chars), NEW i \in 1 .. Len(s) + 1,
         NEW k \in i .. Len(s) + 1
  PROVE  SubSeq(s, i, k - 1) = text <=> k = i + Len(text) /\ Fits(s, text, i)
<1> DEFINE x == SubSeq(s, i, k - 1)
           L == Len(s)
           l == Len(text)
<1>1. L \in Nat /\ l \in Nat /\ i \in Nat /\ i >= 1 /\ k \in Nat /\ i <= k /\ k <= L + 1
  OBVIOUS
<1>2. x \in Seq(Chars) /\ Len(x) = k - i /\ \A d \in 1 .. k - i : x[d] = s[i + d - 1]
  <2>1. x = [d \in 1 .. k - 1 - i + 1 |-> s[i + d - 1]]
    OBVIOUS
  <2>2. k - 1 - i + 1 = k - i /\ k - i \in Nat
    BY <1>1
  <2>3. x = [d \in 1 .. k - i |-> s[i + d - 1]]
    BY <2>1, <2>2
  <2>4. \A d \in 1 .. k - i : i + d - 1 \in 1 .. L
    BY <1>1
  <2>5. \A d \in 1 .. k - i : s[i + d - 1] \in Chars
    BY <2>4
  <2> DEFINE m == k - i
             v(d) == s[i + d - 1]
  <2> HIDE DEF m, v, x
  <2>6. m \in Nat /\ x = [d \in 1 .. m |-> v(d)] /\ \A d \in 1 .. m : v(d) \in Chars
    BY <2>2, <2>3, <2>5 DEF m, v
  <2>7. x \in Seq(Chars) /\ Len(x) = m /\ \A d \in 1 .. m : x[d] = v(d)
    BY <2>6
  <2> QED BY <2>7 DEF m, v
<1>3. text \in Seq(Chars) /\ text = [d \in 1 .. l |-> text[d]]
  OBVIOUS
<1> HIDE DEF x, L, l
<1>4. ASSUME x = text PROVE k = i + l /\ i + l <= L + 1 /\ \A d \in 1 .. l : s[i + d - 1] = text[d]
  <2>1. k - i = l
    BY <1>2, <1>4 DEF l
  <2> QED BY <1>1, <1>2, <1>4, <2>1
<1>5. ASSUME k = i + l, \A d \in 1 .. l : s[i + d - 1] = text[d] PROVE x = text
  <2>1. k - i = l
    BY <1>1, <1>5
  <2>2. x = [d \in 1 .. l |-> x[d]]
    BY <1>2, <2>1
  <2> QED BY <1>2, <1>3, <1>5, <2>1, <2>2
<1> QED BY <1>4, <1>5 DEF Fits, x, L, l

----------------------------------------------------------------------------
(* What matches, and what is meant *)

\* The pattern p is the text of items, which begin at st[1], st[2], ...; M and g are
\* what its places match and what its items stand for.
Both(M, g, s, p, items, st) ==
    /\ s \in Seq(Chars) /\ p \in Seq(Chars) /\ items \in Seq(Shape)
    /\ \A n \in DOMAIN items : Spelled(items[n])
    /\ Readable(items) /\ ItemsAt(p, items, st) /\ MatchRun(M, s, p) /\ GlobRun(g, s, items)

\* They agree at the item n, and at the end.
Agrees(M, g, s, st, n) == \A i \in 1 .. Len(s) + 1 : M[st[n]][i] <=> g[n][i]

\* What there is at a place of the pattern.
MatchHere(M, s, p, j, i) ==
    /\ At(p, j) = 0 => (M[j][i] <=> ~(i <= Len(s)))
    /\ At(p, j) = Star =>
          (M[j][i] <=> \/ Find(p, j, NotStars) > Len(p)
                       \/ \E a \in StarFrom(s, i, p, Find(p, j, NotStars)) .. Len(s) :
                             M[Find(p, j, NotStars)][a])
    /\ At(p, j) = Single => (M[j][i] <=> i <= Len(s) /\ M[j + 1][i + 1])
    /\ At(p, j) = Open /\ InSet(At(s, i), p, SetBegin(p, j)).in \in BOOLEAN =>
          (M[j][i] <=> /\ i <= Len(s) /\ InSet(At(s, i), p, SetBegin(p, j)).ok
                       /\ (InSet(At(s, i), p, SetBegin(p, j)).in <=> ~(At(p, j + 1) = Negate))
                       /\ SetEnd(At(s, i), p, j) <= Len(p)
                       /\ M[SetEnd(At(s, i), p, j) + 1][i + 1])
    /\ At(p, j) = OpenBrace =>
          (M[j][i] <=> /\ i <= Len(s) /\ Remainder(p, j) <= Len(p) + 1
                       /\ Alternatives(M, s, p, j, i))
    /\ At(p, j) \notin Special =>
          (M[j][i] <=> i <= Len(s) /\ At(p, j) = At(s, i) /\ M[j + 1][i + 1])

\* The code, place by place.
LEMMA MatchCases ==
  ASSUME NEW M, NEW s, NEW p, MatchRun(M, s, p),
         NEW j \in 1 .. Len(p) + 1, NEW i \in 1 .. Len(s) + 1
  PROVE  MatchHere(M, s, p, j, i)
<1> DEFINE c == At(p, j)
           v == M[j][i]
<1>1. v = MatchAt(M, s, p, j, i)
  BY DEF MatchRun
<1> HIDE DEF v
<1> USE DEF Star, Single, Open, OpenBrace
<1>2. c = 0 => (v <=> ~(i <= Len(s)))
  <2>1. c = 0 => MatchAt(M, s, p, j, i) = ~(i <= Len(s))
    BY DEF MatchAt
  <2> QED BY <1>1, <2>1
<1>3. c = Star =>
          (v <=> \/ Find(p, j, NotStars) > Len(p)
                 \/ \E a \in StarFrom(s, i, p, Find(p, j, NotStars)) .. Len(s) :
                       M[Find(p, j, NotStars)][a])
  BY <1>1 DEF MatchAt
<1>4. c = Single => (v <=> i <= Len(s) /\ M[j + 1][i + 1])
  <2>1. c = Single => MatchAt(M, s, p, j, i) = (i <= Len(s) /\ M[j + 1][i + 1])
    BY DEF MatchAt
  <2> QED BY <1>1, <2>1
<1>5. c = Open /\ InSet(At(s, i), p, SetBegin(p, j)).in \in BOOLEAN =>
          (v <=> /\ i <= Len(s) /\ InSet(At(s, i), p, SetBegin(p, j)).ok
                 /\ (InSet(At(s, i), p, SetBegin(p, j)).in <=> ~(At(p, j + 1) = Negate))
                 /\ SetEnd(At(s, i), p, j) <= Len(p)
                 /\ M[SetEnd(At(s, i), p, j) + 1][i + 1])
  <2> DEFINE set == InSet(At(s, i), p, SetBegin(p, j))
             negated == At(p, j + 1) = Negate
             e == SetEnd(At(s, i), p, j)
  <2> SUFFICES ASSUME c = Open, set.in \in BOOLEAN
               PROVE  v <=> /\ i <= Len(s) /\ set.ok /\ (set.in <=> ~negated)
                            /\ e <= Len(p) /\ M[e + 1][i + 1]
    OBVIOUS
  <2>1. v = (/\ i <= Len(s) /\ set.ok /\ set.in # negated /\ e <= Len(p) /\ M[e + 1][i + 1])
    BY <1>1 DEF MatchAt, SetBegin, SetEnd
  <2>2. negated \in BOOLEAN
    OBVIOUS
  <2> HIDE DEF set, negated, e
  <2>3. (set.in # negated) <=> (set.in <=> ~negated)
    BY <2>2
  <2> QED BY <2>1, <2>3
<1>6. c = OpenBrace =>
          (v <=> /\ i <= Len(s) /\ Remainder(p, j) <= Len(p) + 1 /\ Alternatives(M, s, p, j, i))
  BY <1>1 DEF MatchAt
<1>7. c \notin Special => (v <=> i <= Len(s) /\ c = At(s, i) /\ M[j + 1][i + 1])
  BY <1>1 DEF MatchAt, Special
<1> QED BY <1>2, <1>3, <1>4, <1>5, <1>6, <1>7 DEF MatchHere, v

\* What is known of an item, which begins at a.
Here(M, g, s, p, items, st, n) ==
    /\ Len(s) \in Nat /\ Len(p) \in Nat /\ Len(items) \in Nat
    /\ \A k \in 1 .. Len(s) : At(s, k) = s[k] /\ s[k] \in Int
    /\ \A k \in Int : At(s, k) \in Int
    /\ \A k \in 1 .. Len(p) : At(p, k) = p[k]
    /\ items[n] \in Shape /\ Spelled(items[n]) /\ ItemAt(p, st[n], st[n + 1], items[n])
    /\ st[n] \in 1 .. Len(p)
    /\ \A i \in 1 .. Len(s) + 1 : MatchHere(M, s, p, st[n], i)
    /\ \A i \in 1 .. Len(s) + 1 :
          g[n][i] <=> \E k \in i .. Len(s) + 1 : Takes(items[n], s, i, k) /\ g[n + 1][k]

\* An item, and the code at its place.
LEMMA ItemHere ==
  ASSUME NEW M, NEW g, NEW s, NEW p, NEW items, NEW st, Both(M, g, s, p, items, st),
         NEW n \in 1 .. Len(items)
  PROVE  Here(M, g, s, p, items, st, n)
<1>1. /\ s \in Seq(Chars) /\ p \in Seq(Chars) /\ items \in Seq(Shape)
      /\ \A m \in DOMAIN items : Spelled(items[m])
      /\ ItemsAt(p, items, st) /\ MatchRun(M, s, p) /\ GlobRun(g, s, items)
  BY DEF Both
<1>2. Len(s) \in Nat /\ Len(p) \in Nat /\ Len(items) \in Nat
  BY <1>1
<1>3. (\A k \in 1 .. Len(s) : At(s, k) = s[k] /\ s[k] \in Int)
      /\ (\A k \in Int : At(s, k) \in Int) /\ \A k \in 1 .. Len(p) : At(p, k) = p[k]
  BY <1>1, AtFacts
<1>4. items[n] \in Shape /\ Spelled(items[n]) /\ ItemAt(p, st[n], st[n + 1], items[n])
  BY <1>1 DEF ItemsAt
<1>5. st[n] \in 1 .. Len(p)
  BY <1>4 DEF ItemAt
<1>6. \A i \in 1 .. Len(s) + 1 : MatchHere(M, s, p, st[n], i)
  <2> TAKE i \in 1 .. Len(s) + 1
  <2>1. st[n] \in 1 .. Len(p) + 1
    BY <1>2, <1>5
  <2> QED BY <1>1, <2>1, MatchCases
<1>7. ASSUME NEW i \in 1 .. Len(s) + 1
      PROVE  g[n][i] <=> \E k \in i .. Len(s) + 1 : Takes(items[n], s, i, k) /\ g[n + 1][k]
  <2>1. n \in 1 .. Len(items) + 1 /\ ~(n > Len(items))
    BY <1>2
  <2>2. g[n][i] = GlobAt(g, s, items, n, i)
    BY <1>1, <2>1 DEF GlobRun
  <2> QED BY <2>1, <2>2 DEF GlobAt
<1> QED BY <1>2, <1>3, <1>4, <1>5, <1>6, <1>7 DEF Here

\* Behind the last item.
LEMMA EndRight ==
  ASSUME NEW M, NEW g, NEW s, NEW p, NEW items, NEW st, Both(M, g, s, p, items, st)
  PROVE  Agrees(M, g, s, st, Len(items) + 1)
<1>1. /\ s \in Seq(Chars) /\ p \in Seq(Chars) /\ items \in Seq(Shape)
      /\ ItemsAt(p, items, st) /\ MatchRun(M, s, p) /\ GlobRun(g, s, items)
  BY DEF Both
<1>2. Len(s) \in Nat /\ Len(p) \in Nat /\ Len(items) \in Nat
  BY <1>1
<1>3. st[Len(items) + 1] = Len(p) + 1
  BY <1>1 DEF ItemsAt
<1>4. At(p, Len(p) + 1) = 0
  <2>1. Len(p) + 1 \in Int /\ ~(Len(p) + 1 <= Len(p))
    BY <1>2
  <2> QED BY <1>1, <2>1, AtFacts
<1>5. ASSUME NEW i \in 1 .. Len(s) + 1
      PROVE  M[Len(p) + 1][i] <=> g[Len(items) + 1][i]
  <2>1. Len(p) + 1 \in 1 .. Len(p) + 1
    BY <1>2
  <2>2. MatchHere(M, s, p, Len(p) + 1, i)
    BY <1>1, <2>1, MatchCases
  <2>3. M[Len(p) + 1][i] <=> ~(i <= Len(s))
    BY <1>4, <2>2 DEF MatchHere
  <2>4. Len(items) + 1 \in 1 .. Len(items) + 1 /\ Len(items) + 1 > Len(items)
    BY <1>2
  <2>5. g[Len(items) + 1][i] = GlobAt(g, s, items, Len(items) + 1, i)
    BY <1>1, <2>4 DEF GlobRun
  <2>6. g[Len(items) + 1][i] <=> i > Len(s)
    BY <2>4, <2>5 DEF GlobAt
  <2>7. ~(i <= Len(s)) <=> i > Len(s)
    BY <1>2
  <2> QED BY <2>3, <2>6, <2>7
<1> QED BY <1>3, <1>5 DEF Agrees

\* An item that takes one character: those in the places W.
LEMMA OneRight ==
  ASSUME NEW M, NEW g, NEW s, NEW p, NEW items, NEW st, NEW n \in 1 .. Len(items), NEW W,
         Here(M, g, s, p, items, st, n), Agrees(M, g, s, st, n + 1),
         \A i \in 1 .. Len(s) + 1 :
            M[st[n]][i] <=> i <= Len(s) /\ i \in W /\ M[st[n + 1]][i + 1],
         \A i \in 1 .. Len(s) : \A k \in i .. Len(s) + 1 :
            Takes(items[n], s, i, k) <=> k = i + 1 /\ i \in W,
         ~Takes(items[n], s, Len(s) + 1, Len(s) + 1)
  PROVE  Agrees(M, g, s, st, n)
<1> DEFINE L == Len(s)
           item == items[n]
<1>1. L \in Nat /\ \A i \in 1 .. L + 1 :
                      g[n][i] <=> \E k \in i .. L + 1 : Takes(item, s, i, k) /\ g[n + 1][k]
  BY DEF Here
<1>2. ASSUME NEW i \in 1 .. L + 1 PROVE M[st[n]][i] <=> g[n][i]
  <2>1. M[st[n]][i] <=> i <= L /\ i \in W /\ M[st[n + 1]][i + 1]
    OBVIOUS
  <2>2. g[n][i] <=> \E k \in i .. L + 1 : Takes(item, s, i, k) /\ g[n + 1][k]
    BY <1>1
  <2>3. CASE i = L + 1
    <3>1. \A k \in i .. L + 1 : k = L + 1
      BY <1>1, <2>3
    <3>2. ~(i <= L)
      BY <1>1, <2>3
    <3> QED BY <2>1, <2>2, <2>3, <3>1, <3>2
  <2>4. CASE i # L + 1
    <3>1. i \in 1 .. L /\ i <= L /\ i + 1 \in i .. L + 1 /\ i + 1 \in 1 .. L + 1
      BY <1>1, <2>4
    <3>2. M[st[n + 1]][i + 1] <=> g[n + 1][i + 1]
      BY <3>1 DEF Agrees
    <3>3. \A k \in i .. L + 1 : Takes(item, s, i, k) <=> k = i + 1 /\ i \in W
      BY <3>1
    <3> HIDE DEF item, L
    <3> QED BY <2>1, <2>2, <3>1, <3>2, <3>3
  <2> QED BY <2>3, <2>4
<1> QED BY <1>2 DEF Agrees

\* A character, or ? for any.
LEMMA CharRight ==
  ASSUME NEW M, NEW g, NEW s, NEW p, NEW items, NEW st, NEW n \in 1 .. Len(items),
         Here(M, g, s, p, items, st, n), Agrees(M, g, s, st, n + 1),
         items[n].kind \in {"char", "any"}
  PROVE  Agrees(M, g, s, st, n)
<1> DEFINE L == Len(s)
           item == items[n]
           c == item.text[1]
           a == st[n]
           W == IF item.kind = "char" THEN {i \in 1 .. L : s[i] = c} ELSE 1 .. L
<1>1. L \in Nat /\ (\A k \in 1 .. L : At(s, k) = s[k])
      /\ item \in Shape /\ Spelled(item) /\ a \in 1 .. Len(p) /\ At(p, a) = p[a]
      /\ ItemAt(p, a, st[n + 1], item)
      /\ \A i \in 1 .. L + 1 : MatchHere(M, s, p, a, i)
  BY DEF Here
<1>2. st[n + 1] = a + 1 /\ p[a] = c
  BY <1>1 DEF ItemAt
<1>3. item.kind = "char" => c \notin Special
  <2> SUFFICES ASSUME item.kind = "char" PROVE c \notin Special
    OBVIOUS
  <2>1. PICK x \in Chars \ {Star, Single, Open, OpenBrace} : item.text = <<x>>
    BY <1>1, ShapeFacts
  <2>2. c = x
    BY <2>1
  <2> QED BY <2>1, <2>2, CodesAreChars DEF Special
<1>4. item.kind = "any" => c = Single
  <2> SUFFICES ASSUME item.kind = "any" PROVE c = Single
    OBVIOUS
  <2>1. item.text = <<Single>>
    BY <1>1, ShapeFacts
  <2> QED BY <2>1
<1>5. \A i \in 1 .. L + 1 : M[a][i] <=> i <= L /\ i \in W /\ M[st[n + 1]][i + 1]
  <2> TAKE i \in 1 .. L + 1
  <2>1. MatchHere(M, s, p, a, i) /\ At(p, a) = c
    BY <1>1, <1>2
  <2>2. i <= L => i \in 1 .. L
    BY <1>1
  <2>3. CASE item.kind = "char"
    <3>1. M[a][i] <=> i <= L /\ c = At(s, i) /\ M[a + 1][i + 1]
      BY <1>3, <2>1, <2>3 DEF MatchHere
    <3>2. i <= L => (c = At(s, i) <=> i \in W)
      BY <1>1, <2>2, <2>3
    <3> HIDE DEF W, L, a
    <3> QED BY <1>2, <3>1, <3>2
  <2>4. CASE item.kind = "any"
    <3>1. M[a][i] <=> i <= L /\ M[a + 1][i + 1]
      BY <1>4, <2>1, <2>4 DEF MatchHere
    <3>2. i <= L => i \in W
      BY <2>2, <2>4
    <3> HIDE DEF W, L, a
    <3> QED BY <1>2, <3>1, <3>2
  <2> QED BY <2>3, <2>4
<1>6. ASSUME NEW i \in 1 .. L, NEW k \in i .. L + 1
      PROVE  Takes(item, s, i, k) <=> k = i + 1 /\ i \in W
  <2>1. CASE item.kind = "char"
    <3>1. Takes(item, s, i, k) <=> k = i + 1 /\ s[i] = c
      BY <2>1 DEF Takes
    <3> QED BY <2>1, <3>1
  <2>2. CASE item.kind = "any"
    <3>1. Takes(item, s, i, k) <=> k = i + 1
      BY <2>2 DEF Takes
    <3> QED BY <2>2, <3>1
  <2> QED BY <2>1, <2>2
<1>7. ~Takes(item, s, L + 1, L + 1)
  <2>1. L + 1 # L + 1 + 1
    BY <1>1
  <2>2. CASE item.kind = "char"
    BY <2>1, <2>2 DEF Takes
  <2>3. CASE item.kind = "any"
    BY <2>1, <2>3 DEF Takes
  <2> QED BY <2>2, <2>3
<1> HIDE DEF W
<1> QED BY <1>5, <1>6, <1>7, OneRight

\* A set of characters, or what is not in it.
LEMMA SetRight ==
  ASSUME NEW M, NEW g, NEW s, NEW p, NEW items, NEW st, NEW n \in 1 .. Len(items),
         Here(M, g, s, p, items, st, n), Agrees(M, g, s, st, n + 1),
         items[n].kind \in {"set", "not"}
  PROVE  Agrees(M, g, s, st, n)
<1> DEFINE L == Len(s)
           item == items[n]
           text == item.text
           a == st[n]
           b == st[n + 1]
           q == SetBegin(p, a)
           D(i) == IF item.kind = "set" THEN Denotes(text, s[i]) ELSE ~Denotes(text, s[i])
           W == {i \in 1 .. L : D(i)}
<1>1. /\ L \in Nat /\ (\A k \in 1 .. L : At(s, k) = s[k]) /\ (\A k \in Int : At(s, k) \in Int)
      /\ item \in Shape /\ Spelled(item) /\ a \in 1 .. Len(p)
      /\ (\A k \in 1 .. Len(p) : At(p, k) = p[k])
      /\ ItemAt(p, a, b, item) /\ Len(p) \in Nat
      /\ \A i \in 1 .. L + 1 : MatchHere(M, s, p, a, i)
  BY DEF Here
<1>2. /\ p[a] = Open /\ SetAt(p, q, text) /\ b = q + Len(text) + 1
      /\ At(p, a + 1) = Negate <=> item.kind = "not"
  <2>1. CASE item.kind = "set"
    <3>1. p[a] = Open /\ p[a + 1] # Negate /\ SetAt(p, a + 1, text) /\ b = a + Len(text) + 2
      BY <1>1, <2>1 DEF ItemAt
    <3>2. a \in 1 .. Len(p) /\ Len(p) \in Nat
      BY <1>1
    <3> HIDE DEF text, b, a, item
    <3>7. Len(text) \in Nat /\ Len(text) >= 1 /\ a + 1 + Len(text) <= Len(p)
      BY <3>1, SetAtFacts
    <3>3. a + 1 \in 1 .. Len(p)
      BY <3>2, <3>7
    <3>4. At(p, a + 1) # Negate
      BY <1>1, <3>1, <3>3
    <3>5. q = a + 1
      BY <3>4 DEF SetBegin
    <3>6. a + Len(text) + 2 = a + 1 + Len(text) + 1
      BY <3>2, <3>7
    <3> HIDE DEF q
    <3> QED BY <2>1, <3>1, <3>4, <3>5, <3>6
  <2>2. CASE item.kind = "not"
    <3>1. p[a] = Open /\ p[a + 1] = Negate /\ SetAt(p, a + 2, text) /\ b = a + Len(text) + 3
      BY <1>1, <2>2 DEF ItemAt
    <3>2. a \in 1 .. Len(p) /\ Len(p) \in Nat
      BY <1>1
    <3> HIDE DEF text, b, a, item
    <3>7. Len(text) \in Nat /\ Len(text) >= 1 /\ a + 2 + Len(text) <= Len(p)
      BY <3>1, SetAtFacts
    <3>3. a + 1 \in 1 .. Len(p)
      BY <3>2, <3>7
    <3>4. At(p, a + 1) = Negate
      BY <1>1, <3>1, <3>3
    <3>5. q = a + 2
      BY <3>4 DEF SetBegin
    <3>6. a + Len(text) + 3 = a + 2 + Len(text) + 1
      BY <3>2, <3>7
    <3> HIDE DEF q
    <3> QED BY <2>2, <3>1, <3>4, <3>5, <3>6
  <2> QED BY <2>1, <2>2
<1>3. /\ q \in Nat /\ Len(text) \in Nat /\ q + Len(text) <= Len(p)
      /\ p \in Seq(Chars) /\ q \in 1 .. Len(p) + 1
  <2> HIDE DEF q, text
  <2>1. q \in Nat /\ q >= 1 /\ Len(text) \in Nat /\ q + Len(text) <= Len(p)
    BY <1>2, SetAtFacts
  <2>2. p \in Seq(Chars)
    BY <1>2 DEF SetAt
  <2> QED BY <1>1, <2>1, <2>2
<1>4. \A i \in 1 .. L + 1 : M[a][i] <=> i <= L /\ i \in W /\ M[b][i + 1]
  <2> TAKE i \in 1 .. L + 1
  <2> DEFINE c == At(s, i)
             set == InSet(c, p, q)
             e == SetEnd(c, p, a)
  <2>1. MatchHere(M, s, p, a, i) /\ At(p, a) = Open
    BY <1>1, <1>2
  <2>2. c \in Int
    BY <1>1
  <2>3. set.in \in BOOLEAN
    <3> HIDE DEF c, q
    <3> QED BY <1>3, <2>2, InSetEnds
  <2>4. M[a][i] <=> /\ i <= L /\ set.ok /\ (set.in <=> ~(At(p, a + 1) = Negate))
                    /\ e <= Len(p) /\ M[e + 1][i + 1]
    BY <2>1, <2>3 DEF MatchHere
  <2>5. set.ok = TRUE /\ (set.in <=> Denotes(text, c)) /\ e = q + Len(text)
    <3>1. e = Find(p, set.at, {Close})
      BY DEF SetEnd
    <3> HIDE DEF c, q, text, e
    <3> QED BY <1>2, <2>2, <3>1, SetRead
  <2>6. i <= L => c = s[i]
    BY <1>1
  <2>7. i <= L => (i \in W <=> D(i))
    BY <1>1
  <2>8. i <= L => (i \in W <=> (set.in <=> item.kind # "not"))
    <3>1. item.kind = "set" \/ item.kind = "not"
      OBVIOUS
    <3> HIDE DEF W, c, set, text
    <3> QED BY <2>5, <2>6, <2>7, <3>1
  <2> HIDE DEF W, set, e, q, b, text
  <2> QED BY <1>2, <1>3, <2>4, <2>5, <2>8
<1>5. ASSUME NEW i \in 1 .. L, NEW k \in i .. L + 1
      PROVE  Takes(item, s, i, k) <=> k = i + 1 /\ i \in W
  <2>1. i \in W <=> D(i)
    OBVIOUS
  <2>2. CASE item.kind = "set"
    <3>1. Takes(item, s, i, k) <=> k = i + 1 /\ Denotes(text, s[i])
      BY <2>2 DEF Takes
    <3> QED BY <2>1, <2>2, <3>1
  <2>3. CASE item.kind = "not"
    <3>1. Takes(item, s, i, k) <=> k = i + 1 /\ ~Denotes(text, s[i])
      BY <2>3 DEF Takes
    <3> QED BY <2>1, <2>3, <3>1
  <2> QED BY <2>2, <2>3
<1>6. ~Takes(item, s, L + 1, L + 1)
  <2>1. L + 1 # L + 1 + 1
    BY <1>1
  <2>2. CASE item.kind = "set"
    BY <2>1, <2>2 DEF Takes
  <2>3. CASE item.kind = "not"
    BY <2>1, <2>3 DEF Takes
  <2> QED BY <2>2, <2>3
<1> HIDE DEF W
<1> QED BY <1>4, <1>5, <1>6, OneRight

\* One star of several is passed.
LEMMA StarsOn ==
  ASSUME NEW p \in Seq(Chars), NEW a \in 1 .. Len(p), Find(p, a, NotStars) \in a + 1 .. Len(p) + 1,
         Find(p, a, NotStars) # a + 1
  PROVE  Find(p, a + 1, NotStars) = Find(p, a, NotStars)
<1> DEFINE x == Find(p, a, NotStars)
           y == Find(p, a + 1, NotStars)
           n == Len(p)
<1>1. n \in Nat /\ a \in Nat \ {0} /\ a + 1 \in Nat \ {0} /\ x \in a + 1 .. n + 1
  OBVIOUS
<1>2. \/ x \in a .. n /\ p[x] \in NotStars /\ \A z \in a .. x - 1 : p[z] \notin NotStars
      \/ x = n + 1 /\ \A z \in a .. n : p[z] \notin NotStars
  BY <1>1, Found
<1>3. \/ y \in a + 1 .. n /\ p[y] \in NotStars /\ \A z \in a + 1 .. y - 1 : p[z] \notin NotStars
      \/ y = n + 1 /\ \A z \in a + 1 .. n : p[z] \notin NotStars
  BY <1>1, Found
<1> HIDE DEF x, y, n
<1>4. y \in a + 1 .. n + 1
  BY <1>1, <1>3
<1>5. ~(x < y)
  <2> SUFFICES ASSUME x < y PROVE FALSE
    OBVIOUS
  <2>1. x \in a + 1 .. y - 1 /\ x \in a + 1 .. n /\ x # n + 1
    BY <1>1, <1>4
  <2> QED BY <1>2, <1>3, <2>1
<1>6. ~(y < x)
  <2> SUFFICES ASSUME y < x PROVE FALSE
    OBVIOUS
  <2>1. y \in a .. x - 1 /\ y \in a .. n /\ y # n + 1
    BY <1>1, <1>4
  <2> QED BY <1>2, <1>3, <2>1
<1>7. x = y
  BY <1>1, <1>4, <1>5, <1>6
<1> QED BY <1>7 DEF x, y

\* With something left in the pattern that is not a star, the end matches nothing.
LEMMA NothingLeft ==
  ASSUME NEW M, NEW s, NEW p, MatchRun(M, s, p), Len(s) \in Nat,
         NEW j \in 1 .. Len(p) + 1, At(p, j) \notin {0, Star}
  PROVE  M[j][Len(s) + 1] = FALSE
<1> DEFINE i == Len(s) + 1
<1>1. i \in 1 .. Len(s) + 1 /\ ~(i <= Len(s))
  OBVIOUS
<1>2. M[j][i] = MatchAt(M, s, p, j, i)
  BY <1>1 DEF MatchRun
<1>3. MatchAt(M, s, p, j, i) = FALSE
  BY <1>1 DEF MatchAt, Star, Single, Open, OpenBrace
<1> QED BY <1>2, <1>3

\* Find goes on, from a later place, from where it was.
LEMMA FindLater ==
  ASSUME NEW s, Len(s) \in Nat, NEW chars, NEW i \in 1 .. Len(s) + 1, NEW k \in i .. Len(s) + 1
  PROVE  /\ Find(s, i, chars) \in i .. Len(s) + 1
         /\ Find(s, i, chars) <= Find(s, k, chars)
<1> DEFINE x == Find(s, i, chars)
           y == Find(s, k, chars)
           L == Len(s)
<1>1. i \in Nat \ {0} /\ k \in Nat \ {0} /\ L \in Nat /\ i <= k /\ k <= L + 1
  OBVIOUS
<1>2. \/ x \in i .. L /\ s[x] \in chars /\ \A z \in i .. x - 1 : s[z] \notin chars
      \/ x = L + 1 /\ \A z \in i .. L : s[z] \notin chars
  BY <1>1, Found
<1>3. \/ y \in k .. L /\ s[y] \in chars /\ \A z \in k .. y - 1 : s[z] \notin chars
      \/ y = L + 1 /\ \A z \in k .. L : s[z] \notin chars
  BY <1>1, Found
<1> HIDE DEF x, y, L
<1>4. x \in i .. L + 1 /\ y \in k .. L + 1
  BY <1>1, <1>2, <1>3
<1>5. ~(y < x)
  <2> SUFFICES ASSUME y < x PROVE FALSE
    OBVIOUS
  <2>1. y \in i .. x - 1 /\ y \in i .. L /\ y # L + 1
    BY <1>1, <1>4
  <2> QED BY <1>2, <1>3, <2>1
<1>6. x <= y
  BY <1>1, <1>4, <1>5
<1> QED BY <1>4, <1>6 DEF x, y, L

\* The star stands for any string.
LEMMA StarFromFacts ==
  ASSUME NEW s, Len(s) \in Nat, NEW p, NEW j, NEW i \in 1 .. Len(s) + 1, NEW k \in i .. Len(s) + 1
  PROVE  /\ StarFrom(s, i, p, j) \in i .. Len(s) + 1
         /\ StarFrom(s, i, p, j) <= StarFrom(s, k, p, j)
<1>1. CASE At(p, j) \in {Single, Open, OpenBrace}
  BY <1>1 DEF StarFrom
<1>2. CASE At(p, j) \notin {Single, Open, OpenBrace}
  <2> DEFINE C == {At(p, j)}
  <2>1. StarFrom(s, i, p, j) = Find(s, i, C) /\ StarFrom(s, k, p, j) = Find(s, k, C)
    BY <1>2 DEF StarFrom
  <2> HIDE DEF C
  <2>2. Find(s, i, C) \in i .. Len(s) + 1 /\ Find(s, i, C) <= Find(s, k, C)
    BY FindLater
  <2> QED BY <2>1, <2>2
<1> QED BY <1>1, <1>2

\* A star matches where what follows it does, there or further on.  The code leaves
\* out the places where what follows cannot match.
LEMMA StarMeans ==
  ASSUME NEW M, NEW s \in Seq(Chars), NEW p \in Seq(Chars), MatchRun(M, s, p),
         NEW a \in 1 .. Len(p), p[a] = Star, NEW i \in 1 .. Len(s) + 1
  PROVE  M[a][i] <=> \E k \in i .. Len(s) + 1 : M[a + 1][k]
<1> DEFINE L == Len(s)
           n == Len(p)
           m == Find(p, a, NotStars)
           b == a + 1
           from(k) == StarFrom(s, k, p, m)
           Q(k) == \E x \in from(k) .. L : M[m][x]
<1> SUFFICES M[a][i] <=> \E k \in i .. L + 1 : M[b][k]
  OBVIOUS
<1>1. L \in Nat /\ n \in Nat /\ a \in 1 .. n + 1 /\ b \in 1 .. n + 1 /\ i \in 1 .. L + 1
      /\ \A k \in i .. L + 1 : k \in 1 .. L + 1
  OBVIOUS
<1>2. /\ At(p, a) = Star /\ \A k \in 1 .. n : At(p, k) = p[k]
      /\ At(p, n + 1) = 0
  <2>1. \A k \in 1 .. n : At(p, k) = p[k]
    BY AtFacts
  <2>2. n + 1 \in Int /\ ~(n + 1 <= n)
    BY <1>1
  <2>3. At(p, n + 1) = 0
    BY <2>2, AtFacts
  <2> QED BY <1>1, <2>1, <2>3
<1>3. /\ m \in b .. n + 1 /\ (m <= n => p[m] # Star)
      /\ \A k \in a .. m - 1 : p[k] = Star
  BY <1>1, <1>2, BehindStars
<1>4. \A k \in 1 .. L + 1 : M[a][k] <=> m > n \/ Q(k)
  <2> TAKE k \in 1 .. L + 1
  <2>1. MatchHere(M, s, p, a, k)
    BY <1>1, MatchCases
  <2> QED BY <1>2, <2>1 DEF MatchHere
<1>5. \A k \in i .. L + 1 : from(k) \in k .. L + 1 /\ from(i) \in i .. L + 1 /\ from(i) <= from(k)
  BY <1>1, StarFromFacts
<1>6. CASE m = b /\ m <= n
  <2>1. At(p, b) = p[b] /\ p[b] # Star /\ p[b] # 0
    <3>1. b \in 1 .. n /\ 0 \notin Chars
      BY <1>1, <1>6, CodesAreChars
    <3>2. p[b] \in Chars
      BY <3>1
    <3> QED BY <1>2, <1>3, <1>6, <3>1, <3>2
  <2>2. M[b][L + 1] = FALSE
    BY <1>1, <2>1, NothingLeft
  <2>3. \A x \in i .. from(i) - 1 : x <= L => M[b][x] = FALSE \/ ~M[b][x]
    <3> SUFFICES ASSUME NEW x \in i .. from(i) - 1, x <= L PROVE ~M[b][x]
      OBVIOUS
    <3>1. i \in i .. L + 1
      BY <1>1
    <3>2. from(i) \in i .. L + 1
      BY <1>5, <3>1
    <3> DEFINE c == At(p, b)
               y == from(i)
    <3>3. x \in 1 .. L /\ x \in 1 .. L + 1 /\ y # i
      <4>1. x \in i .. y - 1 /\ x <= L /\ y \in i .. L + 1
        BY <3>2
      <4> HIDE DEF y, L
      <4> QED BY <1>1, <4>1
    <3>4. c \notin {Single, Open, OpenBrace}
      <4>1. c \in {Single, Open, OpenBrace} => y = i
        BY <1>6 DEF StarFrom
      <4> QED BY <3>3, <4>1
    <3>5. y = Find(s, i, {c})
      BY <1>6, <3>4 DEF StarFrom
    <3>6. s[x] # c
      <4> DEFINE C == {c}
      <4>1. i \in Nat \ {0}
        BY <1>1
      <4>2. \/ y \in i .. L /\ s[y] \in C /\ \A z \in i .. y - 1 : s[z] \notin C
            \/ y = L + 1 /\ \A z \in i .. L : s[z] \notin C
        <5>1. L \in Nat /\ y = Find(s, i, C)
          BY <1>1, <3>5
        <5> HIDE DEF C, y
        <5> QED BY <4>1, <5>1, Found
      <4>3. x \in i .. y - 1 /\ x \in i .. L
        BY <1>1, <3>3
      <4> HIDE DEF y, c
      <4> QED BY <4>2, <4>3
    <3>7. At(s, x) = s[x]
      BY <1>1, <3>3, AtFacts
    <3>8. MatchHere(M, s, p, b, x)
      BY <1>1, <3>3, MatchCases
    <3>9. c \notin Special
      BY <2>1, <3>4 DEF Special
    <3> QED BY <3>6, <3>7, <3>8, <3>9 DEF MatchHere
  <2>4. from(i) \in i .. L + 1
    BY <1>1, <1>5
  <2>5. M[a][i] <=> Q(i)
    BY <1>1, <1>3, <1>4, <1>6
  <2> DEFINE y == from(i)
  <2>6. M[a][i] <=> \E x \in y .. L : M[b][x]
    BY <1>6, <2>5
  <2>7. \A x \in i .. y - 1 : x <= L => ~M[b][x]
    BY <2>3
  <2> HIDE DEF y, b, L
  <2>8. \A k \in i .. L + 1 : k \in y .. L \/ k = L + 1 \/ (k \in i .. y - 1 /\ k <= L)
    BY <1>1, <2>4 DEF y
  <2>9. \A k \in y .. L : k \in i .. L + 1
    BY <1>1, <2>4 DEF y
  <2> QED BY <2>2, <2>6, <2>7, <2>8, <2>9
<1>7. CASE m # b /\ m <= n
  <2>1. p[b] = Star /\ b \in 1 .. n
    BY <1>1, <1>3, <1>7
  <2>2. Find(p, b, NotStars) = m
    BY <1>1, <1>3, <1>7, StarsOn
  <2>3. \A k \in 1 .. L + 1 : M[b][k] <=> Q(k)
    <3> TAKE k \in 1 .. L + 1
    <3>1. MatchHere(M, s, p, b, k) /\ At(p, b) = Star
      BY <1>1, <1>2, <2>1, MatchCases
    <3>2. ~(m > n)
      BY <1>1, <1>3, <1>7
    <3> QED BY <2>2, <3>1, <3>2 DEF MatchHere
  <2>4. M[a][i] <=> Q(i)
    BY <1>1, <1>3, <1>4, <1>7
  <2>5. \A k \in i .. L + 1 : Q(k) => Q(i)
    <3> SUFFICES ASSUME NEW k \in i .. L + 1, NEW x \in from(k) .. L, M[m][x] PROVE Q(i)
      OBVIOUS
    <3>1. from(k) \in k .. L + 1 /\ from(i) \in i .. L + 1 /\ from(i) <= from(k)
      BY <1>5
    <3> HIDE DEF from, m, L
    <3>2. x \in from(i) .. L
      BY <1>1, <3>1
    <3> QED BY <3>2
  <2>6. i \in i .. L + 1
    BY <1>1
  <2> HIDE DEF Q, b, L
  <2> QED BY <1>1, <2>3, <2>4, <2>5, <2>6
<1>8. CASE m > n
  <2>1. M[a][i]
    BY <1>1, <1>4, <1>8
  <2>2. L + 1 \in i .. L + 1 /\ L + 1 \in 1 .. L + 1
    BY <1>1
  <2>3. MatchHere(M, s, p, b, L + 1)
    BY <1>1, <2>2, MatchCases
  <2>4. M[b][L + 1]
    <3>1. CASE b = n + 1
      <4>1. ~(L + 1 <= L)
        BY <1>1
      <4> QED BY <1>2, <2>3, <3>1, <4>1 DEF MatchHere
    <3>2. CASE b # n + 1
      <4>1. m # b /\ b \in 1 .. n
        BY <1>1, <1>3, <1>8, <3>2
      <4>2. p[b] = Star
        BY <1>1, <1>3, <4>1
      <4>3. Find(p, b, NotStars) = m /\ At(p, b) = Star
        BY <1>1, <1>2, <1>3, <4>1, <4>2, StarsOn
      <4> QED BY <1>8, <2>3, <4>3 DEF MatchHere
    <3> QED BY <3>1, <3>2
  <2> QED BY <2>1, <2>2, <2>4
<1>9. m > n \/ m <= n
  BY <1>1, <1>3
<1> QED BY <1>6, <1>7, <1>8, <1>9

\* Any string.
LEMMA StarRight ==
  ASSUME NEW M, NEW g, NEW s, NEW p, NEW items, NEW st, Both(M, g, s, p, items, st),
         NEW n \in 1 .. Len(items), Agrees(M, g, s, st, n + 1), items[n].kind = "star"
  PROVE  Agrees(M, g, s, st, n)
<1> DEFINE L == Len(s)
           item == items[n]
           a == st[n]
           b == st[n + 1]
<1>1. s \in Seq(Chars) /\ p \in Seq(Chars) /\ MatchRun(M, s, p)
  BY DEF Both
<1>2. Here(M, g, s, p, items, st, n)
  BY ItemHere
<1>3. /\ L \in Nat /\ item \in Shape /\ Spelled(item) /\ a \in 1 .. Len(p) /\ ItemAt(p, a, b, item)
      /\ \A i \in 1 .. L + 1 :
            g[n][i] <=> \E k \in i .. L + 1 : Takes(item, s, i, k) /\ g[n + 1][k]
  BY <1>2 DEF Here
<1>4. b = a + 1 /\ p[a] = Star
  <2>1. item.text = <<Star>>
    BY <1>3, ShapeFacts
  <2> QED BY <1>3, <2>1 DEF ItemAt
<1>5. ASSUME NEW i \in 1 .. L + 1 PROVE M[a][i] <=> g[n][i]
  <2>1. M[a][i] <=> \E k \in i .. L + 1 : M[b][k]
    <3> HIDE DEF a, b
    <3>1. M[a][i] <=> \E k \in i .. Len(s) + 1 : M[a + 1][k]
      BY <1>1, <1>3, <1>4, StarMeans
    <3> QED BY <1>4, <3>1
  <2>2. \A k : Takes(item, s, i, k) <=> TRUE
    BY DEF Takes
  <2>3. g[n][i] <=> \E k \in i .. L + 1 : g[n + 1][k]
    BY <1>3, <2>2
  <2>4. \A k \in i .. L + 1 : k \in 1 .. L + 1
    BY <1>3
  <2>5. \A k \in 1 .. L + 1 : M[b][k] <=> g[n + 1][k]
    BY DEF Agrees
  <2> QED BY <2>1, <2>3, <2>4, <2>5
<1> QED BY <1>5 DEF Agrees

\* Later items begin further on.
LEMMA ItemsInOrder ==
  ASSUME NEW p, Len(p) \in Nat, NEW items, Len(items) \in Nat, NEW st, ItemsAt(p, items, st),
         NEW n \in 1 .. Len(items), NEW m \in n .. Len(items)
  PROVE  st[n] <= st[m]
<1> DEFINE N == Len(items)
           S == {d \in 0 .. N - n : st[n] <= st[n + d]}
<1>1. N \in Nat /\ n \in 1 .. N /\ m \in n .. N
  OBVIOUS
<1>2. /\ \A k \in 1 .. N + 1 : st[k] \in Nat
      /\ \A k \in 1 .. N : st[k] < st[k + 1]
  <2>1. \A k \in 1 .. N + 1 : st[k] \in Nat
    BY DEF ItemsAt
  <2>2. ASSUME NEW k \in 1 .. N PROVE st[k] < st[k + 1]
    <3>1. ItemAt(p, st[k], st[k + 1], items[k])
      BY DEF ItemsAt
    <3>2. st[k + 1] \in st[k] + 1 .. Len(p) + 1 /\ st[k] \in 1 .. Len(p)
      BY <3>1 DEF ItemAt
    <3> DEFINE x == st[k]
               y == st[k + 1]
    <3> HIDE DEF x, y
    <3>3. y \in x + 1 .. Len(p) + 1 /\ x \in 1 .. Len(p)
      BY <3>2 DEF x, y
    <3>4. x < y
      BY <3>3
    <3> QED BY <3>4 DEF x, y
  <2> QED BY <2>1, <2>2
<1> HIDE DEF N
<1>3. N - n \in Nat
  BY <1>1
<1>4. 0 \in S
  <2>1. n + 0 = n /\ n \in 1 .. N + 1
    BY <1>1
  <2>2. st[n] <= st[n]
    BY <1>2, <2>1
  <2> QED BY <1>3, <2>1, <2>2
<1>5. ASSUME NEW d \in 1 .. N - n, d - 1 \in S PROVE d \in S
  <2>1. n + (d - 1) \in 1 .. N /\ n + (d - 1) + 1 = n + d /\ n \in 1 .. N + 1
        /\ n + (d - 1) \in 1 .. N + 1 /\ n + d \in 1 .. N + 1 /\ d \in 0 .. N - n
    BY <1>1
  <2> DEFINE x == st[n]
             y == st[n + (d - 1)]
             z == st[n + d]
  <2>2. x <= y /\ y < z /\ x \in Nat /\ y \in Nat /\ z \in Nat
    <3>1. y < st[n + (d - 1) + 1]
      BY <1>2, <2>1
    <3> QED BY <1>2, <1>5, <2>1, <3>1
  <2> HIDE DEF x, y, z
  <2>3. x <= z
    BY <2>2
  <2> QED BY <2>1, <2>3 DEF x, z
<1>6. \A d \in 0 .. N - n : d \in S
  <2> HIDE DEF S
  <2> QED BY <1>3, <1>4, <1>5, ByPlace
<1>7. m - n \in 0 .. N - n /\ n + (m - n) = m
  BY <1>1
<1> QED BY <1>6, <1>7

\* What begins an item that is not a star.
LEMMA NotAStar ==
  ASSUME NEW p, NEW a, NEW b, NEW item \in Shape, Spelled(item), ItemAt(p, a, b, item), item.kind # "star"
  PROVE  p[a] # Star
<1>1. item.kind \in {"char", "any", "star", "set", "not", "list"}
  BY ShapeFacts
<1>2. CASE item.kind = "char"
  <2>1. PICK c \in Chars \ {Star, Single, Open, OpenBrace} : item.text = <<c>>
    BY <1>2, ShapeFacts
  <2> QED BY <1>2, <2>1 DEF ItemAt
<1>3. CASE item.kind = "any"
  <2>1. item.text = <<Single>>
    BY <1>3, ShapeFacts
  <2>2. p[a] = Single
    BY <1>3, <2>1 DEF ItemAt
  <2> QED BY <2>2 DEF Single, Star
<1>4. CASE item.kind \in {"set", "not"}
  <2>1. p[a] = Open
    BY <1>4 DEF ItemAt
  <2> QED BY <2>1 DEF Open, Star
<1>5. CASE item.kind = "list"
  <2>1. p[a] = OpenBrace
    BY <1>5 DEF ItemAt, ListAt
  <2> QED BY <2>1 DEF OpenBrace, Star
<1> QED BY <1>1, <1>2, <1>3, <1>4, <1>5

\* Where something that is not a star is left in the pattern, the end matches nothing.
LEMMA MoreNeeded ==
  ASSUME NEW M, NEW s \in Seq(Chars), NEW p \in Seq(Chars), MatchRun(M, s, p),
         NEW b \in 1 .. Len(p), NEW x \in b .. Len(p), p[x] # Star
  PROVE  M[b][Len(s) + 1] = FALSE
<1> DEFINE L == Len(s)
           n == Len(p)
           m == Find(p, b, NotStars)
           from == StarFrom(s, L + 1, p, m)
<1>1. L \in Nat /\ n \in Nat /\ b \in 1 .. n + 1 /\ x \in 1 .. n
  OBVIOUS
<1>2. At(p, b) = p[b] /\ p[b] # 0
  BY AtFacts
<1>3. CASE p[b] # Star
  <2>1. At(p, b) \notin {0, Star}
    BY <1>2, <1>3
  <2> QED BY <1>1, <2>1, NothingLeft
<1>4. CASE p[b] = Star
  <2>1. m \in b + 1 .. n + 1 /\ \A k \in b .. m - 1 : p[k] = Star
    BY <1>1, <1>2, <1>4, BehindStars
  <2>2. ~(m > n)
    <3> HIDE DEF m
    <3> QED BY <1>1, <2>1
  <2>3. L + 1 \in 1 .. L + 1 /\ L + 1 \in L + 1 .. L + 1
    BY <1>1
  <2>4. MatchHere(M, s, p, b, L + 1)
    BY <1>1, <2>3, MatchCases
  <2>5. M[b][L + 1] <=> \E k \in from .. L : M[m][k]
    BY <1>2, <1>4, <2>2, <2>4 DEF MatchHere
  <2>6. from \in L + 1 .. L + 1
    BY <1>1, <2>3, StarFromFacts
  <2>7. ~M[b][L + 1]
    <3>1. \A k \in from .. L : FALSE
      BY <1>1, <2>6
    <3> QED BY <2>5, <3>1
  <2>8. M[b][L + 1] \in BOOLEAN
    BY <1>1, <2>3 DEF MatchRun, MatchType, Row
  <2> QED BY <2>7, <2>8
<1> QED BY <1>3, <1>4

\* What Readable gives for a list, in the pattern.
LEMMA ListLegible ==
  ASSUME NEW M, NEW g, NEW s, NEW p, NEW items, NEW st, Both(M, g, s, p, items, st),
         NEW n \in 1 .. Len(items), items[n].kind = "list"
  PROVE  Legible(M, s, p, st[n + 1], items[n].alts)
<1> DEFINE N == Len(items)
           alts == items[n].alts
           b == st[n + 1]
<1>1. /\ s \in Seq(Chars) /\ p \in Seq(Chars) /\ items \in Seq(Shape) /\ MatchRun(M, s, p)
      /\ \A m \in DOMAIN items : Spelled(items[m])
      /\ Readable(items) /\ ItemsAt(p, items, st)
  BY DEF Both
<1>2. N \in Nat /\ Len(p) \in Nat /\ n \in 1 .. N /\ n \in DOMAIN items /\ DOMAIN items = 1 .. N
      /\ \A m \in 1 .. N : items[m] \in Shape
  BY <1>1
<1>3. alts \in Seq(Seq(Chars))
  BY <1>2 DEF Shape
<1>4. /\ \A x, y \in ToSet(alts) :
            /\ Len(x) >= 2
            /\ x[1] = y[1] => x = y
            /\ x[1] \notin ToSet(Tail(y))
      /\ n < N => \E k \in n + 1 .. N : items[k].kind # "star"
  BY <1>1, <1>2 DEF Readable
<1>5. ASSUME NEW t \in 1 .. Len(alts), NEW u \in 1 .. Len(alts)
      PROVE  /\ Len(alts[t]) >= 2
             /\ alts[t][1] = alts[u][1] => alts[t] = alts[u]
             /\ \A d \in 2 .. Len(alts[u]) : alts[u][d] # alts[t][1]
  <2> DEFINE x == alts[t]
             y == alts[u]
  <2>1. x \in ToSet(alts) /\ y \in ToSet(alts) /\ y \in Seq(Chars)
    BY <1>3 DEF ToSet
  <2> HIDE DEF x, y, alts
  <2>2. Len(x) >= 2 /\ Len(y) >= 2 /\ (x[1] = y[1] => x = y) /\ x[1] \notin ToSet(Tail(y))
    BY <1>4, <2>1
  <2>3. ASSUME NEW d \in 2 .. Len(y) PROVE y[d] # x[1]
    <3>1. Len(y) \in Nat /\ y # <<>>
      BY <2>1, <2>2
    <3>2. Tail(y) \in Seq(Chars) /\ Len(Tail(y)) = Len(y) - 1
      BY <2>1, <3>1
    <3>3. d - 1 \in 1 .. Len(Tail(y)) /\ d - 1 + 1 = d
      BY <3>1, <3>2
    <3>4. Tail(y)[d - 1] = y[d - 1 + 1]
      BY <2>1, <3>1, <3>3
    <3>5. Tail(y)[d - 1] \in ToSet(Tail(y))
      <4> DEFINE z == Tail(y)
                 e == d - 1
      <4>1. DOMAIN z = 1 .. Len(z) /\ e \in 1 .. Len(z)
        BY <3>2, <3>3
      <4> HIDE DEF z, e
      <4>2. z[e] \in ToSet(z)
        BY <4>1 DEF ToSet
      <4> QED BY <4>2 DEF z, e
    <3> QED BY <2>2, <3>3, <3>4, <3>5
  <2>4. /\ Len(x) >= 2 /\ (x[1] = y[1] => x = y)
        /\ \A d \in 2 .. Len(y) : y[d] # x[1]
    BY <2>2, <2>3
  <2> QED BY <2>4 DEF x, y
<1>6. ASSUME b <= Len(p) PROVE M[b][Len(s) + 1] = FALSE
  <2>1. n < N
    <3>1. n = N => b = Len(p) + 1
      BY <1>1 DEF ItemsAt
    <3>2. b # Len(p) + 1
      BY <1>2, <1>6
    <3> QED BY <1>2, <3>1, <3>2
  <2>2. PICK k \in n + 1 .. N : items[k].kind # "star"
    BY <1>4, <2>1
  <2>3. k \in 1 .. N /\ n + 1 \in 1 .. N
    BY <1>2, <2>1
  <2>4. st[n + 1] <= st[k]
    BY <1>1, <1>2, <2>3, ItemsInOrder
  <2>5. ItemAt(p, st[k], st[k + 1], items[k])
    BY <1>1, <2>3 DEF ItemsAt
  <2>6. p[st[k]] # Star
    BY <1>1, <1>2, <2>2, <2>3, <2>5, NotAStar
  <2>7. st[k] \in 1 .. Len(p)
    BY <2>5 DEF ItemAt
  <2>8. b \in Nat \ {0}
    <3>1. n + 1 \in 1 .. N + 1
      BY <1>2
    <3> QED BY <1>1, <3>1 DEF ItemsAt
  <2> DEFINE x == st[k]
  <2>9. b <= x /\ x \in 1 .. Len(p) /\ p[x] # Star
    BY <2>4, <2>6, <2>7
  <2> HIDE DEF b, x
  <2>10. b \in 1 .. Len(p) /\ x \in b .. Len(p)
    BY <1>2, <2>8, <2>9
  <2> QED BY <1>1, <2>9, <2>10, MoreNeeded
<1> HIDE DEF alts, b
<1>7. Legible(M, s, p, b, alts)
  BY <1>5, <1>6 DEF Legible
<1> QED BY <1>7 DEF b, alts

\* What a list stands for.
LEMMA ListTakes ==
  ASSUME NEW s \in Seq(Chars), NEW alts \in Seq(Seq(Chars)), NEW item, item.kind = "list", item.alts = alts,
         NEW i \in 1 .. Len(s) + 1, NEW k \in i .. Len(s) + 1
  PROVE  Takes(item, s, i, k) <=>
            \E t \in 1 .. Len(alts) : k = i + Len(alts[t]) /\ Fits(s, alts[t], i)
<1>1. Takes(item, s, i, k) <=> SubSeq(s, i, k - 1) \in ToSet(alts)
  BY DEF Takes
<1>2. DOMAIN alts = 1 .. Len(alts) /\ \A t \in 1 .. Len(alts) : alts[t] \in Seq(Chars)
  OBVIOUS
<1>3. \A x : x \in ToSet(alts) <=> \E t \in 1 .. Len(alts) : x = alts[t]
  BY <1>2 DEF ToSet
<1>4. \A t \in 1 .. Len(alts) :
         SubSeq(s, i, k - 1) = alts[t] <=> k = i + Len(alts[t]) /\ Fits(s, alts[t], i)
  BY <1>2, FitsIs
<1> DEFINE X == SubSeq(s, i, k - 1)
           C(t) == k = i + Len(alts[t]) /\ Fits(s, alts[t], i)
<1>5. Takes(item, s, i, k) <=> X \in ToSet(alts)
  BY <1>1
<1>6. \A t \in 1 .. Len(alts) : X = alts[t] <=> C(t)
  BY <1>4
<1> SUFFICES Takes(item, s, i, k) <=> \E t \in 1 .. Len(alts) : C(t)
  OBVIOUS
<1> HIDE DEF X, C
<1>7. X \in ToSet(alts) <=> \E t \in 1 .. Len(alts) : X = alts[t]
  BY <1>3
<1> QED BY <1>5, <1>6, <1>7

\* One of several alternatives.
LEMMA ListItemRight ==
  ASSUME NEW M, NEW g, NEW s, NEW p, NEW items, NEW st, Both(M, g, s, p, items, st),
         NEW n \in 1 .. Len(items), Agrees(M, g, s, st, n + 1), items[n].kind = "list"
  PROVE  Agrees(M, g, s, st, n)
<1> DEFINE L == Len(s)
           item == items[n]
           a == st[n]
           b == st[n + 1]
           alts == item.alts
<1>1. s \in Seq(Chars) /\ p \in Seq(Chars) /\ MatchRun(M, s, p) /\ MatchType(M, s, p)
  BY DEF Both, MatchRun
<1>2. Here(M, g, s, p, items, st, n)
  BY ItemHere
<1>3. /\ L \in Nat /\ Len(p) \in Nat /\ item \in Shape /\ a \in 1 .. Len(p) /\ ItemAt(p, a, b, item)
      /\ (\A k \in 1 .. Len(p) : At(p, k) = p[k])
      /\ \A i \in 1 .. L + 1 : MatchHere(M, s, p, a, i)
      /\ \A i \in 1 .. L + 1 :
            g[n][i] <=> \E k \in i .. L + 1 : Takes(item, s, i, k) /\ g[n + 1][k]
  BY <1>2 DEF Here
<1>4. PICK B : ListAt(p, a, b, alts, B)
  BY <1>3 DEF ItemAt
<1>5. /\ alts \in Seq(Seq(Chars)) /\ p[a] = OpenBrace /\ b \in a + 1 .. Len(p) + 1
      /\ Len(alts) \in Nat /\ \A t \in 1 .. Len(alts) : Len(alts[t]) \in Nat
  <2>1. alts \in Seq(Seq(Chars)) /\ p[a] = OpenBrace /\ b \in a + 1 .. Len(p) + 1
    BY <1>4 DEF ListAt
  <2>2. \A t \in 1 .. Len(alts) : alts[t] \in Seq(Chars)
    BY <2>1
  <2> HIDE DEF alts
  <2> QED BY <2>1, <2>2
<1>6. Legible(M, s, p, b, alts)
  BY ListLegible
<1>7. Remainder(p, a) = b /\ At(p, a) = OpenBrace
  BY <1>3, <1>4, <1>5, ListRemainder
<1>8. \A k \in 1 .. L + 1 : M[b][k] <=> g[n + 1][k]
  BY DEF Agrees
<1>9. item.kind = "list" /\ item.alts = alts
  OBVIOUS
<1> HIDE DEF a, b, alts, item
<1>10. b <= Len(p) + 1
  BY <1>3, <1>5
<1>11. ASSUME NEW i \in 1 .. L PROVE M[a][i] <=> AnyOf(M, s, b, alts, i, 1)
  <2>1. PICK f : AltRun(f, M, s, p, a, i) /\ Alternatives(M, s, p, a, i) = f[a + 1][i]
    <3>1. a \in 1 .. Len(p)
      BY <1>3
    <3> QED BY <1>1, <3>1, AlternativesUnfold
  <2>2. ListRun(f, M, s, p, a, b, alts, B, i)
    BY <1>1, <1>4, <1>6, <2>1 DEF ListRun
  <2>3. f[a + 1][i] <=> AnyOf(M, s, b, alts, i, 1)
    BY <2>2, ListRight
  <2>4. i \in 1 .. L + 1 /\ i <= L
    BY <1>3
  <2>5. MatchHere(M, s, p, a, i)
    BY <1>3, <2>4
  <2>6. M[a][i] <=> Alternatives(M, s, p, a, i)
    BY <1>7, <1>10, <2>4, <2>5 DEF MatchHere
  <2> QED BY <2>1, <2>3, <2>6
<1>12. ASSUME NEW i \in 1 .. L + 1
       PROVE  g[n][i] <=> \E k \in i .. L + 1 : \E t \in 1 .. Len(alts) :
                             k = i + Len(alts[t]) /\ Fits(s, alts[t], i) /\ M[b][k]
  <2>1. \A k \in i .. L + 1 : Takes(item, s, i, k) <=>
            \E t \in 1 .. Len(alts) : k = i + Len(alts[t]) /\ Fits(s, alts[t], i)
    BY <1>1, <1>5, <1>9, ListTakes
  <2>2. \A k \in i .. L + 1 : k \in 1 .. L + 1
    BY <1>3
  <2>3. g[n][i] <=> \E k \in i .. L + 1 : Takes(item, s, i, k) /\ M[b][k]
    BY <1>3, <1>8, <2>2
  <2> QED BY <2>1, <2>3
<1>13. ASSUME NEW i \in 1 .. L + 1 PROVE M[a][i] <=> g[n][i]
  <2>1. CASE i = L + 1
    <3>1. MatchHere(M, s, p, a, i) /\ ~(i <= L)
      BY <1>3, <2>1
    <3>2. ~M[a][i]
      BY <1>7, <3>1 DEF MatchHere
    <3>3. ASSUME NEW k \in i .. L + 1, NEW t \in 1 .. Len(alts), k = i + Len(alts[t]) PROVE FALSE
      <4> DEFINE l == Len(alts[t])
      <4>1. l >= 2 /\ l \in Nat
        BY <1>5, <1>6 DEF Legible
      <4>2. L \in Nat /\ k \in L + 1 .. L + 1 /\ k = L + 1 + l
        BY <1>3, <2>1, <3>3
      <4> HIDE DEF l, L
      <4> QED BY <4>1, <4>2
    <3>4. ~g[n][i]
      <4> HIDE DEF L
      <4> QED BY <1>12, <3>3
    <3> QED BY <3>2, <3>4
  <2>2. CASE i # L + 1
    <3>1. i \in 1 .. L
      BY <1>3, <2>2
    <3>2. M[a][i] <=> \E t \in 1 .. Len(alts) : Fits(s, alts[t], i) /\ M[b][i + Len(alts[t])]
      BY <1>11, <3>1 DEF AnyOf, Good
    <3>3. \A t \in 1 .. Len(alts) : Fits(s, alts[t], i) => i + Len(alts[t]) \in i .. L + 1
      <4> TAKE t \in 1 .. Len(alts)
      <4>1. Len(alts[t]) \in Nat
        BY <1>5
      <4> QED BY <1>3, <4>1 DEF Fits
    <3> DEFINE E(t) == i + Len(alts[t])
               G(t) == Fits(s, alts[t], i)
               T == 1 .. Len(alts)
               K == i .. L + 1
    <3>4. M[a][i] <=> \E t \in T : G(t) /\ M[b][E(t)]
      BY <3>2
    <3>5. \A t \in T : G(t) => E(t) \in K
      BY <3>3
    <3>6. g[n][i] <=> \E k \in K : \E t \in T : k = E(t) /\ G(t) /\ M[b][k]
      BY <1>12
    <3> HIDE DEF E, G, T, K, L
    <3> QED BY <3>4, <3>5, <3>6
  <2> QED BY <2>1, <2>2
<1> QED BY <1>13 DEF a, Agrees

\* The matcher agrees with the meaning, from the last item to the first.
LEMMA ItemsRight ==
  ASSUME NEW M, NEW g, NEW s, NEW p, NEW items, NEW st, Both(M, g, s, p, items, st)
  PROVE  M[1][1] <=> g[1][1]
<1> DEFINE N == Len(items)
           S == {n \in 1 .. N + 1 : Agrees(M, g, s, st, n)}
<1>1. /\ s \in Seq(Chars) /\ items \in Seq(Shape) /\ ItemsAt(p, items, st)
      /\ \A n \in DOMAIN items : Spelled(items[n])
  BY DEF Both
<1>2. N \in Nat /\ Len(s) \in Nat /\ \A n \in 1 .. N : items[n] \in Shape /\ Spelled(items[n])
  BY <1>1
<1>3. Agrees(M, g, s, st, N + 1)
  BY EndRight
<1>4. ASSUME NEW n \in 1 .. N, Agrees(M, g, s, st, n + 1) PROVE Agrees(M, g, s, st, n)
  <2>1. items[n].kind \in {"char", "any", "star", "set", "not", "list"}
    BY <1>2, ShapeFacts
  <2>2. Here(M, g, s, p, items, st, n)
    BY ItemHere
  <2>3. CASE items[n].kind \in {"char", "any"}
    BY <1>4, <2>2, <2>3, CharRight
  <2>4. CASE items[n].kind \in {"set", "not"}
    BY <1>4, <2>2, <2>4, SetRight
  <2>5. CASE items[n].kind = "star"
    BY <1>4, <2>5, StarRight
  <2>6. CASE items[n].kind = "list"
    BY <1>4, <2>6, ListItemRight
  <2> QED BY <2>1, <2>3, <2>4, <2>5, <2>6
<1>5. \A n \in 1 .. N + 1 : (\A m \in n + 1 .. N + 1 : m \in S) => n \in S
  <2> SUFFICES ASSUME NEW n \in 1 .. N + 1, \A m \in n + 1 .. N + 1 : m \in S PROVE n \in S
    OBVIOUS
  <2>1. CASE n = N + 1
    BY <1>3, <2>1
  <2>2. CASE n # N + 1
    <3>1. n \in 1 .. N /\ n + 1 \in n + 1 .. N + 1
      BY <1>2, <2>2
    <3>2. Agrees(M, g, s, st, n + 1)
      BY <3>1
    <3> QED BY <1>4, <3>1, <3>2
  <2> QED BY <2>1, <2>2
<1>6. \A n \in 1 .. N + 1 : n \in S
  <2> HIDE DEF S
  <2>1. 1 \in Int /\ N + 1 \in Int
    BY <1>2
  <2> DEFINE top == N + 1
  <2>2. top \in Int /\ \A n \in 1 .. top : (\A m \in n + 1 .. top : m \in S) => n \in S
    BY <1>5, <2>1
  <2> HIDE DEF top
  <2>3. \A n \in 1 .. top : n \in S
    BY <2>1, <2>2, Backwards
  <2> QED BY <2>3 DEF top
<1>7. 1 \in 1 .. N + 1 /\ 1 \in 1 .. Len(s) + 1
  BY <1>2
<1>8. Agrees(M, g, s, st, 1)
  BY <1>6, <1>7
<1>9. st[1] = 1
  BY <1>1 DEF ItemsAt
<1> QED BY <1>7, <1>8, <1>9 DEF Agrees

\* lo_pattern_match of the text of the items is what the items mean.
LEMMA MatchesItsItems ==
  ASSUME NEW s \in Seq(Chars), NEW items \in Seq(Shape),
         \A n \in DOMAIN items : Spelled(items[n]), Readable(items)
  PROVE  LoPatternMatch(s, TextOf(items)) = Glob(s, items)
<1> DEFINE p == TextOf(items)
<1>1. p \in Seq(Chars) /\ \E st : ItemsAt(p, items, st)
  BY ItemsLaid
<1>2. Len(s) \in Nat /\ Len(items) \in Nat /\ Len(p) \in Nat
  BY <1>1
<1> HIDE DEF p
<1>3. PICK st : ItemsAt(p, items, st)
  BY <1>1
<1>4. PICK M : MatchRun(M, s, p) /\ LoPatternMatch(s, p) = M[1][1]
  BY <1>1, MatchUnfolds
<1>5. PICK g : GlobRun(g, s, items) /\ Glob(s, items) = g[1][1]
  BY <1>2, GlobUnfolds
<1>6. Both(M, g, s, p, items, st)
  BY <1>1, <1>3, <1>4, <1>5 DEF Both
<1>7. M[1][1] <=> g[1][1]
  BY <1>6, ItemsRight
<1>8. M[1][1] \in BOOLEAN /\ g[1][1] \in BOOLEAN
  <2>1. /\ M \in [1 .. Len(p) + 1 -> [1 .. Len(s) + 1 -> BOOLEAN]]
        /\ g \in [1 .. Len(items) + 1 -> [1 .. Len(s) + 1 -> BOOLEAN]]
    BY <1>4, <1>5 DEF MatchRun, MatchType, GlobRun, Row
  <2>2. 1 \in 1 .. Len(p) + 1 /\ 1 \in 1 .. Len(s) + 1 /\ 1 \in 1 .. Len(items) + 1
    BY <1>2
  <2>3. M[1] \in [1 .. Len(s) + 1 -> BOOLEAN] /\ g[1] \in [1 .. Len(s) + 1 -> BOOLEAN]
    BY <2>1, <2>2
  <2> QED BY <2>2, <2>3
<1>9. M[1][1] = g[1][1]
  BY <1>7, <1>8
<1> QED BY <1>4, <1>5, <1>9 DEF p

----------------------------------------------------------------------------
(* What the program is told *)

\* Nothing asked yet, or a string and a pattern, and the matcher's answer.
Answered ==
    \/ asked = NotAsked
    \/ \E s \in Strings, pat \in Patterns :
          asked = [str |-> s, pattern |-> pat, result |-> LoPatternMatch(s, TextOf(pat))]

\* No items stand for the empty string.
LEMMA NothingIsNothing == Glob(<<>>, <<>>) = TRUE
<1> DEFINE e == <<>>
<1>1. Len(e) = 0 /\ Len(e) \in Nat
  OBVIOUS
<1> HIDE DEF e
<1>2. PICK g : GlobRun(g, e, e) /\ Glob(e, e) = g[1][1]
  BY <1>1, GlobUnfolds
<1>3. 1 \in 1 .. Len(e) + 1 /\ 1 > Len(e)
  BY <1>1
<1>4. g[1][1] = GlobAt(g, e, e, 1, 1)
  BY <1>2, <1>3 DEF GlobRun
<1>5. GlobAt(g, e, e, 1, 1) = TRUE
  BY <1>3 DEF GlobAt
<1> QED BY <1>2, <1>4, <1>5 DEF e

\* So every answer is what the pattern means.
LEMMA AnsweredIsGlob == Answered => MatcherIsGlob
<1> SUFFICES ASSUME Answered, Readable(asked.pattern)
             PROVE  asked.result = Glob(asked.str, asked.pattern)
  BY DEF MatcherIsGlob
<1>1. CASE asked = NotAsked
  BY <1>1, NothingIsNothing DEF NotAsked
<1>2. ASSUME NEW s \in Strings, NEW pat \in Patterns,
             asked = [str |-> s, pattern |-> pat, result |-> LoPatternMatch(s, TextOf(pat))]
      PROVE  asked.result = Glob(asked.str, asked.pattern)
  <2>1. asked.str = s /\ asked.pattern = pat /\ asked.result = LoPatternMatch(s, TextOf(pat))
    BY <1>2
  <2>2. s \in Seq(Chars) /\ pat \in Seq(Shape) /\ \A n \in DOMAIN pat : Spelled(pat[n])
    BY MatchingAssumption
  <2>3. Readable(pat)
    BY <2>1
  <2>4. LoPatternMatch(s, TextOf(pat)) = Glob(s, pat)
    BY <2>2, <2>3, MatchesItsItems
  <2> QED BY <2>1, <2>4
<1> QED BY <1>1, <1>2 DEF Answered

\* lo_pattern_match answers, for every string and every pattern its author can spell
\* and it can read, whether the pattern stands for the string.
THEOREM MatcherMeansGlob == MatchingSpec => []MatcherIsGlob
<1>1. MatchingInit => Answered
  BY DEF MatchingInit, Answered
<1>2. Answered /\ [MatchingNext]_<<vars, asked>> => Answered'
  <2> SUFFICES ASSUME Answered, [MatchingNext]_<<vars, asked>> PROVE Answered'
    OBVIOUS
  <2>1. CASE Ask
    BY <2>1 DEF Ask, Answered
  <2>2. CASE UNCHANGED asked
    BY <2>2 DEF Answered
  <2> QED BY <2>1, <2>2 DEF MatchingNext
<1>3. Answered => MatcherIsGlob
  BY AnsweredIsGlob
<1> QED BY <1>1, <1>2, <1>3, PTL DEF MatchingSpec
=============================================================================
