--------------------------- MODULE LaunchPad_proofs ---------------------------
(***************************************************************************)
(* Theorems about LaunchPad: for any objects and any number of pads.       *)
(***************************************************************************)
EXTENDS LaunchPad, FiniteSetTheorems, SequenceTheorems, WellFoundedInduction, TLAPS

-----------------------------------------------------------------------------
(* What is read back from the file.                                        *)

\* The two parts of the assumption that are used.
LEMMA Bounds == MaxPads \in Nat
BY LaunchPadAssumption

LEMMA Finite == IsFiniteSet(Handles)
BY LaunchPadAssumption

\* A set of natural numbers has a least element: what induction over lists rests on.
LEMMA LeastNatural ==
  ASSUME NEW T, T \subseteq Nat, T # {} PROVE \E m \in T : \A k \in T : m <= k
<1>1. \E m \in T : \A k \in T : <<k, m>> \notin OpToRel(<, Nat)
  BY NatLessThanWellFounded, WFMin
<1>2. \A k, m \in T : <<k, m>> \notin OpToRel(<, Nat) => m <= k
  BY DEF OpToRel
<1> QED BY <1>1, <1>2

\* kept is the function that Living defines for the first n entries of the file.
Keeps(kept, st, lives, n) ==
  kept = [i \in 0..n |-> IF i = 0 THEN <<>>
                         ELSE IF st[i] \in lives THEN Append(kept[i - 1], st[i])
                         ELSE kept[i - 1]]

LEMMA KeptExists ==
  ASSUME NEW st, NEW lives, NEW n \in Nat PROVE \E kept : Keeps(kept, st, lives, n)
<1> DEFINE Bad == {k \in Nat : ~ \E kept : Keeps(kept, st, lives, k)}
<1>1. SUFFICES ASSUME Bad # {} PROVE FALSE
  OBVIOUS
<1>2. PICK m \in Bad : \A k \in Bad : m <= k
  BY <1>1, LeastNatural
<1>3. m # 0
  <2>1. Keeps([i \in 0..0 |-> <<>>], st, lives, 0)
    BY DEF Keeps
  <2> QED BY <2>1
<1>4. PICK kept : Keeps(kept, st, lives, m-1)
  BY <1>2, <1>3
<1> DEFINE more == [i \in 0..m |-> IF i = m THEN IF st[m] \in lives THEN Append(kept[m-1], st[m])
                                                 ELSE kept[m-1]
                                   ELSE kept[i]]
<1>5. \A i \in 0..m : more[i] = IF i = 0 THEN <<>>
                                ELSE IF st[i] \in lives THEN Append(more[i - 1], st[i])
                                ELSE more[i - 1]
  <2>1. more[m] = IF m = 0 THEN <<>> ELSE IF st[m] \in lives THEN Append(more[m - 1], st[m])
                  ELSE more[m - 1]
    BY <1>3
  <2>2. ASSUME NEW i \in 0..m-1
        PROVE  kept[i] = IF i = 0 THEN <<>> ELSE IF st[i] \in lives THEN Append(kept[i - 1], st[i])
                         ELSE kept[i - 1]
    BY <1>4 DEF Keeps
  <2>3. ASSUME NEW i \in 0..m, i # m
        PROVE  more[i] = IF i = 0 THEN <<>> ELSE IF st[i] \in lives THEN Append(more[i - 1], st[i])
                         ELSE more[i - 1]
    <3>1. i \in 0..m-1 /\ more[i] = kept[i] /\ (i # 0 => more[i-1] = kept[i-1])
      BY <2>3
    <3> HIDE DEF more
    <3> QED BY <2>2, <3>1
  <2> HIDE DEF more
  <2> QED BY <2>1, <2>3
<1>6. Keeps(more, st, lives, m)
  BY <1>5 DEF Keeps
<1> QED BY <1>2, <1>6

\* The pad gets objects that exist; nothing from an empty file.
LEMMA LivingType ==
  ASSUME NEW st \in Seq(Handles \cup {Junk}), NEW lives
  PROVE  /\ Living(st, lives) \in Seq(lives)
         /\ st = <<>> => Living(st, lives) = <<>>
<1> DEFINE n == Len(st)
<1>1. n \in Nat /\ (st = <<>> => n = 0)
  OBVIOUS
<1> HIDE DEF n
<1>2. PICK kept : Keeps(kept, st, lives, n) /\ Living(st, lives) = kept[n]
  <2>1. Living(st, lives) = (CHOOSE kept : Keeps(kept, st, lives, n))[n]
    BY DEF Living, Keeps, n
  <2>2. \E kept : Keeps(kept, st, lives, n)
    BY <1>1, KeptExists
  <2> QED BY <2>1, <2>2
<1>3. \A i \in 0..n : kept[i] = IF i = 0 THEN <<>>
                                ELSE IF st[i] \in lives THEN Append(kept[i - 1], st[i])
                                ELSE kept[i - 1]
  BY <1>1, <1>2 DEF Keeps
<1> DEFINE Bad == {k \in 0..n : kept[k] \notin Seq(lives)}
<1>4. Bad = {}
  <2> SUFFICES ASSUME Bad # {} PROVE FALSE
    OBVIOUS
  <2>1. Bad \subseteq Nat
    BY <1>1
  <2>2. PICK m \in Bad : \A k \in Bad : m <= k
    <3> HIDE DEF Bad
    <3> QED BY <2>1, LeastNatural
  <2>3. m \in 0..n /\ kept[m] \notin Seq(lives)
    OBVIOUS
  <2> HIDE DEF Bad
  <2>4. kept[m] = IF m = 0 THEN <<>> ELSE IF st[m] \in lives THEN Append(kept[m - 1], st[m])
                  ELSE kept[m - 1]
    BY <1>3, <2>3
  <2>5. <<>> \in Seq(lives)
    OBVIOUS
  <2>6. m # 0
    BY <2>3, <2>4, <2>5
  <2>7. m-1 \in 0..n /\ m-1 \notin Bad
    BY <1>1, <2>2, <2>3, <2>6
  <2>8. kept[m-1] \in Seq(lives)
    BY <2>7 DEF Bad
  <2> QED BY <2>3, <2>6, <2>8, <2>4
<1>5. n \in 0..n /\ (n = 0 => kept[n] = <<>>)
  BY <1>1, <1>3
<1> QED BY <1>1, <1>2, <1>4, <1>5

LEMMA ReverseType ==
  ASSUME NEW S, NEW q \in Seq(S)
  PROVE  /\ Reverse(q) \in Seq(S) /\ Len(Reverse(q)) = Len(q) /\ Len(q) \in Nat
         /\ \A i \in 1..Len(q) : Reverse(q)[i] = q[Len(q)-i+1]
<1>1. Len(q) \in Nat /\ \A i \in 1..Len(q) : Len(q)-i+1 \in 1..Len(q)
  OBVIOUS
<1>2. \A i \in 1..Len(q) : q[i] \in S
  OBVIOUS
<1>3. Reverse(q) \in [1..Len(q) -> S]
  BY <1>1, <1>2 DEF Reverse
<1> QED BY <1>1, <1>3 DEF Reverse

\* What a pad gets from the file: objects that exist, and never more than it counts.
LEMMA Built ==
  ASSUME NEW how \in Builds, NEW st \in Seq(Handles \cup {Junk}), NEW lives, lives \subseteq Handles,
         NEW n \in Nat
  PROVE  /\ BuiltList(how, st, lives) \in Seq(Handles) /\ BuiltNum(how, st, lives, n) \in Nat
         /\ BuiltNum(how, st, lives, n) >= Len(BuiltList(how, st, lives))
<1>1. /\ Living(st, lives) \in Seq(Handles) /\ Len(Living(st, lives)) \in Nat
      /\ st = <<>> => Living(st, lives) = <<>>
  <2>1. \A q \in Seq(lives) : q \in Seq(Handles) /\ Len(q) \in Nat
    OBVIOUS
  <2> QED BY <2>1, LivingType
<1>2. Len(st) \in Nat /\ Len(<<>>) = 0 /\ <<>> \in Seq(Handles)
  OBVIOUS
<1>3. /\ Reverse(Living(st, lives)) \in Seq(Handles)
      /\ Len(Reverse(Living(st, lives))) = Len(Living(st, lives))
  BY <1>1, ReverseType
<1>4. BuiltList(how, st, lives) \in Seq(Handles)
  BY <1>2, <1>3 DEF BuiltList
<1>5. BuiltNum(how, st, lives, n) \in Nat
  BY <1>1, <1>2 DEF BuiltNum
<1>6. CASE how = "read"
  <2>1. Len(BuiltList(how, st, lives)) = Len(Living(st, lives))
    BY <1>3, <1>6 DEF BuiltList
  <2>2. BuiltNum(how, st, lives, n) >= Len(Living(st, lives))
    BY <1>1, <1>2, <1>6 DEF BuiltNum
  <2> QED BY <1>4, <1>5, <2>1, <2>2
<1>7. CASE how # "read"
  <2>1. Len(BuiltList(how, st, lives)) = 0
    BY <1>2, <1>7 DEF BuiltList
  <2> QED BY <1>4, <1>5, <2>1
<1> QED BY <1>6, <1>7

-----------------------------------------------------------------------------
(* A list with an entry put in or taken out.                               *)

LEMMA SubSeqFacts ==
  ASSUME NEW S, NEW q \in Seq(S), NEW m \in 1..Len(q)+1, NEW n \in m-1..Len(q)
  PROVE  /\ SubSeq(q, m, n) \in Seq(S) /\ Len(SubSeq(q, m, n)) = n-m+1
         /\ \A i \in 1..n-m+1 : SubSeq(q, m, n)[i] = q[m+i-1]
<1>1. m \in Int /\ n \in Int /\ \A i \in m..n : q[i] \in S
  OBVIOUS
<1>2. n-m+1 = IF m <= n THEN n-m+1 ELSE 0
  OBVIOUS
<1> QED BY <1>1, <1>2, SubSeqProperties

\* List a is q with t put in at k; q without what is at k.
PutIn(a, q, k, t) ==
  /\ Len(a) = Len(q)+1
  /\ \A i \in 1..Len(q)+1 : a[i] = IF i < k THEN q[i] ELSE IF i = k THEN t ELSE q[i-1]

TakenOut(a, q, k) ==
  /\ Len(a) = Len(q)-1
  /\ \A i \in 1..Len(q)-1 : a[i] = IF i < k THEN q[i] ELSE q[i+1]

LEMMA InsertFacts ==
  ASSUME NEW S, NEW q \in Seq(S), NEW k \in 1..Len(q)+1, NEW t \in S
  PROVE  InsertAt(q, k, t) \in Seq(S) /\ PutIn(InsertAt(q, k, t), q, k, t)
<1>0. Len(q) \in Nat
  OBVIOUS
<1> DEFINE a == SubSeq(q, 1, k-1)
           b == SubSeq(q, k, Len(q))
<1>1. /\ a \in Seq(S) /\ Len(a) = k-1 /\ \A i \in 1..k-1 : a[i] = q[i]
      /\ b \in Seq(S) /\ Len(b) = Len(q)-k+1 /\ \A i \in 1..Len(q)-k+1 : b[i] = q[k+i-1]
  <2>1. 1 \in 1..Len(q)+1 /\ k-1 \in 1-1..Len(q) /\ Len(q) \in k-1..Len(q)
    BY <1>0
  <2>2. /\ a \in Seq(S) /\ Len(a) = k-1-1+1 /\ \A i \in 1..k-1-1+1 : a[i] = q[1+i-1]
    BY <2>1, SubSeqFacts, Zenon
  <2>3. /\ b \in Seq(S) /\ Len(b) = Len(q)-k+1
        /\ \A i \in 1..Len(q)-k+1 : b[i] = q[k+i-1]
    BY <2>1, SubSeqFacts, Zenon
  <2> QED BY <1>0, <2>2, <2>3
<1>2. InsertAt(q, k, t) = a \o <<t>> \o b
  BY DEF InsertAt
<1> HIDE DEF a, b
<1> DEFINE c == a \o <<t>>
<1>3. c \in Seq(S) /\ Len(c) = k /\ \A i \in 1..k : c[i] = IF i < k THEN q[i] ELSE t
  BY <1>0, <1>1
<1> HIDE DEF c
<1>4. c \o b \in Seq(S) /\ Len(c \o b) = Len(q)+1
      /\ \A i \in 1..Len(q)+1 : (c \o b)[i] = IF i <= k THEN c[i] ELSE b[i-k]
  <2>1. Len(c) + Len(b) = Len(q)+1 /\ Len(c) = k
    BY <1>0, <1>1, <1>3
  <2>2. /\ c \o b \in Seq(S) /\ Len(c \o b) = Len(c) + Len(b)
        /\ \A i \in 1..Len(c)+Len(b) : (c \o b)[i] = IF i <= Len(c) THEN c[i] ELSE b[i-Len(c)]
    BY <1>1, <1>3, ConcatProperties, Zenon
  <2> QED BY <2>1, <2>2, Zenon
<1>5. ASSUME NEW i \in 1..Len(q)+1
      PROVE  (c \o b)[i] = IF i < k THEN q[i] ELSE IF i = k THEN t ELSE q[i-1]
  <2>1. CASE i <= k
    BY <1>0, <1>3, <1>4, <2>1
  <2>2. CASE i > k
    <3>1. i-k \in 1..Len(q)-k+1 /\ k+(i-k)-1 = i-1
      BY <1>0, <2>2
    <3> QED BY <1>0, <1>1, <1>4, <2>2, <3>1
  <2>3. i <= k \/ i > k
    BY <1>0
  <2> QED BY <2>1, <2>2, <2>3
<1> QED BY <1>2, <1>4, <1>5 DEF c, PutIn

LEMMA RemoveFacts ==
  ASSUME NEW S, NEW q \in Seq(S), NEW k \in 1..Len(q)
  PROVE  RemoveAt(q, k) \in Seq(S) /\ TakenOut(RemoveAt(q, k), q, k)
<1>0. Len(q) \in Nat
  OBVIOUS
<1> DEFINE a == SubSeq(q, 1, k-1)
           m == k+1
           b == SubSeq(q, m, Len(q))
<1>1. /\ a \in Seq(S) /\ Len(a) = k-1 /\ \A i \in 1..k-1 : a[i] = q[i]
      /\ b \in Seq(S) /\ Len(b) = Len(q)-k /\ \A i \in 1..Len(q)-k : b[i] = q[k+i]
  <2>1. 1 \in 1..Len(q)+1 /\ k-1 \in 1-1..Len(q) /\ m = k+1
        /\ m \in 1..Len(q)+1 /\ Len(q) \in m-1..Len(q)
    BY <1>0
  <2> HIDE DEF m
  <2>2. /\ a \in Seq(S) /\ Len(a) = k-1-1+1 /\ \A i \in 1..k-1-1+1 : a[i] = q[1+i-1]
    BY <2>1, SubSeqFacts, Zenon
  <2>3. /\ b \in Seq(S) /\ Len(b) = Len(q)-m+1
        /\ \A i \in 1..Len(q)-m+1 : b[i] = q[m+i-1]
    BY <2>1, SubSeqFacts, Zenon
  <2>4. Len(a) = k-1 /\ \A i \in 1..k-1 : a[i] = q[i]
    BY <1>0, <2>2
  <2>5. Len(b) = Len(q)-k /\ \A i \in 1..Len(q)-k : b[i] = q[k+i]
    BY <1>0, <2>1, <2>3
  <2> QED BY <2>2, <2>3, <2>4, <2>5
<1>2. RemoveAt(q, k) = a \o b
  BY DEF RemoveAt
<1> HIDE DEF a, b
<1>3. /\ a \o b \in Seq(S) /\ Len(a \o b) = k-1 + (Len(q)-k)
      /\ \A i \in 1..k-1 + (Len(q)-k) : (a \o b)[i] = IF i <= k-1 THEN a[i] ELSE b[i-(k-1)]
  <2>1. Len(a) + Len(b) = k-1 + (Len(q)-k) /\ Len(a) = k-1
    BY <1>1
  <2>2. /\ a \o b \in Seq(S) /\ Len(a \o b) = Len(a) + Len(b)
        /\ \A i \in 1..Len(a)+Len(b) : (a \o b)[i] = IF i <= Len(a) THEN a[i] ELSE b[i-Len(a)]
    BY <1>1, ConcatProperties, Zenon
  <2> QED BY <2>1, <2>2, Zenon
<1>4. ASSUME NEW i \in 1..Len(q)-1
      PROVE  (a \o b)[i] = IF i < k THEN q[i] ELSE q[i+1]
  <2>1. CASE i <= k-1
    BY <1>0, <1>1, <1>3, <2>1
  <2>2. CASE i > k-1
    <3>1. i-(k-1) \in 1..Len(q)-k /\ k+(i-(k-1)) = i+1
      BY <1>0, <2>2
    <3>2. b[i-(k-1)] = q[i+1]
      BY <1>1, <3>1
    <3>3. (a \o b)[i] = b[i-(k-1)]
      BY <1>0, <1>3, <2>2
    <3>4. ~(i < k)
      BY <1>0, <2>2
    <3> QED BY <3>2, <3>3, <3>4
  <2>3. i <= k-1 \/ i > k-1
    BY <1>0
  <2> QED BY <2>1, <2>2, <2>3
<1>5. a \o b \in Seq(S) /\ Len(a \o b) = Len(q)-1
  BY <1>0, <1>3
<1> QED BY <1>2, <1>4, <1>5 DEF TakenOut

-----------------------------------------------------------------------------
(* The inductive invariant.                                                *)

Lists == [Pads -> Seq(Handles)]
Counts == [Pads -> Nat]
Dialogs == [pad : Pads, handle : Handles, valid : BOOLEAN] \cup {NoDialog}
Files == Seq(Handles \cup {Junk})

Covers(l, n) == \A p \in Pads : n[p] >= Len(l[p])
\* Of a list that is not known the model has none; it belongs to a pad that was made.
Hidden(l) == \A p \in Pads : dangling[p] => l[p] = <<>> /\ p <= opened

PadInv == TypeOK /\ Covers(list, num) /\ Hidden(list)

\* An array of n handles is what a file may hold.
LEMMA ArrayType ==
  ASSUME NEW n \in Nat, NEW S, S \subseteq Handles \cup {Junk} PROVE [1..n -> S] \subseteq Files
<1>1. ASSUME NEW a \in [1..n -> S] PROVE a \in Files
  <2>1. a \in [1..n -> Handles \cup {Junk}]
    OBVIOUS
  <2> QED BY <2>1 DEF Files
<1> QED BY <1>1

\* What is saved of a list, and of one that is not known.
LEMMA SavedType ==
  ASSUME NEW l \in Seq(Handles), NEW n \in Nat, stored \in Files PROVE Saved(l, n) \subseteq Files
<1> DEFINE a == [k \in 1..n |-> IF n + 1 - k <= Len(l) THEN l[n + 1 - k] ELSE Junk]
<1>1. a \in [1..n -> Handles \cup {Junk}]
  OBVIOUS
<1>2. a \in Files
  BY <1>1, ArrayType
<1> HIDE DEF a
<1>3. Saved(l, n) \subseteq {stored, a}
  BY DEF Saved, a
<1> QED BY <1>2, <1>3

LEMMA SavedUnknownType ==
  ASSUME NEW n \in Nat, NEW lives, lives \subseteq Handles, stored \in Files
  PROVE  SavedUnknown(n, lives) \subseteq Files
<1>1. [1..n -> lives \cup {Junk}] \subseteq Files
  BY ArrayType
<1> QED BY <1>1 DEF SavedUnknown

\* What a step leaves of the pads.
PadsKept ==
  /\ list' \in Lists /\ num' \in Counts /\ Covers(list', num') /\ Hidden(list)'
  /\ dangling' \in [Pads -> BOOLEAN] /\ damaged' \in BOOLEAN /\ dialog' \in Dialogs

LEMMA DamageKeeps == Damage /\ UNCHANGED opened => PadsKept
<1> SUFFICES ASSUME Damage, UNCHANGED opened PROVE PadsKept
  OBVIOUS
<1>1. <<>> \in Seq(Handles) /\ Len(<<>>) = 0
  OBVIOUS
<1>2. list' \in Lists /\ num' \in Counts /\ Covers(list', num')
  BY <1>1 DEF Damage, Lists, Counts, Covers
<1>3. Hidden(list)'
  BY DEF Damage, Hidden
<1>4. dangling' \in [Pads -> BOOLEAN] /\ damaged' \in BOOLEAN /\ dialog' \in Dialogs
  BY DEF Damage, Dialogs
<1> QED BY <1>2, <1>3, <1>4 DEF PadsKept

\* A refresh keeps the counts, wherever it ends.
LEMMA RefreshKeeps ==
  ASSUME NEW l \in Lists, NEW n \in Counts, Covers(l, n), Hidden(l), NEW d \in Dialogs,
         UNCHANGED opened, NEW st \in Files, NEW lives, lives \subseteq Handles, opened \in 0..MaxPads,
         dangling \in [Pads -> BOOLEAN], Refresh(l, n, d, st, lives)
  PROVE  PadsKept
<1> DEFINE Ends(R, last, part, how) ==
             /\ \A p \in R : ~dangling[p]
             /\ damaged' = FALSE
             /\ dangling' = [p \in Pads |-> (p = last /\ part) \/ (p <= last /\ dangling[p])]
             /\ list' = [p \in Pads |-> IF p \in R THEN BuiltList(how[p], st, lives)
                                        ELSE IF p = last /\ part THEN <<>> ELSE l[p]]
             /\ num' = [p \in Pads |-> IF p \in R THEN BuiltNum(how[p], st, lives, n[p]) ELSE n[p]]
             /\ dialog' = IF d = NoDialog THEN NoDialog
                          ELSE [d EXCEPT !.valid = @ /\ (d.pad < last \/ (d.pad = last /\ ~part))]
<1>0. CASE ~Damage
  <2>0. PICK last \in 0..opened, part \in BOOLEAN : \E how \in [last + 1 .. opened -> Builds] :
          Ends(last + 1 .. opened, last, part, how)
    BY <1>0 DEF Refresh
  <2> DEFINE R == last + 1 .. opened
  <2>1. PICK how \in [R -> Builds] : Ends(R, last, part, how)
    BY <2>0
  <2>2. \A p \in Pads : n[p] \in Nat /\ l[p] \in Seq(Handles) /\ n[p] >= Len(l[p])
    BY DEF Lists, Counts, Covers
  <2>3. \A p \in R : how[p] \in Builds /\ ~(p <= last)
    OBVIOUS
  <2> HIDE DEF R
  <2>4. \A p \in Pads : p \in R =>
          /\ BuiltList(how[p], st, lives) \in Seq(Handles) /\ BuiltNum(how[p], st, lives, n[p]) \in Nat
          /\ BuiltNum(how[p], st, lives, n[p]) >= Len(BuiltList(how[p], st, lives))
    BY <2>2, <2>3, Built DEF Files
  <2>5. <<>> \in Seq(Handles) /\ Len(<<>>) = 0
    OBVIOUS
  <2>6. \A p \in Pads : list'[p] \in Seq(Handles) /\ num'[p] \in Nat /\ num'[p] >= Len(list'[p])
    BY <2>1, <2>2, <2>4, <2>5
  <2>7. list' \in Lists /\ num' \in Counts /\ Covers(list', num')
    BY <2>1, <2>6 DEF Lists, Counts, Covers
  <2>8. ASSUME NEW p \in Pads, dangling'[p] PROVE list'[p] = <<>> /\ p <= opened'
    <3>1. (p = last /\ part) \/ (p <= last /\ dangling[p])
      BY <2>1, <2>8
    <3>2. last \in Int /\ p \in Int /\ last <= opened /\ opened \in Int /\ p <= last
      BY <3>1 DEF Pads
    <3>3. p \notin R
      BY <2>3, <3>1, <3>2
    <3>4. list'[p] = IF p = last /\ part THEN <<>> ELSE l[p]
      BY <2>1, <3>3
    <3> QED BY <3>1, <3>2, <3>4 DEF Hidden
  <2>9. Hidden(list)'
    BY <2>8 DEF Hidden
  <2>10. dangling' \in [Pads -> BOOLEAN] /\ damaged' \in BOOLEAN
    BY <2>1
  <2>11. dialog' \in Dialogs
    BY <2>1 DEF Dialogs
  <2> QED BY <2>7, <2>9, <2>10, <2>11 DEF PadsKept
<1> QED BY <1>0, DamageKeeps

\* What the pads have after a step, and the file, is what the invariant says.
LEMMA KeptInv ==
  ASSUME PadInv, PadsKept, stored' \in Files, alive' \subseteq used', used' \subseteq Handles,
         UNCHANGED <<opened, shown>>
  PROVE  PadInv'
BY DEF PadsKept, PadInv, TypeOK, Lists, Counts, Covers, Dialogs, Files, Hidden

\* A pad whose list l[p] is saved, before all pads are built again.
LEMMA ChangeKeeps ==
  ASSUME PadInv, NEW p \in Pads, NEW l \in Lists, NEW n \in Counts, Covers(l, n), Hidden(l),
         NEW d \in Dialogs, NEW lives, lives \subseteq used', used' \subseteq Handles,
         SaveAndRefresh(p, l, n, d, lives), UNCHANGED <<opened, shown>>
  PROVE  PadInv'
<1>1. PICK st \in Saved(l[p], n[p]) : stored' = st /\ alive' = lives /\ Refresh(l, n, d, st, lives)
  BY DEF SaveAndRefresh
<1>2. st \in Files
  BY SavedType DEF Lists, Counts, PadInv, TypeOK, Files
<1>3. PadsKept
  BY <1>1, <1>2, RefreshKeeps DEF PadInv, TypeOK
<1> QED BY <1>1, <1>2, <1>3, KeptInv

\* The same for a pad whose list is not known.
LEMMA UnknownKeeps ==
  ASSUME PadInv, NEW p \in Pads, NEW n \in Counts, Covers(list, n), NEW d \in Dialogs,
         NEW lives, lives \subseteq used', used' \subseteq Handles,
         SaveUnknown(p, n, d, lives), UNCHANGED <<opened, shown>>
  PROVE  PadInv'
<1>0. stored \in Files /\ list \in Lists /\ Hidden(list) /\ alive' = lives /\ n[p] \in Nat
  BY DEF SaveUnknown, PadInv, TypeOK, Files, Lists, Counts
<1>1. ASSUME NEW st \in SavedUnknown(n[p], lives), stored' = st, Refresh(list, n, d, st, lives)
      PROVE  PadsKept /\ stored' \in Files
  <2>1. st \in Files
    BY <1>0, SavedUnknownType
  <2> QED BY <1>0, <1>1, <2>1, RefreshKeeps DEF PadInv, TypeOK
<1>2. ASSUME num' = n, dialog' = d, UNCHANGED <<list, dangling, damaged>> PROVE PadsKept
  BY <1>0, <1>2 DEF PadsKept, PadInv, TypeOK, Hidden, Covers, Lists, Counts, Dialogs
<1>3. PadsKept /\ stored' \in Files
  BY <1>0, <1>1, <1>2, DamageKeeps DEF SaveUnknown
<1> QED BY <1>0, <1>3, KeptInv

\* The first states, and every step.
LEMMA PadInit == Init => PadInv
<1> SUFFICES ASSUME Init PROVE PadInv
  OBVIOUS
<1>1. <<>> \in Seq(Handles) /\ Len(<<>>) = 0 /\ <<>> \in Files
  BY DEF Files
<1>2. TypeOK
  <2>1. /\ list \in [Pads -> Seq(Handles)] /\ num \in [Pads -> Nat]
        /\ dangling \in [Pads -> BOOLEAN] /\ damaged \in BOOLEAN
    BY <1>1 DEF Init
  <2>2. opened \in 0..MaxPads /\ shown \subseteq 1..opened
    BY Bounds DEF Init
  <2> QED BY <1>1, <2>1, <2>2 DEF Init, TypeOK, Files
<1>3. Covers(list, num) /\ Hidden(list)
  BY <1>1 DEF Init, Covers, Hidden
<1> QED BY <1>2, <1>3 DEF PadInv

\* The list in which a button has been put where it was dropped.
LEMMA InsertedIs ==
  ASSUME PadInv, NEW p \in Pads, NEW i \in 0..num[p], NEW h \in Handles, ~Overruns(p, i)
  PROVE  /\ Inserted(p, i, h) \in Seq(Handles)
         /\ Len(Inserted(p, i, h)) = Len(list[p]) + 1
         /\ list[p] # <<>> => /\ num[p]-i+1 \in 1..Len(list[p])+1
                              /\ Inserted(p, i, h) = InsertAt(list[p], num[p]-i+1, h)
         /\ list[p] = <<>> => Inserted(p, i, h) = <<h>>
<1>1. list[p] \in Seq(Handles) /\ Len(list[p]) \in Nat /\ num[p] \in Nat
  BY DEF PadInv, TypeOK
<1>2. CASE list[p] = <<>>
  BY <1>1, <1>2 DEF Inserted
<1>3. CASE list[p] # <<>>
  <2> DEFINE k == num[p]-i+1
  <2>1. k \in 1..Len(list[p])+1
    BY <1>1, <1>3 DEF Overruns
  <2>2. Inserted(p, i, h) = InsertAt(list[p], k, h)
    BY <1>3 DEF Inserted
  <2> HIDE DEF k
  <2>3. InsertAt(list[p], k, h) \in Seq(Handles) /\ Len(InsertAt(list[p], k, h)) = Len(list[p])+1
    BY <1>1, <2>1, InsertFacts DEF PutIn
  <2> QED BY <1>3, <2>1, <2>2, <2>3 DEF k
<1> QED BY <1>2, <1>3

LEMMA OpenKeeps == ASSUME PadInv, OpenFolder PROVE PadInv'
<1>1. PICK how \in Builds :
        /\ list' = [list EXCEPT ![opened'] = BuiltList(how, stored, alive)]
        /\ num' = [num EXCEPT ![opened'] = BuiltNum(how, stored, alive, 0)]
  BY DEF OpenFolder
<1>2. /\ opened' \in 1..MaxPads /\ opened' = opened+1 /\ shown' = shown \cup {opened'}
      /\ UNCHANGED <<stored, alive, used, dangling, damaged, dialog>>
  BY Bounds DEF OpenFolder, PadInv, TypeOK
<1>3. /\ BuiltList(how, stored, alive) \in Seq(Handles) /\ BuiltNum(how, stored, alive, 0) \in Nat
      /\ BuiltNum(how, stored, alive, 0) >= Len(BuiltList(how, stored, alive))
  <2>1. stored \in Seq(Handles \cup {Junk}) /\ alive \subseteq Handles /\ 0 \in Nat
    BY DEF PadInv, TypeOK
  <2> QED BY <2>1, Built
<1>4. shown' \subseteq 1..opened'
  BY <1>2, LaunchPadAssumption DEF PadInv, TypeOK
<1>5. list' \in [Pads -> Seq(Handles)] /\ num' \in [Pads -> Nat]
  BY <1>1, <1>3 DEF PadInv, TypeOK
<1>6. Covers(list', num')
  BY <1>1, <1>2, <1>3 DEF PadInv, TypeOK, Covers, Pads
<1>7. TypeOK'
  BY <1>2, <1>4, <1>5 DEF PadInv, TypeOK
<1>8. Hidden(list)'
  <2>1. opened \in Int /\ opened' \in Pads /\ \A p \in Pads : p \in Int
    BY <1>2 DEF PadInv, TypeOK, Pads
  <2> QED BY <1>1, <1>2, <2>1 DEF PadInv, TypeOK, Hidden
<1> QED BY <1>6, <1>7, <1>8 DEF PadInv

\* The pads of the invariant, as the lemmas about changes want them.
LEMMA PadsNow ==
  ASSUME PadInv
  PROVE  /\ list \in Lists /\ num \in Counts /\ Covers(list, num) /\ Hidden(list)
         /\ dialog \in Dialogs /\ NoDialog \in Dialogs
         /\ \A q \in Pads : list[q] \in Seq(Handles) /\ Len(list[q]) \in Nat /\ num[q] \in Nat
BY DEF PadInv, TypeOK, Lists, Counts, Dialogs

LEMMA OneMoreIs ==
  ASSUME PadInv, NEW p \in Pads PROVE OneMore(p) \in Counts /\ Covers(list, OneMore(p))
BY PadsNow DEF OneMore, Counts, Covers

LEMMA AddKeeps ==
  ASSUME PadInv, NEW p \in Pads, NEW h \in Handles, NEW i \in 0..num[p], AddButton(p, i, h)
  PROVE  PadInv'
<1>1. UNCHANGED <<opened, shown>> /\ used' = used \cup {h} /\ ~dangling[p]
  BY DEF AddButton
<1>2. CASE /\ ~Overruns(p, i)
           /\ SaveAndRefresh(p, [list EXCEPT ![p] = Inserted(p, i, h)], OneMore(p),
                             dialog, alive \cup {h})
  <2> DEFINE l == [list EXCEPT ![p] = Inserted(p, i, h)]
  <2>1. Inserted(p, i, h) \in Seq(Handles) /\ Len(Inserted(p, i, h)) = Len(list[p]) + 1
    BY <1>2, InsertedIs
  <2>2. l \in Lists
    BY <2>1, PadsNow DEF Lists
  <2>3. Covers(l, OneMore(p))
    BY <2>1, PadsNow DEF Covers, Lists, Counts, OneMore
  <2>4. Hidden(l)
    BY <1>1, PadsNow DEF Hidden, Lists
  <2>5. alive \cup {h} \subseteq used' /\ used' \subseteq Handles
    BY <1>1 DEF PadInv, TypeOK
  <2> HIDE DEF l
  <2> QED BY <1>1, <1>2, <2>2, <2>3, <2>4, <2>5, OneMoreIs, PadsNow, ChangeKeeps DEF l
<1>3. CASE alive' = alive \cup {h} /\ UNCHANGED <<stored, pads, dialog>>
  BY <1>1, <1>3 DEF PadInv, TypeOK, Covers, Hidden, pads
<1> QED BY <1>2, <1>3 DEF AddButton

LEMMA AddUnknownKeeps ==
  ASSUME PadInv, NEW p \in Pads, NEW h \in Handles, AddToUnknown(p, h) PROVE PadInv'
<1>1. /\ UNCHANGED <<opened, shown>> /\ used' = used \cup {h}
      /\ alive \cup {h} \subseteq used' /\ used' \subseteq Handles
  BY DEF AddToUnknown, PadInv, TypeOK
<1>2. CASE SaveUnknown(p, OneMore(p), dialog, alive \cup {h})
  BY <1>1, <1>2, OneMoreIs, PadsNow, UnknownKeeps
<1>3. CASE alive' = alive \cup {h} /\ UNCHANGED <<stored, pads, dialog>>
  BY <1>1, <1>3 DEF PadInv, TypeOK, Covers, Hidden, pads
<1> QED BY <1>2, <1>3 DEF AddToUnknown

LEMMA AddNothingKeeps == ASSUME PadInv, NEW p \in Pads, AddNothing(p) PROVE PadInv'
<1>1. UNCHANGED <<used, opened, shown>> /\ alive \subseteq used' /\ used' \subseteq Handles
  BY DEF AddNothing, PadInv, TypeOK
<1>2. CASE SaveAndRefresh(p, list, num, dialog, alive)
  BY <1>1, <1>2, PadsNow, ChangeKeeps
<1>3. CASE SaveUnknown(p, num, dialog, alive)
  BY <1>1, <1>3, PadsNow, UnknownKeeps
<1> QED BY <1>2, <1>3 DEF AddNothing

\* The list without an entry counts one less.
LEMMA WithoutIs ==
  ASSUME PadInv, NEW p \in Pads, NEW k \in 0..Len(list[p]), ~dangling[p]
  PROVE  /\ Without(p, k) \in Lists /\ LessOne(p, k) \in Counts
         /\ Covers(Without(p, k), LessOne(p, k)) /\ Hidden(Without(p, k))
<1>1. CASE k = 0
  BY <1>1, PadsNow DEF Without, LessOne
<1>2. CASE k # 0
  <2>1. k \in 1..Len(list[p])
    BY <1>2, PadsNow
  <2>2. RemoveAt(list[p], k) \in Seq(Handles) /\ Len(RemoveAt(list[p], k)) = Len(list[p])-1
    BY PadsNow, <2>1, RemoveFacts DEF TakenOut
  <2>3. num[p] - 1 \in Nat
    BY PadsNow, <2>1 DEF Covers
  <2>4. Without(p, k) = [list EXCEPT ![p] = RemoveAt(list[p], k)]
        /\ LessOne(p, k) = [num EXCEPT ![p] = num[p] - 1]
    BY <1>2 DEF Without, LessOne
  <2>5. Without(p, k) \in Lists /\ LessOne(p, k) \in Counts
    BY PadsNow, <2>2, <2>3, <2>4 DEF Lists, Counts
  <2>6. Covers(Without(p, k), LessOne(p, k))
    BY PadsNow, <2>2, <2>3, <2>4 DEF Covers, Lists, Counts
  <2>7. Hidden(Without(p, k))
    BY PadsNow, <2>4 DEF Hidden, Lists
  <2> QED BY <2>5, <2>6, <2>7
<1> QED BY <1>1, <1>2

LEMMA DeleteKeeps == ASSUME PadInv, DeleteConfirmed PROVE PadInv'
<1> DEFINE lives == alive \ {dialog.handle}
<1>1. UNCHANGED <<used, opened, shown>> /\ lives \subseteq used' /\ used' \subseteq Handles
  BY DEF DeleteConfirmed, PadInv, TypeOK
<1>0. \A p \in 1..opened : p \in Pads
  BY Bounds DEF PadInv, TypeOK, Pads
<1>2. ASSUME NEW p \in Pads, NEW k \in 0..Len(list[p]),
             SaveAndRefresh(p, Without(p, k), LessOne(p, k), NoDialog, lives)
      PROVE  PadInv'
  <2>1. ~dangling[p]
    BY <1>2 DEF SaveAndRefresh
  <2>2. /\ Without(p, k) \in Lists /\ LessOne(p, k) \in Counts
        /\ Covers(Without(p, k), LessOne(p, k)) /\ Hidden(Without(p, k))
    BY <2>1, WithoutIs
  <2> HIDE DEF lives
  <2> QED BY <1>1, <1>2, <2>2, PadsNow, ChangeKeeps
<1>3. ASSUME NEW p \in Pads, NEW k \in {0, 1}, num[p] >= k,
             SaveUnknown(p, LessOne(p, k), NoDialog, lives)
      PROVE  PadInv'
  <2>1. dangling[p] /\ list[p] = <<>> /\ Len(<<>>) = 0
    BY <1>3, PadsNow DEF SaveUnknown, Hidden
  <2>2. LessOne(p, k) \in Counts /\ Covers(list, LessOne(p, k))
    BY <1>3, <2>1, PadsNow DEF LessOne, Counts, Covers
  <2> HIDE DEF lives
  <2> QED BY <1>1, <1>3, <2>2, PadsNow, UnknownKeeps
<1>4. ASSUME alive' = lives, dialog' = NoDialog, UNCHANGED <<stored, pads>> PROVE PadInv'
  BY <1>1, <1>4 DEF PadInv, TypeOK, Covers, Hidden, pads
<1> QED BY <1>0, <1>2, <1>3, <1>4 DEF DeleteConfirmed

\* Whatever is saved after damage is an array of handles.
LEMMA AstrayKeeps == ASSUME PadInv, Astray PROVE PadInv'
<1>1. used' \subseteq Handles /\ alive' \subseteq used'
  BY DEF Astray, PadInv, TypeOK
<1>2. Cardinality(used') \in Nat
  BY <1>1, Finite, FS_Subset, FS_CardinalityType
<1>3. \A n \in 1..Cardinality(used') : [1..n -> alive' \cup {Junk}] \subseteq Files
  <2>1. alive' \cup {Junk} \subseteq Handles \cup {Junk}
    BY <1>1
  <2>2. \A n \in 1..Cardinality(used') : n \in Nat
    BY <1>2
  <2> QED BY <2>1, <2>2, ArrayType
<1>4. stored' \in Files
  BY <1>3 DEF Astray, PadInv, TypeOK, Files
<1> QED BY <1>1, <1>4 DEF Astray, pads, PadInv, TypeOK, Covers, Hidden, Files

LEMMA RestartKeeps == ASSUME PadInv, Restart PROVE PadInv'
<1>1. <<>> \in Seq(Handles) /\ Len(<<>>) = 0
  OBVIOUS
<1>2. TypeOK'
  <2>1. /\ list' \in [Pads -> Seq(Handles)] /\ num' \in [Pads -> Nat]
        /\ dangling' \in [Pads -> BOOLEAN] /\ damaged' \in BOOLEAN
    BY <1>1 DEF Restart
  <2>2. opened' \in 0..MaxPads /\ shown' \subseteq 1..opened'
    BY Bounds DEF Restart
  <2>3. Pads' = Pads
    BY DEF Pads
  <2> QED BY <2>1, <2>2, <2>3 DEF Restart, PadInv, TypeOK
<1>3. Covers(list', num') /\ Hidden(list)'
  BY <1>1 DEF Restart, Covers, Hidden
<1> QED BY <1>2, <1>3 DEF PadInv

LEMMA PadNext == PadInv /\ [Next]_vars => PadInv'
<1> SUFFICES ASSUME PadInv, [Next]_vars PROVE PadInv'
  OBVIOUS
<1> USE DEF PadInv, TypeOK, Covers, Hidden, pads
<1>1. CASE UNCHANGED vars
  BY <1>1 DEF vars
<1>2. CASE OpenFolder
  BY <1>2, OpenKeeps
<1>3. ASSUME NEW p \in Pads, CloseFolder(p) \/ AddNothing(p) PROVE PadInv'
  <2>1. CASE CloseFolder(p)
    BY <2>1 DEF CloseFolder
  <2> QED BY <1>3, <2>1, AddNothingKeeps
<1>4. ASSUME NEW p \in Pads, NEW h \in Handles,
             AskToDelete(p, h) \/ AddToUnknown(p, h) \/ \E i \in 0..num[p] : AddButton(p, i, h)
      PROVE  PadInv'
  <2>1. CASE AskToDelete(p, h)
    BY <2>1 DEF AskToDelete
  <2> QED BY <1>4, <2>1, AddUnknownKeeps, AddKeeps
<1>5. CASE DeleteRefused \/ DeleteTraps
  BY <1>5 DEF DeleteRefused, DeleteTraps
<1>6. CASE DeleteConfirmed
  BY <1>6, DeleteKeeps
<1>7. CASE \E h \in Handles : Vanish(h)
  BY <1>7 DEF Vanish
<1>8. CASE Astray \/ Restart
  BY <1>8, AstrayKeeps, RestartKeeps
<1> QED BY <1>1, <1>2, <1>3, <1>4, <1>5, <1>6, <1>7, <1>8 DEF Next, Operate

LEMMA PadAlways == Spec => []PadInv
BY PadInit, PadNext, PTL DEF Spec

-----------------------------------------------------------------------------
(* What is saved.                                                          *)

\* A list that is counted is saved as it is, from the other end.
LEMMA SavedIs ==
  ASSUME NEW l \in Seq(Handles), stored' \in Saved(l, Len(l)), stored' # stored
  PROVE  stored' = Reverse(l)
<1>1. Len(l) \in Nat /\ stored' = [k \in 1..Len(l) |-> IF Len(l)+1-k <= Len(l) THEN l[Len(l)+1-k] ELSE Junk]
  BY DEF Saved
<1>2. \A k \in 1..Len(l) : Len(l)+1-k <= Len(l) /\ Len(l)+1-k = Len(l)-k+1
  BY <1>1
<1> QED BY <1>1, <1>2 DEF Reverse

LEMMA ToSetIs ==
  ASSUME NEW S, NEW q \in Seq(S)
  PROVE  ToSet(Reverse(q)) = ToSet(q) /\ ToSet(q) = {q[i] : i \in 1..Len(q)}
<1>1. /\ Reverse(q) \in Seq(S) /\ Len(Reverse(q)) = Len(q) /\ Len(q) \in Nat
      /\ \A i \in 1..Len(q) : Reverse(q)[i] = q[Len(q)-i+1]
  BY ReverseType
<1>2. ToSet(q) = {q[i] : i \in 1..Len(q)} /\ ToSet(Reverse(q)) = {Reverse(q)[i] : i \in 1..Len(q)}
  <2>1. ASSUME NEW l \in Seq(S) PROVE DOMAIN l = 1..Len(l)
    OBVIOUS
  <2>2. ASSUME NEW l \in Seq(S) PROVE ToSet(l) = {l[i] : i \in 1..Len(l)}
    BY <2>1 DEF ToSet
  <2>3. ToSet(Reverse(q)) = {Reverse(q)[i] : i \in 1..Len(Reverse(q))}
    BY <1>1, <2>2
  <2> QED BY <1>1, <2>2, <2>3
<1>3. \A i \in 1..Len(q) : Len(q)-i+1 \in 1..Len(q) /\ Len(q)-(Len(q)-i+1)+1 = i
  BY <1>1
<1> DEFINE back(i) == Len(q)-i+1
<1>4. \A i \in 1..Len(q) : /\ back(i) \in 1..Len(q) /\ back(back(i)) = i
                            /\ Reverse(q)[i] = q[back(i)] /\ Reverse(q)[back(i)] = q[i]
  BY <1>1, <1>3
<1> HIDE DEF back
<1> QED BY <1>2, <1>4

\* The list of a pad, and what a button is added to it, read from the left.
LEMMA InsertedReversed ==
  ASSUME NEW q \in Seq(Handles), NEW i \in 0..Len(q), NEW h \in Handles
  PROVE  Reverse(InsertAt(q, Len(q)-i+1, h)) = InsertAt(Reverse(q), i+1, h)
<1> DEFINE n == Len(q)
           k == n-i+1
           m == i+1
           a == InsertAt(q, k, h)
           r == Reverse(q)
           b == InsertAt(r, m, h)
<1>1. n \in Nat /\ k \in 1..n+1 /\ m \in 1..n+1 /\ k = n-i+1 /\ m = i+1
  OBVIOUS
<1>2. r \in Seq(Handles) /\ Len(r) = n /\ \A j \in 1..n : r[j] = q[n-j+1]
  BY ReverseType
<1> HIDE DEF n, k, m, r
<1>3. /\ a \in Seq(Handles) /\ Len(a) = n+1
      /\ \A j \in 1..n+1 : a[j] = IF j < k THEN q[j] ELSE IF j = k THEN h ELSE q[j-1]
  <2>1. k \in 1..Len(q)+1 /\ n = Len(q)
    BY <1>1 DEF n
  <2>2. a \in Seq(Handles) /\ PutIn(a, q, k, h)
    BY <2>1, InsertFacts
  <2> HIDE DEF a
  <2> QED BY <2>1, <2>2 DEF PutIn
<1>4. /\ b \in Seq(Handles) /\ Len(b) = n+1
      /\ \A j \in 1..n+1 : b[j] = IF j < m THEN r[j] ELSE IF j = m THEN h ELSE r[j-1]
  <2>1. r \in Seq(Handles) /\ m \in 1..Len(r)+1
    BY <1>1, <1>2
  <2>2. b \in Seq(Handles) /\ PutIn(b, r, m, h)
    BY <2>1, InsertFacts
  <2>3. Len(r) = n
    BY <1>2
  <2> HIDE DEF b
  <2> QED BY <2>2, <2>3 DEF PutIn
<1> HIDE DEF a, b
<1>5. /\ Reverse(a) \in Seq(Handles) /\ Len(Reverse(a)) = n+1
      /\ \A j \in 1..n+1 : Reverse(a)[j] = a[n+1-j+1]
  <2>1. /\ Reverse(a) \in Seq(Handles) /\ Len(Reverse(a)) = Len(a)
        /\ \A j \in 1..Len(a) : Reverse(a)[j] = a[Len(a)-j+1]
    BY <1>3, ReverseType, Zenon
  <2>2. Len(a) = n+1
    BY <1>3
  <2>3. ASSUME NEW j \in 1..n+1 PROVE Reverse(a)[j] = a[n+1-j+1]
    BY <1>1, <2>1, <2>2
  <2> QED BY <2>1, <2>2, <2>3
<1>6. ASSUME NEW j \in 1..n+1 PROVE Reverse(a)[j] = b[j]
  <2> DEFINE z == n+1-j+1
  <2>1. z \in 1..n+1 /\ Reverse(a)[j] = a[z] /\ z = n+1-j+1
    BY <1>1, <1>5
  <2> HIDE DEF z
  <2>2. CASE j < m
    <3>1. z > k /\ z-1 = n-j+1 /\ j \in 1..n
      BY <1>1, <2>1, <2>2
    <3>2. a[z] = q[n-j+1] /\ b[j] = r[j] /\ r[j] = q[n-j+1]
      BY <1>1, <1>2, <1>3, <1>4, <2>1, <2>2, <3>1
    <3> QED BY <2>1, <3>2
  <2>3. CASE j = m
    <3>1. z = k
      BY <1>1, <2>1, <2>3
    <3> QED BY <1>1, <1>3, <1>4, <2>1, <2>3, <3>1
  <2>4. CASE j > m
    <3>1. z < k /\ z = n-(j-1)+1 /\ j-1 \in 1..n
      BY <1>1, <2>1, <2>4
    <3>2. r[j-1] = q[z]
      BY <1>2, <3>1
    <3>3. a[z] = q[z] /\ b[j] = r[j-1]
      BY <1>1, <1>3, <1>4, <2>1, <2>4, <3>1
    <3> QED BY <2>1, <3>2, <3>3
  <2>5. j < m \/ j = m \/ j > m
    BY <1>1
  <2> QED BY <2>2, <2>3, <2>4, <2>5
<1>7. Reverse(a) = b
  BY <1>4, <1>5, <1>6, SeqEqual
<1> QED BY <1>7 DEF a, b, k, m, n, r

\* A button put into an empty list.
LEMMA InsertedAlone ==
  ASSUME NEW q \in Seq(Handles), Len(q) = 0, NEW k \in 1..Len(q)+1, NEW h \in Handles
  PROVE  InsertAt(q, k, h) = <<h>>
<1>1. ASSUME NEW l \in Seq(Handles), NEW m \in 1..Len(l)+1
      PROVE  /\ InsertAt(l, m, h) \in Seq(Handles) /\ Len(InsertAt(l, m, h)) = Len(l)+1
             /\ InsertAt(l, m, h)[m] = h
  <2> DEFINE b == InsertAt(l, m, h)
  <2>1. b \in Seq(Handles) /\ PutIn(b, l, m, h)
    BY InsertFacts
  <2> HIDE DEF b
  <2>2. Len(b) = Len(l)+1 /\ b[m] = h
    BY <2>1 DEF PutIn
  <2> QED BY <2>1, <2>2 DEF b
<1>2. k = 1 /\ Len(q)+1 = 1
  OBVIOUS
<1> DEFINE a == InsertAt(q, k, h)
<1>3. a \in Seq(Handles) /\ Len(a) = Len(q)+1 /\ a[k] = h
  BY <1>1, Zenon
<1> HIDE DEF a
<1>4. a = <<h>>
  BY <1>2, <1>3
<1> QED BY <1>4 DEF a

\* What is saved when a button is added to a pad that shows all it counts.
LEMMA AddSaves ==
  ASSUME PadInv, NEW p \in Pads, NEW h \in Handles, NEW i \in 0..num[p], AddButton(p, i, h),
         num[p] = Len(list[p]), stored' # stored
  PROVE  /\ Inserted(p, i, h) \in Seq(Handles) /\ stored' = Reverse(Inserted(p, i, h))
         /\ Inserted(p, i, h) = InsertAt(list[p], num[p]-i+1, h) /\ alive' = alive \cup {h}
<1> DEFINE l == [list EXCEPT ![p] = Inserted(p, i, h)]
           n == OneMore(p)
<1>1. ~Overruns(p, i) /\ SaveAndRefresh(p, l, n, dialog, alive \cup {h})
  BY DEF AddButton
<1>2. list \in [Pads -> Seq(Handles)] /\ num \in [Pads -> Nat]
  BY DEF PadInv, TypeOK
<1>3. l[p] = Inserted(p, i, h) /\ n[p] = num[p] + 1
  BY <1>2 DEF OneMore
<1>4. stored' \in Saved(l[p], n[p]) /\ alive' = alive \cup {h}
  BY <1>1 DEF SaveAndRefresh
<1> HIDE DEF l, n
<1>5. Inserted(p, i, h) \in Seq(Handles) /\ Len(Inserted(p, i, h)) = Len(list[p]) + 1
  BY <1>1, InsertedIs
<1>6. stored' = Reverse(Inserted(p, i, h))
  BY <1>3, <1>4, <1>5, SavedIs
<1>7. Inserted(p, i, h) = InsertAt(list[p], num[p]-i+1, h)
  <2>1. CASE list[p] # <<>>
    BY <1>1, <2>1, InsertedIs
  <2>2. CASE list[p] = <<>>
    <3>1. num[p] = 0 /\ i = 0 /\ Inserted(p, i, h) = <<h>> /\ num[p]-i+1 = 1
      BY <1>1, <2>2, InsertedIs
    <3> DEFINE k == num[p]-i+1
    <3>2. list[p] \in Seq(Handles) /\ Len(list[p]) = 0 /\ k \in 1..Len(list[p])+1
      BY <1>2, <2>2, <3>1
    <3> HIDE DEF k
    <3>3. InsertAt(list[p], k, h) = <<h>>
      BY <3>2, InsertedAlone
    <3> QED BY <3>1, <3>3 DEF k
  <2> QED BY <2>1, <2>2
<1> QED BY <1>4, <1>5, <1>6, <1>7

\* A list with a button put in has all it had, and the button.
LEMMA InsertedMembers ==
  ASSUME NEW q \in Seq(Handles), NEW k \in 1..Len(q)+1, NEW h \in Handles
  PROVE  ToSet(q) \cup {h} \subseteq ToSet(InsertAt(q, k, h))
<1> DEFINE a == InsertAt(q, k, h)
<1>1. /\ a \in Seq(Handles) /\ Len(a) = Len(q)+1
      /\ \A i \in 1..Len(q)+1 : a[i] = IF i < k THEN q[i] ELSE IF i = k THEN h ELSE q[i-1]
  <2>1. a \in Seq(Handles) /\ PutIn(a, q, k, h)
    BY InsertFacts
  <2> HIDE DEF a
  <2> QED BY <2>1 DEF PutIn
<1> HIDE DEF a
<1>2. ToSet(q) = {q[i] : i \in 1..Len(q)} /\ ToSet(a) = {a[i] : i \in 1..Len(a)} /\ Len(q) \in Nat
  BY <1>1, ToSetIs
<1>3. ASSUME NEW i \in 1..Len(q) PROVE q[i] \in ToSet(a)
  <2>1. CASE i < k
    <3>1. a[i] = q[i] /\ i \in 1..Len(a)
      BY <1>1, <1>2, <2>1
    <3> QED BY <1>2, <3>1
  <2>2. CASE i >= k
    <3>1. i+1 \in 1..Len(q)+1 /\ ~(i+1 < k) /\ i+1 # k /\ i+1-1 = i
      BY <1>2, <2>2
    <3>2. a[i+1] = q[i] /\ i+1 \in 1..Len(a)
      BY <1>1, <3>1
    <3> QED BY <1>2, <3>2
  <2>3. i < k \/ i >= k
    BY <1>2
  <2> QED BY <2>1, <2>2, <2>3
<1>4. h \in ToSet(a)
  BY <1>1, <1>2
<1> QED BY <1>2, <1>3, <1>4 DEF a

\* A list with an entry taken out has all others.
LEMMA RemovedMembers ==
  ASSUME NEW q \in Seq(Handles), NEW k \in 1..Len(q)
  PROVE  ToSet(q) \ {q[k]} \subseteq ToSet(RemoveAt(q, k))
<1> DEFINE a == RemoveAt(q, k)
<1>1. /\ a \in Seq(Handles) /\ Len(a) = Len(q)-1
      /\ \A i \in 1..Len(q)-1 : a[i] = IF i < k THEN q[i] ELSE q[i+1]
  <2>1. a \in Seq(Handles) /\ TakenOut(a, q, k)
    BY RemoveFacts
  <2> HIDE DEF a
  <2> QED BY <2>1 DEF TakenOut
<1> HIDE DEF a
<1>2. ToSet(q) = {q[i] : i \in 1..Len(q)} /\ ToSet(a) = {a[i] : i \in 1..Len(a)} /\ Len(q) \in Nat
  BY <1>1, ToSetIs
<1>3. ASSUME NEW i \in 1..Len(q), i # k PROVE q[i] \in ToSet(a)
  <2>1. CASE i < k
    <3>1. a[i] = q[i] /\ i \in 1..Len(a)
      BY <1>1, <1>2, <2>1
    <3> QED BY <1>2, <3>1
  <2>2. CASE i > k
    <3>1. i-1 \in 1..Len(q)-1 /\ ~(i-1 < k) /\ i-1+1 = i
      BY <1>2, <2>2
    <3>2. a[i-1] = q[i] /\ i-1 \in 1..Len(a)
      BY <1>1, <3>1
    <3> QED BY <1>2, <3>2
  <2>3. i < k \/ i > k
    BY <1>2, <1>3
  <2> QED BY <2>1, <2>2, <2>3
<1> QED BY <1>2, <1>3 DEF a

-----------------------------------------------------------------------------
(* Theorems.                                                               *)

\* The variables have their types: the walk along a list stays on it, the counts never
\* become negative.
THEOREM TypeCorrect == Spec => []TypeOK
BY PadAlways, PTL DEF PadInv

\* A pad counts at least the buttons it has, in whatever order pads are opened, changed and
\* rebuilt, and whatever fails or traps meanwhile (lpBuildObjectList, lpRefreshLaunchPad).
THEOREM CountAlwaysCovers == Spec => []CountCoversList
<1>1. PadInv => CountCoversList
  BY DEF PadInv, Covers, CountCoversList
<1> QED BY <1>1, PadAlways, PTL

\* lpAddButton walks the list from its right end; what it saves has the new button behind
\* the i buttons on its left.
THEOREM AlwaysInsertedWhereDropped == Spec => InsertedWhereDropped
<1> DEFINE Step == \A p \in Pads, h \in Handles : \A i \in 0..num[p] :
                     AddButton(p, i, h) /\ ~dangling[p] /\ num[p] = Len(list[p]) /\ stored' # stored
                       => stored' = InsertAt(Reverse(list[p]), i + 1, h)
<1>1. PadInv => Step
  <2> SUFFICES ASSUME PadInv, NEW p \in Pads, NEW h \in Handles, NEW i \in 0..num[p],
                      AddButton(p, i, h), num[p] = Len(list[p]), stored' # stored
               PROVE  stored' = InsertAt(Reverse(list[p]), i + 1, h)
    OBVIOUS
  <2>1. list[p] \in Seq(Handles) /\ i \in 0..Len(list[p])
    BY DEF PadInv, TypeOK
  <2>2. stored' = Reverse(InsertAt(list[p], Len(list[p])-i+1, h))
    BY AddSaves
  <2> QED BY <2>1, <2>2, InsertedReversed
<1> QED BY <1>1, PadAlways, PTL DEF InsertedWhereDropped

\* What lpSaveObjectList writes after a button was added or deleted on a pad that was up to
\* date has every other button whose object still exists.
THEOREM NothingElseEverLost == Spec => NothingElseLost
<1> DEFINE Changes(p) == \/ AddNothing(p)
                         \/ \E h \in Handles, i \in 0..num[p] : AddButton(p, i, h)
                         \/ DeleteConfirmed /\ dialog.valid /\ dialog.pad = p
           Step == \A p \in Pads :
                     UpToDate(p) /\ Changes(p) => ToSet(stored) \cap alive' \subseteq ToSet(stored')
<1>1. PadInv => Step
  <2> SUFFICES ASSUME PadInv, NEW p \in Pads, UpToDate(p), Changes(p), stored' # stored
               PROVE  ToSet(stored) \cap alive' \subseteq ToSet(stored')
    BY Zenon
  <2> DEFINE q == list[p]
  <2>1. q \in Seq(Handles) /\ num[p] = Len(q) /\ Len(q) \in Nat /\ list \in [Pads -> Seq(Handles)]
        /\ num \in [Pads -> Nat] /\ ToSet(stored) \cap alive \subseteq ToSet(q)
    BY DEF PadInv, TypeOK, UpToDate
  <2> HIDE DEF q
  <2>2. CASE AddNothing(p)
    <3>1. stored' \in Saved(q, Len(q)) /\ alive' = alive
      BY <2>1, <2>2 DEF AddNothing, SaveAndRefresh, SaveUnknown, UpToDate, q
    <3>2. stored' = Reverse(q)
      BY <2>1, <3>1, SavedIs
    <3> QED BY <2>1, <3>1, <3>2, ToSetIs
  <2>3. ASSUME NEW h \in Handles, NEW i \in 0..num[p], AddButton(p, i, h)
        PROVE  ToSet(stored) \cap alive' \subseteq ToSet(stored')
    <3> DEFINE k == num[p]-i+1
               a == InsertAt(q, k, h)
    <3>1. k \in 1..Len(q)+1
      BY <2>1
    <3>2. a \in Seq(Handles) /\ stored' = Reverse(a) /\ alive' = alive \cup {h}
      <4>1. stored' # stored /\ num[p] = Len(list[p])
        BY <2>1 DEF q
      <4>2. /\ Inserted(p, i, h) \in Seq(Handles) /\ stored' = Reverse(Inserted(p, i, h))
            /\ Inserted(p, i, h) = InsertAt(list[p], num[p]-i+1, h) /\ alive' = alive \cup {h}
        BY <2>3, <4>1, AddSaves
      <4> QED BY <4>2 DEF q
    <3> HIDE DEF k
    <3>3. ToSet(q) \cup {h} \subseteq ToSet(a)
      BY <2>1, <3>1, InsertedMembers
    <3> HIDE DEF a
    <3>4. ToSet(stored') = ToSet(a)
      BY <3>2, ToSetIs
    <3> QED BY <2>1, <3>2, <3>3, <3>4
  <2>4. CASE DeleteConfirmed /\ dialog.valid /\ dialog.pad = p
    <3> DEFINE lives == alive \ {dialog.handle}
    <3>1. PICK k \in 0..Len(q) :
            /\ k # 0 /\ q[k] = dialog.handle
            /\ SaveAndRefresh(p, Without(p, k), LessOne(p, k), NoDialog, lives)
      BY <2>4 DEF DeleteConfirmed, UpToDate, q
    <3> DEFINE a == RemoveAt(q, k)
    <3>2. k \in 1..Len(q)
      BY <2>1, <3>1
    <3>3. a \in Seq(Handles) /\ Len(a) = Len(q)-1
      BY <2>1, <3>2, RemoveFacts DEF TakenOut
    <3>4. Without(p, k)[p] = a /\ LessOne(p, k)[p] = Len(q)-1
      BY <2>1, <3>1 DEF Without, LessOne, q
    <3>5. ToSet(q) \ {q[k]} \subseteq ToSet(a)
      BY <2>1, <3>2, RemovedMembers
    <3> HIDE DEF a
    <3>6. stored' \in Saved(a, Len(a)) /\ alive' = alive \ {q[k]}
      BY <3>1, <3>3, <3>4 DEF SaveAndRefresh
    <3>7. stored' = Reverse(a) /\ ToSet(stored') = ToSet(a)
      BY <3>3, <3>6, SavedIs, ToSetIs
    <3> QED BY <2>1, <3>5, <3>6, <3>7
  <2> QED BY <2>2, <2>3, <2>4
<1> QED BY <1>1, PadAlways, PTL DEF NothingElseLost
=============================================================================
