------------------------- MODULE ContentListProofs -------------------------
(***************************************************************************)
(* Proofs about ContentList, for any number of files, sectors and slots:   *)
(* slots, markers and links implement the sequences of SectorList.         *)
(***************************************************************************)
EXTENDS ContentListInvariant, FiniteSetTheorems, SequenceTheorems, WellFoundedInduction, TLAPS

(***************************************************************************)
(* The recursive functions.                                                *)
(***************************************************************************)

LEMMA LeastNat ==
  ASSUME NEW T \in SUBSET Nat, T # {}
  PROVE  \E n \in T : \A m \in T : n <= m
<1>1. PICK n \in T : \A m \in T : <<m, n>> \notin OpToRel(<, Nat)
  BY WFMin, NatLessThanWellFounded
<1>2. \A m \in T : ~(m < n)
  BY <1>1 DEF OpToRel
<1> QED BY <1>2

(* What follows from one index to the next holds at all of them.           *)
LEMMA Upwards ==
  ASSUME NEW lo \in Nat, NEW hi \in Nat, NEW Good,
         lo \in Good, \A k \in lo + 1 .. hi : k - 1 \in Good => k \in Good
  PROVE  \A k \in lo .. hi : k \in Good
<1> SUFFICES ASSUME NEW k \in lo .. hi, k \notin Good PROVE FALSE
  OBVIOUS
<1> DEFINE T == {n \in lo .. hi : n \notin Good}
<1>1. T \in SUBSET Nat /\ T # {}
  OBVIOUS
<1>2. PICK n \in T : \A m \in T : n <= m
  BY <1>1, LeastNat
<1>3. n \in lo + 1 .. hi /\ n - 1 \notin T /\ n - 1 \in lo .. hi
  BY <1>2
<1> QED BY <1>2, <1>3

(* The links can be followed any number of times.                          *)
Follows(links, f, n, g) ==
  g = [k \in 0 .. n |-> IF k = 0 THEN f ELSE links[g[k - 1]]]

LEMMA StepsExist ==
  ASSUME NEW N \in Nat, NEW links, NEW f
  PROVE  \E g : Follows(links, f, N, g)
<1> DEFINE Solves(g, n) == Follows(links, f, n, g)
           Good == {n \in Nat : \E g : Solves(g, n)}
<1>1. 0 \in Good
  <2> DEFINE g == [k \in 0 .. 0 |-> f]
  <2>1. Solves(g, 0)
    BY DEF Follows
  <2> QED BY <2>1
<1>2. ASSUME NEW n \in 1 .. N, n - 1 \in Good PROVE n \in Good
  <2>1. PICK g : Solves(g, n - 1)
    BY <1>2
  <2> DEFINE h == [k \in 0 .. n |-> IF k = n THEN links[g[n - 1]] ELSE g[k]]
  <2>2. \A k \in 0 .. n - 1 : g[k] = IF k = 0 THEN f ELSE links[g[k - 1]]
    BY <2>1 DEF Follows
  <2>3. \A k \in 0 .. n : h[k] = IF k = 0 THEN f ELSE links[h[k - 1]]
    <3> SUFFICES ASSUME NEW k \in 0 .. n
                 PROVE  h[k] = IF k = 0 THEN f ELSE links[h[k - 1]]
      OBVIOUS
    <3>1. k # 0 => k - 1 \in 0 .. n - 1 /\ h[k - 1] = g[k - 1]
      OBVIOUS
    <3>2. k # n => h[k] = g[k] /\ k \in 0 .. n - 1
      OBVIOUS
    <3>3. k = n => h[k] = links[g[k - 1]] /\ k # 0
      OBVIOUS
    <3> QED BY <3>1, <3>2, <3>3, <2>2
  <2>4. Solves(h, n)
    <3> HIDE DEF h
    <3>1. h = [k \in 0 .. n |-> h[k]]
      BY DEF h
    <3> QED BY <2>3, <3>1 DEF Follows
  <2> HIDE DEF h, Solves
  <2> QED BY <2>4
<1> HIDE DEF Good
<1>3. N \in Good
  BY <1>1, <1>2, Upwards
<1> QED BY <1>3 DEF Good

(* A path of links is what Along finds.                                    *)
LEMMA AlongPath ==
  ASSUME NEW links, NEW f, NEW p, Path(links, f, p), Len(p) <= NumSectors
  PROVE  Along(links, f) = p
<1> DEFINE node == CHOOSE g : Follows(links, f, NumSectors, g)
           last == CHOOSE k \in 0 .. NumSectors :
                     /\ links[node[k]] = Invalid
                     /\ \A j \in 0 .. k - 1 : links[node[j]] # Invalid
<1>0. /\ NumSectors \in Nat /\ NumSectors < Invalid + 1 /\ Len(p) \in Nat \ {0}
      /\ p \in Seq(Sector) /\ Sector \subseteq Int
  BY SectorMapAssumption DEF Path, Sector, Invalid, CounterSpan
<1>1. Follows(links, f, NumSectors, node)
  BY <1>0, StepsExist
<1>2. Along(links, f) = [k \in 1 .. last + 1 |-> node[k - 1]]
  BY DEF Along, Follows
<1> HIDE DEF node
<1>3. \A k \in 0 .. Len(p) - 1 : node[k] = p[k + 1]
  <2> DEFINE Good == {k \in Nat : node[k] = p[k + 1]}
  <2>1. 0 \in Good
    BY <1>0, <1>1 DEF Path, Follows
  <2>2. ASSUME NEW k \in 0 + 1 .. Len(p) - 1, k - 1 \in Good PROVE k \in Good
    <3>1. k \in 0 .. NumSectors /\ k # 0 /\ k \in 1 .. Len(p) /\ k < Len(p)
      BY <1>0, <2>2
    <3>2. node[k] = links[node[k - 1]]
      BY <1>1, <3>1 DEF Follows
    <3>4. node[k - 1] = p[k]
      BY <2>2, <3>1
    <3>3. links[p[k]] = p[k + 1]
      BY <3>1 DEF Path
    <3> QED BY <3>1, <3>2, <3>3, <3>4
  <2> HIDE DEF Good
  <2>3. \A k \in 0 .. Len(p) - 1 : k \in Good
    <3>1. Len(p) - 1 \in Nat
      BY <1>0
    <3> QED BY <2>1, <2>2, <3>1, Upwards
  <2> QED BY <2>3 DEF Good
<1>4. \A k \in 0 .. Len(p) - 1 :
        links[node[k]] = Invalid <=> k = Len(p) - 1
  <2> SUFFICES ASSUME NEW k \in 0 .. Len(p) - 1
               PROVE  links[node[k]] = Invalid <=> k = Len(p) - 1
    OBVIOUS
  <2>1. k + 1 \in 1 .. Len(p) /\ node[k] = p[k + 1]
    BY <1>0, <1>3
  <2>2. links[p[k + 1]] = IF k + 1 < Len(p) THEN p[k + 2] ELSE Invalid
    BY <2>1 DEF Path
  <2>3. k + 1 < Len(p) => p[k + 2] \in Sector
    BY <1>0, <2>1
  <2>4. Invalid \notin Sector
    BY <1>0 DEF Sector
  <2> QED BY <1>0, <2>1, <2>2, <2>3, <2>4
<1>5. last = Len(p) - 1
  <2> DEFINE Is(k) == /\ links[node[k]] = Invalid
                      /\ \A j \in 0 .. k - 1 : links[node[j]] # Invalid
  <2>1. Len(p) - 1 \in 0 .. NumSectors /\ Is(Len(p) - 1)
    BY <1>0, <1>4
  <2>2. ASSUME NEW k \in 0 .. NumSectors, Is(k) PROVE k = Len(p) - 1
    <3>1. CASE k < Len(p) - 1
      BY <1>0, <1>4, <2>2, <3>1
    <3>2. CASE k > Len(p) - 1
      <4>1. Len(p) - 1 \in 0 .. k - 1
        BY <1>0, <3>2
      <4> QED BY <1>4, <2>2, <4>1
    <3> QED BY <1>0, <3>1, <3>2
  <2>3. last = CHOOSE k \in 0 .. NumSectors : Is(k)
    OBVIOUS
  <2> HIDE DEF Is, last
  <2> QED BY <2>1, <2>2, <2>3
<1> HIDE DEF last
<1>6. Along(links, f) = [k \in 1 .. Len(p) |-> p[k]]
  <2>1. last + 1 = Len(p)
    BY <1>0, <1>5
  <2>2. \A k \in 1 .. Len(p) : k - 1 \in 0 .. Len(p) - 1 /\ node[k - 1] = p[k]
    BY <1>0, <1>3
  <2> QED BY <1>2, <2>1, <2>2
<1> QED BY <1>0, <1>6

-----------------------------------------------------------------------------
(***************************************************************************)
(* The slots of one node.                                                  *)
(***************************************************************************)

Ends(list, i) ==
  /\ i <= Len(list) => list[i] = Invalid
  /\ \A j \in 1 .. i - 1 : list[j] # Invalid

LEMMA EndOfIs ==
  ASSUME NEW list \in Seq(Slot), NEW i \in 1 .. Len(list) + 1, Ends(list, i)
  PROVE  EndOf(list) = i
<1>1. ASSUME NEW j \in 1 .. Len(list) + 1, Ends(list, j) PROVE j = i
  BY <1>1 DEF Ends
<1>2. EndOf(list) = CHOOSE j \in 1 .. Len(list) + 1 : Ends(list, j)
  BY DEF EndOf, Ends
<1> QED BY <1>1, <1>2

LEMMA EndOfType ==
  ASSUME NEW list \in Seq(Slot)
  PROVE  EndOf(list) \in 1 .. Len(list) + 1 /\ Ends(list, EndOf(list))
<1> DEFINE T == {i \in 1 .. Len(list) + 1 : i <= Len(list) => list[i] = Invalid}
<1>1. Len(list) + 1 \in T /\ T \in SUBSET Nat
  OBVIOUS
<1>2. PICK i \in T : \A j \in T : i <= j
  BY <1>1, LeastNat
<1>3. i \in 1 .. Len(list) + 1 /\ Ends(list, i)
  BY <1>2 DEF Ends
<1> QED BY <1>3, EndOfIs

(* The sectors among the first slots.                                      *)
Keeps(list, n, g) ==
  g = [i \in 0 .. n |->
         IF i = 0 THEN <<>>
         ELSE g[i - 1] \o (IF list[i] \in Sector THEN <<list[i]>> ELSE <<>>)]

LEMMA KeepsExists ==
  ASSUME NEW N \in Nat, NEW list
  PROVE  \E g : Keeps(list, N, g)
<1> DEFINE Solves(g, n) == Keeps(list, n, g)
           Good == {n \in Nat : \E g : Solves(g, n)}
<1>1. 0 \in Good
  <2> DEFINE g == [k \in 0 .. 0 |-> <<>>]
  <2>1. Solves(g, 0)
    BY DEF Keeps
  <2> QED BY <2>1
<1>2. ASSUME NEW n \in 1 .. N, n - 1 \in Good PROVE n \in Good
  <2>1. PICK g : Solves(g, n - 1)
    BY <1>2
  <2> DEFINE more(i) == IF list[i] \in Sector THEN <<list[i]>> ELSE <<>>
             h == [k \in 0 .. n |-> IF k = n THEN g[n - 1] \o more(n) ELSE g[k]]
  <2>2. \A k \in 0 .. n - 1 : g[k] = IF k = 0 THEN <<>> ELSE g[k - 1] \o more(k)
    BY <2>1 DEF Keeps
  <2> HIDE DEF more
  <2>3. \A k \in 0 .. n : h[k] = IF k = 0 THEN <<>> ELSE h[k - 1] \o more(k)
    <3> SUFFICES ASSUME NEW k \in 0 .. n
                 PROVE  h[k] = IF k = 0 THEN <<>> ELSE h[k - 1] \o more(k)
      OBVIOUS
    <3>1. k # 0 => k - 1 \in 0 .. n - 1 /\ h[k - 1] = g[k - 1]
      OBVIOUS
    <3>2. k # n => h[k] = g[k] /\ k \in 0 .. n - 1
      OBVIOUS
    <3>3. k = n => h[k] = g[k - 1] \o more(k) /\ k # 0
      OBVIOUS
    <3> QED BY <3>1, <3>2, <3>3, <2>2
  <2>4. Solves(h, n)
    <3> HIDE DEF h
    <3>1. h = [k \in 0 .. n |-> h[k]]
      BY DEF h
    <3> QED BY <2>3, <3>1 DEF Keeps, more
  <2> HIDE DEF h, Solves
  <2> QED BY <2>4
<1> HIDE DEF Good
<1>3. N \in Good
  BY <1>1, <1>2, Upwards
<1> QED BY <1>3 DEF Good

LEMMA KeepsUnique ==
  ASSUME NEW N \in Nat, NEW list, NEW g, NEW h, Keeps(list, N, g), Keeps(list, N, h)
  PROVE  g[N] = h[N]
<1> DEFINE more(i) == IF list[i] \in Sector THEN <<list[i]>> ELSE <<>>
           Good == {k \in Nat : g[k] = h[k]}
<1>1. /\ \A k \in 0 .. N : g[k] = IF k = 0 THEN <<>> ELSE g[k - 1] \o more(k)
      /\ \A k \in 0 .. N : h[k] = IF k = 0 THEN <<>> ELSE h[k - 1] \o more(k)
  BY DEF Keeps
<1> HIDE DEF more
<1>2. 0 \in Good
  BY <1>1
<1>3. ASSUME NEW k \in 1 .. N, k - 1 \in Good PROVE k \in Good
  BY <1>1, <1>3
<1> HIDE DEF Good
<1>4. N \in Good
  BY <1>2, <1>3, Upwards
<1> QED BY <1>4 DEF Good

LEMMA InImageIs ==
  ASSUME NEW list \in Seq(Slot), NEW g, Keeps(list, Len(list), g)
  PROVE  InImage(list) = g[Len(list)]
<1> DEFINE kept == CHOOSE h : Keeps(list, Len(list), h)
<1>1. Keeps(list, Len(list), kept)
  OBVIOUS
<1>2. InImage(list) = kept[Len(list)]
  BY DEF InImage, Keeps
<1> HIDE DEF kept
<1>3. kept[Len(list)] = g[Len(list)]
  BY <1>1, KeepsUnique, LenProperties
<1> QED BY <1>2, <1>3

LEMMA KeepsType ==
  ASSUME NEW N \in Nat, NEW list, NEW g, Keeps(list, N, g)
  PROVE  \A k \in 0 .. N : g[k] \in Seq(Sector)
<1> DEFINE more(i) == IF list[i] \in Sector THEN <<list[i]>> ELSE <<>>
           Good == {k \in Nat : g[k] \in Seq(Sector)}
<1>1. \A k \in 0 .. N : g[k] = IF k = 0 THEN <<>> ELSE g[k - 1] \o more(k)
  BY DEF Keeps
<1>2. \A k \in 1 .. N : more(k) \in Seq(Sector)
  OBVIOUS
<1> HIDE DEF more
<1>6. g[0] = <<>> /\ <<>> \in Seq(Sector)
  BY <1>1
<1>7. ASSUME NEW k \in 1 .. N PROVE g[k] = g[k - 1] \o more(k)
  <2>1. k \in 0 .. N /\ k # 0
    OBVIOUS
  <2> QED BY <1>1, <2>1
<1>3. 0 \in Good
  BY <1>6
<1>4. ASSUME NEW k \in 1 .. N, k - 1 \in Good PROVE k \in Good
  <2>1. g[k] = g[k - 1] \o more(k) /\ g[k - 1] \in Seq(Sector)
    BY <1>4, <1>7
  <2>2. g[k - 1] \o more(k) \in Seq(Sector)
    BY <1>2, <2>1, ConcatProperties
  <2>3. k \in Nat /\ g[k] \in Seq(Sector)
    BY <2>1, <2>2
  <2> QED BY <2>3
<1> HIDE DEF Good
<1>5. \A k \in 0 .. N : k \in Good
  BY <1>3, <1>4, Upwards
<1> QED BY <1>5 DEF Good

(* A list of sectors is read as it is.                                     *)
LEMMA InImageAll ==
  ASSUME NEW list \in Seq(Sector), list \in Seq(Slot)
  PROVE  InImage(list) = list
<1> DEFINE h == [i \in 0 .. Len(list) |-> SubSeq(list, 1, i)]
<1>1. Keeps(list, Len(list), h)
  <2>1. ASSUME NEW i \in 1 .. Len(list)
        PROVE  SubSeq(list, 1, i) = SubSeq(list, 1, i - 1)
                 \o (IF list[i] \in Sector THEN <<list[i]>> ELSE <<>>)
    <3>1. list[i] \in Sector
      OBVIOUS
    <3>2. SubSeq(list, 1, i) = SubSeq(list, 1, i - 1) \o <<list[i]>>
      OBVIOUS
    <3> QED BY <3>1, <3>2
  <2>2. SubSeq(list, 1, 0) = <<>>
    OBVIOUS
  <2>3. \A i \in 0 .. Len(list) :
          h[i] = IF i = 0 THEN <<>>
                 ELSE h[i - 1] \o (IF list[i] \in Sector THEN <<list[i]>> ELSE <<>>)
    <3> DEFINE more(i) == IF list[i] \in Sector THEN <<list[i]>> ELSE <<>>
    <3>1. /\ h[0] = <<>>
          /\ \A i \in 1 .. Len(list) : /\ h[i] = SubSeq(list, 1, i)
                                       /\ h[i - 1] = SubSeq(list, 1, i - 1)
      BY <2>2
    <3>2. \A i \in 1 .. Len(list) : h[i] = h[i - 1] \o more(i)
      BY <2>1, <3>1
    <3> HIDE DEF h, more
    <3>3. ASSUME NEW i \in 0 .. Len(list)
          PROVE  h[i] = IF i = 0 THEN <<>> ELSE h[i - 1] \o more(i)
      <4>1. i # 0 => i \in 1 .. Len(list)
        OBVIOUS
      <4> QED BY <3>1, <3>2, <4>1
    <3> QED BY <3>3 DEF more
  <2>4. h = [i \in 0 .. Len(list) |-> h[i]]
    OBVIOUS
  <2> HIDE DEF h
  <2> QED BY <2>3, <2>4 DEF Keeps
<1>2. h[Len(list)] = list
  OBVIOUS
<1> HIDE DEF h
<1> QED BY <1>1, <1>2, InImageIs

LEMMA SectorsJoin ==
  ASSUME NEW a \in Seq(Sector), NEW b \in Seq(Sector), NEW c \in Seq(Sector)
  PROVE  (a \o b) \o c = a \o (b \o c)
BY ConcatAssociative

(* Sectors in front, then one slot that is none, then the rest.            *)
LEMMA InImageJoin ==
  ASSUME NEW list \in Seq(Slot), NEW e \in 1 .. Len(list), NEW rest \in Seq(Slot),
         \A i \in 1 .. e - 1 : list[i] \in Sector, list[e] \notin Sector,
         Len(list) = e + Len(rest),
         \A j \in 1 .. Len(rest) : rest[j] = list[e + j]
  PROVE  InImage(list) = SubSeq(list, 1, e - 1) \o InImage(rest)
<1>1. PICK n \in Nat : n = Len(rest) /\ Len(list) = e + n
  OBVIOUS
<1>2. PICK g : Keeps(rest, n, g)
  BY KeepsExists
<1> DEFINE front(i) == SubSeq(list, 1, i)
           more(i) == IF list[i] \in Sector THEN <<list[i]>> ELSE <<>>
           kept(i) == IF rest[i] \in Sector THEN <<rest[i]>> ELSE <<>>
<1>3. \A i \in 1 .. e - 1 : front(i) = front(i - 1) \o more(i)
  <2> SUFFICES ASSUME NEW i \in 1 .. e - 1 PROVE front(i) = front(i - 1) \o more(i)
    OBVIOUS
  <2>1. more(i) = <<list[i]>>
    OBVIOUS
  <2> HIDE DEF more
  <2> QED BY <2>1
<1>4. /\ \A k \in 0 .. n : g[k] = IF k = 0 THEN <<>> ELSE g[k - 1] \o kept(k)
      /\ \A k \in 0 .. n : g[k] \in Seq(Sector)
  BY <1>2, KeepsType DEF Keeps
<1>5. front(e - 1) \in Seq(Sector) /\ front(0) = <<>> /\ e \in Nat
  OBVIOUS
<1>6. \A j \in 1 .. n : kept(j) = more(e + j) /\ kept(j) \in Seq(Sector)
  BY <1>1
<1>7. more(e) = <<>>
  OBVIOUS
<1> HIDE DEF front, more, kept
<1> DEFINE h == [i \in 0 .. e + n |->
                   IF i < e THEN front(i) ELSE front(e - 1) \o g[i - e]]
<1>14. /\ \A i \in 0 .. e - 1 : h[i] = front(i)
       /\ \A j \in 0 .. n : h[e + j] = front(e - 1) \o g[j]
  <2>1. \A i \in 0 .. e + n :
          h[i] = IF i < e THEN front(i) ELSE front(e - 1) \o g[i - e]
    OBVIOUS
  <2> HIDE DEF h
  <2>2. \A j \in 0 .. n : e + j \in 0 .. e + n /\ ~(e + j < e) /\ (e + j) - e = j
    BY <1>5
  <2>3. \A i \in 0 .. e - 1 : i \in 0 .. e + n /\ i < e
    BY <1>5
  <2> QED BY <2>1, <2>2, <2>3
<1>15. h = [i \in 0 .. e + n |-> h[i]]
  OBVIOUS
<1> HIDE DEF h
<1>16. g[0] = <<>>
  BY <1>4
<1>17. ASSUME NEW j \in 1 .. n PROVE g[j] = g[j - 1] \o kept(j)
  <2>1. j \in 0 .. n /\ j # 0
    OBVIOUS
  <2> QED BY <1>4, <2>1
<1>8. ASSUME NEW i \in 0 .. e + n
      PROVE  h[i] = IF i = 0 THEN <<>> ELSE h[i - 1] \o more(i)
  <2>1. CASE i < e
    <3>1. i # 0 => i \in 1 .. e - 1 /\ i - 1 \in 0 .. e - 1
      BY <2>1
    <3>2. i \in 0 .. e - 1
      BY <2>1
    <3> QED BY <1>3, <1>5, <1>14, <3>1, <3>2
  <2>2. CASE i = e
    <3>1. e - 1 \in 0 .. e - 1 /\ 0 \in 0 .. n /\ e + 0 = e /\ e # 0
      BY <1>5
    <3>2. h[e] = front(e - 1) \o g[0] /\ h[e - 1] = front(e - 1)
      BY <1>14, <3>1
    <3>3. h[e] = front(e - 1) /\ h[e] = h[e - 1] \o more(e)
      BY <1>5, <1>7, <1>16, <3>2
    <3> QED BY <2>2, <3>1, <3>3
  <2>3. CASE i > e
    <3>1. PICK j \in 1 .. n : i = e + j
      BY <1>5, <2>3
    <3>2. j - 1 \in 0 .. n /\ j \in 0 .. n /\ e + (j - 1) = i - 1 /\ i # 0
      BY <1>5, <3>1
    <3>3. h[i] = front(e - 1) \o g[j] /\ h[i - 1] = front(e - 1) \o g[j - 1]
      BY <1>14, <3>1, <3>2
    <3>4. g[j] = g[j - 1] \o kept(j) /\ g[j - 1] \in Seq(Sector)
      BY <1>4, <1>17, <3>2
    <3>5. kept(j) = more(i) /\ kept(j) \in Seq(Sector)
      BY <1>6, <3>1
    <3>7. (front(e - 1) \o g[j - 1]) \o kept(j) = front(e - 1) \o (g[j - 1] \o kept(j))
      BY <1>5, <3>4, <3>5, SectorsJoin
    <3>8. h[i] = h[i - 1] \o more(i)
      BY <3>3, <3>4, <3>5, <3>7
    <3> QED BY <3>2, <3>8
  <2> QED BY <1>5, <2>1, <2>2, <2>3
<1>9. Keeps(list, Len(list), h)
  BY <1>1, <1>8, <1>15 DEF Keeps, more
<1>10. h[e + n] = front(e - 1) \o g[n]
  <2>1. n \in 0 .. n
    OBVIOUS
  <2> QED BY <1>14, <2>1
<1>11. InImage(list) = h[e + n] /\ InImage(rest) = g[n]
  BY <1>1, <1>2, <1>9, InImageIs
<1> QED BY <1>10, <1>11 DEF front

(* Markers in front, then the same slot over and over.                     *)
Trailing(list, m, v) == \A j \in 1 .. Len(list) : list[j] = IF j <= m THEN Invalid ELSE v

Trailed(list, m, v) ==
  [j \in 1 .. (IF v \in Sector /\ m < Len(list) THEN Len(list) - m ELSE 0) |-> v]

LEMMA InImageSame ==
  ASSUME NEW list \in Seq(Slot), NEW m \in Nat, NEW v \in Slot, Trailing(list, m, v)
  PROVE  InImage(list) = Trailed(list, m, v)
<1> USE DEF Trailing, Trailed
<1> DEFINE count(i) == IF v \in Sector /\ m < i THEN i - m ELSE 0
           same(n) == [j \in 1 .. n |-> v]
           h == [i \in 0 .. Len(list) |-> same(count(i))]
           more(i) == IF list[i] \in Sector THEN <<list[i]>> ELSE <<>>
<1>1. Len(list) \in Nat /\ Invalid \notin Sector
  BY SectorMapAssumption DEF Sector, Invalid, CounterSpan
<1>2. \A n \in Nat : same(n) \in Seq({v}) /\ Len(same(n)) = n
  OBVIOUS
<1>3. ASSUME NEW i \in 1 .. Len(list)
      PROVE  same(count(i)) = same(count(i - 1)) \o more(i)
  <2>1. CASE v \in Sector /\ m < i
    <3>1. count(i) = i - m /\ count(i - 1) = i - m - 1 /\ i - m - 1 \in Nat
      BY <1>1, <2>1
    <3>2. more(i) = <<v>>
      BY <1>1, <2>1
    <3>3. same(i - m) = same(i - m - 1) \o <<v>>
      BY <3>1
    <3> QED BY <3>1, <3>2, <3>3
  <2>2. CASE ~(v \in Sector /\ m < i)
    <3>1. count(i) = 0 /\ count(i - 1) = 0
      BY <1>1, <2>2
    <3>2. more(i) = <<>>
      BY <1>1, <2>2
    <3> QED BY <3>1, <3>2
  <2> QED BY <2>1, <2>2
<1>4. same(count(0)) = <<>>
  OBVIOUS
<1>5. Keeps(list, Len(list), h)
  <2>1. ASSUME NEW i \in 0 .. Len(list)
        PROVE  h[i] = IF i = 0 THEN <<>> ELSE h[i - 1] \o more(i)
    <3> HIDE DEF same, count, more
    <3> QED BY <1>1, <1>3, <1>4
  <2>2. h = [i \in 0 .. Len(list) |-> h[i]]
    OBVIOUS
  <2> HIDE DEF h
  <2> QED BY <2>1, <2>2 DEF Keeps
<1>6. InImage(list) = h[Len(list)]
  <2> HIDE DEF h
  <2> QED BY <1>5, InImageIs
<1>7. h[Len(list)] = same(count(Len(list)))
  BY <1>1
<1> QED BY <1>6, <1>7

-----------------------------------------------------------------------------
(***************************************************************************)
(* Lists one behind the other.                                             *)
(***************************************************************************)

Joins(lists, n, g) ==
  g = [i \in 1 .. n |-> IF i = 1 THEN lists[i] ELSE g[i - 1] \o lists[i]]

LEMMA JoinsExists ==
  ASSUME NEW N \in Nat \ {0}, NEW lists
  PROVE  \E g : Joins(lists, N, g)
<1> DEFINE Solves(g, n) == Joins(lists, n, g)
           Good == {n \in Nat : \E g : Solves(g, n)}
<1>1. 1 \in Good
  <2> DEFINE g == [k \in 1 .. 1 |-> lists[1]]
  <2>1. Solves(g, 1)
    BY DEF Joins
  <2> QED BY <2>1
<1>2. ASSUME NEW n \in 1 + 1 .. N, n - 1 \in Good PROVE n \in Good
  <2>1. PICK g : Solves(g, n - 1)
    BY <1>2
  <2> DEFINE on(x, k) == x \o lists[k]
             h == [k \in 1 .. n |-> IF k = n THEN on(g[n - 1], n) ELSE g[k]]
  <2>2. \A k \in 1 .. n - 1 : g[k] = IF k = 1 THEN lists[k] ELSE on(g[k - 1], k)
    BY <2>1 DEF Joins
  <2> HIDE DEF on
  <2>3. \A k \in 1 .. n : h[k] = IF k = 1 THEN lists[k] ELSE on(h[k - 1], k)
    <3> SUFFICES ASSUME NEW k \in 1 .. n
                 PROVE  h[k] = IF k = 1 THEN lists[k] ELSE on(h[k - 1], k)
      OBVIOUS
    <3>1. k # 1 => k - 1 \in 1 .. n - 1 /\ h[k - 1] = g[k - 1]
      OBVIOUS
    <3>2. k # n => h[k] = g[k] /\ k \in 1 .. n - 1
      OBVIOUS
    <3>3. h[n] = on(g[n - 1], n) /\ n # 1
      OBVIOUS
    <3>4. CASE k = n
      <4>1. h[n - 1] = g[n - 1]
        BY <3>3
      <4> QED BY <3>3, <3>4, <4>1
    <3>5. CASE k # n
      <4> HIDE DEF h
      <4>1. h[k] = IF k = 1 THEN lists[k] ELSE on(g[k - 1], k)
        BY <2>2, <3>2, <3>5
      <4> QED BY <3>1, <4>1
    <3> QED BY <3>4, <3>5
  <2>4. Solves(h, n)
    <3> HIDE DEF h
    <3>1. h = [k \in 1 .. n |-> h[k]]
      BY DEF h
    <3> QED BY <2>3, <3>1 DEF Joins, on
  <2> HIDE DEF h, Solves
  <2> QED BY <2>4
<1> HIDE DEF Good
<1>3. N \in Good
  BY <1>1, <1>2, Upwards
<1> QED BY <1>3 DEF Good

(* The first lists decide how the result begins.                           *)
Same(a, b, n) == \A k \in 1 .. n : a[k] = b[k]

LEMMA JoinsAgree ==
  ASSUME NEW a, NEW b, NEW i \in Nat \ {0}, NEW j \in Nat \ {0}, NEW g, NEW h,
         Joins(a, i, g), Joins(b, j, h),
         NEW n \in Nat \ {0}, n <= i, n <= j, Same(a, b, n)
  PROVE  g[n] = h[n]
<1> DEFINE Good == {k \in Nat : g[k] = h[k]}
<1>1. /\ \A k \in 1 .. i : g[k] = IF k = 1 THEN a[k] ELSE g[k - 1] \o a[k]
      /\ \A k \in 1 .. j : h[k] = IF k = 1 THEN b[k] ELSE h[k - 1] \o b[k]
  BY DEF Joins
<1>2. 1 \in Good
  BY <1>1 DEF Same
<1>3. ASSUME NEW k \in 1 + 1 .. n, k - 1 \in Good PROVE k \in Good
  <2>1. k \in 1 .. i /\ k \in 1 .. j /\ k # 1 /\ a[k] = b[k] /\ g[k - 1] = h[k - 1]
    BY <1>3 DEF Same
  <2>2. g[k] = g[k - 1] \o a[k] /\ h[k] = h[k - 1] \o b[k]
    BY <1>1, <2>1
  <2>3. g[k] = h[k] /\ k \in Nat
    BY <2>1, <2>2
  <2> QED BY <2>3
<1> HIDE DEF Good
<1>5. n \in 1 .. n
  OBVIOUS
<1>4. n \in Good
  BY <1>2, <1>3, <1>5, Upwards
<1> QED BY <1>4 DEF Good

LEMMA JoinsType ==
  ASSUME NEW S, NEW lists, NEW n \in Nat \ {0}, NEW g, Joins(lists, n, g),
         \A k \in 1 .. n : lists[k] \in Seq(S)
  PROVE  \A k \in 1 .. n : g[k] \in Seq(S)
<1> DEFINE Good == {k \in Nat : g[k] \in Seq(S)}
<1>1. \A k \in 1 .. n : g[k] = IF k = 1 THEN lists[k] ELSE g[k - 1] \o lists[k]
  BY DEF Joins
<1>2. 1 \in Good
  BY <1>1
<1>3. ASSUME NEW k \in 1 + 1 .. n, k - 1 \in Good PROVE k \in Good
  <2>1. k \in 1 .. n /\ k # 1 /\ g[k - 1] \in Seq(S)
    BY <1>3
  <2>2. g[k] = g[k - 1] \o lists[k] /\ lists[k] \in Seq(S)
    BY <1>1, <2>1
  <2>3. g[k] \in Seq(S)
    BY <2>1, <2>2, ConcatProperties
  <2> QED BY <2>1, <2>3
<1> HIDE DEF Good
<1>4. \A k \in 1 .. n : k \in Good
  BY <1>2, <1>3, Upwards
<1> QED BY <1>4 DEF Good

LEMMA FlattenIs ==
  ASSUME NEW n \in Nat \ {0}, NEW lists, Len(lists) = n, NEW g, Joins(lists, n, g)
  PROVE  FlattenSeq(lists) = g[n]
<1> DEFINE flat == CHOOSE h : Joins(lists, n, h)
<1>1. Joins(lists, n, flat)
  OBVIOUS
<1>2. FlattenSeq(lists) = flat[n]
  BY n # 0 DEF FlattenSeq, Joins
<1> HIDE DEF flat
<1>3. flat[n] = g[n]
  <2>1. n <= n /\ Same(lists, lists, n)
    BY DEF Same
  <2> QED BY <1>1, <2>1, JoinsAgree
<1> QED BY <1>2, <1>3

(* Lists that differ in the last one only.                                 *)
Alike(a, b, n, S) ==
  /\ Len(a) = n /\ Len(b) = n /\ b[n] \in Seq(S)
  /\ \A k \in 1 .. n : a[k] \in Seq(S)
  /\ \A k \in 1 .. n - 1 : a[k] = b[k]

BeginAlike(a, b, n, S) ==
  \E front \in Seq(S) : FlattenSeq(a) = front \o a[n] /\ FlattenSeq(b) = front \o b[n]

LEMMA FlattenLast ==
  ASSUME NEW S, NEW n \in Nat \ {0}, NEW a, NEW b, Alike(a, b, n, S)
  PROVE  BeginAlike(a, b, n, S)
<1>0. /\ Len(a) = n /\ Len(b) = n /\ b[n] \in Seq(S)
      /\ \A k \in 1 .. n : a[k] \in Seq(S)
      /\ \A k \in 1 .. n - 1 : a[k] = b[k]
  BY DEF Alike
<1>1. PICK g, h : Joins(a, n, g) /\ Joins(b, n, h)
  BY JoinsExists
<1>2. FlattenSeq(a) = g[n] /\ FlattenSeq(b) = h[n]
  BY <1>0, <1>1, FlattenIs
<1>3. /\ g[n] = IF n = 1 THEN a[n] ELSE g[n - 1] \o a[n]
      /\ h[n] = IF n = 1 THEN b[n] ELSE h[n - 1] \o b[n]
  <2>1. n \in 1 .. n
    OBVIOUS
  <2> QED BY <1>1, <2>1 DEF Joins
<1>4. CASE n = 1
  <2>1. FlattenSeq(a) = a[n] /\ FlattenSeq(b) = b[n] /\ a[n] \in Seq(S)
    BY <1>0, <1>2, <1>3, <1>4
  <2>2. a[n] = <<>> \o a[n] /\ b[n] = <<>> \o b[n] /\ <<>> \in Seq(S)
    BY <1>0, <2>1, ConcatEmptySeq
  <2> QED BY <2>1, <2>2 DEF BeginAlike
<1>5. CASE n # 1
  <2>1. n - 1 \in 1 .. n /\ n - 1 \in Nat \ {0} /\ n - 1 <= n
    BY <1>5
  <2>2. g[n - 1] = h[n - 1]
    <3>1. PICK m \in Nat \ {0} : m = n - 1
      BY <2>1
    <3>2. m <= n /\ Same(a, b, m)
      BY <1>0, <3>1 DEF Same
    <3>3. g[m] = h[m]
      BY <1>1, <3>2, JoinsAgree
    <3> QED BY <3>1, <3>3
  <2>3. g[n - 1] \in Seq(S)
    <3>1. \A k \in 1 .. n : a[k] \in Seq(S)
      BY <1>0
    <3>2. \A k \in 1 .. n : g[k] \in Seq(S)
      BY <1>1, <3>1, JoinsType
    <3> QED BY <2>1, <3>2
  <2>4. FlattenSeq(a) = g[n - 1] \o a[n] /\ FlattenSeq(b) = g[n - 1] \o b[n]
    BY <1>2, <1>3, <1>5, <2>2
  <2> QED BY <2>3, <2>4 DEF BeginAlike
<1> QED BY <1>4, <1>5

(* One list more.                                                          *)
OneMore(a, b, n) == Len(a) = n /\ Len(b) = n + 1 /\ \A k \in 1 .. n : a[k] = b[k]

OneJoins(a, b, n) == FlattenSeq(b) = FlattenSeq(a) \o b[n + 1]

LEMMA FlattenMore ==
  ASSUME NEW n \in Nat \ {0}, NEW a, NEW b, OneMore(a, b, n)
  PROVE  OneJoins(a, b, n)
<1>0. Len(a) = n /\ Len(b) = n + 1 /\ Same(a, b, n)
  BY DEF OneMore, Same
<1>1. PICK g, h : Joins(a, n, g) /\ Joins(b, n + 1, h)
  <2>1. n + 1 \in Nat \ {0}
    OBVIOUS
  <2> QED BY <2>1, JoinsExists
<1>2. FlattenSeq(a) = g[n] /\ FlattenSeq(b) = h[n + 1]
  <2>1. n + 1 \in Nat \ {0}
    OBVIOUS
  <2> QED BY <1>0, <1>1, <2>1, FlattenIs
<1>3. h[n + 1] = h[n] \o b[n + 1]
  <2>1. n + 1 \in 1 .. n + 1 /\ n + 1 # 1 /\ n + 1 - 1 = n
    OBVIOUS
  <2> DEFINE on(x, k) == x \o b[k]
  <2>2. \A k \in 1 .. n + 1 : h[k] = IF k = 1 THEN b[k] ELSE on(h[k - 1], k)
    BY <1>1 DEF Joins
  <2> HIDE DEF on
  <2>3. h[n + 1] = on(h[n], n + 1)
    BY <2>1, <2>2
  <2> QED BY <2>3 DEF on
<1>4. g[n] = h[n]
  <2>1. n + 1 \in Nat \ {0} /\ n <= n /\ n <= n + 1 /\ Same(a, b, n)
    BY <1>0
  <2> QED BY <1>1, <2>1, JoinsAgree
<1> QED BY <1>2, <1>3, <1>4 DEF OneJoins

-----------------------------------------------------------------------------
(***************************************************************************)
(* What the invariant says of one file.                                    *)
(***************************************************************************)

LEMMA Constants ==
  /\ NumSectors \in Nat \ {0} /\ NumSectors <= Invalid
  /\ Sector \subseteq Nat /\ Sector \subseteq Slot /\ Slot \subseteq Nat
  /\ Invalid \in Slot \ Sector /\ 0 \in Sector
  /\ Files \subseteq Sector
  /\ InodeMax \in Nat \ {0} /\ ContMax \in Nat /\ ContMax >= 2
  /\ PristineSlot \in Slot \ {Invalid}
<1>1. /\ NumSectors \in Nat \ {0} /\ NumSectors < CounterSpan
      /\ InodeMax \in Nat \ {0} /\ ContMax \in Nat /\ ContMax >= 2
      /\ Files \subseteq Sector /\ PristineSlot \in 0 .. Invalid - 1
  BY SectorMapAssumption, ContentListAssumption
<1>2. Invalid \in Nat /\ CounterSpan = Invalid + 1 /\ CounterSpan \in Nat
  BY DEF Invalid, CounterSpan
<1> HIDE DEF Invalid, CounterSpan
<1>3. NumSectors <= Invalid
  BY <1>1, <1>2
<1>4. Sector \subseteq Nat /\ Sector \subseteq Slot /\ Slot \subseteq Nat
  BY <1>1, <1>2, <1>3 DEF Sector, Slot
<1>5. Invalid \in Slot \ Sector /\ 0 \in Sector /\ PristineSlot \in Slot \ {Invalid}
  BY <1>1, <1>2, <1>3 DEF Sector, Slot
<1> QED BY <1>1, <1>3, <1>4, <1>5

LEMMA InjectiveShort ==
  ASSUME NEW p \in Seq(Sector), IsInjective(p)
  PROVE  Len(p) <= NumSectors
<1>1. p \in Injection(1 .. Len(p), Sector)
  BY DEF Injection, IsInjective
<1>2. /\ IsFiniteSet(Sector) /\ Cardinality(Sector) = NumSectors
      /\ Cardinality(1 .. Len(p)) = Len(p)
  <2>1. /\ 0 \in Int /\ NumSectors - 1 \in Int /\ ~(0 > NumSectors - 1)
        /\ (NumSectors - 1) - 0 + 1 = NumSectors
    BY Constants
  <2>2. Len(p) \in Int /\ 1 \in Int /\ (1 > Len(p) => Len(p) = 0)
        /\ Len(p) - 1 + 1 = Len(p)
    OBVIOUS
  <2>3. IsFiniteSet(Sector) /\ Cardinality(Sector) = NumSectors
    BY <2>1, FS_Interval DEF Sector
  <2>4. Cardinality(1 .. Len(p)) = Len(p)
    BY <2>2, FS_Interval
  <2> QED BY <2>3, <2>4
<1>3. Cardinality(1 .. Len(p)) <= Cardinality(Sector)
  BY <1>1, <1>2, FS_Injection
<1> QED BY <1>2, <1>3

LEMMA NodesAre ==
  ASSUME NEW links, NEW f, NEW p, Path(links, f, p), IsInjective(p)
  PROVE  Along(links, f) = p
<1>1. p \in Seq(Sector)
  BY DEF Path
<1>2. Len(p) <= NumSectors
  BY <1>1, InjectiveShort
<1> QED BY <1>2, AlongPath

LEMMA NodeList ==
  ASSUME TypeOK, NEW s \in Sector
  PROVE  /\ slots[s] \in Seq(Slot) /\ Len(slots[s]) \in Nat
         /\ EndSlot(s) \in 1 .. Len(slots[s]) + 1
         /\ Ends(slots[s], EndSlot(s))
         /\ Listed(s) \in Seq(Slot) /\ Len(Listed(s)) = EndSlot(s) - 1
         /\ \A i \in 1 .. EndSlot(s) - 1 : Listed(s)[i] = slots[s][i]
<1>1. slots[s] \in Seq(Slot)
  BY DEF TypeOK
<1>2. EndSlot(s) \in 1 .. Len(slots[s]) + 1 /\ Ends(slots[s], EndSlot(s))
  BY <1>1, EndOfType DEF EndSlot
<1>3. PICK n \in Nat : n = EndSlot(s) - 1 /\ n <= Len(slots[s])
  BY <1>1, <1>2
<1>4. /\ SubSeq(slots[s], 1, n) \in Seq(Slot) /\ Len(SubSeq(slots[s], 1, n)) = n
      /\ \A i \in 1 .. n : SubSeq(slots[s], 1, n)[i] = slots[s][i]
  BY <1>1, <1>3
<1> QED BY <1>1, <1>2, <1>3, <1>4 DEF Listed

LEMMA View ==
  ASSUME Inductive, NEW f \in Files
  PROVE  /\ f \in Sector
         /\ Nodes(f) \in Seq(Sector) /\ Len(Nodes(f)) \in Nat \ {0}
         /\ Nodes(f)[1] = f
         /\ LastNode(f) = Nodes(f)[Len(Nodes(f))]
         /\ LastNode(f) \in Sector /\ LastNode(f) \in ToSet(Nodes(f))
         /\ next[LastNode(f)] = Invalid
         /\ f \in ToSet(Nodes(f))
         /\ \A k \in 1 .. Len(Nodes(f)) : /\ Nodes(f)[k] \in Sector
                                          /\ Nodes(f)[k] \in ToSet(Nodes(f))
         /\ LastNode(f) = f <=> Len(Nodes(f)) = 1
         /\ \A k \in 2 .. Len(Nodes(f)) : Nodes(f)[k] \notin Files
<1>1. f \in Sector
  BY Constants
<1>2. Path(next, f, Nodes(f)) /\ IsInjective(Nodes(f))
  BY DEF Inductive, Whole, Threaded, Apart
<1>3. /\ Nodes(f) \in Seq(Sector) /\ Len(Nodes(f)) \in Nat \ {0}
      /\ Nodes(f)[1] = f
  BY <1>2 DEF Path
<1>4. \A k \in 1 .. Len(Nodes(f)) : /\ Nodes(f)[k] \in Sector
                                    /\ Nodes(f)[k] \in ToSet(Nodes(f))
  BY <1>3 DEF ToSet
<1>5. LastNode(f) = Nodes(f)[Len(Nodes(f))]
  BY DEF LastNode, Last
<1>6. next[LastNode(f)] = Invalid
  BY <1>2, <1>3, <1>5 DEF Path
<1>7. LastNode(f) = f <=> Len(Nodes(f)) = 1
  <2>1. 1 \in DOMAIN Nodes(f) /\ Len(Nodes(f)) \in DOMAIN Nodes(f)
    BY <1>3
  <2> QED BY <1>2, <1>3, <1>5, <2>1 DEF IsInjective
<1>8. ASSUME NEW k \in 2 .. Len(Nodes(f)) PROVE Nodes(f)[k] \notin Files
  <2>1. 1 \in DOMAIN Nodes(f) /\ k \in DOMAIN Nodes(f) /\ k # 1
    BY <1>3
  <2>2. Nodes(f)[k] # f
    BY <1>2, <1>3, <2>1 DEF IsInjective
  <2>3. ASSUME NEW g \in Files, g # f PROVE Nodes(f)[k] # g
    <3>1. Nodes(g)[1] = g /\ 1 \in DOMAIN Nodes(g)
      <4>1. Path(next, g, Nodes(g))
        BY DEF Inductive, Whole, Threaded
      <4> QED BY <4>1 DEF Path
    <3>2. g \in Held(g) /\ Nodes(f)[k] \in Held(f)
      BY <2>1, <3>1 DEF Held, ToSet
    <3> QED BY <2>3, <3>2 DEF Inductive
  <2> QED BY <2>2, <2>3
<1>9. 1 \in 1 .. Len(Nodes(f)) /\ Len(Nodes(f)) \in 1 .. Len(Nodes(f))
  BY <1>3
<1> QED BY <1>1, <1>3, <1>4, <1>5, <1>6, <1>7, <1>8, <1>9

-----------------------------------------------------------------------------
(***************************************************************************)
(* A file by its nodes p and its sectors d, for any values of the          *)
(* variables: before a step and after it.                                  *)
(***************************************************************************)

ListOf(list) == SubSeq(list, 1, EndOf(list) - 1)

Lists(sl, p) == [k \in 1 .. Len(p) |-> ListOf(sl[p[k]])]

Tied(nx, pv, fr, f, p) ==
  /\ Path(nx, f, p) /\ IsInjective(p)
  /\ pv[f] = Invalid /\ fr[f] = 0
  /\ \A k \in 2 .. Len(p) : pv[p[k]] = p[k - 1] /\ fr[p[k]] = k - 1

Fills(sl, p) ==
  \A k \in 1 .. Len(p) : /\ ListOf(sl[p[k]]) \in Seq(Sector)
                         /\ k < Len(p) => ~(EndOf(sl[p[k]]) <= Len(sl[p[k]]))

Ending(sl, em, f, p) ==
  /\ Len(p) > 1 => (EndOf(sl[p[Len(p)]]) = 1 <=> f \in em)
  /\ f \in em => Len(p) > 1

Bears(sl, p, d) ==
  /\ d = FlattenSeq(Lists(sl, p)) /\ d \in Seq(Sector) /\ IsInjective(d)
  /\ Len(d) = Before(Len(p)) + EndOf(sl[p[Len(p)]]) - 1

(* What lies behind the marker of a list.                                  *)
Rest(list, m, v) ==
  \A j \in EndOf(list) + 1 .. Len(list) : list[j] = IF j <= m THEN Invalid ELSE v

Left(sl, f, p) ==
  \E m \in Nat, v \in Slot :
    (p[Len(p)] = f => v = Invalid) /\ Rest(sl[p[Len(p)]], m, v)

Members(p, d) == ToSet(p) \cup ToSet(d)

Owns(us, p, d) == ToSet(p) \cap ToSet(d) = {} /\ Members(p, d) \subseteq us

Ordered(fr, d) == \A k \in 1 .. Len(d) : fr[d[k]] = k - 1

Fit(sl, nx, pv, fr, us, em, f, p, d) ==
  /\ Tied(nx, pv, fr, f, p) /\ Fills(sl, p) /\ Ending(sl, em, f, p)
  /\ Bears(sl, p, d) /\ Left(sl, f, p) /\ Owns(us, p, d) /\ Ordered(fr, d)

LEMMA FitNow ==
  ASSUME NEW f \in Files, Whole(f)
  PROVE  Fit(slots, next, prev, fragment, used, emptied, f, Nodes(f), DataOf(f))
<1> DEFINE p == Nodes(f)
           d == DataOf(f)
<1>1. Path(next, f, p) /\ IsInjective(p) /\ IsInjective(d)
  BY DEF Whole, Threaded, Apart
<1>2. Tied(next, prev, fragment, f, p)
  BY <1>1 DEF Whole, Threaded, Tied
<1>3. Fills(slots, p)
  BY DEF Whole, Filled, Fills, Listed, ListOf, HasSlot, EndSlot
<1>4. Ending(slots, emptied, f, p)
  BY DEF Whole, Filled, Ending, EndSlot, Last
<1>5. Bears(slots, p, d)
  <2>1. d = FlattenSeq(Lists(slots, p))
    BY DEF DataOf, Lists, Listed, ListOf, EndSlot
  <2> QED BY <1>1, <2>1 DEF Bears, Whole, Counted, EndSlot, LastNode, Last
<1>6. Left(slots, f, p)
  BY DEF Whole, Behind, Left, Rest, EndSlot, LastNode, Last
<1>7. Owns(used, p, d)
  BY DEF Whole, Apart, Owns, Members
<1>8. Ordered(fragment, d)
  BY DEF Whole, Numbers, Ordered
<1> QED BY <1>2, <1>3, <1>4, <1>5, <1>6, <1>7, <1>8 DEF Fit

LEMMA FitNext ==
  ASSUME NEW f \in Files, NEW p, NEW d,
         Fit(slots', next', prev', fragment', used', emptied', f, p, d)
  PROVE  Nodes(f)' = p /\ DataOf(f)' = d /\ Whole(f)'
<1>1. Path(next', f, p) /\ IsInjective(p)
  BY DEF Fit, Tied
<1>2. Nodes(f)' = p
  BY <1>1, NodesAre DEF Nodes
<1>3. DataOf(f)' = FlattenSeq(Lists(slots', Nodes(f)'))
  BY DEF DataOf, Lists, Listed, ListOf, EndSlot
<1>4. DataOf(f)' = d
  BY <1>2, <1>3 DEF Fit, Bears
<1>5. Threaded(f)'
  BY <1>1, <1>2 DEF Fit, Threaded, Tied
<1>6. Filled(f)'
  BY <1>2 DEF Fit, Filled, Fills, Ending, Listed, ListOf, HasSlot, EndSlot, Last
<1>7. Counted(f)'
  BY <1>2, <1>4 DEF Fit, Bears, Counted, EndSlot, LastNode, Last
<1>8. Behind(f)'
  BY <1>2 DEF Fit, Left, Rest, Behind, EndSlot, LastNode, Last
<1>9. Apart(f)'
  BY <1>1, <1>2, <1>4 DEF Fit, Bears, Owns, Members, Apart
<1>10. Numbers(f)'
  BY <1>4 DEF Fit, Ordered, Numbers
<1> QED BY <1>2, <1>4, <1>5, <1>6, <1>7, <1>8, <1>9, <1>10 DEF Whole

(* Nothing of the file is touched.                                         *)
LEMMA FitSame ==
  ASSUME NEW sl, NEW nx, NEW pv, NEW fr, NEW us, NEW em,
         NEW sk, NEW ny, NEW pw, NEW fs, NEW ut, NEW en,
         NEW f \in Files, NEW p, NEW d, Fit(sl, nx, pv, fr, us, em, f, p, d),
         \A s \in Members(p, d) : /\ sk[s] = sl[s] /\ ny[s] = nx[s]
                                  /\ pw[s] = pv[s] /\ fs[s] = fr[s],
         Members(p, d) \subseteq ut, f \in em <=> f \in en
  PROVE  Fit(sk, ny, pw, fs, ut, en, f, p, d)
<1>1. /\ p \in Seq(Sector) /\ d \in Seq(Sector) /\ Len(p) \in Nat \ {0} /\ p[1] = f
      /\ Len(d) \in Nat
  BY DEF Fit, Tied, Path, Bears
<1>2. \A k \in 1 .. Len(p) : p[k] \in Members(p, d)
  BY <1>1 DEF Members, ToSet
<1>3. \A k \in 1 .. Len(d) : d[k] \in Members(p, d)
  BY <1>1 DEF Members, ToSet
<1>4. Len(p) \in 1 .. Len(p) /\ f \in Members(p, d)
  BY <1>1, <1>2
<1>5. Tied(ny, pw, fs, f, p)
  <2>1. Tied(nx, pv, fr, f, p)
    BY DEF Fit
  <2>2. \A k \in 1 .. Len(p) : ny[p[k]] = nx[p[k]]
    BY <1>2
  <2>3. Path(ny, f, p)
    BY <2>1, <2>2 DEF Tied, Path
  <2>4. pw[f] = pv[f] /\ fs[f] = fr[f]
    BY <1>4
  <2>5. ASSUME NEW k \in 2 .. Len(p) PROVE pw[p[k]] = p[k - 1] /\ fs[p[k]] = k - 1
    <3>1. k \in 1 .. Len(p)
      BY <1>1
    <3>2. pw[p[k]] = pv[p[k]] /\ fs[p[k]] = fr[p[k]]
      BY <1>2, <3>1
    <3> QED BY <2>1, <3>2 DEF Tied
  <2> QED BY <2>1, <2>3, <2>4, <2>5 DEF Tied
<1>6. Fills(sk, p) /\ Ending(sk, en, f, p) /\ Left(sk, f, p)
  BY <1>1, <1>2, <1>4 DEF Fit, Fills, Ending, Left
<1>7. Lists(sk, p) = Lists(sl, p)
  BY <1>2 DEF Lists
<1>8. Bears(sk, p, d)
  BY <1>2, <1>4, <1>7 DEF Fit, Bears
<1>9. Owns(ut, p, d) /\ Ordered(fs, d)
  BY <1>3 DEF Fit, Owns, Ordered
<1> QED BY <1>5, <1>6, <1>8, <1>9 DEF Fit

-----------------------------------------------------------------------------
(***************************************************************************)
(* Slots written and cleared.                                              *)
(***************************************************************************)

LEMMA ListOfIs ==
  ASSUME NEW list \in Seq(Slot)
  PROVE  /\ EndOf(list) \in 1 .. Len(list) + 1
         /\ ListOf(list) \in Seq(Slot) /\ Len(ListOf(list)) = EndOf(list) - 1
         /\ \A i \in 1 .. EndOf(list) - 1 : /\ ListOf(list)[i] = list[i]
                                            /\ list[i] # Invalid
         /\ EndOf(list) <= Len(list) => list[EndOf(list)] = Invalid
<1>1. EndOf(list) \in 1 .. Len(list) + 1 /\ Ends(list, EndOf(list))
  BY EndOfType
<1>2. PICK n \in Nat : n = EndOf(list) - 1 /\ n <= Len(list)
  BY <1>1
<1>3. /\ SubSeq(list, 1, n) \in Seq(Slot) /\ Len(SubSeq(list, 1, n)) = n
      /\ \A i \in 1 .. n : SubSeq(list, 1, n)[i] = list[i]
  BY <1>2
<1> QED BY <1>1, <1>2, <1>3 DEF ListOf, Ends

(* A list up to its end marker, as a sequence known by its elements.       *)
LEMMA ListOfUpTo ==
  ASSUME NEW list \in Seq(Slot), NEW q \in Seq(Slot), Len(q) <= Len(list),
         \A i \in 1 .. Len(q) : list[i] = q[i] /\ q[i] # Invalid,
         Len(q) < Len(list) => list[Len(q) + 1] = Invalid
  PROVE  EndOf(list) = Len(q) + 1 /\ ListOf(list) = q
<1>1. PICK n \in Nat : n = Len(q)
  OBVIOUS
<1>2. n + 1 \in 1 .. Len(list) + 1 /\ Ends(list, n + 1)
  BY <1>1 DEF Ends
<1>3. EndOf(list) = n + 1
  BY <1>2, EndOfIs
<1>4. n + 1 - 1 = n
  OBVIOUS
<1>5. ListOf(list) = SubSeq(list, 1, n)
  BY <1>3, <1>4 DEF ListOf
<1>6. SubSeq(list, 1, n) = q
  BY <1>1
<1> QED BY <1>1, <1>3, <1>5, <1>6

LEMMA ListingIs ==
  ASSUME NEW list \in Seq(Slot), NEW i \in 1 .. Len(list), NEW s \in Slot \ {Invalid},
         NEW q \in Seq(Slot), Len(q) = i - 1,
         \A j \in 1 .. i - 1 : list[j] = q[j] /\ q[j] # Invalid
  PROVE  /\ Listing(list, i, s) \in Seq(Slot)
         /\ Len(Listing(list, i, s)) = Len(list)
         /\ EndOf(Listing(list, i, s)) = i + 1
         /\ ListOf(Listing(list, i, s)) = Append(q, s)
         /\ \A j \in i + 2 .. Len(list) : Listing(list, i, s)[j] = list[j]
<1> DEFINE new == Listing(list, i, s)
<1>0. Invalid \in Slot /\ Len(list) \in Nat /\ i \in Nat
  BY Constants
<1>1. \A j \in 1 .. Len(list) :
        new[j] = IF j = i THEN s ELSE IF j = i + 1 THEN Invalid ELSE list[j]
  BY DEF Listing
<1>2. new \in Seq(Slot) /\ Len(new) = Len(list)
  BY <1>0 DEF Listing
<1> HIDE DEF new
<1>3. /\ Append(q, s) \in Seq(Slot) /\ Len(Append(q, s)) = i
      /\ Append(q, s)[i] = s
      /\ \A j \in 1 .. i - 1 : Append(q, s)[j] = q[j]
  BY <1>0
<1>4. \A j \in 1 .. i : new[j] = Append(q, s)[j] /\ Append(q, s)[j] # Invalid
  BY <1>0, <1>1, <1>3
<1>5. i < Len(list) => new[i + 1] = Invalid
  BY <1>0, <1>1
<1>6. EndOf(new) = i + 1 /\ ListOf(new) = Append(q, s)
  <2>1. PICK a \in Seq(Slot) : a = Append(q, s)
    BY <1>3
  <2>2. Len(a) = i /\ i <= Len(list)
    BY <1>3, <2>1
  <2>3. \A j \in 1 .. Len(a) : new[j] = a[j] /\ a[j] # Invalid
    BY <1>4, <2>1, <2>2
  <2>4. Len(a) < Len(new) => new[Len(a) + 1] = Invalid
    BY <1>2, <1>5, <2>2
  <2>5. EndOf(new) = Len(a) + 1 /\ ListOf(new) = a
    BY <1>2, <2>2, <2>3, <2>4, ListOfUpTo
  <2> QED BY <2>1, <2>2, <2>5
<1>7. \A j \in i + 2 .. Len(list) : new[j] = list[j]
  BY <1>0, <1>1
<1> QED BY <1>2, <1>6, <1>7 DEF new

(* Slot i with x in it is the one in front of the end.                     *)
LastSlot(list, i, x) == EndOf(list) = i + 1 /\ x = list[i]

Clears(list, i, new) == new = [list EXCEPT ![i] = Invalid]

Trimmed(list, i, x, new) ==
  /\ i \in 1 .. Len(list)
  /\ new \in Seq(Slot) /\ Len(new) = Len(list) /\ EndOf(new) = i
  /\ ListOf(list) = Append(ListOf(new), x)
  /\ \A j \in i + 1 .. Len(list) : new[j] = list[j]

LEMMA TrimIs ==
  ASSUME NEW list \in Seq(Slot), NEW i \in Nat \ {0}, NEW x, LastSlot(list, i, x),
         NEW new, Clears(list, i, new)
  PROVE  Trimmed(list, i, x, new)
<1>0. Invalid \in Slot /\ Len(list) \in Nat
  BY Constants
<1>1. /\ i \in 1 .. Len(list) /\ x = list[i]
      /\ ListOf(list) \in Seq(Slot) /\ Len(ListOf(list)) = i
      /\ \A j \in 1 .. i : ListOf(list)[j] = list[j] /\ list[j] # Invalid
  <2>1. EndOf(list) - 1 = i /\ EndOf(list) = i + 1 /\ x = list[i]
    BY DEF LastSlot
  <2>2. /\ EndOf(list) \in 1 .. Len(list) + 1
        /\ ListOf(list) \in Seq(Slot) /\ Len(ListOf(list)) = i
        /\ \A j \in 1 .. i : ListOf(list)[j] = list[j] /\ list[j] # Invalid
    BY <2>1, ListOfIs
  <2> QED BY <1>0, <2>1, <2>2
<1>2. new \in Seq(Slot)
  BY <1>0, <1>1 DEF Clears
<1>3. /\ Len(new) = Len(list) /\ new[i] = Invalid
      /\ \A j \in 1 .. Len(list) : j # i => new[j] = list[j]
  BY <1>0, <1>1, <1>2 DEF Clears
<1>4. PICK q \in Seq(Slot) :
        Len(q) = i - 1 /\ \A j \in 1 .. i - 1 : q[j] = list[j]
  <2>1. PICK n \in Nat : n = i - 1 /\ n <= Len(list)
    BY <1>0, <1>1
  <2>2. /\ SubSeq(list, 1, n) \in Seq(Slot) /\ Len(SubSeq(list, 1, n)) = n
        /\ \A j \in 1 .. n : SubSeq(list, 1, n)[j] = list[j]
    BY <1>0, <2>1
  <2> QED BY <2>1, <2>2
<1>5. \A j \in 1 .. i - 1 : new[j] = q[j] /\ q[j] # Invalid
  <2>1. ASSUME NEW j \in 1 .. i - 1 PROVE new[j] = q[j] /\ q[j] # Invalid
    <3>1. j \in 1 .. i /\ j \in 1 .. Len(list) /\ j # i
      BY <1>1
    <3> QED BY <1>1, <1>3, <1>4, <3>1
  <2> QED BY <2>1
<1>6. EndOf(new) = i /\ ListOf(new) = q
  <2>1. Len(q) <= Len(new) /\ Len(q) + 1 = i
    BY <1>0, <1>1, <1>3, <1>4
  <2>2. \A j \in 1 .. Len(q) : new[j] = q[j] /\ q[j] # Invalid
    BY <1>4, <1>5
  <2>3. Len(q) < Len(new) => new[Len(q) + 1] = Invalid
    BY <1>3, <2>1
  <2>4. EndOf(new) = Len(q) + 1 /\ ListOf(new) = q
    BY <1>2, <2>1, <2>2, <2>3, ListOfUpTo
  <2> QED BY <2>1, <2>4
<1>7. ListOf(list) = Append(q, x)
  <2>1. x \in Slot
    BY <1>1
  <2>2. /\ Append(q, x) \in Seq(Slot) /\ Len(Append(q, x)) = i
        /\ Append(q, x)[i] = x
        /\ \A j \in 1 .. i - 1 : Append(q, x)[j] = q[j]
    <3>1. Len(q) + 1 = i
      BY <1>4
    <3>2. /\ Append(q, x) \in Seq(Slot) /\ Len(Append(q, x)) = Len(q) + 1
          /\ Append(q, x)[Len(q) + 1] = x
          /\ \A j \in 1 .. Len(q) : Append(q, x)[j] = q[j]
      BY <2>1, AppendProperties
    <3>3. \A j \in 1 .. i - 1 : j \in 1 .. Len(q)
      BY <1>4
    <3>4. Len(Append(q, x)) = i /\ Append(q, x)[i] = x
      BY <3>1, <3>2
    <3> QED BY <3>2, <3>3, <3>4
  <2>3. \A j \in 1 .. i : Append(q, x)[j] = ListOf(list)[j]
    BY <1>1, <1>4, <2>2
  <2> QED BY <1>1, <2>2, <2>3, SeqEqual
<1>8. \A j \in i + 1 .. Len(list) : new[j] = list[j]
  <2>1. ASSUME NEW j \in i + 1 .. Len(list) PROVE j \in 1 .. Len(list) /\ j # i
    BY <1>0
  <2> QED BY <1>3, <2>1
<1> QED BY <1>1, <1>2, <1>3, <1>6, <1>7, <1>8 DEF Trimmed

LEMMA SectorsAppend ==
  ASSUME NEW a \in Seq(Sector), NEW b \in Seq(Sector), NEW s \in Sector
  PROVE  a \o Append(b, s) = Append(a \o b, s)
OBVIOUS

LEMMA BeforeIs ==
  ASSUME NEW n \in Nat \ {0}
  PROVE  /\ Before(n) \in Nat
         /\ n = 1 => Before(n) = 0 /\ Before(n + 1) = Before(n) + InodeMax
         /\ n # 1 => Before(n + 1) = Before(n) + ContMax
<1>1. CASE n = 1
  <2>1. Before(1) = 0 /\ Before(2) = InodeMax + ContMax * 0
    BY DEF Before
  <2> QED BY <1>1, <2>1, Constants
<1>2. CASE n # 1
  <2>1. PICK m \in Nat : n = m + 2
    <3>1. n - 2 \in Nat /\ n = (n - 2) + 2
      BY <1>2
    <3> QED BY <3>1
  <2>2. Before(n) = InodeMax + ContMax * m /\ Before(n + 1) = InodeMax + ContMax * (m + 1)
    <3>1. n # 1 /\ n + 1 # 1 /\ n - 2 = m /\ n + 1 - 2 = m + 1
      BY <1>2, <2>1
    <3> QED BY <3>1 DEF Before
  <2>3. ContMax * (m + 1) = ContMax * m + ContMax /\ ContMax * m \in Nat
    BY Constants
  <2> QED BY <1>2, <2>2, <2>3, Constants
<1> QED BY <1>1, <1>2

(* The first slot of a new content inode.                                  *)
LEMMA ListingFirst ==
  ASSUME NEW list \in Seq(Slot), Len(list) # 0, NEW s \in Sector
  PROVE  /\ Listing(list, 1, s) \in Seq(Slot)
         /\ Len(Listing(list, 1, s)) = Len(list)
         /\ EndOf(Listing(list, 1, s)) = 2
         /\ ListOf(Listing(list, 1, s)) = <<s>>
         /\ \A j \in 3 .. Len(list) : Listing(list, 1, s)[j] = list[j]
<1>1. PICK q \in Seq(Slot) : q = <<>>
  <2>1. <<>> \in Seq(Slot)
    OBVIOUS
  <2> QED BY <2>1
<1>2. PICK i \in Nat : i = 1
  OBVIOUS
<1>3. /\ i \in 1 .. Len(list) /\ Len(q) = i - 1 /\ s \in Slot \ {Invalid}
      /\ \A j \in 1 .. i - 1 : list[j] = q[j] /\ q[j] # Invalid
  BY <1>1, <1>2, Constants
<1>4. /\ Listing(list, i, s) \in Seq(Slot)
      /\ Len(Listing(list, i, s)) = Len(list)
      /\ EndOf(Listing(list, i, s)) = i + 1
      /\ ListOf(Listing(list, i, s)) = Append(q, s)
      /\ \A j \in i + 2 .. Len(list) : Listing(list, i, s)[j] = list[j]
  BY <1>3, ListingIs
<1>5. Append(q, s) = <<s>>
  BY <1>1
<1>6. i + 1 = 2 /\ i + 2 = 3
  BY <1>2
<1> QED BY <1>2, <1>4, <1>5, <1>6

Shape(sl, f, p, d) ==
  /\ p \in Seq(Sector) /\ Len(p) \in Nat \ {0} /\ p[1] = f
  /\ d \in Seq(Sector) /\ Len(d) \in Nat
  /\ p[Len(p)] \in ToSet(p) /\ f \in ToSet(p)
  /\ \A k \in 1 .. Len(p) : /\ p[k] \in Sector /\ p[k] \in ToSet(p)
                            /\ p[k] \in Members(p, d) /\ p[k] \notin ToSet(d)
                            /\ sl[p[k]] \in Seq(Slot)
  /\ \A k \in 1 .. Len(d) : /\ d[k] \in Sector /\ d[k] \in ToSet(d)
                            /\ d[k] \in Members(p, d) /\ d[k] \notin ToSet(p)
  /\ \A j, k \in 1 .. Len(p) : p[j] = p[k] => j = k
  /\ Len(Lists(sl, p)) = Len(p)
  /\ \A k \in 1 .. Len(p) : /\ Lists(sl, p)[k] = ListOf(sl[p[k]])
                            /\ Lists(sl, p)[k] \in Seq(Sector)

LEMMA FitView ==
  ASSUME NEW sl \in [Sector -> Seq(Slot)], NEW nx, NEW pv, NEW fr, NEW us, NEW em,
         NEW f \in Files, NEW p, NEW d, Fit(sl, nx, pv, fr, us, em, f, p, d)
  PROVE  Shape(sl, f, p, d)
<1>1. p \in Seq(Sector) /\ Len(p) \in Nat \ {0} /\ p[1] = f
  BY DEF Fit, Tied, Path
<1>2. d \in Seq(Sector) /\ Len(d) \in Nat
  BY DEF Fit, Bears
<1>3. 1 \in 1 .. Len(p) /\ Len(p) \in 1 .. Len(p)
  BY <1>1
<1>4. ToSet(p) \cap ToSet(d) = {}
  BY DEF Fit, Owns
<1>5. \A k \in 1 .. Len(p) : p[k] \in Sector /\ p[k] \in ToSet(p)
  BY <1>1 DEF ToSet
<1>6. \A k \in 1 .. Len(d) : d[k] \in Sector /\ d[k] \in ToSet(d)
  BY <1>2 DEF ToSet
<1>7. \A j, k \in 1 .. Len(p) : p[j] = p[k] => j = k
  BY <1>1 DEF Fit, Tied, IsInjective
<1>8. /\ Len(Lists(sl, p)) = Len(p)
      /\ \A k \in 1 .. Len(p) : Lists(sl, p)[k] = ListOf(sl[p[k]])
  BY <1>1 DEF Lists
<1>9. \A k \in 1 .. Len(p) : ListOf(sl[p[k]]) \in Seq(Sector)
  BY DEF Fit, Fills
<1> QED BY <1>1, <1>2, <1>3, <1>4, <1>5, <1>6, <1>7, <1>8, <1>9 DEF Members, Shape

LEMMA AppendSet ==
  ASSUME NEW q \in Seq(Sector), NEW s \in Sector
  PROVE  /\ Append(q, s) \in Seq(Sector) /\ Len(Append(q, s)) = Len(q) + 1
         /\ Append(q, s)[Len(q) + 1] = s
         /\ \A k \in 1 .. Len(q) : Append(q, s)[k] = q[k]
         /\ ToSet(Append(q, s)) = ToSet(q) \cup {s}
         /\ IsInjective(q) /\ s \notin ToSet(q) => IsInjective(Append(q, s))
<1>1. PICK r \in Seq(Sector) : r = Append(q, s)
  BY AppendProperties
<1>2. /\ Len(r) = Len(q) + 1 /\ r[Len(q) + 1] = s /\ Len(q) \in Nat
      /\ \A k \in 1 .. Len(q) : r[k] = q[k]
  BY <1>1
<1>3. DOMAIN q = 1 .. Len(q) /\ DOMAIN r = 1 .. Len(q) + 1
  BY <1>2
<1>4. ToSet(r) = ToSet(q) \cup {s}
  BY <1>2 DEF ToSet
<1>5. ASSUME IsInjective(q), s \notin ToSet(q) PROVE IsInjective(r)
  <2>1. \A k \in 1 .. Len(q) : q[k] # s
    BY <1>5 DEF ToSet
  <2>2. ASSUME NEW j \in 1 .. Len(q) + 1, NEW k \in 1 .. Len(q) + 1, r[j] = r[k]
        PROVE  j = k
    BY <1>2, <1>3, <1>5, <2>1, <2>2 DEF IsInjective
  <2> QED BY <1>3, <2>2 DEF IsInjective
<1> QED BY <1>1, <1>2, <1>4, <1>5

(* The last list, of sector q, takes sector s.                             *)
Extends(sl, fr, us, sk, fs, ut, q, d, s) ==
  /\ EndOf(sl[q]) <= Len(sl[q])
  /\ sk[q] = Listing(sl[q], EndOf(sl[q]), s)
  /\ \A t \in Sector : t # q => sk[t] = sl[t]
  /\ \A t \in Sector : t # s => fs[t] = fr[t]
  /\ fs[s] = Len(d)
  /\ us \cup {s} \subseteq ut

(* ccos_add_sector_to_file where the last list has a slot left.            *)
LEMMA FitExtend ==
  ASSUME NEW sl \in [Sector -> Seq(Slot)], NEW nx, NEW pv, NEW fr, NEW us, NEW em,
         NEW f \in Files, NEW p, NEW d, Fit(sl, nx, pv, fr, us, em, f, p, d),
         f \notin em, NEW sk, NEW fs, NEW ut, NEW s \in Sector \ us,
         Extends(sl, fr, us, sk, fs, ut, p[Len(p)], d, s)
  PROVE  Fit(sk, nx, pv, fs, ut, em, f, p, Append(d, s))
<1> USE DEF Extends
<1>0. Shape(sl, f, p, d)
  BY FitView
<1>20. PICK n \in Nat \ {0} : n = Len(p) /\ n \in 1 .. Len(p)
  BY <1>0 DEF Shape
<1>21. PICK q \in Sector : q = p[n]
  BY <1>0, <1>20 DEF Shape
<1>1. n = Len(p) /\ q = p[n] /\ q = p[Len(p)] /\ n \in 1 .. Len(p)
  BY <1>20, <1>21
<1>22. PICK list \in Seq(Slot) : list = sl[q]
  <2>1. sl[q] \in Seq(Slot)
    OBVIOUS
  <2> QED BY <2>1
<1>23. PICK e \in Nat \ {0} : e = EndOf(list)
  <2>1. EndOf(list) \in 1 .. Len(list) + 1 /\ Len(list) \in Nat
    BY ListOfIs
  <2>2. EndOf(list) \in Nat \ {0}
    BY <2>1
  <2> QED BY <2>2
<1>2. list = sl[q] /\ e = EndOf(list)
  BY <1>22, <1>23
<1>3. e \in 1 .. Len(list) /\ s \in Slot \ {Invalid}
  BY <1>1, <1>2, Constants
<1>4. /\ sk[q] \in Seq(Slot) /\ Len(sk[q]) = Len(list)
      /\ EndOf(sk[q]) = e + 1 /\ ListOf(sk[q]) = Append(ListOf(list), s)
      /\ \A j \in e + 2 .. Len(list) : sk[q][j] = list[j]
  <2>1. /\ ListOf(list) \in Seq(Slot) /\ Len(ListOf(list)) = e - 1
        /\ \A j \in 1 .. e - 1 : list[j] = ListOf(list)[j] /\ ListOf(list)[j] # Invalid
    <3>1. /\ ListOf(list) \in Seq(Slot) /\ Len(ListOf(list)) = EndOf(list) - 1
          /\ \A j \in 1 .. EndOf(list) - 1 : ListOf(list)[j] = list[j] /\ list[j] # Invalid
      BY ListOfIs
    <3> QED BY <1>2, <3>1
  <2>2. sk[q] = Listing(list, e, s)
    BY <1>1, <1>2
  <2> QED BY <1>3, <2>1, <2>2, ListingIs
<1>5. \A k \in 1 .. n - 1 : sk[p[k]] = sl[p[k]]
  <2>1. ASSUME NEW k \in 1 .. n - 1 PROVE p[k] \in Sector /\ p[k] # q
    <3>1. k \in 1 .. Len(p) /\ k # n
      BY <1>1
    <3> QED BY <1>1, <3>1, <1>0 DEF Shape
  <2> QED BY <1>1, <2>1
<1>6. ListOf(list) \in Seq(Sector) /\ Append(ListOf(list), s) \in Seq(Sector)
  <2>1. ListOf(list) \in Seq(Sector)
    BY <1>1, <1>2 DEF Fit, Fills
  <2> QED BY <2>1
<1>7. s \notin Members(p, d)
  BY DEF Fit, Owns
<1>8. Tied(nx, pv, fs, f, p)
  <2>1. \A k \in 1 .. Len(p) : fs[p[k]] = fr[p[k]]
    <3>1. ASSUME NEW k \in 1 .. Len(p) PROVE p[k] \in Sector /\ p[k] # s
      BY <1>0, <1>7 DEF Shape
    <3> QED BY <3>1
  <2>2. fs[f] = fr[f]
    BY <2>1, <1>0 DEF Shape
  <2>3. \A k \in 2 .. Len(p) : k \in 1 .. Len(p)
    BY <1>1
  <2> QED BY <2>1, <2>2, <2>3 DEF Fit, Tied
<1>9. Fills(sk, p)
  <2>1. ASSUME NEW k \in 1 .. Len(p), k # n
        PROVE  /\ ListOf(sk[p[k]]) \in Seq(Sector)
               /\ ~(EndOf(sk[p[k]]) <= Len(sk[p[k]]))
    <3>1. k \in 1 .. n - 1 /\ k < Len(p)
      BY <1>1, <2>1
    <3> QED BY <1>5, <3>1 DEF Fit, Fills
  <2>2. ListOf(sk[p[n]]) \in Seq(Sector) /\ ~(n < Len(p))
    <3>1. ListOf(sk[p[n]]) = Append(ListOf(list), s)
      BY <1>1, <1>4
    <3>2. ~(n < n)
      OBVIOUS
    <3> QED BY <1>1, <1>6, <3>1, <3>2
  <2> QED BY <1>1, <2>1, <2>2 DEF Fills
<1>10. Ending(sk, em, f, p)
  <2>1. EndOf(sk[q]) # 1
    BY <1>2, <1>4
  <2> QED BY <1>1, <2>1 DEF Ending
<1>11. Bears(sk, p, Append(d, s))
  <2>1. PICK front \in Seq(Sector) :
          /\ FlattenSeq(Lists(sl, p)) = front \o Lists(sl, p)[n]
          /\ FlattenSeq(Lists(sk, p)) = front \o Lists(sk, p)[n]
    <3>1. /\ Len(Lists(sl, p)) = n /\ Len(Lists(sk, p)) = n
          /\ \A k \in 1 .. n : Lists(sl, p)[k] = ListOf(sl[p[k]])
          /\ \A k \in 1 .. n : Lists(sk, p)[k] = ListOf(sk[p[k]])
      BY <1>1 DEF Lists
    <3>2. \A k \in 1 .. n : Lists(sl, p)[k] \in Seq(Sector)
      BY <1>0, <1>1 DEF Shape
    <3>3. Lists(sk, p)[n] \in Seq(Sector)
      <4>1. Lists(sk, p)[n] = ListOf(sk[p[n]])
        BY <1>1, <3>1
      <4>2. ListOf(sk[p[n]]) = Append(ListOf(list), s)
        BY <1>1, <1>4
      <4> QED BY <1>6, <4>1, <4>2
    <3>4. \A k \in 1 .. n - 1 : Lists(sl, p)[k] = Lists(sk, p)[k]
      <4>1. ASSUME NEW k \in 1 .. n - 1 PROVE Lists(sl, p)[k] = Lists(sk, p)[k]
        <5>1. k \in 1 .. n
          OBVIOUS
        <5> QED BY <1>5, <3>1, <5>1
      <4> QED BY <4>1
    <3>5. Alike(Lists(sl, p), Lists(sk, p), n, Sector)
      BY <3>1, <3>2, <3>3, <3>4 DEF Alike
    <3>6. BeginAlike(Lists(sl, p), Lists(sk, p), n, Sector)
      BY <3>5, FlattenLast
    <3> QED BY <3>6 DEF BeginAlike
  <2>2. Lists(sl, p)[n] = ListOf(list) /\ Lists(sk, p)[n] = Append(ListOf(list), s)
    BY <1>1, <1>2, <1>4 DEF Lists
  <2>3. d = front \o ListOf(list)
    BY <2>1, <2>2 DEF Fit, Bears
  <2>4. Append(d, s) = FlattenSeq(Lists(sk, p))
    <3>1. front \o Append(ListOf(list), s) = Append(front \o ListOf(list), s)
      BY <1>6, <2>1, SectorsAppend
    <3> QED BY <2>1, <2>2, <2>3, <3>1
  <2>5. Append(d, s) \in Seq(Sector) /\ Len(Append(d, s)) = Len(d) + 1
    BY <1>0, AppendSet DEF Shape
  <2>6. IsInjective(Append(d, s))
    <3>1. s \notin ToSet(d) /\ IsInjective(d) /\ d \in Seq(Sector)
      BY <1>7, <1>0 DEF Members, Fit, Bears, Shape
    <3> QED BY <3>1, AppendSet
  <2>7. Len(Append(d, s)) = Before(Len(p)) + EndOf(sk[q]) - 1
    <3>1. Len(d) = Before(n) + e - 1
      BY <1>1, <1>2 DEF Fit, Bears
    <3>2. Before(n) \in Nat
      BY BeforeIs
    <3> QED BY <1>1, <1>4, <2>5, <3>1, <3>2
  <2> QED BY <1>1, <2>4, <2>5, <2>6, <2>7 DEF Bears
<1>12. Left(sk, f, p)
  <2>1. PICK m \in Nat, v \in Slot : (q = f => v = Invalid) /\ Rest(list, m, v)
    BY <1>1, <1>2 DEF Fit, Left
  <2>2. Rest(sk[q], m, v)
    <3>1. ASSUME NEW j \in EndOf(sk[q]) + 1 .. Len(sk[q])
          PROVE  sk[q][j] = IF j <= m THEN Invalid ELSE v
      <4>1. j \in e + 2 .. Len(list) /\ j \in e + 1 .. Len(list)
        BY <1>2, <1>4
      <4> QED BY <1>2, <1>4, <2>1, <4>1 DEF Rest
    <3> QED BY <3>1 DEF Rest
  <2> QED BY <1>1, <2>1, <2>2 DEF Left
<1>13. Owns(ut, p, Append(d, s))
  <2>1. ToSet(Append(d, s)) = ToSet(d) \cup {s}
    BY <1>0, AppendSet DEF Shape
  <2> QED BY <1>7, <2>1 DEF Fit, Owns, Members
<1>14. Ordered(fs, Append(d, s))
  <2>1. /\ Len(Append(d, s)) = Len(d) + 1 /\ Append(d, s)[Len(d) + 1] = s
        /\ \A k \in 1 .. Len(d) : Append(d, s)[k] = d[k]
    BY <1>0, AppendSet DEF Shape
  <2>2. \A k \in 1 .. Len(d) : fs[d[k]] = k - 1
    <3>1. \A k \in 1 .. Len(d) : d[k] \in Sector /\ d[k] # s
      BY <1>7, <1>0 DEF Shape
    <3> QED BY <3>1 DEF Fit, Ordered
  <2>3. Len(d) \in Nat
    BY <1>0 DEF Shape
  <2>4. ASSUME NEW k \in 1 .. Len(d) + 1 PROVE fs[Append(d, s)[k]] = k - 1
    BY <2>1, <2>2, <2>3
  <2> QED BY <2>1, <2>4 DEF Ordered
<1> QED BY <1>8, <1>9, <1>10, <1>11, <1>12, <1>13, <1>14 DEF Fit

(* Sector c becomes the node behind q and lists sector s.                  *)
Links(sl, nx, pv, fr, us, sk, ny, pw, fs, ut, q, d, s, c) ==
  /\ sk[c] = Listing(sl[c], 1, s) /\ \A t \in Sector : t # c => sk[t] = sl[t]
  /\ ny[c] = Invalid /\ ny[q] = c
  /\ \A t \in Sector : t # c /\ t # q => ny[t] = nx[t]
  /\ pw[c] = q /\ \A t \in Sector : t # c => pw[t] = pv[t]
  /\ fs[c] = fr[q] + 1 /\ \A t \in Sector : t # c => fs[t] = fr[t]
  /\ fs[s] = Len(d) /\ us \cup {c, s} \subseteq ut

Allof(list, w) == Len(list) = ContMax /\ \A j \in 1 .. ContMax : list[j] = w

(* ccos_add_content_inode, and the sector in its first slot.               *)
LEMMA FitLink ==
  ASSUME NEW sl \in [Sector -> Seq(Slot)], NEW nx, NEW pv, NEW fr, NEW us, NEW em,
         NEW f \in Files, NEW p, NEW d, Fit(sl, nx, pv, fr, us, em, f, p, d),
         NEW sk, NEW ny, NEW pw, NEW fs, NEW ut,
         NEW s \in Sector, NEW c \in Sector \ us, s \notin Members(p, d), s # c,
         f \notin em, ~(EndOf(sl[p[Len(p)]]) <= Len(sl[p[Len(p)]])),
         Len(sl[p[Len(p)]]) = (IF Len(p) = 1 THEN InodeMax ELSE ContMax),
         NEW w \in Slot, Allof(sl[c], w),
         Links(sl, nx, pv, fr, us, sk, ny, pw, fs, ut, p[Len(p)], d, s, c)
  PROVE  Fit(sk, ny, pw, fs, ut, em, f, Append(p, c), Append(d, s))
<1> USE DEF Links, Allof
<1>0. Shape(sl, f, p, d)
  BY FitView
<1>20. PICK n \in Nat \ {0} : n = Len(p) /\ n \in 1 .. Len(p)
  BY <1>0 DEF Shape
<1>21. PICK q \in Sector : q = p[n]
  BY <1>0, <1>20 DEF Shape
<1>1. n = Len(p) /\ q = p[n] /\ q = p[Len(p)] /\ n \in 1 .. Len(p)
  BY <1>20, <1>21
<1>2. PICK r \in Seq(Sector) : r = Append(p, c)
  BY <1>0, AppendProperties DEF Shape
<1>3. PICK g \in Seq(Sector) : g = Append(d, s)
  BY <1>0, AppendProperties DEF Shape
<1>4. c \notin Members(p, d)
  BY DEF Fit, Owns
<1>5. /\ Len(r) = n + 1 /\ r[n + 1] = c /\ \A k \in 1 .. n : r[k] = p[k]
      /\ ToSet(r) = ToSet(p) \cup {c} /\ IsInjective(r)
  <2>1. p \in Seq(Sector) /\ IsInjective(p) /\ c \notin ToSet(p)
    BY <1>0, <1>4 DEF Shape, Fit, Tied, Members
  <2> QED BY <1>1, <1>2, <2>1, AppendSet
<1>6. /\ Len(g) = Len(d) + 1 /\ g[Len(d) + 1] = s /\ \A k \in 1 .. Len(d) : g[k] = d[k]
      /\ ToSet(g) = ToSet(d) \cup {s} /\ IsInjective(g)
  <2>1. d \in Seq(Sector) /\ IsInjective(d) /\ s \notin ToSet(d)
    BY <1>0 DEF Shape, Fit, Bears, Members
  <2> QED BY <1>3, <2>1, AppendSet
<1>7. \A k \in 1 .. n : /\ p[k] \in Sector /\ p[k] # c /\ (p[k] = q => k = n)
                        /\ sk[p[k]] = sl[p[k]] /\ pw[p[k]] = pv[p[k]]
                        /\ fs[p[k]] = fr[p[k]]
  <2>1. ASSUME NEW k \in 1 .. n PROVE p[k] \in Sector /\ p[k] # c /\ (p[k] = q => k = n)
    BY <1>0, <1>1, <1>4 DEF Shape
  <2> QED BY <2>1
<1>8. Path(ny, f, r)
  <2>1. r # <<>> /\ r[1] = f
    BY <1>0, <1>1, <1>5 DEF Shape
  <2>2. ASSUME NEW k \in 1 .. n + 1
        PROVE  ny[r[k]] = IF k < n + 1 THEN r[k + 1] ELSE Invalid
    <3>1. CASE k < n
      <4>1. k \in 1 .. n /\ k + 1 \in 1 .. n /\ k # n
        BY <3>1
      <4>2. ny[p[k]] = nx[p[k]]
        BY <1>1, <1>7, <4>1
      <4>3. nx[p[k]] = p[k + 1]
        BY <1>1, <3>1, <4>1 DEF Fit, Tied, Path
      <4> QED BY <1>5, <3>1, <4>1, <4>2, <4>3
    <3>2. CASE k = n
      BY <1>1, <1>5, <3>2
    <3>3. CASE k = n + 1
      BY <1>5, <3>3
    <3> QED BY <3>1, <3>2, <3>3
  <2> QED BY <1>5, <2>1, <2>2 DEF Path
<1>9. Tied(ny, pw, fs, f, r)
  <2>1. pw[f] = Invalid /\ fs[f] = 0
    <3>1. 1 \in 1 .. n /\ p[1] = f
      BY <1>0 DEF Shape
    <3> QED BY <1>7, <3>1 DEF Fit, Tied
  <2>2. fr[q] = n - 1
    <3>1. CASE n = 1
      BY <1>0, <1>1, <3>1 DEF Shape, Fit, Tied
    <3>2. CASE n # 1
      <4>1. n \in 2 .. Len(p)
        BY <1>1, <3>2
      <4> QED BY <1>1, <4>1 DEF Fit, Tied
    <3> QED BY <3>1, <3>2
  <2>3. ASSUME NEW k \in 2 .. n + 1 PROVE pw[r[k]] = r[k - 1] /\ fs[r[k]] = k - 1
    <3>1. CASE k = n + 1
      BY <1>1, <1>5, <2>2, <3>1
    <3>2. CASE k # n + 1
      <4>1. k \in 1 .. n /\ k - 1 \in 1 .. n /\ k \in 2 .. Len(p)
        BY <1>1, <3>2
      <4>2. pv[p[k]] = p[k - 1] /\ fr[p[k]] = k - 1
        BY <4>1 DEF Fit, Tied
      <4> QED BY <1>5, <1>7, <4>1, <4>2
    <3> QED BY <3>1, <3>2
  <2> QED BY <1>5, <1>8, <2>1, <2>3 DEF Tied
<1>10. /\ sk[c] \in Seq(Slot) /\ Len(sk[c]) = ContMax /\ EndOf(sk[c]) = 2
       /\ ListOf(sk[c]) = <<s>> /\ ListOf(sk[c]) \in Seq(Sector)
       /\ \A j \in 3 .. ContMax : sk[c][j] = w
  <2>1. sl[c] \in Seq(Slot) /\ Len(sl[c]) # 0
    BY Constants
  <2>2. /\ sk[c] \in Seq(Slot) /\ Len(sk[c]) = ContMax /\ EndOf(sk[c]) = 2
        /\ ListOf(sk[c]) = <<s>>
        /\ \A j \in 3 .. ContMax : sk[c][j] = sl[c][j]
    BY <2>1, ListingFirst
  <2>3. <<s>> \in Seq(Sector)
    OBVIOUS
  <2>4. ASSUME NEW j \in 3 .. ContMax PROVE sk[c][j] = w
    <3>1. j \in 1 .. ContMax
      BY Constants
    <3> QED BY <2>2, <3>1
  <2> QED BY <2>2, <2>3, <2>4
<1>11. Fills(sk, r)
  <2>1. ASSUME NEW k \in 1 .. n
        PROVE  ListOf(sl[p[k]]) \in Seq(Sector) /\ ~(EndOf(sl[p[k]]) <= Len(sl[p[k]]))
    <3>1. CASE k = n
      BY <1>1, <3>1 DEF Fit, Fills
    <3>2. CASE k # n
      <4>1. k < Len(p) /\ k \in 1 .. Len(p)
        BY <1>1, <3>2
      <4> QED BY <4>1 DEF Fit, Fills
    <3> QED BY <3>1, <3>2
  <2>2. ASSUME NEW k \in 1 .. n + 1
        PROVE  /\ ListOf(sk[r[k]]) \in Seq(Sector)
               /\ k < n + 1 => ~(EndOf(sk[r[k]]) <= Len(sk[r[k]]))
    <3>1. CASE k = n + 1
      BY <1>5, <1>10, <3>1
    <3>2. CASE k # n + 1
      <4>1. k \in 1 .. n
        BY <3>2
      <4>2. sk[r[k]] = sl[p[k]]
        BY <1>5, <1>7, <4>1
      <4> QED BY <2>1, <4>1, <4>2
    <3> QED BY <3>1, <3>2
  <2> QED BY <1>5, <2>2 DEF Fills
<1>12. Ending(sk, em, f, r)
  BY <1>5, <1>10 DEF Ending
<1>13. Bears(sk, r, g)
  <2>1. OneMore(Lists(sl, p), Lists(sk, r), n)
    <3>1. /\ Len(Lists(sl, p)) = n /\ Len(Lists(sk, r)) = n + 1
          /\ \A k \in 1 .. n : Lists(sl, p)[k] = ListOf(sl[p[k]])
          /\ \A k \in 1 .. n + 1 : Lists(sk, r)[k] = ListOf(sk[r[k]])
      BY <1>1, <1>5 DEF Lists
    <3>2. ASSUME NEW k \in 1 .. n PROVE Lists(sl, p)[k] = Lists(sk, r)[k]
      <4>1. k \in 1 .. n + 1
        OBVIOUS
      <4>2. sk[r[k]] = sl[p[k]]
        BY <1>5, <1>7
      <4> QED BY <3>1, <4>1, <4>2
    <3> QED BY <3>1, <3>2 DEF OneMore
  <2>2. FlattenSeq(Lists(sk, r)) = FlattenSeq(Lists(sl, p)) \o Lists(sk, r)[n + 1]
    <3>1. OneJoins(Lists(sl, p), Lists(sk, r), n)
      BY <2>1, FlattenMore
    <3> QED BY <3>1 DEF OneJoins
  <2>3. Lists(sk, r)[n + 1] = <<s>>
    <3>1. n + 1 \in 1 .. n + 1
      OBVIOUS
    <3>2. Lists(sk, r)[n + 1] = ListOf(sk[r[n + 1]])
      BY <1>5, <3>1 DEF Lists
    <3> QED BY <1>5, <1>10, <3>2
  <2>4. FlattenSeq(Lists(sk, r)) = d \o <<s>>
    BY <2>2, <2>3 DEF Fit, Bears
  <2>5. d \o <<s>> = Append(d, s)
    <3>1. d \in Seq(Sector)
      BY <1>0 DEF Shape
    <3> QED BY <3>1
  <2>6. Len(g) = Before(Len(r)) + EndOf(sk[r[Len(r)]]) - 1
    <3>1. Len(d) = Before(n) + EndOf(sl[q]) - 1
      BY <1>1 DEF Fit, Bears
    <3>2. EndOf(sl[q]) = Len(sl[q]) + 1
      <4>1. EndOf(sl[q]) \in 1 .. Len(sl[q]) + 1 /\ Len(sl[q]) \in Nat
        BY ListOfIs
      <4> QED BY <1>1, <4>1
    <3>3. /\ Before(n) \in Nat
          /\ n = 1 => Before(n + 1) = Before(n) + InodeMax
          /\ n # 1 => Before(n + 1) = Before(n) + ContMax
      BY BeforeIs
    <3>4. Len(d) = Before(n + 1)
      <4>1. n = 1 => Len(sl[q]) = InodeMax
        BY <1>1
      <4>2. n # 1 => Len(sl[q]) = ContMax
        BY <1>1
      <4>3. Len(d) = Before(n) + Len(sl[q])
        <5>1. Len(sl[q]) \in Nat
          <6>1. sl[q] \in Seq(Slot)
            OBVIOUS
          <6> QED BY <6>1
        <5> QED BY <3>1, <3>2, <3>3, <5>1
      <4> QED BY <3>3, <4>1, <4>2, <4>3
    <3>5. EndOf(sk[r[Len(r)]]) = 2 /\ Len(r) = n + 1
      BY <1>5, <1>10
    <3>6. Before(n + 1) \in Nat /\ Len(g) = Before(n + 1) + 1
      BY <1>6, <3>3, <3>4, Constants
    <3> QED BY <3>5, <3>6
  <2> QED BY <1>3, <1>6, <2>4, <2>5, <2>6 DEF Bears
<1>14. Left(sk, f, r)
  <2>1. r[Len(r)] = c /\ c # f
    BY <1>0, <1>4, <1>5 DEF Shape, Members
  <2>2. Rest(sk[c], 0, w)
    BY <1>10 DEF Rest
  <2>3. 0 \in Nat
    OBVIOUS
  <2> QED BY <2>1, <2>2, <2>3 DEF Left
<1>15. Owns(ut, r, g)
  BY <1>4, <1>5, <1>6 DEF Fit, Owns, Members
<1>16. Ordered(fs, g)
  <2>1. \A k \in 1 .. Len(d) : fs[d[k]] = k - 1
    <3>1. \A k \in 1 .. Len(d) : d[k] \in Sector /\ d[k] # c
      BY <1>0, <1>4 DEF Shape
    <3> QED BY <3>1 DEF Fit, Ordered
  <2>2. Len(d) \in Nat
    BY <1>0 DEF Shape
  <2>3. ASSUME NEW k \in 1 .. Len(d) + 1 PROVE fs[g[k]] = k - 1
    <3>1. CASE k = Len(d) + 1
      BY <1>6, <2>2, <3>1
    <3>2. CASE k # Len(d) + 1
      <4>1. k \in 1 .. Len(d)
        BY <2>2, <3>2
      <4> QED BY <1>6, <2>1, <4>1
    <3> QED BY <3>1, <3>2
  <2> QED BY <1>6, <2>3 DEF Ordered
<1> QED BY <1>2, <1>3, <1>9, <1>11, <1>12, <1>13, <1>14, <1>15, <1>16 DEF Fit

LEMMA AppendBack ==
  ASSUME NEW g \in Seq(Sector), NEW x \in Sector, IsInjective(Append(g, x))
  PROVE  IsInjective(g) /\ x \notin ToSet(g)
<1>1. PICK r \in Seq(Sector) : r = Append(g, x)
  BY AppendProperties
<1>2. /\ Len(r) = Len(g) + 1 /\ r[Len(g) + 1] = x /\ Len(g) \in Nat
      /\ \A k \in 1 .. Len(g) : r[k] = g[k]
  BY <1>1
<1>3. DOMAIN g = 1 .. Len(g) /\ DOMAIN r = 1 .. Len(g) + 1
  BY <1>2
<1>4. \A j, k \in 1 .. Len(g) + 1 : r[j] = r[k] => j = k
  BY <1>1, <1>3 DEF IsInjective
<1>5. ASSUME NEW j \in 1 .. Len(g), NEW k \in 1 .. Len(g), g[j] = g[k] PROVE j = k
  BY <1>2, <1>4, <1>5
<1>6. ASSUME NEW k \in 1 .. Len(g) PROVE g[k] # x
  <2>1. k \in 1 .. Len(g) + 1 /\ Len(g) + 1 \in 1 .. Len(g) + 1 /\ k # Len(g) + 1
    BY <1>2
  <2> QED BY <1>2, <1>4, <2>1
<1> QED BY <1>3, <1>5, <1>6 DEF IsInjective, ToSet

LEMMA AppendParts ==
  ASSUME NEW a \in Seq(Slot), NEW x \in Slot, Append(a, x) \in Seq(Sector)
  PROVE  a \in Seq(Sector) /\ x \in Sector
<1>1. PICK r \in Seq(Sector) : r = Append(a, x)
  OBVIOUS
<1>2. /\ Len(r) = Len(a) + 1 /\ r[Len(a) + 1] = x /\ Len(a) \in Nat
      /\ \A k \in 1 .. Len(a) : r[k] = a[k]
  BY <1>1
<1>3. \A k \in 1 .. Len(a) + 1 : r[k] \in Sector
  BY <1>2
<1>4. x \in Sector
  BY <1>2, <1>3
<1>5. \A k \in 1 .. Len(a) : a[k] \in Sector
  BY <1>2, <1>3
<1>6. a = [k \in 1 .. Len(a) |-> a[k]]
  OBVIOUS
<1> QED BY <1>2, <1>4, <1>5, <1>6

(* The sectors of the last node come last.                                 *)
Finishes(d, list) == \E front \in Seq(Sector) : d = front \o list

LEMMA FitEnd ==
  ASSUME NEW sl \in [Sector -> Seq(Slot)], NEW nx, NEW pv, NEW fr, NEW us, NEW em,
         NEW f \in Files, NEW p, NEW d, Fit(sl, nx, pv, fr, us, em, f, p, d)
  PROVE  Finishes(d, ListOf(sl[p[Len(p)]]))
<1>0. Shape(sl, f, p, d)
  BY FitView
<1>1. PICK n \in Nat \ {0} : n = Len(p) /\ n \in 1 .. Len(p)
  BY <1>0 DEF Shape
<1>2. /\ Len(Lists(sl, p)) = n
      /\ \A k \in 1 .. n : Lists(sl, p)[k] = ListOf(sl[p[k]])
      /\ \A k \in 1 .. n : Lists(sl, p)[k] \in Seq(Sector)
  BY <1>0, <1>1 DEF Shape
<1>3. Alike(Lists(sl, p), Lists(sl, p), n, Sector)
  BY <1>1, <1>2 DEF Alike
<1>4. BeginAlike(Lists(sl, p), Lists(sl, p), n, Sector)
  BY <1>3, FlattenLast
<1>5. Lists(sl, p)[n] = ListOf(sl[p[Len(p)]])
  BY <1>1, <1>2
<1> QED BY <1>4, <1>5 DEF BeginAlike, Fit, Bears, Finishes

IsLast(x, d) ==
  /\ x = d[Len(d)] /\ Len(d) \in 1 .. Len(d)
  /\ d[Len(d)] \in Sector /\ d[Len(d)] \in ToSet(d)

LEMMA FitLastSector ==
  ASSUME NEW sl \in [Sector -> Seq(Slot)], NEW nx, NEW pv, NEW fr, NEW us, NEW em,
         NEW f \in Files, NEW p, NEW d, Fit(sl, nx, pv, fr, us, em, f, p, d),
         NEW i \in Nat \ {0}, NEW x, LastSlot(sl[p[Len(p)]], i, x)
  PROVE  IsLast(x, d)
<1>0. Shape(sl, f, p, d)
  BY FitView
<1>1. PICK q \in Sector : q = p[Len(p)] /\ sl[q] \in Seq(Slot)
  BY <1>0 DEF Shape
<1>2. ListOf(sl[q]) \in Seq(Sector)
  <2>1. Len(p) \in 1 .. Len(p)
    BY <1>0 DEF Shape
  <2> QED BY <1>1, <2>1 DEF Fit, Fills
<1>3. Len(ListOf(sl[q])) = i /\ ListOf(sl[q])[i] = sl[q][i]
  <2>1. /\ Len(ListOf(sl[q])) = EndOf(sl[q]) - 1
        /\ \A k \in 1 .. EndOf(sl[q]) - 1 : ListOf(sl[q])[k] = sl[q][k]
    BY <1>1, ListOfIs
  <2>2. EndOf(sl[q]) - 1 = i /\ i \in 1 .. i
    BY <1>1 DEF LastSlot
  <2> QED BY <2>1, <2>2
<1>4. PICK list \in Seq(Sector) : list = ListOf(sl[q])
  BY <1>2
<1>5. PICK front \in Seq(Sector) : d = front \o list
  <2>1. Finishes(d, list)
    BY <1>1, <1>4, FitEnd
  <2> QED BY <2>1 DEF Finishes
<1>6. Len(d) = Len(front) + i /\ d[Len(front) + i] = list[i] /\ Len(front) \in Nat
  <2>1. Len(list) = i /\ Len(front) \in Nat
    BY <1>3, <1>4
  <2>2. /\ Len(front \o list) = Len(front) + Len(list)
        /\ (front \o list)[Len(front) + i] = list[i]
    <3>2. /\ Len(front \o list) = Len(front) + Len(list)
          /\ \A k \in 1 .. Len(list) : (front \o list)[Len(front) + k] = list[k]
      BY ConcatProperties
    <3>3. i \in 1 .. Len(list)
      BY <2>1
    <3> QED BY <3>2, <3>3
  <2> QED BY <1>5, <2>1, <2>2
<1>7. Len(d) \in 1 .. Len(d) /\ d[Len(d)] = list[i]
  BY <1>6
<1> QED BY <1>0, <1>1, <1>3, <1>4, <1>7 DEF Shape, LastSlot, IsLast

(* The list of q loses sector x in slot i.                                 *)
Cuts(sl, nx, pv, fr, us, sk, ny, pw, fs, ut, q, i, x) ==
  /\ sk[q] = [sl[q] EXCEPT ![i] = Invalid]
  /\ \A t \in Sector : t # q /\ t # x => sk[t] = sl[t]
  /\ \A t \in Sector : t # x => ny[t] = nx[t] /\ pw[t] = pv[t] /\ fs[t] = fr[t]
  /\ us \ {x} \subseteq ut

(* What is left of d without its last sector.                              *)
FitsCut(sl, nx, pv, fr, us, em, f, p, d, x) ==
  \E g \in Seq(Sector) : d = Append(g, x) /\ Fit(sl, nx, pv, fr, us, em, f, p, g)

(* ccos_remove_sector_from_file.                                           *)
LEMMA FitCut ==
  ASSUME NEW sl \in [Sector -> Seq(Slot)], NEW nx, NEW pv, NEW fr, NEW us, NEW em,
         NEW f \in Files, NEW p, NEW d, Fit(sl, nx, pv, fr, us, em, f, p, d),
         NEW sk, NEW ny, NEW pw, NEW fs, NEW ut, NEW en,
         NEW i \in Nat \ {0}, NEW x, LastSlot(sl[p[Len(p)]], i, x),
         Cuts(sl, nx, pv, fr, us, sk, ny, pw, fs, ut, p[Len(p)], i, x),
         f \in en <=> (p[Len(p)] # f /\ i = 1)
  PROVE  FitsCut(sk, ny, pw, fs, ut, en, f, p, d, x)
<1> USE DEF Cuts
<1> SUFFICES \E g \in Seq(Sector) :
               d = Append(g, x) /\ Fit(sk, ny, pw, fs, ut, en, f, p, g)
  BY DEF FitsCut
<1>0. Shape(sl, f, p, d)
  BY FitView
<1>20. PICK n \in Nat \ {0} : n = Len(p) /\ n \in 1 .. Len(p)
  BY <1>0 DEF Shape
<1>21. PICK q \in Sector : q = p[n]
  BY <1>0, <1>20 DEF Shape
<1>1. n = Len(p) /\ q = p[n] /\ q = p[Len(p)] /\ n \in 1 .. Len(p)
  BY <1>20, <1>21
<1>22. PICK list \in Seq(Slot) : list = sl[q]
  <2>1. sl[q] \in Seq(Slot)
    OBVIOUS
  <2> QED BY <2>1
<1>2. list = sl[q] /\ EndOf(list) = i + 1 /\ x = list[i]
  BY <1>1, <1>22 DEF LastSlot
<1>3. x = d[Len(d)] /\ x \in Sector /\ x \in ToSet(d) /\ x \notin ToSet(p)
  <2>1. x = d[Len(d)] /\ x \in Sector /\ x \in ToSet(d)
    <3>1. IsLast(x, d)
      BY FitLastSector
    <3> QED BY <3>1 DEF IsLast
  <2> QED BY <2>1 DEF Fit, Owns
<1>4. /\ i \in 1 .. Len(list)
      /\ sk[q] \in Seq(Slot) /\ Len(sk[q]) = Len(list) /\ EndOf(sk[q]) = i
      /\ ListOf(list) = Append(ListOf(sk[q]), x)
      /\ \A j \in i + 1 .. Len(list) : sk[q][j] = list[j]
  <2>1. Clears(list, i, sk[q])
    BY <1>1, <1>2 DEF Clears
  <2>2. LastSlot(list, i, x)
    BY <1>2 DEF LastSlot
  <2>3. Trimmed(list, i, x, sk[q])
    BY <2>1, <2>2, TrimIs
  <2> QED BY <2>3 DEF Trimmed
<1>5. ListOf(list) \in Seq(Sector) /\ ListOf(sk[q]) \in Seq(Sector)
  <2>1. ListOf(list) \in Seq(Sector)
    BY <1>1, <1>2 DEF Fit, Fills
  <2>2. ListOf(sk[q]) \in Seq(Slot) /\ x \in Slot
    BY <1>3, <1>4, ListOfIs, Constants
  <2>3. Append(ListOf(sk[q]), x) \in Seq(Sector)
    BY <1>4, <2>1
  <2> QED BY <2>1, <2>2, <2>3, AppendParts
<1>6. \A k \in 1 .. n : /\ p[k] \in Sector /\ p[k] # x /\ (p[k] = q => k = n)
                        /\ ny[p[k]] = nx[p[k]] /\ pw[p[k]] = pv[p[k]]
                        /\ fs[p[k]] = fr[p[k]]
  <2>1. ASSUME NEW k \in 1 .. n PROVE p[k] \in Sector /\ p[k] # x /\ (p[k] = q => k = n)
    BY <1>0, <1>1, <1>3 DEF Shape
  <2> QED BY <2>1
<1>7. \A k \in 1 .. n - 1 : sk[p[k]] = sl[p[k]]
  <2>1. ASSUME NEW k \in 1 .. n - 1 PROVE p[k] \in Sector /\ p[k] # q /\ p[k] # x
    <3>1. k \in 1 .. n /\ k # n
      BY <1>1
    <3> QED BY <1>6, <3>1
  <2> QED BY <1>1, <2>1
<1>8. PICK front \in Seq(Sector) :
        /\ d = front \o ListOf(list)
        /\ FlattenSeq(Lists(sk, p)) = front \o ListOf(sk[q])
  <2>1. /\ Len(Lists(sl, p)) = n /\ Len(Lists(sk, p)) = n
        /\ \A k \in 1 .. n : Lists(sl, p)[k] = ListOf(sl[p[k]])
        /\ \A k \in 1 .. n : Lists(sk, p)[k] = ListOf(sk[p[k]])
    BY <1>1 DEF Lists
  <2>2. \A k \in 1 .. n : Lists(sl, p)[k] \in Seq(Sector)
    BY <1>0, <1>1 DEF Shape
  <2>3. Lists(sl, p)[n] = ListOf(list) /\ Lists(sk, p)[n] = ListOf(sk[q])
    BY <1>1, <1>2, <2>1
  <2>4. Lists(sk, p)[n] \in Seq(Sector)
    BY <1>5, <2>3
  <2>5. \A k \in 1 .. n - 1 : Lists(sl, p)[k] = Lists(sk, p)[k]
    <3>1. ASSUME NEW k \in 1 .. n - 1 PROVE Lists(sl, p)[k] = Lists(sk, p)[k]
      <4>1. k \in 1 .. n
        OBVIOUS
      <4>2. /\ Lists(sl, p)[k] = ListOf(sl[p[k]])
            /\ Lists(sk, p)[k] = ListOf(sk[p[k]])
        BY <2>1, <4>1
      <4>3. sk[p[k]] = sl[p[k]]
        BY <1>7
      <4> QED BY <4>2, <4>3
    <3> QED BY <3>1
  <2>6. Alike(Lists(sl, p), Lists(sk, p), n, Sector)
    BY <2>1, <2>2, <2>4, <2>5 DEF Alike
  <2>7. BeginAlike(Lists(sl, p), Lists(sk, p), n, Sector)
    BY <2>6, FlattenLast
  <2> QED BY <2>3, <2>7 DEF BeginAlike, Fit, Bears
<1>9. PICK g \in Seq(Sector) : g = front \o ListOf(sk[q])
  <2>1. front \o ListOf(sk[q]) \in Seq(Sector)
    BY <1>5, <1>8, ConcatProperties
  <2> QED BY <2>1
<1>10. d = Append(g, x)
  <2>1. front \o Append(ListOf(sk[q]), x) = Append(front \o ListOf(sk[q]), x)
    BY <1>3, <1>5, <1>8, SectorsAppend
  <2> QED BY <1>4, <1>8, <1>9, <2>1
<1>11. IsInjective(g) /\ x \notin ToSet(g)
  <2>1. IsInjective(Append(g, x))
    BY <1>10 DEF Fit, Bears
  <2> QED BY <1>3, <2>1, AppendBack
<1>12. /\ Len(d) = Len(g) + 1 /\ Len(g) \in Nat /\ ToSet(d) = ToSet(g) \cup {x}
       /\ \A k \in 1 .. Len(g) : d[k] = g[k]
  <2>1. Len(g) \in Nat
    OBVIOUS
  <2> QED BY <1>3, <1>10, <2>1, AppendSet
<1>13. Tied(ny, pw, fs, f, p)
  <2>1. \A k \in 1 .. Len(p) : ny[p[k]] = nx[p[k]]
    BY <1>1, <1>6
  <2>2. Path(ny, f, p) /\ IsInjective(p)
    BY <2>1 DEF Fit, Tied, Path
  <2>3. pw[f] = pv[f] /\ fs[f] = fr[f]
    <3>1. 1 \in 1 .. n /\ p[1] = f
      BY <1>0 DEF Shape
    <3> QED BY <1>6, <3>1
  <2>4. ASSUME NEW k \in 2 .. Len(p) PROVE pw[p[k]] = p[k - 1] /\ fs[p[k]] = k - 1
    <3>1. k \in 1 .. n
      BY <1>1
    <3>2. pv[p[k]] = p[k - 1] /\ fr[p[k]] = k - 1
      BY DEF Fit, Tied
    <3> QED BY <1>6, <3>1, <3>2
  <2> QED BY <2>2, <2>3, <2>4 DEF Fit, Tied
<1>14. Fills(sk, p)
  <2>1. ASSUME NEW k \in 1 .. Len(p), k # n
        PROVE  /\ ListOf(sk[p[k]]) \in Seq(Sector)
               /\ ~(EndOf(sk[p[k]]) <= Len(sk[p[k]]))
    <3>1. k \in 1 .. n - 1 /\ k < Len(p)
      BY <1>1, <2>1
    <3> QED BY <1>7, <3>1 DEF Fit, Fills
  <2>2. ~(n < n)
    OBVIOUS
  <2>3. ListOf(sk[p[n]]) \in Seq(Sector) /\ ~(n < Len(p))
    BY <1>1, <1>5, <2>2
  <2> QED BY <1>1, <2>1, <2>3 DEF Fills
<1>15. Ending(sk, en, f, p)
  <2>1. q # f <=> n > 1
    <3>1. 1 \in 1 .. Len(p) /\ p[1] = f /\ (p[n] = p[1] => n = 1)
      BY <1>0, <1>1 DEF Shape
    <3>2. n > 1 <=> n # 1
      OBVIOUS
    <3> QED BY <1>1, <3>1, <3>2
  <2> QED BY <1>1, <1>4, <2>1 DEF Ending
<1>16. Bears(sk, p, g)
  <2>1. Len(d) = Before(n) + (i + 1) - 1 /\ Before(n) \in Nat
    <3>1. Before(n) \in Nat
      BY BeforeIs
    <3> QED BY <1>1, <1>2, <3>1 DEF Fit, Bears
  <2>2. Len(g) = Before(n) + i - 1
    BY <1>12, <2>1
  <2> QED BY <1>1, <1>4, <1>8, <1>9, <1>11, <2>2 DEF Bears
<1>17. Left(sk, f, p)
  <2>1. PICK m \in Nat, v \in Slot : (q = f => v = Invalid) /\ Rest(list, m, v)
    BY <1>1, <1>2 DEF Fit, Left
  <2>2. PICK l \in Nat : l = IF m < i + 1 THEN i + 1 ELSE m
    OBVIOUS
  <2>3. Rest(sk[q], l, v)
    <3>1. ASSUME NEW j \in i + 1 .. Len(list)
          PROVE  sk[q][j] = IF j <= l THEN Invalid ELSE v
      <4>1. sk[q][j] = list[j]
        BY <1>4
      <4>2. CASE j = i + 1
        <5>1. i + 1 <= Len(list) /\ j <= l
          BY <2>2, <4>2
        <5>2. list[i + 1] = Invalid
          BY <1>2, <5>1, ListOfIs
        <5> QED BY <4>1, <4>2, <5>1, <5>2
      <4>3. CASE j # i + 1
        <5>1. j \in (i + 1) + 1 .. Len(list) /\ (j <= l <=> j <= m)
          BY <2>2, <4>3
        <5>2. list[j] = IF j <= m THEN Invalid ELSE v
          BY <1>2, <2>1, <5>1 DEF Rest
        <5> QED BY <4>1, <5>1, <5>2
      <4> QED BY <4>2, <4>3
    <3> QED BY <1>4, <3>1 DEF Rest
  <2> QED BY <1>1, <2>1, <2>3 DEF Left
<1>18. Owns(ut, p, g)
  BY <1>3, <1>11, <1>12 DEF Fit, Owns, Members
<1>19. Ordered(fs, g)
  <2>1. ASSUME NEW k \in 1 .. Len(g) PROVE fs[g[k]] = k - 1
    <3>1. k \in 1 .. Len(d) /\ d[k] = g[k]
      BY <1>12
    <3>2. g[k] \in ToSet(g) /\ g[k] \in Sector
      BY DEF ToSet
    <3>3. fr[d[k]] = k - 1
      BY <3>1 DEF Fit, Ordered
    <3> QED BY <1>11, <3>1, <3>2, <3>3
  <2> QED BY <2>1 DEF Ordered
<1> QED BY <1>10, <1>13, <1>14, <1>15, <1>16, <1>17, <1>18, <1>19 DEF Fit

(* Node c goes, b is the one before it.                                    *)
Unlinks(sl, nx, pv, fr, us, sk, ny, pw, fs, ut, b, c) ==
  /\ \A t \in Sector : t # c => sk[t] = sl[t] /\ pw[t] = pv[t] /\ fs[t] = fr[t]
  /\ ny[b] = Invalid
  /\ \A t \in Sector : t # b /\ t # c => ny[t] = nx[t]
  /\ us \ {c} \subseteq ut

(* ccos_remove_content_inode.                                              *)
LEMMA FitUnlink ==
  ASSUME NEW sl \in [Sector -> Seq(Slot)], NEW nx, NEW pv, NEW fr, NEW us, NEW em,
         NEW f \in Files, NEW p, NEW d, Fit(sl, nx, pv, fr, us, em, f, p, d),
         NEW sk, NEW ny, NEW pw, NEW fs, NEW ut, NEW en,
         f \in em, f \notin en, NEW n \in Nat \ {0}, Len(p) = n + 1,
         Len(sl[p[n]]) = (IF n = 1 THEN InodeMax ELSE ContMax),
         Unlinks(sl, nx, pv, fr, us, sk, ny, pw, fs, ut, p[n], p[n + 1])
  PROVE  Fit(sk, ny, pw, fs, ut, en, f, SubSeq(p, 1, n), d)
<1> USE DEF Unlinks
<1>0. Shape(sl, f, p, d)
  BY FitView
<1>1. PICK q \in Sector, b \in Sector :
        q = p[n + 1] /\ b = p[n] /\ q = p[Len(p)]
  <2>1. n \in 1 .. Len(p) /\ n + 1 \in 1 .. Len(p)
    OBVIOUS
  <2>2. p[n] \in Sector /\ p[n + 1] \in Sector
    BY <1>0, <2>1 DEF Shape
  <2> QED BY <2>2
<1>2. PICK r \in Seq(Sector) :
        r = SubSeq(p, 1, n) /\ Len(r) = n /\ \A k \in 1 .. n : r[k] = p[k]
  <2>1. p \in Seq(Sector) /\ n \in Nat /\ n <= Len(p)
    BY <1>0 DEF Shape
  <2>2. /\ SubSeq(p, 1, n) \in Seq(Sector) /\ Len(SubSeq(p, 1, n)) = n
        /\ \A k \in 1 .. n : SubSeq(p, 1, n)[k] = p[k]
    BY <2>1
  <2> QED BY <2>2
<1>3. \A k \in 1 .. n : /\ r[k] \in Sector /\ r[k] # q /\ r[k] \in ToSet(p)
                        /\ (r[k] = b => k = n)
                        /\ sk[r[k]] = sl[p[k]] /\ pw[r[k]] = pv[p[k]]
                        /\ fs[r[k]] = fr[p[k]]
  <2>1. ASSUME NEW k \in 1 .. n
        PROVE  /\ r[k] \in Sector /\ r[k] # q /\ r[k] \in ToSet(p) /\ r[k] = p[k]
               /\ (r[k] = b => k = n)
    <3>1. /\ k \in 1 .. Len(p) /\ n + 1 \in 1 .. Len(p) /\ n \in 1 .. Len(p)
          /\ k # n + 1 /\ r[k] = p[k]
      BY <1>2
    <3> QED BY <1>0, <1>1, <3>1 DEF Shape
  <2> QED BY <1>1, <2>1
<1>4. \A k \in 1 .. n : r[k] = p[k] /\ k \in 1 .. Len(p) /\ k < Len(p)
  BY <1>2
<1>5. Tied(ny, pw, fs, f, r)
  <2>1. 1 \in 1 .. n /\ r[1] = f /\ p[1] = f /\ r # <<>>
    <3>1. 1 \in 1 .. n /\ Len(r) # 0
      BY <1>2
    <3>2. r # <<>>
      BY <3>1
    <3> QED BY <1>0, <1>2, <3>1, <3>2 DEF Shape
  <2>2. ASSUME NEW k \in 1 .. n
        PROVE  ny[r[k]] = IF k < n THEN r[k + 1] ELSE Invalid
    <3>1. CASE k = n
      BY <1>1, <1>2, <3>1
    <3>2. CASE k # n
      <4>1. k + 1 \in 1 .. n /\ k < n
        BY <3>2
      <4>2. nx[p[k]] = p[k + 1]
        BY <1>4 DEF Fit, Tied, Path
      <4>3. ny[r[k]] = nx[r[k]]
        BY <1>1, <1>3, <3>2
      <4> QED BY <1>4, <4>1, <4>2, <4>3
    <3> QED BY <3>1, <3>2
  <2>3. Path(ny, f, r)
    BY <1>2, <2>1, <2>2 DEF Path
  <2>4. IsInjective(r)
    <3>1. DOMAIN r = 1 .. n
      BY <1>2
    <3>2. ASSUME NEW j \in 1 .. n, NEW k \in 1 .. n, r[j] = r[k] PROVE j = k
      BY <1>0, <1>4, <3>2 DEF Shape
    <3> QED BY <3>1, <3>2 DEF IsInjective
  <2>5. pw[f] = Invalid /\ fs[f] = 0
    <3>1. pw[r[1]] = pv[p[1]] /\ fs[r[1]] = fr[p[1]]
      BY <1>3, <2>1
    <3> QED BY <2>1, <3>1 DEF Fit, Tied
  <2>6. ASSUME NEW k \in 2 .. n PROVE pw[r[k]] = r[k - 1] /\ fs[r[k]] = k - 1
    <3>1. k \in 1 .. n /\ k - 1 \in 1 .. n /\ k \in 2 .. Len(p)
      BY <1>4
    <3>2. pv[p[k]] = p[k - 1] /\ fr[p[k]] = k - 1
      BY <3>1 DEF Fit, Tied
    <3> QED BY <1>3, <1>4, <3>1, <3>2
  <2> QED BY <1>2, <2>3, <2>4, <2>5, <2>6 DEF Tied
<1>6. \A k \in 1 .. n : /\ ListOf(sl[p[k]]) \in Seq(Sector)
                        /\ ~(EndOf(sl[p[k]]) <= Len(sl[p[k]]))
  BY <1>4 DEF Fit, Fills
<1>7. Fills(sk, r)
  BY <1>2, <1>3, <1>6 DEF Fills
<1>8. EndOf(sl[b]) = Len(sl[b]) + 1 /\ Len(sl[b]) \in Nat \ {0} /\ sk[b] = sl[b]
  <2>1. n \in 1 .. n /\ r[n] = b
    BY <1>1, <1>2
  <2>2. EndOf(sl[b]) \in 1 .. Len(sl[b]) + 1 /\ Len(sl[b]) \in Nat
    BY ListOfIs
  <2>3. ~(EndOf(sl[b]) <= Len(sl[b])) /\ sk[b] = sl[b]
    BY <1>1, <1>3, <1>6, <2>1
  <2>4. Len(sl[b]) # 0
    BY <1>1, Constants
  <2> QED BY <2>2, <2>3, <2>4
<1>9. r[Len(r)] = b
  BY <1>1, <1>2
<1>10. Ending(sk, en, f, r)
  BY <1>8, <1>9 DEF Ending
<1>11. Left(sk, f, r)
  <2>1. Rest(sk[b], 0, Invalid)
    BY <1>8 DEF Rest
  <2>2. 0 \in Nat /\ Invalid \in Slot
    BY Constants
  <2> QED BY <1>9, <2>1, <2>2 DEF Left
<1>12. EndOf(sl[q]) = 1
  <2>1. Len(p) > 1
    OBVIOUS
  <2> QED BY <1>1, <2>1 DEF Fit, Ending
<1>13. Bears(sk, r, d)
  <2>1. /\ Len(Lists(sl, p)) = n + 1 /\ Len(Lists(sk, r)) = n
        /\ \A k \in 1 .. n + 1 : Lists(sl, p)[k] = ListOf(sl[p[k]])
        /\ \A k \in 1 .. n : Lists(sk, r)[k] = ListOf(sk[r[k]])
    BY <1>2 DEF Lists
  <2>2. \A k \in 1 .. n : /\ Lists(sk, r)[k] = Lists(sl, p)[k]
                          /\ Lists(sk, r)[k] \in Seq(Sector)
    <3>1. ASSUME NEW k \in 1 .. n
          PROVE  Lists(sk, r)[k] = Lists(sl, p)[k] /\ Lists(sk, r)[k] \in Seq(Sector)
      <4>1. k \in 1 .. n + 1
        OBVIOUS
      <4>2. Lists(sl, p)[k] = ListOf(sl[p[k]]) /\ Lists(sk, r)[k] = ListOf(sk[r[k]])
        BY <2>1, <4>1
      <4> QED BY <1>3, <1>6, <4>2
    <3> QED BY <3>1
  <2>3. OneMore(Lists(sk, r), Lists(sl, p), n)
    BY <2>1, <2>2 DEF OneMore
  <2>4. OneJoins(Lists(sk, r), Lists(sl, p), n)
    BY <2>3, FlattenMore
  <2>5. Lists(sl, p)[n + 1] = <<>>
    <3>1. n + 1 \in 1 .. n + 1
      OBVIOUS
    <3>2. Lists(sl, p)[n + 1] = ListOf(sl[q])
      BY <1>1, <2>1, <3>1
    <3>3. ListOf(sl[q]) \in Seq(Slot) /\ Len(ListOf(sl[q])) = EndOf(sl[q]) - 1
      BY ListOfIs
    <3>4. Len(ListOf(sl[q])) = 0
      BY <1>12, <3>3
    <3> QED BY <3>2, <3>3, <3>4, EmptySeq
  <2>6. d = FlattenSeq(Lists(sk, r)) \o <<>>
    BY <2>4, <2>5 DEF Fit, Bears, OneJoins
  <2>7. FlattenSeq(Lists(sk, r)) \in Seq(Sector)
    <3>1. n \in 1 .. n
      OBVIOUS
    <3>2. Lists(sk, r)[n] \in Seq(Sector)
      BY <2>2, <3>1
    <3>3. Alike(Lists(sk, r), Lists(sk, r), n, Sector)
      BY <2>1, <2>2, <3>2 DEF Alike
    <3>4. BeginAlike(Lists(sk, r), Lists(sk, r), n, Sector)
      BY <3>3, FlattenLast
    <3>5. PICK front \in Seq(Sector) : FlattenSeq(Lists(sk, r)) = front \o Lists(sk, r)[n]
      BY <3>4 DEF BeginAlike
    <3> QED BY <3>2, <3>5, ConcatProperties
  <2>8. d = FlattenSeq(Lists(sk, r))
    BY <2>6, <2>7, ConcatEmptySeq
  <2>9. Len(d) = Before(n) + EndOf(sk[b]) - 1
    <3>1. Len(d) = Before(n + 1) + EndOf(sl[q]) - 1
      BY <1>1 DEF Fit, Bears
    <3>2. /\ Before(n) \in Nat
          /\ n = 1 => Before(n + 1) = Before(n) + InodeMax
          /\ n # 1 => Before(n + 1) = Before(n) + ContMax
      BY BeforeIs
    <3>3. (n = 1 => Len(sl[b]) = InodeMax) /\ (n # 1 => Len(sl[b]) = ContMax)
      BY <1>1
    <3>4. Before(n + 1) = Before(n) + Len(sl[b])
      BY <3>2, <3>3
    <3> QED BY <1>8, <1>12, <3>1, <3>2, <3>4
  <2> QED BY <1>2, <1>9, <2>8, <2>9 DEF Fit, Bears
<1>14. q \notin ToSet(r) /\ q \notin ToSet(d) /\ ToSet(r) \subseteq ToSet(p)
  <2>1. q \in ToSet(p)
    BY <1>0, <1>1 DEF Shape
  <2>2. ToSet(r) = {r[k] : k \in 1 .. n}
    <3>1. DOMAIN r = 1 .. n
      BY <1>2
    <3> QED BY <3>1 DEF ToSet
  <2> QED BY <1>3, <2>1, <2>2 DEF Fit, Owns
<1>15. Owns(ut, r, d)
  BY <1>1, <1>14 DEF Fit, Owns, Members
<1>16. Ordered(fs, d)
  <2>1. ASSUME NEW k \in 1 .. Len(d) PROVE fs[d[k]] = k - 1
    <3>1. d[k] \in Sector /\ d[k] \in ToSet(d)
      BY <1>0 DEF Shape
    <3>2. d[k] # p[n + 1]
      BY <1>1, <1>14, <3>1
    <3> QED BY <3>1, <3>2 DEF Fit, Ordered
  <2> QED BY <2>1 DEF Ordered
<1> QED BY <1>2, <1>5, <1>7, <1>10, <1>11, <1>13, <1>15, <1>16 DEF Fit

-----------------------------------------------------------------------------
(***************************************************************************)
(* The steps.                                                              *)
(***************************************************************************)

LEMMA FileFit ==
  ASSUME Inductive, NEW f \in Files
  PROVE  /\ slots \in [Sector -> Seq(Slot)]
         /\ Fit(slots, next, prev, fragment, used, emptied, f, Nodes(f), DataOf(f))
         /\ Shape(slots, f, Nodes(f), DataOf(f))
<1>1. slots \in [Sector -> Seq(Slot)] /\ Whole(f)
  BY DEF Inductive, TypeOK
<1>2. Fit(slots, next, prev, fragment, used, emptied, f, Nodes(f), DataOf(f))
  BY <1>1, FitNow
<1>3. Shape(slots, f, Nodes(f), DataOf(f))
  BY <1>1, <1>2, FitView
<1> QED BY <1>1, <1>2, <1>3

(* A file none of whose sectors the step writes.                           *)
Spared(g) ==
  /\ \A s \in Held(g) : /\ slots'[s] = slots[s] /\ next'[s] = next[s]
                        /\ prev'[s] = prev[s] /\ fragment'[s] = fragment[s]
  /\ Held(g) \subseteq used'
  /\ g \in emptied <=> g \in emptied'

Unmoved(g) ==
  /\ Nodes(g)' = Nodes(g) /\ DataOf(g)' = DataOf(g) /\ Held(g)' = Held(g)
  /\ ChainOf(g)' = ChainOf(g) /\ TailOf(g)' = TailOf(g)

LEMMA Untouched ==
  ASSUME Inductive, NEW g \in Files, Spared(g)
  PROVE  Unmoved(g) /\ Whole(g)'
<1>1. Held(g) = Members(Nodes(g), DataOf(g))
  BY DEF Held, Members
<1>2. Fit(slots', next', prev', fragment', used', emptied', g, Nodes(g), DataOf(g))
  BY <1>1, FileFit, FitSame DEF Spared
<1>3. Nodes(g)' = Nodes(g) /\ DataOf(g)' = DataOf(g) /\ Whole(g)'
  BY <1>2, FitNext
<1>4. LastNode(g)' = LastNode(g) /\ ChainOf(g)' = ChainOf(g)
  BY <1>3 DEF LastNode, ChainOf
<1>5. slots'[LastNode(g)] = slots[LastNode(g)]
  BY View DEF Spared, Held
<1>6. TailOf(g)' = TailOf(g)
  BY <1>4, <1>5 DEF TailOf, EndSlot
<1> QED BY <1>3, <1>4, <1>6 DEF Unmoved, Held

(* The files after a step that gives f sectors nobody held.                *)
LEMMA FilesStep ==
  ASSUME Inductive, NEW f \in Files, Whole(f)',
         NEW N, Held(f)' \subseteq Held(f) \cup N,
         \A g \in Files : g # f => Spared(g) /\ Held(g) \cap N = {}
  PROVE  /\ \A g \in Files : Whole(g)'
         /\ \A g \in Files : g # f => Unmoved(g)
         /\ \A g, h \in Files : g # h => Held(g)' \cap Held(h)' = {}
<1>1. \A g \in Files : g # f => Unmoved(g) /\ Whole(g)'
  BY Untouched
<1>2. ASSUME NEW g \in Files, NEW h \in Files, g # h
      PROVE  Held(g)' \cap Held(h)' = {}
  <2>1. Held(g) \cap Held(h) = {}
    BY <1>2 DEF Inductive
  <2>2. CASE g # f /\ h # f
    BY <1>1, <2>1, <2>2 DEF Unmoved
  <2>3. CASE g = f
    <3>1. Held(h)' = Held(h) /\ Held(h) \cap N = {}
      BY <1>1, <1>2, <2>3 DEF Unmoved
    <3>2. Held(g)' \subseteq Held(g) \cup N
      BY <2>3
    <3> QED BY <2>1, <3>1, <3>2
  <2>4. CASE h = f
    <3>1. Held(g)' = Held(g) /\ Held(g) \cap N = {}
      BY <1>1, <1>2, <2>4 DEF Unmoved
    <3>2. Held(h)' \subseteq Held(h) \cup N
      BY <2>4
    <3> QED BY <2>1, <3>1, <3>2
  <2> QED BY <2>2, <2>3, <2>4
<1> QED BY <1>1, <1>2

LEMMA SomeFile ==
  ASSUME Inductive, \A g \in Files : Spared(g)
  PROVE  /\ \A g \in Files : Whole(g)' /\ Unmoved(g)
         /\ \A g, h \in Files : g # h => Held(g)' \cap Held(h)' = {}
<1>1. \A g \in Files : Unmoved(g) /\ Whole(g)'
  BY Untouched
<1>2. ASSUME NEW g \in Files, NEW h \in Files, g # h
      PROVE  Held(g)' \cap Held(h)' = {}
  BY <1>1, <1>2 DEF Unmoved, Inductive
<1> QED BY <1>1, <1>2

LEMMA Sized ==
  ASSUME Inductive, NEW f \in Files
  PROVE  \A k \in 1 .. Len(Nodes(f)) :
           Len(slots[Nodes(f)[k]]) = IF k = 1 THEN InodeMax ELSE ContMax
<1> SUFFICES ASSUME NEW k \in 1 .. Len(Nodes(f))
             PROVE  Len(slots[Nodes(f)[k]]) = IF k = 1 THEN InodeMax ELSE ContMax
  OBVIOUS
<1>1. Len(slots[Nodes(f)[k]]) = SlotsIn(Nodes(f)[k])
  BY View DEF Inductive, TypeOK
<1>2. CASE k = 1
  BY <1>1, <1>2, View DEF SlotsIn
<1>3. CASE k # 1
  <2>1. k \in 2 .. Len(Nodes(f))
    BY <1>3, View
  <2>2. Nodes(f)[k] \notin Files
    BY <2>1, View
  <2> QED BY <1>1, <1>3, <2>2 DEF SlotsIn
<1> QED BY <1>2, <1>3

(* No counter of fragments wraps: a file has no more sectors than the      *)
(* image.                                                                  *)
LEMMA NextNumber ==
  ASSUME Inductive, NEW f \in Files, f \notin emptied
  PROVE  NextFragment(LastNode(f)) = Len(DataOf(f))
<1> DEFINE p == Nodes(f)
           d == DataOf(f)
<1>0. /\ Fit(slots, next, prev, fragment, used, emptied, f, p, d)
      /\ Shape(slots, f, p, d) /\ slots \in [Sector -> Seq(Slot)]
  BY FileFit
<1>1. PICK q \in Sector : q = LastNode(f) /\ q = p[Len(p)]
  BY View
<1>2. EndSlot(q) \in 1 .. Len(slots[q]) + 1 /\ Len(slots[q]) \in Nat
  BY NodeList DEF Inductive
<1>3. EndSlot(q) = EndOf(slots[q])
  BY DEF EndSlot
<1>4. CASE EndSlot(q) = 1
  <2>1. Len(p) \in Nat \ {0} /\ ~(Len(p) > 1)
    BY <1>0, <1>1, <1>3, <1>4 DEF Shape, Fit, Ending
  <2>2. Len(p) = 1
    BY <2>1
  <2>3. Len(d) = Before(1) + 1 - 1
    BY <1>0, <1>1, <1>3, <1>4, <2>2 DEF Fit, Bears
  <2>4. Len(d) = 0
    BY <2>3 DEF Before
  <2> QED BY <1>1, <1>4, <2>4 DEF NextFragment
<1>5. CASE EndSlot(q) # 1
  <2>1. PICK i \in Nat \ {0} : EndSlot(q) = i + 1
    <3>1. EndSlot(q) - 1 \in Nat \ {0} /\ EndSlot(q) = (EndSlot(q) - 1) + 1
      BY <1>2, <1>5
    <3> QED BY <3>1
  <2>2. PICK x : x = slots[q][i]
    OBVIOUS
  <2>3. LastSlot(slots[p[Len(p)]], i, x)
    BY <1>1, <1>3, <2>1, <2>2 DEF LastSlot
  <2>4. IsLast(x, d)
    BY <1>0, <2>3, FitLastSector
  <2>5. fragment[x] = Len(d) - 1
    <3>1. Len(d) \in 1 .. Len(d) /\ x = d[Len(d)]
      BY <2>4 DEF IsLast
    <3> QED BY <1>0, <3>1 DEF Fit, Ordered
  <2>6. NextFragment(q) = (fragment[x] + 1) % CounterSpan
    <3>1. EndSlot(q) - 1 = i
      BY <2>1
    <3> QED BY <1>5, <2>2, <3>1 DEF NextFragment
  <2>7. Len(d) \in Nat /\ Len(d) <= NumSectors
    <3>1. d \in Seq(Sector) /\ IsInjective(d)
      BY <1>0 DEF Fit, Bears
    <3> QED BY <3>1, InjectiveShort
  <2>8. Len(d) \in 0 .. CounterSpan - 1 /\ CounterSpan \in Nat \ {0}
    <3>1. CounterSpan \in Nat \ {0}
      BY DEF CounterSpan
    <3>2. NumSectors \in Nat /\ NumSectors < CounterSpan
      BY SectorMapAssumption
    <3> HIDE DEF CounterSpan, d
    <3> QED BY <2>7, <3>1, <3>2
  <2>9. Len(d) % CounterSpan = Len(d)
    <3> HIDE DEF d, CounterSpan
    <3> QED BY <2>8
  <2>10. Len(d) - 1 + 1 = Len(d)
    BY <2>7
  <2> QED BY <1>1, <2>5, <2>6, <2>9, <2>10
<1> QED BY <1>4, <1>5

Sound ==
  /\ \A f \in Files : Whole(f)
  /\ \A f, g \in Files : f # g => Held(f) \cap Held(g) = {}

LEMMA MarkKeepsType ==
  ASSUME BitmapType, NEW s \in Sector, MarkUsed(s)
  PROVE  BitmapType'
<1>1. CounterSpan \in Nat \ {0}
  BY DEF CounterSpan
<1>2. (allocated + 1) % CounterSpan \in 0 .. CounterSpan - 1
  <2> HIDE DEF CounterSpan
  <2> QED BY <1>1 DEF BitmapType
<1> QED BY <1>2 DEF BitmapType, MarkUsed

LEMMA EraseKeepsType ==
  ASSUME BitmapType, NEW s \in Sector, EraseSector(s)
  PROVE  BitmapType'
<1>1. CounterSpan \in Nat \ {0}
  BY DEF CounterSpan
<1>2. (allocated - 1) % CounterSpan \in 0 .. CounterSpan - 1
  <2> HIDE DEF CounterSpan
  <2> QED BY <1>1 DEF BitmapType
<1> QED BY <1>2 DEF BitmapType, EraseSector

LEMMA FreeIsFree ==
  ASSUME NEW s, LowestFree(s)
  PROVE  s \in Sector \ used
BY DEF LowestFree, Available, Free

(* What a file holds is in use.                                            *)
LEMMA HeldUsed ==
  ASSUME Inductive, NEW f \in Files
  PROVE  /\ Held(f) \subseteq used /\ used \subseteq Sector
         /\ f \in Held(f) /\ LastNode(f) \in Held(f)
         /\ ToSet(Nodes(f)) \subseteq Held(f) /\ ToSet(DataOf(f)) \subseteq Held(f)
<1>1. Held(f) \subseteq used
  BY DEF Inductive, Whole, Apart, Held
<1>2. used \subseteq Sector
  BY DEF Inductive, TypeOK, BitmapType
<1> QED BY <1>1, <1>2, View DEF Held

(* ccos_add_sector_to_file, the last list has a slot left.                 *)
LEMMA ListedStep ==
  ASSUME Inductive, NEW f \in Files, NEW s \in Sector, AddSector(f, s),
         HasSlot(LastNode(f))
  PROVE  /\ Sound' /\ \A g \in Files : g # f => Unmoved(g)
         /\ Nodes(f)' = Nodes(f) /\ DataOf(f)' = Append(DataOf(f), s)
<1> DEFINE p == Nodes(f)
           d == DataOf(f)
           q == LastNode(f)
<1>1. /\ s \in Sector \ used /\ used' = used \cup {s} /\ emptied = {} /\ emptied' = {}
      /\ slots' = [slots EXCEPT ![q] = Listing(@, EndSlot(q), s)]
      /\ fragment' = [fragment EXCEPT ![s] = NextFragment(q)]
      /\ next' = next /\ prev' = prev
  BY FreeIsFree DEF AddSector, MarkUsed, Idle
<1>2. /\ slots \in [Sector -> Seq(Slot)] /\ fragment \in [Sector -> Int]
      /\ Fit(slots, next, prev, fragment, used, emptied, f, p, d)
      /\ q = p[Len(p)] /\ q \in Sector
  BY FileFit, View DEF Inductive, TypeOK
<1>3. NextFragment(q) = Len(d)
  BY <1>1, NextNumber
<1>4. /\ slots'[q] = Listing(slots[q], EndOf(slots[q]), s)
      /\ \A t \in Sector : t # q => slots'[t] = slots[t]
      /\ fragment'[s] = Len(d)
      /\ \A t \in Sector : t # s => fragment'[t] = fragment[t]
  BY <1>1, <1>2, <1>3 DEF EndSlot
<1>5. EndOf(slots[q]) <= Len(slots[q])
  BY DEF HasSlot, EndSlot
<1>6. Fit(slots', next, prev, fragment', used', emptied, f, p, Append(d, s))
  <2>1. f \notin emptied /\ used \cup {s} \subseteq used'
    BY <1>1
  <2>2. Extends(slots, fragment, used, slots', fragment', used', p[Len(p)], d, s)
    BY <1>2, <1>4, <1>5, <2>1 DEF Extends
  <2> HIDE DEF p, d, q
  <2> QED BY <1>1, <1>2, <2>1, <2>2, FitExtend
<1>7. Nodes(f)' = p /\ DataOf(f)' = Append(d, s) /\ Whole(f)'
  <2>1. Fit(slots', next', prev', fragment', used', emptied', f, p, Append(d, s))
    BY <1>1, <1>6
  <2> HIDE DEF p, d
  <2> QED BY <2>1, FitNext
<1>8. Held(f)' \subseteq Held(f) \cup {s}
  <2>1. ToSet(Append(d, s)) = ToSet(d) \cup {s}
    BY FileFit, AppendSet DEF Shape
  <2> QED BY <1>7, <2>1 DEF Held
<1>9. ASSUME NEW g \in Files, g # f PROVE Spared(g) /\ Held(g) \cap {s} = {}
  <2>1. Held(g) \subseteq used /\ Held(g) \subseteq Sector /\ q \notin Held(g)
    <3>1. q \in Held(f) /\ Held(f) \cap Held(g) = {}
      BY <1>9, HeldUsed DEF Inductive
    <3> QED BY <3>1, HeldUsed
  <2>2. s \notin Held(g)
    BY <1>1, <2>1
  <2> HIDE DEF p, d, q
  <2> QED BY <1>1, <1>4, <2>1, <2>2 DEF Spared
<1>10. Sound' /\ \A g \in Files : g # f => Unmoved(g)
  <2> HIDE DEF p, d, q
  <2>1. /\ \A g \in Files : Whole(g)'
        /\ \A g \in Files : g # f => Unmoved(g)
        /\ \A g, h \in Files : g # h => Held(g)' \cap Held(h)' = {}
    BY <1>7, <1>8, <1>9, FilesStep
  <2> QED BY <2>1 DEF Sound
<1> QED BY <1>7, <1>10

(* The last list is full: the sector is claimed, no file has it yet.       *)
LEMMA GrabbedStep ==
  ASSUME Inductive, NEW f \in Files, NEW s \in Sector, AddSector(f, s),
         ~HasSlot(LastNode(f))
  PROVE  Sound' /\ \A g \in Files : Unmoved(g)
<1>1. /\ s \in Sector \ used /\ used' = used \cup {s} /\ emptied' = emptied
      /\ fragment' = [fragment EXCEPT ![s] = NextFragment(LastNode(f))]
      /\ slots' = slots /\ next' = next /\ prev' = prev
  BY FreeIsFree DEF AddSector, MarkUsed
<1>2. fragment \in [Sector -> Int]
  BY DEF Inductive, TypeOK
<1>3. ASSUME NEW g \in Files PROVE Spared(g)
  <2>1. Held(g) \subseteq used /\ used \subseteq Sector
    BY HeldUsed
  <2> QED BY <1>1, <1>2, <2>1 DEF Spared
<1> QED BY <1>3, SomeFile DEF Sound

(* ccos_add_content_inode: the file's next sector is the one claimed.      *)
LEMMA LinkedStep ==
  ASSUME Inductive, NEW f \in Files, NEW s \in Sector, claimed = <<f, s>>,
         NEW c \in Sector, AddNode(c)
  PROVE  /\ Sound' /\ \A g \in Files : g # f => Unmoved(g)
         /\ Nodes(f)' = Append(Nodes(f), c) /\ DataOf(f)' = Append(DataOf(f), s)
<1> DEFINE p == Nodes(f)
           d == DataOf(f)
           q == LastNode(f)
<1>1. /\ c \in Sector \ used /\ used' = used \cup {c} /\ emptied' = emptied
      /\ next' = [next EXCEPT ![c] = Invalid, ![q] = c]
      /\ prev' = [prev EXCEPT ![c] = q]
      /\ fragment' = [fragment EXCEPT ![c] = fragment[q] + 1]
      /\ slots' = [slots EXCEPT ![c] = Listing(@, 1, s)]
  BY FreeIsFree DEF AddNode, MarkUsed, Linked
<1>2. /\ emptied = {} /\ ~HasSlot(q) /\ s \in used /\ fragment[s] = Len(d)
      /\ \A g \in Files : s \notin Held(g)
  BY DEF Inductive, Claim
<1>3. /\ slots \in [Sector -> Seq(Slot)] /\ fragment \in [Sector -> Int]
      /\ next \in [Sector -> Slot] /\ prev \in [Sector -> Slot]
      /\ Fit(slots, next, prev, fragment, used, emptied, f, p, d)
      /\ q = p[Len(p)] /\ q \in Sector /\ Len(p) \in Nat \ {0}
  BY FileFit, View DEF Inductive, TypeOK
<1>4. q \in used /\ q # c /\ s # c
  BY <1>1, <1>2, HeldUsed
<1>5. PICK w \in Slot : Allof(slots[c], w)
  <2>1. slots[c] = [i \in 1 .. ContMax |-> IF c \in pristine THEN PristineSlot ELSE 0]
    BY <1>1 DEF Inductive, Blank
  <2>2. ContMax \in Nat /\ 0 \in Slot /\ PristineSlot \in Slot
    BY Constants
  <2>3. CASE c \in pristine
    <3>1. Allof(slots[c], PristineSlot)
      BY <2>1, <2>2, <2>3 DEF Allof
    <3> QED BY <2>2, <3>1
  <2>4. CASE c \notin pristine
    <3>1. Allof(slots[c], 0)
      BY <2>1, <2>2, <2>4 DEF Allof
    <3> QED BY <2>2, <3>1
  <2> QED BY <2>3, <2>4
<1>6. Links(slots, next, prev, fragment, used, slots', next', prev', fragment',
            used', p[Len(p)], d, s, c)
  <2>1. slots'[c] = Listing(slots[c], 1, s) /\ \A t \in Sector : t # c => slots'[t] = slots[t]
    BY <1>1, <1>3
  <2>2. /\ next'[c] = Invalid /\ next'[q] = c
        /\ \A t \in Sector : t # c /\ t # q => next'[t] = next[t]
    BY <1>1, <1>3, <1>4
  <2>3. prev'[c] = q /\ \A t \in Sector : t # c => prev'[t] = prev[t]
    BY <1>1, <1>3
  <2>4. /\ fragment'[c] = fragment[q] + 1 /\ fragment'[s] = Len(d)
        /\ \A t \in Sector : t # c => fragment'[t] = fragment[t]
    BY <1>1, <1>2, <1>3, <1>4
  <2>5. used \cup {c, s} \subseteq used'
    BY <1>1, <1>2
  <2> HIDE DEF p, d, q
  <2> QED BY <1>3, <2>1, <2>2, <2>3, <2>4, <2>5 DEF Links
<1>7. Fit(slots', next', prev', fragment', used', emptied, f, Append(p, c), Append(d, s))
  <2>1. f \notin emptied /\ s \notin Members(p, d)
    BY <1>2 DEF Held, Members
  <2>2. ~(EndOf(slots[p[Len(p)]]) <= Len(slots[p[Len(p)]]))
    BY <1>2, <1>3 DEF HasSlot, EndSlot
  <2>3. Len(slots[p[Len(p)]]) = (IF Len(p) = 1 THEN InodeMax ELSE ContMax)
    <3>1. Len(p) \in 1 .. Len(p)
      BY <1>3
    <3> QED BY <3>1, Sized
  <2> HIDE DEF p, d, q
  <2> QED BY <1>1, <1>3, <1>4, <1>5, <1>6, <2>1, <2>2, <2>3, FitLink
<1>8. Nodes(f)' = Append(p, c) /\ DataOf(f)' = Append(d, s) /\ Whole(f)'
  <2>1. Fit(slots', next', prev', fragment', used', emptied', f, Append(p, c), Append(d, s))
    BY <1>1, <1>7
  <2> HIDE DEF p, d
  <2> QED BY <2>1, FitNext
<1>9. Held(f)' \subseteq Held(f) \cup {c, s}
  <2>1. ToSet(Append(d, s)) = ToSet(d) \cup {s} /\ ToSet(Append(p, c)) = ToSet(p) \cup {c}
    BY FileFit, AppendSet DEF Shape
  <2> QED BY <1>8, <2>1 DEF Held
<1>10. ASSUME NEW g \in Files, g # f PROVE Spared(g) /\ Held(g) \cap {c, s} = {}
  <2>1. Held(g) \subseteq used /\ Held(g) \subseteq Sector /\ q \notin Held(g)
    <3>1. q \in Held(f) /\ Held(f) \cap Held(g) = {}
      BY <1>10, HeldUsed DEF Inductive
    <3> QED BY <3>1, HeldUsed
  <2>2. c \notin Held(g) /\ s \notin Held(g)
    BY <1>1, <1>2, <2>1
  <2> HIDE DEF p, d, q
  <2> QED BY <1>1, <1>3, <2>1, <2>2 DEF Spared
<1>11. Sound' /\ \A g \in Files : g # f => Unmoved(g)
  <2> HIDE DEF p, d, q
  <2>1. /\ \A g \in Files : Whole(g)'
        /\ \A g \in Files : g # f => Unmoved(g)
        /\ \A g, h \in Files : g # h => Held(g)' \cap Held(h)' = {}
    BY <1>8, <1>9, <1>10, FilesStep
  <2> QED BY <2>1 DEF Sound
<1> QED BY <1>8, <1>11

(* No sector is left for a content inode: the claimed one is given back.   *)
LEMMA DroppedStep ==
  ASSUME Inductive, NEW f \in Files, NEW s \in Sector, claimed = <<f, s>>,
         AddNodeFails
  PROVE  Sound' /\ \A g \in Files : Unmoved(g)
<1>1. /\ used' = used \ {s} /\ emptied' = emptied
      /\ slots' = [slots EXCEPT ![s] = Zeroes] /\ next' = [next EXCEPT ![s] = 0]
      /\ prev' = [prev EXCEPT ![s] = 0] /\ fragment' = [fragment EXCEPT ![s] = Invalid]
  BY DEF AddNodeFails, Wipe, EraseSector
<1>2. \A g \in Files : s \notin Held(g)
  BY DEF Inductive, Claim
<1>3. /\ slots \in [Sector -> Seq(Slot)] /\ fragment \in [Sector -> Int]
      /\ next \in [Sector -> Slot] /\ prev \in [Sector -> Slot]
  BY DEF Inductive, TypeOK
<1>4. ASSUME NEW g \in Files PROVE Spared(g)
  <2>1. Held(g) \subseteq used /\ used \subseteq Sector /\ s \notin Held(g)
    BY <1>2, HeldUsed
  <2> QED BY <1>1, <1>3, <2>1 DEF Spared
<1> QED BY <1>4, SomeFile DEF Sound

(* ccos_remove_sector_from_file: x is the file's last sector, in slot i of *)
(* its last list.                                                          *)
Drops(f, i, x) ==
  /\ x \in Sector /\ x \in ToSet(DataOf(f)) /\ x # LastNode(f)
  /\ used' = used \ {x} /\ pristine' = pristine \ {x}
  /\ slots' = [slots EXCEPT ![x] = Zeroes, ![LastNode(f)][i] = Invalid]
  /\ next' = [next EXCEPT ![x] = 0] /\ prev' = [prev EXCEPT ![x] = 0]
  /\ fragment' = [fragment EXCEPT ![x] = Invalid]

LEMMA Dropping ==
  ASSUME Inductive, NEW f \in Files, RemoveSector(f)
  PROVE  \E i \in Nat \ {0} : \E x \in Sector :
           /\ LastSlot(slots[LastNode(f)], i, x) /\ Drops(f, i, x)
           /\ emptied = {} /\ EraseSector(x)
           /\ f \in emptied' <=> (LastNode(f) # f /\ i = 1)
           /\ emptied' \subseteq {f}
<1>1. PICK q \in Sector : q = LastNode(f)
  BY View
<1>2. PICK i \in Nat \ {0} : EndSlot(q) = i + 1 /\ EndSlot(q) - 1 = i
  <2>1. EndSlot(q) \in Nat
    <3>1. EndSlot(q) \in 1 .. Len(slots[q]) + 1 /\ Len(slots[q]) \in Nat
      BY NodeList DEF Inductive
    <3> QED BY <3>1
  <2>2. EndSlot(q) - 1 \in Nat \ {0} /\ EndSlot(q) = (EndSlot(q) - 1) + 1
    <3>1. EndSlot(q) - 1 > 0
      BY <1>1 DEF RemoveSector
    <3> QED BY <2>1, <3>1
  <2> QED BY <2>2
<1>3. PICK x : x = slots[q][i]
  OBVIOUS
<1>4. LastSlot(slots[q], i, x)
  BY <1>2, <1>3 DEF LastSlot, EndSlot
<1>5. IsLast(x, DataOf(f))
  <2>1. LastSlot(slots[Nodes(f)[Len(Nodes(f))]], i, x)
    BY <1>1, <1>4, View
  <2> QED BY <2>1, FileFit, FitLastSector
<1>6. x \in Sector /\ x \in ToSet(DataOf(f)) /\ x # q
  <2>1. x \in Sector /\ x \in ToSet(DataOf(f))
    BY <1>5 DEF IsLast
  <2>2. q \in ToSet(Nodes(f)) /\ ToSet(Nodes(f)) \cap ToSet(DataOf(f)) = {}
    BY <1>1, View DEF Inductive, Whole, Apart
  <2> QED BY <2>1, <2>2
<1>7. /\ used' = used \ {x} /\ pristine' = pristine \ {x}
      /\ slots' = [slots EXCEPT ![x] = Zeroes, ![q][i] = Invalid]
      /\ next' = [next EXCEPT ![x] = 0] /\ prev' = [prev EXCEPT ![x] = 0]
      /\ fragment' = [fragment EXCEPT ![x] = Invalid]
      /\ EraseSector(x)
  BY <1>1, <1>2, <1>3 DEF RemoveSector, Wipe, EraseSector
<1>8. Drops(f, i, x)
  BY <1>1, <1>6, <1>7 DEF Drops
<1>9. emptied = {} /\ emptied' = (IF EmptiesNode(f, q) THEN {f} ELSE {})
  BY <1>1 DEF RemoveSector, Idle
<1>10. EmptiesNode(f, q) <=> (q # f /\ i = 1)
  BY <1>2 DEF EmptiesNode
<1>11. (f \in emptied' <=> (q # f /\ i = 1)) /\ emptied' \subseteq {f}
  BY <1>9, <1>10
<1> QED BY <1>1, <1>4, <1>6, <1>7, <1>8, <1>9, <1>11

LEMMA CutStep ==
  ASSUME Inductive, NEW f \in Files, RemoveSector(f)
  PROVE  /\ Sound' /\ \A g \in Files : g # f => Unmoved(g)
         /\ Nodes(f)' = Nodes(f)
         /\ \E x \in Sector : \E g \in Seq(Sector) :
              /\ DataOf(f) = Append(g, x) /\ DataOf(f)' = g
<1> DEFINE p == Nodes(f)
           d == DataOf(f)
           q == LastNode(f)
<1>1. PICK i \in Nat \ {0} : \E x \in Sector :
        /\ LastSlot(slots[q], i, x) /\ Drops(f, i, x)
        /\ emptied = {} /\ (f \in emptied' <=> (q # f /\ i = 1))
        /\ emptied' \subseteq {f}
  BY Dropping
<1>2. PICK x \in Sector :
        /\ LastSlot(slots[q], i, x) /\ Drops(f, i, x)
        /\ emptied = {} /\ (f \in emptied' <=> (q # f /\ i = 1))
        /\ emptied' \subseteq {f}
  BY <1>1
<1>3. /\ slots \in [Sector -> Seq(Slot)] /\ fragment \in [Sector -> Int]
      /\ next \in [Sector -> Slot] /\ prev \in [Sector -> Slot]
      /\ Fit(slots, next, prev, fragment, used, emptied, f, p, d)
      /\ q = p[Len(p)] /\ q \in Sector
  BY FileFit, View DEF Inductive, TypeOK
<1>4. Cuts(slots, next, prev, fragment, used, slots', next', prev', fragment',
           used', p[Len(p)], i, x)
  <2>1. /\ slots'[q] = [slots[q] EXCEPT ![i] = Invalid]
        /\ \A t \in Sector : t # q /\ t # x => slots'[t] = slots[t]
    BY <1>2, <1>3 DEF Drops
  <2>2. \A t \in Sector : t # x => next'[t] = next[t] /\ prev'[t] = prev[t]
                                   /\ fragment'[t] = fragment[t]
    BY <1>2, <1>3 DEF Drops
  <2>3. used \ {x} \subseteq used'
    BY <1>2 DEF Drops
  <2> HIDE DEF p, d, q
  <2> QED BY <1>3, <2>1, <2>2, <2>3 DEF Cuts
<1>5. PICK g \in Seq(Sector) :
        /\ d = Append(g, x)
        /\ Fit(slots', next', prev', fragment', used', emptied', f, p, g)
  <2>1. LastSlot(slots[p[Len(p)]], i, x) /\ (f \in emptied' <=> (p[Len(p)] # f /\ i = 1))
    BY <1>2, <1>3
  <2>2. FitsCut(slots', next', prev', fragment', used', emptied', f, p, d, x)
    <3> HIDE DEF p, d, q
    <3> QED BY <1>3, <1>4, <2>1, FitCut
  <2> QED BY <2>2 DEF FitsCut
<1>6. Nodes(f)' = p /\ DataOf(f)' = g /\ Whole(f)'
  <2> HIDE DEF p, d
  <2> QED BY <1>5, FitNext
<1>7. Held(f)' \subseteq Held(f) \cup {}
  <2>1. ToSet(Append(g, x)) = ToSet(g) \cup {x}
    BY AppendSet
  <2> QED BY <1>5, <1>6, <2>1 DEF Held
<1>8. ASSUME NEW h \in Files, h # f PROVE Spared(h) /\ Held(h) \cap {} = {}
  <2>1. Held(h) \subseteq used /\ Held(h) \subseteq Sector /\ q \notin Held(h) /\ x \notin Held(h)
    <3>1. q \in Held(f) /\ x \in Held(f) /\ Held(f) \cap Held(h) = {}
      BY <1>2, <1>8, HeldUsed DEF Inductive, Drops
    <3> QED BY <3>1, HeldUsed
  <2>2. \A t \in Held(h) : /\ slots'[t] = slots[t] /\ next'[t] = next[t]
                           /\ prev'[t] = prev[t] /\ fragment'[t] = fragment[t]
    <3> HIDE DEF p, d, q
    <3> QED BY <1>3, <1>4, <2>1 DEF Cuts
  <2>3. Held(h) \subseteq used' /\ (h \in emptied <=> h \in emptied')
    BY <1>2, <1>8, <2>1 DEF Drops
  <2> QED BY <2>2, <2>3 DEF Spared
<1>9. Sound' /\ \A h \in Files : h # f => Unmoved(h)
  <2> HIDE DEF p, d, q
  <2>1. /\ \A h \in Files : Whole(h)'
        /\ \A h \in Files : h # f => Unmoved(h)
        /\ \A g1, h \in Files : g1 # h => Held(g1)' \cap Held(h)' = {}
    BY <1>6, <1>7, <1>8, FilesStep
  <2> QED BY <2>1 DEF Sound
<1> QED BY <1>5, <1>6, <1>9

(* ccos_remove_content_inode: the last content inode lists nothing.        *)
LEMMA UnlinkStep ==
  ASSUME Inductive, NEW f \in Files, RemoveNode(f)
  PROVE  /\ Sound' /\ \A g \in Files : g # f => Unmoved(g)
         /\ DataOf(f)' = DataOf(f)
         /\ \E n \in Nat \ {0} : /\ Len(Nodes(f)) = n + 1
                                 /\ Nodes(f)' = SubSeq(Nodes(f), 1, n)
<1> DEFINE p == Nodes(f)
           d == DataOf(f)
           q == LastNode(f)
<1>1. PICK n \in Nat \ {0} : Len(p) = n + 1 /\ Len(p) - 1 = n
  <2>1. f \in emptied /\ Filled(f)
    BY DEF RemoveNode, Inductive, Whole
  <2>2. PICK l \in Nat : l = Len(p)
    BY View
  <2>3. l > 1
    BY <2>1, <2>2 DEF Filled
  <2>4. l - 1 \in Nat \ {0} /\ l = (l - 1) + 1
    BY <2>3
  <2> QED BY <2>2, <2>4
<1>2. PICK b \in Sector : b = p[n] /\ b \in Held(f)
  <2>1. n \in 1 .. Len(p)
    BY <1>1
  <2> QED BY <2>1, View DEF Held
<1>3. /\ slots \in [Sector -> Seq(Slot)] /\ fragment \in [Sector -> Int]
      /\ next \in [Sector -> Slot] /\ prev \in [Sector -> Slot]
      /\ Fit(slots, next, prev, fragment, used, emptied, f, p, d)
      /\ q = p[n + 1] /\ q \in Sector /\ q \in Held(f)
  BY <1>1, FileFit, View DEF Inductive, TypeOK, Held
<1>4. b # q
  <2>1. n \in DOMAIN p /\ n + 1 \in DOMAIN p /\ n # n + 1
    BY <1>1, View
  <2> QED BY <1>2, <1>3, <2>1 DEF Fit, Tied, IsInjective
<1>5. /\ used' = used \ {q} /\ emptied = {f} /\ emptied' = {}
      /\ slots' = [slots EXCEPT ![q] = Zeroes]
      /\ next' = [next EXCEPT ![b] = Invalid, ![q] = 0]
      /\ prev' = [prev EXCEPT ![q] = 0]
      /\ fragment' = [fragment EXCEPT ![q] = Invalid]
  BY <1>1, <1>2 DEF RemoveNode, Wipe, EraseSector, LastNode
<1>6. Unlinks(slots, next, prev, fragment, used, slots', next', prev', fragment',
              used', p[n], p[n + 1])
  <2>1. \A t \in Sector : t # q => slots'[t] = slots[t] /\ prev'[t] = prev[t]
                                   /\ fragment'[t] = fragment[t]
    BY <1>3, <1>5
  <2>2. next'[b] = Invalid /\ \A t \in Sector : t # b /\ t # q => next'[t] = next[t]
    BY <1>3, <1>4, <1>5
  <2> HIDE DEF p, d, q
  <2> QED BY <1>2, <1>3, <1>5, <2>1, <2>2 DEF Unlinks
<1>7. Fit(slots', next', prev', fragment', used', emptied', f, SubSeq(p, 1, n), d)
  <2>1. Len(slots[p[n]]) = (IF n = 1 THEN InodeMax ELSE ContMax)
    <3>1. n \in 1 .. Len(p)
      BY <1>1
    <3> QED BY <3>1, Sized
  <2>2. f \in emptied /\ f \notin emptied'
    BY <1>5
  <2> HIDE DEF p, d, q
  <2> QED BY <1>1, <1>3, <1>6, <2>1, <2>2, FitUnlink
<1>8. Nodes(f)' = SubSeq(p, 1, n) /\ DataOf(f)' = d /\ Whole(f)'
  <2> HIDE DEF p, d
  <2> QED BY <1>7, FitNext
<1>9. Held(f)' \subseteq Held(f) \cup {}
  <2>1. ToSet(SubSeq(p, 1, n)) \subseteq ToSet(p)
    <3>1. p \in Seq(Sector) /\ n \in Nat /\ n <= Len(p)
      BY <1>1, View
    <3>2. /\ Len(SubSeq(p, 1, n)) = n /\ SubSeq(p, 1, n) \in Seq(Sector)
          /\ \A k \in 1 .. n : SubSeq(p, 1, n)[k] = p[k] /\ k \in DOMAIN p
      BY <3>1
    <3>3. DOMAIN SubSeq(p, 1, n) = 1 .. n
      BY <3>2
    <3> QED BY <3>2, <3>3 DEF ToSet
  <2> QED BY <1>8, <2>1 DEF Held
<1>10. ASSUME NEW h \in Files, h # f PROVE Spared(h) /\ Held(h) \cap {} = {}
  <2>1. Held(h) \subseteq used /\ Held(h) \subseteq Sector /\ q \notin Held(h) /\ b \notin Held(h)
    <3>1. Held(f) \cap Held(h) = {}
      BY <1>10 DEF Inductive
    <3> QED BY <1>2, <1>3, <3>1, HeldUsed
  <2>2. \A t \in Held(h) : /\ slots'[t] = slots[t] /\ next'[t] = next[t]
                           /\ prev'[t] = prev[t] /\ fragment'[t] = fragment[t]
    <3> HIDE DEF p, d, q
    <3> QED BY <1>2, <1>3, <1>6, <2>1 DEF Unlinks
  <2>3. Held(h) \subseteq used' /\ (h \in emptied <=> h \in emptied')
    BY <1>5, <1>10, <2>1
  <2> QED BY <2>2, <2>3 DEF Spared
<1>11. Sound' /\ \A h \in Files : h # f => Unmoved(h)
  <2> HIDE DEF p, d, q
  <2>1. /\ \A h \in Files : Whole(h)'
        /\ \A h \in Files : h # f => Unmoved(h)
        /\ \A g1, h \in Files : g1 # h => Held(g1)' \cap Held(h)' = {}
    BY <1>8, <1>9, <1>10, FilesStep
  <2> QED BY <2>1 DEF Sound
<1> QED BY <1>1, <1>8, <1>11

-----------------------------------------------------------------------------
(***************************************************************************)
(* The other parts of the invariant, step by step.                         *)
(***************************************************************************)

SlotsType(sl) ==
  sl \in [Sector -> Seq(Slot)] /\ \A s \in Sector : Len(sl[s]) = SlotsIn(s)

LEMMA SlotsKept ==
  ASSUME NEW sl, SlotsType(sl), NEW s \in Sector,
         NEW list \in Seq(Slot), Len(list) = SlotsIn(s)
  PROVE  SlotsType([sl EXCEPT ![s] = list])
BY DEF SlotsType

LEMMA ListingType ==
  ASSUME NEW list \in Seq(Slot), NEW i \in Nat, NEW s \in Sector
  PROVE  Listing(list, i, s) \in Seq(Slot) /\ Len(Listing(list, i, s)) = Len(list)
<1>1. s \in Slot /\ Invalid \in Slot /\ Len(list) \in Nat
  BY Constants
<1>2. ASSUME NEW j \in 1 .. Len(list) PROVE Listing(list, i, s)[j] \in Slot
  BY <1>1 DEF Listing
<1>3. Listing(list, i, s) \in [1 .. Len(list) -> Slot]
  BY <1>2 DEF Listing
<1> QED BY <1>1, <1>3

LEMMA ZeroesType == Zeroes \in Seq(Slot) /\ Len(Zeroes) = ContMax
<1>1. ContMax \in Nat /\ 0 \in Slot
  BY Constants
<1>2. Zeroes \in [1 .. ContMax -> Slot]
  BY <1>1 DEF Zeroes
<1> QED BY <1>1, <1>2

LEMMA ClearingType ==
  ASSUME NEW list \in Seq(Slot), NEW i \in Nat
  PROVE  /\ [list EXCEPT ![i] = Invalid] \in Seq(Slot)
         /\ Len([list EXCEPT ![i] = Invalid]) = Len(list)
<1>1. Invalid \in Slot /\ Len(list) \in Nat /\ list \in [1 .. Len(list) -> Slot]
  BY Constants
<1>2. [list EXCEPT ![i] = Invalid] \in [1 .. Len(list) -> Slot]
  BY <1>1
<1> QED BY <1>1, <1>2

(* No inode is a sector of a file's data, nor claimed, nor free.           *)
LEMMA InodesApart ==
  ASSUME Inductive, NEW f \in Files
  PROVE  /\ \A x \in ToSet(DataOf(f)) : x \notin Files
         /\ LastNode(f) # f => LastNode(f) \notin Files
         /\ Files \subseteq used
<1>1. \A g \in Files : g \in Held(g) /\ g \in ToSet(Nodes(g)) /\ g \in used
  BY HeldUsed, View
<1>2. ASSUME NEW x \in ToSet(DataOf(f)), x \in Files PROVE FALSE
  <2>1. x \in Held(f)
    BY DEF Held
  <2>2. x = f
    BY <1>1, <1>2, <2>1 DEF Inductive
  <2>3. ToSet(Nodes(f)) \cap ToSet(DataOf(f)) = {}
    BY DEF Inductive, Whole, Apart
  <2> QED BY <1>1, <2>2, <2>3
<1>3. ASSUME LastNode(f) # f PROVE LastNode(f) \notin Files
  <2>1. LastNode(f) \in Held(f)
    BY HeldUsed
  <2> QED BY <1>1, <1>3, <2>1 DEF Inductive
<1> QED BY <1>1, <1>2, <1>3

(* The claim and the checksums when no call is under way.                  *)
LEMMA AtRest ==
  ASSUME Inductive, emptied = {}
  PROVE  unsealed = {}
BY DEF Inductive, Sealed

(* What is free and not written stays blank.                               *)
LEMMA BlankKept ==
  ASSUME Blank, pristine' = pristine,
         \A t \in Sector \ used' : t \in Sector \ used /\ slots'[t] = slots[t]
  PROVE  Blank'
<1> SUFFICES ASSUME NEW c \in Sector \ used'
             PROVE  slots'[c] =
                      [i \in 1 .. ContMax |-> IF c \in pristine' THEN PristineSlot ELSE 0]
  BY DEF Blank
<1>1. c \in Sector \ used /\ slots'[c] = slots[c]
  OBVIOUS
<1>2. slots[c] = [i \in 1 .. ContMax |-> IF c \in pristine THEN PristineSlot ELSE 0]
  BY <1>1 DEF Blank
<1> QED BY <1>1, <1>2

LEMMA AddSectorKeeps ==
  ASSUME Inductive, NEW f \in Files, NEW s \in Sector, AddSector(f, s)
  PROVE  Inductive'
<1> DEFINE q == LastNode(f)
<1>1. /\ s \in Sector \ used /\ MarkUsed(s) /\ used' = used \cup {s} /\ pristine' = pristine
      /\ claimed = <<>> /\ emptied = {} /\ emptied' = {} /\ stray' = stray
      /\ fragment' = [fragment EXCEPT ![s] = NextFragment(q)]
      /\ next' = next /\ prev' = prev
  BY FreeIsFree DEF AddSector, MarkUsed, Idle
<1>2. NextFragment(q) = Len(DataOf(f)) /\ Len(DataOf(f)) \in Nat
  BY <1>1, NextNumber, FileFit DEF Shape
<1>3. TypeOK /\ q \in Sector /\ q \in used /\ unsealed = {}
  BY <1>1, View, HeldUsed, AtRest DEF Inductive
<1>4. SlotsType(slots)
  BY <1>3 DEF TypeOK, SlotsType
<1>5. /\ BitmapType' /\ next' \in [Sector -> Slot] /\ prev' \in [Sector -> Slot]
      /\ fragment' \in [Sector -> Int] /\ stray' \in BOOLEAN
  <2>1. BitmapType'
    BY <1>1, <1>3, MarkKeepsType DEF TypeOK
  <2> QED BY <1>1, <1>2, <1>3, <2>1 DEF TypeOK
<1>6. CASE HasSlot(q)
  <2>1. /\ slots' = [slots EXCEPT ![q] = Listing(slots[q], EndSlot(q), s)]
        /\ unsealed' = {} /\ claimed' = <<>>
    BY <1>1, <1>3, <1>4, <1>6 DEF AddSector, SlotsType
  <2>2. SlotsType(slots')
    <3>1. slots[q] \in Seq(Slot) /\ EndSlot(q) \in Nat
      BY <1>3, NodeList
    <3>2. /\ Listing(slots[q], EndSlot(q), s) \in Seq(Slot)
          /\ Len(Listing(slots[q], EndSlot(q), s)) = SlotsIn(q)
      BY <1>3, <1>4, <3>1, ListingType DEF SlotsType
    <3> QED BY <1>3, <1>4, <2>1, <3>2, SlotsKept
  <2>3. Sound'
    BY <1>6, ListedStep
  <2>4. TypeOK'
    BY <1>1, <1>5, <2>1, <2>2 DEF TypeOK, SlotsType
  <2>5. Claim'
    BY <2>1 DEF Claim
  <2>6. Blank'
    <3>1. \A c \in Sector \ used' : c \in Sector \ used /\ slots'[c] = slots[c]
      BY <1>1, <1>3, <1>4, <2>1 DEF SlotsType
    <3>2. Blank
      BY DEF Inductive
    <3> QED BY <1>1, <3>1, <3>2, BlankKept
  <2>7. Sealed'
    BY <2>1 DEF Sealed
  <2> QED BY <2>3, <2>4, <2>5, <2>6, <2>7 DEF Inductive, Sound
<1>7. CASE ~HasSlot(q)
  <2>1. slots' = slots /\ unsealed' = {} /\ claimed' = <<f, s>>
    BY <1>3, <1>7 DEF AddSector
  <2>2. Sound' /\ \A g \in Files : Unmoved(g)
    BY <1>7, GrabbedStep
  <2>3. TypeOK'
    BY <1>1, <1>3, <1>5, <2>1 DEF TypeOK
  <2>4. Claim'
    <3>1. LastNode(f)' = LastNode(f)
      BY <2>2 DEF LastNode, Unmoved
    <3>2. ~HasSlot(LastNode(f))'
      BY <1>7, <2>1, <3>1 DEF HasSlot, EndSlot
    <3>3. \A g \in Files : s \notin Held(g)'
      BY <1>1, <2>2, HeldUsed DEF Unmoved
    <3>4. fragment'[s] = Len(DataOf(f)')
      BY <1>1, <1>2, <1>3, <2>2 DEF Unmoved, TypeOK
    <3>5. s \in used'
      BY <1>1
    <3>6. \A g \in Files : \A t \in Sector : claimed' = <<g, t>> => g = f /\ t = s
      BY <2>1
    <3> QED BY <1>1, <3>2, <3>3, <3>4, <3>5, <3>6 DEF Claim
  <2>5. Blank'
    <3>1. \A c \in Sector \ used' : c \in Sector \ used /\ slots'[c] = slots[c]
      BY <1>1, <2>1
    <3>2. Blank
      BY DEF Inductive
    <3> QED BY <1>1, <3>1, <3>2, BlankKept
  <2>6. Sealed'
    BY <2>1 DEF Sealed
  <2> QED BY <2>2, <2>3, <2>4, <2>5, <2>6 DEF Inductive, Sound
<1> QED BY <1>6, <1>7

LEMMA AddNodeKeeps ==
  ASSUME Inductive, NEW c \in Sector, AddNode(c)
  PROVE  Inductive'
<1>1. PICK f \in Files, s \in Sector : claimed = <<f, s>>
  BY DEF AddNode, Inductive, TypeOK
<1> DEFINE q == LastNode(f)
<1>2. /\ c \in Sector \ used /\ MarkUsed(c) /\ used' = used \cup {c} /\ pristine' = pristine
      /\ emptied' = emptied /\ claimed' = <<>>
      /\ next' = [next EXCEPT ![c] = Invalid, ![q] = c]
      /\ prev' = [prev EXCEPT ![c] = q]
      /\ fragment' = [fragment EXCEPT ![c] = fragment[q] + 1]
      /\ slots' = [slots EXCEPT ![c] = Listing(@, 1, s)]
      /\ unsealed' \subseteq unsealed /\ stray' \in BOOLEAN
  BY <1>1, FreeIsFree DEF AddNode, MarkUsed, Linked, Inductive, TypeOK
<1>3. TypeOK /\ q \in Sector /\ q \in used /\ emptied = {} /\ unsealed = {}
  <2>1. emptied = {}
    BY <1>1 DEF Inductive, Claim
  <2> QED BY <2>1, View, HeldUsed, AtRest DEF Inductive
<1>4. SlotsType(slots)
  BY <1>3 DEF TypeOK, SlotsType
<1>5. SlotsType(slots')
  <2>1. slots[c] \in Seq(Slot) /\ Len(slots[c]) = SlotsIn(c)
    BY <1>4 DEF SlotsType
  <2>2. /\ Listing(slots[c], 1, s) \in Seq(Slot)
        /\ Len(Listing(slots[c], 1, s)) = SlotsIn(c)
    BY <2>1, ListingType
  <2>3. slots' = [slots EXCEPT ![c] = Listing(slots[c], 1, s)]
    BY <1>2, <1>4 DEF SlotsType
  <2> QED BY <1>4, <2>2, <2>3, SlotsKept
<1>6. /\ next' \in [Sector -> Slot] /\ prev' \in [Sector -> Slot]
      /\ fragment' \in [Sector -> Int]
  <2>1. c \in Slot /\ q \in Slot /\ Invalid \in Slot
    BY <1>3, Constants
  <2>2. fragment[q] \in Int
    BY <1>3 DEF TypeOK
  <2>3. fragment[q] + 1 \in Int
    BY <2>2
  <2> QED BY <1>2, <1>3, <2>1, <2>3 DEF TypeOK
<1>7. TypeOK'
  <2>1. BitmapType'
    BY <1>2, <1>3, MarkKeepsType DEF TypeOK
  <2> QED BY <1>2, <1>3, <1>5, <1>6, <2>1 DEF TypeOK, SlotsType
<1>8. Sound'
  BY <1>1, LinkedStep
<1>9. Claim'
  BY <1>2 DEF Claim
<1>10. Blank'
  <2>1. \A t \in Sector \ used' : t \in Sector \ used /\ slots'[t] = slots[t]
    BY <1>2, <1>4 DEF SlotsType
  <2>2. Blank
    BY DEF Inductive
  <2> QED BY <1>2, <2>1, <2>2, BlankKept
<1>11. Sealed'
  BY <1>2, <1>3 DEF Sealed
<1> QED BY <1>7, <1>8, <1>9, <1>10, <1>11 DEF Inductive, Sound

(* A sector that is erased is blank.                                       *)
Erased(x) ==
  /\ used' = used \ {x} /\ pristine' = pristine \ {x} /\ slots'[x] = Zeroes
  /\ \A t \in Sector : t # x /\ t \notin used => slots'[t] = slots[t]

LEMMA ErasedBlank ==
  ASSUME Inductive, NEW x \in Sector, Erased(x)
  PROVE  Blank'
<1>1. ASSUME NEW t \in Sector \ used'
      PROVE  slots'[t] = [i \in 1 .. ContMax |-> IF t \in pristine' THEN PristineSlot ELSE 0]
  <2>1. CASE t = x
    BY <2>1 DEF Erased, Zeroes
  <2>2. CASE t # x
    <3>1. t \in Sector \ used /\ (t \in pristine <=> t \in pristine')
      BY <2>2 DEF Erased
    <3>2. slots'[t] = slots[t]
      BY <2>2, <3>1 DEF Erased
    <3>3. slots[t] = [i \in 1 .. ContMax |-> IF t \in pristine THEN PristineSlot ELSE 0]
      BY <3>1 DEF Inductive, Blank
    <3> QED BY <3>1, <3>2, <3>3
  <2> QED BY <2>1, <2>2
<1> QED BY <1>1 DEF Blank

LEMMA AddNodeFailsKeeps ==
  ASSUME Inductive, AddNodeFails
  PROVE  Inductive'
<1>1. PICK f \in Files, s \in Sector : claimed = <<f, s>>
  BY DEF AddNodeFails, Inductive, TypeOK
<1>2. /\ EraseSector(s) /\ used' = used \ {s} /\ pristine' = pristine \ {s}
      /\ slots' = [slots EXCEPT ![s] = Zeroes] /\ next' = [next EXCEPT ![s] = 0]
      /\ prev' = [prev EXCEPT ![s] = 0] /\ fragment' = [fragment EXCEPT ![s] = Invalid]
      /\ claimed' = <<>> /\ unsealed' = unsealed /\ emptied' = emptied /\ stray' = stray
  BY <1>1 DEF AddNodeFails, Wipe, EraseSector
<1>3. TypeOK /\ emptied = {} /\ unsealed = {} /\ s \notin Files
  <2>1. emptied = {} /\ \A g \in Files : s \notin Held(g)
    BY <1>1 DEF Inductive, Claim
  <2>2. s \notin Files
    BY <2>1, HeldUsed
  <2> QED BY <2>1, <2>2, AtRest DEF Inductive
<1>4. SlotsType(slots)
  BY <1>3 DEF TypeOK, SlotsType
<1>5. SlotsType(slots')
  <2>1. Zeroes \in Seq(Slot) /\ Len(Zeroes) = SlotsIn(s)
    BY <1>3, ZeroesType DEF SlotsIn
  <2> QED BY <1>2, <1>4, <2>1, SlotsKept
<1>6. TypeOK'
  <2>1. BitmapType'
    BY <1>2, <1>3, EraseKeepsType DEF TypeOK
  <2>2. 0 \in Slot /\ Invalid \in Int
    BY Constants
  <2>3. /\ next' \in [Sector -> Slot] /\ prev' \in [Sector -> Slot]
        /\ fragment' \in [Sector -> Int]
    BY <1>2, <1>3, <2>2 DEF TypeOK
  <2> QED BY <1>2, <1>3, <1>5, <2>1, <2>3 DEF TypeOK, SlotsType
<1>7. Sound'
  BY <1>1, DroppedStep
<1>8. Claim'
  BY <1>2 DEF Claim
<1>9. Blank'
  <2>1. Erased(s)
    BY <1>2, <1>4 DEF Erased, SlotsType
  <2> QED BY <2>1, ErasedBlank
<1>10. Sealed'
  BY <1>2, <1>3 DEF Sealed
<1> QED BY <1>6, <1>7, <1>8, <1>9, <1>10 DEF Inductive, Sound

LEMMA RemoveSectorKeeps ==
  ASSUME Inductive, NEW f \in Files, RemoveSector(f)
  PROVE  Inductive'
<1>1. PICK q \in Sector : q = LastNode(f) /\ q \in used
  BY View, HeldUsed
<1>2. PICK i \in Nat \ {0} : \E x \in Sector :
        /\ Drops(f, i, x) /\ emptied = {} /\ EraseSector(x) /\ emptied' \subseteq {f}
  BY Dropping
<1>3. PICK x \in Sector :
        /\ Drops(f, i, x) /\ emptied = {} /\ EraseSector(x) /\ emptied' \subseteq {f}
  BY <1>2
<1>4. /\ x \in ToSet(DataOf(f)) /\ x # q
      /\ used' = used \ {x} /\ pristine' = pristine \ {x}
      /\ slots' = [slots EXCEPT ![x] = Zeroes, ![q][i] = Invalid]
      /\ next' = [next EXCEPT ![x] = 0] /\ prev' = [prev EXCEPT ![x] = 0]
      /\ fragment' = [fragment EXCEPT ![x] = Invalid]
  BY <1>1, <1>3 DEF Drops
<1>5. TypeOK /\ claimed = <<>> /\ claimed' = <<>> /\ stray' = stray /\ unsealed = {}
  BY <1>3, AtRest DEF RemoveSector, Idle, Inductive
<1>6. SlotsType(slots) /\ x \notin Files
  BY <1>4, <1>5, InodesApart DEF TypeOK, SlotsType
<1>7. SlotsType(slots')
  <2>1. Zeroes \in Seq(Slot) /\ Len(Zeroes) = SlotsIn(x)
    BY <1>6, ZeroesType DEF SlotsIn
  <2>2. SlotsType([slots EXCEPT ![x] = Zeroes])
    BY <1>6, <2>1, SlotsKept
  <2>3. PICK list \in Seq(Slot) : list = [slots[q] EXCEPT ![i] = Invalid] /\ Len(list) = SlotsIn(q)
    <3>1. slots[q] \in Seq(Slot) /\ Len(slots[q]) = SlotsIn(q)
      BY <1>6 DEF SlotsType
    <3>2. /\ [slots[q] EXCEPT ![i] = Invalid] \in Seq(Slot)
          /\ Len([slots[q] EXCEPT ![i] = Invalid]) = SlotsIn(q)
      BY <3>1, ClearingType
    <3> QED BY <3>2
  <2>4. slots' = [[slots EXCEPT ![x] = Zeroes] EXCEPT ![q] = list]
    BY <1>4, <1>6, <2>3 DEF SlotsType
  <2> QED BY <2>2, <2>3, <2>4, SlotsKept
<1>8. (unsealed' = {} /\ emptied' = {}) \/ (unsealed' = {q} /\ emptied' = {f})
  BY <1>1, <1>3, <1>5 DEF RemoveSector
<1>9. TypeOK'
  <2>1. BitmapType'
    BY <1>3, <1>5, EraseKeepsType DEF TypeOK
  <2>2. 0 \in Slot /\ Invalid \in Int
    BY Constants
  <2>3. /\ next' \in [Sector -> Slot] /\ prev' \in [Sector -> Slot]
        /\ fragment' \in [Sector -> Int]
    BY <1>4, <1>5, <2>2 DEF TypeOK
  <2>4. unsealed' \subseteq Sector /\ (emptied' = {} \/ \E g \in Files : emptied' = {g})
    BY <1>8
  <2> QED BY <1>5, <1>7, <2>1, <2>3, <2>4 DEF TypeOK, SlotsType
<1>10. Sound' /\ Nodes(f)' = Nodes(f)
  BY CutStep
<1>11. Claim'
  BY <1>5 DEF Claim
<1>12. Blank'
  <2>1. Erased(x)
    BY <1>1, <1>4, <1>6 DEF Erased, SlotsType
  <2> QED BY <2>1, ErasedBlank
<1>13. Sealed'
  <2>1. LastNode(f)' = q
    BY <1>1, <1>10 DEF LastNode
  <2> QED BY <1>8, <2>1 DEF Sealed
<1> QED BY <1>9, <1>10, <1>11, <1>12, <1>13 DEF Inductive, Sound

LEMMA RemoveNodeKeeps ==
  ASSUME Inductive, NEW f \in Files, RemoveNode(f)
  PROVE  Inductive'
<1>1. PICK q \in Sector : q = LastNode(f)
  BY View
<1>2. PICK b : b = Nodes(f)[Len(Nodes(f)) - 1]
  OBVIOUS
<1>3. /\ EraseSector(q) /\ used' = used \ {q} /\ pristine' = pristine \ {q}
      /\ emptied = {f} /\ emptied' = {} /\ claimed' = claimed /\ stray' = stray
      /\ slots' = [slots EXCEPT ![q] = Zeroes]
      /\ next' = [next EXCEPT ![b] = Invalid, ![q] = 0]
      /\ prev' = [prev EXCEPT ![q] = 0]
      /\ fragment' = [fragment EXCEPT ![q] = Invalid]
      /\ unsealed' = unsealed \ {q, b}
  BY <1>1, <1>2 DEF RemoveNode, Wipe, EraseSector, LastNode
<1>4. TypeOK /\ claimed = <<>> /\ unsealed' = {} /\ q \notin Files
  <2>1. claimed = <<>>
    <3>1. ASSUME NEW g \in Files, NEW s \in Sector, claimed = <<g, s>> PROVE FALSE
      BY <1>3, <3>1 DEF Inductive, Claim
    <3> QED BY <3>1 DEF Inductive, TypeOK
  <2>2. unsealed \subseteq {q}
    BY <1>1, <1>3 DEF Inductive, Sealed
  <2>3. q # f
    <3>1. f \in emptied /\ Filled(f)
      BY <1>3 DEF Inductive, Whole
    <3>2. Len(Nodes(f)) > 1
      BY <3>1 DEF Filled
    <3>3. Len(Nodes(f)) # 1
      BY <3>2, View
    <3> QED BY <1>1, <3>3, View
  <2> QED BY <1>1, <1>3, <2>1, <2>2, <2>3, InodesApart DEF Inductive
<1>5. SlotsType(slots)
  BY <1>4 DEF TypeOK, SlotsType
<1>6. SlotsType(slots')
  <2>1. Zeroes \in Seq(Slot) /\ Len(Zeroes) = SlotsIn(q)
    BY <1>4, ZeroesType DEF SlotsIn
  <2> QED BY <1>3, <1>5, <2>1, SlotsKept
<1>7. TypeOK'
  <2>1. BitmapType'
    BY <1>3, <1>4, EraseKeepsType DEF TypeOK
  <2>2. 0 \in Slot /\ Invalid \in Slot /\ Invalid \in Int
    BY Constants
  <2>3. /\ next' \in [Sector -> Slot] /\ prev' \in [Sector -> Slot]
        /\ fragment' \in [Sector -> Int]
    BY <1>3, <1>4, <2>2 DEF TypeOK
  <2> QED BY <1>3, <1>4, <1>6, <2>1, <2>3 DEF TypeOK, SlotsType
<1>8. Sound'
  BY UnlinkStep
<1>9. Claim'
  BY <1>3, <1>4 DEF Claim
<1>10. Blank'
  <2>1. Erased(q)
    BY <1>3, <1>5 DEF Erased, SlotsType
  <2> QED BY <2>1, ErasedBlank
<1>11. Sealed'
  BY <1>4 DEF Sealed
<1> QED BY <1>7, <1>8, <1>9, <1>10, <1>11 DEF Inductive, Sound

LEMMA NextInductive == Inductive /\ [Next]_contVars => Inductive'
<1> SUFFICES ASSUME Inductive, [Next]_contVars PROVE Inductive'
  OBVIOUS
<1>1. ASSUME NEW f \in Files, NEW s \in Sector, AddSector(f, s) PROVE Inductive'
  BY <1>1, AddSectorKeeps
<1>2. ASSUME NEW c \in Sector, AddNode(c) PROVE Inductive'
  BY <1>2, AddNodeKeeps
<1>3. ASSUME AddNodeFails PROVE Inductive'
  BY <1>3, AddNodeFailsKeeps
<1>4. ASSUME NEW f \in Files, RemoveSector(f) PROVE Inductive'
  BY <1>4, RemoveSectorKeeps
<1>5. ASSUME NEW f \in Files, RemoveNode(f) PROVE Inductive'
  BY <1>5, RemoveNodeKeeps
<1>6. CASE UNCHANGED contVars
  <2>1. /\ used' = used /\ allocated' = allocated /\ pristine' = pristine
        /\ slots' = slots /\ next' = next /\ prev' = prev /\ fragment' = fragment
        /\ unsealed' = unsealed /\ claimed' = claimed /\ emptied' = emptied
        /\ stray' = stray
    BY <1>6 DEF contVars, bitmapVars, nodeVars, callVars
  <2>2. \A f \in Files : Spared(f)
    BY <2>1, HeldUsed DEF Spared
  <2>3. Sound' /\ \A f \in Files : Unmoved(f)
    BY <2>2, SomeFile DEF Sound
  <2>4. TypeOK' /\ Blank'
    BY <2>1 DEF Inductive, TypeOK, BitmapType, Blank
  <2>5. Claim' /\ Sealed'
    <3>1. \A f \in Files : LastNode(f)' = LastNode(f)
      BY <2>3 DEF LastNode, Unmoved
    <3>2. \A f \in Files : ~HasSlot(LastNode(f)) => ~HasSlot(LastNode(f))'
      BY <2>1, <3>1 DEF HasSlot, EndSlot
    <3>3. Claim'
      BY <2>1, <2>3, <3>2 DEF Inductive, Claim, Unmoved
    <3>4. emptied \subseteq Files
      BY DEF Inductive, TypeOK
    <3> QED BY <2>1, <3>1, <3>3, <3>4 DEF Inductive, Sealed
  <2> QED BY <2>3, <2>4, <2>5 DEF Inductive, Sound
<1> QED BY <1>1, <1>2, <1>3, <1>4, <1>5, <1>6 DEF Next

LEMMA FlattenOne ==
  ASSUME NEW a, Len(a) = 1
  PROVE  FlattenSeq(a) = a[1]
<1>1. 1 \in Nat \ {0} /\ 1 \in 1 .. 1
  OBVIOUS
<1>2. PICK g : Joins(a, 1, g)
  BY <1>1, JoinsExists
<1>3. FlattenSeq(a) = g[1]
  BY <1>1, <1>2, FlattenIs
<1>4. g[1] = a[1]
  BY <1>1, <1>2 DEF Joins
<1> QED BY <1>3, <1>4

(* FitNext, of the state itself.                                           *)
LEMMA FitState ==
  ASSUME NEW f \in Files, NEW p, NEW d,
         Fit(slots, next, prev, fragment, used, emptied, f, p, d)
  PROVE  Nodes(f) = p /\ DataOf(f) = d /\ Whole(f)
<1>1. Path(next, f, p) /\ IsInjective(p)
  BY DEF Fit, Tied
<1>2. Nodes(f) = p
  BY <1>1, NodesAre DEF Nodes
<1>3. DataOf(f) = FlattenSeq(Lists(slots, Nodes(f)))
  BY DEF DataOf, Lists, Listed, ListOf, EndSlot
<1>4. DataOf(f) = d
  BY <1>2, <1>3 DEF Fit, Bears
<1>5. Threaded(f)
  BY <1>1, <1>2 DEF Fit, Threaded, Tied
<1>6. Filled(f)
  BY <1>2 DEF Fit, Filled, Fills, Ending, Listed, ListOf, HasSlot, EndSlot, Last
<1>7. Counted(f)
  BY <1>2, <1>4 DEF Fit, Bears, Counted, EndSlot, LastNode, Last
<1>8. Behind(f)
  BY <1>2 DEF Fit, Left, Rest, Behind, EndSlot, LastNode, Last
<1>9. Apart(f)
  BY <1>1, <1>2, <1>4 DEF Fit, Bears, Owns, Members, Apart
<1>10. Numbers(f)
  BY <1>4 DEF Fit, Ordered, Numbers
<1> QED BY <1>2, <1>4, <1>5, <1>6, <1>7, <1>8, <1>9, <1>10 DEF Whole

(* A new inode has no content inodes and lists nothing.                    *)
LEMMA NewInode ==
  ASSUME Init, NEW f \in Files
  PROVE  Fit(slots, next, prev, fragment, used, emptied, f, <<f>>, <<>>)
<1>1. PICK p \in Seq(Sector) : p = <<f>> /\ Len(p) = 1 /\ p[1] = f /\ p # <<>>
  <2>1. f \in Sector
    BY Constants
  <2>2. <<f>> \in Seq(Sector) /\ Len(<<f>>) = 1 /\ <<f>>[1] = f /\ <<f>> # <<>>
    BY <2>1
  <2> QED BY <2>2
<1>2. PICK d \in Seq(Sector) : d = <<>> /\ Len(d) = 0
  <2>1. <<>> \in Seq(Sector) /\ Len(<<>>) = 0
    OBVIOUS
  <2> QED BY <2>1
<1>3. f \in Sector /\ InodeMax \in Nat \ {0} /\ Invalid \in Slot
  BY Constants
<1>4. PICK list \in Seq(Slot) :
        /\ list = slots[f] /\ Len(list) = InodeMax
        /\ \A i \in 1 .. InodeMax : list[i] = Invalid
  <2>1. slots[f] = [i \in 1 .. InodeMax |-> Invalid]
    BY <1>3 DEF Init
  <2>2. /\ slots[f] \in Seq(Slot) /\ Len(slots[f]) = InodeMax
        /\ \A i \in 1 .. InodeMax : slots[f][i] = Invalid
    BY <1>3, <2>1
  <2> QED BY <2>2
<1>5. EndOf(list) = 1
  <2>1. 1 \in 1 .. Len(list) + 1 /\ Ends(list, 1)
    BY <1>3, <1>4 DEF Ends
  <2> QED BY <2>1, EndOfIs
<1>6. ListOf(list) = <<>>
  <2>1. ListOf(list) \in Seq(Slot) /\ Len(ListOf(list)) = 1 - 1
    BY <1>5, ListOfIs
  <2> QED BY <2>1, EmptySeq
<1>7. next[f] = Invalid /\ prev[f] = Invalid /\ fragment[f] = 0 /\ emptied = {}
      /\ f \in used
  BY <1>3 DEF Init
<1>8. Tied(next, prev, fragment, f, p)
  <2>1. Path(next, f, p)
    BY <1>1, <1>7 DEF Path
  <2>2. IsInjective(p)
    BY <1>1 DEF IsInjective
  <2> QED BY <1>1, <1>7, <2>1, <2>2 DEF Tied
<1>9. Fills(slots, p)
  <2>1. ASSUME NEW k \in 1 .. Len(p)
        PROVE  k = 1 /\ ~(k < Len(p)) /\ ListOf(slots[p[k]]) = d
    BY <1>1, <1>2, <1>4, <1>6
  <2> QED BY <2>1 DEF Fills
<1>10. Ending(slots, emptied, f, p)
  BY <1>1, <1>7 DEF Ending
<1>11. Bears(slots, p, d)
  <2>1. Len(Lists(slots, p)) = 1 /\ Lists(slots, p)[1] = <<>>
    BY <1>1, <1>4, <1>6 DEF Lists
  <2>2. d = FlattenSeq(Lists(slots, p))
    BY <1>2, <2>1, FlattenOne
  <2>3. IsInjective(d)
    BY <1>2 DEF IsInjective
  <2>4. Len(d) = Before(Len(p)) + EndOf(slots[p[Len(p)]]) - 1
    BY <1>1, <1>2, <1>4, <1>5 DEF Before
  <2> QED BY <2>2, <2>3, <2>4 DEF Bears
<1>12. Left(slots, f, p)
  <2>1. Rest(list, 0, Invalid)
    <3>1. ASSUME NEW j \in EndOf(list) + 1 .. Len(list) PROVE list[j] = Invalid
      BY <1>4, <1>5
    <3> QED BY <3>1 DEF Rest
  <2>2. 0 \in Nat /\ p[Len(p)] = f
    BY <1>1
  <2> QED BY <1>3, <1>4, <2>1, <2>2 DEF Left
<1>13. Owns(used, p, d)
  <2>1. ToSet(p) = {f} /\ ToSet(d) = {}
    BY <1>1, <1>2 DEF ToSet
  <2> QED BY <1>7, <2>1 DEF Owns, Members
<1>14. Ordered(fragment, d)
  BY <1>2 DEF Ordered
<1> QED BY <1>1, <1>2, <1>8, <1>9, <1>10, <1>11, <1>12, <1>13, <1>14 DEF Fit

LEMMA InitInductive == Init => Inductive
<1> SUFFICES ASSUME Init PROVE Inductive
  OBVIOUS
<1>1. \A f \in Files : Nodes(f) = <<f>> /\ DataOf(f) = <<>> /\ Whole(f)
  BY NewInode, FitState
<1>2. \A f \in Files : Held(f) = {f}
  <2>1. ASSUME NEW f \in Files PROVE ToSet(<<f>>) = {f} /\ ToSet(<<>>) = {}
    BY DEF ToSet
  <2> QED BY <1>1, <2>1 DEF Held
<1>3. TypeOK
  <2>1. used \subseteq Sector /\ pristine \subseteq Sector
    BY SectorMapAssumption, Constants DEF Init
  <2>2. allocated \in 0 .. CounterSpan - 1
    <3>1. IsFiniteSet(Sector) /\ Cardinality(Sector) = NumSectors
      <4>1. /\ 0 \in Int /\ NumSectors - 1 \in Int /\ ~(0 > NumSectors - 1)
            /\ (NumSectors - 1) - 0 + 1 = NumSectors
        BY Constants
      <4> QED BY <4>1, FS_Interval DEF Sector
    <3>2. IsFiniteSet(used) /\ Cardinality(used) <= NumSectors
      BY <2>1, <3>1, FS_Subset
    <3>3. Cardinality(used) \in Nat
      BY <3>2, FS_CardinalityType
    <3>4. NumSectors \in Nat /\ NumSectors < CounterSpan /\ CounterSpan \in Nat
      BY SectorMapAssumption DEF CounterSpan
    <3>5. Cardinality(used) \in 0 .. CounterSpan - 1
      <4> HIDE DEF CounterSpan
      <4> QED BY <3>2, <3>3, <3>4
    <3> QED BY <3>5 DEF Init
  <2>3. SlotsType(slots)
    <3>1. ASSUME NEW s \in Sector PROVE slots[s] \in Seq(Slot) /\ Len(slots[s]) = SlotsIn(s)
      <4>1. CASE s \in Files
        <5>1. slots[s] = [i \in 1 .. InodeMax |-> Invalid] /\ SlotsIn(s) = InodeMax
          BY <4>1 DEF Init, SlotsIn
        <5> QED BY <5>1, Constants
      <4>2. CASE s \notin Files
        <5>1. slots[s] = [i \in 1 .. ContMax |-> PristineSlot] /\ SlotsIn(s) = ContMax
          BY <4>2 DEF Init, SlotsIn
        <5> QED BY <5>1, Constants
      <4> QED BY <4>1, <4>2
    <3>2. DOMAIN slots = Sector /\ slots = [s \in Sector |-> slots[s]]
      BY DEF Init
    <3> QED BY <3>1, <3>2 DEF SlotsType
  <2>4. /\ next \in [Sector -> Slot] /\ prev \in [Sector -> Slot]
        /\ fragment \in [Sector -> Int]
    <3>1. Invalid \in Slot /\ PristineSlot \in Slot /\ PristineSlot \in Int /\ 0 \in Int
      BY Constants
    <3> QED BY <3>1 DEF Init
  <2>5. /\ unsealed \subseteq Sector /\ claimed = <<>> /\ emptied = {} /\ stray \in BOOLEAN
    BY DEF Init
  <2> QED BY <2>1, <2>2, <2>3, <2>4, <2>5 DEF TypeOK, BitmapType, SlotsType
<1>4. Claim
  <2>1. claimed = <<>>
    BY DEF Init
  <2> QED BY <2>1 DEF Claim
<1>5. Blank
  <2>1. ASSUME NEW c \in Sector \ used
        PROVE  slots[c] = [i \in 1 .. ContMax |-> IF c \in pristine THEN PristineSlot ELSE 0]
    <3>1. c \notin Files /\ c \in pristine
      BY DEF Init
    <3>2. slots[c] = [i \in 1 .. ContMax |-> PristineSlot]
      BY <3>1 DEF Init
    <3> QED BY <3>1, <3>2
  <2> QED BY <2>1 DEF Blank
<1>6. Sealed
  BY DEF Init, Sealed
<1> QED BY <1>1, <1>2, <1>3, <1>4, <1>5, <1>6 DEF Inductive

-----------------------------------------------------------------------------
(***************************************************************************)
(* The theorems.                                                           *)
(***************************************************************************)

(* The invariant holds: whatever is added to files and removed from them,  *)
(* their links, slots, fragment numbers and checksums stay as described.   *)
THEOREM ListsWhole == Spec => []Inductive
<1>1. Init => Inductive
  BY InitInductive
<1>2. Inductive /\ [Next]_contVars => Inductive'
  BY NextInductive
<1> QED BY <1>1, <1>2, PTL DEF Spec

(* The variables have their types in every state: slots and links are      *)
(* 16-bit numbers, and every list keeps its length.                        *)
THEOREM ListsTyped == Spec => []TypeOK
<1>1. Inductive => TypeOK
  BY DEF Inductive
<1> QED BY <1>1, ListsWhole, PTL

(* The data sectors of a file are numbered in the order of its lists, and  *)
(* the numbers do not wrap, for images of any size and nodes of any        *)
(* capacity (ccos_add_sector_to_file).                                     *)
THEOREM NumbersFollowLists == Spec => []FragmentsInOrder
<1>1. Inductive => FragmentsInOrder
  BY DEF Inductive, Whole, Numbers, FragmentsInOrder
<1> QED BY <1>1, ListsWhole, PTL

(* Links forth and back agree, have no cycle and meet no other file's      *)
(* (ccos_add_content_inode, ccos_remove_content_inode).                    *)
THEOREM LinksSound == Spec => []ChainSound
<1>1. Inductive => ChainSound
  <2> SUFFICES ASSUME Inductive, NEW f \in Files
               PROVE  /\ next[Last(Nodes(f))] = Invalid
                      /\ prev[f] = Invalid
                      /\ \A k \in 2 .. Len(Nodes(f)) :
                           /\ Nodes(f)[k] \in used
                           /\ prev[Nodes(f)[k]] = Nodes(f)[k - 1]
                           /\ fragment[Nodes(f)[k]] = k - 1
                      /\ \A g \in Files \ {f} : ToSet(Nodes(f)) \cap ToSet(Nodes(g)) = {}
    BY DEF ChainSound
  <2>1. next[Last(Nodes(f))] = Invalid
    BY View DEF LastNode
  <2>2. Threaded(f)
    BY DEF Inductive, Whole
  <2>3. ASSUME NEW k \in 2 .. Len(Nodes(f)) PROVE Nodes(f)[k] \in used
    <3>1. k \in 1 .. Len(Nodes(f))
      BY View
    <3> QED BY <3>1, View, HeldUsed
  <2>4. ASSUME NEW g \in Files \ {f} PROVE ToSet(Nodes(f)) \cap ToSet(Nodes(g)) = {}
    BY HeldUsed DEF Inductive
  <2> QED BY <2>1, <2>2, <2>3, <2>4 DEF Threaded
<1> QED BY <1>1, ListsWhole, PTL

(* A call that returns leaves no node of a file whose checksums are out of *)
(* date.                                                                   *)
THEOREM SealedWhenIdle == Spec => []SealedAtRest
<1>1. Inductive => SealedAtRest
  BY DEF Inductive, Sealed, SealedAtRest, Idle
<1> QED BY <1>1, ListsWhole, PTL

-----------------------------------------------------------------------------
(***************************************************************************)
(* What is read behind a marker.                                           *)
(***************************************************************************)

LEMMA InImageType ==
  ASSUME NEW list \in Seq(Slot)
  PROVE  InImage(list) \in Seq(Sector)
<1>1. Len(list) \in Nat /\ Len(list) \in 0 .. Len(list)
  OBVIOUS
<1>2. PICK g : Keeps(list, Len(list), g)
  BY <1>1, KeepsExists
<1>3. InImage(list) = g[Len(list)]
  BY <1>2, InImageIs
<1> QED BY <1>1, <1>2, <1>3, KeepsType

Empty(list) == list = <<>>

LEMMA InImageEmpty == ASSUME NEW list, Empty(list) PROVE InImage(list) = <<>>
<1>1. list \in Seq(Sector) /\ list \in Seq(Slot) /\ list = <<>>
  BY DEF Empty
<1> QED BY <1>1, InImageAll

(* The slots behind the marker.                                            *)
BehindOf(list) == SubSeq(list, EndOf(list) + 1, Len(list))

LEMMA BehindIs ==
  ASSUME NEW list \in Seq(Slot), NEW e \in Nat \ {0}, e = EndOf(list)
  PROVE  /\ BehindOf(list) \in Seq(Slot)
         /\ e <= Len(list) => Len(BehindOf(list)) = Len(list) - e
         /\ e >= Len(list) => Empty(BehindOf(list))
         /\ \A j \in 1 .. Len(list) - e : BehindOf(list)[j] = list[e + j]
<1>1. PICK l \in Nat : l = Len(list) /\ \A j \in 1 .. l : list[j] \in Slot
  <2>1. Len(list) \in Nat /\ \A j \in 1 .. Len(list) : list[j] \in Slot
    OBVIOUS
  <2> QED BY <2>1
<1>2. PICK a \in Int : a = e + 1
  <2>1. e + 1 \in Int
    OBVIOUS
  <2> QED BY <2>1
<1>3. \A j \in a .. l : list[j] \in Slot
  BY <1>1, <1>2
<1>4. /\ SubSeq(list, a, l) \in Seq(Slot)
      /\ Len(SubSeq(list, a, l)) = IF a <= l THEN l - a + 1 ELSE 0
      /\ \A j \in 1 .. l - a + 1 : SubSeq(list, a, l)[j] = list[a + j - 1]
  <2>1. l \in Int
    OBVIOUS
  <2> QED BY <1>3, <2>1, SubSeqProperties
<1>5. PICK rest : rest = SubSeq(list, a, l) /\ rest = BehindOf(list)
  BY <1>1, <1>2 DEF BehindOf
<1>6. e <= l => Len(rest) = l - e
  BY <1>2, <1>4, <1>5
<1>7. ASSUME NEW j \in 1 .. l - e PROVE rest[j] = list[e + j]
  <2>1. j \in 1 .. l - a + 1 /\ a + j - 1 = e + j
    BY <1>2
  <2>2. rest[j] = list[a + j - 1]
    BY <1>4, <1>5, <2>1
  <2> QED BY <2>1, <2>2
<1>8. e >= l => Empty(rest)
  <2>1. e >= l => l < a
    BY <1>2
  <2>2. a \in Int /\ l \in Int
    OBVIOUS
  <2>3. l < a => SubSeq(list, a, l) = <<>>
    BY <2>2, SubSeqEmpty
  <2> QED BY <1>5, <2>1, <2>3 DEF Empty
<1> QED BY <1>1, <1>4, <1>5, <1>6, <1>7, <1>8

(* A list read to its end is what it lists, then what is behind.           *)
LEMMA ReadList ==
  ASSUME NEW list \in Seq(Slot), ListOf(list) \in Seq(Sector)
  PROVE  /\ InImage(list) = ListOf(list) \o InImage(BehindOf(list))
         /\ InImage(list) \in Seq(Sector) /\ InImage(BehindOf(list)) \in Seq(Sector)
         /\ EndOf(list) >= Len(list) + 1 => InImage(list) = ListOf(list)
<1>1. PICK e \in Nat \ {0} : e = EndOf(list) /\ e \in 1 .. Len(list) + 1
  <2>1. EndOf(list) \in 1 .. Len(list) + 1 /\ Len(list) \in Nat
    BY ListOfIs
  <2>2. EndOf(list) \in Nat \ {0}
    BY <2>1
  <2> QED BY <2>1, <2>2
<1>2. PICK rest \in Seq(Slot) : rest = BehindOf(list)
  <2>1. BehindOf(list) \in Seq(Slot)
    BY <1>1, BehindIs
  <2> QED BY <2>1
<1>3. InImage(list) \in Seq(Sector) /\ InImage(rest) \in Seq(Sector)
  BY InImageType
<1>4. /\ ListOf(list) \in Seq(Slot) /\ Len(ListOf(list)) = e - 1
      /\ ListOf(list) = SubSeq(list, 1, e - 1)
      /\ \A i \in 1 .. e - 1 : ListOf(list)[i] = list[i]
      /\ e <= Len(list) => list[e] = Invalid
  BY <1>1, ListOfIs DEF ListOf
<1>5. CASE e <= Len(list)
  <2>1. e \in 1 .. Len(list) /\ list[e] \notin Sector
    BY <1>1, <1>4, <1>5, Constants
  <2>2. \A i \in 1 .. e - 1 : list[i] \in Sector
    <3>1. \A i \in 1 .. Len(ListOf(list)) : ListOf(list)[i] \in Sector
      OBVIOUS
    <3> QED BY <1>4, <3>1
  <2>3. Len(rest) = Len(list) - e /\ Len(list) = e + Len(rest)
    <3>1. Len(rest) = Len(list) - e
      BY <1>1, <1>2, <1>5, BehindIs
    <3> QED BY <3>1
  <2>4. \A j \in 1 .. Len(rest) : rest[j] = list[e + j]
    <3>1. \A j \in 1 .. Len(list) - e : rest[j] = list[e + j]
      BY <1>1, <1>2, BehindIs
    <3> QED BY <2>3, <3>1
  <2>5. InImage(list) = SubSeq(list, 1, e - 1) \o InImage(rest)
    BY <2>1, <2>2, <2>3, <2>4, InImageJoin
  <2> QED BY <1>1, <1>2, <1>3, <1>4, <1>5, <2>5
<1>6. CASE ~(e <= Len(list))
  <2>1. e = Len(list) + 1 /\ e >= Len(list)
    BY <1>1, <1>6
  <2>2. InImage(rest) = <<>>
    BY <1>1, <1>2, <2>1, BehindIs, InImageEmpty
  <2>3. ListOf(list) = list
    <3>1. Len(list) = e - 1
      BY <2>1
    <3> QED BY <1>4, <3>1, SubSeqFull
  <2>4. InImage(list) = list
    BY <2>3, InImageAll
  <2>5. ListOf(list) = ListOf(list) \o <<>>
    BY ConcatEmptySeq
  <2> QED BY <1>1, <1>2, <1>3, <2>2, <2>3, <2>4, <2>5
<1> QED BY <1>5, <1>6

(* ccos_get_file_sectors: what is listed, then what is behind the marker.  *)
LEMMA ListReadIs ==
  ASSUME Inductive, NEW f \in Files
  PROVE  ListRead(f) = DataOf(f) \o TailOf(f)
<1> DEFINE p == Nodes(f)
           a == [k \in 1 .. Len(p) |-> InImage(slots[p[k]])]
           b == Lists(slots, p)
<1>1. PICK n \in Nat \ {0} : n = Len(p) /\ n \in 1 .. Len(p)
  <2>1. Len(p) \in Nat \ {0} /\ Len(p) \in 1 .. Len(p)
    BY View
  <2> QED BY <2>1
<1>2. /\ Shape(slots, f, p, DataOf(f))
      /\ Fit(slots, next, prev, fragment, used, emptied, f, p, DataOf(f))
  BY FileFit
<1>3. ListRead(f) = FlattenSeq(a) /\ DataOf(f) = FlattenSeq(b)
  BY <1>2 DEF ListRead, Fit, Bears
<1>4. PICK tail \in Seq(Sector) : tail = TailOf(f)
  <2>1. slots[p[n]] \in Seq(Slot) /\ ListOf(slots[p[n]]) \in Seq(Sector)
    BY <1>1, <1>2 DEF Shape, Fit, Fills
  <2>2. TailOf(f) = InImage(BehindOf(slots[p[n]]))
    BY <1>1, View DEF TailOf, BehindOf, EndSlot
  <2>3. TailOf(f) \in Seq(Sector)
    BY <2>1, <2>2, ReadList
  <2> QED BY <2>3
<1>5. ASSUME NEW k \in 1 .. n
      PROVE  /\ a[k] \in Seq(Sector) /\ b[k] \in Seq(Sector)
             /\ k # n => a[k] = b[k]
             /\ k = n => a[k] = b[k] \o tail
  <2>1. PICK list \in Seq(Slot) : list = slots[p[k]] /\ ListOf(list) \in Seq(Sector)
    <3>1. slots[p[k]] \in Seq(Slot) /\ ListOf(slots[p[k]]) \in Seq(Sector)
      BY <1>1, <1>2 DEF Shape, Fit, Fills
    <3> QED BY <3>1
  <2>2. a[k] = InImage(list) /\ b[k] = ListOf(list)
    BY <1>1, <2>1 DEF Lists
  <2>3. /\ InImage(list) = ListOf(list) \o InImage(BehindOf(list))
        /\ InImage(list) \in Seq(Sector)
        /\ EndOf(list) >= Len(list) + 1 => InImage(list) = ListOf(list)
    BY <2>1, ReadList
  <2>4. CASE k = n
    <3>1. TailOf(f) = InImage(BehindOf(list))
      BY <1>1, <2>1, <2>4, View DEF TailOf, BehindOf, EndSlot
    <3> HIDE DEF a, b
    <3> QED BY <1>4, <2>1, <2>2, <2>3, <2>4, <3>1
  <2>5. CASE k # n
    <3>1. k < Len(p) /\ k \in 1 .. Len(p)
      BY <1>1, <2>5
    <3>2. ~(EndOf(list) <= Len(list))
      BY <1>2, <2>1, <3>1 DEF Fit, Fills
    <3>3. EndOf(list) \in 1 .. Len(list) + 1 /\ Len(list) \in Nat
      BY ListOfIs
    <3>4. EndOf(list) >= Len(list) + 1
      BY <3>2, <3>3
    <3> HIDE DEF a, b
    <3> QED BY <2>1, <2>2, <2>3, <2>5, <3>4
  <2> QED BY <2>4, <2>5
<1>6. Alike(a, b, n, Sector)
  <2>1. Len(a) = n /\ Len(b) = n /\ n \in 1 .. n
    BY <1>1 DEF Lists
  <2>2. \A k \in 1 .. n - 1 : k \in 1 .. n /\ k # n
    OBVIOUS
  <2> HIDE DEF a, b
  <2> QED BY <1>5, <2>1, <2>2 DEF Alike
<1>7. BeginAlike(a, b, n, Sector)
  <2> HIDE DEF a, b
  <2> QED BY <1>6, FlattenLast
<1>8. PICK front \in Seq(Sector) :
        FlattenSeq(a) = front \o a[n] /\ FlattenSeq(b) = front \o b[n]
  <2> HIDE DEF a, b
  <2> QED BY <1>7 DEF BeginAlike
<1>9. b[n] \in Seq(Sector) /\ a[n] = b[n] \o tail
  <2>1. n \in 1 .. n
    OBVIOUS
  <2> HIDE DEF a, b
  <2> QED BY <1>5, <2>1
<1>10. (front \o b[n]) \o tail = front \o (b[n] \o tail)
  <2> HIDE DEF b
  <2> QED BY <1>9, SectorsJoin
<1> HIDE DEF a, b
<1> QED BY <1>3, <1>4, <1>8, <1>9, <1>10

(* Reading a file yields the sectors FileSectors gives it, in their order, *)
(* although ccos_get_file_sectors ignores end markers.                     *)
THEOREM ReadingListed == Spec => []ReadsAsListed
<1>1. Inductive => ReadsAsListed
  <2> SUFFICES ASSUME Inductive, NEW f \in Files
               PROVE  ListRead(f) = List!FileSectorList(f)
    BY DEF ReadsAsListed
  <2>1. f \in Sector
    BY Constants
  <2>2. DataMap[f] = DataOf(f) /\ TailMap[f] = TailOf(f)
    BY <2>1 DEF DataMap, TailMap
  <2> QED BY <2>2, ListReadIs DEF List!FileSectorList
<1> QED BY <1>1, ListsWhole, PTL

-----------------------------------------------------------------------------
(***************************************************************************)
(* ContentList implements SectorList.                                      *)
(***************************************************************************)

Repeated(v, n) == [j \in 1 .. n |-> v]

(* N slots v that name a sector are left behind slot e of a list of l      *)
(* slots, if there are markers up to slot m.                               *)
Strays(N, l, e, m, v) ==
  /\ v \notin Sector => N = 0
  /\ v \in Sector /\ e <= m /\ m <= l => N = l - m
  /\ v \in Sector /\ m <= e /\ e <= l => N = l - e
  /\ v \in Sector /\ (m >= l \/ e >= l) => N = 0

LEMMA StraysExist ==
  ASSUME NEW l \in Nat, NEW e \in Nat, NEW m \in Nat, NEW v
  PROVE  \E N \in Nat : Strays(N, l, e, m, v)
<1>1. CASE v \notin Sector \/ m >= l \/ e >= l
  <2>1. Strays(0, l, e, m, v)
    BY <1>1 DEF Strays
  <2> QED BY <2>1
<1>2. CASE v \in Sector /\ m < l /\ e < l /\ e <= m
  <2>1. l - m \in Nat /\ Strays(l - m, l, e, m, v)
    BY <1>2 DEF Strays
  <2> QED BY <2>1
<1>3. CASE v \in Sector /\ m < l /\ e < l /\ m < e
  <2>1. l - e \in Nat /\ Strays(l - e, l, e, m, v)
    BY <1>3 DEF Strays
  <2> QED BY <2>1
<1> QED BY <1>1, <1>2, <1>3

LEMMA StrayIs ==
  ASSUME NEW list \in Seq(Slot), NEW e \in Nat \ {0}, e = EndOf(list),
         NEW m \in Nat, NEW v \in Slot, Rest(list, m, v),
         NEW N \in Nat, Strays(N, Len(list), e, m, v)
  PROVE  InImage(BehindOf(list)) = Repeated(v, N)
<1>1. PICK l \in Nat : l = Len(list)
  <2>1. Len(list) \in Nat
    OBVIOUS
  <2> QED BY <2>1
<1>2. PICK rest \in Seq(Slot) : rest = BehindOf(list)
  <2>1. BehindOf(list) \in Seq(Slot)
    BY BehindIs
  <2> QED BY <2>1
<1>3. CASE e >= l
  <2>1. InImage(rest) = <<>>
    BY <1>1, <1>2, <1>3, BehindIs, InImageEmpty
  <2>2. N = 0
    BY <1>1, <1>3 DEF Strays
  <2>3. Repeated(v, 0) = <<>>
    BY DEF Repeated
  <2> QED BY <1>2, <2>1, <2>2, <2>3
<1>4. CASE e < l
  <2>1. PICK k \in Nat \ {0} : k = l - e
    <3>1. l - e \in Nat \ {0}
      BY <1>4
    <3> QED BY <3>1
  <2>2. Len(rest) = k /\ \A j \in 1 .. k : rest[j] = list[e + j]
    <3>1. e <= Len(list) => Len(rest) = Len(list) - e
      BY <1>2, BehindIs
    <3>2. \A j \in 1 .. Len(list) - e : rest[j] = list[e + j]
      BY <1>2, BehindIs
    <3> QED BY <1>1, <1>4, <2>1, <3>1, <3>2
  <2>3. PICK b \in Nat : (m <= e => b = 0) /\ (m > e => b = m - e)
    <3>1. CASE m <= e
      BY <3>1
    <3>2. CASE m > e
      <4>1. m - e \in Nat
        BY <3>2
      <4> QED BY <3>2, <4>1
    <3> QED BY <3>1, <3>2
  <2>4. Trailing(rest, b, v)
    <3>1. ASSUME NEW j \in 1 .. k PROVE rest[j] = IF j <= b THEN Invalid ELSE v
      <4>1. PICK t \in e + 1 .. l : t = e + j
        <5>1. e + j \in e + 1 .. l
          BY <2>1
        <5> QED BY <5>1
      <4>2. list[t] = IF t <= m THEN Invalid ELSE v
        BY <1>1, <4>1 DEF Rest
      <4>3. t <= m <=> j <= b
        BY <2>3, <4>1
      <4> QED BY <2>2, <4>1, <4>2, <4>3
    <3> QED BY <2>2, <3>1 DEF Trailing
  <2>5. InImage(rest) = Trailed(rest, b, v)
    BY <2>4, InImageSame
  <2>6. N = (IF v \in Sector /\ b < k THEN k - b ELSE 0)
    <3>1. CASE v \notin Sector
      BY <3>1 DEF Strays
    <3>2. CASE v \in Sector
      <4>0. Strays(N, l, e, m, v)
        BY <1>1
      <4>1. CASE m <= e
        <5>1. N = l - e /\ b = 0
          BY <1>4, <2>3, <3>2, <4>0, <4>1 DEF Strays
        <5> QED BY <2>1, <3>2, <5>1
      <4>2. CASE m > e /\ m <= l
        <5>1. N = l - m /\ b = m - e
          BY <1>4, <2>3, <3>2, <4>0, <4>2 DEF Strays
        <5> QED BY <2>1, <3>2, <4>2, <5>1
      <4>3. CASE m > l
        <5>1. N = 0 /\ b = m - e
          BY <1>4, <2>3, <3>2, <4>0, <4>3 DEF Strays
        <5> QED BY <2>1, <3>2, <4>3, <5>1
      <4> QED BY <4>1, <4>2, <4>3
    <3> QED BY <3>1, <3>2
  <2> QED BY <1>2, <2>2, <2>5, <2>6 DEF Repeated, Trailed
<1> QED BY <1>3, <1>4

LEMMA RepeatedIs ==
  ASSUME NEW v, NEW n \in Nat, NEW k \in 0 .. n
  PROVE  /\ Len(Repeated(v, n)) = n /\ SubSeq(Repeated(v, n), 1, k) = Repeated(v, k)
         /\ n = 0 => Repeated(v, n) = <<>>
         /\ n # 0 => Repeated(v, n) # <<>>
<1>1. /\ Repeated(v, n) \in Seq({v}) /\ Len(Repeated(v, n)) = n
      /\ \A j \in 1 .. n : Repeated(v, n)[j] = v
  BY DEF Repeated
<1>2. /\ SubSeq(Repeated(v, n), 1, k) \in Seq({v}) /\ Len(SubSeq(Repeated(v, n), 1, k)) = k
      /\ \A j \in 1 .. k : SubSeq(Repeated(v, n), 1, k)[j] = v
  BY <1>1
<1>3. SubSeq(Repeated(v, n), 1, k) = Repeated(v, k)
  <2>1. SubSeq(Repeated(v, n), 1, k) = [j \in 1 .. k |-> SubSeq(Repeated(v, n), 1, k)[j]]
    BY <1>2
  <2> QED BY <1>2, <2>1 DEF Repeated
<1>4. (n = 0 => Repeated(v, n) = <<>>) /\ (n # 0 => Repeated(v, n) # <<>>)
  BY <1>1
<1> QED BY <1>1, <1>3, <1>4

(* What AppendSector of FileSectors keeps of the tail.                     *)
Keeping(keep, N, room) ==
  /\ N <= room => keep = N
  /\ N > room /\ room < 0 => keep = 0
  /\ N > room /\ room >= 0 => keep = room

LEMMA StraysKept ==
  ASSUME NEW N \in Nat, NEW l \in Nat, NEW e \in 1 .. l, NEW m \in Nat, NEW v,
         Strays(N, l, e, m, v), NEW room \in Int, v \in Sector => room = l - e - 1,
         NEW keep \in Int, Keeping(keep, N, room)
  PROVE  keep \in 0 .. N /\ Strays(keep, l, e + 1, m, v)
<1>1. CASE v \notin Sector
  BY <1>1 DEF Strays, Keeping
<1>2. CASE v \in Sector /\ m <= e
  <2>1. N = l - e /\ room = l - e - 1
    BY <1>2 DEF Strays
  <2>2. keep \in 0 .. N /\ (e < l => keep = l - e - 1) /\ (e = l => keep = 0)
    BY <2>1 DEF Keeping
  <2> QED BY <1>2, <2>2 DEF Strays
<1>3. CASE v \in Sector /\ m > e /\ m < l
  <2>1. N = l - m /\ room = l - e - 1
    BY <1>3 DEF Strays
  <2>2. keep = l - m /\ keep \in 0 .. N
    BY <1>3, <2>1 DEF Keeping
  <2> QED BY <1>3, <2>2 DEF Strays
<1>4. CASE v \in Sector /\ m > e /\ m >= l
  <2>1. N = 0 /\ room = l - e - 1
    BY <1>4 DEF Strays
  <2>2. keep = 0
    BY <2>1 DEF Keeping
  <2> QED BY <1>4, <2>2 DEF Strays
<1> QED BY <1>1, <1>2, <1>3, <1>4

(* The end marker moves down to slot i: nothing more is behind it.         *)
LEMMA StraysBelow ==
  ASSUME NEW N \in Nat, NEW l \in Nat, NEW i \in Nat \ {0}, NEW m \in Nat, NEW v,
         Strays(N, l, i + 1, m, v), NEW b \in Nat,
         m <= i + 1 => b = i + 1, m > i + 1 => b = m
  PROVE  Strays(N, l, i, b, v)
<1>1. CASE v \notin Sector
  BY <1>1 DEF Strays
<1>2. CASE v \in Sector /\ m <= i + 1
  BY <1>2 DEF Strays
<1>3. CASE v \in Sector /\ m > i + 1
  BY <1>3 DEF Strays
<1> QED BY <1>1, <1>2, <1>3

LEMMA Counting ==
  ASSUME Inductive, NEW f \in Files
  PROVE  /\ DataMap[f] = DataOf(f) /\ ChainMap[f] = ChainOf(f) /\ TailMap[f] = TailOf(f)
         /\ ChainOf(f) = <<>> <=> LastNode(f) = f
         /\ ChainOf(f) \in Seq(Sector) /\ Len(ChainOf(f)) = Len(Nodes(f)) - 1
         /\ List!LastCount(f) = EndSlot(LastNode(f)) - 1
         /\ List!LastListFull(f) <=> ~HasSlot(LastNode(f))
         /\ List!Emptied(f) <=> f \in emptied
<1>1. PICK n \in Nat \ {0} : n = Len(Nodes(f)) /\ n \in 1 .. Len(Nodes(f))
  <2>1. Len(Nodes(f)) \in Nat \ {0} /\ Len(Nodes(f)) \in 1 .. Len(Nodes(f))
    BY View
  <2> QED BY <2>1
<1>2. DataMap[f] = DataOf(f) /\ ChainMap[f] = ChainOf(f) /\ TailMap[f] = TailOf(f)
  BY Constants DEF DataMap, ChainMap, TailMap
<1>3. PICK chain \in Seq(Sector) : chain = ChainOf(f) /\ Len(chain) = n - 1
  <2>1. Nodes(f) \in Seq(Sector) /\ Nodes(f) # <<>>
    BY View
  <2>2. ChainOf(f) \in Seq(Sector) /\ Len(ChainOf(f)) = n - 1
    BY <1>1, <2>1, HeadTailProperties DEF ChainOf
  <2> QED BY <2>2
<1>4. (chain = <<>> <=> n = 1) /\ (LastNode(f) = f <=> n = 1)
  <2>1. chain = <<>> <=> Len(chain) = 0
    BY EmptySeq
  <2> QED BY <1>1, <1>3, <2>1, View
<1>5. PICK e \in Nat \ {0}, l \in Nat :
        /\ e = EndSlot(LastNode(f)) /\ l = Len(slots[LastNode(f)]) /\ e <= l + 1
        /\ n = 1 => l = InodeMax
        /\ n # 1 => l = ContMax
  <2>1. /\ EndSlot(LastNode(f)) \in 1 .. Len(slots[LastNode(f)]) + 1
        /\ Len(slots[LastNode(f)]) \in Nat
    BY View, NodeList DEF Inductive
  <2>2. EndSlot(LastNode(f)) \in Nat \ {0}
    BY <2>1
  <2>3. LastNode(f) = Nodes(f)[n]
    BY <1>1, View
  <2>4. Len(slots[LastNode(f)]) = IF n = 1 THEN InodeMax ELSE ContMax
    BY <1>1, <2>3, Sized
  <2> QED BY <2>1, <2>2, <2>4
<1>6. Len(DataOf(f)) = Before(n) + e - 1
  BY <1>1, <1>5 DEF Inductive, Whole, Counted
<1>7. List!LastCount(f) = e - 1
  <2>1. CASE n = 1
    <3>1. Len(DataOf(f)) = e - 1
      BY <1>6, <2>1 DEF Before
    <3> QED BY <1>2, <1>3, <1>4, <2>1, <3>1 DEF List!LastCount
  <2>2. CASE n # 1
    <3>1. PICK k \in Int : k = n - 2 /\ Len(chain) - 1 = k
      BY <1>3
    <3>2. PICK w \in Int : w = ContMax * k
      BY Constants
    <3>3. Len(DataOf(f)) = InodeMax + w + e - 1
      BY <1>6, <2>2, <3>1, <3>2 DEF Before
    <3>4. Len(DataOf(f)) - InodeMax - w = e - 1
      BY <3>3, Constants
    <3>5. ContMax * (Len(chain) - 1) = w
      BY <3>1, <3>2
    <3> QED BY <1>2, <1>3, <1>4, <2>2, <3>4, <3>5 DEF List!LastCount
  <2> QED BY <2>1, <2>2
<1>8. List!LastListFull(f) <=> ~(e <= l)
  <2>1. List!LastListFull(f) <=> e - 1 = l
    BY <1>2, <1>3, <1>4, <1>5, <1>7 DEF List!LastListFull
  <2> QED BY <1>5, <2>1
<1>9. List!Emptied(f) <=> f \in emptied
  <2>1. List!Emptied(f) <=> n # 1 /\ e = 1
    BY <1>2, <1>3, <1>4, <1>5, <1>7 DEF List!Emptied
  <2>2. /\ n > 1 => (e = 1 <=> f \in emptied)
        /\ f \in emptied => n > 1
    BY <1>1, <1>5 DEF Inductive, Whole, Filled, LastNode
  <2> QED BY <2>1, <2>2
<1> QED BY <1>1, <1>2, <1>3, <1>4, <1>5, <1>7, <1>8, <1>9 DEF HasSlot

LEMMA Resting ==
  ASSUME Inductive
  PROVE  Idle <=> List!Idle
<1>1. emptied = {} <=> \A f \in Files : ~List!Emptied(f)
  <2>1. emptied \subseteq Files
    BY DEF Inductive, TypeOK
  <2> QED BY <2>1, Counting
<1>2. claimed = <<>> <=> Grabbed = {}
  BY DEF Grabbed
<1> QED BY <1>1, <1>2 DEF Idle, List!Idle

(* The files' sequences after a step that changes those of f.              *)
LEMMA MapsStep ==
  ASSUME NEW f \in Files, \A g \in Files : g # f => Unmoved(g)
  PROVE  /\ DataMap' = [DataMap EXCEPT ![f] = DataOf(f)']
         /\ ChainMap' = [ChainMap EXCEPT ![f] = ChainOf(f)']
         /\ TailMap' = [TailMap EXCEPT ![f] = TailOf(f)']
<1>1. f \in Sector
  BY Constants
<1>2. \A g \in Files : g # f => /\ DataOf(g)' = DataOf(g) /\ ChainOf(g)' = ChainOf(g)
                                /\ TailOf(g)' = TailOf(g)
  BY DEF Unmoved
<1>3. DataMap' = [DataMap EXCEPT ![f] = DataOf(f)']
  BY <1>1, <1>2 DEF DataMap
<1>4. ChainMap' = [ChainMap EXCEPT ![f] = ChainOf(f)']
  BY <1>1, <1>2 DEF ChainMap
<1>5. TailMap' = [TailMap EXCEPT ![f] = TailOf(f)']
  BY <1>1, <1>2 DEF TailMap
<1> QED BY <1>3, <1>4, <1>5

LEMMA MapsSame ==
  ASSUME \A g \in Files : Unmoved(g)
  PROVE  DataMap' = DataMap /\ ChainMap' = ChainMap /\ TailMap' = TailMap
BY DEF Unmoved, DataMap, ChainMap, TailMap

(* What f has of its own is the same after the step.                       *)
LEMMA Unchanged ==
  ASSUME NEW f \in Files
  PROVE  /\ DataMap = [DataMap EXCEPT ![f] = DataOf(f)]
         /\ ChainMap = [ChainMap EXCEPT ![f] = ChainOf(f)]
         /\ TailMap = [TailMap EXCEPT ![f] = TailOf(f)]
<1>1. f \in Sector
  BY Constants
<1> QED BY <1>1 DEF DataMap, ChainMap, TailMap

LEMMA TailView ==
  ASSUME Inductive, NEW f \in Files
  PROVE  /\ TailOf(f) = InImage(BehindOf(slots[LastNode(f)]))
         /\ \E m \in Nat, v \in Slot : /\ LastNode(f) = f => v = Invalid
                                       /\ Rest(slots[LastNode(f)], m, v)
<1>1. TailOf(f) = InImage(BehindOf(slots[LastNode(f)]))
  BY DEF TailOf, BehindOf, EndSlot
<1>2. Behind(f)
  BY DEF Inductive, Whole
<1>3. PICK m \in Nat, v \in Slot :
        /\ LastNode(f) = f => v = Invalid
        /\ \A j \in EndSlot(LastNode(f)) + 1 .. Len(slots[LastNode(f)]) :
             slots[LastNode(f)][j] = IF j <= m THEN Invalid ELSE v
  BY <1>2 DEF Behind
<1>4. Rest(slots[LastNode(f)], m, v)
  BY <1>3 DEF Rest, EndSlot
<1> QED BY <1>1, <1>3, <1>4

LEMMA SameMap ==
  ASSUME NEW s
  PROVE  /\ List!LowestFree(s) <=> LowestFree(s)
         /\ List!Available = Available
         /\ List!MarkUsed(s) <=> MarkUsed(s)
         /\ List!EraseSector(s) <=> EraseSector(s)
<1>1. List!Available = Available /\ List!CounterSpan = CounterSpan
  BY DEF Available, Free, Sector, List!Available, List!Free, List!Sector,
         CounterSpan, List!CounterSpan
<1>2. List!LowestFree(s) <=> LowestFree(s)
  BY <1>1 DEF LowestFree, List!LowestFree
<1>3. List!MarkUsed(s) <=> MarkUsed(s)
  BY <1>1 DEF MarkUsed, List!MarkUsed
<1>4. List!EraseSector(s) <=> EraseSector(s)
  BY <1>1 DEF EraseSector, List!EraseSector
<1> QED BY <1>1, <1>2, <1>3, <1>4

(* The tail of f, in numbers.                                              *)
TailHas(f, e, l, m, v, N) ==
  /\ e = EndOf(slots[LastNode(f)]) /\ l = Len(slots[LastNode(f)]) /\ e <= l + 1
  /\ Rest(slots[LastNode(f)], m, v) /\ Strays(N, l, e, m, v)
  /\ TailOf(f) = Repeated(v, N) /\ Len(TailOf(f)) = N
  /\ v \in Sector => l = ContMax

LEMMA TailNumbers ==
  ASSUME Inductive, NEW f \in Files
  PROVE  \E e \in Nat \ {0}, l \in Nat, m \in Nat, v \in Slot, N \in Nat :
           TailHas(f, e, l, m, v, N)
<1>1. PICK q \in Sector : q = LastNode(f)
  BY View
<1>2. PICK list \in Seq(Slot) : list = slots[q] /\ Len(list) = SlotsIn(q)
  <2>1. slots[q] \in Seq(Slot) /\ Len(slots[q]) = SlotsIn(q)
    BY DEF Inductive, TypeOK
  <2> QED BY <2>1
<1>3. PICK l \in Nat : l = Len(list)
  <2>1. Len(list) \in Nat
    OBVIOUS
  <2> QED BY <2>1
<1>4. PICK e \in Nat \ {0} : e = EndOf(list) /\ e <= l + 1
  <2>1. EndOf(list) \in 1 .. l + 1
    BY <1>3, ListOfIs
  <2>2. EndOf(list) \in Nat \ {0}
    BY <2>1
  <2> QED BY <2>1, <2>2
<1>5. PICK m \in Nat, v \in Slot : (q = f => v = Invalid) /\ Rest(list, m, v)
  BY <1>1, <1>2, TailView
<1>6. PICK N \in Nat : Strays(N, l, e, m, v)
  BY StraysExist
<1>7. InImage(BehindOf(list)) = Repeated(v, N)
  BY <1>3, <1>4, <1>5, <1>6, StrayIs
<1>8. TailOf(f) = Repeated(v, N) /\ Len(TailOf(f)) = N
  <2>1. TailOf(f) = Repeated(v, N)
    BY <1>1, <1>2, <1>7, TailView
  <2>2. 0 \in 0 .. N
    OBVIOUS
  <2> QED BY <2>1, <2>2, RepeatedIs
<1>9. v \in Sector => l = ContMax
  <2>1. v \in Sector => q # f
    BY <1>5, Constants
  <2>2. q # f => q \notin Files
    BY <1>1, InodesApart
  <2> QED BY <1>2, <1>3, <2>1, <2>2 DEF SlotsIn
<1>10. TailHas(f, e, l, m, v, N)
  BY <1>1, <1>2, <1>3, <1>4, <1>5, <1>6, <1>8, <1>9 DEF TailHas
<1> QED BY <1>10

(* ccos_add_sector_to_file, the last list has a slot left.                 *)
LEMMA AppendsOne ==
  ASSUME Inductive, NEW f \in Files, NEW s \in Sector, AddSector(f, s),
         HasSlot(LastNode(f))
  PROVE  List!Append1(f, s)
<1>1. PICK q \in Sector : q = LastNode(f)
  BY View
<1>2. /\ Idle /\ LowestFree(s) /\ MarkUsed(s) /\ claimed' = claimed /\ stray' = stray
      /\ slots' = [slots EXCEPT ![q] = Listing(@, EndSlot(q), s)]
  BY <1>1 DEF AddSector
<1>3. /\ Nodes(f)' = Nodes(f) /\ DataOf(f)' = Append(DataOf(f), s)
      /\ \A g \in Files : g # f => Unmoved(g)
  BY ListedStep
<1>4. PICK e \in Nat \ {0}, l \in Nat, m \in Nat, v \in Slot, N \in Nat :
        TailHas(f, e, l, m, v, N)
  BY TailNumbers
<1>5. PICK list \in Seq(Slot) :
        /\ list = slots[q] /\ e = EndOf(list) /\ l = Len(list) /\ e \in 1 .. l
        /\ slots'[q] = Listing(list, e, s)
  <2>1. slots[q] \in Seq(Slot) /\ slots \in [Sector -> Seq(Slot)]
    BY DEF Inductive, TypeOK
  <2>2. /\ e = EndOf(slots[q]) /\ l = Len(slots[q]) /\ e = EndSlot(q)
        /\ slots'[q] = Listing(slots[q], EndSlot(q), s)
    BY <1>1, <1>2, <1>4, <2>1 DEF TailHas, EndSlot
  <2>3. e <= l
    BY <1>1, <2>2 DEF HasSlot
  <2>4. e \in 1 .. l
    BY <2>3
  <2> QED BY <2>1, <2>2, <2>4
<1>6. PICK new \in Seq(Slot) :
        /\ new = slots'[q] /\ Len(new) = l /\ EndOf(new) = e + 1
        /\ \A j \in e + 2 .. l : new[j] = list[j]
  <2>1. /\ ListOf(list) \in Seq(Slot) /\ Len(ListOf(list)) = e - 1
        /\ \A j \in 1 .. e - 1 : list[j] = ListOf(list)[j] /\ ListOf(list)[j] # Invalid
    <3>1. /\ ListOf(list) \in Seq(Slot) /\ Len(ListOf(list)) = EndOf(list) - 1
          /\ \A j \in 1 .. EndOf(list) - 1 : ListOf(list)[j] = list[j] /\ list[j] # Invalid
      BY ListOfIs
    <3> QED BY <1>5, <3>1
  <2>2. s \in Slot \ {Invalid} /\ e \in 1 .. Len(list)
    BY <1>5, Constants
  <2>3. /\ Listing(list, e, s) \in Seq(Slot) /\ Len(Listing(list, e, s)) = Len(list)
        /\ EndOf(Listing(list, e, s)) = e + 1
        /\ \A j \in e + 2 .. Len(list) : Listing(list, e, s)[j] = list[j]
    BY <2>1, <2>2, ListingIs
  <2> QED BY <1>5, <2>3
<1>7. Rest(new, m, v)
  <2>1. Rest(list, m, v)
    BY <1>1, <1>4, <1>5 DEF TailHas
  <2>2. ASSUME NEW j \in EndOf(new) + 1 .. Len(new)
        PROVE  new[j] = IF j <= m THEN Invalid ELSE v
    <3>1. j \in e + 2 .. l /\ j \in e + 1 .. l
      BY <1>6
    <3>2. list[j] = IF j <= m THEN Invalid ELSE v
      BY <1>5, <2>1, <3>1 DEF Rest
    <3> QED BY <1>6, <3>1, <3>2
  <2> QED BY <2>2 DEF Rest
<1>8. PICK room \in Int : room = ContMax - (e - 1) - 2
  <2>1. ContMax - (e - 1) - 2 \in Int
    BY Constants
  <2> QED BY <2>1
<1>9. PICK keep \in Int : keep = IF N <= room THEN N ELSE IF room < 0 THEN 0 ELSE room
  <2>1. (IF N <= room THEN N ELSE IF room < 0 THEN 0 ELSE room) \in Int
    OBVIOUS
  <2> QED BY <2>1
<1>10. keep \in 0 .. N /\ Strays(keep, l, e + 1, m, v)
  <2>1. Keeping(keep, N, room)
    <3>1. N <= room => keep = N
      BY <1>9
    <3>2. N > room /\ room < 0 => keep = 0
      BY <1>9
    <3>3. N > room /\ room >= 0 => keep = room
      BY <1>9
    <3> QED BY <3>1, <3>2, <3>3 DEF Keeping
  <2>2. v \in Sector => room = l - e - 1
    <3>1. v \in Sector => l = ContMax
      BY <1>4 DEF TailHas
    <3>2. l = ContMax => room = l - e - 1
      BY <1>8
    <3> QED BY <3>1, <3>2
  <2>3. Strays(N, l, e, m, v)
    BY <1>4 DEF TailHas
  <2> QED BY <1>5, <2>1, <2>2, <2>3, StraysKept
<1>11. InImage(BehindOf(new)) = Repeated(v, keep)
  <2>1. e + 1 \in Nat \ {0} /\ keep \in Nat
    BY <1>10
  <2> QED BY <1>6, <1>7, <1>10, <2>1, StrayIs
<1>12. LastNode(f)' = q /\ ChainOf(f)' = ChainOf(f)
  BY <1>1, <1>3 DEF LastNode, ChainOf
<1>13. TailOf(f)' = SubSeq(TailOf(f), 1, keep)
  <2>1. TailOf(f)' = InImage(BehindOf(new))
    BY <1>6, <1>12 DEF TailOf, BehindOf, EndSlot
  <2>2. TailOf(f) = Repeated(v, N)
    BY <1>4 DEF TailHas
  <2> QED BY <1>10, <1>11, <2>1, <2>2, RepeatedIs
<1>14. /\ DataMap' = [DataMap EXCEPT ![f] = Append(@, s)]
       /\ ChainMap' = ChainMap
       /\ TailMap' = [TailMap EXCEPT ![f] = SubSeq(@, 1, keep)]
  <2>1. DataMap[f] = DataOf(f) /\ TailMap[f] = TailOf(f)
    BY Counting
  <2> QED BY <1>3, <1>12, <1>13, <2>1, MapsStep, Unchanged
<1>15. List!LastCount(f) = e - 1 /\ Len(TailMap[f]) = N /\ ~List!LastListFull(f)
  <2>1. EndSlot(LastNode(f)) = e /\ Len(TailOf(f)) = N
    BY <1>4 DEF TailHas, EndSlot
  <2> QED BY <2>1, Counting
<1>16. List!AppendSector(f, s)
  BY <1>2, <1>8, <1>9, <1>14, <1>15, SameMap DEF List!AppendSector, Grabbed
<1> QED BY <1>2, <1>15, <1>16, Resting, SameMap DEF List!Append1

(* ... or a sector is claimed.                                             *)
LEMMA ClaimsOne ==
  ASSUME Inductive, NEW f \in Files, NEW s \in Sector, AddSector(f, s),
         ~HasSlot(LastNode(f))
  PROVE  List!Grab(f, s)
<1>1. Idle /\ LowestFree(s) /\ MarkUsed(s) /\ claimed' = <<f, s>> /\ stray' = stray
  BY DEF AddSector
<1>2. DataMap' = DataMap /\ ChainMap' = ChainMap /\ TailMap' = TailMap
  BY GrabbedStep, MapsSame
<1>3. Grabbed' = {s}
  BY <1>1 DEF Grabbed
<1>4. List!GrabSector(s)
  BY <1>1, <1>2, <1>3, SameMap DEF List!GrabSector
<1> QED BY <1>1, <1>4, Counting, Resting, SameMap DEF List!Grab

LEMMA DropsClaim ==
  ASSUME Inductive, NEW f \in Files, NEW s \in Sector, claimed = <<f, s>>,
         AddNodeFails
  PROVE  List!Drop(s)
<1>1. Available = {} /\ EraseSector(s) /\ claimed' = <<>> /\ stray' = stray
  BY DEF AddNodeFails, Wipe
<1>2. DataMap' = DataMap /\ ChainMap' = ChainMap /\ TailMap' = TailMap
  BY DroppedStep, MapsSame
<1>3. Grabbed = {s} /\ Grabbed' = {}
  BY <1>1 DEF Grabbed
<1>4. List!DropGrabbed(s)
  BY <1>1, <1>2, <1>3, SameMap DEF List!DropGrabbed
<1> QED BY <1>1, <1>3, <1>4, SameMap DEF List!Drop

(* ccos_add_content_inode, and the claimed sector listed.                  *)
LEMMA GrowsNode ==
  ASSUME Inductive, NEW f \in Files, NEW s \in Sector, claimed = <<f, s>>,
         NEW c \in Sector, AddNode(c)
  PROVE  List!Grow(f, s, c)
<1>1. /\ LowestFree(c) /\ MarkUsed(c) /\ claimed' = <<>> /\ c \in Sector \ used
      /\ slots' = [slots EXCEPT ![c] = Listing(@, 1, s)]
      /\ stray' = (stray \/ \E i \in 3 .. ContMax : slots[c][i] \in Sector)
  BY FreeIsFree DEF AddNode, Linked
<1>2. /\ Nodes(f)' = Append(Nodes(f), c) /\ DataOf(f)' = Append(DataOf(f), s)
      /\ \A g \in Files : g # f => Unmoved(g)
  BY LinkedStep
<1>3. /\ Nodes(f) \in Seq(Sector) /\ Nodes(f) # <<>> /\ ContMax \in Nat /\ ContMax >= 2
  BY View, Constants
<1>4. LastNode(f)' = c /\ ChainOf(f)' = Append(ChainOf(f), c)
  <2>1. PICK p \in Seq(Sector) : p = Nodes(f) /\ p # <<>>
    BY <1>3
  <2>2. Tail(Append(p, c)) = Append(Tail(p), c)
    BY <2>1
  <2>3. Append(p, c)[Len(Append(p, c))] = c
    BY <2>1
  <2> QED BY <1>2, <2>1, <2>2, <2>3 DEF LastNode, Last, ChainOf
<1>5. PICK w \in Slot : w = IF c \in pristine THEN PristineSlot ELSE 0
  <2>1. PristineSlot \in Slot /\ 0 \in Slot
    BY Constants
  <2>2. (IF c \in pristine THEN PristineSlot ELSE 0) \in Slot
    BY <2>1
  <2> QED BY <2>2
<1>6. PICK list \in Seq(Slot) :
        /\ list = slots[c] /\ Len(list) = ContMax /\ \A i \in 1 .. ContMax : list[i] = w
        /\ slots'[c] = Listing(list, 1, s)
  <2>1. slots \in [Sector -> Seq(Slot)]
    BY DEF Inductive, TypeOK
  <2>2. slots[c] = [i \in 1 .. ContMax |-> w]
    BY <1>1, <1>5 DEF Inductive, Blank
  <2>3. Len(slots[c]) = ContMax /\ \A i \in 1 .. ContMax : slots[c][i] = w
    BY <1>3, <2>2
  <2>4. slots[c] \in Seq(Slot) /\ slots'[c] = Listing(slots[c], 1, s)
    BY <1>1, <2>1
  <2> QED BY <2>3, <2>4
<1>7. PICK new \in Seq(Slot) :
        /\ new = slots'[c] /\ Len(new) = ContMax /\ EndOf(new) = 2
        /\ \A j \in 3 .. ContMax : new[j] = list[j]
  <2>1. Len(list) # 0
    BY <1>3, <1>6
  <2>2. /\ Listing(list, 1, s) \in Seq(Slot) /\ Len(Listing(list, 1, s)) = Len(list)
        /\ EndOf(Listing(list, 1, s)) = 2
        /\ \A j \in 3 .. Len(list) : Listing(list, 1, s)[j] = list[j]
    BY <2>1, ListingFirst
  <2> QED BY <1>6, <2>2
<1>8. Rest(new, 0, w)
  <2>1. ASSUME NEW j \in EndOf(new) + 1 .. Len(new)
        PROVE  new[j] = IF j <= 0 THEN Invalid ELSE w
    <3>1. j \in 3 .. ContMax /\ j \in 1 .. ContMax /\ ~(j <= 0)
      BY <1>3, <1>7
    <3> QED BY <1>6, <1>7, <3>1
  <2> QED BY <2>1 DEF Rest
<1>9. PICK N \in Nat :
        /\ w \in Sector => N = ContMax - 2
        /\ w \notin Sector => N = 0
  <2>1. ContMax - 2 \in Nat /\ 0 \in Nat
    BY <1>3
  <2> QED BY <2>1
<1>10. TailOf(f)' = Repeated(w, N)
  <2>1. Strays(N, Len(new), 2, 0, w)
    BY <1>3, <1>7, <1>9 DEF Strays
  <2>2. 0 \in Nat /\ 2 \in Nat \ {0}
    OBVIOUS
  <2>3. InImage(BehindOf(new)) = Repeated(w, N)
    BY <1>7, <1>8, <2>1, <2>2, StrayIs
  <2>4. TailOf(f)' = InImage(BehindOf(new))
    BY <1>4, <1>7 DEF TailOf, BehindOf, EndSlot
  <2> QED BY <2>3, <2>4
<1>11. List!UnwrittenSlots(c) = Repeated(w, N)
  <2>1. w < NumSectors <=> w \in Sector
    BY Constants DEF Sector
  <2>2. Repeated(w, 0) = <<>>
    BY DEF Repeated
  <2>3. List!UnwrittenSlots(c) =
          IF w < NumSectors THEN [i \in 1 .. ContMax - 2 |-> w] ELSE <<>>
    BY <1>5 DEF List!UnwrittenSlots
  <2> QED BY <1>9, <2>1, <2>2, <2>3 DEF Repeated
<1>12. (\E i \in 3 .. ContMax : slots[c][i] \in Sector) <=> Repeated(w, N) # <<>>
  <2>1. (\E i \in 3 .. ContMax : slots[c][i] \in Sector) <=> (w \in Sector /\ 3 <= ContMax)
    <3>1. \A i \in 3 .. ContMax : slots[c][i] = w
      BY <1>6
    <3>2. 3 <= ContMax => 3 \in 3 .. ContMax
      BY <1>3
    <3>3. \A i \in 3 .. ContMax : 3 <= ContMax
      BY <1>3
    <3> QED BY <3>1, <3>2, <3>3
  <2>2. (w \in Sector /\ 3 <= ContMax) <=> N # 0
    BY <1>3, <1>9
  <2>3. N # 0 <=> Repeated(w, N) # <<>>
    <3>1. 0 \in 0 .. N
      OBVIOUS
    <3> QED BY <3>1, RepeatedIs
  <2> QED BY <2>1, <2>2, <2>3
<1>13. /\ DataMap' = [DataMap EXCEPT ![f] = Append(@, s)]
       /\ ChainMap' = [ChainMap EXCEPT ![f] = Append(@, c)]
       /\ TailMap' = [TailMap EXCEPT ![f] = Repeated(w, N)]
  <2>1. DataMap[f] = DataOf(f) /\ ChainMap[f] = ChainOf(f)
    BY Counting
  <2> QED BY <1>2, <1>4, <1>10, <2>1, MapsStep
<1>14. Grabbed = {s} /\ Grabbed' = {}
  BY <1>1 DEF Grabbed
<1>15. List!AddContentInode(f, s, c)
  <2>1. stray' = (stray \/ List!UnwrittenSlots(c) # <<>>)
    BY <1>1, <1>11, <1>12
  <2> QED BY <1>1, <1>11, <1>13, <1>14, <2>1, SameMap DEF List!AddContentInode
<1>16. List!LastListFull(f)
  BY Counting DEF Inductive, Claim
<1> QED BY <1>1, <1>14, <1>15, <1>16, SameMap DEF List!Grow

(* ccos_remove_sector_from_file.                                           *)
LEMMA RemovesOne ==
  ASSUME Inductive, NEW f \in Files, RemoveSector(f)
  PROVE  List!Remove1(f)
<1>1. PICK q \in Sector : q = LastNode(f)
  BY View
<1>2. Idle /\ claimed' = claimed /\ stray' = stray
  BY DEF RemoveSector
<1>3. PICK i \in Nat \ {0} : \E x \in Sector :
        LastSlot(slots[q], i, x) /\ Drops(f, i, x) /\ EraseSector(x)
  BY <1>1, Dropping
<1>4. PICK x \in Sector : LastSlot(slots[q], i, x) /\ Drops(f, i, x) /\ EraseSector(x)
  BY <1>3
<1>5. /\ Nodes(f)' = Nodes(f) /\ \A g \in Files : g # f => Unmoved(g)
  BY CutStep
<1>6. PICK y \in Sector, g \in Seq(Sector) : DataOf(f) = Append(g, y) /\ DataOf(f)' = g
  BY CutStep
<1>7. /\ DataOf(f) # <<>> /\ x = DataOf(f)[Len(DataOf(f))]
      /\ DataOf(f)' = SubSeq(DataOf(f), 1, Len(DataOf(f)) - 1)
  <2>1. LastSlot(slots[Nodes(f)[Len(Nodes(f))]], i, x)
    BY <1>1, <1>4, View
  <2>2. IsLast(x, DataOf(f))
    BY <2>1, FileFit, FitLastSector
  <2>3. x = DataOf(f)[Len(DataOf(f))]
    BY <2>2 DEF IsLast
  <2>4. Append(g, y) # <<>> /\ SubSeq(Append(g, y), 1, Len(Append(g, y)) - 1) = g
    OBVIOUS
  <2> QED BY <1>6, <2>3, <2>4
<1>8. PICK e \in Nat \ {0}, l \in Nat, m \in Nat, v \in Slot, N \in Nat :
        TailHas(f, e, l, m, v, N)
  BY TailNumbers
<1>9. PICK list \in Seq(Slot) :
        /\ list = slots[q] /\ l = Len(list) /\ e = i + 1 /\ EndOf(list) = i + 1
        /\ LastSlot(list, i, x) /\ slots'[q] = [list EXCEPT ![i] = Invalid]
        /\ Rest(list, m, v) /\ Strays(N, l, i + 1, m, v)
  <2>1. slots[q] \in Seq(Slot) /\ slots \in [Sector -> Seq(Slot)]
    BY DEF Inductive, TypeOK
  <2>2. slots'[q] = [slots[q] EXCEPT ![i] = Invalid]
    BY <1>1, <1>4, <2>1 DEF Drops
  <2>3. EndOf(slots[q]) = i + 1
    BY <1>4 DEF LastSlot
  <2> QED BY <1>1, <1>4, <1>8, <2>1, <2>2, <2>3 DEF TailHas
<1>10. PICK new : new = slots'[q] /\ Trimmed(list, i, x, new)
  <2>1. Clears(list, i, slots'[q])
    BY <1>9 DEF Clears
  <2> QED BY <1>9, <2>1, TrimIs
<1>11. PICK b \in Nat : (m <= i + 1 => b = i + 1) /\ (m > i + 1 => b = m)
  <2>1. CASE m <= i + 1
    <3>1. i + 1 \in Nat
      OBVIOUS
    <3> QED BY <2>1, <3>1
  <2>2. CASE m > i + 1
    BY <2>2
  <2> QED BY <2>1, <2>2
<1>12. Rest(new, b, v)
  <2>1. ASSUME NEW j \in EndOf(new) + 1 .. Len(new)
        PROVE  new[j] = IF j <= b THEN Invalid ELSE v
    <3>1. j \in i + 1 .. l /\ new[j] = list[j]
      BY <1>9, <1>10, <2>1 DEF Trimmed
    <3>2. CASE j = i + 1
      <4>1. EndOf(list) <= Len(list) => list[EndOf(list)] = Invalid
        BY ListOfIs
      <4>2. EndOf(list) = j /\ Len(list) = l /\ j <= l
        BY <1>9, <3>1, <3>2
      <4>3. list[j] = Invalid
        BY <4>1, <4>2
      <4>4. j <= b
        BY <1>11, <3>2
      <4> QED BY <3>1, <4>3, <4>4
    <3>3. CASE j # i + 1
      <4>1. j \in i + 1 + 1 .. l
        BY <3>1, <3>3
      <4>2. list[j] = IF j <= m THEN Invalid ELSE v
        BY <1>9, <4>1 DEF Rest
      <4>3. j <= m <=> j <= b
        BY <1>11, <4>1
      <4> QED BY <3>1, <4>2, <4>3
    <3> QED BY <3>2, <3>3
  <2> QED BY <2>1 DEF Rest
<1>13. TailOf(f)' = TailOf(f)
  <2>1. new \in Seq(Slot) /\ Len(new) = l /\ EndOf(new) = i
    BY <1>9, <1>10 DEF Trimmed
  <2>2. Strays(N, l, i, b, v)
    BY <1>9, <1>11, StraysBelow
  <2>3. InImage(BehindOf(new)) = Repeated(v, N)
    BY <1>12, <2>1, <2>2, StrayIs
  <2>4. LastNode(f)' = q
    BY <1>1, <1>5 DEF LastNode
  <2>5. TailOf(f)' = InImage(BehindOf(new))
    BY <1>10, <2>4 DEF TailOf, BehindOf, EndSlot
  <2> QED BY <1>8, <2>3, <2>5 DEF TailHas
<1>14. /\ DataMap' = [DataMap EXCEPT ![f] = List!AllButLast(@)]
       /\ ChainMap' = ChainMap /\ TailMap' = TailMap
  <2>1. DataMap[f] = DataOf(f)
    BY Counting
  <2>2. ChainOf(f)' = ChainOf(f)
    BY <1>5 DEF ChainOf
  <2>3. DataOf(f)' = List!AllButLast(DataMap[f])
    BY <1>7, <2>1 DEF List!AllButLast
  <2> QED BY <1>5, <1>13, <2>2, <2>3, MapsStep, Unchanged
<1>15. DataMap[f] = DataOf(f)
  BY Counting
<1>16. List!RemoveLastSector(f)
  BY <1>2, <1>4, <1>7, <1>14, <1>15, SameMap DEF List!RemoveLastSector, Grabbed
<1> QED BY <1>2, <1>7, <1>15, <1>16, Resting DEF List!Remove1

(* ccos_remove_content_inode.                                              *)
LEMMA ShrinksChain ==
  ASSUME Inductive, NEW f \in Files, RemoveNode(f)
  PROVE  List!Shrink(f)
<1>1. PICK q \in Sector : q = LastNode(f)
  BY View
<1>2. /\ emptied = {f} /\ EraseSector(q) /\ claimed' = claimed /\ stray' = stray
      /\ slots' = [slots EXCEPT ![q] = Zeroes]
  BY <1>1 DEF RemoveNode, Wipe, LastNode
<1>3. /\ DataOf(f)' = DataOf(f) /\ \A g \in Files : g # f => Unmoved(g)
  BY UnlinkStep
<1>4. PICK n \in Nat \ {0} : /\ Len(Nodes(f)) = n + 1
                             /\ Nodes(f)' = SubSeq(Nodes(f), 1, n)
  BY UnlinkStep
<1>5. PICK p \in Seq(Sector) :
        /\ p = Nodes(f) /\ Len(p) = n + 1 /\ p # <<>> /\ p[n + 1] = q
        /\ \A k \in 1 .. n : p[k] # q
  <2>1. Nodes(f) \in Seq(Sector) /\ Nodes(f) # <<>> /\ Nodes(f)[n + 1] = q
    BY <1>1, <1>4, View
  <2>2. ASSUME NEW k \in 1 .. n PROVE Nodes(f)[k] # q
    <3>1. k \in DOMAIN Nodes(f) /\ n + 1 \in DOMAIN Nodes(f) /\ k # n + 1
      BY <1>4, <2>1
    <3>2. IsInjective(Nodes(f))
      BY DEF Inductive, Whole, Apart
    <3> QED BY <2>1, <3>1, <3>2 DEF IsInjective
  <2> QED BY <1>4, <2>1, <2>2
<1>6. PICK b \in Sector : b = p[n] /\ b # q
  <2>1. n \in 1 .. n /\ n \in 1 .. Len(p)
    BY <1>5
  <2> QED BY <1>5, <2>1
<1>7. LastNode(f)' = b
  <2>1. Len(SubSeq(p, 1, n)) = n /\ SubSeq(p, 1, n)[n] = p[n]
    BY <1>5
  <2> QED BY <1>4, <1>5, <1>6, <2>1 DEF LastNode, Last
<1>8. PICK chain \in Seq(Sector) :
        /\ chain = ChainOf(f) /\ Len(chain) = n /\ chain[n] = q
        /\ ChainOf(f)' = SubSeq(chain, 1, n - 1)
  <2>1. Tail(p) \in Seq(Sector) /\ Len(Tail(p)) = n /\ Tail(p)[n] = q
    BY <1>5
  <2>2. Tail(SubSeq(p, 1, n)) = SubSeq(Tail(p), 1, n - 1)
    BY <1>5
  <2> QED BY <1>4, <1>5, <2>1, <2>2 DEF ChainOf
<1>9. TailOf(f)' = <<>>
  <2>1. PICK list \in Seq(Slot) : list = slots[b] /\ list = slots'[b]
    <3>1. slots[b] \in Seq(Slot) /\ slots'[b] = slots[b]
      BY <1>2, <1>6 DEF Inductive, TypeOK
    <3> QED BY <3>1
  <2>2. PICK e \in Nat \ {0} : e = EndOf(list) /\ e \in 1 .. Len(list) + 1
    <3>1. EndOf(list) \in 1 .. Len(list) + 1 /\ Len(list) \in Nat
      BY ListOfIs
    <3>2. EndOf(list) \in Nat \ {0}
      BY <3>1
    <3> QED BY <3>1, <3>2
  <2>3. ~HasSlot(b)
    <3>1. n \in 1 .. Len(Nodes(f)) /\ n < Len(Nodes(f))
      BY <1>4
    <3> QED BY <1>5, <1>6, <3>1 DEF Inductive, Whole, Filled
  <2>4. e >= Len(list)
    <3>1. ~(e <= Len(list)) /\ Len(list) \in Nat
      BY <2>1, <2>2, <2>3 DEF HasSlot, EndSlot
    <3> QED BY <3>1
  <2>5. InImage(BehindOf(list)) = <<>>
    BY <2>2, <2>4, BehindIs, InImageEmpty
  <2> QED BY <1>7, <2>1, <2>5 DEF TailOf, BehindOf, EndSlot
<1>10. /\ DataMap' = DataMap
       /\ ChainMap' = [ChainMap EXCEPT ![f] = List!AllButLast(@)]
       /\ TailMap' = [TailMap EXCEPT ![f] = <<>>]
  <2>1. ChainOf(f)' = List!AllButLast(ChainMap[f])
    BY <1>8, Counting DEF List!AllButLast
  <2> QED BY <1>3, <1>9, <2>1, MapsStep, Unchanged
<1>11. ChainMap[f][Len(ChainMap[f])] = q
  BY <1>8, Counting
<1>12. List!RemoveContentInode(f)
  BY <1>2, <1>10, <1>11, SameMap DEF List!RemoveContentInode, Grabbed
<1> QED BY <1>2, <1>12, Counting DEF List!Shrink

LEMMA StepImplements ==
  ASSUME Inductive, [Next]_contVars
  PROVE  [List!Next]_(List!vars)
<1>1. ASSUME NEW f \in Files, NEW s \in Sector, AddSector(f, s) PROVE List!Next
  <2>1. s \in List!Sector
    BY DEF Sector, List!Sector
  <2>2. List!Append1(f, s) \/ List!Grab(f, s)
    BY <1>1, AppendsOne, ClaimsOne
  <2> QED BY <2>1, <2>2 DEF List!Next
<1>2. ASSUME NEW c \in Sector, AddNode(c) PROVE List!Next
  <2>1. PICK f \in Files, s \in Sector : claimed = <<f, s>>
    BY <1>2 DEF AddNode, Inductive, TypeOK
  <2>2. s \in List!Sector /\ c \in List!Sector
    BY DEF Sector, List!Sector
  <2>3. List!Grow(f, s, c)
    BY <1>2, <2>1, GrowsNode
  <2> QED BY <2>2, <2>3 DEF List!Next
<1>3. ASSUME AddNodeFails PROVE List!Next
  <2>1. PICK f \in Files, s \in Sector : claimed = <<f, s>>
    BY <1>3 DEF AddNodeFails, Inductive, TypeOK
  <2>2. s \in List!Sector
    BY DEF Sector, List!Sector
  <2>3. List!Drop(s)
    BY <1>3, <2>1, DropsClaim
  <2> QED BY <2>2, <2>3 DEF List!Next
<1>4. ASSUME NEW f \in Files, RemoveSector(f) PROVE List!Next
  BY <1>4, RemovesOne DEF List!Next
<1>5. ASSUME NEW f \in Files, RemoveNode(f) PROVE List!Next
  BY <1>5, ShrinksChain DEF List!Next
<1>6. CASE UNCHANGED contVars
  <2>1. /\ used' = used /\ allocated' = allocated /\ pristine' = pristine
        /\ slots' = slots /\ next' = next /\ prev' = prev /\ fragment' = fragment
        /\ claimed' = claimed /\ emptied' = emptied /\ stray' = stray
    BY <1>6 DEF contVars, bitmapVars, nodeVars, callVars
  <2>2. \A f \in Files : Spared(f)
    BY <2>1, HeldUsed DEF Spared
  <2>3. DataMap' = DataMap /\ ChainMap' = ChainMap /\ TailMap' = TailMap
    BY <2>2, SomeFile, MapsSame
  <2>4. Grabbed' = Grabbed
    BY <2>1 DEF Grabbed
  <2> QED BY <2>1, <2>3, <2>4 DEF List!vars, List!bitmapVars, List!listVars
<1> QED BY <1>1, <1>2, <1>3, <1>4, <1>5, <1>6 DEF Next

LEMMA InitImplements ==
  ASSUME Init
  PROVE  List!Init
<1>1. ASSUME NEW f \in Files
      PROVE  DataOf(f) = <<>> /\ ChainOf(f) = <<>> /\ TailOf(f) = <<>>
  <2>1. Inductive /\ Nodes(f) = <<f>> /\ DataOf(f) = <<>>
    BY InitInductive, NewInode, FitState
  <2>2. ChainOf(f) = <<>> /\ LastNode(f) = f
    BY <2>1 DEF ChainOf, LastNode, Last
  <2>3. PICK e \in Nat \ {0}, l \in Nat, m \in Nat, v \in Slot, N \in Nat :
          TailHas(f, e, l, m, v, N)
    BY <2>1, TailNumbers
  <2>4. DataOf(f) = <<>> /\ Len(DataOf(f)) = 0
    BY <2>1
  <2>5. TailOf(f) = <<>>
    <3>1. PICK w \in Nat, u \in Slot : /\ LastNode(f) = f => u = Invalid
                                       /\ Rest(slots[LastNode(f)], w, u)
      BY <2>1, TailView
    <3>2. PICK list \in Seq(Slot) : list = slots[f] /\ list = slots[LastNode(f)]
      BY <2>1, <2>2, Constants DEF Inductive, TypeOK
    <3>3. EndOf(list) \in Nat \ {0} /\ Len(list) \in Nat
      <4>1. EndOf(list) \in 1 .. Len(list) + 1 /\ Len(list) \in Nat
        BY ListOfIs
      <4> QED BY <4>1
    <3>4. Strays(0, Len(list), EndOf(list), w, Invalid)
      BY Constants DEF Strays
    <3>5. InImage(BehindOf(list)) = Repeated(Invalid, 0)
      BY <2>2, <3>1, <3>2, <3>3, <3>4, Constants, StrayIs
    <3>6. Repeated(Invalid, 0) = <<>>
      BY DEF Repeated
    <3> QED BY <2>1, <3>2, <3>5, <3>6, TailView
  <2> QED BY <2>1, <2>2, <2>5
<1>2. /\ DataMap = [g \in List!Sector |-> <<>>]
      /\ ChainMap = [g \in List!Sector |-> <<>>]
      /\ TailMap = [g \in List!Sector |-> <<>>]
  BY <1>1 DEF DataMap, ChainMap, TailMap, Sector, List!Sector
<1>3. Grabbed = {}
  BY DEF Init, Grabbed
<1>4. /\ used = Reserved \cup Files /\ allocated = Cardinality(used)
      /\ pristine = List!Sector \ used /\ stray = FALSE
  BY DEF Init, Sector, List!Sector
<1>5. List!Cardinality(used) = Cardinality(used)
  BY DEF Cardinality, List!Cardinality
<1> QED BY <1>2, <1>3, <1>4, <1>5 DEF List!Init

(* The slots, markers and links of inodes and content inodes behave as the *)
(* sequences that FileSectors, and with it Volume, works on: every step of *)
(* ContentList is one of SectorList.                                       *)
THEOREM ListsImplemented == Spec => ImplementsSectorList
<1>1. Init => List!Init
  BY InitImplements
<1>2. Inductive /\ [Next]_contVars => [List!Next]_(List!vars)
  BY StepImplements
<1> QED BY <1>1, <1>2, ListsWhole, PTL DEF Spec, ImplementsSectorList, List!Spec
=============================================================================
