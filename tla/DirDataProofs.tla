--------------------------- MODULE DirDataProofs ---------------------------
(***************************************************************************)
(* Theorems about DirData, for directories of any number of entries under  *)
(* any names: the bytes are the entries of a sequence, one behind the      *)
(* other, and each call changes them as it changes that sequence.          *)
(***************************************************************************)
EXTENDS DirData, SequenceTheorems, WellFoundedInduction, TLAPS

(***************************************************************************)
(* The invariant.                                                          *)
(***************************************************************************)

ByteSet == [role : {"zero", "last", "head", "text", "back"}, file : Nat, len : Nat]

TypeOK ==
  /\ bytes \in Seq(ByteSet)
  /\ count \in Nat
  /\ nameOf \in [Files -> Names \cup {NoName}]
  /\ result \in {"none", "ok", "exists", "nospace", "missing"}
  /\ overrun \in BOOLEAN
  /\ found \in Found

(* The entries of the files es, with flags in front and behind at st[0],   *)
(* st[1], ...  Whatever is behind the last flag is left open.              *)
LaidOut(mem, es, st) ==
  /\ st \in [0 .. Len(es) -> Nat]
  /\ st[0] = 0
  /\ \A j, k \in 0 .. Len(es) : j <= k => st[j] + (k - j) <= st[k]
  /\ \A k \in 1 .. Len(es) :
       /\ st[k] >= st[k - 1] + EntryHead + 2
       /\ At(mem, st[k - 1]) # LastFlag
       /\ At(mem, st[k - 1] + 1) = Byte("head", es[k], st[k] - st[k - 1] - EntryHead - 2)
       /\ At(mem, st[k] - 1).len = st[k] - st[k - 1] - 1
  /\ At(mem, st[Len(es)]) = LastFlag
  /\ st[Len(es)] < Len(mem)

(* They are the files that have a name here, and each name is there once.  *)
NamedOnce(es, names) ==
  /\ \A f \in Files : names[f] # NoName <=> \E k \in 1 .. Len(es) : es[k] = f
  /\ \A j, k \in 1 .. Len(es) : j # k => ~SameName(names[es[j]], names[es[k]])

FoundWithSlack == found.names # <<>> /\ found.slack > 0

Holds(es, st) ==
  /\ es \in Seq(Files) /\ Len(es) = count
  /\ LaidOut(bytes, es, st)
  /\ NamedOnce(es, nameOf)
  /\ Len(bytes) > st[Len(es)] + 1 => es = <<>> \/ FoundWithSlack

Inductive == TypeOK /\ MovesFit /\ \E es, st : Holds(es, st)

(* Offsets of entries fit into 16 bits.                                    *)
Addressable == Len(bytes) <= OffsetSpan

(***************************************************************************)
(* Reading.                                                                *)
(***************************************************************************)

LEMMA LeastNat ==
  ASSUME NEW T \in SUBSET Nat, T # {}
  PROVE  \E n \in T : \A m \in T : n <= m
<1>1. PICK n \in T : \A m \in T : <<m, n>> \notin OpToRel(<, Nat)
  BY WFMin, NatLessThanWellFounded
<1>2. \A m \in T : ~(m < n)
  BY <1>1 DEF OpToRel
<1> QED BY <1>2

(* What follows from one index to the next holds at all of them.           *)
LEMMA Upwards ==
  ASSUME NEW n \in Nat, NEW Good, 0 \in Good, \A k \in 1 .. n : k - 1 \in Good => k \in Good
  PROVE  \A k \in 0 .. n : k \in Good
<1> SUFFICES ASSUME NEW k \in 0 .. n, k \notin Good PROVE FALSE
  OBVIOUS
<1> DEFINE T == {j \in 0 .. n : j \notin Good}
<1>1. T \in SUBSET Nat /\ T # {}
  OBVIOUS
<1>2. PICK j \in T : \A m \in T : j <= m
  BY <1>1, LeastNat
<1>3. j \in 1 .. n /\ j - 1 \notin T /\ j - 1 \in 0 .. n
  BY <1>2
<1> QED BY <1>2, <1>3

(* The function by which Parse is defined.                                 *)
Stops(mem, o) == o >= Len(mem) \/ At(mem, o) = LastFlag

OneMore(mem, rest) ==
  [o \in Nat |-> IF Stops(mem, o) THEN <<>>
                 ELSE <<ElementAt(mem, o)>> \o rest[o + 1 + ElementAt(mem, o).size]]

Reads(mem, n, g) ==
  g = [k \in 0 .. n |-> IF k = 0 THEN [o \in Nat |-> <<>>] ELSE OneMore(mem, g[k - 1])]

LEMMA ReadsExist ==
  ASSUME NEW mem, NEW n \in Nat
  PROVE  \E g : Reads(mem, n, g)
<1> DEFINE Good == {m \in Nat : \E g : Reads(mem, m, g)}
<1>1. 0 \in Good
  <2> DEFINE g == [k \in 0 .. 0 |-> [o \in Nat |-> <<>>]]
  <2>1. Reads(mem, 0, g)
    BY DEF Reads
  <2> HIDE DEF g
  <2> QED BY <2>1
<1>2. ASSUME NEW m \in 1 .. n, m - 1 \in Good PROVE m \in Good
  <2>1. PICK g : Reads(mem, m - 1, g)
    BY <1>2
  <2> DEFINE h == [k \in 0 .. m |-> IF k = m THEN OneMore(mem, g[m - 1]) ELSE g[k]]
  <2>2. \A k \in 0 .. m - 1 :
          g[k] = IF k = 0 THEN [o \in Nat |-> <<>>] ELSE OneMore(mem, g[k - 1])
    BY <2>1 DEF Reads
  <2>3. ASSUME NEW k \in 0 .. m
        PROVE  h[k] = IF k = 0 THEN [o \in Nat |-> <<>>] ELSE OneMore(mem, h[k - 1])
    <3>1. k # 0 => k - 1 \in 0 .. m - 1 /\ h[k - 1] = g[k - 1]
      OBVIOUS
    <3>2. k # m => h[k] = g[k] /\ k \in 0 .. m - 1
      OBVIOUS
    <3>3. k = m => h[k] = OneMore(mem, g[k - 1]) /\ k # 0
      OBVIOUS
    <3> QED BY <3>1, <3>2, <3>3, <2>2
  <2>4. Reads(mem, m, h)
    <3> HIDE DEF h
    <3>1. h = [k \in 0 .. m |-> h[k]]
      BY DEF h
    <3> QED BY <2>3, <3>1 DEF Reads
  <2> HIDE DEF h
  <2> QED BY <2>4
<1> HIDE DEF Good
<1>3. n \in Good
  BY <1>1, <1>2, Upwards
<1> QED BY <1>3 DEF Good

LEMMA ParseReads ==
  ASSUME NEW mem, NEW n \in Nat
  PROVE  \E g : Reads(mem, n, g) /\ Parse(mem, n) = g[n][0]
<1> DEFINE Body(g) == [k \in 0 .. n |->
                         [o \in Nat |->
                            IF k = 0 \/ o >= Len(mem) \/ At(mem, o) = LastFlag THEN <<>>
                            ELSE <<ElementAt(mem, o)>>
                                 \o g[k - 1][o + 1 + ElementAt(mem, o).size]]]
           read == CHOOSE g : g = Body(g)
<1>1. Parse(mem, n) = read[n][0]
  BY DEF Parse
<1>2. ASSUME NEW g PROVE Reads(mem, n, g) <=> g = Body(g)
  <2>1. \A k \in 0 .. n :
          (IF k = 0 THEN [o \in Nat |-> <<>>] ELSE OneMore(mem, g[k - 1]))
            = [o \in Nat |->
                 IF k = 0 \/ o >= Len(mem) \/ At(mem, o) = LastFlag THEN <<>>
                 ELSE <<ElementAt(mem, o)>> \o g[k - 1][o + 1 + ElementAt(mem, o).size]]
    BY DEF OneMore, Stops
  <2> QED BY <2>1 DEF Reads
<1>3. read = Body(read)
  <2>1. \E g : g = Body(g)
    BY <1>2, ReadsExist
  <2> HIDE DEF Body
  <2> QED BY <2>1
<1> HIDE DEF read
<1> QED BY <1>1, <1>2, <1>3

(* What is read from bytes that are laid out.                              *)
Described(es, st) ==
  [k \in 1 .. Len(es) |->
     [offset |-> (st[k - 1] + 1) % OffsetSpan, size |-> st[k] - st[k - 1] - 1, file |-> es[k]]]

LEMMA InFront ==
  ASSUME NEW S, NEW c \in Nat, NEW d \in [1 .. c -> S], NEW k \in 1 .. c
  PROVE  <<d[k]>> \o [j \in 1 .. c - k |-> d[k + j]] = [j \in 1 .. c - k + 1 |-> d[k - 1 + j]]
<1> DEFINE rest == [j \in 1 .. c - k |-> d[k + j]]
           all == [j \in 1 .. c - k + 1 |-> d[k - 1 + j]]
<1>1. rest \in Seq(S) /\ Len(rest) = c - k
  <2>1. c - k \in Nat /\ \A j \in 1 .. c - k : k + j \in 1 .. c
    OBVIOUS
  <2> QED BY <2>1
<1>2. <<d[k]>> \in Seq(S) /\ Len(<<d[k]>>) = 1 /\ <<d[k]>>[1] = d[k]
  OBVIOUS
<1>3. \A j \in 1 .. c - k : rest[j] = d[k + j]
  OBVIOUS
<1> HIDE DEF rest
<1>4. <<d[k]>> \o rest = [j \in 1 .. c - k + 1 |-> IF j = 1 THEN d[k] ELSE rest[j - 1]]
  BY <1>1, <1>2
<1>5. \A j \in 1 .. c - k + 1 : (IF j = 1 THEN d[k] ELSE rest[j - 1]) = d[k - 1 + j]
  <2> TAKE j \in 1 .. c - k + 1
  <2>1. CASE j = 1
    BY <2>1
  <2>2. CASE j # 1
    <3>1. j - 1 \in 1 .. c - k /\ k + (j - 1) = k - 1 + j
      BY <2>2
    <3> QED BY <1>3, <2>2, <3>1
  <2> QED BY <2>1, <2>2
<1> QED BY <1>4, <1>5 DEF rest

LEMMA FlagOrder ==
  ASSUME NEW mem, NEW es, NEW st, LaidOut(mem, es, st), NEW c \in Nat, c = Len(es),
         NEW j \in 0 .. c, NEW k \in 0 .. c, j <= k
  PROVE  st[j] \in Nat /\ st[k] \in Nat /\ st[j] + (k - j) <= st[k]
<1>1. st \in [0 .. c -> Nat]
  BY DEF LaidOut
<1>2. st[j] + (k - j) <= st[k]
  BY DEF LaidOut
<1> QED BY <1>1, <1>2

LEMMA ParseIs ==
  ASSUME NEW mem, NEW es, NEW st, NEW n \in Nat, es \in Seq(Files), LaidOut(mem, es, st),
         Len(mem) \in Nat, n >= Len(es)
  PROVE  Parse(mem, n) = Described(es, st)
<1>1. PICK g : Reads(mem, n, g) /\ Parse(mem, n) = g[n][0]
  BY ParseReads
<1> DEFINE d == Described(es, st)
<1>0. PICK c \in Nat : c = Len(es)
  OBVIOUS
<1>2. \A k \in 0 .. c : st[k] \in Nat /\ st[k] < Len(mem)
  <2> TAKE k \in 0 .. c
  <2>1. c \in 0 .. c /\ k <= c
    OBVIOUS
  <2>2. st[k] \in Nat /\ st[c] \in Nat /\ st[k] + (c - k) <= st[c]
    BY <1>0, <2>1, FlagOrder
  <2>3. st[c] < Len(mem)
    BY <1>0 DEF LaidOut
  <2> QED BY <2>1, <2>2, <2>3
<1>3. \A k \in 1 .. c :
        /\ ~Stops(mem, st[k - 1])
        /\ ElementAt(mem, st[k - 1]) = d[k]
        /\ st[k - 1] + 1 + ElementAt(mem, st[k - 1]).size = st[k]
  <2> TAKE k \in 1 .. c
  <2>1. /\ At(mem, st[k - 1]) # LastFlag
        /\ At(mem, st[k - 1] + 1) = Byte("head", es[k], st[k] - st[k - 1] - EntryHead - 2)
    BY <1>0 DEF LaidOut
  <2>2. k - 1 \in 0 .. c /\ st[k] \in Nat /\ st[k - 1] \in Nat /\ st[k - 1] < Len(mem)
    BY <1>2
  <2>3. /\ At(mem, st[k - 1] + 1).len = st[k] - st[k - 1] - EntryHead - 2
        /\ At(mem, st[k - 1] + 1).file = es[k]
    BY <2>1 DEF Byte
  <2>4. EntryHead + At(mem, st[k - 1] + 1).len + 1 = st[k] - st[k - 1] - 1
    BY <2>2, <2>3 DEF EntryHead
  <2>5. ElementAt(mem, st[k - 1]) = [offset |-> (st[k - 1] + 1) % OffsetSpan,
                                     size |-> st[k] - st[k - 1] - 1, file |-> es[k]]
    BY <2>3, <2>4 DEF ElementAt
  <2>6. d[k] = [offset |-> (st[k - 1] + 1) % OffsetSpan,
                size |-> st[k] - st[k - 1] - 1, file |-> es[k]]
    BY <1>0 DEF Described
  <2>7. ~Stops(mem, st[k - 1])
    BY <2>1, <2>2 DEF Stops
  <2>8. ElementAt(mem, st[k - 1]).size = st[k] - st[k - 1] - 1
    BY <2>5
  <2> QED BY <2>2, <2>5, <2>6, <2>7, <2>8
<1>4. PICK S : d \in [1 .. c -> S]
  <2>1. d \in [1 .. c -> {d[k] : k \in 1 .. c}]
    BY <1>0 DEF Described
  <2> QED BY <2>1
<1>5. d = [j \in 1 .. c |-> d[j]]
  BY <1>4
<1> HIDE DEF d
<1> DEFINE Rest(m) == [j \in 1 .. m |-> d[c - m + j]]
           Good == {m \in Nat : \A r \in m .. n : g[r][st[c - m]] = Rest(m)}
<1>6. 0 \in Good
  <2> SUFFICES ASSUME NEW r \in 0 .. n PROVE g[r][st[c]] = <<>>
    <3>1. c - 0 = c /\ 0 \in Nat /\ Rest(0) = <<>>
      OBVIOUS
    <3> HIDE DEF Rest
    <3> QED BY <3>1
  <2>1. st[c] \in Nat /\ Stops(mem, st[c])
    <3>1. c \in 0 .. c /\ At(mem, st[c]) = LastFlag
      BY <1>0 DEF LaidOut
    <3> QED BY <1>2, <3>1 DEF Stops
  <2>2. CASE r = 0
    <3>1. g[r] = [o \in Nat |-> <<>>]
      BY <1>1, <2>2 DEF Reads
    <3> QED BY <2>1, <3>1
  <2>3. CASE r # 0
    <3>1. g[r] = OneMore(mem, g[r - 1])
      BY <1>1, <2>3 DEF Reads
    <3> QED BY <2>1, <3>1 DEF OneMore
  <2> QED BY <2>2, <2>3
<1>7. ASSUME NEW m \in 1 .. c, m - 1 \in Good PROVE m \in Good
  <2> SUFFICES ASSUME NEW r \in m .. n PROVE g[r][st[c - m]] = Rest(m)
    OBVIOUS
  <2>1. PICK k \in 1 .. c : k = c - m + 1
    OBVIOUS
  <2>2. g[r] = OneMore(mem, g[r - 1])
    <3>1. r \in 0 .. n /\ r # 0
      OBVIOUS
    <3> QED BY <1>1, <3>1 DEF Reads
  <2>3. st[k - 1] \in Nat /\ k - 1 = c - m /\ k = c - (m - 1) /\ m = c - k + 1 /\ m - 1 = c - k
    BY <1>2, <2>1
  <2>4. g[r][st[k - 1]] = <<d[k]>> \o g[r - 1][st[k]]
    <3>1. /\ ~Stops(mem, st[k - 1])
          /\ ElementAt(mem, st[k - 1]) = d[k]
          /\ st[k - 1] + 1 + ElementAt(mem, st[k - 1]).size = st[k]
      BY <1>3
    <3>2. g[r][st[k - 1]] = <<ElementAt(mem, st[k - 1])>>
            \o g[r - 1][st[k - 1] + 1 + ElementAt(mem, st[k - 1]).size]
      BY <2>2, <2>3, <3>1 DEF OneMore
    <3> QED BY <3>1, <3>2
  <2>5. g[r - 1][st[k]] = Rest(m - 1)
    <3>1. r - 1 \in m - 1 .. n
      OBVIOUS
    <3> QED BY <1>7, <2>3, <3>1
  <2>6. Rest(m - 1) = [j \in 1 .. c - k |-> d[k + j]]
    <3>1. c - (m - 1) = k
      BY <2>3
    <3> QED BY <2>3, <3>1
  <2>7. Rest(m) = [j \in 1 .. c - k + 1 |-> d[k - 1 + j]]
    BY <2>3
  <2>8. <<d[k]>> \o [j \in 1 .. c - k |-> d[k + j]] = [j \in 1 .. c - k + 1 |-> d[k - 1 + j]]
    BY <1>4, InFront
  <2> HIDE DEF Rest
  <2> QED BY <2>3, <2>4, <2>5, <2>6, <2>7, <2>8
<1> HIDE DEF Good
<1>8. c \in Good
  <2>1. \A k \in 0 .. c : k \in Good
    BY <1>6, <1>7, Upwards
  <2> QED BY <2>1
<1>9. g[n][st[0]] = Rest(c)
  <2>1. n \in c .. n /\ c - c = 0
    BY <1>0
  <2> HIDE DEF Rest
  <2> QED BY <1>8, <2>1 DEF Good
<1>10. Rest(c) = d
  <2>1. \A j \in 1 .. c : c - c + j = j
    OBVIOUS
  <2> QED BY <1>5, <2>1
<1>11. st[0] = 0
  BY DEF LaidOut
<1> HIDE DEF Rest
<1> QED BY <1>1, <1>9, <1>10, <1>11 DEF d

(* The same as long as offsets fit into 16 bits.                           *)
Seen(es, st) ==
  [k \in 1 .. Len(es) |->
     [offset |-> st[k - 1] + 1, size |-> st[k] - st[k - 1] - 1, file |-> es[k]]]

LEMMA FlagsInside ==
  ASSUME NEW mem, NEW es, NEW st, es \in Seq(Files), LaidOut(mem, es, st), Len(mem) \in Nat
  PROVE  /\ \A k \in 0 .. Len(es) : st[k] \in Nat /\ st[k] < Len(mem)
         /\ \A i, k \in 0 .. Len(es) : i < k => st[i] < st[k]
         /\ Len(es) < Len(mem)
<1>0. PICK c \in Nat : c = Len(es)
  OBVIOUS
<1>1. st[c] < Len(mem) /\ st[0] = 0
  BY <1>0 DEF LaidOut
<1>2. \A k \in 0 .. c : st[k] \in Nat /\ st[k] < Len(mem)
  <2> TAKE k \in 0 .. c
  <2>1. c \in 0 .. c /\ k <= c
    OBVIOUS
  <2>2. st[k] \in Nat /\ st[c] \in Nat /\ st[k] + (c - k) <= st[c]
    BY <1>0, <2>1, FlagOrder
  <2> QED BY <1>1, <2>1, <2>2
<1>3. c < Len(mem)
  <2>1. 0 \in 0 .. c /\ c \in 0 .. c /\ 0 <= c
    OBVIOUS
  <2>2. st[c] \in Nat /\ st[0] + (c - 0) <= st[c]
    BY <1>0, <2>1, FlagOrder
  <2> QED BY <1>1, <2>2
<1>4. \A i, k \in 0 .. c : i < k => st[i] < st[k]
  <2> SUFFICES ASSUME NEW i \in 0 .. c, NEW k \in 0 .. c, i < k PROVE st[i] < st[k]
    OBVIOUS
  <2>1. i <= k
    OBVIOUS
  <2>2. st[i] \in Nat /\ st[k] \in Nat /\ st[i] + (k - i) <= st[k]
    BY <1>0, <2>1, FlagOrder
  <2> QED BY <2>2
<1> QED BY <1>0, <1>2, <1>3, <1>4

LEMMA ParseSees ==
  ASSUME NEW mem, NEW es, NEW st, NEW n \in Nat, es \in Seq(Files), LaidOut(mem, es, st),
         Len(mem) \in Nat, Len(mem) <= OffsetSpan, n >= Len(es)
  PROVE  Parse(mem, n) = Seen(es, st)
<1>1. Parse(mem, n) = Described(es, st)
  BY ParseIs
<1>2. \A k \in 1 .. Len(es) : (st[k - 1] + 1) % OffsetSpan = st[k - 1] + 1
  <2> TAKE k \in 1 .. Len(es)
  <2>1. k - 1 \in 0 .. Len(es) /\ k \in 0 .. Len(es) /\ k - 1 < k
    OBVIOUS
  <2>2. st[k - 1] \in Nat /\ st[k] \in Nat /\ st[k] < Len(mem) /\ st[k - 1] < st[k]
    BY <2>1, FlagsInside
  <2>3. \A x \in Nat : x < OffsetSpan => x % OffsetSpan = x
    BY DirDataAssumption
  <2> QED BY <2>2, <2>3, DirDataAssumption
<1> QED BY <1>1, <1>2 DEF Described, Seen

(* What n entries are in memory when those in got were read.               *)
Shown(got, n) == [i \in 1 .. n |-> IF i <= Len(got) THEN got[i] ELSE NoElement]

LEMMA ElementsSeen ==
  ASSUME NEW mem, NEW es, NEW st, NEW n, es \in Seq(Files), LaidOut(mem, es, st),
         Len(mem) \in Nat, Len(mem) <= OffsetSpan, n = Len(es)
  PROVE  Shown(Parse(mem, n), n) = Seen(es, st)
<1>1. Parse(mem, n) = Seen(es, st)
  BY ParseSees
<1>2. Len(Seen(es, st)) = n
  BY DEF Seen
<1>3. Seen(es, st) = [i \in 1 .. n |-> Seen(es, st)[i]]
  BY DEF Seen
<1> HIDE DEF Seen
<1> QED BY <1>1, <1>2, <1>3 DEF Shown

LEMMA SeenIs ==
  ASSUME NEW es, NEW st, NEW k \in 1 .. Len(es)
  PROVE  /\ Seen(es, st)[k].offset = st[k - 1] + 1
         /\ Seen(es, st)[k].size = st[k] - st[k - 1] - 1
         /\ Seen(es, st)[k].file = es[k]
BY DEF Seen

(***************************************************************************)
(* Memory.                                                                 *)
(***************************************************************************)

LEMMA ZeroType == Zero \in ByteSet /\ LastFlag \in ByteSet /\ Zero # LastFlag
BY DEF Zero, LastFlag, Byte, NoFile, ByteSet

LEMMA AtType ==
  ASSUME NEW mem \in Seq(ByteSet), NEW o
  PROVE  At(mem, o) \in ByteSet
BY ZeroType DEF At

LEMMA PutAt ==
  ASSUME NEW mem \in Seq(ByteSet), NEW new \in Seq(ByteSet), NEW o \in Nat
  PROVE  /\ Put(mem, o, new) \in Seq(ByteSet)
         /\ Len(Put(mem, o, new)) = Len(mem)
         /\ \A x \in Nat : x < Len(mem) =>
              At(Put(mem, o, new), x) = IF x \in o .. o + Len(new) - 1 THEN new[x - o + 1]
                                        ELSE At(mem, x)
<1>0. PICK l \in Nat : l = Len(mem)
  OBVIOUS
<1> DEFINE p == Put(mem, o, new)
<1>1. \A k \in 1 .. l : k - 1 \in o .. o + Len(new) - 1 => k - o \in 1 .. Len(new)
  OBVIOUS
<1>2. p \in Seq(ByteSet) /\ Len(p) = l
  BY <1>0, <1>1 DEF Put
<1>3. ASSUME NEW x \in Nat, x < l
      PROVE  At(p, x) = IF x \in o .. o + Len(new) - 1 THEN new[x - o + 1] ELSE At(mem, x)
  <2>1. x + 1 \in 1 .. l /\ x + 1 - 1 = x /\ x + 1 - o = x - o + 1
    BY <1>3
  <2>2. p[x + 1] = IF x \in o .. o + Len(new) - 1 THEN new[x - o + 1] ELSE mem[x + 1]
    BY <1>0, <2>1 DEF Put
  <2>3. At(p, x) = p[x + 1] /\ At(mem, x) = mem[x + 1]
    BY <1>0, <1>2, <1>3 DEF At
  <2> QED BY <2>2, <2>3
<1> QED BY <1>0, <1>2, <1>3

LEMMA MoveAt ==
  ASSUME NEW mem \in Seq(ByteSet), NEW to \in Nat, NEW from \in Nat, NEW n \in Int
  PROVE  /\ Move(mem, to, from, n) \in Seq(ByteSet)
         /\ Len(Move(mem, to, from, n)) = Len(mem)
         /\ \A x \in Nat : x < Len(mem) =>
              At(Move(mem, to, from, n), x) = IF x \in to .. to + n - 1 THEN At(mem, x - to + from)
                                              ELSE At(mem, x)
<1>0. PICK l \in Nat : l = Len(mem)
  OBVIOUS
<1> DEFINE p == Move(mem, to, from, n)
<1>2. p \in Seq(ByteSet) /\ Len(p) = l
  BY <1>0, AtType DEF Move
<1>3. ASSUME NEW x \in Nat, x < l
      PROVE  At(p, x) = IF x \in to .. to + n - 1 THEN At(mem, x - to + from) ELSE At(mem, x)
  <2>1. x + 1 \in 1 .. l /\ x + 1 - 1 = x
    BY <1>3
  <2>2. p[x + 1] = IF x \in to .. to + n - 1 THEN At(mem, x - to + from) ELSE mem[x + 1]
    BY <1>0, <2>1 DEF Move
  <2>3. At(p, x) = p[x + 1] /\ At(mem, x) = mem[x + 1]
    BY <1>0, <1>2, <1>3 DEF At
  <2> QED BY <2>2, <2>3
<1> QED BY <1>0, <1>2, <1>3

LEMMA ResizedAt ==
  ASSUME NEW mem \in Seq(ByteSet), NEW n \in Nat
  PROVE  /\ Resized(mem, n) \in Seq(ByteSet)
         /\ Len(Resized(mem, n)) = n
         /\ \A x \in Nat : x < n => At(Resized(mem, n), x) = At(mem, x)
<1> DEFINE p == Resized(mem, n)
<1>1. p \in Seq(ByteSet) /\ Len(p) = n
  BY AtType DEF Resized
<1>2. ASSUME NEW x \in Nat, x < n
      PROVE  At(p, x) = At(mem, x)
  <2>1. x + 1 \in 1 .. n /\ x + 1 - 1 = x /\ x \in 0 .. n - 1
    BY <1>2
  <2>2. p[x + 1] = At(mem, x)
    BY <2>1 DEF Resized
  <2>3. At(p, x) = p[x + 1]
    BY <1>1, <2>1 DEF At
  <2> QED BY <2>2, <2>3
<1> QED BY <1>1, <1>2

LEMMA Joined ==
  ASSUME NEW S, NEW a \in Seq(S), NEW b \in Seq(S)
  PROVE  /\ a \o b \in Seq(S) /\ Len(a \o b) = Len(a) + Len(b)
         /\ \A k \in 1 .. Len(a) : (a \o b)[k] = a[k]
         /\ \A k \in 1 .. Len(b) : (a \o b)[Len(a) + k] = b[k]
<1>0. PICK x \in Nat, y \in Nat : x = Len(a) /\ y = Len(b)
  OBVIOUS
<1>1. a \o b \in Seq(S) /\ Len(a \o b) = x + y
  BY <1>0
<1>2. ASSUME NEW k \in 1 .. x PROVE (a \o b)[k] = a[k]
  BY <1>0
<1>3. ASSUME NEW k \in 1 .. y PROVE (a \o b)[x + k] = b[k]
  <2>1. x + k \in 1 .. x + y /\ ~(x + k <= x) /\ x + k - x = k
    OBVIOUS
  <2> QED BY <1>0, <2>1
<1> QED BY <1>0, <1>1, <1>2, <1>3

LEMMA EntryIs ==
  ASSUME NEW f \in Files, NEW n \in Names, NEW last \in BOOLEAN
  PROVE  LET new == Entry(f, n) \o <<Flag(last)>>
             size == EntrySize(n)
         IN  /\ size \in Nat /\ size > EntryHead /\ size = EntryHead + Len(n) + 1
             /\ new \in Seq(ByteSet) /\ Len(new) = size + 1
             /\ new[1] = Byte("head", f, size - EntryHead - 1)
             /\ new[size].len = size
             /\ new[size + 1] = Flag(last)
<1> DEFINE size == EntrySize(n)
           head == <<Byte("head", f, Len(n))>>
           text == [k \in 1 .. size - 2 |-> Byte("text", f, 0)]
           back == <<Byte("back", NoFile, size)>>
           flag == <<Flag(last)>>
<1>1. Len(n) \in Nat /\ f \in Nat
  BY DirDataAssumption
<1>2. size \in Nat /\ size > EntryHead /\ size = EntryHead + Len(n) + 1 /\ size > 3
  BY <1>1 DEF EntrySize, EntryHead
<1>3. /\ Byte("head", f, Len(n)) \in ByteSet
      /\ Byte("text", f, 0) \in ByteSet
      /\ Byte("back", NoFile, size) \in ByteSet
      /\ Flag(last) \in ByteSet
  BY <1>1, <1>2, ZeroType DEF Byte, ByteSet, NoFile, Flag
<1>4. /\ head \in Seq(ByteSet) /\ Len(head) = 1 /\ head[1] = Byte("head", f, Len(n))
      /\ back \in Seq(ByteSet) /\ Len(back) = 1 /\ back[1] = Byte("back", NoFile, size)
      /\ flag \in Seq(ByteSet) /\ Len(flag) = 1 /\ flag[1] = Flag(last)
  BY <1>3
<1>5. text \in Seq(ByteSet) /\ Len(text) = size - 2
  <2>1. size - 2 \in Nat
    BY <1>2
  <2> QED BY <1>3, <2>1
<1>6. Entry(f, n) \o <<Flag(last)>> = ((head \o text) \o back) \o flag
  BY DEF Entry
<1> HIDE DEF head, text, back, flag, size
<1>7. PICK a : a = head \o text
  OBVIOUS
<1>8. a \in Seq(ByteSet) /\ Len(a) = size - 1 /\ a[1] = head[1]
  <2>1. PICK s \in Nat : s = size - 2
    BY <1>2
  <2>2. a \in Seq(ByteSet) /\ Len(a) = 1 + s /\ \A k \in 1 .. 1 : a[k] = head[k]
    <3>1. head \in Seq(ByteSet) /\ text \in Seq(ByteSet)
      BY <1>4, <1>5
    <3>2. /\ head \o text \in Seq(ByteSet) /\ Len(head \o text) = Len(head) + Len(text)
          /\ \A k \in 1 .. Len(head) : (head \o text)[k] = head[k]
      BY <3>1, Joined
    <3> QED BY <1>4, <1>5, <1>7, <2>1, <3>2
  <2> QED BY <1>2, <2>1, <2>2
<1>9. PICK b : b = a \o back
  OBVIOUS
<1>10. b \in Seq(ByteSet) /\ Len(b) = size /\ b[1] = head[1] /\ b[size] = back[1]
  <2>1. PICK s \in Nat : s = size - 1 /\ s > 0
    BY <1>2
  <2>2. /\ b \in Seq(ByteSet) /\ Len(b) = s + 1 /\ \A k \in 1 .. s : b[k] = a[k]
        /\ \A k \in 1 .. 1 : b[s + k] = back[k]
    <3>1. a \in Seq(ByteSet) /\ back \in Seq(ByteSet)
      BY <1>4, <1>8
    <3>2. /\ a \o back \in Seq(ByteSet) /\ Len(a \o back) = Len(a) + Len(back)
          /\ \A k \in 1 .. Len(a) : (a \o back)[k] = a[k]
          /\ \A k \in 1 .. Len(back) : (a \o back)[Len(a) + k] = back[k]
      BY <3>1, Joined
    <3> QED BY <1>4, <1>8, <1>9, <2>1, <3>2
  <2>3. 1 \in 1 .. s /\ s + 1 = size
    BY <1>2, <2>1
  <2> QED BY <1>8, <2>2, <2>3
<1>11. PICK c : c = b \o flag
  OBVIOUS
<1>12. /\ c \in Seq(ByteSet) /\ Len(c) = size + 1 /\ c[1] = head[1] /\ c[size] = back[1]
       /\ c[size + 1] = flag[1]
  <2>1. /\ c \in Seq(ByteSet) /\ Len(c) = size + 1 /\ \A k \in 1 .. size : c[k] = b[k]
        /\ \A k \in 1 .. 1 : c[size + k] = flag[k]
    <3>1. b \in Seq(ByteSet) /\ flag \in Seq(ByteSet)
      BY <1>4, <1>10
    <3>2. /\ b \o flag \in Seq(ByteSet) /\ Len(b \o flag) = Len(b) + Len(flag)
          /\ \A k \in 1 .. Len(b) : (b \o flag)[k] = b[k]
          /\ \A k \in 1 .. Len(flag) : (b \o flag)[Len(b) + k] = flag[k]
      BY <3>1, Joined
    <3> QED BY <1>2, <1>4, <1>10, <1>11, <3>2
  <2>2. 1 \in 1 .. size /\ size \in 1 .. size
    BY <1>2
  <2> QED BY <1>10, <2>1, <2>2
<1>13. Len(n) = size - EntryHead - 1
  BY <1>1, <1>2 DEF EntryHead
<1>14. back[1].len = size
  BY <1>4 DEF Byte
<1>15. c = Entry(f, n) \o <<Flag(last)>>
  BY <1>6, <1>7, <1>9, <1>11
<1> QED BY <1>2, <1>4, <1>12, <1>13, <1>14, <1>15 DEF size

(***************************************************************************)
(* Insertion.                                                              *)
(***************************************************************************)

LEMMA RealSizeIs ==
  ASSUME NEW es, NEW st, es \in Seq(Files), Len(es) = count, LaidOut(bytes, es, st),
         Len(bytes) \in Nat
  PROVE  RealSize(Seen(es, st)) = st[count] + 1
<1>0. PICK c \in Nat : c = count
  OBVIOUS
<1>1. st[0] = 0 /\ \A k \in 0 .. c : st[k] \in Nat
  BY <1>0, FlagsInside DEF LaidOut
<1>2. CASE c = 0
  BY <1>0, <1>1, <1>2 DEF RealSize
<1>3. CASE c # 0
  <2>1. c \in 1 .. Len(es) /\ c - 1 \in 0 .. c /\ c \in 0 .. c
    BY <1>0, <1>3
  <2>2. /\ Seen(es, st)[c].offset = st[c - 1] + 1
        /\ Seen(es, st)[c].size = st[c] - st[c - 1] - 1
    BY <2>1, SeenIs
  <2>3. EndOf(Seen(es, st)[c]) = st[c]
    BY <1>1, <2>1, <2>2 DEF EndOf
  <2> QED BY <1>0, <1>3, <2>3 DEF RealSize
<1> QED BY <1>2, <1>3

(* The bytes mem are the bytes old with new in front of element i.         *)
Placed(mem, old, st, c, i, new, d) ==
  /\ mem \in Seq(ByteSet) /\ Len(mem) = st[c] + 1 + d
  /\ \A x \in 0 .. st[i - 1] - 1 : At(mem, x) = At(old, x)
  /\ At(mem, st[i - 1]) = IF i = c + 1 THEN Zero ELSE At(old, st[i - 1])
  /\ \A j \in 1 .. d : At(mem, st[i - 1] + j) = new[j]
  /\ i <= c => \A x \in st[i - 1] + 1 .. st[c] : At(mem, x + d) = At(old, x)

LEMMA InsertedAt ==
  ASSUME NEW es, NEW st, bytes \in Seq(ByteSet), es \in Seq(Files), Len(es) = count,
         LaidOut(bytes, es, st), NEW f \in Files, NEW n \in Names, NEW i \in 1 .. count + 1,
         MoveFits(Seen(es, st), i)
  PROVE  Placed(Inserted(Seen(es, st), i, f, n), bytes, st, count, i,
                Entry(f, n) \o <<Flag(i = count + 1)>>, EntrySize(n) + 1)
<1> DEFINE mem == Inserted(Seen(es, st), i, f, n)
           new == Entry(f, n) \o <<Flag(i = count + 1)>>
<1>0. PICK c \in Nat : c = count
  OBVIOUS
<1>1. /\ i - 1 \in 0 .. c /\ c \in 0 .. c
      /\ \A k \in 0 .. c : st[k] \in Nat /\ st[k] < Len(bytes)
      /\ \A j, k \in 0 .. c : j < k => st[j] < st[k]
  BY <1>0, FlagsInside
<1>2. PICK o \in Nat : o = st[i - 1]
  BY <1>1
<1>3. PICK d \in Nat : d = EntrySize(n) + 1 /\ d > 1 /\ new \in Seq(ByteSet) /\ Len(new) = d
  <2>1. PICK last \in BOOLEAN : last = (i = count + 1)
    OBVIOUS
  <2>2. /\ EntrySize(n) \in Nat /\ EntrySize(n) > 3
        /\ Entry(f, n) \o <<Flag(last)>> \in Seq(ByteSet)
        /\ Len(Entry(f, n) \o <<Flag(last)>>) = EntrySize(n) + 1
    BY EntryIs DEF EntryHead
  <2> QED BY <2>1, <2>2
<1>4. PICK e \in Nat : e = st[c]
  BY <1>1
<1>5. RealSize(Seen(es, st)) = e + 1
  BY <1>0, <1>4, RealSizeIs
<1>6. o <= e
  BY <1>1, <1>2, <1>4
<1> HIDE DEF new
<1>a. PICK buffer : buffer = Resized(bytes, e + 1 + d)
  OBVIOUS
<1>7. /\ buffer \in Seq(ByteSet) /\ Len(buffer) = e + 1 + d
      /\ \A x \in 0 .. e + d : At(buffer, x) = At(bytes, x)
  <2>1. e + 1 + d \in Nat /\ \A x \in 0 .. e + d : x < e + 1 + d
    OBVIOUS
  <2>2. /\ Resized(bytes, e + 1 + d) \in Seq(ByteSet)
        /\ Len(Resized(bytes, e + 1 + d)) = e + 1 + d
        /\ \A x \in Nat : x < e + 1 + d => At(Resized(bytes, e + 1 + d), x) = At(bytes, x)
    BY <2>1, ResizedAt
  <2> QED BY <1>a, <2>1, <2>2
<1>8. CASE i = c + 1
  <2>1. o = e /\ i - 1 = c
    BY <1>2, <1>4, <1>8
  <2>2. PICK one : one = Put(buffer, e + 1, new)
    OBVIOUS
  <2>3. /\ one \in Seq(ByteSet) /\ Len(one) = e + 1 + d
        /\ \A x \in 0 .. e + d : At(one, x) = IF x \in e + 1 .. e + 1 + d - 1 THEN new[x - (e + 1) + 1]
                                              ELSE At(buffer, x)
    <3>1. e + 1 \in Nat /\ \A x \in 0 .. e + d : x \in Nat /\ x < e + 1 + d
      OBVIOUS
    <3>2. /\ Put(buffer, e + 1, new) \in Seq(ByteSet)
          /\ Len(Put(buffer, e + 1, new)) = Len(buffer)
          /\ \A x \in Nat : x < Len(buffer) =>
               At(Put(buffer, e + 1, new), x) =
                 IF x \in e + 1 .. e + 1 + Len(new) - 1 THEN new[x - (e + 1) + 1] ELSE At(buffer, x)
      BY <1>3, <1>7, <3>1, PutAt
    <3> QED BY <1>3, <1>7, <2>2, <3>1, <3>2
  <2>4. <<Zero>> \in Seq(ByteSet) /\ Len(<<Zero>>) = 1 /\ <<Zero>>[1] = Zero
    BY ZeroType
  <2>5. mem = Put(one, e, <<Zero>>)
    <3>1. e + 1 - 1 = e
      OBVIOUS
    <3> QED BY <1>0, <1>3, <1>5, <1>a, <1>8, <2>2, <3>1 DEF Inserted, new
  <2>6. /\ mem \in Seq(ByteSet) /\ Len(mem) = e + 1 + d
        /\ \A x \in 0 .. e + d : At(mem, x) = IF x = e THEN Zero ELSE At(one, x)
    <3> DEFINE z == <<Zero>>
    <3>0. z \in Seq(ByteSet) /\ Len(z) = 1 /\ z[1] = Zero
      BY <2>4
    <3> HIDE DEF z
    <3>1. /\ Put(one, e, z) \in Seq(ByteSet)
          /\ Len(Put(one, e, z)) = Len(one)
          /\ \A x \in Nat : x < Len(one) =>
               At(Put(one, e, z), x) = IF x \in e .. e + Len(z) - 1 THEN z[x - e + 1] ELSE At(one, x)
      <4>1. one \in Seq(ByteSet) /\ z \in Seq(ByteSet) /\ e \in Nat
        BY <2>3, <3>0
      <4> QED BY <4>1, PutAt
    <3>2. \A x \in 0 .. e + d : x \in Nat /\ x < e + 1 + d /\ (x \in e .. e + 1 - 1 <=> x = e)
      OBVIOUS
    <3>3. e - e + 1 = 1
      OBVIOUS
    <3>4. mem = Put(one, e, z)
      BY <2>5 DEF z
    <3> HIDE DEF mem
    <3> QED BY <2>3, <3>0, <3>1, <3>2, <3>3, <3>4
  <2>7. \A x \in 0 .. o - 1 : At(mem, x) = At(bytes, x)
    <3> HIDE DEF mem
    <3> QED BY <1>7, <2>1, <2>3, <2>6
  <2>8. \A j \in 1 .. d : At(mem, o + j) = new[j]
    <3> TAKE j \in 1 .. d
    <3>1. e + j \in 0 .. e + d /\ e + j # e /\ e + j \in e + 1 .. e + 1 + d - 1
          /\ e + j - (e + 1) + 1 = j
      OBVIOUS
    <3> HIDE DEF mem
    <3> QED BY <2>1, <2>3, <2>6, <3>1
  <2>9. At(mem, o) = Zero
    <3>1. e \in 0 .. e + d
      OBVIOUS
    <3> HIDE DEF mem
    <3> QED BY <2>1, <2>6, <3>1
  <2>10. ~(i <= count)
    BY <1>0, <1>8
  <2> HIDE DEF mem
  <2>11. Placed(mem, bytes, st, count, i, new, d)
    BY <1>0, <1>2, <1>3, <1>4, <1>8, <2>6, <2>7, <2>8, <2>9, <2>10 DEF Placed
  <2> QED BY <1>3, <2>11 DEF mem, new
<1>9. CASE i # c + 1
  <2>1. i \in 1 .. c /\ i \in 1 .. Len(es)
    BY <1>0, <1>9
  <2>2. Seen(es, st)[i].offset = o + 1
    BY <1>2, <2>1, SeenIs
  <2>3. Len(bytes) = e + 1
    <3>1. Len(bytes) <= e + 1
      BY <1>0, <1>5, <1>9 DEF MoveFits
    <3> QED BY <1>1, <1>4, <3>1
  <2>4. mem = Put(Move(buffer, o + 1 + d, o + 1, e - o), o + 1, new)
    <3>1. e + 1 - (o + 1) = e - o
      OBVIOUS
    <3> QED BY <1>0, <1>3, <1>5, <1>a, <1>9, <2>2, <2>3, <3>1 DEF Inserted, new
  <2>a. PICK moved : moved = Move(buffer, o + 1 + d, o + 1, e - o)
    OBVIOUS
  <2>5. /\ moved \in Seq(ByteSet) /\ Len(moved) = e + 1 + d
        /\ \A x \in 0 .. e + d :
             At(moved, x) = IF x \in o + 1 + d .. o + 1 + d + (e - o) - 1
                            THEN At(buffer, x - (o + 1 + d) + (o + 1)) ELSE At(buffer, x)
    <3>1. /\ o + 1 + d \in Nat /\ o + 1 \in Nat /\ e - o \in Int
          /\ \A x \in 0 .. e + d : x \in Nat /\ x < e + 1 + d
      OBVIOUS
    <3>2. /\ Move(buffer, o + 1 + d, o + 1, e - o) \in Seq(ByteSet)
          /\ Len(Move(buffer, o + 1 + d, o + 1, e - o)) = Len(buffer)
          /\ \A x \in Nat : x < Len(buffer) =>
               At(Move(buffer, o + 1 + d, o + 1, e - o), x) =
                 IF x \in o + 1 + d .. o + 1 + d + (e - o) - 1
                 THEN At(buffer, x - (o + 1 + d) + (o + 1)) ELSE At(buffer, x)
      BY <1>7, <3>1, MoveAt
    <3> QED BY <1>7, <2>a, <3>1, <3>2
  <2>6. /\ mem \in Seq(ByteSet) /\ Len(mem) = e + 1 + d
        /\ \A x \in 0 .. e + d :
             At(mem, x) = IF x \in o + 1 .. o + 1 + d - 1 THEN new[x - (o + 1) + 1] ELSE At(moved, x)
    <3>1. o + 1 \in Nat /\ \A x \in 0 .. e + d : x \in Nat /\ x < e + 1 + d
      OBVIOUS
    <3>2. mem = Put(moved, o + 1, new)
      BY <2>4, <2>a
    <3>3. /\ Put(moved, o + 1, new) \in Seq(ByteSet)
          /\ Len(Put(moved, o + 1, new)) = Len(moved)
          /\ \A x \in Nat : x < Len(moved) =>
               At(Put(moved, o + 1, new), x) =
                 IF x \in o + 1 .. o + 1 + Len(new) - 1 THEN new[x - (o + 1) + 1] ELSE At(moved, x)
      <4>1. moved \in Seq(ByteSet) /\ new \in Seq(ByteSet) /\ o + 1 \in Nat
        BY <1>3, <2>5
      <4> QED BY <4>1, PutAt
    <3> HIDE DEF mem
    <3> QED BY <1>3, <2>5, <3>1, <3>2, <3>3
  <2> HIDE DEF mem
  <2>7. \A x \in 0 .. o : At(mem, x) = At(bytes, x)
    <3> TAKE x \in 0 .. o
    <3>1. x \in 0 .. e + d /\ x \notin o + 1 .. o + 1 + d - 1
          /\ x \notin o + 1 + d .. o + 1 + d + (e - o) - 1
      BY <1>6
    <3> QED BY <1>7, <2>5, <2>6, <3>1
  <2>8. \A j \in 1 .. d : At(mem, o + j) = new[j]
    <3> TAKE j \in 1 .. d
    <3>1. o + j \in 0 .. e + d /\ o + j \in o + 1 .. o + 1 + d - 1 /\ o + j - (o + 1) + 1 = j
      BY <1>6
    <3> QED BY <2>6, <3>1
  <2>9. \A x \in o + 1 .. e : At(mem, x + d) = At(bytes, x)
    <3> TAKE x \in o + 1 .. e
    <3>1. /\ x + d \in 0 .. e + d /\ x + d \notin o + 1 .. o + 1 + d - 1
          /\ x + d \in o + 1 + d .. o + 1 + d + (e - o) - 1
          /\ x + d - (o + 1 + d) + (o + 1) = x /\ x \in 0 .. e + d
      BY <1>6
    <3> QED BY <1>7, <2>5, <2>6, <3>1
  <2>10. At(mem, o) = At(bytes, o) /\ \A x \in 0 .. o - 1 : At(mem, x) = At(bytes, x)
    BY <2>7
  <2>11. count = c /\ st[i - 1] = o /\ EntrySize(n) + 1 = d /\ st[count] = e /\ i # count + 1
    BY <1>0, <1>2, <1>3, <1>4, <1>9
  <2>12. mem \in Seq(ByteSet) /\ Len(mem) = e + 1 + d
    BY <2>6
  <2>13. Placed(mem, bytes, st, count, i, new, d)
    BY <2>8, <2>9, <2>10, <2>11, <2>12 DEF Placed
  <2> QED BY <1>3, <2>13 DEF mem, new
<1> QED BY <1>8, <1>9

(* The sequence of entries and their flags with one entry more.            *)
Into(es, i, f) ==
  [k \in 1 .. Len(es) + 1 |-> IF k < i THEN es[k] ELSE IF k = i THEN f ELSE es[k - 1]]

Later(st, c, i, d) == [k \in 0 .. c + 1 |-> IF k < i THEN st[k] ELSE st[k - 1] + d]

IsInto(new, es, c, i, f) ==
  /\ new \in Seq(Files) /\ Len(new) = c + 1
  /\ \A k \in 1 .. c + 1 : new[k] = IF k < i THEN es[k] ELSE IF k = i THEN f ELSE es[k - 1]

LEMMA IntoIs ==
  ASSUME NEW es, es \in Seq(Files), NEW f \in Files, NEW c \in Nat, c = Len(es), NEW i \in 1 .. c + 1
  PROVE  IsInto(Into(es, i, f), es, c, i, f)
<1>1. \A k \in 1 .. c + 1 : /\ k < i => k \in 1 .. c
                            /\ ~(k < i) /\ k # i => k - 1 \in 1 .. c
  OBVIOUS
<1>2. \A k \in 1 .. c + 1 :
        (IF k < i THEN es[k] ELSE IF k = i THEN f ELSE es[k - 1]) \in Files
  BY <1>1
<1> QED BY <1>2 DEF Into, IsInto

(* What the bytes are then, compared with what they were.                  *)
Gained(mem, old, st, c, i, d, f) ==
  /\ Len(mem) = st[c] + 1 + d
  /\ \A x \in 0 .. st[i - 1] - 1 : At(mem, x) = At(old, x)
  /\ At(mem, st[i - 1]) = IF i = c + 1 THEN Zero ELSE At(old, st[i - 1])
  /\ At(mem, st[i - 1] + 1) = Byte("head", f, d - EntryHead - 2)
  /\ At(mem, st[i - 1] + d - 1).len = d - 1
  /\ At(mem, st[i - 1] + d) = Flag(i = c + 1)
  /\ i <= c => \A x \in st[i - 1] + 1 .. st[c] : At(mem, x + d) = At(old, x)

(* Entries and flags that describe mem, which was the bytes old of es.     *)
LaidLonger(mem, old, es, st, c, i, d, f) ==
  /\ LaidOut(mem, Into(es, i, f), Later(st, c, i, d))
  /\ Later(st, c, i, d)[c + 1] = st[c] + d

LEMMA InsertedLaid ==
  ASSUME NEW old, NEW es, NEW st, NEW c \in Nat, es \in Seq(Files), Len(es) = c, Len(old) \in Nat,
         LaidOut(old, es, st), NEW f \in Files, NEW i \in 1 .. c + 1, NEW mem,
         NEW d \in Nat, d > EntryHead + 1, Gained(mem, old, st, c, i, d, f)
  PROVE  LaidLonger(mem, old, es, st, c, i, d, f)
<1> DEFINE es1 == Into(es, i, f)
           st1 == Later(st, c, i, d)
<1>1. st \in [0 .. c -> Nat] /\ st[0] = 0
  BY DEF LaidOut
<1>m. ASSUME NEW j \in 0 .. c, NEW k \in 0 .. c, j <= k
      PROVE  st[j] \in Nat /\ st[k] \in Nat /\ st[j] + (k - j) <= st[k]
  BY <1>m, FlagOrder
<1>2. \A k \in 1 .. c :
        /\ st[k] >= st[k - 1] + EntryHead + 2
        /\ At(old, st[k - 1]) # LastFlag
        /\ At(old, st[k - 1] + 1) = Byte("head", es[k], st[k] - st[k - 1] - EntryHead - 2)
        /\ At(old, st[k] - 1).len = st[k] - st[k - 1] - 1
  BY DEF LaidOut
<1>3. At(old, st[c]) = LastFlag
  BY DEF LaidOut
<1>4. /\ es1 \in Seq(Files) /\ Len(es1) = c + 1
      /\ \A k \in 1 .. c + 1 : es1[k] = IF k < i THEN es[k] ELSE IF k = i THEN f ELSE es[k - 1]
  <2>1. IsInto(Into(es, i, f), es, c, i, f)
    BY IntoIs
  <2> QED BY <2>1 DEF IsInto
<1>5. \A k \in 0 .. c + 1 : st1[k] = IF k < i THEN st[k] ELSE st[k - 1] + d
  BY DEF Later
<1>6. st1 \in [0 .. c + 1 -> Nat]
  <2>1. \A k \in 0 .. c + 1 : (k < i => k \in 0 .. c) /\ (~(k < i) => k - 1 \in 0 .. c)
    OBVIOUS
  <2>2. \A k \in 0 .. c + 1 : (IF k < i THEN st[k] ELSE st[k - 1] + d) \in Nat
    <3> TAKE k \in 0 .. c + 1
    <3>1. CASE k < i
      <4>1. st[k] \in Nat
        BY <1>1, <2>1, <3>1
      <4> QED BY <3>1, <4>1
    <3>2. CASE ~(k < i)
      <4>1. st[k - 1] \in Nat
        BY <1>1, <2>1, <3>2
      <4> QED BY <3>2, <4>1
    <3> QED BY <3>1, <3>2
  <2> QED BY <2>2 DEF Later
<1> HIDE DEF es1, st1
<1>7. st1[0] = 0 /\ st1[c + 1] = st[c] + d
  <2>1. 0 \in 0 .. c + 1 /\ 0 < i /\ c + 1 \in 0 .. c + 1 /\ ~(c + 1 < i) /\ c + 1 - 1 = c
    OBVIOUS
  <2> QED BY <1>1, <1>5, <2>1
<1>8. \A j, k \in 0 .. c + 1 : j <= k => st1[j] + (k - j) <= st1[k]
  <2> SUFFICES ASSUME NEW j \in 0 .. c + 1, NEW k \in 0 .. c + 1, j <= k
               PROVE  st1[j] + (k - j) <= st1[k]
    OBVIOUS
  <2>1. CASE k < i
    <3>1. j \in 0 .. c /\ k \in 0 .. c /\ j < i
      BY <2>1
    <3>2. st1[j] = st[j] /\ st1[k] = st[k]
      BY <1>5, <2>1, <3>1
    <3>3. st[j] + (k - j) <= st[k]
      BY <1>m, <3>1
    <3> QED BY <3>2, <3>3
  <2>2. CASE j < i /\ ~(k < i)
    <3>1. j \in 0 .. c /\ k - 1 \in 0 .. c /\ j <= k - 1
      BY <2>2
    <3>2. st1[j] = st[j] /\ st1[k] = st[k - 1] + d
      BY <1>5, <2>2
    <3>3. st[j] \in Nat /\ st[k - 1] \in Nat /\ st[j] + (k - 1 - j) <= st[k - 1]
      BY <1>m, <3>1
    <3>4. d >= 1
      BY DEF EntryHead
    <3> QED BY <3>1, <3>2, <3>3, <3>4
  <2>3. CASE ~(j < i)
    <3>1. j - 1 \in 0 .. c /\ k - 1 \in 0 .. c /\ j - 1 <= k - 1 /\ ~(k < i)
      BY <2>3
    <3>2. st1[j] = st[j - 1] + d /\ st1[k] = st[k - 1] + d
      BY <1>5, <2>3, <3>1
    <3>3. st[j - 1] \in Nat /\ st[k - 1] \in Nat /\ st[j - 1] + (k - 1 - (j - 1)) <= st[k - 1]
      BY <1>m, <3>1
    <3> QED BY <3>2, <3>3
  <2> QED BY <2>1, <2>2, <2>3
<1>a. PICK o \in Nat : o = st[i - 1]
  <2>1. i - 1 \in 0 .. c
    OBVIOUS
  <2> QED BY <1>1, <2>1
<1>b. d >= 5 /\ d - EntryHead - 2 = d - 5
  BY DEF EntryHead
<1>9. ASSUME NEW k \in 1 .. c + 1
      PROVE  /\ st1[k] >= st1[k - 1] + EntryHead + 2
             /\ At(mem, st1[k - 1]) # LastFlag
             /\ At(mem, st1[k - 1] + 1) = Byte("head", es1[k], st1[k] - st1[k - 1] - EntryHead - 2)
             /\ At(mem, st1[k] - 1).len = st1[k] - st1[k - 1] - 1
  <2>1. CASE k < i
    <3>1. k \in 1 .. c /\ k - 1 \in 0 .. c /\ k \in 0 .. c /\ k - 1 < i /\ i - 1 \in 0 .. c
      BY <2>1
    <3>2. st1[k] = st[k] /\ st1[k - 1] = st[k - 1] /\ es1[k] = es[k]
      <4>1. k - 1 \in 0 .. c + 1
        OBVIOUS
      <4> QED BY <1>4, <1>5, <2>1, <3>1, <4>1
    <3>3. st[k] \in Nat /\ st[k - 1] \in Nat /\ st[k] >= st[k - 1] + 5
      <4>1. st[k] \in Nat /\ st[k - 1] \in Nat /\ st[k] >= st[k - 1] + EntryHead + 2
        BY <1>1, <1>2, <3>1
      <4> QED BY <4>1 DEF EntryHead
    <3>4. st[k] <= o
      <4>1. k <= i - 1
        BY <2>1
      <4>2. st[k] + (i - 1 - k) <= st[i - 1]
        BY <1>m, <3>1, <4>1
      <4> QED BY <1>a, <3>3, <4>1, <4>2
    <3>5. st[k - 1] \in 0 .. o - 1 /\ st[k - 1] + 1 \in 0 .. o - 1 /\ st[k] - 1 \in 0 .. o - 1
      <4>1. PICK a \in Nat, b \in Nat : a = st[k - 1] /\ b = st[k] /\ b >= a + 5 /\ b <= o
        BY <3>3, <3>4
      <4>2. b >= a + 5 /\ b <= o
        BY <4>1
      <4>3. a \in 0 .. o - 1
        BY <4>2
      <4>4. a + 1 \in 0 .. o - 1
        BY <4>2
      <4>5. b - 1 \in 0 .. o - 1
        BY <4>2
      <4> QED BY <4>1, <4>3, <4>4, <4>5
    <3>6. /\ At(mem, st[k - 1]) = At(old, st[k - 1])
          /\ At(mem, st[k - 1] + 1) = At(old, st[k - 1] + 1)
          /\ At(mem, st[k] - 1) = At(old, st[k] - 1)
      BY <1>a, <3>5 DEF Gained
    <3>7. st[k] >= st[k - 1] + EntryHead + 2
      BY <3>3 DEF EntryHead
    <3> QED BY <1>2, <3>1, <3>2, <3>6, <3>7
  <2>2. CASE k = i
    <3>1. st1[k] = o + d /\ st1[k - 1] = o /\ es1[k] = f
      <4>1. k \in 0 .. c + 1 /\ k - 1 \in 0 .. c + 1 /\ k - 1 < i /\ ~(k < i)
        BY <2>2
      <4> QED BY <1>4, <1>5, <1>a, <2>2, <4>1
    <3>2. At(mem, o) # LastFlag
      <4>1. CASE i = c + 1
        BY <1>a, <4>1, ZeroType DEF Gained
      <4>2. CASE i # c + 1
        <5>1. i \in 1 .. c
          BY <4>2
        <5> QED BY <1>2, <1>a, <4>2, <5>1 DEF Gained
      <4> QED BY <4>1, <4>2
    <3>3. st1[k] - st1[k - 1] = d /\ st1[k] - 1 = o + d - 1
      BY <3>1
    <3>4. st1[k] >= st1[k - 1] + EntryHead + 2
      BY <1>b, <3>1 DEF EntryHead
    <3>5. At(mem, o + 1) = Byte("head", f, d - EntryHead - 2) /\ At(mem, o + d - 1).len = d - 1
      BY <1>a DEF Gained
    <3> QED BY <3>1, <3>2, <3>3, <3>4, <3>5
  <2>3. CASE k > i
    <3>1. /\ k - 1 \in 1 .. c /\ k - 1 \in 0 .. c /\ k - 1 - 1 \in 0 .. c /\ i \in 1 .. c
          /\ k - 1 \in 0 .. c + 1 /\ k \in 0 .. c + 1 /\ ~(k < i) /\ ~(k - 1 < i) /\ k # i
          /\ i - 1 \in 0 .. c /\ c \in 0 .. c /\ i # c + 1 /\ i <= c
      BY <2>3
    <3>2. st1[k] = st[k - 1] + d /\ st1[k - 1] = st[k - 1 - 1] + d /\ es1[k] = es[k - 1]
      BY <1>4, <1>5, <3>1
    <3>3. PICK a \in Nat, b \in Nat, e \in Nat : a = st[k - 1 - 1] /\ b = st[k - 1] /\ e = st[c]
      BY <1>1, <3>1
    <3>4. b >= a + 5
      <4>1. b >= a + EntryHead + 2
        BY <1>2, <3>1, <3>3
      <4> QED BY <4>1 DEF EntryHead
    <3>5. a >= o /\ (a = o \/ a > o)
      <4>1. i - 1 <= k - 1 - 1
        BY <2>3
      <4>2. st[i - 1] + (k - 1 - 1 - (i - 1)) <= st[k - 1 - 1]
        BY <1>m, <3>1, <4>1
      <4>3. o + (k - 1 - 1 - (i - 1)) <= a
        BY <1>a, <3>3, <4>2
      <4> QED BY <4>1, <4>3
    <3>6. b <= e
      <4>1. k - 1 <= c
        BY <3>1
      <4>2. st[k - 1] + (c - (k - 1)) <= st[c]
        BY <1>m, <3>1, <4>1
      <4>3. b + (c - (k - 1)) <= e
        BY <3>3, <4>2
      <4> QED BY <4>1, <4>3
    <3>7. \A x \in o + 1 .. e : At(mem, x + d) = At(old, x)
      BY <1>a, <3>1, <3>3 DEF Gained
    <3>8. /\ At(old, a) # LastFlag
          /\ At(old, a + 1) = Byte("head", es[k - 1], b - a - EntryHead - 2)
          /\ At(old, b - 1).len = b - a - 1
      BY <1>2, <3>1, <3>3
    <3>9. At(mem, a + d) # LastFlag
      <4>1. CASE a = o
        <5>1. At(mem, o + d) = Zero
          BY <1>a, <3>1 DEF Flag, Gained
        <5> QED BY <4>1, <5>1, ZeroType
      <4>2. CASE a > o
        <5>1. a \in o + 1 .. e
          BY <3>4, <3>6, <4>2
        <5> QED BY <3>7, <3>8, <5>1
      <4> QED BY <3>5, <4>1, <4>2
    <3>10. At(mem, a + d + 1) = At(old, a + 1)
      <4>1. a + 1 \in o + 1 .. e /\ a + 1 + d = a + d + 1
        BY <3>4, <3>5, <3>6
      <4> QED BY <3>7, <4>1
    <3>11. At(mem, b + d - 1) = At(old, b - 1)
      <4>1. b - 1 \in o + 1 .. e /\ b - 1 + d = b + d - 1
        BY <3>4, <3>5, <3>6
      <4> QED BY <3>7, <4>1
    <3>12. st1[k - 1] = a + d /\ st1[k] = b + d
      BY <3>2, <3>3
    <3>13. /\ b + d >= a + d + EntryHead + 2
           /\ b + d - (a + d) - EntryHead - 2 = b - a - EntryHead - 2
           /\ b + d - (a + d) - 1 = b - a - 1
      BY <3>4 DEF EntryHead
    <3>14. es1[k] = es[k - 1]
      BY <3>2
    <3> QED BY <3>8, <3>9, <3>10, <3>11, <3>12, <3>13, <3>14
  <2> QED BY <2>1, <2>2, <2>3
<1>10. At(mem, st1[c + 1]) = LastFlag
  <2>1. CASE i = c + 1
    <3>1. i - 1 = c
      BY <2>1
    <3> QED BY <1>7, <2>1, <3>1 DEF Flag, Gained
  <2>2. CASE i # c + 1
    <3>1. i <= c /\ i - 1 < c /\ i - 1 \in 0 .. c /\ c \in 0 .. c
      BY <2>2
    <3>2. st[i - 1] \in Nat /\ st[c] \in Nat /\ st[i - 1] + (c - (i - 1)) <= st[c]
      <4>1. i - 1 <= c
        BY <3>1
      <4> QED BY <1>m, <3>1, <4>1
    <3>3. st[c] \in st[i - 1] + 1 .. st[c]
      BY <3>1, <3>2
    <3>4. At(mem, st[c] + d) = At(old, st[c])
      BY <3>1, <3>3 DEF Gained
    <3> QED BY <1>3, <1>7, <3>4
  <2> QED BY <2>1, <2>2
<1>11. st1[c + 1] < Len(mem)
  <2>1. st[c] \in Nat
    <3>1. c \in 0 .. c
      OBVIOUS
    <3> QED BY <1>1, <3>1
  <2>2. Len(mem) = st[c] + 1 + d
    BY DEF Gained
  <2> QED BY <1>7, <2>1, <2>2
<1>12. LaidOut(mem, es1, st1)
  BY <1>4, <1>6, <1>7, <1>8, <1>9, <1>10, <1>11 DEF LaidOut
<1> QED BY <1>7, <1>12 DEF es1, st1, LaidLonger


LEMMA InsertedGains ==
  ASSUME NEW es, NEW st, bytes \in Seq(ByteSet), es \in Seq(Files), Len(es) = count,
         LaidOut(bytes, es, st), NEW f \in Files, NEW n \in Names, NEW i \in 1 .. count + 1,
         MoveFits(Seen(es, st), i)
  PROVE  LET mem == Inserted(Seen(es, st), i, f, n)
             d == EntrySize(n) + 1
         IN  /\ d \in Nat /\ d > EntryHead + 1
             /\ mem \in Seq(ByteSet)
             /\ Gained(mem, bytes, st, count, i, d, f)
<1> DEFINE mem == Inserted(Seen(es, st), i, f, n)
<1>1. PICK last \in BOOLEAN : last = (i = count + 1)
  OBVIOUS
<1>2. PICK new : new = Entry(f, n) \o <<Flag(last)>>
  OBVIOUS
<1>3. PICK d \in Nat : d = EntrySize(n) + 1
  <2>1. EntrySize(n) \in Nat
    BY EntryIs
  <2> QED BY <2>1
<1>4. PICK s \in Nat : s = EntrySize(n) /\ d = s + 1
  <2>1. EntrySize(n) \in Nat
    BY EntryIs
  <2> QED BY <1>3, <2>1
<1>5. /\ s > EntryHead
      /\ new[1] = Byte("head", f, s - EntryHead - 1)
      /\ new[s].len = s
      /\ new[s + 1] = Flag(last)
  BY <1>2, <1>4, EntryIs
<1>6. PICK o : o = st[i - 1]
  OBVIOUS
<1>7. /\ mem \in Seq(ByteSet) /\ Len(mem) = st[count] + 1 + d
      /\ \A x \in 0 .. o - 1 : At(mem, x) = At(bytes, x)
      /\ At(mem, o) = IF i = count + 1 THEN Zero ELSE At(bytes, o)
      /\ \A j \in 1 .. d : At(mem, o + j) = new[j]
      /\ i <= count => \A x \in o + 1 .. st[count] : At(mem, x + d) = At(bytes, x)
  <2>1. new = Entry(f, n) \o <<Flag(i = count + 1)>>
    BY <1>1, <1>2
  <2>2. Placed(mem, bytes, st, count, i, new, d)
    BY <1>3, <2>1, InsertedAt
  <2> HIDE DEF mem
  <2> QED BY <1>6, <2>2 DEF Placed
<1> HIDE DEF mem
<1>8. o \in Nat
  <2>1. i - 1 \in 0 .. Len(es)
    OBVIOUS
  <2> QED BY <1>6, <2>1 DEF LaidOut
<1>9. /\ 1 \in 1 .. d /\ s \in 1 .. d /\ s + 1 \in 1 .. d
      /\ s - EntryHead - 1 = d - EntryHead - 2 /\ s = d - 1 /\ o + s = o + d - 1 /\ d > EntryHead + 1
  BY <1>4, <1>5, <1>8 DEF EntryHead
<1>10. At(mem, o + 1) = Byte("head", f, d - EntryHead - 2)
  BY <1>5, <1>7, <1>9
<1>11. At(mem, o + d - 1).len = d - 1
  BY <1>5, <1>7, <1>9
<1>12. At(mem, o + d) = Flag(i = count + 1)
  BY <1>1, <1>4, <1>5, <1>7, <1>9
<1>13. Gained(mem, bytes, st, count, i, d, f)
  BY <1>6, <1>7, <1>10, <1>11, <1>12 DEF Gained
<1> QED BY <1>3, <1>7, <1>9, <1>13 DEF mem

(***************************************************************************)
(* Removal.                                                                *)
(***************************************************************************)

(* What the bytes are then, compared with what they were.                  *)
Lost(mem, old, st, c, i, d) ==
  /\ Len(mem) = Len(old) - d
  /\ \A x \in 0 .. st[i - 1] - 1 : At(mem, x) = At(old, x)
  /\ At(mem, st[i - 1]) = IF i = c THEN LastFlag ELSE At(old, st[i - 1])
  /\ i < c => \A x \in st[i] + 1 .. st[c] : At(mem, x - d) = At(old, x)

LEMMA RemovedLoses ==
  ASSUME NEW es, NEW st, bytes \in Seq(ByteSet), es \in Seq(Files), Len(es) = count,
         LaidOut(bytes, es, st), NEW i \in 1 .. count
  PROVE  LET mem == Removed(Seen(es, st), i)
         IN  mem \in Seq(ByteSet) /\ Lost(mem, bytes, st, count, i, st[i] - st[i - 1])
<1> DEFINE mem == Removed(Seen(es, st), i)
<1>0. PICK c \in Nat, l \in Nat : c = count /\ l = Len(bytes)
  OBVIOUS
<1>1. /\ i - 1 \in 0 .. c /\ i \in 0 .. c /\ c \in 0 .. c /\ i \in 1 .. Len(es) /\ i - 1 < i
      /\ \A k \in 0 .. c : st[k] \in Nat /\ st[k] < l
      /\ \A j, k \in 0 .. c : j < k => st[j] < st[k]
  BY <1>0, FlagsInside
<1>2. PICK a \in Nat, b \in Nat, e \in Nat :
        /\ a = st[i - 1] /\ b = st[i] /\ e = st[c]
        /\ a < b /\ b <= e /\ e < l
  <2>1. st[i - 1] < st[i] /\ (i < c => st[i] < st[c]) /\ (~(i < c) => i = c)
    BY <1>1
  <2> QED BY <1>1, <2>1
<1>b. a < b /\ b <= e /\ e < l
  BY <1>2
<1>3. PICK d \in Nat : d = b - a
  BY <1>b
<1>c. d = st[i] - st[i - 1]
  BY <1>2, <1>3
<1>d. a + d = b /\ l - d \in Nat /\ d > 0
  BY <1>b, <1>3
<1>4. /\ Seen(es, st)[i].offset = a + 1
      /\ Seen(es, st)[i].size = b - a - 1
  BY <1>1, <1>2, SeenIs
<1>5. EndOf(Seen(es, st)[i]) + 1 = b + 1 /\ Seen(es, st)[i].size + 1 = d
  <2>1. a + 1 + (b - a - 1) + 1 = b + 1 /\ b - a - 1 + 1 = d
    BY <1>3
  <2> QED BY <1>4, <2>1 DEF EndOf
<1>6. (IF i = 1 THEN 0 ELSE EndOf(Seen(es, st)[i - 1])) = a
  <2>1. CASE i = 1
    BY <1>2, <2>1 DEF LaidOut
  <2>2. CASE i # 1
    <3>1. i - 1 \in 1 .. Len(es) /\ i - 1 - 1 \in 0 .. c
      BY <1>0, <2>2
    <3>2. /\ Seen(es, st)[i - 1].offset = st[i - 1 - 1] + 1
          /\ Seen(es, st)[i - 1].size = st[i - 1] - st[i - 1 - 1] - 1
      BY <3>1, SeenIs
    <3>3. PICK p \in Nat : p = st[i - 1 - 1]
      BY <1>1, <3>1
    <3>4. Seen(es, st)[i - 1].offset = p + 1 /\ Seen(es, st)[i - 1].size = a - p - 1
      BY <1>2, <3>2, <3>3
    <3>5. p + 1 + (a - p - 1) = a
      OBVIOUS
    <3> QED BY <2>2, <3>4, <3>5 DEF EndOf
  <2> QED BY <2>1, <2>2
<1>7. PICK marked : marked = IF i = c THEN Put(bytes, a, <<LastFlag>>) ELSE bytes
  OBVIOUS
<1>8. /\ marked \in Seq(ByteSet) /\ Len(marked) = l
      /\ \A x \in Nat : x < l =>
           At(marked, x) = IF i = c /\ x = a THEN LastFlag ELSE At(bytes, x)
  <2>1. CASE i = c
    <3> DEFINE z == <<LastFlag>>
    <3>1. z \in Seq(ByteSet) /\ Len(z) = 1 /\ z[1] = LastFlag
      BY ZeroType
    <3>2. marked = Put(bytes, a, z)
      BY <1>7, <2>1
    <3> HIDE DEF z
    <3>3. /\ Put(bytes, a, z) \in Seq(ByteSet)
          /\ Len(Put(bytes, a, z)) = Len(bytes)
          /\ \A x \in Nat : x < Len(bytes) =>
               At(Put(bytes, a, z), x) = IF x \in a .. a + Len(z) - 1 THEN z[x - a + 1]
                                         ELSE At(bytes, x)
      <4>1. z \in Seq(ByteSet)
        BY <3>1
      <4> QED BY <4>1, PutAt
    <3>4. \A x \in Nat : x \in a .. a + 1 - 1 <=> x = a
      OBVIOUS
    <3>5. a - a + 1 = 1
      OBVIOUS
    <3> QED BY <1>0, <2>1, <3>1, <3>2, <3>3, <3>4, <3>5
  <2>2. CASE i # c
    BY <1>0, <1>7, <2>2
  <2> QED BY <2>1, <2>2
<1>9. PICK moved : moved = IF c > 1 THEN Move(marked, a + 1, b + 1, l - (b + 1)) ELSE marked
  OBVIOUS
<1>10. /\ moved \in Seq(ByteSet) /\ Len(moved) = l
       /\ \A x \in Nat : x < l /\ x <= a => At(moved, x) = At(marked, x)
       /\ c > 1 => \A x \in Nat : x < l /\ x > b => At(moved, x - d) = At(marked, x)
  <2>1. CASE c > 1
    <3>1. a + 1 \in Nat /\ b + 1 \in Nat /\ l - (b + 1) \in Int
      OBVIOUS
    <3>2. /\ Move(marked, a + 1, b + 1, l - (b + 1)) \in Seq(ByteSet)
          /\ Len(Move(marked, a + 1, b + 1, l - (b + 1))) = Len(marked)
          /\ \A x \in Nat : x < Len(marked) =>
               At(Move(marked, a + 1, b + 1, l - (b + 1)), x) =
                 IF x \in a + 1 .. a + 1 + (l - (b + 1)) - 1
                 THEN At(marked, x - (a + 1) + (b + 1)) ELSE At(marked, x)
      BY <1>8, <3>1, MoveAt
    <3>3. /\ moved \in Seq(ByteSet) /\ Len(moved) = l
          /\ \A x \in Nat : x < l =>
               At(moved, x) = IF x \in a + 1 .. a + 1 + (l - (b + 1)) - 1
                              THEN At(marked, x - (a + 1) + (b + 1)) ELSE At(marked, x)
      BY <1>8, <1>9, <2>1, <3>2
    <3>4. ASSUME NEW x \in Nat, x < l, x <= a PROVE At(moved, x) = At(marked, x)
      BY <3>3, <3>4
    <3>5. ASSUME NEW x \in Nat, x < l, x > b PROVE At(moved, x - d) = At(marked, x)
      <4>1. /\ x - d \in Nat /\ x - d < l /\ x - d \in a + 1 .. a + 1 + (l - (b + 1)) - 1
            /\ x - d - (a + 1) + (b + 1) = x
        BY <1>b, <1>d, <3>5
      <4> QED BY <3>3, <4>1
    <3> QED BY <3>3, <3>4, <3>5
  <2>2. CASE ~(c > 1)
    BY <1>8, <1>9, <2>2
  <2> QED BY <2>1, <2>2
<1>11. mem = Resized(moved, l - d)
  BY <1>0, <1>4, <1>5, <1>6, <1>7, <1>9 DEF Removed
<1> HIDE DEF mem
<1>12. /\ mem \in Seq(ByteSet) /\ Len(mem) = l - d
       /\ \A x \in Nat : x < l - d => At(mem, x) = At(moved, x)
  BY <1>d, <1>10, <1>11, ResizedAt
<1>13. \A x \in 0 .. a - 1 : At(mem, x) = At(bytes, x)
  <2> TAKE x \in 0 .. a - 1
  <2>1. x \in Nat /\ x < l - d /\ x < l /\ x <= a /\ x # a
    BY <1>b, <1>d
  <2> QED BY <1>8, <1>10, <1>12, <2>1
<1>14. At(mem, a) = IF i = c THEN LastFlag ELSE At(bytes, a)
  <2>1. a < l - d /\ a < l /\ a <= a
    BY <1>b, <1>d
  <2> QED BY <1>8, <1>10, <1>12, <2>1
<1>15. i < c => \A x \in b + 1 .. e : At(mem, x - d) = At(bytes, x)
  <2> SUFFICES ASSUME i < c, NEW x \in b + 1 .. e PROVE At(mem, x - d) = At(bytes, x)
    OBVIOUS
  <2>1. x \in Nat /\ x < l /\ x > b /\ x - d \in Nat /\ x - d < l - d /\ c > 1 /\ i # c
    BY <1>b, <1>d
  <2> QED BY <1>8, <1>10, <1>12, <2>1
<1>16. Lost(mem, bytes, st, c, i, d)
  BY <1>0, <1>2, <1>12, <1>13, <1>14, <1>15 DEF Lost
<1> QED BY <1>0, <1>c, <1>12, <1>16 DEF mem

(* The sequence of entries and their flags with one entry less.            *)
Without(es, i) == [k \in 1 .. Len(es) - 1 |-> IF k < i THEN es[k] ELSE es[k + 1]]

Earlier(st, c, i, d) == [k \in 0 .. c - 1 |-> IF k < i THEN st[k] ELSE st[k + 1] - d]

LEMMA WithoutIs ==
  ASSUME NEW es, es \in Seq(Files), NEW c \in Nat, c = Len(es), NEW i \in 1 .. c
  PROVE  /\ Without(es, i) \in Seq(Files) /\ Len(Without(es, i)) = c - 1
         /\ \A k \in 1 .. c - 1 : Without(es, i)[k] = IF k < i THEN es[k] ELSE es[k + 1]
<1>1. c - 1 \in Nat /\ \A k \in 1 .. c - 1 : k \in 1 .. c /\ k + 1 \in 1 .. c
  OBVIOUS
<1>2. \A k \in 1 .. c - 1 : (IF k < i THEN es[k] ELSE es[k + 1]) \in Files
  BY <1>1
<1> QED BY <1>1, <1>2 DEF Without

LaidShorter(mem, old, es, st, c, i, d) ==
  /\ LaidOut(mem, Without(es, i), Earlier(st, c, i, d))
  /\ Earlier(st, c, i, d)[c - 1] = st[c] - d
  /\ d \in Nat /\ d <= Len(old)

LEMMA RemovedLaid ==
  ASSUME NEW old, NEW es, NEW st, NEW c \in Nat, es \in Seq(Files), Len(es) = c, Len(old) \in Nat,
         LaidOut(old, es, st), NEW i \in 1 .. c, NEW mem, NEW d, d = st[i] - st[i - 1],
         Lost(mem, old, st, c, i, d)
  PROVE  LaidShorter(mem, old, es, st, c, i, d)
<1> DEFINE es1 == Without(es, i)
           st1 == Earlier(st, c, i, d)
<1>1. st \in [0 .. c -> Nat] /\ st[0] = 0 /\ st[c] < Len(old)
  BY DEF LaidOut
<1>m. ASSUME NEW j \in 0 .. c, NEW k \in 0 .. c, j <= k
      PROVE  st[j] \in Nat /\ st[k] \in Nat /\ st[j] + (k - j) <= st[k]
  BY <1>m, FlagOrder
<1>2. \A k \in 1 .. c :
        /\ st[k] >= st[k - 1] + EntryHead + 2
        /\ At(old, st[k - 1]) # LastFlag
        /\ At(old, st[k - 1] + 1) = Byte("head", es[k], st[k] - st[k - 1] - EntryHead - 2)
        /\ At(old, st[k] - 1).len = st[k] - st[k - 1] - 1
  BY DEF LaidOut
<1>3. At(old, st[c]) = LastFlag
  BY DEF LaidOut
<1>i. i - 1 \in 0 .. c /\ i \in 0 .. c /\ c \in 0 .. c /\ i - 1 <= i /\ i <= c /\ c - 1 \in Nat
  OBVIOUS
<1>a. PICK a \in Nat, b \in Nat, e \in Nat : a = st[i - 1] /\ b = st[i] /\ e = st[c]
  BY <1>1, <1>i
<1>b. a + 1 <= b /\ b <= e
  <2>1. st[i - 1] + (i - (i - 1)) <= st[i] /\ st[i] + (c - i) <= st[c]
    BY <1>m, <1>i
  <2>2. a + (i - (i - 1)) <= b /\ b + (c - i) <= e
    BY <1>a, <2>1
  <2> QED BY <1>i, <2>2
<1>d. d = b - a /\ d \in Nat /\ d > 0 /\ a + d = b
  <2>1. d = b - a
    BY <1>a
  <2> QED BY <1>b, <2>1
<1>4. /\ es1 \in Seq(Files) /\ Len(es1) = c - 1
      /\ \A k \in 1 .. c - 1 : es1[k] = IF k < i THEN es[k] ELSE es[k + 1]
  <2>1. /\ Without(es, i) \in Seq(Files) /\ Len(Without(es, i)) = c - 1
        /\ \A k \in 1 .. c - 1 : Without(es, i)[k] = IF k < i THEN es[k] ELSE es[k + 1]
    <3> HIDE DEF es1, st1
    <3> QED BY WithoutIs
  <2> QED BY <2>1
<1>5. \A k \in 0 .. c - 1 : st1[k] = IF k < i THEN st[k] ELSE st[k + 1] - d
  BY DEF Earlier
<1>e. ASSUME NEW k \in 0 .. c - 1, ~(k < i)
      PROVE  /\ k + 1 \in 0 .. c /\ st[k + 1] \in Nat /\ st[k + 1] >= b + (k + 1 - i)
             /\ st[k + 1] <= e
  <2>1. k + 1 \in 0 .. c /\ i <= k + 1 /\ k + 1 <= c
    BY <1>e
  <2>2. st[k + 1] \in Nat /\ st[i] + (k + 1 - i) <= st[k + 1] /\ st[k + 1] + (c - (k + 1)) <= st[c]
    BY <1>m, <1>i, <2>1
  <2>3. PICK x \in Nat : x = st[k + 1]
    BY <2>2
  <2>4. b + (k + 1 - i) <= x /\ x + (c - (k + 1)) <= e
    BY <1>a, <2>2, <2>3
  <2>5. x >= b + (k + 1 - i) /\ x <= e
    BY <2>1, <2>4
  <2> QED BY <2>1, <2>3, <2>5
<1>6. st1 \in [0 .. c - 1 -> Nat]
  <2>2. \A k \in 0 .. c - 1 : (IF k < i THEN st[k] ELSE st[k + 1] - d) \in Nat
    <3> TAKE k \in 0 .. c - 1
    <3>1. CASE k < i
      <4>1. k \in 0 .. c
        OBVIOUS
      <4>2. st[k] \in Nat
        BY <1>1, <4>1
      <4> QED BY <3>1, <4>2
    <3>2. CASE ~(k < i)
      <4>1. PICK x \in Nat : x = st[k + 1] /\ x >= b + (k + 1 - i)
        BY <1>e, <3>2
      <4>2. x - d \in Nat
        BY <1>d, <3>2, <4>1
      <4> QED BY <3>2, <4>1, <4>2
    <3> QED BY <3>1, <3>2
  <2> QED BY <2>2 DEF Earlier
<1> HIDE DEF es1, st1
<1>7. st1[0] = 0 /\ st1[c - 1] = e - d
  <2>1. 0 \in 0 .. c - 1 /\ 0 < i
    OBVIOUS
  <2>2. CASE i = c
    <3>1. c - 1 \in 0 .. c - 1 /\ c - 1 < i /\ c - 1 = i - 1
      BY <2>2
    <3>2. e = b /\ st1[c - 1] = a
      BY <1>5, <1>a, <2>2, <3>1
    <3>3. e - d = a
      BY <1>d, <3>2
    <3>4. st1[0] = 0
      BY <1>1, <1>5, <2>1
    <3> QED BY <3>2, <3>3, <3>4
  <2>3. CASE i # c
    <3>1. c - 1 \in 0 .. c - 1 /\ ~(c - 1 < i) /\ c - 1 + 1 = c
      BY <2>3
    <3> QED BY <1>1, <1>5, <1>a, <2>1, <3>1
  <2> QED BY <2>2, <2>3
<1>8. \A j, k \in 0 .. c - 1 : j <= k => st1[j] + (k - j) <= st1[k]
  <2> SUFFICES ASSUME NEW j \in 0 .. c - 1, NEW k \in 0 .. c - 1, j <= k
               PROVE  st1[j] + (k - j) <= st1[k]
    OBVIOUS
  <2>1. CASE k < i
    <3>1. j \in 0 .. c /\ k \in 0 .. c /\ j < i
      BY <2>1
    <3>2. st1[j] = st[j] /\ st1[k] = st[k]
      BY <1>5, <2>1, <3>1
    <3>3. st[j] + (k - j) <= st[k]
      BY <1>m, <3>1
    <3> QED BY <3>2, <3>3
  <2>2. CASE j < i /\ ~(k < i)
    <3>1. j \in 0 .. c /\ j <= i - 1
      BY <2>2
    <3>2. st1[j] = st[j] /\ st1[k] = st[k + 1] - d
      BY <1>5, <2>2
    <3>3. st[j] \in Nat /\ st[j] + (i - 1 - j) <= st[i - 1]
      BY <1>m, <1>i, <3>1
    <3>4. PICK x \in Nat, y \in Nat : x = st[j] /\ y = st[k + 1] /\ y >= b + (k + 1 - i)
      BY <1>e, <2>2, <3>3
    <3>5. x + (i - 1 - j) <= a
      BY <1>a, <3>3, <3>4
    <3>6. y >= b + (k + 1 - i)
      BY <3>4
    <3>7. x + (k - j) <= y - d
      BY <1>d, <3>5, <3>6
    <3> QED BY <3>2, <3>4, <3>7
  <2>3. CASE ~(j < i)
    <3>1. j + 1 \in 0 .. c /\ k + 1 \in 0 .. c /\ j + 1 <= k + 1 /\ ~(k < i)
      BY <2>3
    <3>2. st1[j] = st[j + 1] - d /\ st1[k] = st[k + 1] - d
      BY <1>5, <2>3, <3>1
    <3>3. st[j + 1] \in Nat /\ st[k + 1] \in Nat /\ st[j + 1] + (k + 1 - (j + 1)) <= st[k + 1]
      <4>1. PICK p \in 0 .. c, q \in 0 .. c : p = j + 1 /\ q = k + 1 /\ p <= q
        BY <3>1
      <4>2. st[p] \in Nat /\ st[q] \in Nat /\ st[p] + (q - p) <= st[q]
        BY <1>m, <4>1
      <4> QED BY <4>1, <4>2
    <3>4. PICK x \in Nat, y \in Nat : x = st[j + 1] /\ y = st[k + 1]
      BY <3>3
    <3>5. x + (k + 1 - (j + 1)) <= y
      BY <3>3, <3>4
    <3>6. x - d + (k - j) <= y - d
      BY <1>d, <3>5
    <3> QED BY <3>2, <3>4, <3>6
  <2> QED BY <2>1, <2>2, <2>3
<1>l. /\ \A x \in 0 .. a - 1 : At(mem, x) = At(old, x)
      /\ At(mem, a) = IF i = c THEN LastFlag ELSE At(old, a)
      /\ i < c => \A x \in b + 1 .. e : At(mem, x - d) = At(old, x)
      /\ Len(mem) = Len(old) - d
  BY <1>a DEF Lost
<1>9. ASSUME NEW k \in 1 .. c - 1
      PROVE  /\ st1[k] >= st1[k - 1] + EntryHead + 2
             /\ At(mem, st1[k - 1]) # LastFlag
             /\ At(mem, st1[k - 1] + 1) = Byte("head", es1[k], st1[k] - st1[k - 1] - EntryHead - 2)
             /\ At(mem, st1[k] - 1).len = st1[k] - st1[k - 1] - 1
  <2>1. CASE k < i
    <3>1. k \in 1 .. c /\ k - 1 \in 0 .. c /\ k \in 0 .. c /\ k - 1 < i /\ k <= i - 1
          /\ k - 1 \in 0 .. c - 1 /\ k \in 0 .. c - 1
      BY <2>1
    <3>2. st1[k] = st[k] /\ st1[k - 1] = st[k - 1] /\ es1[k] = es[k]
      BY <1>4, <1>5, <2>1, <3>1
    <3>3. PICK x \in Nat, y \in Nat : x = st[k - 1] /\ y = st[k]
      BY <1>1, <3>1
    <3>4. y >= x + 5
      <4>1. y >= x + EntryHead + 2
        BY <1>2, <3>1, <3>3
      <4> QED BY <4>1 DEF EntryHead
    <3>5. y <= a
      <4>1. st[k] + (i - 1 - k) <= st[i - 1]
        BY <1>m, <1>i, <3>1
      <4>2. y + (i - 1 - k) <= a
        BY <1>a, <3>3, <4>1
      <4> QED BY <3>1, <4>2
    <3>6. x \in 0 .. a - 1 /\ x + 1 \in 0 .. a - 1 /\ y - 1 \in 0 .. a - 1
      BY <3>4, <3>5
    <3>7. At(mem, x) = At(old, x) /\ At(mem, x + 1) = At(old, x + 1) /\ At(mem, y - 1) = At(old, y - 1)
      BY <1>l, <3>6
    <3> QED BY <1>2, <3>1, <3>2, <3>3, <3>7
  <2>2. CASE ~(k < i)
    <3>1. /\ k + 1 \in 1 .. c /\ k + 1 - 1 = k /\ k \in 0 .. c /\ k + 1 \in 0 .. c /\ i <= k
          /\ i < c /\ i # c /\ k \in 0 .. c - 1 /\ k - 1 \in 0 .. c - 1
      BY <2>2
    <3>2. PICK x \in Nat, y \in Nat : x = st[k] /\ y = st[k + 1]
      BY <1>1, <3>1
    <3>3. y >= x + 5
      <4>1. st[k + 1] >= st[k + 1 - 1] + EntryHead + 2
        BY <1>2, <3>1
      <4>2. y >= x + EntryHead + 2
        BY <3>1, <3>2, <4>1
      <4> QED BY <4>2 DEF EntryHead
    <3>4. x >= b + (k - i) /\ y <= e
      <4>1. st[i] + (k - i) <= st[k]
        BY <1>m, <1>i, <3>1
      <4>2. st[k + 1] <= e
        BY <1>e, <2>2, <3>1
      <4> QED BY <1>a, <3>2, <4>1, <4>2
    <3>5. st1[k] = y - d /\ es1[k] = es[k + 1]
      BY <1>4, <1>5, <2>2, <3>1, <3>2
    <3>6. st1[k - 1] = x - d /\ At(mem, x - d) # LastFlag
      <4>1. At(old, a) # LastFlag
        BY <1>2, <1>a
      <4>2. CASE k = i
        <5>1. x = b /\ x - d = a
          BY <1>a, <1>d, <3>2, <4>2
        <5>2. k - 1 < i /\ k - 1 = i - 1
          BY <4>2
        <5>3. st1[k - 1] = a
          BY <1>5, <1>a, <3>1, <5>2
        <5> QED BY <1>l, <3>1, <4>1, <5>1, <5>3
      <4>3. CASE k # i
        <5>1. ~(k - 1 < i) /\ k - 1 + 1 = k
          BY <3>1, <4>3
        <5>2. st1[k - 1] = x - d
          BY <1>5, <3>1, <3>2, <5>1
        <5>3. x \in b + 1 .. e
          BY <3>1, <3>3, <3>4, <4>3
        <5>4. At(old, x) # LastFlag
          BY <1>2, <3>1, <3>2
        <5> QED BY <1>l, <3>1, <5>2, <5>3, <5>4
      <4> QED BY <4>2, <4>3
    <3>7. At(mem, x - d + 1) = At(old, x + 1)
      <4>1. x + 1 \in b + 1 .. e /\ x + 1 - d = x - d + 1
        BY <1>d, <3>1, <3>3, <3>4
      <4> QED BY <1>l, <3>1, <4>1
    <3>8. At(mem, y - d - 1) = At(old, y - 1)
      <4>1. y - 1 \in b + 1 .. e /\ y - 1 - d = y - d - 1
        BY <1>d, <3>1, <3>3, <3>4
      <4> QED BY <1>l, <3>1, <4>1
    <3>9. /\ At(old, x + 1) = Byte("head", es[k + 1], y - x - EntryHead - 2)
          /\ At(old, y - 1).len = y - x - 1
      <4>1. /\ At(old, st[k + 1 - 1] + 1) =
                 Byte("head", es[k + 1], st[k + 1] - st[k + 1 - 1] - EntryHead - 2)
            /\ At(old, st[k + 1] - 1).len = st[k + 1] - st[k + 1 - 1] - 1
        BY <1>2, <3>1
      <4> QED BY <3>1, <3>2, <4>1
    <3>10. /\ y - d >= x - d + EntryHead + 2
           /\ y - d - (x - d) - EntryHead - 2 = y - x - EntryHead - 2
           /\ y - d - (x - d) - 1 = y - x - 1
      <4>1. \A z \in Nat : /\ y - z >= x - z + 3 + 2
                           /\ y - z - (x - z) - 3 - 2 = y - x - 3 - 2
                           /\ y - z - (x - z) - 1 = y - x - 1
        BY <3>3
      <4> QED BY <1>d, <4>1 DEF EntryHead
    <3> QED BY <3>5, <3>6, <3>7, <3>8, <3>9, <3>10
  <2> QED BY <2>1, <2>2
<1>10. At(mem, e - d) = LastFlag
  <2>1. CASE i = c
    <3>1. e - d = a
      BY <1>a, <1>d, <2>1
    <3> QED BY <1>l, <2>1, <3>1
  <2>2. CASE i # c
    <3>1. i < c /\ i <= c - 1
      BY <2>2
    <3>2. e \in b + 1 .. e
      <4>1. st[i] + (c - i) <= st[c]
        BY <1>m, <1>i
      <4>2. b + (c - i) <= e
        BY <1>a, <4>1
      <4> QED BY <3>1, <4>2
    <3> QED BY <1>3, <1>a, <1>l, <3>1, <3>2
  <2> QED BY <2>1, <2>2
<1>11. e - d < Len(mem) /\ d <= Len(old)
  <2>1. PICK l \in Nat : l = Len(old)
    OBVIOUS
  <2>2. e < l /\ Len(mem) = l - d
    BY <1>1, <1>a, <1>l, <2>1
  <2> QED BY <1>b, <1>d, <2>1, <2>2
<1>12. LaidOut(mem, es1, st1)
  <2>1. Len(es1) = c - 1 /\ c - 1 \in Nat
    BY <1>4, <1>i
  <2> QED BY <1>6, <1>7, <1>8, <1>9, <1>10, <1>11, <2>1 DEF LaidOut
<1> QED BY <1>7, <1>11, <1>12, <1>a, <1>d DEF es1, st1, LaidShorter

(***************************************************************************)
(* Looking for an index.                                                   *)
(***************************************************************************)

LEMMA FirstExists ==
  ASSUME NEW n \in Nat, NEW Wanted
  PROVE  \E i \in 1 .. n + 1 : (i <= n => i \in Wanted) /\ \A j \in 1 .. i - 1 : j \notin Wanted
<1> DEFINE T == {i \in 1 .. n + 1 : i <= n => i \in Wanted}
<1>1. T \in SUBSET Nat /\ n + 1 \in T
  OBVIOUS
<1>2. PICK i \in T : \A m \in T : i <= m
  BY <1>1, LeastNat
<1>3. \A j \in 1 .. i - 1 : j \notin Wanted
  <2> SUFFICES ASSUME NEW j \in 1 .. i - 1, j \in Wanted PROVE FALSE
    OBVIOUS
  <2>1. j \in T /\ ~(i <= j)
    OBVIOUS
  <2> QED BY <1>2, <2>1
<1> QED BY <1>2, <1>3

LEMMA EntryIndexIs ==
  ASSUME count \in Nat, NEW elements, NEW n
  PROVE  LET i == EntryIndex(elements, n)
         IN  /\ i \in 1 .. count + 1
             /\ i <= count => SameName(NameAt(elements, i), n)
             /\ \A j \in 1 .. i - 1 : ~SameName(NameAt(elements, j), n)
<1> DEFINE Wanted == {j \in 1 .. count : SameName(NameAt(elements, j), n)}
<1>1. PICK i \in 1 .. count + 1 :
        (i <= count => i \in Wanted) /\ \A j \in 1 .. i - 1 : j \notin Wanted
  BY FirstExists
<1>2. /\ i <= count => SameName(NameAt(elements, i), n)
      /\ \A j \in 1 .. i - 1 : ~SameName(NameAt(elements, j), n)
  <2>1. \A j \in 1 .. i - 1 : j \in 1 .. count
    OBVIOUS
  <2> QED BY <1>1, <2>1
<1> QED BY <1>2 DEF EntryIndex, FirstIndex

LEMMA InsertionIndexIs ==
  ASSUME count \in Nat, NEW elements, NEW n
  PROVE  LET i == InsertionIndex(elements, n)
         IN  /\ i \in 1 .. count + 1
             /\ i <= count => NotBefore(NameAt(elements, i), n)
             /\ \A j \in 1 .. i - 1 : ~NotBefore(NameAt(elements, j), n)
<1> DEFINE Wanted == {j \in 1 .. count : NotBefore(NameAt(elements, j), n)}
<1>1. PICK i \in 1 .. count + 1 :
        (i <= count => i \in Wanted) /\ \A j \in 1 .. i - 1 : j \notin Wanted
  BY FirstExists
<1>2. /\ i <= count => NotBefore(NameAt(elements, i), n)
      /\ \A j \in 1 .. i - 1 : ~NotBefore(NameAt(elements, j), n)
  <2>1. \A j \in 1 .. i - 1 : j \in 1 .. count
    OBVIOUS
  <2> QED BY <1>1, <2>1
<1> QED BY <1>2 DEF InsertionIndex, FirstIndex

LEMMA NameSeen ==
  ASSUME NEW es, NEW st, es \in Seq(Files), NEW k \in 1 .. Len(es)
  PROVE  NameAt(Seen(es, st), k) = nameOf[es[k]]
<1>1. Seen(es, st)[k].file = es[k] /\ es[k] \in Files
  BY SeenIs
<1> QED BY <1>1 DEF NameAt

(***************************************************************************)
(* Names and their order.                                                  *)
(***************************************************************************)

LEMMA NameType ==
  ASSUME NEW n \in Names
  PROVE  n \in Seq(1 .. 255) /\ n # NoName /\ Len(n) \in Nat /\ \A k \in 1 .. Len(n) : n[k] \in 1 .. 255
<1>1. n \in Seq(1 .. 255) /\ n # NoName
  BY DirDataAssumption
<1>2. PICK S : S = 1 .. 255
  OBVIOUS
<1>3. n \in Seq(S)
  BY <1>1, <1>2
<1>4. Len(n) \in Nat /\ \A k \in 1 .. Len(n) : n[k] \in S
  BY <1>3
<1> QED BY <1>1, <1>2, <1>4

LEMMA SameNameSame ==
  ASSUME NEW a, NEW b
  PROVE  SameName(a, a) /\ (SameName(a, b) => SameName(b, a))
<1>1. SameName(a, a)
  BY DEF SameName
<1>2. ASSUME SameName(a, b) PROVE SameName(b, a)
  <2>1. Len(a) = Len(b) /\ \A k \in 1 .. Len(a) : Lower(a[k]) = Lower(b[k])
    BY <1>2 DEF SameName
  <2>2. \A k \in 1 .. Len(b) : Lower(b[k]) = Lower(a[k])
    BY <2>1
  <2> QED BY <2>1, <2>2 DEF SameName
<1> QED BY <1>1, <1>2

(* Letters are told apart by GRiD's order as they are by strncasecmp.      *)
LEMMA WeightSame ==
  ASSUME NEW x \in 1 .. 255, NEW y \in 1 .. 255, Weight(x) = Weight(y)
  PROVE  Lower(x) = Lower(y)
BY DEF Weight, Lower

LEMMA WeightType ==
  ASSUME NEW x \in 1 .. 255
  PROVE  Weight(x) \in Nat
BY DEF Weight


LEMMA BeforePrecedes ==
  ASSUME NEW a \in Names, NEW b \in Names
  PROVE  /\ ~NotBefore(a, b) => Precedes(a, b)
         /\ NotBefore(a, b) /\ ~SameName(a, b) => Precedes(b, a)
<1>0. PICK la \in Nat, lb \in Nat, l \in Nat :
        la = Len(a) /\ lb = Len(b) /\ l = IF la < lb THEN la ELSE lb
  BY NameType
<1>t. /\ \A k \in 1 .. la : a[k] \in 1 .. 255 /\ Weight(a[k]) \in Nat
      /\ \A k \in 1 .. lb : b[k] \in 1 .. 255 /\ Weight(b[k]) \in Nat
  <2>1. /\ \A k \in 1 .. la : a[k] \in 1 .. 255
        /\ \A k \in 1 .. lb : b[k] \in 1 .. 255
    BY <1>0, NameType
  <2> QED BY <2>1, WeightType
<1>l. \A k \in 1 .. l : k \in 1 .. la /\ k \in 1 .. lb
  BY <1>0
<1> DEFINE differ == {k \in 1 .. l : Weight(a[k]) # Weight(b[k])}
<1>1. CASE differ = {}
  <2>1. NotBefore(a, b) <=> la >= lb
    BY <1>0, <1>1 DEF NotBefore
  <2>2. \A k \in 1 .. l : Weight(a[k]) = Weight(b[k])
    BY <1>1
  <2>3. ASSUME la < lb PROVE Precedes(a, b)
    <3>1. l = la /\ la + 1 \in 1 .. lb /\ ~(la + 1 <= la)
      BY <1>0, <2>3
    <3>2. \A j \in 1 .. la + 1 - 1 : j <= la /\ Weight(a[j]) = Weight(b[j])
      BY <2>2, <3>1
    <3> QED BY <1>0, <3>1, <3>2 DEF Precedes
  <2>4. ASSUME la > lb PROVE Precedes(b, a)
    <3>1. l = lb /\ lb + 1 \in 1 .. la /\ ~(lb + 1 <= lb)
      BY <1>0, <2>4
    <3>2. \A j \in 1 .. lb + 1 - 1 : j <= lb /\ Weight(b[j]) = Weight(a[j])
      BY <2>2, <3>1
    <3> QED BY <1>0, <3>1, <3>2 DEF Precedes
  <2>5. ASSUME la = lb PROVE SameName(a, b)
    <3>1. \A k \in 1 .. la : Lower(a[k]) = Lower(b[k])
      <4> TAKE k \in 1 .. la
      <4>1. k \in 1 .. l /\ k \in 1 .. lb
        BY <1>0, <2>5
      <4> QED BY <1>t, <2>2, <4>1, WeightSame
    <3> QED BY <1>0, <2>5, <3>1 DEF SameName
  <2> QED BY <2>1, <2>3, <2>4, <2>5
<1>2. CASE differ # {}
  <2>1. PICK k \in differ : \A j \in differ : k <= j
    <3>1. differ \in SUBSET Nat
      OBVIOUS
    <3> HIDE DEF differ
    <3> QED BY <1>2, <3>1, LeastNat
  <2>2. NotBefore(a, b) <=> \E m \in differ : (\A j \in differ : m <= j) /\ Weight(a[m]) > Weight(b[m])
    BY <1>0, <1>2 DEF NotBefore
  <2>3. \A m \in differ : (\A j \in differ : m <= j) => m = k
    <3> TAKE m \in differ
    <3>1. m \in Nat /\ k \in Nat
      OBVIOUS
    <3> HIDE DEF differ
    <3> QED BY <2>1, <3>1
  <2>4. NotBefore(a, b) <=> Weight(a[k]) > Weight(b[k])
    <3> HIDE DEF differ
    <3> QED BY <2>1, <2>2, <2>3
  <2>5. /\ k \in 1 .. l /\ k \in 1 .. la /\ k \in 1 .. lb
        /\ Weight(a[k]) # Weight(b[k]) /\ Weight(a[k]) \in Nat /\ Weight(b[k]) \in Nat
    BY <1>l, <1>t, <2>1
  <2>6. \A j \in 1 .. k - 1 : j <= la /\ j <= lb /\ Weight(a[j]) = Weight(b[j])
    <3> TAKE j \in 1 .. k - 1
    <3>1. j \in 1 .. l /\ ~(k <= j)
      BY <2>5
    <3>2. j \notin differ
      BY <2>1, <3>1
    <3> QED BY <1>l, <3>1, <3>2
  <2>7. Weight(a[k]) < Weight(b[k]) => Precedes(a, b)
    BY <1>0, <2>5, <2>6 DEF Precedes
  <2>8. Weight(b[k]) < Weight(a[k]) => Precedes(b, a)
    BY <1>0, <2>5, <2>6 DEF Precedes
  <2> QED BY <2>4, <2>5, <2>7, <2>8
<1> QED BY <1>1, <1>2

LEMMA PrecedesTransitive ==
  ASSUME NEW a \in Names, NEW b \in Names, NEW c \in Names, Precedes(a, b), Precedes(b, c)
  PROVE  Precedes(a, c)
<1>0. PICK la \in Nat, lb \in Nat, lc \in Nat : la = Len(a) /\ lb = Len(b) /\ lc = Len(c)
  BY NameType
<1>t. /\ \A k \in 1 .. la : Weight(a[k]) \in Nat
      /\ \A k \in 1 .. lb : Weight(b[k]) \in Nat
      /\ \A k \in 1 .. lc : Weight(c[k]) \in Nat
  <2>1. /\ \A k \in 1 .. la : a[k] \in 1 .. 255
        /\ \A k \in 1 .. lb : b[k] \in 1 .. 255
        /\ \A k \in 1 .. lc : c[k] \in 1 .. 255
    BY <1>0, NameType
  <2> QED BY <2>1, WeightType
<1>1. PICK p \in 1 .. lb :
        /\ \A j \in 1 .. p - 1 : j <= la /\ Weight(a[j]) = Weight(b[j])
        /\ p <= la => Weight(a[p]) < Weight(b[p])
  BY <1>0 DEF Precedes
<1>2. PICK q \in 1 .. lc :
        /\ \A j \in 1 .. q - 1 : j <= lb /\ Weight(b[j]) = Weight(c[j])
        /\ q <= lb => Weight(b[q]) < Weight(c[q])
  BY <1>0 DEF Precedes
<1>3. CASE p < q
  <2>1. p \in 1 .. lc /\ p \in 1 .. q - 1
    BY <1>3
  <2>2. \A j \in 1 .. p - 1 : j \in 1 .. q - 1
    BY <1>3
  <2>3. \A j \in 1 .. p - 1 : j <= la /\ Weight(a[j]) = Weight(c[j])
    BY <1>1, <1>2, <2>2
  <2>4. p <= la => Weight(a[p]) < Weight(c[p])
    BY <1>1, <1>2, <2>1
  <2> QED BY <1>0, <2>1, <2>3, <2>4 DEF Precedes
<1>4. CASE q < p
  <2>1. q \in 1 .. p - 1 /\ q <= lb
    BY <1>4
  <2>2. \A j \in 1 .. q - 1 : j \in 1 .. p - 1
    BY <1>4
  <2>3. \A j \in 1 .. q - 1 : j <= la /\ Weight(a[j]) = Weight(c[j])
    BY <1>1, <1>2, <2>2
  <2>4. Weight(a[q]) < Weight(c[q])
    BY <1>1, <1>2, <2>1
  <2> QED BY <1>0, <2>3, <2>4 DEF Precedes
<1>5. CASE p = q
  <2>1. \A j \in 1 .. p - 1 : j <= la /\ Weight(a[j]) = Weight(c[j])
    BY <1>1, <1>2, <1>5
  <2>2. p <= la => Weight(a[p]) < Weight(c[p])
    <3> SUFFICES ASSUME p <= la PROVE Weight(a[p]) < Weight(c[p])
      OBVIOUS
    <3>1. p \in 1 .. la /\ p \in 1 .. lb /\ p \in 1 .. lc /\ q <= lb
      BY <1>5
    <3>2. Weight(a[p]) < Weight(b[p]) /\ Weight(b[p]) < Weight(c[p])
      BY <1>1, <1>2, <1>5, <3>1
    <3> QED BY <1>t, <3>1, <3>2
  <2> QED BY <1>0, <1>5, <2>1, <2>2 DEF Precedes
<1> QED BY <1>3, <1>4, <1>5

(***************************************************************************)
(* The files and their names, with one entry more and with one less.       *)
(***************************************************************************)

HasAllAnd(new, es, c, i, f) ==
  /\ new[i] = f
  /\ \A k \in 1 .. c + 1 : k # i =>
       \E m \in 1 .. c : m = (IF k < i THEN k ELSE k - 1) /\ new[k] = es[m]
  /\ \A m \in 1 .. c : \E k \in 1 .. c + 1 : new[k] = es[m]

LEMMA IntoHas ==
  ASSUME NEW es, es \in Seq(Files), NEW f \in Files, NEW c \in Nat, c = Len(es), NEW i \in 1 .. c + 1
  PROVE  HasAllAnd(Into(es, i, f), es, c, i, f)
<1> DEFINE new == Into(es, i, f)
<1>1. \A k \in 1 .. c + 1 : new[k] = IF k < i THEN es[k] ELSE IF k = i THEN f ELSE es[k - 1]
  <2>1. IsInto(Into(es, i, f), es, c, i, f)
    BY IntoIs
  <2> QED BY <2>1 DEF IsInto
<1> HIDE DEF new
<1>2. ASSUME NEW k \in 1 .. c + 1, k # i
      PROVE  \E m \in 1 .. c : m = (IF k < i THEN k ELSE k - 1) /\ new[k] = es[m]
  <2>1. CASE k < i
    <3>1. k \in 1 .. c
      BY <2>1
    <3> QED BY <1>1, <2>1, <3>1
  <2>2. CASE ~(k < i)
    <3>1. k - 1 \in 1 .. c
      BY <1>2, <2>2
    <3> QED BY <1>1, <1>2, <2>2, <3>1
  <2> QED BY <2>1, <2>2
<1>3. ASSUME NEW m \in 1 .. c
      PROVE  \E k \in 1 .. c + 1 : new[k] = es[m]
  <2>1. CASE m < i
    <3>1. m \in 1 .. c + 1
      OBVIOUS
    <3> QED BY <1>1, <2>1, <3>1
  <2>2. CASE ~(m < i)
    <3>1. m + 1 \in 1 .. c + 1 /\ ~(m + 1 < i) /\ m + 1 # i /\ m + 1 - 1 = m
      BY <2>2
    <3>2. new[m + 1] = es[m]
      BY <1>1, <3>1
    <3> QED BY <3>1, <3>2
  <2> QED BY <2>1, <2>2
<1> QED BY <1>1, <1>2, <1>3 DEF new, HasAllAnd

LEMMA WithoutHas ==
  ASSUME NEW es, es \in Seq(Files), NEW c \in Nat, c = Len(es), NEW i \in 1 .. c
  PROVE  /\ \A k \in 1 .. c - 1 :
              \E m \in 1 .. c : /\ m # i /\ m = (IF k < i THEN k ELSE k + 1)
                                /\ Without(es, i)[k] = es[m]
         /\ \A m \in 1 .. c : m # i => \E k \in 1 .. c - 1 : Without(es, i)[k] = es[m]
<1>1. \A k \in 1 .. c - 1 : Without(es, i)[k] = IF k < i THEN es[k] ELSE es[k + 1]
  BY WithoutIs
<1>2. ASSUME NEW k \in 1 .. c - 1
      PROVE  \E m \in 1 .. c : /\ m # i /\ m = (IF k < i THEN k ELSE k + 1)
                               /\ Without(es, i)[k] = es[m]
  <2>1. CASE k < i
    <3>1. k \in 1 .. c /\ k # i
      BY <2>1
    <3> QED BY <1>1, <2>1, <3>1
  <2>2. CASE ~(k < i)
    <3>1. k + 1 \in 1 .. c /\ k + 1 # i
      BY <2>2
    <3> QED BY <1>1, <2>2, <3>1
  <2> QED BY <2>1, <2>2
<1>3. ASSUME NEW m \in 1 .. c, m # i
      PROVE  \E k \in 1 .. c - 1 : Without(es, i)[k] = es[m]
  <2>1. CASE m < i
    <3>1. m \in 1 .. c - 1
      BY <2>1
    <3> QED BY <1>1, <2>1, <3>1
  <2>2. CASE ~(m < i)
    <3>1. m - 1 \in 1 .. c - 1 /\ ~(m - 1 < i) /\ m - 1 + 1 = m
      BY <1>3, <2>2
    <3> QED BY <1>1, <3>1
  <2> QED BY <2>1, <2>2
<1> QED BY <1>2, <1>3

LEMMA NamedAdded ==
  ASSUME NEW es, es \in Seq(Files), NEW c \in Nat, c = Len(es), NEW f \in Files, NEW i \in 1 .. c + 1,
         NEW n \in Names, NEW names \in [Files -> Names \cup {NoName}], names[f] = NoName,
         NamedOnce(es, names), \A k \in 1 .. c : ~SameName(names[es[k]], n)
  PROVE  NamedOnce(Into(es, i, f), [names EXCEPT ![f] = n])
<1> DEFINE es1 == Into(es, i, f)
           names1 == [names EXCEPT ![f] = n]
<1>1. Len(es1) = c + 1
  <2>1. IsInto(Into(es, i, f), es, c, i, f)
    BY IntoIs
  <2> QED BY <2>1 DEF IsInto
<1>2. /\ es1[i] = f
      /\ \A k \in 1 .. c + 1 : k # i =>
           \E m \in 1 .. c : m = (IF k < i THEN k ELSE k - 1) /\ es1[k] = es[m]
      /\ \A m \in 1 .. c : \E k \in 1 .. c + 1 : es1[k] = es[m]
  <2>1. HasAllAnd(Into(es, i, f), es, c, i, f)
    BY IntoHas
  <2> QED BY <2>1 DEF HasAllAnd
<1>3. names1[f] = n /\ n # NoName /\ \A g \in Files : g # f => names1[g] = names[g]
  BY NameType
<1> HIDE DEF es1, names1
<1>4. /\ \A g \in Files : names[g] # NoName <=> \E k \in 1 .. c : es[k] = g
      /\ \A j, k \in 1 .. c : j # k => ~SameName(names[es[j]], names[es[k]])
  BY DEF NamedOnce
<1>5. \A m \in 1 .. c : es[m] \in Files /\ es[m] # f /\ names1[es[m]] = names[es[m]]
  BY <1>3, <1>4
<1>6. ASSUME NEW g \in Files PROVE names1[g] # NoName <=> \E k \in 1 .. c + 1 : es1[k] = g
  <2>1. CASE g = f
    BY <1>2, <1>3, <2>1
  <2>2. CASE g # f
    <3>1. names1[g] # NoName <=> \E k \in 1 .. c : es[k] = g
      BY <1>3, <1>4, <2>2
    <3>2. (\E k \in 1 .. c : es[k] = g) <=> \E k \in 1 .. c + 1 : es1[k] = g
      BY <1>2, <2>2
    <3> QED BY <3>1, <3>2
  <2> QED BY <2>1, <2>2
<1>7. ASSUME NEW k \in 1 .. c + 1, k # i PROVE ~SameName(names1[es1[k]], n) /\ ~SameName(n, names1[es1[k]])
  <2>1. PICK m \in 1 .. c : es1[k] = es[m]
    BY <1>2, <1>7
  <2> QED BY <1>5, <2>1, SameNameSame
<1>8. ASSUME NEW j \in 1 .. c + 1, NEW k \in 1 .. c + 1, j # k
      PROVE  ~SameName(names1[es1[j]], names1[es1[k]])
  <2>1. CASE j = i
    BY <1>2, <1>3, <1>7, <1>8, <2>1
  <2>2. CASE k = i
    BY <1>2, <1>3, <1>7, <1>8, <2>2
  <2>3. CASE j # i /\ k # i
    <3>1. PICK l \in 1 .. c : l = (IF j < i THEN j ELSE j - 1) /\ es1[j] = es[l]
      BY <1>2, <2>3
    <3>2. PICK m \in 1 .. c : m = (IF k < i THEN k ELSE k - 1) /\ es1[k] = es[m]
      BY <1>2, <2>3
    <3>3. l # m
      BY <1>8, <2>3, <3>1, <3>2
    <3> QED BY <1>4, <1>5, <3>1, <3>2, <3>3
  <2> QED BY <2>1, <2>2, <2>3
<1>9. NamedOnce(es1, names1)
  BY <1>1, <1>6, <1>8 DEF NamedOnce
<1> QED BY <1>9 DEF es1, names1

LEMMA NamedRemoved ==
  ASSUME NEW es, es \in Seq(Files), NEW c \in Nat, c = Len(es), NEW i \in 1 .. c,
         NEW names \in [Files -> Names \cup {NoName}], NamedOnce(es, names)
  PROVE  /\ NamedOnce(Without(es, i), [names EXCEPT ![es[i]] = NoName])
         /\ \A m \in 1 .. c : m # i => es[m] # es[i]
<1>0. PICK f \in Files : f = es[i]
  OBVIOUS
<1> DEFINE es1 == Without(es, i)
           names1 == [names EXCEPT ![f] = NoName]
<1>1. Len(es1) = c - 1
  BY WithoutIs
<1>2. /\ \A k \in 1 .. c - 1 :
           \E m \in 1 .. c : m # i /\ m = (IF k < i THEN k ELSE k + 1) /\ es1[k] = es[m]
      /\ \A m \in 1 .. c : m # i => \E k \in 1 .. c - 1 : es1[k] = es[m]
  BY WithoutHas
<1>3. names1[f] = NoName /\ \A g \in Files : g # f => names1[g] = names[g]
  OBVIOUS
<1> HIDE DEF es1, names1
<1>4. /\ \A g \in Files : names[g] # NoName <=> \E k \in 1 .. c : es[k] = g
      /\ \A j, k \in 1 .. c : j # k => ~SameName(names[es[j]], names[es[k]])
  BY DEF NamedOnce
<1>5. \A m \in 1 .. c : m # i => es[m] \in Files /\ es[m] # f /\ names1[es[m]] = names[es[m]]
  <2> SUFFICES ASSUME NEW m \in 1 .. c, m # i
               PROVE  es[m] \in Files /\ es[m] # f /\ names1[es[m]] = names[es[m]]
    OBVIOUS
  <2>1. ~SameName(names[es[m]], names[es[i]])
    BY <1>4
  <2>2. es[m] # f
    BY <1>0, <2>1, SameNameSame
  <2> QED BY <1>3, <2>2
<1>6. ASSUME NEW g \in Files PROVE names1[g] # NoName <=> \E k \in 1 .. c - 1 : es1[k] = g
  <2>1. CASE g = f
    <3>1. ASSUME NEW k \in 1 .. c - 1 PROVE es1[k] # f
      <4>1. PICK m \in 1 .. c : m # i /\ es1[k] = es[m]
        BY <1>2
      <4> QED BY <1>5, <4>1
    <3> QED BY <1>3, <2>1, <3>1
  <2>2. CASE g # f
    <3>1. names1[g] # NoName <=> \E k \in 1 .. c : es[k] = g
      BY <1>3, <1>4, <2>2
    <3>2. ASSUME NEW m \in 1 .. c, es[m] = g PROVE \E k \in 1 .. c - 1 : es1[k] = g
      BY <1>0, <1>2, <2>2, <3>2
    <3>3. ASSUME NEW k \in 1 .. c - 1, es1[k] = g PROVE \E m \in 1 .. c : es[m] = g
      <4>1. PICK m \in 1 .. c : es1[k] = es[m]
        BY <1>2
      <4> QED BY <3>3, <4>1
    <3> QED BY <3>1, <3>2, <3>3
  <2> QED BY <2>1, <2>2
<1>8. ASSUME NEW j \in 1 .. c - 1, NEW k \in 1 .. c - 1, j # k
      PROVE  ~SameName(names1[es1[j]], names1[es1[k]])
  <2>1. PICK l \in 1 .. c : l # i /\ l = (IF j < i THEN j ELSE j + 1) /\ es1[j] = es[l]
    BY <1>2
  <2>2. PICK m \in 1 .. c : m # i /\ m = (IF k < i THEN k ELSE k + 1) /\ es1[k] = es[m]
    BY <1>2
  <2>3. l # m
    BY <1>8, <2>1, <2>2
  <2> QED BY <1>4, <1>5, <2>1, <2>2, <2>3
<1>9. NamedOnce(es1, names1)
  BY <1>1, <1>6, <1>8 DEF NamedOnce
<1> QED BY <1>0, <1>5, <1>9 DEF es1, names1

(* Neighbours are in GRiD's order.                                         *)
InOrder(es, names) == \A k \in 1 .. Len(es) - 1 : Precedes(names[es[k]], names[es[k + 1]])

LEMMA OrderAdded ==
  ASSUME NEW es, es \in Seq(Files), NEW c \in Nat, c = Len(es), NEW f \in Files, NEW i \in 1 .. c + 1,
         NEW n \in Names, NEW names \in [Files -> Names \cup {NoName}], names[f] = NoName,
         NamedOnce(es, names), \A k \in 1 .. c : ~SameName(names[es[k]], n),
         i <= c => NotBefore(names[es[i]], n),
         \A j \in 1 .. i - 1 : ~NotBefore(names[es[j]], n),
         InOrder(es, names)
  PROVE  InOrder(Into(es, i, f), [names EXCEPT ![f] = n])
<1> DEFINE es1 == Into(es, i, f)
           names1 == [names EXCEPT ![f] = n]
<1>1. /\ Len(es1) = c + 1
      /\ \A k \in 1 .. c + 1 : es1[k] = IF k < i THEN es[k] ELSE IF k = i THEN f ELSE es[k - 1]
  <2>1. IsInto(Into(es, i, f), es, c, i, f)
    BY IntoIs
  <2> QED BY <2>1 DEF IsInto
<1>3. names1[f] = n /\ \A g \in Files : g # f => names1[g] = names[g]
  OBVIOUS
<1> HIDE DEF es1, names1
<1>4. \A m \in 1 .. c : es[m] \in Files /\ names[es[m]] \in Names /\ names1[es[m]] = names[es[m]]
  <2> TAKE m \in 1 .. c
  <2>1. es[m] \in Files /\ names[es[m]] # NoName
    BY DEF NamedOnce
  <2> QED BY <1>3, <2>1
<1>5. ASSUME NEW k \in 1 .. c PROVE Precedes(names1[es1[k]], names1[es1[k + 1]])
  <2>0. k \in 1 .. c + 1 /\ k + 1 \in 1 .. c + 1 /\ k + 1 - 1 = k
    OBVIOUS
  <2>1. CASE k + 1 < i
    <3>1. k < i /\ k \in 1 .. c - 1 /\ k + 1 \in 1 .. c
      BY <2>1
    <3>2. es1[k] = es[k] /\ es1[k + 1] = es[k + 1]
      BY <1>1, <2>0, <2>1, <3>1
    <3>3. Precedes(names[es[k]], names[es[k + 1]])
      BY <3>1 DEF InOrder
    <3> QED BY <1>4, <3>1, <3>2, <3>3
  <2>2. CASE k + 1 = i
    <3>1. k < i /\ k \in 1 .. i - 1 /\ ~(k + 1 < i)
      BY <2>2
    <3>2. es1[k] = es[k] /\ es1[k + 1] = f
      BY <1>1, <2>0, <2>2, <3>1
    <3>3. names[es[k]] \in Names /\ ~NotBefore(names[es[k]], n)
      BY <1>4, <3>1
    <3>4. Precedes(names[es[k]], n)
      BY <3>3, BeforePrecedes
    <3> QED BY <1>3, <1>4, <3>2, <3>4
  <2>3. CASE k = i
    <3>1. ~(k + 1 < i) /\ k + 1 # i /\ i <= c /\ ~(k < i)
      BY <2>3
    <3>2. es1[k] = f /\ es1[k + 1] = es[k]
      BY <1>1, <2>0, <2>3, <3>1
    <3>3. names[es[k]] \in Names /\ NotBefore(names[es[k]], n) /\ ~SameName(names[es[k]], n)
      BY <1>4, <2>3, <3>1
    <3>4. Precedes(n, names[es[k]])
      BY <3>3, BeforePrecedes
    <3> QED BY <1>3, <1>4, <3>2, <3>4
  <2>4. CASE k > i
    <3>1. /\ ~(k + 1 < i) /\ k + 1 # i /\ ~(k < i) /\ k # i
          /\ k - 1 \in 1 .. c - 1 /\ k - 1 \in 1 .. c /\ k - 1 + 1 = k
      BY <2>4
    <3>2. es1[k] = es[k - 1] /\ es1[k + 1] = es[k]
      BY <1>1, <2>0, <3>1
    <3>3. Precedes(names[es[k - 1]], names[es[k - 1 + 1]])
      BY <3>1 DEF InOrder
    <3> QED BY <1>4, <3>1, <3>2, <3>3
  <2>5. k + 1 < i \/ k + 1 = i \/ k = i \/ k > i
    OBVIOUS
  <2> QED BY <2>1, <2>2, <2>3, <2>4, <2>5
<1>6. InOrder(es1, names1)
  <2>1. c + 1 - 1 = c
    OBVIOUS
  <2> QED BY <1>1, <1>5, <2>1 DEF InOrder
<1> QED BY <1>6 DEF es1, names1

LEMMA OrderRemoved ==
  ASSUME NEW es, es \in Seq(Files), NEW c \in Nat, c = Len(es), NEW i \in 1 .. c,
         NEW names \in [Files -> Names \cup {NoName}], NamedOnce(es, names), InOrder(es, names)
  PROVE  InOrder(Without(es, i), [names EXCEPT ![es[i]] = NoName])
<1> DEFINE es1 == Without(es, i)
           names1 == [names EXCEPT ![es[i]] = NoName]
<1>1. Len(es1) = c - 1 /\ \A k \in 1 .. c - 1 : es1[k] = IF k < i THEN es[k] ELSE es[k + 1]
  BY WithoutIs
<1>2. \A m \in 1 .. c : m # i => names1[es[m]] = names[es[m]]
  <2>1. \A m \in 1 .. c : m # i => es[m] # es[i]
    BY NamedRemoved
  <2> QED BY <2>1
<1> HIDE DEF es1, names1
<1>3. \A m \in 1 .. c : names[es[m]] \in Names
  <2> TAKE m \in 1 .. c
  <2>1. es[m] \in Files /\ names[es[m]] # NoName
    BY DEF NamedOnce
  <2> QED BY <2>1
<1>4. \A m \in 1 .. c - 1 : Precedes(names[es[m]], names[es[m + 1]])
  BY DEF InOrder
<1>5. ASSUME NEW k \in 1 .. c - 1 - 1 PROVE Precedes(names1[es1[k]], names1[es1[k + 1]])
  <2>0. /\ k \in 1 .. c - 1 /\ k + 1 \in 1 .. c - 1 /\ k \in 1 .. c /\ k + 1 \in 1 .. c
        /\ k + 1 + 1 \in 1 .. c
    OBVIOUS
  <2>1. CASE k + 1 < i
    <3>1. k < i /\ k # i /\ k + 1 # i
      BY <2>1
    <3>2. es1[k] = es[k] /\ es1[k + 1] = es[k + 1]
      BY <1>1, <2>0, <2>1, <3>1
    <3> QED BY <1>2, <1>4, <2>0, <3>1, <3>2
  <2>2. CASE k + 1 = i
    <3>1. k < i /\ k # i /\ ~(k + 1 < i) /\ k + 1 + 1 # i
      BY <2>2
    <3>2. es1[k] = es[k] /\ es1[k + 1] = es[k + 1 + 1]
      BY <1>1, <2>0, <3>1
    <3>3. Precedes(names[es[k]], names[es[k + 1]]) /\ Precedes(names[es[k + 1]], names[es[k + 1 + 1]])
      BY <1>4, <2>0
    <3>4. Precedes(names[es[k]], names[es[k + 1 + 1]])
      BY <1>3, <2>0, <3>3, PrecedesTransitive
    <3> QED BY <1>2, <2>0, <3>1, <3>2, <3>4
  <2>3. CASE k >= i
    <3>1. ~(k < i) /\ ~(k + 1 < i) /\ k + 1 # i /\ k + 1 + 1 # i
      BY <2>3
    <3>2. es1[k] = es[k + 1] /\ es1[k + 1] = es[k + 1 + 1]
      BY <1>1, <2>0, <3>1
    <3> QED BY <1>2, <1>4, <2>0, <3>1, <3>2
  <2>4. k + 1 < i \/ k + 1 = i \/ k >= i
    OBVIOUS
  <2> QED BY <2>1, <2>2, <2>3, <2>4
<1>6. InOrder(es1, names1)
  BY <1>1, <1>5 DEF InOrder
<1> QED BY <1>6 DEF es1, names1

(***************************************************************************)
(* The calls.                                                              *)
(***************************************************************************)

LEMMA ElementsAre ==
  ASSUME TypeOK, NEW es, NEW st, Holds(es, st), Addressable
  PROVE  Elements = Seen(es, st)
<1>1. /\ es \in Seq(Files) /\ LaidOut(bytes, es, st) /\ Len(bytes) \in Nat
      /\ Len(bytes) <= OffsetSpan /\ count = Len(es)
  BY DEF Holds, TypeOK, Addressable
<1>2. Shown(Parse(bytes, count), count) = Seen(es, st)
  BY <1>1, ElementsSeen
<1> QED BY <1>2 DEF Elements, Shown

(* Nobody in the directory has the name n.                                 *)
Untaken(es, names, n) == \A k \in 1 .. Len(es) : ~SameName(names[es[k]], n)

(* An entry named n belongs in front of element i.                         *)
Belongs(es, names, i, n) ==
  /\ i <= Len(es) => NotBefore(names[es[i]], n)
  /\ \A j \in 1 .. i - 1 : ~NotBefore(names[es[j]], n)

LEMMA LookedUp ==
  ASSUME count \in Nat, NEW es, NEW st, es \in Seq(Files), Len(es) = count, NEW n,
         NEW i, i = EntryIndex(Seen(es, st), n)
  PROVE  /\ i \in 1 .. count + 1
         /\ i <= count => SameName(nameOf[es[i]], n)
         /\ i > count => Untaken(es, nameOf, n)
<1>1. /\ i \in 1 .. count + 1
      /\ i <= count => SameName(NameAt(Seen(es, st), i), n)
      /\ \A j \in 1 .. i - 1 : ~SameName(NameAt(Seen(es, st), j), n)
  BY EntryIndexIs
<1>2. i <= count => SameName(nameOf[es[i]], n)
  <2> SUFFICES ASSUME i <= count PROVE SameName(nameOf[es[i]], n)
    OBVIOUS
  <2>1. i \in 1 .. Len(es)
    BY <1>1
  <2> QED BY <1>1, <2>1, NameSeen
<1>3. i > count => Untaken(es, nameOf, n)
  <2> SUFFICES ASSUME i > count, NEW k \in 1 .. Len(es) PROVE ~SameName(nameOf[es[k]], n)
    BY DEF Untaken
  <2>1. k \in 1 .. i - 1
    BY <1>1
  <2> QED BY <1>1, <2>1, NameSeen
<1> QED BY <1>1, <1>2, <1>3

LEMMA PlaceFound ==
  ASSUME count \in Nat, NEW es, NEW st, es \in Seq(Files), Len(es) = count, NEW n,
         NEW i, i = InsertionIndex(Seen(es, st), n)
  PROVE  i \in 1 .. count + 1 /\ Belongs(es, nameOf, i, n)
<1>1. /\ i \in 1 .. count + 1
      /\ i <= count => NotBefore(NameAt(Seen(es, st), i), n)
      /\ \A j \in 1 .. i - 1 : ~NotBefore(NameAt(Seen(es, st), j), n)
  BY InsertionIndexIs
<1>2. i <= count => NotBefore(nameOf[es[i]], n)
  <2> SUFFICES ASSUME i <= count PROVE NotBefore(nameOf[es[i]], n)
    OBVIOUS
  <2>1. i \in 1 .. Len(es)
    BY <1>1
  <2> QED BY <1>1, <2>1, NameSeen
<1>3. ASSUME NEW k \in 1 .. i - 1 PROVE ~NotBefore(nameOf[es[k]], n)
  <2>1. k \in 1 .. Len(es)
    BY <1>1
  <2> QED BY <1>1, <2>1, NameSeen
<1> QED BY <1>1, <1>2, <1>3 DEF Belongs

(* A move within bounds: the entry is where it belongs, and all the rest   *)
(* is as it was.                                                           *)
EntryAdded(es, f, n, i) ==
  /\ i \in 1 .. Len(es) + 1 /\ Belongs(es, nameOf, i, n)
  /\ bytes' \in Seq(ByteSet) /\ count' = count + 1
  /\ nameOf' = [nameOf EXCEPT ![f] = n]
  /\ result' = "ok"
  /\ \E st : Holds(Into(es, i, f), st)'

LEMMA AddKeeps ==
  ASSUME TypeOK, NEW es, NEW st, Holds(es, st), Addressable, NEW f \in Files, NEW n \in Names,
         AddEntry(f, n)
  PROVE  /\ nameOf[f] = NoName /\ Untaken(es, nameOf, n) /\ UNCHANGED found
         /\ \/ FoundWithSlack /\ overrun' = TRUE /\ UNCHANGED <<bytes, count, nameOf, result>>
            \/ overrun' = overrun /\ \E i : EntryAdded(es, f, n, i)
<1>1. PICK c \in Nat : c = count
  BY DEF TypeOK
<1>2. /\ es \in Seq(Files) /\ Len(es) = c /\ LaidOut(bytes, es, st) /\ NamedOnce(es, nameOf)
      /\ Len(bytes) > st[c] + 1 => es = <<>> \/ FoundWithSlack
      /\ bytes \in Seq(ByteSet) /\ nameOf \in [Files -> Names \cup {NoName}]
  BY <1>1 DEF Holds, TypeOK
<1>3. Elements = Seen(es, st)
  BY ElementsAre
<1>4. PICK i : i = InsertionIndex(Seen(es, st), n)
  OBVIOUS
<1>5. i \in 1 .. c + 1 /\ Belongs(es, nameOf, i, n)
  BY <1>1, <1>2, <1>4, PlaceFound
<1>6. nameOf[f] = NoName /\ UNCHANGED found
  BY DEF AddEntry
<1>7. Untaken(es, nameOf, n)
  <2>1. PICK j : j = EntryIndex(Seen(es, st), n)
    OBVIOUS
  <2>2. j > count
    BY <1>3, <2>1 DEF AddEntry
  <2> QED BY <1>1, <1>2, <2>1, <2>2, LookedUp
<1>8. CASE ~MoveFits(Seen(es, st), i)
  <2>1. overrun' = TRUE /\ UNCHANGED <<bytes, count, nameOf, result>>
    BY <1>3, <1>4, <1>8 DEF AddEntry
  <2>2. i # c + 1 /\ ~(Len(bytes) <= st[c] + 1)
    <3>1. RealSize(Seen(es, st)) = st[count] + 1
      BY <1>1, <1>2, RealSizeIs
    <3> QED BY <1>1, <1>8, <3>1 DEF MoveFits
  <2>3. c # 0 /\ es # <<>>
    BY <1>2, <1>5, <2>2
  <2>4. Len(bytes) > st[c] + 1
    <3>1. st[c] \in Nat
      <4>1. c \in 0 .. Len(es)
        BY <1>2
      <4> QED BY <1>2, <4>1 DEF LaidOut
    <3>2. Len(bytes) \in Nat
      BY <1>2
    <3> QED BY <2>2, <3>1, <3>2
  <2> QED BY <1>2, <1>6, <1>7, <2>1, <2>3, <2>4
<1>9. CASE MoveFits(Seen(es, st), i)
  <2>1. /\ bytes' = Inserted(Seen(es, st), i, f, n) /\ count' = c + 1
        /\ nameOf' = [nameOf EXCEPT ![f] = n] /\ result' = "ok" /\ overrun' = overrun
    BY <1>1, <1>3, <1>4, <1>9 DEF AddEntry
  <2>2. PICK d \in Nat : d = EntrySize(n) + 1 /\ d > EntryHead + 1
    <3>1. EntrySize(n) \in Nat /\ EntrySize(n) > EntryHead
      <4>1. TRUE \in BOOLEAN
        OBVIOUS
      <4> QED BY <4>1, EntryIs
    <3> QED BY <3>1 DEF EntryHead
  <2>3. bytes' \in Seq(ByteSet) /\ Gained(bytes', bytes, st, c, i, d, f)
    BY <1>1, <1>2, <1>5, <1>9, <2>1, <2>2, InsertedGains
  <2>4. /\ LaidOut(bytes', Into(es, i, f), Later(st, c, i, d))
        /\ Later(st, c, i, d)[c + 1] = st[c] + d
    <3>1. Len(bytes) \in Nat
      BY <1>2
    <3>2. LaidLonger(bytes', bytes, es, st, c, i, d, f)
      BY <1>2, <1>5, <2>2, <2>3, <3>1, InsertedLaid
    <3> QED BY <3>2 DEF LaidLonger
  <2>5. Into(es, i, f) \in Seq(Files) /\ Len(Into(es, i, f)) = c + 1
    <3>1. IsInto(Into(es, i, f), es, c, i, f)
      BY <1>2, <1>5, IntoIs
    <3> QED BY <3>1 DEF IsInto
  <2>6. NamedOnce(Into(es, i, f), nameOf')
    <3>1. \A k \in 1 .. c : ~SameName(nameOf[es[k]], n)
      BY <1>2, <1>7 DEF Untaken
    <3> QED BY <1>2, <1>5, <1>6, <2>1, <3>1, NamedAdded
  <2>7. ~(Len(bytes') > Later(st, c, i, d)[c + 1] + 1)
    <3>1. st[c] \in Nat
      <4>1. c \in 0 .. Len(es)
        BY <1>2
      <4> QED BY <1>2, <4>1 DEF LaidOut
    <3>2. PICK e \in Nat : e = st[c]
      BY <3>1
    <3>3. Len(bytes') = e + 1 + d /\ Later(st, c, i, d)[c + 1] = e + d
      BY <2>3, <2>4, <3>2 DEF Gained
    <3>4. ~(e + 1 + d > e + d + 1)
      OBVIOUS
    <3> QED BY <3>3, <3>4
  <2>8. Holds(Into(es, i, f), Later(st, c, i, d))'
    BY <2>1, <2>4, <2>5, <2>6, <2>7 DEF Holds
  <2>9. EntryAdded(es, f, n, i)
    BY <1>1, <1>2, <1>5, <2>1, <2>3, <2>8 DEF EntryAdded
  <2> QED BY <1>6, <1>7, <2>1, <2>9
<1> QED BY <1>8, <1>9

EntryRemoved(es, f, i) ==
  /\ i \in 1 .. Len(es) /\ es[i] = f
  /\ bytes' \in Seq(ByteSet) /\ count' = count - 1
  /\ nameOf' = [nameOf EXCEPT ![f] = NoName]
  /\ result' = "ok" /\ UNCHANGED <<overrun, found>>
  /\ \E st : Holds(Without(es, i), st)'

LEMMA RemoveKeeps ==
  ASSUME TypeOK, NEW es, NEW st, Holds(es, st), Addressable, NEW f \in Files, RemoveEntry(f)
  PROVE  \E i : EntryRemoved(es, f, i)
<1>1. PICK c \in Nat : c = count
  BY DEF TypeOK
<1>2. /\ es \in Seq(Files) /\ Len(es) = c /\ LaidOut(bytes, es, st) /\ NamedOnce(es, nameOf)
      /\ Len(bytes) > st[c] + 1 => es = <<>> \/ FoundWithSlack
      /\ bytes \in Seq(ByteSet) /\ nameOf \in [Files -> Names \cup {NoName}]
  BY <1>1 DEF Holds, TypeOK
<1>3. Elements = Seen(es, st)
  BY ElementsAre
<1>4. PICK i : i = EntryIndex(Seen(es, st), nameOf[f])
  OBVIOUS
<1>5. PICK k \in 1 .. c : es[k] = f
  <2>1. nameOf[f] # NoName
    BY DEF RemoveEntry
  <2> QED BY <1>2, <2>1 DEF NamedOnce
<1>6. i \in 1 .. c /\ es[i] = f
  <2>1. /\ i \in 1 .. count + 1
        /\ i <= count => SameName(nameOf[es[i]], nameOf[f])
        /\ i > count => Untaken(es, nameOf, nameOf[f])
    BY <1>1, <1>2, <1>4, LookedUp
  <2>2. SameName(nameOf[f], nameOf[f])
    BY SameNameSame
  <2>3. i \in 1 .. c
    BY <1>1, <1>2, <1>5, <2>1, <2>2 DEF Untaken
  <2>4. i = k
    BY <1>1, <1>2, <1>5, <2>1, <2>3 DEF NamedOnce
  <2> QED BY <1>5, <2>3, <2>4
<1>7. /\ bytes' = Removed(Seen(es, st), i) /\ count' = c - 1
      /\ nameOf' = [nameOf EXCEPT ![f] = NoName] /\ result' = "ok" /\ UNCHANGED <<overrun, found>>
  BY <1>1, <1>3, <1>4, <1>6 DEF RemoveEntry
<1>8. PICK d : d = st[i] - st[i - 1]
  OBVIOUS
<1>9. bytes' \in Seq(ByteSet) /\ Lost(bytes', bytes, st, c, i, d)
  BY <1>1, <1>2, <1>6, <1>7, <1>8, RemovedLoses
<1>10. /\ LaidOut(bytes', Without(es, i), Earlier(st, c, i, d))
       /\ Earlier(st, c, i, d)[c - 1] = st[c] - d /\ d \in Nat
  <2>1. Len(bytes) \in Nat
    BY <1>2
  <2>2. LaidShorter(bytes', bytes, es, st, c, i, d)
    BY <1>2, <1>6, <1>8, <1>9, <2>1, RemovedLaid
  <2> QED BY <2>2 DEF LaidShorter
<1>11. Without(es, i) \in Seq(Files) /\ Len(Without(es, i)) = c - 1
  BY <1>2, <1>6, WithoutIs
<1>12. NamedOnce(Without(es, i), nameOf')
  BY <1>2, <1>6, <1>7, NamedRemoved
<1>13. Len(bytes') > Earlier(st, c, i, d)[c - 1] + 1 => FoundWithSlack
  <2>1. PICK e \in Nat, l \in Nat : e = st[c] /\ l = Len(bytes)
    <3>1. c \in 0 .. Len(es)
      BY <1>2
    <3>2. st[c] \in Nat
      BY <1>2, <3>1 DEF LaidOut
    <3> QED BY <1>2, <3>2
  <2>2. Len(bytes') = l - d /\ Earlier(st, c, i, d)[c - 1] = e - d
    BY <1>9, <1>10, <2>1 DEF Lost
  <2>3. l - d > e - d + 1 => l > e + 1
    <3>1. \A z \in Nat : l - z > e - z + 1 => l > e + 1
      OBVIOUS
    <3> QED BY <1>10, <3>1
  <2>4. es # <<>>
    BY <1>2, <1>6
  <2> QED BY <1>2, <2>1, <2>2, <2>3, <2>4
<1>14. Holds(Without(es, i), Earlier(st, c, i, d))'
  <2>1. FoundWithSlack => FoundWithSlack'
    BY <1>7 DEF FoundWithSlack
  <2> QED BY <1>7, <1>10, <1>11, <1>12, <1>13, <2>1 DEF Holds
<1>15. EntryRemoved(es, f, i)
  BY <1>1, <1>2, <1>6, <1>7, <1>9, <1>14 DEF EntryRemoved
<1> QED BY <1>15

(***************************************************************************)
(* The directory an image was opened with.                                 *)
(***************************************************************************)

LEMMA EntryType ==
  ASSUME NEW f \in Files, NEW n \in Names, NEW last \in BOOLEAN
  PROVE  Entry(f, n) \in Seq(ByteSet) /\ <<Flag(last)>> \in Seq(ByteSet)
<1>1. PICK s \in Nat, l \in Nat : s = EntrySize(n) - 2 /\ l = Len(n) /\ EntrySize(n) = s + 2
  <2>1. Len(n) \in Nat
    BY NameType
  <2>2. EntrySize(n) \in Nat /\ EntrySize(n) - 2 \in Nat
    BY <2>1 DEF EntrySize, EntryHead
  <2> QED BY <2>1, <2>2
<1>2. /\ Byte("head", f, l) \in ByteSet /\ Byte("text", f, 0) \in ByteSet
      /\ Byte("back", NoFile, s + 2) \in ByteSet /\ Flag(last) \in ByteSet
  <2>1. f \in Nat
    BY DirDataAssumption
  <2> QED BY <2>1, ZeroType DEF Byte, ByteSet, NoFile, Flag
<1> DEFINE head == <<Byte("head", f, l)>>
           text == [k \in 1 .. s |-> Byte("text", f, 0)]
           back == <<Byte("back", NoFile, s + 2)>>
<1>3. head \in Seq(ByteSet) /\ text \in Seq(ByteSet) /\ back \in Seq(ByteSet)
  BY <1>2
<1>4. Entry(f, n) = head \o text \o back
  BY <1>1 DEF Entry
<1> HIDE DEF head, text, back
<1>5. head \o text \in Seq(ByteSet)
  BY <1>3, ConcatProperties
<1>6. (head \o text) \o back \in Seq(ByteSet)
  BY <1>3, <1>5, ConcatProperties
<1> QED BY <1>2, <1>4, <1>6

(* The function by which Laid is defined.                                  *)
LaidBy(names, m, g) ==
  g = [k \in 0 .. m |-> IF k = 0 THEN <<Flag(names = <<>>)>>
                        ELSE g[k - 1] \o Entry(k, names[k]) \o <<Flag(k = Len(names))>>]

LEMMA LaidByExists ==
  ASSUME NEW names, NEW n \in Nat
  PROVE  \E g : LaidBy(names, n, g)
<1> DEFINE One(k, rest) == rest \o Entry(k, names[k]) \o <<Flag(k = Len(names))>>
           Good == {m \in Nat : \E g : LaidBy(names, m, g)}
<1>a. \A m, g : LaidBy(names, m, g) <=>
        g = [k \in 0 .. m |-> IF k = 0 THEN <<Flag(names = <<>>)>> ELSE One(k, g[k - 1])]
  BY DEF LaidBy
<1> HIDE DEF One
<1>1. 0 \in Good
  <2> DEFINE g == [k \in 0 .. 0 |-> <<Flag(names = <<>>)>>]
  <2>1. LaidBy(names, 0, g)
    BY DEF LaidBy
  <2> HIDE DEF g
  <2> QED BY <2>1
<1>2. ASSUME NEW m \in 1 .. n, m - 1 \in Good PROVE m \in Good
  <2>1. PICK g : LaidBy(names, m - 1, g)
    BY <1>2
  <2> DEFINE h == [k \in 0 .. m |-> IF k = m THEN One(m, g[m - 1]) ELSE g[k]]
  <2>2. \A k \in 0 .. m - 1 : g[k] = IF k = 0 THEN <<Flag(names = <<>>)>> ELSE One(k, g[k - 1])
    BY <1>a, <2>1
  <2>3. ASSUME NEW k \in 0 .. m
        PROVE  h[k] = IF k = 0 THEN <<Flag(names = <<>>)>> ELSE One(k, h[k - 1])
    <3>1. k # 0 => k - 1 \in 0 .. m - 1 /\ h[k - 1] = g[k - 1]
      OBVIOUS
    <3>2. k # m => h[k] = g[k] /\ k \in 0 .. m - 1
      OBVIOUS
    <3>3. k = m => h[k] = One(k, g[k - 1]) /\ k # 0
      OBVIOUS
    <3> QED BY <3>1, <3>2, <3>3, <2>2
  <2>4. LaidBy(names, m, h)
    <3> HIDE DEF h
    <3>1. h = [k \in 0 .. m |-> h[k]]
      BY DEF h
    <3> QED BY <1>a, <2>3, <3>1
  <2> HIDE DEF h
  <2> QED BY <2>4
<1> HIDE DEF Good
<1>3. n \in Good
  BY <1>1, <1>2, Upwards
<1> QED BY <1>3 DEF Good

LEMMA LaidIs ==
  ASSUME NEW names, NEW slack, Len(names) \in Nat
  PROVE  \E g : /\ LaidBy(names, Len(names), g)
                /\ Laid(names, slack) = g[Len(names)] \o [k \in 1 .. slack |-> Zero]
<1> DEFINE Body(g) == [k \in 0 .. Len(names) |->
                         IF k = 0 THEN <<Flag(names = <<>>)>>
                         ELSE g[k - 1] \o Entry(k, names[k]) \o <<Flag(k = Len(names))>>]
           upTo == CHOOSE g : g = Body(g)
<1>1. Laid(names, slack) = upTo[Len(names)] \o [k \in 1 .. slack |-> Zero]
  BY DEF Laid
<1>2. \A g : LaidBy(names, Len(names), g) <=> g = Body(g)
  BY DEF LaidBy
<1>3. upTo = Body(upTo)
  <2>1. \E g : g = Body(g)
    BY <1>2, LaidByExists
  <2> HIDE DEF Body
  <2> QED BY <2>1
<1> HIDE DEF upTo, Body
<1> QED BY <1>1, <1>2, <1>3

LEMMA SameBytes ==
  ASSUME NEW a, NEW b, NEW es, NEW st, es \in Seq(Files), LaidOut(a, es, st),
         Len(a) \in Nat, st[Len(es)] < Len(b),
         \A x \in 0 .. st[Len(es)] : At(b, x) = At(a, x)
  PROVE  LaidOut(b, es, st)
<1>0. PICK c \in Nat : c = Len(es)
  OBVIOUS
<1>m. ASSUME NEW j \in 0 .. c, NEW k \in 0 .. c, j <= k
      PROVE  st[j] \in Nat /\ st[k] \in Nat /\ st[j] + (k - j) <= st[k]
  BY <1>0, <1>m, FlagOrder
<1>c. c \in 0 .. c
  OBVIOUS
<1>1. PICK e \in Nat : e = st[c]
  <2>1. st[c] \in Nat
    BY <1>0, <1>c DEF LaidOut
  <2> QED BY <2>1
<1>2. \A x \in 0 .. e : At(b, x) = At(a, x)
  BY <1>0, <1>1
<1>3. ASSUME NEW k \in 1 .. c
      PROVE  /\ st[k] >= st[k - 1] + EntryHead + 2
             /\ At(b, st[k - 1]) # LastFlag
             /\ At(b, st[k - 1] + 1) = Byte("head", es[k], st[k] - st[k - 1] - EntryHead - 2)
             /\ At(b, st[k] - 1).len = st[k] - st[k - 1] - 1
  <2>1. /\ st[k] >= st[k - 1] + EntryHead + 2
        /\ At(a, st[k - 1]) # LastFlag
        /\ At(a, st[k - 1] + 1) = Byte("head", es[k], st[k] - st[k - 1] - EntryHead - 2)
        /\ At(a, st[k] - 1).len = st[k] - st[k - 1] - 1
    BY <1>0 DEF LaidOut
  <2>2. k - 1 \in 0 .. c /\ k \in 0 .. c /\ k <= c
    OBVIOUS
  <2>3. st[k] \in Nat /\ st[k] + (c - k) <= st[c]
    BY <1>m, <1>c, <2>2
  <2>4. st[k - 1] \in Nat
    BY <1>0, <2>2 DEF LaidOut
  <2>5. PICK x \in Nat, y \in Nat : x = st[k - 1] /\ y = st[k]
    BY <2>3, <2>4
  <2>6. y >= x + 5
    <3>1. y >= x + EntryHead + 2
      BY <2>1, <2>5
    <3> QED BY <3>1 DEF EntryHead
  <2>7. y <= e
    <3>1. y + (c - k) <= e
      BY <1>1, <2>3, <2>5
    <3> QED BY <2>2, <3>1
  <2>8. x \in 0 .. e /\ x + 1 \in 0 .. e /\ y - 1 \in 0 .. e
    BY <2>6, <2>7
  <2>9. At(b, x) = At(a, x) /\ At(b, x + 1) = At(a, x + 1) /\ At(b, y - 1) = At(a, y - 1)
    BY <1>2, <2>8
  <2> QED BY <2>1, <2>5, <2>9
<1>4. At(b, st[c]) = LastFlag
  <2>1. e \in 0 .. e
    OBVIOUS
  <2> QED BY <1>0, <1>1, <1>2, <2>1 DEF LaidOut
<1> QED BY <1>0, <1>3, <1>4 DEF LaidOut

LEMMA BytesJoin ==
  ASSUME NEW a \in Seq(ByteSet), NEW b \in Seq(ByteSet), NEW c \in Seq(ByteSet)
  PROVE  (a \o b) \o c = a \o (b \o c)
BY ConcatAssociative

(* The bytes of the first k files, which end in the flag behind them.      *)
LaidFirst(names, k, mem, es, st) ==
  /\ mem \in Seq(ByteSet)
  /\ es \in Seq(Files) /\ Len(es) = k /\ \A j \in 1 .. k : es[j] = j
  /\ st[k] \in Nat /\ Len(mem) = st[k] + 1
  /\ At(mem, st[k]) = Flag(k = Len(names))
  /\ LaidOut(Put(mem, st[k], <<LastFlag>>), es, st)

LEMMA Closed ==
  ASSUME NEW mem \in Seq(ByteSet), NEW e \in Nat, Len(mem) = e + 1
  PROVE  /\ Put(mem, e, <<LastFlag>>) \in Seq(ByteSet)
         /\ Len(Put(mem, e, <<LastFlag>>)) = e + 1
         /\ At(Put(mem, e, <<LastFlag>>), e) = LastFlag
         /\ \A x \in Nat : x < e => At(Put(mem, e, <<LastFlag>>), x) = At(mem, x)
<1> DEFINE z == <<LastFlag>>
<1>1. z \in Seq(ByteSet) /\ Len(z) = 1 /\ z[1] = LastFlag
  BY ZeroType
<1> HIDE DEF z
<1>2. PICK p : p = Put(mem, e, z)
  OBVIOUS
<1>3. /\ p \in Seq(ByteSet) /\ Len(p) = e + 1
      /\ \A x \in Nat : x < e + 1 =>
           At(p, x) = IF x \in e .. e + 1 - 1 THEN z[x - e + 1] ELSE At(mem, x)
  <2>1. /\ Put(mem, e, z) \in Seq(ByteSet) /\ Len(Put(mem, e, z)) = Len(mem)
        /\ \A x \in Nat : x < Len(mem) =>
             At(Put(mem, e, z), x) = IF x \in e .. e + Len(z) - 1 THEN z[x - e + 1] ELSE At(mem, x)
    <3>1. z \in Seq(ByteSet)
      BY <1>1
    <3> QED BY <3>1, PutAt
  <2> QED BY <1>1, <1>2, <2>1
<1>4. /\ e < e + 1 /\ e \in e .. e + 1 - 1 /\ e - e + 1 = 1
      /\ \A x \in Nat : x < e => x < e + 1 /\ x \notin e .. e + 1 - 1
  OBVIOUS
<1>5. At(p, e) = LastFlag /\ \A x \in Nat : x < e => At(p, x) = At(mem, x)
  BY <1>1, <1>3, <1>4
<1> QED BY <1>2, <1>3, <1>5 DEF z

LEMMA LaidStart ==
  ASSUME NEW names \in Seq(Names)
  PROVE  LaidFirst(names, 0, <<Flag(names = <<>>)>>, <<>>, [k \in 0 .. 0 |-> 0])
<1> DEFINE st == [k \in 0 .. 0 |-> 0]
<1>1. PICK l \in Nat : l = Len(names)
  OBVIOUS
<1>2. names = <<>> <=> 0 = l
  BY <1>1
<1>3. PICK z \in BOOLEAN : z = (names = <<>>) /\ z = (0 = l)
  BY <1>2
<1>4. PICK mem : mem = <<Flag(z)>>
  OBVIOUS
<1>5. Flag(z) \in ByteSet
  BY <1>3, ZeroType DEF Flag
<1>6. mem \in Seq(ByteSet) /\ Len(mem) = 1 /\ mem[1] = Flag(z)
  BY <1>4, <1>5
<1>7. At(mem, 0) = Flag(z)
  BY <1>6 DEF At
<1>8. /\ Put(mem, 0, <<LastFlag>>) \in Seq(ByteSet)
      /\ Len(Put(mem, 0, <<LastFlag>>)) = 0 + 1
      /\ At(Put(mem, 0, <<LastFlag>>), 0) = LastFlag
  <2>1. Len(mem) = 0 + 1
    BY <1>6
  <2> QED BY <1>6, <2>1, Closed
<1>9. PICK es \in Seq(Files) : es = <<>> /\ Len(es) = 0
  <2>1. <<>> \in Seq(Files) /\ Len(<<>>) = 0
    OBVIOUS
  <2> QED BY <2>1
<1>10. st[0] = 0 /\ st \in [0 .. 0 -> Nat]
  OBVIOUS
<1> HIDE DEF st
<1>11. LaidOut(Put(mem, 0, <<LastFlag>>), es, st)
  <2>1. \A j, k \in 0 .. 0 : j <= k => st[j] + (k - j) <= st[k]
    <3>1. \A j \in 0 .. 0 : j = 0
      OBVIOUS
    <3>2. st[0] + (0 - 0) <= st[0]
      BY <1>10
    <3> QED BY <3>1, <3>2
  <2>2. 0 < Len(Put(mem, 0, <<LastFlag>>))
    <3>1. PICK p : p = Put(mem, 0, <<LastFlag>>)
      OBVIOUS
    <3>2. Len(p) = 1
      BY <1>8, <3>1
    <3> QED BY <3>1, <3>2
  <2> QED BY <1>8, <1>9, <1>10, <2>1, <2>2 DEF LaidOut
<1>12. LaidFirst(names, 0, mem, es, st)
  <2>1. \A j \in 1 .. 0 : es[j] = j
    OBVIOUS
  <2> QED BY <1>1, <1>3, <1>6, <1>7, <1>9, <1>10, <1>11, <2>1 DEF LaidFirst
<1> QED BY <1>3, <1>4, <1>9, <1>12 DEF st

LEMMA LaidNext ==
  ASSUME NEW names \in Seq(Names), 1 .. Len(names) \subseteq Files, NEW k \in 1 .. Len(names),
         NEW mem, NEW es, NEW st, LaidFirst(names, k - 1, mem, es, st)
  PROVE  \E es1, st1 :
           LaidFirst(names, k, mem \o Entry(k, names[k]) \o <<Flag(k = Len(names))>>, es1, st1)
<1>0. PICK l \in Nat, c \in Nat : l = Len(names) /\ c = k - 1
  OBVIOUS
<1>1. /\ mem \in Seq(ByteSet) /\ es \in Seq(Files) /\ Len(es) = c /\ \A j \in 1 .. c : es[j] = j
      /\ At(mem, st[c]) = Zero /\ st[c] \in Nat /\ Len(mem) = st[c] + 1
      /\ LaidOut(Put(mem, st[c], <<LastFlag>>), es, st)
  <2>1. c # l
    BY <1>0
  <2> QED BY <1>0, <2>1 DEF LaidFirst, Flag
<1>2. PICK e \in Nat : e = st[c]
  BY <1>1
<1>3. PICK n \in Names : n = names[k]
  OBVIOUS
<1>f. PICK f \in Files : f = k
  OBVIOUS
<1>4. PICK last \in BOOLEAN : last = (k = Len(names))
  OBVIOUS
<1>5. PICK new : new = Entry(f, n) \o <<Flag(last)>>
  OBVIOUS
<1>6. PICK d \in Nat, s \in Nat :
        /\ s = EntrySize(n) /\ d = s + 1 /\ s > EntryHead
        /\ new \in Seq(ByteSet) /\ Len(new) = d
        /\ new[1] = Byte("head", f, s - EntryHead - 1)
        /\ new[s].len = s
        /\ new[d] = Flag(last)
  <2>1. /\ EntrySize(n) \in Nat /\ EntrySize(n) > EntryHead
        /\ new \in Seq(ByteSet) /\ Len(new) = EntrySize(n) + 1
        /\ new[1] = Byte("head", f, EntrySize(n) - EntryHead - 1)
        /\ new[EntrySize(n)].len = EntrySize(n)
        /\ new[EntrySize(n) + 1] = Flag(last)
    BY <1>5, EntryIs
  <2>2. PICK s \in Nat : s = EntrySize(n)
    BY <2>1
  <2>3. PICK d \in Nat : d = s + 1
    OBVIOUS
  <2> QED BY <2>1, <2>2, <2>3
<1>7. PICK mem1 : mem1 = mem \o Entry(k, names[k]) \o <<Flag(k = Len(names))>>
  OBVIOUS
<1>8. mem1 = mem \o new
  <2>1. Entry(f, n) \in Seq(ByteSet) /\ <<Flag(last)>> \in Seq(ByteSet)
    BY EntryType
  <2>3. (mem \o Entry(f, n)) \o <<Flag(last)>> = mem \o (Entry(f, n) \o <<Flag(last)>>)
    BY <1>1, <2>1, BytesJoin
  <2> QED BY <1>3, <1>f, <1>4, <1>5, <1>7, <2>3
<1>9. /\ mem1 \in Seq(ByteSet) /\ Len(mem1) = e + d + 1
      /\ \A x \in Nat : x < e + 1 => At(mem1, x) = At(mem, x)
      /\ \A j \in 1 .. d : At(mem1, e + j) = new[j]
  <2>1. /\ mem \o new \in Seq(ByteSet) /\ Len(mem \o new) = Len(mem) + Len(new)
        /\ \A j \in 1 .. Len(mem) : (mem \o new)[j] = mem[j]
        /\ \A j \in 1 .. Len(new) : (mem \o new)[Len(mem) + j] = new[j]
    <3>1. mem \in Seq(ByteSet) /\ new \in Seq(ByteSet)
      BY <1>1, <1>6
    <3> QED BY <3>1, Joined
  <2>2. /\ mem1 \in Seq(ByteSet) /\ Len(mem1) = e + 1 + d
        /\ \A j \in 1 .. e + 1 : mem1[j] = mem[j]
        /\ \A j \in 1 .. d : mem1[e + 1 + j] = new[j]
    BY <1>1, <1>2, <1>6, <1>8, <2>1
  <2>3. Len(mem) = e + 1
    BY <1>1, <1>2
  <2>4. ASSUME NEW x \in Nat, x < e + 1 PROVE At(mem1, x) = At(mem, x)
    <3>1. x + 1 \in 1 .. e + 1 /\ x \in 0 .. e + 1 - 1 /\ x \in 0 .. e + 1 + d - 1
      BY <2>4
    <3> QED BY <2>2, <2>3, <3>1 DEF At
  <2>5. ASSUME NEW j \in 1 .. d PROVE At(mem1, e + j) = new[j]
    <3>1. e + j \in 0 .. e + 1 + d - 1 /\ e + j + 1 = e + 1 + j
      OBVIOUS
    <3> QED BY <2>2, <3>1 DEF At
  <2>6. e + 1 + d = e + d + 1
    OBVIOUS
  <2> QED BY <2>2, <2>4, <2>5, <2>6
<1>10. PICK old : old = Put(mem, e, <<LastFlag>>)
  OBVIOUS
<1>11. /\ old \in Seq(ByteSet) /\ Len(old) = e + 1 /\ LaidOut(old, es, st)
       /\ \A x \in Nat : x < e => At(old, x) = At(mem, x)
  <2>1. Len(mem) = e + 1
    BY <1>1, <1>2
  <2> QED BY <1>1, <1>2, <1>10, <2>1, Closed
<1>12. PICK end \in Nat : end = e + d
  OBVIOUS
<1>13. PICK shut : shut = Put(mem1, end, <<LastFlag>>)
  OBVIOUS
<1>14. /\ shut \in Seq(ByteSet) /\ Len(shut) = end + 1 /\ At(shut, end) = LastFlag
       /\ \A x \in Nat : x < end => At(shut, x) = At(mem1, x)
  <2>1. Len(mem1) = end + 1
    BY <1>9, <1>12
  <2> QED BY <1>9, <1>12, <1>13, <2>1, Closed
<1>15. Gained(shut, old, st, c, k, d, f)
  <2>0. st[k - 1] = e /\ st[c] = e
    BY <1>0, <1>2
  <2>1. Len(shut) = e + 1 + d
    BY <1>12, <1>14
  <2>2. \A x \in 0 .. e - 1 : At(shut, x) = At(old, x)
    <3> TAKE x \in 0 .. e - 1
    <3>1. x \in Nat /\ x < e /\ x < end /\ x < e + 1
      BY <1>12
    <3> QED BY <1>9, <1>11, <1>14, <3>1
  <2>3. At(shut, e) = Zero
    <3>1. e < end /\ e < e + 1
      BY <1>6, <1>12
    <3> QED BY <1>1, <1>2, <1>9, <1>14, <3>1
  <2>4. At(shut, e + 1) = Byte("head", f, d - EntryHead - 2)
    <3>1. 1 \in 1 .. d /\ e + 1 < end /\ e + 1 \in Nat /\ s - EntryHead - 1 = d - EntryHead - 2
      BY <1>6, <1>12 DEF EntryHead
    <3> QED BY <1>6, <1>9, <1>14, <3>1
  <2>5. At(shut, e + d - 1).len = d - 1
    <3>1. s \in 1 .. d /\ e + s < e + d /\ e + s \in Nat /\ e + d - 1 = e + s /\ d - 1 = s
      <4>1. d = s + 1 /\ s > EntryHead
        BY <1>6
      <4> QED BY <4>1 DEF EntryHead
    <3> QED BY <1>6, <1>9, <1>12, <1>14, <3>1
  <2>6. k = c + 1 /\ ~(k <= c)
    BY <1>0
  <2>7. At(shut, e + d) = Flag(k = c + 1)
    BY <1>12, <1>14, <2>6 DEF Flag
  <2> QED BY <2>0, <2>1, <2>2, <2>3, <2>4, <2>5, <2>6, <2>7 DEF Gained
<1>16. /\ LaidOut(shut, Into(es, k, f), Later(st, c, k, d))
       /\ Later(st, c, k, d)[c + 1] = e + d
  <2>1. LaidLonger(shut, old, es, st, c, k, d, f)
    <3>1. k \in 1 .. c + 1 /\ d > EntryHead + 1 /\ Len(old) \in Nat
      BY <1>0, <1>6, <1>11 DEF EntryHead
    <3> QED BY <1>1, <1>11, <1>15, <3>1, InsertedLaid
  <2> QED BY <1>2, <2>1 DEF LaidLonger
<1>17. /\ Into(es, k, f) \in Seq(Files) /\ Len(Into(es, k, f)) = k
       /\ \A j \in 1 .. k : Into(es, k, f)[j] = j
  <2>1. IsInto(Into(es, k, f), es, c, k, f)
    <3>1. k \in 1 .. c + 1
      BY <1>0
    <3> QED BY <1>1, <3>1, IntoIs
  <2>2. c + 1 = k
    BY <1>0
  <2>3. ASSUME NEW j \in 1 .. k PROVE Into(es, k, f)[j] = j
    <3>1. j < k => j \in 1 .. c
      BY <1>0
    <3>2. ~(j < k) => j = k
      OBVIOUS
    <3> QED BY <1>1, <1>f, <2>1, <2>2, <3>1, <3>2 DEF IsInto
  <2> QED BY <2>1, <2>2, <2>3 DEF IsInto
<1>18. Later(st, c, k, d)[k] = end
  <2>1. c + 1 = k
    BY <1>0
  <2> QED BY <1>12, <1>16, <2>1
<1>19. At(mem1, end) = Flag(k = Len(names))
  <2>1. d \in 1 .. d
    BY <1>6
  <2> QED BY <1>4, <1>6, <1>9, <1>12, <2>1
<1>20. LaidFirst(names, k, mem1, Into(es, k, f), Later(st, c, k, d))
  <2>1. Len(mem1) = end + 1
    BY <1>9, <1>12
  <2>2. /\ Into(es, k, f) \in Seq(Files) /\ Len(Into(es, k, f)) = k
        /\ \A j \in 1 .. k : Into(es, k, f)[j] = j
        /\ Later(st, c, k, d)[k] = end
    BY <1>17, <1>18
  <2>3. LaidOut(Put(mem1, end, <<LastFlag>>), Into(es, k, f), Later(st, c, k, d))
    BY <1>13, <1>16
  <2> QED BY <1>9, <1>19, <2>1, <2>2, <2>3 DEF LaidFirst
<1> QED BY <1>7, <1>20

(* A directory as the image was opened with it.                            *)
Opened(names, slack, es, st) ==
  /\ Laid(names, slack) \in Seq(ByteSet)
  /\ es \in Seq(Files) /\ Len(es) = Len(names) /\ \A j \in 1 .. Len(es) : es[j] = j
  /\ LaidOut(Laid(names, slack), es, st)
  /\ Len(Laid(names, slack)) > st[Len(es)] + 1 => slack > 0

LEMMA LaidOpened ==
  ASSUME NEW names \in Seq(Names), 1 .. Len(names) \subseteq Files, NEW slack \in Nat
  PROVE  \E es, st : Opened(names, slack, es, st)
<1>0. PICK l \in Nat : l = Len(names)
  OBVIOUS
<1>1. PICK g : LaidBy(names, l, g) /\ Laid(names, slack) = g[l] \o [k \in 1 .. slack |-> Zero]
  BY <1>0, LaidIs
<1> DEFINE Good == {k \in Nat : \E es, st : LaidFirst(names, k, g[k], es, st)}
<1>2. 0 \in Good
  <2>1. g[0] = <<Flag(names = <<>>)>>
    <3>1. 0 \in 0 .. l
      OBVIOUS
    <3> QED BY <1>1, <3>1 DEF LaidBy
  <2>2. LaidFirst(names, 0, g[0], <<>>, [k \in 0 .. 0 |-> 0])
    BY <2>1, LaidStart
  <2> QED BY <2>2
<1>3. ASSUME NEW k \in 1 .. l, k - 1 \in Good PROVE k \in Good
  <2>1. PICK es, st : LaidFirst(names, k - 1, g[k - 1], es, st)
    BY <1>3
  <2>2. g[k] = g[k - 1] \o Entry(k, names[k]) \o <<Flag(k = Len(names))>>
    <3>1. k \in 0 .. l /\ k # 0
      OBVIOUS
    <3> QED BY <1>1, <3>1 DEF LaidBy
  <2>3. k \in 1 .. Len(names)
    BY <1>0
  <2>4. PICK mem : mem = g[k - 1] \o Entry(k, names[k]) \o <<Flag(k = Len(names))>>
    OBVIOUS
  <2>5. \E es1, st1 : LaidFirst(names, k, mem, es1, st1)
    BY <2>1, <2>3, <2>4, LaidNext
  <2>6. g[k] = mem
    BY <2>2, <2>4
  <2> QED BY <2>5, <2>6
<1> HIDE DEF Good
<1>4. l \in Good
  <2>1. \A k \in 0 .. l : k \in Good
    BY <1>2, <1>3, Upwards
  <2>2. l \in 0 .. l
    OBVIOUS
  <2> QED BY <2>1, <2>2
<1>5. PICK es, st : LaidFirst(names, l, g[l], es, st)
  BY <1>4 DEF Good
<1>6. PICK mem \in Seq(ByteSet) : mem = g[l]
  BY <1>5 DEF LaidFirst
<1>7. PICK e \in Nat : e = st[l]
  BY <1>5 DEF LaidFirst
<1>8. /\ es \in Seq(Files) /\ Len(es) = l /\ \A j \in 1 .. l : es[j] = j
      /\ Len(mem) = e + 1 /\ At(mem, e) = LastFlag
      /\ LaidOut(Put(mem, e, <<LastFlag>>), es, st)
  BY <1>0, <1>5, <1>6, <1>7 DEF LaidFirst, Flag
<1>9. PICK old : old = Put(mem, e, <<LastFlag>>)
  OBVIOUS
<1>10. /\ old \in Seq(ByteSet) /\ Len(old) = e + 1 /\ At(old, e) = LastFlag
       /\ \A x \in Nat : x < e => At(old, x) = At(mem, x)
  BY <1>8, <1>9, Closed
<1>11. PICK zeros : zeros = [k \in 1 .. slack |-> Zero]
  OBVIOUS
<1>12. zeros \in Seq(ByteSet) /\ Len(zeros) = slack
  BY <1>11, ZeroType
<1>13. PICK laid : laid = Laid(names, slack)
  OBVIOUS
<1>14. /\ laid \in Seq(ByteSet) /\ Len(laid) = e + 1 + slack
       /\ \A k \in 1 .. e + 1 : laid[k] = mem[k]
  <2>1. /\ mem \o zeros \in Seq(ByteSet) /\ Len(mem \o zeros) = Len(mem) + Len(zeros)
        /\ \A k \in 1 .. Len(mem) : (mem \o zeros)[k] = mem[k]
    BY <1>12, Joined
  <2> QED BY <1>1, <1>6, <1>8, <1>11, <1>12, <1>13, <2>1
<1>15. \A x \in 0 .. e : At(laid, x) = At(old, x)
  <2> TAKE x \in 0 .. e
  <2>1. x + 1 \in 1 .. e + 1 /\ x \in 0 .. e + 1 - 1 /\ x \in 0 .. e + 1 + slack - 1
    OBVIOUS
  <2>2. At(laid, x) = At(mem, x)
    BY <1>8, <1>14, <2>1 DEF At
  <2>3. x # e => x \in Nat /\ x < e
    OBVIOUS
  <2> QED BY <1>8, <1>10, <2>2, <2>3
<1>16. LaidOut(laid, es, st)
  <2>1. st[Len(es)] = e /\ e < Len(laid) /\ Len(old) \in Nat
    BY <1>7, <1>8, <1>10, <1>14
  <2> QED BY <1>8, <1>9, <1>15, <2>1, SameBytes
<1>17. Len(laid) > st[Len(es)] + 1 => slack > 0
  <2>1. e + 1 + slack > e + 1 => slack > 0
    OBVIOUS
  <2> QED BY <1>7, <1>8, <1>14, <2>1
<1>18. Opened(names, slack, es, st)
  BY <1>0, <1>8, <1>13, <1>14, <1>16, <1>17 DEF Opened
<1> QED BY <1>18

(***************************************************************************)
(* The invariant holds.                                                    *)
(***************************************************************************)

LEMMA InitInductive ==
  ASSUME Init
  PROVE  Inductive
<1>1. PICK names, slack : names = found.names /\ slack = found.slack
  OBVIOUS
<1>2. /\ names \in Seq(Names) /\ 1 .. Len(names) \subseteq Files /\ slack \in Nat
      /\ \A i, j \in 1 .. Len(names) : i # j => ~SameName(names[i], names[j])
  BY <1>1, FoundAssumption DEF Init
<1>3. /\ bytes = Laid(names, slack) /\ count = Len(names)
      /\ nameOf = [f \in Files |-> IF f <= Len(names) THEN names[f] ELSE NoName]
      /\ found \in Found /\ result = "none" /\ overrun = FALSE
  BY <1>1 DEF Init
<1>4. PICK l \in Nat : l = Len(names)
  BY <1>2
<1>5. \A k \in 1 .. l : names[k] \in Names /\ names[k] # NoName
  BY <1>2, <1>4, NameType
<1>6. \A f \in Files : /\ f \in Nat /\ f # 0
                       /\ f <= l => f \in 1 .. l /\ nameOf[f] = names[f]
                       /\ ~(f <= l) => nameOf[f] = NoName
  BY <1>3, <1>4, DirDataAssumption DEF NoFile
<1>7. nameOf \in [Files -> Names \cup {NoName}]
  <2>1. \A f \in Files : nameOf[f] \in Names \cup {NoName}
    BY <1>5, <1>6
  <2> QED BY <1>3, <2>1
<1>8. PICK es, st : Opened(names, slack, es, st)
  BY <1>2, LaidOpened
<1>9. es \in Seq(Files) /\ Len(es) = l /\ \A j \in 1 .. l : es[j] = j
  BY <1>4, <1>8 DEF Opened
<1>10. NamedOnce(es, nameOf)
  <2>1. ASSUME NEW f \in Files PROVE nameOf[f] # NoName <=> \E k \in 1 .. l : es[k] = f
    BY <1>5, <1>6, <1>9
  <2>2. ASSUME NEW j \in 1 .. l, NEW k \in 1 .. l, j # k
        PROVE  ~SameName(nameOf[es[j]], nameOf[es[k]])
    <3>1. es[j] = j /\ es[k] = k /\ j \in Files /\ k \in Files /\ j <= l /\ k <= l
      BY <1>2, <1>4, <1>9
    <3>2. nameOf[j] = names[j] /\ nameOf[k] = names[k]
      BY <1>6, <3>1
    <3> QED BY <1>2, <1>4, <2>2, <3>1, <3>2
  <2> QED BY <1>9, <2>1, <2>2 DEF NamedOnce
<1>11. Len(bytes) > st[Len(es)] + 1 => es = <<>> \/ FoundWithSlack
  <2>1. names = <<>> => es = <<>>
    BY <1>4, <1>9
  <2> QED BY <1>1, <1>3, <1>8, <2>1 DEF FoundWithSlack, Opened
<1>12. Holds(es, st)
  BY <1>3, <1>4, <1>8, <1>9, <1>10, <1>11 DEF Holds, Opened
<1>13. TypeOK
  BY <1>3, <1>4, <1>7, <1>8 DEF TypeOK, Opened
<1>14. MovesFit
  BY <1>3 DEF MovesFit
<1> QED BY <1>12, <1>13, <1>14 DEF Inductive

LEMMA StepInductive ==
  ASSUME Inductive, Addressable, [Next]_dirVars
  PROVE  Inductive'
<1>1. PICK es, st : Holds(es, st)
  BY DEF Inductive
<1>2. TypeOK /\ MovesFit
  BY DEF Inductive
<1>3. ASSUME UNCHANGED <<bytes, count, nameOf, found>>,
             result' \in {"none", "ok", "exists", "nospace", "missing"},
             overrun' \in BOOLEAN, MovesFit'
      PROVE  Inductive'
  <2>1. Holds(es, st)'
    BY <1>1, <1>3 DEF Holds, FoundWithSlack
  <2>2. TypeOK'
    BY <1>2, <1>3 DEF TypeOK
  <2> QED BY <1>3, <2>1, <2>2 DEF Inductive
<1>4. ASSUME NEW f \in Files, NEW n \in Names, AddEntry(f, n) PROVE Inductive'
  <2>1. /\ UNCHANGED found
        /\ \/ FoundWithSlack /\ overrun' = TRUE /\ UNCHANGED <<bytes, count, nameOf, result>>
           \/ overrun' = overrun /\ \E i : EntryAdded(es, f, n, i)
    BY <1>1, <1>2, <1>4, AddKeeps
  <2>2. CASE FoundWithSlack /\ overrun' = TRUE /\ UNCHANGED <<bytes, count, nameOf, result>>
    <3>1. MovesFit'
      BY <2>1, <2>2 DEF MovesFit, FoundWithSlack
    <3>2. result' \in {"none", "ok", "exists", "nospace", "missing"}
      BY <1>2, <2>2 DEF TypeOK
    <3> QED BY <1>3, <2>1, <2>2, <3>1, <3>2
  <2>3. CASE overrun' = overrun /\ \E i : EntryAdded(es, f, n, i)
    <3>1. PICK i : EntryAdded(es, f, n, i)
      BY <2>3
    <3>2. PICK es1, st1 : Holds(es1, st1)'
      BY <3>1 DEF EntryAdded
    <3>3. MovesFit'
      BY <1>2, <2>1, <2>3 DEF MovesFit
    <3>4. nameOf' \in [Files -> Names \cup {NoName}]
      BY <1>2, <3>1 DEF EntryAdded, TypeOK
    <3>5. TypeOK'
      BY <1>2, <2>1, <2>3, <3>1, <3>4 DEF EntryAdded, TypeOK
    <3> QED BY <3>2, <3>3, <3>5 DEF Inductive
  <2> QED BY <2>1, <2>2, <2>3
<1>5. ASSUME NEW f \in Files, NEW n \in Names, AddExists(f, n) \/ AddNoSpace(f, n)
      PROVE  Inductive'
  <2>1. /\ UNCHANGED <<bytes, count, nameOf, overrun, found>>
        /\ result' \in {"none", "ok", "exists", "nospace", "missing"}
    BY <1>5 DEF AddExists, AddNoSpace
  <2>2. MovesFit' /\ overrun' \in BOOLEAN
    BY <1>2, <2>1 DEF MovesFit, TypeOK
  <2> QED BY <1>3, <2>1, <2>2
<1>6. ASSUME NEW f \in Files, RemoveEntry(f) PROVE Inductive'
  <2>1. PICK i : EntryRemoved(es, f, i)
    BY <1>1, <1>2, <1>6, RemoveKeeps
  <2>2. PICK es1, st1 : Holds(es1, st1)'
    BY <2>1 DEF EntryRemoved
  <2>3. MovesFit'
    BY <1>2, <2>1 DEF EntryRemoved, MovesFit
  <2>4. nameOf' \in [Files -> Names \cup {NoName}]
    BY <1>2, <2>1 DEF EntryRemoved, TypeOK
  <2>5. count' \in Nat
    <3>1. count = Len(es) /\ i \in 1 .. Len(es)
      BY <1>1, <2>1 DEF EntryRemoved, Holds
    <3> QED BY <1>2, <2>1, <3>1 DEF EntryRemoved, TypeOK
  <2>6. TypeOK'
    BY <1>2, <2>1, <2>4, <2>5 DEF EntryRemoved, TypeOK
  <2> QED BY <2>2, <2>3, <2>6 DEF Inductive
<1>7. CASE UNCHANGED dirVars
  <2>1. UNCHANGED <<bytes, count, nameOf, result, overrun, found>>
    BY <1>7 DEF dirVars
  <2>2. MovesFit' /\ overrun' \in BOOLEAN /\ result' \in {"none", "ok", "exists", "nospace", "missing"}
    BY <1>2, <2>1 DEF MovesFit, TypeOK
  <2> QED BY <1>3, <2>1, <2>2
<1> QED BY <1>4, <1>5, <1>6, <1>7 DEF Next

(* As long as offsets fit into 16 bits (ccos_parse_directory_data keeps    *)
(* them in a uint16_t), the data is the entries of the files that are      *)
(* listed, whatever was inserted and removed where.                        *)
THEOREM DataLaidOut == Spec /\ []Addressable => []Inductive
<1>1. Init => Inductive
  BY InitInductive
<1>2. Inductive /\ Addressable /\ [Next]_dirVars => Inductive'
  BY StepInductive
<1> QED BY <1>1, <1>2, PTL DEF Spec

(***************************************************************************)
(* What the invariant says.                                                *)
(***************************************************************************)

LEMMA AlikeHolds ==
  ASSUME Inductive, Addressable
  PROVE  ReadsAlike
<1>1. PICK es, st : Holds(es, st)
  BY DEF Inductive
<1>2. PICK c \in Nat, l \in Nat : c = count /\ l = Len(bytes)
  BY DEF Inductive, TypeOK
<1>3. /\ es \in Seq(Files) /\ Len(es) = c /\ LaidOut(bytes, es, st)
      /\ Len(bytes) \in Nat /\ Len(bytes) <= OffsetSpan
  BY <1>1, <1>2 DEF Holds, Addressable
<1>4. Elements = Seen(es, st)
  BY <1>1, ElementsAre DEF Inductive
<1>5. /\ \A k \in 0 .. c : st[k] \in Nat /\ st[k] < l
      /\ \A i, k \in 0 .. c : i < k => st[i] < st[k]
      /\ c < l
  BY <1>2, <1>3, FlagsInside
<1>6. CountMeetsMarker
  <2>1. Parse(bytes, count) = Seen(es, st)
    <3>1. c >= Len(es)
      BY <1>3
    <3> QED BY <1>2, <1>3, <3>1, ParseSees
  <2>2. Parse(bytes, Len(bytes)) = Seen(es, st)
    <3>1. l >= Len(es)
      BY <1>3, <1>5
    <3> QED BY <1>2, <1>3, <3>1, ParseSees
  <2>3. Len(Seen(es, st)) = count
    BY <1>2, <1>3 DEF Seen
  <2>4. RealSize(Seen(es, st)) = st[count] + 1
    BY <1>2, <1>3, RealSizeIs
  <2>5. PICK e \in Nat : e = st[c]
    <3>1. c \in 0 .. c
      OBVIOUS
    <3> QED BY <1>5, <3>1
  <2>6. RealSize(Elements) - 1 = e /\ At(bytes, e) = LastFlag
    <3>1. e + 1 - 1 = e
      OBVIOUS
    <3> QED BY <1>2, <1>3, <1>4, <2>4, <2>5, <3>1 DEF LaidOut
  <2> QED BY <2>1, <2>2, <2>3, <2>6 DEF CountMeetsMarker
<1>7. ReadsBackwards
  <2> SUFFICES ASSUME NEW i \in 1 .. c
               PROVE  EndOf(Seen(es, st)[i]) - At(bytes, EndOf(Seen(es, st)[i]) - 1).len - 1
                        = IF i = 1 THEN 0 ELSE EndOf(Seen(es, st)[i - 1])
    BY <1>2, <1>4 DEF ReadsBackwards
  <2>1. i \in 1 .. Len(es) /\ i - 1 \in 0 .. c /\ i \in 0 .. c
    BY <1>3
  <2>2. PICK a \in Nat, b \in Nat : a = st[i - 1] /\ b = st[i]
    BY <1>5, <2>1
  <2>3. EndOf(Seen(es, st)[i]) = b
    <3>1. Seen(es, st)[i].offset = a + 1 /\ Seen(es, st)[i].size = b - a - 1
      BY <2>1, <2>2, SeenIs
    <3>2. a + 1 + (b - a - 1) = b
      OBVIOUS
    <3> QED BY <3>1, <3>2 DEF EndOf
  <2>4. At(bytes, b - 1).len = b - a - 1
    BY <1>3, <2>1, <2>2 DEF LaidOut
  <2>5. b - (b - a - 1) - 1 = a
    OBVIOUS
  <2>6. a = IF i = 1 THEN 0 ELSE EndOf(Seen(es, st)[i - 1])
    <3>1. CASE i = 1
      BY <1>3, <2>2, <3>1 DEF LaidOut
    <3>2. CASE i # 1
      <4>0. PICK m \in 1 .. Len(es) : m = i - 1
        BY <1>3, <3>2
      <4>1. m - 1 \in 0 .. c
        BY <1>3
      <4>2. PICK p \in Nat : p = st[m - 1]
        BY <1>5, <4>1
      <4>3. Seen(es, st)[i - 1].offset = p + 1 /\ Seen(es, st)[i - 1].size = a - p - 1
        <5>1. /\ Seen(es, st)[m].offset = st[m - 1] + 1
              /\ Seen(es, st)[m].size = st[m] - st[m - 1] - 1
          BY SeenIs
        <5>2. Seen(es, st)[m].offset = p + 1 /\ Seen(es, st)[m].size = a - p - 1
          BY <2>2, <4>0, <4>2, <5>1
        <5> QED BY <4>0, <5>2
      <4>4. p + 1 + (a - p - 1) = a
        OBVIOUS
      <4> QED BY <3>2, <4>3, <4>4 DEF EndOf
    <3> QED BY <3>1, <3>2
  <2> QED BY <2>3, <2>4, <2>5, <2>6
<1> QED BY <1>6, <1>7 DEF ReadsAlike

(* GRiD OS, which reads entries up to LAST, and the tool, which reads as   *)
(* many as the inode counts, see the same directory, and each entry leads  *)
(* back to the one before, after any calls in any order.                   *)
THEOREM AlwaysReadsAlike == Spec /\ []Addressable => []ReadsAlike
<1>1. Inductive /\ Addressable => ReadsAlike
  BY AlikeHolds
<1> QED BY <1>1, DataLaidOut, PTL

(* The memmove of ccos_add_file_entry_to_dir_contents leaves its buffer in *)
(* no directory but one that had bytes behind the last flag, and entries,  *)
(* when the image was opened: no call of this module leaves such bytes.    *)
THEOREM AlwaysMovesFit == Spec /\ []Addressable => []MovesFit
<1>1. Inductive => MovesFit
  BY DEF Inductive
<1> QED BY <1>1, DataLaidOut, PTL

(***************************************************************************)
(* Order.                                                                  *)
(***************************************************************************)

(* Ordered, of given elements and names.                                   *)
NameIn(elements, names, i) ==
  IF elements[i].file \in Files THEN names[elements[i].file] ELSE NoName

Sorted(elements, c, names) ==
  \A i \in 1 .. c - 1 : Precedes(NameIn(elements, names, i), NameIn(elements, names, i + 1))

LEMMA SortedIs ==
  ASSUME NEW es, NEW st, es \in Seq(Files), NEW c, c = Len(es), NEW names
  PROVE  Sorted(Seen(es, st), c, names) <=> InOrder(es, names)
<1>0. c \in Nat
  OBVIOUS
<1>1. ASSUME NEW k \in 1 .. c PROVE NameIn(Seen(es, st), names, k) = names[es[k]]
  <2>1. Seen(es, st)[k].file = es[k] /\ es[k] \in Files
    BY SeenIs
  <2> QED BY <2>1 DEF NameIn
<1>2. \A k \in 1 .. c - 1 : k \in 1 .. c /\ k + 1 \in 1 .. c
  BY <1>0
<1>3. \A k \in 1 .. c - 1 : /\ NameIn(Seen(es, st), names, k) = names[es[k]]
                            /\ NameIn(Seen(es, st), names, k + 1) = names[es[k + 1]]
  BY <1>1, <1>2
<1> QED BY <1>3 DEF Sorted, InOrder

LEMMA OrderedIs ==
  ASSUME TypeOK, NEW es, NEW st, Holds(es, st), Addressable
  PROVE  Ordered <=> InOrder(es, nameOf)
<1>1. Elements = Seen(es, st)
  BY ElementsAre
<1>2. Ordered <=> Sorted(Seen(es, st), count, nameOf)
  BY <1>1 DEF Ordered, NameAt, Sorted, NameIn
<1>3. es \in Seq(Files) /\ count = Len(es)
  BY DEF Holds
<1> QED BY <1>2, <1>3, SortedIs

LEMMA ElementsNext ==
  ASSUME TypeOK', NEW es, NEW st, Holds(es, st)', Addressable'
  PROVE  Elements' = Seen(es, st)
<1>1. /\ es \in Seq(Files) /\ LaidOut(bytes', es, st) /\ Len(bytes') \in Nat
      /\ Len(bytes') <= OffsetSpan /\ count' = Len(es)
  BY DEF Holds, TypeOK, Addressable
<1>2. Shown(Parse(bytes', count'), count') = Seen(es, st)
  BY <1>1, ElementsSeen
<1> QED BY <1>2 DEF Elements, Shown

LEMMA OrderedNext ==
  ASSUME TypeOK', NEW es, NEW st, Holds(es, st)', Addressable', InOrder(es, nameOf')
  PROVE  Ordered'
<1>1. Elements' = Seen(es, st)
  BY ElementsNext
<1>2. Ordered' <=> Sorted(Seen(es, st), count', nameOf')
  BY <1>1 DEF Ordered, NameAt, Sorted, NameIn
<1>3. es \in Seq(Files) /\ count' = Len(es)
  BY DEF Holds
<1> QED BY <1>2, <1>3, SortedIs

LEMMA StepKeepsOrder ==
  ASSUME Inductive, Addressable, Inductive', Addressable', [Next]_dirVars, Ordered
  PROVE  Ordered'
<1>1. PICK es, st : Holds(es, st)
  BY DEF Inductive
<1>2. TypeOK /\ TypeOK'
  BY DEF Inductive
<1>3. /\ es \in Seq(Files) /\ Len(es) = count /\ NamedOnce(es, nameOf)
      /\ nameOf \in [Files -> Names \cup {NoName}] /\ count \in Nat
  BY <1>1, <1>2 DEF Holds, TypeOK
<1>4. InOrder(es, nameOf)
  BY <1>1, <1>2, OrderedIs
<1>5. ASSUME UNCHANGED <<bytes, count, nameOf>> PROVE Ordered'
  BY <1>5 DEF Ordered, Elements, NameAt
<1>6. ASSUME NEW f \in Files, NEW n \in Names, AddEntry(f, n) PROVE Ordered'
  <2>1. /\ nameOf[f] = NoName /\ Untaken(es, nameOf, n)
        /\ \/ UNCHANGED <<bytes, count, nameOf>>
           \/ \E i : EntryAdded(es, f, n, i)
    BY <1>1, <1>2, <1>6, AddKeeps
  <2>2. ASSUME NEW i, EntryAdded(es, f, n, i) PROVE Ordered'
    <3>1. PICK st1 : Holds(Into(es, i, f), st1)'
      BY <2>2 DEF EntryAdded
    <3>2. /\ i \in 1 .. count + 1 /\ nameOf' = [nameOf EXCEPT ![f] = n]
          /\ i <= count => NotBefore(nameOf[es[i]], n)
          /\ \A j \in 1 .. i - 1 : ~NotBefore(nameOf[es[j]], n)
      BY <1>3, <2>2 DEF EntryAdded, Belongs
    <3>3. \A k \in 1 .. count : ~SameName(nameOf[es[k]], n)
      BY <1>3, <2>1 DEF Untaken
    <3>4. InOrder(Into(es, i, f), nameOf')
      BY <1>3, <1>4, <2>1, <3>2, <3>3, OrderAdded
    <3>5. PICK es1 : es1 = Into(es, i, f)
      OBVIOUS
    <3>6. Holds(es1, st1)' /\ InOrder(es1, nameOf')
      BY <3>1, <3>4, <3>5
    <3> QED BY <1>2, <3>6, OrderedNext
  <2> QED BY <1>5, <2>1, <2>2
<1>7. ASSUME NEW f \in Files, RemoveEntry(f) PROVE Ordered'
  <2>1. PICK i : EntryRemoved(es, f, i)
    BY <1>1, <1>2, <1>7, RemoveKeeps
  <2>2. PICK st1 : Holds(Without(es, i), st1)'
    BY <2>1 DEF EntryRemoved
  <2>3. i \in 1 .. count /\ nameOf' = [nameOf EXCEPT ![es[i]] = NoName]
    BY <1>3, <2>1 DEF EntryRemoved
  <2>4. InOrder(Without(es, i), nameOf')
    BY <1>3, <1>4, <2>3, OrderRemoved
  <2>5. PICK es1 : es1 = Without(es, i)
    OBVIOUS
  <2>6. Holds(es1, st1)' /\ InOrder(es1, nameOf')
    BY <2>2, <2>4, <2>5
  <2> QED BY <1>2, <2>6, OrderedNext
<1>8. ASSUME NEW f \in Files, NEW n \in Names, AddExists(f, n) \/ AddNoSpace(f, n) PROVE Ordered'
  BY <1>5, <1>8 DEF AddExists, AddNoSpace
<1>9. CASE UNCHANGED dirVars
  BY <1>5, <1>9 DEF dirVars
<1> QED BY <1>6, <1>7, <1>8, <1>9 DEF Next

(* A directory in GRiD's order stays in it: the entry put in front of the  *)
(* first one that does not come before it, and the neighbours of one taken *)
(* out, are in order again.                                                *)
THEOREM AlwaysKeepsOrder == Spec /\ []Addressable => KeepsOrder
<1>1. Inductive /\ Addressable /\ Inductive' /\ Addressable' /\ [Next]_dirVars
        => [Ordered => Ordered']_dirVars
  BY StepKeepsOrder
<1> QED BY <1>1, DataLaidOut, PTL DEF Spec, KeepsOrder

(***************************************************************************)
(* The set of files.                                                       *)
(***************************************************************************)

Named(names) == {f \in Files : names[f] # NoName}

LEMMA NamedAre ==
  ASSUME NEW es, es \in Seq(Files), NEW names, NamedOnce(es, names)
  PROVE  Named(names) = {es[k] : k \in 1 .. Len(es)}
<1>1. \A k \in 1 .. Len(es) : es[k] \in Files
  OBVIOUS
<1>2. \A f \in Files : f \in Named(names) <=> \E k \in 1 .. Len(es) : es[k] = f
  BY DEF Named, NamedOnce
<1>3. \A f \in Named(names) : f \in Files
  BY DEF Named
<1> QED BY <1>1, <1>2, <1>3

LEMMA FilesSeen ==
  ASSUME NEW es, NEW st, es \in Seq(Files), NEW c, c = Len(es)
  PROVE  {e.file : e \in {Seen(es, st)[i] : i \in 1 .. c}} = {es[k] : k \in 1 .. c}
<1>1. \A k \in 1 .. c : Seen(es, st)[k].file = es[k]
  BY SeenIs
<1> QED BY <1>1

LEMMA ListedIs ==
  ASSUME Inductive, Addressable
  PROVE  Listed = Named(nameOf)
<1>1. PICK es, st : Holds(es, st)
  BY DEF Inductive
<1>2. es \in Seq(Files) /\ count = Len(es) /\ NamedOnce(es, nameOf)
  BY <1>1 DEF Holds
<1>3. Elements = Seen(es, st)
  BY <1>1, ElementsAre DEF Inductive
<1>4. Listed = {es[k] : k \in 1 .. count}
  BY <1>2, <1>3, FilesSeen DEF Listed
<1> QED BY <1>2, <1>4, NamedAre

LEMMA ListedNext ==
  ASSUME Inductive', Addressable'
  PROVE  Listed' = Named(nameOf')
<1>1. PICK es, st : Holds(es, st)'
  BY DEF Inductive
<1>2. es \in Seq(Files) /\ count' = Len(es) /\ NamedOnce(es, nameOf')
  BY <1>1 DEF Holds
<1>3. TypeOK'
  BY DEF Inductive
<1>4. Elements' = Seen(es, st)
  BY <1>1, <1>3, ElementsNext
<1>5. Listed' = {es[k] : k \in 1 .. count'}
  BY <1>2, <1>4, FilesSeen DEF Listed
<1> QED BY <1>2, <1>5, NamedAre

(* To find no entry of the name is to find it free.                        *)
LEMMA TakenIs ==
  ASSUME Inductive, Addressable, NEW n
  PROVE  Abstract!Taken(n) <=> EntryIndex(Elements, n) <= count
<1>1. PICK es, st : Holds(es, st)
  BY DEF Inductive
<1>2. /\ es \in Seq(Files) /\ Len(es) = count /\ NamedOnce(es, nameOf) /\ count \in Nat
  BY <1>1 DEF Holds, Inductive, TypeOK
<1>3. Elements = Seen(es, st)
  BY <1>1, ElementsAre DEF Inductive
<1>4. Listed = {es[k] : k \in 1 .. count}
  BY <1>2, ListedIs, NamedAre
<1>5. Abstract!Taken(n) <=> \E k \in 1 .. count : SameName(nameOf[es[k]], n)
  BY <1>4 DEF Abstract!Taken
<1>6. PICK i : i = EntryIndex(Seen(es, st), n)
  OBVIOUS
<1>7. /\ i \in 1 .. count + 1
      /\ i <= count => SameName(nameOf[es[i]], n)
      /\ i > count => Untaken(es, nameOf, n)
  BY <1>2, <1>6, LookedUp
<1>8. (\E k \in 1 .. count : SameName(nameOf[es[k]], n)) <=> i <= count
  BY <1>2, <1>7 DEF Untaken
<1> QED BY <1>3, <1>5, <1>6, <1>8

LEMMA InitImplements ==
  ASSUME Init, Addressable
  PROVE  Abstract!Init
<1>1. Inductive
  BY InitInductive
<1>2. PICK es, st : Holds(es, st)
  BY <1>1 DEF Inductive
<1>3. Listed = Named(nameOf)
  BY <1>1, ListedIs
<1>4. /\ es \in Seq(Files) /\ NamedOnce(es, nameOf)
      /\ nameOf \in [Files -> Names \cup {NoName}]
  BY <1>1, <1>2 DEF Holds, Inductive, TypeOK
<1>5. \A f, g \in Listed : f # g => ~SameName(nameOf[f], nameOf[g])
  <2>1. Listed = {es[k] : k \in 1 .. Len(es)}
    BY <1>3, <1>4, NamedAre
  <2> QED BY <1>4, <2>1 DEF NamedOnce
<1>6. Listed \in SUBSET Files /\ \A f \in Files : nameOf[f] = NoName <=> f \notin Listed
  BY <1>3 DEF Named
<1>7. result = "none"
  BY DEF Init
<1> QED BY <1>4, <1>5, <1>6, <1>7 DEF Abstract!Init

LEMMA StepImplements ==
  ASSUME Inductive, Addressable, Inductive', Addressable', [Next]_dirVars
  PROVE  [Abstract!Next]_(Abstract!vars)
<1>1. /\ Listed = Named(nameOf) /\ Listed' = Named(nameOf')
      /\ nameOf \in [Files -> Names \cup {NoName}]
  BY ListedIs, ListedNext DEF Inductive, TypeOK
<1>2. PICK es, st : Holds(es, st)
  BY DEF Inductive
<1>3. ASSUME UNCHANGED nameOf PROVE UNCHANGED Listed
  BY <1>1, <1>3
<1>4. ASSUME NEW f \in Files, NEW n \in Names, AddEntry(f, n)
      PROVE  Abstract!Add(f, n) \/ UNCHANGED Abstract!vars
  <2>1. /\ nameOf[f] = NoName
        /\ \/ UNCHANGED <<bytes, count, nameOf, result>>
           \/ \E i : EntryAdded(es, f, n, i)
    BY <1>2, <1>4, AddKeeps DEF Inductive
  <2>2. CASE UNCHANGED <<bytes, count, nameOf, result>>
    BY <1>3, <2>2 DEF Abstract!vars
  <2>3. CASE \E i : EntryAdded(es, f, n, i)
    <3>1. nameOf' = [nameOf EXCEPT ![f] = n] /\ result' = "ok"
      BY <2>3 DEF EntryAdded
    <3>2. ~Abstract!Taken(n)
      <4>1. EntryIndex(Elements, n) > count
        BY <1>4 DEF AddEntry
      <4>2. PICK i : i = EntryIndex(Elements, n)
        OBVIOUS
      <4>3. i \in 1 .. count + 1 /\ count \in Nat
        BY <4>2, EntryIndexIs DEF Inductive, TypeOK
      <4>4. ~(i <= count)
        BY <4>1, <4>2, <4>3
      <4> QED BY <4>2, <4>4, TakenIs
    <3>3. n # NoName
      BY DirDataAssumption
    <3>4. f \notin Listed /\ Listed' = Listed \cup {f}
      BY <1>1, <2>1, <3>1, <3>3 DEF Named
    <3> QED BY <3>1, <3>2, <3>4 DEF Abstract!Add
  <2> QED BY <2>1, <2>2, <2>3
<1>5. ASSUME NEW f \in Files, NEW n \in Names, AddExists(f, n) PROVE Abstract!Refuse(f, n)
  <2>1. /\ nameOf[f] = NoName /\ EntryIndex(Elements, n) <= count
        /\ result' = "exists" /\ UNCHANGED nameOf
    BY <1>5 DEF AddExists
  <2>2. f \notin Listed
    BY <1>1, <2>1 DEF Named
  <2> QED BY <1>3, <2>1, <2>2, TakenIs DEF Abstract!Refuse
<1>6. ASSUME NEW f \in Files, NEW n \in Names, AddNoSpace(f, n) PROVE Abstract!NoSpace
  <2>1. result' = "nospace" /\ UNCHANGED nameOf
    BY <1>6 DEF AddNoSpace
  <2> QED BY <1>3, <2>1 DEF Abstract!NoSpace
<1>7. ASSUME NEW f \in Files, RemoveEntry(f) PROVE Abstract!Remove(f)
  <2>1. \E i : EntryRemoved(es, f, i)
    BY <1>2, <1>7, RemoveKeeps DEF Inductive
  <2>2. nameOf' = [nameOf EXCEPT ![f] = NoName] /\ result' = "ok"
    BY <2>1 DEF EntryRemoved
  <2>3. nameOf[f] # NoName
    BY <1>7 DEF RemoveEntry
  <2>4. f \in Listed /\ Listed' = Listed \ {f}
    BY <1>1, <2>2, <2>3 DEF Named
  <2> QED BY <2>2, <2>4 DEF Abstract!Remove
<1>8. CASE UNCHANGED dirVars
  BY <1>3, <1>8 DEF dirVars, Abstract!vars
<1>9. CASE Next
  BY <1>4, <1>5, <1>6, <1>7, <1>9 DEF Next, Abstract!Next
<1> QED BY <1>8, <1>9

(* A directory behaves as the set of files its callers rely on: whatever   *)
(* the bytes do, an insertion adds one file under a name nobody has, a     *)
(* removal finds the file and takes out no other, and a call that fails    *)
(* leaves the set alone.                                                   *)
THEOREM DirectoryImplemented == Spec /\ []Addressable => ImplementsDirectory
<1>1. Init /\ Addressable => Abstract!Init
  BY InitImplements
<1>2. Inductive /\ Addressable /\ Inductive' /\ Addressable' /\ [Next]_dirVars
        => [Abstract!Next]_(Abstract!vars)
  BY StepImplements
<1> QED BY <1>1, <1>2, DataLaidOut, PTL DEF Spec, ImplementsDirectory, Abstract!Spec
=============================================================================
