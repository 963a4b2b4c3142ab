--------------------------- MODULE CatalogProofs ---------------------------
(***************************************************************************)
(* Theorems about Catalog, for every tree of files: what a directory lists *)
(* names it as its parent, no file but those a failed rename left out is   *)
(* lost, and which file a search finds.                                    *)
(***************************************************************************)
EXTENDS Catalog, FiniteSetTheorems, SequenceTheorems, WellFoundedInduction, TLAPS

Folders == Ids \cup {Root}

TypeOK ==
  /\ live \subseteq Ids
  /\ name \in [Ids -> Seq(Parts)]
  /\ parent \in [Ids -> Folders]
  /\ entries \in [Folders -> Seq(Ids)]
  /\ retyped \in BOOLEAN
  /\ orphans \subseteq Ids

(* What is listed anywhere is a file of the image, in one place; a free    *)
(* inode lists nothing.                                                    *)
Listings ==
  /\ \A d \in Folders : \A f \in ToSet(entries[d]) : f \in live /\ parent[f] = d
  /\ \A d \in Ids \ live : ToSet(entries[d]) = {}

(* No directory is inside itself: of any files there is one that none of   *)
(* them lists.                                                             *)
NoCircle ==
  \A S \in SUBSET Ids : S # {} => \E f \in S : \A d \in S : f \notin ToSet(entries[d])

(* A file that no rename left out is in its directory, which is one.       *)
AllListed ==
  /\ orphans \subseteq live
  /\ \A d \in Folders : ToSet(entries[d]) \cap orphans = {}
  /\ \A f \in live \ orphans : /\ parent[f] \in live \cup {Root} /\ IsDir(parent[f])
                               /\ f \in ToSet(entries[parent[f]])

Inductive == TypeOK /\ Listings /\ NoCircle /\ (retyped \/ AllListed)

(***************************************************************************)
(* Trees.                                                                  *)
(***************************************************************************)

(* Beneath, of given listings and directories.                             *)
Closed(listing, dirs, d, S) ==
  listing[d] \subseteq S /\ \A c \in S : c \in dirs => listing[c] \subseteq S

Reach(listing, dirs, d) ==
  {f \in Ids : \A S \in SUBSET Ids : Closed(listing, dirs, d, S) => f \in S}

Contents == [d \in Folders |-> ToSet(entries[d])]
Dirs == {d \in Folders : IsDir(d)}

Listing == [Folders -> SUBSET Ids]

LEMMA BeneathIs ==
  ASSUME NEW d \in Folders
  PROVE  Beneath(d) = Reach(Contents, Dirs, d)
<1>1. ASSUME NEW S \in SUBSET Ids
      PROVE  ToSet(entries[d]) \cup UNION {ToSet(entries[c]) : c \in {c \in S : IsDir(c)}} \subseteq S
               <=> Closed(Contents, Dirs, d, S)
  <2>1. Contents[d] = ToSet(entries[d]) /\ \A c \in S : Contents[c] = ToSet(entries[c])
    BY DEF Contents, Folders
  <2>2. \A c \in S : c \in Dirs <=> IsDir(c)
    BY DEF Dirs, Folders
  <2> HIDE DEF Contents, Dirs
  <2> QED BY <2>1, <2>2 DEF Closed
<1> QED BY <1>1 DEF Beneath, Reach

LEMMA ReachStarts ==
  ASSUME NEW listing \in Listing, NEW dirs, NEW d \in Folders
  PROVE  listing[d] \subseteq Reach(listing, dirs, d)
BY DEF Reach, Closed, Listing

LEMMA ReachGoes ==
  ASSUME NEW listing \in Listing, NEW dirs, NEW d \in Folders,
         NEW c \in Reach(listing, dirs, d), c \in dirs
  PROVE  listing[c] \subseteq Reach(listing, dirs, d)
<1>1. c \in Folders
  BY DEF Reach, Folders
<1> QED BY <1>1 DEF Reach, Closed, Listing

LEMMA ReachLeast ==
  ASSUME NEW listing, NEW dirs, NEW d, NEW S \in SUBSET Ids, Closed(listing, dirs, d, S)
  PROVE  Reach(listing, dirs, d) \subseteq S
BY DEF Reach

LEMMA ReachWithin ==
  ASSUME NEW listing \in Listing, NEW dirs, NEW d \in Folders,
         NEW c \in Reach(listing, dirs, d), c \in dirs
  PROVE  Reach(listing, dirs, c) \subseteq Reach(listing, dirs, d)
<1>1. \A x \in Reach(listing, dirs, d) :
        x \in dirs => listing[x] \subseteq Reach(listing, dirs, d)
  BY ReachGoes
<1>2. Reach(listing, dirs, d) \in SUBSET Ids
  BY DEF Reach
<1>3. Closed(listing, dirs, c, Reach(listing, dirs, d))
  BY <1>1 DEF Closed
<1> QED BY <1>2, <1>3, ReachLeast

(* What is reached is listed on the way.                                   *)
LEMMA ReachListed ==
  ASSUME NEW listing \in Listing, NEW dirs, NEW d \in Folders, NEW f \in Reach(listing, dirs, d)
  PROVE  \E c \in Folders : /\ c = d \/ (c \in Reach(listing, dirs, d) /\ c \in dirs)
                            /\ f \in listing[c]
<1> DEFINE R == Reach(listing, dirs, d)
           S == {x \in R : \E c \in Folders : (c = d \/ (c \in R /\ c \in dirs)) /\ x \in listing[c]}
<1>1. R \subseteq Ids
  BY DEF Reach
<1>2. listing[d] \subseteq R /\ \A c \in R : c \in dirs => listing[c] \subseteq R
  BY ReachStarts, ReachGoes
<1> HIDE DEF R
<1>3. Closed(listing, dirs, d, S)
  <2>1. listing[d] \subseteq S
    BY <1>2
  <2>2. ASSUME NEW c \in S, c \in dirs PROVE listing[c] \subseteq S
    <3>1. c \in R /\ c \in Folders
      BY <1>1 DEF Folders
    <3> QED BY <1>2, <2>2, <3>1
  <2> QED BY <2>1, <2>2 DEF Closed
<1>4. S \in SUBSET Ids
  BY <1>1
<1> HIDE DEF S
<1>5. R \subseteq S
  BY <1>3, <1>4, ReachLeast DEF R
<1> QED BY <1>5 DEF R, S

LEMMA NotInside ==
  ASSUME NEW listing \in Listing, NEW dirs, NEW c \in Ids,
         \A S \in SUBSET Ids : S # {} => \E f \in S : \A d \in S : f \notin listing[d]
  PROVE  c \notin Reach(listing, dirs, c)
<1> SUFFICES ASSUME c \in Reach(listing, dirs, c) PROVE FALSE
  OBVIOUS
<1>1. Reach(listing, dirs, c) \in SUBSET Ids /\ c \in Folders
  BY DEF Reach, Folders
<1>2. PICK f \in Reach(listing, dirs, c) : \A d \in Reach(listing, dirs, c) : f \notin listing[d]
  BY <1>1
<1> QED BY <1>1, <1>2, ReachListed

(* A file in two trees has one of their roots in the other tree.           *)
LEMMA Nested ==
  ASSUME NEW listing \in Listing, NEW dirs, NEW a \in Folders, NEW b \in Folders,
         \A c, d \in Folders : listing[c] \cap listing[d] # {} => c = d,
         NEW f, f \in Reach(listing, dirs, a), f \in Reach(listing, dirs, b), a # b
  PROVE  a \in Reach(listing, dirs, b) \/ b \in Reach(listing, dirs, a)
<1> SUFFICES ASSUME a \notin Reach(listing, dirs, b), b \notin Reach(listing, dirs, a) PROVE FALSE
  OBVIOUS
<1> DEFINE A == Reach(listing, dirs, a)
           B == Reach(listing, dirs, b)
           S == A \ B
<1>1. A \in SUBSET Ids /\ a \notin B /\ b \notin A /\ f \in A /\ f \in B
  BY DEF Reach
<1>2. listing[a] \subseteq A /\ \A c \in A : c \in dirs => listing[c] \subseteq A
  BY ReachStarts, ReachGoes
<1>3. \A x \in B : \E c \in Folders : (c = b \/ c \in B) /\ x \in listing[c]
  BY ReachListed
<1> HIDE DEF A, B
<1>4. \A c, d \in Folders : \A x : x \in listing[c] /\ x \in listing[d] => c = d
  OBVIOUS
<1>5. ASSUME NEW c \in Folders, c = a \/ c \in A, c \notin B, NEW x \in listing[c] PROVE x \notin B
  <2> SUFFICES ASSUME x \in B PROVE FALSE
    OBVIOUS
  <2>1. PICK d \in Folders : (d = b \/ d \in B) /\ x \in listing[d]
    BY <1>3
  <2>2. c = d
    BY <1>4, <2>1
  <2> QED BY <1>1, <1>5, <2>1, <2>2
<1>6. Closed(listing, dirs, a, S)
  <2>1. listing[a] \subseteq S
    BY <1>1, <1>2, <1>5
  <2>2. ASSUME NEW c \in S, c \in dirs PROVE listing[c] \subseteq S
    <3>1. c \in A /\ c \notin B /\ c \in Folders
      BY <1>1 DEF Folders
    <3> QED BY <1>2, <1>5, <2>2, <3>1
  <2> QED BY <2>1, <2>2 DEF Closed
<1>7. S \in SUBSET Ids
  BY <1>1
<1>8. A \subseteq S
  <2> HIDE DEF S
  <2> QED BY <1>6, <1>7, ReachLeast DEF A
<1> QED BY <1>1, <1>8

(***************************************************************************)
(* Listings.                                                               *)
(***************************************************************************)

LEMMA LeastNat ==
  ASSUME NEW T \in SUBSET Nat, T # {}
  PROVE  \E n \in T : \A m \in T : n <= m
<1>1. PICK n \in T : \A m \in T : <<m, n>> \notin OpToRel(<, Nat)
  BY WFMin, NatLessThanWellFounded
<1>2. \A m \in T : ~(m < n)
  BY <1>1 DEF OpToRel
<1> QED BY <1>2

(* What follows from one index to the next holds at all of them.           *)
LEMMA Upwards ==
  ASSUME NEW n \in Nat, NEW Good, 0 \in Good, \A k \in 1 .. n : k - 1 \in Good => k \in Good
  PROVE  \A k \in 0 .. n : k \in Good
<1> SUFFICES ASSUME NEW k \in 0 .. n, k \notin Good PROVE FALSE
  OBVIOUS
<1> DEFINE T == {j \in 0 .. n : j \notin Good}
<1>1. T \in SUBSET Nat /\ T # {}
  OBVIOUS
<1>2. PICK j \in T : \A m \in T : j <= m
  BY <1>1, LeastNat
<1>3. j \in 1 .. n /\ j - 1 \notin T /\ j - 1 \in 0 .. n
  BY <1>2
<1> QED BY <1>2, <1>3

(* A function defined from one index to the next, by a step that is itself *)
(* a function.                                                             *)
Stepped(step, first, n, g) ==
  g = [k \in 0 .. n |-> IF k = 0 THEN first ELSE step[k][g[k - 1]]]

LEMMA StepsExist ==
  ASSUME NEW step, NEW first, NEW n \in Nat
  PROVE  \E g : Stepped(step, first, n, g)
<1> DEFINE Good == {m \in Nat : \E g : Stepped(step, first, m, g)}
<1>1. 0 \in Good
  <2> DEFINE g == [k \in 0 .. 0 |-> first]
  <2>1. Stepped(step, first, 0, g)
    BY DEF Stepped
  <2> HIDE DEF g
  <2> QED BY <2>1
<1>2. ASSUME NEW m \in 1 .. n, m - 1 \in Good PROVE m \in Good
  <2>1. PICK g : Stepped(step, first, m - 1, g)
    BY <1>2
  <2> DEFINE h == [k \in 0 .. m |-> IF k = m THEN step[m][g[m - 1]] ELSE g[k]]
  <2>2. \A k \in 0 .. m - 1 : g[k] = IF k = 0 THEN first ELSE step[k][g[k - 1]]
    BY <2>1 DEF Stepped
  <2>3. ASSUME NEW k \in 0 .. m
        PROVE  h[k] = IF k = 0 THEN first ELSE step[k][h[k - 1]]
    <3>1. k # 0 => k - 1 \in 0 .. m - 1 /\ h[k - 1] = g[k - 1]
      OBVIOUS
    <3>2. k # m => h[k] = g[k] /\ k \in 0 .. m - 1
      OBVIOUS
    <3>3. k = m => h[k] = step[k][g[k - 1]] /\ k # 0
      OBVIOUS
    <3> QED BY <3>1, <3>2, <3>3, <2>2
  <2>4. Stepped(step, first, m, h)
    <3> HIDE DEF h
    <3>1. h = [k \in 0 .. m |-> h[k]]
      BY DEF h
    <3> QED BY <2>3, <3>1 DEF Stepped
  <2> HIDE DEF h
  <2> QED BY <2>4
<1> HIDE DEF Good
<1>3. n \in Good
  BY <1>1, <1>2, Upwards
<1> QED BY <1>3 DEF Good

LEMMA SetOf ==
  ASSUME NEW list \in Seq(Ids), NEW n \in Nat, n = Len(list)
  PROVE  \A x : x \in ToSet(list) <=> \E k \in 1 .. n : list[k] = x
BY DEF ToSet

LEMMA SetOfAppended ==
  ASSUME NEW list \in Seq(Ids), NEW f \in Ids
  PROVE  ToSet(Append(list, f)) = ToSet(list) \cup {f}
<1>1. PICK n \in Nat : n = Len(list)
  OBVIOUS
<1>2. PICK new : new = Append(list, f)
  OBVIOUS
<1>3. /\ new \in Seq(Ids) /\ Len(new) = n + 1
      /\ \A k \in 1 .. n : new[k] = list[k] /\ k \in 1 .. n + 1
      /\ n + 1 \in 1 .. n + 1 /\ new[n + 1] = f
      /\ \A k \in 1 .. n + 1 : k = n + 1 \/ k \in 1 .. n
  BY <1>1, <1>2
<1>4. \A x : x \in ToSet(new) <=> \E k \in 1 .. n + 1 : new[k] = x
  BY <1>3, SetOf
<1>5. \A x : x \in ToSet(list) <=> \E k \in 1 .. n : list[k] = x
  BY <1>1, SetOf
<1>6. \A x : x \in ToSet(new) <=> x \in ToSet(list) \/ x = f
  BY <1>3, <1>4, <1>5
<1> QED BY <1>2, <1>6

LEMMA SetOfNone == ToSet(<<>>) = {}
BY DEF ToSet

LEMMA WithoutIs ==
  ASSUME NEW list \in Seq(Ids), NEW gone
  PROVE  Without(list, gone) \in Seq(Ids) /\ ToSet(Without(list, gone)) = ToSet(list) \ gone
<1>1. PICK n \in Nat : n = Len(list)
  OBVIOUS
<1> DEFINE Body(g) == [k \in 0 .. Len(list) |->
                         IF k = 0 THEN <<>>
                         ELSE IF list[k] \in gone THEN g[k - 1] ELSE Append(g[k - 1], list[k])]
           kept == CHOOSE g : g = Body(g)
           step == [k \in 1 .. n |->
                      [s \in Seq(Ids) |-> IF list[k] \in gone THEN s ELSE Append(s, list[k])]]
<1>2. Without(list, gone) = kept[n]
  BY <1>1 DEF Without
<1>3. PICK g : Stepped(step, <<>>, n, g)
  <2> HIDE DEF step
  <2> QED BY StepsExist
<1>s. \A k \in 1 .. n : \A t \in Seq(Ids) :
        step[k][t] = IF list[k] \in gone THEN t ELSE Append(t, list[k])
  OBVIOUS
<1> HIDE DEF step
<1> DEFINE Upto(k) == {list[j] : j \in 1 .. k}
           Good == {k \in 0 .. n : g[k] \in Seq(Ids)}
<1>4. g[0] = <<>> /\ \A k \in 1 .. n : g[k] = step[k][g[k - 1]]
  BY <1>3 DEF Stepped
<1>5. \A k \in 0 .. n : g[k] \in Seq(Ids)
  <2>1. 0 \in Good
    <3>1. <<>> \in Seq(Ids) /\ 0 \in 0 .. n
      OBVIOUS
    <3> QED BY <1>4, <3>1
  <2>2. ASSUME NEW k \in 1 .. n, k - 1 \in Good PROVE k \in Good
    <3>1. PICK x \in Ids, t \in Seq(Ids) : x = list[k] /\ t = g[k - 1]
      BY <1>1, <2>2
    <3>2. g[k] = IF x \in gone THEN t ELSE Append(t, x)
      BY <1>4, <1>s, <3>1
    <3>3. Append(t, x) \in Seq(Ids) /\ k \in 0 .. n
      OBVIOUS
    <3>4. g[k] \in Seq(Ids)
      BY <3>2, <3>3
    <3> QED BY <3>3, <3>4
  <2> HIDE DEF Good
  <2>3. \A k \in 0 .. n : k \in Good
    BY <2>1, <2>2, Upwards
  <2> QED BY <2>3 DEF Good
<1>6. g = Body(g)
  <2>1. \A k \in 0 .. n : (IF k = 0 THEN <<>> ELSE step[k][g[k - 1]])
          = IF k = 0 THEN <<>>
            ELSE IF list[k] \in gone THEN g[k - 1] ELSE Append(g[k - 1], list[k])
    <3> TAKE k \in 0 .. n
    <3>1. CASE k = 0
      BY <3>1
    <3>2. CASE k # 0
      <4>1. k \in 1 .. n /\ k - 1 \in 0 .. n
        BY <3>2
      <4>2. g[k - 1] \in Seq(Ids)
        BY <1>5, <4>1
      <4> QED BY <1>s, <3>2, <4>1, <4>2
    <3> QED BY <3>1, <3>2
  <2> QED BY <1>1, <1>3, <2>1 DEF Stepped
<1>7. kept = Body(kept)
  <2> HIDE DEF Body
  <2> QED BY <1>6
<1>8. \A k \in 0 .. n : kept[k] = IF k = 0 THEN <<>>
                                  ELSE IF list[k] \in gone THEN kept[k - 1]
                                  ELSE Append(kept[k - 1], list[k])
  <2> HIDE DEF kept
  <2> QED BY <1>1, <1>7
<1> HIDE DEF kept, Good, Body
<1> DEFINE Fine == {k \in 0 .. n : kept[k] \in Seq(Ids) /\ ToSet(kept[k]) = Upto(k) \ gone}
<1>9. 0 \in Fine
  <2>1. kept[0] = <<>>
    BY <1>8
  <2>2. Upto(0) = {}
    OBVIOUS
  <2> HIDE DEF Upto, kept
  <2>3. <<>> \in Seq(Ids) /\ 0 \in 0 .. n
    OBVIOUS
  <2>4. ToSet(<<>>) = Upto(0) \ gone
    BY <2>2, SetOfNone
  <2>5. kept[0] \in Seq(Ids) /\ ToSet(kept[0]) = Upto(0) \ gone
    BY <2>1, <2>3, <2>4
  <2> QED BY <2>3, <2>5
<1>10. ASSUME NEW k \in 1 .. n, k - 1 \in Fine PROVE k \in Fine
  <2>1. PICK x \in Ids, t \in Seq(Ids) :
          x = list[k] /\ t = kept[k - 1] /\ ToSet(t) = Upto(k - 1) \ gone
    BY <1>1, <1>10
  <2>2. Upto(k) = Upto(k - 1) \cup {x}
    <3>1. \A j \in 1 .. k : j = k \/ j \in 1 .. k - 1
      OBVIOUS
    <3>2. \A j \in 1 .. k - 1 : j \in 1 .. k
      OBVIOUS
    <3>3. k \in 1 .. k
      OBVIOUS
    <3> QED BY <2>1, <3>1, <3>2, <3>3
  <2> HIDE DEF Upto
  <2>3. k \in 0 .. n /\ k # 0
    OBVIOUS
  <2>4. kept[k] = IF x \in gone THEN t ELSE Append(t, x)
    BY <1>8, <2>1, <2>3
  <2>5. Append(t, x) \in Seq(Ids) /\ ToSet(Append(t, x)) = ToSet(t) \cup {x}
    BY SetOfAppended
  <2>6. kept[k] \in Seq(Ids) /\ ToSet(kept[k]) = Upto(k) \ gone
    <3>1. CASE x \in gone
      BY <2>1, <2>2, <2>4, <3>1
    <3>2. CASE x \notin gone
      BY <2>1, <2>2, <2>4, <2>5, <3>2
    <3> QED BY <3>1, <3>2
  <2> QED BY <2>3, <2>6
<1>11. n \in Fine
  <2> HIDE DEF Fine
  <2>1. \A k \in 0 .. n : k \in Fine
    BY <1>9, <1>10, Upwards
  <2> QED BY <2>1
<1>12. Upto(n) = ToSet(list)
  BY <1>1 DEF ToSet
<1> QED BY <1>2, <1>11, <1>12

LEMMA InsertAtIs ==
  ASSUME NEW list \in Seq(Ids), NEW f \in Ids, NEW i \in 1 .. Len(list) + 1
  PROVE  InsertAt(list, i, f) \in Seq(Ids) /\ ToSet(InsertAt(list, i, f)) = ToSet(list) \cup {f}
<1>1. PICK n \in Nat : n = Len(list)
  OBVIOUS
<1>2. InsertAt(list, i, f) = SubSeq(list, 1, i - 1) \o <<f>> \o SubSeq(list, i, n)
  BY <1>1 DEF InsertAt
<1>3. PICK a, b : a = SubSeq(list, 1, i - 1) /\ b = SubSeq(list, i, n)
  OBVIOUS
<1>4. /\ a \in Seq(Ids) /\ Len(a) = i - 1 /\ \A k \in 1 .. i - 1 : a[k] = list[k]
  BY <1>1, <1>3
<1>5. /\ b \in Seq(Ids) /\ Len(b) = n + 1 - i /\ \A k \in 1 .. n + 1 - i : b[k] = list[k + i - 1]
  BY <1>1, <1>3
<1>6. PICK new : new = InsertAt(list, i, f)
  OBVIOUS
<1>7. new = a \o <<f>> \o b
  BY <1>2, <1>3, <1>6
<1>8. /\ new \in Seq(Ids) /\ Len(new) = n + 1
      /\ \A k \in 1 .. n + 1 : new[k] = IF k < i THEN list[k] ELSE IF k = i THEN f ELSE list[k - 1]
  <2>1. new \in Seq(Ids) /\ Len(new) = n + 1
    <3>a. i \in 1 .. n + 1
      BY <1>1
    <3>0. PICK la \in Nat, lb \in Nat : la = i - 1 /\ lb = n + 1 - i /\ la + 1 + lb = n + 1
      BY <3>a
    <3>1. <<f>> \in Seq(Ids) /\ Len(<<f>>) = 1
      OBVIOUS
    <3>2. a \o <<f>> \in Seq(Ids) /\ Len(a \o <<f>>) = la + 1
      BY <1>4, <3>0, <3>1
    <3>3. PICK af \in Seq(Ids) : af = a \o <<f>>
      BY <3>2
    <3>4. Len(af) = la + 1
      BY <3>2, <3>3
    <3>5. b \in Seq(Ids) /\ Len(b) = lb
      BY <1>5, <3>0
    <3>6. af \o b \in Seq(Ids) /\ Len(af \o b) = Len(af) + Len(b)
      BY <3>5
    <3>7. new = af \o b
      BY <1>7, <3>3
    <3>8. Len(new) = Len(af) + Len(b) /\ new \in Seq(Ids)
      BY <3>6, <3>7
    <3> QED BY <3>0, <3>4, <3>5, <3>8
  <2>2. ASSUME NEW k \in 1 .. n + 1
        PROVE  new[k] = IF k < i THEN a[k] ELSE IF k = i THEN f ELSE b[k - i]
    BY <1>4, <1>5, <1>7
  <2>3. ASSUME NEW k \in 1 .. n + 1
        PROVE  new[k] = IF k < i THEN list[k] ELSE IF k = i THEN f ELSE list[k - 1]
    <3>1. CASE k < i
      BY <1>4, <2>2, <3>1
    <3>2. CASE k = i
      BY <2>2, <3>2
    <3>3. CASE k > i
      <4>1. k - i \in 1 .. n + 1 - i /\ k - i + i - 1 = k - 1
        BY <1>1, <3>3
      <4>2. b[k - i] = list[k - i + i - 1]
        BY <1>5, <4>1
      <4> QED BY <2>2, <3>3, <4>1, <4>2
    <3> QED BY <3>1, <3>2, <3>3
  <2> QED BY <2>1, <2>3
<1>9. \A x : x \in ToSet(new) <=> \E k \in 1 .. n + 1 : new[k] = x
  BY <1>8, SetOf
<1>10. \A x : x \in ToSet(list) <=> \E k \in 1 .. n : list[k] = x
  BY <1>1, SetOf
<1>11. ASSUME NEW k \in 1 .. n + 1 PROVE new[k] = f \/ \E j \in 1 .. n : list[j] = new[k]
  <2>1. k < i => k \in 1 .. n
    BY <1>1
  <2>2. k > i => k - 1 \in 1 .. n
    BY <1>1
  <2> QED BY <1>8, <2>1, <2>2
<1>12. ASSUME NEW k \in 1 .. n PROVE \E j \in 1 .. n + 1 : new[j] = list[k]
  <2>1. CASE k < i
    BY <1>8, <2>1
  <2>2. CASE k >= i
    <3>1. k + 1 \in 1 .. n + 1 /\ ~(k + 1 < i) /\ k + 1 # i /\ k + 1 - 1 = k
      BY <1>1, <2>2
    <3> QED BY <1>8, <3>1
  <2> QED BY <2>1, <2>2
<1>13. i \in 1 .. n + 1 /\ new[i] = f
  BY <1>1, <1>8
<1>14. \A x : x \in ToSet(new) <=> x \in ToSet(list) \/ x = f
  BY <1>9, <1>10, <1>11, <1>12, <1>13
<1> QED BY <1>6, <1>8, <1>14

(***************************************************************************)
(* Search.                                                                 *)
(***************************************************************************)

Hits == Ids \cup {NoFile}

LoopOver(d, n, deeper, h) ==
  h = [j \in 0 .. Len(entries[d]) |->
         [sofar \in Hits |->
            IF j = 0 THEN sofar
            ELSE Visit(entries[d][Len(entries[d]) - j + 1], n, sofar, deeper, h[j - 1])]]

OneTurn(d, n, deeper, j, rest) ==
  [sofar \in Hits |->
     Visit(entries[d][Len(entries[d]) - j + 1], n, sofar, deeper, rest)]

LEMMA LoopExists ==
  ASSUME NEW d, NEW n, NEW deeper, NEW len \in Nat, len = Len(entries[d])
  PROVE  \E h : LoopOver(d, n, deeper, h)
<1> DEFINE Value(h, k) ==
             IF k = 0 THEN [sofar \in Hits |-> sofar] ELSE OneTurn(d, n, deeper, k, h[k - 1])
           Good == {m \in Nat : \E h : h = [k \in 0 .. m |-> Value(h, k)]}
<1> HIDE DEF Value
<1>0. \A h1, h2, k : (k # 0 => h1[k - 1] = h2[k - 1]) => Value(h1, k) = Value(h2, k)
  <2> SUFFICES ASSUME NEW h1, NEW h2, NEW k, k # 0 => h1[k - 1] = h2[k - 1]
               PROVE  Value(h1, k) = Value(h2, k)
    OBVIOUS
  <2>1. CASE k = 0
    BY <2>1 DEF Value
  <2>2. CASE k # 0
    <3>1. Value(h1, k) = OneTurn(d, n, deeper, k, h1[k - 1])
      BY <2>2 DEF Value
    <3>2. Value(h2, k) = OneTurn(d, n, deeper, k, h2[k - 1])
      BY <2>2 DEF Value
    <3>3. h1[k - 1] = h2[k - 1]
      BY <2>2
    <3> QED BY <3>1, <3>2, <3>3
  <2> QED BY <2>1, <2>2
<1>1. 0 \in Good
  <2>1. PICK h : h = [k \in 0 .. 0 |-> Value(<<>>, k)]
    OBVIOUS
  <2>2. \A k \in 0 .. 0 : Value(<<>>, k) = Value(h, k)
    BY <1>0
  <2>3. h = [k \in 0 .. 0 |-> Value(h, k)]
    BY <2>1, <2>2
  <2> QED BY <2>3
<1>2. ASSUME NEW m \in 1 .. len, m - 1 \in Good PROVE m \in Good
  <2>1. PICK g : g = [k \in 0 .. m - 1 |-> Value(g, k)]
    BY <1>2
  <2>2. PICK h : h = [k \in 0 .. m |-> IF k = m THEN Value(g, m) ELSE g[k]]
    OBVIOUS
  <2>3. ASSUME NEW k \in 0 .. m PROVE h[k] = Value(h, k)
    <3>1. k # 0 => k - 1 \in 0 .. m - 1 /\ h[k - 1] = g[k - 1]
      BY <2>2
    <3>2. Value(g, k) = Value(h, k)
      BY <1>0, <3>1
    <3>3. k # m => h[k] = g[k] /\ k \in 0 .. m - 1
      BY <2>2
    <3>4. k = m => h[k] = Value(g, k)
      BY <2>2
    <3>5. k # m => h[k] = Value(g, k)
      BY <2>1, <3>3
    <3> QED BY <3>2, <3>4, <3>5
  <2>4. h = [k \in 0 .. m |-> Value(h, k)]
    <3>1. h = [k \in 0 .. m |-> h[k]]
      BY <2>2
    <3> QED BY <2>3, <3>1
  <2> QED BY <2>4
<1> HIDE DEF Good
<1>3. len \in Good
  <2>1. \A k \in 0 .. len : k \in Good
    BY <1>1, <1>2, Upwards
  <2> QED BY <2>1
<1>4. PICK h : h = [k \in 0 .. len |-> Value(h, k)]
  BY <1>3 DEF Good
<1>5. \A k \in 0 .. len :
        Value(h, k) = [sofar \in Hits |->
                         IF k = 0 THEN sofar
                         ELSE Visit(entries[d][Len(entries[d]) - k + 1], n, sofar, deeper, h[k - 1])]
  BY DEF Value, OneTurn
<1>6. LoopOver(d, n, deeper, h)
  BY <1>4, <1>5 DEF LoopOver
<1> QED BY <1>6

LEMMA TraverseLoops ==
  ASSUME NEW d, NEW n, NEW deeper, NEW len \in Nat, len = Len(entries[d])
  PROVE  \E h : LoopOver(d, n, deeper, h) /\ Traverse(d, n, deeper) = h[len]
<1> DEFINE Body(h) == [j \in 0 .. Len(entries[d]) |->
                         [sofar \in Ids \cup {NoFile} |->
                            IF j = 0 THEN sofar
                            ELSE Visit(entries[d][Len(entries[d]) - j + 1], n, sofar, deeper,
                                       h[j - 1])]]
           loop == CHOOSE h : h = Body(h)
<1>1. Traverse(d, n, deeper) = loop[len]
  BY DEF Traverse
<1>2. \A h : LoopOver(d, n, deeper, h) <=> h = Body(h)
  BY DEF LoopOver, Hits
<1>3. loop = Body(loop)
  <2>1. \E h : h = Body(h)
    BY <1>2, LoopExists
  <2> HIDE DEF Body
  <2> QED BY <2>1
<1> HIDE DEF loop, Body
<1> QED BY <1>1, <1>2, <1>3

Level(n, deeper) == [d \in Ids \cup {Root} |-> Traverse(d, n, deeper)]

Searches(n, m, g) == g = [k \in 0 .. m |-> IF k = 0 THEN <<>> ELSE Level(n, g[k - 1])]

LEMMA SearchesExist ==
  ASSUME NEW n, NEW m \in Nat
  PROVE  \E g : Searches(n, m, g)
<1> DEFINE Good == {l \in Nat : \E g : Searches(n, l, g)}
<1>1. 0 \in Good
  <2>1. PICK g : g = [k \in 0 .. 0 |-> <<>>]
    OBVIOUS
  <2>2. Searches(n, 0, g)
    BY <2>1 DEF Searches
  <2> QED BY <2>2
<1>2. ASSUME NEW l \in 1 .. m, l - 1 \in Good PROVE l \in Good
  <2>1. PICK g : Searches(n, l - 1, g)
    BY <1>2
  <2>2. PICK h : h = [k \in 0 .. l |-> IF k = l THEN Level(n, g[l - 1]) ELSE g[k]]
    OBVIOUS
  <2>3. \A k \in 0 .. l - 1 : g[k] = IF k = 0 THEN <<>> ELSE Level(n, g[k - 1])
    BY <2>1 DEF Searches
  <2>4. ASSUME NEW k \in 0 .. l PROVE h[k] = IF k = 0 THEN <<>> ELSE Level(n, h[k - 1])
    <3>1. k # 0 => k - 1 \in 0 .. l - 1 /\ h[k - 1] = g[k - 1]
      BY <2>2
    <3>2. k # l => h[k] = g[k] /\ k \in 0 .. l - 1
      BY <2>2
    <3>3. k = l => h[k] = Level(n, g[k - 1]) /\ k # 0
      BY <2>2
    <3> QED BY <2>3, <3>1, <3>2, <3>3
  <2>5. Searches(n, l, h)
    <3>1. h = [k \in 0 .. l |-> h[k]]
      BY <2>2
    <3> QED BY <2>4, <3>1 DEF Searches
  <2> QED BY <2>5
<1> HIDE DEF Good
<1>3. m \in Good
  BY <1>1, <1>2, Upwards
<1> QED BY <1>3 DEF Good

LEMMA FindSearches ==
  ASSUME NEW n, NEW m \in Nat, m = Cardinality(Ids) + 1
  PROVE  \E g : Searches(n, m, g) /\ Find(n) = g[m][Root][NoFile]
<1> DEFINE Body(g) == [k \in 0 .. Cardinality(Ids) + 1 |->
                         IF k = 0 THEN <<>>
                         ELSE [d \in Ids \cup {Root} |-> Traverse(d, n, g[k - 1])]]
           search == CHOOSE g : g = Body(g)
<1>1. Find(n) = search[m][Root][NoFile]
  BY DEF Find
<1>2. \A g : Searches(n, m, g) <=> g = Body(g)
  BY DEF Searches, Level
<1>3. search = Body(search)
  <2>1. \E g : g = Body(g)
    BY <1>2, SearchesExist
  <2> HIDE DEF Body
  <2> QED BY <2>1
<1> HIDE DEF search, Body
<1> QED BY <1>1, <1>2, <1>3

(* What is said of an answer: if nothing matches it is what was found      *)
(* before, else it is a match, and not hidden under a directory that lists *)
(* a match itself.                                                         *)
Matches(n) == {f \in Ids : Shown(name[f]) = n}
Reached(d) == Reach(Contents, Dirs, d)

Nearest(d, n, r) ==
  \A e \in Folders :
    /\ e = d \/ (e \in Reached(d) /\ e \in Dirs)
    /\ r \in Reached(e) /\ e # parent[r]
    => Contents[e] \cap Matches(n) = {}

Answer(d, n, s, r) ==
  \/ r = s /\ Reached(d) \cap Matches(n) = {}
  \/ r \in Reached(d) /\ r \in Matches(n) /\ Nearest(d, n, r)

(* The same of what the loop over the entries T finds.                     *)
Halfway(T, n, s, r) ==
  \/ /\ r = s
     /\ T \cap Matches(n) = {}
     /\ \A c \in T : c \in Dirs => Reached(c) \cap Matches(n) = {}
  \/ r \in T /\ r \in Matches(n)
  \/ /\ T \cap Matches(n) = {}
     /\ \E c \in T : c \in Dirs /\ r \in Reached(c) /\ r \in Matches(n) /\ Nearest(c, n, r)

LEMMA LoopAnswers ==
  ASSUME NEW d \in Folders, NEW n, NEW deeper, NEW h,
         NEW len \in Nat, len = Len(entries[d]), entries[d] \in Seq(Ids),
         LoopOver(d, n, deeper, h),
         \A c \in ToSet(entries[d]) : c \in Dirs =>
           \A s \in Hits : deeper[c][s] \in Hits /\ Answer(c, n, s, deeper[c][s])
  PROVE  \A s \in Hits :
           h[len][s] \in Hits /\ Halfway(ToSet(entries[d]), n, s, h[len][s])
<1> DEFINE T(j) == {entries[d][i] : i \in len - j + 1 .. len}
           Good == {j \in 0 .. len : \A s \in Hits :
                      h[j][s] \in Hits /\ Halfway(T(j), n, s, h[j][s])}
<1>1. /\ h[0] = [s \in Hits |-> s]
      /\ \A j \in 1 .. len : \A s \in Hits :
           h[j][s] = Visit(entries[d][len - j + 1], n, s, deeper, h[j - 1])
  <2>1. \A j \in 0 .. len : h[j] = [s \in Hits |->
            IF j = 0 THEN s ELSE Visit(entries[d][len - j + 1], n, s, deeper, h[j - 1])]
    BY DEF LoopOver
  <2>2. 0 \in 0 .. len /\ \A j \in 1 .. len : j \in 0 .. len /\ j # 0
    OBVIOUS
  <2>3. h[0] = [s \in Hits |-> s]
    BY <2>1, <2>2
  <2>4. ASSUME NEW j \in 1 .. len, NEW s \in Hits
        PROVE  h[j][s] = Visit(entries[d][len - j + 1], n, s, deeper, h[j - 1])
    <3>1. h[j] = [t \in Hits |-> IF j = 0 THEN t
                                 ELSE Visit(entries[d][len - j + 1], n, t, deeper, h[j - 1])]
      BY <2>1, <2>2
    <3>2. j # 0
      BY <2>2
    <3> QED BY <3>1, <3>2
  <2> QED BY <2>3, <2>4
<1>2. 0 \in Good
  <2>1. T(0) = {} /\ 0 \in 0 .. len
    OBVIOUS
  <2> HIDE DEF T
  <2>2. \A s \in Hits : h[0][s] = s
    BY <1>1
  <2> QED BY <2>1, <2>2 DEF Halfway
<1>3. ASSUME NEW j \in 1 .. len, j - 1 \in Good PROVE j \in Good
  <2>0. len - j + 1 \in 1 .. len
    OBVIOUS
  <2>1. PICK i \in 1 .. len : i = len - j + 1
    BY <2>0
  <2>2. PICK c \in Ids : c = entries[d][i]
    OBVIOUS
  <2>3. c \in ToSet(entries[d]) /\ c \in Folders
    BY <2>2 DEF ToSet, Folders
  <2>4. PICK before, now : before = T(j - 1) /\ now = T(j)
    OBVIOUS
  <2>5. now = before \cup {c}
    <3>1. \A k : k \in i .. len <=> k = i \/ k \in i + 1 .. len
      OBVIOUS
    <3>2. len - j + 1 = i /\ len - (j - 1) + 1 = i + 1
      BY <2>1
    <3>3. now = {entries[d][k] : k \in i .. len} /\ before = {entries[d][k] : k \in i + 1 .. len}
      BY <2>4, <3>2
    <3> QED BY <2>2, <3>1, <3>3
  <2> HIDE DEF T
  <2>6. PICK rest : rest = h[j - 1]
    OBVIOUS
  <2>7. \A s \in Hits : rest[s] \in Hits /\ Halfway(before, n, s, rest[s])
    BY <1>3, <2>4, <2>6
  <2>8. ASSUME NEW s \in Hits PROVE h[j][s] \in Hits /\ Halfway(now, n, s, h[j][s])
    <3>1. PICK r : r = h[j][s]
      OBVIOUS
    <3>2. r = Visit(c, n, s, deeper, rest)
      BY <1>1, <2>1, <2>2, <2>6, <3>1
    <3>3. IsDir(c) <=> c \in Dirs
      BY <2>3 DEF Dirs
    <3>4. Shown(name[c]) = n <=> c \in Matches(n)
      BY DEF Matches
    <3>5. CASE c \in Matches(n)
      <4>1. r = c
        BY <3>2, <3>4, <3>5 DEF Visit
      <4> QED BY <2>5, <3>1, <3>5, <4>1 DEF Halfway, Hits
    <3>6. CASE c \notin Matches(n) /\ c \notin Dirs
      <4>1. r = rest[s]
        BY <3>2, <3>3, <3>4, <3>6 DEF Visit
      <4>2. r \in Hits /\ Halfway(before, n, s, r)
        BY <2>7, <4>1
      <4>3. Halfway(now, n, s, r)
        BY <2>5, <3>6, <4>2 DEF Halfway
      <4> QED BY <3>1, <4>2, <4>3
    <3>7. CASE c \notin Matches(n) /\ c \in Dirs
      <4>1. PICK t : t = deeper[c][s]
        OBVIOUS
      <4>2. t \in Hits /\ Answer(c, n, s, t)
        BY <2>3, <3>7, <4>1
      <4>3. r = rest[t]
        BY <3>2, <3>3, <3>4, <3>7, <4>1 DEF Visit
      <4>4. r \in Hits /\ Halfway(before, n, t, r)
        BY <2>7, <4>2, <4>3
      <4>5. Halfway(now, n, s, r)
        <5>1. now \cap Matches(n) = before \cap Matches(n)
          BY <2>5, <3>7
        <5>2. c \in now /\ before \subseteq now
          BY <2>5
        <5>3. CASE r = t /\ before \cap Matches(n) = {}
                   /\ \A x \in before : x \in Dirs => Reached(x) \cap Matches(n) = {}
          <6>1. CASE t = s /\ Reached(c) \cap Matches(n) = {}
            <7>1. \A x \in now : x \in Dirs => Reached(x) \cap Matches(n) = {}
              BY <2>5, <5>3, <6>1
            <7> QED BY <5>1, <5>3, <6>1, <7>1 DEF Halfway
          <6>2. CASE t \in Reached(c) /\ t \in Matches(n) /\ Nearest(c, n, t)
            BY <3>7, <5>1, <5>2, <5>3, <6>2 DEF Halfway
          <6> QED BY <4>2, <6>1, <6>2 DEF Answer
        <5>4. CASE r \in before /\ r \in Matches(n)
          BY <5>2, <5>4 DEF Halfway
        <5>5. CASE /\ before \cap Matches(n) = {}
                   /\ \E x \in before : x \in Dirs /\ r \in Reached(x) /\ r \in Matches(n)
                                        /\ Nearest(x, n, r)
          BY <5>1, <5>2, <5>5 DEF Halfway
        <5> QED BY <4>4, <5>3, <5>4, <5>5 DEF Halfway
      <4> QED BY <3>1, <4>4, <4>5
    <3> QED BY <3>5, <3>6, <3>7
  <2>9. j \in 0 .. len
    OBVIOUS
  <2> QED BY <2>4, <2>8, <2>9
<1>4. len \in Good
  <2> HIDE DEF Good
  <2>1. \A j \in 0 .. len : j \in Good
    BY <1>2, <1>3, Upwards
  <2>2. len \in 0 .. len
    OBVIOUS
  <2> QED BY <2>1, <2>2
<1>5. T(len) = ToSet(entries[d])
  <2>1. len - len + 1 = 1
    OBVIOUS
  <2> QED BY <2>1 DEF ToSet
<1> HIDE DEF T
<1> QED BY <1>4, <1>5

LEMMA ReachParts ==
  ASSUME NEW listing \in Listing, NEW dirs, NEW d \in Folders, NEW f \in Reach(listing, dirs, d)
  PROVE  f \in listing[d] \/ \E c \in listing[d] : c \in dirs /\ f \in Reach(listing, dirs, c)
<1> DEFINE S == {x \in Ids : \/ x \in listing[d]
                             \/ \E c \in listing[d] : c \in dirs /\ x \in Reach(listing, dirs, c)}
<1>1. listing[d] \subseteq Ids
  BY DEF Listing
<1>2. ASSUME NEW x \in S, x \in dirs PROVE listing[x] \subseteq S
  <2>1. x \in Folders
    BY DEF Folders
  <2>2. listing[x] \subseteq Ids
    BY <2>1 DEF Listing
  <2>3. CASE x \in listing[d]
    <3>1. listing[x] \subseteq Reach(listing, dirs, x)
      BY <2>1, ReachStarts
    <3> QED BY <1>2, <2>2, <2>3, <3>1
  <2>4. CASE x \notin listing[d]
    <3>1. PICK c \in listing[d] : c \in dirs /\ x \in Reach(listing, dirs, c)
      BY <2>4
    <3>2. c \in Folders
      BY <1>1 DEF Folders
    <3>3. listing[x] \subseteq Reach(listing, dirs, c)
      BY <1>2, <3>1, <3>2, ReachGoes
    <3> QED BY <2>2, <3>1, <3>3
  <2> QED BY <2>3, <2>4
<1>3. listing[d] \subseteq S
  BY <1>1
<1>4. S \in SUBSET Ids
  OBVIOUS
<1>5. Closed(listing, dirs, d, S)
  BY <1>2, <1>3 DEF Closed
<1>6. Reach(listing, dirs, d) \subseteq S
  <2> HIDE DEF S
  <2> QED BY <1>4, <1>5, ReachLeast
<1> QED BY <1>6

(* The tree, in the terms of the lemmas about trees.                       *)
Tree(listing, up) ==
  /\ listing \in Listing
  /\ \A d \in Folders : \A f \in listing[d] : up[f] = d
  /\ \A S \in SUBSET Ids : S # {} => \E f \in S : \A d \in S : f \notin listing[d]

LEMMA TreeNow ==
  ASSUME TypeOK, Listings, NoCircle
  PROVE  Tree(Contents, parent)
<1>1. \A d \in Folders : Contents[d] = ToSet(entries[d]) /\ entries[d] \in Seq(Ids)
  BY DEF Contents, TypeOK
<1>2. \A d \in Folders : ToSet(entries[d]) \subseteq Ids
  <2> TAKE d \in Folders
  <2>1. entries[d] \in Seq(Ids)
    BY <1>1
  <2> QED BY <2>1 DEF ToSet
<1>3. Contents \in Listing
  BY <1>2 DEF Contents, Listing
<1>4. \A d \in Folders : \A f \in Contents[d] : parent[f] = d
  BY <1>1 DEF Listings
<1>5. ASSUME NEW S \in SUBSET Ids, S # {} PROVE \E f \in S : \A d \in S : f \notin Contents[d]
  <2>1. PICK f \in S : \A d \in S : f \notin ToSet(entries[d])
    BY <1>5 DEF NoCircle
  <2>2. \A d \in S : d \in Folders
    BY DEF Folders
  <2> QED BY <1>1, <2>1, <2>2
<1> QED BY <1>3, <1>4, <1>5 DEF Tree

LEMMA TreeFacts ==
  ASSUME NEW listing, NEW up, Tree(listing, up)
  PROVE  /\ listing \in Listing
         /\ \A d \in Folders : listing[d] \subseteq Ids
         /\ \A d \in Folders : \A f \in listing[d] : up[f] = d
         /\ \A c, d \in Folders : listing[c] \cap listing[d] # {} => c = d
         /\ \A dirs : \A c \in Ids : c \notin Reach(listing, dirs, c)
<1>1. listing \in Listing
  BY DEF Tree
<1>2. \A d \in Folders : \A f \in listing[d] : up[f] = d
  BY DEF Tree
<1>3. \A S \in SUBSET Ids : S # {} => \E f \in S : \A d \in S : f \notin listing[d]
  BY DEF Tree
<1>4. \A d \in Folders : listing[d] \subseteq Ids
  BY <1>1 DEF Listing
<1>5. \A c, d \in Folders : listing[c] \cap listing[d] # {} => c = d
  BY <1>2
<1>6. \A dirs : \A c \in Ids : c \notin Reach(listing, dirs, c)
  BY <1>1, <1>3, NotInside
<1> QED BY <1>1, <1>2, <1>4, <1>5, <1>6

LEMMA AnswerOfLoop ==
  ASSUME Tree(Contents, parent), NEW d \in Folders, NEW n, NEW s, NEW r,
         Halfway(Contents[d], n, s, r)
  PROVE  Answer(d, n, s, r)
<1>1. /\ Contents \in Listing
      /\ \A c \in Folders : Contents[c] \subseteq Ids
      /\ \A c \in Folders : \A f \in Contents[c] : parent[f] = c
      /\ \A c, e \in Folders : Contents[c] \cap Contents[e] # {} => c = e
      /\ \A c \in Ids : c \notin Reach(Contents, Dirs, c)
  BY TreeFacts
<1> HIDE DEF Contents, Dirs
<1>2. \A c \in Folders : Contents[c] \subseteq Reached(c)
  BY <1>1, ReachStarts DEF Reached
<1>3. \A c \in Folders : \A f \in Reached(c) : f \in Dirs => Reached(f) \subseteq Reached(c)
  BY <1>1, ReachWithin DEF Reached
<1>4. \A c \in Folders : \A f \in Reached(c) :
        f \in Contents[c] \/ \E x \in Contents[c] : x \in Dirs /\ f \in Reached(x)
  BY <1>1, ReachParts DEF Reached
<1>5. \A c \in Folders : \A f \in Reached(c) : f \in Ids /\ f \in Folders
  BY DEF Reached, Reach, Folders
<1>6. \A c \in Folders : c \notin Reached(c)
  <2>1. Root \notin Ids
    BY CatalogAssumption
  <2>2. \A c \in Ids : c \notin Reached(c)
    BY <1>1 DEF Reached
  <2> QED BY <1>5, <2>1, <2>2 DEF Folders
<1>7. \A c \in Folders : \A f \in Reached(c) :
        \E e \in Folders : (e = c \/ (e \in Reached(c) /\ e \in Dirs)) /\ f \in Contents[e]
  BY <1>1, ReachListed DEF Reached
(* What is listed in d is below no other directory beneath d.              *)
<1>8. ASSUME NEW f \in Contents[d], NEW e \in Reached(d), e \in Dirs, f \in Reached(e)
      PROVE  FALSE
  <2>1. e \in Folders
    BY <1>5
  <2>2. PICK x \in Folders : (x = e \/ (x \in Reached(e) /\ x \in Dirs)) /\ f \in Contents[x]
    BY <1>7, <1>8, <2>1
  <2>3. x = d
    BY <1>1, <2>2
  <2>4. d \in Reached(d)
    BY <1>3, <1>8, <2>2, <2>3
  <2> QED BY <1>6, <2>4
<1>9. CASE /\ r = s
           /\ Contents[d] \cap Matches(n) = {}
           /\ \A c \in Contents[d] : c \in Dirs => Reached(c) \cap Matches(n) = {}
  BY <1>4, <1>9 DEF Answer
<1>10. CASE r \in Contents[d] /\ r \in Matches(n)
  <2>1. r \in Reached(d) /\ parent[r] = d
    BY <1>1, <1>2, <1>10
  <2>2. Nearest(d, n, r)
    BY <1>8, <1>10, <2>1 DEF Nearest
  <2> QED BY <1>10, <2>1, <2>2 DEF Answer
<1>11. CASE /\ Contents[d] \cap Matches(n) = {}
            /\ \E c \in Contents[d] : c \in Dirs /\ r \in Reached(c) /\ r \in Matches(n)
                                      /\ Nearest(c, n, r)
  <2>1. PICK c \in Contents[d] : c \in Dirs /\ r \in Reached(c) /\ r \in Matches(n)
                                 /\ Nearest(c, n, r)
    BY <1>11
  <2>2. c \in Reached(d) /\ c \in Folders
    BY <1>2, <1>5
  <2>3. r \in Reached(d)
    BY <1>3, <2>1, <2>2
  <2>4. ASSUME NEW e \in Folders, e \in Reached(d), e \in Dirs, r \in Reached(e)
        PROVE  e = c \/ e \in Reached(c)
    <3>1. CASE c # e
      <4>1. c \in Reached(e) \/ e \in Reached(c)
        BY <1>1, <2>1, <2>2, <2>4, <3>1, Nested DEF Reached
      <4>2. c \notin Reached(e)
        BY <1>8, <2>4
      <4> QED BY <4>1, <4>2
    <3> QED BY <3>1
  <2>5. Nearest(d, n, r)
    BY <1>11, <2>1, <2>4 DEF Nearest
  <2> QED BY <2>1, <2>3, <2>5 DEF Answer
<1> QED BY <1>9, <1>10, <1>11 DEF Halfway

(* The search of one directory finds what is beneath it if the searches of *)
(* fewer files, which it builds on, do.                                    *)
LEMMA SearchesAnswer ==
  ASSUME TypeOK, Tree(Contents, parent), NEW n, NEW m \in Nat, NEW g, Searches(n, m, g)
  PROVE  \A k \in 0 .. m : \A d \in Folders : \A s \in Hits :
           Cardinality(Reached(d)) < k => g[k][d][s] \in Hits /\ Answer(d, n, s, g[k][d][s])
<1>1. /\ Contents \in Listing
      /\ \A c \in Folders : Contents[c] \subseteq Ids
      /\ \A c \in Ids : c \notin Reach(Contents, Dirs, c)
  BY TreeFacts
<1> DEFINE Good == {k \in 0 .. m : \A d \in Folders : \A s \in Hits :
                      Cardinality(Reached(d)) < k =>
                        g[k][d][s] \in Hits /\ Answer(d, n, s, g[k][d][s])}
<1>2. \A d \in Folders : IsFiniteSet(Reached(d)) /\ Cardinality(Reached(d)) \in Nat
  <2> TAKE d \in Folders
  <2>1. Reached(d) \in SUBSET Ids /\ IsFiniteSet(Ids)
    BY CatalogAssumption DEF Reached, Reach
  <2>2. IsFiniteSet(Reached(d))
    BY <2>1, FS_Subset
  <2> QED BY <2>2, FS_CardinalityType
<1>3. 0 \in Good
  <2>1. 0 \in 0 .. m
    OBVIOUS
  <2>2. \A d \in Folders : ~(Cardinality(Reached(d)) < 0)
    BY <1>2
  <2> QED BY <2>1, <2>2
<1>4. ASSUME NEW k \in 1 .. m, k - 1 \in Good PROVE k \in Good
  <2>1. k \in 0 .. m /\ k # 0
    OBVIOUS
  <2>2. PICK deeper : deeper = g[k - 1]
    OBVIOUS
  <2>3. g[k] = Level(n, deeper)
    BY <2>1, <2>2 DEF Searches
  <2>4. ASSUME NEW d \in Folders, Cardinality(Reached(d)) < k
        PROVE  \A s \in Hits : g[k][d][s] \in Hits /\ Answer(d, n, s, g[k][d][s])
    <3>1. g[k][d] = Traverse(d, n, deeper)
      BY <2>3 DEF Level, Folders
    <3>2. entries[d] \in Seq(Ids)
      BY DEF TypeOK
    <3>3. PICK len \in Nat : len = Len(entries[d])
      BY <3>2
    <3>4. PICK h : LoopOver(d, n, deeper, h) /\ Traverse(d, n, deeper) = h[len]
      BY <3>3, TraverseLoops
    <3>5. Contents[d] = ToSet(entries[d])
      BY DEF Contents
    <3>6. ASSUME NEW c \in ToSet(entries[d]), c \in Dirs
          PROVE  \A s \in Hits : deeper[c][s] \in Hits /\ Answer(c, n, s, deeper[c][s])
      <4>1. c \in Contents[d] /\ c \in Ids /\ c \in Folders
        BY <1>1, <3>5 DEF Folders
      <4>2. c \in Reached(d) /\ Reached(c) \subseteq Reached(d) /\ c \notin Reached(c)
        <5>1. c \in Reach(Contents, Dirs, d)
          BY <1>1, <4>1, ReachStarts
        <5>2. Reach(Contents, Dirs, c) \subseteq Reach(Contents, Dirs, d)
          BY <1>1, <3>6, <4>1, <5>1, ReachWithin
        <5> QED BY <1>1, <4>1, <5>1, <5>2 DEF Reached
      <4>3. Cardinality(Reached(c)) < Cardinality(Reached(d))
        <5>1. Reached(c) \in SUBSET Reached(d) /\ Reached(c) # Reached(d)
          BY <4>2
        <5>2. IsFiniteSet(Reached(d))
          BY <1>2
        <5>3. Cardinality(Reached(c)) <= Cardinality(Reached(d))
              /\ Cardinality(Reached(c)) # Cardinality(Reached(d))
          BY <5>1, <5>2, FS_Subset
        <5>4. Cardinality(Reached(c)) \in Nat /\ Cardinality(Reached(d)) \in Nat
          BY <1>2, <4>1
        <5> QED BY <5>3, <5>4
      <4>4. Cardinality(Reached(c)) < k - 1
        <5>1. Cardinality(Reached(c)) \in Nat /\ Cardinality(Reached(d)) \in Nat
          BY <1>2, <4>1
        <5> QED BY <2>4, <4>3, <5>1
      <4> QED BY <1>4, <2>2, <4>1, <4>4
    <3>7. \A s \in Hits : h[len][s] \in Hits /\ Halfway(ToSet(entries[d]), n, s, h[len][s])
      BY <3>2, <3>3, <3>4, <3>6, LoopAnswers
    <3>8. \A s \in Hits : Answer(d, n, s, h[len][s])
      BY <3>5, <3>7, AnswerOfLoop
    <3> QED BY <3>1, <3>4, <3>7, <3>8
  <2> QED BY <2>1, <2>4
<1> HIDE DEF Good
<1>5. \A k \in 0 .. m : k \in Good
  BY <1>3, <1>4, Upwards
<1> QED BY <1>5 DEF Good

(* What a search through the image finds.                                  *)
LEMMA FindAnswers ==
  ASSUME TypeOK, Listings, NoCircle, NEW n
  PROVE  Find(n) \in Hits /\ Answer(Root, n, NoFile, Find(n))
<1>1. Tree(Contents, parent)
  BY TreeNow
<1>2. IsFiniteSet(Ids) /\ Cardinality(Ids) \in Nat
  BY CatalogAssumption, FS_CardinalityType
<1>3. PICK m \in Nat : m = Cardinality(Ids) + 1
  BY <1>2
<1>4. PICK g : Searches(n, m, g) /\ Find(n) = g[m][Root][NoFile]
  BY <1>3, FindSearches
<1>5. Reached(Root) \in SUBSET Ids
  BY DEF Reached, Reach
<1>6. Cardinality(Reached(Root)) <= Cardinality(Ids) /\ Cardinality(Reached(Root)) \in Nat
  BY <1>2, <1>5, FS_Subset, FS_CardinalityType
<1>7. Cardinality(Reached(Root)) < m
  BY <1>2, <1>3, <1>6
<1>8. Root \in Folders /\ NoFile \in Hits /\ m \in 0 .. m
  BY DEF Folders, Hits
<1> QED BY <1>1, <1>4, <1>7, <1>8, SearchesAnswer

LEMMA SearchHolds ==
  ASSUME TypeOK, Listings, NoCircle
  PROVE  SearchComplete /\ NearestOnPath
<1>1. Tree(Contents, parent)
  BY TreeNow
<1>2. Root \in Folders /\ Root \notin Ids /\ NoFile \notin Ids
  BY CatalogAssumption DEF Folders, NoFile
<1>3. \A d \in Folders : Beneath(d) = Reached(d)
  BY BeneathIs DEF Reached
<1>4. SearchComplete
  <2> SUFFICES ASSUME NEW n \in ShownNames
               PROVE  LET hits == {f \in Beneath(Root) : Shown(name[f]) = n}
                      IN  IF hits = {} THEN Find(n) = NoFile ELSE Find(n) \in hits
    BY DEF SearchComplete
  <2> DEFINE hits == {f \in Beneath(Root) : Shown(name[f]) = n}
  <2>1. hits = Reached(Root) \cap Matches(n)
    <3>1. Reached(Root) \subseteq Ids
      BY DEF Reached, Reach
    <3> QED BY <1>2, <1>3, <3>1 DEF Matches
  <2>2. Answer(Root, n, NoFile, Find(n))
    BY FindAnswers
  <2> HIDE DEF hits
  <2>3. IF hits = {} THEN Find(n) = NoFile ELSE Find(n) \in hits
    BY <2>1, <2>2 DEF Answer
  <2> QED BY <2>3 DEF hits
<1>5. NearestOnPath
  <2> SUFFICES ASSUME NEW n \in ShownNames, Find(n) # NoFile,
                      NEW d \in {Root} \cup {f \in live : IsDir(f)},
                      Find(n) \in Beneath(d), d # parent[Find(n)],
                      NEW f \in ToSet(entries[d]), Shown(name[f]) = n
               PROVE  FALSE
    BY DEF NearestOnPath
  <2>1. PICK r : r = Find(n)
    OBVIOUS
  <2>2. r \in Reached(Root) /\ Nearest(Root, n, r)
    <3>1. Answer(Root, n, NoFile, Find(n)) /\ Find(n) # NoFile
      BY FindAnswers
    <3> QED BY <2>1, <3>1 DEF Answer
  <2>3. d \in Folders /\ d \in Dirs
    BY DEF Folders, Dirs, TypeOK, IsDir
  <2>4. r \in Reached(d)
    BY <1>3, <2>1, <2>3
  <2>5. /\ Contents \in Listing
        /\ \A c, e \in Folders : Contents[c] \cap Contents[e] # {} => c = e
        /\ \A c \in Folders : Contents[c] \subseteq Ids
    BY <1>1, TreeFacts
  <2>6. d = Root \/ d \in Reached(Root)
    <3>1. CASE d # Root
      <4>1. Root \in Reached(d) \/ d \in Reached(Root)
        BY <1>2, <2>2, <2>3, <2>4, <2>5, <3>1, Nested DEF Reached
      <4>2. Root \notin Reached(d)
        BY <1>2 DEF Reached, Reach
      <4> QED BY <4>1, <4>2
    <3> QED BY <3>1
  <2>7. Contents[d] \cap Matches(n) = {}
    BY <2>1, <2>2, <2>3, <2>4, <2>6 DEF Nearest
  <2>8. f \in Contents[d]
    BY <2>3 DEF Contents
  <2>9. f \in Matches(n)
    BY <2>3, <2>5, <2>8 DEF Matches
  <2> QED BY <2>7, <2>8, <2>9
<1> QED BY <1>4, <1>5

(***************************************************************************)
(* Names.                                                                  *)
(***************************************************************************)

(* Where the parts of a name begin.                                        *)
LEMMA StartIs ==
  ASSUME NEW n, NEW i \in Nat \ {0}, \A k \in 1 .. i : n[k].len \in Nat
  PROVE  \E start : /\ start[1] = 0
                    /\ \A k \in 1 .. i : start[k] \in Nat
                    /\ \A k \in 2 .. i : start[k] = start[k - 1] + n[k - 1].len + 1
                    /\ StartOf(n, i) = start[i]
<1> DEFINE Body(f) == [k \in 1 .. i |-> IF k = 1 THEN 0 ELSE f[k - 1] + n[k - 1].len + 1]
           start == CHOOSE f : f = Body(f)
           step == [k \in 1 .. i - 1 |-> [x \in Nat |-> x + n[k].len + 1]]
<1>1. StartOf(n, i) = start[i]
  BY DEF StartOf
<1>2. PICK g : Stepped(step, 0, i - 1, g)
  <2> HIDE DEF step
  <2> QED BY StepsExist
<1>3. \A k \in 1 .. i - 1 : \A x \in Nat : step[k][x] = x + n[k].len + 1
  OBVIOUS
<1> HIDE DEF step
<1>4. g[0] = 0 /\ \A k \in 1 .. i - 1 : g[k] = step[k][g[k - 1]]
  BY <1>2 DEF Stepped
<1> DEFINE Good == {k \in 0 .. i - 1 : g[k] \in Nat}
<1>5. 0 \in Good
  BY <1>4
<1>6. ASSUME NEW k \in 1 .. i - 1, k - 1 \in Good PROVE k \in Good
  <2>1. PICK x \in Nat : x = g[k - 1]
    BY <1>6
  <2>2. g[k] = x + n[k].len + 1
    BY <1>3, <1>4, <2>1
  <2>3. n[k].len \in Nat /\ k \in 0 .. i - 1
    OBVIOUS
  <2>4. g[k] \in Nat
    BY <2>2, <2>3
  <2> QED BY <2>3, <2>4
<1>7. \A k \in 0 .. i - 1 : g[k] \in Nat
  <2> HIDE DEF Good
  <2>1. i - 1 \in Nat
    OBVIOUS
  <2>2. \A k \in 0 .. i - 1 : k \in Good
    BY <1>5, <1>6, <2>1, Upwards
  <2> QED BY <2>2 DEF Good
<1>8. PICK f : f = [k \in 1 .. i |-> g[k - 1]]
  OBVIOUS
<1>9. f = Body(f)
  <2>1. ASSUME NEW k \in 1 .. i
        PROVE  g[k - 1] = IF k = 1 THEN 0 ELSE f[k - 1] + n[k - 1].len + 1
    <3>1. CASE k = 1
      BY <1>4, <3>1
    <3>2. CASE k # 1
      <4>1. k - 1 \in 1 .. i - 1 /\ k - 1 \in 1 .. i /\ k - 1 - 1 \in 0 .. i - 1
        BY <3>2
      <4>2. PICK x \in Nat : x = g[k - 1 - 1]
        BY <1>7, <4>1
      <4>3. f[k - 1] = x
        BY <1>8, <4>1, <4>2
      <4>4. g[k - 1] = x + n[k - 1].len + 1
        BY <1>3, <1>4, <4>1, <4>2
      <4> QED BY <3>2, <4>3, <4>4
    <3> QED BY <3>1, <3>2
  <2> QED BY <1>8, <2>1
<1>10. start = Body(start)
  <2> HIDE DEF Body
  <2> QED BY <1>9
<1> HIDE DEF start, Good
<1>11. \A k \in 1 .. i : start[k] = IF k = 1 THEN 0 ELSE start[k - 1] + n[k - 1].len + 1
  <2> DEFINE b == Body(start)
  <2>1. \A k \in 1 .. i : b[k] = IF k = 1 THEN 0 ELSE start[k - 1] + n[k - 1].len + 1
    OBVIOUS
  <2> HIDE DEF b
  <2>2. start = b
    BY <1>10 DEF b
  <2> QED BY <2>1, <2>2
<1> HIDE DEF Body
<1>12. start[1] = 0
  BY <1>11
<1>13. \A k \in 2 .. i : start[k] = start[k - 1] + n[k - 1].len + 1
  BY <1>11
<1> DEFINE Fine == {k \in 0 .. i - 1 : start[k + 1] \in Nat}
<1>14. 0 \in Fine
  BY <1>12
<1>15. ASSUME NEW k \in 1 .. i - 1, k - 1 \in Fine PROVE k \in Fine
  <2>1. k + 1 \in 2 .. i /\ k + 1 - 1 = k /\ k - 1 + 1 = k /\ k \in 1 .. i /\ k \in 0 .. i - 1
    OBVIOUS
  <2>2. PICK x \in Nat : x = start[k]
    BY <1>15, <2>1
  <2>3. start[k + 1] = x + n[k].len + 1
    BY <1>13, <2>1, <2>2
  <2>4. n[k].len \in Nat
    BY <2>1
  <2>5. start[k + 1] \in Nat
    BY <2>3, <2>4
  <2> QED BY <2>1, <2>5
<1>16. \A k \in 1 .. i : start[k] \in Nat
  <2> HIDE DEF Fine
  <2>1. i - 1 \in Nat
    OBVIOUS
  <2>2. \A k \in 0 .. i - 1 : k \in Fine
    BY <1>14, <1>15, <2>1, Upwards
  <2>3. ASSUME NEW k \in 1 .. i PROVE start[k] \in Nat
    <3>1. k - 1 \in 0 .. i - 1 /\ k - 1 + 1 = k
      OBVIOUS
    <3>2. k - 1 \in Fine
      BY <2>2, <3>1
    <3> QED BY <3>1, <3>2 DEF Fine
  <2> QED BY <2>3
<1> QED BY <1>1, <1>12, <1>13, <1>16

LEMMA StartIsNat ==
  ASSUME NEW n, NEW i \in Nat \ {0}, \A k \in 1 .. i : n[k].len \in Nat
  PROVE  StartOf(n, i) \in Nat
<1>1. i \in 1 .. i
  OBVIOUS
<1> QED BY <1>1, StartIs

(* A name of three parts.                                                  *)
LEMMA ThreeParts ==
  ASSUME NEW n, Len(n) = 3, n[1].len \in Nat, n[2].len \in Nat, n[3].len \in Nat
  PROVE  /\ StartOf(n, 1) = 0
         /\ StartOf(n, 2) = n[1].len + 1
         /\ StartOf(n, 3) = n[1].len + n[2].len + 2
         /\ NameLength(n) = n[1].len + n[2].len + n[3].len + 2
<1> PICK a \in Nat, b \in Nat, c \in Nat : n[1].len = a /\ n[2].len = b /\ n[3].len = c
  OBVIOUS
<1>0. \A k \in 1 .. 3 : n[k].len \in Nat
  <2>1. \A k \in 1 .. 3 : k = 1 \/ k = 2 \/ k = 3
    OBVIOUS
  <2> QED BY <2>1
<1>1. StartOf(n, 1) = 0
  <2>1. \A k \in 1 .. 1 : n[k].len \in Nat
    OBVIOUS
  <2> QED BY <2>1, StartIs
<1>2. StartOf(n, 2) = a + 1
  <2>1. \A k \in 1 .. 2 : n[k].len \in Nat
    BY <1>0
  <2>2. PICK start : /\ start[1] = 0
                     /\ \A k \in 2 .. 2 : start[k] = start[k - 1] + n[k - 1].len + 1
                     /\ StartOf(n, 2) = start[2]
    BY <2>1, StartIs
  <2>3. start[2] = start[2 - 1] + n[2 - 1].len + 1
    BY <2>2
  <2> QED BY <2>2, <2>3
<1>3. StartOf(n, 3) = a + b + 2
  <2>2. PICK start : /\ start[1] = 0
                     /\ \A k \in 2 .. 3 : start[k] = start[k - 1] + n[k - 1].len + 1
                     /\ StartOf(n, 3) = start[3]
    BY <1>0, StartIs
  <2>3. start[2] = start[2 - 1] + n[2 - 1].len + 1 /\ start[3] = start[3 - 1] + n[3 - 1].len + 1
    BY <2>2
  <2>4. start[2] = a + 1
    BY <2>2, <2>3
  <2>5. start[3] = start[2] + b + 1
    BY <2>3
  <2> QED BY <2>2, <2>4, <2>5
<1>4. NameLength(n) = a + b + c + 2
  <2>1. NameLength(n) = StartOf(n, 3) + c
    BY DEF NameLength
  <2> QED BY <1>3, <2>1
<1> QED BY <1>1, <1>2, <1>3, <1>4

LEMMA ClipIs ==
  ASSUME NEW p \in Parts, NEW l \in Int
  PROVE  Clip(p, l) \in Parts
<1>1. Empty \in Parts
  BY NamesAssumption
<1>2. CASE l <= 0
  BY <1>1, <1>2 DEF Clip
<1>3. CASE l > 0
  <2>1. p.len \in Nat /\ p.text \in DOMAIN Folded /\ p \in [text : DOMAIN Folded, len : Nat]
    BY DEF Parts
  <2>2. CASE p.len <= l
    BY <1>3, <2>2 DEF Clip
  <2>3. CASE ~(p.len <= l)
    <3>1. Clip(p, l) = [p EXCEPT !.len = l]
      BY <1>3, <2>3 DEF Clip
    <3>2. [p EXCEPT !.len = l] \in [text : DOMAIN Folded, len : Nat] /\ [p EXCEPT !.len = l].len = l
      BY <1>3, <2>1
    <3> QED BY <1>3, <3>1, <3>2 DEF Parts
  <2> QED BY <2>2, <2>3
<1> QED BY <1>2, <1>3

LEMMA CutIs ==
  ASSUME NEW n \in Seq(Parts), NEW l \in Int
  PROVE  Cut(n, l) \in Seq(Parts)
<1>1. PICK len \in Nat : len = Len(n)
  OBVIOUS
<1>2. \A i \in 1 .. len : n[i] \in Parts
  BY <1>1
<1> DEFINE kept == {i \in 1 .. len : StartOf(n, i) <= l}
<1>3. kept \in SUBSET (1 .. len)
  OBVIOUS
<1> HIDE DEF kept
<1>4. PICK c \in Nat : c = Cardinality(kept) /\ c <= len
  <2>1. IsFiniteSet(1 .. len) /\ Cardinality(1 .. len) = len
    BY FS_Interval
  <2>2. IsFiniteSet(kept) /\ Cardinality(kept) <= len
    BY <1>3, <2>1, FS_Subset
  <2>3. Cardinality(kept) \in Nat
    BY <2>2, FS_CardinalityType
  <2> QED BY <2>2, <2>3
<1>5. Cut(n, l) = [i \in 1 .. c |-> Clip(n[i], l - StartOf(n, i))]
  BY <1>1, <1>4 DEF Cut, kept
<1>6. ASSUME NEW i \in 1 .. c PROVE Clip(n[i], l - StartOf(n, i)) \in Parts
  <2>1. i \in 1 .. len /\ i \in Nat \ {0}
    BY <1>4
  <2>2. \A k \in 1 .. i : n[k].len \in Nat
    <3>1. \A k \in 1 .. i : k \in 1 .. len
      BY <2>1
    <3> QED BY <1>2, <3>1 DEF Parts
  <2>3. StartOf(n, i) \in Nat
    BY <2>1, <2>2, StartIsNat
  <2>4. l - StartOf(n, i) \in Int
    BY <2>3
  <2> QED BY <1>2, <2>1, <2>4, ClipIs
<1> QED BY <1>5, <1>6

LEMMA OneIn ==
  ASSUME NEW S, NEW e \in S
  PROVE  <<e>> \in Seq(S) /\ Len(<<e>>) = 1 /\ <<e>>[1] = e
OBVIOUS

LEMMA TwoIn ==
  ASSUME NEW S, NEW d \in S, NEW e \in S
  PROVE  <<d, e>> \in Seq(S) /\ Len(<<d, e>>) = 2 /\ <<d, e>>[1] = d /\ <<d, e>>[2] = e
OBVIOUS

LEMMA ThreeIn ==
  ASSUME NEW S, NEW n \in Seq(S), Len(n) = 3
  PROVE  n[1] \in S /\ n[2] \in S /\ n[3] \in S
<1>1. \A i \in 1 .. Len(n) : n[i] \in S
  OBVIOUS
<1>2. 1 \in 1 .. Len(n) /\ 2 \in 1 .. Len(n) /\ 3 \in 1 .. Len(n)
  OBVIOUS
<1> QED BY <1>1, <1>2

LEMMA OneAndOne ==
  ASSUME NEW s \in Seq(Parts), NEW t \in Seq(Parts), Len(s) = 1, Len(t) = 1
  PROVE  /\ s \o t \in Seq(Parts) /\ Len(s \o t) = 2
         /\ (s \o t)[1] = s[1] /\ (s \o t)[2] = t[1]
<1>1. PICK u, l, m : u = s \o t /\ l = Len(s) /\ m = Len(t)
  OBVIOUS
<1>2. /\ u \in Seq(Parts) /\ Len(u) = l + m
      /\ \A i \in 1 .. l + m : u[i] = IF i <= l THEN s[i] ELSE t[i - l]
  BY <1>1, ConcatProperties
<1>3. l = 1 /\ m = 1
  BY <1>1
<1>4. l + m = 2 /\ 1 <= l /\ ~(2 <= l) /\ 2 - l = 1
  BY <1>3
<1>5. 1 \in 1 .. l + m /\ 2 \in 1 .. l + m
  BY <1>4
<1>6. u[1] = s[1]
  BY <1>2, <1>4, <1>5
<1>7. u[2] = t[1]
  BY <1>2, <1>4, <1>5
<1>8. Len(u) = 2
  BY <1>2, <1>4
<1> QED BY <1>1, <1>2, <1>6, <1>7, <1>8

LEMMA OneAndTwo ==
  ASSUME NEW s \in Seq(Parts), NEW t \in Seq(Parts), Len(s) = 1, Len(t) = 2
  PROVE  /\ s \o t \in Seq(Parts) /\ Len(s \o t) = 3
         /\ (s \o t)[1] = s[1] /\ (s \o t)[2] = t[1] /\ (s \o t)[3] = t[2]
<1>1. PICK u, l, m : u = s \o t /\ l = Len(s) /\ m = Len(t)
  OBVIOUS
<1>2. /\ u \in Seq(Parts) /\ Len(u) = l + m
      /\ \A i \in 1 .. l + m : u[i] = IF i <= l THEN s[i] ELSE t[i - l]
  BY <1>1, ConcatProperties
<1>3. l = 1 /\ m = 2
  BY <1>1
<1>4. l + m = 3 /\ 1 <= l /\ ~(2 <= l) /\ 2 - l = 1 /\ ~(3 <= l) /\ 3 - l = 2
  BY <1>3
<1>5. 1 \in 1 .. l + m /\ 2 \in 1 .. l + m /\ 3 \in 1 .. l + m
  BY <1>4
<1>6. u[1] = s[1]
  BY <1>2, <1>4, <1>5
<1>7. u[2] = t[1] /\ u[3] = t[2]
  BY <1>2, <1>4, <1>5
<1>8. Len(u) = 3
  BY <1>2, <1>4
<1> QED BY <1>1, <1>2, <1>6, <1>7, <1>8

LEMMA TwoAndOne ==
  ASSUME NEW s \in Seq(Parts), NEW t \in Seq(Parts), Len(s) = 2, Len(t) = 1
  PROVE  /\ s \o t \in Seq(Parts) /\ Len(s \o t) = 3
         /\ (s \o t)[1] = s[1] /\ (s \o t)[2] = s[2] /\ (s \o t)[3] = t[1]
<1>1. PICK u, l, m : u = s \o t /\ l = Len(s) /\ m = Len(t)
  OBVIOUS
<1>2. /\ u \in Seq(Parts) /\ Len(u) = l + m
      /\ \A i \in 1 .. l + m : u[i] = IF i <= l THEN s[i] ELSE t[i - l]
  BY <1>1, ConcatProperties
<1>3. l = 2 /\ m = 1
  BY <1>1
<1>4. l + m = 3 /\ 1 <= l /\ 2 <= l /\ ~(3 <= l) /\ 3 - l = 1
  BY <1>3
<1>5. 1 \in 1 .. l + m /\ 2 \in 1 .. l + m /\ 3 \in 1 .. l + m
  BY <1>4
<1>6. u[1] = s[1] /\ u[2] = s[2]
  BY <1>2, <1>4, <1>5
<1>7. u[3] = t[1]
  BY <1>2, <1>4, <1>5
<1>8. Len(u) = 3
  BY <1>2, <1>4
<1> QED BY <1>1, <1>2, <1>6, <1>7, <1>8

LEMMA NewNameIs ==
  ASSUME NEW old \in Seq(Parts), Parses(old), NEW base \in Seq(Parts), NEW type \in Seq(Parts)
  PROVE  NewName(old, base, type) \in Seq(Parts)
<1>0. Len(old) = 3
  BY DEF Parses
<1>1. PICK kind \in Seq(Parts) : kind = IF type = NoType THEN <<old[2]>> ELSE type
  <2>1. old[2] \in Parts
    BY <1>0, ThreeIn
  <2>2. <<old[2]>> \in Seq(Parts)
    BY <2>1, OneIn
  <2> QED BY <2>2
<1>2. Empty \in Parts
  BY NamesAssumption
<1>3. PICK whole \in Seq(Parts) : whole = base \o kind \o <<Empty>>
  <2>1. <<Empty>> \in Seq(Parts)
    BY <1>2, OneIn
  <2>2. base \o kind \in Seq(Parts)
    BY ConcatProperties
  <2>3. base \o kind \o <<Empty>> \in Seq(Parts)
    BY <2>1, <2>2, ConcatProperties
  <2> QED BY <2>3
<1>4. NewName(old, base, type) = Cut(whole, NameMax - 1)
  BY <1>1, <1>3 DEF NewName
<1>5. NameMax - 1 \in Int
  BY CatalogAssumption
<1> QED BY <1>4, <1>5, CutIs

LEMMA PartFacts ==
  ASSUME NEW p \in Parts
  PROVE  /\ p.len \in Nat /\ p.text \in DOMAIN Folded
         /\ p = [text |-> p.text, len |-> p.len]
         /\ p.len = 0 => p = Empty
BY DEF Parts

(* A name that fits is not cut.                                            *)
LEMMA CutFits ==
  ASSUME NEW n \in Seq(Parts), Len(n) = 3, NEW a \in Parts, NEW b \in Parts,
         n[1] = a, n[2] = b, n[3] = Empty,
         NEW l \in Nat, a.len + b.len + 2 <= l
  PROVE  Cut(n, l) = n
<1>1. Len(n) = 3 /\ n[1] = a /\ n[2] = b /\ n[3] = Empty
  OBVIOUS
<1>2. PICK la \in Nat, lb \in Nat : la = a.len /\ lb = b.len /\ la + lb + 2 <= l
  BY PartFacts
<1>3. Empty.len = 0
  BY DEF Empty
<1>4. StartOf(n, 1) = 0 /\ StartOf(n, 2) = la + 1 /\ StartOf(n, 3) = la + lb + 2
  <2>1. n[1].len = la /\ n[2].len = lb /\ n[3].len = 0
    BY <1>1, <1>2, <1>3
  <2> QED BY <1>1, <2>1, ThreeParts
<1>5. {i \in 1 .. Len(n) : StartOf(n, i) <= l} = 1 .. 3
  <2>1. \A i \in 1 .. 3 : i = 1 \/ i = 2 \/ i = 3
    OBVIOUS
  <2>2. \A i \in 1 .. 3 : StartOf(n, i) <= l
    BY <1>2, <1>4, <2>1
  <2> QED BY <1>1, <2>2
<1>6. Cardinality(1 .. 3) = 3
  <2>1. 1 \in Int /\ 3 \in Int /\ ~(1 > 3) /\ 3 - 1 + 1 = 3
    OBVIOUS
  <2>2. Cardinality(1 .. 3) = IF 1 > 3 THEN 0 ELSE 3 - 1 + 1
    BY <2>1, FS_Interval
  <2> QED BY <2>1, <2>2
<1>7. Cut(n, l) = [i \in 1 .. 3 |-> Clip(n[i], l - StartOf(n, i))]
  BY <1>5, <1>6 DEF Cut
<1>8. Clip(n[1], l - StartOf(n, 1)) = a
  <2>1. l - StartOf(n, 1) = l
    BY <1>4
  <2>2. ~(l <= 0) /\ a.len <= l
    BY <1>2
  <2> QED BY <1>1, <2>1, <2>2 DEF Clip
<1>9. Clip(n[2], l - StartOf(n, 2)) = b
  <2>1. l - StartOf(n, 2) = l - (la + 1)
    BY <1>4
  <2>2. ~(l - (la + 1) <= 0) /\ b.len <= l - (la + 1)
    BY <1>2
  <2> QED BY <1>1, <2>1, <2>2 DEF Clip
<1>10. Clip(n[3], l - StartOf(n, 3)) = Empty
  <2>1. l - StartOf(n, 3) = l - (la + lb + 2)
    BY <1>4
  <2>2. Empty.len <= l - (la + lb + 2)
    BY <1>2, <1>3
  <2> QED BY <1>1, <2>1, <2>2 DEF Clip
<1>11. \A i \in 1 .. 3 : Clip(n[i], l - StartOf(n, i)) = n[i]
  <2>1. \A i \in 1 .. 3 : i = 1 \/ i = 2 \/ i = 3
    OBVIOUS
  <2> QED BY <1>1, <1>8, <1>9, <1>10, <2>1
<1>12. Cut(n, l) = [i \in 1 .. 3 |-> n[i]]
  BY <1>7, <1>11
<1>13. n = [i \in 1 .. 3 |-> n[i]]
  <2>1. n \in [1 .. Len(n) -> Parts]
    BY LenProperties
  <2> QED BY <1>1, <2>1
<1> QED BY <1>12, <1>13

(* A directory renamed to a name without '~' that fits stays one.          *)
LEMMA StaysDirectory ==
  ASSUME NEW old \in Seq(Parts), DirName(old), NEW base \in BaseNames,
         NEW type \in Seq(Parts), ~MakesPlain(base, type)
  PROVE  DirName(NewName(old, base, type))
<1>1. /\ base \in Seq(Parts) /\ base # <<>> /\ Empty \in Parts /\ Subject \in Parts
      /\ NameMax \in Nat \ {0}
  BY NamesAssumption, CatalogAssumption
<1>2. Len(base) = 1
  <2>1. ~(Len(base) > 1)
    BY DEF MakesPlain
  <2>2. PICK l \in Nat : l = Len(base)
    BY <1>1
  <2>3. l # 0
    BY <1>1, <2>2, EmptySeq
  <2> QED BY <2>1, <2>2, <2>3
<1>3. PICK a \in Parts : a = base[1]
  <2>1. 1 \in 1 .. Len(base)
    BY <1>2
  <2> QED BY <1>1, <2>1
<1>4. PICK kind \in Seq(Parts), b \in Parts :
        /\ kind = IF type = NoType THEN <<old[2]>> ELSE type
        /\ Len(kind) = 1 /\ b = kind[1] /\ IsSubject(b)
  <2>1. CASE type = NoType
    <3>1. Len(old) = 3 /\ IsSubject(old[2])
      BY DEF DirName, Parses
    <3>2. old[2] \in Parts
      BY <3>1, ThreeIn
    <3>3. <<old[2]>> \in Seq(Parts) /\ Len(<<old[2]>>) = 1 /\ <<old[2]>>[1] = old[2]
      BY <3>2, OneIn
    <3> QED BY <2>1, <3>1, <3>2, <3>3
  <2>2. CASE type # NoType
    <3>1. Len(type) = 1 /\ IsSubject(type[1])
      BY <2>2 DEF MakesPlain
    <3>2. 1 \in 1 .. Len(type)
      BY <3>1
    <3>3. type[1] \in Parts
      BY <3>2
    <3> QED BY <2>2, <3>1, <3>3
  <2> QED BY <2>1, <2>2
<1>5. PICK n : n = base \o kind \o <<Empty>>
  OBVIOUS
<1>n. n \in Seq(Parts) /\ Len(n) = 3 /\ n[1] = a /\ n[2] = b /\ n[3] = Empty
  <2>1. PICK x : x = base \o kind
    OBVIOUS
  <2>2. x \in Seq(Parts) /\ Len(x) = 2 /\ x[1] = base[1] /\ x[2] = kind[1]
    <3>1. base \in Seq(Parts) /\ Len(base) = 1 /\ kind \in Seq(Parts) /\ Len(kind) = 1
      BY <1>1, <1>2, <1>4
    <3> QED BY <2>1, <3>1, OneAndOne
  <2>3. PICK last \in Seq(Parts) : last = <<Empty>> /\ Len(last) = 1 /\ last[1] = Empty
    BY <1>1, OneIn
  <2>4. n = x \o last
    BY <1>5, <2>1, <2>3
  <2>5. n \in Seq(Parts) /\ Len(n) = 3 /\ n[1] = x[1] /\ n[2] = x[2] /\ n[3] = last[1]
    BY <2>2, <2>3, <2>4, TwoAndOne
  <2> QED BY <1>3, <1>4, <2>2, <2>3, <2>5
<1>6. NewName(old, base, type) = Cut(n, NameMax - 1)
  BY <1>4, <1>5 DEF NewName
<1>7. PICK la \in Nat : la = a.len
  BY PartFacts
<1>8. b.len = 7 /\ Subject.len = 7 /\ Empty.len = 0
  BY <1>4 DEF IsSubject, Subject, Empty
<1>9. NameLength(DirNameFor(base)) = la + 9
  <2>1. PICK tail \in Seq(Parts) : /\ tail = <<Subject, Empty>> /\ Len(tail) = 2
                                   /\ tail[1] = Subject /\ tail[2] = Empty
    <3>1. /\ <<Subject, Empty>> \in Seq(Parts) /\ Len(<<Subject, Empty>>) = 2
          /\ <<Subject, Empty>>[1] = Subject /\ <<Subject, Empty>>[2] = Empty
      BY <1>1, TwoIn
    <3> QED BY <3>1
  <2>2. PICK d : d = base \o tail
    OBVIOUS
  <2>3. Len(d) = 3 /\ d[1] = base[1] /\ d[2] = tail[1] /\ d[3] = tail[2]
    BY <1>1, <1>2, <2>1, <2>2, OneAndTwo
  <2>4. Len(d) = 3 /\ d[1].len = la /\ d[2].len = 7 /\ d[3].len = 0
    BY <1>3, <1>7, <1>8, <2>1, <2>3
  <2>5. d[1].len \in Nat /\ d[2].len \in Nat /\ d[3].len \in Nat
    BY <2>4
  <2>6. NameLength(d) = d[1].len + d[2].len + d[3].len + 2
    BY <2>4, <2>5, ThreeParts
  <2>7. DirNameFor(base) = d
    BY <2>1, <2>2 DEF DirNameFor
  <2> QED BY <2>4, <2>6, <2>7
<1>10. la + 9 <= NameMax - 1
  <2>1. ~(la + 9 > NameMax - 1)
    BY <1>9 DEF MakesPlain
  <2> QED BY <1>1, <2>1
<1>11. Cut(n, NameMax - 1) = n
  <2>1. NameMax - 1 \in Nat
    BY <1>1
  <2>2. a.len + b.len + 2 <= NameMax - 1
    BY <1>7, <1>8, <1>10
  <2> QED BY <1>n, <2>1, <2>2, CutFits
<1>12. Len(n) = 3 /\ n[1] = a /\ n[2] = b /\ n[3] = Empty
  BY <1>n
<1>13. NameLength(n) = la + 9
  <2>1. n[1].len = la /\ n[2].len = 7 /\ n[3].len = 0
    BY <1>7, <1>8, <1>12
  <2>2. n[1].len \in Nat /\ n[2].len \in Nat /\ n[3].len \in Nat
    BY <2>1
  <2>3. NameLength(n) = n[1].len + n[2].len + n[3].len + 2
    BY <1>12, <2>2, ThreeParts
  <2> QED BY <2>1, <2>3
<1>14. NameLength(n) \in 1 .. NameMax
  BY <1>1, <1>10, <1>13
<1> QED BY <1>4, <1>6, <1>11, <1>12, <1>14 DEF DirName, Parses

(* What shows the name of a directory is one.                              *)
LEMMA ShownDirectory ==
  ASSUME NEW n \in Seq(Parts), DirName(Shown(n))
  PROVE  DirName(n)
<1>1. PICK p : p = Shown(n)
  OBVIOUS
<1>2. PICK len \in Nat : len = Len(n)
  OBVIOUS
<1>3. p = [i \in 1 .. len |-> [n[i] EXCEPT !.text = Printed[n[i].text]]]
  BY <1>1, <1>2 DEF Shown
<1>4. Len(p) = len
  BY <1>3
<1>5. Len(n) = 3 /\ Len(p) = 3
  BY <1>1, <1>2, <1>4 DEF DirName, Parses
<1>6. n[1] \in Parts /\ n[2] \in Parts /\ n[3] \in Parts
  BY <1>5, ThreeIn
<1>7. \A i \in 1 .. 3 : p[i] = [n[i] EXCEPT !.text = Printed[n[i].text]]
  BY <1>2, <1>3, <1>5
<1>8. \A i \in 1 .. 3 : p[i].len = n[i].len /\ p[i].text = Printed[n[i].text]
  <2>1. ASSUME NEW q \in Parts, NEW t
        PROVE  [q EXCEPT !.text = t].len = q.len /\ [q EXCEPT !.text = t].text = t
    BY DEF Parts
  <2>2. \A i \in 1 .. 3 : i = 1 \/ i = 2 \/ i = 3
    OBVIOUS
  <2>3. \A i \in 1 .. 3 : n[i] \in Parts
    BY <1>6, <2>2
  <2>4. ASSUME NEW i \in 1 .. 3 PROVE p[i].len = n[i].len /\ p[i].text = Printed[n[i].text]
    <3>1. PICK q \in Parts : q = n[i]
      BY <2>3
    <3>2. PICK t : t = Printed[n[i].text]
      OBVIOUS
    <3>3. p[i] = [q EXCEPT !.text = t]
      BY <1>7, <3>1, <3>2
    <3> QED BY <2>1, <3>1, <3>2, <3>3
  <2> QED BY <2>4
<1>9. PICK a \in Nat, b \in Nat, c \in Nat : a = n[1].len /\ b = n[2].len /\ c = n[3].len
  BY <1>6, PartFacts
<1>10. p[1].len = a /\ p[2].len = b /\ p[3].len = c /\ p[2].text = Printed[n[2].text]
  BY <1>8, <1>9
<1>11. NameLength(n) = NameLength(p)
  <2>1. NameLength(n) = a + b + c + 2
    BY <1>5, <1>9, ThreeParts
  <2>2. NameLength(p) = a + b + c + 2
    BY <1>5, <1>10, ThreeParts
  <2> QED BY <2>1, <2>2
<1>12. n[3] = Empty
  <2>1. p[3] = Empty
    BY <1>1 DEF DirName, Parses
  <2>2. c = 0
    <3>1. p[3].len = Empty.len /\ Empty.len = 0
      BY <2>1 DEF Empty
    <3> QED BY <1>10, <3>1
  <2> QED BY <1>6, <1>9, <2>2, PartFacts
<1>13. IsSubject(n[2])
  <2>1. b = 7 /\ Folded[Printed[n[2].text]] = "subject"
    BY <1>1, <1>10 DEF DirName, IsSubject
  <2>2. n[2].text \in DOMAIN Folded
    BY <1>6, PartFacts
  <2> QED BY <1>9, <2>1, <2>2, NamesAssumption DEF IsSubject
<1>14. NameLength(n) \in 1 .. NameMax
  BY <1>1, <1>11 DEF DirName, Parses
<1> QED BY <1>5, <1>12, <1>13, <1>14 DEF DirName, Parses

(***************************************************************************)
(* The calls keep the tree.                                                *)
(***************************************************************************)

LEMMA InitInductive == Init => Inductive
<1> SUFFICES ASSUME Init PROVE Inductive
  OBVIOUS
<1>1. TypeOK
  <2>1. <<>> \in Seq(Parts) /\ <<>> \in Seq(Ids)
    OBVIOUS
  <2> QED BY <2>1 DEF Init, TypeOK, Folders, NoName
<1>2. \A d \in Folders : ToSet(entries[d]) = {}
  <2>1. \A d \in Folders : entries[d] = <<>>
    BY DEF Init, Folders
  <2> QED BY <2>1, SetOfNone
<1>3. Listings
  BY <1>2 DEF Listings, Folders
<1>4. NoCircle
  BY <1>2 DEF NoCircle, Folders
<1>5. AllListed
  BY <1>2 DEF AllListed, Init
<1> QED BY <1>1, <1>3, <1>4, <1>5 DEF Inductive

(* What is in the tree is listed, and a directory that is can be reached.  *)
LEMMA ReachedListed ==
  ASSUME TypeOK, Listings, NoCircle, NEW d \in Folders, NEW f \in Beneath(d)
  PROVE  /\ f \in Ids /\ f \in live
         /\ parent[f] \in Folders /\ f \in ToSet(entries[parent[f]])
         /\ AllListed => f \notin orphans
<1>1. Contents \in Listing
  BY TreeNow, TreeFacts
<1>2. f \in Reach(Contents, Dirs, d)
  BY BeneathIs
<1>3. PICK c \in Folders : f \in Contents[c]
  BY <1>1, <1>2, ReachListed
<1>4. f \in ToSet(entries[c])
  BY <1>3 DEF Contents
<1>5. f \in live /\ parent[f] = c
  BY <1>4 DEF Listings
<1> QED BY <1>4, <1>5 DEF AllListed, TypeOK

LEMMA BeneathGoes ==
  ASSUME TypeOK, Listings, NoCircle, NEW d \in Folders
  PROVE  /\ ToSet(entries[d]) \subseteq Beneath(d)
         /\ \A c \in Beneath(d) : IsDir(c) => ToSet(entries[c]) \subseteq Beneath(d)
<1>1. Contents \in Listing
  BY TreeNow, TreeFacts
<1>2. Beneath(d) = Reach(Contents, Dirs, d)
  BY BeneathIs
<1>3. \A c \in Beneath(d) : c \in Folders
  BY <1>2 DEF Reach, Folders
<1>4. \A c \in Folders : Contents[c] = ToSet(entries[c]) /\ (IsDir(c) => c \in Dirs)
  BY DEF Contents, Dirs
<1> HIDE DEF Contents, Dirs
<1>5. Contents[d] \subseteq Beneath(d)
  BY <1>1, <1>2, ReachStarts
<1>6. \A c \in Beneath(d) : c \in Dirs => Contents[c] \subseteq Beneath(d)
  BY <1>1, <1>2, ReachGoes
<1> QED BY <1>3, <1>4, <1>5, <1>6

LEMMA NewFileKeeps ==
  ASSUME Inductive, NEW d \in {Root} \cup live, IsDir(d), NEW n \in Seq(Parts), NewFile(d, n)
  PROVE  Inductive'
<1>0. TypeOK /\ Listings /\ NoCircle /\ (retyped \/ AllListed) /\ Root \notin Ids
  BY CatalogAssumption DEF Inductive
<1>1. PICK f \in Ids \ live : \E i \in 1 .. Len(entries[d]) + 1 :
        /\ live' = live \cup {f}
        /\ name' = [name EXCEPT ![f] = n]
        /\ parent' = [parent EXCEPT ![f] = d]
        /\ entries' = [entries EXCEPT ![d] = InsertAt(@, i, f)]
  <2>1. PICK f : f = CHOOSE h \in Ids \ live : \A g \in Ids \ live : h <= g
    OBVIOUS
  <2>2. f \in Ids \ live
    <3>1. Ids \ live \in SUBSET Nat /\ Ids \ live # {}
      BY CatalogAssumption DEF NewFile
    <3>2. \E g \in Ids \ live : \A h \in Ids \ live : g <= h
      BY <3>1, LeastNat
    <3> QED BY <2>1, <3>2
  <2> QED BY <2>1, <2>2 DEF NewFile
<1>2. d \in Folders /\ f # d /\ f \in Ids /\ f \notin live /\ f \in Folders
  BY <1>0, <1>1 DEF TypeOK, Folders
<1>3. PICK i \in 1 .. Len(entries[d]) + 1 :
        entries' = [entries EXCEPT ![d] = InsertAt(entries[d], i, f)]
  BY <1>1
<1>4. entries[d] \in Seq(Ids)
  BY <1>0, <1>2 DEF TypeOK
<1>5. PICK new \in Seq(Ids) : /\ new = InsertAt(entries[d], i, f)
                              /\ ToSet(new) = ToSet(entries[d]) \cup {f}
  BY <1>2, <1>4, InsertAtIs
<1>6. entries' = [entries EXCEPT ![d] = new]
  BY <1>3, <1>5
<1>7. /\ live' = live \cup {f} /\ name' = [name EXCEPT ![f] = n]
      /\ parent' = [parent EXCEPT ![f] = d] /\ retyped' = retyped /\ orphans' = orphans
  BY <1>1 DEF NewFile
<1>8. TypeOK'
  BY <1>0, <1>2, <1>6, <1>7 DEF TypeOK
<1>9. \A e \in Folders : ToSet(entries'[e]) = ToSet(entries[e]) \cup (IF e = d THEN {f} ELSE {})
  BY <1>0, <1>2, <1>5, <1>6 DEF TypeOK
<1>10. parent'[f] = d /\ \A g \in Ids \ {f} : parent'[g] = parent[g]
  BY <1>0, <1>2, <1>7 DEF TypeOK
<1>11. \A g \in Folders \ {f} : IsDir(g)' <=> IsDir(g)
  BY <1>0, <1>7 DEF IsDir, DirName, TypeOK, Folders
<1>l. \A e \in Folders : \A g \in ToSet(entries[e]) : g \in live /\ g \in Ids /\ g # f /\ parent[g] = e
  BY <1>0, <1>2 DEF Listings, TypeOK
<1>12. Listings'
  <2>1. \A e \in Folders : \A g \in ToSet(entries'[e]) : g \in live' /\ parent'[g] = e
    BY <1>7, <1>9, <1>10, <1>l
  <2>2. \A e \in Ids \ live' : ToSet(entries'[e]) = {}
    BY <1>0, <1>7, <1>9 DEF Listings, Folders
  <2> QED BY <2>1, <2>2 DEF Listings
<1>13. NoCircle'
  <2> SUFFICES ASSUME NEW S \in SUBSET Ids, S # {}
               PROVE  \E g \in S : \A e \in S : g \notin ToSet(entries'[e])
    BY DEF NoCircle
  <2>0. \A e \in S : e \in Folders
    BY DEF Folders
  <2>f. ToSet(entries[f]) = {}
    BY <1>0, <1>2 DEF Listings
  <2>1. CASE S = {f}
    <3>1. ToSet(entries'[f]) = {}
      BY <1>2, <1>9, <2>f
    <3> QED BY <2>1, <3>1
  <2>2. CASE S # {f}
    <3>1. S \ {f} \in SUBSET Ids /\ S \ {f} # {}
      BY <2>2
    <3>2. PICK g \in S \ {f} : \A e \in S \ {f} : g \notin ToSet(entries[e])
      BY <1>0, <3>1 DEF NoCircle
    <3>3. \A e \in S : g \notin ToSet(entries'[e])
      BY <1>9, <2>0, <2>f, <3>2
    <3> QED BY <3>2, <3>3
  <2> QED BY <2>1, <2>2
<1>14. AllListed => AllListed'
  <2> SUFFICES ASSUME AllListed PROVE AllListed'
    OBVIOUS
  <2>1. orphans' \subseteq live'
    BY <1>7 DEF AllListed
  <2>2. \A e \in Folders : ToSet(entries'[e]) \cap orphans' = {}
    BY <1>2, <1>7, <1>9 DEF AllListed
  <2>3. ASSUME NEW g \in live' \ orphans'
        PROVE  /\ parent'[g] \in live' \cup {Root} /\ IsDir(parent[g])'
               /\ g \in ToSet(entries'[parent'[g]])
    <3>1. CASE g = f
      <4>1. parent'[g] = d /\ d # f
        BY <1>2, <1>10, <3>1
      <4>2. IsDir(d)'
        BY <1>2, <1>11
      <4>3. IsDir(parent[g])'
        BY <4>1, <4>2 DEF IsDir
      <4>4. g \in ToSet(entries'[d]) /\ d \in live' \cup {Root}
        BY <1>2, <1>7, <1>9, <3>1
      <4> QED BY <4>1, <4>3, <4>4
    <3>2. CASE g # f
      <4>1. g \in live \ orphans /\ g \in Ids
        BY <1>0, <1>7, <3>2 DEF TypeOK
      <4>2. PICK p : p = parent[g]
        OBVIOUS
      <4>3. p \in live \cup {Root} /\ IsDir(p) /\ g \in ToSet(entries[p])
        BY <4>1, <4>2 DEF AllListed
      <4>4. p # f /\ p \in Folders
        BY <1>0, <1>2, <4>3 DEF TypeOK, Folders
      <4>5. parent'[g] = p
        BY <1>10, <3>2, <4>1, <4>2
      <4>6. IsDir(p)'
        BY <1>11, <4>3, <4>4
      <4>7. IsDir(parent[g])'
        BY <4>5, <4>6 DEF IsDir
      <4>8. g \in ToSet(entries'[p]) /\ p \in live' \cup {Root}
        BY <1>7, <1>9, <4>3, <4>4
      <4> QED BY <4>5, <4>7, <4>8
    <3> QED BY <3>1, <3>2
  <2> QED BY <2>1, <2>2, <2>3 DEF AllListed
<1> QED BY <1>0, <1>7, <1>8, <1>12, <1>13, <1>14 DEF Inductive

(* Files go to a directory that is found by the name of one, or else to    *)
(* the root directory.                                                     *)
LEMMA Found ==
  ASSUME TypeOK, Listings, NoCircle, NEW n, Find(n) # NoFile
  PROVE  Find(n) \in Beneath(Root) /\ Shown(name[Find(n)]) = n
<1>1. PICK f : f = Find(n)
  OBVIOUS
<1>2. Answer(Root, n, NoFile, f) /\ Root \in Folders
  BY <1>1, FindAnswers DEF Folders
<1>3. f \in Reached(Root) /\ f \in Matches(n)
  BY <1>1, <1>2 DEF Answer
<1>4. f \in Beneath(Root)
  BY <1>2, <1>3, BeneathIs DEF Reached
<1>5. Shown(name[f]) = n
  BY <1>3 DEF Matches
<1> QED BY <1>1, <1>4, <1>5

LEMMA Destination ==
  ASSUME TypeOK, Listings, NoCircle, NEW names, NEW len \in Nat, len = Len(names),
         \A i \in 1 .. len : DirName(names[i])
  PROVE  FirstFound(names) \in {Root} \cup live /\ IsDir(FirstFound(names))
<1> DEFINE found == {i \in 1 .. Len(names) : Find(names[i]) # NoFile}
<1>1. CASE found = {}
  <2>1. FirstFound(names) = Root
    BY <1>1 DEF FirstFound
  <2> QED BY <2>1 DEF IsDir
<1>2. CASE found # {}
  <2>1. PICK i : i = CHOOSE h \in found : \A j \in found : h <= j
    OBVIOUS
  <2>2. i \in found
    <3>1. found \in SUBSET Nat
      OBVIOUS
    <3>2. \E h \in found : \A j \in found : h <= j
      <4> HIDE DEF found
      <4> QED BY <1>2, <3>1, LeastNat
    <3> HIDE DEF found
    <3> QED BY <2>1, <3>2
  <2>3. FirstFound(names) = Find(names[i])
    BY <1>2, <2>1 DEF FirstFound
  <2>4. PICK p : p = names[i]
    OBVIOUS
  <2>5. DirName(p) /\ Find(p) # NoFile
    BY <2>2, <2>4
  <2>6. PICK f : f = Find(p)
    OBVIOUS
  <2>7. f \in Beneath(Root) /\ Shown(name[f]) = p
    BY <2>5, <2>6, Found
  <2>8. f \in Ids /\ f \in live
    BY <2>7, ReachedListed DEF Folders
  <2>9. name[f] \in Seq(Parts)
    BY <2>8 DEF TypeOK
  <2>10. DirName(name[f])
    BY <2>5, <2>7, <2>9, ShownDirectory
  <2> QED BY <2>3, <2>4, <2>6, <2>8, <2>10 DEF IsDir
<1> QED BY <1>1, <1>2

LEMMA AddFileKeeps ==
  ASSUME Inductive, NEW n \in FileNames, AddFile(n)
  PROVE  Inductive'
<1>1. TypeOK /\ Listings /\ NoCircle
  BY DEF Inductive
<1>2. PICK names : names = <<ProgramsDir1, ProgramsDir2>>
  OBVIOUS
<1>3. Len(names) = 2 /\ names[1] = ProgramsDir1 /\ names[2] = ProgramsDir2
  BY <1>2
<1>4. \A i \in 1 .. 2 : DirName(names[i])
  <2>1. \A i \in 1 .. 2 : i = 1 \/ i = 2
    OBVIOUS
  <2>2. DirName(ProgramsDir1) /\ DirName(ProgramsDir2)
    BY NamesAssumption
  <2> QED BY <1>3, <2>1, <2>2
<1>5. FirstFound(names) \in {Root} \cup live /\ IsDir(FirstFound(names))
  BY <1>1, <1>3, <1>4, Destination
<1>6. NewFile(FirstFound(names), n)
  BY <1>2 DEF AddFile, AddDestination
<1>7. n \in Seq(Parts)
  BY NamesAssumption
<1> QED BY <1>5, <1>6, <1>7, NewFileKeeps

LEMMA CopyInKeeps ==
  ASSUME Inductive, NEW n \in FileNames, NEW p \in SourceDirs, CopyIn(n, p)
  PROVE  Inductive'
<1>1. TypeOK /\ Listings /\ NoCircle
  BY DEF Inductive
<1>2. PICK names : names = <<p, ProgramsDir1, ProgramsDir2>>
  OBVIOUS
<1>3. Len(names) = 3 /\ names[1] = p /\ names[2] = ProgramsDir1 /\ names[3] = ProgramsDir2
  BY <1>2
<1>4. \A i \in 1 .. 3 : DirName(names[i])
  <2>1. \A i \in 1 .. 3 : i = 1 \/ i = 2 \/ i = 3
    OBVIOUS
  <2>2. DirName(p) /\ DirName(ProgramsDir1) /\ DirName(ProgramsDir2)
    BY NamesAssumption
  <2> QED BY <1>3, <2>1, <2>2
<1>5. FirstFound(names) \in {Root} \cup live /\ IsDir(FirstFound(names))
  BY <1>1, <1>3, <1>4, Destination
<1>6. NewFile(FirstFound(names), n)
  BY <1>2 DEF CopyIn, CopyDestination
<1>7. n \in Seq(Parts)
  BY NamesAssumption
<1> QED BY <1>5, <1>6, <1>7, NewFileKeeps

LEMMA MakeDirKeeps ==
  ASSUME Inductive, NEW base \in BaseNames, NEW d \in live \cup {Root}, MakeDir(base, d)
  PROVE  Inductive'
<1>1. IsDir(d)
  BY DEF MakeDir, IsDir
<1>2. DirNameFor(base) \in Seq(Parts)
  <2>1. base \in Seq(Parts) /\ Subject \in Parts /\ Empty \in Parts
    BY NamesAssumption
  <2>2. <<Subject, Empty>> \in Seq(Parts)
    BY <2>1, TwoIn
  <2> QED BY <2>1, <2>2, ConcatProperties DEF DirNameFor
<1>3. NewFile(d, DirNameFor(base))
  BY DEF MakeDir
<1> QED BY <1>1, <1>2, <1>3, NewFileKeeps

LEMMA RenamedKeeps ==
  ASSUME Inductive, NEW f \in Beneath(Root), NEW base \in BaseNames, NEW type \in Seq(Parts),
         Renamed(f, base, type)
  PROVE  Inductive'
<1>0. TypeOK /\ Listings /\ NoCircle /\ (retyped \/ AllListed) /\ Root \in Folders
  BY DEF Inductive, Folders
<1>1. /\ f \in Ids /\ f \in live /\ parent[f] \in Folders
      /\ f \in ToSet(entries[parent[f]]) /\ (AllListed => f \notin orphans)
  BY <1>0, ReachedListed
<1>2. PICK p \in Folders : p = parent[f]
  BY <1>1
<1>3. PICK n : n = NewName(name[f], base, type)
  OBVIOUS
<1>4. n \in Seq(Parts)
  <2>1. name[f] \in Seq(Parts) /\ Parses(name[f]) /\ base \in Seq(Parts)
    BY <1>0, <1>1, NamesAssumption DEF TypeOK, Renamed
  <2> QED BY <1>3, <2>1, NewNameIs
<1>5. PICK rest \in Seq(Ids) : /\ rest = Without(entries[p], {f})
                               /\ ToSet(rest) = ToSet(entries[p]) \ {f}
  <2>1. entries[p] \in Seq(Ids)
    BY <1>0 DEF TypeOK
  <2> QED BY <2>1, WithoutIs
<1>6. PICK without : without = [entries EXCEPT ![p] = rest]
  OBVIOUS
<1>7. without \in [Folders -> Seq(Ids)] /\ without[p] = rest
  BY <1>0, <1>6 DEF TypeOK
<1>8. /\ live' = live /\ parent' = parent /\ name' = [name EXCEPT ![f] = n]
      /\ retyped' = (retyped \/ (IsDir(f) /\ MakesPlain(base, type)))
      /\ \/ /\ \E i \in 1 .. Len(without[p]) + 1 : entries' = [without EXCEPT ![p] = InsertAt(@, i, f)]
            /\ orphans' = orphans
         \/ entries' = without /\ orphans' = orphans \cup {f}
  BY <1>2, <1>3, <1>5, <1>6 DEF Renamed
<1>9. /\ entries' \in [Folders -> Seq(Ids)]
      /\ \/ orphans' = orphans /\ \A e \in Folders : ToSet(entries'[e]) = ToSet(entries[e])
         \/ /\ orphans' = orphans \cup {f}
            /\ \A e \in Folders :
                 ToSet(entries'[e]) = IF e = p THEN ToSet(entries[e]) \ {f} ELSE ToSet(entries[e])
  <2>1. CASE /\ \E i \in 1 .. Len(without[p]) + 1 : entries' = [without EXCEPT ![p] = InsertAt(@, i, f)]
             /\ orphans' = orphans
    <3>1. PICK i \in 1 .. Len(rest) + 1 : entries' = [without EXCEPT ![p] = InsertAt(rest, i, f)]
      BY <1>7, <2>1
    <3>2. PICK new \in Seq(Ids) : new = InsertAt(rest, i, f) /\ ToSet(new) = ToSet(rest) \cup {f}
      BY <1>1, InsertAtIs
    <3>3. ToSet(new) = ToSet(entries[p])
      BY <1>1, <1>2, <1>5, <3>2
    <3>4. entries' = [without EXCEPT ![p] = new]
      BY <3>1, <3>2
    <3>5. \A e \in Folders : entries'[e] = IF e = p THEN new ELSE entries[e]
      BY <1>0, <1>6, <1>7, <3>4 DEF TypeOK
    <3>6. entries' \in [Folders -> Seq(Ids)]
      BY <1>7, <3>4
    <3> QED BY <2>1, <3>3, <3>5, <3>6
  <2>2. CASE entries' = without /\ orphans' = orphans \cup {f}
    <3>1. \A e \in Folders : entries'[e] = IF e = p THEN rest ELSE entries[e]
      BY <1>0, <1>6, <2>2 DEF TypeOK
    <3>2. \A e \in Folders :
            ToSet(entries'[e]) = IF e = p THEN ToSet(entries[e]) \ {f} ELSE ToSet(entries[e])
      BY <1>5, <3>1
    <3> QED BY <1>7, <2>2, <3>2
  <2> QED BY <1>8, <2>1, <2>2
<1>10. TypeOK'
  BY <1>0, <1>1, <1>4, <1>8, <1>9 DEF TypeOK
<1>11. \A e \in Folders : ToSet(entries'[e]) \subseteq ToSet(entries[e])
  BY <1>9
<1>12. Listings'
  <2>1. \A e \in Folders : \A g \in ToSet(entries'[e]) : g \in live' /\ parent'[g] = e
    BY <1>0, <1>8, <1>11 DEF Listings
  <2>2. \A e \in Ids \ live' : ToSet(entries'[e]) = {}
    BY <1>0, <1>8, <1>11 DEF Listings, Folders
  <2> QED BY <2>1, <2>2 DEF Listings
<1>13. NoCircle'
  <2> SUFFICES ASSUME NEW S \in SUBSET Ids, S # {}
               PROVE  \E g \in S : \A e \in S : g \notin ToSet(entries'[e])
    BY DEF NoCircle
  <2>1. PICK g \in S : \A e \in S : g \notin ToSet(entries[e])
    BY <1>0 DEF NoCircle
  <2>2. \A e \in S : e \in Folders
    BY DEF Folders
  <2> QED BY <1>11, <2>1, <2>2
<1>14. ~retyped' => AllListed'
  <2> SUFFICES ASSUME ~retyped' PROVE AllListed'
    OBVIOUS
  <2>1. AllListed /\ ~(IsDir(f) /\ MakesPlain(base, type))
    BY <1>0, <1>8 DEF TypeOK
  <2>2. \A e \in Folders : IsDir(e) => IsDir(e)'
    <3> SUFFICES ASSUME NEW e \in Folders, IsDir(e) PROVE IsDir(e)'
      OBVIOUS
    <3>1. CASE e = f
      <4>1. f # Root
        BY <1>1, CatalogAssumption
      <4>2. DirName(name[f]) /\ name[f] \in Seq(Parts)
        BY <1>0, <1>1, <3>1, <4>1 DEF IsDir, TypeOK
      <4>3. ~MakesPlain(base, type)
        BY <2>1, <3>1
      <4>4. DirName(n)
        BY <1>3, <4>2, <4>3, StaysDirectory
      <4>5. name'[f] = n
        BY <1>0, <1>1, <1>8 DEF TypeOK
      <4>6. DirName(name'[f])
        BY <4>4, <4>5
      <4> QED BY <3>1, <4>6 DEF IsDir
    <3>2. CASE e # f /\ e # Root
      <4>1. name'[e] = name[e]
        BY <1>0, <1>8, <3>2 DEF TypeOK, Folders
      <4>2. DirName(name[e])
        BY <3>2 DEF IsDir
      <4>3. DirName(name'[e])
        BY <4>1, <4>2
      <4> QED BY <4>3 DEF IsDir
    <3>3. CASE e = Root
      BY <3>3 DEF IsDir
    <3> QED BY <3>1, <3>2, <3>3
  <2>3. orphans' \subseteq live'
    BY <1>1, <1>8, <1>9, <2>1 DEF AllListed
  <2>4. \A e \in Folders : ToSet(entries'[e]) \cap orphans' = {}
    <3>1. \A e \in Folders : ToSet(entries[e]) \cap orphans = {}
      BY <2>1 DEF AllListed
    <3>2. \A e \in Folders : f \in ToSet(entries[e]) => e = p
      BY <1>0, <1>2 DEF Listings
    <3> QED BY <1>9, <3>1, <3>2
  <2>5. ASSUME NEW g \in live' \ orphans'
        PROVE  /\ parent'[g] \in live' \cup {Root} /\ IsDir(parent[g])'
               /\ g \in ToSet(entries'[parent'[g]])
    <3>1. g \in live \ orphans /\ (orphans' # orphans => g # f)
      BY <1>8, <1>9
    <3>2. PICK q : q = parent[g]
      OBVIOUS
    <3>3. q \in live \cup {Root} /\ IsDir(q) /\ g \in ToSet(entries[q])
      BY <2>1, <3>1, <3>2 DEF AllListed
    <3>4. q \in Folders
      BY <1>0, <3>3 DEF TypeOK, Folders
    <3>5. parent'[g] = q
      BY <1>8, <3>2
    <3>6. IsDir(parent[g])'
      <4>1. IsDir(q)'
        BY <2>2, <3>3, <3>4
      <4> QED BY <3>5, <4>1 DEF IsDir
    <3>7. g \in ToSet(entries'[q])
      BY <1>9, <3>1, <3>3, <3>4
    <3> QED BY <1>8, <3>3, <3>5, <3>6, <3>7
  <2> QED BY <2>3, <2>4, <2>5 DEF AllListed
<1> QED BY <1>10, <1>12, <1>13, <1>14 DEF Inductive

LEMMA DeleteKeeps ==
  ASSUME Inductive, NEW n, Delete(n)
  PROVE  Inductive'
<1>0. TypeOK /\ Listings /\ NoCircle /\ (retyped \/ AllListed) /\ Root \in Folders /\ Root \notin Ids
  BY CatalogAssumption DEF Inductive, Folders
<1>1. PICK found : found = Find(n)
  OBVIOUS
<1>2. PICK doomed : doomed = {found} \cup (IF IsDir(found) THEN Beneath(found) ELSE {})
  OBVIOUS
<1>3. /\ found # NoFile
      /\ live' = live \ doomed
      /\ name' = [f \in Ids |-> IF f \in doomed THEN NoName ELSE name[f]]
      /\ parent' = [f \in Ids |-> IF f \in doomed THEN Root ELSE parent[f]]
      /\ entries' = [d \in Ids \cup {Root} |->
                       IF d \in doomed THEN <<>>
                       ELSE Without(entries[d], {c \in doomed : parent[c] = d})]
      /\ retyped' = retyped /\ orphans' = orphans
  BY <1>1, <1>2 DEF Delete
<1>4. found \in Ids /\ found \in Folders /\ found \in Beneath(Root)
  <2>1. found \in Beneath(Root)
    BY <1>0, <1>1, <1>3, Found
  <2>2. found \in Ids
    BY <1>0, <2>1, ReachedListed
  <2> QED BY <2>1, <2>2 DEF Folders
(* All that goes is in the tree.                                           *)
<1>5. \A f \in doomed : f \in Ids /\ f \in live /\ (AllListed => f \notin orphans)
  <2>1. \A f \in Beneath(Root) : f \in Ids /\ f \in live /\ (AllListed => f \notin orphans)
    BY <1>0, ReachedListed
  <2>2. \A f \in Beneath(found) : f \in Ids /\ f \in live /\ (AllListed => f \notin orphans)
    BY <1>0, <1>4, ReachedListed
  <2> QED BY <1>2, <1>4, <2>1, <2>2
(* What a directory that goes lists goes too.                              *)
<1>6. \A d \in doomed : IsDir(d) => ToSet(entries[d]) \subseteq doomed
  <2>1. /\ ToSet(entries[found]) \subseteq Beneath(found)
        /\ \A c \in Beneath(found) : IsDir(c) => ToSet(entries[c]) \subseteq Beneath(found)
    BY <1>0, <1>4, BeneathGoes
  <2>2. CASE IsDir(found)
    BY <1>2, <2>1, <2>2
  <2>3. CASE ~IsDir(found)
    BY <1>2, <2>3
  <2> QED BY <2>2, <2>3
<1>7. \A d \in Folders : entries'[d] \in Seq(Ids)
        /\ ToSet(entries'[d]) = IF d \in doomed THEN {} ELSE ToSet(entries[d]) \ doomed
  <2> SUFFICES ASSUME NEW d \in Folders
               PROVE  entries'[d] \in Seq(Ids)
                      /\ ToSet(entries'[d]) = IF d \in doomed THEN {} ELSE ToSet(entries[d]) \ doomed
    OBVIOUS
  <2>1. CASE d \in doomed
    <3>1. entries'[d] = <<>>
      BY <1>3, <2>1 DEF Folders
    <3>2. <<>> \in Seq(Ids)
      OBVIOUS
    <3> QED BY <2>1, <3>1, <3>2, SetOfNone
  <2>2. CASE d \notin doomed
    <3>1. PICK gone : gone = {c \in doomed : parent[c] = d}
      OBVIOUS
    <3>2. entries'[d] = Without(entries[d], gone)
      BY <1>3, <2>2, <3>1 DEF Folders
    <3>3. entries[d] \in Seq(Ids)
      BY <1>0 DEF TypeOK
    <3>4. Without(entries[d], gone) \in Seq(Ids)
          /\ ToSet(Without(entries[d], gone)) = ToSet(entries[d]) \ gone
      BY <3>3, WithoutIs
    <3>5. \A c \in ToSet(entries[d]) : parent[c] = d
      BY <1>0 DEF Listings
    <3>6. ToSet(entries[d]) \ gone = ToSet(entries[d]) \ doomed
      BY <3>1, <3>5
    <3> QED BY <2>2, <3>2, <3>4, <3>6
  <2> QED BY <2>1, <2>2
<1>8. TypeOK'
  <2>1. live' \subseteq Ids /\ retyped' \in BOOLEAN /\ orphans' \subseteq Ids
    BY <1>0, <1>3 DEF TypeOK
  <2>2. name' \in [Ids -> Seq(Parts)]
    <3>1. NoName \in Seq(Parts)
      BY DEF NoName
    <3> QED BY <1>0, <1>3, <3>1 DEF TypeOK
  <2>3. parent' \in [Ids -> Folders]
    BY <1>0, <1>3 DEF TypeOK
  <2>4. entries' \in [Folders -> Seq(Ids)]
    <3>1. entries' = [d \in Folders |-> entries'[d]]
      BY <1>3 DEF Folders
    <3> QED BY <1>7, <3>1
  <2> QED BY <2>1, <2>2, <2>3, <2>4 DEF TypeOK
<1>9. \A d \in Folders : ToSet(entries'[d]) \subseteq ToSet(entries[d])
  BY <1>7
<1>10. Listings'
  <2>1. ASSUME NEW d \in Folders, NEW g \in ToSet(entries'[d]) PROVE g \in live' /\ parent'[g] = d
    <3>1. g \in ToSet(entries[d]) /\ g \notin doomed
      BY <1>7
    <3>2. g \in live /\ parent[g] = d /\ g \in Ids
      BY <1>0, <3>1 DEF Listings, TypeOK
    <3> QED BY <1>3, <3>1, <3>2
  <2>2. ASSUME NEW d \in Ids \ live' PROVE ToSet(entries'[d]) = {}
    <3>1. d \in Folders
      BY DEF Folders
    <3>2. CASE d \in doomed
      BY <1>7, <3>1, <3>2
    <3>3. CASE d \notin doomed
      <4>1. ToSet(entries[d]) = {}
        BY <1>0, <1>3, <3>3 DEF Listings
      <4> QED BY <1>9, <3>1, <4>1
    <3> QED BY <3>2, <3>3
  <2> QED BY <2>1, <2>2 DEF Listings
<1>11. NoCircle'
  <2> SUFFICES ASSUME NEW S \in SUBSET Ids, S # {}
               PROVE  \E g \in S : \A e \in S : g \notin ToSet(entries'[e])
    BY DEF NoCircle
  <2>1. PICK g \in S : \A e \in S : g \notin ToSet(entries[e])
    BY <1>0 DEF NoCircle
  <2>2. \A e \in S : e \in Folders
    BY DEF Folders
  <2> QED BY <1>9, <2>1, <2>2
<1>12. AllListed => AllListed'
  <2> SUFFICES ASSUME AllListed PROVE AllListed'
    OBVIOUS
  <2>1. orphans' \subseteq live'
    BY <1>3, <1>5 DEF AllListed
  <2>2. \A e \in Folders : ToSet(entries'[e]) \cap orphans' = {}
    BY <1>3, <1>9 DEF AllListed
  <2>3. ASSUME NEW g \in live' \ orphans'
        PROVE  /\ parent'[g] \in live' \cup {Root} /\ IsDir(parent[g])'
               /\ g \in ToSet(entries'[parent'[g]])
    <3>1. g \in live \ orphans /\ g \notin doomed /\ g \in Ids
      BY <1>0, <1>3 DEF TypeOK
    <3>2. PICK p : p = parent[g]
      OBVIOUS
    <3>3. p \in live \cup {Root} /\ IsDir(p) /\ g \in ToSet(entries[p])
      BY <3>1, <3>2 DEF AllListed
    <3>4. p \notin doomed /\ p \in Folders
      BY <1>0, <1>6, <3>1, <3>3 DEF TypeOK, Folders
    <3>5. parent'[g] = p
      BY <1>3, <3>1, <3>2
    <3>6. IsDir(parent[g])'
      <4>1. p # Root => name'[p] = name[p]
        BY <1>3, <3>4 DEF Folders
      <4>2. p = Root \/ DirName(name[p])
        BY <3>3 DEF IsDir
      <4>3. p = Root \/ DirName(name'[p])
        BY <4>1, <4>2
      <4> QED BY <3>5, <4>3 DEF IsDir
    <3>7. g \in ToSet(entries'[p])
      BY <1>7, <3>1, <3>3, <3>4
    <3>8. p \in live' \cup {Root}
      BY <1>3, <3>3, <3>4
    <3> QED BY <3>5, <3>6, <3>7, <3>8
  <2> QED BY <2>1, <2>2, <2>3 DEF AllListed
<1> QED BY <1>0, <1>3, <1>8, <1>10, <1>11, <1>12 DEF Inductive

LEMMA StepInductive == Inductive /\ [Next]_catVars => Inductive'
<1> SUFFICES ASSUME Inductive, [Next]_catVars PROVE Inductive'
  OBVIOUS
<1>0. TypeOK /\ Listings /\ NoCircle
  BY DEF Inductive
<1>1. CASE \E n \in FileNames : AddFile(n)
  BY <1>1, AddFileKeeps
<1>2. CASE \E base \in BaseNames, d \in live \cup {Root} : MakeDir(base, d)
  BY <1>2, MakeDirKeeps
<1>3. CASE \E n \in FileNames, p \in SourceDirs : CopyIn(n, p)
  BY <1>3, CopyInKeeps
<1>4. CASE \E f \in live, base \in BaseNames, type \in NewTypes : RenameFile(f, base, type)
  <2>1. PICK f \in live, base \in BaseNames, type \in NewTypes : RenameFile(f, base, type)
    BY <1>4
  <2>2. type \in Seq(Parts)
    BY NamesAssumption
  <2>3. f \in Beneath(Root) /\ Renamed(f, base, type)
    BY <2>1 DEF RenameFile
  <2> QED BY <2>2, <2>3, RenamedKeeps
<1>5. CASE \E n \in ShownNames, base \in BaseNames : ToolRename(n, base)
  <2>1. PICK n \in ShownNames, base \in BaseNames : ToolRename(n, base)
    BY <1>5
  <2>2. PICK f : f = Find(n)
    OBVIOUS
  <2>3. f # NoFile /\ Renamed(f, base, NoType)
    BY <2>1, <2>2 DEF ToolRename
  <2>4. f \in Beneath(Root)
    BY <1>0, <2>2, <2>3, Found
  <2>5. NoType \in Seq(Parts)
    BY DEF NoType
  <2> QED BY <2>3, <2>4, <2>5, RenamedKeeps
<1>6. CASE \E n \in ShownNames : Delete(n)
  BY <1>6, DeleteKeeps
<1>7. CASE UNCHANGED catVars
  <2>1. /\ live' = live /\ name' = name /\ parent' = parent /\ entries' = entries
        /\ retyped' = retyped /\ orphans' = orphans
    BY <1>7 DEF catVars
  <2>2. TypeOK'
    BY <1>0, <2>1 DEF TypeOK
  <2>3. Listings'
    BY <1>0, <2>1 DEF Listings
  <2>4. NoCircle'
    BY <1>0, <2>1 DEF NoCircle
  <2>5. AllListed => AllListed'
    BY <2>1 DEF AllListed, IsDir
  <2> QED BY <2>1, <2>2, <2>3, <2>4, <2>5 DEF Inductive
<1> QED BY <1>1, <1>2, <1>3, <1>4, <1>5, <1>6, <1>7 DEF Next

LEMMA NothingIsLost ==
  ASSUME Inductive
  PROVE  NothingLost
<1>0. TypeOK /\ Listings /\ NoCircle /\ (retyped \/ AllListed) /\ Root \in Folders
  BY DEF Inductive, Folders
<1> SUFFICES ASSUME AllListed
             PROVE  live \subseteq (UNION {Beneath(d) : d \in {Root} \cup orphans}) \cup orphans
  BY <1>0 DEF NothingLost
<1> DEFINE Below == UNION {Beneath(d) : d \in {Root} \cup orphans}
           Safe == Below \cup orphans
           S == live \ Safe
<1>1. SUFFICES ASSUME S # {} PROVE FALSE
  OBVIOUS
<1>u. \A p : p \in Below <=> \E d \in {Root} \cup orphans : p \in Beneath(d)
  OBVIOUS
<1> HIDE DEF Below
<1>2. \A d \in {Root} \cup orphans : d \in Folders /\ Beneath(d) \subseteq Safe
  BY <1>0, <1>u DEF TypeOK, Folders
<1>3. \A p \in Safe : p \in orphans \/ \E d \in {Root} \cup orphans : p \in Beneath(d)
  BY <1>u
<1>4. S \in SUBSET Ids
  BY <1>0 DEF TypeOK
<1>5. S \subseteq live /\ \A g \in live : g \in S \/ g \in Safe
  OBVIOUS
<1>6. S \cap Safe = {} /\ orphans \subseteq Safe
  OBVIOUS
<1> HIDE DEF S, Safe
<1>7. PICK f \in S : \A d \in S : f \notin ToSet(entries[d])
  BY <1>0, <1>1, <1>4 DEF NoCircle
<1>8. f \in live \ orphans /\ f \notin Safe
  BY <1>5, <1>6
<1>9. PICK p : p = parent[f]
  OBVIOUS
<1>10. p \in live \cup {Root} /\ IsDir(p) /\ f \in ToSet(entries[p])
  BY <1>8, <1>9 DEF AllListed
<1>11. p \notin S
  BY <1>7, <1>10
<1>12. \A d \in {Root} \cup orphans :
         /\ ToSet(entries[d]) \subseteq Beneath(d)
         /\ \A c \in Beneath(d) : IsDir(c) => ToSet(entries[c]) \subseteq Beneath(d)
  BY <1>0, <1>2, BeneathGoes
<1>13. CASE p \in {Root} \cup orphans
  BY <1>2, <1>8, <1>10, <1>12, <1>13
<1>14. CASE p \notin {Root} \cup orphans
  <2>1. p \in Safe
    BY <1>5, <1>10, <1>11, <1>14
  <2>2. PICK d \in {Root} \cup orphans : p \in Beneath(d)
    BY <1>3, <1>14, <2>1
  <2>3. f \in Beneath(d)
    BY <1>10, <1>12, <2>2
  <2> QED BY <1>2, <1>8, <2>3
<1> QED BY <1>13, <1>14

(***************************************************************************)
(* Theorems.                                                               *)
(***************************************************************************)

(* The files make a tree: each is listed by its parent and nowhere else,   *)
(* no directory is inside itself, and as long as directories stay          *)
(* directories no file but those of a failed rename is in none.            *)
THEOREM TreeKept == Spec => []Inductive
<1>1. Init => Inductive
  BY InitInductive
<1>2. Inductive /\ [Next]_catVars => Inductive'
  BY StepInductive
<1> QED BY <1>1, <1>2, PTL DEF Spec

(* A delete or a rename that looks for the entry of a file in the          *)
(* directory the file names (ccos_delete_file, ccos_rename_file) looks in  *)
(* the one that lists it.                                                  *)
THEOREM AlwaysListedByParent == Spec => []ListedByParent
<1>1. Inductive => ListedByParent
  BY DEF Inductive, Listings, ListedByParent, TypeOK, Folders
<1> QED BY <1>1, TreeKept, PTL

(* No command loses a file: all can be reached from the root directory, or *)
(* from what a failed rename took out of it, until a directory is given a  *)
(* name that makes it none.                                                *)
THEOREM AlwaysNothingLost == Spec => []NothingLost
<1>1. Inductive => NothingLost
  BY NothingIsLost
<1> QED BY <1>1, TreeKept, PTL

(* find_filename finds a file with the name if one is in the tree,         *)
(* although a match ends the loop over one directory only.                 *)
THEOREM AlwaysSearchComplete == Spec => []SearchComplete
<1>1. Inductive => SearchComplete
  BY SearchHolds DEF Inductive
<1> QED BY <1>1, TreeKept, PTL

(* Of several files with the name, find_filename finds none that is hidden *)
(* under a directory of its path which lists the name itself.              *)
THEOREM AlwaysNearestOnPath == Spec => []NearestOnPath
<1>1. Inductive => NearestOnPath
  BY SearchHolds DEF Inductive
<1> QED BY <1>1, TreeKept, PTL
=============================================================================
