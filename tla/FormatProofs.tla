---------------------------- MODULE FormatProofs ----------------------------
(* Theorems about Format, for images of every size.                        *)
EXTENDS Format, FiniteSetTheorems, TLAPS

(* Past the checks of ccos_new_disk_image.                                 *)
Checked ==
  /\ req \in Requests
  /\ pc \notin {"idle", "done"} \/ result = "ok" =>
       WholeSectors(req) /\ FitsImage(req)

LEMMA CheckedKept == Checked /\ [Next]_vars => Checked'
<1> SUFFICES ASSUME Checked, [Next]_vars PROVE Checked'
  OBVIOUS
<1>1. CASE Refuse \/ NoContext
  BY <1>1 DEF Checked, Refuse, NoContext, Finish
<1>2. CASE InitBitmask
  BY <1>2 DEF Checked, InitBitmask
<1>3. CASE MarkBitmask
  BY <1>3 DEF Checked, MarkBitmask
<1>4. CASE WriteSuperblock
  BY <1>4 DEF Checked, WriteSuperblock
<1>5. CASE WriteBootSector
  BY <1>5 DEF Checked, WriteBootSector
<1>6. CASE WriteBootCode
  BY <1>6 DEF Checked, WriteBootCode, Finish
<1>7. CASE UNCHANGED vars
  BY <1>7 DEF Checked, vars
<1> QED BY <1>1, <1>2, <1>3, <1>4, <1>5, <1>6, <1>7 DEF Next

(* No superblock is the last sector before a multiple of 8.                *)
LEMMA NextSectorFits ==
  ASSUME NEW r \in Requests, WholeSectors(r), FitsImage(r)
  PROVE  Superblock(r) + 1 < SectorCount(r)
<1>1. /\ r \in [format : {"compass", "gridcase", "bubble"}, bytes : Nat \ {0}]
      /\ r.bytes \in Nat
  BY FormatAssumption
<1>2. SectorSize(r) \in {256, 512}
  BY DEF SectorSize
<1>3. SectorCount(r) \in Int
  BY <1>1, <1>2 DEF SectorCount
<1>4. Superblock(r) \in {289, 1022, 9248}
  BY DEF Superblock
<1>5. SectorCount(r) % 8 = 0 /\ Superblock(r) < SectorCount(r)
  BY DEF WholeSectors, FitsImage
<1>6. ASSUME NEW n \in Int, NEW b \in {289, 1022, 9248}, n % 8 = 0, b < n
      PROVE  b + 1 < n
  BY <1>6
<1> QED BY <1>3, <1>4, <1>5, <1>6

(* The sector behind the superblock, which the formatter marks and makes   *)
(* the root directory's, is always in the image: the check of the          *)
(* superblock alone is enough because the number of sectors is a multiple  *)
(* of 8.                                                                   *)
THEOREM RootIsInside == Spec => []RootInside
<1>1. Init => Checked
  BY DEF Init, Checked
<1>2. Checked => RootInside
  <2> SUFFICES ASSUME Checked, result = "ok"
               PROVE  Superblock(req) + 1 < SectorCount(req)
    BY DEF RootInside
  <2>1. WholeSectors(req) /\ FitsImage(req) /\ req \in Requests
    BY DEF Checked
  <2> QED BY <2>1, NextSectorFits
<1> QED BY <1>1, <1>2, CheckedKept, PTL DEF Spec

-----------------------------------------------------------------------------
(* The layout of an image whose sectors have numbers of 16 bits.           *)

(* The blocks that are marked follow one another or are apart, all in the  *)
(* image and all with a bit.                                               *)
Layout(r) ==
  /\ SectorCount(r) \in Nat /\ SectorCount(r) < 65536
  /\ BitmaskCount(r) \in Nat /\ Superblock(r) \in Nat
  /\ Bitmask(r) = Superblock(r) - BitmaskCount(r)
  /\ BootPages(r) \in Nat \ {0} /\ CodePages(r) \in Nat \ {0}
  /\ BootPages(r) + CodePages(r) < Bitmask(r)
  /\ Superblock(r) + 1 < SectorCount(r)
  /\ Capacity(r) \in Nat /\ SectorCount(r) <= Capacity(r)
  /\ RequiredBytes(r) * 8 = SectorCount(r)

LEMMA LaidOut ==
  ASSUME NEW r \in Requests, WholeSectors(r), FitsImage(r), Numbered(r)
  PROVE  Layout(r)
<1> DEFINE n == SectorCount(r)
           q == RequiredBytes(r)
           b == BitmaskBytes(r)
           c == BitmaskCount(r)
           p == Superblock(r)
<1>1. /\ r \in [format : {"compass", "gridcase", "bubble"}, bytes : Nat \ {0}]
      /\ r.bytes \in Nat
  BY FormatAssumption
<1>2. SectorSize(r) \in {256, 512}
  BY DEF SectorSize
<1>3. n \in Nat
  BY <1>1, <1>2 DEF SectorCount
<1>4. n % 8 = 0 /\ p < n /\ n < 65536 /\ p + 1 < n
  BY NextSectorFits DEF WholeSectors, FitsImage, Numbered
<1>5. p \in {289, 1022, 9248} /\ b \in {248, 500}
  BY DEF Superblock, BitmaskBytes
<1>6. q = n \div 8
  BY <1>3, <1>4 DEF RequiredBytes, W16
<1>7. c = (q + b - 1) \div b /\ Capacity(r) = c * b * 8
  BY DEF BitmaskCount, Capacity
<1> HIDE DEF n, q, b, c, p
<1>8. q \in Nat /\ q * 8 = n /\ q < 8192
  BY <1>3, <1>4, <1>6
<1>9. c \in Nat /\ c * b * 8 \in Nat /\ q * 8 <= c * b * 8 /\ c <= 34
  <2>1. CASE b = 248
    <3>1. c = (q + 247) \div 248
      BY <1>7, <1>8, <2>1
    <3>2. c \in Nat /\ c * 248 >= q /\ c <= 34
      BY <1>8, <3>1
    <3> QED BY <1>8, <2>1, <3>2
  <2>2. CASE b = 500
    <3>1. c = (q + 499) \div 500
      BY <1>7, <1>8, <2>2
    <3>2. c \in Nat /\ c * 500 >= q /\ c <= 34
      BY <1>8, <3>1
    <3> QED BY <1>8, <2>2, <3>2
  <2> QED BY <1>5, <2>1, <2>2
<1>10. p - c \in Nat /\ p - c >= 255 /\ p - c < 65536
  BY <1>5, <1>9
<1>11. (p - c) % 65536 = p - c
  BY <1>10
<1>12. Bitmask(r) = p - c
  BY <1>11 DEF Bitmask, W16, p, c
<1>13. BootPages(r) \in {1, 2} /\ CodePages(r) \in {4, 8}
  BY <1>2 DEF BootPages, CodePages
<1>14. BootPages(r) + CodePages(r) < p - c
  BY <1>10, <1>13
<1>15. n <= c * b * 8
  BY <1>3, <1>8, <1>9
<1> QED BY <1>3, <1>4, <1>5, <1>7, <1>8, <1>9, <1>12, <1>13, <1>14, <1>15
        DEF Layout, n, q, b, c, p

(* A sector in the image that is not marked yet is marked, and counted.    *)
LEMMA MarkOnce ==
  ASSUME Layout(req), marks \subseteq 0 .. SectorCount(req) - 1,
         allocated = Cardinality(marks),
         NEW s \in Nat, s < SectorCount(req), s \notin marks, Mark(s)
  PROVE  /\ marks' = marks \cup {s}
         /\ marks' \subseteq 0 .. SectorCount(req) - 1
         /\ allocated' = Cardinality(marks')
<1> DEFINE n == SectorCount(req)
           I == 0 .. n - 1
<1>1. n \in Nat /\ n < 65536 /\ s < Capacity(req) /\ 0 < n
  BY DEF Layout
<1>2. marks' = marks \cup {s} /\ allocated' = W16(allocated + 1)
  BY <1>1 DEF Mark
<1>3. s \in I
  BY <1>1
<1>4. IsFiniteSet(I) /\ Cardinality(I) = n
  <2>1. 0 \in Int /\ n - 1 \in Int /\ ~(0 > n - 1) /\ (n - 1) - 0 + 1 = n
    BY <1>1
  <2> QED BY <2>1, FS_Interval
<1> HIDE DEF n, I
<1>5. marks' \subseteq I /\ marks \subseteq I
  BY <1>2, <1>3 DEF n, I
<1>6. IsFiniteSet(marks) /\ Cardinality(marks) \in Nat
  BY <1>4, <1>5, FS_Subset, FS_CardinalityType
<1>7. Cardinality(marks') = Cardinality(marks) + 1 /\ Cardinality(marks') <= n
  BY <1>2, <1>4, <1>5, <1>6, FS_AddElement, FS_Subset
<1>8. (Cardinality(marks) + 1) % 65536 = Cardinality(marks) + 1
  BY <1>1, <1>6, <1>7
<1> QED BY <1>2, <1>5, <1>7, <1>8 DEF W16, n, I

(* What is marked when the steps have come so far.                         *)
MarkedSoFar ==
  /\ marks \subseteq 0 .. SectorCount(req) - 1
  /\ allocated = Cardinality(marks)
  /\ pc \in {"idle", "bitmask", "root", "boot", "code", "done"}
  /\ result = "ok" => pc = "done"
  /\ pc = "idle" => marks = {} /\ next = 0
  /\ pc = "bitmask" =>
       /\ next \in 0 .. BitmaskCount(req)
       /\ marks = Bitmask(req) .. Bitmask(req) + next - 1
  /\ pc = "root" =>
       /\ next \in {0, 1}
       /\ marks = BitmaskSectors(req)
                    \cup Superblock(req) .. Superblock(req) + next - 1
  /\ pc = "boot" =>
       /\ next \in 0 .. BootPages(req)
       /\ marks = BitmaskSectors(req) \cup RootSectors(req) \cup 0 .. next - 1
  /\ pc = "code" =>
       /\ next \in 0 .. CodePages(req)
       /\ marks = BitmaskSectors(req) \cup RootSectors(req)
                    \cup 0 .. BootPages(req) + next - 1
  /\ result = "ok" => marks = SystemSectors(req) \cup RootSectors(req)

LEMMA InitMarked == Init => MarkedSoFar
<1> SUFFICES ASSUME Init PROVE MarkedSoFar
  OBVIOUS
<1>1. Cardinality({}) = 0
  BY FS_EmptySet
<1> QED BY <1>1 DEF Init, MarkedSoFar

(* One more sector at the end of a block of consecutive ones.              *)
LEMMA BlockGrows ==
  ASSUME NEW a \in Nat, NEW k \in Nat
  PROVE  a .. a + (k + 1) - 1 = (a .. a + k - 1) \cup {a + k}
OBVIOUS

LEMMA NoBlock == \A a \in Nat : a .. a + 0 - 1 = {}
OBVIOUS

LEMMA MarkedKept ==
  ASSUME Layout(req), MarkedSoFar, [Next]_vars
  PROVE  MarkedSoFar'
<1> DEFINE c == BitmaskCount(req)
           m == Bitmask(req)
           p == Superblock(req)
           n == SectorCount(req)
           t == BootPages(req)
           d == CodePages(req)
<1>1. /\ n \in Nat /\ c \in Nat /\ p \in Nat /\ m \in Nat
      /\ t \in Nat \ {0} /\ d \in Nat \ {0}
      /\ m = p - c /\ t + d < m /\ p + 1 < n
  BY DEF Layout
<1>2. /\ BitmaskSectors(req) = m .. m + c - 1 /\ RootSectors(req) = {p, p + 1}
      /\ SystemSectors(req) = 0 .. t + d - 1 \cup m .. m + c - 1
  BY DEF BitmaskSectors, RootSectors, SystemSectors
<1>3. /\ marks \subseteq 0 .. n - 1 /\ allocated = Cardinality(marks)
  BY DEF MarkedSoFar
<1>4. UNCHANGED req =>
        /\ BitmaskCount(req') = c /\ Bitmask(req') = m /\ Superblock(req') = p
        /\ SectorCount(req') = n /\ BootPages(req') = t /\ CodePages(req') = d
        /\ BitmaskSectors(req') = BitmaskSectors(req)
        /\ RootSectors(req') = RootSectors(req)
        /\ SystemSectors(req') = SystemSectors(req)
  OBVIOUS
<1> HIDE DEF c, m, p, n, t, d
<1>5. CASE Refuse \/ NoContext
  BY <1>5 DEF Refuse, NoContext, Finish, MarkedSoFar
<1>6. CASE InitBitmask
  <2>1. marks' = {} /\ next' = 0 /\ pc' = "bitmask" /\ UNCHANGED <<req, allocated, result>>
    BY <1>6 DEF InitBitmask, MarkedSoFar
  <2>2. m .. m + 0 - 1 = {} /\ 0 \in 0 .. c
    BY <1>1
  <2> QED BY <1>4, <2>1, <2>2, <1>6 DEF MarkedSoFar, InitBitmask, m, c
<1>7. CASE MarkBitmask
  <2>1. /\ pc = "bitmask" /\ next \in 0 .. c /\ marks = m .. m + next - 1
        /\ UNCHANGED <<req, result>> /\ result # "ok"
    BY <1>7 DEF MarkBitmask, MarkedSoFar, c, m
  <2>2. CASE next < c
    <3>1. Mark(m + next) /\ next' = next + 1 /\ pc' = pc
      BY <1>7, <2>2 DEF MarkBitmask, c, m
    <3>2. /\ m + next \in Nat /\ m + next < n /\ m + next \notin marks
          /\ next \in Nat /\ next + 1 \in 0 .. c
      BY <1>1, <2>1, <2>2
    <3>3. /\ marks' = marks \cup {m + next} /\ marks' \subseteq 0 .. n - 1
          /\ allocated' = Cardinality(marks')
      BY <1>3, <3>1, <3>2, MarkOnce DEF n
    <3>4. marks' = m .. m + (next + 1) - 1
      BY <1>1, <2>1, <3>2, <3>3, BlockGrows
    <3> QED BY <1>4, <2>1, <3>1, <3>2, <3>3, <3>4 DEF MarkedSoFar, m, c, n
  <2>3. CASE ~(next < c)
    <3>1. pc' = "root" /\ next' = 0 /\ UNCHANGED <<marks, allocated>>
      BY <1>7, <2>3 DEF MarkBitmask, c
    <3>2. next = c /\ p .. p + 0 - 1 = {}
      BY <1>1, <2>1, <2>3
    <3> QED BY <1>2, <1>3, <1>4, <2>1, <3>1, <3>2 DEF MarkedSoFar, p, n
  <2> QED BY <2>2, <2>3
<1>8. CASE WriteSuperblock
  <2>1. /\ pc = "root" /\ next \in {0, 1} /\ Mark(p + next)
        /\ marks = m .. m + c - 1 \cup p .. p + next - 1
        /\ UNCHANGED <<req, result>> /\ result # "ok"
    BY <1>2, <1>8 DEF WriteSuperblock, MarkedSoFar, p
  <2>2. p + next \in Nat /\ p + next < n /\ p + next \notin marks
    BY <1>1, <2>1
  <2>3. /\ marks' = marks \cup {p + next} /\ marks' \subseteq 0 .. n - 1
        /\ allocated' = Cardinality(marks')
    BY <1>3, <2>1, <2>2, MarkOnce DEF n
  <2>4. CASE next = 0
    <3>1. next' = 1 /\ pc' = pc
      BY <1>8, <2>4 DEF WriteSuperblock
    <3>2. p .. p + 1 - 1 = p .. p + next - 1 \cup {p + next}
      BY <1>1, <2>4
    <3>3. marks' = BitmaskSectors(req) \cup p .. p + 1 - 1
      BY <1>2, <2>1, <2>3, <3>2
    <3> QED BY <1>4, <2>1, <2>3, <3>1, <3>3 DEF MarkedSoFar, p, n
  <2>5. CASE next = 1
    <3>1. next' = 0 /\ pc' = "boot"
      BY <1>8, <2>5 DEF WriteSuperblock
    <3>2. p .. p + 1 - 1 = {p} /\ 0 .. 0 - 1 = {} /\ 0 \in 0 .. t
      BY <1>1
    <3>3. marks' = BitmaskSectors(req) \cup RootSectors(req) \cup 0 .. 0 - 1
      BY <1>2, <2>1, <2>3, <2>5, <3>2
    <3> QED BY <1>4, <2>1, <2>3, <3>1, <3>2, <3>3 DEF MarkedSoFar, n, t
  <2> QED BY <2>1, <2>4, <2>5
<1>9. CASE WriteBootSector
  <2>1. /\ pc = "boot" /\ next \in 0 .. t
        /\ marks = m .. m + c - 1 \cup {p, p + 1} \cup 0 .. next - 1
        /\ UNCHANGED <<req, result>> /\ result # "ok"
    BY <1>2, <1>9 DEF WriteBootSector, MarkedSoFar, t
  <2>2. CASE next < t
    <3>1. Mark(next) /\ next' = next + 1 /\ pc' = pc
      BY <1>9, <2>2 DEF WriteBootSector, t
    <3>2. next \in Nat /\ next < n /\ next \notin marks /\ next + 1 \in 0 .. t
      BY <1>1, <2>1, <2>2
    <3>3. /\ marks' = marks \cup {next} /\ marks' \subseteq 0 .. n - 1
          /\ allocated' = Cardinality(marks')
      BY <1>3, <3>1, <3>2, MarkOnce DEF n
    <3>4. 0 .. (next + 1) - 1 = 0 .. next - 1 \cup {next}
      BY <3>2
    <3>5. marks' = BitmaskSectors(req) \cup RootSectors(req) \cup 0 .. (next + 1) - 1
      BY <1>2, <2>1, <3>3, <3>4
    <3> QED BY <1>4, <2>1, <3>1, <3>2, <3>3, <3>5 DEF MarkedSoFar, n, t
  <2>3. CASE ~(next < t)
    <3>1. pc' = "code" /\ next' = 0 /\ UNCHANGED <<marks, allocated>>
      BY <1>9, <2>3 DEF WriteBootSector, t
    <3>2. next = t /\ t + 0 - 1 = next - 1 /\ 0 \in 0 .. d
      BY <1>1, <2>1, <2>3
    <3> QED BY <1>2, <1>3, <1>4, <2>1, <3>1, <3>2 DEF MarkedSoFar, t, d, n
  <2> QED BY <2>2, <2>3
<1>10. CASE WriteBootCode
  <2>1. /\ pc = "code" /\ next \in 0 .. d
        /\ marks = m .. m + c - 1 \cup {p, p + 1} \cup 0 .. t + next - 1
        /\ UNCHANGED req /\ result # "ok"
    BY <1>2, <1>10 DEF WriteBootCode, MarkedSoFar, d, t
  <2>2. CASE next < d
    <3>1. Mark(t + next) /\ next' = next + 1 /\ pc' = pc /\ result' = result
      BY <1>10, <2>2 DEF WriteBootCode, d, t
    <3>2. /\ t + next \in Nat /\ t + next < n /\ t + next \notin marks
          /\ next + 1 \in 0 .. d /\ next \in Nat
      BY <1>1, <2>1, <2>2
    <3>3. /\ marks' = marks \cup {t + next} /\ marks' \subseteq 0 .. n - 1
          /\ allocated' = Cardinality(marks')
      BY <1>3, <3>1, <3>2, MarkOnce DEF n
    <3>4. 0 .. t + (next + 1) - 1 = 0 .. t + next - 1 \cup {t + next}
      BY <1>1, <3>2
    <3>5. marks' = BitmaskSectors(req) \cup RootSectors(req)
                     \cup 0 .. t + (next + 1) - 1
      BY <1>2, <2>1, <3>3, <3>4
    <3> QED BY <1>4, <2>1, <3>1, <3>2, <3>3, <3>5 DEF MarkedSoFar, n, t, d
  <2>3. CASE ~(next < d)
    <3>1. pc' = "done" /\ result' = "ok" /\ UNCHANGED <<marks, allocated>>
      BY <1>10, <2>3 DEF WriteBootCode, Finish, d
    <3>2. next = d
      BY <1>1, <2>1, <2>3
    <3>3. marks' = SystemSectors(req) \cup RootSectors(req)
      BY <1>2, <2>1, <3>1, <3>2
    <3> QED BY <1>3, <1>4, <2>1, <3>1, <3>3 DEF MarkedSoFar, n
  <2> QED BY <2>2, <2>3
<1>11. CASE UNCHANGED vars
  BY <1>11 DEF vars, MarkedSoFar
<1> QED BY <1>5, <1>6, <1>7, <1>8, <1>9, <1>10, <1>11 DEF Next

Formatted ==
  /\ Checked
  /\ Numbered(req) => MarkedSoFar

LEMMA FormattedKept == Formatted /\ [Next]_vars => Formatted'
<1> SUFFICES ASSUME Formatted, [Next]_vars PROVE Formatted'
  OBVIOUS
<1>1. Checked'
  BY CheckedKept DEF Formatted
<1>2. req' = req
  BY DEF Next, vars, Refuse, NoContext, InitBitmask, MarkBitmask,
     WriteSuperblock, WriteBootSector, WriteBootCode
<1> SUFFICES ASSUME Numbered(req) PROVE MarkedSoFar'
  BY <1>1, <1>2 DEF Formatted, Numbered, SectorCount, SectorSize
<1>3. MarkedSoFar
  BY DEF Formatted
<1>4. CASE Refuse \/ NoContext
  BY <1>3, <1>4 DEF Refuse, NoContext, Finish, MarkedSoFar
<1>5. CASE InitBitmask \/ pc \notin {"idle", "done"}
  <2>1. WholeSectors(req) /\ FitsImage(req) /\ req \in Requests
    BY <1>5 DEF Formatted, Checked, InitBitmask
  <2> QED BY <1>3, <2>1, LaidOut, MarkedKept
<1>6. CASE UNCHANGED vars
  BY <1>3, <1>6 DEF vars, MarkedSoFar
<1> QED BY <1>4, <1>5, <1>6 DEF Next, MarkBitmask, WriteSuperblock,
           WriteBootSector, WriteBootCode

LEMMA FormattedHolds == Spec => []Formatted
<1>1. Init => Formatted
  BY InitMarked DEF Init, Checked, Formatted
<1> QED BY <1>1, FormattedKept, PTL DEF Spec

LEMMA WhenDone ==
  ASSUME Formatted, result = "ok", Numbered(req)
  PROVE  Layout(req) /\ MarkedSoFar
<1>1. WholeSectors(req) /\ FitsImage(req) /\ req \in Requests
  BY DEF Formatted, Checked
<1> QED BY <1>1, LaidOut DEF Formatted

(* What ccos_new_disk_image hands over is where Volume starts: the boot    *)
(* and bitmask sectors and the root directory's two are marked, each once, *)
(* nothing else is, and they do not overlap, for every size of image that  *)
(* it accepts and that 16 bits can number.                                 *)
THEOREM FormattedStartsVolume == Spec => []StartsVolume
<1>1. Formatted => StartsVolume
  <2> SUFFICES ASSUME Formatted, result = "ok", Numbered(req)
               PROVE  /\ marks = SystemSectors(req) \cup RootSectors(req)
                      /\ SystemSectors(req) \cap RootSectors(req) = {}
                      /\ allocated = Cardinality(marks)
    BY DEF StartsVolume
  <2>1. Layout(req) /\ MarkedSoFar
    BY WhenDone
  <2>2. SystemSectors(req) \cap RootSectors(req) = {}
    BY <2>1 DEF Layout, SystemSectors, BitmaskSectors, RootSectors
  <2> QED BY <2>1, <2>2 DEF MarkedSoFar
<1> QED BY <1>1, FormattedHolds, PTL

(* A fresh image passes ccos_validate_disk_bitmap: there is a bit for each *)
(* of its sectors, the filled tail begins where they end, and the counter  *)
(* is the number of bits set.                                              *)
THEOREM FreshBitmapIsValid == Spec => []FreshBitmapValid
<1>1. Formatted => FreshBitmapValid
  <2> SUFFICES ASSUME Formatted, result = "ok", Numbered(req)
               PROVE  /\ Capacity(req) >= SectorCount(req)
                      /\ RequiredBytes(req) * 8 = SectorCount(req)
                      /\ allocated = Cardinality(marks)
    BY DEF FreshBitmapValid
  <2>1. Layout(req) /\ MarkedSoFar
    BY WhenDone
  <2> QED BY <2>1 DEF Layout, MarkedSoFar
<1> QED BY <1>1, FormattedHolds, PTL
=============================================================================
