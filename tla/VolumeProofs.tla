---------------------------- MODULE VolumeProofs ----------------------------
(***************************************************************************)
(* Theorems about Volume, for every number of sectors, every capacity of   *)
(* the sector lists and every set of names and sizes: the types, who owns  *)
(* a sector, the tree of directories under the calls, and sizes, layer by  *)
(* layer along the inductive invariant of VolumeInvariant.                 *)
(***************************************************************************)
EXTENDS VolumeInvariant, VolumeOwnership, SequenceTheorems, FiniteSetTheorems, TLAPS

-----------------------------------------------------------------------------
(* The bitmap and the sector lists: what each operation of SectorMap and   *)
(* FileSectors does to their types.                                        *)

LEMMA SpanType == CounterSpan \in Nat \ {0}
BY DEF CounterSpan

(* The counter stays a uint16_t.                                           *)
LEMMA CounterWraps ==
  ASSUME NEW x \in Int
  PROVE  x % CounterSpan \in 0 .. CounterSpan - 1
BY SpanType

LEMMA CounterFits ==
  ASSUME NEW x \in Nat, x < CounterSpan
  PROVE  x % CounterSpan = x
BY SpanType

LEMMA MarkType ==
  ASSUME BitmapType, NEW s \in Sector, MarkUsed(s)
  PROVE  BitmapType'
<1>1. allocated + 1 \in Int
  BY SpanType DEF BitmapType
<1>2. allocated' \in 0 .. CounterSpan - 1
  BY <1>1, CounterWraps DEF MarkUsed
<1> QED BY <1>2 DEF BitmapType, MarkUsed

LEMMA EraseType ==
  ASSUME BitmapType, NEW s, EraseSector(s)
  PROVE  BitmapType'
<1>1. allocated - 1 \in Int
  BY SpanType DEF BitmapType
<1>2. allocated' \in 0 .. CounterSpan - 1
  BY <1>1, CounterWraps DEF EraseSector
<1> QED BY <1>2 DEF BitmapType, EraseSector

(* The slots of a new content inode read as sectors of the image only.     *)
LEMMA UnwrittenType ==
  ASSUME NEW c \in Sector
  PROVE  UnwrittenSlots(c) \in Seq(Sector)
<1> DEFINE v == IF c \in pristine THEN PristineSlot ELSE 0
<1>1. v \in Nat
  BY FileSectorsAssumption
<1>2. CASE v < NumSectors
  <2> DEFINE t == [i \in 1 .. ContMax - 2 |-> v]
  <2>1. v \in Sector
    BY <1>1, <1>2, SectorMapAssumption DEF Sector
  <2>2. ContMax - 2 \in Nat
    BY FileSectorsAssumption
  <2>3. t \in [1 .. ContMax - 2 -> Sector]
    BY <2>1
  <2>4. t \in Seq(Sector)
    BY <2>2, <2>3, SeqDef
  <2> QED BY <1>2, <2>4 DEF UnwrittenSlots
<1>3. CASE ~(v < NumSectors)
  BY <1>3 DEF UnwrittenSlots
<1> QED BY <1>2, <1>3

(* A prefix of a sequence is a sequence over the same set.                 *)
LEMMA PrefixType ==
  ASSUME NEW S, NEW q \in Seq(S), NEW n \in Int, n <= Len(q)
  PROVE  SubSeq(q, 1, n) \in Seq(S)
<1>1. \A i \in 1 .. n : q[i] \in S
  BY ElementOfSeq, LenProperties
<1> QED BY <1>1, SubSeqProperties

LEMMA AllButLastType ==
  ASSUME NEW S, NEW q \in Seq(S)
  PROVE  AllButLast(q) \in Seq(S)
<1>1. Len(q) - 1 \in Int /\ Len(q) - 1 <= Len(q)
  BY LenProperties
<1> QED BY <1>1, PrefixType DEF AllButLast

LEMMA AppendSectorType ==
  ASSUME BitmapType, ListType, NEW f \in Sector, NEW s \in Sector,
         AppendSector(f, s)
  PROVE  BitmapType' /\ ListType'
<1> DEFINE behind == ContMax - LastCount(f) - 2
           keep == IF Len(tail[f]) <= behind THEN Len(tail[f])
                   ELSE IF behind < 0 THEN 0 ELSE behind
<1>1. LastCount(f) \in Int
  BY FileSectorsAssumption, LenProperties DEF ListType, LastCount
<1>2. keep \in Int /\ keep <= Len(tail[f])
  BY <1>1, FileSectorsAssumption, LenProperties DEF ListType
<1>3. SubSeq(tail[f], 1, keep) \in Seq(Sector)
  <2> HIDE DEF keep
  <2> QED BY <1>2, PrefixType DEF ListType
<1>4. tail' = [tail EXCEPT ![f] = SubSeq(tail[f], 1, keep)]
  BY DEF AppendSector
<1>5. tail' \in [Sector -> Seq(Sector)]
  <2> HIDE DEF keep
  <2> QED BY <1>3, <1>4 DEF ListType
<1>6. Append(data[f], s) \in Seq(Sector)
  BY AppendProperties DEF ListType
<1>7. data' \in [Sector -> Seq(Sector)]
  BY <1>6 DEF ListType, AppendSector
<1>8. BitmapType'
  BY MarkType DEF AppendSector
<1> QED BY <1>5, <1>7, <1>8 DEF ListType, AppendSector

LEMMA AddContentInodeType ==
  ASSUME BitmapType, ListType,
         NEW f \in Sector, NEW s \in Sector, NEW c \in Sector,
         AddContentInode(f, s, c)
  PROVE  BitmapType' /\ ListType'
<1>1. Append(data[f], s) \in Seq(Sector) /\ Append(chain[f], c) \in Seq(Sector)
  BY AppendProperties DEF ListType
<1>2. UnwrittenSlots(c) \in Seq(Sector)
  BY UnwrittenType
<1>3. BitmapType'
  BY MarkType DEF AddContentInode
<1>4. stale' \in BOOLEAN
  BY DEF ListType, AddContentInode
<1> QED BY <1>1, <1>2, <1>3, <1>4 DEF ListType, AddContentInode

LEMMA RemoveLastSectorType ==
  ASSUME BitmapType, ListType, NEW f \in Sector, RemoveLastSector(f)
  PROVE  BitmapType' /\ ListType'
<1>1. AllButLast(data[f]) \in Seq(Sector)
  BY AllButLastType DEF ListType
<1>2. BitmapType'
  BY EraseType DEF RemoveLastSector
<1> QED BY <1>1, <1>2 DEF ListType, RemoveLastSector

LEMMA RemoveContentInodeType ==
  ASSUME BitmapType, ListType, NEW f \in Sector, RemoveContentInode(f)
  PROVE  BitmapType' /\ ListType'
<1>1. AllButLast(chain[f]) \in Seq(Sector)
  BY AllButLastType DEF ListType
<1>2. BitmapType'
  BY EraseType DEF RemoveContentInode
<1>3. <<>> \in Seq(Sector)
  OBVIOUS
<1> QED BY <1>1, <1>2, <1>3 DEF ListType, RemoveContentInode

-----------------------------------------------------------------------------
(* The calls.                                                              *)

(* What a step leaves alone keeps its type.                                *)
LEMMA UnchangedBitmap == BitmapType /\ UNCHANGED bitmapVars => BitmapType'
BY DEF BitmapType, bitmapVars

LEMMA UnchangedLists == ListType /\ UNCHANGED listVars => ListType'
BY DEF ListType, listVars

LEMMA UnchangedTree == TreeType /\ UNCHANGED treeVars => TreeType'
BY DEF TreeType, treeVars

LEMMA ConstantTypes ==
  /\ Root \in Sector /\ Root + 1 \in Sector /\ 0 \in Sector
  /\ \A n \in Names \cup {NoName} : EntrySize[n] \in Int
  /\ LogSize \in Int /\ LogSize > 0
  /\ \A b \in FileSizes : b \in Int
BY VolumeAssumption, SectorMapAssumption DEF Sector

LEMMA SectorsForType ==
  ASSUME NEW b \in Int
  PROVE  SectorsFor(b) \in Int
BY ConstantTypes DEF SectorsFor

LEMMA ListLength ==
  ASSUME ListType, NEW f \in Sector
  PROVE  Len(FileSectorList(f)) \in Nat /\ FileSectorList(f) \in Seq(Sector)
BY ConcatProperties, LenProperties DEF ListType, FileSectorList

(* ccos_write_file begins with well-typed registers.                       *)
LEMMA CallWriteType ==
  ASSUME NEW f \in Sector, NEW count \in Int, NEW bytes \in Int,
         NEW r \in RetLabels, CallWrite(f, count, bytes, r)
  PROVE  /\ target' \in Sector /\ newSize' \in Int /\ left' \in Int
         /\ ret' \in RetLabels /\ pc' = "write"
BY SectorsForType DEF CallWrite

LEMMA FailType ==
  ASSUME CallType, Fail
  PROVE  /\ err' \in BOOLEAN /\ pc' \in PcLabels /\ pc' # "delete"
         /\ orphans' \subseteq Sector
BY DEF CallType, Fail, PcLabels

LEMMA FrameType ==
  ASSUME TreeType, NEW f \in Sector
  PROVE  Frame(f) \in Frames
BY DEF Frame, Frames, TreeType

(* The sub-steps of ccos_write_file.                                       *)
LEMMA WriteTypes ==
  ASSUME TypeOK,
         \/ GrowInPlace \/ GrowGrab \/ GrowNoSpace \/ Extend \/ ExtendNoSpace
         \/ Shrink \/ ShrinkNothing \/ Trim \/ Store
  PROVE  TypeOK'
<1> USE DEF TypeOK
<1>1. CASE GrowInPlace
  <2>1. BitmapType' /\ ListType'
    BY <1>1, AppendSectorType DEF GrowInPlace, CallType
  <2>2. TreeType'
    BY <1>1, UnchangedTree DEF GrowInPlace
  <2>3. CallType'
    BY <1>1 DEF GrowInPlace, CallType, callVars, histVars
  <2> QED BY <2>1, <2>2, <2>3
<1>2. CASE GrowGrab
  <2>1. BitmapType'
    BY <1>2, MarkType DEF GrowGrab, GrabSector
  <2>2. ListType'
    BY <1>2 DEF GrowGrab, GrabSector, ListType
  <2>3. TreeType'
    BY <1>2, UnchangedTree DEF GrowGrab
  <2>4. CallType'
    BY <1>2 DEF GrowGrab, CallType, callVars, histVars, writeVars, PcLabels
  <2> QED BY <2>1, <2>2, <2>3, <2>4
<1>3. CASE GrowNoSpace
  <2>1. BitmapType' /\ ListType' /\ TreeType'
    BY <1>3, UnchangedBitmap, UnchangedLists, UnchangedTree DEF GrowNoSpace
  <2>2. CallType'
    BY <1>3, FailType DEF GrowNoSpace, CallType, callVars, writeVars
  <2> QED BY <2>1, <2>2
<1>4. CASE Extend
  <2>1. BitmapType' /\ ListType'
    BY <1>4, AddContentInodeType DEF Extend, CallType, ListType
  <2>2. TreeType'
    BY <1>4, UnchangedTree DEF Extend
  <2>3. CallType'
    BY <1>4 DEF Extend, CallType, callVars, histVars, PcLabels
  <2> QED BY <2>1, <2>2, <2>3
<1>5. CASE ExtendNoSpace
  <2>1. BitmapType'
    BY <1>5, EraseType DEF ExtendNoSpace, DropGrabbed
  <2>2. ListType'
    BY <1>5 DEF ExtendNoSpace, DropGrabbed, ListType
  <2>3. TreeType'
    BY <1>5, UnchangedTree DEF ExtendNoSpace
  <2>4. CallType'
    BY <1>5, FailType DEF ExtendNoSpace, CallType, callVars, writeVars
  <2> QED BY <2>1, <2>2, <2>3, <2>4
<1>6. CASE Shrink
  <2>1. BitmapType' /\ ListType'
    BY <1>6, RemoveLastSectorType DEF Shrink, CallType
  <2>2. TreeType'
    BY <1>6, UnchangedTree DEF Shrink
  <2>3. CallType'
    BY <1>6 DEF Shrink, CallType, callVars, histVars, PcLabels
  <2> QED BY <2>1, <2>2, <2>3
<1>7. CASE ShrinkNothing
  <2>1. BitmapType' /\ ListType' /\ TreeType'
    BY <1>7, UnchangedBitmap, UnchangedLists, UnchangedTree DEF ShrinkNothing
  <2>2. CallType'
    BY <1>7 DEF ShrinkNothing, CallType, callVars, histVars
  <2> QED BY <2>1, <2>2
<1>8. CASE Trim
  <2>1. BitmapType' /\ ListType'
    BY <1>8, RemoveContentInodeType DEF Trim, CallType
  <2>2. TreeType'
    BY <1>8, UnchangedTree DEF Trim
  <2>3. CallType'
    BY <1>8 DEF Trim, CallType, callVars, histVars, PcLabels
  <2> QED BY <2>1, <2>2, <2>3
<1>9. CASE Store
  <2>1. BitmapType' /\ ListType'
    BY <1>9, UnchangedBitmap, UnchangedLists DEF Store
  <2>2. Len(FileSectorList(target)) * LogSize \in Int
    BY ListLength, ConstantTypes DEF CallType
  <2>3. Least(newSize, Len(FileSectorList(target)) * LogSize) \in Int
    BY <2>2 DEF Least, CallType
  <2>4. TreeType'
    BY <1>9, <2>3 DEF Store, TreeType
  <2>5. CallType'
    BY <1>9 DEF Store, CallType, callVars, histVars, writeVars, PcLabels,
                RetLabels
  <2> QED BY <2>1, <2>4, <2>5
<1> QED BY <1>1, <1>2, <1>3, <1>4, <1>5, <1>6, <1>7, <1>8, <1>9
(* A fresh inode, for ccos_add_file and ccos_copy_file.                    *)
LEMMA NewInodeType ==
  ASSUME BitmapType, ListType, TreeType, NEW s \in Sector, NEW d \in Sector,
         NEW n \in Names \cup {NoName}, NEW bytes \in Int,
         NewInode(s, d, n, bytes)
  PROVE  BitmapType' /\ ListType' /\ TreeType'
<1>1. BitmapType'
  BY MarkType DEF NewInode
<1>2. <<>> \in Seq(Sector)
  OBVIOUS
<1>3. ListType'
  BY <1>2 DEF NewInode, InitInode, ListType
<1>4. TreeType'
  BY DEF NewInode, TreeType
<1> QED BY <1>1, <1>3, <1>4

(* Linking and unlinking.                                                  *)
LEMMA LinkTypes ==
  ASSUME TypeOK,
         \/ Link \/ LinkExists \/ AddEntry
         \/ Unlink \/ UnlinkMissing \/ Resize \/ DropEntry
  PROVE  TypeOK'
<1> USE DEF TypeOK
<1>0. /\ Len(FileSectorList(dir)) \in Int
      /\ size[dir] \in Int /\ EntrySize[name[cur]] \in Int
      /\ RealDirSize(dir) \in Int
  BY ListLength, ConstantTypes DEF CallType, TreeType, RealDirSize
<1>1. CASE Link
  <2>1. BitmapType' /\ ListType' /\ TreeType'
    BY <1>1, UnchangedBitmap, UnchangedLists, UnchangedTree DEF Link
  <2>2. RealDirSize(dir) + EntrySize[name[cur]] \in Int
    BY <1>0
  <2>3. CallWrite(dir, Len(FileSectorList(dir)),
                  RealDirSize(dir) + EntrySize[name[cur]], "linked")
    BY <1>1 DEF Link
  <2>4. /\ target' \in Sector /\ newSize' \in Int /\ left' \in Int
        /\ ret' \in RetLabels /\ pc' = "write"
    BY <1>0, <2>2, <2>3, CallWriteType DEF CallType, RetLabels
  <2>5. CallType'
    BY <1>1, <2>4 DEF Link, CallType, callVars, histVars, PcLabels
  <2> QED BY <2>1, <2>5
<1>2. CASE LinkExists
  <2>1. BitmapType' /\ ListType' /\ TreeType'
    BY <1>2, UnchangedBitmap, UnchangedLists, UnchangedTree DEF LinkExists
  <2>2. CallType'
    BY <1>2, FailType DEF LinkExists, CallType, callVars, writeVars
  <2> QED BY <2>1, <2>2
<1>3. CASE AddEntry
  <2>1. BitmapType' /\ ListType'
    BY <1>3, UnchangedBitmap, UnchangedLists DEF AddEntry
  <2>2. TreeType'
    BY <1>3 DEF AddEntry, TreeType, CallType
  <2>3. CallType'
    BY <1>3 DEF AddEntry, CallType, callVars, histVars, writeVars, PcLabels
  <2> QED BY <2>1, <2>2, <2>3
<1>4. CASE Unlink
  <2>1. BitmapType' /\ ListType' /\ TreeType'
    BY <1>4, UnchangedBitmap, UnchangedLists, UnchangedTree DEF Unlink
  <2>2. CallWrite(dir, Len(FileSectorList(dir)), size[dir], "resize")
    BY <1>4 DEF Unlink
  <2>3. /\ target' \in Sector /\ newSize' \in Int /\ left' \in Int
        /\ ret' \in RetLabels /\ pc' = "write"
    BY <1>0, <2>2, CallWriteType DEF CallType, RetLabels
  <2>4. CallType'
    BY <1>4, <2>3 DEF Unlink, CallType, callVars, histVars, PcLabels
  <2> QED BY <2>1, <2>4
<1>5. CASE UnlinkMissing
  <2>1. BitmapType' /\ ListType' /\ TreeType'
    BY <1>5, UnchangedBitmap, UnchangedLists, UnchangedTree DEF UnlinkMissing
  <2>2. CallType'
    BY <1>5 DEF UnlinkMissing, CallType, callVars, histVars, writeVars,
                PcLabels
  <2> QED BY <2>1, <2>2
<1>6. CASE Resize
  <2>1. BitmapType' /\ ListType' /\ TreeType'
    BY <1>6, UnchangedBitmap, UnchangedLists, UnchangedTree DEF Resize
  <2>2. newSize - EntrySize[name[cur]] \in Int
    BY <1>0 DEF CallType
  <2>3. CallWrite(dir, Len(FileSectorList(dir)),
                  newSize - EntrySize[name[cur]], "unlinked")
    BY <1>6 DEF Resize
  <2>4. /\ target' \in Sector /\ newSize' \in Int /\ left' \in Int
        /\ ret' \in RetLabels /\ pc' = "write"
    BY <1>0, <2>2, <2>3, CallWriteType DEF CallType, RetLabels
  <2>5. CallType'
    BY <1>6, <2>4 DEF Resize, CallType, callVars, histVars, PcLabels
  <2> QED BY <2>1, <2>5
<1>7. CASE DropEntry
  <2>1. BitmapType' /\ ListType'
    BY <1>7, UnchangedBitmap, UnchangedLists DEF DropEntry
  <2>2a. PICK e \in Matching(dir, cur) :
           entries' = [entries EXCEPT ![dir] = @ \ {e}]
    BY <1>7 DEF DropEntry
  <2>2b. entries' \in [Sector -> SUBSET Sector]
    BY <2>2a DEF TreeType, CallType
  <2>2c. name' \in [Sector -> Names \cup {NoName}]
    BY <1>7 DEF DropEntry, TreeType, CallType
  <2>2d. size' \in [Sector -> Int] /\ parent' = parent
    BY <1>7 DEF DropEntry, TreeType, CallType
  <2>2. TreeType'
    BY <2>2b, <2>2c, <2>2d DEF TreeType
  <2>3. CallType'
    BY <1>7 DEF DropEntry, CallType, callVars, histVars, writeVars, PcLabels
  <2> QED BY <2>1, <2>2, <2>3
<1> QED BY <1>1, <1>2, <1>3, <1>4, <1>5, <1>6, <1>7
(* ccos_delete_file and erase_unlinked_file.                               *)
LEMMA DeleteTypes ==
  ASSUME TypeOK,
         \/ DeleteChild \/ DeleteTop \/ ReturnToLoop \/ Return
         \/ Collect \/ EraseDataSector \/ EraseContentInode \/ EraseFile
  PROVE  TypeOK'
<1> USE DEF TypeOK
<1>1. CASE DeleteChild
  <2>1. BitmapType' /\ ListType' /\ TreeType'
    BY <1>1, UnchangedBitmap, UnchangedLists, UnchangedTree DEF DeleteChild
  <2>2. stack # <<>> /\ stack \in Seq(Frames)
    BY <1>1 DEF DeleteChild, CallType
  <2>3. Len(stack) \in 1 .. Len(stack) /\ stack[Len(stack)] \in Frames
    BY <2>2, EmptySeq, ElementOfSeq
  <2>4. PICK k \in stack[Len(stack)].kids :
          stack' = Append([stack EXCEPT ![Len(stack)].kids = @ \ {k}], Frame(k))
    BY <1>1 DEF DeleteChild
  <2> DEFINE top == [stack[Len(stack)] EXCEPT !.kids = @ \ {k}]
             rest == [stack EXCEPT ![Len(stack)] = top]
  <2>5. top \in Frames
    BY <2>3 DEF Frames
  <2>6. rest \in Seq(Frames)
    BY <2>2, <2>3, <2>5, ExceptSeq
  <2>7. Frame(k) \in Frames
    BY <2>3, <2>4, FrameType DEF Frames
  <2>8. stack' = Append(rest, Frame(k))
    BY <2>4
  <2>9. stack' \in Seq(Frames) /\ stack' # <<>>
    <3> HIDE DEF rest
    <3> QED BY <2>6, <2>7, <2>8, AppendProperties
  <2>10. CallType'
    BY <1>1, <2>9 DEF DeleteChild, CallType, callVars, histVars, writeVars
  <2> QED BY <2>1, <2>10
<1>2. CASE DeleteTop
  <2>1. BitmapType' /\ ListType' /\ TreeType'
    BY <1>2, UnchangedBitmap, UnchangedLists, UnchangedTree DEF DeleteTop
  <2>2. stack # <<>> /\ stack \in Seq(Frames)
    BY <1>2 DEF DeleteTop, CallType
  <2>3. stack[Len(stack)] \in Frames
    BY <2>2, EmptySeq, ElementOfSeq
  <2>4. cur' \in Sector /\ dir' \in Sector
    BY <1>2, <2>3 DEF DeleteTop, Frames, TreeType
  <2>5. dangling' \in BOOLEAN /\ err' \in BOOLEAN /\ pc' = "unlink"
    BY <1>2 DEF DeleteTop
  <2>6. /\ op' = op /\ newName' = newName /\ before' = before
        /\ damaged' = damaged
        /\ orphans' = orphans /\ doomed' = doomed /\ stack' = stack
        /\ target' = target /\ newSize' = newSize /\ left' = left
        /\ ret' = ret
    BY <1>2 DEF DeleteTop, writeVars
  <2>7. CallType'
    BY <2>4, <2>5, <2>6 DEF CallType, PcLabels
  <2> QED BY <2>1, <2>7
<1>3. CASE ReturnToLoop
  <2>1. BitmapType' /\ ListType' /\ TreeType'
    BY <1>3, UnchangedBitmap, UnchangedLists, UnchangedTree DEF ReturnToLoop
  <2>2. stack \in Seq(Frames) /\ Len(stack) > 1
    BY <1>3 DEF ReturnToLoop, CallType
  <2>3. stack' \in Seq(Frames)
    BY <1>3, <2>2, AllButLastType DEF ReturnToLoop
  <2>4. \A i \in 1 .. Len(stack) - 1 : stack[i] \in Frames
    BY <2>2, ElementOfSeq, LenProperties
  <2>5. Len(stack') = Len(stack) - 1
    <3>1. Len(stack) - 1 \in Int /\ 1 <= Len(stack) - 1
      BY <2>2, LenProperties
    <3>2. Len(SubSeq(stack, 1, Len(stack) - 1)) = Len(stack) - 1
      BY <2>4, <3>1, SubSeqProperties
    <3> QED BY <1>3, <3>2 DEF ReturnToLoop, AllButLast
  <2>6. stack' # <<>>
    BY <2>2, <2>3, <2>5, EmptySeq, LenProperties
  <2>7. CallType'
    BY <1>3, <2>3, <2>6 DEF ReturnToLoop, CallType, callVars, histVars,
                            writeVars, PcLabels
  <2> QED BY <2>1, <2>7
<1>4. CASE Return
  <2>1. BitmapType' /\ ListType' /\ TreeType'
    BY <1>4, UnchangedBitmap, UnchangedLists, UnchangedTree DEF Return
  <2>2. <<>> \in Seq(Frames)
    OBVIOUS
  <2>3. /\ stack' = <<>> /\ pc' = "idle" /\ op' = "none" /\ err' = FALSE
        /\ cur' = Root /\ dir' = Root /\ newName' = NoName /\ before' = {}
        /\ target' = Root /\ newSize' = 0 /\ left' = 0 /\ ret' = "return"
        /\ orphans' = orphans /\ dangling' = dangling /\ doomed' = doomed
        /\ damaged' = damaged
    BY <1>4 DEF Return, histVars
  <2>4. newSize' \in Int /\ left' \in Int
    BY <2>3
  <2>5. /\ cur' \in Sector /\ dir' \in Sector /\ target' \in Sector
        /\ before' \subseteq Sector
    BY <2>3, ConstantTypes
  <2>6. stack' \in Seq(Frames) /\ (pc' = "delete" => stack' # <<>>)
    BY <2>2, <2>3
  <2>7. CallType'
    BY <2>3, <2>4, <2>5, <2>6 DEF CallType, PcLabels, RetLabels
  <2> QED BY <2>1, <2>7
<1>5. CASE Collect
  <2>1. BitmapType'
    BY <1>5, UnchangedBitmap DEF Collect, DetachData
  <2>2. <<>> \in Seq(Sector)
    OBVIOUS
  <2>3. ListType'
    BY <1>5, <2>2 DEF Collect, DetachData, ListType
  <2>4. TreeType'
    BY <1>5, UnchangedTree DEF Collect
  <2>5. doomed' \in Seq(Sector)
    BY <1>5, ListLength DEF Collect, CallType
  <2>6. CallType'
    BY <1>5, <2>5 DEF Collect, CallType, callVars, histVars, writeVars,
                      PcLabels
  <2> QED BY <2>1, <2>3, <2>4, <2>6
<1>6. CASE EraseDataSector
  <2>1. BitmapType'
    BY <1>6, EraseType DEF EraseDataSector
  <2>2. ListType' /\ TreeType'
    BY <1>6, UnchangedLists, UnchangedTree DEF EraseDataSector
  <2>3. doomed' \in Seq(Sector)
    BY <1>6, HeadTailProperties DEF EraseDataSector, CallType
  <2>4. CallType'
    BY <1>6, <2>3 DEF EraseDataSector, CallType, callVars, histVars, writeVars
  <2> QED BY <2>1, <2>2, <2>4
<1>7. CASE EraseContentInode
  <2>1. BitmapType' /\ ListType'
    BY <1>7, RemoveContentInodeType DEF EraseContentInode, CallType
  <2>2. TreeType'
    BY <1>7, UnchangedTree DEF EraseContentInode
  <2>3. CallType'
    BY <1>7 DEF EraseContentInode, CallType, callVars, histVars, writeVars
  <2> QED BY <2>1, <2>2, <2>3
<1>8. CASE EraseFile
  <2>1. BitmapType'
    BY <1>8, EraseType DEF EraseFile, EraseInode
  <2>2. ListType'
    BY <1>8 DEF EraseFile, EraseInode, ListType
  <2>3. /\ entries' = [entries EXCEPT ![cur] = {}]
        /\ name' = [name EXCEPT ![cur] = NoName]
        /\ parent' = [parent EXCEPT ![cur] = 0]
        /\ size' = [size EXCEPT ![cur] = 0]
    BY <1>8 DEF EraseFile
  <2>3a. entries' \in [Sector -> SUBSET Sector]
    BY <2>3 DEF TreeType
  <2>3b. name' \in [Sector -> Names \cup {NoName}]
    BY <2>3 DEF TreeType
  <2>3c. parent' \in [Sector -> Sector]
    BY <2>3, ConstantTypes DEF TreeType
  <2>3d. size' \in [Sector -> Int]
    <3>1. ASSUME NEW f \in [Sector -> Int], NEW z \in Int
          PROVE  [f EXCEPT ![cur] = z] \in [Sector -> Int]
      OBVIOUS
    <3> QED BY <2>3, <3>1 DEF TreeType
  <2>4. CallType'
    BY <1>8 DEF EraseFile, CallType, callVars, histVars, writeVars, PcLabels
  <2> QED BY <2>1, <2>2, <2>3a, <2>3b, <2>3c, <2>3d, <2>4 DEF TreeType
<1> QED BY <1>1, <1>2, <1>3, <1>4, <1>5, <1>6, <1>7, <1>8

(* The first step of a call.                                               *)
LEMMA BeginTypes ==
  ASSUME TypeOK, Begin
  PROVE  TypeOK'
<1> USE DEF TypeOK
<1>1. ASSUME NEW d \in Sector, NEW n \in Names, NEW bytes \in Int,
             BeginCreate(d, n, bytes)
      PROVE  TypeOK'
  <2>1. PICK s \in Sector : /\ BeginCall("create", s, d)
                            /\ NewInode(s, d, n, bytes)
                            /\ CallWrite(s, 0, bytes, "link")
    BY <1>1 DEF BeginCreate
  <2>2. BitmapType' /\ ListType' /\ TreeType'
    BY <1>1, <2>1, NewInodeType
  <2>3. /\ target' \in Sector /\ newSize' \in Int /\ left' \in Int
        /\ ret' \in RetLabels /\ pc' = "write"
    BY <1>1, <2>1, CallWriteType DEF RetLabels
  <2>4. CallType'
    BY <1>1, <2>1, <2>3 DEF BeginCreate, BeginCall, CallType, histVars,
                            PcLabels, BitmapType
  <2> QED BY <2>2, <2>4
<1>2. ASSUME NEW d \in Sector, CreateNoSpace(d)
      PROVE  TypeOK'
  <2>1. BitmapType' /\ ListType' /\ TreeType'
    BY <1>2, UnchangedBitmap, UnchangedLists, UnchangedTree DEF CreateNoSpace
  <2>2. CallType'
    BY <1>2, ConstantTypes DEF CreateNoSpace, BeginCall, CallType, histVars,
                               writeVars, PcLabels, BitmapType
  <2> QED BY <2>1, <2>2
<1>3. ASSUME NEW d \in Sector, CopySourceUnreadable(d)
      PROVE  TypeOK'
  <2>1. PICK s \in Sector : /\ BeginCall("create", s, d)
                            /\ NewInode(s, d, NoName, 0)
    BY <1>3 DEF CopySourceUnreadable
  <2>2. BitmapType' /\ ListType' /\ TreeType'
    BY <2>1, NewInodeType
  <2>3. CallType'
    BY <1>3, <2>1 DEF CopySourceUnreadable, BeginCall, CallType, histVars,
                      writeVars, PcLabels, BitmapType
  <2> QED BY <2>2, <2>3
<1>4. ASSUME NEW f \in Sector, NEW bytes \in Int, BeginWrite(f, bytes)
      PROVE  TypeOK'
  <2>1. BitmapType' /\ ListType' /\ TreeType'
    BY <1>4, UnchangedBitmap, UnchangedLists, UnchangedTree DEF BeginWrite
  <2>2. Len(FileSectorList(f)) \in Int
    BY ListLength
  <2>3. CallWrite(f, Len(FileSectorList(f)), bytes, "return")
    BY <1>4 DEF BeginWrite
  <2>4. /\ target' \in Sector /\ newSize' \in Int /\ left' \in Int
        /\ ret' \in RetLabels /\ pc' = "write"
    BY <1>4, <2>2, <2>3, CallWriteType DEF RetLabels
  <2>5. CallType'
    BY <1>4, <2>4 DEF BeginWrite, BeginCall, CallType, histVars, PcLabels,
                      BitmapType, TreeType
  <2> QED BY <2>1, <2>5
<1>5. ASSUME NEW f \in Sector, NEW n \in Names, BeginRename(f, n)
      PROVE  TypeOK'
  <2>1. BitmapType' /\ ListType' /\ TreeType'
    BY <1>5, UnchangedBitmap, UnchangedLists, UnchangedTree DEF BeginRename
  <2>2. CallType'
    BY <1>5 DEF BeginRename, BeginCall, CallType, histVars, writeVars,
                PcLabels, BitmapType, TreeType
  <2> QED BY <2>1, <2>2
<1>6. ASSUME NEW f \in Sector, BeginDelete(f)
      PROVE  TypeOK'
  <2>1. BitmapType' /\ ListType' /\ TreeType'
    BY <1>6, UnchangedBitmap, UnchangedLists, UnchangedTree DEF BeginDelete
  <2>2. <<Frame(f)>> \in Seq(Frames) /\ <<Frame(f)>> # <<>>
    BY <1>6, FrameType
  <2>3. CallType'
    BY <1>6, <2>2 DEF BeginDelete, BeginCall, CallType, histVars, writeVars,
                      PcLabels, BitmapType, TreeType
  <2> QED BY <2>1, <2>3
<1>7. \A bytes \in FileSizes \cup {LogSize} : bytes \in Int
  BY ConstantTypes
<1> QED
  BY <1>1, <1>2, <1>3, <1>4, <1>5, <1>6, <1>7 DEF Begin, BeginCreateDir

LEMMA InitType == Init => TypeOK
<1> SUFFICES ASSUME Init PROVE TypeOK
  OBVIOUS
<1> DEFINE U == Reserved \cup {Root, Root + 1}
<1>1. U \subseteq Sector /\ Cardinality(U) \in 0 .. CounterSpan - 1
  <2>1. IsFiniteSet(Sector) /\ Cardinality(Sector) = NumSectors
    BY FS_Interval, SectorMapAssumption DEF Sector
  <2>2. U \subseteq Sector
    BY SectorMapAssumption, VolumeAssumption
  <2> HIDE DEF U
  <2>3. IsFiniteSet(U) /\ Cardinality(U) <= NumSectors
    BY <2>1, <2>2, FS_Subset
  <2>4. Cardinality(U) \in Nat
    BY <2>3, FS_CardinalityType
  <2>5. NumSectors \in Nat /\ NumSectors < CounterSpan
    BY SectorMapAssumption
  <2>6. ASSUME NEW c \in Nat, NEW m \in Nat,
               c <= NumSectors, NumSectors <= m
        PROVE  c \in 0 .. m
    BY <2>5, <2>6
  <2>7. CounterSpan - 1 \in Nat /\ NumSectors <= CounterSpan - 1
    BY <2>5, SpanType
  <2> QED BY <2>2, <2>3, <2>4, <2>6, <2>7
<1>2. BitmapType
  BY <1>1 DEF Init, BitmapType
<1>3. <<>> \in Seq(Sector) /\ <<Root + 1>> \in Seq(Sector)
  BY ConstantTypes
<1>4. ListType
  BY <1>3, ConstantTypes DEF Init, ListType
<1>5. TreeType
  BY ConstantTypes DEF Init, TreeType
<1>6. CallType
  BY ConstantTypes DEF Init, CallType, PcLabels, RetLabels
<1> QED BY <1>2, <1>4, <1>5, <1>6 DEF TypeOK

LEMMA NextType == TypeOK /\ [Next]_vars => TypeOK'
<1> SUFFICES ASSUME TypeOK, [Next]_vars PROVE TypeOK'
  OBVIOUS
<1>1. CASE Begin
  BY <1>1, BeginTypes
<1>2. CASE Step
  BY <1>2, WriteTypes, LinkTypes, DeleteTypes DEF Step
<1>3. CASE UNCHANGED vars
  BY <1>3 DEF vars, bitmapVars, listVars, treeVars, writeVars, callVars,
              histVars, TypeOK, BitmapType, ListType, TreeType, CallType
<1> QED BY <1>1, <1>2, <1>3 DEF Next

(* Every variable keeps its type; in particular the counter stays within   *)
(* its 16 bits and a delete that looks at its innermost frame has one.     *)
THEOREM TypeCorrect == Spec => []TypeOK
BY InitType, NextType, PTL DEF Spec

-----------------------------------------------------------------------------
(* Lists without duplicates.                                               *)

LEMMA AppendElems ==
  ASSUME NEW q \in Seq(Sector), NEW e \in Sector
  PROVE  /\ SeqElems(Append(q, e)) = SeqElems(q) \cup {e}
         /\ Injective(q) /\ e \notin SeqElems(q) => Injective(Append(q, e))
<1> DEFINE r == Append(q, e)
<1>1. /\ r \in Seq(Sector) /\ Len(r) = Len(q) + 1 /\ r[Len(q) + 1] = e
      /\ \A i \in 1 .. Len(q) : r[i] = q[i]
  BY AppendProperties
<1>2. Len(q) \in Nat
  BY LenProperties
<1> HIDE DEF r
<1>3. SeqElems(r) = SeqElems(q) \cup {e}
  BY <1>1, <1>2 DEF SeqElems
<1>4. ASSUME Injective(q), e \notin SeqElems(q)
      PROVE  Injective(r)
  BY <1>1, <1>2, <1>4 DEF SeqElems, Injective
<1> QED BY <1>3, <1>4 DEF r

LEMMA AllButLastElems ==
  ASSUME NEW q \in Seq(Sector), q # <<>>, Injective(q)
  PROVE  /\ q[Len(q)] \in SeqElems(q)
         /\ SeqElems(AllButLast(q)) = SeqElems(q) \ {q[Len(q)]}
         /\ Injective(AllButLast(q))
<1> DEFINE n == Len(q)
           r == AllButLast(q)
<1>1. n \in Nat /\ n > 0
  BY LenProperties, EmptySeq
<1>2. \A i \in 1 .. n - 1 : q[i] \in Sector
  BY <1>1, ElementOfSeq
<1>3. Len(r) = n - 1 /\ \A i \in 1 .. n - 1 : r[i] = q[i]
  <2> HIDE DEF n
  <2>1. 1 \in Int /\ n - 1 \in Int /\ 1 <= (n - 1) + 1
    BY <1>1
  <2>2. /\ Len(SubSeq(q, 1, n - 1)) = (n - 1) - 1 + 1
        /\ \A i \in 1 .. (n - 1) - 1 + 1 : SubSeq(q, 1, n - 1)[i] = q[1 + i - 1]
    BY <1>2, <2>1, SubSeqProperties
  <2>3. r = SubSeq(q, 1, n - 1)
    BY DEF AllButLast, n
  <2> QED BY <1>1, <2>2, <2>3
<1> HIDE DEF r, n
<1>4. SeqElems(q) = {q[i] : i \in 1 .. n} /\ SeqElems(r) = {q[i] : i \in 1 .. n - 1}
  BY <1>1, <1>3 DEF SeqElems, n
<1>5. \A i \in 1 .. n - 1 : q[i] # q[n]
  BY <1>1 DEF Injective, n
<1>6. q[n] \in SeqElems(q) /\ SeqElems(r) = SeqElems(q) \ {q[n]}
  BY <1>1, <1>4, <1>5
<1>7. Injective(r)
  BY <1>1, <1>3 DEF Injective, n
<1> QED BY <1>6, <1>7 DEF n, r

LEMMA TailElems ==
  ASSUME NEW q \in Seq(Sector), q # <<>>, Injective(q)
  PROVE  /\ Head(q) \in SeqElems(q)
         /\ SeqElems(Tail(q)) = SeqElems(q) \ {Head(q)}
         /\ Injective(Tail(q))
<1> DEFINE n == Len(q)
           r == Tail(q)
<1>1. n \in Nat /\ n > 0
  BY LenProperties, EmptySeq
<1>2. Len(r) = n - 1 /\ \A i \in 1 .. n - 1 : r[i] = q[i + 1]
  BY HeadTailProperties, <1>1
<1>3. Head(q) = q[1]
  BY HeadTailProperties, <1>1
<1> HIDE DEF r, n
<1>4. SeqElems(q) = {q[i] : i \in 1 .. n}
      /\ SeqElems(r) = {q[i + 1] : i \in 1 .. n - 1}
  BY <1>1, <1>2 DEF SeqElems, n
<1>5. \A i \in 1 .. n - 1 : q[i + 1] # q[1]
  BY <1>1 DEF Injective, n
<1>6. q[1] \in SeqElems(q) /\ SeqElems(r) = SeqElems(q) \ {q[1]}
  <2>1. \A x : x \in SeqElems(q) /\ x # q[1] => x \in SeqElems(r)
    <3>1. ASSUME NEW i \in 1 .. n, q[i] # q[1]
          PROVE  i - 1 \in 1 .. n - 1 /\ (i - 1) + 1 = i
      BY <1>1, <3>1
    <3> QED BY <1>4, <3>1
  <2>2. \A i \in 1 .. n - 1 : i + 1 \in 1 .. n
    BY <1>1
  <2> QED BY <1>1, <1>4, <1>5, <2>1, <2>2
<1>7. Injective(r)
  BY <1>1, <1>2 DEF Injective, n
<1> QED BY <1>3, <1>6, <1>7 DEF r

LEMMA EmptyElems == SeqElems(<<>>) = {} /\ Injective(<<>>)
BY DEF SeqElems, Injective

-----------------------------------------------------------------------------
(* The counter: within the image no mark and no erasure of it wraps.       *)

LEMMA SmallCount ==
  ASSUME NEW U, U \subseteq Sector
  PROVE  /\ IsFiniteSet(U) /\ Cardinality(U) \in Nat
         /\ Cardinality(U) < CounterSpan
<1>1. NumSectors \in Nat \ {0}
  BY SectorMapAssumption
<1>2. NumSectors < CounterSpan /\ CounterSpan \in Nat
  BY SectorMapAssumption, SpanType
<1>3. IsFiniteSet(Sector) /\ Cardinality(Sector) = NumSectors
  <2>1. 0 \in Int /\ NumSectors - 1 \in Int /\ ~(0 > NumSectors - 1)
    BY <1>1
  <2>2. (NumSectors - 1) - 0 + 1 = NumSectors
    BY <1>1
  <2> QED BY <2>1, <2>2, FS_Interval DEF Sector
<1>4. IsFiniteSet(U) /\ Cardinality(U) <= NumSectors
  BY <1>3, FS_Subset
<1>5. Cardinality(U) \in Nat
  BY <1>4, FS_CardinalityType
<1>6. Cardinality(U) < CounterSpan
  BY <1>1, <1>2, <1>4, <1>5
<1> QED BY <1>4, <1>5, <1>6

LEMMA MarkCounts ==
  ASSUME BitmapType, allocated = Cardinality(used),
         NEW s \in Sector \ used, MarkUsed(s)
  PROVE  used' = used \cup {s} /\ allocated' = Cardinality(used')
<1>1. used' = used \cup {s} /\ used' \subseteq Sector
  BY DEF MarkUsed, BitmapType
<1>2. Cardinality(used') = Cardinality(used) + 1
  BY <1>1, SmallCount, FS_AddElement DEF BitmapType
<1>3. Cardinality(used) \in Nat /\ Cardinality(used) + 1 < CounterSpan
  BY <1>1, <1>2, SmallCount DEF BitmapType
<1>4. (Cardinality(used) + 1) % CounterSpan = Cardinality(used) + 1
  BY <1>3, CounterFits
<1> QED BY <1>1, <1>2, <1>4 DEF MarkUsed

LEMMA EraseCounts ==
  ASSUME BitmapType, allocated = Cardinality(used),
         NEW s \in used, EraseSector(s)
  PROVE  used' = used \ {s} /\ allocated' = Cardinality(used')
<1>1. used' = used \ {s}
  BY DEF EraseSector
<1>2. /\ Cardinality(used') = Cardinality(used) - 1
      /\ Cardinality(used') \in Nat
  BY <1>1, SmallCount, FS_RemoveElement DEF BitmapType
<1>3. Cardinality(used) \in Nat /\ Cardinality(used) < CounterSpan
  BY SmallCount DEF BitmapType
<1>4. (Cardinality(used) - 1) % CounterSpan = Cardinality(used) - 1
  <2>1. /\ Cardinality(used) - 1 \in Nat
        /\ Cardinality(used) - 1 < CounterSpan
    BY <1>2, <1>3, SpanType
  <2> QED BY <2>1, CounterFits
<1> QED BY <1>1, <1>2, <1>4 DEF EraseSector

-----------------------------------------------------------------------------
(* Sectors change hands one at a time.                                     *)

(* Sector s, free so far, becomes a sector of file f.                      *)
LEMMA TakeForFile ==
  ASSUME BitmapType, Partition, NEW f \in inodes, NEW s \in Sector \ used,
         MarkUsed(s),
         inodes' = inodes, doomed' = doomed, grabbed' = grabbed,
         Owned(f)' = Owned(f) \cup {s},
         \A g \in inodes : g # f => Owned(g)' = Owned(g),
         \A g \in inodes : ListsApart(g)'
  PROVE  Partition'
<1>1. used' = used \cup {s} /\ allocated' = Cardinality(used')
  BY MarkCounts DEF Partition, Accounted
<1>2. ~Claimed(s)
  BY DEF Partition, Accounted
<1>3. \A g \in inodes : s \notin Owned(g)
  BY <1>2 DEF Claimed
<1>4. s \notin Reserved /\ s \notin SeqElems(doomed) /\ s \notin grabbed
  BY <1>2 DEF Claimed
<1>5. SeqElems(doomed)' = SeqElems(doomed) /\ Injective(doomed)' = Injective(doomed)
  BY DEF SeqElems, Injective
<1>6. \A t \in Sector : Claimed(t)' <=> Claimed(t) \/ t = s
  BY <1>5 DEF Claimed
<1>7. Accounted'
  BY <1>1, <1>6 DEF Accounted, Partition
<1>8. \A g, h \in inodes : g # h => Owned(g)' \cap Owned(h)' = {}
  BY <1>3 DEF Partition, Disjoint
<1>9. Disjoint'
  BY <1>3, <1>4, <1>5, <1>8 DEF Partition, Disjoint
<1> QED BY <1>7, <1>9 DEF Partition

(* File f gives up one of its sectors.                                     *)
LEMMA GiveUpByFile ==
  ASSUME BitmapType, Partition, NEW f \in inodes, NEW s \in Owned(f),
         EraseSector(s),
         inodes' = inodes, doomed' = doomed, grabbed' = grabbed,
         Owned(f)' = Owned(f) \ {s},
         \A g \in inodes : g # f => Owned(g)' = Owned(g),
         \A g \in inodes : ListsApart(g)',
         s \in Sector
  PROVE  Partition'
<1>1. s \in used
  BY DEF Partition, Accounted, Claimed
<1>2. used' = used \ {s} /\ allocated' = Cardinality(used')
  BY <1>1, EraseCounts DEF Partition, Accounted
<1>3. \A g \in inodes : g # f => s \notin Owned(g)
  BY DEF Partition, Disjoint
<1>4. s \notin Reserved /\ s \notin SeqElems(doomed) /\ s \notin grabbed
  BY DEF Partition, Disjoint
<1>5. SeqElems(doomed)' = SeqElems(doomed) /\ Injective(doomed)' = Injective(doomed)
  BY DEF SeqElems, Injective
<1>6. \A t \in Sector : Claimed(t)' <=> Claimed(t) /\ t # s
  BY <1>3, <1>4, <1>5 DEF Claimed
<1>7. Accounted'
  BY <1>2, <1>6 DEF Accounted, Partition
<1>8. Disjoint'
  BY <1>5 DEF Partition, Disjoint
<1> QED BY <1>7, <1>8 DEF Partition

(* The call takes a free sector.                                           *)
LEMMA TakeForCall ==
  ASSUME BitmapType, Partition, NEW s \in Sector \ used, MarkUsed(s),
         inodes' = inodes, doomed' = doomed,
         grabbed = {}, grabbed' = {s},
         \A g \in inodes : Owned(g)' = Owned(g),
         \A g \in inodes : ListsApart(g)'
  PROVE  Partition'
<1>1. used' = used \cup {s} /\ allocated' = Cardinality(used')
  BY MarkCounts DEF Partition, Accounted
<1>2. ~Claimed(s)
  BY DEF Partition, Accounted
<1>3. /\ \A g \in inodes : s \notin Owned(g)
      /\ s \notin Reserved /\ s \notin SeqElems(doomed)
  BY <1>2 DEF Claimed
<1>5. SeqElems(doomed)' = SeqElems(doomed) /\ Injective(doomed)' = Injective(doomed)
  BY DEF SeqElems, Injective
<1>6. \A t \in Sector : Claimed(t)' <=> Claimed(t) \/ t = s
  BY <1>5 DEF Claimed
<1>7. Accounted'
  BY <1>1, <1>6 DEF Accounted, Partition
<1>8. Disjoint'
  BY <1>3, <1>5 DEF Partition, Disjoint
<1> QED BY <1>7, <1>8 DEF Partition

(* The call gives up a sector that belongs to no file.                     *)
LEMMA GiveUpByCall ==
  ASSUME BitmapType, Partition, NEW s \in Sector, EraseSector(s),
         s \in SeqElems(doomed) \cup grabbed,
         inodes' = inodes,
         SeqElems(doomed)' = SeqElems(doomed) \ {s}, Injective(doomed)',
         grabbed' = grabbed \ {s},
         \A g \in inodes : Owned(g)' = Owned(g),
         \A g \in inodes : ListsApart(g)'
  PROVE  Partition'
<1>1. s \in used
  BY DEF Partition, Accounted, Claimed
<1>2. used' = used \ {s} /\ allocated' = Cardinality(used')
  BY <1>1, EraseCounts DEF Partition, Accounted
<1>3. /\ \A g \in inodes : s \notin Owned(g)
      /\ s \notin Reserved
  BY DEF Partition, Disjoint
<1>4. \A t \in Sector : Claimed(t)' <=> Claimed(t) /\ t # s
  BY <1>3 DEF Claimed
<1>5. Accounted'
  BY <1>2, <1>4 DEF Accounted, Partition
<1>6. Disjoint'
  BY DEF Partition, Disjoint
<1> QED BY <1>5, <1>6 DEF Partition

(* File f takes the call's sector s and a free sector c.                   *)
LEMMA Attach ==
  ASSUME BitmapType, Partition, NEW f \in inodes,
         NEW s \in Sector, grabbed = {s},
         NEW c \in Sector \ used, MarkUsed(c),
         inodes' = inodes, doomed' = doomed, grabbed' = {},
         Owned(f)' = Owned(f) \cup {s, c},
         \A g \in inodes : g # f => Owned(g)' = Owned(g),
         \A g \in inodes : ListsApart(g)'
  PROVE  Partition'
<1>1. used' = used \cup {c} /\ allocated' = Cardinality(used')
  BY MarkCounts DEF Partition, Accounted
<1>2. ~Claimed(c)
  BY DEF Partition, Accounted
<1>3. /\ \A g \in inodes : s \notin Owned(g) /\ c \notin Owned(g)
      /\ {s, c} \cap (Reserved \cup SeqElems(doomed)) = {}
  BY <1>2 DEF Claimed, Partition, Disjoint
<1>5. SeqElems(doomed)' = SeqElems(doomed) /\ Injective(doomed)' = Injective(doomed)
  BY DEF SeqElems, Injective
<1>6. \A t \in Sector : Claimed(t)' <=> Claimed(t) \/ t = c
  BY <1>5 DEF Claimed
<1>7. Accounted'
  BY <1>1, <1>6 DEF Accounted, Partition
<1>8. \A g, h \in inodes : g # h => Owned(g)' \cap Owned(h)' = {}
  BY <1>3 DEF Partition, Disjoint
<1>9. Disjoint'
  BY <1>3, <1>5, <1>8 DEF Partition, Disjoint
<1> QED BY <1>7, <1>9 DEF Partition

(* The call takes over sectors of file f, which it is going to erase.      *)
LEMMA Detach ==
  ASSUME Partition, NEW f \in inodes, UNCHANGED bitmapVars,
         inodes' = inodes, grabbed' = grabbed,
         SeqElems(doomed) = {}, Injective(doomed)',
         SeqElems(doomed)' = Owned(f) \ Owned(f)',
         Owned(f)' \subseteq Owned(f),
         SeqElems(doomed)' \cap grabbed = {},
         \A g \in inodes : g # f => Owned(g)' = Owned(g),
         \A g \in inodes : ListsApart(g)'
  PROVE  Partition'
<1>1. \A t \in Sector : Claimed(t)' <=> Claimed(t)
  BY DEF Claimed
<1>2. Accounted'
  BY <1>1 DEF Accounted, Partition, bitmapVars
<1>3. \A g, h \in inodes : g # h => Owned(g)' \cap Owned(h)' = {}
  BY DEF Partition, Disjoint
<1>4. Disjoint'
  BY <1>3 DEF Partition, Disjoint
<1> QED BY <1>2, <1>4 DEF Partition

(* A file comes into being on a free sector.                               *)
LEMMA TakeForInode ==
  ASSUME BitmapType, Partition, NEW s \in Sector \ used, MarkUsed(s),
         inodes' = inodes \cup {s}, doomed' = doomed, grabbed' = grabbed,
         Owned(s)' = {s},
         \A g \in inodes : g # s => Owned(g)' = Owned(g),
         \A g \in inodes : g # s => ListsApart(g)',
         ListsApart(s)'
  PROVE  Partition' /\ s \notin inodes
<1>1. used' = used \cup {s} /\ allocated' = Cardinality(used')
  BY MarkCounts DEF Partition, Accounted
<1>2. ~Claimed(s)
  BY DEF Partition, Accounted
<1>3. \A g \in inodes : s \notin Owned(g)
  BY <1>2 DEF Claimed
<1>3a. s \notin inodes
  BY <1>3 DEF Owned
<1>4. s \notin Reserved /\ s \notin SeqElems(doomed) /\ s \notin grabbed
  BY <1>2 DEF Claimed
<1>5. SeqElems(doomed)' = SeqElems(doomed) /\ Injective(doomed)' = Injective(doomed)
  BY DEF SeqElems, Injective
<1>6. \A t \in Sector : Claimed(t)' <=> Claimed(t) \/ t = s
  BY <1>3a, <1>5 DEF Claimed
<1>7. Accounted'
  BY <1>1, <1>6 DEF Accounted, Partition
<1>8. \A g, h \in inodes' : g # h => Owned(g)' \cap Owned(h)' = {}
  BY <1>3, <1>3a DEF Partition, Disjoint
<1>9. Disjoint'
  BY <1>3a, <1>4, <1>5, <1>8 DEF Partition, Disjoint
<1> QED BY <1>3a, <1>7, <1>9 DEF Partition

(* A file that has nothing but its inode ceases to be.                     *)
LEMMA GiveUpInode ==
  ASSUME BitmapType, Partition, NEW f \in inodes, f \in Sector,
         EraseSector(f), Owned(f) = {f},
         inodes' = inodes \ {f}, doomed' = doomed, grabbed' = grabbed,
         \A g \in inodes : Owned(g)' = Owned(g),
         \A g \in inodes : ListsApart(g)'
  PROVE  Partition'
<1>1. f \in used
  BY DEF Partition, Accounted, Claimed
<1>2. used' = used \ {f} /\ allocated' = Cardinality(used')
  BY <1>1, EraseCounts DEF Partition, Accounted
<1>3. \A g \in inodes : g # f => f \notin Owned(g)
  BY DEF Partition, Disjoint
<1>4. f \notin Reserved /\ f \notin SeqElems(doomed) /\ f \notin grabbed
  BY DEF Partition, Disjoint
<1>5. SeqElems(doomed)' = SeqElems(doomed) /\ Injective(doomed)' = Injective(doomed)
  BY DEF SeqElems, Injective
<1>6. \A t \in Sector : Claimed(t)' <=> Claimed(t) /\ t # f
  BY <1>3, <1>4, <1>5 DEF Claimed
<1>7. Accounted'
  BY <1>2, <1>6 DEF Accounted, Partition
<1>8. Disjoint'
  BY <1>5 DEF Partition, Disjoint
<1> QED BY <1>7, <1>8 DEF Partition

-----------------------------------------------------------------------------
(* The operations on lists keep the partition.                             *)

(* Files whose lists stay as they are.                                     *)
LEMMA SameLists ==
  ASSUME NEW g, data'[g] = data[g], chain'[g] = chain[g]
  PROVE  Owned(g)' = Owned(g) /\ (ListsApart(g) => ListsApart(g)')
BY DEF Owned, ListsApart

LEMMA OtherLists ==
  ASSUME ListType, Disjoint, NEW f \in Sector,
         \/ data' = data
         \/ \E q : data' = [data EXCEPT ![f] = q],
         \/ chain' = chain
         \/ \E q : chain' = [chain EXCEPT ![f] = q]
  PROVE  \A g \in inodes : g # f => Owned(g)' = Owned(g) /\ ListsApart(g)'
<1> SUFFICES ASSUME NEW g \in inodes, g # f
             PROVE  Owned(g)' = Owned(g) /\ ListsApart(g)'
  OBVIOUS
<1>1. g \in Sector
  BY DEF ListType
<1>2. data'[g] = data[g] /\ chain'[g] = chain[g]
  BY <1>1 DEF ListType
<1> QED BY <1>2, SameLists DEF Disjoint

LEMMA FreeIsUnclaimed ==
  ASSUME Partition, NEW s \in Sector \ used, NEW f \in inodes
  PROVE  s \notin SeqElems(data[f]) /\ s \notin SeqElems(chain[f]) /\ s # f
BY DEF Partition, Accounted, Claimed, Owned

LEMMA AppendSectorKeeps ==
  ASSUME BitmapType, ListType, Partition, doomed' = doomed,
         NEW f \in inodes, NEW s \in Sector \ used, AppendSector(f, s)
  PROVE  /\ Partition'
         /\ Owned(f)' = Owned(f) \cup {s}
         /\ \A g \in inodes : g # f => Owned(g)' = Owned(g)
<1>1. /\ f \in Sector /\ data[f] \in Seq(Sector)
      /\ data' = [data EXCEPT ![f] = Append(data[f], s)]
      /\ inodes' = inodes /\ chain' = chain /\ grabbed' = grabbed
      /\ MarkUsed(s)
  BY DEF ListType, AppendSector
<1>2. data'[f] = Append(data[f], s) /\ chain'[f] = chain[f]
  BY <1>1 DEF ListType
<1>3. \A g \in inodes : g # f => Owned(g)' = Owned(g) /\ ListsApart(g)'
  BY <1>1, OtherLists DEF Partition
<1>4. s \notin SeqElems(data[f]) /\ s \notin SeqElems(chain[f]) /\ s # f
  BY FreeIsUnclaimed
<1>5. ListsApart(f)
  BY DEF Partition, Disjoint
<1>6. /\ SeqElems(data'[f]) = SeqElems(data[f]) \cup {s}
      /\ Injective(data'[f])
  BY <1>1, <1>2, <1>4, <1>5, AppendElems DEF ListsApart
<1>7. Owned(f)' = Owned(f) \cup {s}
  BY <1>2, <1>6 DEF Owned
<1>8. ListsApart(f)'
  BY <1>2, <1>4, <1>5, <1>6 DEF ListsApart
<1>9. \A g \in inodes : ListsApart(g)'
  BY <1>3, <1>8
<1> QED BY <1>1, <1>3, <1>7, <1>9, TakeForFile

LEMMA GrabSectorKeeps ==
  ASSUME BitmapType, ListType, Partition, doomed' = doomed, grabbed = {},
         NEW s \in Sector \ used, GrabSector(s)
  PROVE  /\ Partition'
         /\ \A g \in inodes : Owned(g)' = Owned(g)
<1>1. \A g \in inodes : Owned(g)' = Owned(g) /\ ListsApart(g)'
  BY SameLists DEF GrabSector, Partition, Disjoint
<1> QED BY <1>1, TakeForCall DEF GrabSector

LEMMA AddContentInodeKeeps ==
  ASSUME BitmapType, ListType, Partition, doomed' = doomed,
         NEW f \in inodes, NEW s \in Sector, grabbed = {s},
         NEW c \in Sector \ used, AddContentInode(f, s, c)
  PROVE  /\ Partition'
         /\ Owned(f)' = Owned(f) \cup {s, c}
         /\ \A g \in inodes : g # f => Owned(g)' = Owned(g)
<1>1. /\ f \in Sector /\ data[f] \in Seq(Sector) /\ chain[f] \in Seq(Sector)
      /\ data' = [data EXCEPT ![f] = Append(data[f], s)]
      /\ chain' = [chain EXCEPT ![f] = Append(chain[f], c)]
      /\ inodes' = inodes /\ grabbed' = {}
      /\ MarkUsed(c)
  BY DEF ListType, AddContentInode
<1>2. data'[f] = Append(data[f], s) /\ chain'[f] = Append(chain[f], c)
  BY <1>1 DEF ListType
<1>3. \A g \in inodes : g # f => Owned(g)' = Owned(g) /\ ListsApart(g)'
  BY <1>1, OtherLists DEF Partition
<1>4. c \notin SeqElems(data[f]) /\ c \notin SeqElems(chain[f]) /\ c # f
  BY FreeIsUnclaimed
<1>5. s \notin SeqElems(data[f]) /\ s \notin SeqElems(chain[f]) /\ s # f
  BY DEF Partition, Disjoint, Owned
<1>6. s # c
  BY DEF Partition, Accounted, Claimed
<1>7. ListsApart(f)
  BY DEF Partition, Disjoint
<1>8. /\ SeqElems(data'[f]) = SeqElems(data[f]) \cup {s}
      /\ Injective(data'[f])
      /\ SeqElems(chain'[f]) = SeqElems(chain[f]) \cup {c}
      /\ Injective(chain'[f])
  BY <1>1, <1>2, <1>4, <1>5, <1>7, AppendElems DEF ListsApart
<1>9. Owned(f)' = Owned(f) \cup {s, c}
  BY <1>8 DEF Owned
<1>10. ListsApart(f)'
  BY <1>4, <1>5, <1>6, <1>7, <1>8 DEF ListsApart
<1>11. \A g \in inodes : ListsApart(g)'
  BY <1>3, <1>10
<1> QED BY <1>1, <1>3, <1>9, <1>11, Attach

LEMMA DropGrabbedKeeps ==
  ASSUME BitmapType, ListType, Partition, doomed' = doomed,
         NEW s \in Sector, grabbed = {s}, DropGrabbed(s)
  PROVE  /\ Partition'
         /\ \A g \in inodes : Owned(g)' = Owned(g)
<1>1. \A g \in inodes : Owned(g)' = Owned(g) /\ ListsApart(g)'
  BY SameLists DEF DropGrabbed, Partition, Disjoint
<1>2. SeqElems(doomed)' = SeqElems(doomed) /\ s \notin SeqElems(doomed)
  BY DEF SeqElems, Partition, Disjoint
<1>3. Injective(doomed)'
  BY DEF Injective, Partition, Disjoint
<1> QED BY <1>1, <1>2, <1>3, GiveUpByCall DEF DropGrabbed

LEMMA RemoveLastSectorKeeps ==
  ASSUME BitmapType, ListType, Partition, doomed' = doomed,
         NEW f \in inodes, data[f] # <<>>, RemoveLastSector(f)
  PROVE  /\ Partition'
         /\ data[f][Len(data[f])] \in Owned(f) \ {f}
         /\ Owned(f)' = Owned(f) \ {data[f][Len(data[f])]}
         /\ \A g \in inodes : g # f => Owned(g)' = Owned(g)
<1> DEFINE s == data[f][Len(data[f])]
<1>1. /\ f \in Sector /\ data[f] \in Seq(Sector)
      /\ data' = [data EXCEPT ![f] = AllButLast(data[f])]
      /\ inodes' = inodes /\ chain' = chain /\ grabbed' = grabbed
      /\ EraseSector(s)
  BY DEF ListType, RemoveLastSector
<1>2. data'[f] = AllButLast(data[f]) /\ chain'[f] = chain[f]
  BY <1>1 DEF ListType
<1>3. \A g \in inodes : g # f => Owned(g)' = Owned(g) /\ ListsApart(g)'
  BY <1>1, OtherLists DEF Partition
<1>4. ListsApart(f)
  BY DEF Partition, Disjoint
<1>5. /\ s \in SeqElems(data[f])
      /\ SeqElems(data'[f]) = SeqElems(data[f]) \ {s}
      /\ Injective(data'[f])
  BY <1>1, <1>2, <1>4, AllButLastElems DEF ListsApart
<1>6. s \in Sector
  BY <1>1, EmptySeq, ElementOfSeq, LenProperties
<1> HIDE DEF s
<1>7. s \in Owned(f) \ {f} /\ Owned(f)' = Owned(f) \ {s}
  BY <1>2, <1>4, <1>5 DEF Owned, ListsApart
<1>8. ListsApart(f)'
  BY <1>2, <1>4, <1>5 DEF ListsApart
<1>9. \A g \in inodes : ListsApart(g)'
  BY <1>3, <1>8
<1> QED BY <1>1, <1>3, <1>6, <1>7, <1>9, GiveUpByFile DEF s

LEMMA RemoveContentInodeKeeps ==
  ASSUME BitmapType, ListType, Partition, doomed' = doomed,
         NEW f \in inodes, chain[f] # <<>>, RemoveContentInode(f)
  PROVE  /\ Partition'
         /\ chain[f][Len(chain[f])] \in Owned(f) \ {f}
         /\ Owned(f)' = Owned(f) \ {chain[f][Len(chain[f])]}
         /\ \A g \in inodes : g # f => Owned(g)' = Owned(g)
<1> DEFINE s == chain[f][Len(chain[f])]
<1>1. /\ f \in Sector /\ chain[f] \in Seq(Sector)
      /\ chain' = [chain EXCEPT ![f] = AllButLast(chain[f])]
      /\ inodes' = inodes /\ data' = data /\ grabbed' = grabbed
      /\ EraseSector(s)
  BY DEF ListType, RemoveContentInode
<1>2. chain'[f] = AllButLast(chain[f]) /\ data'[f] = data[f]
  BY <1>1 DEF ListType
<1>3. \A g \in inodes : g # f => Owned(g)' = Owned(g) /\ ListsApart(g)'
  BY <1>1, OtherLists DEF Partition
<1>4. ListsApart(f)
  BY DEF Partition, Disjoint
<1>5. /\ s \in SeqElems(chain[f])
      /\ SeqElems(chain'[f]) = SeqElems(chain[f]) \ {s}
      /\ Injective(chain'[f])
  BY <1>1, <1>2, <1>4, AllButLastElems DEF ListsApart
<1>6. s \in Sector
  BY <1>1, EmptySeq, ElementOfSeq, LenProperties
<1> HIDE DEF s
<1>7. s \in Owned(f) \ {f} /\ Owned(f)' = Owned(f) \ {s}
  BY <1>2, <1>4, <1>5 DEF Owned, ListsApart
<1>8. ListsApart(f)'
  BY <1>2, <1>4, <1>5 DEF ListsApart
<1>9. \A g \in inodes : ListsApart(g)'
  BY <1>3, <1>8
<1> QED BY <1>1, <1>3, <1>6, <1>7, <1>9, GiveUpByFile DEF s

LEMMA DetachKeeps ==
  ASSUME ListType, Partition, doomed = <<>>, grabbed = {},
         NEW f \in inodes, doomed' = data[f], DetachData(f)
  PROVE  /\ Partition'
         /\ Owned(f) = Owned(f)' \cup SeqElems(doomed)'
         /\ \A g \in inodes : g # f => Owned(g)' = Owned(g)
<1>1. /\ f \in Sector /\ data[f] \in Seq(Sector)
      /\ data' = [data EXCEPT ![f] = <<>>]
      /\ inodes' = inodes /\ chain' = chain /\ grabbed' = grabbed
      /\ UNCHANGED bitmapVars
  BY DEF ListType, DetachData
<1>2. data'[f] = <<>> /\ chain'[f] = chain[f]
  BY <1>1 DEF ListType
<1>3. \A g \in inodes : g # f => Owned(g)' = Owned(g) /\ ListsApart(g)'
  BY <1>1, OtherLists DEF Partition
<1>4. ListsApart(f)
  BY DEF Partition, Disjoint
<1>5. ListsApart(f)'
  BY <1>2, <1>4, EmptyElems DEF ListsApart
<1>6. SeqElems(doomed) = {} /\ SeqElems(doomed)' = SeqElems(data[f])
  BY EmptyElems
<1>7. Injective(doomed)'
  BY <1>4 DEF ListsApart
<1>8. Owned(f)' = {f} \cup SeqElems(chain[f])
  BY <1>2, EmptyElems DEF Owned
<1>9. /\ SeqElems(doomed)' = Owned(f) \ Owned(f)'
      /\ Owned(f)' \subseteq Owned(f)
  BY <1>4, <1>6, <1>8 DEF Owned, ListsApart
<1>10. \A g \in inodes : ListsApart(g)'
  BY <1>3, <1>5
<1> QED BY <1>1, <1>3, <1>6, <1>7, <1>9, <1>10, Detach

LEMMA EraseDoomedKeeps ==
  ASSUME BitmapType, ListType, Partition, doomed \in Seq(Sector), grabbed = {},
         doomed # <<>>, doomed' = Tail(doomed), EraseSector(Head(doomed)),
         UNCHANGED listVars
  PROVE  /\ Partition'
         /\ \A g \in inodes : Owned(g)' = Owned(g)
         /\ Head(doomed) \in SeqElems(doomed)
         /\ SeqElems(doomed') = SeqElems(doomed) \ {Head(doomed)}
<1>1. \A g \in inodes : Owned(g)' = Owned(g) /\ ListsApart(g)'
  BY SameLists DEF listVars, Partition, Disjoint
<1>2. Head(doomed) \in Sector
  BY HeadTailProperties
<1>3. /\ Head(doomed) \in SeqElems(doomed)
      /\ SeqElems(doomed') = SeqElems(doomed) \ {Head(doomed)}
      /\ Injective(doomed')
  BY TailElems DEF Partition, Disjoint
<1> QED BY <1>1, <1>2, <1>3, GiveUpByCall DEF listVars

LEMMA InitInodeKeeps ==
  ASSUME BitmapType, ListType, Partition, doomed' = doomed,
         NEW s \in Sector \ used, MarkUsed(s), InitInode(s)
  PROVE  /\ Partition' /\ s \notin inodes /\ Owned(s)' = {s}
         /\ \A g \in inodes : g # s => Owned(g)' = Owned(g)
<1>1. /\ data' = [data EXCEPT ![s] = <<>>]
      /\ chain' = [chain EXCEPT ![s] = <<>>]
      /\ inodes' = inodes \cup {s} /\ grabbed' = grabbed
  BY DEF InitInode
<1>2. data'[s] = <<>> /\ chain'[s] = <<>>
  BY <1>1 DEF ListType
<1>3. \A g \in inodes : g # s => Owned(g)' = Owned(g) /\ ListsApart(g)'
  BY <1>1, OtherLists DEF Partition
<1>4. Owned(s)' = {s} /\ ListsApart(s)'
  BY <1>2, EmptyElems DEF Owned, ListsApart
<1> QED BY <1>1, <1>3, <1>4, TakeForInode

LEMMA EraseInodeKeeps ==
  ASSUME BitmapType, ListType, Partition, doomed' = doomed,
         NEW f \in inodes, data[f] = <<>>, chain[f] = <<>>, EraseInode(f)
  PROVE  /\ Partition'
         /\ Owned(f) = {f}
         /\ \A g \in inodes : Owned(g)' = Owned(g)
<1>1. \A g \in inodes : Owned(g)' = Owned(g) /\ ListsApart(g)'
  BY SameLists DEF EraseInode, Partition, Disjoint
<1>2. Owned(f) = {f} /\ f \in Sector
  BY EmptyElems DEF Owned, ListType
<1> QED BY <1>1, <1>2, GiveUpInode DEF EraseInode

LEMMA NothingMoves ==
  ASSUME Partition, UNCHANGED bitmapVars, UNCHANGED listVars, doomed' = doomed
  PROVE  Partition'
<1>1. \A g \in inodes : Owned(g)' = Owned(g) /\ ListsApart(g)'
  BY SameLists DEF listVars, Partition, Disjoint
<1>2. SeqElems(doomed)' = SeqElems(doomed) /\ Injective(doomed)' = Injective(doomed)
  OBVIOUS
<1>3. \A t \in Sector : Claimed(t)' <=> Claimed(t)
  BY <1>1, <1>2 DEF Claimed, listVars
<1>4. Accounted'
  BY <1>3 DEF Partition, Accounted, bitmapVars
<1>5. Disjoint'
  BY <1>1, <1>2 DEF Partition, Disjoint, listVars
<1> QED BY <1>4, <1>5 DEF Partition

LEMMA SameTree ==
  ASSUME EntriesSound, inodes' = inodes,
         entries' = entries, name' = name, parent' = parent
  PROVE  EntriesSound'
BY DEF EntriesSound

-----------------------------------------------------------------------------
(* The steps of the calls.  A step that keeps the state sound starts in a  *)
(* sound one.                                                              *)

LEMMA SoundBefore ==
  ASSUME TypeOK, [Next]_vars, Sound'
  PROVE  Sound
<1>1. \/ UNCHANGED <<dangling, damaged>>
      \/ \E b \in BOOLEAN : dangling' = (dangling \/ b) /\ damaged' = damaged
      \/ \E b \in BOOLEAN : damaged' = (damaged \/ b) /\ dangling' = dangling
  <2>1. CASE Begin
    BY <2>1 DEF Begin, BeginCreate, BeginCreateDir, CreateNoSpace,
       CopySourceUnreadable, BeginWrite, BeginRename, BeginDelete, histVars
  <2>2. CASE UNCHANGED vars
    BY <2>2 DEF vars, histVars
  <2>3. CASE GrowInPlace \/ GrowGrab \/ GrowNoSpace \/ Extend \/ ExtendNoSpace
              \/ Shrink \/ ShrinkNothing \/ Trim
    BY <2>3 DEF GrowInPlace, GrowGrab, GrowNoSpace, Extend, ExtendNoSpace,
       Shrink, ShrinkNothing, Trim, histVars
  <2>4. CASE Store \/ Collect
    BY <2>4 DEF Store, Collect
  <2>5. CASE DeleteTop
    BY <2>5 DEF DeleteTop
  <2>6. CASE Link \/ LinkExists \/ AddEntry \/ Unlink \/ UnlinkMissing
              \/ Resize \/ DropEntry \/ DeleteChild \/ EraseDataSector
              \/ EraseContentInode \/ EraseFile \/ ReturnToLoop \/ Return
    BY <2>6 DEF Link, LinkExists, AddEntry, Unlink, UnlinkMissing, Resize,
       DropEntry, DeleteChild, EraseDataSector, EraseContentInode, EraseFile,
       ReturnToLoop, Return, histVars
  <2> QED BY <2>1, <2>2, <2>3, <2>4, <2>5, <2>6 DEF Next, Step
<1>2. damaged \in BOOLEAN /\ dangling \in BOOLEAN
  BY DEF TypeOK, CallType
<1>3. ASSUME NEW x \in BOOLEAN, NEW b \in BOOLEAN, ~(x \/ b)
      PROVE  ~x
  BY <1>3
<1>4. (~damaged' => ~damaged) /\ (~dangling' => ~dangling)
  BY <1>1, <1>2, <1>3
<1> QED BY <1>4 DEF Sound

LEMMA SoundState ==
  ASSUME Inductive, [Next]_vars, Sound'
  PROVE  Sound /\ Partition /\ Registers /\ EntriesSound
BY SoundBefore DEF Inductive, SoundOwnership

(* ccos_write_file adds a sector to the file.                              *)
LEMMA GrowOwnership ==
  ASSUME Inductive, GrowInPlace \/ GrowGrab \/ Extend
  PROVE  Calls' /\ SoundOwnership'
<1>0. [Next]_vars /\ TypeOK /\ Calls /\ BitmapType /\ ListType
  BY DEF Next, Step, Inductive, TypeOK
<1>1. Calls'
  BY <1>0 DEF Calls, Linking, Erasing, Writing, GrowInPlace, GrowGrab, Extend,
              callVars, writeVars
<1> SUFFICES ASSUME Sound'
             PROVE  Partition' /\ Registers' /\ EntriesSound'
  BY <1>1 DEF SoundOwnership
<1>2. Sound /\ Partition /\ Registers /\ EntriesSound
  BY <1>0, SoundState
<1>3. EntriesSound'
  BY <1>2, SameTree DEF GrowInPlace, GrowGrab, Extend, AppendSector, GrabSector,
                        AddContentInode, treeVars
<1>4. target \in inodes
  BY <1>2 DEF Registers, Writing, GrowInPlace, GrowGrab, Extend
<1>5. CASE GrowInPlace
  <2>1. PICK s \in Sector : LowestFree(s) /\ AppendSector(target, s)
    BY <1>5 DEF GrowInPlace
  <2>2. s \in Sector \ used
    BY <2>1 DEF LowestFree, Available, Free
  <2>3. Partition'
    BY <1>0, <1>2, <1>4, <1>5, <2>1, <2>2, AppendSectorKeeps DEF GrowInPlace
  <2>4. Registers'
    BY <1>2, <1>5, <2>1 DEF Registers, Linking, Unlinking, Erasing, Writing,
       Unlinked, Matching, GrowInPlace, AppendSector, callVars, treeVars
  <2> QED BY <1>3, <2>3, <2>4
<1>6. CASE GrowGrab
  <2>1. PICK s \in Sector : LowestFree(s) /\ GrabSector(s)
    BY <1>6 DEF GrowGrab
  <2>2. s \in Sector \ used /\ grabbed = {}
    BY <1>2, <1>6, <2>1 DEF LowestFree, Available, Free, Registers, GrowGrab
  <2>3. Partition'
    BY <1>0, <1>2, <1>6, <2>1, <2>2, GrabSectorKeeps DEF GrowGrab
  <2>4. Registers'
    BY <1>2, <1>6, <2>1 DEF Registers, Linking, Unlinking, Erasing, Writing,
       Unlinked, Matching, GrowGrab, GrabSector, callVars, treeVars, writeVars
  <2> QED BY <1>3, <2>3, <2>4
<1>7. CASE Extend
  <2>1. PICK s \in grabbed, c \in Sector :
               LowestFree(c) /\ AddContentInode(target, s, c)
    BY <1>7 DEF Extend
  <2>2. c \in Sector \ used /\ grabbed = {s} /\ s \in Sector
    BY <1>2, <1>7, <2>1 DEF LowestFree, Available, Free, Registers, Extend
  <2>3. Partition'
    BY <1>0, <1>2, <1>4, <1>7, <2>1, <2>2, AddContentInodeKeeps DEF Extend
  <2>4. Registers'
    BY <1>2, <1>7, <2>1 DEF Registers, Linking, Unlinking, Erasing, Writing,
       Unlinked, Matching, Extend, AddContentInode, callVars, treeVars
  <2> QED BY <1>3, <2>3, <2>4
<1> QED BY <1>5, <1>6, <1>7

(* No free sector is left: add and copy go on to erase the file.           *)
LEMMA NoSpaceOwnership ==
  ASSUME Inductive, GrowNoSpace \/ ExtendNoSpace
  PROVE  Calls' /\ SoundOwnership'
<1>0. [Next]_vars /\ TypeOK /\ Calls /\ BitmapType /\ ListType
  BY DEF Next, Step, Inductive, TypeOK
<1>1. Calls'
  BY <1>0 DEF Calls, Erasing, GrowNoSpace, ExtendNoSpace, Fail, callVars
<1> SUFFICES ASSUME Sound'
             PROVE  Partition' /\ Registers' /\ EntriesSound'
  BY <1>1 DEF SoundOwnership
<1>2. Sound /\ Partition /\ Registers /\ EntriesSound
  BY <1>0, SoundState
<1>3. op = "create" => Linking
  BY <1>0 DEF Calls, Erasing, GrowNoSpace, ExtendNoSpace
<1>4. CASE GrowNoSpace
  <2>1. Partition'
    BY <1>2, <1>4, NothingMoves DEF GrowNoSpace
  <2>2. EntriesSound'
    BY <1>2, <1>4, SameTree DEF GrowNoSpace, listVars, treeVars
  <2>3. Registers'
    BY <1>2, <1>3, <1>4 DEF Registers, Linking, Unlinking, Erasing, Writing,
       Unlinked, GrowNoSpace, Fail, callVars, treeVars, listVars
  <2> QED BY <2>1, <2>2, <2>3
<1>5. CASE ExtendNoSpace
  <2>1. PICK s \in grabbed : DropGrabbed(s)
    BY <1>5 DEF ExtendNoSpace
  <2>2. grabbed = {s} /\ s \in Sector
    BY <1>2, <1>5, <2>1 DEF Registers, ExtendNoSpace
  <2>3. Partition'
    BY <1>0, <1>2, <1>5, <2>1, <2>2, DropGrabbedKeeps DEF ExtendNoSpace
  <2>4. EntriesSound'
    BY <1>2, <1>5, <2>1, SameTree DEF ExtendNoSpace, DropGrabbed, treeVars
  <2>5. Registers'
    BY <1>2, <1>3, <1>5, <2>1 DEF Registers, Linking, Unlinking, Erasing,
       Writing, Unlinked, ExtendNoSpace, DropGrabbed, Fail, callVars, treeVars
  <2> QED BY <2>3, <2>4, <2>5
<1> QED BY <1>4, <1>5

(* ccos_write_file removes sectors, or stores and returns.                 *)
LEMMA ShrinkOwnership ==
  ASSUME Inductive, Shrink \/ ShrinkNothing \/ Trim \/ Store
  PROVE  Calls' /\ SoundOwnership'
<1>0. [Next]_vars /\ TypeOK /\ Calls /\ BitmapType /\ ListType
  BY DEF Next, Step, Inductive, TypeOK
<1>1. Calls'
  BY <1>0 DEF Calls, Linking, Erasing, Writing, Shrink, ShrinkNothing, Trim,
              Store, callVars, writeVars, TypeOK, CallType, RetLabels
<1> SUFFICES ASSUME Sound'
             PROVE  Partition' /\ Registers' /\ EntriesSound'
  BY <1>1 DEF SoundOwnership
<1>2. Sound /\ Partition /\ Registers /\ EntriesSound
  BY <1>0, SoundState
<1>3. EntriesSound'
  BY <1>2, SameTree DEF Shrink, ShrinkNothing, Trim, Store, RemoveLastSector,
                        RemoveContentInode, treeVars, listVars
<1>4. target \in inodes /\ target \in Sector
  BY <1>0, <1>2 DEF Registers, Writing, Shrink, ShrinkNothing, Trim, Store,
                    ListType
<1>5. CASE Shrink
  <2>1. Partition'
    BY <1>0, <1>2, <1>4, <1>5, RemoveLastSectorKeeps DEF Shrink
  <2>2. Registers'
    BY <1>2, <1>4, <1>5 DEF Registers, Linking, Unlinking, Erasing, Writing,
       Unlinked, Matching, Shrink, RemoveLastSector, callVars, treeVars
  <2> QED BY <1>3, <2>1, <2>2
<1>6. CASE ShrinkNothing
  <2>1. Partition'
    BY <1>2, <1>6, NothingMoves DEF ShrinkNothing
  <2>2. Registers'
    BY <1>2, <1>6 DEF Registers, Linking, Unlinking, Erasing, Writing,
       Unlinked, Matching, ShrinkNothing, callVars, treeVars, listVars
  <2> QED BY <1>3, <2>1, <2>2
<1>7. CASE Trim
  <2>1. chain[target] # <<>>
    BY <1>2, <1>7 DEF Registers, Trim
  <2>2. Partition'
    BY <1>0, <1>2, <1>4, <1>7, <2>1, RemoveContentInodeKeeps DEF Trim
  <2>3. Registers'
    BY <1>2, <1>7 DEF Registers, Linking, Unlinking, Erasing, Writing,
       Unlinked, Matching, Trim, RemoveContentInode, callVars, treeVars
  <2> QED BY <1>3, <2>2, <2>3
<1>8. CASE Store
  <2>1. Partition'
    BY <1>2, <1>8, NothingMoves DEF Store
  <2>2. pc' = ret /\ ret \in RetLabels
    BY <1>0, <1>8 DEF Store, TypeOK, CallType
  <2>3. Registers'
    BY <1>2, <1>8, <2>2 DEF Registers, Linking, Unlinking, Erasing, Writing,
       Unlinked, Matching, Store, RetLabels, callVars, listVars
  <2> QED BY <1>3, <2>1, <2>3
<1> QED BY <1>5, <1>6, <1>7, <1>8

(* The directory's list is grown, shrunk or about to be: nothing changes   *)
(* but the registers.                                                      *)
LEMMA EntryOwnership ==
  ASSUME Inductive,
         Link \/ LinkExists \/ Unlink \/ UnlinkMissing \/ Resize
  PROVE  Calls' /\ SoundOwnership'
<1>0. [Next]_vars /\ TypeOK /\ Calls
  BY DEF Next, Step, Inductive, TypeOK
<1>1. Calls'
  BY <1>0 DEF Calls, Linking, Erasing, Writing, Link, LinkExists, Unlink,
              UnlinkMissing, Resize, CallWrite, Fail, callVars
<1> SUFFICES ASSUME Sound'
             PROVE  Partition' /\ Registers' /\ EntriesSound'
  BY <1>1 DEF SoundOwnership
<1>2. Sound /\ Partition /\ Registers /\ EntriesSound
  BY <1>0, SoundState
<1>3. /\ UNCHANGED bitmapVars /\ UNCHANGED listVars /\ UNCHANGED treeVars
      /\ doomed' = doomed
  BY DEF Link, LinkExists, Unlink, UnlinkMissing, Resize
<1>4. Partition'
  BY <1>2, <1>3, NothingMoves
<1>5. EntriesSound'
  BY <1>2, <1>3, SameTree DEF listVars, treeVars
<1>6. Registers'
  <2>1. CASE Link
    BY <1>2, <2>1 DEF Registers, Linking, Unlinking, Erasing, Writing,
       Unlinked, Matching, Link, CallWrite, callVars, treeVars, listVars
  <2>2. CASE LinkExists
    BY <1>2, <2>2 DEF Registers, Linking, Unlinking, Erasing, Writing,
       Unlinked, LinkExists, Fail, callVars, treeVars, listVars
  <2>3. CASE Unlink
    BY <1>2, <2>3 DEF Registers, Linking, Unlinking, Erasing, Writing,
       Unlink, CallWrite, callVars, treeVars, listVars
  <2>4. CASE UnlinkMissing
    BY <1>2, <2>4 DEF Registers, Linking, Unlinking, Erasing, Writing,
       UnlinkMissing, callVars, treeVars, listVars
  <2>5. CASE Resize
    BY <1>2, <2>5 DEF Registers, Linking, Unlinking, Erasing, Writing,
       Resize, CallWrite, callVars, treeVars, listVars
  <2> QED BY <2>1, <2>2, <2>3, <2>4, <2>5
<1> QED BY <1>4, <1>5, <1>6

(* The entry is written: the file was in no directory, its name not in     *)
(* this one.                                                               *)
LEMMA AddEntryOwnership ==
  ASSUME Inductive, AddEntry
  PROVE  Calls' /\ SoundOwnership'
<1>0. [Next]_vars /\ TypeOK /\ Calls /\ ListType /\ TreeType
  BY DEF Next, Step, Inductive, TypeOK
<1>1. Calls'
  BY <1>0 DEF Calls, AddEntry, callVars
<1> SUFFICES ASSUME Sound'
             PROVE  Partition' /\ Registers' /\ EntriesSound'
  BY <1>1 DEF SoundOwnership
<1>2. Sound /\ Partition /\ Registers /\ EntriesSound
  BY <1>0, SoundState
<1>3. Partition'
  BY <1>2, NothingMoves DEF AddEntry
<1>4. Registers'
  BY <1>2 DEF Registers, Linking, Unlinking, Erasing, Writing, AddEntry,
              callVars, listVars
<1>5. cur \in inodes /\ dir \in inodes /\ Unlinked(cur) /\ Matching(dir, cur) = {}
  BY <1>2 DEF Registers, Linking, AddEntry
<1>6. /\ entries' = [entries EXCEPT ![dir] = entries[dir] \cup {cur}]
      /\ parent' = [parent EXCEPT ![cur] = dir]
      /\ name' = name /\ inodes' = inodes
  BY DEF AddEntry, listVars
<1>7. EntriesSound'
  <2> SUFFICES ASSUME NEW d \in inodes, NEW e \in entries'[d]
               PROVE  /\ e \in inodes /\ parent'[e] = d
                      /\ \A g \in entries'[d] : name[g] = name[e] => g = e
    BY <1>6 DEF EntriesSound
  <2>1. d \in Sector /\ cur \in Sector /\ inodes \subseteq Sector
    BY <1>0, <1>5 DEF ListType
  <2>2. CASE d = dir
    <3>1. entries'[d] = entries[d] \cup {cur}
      BY <1>0, <1>6, <2>1, <2>2 DEF TreeType
    <3>2. \A g \in entries[d] : g \in inodes /\ parent[g] = d /\ name[g] # name[cur]
      BY <1>2, <1>5, <2>2 DEF EntriesSound, Matching
    <3>3. e \in inodes /\ parent'[e] = d
      BY <1>0, <1>5, <1>6, <2>1, <2>2, <3>1, <3>2 DEF TreeType
    <3>4. \A g, h \in entries[d] : name[g] = name[h] => g = h
      BY <1>2 DEF EntriesSound
    <3> QED BY <3>1, <3>2, <3>3, <3>4
  <2>3. CASE d # dir
    <3>1. entries'[d] = entries[d]
      BY <1>0, <1>6, <2>1, <2>3 DEF TreeType
    <3>2. e \in inodes /\ parent[e] = d /\ e # cur
      BY <1>2, <1>5, <3>1 DEF EntriesSound, Unlinked
    <3>3. parent'[e] = parent[e]
      BY <1>0, <1>6, <2>1, <3>2 DEF TreeType
    <3> QED BY <1>2, <3>1, <3>2, <3>3 DEF EntriesSound
  <2> QED BY <2>2, <2>3
<1> QED BY <1>3, <1>4, <1>7

(* The entry goes, and it is the file's own although it was found by name. *)
LEMMA DropEntryOwnership ==
  ASSUME Inductive, DropEntry
  PROVE  Calls' /\ SoundOwnership'
<1>0. [Next]_vars /\ TypeOK /\ Calls /\ ListType /\ TreeType
  BY DEF Next, Step, Inductive, TypeOK
<1>1. Calls'
  BY <1>0 DEF Calls, Linking, Erasing, Writing, DropEntry, callVars
<1> SUFFICES ASSUME Sound'
             PROVE  Partition' /\ Registers' /\ EntriesSound'
  BY <1>1 DEF SoundOwnership
<1>2. Sound /\ Partition /\ Registers /\ EntriesSound
  BY <1>0, SoundState
<1>3. Partition'
  BY <1>2, NothingMoves DEF DropEntry
<1>4. cur \in inodes /\ dir \in inodes /\ dir = parent[cur]
  BY <1>2 DEF Registers, Unlinking, DropEntry
<1>5. PICK e \in Matching(dir, cur) :
        entries' = [entries EXCEPT ![dir] = entries[dir] \ {e}]
  BY DEF DropEntry
<1>6. parent' = parent /\ inodes' = inodes
  BY DEF DropEntry, listVars
<1>7. inodes \subseteq Sector /\ dir \in Sector /\ cur \in Sector
  BY <1>0, <1>4 DEF ListType
<1>8. \A d \in inodes :
        entries'[d] = IF d = dir THEN entries[d] \ {e} ELSE entries[d]
  BY <1>0, <1>5, <1>7 DEF TreeType
<1>9. \A d \in inodes : cur \notin entries'[d]
  <2> SUFFICES ASSUME NEW d \in inodes, cur \in entries[d]
               PROVE  cur \notin entries'[d]
    BY <1>8
  <2>1. d = dir
    BY <1>2, <1>4 DEF EntriesSound
  <2>2. e = cur
    BY <1>2, <2>1 DEF EntriesSound, Matching
  <2> QED BY <1>8, <2>1, <2>2
<1>10. Registers'
  <2>1. Unlinked(cur)' /\ cur' = cur /\ dir' = dir
    BY <1>6, <1>9 DEF Unlinked, DropEntry, callVars
  <2>2. /\ pc = "unlinked" /\ pc' \in {"link", "collect"}
        /\ grabbed' = grabbed /\ doomed' = doomed /\ inodes' = inodes
    BY DEF DropEntry, listVars
  <2> QED BY <1>2, <1>4, <2>1, <2>2 DEF Registers, Linking, Unlinking,
             Erasing, Writing
<1>11. \A g \in Sector : g # cur => name'[g] = name[g]
  BY <1>0, <1>7 DEF DropEntry, TreeType
<1>12. EntriesSound'
  <2> SUFFICES ASSUME NEW d \in inodes, NEW g \in entries'[d]
               PROVE  /\ g \in inodes /\ parent[g] = d
                      /\ \A h \in entries'[d] : name'[h] = name'[g] => h = g
    BY <1>6 DEF EntriesSound
  <2>1. entries'[d] \subseteq entries[d]
    BY <1>8
  <2>2. \A h \in entries'[d] : h # cur /\ name'[h] = name[h]
    BY <1>2, <1>7, <1>9, <1>11, <2>1 DEF EntriesSound
  <2> QED BY <1>2, <2>1, <2>2 DEF EntriesSound
<1> QED BY <1>3, <1>10, <1>12

(* The loop of the recursive delete.                                       *)
LEMMA LoopOwnership ==
  ASSUME Inductive, DeleteChild \/ DeleteTop \/ ReturnToLoop \/ Return
  PROVE  Calls' /\ SoundOwnership'
<1>0. [Next]_vars /\ TypeOK /\ Calls
  BY DEF Next, Step, Inductive, TypeOK
<1>1. Calls'
  <2>1. CASE DeleteChild
    BY <1>0, <2>1 DEF Calls, DeleteChild, callVars, TypeOK, CallType
  <2>2. CASE DeleteTop
    <3>1. op = "delete" /\ op' = op /\ pc' = "unlink"
      BY <1>0, <2>2 DEF Calls, DeleteTop, TypeOK, CallType
    <3> QED BY <3>1 DEF Calls
  <2>3. CASE ReturnToLoop
    <3>1. stack # <<>>
      BY <2>3 DEF ReturnToLoop
    <3> QED BY <1>0, <2>3, <3>1 DEF Calls, ReturnToLoop, callVars
  <2>4. CASE Return
    BY <2>4 DEF Calls, Return
  <2> QED BY <2>1, <2>2, <2>3, <2>4
<1> SUFFICES ASSUME Sound'
             PROVE  Partition' /\ Registers' /\ EntriesSound'
  BY <1>1 DEF SoundOwnership
<1>2. Sound /\ Partition /\ Registers /\ EntriesSound
  BY <1>0, SoundState
<1>3. /\ UNCHANGED bitmapVars /\ UNCHANGED listVars /\ UNCHANGED treeVars
      /\ doomed' = doomed
  BY DEF DeleteChild, DeleteTop, ReturnToLoop, Return
<1>4. Partition'
  BY <1>2, <1>3, NothingMoves
<1>5. EntriesSound'
  BY <1>2, <1>3, SameTree DEF listVars, treeVars
<1>6. Registers'
  <2>1. CASE DeleteChild \/ ReturnToLoop \/ Return
    <3>1. pc \in {"delete", "return"} /\ pc' \in {"delete", "idle"}
      BY <2>1 DEF DeleteChild, ReturnToLoop, Return
    <3> QED BY <1>2, <1>3, <3>1 DEF Registers, Linking, Unlinking, Erasing,
               Writing, listVars
  <2>2. CASE DeleteTop
    <3>1. {cur', dir'} \subseteq inodes /\ dir' = parent[cur']
      <4>1. /\ cur' = stack[Len(stack)].file
            /\ dir' = parent[stack[Len(stack)].file]
            /\ dangling' = (dangling \/ ~({stack[Len(stack)].file,
                   parent[stack[Len(stack)].file]} \subseteq inodes))
        BY <2>2 DEF DeleteTop
      <4>2. ~dangling'
        BY DEF Sound
      <4> QED BY <4>1, <4>2
    <3>2. pc = "delete" /\ pc' = "unlink"
      BY <2>2 DEF DeleteTop
    <3> QED BY <1>2, <1>3, <3>1, <3>2 DEF Registers, Linking, Unlinking,
               Erasing, Writing, listVars, treeVars
  <2> QED BY <2>1, <2>2
<1> QED BY <1>4, <1>5, <1>6

(* The erasure of a file that is in no directory any more.                 *)
LEMMA EraseOwnership ==
  ASSUME Inductive,
         Collect \/ EraseDataSector \/ EraseContentInode \/ EraseFile
  PROVE  Calls' /\ SoundOwnership'
<1>0. [Next]_vars /\ TypeOK /\ Calls /\ BitmapType /\ ListType /\ TreeType
  BY DEF Next, Step, Inductive, TypeOK
<1>1. Calls'
  BY <1>0 DEF Calls, Erasing, Collect, EraseDataSector, EraseContentInode,
              EraseFile, callVars
<1> SUFFICES ASSUME Sound'
             PROVE  Partition' /\ Registers' /\ EntriesSound'
  BY <1>1 DEF SoundOwnership
<1>2. Sound /\ Partition /\ Registers /\ EntriesSound
  BY <1>0, SoundState
<1>3. /\ cur \in inodes /\ Unlinked(cur) /\ grabbed = {} /\ cur \in Sector
      /\ inodes \subseteq Sector
  BY <1>0, <1>2 DEF Registers, Erasing, ListType, Collect, EraseDataSector,
                    EraseContentInode, EraseFile
<1>4. CASE Collect
  <2>1. tail[cur] = <<>>
    <3>1. damaged' = (damaged \/ tail[cur] # <<>>) /\ ~damaged'
      BY <1>4 DEF Collect, Sound
    <3> QED BY <3>1
  <2>2. doomed' = data[cur] /\ DetachData(cur)
    <3>1. doomed' = data[cur] \o <<>>
      BY <1>4, <2>1 DEF Collect, FileSectorList
    <3> QED BY <1>0, <1>3, <1>4, <3>1, ConcatEmptySeq DEF Collect, ListType
  <2>3. doomed = <<>>
    BY <1>2, <1>4 DEF Registers, Collect
  <2>4. Partition'
    BY <1>0, <1>2, <1>3, <2>2, <2>3, DetachKeeps
  <2>5. EntriesSound'
    BY <1>2, <1>4, SameTree DEF Collect, DetachData, treeVars
  <2>6. data'[cur] = <<>> /\ inodes' = inodes /\ grabbed' = grabbed
    BY <1>0, <1>3, <2>2 DEF DetachData, ListType
  <2>7. Registers'
    BY <1>3, <1>4, <2>6 DEF Registers, Linking, Unlinking, Erasing, Writing,
       Unlinked, Collect, callVars, treeVars
  <2> QED BY <2>4, <2>5, <2>7
<1>5. CASE EraseDataSector
  <2>1. Partition'
    BY <1>0, <1>2, <1>3, <1>5, EraseDoomedKeeps DEF EraseDataSector, TypeOK,
       CallType
  <2>2. EntriesSound'
    BY <1>2, <1>5, SameTree DEF EraseDataSector, treeVars, listVars
  <2>3. Registers'
    BY <1>2, <1>5 DEF Registers, Linking, Unlinking, Erasing, Writing,
       Unlinked, EraseDataSector, callVars, treeVars, listVars
  <2> QED BY <2>1, <2>2, <2>3
<1>6. CASE EraseContentInode
  <2>1. Partition'
    BY <1>0, <1>2, <1>3, <1>6, RemoveContentInodeKeeps DEF EraseContentInode
  <2>2. EntriesSound'
    BY <1>2, <1>6, SameTree DEF EraseContentInode, RemoveContentInode, treeVars
  <2>3. Registers'
    BY <1>2, <1>6 DEF Registers, Linking, Unlinking, Erasing, Writing,
       Unlinked, EraseContentInode, RemoveContentInode, callVars, treeVars
  <2> QED BY <2>1, <2>2, <2>3
<1>7. CASE EraseFile
  <2>1. data[cur] = <<>> /\ chain[cur] = <<>>
    BY <1>2, <1>7 DEF Registers, EraseFile
  <2>2. Partition'
    BY <1>0, <1>2, <1>3, <1>7, <2>1, EraseInodeKeeps DEF EraseFile
  <2>3. /\ inodes' = inodes \ {cur} /\ grabbed' = grabbed /\ doomed' = doomed
        /\ doomed = <<>> /\ pc = "erase" /\ pc' = "return"
    BY <1>7 DEF EraseFile, EraseInode
  <2>4. Registers'
    BY <1>3, <2>3 DEF Registers, Linking, Unlinking, Erasing, Writing
  <2>5. /\ entries' = [entries EXCEPT ![cur] = {}]
        /\ name' = [name EXCEPT ![cur] = NoName]
        /\ parent' = [parent EXCEPT ![cur] = 0]
    BY <1>7 DEF EraseFile
  <2>6. \A g \in Sector : g # cur =>
          entries'[g] = entries[g] /\ name'[g] = name[g] /\ parent'[g] = parent[g]
    BY <1>0, <2>5 DEF TreeType
  <2>7. EntriesSound'
    <3> SUFFICES ASSUME NEW d \in inodes, d # cur, NEW e \in entries'[d]
                 PROVE  /\ e \in inodes \ {cur} /\ parent'[e] = d
                        /\ \A g \in entries'[d] : name'[g] = name'[e] => g = e
      BY <2>3 DEF EntriesSound
    <3>1. entries'[d] = entries[d] /\ cur \notin entries[d]
      BY <1>3, <2>6 DEF Unlinked
    <3>2. \A g \in entries[d] : g \in Sector /\ g # cur
      BY <1>2, <1>3, <3>1 DEF EntriesSound
    <3> QED BY <1>2, <2>6, <3>1, <3>2 DEF EntriesSound
  <2> QED BY <2>2, <2>4, <2>7
<1> QED BY <1>4, <1>5, <1>6, <1>7

(* A new file on a free sector, which no directory names.                  *)
LEMMA NewInodeKeeps ==
  ASSUME BitmapType, ListType, TreeType, Partition, EntriesSound,
         doomed' = doomed,
         NEW s \in Sector, NEW d \in Sector, NEW n, NEW bytes,
         NewInode(s, d, n, bytes)
  PROVE  /\ Partition' /\ EntriesSound' /\ Unlinked(s)'
         /\ inodes' = inodes \cup {s} /\ grabbed' = grabbed
<1>1. s \in Sector \ used /\ MarkUsed(s) /\ InitInode(s)
  BY DEF NewInode, LowestFree, Available, Free
<1>2. Partition' /\ s \notin inodes
  BY <1>1, InitInodeKeeps
<1>3. inodes' = inodes \cup {s} /\ grabbed' = grabbed /\ inodes \subseteq Sector
  BY <1>1 DEF InitInode, ListType
<1>4. /\ entries' = [entries EXCEPT ![s] = {}]
      /\ name' = [name EXCEPT ![s] = n]
      /\ parent' = [parent EXCEPT ![s] = d]
  BY DEF NewInode
<1>5. /\ entries'[s] = {}
      /\ \A g \in Sector : g # s =>
           entries'[g] = entries[g] /\ name'[g] = name[g] /\ parent'[g] = parent[g]
  BY <1>4 DEF TreeType
<1>6. \A g \in inodes' : \A e \in entries'[g] : g \in inodes /\ e \in inodes /\ e \in entries[g]
  BY <1>3, <1>5 DEF EntriesSound
<1>7. Unlinked(s)'
  BY <1>2, <1>6 DEF Unlinked
<1>8. EntriesSound'
  <2> SUFFICES ASSUME NEW g \in inodes', NEW e \in entries'[g]
               PROVE  /\ e \in inodes' /\ parent'[e] = g
                      /\ \A h \in entries'[g] : name'[h] = name'[e] => h = e
    BY DEF EntriesSound
  <2>1. g \in inodes /\ e \in inodes /\ e \in entries[g]
    BY <1>6
  <2>2. parent'[e] = parent[e] /\ name'[e] = name[e] /\ e \in inodes'
    BY <1>2, <1>3, <1>5, <2>1
  <2>3. \A h \in entries'[g] : h \in entries[g] /\ name'[h] = name[h]
    BY <1>2, <1>3, <1>5, <1>6
  <2> QED BY <2>1, <2>2, <2>3 DEF EntriesSound
<1> QED BY <1>2, <1>3, <1>7, <1>8

(* The first step of a call.                                               *)
LEMMA BeginOwnership ==
  ASSUME Inductive, Begin
  PROVE  Calls' /\ SoundOwnership'
<1>0. /\ [Next]_vars /\ TypeOK /\ Calls /\ BitmapType /\ ListType /\ TreeType
      /\ pc = "idle" /\ stack = <<>>
  BY DEF Next, Inductive, TypeOK, Calls, Begin, BeginCreate, BeginCreateDir,
         CreateNoSpace, CopySourceUnreadable, BeginWrite, BeginRename,
         BeginDelete, BeginCall
<1>1. ASSUME Sound'
      PROVE  /\ Partition /\ EntriesSound
             /\ grabbed = {} /\ doomed = <<>>
             /\ Registers
  BY <1>0, <1>1, SoundState DEF Registers
<1>2. ASSUME NEW d \in Sector, NEW n \in Names, NEW bytes \in Int,
             IsOpenDir(d), BeginCreate(d, n, bytes)
      PROVE  Calls' /\ SoundOwnership'
  <2>1. PICK s \in Sector : /\ BeginCall("create", s, d)
                            /\ NewInode(s, d, n, bytes)
                            /\ CallWrite(s, 0, bytes, "link")
    BY <1>2 DEF BeginCreate
  <2>2. doomed' = doomed /\ stack' = stack
    BY <1>2 DEF BeginCreate
  <2>3. Calls'
    BY <1>0, <2>1, <2>2 DEF Calls, Linking, Writing, BeginCall, CallWrite
  <2>4. ASSUME Sound' PROVE Partition' /\ Registers' /\ EntriesSound'
    <3>1. /\ Partition' /\ EntriesSound' /\ Unlinked(s)'
          /\ inodes' = inodes \cup {s} /\ grabbed' = grabbed
      BY <1>0, <1>1, <2>1, <2>2, <2>4, NewInodeKeeps
    <3>2. d \in inodes
      BY <1>2 DEF IsOpenDir
    <3>3. /\ cur' = s /\ dir' = d /\ target' = s /\ pc' = "write"
          /\ ret' = "link"
      BY <2>1 DEF BeginCall, CallWrite
    <3>4. Unlinked(cur)'
      BY <3>1, <3>3 DEF Unlinked
    <3>5. Registers'
      BY <1>1, <2>2, <2>4, <3>1, <3>2, <3>3, <3>4 DEF Registers, Linking,
         Unlinking, Erasing, Writing
    <3> QED BY <3>1, <3>5
  <2> QED BY <2>3, <2>4 DEF SoundOwnership
<1>3. ASSUME NEW d \in Sector, CreateNoSpace(d)
      PROVE  Calls' /\ SoundOwnership'
  <2>1. Calls'
    BY <1>0, <1>3 DEF Calls, CreateNoSpace, BeginCall
  <2>2. ASSUME Sound' PROVE Partition' /\ Registers' /\ EntriesSound'
    <3>1. Partition'
      BY <1>1, <1>3, <2>2, NothingMoves DEF CreateNoSpace
    <3>2. EntriesSound'
      BY <1>1, <1>3, <2>2, SameTree DEF CreateNoSpace, listVars, treeVars
    <3>3. pc' = "return" /\ grabbed' = grabbed /\ doomed' = doomed
      BY <1>3 DEF CreateNoSpace, listVars
    <3>4. Registers'
      BY <1>1, <2>2, <3>3 DEF Registers, Linking, Unlinking, Erasing, Writing
    <3> QED BY <3>1, <3>2, <3>4
  <2> QED BY <2>1, <2>2 DEF SoundOwnership
<1>4. ASSUME NEW d \in Sector, CopySourceUnreadable(d)
      PROVE  Calls' /\ SoundOwnership'
  <2>1. PICK s \in Sector : /\ BeginCall("create", s, d)
                            /\ NewInode(s, d, NoName, 0)
    BY <1>4 DEF CopySourceUnreadable
  <2>2. doomed' = doomed /\ stack' = stack /\ pc' = "collect"
    BY <1>4 DEF CopySourceUnreadable
  <2>3. Calls'
    BY <1>0, <2>1, <2>2 DEF Calls, Erasing, BeginCall
  <2>4. ASSUME Sound' PROVE Partition' /\ Registers' /\ EntriesSound'
    <3>1. /\ Partition' /\ EntriesSound' /\ Unlinked(s)'
          /\ inodes' = inodes \cup {s} /\ grabbed' = grabbed
      BY <1>0, <1>1, <2>1, <2>2, <2>4, NewInodeKeeps
    <3>2. cur' = s /\ cur' \in inodes'
      BY <2>1, <3>1 DEF BeginCall
    <3>3. Unlinked(cur)'
      BY <3>1, <3>2 DEF Unlinked
    <3>4. Registers'
      BY <1>1, <2>2, <2>4, <3>1, <3>2, <3>3 DEF Registers, Linking, Unlinking,
         Erasing, Writing
    <3> QED BY <3>1, <3>4
  <2> QED BY <2>3, <2>4 DEF SoundOwnership
<1>5. ASSUME NEW f \in Sector,
             \/ \E bytes \in FileSizes : BeginWrite(f, bytes)
             \/ \E n \in Names : BeginRename(f, n)
             \/ BeginDelete(f)
      PROVE  Calls' /\ SoundOwnership'
  <2>1. /\ UNCHANGED bitmapVars /\ UNCHANGED listVars /\ UNCHANGED treeVars
        /\ doomed' = doomed
    BY <1>5 DEF BeginWrite, BeginRename, BeginDelete
  <2>2. Calls'
    BY <1>0, <1>5 DEF Calls, BeginWrite, BeginRename, BeginDelete, BeginCall,
                      CallWrite
  <2>3. ASSUME Sound' PROVE Partition' /\ Registers' /\ EntriesSound'
    <3>1. Partition'
      BY <1>1, <2>1, <2>3, NothingMoves
    <3>2. EntriesSound'
      BY <1>1, <2>1, <2>3, SameTree DEF listVars, treeVars
    <3>3. CASE \E bytes \in FileSizes : BeginWrite(f, bytes)
      <4>1. /\ pc' = "write" /\ ret' = "return" /\ target' \in inodes
        BY <3>3 DEF BeginWrite, CallWrite, Linked
      <4>2. Registers'
        BY <1>1, <2>1, <2>3, <4>1 DEF Registers, Linking, Unlinking, Erasing,
           Writing, listVars
      <4> QED BY <3>1, <3>2, <4>2
    <3>4. CASE \E n \in Names : BeginRename(f, n)
      <4>1. /\ pc' = "unlink" /\ cur' = f /\ dir' = parent[f] /\ Linked(f)
        BY <3>4 DEF BeginRename, BeginCall
      <4>2. f \in inodes /\ parent[f] \in inodes
        BY <1>1, <2>3, <4>1 DEF Linked, EntriesSound
      <4>3. Registers'
        BY <1>1, <2>1, <2>3, <4>1, <4>2 DEF Registers, Linking, Unlinking,
           Erasing, Writing, listVars, treeVars
      <4> QED BY <3>1, <3>2, <4>3
    <3>5. CASE BeginDelete(f)
      <4>1. pc' = "delete"
        BY <3>5 DEF BeginDelete
      <4>2. Registers'
        BY <1>1, <2>1, <2>3, <4>1 DEF Registers, Linking, Unlinking, Erasing,
           Writing, listVars
      <4> QED BY <3>1, <3>2, <4>2
    <3> QED BY <1>5, <3>3, <3>4, <3>5
  <2> QED BY <2>2, <2>3 DEF SoundOwnership
<1>6. \A bytes \in FileSizes \cup {LogSize} : bytes \in Int
  BY ConstantTypes
<1> QED BY <1>2, <1>3, <1>4, <1>5, <1>6 DEF Begin, BeginCreateDir

LEMMA InitOwnership == Init => Inductive
<1> SUFFICES ASSUME Init PROVE Inductive
  OBVIOUS
<1>1. TypeOK
  BY InitType
<1>2. Calls
  BY DEF Init, Calls
<1>3. /\ data[Root] = <<Root + 1>> /\ chain[Root] = <<>>
      /\ inodes = {Root} /\ doomed = <<>> /\ grabbed = {}
      /\ used = Reserved \cup {Root, Root + 1}
      /\ Root \in Sector /\ Root + 1 \in Sector /\ Root # Root + 1
      /\ {Root, Root + 1} \cap Reserved = {}
  BY ConstantTypes, VolumeAssumption DEF Init, Sector
<1>4. SeqElems(<<Root + 1>>) = {Root + 1} /\ Injective(<<Root + 1>>)
  BY DEF SeqElems, Injective
<1>5. Owned(Root) = {Root, Root + 1} /\ ListsApart(Root)
  BY <1>3, <1>4, EmptyElems DEF Owned, ListsApart
<1>6. Disjoint
  BY <1>3, <1>5, EmptyElems DEF Disjoint
<1>7. Accounted
  BY <1>3, <1>5, EmptyElems DEF Init, Accounted, Claimed
<1>8. Registers
  BY <1>3 DEF Init, Registers, Linking, Unlinking, Erasing, Writing
<1>9. EntriesSound
  BY <1>3 DEF Init, EntriesSound
<1> QED BY <1>1, <1>2, <1>6, <1>7, <1>8, <1>9 DEF Inductive, SoundOwnership,
           Partition

LEMMA NextOwnership == Inductive /\ [Next]_vars => Inductive'
<1> SUFFICES ASSUME Inductive, [Next]_vars PROVE Inductive'
  OBVIOUS
<1>1. TypeOK'
  BY NextType DEF Inductive
<1>2. CASE Begin
  BY <1>1, <1>2, BeginOwnership DEF Inductive
<1>3. CASE Step
  BY <1>1, <1>3, GrowOwnership, NoSpaceOwnership, ShrinkOwnership,
     EntryOwnership, AddEntryOwnership, DropEntryOwnership, LoopOwnership,
     EraseOwnership DEF Step, Inductive
<1>4. CASE UNCHANGED vars
  <2>1. Calls'
    BY <1>4 DEF Inductive, Calls, Linking, Erasing, Writing, vars, callVars,
                writeVars
  <2>2. ASSUME Sound' PROVE Partition' /\ Registers' /\ EntriesSound'
    <3>1. Partition /\ Registers /\ EntriesSound
      BY <2>2, SoundState
    <3>2. Partition'
      BY <1>4, <3>1, NothingMoves DEF vars
    <3>3. EntriesSound'
      BY <1>4, <3>1, SameTree DEF vars, listVars, treeVars
    <3>4. Registers'
      BY <1>4, <3>1 DEF Registers, Linking, Unlinking, Erasing, Writing,
         Unlinked, Matching, vars, callVars, writeVars, listVars, treeVars
    <3> QED BY <3>2, <3>3, <3>4
  <2> QED BY <1>1, <2>1, <2>2 DEF Inductive, SoundOwnership
<1> QED BY <1>2, <1>3, <1>4 DEF Next

(* At every step of every call the sectors are divided among the files,    *)
(* the call, the system and the free pool, and the call's locals point to  *)
(* live files.                                                             *)
THEOREM InductiveHolds == Spec => []Inductive
BY InitOwnership, NextOwnership, PTL DEF Spec

(* At every step of every call, failures included, the set bits of the     *)
(* bitmap are the sectors somebody holds and no others.                    *)
THEOREM NothingLeaks == Spec => []SectorsAccounted
<1>1. Inductive => SectorsAccounted
  <2> SUFFICES ASSUME Inductive, Sound
               PROVE  used = Reserved \cup (UNION {Owned(f) : f \in inodes})
                             \cup SeqElems(doomed) \cup grabbed
    BY DEF SectorsAccounted
  <2>1. \A s \in Sector : s \in used <=> Claimed(s)
    BY DEF Inductive, SoundOwnership, Partition, Accounted
  <2>2. \A q \in Seq(Sector) : SeqElems(q) \subseteq Sector
    BY ElementOfSeq DEF SeqElems
  <2>3. \A f \in inodes : Owned(f) \subseteq Sector
    <3>1. ListType
      BY DEF Inductive, TypeOK
    <3> QED BY <2>2, <3>1 DEF ListType, Owned
  <2>4. /\ used \subseteq Sector /\ Reserved \subseteq Sector
        /\ SeqElems(doomed) \subseteq Sector /\ grabbed \subseteq Sector
    <3>1. BitmapType /\ ListType /\ CallType
      BY DEF Inductive, TypeOK
    <3>2. used \subseteq Sector /\ grabbed \subseteq Sector
      BY <3>1 DEF BitmapType, ListType
    <3>3. doomed \in Seq(Sector)
      BY <3>1 DEF CallType
    <3> QED BY <2>2, <3>2, <3>3, SectorMapAssumption
  <2>5. \A s \in Sector : s \in used <=>
          s \in Reserved \cup (UNION {Owned(f) : f \in inodes})
               \cup SeqElems(doomed) \cup grabbed
    BY <2>1 DEF Claimed
  <2> QED BY <2>3, <2>4, <2>5
<1> QED BY <1>1, InductiveHolds, PTL

(* A sector is in one list of one file, once, and never in the hands of    *)
(* the running call as well.                                               *)
THEOREM NothingIsShared == Spec => []NoSharing
<1>1. Inductive => NoSharing
  BY DEF Inductive, SoundOwnership, Partition, Disjoint, ListsApart, NoSharing
<1> QED BY <1>1, InductiveHolds, PTL

(* Every directory entry leads to a live file that names the directory as  *)
(* its parent, under a name no other entry has.                            *)
THEOREM EntriesAreSound == Spec => []EntriesLead
<1>1. Inductive => EntriesLead
  BY DEF Inductive, SoundOwnership, EntriesLead
<1> QED BY <1>1, InductiveHolds, PTL

(* ccos_validate_disk_bitmap's test succeeds at every step.                *)
THEOREM CounterIsExact == Spec => []CounterExact
<1>1. Inductive => CounterExact
  BY DEF Inductive, SoundOwnership, Partition, Accounted, CounterExact
<1> QED BY <1>1, InductiveHolds, PTL

-----------------------------------------------------------------------------
(* The refinement.  A file holds its own sectors, the list the call has    *)
(* detached from it, and the sector grabbed for it.                        *)

HeldBy(f) ==
  Owned(f) \cup (IF f = cur THEN SeqElems(doomed) ELSE {})
           \cup (IF f = target THEN grabbed ELSE {})

Owners ==
  \A s \in Sector :
    /\ s \in Reserved => OwnerOf(s) = -2
    /\ \A f \in inodes : s \in HeldBy(f) => OwnerOf(s) = f
    /\ s \notin used => OwnerOf(s) = -1
    /\ s \in Reserved \/ s \notin used \/ \E f \in inodes : s \in HeldBy(f)

Steady == TypeOK /\ Partition /\ Registers

LEMMA SectorsAreNumbers ==
  /\ \A s \in Sector : s \in Int /\ s # -1 /\ s # -2
  /\ -1 # -2
<1>1. NumSectors \in Nat
  BY SectorMapAssumption
<1> QED BY <1>1 DEF Sector

LEMMA SteadyOwners == Steady => Owners
<1> SUFFICES ASSUME Steady, NEW s \in Sector
             PROVE  /\ s \in Reserved => OwnerOf(s) = -2
                    /\ \A f \in inodes : s \in HeldBy(f) => OwnerOf(s) = f
                    /\ s \notin used => OwnerOf(s) = -1
                    /\ \/ s \in Reserved \/ s \notin used
                       \/ \E f \in inodes : s \in HeldBy(f)
  BY DEF Owners
<1>1. doomed # <<>> => cur \in inodes
  BY DEF Steady, Registers, Erasing
<1>2. grabbed # {} => target \in inodes
  BY DEF Steady, Registers, Writing
<1>3. SeqElems(<<>>) = {}
  BY EmptyElems
<1>4. Disjoint /\ (s \in used <=> Claimed(s))
  BY DEF Steady, Partition, Accounted
<1>5. s \in Reserved => OwnerOf(s) = -2
  BY DEF OwnerOf
<1>6. ASSUME NEW f \in inodes, s \in HeldBy(f)
      PROVE  OwnerOf(s) = f
  <2>1. CASE s \in Owned(f)
    <3>1. /\ s \notin Reserved /\ s \notin SeqElems(doomed) /\ s \notin grabbed
          /\ \A g \in inodes : s \in Owned(g) => g = f
      BY <1>4, <2>1 DEF Disjoint
    <3> QED BY <2>1, <3>1 DEF OwnerOf
  <2>2. CASE f = cur /\ s \in SeqElems(doomed)
    <3>1. s \notin Reserved
      BY <1>4, <2>2 DEF Disjoint
    <3> QED BY <2>2, <3>1 DEF OwnerOf
  <2>3. CASE f = target /\ s \in grabbed
    <3>1. s \notin Reserved /\ s \notin SeqElems(doomed)
      BY <1>4, <2>3 DEF Disjoint
    <3> QED BY <2>3, <3>1 DEF OwnerOf
  <2> QED BY <1>6, <2>1, <2>2, <2>3 DEF HeldBy
<1>7. s \notin used => OwnerOf(s) = -1
  BY <1>4 DEF OwnerOf, Claimed
<1>8. s \in Reserved \/ s \notin used \/ \E f \in inodes : s \in HeldBy(f)
  BY <1>1, <1>2, <1>3, <1>4 DEF Claimed, HeldBy
<1> QED BY <1>5, <1>6, <1>7, <1>8

(* A free sector becomes the property of a live file, or a new file.       *)
LEMMA Takes ==
  ASSUME Owners, Owners', NEW f \in inodes', NEW s \in Sector \ used,
         used' = used \cup {s}, inodes' = inodes \cup {f}, inodes' \subseteq Sector,
         f = s \/ f \in inodes,
         s \in HeldBy(f)',
         f \in inodes => HeldBy(f) \subseteq HeldBy(f)',
         \A g \in inodes : g # f => HeldBy(g)' = HeldBy(g)
  PROVE  Ownership!Next
<1>1. OwnerOf(s) = -1 /\ OwnerOf(s)' = f
  BY DEF Owners
<1>2. f \in inodes => OwnerOf(f) = f
  BY DEF Owners, HeldBy, Owned
<1>3. ASSUME NEW t \in Sector, t # s
      PROVE  OwnerOf(t)' = OwnerOf(t)
  <2>1. CASE t \in Reserved
    BY <2>1 DEF Owners
  <2>2. CASE t \notin used
    BY <1>3, <2>2 DEF Owners
  <2>3. CASE \E g \in inodes : t \in HeldBy(g)
    <3>1. PICK g \in inodes : t \in HeldBy(g)
      BY <2>3
    <3>2. g \in inodes' /\ t \in HeldBy(g)'
      BY <3>1
    <3> QED BY <3>1, <3>2 DEF Owners
  <2> QED BY <2>1, <2>2, <2>3 DEF Owners
<1>4. Ownership!Take(s, f)
  <2>1. f \in Sector
    OBVIOUS
  <2>2. s \in Free /\ Free' = Free \ {s}
    BY DEF Free
  <2>3. [t \in Sector |-> OwnerOf(t)]'
          = [[t \in Sector |-> OwnerOf(t)] EXCEPT ![s] = f]
    BY <1>1, <1>3
  <2>4. s = f \/ [t \in Sector |-> OwnerOf(t)][f] = f
    BY <1>2, <2>1
  <2> QED BY <1>1, <2>2, <2>3, <2>4
          DEF Ownership!Take, Ownership!IsFile, Ownership!Nobody
<1> QED BY <1>4 DEF Ownership!Next

(* A live file gives up a sector, its inode's only when that is its last.  *)
LEMMA GivesUp ==
  ASSUME Owners, Owners', NEW f \in inodes, NEW s \in HeldBy(f), s \in Sector,
         inodes \subseteq Sector, used' = used \ {s},
         s # f => inodes' = inodes /\ HeldBy(f)' = HeldBy(f) \ {s},
         s = f => inodes' = inodes \ {f} /\ HeldBy(f) = {f},
         \A g \in inodes : g # f => HeldBy(g)' = HeldBy(g)
  PROVE  Ownership!Next
<1>1. OwnerOf(s) = f /\ OwnerOf(s)' = -1
  BY DEF Owners
<1>2. s \in used
  BY <1>1, SectorsAreNumbers DEF Owners
<1>3. ASSUME NEW t \in Sector, t # s
      PROVE  OwnerOf(t)' = OwnerOf(t)
  <2>1. CASE t \in Reserved
    BY <2>1 DEF Owners
  <2>2. CASE t \notin used
    BY <2>2 DEF Owners
  <2>3. CASE \E g \in inodes : t \in HeldBy(g)
    <3>1. PICK g \in inodes : t \in HeldBy(g)
      BY <2>3
    <3>2. g \in inodes' /\ t \in HeldBy(g)'
      BY <1>3, <3>1
    <3> QED BY <3>1, <3>2 DEF Owners
  <2> QED BY <2>1, <2>2, <2>3 DEF Owners
<1>4. ASSUME f = s, NEW t \in Sector \ {s}
      PROVE  OwnerOf(t) # s
  <2>1. CASE t \in Reserved \/ t \notin used
    BY <2>1, SectorsAreNumbers DEF Owners
  <2>2. CASE \E g \in inodes : t \in HeldBy(g)
    <3>1. PICK g \in inodes : t \in HeldBy(g)
      BY <2>2
    <3>2. OwnerOf(t) = g /\ g # f
      BY <1>4, <3>1 DEF Owners
    <3> QED BY <1>4, <3>2
  <2> QED BY <2>1, <2>2 DEF Owners
<1>5. Ownership!GiveUp(s)
  <2>1. s \notin Free /\ Free' = Free \cup {s}
    BY <1>2 DEF Free
  <2>2. [t \in Sector |-> OwnerOf(t)]'
          = [[t \in Sector |-> OwnerOf(t)] EXCEPT ![s] = -1]
    BY <1>1, <1>3
  <2>3. [t \in Sector |-> OwnerOf(t)][s] \in Sector
    BY <1>1
  <2>4. [t \in Sector |-> OwnerOf(t)][s] = s =>
          \A t \in Sector \ {s} : [u \in Sector |-> OwnerOf(u)][t] # s
    BY <1>1, <1>4
  <2> QED BY <2>1, <2>2, <2>3, <2>4 DEF Ownership!GiveUp, Ownership!Nobody
<1> QED BY <1>5 DEF Ownership!Next

(* Nothing changes hands.                                                  *)
LEMMA Stutters ==
  ASSUME Owners, Owners', used' = used, inodes' = inodes,
         \A g \in inodes : HeldBy(g)' = HeldBy(g)
  PROVE  UNCHANGED <<[s \in Sector |-> OwnerOf(s)], Free>>
<1>1. ASSUME NEW t \in Sector
      PROVE  OwnerOf(t)' = OwnerOf(t)
  BY DEF Owners
<1> QED BY <1>1 DEF Free

(* ccos_write_file and ccos_add_content_inode.                             *)
LEMMA GrowMoves ==
  ASSUME Steady, Steady', GrowInPlace \/ GrowGrab \/ Extend
  PROVE  Ownership!Next
<1>0. /\ Owners /\ Owners' /\ BitmapType /\ ListType /\ Partition
      /\ inodes \subseteq Sector
  BY SteadyOwners, PTL DEF Steady, TypeOK, ListType
<1>1. /\ target \in inodes /\ doomed = <<>> /\ doomed' = doomed /\ inodes' = inodes
      /\ SeqElems(doomed) = {} /\ target' = target /\ cur' = cur
  BY EmptyElems DEF Steady, Registers, Writing, GrowInPlace, GrowGrab, Extend,
     AppendSector, GrabSector, AddContentInode, writeVars, callVars
<1>2. target \in inodes' /\ target = target
  BY <1>1
<1>3. CASE GrowInPlace
  <2>1. PICK s \in Sector : LowestFree(s) /\ AppendSector(target, s)
    BY <1>3 DEF GrowInPlace
  <2>2. s \in Sector \ used /\ used' = used \cup {s} /\ grabbed' = grabbed
    BY <2>1 DEF LowestFree, Available, Free, AppendSector, MarkUsed
  <2>3. /\ Owned(target)' = Owned(target) \cup {s}
        /\ \A g \in inodes : g # target => Owned(g)' = Owned(g)
    BY <1>0, <1>1, <2>1, <2>2, AppendSectorKeeps
  <2> QED BY <1>0, <1>1, <2>2, <2>3, Takes DEF HeldBy
<1>4. CASE GrowGrab
  <2>1. PICK s \in Sector : LowestFree(s) /\ GrabSector(s)
    BY <1>4 DEF GrowGrab
  <2>2. /\ s \in Sector \ used /\ used' = used \cup {s}
        /\ grabbed = {} /\ grabbed' = {s}
    BY <1>4, <2>1 DEF LowestFree, Available, Free, GrabSector, MarkUsed, GrowGrab,
       Steady, Registers
  <2>3. \A g \in inodes : Owned(g)' = Owned(g)
    BY <1>0, <1>1, <2>1, <2>2, GrabSectorKeeps
  <2> QED BY <1>0, <1>1, <2>2, <2>3, Takes DEF HeldBy
<1>5. CASE Extend
  <2>1. PICK s \in grabbed, c \in Sector :
          LowestFree(c) /\ AddContentInode(target, s, c)
    BY <1>5 DEF Extend
  <2>2. /\ c \in Sector \ used /\ used' = used \cup {c}
        /\ s \in Sector /\ grabbed = {s} /\ grabbed' = {}
    BY <1>5, <2>1 DEF LowestFree, Available, Free, AddContentInode, MarkUsed,
       Extend, Steady, Registers
  <2>3. /\ Owned(target)' = Owned(target) \cup {s, c}
        /\ \A g \in inodes : g # target => Owned(g)' = Owned(g)
    BY <1>0, <1>1, <2>1, <2>2, AddContentInodeKeeps
  <2> QED BY <1>0, <1>1, <2>2, <2>3, Takes DEF HeldBy
<1> QED BY <1>3, <1>4, <1>5

LEMMA ShrinkMoves ==
  ASSUME Steady, Steady', ExtendNoSpace \/ Shrink \/ Trim \/ EraseContentInode
  PROVE  Ownership!Next
<1>0. /\ Owners /\ Owners' /\ BitmapType /\ ListType /\ Partition /\ Disjoint
      /\ inodes \subseteq Sector
  BY SteadyOwners, PTL DEF Steady, TypeOK, ListType, Partition
<1>1. /\ doomed = <<>> /\ doomed' = doomed /\ inodes' = inodes
      /\ SeqElems(doomed) = {} /\ target' = target /\ cur' = cur
  BY EmptyElems DEF Steady, Registers, Writing, ExtendNoSpace, Shrink, Trim,
     EraseContentInode, DropGrabbed, RemoveLastSector, RemoveContentInode,
     writeVars, callVars
<1>2. CASE ExtendNoSpace
  <2>1. PICK s \in grabbed : DropGrabbed(s)
    BY <1>2 DEF ExtendNoSpace
  <2>2. /\ used' = used \ {s} /\ s \in Sector /\ grabbed = {s} /\ grabbed' = {}
        /\ target \in inodes
    BY <1>2, <2>1 DEF DropGrabbed, EraseSector, ExtendNoSpace, Steady, Registers,
       Writing
  <2>3. \A g \in inodes : Owned(g)' = Owned(g)
    BY <1>0, <1>1, <2>1, <2>2, DropGrabbedKeeps
  <2>4. s \notin Owned(target) /\ s # target
    BY <1>0, <2>2 DEF Disjoint, Owned
  <2> QED BY <1>0, <1>1, <2>2, <2>3, <2>4, GivesUp DEF HeldBy
<1>3. CASE Shrink
  <2> DEFINE s == data[target][Len(data[target])]
  <2>1. /\ used' = used \ {s} /\ grabbed = {} /\ grabbed' = {}
        /\ target \in inodes /\ data[target] # <<>> /\ RemoveLastSector(target)
    BY <1>3 DEF Shrink, RemoveLastSector, EraseSector, Steady, Registers, Writing
  <2>2. /\ s \in Owned(target) \ {target}
        /\ Owned(target)' = Owned(target) \ {s}
        /\ \A g \in inodes : g # target => Owned(g)' = Owned(g)
    BY <1>0, <1>1, <2>1, RemoveLastSectorKeeps
  <2>3. s \in Sector
    BY <1>0, <2>1, EmptySeq, ElementOfSeq, LenProperties DEF ListType
  <2> HIDE DEF s
  <2> QED BY <1>0, <1>1, <2>1, <2>2, <2>3, GivesUp DEF HeldBy
<1>4. CASE Trim \/ EraseContentInode
  <2>1. PICK f \in inodes : chain[f] # <<>> /\ RemoveContentInode(f)
    BY <1>4 DEF Trim, EraseContentInode, Steady, Registers, Writing, Erasing
  <2> DEFINE s == chain[f][Len(chain[f])]
  <2>2. used' = used \ {s} /\ grabbed = {} /\ grabbed' = {}
    BY <1>4, <2>1 DEF RemoveContentInode, EraseSector, Steady, Registers, Trim,
       EraseContentInode
  <2>3. /\ s \in Owned(f) \ {f} /\ Owned(f)' = Owned(f) \ {s}
        /\ \A g \in inodes : g # f => Owned(g)' = Owned(g)
    BY <1>0, <1>1, <2>1, RemoveContentInodeKeeps
  <2>4. s \in Sector
    BY <1>0, <2>1, EmptySeq, ElementOfSeq, LenProperties DEF ListType
  <2> HIDE DEF s
  <2> QED BY <1>0, <1>1, <2>2, <2>3, <2>4, GivesUp DEF HeldBy
<1> QED BY <1>2, <1>3, <1>4

(* erase_unlinked_file and ccos_delete_file.                               *)
LEMMA EraseMoves ==
  ASSUME Steady, Steady', ~damaged', damaged \in BOOLEAN,
         Collect \/ EraseDataSector \/ EraseFile
  PROVE  Ownership!Next \/ UNCHANGED <<[s \in Sector |-> OwnerOf(s)], Free>>
<1>0. /\ Owners /\ Owners' /\ BitmapType /\ ListType /\ Partition /\ Disjoint
      /\ inodes \subseteq Sector /\ doomed \in Seq(Sector)
  BY SteadyOwners, PTL DEF Steady, TypeOK, ListType, CallType, Partition
<1>1. /\ cur \in inodes /\ grabbed = {} /\ grabbed' = grabbed
      /\ target' = target /\ cur' = cur
  BY DEF Steady, Registers, Erasing, Collect, DetachData, EraseDataSector,
     EraseFile, EraseInode, listVars, writeVars, callVars
<1>2. CASE Collect
  <2>1. /\ DetachData(cur) /\ doomed' = data[cur] \o tail[cur] /\ doomed = <<>>
        /\ tail[cur] = <<>> /\ UNCHANGED bitmapVars /\ inodes' = inodes
    BY <1>2 DEF Collect, DetachData, FileSectorList, Steady, Registers
  <2>2. doomed' = data[cur]
    BY <1>0, <1>1, <2>1 DEF ListType
  <2>3. /\ Owned(cur) = Owned(cur)' \cup SeqElems(doomed)'
        /\ \A g \in inodes : g # cur => Owned(g)' = Owned(g)
    BY <1>0, <1>1, <2>1, <2>2, DetachKeeps
  <2>4. SeqElems(doomed) = {}
    BY <2>1, EmptyElems
  <2>5. \A g \in inodes : HeldBy(g)' = HeldBy(g)
    BY <1>1, <2>3, <2>4 DEF HeldBy
  <2> QED BY <1>0, <2>1, <2>5, Stutters DEF bitmapVars
<1>3. CASE EraseDataSector
  <2> DEFINE s == Head(doomed)
  <2>1. /\ doomed # <<>> /\ doomed' = Tail(doomed) /\ EraseSector(s)
        /\ UNCHANGED listVars /\ inodes' = inodes
    BY <1>3 DEF EraseDataSector, listVars
  <2>2. /\ \A g \in inodes : Owned(g)' = Owned(g)
        /\ s \in SeqElems(doomed)
        /\ SeqElems(doomed)' = SeqElems(doomed) \ {s}
    BY <1>0, <1>1, <2>1, EraseDoomedKeeps
  <2>3. s \in Sector
    BY <1>0, <2>1, HeadTailProperties
  <2>4. used' = used \ {s}
    BY <2>1 DEF EraseSector
  <2> HIDE DEF s
  <2>5. s \notin Owned(cur) /\ s # cur
    BY <1>0, <1>1, <2>2 DEF Disjoint, Owned
  <2> QED BY <1>0, <1>1, <2>1, <2>2, <2>3, <2>4, <2>5, GivesUp DEF HeldBy
<1>4. CASE EraseFile
  <2>1. /\ doomed = <<>> /\ doomed' = doomed /\ EraseInode(cur)
        /\ data[cur] = <<>> /\ chain[cur] = <<>> /\ inodes' = inodes \ {cur}
        /\ used' = used \ {cur} /\ SeqElems(doomed) = {}
    BY <1>4, EmptyElems DEF EraseFile, EraseInode, EraseSector, Steady, Registers
  <2>2. Owned(cur) = {cur} /\ \A g \in inodes : Owned(g)' = Owned(g)
    BY <1>0, <1>1, <2>1, EraseInodeKeeps
  <2>3. cur \in HeldBy(cur) /\ cur \in Sector /\ HeldBy(cur) = {cur}
        /\ \A g \in inodes : HeldBy(g)' = HeldBy(g)
    BY <1>0, <1>1, <2>1, <2>2 DEF HeldBy
  <2> QED BY <1>0, <1>1, <2>1, <2>3, GivesUp
<1> QED BY <1>2, <1>3, <1>4

(* The inode is the first sector a file takes.                             *)
LEMMA NewInodeMoves ==
  ASSUME Steady, Steady', pc = "idle", pc' # "extend", doomed' = doomed,
         NEW s \in Sector, NEW d, NEW n, NEW bytes, NewInode(s, d, n, bytes)
  PROVE  Ownership!Next
<1>0. /\ Owners /\ Owners' /\ BitmapType /\ ListType /\ Partition
      /\ inodes' \subseteq Sector
  <2>1. Owners /\ Owners'
    BY SteadyOwners, PTL
  <2> QED BY <2>1 DEF Steady, TypeOK, ListType
<1>1. /\ s \in Sector \ used /\ MarkUsed(s) /\ InitInode(s)
      /\ used' = used \cup {s} /\ inodes' = inodes \cup {s}
  BY DEF NewInode, LowestFree, Available, Free, MarkUsed, InitInode
<1>2. /\ s \notin inodes /\ Owned(s)' = {s}
      /\ \A g \in inodes : g # s => Owned(g)' = Owned(g)
  BY <1>0, <1>1, InitInodeKeeps
<1>3. /\ doomed = <<>> /\ doomed' = <<>> /\ grabbed = {} /\ grabbed' = {}
      /\ SeqElems(<<>>) = {}
  BY EmptyElems DEF Steady, Registers
<1>4. /\ s \in HeldBy(s)' /\ s \in inodes'
      /\ \A g \in inodes : g # s => HeldBy(g)' = HeldBy(g)
  BY <1>1, <1>2, <1>3 DEF HeldBy
<1> QED BY <1>0, <1>1, <1>2, <1>4, Takes

(* Steps that leave lists and bitmap alone.                                *)
LEMMA RestMoves ==
  ASSUME Steady, Steady', UNCHANGED bitmapVars, UNCHANGED listVars,
         doomed' = doomed,
         pc \notin {"erase", "extend"} \/ (cur' = cur /\ target' = target)
  PROVE  UNCHANGED <<[s \in Sector |-> OwnerOf(s)], Free>>
<1>0. /\ Owners /\ Owners' /\ Partition
      /\ used' = used /\ inodes' = inodes /\ grabbed' = grabbed
  <2>1. Owners /\ Owners'
    BY SteadyOwners, PTL
  <2> QED BY <2>1 DEF Steady, bitmapVars, listVars
<1>1. \A g \in inodes : Owned(g)' = Owned(g)
  BY DEF listVars, Owned
<1>2. CASE pc \notin {"erase", "extend"}
  <2>1. doomed = <<>> /\ grabbed = {} /\ SeqElems(<<>>) = {}
    BY <1>2, EmptyElems DEF Steady, Registers
  <2> QED BY <1>0, <1>1, <2>1, Stutters DEF HeldBy
<1>3. CASE cur' = cur /\ target' = target
  BY <1>0, <1>1, <1>3, Stutters DEF HeldBy
<1> QED BY <1>2, <1>3

LEMMA InitOwners == Init => Ownership!Init
<1> SUFFICES ASSUME Init PROVE Ownership!Init
  OBVIOUS
<1>1. Steady
  BY InitOwnership DEF Steady, Inductive, SoundOwnership, Sound, Init
<1>2. Owners
  BY <1>1, SteadyOwners
<1>3. /\ inodes = {Root} /\ used = Reserved \cup {Root, Root + 1}
      /\ {Root, Root + 1} \subseteq Sector \ Reserved
  BY VolumeAssumption DEF Init
<1>4. Owned(Root) = {Root, Root + 1}
  <2>1. data[Root] = <<Root + 1>> /\ chain[Root] = <<>>
    BY <1>3 DEF Init
  <2>2. SeqElems(<<Root + 1>>) = {Root + 1} /\ SeqElems(<<>>) = {}
    BY DEF SeqElems
  <2> QED BY <2>1, <2>2 DEF Owned
<1>5. \A s \in {Root, Root + 1} : OwnerOf(s) = Root
  BY <1>2, <1>3, <1>4 DEF Owners, HeldBy
<1>6. \A s \in Sector : OwnerOf(s) = IF s \in Reserved THEN -2
                                     ELSE IF s \in {Root, Root + 1} THEN Root
                                     ELSE -1
  BY <1>2, <1>3, <1>5 DEF Owners
<1>7. Free = Sector \ (Reserved \cup {Root, Root + 1})
  BY <1>3 DEF Free
<1> QED BY <1>6, <1>7 DEF Ownership!Init, Ownership!System, Ownership!Nobody

LEMMA NextMoves ==
  ASSUME Inductive, Inductive', Sound, Sound', [Next]_vars
  PROVE  [Ownership!Next]_<<[s \in Sector |-> OwnerOf(s)], Free>>
<1>0. /\ Steady /\ Steady' /\ ~damaged' /\ damaged \in BOOLEAN
  BY DEF Steady, Inductive, SoundOwnership, Sound, TypeOK, CallType
<1>1. CASE \E d \in Sector, n \in Names, bytes \in FileSizes \cup {LogSize} : BeginCreate(d, n, bytes)
  <2>1. PICK s \in Sector, d \in Sector, n \in Names, bytes \in FileSizes \cup {LogSize} :
          /\ BeginCall("create", s, d) /\ NewInode(s, d, n, bytes)
          /\ CallWrite(s, 0, bytes, "link") /\ doomed' = doomed
    BY <1>1 DEF BeginCreate
  <2>2. pc = "idle" /\ pc' # "extend"
    BY <2>1 DEF BeginCall, CallWrite
  <2> QED BY <1>0, <2>1, <2>2, NewInodeMoves
<1>2. CASE \E d \in Sector : CopySourceUnreadable(d)
  <2>1. PICK s \in Sector, d \in Sector :
          /\ BeginCall("create", s, d) /\ NewInode(s, d, NoName, 0)
          /\ pc' = "collect" /\ doomed' = doomed
    BY <1>2 DEF CopySourceUnreadable
  <2>2. pc = "idle"
    BY <2>1 DEF BeginCall
  <2> QED BY <1>0, <2>1, <2>2, NewInodeMoves
<1>3. CASE \/ \E d \in Sector : CreateNoSpace(d)
           \/ \E f \in Sector, bytes \in FileSizes : BeginWrite(f, bytes)
           \/ \E f \in Sector, n \in Names : BeginRename(f, n)
           \/ \E f \in Sector : BeginDelete(f)
  <2>1. /\ UNCHANGED bitmapVars /\ UNCHANGED listVars /\ doomed' = doomed
        /\ pc = "idle"
    BY <1>3 DEF CreateNoSpace, BeginWrite, BeginRename, BeginDelete, BeginCall
  <2> QED BY <1>0, <2>1, RestMoves
<1>4. CASE GrowInPlace \/ GrowGrab \/ Extend
  BY <1>0, <1>4, GrowMoves
<1>5. CASE ExtendNoSpace \/ Shrink \/ Trim \/ EraseContentInode
  BY <1>0, <1>5, ShrinkMoves
<1>6. CASE Collect \/ EraseDataSector \/ EraseFile
  BY <1>0, <1>6, EraseMoves
<1>7. CASE \/ GrowNoSpace \/ ShrinkNothing \/ Store
           \/ Link \/ LinkExists \/ AddEntry
           \/ Unlink \/ UnlinkMissing \/ Resize \/ DropEntry
  <2>1. /\ UNCHANGED bitmapVars /\ UNCHANGED listVars /\ doomed' = doomed
        /\ pc \notin {"erase", "extend"}
    BY <1>7 DEF GrowNoSpace, ShrinkNothing, Store, Link, LinkExists, AddEntry,
       Unlink, UnlinkMissing, Resize, DropEntry
  <2> QED BY <1>0, <2>1, RestMoves
<1>8. CASE DeleteChild \/ DeleteTop \/ ReturnToLoop \/ Return
  <2>1. /\ UNCHANGED bitmapVars /\ UNCHANGED listVars /\ doomed' = doomed
        /\ pc \notin {"erase", "extend"}
    BY <1>8 DEF DeleteChild, DeleteTop, ReturnToLoop, Return
  <2> QED BY <1>0, <2>1, RestMoves
<1>9. CASE UNCHANGED vars
  <2>1. /\ UNCHANGED bitmapVars /\ UNCHANGED listVars /\ doomed' = doomed
        /\ cur' = cur /\ target' = target
    BY <1>9 DEF vars, callVars, writeVars
  <2> QED BY <1>0, <2>1, RestMoves
<1> QED BY <1>1, <1>2, <1>3, <1>4, <1>5, <1>6, <1>7, <1>8, <1>9
        DEF Next, Begin, Step, BeginCreateDir

(* As long as no stray list entry is acted upon and no call goes on with   *)
(* what it has erased, each step moves at most one sector, between the     *)
(* pool and one file, whose inode is the first it takes and the last it    *)
(* gives up.                                                               *)
THEOREM SoundCallsImplement == Spec /\ []Sound => ImplementsOwnership
BY InitOwners, NextMoves, InductiveHolds, PTL
   DEF Spec, ImplementsOwnership, Ownership!Spec

-----------------------------------------------------------------------------
(* Which steps belong to which call.                                       *)

LEMMA InitControl == Init => Control
BY DEF Init, Control, Linking, Unlinking, Erasing, Writing

LEMMA NextControl == TypeOK /\ Control /\ [Next]_vars => Control'
<1> SUFFICES ASSUME TypeOK, Control, [Next]_vars PROVE Control'
  OBVIOUS
<1> USE DEF Control, Linking, Unlinking, Erasing, Writing
<1>0. /\ ret \in RetLabels /\ left \in Int
      /\ pc = "delete" => stack # <<>>
      /\ pc' = "delete" => stack' # <<>>
  BY NextType DEF TypeOK, CallType
<1>1. CASE Begin
  <2>1. CASE \E d \in Sector : CreateNoSpace(d) \/ CopySourceUnreadable(d)
    BY <2>1 DEF CreateNoSpace, CopySourceUnreadable, BeginCall
  <2>2. CASE \E d \in Sector, n \in Names, bytes \in FileSizes \cup {LogSize} : BeginCreate(d, n, bytes)
    BY <2>2 DEF BeginCreate, BeginCall, CallWrite
  <2>3. CASE \E f \in Sector, bytes \in FileSizes : BeginWrite(f, bytes)
    BY <2>3 DEF BeginWrite, BeginCall, CallWrite
  <2>4. CASE \E f \in Sector, n \in Names : BeginRename(f, n)
    BY <2>4 DEF BeginRename, BeginCall
  <2>5. CASE \E f \in Sector : BeginDelete(f)
    BY <2>5 DEF BeginDelete, BeginCall
  <2> QED
    BY <1>1, <2>1, <2>2, <2>3, <2>4, <2>5 DEF Begin, BeginCreateDir
<1>2. CASE GrowInPlace
  BY <1>0, <1>2 DEF GrowInPlace, callVars
<1>3. CASE GrowGrab
  BY <1>0, <1>3 DEF GrowGrab, callVars, writeVars
<1>4. CASE GrowNoSpace \/ ExtendNoSpace \/ LinkExists
  BY <1>0, <1>4 DEF GrowNoSpace, ExtendNoSpace, LinkExists, Fail, callVars, writeVars
<1>5. CASE Extend
  BY <1>0, <1>5 DEF Extend, callVars
<1>6. CASE Shrink \/ ShrinkNothing \/ Trim
  BY <1>0, <1>6 DEF Shrink, ShrinkNothing, Trim, callVars
<1>7. CASE Store
  BY <1>0, <1>7 DEF Store, callVars, writeVars, RetLabels
<1>8. CASE Link
  BY <1>8 DEF Link, CallWrite, callVars
<1>9. CASE AddEntry
  BY <1>9 DEF AddEntry, callVars, writeVars
<1>10. CASE Unlink \/ Resize
  BY <1>10 DEF Unlink, Resize, CallWrite, callVars
<1>11. CASE UnlinkMissing
  BY <1>11 DEF UnlinkMissing, callVars, writeVars
<1>12. CASE DropEntry
  BY <1>12 DEF DropEntry, callVars, writeVars
<1>13. CASE DeleteChild
  BY <1>0, <1>13 DEF DeleteChild, callVars, writeVars
<1>14. CASE DeleteTop
  BY <1>0, <1>14 DEF DeleteTop, callVars, writeVars
<1>15. CASE Collect \/ EraseDataSector \/ EraseContentInode \/ EraseFile
  BY <1>15 DEF Collect, EraseDataSector, EraseContentInode, EraseFile,
     callVars, writeVars
<1>16. CASE ReturnToLoop
  <2>1. stack # <<>>
    BY <1>16 DEF ReturnToLoop
  <2> QED BY <1>0, <1>16, <2>1 DEF ReturnToLoop, callVars, writeVars
<1>17. CASE Return
  BY <1>17 DEF Return
<1>18. CASE UNCHANGED vars
  BY <1>18 DEF vars, callVars, writeVars
<1> QED BY <1>1, <1>2, <1>3, <1>4, <1>5, <1>6, <1>7, <1>8, <1>9, <1>10, <1>11,
           <1>12, <1>13, <1>14, <1>15, <1>16, <1>17, <1>18 DEF Next, Step

-----------------------------------------------------------------------------
(* Content inodes.                                                         *)

(* A list with one sector more, less, or none.                             *)
LEMMA AppendLength ==
  ASSUME NEW q \in Seq(Sector), NEW e \in Sector
  PROVE  /\ Append(q, e) \in Seq(Sector) /\ Append(q, e) # <<>>
         /\ Len(Append(q, e)) = Len(q) + 1
BY AppendProperties, LenProperties

LEMMA AllButLastLength ==
  ASSUME NEW q \in Seq(Sector), q # <<>>
  PROVE  /\ AllButLast(q) \in Seq(Sector)
         /\ Len(AllButLast(q)) = Len(q) - 1
         /\ AllButLast(q) = <<>> <=> Len(q) = 1
         /\ Len(q) \in Nat \ {0}
<1>1. Len(q) \in Nat \ {0}
  BY LenProperties, EmptySeq
<1>2. AllButLast(q) \in Seq(Sector)
  BY AllButLastType
<1>3. \A i \in 1 .. Len(q) - 1 : q[i] \in Sector
  BY <1>1, ElementOfSeq
<1>4. Len(AllButLast(q)) = Len(q) - 1
  <2> DEFINE n == Len(q)
  <2>1. n \in Nat \ {0} /\ \A i \in 1 .. n - 1 : q[i] \in Sector
    BY <1>1, <1>3
  <2> HIDE DEF n
  <2>2. 1 \in Int /\ n - 1 \in Int /\ 1 <= (n - 1) + 1
    BY <2>1
  <2>3. Len(SubSeq(q, 1, n - 1)) = (n - 1) - 1 + 1
    BY <2>1, <2>2, SubSeqProperties
  <2> QED BY <2>1, <2>3 DEF AllButLast, n
<1>5. AllButLast(q) = <<>> <=> Len(AllButLast(q)) = 0
  BY <1>2, EmptySeq
<1> QED BY <1>1, <1>2, <1>4, <1>5

LEMMA SlotsOfChain ==
  /\ \A n \in Int : ContMax * (n - 1) \in Int
  /\ \A m, n \in Int :
       n = m + 1 => ContMax * (n - 1) = ContMax * (m - 1) + ContMax
  /\ ContMax * (1 - 1) = 0
BY FileSectorsAssumption

LEMMA CountType ==
  ASSUME ListType, NEW f \in Sector
  PROVE  /\ LastCount(f) \in Int /\ Len(data[f]) \in Nat
         /\ Len(chain[f]) \in Nat
BY SlotsOfChain, LenProperties, FileSectorsAssumption DEF ListType, LastCount

LEMMA SameChain ==
  ASSUME NEW f, data'[f] = data[f], chain'[f] = chain[f]
  PROVE  /\ ChainFits(f)' <=> ChainFits(f)
         /\ LastListFull(f)' <=> LastListFull(f)
         /\ LastCount(f)' = LastCount(f)
BY DEF ChainFits, LastListFull, LastCount

LEMMA AppendFits ==
  ASSUME ListType, NEW f \in Sector, NEW s \in Sector,
         ChainFits(f), ~LastListFull(f), AppendSector(f, s)
  PROVE  ChainFits(f)'
<1>1. data'[f] = Append(data[f], s) /\ chain'[f] = chain[f]
  BY DEF AppendSector, ListType
<1>2. data[f] \in Seq(Sector) /\ chain[f] \in Seq(Sector)
  BY DEF ListType
<1>3. Len(data'[f]) = Len(data[f]) + 1 /\ Len(data[f]) \in Nat
  BY <1>1, <1>2, AppendLength, LenProperties
<1>4. ContMax * (Len(chain[f]) - 1) \in Int
  BY <1>2, LenProperties, SlotsOfChain
<1>5. LastCount(f)' = LastCount(f) + 1 /\ LastCount(f) \in Int
  BY <1>1, <1>3, <1>4, CountType, FileSectorsAssumption DEF LastCount
<1>6. chain[f] = <<>> => LastCount(f) = Len(data[f])
  BY DEF LastCount
<1> QED BY <1>1, <1>3, <1>5, <1>6, FileSectorsAssumption
        DEF ChainFits, LastListFull

LEMMA ExtendFits ==
  ASSUME ListType, NEW f \in Sector, NEW s \in Sector, NEW c \in Sector,
         LastListFull(f), AddContentInode(f, s, c)
  PROVE  ChainFits(f)'
<1>1. data'[f] = Append(data[f], s) /\ chain'[f] = Append(chain[f], c)
  BY DEF AddContentInode, ListType
<1>2. data[f] \in Seq(Sector) /\ chain[f] \in Seq(Sector)
  BY DEF ListType
<1>3. /\ Len(data'[f]) = Len(data[f]) + 1 /\ Len(data[f]) \in Nat
      /\ Len(chain'[f]) = Len(chain[f]) + 1 /\ Len(chain[f]) \in Nat
      /\ chain'[f] # <<>>
      /\ chain[f] = <<>> => Len(chain[f]) = 0
  BY <1>1, <1>2, AppendLength, LenProperties
<1>4. /\ ContMax * (Len(chain[f]) - 1) \in Int
      /\ ContMax * (Len(chain'[f]) - 1) = ContMax * (Len(chain[f]) - 1) + ContMax
      /\ ContMax * (1 - 1) = 0
  <2>1. Len(chain[f]) \in Int /\ Len(chain'[f]) \in Int
    BY <1>3
  <2> QED BY <1>3, <2>1, SlotsOfChain
<1>5. CASE chain[f] = <<>>
  BY <1>3, <1>4, <1>5, FileSectorsAssumption
     DEF ChainFits, LastListFull, LastCount
<1>6. CASE chain[f] # <<>>
  BY <1>3, <1>4, <1>6, FileSectorsAssumption
     DEF ChainFits, LastListFull, LastCount
<1> QED BY <1>5, <1>6

LEMMA ShrinkFits ==
  ASSUME ListType, NEW f \in Sector, data[f] # <<>>, RemoveLastSector(f)
  PROVE  /\ chain'[f] = chain[f]
         /\ LastCount(f)' = LastCount(f) - 1
         /\ ChainFits(f) /\ ~(chain[f] # <<>> /\ LastCount(f) = 1)
              => ChainFits(f)'
<1>1. data'[f] = AllButLast(data[f]) /\ chain'[f] = chain[f]
  BY DEF RemoveLastSector, ListType
<1>2. data[f] \in Seq(Sector) /\ chain[f] \in Seq(Sector)
  BY DEF ListType
<1>3. Len(data'[f]) = Len(data[f]) - 1 /\ Len(data[f]) \in Nat
  BY <1>1, <1>2, AllButLastLength, LenProperties
<1>4. ContMax * (Len(chain[f]) - 1) \in Int
  BY <1>2, LenProperties, SlotsOfChain
<1> QED BY <1>1, <1>3, <1>4, FileSectorsAssumption DEF ChainFits, LastCount

LEMMA TrimFits ==
  ASSUME ListType, NEW f \in Sector, chain[f] # <<>>, LastCount(f) = 0,
         RemoveContentInode(f)
  PROVE  ChainFits(f)'
<1>1. data'[f] = data[f] /\ chain'[f] = AllButLast(chain[f])
  BY DEF RemoveContentInode, ListType
<1>2. data[f] \in Seq(Sector) /\ chain[f] \in Seq(Sector)
  BY DEF ListType
<1>3. /\ Len(chain'[f]) = Len(chain[f]) - 1 /\ Len(chain[f]) \in Nat \ {0}
      /\ chain'[f] = <<>> <=> Len(chain[f]) = 1
      /\ Len(data[f]) \in Nat
  BY <1>1, <1>2, AllButLastLength, LenProperties
<1>4. /\ ContMax * (Len(chain[f]) - 1 - 1) \in Int
      /\ ContMax * (Len(chain[f]) - 1) = ContMax * (Len(chain[f]) - 1 - 1) + ContMax
      /\ ContMax * (1 - 1) = 0
  <2>1. /\ Len(chain[f]) - 1 \in Int /\ Len(chain[f]) \in Int
        /\ Len(chain[f]) = (Len(chain[f]) - 1) + 1
    BY <1>3
  <2> QED BY <2>1, SlotsOfChain
<1>5. CASE Len(chain[f]) = 1
  BY <1>1, <1>3, <1>4, <1>5, FileSectorsAssumption DEF ChainFits, LastCount
<1>6. CASE Len(chain[f]) # 1
  BY <1>1, <1>3, <1>4, <1>6, FileSectorsAssumption DEF ChainFits, LastCount
<1> QED BY <1>5, <1>6

(* A step that leaves the lists alone.                                     *)
LEMMA QuietChains ==
  ASSUME Chains, data' = data, chain' = chain, inodes' = inodes,
         pc \notin {"trim", "collect", "erase"},
         pc' \notin {"trim", "extend"}
  PROVE  Chains'
BY SameChain DEF Chains, Erasing

LEMMA InitChains == Init => Chains
<1> SUFFICES ASSUME Init PROVE Chains
  OBVIOUS
<1>1. inodes = {Root} /\ data[Root] = <<Root + 1>> /\ chain[Root] = <<>>
      /\ pc = "idle"
  BY ConstantTypes DEF Init
<1>2. Len(<<Root + 1>>) = 1
  OBVIOUS
<1>3. ChainFits(Root)
  BY <1>1, <1>2, FileSectorsAssumption DEF ChainFits
<1> QED BY <1>1, <1>3 DEF Chains

LEMMA NewInodeChains ==
  ASSUME ListType, Chains, pc = "idle", pc' \notin {"trim", "extend"},
         NEW s \in Sector, InitInode(s)
  PROVE  Chains'
<1>1. data'[s] = <<>> /\ chain'[s] = <<>> /\ inodes' = inodes \cup {s}
  BY DEF InitInode, ListType
<1>2. \A g \in inodes : g # s => data'[g] = data[g] /\ chain'[g] = chain[g]
  BY DEF InitInode, ListType
<1>3. ChainFits(s)'
  BY <1>1, FileSectorsAssumption DEF ChainFits
<1>4. \A g \in inodes : g # s => ChainFits(g)'
  BY <1>2, SameChain DEF Chains, Erasing
<1> QED BY <1>1, <1>3, <1>4 DEF Chains

LEMMA NextChains == TypeOK /\ Chains /\ [Next]_vars => Chains'
<1> SUFFICES ASSUME TypeOK, Chains, [Next]_vars PROVE Chains'
  OBVIOUS
<1>0. ListType /\ target \in Sector /\ cur \in Sector /\ ret \in RetLabels
  BY DEF TypeOK, CallType
<1>1. CASE \E d \in Sector, n \in Names, bytes \in FileSizes \cup {LogSize} : BeginCreate(d, n, bytes)
  BY <1>0, <1>1, NewInodeChains DEF BeginCreate, BeginCall, CallWrite, NewInode
<1>2. CASE \E d \in Sector : CopySourceUnreadable(d)
  BY <1>0, <1>2, NewInodeChains DEF CopySourceUnreadable, BeginCall, NewInode
<1>3. CASE \/ \E d \in Sector : CreateNoSpace(d)
           \/ \E f \in Sector, bytes \in FileSizes : BeginWrite(f, bytes)
           \/ \E f \in Sector, n \in Names : BeginRename(f, n)
           \/ \E f \in Sector : BeginDelete(f)
  BY <1>3, QuietChains DEF CreateNoSpace, BeginWrite, BeginRename, BeginDelete,
     BeginCall, CallWrite, listVars
<1>4. CASE GrowInPlace
  <2>1. PICK s \in Sector : AppendSector(target, s)
    BY <1>4 DEF GrowInPlace
  <2>2. /\ inodes' = inodes /\ pc = "write" /\ pc' = "write"
        /\ target' = target /\ ~LastListFull(target)
    BY <1>4, <2>1 DEF GrowInPlace, AppendSector
  <2>3. \A g \in inodes : g # target => data'[g] = data[g] /\ chain'[g] = chain[g]
    BY <1>0, <2>1 DEF AppendSector, ListType
  <2>4. \A g \in inodes : ChainFits(g)'
    BY <1>0, <2>1, <2>2, <2>3, AppendFits, SameChain DEF Chains, Erasing
  <2> QED BY <2>2, <2>4 DEF Chains
<1>5. CASE GrowGrab
  <2>1. /\ data' = data /\ chain' = chain /\ inodes' = inodes
        /\ target' = target /\ pc = "write" /\ pc' = "extend"
        /\ LastListFull(target)
    BY <1>5 DEF GrowGrab, GrabSector, writeVars
  <2> QED BY <2>1, SameChain DEF Chains, Erasing
<1>6. CASE Extend
  <2>1. PICK s \in grabbed, c \in Sector : AddContentInode(target, s, c)
    BY <1>6 DEF Extend
  <2>2. /\ inodes' = inodes /\ pc = "extend" /\ pc' = "write"
        /\ LastListFull(target) /\ s \in Sector
    BY <1>0, <1>6, <2>1 DEF Extend, AddContentInode, Chains, ListType
  <2>3. \A g \in inodes : g # target => data'[g] = data[g] /\ chain'[g] = chain[g]
    BY <1>0, <2>1 DEF AddContentInode, ListType
  <2>4. \A g \in inodes : ChainFits(g)'
    BY <1>0, <2>1, <2>2, <2>3, ExtendFits, SameChain DEF Chains, Erasing
  <2> QED BY <2>2, <2>4 DEF Chains
<1>7. CASE Shrink
  <2>1. /\ inodes' = inodes /\ pc = "write" /\ target' = target
        /\ data[target] # <<>> /\ RemoveLastSector(target)
        /\ IF chain[target] # <<>> /\ LastCount(target) = 1
           THEN pc' = "trim" ELSE pc' = "write"
    BY <1>7 DEF Shrink, RemoveLastSector
  <2>2. \A g \in inodes : g # target => data'[g] = data[g] /\ chain'[g] = chain[g]
    BY <1>0, <2>1 DEF RemoveLastSector, ListType
  <2>3. /\ LastCount(target)' = LastCount(target) - 1
        /\ chain'[target] = chain[target]
        /\ target \in inodes /\ pc' = "write" => ChainFits(target)'
    BY <1>0, <2>1, ShrinkFits DEF Chains, Erasing
  <2>4. pc' = "trim" => LastCount(target)' = 0 /\ chain'[target] # <<>>
    BY <1>0, <2>1, <2>3, CountType, ShrinkFits
  <2> QED BY <2>1, <2>2, <2>3, <2>4, SameChain DEF Chains, Erasing
<1>8. CASE Trim
  <2>1. /\ inodes' = inodes /\ pc = "trim" /\ pc' = "write"
        /\ RemoveContentInode(target)
        /\ chain[target] # <<>> /\ LastCount(target) = 0
    BY <1>8 DEF Trim, RemoveContentInode, Chains
  <2>2. \A g \in inodes : g # target => data'[g] = data[g] /\ chain'[g] = chain[g]
    BY <1>0, <2>1 DEF RemoveContentInode, ListType
  <2> QED BY <1>0, <2>1, <2>2, TrimFits, SameChain DEF Chains, Erasing
<1>9. CASE \/ GrowNoSpace \/ LinkExists \/ Link \/ AddEntry \/ Unlink
           \/ UnlinkMissing \/ Resize \/ DropEntry \/ DeleteChild \/ DeleteTop
           \/ ReturnToLoop \/ Return \/ ShrinkNothing
  BY <1>9, QuietChains DEF GrowNoSpace, LinkExists, Link, AddEntry, Unlink,
     UnlinkMissing, Resize, DropEntry, DeleteChild, DeleteTop, ReturnToLoop,
     Return, ShrinkNothing, Fail, CallWrite, listVars
<1>10. CASE ExtendNoSpace
  BY <1>10, QuietChains DEF ExtendNoSpace, DropGrabbed, Fail
<1>11. CASE Store
  BY <1>0, <1>11, QuietChains DEF Store, RetLabels, listVars
<1>12. CASE Collect
  <2>1. /\ inodes' = inodes /\ pc = "collect" /\ pc' = "erase" /\ cur' = cur
        /\ DetachData(cur)
    BY <1>12 DEF Collect, DetachData, callVars
  <2>2. \A g \in inodes : g # cur => data'[g] = data[g] /\ chain'[g] = chain[g]
    BY <1>0, <2>1 DEF DetachData, ListType
  <2> QED BY <2>1, <2>2, SameChain DEF Chains, Erasing
<1>13. CASE EraseDataSector
  BY <1>13, SameChain DEF EraseDataSector, listVars, callVars, Chains, Erasing
<1>14. CASE EraseContentInode
  <2>1. /\ inodes' = inodes /\ pc = "erase" /\ pc' = "erase" /\ cur' = cur
        /\ RemoveContentInode(cur)
    BY <1>14 DEF EraseContentInode, RemoveContentInode, callVars
  <2>2. \A g \in inodes : g # cur => data'[g] = data[g] /\ chain'[g] = chain[g]
    BY <1>0, <2>1 DEF RemoveContentInode, ListType
  <2> QED BY <2>1, <2>2, SameChain DEF Chains, Erasing
<1>15. CASE EraseFile
  <2>1. /\ inodes' = inodes \ {cur} /\ pc = "erase" /\ pc' = "return"
        /\ data' = data /\ chain' = chain
    BY <1>15 DEF EraseFile, EraseInode
  <2> QED BY <2>1, SameChain DEF Chains, Erasing
<1>16. CASE UNCHANGED vars
  BY <1>16, SameChain DEF vars, listVars, callVars, writeVars, Chains, Erasing
<1> QED BY <1>1, <1>2, <1>3, <1>4, <1>5, <1>6, <1>7, <1>8, <1>9, <1>10, <1>11,
           <1>12, <1>13, <1>14, <1>15, <1>16
        DEF Next, Begin, Step, BeginCreateDir

(* Between calls the chain of every file is as long as its list needs,     *)
(* whatever failed before (ccos_add_content_inode,                         *)
(* ccos_remove_content_inode).                                             *)
THEOREM ChainsAreNeeded == Spec => []ContentInodesNeeded
<1>1. Init => TypeOK /\ Chains
  BY InitType, InitChains
<1>2. TypeOK /\ Chains /\ [Next]_vars => TypeOK' /\ Chains'
  BY NextType, NextChains
<1>3. Chains => ContentInodesNeeded
  BY DEF Chains, ContentInodesNeeded, ChainFits, Erasing
<1> QED BY <1>1, <1>2, <1>3, PTL DEF Spec

-----------------------------------------------------------------------------
(* The tree.                                                               *)

(* What Inductive and Control give in a sound state.                       *)
Ready ==
  /\ TypeOK /\ Calls /\ Control /\ Sound
  /\ Partition /\ Registers /\ EntriesSound

LEMMA ReadyState == Inductive /\ Control /\ Sound => Ready
BY DEF Inductive, SoundOwnership, Ready

(* A step inside a call that leaves the tree alone.                        *)
Quiet ==
  /\ inodes' = inodes /\ entries' = entries /\ name' = name /\ parent' = parent
  /\ op' = op /\ cur' = cur /\ dir' = dir /\ newName' = newName
  /\ stack' = stack
  /\ pc \notin {"idle", "delete"} /\ pc' \notin {"idle", "delete", "unlink"}
  /\ Linking' => Linking
  /\ Unlinking' => Unlinking /\ (pc # "unlink" \/ Matching(dir, cur) # {})
  /\ Erasing' => Linking \/ Erasing
  /\ Erasing \/ pc = "return" => Erasing' \/ pc' = "return"

QuietStep ==
  \/ GrowInPlace \/ GrowGrab \/ GrowNoSpace \/ Extend \/ ExtendNoSpace
  \/ Shrink \/ ShrinkNothing \/ Trim \/ Store
  \/ Link \/ LinkExists \/ Unlink \/ UnlinkMissing \/ Resize
  \/ Collect \/ EraseDataSector \/ EraseContentInode

LEMMA QuietSteps ==
  ASSUME TypeOK, Calls, QuietStep
  PROVE  Quiet
<1> USE DEF Quiet, Linking, Unlinking, Erasing, Writing
<1>0. ret \in RetLabels /\ (op = "create" => Linking \/ Erasing \/ pc = "return")
  BY DEF TypeOK, CallType, Calls
<1>1. CASE GrowInPlace
  BY <1>1 DEF GrowInPlace, AppendSector, treeVars, callVars
<1>2. CASE GrowGrab
  BY <1>2 DEF GrowGrab, GrabSector, treeVars, callVars, writeVars
<1>3. CASE GrowNoSpace \/ LinkExists
  BY <1>0, <1>3 DEF GrowNoSpace, LinkExists, Fail, treeVars, callVars,
     writeVars, listVars
<1>4. CASE Extend
  BY <1>4 DEF Extend, AddContentInode, treeVars, callVars
<1>5. CASE ExtendNoSpace
  BY <1>0, <1>5 DEF ExtendNoSpace, DropGrabbed, Fail, treeVars, callVars,
     writeVars
<1>6. CASE Shrink
  BY <1>6 DEF Shrink, RemoveLastSector, treeVars, callVars
<1>7. CASE ShrinkNothing
  BY <1>7 DEF ShrinkNothing, treeVars, callVars, listVars
<1>8. CASE Trim
  BY <1>8 DEF Trim, RemoveContentInode, treeVars, callVars
<1>9. CASE Store
  BY <1>0, <1>9 DEF Store, callVars, writeVars, listVars, RetLabels
<1>10. CASE Link \/ Unlink \/ Resize
  BY <1>10 DEF Link, Unlink, Resize, CallWrite, treeVars, callVars, listVars
<1>11. CASE UnlinkMissing
  BY <1>11 DEF UnlinkMissing, treeVars, callVars, listVars
<1>12. CASE Collect \/ EraseDataSector \/ EraseContentInode
  BY <1>12 DEF Collect, DetachData, EraseDataSector, EraseContentInode,
     RemoveContentInode, treeVars, callVars, listVars
<1> QED BY <1>1, <1>2, <1>3, <1>4, <1>5, <1>6, <1>7, <1>8, <1>9, <1>10, <1>11,
           <1>12 DEF QuietStep

(* Acyclic is kept by a step that adds no edge.                            *)
LEMMA FewerLeads ==
  ASSUME Acyclic, inodes' \subseteq inodes,
         \A d, f \in inodes' : Leads(d, f)' => Leads(d, f)
  PROVE  Acyclic'
<1> SUFFICES ASSUME NEW S \in SUBSET inodes', S # {}
             PROVE  \E f \in S : \A d \in S : ~Leads(d, f)'
  BY DEF Acyclic
<1>1. PICK f \in S : \A d \in S : ~Leads(d, f)
  BY DEF Acyclic
<1> QED BY <1>1

LEMMA QuietTree ==
  ASSUME Ready, Tree, Quiet
  PROVE  Tree'
<1>1. Rooted'
  <2>1. Unlinking' => cur # Root
    <3> SUFFICES ASSUME Unlinking', cur = Root PROVE FALSE
      OBVIOUS
    <3>1. Matching(dir, cur) # {} /\ dir \in inodes
      BY DEF Quiet, Tree, Rooted, Ready, Registers
    <3> QED BY <3>1, VolumeAssumption DEF Tree, Rooted, Matching
  <2> QED BY <2>1 DEF Tree, Rooted, Quiet, Unlinked
<1>2. Directories'
  BY DEF Tree, Directories, Quiet, IsDir
<1>3. Acyclic'
  BY FewerLeads DEF Tree, Quiet, Leads
<1>4. Recursion'
  <2> SUFFICES ASSUME stack # <<>> PROVE Recursion'
    BY DEF Recursion, Quiet
  <2>1. Len(stack) \in Nat
    BY LenProperties DEF Ready, TypeOK, CallType
  <2>2. Settled' \subseteq Settled
    BY <2>1 DEF Quiet, Settled
  <2> QED BY <2>2 DEF Tree, Recursion, Quiet
<1> QED BY <1>1, <1>2, <1>3, <1>4 DEF Tree

(* The frames, one more or one less.                                       *)
LEMMA PushFrame ==
  ASSUME NEW st \in Seq(Frames), st # <<>>, NEW k, NEW fr \in Frames
  PROVE  LET st2 == Append([st EXCEPT ![Len(st)].kids = @ \ {k}], fr)
         IN  /\ Len(st) \in Nat \ {0} /\ Len(st2) = Len(st) + 1
             /\ \A i \in 1 .. Len(st) - 1 : st2[i] = st[i]
             /\ st2[Len(st)].file = st[Len(st)].file
             /\ st2[Len(st)].kids = st[Len(st)].kids \ {k}
             /\ st2[Len(st) + 1] = fr
<1> DEFINE n == Len(st)
           top == [st[n] EXCEPT !.kids = @ \ {k}]
           rest == [st EXCEPT ![n] = top]
<1>1. n \in Nat \ {0} /\ st[n] \in Frames
  BY LenProperties, EmptySeq, ElementOfSeq
<1>2. top \in Frames /\ top.file = st[n].file /\ top.kids = st[n].kids \ {k}
  BY <1>1 DEF Frames
<1> HIDE DEF top
<1>3. /\ rest \in Seq(Frames) /\ Len(rest) = n /\ rest[n] = top
      /\ \A i \in 1 .. n - 1 : rest[i] = st[i]
  BY <1>1, <1>2, ExceptSeq
<1> HIDE DEF rest
<1>4. /\ Len(Append(rest, fr)) = n + 1 /\ Append(rest, fr)[n + 1] = fr
      /\ \A i \in 1 .. n : Append(rest, fr)[i] = rest[i]
  BY <1>3, AppendProperties
<1>5. Append([st EXCEPT ![Len(st)].kids = @ \ {k}], fr) = Append(rest, fr)
  BY DEF rest, top
<1>6. n \in 1 .. n /\ \A i \in 1 .. n - 1 : i \in 1 .. n
  BY <1>1
<1> QED BY <1>1, <1>2, <1>3, <1>4, <1>5, <1>6

LEMMA PopFrame ==
  ASSUME NEW st \in Seq(Frames), Len(st) > 1
  PROVE  /\ Len(st) \in Nat \ {0} /\ Len(AllButLast(st)) = Len(st) - 1
         /\ \A i \in 1 .. Len(st) - 1 : AllButLast(st)[i] = st[i]
         /\ AllButLast(st) # <<>>
<1> DEFINE n == Len(st)
<1>1. n \in Nat \ {0} /\ n > 1
  BY LenProperties
<1>2. \A i \in 1 .. n - 1 : st[i] \in Frames
  BY <1>1, ElementOfSeq
<1>3. Len(AllButLast(st)) = n - 1 /\ \A i \in 1 .. n - 1 : AllButLast(st)[i] = st[i]
  <2>1. AllButLast(st) = SubSeq(st, 1, n - 1)
    BY DEF AllButLast
  <2> HIDE DEF n
  <2>2. 1 \in Int /\ n - 1 \in Int /\ 1 <= (n - 1) + 1
    BY <1>1
  <2>3. /\ Len(SubSeq(st, 1, n - 1)) = (n - 1) - 1 + 1
        /\ \A i \in 1 .. (n - 1) - 1 + 1 : SubSeq(st, 1, n - 1)[i] = st[1 + i - 1]
    BY <1>2, <2>2, SubSeqProperties
  <2> QED BY <1>1, <2>1, <2>3
<1>4. AllButLast(st) # <<>>
  BY <1>1, <1>3
<1> QED BY <1>1, <1>3, <1>4

(* The state after the step of a new inode.                                *)
LEMMA NewInodeEffect ==
  ASSUME TypeOK, Partition, doomed' = doomed,
         NEW s \in Sector, NEW d \in Sector, NEW n, NEW bytes,
         NewInode(s, d, n, bytes)
  PROVE  /\ s \notin inodes /\ inodes' = inodes \cup {s}
         /\ entries'[s] = {} /\ name'[s] = n /\ parent'[s] = d
         /\ size'[s] = bytes
         /\ data'[s] = <<>> /\ chain'[s] = <<>> /\ tail'[s] = <<>>
         /\ stale' = stale
         /\ \A g \in Sector : g # s =>
              /\ entries'[g] = entries[g] /\ name'[g] = name[g]
              /\ parent'[g] = parent[g] /\ size'[g] = size[g]
              /\ data'[g] = data[g] /\ chain'[g] = chain[g]
              /\ tail'[g] = tail[g]
<1>1. BitmapType /\ ListType /\ TreeType
  BY DEF TypeOK
<1>2. s \in Sector \ used /\ MarkUsed(s) /\ InitInode(s)
  BY DEF NewInode, LowestFree, Available, Free
<1>3. s \notin inodes /\ inodes' = inodes \cup {s}
  BY <1>1, <1>2, InitInodeKeeps DEF InitInode
<1>4. /\ entries' = [entries EXCEPT ![s] = {}]
      /\ name' = [name EXCEPT ![s] = n]
      /\ parent' = [parent EXCEPT ![s] = d]
      /\ size' = [size EXCEPT ![s] = bytes]
  BY DEF NewInode
<1>5. /\ data' = [data EXCEPT ![s] = <<>>]
      /\ chain' = [chain EXCEPT ![s] = <<>>]
      /\ tail' = [tail EXCEPT ![s] = <<>>]
      /\ stale' = stale
  BY <1>2 DEF InitInode
<1>6. /\ entries'[s] = {} /\ name'[s] = n /\ parent'[s] = d /\ size'[s] = bytes
      /\ \A g \in Sector : g # s =>
           /\ entries'[g] = entries[g] /\ name'[g] = name[g]
           /\ parent'[g] = parent[g] /\ size'[g] = size[g]
  BY <1>1, <1>4 DEF TreeType
<1>7. /\ data'[s] = <<>> /\ chain'[s] = <<>> /\ tail'[s] = <<>>
      /\ \A g \in Sector : g # s =>
           data'[g] = data[g] /\ chain'[g] = chain[g] /\ tail'[g] = tail[g]
  BY <1>1, <1>5 DEF ListType
<1> QED BY <1>3, <1>5, <1>6, <1>7

LEMMA InodesAreSectors == Ready => inodes \subseteq Sector
BY DEF Ready, TypeOK, ListType

(* A new file, which the tree does not know yet.                           *)
LEMMA NewFileTree ==
  ASSUME Ready, Ready', Tree, pc = "idle", doomed' = doomed, stack' = <<>>,
         NEW s \in Sector, NEW d \in inodes, IsDir(d), NEW n,
         NEW bytes, NewInode(s, d, n, bytes),
         cur' = s, dir' = d, op' = "create",
         Linking' => n \in Names, ~Unlinking'
  PROVE  Tree'
<1>1. /\ s \notin inodes /\ inodes' = inodes \cup {s}
      /\ entries'[s] = {} /\ name'[s] = n /\ parent'[s] = d
      /\ \A g \in inodes : /\ entries'[g] = entries[g] /\ name'[g] = name[g]
                           /\ parent'[g] = parent[g]
  BY NewInodeEffect, InodesAreSectors DEF Ready
<1>2. \A g \in inodes : \A e \in entries[g] : e \in inodes
  BY DEF Ready, EntriesSound
<1>3. Rooted'
  BY <1>1, <1>2 DEF Tree, Rooted, Unlinked
<1>4. Directories'
  BY <1>1 DEF Tree, Directories, IsDir
<1>5. Acyclic'
  <2> SUFFICES ASSUME NEW S \in SUBSET inodes', S # {}
               PROVE  \E f \in S : \A g \in S : ~Leads(g, f)'
    BY DEF Acyclic
  <2>1. CASE S \subseteq {s}
    <3>1. s \in S /\ \A g \in S : g = s
      BY <2>1
    <3>2. ~Leads(s, s)'
      BY <1>1 DEF Leads
    <3> QED BY <3>1, <3>2
  <2>2. CASE ~(S \subseteq {s})
    <3>1. S \ {s} \in SUBSET inodes /\ S \ {s} # {}
      BY <1>1, <2>2
    <3>2. PICK f \in S \ {s} : \A g \in S \ {s} : ~Leads(g, f)
      BY <3>1 DEF Tree, Acyclic
    <3>3. \A g \in S : ~Leads(g, f)'
      BY <1>1, <3>1, <3>2 DEF Leads
    <3> QED BY <3>3
  <2> QED BY <2>1, <2>2
<1>6. Recursion'
  BY DEF Recursion
<1> QED BY <1>3, <1>4, <1>5, <1>6 DEF Tree

(* The first step of any other call, and the step back into the loop.      *)
LEMMA SameTreeTree ==
  ASSUME Ready, Tree, UNCHANGED treeVars, inodes' = inodes,
         ~Linking', ~Erasing',
         op' = "rename" /\ Unlinking' =>
           newName' \in DirNames <=> name[cur'] \in DirNames,
         op' = "rename" => newName' \in Names,
         Unlinking' => /\ pc' = "unlink"
                       /\ cur' = Root \/ cur' \in entries[dir'],
         Recursion'
  PROVE  Tree'
<1>1. Rooted'
  BY DEF Tree, Rooted, Unlinked, treeVars
<1>2. Directories'
  BY DEF Tree, Directories, IsDir, treeVars
<1>3. Acyclic'
  BY FewerLeads DEF Tree, Leads, treeVars
<1> QED BY <1>1, <1>2, <1>3 DEF Tree

LEMMA LinkedInParent ==
  ASSUME EntriesSound, NEW f, Linked(f)
  PROVE  f \in inodes /\ parent[f] \in inodes /\ f \in entries[parent[f]]
BY DEF EntriesSound, Linked

LEMMA BeginTree ==
  ASSUME Ready, Ready', Tree, Begin
  PROVE  Tree'
<1>0. pc = "idle" /\ stack = <<>>
  BY DEF Ready, Calls, Begin, BeginCreate, BeginCreateDir, CreateNoSpace,
         CopySourceUnreadable, BeginWrite, BeginRename, BeginDelete, BeginCall
<1> USE DEF Linking, Unlinking, Erasing, Writing
<1>1. ASSUME NEW d \in Sector, IsOpenDir(d), NEW n \in Names, NEW bytes,
             BeginCreate(d, n, bytes)
      PROVE  Tree'
  <2>1. PICK s \in Sector : /\ BeginCall("create", s, d)
                            /\ NewInode(s, d, n, bytes)
                            /\ CallWrite(s, 0, bytes, "link")
    BY <1>1 DEF BeginCreate
  <2>2. doomed' = doomed /\ stack' = <<>> /\ d \in inodes /\ IsDir(d)
    BY <1>0, <1>1 DEF BeginCreate, IsOpenDir
  <2>3. cur' = s /\ dir' = d /\ op' = "create" /\ ~Unlinking'
    BY <2>1 DEF BeginCall, CallWrite
  <2> QED BY <1>0, <2>1, <2>2, <2>3, NewFileTree
<1>2. ASSUME NEW d \in Sector, IsOpenDir(d), CopySourceUnreadable(d)
      PROVE  Tree'
  <2>1. PICK s \in Sector : /\ BeginCall("create", s, d)
                            /\ NewInode(s, d, NoName, 0)
    BY <1>2 DEF CopySourceUnreadable
  <2>2. doomed' = doomed /\ stack' = <<>> /\ d \in inodes /\ IsDir(d)
    BY <1>0, <1>2 DEF CopySourceUnreadable, IsOpenDir
  <2>3. /\ cur' = s /\ dir' = d /\ op' = "create" /\ ~Unlinking'
        /\ ~Linking'
    BY <1>2, <2>1 DEF BeginCall, CopySourceUnreadable
  <2> QED BY <1>0, <2>1, <2>2, <2>3, NewFileTree
<1>3. ASSUME NEW d \in Sector, CreateNoSpace(d)
      PROVE  Tree'
  <2>1. /\ UNCHANGED treeVars /\ inodes' = inodes /\ ~Linking' /\ ~Erasing'
        /\ ~Unlinking' /\ op' = "create" /\ stack' = <<>>
    BY <1>0, <1>3 DEF CreateNoSpace, BeginCall, listVars
  <2>2. Recursion'
    BY <2>1 DEF Recursion
  <2> QED BY <2>1, <2>2, SameTreeTree
<1>4. ASSUME NEW f \in Sector, NEW bytes, BeginWrite(f, bytes)
      PROVE  Tree'
  <2>1. /\ UNCHANGED treeVars /\ inodes' = inodes /\ ~Linking' /\ ~Erasing'
        /\ ~Unlinking' /\ op' = "write" /\ stack' = <<>>
    BY <1>0, <1>4 DEF BeginWrite, BeginCall, CallWrite, listVars
  <2>2. Recursion'
    BY <2>1 DEF Recursion
  <2> QED BY <2>1, <2>2, SameTreeTree
<1>5. ASSUME NEW f \in Sector, NEW n \in Names, BeginRename(f, n)
      PROVE  Tree'
  <2>1. /\ UNCHANGED treeVars /\ inodes' = inodes /\ ~Linking' /\ ~Erasing'
        /\ pc' = "unlink" /\ stack' = <<>> /\ cur' = f /\ dir' = parent[f]
        /\ newName' = n /\ (n \in DirNames <=> name[f] \in DirNames)
        /\ Linked(f)
    BY <1>0, <1>5 DEF BeginRename, BeginCall, listVars
  <2>2. Recursion'
    BY <2>1 DEF Recursion
  <2>3. f \in entries[parent[f]]
    BY <2>1, LinkedInParent DEF Ready
  <2> QED BY <2>1, <2>2, <2>3, SameTreeTree
<1>6. ASSUME NEW f \in Sector, BeginDelete(f)
      PROVE  Tree'
  <2>1. /\ UNCHANGED treeVars /\ inodes' = inodes /\ ~Linking' /\ ~Erasing'
        /\ ~Unlinking' /\ op' = "delete" /\ stack' = <<Frame(f)>>
        /\ pc' = "delete" /\ (Linked(f) \/ f = Root)
    BY <1>6 DEF BeginDelete, BeginCall, listVars
  <2>2. Len(stack') = 1 /\ stack'[1] = Frame(f)
    BY <2>1
  <2>3. /\ f \in inodes /\ stack'[1].file = f /\ stack'[1].kids \subseteq entries[f]
        /\ f # Root => parent[f] \in inodes /\ f \in entries[parent[f]]
    BY <2>1, <2>2, LinkedInParent DEF Ready, Tree, Rooted, Frame
  <2>4. Settled' = {1}
    BY <2>1, <2>2 DEF Settled
  <2>5. Recursion'
    BY <2>1, <2>2, <2>3, <2>4 DEF Recursion, treeVars
  <2> QED BY <2>1, <2>5, SameTreeTree
<1> QED BY <1>1, <1>2, <1>3, <1>4, <1>5, <1>6 DEF Begin, BeginCreateDir

-----------------------------------------------------------------------------
(* The entry is written: the directory was decided on before.              *)
LEMMA AddEntryTree ==
  ASSUME Ready, Ready', Tree, AddEntry
  PROVE  Tree'
<1> USE DEF Linking, Unlinking, Erasing, Writing
<1>1. /\ pc = "linked" /\ pc' = "return" /\ inodes' = inodes /\ name' = name
      /\ op' = op /\ cur' = cur /\ dir' = dir /\ newName' = newName
      /\ stack' = stack
  BY DEF AddEntry, listVars, callVars
<1>2. /\ cur \in inodes /\ dir \in inodes /\ cur # Root /\ IsDir(dir)
      /\ name[cur] \in Names /\ parent[cur] = dir
  BY <1>1 DEF Ready, Registers, Tree, Rooted, Directories
<1>3. /\ parent' = parent
      /\ \A d \in inodes : entries'[d] = IF d = dir THEN entries[d] \cup {cur}
                                                    ELSE entries[d]
  BY <1>2, InodesAreSectors DEF AddEntry, Ready, TypeOK, TreeType
<1>4. Rooted'
  <2>1. Unlinked(Root)'
    BY <1>1, <1>2, <1>3 DEF Tree, Rooted, Unlinked
  <2>2. \A d \in inodes : \A e \in entries'[d] : name[e] \in Names
    BY <1>2, <1>3 DEF Tree, Rooted
  <2> QED BY <1>1, <1>3, <2>1, <2>2 DEF Tree, Rooted
<1>5. Directories'
  BY <1>1, <1>2, <1>3 DEF Tree, Directories, IsDir
<1>6. Acyclic'
  <2>1. \A d, f \in inodes' : Leads(d, f)' => Leads(d, f)
    BY <1>1, <1>3 DEF Leads
  <2> QED BY <1>1, <2>1, FewerLeads DEF Tree
<1>7. Recursion'
  BY <1>1 DEF Recursion, Ready, Control
<1> QED BY <1>4, <1>5, <1>6, <1>7 DEF Tree

(* The entry that goes is the file's own.                                  *)
LEMMA OwnEntry ==
  ASSUME Ready, Tree, Unlinking, pc # "unlink"
  PROVE  /\ cur \in inodes /\ dir \in inodes /\ parent[cur] = dir
         /\ cur # Root /\ cur \in entries[dir]
         /\ Matching(dir, cur) = {cur}
<1>1. /\ cur \in inodes /\ dir \in inodes /\ parent[cur] = dir
      /\ cur # Root /\ cur \in entries[dir]
  BY DEF Ready, Registers, Tree, Rooted
<1> QED BY <1>1 DEF Ready, EntriesSound, Matching

(* In a recursive delete it is in the directory one frame further out.     *)
LEMMA ParentFrame ==
  ASSUME Ready, Tree, stack # <<>>, Len(stack) > 1, Len(stack) \in Settled
  PROVE  /\ Len(stack) \in Nat
         /\ parent[stack[Len(stack)].file] = stack[Len(stack) - 1].file
         /\ stack[Len(stack)].file \in entries[stack[Len(stack) - 1].file]
         /\ stack[Len(stack)].file \in inodes
         /\ stack[Len(stack) - 1].file \in inodes
<1> DEFINE n == Len(stack)
<1>1. n \in Nat
  BY LenProperties DEF Ready, TypeOK, CallType
<1>2. n - 1 \in Settled /\ n \in Settled
  BY <1>1 DEF Settled
<1>3. /\ stack[n - 1].file \in inodes /\ stack[n].file \in inodes
      /\ stack[n].file \in entries[stack[n - 1].file]
  BY <1>1, <1>2 DEF Tree, Recursion
<1> QED BY <1>1, <1>3 DEF Ready, EntriesSound

LEMMA DropEntryTree ==
  ASSUME Ready, Ready', Tree, DropEntry
  PROVE  Tree'
<1> USE DEF Linking, Unlinking, Erasing, Writing
<1>1. /\ pc = "unlinked" /\ inodes' = inodes /\ parent' = parent
      /\ op' = op /\ cur' = cur /\ dir' = dir /\ newName' = newName
      /\ stack' = stack
      /\ IF op = "rename"
         THEN pc' = "link" /\ name' = [name EXCEPT ![cur] = newName]
         ELSE pc' = "collect" /\ name' = name
  BY DEF DropEntry, listVars, callVars
<1>2. /\ cur \in inodes /\ dir \in inodes /\ parent[cur] = dir
      /\ cur # Root /\ cur \in entries[dir] /\ Matching(dir, cur) = {cur}
  BY <1>1, OwnEntry
<1>3. \A d \in inodes : entries'[d] = IF d = dir THEN entries[d] \ {cur}
                                                 ELSE entries[d]
  BY <1>2, InodesAreSectors DEF DropEntry, Ready, TypeOK, TreeType
<1>4. /\ op = "rename" => newName \in Names
      /\ op = "rename" => (newName \in DirNames <=> name[cur] \in DirNames)
      /\ \A d \in inodes : \A e \in entries[d] : name[e] \in Names /\ e \in inodes
      /\ Root \in inodes /\ parent[Root] = Root /\ name[Root] = NoName
  BY <1>1 DEF Tree, Rooted, Directories, Ready, EntriesSound
<1>5. \A f \in inodes : name'[f] = IF f = cur /\ op = "rename" THEN newName
                                   ELSE name[f]
  BY <1>1, InodesAreSectors DEF Ready, TypeOK, TreeType
<1>6. \A f \in inodes : IsDir(f)' <=> IsDir(f)
  BY <1>1, <1>4, <1>5 DEF IsDir
<1>7. Rooted'
  BY <1>1, <1>2, <1>3, <1>4, <1>5 DEF Tree, Rooted, Unlinked
<1>8. Directories'
  BY <1>1, <1>2, <1>3, <1>6 DEF Tree, Directories
<1>9. Acyclic'
  BY <1>1, <1>2, <1>3, FewerLeads DEF Tree, Leads
<1>10. Recursion'
  <2> SUFFICES ASSUME stack # <<>> PROVE Recursion'
    BY <1>1 DEF Recursion
  <2> DEFINE n == Len(stack)
  <2>1. n \in Nat /\ op = "delete" /\ pc' = "collect"
    BY <1>1, LenProperties DEF Ready, TypeOK, CallType, Control
  <2>2. Settled = 1 .. n /\ Settled' = 1 .. n - 1
    BY <1>1, <2>1 DEF Settled
  <2>3. cur = stack[n].file /\ stack[n].kids = {}
    BY <1>1 DEF Tree, Recursion
  <2>4. \A i, j \in 1 .. n : stack[i].file = stack[j].file => i = j
    BY DEF Tree, Recursion
  <2>5. \A i \in 1 .. n - 1 :
          /\ stack[i].file \in inodes /\ stack[i].file # cur
          /\ stack[i].kids \subseteq entries[stack[i].file]
          /\ i > 1 => stack[i].file \in entries[stack[i - 1].file]
                      /\ stack[i - 1].file \in inodes
    <3>1. \A i \in 1 .. n :
            /\ stack[i].file \in inodes
            /\ stack[i].kids \subseteq entries[stack[i].file]
            /\ i > 1 => stack[i].file \in entries[stack[i - 1].file]
      BY <2>2 DEF Tree, Recursion
    <3>2. \A i \in 1 .. n - 1 : i \in 1 .. n /\ n \in 1 .. n /\ i # n
                                /\ (i > 1 => i - 1 \in 1 .. n)
      BY <2>1
    <3> QED BY <2>3, <2>4, <3>1, <3>2
  <2>6. \A i \in 1 .. n - 1 :
          stack[i].file = dir => cur \notin stack[i].kids
    <3> SUFFICES ASSUME NEW i \in 1 .. n - 1, stack[i].file = dir
                 PROVE  cur \notin stack[i].kids
      OBVIOUS
    <3>1. n > 1 /\ n \in Settled /\ n - 1 \in 1 .. n /\ i \in 1 .. n /\ n \in 2 .. n
      BY <2>1, <2>2
    <3>2. stack[n - 1].file = dir
      BY <1>2, <2>3, <3>1, ParentFrame
    <3>3. i = n - 1
      BY <2>4, <3>1, <3>2
    <3>4. stack[n].file \notin stack[n - 1].kids
      BY <3>1 DEF Tree, Recursion
    <3> QED BY <2>3, <3>3, <3>4
  <2>7. \A i \in 1 .. n - 1 :
          /\ stack[i].file \in inodes
          /\ stack[i].kids \subseteq entries'[stack[i].file]
          /\ i > 1 => stack[i].file \in entries'[stack[i - 1].file]
    BY <1>3, <2>5, <2>6
  <2>8. 1 \in 1 .. n - 1 /\ stack[1].file # Root =>
          /\ parent[stack[1].file] \in inodes
          /\ stack[1].file \in entries'[parent[stack[1].file]]
    <3> SUFFICES ASSUME 1 \in 1 .. n - 1, stack[1].file # Root
                 PROVE  /\ parent[stack[1].file] \in inodes
                        /\ stack[1].file \in entries'[parent[stack[1].file]]
      OBVIOUS
    <3>1. 1 \in Settled /\ stack[1].file # cur
      BY <2>1, <2>2, <2>5
    <3>2. /\ parent[stack[1].file] \in inodes
          /\ stack[1].file \in entries[parent[stack[1].file]]
      BY <3>1 DEF Tree, Recursion
    <3> QED BY <1>3, <3>1, <3>2
  <2> QED BY <1>1, <2>2, <2>3, <2>7, <2>8 DEF Tree, Recursion
<1> QED BY <1>7, <1>8, <1>9, <1>10 DEF Tree

(* The inode goes last, when nothing leads to it any more.                 *)
LEMMA EraseFileEffect ==
  ASSUME Ready, EraseFile
  PROVE  /\ pc = "erase" /\ pc' = "return" /\ doomed = <<>> /\ doomed' = <<>>
         /\ inodes' = inodes \ {cur} /\ cur \in inodes
         /\ op' = op /\ cur' = cur /\ dir' = dir /\ newName' = newName
         /\ stack' = stack /\ err' = err /\ Unlinked(cur)
         /\ data' = data /\ chain' = chain /\ tail' = tail /\ stale' = stale
         /\ \A g \in inodes : g # cur =>
              /\ entries'[g] = entries[g] /\ name'[g] = name[g]
              /\ parent'[g] = parent[g] /\ size'[g] = size[g]
<1>1. TreeType /\ inodes \subseteq Sector
  BY InodesAreSectors DEF Ready, TypeOK
<1>2. cur \in inodes /\ Unlinked(cur)
  BY DEF EraseFile, Ready, Registers, Erasing
<1> QED BY <1>1, <1>2 DEF EraseFile, EraseInode, TreeType, callVars

LEMMA EraseFileTree ==
  ASSUME Ready, Ready', Tree, EraseFile
  PROVE  Tree'
<1> USE DEF Linking, Unlinking, Erasing, Writing
<1>1. /\ pc = "erase" /\ pc' = "return"
      /\ inodes' = inodes \ {cur} /\ cur \in inodes
      /\ op' = op /\ cur' = cur /\ dir' = dir /\ newName' = newName
      /\ stack' = stack /\ Unlinked(cur)
      /\ \A g \in inodes : g # cur =>
           /\ entries'[g] = entries[g] /\ name'[g] = name[g]
           /\ parent'[g] = parent[g]
  BY EraseFileEffect
<1>2. cur # Root
  BY <1>1 DEF Tree, Rooted
<1>3. \A d \in inodes : \A e \in entries[d] : e \in inodes /\ e # cur
  BY <1>1 DEF Ready, EntriesSound, Unlinked
<1>4. Rooted'
  BY <1>1, <1>2, <1>3 DEF Tree, Rooted, Unlinked
<1>5. Directories'
  BY <1>1 DEF Tree, Directories, IsDir
<1>6. Acyclic'
  <2>1. \A d, f \in inodes' : Leads(d, f)' => Leads(d, f)
    BY <1>1 DEF Leads
  <2> QED BY <1>1, <2>1, FewerLeads DEF Tree
<1>7. Recursion'
  <2> SUFFICES ASSUME stack # <<>> PROVE Recursion'
    BY <1>1 DEF Recursion
  <2> DEFINE n == Len(stack)
  <2>1. n \in Nat
    BY LenProperties DEF Ready, TypeOK, CallType
  <2>2. Settled = 1 .. n - 1 /\ Settled' = 1 .. n - 1
    BY <1>1 DEF Settled
  <2>3. cur = stack[n].file /\ stack[n].kids = {}
    BY <1>1 DEF Tree, Recursion
  <2>4. \A i, j \in 1 .. n : stack[i].file = stack[j].file => i = j
    BY DEF Tree, Recursion
  <2>5. \A i \in 1 .. n - 1 :
          /\ i \in 1 .. n /\ n \in 1 .. n /\ i # n
          /\ i > 1 => i - 1 \in 1 .. n - 1
    BY <2>1
  <2>6. \A i \in 1 .. n - 1 : stack[i].file # cur
    BY <2>3, <2>4, <2>5
  <2>7. \A i \in 1 .. n - 1 :
          /\ stack[i].file \in inodes'
          /\ stack[i].kids \subseteq entries'[stack[i].file]
          /\ i > 1 => stack[i].file \in entries'[stack[i - 1].file]
    <3>1. \A i \in 1 .. n - 1 :
            /\ stack[i].file \in inodes
            /\ stack[i].kids \subseteq entries[stack[i].file]
            /\ i > 1 => stack[i].file \in entries[stack[i - 1].file]
      BY <2>2 DEF Tree, Recursion
    <3>2. \A i \in 1 .. n - 1 : entries'[stack[i].file] = entries[stack[i].file]
      BY <1>1, <2>6, <3>1
    <3> QED BY <1>1, <2>5, <2>6, <3>1, <3>2
  <2>8. 1 \in 1 .. n - 1 =>
          /\ stack[1].file \in inodes /\ stack[1].file # cur
          /\ parent'[stack[1].file] = parent[stack[1].file]
    BY <1>1, <2>6, <2>7
  <2>9. 1 \in 1 .. n - 1 /\ stack[1].file # Root =>
          /\ parent'[stack[1].file] \in inodes'
          /\ stack[1].file \in entries'[parent'[stack[1].file]]
    <3> SUFFICES ASSUME 1 \in 1 .. n - 1, stack[1].file # Root
                 PROVE  /\ parent'[stack[1].file] \in inodes'
                        /\ stack[1].file \in entries'[parent'[stack[1].file]]
      OBVIOUS
    <3>1. /\ parent[stack[1].file] \in inodes
          /\ stack[1].file \in entries[parent[stack[1].file]]
      BY <2>2 DEF Tree, Recursion
    <3>2. n \in 2 .. n
      BY <2>1
    <3>3. parent[stack[1].file] # cur
      BY <2>3, <3>2 DEF Tree, Recursion
    <3> QED BY <1>1, <2>8, <3>1, <3>3
  <2>10. \A i \in 2 .. n :
           /\ stack[i].file \notin stack[i - 1].kids
           /\ stack[i].file # parent'[stack[1].file]
    <3>1. \A i \in 2 .. n : 1 \in 1 .. n - 1
      BY <2>1
    <3> QED BY <2>8, <3>1 DEF Tree, Recursion
  <2> QED BY <1>1, <2>2, <2>3, <2>4, <2>7, <2>9, <2>10 DEF Recursion
<1> QED BY <1>4, <1>5, <1>6, <1>7 DEF Tree

(* What a directory on the path lists is not on the path.                  *)
LEMMA ChildIsNew ==
  ASSUME Ready, Tree, pc = "delete", stack # <<>>,
         NEW k \in stack[Len(stack)].kids
  PROVE  /\ k \in inodes /\ k \in entries[stack[Len(stack)].file]
         /\ \A i \in 1 .. Len(stack) : k # stack[i].file
         /\ k # parent[stack[1].file]
<1> DEFINE n == Len(stack)
<1> USE DEF Linking, Unlinking, Erasing, Writing
<1>1. n \in Nat \ {0} /\ Settled = 1 .. n /\ n \in 1 .. n /\ 1 \in 1 .. n
  BY LenProperties, EmptySeq DEF Ready, TypeOK, CallType, Settled
<1>2. \A i \in 1 .. n : /\ stack[i].file \in inodes
                        /\ stack[i].kids \subseteq entries[stack[i].file]
                        /\ i > 1 => stack[i].file \in entries[stack[i - 1].file]
  BY <1>1 DEF Tree, Recursion
<1>3. k \in inodes /\ k \in entries[stack[n].file] /\ k # Root
  BY <1>1, <1>2 DEF Ready, EntriesSound, Tree, Rooted, Unlinked
<1>4. ~Linking
  OBVIOUS
<1>5. \A i \in 1 .. n : k # stack[i].file
  <2> SUFFICES ASSUME NEW j \in 1 .. n, k = stack[j].file PROVE FALSE
    OBVIOUS
  <2> DEFINE S == {stack[i].file : i \in j .. n}
  <2>1. S \in SUBSET inodes /\ stack[n].file \in S
    BY <1>1, <1>2
  <2>2. PICK f \in S : \A d \in S : ~Leads(d, f)
    BY <2>1 DEF Tree, Acyclic
  <2>3. PICK i \in j .. n : f = stack[i].file
    BY <2>2
  <2>4. CASE i = j
    BY <1>3, <2>1, <2>2, <2>3, <2>4 DEF Leads
  <2>5. CASE i # j
    <3>1. i \in 1 .. n /\ i > 1 /\ i - 1 \in j .. n
      BY <1>1, <2>3, <2>5
    <3> QED BY <1>2, <2>2, <2>3, <3>1 DEF Leads
  <2> QED BY <2>4, <2>5
<1>6. k # parent[stack[1].file]
  <2> SUFFICES ASSUME k = parent[stack[1].file] PROVE FALSE
    OBVIOUS
  <2>1. stack[1].file # Root
    BY <1>3 DEF Tree, Rooted
  <2>2. stack[1].file \in entries[k]
    BY <1>1, <2>1 DEF Tree, Recursion
  <2> DEFINE S == {stack[i].file : i \in 1 .. n} \cup {k}
  <2>3. S \in SUBSET inodes /\ stack[n].file \in S /\ k \in S
    BY <1>1, <1>2, <1>3
  <2>4. PICK f \in S : \A d \in S : ~Leads(d, f)
    BY <2>3 DEF Tree, Acyclic
  <2>5. CASE f = k
    BY <1>3, <2>3, <2>4, <2>5 DEF Leads
  <2>6. CASE f # k
    <3>1. PICK i \in 1 .. n : f = stack[i].file
      BY <2>4, <2>6
    <3>2. i = 1 \/ (i > 1 /\ i - 1 \in 1 .. n)
      BY <1>1, <3>1
    <3> QED BY <1>2, <2>2, <2>3, <2>4, <3>1, <3>2 DEF Leads
  <2> QED BY <2>5, <2>6
<1> QED BY <1>3, <1>5, <1>6

LEMMA DeleteChildTree ==
  ASSUME Ready, Ready', Tree, DeleteChild
  PROVE  Tree'
<1> USE DEF Linking, Unlinking, Erasing, Writing
<1> DEFINE n == Len(stack)
<1>1. PICK k \in stack[n].kids :
        stack' = Append([stack EXCEPT ![n].kids = @ \ {k}], Frame(k))
  BY DEF DeleteChild
<1>2. /\ pc = "delete" /\ pc' = "delete" /\ UNCHANGED treeVars
      /\ inodes' = inodes /\ op' = op /\ cur' = cur /\ dir' = dir
      /\ newName' = newName /\ stack \in Seq(Frames) /\ stack # <<>>
  BY DEF DeleteChild, listVars, callVars, Ready, TypeOK, CallType
<1>3. /\ k \in inodes /\ k \in entries[stack[n].file]
      /\ \A i \in 1 .. n : k # stack[i].file
      /\ k # parent[stack[1].file]
  BY <1>2, ChildIsNew
<1>4. /\ Frame(k) \in Frames /\ Frame(k).file = k
      /\ Frame(k).kids \subseteq entries[k]
  BY <1>3, FrameType, InodesAreSectors DEF Ready, TypeOK, Frame
<1>5. /\ n \in Nat \ {0} /\ Len(stack') = n + 1
      /\ \A i \in 1 .. n - 1 : stack'[i] = stack[i]
      /\ stack'[n].file = stack[n].file
      /\ stack'[n].kids = stack[n].kids \ {k}
      /\ stack'[n + 1].file = k /\ stack'[n + 1].kids \subseteq entries[k]
  <2>1. LET st2 == Append([stack EXCEPT ![Len(stack)].kids = @ \ {k}], Frame(k))
        IN  /\ Len(stack) \in Nat \ {0} /\ Len(st2) = Len(stack) + 1
            /\ \A i \in 1 .. Len(stack) - 1 : st2[i] = stack[i]
            /\ st2[Len(stack)].file = stack[Len(stack)].file
            /\ st2[Len(stack)].kids = stack[Len(stack)].kids \ {k}
            /\ st2[Len(stack) + 1] = Frame(k)
    BY <1>2, <1>4, PushFrame
  <2> QED BY <1>1, <1>4, <2>1
<1>6. Settled = 1 .. n /\ Settled' = 1 .. n + 1
  BY <1>2, <1>5 DEF Settled
<1>7. /\ \A i \in 1 .. n : /\ stack[i].file \in inodes
                           /\ stack[i].kids \subseteq entries[stack[i].file]
                           /\ i > 1 => stack[i].file \in entries[stack[i - 1].file]
      /\ stack[1].file # Root =>
           /\ parent[stack[1].file] \in inodes
           /\ stack[1].file \in entries[parent[stack[1].file]]
      /\ \A i \in 2 .. n : /\ stack[i].file \notin stack[i - 1].kids
                           /\ stack[i].file # parent[stack[1].file]
      /\ \A i, j \in 1 .. n : stack[i].file = stack[j].file => i = j
  <2>1. 1 \in 1 .. n
    BY <1>5
  <2> QED BY <1>2, <1>6, <2>1 DEF Tree, Recursion
<1>8. \A i \in 1 .. n : /\ stack'[i].file = stack[i].file
                        /\ stack'[i].kids \subseteq stack[i].kids
                        /\ i # n => stack'[i].kids = stack[i].kids
  <2> SUFFICES ASSUME NEW i \in 1 .. n
               PROVE  /\ stack'[i].file = stack[i].file
                      /\ stack'[i].kids \subseteq stack[i].kids
                      /\ i # n => stack'[i].kids = stack[i].kids
    OBVIOUS
  <2>1. CASE i = n
    BY <1>5, <2>1
  <2>2. CASE i # n
    <3>1. i \in 1 .. n - 1
      BY <1>5, <2>2
    <3> QED BY <1>5, <2>2, <3>1
  <2> QED BY <2>1, <2>2
<1>9. Recursion'
  <2>1. \A i \in 1 .. n + 1 : i = n + 1 \/ i \in 1 .. n
    BY <1>5
  <2>2. \A i \in 1 .. n + 1 :
          /\ stack'[i].file \in inodes
          /\ stack'[i].kids \subseteq entries[stack'[i].file]
          /\ i > 1 => stack'[i].file \in entries[stack'[i - 1].file]
    <3> SUFFICES ASSUME NEW i \in 1 .. n + 1
                 PROVE  /\ stack'[i].file \in inodes
                        /\ stack'[i].kids \subseteq entries[stack'[i].file]
                        /\ i > 1 => stack'[i].file \in entries[stack'[i - 1].file]
      OBVIOUS
    <3>1. CASE i = n + 1
      <4>1. i - 1 = n
        BY <1>5, <3>1
      <4> QED BY <1>3, <1>5, <3>1, <4>1
    <3>2. CASE i \in 1 .. n
      <4>1. i > 1 => i - 1 \in 1 .. n
        BY <1>5, <3>2
      <4> QED BY <1>7, <1>8, <3>2, <4>1
    <3> QED BY <2>1, <3>1, <3>2
  <2>3. stack'[1].file = stack[1].file
    BY <1>5, <1>8
  <2>4. \A i \in 2 .. n + 1 : /\ stack'[i].file \notin stack'[i - 1].kids
                              /\ stack'[i].file # parent[stack'[1].file]
    <3> SUFFICES ASSUME NEW i \in 2 .. n + 1
                 PROVE  /\ stack'[i].file \notin stack'[i - 1].kids
                        /\ stack'[i].file # parent[stack'[1].file]
      OBVIOUS
    <3>1. CASE i = n + 1
      <4>1. i - 1 = n
        BY <1>5, <3>1
      <4> QED BY <1>3, <1>5, <2>3, <3>1, <4>1
    <3>2. CASE i # n + 1
      <4>1. i \in 2 .. n /\ i \in 1 .. n /\ i - 1 \in 1 .. n
        BY <1>5, <3>2
      <4> QED BY <1>7, <1>8, <2>3, <4>1
    <3> QED BY <3>1, <3>2
  <2>5. \A i, j \in 1 .. n + 1 : stack'[i].file = stack'[j].file => i = j
    BY <1>3, <1>5, <1>7, <1>8, <2>1
  <2> QED BY <1>2, <1>5, <1>6, <1>7, <2>2, <2>3, <2>4, <2>5
          DEF Recursion, treeVars
<1>10. op' # "rename"
  BY <1>2 DEF Ready, Control
<1> QED BY <1>2, <1>9, <1>10, SameTreeTree

(* The file that a recursive delete unlinks next, and its directory, live. *)
LEMMA DeleteTopFiles ==
  ASSUME Ready, Tree, DeleteTop
  PROVE  /\ cur' = stack[Len(stack)].file /\ dir' = parent[cur']
         /\ cur' \in inodes /\ dir' \in inodes
         /\ cur' = Root \/ cur' \in entries[dir']
<1> DEFINE n == Len(stack)
<1>1. pc = "delete" /\ stack # <<>> /\ cur' = stack[n].file /\ dir' = parent[cur']
  BY DEF DeleteTop, Ready, TypeOK, CallType
<1>2. n \in Nat \ {0} /\ Settled = 1 .. n /\ n \in Settled
  BY <1>1, LenProperties, EmptySeq
     DEF Ready, TypeOK, CallType, Settled, Erasing
<1>3. stack[n].file \in inodes
  BY <1>1, <1>2 DEF Tree, Recursion
<1>4. CASE n > 1
  BY <1>1, <1>2, <1>3, <1>4, ParentFrame
<1>5. CASE n = 1
  BY <1>1, <1>2, <1>3, <1>5 DEF Tree, Recursion, Rooted
<1> QED BY <1>1, <1>2, <1>3, <1>4, <1>5

LEMMA DeleteTopTree ==
  ASSUME Ready, Tree, DeleteTop
  PROVE  Tree' /\ ~dangling'
<1> USE DEF Linking, Unlinking, Erasing, Writing
<1>1. /\ pc = "delete" /\ pc' = "unlink" /\ UNCHANGED treeVars
      /\ inodes' = inodes /\ op' = op /\ stack' = stack
      /\ stack[Len(stack)].kids = {} /\ cur' = stack[Len(stack)].file
      /\ op = "delete"
  BY DEF DeleteTop, listVars, Ready, TypeOK, CallType, Calls
<1>2. /\ cur' \in inodes /\ dir' \in inodes
      /\ cur' = Root \/ cur' \in entries[dir']
  BY DeleteTopFiles
<1>3. ~dangling'
  BY <1>2 DEF DeleteTop, Ready, Sound
<1>4. Settled' = Settled
  BY <1>1 DEF Settled
<1>5. Recursion'
  BY <1>1, <1>4 DEF Tree, Recursion, treeVars
<1> QED BY <1>1, <1>2, <1>3, <1>5, SameTreeTree

LEMMA ReturnTree ==
  ASSUME Ready, Tree, ReturnToLoop \/ Return
  PROVE  Tree'
<1> USE DEF Linking, Unlinking, Erasing, Writing
<1>1. CASE ReturnToLoop
  <2> DEFINE n == Len(stack)
  <2>1. /\ pc = "return" /\ pc' = "delete" /\ UNCHANGED treeVars
        /\ inodes' = inodes /\ op' = op /\ n > 1 /\ stack' = AllButLast(stack)
    BY <1>1 DEF ReturnToLoop, listVars, callVars
  <2>2. /\ n \in Nat \ {0} /\ Len(stack') = n - 1
        /\ \A i \in 1 .. n - 1 : stack'[i] = stack[i]
    BY <2>1, PopFrame DEF Ready, TypeOK, CallType
  <2>3. Settled = 1 .. n - 1 /\ Settled' = 1 .. n - 1
    BY <2>1, <2>2 DEF Settled
  <2>4. stack # <<>> /\ op # "rename"
    BY <2>1 DEF Ready, Control
  <2>5. /\ 1 \in 1 .. n - 1
        /\ \A i \in 1 .. n - 1 : i \in 1 .. n /\ (i > 1 => i - 1 \in 1 .. n - 1)
        /\ \A i \in 2 .. n - 1 : i \in 2 .. n /\ i \in 1 .. n - 1
                                 /\ i - 1 \in 1 .. n - 1
    BY <2>1, <2>2
  <2>6. Recursion'
    <3>1. \A i \in 1 .. n - 1 :
            /\ stack'[i].file \in inodes
            /\ stack'[i].kids \subseteq entries[stack'[i].file]
            /\ i > 1 => stack'[i].file \in entries[stack'[i - 1].file]
      BY <2>2, <2>3, <2>4, <2>5 DEF Tree, Recursion
    <3>2. stack'[1].file # Root =>
            /\ parent[stack'[1].file] \in inodes
            /\ stack'[1].file \in entries[parent[stack'[1].file]]
      BY <2>2, <2>3, <2>4, <2>5 DEF Tree, Recursion
    <3>3. \A i \in 2 .. n - 1 : /\ stack'[i].file \notin stack'[i - 1].kids
                                /\ stack'[i].file # parent[stack'[1].file]
      BY <2>2, <2>4, <2>5 DEF Tree, Recursion
    <3>4. \A i, j \in 1 .. n - 1 : stack'[i].file = stack'[j].file => i = j
      BY <2>2, <2>4, <2>5 DEF Tree, Recursion
    <3> QED BY <2>1, <2>2, <2>3, <3>1, <3>2, <3>3, <3>4 DEF Recursion, treeVars
  <2> QED BY <2>1, <2>4, <2>6, SameTreeTree
<1>2. CASE Return
  <2>1. /\ pc' = "idle" /\ UNCHANGED treeVars /\ inodes' = inodes
        /\ op' = "none" /\ stack' = <<>>
    BY <1>2 DEF Return, listVars
  <2>2. Recursion'
    BY <2>1 DEF Recursion
  <2> QED BY <2>1, <2>2, SameTreeTree
<1> QED BY <1>1, <1>2

LEMMA InitTree == Init => Tree
<1> SUFFICES ASSUME Init PROVE Tree
  OBVIOUS
<1>1. /\ inodes = {Root} /\ Root \in Sector /\ pc = "idle" /\ op = "none"
      /\ entries[Root] = {} /\ parent[Root] = Root /\ name[Root] = NoName
      /\ stack = <<>>
  BY VolumeAssumption DEF Init
<1> QED BY <1>1 DEF Tree, Rooted, Unlinked, Directories, Acyclic, Leads,
           Recursion, Linking, Unlinking, Erasing, Writing

(* Damage is never undone, and only DeleteTop can make the call dangle.    *)
LEMMA DamageStays ==
  ASSUME TypeOK, [Next]_vars, ~damaged'
  PROVE  ~damaged /\ (DeleteTop \/ dangling' = dangling)
<1> USE DEF histVars
<1>1. CASE Begin
  BY <1>1 DEF Begin, BeginCreate, BeginCreateDir, CreateNoSpace,
     CopySourceUnreadable, BeginWrite, BeginRename, BeginDelete
<1>2. CASE Store \/ Collect
  BY <1>2 DEF Store, Collect, TypeOK, CallType
<1>3. CASE \/ GrowInPlace \/ GrowGrab \/ GrowNoSpace \/ Extend \/ ExtendNoSpace
           \/ Shrink \/ ShrinkNothing \/ Trim
  BY <1>3 DEF GrowInPlace, GrowGrab, GrowNoSpace, Extend, ExtendNoSpace,
     Shrink, ShrinkNothing, Trim
<1>4. CASE \/ Link \/ LinkExists \/ AddEntry
           \/ Unlink \/ UnlinkMissing \/ Resize \/ DropEntry
  BY <1>4 DEF Link, LinkExists, AddEntry, Unlink, UnlinkMissing, Resize,
     DropEntry
<1>5. CASE \/ DeleteChild \/ DeleteTop
           \/ EraseDataSector \/ EraseContentInode \/ EraseFile
           \/ ReturnToLoop \/ Return
  BY <1>5 DEF DeleteChild, DeleteTop, EraseDataSector, EraseContentInode,
     EraseFile, ReturnToLoop, Return
<1>6. CASE UNCHANGED vars
  BY <1>6 DEF vars
<1> QED BY <1>1, <1>2, <1>3, <1>4, <1>5, <1>6 DEF Next, Step

(* The first two layers: ownership and the tree.                           *)
SoundTree == Inductive /\ Control /\ (~damaged => ~dangling /\ Tree)

LEMMA InitSoundTree == Init => SoundTree
BY InitOwnership, InitControl, InitTree DEF SoundTree, Init

LEMMA ReadyHere == SoundTree /\ ~damaged => Ready /\ Tree
BY ReadyState DEF SoundTree, Sound

LEMMA NextReady ==
  ASSUME SoundTree, [Next]_vars, ~damaged'
  PROVE  /\ ~damaged /\ ~dangling' /\ Ready /\ Ready' /\ Tree
         /\ Inductive' /\ Control'
<1>1. ~damaged /\ (DeleteTop \/ dangling' = dangling)
  BY DamageStays DEF SoundTree, Inductive
<1>2. Ready /\ Tree /\ ~dangling
  BY <1>1, ReadyHere DEF SoundTree
<1>3. ~dangling'
  BY <1>1, <1>2, DeleteTopTree
<1>4. Inductive' /\ Control'
  BY NextOwnership, NextControl DEF SoundTree, Inductive
<1>5. Sound'
  BY <1>3 DEF Sound
<1>6. Ready'
  BY <1>4, <1>5 DEF Inductive, SoundOwnership, Ready
<1> QED BY <1>1, <1>2, <1>3, <1>4, <1>6

LEMMA NextTree ==
  ASSUME Ready, Ready', Tree, [Next]_vars
  PROVE  Tree'
<1>1. CASE Begin
  BY <1>1, BeginTree
<1>2. CASE QuietStep
  BY <1>2, QuietSteps, QuietTree DEF Ready
<1>3. CASE AddEntry \/ DropEntry
  BY <1>3, AddEntryTree, DropEntryTree
<1>4. CASE EraseFile
  BY <1>4, EraseFileTree
<1>5. CASE DeleteChild \/ DeleteTop \/ ReturnToLoop \/ Return
  BY <1>5, DeleteChildTree, DeleteTopTree, ReturnTree
<1>6. CASE UNCHANGED vars
  BY <1>6 DEF vars, Tree, Rooted, Directories, Acyclic, Recursion, Settled,
     Unlinked, IsDir, Leads, Linking, Unlinking, Erasing, Writing, listVars,
     treeVars, callVars, writeVars
<1> QED BY <1>1, <1>2, <1>3, <1>4, <1>5, <1>6 DEF Next, Step, QuietStep

LEMMA NextSoundTree == SoundTree /\ [Next]_vars => SoundTree'
<1> SUFFICES ASSUME SoundTree, [Next]_vars PROVE SoundTree'
  OBVIOUS
<1>1. Inductive' /\ Control'
  BY NextOwnership, NextControl DEF SoundTree, Inductive
<1>2. CASE ~damaged'
  BY <1>1, <1>2, NextReady, NextTree DEF SoundTree
<1>3. CASE damaged'
  BY <1>1, <1>3 DEF SoundTree
<1> QED BY <1>2, <1>3

(* A recursive delete never goes on with a file it has already erased, nor *)
(* unlinks from a directory that is gone (ccos_delete_file): the path of   *)
(* its frames is one of live directories and never closes into a cycle.    *)
THEOREM NothingDangles == Spec => []NeverDangling
<1>1. SoundTree => NeverDangling
  BY DEF SoundTree, NeverDangling
<1> QED BY <1>1, InitSoundTree, NextSoundTree, PTL DEF Spec

(* The calls implement SectorOwnership, as long as no stray list entry is  *)
(* acted upon: each of their steps moves at most one sector, between the   *)
(* pool and one file, whose inode is the first it takes and the last it    *)
(* gives up; what Collect and ccos_write_file read and keep in locals is   *)
(* never moved behind their back.                                          *)
THEOREM CallsImplement == Spec /\ []~damaged => ImplementsOwnership
<1>1. NeverDangling /\ ~damaged => Sound
  BY DEF NeverDangling, Sound
<1> QED BY <1>1, NothingDangles, SoundCallsImplement, PTL

-----------------------------------------------------------------------------
(* Stray slots.                                                            *)

LEMMA NoPrefix == \A n : SubSeq(<<>>, 1, 0) = <<>>
OBVIOUS

(* A list without stray slots does not get one by an ordinary append.      *)
LEMMA AppendTail ==
  ASSUME ListType, NEW f \in Sector, NEW s, AppendSector(f, s), tail[f] = <<>>
  PROVE  tail'[f] = <<>>
<1> DEFINE behind == ContMax - LastCount(f) - 2
           keep == IF Len(tail[f]) <= behind THEN Len(tail[f])
                   ELSE IF behind < 0 THEN 0 ELSE behind
<1>1. tail'[f] = SubSeq(tail[f], 1, keep)
  BY DEF AppendSector, ListType
<1>2. behind \in Int
  BY CountType, FileSectorsAssumption
<1>3. Len(tail[f]) = 0
  OBVIOUS
<1>4. keep = 0
  BY <1>2, <1>3
<1> QED BY <1>1, <1>4, NoPrefix

LEMMA InitStrays == Init => NoStrays
BY DEF Init, NoStrays

(* Nothing stray is acted upon before there is a stray slot: until then a  *)
(* list has all the sectors it needs when the bytes are stored.            *)
LEMMA NextStrays ==
  ASSUME TypeOK, NoStrays, ~damaged => Progress, [Next]_vars
  PROVE  NoStrays'
<1>0. ListType /\ target \in Sector /\ cur \in Sector /\ damaged \in BOOLEAN
  BY DEF TypeOK, CallType
<1>1. CASE \E d \in Sector, n \in Names, bytes \in FileSizes \cup {LogSize} : BeginCreate(d, n, bytes)
  BY <1>0, <1>1 DEF BeginCreate, NewInode, InitInode, histVars, ListType, NoStrays
<1>2. CASE \E d \in Sector : CopySourceUnreadable(d)
  BY <1>0, <1>2 DEF CopySourceUnreadable, NewInode, InitInode, histVars,
     ListType, NoStrays
<1>3. CASE \/ \E d \in Sector : CreateNoSpace(d)
           \/ \E f \in Sector, bytes \in FileSizes : BeginWrite(f, bytes)
           \/ \E f \in Sector, n \in Names : BeginRename(f, n)
           \/ \E f \in Sector : BeginDelete(f)
  BY <1>3 DEF CreateNoSpace, BeginWrite, BeginRename, BeginDelete, listVars,
     histVars, NoStrays
<1>4. CASE GrowInPlace
  <2>1. PICK s \in Sector : AppendSector(target, s)
    BY <1>4 DEF GrowInPlace
  <2>2. stale' = stale /\ damaged' = damaged
        /\ \A g \in Sector : g # target => tail'[g] = tail[g]
    BY <1>0, <1>4, <2>1 DEF GrowInPlace, histVars, AppendSector, ListType
  <2> QED BY <1>0, <2>1, <2>2, AppendTail DEF NoStrays
<1>5. CASE Extend
  <2>1. PICK s \in grabbed, c \in Sector : AddContentInode(target, s, c)
    BY <1>5 DEF Extend
  <2>2. /\ stale' = (stale \/ UnwrittenSlots(c) # <<>>) /\ damaged' = damaged
        /\ tail'[target] = UnwrittenSlots(c)
        /\ \A g \in Sector : g # target => tail'[g] = tail[g]
    BY <1>0, <1>5, <2>1 DEF Extend, histVars, AddContentInode, ListType
  <2> QED BY <1>0, <2>2 DEF NoStrays
<1>6. CASE GrowGrab \/ ExtendNoSpace \/ Shrink
  BY <1>6 DEF GrowGrab, GrabSector, ExtendNoSpace, DropGrabbed, Fail, Shrink,
     RemoveLastSector, histVars, NoStrays
<1>7. CASE Trim \/ EraseContentInode
  BY <1>0, <1>7 DEF Trim, EraseContentInode, RemoveContentInode, histVars,
     ListType, NoStrays
<1>8. CASE \/ GrowNoSpace \/ LinkExists \/ Link \/ AddEntry \/ Unlink
           \/ UnlinkMissing \/ Resize \/ DropEntry \/ DeleteChild \/ DeleteTop
           \/ ReturnToLoop \/ Return \/ ShrinkNothing \/ EraseDataSector
  BY <1>8 DEF GrowNoSpace, LinkExists, Link, AddEntry, Unlink, UnlinkMissing,
     Resize, DropEntry, DeleteChild, DeleteTop, ReturnToLoop, Return,
     ShrinkNothing, EraseDataSector, Fail, listVars, histVars, NoStrays
<1>9. CASE Store
  <2>1. /\ tail' = tail /\ stale' = stale /\ pc = "write" /\ left = 0
        /\ damaged' = (damaged \/ (Short(target) /\ (tail[target] # <<>>
                                                   \/ ret = "linked")))
    BY <1>9 DEF Store, listVars
  <2>2. ~damaged /\ ~stale => ~Short(target)
    <3> SUFFICES ASSUME ~damaged, ~stale PROVE ~Short(target)
      OBVIOUS
    <3>1. SectorsFor(newSize) = Len(data[target]) + 0 + 0
      BY <2>1 DEF Progress, Coming, Writing
    <3>2. Len(data[target]) \in Nat
      BY <1>0, CountType
    <3> QED BY <3>1, <3>2 DEF Short
  <2>3. damaged' => stale
    BY <1>0, <2>1, <2>2 DEF NoStrays
  <2> QED BY <2>1, <2>3 DEF NoStrays
<1>10. CASE Collect
  BY <1>0, <1>10 DEF Collect, DetachData, ListType, NoStrays
<1>11. CASE EraseFile
  BY <1>11 DEF EraseFile, EraseInode, histVars, NoStrays
<1>12. CASE UNCHANGED vars
  BY <1>12 DEF vars, listVars, histVars, NoStrays
<1> QED BY <1>1, <1>2, <1>3, <1>4, <1>5, <1>6, <1>7, <1>8, <1>9, <1>10, <1>11,
           <1>12
        DEF Next, Begin, Step, BeginCreateDir

-----------------------------------------------------------------------------
(* The sectors that so many bytes take: the least number that holds them.  *)

LEMMA DivisionBounds ==
  ASSUME NEW n \in Int, n > 0, NEW b \in Int
  PROVE  b \div n \in Int /\ n * (b \div n) <= b /\ b < n * (b \div n) + n
OBVIOUS

LEMMA MultiplesOf ==
  ASSUME NEW k \in Int, k > 0, NEW m \in Int, NEW n \in Int, m < n
  PROVE  k * m + k <= k * n /\ k * m \in Int /\ k * n \in Int
<1>1. n - m - 1 >= 0 /\ n - m - 1 \in Int
  OBVIOUS
<1>2. k * (n - m - 1) >= 0
  BY <1>1
<1>3. k * (n - m - 1) = k * n - k * m - k
  OBVIOUS
<1> QED BY <1>2, <1>3

LEMMA Multiples ==
  ASSUME NEW m \in Int, NEW n \in Int, m < n
  PROVE  LogSize * m + LogSize <= LogSize * n /\ LogSize * m \in Int
         /\ LogSize * n \in Int
BY MultiplesOf, ConstantTypes

LEMMA SectorsHold ==
  ASSUME NEW b \in Int
  PROVE  /\ SectorsFor(b) \in Int /\ LogSize * SectorsFor(b) \in Int
         /\ b <= LogSize * SectorsFor(b)
         /\ LogSize * SectorsFor(b) < b + LogSize
<1>1. LogSize \in Int /\ LogSize > 0
  BY ConstantTypes
<1> DEFINE x == b + LogSize - 1
<1>2. x \in Int
  BY <1>1
<1>3. SectorsFor(b) = x \div LogSize
  BY DEF SectorsFor
<1> HIDE DEF x
<1>4. /\ SectorsFor(b) \in Int
      /\ LogSize * SectorsFor(b) <= x
      /\ x < LogSize * SectorsFor(b) + LogSize
  BY <1>1, <1>2, <1>3, DivisionBounds
<1>5. LogSize * SectorsFor(b) \in Int
  BY <1>1, <1>4
<1> QED BY <1>1, <1>4, <1>5 DEF x

LEMMA SectorsLeast ==
  ASSUME NEW b \in Int, NEW n \in Int, b <= LogSize * n
  PROVE  SectorsFor(b) <= n
<1> SUFFICES ASSUME n < SectorsFor(b) PROVE FALSE
  BY SectorsHold
<1>1. SectorsFor(b) \in Int
  BY SectorsHold
<1>2. LogSize * n + LogSize <= LogSize * SectorsFor(b) /\ LogSize * n \in Int
  BY <1>1, Multiples
<1> QED BY <1>2, SectorsHold, ConstantTypes

LEMMA SectorsGrow ==
  ASSUME NEW a \in Int, NEW b \in Int, a <= b
  PROVE  SectorsFor(a) <= SectorsFor(b)
<1>1. SectorsFor(b) \in Int /\ a <= LogSize * SectorsFor(b)
  BY SectorsHold
<1> QED BY <1>1, SectorsLeast

LEMMA SectorsNatural ==
  ASSUME NEW b \in Nat
  PROVE  SectorsFor(b) \in Nat
<1> SUFFICES ASSUME SectorsFor(b) < 0 PROVE FALSE
  BY SectorsHold
<1>1. LogSize * SectorsFor(b) + LogSize <= LogSize * 0
  BY SectorsHold, Multiples
<1>2. LogSize * 0 = 0 /\ LogSize \in Int /\ LogSize > 0
  BY ConstantTypes
<1> QED BY <1>1, <1>2, SectorsHold

LEMMA SomeSector ==
  ASSUME NEW b \in Int, b >= 1
  PROVE  SectorsFor(b) > 0
<1> SUFFICES ASSUME SectorsFor(b) < 1 PROVE FALSE
  BY SectorsHold
<1>1. LogSize * SectorsFor(b) + LogSize <= LogSize * 1
  BY SectorsHold, Multiples
<1>2. LogSize * 1 = LogSize /\ LogSize \in Int
  BY ConstantTypes
<1> QED BY <1>1, <1>2, SectorsHold

(* An entry takes one sector more at most.                                 *)
LEMMA SectorsStep ==
  ASSUME NEW b \in Int, NEW e \in Int, e <= LogSize
  PROVE  SectorsFor(b + e) <= SectorsFor(b) + 1
<1> DEFINE q == SectorsFor(b)
<1>1. q \in Int /\ q + 1 \in Int /\ b <= LogSize * q /\ LogSize * q \in Int
      /\ LogSize \in Int
  BY SectorsHold, ConstantTypes
<1>2. LogSize * q + LogSize <= LogSize * (q + 1) /\ LogSize * (q + 1) \in Int
  BY <1>1, Multiples
<1>3. b + e <= LogSize * (q + 1) /\ b + e \in Int
  BY <1>1, <1>2
<1> HIDE DEF q
<1>4. SectorsFor(b + e) <= q + 1
  BY <1>1, <1>3, SectorsLeast
<1> QED BY <1>4 DEF q

(* What the entries of a directory take.                                   *)

Bytes(E, nm) == UNION {{e} \X (1 .. EntrySize[nm[e]]) : e \in E}

LEMMA EntryBytesAre == \A d : EntryBytes(d) = Bytes(entries[d], name)
BY DEF EntryBytes, Bytes

LEMMA EntryBytesWillBe == \A d : EntryBytes(d)' = Bytes(entries'[d], name')
BY DEF EntryBytes, Bytes

LEMMA BytesFinite ==
  ASSUME NEW E \in SUBSET Sector, NEW nm,
         \A e \in E : nm[e] \in Names \cup {NoName}
  PROVE  IsFiniteSet(Bytes(E, nm)) /\ Cardinality(Bytes(E, nm)) \in Nat
<1>1. IsFiniteSet(Sector) /\ IsFiniteSet(1 .. LogSize)
  BY FS_Interval, SectorMapAssumption, ConstantTypes DEF Sector
<1>2. IsFiniteSet(Sector \X (1 .. LogSize))
  BY <1>1, FS_Product
<1>3. \A e \in E : EntrySize[nm[e]] \in 0 .. LogSize
  BY VolumeAssumption
<1>4. Bytes(E, nm) \subseteq Sector \X (1 .. LogSize)
  <2>1. \A e \in E : {e} \X (1 .. EntrySize[nm[e]]) \subseteq Sector \X (1 .. LogSize)
    <3>1. \A e \in E : 1 .. EntrySize[nm[e]] \subseteq 1 .. LogSize
      BY <1>3, ConstantTypes
    <3> QED BY <3>1
  <2> QED BY <2>1 DEF Bytes
<1>5. IsFiniteSet(Bytes(E, nm))
  BY <1>2, <1>4, FS_Subset
<1> QED BY <1>5, FS_CardinalityType

LEMMA BytesSame ==
  ASSUME NEW E, NEW nm, NEW nm2, \A e \in E : nm2[e] = nm[e]
  PROVE  Bytes(E, nm2) = Bytes(E, nm)
BY DEF Bytes

LEMMA BytesAdd ==
  ASSUME NEW E \in SUBSET Sector, NEW nm,
         NEW c \in Sector \ E,
         \A e \in E \cup {c} : nm[e] \in Names \cup {NoName}
  PROVE  /\ Cardinality(Bytes(E \cup {c}, nm))
               = Cardinality(Bytes(E, nm)) + EntrySize[nm[c]]
         /\ EntrySize[nm[c]] \in 0 .. LogSize
<1> DEFINE k == EntrySize[nm[c]]
           own == {c} \X (1 .. k)
<1>1. k \in 0 .. LogSize /\ k \in Nat
  BY VolumeAssumption, ConstantTypes
<1>2. Bytes(E \cup {c}, nm) = Bytes(E, nm) \cup own
  BY DEF Bytes
<1>3. Bytes(E, nm) \cap own = {}
  BY DEF Bytes
<1> HIDE DEF k
<1>4. IsFiniteSet(own) /\ Cardinality(own) = k
  <2>1. IsFiniteSet(1 .. k) /\ Cardinality(1 .. k) = k
    BY <1>1, FS_Interval
  <2>2. IsFiniteSet({c}) /\ Cardinality({c}) = 1
    BY FS_Singleton
  <2>3. IsFiniteSet(own) /\ Cardinality(own) = Cardinality({c}) * Cardinality(1 .. k)
    BY <2>1, <2>2, FS_Product
  <2>4. 1 * k = k
    BY <1>1
  <2> QED BY <2>1, <2>2, <2>3, <2>4
<1> HIDE DEF own
<1>5. IsFiniteSet(Bytes(E, nm)) /\ Cardinality(Bytes(E, nm)) \in Nat
  BY BytesFinite
<1>6. Cardinality(Bytes(E, nm) \cup own)
        = Cardinality(Bytes(E, nm)) + Cardinality(own)
          - Cardinality(Bytes(E, nm) \cap own)
  BY <1>4, <1>5, FS_Union
<1>7. Cardinality(Bytes(E, nm) \cup own) = Cardinality(Bytes(E, nm)) + k
  <2>1. Cardinality(Bytes(E, nm) \cap own) = 0
    BY <1>3, FS_EmptySet
  <2>2. Cardinality(Bytes(E, nm) \cup own) = Cardinality(Bytes(E, nm)) + k - 0
    BY <1>4, <1>6, <2>1
  <2> QED BY <1>1, <1>5, <2>2
<1> QED BY <1>1, <1>2, <1>5, <1>7 DEF k

LEMMA BytesRemove ==
  ASSUME NEW E \in SUBSET Sector, NEW nm, NEW c \in E,
         \A e \in E : nm[e] \in Names \cup {NoName}
  PROVE  /\ Cardinality(Bytes(E \ {c}, nm))
               = Cardinality(Bytes(E, nm)) - EntrySize[nm[c]]
         /\ Cardinality(Bytes(E \ {c}, nm)) \in Nat
         /\ EntrySize[nm[c]] \in 0 .. LogSize
<1> DEFINE F == E \ {c}
<1>1. F \in SUBSET Sector /\ c \in Sector \ F /\ F \cup {c} = E
      /\ \A e \in F \cup {c} : nm[e] \in Names \cup {NoName}
  OBVIOUS
<1> HIDE DEF F
<1>2. /\ Cardinality(Bytes(F \cup {c}, nm)) = Cardinality(Bytes(F, nm)) + EntrySize[nm[c]]
      /\ EntrySize[nm[c]] \in 0 .. LogSize
  BY <1>1, BytesAdd
<1>3. Cardinality(Bytes(F, nm)) \in Nat
  BY <1>1, BytesFinite
<1>4. EntrySize[nm[c]] \in Int
  BY VolumeAssumption, ConstantTypes
<1>5. Cardinality(Bytes(F, nm)) = Cardinality(Bytes(E, nm)) - EntrySize[nm[c]]
  <2>1. Cardinality(Bytes(E, nm)) = Cardinality(Bytes(F, nm)) + EntrySize[nm[c]]
    BY <1>1, <1>2
  <2> QED BY <1>3, <1>4, <2>1
<1> QED BY <1>2, <1>3, <1>5 DEF F

LEMMA NoBytes == \A nm : Cardinality(Bytes({}, nm)) = 0
<1>1. \A nm : Bytes({}, nm) = {}
  BY DEF Bytes
<1> QED BY <1>1, FS_EmptySet

-----------------------------------------------------------------------------
(* Sizes under the steps of the calls.                                     *)

LEMMA SizeTypes ==
  ASSUME Ready
  PROVE  /\ ListType /\ TreeType /\ inodes \subseteq Sector
         /\ target \in Sector /\ cur \in Sector /\ dir \in Sector
         /\ newSize \in Int /\ left \in Int /\ ret \in RetLabels
         /\ \A f \in Sector : Len(data[f]) \in Nat /\ size[f] \in Int
         /\ \A f \in Sector : EntrySize[name[f]] \in 0 .. LogSize
         /\ \A f \in Sector : EntrySize[name[f]] \in Nat
         /\ \A f \in Sector : Cardinality(EntryBytes(f)) \in Nat
<1>1. /\ ListType /\ TreeType /\ inodes \subseteq Sector
      /\ target \in Sector /\ cur \in Sector /\ dir \in Sector
      /\ newSize \in Int /\ left \in Int /\ ret \in RetLabels
  BY InodesAreSectors DEF Ready, TypeOK, CallType
<1>2. \A f \in Sector : Len(data[f]) \in Nat /\ size[f] \in Int
  BY <1>1, CountType DEF TreeType
<1>3. \A f \in Sector : EntrySize[name[f]] \in 0 .. LogSize
  BY <1>1, VolumeAssumption DEF TreeType
<1>4. \A f \in Sector : EntrySize[name[f]] \in Nat
  BY <1>3, ConstantTypes
<1>5. \A f \in Sector : Cardinality(EntryBytes(f)) \in Nat
  <2> SUFFICES ASSUME NEW f \in Sector
               PROVE  Cardinality(EntryBytes(f)) \in Nat
    OBVIOUS
  <2>1. entries[f] \in SUBSET Sector
        /\ \A e \in entries[f] : name[e] \in Names \cup {NoName}
    BY <1>1 DEF TreeType
  <2> QED BY <2>1, BytesFinite, EntryBytesAre
<1> QED BY <1>1, <1>2, <1>3, <1>4, <1>5

LEMMA SameTreeSizes ==
  ASSUME entries' = entries, name' = name, parent' = parent
  PROVE  /\ \A d : EntryBytes(d)' = EntryBytes(d)
         /\ \A d : IsDir(d)' <=> IsDir(d)
BY DEF EntryBytes, IsDir

LEMMA ComingType ==
  ASSUME Ready
  PROVE  Coming \in Int /\ Coming = Len(data[target]) + left
                                     + (IF pc = "trim" THEN 1 ELSE 0)
BY SizeTypes DEF Coming

(* ccos_write_file, while it adds and removes sectors.                     *)
LEMMA WritingSizes ==
  ASSUME Ready, Ready', Sizes, Quiet, Writing, Writing', size' = size,
         UNCHANGED <<target, newSize, ret>>, stale => stale',
         \A g \in inodes \ {target} : data'[g] = data[g],
         left' <= left \/ left' <= 0, left' > 0 => left > 0,
         ret \in {"link", "unlinked"} \/ ~stale' => Coming' = Coming,
         ret = "resize" =>
           tail'[target] = <<>> \/ Coming' < SectorsFor(newSize),
         left' > 0 /\ ret \notin {"link", "unlinked"} =>
           Len(data'[target]) >= Len(data[target])
  PROVE  Sizes'
<1>0. left \in Int /\ left' \in Int /\ target \in inodes /\ inodes \subseteq Sector
      /\ \A f \in inodes : /\ Len(data[f]) \in Nat /\ Len(data'[f]) \in Nat
                           /\ SectorsFor(size[f]) \in Int
  <2>1. inodes \subseteq Sector /\ left \in Int
        /\ \A f \in Sector : Len(data[f]) \in Nat /\ size[f] \in Int
    BY SizeTypes
  <2>2. ListType' /\ left' \in Int
    BY DEF Ready, TypeOK, CallType
  <2>3. \A f \in Sector : Len(data'[f]) \in Nat
    BY <2>2, LenProperties DEF ListType
  <2> QED BY <2>1, <2>2, <2>3, SectorsForType DEF Ready, Registers
<1>1. /\ \A d : EntryBytes(d)' = EntryBytes(d)
      /\ \A d : IsDir(d)' <=> IsDir(d)
  BY SameTreeSizes DEF Quiet
<1>2. Progress'
  <2>1. ret \in {"link", "unlinked"} \/ ~stale' => Coming' = SectorsFor(newSize)
    BY DEF Sizes, Progress
  <2>2. /\ ret = "resize" => left' <= 0
        /\ ret = "linked" => left' <= 1
    BY <1>0 DEF Sizes, Progress
  <2>3. SectorsFor(newSize)' = SectorsFor(newSize)
    BY DEF SectorsFor
  <2> QED BY <1>1, <2>1, <2>2, <2>3 DEF Sizes, Progress, Quiet
<1>3. FilesFit'
  <2> SUFFICES ASSUME NEW f \in inodes, ~Changing(f)' PROVE Fits(f)'
    BY DEF FilesFit, Quiet
  <2>1. CASE f = target
    <3>1. left' > 0 /\ ret \notin {"link", "unlinked"}
      BY <1>0, <2>1 DEF Changing
    <3>2. ~Changing(f)
      BY <1>0, <2>1, <3>1 DEF Changing, Erasing, Writing
    <3> QED BY <1>0, <2>1, <3>1, <3>2 DEF Sizes, FilesFit, Fits
  <2>2. CASE f # target
    <3>1. ~Changing(f)
      BY <2>2 DEF Changing, Erasing, Writing
    <3> QED BY <2>2, <3>1 DEF Sizes, FilesFit, Fits
  <2> QED BY <2>1, <2>2
<1>4. DirSizes'
  BY <1>1 DEF Sizes, DirSizes, DirSizeExact, Quiet, Writing, Cut
<1>5. WriteDone'
  BY DEF WriteDone, Writing
<1> QED BY <1>2, <1>3, <1>4, <1>5 DEF Sizes

(* A step outside of ccos_write_file, or the one that leaves it early.     *)
LEMMA OtherSizes ==
  ASSUME Ready, Sizes, UNCHANGED treeVars, inodes' = inodes,
         pc \notin {"linked", "unlinked"}, ~Cut,
         pc' \notin {"linked", "unlinked", "resize"}, ~Writing',
         \A f \in inodes : Changing(f) => Changing(f)',
         \A f \in inodes : data'[f] = data[f] \/ Changing(f)',
         WriteDone'
  PROVE  Sizes'
<1>1. /\ \A d : EntryBytes(d)' = EntryBytes(d)
      /\ \A d : IsDir(d)' <=> IsDir(d)
      /\ size' = size
  BY SameTreeSizes DEF treeVars
<1>2. Progress'
  BY DEF Progress
<1>3. FilesFit'
  BY <1>1 DEF Sizes, FilesFit, Fits
<1>4. DirSizes'
  BY <1>1 DEF Sizes, DirSizes, DirSizeExact, treeVars
<1> QED BY <1>2, <1>3, <1>4 DEF Sizes

(* Each call of ccos_write_file counts what the file has, and its stray    *)
(* slots.                                                                  *)
LEMMA SlotsCounted ==
  ASSUME ListType, NEW f \in Sector
  PROVE  /\ Len(data[f]) \in Nat /\ Len(FileSectorList(f)) \in Nat
         /\ Len(FileSectorList(f)) >= Len(data[f])
         /\ tail[f] = <<>> => /\ FileSectorList(f) = data[f]
                              /\ Len(FileSectorList(f)) = Len(data[f])
         /\ tail[f] # <<>> => Len(FileSectorList(f)) > Len(data[f])
<1>1. data[f] \in Seq(Sector) /\ tail[f] \in Seq(Sector)
  BY DEF ListType
<1>2. Len(data[f]) \in Nat /\ Len(tail[f]) \in Nat
      /\ (tail[f] = <<>> <=> Len(tail[f]) = 0)
  BY <1>1, LenProperties, EmptySeq
<1>3. Len(FileSectorList(f)) = Len(data[f]) + Len(tail[f])
  BY <1>1, ConcatProperties DEF FileSectorList
<1>4. tail[f] = <<>> => FileSectorList(f) = data[f]
  BY <1>1, ConcatProperties DEF FileSectorList
<1> DEFINE n == Len(FileSectorList(f))
           m == Len(data[f])
           k == Len(tail[f])
<1>5. m \in Nat /\ k \in Nat /\ n = m + k /\ (tail[f] = <<>> <=> k = 0)
  BY <1>2, <1>3
<1> HIDE DEF n, m, k
<1>6. /\ n \in Nat /\ n >= m
      /\ tail[f] = <<>> => n = m
      /\ tail[f] # <<>> => n > m
  BY <1>5
<1> QED BY <1>2, <1>4, <1>6 DEF n, m, k

LEMMA CallSizes ==
  ASSUME Ready, NoStrays, Sizes, UNCHANGED treeVars, UNCHANGED listVars,
         pc \notin {"linked", "unlinked"}, ~Writing, ~Erasing,
         NEW f \in inodes, NEW bytes \in Nat,
         NEW r \in RetLabels \ {"link"},
         CallWrite(f, Len(FileSectorList(f)), bytes, r),
         pc = "resize" => r = "unlinked",
         r = "unlinked" => pc = "resize" /\ f = dir /\ dir' = dir,
         r = "linked" => bytes <= size[f] + LogSize,
         r = "resize" => bytes = size[f],
         r = "return" => entries[f] = {} /\ ~IsDir(f),
         (r = "linked" =>
            bytes = 1 + Cardinality(EntryBytes(dir)) + EntrySize[name[cur]])',
         (r = "resize" => bytes = 1 + Cardinality(EntryBytes(dir)))',
         (r = "unlinked" =>
            bytes = 1 + Cardinality(EntryBytes(dir)) - EntrySize[name[cur]])'
  PROVE  Sizes'
<1>0. f \in Sector /\ size[f] \in Int /\ Len(data[f]) \in Nat /\ ListType
  BY SizeTypes
<1>1. /\ \A d : EntryBytes(d)' = EntryBytes(d)
      /\ \A d : IsDir(d)' <=> IsDir(d)
      /\ size' = size /\ inodes' = inodes /\ data' = data /\ tail' = tail
      /\ stale' = stale /\ entries' = entries
  BY SameTreeSizes DEF treeVars, listVars
<1> DEFINE n == Len(FileSectorList(f))
<1>2. /\ target' = f /\ newSize' = bytes /\ ret' = r /\ pc' = "write"
      /\ left' = SectorsFor(bytes) - n
  BY DEF CallWrite
<1>3. \A g \in inodes : Fits(g)
  BY DEF Changing, Sizes, FilesFit
<1>4. /\ n \in Nat /\ n >= Len(data[f])
      /\ tail[f] = <<>> => n = Len(data[f])
      /\ tail[f] # <<>> => n > Len(data[f])
  BY <1>0, SlotsCounted
<1> HIDE DEF n
<1>5. SectorsFor(bytes) \in Int /\ SectorsFor(size[f]) \in Int
      /\ SectorsFor(size[f]) <= n
  <2>1. bytes \in Int
    OBVIOUS
  <2>2. SectorsFor(size[f]) \in Int /\ SectorsFor(size[f]) <= Len(data[f])
    BY <1>0, <1>3, SectorsForType DEF Fits
  <2>3. SectorsFor(bytes) \in Int
    BY <2>1, SectorsForType
  <2> QED BY <1>0, <1>4, <2>2, <2>3
<1>6. Coming' = Len(data[f]) + left' + 0
  BY <1>1, <1>2 DEF Coming
<1>7. r = "resize" => left' <= 0 /\ (tail[f] = <<>> \/ Coming' < SectorsFor(bytes))
  <2> SUFFICES ASSUME r = "resize"
               PROVE  left' <= 0 /\ (tail[f] = <<>> \/ Coming' < SectorsFor(bytes))
    OBVIOUS
  <2>1. left' = SectorsFor(bytes) - n /\ left' <= 0
    BY <1>2, <1>4, <1>5
  <2> QED BY <1>0, <1>4, <1>5, <1>6, <2>1
<1>8. r = "linked" => left' <= 1
  <2> SUFFICES ASSUME r = "linked" PROVE left' <= 1
    OBVIOUS
  <2>1. SectorsFor(size[f] + LogSize) <= SectorsFor(size[f]) + 1
    BY <1>0, SectorsStep, ConstantTypes
  <2>2. size[f] + LogSize \in Int
    BY <1>0, ConstantTypes
  <2>3. SectorsFor(bytes) <= SectorsFor(size[f] + LogSize)
    BY <2>2, SectorsGrow
  <2>4. SectorsFor(size[f] + LogSize) \in Int
    BY <2>2, SectorsForType
  <2> QED BY <1>2, <1>4, <1>5, <2>1, <2>3, <2>4
<1>9. r = "unlinked" \/ ~stale => Coming' = SectorsFor(bytes)
  <2> SUFFICES ASSUME r = "unlinked" \/ ~stale PROVE Coming' = SectorsFor(bytes)
    OBVIOUS
  <2>1. tail[f] = <<>>
    BY <1>0 DEF NoStrays, Sizes, DirSizes
  <2> QED BY <1>0, <1>2, <1>4, <1>5, <1>6, <2>1
<1>10. Progress'
  <2>1. SectorsFor(newSize)' = SectorsFor(bytes)
    BY <1>2 DEF SectorsFor
  <2>2. newSize' >= 0 /\ r # "link"
    BY <1>2
  <2> QED BY <1>1, <1>2, <1>7, <1>8, <1>9, <2>1, <2>2 DEF Progress
<1>11. FilesFit'
  BY <1>1, <1>3 DEF FilesFit, Fits
<1>12. DirSizes'
  <2>1. Cut' <=> r = "unlinked"
    BY <1>2 DEF Cut, Writing
  <2>2. Cut => r = "unlinked" /\ dir' = dir
    BY DEF Cut
  <2> QED BY <1>1, <1>2, <2>1, <2>2
          DEF Sizes, DirSizes, DirSizeExact, treeVars, Writing
<1>13. WriteDone'
  BY <1>2 DEF WriteDone
<1> QED BY <1>10, <1>11, <1>12, <1>13 DEF Sizes

LEMMA GrowSizes ==
  ASSUME Ready, Ready', Sizes, GrowInPlace \/ GrowGrab \/ Extend
  PROVE  Sizes'
<1>0. /\ ListType /\ target \in Sector /\ left \in Int
      /\ Len(data[target]) \in Nat /\ inodes \subseteq Sector /\ Quiet
      /\ data[target] \in Seq(Sector)
  BY SizeTypes, QuietSteps DEF ListType, Ready, QuietStep
<1>1. /\ pc \in {"write", "extend"} /\ pc' \in {"write", "extend"} /\ left > 0
      /\ size' = size /\ UNCHANGED <<target, newSize, ret>>
      /\ Writing /\ Writing'
  BY DEF GrowInPlace, GrowGrab, Extend, treeVars, writeVars, Writing, Ready,
     Control
<1>2. ret # "resize"
  BY <1>0, <1>1 DEF Sizes, Progress
<1>3. CASE GrowInPlace
  <2>1. PICK s \in Sector : AppendSector(target, s)
    BY <1>3 DEF GrowInPlace
  <2>2. /\ data'[target] = Append(data[target], s) /\ left' = left - 1
        /\ \A g \in inodes \ {target} : data'[g] = data[g]
        /\ stale => stale'
    BY <1>0, <1>3, <2>1 DEF GrowInPlace, AppendSector, ListType
  <2>3. Len(data'[target]) = Len(data[target]) + 1
    BY <1>0, <2>2, AppendLength
  <2>4. Coming' = Coming
    BY <1>0, <1>1, <2>2, <2>3 DEF Coming
  <2> QED BY <1>0, <1>1, <1>2, <2>2, <2>3, <2>4, WritingSizes
<1>4. CASE GrowGrab
  <2>1. data' = data /\ left' = left /\ (stale => stale')
    BY <1>4 DEF GrowGrab, GrabSector, writeVars
  <2>2. Coming' = Coming
    BY <1>1, <2>1 DEF Coming
  <2> QED BY <1>0, <1>1, <1>2, <2>1, <2>2, WritingSizes
<1>5. CASE Extend
  <2>1. PICK s \in grabbed, c \in Sector : AddContentInode(target, s, c)
    BY <1>5 DEF Extend
  <2>2. /\ data'[target] = Append(data[target], s) /\ left' = left - 1
        /\ \A g \in inodes \ {target} : data'[g] = data[g]
        /\ stale => stale'
        /\ s \in Sector
    BY <1>0, <1>5, <2>1 DEF Extend, AddContentInode, ListType
  <2>3. Len(data'[target]) = Len(data[target]) + 1
    BY <1>0, <2>2, AppendLength
  <2>4. Coming' = Coming
    <3> DEFINE n == Len(data[target])
    <3>1. Len(data'[target']) = n + 1 /\ n \in Nat
      BY <1>0, <1>1, <2>3
    <3>2. Coming = n + left + 0 /\ Coming' = n + 1 + left' + 0
      BY <1>5, <3>1 DEF Coming, Extend
    <3> HIDE DEF n
    <3> QED BY <1>0, <2>2, <3>1, <3>2
  <2> QED BY <1>0, <1>1, <1>2, <2>2, <2>3, <2>4, WritingSizes
<1> QED BY <1>3, <1>4, <1>5

LEMMA ShrinkSizes ==
  ASSUME Ready, Ready', Sizes, Shrink \/ ShrinkNothing \/ Trim
  PROVE  Sizes'
<1>0. /\ ListType /\ target \in Sector /\ left \in Int /\ newSize \in Int
      /\ Len(data[target]) \in Nat /\ inodes \subseteq Sector /\ Quiet
      /\ data[target] \in Seq(Sector)
      /\ Cardinality(EntryBytes(dir)) \in Nat
  BY SizeTypes, QuietSteps DEF ListType, Ready, QuietStep
<1>1. /\ pc \in {"write", "trim"} /\ pc' \in {"write", "trim"} /\ left < 0
      /\ size' = size /\ UNCHANGED <<target, newSize, ret>>
      /\ Writing /\ Writing' /\ (stale' <=> stale)
      /\ left' = left \/ left' = left + 1
  BY DEF Shrink, ShrinkNothing, Trim, RemoveLastSector, RemoveContentInode,
     listVars, treeVars, Writing, Ready, Control
<1>2. left' <= 0 /\ ~(left' > 0)
  BY <1>0, <1>1
<1>3. CASE Shrink
  <2>1. /\ data[target] # <<>> /\ RemoveLastSector(target) /\ pc = "write"
        /\ \/ pc' = "trim" /\ left' = left
           \/ pc' = "write" /\ left' = left + 1
    BY <1>3 DEF Shrink
  <2>2. /\ \A g \in inodes \ {target} : data'[g] = data[g]
        /\ data'[target] = AllButLast(data[target]) /\ tail' = tail
    BY <1>0, <2>1 DEF RemoveLastSector, ListType
  <2>3. Len(data'[target]) = Len(data[target]) - 1
    BY <1>0, <2>1, <2>2, AllButLastLength
  <2>4. Coming' = Coming
    BY <1>0, <1>1, <2>1, <2>3 DEF Coming
  <2>5. ret = "resize" =>
          tail'[target] = <<>> \/ Coming' < SectorsFor(newSize)
    BY <1>1, <2>2, <2>4 DEF Sizes, Progress
  <2> QED BY <1>0, <1>1, <1>2, <2>2, <2>4, <2>5, WritingSizes
<1>4. CASE ShrinkNothing
  <2>1. /\ pc = "write" /\ pc' = "write" /\ left' = left + 1
        /\ data[target] = <<>> /\ data' = data
    BY <1>4 DEF ShrinkNothing, listVars
  <2>2. Len(data[target]) = 0
    BY <2>1
  <2>3. ~(ret \in {"link", "unlinked"} \/ ~stale)
    <3> SUFFICES ASSUME ret \in {"link", "unlinked"} \/ ~stale PROVE FALSE
      OBVIOUS
    <3>1. SectorsFor(newSize) = Coming /\ newSize >= 0
      BY <1>1 DEF Sizes, Progress
    <3>2. SectorsFor(newSize) >= 0
      BY <1>0, <3>1, SectorsNatural
    <3>3. Coming = left
      BY <1>0, <2>1, <2>2 DEF Coming
    <3> QED BY <1>0, <1>1, <3>1, <3>2, <3>3
  <2>4. ret = "resize" => Coming' < SectorsFor(newSize)
    <3> SUFFICES ASSUME ret = "resize" PROVE Coming' < SectorsFor(newSize)
      OBVIOUS
    <3>1. newSize >= 1
      BY <1>0, <1>1 DEF Sizes, DirSizes
    <3>2. SectorsFor(newSize) > 0
      BY <1>0, <3>1, SomeSector
    <3>3. Coming' = left'
      BY <1>0, <1>1, <2>1, <2>2 DEF Coming
    <3> QED BY <1>0, <1>1, <1>2, <3>2, <3>3, SectorsForType
  <2> QED BY <1>0, <1>1, <1>2, <2>1, <2>3, <2>4, WritingSizes
<1>5. CASE Trim
  <2>1. /\ pc = "trim" /\ pc' = "write" /\ left' = left + 1
        /\ RemoveContentInode(target) /\ data' = data
    BY <1>5 DEF Trim, RemoveContentInode
  <2>2. tail'[target] = <<>>
    BY <1>0, <2>1 DEF RemoveContentInode, ListType
  <2>3. Coming' = Coming
    <3> DEFINE n == Len(data[target])
    <3>1. Len(data'[target']) = n /\ n \in Nat
      BY <1>0, <1>1, <2>1
    <3>2. Coming = n + left + 1 /\ Coming' = n + left' + 0
      BY <2>1, <3>1 DEF Coming
    <3> HIDE DEF n
    <3> QED BY <1>0, <2>1, <3>1, <3>2
  <2> QED BY <1>0, <1>1, <1>2, <2>1, <2>2, <2>3, WritingSizes
<1> QED BY <1>3, <1>4, <1>5

-----------------------------------------------------------------------------
(* Room for the second of the two writes by which a directory loses an     *)
(* entry.                                                                  *)

(* The content inodes of n sectors: the least number that has slots for    *)
(* those the inode has none for.                                           *)
LEMMA NodesHold ==
  ASSUME NEW n \in Int
  PROVE  /\ NodesFor(n) \in Nat /\ ContMax * NodesFor(n) \in Int
         /\ n <= InodeMax + ContMax * NodesFor(n)
         /\ n > InodeMax => ContMax * NodesFor(n) < n - InodeMax + ContMax
         /\ n <= InodeMax => NodesFor(n) = 0
<1>0. ContMax \in Int /\ ContMax > 0 /\ InodeMax \in Int
  BY FileSectorsAssumption
<1>1. CASE n <= InodeMax
  <2>1. NodesFor(n) = 0 /\ ContMax * 0 = 0
    BY <1>0, <1>1 DEF NodesFor
  <2> QED BY <1>0, <1>1, <2>1
<1>2. CASE n > InodeMax
  <2> DEFINE x == n - InodeMax + ContMax - 1
             q == x \div ContMax
  <2>1. x \in Int /\ x >= ContMax
    BY <1>0, <1>2
  <2>2. NodesFor(n) = q
    BY <1>0, <1>2 DEF NodesFor
  <2> HIDE DEF x
  <2>3. q \in Int /\ ContMax * q <= x /\ x < ContMax * q + ContMax
    BY <1>0, <2>1, DivisionBounds
  <2> HIDE DEF q
  <2>4. ContMax * q \in Int
    BY <1>0, <2>3
  <2>5. q >= 0
    <3> SUFFICES ASSUME q < 0 PROVE FALSE
      BY <2>3
    <3>1. ContMax * q + ContMax <= ContMax * 0 /\ ContMax * 0 = 0
      BY <1>0, <2>3, MultiplesOf
    <3> QED BY <1>0, <2>1, <2>3, <2>4, <3>1
  <2>6. n <= InodeMax + ContMax * q /\ ContMax * q < n - InodeMax + ContMax
    BY <1>0, <2>3, <2>4 DEF x
  <2> QED BY <1>0, <1>2, <2>2, <2>3, <2>4, <2>5, <2>6
<1> QED BY <1>0, <1>1, <1>2

LEMMA NodesLeast ==
  ASSUME NEW n \in Int, NEW k \in Nat, n <= InodeMax + ContMax * k
  PROVE  NodesFor(n) <= k
<1>0. ContMax \in Int /\ ContMax > 0 /\ InodeMax \in Int /\ ContMax * k \in Int
  BY FileSectorsAssumption
<1> DEFINE q == NodesFor(n)
<1>1. /\ q \in Nat /\ ContMax * q \in Int
      /\ n > InodeMax => ContMax * q < n - InodeMax + ContMax
      /\ n <= InodeMax => q = 0
  BY NodesHold
<1> HIDE DEF q
<1> SUFFICES ASSUME k < q PROVE FALSE
  BY <1>1 DEF q
<1>2. n > InodeMax
  BY <1>0, <1>1
<1>3. ContMax * k + ContMax <= ContMax * q
  BY <1>0, <1>1, MultiplesOf
<1> QED BY <1>0, <1>1, <1>2, <1>3

LEMMA NodesNeeded ==
  ASSUME NEW n \in Int, NEW k \in Nat, n > InodeMax + ContMax * k
  PROVE  NodesFor(n) > k
<1>0. ContMax \in Int /\ ContMax > 0 /\ InodeMax \in Int /\ ContMax * k \in Int
  BY FileSectorsAssumption
<1> DEFINE q == NodesFor(n)
<1>1. q \in Nat /\ ContMax * q \in Int /\ n <= InodeMax + ContMax * q
  BY NodesHold
<1> HIDE DEF q
<1> SUFFICES ASSUME q <= k PROVE FALSE
  BY <1>1 DEF q
<1>2. ContMax * q <= ContMax * k
  <2>1. CASE q = k
    BY <1>0, <2>1
  <2>2. CASE q < k
    <3>1. ContMax * q + ContMax <= ContMax * k
      BY <1>0, <1>1, <2>2, MultiplesOf
    <3> QED BY <1>0, <1>1, <3>1
  <2> QED BY <1>1, <2>1, <2>2
<1> QED BY <1>0, <1>1, <1>2

(* A file with the content inodes that its list needs.                     *)
LEMMA ChainNodes ==
  ASSUME ListType, NEW f \in Sector, ChainFits(f), NEW n \in Int
  PROVE  /\ n <= Len(data[f]) => NodesFor(n) <= Len(chain[f])
         /\ n >= Len(data[f]) => NodesFor(n) >= Len(chain[f])
         /\ n > Len(data[f]) /\ LastListFull(f) =>
              NodesFor(n) > Len(chain[f])
<1> DEFINE L == Len(data[f])
           k == Len(chain[f])
           q == NodesFor(n)
<1>0. /\ ContMax \in Int /\ ContMax > 1 /\ InodeMax \in Int
      /\ L \in Nat /\ k \in Nat /\ q \in Nat
      /\ (chain[f] = <<>> <=> k = 0)
  <2>1. ContMax \in Int /\ ContMax > 1 /\ InodeMax \in Int
    BY FileSectorsAssumption
  <2>2. chain[f] \in Seq(Sector) /\ L \in Nat /\ k \in Nat
    BY CountType DEF ListType
  <2>3. chain[f] = <<>> <=> k = 0
    BY <2>2, EmptySeq
  <2>4. q \in Nat
    BY NodesHold
  <2> QED BY <2>1, <2>2, <2>3, <2>4
<1>1. CASE chain[f] = <<>>
  <2>1. k = 0 /\ L <= InodeMax /\ (LastListFull(f) => L = InodeMax)
    BY <1>0, <1>1 DEF ChainFits, LastListFull, LastCount
  <2> HIDE DEF L, k, q
  <2>2. n <= L => q = 0
    BY <1>0, <2>1, NodesHold DEF q
  <2>3. n > InodeMax => q > 0
    <3> SUFFICES ASSUME n > InodeMax PROVE q > 0
      OBVIOUS
    <3>1. ContMax * 0 = 0 /\ n > InodeMax + ContMax * 0
      BY <1>0
    <3> QED BY <3>1, NodesNeeded DEF q
  <2>4. /\ n <= L => q <= k
        /\ n >= L => q >= k
        /\ n > L /\ LastListFull(f) => q > k
    BY <1>0, <2>1, <2>2, <2>3
  <2> QED BY <2>4 DEF L, k, q
<1>2. CASE chain[f] # <<>>
  <2>1. k >= 1 /\ k - 1 \in Nat /\ ContMax * (k - 1) \in Int
    BY <1>0, <1>2
  <2>2. ContMax * k = ContMax * (k - 1) + ContMax /\ ContMax * k \in Int
    BY <1>0
  <2>3. /\ L - InodeMax - ContMax * (k - 1) \in 1 .. ContMax
        /\ LastListFull(f) => L - InodeMax - ContMax * (k - 1) = ContMax
    BY <1>2 DEF ChainFits, LastListFull, LastCount
  <2> HIDE DEF L, k, q
  <2>4. n <= L => q <= k
    <3> SUFFICES ASSUME n <= L PROVE q <= k
      OBVIOUS
    <3>1. n <= InodeMax + ContMax * k
      BY <1>0, <2>1, <2>2, <2>3
    <3> QED BY <1>0, <3>1, NodesLeast DEF q
  <2>5. n >= L => q >= k
    <3> SUFFICES ASSUME n >= L PROVE q >= k
      OBVIOUS
    <3>1. n > InodeMax + ContMax * (k - 1)
      BY <1>0, <2>1, <2>3
    <3>2. q > k - 1
      BY <2>1, <3>1, NodesNeeded DEF q
    <3> QED BY <1>0, <3>2
  <2>6. n > L /\ LastListFull(f) => q > k
    <3> SUFFICES ASSUME n > L, LastListFull(f) PROVE q > k
      OBVIOUS
    <3>1. n > InodeMax + ContMax * k
      BY <1>0, <2>1, <2>2, <2>3
    <3> QED BY <1>0, <3>1, NodesNeeded DEF q
  <2> QED BY <2>4, <2>5, <2>6 DEF L, k, q
<1> QED BY <1>1, <1>2

(* The counter tells how many sectors are left.                            *)
LEMMA CountedSectors ==
  ASSUME Ready
  PROVE  /\ allocated \in Nat /\ NumSectors \in Nat
         /\ allocated <= NumSectors
         /\ Available = {} => allocated = NumSectors
<1>1. used \subseteq Sector /\ allocated = Cardinality(used)
  BY DEF Ready, TypeOK, BitmapType, Partition, Accounted
<1>2. IsFiniteSet(Sector) /\ Cardinality(Sector) = NumSectors /\ NumSectors \in Nat
  <2>1. NumSectors \in Nat \ {0}
    BY SectorMapAssumption
  <2>2. 0 \in Int /\ NumSectors - 1 \in Int /\ ~(0 > NumSectors - 1)
    BY <2>1
  <2>3. (NumSectors - 1) - 0 + 1 = NumSectors
    BY <2>1
  <2> QED BY <2>1, <2>2, <2>3, FS_Interval DEF Sector
<1>3. allocated \in Nat /\ allocated <= NumSectors
  BY <1>1, <1>2, FS_Subset, FS_CardinalityType
<1>4. Available = {} => used = Sector
  BY <1>1, <1>2, <1>3 DEF Available, Free
<1> QED BY <1>1, <1>2, <1>3, <1>4

LEMMA MarkAdds ==
  ASSUME Ready, NEW s \in Sector, LowestFree(s), MarkUsed(s)
  PROVE  allocated' = allocated + 1
<1>1. /\ BitmapType /\ allocated = Cardinality(used) /\ s \in Sector \ used
  BY DEF Ready, TypeOK, Partition, Accounted, LowestFree, Available, Free
<1>2. allocated' = Cardinality(used \cup {s})
  BY <1>1, MarkCounts
<1>3. IsFiniteSet(used)
  BY <1>1, SmallCount DEF BitmapType
<1> QED BY <1>1, <1>2, <1>3, FS_AddElement

LEMMA EraseSubtracts ==
  ASSUME Ready, NEW f \in inodes, NEW s \in Owned(f), EraseSector(s)
  PROVE  allocated' = allocated - 1
<1>1. BitmapType /\ allocated = Cardinality(used)
  BY DEF Ready, TypeOK, Partition, Accounted
<1>2. ListType /\ inodes \subseteq Sector
  BY SizeTypes
<1>3. s \in Sector
  <2>1. data[f] \in Seq(Sector) /\ chain[f] \in Seq(Sector) /\ f \in Sector
    BY <1>2 DEF ListType
  <2>2. SeqElems(data[f]) \subseteq Sector /\ SeqElems(chain[f]) \subseteq Sector
    BY <2>1, ElementOfSeq DEF SeqElems
  <2> QED BY <2>1, <2>2 DEF Owned
<1>4. s \in used
  BY <1>3 DEF Ready, Partition, Accounted, Claimed
<1>5. allocated' = Cardinality(used \ {s})
  BY <1>1, <1>4, EraseCounts
<1>6. IsFiniteSet(used)
  BY <1>1, SmallCount DEF BitmapType
<1> QED BY <1>1, <1>4, <1>5, <1>6, FS_RemoveElement

(* So the second write does not run out of space.                          *)
LEMMA SecondWriteHasRoom ==
  ASSUME Ready, Chains, Progress, RoomToRewrite, GrowNoSpace \/ ExtendNoSpace
  PROVE  ret # "unlinked"
<1> SUFFICES ASSUME ret = "unlinked" PROVE FALSE
  OBVIOUS
<1>1. /\ pc \in {"write", "extend"} /\ Available = {} /\ Writing
      /\ left > 0 /\ left \in Int /\ newSize \in Int
  BY SizeTypes DEF GrowNoSpace, ExtendNoSpace, Writing, Ready, Control
<1>2. target = dir /\ dir \in inodes /\ dir \in Sector /\ ListType
  BY <1>1, SizeTypes DEF Ready, Control, Registers
<1> DEFINE L == Len(data[dir])
           k == Len(chain[dir])
           S == SectorsFor(newSize)
           q == NodesFor(S)
<1>3. /\ L \in Nat /\ k \in Nat /\ S \in Int
  BY <1>1, <1>2, CountType, SectorsForType
<1>4. S = L + left + 0
  BY <1>1, <1>2 DEF Progress, Coming
<1>5. S > L
  BY <1>1, <1>3, <1>4
<1>6. q \in Nat
  BY <1>3, NodesHold
<1>7. ChainFits(dir)
  BY <1>1, <1>2 DEF Chains, Erasing
<1>8. q >= k /\ (pc = "extend" => q > k)
  BY <1>2, <1>3, <1>5, <1>7, ChainNodes DEF Chains
<1>9. S + q <= NumSectors - allocated + L + k + (IF pc = "extend" THEN 1 ELSE 0)
  BY <1>1 DEF RoomToRewrite, Rewriting, Cut
<1>10. NumSectors - allocated = 0
  BY <1>1, CountedSectors
<1> HIDE DEF L, k, S, q
<1>11. S + q <= 0 + L + k + (IF pc = "extend" THEN 1 ELSE 0)
  BY <1>9, <1>10
<1>12. CASE pc = "extend"
  BY <1>3, <1>5, <1>6, <1>8, <1>11, <1>12
<1>13. CASE pc # "extend"
  BY <1>3, <1>5, <1>6, <1>8, <1>11, <1>13
<1> QED BY <1>12, <1>13

(* An early return leaves the sizes alone: what was not stored still fits. *)
LEMMA LeaveSizes ==
  ASSUME Ready, Chains, Sizes, RoomToRewrite,
         GrowNoSpace \/ ExtendNoSpace \/ LinkExists \/ UnlinkMissing
  PROVE  Sizes'
<1> USE DEF Writing, Erasing, Linking, Unlinking
<1>0. left \in Int /\ (pc = "extend" => left > 0)
      /\ (Writing => (ret = "link" => op = "create" /\ target = cur))
  BY SizeTypes DEF Ready, Control
<1>1. CASE GrowNoSpace \/ ExtendNoSpace
  <2>1. /\ UNCHANGED treeVars /\ inodes' = inodes /\ stale' = stale
        /\ pc \in {"write", "extend"} /\ left > 0 /\ Fail
        /\ data' = data /\ tail' = tail /\ cur' = cur
    BY <1>0, <1>1 DEF GrowNoSpace, ExtendNoSpace, DropGrabbed, listVars, callVars
  <2>0. ret # "unlinked"
    BY <1>1, SecondWriteHasRoom DEF Sizes
  <2>2. \A f \in inodes : Changing(f) => Changing(f)'
    <3>1. \A f \in inodes : Changing(f) => op = "create" /\ f = cur
      BY <1>0, <2>0, <2>1 DEF Changing
    <3>2. op = "create" => Erasing'
      BY <2>1 DEF Fail
    <3> QED BY <2>1, <3>1, <3>2 DEF Changing
  <2>3. WriteDone'
    BY <2>1 DEF WriteDone, Fail
  <2>4. pc' \in {"collect", "return"}
    BY <2>1 DEF Fail
  <2>5. ~Cut
    BY <2>0, <2>1 DEF Cut
  <2> QED BY <2>1, <2>2, <2>3, <2>4, <2>5, OtherSizes
<1>2. CASE LinkExists \/ UnlinkMissing
  <2>1. /\ UNCHANGED treeVars /\ inodes' = inodes /\ stale' = stale
        /\ pc \in {"link", "unlink"} /\ pc' \in {"collect", "return"}
        /\ data' = data /\ tail' = tail /\ err' = TRUE
    BY <1>2 DEF LinkExists, UnlinkMissing, listVars, Fail
  <2>2. \A f \in inodes : Changing(f) => Changing(f)'
    BY <2>1 DEF Changing
  <2>3. WriteDone'
    BY <2>1 DEF WriteDone
  <2>4. ~Cut
    BY <2>1 DEF Cut
  <2> QED BY <2>1, <2>2, <2>3, <2>4, OtherSizes
<1> QED BY <1>1, <1>2

LEMMA EnoughBytes ==
  ASSUME NEW b \in Int, NEW n \in Int, SectorsFor(b) <= n
  PROVE  b <= n * LogSize /\ n * LogSize \in Int
<1> DEFINE q == SectorsFor(b)
<1>1. q \in Int /\ b <= LogSize * q /\ LogSize \in Int /\ LogSize > 0
  BY SectorsHold, ConstantTypes
<1> HIDE DEF q
<1>2. q <= n
  BY DEF q
<1>3. LogSize * q <= LogSize * n
  <2>1. CASE q = n
    BY <1>1, <2>1
  <2>2. CASE q < n
    <3>1. LogSize * q + LogSize <= LogSize * n /\ LogSize * q \in Int
      BY <1>1, <2>2, Multiples
    <3>2. LogSize * n \in Int
      BY <1>1
    <3> QED BY <1>1, <3>1, <3>2
  <2> QED BY <1>1, <1>2, <2>1, <2>2
<1>4. n * LogSize = LogSize * n /\ LogSize * n \in Int /\ LogSize * q \in Int
  BY <1>1
<1> QED BY <1>1, <1>3, <1>4

LEMMA StoreSizes ==
  ASSUME Ready, Ready', Tree, Sizes, Store
  PROVE  Sizes'
<1> USE DEF Writing, Erasing, Linking, Unlinking
<1>0. /\ ListType /\ TreeType /\ target \in inodes /\ inodes \subseteq Sector
      /\ newSize \in Int /\ left \in Int /\ ret \in RetLabels
      /\ Len(data[target]) \in Nat /\ data[target] \in Seq(Sector)
      /\ cur \in Sector /\ dir \in Sector
      /\ \A f \in Sector : /\ EntrySize[name[f]] \in Nat /\ size[f] \in Int
                           /\ Cardinality(EntryBytes(f)) \in Nat
  BY SizeTypes DEF ListType, Store, Ready, Registers
<1>1. /\ pc = "write" /\ left = 0 /\ pc' = ret /\ ~Writing' /\ ~Erasing
      /\ ~Erasing' /\ inodes' = inodes /\ stale' = stale /\ data' = data
      /\ tail' = tail /\ entries' = entries /\ name' = name /\ parent' = parent
      /\ op' = op /\ cur' = cur /\ dir' = dir
      /\ target' = target /\ newSize' = newSize /\ ret' = ret
      /\ err' = err
  BY <1>0 DEF Store, listVars, callVars, writeVars, RetLabels
<1>2. /\ \A g \in inodes : g # target => size'[g] = size[g]
      /\ size'[target] = Least(newSize, Len(FileSectorList(target)) * LogSize)
  BY <1>0 DEF Store, TreeType
<1>3. /\ \A d : EntryBytes(d)' = EntryBytes(d)
      /\ \A d : IsDir(d)' <=> IsDir(d)
  BY <1>1, SameTreeSizes
<1> DEFINE n == Len(data[target])
           m == Len(FileSectorList(target))
           need == SectorsFor(newSize)
           stored == size'[target]
<1>4. /\ n \in Nat /\ m \in Nat /\ m >= n /\ need \in Int
      /\ m * LogSize \in Int /\ n * LogSize \in Int /\ n * LogSize <= m * LogSize
      /\ tail[target] = <<>> => m = n
  <2>1. n \in Nat /\ m \in Nat /\ m >= n /\ (tail[target] = <<>> => m = n)
    BY <1>0, SlotsCounted
  <2>2. need \in Int
    BY <1>0, SectorsForType
  <2> HIDE DEF n, m, need
  <2>3. SectorsFor(n * LogSize) <= n /\ n * LogSize \in Int /\ m * LogSize \in Int
    <3>1. n * LogSize \in Int /\ m * LogSize \in Int /\ n * LogSize = LogSize * n
      BY <2>1, ConstantTypes
    <3> QED BY <2>1, <3>1, SectorsLeast
  <2>4. SectorsFor(n * LogSize) <= m
    BY <2>1, <2>3, SectorsForType
  <2>5. n * LogSize <= m * LogSize
    BY <2>1, <2>3, <2>4, EnoughBytes
  <2> QED BY <2>1, <2>2, <2>3, <2>5
<1>5. /\ ~(n < need /\ (tail[target] # <<>> \/ ret = "linked"))
      /\ Coming = n + 0 + 0
  BY <1>1 DEF Store, Ready, Sound, Short, Coming
<1>6. n >= need => stored = newSize
  <2> SUFFICES ASSUME n >= need PROVE stored = newSize
    OBVIOUS
  <2>1. newSize <= n * LogSize
    BY <1>0, <1>4, EnoughBytes
  <2>2. newSize <= m * LogSize
    BY <1>0, <1>4, <2>1
  <2> QED BY <1>2, <2>2 DEF Least
<1>7. Fits(target)'
  <2>1. CASE n >= need
    BY <1>1, <1>6, <2>1 DEF Fits
  <2>2. CASE n < need
    <3>1. stored <= n * LogSize /\ stored \in Int
      BY <1>0, <1>2, <1>4, <1>5, <2>2 DEF Least
    <3>2. n * LogSize = LogSize * n
      BY <1>4, ConstantTypes
    <3>3. SectorsFor(stored) <= n
      BY <1>4, <3>1, <3>2, SectorsLeast
    <3> QED BY <1>1, <3>3 DEF Fits, SectorsFor
  <2> QED BY <1>4, <2>1, <2>2
<1>8. ret \in {"link", "unlinked"} \/ ~stale => n = need
  BY <1>1, <1>4, <1>5 DEF Sizes, Progress
<1>9. ret \in {"link", "linked", "unlinked"} \/ ~stale => stored = newSize
  BY <1>4, <1>5, <1>6, <1>8
<1> HIDE DEF n, m, need, stored
<1>10. /\ ret = "return" => ~IsDir(target) /\ entries[target] = {}
       /\ ret = "link" => newSize = size[target] /\ entries[target] = {}
       /\ ret = "resize" => tail[target] = <<>>
       /\ target = IF ret \in {"link", "return"} THEN cur ELSE dir
       /\ ret = "return" <=> op = "write"
  <2>1. ret = "resize" => tail[target] = <<>>
    BY <1>1, <1>4, <1>5 DEF Sizes, Progress, need
  <2> QED BY <1>1, <2>1 DEF Sizes, Progress, Ready, Control
<1>11. FilesFit'
  <2> SUFFICES ASSUME NEW f \in inodes, f # target PROVE Fits(f)'
    BY <1>1, <1>7 DEF FilesFit
  <2>1. ~Changing(f)
    BY <1>1 DEF Changing
  <2> QED BY <1>1, <1>2, <2>1 DEF Sizes, FilesFit, Fits, SectorsFor
<1>12. DirSizes'
  <2>1. /\ \A d \in inodes : IsDir(d) /\ d # target => size[d] >= 1
        /\ \A d \in inodes : DirSizeExact(d) \/ d = target
        /\ ret = "link" /\ IsDir(target) => size[target] >= 1
    <3>1. Cut => target = dir /\ ret = "unlinked"
      BY <1>1, <1>10 DEF Cut
    <3>2. pc \notin {"linked", "unlinked"}
      BY <1>1
    <3> QED BY <1>0, <1>10, <3>1, <3>2 DEF Sizes, DirSizes
  <2>2. /\ ret = "linked" =>
             newSize = 1 + Cardinality(EntryBytes(dir)) + EntrySize[name[cur]]
        /\ ret = "resize" => newSize = 1 + Cardinality(EntryBytes(dir))
        /\ ret = "unlinked" =>
             newSize = 1 + Cardinality(EntryBytes(dir)) - EntrySize[name[cur]]
    BY <1>1 DEF Sizes, DirSizes
  <2>3. ret = "unlinked" => newSize >= 1
    <3> SUFFICES ASSUME ret = "unlinked" PROVE newSize >= 1
      OBVIOUS
    <3>1. cur \in entries[dir]
      BY <1>1, OwnEntry
    <3>2. entries[dir] \in SUBSET Sector
          /\ \A e \in entries[dir] : name[e] \in Names \cup {NoName}
      BY <1>0 DEF TreeType
    <3>3. /\ Cardinality(Bytes(entries[dir] \ {cur}, name))
               = Cardinality(EntryBytes(dir)) - EntrySize[name[cur]]
          /\ Cardinality(Bytes(entries[dir] \ {cur}, name)) \in Nat
      BY <3>1, <3>2, BytesRemove, EntryBytesAre
    <3> QED BY <1>0, <2>2, <3>3
  <2>4. IsDir(target) /\ ret # "resize" => size'[target] >= 1
    <3> SUFFICES ASSUME IsDir(target), ret # "resize" PROVE size'[target] >= 1
      OBVIOUS
    <3>1. size'[target] = newSize /\ ret \in {"link", "linked", "unlinked"}
      BY <1>0, <1>9, <1>10 DEF RetLabels, stored
    <3>2. CASE ret = "linked"
      BY <1>0, <2>2, <3>1, <3>2
    <3>3. CASE ret = "unlinked"
      BY <2>3, <3>1, <3>3
    <3>4. CASE ret = "link"
      BY <1>0, <1>10, <2>1, <3>1, <3>4
    <3> QED BY <3>1, <3>2, <3>3, <3>4
  <2>5. Cut' <=> ret = "resize"
    BY <1>1 DEF Cut
  <2>6. \A d \in inodes : IsDir(d) => size'[d] >= 1 \/ (Cut' /\ d = dir)
    BY <1>2, <1>10, <2>1, <2>4, <2>5
  <2>7. \A d \in inodes :
          DirSizeExact(d)' \/ (ret \in {"linked", "unlinked", "resize"} /\ d = dir)
    <3> SUFFICES ASSUME NEW d \in inodes,
                        ~(ret \in {"linked", "unlinked", "resize"} /\ d = dir)
                 PROVE  DirSizeExact(d)'
      OBVIOUS
    <3>1. CASE d = target
      BY <1>0, <1>1, <1>10, <3>1 DEF RetLabels, DirSizeExact
    <3>2. CASE d # target
      BY <1>1, <1>2, <1>3, <2>1, <3>2 DEF DirSizeExact
    <3> QED BY <3>1, <3>2
  <2>8. ret \in {"linked", "unlinked"} => size'[dir] = newSize
    BY <1>9, <1>10 DEF stored
  <2>9. ret = "resize" => tail'[dir] = <<>>
    BY <1>1, <1>10
  <2> QED BY <1>1, <1>3, <2>2, <2>5, <2>6, <2>7, <2>8, <2>9 DEF DirSizes
<1>13. WriteDone'
  <2>1. SectorsFor(newSize)' = need /\ Len(data[target])' = n
    BY <1>1 DEF SectorsFor, need, n
  <2> QED BY <1>1, <1>8, <1>9, <1>10, <2>1 DEF WriteDone, stored, SectorsFor, need, n
<1>14. Progress'
  BY <1>1 DEF Progress
<1> QED BY <1>11, <1>12, <1>13, <1>14 DEF Sizes

(* What a directory's entries take, by the size that is stored.            *)
LEMMA RealSize ==
  ASSUME Ready, Tree, Sizes, pc \notin {"linked", "unlinked"}, ~Cut,
         NEW d \in inodes, IsDir(d)
  PROVE  /\ RealDirSize(d) = 1 + Cardinality(EntryBytes(d))
         /\ RealDirSize(d) <= size[d] /\ RealDirSize(d) \in Nat
         /\ size[d] >= 1
<1>1. /\ size[d] \in Int /\ size[d] >= 1 /\ DirSizeExact(d)
      /\ Cardinality(EntryBytes(d)) \in Nat
  BY SizeTypes DEF Sizes, DirSizes
<1>2. CASE entries[d] = {}
  <2>1. Cardinality(EntryBytes(d)) = 0
    BY <1>2, EntryBytesAre, NoBytes
  <2> QED BY <1>1, <1>2, <2>1 DEF RealDirSize
<1>3. CASE entries[d] # {}
  BY <1>1, <1>3 DEF RealDirSize, DirSizeExact
<1> QED BY <1>2, <1>3

(* The entry of cur is part of them.                                       *)
LEMMA OwnBytes ==
  ASSUME Ready, Tree, Sizes, Unlinking, pc # "unlink"
  PROVE  /\ 1 + Cardinality(EntryBytes(dir)) - EntrySize[name[cur]] \in Nat
         /\ Cardinality(Bytes(entries[dir] \ {cur}, name))
              = Cardinality(EntryBytes(dir)) - EntrySize[name[cur]]
<1>1. cur \in entries[dir] /\ dir \in inodes
  BY OwnEntry
<1>2. entries[dir] \in SUBSET Sector
      /\ \A e \in entries[dir] : name[e] \in Names \cup {NoName}
  BY <1>1, SizeTypes DEF TreeType
<1>3. /\ Cardinality(Bytes(entries[dir] \ {cur}, name))
           = Cardinality(EntryBytes(dir)) - EntrySize[name[cur]]
      /\ Cardinality(Bytes(entries[dir] \ {cur}, name)) \in Nat
  BY <1>1, <1>2, BytesRemove, EntryBytesAre
<1>4. Cardinality(EntryBytes(dir)) \in Nat /\ EntrySize[name[cur]] \in Nat
  BY SizeTypes
<1> QED BY <1>3, <1>4

LEMMA LinkSizes ==
  ASSUME Ready, NoStrays, Tree, Sizes, Link
  PROVE  Sizes'
<1>1. /\ pc = "link" /\ UNCHANGED treeVars /\ UNCHANGED listVars
      /\ cur' = cur /\ dir' = dir
      /\ CallWrite(dir, Len(FileSectorList(dir)),
                   RealDirSize(dir) + EntrySize[name[cur]], "linked")
  BY DEF Link, callVars
<1>2. dir \in inodes /\ IsDir(dir)
  BY <1>1 DEF Ready, Registers, Linking, Tree, Directories
<1>3. /\ RealDirSize(dir) = 1 + Cardinality(EntryBytes(dir))
      /\ RealDirSize(dir) <= size[dir] /\ RealDirSize(dir) \in Nat
  BY <1>1, <1>2, RealSize DEF Cut, Writing
<1>4. /\ EntrySize[name[cur]] \in 0 .. LogSize /\ EntrySize[name[cur]] \in Nat
      /\ LogSize \in Int /\ size[dir] \in Int
      /\ Cardinality(EntryBytes(dir)) \in Nat
  BY SizeTypes, ConstantTypes
<1> DEFINE bytes == RealDirSize(dir) + EntrySize[name[cur]]
<1>5. /\ bytes \in Nat /\ bytes <= size[dir] + LogSize
      /\ bytes = 1 + Cardinality(EntryBytes(dir)) + EntrySize[name[cur]]
  <2>1. EntrySize[name[cur]] <= LogSize
    BY <1>4
  <2> QED BY <1>3, <1>4, <2>1
<1>6. /\ EntryBytes(dir)' = EntryBytes(dir) /\ name' = name
  BY <1>1, SameTreeSizes DEF treeVars
<1>7. /\ CallWrite(dir, Len(FileSectorList(dir)), bytes, "linked")
      /\ "linked" \in RetLabels \ {"link"}
      /\ ~Writing /\ ~Erasing
  BY <1>1 DEF RetLabels, Writing, Erasing
<1> HIDE DEF bytes
<1>8. bytes = (1 + Cardinality(EntryBytes(dir)) + EntrySize[name[cur]])'
  BY <1>1, <1>5, <1>6
<1> QED BY <1>1, <1>2, <1>5, <1>7, <1>8, CallSizes

LEMMA UnlinkSizes ==
  ASSUME Ready, NoStrays, Tree, Sizes, Unlink
  PROVE  Sizes'
<1>1. /\ pc = "unlink" /\ UNCHANGED treeVars /\ UNCHANGED listVars
      /\ CallWrite(dir, Len(FileSectorList(dir)), size[dir], "resize")
      /\ Matching(dir, cur) # {} /\ dir' = dir
  BY DEF Unlink, callVars
<1>2. dir \in inodes /\ IsDir(dir) /\ entries[dir] # {}
  BY <1>1 DEF Ready, Registers, Unlinking, Tree, Directories, Matching
<1>3. "resize" \in RetLabels \ {"link"} /\ ~Writing /\ ~Erasing
  BY <1>1 DEF RetLabels, Writing, Erasing
<1>4. size[dir] = 1 + Cardinality(EntryBytes(dir))
  BY <1>1, <1>2, <1>3 DEF Sizes, DirSizes, DirSizeExact, Cut
<1>5. size[dir] \in Nat
  BY <1>2, <1>4, SizeTypes
<1>6. EntryBytes(dir)' = EntryBytes(dir)
  BY <1>1, SameTreeSizes DEF treeVars
<1>7. size[dir] = (1 + Cardinality(EntryBytes(dir)))'
  BY <1>4, <1>6
<1> QED BY <1>1, <1>2, <1>3, <1>5, <1>7, CallSizes

(* The second write counts no stray slots, and makes the directory whole.  *)
LEMMA ResizeSizes ==
  ASSUME Ready, NoStrays, Tree, Sizes, Resize
  PROVE  Sizes'
<1>1. /\ pc = "resize" /\ UNCHANGED treeVars /\ UNCHANGED listVars
      /\ cur' = cur /\ dir' = dir
      /\ CallWrite(dir, Len(FileSectorList(dir)),
                   newSize - EntrySize[name[cur]], "unlinked")
  BY DEF Resize, callVars
<1>2. dir \in inodes /\ cur \in entries[dir] /\ IsDir(dir) /\ Unlinking
  BY <1>1, OwnEntry DEF Unlinking, Tree, Directories
<1>3. newSize = 1 + Cardinality(EntryBytes(dir))
  BY <1>1 DEF Sizes, DirSizes
<1> DEFINE bytes == newSize - EntrySize[name[cur]]
<1>4. /\ bytes \in Nat
      /\ bytes = 1 + Cardinality(EntryBytes(dir)) - EntrySize[name[cur]]
  <2>1. Unlinking /\ pc # "unlink"
    BY <1>1, <1>2
  <2>2. 1 + Cardinality(EntryBytes(dir)) - EntrySize[name[cur]] \in Nat
    BY <2>1, OwnBytes, Zenon
  <2>3. /\ Cardinality(EntryBytes(dir)) \in Nat
        /\ EntrySize[name[cur]] \in Nat
    BY SizeTypes
  <2> QED BY <1>3, <2>2, <2>3
<1>5. /\ EntryBytes(dir)' = EntryBytes(dir) /\ name' = name
  BY <1>1, SameTreeSizes DEF treeVars
<1>6. /\ CallWrite(dir, Len(FileSectorList(dir)), bytes, "unlinked")
      /\ "unlinked" \in RetLabels \ {"link"}
      /\ ~Writing /\ ~Erasing
  BY <1>1 DEF RetLabels, Writing, Erasing
<1> HIDE DEF bytes
<1>7. bytes = (1 + Cardinality(EntryBytes(dir)) - EntrySize[name[cur]])'
  BY <1>1, <1>4, <1>5
<1> QED BY <1>1, <1>2, <1>4, <1>6, <1>7, CallSizes

LEMMA AddEntrySizes ==
  ASSUME Ready, Tree, Sizes, AddEntry
  PROVE  Sizes'
<1> USE DEF Linking, Writing, Erasing, Cut
<1>1. /\ pc = "linked" /\ pc' = "return" /\ inodes' = inodes /\ name' = name
      /\ size' = size /\ data' = data /\ tail' = tail /\ stale' = stale
      /\ op' = op /\ dir' = dir /\ newSize' = newSize
  BY DEF AddEntry, listVars, callVars, writeVars
<1>2. /\ cur \in inodes /\ dir \in inodes /\ parent[cur] = dir
      /\ cur \notin entries[dir] /\ op \in {"create", "rename"}
  BY <1>1 DEF Ready, Registers, Control, Tree, Rooted, Unlinked
<1>3. /\ parent' = parent /\ entries'[dir] = entries[dir] \cup {cur}
      /\ \A d \in inodes : d # dir => entries'[d] = entries[d]
  BY <1>2, SizeTypes DEF AddEntry, TreeType
<1>4. \A d : IsDir(d)' <=> IsDir(d)
  BY <1>1, <1>3 DEF IsDir
<1>5. DirSizeExact(dir)'
  <2>1. size[dir] = 1 + Cardinality(EntryBytes(dir)) + EntrySize[name[cur]]
    BY <1>1 DEF Sizes, DirSizes
  <2>2. /\ entries[dir] \in SUBSET Sector /\ cur \in Sector \ entries[dir]
        /\ \A e \in entries[dir] \cup {cur} : name[e] \in Names \cup {NoName}
    BY <1>2, SizeTypes DEF TreeType
  <2>3. Cardinality(Bytes(entries[dir] \cup {cur}, name))
          = Cardinality(EntryBytes(dir)) + EntrySize[name[cur]]
    BY <2>2, BytesAdd, EntryBytesAre
  <2>4. EntryBytes(dir)' = Bytes(entries[dir] \cup {cur}, name)
    BY <1>1, <1>3, EntryBytesWillBe
  <2>5. Cardinality(EntryBytes(dir)) \in Int /\ EntrySize[name[cur]] \in Int
    BY SizeTypes
  <2>6. size[dir] = 1 + Cardinality(Bytes(entries[dir] \cup {cur}, name))
    BY <2>1, <2>3, <2>5
  <2> QED BY <1>1, <2>4, <2>6 DEF DirSizeExact
<1>6. \A d \in inodes : d # dir => DirSizeExact(d)'
  <2>1. \A d \in inodes : d # dir => DirSizeExact(d)
    BY <1>1 DEF Sizes, DirSizes
  <2>2. \A d \in inodes : d # dir => EntryBytes(d)' = EntryBytes(d)
    BY <1>1, <1>3, EntryBytesAre, EntryBytesWillBe
  <2> QED BY <1>1, <1>3, <2>1, <2>2 DEF DirSizeExact
<1>7. DirSizes'
  BY <1>1, <1>4, <1>5, <1>6 DEF Sizes, DirSizes
<1>8. FilesFit'
  <2>1. \A f \in inodes : ~Changing(f)
    BY <1>1 DEF Changing
  <2> QED BY <1>1, <1>4, <2>1 DEF Sizes, FilesFit, Fits
<1>9. Progress' /\ WriteDone'
  BY <1>1, <1>2 DEF Progress, WriteDone
<1> QED BY <1>7, <1>8, <1>9 DEF Sizes

LEMMA DropEntrySizes ==
  ASSUME Ready, Tree, Sizes, DropEntry
  PROVE  Sizes'
<1> USE DEF Linking, Unlinking, Writing, Erasing, Cut
<1>1. /\ pc = "unlinked" /\ pc' \in {"link", "collect"} /\ inodes' = inodes
      /\ parent' = parent /\ data' = data /\ tail' = tail /\ stale' = stale
      /\ dir' = dir /\ newSize' = newSize
      /\ IF op = "rename" THEN name' = [name EXCEPT ![cur] = newName]
                          ELSE name' = name
  BY DEF DropEntry, listVars, callVars, writeVars
<1>2. /\ cur \in inodes /\ dir \in inodes /\ parent[cur] = dir
      /\ cur \in entries[dir] /\ Matching(dir, cur) = {cur}
  BY <1>1, OwnEntry
<1>3. /\ entries'[dir] = entries[dir] \ {cur} /\ size'[dir] = newSize
      /\ \A d \in inodes : d # dir => entries'[d] = entries[d] /\ size'[d] = size[d]
  BY <1>2, SizeTypes DEF DropEntry, TreeType
<1>4. \A f \in inodes : f # cur => name'[f] = name[f]
  BY <1>1, SizeTypes DEF TreeType
<1>5. \A d \in inodes : IsDir(d)' <=> IsDir(d)
  <2>1. op = "rename" => (newName \in DirNames <=> name[cur] \in DirNames)
    BY <1>1 DEF Tree, Directories
  <2>2. op = "rename" => name'[cur] = newName
    BY <1>1, <1>2, SizeTypes DEF TreeType
  <2>3. op # "rename" => name' = name
    BY <1>1
  <2> QED BY <1>1, <1>4, <2>1, <2>2, <2>3 DEF IsDir
<1>6. newSize = size[dir]
      /\ newSize = 1 + Cardinality(EntryBytes(dir)) - EntrySize[name[cur]]
  BY <1>1 DEF Sizes, DirSizes
<1>7. DirSizeExact(dir)'
  <2>1. EntryBytes(dir)' = Bytes(entries[dir] \ {cur}, name')
    BY <1>1, <1>3, EntryBytesWillBe
  <2>2. \A e \in entries[dir] \ {cur} : name'[e] = name[e]
    BY <1>2, <1>4 DEF Ready, EntriesSound
  <2>3. EntryBytes(dir)' = Bytes(entries[dir] \ {cur}, name)
    BY <2>1, <2>2, BytesSame
  <2>4. Cardinality(Bytes(entries[dir] \ {cur}, name))
          = Cardinality(EntryBytes(dir)) - EntrySize[name[cur]]
    BY <1>1, OwnBytes
  <2>5. Cardinality(EntryBytes(dir)) \in Int /\ EntrySize[name[cur]] \in Int
    BY SizeTypes
  <2>6. newSize = 1 + Cardinality(Bytes(entries[dir] \ {cur}, name))
    BY <1>6, <2>4, <2>5
  <2> QED BY <1>1, <1>3, <2>3, <2>6 DEF DirSizeExact
<1>8. \A d \in inodes : d # dir => DirSizeExact(d)'
  <2>1. \A d \in inodes : d # dir => DirSizeExact(d)
    BY <1>1 DEF Sizes, DirSizes
  <2>2. \A d \in inodes : d # dir => EntryBytes(d)' = EntryBytes(d)
    <3> SUFFICES ASSUME NEW d \in inodes, d # dir
                 PROVE  EntryBytes(d)' = EntryBytes(d)
      OBVIOUS
    <3>1. \A e \in entries[d] : name'[e] = name[e]
      BY <1>2, <1>4 DEF Ready, EntriesSound
    <3>2. EntryBytes(d)' = Bytes(entries[d], name')
      BY <1>3, EntryBytesWillBe
    <3> QED BY <3>1, <3>2, EntryBytesAre, BytesSame
  <2> QED BY <1>1, <1>3, <2>1, <2>2 DEF DirSizeExact
<1>9. \A d \in inodes : size'[d] = size[d]
  BY <1>3, <1>6
<1>10. DirSizes'
  BY <1>1, <1>5, <1>7, <1>8, <1>9 DEF Sizes, DirSizes
<1>11. FilesFit'
  <2>1. \A f \in inodes : ~Changing(f)
    BY <1>1 DEF Changing
  <2> QED BY <1>1, <1>5, <1>9, <2>1 DEF Sizes, FilesFit, Fits
<1>12. Progress' /\ WriteDone'
  BY <1>1 DEF Progress, WriteDone
<1> QED BY <1>10, <1>11, <1>12 DEF Sizes

LEMMA EraseSizes ==
  ASSUME Ready, Tree, Sizes,
         Collect \/ EraseDataSector \/ EraseContentInode \/ EraseFile
  PROVE  Sizes'
<1> USE DEF Linking, Unlinking, Writing, Erasing, Cut
<1>0. ListType /\ inodes \subseteq Sector
  BY SizeTypes
<1>1. CASE Collect \/ EraseDataSector \/ EraseContentInode
  <2>1. /\ UNCHANGED treeVars /\ inodes' = inodes /\ stale' = stale
        /\ pc \in {"collect", "erase"} /\ pc' = "erase" /\ cur' = cur
    BY <1>1 DEF Collect, DetachData, EraseDataSector, EraseContentInode,
       RemoveContentInode, listVars, callVars
  <2>2. \A f \in inodes \ {cur} : data'[f] = data[f] /\ tail'[f] = tail[f]
    BY <1>0, <1>1 DEF Collect, DetachData, EraseDataSector, EraseContentInode,
       RemoveContentInode, listVars, ListType
  <2>3. \A f \in inodes : Changing(f) <=> f = cur
    BY <2>1 DEF Changing
  <2>4. \A f \in inodes : Changing(f)' <=> f = cur
    BY <2>1 DEF Changing
  <2>5. WriteDone'
    BY <2>1 DEF WriteDone
  <2>6. /\ pc \notin {"linked", "unlinked"} /\ ~Cut
        /\ pc' \notin {"linked", "unlinked", "resize"} /\ ~Writing'
    BY <2>1
  <2> QED BY <2>1, <2>2, <2>3, <2>4, <2>5, <2>6, OtherSizes
<1>2. CASE EraseFile
  <2>1. /\ pc = "erase" /\ pc' = "return" /\ inodes' = inodes \ {cur}
        /\ op' = op /\ Unlinked(cur) /\ data' = data /\ tail' = tail
        /\ stale' = stale
        /\ \A g \in inodes : g # cur =>
             /\ entries'[g] = entries[g] /\ name'[g] = name[g]
             /\ parent'[g] = parent[g] /\ size'[g] = size[g]
    BY <1>2, EraseFileEffect
  <2>2. \A g \in inodes' : IsDir(g)' <=> IsDir(g)
    BY <2>1 DEF IsDir
  <2>3. \A d \in inodes' : EntryBytes(d)' = EntryBytes(d)
    <3> SUFFICES ASSUME NEW d \in inodes'
                 PROVE  EntryBytes(d)' = EntryBytes(d)
      OBVIOUS
    <3>1. \A e \in entries[d] : name'[e] = name[e]
      BY <2>1 DEF Ready, EntriesSound, Unlinked
    <3>2. EntryBytes(d)' = Bytes(entries[d], name')
      BY <2>1, EntryBytesWillBe
    <3> QED BY <3>1, <3>2, EntryBytesAre, BytesSame
  <2>4. DirSizes'
    BY <2>1, <2>2, <2>3 DEF Sizes, DirSizes, DirSizeExact
  <2>5. FilesFit'
    <3>1. \A f \in inodes : f # cur => ~Changing(f)
      BY <2>1 DEF Changing
    <3> QED BY <2>1, <2>2, <3>1 DEF Sizes, FilesFit, Fits
  <2>6. op # "write"
    BY <2>1 DEF Ready, Control
  <2>7. Progress' /\ WriteDone'
    BY <2>1, <2>6 DEF Progress, WriteDone
  <2> QED BY <2>4, <2>5, <2>7 DEF Sizes
<1> QED BY <1>1, <1>2

LEMMA LoopSizes ==
  ASSUME Ready, Sizes, DeleteChild \/ DeleteTop \/ ReturnToLoop \/ Return
  PROVE  Sizes'
<1>1. /\ UNCHANGED treeVars /\ inodes' = inodes /\ stale' = stale
      /\ data' = data /\ tail' = tail
      /\ pc \in {"delete", "return"} /\ pc' \in {"delete", "unlink", "idle"}
  BY DEF DeleteChild, DeleteTop, ReturnToLoop, Return, listVars
<1>2. \A f \in inodes : ~Changing(f)
  BY <1>1 DEF Changing, Writing, Erasing
<1>3. WriteDone' /\ ~Writing' /\ ~Cut
  BY <1>1 DEF WriteDone, Writing, Cut
<1> QED BY <1>1, <1>2, <1>3, OtherSizes

LEMMA NewFileSizes ==
  ASSUME Ready, Tree, Sizes, pc = "idle", doomed' = doomed,
         NEW s \in Sector, NEW d \in inodes, NEW n \in Names \cup {NoName},
         NEW bytes \in Nat,
         NewInode(s, d, n, bytes), n \in DirNames => bytes >= 1,
         Changing(s)', WriteDone', Progress',
         pc' \notin {"linked", "unlinked", "resize"},
         ~(Writing' /\ ret' \in {"linked", "unlinked", "resize"})
  PROVE  Sizes'
<1>1. /\ s \notin inodes /\ inodes' = inodes \cup {s}
      /\ entries'[s] = {} /\ name'[s] = n /\ parent'[s] = d /\ size'[s] = bytes
      /\ stale' = stale
      /\ \A g \in inodes :
           /\ entries'[g] = entries[g] /\ name'[g] = name[g]
           /\ parent'[g] = parent[g] /\ size'[g] = size[g]
           /\ data'[g] = data[g] /\ tail'[g] = tail[g]
  BY NewInodeEffect, SizeTypes DEF Ready
<1>2. \A g \in inodes : IsDir(g)' <=> IsDir(g)
  BY <1>1 DEF IsDir
<1>3. IsDir(s)' => n \in DirNames
  BY <1>1 DEF IsDir
<1>4. \A g \in inodes : EntryBytes(g)' = EntryBytes(g)
  <2> SUFFICES ASSUME NEW g \in inodes PROVE EntryBytes(g)' = EntryBytes(g)
    OBVIOUS
  <2>1. \A e \in entries[g] : name'[e] = name[e]
    BY <1>1 DEF Ready, EntriesSound
  <2>2. EntryBytes(g)' = Bytes(entries[g], name')
    BY <1>1, EntryBytesWillBe
  <2> QED BY <2>1, <2>2, EntryBytesAre, BytesSame
<1>5. DirSizes'
  <2>0. ~Cut /\ pc \notin {"linked", "unlinked"}
    BY DEF Cut, Writing
  <2>1. \A g \in inodes : DirSizeExact(g)
    BY <2>0 DEF Sizes, DirSizes
  <2>2. \A g \in inodes : DirSizeExact(g)'
    BY <1>1, <1>4, <2>1 DEF DirSizeExact
  <2>3. DirSizeExact(s)'
    BY <1>1 DEF DirSizeExact
  <2>4. \A g \in inodes' : IsDir(g)' => size'[g] >= 1
    BY <1>1, <1>2, <1>3, <2>0 DEF Sizes, DirSizes
  <2> QED BY <1>1, <2>2, <2>3, <2>4 DEF DirSizes
<1>6. FilesFit'
  <2>1. \A f \in inodes : ~Changing(f)
    BY DEF Changing, Writing, Erasing
  <2> QED BY <1>1, <1>2, <2>1 DEF Sizes, FilesFit, Fits
<1> QED BY <1>5, <1>6 DEF Sizes

LEMMA CreateSizes ==
  ASSUME Ready, Tree, Sizes, NEW d \in inodes,
         NEW n \in Names, NEW bytes \in Nat, n \in DirNames => bytes >= 1,
         BeginCreate(d, n, bytes)
  PROVE  Sizes'
<1>1. PICK s \in Sector : /\ BeginCall("create", s, d)
                          /\ NewInode(s, d, n, bytes)
                          /\ CallWrite(s, 0, bytes, "link")
  BY DEF BeginCreate
<1>2. /\ pc = "idle" /\ doomed' = doomed
      /\ pc' = "write" /\ target' = s /\ newSize' = bytes /\ ret' = "link"
      /\ left' = SectorsFor(bytes) - 0
  BY <1>1 DEF BeginCreate, BeginCall, CallWrite
<1>3. data'[s] = <<>> /\ size'[s] = bytes /\ entries'[s] = {}
  BY <1>1, <1>2, NewInodeEffect, SizeTypes DEF Ready
<1>4. Len(data'[s]) = 0 /\ SectorsFor(bytes) \in Int
  <2>1. bytes \in Int
    OBVIOUS
  <2> QED BY <1>3, <2>1, SectorsForType
<1>5. SectorsFor(bytes) = 0 + left' + 0
  BY <1>2, <1>4
<1>6. Coming' = SectorsFor(newSize)'
  BY <1>2, <1>4, <1>5 DEF Coming, SectorsFor
<1>7. Progress'
  BY <1>2, <1>3, <1>6 DEF Progress
<1>8. Changing(s)' /\ WriteDone'
  BY <1>2 DEF Changing, Writing, WriteDone
<1>9. ~(Writing' /\ ret' \in {"linked", "unlinked", "resize"})
      /\ pc' \notin {"linked", "unlinked", "resize"} /\ n \in Names \cup {NoName}
  BY <1>2
<1> QED BY <1>1, <1>2, <1>7, <1>8, <1>9, NewFileSizes

LEMMA BeginSizes ==
  ASSUME Ready, NoStrays, Tree, Sizes, Begin
  PROVE  Sizes'
<1>1. ASSUME NEW d \in Sector, IsOpenDir(d),
             NEW n \in Names \ DirNames, NEW bytes \in FileSizes,
             BeginCreate(d, n, bytes)
      PROVE  Sizes'
  <2>1. bytes \in Nat /\ d \in inodes
    BY <1>1, VolumeAssumption DEF IsOpenDir
  <2> QED BY <1>1, <2>1, CreateSizes
<1>2. ASSUME NEW d \in Sector, IsOpenDir(d), NEW n \in Names,
             BeginCreateDir(d, n)
      PROVE  Sizes'
  <2>1. LogSize \in Nat /\ LogSize >= 1 /\ d \in inodes
    BY <1>2, VolumeAssumption DEF IsOpenDir
  <2> QED BY <1>2, <2>1, CreateSizes DEF BeginCreateDir
<1>3. ASSUME NEW d \in Sector, IsOpenDir(d), CopySourceUnreadable(d)
      PROVE  Sizes'
  <2>1. PICK s \in Sector : /\ BeginCall("create", s, d)
                            /\ NewInode(s, d, NoName, 0)
    BY <1>3 DEF CopySourceUnreadable
  <2>2. /\ pc = "idle" /\ doomed' = doomed /\ d \in inodes
        /\ pc' = "collect" /\ cur' = s
    BY <1>3, <2>1 DEF CopySourceUnreadable, BeginCall, IsOpenDir
  <2>3. NoName \notin DirNames /\ NoName \in Names \cup {NoName} /\ 0 \in Nat
    BY VolumeAssumption
  <2>4. /\ Progress' /\ WriteDone' /\ Changing(s)' /\ ~Writing'
        /\ pc' \notin {"linked", "unlinked", "resize"}
    BY <2>2 DEF Progress, WriteDone, Changing, Writing, Erasing
  <2> QED BY <2>1, <2>2, <2>3, <2>4, NewFileSizes
<1>4. ASSUME NEW f \in Sector, NEW bytes \in FileSizes, BeginWrite(f, bytes)
      PROVE  Sizes'
  <2>1. /\ pc = "idle" /\ UNCHANGED treeVars /\ UNCHANGED listVars
        /\ CallWrite(f, Len(FileSectorList(f)), bytes, "return")
        /\ f \in inodes /\ ~IsDir(f)
    BY <1>4 DEF BeginWrite, BeginCall, Linked
  <2>2. bytes \in Nat /\ "return" \in RetLabels \ {"link"}
    BY VolumeAssumption DEF RetLabels
  <2>3. entries[f] = {}
    BY <2>1 DEF Tree, Directories
  <2>4. ~Writing /\ ~Erasing
    BY <2>1 DEF Writing, Erasing
  <2> QED BY <2>1, <2>2, <2>3, <2>4, CallSizes
<1>5. ASSUME \/ \E d \in Sector : CreateNoSpace(d)
             \/ \E f \in Sector, n \in Names : BeginRename(f, n)
             \/ \E f \in Sector : BeginDelete(f)
      PROVE  Sizes'
  <2>1. /\ pc = "idle" /\ UNCHANGED treeVars /\ inodes' = inodes
        /\ stale' = stale /\ data' = data /\ tail' = tail
        /\ pc' \in {"return", "unlink", "delete"}
        /\ op' # "write"
    BY <1>5 DEF CreateNoSpace, BeginRename, BeginDelete, BeginCall, listVars
  <2>2. \A g \in inodes : ~Changing(g)
    BY <2>1 DEF Changing, Writing, Erasing
  <2>3. WriteDone' /\ ~Writing' /\ ~Cut
    BY <2>1 DEF WriteDone, Writing, Cut
  <2> QED BY <2>1, <2>2, <2>3, OtherSizes
<1> QED BY <1>1, <1>2, <1>3, <1>4, <1>5 DEF Begin

LEMMA InitSizes == Init => Sizes
<1> SUFFICES ASSUME Init PROVE Sizes
  OBVIOUS
<1>1. /\ inodes = {Root} /\ Root \in Sector /\ pc = "idle"
      /\ data[Root] = <<Root + 1>> /\ tail[Root] = <<>>
      /\ entries[Root] = {} /\ size[Root] = LogSize
  BY ConstantTypes DEF Init
<1>2. SectorsFor(LogSize) <= 1
  <2>1. LogSize \in Int /\ 1 \in Int /\ LogSize <= LogSize * 1
    BY ConstantTypes
  <2> QED BY <2>1, SectorsLeast
<1>3. Len(data[Root]) = 1
  BY <1>1
<1>4. FilesFit
  BY <1>1, <1>2, <1>3 DEF FilesFit, Fits
<1>5. DirSizes
  <2>1. LogSize >= 1
    BY VolumeAssumption
  <2> QED BY <1>1, <2>1 DEF DirSizes, DirSizeExact, Writing, Cut
<1>6. Progress /\ WriteDone
  BY <1>1 DEF Progress, WriteDone, Writing
<1> QED BY <1>4, <1>5, <1>6 DEF Sizes

LEMMA NextSizes ==
  ASSUME Ready, Ready', Chains, NoStrays, Tree, Sizes, RoomToRewrite,
         [Next]_vars
  PROVE  Sizes'
<1>1. CASE Begin
  BY <1>1, BeginSizes
<1>2. CASE GrowInPlace \/ GrowGrab \/ Extend
  BY <1>2, GrowSizes
<1>3. CASE GrowNoSpace \/ ExtendNoSpace \/ LinkExists \/ UnlinkMissing
  BY <1>3, LeaveSizes
<1>4. CASE Shrink \/ ShrinkNothing \/ Trim
  BY <1>4, ShrinkSizes
<1>5. CASE Store
  BY <1>5, StoreSizes
<1>6. CASE Link \/ Unlink \/ Resize
  BY <1>6, LinkSizes, UnlinkSizes, ResizeSizes
<1>7. CASE AddEntry \/ DropEntry
  BY <1>7, AddEntrySizes, DropEntrySizes
<1>8. CASE DeleteChild \/ DeleteTop \/ ReturnToLoop \/ Return
  BY <1>8, LoopSizes
<1>9. CASE Collect \/ EraseDataSector \/ EraseContentInode \/ EraseFile
  BY <1>9, EraseSizes
<1>10. CASE UNCHANGED vars
  BY <1>10 DEF vars, Sizes, Progress, FilesFit, Fits, DirSizes, DirSizeExact,
     EntryBytes, WriteDone, Changing, Coming, Cut, IsDir, Writing, Erasing, listVars,
     treeVars, callVars, writeVars
<1> QED BY <1>1, <1>2, <1>3, <1>4, <1>5, <1>6, <1>7, <1>8, <1>9, <1>10
        DEF Next, Step

-----------------------------------------------------------------------------
(* Room for the second write of a directory that loses an entry, under the *)
(* steps of the calls.                                                     *)

Room ==
  NumSectors - allocated + Len(data[dir]) + Len(chain[dir])
    + (IF pc = "extend" THEN 1 ELSE 0)

LEMMA RoomTypes ==
  ASSUME Ready
  PROVE  /\ allocated \in Int /\ NumSectors \in Int /\ dir \in Sector
         /\ Len(data[dir]) \in Int /\ Len(chain[dir]) \in Int
         /\ Room \in Int
<1>1. /\ allocated \in Int /\ NumSectors \in Int /\ dir \in Sector /\ ListType
  BY SizeTypes, CountedSectors
<1>2. Len(data[dir]) \in Int /\ Len(chain[dir]) \in Int
  BY <1>1, CountType
<1>3. Room \in Int
  <2> DEFINE n == Len(data[dir])
             k == Len(chain[dir])
  <2>1. n \in Int /\ k \in Int
    BY <1>2
  <2> HIDE DEF n, k
  <2>2. NumSectors - allocated + n + k + (IF pc = "extend" THEN 1 ELSE 0) \in Int
    BY <1>1, <2>1
  <2> QED BY <2>2 DEF Room, n, k
<1> QED BY <1>1, <1>2, <1>3

LEMMA SameRoom ==
  ASSUME RoomToRewrite, Rewriting' => Rewriting, newSize' = newSize,
         Room' = Room
  PROVE  RoomToRewrite'
BY DEF RoomToRewrite, Room

(* What is being written is the directory.                                 *)
LEMMA RewritesDir ==
  ASSUME Ready, Rewriting, Writing
  PROVE  target = dir /\ dir \in inodes
BY DEF Ready, Control, Registers, Rewriting, Cut, Writing, Unlinking

LEMMA GrowRoom ==
  ASSUME Ready, RoomToRewrite, GrowInPlace \/ GrowGrab \/ Extend
  PROVE  RoomToRewrite'
<1> SUFFICES ASSUME Rewriting' PROVE RoomToRewrite'
  BY DEF RoomToRewrite
<1>1. /\ pc \in {"write", "extend"} /\ pc' \in {"write", "extend"}
      /\ ret' = ret /\ dir' = dir /\ newSize' = newSize
  BY DEF GrowInPlace, GrowGrab, Extend, writeVars, callVars
<1>2. Rewriting /\ Writing
  BY <1>1 DEF Rewriting, Cut, Writing
<1>3. target = dir
  BY <1>2, RewritesDir
<1> DEFINE n == Len(data[dir])
           k == Len(chain[dir])
<1>4. /\ allocated \in Int /\ NumSectors \in Int /\ dir \in Sector /\ ListType
      /\ n \in Int /\ k \in Int
      /\ data[dir] \in Seq(Sector) /\ chain[dir] \in Seq(Sector)
  BY RoomTypes, SizeTypes DEF ListType
<1>5. Room = NumSectors - allocated + n + k + (IF pc = "extend" THEN 1 ELSE 0)
  BY DEF Room
<1>6. CASE GrowInPlace
  <2>1. PICK s \in Sector : LowestFree(s) /\ AppendSector(dir, s)
    BY <1>3, <1>6 DEF GrowInPlace
  <2>2. allocated' = allocated + 1
    BY <2>1, MarkAdds DEF AppendSector
  <2>3. data'[dir] = Append(data[dir], s) /\ chain' = chain
        /\ pc = "write" /\ pc' = "write"
    BY <1>4, <1>6, <2>1 DEF GrowInPlace, AppendSector, ListType
  <2>4. Len(data'[dir']) = n + 1 /\ Len(chain'[dir']) = k
    BY <1>1, <1>4, <2>3, AppendLength
  <2>5. Room' = NumSectors - (allocated + 1) + (n + 1) + k + 0
    BY <2>2, <2>3, <2>4 DEF Room
  <2> HIDE DEF n, k
  <2>6. Room' = Room
    BY <1>4, <1>5, <2>3, <2>5
  <2> QED BY <1>1, <1>2, <2>6, SameRoom
<1>7. CASE GrowGrab
  <2>1. PICK s \in Sector : LowestFree(s) /\ GrabSector(s)
    BY <1>7 DEF GrowGrab
  <2>2. allocated' = allocated + 1
    BY <2>1, MarkAdds DEF GrabSector
  <2>3. data' = data /\ chain' = chain /\ pc = "write" /\ pc' = "extend"
    BY <1>7, <2>1 DEF GrowGrab, GrabSector
  <2>4. Room' = NumSectors - (allocated + 1) + n + k + 1
    BY <1>1, <2>2, <2>3 DEF Room
  <2> HIDE DEF n, k
  <2>5. Room' = Room
    BY <1>4, <1>5, <2>3, <2>4
  <2> QED BY <1>1, <1>2, <2>5, SameRoom
<1>8. CASE Extend
  <2>1. PICK s \in grabbed, c \in Sector :
          LowestFree(c) /\ AddContentInode(dir, s, c)
    BY <1>3, <1>8 DEF Extend
  <2>2. s \in Sector
    BY <1>4 DEF ListType
  <2>3. allocated' = allocated + 1
    BY <2>1, MarkAdds DEF AddContentInode
  <2>4. /\ data'[dir] = Append(data[dir], s)
        /\ chain'[dir] = Append(chain[dir], c)
        /\ pc = "extend" /\ pc' = "write"
    BY <1>4, <1>8, <2>1 DEF Extend, AddContentInode, ListType
  <2>5. Len(data'[dir']) = n + 1 /\ Len(chain'[dir']) = k + 1
    BY <1>1, <1>4, <2>2, <2>4, AppendLength
  <2>6. Room' = NumSectors - (allocated + 1) + (n + 1) + (k + 1) + 0
    BY <2>3, <2>4, <2>5 DEF Room
  <2> HIDE DEF n, k
  <2>7. Room' = Room
    BY <1>4, <1>5, <2>4, <2>6
  <2> QED BY <1>1, <1>2, <2>7, SameRoom
<1> QED BY <1>6, <1>7, <1>8

LEMMA ShrinkRoom ==
  ASSUME Ready, Chains, RoomToRewrite, Shrink \/ ShrinkNothing \/ Trim
  PROVE  RoomToRewrite'
<1> SUFFICES ASSUME Rewriting' PROVE RoomToRewrite'
  BY DEF RoomToRewrite
<1>1. /\ pc \in {"write", "trim"} /\ pc' \in {"write", "trim"}
      /\ ret' = ret /\ dir' = dir /\ newSize' = newSize
  BY DEF Shrink, ShrinkNothing, Trim, writeVars, callVars
<1>2. Rewriting /\ Writing
  BY <1>1 DEF Rewriting, Cut, Writing
<1>3. target = dir /\ dir \in inodes
  BY <1>2, RewritesDir
<1> DEFINE n == Len(data[dir])
           k == Len(chain[dir])
<1>4. /\ allocated \in Int /\ NumSectors \in Int /\ dir \in Sector /\ ListType
      /\ n \in Int /\ k \in Int
      /\ data[dir] \in Seq(Sector) /\ chain[dir] \in Seq(Sector)
  BY RoomTypes, SizeTypes DEF ListType
<1>5. /\ Room = NumSectors - allocated + n + k + 0
      /\ Room' = NumSectors - allocated' + Len(data'[dir]) + Len(chain'[dir]) + 0
  BY <1>1 DEF Room
<1>6. CASE Shrink
  <2>1. data[dir] # <<>> /\ RemoveLastSector(dir)
    BY <1>3, <1>6 DEF Shrink
  <2> DEFINE s == data[dir][Len(data[dir])]
  <2>2. EraseSector(s) /\ data'[dir] = AllButLast(data[dir]) /\ chain' = chain
    BY <1>4, <2>1 DEF RemoveLastSector, ListType
  <2>3. n \in Nat \ {0} /\ Len(data'[dir]) = n - 1 /\ Len(chain'[dir]) = k
    BY <1>4, <2>1, <2>2, AllButLastLength
  <2>4. s \in Owned(dir)
    BY <2>3 DEF Owned, SeqElems
  <2>5. allocated' = allocated - 1
    BY <1>3, <2>2, <2>4, EraseSubtracts
  <2> HIDE DEF n, k
  <2>6. Room' = Room
    BY <1>4, <1>5, <2>3, <2>5
  <2> QED BY <1>1, <1>2, <2>6, SameRoom
<1>7. CASE ShrinkNothing
  <2>1. Room' = Room
    BY <1>1, <1>5, <1>7 DEF ShrinkNothing, bitmapVars, listVars
  <2> QED BY <1>1, <1>2, <2>1, SameRoom
<1>8. CASE Trim
  <2>1. chain[dir] # <<>> /\ RemoveContentInode(dir)
    BY <1>3, <1>8 DEF Trim, Chains
  <2> DEFINE s == chain[dir][Len(chain[dir])]
  <2>2. EraseSector(s) /\ chain'[dir] = AllButLast(chain[dir]) /\ data' = data
    BY <1>4, <2>1 DEF RemoveContentInode, ListType
  <2>3. k \in Nat \ {0} /\ Len(chain'[dir]) = k - 1 /\ Len(data'[dir]) = n
    BY <1>4, <2>1, <2>2, AllButLastLength
  <2>4. s \in Owned(dir)
    BY <2>3 DEF Owned, SeqElems
  <2>5. allocated' = allocated - 1
    BY <1>3, <2>2, <2>4, EraseSubtracts
  <2> HIDE DEF n, k
  <2>6. Room' = Room
    BY <1>4, <1>5, <2>3, <2>5
  <2> QED BY <1>1, <1>2, <2>6, SameRoom
<1> QED BY <1>6, <1>7, <1>8

(* The first write asks for what the directory has.                        *)
LEMMA UnlinkRoom ==
  ASSUME Ready, Chains, Sizes, Unlink
  PROVE  RoomToRewrite'
<1>1. /\ pc = "unlink" /\ pc' = "write" /\ newSize' = size[dir]
      /\ allocated' = allocated /\ data' = data /\ chain' = chain /\ dir' = dir
  BY DEF Unlink, CallWrite, bitmapVars, listVars, callVars
<1>2. dir \in inodes /\ ~Changing(dir) /\ ChainFits(dir)
  BY <1>1 DEF Ready, Registers, Unlinking, Changing, Chains, Erasing, Writing
<1> DEFINE n == Len(data[dir])
           k == Len(chain[dir])
           S == SectorsFor(size[dir])
           q == NodesFor(S)
<1>3. /\ ListType /\ dir \in Sector /\ n \in Int /\ k \in Int
      /\ size[dir] \in Int /\ allocated \in Int /\ NumSectors \in Int
  BY RoomTypes, SizeTypes
<1>4. S <= n
  BY <1>2 DEF Sizes, FilesFit, Fits
<1>5. S \in Int
  BY <1>3, SectorsForType
<1>6. q \in Int /\ q <= k
  <2> HIDE DEF S
  <2>1. q \in Int
    BY <1>5, NodesHold
  <2>2. q <= k
    BY <1>2, <1>3, <1>4, <1>5, ChainNodes
  <2> QED BY <2>1, <2>2
<1>7. allocated <= NumSectors
  BY CountedSectors
<1> HIDE DEF n, k, S, q
<1>8. S + q <= NumSectors - allocated + n + k + 0
  BY <1>3, <1>4, <1>5, <1>6, <1>7
<1> QED BY <1>1, <1>8 DEF RoomToRewrite, n, k, S, q

(* The second asks for less.                                               *)
LEMMA FewerNodes ==
  ASSUME NEW m \in Int, NEW n \in Int, m <= n
  PROVE  NodesFor(m) <= NodesFor(n)
<1>1. /\ NodesFor(n) \in Nat /\ ContMax * NodesFor(n) \in Int
      /\ n <= InodeMax + ContMax * NodesFor(n)
  BY NodesHold
<1>2. m <= InodeMax + ContMax * NodesFor(n)
  BY <1>1, FileSectorsAssumption
<1> QED BY <1>1, <1>2, NodesLeast

LEMMA ResizeRoom ==
  ASSUME Ready, RoomToRewrite, Resize
  PROVE  RoomToRewrite'
<1>1. /\ pc = "resize" /\ pc' = "write"
      /\ newSize' = newSize - EntrySize[name[cur]]
      /\ allocated' = allocated /\ data' = data /\ chain' = chain /\ dir' = dir
  BY DEF Resize, CallWrite, bitmapVars, listVars, callVars
<1>2. newSize \in Int /\ newSize' \in Int /\ newSize' <= newSize
  <2>1. newSize \in Int /\ EntrySize[name[cur]] \in Nat
    BY SizeTypes
  <2> QED BY <1>1, <2>1
<1> DEFINE S == SectorsFor(newSize)
           T == SectorsFor(newSize')
           q == NodesFor(S)
           r == NodesFor(T)
<1>3. S \in Int /\ T \in Int
  BY <1>2, SectorsForType
<1>4. T <= S
  BY <1>2, SectorsGrow
<1>5. q \in Int /\ r \in Int /\ r <= q
  BY <1>3, <1>4, FewerNodes, NodesHold
<1>6. S + q <= Room
  BY <1>1 DEF RoomToRewrite, Room, Rewriting, Cut
<1>7. Room \in Int
  BY RoomTypes
<1>8. Room' = Room
  BY <1>1 DEF Room
<1> HIDE DEF S, T, q, r
<1>9. T + r <= Room'
  BY <1>3, <1>4, <1>5, <1>6, <1>7, <1>8
<1> QED BY <1>9 DEF RoomToRewrite, Room, T, r

LEMMA StoreRoom ==
  ASSUME Ready, RoomToRewrite, Store
  PROVE  RoomToRewrite'
<1>1. /\ pc = "write" /\ pc' = ret /\ newSize' = newSize /\ dir' = dir
      /\ allocated' = allocated /\ data' = data /\ chain' = chain
      /\ ret' = ret /\ ret \in RetLabels
  BY SizeTypes DEF Store, writeVars, callVars, bitmapVars, listVars
<1>2. Rewriting' => Rewriting
  BY <1>1 DEF Rewriting, Cut, Writing, RetLabels
<1>3. Room' = Room
  BY <1>1 DEF Room, RetLabels
<1> QED BY <1>1, <1>2, <1>3, SameRoom

LEMMA InitRoom == Init => RoomToRewrite
BY DEF Init, RoomToRewrite, Rewriting, Cut, Writing

LEMMA NextRoom ==
  ASSUME Ready, Chains, Sizes, RoomToRewrite, [Next]_vars
  PROVE  RoomToRewrite'
<1> USE DEF RoomToRewrite, Rewriting, Cut, Writing
<1>1. CASE Begin
  BY <1>1 DEF Begin, BeginCreateDir, BeginCreate, CreateNoSpace,
     CopySourceUnreadable, BeginWrite, BeginRename, BeginDelete, CallWrite
<1>2. CASE GrowInPlace \/ GrowGrab \/ Extend
  BY <1>2, GrowRoom
<1>3. CASE GrowNoSpace \/ ExtendNoSpace \/ LinkExists \/ UnlinkMissing
  BY <1>3 DEF GrowNoSpace, ExtendNoSpace, LinkExists, UnlinkMissing, Fail
<1>4. CASE Shrink \/ ShrinkNothing \/ Trim
  BY <1>4, ShrinkRoom
<1>5. CASE Store
  BY <1>5, StoreRoom
<1>6. CASE Unlink \/ Resize
  BY <1>6, UnlinkRoom, ResizeRoom
<1>7. CASE Link \/ AddEntry \/ DropEntry
  BY <1>7 DEF Link, AddEntry, DropEntry, CallWrite
<1>8. CASE DeleteChild \/ DeleteTop \/ ReturnToLoop \/ Return
  <2>1. pc' \in {"delete", "unlink", "idle"}
    BY <1>8 DEF DeleteChild, DeleteTop, ReturnToLoop, Return
  <2> QED BY <2>1
<1>9. CASE Collect \/ EraseDataSector \/ EraseContentInode \/ EraseFile
  BY <1>9 DEF Collect, EraseDataSector, EraseContentInode, EraseFile
<1>10. CASE UNCHANGED vars
  BY <1>10 DEF vars, bitmapVars, listVars, callVars, writeVars
<1> QED BY <1>1, <1>2, <1>3, <1>4, <1>5, <1>6, <1>7, <1>8, <1>9, <1>10
        DEF Next, Step

-----------------------------------------------------------------------------
(* Files are found, until they are erased.                                 *)

LEMMA QuietOrphans ==
  ASSUME Ready, QuietStep
  PROVE  /\ orphans \subseteq orphans'
         /\ Linking => Linking' \/ Erasing' \/ cur \in orphans'
         /\ Erasing => Erasing'
<1> USE DEF Linking, Erasing, Writing
<1>0. /\ ret \in RetLabels
      /\ Linking => op \in {"create", "rename"} /\ cur \notin entries[dir]
      /\ Writing => (ret = "return" <=> op = "write")
  BY DEF Ready, TypeOK, CallType, Control, Registers, Unlinked
<1>1. CASE GrowNoSpace \/ ExtendNoSpace \/ LinkExists
  <2>1. Fail /\ pc \in {"write", "extend", "link"}
    BY <1>1 DEF GrowNoSpace, ExtendNoSpace, LinkExists
  <2> QED BY <1>0, <2>1 DEF Fail
<1>2. CASE \/ GrowInPlace \/ GrowGrab \/ Extend \/ Shrink \/ ShrinkNothing
           \/ Trim
  BY <1>2 DEF GrowInPlace, GrowGrab, Extend, Shrink, ShrinkNothing, Trim,
     histVars, writeVars
<1>3. CASE Store
  BY <1>0, <1>3 DEF Store
<1>4. CASE Link \/ Unlink \/ UnlinkMissing \/ Resize
  BY <1>4 DEF Link, Unlink, UnlinkMissing, Resize, CallWrite, histVars
<1>5. CASE Collect \/ EraseDataSector \/ EraseContentInode
  BY <1>5 DEF Collect, EraseDataSector, EraseContentInode, histVars
<1> QED BY <1>1, <1>2, <1>3, <1>4, <1>5 DEF QuietStep

LEMMA InitFound == Init => Found
BY DEF Init, Found

LEMMA NewFileFound ==
  ASSUME Ready, Found, pc = "idle", doomed' = doomed,
         NEW s \in Sector, NEW d \in inodes, NEW n, NEW bytes,
         NewInode(s, d, n, bytes), cur' = s, Linking' \/ Erasing',
         orphans' = orphans
  PROVE  Found'
<1>1. /\ s \notin inodes /\ inodes' = inodes \cup {s}
      /\ \A g \in inodes : entries'[g] = entries[g] /\ parent'[g] = parent[g]
  BY NewInodeEffect, SizeTypes DEF Ready
<1>2. ~Linking /\ ~Erasing
  BY DEF Linking, Erasing, Writing
<1> QED BY <1>1, <1>2 DEF Found

LEMMA NextFound ==
  ASSUME Ready, Ready', Tree, Found, Complete, [Next]_vars
  PROVE  Found'
<1> USE DEF Linking, Erasing, Writing
<1>0. inodes \subseteq Sector /\ TreeType
  BY SizeTypes
<1>1. CASE QuietStep
  <2>1. Quiet
    BY <1>1, QuietSteps DEF Ready
  <2>2. /\ inodes' = inodes /\ entries' = entries /\ parent' = parent
        /\ cur' = cur
    BY <2>1 DEF Quiet
  <2>3. /\ orphans \subseteq orphans'
        /\ Linking => Linking' \/ Erasing' \/ cur \in orphans'
        /\ Erasing => Erasing'
    BY <1>1, QuietOrphans
  <2> HIDE DEF Linking, Erasing, Writing
  <2> QED BY <2>2, <2>3 DEF Found
<1>2. CASE \E d \in Sector, n \in Names, bytes \in FileSizes \cup {LogSize} :
             IsOpenDir(d) /\ BeginCreate(d, n, bytes)
  <2>1. PICK d \in Sector, n \in Names, bytes \in FileSizes \cup {LogSize} :
          IsOpenDir(d) /\ BeginCreate(d, n, bytes)
    BY <1>2
  <2>2. PICK s \in Sector : /\ BeginCall("create", s, d)
                            /\ NewInode(s, d, n, bytes)
                            /\ CallWrite(s, 0, bytes, "link")
    BY <2>1 DEF BeginCreate
  <2>3. /\ pc = "idle" /\ doomed' = doomed /\ cur' = s /\ Linking'
        /\ orphans' = orphans /\ d \in inodes
    BY <2>1, <2>2 DEF BeginCreate, BeginCall, CallWrite, histVars, IsOpenDir
  <2> QED BY <2>2, <2>3, NewFileFound
<1>3. CASE \E d \in Sector : IsOpenDir(d) /\ CopySourceUnreadable(d)
  <2>1. PICK d \in Sector, s \in Sector :
          /\ IsOpenDir(d) /\ CopySourceUnreadable(d)
          /\ BeginCall("create", s, d) /\ NewInode(s, d, NoName, 0)
    BY <1>3 DEF CopySourceUnreadable
  <2>2. /\ pc = "idle" /\ doomed' = doomed /\ cur' = s /\ Erasing'
        /\ orphans' = orphans /\ d \in inodes
    BY <2>1 DEF CopySourceUnreadable, BeginCall, histVars, IsOpenDir
  <2> QED BY <2>1, <2>2, NewFileFound
<1>4. CASE \/ \E d \in Sector : CreateNoSpace(d)
           \/ \E f \in Sector, bytes \in FileSizes : BeginWrite(f, bytes)
           \/ \E f \in Sector, n \in Names : BeginRename(f, n)
           \/ \E f \in Sector : BeginDelete(f)
  BY <1>4 DEF CreateNoSpace, BeginWrite, BeginRename, BeginDelete, BeginCall,
     listVars, treeVars, histVars, Found
<1>5. CASE AddEntry
  <2>1. /\ inodes' = inodes /\ parent' = [parent EXCEPT ![cur] = dir]
        /\ entries' = [entries EXCEPT ![dir] = @ \cup {cur}]
        /\ orphans' = orphans
        /\ cur \in inodes /\ dir \in inodes /\ parent[cur] = dir
    BY <1>5 DEF AddEntry, listVars, histVars, Ready, Registers, Tree, Rooted
  <2>2. parent' = parent /\ cur \in entries'[dir]
        /\ \A d \in inodes : entries[d] \subseteq entries'[d]
    BY <1>0, <2>1 DEF TreeType
  <2> QED BY <2>1, <2>2 DEF Found
<1>6. CASE DropEntry
  <2>1. Matching(dir, cur) = {cur} /\ parent[cur] = dir /\ dir \in inodes
    BY <1>6, OwnEntry DEF DropEntry, Unlinking
  <2>2. /\ inodes' = inodes /\ parent' = parent /\ cur' = cur
        /\ entries' = [entries EXCEPT ![dir] = @ \ {cur}]
        /\ orphans' = orphans /\ (Linking' \/ Erasing')
    BY <1>6, <2>1 DEF DropEntry, listVars, callVars, histVars
  <2>3. \A d \in inodes : entries[d] \ {cur} \subseteq entries'[d]
    BY <1>0, <2>2 DEF TreeType
  <2> QED BY <2>2, <2>3 DEF Found
<1>7. CASE EraseFile
  <2>1. /\ pc = "erase" /\ inodes' = inodes \ {cur}
        /\ \A g \in inodes : g # cur =>
             entries'[g] = entries[g] /\ parent'[g] = parent[g]
    BY <1>7, EraseFileEffect
  <2>2. orphans' = orphans
    BY <1>7 DEF EraseFile, histVars
  <2>3. entries[cur] = {}
    BY <2>1 DEF Complete
  <2>4. \A f \in inodes' \ ({Root} \cup orphans) :
          parent[f] \in inodes' /\ f \in entries[parent[f]]
    BY <2>1, <2>3 DEF Found
  <2> QED BY <2>1, <2>2, <2>4 DEF Found
<1>8. CASE DeleteChild \/ DeleteTop \/ ReturnToLoop \/ Return
  BY <1>8 DEF DeleteChild, DeleteTop, ReturnToLoop, Return, listVars, treeVars,
     callVars, histVars, Found
<1>9. CASE UNCHANGED vars
  BY <1>9 DEF vars, listVars, treeVars, callVars, writeVars, histVars, Found
<1> QED BY <1>1, <1>2, <1>3, <1>4, <1>5, <1>6, <1>7, <1>8, <1>9
        DEF Next, Begin, Step, BeginCreateDir, QuietStep

-----------------------------------------------------------------------------
(* A recursive delete is complete.                                         *)

(* Inside of one, no step but the erasure of a file returns to the loop.   *)
LEMMA NoEarlyReturn ==
  ASSUME Ready, Chains, Tree, Sizes, RoomToRewrite, QuietStep, Len(stack) > 1
  PROVE  pc' # "return"
<1> USE DEF Linking, Unlinking, Writing
<1>1. op = "delete" /\ stack # <<>> /\ ret \in RetLabels /\ left \in Int
  BY SizeTypes, EmptySeq DEF Ready, Control
<1>2. ~Linking /\ (Writing => ret \in {"resize", "unlinked"})
  BY <1>1 DEF Ready, Control, RetLabels
<1>3. Writing /\ ret = "resize" => left <= 0
  BY DEF Sizes, Progress
<1>4. CASE GrowNoSpace \/ ExtendNoSpace
  <2>1. Writing /\ left > 0
    BY <1>4 DEF GrowNoSpace, ExtendNoSpace, Ready, Control
  <2>2. ret # "unlinked"
    BY <1>4, SecondWriteHasRoom DEF Sizes
  <2> QED BY <1>1, <1>2, <1>3, <2>1, <2>2
<1>5. CASE LinkExists
  BY <1>2, <1>5 DEF LinkExists
<1>6. CASE UnlinkMissing
  <2>1. pc = "unlink" /\ Matching(dir, cur) = {}
    BY <1>6 DEF UnlinkMissing
  <2>2. Len(stack) \in Nat
    BY LenProperties DEF Ready, TypeOK, CallType
  <2>3. Len(stack) \in Settled /\ cur = stack[Len(stack)].file
    BY <1>1, <2>1, <2>2 DEF Settled, Erasing, Tree, Recursion
  <2>4. /\ cur \in entries[stack[Len(stack) - 1].file]
        /\ stack[Len(stack) - 1].file \in inodes
    BY <1>1, <2>3, ParentFrame
  <2>5. cur # Root
    BY <2>4 DEF Tree, Rooted, Unlinked
  <2>6. cur \in entries[dir]
    BY <2>1, <2>5 DEF Tree, Rooted
  <2> QED BY <2>1, <2>6 DEF Matching
<1>7. CASE Store
  BY <1>2, <1>7 DEF Store
<1>8. CASE \/ GrowInPlace \/ GrowGrab \/ Extend \/ Shrink \/ ShrinkNothing
           \/ Trim
  BY <1>8 DEF GrowInPlace, GrowGrab, Extend, Shrink, ShrinkNothing, Trim
<1>9. CASE \/ Link \/ Unlink \/ Resize
           \/ Collect \/ EraseDataSector \/ EraseContentInode
  BY <1>9 DEF Link, Unlink, Resize, CallWrite, Collect, EraseDataSector,
     EraseContentInode
<1> QED BY <1>4, <1>5, <1>6, <1>7, <1>8, <1>9 DEF QuietStep

LEMMA InitComplete == Init => Complete
BY DEF Init, Complete, Erasing, Linking, Writing

LEMMA QuietComplete ==
  ASSUME Ready, Ready', Chains, Tree, Sizes, RoomToRewrite, Complete,
         QuietStep
  PROVE  Complete'
<1>1. Quiet
  BY QuietSteps DEF Ready
<1>2. Len(stack) \in Nat
  BY LenProperties DEF Ready, TypeOK, CallType
<1>3. Settled' \subseteq Settled
  BY <1>1, <1>2 DEF Quiet, Settled
<1>4. Len(stack) > 1 => pc' # "return"
  BY NoEarlyReturn
<1>5. Erasing' \/ (Linking' /\ op = "create") =>
        Erasing \/ (Linking /\ op = "create")
  <2>1. Erasing' => Linking \/ Erasing
    BY <1>1 DEF Quiet
  <2>2. Erasing' /\ Linking => op = "create"
    BY <1>1 DEF Quiet, Ready, Control
  <2>3. Linking' => Linking
    BY <1>1 DEF Quiet
  <2> QED BY <2>1, <2>2, <2>3
<1>6. entries' = entries /\ cur' = cur /\ stack' = stack /\ op' = op
  BY <1>1 DEF Quiet
<1> QED BY <1>3, <1>4, <1>5, <1>6 DEF Complete

LEMMA DropEntryComplete ==
  ASSUME Ready, Tree, Complete, DropEntry
  PROVE  Complete'
<1> USE DEF Linking, Unlinking, Writing, Erasing
<1>1. /\ pc = "unlinked" /\ cur' = cur /\ op' = op /\ stack' = stack
      /\ IF op = "rename" THEN pc' = "link" ELSE pc' = "collect"
  BY DEF DropEntry, callVars
<1>2. \A d \in inodes : entries'[d] \subseteq entries[d]
  BY SizeTypes DEF DropEntry, TreeType
<1>3. cur \in inodes /\ (stack # <<>> <=> op = "delete")
      /\ op \in {"delete", "rename"}
  BY <1>1 DEF Ready, Registers, Control
<1>4. CASE op = "rename"
  BY <1>1, <1>3, <1>4 DEF Complete
<1>5. CASE op = "delete"
  <2> DEFINE n == Len(stack)
  <2>1. n \in Nat \ {0}
    BY <1>3, <1>5, LenProperties, EmptySeq DEF Ready, TypeOK, CallType
  <2>2. Settled = 1 .. n /\ Settled' = 1 .. n - 1
    BY <1>1, <1>5, <2>1 DEF Settled
  <2>3. \A i \in 1 .. n : stack[i].file \in inodes
    BY <1>3, <1>5, <2>2 DEF Tree, Recursion
  <2>4. cur = stack[n].file /\ stack[n].kids = {}
    BY <1>1, <1>3, <1>5 DEF Tree, Recursion
  <2>5. \A i \in 1 .. n :
          entries[stack[i].file] \subseteq
            stack[i].kids \cup (IF i < n THEN {stack[i + 1].file} ELSE {})
    BY <1>3, <1>5, <2>2 DEF Complete
  <2>6. entries'[cur] = {}
    <3>1. n \in 1 .. n /\ ~(n < n)
      BY <2>1
    <3> QED BY <1>2, <1>3, <2>4, <2>5, <3>1
  <2>7. \A i \in 1 .. n - 1 : i \in 1 .. n
    BY <2>1
  <2>8. \A i \in 1 .. n - 1 :
          entries'[stack[i].file] \subseteq
            stack[i].kids \cup (IF i < n THEN {stack[i + 1].file} ELSE {})
    BY <1>2, <2>3, <2>5, <2>7
  <2> QED BY <1>1, <1>5, <2>2, <2>6, <2>8 DEF Complete
<1> QED BY <1>3, <1>4, <1>5

LEMMA EraseFileComplete ==
  ASSUME Ready, Tree, Complete, EraseFile
  PROVE  Complete'
<1> USE DEF Linking, Unlinking, Writing, Erasing
<1>1. /\ pc = "erase" /\ pc' = "return" /\ cur' = cur /\ op' = op
      /\ stack' = stack /\ Unlinked(cur)
      /\ \A g \in inodes : g # cur => entries'[g] = entries[g]
  BY EraseFileEffect
<1>2. CASE stack = <<>>
  BY <1>1, <1>2 DEF Complete
<1>3. CASE stack # <<>>
  <2> DEFINE n == Len(stack)
  <2>1. n \in Nat \ {0} /\ n \in 1 .. n
    BY <1>3, LenProperties, EmptySeq DEF Ready, TypeOK, CallType
  <2>2. Settled = 1 .. n - 1 /\ Settled' = 1 .. n - 1
    BY <1>1, <2>1 DEF Settled
  <2>3. cur = stack[n].file
    BY <1>1, <1>3 DEF Tree, Recursion
  <2>4. \A i \in 1 .. n - 1 : stack[i].file \in inodes /\ stack[i].file # cur
    <3>1. \A i \in 1 .. n - 1 : i \in 1 .. n /\ i # n
      BY <2>1
    <3> QED BY <1>3, <2>1, <2>2, <2>3, <3>1 DEF Tree, Recursion
  <2>5. \A i \in 1 .. n - 1 :
          entries[stack[i].file] \subseteq
            stack[i].kids \cup (IF i < n THEN {stack[i + 1].file} ELSE {})
    BY <1>3, <2>2 DEF Complete
  <2>6. \A i \in 1 .. n - 1 :
          entries'[stack[i].file] \subseteq
            stack[i].kids \cup (IF i < n THEN {stack[i + 1].file} ELSE {})
    BY <1>1, <2>4, <2>5
  <2>7. n > 1 => entries'[stack[n - 1].file] \subseteq stack[n - 1].kids
    <3> SUFFICES ASSUME n > 1
                 PROVE  entries'[stack[n - 1].file] \subseteq stack[n - 1].kids
      OBVIOUS
    <3>1. n - 1 \in 1 .. n - 1 /\ (n - 1) + 1 = n
      BY <2>1
    <3>2. entries'[stack[n - 1].file] \subseteq stack[n - 1].kids \cup {cur}
      BY <2>3, <2>6, <3>1
    <3>3. cur \notin entries'[stack[n - 1].file]
      BY <1>1, <2>4, <3>1 DEF Unlinked
    <3> QED BY <3>2, <3>3
  <2> QED BY <1>1, <2>2, <2>6, <2>7 DEF Complete
<1> QED BY <1>2, <1>3

LEMMA LoopComplete ==
  ASSUME Ready, Tree, Complete,
         DeleteChild \/ DeleteTop \/ ReturnToLoop \/ Return
  PROVE  Complete'
<1> USE DEF Linking, Unlinking, Writing, Erasing
<1> DEFINE n == Len(stack)
<1>0. stack \in Seq(Frames) /\ n \in Nat
  BY LenProperties DEF Ready, TypeOK, CallType
<1>1. CASE DeleteChild
  <2>1. PICK k \in stack[n].kids :
          stack' = Append([stack EXCEPT ![n].kids = @ \ {k}], Frame(k))
    BY <1>1 DEF DeleteChild
  <2>2. /\ pc = "delete" /\ pc' = "delete" /\ entries' = entries
        /\ stack # <<>>
    BY <1>1 DEF DeleteChild, treeVars, Ready, TypeOK, CallType
  <2>3. k \in inodes
    BY <2>2, ChildIsNew
  <2>4. Frame(k) \in Frames /\ Frame(k).file = k /\ entries[k] \subseteq Frame(k).kids
    BY <2>3, SizeTypes, FrameType DEF Frame, Tree, Directories
  <2>5. LET st2 == Append([stack EXCEPT ![Len(stack)].kids = @ \ {k}], Frame(k))
        IN  /\ Len(stack) \in Nat \ {0} /\ Len(st2) = Len(stack) + 1
            /\ \A i \in 1 .. Len(stack) - 1 : st2[i] = stack[i]
            /\ st2[Len(stack)].file = stack[Len(stack)].file
            /\ st2[Len(stack)].kids = stack[Len(stack)].kids \ {k}
            /\ st2[Len(stack) + 1] = Frame(k)
    BY <1>0, <2>2, <2>4, PushFrame
  <2>6. /\ n \in Nat \ {0} /\ Len(stack') = n + 1
        /\ \A i \in 1 .. n - 1 : stack'[i] = stack[i]
        /\ stack'[n].file = stack[n].file
        /\ stack'[n].kids = stack[n].kids \ {k}
        /\ stack'[n + 1].file = k /\ entries[k] \subseteq stack'[n + 1].kids
    BY <2>1, <2>4, <2>5
  <2>7. Settled = 1 .. n /\ Settled' = 1 .. n + 1
    BY <2>2, <2>6 DEF Settled
  <2>8. \A i \in 1 .. n :
          entries[stack[i].file] \subseteq
            stack[i].kids \cup (IF i < n THEN {stack[i + 1].file} ELSE {})
    BY <2>2, <2>7 DEF Complete
  <2>9. \A i \in 1 .. n + 1 :
          entries[stack'[i].file] \subseteq
            stack'[i].kids \cup (IF i < n + 1 THEN {stack'[i + 1].file} ELSE {})
    <3> SUFFICES ASSUME NEW i \in 1 .. n + 1
                 PROVE  entries[stack'[i].file] \subseteq
                          stack'[i].kids \cup
                          (IF i < n + 1 THEN {stack'[i + 1].file} ELSE {})
      OBVIOUS
    <3>1. CASE i = n + 1
      BY <2>6, <3>1
    <3>2. CASE i = n
      <4>1. n \in 1 .. n /\ ~(n < n) /\ n < n + 1
        BY <2>6
      <4>2. entries[stack[n].file] \subseteq stack[n].kids
        BY <2>8, <4>1
      <4> QED BY <2>6, <3>2, <4>1, <4>2
    <3>3. CASE i \in 1 .. n - 1
      <4>1. i < n /\ i < n + 1 /\ i \in 1 .. n
        BY <2>6, <3>3
      <4>2. entries[stack[i].file] \subseteq stack[i].kids \cup {stack[i + 1].file}
        BY <2>8, <4>1
      <4>3. stack'[i + 1].file = stack[i + 1].file
        <5>1. i + 1 = n \/ i + 1 \in 1 .. n - 1
          BY <2>6, <3>3
        <5> QED BY <2>6, <5>1
      <4> QED BY <2>6, <3>3, <4>1, <4>2, <4>3
    <3>4. i = n + 1 \/ i = n \/ i \in 1 .. n - 1
      BY <2>6
    <3> QED BY <3>1, <3>2, <3>3, <3>4
  <2> QED BY <2>2, <2>6, <2>7, <2>9 DEF Complete
<1>2. CASE DeleteTop
  <2>1. /\ pc = "delete" /\ pc' = "unlink" /\ entries' = entries
        /\ stack' = stack
    BY <1>2 DEF DeleteTop, treeVars
  <2>2. Settled' = Settled
    BY <2>1 DEF Settled
  <2> QED BY <2>1, <2>2 DEF Complete
<1>3. CASE ReturnToLoop
  <2>1. /\ pc = "return" /\ pc' = "delete" /\ entries' = entries /\ n > 1
        /\ stack' = AllButLast(stack)
    BY <1>3 DEF ReturnToLoop, treeVars
  <2>2. /\ n \in Nat \ {0} /\ Len(stack') = n - 1
        /\ \A i \in 1 .. n - 1 : stack'[i] = stack[i]
    BY <1>0, <2>1, PopFrame
  <2>3. Settled = 1 .. n - 1 /\ Settled' = 1 .. n - 1 /\ stack # <<>>
    BY <2>1, <2>2, EmptySeq DEF Settled
  <2>4. /\ \A i \in 1 .. n - 1 :
             entries[stack[i].file] \subseteq
               stack[i].kids \cup (IF i < n THEN {stack[i + 1].file} ELSE {})
        /\ entries[stack[n - 1].file] \subseteq stack[n - 1].kids
    BY <2>1, <2>3 DEF Complete
  <2>5. \A i \in 1 .. n - 1 :
          entries[stack'[i].file] \subseteq
            stack'[i].kids \cup (IF i < n - 1 THEN {stack'[i + 1].file} ELSE {})
    <3> SUFFICES ASSUME NEW i \in 1 .. n - 1
                 PROVE  entries[stack'[i].file] \subseteq
                          stack'[i].kids \cup
                          (IF i < n - 1 THEN {stack'[i + 1].file} ELSE {})
      OBVIOUS
    <3>1. CASE i = n - 1
      BY <2>2, <2>4, <3>1
    <3>2. CASE i # n - 1
      <4>1. i < n - 1 /\ i < n /\ i + 1 \in 1 .. n - 1
        BY <2>2, <3>2
      <4>2. entries[stack[i].file] \subseteq stack[i].kids \cup {stack[i + 1].file}
        BY <2>4, <4>1
      <4> QED BY <2>2, <4>1, <4>2
    <3> QED BY <3>1, <3>2
  <2> QED BY <2>1, <2>2, <2>3, <2>5 DEF Complete
<1>4. CASE Return
  BY <1>4 DEF Return, Complete
<1> QED BY <1>1, <1>2, <1>3, <1>4

LEMMA BeginComplete ==
  ASSUME Ready, Tree, Complete, Begin
  PROVE  Complete'
<1> USE DEF Linking, Unlinking, Writing, Erasing
<1>0. pc = "idle" /\ stack = <<>>
  BY DEF Ready, Calls, Begin, BeginCreate, BeginCreateDir, CreateNoSpace,
         CopySourceUnreadable, BeginWrite, BeginRename, BeginDelete, BeginCall
<1>1. ASSUME NEW d \in Sector, NEW s \in Sector, NEW n, NEW bytes,
             NewInode(s, d, n, bytes), cur' = s, stack' = stack,
             doomed' = doomed
      PROVE  Complete'
  <2>1. entries'[s] = {}
    BY <1>1, NewInodeEffect DEF Ready
  <2> QED BY <1>0, <1>1, <2>1 DEF Complete
<1>2. CASE \E d \in Sector, n \in Names, bytes \in FileSizes \cup {LogSize} : BeginCreate(d, n, bytes)
  BY <1>1, <1>2 DEF BeginCreate, BeginCall
<1>3. CASE \E d \in Sector : CopySourceUnreadable(d)
  BY <1>1, <1>3 DEF CopySourceUnreadable, BeginCall
<1>4. CASE \/ \E d \in Sector : CreateNoSpace(d)
           \/ \E f \in Sector, bytes \in FileSizes : BeginWrite(f, bytes)
           \/ \E f \in Sector, n \in Names : BeginRename(f, n)
  BY <1>0, <1>4 DEF CreateNoSpace, BeginWrite, BeginRename, BeginCall,
     CallWrite, Complete
<1>5. CASE \E f \in Sector : BeginDelete(f)
  <2>1. PICK f \in Sector : BeginDelete(f)
    BY <1>5
  <2>2. /\ stack' = <<Frame(f)>> /\ pc' = "delete" /\ entries' = entries
        /\ f \in inodes
    BY <2>1 DEF BeginDelete, BeginCall, treeVars, Linked, Tree, Rooted
  <2>3. Len(stack') = 1 /\ stack'[1].file = f /\ entries[f] \subseteq stack'[1].kids
    BY <2>2 DEF Frame, Tree, Directories
  <2>4. Settled' = {1}
    BY <2>2, <2>3 DEF Settled
  <2> QED BY <2>2, <2>3, <2>4 DEF Complete
<1> QED BY <1>2, <1>3, <1>4, <1>5 DEF Begin, BeginCreateDir

LEMMA NextComplete ==
  ASSUME Ready, Ready', Chains, Tree, Sizes, RoomToRewrite, Complete,
         [Next]_vars
  PROVE  Complete'
<1>1. CASE Begin
  BY <1>1, BeginComplete
<1>2. CASE QuietStep
  BY <1>2, QuietComplete
<1>3. CASE AddEntry
  <2>1. pc = "linked" /\ pc' = "return" /\ stack' = stack /\ op' = op
    BY <1>3 DEF AddEntry, callVars
  <2>2. stack = <<>>
    BY <2>1 DEF Ready, Control, Linking
  <2> QED BY <2>1, <2>2 DEF Complete, Linking, Erasing, Writing
<1>4. CASE DropEntry
  BY <1>4, DropEntryComplete
<1>5. CASE EraseFile
  BY <1>5, EraseFileComplete
<1>6. CASE DeleteChild \/ DeleteTop \/ ReturnToLoop \/ Return
  BY <1>6, LoopComplete
<1>7. CASE UNCHANGED vars
  BY <1>7 DEF vars, Complete, Settled, Linking, Erasing, Writing, treeVars,
     callVars, writeVars
<1> QED BY <1>1, <1>2, <1>3, <1>4, <1>5, <1>6, <1>7 DEF Next, Step, QuietStep

-----------------------------------------------------------------------------
(* A failed add or copy gives everything back.                             *)

LEMMA SameOthers ==
  ASSUME inodes' \ {cur'} = inodes \ {cur},
         \A f \in inodes \ {cur} : data'[f] = data[f] /\ chain'[f] = chain[f]
  PROVE  OthersHold' = OthersHold
BY DEF OthersHold, Owned

(* What the files hold is all that is used, when the call holds nothing.   *)
LEMMA FilesHoldAll ==
  ASSUME Ready, pc # "extend", doomed = <<>>
  PROVE  used = {s \in Sector : s \in Reserved \/ \E f \in inodes : s \in Owned(f)}
<1>1. grabbed = {} /\ used \subseteq Sector
  BY DEF Ready, Registers, TypeOK, BitmapType
<1>2. \A s \in Sector : s \in used <=> Claimed(s)
  BY DEF Ready, Partition, Accounted
<1>3. \A s : s \notin SeqElems(doomed)
  BY EmptyElems
<1> QED BY <1>1, <1>2, <1>3 DEF Claimed

LEMMA InitRollback == Init => Rollback
BY DEF Init, Rollback

LEMMA NewFileRollback ==
  ASSUME Ready, pc = "idle", doomed' = doomed,
         NEW s \in Sector, NEW d \in inodes, NEW n, NEW bytes,
         NewInode(s, d, n, bytes), cur' = s, before' = used
  PROVE  before' = OthersHold'
<1>1. /\ s \notin inodes /\ inodes' = inodes \cup {s}
      /\ \A g \in inodes : data'[g] = data[g] /\ chain'[g] = chain[g]
  BY NewInodeEffect, SizeTypes DEF Ready
<1>2. OthersHold'
        = {t \in Sector : t \in Reserved \/ \E f \in inodes : t \in Owned(f)}
  BY <1>1 DEF OthersHold, Owned
<1>3. doomed = <<>>
  BY DEF Ready, Registers
<1> QED BY <1>2, <1>3, FilesHoldAll

(* The steps by which a call that adds or copies is on its way.            *)
LEMMA WayRollback ==
  ASSUME Ready, Tree, Sizes, Rollback, op = "create",
         \/ GrowInPlace \/ GrowGrab \/ GrowNoSpace \/ Extend \/ ExtendNoSpace
         \/ Shrink \/ ShrinkNothing \/ Trim \/ Store \/ Link \/ LinkExists
  PROVE  Rollback'
<1> USE DEF Linking, Unlinking, Writing, Erasing
<1>0. /\ ListType /\ target \in Sector /\ left \in Int /\ inodes \subseteq Sector
      /\ Writing => ret \in {"link", "linked"}
      /\ Writing /\ ret = "link" => target = cur
      /\ Writing /\ ret = "linked" => left <= 1
      /\ pc = "extend" => left > 0
  BY SizeTypes DEF Ready, Calls, Control, Sizes, Progress
<1>1. CASE GrowInPlace \/ Extend
  <2>1. /\ pc \in {"write", "extend"} /\ pc' = "write" /\ left' = left - 1
        /\ ret' = ret /\ op' = op /\ cur' = cur /\ before' = before /\ left > 0
        /\ inodes' = inodes
        /\ \A g \in inodes \ {target} : data'[g] = data[g] /\ chain'[g] = chain[g]
    BY <1>0, <1>1 DEF GrowInPlace, AppendSector, Extend, AddContentInode,
       callVars, ListType
  <2>2. CASE ret = "link"
    <3>1. OthersHold' = OthersHold
      BY <1>0, <2>1, <2>2, SameOthers
    <3> QED BY <2>1, <2>2, <3>1 DEF Rollback
  <2>3. CASE ret = "linked"
    <3>1. ~(left' > 0)
      BY <1>0, <2>1, <2>3
    <3> QED BY <2>1, <2>3, <3>1 DEF Rollback
  <2> QED BY <1>0, <2>1, <2>2, <2>3
<1>2. CASE Shrink \/ ShrinkNothing \/ Trim
  <2>1. /\ pc \in {"write", "trim"} /\ pc' \in {"write", "trim"}
        /\ (left' = left + 1 \/ left' = left) /\ left < 0
        /\ ret' = ret /\ op' = op /\ cur' = cur /\ before' = before
        /\ inodes' = inodes
        /\ \A g \in inodes \ {target} : data'[g] = data[g] /\ chain'[g] = chain[g]
    BY <1>0, <1>2 DEF Shrink, RemoveLastSector, ShrinkNothing, Trim,
       RemoveContentInode, callVars, listVars, ListType, Ready, Control
  <2>2. CASE ret = "link"
    <3>1. OthersHold' = OthersHold
      BY <1>0, <2>1, <2>2, SameOthers
    <3> QED BY <2>1, <2>2, <3>1 DEF Rollback
  <2>3. CASE ret = "linked"
    <3>1. ~(left' > 0)
      BY <1>0, <2>1
    <3> QED BY <2>1, <2>3, <3>1 DEF Rollback
  <2> QED BY <1>0, <2>1, <2>2, <2>3
<1>3. CASE GrowGrab \/ GrowNoSpace \/ ExtendNoSpace
  <2>1. /\ pc \in {"write", "extend"} /\ left > 0 /\ pc' \in {"extend", "collect"}
        /\ op' = op /\ cur' = cur /\ before' = before /\ inodes' = inodes
        /\ data' = data /\ chain' = chain
    BY <1>0, <1>3 DEF GrowGrab, GrabSector, GrowNoSpace, ExtendNoSpace,
       DropGrabbed, Fail, callVars, listVars
  <2>2. OthersHold' = OthersHold
    BY <2>1, SameOthers
  <2> QED BY <2>1, <2>2 DEF Rollback
<1>4. CASE Store
  <2>1. /\ pc = "write" /\ pc' = ret /\ op' = op /\ cur' = cur
        /\ before' = before /\ inodes' = inodes /\ data' = data /\ chain' = chain
    BY <1>4 DEF Store, callVars, listVars
  <2>2. OthersHold' = OthersHold
    BY <2>1, SameOthers
  <2> QED BY <1>0, <2>1, <2>2 DEF Rollback
<1>5. CASE Link \/ LinkExists
  <2>1. /\ pc = "link" /\ pc' \in {"write", "collect"} /\ op' = op /\ cur' = cur
        /\ before' = before /\ inodes' = inodes /\ data' = data /\ chain' = chain
    BY <1>5 DEF Link, LinkExists, CallWrite, Fail, callVars, listVars
  <2>2. OthersHold' = OthersHold
    BY <2>1, SameOthers
  <2> QED BY <2>1, <2>2 DEF Rollback
<1> QED BY <1>1, <1>2, <1>3, <1>4, <1>5

LEMMA EraseRollback ==
  ASSUME Ready, Ready', Rollback, op = "create",
         Collect \/ EraseDataSector \/ EraseContentInode \/ EraseFile
  PROVE  Rollback'
<1> USE DEF Linking, Unlinking, Writing, Erasing
<1>0. ListType /\ inodes \subseteq Sector
  BY SizeTypes
<1>1. CASE Collect \/ EraseDataSector \/ EraseContentInode
  <2>1. /\ pc \in {"collect", "erase"} /\ pc' = "erase" /\ op' = op /\ cur' = cur
        /\ before' = before /\ inodes' = inodes
        /\ \A g \in inodes \ {cur} : data'[g] = data[g] /\ chain'[g] = chain[g]
    BY <1>0, <1>1 DEF Collect, DetachData, EraseDataSector, EraseContentInode,
       RemoveContentInode, callVars, listVars, ListType
  <2>2. OthersHold' = OthersHold
    BY <2>1, SameOthers
  <2> QED BY <2>1, <2>2 DEF Rollback
<1>2. CASE EraseFile
  <2>1. /\ pc = "erase" /\ pc' = "return" /\ op' = op /\ doomed' = <<>>
        /\ inodes' = inodes \ {cur} /\ data' = data /\ chain' = chain
    BY <1>2, EraseFileEffect
  <2>2. before' = before
    BY <1>2 DEF EraseFile, callVars
  <2>3. used' = {s \in Sector : s \in Reserved \/ \E f \in inodes' : s \in Owned(f)'}
    <3>1. /\ grabbed' = {} /\ used' \subseteq Sector
          /\ \A s \in Sector : s \in used' <=> Claimed(s)'
      BY <2>1 DEF Ready, Registers, TypeOK, BitmapType, Partition, Accounted
    <3>2. \A s : s \notin SeqElems(doomed')
      BY <2>1, EmptyElems
    <3> QED BY <3>1, <3>2 DEF Claimed
  <2>4. used' = OthersHold
    BY <2>1, <2>3 DEF OthersHold, Owned
  <2> QED BY <2>1, <2>2, <2>4 DEF Rollback
<1> QED BY <1>1, <1>2

LEMMA NextRollback ==
  ASSUME Ready, Ready', Tree, Sizes, Rollback, [Next]_vars
  PROVE  Rollback'
<1> USE DEF Linking, Unlinking, Writing, Erasing
<1>0. SUFFICES ASSUME op' = "create" PROVE Rollback'
  BY DEF Rollback
<1>1. CASE \E d \in Sector, n \in Names, bytes \in FileSizes \cup {LogSize} :
             IsOpenDir(d) /\ BeginCreate(d, n, bytes)
  <2>1. PICK d \in Sector, n \in Names, bytes \in FileSizes \cup {LogSize} :
          IsOpenDir(d) /\ BeginCreate(d, n, bytes)
    BY <1>1
  <2>2. PICK s \in Sector : /\ BeginCall("create", s, d)
                            /\ NewInode(s, d, n, bytes)
                            /\ CallWrite(s, 0, bytes, "link")
    BY <2>1 DEF BeginCreate
  <2>3. /\ pc = "idle" /\ doomed' = doomed /\ cur' = s /\ before' = used
        /\ d \in inodes /\ pc' = "write"
    BY <2>1, <2>2 DEF BeginCreate, BeginCall, CallWrite, IsOpenDir
  <2>4. before' = OthersHold'
    BY <2>2, <2>3, NewFileRollback
  <2> QED BY <2>3, <2>4 DEF Rollback
<1>2. CASE \E d \in Sector : IsOpenDir(d) /\ CopySourceUnreadable(d)
  <2>1. PICK d \in Sector, s \in Sector :
          /\ IsOpenDir(d) /\ CopySourceUnreadable(d)
          /\ BeginCall("create", s, d) /\ NewInode(s, d, NoName, 0)
    BY <1>2 DEF CopySourceUnreadable
  <2>2. /\ pc = "idle" /\ doomed' = doomed /\ cur' = s /\ before' = used
        /\ d \in inodes /\ pc' = "collect"
    BY <2>1 DEF CopySourceUnreadable, BeginCall, IsOpenDir
  <2>3. before' = OthersHold'
    BY <2>1, <2>2, NewFileRollback
  <2> QED BY <2>2, <2>3 DEF Rollback
<1>3. CASE \E d \in Sector : CreateNoSpace(d)
  BY <1>3 DEF CreateNoSpace, BeginCall, bitmapVars, Rollback
<1>4. CASE \/ \E f \in Sector, bytes \in FileSizes : BeginWrite(f, bytes)
           \/ \E f \in Sector, n \in Names : BeginRename(f, n)
           \/ \E f \in Sector : BeginDelete(f)
  BY <1>0, <1>4 DEF BeginWrite, BeginRename, BeginDelete, BeginCall
<1>5. CASE \/ GrowInPlace \/ GrowGrab \/ GrowNoSpace \/ Extend \/ ExtendNoSpace
           \/ Shrink \/ ShrinkNothing \/ Trim \/ Store \/ Link \/ LinkExists
  <2>1. op = "create"
    BY <1>0, <1>5 DEF GrowInPlace, GrowGrab, GrowNoSpace, Extend, ExtendNoSpace,
       Shrink, ShrinkNothing, Trim, Store, Link, LinkExists, callVars
  <2> QED BY <1>5, <2>1, WayRollback
<1>6. CASE Collect \/ EraseDataSector \/ EraseContentInode \/ EraseFile
  <2>1. op = "create"
    BY <1>0, <1>6 DEF Collect, EraseDataSector, EraseContentInode, EraseFile,
       callVars
  <2> QED BY <1>6, <2>1, EraseRollback
<1>7. CASE Unlink \/ UnlinkMissing \/ Resize \/ DropEntry
  BY <1>0, <1>7 DEF Unlink, UnlinkMissing, Resize, DropEntry, callVars, Ready,
     Control
<1>8. CASE AddEntry
  BY <1>0, <1>8 DEF AddEntry, callVars, Ready, Control, Rollback
<1>9. CASE DeleteChild \/ DeleteTop \/ ReturnToLoop \/ Return
  <2>1. Len(<<>>) = 0
    OBVIOUS
  <2> QED BY <1>0, <1>9, <2>1 DEF DeleteChild, DeleteTop, ReturnToLoop, Return,
     callVars, Ready, Control, TypeOK, CallType
<1>10. CASE UNCHANGED vars
  BY <1>10 DEF vars, Rollback, OthersHold, Owned, listVars, bitmapVars,
     callVars, writeVars
<1> QED BY <1>1, <1>2, <1>3, <1>4, <1>5, <1>6, <1>7, <1>8, <1>9, <1>10
        DEF Next, Begin, Step, BeginCreateDir

-----------------------------------------------------------------------------
(* All layers together.                                                    *)

LEMMA InitInvariant == Init => Invariant
<1>1. Init => ~dangling
  BY DEF Init
<1> QED BY <1>1, InitOwnership, InitControl, InitChains, InitStrays, InitTree,
           InitSizes, InitRoom, InitFound, InitComplete, InitRollback
        DEF Invariant, Kept

LEMMA NextInvariant == Invariant /\ [Next]_vars => Invariant'
<1> SUFFICES ASSUME Invariant, [Next]_vars PROVE Invariant'
  OBVIOUS
<1>1. SoundTree /\ TypeOK
  BY DEF Invariant, SoundTree, Inductive
<1>2. Inductive' /\ Control' /\ Chains' /\ NoStrays'
  BY <1>1, NextOwnership, NextControl, NextChains, NextStrays
     DEF Invariant, Sizes
<1>3. CASE damaged'
  BY <1>2, <1>3 DEF Invariant
<1>4. CASE ~damaged'
  <2>1. ~damaged /\ ~dangling' /\ Ready /\ Ready' /\ Tree
    BY <1>1, <1>4, NextReady
  <2>2. /\ Chains /\ NoStrays /\ Sizes /\ RoomToRewrite
        /\ Found /\ Complete /\ Rollback
    BY <2>1 DEF Invariant, Kept
  <2>3. Tree'
    BY <2>1, NextTree
  <2>4. Sizes'
    BY <2>1, <2>2, NextSizes
  <2>5. RoomToRewrite'
    BY <2>1, <2>2, NextRoom
  <2>6. Found'
    BY <2>1, <2>2, NextFound
  <2>7. Complete'
    BY <2>1, <2>2, NextComplete
  <2>8. Rollback'
    BY <2>1, <2>2, NextRollback
  <2> QED BY <1>2, <2>1, <2>3, <2>4, <2>5, <2>6, <2>7, <2>8
          DEF Invariant, Kept
<1> QED BY <1>3, <1>4

(* What every step of every call keeps true of the tree, of the sizes, of  *)
(* the recursion of a delete and of what a failure has to undo.            *)
THEOREM InvariantHolds == Spec => []Invariant
BY InitInvariant, NextInvariant, PTL DEF Spec

(* Between calls the sectors of a file hold the bytes its inode declares,  *)
(* and the stored size of a directory is what its entries take, also after *)
(* a write or an entry that ran out of space, and also for a file that has *)
(* stray slots behind its end marker.                                      *)
THEOREM SizesAreRight == Spec => []SizesRight
<1>1. Invariant => SizesRight
  <2> SUFFICES ASSUME Invariant, pc = "idle", Sound, NEW f \in inodes
               PROVE  DirSizeExact(f) /\ Fits(f)
    BY DEF SizesRight
  <2>1. FilesFit /\ DirSizes
    BY DEF Invariant, Sizes, Sound
  <2>2. ~Changing(f) /\ ~Cut
    BY DEF Changing, Cut, Erasing, Writing
  <2>3. DirSizeExact(f)
    BY <2>1, <2>2 DEF DirSizes
  <2> QED BY <2>1, <2>2, <2>3 DEF FilesFit
<1> QED BY <1>1, InvariantHolds, PTL

(* Between calls every file is in the directory its inode names, unless a  *)
(* rename failed after it had unlinked the file: no interrupted add, copy  *)
(* or recursive delete leaves a file that nobody can find.                 *)
THEOREM FilesAreFound == Spec => []EveryFileFound
<1>1. Invariant => EveryFileFound
  BY DEF Invariant, Kept, Sound, Found, Linking, Erasing, Writing,
     EveryFileFound
<1> QED BY <1>1, InvariantHolds, PTL

(* An add or a copy that fails, wherever it fails, leaves the bitmap as it *)
(* found it.                                                               *)
THEOREM FailuresRollBack == Spec => []RollbackRestores
<1>1. Invariant => RollbackRestores
  BY DEF Invariant, Kept, Sound, Rollback, RollbackRestores
<1> QED BY <1>1, InvariantHolds, PTL

(* A write that reports success has made the file as long as it was asked  *)
(* to, on exactly the sectors that takes.                                  *)
THEOREM WritesAreComplete == Spec => []WriteComplete
<1>1. Invariant => WriteComplete
  BY DEF Invariant, NoStrays, Sizes, WriteDone, WriteComplete
<1> QED BY <1>1, InvariantHolds, PTL
=============================================================================
