---------------------------- MODULE FileSectors ----------------------------
(***************************************************************************)
(* The sector lists of files (ccos_private.c).  An inode holds InodeMax    *)
(* list slots; when they are full the list goes on in a chain of content   *)
(* inodes of ContMax slots each.  data[f] is the list up to its end        *)
(* marker, chain[f] the content inodes.  ccos_add_content_inode does not   *)
(* initialise its slots, so tail[f] holds what the slots behind the marker *)
(* of the last content inode read as, where that is a sector number.       *)
(***************************************************************************)
EXTENDS SectorMap, Sequences

CONSTANTS
  InodeMax,     \* list slots of an inode         (146 or 20 in the code)
  ContMax,      \* list slots of a content inode  (246 or 120)
  PristineSlot  \* what a slot of a never erased sector reads as (0x5555)

ASSUME FileSectorsAssumption ==
  /\ InodeMax \in Nat \ {0}
  /\ ContMax \in Nat \ {0, 1}
  /\ PristineSlot \in Nat

VARIABLES
  inodes,  \* sectors holding an initialised inode; the sector names the file
  data,    \* [Sector -> Seq(Sector)] data sectors in file order
  chain,   \* [Sector -> Seq(Sector)] content inodes, first to last
  tail,    \* [Sector -> Seq(Nat)] what is listed after the end marker
  grabbed, \* the data sector claimed before its content inode, or {}
  stale    \* history: some content inode was linked with stray list entries

listVars == <<inodes, data, chain, tail, grabbed, stale>>

SeqElems(s) == {s[i] : i \in 1 .. Len(s)}

AllButLast(s) == SubSeq(s, 1, Len(s) - 1)

(* The sectors that belong to file f.                                      *)
Owned(f) == {f} \cup SeqElems(data[f]) \cup SeqElems(chain[f])

(* ccos_get_file_sectors: every slot that names a sector of the image, the *)
(* end marker notwithstanding.                                             *)
FileSectorList(f) == data[f] \o tail[f]

(* Slots in use in the list that grows: the last content inode's, or the   *)
(* inode's own when there is none.                                         *)
LastCount(f) ==
  IF chain[f] = <<>> THEN Len(data[f])
  ELSE Len(data[f]) - InodeMax - ContMax * (Len(chain[f]) - 1)

LastListFull(f) ==
  LastCount(f) = (IF chain[f] = <<>> THEN InodeMax ELSE ContMax)

(* What the untouched slots of sector c read as once c is a content inode: *)
(* two slots are written at once, the new sector and the end marker.       *)
UnwrittenSlots(c) ==
  LET v == IF c \in pristine THEN PristineSlot ELSE 0
  IN  IF v < NumSectors THEN [i \in 1 .. ContMax - 2 |-> v] ELSE <<>>

(* ccos_init_inode: everything zeroed, every slot an end marker.           *)
InitInode(s) ==
  /\ inodes' = inodes \cup {s}
  /\ data' = [data EXCEPT ![s] = <<>>]
  /\ chain' = [chain EXCEPT ![s] = <<>>]
  /\ tail' = [tail EXCEPT ![s] = <<>>]
  /\ UNCHANGED <<grabbed, stale>>

(* ccos_add_sector_to_file when the last list has room: the slot takes the *)
(* sector and the slot after it becomes the end marker.                    *)
AppendSector(f, s) ==
  LET behind == ContMax - LastCount(f) - 2  \* slots behind the new marker
      keep == IF Len(tail[f]) <= behind THEN Len(tail[f])
              ELSE IF behind < 0 THEN 0 ELSE behind
  IN  /\ MarkUsed(s)
      /\ data' = [data EXCEPT ![f] = Append(@, s)]
      /\ tail' = [tail EXCEPT ![f] = SubSeq(@, 1, keep)]
      /\ UNCHANGED <<inodes, chain, grabbed, stale>>

(* Mutant of GrabSector: the sector is marked only when it is linked.      *)
GrabUnmarked(s) ==
  /\ grabbed' = {s}
  /\ UNCHANGED <<bitmapVars, inodes, data, chain, tail, stale>>

(* ccos_add_sector_to_file when the last list is full: the data sector is  *)
(* claimed first ...                                                       *)
GrabSector(s) ==
  /\ MarkUsed(s)
  /\ grabbed' = {s}
  /\ UNCHANGED <<inodes, data, chain, tail, stale>>

(* Mutant of AddContentInode: the data sector is counted again.            *)
AddContentInodeRecount(f, s, c) ==
  /\ used' = used \cup {c}
  /\ allocated' = (allocated + 2) % CounterSpan
  /\ chain' = [chain EXCEPT ![f] = Append(@, c)]
  /\ data' = [data EXCEPT ![f] = Append(@, s)]
  /\ tail' = [tail EXCEPT ![f] = UnwrittenSlots(c)]
  /\ grabbed' = {}
  /\ stale' = (stale \/ UnwrittenSlots(c) # <<>>)
  /\ UNCHANGED <<pristine, inodes>>

(* ... then ccos_add_content_inode claims and links sector c, whose first  *)
(* slot takes the data sector ...                                          *)
AddContentInode(f, s, c) ==
  /\ MarkUsed(c)
  /\ chain' = [chain EXCEPT ![f] = Append(@, c)]
  /\ data' = [data EXCEPT ![f] = Append(@, s)]
  /\ tail' = [tail EXCEPT ![f] = UnwrittenSlots(c)]
  /\ grabbed' = {}
  /\ stale' = (stale \/ UnwrittenSlots(c) # <<>>)
  /\ UNCHANGED inodes

(* Mutant of DropGrabbed: the data sector is forgotten.                    *)
DropGrabbedLeak(s) ==
  /\ grabbed' = {}
  /\ UNCHANGED <<bitmapVars, inodes, data, chain, tail, stale>>

(* ... or, when no sector is left, the data sector is erased again.        *)
DropGrabbed(s) ==
  /\ EraseSector(s)
  /\ grabbed' = {}
  /\ UNCHANGED <<inodes, data, chain, tail, stale>>

(* ccos_remove_sector_from_file, a file that has a sector.                 *)
RemoveLastSector(f) ==
  /\ EraseSector(data[f][Len(data[f])])
  /\ data' = [data EXCEPT ![f] = AllButLast(@)]
  /\ UNCHANGED <<inodes, chain, tail, grabbed, stale>>

(* ccos_remove_content_inode: erase the last one, unlink it from the one   *)
(* before.                                                                 *)
RemoveContentInode(f) ==
  /\ EraseSector(chain[f][Len(chain[f])])
  /\ chain' = [chain EXCEPT ![f] = AllButLast(@)]
  /\ tail' = [tail EXCEPT ![f] = <<>>]
  /\ UNCHANGED <<inodes, data, grabbed, stale>>

(* The list is read once and its sectors are erased one after another; the *)
(* slots are not read again.                                               *)
DetachData(f) ==
  /\ data' = [data EXCEPT ![f] = <<>>]
  /\ tail' = [tail EXCEPT ![f] = <<>>]
  /\ UNCHANGED <<bitmapVars, inodes, chain, grabbed, stale>>

(* The inode's own sector goes last.                                       *)
EraseInode(f) ==
  /\ EraseSector(f)
  /\ inodes' = inodes \ {f}
  /\ UNCHANGED <<data, chain, tail, grabbed, stale>>

ListType ==
  /\ inodes \subseteq Sector
  /\ data \in [Sector -> Seq(Sector)]
  /\ chain \in [Sector -> Seq(Sector)]
  /\ tail \in [Sector -> Seq(Sector)]
  /\ grabbed \subseteq Sector
  /\ stale \in BOOLEAN

=============================================================================
