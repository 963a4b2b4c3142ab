---------------------------- MODULE ContentList ----------------------------
(***************************************************************************)
(* The sector lists of files as they lie in inodes and content inodes      *)
(* (ccos_private.c): slots with end markers, links forth and back,         *)
(* fragment numbers and checksums.  Module FileSectors keeps the same      *)
(* lists as sequences.                                                     *)
(***************************************************************************)
EXTENDS SectorMap, Sequences, SequencesExt

CONSTANTS
  Files,        \* sectors of the files' inodes
  InodeMax,     \* slots of an inode
  ContMax,      \* slots of a content inode
  PristineSlot  \* a slot of a sector never erased since formatting

Invalid == 65535  \* CCOS_INVALID_BLOCK, CCOS_CONTENT_BLOCKS_END_MARKER

ASSUME ContentListAssumption ==
  /\ Files \subseteq Sector \ Reserved
  /\ InodeMax \in Nat \ {0}
  /\ ContMax \in Nat \ {0, 1}
  /\ PristineSlot \in 0 .. Invalid - 1

VARIABLES
  slots,     \* [Sector -> slots of the sector, if it is read as a list]
  next,      \* [Sector -> content_inode_info.block_next]
  prev,      \* [Sector -> content_inode_info.block_prev]
  fragment,  \* [Sector -> header.file_fragment_index]
  unsealed,  \* sectors changed after their checksums were last updated
  claimed,   \* <<file, sector>> of an addition that needs a content inode
  emptied,   \* the file whose last content inode is about to go, as a set
  stray      \* history: a content inode had sector numbers in it when linked

nodeVars == <<slots, next, prev, fragment, unsealed>>
callVars == <<claimed, emptied, stray>>
contVars == <<bitmapVars, nodeVars, callVars>>

(* An inode and what its links lead to.                                   *)
Along(links, f) ==
  LET node[k \in 0 .. NumSectors] == IF k = 0 THEN f ELSE links[node[k - 1]]
      last == CHOOSE k \in 0 .. NumSectors :
                /\ links[node[k]] = Invalid
                /\ \A j \in 0 .. k - 1 : links[node[j]] # Invalid
  IN  [k \in 1 .. last + 1 |-> node[k - 1]]

(* The inode and the content inodes of file f.                             *)
Nodes(f) == Along(next, f)

(* ccos_get_last_content_inode, or the inode if there is none.             *)
LastNode(f) == Last(Nodes(f))

(* The first slot with the end marker, or the one behind the last.         *)
EndOf(list) ==
  CHOOSE i \in 1 .. Len(list) + 1 :
    /\ i <= Len(list) => list[i] = Invalid
    /\ \A j \in 1 .. i - 1 : list[j] # Invalid

EndSlot(s) == EndOf(slots[s])

Listed(s) == SubSeq(slots[s], 1, EndSlot(s) - 1)

(* The slots that name a sector of the image.                              *)
InImage(list) ==
  LET kept[i \in 0 .. Len(list)] ==
        IF i = 0 THEN <<>>
        ELSE kept[i - 1] \o (IF list[i] \in Sector THEN <<list[i]>> ELSE <<>>)
  IN  kept[Len(list)]

(* Mutant of ListRead: a list ends at its end marker.                      *)
ListReadToMarker(f) ==
  LET nodes == Nodes(f)
  IN  FlattenSeq([k \in 1 .. Len(nodes) |-> InImage(Listed(nodes[k]))])

(* ccos_get_file_sectors: every slot that names a sector of the image.     *)
ListRead(f) ==
  LET nodes == Nodes(f)
  IN  FlattenSeq([k \in 1 .. Len(nodes) |-> InImage(slots[nodes[k]])])

(* Slot i of a list takes sector s, the next one the end marker.           *)
Listing(list, i, s) ==
  [j \in 1 .. Len(list) |-> IF j = i THEN s ELSE IF j = i + 1 THEN Invalid ELSE list[j]]

(* ccos_erase_sector zeroes the sector, its header becomes 0xFFFFFFFF.     *)
Zeroes == [i \in 1 .. ContMax |-> 0]

Wipe(s) ==
  /\ EraseSector(s)
  /\ prev' = [prev EXCEPT ![s] = 0]
  /\ fragment' = [fragment EXCEPT ![s] = Invalid]

(* Mutant of NextFragment: the slot's number.                              *)
NextFragmentBySlot(s) == EndSlot(s) - 1

(* The fragment number behind that of the last sector listed in s.         *)
NextFragment(s) ==
  IF EndSlot(s) = 1 THEN 0 ELSE (fragment[slots[s][EndSlot(s) - 1]] + 1) % CounterSpan

(* A full list has no end marker.                                          *)
HasSlot(s) == EndSlot(s) <= Len(slots[s])

Idle == claimed = <<>> /\ emptied = {}

(* ccos_add_sector_to_file: a sector is claimed, and listed if the last    *)
(* list has a slot left.                                                   *)
AddSector(f, s) ==
  LET last == LastNode(f)
  IN  /\ Idle
      /\ LowestFree(s)
      /\ MarkUsed(s)
      /\ fragment' = [fragment EXCEPT ![s] = NextFragment(last)]
      /\ IF HasSlot(last)
         THEN /\ slots' = [slots EXCEPT ![last] = Listing(@, EndSlot(last), s)]
              /\ unsealed' = unsealed \ {f, last}
              /\ UNCHANGED claimed
         ELSE /\ claimed' = <<f, s>>
              /\ UNCHANGED <<slots, unsealed>>
      /\ UNCHANGED <<next, prev, emptied, stray>>

(* Mutant of Linked: the new content inode points back to the inode.       *)
LinkedToFile(f, s, c) ==
  LET last == LastNode(f)
  IN  /\ next' = [next EXCEPT ![c] = Invalid, ![last] = c]
      /\ prev' = [prev EXCEPT ![c] = f]
      /\ fragment' = [fragment EXCEPT ![c] = fragment[last] + 1]
      /\ slots' = [slots EXCEPT ![c] = Listing(@, 1, s)]
      /\ unsealed' = unsealed \ {f, last, c}

(* ccos_add_content_inode and the listing of sector s: apart from two      *)
(* slots the list of c is what the sector happens to hold.                 *)
Linked(f, s, c) ==
  LET last == LastNode(f)
  IN  /\ next' = [next EXCEPT ![c] = Invalid, ![last] = c]
      /\ prev' = [prev EXCEPT ![c] = last]
      /\ fragment' = [fragment EXCEPT ![c] = fragment[last] + 1]
      /\ slots' = [slots EXCEPT ![c] = Listing(@, 1, s)]
      /\ unsealed' = unsealed \ {f, last, c}

AddNode(c) ==
  /\ claimed # <<>>
  /\ LowestFree(c)
  /\ MarkUsed(c)
  /\ Linked(claimed[1], claimed[2], c)
  /\ claimed' = <<>>
  /\ stray' = (stray \/ \E i \in 3 .. ContMax : slots[c][i] \in Sector)
  /\ UNCHANGED emptied

(* Mutant of AddNodeFails: the claimed sector stays marked.                *)
AddNodeFailsLeaving ==
  /\ claimed # <<>>
  /\ Available = {}
  /\ claimed' = <<>>
  /\ UNCHANGED <<bitmapVars, nodeVars, emptied, stray>>

(* ... or no sector is left for the content inode.                         *)
AddNodeFails ==
  /\ claimed # <<>>
  /\ Available = {}
  /\ Wipe(claimed[2])
  /\ slots' = [slots EXCEPT ![claimed[2]] = Zeroes]
  /\ next' = [next EXCEPT ![claimed[2]] = 0]
  /\ claimed' = <<>>
  /\ UNCHANGED <<unsealed, emptied, stray>>

(* ccos_remove_sector_from_file: last_content_block_index <= 1.            *)
EmptiesNode(f, last) == last # f /\ EndSlot(last) <= 2

(* ccos_remove_sector_from_file of a file that has a sector: the one in    *)
(* front of the end marker goes.                                           *)
RemoveSector(f) ==
  LET last == LastNode(f)
      i == EndSlot(last) - 1
  IN  /\ Idle
      /\ i > 0
      /\ Wipe(slots[last][i])
      /\ next' = [next EXCEPT ![slots[last][i]] = 0]
      /\ slots' = [slots EXCEPT ![slots[last][i]] = Zeroes, ![last][i] = Invalid]
      /\ IF EmptiesNode(f, last)
         THEN /\ emptied' = {f}
              /\ unsealed' = unsealed \cup {last}
         ELSE /\ unsealed' = unsealed \ {last}
              /\ UNCHANGED emptied
      /\ UNCHANGED <<claimed, stray>>

(* Mutant of RemoveNode: the checksums of the node before are not updated. *)
RemoveNodeUnsealed(f) ==
  LET nodes == Nodes(f)
      last == Last(nodes)
      before == nodes[Len(nodes) - 1]
  IN  /\ emptied = {f}
      /\ Wipe(last)
      /\ slots' = [slots EXCEPT ![last] = Zeroes]
      /\ next' = [next EXCEPT ![before] = Invalid, ![last] = 0]
      /\ unsealed' = (unsealed \ {last}) \cup {before}
      /\ emptied' = {}
      /\ UNCHANGED <<claimed, stray>>

(* ccos_remove_content_inode.                                              *)
RemoveNode(f) ==
  LET nodes == Nodes(f)
      last == Last(nodes)
      before == nodes[Len(nodes) - 1]
  IN  /\ emptied = {f}
      /\ Wipe(last)
      /\ slots' = [slots EXCEPT ![last] = Zeroes]
      /\ next' = [next EXCEPT ![before] = Invalid, ![last] = 0]
      /\ unsealed' = unsealed \ {last, before}
      /\ emptied' = {}
      /\ UNCHANGED <<claimed, stray>>

-----------------------------------------------------------------------------
(* Files as ccos_init_inode leaves them, on a formatted image.             *)

Init ==
  /\ used = Reserved \cup Files
  /\ allocated = Cardinality(used)
  /\ pristine = Sector \ used
  /\ slots = [s \in Sector |->
       IF s \notin Files THEN [i \in 1 .. ContMax |-> PristineSlot]
       ELSE [i \in 1 .. InodeMax |-> Invalid]]
  /\ next = [s \in Sector |-> IF s \in Files THEN Invalid ELSE PristineSlot]
  /\ prev = next
  /\ fragment = [s \in Sector |-> IF s \in Files THEN 0 ELSE PristineSlot]
  /\ unsealed = {}
  /\ claimed = <<>>
  /\ emptied = {}
  /\ stray = FALSE

Next ==
  \/ \E f \in Files, s \in Sector : AddSector(f, s)
  \/ \E c \in Sector : AddNode(c)
  \/ AddNodeFails
  \/ \E f \in Files : RemoveSector(f) \/ RemoveNode(f)

Spec == Init /\ [][Next]_contVars

-----------------------------------------------------------------------------

(* The sectors of a file, content inode by content inode.                  *)
DataOf(f) ==
  LET nodes == Nodes(f)
  IN  FlattenSeq([k \in 1 .. Len(nodes) |-> Listed(nodes[k])])

ChainOf(f) == Tail(Nodes(f))

TailOf(f) ==
  LET last == LastNode(f)
  IN  InImage(SubSeq(slots[last], EndSlot(last) + 1, Len(slots[last])))

DataMap == [f \in Sector |-> IF f \in Files THEN DataOf(f) ELSE <<>>]
ChainMap == [f \in Sector |-> IF f \in Files THEN ChainOf(f) ELSE <<>>]
TailMap == [f \in Sector |-> IF f \in Files THEN TailOf(f) ELSE <<>>]
Grabbed == IF claimed = <<>> THEN {} ELSE {claimed[2]}

List == INSTANCE SectorList WITH
  inodes <- Files,
  data <- DataMap,
  chain <- ChainMap,
  tail <- TailMap,
  grabbed <- Grabbed,
  stale <- stray

(* The slots, markers and links behave as the sequences that FileSectors,  *)
(* and with it Volume and its proofs, makes of them.                       *)
ImplementsSectorList == List!Spec

(* And ccos_get_file_sectors, which goes on behind end markers, reads what *)
(* FileSectors says it does.                                               *)
ReadsAsListed == \A f \in Files : ListRead(f) = List!FileSectorList(f)

(* The content inodes of a file are linked forth and back without a        *)
(* cycle, no two files share one, and each is one fragment behind the one  *)
(* before (ccos_add_content_inode, ccos_remove_content_inode).             *)
ChainSound ==
  \A f \in Files :
    LET nodes == Nodes(f)
    IN  /\ next[Last(nodes)] = Invalid
        /\ prev[f] = Invalid
        /\ \A k \in 2 .. Len(nodes) :
             /\ nodes[k] \in used
             /\ prev[nodes[k]] = nodes[k - 1]
             /\ fragment[nodes[k]] = k - 1
        /\ \A g \in Files \ {f} : ToSet(nodes) \cap ToSet(Nodes(g)) = {}

(* The data sectors of a file are numbered 0, 1, 2, ... in the order of    *)
(* its lists, across content inodes and after any shortening, although     *)
(* ccos_add_sector_to_file numbers a sector by the one in front of it.     *)
FragmentsInOrder ==
  \A f \in Files : \A k \in 1 .. Len(DataOf(f)) : fragment[DataOf(f)[k]] = k - 1

(* No call returns with a checksum of an inode or a content inode that is  *)
(* out of date, on the paths that fail neither.                            *)
SealedAtRest == Idle => \A f \in Files : ToSet(Nodes(f)) \cap unsealed = {}

=============================================================================
