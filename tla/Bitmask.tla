------------------------------ MODULE Bitmask ------------------------------
(***************************************************************************)
(* The allocation bitmap as it lies in the image (ccos_private.c): several *)
(* bitmask sectors with some of the bits each, and in each a counter that  *)
(* "all bitmasks should have" the same, and a checksum.  Module SectorMap  *)
(* makes one set and one counter of them.                                  *)
(***************************************************************************)
EXTENDS Integers, FiniteSets

CONSTANTS
  NumSectors,  \* sectors of the image
  BitmapId,    \* ccos_disk_bitmap: the first bitmask sector
  BitsPer,     \* bits of a bitmask sector        (4000 or 1984 in the code)
  MaxBitmasks, \* ccos_get_max_bitmask_blocks     (17 or 34)
  FileIds,     \* headers of images as they may be opened, [Sector -> file id]
  Drifts       \* by how much a counter may be too high in such an image

CounterSpan == 65536  \* ccos_bitmask_t.allocated is a uint16_t

Sector == 0 .. NumSectors - 1

ASSUME BitmaskAssumption ==
  /\ NumSectors \in Nat \ {0}
  /\ NumSectors < CounterSpan
  /\ BitmapId \in Sector
  /\ BitsPer \in Nat \ {0}
  /\ MaxBitmasks \in Nat \ {0}

ASSUME OpenedAssumption ==
  /\ FileIds \subseteq [Sector -> Nat]
  /\ \A h \in FileIds : h[BitmapId] = BitmapId

ASSUME DriftsAssumption == Drifts \subseteq Nat

VARIABLES
  fileId,   \* [Sector -> header.file_id]
  bits,     \* [Bitmasks -> bits that are set]
  counter,  \* [Bitmasks -> allocated]
  unsealed, \* bitmask sectors whose checksum is not that of their contents
  pristine  \* sectors never erased since the image was formatted

bitVars == <<fileId, bits, counter, unsealed, pristine>>

(* ccos_find_bitmask_sectors: those behind the first one, as long as their *)
(* headers name it.  The fragment numbers are not relied upon.             *)
Bitmasks ==
  {i \in 0 .. MaxBitmasks - 1 :
     \A j \in 0 .. i : BitmapId + j \in Sector /\ fileId[BitmapId + j] = BitmapId}

Capacity == Cardinality(Bitmasks) * BitsPer

(* validate_bitmask_list, which looks at the first counter only.           *)
ListValid == NumSectors <= Capacity /\ counter[0] <= NumSectors

(* The bitmask sector a bit is in, and its place there.                    *)
Index(s) == s \div BitsPer
Local(s) == s % BitsPer

(* is_bitmask_block_allocated.                                             *)
IsAllocated(s) == Local(s) \in bits[Index(s)]

FreeSectors == {s \in Sector : ~IsAllocated(s)}

(* Mutant of FirstFree: the last bit of a bitmask sector is left out.      *)
FirstFreeShort(s) ==
  LET usable == {t \in FreeSectors : Local(t) # BitsPer - 1}
  IN  ListValid /\ s \in usable /\ \A t \in usable : s <= t

(* ccos_get_free_sector returns s.                                         *)
FirstFree(s) == ListValid /\ s \in FreeSectors /\ \A t \in FreeSectors : s <= t

(* Mutants of Counted: only the counter beside the bit moves; only the     *)
(* checksum of the sector with the bit is updated.                         *)
CountedOnce(s, change) ==
  /\ counter' = [counter EXCEPT ![Index(s)] = (@ + change) % CounterSpan]
  /\ unsealed' = unsealed \ {Index(s)}

CountedUnsealed(s, change) ==
  /\ counter' = [i \in Bitmasks |-> (counter[i] + change) % CounterSpan]
  /\ unsealed' = (unsealed \cup Bitmasks) \ {Index(s)}

(* ccos_mark_sector: every counter moves with the bit, whatever it was,    *)
(* and every checksum is updated.                                          *)
Counted(s, change) ==
  /\ counter' = [i \in Bitmasks |-> (counter[i] + change) % CounterSpan]
  /\ unsealed' = unsealed \ Bitmasks

(* Mutant of Claim: the bit's place is that in the whole bitmap.           *)
ClaimWide(s) ==
  /\ FirstFree(s)
  /\ bits' = [bits EXCEPT ![Index(s)] = @ \cup {s}]
  /\ Counted(s, 1)
  /\ UNCHANGED <<fileId, pristine>>

(* ccos_mark_sector, mode 1, of the sector ccos_get_free_sector returned.  *)
Claim(s) ==
  /\ FirstFree(s)
  /\ bits' = [bits EXCEPT ![Index(s)] = @ \cup {Local(s)}]
  /\ Counted(s, 1)
  /\ UNCHANGED <<fileId, pristine>>

(* ccos_erase_sector of a sector in use: ccos_mark_sector, mode 0, which   *)
(* refuses a sector beyond the bits there are.                             *)
Release(s) ==
  /\ s < Capacity
  /\ IsAllocated(s)
  /\ bits' = [bits EXCEPT ![Index(s)] = @ \ {Local(s)}]
  /\ Counted(s, -1)
  /\ pristine' = pristine \ {s}
  /\ UNCHANGED fileId

-----------------------------------------------------------------------------

(* The sectors whose bits are set in bitmask sectors I with contents f.    *)
SectorsOf(f, I) == UNION {{i * BitsPer + b : b \in f[i]} : i \in I}

SetBits == SectorsOf(bits, Bitmasks)

(* An image as it may be opened: any sectors in use, counters that need    *)
(* not agree with them, nor with each other, checksums that may be wrong.  *)
Init ==
  /\ fileId \in FileIds
  /\ bits \in [Bitmasks -> SUBSET (0 .. BitsPer - 1)]
  /\ SetBits \subseteq Sector
  /\ \E d \in [Bitmasks -> Drifts] :
       counter = [i \in Bitmasks |-> Cardinality(SetBits) + d[i]]
  /\ counter \in [Bitmasks -> 0 .. CounterSpan - 1]
  /\ unsealed \in {{}, {0}}
  /\ pristine = Sector

Next == \E s \in Sector : Claim(s) \/ Release(s)

Spec == Init /\ [][Next]_bitVars

-----------------------------------------------------------------------------

TypeOK ==
  /\ fileId \in FileIds
  /\ bits \in [Bitmasks -> SUBSET (0 .. BitsPer - 1)]
  /\ counter \in [Bitmasks -> 0 .. CounterSpan - 1]
  /\ unsealed \subseteq Bitmasks
  /\ pristine \subseteq Sector

Agree == \A i, j \in Bitmasks : counter[i] = counter[j]

(* "all bitmasks should have same "allocated" value (?)" (ccos_private.c): *)
(* an image in which they do keeps it so, and one in which they do not is  *)
(* not made worse: the difference stays.                                   *)
CountersAgree == [][Agree => Agree']_bitVars

(* ccos_validate_disk_bitmap.                                              *)
Validates ==
  /\ ListValid
  /\ unsealed = {}
  /\ NumSectors - counter[0] = Cardinality(FreeSectors)

(* Whatever is claimed and released on a valid image, the image stays      *)
(* valid: the bits in all bitmask sectors, the first counter and all the   *)
(* checksums go together (ccos_validate_disk_bitmap, run by the tests      *)
(* after each change).                                                     *)
StaysValid == [][Validates => Validates']_bitVars

(* The bits of all bitmask sectors and the first counter behave as the set *)
(* and the counter of SectorMap; without enough bits nothing is claimed.   *)
Abstract == INSTANCE Allocation WITH
  Reserved <- {}, used <- SetBits, allocated <- counter[0]

ImplementsAllocation == Abstract!Spec
=============================================================================
