------------------------------ MODULE MCVolume ------------------------------
(* Small volumes for TLC: sector 0 is the boot sector, 1 the bitmask, 2 the *)
(* root directory and 3 its first sector; the rest is free.                *)
EXTENDS VolumeOwnership, VolumeInvariant

MCReserved == {0, 1}
MCNames == {"a", "b", "s"}
MCDirNames == {"s"}
MCEntrySize == [n \in MCNames \cup {"none"} |-> IF n = "b" THEN 3 ELSE 2]

(* In MCVolumeLive an entry may fill a sector: a directory that lost real   *)
(* sectors for stray entries then grows again in the write that follows.   *)
MCLongEntrySize == [MCEntrySize EXCEPT !["b"] = 4]

(* The bitmap is valid between calls (ccos_validate_disk_bitmap), whatever  *)
(* has happened before: what bitmap_test.c asserts after every call.       *)
BitmapValid == pc = "idle" => allocated = Cardinality(used)

(* MCVolumeLive stops where the first stray list entries were acted upon:   *)
(* what happens then is MCVolumeStale's subject.                           *)
Undamaged == ~damaged
=============================================================================
