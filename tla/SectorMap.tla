----------------------------- MODULE SectorMap -----------------------------
(***************************************************************************)
(* The allocation bitmap of a CCOS volume (ccos_private.c): one bit and    *)
(* one shared "allocated" counter, changed only by ccos_mark_sector.  The  *)
(* module also remembers which sectors still hold the pattern written by   *)
(* the formatter, because nothing clears a sector when it is claimed.      *)
(***************************************************************************)
EXTENDS Integers, FiniteSets

CONSTANTS
  NumSectors, \* sectors of the image
  Reserved    \* boot and bitmask sectors, marked by the formatter for good

CounterSpan == 65536  \* ccos_bitmask_t.allocated is a uint16_t

Sector == 0 .. NumSectors - 1

(* Sector numbers are uint16_t and 0xFFFF is CCOS_INVALID_BLOCK.           *)
ASSUME SectorMapAssumption ==
  /\ NumSectors \in Nat \ {0}
  /\ NumSectors < CounterSpan
  /\ Reserved \subseteq Sector

VARIABLES
  used,      \* sectors whose bit is set
  allocated, \* the counter kept beside the bits
  pristine   \* sectors never erased since the image was formatted

bitmapVars == <<used, allocated, pristine>>

Free == Sector \ used

(* validate_bitmask_list refuses a counter beyond the size of the image:   *)
(* ccos_get_free_sector then finds nothing.                                *)
Available == IF allocated > NumSectors THEN {} ELSE Free

(* ccos_get_free_sector scans the bits from sector 0 upwards.              *)
LowestFree(s) ==
  /\ s \in Available
  /\ \A t \in Available : s <= t

(* ccos_mark_sector, mode 1: the counter moves whatever the bit was.       *)
MarkUsed(s) ==
  /\ used' = used \cup {s}
  /\ allocated' = (allocated + 1) % CounterSpan
  /\ UNCHANGED pristine

(* ccos_erase_sector: zero the sector, then ccos_mark_sector, mode 0.      *)
EraseSector(s) ==
  /\ used' = used \ {s}
  /\ allocated' = (allocated - 1) % CounterSpan
  /\ pristine' = pristine \ {s}

BitmapType ==
  /\ used \subseteq Sector
  /\ allocated \in 0 .. CounterSpan - 1
  /\ pristine \subseteq Sector

=============================================================================
