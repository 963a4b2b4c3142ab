------------------------------- MODULE Format -------------------------------
(***************************************************************************)
(* Formatting a new image (ccos_format.c) and opening it again with the    *)
(* options of the command line tool.  The geometry is the code's own, with *)
(* its 16-bit arithmetic; the bitmap is a set of marks, because the image  *)
(* sizes are real ones: a bit is set when its sector is marked or lies in  *)
(* the tail the formatter fills with ones.                                 *)
(***************************************************************************)
EXTENDS Integers, FiniteSets

CONSTANT Requests  \* [format, bytes] a caller may ask for

ASSUME FormatAssumption ==
  Requests \subseteq
    [format : {"compass", "gridcase", "bubble"}, bytes : Nat \ {0}]

W16(n) == n % 65536

(* ccos_new_disk_image and the constants of ccos_structure.h.              *)
SectorSize(r) == IF r.format = "bubble" THEN 256 ELSE 512
SectorCount(r) == r.bytes \div SectorSize(r)
BitmaskBytes(r) == IF r.format = "bubble" THEN 248 ELSE 500

Superblock(r) ==
  IF r.format = "bubble" THEN 1022
  ELSE IF r.bytes < 10 * 1024 * 1024 THEN 289 ELSE 9248

(* calculate_bitmask_info keeps the number of sectors in 16 bits.          *)
RequiredBytes(r) == W16(SectorCount(r)) \div 8

(* Mutant of BitmaskCount: a bitmask sector only in part used is left out. *)
FullBitmaskCount(r) == RequiredBytes(r) \div BitmaskBytes(r)

BitmaskCount(r) == (RequiredBytes(r) + BitmaskBytes(r) - 1) \div BitmaskBytes(r)
Bitmask(r) == W16(Superblock(r) - BitmaskCount(r))

BootPages(r) == 512 \div SectorSize(r)  \* the boot sector, ...
CodePages(r) == 2048 \div SectorSize(r) \* ... then the boot code

(* Sectors the bitmask sectors of the image have a bit for.                *)
Capacity(r) == BitmaskCount(r) * BitmaskBytes(r) * 8

VARIABLES
  pc,        \* the step ccos_new_disk_image takes next
  req,       \* the request being served
  next,      \* index of the running loop
  marks,     \* sectors marked as used
  allocated, \* the counter
  result     \* "ok", an error, or "none" while it runs

vars == <<pc, req, next, marks, allocated, result>>

Init ==
  /\ pc = "idle" /\ req \in Requests /\ next = 0
  /\ marks = {} /\ allocated = 0 /\ result = "none"

(* ccos_mark_sector: a sector without a bit is reported and left alone.    *)
Mark(s) ==
  IF s < Capacity(req)
  THEN marks' = marks \cup {s} /\ allocated' = W16(allocated + 1)
  ELSE UNCHANGED <<marks, allocated>>

(* Mutant of WholeSectors: the number of sectors is not checked.           *)
WholeBlocks(r) == r.bytes % 512 = 0

WholeSectors(r) == r.bytes % 512 = 0 /\ SectorCount(r) % 8 = 0

FitsImage(r) == Superblock(r) < SectorCount(r) /\ Bitmask(r) < SectorCount(r)

(* ccos_disk_new.                                                          *)
OpensContext(r, superblock, bitmap) ==
  /\ superblock # 0 /\ bitmap # 0 /\ superblock # bitmap
  /\ superblock < SectorCount(r) /\ bitmap < SectorCount(r)

Finish(res) == pc' = "done" /\ result' = res

Refuse ==
  /\ pc = "idle"
  /\ ~(WholeSectors(req) /\ FitsImage(req))
  /\ Finish("invalid")
  /\ UNCHANGED <<req, next, marks, allocated>>

NoContext ==
  /\ pc = "idle"
  /\ WholeSectors(req) /\ FitsImage(req)
  /\ ~OpensContext(req, Superblock(req), Bitmask(req))
  /\ Finish("nomem")
  /\ UNCHANGED <<req, next, marks, allocated>>

(* init_bitmask, first loop: empty bitmask sectors, the tail filled.       *)
InitBitmask ==
  /\ pc = "idle"
  /\ WholeSectors(req) /\ FitsImage(req)
  /\ OpensContext(req, Superblock(req), Bitmask(req))
  /\ pc' = "bitmask"
  /\ UNCHANGED <<req, next, marks, allocated, result>>

(* Mutant of MarkBitmask: the last bitmask sector is not marked.           *)
MarkBitmaskShort ==
  /\ pc = "bitmask"
  /\ IF next < BitmaskCount(req) - 1
     THEN Mark(Bitmask(req) + next) /\ next' = next + 1 /\ UNCHANGED pc
     ELSE pc' = "root" /\ next' = 0 /\ UNCHANGED <<marks, allocated>>
  /\ UNCHANGED <<req, result>>

MarkBitmask ==
  /\ pc = "bitmask"
  /\ IF next < BitmaskCount(req)
     THEN Mark(Bitmask(req) + next) /\ next' = next + 1 /\ UNCHANGED pc
     ELSE pc' = "root" /\ next' = 0 /\ UNCHANGED <<marks, allocated>>
  /\ UNCHANGED <<req, result>>

(* write_superblock: the root directory's inode, then its only sector.     *)
WriteSuperblock ==
  /\ pc = "root"
  /\ Mark(Superblock(req) + next)
  /\ IF next = 0 THEN next' = 1 /\ UNCHANGED pc
     ELSE next' = 0 /\ pc' = "boot"
  /\ UNCHANGED <<req, result>>

WriteBootSector ==
  /\ pc = "boot"
  /\ IF next < BootPages(req)
     THEN Mark(next) /\ next' = next + 1 /\ UNCHANGED pc
     ELSE pc' = "code" /\ next' = 0 /\ UNCHANGED <<marks, allocated>>
  /\ UNCHANGED <<req, result>>

WriteBootCode ==
  /\ pc = "code"
  /\ IF next < CodePages(req)
     THEN /\ Mark(BootPages(req) + next) /\ next' = next + 1
          /\ UNCHANGED <<pc, result>>
     ELSE /\ Finish("ok") /\ next' = 0
          /\ UNCHANGED <<marks, allocated>>
  /\ UNCHANGED req

Next ==
  \/ Refuse \/ NoContext \/ InitBitmask \/ MarkBitmask \/ WriteSuperblock
  \/ WriteBootSector \/ WriteBootCode

Spec == Init /\ [][Next]_vars
-----------------------------------------------------------------------------
RootSectors(r) == {Superblock(r), Superblock(r) + 1}

BitmaskSectors(r) == Bitmask(r) .. Bitmask(r) + BitmaskCount(r) - 1
SystemSectors(r) == 0 .. BootPages(r) + CodePages(r) - 1 \cup BitmaskSectors(r)

(* Every sector has a number of 16 bits.  The formatter does not ask for   *)
(* it: of a larger image it takes the number of sectors modulo 2^16.       *)
Numbered(r) == SectorCount(r) < 65536

(* A formatted image is where Volume starts: exactly the boot and bitmask  *)
(* sectors and the root directory's two are marked, each of them once, and *)
(* they do not overlap.                                                    *)
StartsVolume ==
  result = "ok" /\ Numbered(req) =>
    /\ marks = SystemSectors(req) \cup RootSectors(req)
    /\ SystemSectors(req) \cap RootSectors(req) = {}
    /\ allocated = Cardinality(marks)

(* The root directory's only sector is in the image.  The code checks only *)
(* the superblock itself; that the number of sectors is a multiple of 8    *)
(* has to do the rest.                                                     *)
RootInside == result = "ok" => Superblock(req) + 1 < SectorCount(req)

(* A fresh image has a valid bitmap (ccos_validate_disk_bitmap): there is  *)
(* a bit for every sector, the filled tail begins where the image ends,    *)
(* and the counter is the number of bits set in the image.                 *)
FreshBitmapValid ==
  result = "ok" /\ Numbered(req) =>
    /\ Capacity(req) >= SectorCount(req)
    /\ RequiredBytes(req) * 8 = SectorCount(req)
    /\ allocated = Cardinality(marks)
=============================================================================
