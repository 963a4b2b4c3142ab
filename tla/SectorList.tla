---------------------------- MODULE SectorList ----------------------------
(***************************************************************************)
(* The calls that lengthen and shorten files, with the steps FileSectors   *)
(* gives them: what ContentList, with its slots and links, implements.     *)
(***************************************************************************)
EXTENDS FileSectors

CONSTANT Files  \* their inodes' sectors

vars == <<bitmapVars, listVars>>

(* The last sector of a content inode is gone, the content inode not yet.  *)
Emptied(f) == chain[f] # <<>> /\ LastCount(f) = 0

Idle == grabbed = {} /\ \A f \in Files : ~Emptied(f)

(* ccos_add_sector_to_file.                                                *)
Append1(f, s) == LowestFree(s) /\ Idle /\ ~LastListFull(f) /\ AppendSector(f, s)
Grab(f, s) == LowestFree(s) /\ Idle /\ LastListFull(f) /\ GrabSector(s)
Grow(f, s, c) == s \in grabbed /\ LowestFree(c) /\ LastListFull(f) /\ AddContentInode(f, s, c)
Drop(s) == s \in grabbed /\ Available = {} /\ DropGrabbed(s)

(* ccos_remove_sector_from_file.                                           *)
Remove1(f) == Idle /\ data[f] # <<>> /\ RemoveLastSector(f)
Shrink(f) == Emptied(f) /\ RemoveContentInode(f)

Init ==
  /\ used = Reserved \cup Files
  /\ allocated = Cardinality(used)
  /\ pristine = Sector \ used
  /\ inodes = Files
  /\ data = [f \in Sector |-> <<>>]
  /\ chain = [f \in Sector |-> <<>>]
  /\ tail = [f \in Sector |-> <<>>]
  /\ grabbed = {}
  /\ stale = FALSE

Next ==
  \/ \E f \in Files, s \in Sector : Append1(f, s) \/ Grab(f, s)
  \/ \E f \in Files, s, c \in Sector : Grow(f, s, c)
  \/ \E s \in Sector : Drop(s)
  \/ \E f \in Files : Remove1(f) \/ Shrink(f)

Spec == Init /\ [][Next]_vars
=============================================================================
