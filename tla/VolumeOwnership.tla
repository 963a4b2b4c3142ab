-------------------------- MODULE VolumeOwnership --------------------------
(* The calls of Volume implement SectorOwnership: the lists of the files   *)
(* give the owners, the bitmap gives the pool.                             *)
EXTENDS Volume

OwnerOf(s) ==
  IF s \in Reserved THEN -2
  ELSE IF s \in SeqElems(doomed) THEN cur
  ELSE IF s \in grabbed THEN target
  ELSE IF \E f \in inodes : s \in Owned(f)
  THEN CHOOSE f \in inodes : s \in Owned(f)
  ELSE -1

Ownership == INSTANCE SectorOwnership
  WITH owner <- [s \in Sector |-> OwnerOf(s)], pool <- Free

(* Each step of each call moves at most one sector between a file and the  *)
(* free pool, lists and bitmap together; a file's inode is the first       *)
(* sector it takes and the last it gives up.                               *)
ImplementsOwnership == Ownership!Spec
=============================================================================
