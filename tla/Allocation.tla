----------------------------- MODULE Allocation -----------------------------
(***************************************************************************)
(* What the bitmap promises: the lowest free sector is handed out, and     *)
(* comes back when it is erased.                                           *)
(***************************************************************************)
EXTENDS SectorMap

Claim(s) == LowestFree(s) /\ MarkUsed(s)
Release(s) == s \in used /\ EraseSector(s)

Init ==
  /\ BitmapType
  /\ allocated >= Cardinality(used)

Next == \E s \in Sector : Claim(s) \/ Release(s)

Spec == Init /\ [][Next]_bitmapVars
=============================================================================
