-------------------------- MODULE SectorOwnership --------------------------
(***************************************************************************)
(* What the library promises about sectors, without lists, bitmaps or      *)
(* calls: a sector is reserved, free, or belongs to one file; a file is    *)
(* known by its first sector, which it takes before and gives up after all *)
(* its others.  Sectors change hands one at a time, and only through the   *)
(* free pool.                                                              *)
(***************************************************************************)
EXTENDS Integers

CONSTANTS Sector, Reserved, Root

Nobody == -1
System == -2

VARIABLES
  owner, \* [Sector -> Sector \cup {Nobody, System}]
  pool   \* the sectors the bitmap shows as free

IsFile(f) == owner[f] = f

Init ==
  /\ owner = [s \in Sector |-> IF s \in Reserved THEN System
                               ELSE IF s \in {Root, Root + 1} THEN Root
                               ELSE Nobody]
  /\ pool = Sector \ (Reserved \cup {Root, Root + 1})

Take(s, f) ==
  /\ s \in pool /\ owner[s] = Nobody
  /\ s = f \/ IsFile(f)
  /\ owner' = [owner EXCEPT ![s] = f]
  /\ pool' = pool \ {s}

GiveUp(s) ==
  /\ s \notin pool /\ owner[s] \in Sector
  /\ owner[s] = s => \A t \in Sector \ {s} : owner[t] # s
  /\ owner' = [owner EXCEPT ![s] = Nobody]
  /\ pool' = pool \cup {s}

Next ==
  \/ \E s, f \in Sector : Take(s, f)
  \/ \E s \in Sector : GiveUp(s)

Spec == Init /\ [][Next]_<<owner, pool>>
=============================================================================
