------------------------ MODULE ContentListInvariant ------------------------
(***************************************************************************)
(* The inductive invariant behind the properties of ContentList: how the   *)
(* nodes of a file hang together and what their slots hold.                *)
(***************************************************************************)
EXTENDS ContentList

Slot == 0 .. Invalid

SlotsIn(s) == IF s \in Files THEN InodeMax ELSE ContMax

TypeOK ==
  /\ BitmapType
  /\ slots \in [Sector -> Seq(Slot)]
  /\ \A s \in Sector : Len(slots[s]) = SlotsIn(s)
  /\ next \in [Sector -> Slot] /\ prev \in [Sector -> Slot]
  /\ fragment \in [Sector -> Int]
  /\ unsealed \subseteq Sector
  /\ claimed = <<>> \/ claimed \in Files \X Sector
  /\ emptied = {} \/ \E f \in Files : emptied = {f}
  /\ stray \in BOOLEAN

(* The links lead along nodes and end behind them.                         *)
Path(links, f, nodes) ==
  /\ nodes \in Seq(Sector) /\ nodes # <<>> /\ nodes[1] = f
  /\ \A k \in 1 .. Len(nodes) :
       links[nodes[k]] = IF k < Len(nodes) THEN nodes[k + 1] ELSE Invalid

Threaded(f) ==
  LET nodes == Nodes(f)
  IN  /\ Path(next, f, nodes)
      /\ prev[f] = Invalid /\ fragment[f] = 0
      /\ \A k \in 2 .. Len(nodes) : /\ prev[nodes[k]] = nodes[k - 1]
                                    /\ fragment[nodes[k]] = k - 1

(* A node's slots name sectors up to its marker; all but the last node are *)
(* full, and the last content inode is empty only until it is removed.     *)
Filled(f) ==
  LET nodes == Nodes(f)
  IN  /\ \A k \in 1 .. Len(nodes) :
           /\ Listed(nodes[k]) \in Seq(Sector)
           /\ k < Len(nodes) => ~HasSlot(nodes[k])
      /\ Len(nodes) > 1 => (EndSlot(Last(nodes)) = 1 <=> f \in emptied)
      /\ f \in emptied => Len(nodes) > 1

(* The sectors in front of node k.                                         *)
Before(k) == IF k = 1 THEN 0 ELSE InodeMax + ContMax * (k - 2)

Counted(f) ==
  /\ DataOf(f) \in Seq(Sector)
  /\ Len(DataOf(f)) = Before(Len(Nodes(f))) + EndSlot(LastNode(f)) - 1

(* Behind the marker there are markers, then what the sector held.         *)
Behind(f) ==
  \E m \in Nat, v \in Slot :
    /\ LastNode(f) = f => v = Invalid
    /\ \A j \in EndSlot(LastNode(f)) + 1 .. Len(slots[LastNode(f)]) :
         slots[LastNode(f)][j] = IF j <= m THEN Invalid ELSE v

(* A sector is one node, or one sector of data, of one file.               *)
Apart(f) ==
  /\ IsInjective(Nodes(f)) /\ IsInjective(DataOf(f))
  /\ ToSet(Nodes(f)) \cap ToSet(DataOf(f)) = {}
  /\ ToSet(Nodes(f)) \cup ToSet(DataOf(f)) \subseteq used

Held(f) == ToSet(Nodes(f)) \cup ToSet(DataOf(f))

Numbers(f) == \A k \in 1 .. Len(DataOf(f)) : fragment[DataOf(f)[k]] = k - 1

(* The sector claimed for a new content inode is nobody's yet.             *)
Claim ==
  \A f \in Files : \A s \in Sector : claimed = <<f, s>> =>
    /\ emptied = {}
    /\ ~HasSlot(LastNode(f))
    /\ s \in used
    /\ \A g \in Files : s \notin Held(g)
    /\ fragment[s] = Len(DataOf(f))

(* What is free was never written, or erased.                              *)
Blank ==
  \A c \in Sector \ used :
    slots[c] = [i \in 1 .. ContMax |-> IF c \in pristine THEN PristineSlot ELSE 0]

Sealed == \A s \in unsealed : \E f \in emptied : s = LastNode(f)

Whole(f) ==
  /\ Threaded(f) /\ Filled(f) /\ Counted(f) /\ Behind(f)
  /\ Apart(f) /\ Numbers(f)

Inductive ==
  /\ TypeOK
  /\ \A f \in Files : Whole(f)
  /\ \A f, g \in Files : f # g => Held(f) \cap Held(g) = {}
  /\ Claim /\ Blank /\ Sealed
=============================================================================
