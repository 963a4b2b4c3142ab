----------------------------- MODULE DumpProofs -----------------------------
(***************************************************************************)
(* Proofs about Dump, for every tree of files and all names: what a dump   *)
(* writes, and that it writes everything.                                  *)
(***************************************************************************)
EXTENDS DumpInvariant, SequenceTheorems, WellFoundedInduction, TLAPS

LEMMA Numbers == MaxFiles \in Nat \ {0} /\ Ids \subseteq Nat \ {Root} /\ Root = 0
BY DumpAssumption DEF Ids, Root

-----------------------------------------------------------------------------
(***************************************************************************)
(* Places on the host.                                                     *)
(***************************************************************************)

LEMMA LeastNat ==
  ASSUME NEW T \in SUBSET Nat, T # {}
  PROVE  \E n \in T : \A m \in T : n <= m
<1>1. PICK n \in T : \A m \in T : <<m, n>> \notin OpToRel(<, Nat)
  BY WFMin, NatLessThanWellFounded
<1>2. \A m \in T : ~(m < n)
  BY <1>1 DEF OpToRel
<1> QED BY <1>2

(* What holds of a file if it holds of those before it holds of all.       *)
LEMMA AllFiles ==
  ASSUME NEW Good, \A f \in 0 .. MaxFiles : (\A g \in 0 .. f - 1 : g \in Good) => f \in Good
  PROVE  \A f \in 0 .. MaxFiles : f \in Good
<1> SUFFICES ASSUME NEW f \in 0 .. MaxFiles, f \notin Good PROVE FALSE
  OBVIOUS
<1> DEFINE T == {n \in 0 .. MaxFiles : n \notin Good}
<1>1. T \in SUBSET Nat /\ T # {}
  BY Numbers
<1>2. PICK n \in T : \A m \in T : n <= m
  BY <1>1, LeastNat
<1>3. n \in 0 .. MaxFiles /\ \A g \in 0 .. n - 1 : g \in Good
  BY <1>2, Numbers
<1> QED BY <1>2, <1>3

(* Files come behind their directories, so each one has a path.            *)
Leads(names, tree, n, h) ==
  h = [g \in 1 .. n |->
         Append(IF tree[g] = Root THEN <<Top>> ELSE h[tree[g]], names[g].host)]

LEMMA PathsExist ==
  ASSUME NEW names, NEW tree \in [Ids -> {Root} \cup Ids], \A f \in Ids : tree[f] < f
  PROVE  \E h : Leads(names, tree, MaxFiles, h)
<1> DEFINE Good == {n \in 0 .. MaxFiles : \E h : Leads(names, tree, n, h)}
<1>1. 0 \in Good
  <2>1. \E h : h = [g \in 1 .. 0 |-> 0]
    OBVIOUS
  <2>2. PICK h : h = [g \in 1 .. 0 |-> 0]
    BY <2>1
  <2>3. Leads(names, tree, 0, h)
    BY <2>2 DEF Leads
  <2> QED BY <2>3, Numbers
<1>2. ASSUME NEW n \in 1 .. MaxFiles, n - 1 \in Good
      PROVE  n \in Good
  <2>1. PICK h : Leads(names, tree, n - 1, h)
    BY <1>2
  <2>2. /\ DOMAIN h = 1 .. n - 1
        /\ \A g \in 1 .. n - 1 :
             h[g] = Append(IF tree[g] = Root THEN <<Top>> ELSE h[tree[g]], names[g].host)
    BY <2>1 DEF Leads
  <2>3. \A g \in 1 .. n : g \in Ids /\ (tree[g] = Root \/ tree[g] \in 1 .. n - 1)
                                    /\ tree[g] # g
    BY Numbers DEF Ids
  <2> DEFINE new == Append(IF tree[n] = Root THEN <<Top>> ELSE h[tree[n]], names[n].host)
             more == [g \in 1 .. n |-> IF g = n THEN new ELSE h[g]]
  <2>4. \A g \in 1 .. n :
          more[g] = Append(IF tree[g] = Root THEN <<Top>> ELSE more[tree[g]], names[g].host)
    <3> SUFFICES ASSUME NEW g \in 1 .. n
                 PROVE  more[g] = Append(IF tree[g] = Root THEN <<Top>> ELSE more[tree[g]],
                                         names[g].host)
      OBVIOUS
    <3>1. tree[g] # Root => tree[g] \in 1 .. n - 1 /\ tree[g] # n /\ tree[g] \in 1 .. n
      BY <2>3
    <3>2. tree[g] # Root => more[tree[g]] = h[tree[g]]
      BY <3>1
    <3>3. CASE g = n
      BY <3>2, <3>3
    <3>4. CASE g # n
      <4>1. g \in 1 .. n - 1 /\ more[g] = h[g]
        BY <3>4
      <4> HIDE DEF more
      <4> QED BY <2>2, <3>2, <4>1
    <3> QED BY <3>3, <3>4
  <2>5. Leads(names, tree, n, more)
    <3> HIDE DEF more
    <3>1. more = [g \in 1 .. n |-> more[g]]
      BY DEF more
    <3> QED BY <2>4, <3>1 DEF Leads
  <2>6. \E g : Leads(names, tree, n, g)
    <3> HIDE DEF more
    <3> QED BY <2>5
  <2> QED BY <2>6
<1> HIDE DEF Good
<1>3. \A f \in 0 .. MaxFiles : (\A g \in 0 .. f - 1 : g \in Good) => f \in Good
  <2> SUFFICES ASSUME NEW f \in 0 .. MaxFiles, \A g \in 0 .. f - 1 : g \in Good
               PROVE  f \in Good
    OBVIOUS
  <2>1. CASE f = 0
    BY <1>1, <2>1
  <2>2. CASE f # 0
    <3>1. f \in 1 .. MaxFiles /\ f - 1 \in 0 .. f - 1
      BY <2>2
    <3> QED BY <1>2, <3>1
  <2> QED BY <2>1, <2>2
<1>4. MaxFiles \in Good
  BY <1>3, AllFiles, Numbers
<1> QED BY <1>4 DEF Good

LEMMA PlaceIs ==
  ASSUME Tree, NEW f \in Ids
  PROVE  PathOf(f) = Append(Place(parent[f]), name[f].host)
<1> DEFINE paths == Paths(name, parent)
<1>1. paths = CHOOSE h : Leads(name, parent, MaxFiles, h)
  BY DEF Paths, Leads, Ids
<1>2. \E h : Leads(name, parent, MaxFiles, h)
  BY PathsExist DEF Tree
<1>3. Leads(name, parent, MaxFiles, paths)
  BY <1>1, <1>2
<1> HIDE DEF paths
<1>4. paths[f] = Append(IF parent[f] = Root THEN <<Top>> ELSE paths[parent[f]], name[f].host)
  BY <1>3 DEF Leads, Ids
<1>5. \A d : PathOf(d) = paths[d]
  BY DEF paths, PathOf
<1> QED BY <1>4, <1>5 DEF Place

LEMMA PlaceType ==
  ASSUME Tree
  PROVE  \A d \in {Root} \cup Ids :
           /\ Place(d) \in Seq(HostNames) /\ Place(d) # <<>>
           /\ d # Root => Place(d) # Place(Root)
<1> DEFINE Good == {d \in 0 .. MaxFiles :
                      /\ Place(d) \in Seq(HostNames) /\ Place(d) # <<>>
                      /\ d # Root => Place(d) # Place(Root)}
<1>1. \A f \in 0 .. MaxFiles : (\A g \in 0 .. f - 1 : g \in Good) => f \in Good
  <2> SUFFICES ASSUME NEW f \in 0 .. MaxFiles, \A g \in 0 .. f - 1 : g \in Good
               PROVE  f \in Good
    OBVIOUS
  <2>1. CASE f = Root
    <3>1. Top \in HostNames
      BY DEF HostNames
    <3>2. <<Top>> \in Seq(HostNames) /\ <<Top>> # <<>>
      BY <3>1
    <3> QED BY <2>1, <3>2 DEF Place
  <2>2. CASE f # Root
    <3>1. f \in Ids
      BY <2>2, Numbers DEF Ids
    <3>2. parent[f] \in 0 .. f - 1
      BY <3>1, Numbers DEF Tree, Ids
    <3>3. PICK above \in Seq(HostNames) : above = Place(parent[f]) /\ above # <<>>
      BY <3>2
    <3>4. name[f].host \in HostNames
      BY <3>1 DEF Tree, HostNames
    <3>5. Place(f) = Append(above, name[f].host)
      BY <2>2, <3>1, <3>3, PlaceIs DEF Place
    <3>6. /\ Append(above, name[f].host) \in Seq(HostNames)
          /\ Append(above, name[f].host) # <<>>
          /\ Len(Append(above, name[f].host)) > 1
      BY <3>3, <3>4
    <3>7. Place(Root) = <<Top>> /\ Len(<<Top>>) = 1
      BY DEF Place
    <3>8. Append(above, name[f].host) # <<Top>>
      <4> SUFFICES ASSUME Append(above, name[f].host) = <<Top>> PROVE FALSE
        OBVIOUS
      <4>1. Len(Append(above, name[f].host)) = 1
        BY <3>7
      <4>2. PICK l \in Nat : l = Len(Append(above, name[f].host)) /\ l > 1
        BY <3>6
      <4> QED BY <4>1, <4>2
    <3> QED BY <3>5, <3>6, <3>7, <3>8
  <2> QED BY <2>1, <2>2
<1> HIDE DEF Good
<1>2. \A f \in 0 .. MaxFiles : f \in Good
  BY <1>1, AllFiles
<1>3. {Root} \cup Ids \subseteq 0 .. MaxFiles
  BY Numbers DEF Ids
<1> QED BY <1>2, <1>3 DEF Good

(* No two files have the same path.                                        *)
LEMMA PlacesDiffer ==
  ASSUME Tree, Plain
  PROVE  \A f, g \in {Root} \cup Ids : Place(f) = Place(g) => f = g
<1> DEFINE Good == {f \in 0 .. MaxFiles :
                      \A g \in {Root} \cup Ids : Place(f) = Place(g) => f = g}
<1>1. \A f \in 0 .. MaxFiles : (\A g \in 0 .. f - 1 : g \in Good) => f \in Good
  <2> SUFFICES ASSUME NEW f \in 0 .. MaxFiles, \A h \in 0 .. f - 1 : h \in Good,
                      NEW g \in {Root} \cup Ids, Place(f) = Place(g)
               PROVE  f = g
    OBVIOUS
  <2>1. f \in {Root} \cup Ids
    BY Numbers DEF Ids
  <2>2. \A d \in {Root} \cup Ids : d # Root => Place(d) # Place(Root)
    BY PlaceType
  <2>3. f = Root <=> g = Root
    BY <2>1, <2>2
  <2>4. CASE f \in Ids /\ g \in Ids
    <3>1. /\ Place(f) = Append(Place(parent[f]), name[f].host)
          /\ Place(g) = Append(Place(parent[g]), name[g].host)
      BY <2>4, PlaceIs, Numbers DEF Place
    <3>2. parent[f] \in 0 .. f - 1 /\ parent[f] \in {Root} \cup Ids
          /\ parent[g] \in {Root} \cup Ids
      BY <2>4, Numbers DEF Tree, Ids
    <3>3. PICK a \in Seq(HostNames), b \in Seq(HostNames) :
            a = Place(parent[f]) /\ b = Place(parent[g])
      BY <3>2, PlaceType
    <3>4. a = b /\ name[f].host = name[g].host
      <4>1. name[f].host \in HostNames /\ name[g].host \in HostNames
        BY <2>4 DEF Tree, HostNames
      <4>2. Append(a, name[f].host) = Append(b, name[g].host)
        BY <3>1, <3>3
      <4> QED BY <4>1, <4>2, AppendInjective
    <3>5. parent[f] = parent[g]
      BY <3>2, <3>3, <3>4
    <3> QED BY <2>4, <3>4, <3>5 DEF Plain
  <2> QED BY <2>1, <2>3, <2>4
<1> HIDE DEF Good
<1>2. \A f \in 0 .. MaxFiles : f \in Good
  BY <1>1, AllFiles
<1>3. {Root} \cup Ids \subseteq 0 .. MaxFiles
  BY Numbers DEF Ids
<1> QED BY <1>2, <1>3 DEF Good

(* What lies at a file's path is the file, whole or torn, and nothing lies *)
(* there that is a directory and should be a file.                         *)
LEMMA OnHost ==
  ASSUME Tree, Plain, NothingElseDumped, NEW f \in Ids, NEW x \in files, x.path = PathOf(f)
  PROVE  (IsDir(f) => x = Copy(f)) /\ (~IsDir(f) => x.is # Root)
<1>1. CASE x = [path |-> <<Top>>, is |-> Root]
  <2>1. Place(f) = Place(Root) /\ f # Root
    BY <1>1, Numbers DEF Place
  <2> QED BY <2>1, PlacesDiffer
<1>2. CASE \E g \in Ids : x = [path |-> PathOf(g), is |-> IF IsDir(g) THEN Root ELSE Torn]
  <2>1. PICK g \in Ids : x = [path |-> PathOf(g), is |-> IF IsDir(g) THEN Root ELSE Torn]
    BY <1>2
  <2>2. Place(g) = Place(f)
    BY <2>1, Numbers DEF Place
  <2>3. g = f
    BY <2>2, PlacesDiffer
  <2> QED BY <2>1, <2>3 DEF Copy, Torn, Root
<1>3. CASE \E g \in Ids : x = Copy(g)
  <2>1. PICK g \in Ids : x = Copy(g)
    BY <1>3
  <2>2. Place(g) = Place(f)
    BY <2>1, Numbers DEF Place, Copy
  <2>3. g = f
    BY <2>2, PlacesDiffer
  <2> QED BY <2>1, <2>3, Numbers DEF Copy
<1>4. CASE x \in Remains
  <2>1. CASE \E g \in Ids : x = [Copy(g) EXCEPT !.is = IF IsDir(g) THEN Root ELSE Torn]
    BY <1>2, <2>1 DEF Copy
  <2> QED BY <1>1, <1>4, <2>1 DEF Remains
<1>5. x \in Remains \/ x \in {Copy(g) : g \in Ids}
  BY DEF NothingElseDumped
<1> QED BY <1>3, <1>4, <1>5

-----------------------------------------------------------------------------
(***************************************************************************)
(* The frames of the traversal.                                            *)
(***************************************************************************)

(* A dump leaves the image alone.                                          *)
LEMMA SameImage ==
  ASSUME name' = name, parent' = parent
  PROVE  /\ Tree' <=> Tree
         /\ Plain' <=> Plain
         /\ \A f : /\ IsDir(f)' <=> IsDir(f)
                   /\ Place(f)' = Place(f)
                   /\ Copy(f)' = Copy(f)
         /\ Remains' = Remains
<1>1. /\ \A f : PathOf(f)' = PathOf(f)
      /\ \A f : IsDir(f)' <=> IsDir(f)
  BY DEF PathOf, IsDir
<1>2. \A f : Copy(f)' = Copy(f)
  BY <1>1 DEF Copy
<1>3. Tree' <=> Tree
  BY DEF Tree, IsDir
<1>4. Plain' <=> Plain
  BY DEF Plain, IsDir
<1>5. \A f : Place(f)' = Place(f)
  BY <1>1 DEF Place
<1>6. Remains' = Remains
  BY DEF Remains, Copy, PathOf, IsDir
<1> QED BY <1>1, <1>2, <1>3, <1>4, <1>5, <1>6

LEMMA Innermost ==
  ASSUME Tree, Placed, stack # <<>>
  PROVE  /\ Len(stack) \in Nat \ {0} /\ 1 \in 1 .. Len(stack)
         /\ stack[1] \in Frames /\ IsDir(Dir)
         /\ Dir \in {Root} \cup Ids /\ stack[1].seen \in {Root} \cup Ids
         /\ Path = Place(Dir) /\ Path \in Seq(HostNames) /\ Path # <<>>
<1>1. Len(stack) \in Nat \ {0}
  BY DEF Placed
<1>2. 1 \in 1 .. Len(stack) /\ stack[1] \in Frames
  BY <1>1 DEF Placed
<1>3. IsDir(Dir) /\ Path = Place(Dir)
  BY <1>2 DEF Placed, Dir, Path
<1>4. Dir \in {Root} \cup Ids /\ stack[1].seen \in {Root} \cup Ids
  BY <1>2 DEF Frames, Dir
<1> QED BY <1>1, <1>2, <1>3, <1>4, PlaceType

(* The next entry's path, as dump_dir_tree_on_file and ..._on_dir make it. *)
LEMMA Target ==
  ASSUME Tree, Placed, NEW f \in Ids, Upcoming(f)
  PROVE  /\ stack # <<>> /\ parent[f] = Dir /\ f > stack[1].seen
         /\ \A g \in Ids : parent[g] = Dir /\ g > stack[1].seen => f <= g
         /\ Append(Path, name[f].host) = PathOf(f) /\ PathOf(f) # <<>>
         /\ Front(PathOf(f)) = Path /\ Place(f) = PathOf(f)
<1>1. stack # <<>> /\ f \in Pending /\ \A g \in Pending : f <= g
  BY DEF Upcoming
<1>2. /\ parent[f] = Dir /\ f > stack[1].seen
      /\ \A g \in Ids : parent[g] = Dir /\ g > stack[1].seen => f <= g
  BY <1>1 DEF Pending, Entries
<1>3. PICK above \in Seq(HostNames) : above = Path /\ above = Place(Dir)
  BY <1>1, Innermost
<1>4. name[f].host \in HostNames
  BY DEF Tree, HostNames
<1>5. PathOf(f) = Append(above, name[f].host)
  BY <1>2, <1>3, PlaceIs
<1>6. /\ Append(above, name[f].host) # <<>>
      /\ SubSeq(Append(above, name[f].host), 1, Len(Append(above, name[f].host)) - 1) = above
  BY <1>4
<1>7. Place(f) = PathOf(f)
  BY Numbers DEF Place
<1> QED BY <1>1, <1>2, <1>3, <1>5, <1>6, <1>7 DEF Front

LEMMA SeenIs ==
  ASSUME Tree, Placed, stack # <<>>, NEW f \in Ids
  PROVE  /\ Seen(f) \in Seq(Frames) /\ Len(Seen(f)) = Len(stack)
         /\ Seen(f)[1] = [dir |-> Dir, path |-> Path, seen |-> f]
         /\ \A k \in 2 .. Len(stack) : Seen(f)[k] = stack[k]
<1>1. /\ Len(stack) \in Nat \ {0} /\ 1 \in 1 .. Len(stack) /\ stack[1] \in Frames
      /\ stack \in Seq(Frames)
  BY Innermost DEF Placed
<1>2. PICK frame \in Frames : frame = [stack[1] EXCEPT !.seen = f]
  <2>1. [stack[1] EXCEPT !.seen = f] \in Frames
    BY <1>1 DEF Frames
  <2> QED BY <2>1
<1>3. frame = [dir |-> Dir, path |-> Path, seen |-> f]
  BY <1>1, <1>2 DEF Frames, Dir, Path
<1>4. Seen(f) = [stack EXCEPT ![1] = frame]
  BY <1>1, <1>2 DEF Seen
<1>5. /\ [stack EXCEPT ![1] = frame] \in Seq(Frames)
      /\ Len([stack EXCEPT ![1] = frame]) = Len(stack)
      /\ [stack EXCEPT ![1] = frame][1] = frame
      /\ \A k \in 2 .. Len(stack) : [stack EXCEPT ![1] = frame][k] = stack[k]
  BY <1>1
<1> QED BY <1>3, <1>4, <1>5

LEMMA Pushed ==
  ASSUME NEW st \in Seq(Frames), NEW frame \in Frames
  PROVE  /\ <<frame>> \o st \in Seq(Frames) /\ <<frame>> \o st # <<>>
         /\ Len(<<frame>> \o st) = Len(st) + 1
         /\ (<<frame>> \o st)[1] = frame
         /\ \A k \in 1 .. Len(st) : (<<frame>> \o st)[k + 1] = st[k]
<1>1. <<frame>> \in Seq(Frames) /\ Len(<<frame>>) = 1 /\ <<frame>>[1] = frame
  OBVIOUS
<1>2. /\ <<frame>> \o st \in Seq(Frames) /\ Len(<<frame>> \o st) = Len(st) + 1
      /\ \A k \in 1 .. Len(st) + 1 :
           (<<frame>> \o st)[k] = IF k <= 1 THEN <<frame>>[k] ELSE st[k - 1]
  BY <1>1
<1> QED BY <1>1, <1>2

(* What EnterDir makes of the frames, in a plain tree.                     *)
LEMMA EnterFrames ==
  ASSUME Tree, Plain, Placed, NEW f \in Ids, EnterDir(f)
  PROVE  /\ stack' \in Seq(Frames) /\ stack' # <<>> /\ Len(stack') = Len(stack) + 1
         /\ stack'[1] = [dir |-> f, path |-> Place(f), seen |-> 0]
         /\ stack'[2] = [dir |-> Dir, path |-> Path, seen |-> f]
         /\ \A k \in 2 .. Len(stack) : stack'[k + 1] = stack[k]
<1>1. Upcoming(f) /\ IsDir(f) /\ stack' = <<Frame(f, Path \o name[f].steps)>> \o Seen(f)
  BY DEF EnterDir
<1>2. stack # <<>> /\ Append(Path, name[f].host) = Place(f)
  BY <1>1, Target
<1>3. Path \in Seq(HostNames) /\ Len(stack) \in Nat \ {0}
  BY <1>2, Innermost
<1>4. name[f].host \in HostNames /\ name[f].steps = <<name[f].host>>
  BY <1>1 DEF Tree, HostNames, Plain
<1>5. Path \o name[f].steps = Place(f)
  BY <1>2, <1>3, <1>4
<1>6. PICK frame \in Frames : /\ frame = [dir |-> f, path |-> Place(f), seen |-> 0]
                              /\ frame = Frame(f, Path \o name[f].steps)
  <2>1. [dir |-> f, path |-> Place(f), seen |-> 0] \in Frames
    BY PlaceType, Numbers DEF Frames
  <2> QED BY <1>5, <2>1 DEF Frame
<1>7. PICK st \in Seq(Frames) :
        /\ st = Seen(f) /\ Len(st) = Len(stack)
        /\ st[1] = [dir |-> Dir, path |-> Path, seen |-> f]
        /\ \A k \in 2 .. Len(stack) : st[k] = stack[k]
  BY <1>2, SeenIs
<1>8. /\ stack' \in Seq(Frames) /\ stack' # <<>> /\ Len(stack') = Len(stack) + 1
      /\ stack'[1] = frame /\ \A k \in 1 .. Len(stack) : stack'[k + 1] = st[k]
  BY <1>1, <1>6, <1>7, Pushed
<1>9. stack'[2] = st[1]
  <2>1. 1 \in 1 .. Len(stack) /\ 1 + 1 = 2
    BY <1>3
  <2> QED BY <1>8, <2>1
<1>10. \A k \in 2 .. Len(stack) : stack'[k + 1] = stack[k]
  BY <1>7, <1>8
<1> QED BY <1>6, <1>7, <1>8, <1>9, <1>10

-----------------------------------------------------------------------------
(***************************************************************************)
(* The frames stay placed.                                                 *)
(***************************************************************************)

LEMMA PlacedInit ==
  ASSUME Init
  PROVE  Placed
<1>1. stack = <<>> /\ result = "none"
  BY DEF Init
<1>2. <<>> \in Seq(Frames) /\ Len(<<>>) = 0
  OBVIOUS
<1> QED BY <1>1, <1>2 DEF Placed

LEMMA PlacedStart ==
  ASSUME Tree, Start
  PROVE  Placed'
<1>1. stack' = <<Frame(Root, <<Top>>)>> /\ result' = "running"
      /\ name' = name /\ parent' = parent
  BY DEF Start
<1>2. PICK frame \in Frames :
        frame = Frame(Root, <<Top>>) /\ frame.dir = Root /\ frame.path = Place(Root)
  <2>1. Place(Root) \in Seq(HostNames) /\ Place(Root) = <<Top>>
    BY PlaceType DEF Place
  <2>2. [dir |-> Root, path |-> Place(Root), seen |-> 0] \in Frames
    BY <2>1, Numbers DEF Frames
  <2> QED BY <2>1, <2>2 DEF Frame
<1>3. /\ <<frame>> \in Seq(Frames) /\ Len(<<frame>>) = 1 /\ <<frame>>[1] = frame
      /\ <<frame>> # <<>>
  OBVIOUS
<1>4. stack' = <<frame>>
  BY <1>1, <1>2
<1>5. \A k \in 1 .. Len(stack') : stack'[k].dir = Root /\ stack'[k].path = Place(Root)
  BY <1>2, <1>3, <1>4
<1>6. IsDir(Root)' /\ Place(Root)' = Place(Root)
  BY DEF IsDir, Place
<1> QED BY <1>1, <1>3, <1>4, <1>5, <1>6 DEF Placed

LEMMA PlacedEnter ==
  ASSUME Tree, Plain, Placed, NEW f \in Ids, EnterDir(f)
  PROVE  Placed'
<1>1. /\ name' = name /\ parent' = parent /\ result' = result /\ IsDir(f) /\ Upcoming(f)
  BY DEF EnterDir
<1>2. stack # <<>> /\ result = "running"
  BY <1>1 DEF Upcoming, Placed
<1>3. stack' \in Seq(Frames) /\ stack' # <<>> /\ Len(stack') = Len(stack) + 1
  BY EnterFrames
<1>4. Len(stack) \in Nat \ {0} /\ IsDir(Dir) /\ Path = Place(Dir)
  BY <1>2, Innermost
<1>5. ASSUME NEW k \in 1 .. Len(stack')
      PROVE  IsDir(stack'[k].dir) /\ stack'[k].path = Place(stack'[k].dir)
  <2>1. CASE k = 1
    <3>0. stack'[1] = [dir |-> f, path |-> Place(f), seen |-> 0]
      BY EnterFrames
    <3>1. stack'[1].dir = f /\ stack'[1].path = Place(f)
      BY <3>0
    <3> QED BY <1>1, <2>1, <3>1
  <2>2. CASE k = 2
    <3>0. stack'[2] = [dir |-> Dir, path |-> Path, seen |-> f]
      BY EnterFrames
    <3>1. stack'[2].dir = Dir /\ stack'[2].path = Path
      BY <3>0
    <3> QED BY <1>4, <2>2, <3>1
  <2>3. CASE k \notin {1, 2}
    <3>1. k - 1 \in 2 .. Len(stack) /\ k - 1 \in 1 .. Len(stack) /\ k - 1 + 1 = k
      BY <1>3, <1>4, <2>3
    <3>2. stack'[k] = stack[k - 1]
      BY <3>1, EnterFrames
    <3> QED BY <3>1, <3>2 DEF Placed
  <2> QED BY <2>1, <2>2, <2>3
<1>6. \A d : (IsDir(d)' <=> IsDir(d)) /\ Place(d)' = Place(d)
  BY <1>1, SameImage
<1> QED BY <1>1, <1>2, <1>3, <1>5, <1>6 DEF Placed

LEMMA PlacedSeen ==
  ASSUME Tree, Placed, NEW f \in Ids, Upcoming(f), stack' = Seen(f), result' = result,
         name' = name, parent' = parent
  PROVE  Placed'
<1>1. stack # <<>> /\ result = "running"
  BY DEF Upcoming, Placed
<1>2. /\ stack' \in Seq(Frames) /\ Len(stack') = Len(stack)
      /\ stack'[1] = [dir |-> Dir, path |-> Path, seen |-> f]
      /\ \A k \in 2 .. Len(stack) : stack'[k] = stack[k]
  BY <1>1, SeenIs
<1>3. Len(stack) \in Nat \ {0} /\ IsDir(Dir) /\ Path = Place(Dir)
  BY <1>1, Innermost
<1>4. stack' # <<>>
  BY <1>2, <1>3
<1>5. ASSUME NEW k \in 1 .. Len(stack')
      PROVE  IsDir(stack'[k].dir) /\ stack'[k].path = Place(stack'[k].dir)
  <2>1. CASE k = 1
    BY <1>2, <1>3, <2>1
  <2>2. CASE k # 1
    <3>1. k \in 2 .. Len(stack) /\ k \in 1 .. Len(stack)
      BY <1>2, <1>3, <2>2
    <3> QED BY <1>2, <3>1 DEF Placed
  <2> QED BY <2>1, <2>2
<1>6. \A d : (IsDir(d)' <=> IsDir(d)) /\ Place(d)' = Place(d)
  BY SameImage
<1> QED BY <1>1, <1>2, <1>4, <1>5, <1>6 DEF Placed

LEMMA PlacedAbort ==
  ASSUME Abort
  PROVE  Placed' /\ (Tree => Tree')
<1>1. stack' = <<>> /\ result' = "error" /\ name' = name /\ parent' = parent
  BY DEF Abort
<1>2. <<>> \in Seq(Frames) /\ Len(<<>>) = 0
  OBVIOUS
<1> QED BY <1>1, <1>2, SameImage DEF Placed

(* The innermost frame goes.                                               *)
LEMMA LeaveFrames ==
  ASSUME Tree, Placed, Leave
  PROVE  /\ stack' \in Seq(Frames) /\ Len(stack') = Len(stack) - 1
         /\ Len(stack) \in Nat \ {0}
         /\ \A k \in 2 .. Len(stack) : k - 1 \in 1 .. Len(stack') /\ stack'[k - 1] = stack[k]
         /\ \A k \in 1 .. Len(stack') : k + 1 \in 1 .. Len(stack) /\ stack'[k] = stack[k + 1]
         /\ stack' = <<>> <=> Len(stack) = 1
<1>1. stack # <<>> /\ stack' = Tail(stack)
  BY DEF Leave
<1>2. PICK n \in Nat \ {0} : n = Len(stack) /\ stack \in Seq(Frames)
  BY <1>1 DEF Placed
<1>3. /\ stack' \in Seq(Frames) /\ Len(stack') = n - 1
      /\ \A k \in 1 .. n - 1 : stack'[k] = stack[k + 1]
  BY <1>1, <1>2
<1>4. stack' = <<>> <=> n = 1
  BY <1>2, <1>3
<1>5. \A k \in 2 .. n : k - 1 \in 1 .. n - 1 /\ k - 1 + 1 = k
  BY <1>2
<1>6. \A k \in 2 .. n : k - 1 \in 1 .. n - 1 /\ stack'[k - 1] = stack[k]
  BY <1>3, <1>5
<1>7. \A k \in 1 .. n - 1 : k + 1 \in 1 .. n
  BY <1>2
<1> QED BY <1>2, <1>3, <1>4, <1>6, <1>7

LEMMA PlacedLeave ==
  ASSUME Tree, Placed, Leave
  PROVE  Placed'
<1>1. /\ name' = name /\ parent' = parent
      /\ result' = IF Len(stack) = 1 THEN "ok" ELSE result
      /\ stack # <<>> /\ result = "running"
  BY DEF Leave, Placed
<1>2. ASSUME NEW k \in 1 .. Len(stack')
      PROVE  IsDir(stack'[k].dir) /\ stack'[k].path = Place(stack'[k].dir)
  BY LeaveFrames DEF Placed
<1>3. \A d : (IsDir(d)' <=> IsDir(d)) /\ Place(d)' = Place(d)
  BY <1>1, SameImage
<1>4. stack' # <<>> <=> result' = "running"
  BY <1>1, LeaveFrames
<1>5. stack' \in Seq(Frames)
  BY LeaveFrames
<1> QED BY <1>2, <1>3, <1>4, <1>5 DEF Placed

-----------------------------------------------------------------------------
(***************************************************************************)
(* Nothing else is written.                                                *)
(***************************************************************************)

LEMMA OnlyCopies ==
  ASSUME Tree, Plain, Placed, NothingElseDumped, Next
  PROVE  NothingElseDumped'
<1>1. name' = name /\ parent' = parent
  BY DEF Next, Step, Start, EnterDir, DumpFile, WriteFails, NoSuchPath, HostFails, Leave,
         Abort
<1> DEFINE Allowed == Remains \cup {Copy(f) : f \in Ids}
<1>2. files \subseteq Allowed
  BY DEF NothingElseDumped
<1>3. files' \subseteq Allowed
  <2>1. CASE Start
    <3>1. [path |-> <<Top>>, is |-> Root] \in Remains
      BY DEF Remains
    <3> QED BY <1>2, <2>1, <3>1 DEF Start, Made
  <2>2. ASSUME NEW f \in Ids, EnterDir(f) PROVE files' \subseteq Allowed
    <3>1. Append(Path, name[f].host) = PathOf(f) /\ IsDir(f)
      BY <2>2, Target DEF EnterDir
    <3>2. files' \subseteq files \cup {[path |-> PathOf(f), is |-> Root]}
      BY <2>2, <3>1 DEF EnterDir, Made
    <3>3. Copy(f) = [path |-> PathOf(f), is |-> Root]
      BY <3>1 DEF Copy
    <3> QED BY <1>2, <3>2, <3>3
  <2>3. ASSUME NEW f \in Ids, DumpFile(f) PROVE files' \subseteq Allowed
    <3>1. Append(Path, name[f].host) = PathOf(f) /\ ~IsDir(f)
      BY <2>3, Target DEF DumpFile
    <3>2. files' \subseteq files \cup {[path |-> PathOf(f), is |-> f]}
      BY <2>3, <3>1 DEF DumpFile, Written
    <3>3. Copy(f) = [path |-> PathOf(f), is |-> f]
      BY <3>1 DEF Copy
    <3> QED BY <1>2, <3>2, <3>3
  <2>4. ASSUME NEW f \in Ids, WriteFails(f) PROVE files' \subseteq Allowed
    <3>1. Append(Path, name[f].host) = PathOf(f) /\ ~IsDir(f)
      BY <2>4, Target DEF WriteFails
    <3>2. files' \subseteq files \cup {[path |-> PathOf(f), is |-> Torn]}
      BY <2>4, <3>1 DEF WriteFails, Written
    <3>3. [path |-> PathOf(f), is |-> Torn] \in Remains
      <4>1. [Copy(f) EXCEPT !.is = IF IsDir(f) THEN Root ELSE Torn] \in Remains
        BY DEF Remains
      <4>2. [Copy(f) EXCEPT !.is = Torn] \in Remains
        BY <3>1, <4>1
      <4>3. Copy(f) = [path |-> PathOf(f), is |-> f]
        BY <3>1 DEF Copy
      <4>4. [Copy(f) EXCEPT !.is = Torn] = [path |-> PathOf(f), is |-> Torn]
        BY <4>3
      <4> QED BY <4>2, <4>4
    <3> QED BY <1>2, <3>2, <3>3
  <2>5. CASE UNCHANGED files
    BY <1>2, <2>5
  <2>6. ASSUME NEW f \in Ids, NoSuchPath(f) PROVE UNCHANGED files
    BY <2>6 DEF NoSuchPath
  <2>7. HostFails \/ Leave => UNCHANGED files
    BY DEF HostFails, Leave
  <2> QED BY <2>1, <2>2, <2>3, <2>4, <2>5, <2>6, <2>7 DEF Next, Step
<1>4. Remains' = Remains /\ \A f : Copy(f)' = Copy(f)
  BY <1>1, SameImage
<1> QED BY <1>3, <1>4 DEF NothingElseDumped

-----------------------------------------------------------------------------
(***************************************************************************)
(* Nothing fails unless the host does, and nothing is left out.            *)
(***************************************************************************)

(* The directory of the innermost frame is on the host.                    *)
LEMMA UnderWay ==
  ASSUME Tree, Placed, Unfailing, stack # <<>>
  PROVE  IsHostDir(Path) /\ [path |-> Path, is |-> Root] \in files /\ result = "running"
<1>1. 1 \in 1 .. Len(stack)
  BY Innermost
<1>2. [path |-> Path, is |-> Root] \in files
  BY <1>1 DEF Unfailing, Path
<1> QED BY <1>2 DEF IsHostDir, Placed

(* Every path leads somewhere.                                             *)
LEMMA PathsLead ==
  ASSUME Tree, Plain, Placed, NothingElseDumped, Unfailing, NEW f \in Ids
  PROVE  ~NoSuchPath(f)
<1> SUFFICES ASSUME NoSuchPath(f) PROVE FALSE
  OBVIOUS
<1>1. Upcoming(f)
  BY DEF NoSuchPath
<1>2. /\ stack # <<>> /\ Append(Path, name[f].host) = PathOf(f)
      /\ Front(PathOf(f)) = Path /\ PathOf(f) # <<>>
  BY <1>1, Target
<1>3. IsHostDir(Front(PathOf(f)))
  BY <1>2, UnderWay
<1>4. IF IsDir(f) THEN ~CanMake(PathOf(f)) ELSE ~CanWrite(PathOf(f))
  BY <1>2 DEF NoSuchPath
<1>5. CASE IsDir(f)
  BY <1>3, <1>4, <1>5 DEF CanMake
<1>6. CASE ~IsDir(f)
  <2>1. IsHostDir(PathOf(f))
    BY <1>3, <1>4, <1>6 DEF CanWrite
  <2>2. PICK x \in files : x = [path |-> PathOf(f), is |-> Root]
    BY <1>2, <2>1 DEF IsHostDir
  <2>3. x.path = PathOf(f) /\ x.is = Root
    BY <2>2
  <2> QED BY <1>6, <2>3, OnHost
<1> QED BY <1>5, <1>6

LEMMA StartUnfailing ==
  ASSUME Tree, Plain, NothingElseDumped, Start
  PROVE  Unfailing'
<1>1. /\ files' = Made(<<Top>>) /\ stack' = <<Frame(Root, <<Top>>)>>
      /\ result' = "running" /\ name' = name /\ parent' = parent
  BY DEF Start
<1>2. [path |-> <<Top>>, is |-> Root] \in files'
  <2>1. CASE Exists(<<Top>>)
    <3>1. PICK x \in files : x.path = <<Top>>
      BY <2>1 DEF Exists
    <3>2. Place(Root) = <<Top>>
      BY DEF Place
    <3>3. \A g \in Ids : PathOf(g) # <<Top>>
      BY <3>2, PlaceType, Numbers DEF Place
    <3>4. x \in Remains => x = [path |-> <<Top>>, is |-> Root]
      <4>1. CASE \E g \in Ids : x = [Copy(g) EXCEPT !.is = IF IsDir(g) THEN Root ELSE Torn]
        <5>1. PICK g \in Ids : x = [Copy(g) EXCEPT !.is = IF IsDir(g) THEN Root ELSE Torn]
          BY <4>1
        <5>2. x.path = PathOf(g)
          BY <5>1 DEF Copy
        <5> QED BY <3>1, <3>3, <5>2
      <4> QED BY <4>1 DEF Remains
    <3>5. x \notin {Copy(g) : g \in Ids}
      BY <3>1, <3>3 DEF Copy
    <3>6. x = [path |-> <<Top>>, is |-> Root]
      BY <3>4, <3>5 DEF NothingElseDumped
    <3> QED BY <1>1, <2>1, <3>6 DEF Made
  <2>2. CASE ~Exists(<<Top>>)
    BY <1>1, <2>2 DEF Made
  <2> QED BY <2>1, <2>2
<1>3. PICK frame : frame = Frame(Root, <<Top>>) /\ frame.dir = Root /\ frame.seen = 0
                   /\ frame.path = <<Top>>
  <2>1. /\ Frame(Root, <<Top>>).dir = Root /\ Frame(Root, <<Top>>).seen = 0
        /\ Frame(Root, <<Top>>).path = <<Top>>
    BY DEF Frame
  <2> QED BY <2>1
<1>4. stack' = <<frame>> /\ Len(<<frame>>) = 1 /\ <<frame>>[1] = frame
  BY <1>1, <1>3
<1>5. \A k \in 1 .. Len(stack') : [path |-> stack'[k].path, is |-> Root] \in files'
  BY <1>2, <1>3, <1>4
<1>6. Dumped({})'
  <2>1. ASSUME NEW g \in Ids, parent[g] = Root PROVE Ahead(g)'
    <3>1. 1 \in 1 .. Len(stack') /\ stack'[1].dir = parent'[g] /\ stack'[1].seen < g
      BY <1>1, <1>3, <1>4, <2>1, Numbers
    <3> QED BY <3>1 DEF Ahead
  <2> QED BY <1>1, <2>1 DEF Dumped
<1>7. \E D \in SUBSET Ids : Dumped(D)'
  BY <1>6
<1> QED BY <1>1, <1>5, <1>7 DEF Unfailing

LEMMA EnterUnfailing ==
  ASSUME Tree, Plain, Placed, NothingElseDumped, Unfailing, NEW f \in Ids, EnterDir(f)
  PROVE  Unfailing'
<1>1. /\ name' = name /\ parent' = parent /\ result' = result /\ IsDir(f) /\ Upcoming(f)
      /\ files' = Made(Append(Path, name[f].host))
  BY DEF EnterDir
<1>2. /\ stack # <<>> /\ parent[f] = Dir /\ f > stack[1].seen
      /\ \A g \in Ids : parent[g] = Dir /\ g > stack[1].seen => f <= g
      /\ Append(Path, name[f].host) = PathOf(f) /\ Place(f) = PathOf(f)
  BY <1>1, Target
<1>3. files \subseteq files' /\ Copy(f) \in files' /\ Copy(f) = [path |-> PathOf(f), is |-> Root]
  <2>1. files' = Made(PathOf(f))
    BY <1>1, <1>2
  <2>2. Copy(f) = [path |-> PathOf(f), is |-> Root]
    BY <1>1 DEF Copy
  <2>3. CASE Exists(PathOf(f))
    <3>1. PICK x \in files : x.path = PathOf(f)
      BY <2>3 DEF Exists
    <3>2. x = Copy(f)
      BY <1>1, <3>1, OnHost
    <3> QED BY <2>1, <2>2, <2>3, <3>2 DEF Made
  <2>4. CASE ~Exists(PathOf(f))
    BY <2>1, <2>2, <2>4 DEF Made
  <2> QED BY <2>3, <2>4
<1>4. /\ stack'[1] = [dir |-> f, path |-> Place(f), seen |-> 0]
      /\ stack'[2] = [dir |-> Dir, path |-> Path, seen |-> f]
  BY EnterFrames
<1>5. /\ stack'[1].dir = f /\ stack'[1].path = Place(f) /\ stack'[1].seen = 0
      /\ stack'[2].dir = Dir /\ stack'[2].path = Path /\ stack'[2].seen = f
  BY <1>4
<1>6. PICK n \in Nat \ {0} : n = Len(stack) /\ Len(stack') = n + 1
                             /\ \A k \in 2 .. n : stack'[k + 1] = stack[k]
  <2>1. Len(stack) \in Nat \ {0}
    BY <1>2, Innermost
  <2>2. /\ Len(stack') = Len(stack) + 1
        /\ \A k \in 2 .. Len(stack) : stack'[k + 1] = stack[k]
    BY EnterFrames
  <2> QED BY <2>1, <2>2
<1>7. ASSUME NEW k \in 1 .. Len(stack')
      PROVE  [path |-> stack'[k].path, is |-> Root] \in files'
  <2>1. CASE k = 1
    BY <1>2, <1>3, <1>5, <2>1
  <2>2. CASE k = 2
    <3>1. [path |-> Path, is |-> Root] \in files
      BY <1>2, UnderWay
    <3> QED BY <1>3, <1>5, <2>2, <3>1
  <2>3. CASE k \notin {1, 2}
    <3>1. k - 1 \in 2 .. n /\ k - 1 \in 1 .. Len(stack) /\ k - 1 + 1 = k
      BY <1>6, <2>3
    <3>2. stack'[k] = stack[k - 1]
      BY <1>6, <3>1
    <3>3. [path |-> stack[k - 1].path, is |-> Root] \in files
      BY <3>1 DEF Unfailing
    <3> QED BY <1>3, <3>2, <3>3
  <2> QED BY <2>1, <2>2, <2>3
<1>8. result = "running"
  BY <1>2 DEF Placed
<1>9. PICK D \in SUBSET Ids : Dumped(D)
  BY <1>8 DEF Unfailing
<1>10. Dumped(D \cup {f})'
  <2>1. \A g : Copy(g)' = Copy(g)
    BY <1>1, SameImage
  <2>2. \A g \in D \cup {f} : Copy(g)' \in files'
    BY <1>3, <1>9, <2>1 DEF Dumped
  <2>3. ASSUME NEW g \in Ids, parent[g] \in D \cup {f} \cup {Root}, g \notin D \cup {f}
        PROVE  Ahead(g)'
    <3>1. CASE parent[g] = f
      <4>1. 1 \in 1 .. Len(stack') /\ stack'[1].dir = parent'[g] /\ stack'[1].seen < g
        BY <1>1, <1>5, <1>6, <3>1, Numbers
      <4> QED BY <4>1 DEF Ahead
    <3>2. CASE parent[g] \in D \cup {Root}
      <4>1. PICK k \in 1 .. Len(stack) : stack[k].dir = parent[g] /\ stack[k].seen < g
        BY <1>9, <2>3, <3>2 DEF Dumped, Ahead
      <4>2. CASE k = 1
        <5>1. parent[g] = Dir /\ g > stack[1].seen
          BY <4>1, <4>2, Innermost, <1>2, Numbers DEF Dir
        <5>2. f <= g /\ f # g
          BY <1>2, <2>3, <5>1
        <5>3. 2 \in 1 .. Len(stack') /\ stack'[2].dir = parent'[g] /\ stack'[2].seen < g
          BY <1>1, <1>5, <1>6, <5>1, <5>2, Numbers
        <5> QED BY <5>3 DEF Ahead
      <4>3. CASE k # 1
        <5>1. k \in 2 .. n /\ k + 1 \in 1 .. Len(stack')
          BY <1>6, <4>3
        <5>2. stack'[k + 1].dir = parent'[g] /\ stack'[k + 1].seen < g
          BY <1>1, <1>6, <4>1, <5>1
        <5> QED BY <5>1, <5>2 DEF Ahead
      <4> QED BY <4>2, <4>3
    <3> QED BY <2>3, <3>1, <3>2
  <2> QED BY <1>1, <2>2, <2>3 DEF Dumped
<1>11. \E E \in SUBSET Ids : Dumped(E)'
  BY <1>10
<1> QED BY <1>1, <1>7, <1>8, <1>11 DEF Unfailing

LEMMA FileUnfailing ==
  ASSUME Tree, Plain, Placed, NothingElseDumped, Unfailing, NEW f \in Ids, DumpFile(f)
  PROVE  Unfailing'
<1>1. /\ name' = name /\ parent' = parent /\ result' = result /\ ~IsDir(f) /\ Upcoming(f)
      /\ stack' = Seen(f) /\ files' = Written(Append(Path, name[f].host), f)
  BY DEF DumpFile
<1>2. /\ stack # <<>> /\ parent[f] = Dir /\ f > stack[1].seen
      /\ \A g \in Ids : parent[g] = Dir /\ g > stack[1].seen => f <= g
      /\ Append(Path, name[f].host) = PathOf(f) /\ Place(f) = PathOf(f)
  BY <1>1, Target
<1>3. /\ Copy(f) \in files'
      /\ \A x \in files : x.path # PathOf(f) => x \in files'
  <2>1. Copy(f) = [path |-> PathOf(f), is |-> f]
    BY <1>1 DEF Copy
  <2> QED BY <1>1, <1>2, <2>1 DEF Written
<1>4. PICK n \in Nat \ {0} : n = Len(stack) /\ Len(stack') = n
                             /\ \A k \in 2 .. n : stack'[k] = stack[k]
  <2>1. Len(stack) \in Nat \ {0}
    BY <1>2, Innermost
  <2>2. Len(stack') = Len(stack) /\ \A k \in 2 .. Len(stack) : stack'[k] = stack[k]
    BY <1>1, <1>2, SeenIs
  <2> QED BY <2>1, <2>2
<1>5. stack'[1].dir = Dir /\ stack'[1].path = Path /\ stack'[1].seen = f
  <2>1. stack'[1] = [dir |-> Dir, path |-> Path, seen |-> f]
    BY <1>1, <1>2, SeenIs
  <2> QED BY <2>1
<1>6. ASSUME NEW k \in 1 .. Len(stack')
      PROVE  [path |-> stack'[k].path, is |-> Root] \in files'
  <2>1. k \in 1 .. Len(stack) /\ stack'[k].path = stack[k].path
    <3>1. k \in 1 .. Len(stack)
      BY <1>4
    <3>2. k # 1 => stack'[k] = stack[k]
      BY <1>4
    <3>3. k = 1 => stack'[k].path = stack[k].path
      BY <1>5 DEF Path
    <3> QED BY <3>1, <3>2, <3>3
  <2>2. [path |-> stack[k].path, is |-> Root] \in files
    BY <2>1 DEF Unfailing
  <2>3. stack[k].path # PathOf(f)
    <3>1. stack[k].path = Place(stack[k].dir) /\ IsDir(stack[k].dir)
      BY <2>1 DEF Placed
    <3>2. stack[k].dir \in {Root} \cup Ids
      <4>1. stack[k] \in Frames
        BY <2>1 DEF Placed
      <4> QED BY <4>1 DEF Frames
    <3> QED BY <1>1, <1>2, <3>1, <3>2, PlacesDiffer
  <2> QED BY <1>3, <2>1, <2>2, <2>3
<1>7. result = "running"
  BY <1>2 DEF Placed
<1>8. PICK D \in SUBSET Ids : Dumped(D)
  BY <1>7 DEF Unfailing
<1>9. Dumped(D \cup {f})'
  <2>1. \A g : Copy(g)' = Copy(g)
    BY <1>1, SameImage
  <2>2. ASSUME NEW g \in D \cup {f} PROVE Copy(g)' \in files'
    <3>1. CASE g = f
      BY <1>3, <2>1, <3>1
    <3>2. CASE g # f
      <4>1. g \in Ids /\ Copy(g) \in files /\ Place(g) = PathOf(g)
        BY <1>8, <2>2, <3>2, Numbers DEF Dumped, Place
      <4>2. PathOf(g) # PathOf(f)
        BY <1>2, <3>2, <4>1, PlacesDiffer
      <4>3. Copy(g).path # PathOf(f)
        BY <4>2 DEF Copy
      <4> QED BY <1>3, <2>1, <4>1, <4>3
    <3> QED BY <3>1, <3>2
  <2>3. ASSUME NEW g \in Ids, parent[g] \in D \cup {f} \cup {Root}, g \notin D \cup {f}
        PROVE  Ahead(g)'
    <3>1. parent[g] # f
      BY <1>1 DEF Tree
    <3>2. PICK k \in 1 .. Len(stack) : stack[k].dir = parent[g] /\ stack[k].seen < g
      BY <1>8, <2>3, <3>1 DEF Dumped, Ahead
    <3>3. CASE k = 1
      <4>1. parent[g] = Dir /\ g > stack[1].seen
        BY <3>2, <3>3, Innermost, <1>2, Numbers DEF Dir
      <4>2. f <= g /\ f # g
        BY <1>2, <2>3, <4>1
      <4>3. 1 \in 1 .. Len(stack') /\ stack'[1].dir = parent'[g] /\ stack'[1].seen < g
        BY <1>1, <1>4, <1>5, <4>1, <4>2, Numbers
      <4> QED BY <4>3 DEF Ahead
    <3>4. CASE k # 1
      <4>1. k \in 2 .. n /\ k \in 1 .. Len(stack')
        BY <1>4, <3>4
      <4>2. stack'[k].dir = parent'[g] /\ stack'[k].seen < g
        BY <1>1, <1>4, <3>2, <4>1
      <4> QED BY <4>1, <4>2 DEF Ahead
    <3> QED BY <3>3, <3>4
  <2> QED BY <1>1, <2>2, <2>3 DEF Dumped
<1>10. \E E \in SUBSET Ids : Dumped(E)'
  BY <1>9
<1> QED BY <1>1, <1>6, <1>7, <1>10 DEF Unfailing

LEMMA LeaveUnfailing ==
  ASSUME Tree, Plain, Placed, Unfailing, Leave
  PROVE  Unfailing'
<1>1. /\ name' = name /\ parent' = parent /\ files' = files /\ Pending = {} /\ stack # <<>>
      /\ result' \in {"ok", result}
  BY DEF Leave
<1>2. result = "running"
  BY <1>1 DEF Placed
<1>3. ASSUME NEW k \in 1 .. Len(stack')
      PROVE  [path |-> stack'[k].path, is |-> Root] \in files'
  <2>1. k + 1 \in 1 .. Len(stack) /\ stack'[k] = stack[k + 1]
    BY LeaveFrames
  <2> QED BY <1>1, <2>1 DEF Unfailing
<1>4. PICK D \in SUBSET Ids : Dumped(D)
  BY <1>2 DEF Unfailing
<1>5. Dumped(D)'
  <2>1. \A g : Copy(g)' = Copy(g)
    BY <1>1, SameImage
  <2>2. ASSUME NEW g \in Ids, parent[g] \in D \cup {Root}, g \notin D
        PROVE  Ahead(g)'
    <3>1. PICK k \in 1 .. Len(stack) : stack[k].dir = parent[g] /\ stack[k].seen < g
      BY <1>4, <2>2 DEF Dumped, Ahead
    <3>2. k # 1
      <4> SUFFICES ASSUME k = 1 PROVE FALSE
        OBVIOUS
      <4>1. parent[g] = Dir /\ g > stack[1].seen
        BY <1>1, <3>1, Innermost, Numbers DEF Dir
      <4>2. g \in Pending
        BY <4>1 DEF Pending, Entries
      <4> QED BY <1>1, <4>2
    <3>3. k \in 2 .. Len(stack)
      BY <3>2, LeaveFrames
    <3>4. k - 1 \in 1 .. Len(stack') /\ stack'[k - 1] = stack[k]
      BY <3>3, LeaveFrames
    <3> QED BY <1>1, <3>1, <3>4 DEF Ahead
  <2> QED BY <1>1, <1>4, <2>1, <2>2 DEF Dumped
<1>6. \E E \in SUBSET Ids : Dumped(E)'
  BY <1>5
<1> QED BY <1>1, <1>2, <1>3, <1>6 DEF Unfailing

-----------------------------------------------------------------------------
(***************************************************************************)
(* The theorems.                                                           *)
(***************************************************************************)

LEMMA InitInductive ==
  ASSUME Init
  PROVE  Inductive
<1>1. Tree
  <2>1. name \in [Ids -> Names] /\ parent \in [Ids -> {Root} \cup Ids]
    BY DEF Init
  <2>2. \A f \in Ids : parent[f] < f /\ IsDir(parent[f])
    BY <2>1 DEF Init, IsDir
  <2> QED BY <2>1, <2>2 DEF Tree
<1>2. Plain => NothingElseDumped
  <2>1. Plain => files = {} \/ files = Remains
    BY DEF Init
  <2> QED BY <2>1 DEF NothingElseDumped
<1>3. Unfailing
  <2>1. result = "none" /\ stack = <<>>
    BY DEF Init
  <2>2. Len(<<>>) = 0
    OBVIOUS
  <2> QED BY <2>1, <2>2 DEF Unfailing
<1> QED BY <1>1, <1>2, <1>3, PlacedInit DEF Inductive

LEMMA StepInductive ==
  ASSUME Inductive, [Next]_dumpVars
  PROVE  Inductive'
<1>1. CASE UNCHANGED dumpVars
  <2>1. /\ name' = name /\ parent' = parent /\ files' = files /\ stack' = stack
        /\ result' = result /\ broken' = broken
    BY <1>1 DEF dumpVars
  <2>2. /\ Tree' <=> Tree
        /\ Plain' <=> Plain
        /\ \A f : (IsDir(f)' <=> IsDir(f)) /\ Place(f)' = Place(f) /\ Copy(f)' = Copy(f)
        /\ Remains' = Remains
    BY <2>1, SameImage
  <2>3. Placed' <=> Placed
    BY <2>1, <2>2 DEF Placed
  <2>4. NothingElseDumped' <=> NothingElseDumped
    BY <2>1, <2>2 DEF NothingElseDumped
  <2>5. \A D : Dumped(D)' <=> Dumped(D)
    BY <2>1, <2>2 DEF Dumped, Ahead
  <2>6. Unfailing' <=> Unfailing
    BY <2>1, <2>5 DEF Unfailing
  <2> QED BY <2>1, <2>2, <2>3, <2>4, <2>6 DEF Inductive
<1>2. CASE Next
  <2>1. name' = name /\ parent' = parent
    BY <1>2 DEF Next, Step, Start, EnterDir, DumpFile, WriteFails, NoSuchPath, HostFails, Leave,
           Abort
  <2>2. Tree /\ Tree' /\ (Plain' <=> Plain)
    BY <2>1, SameImage DEF Inductive
  <2>3. ASSUME Plain PROVE Placed' /\ NothingElseDumped' /\ (~broken' => Unfailing')
    <3>1. Placed /\ NothingElseDumped /\ (~broken => Unfailing)
      BY <2>3 DEF Inductive
    <3>2. NothingElseDumped'
      BY <1>2, <2>2, <2>3, <3>1, OnlyCopies
    <3>3. CASE Start
      <4>1. Unfailing'
        BY <2>2, <2>3, <3>1, <3>3, StartUnfailing
      <4> QED BY <2>2, <3>2, <3>3, <4>1, PlacedStart
    <3>4. ASSUME NEW f \in Ids, EnterDir(f) PROVE Placed' /\ (~broken' => Unfailing')
      <4>1. broken' = broken
        BY <3>4 DEF EnterDir
      <4>2. Placed'
        BY <2>2, <2>3, <3>1, <3>4, PlacedEnter
      <4> QED BY <2>2, <2>3, <3>1, <3>4, <4>1, <4>2, EnterUnfailing
    <3>5. ASSUME NEW f \in Ids, DumpFile(f) PROVE Placed' /\ (~broken' => Unfailing')
      <4>1. broken' = broken /\ Upcoming(f) /\ stack' = Seen(f) /\ result' = result
        BY <3>5 DEF DumpFile
      <4>2. Placed'
        BY <2>1, <2>2, <3>1, <4>1, PlacedSeen
      <4> QED BY <2>2, <2>3, <3>1, <3>5, <4>1, <4>2, FileUnfailing
    <3>6. ASSUME NEW f \in Ids, WriteFails(f) PROVE Placed' /\ (~broken' => Unfailing')
      <4>1. broken' = TRUE /\ Upcoming(f)
        BY <3>6 DEF WriteFails
      <4>2. CASE Abort
        BY <4>1, <4>2, PlacedAbort
      <4>3. CASE stack' = Seen(f) /\ result' = result
        BY <2>1, <2>2, <3>1, <4>1, <4>3, PlacedSeen
      <4> QED BY <3>6, <4>2, <4>3 DEF WriteFails
    <3>7. ASSUME NEW f \in Ids, NoSuchPath(f) PROVE Placed' /\ (~broken' => Unfailing')
      <4>1. Abort /\ broken' = broken
        BY <3>7 DEF NoSuchPath
      <4>2. broken
        BY <2>2, <2>3, <3>1, <3>7, PathsLead
      <4> QED BY <4>1, <4>2, PlacedAbort
    <3>8. CASE HostFails
      BY <3>2, <3>8, PlacedAbort DEF HostFails
    <3>9. CASE Leave
      <4>1. broken' = broken
        BY <3>9 DEF Leave
      <4>2. Placed'
        BY <2>2, <3>1, <3>9, PlacedLeave
      <4> QED BY <2>2, <2>3, <3>1, <3>2, <3>9, <4>1, <4>2, LeaveUnfailing
    <3>10. Placed' /\ (~broken' => Unfailing')
      <4>1. CASE Start
        BY <3>3, <4>1
      <4> QED BY <1>2, <3>4, <3>5, <3>6, <3>7, <3>8, <3>9, <4>1 DEF Next, Step
    <3> QED BY <3>2, <3>10
  <2> QED BY <2>2, <2>3 DEF Inductive
<1> QED BY <1>1, <1>2

(* The invariant of the traversal: where its frames are, that nothing but  *)
(* the host makes it fail, and that each file of the image is on the host  *)
(* or in front of a frame or of one still to come.                         *)
THEOREM TraversalHolds == Spec => []Inductive
<1>1. Init => Inductive
  BY InitInductive
<1>2. Inductive /\ [Next]_dumpVars => Inductive'
  BY StepInductive
<1> QED BY <1>1, <1>2, PTL DEF Spec

(* A dump writes nothing but the image's files, each to its own place,     *)
(* whatever the tree and wherever it is cut short (dump_dir).              *)
THEOREM OnlyFilesDumped == Spec => []NothingElseDumped
<1>1. Inductive => NothingElseDumped
  BY DEF Inductive, NothingElseDumped
<1> QED BY <1>1, TraversalHolds, PTL

(* A dump of a tree of any depth and size in which nothing fails on the    *)
(* host returns 0 and has written every file (dump_dir,                    *)
(* traverse_ccos_image).                                                   *)
THEOREM AllFilesDumped == Spec => []DumpedWhole
<1>1. ASSUME Inductive PROVE DumpedWhole
  <2> SUFFICES ASSUME Plain, ~broken, result \in {"ok", "error"}
               PROVE  result = "ok" /\ \A f \in Ids : Copy(f) \in files
    BY DEF DumpedWhole
  <2>1. Tree /\ Placed /\ Unfailing
    BY <1>1 DEF Inductive
  <2>2. result = "ok" /\ stack = <<>>
    BY <2>1 DEF Unfailing, Placed
  <2>3. PICK D \in SUBSET Ids : Dumped(D)
    BY <2>1, <2>2 DEF Unfailing
  <2>4. \A f \in 0 .. MaxFiles : (\A g \in 0 .. f - 1 : g \in D \cup {Root}) => f \in D \cup {Root}
    <3> SUFFICES ASSUME NEW f \in 0 .. MaxFiles, \A g \in 0 .. f - 1 : g \in D \cup {Root},
                        f # Root
                 PROVE  f \in D
      OBVIOUS
    <3>1. f \in Ids
      BY Numbers DEF Ids
    <3>2. parent[f] \in 0 .. f - 1
      BY <2>1, <3>1, Numbers DEF Tree, Ids
    <3>3. ~Ahead(f)
      <4>1. Len(<<>>) = 0
        OBVIOUS
      <4> QED BY <2>2, <4>1 DEF Ahead
    <3> QED BY <2>3, <3>1, <3>2, <3>3 DEF Dumped
  <2>5. \A f \in 0 .. MaxFiles : f \in D \cup {Root}
    BY <2>4, AllFiles
  <2>6. \A f \in Ids : f \in D
    BY <2>5, Numbers DEF Ids
  <2> QED BY <2>2, <2>3, <2>6 DEF Dumped
<1>2. Inductive => DumpedWhole
  BY <1>1
<1> QED BY <1>2, TraversalHolds, PTL
=============================================================================
