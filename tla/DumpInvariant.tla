--------------------------- MODULE DumpInvariant ---------------------------
(***************************************************************************)
(* The inductive invariant behind the properties of Dump: where the frames *)
(* of the traversal are, and what is still in front of them.               *)
(***************************************************************************)
EXTENDS Dump

HostNames == {Top} \cup {n.host : n \in Names}

Frames == [dir : {Root} \cup Ids, path : Seq(HostNames), seen : {Root} \cup Ids]

(* The directories of the image form a tree.                               *)
Tree ==
  /\ name \in [Ids -> Names]
  /\ parent \in [Ids -> {Root} \cup Ids]
  /\ \A f \in Ids : parent[f] < f /\ IsDir(parent[f])

Place(d) == IF d = Root THEN <<Top>> ELSE PathOf(d)

(* Each frame is in a directory, with the path of its place on the host.   *)
Placed ==
  /\ stack \in Seq(Frames)
  /\ \A k \in 1 .. Len(stack) :
       IsDir(stack[k].dir) /\ stack[k].path = Place(stack[k].dir)
  /\ stack # <<>> <=> result = "running"

(* Some frame has entry g of its directory in front of it.                 *)
Ahead(g) ==
  \E k \in 1 .. Len(stack) : stack[k].dir = parent[g] /\ stack[k].seen < g

(* The files D are on the host; whatever else a directory among them or    *)
(* the root lists, a frame will come to.                                   *)
Dumped(D) ==
  /\ \A g \in D : Copy(g) \in files
  /\ \A g \in Ids : parent[g] \in D \cup {Root} => g \in D \/ Ahead(g)

(* While the host does not fail, nothing does.                             *)
Unfailing ==
  /\ result \in {"none", "running", "ok"}
  /\ \A k \in 1 .. Len(stack) : [path |-> stack[k].path, is |-> Root] \in files
  /\ result # "none" => \E D \in SUBSET Ids : Dumped(D)

Inductive ==
  /\ Tree
  /\ Plain => Placed /\ NothingElseDumped /\ (~broken => Unfailing)
=============================================================================
