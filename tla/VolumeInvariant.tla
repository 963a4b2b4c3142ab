--------------------------- MODULE VolumeInvariant ---------------------------
(***************************************************************************)
(* The inductive invariant behind the ownership properties of Volume: what *)
(* the running call relies on at each of its steps.                        *)
(***************************************************************************)
EXTENDS Volume

Writing == pc \in {"write", "extend", "trim"}

(* The call is about to link cur in dir, or to take it out of dir, or to   *)
(* erase it.                                                               *)
Linking == pc \in {"link", "linked"} \/ (Writing /\ ret \in {"link", "linked"})
Unlinking ==
  \/ pc \in {"unlink", "resize", "unlinked"}
  \/ Writing /\ ret \in {"resize", "unlinked"}
Erasing == pc \in {"collect", "erase"}

Unlinked(f) == \A d \in inodes : f \notin entries[d]

(* The lists of one file.                                                  *)
ListsApart(f) ==
  /\ Injective(data[f]) /\ Injective(chain[f])
  /\ SeqElems(data[f]) \cap SeqElems(chain[f]) = {}
  /\ f \notin SeqElems(data[f]) \cup SeqElems(chain[f])

(* Nothing belongs to two files, to a file and to the call, or to either   *)
(* and to the system.                                                      *)
Disjoint ==
  /\ \A f \in inodes : ListsApart(f)
  /\ \A f, g \in inodes : f # g => Owned(f) \cap Owned(g) = {}
  /\ \A f \in inodes :
       Owned(f) \cap (Reserved \cup SeqElems(doomed) \cup grabbed) = {}
  /\ Injective(doomed)
  /\ SeqElems(doomed) \cap (Reserved \cup grabbed) = {}
  /\ grabbed \cap Reserved = {}

Claimed(s) ==
  \/ s \in Reserved \/ s \in SeqElems(doomed) \/ s \in grabbed
  \/ \E f \in inodes : s \in Owned(f)

Accounted ==
  /\ \A s \in Sector : s \in used <=> Claimed(s)
  /\ allocated = Cardinality(used)

(* At most one holder for each sector, and exactly one for a used one.     *)
Partition == Disjoint /\ Accounted

(* The locals of the running call.                                         *)
Registers ==
  /\ Writing => target \in inodes
  /\ (Linking \/ Unlinking \/ Erasing) => cur \in inodes
  /\ (Linking \/ Unlinking) => dir \in inodes
  /\ Unlinking => dir = parent[cur]
  /\ Linking \/ Erasing => Unlinked(cur)
  /\ pc = "linked" \/ (Writing /\ ret = "linked") => Matching(dir, cur) = {}
  /\ IF pc = "extend" THEN \E s \in Sector : grabbed = {s} ELSE grabbed = {}
  /\ pc = "trim" => chain[target] # <<>>
  /\ pc # "erase" => doomed = <<>>
  /\ pc = "erase" => data[cur] = <<>>

(* Only an add or a copy erases after a failure, and it never unlinks.     *)
Calls ==
  /\ op = "create" => Linking \/ Erasing \/ pc = "return"
  /\ pc = "idle" => stack = <<>>
  /\ stack # <<>> => op = "delete"

(* The part that presumes that no stray list entry has been acted upon.    *)
SoundOwnership ==
  Sound => Partition /\ Registers /\ EntriesSound

(* Whatever step of whatever call runs next, its locals point to live      *)
(* files, what it is about to link or to erase is in no directory, and the *)
(* sectors are divided among the files, the call, the system and the pool. *)
Inductive == TypeOK /\ Calls /\ SoundOwnership

-----------------------------------------------------------------------------
(***************************************************************************)
(* What else the calls keep true, in layers: each is inductive given the   *)
(* ones before it.                                                         *)
(***************************************************************************)

(* Which steps belong to which call, and what the registers of             *)
(* ccos_write_file hold for each caller.                                   *)
Control ==
  /\ pc = "idle" <=> op = "none"
  /\ op = "delete" <=> stack # <<>>
  /\ Linking => op \in {"create", "rename"}
  /\ Unlinking => op \in {"delete", "rename"}
  /\ Erasing => op \in {"create", "delete"}
  /\ err => op = "delete" \/ Erasing \/ pc = "return"
  /\ Writing => /\ ret = "return" <=> op = "write"
                /\ ret = "link" => op = "create"
                /\ target = IF ret \in {"link", "return"} THEN cur ELSE dir
  /\ pc = "extend" => left > 0
  /\ pc = "trim" => left < 0

(* A file has the content inodes its list needs, except between the        *)
(* removal of the last sector in one and its own, and while it is erased.  *)
ChainFits(f) ==
  IF chain[f] = <<>> THEN Len(data[f]) <= InodeMax
  ELSE LastCount(f) \in 1 .. ContMax

Chains ==
  /\ \A f \in inodes : ChainFits(f) \/ (pc = "trim" /\ f = target)
                                    \/ (Erasing /\ f = cur)
  /\ pc = "extend" => LastListFull(target)
  /\ pc = "trim" => chain[target] # <<>> /\ LastCount(target) = 0

(* The root is in no directory and is never unlinked, linked or erased;    *)
(* what is linked has a name.                                              *)
Rooted ==
  /\ Root \in inodes /\ parent[Root] = Root /\ name[Root] = NoName
  /\ Unlinked(Root)
  /\ \A d \in inodes : \A e \in entries[d] : name[e] \in Names
  /\ Linking => name[cur] \in Names /\ parent[cur] = dir
  /\ op = "rename" => newName \in Names
  /\ Linking \/ Erasing => cur # Root
  /\ Unlinking => cur = Root \/ cur \in entries[dir]
  /\ Unlinking /\ pc # "unlink" => cur # Root

(* Only directories have entries, and a rename leaves a directory one.     *)
Directories ==
  /\ \A d \in inodes : entries[d] # {} => IsDir(d)
  /\ Linking => IsDir(dir)
  /\ op = "rename" /\ Unlinking =>
       (newName \in DirNames <=> name[cur] \in DirNames)

(* No directory is inside itself, not even when the entry that is about to *)
(* be written is counted: every set of files has one that none of them     *)
(* lists.                                                                  *)
Leads(d, f) == f \in entries[d] \/ (Linking /\ d = dir /\ f = cur)

Acyclic ==
  \A S \in SUBSET inodes :
    S # {} => \E f \in S : \A d \in S : ~Leads(d, f)

(* The frames of a recursive delete whose file has not been unlinked: all, *)
(* or all but the innermost.                                               *)
Settled ==
  1 .. (IF Erasing \/ pc = "return" THEN Len(stack) - 1 ELSE Len(stack))

(* They form a path of live directories, each with entries for the kids    *)
(* still to be deleted; no file is met twice, and the path does not come   *)
(* back to the directory in which it began.                                *)
Recursion ==
  stack # <<>> =>
    /\ \A i \in Settled :
         /\ stack[i].file \in inodes
         /\ stack[i].kids \subseteq entries[stack[i].file]
         /\ i > 1 => stack[i].file \in entries[stack[i - 1].file]
    /\ 1 \in Settled /\ stack[1].file # Root =>
         /\ parent[stack[1].file] \in inodes
         /\ stack[1].file \in entries[parent[stack[1].file]]
    /\ \A i \in 2 .. Len(stack) :
         /\ stack[i].file \notin stack[i - 1].kids
         /\ stack[i].file # parent[stack[1].file]
    /\ \A i, j \in 1 .. Len(stack) :
         stack[i].file = stack[j].file => i = j
    /\ pc # "delete" =>
         cur = stack[Len(stack)].file /\ stack[Len(stack)].kids = {}

(* A stray slot is nowhere as long as no content inode was linked with one. *)
NoStrays == (~stale => \A f \in Sector : tail[f] = <<>>) /\ (damaged => stale)

(* What the list of the file written has when as many sectors as are left  *)
(* have been added or removed.                                             *)
Coming == Len(data[target]) + left + (IF pc = "trim" THEN 1 ELSE 0)

(* ccos_write_file moves towards the number of sectors it needs, unless it *)
(* has counted stray slots: then it removes too many.  A new file has none *)
(* to count, nor has the second of the two writes by which a directory     *)
(* loses an entry.  The first of them needs no more sectors than there     *)
(* are; a directory that gains an entry needs one at most.                 *)
Progress ==
  Writing =>
    /\ newSize >= 0
    /\ ret \in {"link", "unlinked"} \/ ~stale =>
         Coming = SectorsFor(newSize)
    /\ ret = "resize" =>
         left <= 0 /\ (tail[target] = <<>> \/ Coming < SectorsFor(newSize))
    /\ ret = "linked" => left <= 1
    /\ ret = "link" => newSize = size[target]
    /\ ret \in {"link", "return"} => entries[target] = {}
    /\ ret = "return" => ~IsDir(target)

(* A directory that loses an entry is written twice; the first write may   *)
(* cut it short, which the second one makes good.                          *)
Cut == pc = "resize" \/ (Writing /\ ret = "unlinked")
Rewriting == Cut \/ (Writing /\ ret = "resize")

(* The list of f is not what the size of f says: f is being erased, or     *)
(* written and not yet stored.                                             *)
Changing(f) ==
  \/ Erasing /\ f = cur
  \/ Writing /\ f = target /\ (left <= 0 \/ ret \in {"link", "unlinked"})

(* The list of every other file is as long as its size wants it, with or   *)
(* without stray slots behind it.                                          *)
FilesFit == \A f \in inodes : ~Changing(f) => Fits(f)

(* The content inodes of a list of n sectors.                              *)
NodesFor(n) ==
  IF n <= InodeMax THEN 0 ELSE (n - InodeMax + ContMax - 1) \div ContMax

(* What the first write takes from the directory is there for the second:  *)
(* it finds all the sectors and content inodes that it needs.              *)
RoomToRewrite ==
  Rewriting =>
    SectorsFor(newSize) + NodesFor(SectorsFor(newSize))
      <= NumSectors - allocated + Len(data[dir]) + Len(chain[dir])
           + (IF pc = "extend" THEN 1 ELSE 0)

(* A new directory has a size as well, so that its first entry fits.       *)
DirSizes ==
  /\ \A d \in inodes : IsDir(d) => size[d] >= 1 \/ (Cut /\ d = dir)
  /\ \A d \in inodes :
       DirSizeExact(d)
         \/ (d = dir /\ (pc \in {"linked", "unlinked"} \/ Cut))
  /\ pc = "linked" \/ (Writing /\ ret = "linked") =>
       newSize = 1 + Cardinality(EntryBytes(dir)) + EntrySize[name[cur]]
  /\ pc = "resize" \/ (Writing /\ ret = "resize") =>
       newSize = 1 + Cardinality(EntryBytes(dir))
  /\ pc = "resize" => tail[dir] = <<>>
  /\ pc = "unlinked" \/ (Writing /\ ret = "unlinked") =>
       newSize = 1 + Cardinality(EntryBytes(dir)) - EntrySize[name[cur]]
  /\ pc \in {"linked", "unlinked"} => size[dir] = newSize

WriteDone ==
  pc = "return" /\ op = "write" /\ ~err /\ ~stale =>
    size[cur] = newSize /\ Len(data[cur]) = SectorsFor(newSize)

(* Every file is in its directory, but for the one the call is about.      *)
Found ==
  \A f \in inodes \ ({Root} \cup orphans) :
    \/ parent[f] \in inodes /\ f \in entries[parent[f]]
    \/ f = cur /\ (Linking \/ Erasing)

(* A recursive delete forgets no entry: what a directory lists is still to *)
(* be deleted or being deleted; what is erased or new lists nothing.       *)
Complete ==
  /\ stack # <<>> =>
       /\ \A i \in Settled :
            entries[stack[i].file] \subseteq
              stack[i].kids \cup
              (IF i < Len(stack) THEN {stack[i + 1].file} ELSE {})
       /\ pc = "return" /\ Len(stack) > 1 =>
            entries[stack[Len(stack) - 1].file]
              \subseteq stack[Len(stack) - 1].kids
  /\ Erasing \/ (Linking /\ op = "create") => entries[cur] = {}

(* As long as an add or a copy can fail it has taken sectors for its own   *)
(* file only.                                                              *)
OthersHold ==
  {s \in Sector : s \in Reserved \/ \E f \in inodes \ {cur} : s \in Owned(f)}

Rollback ==
  op = "create" =>
    /\ \/ Erasing \/ pc = "link"
       \/ Writing /\ (ret = "link" \/ left > 0)
       => before = OthersHold
    /\ pc = "return" /\ err => used = before

(* All of it, as long as no stray slot was acted upon; that nothing dangles *)
(* follows.                                                                *)
Tree == Rooted /\ Directories /\ Acyclic /\ Recursion
Sizes == Progress /\ FilesFit /\ DirSizes /\ WriteDone
Kept == Found /\ Complete /\ Rollback

Invariant ==
  /\ Inductive /\ Control /\ Chains /\ NoStrays
  /\ ~damaged => ~dangling /\ Tree /\ Sizes /\ RoomToRewrite /\ Kept
=============================================================================
