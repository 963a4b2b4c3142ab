------------------------------- MODULE Volume -------------------------------
(***************************************************************************)
(* A CCOS volume under the calls of the library (ccos_image.c): add, copy, *)
(* write, delete and rename of files in a tree of directories.  One call   *)
(* runs at a time.  It is taken in steps, each with at most one change of  *)
(* the bitmap, so that every early return leaves the volume as the code    *)
(* does: pc names the step, the call's locals are variables.               *)
(*                                                                         *)
(* Names stand for themselves up to case.  A directory's bytes are its     *)
(* size: one byte and EntrySize bytes per entry.                           *)
(***************************************************************************)
EXTENDS FileSectors

CONSTANTS
  Root,       \* sector of the root directory's inode (the superblock)
  Names,      \* names a caller may give
  DirNames,   \* those of type Subject
  NoName,     \* the empty name of the root directory and of a bare inode
  EntrySize,  \* [Names \cup {NoName} -> Nat] bytes of a directory entry
  LogSize,    \* bytes of content in a sector; also a new directory's size
  FileSizes   \* sizes a caller may ask for

ASSUME VolumeAssumption ==
  /\ {Root, Root + 1} \subseteq Sector \ Reserved
  /\ DirNames \subseteq Names
  /\ NoName \notin Names
  /\ LogSize \in Nat \ {0}
  /\ \A n \in Names \cup {NoName} : EntrySize[n] \in 0 .. LogSize
  /\ FileSizes \subseteq Nat

VARIABLES
  entries,  \* [Sector -> SUBSET Sector] the files linked in a directory
  name,     \* [Sector -> Names \cup {NoName}] the name in the inode
  parent,   \* [Sector -> Sector] the inode's dir_file_id
  size,     \* [Sector -> Int] the inode's file_size, a directory's dir_length
  pc,       \* the step the running call takes next
  op,       \* the running call
  err,      \* whether the call being left returns an error
  cur,      \* the file the call is about
  dir,      \* the directory the file is linked in or is to be linked in
  newName,  \* the name a rename gives
  target,   \* ccos_write_file: the file written, ...
  newSize,  \* ... the size asked for, ...
  left,     \* ... sectors still to add, or to remove when negative, ...
  ret,      \* ... and the step its success continues with
  doomed,   \* sectors still to erase of the list read from the file
  stack,    \* ccos_delete_file's frames: [file, kids still to delete]
  before,   \* history: the used sectors when the call began
  orphans,  \* history: files that a failed rename left unlinked
  dangling, \* history: a delete went on with an inode already erased
  damaged   \* history: a stray list entry was written to or erased, or
            \* cost a directory the bytes of a new entry

treeVars == <<entries, name, parent, size>>
writeVars == <<target, newSize, left, ret>>
callVars == <<op, cur, dir, newName, before>>
histVars == <<orphans, dangling, damaged>>
vars == <<bitmapVars, listVars, treeVars, writeVars, callVars, histVars,
          pc, err, doomed, stack>>

(* ccos_is_dir: the root, or a name of type Subject.                       *)
IsDir(f) == parent[f] = f \/ name[f] \in DirNames

(* Callers pass files they found in a directory, or the root directory.    *)
Linked(f) == f \in inodes /\ \E d \in inodes : f \in entries[d]
IsOpenDir(d) == d \in inodes /\ IsDir(d) /\ (d = Root \/ Linked(d))

(* Mutant of Matching: entries compared by file id.                        *)
MatchingById(d, f) == {e \in entries[d] : e = f}

(* find_directory_entry_index compares names, never file ids.              *)
Matching(d, f) == {e \in entries[d] : name[e] = name[f]}

SectorsFor(bytes) == (bytes + LogSize - 1) \div LogSize

(* real_dir_size: the end of the last entry, which is the stored size as   *)
(* soon as there is one.                                                   *)
RealDirSize(d) == IF entries[d] = {} THEN 1 ELSE size[d]

Least(a, b) == IF a <= b THEN a ELSE b

Init ==
  /\ used = Reserved \cup {Root, Root + 1}
  /\ allocated = Cardinality(Reserved \cup {Root, Root + 1})
  /\ pristine = Sector \ used
  /\ inodes = {Root}
  /\ data = [s \in Sector |-> IF s = Root THEN <<Root + 1>> ELSE <<>>]
  /\ chain = [s \in Sector |-> <<>>]
  /\ tail = [s \in Sector |-> <<>>]
  /\ grabbed = {} /\ stale = FALSE
  /\ entries = [s \in Sector |-> {}]
  /\ name = [s \in Sector |-> NoName]
  /\ parent = [s \in Sector |-> Root]
  /\ size = [s \in Sector |-> IF s = Root THEN LogSize ELSE 0]
  /\ pc = "idle" /\ op = "none" /\ err = FALSE
  /\ cur = Root /\ dir = Root /\ newName = NoName
  /\ target = Root /\ newSize = 0 /\ left = 0 /\ ret = "return"
  /\ doomed = <<>> /\ stack = <<>>
  /\ before = {} /\ orphans = {} /\ dangling = FALSE /\ damaged = FALSE

-----------------------------------------------------------------------------
(* ccos_write_file as a subroutine, continuing with step r.                *)

(* It counts every listed sector, compares with the sectors needed and     *)
(* adds or removes the difference.                                         *)
CallWrite(f, count, bytes, r) ==
  /\ target' = f
  /\ newSize' = bytes
  /\ left' = SectorsFor(bytes) - count
  /\ ret' = r
  /\ pc' = "write"

(* Mutant of Fail: nothing is rolled back.                                 *)
FailKeepingFile ==
  /\ err' = TRUE
  /\ pc' = "return"
  /\ orphans' = IF op = "rename" /\ cur \notin entries[dir]
                THEN orphans \cup {cur} ELSE orphans

(* An error ends the call.  Add and copy first erase the file they made;   *)
(* a rename that has unlinked the file does not link it again.             *)
Fail ==
  /\ err' = TRUE
  /\ pc' = IF op = "create" THEN "collect" ELSE "return"
  /\ orphans' = IF op = "rename" /\ cur \notin entries[dir]
                THEN orphans \cup {cur} ELSE orphans

GrowInPlace ==
  /\ pc = "write" /\ left > 0
  /\ ~LastListFull(target)
  /\ \E s \in Sector : LowestFree(s) /\ AppendSector(target, s)
  /\ left' = left - 1
  /\ UNCHANGED <<treeVars, callVars, histVars, pc, err, doomed, stack,
                 target, newSize, ret>>

GrowGrab ==
  /\ pc = "write" /\ left > 0
  /\ LastListFull(target)
  /\ \E s \in Sector : LowestFree(s) /\ GrabSector(s)
  /\ pc' = "extend"
  /\ UNCHANGED <<treeVars, writeVars, callVars, histVars, err, doomed, stack>>

(* Mutants of GrowNoSpace: the size asked for is stored all the same; what *)
(* fits is written and reported as success.                                *)
GrowNoSpaceSized ==
  /\ pc = "write" /\ left > 0
  /\ Available = {}
  /\ Fail
  /\ size' = [size EXCEPT ![target] = newSize]
  /\ UNCHANGED <<bitmapVars, listVars, entries, name, parent, writeVars,
                 callVars, dangling, damaged, doomed, stack>>

GrowNoSpaceIgnored ==
  /\ pc = "write" /\ left > 0
  /\ Available = {}
  /\ left' = 0
  /\ UNCHANGED <<bitmapVars, listVars, treeVars, callVars, histVars, pc, err,
                 doomed, stack, target, newSize, ret>>

GrowNoSpace ==
  /\ pc = "write" /\ left > 0
  /\ Available = {}
  /\ Fail
  /\ UNCHANGED <<bitmapVars, listVars, treeVars, writeVars, callVars,
                 dangling, damaged, doomed, stack>>

Extend ==
  /\ pc = "extend"
  /\ \E s \in grabbed, c \in Sector :
       LowestFree(c) /\ AddContentInode(target, s, c)
  /\ left' = left - 1
  /\ pc' = "write"
  /\ UNCHANGED <<treeVars, callVars, histVars, err, doomed, stack,
                 target, newSize, ret>>

ExtendNoSpace ==
  /\ pc = "extend"
  /\ Available = {}
  /\ \E s \in grabbed : DropGrabbed(s)
  /\ Fail
  /\ UNCHANGED <<treeVars, writeVars, callVars, dangling, damaged, doomed,
                 stack>>

(* Mutant of Shrink: an emptied content inode stays linked.                *)
ShrinkUntrimmed ==
  /\ pc = "write" /\ left < 0
  /\ data[target] # <<>>
  /\ RemoveLastSector(target)
  /\ left' = left + 1
  /\ UNCHANGED <<treeVars, callVars, histVars, pc, err, doomed, stack,
                 target, newSize, ret>>

(* A content inode whose only entry goes is removed as well (Trim).        *)
Shrink ==
  /\ pc = "write" /\ left < 0
  /\ data[target] # <<>>
  /\ RemoveLastSector(target)
  /\ IF chain[target] # <<>> /\ LastCount(target) = 1
     THEN pc' = "trim" /\ left' = left
     ELSE pc' = "write" /\ left' = left + 1
  /\ UNCHANGED <<treeVars, callVars, histVars, err, doomed, stack,
                 target, newSize, ret>>

(* Stray entries were counted: there is nothing left to remove.            *)
ShrinkNothing ==
  /\ pc = "write" /\ left < 0
  /\ data[target] = <<>>
  /\ left' = left + 1
  /\ UNCHANGED <<bitmapVars, listVars, treeVars, callVars, histVars, pc, err,
                 doomed, stack, target, newSize, ret>>

Trim ==
  /\ pc = "trim"
  /\ RemoveContentInode(target)
  /\ left' = left + 1
  /\ pc' = "write"
  /\ UNCHANGED <<treeVars, callVars, histVars, err, doomed, stack,
                 target, newSize, ret>>

(* ccos_write_file wants more sectors than the list has up to its marker.  *)
Short(f) == Len(data[f]) < SectorsFor(newSize)

(* The bytes are copied into the listed sectors until they are all written *)
(* or the list ends, and those written are the size.  What does not fit in *)
(* front of the end marker goes to the stray entries behind it.  Where     *)
(* there are none the file is cut short; a directory that was to gain an   *)
(* entry then counts entries whose bytes are gone.                         *)
Store ==
  /\ pc = "write" /\ left = 0
  /\ size' = [size EXCEPT ![target] =
                Least(newSize, Len(FileSectorList(target)) * LogSize)]
  /\ pc' = ret
  /\ damaged' = (damaged \/ (Short(target) /\ (tail[target] # <<>>
                                             \/ ret = "linked")))
  /\ UNCHANGED <<bitmapVars, listVars, entries, name, parent, writeVars,
                 callVars, orphans, dangling, err, doomed, stack>>

-----------------------------------------------------------------------------
(* ccos_add_file, ccos_create_dir and ccos_copy_file of a plain file.      *)

BeginCall(o, f, d) ==
  /\ pc = "idle"
  /\ op' = o /\ cur' = f /\ dir' = d
  /\ before' = used

NewInode(s, d, n, bytes) ==
  /\ LowestFree(s)
  /\ MarkUsed(s)
  /\ InitInode(s)
  /\ entries' = [entries EXCEPT ![s] = {}]
  /\ name' = [name EXCEPT ![s] = n]
  /\ parent' = [parent EXCEPT ![s] = d]
  /\ size' = [size EXCEPT ![s] = bytes]

(* A new plain file: name, size and contents come from the caller or from  *)
(* the file that is copied.                                                *)
BeginCreate(d, n, bytes) ==
  /\ \E s \in Sector :
       /\ BeginCall("create", s, d)
       /\ NewInode(s, d, n, bytes)
       /\ CallWrite(s, 0, bytes, "link")
  /\ UNCHANGED <<histVars, newName, err, doomed, stack>>

(* ccos_create_dir adds a file of type Subject, one sector of content long. *)
BeginCreateDir(d, n) == n \in DirNames /\ BeginCreate(d, n, LogSize)

CreateNoSpace(d) ==
  /\ Available = {}
  /\ BeginCall("create", Root, d)
  /\ err' = TRUE
  /\ pc' = "return"
  /\ UNCHANGED <<bitmapVars, listVars, treeVars, writeVars, histVars, newName,
                 doomed, stack>>

(* ccos_copy_file claims the inode before it reads the source.             *)
CopySourceUnreadable(d) ==
  /\ \E s \in Sector :
       /\ BeginCall("create", s, d)
       /\ NewInode(s, d, NoName, 0)
  /\ err' = TRUE
  /\ pc' = "collect"
  /\ UNCHANGED <<writeVars, histVars, newName, doomed, stack>>

(* Mutant of Link: a name that is taken is not looked for.                 *)
LinkUnchecked ==
  /\ pc = "link"
  /\ CallWrite(dir, Len(FileSectorList(dir)),
               RealDirSize(dir) + EntrySize[name[cur]], "linked")
  /\ UNCHANGED <<bitmapVars, listVars, treeVars, callVars, histVars, err,
                 doomed, stack>>

(* ccos_add_file_to_directory.                                             *)
Link ==
  /\ pc = "link"
  /\ Matching(dir, cur) = {}
  /\ CallWrite(dir, Len(FileSectorList(dir)),
               RealDirSize(dir) + EntrySize[name[cur]], "linked")
  /\ UNCHANGED <<bitmapVars, listVars, treeVars, callVars, histVars, err,
                 doomed, stack>>

LinkExists ==
  /\ pc = "link"
  /\ Matching(dir, cur) # {}
  /\ Fail
  /\ UNCHANGED <<bitmapVars, listVars, treeVars, writeVars, callVars,
                 dangling, damaged, doomed, stack>>

AddEntry ==
  /\ pc = "linked"
  /\ entries' = [entries EXCEPT ![dir] = @ \cup {cur}]
  /\ parent' = [parent EXCEPT ![cur] = dir]
  /\ pc' = "return"
  /\ UNCHANGED <<bitmapVars, listVars, name, size, writeVars, callVars,
                 histVars, err, doomed, stack>>

-----------------------------------------------------------------------------
(* ccos_write_file called from outside, on a plain file.                   *)

BeginWrite(f, bytes) ==
  /\ Linked(f) /\ ~IsDir(f)
  /\ BeginCall("write", f, parent[f])
  /\ CallWrite(f, Len(FileSectorList(f)), bytes, "return")
  /\ UNCHANGED <<bitmapVars, listVars, treeVars, histVars, newName, err,
                 doomed, stack>>

-----------------------------------------------------------------------------
(* ccos_delete_file_from_parent_dir, for delete and rename.                *)

Unlink ==
  /\ pc = "unlink"
  /\ Matching(dir, cur) # {}
  /\ CallWrite(dir, Len(FileSectorList(dir)), size[dir], "resize")
  /\ UNCHANGED <<bitmapVars, listVars, treeVars, callVars, histVars, err,
                 doomed, stack>>

UnlinkMissing ==
  /\ pc = "unlink"
  /\ Matching(dir, cur) = {}
  /\ err' = TRUE
  /\ pc' = "return"
  /\ UNCHANGED <<bitmapVars, listVars, treeVars, writeVars, callVars,
                 histVars, doomed, stack>>

(* The second write has the bytes that the first one had, less the entry;  *)
(* it makes a directory whole that the first one has cut short.            *)
Resize ==
  /\ pc = "resize"
  /\ CallWrite(dir, Len(FileSectorList(dir)),
               newSize - EntrySize[name[cur]], "unlinked")
  /\ UNCHANGED <<bitmapVars, listVars, treeVars, callVars, histVars, err,
                 doomed, stack>>

(* The entry goes; a rename then sets the name and links the file again.   *)
DropEntry ==
  /\ pc = "unlinked"
  /\ \E e \in Matching(dir, cur) :
       entries' = [entries EXCEPT ![dir] = @ \ {e}]
  /\ size' = [size EXCEPT ![dir] = newSize]
  /\ IF op = "rename"
     THEN pc' = "link" /\ name' = [name EXCEPT ![cur] = newName]
     ELSE pc' = "collect" /\ UNCHANGED name
  /\ UNCHANGED <<bitmapVars, listVars, parent, writeVars, callVars, histVars,
                 err, doomed, stack>>

(* A new type may not turn a file into a directory or back.                *)
BeginRename(f, n) ==
  /\ Linked(f) /\ f # Root
  /\ n \in DirNames <=> name[f] \in DirNames
  /\ BeginCall("rename", f, parent[f])
  /\ newName' = n
  /\ pc' = "unlink"
  /\ UNCHANGED <<bitmapVars, listVars, treeVars, writeVars, histVars, err,
                 doomed, stack>>

-----------------------------------------------------------------------------
(* ccos_delete_file: the children of a directory first, errors ignored.    *)

(* Mutant of Frame: a directory is deleted like a plain file.              *)
ChildlessFrame(f) == [file |-> f, kids |-> {}]

Frame(f) == [file |-> f, kids |-> IF IsDir(f) THEN entries[f] ELSE {}]

BeginDelete(f) ==
  /\ Linked(f) \/ f = Root
  /\ BeginCall("delete", f, parent[f])
  /\ stack' = <<Frame(f)>>
  /\ pc' = "delete"
  /\ UNCHANGED <<bitmapVars, listVars, treeVars, writeVars, histVars, newName,
                 err, doomed>>

(* Mutant of DeleteChild: the loop does not advance.                       *)
DeleteChildAgain ==
  /\ pc = "delete"
  /\ \E k \in stack[Len(stack)].kids : stack' = Append(stack, Frame(k))
  /\ UNCHANGED <<bitmapVars, listVars, treeVars, writeVars, callVars,
                 histVars, pc, err, doomed>>

DeleteChild ==
  /\ pc = "delete"
  /\ \E k \in stack[Len(stack)].kids :
       stack' = Append([stack EXCEPT ![Len(stack)].kids = @ \ {k}], Frame(k))
  /\ UNCHANGED <<bitmapVars, listVars, treeVars, writeVars, callVars,
                 histVars, pc, err, doomed>>

DeleteTop ==
  /\ pc = "delete"
  /\ stack[Len(stack)].kids = {}
  /\ LET f == stack[Len(stack)].file
     IN  /\ cur' = f
         /\ dir' = parent[f]
         /\ dangling' = (dangling \/ ~({f, parent[f]} \subseteq inodes))
  /\ err' = FALSE
  /\ pc' = "unlink"
  /\ UNCHANGED <<bitmapVars, listVars, treeVars, writeVars, op, newName,
                 before, orphans, damaged, doomed, stack>>

(* Also erase_unlinked_file: the listed sectors, the content inodes from   *)
(* the last, the inode.                                                    *)
Collect ==
  /\ pc = "collect"
  /\ doomed' = FileSectorList(cur)
  /\ DetachData(cur)
  /\ pc' = "erase"
  /\ damaged' = (damaged \/ tail[cur] # <<>>)
  /\ UNCHANGED <<treeVars, writeVars, callVars, orphans, dangling, err, stack>>

EraseDataSector ==
  /\ pc = "erase" /\ doomed # <<>>
  /\ EraseSector(Head(doomed))
  /\ doomed' = Tail(doomed)
  /\ UNCHANGED <<listVars, treeVars, writeVars, callVars, histVars, pc, err,
                 stack>>

EraseContentInode ==
  /\ pc = "erase" /\ doomed = <<>> /\ chain[cur] # <<>>
  /\ RemoveContentInode(cur)
  /\ UNCHANGED <<treeVars, writeVars, callVars, histVars, pc, err, doomed,
                 stack>>

(* Mutant of EraseFile: the inode goes before its content inodes.          *)
EraseFileEarly ==
  /\ pc = "erase" /\ doomed = <<>>
  /\ EraseInode(cur)
  /\ entries' = [entries EXCEPT ![cur] = {}]
  /\ name' = [name EXCEPT ![cur] = NoName]
  /\ parent' = [parent EXCEPT ![cur] = 0]
  /\ size' = [size EXCEPT ![cur] = 0]
  /\ pc' = "return"
  /\ UNCHANGED <<writeVars, callVars, histVars, err, doomed, stack>>

EraseFile ==
  /\ pc = "erase" /\ doomed = <<>> /\ chain[cur] = <<>>
  /\ EraseInode(cur)
  /\ entries' = [entries EXCEPT ![cur] = {}]
  /\ name' = [name EXCEPT ![cur] = NoName]
  /\ parent' = [parent EXCEPT ![cur] = 0]
  /\ size' = [size EXCEPT ![cur] = 0]
  /\ pc' = "return"
  /\ UNCHANGED <<writeVars, callVars, histVars, err, doomed, stack>>

-----------------------------------------------------------------------------
(* Mutants of ReturnToLoop: the loop is entered once more after the        *)
(* outermost call, or on the frame of the file just deleted.               *)
ReturnToLoopAlways ==
  /\ pc = "return" /\ Len(stack) > 0
  /\ stack' = AllButLast(stack)
  /\ pc' = "delete"
  /\ UNCHANGED <<bitmapVars, listVars, treeVars, writeVars, callVars,
                 histVars, err, doomed>>

ReturnToSameFrame ==
  /\ pc = "return" /\ Len(stack) > 1
  /\ pc' = "delete"
  /\ UNCHANGED <<bitmapVars, listVars, treeVars, writeVars, callVars,
                 histVars, err, doomed, stack>>

(* A nested delete returns to the loop over its siblings.                  *)
ReturnToLoop ==
  /\ pc = "return" /\ Len(stack) > 1
  /\ stack' = AllButLast(stack)
  /\ pc' = "delete"
  /\ UNCHANGED <<bitmapVars, listVars, treeVars, writeVars, callVars,
                 histVars, err, doomed>>

(* The locals are gone when the call is.                                   *)
Return ==
  /\ pc = "return" /\ Len(stack) <= 1
  /\ stack' = <<>> /\ pc' = "idle" /\ op' = "none" /\ err' = FALSE
  /\ cur' = Root /\ dir' = Root /\ newName' = NoName /\ before' = {}
  /\ target' = Root /\ newSize' = 0 /\ left' = 0 /\ ret' = "return"
  /\ UNCHANGED <<bitmapVars, listVars, treeVars, histVars, doomed>>

Begin ==
  \/ \E d \in Sector :
       /\ IsOpenDir(d)
       /\ \/ \E n \in Names \ DirNames, bytes \in FileSizes :
               BeginCreate(d, n, bytes)
          \/ \E n \in Names : BeginCreateDir(d, n)
          \/ CreateNoSpace(d)
          \/ CopySourceUnreadable(d)
  \/ \E f \in Sector, bytes \in FileSizes : BeginWrite(f, bytes)
  \/ \E f \in Sector, n \in Names : BeginRename(f, n)
  \/ \E f \in Sector : BeginDelete(f)

Step ==
  \/ GrowInPlace \/ GrowGrab \/ GrowNoSpace \/ Extend \/ ExtendNoSpace
  \/ Shrink \/ ShrinkNothing \/ Trim \/ Store
  \/ Link \/ LinkExists \/ AddEntry
  \/ Unlink \/ UnlinkMissing \/ Resize \/ DropEntry
  \/ DeleteChild \/ DeleteTop
  \/ Collect \/ EraseDataSector \/ EraseContentInode \/ EraseFile
  \/ ReturnToLoop \/ Return

Next == Begin \/ Step

Spec == Init /\ [][Next]_vars

(* A call runs on until it returns; nobody need begin another.             *)
FairSpec == Spec /\ WF_vars(Step)
-----------------------------------------------------------------------------
(***************************************************************************)
(* Properties.                                                             *)
(***************************************************************************)

PcLabels == {"idle", "write", "extend", "trim", "link", "linked", "unlink",
             "resize", "unlinked", "delete", "collect", "erase", "return"}
RetLabels == {"link", "linked", "resize", "unlinked", "return"}
Frames == [file : Sector, kids : SUBSET Sector]

TreeType ==
  /\ entries \in [Sector -> SUBSET Sector]
  /\ name \in [Sector -> Names \cup {NoName}]
  /\ parent \in [Sector -> Sector]
  /\ size \in [Sector -> Int]

CallType ==
  /\ pc \in PcLabels
  /\ op \in {"none", "create", "write", "delete", "rename"}
  /\ err \in BOOLEAN
  /\ cur \in Sector /\ dir \in Sector
  /\ newName \in Names \cup {NoName}
  /\ target \in Sector /\ newSize \in Int /\ left \in Int
  /\ ret \in RetLabels
  /\ doomed \in Seq(Sector)
  /\ stack \in Seq(Frames)
  /\ pc = "delete" => stack # <<>>
  /\ before \subseteq Sector /\ orphans \subseteq Sector
  /\ dangling \in BOOLEAN /\ damaged \in BOOLEAN

TypeOK == BitmapType /\ ListType /\ TreeType /\ CallType

(* Stray list entries (UnwrittenSlots) do no harm until somebody writes to *)
(* or erases what they name, or a directory loses an entry to them.        *)
Sound == ~damaged /\ ~dangling

(* Every set bit is a reserved sector, a sector some file holds, or one    *)
(* the running call is about to attach or to erase - and nothing else is   *)
(* set: no sector leaks and none in use is handed out again, at any step   *)
(* of any call, failures included.                                         *)
SectorsAccounted ==
  Sound => used = Reserved \cup (UNION {Owned(f) : f \in inodes})
                           \cup SeqElems(doomed) \cup grabbed

Injective(s) == \A i, j \in 1 .. Len(s) : s[i] = s[j] => i = j

(* A sector is in one list of one file, once; what is about to be erased   *)
(* or attached belongs to no file; no file has a reserved sector.          *)
NoSharing ==
  Sound =>
    /\ \A f \in inodes :
         /\ Injective(data[f]) /\ Injective(chain[f])
         /\ SeqElems(data[f]) \cap SeqElems(chain[f]) = {}
         /\ f \notin SeqElems(data[f]) \cup SeqElems(chain[f])
         /\ Owned(f) \cap (Reserved \cup SeqElems(doomed) \cup grabbed) = {}
    /\ \A f, g \in inodes : f # g => Owned(f) \cap Owned(g) = {}
    /\ Injective(doomed)
    /\ SeqElems(doomed) \cap (Reserved \cup grabbed) = {}
    /\ grabbed \cap Reserved = {}

(* ccos_validate_disk_bitmap's test: the counter that moves with every     *)
(* mark agrees with the bits, so no sector is ever marked or freed twice.  *)
CounterExact == Sound => allocated = Cardinality(used)

(* An add or a copy that fails - no space for the file, for its content    *)
(* inode or for the directory, name taken, source unreadable - leaves the  *)
(* bitmap as it found it (erase_unlinked_file).                            *)
RollbackRestores ==
  pc = "return" /\ op = "create" /\ err /\ Sound => used = before

(* Directory entries lead to live files that name the directory as their   *)
(* parent, and no two entries of a directory have the same name.           *)
EntriesSound ==
  \A d \in inodes : \A e \in entries[d] :
    /\ e \in inodes /\ parent[e] = d
    /\ \A g \in entries[d] : name[g] = name[e] => g = e

(* They do at every step, until a call has acted upon a stray list entry.  *)
EntriesLead == Sound => EntriesSound

(* Between calls every file can be found in its parent directory, unless a *)
(* rename failed after it had unlinked the file.                           *)
EveryFileFound ==
  pc = "idle" /\ Sound =>
    \A f \in inodes \ ({Root} \cup orphans) : f \in entries[parent[f]]

(* A file's sectors hold all the bytes its inode declares.                 *)
Fits(f) == SectorsFor(size[f]) <= Len(data[f])

(* The bytes that the entries of directory d take.                         *)
EntryBytes(d) == UNION {{e} \X (1 .. EntrySize[name[e]]) : e \in entries[d]}

(* A directory's stored size is what its entries take, so that the place   *)
(* of the next entry and the end of the data after a removal are right.    *)
DirSizeExact(d) ==
  entries[d] # {} => size[d] = 1 + Cardinality(EntryBytes(d))

(* Sizes are right between calls, also after a write or an entry that ran  *)
(* out of space, and whether or not there are stray slots.                 *)
SizesRight ==
  pc = "idle" /\ Sound => \A f \in inodes : DirSizeExact(f) /\ Fits(f)

(* Between calls a file has exactly the content inodes its list needs.     *)
ContentInodesNeeded ==
  pc = "idle" /\ Sound =>
    \A f \in inodes :
      IF chain[f] = <<>> THEN Len(data[f]) <= InodeMax
      ELSE LastCount(f) \in 1 .. ContMax

(* A recursive delete never goes on with a file already erased.            *)
NeverDangling == ~damaged => ~dangling

(* A write that reports success has made the file as long as it was asked  *)
(* to, on exactly the sectors that takes; ccos_write_file itself only      *)
(* warns when it runs out of listed sectors before it runs out of bytes.   *)
WriteComplete ==
  pc = "return" /\ op = "write" /\ ~err /\ ~stale =>
    size[cur] = newSize /\ Len(data[cur]) = SectorsFor(newSize)

(* Every call returns.                                                     *)
CallReturns == pc # "idle" ~> pc = "idle"
=============================================================================
