# A TLA+ model of CCOS-disk-utils

CCOS-disk-utils reads and changes disk images of GRiD OS (CCOS): a C library
(`ccos_disk`, `ccos_private`, `ccos_image`, `ccos_format`) and a command line
tool (`tool/`).  Everything runs in one thread.  What makes it hard is not
concurrency but failure in the middle: a volume that fills up between two steps
of a call, a list that is exactly full, a recursive delete that changes the
directory it walks, an image that is truncated before it is written.

## 1. Inventory

| part | state | operations | what it has to get right |
|---|---|---|---|
| allocation bitmap (`ccos_private.c` 190-387) | one bit per sector, one 16-bit counter | find free, mark, erase, validate | the counter is the number of bits; nothing is marked or freed twice |
| sector lists (`ccos_private.c` 110-184, 394-651) | list in the inode, chain of content inodes | read, append, add or remove a content inode, remove the last sector | a sector is in one list once; no sector leaks when the volume is full; the chain is as long as the list needs |
| directory entries (`ccos_private.c` 653-969) | bytes of the directory file, `dir_count`, `dir_length` | find, insert, remove | entries lead to live files; names are unique; sizes agree |
| file operations (`ccos_image.c`) | none of their own | add, copy, create directory, write, replace, rename, delete | a failed add undoes everything; a recursive delete visits each file once; a file can be found until it is deleted |
| formatter (`ccos_format.c`) | the new image | `ccos_new_disk_image` | exactly the system sectors and the root are marked; 16-bit arithmetic |
| tool (`tool/main.c`, `wrapper.c`, `common.c`) | image file, copy in memory | one command per process | the exit code tells the truth; no image is damaged unless it was asked for |
| search and dump (`wrapper.c` 31-113, 208-514) | frames of the traversal; files on the host | traversal with callbacks | a file that is there is found, and which of several; a dump writes every file to its place and ends |
| printing (`wrapper.c` 115-206) | none | traversal | output |
| names and types (`ccos_image.c`, `ccos_private.c` 1020-1068) | name in the inode | parse, build, rename | a rename leaves a directory a directory; no name is longer than 80 characters |
| checksums (`ccos_private.c`) | a field of each header | update, validate | the last change of a sector is followed by an update |
| labels, dates, versions, string helpers | fields of the inode | accessors | - |
| boot data, error table, geometry table | constants | - | - |

How they interact: the tool calls the library on an image in memory; a file
operation calls `ccos_write_file` for the file and again, through the entry
functions, for the directory; `ccos_write_file` calls the list functions, and
these the bitmap.  All share the image's bytes.  There are no callbacks that
change state, no threads, no time-outs and no retries.  A crash matters only
for the tool, whose `save_image` is the only persistent effect.

`PROJECT.json` lists the hazards found, each with its line.

## 2. Modules

Three layers, each the same things in more detail, and the tool beside them:

| what | abstract | detailed | link |
|---|---|---|---|
| who holds a sector | `SectorOwnership` | `Volume` (over `FileSectors`, `SectorMap`) | refinement in `VolumeOwnership` |
| bitmap | `SectorMap`, as a machine of its own in `Allocation` | `Bitmask` | refinement `ImplementsAllocation`, proved |
| list of a file | `FileSectors`, as a machine of its own in `SectorList` | `ContentList` | refinement `ImplementsSectorList`, proved |
| what a directory lists | `Directory` | `DirData` | refinement `ImplementsDirectory`, proved |
| files by name | - | `Catalog` | - |
| new image | - | `Format` | `StartsVolume`: its result is `Volume`'s `Init` |
| one command of the tool | - | `HostTool`; the dump `Dump` | - |

So what is shown or proved of `Volume` with sets and sequences carries over to
bits, slots, markers, links and counters.  `VolumeInvariant` holds the inductive
invariant of `Volume`, `ContentListInvariant` and `DumpInvariant` those of `ContentList` and `Dump`; `MC*` modules hold constants for TLC, `*Proofs` modules
theorems.

**SectorMap** - `used`, `allocated`, and `pristine`: sectors that still hold the
formatter's pattern (`0x55`), needed because a sector is not cleared when it is
claimed.  `MarkUsed` and `EraseSector` are `ccos_mark_sector` and
`ccos_erase_sector`; the counter wraps at 2^16.  `Available` has
`validate_bitmask_list`'s refusal to allocate when the counter is larger than the
image.

**FileSectors** - `data[f]` is a file's list up to its end marker, over inode and
content inodes together; `chain[f]` the content inodes; `tail[f]` what is listed
behind the end marker of the last content inode.  `ccos_add_content_inode` writes
the header and two slots, the others keep what the sector held: `0x5555` (beyond
most images) in a pristine sector, 0 in an erased one.  `ccos_get_file_sectors`
returns `data \o tail`.  `grabbed` is the local of `ccos_add_sector_to_file`
between its two allocations.

**Volume** - the calls, in steps with at most one bitmap change each.  `pc` is the
next step; `cur`, `dir`, `target`, `left`, `doomed`, `stack` are locals of the C
functions (`stack` the frames of the recursive delete, `ret` where
`ccos_write_file` returns to).  Steps by function:

| function | actions |
|---|---|
| `ccos_write_file` | `BeginWrite`, `GrowInPlace`, `GrowGrab`, `Extend`, `GrowNoSpace`, `ExtendNoSpace`, `Shrink`, `ShrinkNothing`, `Trim`, `Store` |
| `ccos_add_file`, `ccos_create_dir`, `ccos_copy_file` | `BeginCreate`, `BeginCreateDir`, `CreateNoSpace`, `CopySourceUnreadable` |
| `ccos_add_file_entry_to_dir_contents`, `ccos_add_file_to_directory` | `Link`, `LinkExists`, `AddEntry` |
| `ccos_delete_file_from_parent_dir` | `Unlink`, `UnlinkMissing`, `Resize`, `DropEntry` |
| `ccos_rename_file` | `BeginRename`, then the two rows above |
| `ccos_delete_file`, `erase_unlinked_file` | `BeginDelete`, `DeleteChild`, `DeleteTop`, `Collect`, `EraseDataSector`, `EraseContentInode`, `EraseFile`, `ReturnToLoop`, `Return` |

Four history variables: `before` (used sectors when the call began), `orphans`
(files a failed rename left unlinked), `dangling` (a delete went on with an
erased inode), `damaged` (a call wrote to or erased what a stray slot names, or the
real sectors it took for stray ones have cost a directory the bytes of a new
entry).  Having stray slots is not damage, nor is counting them: `Store` copies
bytes until they are all written (`ccos_image.c:333`), so a file that has just grown
onto a content inode with old slots keeps them, untouched, behind its marker.

**VolumeInvariant** - the inductive invariant of section 5, in layers: `Inductive`
(who holds which sector), `Control` (which step belongs to which call), `Chains`,
`NoStrays`, `Tree`, `Sizes`, `RoomToRewrite` and `Kept`; `Invariant` is all of them.

**SectorOwnership** - the promise without lists and bitmap: a sector is the
system's, nobody's or one file's; it changes hands through the free pool, one at
a time; the inode is the first sector a file takes and the last it gives up.
**VolumeOwnership** is the refinement mapping.

**Bitmask** - bits, counter and checksum of each bitmask sector.  `Bitmasks` is
`ccos_find_bitmask_sectors` (the run of sectors whose headers name the first one),
`Claim` and `Release` are `ccos_get_free_sector` and `ccos_mark_sector`: the bit by
division and remainder, the counters of all bitmask sectors, all checksums
(`Counted`).  `Init` is an image as it may be opened: any bits, counters that may
be too high (`Drifts`) in each sector differently, checksums that may be wrong.
**Allocation** is `SectorMap` with two actions.

**ContentList** - the slots of inodes and content inodes with end markers
(`slots`), links (`next`, `prev`), fragment numbers and which sectors' checksums
are out of date (`unsealed`).  `EndSlot` is the search for the marker, `Nodes` the
walk along the chain, `ListRead` is `ccos_get_file_sectors`, which goes on behind
markers.  `AddSector`, `AddNode`, `AddNodeFails`, `RemoveSector`, `RemoveNode` are
the steps of `ccos_add_sector_to_file` and `ccos_remove_sector_from_file` with at
most one bitmap change each.  **SectorList** gives `FileSectors` the same steps.
**ContentListInvariant** says of each file how its nodes hang together (`Threaded`),
what their slots hold up to the marker (`Filled`, `Counted`) and behind it (`Behind`),
and that they are its own (`Apart`).

**DirData** - the bytes of a directory, each by its role: flags, heads with id
and length, text, reverse length.  `Parse` is `ccos_parse_directory_data`, which
stops at the count, at the flag LAST or at the end (`ElementAt` one turn of its loop); `AddEntry`, `AddExists`,
`AddNoSpace` and `RemoveEntry` are the two entry functions with their memory
moves.  Names are sequences of ASCII codes, as order and case matter here.
**Directory** is a set of files with names unique up to case.

**Catalog** - names as sequences of parts between '~', the tree, and every command
of the tool that finds its file by name.  `Visit` is one turn of the loop of
`traverse_ccos_image` with `find_file_on_file`, `Traverse` the loop over a directory's
entries, `Find` the recursion: a search to depth k is made of the searches to depth
k - 1, and no path has more directories than there are files, since no directory is
inside itself.  `Beneath` is what a traversal reaches, defined without it: the least
set that is closed under listing.  `NewName` is the `snprintf` of `ccos_rename_file`, cut at 79
characters; `Parses` and `IsDir` decide what a renamed file then is.

**Dump** - `dump_dir`: `stack` holds the frames of the traversal with the path each
was given, `files` what the host has.  `EnterDir` makes the directory and goes on
in it, `DumpFile` writes, `NoSuchPath` is a path that leads nowhere, `HostFails` and
`WriteFails` are the host's errors, the unnoticed one of `fclose` included.
**DumpInvariant** places the frames (`Placed`) and says what a dump has still to come
to (`Dumped`).

**Format** - `ccos_new_disk_image` with the real geometry, superblocks, boot sizes
and 16-bit arithmetic.

**HostTool** - one process per command: read, operate, save.  Files on the host
are missing, torn or whole, and hold a set of commands' changes.  Every step may
fail; the process may be killed at every step.

## 3. Runs

| run | bounds | what it shows |
|---|---|---|
| `volume` | 9 sectors, lists of 1 and 2 slots, names `a`, `b` and directory `s`, files of 0 or 2 sectors | ten invariants of `Volume`, 470,000 states |
| `volume_live` | 8 sectors, lists of 1 and 3 slots, files of 0 or 4 sectors, stops at the first damage | `CallReturns` under fairness, `ImplementsOwnership`, `ContentInodesNeeded` and the whole `Invariant` with stray slots present, 100,000 states |
| `volume_stale` | lists of 1 and 4 slots | finding 1 |
| `format` | 31 image sizes around every limit, one beyond 65,535 sectors | `StartsVolume`, `RootInside`, `FreshBitmapValid` |
| `tool`, `tool_copy` | two images, two commands | exit codes, torn images, `ImagesKept`; finding 2 |
| `bitmask` | 7 sectors, bitmask sectors of 3 bits, 2 or 3 of them | counters agree, a valid image stays valid, `ImplementsAllocation`, 62,000 states |
| `content_list` | 10 sectors, 2 files, lists of 1 and 3 slots | reading, links, fragment numbers, checksums, `ImplementsSectorList`, 53,000 states |
| `dirdata` | 4 files, 5 names, 3 directories as found | the same entries read by count, by marker and backwards; order; `ImplementsDirectory` |
| `catalog` | 3 files, names at the limit of 17 characters | search, parents, nothing lost, 50,000 states |
| `dump`, `dump_slash` | trees of 4 files, 7 names | the dump is whole, writes nothing else, ends, 290,000 states; finding 3 |

*Bounds of `Volume`.* Every size is relative to the list capacities, so the
capacities are small rather than the files large: with one slot in the inode and
two in a content inode a file of two sectors has a content inode, a directory's
entries (2 or 3 bytes against 4 bytes in a sector) make it cross a sector boundary
with its second or third entry, and four free-sector cases (none at the inode, none at
a data sector, none at the content inode, none for the directory) all occur with
nine sectors.  A nested delete has depth three (root, `s`, a file in it; `s` may
hold another `s`).  `PristineSlot` is beyond the image, as `0x5555` is for all
images up to 21,845 sectors.  With two slots in a content inode no slot is left
unwritten, so `volume` is free of stray slots and says what the code does without
them; `volume_live` and `volume_stale` have them.  `Undamaged` is a state
constraint: `volume_live` stops behind the first step that writes or erases what a
stray slot names or loses a new entry's bytes to one, because from there on the
code promises nothing (finding 1); that calls return is shown up to there.  In this
run the entry of `b` takes 4 bytes, a sector, so that a directory crosses a sector
boundary with every such entry; with eight sectors TLC then meets files and
directories at rest with stray slots, a write cut short because they were counted,
the first write of a removal cut short and the second one growing the directory
again, also by a content inode.

*Bounds of the detailed modules.*  `bitmask`: with three bits to a sector, seven
sectors take two whole bitmask sectors and one bit of the third; with two bitmask
sectors the image is refused.  `content_list`: the first file can grow to five
sectors, which takes two content inodes, so that links forth and back, fragment
numbers across content inodes and the removal of the last of two are met; the
second file (constraint `SecondShort`: at most two sectors) takes the sectors the
first one gives up, with their old slots, and makes the allocation of a content
inode fail.  `dirdata`: the names differ in case, in '~', in '_' (between upper and
lower case) and in length; the directories as found are a new one, one in another
order, and one with bytes behind the last flag, where the run stops after the
first move out of bounds (hence `CHECK_DEADLOCK FALSE`).  `catalog`: `NameMax` is 17
instead of 80, so that a directory `Programs` just fits (17 with its type) and no
longer does when renamed, while `Tools/A` fits exactly; a name of 18 is refused.
Three files are enough for a directory, a file in it and one behind it; it stops
when no id is free and nothing can be found (`CHECK_DEADLOCK FALSE`).  `dump`: four
files make a file in a directory in a directory and an entry behind them; files
are numbered in the order of the listing, so every order of listing occurs.  The
dump ends (`CHECK_DEADLOCK FALSE`).  `bitmask` stops on an image that is refused.

*Type invariants.*  `Volume` and `Bitmask` check theirs; those of `Volume`, `Bitmask`,
`HostTool`, `ContentList`, `Dump`, `DirData` and `Catalog` are proved, the last four as
part of their inductive invariants.

*Bounds of `HostTool`.* A second command is enough to read what a first one tore.
`MaxRuns` is the bound on `run`.  `CHECK_DEADLOCK FALSE` there and for `Format`:
both stop when they are done.

*Fairness.* `FairSpec` has weak fairness of `Step`: a call that has begun runs on,
nobody else has the processor and nothing in it waits.  Beginning a call is not
fair.  `CallReturns` therefore says that the loops end, which is where a delete
that walks what it changes, or a loop until the chain is empty, might go wrong.
`Dump` has weak fairness of its `Step` for the same reason: one process that runs
on; `Ends` says that the recursion comes back from every directory.

*Conditions in the invariants.* `Sound` excludes states behind damage by stray
slots; `NeverDangling` shows that the other disjunct, a delete of an erased inode,
does not happen.  `EntriesLead` and `EveryFileFound` presume it: with three slots in a
content inode TLC shows a directory that lists a sector which a stray slot has
made free, and a file left behind by a directory erased that way.  `SizesRight`
says of every file and directory that its size is right while `Sound`, whether or
not it has stray slots, which stay in its list until a later call meets them.  The
next write then counts them as sectors of content, removes as many real ones too
many and comes out short.  What happens depends on what is written:

* a write of a plain file, where removing took the content inode and its stray slots
  with it, stores the smaller size and says nothing (`ccos_image.c:348`): `SizesRight`
  holds, `WriteComplete` does not, which is why it presumes `~stale`;
* an addition to a directory counts one entry more and stores a size in which there
  is no room for it: this is damage, the entry's bytes are gone;
* a removal from a directory writes it twice, with the old size and with the new one
  (`ccos_private.c:947`, `951`), out of a buffer read before.  The first write may cut the
  directory short, the second one finds no stray slot any more and makes it whole;
  it needs no more than what the first one gave up (`RoomToRewrite`), so it cannot
  run out of space;
* a write that leaves stray slots within the bytes copied writes to what they name,
  and an erasure erases it: this is damage.

`EveryFileFound` exempts `orphans`: a rename that cannot link the file under its new
name leaves it in no directory, and neither the code nor its documentation
promises otherwise.  `Numbered` in `Format` excludes images of 65,536 sectors and
more: the formatter takes their number modulo 2^16 (section 4).

`Plain` in `Dump` excludes trees with names that look alike on the host or
directories with '/'; of those the code promises nothing it keeps (finding 3).
`retyped` in `Catalog` excludes trees in which a directory was given a name that
makes it a plain file; `orphans` as in `Volume`.  `MovesFit` names the only
directories an insertion can move out of bounds: those found with bytes behind
their last flag.

## 4. Findings

1. `volume_stale`: content inodes keep the bytes of their sector's earlier life in
   their unused slots (`ccos_private.c:416`).  A slot that reads 0 is sector 0.
   Delete or shrink such a file and sector 0 is erased and freed, once per slot.
   A directory that has grown onto such a content inode keeps working until its next
   change; an addition counts the slots as sectors (`ccos_image.c:316`), removes real
   ones for them and loses the new entry's bytes (`damaged` marks this step as well).
2. `tool_copy`: `copy_file` tests for -1 only (`wrapper.c:668`); the library's errors
   are other values, so a failed copy is saved and exits with 0.
3. `dump_slash`: a directory with '/' in its name is made with '_' (`wrapper.c:278`)
   and walked with '/' (`wrapper.c:67`): its first file cannot be opened, and the
   rest of the image is not dumped.

Also met while modelling, and left out of the runs, which stay on the near side
of each:

* `-r` writes `IMAGE.new` (`wrapper.c:572`); the help and the README say `IMAGE.out`.
* Images with more than one bitmask sector (from 4,008 sectors of 512 bytes or
  1,992 of 256) are formatted with the bitmap where the tool does not look for it
  (`main.c:254`).  `Format` models the position, `HostTool` opens what it can.
* Beyond 65,535 sectors the formatter's sector count wraps (`ccos_format.c:60`).
* `fclose` is not asked for its result (`common.c:111`); `lost` in `HostTool` and
  `broken` in `Dump` exempt it.
* Entries beyond 65,535 bytes of a directory get a wrong offset
  (`ccos_private.h:23`), and the next addition overwrites entries.
* A copied directory brings raw entries that name sectors of the other image
  (`ccos_image.c:396`); a traversal of such a tree may have no end.
* A rename appends the old type to a name that has one (`ccos_image.c:690`).
* A copy takes any file with the name of the source's directory, for the root the
  disk label, for the destination directory (`wrapper.c:610`).
* An end marker in the middle of a list, which the reader knows, is filled by
  writing the next marker over a listed sector (`ccos_private.c:642`).

## 5. Proofs

TLC shows the properties on small instances, TLAPS proves the following for all
values of the constants under the named assumptions `SectorMapAssumption`
(1 to 65,535 sectors, reserved ones among them), `FileSectorsAssumption` (at least
one slot in an inode and two in a content inode), `VolumeAssumption`,
`ContentListAssumption`, `FormatAssumption`, `DumpAssumption`,
`HostToolAssumption`, `DirDataAssumption`, `FoundAssumption`, `CatalogAssumption` and
`NamesAssumption`; for `Bitmask`, `BitmaskAssumption` and
`OpenedAssumption` (any number and size of bitmask sectors, the first one's header
names itself) and `DriftsAssumption`.  `VolumeAssumption` says that the root and its
first sector are not reserved, that sizes are natural numbers, that a sector holds
content, and that an entry is no longer than a sector's content: a name has at most
80 characters, an entry 5 bytes more, and a sector 248 or 504 bytes of content.
`ContentListAssumption`: inodes lie outside the reserved sectors, an inode has a slot,
a content inode two, and the formatter's pattern is a 16-bit number other than the
end marker; whether it names a sector of the image is left open.  `DumpAssumption`: there
is a file, and a name makes at least one step of a path.  `DirDataAssumption`: names are
of characters other than NUL and not empty, and files are numbers other than 0, which is
no directory entry's.  `FoundAssumption`: a directory found in an image has no name
twice, up to case.  `CatalogAssumption`: there are finitely many sectors for inodes.
`NamesAssumption`: names given by the user have a part, texts have lengths, a text that
reads "subject" with its '/' printed as '_' read so before (neither is in the word), and
a file is copied from a directory rather than a root directory, whose name is the
disk's label (section 4).

### Volume

* `VolumeProofs!TypeCorrect`: `Spec => []TypeOK`.  `TypeOK` is inductive.  The
  operations on lists and bitmap have a lemma each (`AppendSectorType`,
  `AddContentInodeType`, `RemoveLastSectorType`, ...), the steps of the calls are
  grouped as in the table above (`WriteTypes`, `LinkTypes`, `DeleteTypes`,
  `BeginTypes`).  It includes that the counter stays a `uint16_t` and that the
  delete loop never looks at an empty stack.
* `VolumeProofs`: `NothingLeaks` (`SectorsAccounted`), `NothingIsShared`
  (`NoSharing`), `CounterIsExact` (`CounterExact`) and `EntriesAreSound`
  (`EntriesLead`), all from `InductiveHolds`.  None of the four is inductive
  alone: that an erased file is in no directory, that the entry removed by name is
  the file's own, or that a sector about to be attached is nobody's follows from
  what the call did some steps before.  `Inductive` adds what the locals guarantee:
  `Registers` (the file written is live; the file to link or to erase is in no
  directory; `dir` is the parent of a file to unlink; `grabbed` holds one sector in
  `extend` and none elsewhere; `doomed` is empty except in `erase`) and `Calls` (only
  add and copy erase after an error, and they never unlink).  The proof goes in
  three layers: lists without duplicates and the counter (`AppendElems`,
  `AllButLastElems`, `TailElems`, `MarkCounts`, `EraseCounts`); one lemma per way a
  sector changes hands (`TakeForFile`, `GiveUpByFile`, `TakeForCall`,
  `GiveUpByCall`, `Attach`, `Detach`, `TakeForInode`, `GiveUpInode`), applied to each
  list operation (`...Keeps`); and one lemma per group of steps (`...Ownership`).
  The four presume `Sound`, which a step never restores (`SoundBefore`).
* `VolumeProofs!CallsImplement`: `Spec /\ []~damaged => ImplementsOwnership`, the
  refinement.  `HeldBy` says what a file holds in terms of the abstract owners,
  `Owners` that the mapped state is well formed; each list operation is then a
  `Take` or a `GiveUp` of one file or leaves all owners alone (`GrowMoves`,
  `ShrinkMoves`, `EraseMoves`, `NewInodeMoves`, `RestMoves`), and `NextMoves` puts
  them together.  The hypothesis is the one half of `Sound`; the other half is
  `NothingDangles`.  Behind damage the promise is broken (finding 1), so it cannot
  be dropped.
* `VolumeProofs!NothingDangles` (`NeverDangling`): the delete never works on an
  inode that is erased.  It needs to know that no directory is inside itself
  (`Acyclic`), hence that linking a file closes no circle, hence that a file being
  linked lists nothing that leads back; that the frames of a delete form a path of
  live directories which does not meet itself (`Recursion`); that only directories
  have entries and that the root is in none (`Directories`, `Rooted`).
* `VolumeProofs!ChainsAreNeeded` (`ContentInodesNeeded`), from `Chains`: the one state
  in which a content inode holds no sector is between the removal of its last
  sector and its own.
* `VolumeProofs!InvariantHolds`: the whole `Invariant`.  `Progress` says how far
  `ccos_write_file` is: the sectors it needs are the sectors it has and those still
  to come; a directory that gains an entry needs at most one more, since an entry
  fits into a sector.  The equation holds for a new file, for the second write of
  a removal, and for all while no stray slot was ever linked; with stray slots the
  first write of a removal ends short or without them.  From it `FilesFit` (every
  file that is not being written or erased has the sectors its size wants, stray
  slots or not), and with `DirSizes` `SizesAreRight` (`SizesRight`) and
  `WritesAreComplete` (`WriteComplete`).  The second write of a removal must not run
  out of space, or the directory would stay cut: `RoomToRewrite` bounds the sectors and
  content inodes it still needs by those that are free and those the directory has,
  a sum that no step of either write changes (`GrowRoom`, `ShrinkRoom`), and
  `SecondWriteHasRoom` concludes.  `NodesFor` is the number of content inodes as a
  function of the number of sectors (`ChainNodes`).  `FailuresRollBack`
  (`RollbackRestores`) follows from the same bound: a directory write fails before it
  has taken anything, so what a failed add has changed is its own file's, which is
  erased to the last sector.  `FilesAreFound` (`EveryFileFound`) needs `Complete`: what
  a directory lists when it is erased, it has no more.

### ContentList

The invariant is `Inductive` of `ContentListInvariant` (`ListsWhole`); `ListsTyped`,
`NumbersFollowLists` (`FragmentsInOrder`), `LinksSound` (`ChainSound`), `SealedWhenIdle`
(`SealedAtRest`), `ReadingListed` (`ReadsAsListed`) and `ListsImplemented`
(`ImplementsSectorList`) follow from it.  None of them is inductive alone.  A new
content inode is linked behind a node found by a walk, in a sector that holds what
its last user left: that the walk ends needs that no node is met twice, which
needs that what is free is in no list and that what is claimed for later
(`Claim`) is nobody's.  The next sector's number is taken from the sector in
front of the marker, so its being right needs that every node but the last is
full and where the marker is.  What reading finds behind a marker is known
because a free sector holds the formatter's pattern or zeroes throughout (`Blank`)
and a shortened list leaves markers, never old numbers, behind its end (`Behind`).

The walk and the lists read along it are recursive functions.  What is proved of
them is proved for a sequence that is given, by the least index at which they
could differ from it (`LeastNat`, `Upwards`, from the well-foundedness of <):
`NodesAre` (a path of links without a cycle is what the walk finds), `EndOfType`, and
the lemmas on `InImage` and `FlattenSeq`.  The rest never looks into a recursive
function.  `Fit` says what the invariant says of one file, for given nodes and a
given list; `FitNow` and `FitNext` translate between it and the state.  For each way a
step changes a file (a slot written, a content inode linked, a sector dropped, a
content inode cut off) one lemma gives the new nodes and list, and `FitSame` says
that a file whose sectors are not written keeps its own.  The numbers do not
wrap because a file has no more sectors than the image.

For the refinement each step is shown to do to the mapped sequences what its
counterpart in `SectorList` says (`RemovesOne` and its kind).  The hard part is
`tail`: `FileSectors` computes how many stray numbers remain behind a marker from the
length of the list, and `Strays` is the invariant that ties this count to the
slots.

### DirData

All theorems of `DirDataProofs` presume `[]Addressable`: a directory has no more bytes
than its entries' 16-bit offsets can number (65,536).  `dir_length` has 32 bits and
nothing in the code checks the limit; beyond it the parsed offsets are wrong, the next
insertion moves the wrong bytes and none of the properties holds (section 4).  All
directories this code's users met are far smaller: that one would list some
thousand files.

The invariant is `Inductive` (`DataLaidOut`): there is a sequence of files `es` and of
ends `st` such that the bytes are their entries, one behind the other, flags between
them, LAST behind the last one, and nothing behind that in a directory without such
bytes when it was found (`LaidOut`, `Holds`); and these are the files that have names
here, no name twice (`NamedOnce`).  For such bytes the lemmas say what `Parse` returns
(again by the least index at which it could differ), which index `EntryIndex` and
`InsertionIndex` choose, and what the memory moves of `Inserted` and `Removed` do to
bytes in front of, inside and behind the place where they work.  The three places an
entry can have (in front of others, last, alone) differ in which flags are rewritten,
and each is a case.  `AlwaysReadsAlike` (`ReadsAlike`), `AlwaysMovesFit` (`MovesFit`),
`AlwaysKeepsOrder` (`KeepsOrder`) and the refinement `DirectoryImplemented`
(`ImplementsDirectory`) follow.

### Catalog

The invariant is `Inductive` of `CatalogProofs` (`TreeKept`): what is listed anywhere is
in use and names that directory as its parent (`Listings`), of any files there is one
that none of them lists (`NoCircle`), and, until a directory has got a name that makes
it none, every file but the orphans is listed by its parent, which is a directory
(`AllListed`).  `AlwaysListedByParent` is a part of it.  `AlwaysNothingLost` follows by
taking, of the files that are lost, one that none of them lists: its parent is not
lost, so neither is it.

That a rename keeps a directory a directory is arithmetic on names:
`StartIs` and `ThreeParts` say where the parts of a name begin, `CutFits` that a name
that fits is not cut, `StaysDirectory` that a name without '~' that fits then parses as
a directory's.  That files are added to directories only is `ShownDirectory`: what
shows one of the names looked for has the type of one.

`AlwaysSearchComplete` and `AlwaysNearestOnPath` say what `find_filename` returns.
`Answer(d, n, s, r)` says of a traversal of d for n, begun with s, that it ends with r:
with s if nothing beneath d shows n, else with a match that is hidden under no
directory beneath d, or d, which lists a match itself.  `Halfway` says it of the loop
over the entries from some place on.  `LoopAnswers` goes from the end of the listing to
its beginning, presuming it of the directories listed; `AnswerOfLoop` turns `Halfway`
into `Answer`; `SearchesAnswer` goes from depth to depth: what is beneath a directory
in d is less than what is beneath d, as d is not inside itself.  The lemmas on trees
(`ReachListed`, `ReachParts`, `Nested`: two directories above one file are one above the
other) are about any listings, not about this module's state.

### The other modules

* `DumpProofs`: `OnlyFilesDumped` (`NothingElseDumped`) and `AllFilesDumped`
  (`DumpedWhole`), for trees of any depth, from `Inductive` (`TraversalHolds`).  Paths
  are a recursive function of the tree; `PlaceIs`, by induction along the order of the
  files, says what each path is, `PlacesDiffer` that no two are equal when names look
  different.  So what lies where a directory belongs is that directory (`OnHost`),
  and no path is refused (`PathsLead`).  That nothing is left out needs to know what
  has been done without a record of it: `Dumped(D)` says that there is a set D of
  files on the host such that every entry of the root and of a directory in D is in
  D or in front of a frame.  Entering and dumping a file add it to D, leaving a
  directory keeps D; when no frame is left, D is everything.
* `HostToolProofs!ExitCodeCorrect`: `Spec => []ExitCodeTrue`, through the invariant
  that the copy in memory holds the change from the operation's success on
  (`ChangeHeld`); copy is left out of it, which is finding 2.
* `HostToolProofs!TornReported`: `Spec => []TornIsReported`, through the invariant
  that without a kill, an error or a loss at a close only the file being written is
  torn (`OnlyOutputTorn`).
* `HostToolProofs!ImagesAreKept`: the action property `ImagesKept`, from the type
  invariant.
* `HostToolProofs!TypeCorrect`: `Spec => []TypeOK`.
* `BitmaskProofs`: `TypeCorrect`, `CountersStayEqual`, `ValidityKept` and
  `BitmaskImplements` (`Spec => Abstract!Spec`, every step of the bits is a step of the
  set).  The set `used` of `Allocation` is the set of sectors whose bit is set;
  `SectorsOfMember` says by division and remainder that the bit of one sector is no
  other's, `BitSet` and `BitCleared` what a change of one bit does to that set,
  `ClaimEffect` and `ReleaseEffect` what a step does to set and counter.  For
  `ValidityKept` the free bits are counted over all bitmask sectors, the unused end
  of the last one left aside, and the count moves by one with each step.
* `FormatProofs!RootIsInside`: `Spec => []RootInside` for every image size, from
  `NextSectorFits`: no superblock is the last sector in front of a multiple of 8.
* `FormatProofs!FormattedStartsVolume` and `FreshBitmapIsValid` (`StartsVolume`,
  `FreshBitmapValid`): `LaidOut` shows by the geometry's arithmetic that boot,
  bitmask and root sectors do not overlap for any number of sectors below 65,536,
  `MarkedSoFar` says what is marked after each step, and that the counter counts it.

Only model-checked: `CallReturns` and `Ends`, which are liveness under fairness and out
of the prover's reach, and the three findings.  Every other property that a passing
run checks is the conclusion of a theorem.

## 6. What is not modelled

* Bytes of plain files; `ccos_replace_file` changes nothing else.  What a write
  through a stray slot overwrites is not tracked, the run stops there.
* In `Volume` a name stands for itself up to case and a rename keeps the kind of the
  file; `Catalog` has the names.  Relabelling the root is a change of a field.
* Copying a directory that has entries (section 4): `CopyIn` copies files and empty
  directories.
* Images written by other software, except for what `Bitmask` and `DirData` open:
  markers in the middle of a list and slots beyond the image.
* The values of checksums, dates and versions; a checksum that does not fit only
  prints a warning.
* Printing, and `dump_dir_to`, which differs from `dump_dir` in the name of its first
  directory.
* `malloc` failures, and an unreadable sector other than of the source of a copy:
  the image is in memory, sector numbers come from the lists.
* After `Collect` the slots of the file being erased are not read again, so the model
  forgets them at once.
* Option parsing.  (`-w` is declared without an argument in `opt_string`,
  `main.c:84`, but reads one; `--create-new` works.)
* Boot data, the error table and the geometry table are constants.

## 7. Plan

1. `Catalog`: a copied directory's entries, with a bound on the depth of the search.
2. Lists as found in images: markers in the middle, slots beyond the image.
3. `DirData` beyond `Addressable`: what the 16-bit offsets do to a directory of more than
   65,536 bytes.
