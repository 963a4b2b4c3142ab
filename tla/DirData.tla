------------------------------ MODULE DirData ------------------------------
(***************************************************************************)
(* The bytes of a directory (ccos_private.c): how entries are parsed,      *)
(* where a new one goes, and how the bytes behind an entry are moved.      *)
(*                                                                         *)
(*   flag entry flag entry ... flag entry LAST      an empty one: LAST     *)
(*                                                                         *)
(* An entry is the file's id and the length of its name (dir_entry_t, 3    *)
(* bytes), the name and one byte with the length of all that.  The flag in *)
(* front of an entry is 0; the flag behind the last entry is LAST.  The    *)
(* tool reads as many entries as the inode counts, GRiD OS up to LAST.     *)
(* Offsets are bytes, counted from 0; a byte is modelled by its role.      *)
(***************************************************************************)
EXTENDS Integers, Sequences, FiniteSets

CONSTANTS
  Files,      \* inodes
  Names,      \* names in use, C strings: sequences of bytes other than 0
  Found,      \* directories as they may be opened: [names, slack]
  OffsetSpan  \* 2^16: parsed_directory_element_t.offset is a uint16_t

EntryHead == 3  \* sizeof(dir_entry_t)

NoName == <<>>
NoFile == 0

ASSUME DirDataAssumption ==
  /\ Files \subseteq Nat \ {NoFile}
  /\ Names \subseteq Seq(1 .. 255) \ {NoName}
  /\ OffsetSpan \in Nat \ {0}

VARIABLES
  bytes,    \* the directory's data, dir_length bytes
  count,    \* desc.dir_count
  nameOf,   \* [Files -> name in the inode], NoName for a file not listed
  result,   \* of the last call
  overrun,  \* history: a move went beyond the buffer, all bets are off
  found     \* history: the directory the image was opened with

dirVars == <<bytes, count, nameOf, result, overrun, found>>

Byte(r, f, n) == [role |-> r, file |-> f, len |-> n]
Zero == Byte("zero", NoFile, 0)
LastFlag == Byte("last", NoFile, 0)

(* Memory: the byte at an offset, a range replaced, a range moved.         *)
At(mem, o) == IF o \in 0 .. Len(mem) - 1 THEN mem[o + 1] ELSE Zero

Put(mem, o, new) ==
  [k \in 1 .. Len(mem) |->
     IF k - 1 \in o .. o + Len(new) - 1 THEN new[k - o] ELSE mem[k]]

Move(mem, to, from, n) ==
  [k \in 1 .. Len(mem) |->
     IF k - 1 \in to .. to + n - 1 THEN At(mem, k - 1 - to + from) ELSE mem[k]]

Resized(mem, n) == [k \in 1 .. n |-> At(mem, k - 1)]

EntrySize(n) == EntryHead + Len(n) + 1

(* create_directory_entry, up to the flag: id and name length, name,       *)
(* reverse length.                                                         *)
Entry(f, n) ==
  <<Byte("head", f, Len(n))>>
  \o [k \in 1 .. EntrySize(n) - 2 |-> Byte("text", f, 0)]
  \o <<Byte("back", NoFile, EntrySize(n))>>

Flag(last) == IF last THEN LastFlag ELSE Zero

NoElement == [offset |-> 0, size |-> 0, file |-> NoFile]

(* The entry behind the flag at o.                                         *)
ElementAt(mem, o) ==
  [offset |-> (o + 1) % OffsetSpan, size |-> EntryHead + At(mem, o + 1).len + 1,
   file |-> At(mem, o + 1).file]

(* ccos_parse_directory_data: n entries, fewer if LAST or the end of the   *)
(* data comes first; what is not reached stays as calloc made it.          *)
Parse(mem, n) ==
  LET read[k \in 0 .. n] ==  \* the next k entries, from the flag at o on
        [o \in Nat |->
           IF k = 0 \/ o >= Len(mem) \/ At(mem, o) = LastFlag THEN <<>>
           ELSE <<ElementAt(mem, o)>> \o read[k - 1][o + 1 + ElementAt(mem, o).size]]
  IN  read[n][0]

Elements ==
  LET got == Parse(bytes, count)
  IN  [i \in 1 .. count |-> IF i <= Len(got) THEN got[i] ELSE NoElement]

NameAt(elements, i) ==
  IF elements[i].file \in Files THEN nameOf[elements[i].file] ELSE NoName

(* The first index that satisfies P, or the one behind the last.           *)
FirstIndex(n, P(_)) ==
  CHOOSE i \in 1 .. n + 1 : (i <= n => P(i)) /\ \A j \in 1 .. i - 1 : ~P(j)

(* strncasecmp on names of the same length.                                *)
Lower(c) == IF c \in 65 .. 90 THEN c + 32 ELSE c
SameName(a, b) ==
  Len(a) = Len(b) /\ \A k \in 1 .. Len(a) : Lower(a[k]) = Lower(b[k])

(* Mutant of EntryIndex: strncmp for strncasecmp.                          *)
EntryIndexExact(elements, n) ==
  FirstIndex(count, LAMBDA i : NameAt(elements, i) = n)

(* find_directory_entry_index.                                             *)
EntryIndex(elements, n) ==
  FirstIndex(count, LAMBDA i : SameName(NameAt(elements, i), n))

(* grid_filename_char_weight: '~' comes first, then ASCII in upper case.   *)
Weight(c) == IF c = 126 THEN 0 ELSE IF c \in 97 .. 122 THEN c - 32 ELSE c

(* Mutant of NotBefore: of two names with a common beginning the longer    *)
(* one comes first.                                                        *)
LongerFirst(a, b) ==
  LET both == 1 .. (IF Len(a) < Len(b) THEN Len(a) ELSE Len(b))
      differ == {k \in both : Weight(a[k]) # Weight(b[k])}
  IN  IF differ = {} THEN Len(a) <= Len(b)
      ELSE \E k \in differ : (\A j \in differ : k <= j) /\ Weight(a[k]) > Weight(b[k])

(* The comparison of ccos_find_directory_insertion_index, res >= 0.        *)
NotBefore(a, b) ==
  LET both == 1 .. (IF Len(a) < Len(b) THEN Len(a) ELSE Len(b))
      differ == {k \in both : Weight(a[k]) # Weight(b[k])}
  IN  IF differ = {} THEN Len(a) >= Len(b)
      ELSE \E k \in differ : (\A j \in differ : k <= j) /\ Weight(a[k]) > Weight(b[k])

InsertionIndex(elements, n) ==
  FirstIndex(count, LAMBDA i : NotBefore(NameAt(elements, i), n))

EndOf(element) == element.offset + element.size

RealSize(elements) == IF count = 0 THEN 1 ELSE EndOf(elements[count]) + 1

(* Mutant of Inserted: the flag of the former last entry stays.            *)
InsertedTwoLast(elements, i, f, n) ==
  LET last == i = count + 1
      new == Entry(f, n) \o <<Flag(last)>>
      buffer == Resized(bytes, RealSize(elements) + Len(new))
  IN  IF last THEN Put(buffer, RealSize(elements), new)
      ELSE LET o == elements[i].offset
           IN  Put(Move(buffer, o + Len(new), o, Len(bytes) - o), o, new)

(* The directory data with an entry for f in front of element i, the last  *)
(* one behind all.  The buffer is made real size plus entry before the     *)
(* bytes from element i on move up.                                        *)
Inserted(elements, i, f, n) ==
  LET last == i = count + 1
      new == Entry(f, n) \o <<Flag(last)>>
      buffer == Resized(bytes, RealSize(elements) + Len(new))
  IN  IF last
      THEN Put(Put(buffer, RealSize(elements), new), RealSize(elements) - 1, <<Zero>>)
      ELSE LET o == elements[i].offset
           IN  Put(Move(buffer, o + Len(new), o, Len(bytes) - o), o, new)

(* memmove writes up to the stored size plus the entry.                    *)
MoveFits(elements, i) == i = count + 1 \/ Len(bytes) <= RealSize(elements)

(* ccos_add_file_entry_to_dir_contents and the count that follows it.      *)
AddEntry(f, n) ==
  LET elements == Elements
      i == InsertionIndex(elements, n)
  IN  /\ ~overrun
      /\ nameOf[f] = NoName
      /\ EntryIndex(elements, n) > count
      /\ IF MoveFits(elements, i)
         THEN /\ bytes' = Inserted(elements, i, f, n)
              /\ count' = count + 1
              /\ nameOf' = [nameOf EXCEPT ![f] = n]
              /\ result' = "ok"
              /\ UNCHANGED overrun
         ELSE /\ overrun' = TRUE
              /\ UNCHANGED <<bytes, count, nameOf, result>>
      /\ UNCHANGED found

(* The same when the name is taken: the file stays out.                    *)
AddExists(f, n) ==
  /\ ~overrun
  /\ nameOf[f] = NoName
  /\ EntryIndex(Elements, n) <= count
  /\ result' = "exists"
  /\ UNCHANGED <<bytes, count, nameOf, overrun, found>>

(* ccos_write_file finds no sector for the longer directory, before it has *)
(* written a byte (where sectors end is left open).                        *)
AddNoSpace(f, n) ==
  LET elements == Elements
  IN  /\ ~overrun
      /\ nameOf[f] = NoName
      /\ EntryIndex(elements, n) > count
      /\ MoveFits(elements, InsertionIndex(elements, n))
      /\ RealSize(elements) + EntrySize(n) + 1 > Len(bytes)
      /\ result' = "nospace"
      /\ UNCHANGED <<bytes, count, nameOf, overrun, found>>

(* Mutant of Removed: zeroed but not cut off.                              *)
RemovedZeroed(elements, i) ==
  LET o == elements[i].offset
      next == EndOf(elements[i]) + 1
      shrink == elements[i].size + 1
      before == IF i = 1 THEN 0 ELSE EndOf(elements[i - 1])
      marked == IF i = count THEN Put(bytes, before, <<LastFlag>>) ELSE bytes
      moved == IF count > 1 THEN Move(marked, o, next, Len(bytes) - next) ELSE marked
  IN  Resized(Resized(moved, Len(bytes) - shrink), Len(bytes))

(* The directory data without entry i: LAST moves to the entry before it   *)
(* if it was the last one, the bytes behind it move down, the end is       *)
(* zeroed and cut off.                                                     *)
Removed(elements, i) ==
  LET o == elements[i].offset
      next == EndOf(elements[i]) + 1
      shrink == elements[i].size + 1
      before == IF i = 1 THEN 0 ELSE EndOf(elements[i - 1])
      marked == IF i = count THEN Put(bytes, before, <<LastFlag>>) ELSE bytes
      moved == IF count > 1 THEN Move(marked, o, next, Len(bytes) - next) ELSE marked
  IN  Resized(moved, Len(bytes) - shrink)

(* ccos_delete_file_from_parent_dir: the entry is looked up by the file's  *)
(* name, CCOS_ENOENT if there is none.  The data is written at its old     *)
(* size and at the new one; neither write needs a sector.                  *)
RemoveEntry(f) ==
  LET elements == Elements
      i == EntryIndex(elements, nameOf[f])
  IN  /\ ~overrun
      /\ nameOf[f] # NoName
      /\ IF i <= count
         THEN /\ bytes' = Removed(elements, i)
              /\ count' = count - 1
              /\ nameOf' = [nameOf EXCEPT ![f] = NoName]
              /\ result' = "ok"
         ELSE /\ result' = "missing"
              /\ UNCHANGED <<bytes, count, nameOf>>
      /\ UNCHANGED <<overrun, found>>

-----------------------------------------------------------------------------

(* Each file is in a directory once, whoever made it.                      *)
ASSUME FoundAssumption ==
  \A d \in Found :
    /\ d.names \in Seq(Names) /\ 1 .. Len(d.names) \subseteq Files
    /\ \A i, j \in 1 .. Len(d.names) : i # j => ~SameName(d.names[i], d.names[j])
    /\ d.slack \in Nat

(* Files 1, 2, ... under the given names, in that order.  A new directory  *)
(* (ccos_create_dir, the formatter) is LAST and zeroes.                    *)
Laid(names, slack) ==
  LET upTo[k \in 0 .. Len(names)] ==
        IF k = 0 THEN <<Flag(names = <<>>)>>
        ELSE upTo[k - 1] \o Entry(k, names[k]) \o <<Flag(k = Len(names))>>
  IN  upTo[Len(names)] \o [k \in 1 .. slack |-> Zero]

Init ==
  /\ found \in Found
  /\ bytes = Laid(found.names, found.slack)
  /\ count = Len(found.names)
  /\ nameOf = [f \in Files |-> IF f <= Len(found.names) THEN found.names[f] ELSE NoName]
  /\ result = "none"
  /\ overrun = FALSE

Next ==
  \/ \E f \in Files, n \in Names :
       AddEntry(f, n) \/ AddExists(f, n) \/ AddNoSpace(f, n)
  \/ \E f \in Files : RemoveEntry(f)

Spec == Init /\ [][Next]_dirVars

-----------------------------------------------------------------------------

Listed == {e.file : e \in {Elements[i] : i \in 1 .. count}}

(* Who reads entries up to LAST (GRiD OS) and who reads as many as the     *)
(* inode counts (this tool) see the same directory, whatever was inserted  *)
(* and removed where: ccos_parse_directory_data stops at neither too early *)
(* nor too late.                                                           *)
CountMeetsMarker ==
  LET elements == Parse(bytes, count)
  IN  /\ Len(elements) = count
      /\ Parse(bytes, Len(bytes)) = elements
      /\ At(bytes, RealSize(Elements) - 1) = LastFlag

(* Each entry can be left backwards: the byte in front of its closing flag *)
(* leads to the flag in front of it (create_directory_entry's reverse      *)
(* length), and the entry before ends there.                               *)
ReadsBackwards ==
  LET elements == Elements
  IN  \A i \in 1 .. count :
        EndOf(elements[i]) - At(bytes, EndOf(elements[i]) - 1).len - 1
          = (IF i = 1 THEN 0 ELSE EndOf(elements[i - 1]))

(* A directory reads the same in all three ways.                           *)
ReadsAlike == CountMeetsMarker /\ ReadsBackwards

(* ccos_add_file_entry_to_dir_contents moves bytes up to the stored size   *)
(* in a buffer made for the real size.  That is in bounds as long as no    *)
(* call leaves bytes behind the last flag: only a directory that had some  *)
(* when the image was opened, with entries in it, is moved out of bounds.  *)
MovesFit == overrun => found.names # <<>> /\ found.slack > 0

(* GRiD's order of names: '~' before all else, then upper case ASCII, a    *)
(* name before those it is a prefix of.                                    *)
Precedes(a, b) ==
  \E k \in 1 .. Len(b) :
    /\ \A j \in 1 .. k - 1 : j <= Len(a) /\ Weight(a[j]) = Weight(b[j])
    /\ k <= Len(a) => Weight(a[k]) < Weight(b[k])

Ordered ==
  LET elements == Elements
  IN  \A i \in 1 .. count - 1 : Precedes(NameAt(elements, i), NameAt(elements, i + 1))

(* Inserting and removing keep the entries in GRiD's order; a directory    *)
(* found in another order (older versions of the tool) stays usable.       *)
KeepsOrder == [][Ordered => Ordered']_dirVars

(* What callers see is a set of files with names of their own.             *)
Abstract == INSTANCE Directory WITH listed <- Listed

ImplementsDirectory == Abstract!Spec
=============================================================================
