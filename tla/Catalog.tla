------------------------------ MODULE Catalog ------------------------------
(***************************************************************************)
(* Files by name: the tree of directories, the names and types of files,   *)
(* and the commands of the tool (tool/wrapper.c) that take a name and act  *)
(* on the file a search through the image finds.                           *)
(*                                                                         *)
(* A name is the sequence of its parts between '~': "Demo~Text~" has the   *)
(* parts Demo, Text and an empty one.  A part is a text and its length, so *)
(* that a name that is cut keeps the parts in front of the cut.            *)
(***************************************************************************)
EXTENDS Integers, Sequences, FiniteSets, SequencesExt

CONSTANTS
  Root,         \* the root directory
  Ids,          \* sectors for the inodes of the others
  FileNames,    \* names of files that are added or copied
  BaseNames,    \* names that directories are created and files renamed with
  NewTypes,     \* types given to ccos_rename_file, NoType for NULL
  SourceDirs,   \* names of directories files are copied from
  Folded,       \* [texts -> texts], in lower case
  Printed,      \* [texts -> texts], '/' replaced by '_'
  NameMax       \* CCOS_MAX_FILE_NAME, 80

NoType == <<>>
NoName == <<>>
NoFile == -1

ASSUME CatalogAssumption ==
  /\ Ids \subseteq Nat /\ IsFiniteSet(Ids)
  /\ Root \in Nat \ Ids
  /\ NameMax \in Nat \ {0}

VARIABLES
  live,     \* inodes in use besides the root
  name,     \* [Ids -> name], NoName if free
  parent,   \* [Ids -> desc.dir_file_id]
  entries,  \* what the contents of each file list, read as a directory's
  retyped,  \* history: a directory was given a name that makes it no
            \* directory, see MakesPlain
  orphans   \* history: files that a failed rename left in no directory

catVars == <<live, name, parent, entries, retyped, orphans>>

Empty == [text |-> "", len |-> 0]
Parts == {p \in [text : DOMAIN Folded, len : Nat] : p.len = 0 => p = Empty}

-----------------------------------------------------------------------------
(* Names.                                                                  *)

(* Where part i begins.                                                    *)
StartOf(n, i) ==
  LET start[k \in 1 .. i] == IF k = 1 THEN 0 ELSE start[k - 1] + n[k - 1].len + 1
  IN  start[i]

NameLength(n) == StartOf(n, Len(n)) + n[Len(n)].len

(* A part of which at most l characters are left.                          *)
Clip(p, l) == IF l <= 0 THEN Empty ELSE IF p.len <= l THEN p ELSE [p EXCEPT !.len = l]

(* snprintf into a buffer: the first l characters.                         *)
Cut(n, l) ==
  LET kept == {i \in 1 .. Len(n) : StartOf(n, i) <= l}
  IN  [i \in 1 .. Cardinality(kept) |-> Clip(n[i], l - StartOf(n, i))]

(* ccos_parse_short_file_name: two '~', the second one at the end.         *)
Parses(n) ==
  /\ Len(n) = 3
  /\ n[3] = Empty
  /\ NameLength(n) \in 1 .. NameMax

IsSubject(part) == part.len = 7 /\ Folded[part.text] = "subject"

(* ccos_is_dir.                                                            *)
DirName(n) == Parses(n) /\ IsSubject(n[2])
IsDir(f) == f = Root \/ DirName(name[f])

SameName(a, b) ==
  /\ Len(a) = Len(b)
  /\ \A i \in 1 .. Len(a) :
       a[i].len = b[i].len /\ Folded[a[i].text] = Folded[b[i].text]

(* What find_file_on_file compares with the name it looks for.             *)
Shown(n) == [i \in 1 .. Len(n) |-> [n[i] EXCEPT !.text = Printed[@]]]

Subject == [text |-> "Subject", len |-> 7]

(* The name ccos_create_dir builds.                                        *)
DirNameFor(base) == base \o <<Subject, Empty>>

(* Mutant of NewName: the last character but one is cut as well.           *)
NewNameShort(old, base, type) ==
  Cut(base \o (IF type = NoType THEN <<old[2]>> ELSE type) \o <<Empty>>, NameMax - 2)

(* The name ccos_rename_file builds: the new type or else the old one, cut *)
(* to the buffer without its last byte.                                    *)
NewName(old, base, type) ==
  Cut(base \o (IF type = NoType THEN <<old[2]>> ELSE type) \o <<Empty>>, NameMax - 1)

-----------------------------------------------------------------------------
(* Search.                                                                 *)

(* Mutants of Visit: a match ends the whole search; what was found in one  *)
(* directory is forgotten in the next.                                     *)
VisitFirst(c, n, sofar, deeper, rest) ==
  IF sofar # NoFile THEN sofar
  ELSE IF Shown(name[c]) = n THEN c ELSE rest[IF IsDir(c) THEN deeper[c][sofar] ELSE sofar]

VisitAnew(c, n, sofar, deeper, rest) ==
  IF Shown(name[c]) = n THEN c ELSE rest[IF IsDir(c) THEN deeper[c][NoFile] ELSE sofar]

(* One turn of the loop of traverse_ccos_image with find_file_on_file, at  *)
(* entry c: a match ends the loop over this directory; else it goes on     *)
(* (rest), after a traversal of c if c is a directory (deeper).  The       *)
(* caller, which gets 0 either way, goes on with its next entry, and a     *)
(* later match takes the place of the one found.                           *)
Visit(c, n, sofar, deeper, rest) ==
  IF Shown(name[c]) = n THEN c ELSE rest[IF IsDir(c) THEN deeper[c][sofar] ELSE sofar]

(* The loop over the entries of d, as a function of what was found before. *)
Traverse(d, n, deeper) ==
  LET loop[j \in 0 .. Len(entries[d])] ==  \* over the last j entries
        [sofar \in Ids \cup {NoFile} |->
           IF j = 0 THEN sofar
           ELSE Visit(entries[d][Len(entries[d]) - j + 1], n, sofar, deeper, loop[j - 1])]
  IN  loop[Len(entries[d])]

(* find_filename.  A directory inside itself would be an error here, and a *)
(* loop without end in the code.                                           *)
Find(n) ==
  LET search[k \in 0 .. Cardinality(Ids) + 1] ==  \* with less than k files beneath
        IF k = 0 THEN <<>> ELSE [d \in Ids \cup {Root} |-> Traverse(d, n, search[k - 1])]
  IN  search[Cardinality(Ids) + 1][Root][NoFile]

ProgramsDir1 == <<[text |-> "Programs", len |-> 8], Subject, Empty>>
ProgramsDir2 == <<[text |-> "Programs", len |-> 8], [Subject EXCEPT !.text = "subject"], Empty>>

(* Names given have a part.  A text in which '/' shows as '_' is not the   *)
(* type of directories.  Files are copied from directories: the name of a  *)
(* root directory is the disk's label, and may be any file's here.         *)
ASSUME NamesAssumption ==
  /\ {Empty, Subject} \subseteq Parts /\ IsSubject(Subject)
  /\ FileNames \cup BaseNames \subseteq Seq(Parts) \ {<<>>}
  /\ NewTypes \subseteq Seq(Parts)
  /\ \A p \in SourceDirs \cup {ProgramsDir1, ProgramsDir2} : DirName(p)
  /\ \A t \in DOMAIN Folded : Folded[Printed[t]] = "subject" => Folded[t] = "subject"

(* The first of some names that is found, or the root directory.           *)
FirstFound(names) ==
  LET found == {i \in 1 .. Len(names) : Find(names[i]) # NoFile}
  IN  IF found = {} THEN Root
      ELSE Find(names[CHOOSE i \in found : \A j \in found : i <= j])

(* add_file, do_copy_file.                                                 *)
AddDestination == FirstFound(<<ProgramsDir1, ProgramsDir2>>)
CopyDestination(p) == FirstFound(<<p, ProgramsDir1, ProgramsDir2>>)

-----------------------------------------------------------------------------
(* Calls.                                                                  *)

(* What a traversal from d reaches, without d: what d lists, and what the  *)
(* directories it lists do.                                                *)
Beneath(d) ==
  {f \in Ids : \A S \in SUBSET Ids :
     ToSet(entries[d]) \cup UNION {ToSet(entries[c]) : c \in {c \in S : IsDir(c)}} \subseteq S
       => f \in S}

(* A listing without some files.                                           *)
Without(list, gone) ==
  LET kept[k \in 0 .. Len(list)] ==
        IF k = 0 THEN <<>>
        ELSE IF list[k] \in gone THEN kept[k - 1] ELSE Append(kept[k - 1], list[k])
  IN  kept[Len(list)]

Taken(d, n) == \E f \in ToSet(entries[d]) : SameName(name[f], n)

(* ccos_add_file and ccos_copy_file: an inode, its contents, and an entry  *)
(* in d; where in d is DirData's concern.                                  *)
NewFile(d, n) ==
  /\ Ids \ live # {}
  /\ NameLength(n) \in 1 .. NameMax
  /\ ~Taken(d, n)
  /\ LET f == CHOOSE f \in Ids \ live : \A g \in Ids \ live : f <= g
     IN  \E i \in 1 .. Len(entries[d]) + 1 :
           /\ live' = live \cup {f}
           /\ name' = [name EXCEPT ![f] = n]
           /\ parent' = [parent EXCEPT ![f] = d]
           /\ entries' = [entries EXCEPT ![d] = InsertAt(@, i, f)]
  /\ UNCHANGED <<retyped, orphans>>

(* add_file.                                                               *)
AddFile(n) == NewFile(AddDestination, n)

(* ccos_create_dir; the tool's create_directory has d = Root.              *)
MakeDir(base, d) ==
  /\ d \in {Root} \cup {f \in Beneath(Root) : IsDir(f)}
  /\ NewFile(d, DirNameFor(base))

(* copy_file, into this image: a file named n of a directory named p.  A   *)
(* directory is copied without entries: see Not modelled in the README.    *)
CopyIn(n, p) == NewFile(CopyDestination(p), n)

(* A rename after which a directory need not be one any more: another type *)
(* is asked for, or '~' is in the name, or the whole does not fit.         *)
MakesPlain(base, type) ==
  \/ type # NoType /\ ~(Len(type) = 1 /\ IsSubject(type[1]))
  \/ Len(base) > 1
  \/ NameLength(DirNameFor(base)) > NameMax - 1

(* ccos_rename_file of a file the caller found: the old entry goes, the    *)
(* name changes, a new entry comes.  If that name is taken, or the longer  *)
(* entry finds no space, the file has its new name but no entry.           *)
Renamed(f, base, type) ==
  LET n == NewName(name[f], base, type)
      without == [entries EXCEPT ![parent[f]] = Without(@, {f})]
      taken == \E c \in ToSet(without[parent[f]]) : SameName(name[c], n)
  IN  /\ Parses(name[f])
      /\ name' = [name EXCEPT ![f] = n]
      /\ \/ /\ ~taken
            /\ \E i \in 1 .. Len(without[parent[f]]) + 1 :
                 entries' = [without EXCEPT ![parent[f]] = InsertAt(@, i, f)]
            /\ UNCHANGED orphans
         \/ /\ taken \/ NameLength(n) > NameLength(name[f])
            /\ entries' = without
            /\ orphans' = orphans \cup {f}
      /\ retyped' = (retyped \/ (IsDir(f) /\ MakesPlain(base, type)))
      /\ UNCHANGED <<live, parent>>

RenameFile(f, base, type) ==
  /\ f \in Beneath(Root)
  /\ Renamed(f, base, type)

(* rename_file of the tool, by name and with the type left alone.          *)
ToolRename(n, base) ==
  LET found == Find(n) IN found # NoFile /\ Renamed(found, base, NoType)

(* Mutant of Delete: a directory's own entry stays in its parent.          *)
DeleteKeepsEntry(n) ==
  LET found == Find(n)
      doomed == {found} \cup (IF IsDir(found) THEN Beneath(found) ELSE {})
  IN  /\ found # NoFile
      /\ live' = live \ doomed
      /\ name' = [f \in Ids |-> IF f \in doomed THEN NoName ELSE name[f]]
      /\ parent' = [f \in Ids |-> IF f \in doomed THEN Root ELSE parent[f]]
      /\ entries' = [d \in Ids \cup {Root} |->
                       IF d \in doomed THEN <<>>
                       ELSE IF IsDir(found) THEN entries[d]
                       ELSE Without(entries[d], {found})]
      /\ UNCHANGED <<retyped, orphans>>

(* delete_file: ccos_delete_file of the file found, and first, if it is a  *)
(* directory, of all it lists.                                             *)
Delete(n) ==
  LET found == Find(n)
      doomed == {found} \cup (IF IsDir(found) THEN Beneath(found) ELSE {})
  IN  /\ found # NoFile
      /\ live' = live \ doomed
      /\ name' = [f \in Ids |-> IF f \in doomed THEN NoName ELSE name[f]]
      /\ parent' = [f \in Ids |-> IF f \in doomed THEN Root ELSE parent[f]]
      /\ entries' = [d \in Ids \cup {Root} |->
                       IF d \in doomed THEN <<>>
                       ELSE Without(entries[d], {c \in doomed : parent[c] = d})]
      /\ UNCHANGED <<retyped, orphans>>

Init ==
  /\ live = {}
  /\ name = [f \in Ids |-> NoName]
  /\ parent = [f \in Ids |-> Root]
  /\ entries = [d \in Ids \cup {Root} |-> <<>>]
  /\ retyped = FALSE
  /\ orphans = {}

ShownNames == {Shown(name[f]) : f \in live}

Next ==
  \/ \E n \in FileNames : AddFile(n)
  \/ \E base \in BaseNames, d \in live \cup {Root} : MakeDir(base, d)
  \/ \E n \in FileNames, p \in SourceDirs : CopyIn(n, p)
  \/ \E f \in live, base \in BaseNames, type \in NewTypes : RenameFile(f, base, type)
  \/ \E n \in ShownNames, base \in BaseNames : ToolRename(n, base)
  \/ \E n \in ShownNames : Delete(n)

Spec == Init /\ [][Next]_catVars

-----------------------------------------------------------------------------

(* The search of find_filename misses no file: if any file in the tree     *)
(* shows a name, a file with that name is found, although a match ends the *)
(* loop over one directory, and the callers' loops go on.                  *)
SearchComplete ==
  LET reached == Beneath(Root)
  IN  \A n \in ShownNames :
        LET hits == {f \in reached : Shown(name[f]) = n}
        IN  IF hits = {} THEN Find(n) = NoFile ELSE Find(n) \in hits

(* Of several files with the name, the one found is not hidden under a     *)
(* directory of its path that lists the name itself, wherever in the       *)
(* listing that entry comes: what find_filename returns is overwritten by  *)
(* the later match nearer to the root.                                     *)
NearestOnPath ==
  \A n \in ShownNames :
    LET found == Find(n)
    IN  found # NoFile =>
          \A d \in {Root} \cup {f \in live : IsDir(f)} :
            found \in Beneath(d) /\ d # parent[found]
              => \A f \in ToSet(entries[d]) : Shown(name[f]) # n

(* "Directory contents inodes" (ccos_image.h, ccos_get_dir_contents): what *)
(* a directory lists are files of this image, and each one names this      *)
(* directory as its parent, which is where a delete or a rename looks for  *)
(* its entry.                                                              *)
ListedByParent ==
  \A d \in {Root} \cup {f \in live : IsDir(f)} :
    \A f \in ToSet(entries[d]) : f \in live /\ parent[f] = d

(* Every file can be reached from the root directory, but for those a      *)
(* failed rename left out and what is beneath them, as long as directories *)
(* are only renamed to names without '~' that are shorter than NameMax     *)
(* with the type: then ccos_rename_file leaves a directory a directory.    *)
NothingLost ==
  retyped \/ live \subseteq (UNION {Beneath(d) : d \in {Root} \cup orphans}) \cup orphans
=============================================================================
