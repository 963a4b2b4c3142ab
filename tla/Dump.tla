-------------------------------- MODULE Dump --------------------------------
(***************************************************************************)
(* Dumping an image to the host (tool/wrapper.c, dump_dir): the tree of    *)
(* directories is walked once, a directory is made for each directory and  *)
(* a file written for each file.                                           *)
(*                                                                         *)
(* A name counts by what the host gets to see of it: "host" is the name    *)
(* with '_' for '/', of a directory without its type; "steps" are the      *)
(* steps of a path that the same name makes when '/' stays in it.          *)
(***************************************************************************)
EXTENDS Integers, Sequences, SequencesExt

CONSTANTS
  MaxFiles,  \* files of the image, directories included
  Names,     \* [host, steps, dir], see above
  Top        \* the host directory named after the image's label

Root == 0
Ids == 1 .. MaxFiles
Torn == -1

ASSUME DumpAssumption ==
  /\ MaxFiles \in Nat \ {0}
  /\ \A n \in Names : n.dir \in BOOLEAN /\ n.steps # <<>>

VARIABLES
  name,    \* [Ids -> name]
  parent,  \* [Ids -> directory], of files that come in the order of their ids
  files,   \* what the host has: a set of [path, is], is a file's id, Root for
           \* a directory, or Torn
  stack,   \* frames of traverse_ccos_image, the innermost one first:
           \* directory, its path, the last entry seen
  result,  \* of the dump
  broken   \* history: the host could not make a directory or write a file

dumpVars == <<name, parent, files, stack, result, broken>>

IsDir(f) == IF f = Root THEN TRUE ELSE name[f].dir

Entries(d) == {f \in Ids : parent[f] = d}

IsHostDir(path) == path = <<>> \/ [path |-> path, is |-> Root] \in files
Exists(path) == \E x \in files : x.path = path

(* What is left to do in the innermost directory: the next entry.          *)
Dir == stack[1].dir
Path == stack[1].path
Pending == {f \in Entries(Dir) : f > stack[1].seen}
Upcoming(f) == stack # <<>> /\ f \in Pending /\ \A g \in Pending : f <= g

Seen(f) == [stack EXCEPT ![1].seen = f]

Frame(d, path) == [dir |-> d, path |-> path, seen |-> 0]

(* Mutant of CanMake: a directory that is there is an error.               *)
CanMakeAnew(path) == ~Exists(path) /\ IsHostDir(Front(path))

(* mkdir of a path: there may be something of that name already.           *)
Made(path) == IF Exists(path) THEN files ELSE files \cup {[path |-> path, is |-> Root]}
CanMake(path) == Exists(path) \/ IsHostDir(Front(path))

(* fopen to write: what was there is gone.                                 *)
Written(path, f) == {x \in files : x.path # path} \cup {[path |-> path, is |-> f]}
CanWrite(path) == IsHostDir(Front(path)) /\ ~IsHostDir(path)

(* An error ends the traversal on all levels.                              *)
Abort ==
  /\ result' = "error"
  /\ stack' = <<>>
  /\ UNCHANGED <<name, parent>>

(* dump_dir.                                                               *)
Start ==
  /\ result = "none"
  /\ files' = Made(<<Top>>)
  /\ stack' = <<Frame(Root, <<Top>>)>>
  /\ result' = "running"
  /\ UNCHANGED <<name, parent, broken>>

(* Mutant of EnterDir: the walk goes on in the directory's own parent.     *)
EnterDirFlat(f) ==
  /\ Upcoming(f)
  /\ IsDir(f)
  /\ LET made == Append(Path, name[f].host)
     IN  /\ CanMake(made)
         /\ files' = Made(made)
         /\ stack' = <<Frame(f, Path)>> \o Seen(f)
  /\ UNCHANGED <<name, parent, result, broken>>

(* dump_dir_tree_on_dir and the recursion behind it, which takes its path  *)
(* from the name as it is.                                                 *)
EnterDir(f) ==
  /\ Upcoming(f)
  /\ IsDir(f)
  /\ LET made == Append(Path, name[f].host)
     IN  /\ CanMake(made)
         /\ files' = Made(made)
         /\ stack' = <<Frame(f, Path \o name[f].steps)>> \o Seen(f)
  /\ UNCHANGED <<name, parent, result, broken>>

(* dump_dir_tree_on_file.                                                  *)
DumpFile(f) ==
  /\ Upcoming(f)
  /\ ~IsDir(f)
  /\ LET path == Append(Path, name[f].host)
     IN  /\ CanWrite(path)
         /\ files' = Written(path, f)
  /\ stack' = Seen(f)
  /\ UNCHANGED <<name, parent, result, broken>>

(* The path leads nowhere, or to a directory.                              *)
NoSuchPath(f) ==
  /\ Upcoming(f)
  /\ LET path == Append(Path, name[f].host)
     IN  IF IsDir(f) THEN ~CanMake(path) ELSE ~CanWrite(path)
  /\ Abort
  /\ UNCHANGED <<files, broken>>

(* mkdir or fopen fails.                                                   *)
HostFails ==
  /\ stack # <<>> \/ result = "none"
  /\ Abort
  /\ broken' = TRUE
  /\ UNCHANGED files

(* fwrite falls short, or fclose, of which nobody asks the result.         *)
WriteFails(f) ==
  /\ Upcoming(f)
  /\ ~IsDir(f)
  /\ LET path == Append(Path, name[f].host)
     IN  /\ CanWrite(path)
         /\ files' = Written(path, Torn)
  /\ broken' = TRUE
  /\ \/ Abort
     \/ stack' = Seen(f) /\ UNCHANGED <<name, parent, result>>

(* Mutant of Leave: the caller starts over.                                *)
LeaveAnew ==
  /\ stack # <<>>
  /\ Pending = {}
  /\ stack' = IF Len(stack) = 1 THEN <<>> ELSE [Tail(stack) EXCEPT ![1].seen = 0]
  /\ result' = IF Len(stack) = 1 THEN "ok" ELSE result
  /\ UNCHANGED <<name, parent, files, broken>>

(* The loop over a directory ends, and the caller's goes on.               *)
Leave ==
  /\ stack # <<>>
  /\ Pending = {}
  /\ stack' = Tail(stack)
  /\ result' = IF Len(stack) = 1 THEN "ok" ELSE result
  /\ UNCHANGED <<name, parent, files, broken>>

(* No directory's name has a '/', and no two of a directory look the same  *)
(* on the host.                                                            *)
Plain ==
  /\ \A f \in Ids : IsDir(f) => name[f].steps = <<name[f].host>>
  /\ \A f, g \in Ids : f # g /\ parent[f] = parent[g] => name[f].host # name[g].host

(* Where a file of the image belongs on the host.                          *)
Paths(names, tree) ==
  LET of[g \in Ids] ==
        Append(IF tree[g] = Root THEN <<Top>> ELSE of[tree[g]], names[g].host)
  IN  of

PathOf(f) == Paths(name, parent)[f]

Copy(f) == [path |-> PathOf(f), is |-> IF IsDir(f) THEN Root ELSE f]

(* What an earlier dump that failed may have left.                         *)
Remains ==
  {[path |-> <<Top>>, is |-> Root]}
    \cup {[Copy(f) EXCEPT !.is = IF IsDir(f) THEN Root ELSE Torn] : f \in Ids}

(* Any tree, names differ within a directory; the host has nothing yet, or *)
(* an earlier dump.                                                        *)
Init ==
  /\ name \in [Ids -> Names]
  /\ parent \in {p \in [Ids -> {Root} \cup Ids] :
                  \A f \in Ids : p[f] < f /\ (p[f] # Root => name[p[f]].dir)}
  /\ \A f, g \in Ids : f # g /\ parent[f] = parent[g] => name[f] # name[g]
  /\ files \in IF Plain THEN {{}, Remains} ELSE {{}}
  /\ stack = <<>>
  /\ result = "none"
  /\ broken = FALSE

Step ==
  \/ Start
  \/ \E f \in Ids : EnterDir(f) \/ DumpFile(f) \/ WriteFails(f) \/ NoSuchPath(f)
  \/ HostFails
  \/ Leave

Next == Step

Spec == Init /\ [][Next]_dumpVars /\ WF_dumpVars(Step)

-----------------------------------------------------------------------------

(* Unless the host fails, a dump returns 0, and then it has written each   *)
(* file of the image to a file of its own, in the directory made for its   *)
(* directory, whatever the tree, and whatever was there from an earlier    *)
(* dump (dump_dir, traverse_ccos_image).                                   *)
DumpedWhole ==
  Plain /\ ~broken /\ result \in {"ok", "error"} =>
    result = "ok" /\ \A f \in Ids : Copy(f) \in files

(* It writes nothing but that, at any time and on any path: a dump that    *)
(* ends early leaves files where a later one puts the same ones.           *)
NothingElseDumped ==
  Plain => files \subseteq Remains \cup {Copy(f) : f \in Ids}

(* The recursion comes to its end (traverse_ccos_image).                   *)
Ends == <>(result \in {"ok", "error"})

(* "some directories have '/' in their names" (dump_dir_tree_on_dir): such *)
(* a name alone is no reason to fail.                                      *)
SlashesAllowed == result = "error" => broken
=============================================================================
