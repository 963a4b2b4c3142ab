------------------------------ MODULE HostTool ------------------------------
(***************************************************************************)
(* The command line tool (tool/main.c, tool/wrapper.c, tool/common.c): one *)
(* process per command reads an image, runs one operation of the library   *)
(* on the copy in memory and writes the whole copy out again, over the     *)
(* image or to a file beside it.  The library is a step that succeeds or   *)
(* fails; Volume says what it does.  A process may be killed anywhere.     *)
(*                                                                         *)
(* A file on the host is missing, torn (truncated, half written) or whole; *)
(* an image's contents are the set of commands whose change it holds.      *)
(***************************************************************************)
EXTENDS Integers

CONSTANTS
  Images,  \* paths a user gives
  MaxRuns  \* commands run, one after another

ASSUME HostToolAssumption == MaxRuns \in Nat

Runs == 1 .. MaxRuns
EditModes == {"add", "mkdir", "delete", "rename", "replace"}
Modes == EditModes \cup {"copy", "create", "print"}
Commands ==
  [mode : Modes, image : Images, target : Images, inPlace : BOOLEAN]

Path == Images \X {"", ".out", ".new"}
Contents == [state : {"missing", "torn", "whole"}, has : SUBSET Runs]

Torn == [state |-> "torn", has |-> {}]
Whole(s) == [state |-> "whole", has |-> s]

VARIABLES
  host,    \* [Path -> Contents]
  pc,      \* the step the process takes next, "idle" without one
  cmd,     \* its command
  run,     \* number of commands begun
  mem,     \* the image in memory
  code,    \* exit code, 0 or otherwise
  trouble, \* history: a process was killed or exited with a code other than 0
  lost     \* history: buffered bytes were lost at a close

vars == <<host, pc, cmd, run, mem, code, trouble, lost>>

Init ==
  /\ host \in [Path -> {[state |-> "missing", has |-> {}], Whole({})}]
  /\ \A p \in Path : p[2] # "" => host[p].state = "missing"
  /\ pc = "idle" /\ run = 0 /\ code = 0
  /\ trouble = FALSE /\ lost = FALSE
  /\ cmd \in [mode : {"print"}, image : Images, target : Images,
              inPlace : {FALSE}]
  /\ mem = Whole({})

(* The image a command changes, and the file its result is written to.     *)
Edited(c) == IF c.mode = "copy" THEN c.target ELSE c.image

(* Mutant of Output: the flag is ignored by copy.                          *)
OutputAlwaysInPlace(c) ==
  << Edited(c),
     IF c.inPlace \/ c.mode \in {"create", "copy"} THEN ""
     ELSE IF c.mode = "replace" THEN ".new"
     ELSE ".out" >>

(* save_image; replace_file has a copy of it with a suffix of its own, and *)
(* create_blank_image always writes to the path it was given.              *)
Output(c) ==
  << Edited(c),
     IF c.inPlace \/ c.mode = "create" THEN ""
     ELSE IF c.mode = "replace" THEN ".new"
     ELSE ".out" >>

Exit(c) ==
  /\ pc' = "exit"
  /\ code' = c
  /\ trouble' = (trouble \/ c # 0)

Begin(c) ==
  /\ pc = "idle" /\ run < MaxRuns
  /\ cmd' = c /\ run' = run + 1 /\ code' = 0
  /\ pc' = IF c.mode = "create" THEN "operate" ELSE "read"
  /\ UNCHANGED <<host, mem, trouble, lost>>

(* main reads the image; copy_file reads the target as well.  A torn image *)
(* may have a size that passes the checks.                                 *)
ReadImage ==
  /\ pc = "read"
  /\ host[<<cmd.image, "">>].state # "missing"
  /\ cmd.mode = "copy" => host[<<cmd.target, "">>].state # "missing"
  /\ mem' = host[<<Edited(cmd), "">>]
  /\ pc' = "operate"
  /\ UNCHANGED <<host, cmd, run, code, trouble, lost>>

(* No such file, a read error, a FAT or ImageDisk image, a size or a       *)
(* superblock ccos_disk_new refuses, no root directory.                    *)
ReadFails ==
  /\ pc = "read"
  /\ Exit(-1)
  /\ UNCHANGED <<host, cmd, run, mem, lost>>

PrintImage ==
  /\ pc = "operate" /\ cmd.mode = "print"
  /\ \E c \in {0, -1} : Exit(c)
  /\ UNCHANGED <<host, cmd, run, mem, lost>>

(* ccos_add_file, ccos_create_dir, ccos_delete_file, ccos_rename_file,     *)
(* ccos_replace_file or ccos_copy_file succeeds.                           *)
Operate ==
  /\ pc = "operate" /\ cmd.mode \in EditModes \cup {"copy"}
  /\ mem' = [mem EXCEPT !.has = @ \cup {run}]
  /\ pc' = "save"
  /\ UNCHANGED <<host, cmd, run, code, trouble, lost>>

(* Mutant of OperateFails: the error is printed and the image saved.       *)
OperateFailsSaved ==
  /\ pc = "operate" /\ cmd.mode \in EditModes \cup {"copy"}
  /\ pc' = "save"
  /\ UNCHANGED <<host, cmd, run, mem, code, trouble, lost>>

(* The file is not found or the library fails.                             *)
OperateFails ==
  /\ pc = "operate" /\ cmd.mode \in EditModes \cup {"copy"}
  /\ Exit(-1)
  /\ UNCHANGED <<host, cmd, run, mem, lost>>

(* copy_file takes every result of do_copy_file but -1 for success, and    *)
(* ccos_copy_file's errors are positive; it has undone its changes.        *)
CopyFails ==
  /\ pc = "operate" /\ cmd.mode = "copy"
  /\ pc' = "save"
  /\ UNCHANGED <<host, cmd, run, mem, code, trouble, lost>>

(* create_blank_image: ccos_new_disk_image, then save_image.               *)
Format ==
  /\ pc = "operate" /\ cmd.mode = "create"
  /\ mem' = Whole({run})
  /\ pc' = "save"
  /\ UNCHANGED <<host, cmd, run, code, trouble, lost>>

FormatFails ==
  /\ pc = "operate" /\ cmd.mode = "create"
  /\ Exit(1)
  /\ UNCHANGED <<host, cmd, run, mem, lost>>

(* fopen "wb" truncates.                                                   *)
OpenOutput ==
  /\ pc = "save"
  /\ host' = [host EXCEPT ![Output(cmd)] = Torn]
  /\ pc' = "write"
  /\ UNCHANGED <<cmd, run, mem, code, trouble, lost>>

OpenFails ==
  /\ pc = "save"
  /\ Exit(-1)
  /\ UNCHANGED <<host, cmd, run, mem, lost>>

WriteOutput ==
  /\ pc = "write"
  /\ host' = [host EXCEPT ![Output(cmd)] = mem]
  /\ Exit(0)
  /\ UNCHANGED <<cmd, run, mem, lost>>

(* Mutant of WriteShort: the number of bytes written is not looked at.     *)
WriteShortIgnored ==
  /\ pc = "write"
  /\ Exit(0)
  /\ UNCHANGED <<host, cmd, run, mem, lost>>

WriteShort ==
  /\ pc = "write"
  /\ Exit(-1)
  /\ UNCHANGED <<host, cmd, run, mem, lost>>

(* fwrite has taken all bytes; fclose's result is not looked at.           *)
CloseFails ==
  /\ pc = "write"
  /\ Exit(0)
  /\ lost' = TRUE
  /\ UNCHANGED <<host, cmd, run, mem>>

Killed ==
  /\ pc \notin {"idle", "exit"}
  /\ pc' = "idle" /\ trouble' = TRUE
  /\ UNCHANGED <<host, cmd, run, mem, code, lost>>

Done ==
  /\ pc = "exit"
  /\ pc' = "idle"
  /\ UNCHANGED <<host, cmd, run, mem, code, trouble, lost>>

Next ==
  \/ \E c \in Commands : Begin(c)
  \/ ReadImage \/ ReadFails \/ PrintImage
  \/ Operate \/ OperateFails \/ CopyFails \/ Format \/ FormatFails
  \/ OpenOutput \/ OpenFails \/ WriteOutput \/ WriteShort \/ CloseFails
  \/ Killed \/ Done

Spec == Init /\ [][Next]_vars
-----------------------------------------------------------------------------
TypeOK ==
  /\ host \in [Path -> Contents]
  /\ pc \in {"idle", "read", "operate", "save", "write", "exit"}
  /\ cmd \in Commands
  /\ run \in 0 .. MaxRuns
  /\ mem \in Contents
  /\ code \in {-1, 0, 1}
  /\ trouble \in BOOLEAN /\ lost \in BOOLEAN

Succeeded(modes) == pc = "exit" /\ code = 0 /\ cmd.mode \in modes

(* wrapper.h: "0 on success, -1 otherwise": when the tool exits with 0,    *)
(* the file it writes to holds the change that was asked for, unless bytes *)
(* were lost at a close.                                                   *)
ExitCodeTrue ==
  ~lost /\ Succeeded(EditModes \cup {"create"}) => run \in host[Output(cmd)].has

(* The same for copy.                                                      *)
CopyExitCodeTrue ==
  ~lost /\ Succeeded({"copy"}) => run \in host[Output(cmd)].has

(* As long as every command has exited with 0 and no bytes were lost at a  *)
(* close, no image on the host is torn: a user who looks at exit codes     *)
(* never reads one.                                                        *)
TornIsReported ==
  pc \in {"idle", "read", "exit"} /\ ~trouble /\ ~lost =>
    \A p \in Path : host[p].state # "torn"

(* Without -l an image is never written to, whatever fails and whenever    *)
(* the process is killed; with it, only the image the command is about is. *)
ImagesKept ==
  [][\A i \in Images :
       host'[<<i, "">>] # host[<<i, "">>] =>
         /\ cmd.inPlace \/ cmd.mode = "create"
         /\ i = Edited(cmd)]_vars
=============================================================================
