--------------------------- MODULE HostToolProofs ---------------------------
(* Theorems about HostTool, for any set of images and number of commands.  *)
EXTENDS HostTool, TLAPS

LEMMA OutputType ==
  ASSUME NEW c \in Commands
  PROVE  Output(c) \in Path /\ Edited(c) \in Images
BY DEF Commands, Output, Edited, Path

LEMMA WholeType ==
  ASSUME NEW s \in SUBSET Runs
  PROVE  Whole(s) \in Contents
BY DEF Whole, Contents

(* The counter of runs numbers the command that runs.                      *)
RunStarted == pc # "idle" => run \in Runs

TypeInv == TypeOK /\ RunStarted

LEMMA InitType == Init => TypeInv
<1> SUFFICES ASSUME Init PROVE TypeInv
  OBVIOUS
<1>1. [state |-> "missing", has |-> {}] \in Contents /\ Whole({}) \in Contents
  BY DEF Whole, Contents
<1>2. host \in [Path -> Contents] /\ mem \in Contents
  BY <1>1 DEF Init
<1>3. cmd \in Commands
  BY DEF Init, Commands, Modes
<1>4. run \in 0 .. MaxRuns
  <2>1. run = 0 /\ MaxRuns \in Nat
    BY HostToolAssumption DEF Init
  <2> QED BY <2>1
<1>5. pc = "idle" /\ code = 0 /\ trouble = FALSE /\ lost = FALSE
  BY DEF Init
<1> QED BY <1>2, <1>3, <1>4, <1>5 DEF TypeInv, TypeOK, RunStarted

LEMMA NextType == TypeInv /\ [Next]_vars => TypeInv'
<1> SUFFICES ASSUME TypeInv, [Next]_vars PROVE TypeInv'
  OBVIOUS
<1> USE DEF TypeInv, TypeOK, RunStarted
<1>1. ASSUME NEW c \in Commands, Begin(c) PROVE TypeInv'
  <2>1. run + 1 \in 0 .. MaxRuns /\ run + 1 \in Runs
    BY <1>1, HostToolAssumption DEF Begin, Runs
  <2> QED BY <1>1, <2>1 DEF Begin
<1>2. CASE ReadImage
  <2>1. mem' \in Contents
    BY <1>2, OutputType DEF ReadImage, Path
  <2> QED BY <1>2, <2>1 DEF ReadImage
<1>3. CASE ReadFails \/ OperateFails \/ FormatFails \/ OpenFails \/ WriteShort
           \/ CloseFails
  BY <1>3 DEF ReadFails, OperateFails, FormatFails, OpenFails, WriteShort,
              CloseFails, Exit
<1>4. CASE PrintImage
  BY <1>4 DEF PrintImage, Exit
<1>5. CASE Operate
  <2>1. mem' \in Contents
    BY <1>5 DEF Operate, Contents
  <2> QED BY <1>5, <2>1 DEF Operate
<1>6. CASE CopyFails
  BY <1>6 DEF CopyFails
<1>7. CASE Format
  <2>1. mem' \in Contents
    BY <1>7, WholeType DEF Format
  <2> QED BY <1>7, <2>1 DEF Format
<1>8. CASE OpenOutput
  <2>1. Torn \in Contents
    BY DEF Torn, Contents
  <2> QED BY <1>8, <2>1, OutputType DEF OpenOutput
<1>9. CASE WriteOutput
  BY <1>9, OutputType DEF WriteOutput, Exit
<1>10. CASE Killed \/ Done
  BY <1>10 DEF Killed, Done
<1>11. CASE UNCHANGED vars
  BY <1>11 DEF vars
<1> QED
  BY <1>1, <1>2, <1>3, <1>4, <1>5, <1>6, <1>7, <1>8, <1>9, <1>10, <1>11
  DEF Next

LEMMA TypeInvariant == Spec => []TypeInv
BY InitType, NextType, PTL DEF Spec

(* Every variable of the tool keeps its type; the exit codes are those of  *)
(* wrapper.h and create_blank_image's errors.                              *)
THEOREM TypeCorrect == Spec => []TypeOK
<1>1. TypeInv => TypeOK
  BY DEF TypeInv
<1> QED BY <1>1, TypeInvariant, PTL
-----------------------------------------------------------------------------
(* The copy in memory holds the change from the moment the operation has   *)
(* succeeded; copy saves what it has also when the library failed.         *)
ChangeHeld ==
  /\ pc \in {"save", "write"} /\ cmd.mode \in EditModes \cup {"create"} =>
       run \in mem.has
  /\ ExitCodeTrue

LEMMA ChangeHeldKept == TypeInv /\ ChangeHeld /\ [Next]_vars => ChangeHeld'
<1> SUFFICES ASSUME TypeInv, ChangeHeld, [Next]_vars PROVE ChangeHeld'
  OBVIOUS
<1> USE DEF ChangeHeld, ExitCodeTrue, Succeeded
<1>1. ASSUME NEW c \in Commands, Begin(c) PROVE ChangeHeld'
  BY <1>1 DEF Begin
<1>2. CASE ReadImage
  BY <1>2 DEF ReadImage
<1>3. CASE ReadFails \/ OperateFails \/ FormatFails \/ OpenFails \/ WriteShort
           \/ CloseFails
  BY <1>3 DEF ReadFails, OperateFails, FormatFails, OpenFails, WriteShort,
              CloseFails, Exit
<1>4. CASE PrintImage
  BY <1>4 DEF PrintImage, Exit, EditModes
<1>5. CASE Operate
  <2>1. run \in mem'.has
    BY <1>5 DEF Operate, TypeInv, TypeOK, Contents
  <2> QED BY <1>5, <2>1 DEF Operate
<1>6. CASE CopyFails
  BY <1>6 DEF CopyFails, EditModes
<1>7. CASE Format
  BY <1>7 DEF Format, Whole
<1>8. CASE OpenOutput
  BY <1>8 DEF OpenOutput
<1>9. CASE WriteOutput
  <2>1. host'[Output(cmd)] = mem
    BY <1>9, OutputType DEF WriteOutput, TypeInv, TypeOK
  <2>2. pc' = "exit" /\ cmd' = cmd /\ run' = run
    BY <1>9 DEF WriteOutput, Exit
  <2>3. Output(cmd)' = Output(cmd)
    BY <2>2 DEF Output, Edited
  <2> QED BY <1>9, <2>1, <2>2, <2>3 DEF WriteOutput
<1>10. CASE Killed \/ Done
  BY <1>10 DEF Killed, Done
<1>11. CASE UNCHANGED vars
  BY <1>11 DEF vars, Output, Edited
<1> QED
  BY <1>1, <1>2, <1>3, <1>4, <1>5, <1>6, <1>7, <1>8, <1>9, <1>10, <1>11
  DEF Next

(* Exit code 0 of an editing or formatting command means that the file it  *)
(* writes holds the change, unless the host lost bytes at a close.         *)
THEOREM ExitCodeCorrect == Spec => []ExitCodeTrue
<1>1. Init => ChangeHeld
  BY DEF Init, ChangeHeld, ExitCodeTrue, Succeeded
<1>2. ChangeHeld => ExitCodeTrue
  BY DEF ChangeHeld
<1> QED BY <1>1, <1>2, TypeInvariant, ChangeHeldKept, PTL DEF Spec
-----------------------------------------------------------------------------
(* Without a kill, an error code or a loss at a close, the only torn file  *)
(* is the one that is being written.                                       *)
OnlyOutputTorn ==
  ~trouble /\ ~lost =>
    /\ mem.state # "torn"
    /\ \A p \in Path :
         host[p].state = "torn" => pc = "write" /\ p = Output(cmd)

LEMMA OnlyOutputTornKept ==
  TypeInv /\ OnlyOutputTorn /\ [Next]_vars => OnlyOutputTorn'
<1> SUFFICES ASSUME TypeInv, OnlyOutputTorn, [Next]_vars PROVE OnlyOutputTorn'
  OBVIOUS
<1> USE DEF OnlyOutputTorn
<1>1. ASSUME NEW c \in Commands, Begin(c) PROVE OnlyOutputTorn'
  BY <1>1 DEF Begin
<1>2. CASE ReadImage
  <2>1. <<Edited(cmd), "">> \in Path
    BY OutputType DEF TypeInv, TypeOK, Path
  <2> QED BY <1>2, <2>1 DEF ReadImage
<1>3. CASE ReadFails \/ OperateFails \/ FormatFails \/ OpenFails \/ WriteShort
           \/ CloseFails
  <2>1. -1 # 0 /\ 1 # 0
    OBVIOUS
  <2>2. trouble' = TRUE \/ lost' = TRUE
    BY <1>3, <2>1, Zenon DEF ReadFails, OperateFails, FormatFails, OpenFails,
                             WriteShort, CloseFails, Exit
  <2> QED BY <2>2
<1>4. CASE PrintImage
  BY <1>4 DEF PrintImage, Exit
<1>5. CASE Operate
  <2>1. mem'.state = mem.state
    BY <1>5 DEF Operate, TypeInv, TypeOK, Contents
  <2> QED BY <1>5, <2>1 DEF Operate
<1>6. CASE CopyFails
  BY <1>6 DEF CopyFails
<1>7. CASE Format
  BY <1>7 DEF Format, Whole
<1>8. CASE OpenOutput
  <2>1. Output(cmd)' = Output(cmd)
    BY <1>8 DEF OpenOutput, Output, Edited
  <2>2. \A p \in Path : p # Output(cmd) => host'[p] = host[p]
    BY <1>8 DEF OpenOutput, TypeInv, TypeOK
  <2> QED BY <1>8, <2>1, <2>2 DEF OpenOutput
<1>9. CASE WriteOutput
  <2>1. host'[Output(cmd)] = mem
    BY <1>9, OutputType DEF WriteOutput, TypeInv, TypeOK
  <2>2. \A p \in Path : p # Output(cmd) => host'[p] = host[p]
    BY <1>9 DEF WriteOutput, TypeInv, TypeOK
  <2> QED BY <1>9, <2>1, <2>2 DEF WriteOutput, Exit
<1>10. CASE Killed \/ Done
  BY <1>10 DEF Killed, Done
<1>11. CASE UNCHANGED vars
  BY <1>11 DEF vars, Output, Edited
<1> QED
  BY <1>1, <1>2, <1>3, <1>4, <1>5, <1>6, <1>7, <1>8, <1>9, <1>10, <1>11
  DEF Next

(* While every command has exited with 0 and nothing was lost at a close,  *)
(* no command reads a torn image.                                          *)
THEOREM TornReported == Spec => []TornIsReported
<1>1. Init => OnlyOutputTorn
  <2> SUFFICES ASSUME Init PROVE OnlyOutputTorn
    OBVIOUS
  <2>1. ASSUME NEW p \in Path
        PROVE  host[p].state # "torn"
    <3>1. host[p] \in {[state |-> "missing", has |-> {}], Whole({})}
      BY DEF Init
    <3> QED BY <3>1 DEF Whole
  <2> QED BY <2>1 DEF Init, OnlyOutputTorn, Whole
<1>2. OnlyOutputTorn => TornIsReported
  BY DEF OnlyOutputTorn, TornIsReported
<1> QED BY <1>1, <1>2, TypeInvariant, OnlyOutputTornKept, PTL DEF Spec

(* Whatever fails and whenever the process is killed, an image is written  *)
(* to only in place, by a command about it.                                *)
THEOREM ImagesAreKept == Spec => ImagesKept
<1> DEFINE Change ==
      \A i \in Images :
        host'[<<i, "">>] # host[<<i, "">>] =>
          /\ cmd.inPlace \/ cmd.mode = "create"
          /\ i = Edited(cmd)
<1>1. TypeInv /\ [Next]_vars => [Change]_vars
  <2> SUFFICES ASSUME TypeInv, Next PROVE Change
    BY DEF vars
  <2>1. host' = host \/ OpenOutput \/ WriteOutput
    BY DEF Next, Begin, ReadImage, ReadFails, PrintImage, Operate, OperateFails,
           CopyFails, Format, FormatFails, OpenFails, WriteShort, CloseFails,
           Killed, Done
  <2>2. \A p \in Path : host'[p] # host[p] => p = Output(cmd)
    BY <2>1 DEF OpenOutput, WriteOutput, TypeInv, TypeOK
  <2>3. \A i \in Images : <<i, "">> \in Path
    BY DEF Path
  <2>4. ASSUME NEW i \in Images, <<i, "">> = Output(cmd)
        PROVE  (cmd.inPlace \/ cmd.mode = "create") /\ i = Edited(cmd)
    BY <2>4 DEF Output
  <2> QED BY <2>2, <2>3, <2>4
<1> QED BY <1>1, TypeInvariant, PTL DEF Spec, ImagesKept
=============================================================================
