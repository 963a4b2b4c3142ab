----------------------------- MODULE Directory -----------------------------
(***************************************************************************)
(* What a directory promises to its callers, without bytes: a set of files *)
(* whose names differ, whatever their case.  A file that is not listed has *)
(* no name here.                                                           *)
(***************************************************************************)
CONSTANTS
  Files,
  Names,
  NoName,
  SameName(_, _)  \* equal up to case

VARIABLES
  listed,  \* the files of the directory
  nameOf,  \* [Files -> Names \cup {NoName}]
  result   \* of the last call

vars == <<listed, nameOf, result>>

Taken(n) == \E f \in listed : SameName(nameOf[f], n)

(* A file is listed under a name nobody has.                               *)
Add(f, n) ==
  /\ f \notin listed
  /\ ~Taken(n)
  /\ listed' = listed \cup {f}
  /\ nameOf' = [nameOf EXCEPT ![f] = n]
  /\ result' = "ok"

(* A name that is taken is refused, and nothing changes.                   *)
Refuse(f, n) ==
  /\ f \notin listed
  /\ Taken(n)
  /\ result' = "exists"
  /\ UNCHANGED <<listed, nameOf>>

(* The volume is full, and nothing changes.                                *)
NoSpace ==
  /\ result' = "nospace"
  /\ UNCHANGED <<listed, nameOf>>

(* A listed file can always be removed, and no other file goes.            *)
Remove(f) ==
  /\ f \in listed
  /\ listed' = listed \ {f}
  /\ nameOf' = [nameOf EXCEPT ![f] = NoName]
  /\ result' = "ok"

Next ==
  \/ \E f \in Files, n \in Names : Add(f, n) \/ Refuse(f, n)
  \/ NoSpace
  \/ \E f \in Files : Remove(f)

Init ==
  /\ listed \in SUBSET Files
  /\ nameOf \in [Files -> Names \cup {NoName}]
  /\ \A f \in Files : (nameOf[f] = NoName) <=> (f \notin listed)
  /\ \A f, g \in listed : f # g => ~SameName(nameOf[f], nameOf[g])
  /\ result = "none"

Spec == Init /\ [][Next]_vars
=============================================================================
