------------------------------ MODULE MCDump ------------------------------
(* Directories a, b and "a/b"; files x, "a/x" and "a_x"; a file a without  *)
(* a type, which looks like the directory.                                 *)
EXTENDS Dump

Directory(host, steps) == [host |-> host, steps |-> steps, dir |-> TRUE]
File(host, steps) == [host |-> host, steps |-> steps, dir |-> FALSE]

MCPlainNames == {Directory("a", <<"a">>), Directory("b", <<"b">>), File("x", <<"x">>)}

MCLooks == {File("a_x", <<"a_x">>), File("a_x", <<"a", "x">>), File("a", <<"a">>)}

MCNames == MCPlainNames \cup MCLooks \cup {Directory("a_b", <<"a", "b">>)}

(* The second one as it is in real images: "GRiD-OS/Windows 113x, ..."     *)
MCSlashNames == {Directory("a_b", <<"a", "b">>), File("x", <<"x">>)}
=============================================================================
