---------------------------- MODULE MCContentList ----------------------------
(* Two files that compete for seven sectors: the first one can grow to two *)
(* content inodes, the second one is kept to one.                          *)
EXTENDS ContentList

SecondShort == Len(DataOf(2)) <= 2
=============================================================================
