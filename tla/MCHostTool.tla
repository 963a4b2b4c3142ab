----------------------------- MODULE MCHostTool -----------------------------
(* Two images and two commands: the second may read what the first wrote.  *)
EXTENDS HostTool
=============================================================================
