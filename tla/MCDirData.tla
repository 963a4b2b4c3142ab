----------------------------- MODULE MCDirData -----------------------------
(* Names that differ in case, in '~' against letters, in '_' (which sorts  *)
(* behind upper case and in front of lower case), and in their length.     *)
EXTENDS DirData

MCNames == {<<97>>, <<65>>, <<97, 126>>, <<97, 98>>, <<95>>}

(* A new directory with the slack of its first sector; one an older        *)
(* version left in another order; one with bytes behind the last flag.     *)
MCFound ==
  {[names |-> <<>>, slack |-> 9],
   [names |-> <<<<97, 98>>, <<97, 126>>, <<65>>>>, slack |-> 0],
   [names |-> <<<<65>>, <<95>>>>, slack |-> 2]}
=============================================================================
