------------------------------ MODULE MCFormat ------------------------------
(* Sizes on both sides of every limit the formatter knows: the superblocks, *)
(* the capacity of one and of two bitmask sectors, ten megabytes, sizes     *)
(* that are no multiple of 8 sectors, 2^16 sectors and just beyond.         *)
EXTENDS Format

SectorCounts512 ==
  {8, 288, 289, 290, 296, 720, 3992, 4000, 4008, 8000, 8008, 20472, 20480,
   40000, 65528, 65536, 65544}
SectorCounts256 ==
  {8, 1016, 1022, 1024, 1536, 1984, 1992, 2048, 3968, 3976, 40000, 65528}

MCRequests ==
  [format : {"compass", "gridcase"}, bytes : {512 * n : n \in SectorCounts512}]
    \cup [format : {"bubble"}, bytes : {256 * n : n \in SectorCounts256}]
    \cup [format : {"compass", "bubble"}, bytes : {368896}]
=============================================================================
