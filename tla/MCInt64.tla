------------------------------- MODULE MCInt64 -------------------------------
(***************************************************************************)
(* Int64 for TLC: halves of three bits, so that wide fields have six, and  *)
(* doubles of four; numbers and texts past every edge, and every pair of   *)
(* halves, signed or not.                                                  *)
(***************************************************************************)
EXTENDS Int64

MCScales == {1, 2, 4, 8, 16, 32}
Edges    == -80..80

MCGiven ==
  {Number(n) : n \in {Round(n) : n \in Edges}} \cup {Text(n, s) : n \in Edges, s \in BOOLEAN}
    \cup {Pair(hi, lo) : hi, lo \in -4..7} \cup {NaN, Word}
==============================================================================
