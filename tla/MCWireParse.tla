----------------------------- MODULE MCWireParse -----------------------------
(***************************************************************************)
(* WireParse for TLC: words of four bits, a default limit of four bytes,   *)
(* every buffer of up to five bytes of five kinds, a tag that no field can *)
(* have, and messages nested deeper than the recursion limit.              *)
(***************************************************************************)
EXTENDS WireParse

\* As tags: a scalar, a message, an optional scalar, a zero, an end-group tag.
\* As lengths: 1, 2, 0, 3, and 7, which is past every end.
MCByte == {[tag |-> "1", value |-> 1], [tag |-> "2", value |-> 2],
           [tag |-> "3", value |-> 0], [tag |-> "0", value |-> 3],
           [tag |-> "stop", value |-> 7]}
Bad  == [tag |-> "bad", value |-> 0]
Long == [tag |-> "2", value |-> 4]

\* No limit, every one that a buffer can reach, the largest int and the largest
\* word, one beyond each, and a negative one.
MCAsked == 0..5 \cup {7, 8, 15, 19, -3}

MCBuffers ==
  UNION {[1..n -> MCByte] : n \in 0..5} \cup {<<Long, Long, Bad>>, [i \in 1..6 |-> Long]}
==============================================================================
