-------------------------------- MODULE MCPool --------------------------------
(***************************************************************************)
(* Pool for TLC: every sequence of up to three of the files below, which   *)
(* import each other, share names and share types.                         *)
(***************************************************************************)
EXTENDS Pool

F(n, imports, messages, nested) ==
  [name |-> n, imports |-> imports, messages |-> messages, nested |-> nested]

MCNames == {"A", "B", "B.C", "D", "E"}

\* d.proto is once more there with another type, and e.proto takes b.proto's.
MCFiles ==
  {F("a", {}, <<"A">>, {}), F("b", {"a"}, <<"B">>, {"B.C"}), F("d", {"a", "b"}, <<"D">>, {}),
   F("d", {}, <<"E">>, {}), F("e", {}, <<"E", "B">>, {})}

MCFileSets == UNION {[1..n -> MCFiles] : n \in 0..3}
===============================================================================
