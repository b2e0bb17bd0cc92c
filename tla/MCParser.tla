------------------------------ MODULE MCParser ------------------------------
(* A small instance of Parser.                                             *)
EXTENDS Parser

CONSTANTS d1, d2, n1, n2, n3, n4, n5, varint, delimited, odd, junk, none,
          o1, o2, o3, o4, o5, o6, o7, o8, o9, o10, o11, o12, o13, o14, o15, o16, o17, o18, o19, o20, o21, o22

MCArena == <<o1, o2, o3, o4, o5, o6, o7, o8, o9, o10, o11, o12, o13, o14, o15, o16,
             o17, o18, o19, o20, o21, o22>>
MCObjs  == Range(MCArena)
MCNames == {"n64", "data", "r", "raw", "extra", "more", "flag", "kind", "all",
            "number", "type", "$unknownFields"}
MCNumerals == <<n1, n2, n3, n4, n5>>
MCData  == {d1, d2, varint, delimited} \cup Range(MCNumerals)
\* Of the two texts, d1 has a NUL in it, after d2.
MCCut   == [x \in MCData \cup {odd} |-> IF x = d1 THEN d2 ELSE x]
MCWireTypes ==
  [k \in Kinds |-> IF k \in {"message", "string", "bytes"} THEN delimited ELSE varint]

Desc(name, label, kind, type) == [name |-> name, label |-> label, kind |-> kind, sub |-> type]

\* test/testUnknown.proto, with a field of every kind and label; the reader
\* knows all but the last field, as test/test.proto does.
MCSchema ==
  "Test" :> << Desc("n64", "required", "int64", "Test"),
               Desc("data", "optional", "message", "Data"),
               Desc("all", "repeated", "message", "Data"),
               Desc("r", "repeated", "number", "Test"),
               Desc("extra", "repeated", "string", "Test") >>
  @@ "Data" :> << Desc("kind", "required", "enum", "Data"),
                  Desc("flag", "optional", "bool", "Data"),
                  Desc("r", "repeated", "number", "Data"),
                  Desc("raw", "optional", "bytes", "Data"),
                  Desc("more", "optional", "message", "Data") >>
MCKnown == "Test" :> 4 @@ "Data" :> 4

Test(n64, data, all, r, extra) ==
  [type |-> "Test", root |-> 1, vals |-> <<n64, data, all, r, extra>>]
Data1(kind, flag, r, raw, more) ==
  [type |-> "Data", root |-> 1, vals |-> <<kind, flag, r, raw, more>>]

\* A Test with one or two Data, complete or not, one of which holds a Data that
\* is not complete in a field the reader does not know; and a Data of its own in
\* a second buffer.
MCTables ==
  {<<Test(n64, data, all, r, extra),
     Data1(IF n64 = <<<<d1>>>> /\ data # <<>> THEN <<>> ELSE <<<<d1>>>>,
           <<<<0>>>>, r, <<<<d1, junk>>>>, <<<<5>>>>),
     Data1(<<<<d2>>>>, <<>>, <<<<d1>>, <<junk>>>>, <<>>, <<>>),
     [Data1(<<<<d1>>>>, <<<<1>>>>, r, <<<<>>>>, <<>>) EXCEPT !.root = 4],
     Data1(<<>>, <<>>, <<>>, <<>>, <<>>)>> :
     n64 \in {<<<<d1, d2>>>>, <<<<d1>>>>},
     data \in {<<>>, <<<<2>>>>},
     all \in {<<>>, <<<<3>>>>},
     r \in {<<>>, <<<<d1>>, <<d2>>>>},
     extra \in {<<>>, <<<<d1>>, <<d2>>>>}}
=============================================================================
