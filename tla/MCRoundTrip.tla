----------------------------- MODULE MCRoundTrip -----------------------------
(* A small instance of RoundTrip: every kind of value in every kind of     *)
(* field, nested and not, complete and not.                                *)
EXTENDS RoundTrip

CONSTANTS d1, d2, odd, junk, none, obj, sub1, list, objects, halves, buf,
          o1, o2, o3, o4, o5, o6, o7, o8, o9, o10, o11, o12, o13, o14, o15, o16, o17, o18

MCArena == <<o1, o2, o3, o4, o5, o6, o7, o8, o9, o10, o11, o12, o13, o14, o15, o16, o17, o18>>
MCObjs  == {obj, sub1, list, objects, halves, buf} \cup Range(MCArena)
MCNames == {"n64", "name", "kind", "flag", "raw", "r", "all",
            "number", "type", "$unknownFields"}
MCData  == {d1, d2}
\* Of the two texts, d1 has a NUL in it, after d2.
MCCut   == [x \in MCData \cup {odd} |-> IF x = d1 THEN d2 ELSE x]
MCNumerals  == <<d1, d1, d1, d1, d1, d1, d1>>
MCWireTypes == [k \in Kinds |-> d1]

Desc(name, label, kind, type) == [name |-> name, label |-> label, kind |-> kind, sub |-> type]

MCSchema ==
  "Test" :> << Desc("n64", "required", "int64", "Test"),
               Desc("name", "required", "string", "Test"),
               Desc("kind", "optional", "enum", "Test"),
               Desc("flag", "optional", "bool", "Test"),
               Desc("raw", "optional", "bytes", "Test"),
               Desc("r", "repeated", "number", "Test"),
               Desc("all", "repeated", "message", "Data") >>
  @@ "Data" :> << Desc("name", "required", "string", "Data"),
                  Desc("n64", "optional", "int64", "Data") >>
MCKnown == [t \in DOMAIN MCSchema |-> Len(MCSchema[t])]

Num(d)   == [tag |-> "number", ref |-> d]
Str(d)   == [tag |-> "string", ref |-> d]
Bool(b)  == [tag |-> "boolean", ref |-> b]
Obj(o)   == [tag |-> "object", ref |-> o]
List(o)  == [tag |-> "array", ref |-> o]
Typed(o) == [tag |-> "typed", ref |-> o]
Undef    == [tag |-> "undefined", ref |-> none]
Null     == [tag |-> "null", ref |-> none]

Plain(props, elems) ==
  [props |-> [n \in MCNames |-> IF n \in DOMAIN props THEN props[n] ELSE Undef],
   elems |-> elems]

HeapOf(n64, name, kind, flag, raw, r, sub) ==
  obj :> Plain("n64" :> n64 @@ "name" :> name @@ "kind" :> kind @@ "flag" :> flag
               @@ "raw" :> raw @@ "r" :> r @@ "all" :> List(objects), <<>>)
  @@ sub1 :> Plain("name" :> sub @@ "n64" :> n64, <<>>)
  @@ objects :> Plain(<<>>, <<Obj(sub1), Num(d1)>>)
  @@ list :> Plain(<<>>, <<Num(d1), Str(odd), Bool(1)>>)
  @@ halves :> Plain(<<>>, <<Num(d1), Num(d2)>>)
  @@ buf :> Plain(<<>>, <<Num(d2), Num(d1)>>)
  @@ [o \in MCObjs |-> Plain(<<>>, <<>>)]

MCHeaps ==
  {HeapOf(n64, name, kind, flag, raw, r, sub) :
     n64 \in {Num(d1), Str(d2), Num(odd), Bool(1), List(halves)},
     name \in {Str(d1), Num(odd), Typed(buf), Bool(0)},
     kind \in {Null, Num(d1), Str(odd)},
     flag \in {Undef, Str(d2), Bool(0)},
     raw \in {Str(d1), Typed(buf)},
     r \in {Undef, List(list)},
     sub \in {Null, Str(d1)}}
=============================================================================
