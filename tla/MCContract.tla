----------------------------- MODULE MCContract -----------------------------
(* Serializer implements SerializerContract, on objects that run no        *)
(* JavaScript: every field may hold every kind of value.                   *)
EXTENDS Serializer

CONSTANTS d1, d2, odd, junk, none, obj, sub, sub2, list, buf

MCObjs  == {obj, sub, sub2, list, buf}
MCNames == {"kind", "flag", "big", "name", "next", "all", "pair", "x"}
MCData  == {d1, d2}
MCFalsy == {d2}
\* Of the two texts, d1 has a NUL in it, after d2.
MCCut   == [x \in MCData \cup {odd} |-> IF x = d1 THEN d2 ELSE x]

Desc(name, label, kind, type) == [name |-> name, label |-> label, kind |-> kind, sub |-> type]

\* A field of each kind, then a message and a repeated message whose own
\* required field is the last, as in test/perf/perf.proto.
MCSchema ==
  "Test" :> << Desc("kind", "optional", "enum", "Test"),
               Desc("name", "required", "string", "Test"),
               Desc("flag", "optional", "bool", "Test"),
               Desc("big", "repeated", "int64", "Test"),
               Desc("next", "required", "message", "Point"),
               Desc("all", "repeated", "message", "Point") >>
  @@ "Point" :> << Desc("pair", "optional", "int64", "Point"),
                   Desc("x", "required", "number", "Point") >>

Num(d)   == [tag |-> "number", ref |-> d]
Str(d)   == [tag |-> "string", ref |-> d]
Obj(o)   == [tag |-> "object", ref |-> o]
List(o)  == [tag |-> "array", ref |-> o]
Typed(o) == [tag |-> "typed", ref |-> o]
Null     == [tag |-> "null", ref |-> none]
Undef    == [tag |-> "undefined", ref |-> none]

Plain(props, elems) ==
  [props |-> [n \in MCNames |-> IF n \in DOMAIN props THEN props[n] ELSE Undef],
   elems |-> elems]

HeapOf(kind, name, flag, big, next, elems, x) ==
  obj :> Plain("kind" :> kind @@ "name" :> name @@ "flag" :> flag @@ "big" :> big
               @@ "next" :> next @@ "all" :> List(list), <<>>)
  @@ sub :> Plain("x" :> x @@ "pair" :> List(buf), <<>>)
  @@ sub2 :> Plain("x" :> Num(d2) @@ "pair" :> Str(d1), <<>>)
  @@ list :> Plain(<<>>, elems)
  @@ buf :> Plain(<<>>, <<Num(d2)>>)

MCHeaps ==
  {HeapOf(kind, name, flag, big, next, elems, x) :
     kind \in {Str(d1), Num(odd)},
     name \in {Null, Num(odd), Typed(buf)},
     flag \in {Undef, Str(d2)},
     big \in {Str(d1), Typed(buf), List(list)},
     next \in {Undef, Obj(sub), Str(odd)},
     elems \in {<<>>, <<Str(d1), Null>>, <<Str(odd)>>},
     x \in {Str(odd), Null}}
  \cup
  {HeapOf(Null, Str(d1), Obj(sub), big, Obj(sub2), elems, x) :
     big \in {Typed(buf), Null},
     elems \in {<<Obj(sub), Obj(sub2)>>, <<Obj(sub2), Str(d2), Obj(sub)>>},
     x \in {Str(odd), Null}}

MCUpdates ==
  {[obj |-> sub, contents |-> Plain("x" :> Str(d2) @@ "pair" :> Str(odd), <<>>)],
   [obj |-> list, contents |-> Plain(<<>>, <<Str(d2), Undef>>)]}

----------------------------------------------------------------------------
\* The message tree that a message of the serializer has become.
RECURSIVE Tree(_)
Tree(m) ==
  LET Item(f, e) == IF f.kind = "message" THEN Tree(e[1]) ELSE e
      type == msgs[m].type
      vals == msgs[m].vals
  IN [type |-> type,
      vals |-> [n \in DOMAIN vals |->
                  [k \in DOMAIN vals[n] |-> Item(Schema[type][n], vals[n][k])]]]

Roots == SelectSeq(stack, LAMBDA fr : fr.root)

Contract == INSTANCE SerializerContract WITH
  open    <- [k \in DOMAIN Roots |-> [obj |-> Roots[k].obj, type |-> msgs[Roots[k].msg].type]],
  replies <- [r \in DOMAIN results |->
                [ret |-> results[r].ret,
                 message |-> IF results[r].ret = "buffer" THEN <<Tree(results[r].msg)>> ELSE <<>>]],
  gone    <- aborted

\* What the walk of SerializePart and SerializeField leaves behind, field by
\* field and level by level, is the answer the contract gives in one step:
\* the verdict depends on the outermost object alone, the buffer holds the
\* values of every level in order, and the process aborts exactly on a
\* reached 64-bit field whose string is no numeral.
ImplementsContract == Contract!Spec
=============================================================================
