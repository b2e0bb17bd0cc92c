---------------------------- MODULE MCSerializer ----------------------------
(* Small instances of Serializer: objects that run JavaScript while they   *)
(* are being serialized.                                                   *)
EXTENDS Serializer

CONSTANTS d1, d2, odd, junk, none, obj, sub, list, buf

MCObjs  == {obj, sub, list, buf}
MCNames == {"name", "data", "r", "sender", "flag", "kind", "next"}
MCData  == {d1, d2}
MCFalsy == {d2}
\* Of the two texts, d1 has a NUL in it, after d2.
MCCut   == [x \in MCData \cup {odd} |-> IF x = d1 THEN d2 ELSE x]

Desc(name, label, kind, type) == [name |-> name, label |-> label, kind |-> kind, sub |-> type]

\* test/test.proto reduced: one required scalar, one nested message with a
\* required field of its own, one repeated field.
MCSchema ==
  "Test" :> << Desc("name", "required", "string", "Data"),
               Desc("data", "optional", "message", "Data"),
               Desc("r", "repeated", "number", "Data") >>
  @@ "Data" :> << Desc("sender", "required", "int64", "Data") >>

Num(d)    == [tag |-> "number", ref |-> d]
Str(d)    == [tag |-> "string", ref |-> d]
Obj(o)    == [tag |-> "object", ref |-> o]
List(o)   == [tag |-> "array", ref |-> o]
Typed(o)  == [tag |-> "typed", ref |-> o]
Null      == [tag |-> "null", ref |-> none]
Undef     == [tag |-> "undefined", ref |-> none]
Getter    == [tag |-> "accessor", ref |-> none]

Plain(props, elems) ==
  [props |-> [n \in MCNames |-> IF n \in DOMAIN props THEN props[n] ELSE Undef],
   elems |-> elems]

HeapOf(name, data, r, sender, elems) ==
  obj :> Plain("name" :> name @@ "data" :> data @@ "r" :> r, <<>>)
  @@ sub :> Plain("sender" :> sender, <<>>)
  @@ list :> Plain(<<>>, elems) @@ buf :> Plain(<<>>, <<Num(d2)>>)

\* Getters and objects with conversions of their own in every position.
ScriptHeaps ==
  {HeapOf(name, data, List(list), sender, elems) :
     name \in {Str(d1), Getter, Obj(sub)},
     data \in {Undef, Obj(sub), Getter},
     sender \in {Str(d2), Getter},
     elems \in {<<Num(d1), Getter>>, <<Obj(sub), Num(d2)>>}}

\* No JavaScript of the caller's runs during the walk.
QuietHeaps ==
  {HeapOf(name, data, List(list), sender, <<Num(d1)>>) :
     name \in {Str(d1), Undef}, data \in {Undef, Obj(sub)}, sender \in {Str(d2), Undef}}

ScriptUpdates ==
  {[obj |-> list, contents |-> Plain(<<>>, <<>>)],
   [obj |-> sub, contents |-> Plain("sender" :> Null, <<>>)]}

ScriptAnswers == {Undef, Str(d1), Obj(sub)}

----------------------------------------------------------------------------
\* A recursive message type with a field of every kind.
NodeSchema ==
  "Node" :> << Desc("kind", "required", "enum", "Node"),
               Desc("flag", "repeated", "bool", "Node"),
               Desc("sender", "optional", "int64", "Node"),
               Desc("name", "optional", "string", "Node"),
               Desc("next", "repeated", "message", "Node") >>

NodeOf(kind, flag, sender, name, next) ==
  obj :> Plain("kind" :> kind @@ "flag" :> flag @@ "sender" :> sender
               @@ "name" :> name @@ "next" :> next, <<>>)
  @@ sub :> Plain("kind" :> Num(d1), <<>>)
  @@ buf :> Plain(<<>>, <<Num(d2)>>)

\* Trees, and objects that contain themselves.
NodeHeaps ==
  {NodeOf(kind, flag, sender, name, next) @@ list :> Plain(<<>>, elems) :
     kind \in {Obj(sub), Str(d1)},
     flag \in {Null, Typed(buf)},
     sender \in {Undef, Str(odd), Obj(sub), List(list)},
     name \in {Null, Obj(sub), Typed(buf)},
     next \in {List(list), Obj(sub)},
     elems \in {<<Obj(sub), Num(d1)>>, <<Obj(obj)>>}}

NodeUpdates == {[obj |-> list, contents |-> Plain(<<>>, <<Obj(obj), Obj(sub)>>)]}

NodeAnswers == {Undef, Str(d1), Typed(buf)}
=============================================================================
