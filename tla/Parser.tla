------------------------------- MODULE Parser -------------------------------
(***************************************************************************)
(* The native half of parse() and parseWithUnknown(): NativeProtobuf::Parse *)
(* and ::ParseWithUnknown in src/native.cpp, and the mutually recursive     *)
(* ParsePart and ParseField in src/parse.cpp, which turn a message into     *)
(* JavaScript objects.  One frame of stack per activation of ParsePart, one *)
(* action per loop step; no JavaScript of the caller's runs meanwhile.      *)
(*                                                                          *)
(* A buffer is what the library reads in it: a message of the table msgs,   *)
(* with a value for each occurrence of a field.  The reader's schema may be *)
(* older than the writer's and know only the first fields of a type.        *)
(***************************************************************************)
EXTENDS Values

CONSTANTS
  Tables,        \* the tables of messages a run may start from
  Known,         \* message type -> number of its fields that the reader knows
  Arena,         \* bound: the objects V8 will allocate, in order
  Numerals,      \* field number -> the payload that is this number
  WireTypes,     \* kind of field -> the payload that names its wire type
  Leftover,      \* the number that a conversion without a payload, or a pair
                 \* of halves, came to
  PreserveInt64, \* the constructor's flag preserve_int64
  MaxParses      \* bound: parse() calls made

\* A message, as Serializer leaves it: an item of a message field is the index
\* of the message, any other item the payloads its value was made of.
Item    == Seq(Data \cup {Odd, Junk} \cup Nat)
Message == [type : Types, root : Nat, vals : Seq(Seq(Item))]

\* What reflection may give for a field f of a message in a table.
ItemsOf(f, table) ==
  CASE f.kind = "message" -> {<<m>> : m \in {x \in DOMAIN table : table[x].type = f.sub}}
    [] f.kind = "bool" -> {<<0>>, <<1>>}
    [] f.kind = "enum" -> {<<d>> : d \in Data}
    [] OTHER -> Seq(Data \cup {Odd, Junk})
WellFormed(table) ==
  \A m \in DOMAIN table :
    LET fields == Schema[table[m].type]
    IN /\ Len(table[m].vals) = Len(fields)
       /\ \A n \in DOMAIN fields : table[m].vals[n] \in Seq(ItemsOf(fields[n], table))

ASSUME ReaderAssumption ==
  /\ \A t \in Types : Known[t] \in 0..Len(Schema[t]) /\ Len(Schema[t]) <= Len(Numerals)
  /\ Numerals \in Seq(Data) /\ WireTypes \in [Kinds -> Data] /\ Leftover \in Data
  /\ {"number", "type", "$unknownFields"} \subseteq Names
\* The library rejects descriptors with two fields of one name, and names that
\* are no identifiers.
ASSUME NamesAssumption ==
  \A t \in Types : \A n \in DOMAIN Schema[t] :
    /\ Schema[t][n].name # "$unknownFields"
    /\ \A k \in DOMAIN Schema[t] : Schema[t][k].name = Schema[t][n].name => k = n
ASSUME ArenaAssumption == Arena \in Seq(Objs) /\ IsInjective(Arena)
ASSUME TableAssumption == \A table \in Tables : table \in Seq(Message) /\ WellFormed(table)

VARIABLES
  msgs,    \* the messages written so far
  heap,    \* the JavaScript objects
  used,    \* how many objects of Arena are allocated
  frames,  \* the activations of ParsePart
  replies, \* what the calls answered: [call, value, exc]
  held     \* messages allocated by parse() and not deleted

vars == <<msgs, heap, used, frames, replies, held>>

\* A call: the message in the buffer (0: the bytes are no message), whether the
\* schema's name is known, the argument use_typed_array, parseWithUnknown?
Call == [buffer : {0} \cup {m \in DOMAIN msgs : msgs[m].root = m}, known : BOOLEAN,
         typed : {"absent", "yes", "no"}, unknown : BOOLEAN]

----------------------------------------------------------------------------

Fr        == Last(frames)
FieldOf(fr) == Schema[msgs[fr.msg].type][fr.i]
Items(fr) == msgs[fr.msg].vals[fr.i]
InList(fr) == fr.list # None
\* The value ParseField is called for.
Here(fr)  == Items(fr)[IF InList(fr) THEN fr.j ELSE 1]

InParse == frames # <<>> /\ Fr.i <= Known[msgs[Fr.msg].type]

Blank    == [props |-> [n \in Names |-> Undefined], elems |-> <<>>]
Listing(elems) == [Blank EXCEPT !.elems = elems]
Str(d)   == [tag |-> "string", ref |-> d]
Num(d)   == [tag |-> "number", ref |-> d]

\* ParsePart(isolate, message, preserve_int64, use_typed_array) begins.
NewPart(m, o, typed, unknown) ==
  [msg |-> m, ret |-> o, i |-> 1, list |-> None, j |-> 0,
   typed |-> typed, unknown |-> unknown]

\* Mutant: the index of the loop is not advanced.
OnwardSame(fr) == IF InList(fr) THEN fr ELSE [fr EXCEPT !.i = @ + 1]

\* array->Set(i, v) or ret->Set(name, v), and on to the next element or field.
Set(h, fr, v) ==
  IF InList(fr) THEN [h EXCEPT ![fr.list].elems[fr.j] = v]
                ELSE [h EXCEPT ![fr.ret].props[FieldOf(fr).name] = v]
Onward(fr) == IF InList(fr) THEN [fr EXCEPT !.j = fr.j + 1] ELSE [fr EXCEPT !.i = fr.i + 1]

\* New objects with these contents; the first is Arena[used + 1].
Allocate(h, contents) ==
  [o \in Objs |-> IF \E k \in DOMAIN contents : o = Arena[used + k]
                  THEN contents[CHOOSE k \in DOMAIN contents : o = Arena[used + k]]
                  ELSE h[o]]
Room(n)  == used + n <= Len(Arena)

----------------------------------------------------------------------------
(* ParseField, for every kind but a message.                               *)

\* Mutant: a conversion without a payload stays one.
HeldRaw(e) == e[1]

\* The number a field holds.
Held(e) == IF Len(e) = 1 /\ e[1] \in Data THEN e[1] ELSE Leftover

\* A 64-bit number is a string or a number, by the flag; an enum value its
\* name; a string what a C string keeps of it.
Scalar(f, e) ==
  CASE f.kind = "int64" -> IF PreserveInt64 THEN Str(Held(e)) ELSE Num(Held(e))
    [] f.kind = "bool" -> [tag |-> "boolean", ref |-> e[1]]
    [] f.kind = "enum" -> Str(e[1])
    [] f.kind = "string" -> Str(IF Len(e) = 1 /\ e[1] # Junk THEN Cut[e[1]] ELSE Odd)
    [] OTHER -> Num(Held(e))

\* CopyBuffer: the bytes, as the elements of a new Buffer.
BytesOf(e) == [k \in DOMAIN e |-> Num(IF e[k] \in Data THEN e[k] ELSE Odd)]

SetScalar ==
  /\ FieldOf(Fr).kind \notin {"message", "bytes"}
  /\ heap' = Set(heap, Fr, Scalar(FieldOf(Fr), Here(Fr)))
  /\ frames' = [frames EXCEPT ![Len(frames)] = Onward(Fr)]
  /\ UNCHANGED <<used, held, replies, msgs>>

SetBytes ==
  /\ FieldOf(Fr).kind = "bytes" /\ Room(1)
  /\ heap' = Set(Allocate(heap, <<Listing(BytesOf(Here(Fr)))>>), Fr,
                 [tag |-> "typed", ref |-> Arena[used + 1]])
  /\ used' = used + 1
  /\ frames' = [frames EXCEPT ![Len(frames)] = Onward(Fr)]
  /\ UNCHANGED <<held, replies, msgs>>

\* Mutant: the caller's choices are handed down.
NestedLike(fr, m, o) == NewPart(m, o, fr.typed, fr.unknown)

\* The overload of ParsePart with three arguments: typed arrays, whatever the
\* caller asked for, and no unknown fields.
Nested(fr, m, o) == NewPart(m, o, TRUE, FALSE)

EnterMessage ==
  /\ FieldOf(Fr).kind = "message" /\ Room(1)
  /\ heap' = Allocate(heap, <<Blank>>)
  /\ used' = used + 1
  /\ frames' = Append(frames, Nested(Fr, Here(Fr)[1], Arena[used + 1]))
  /\ UNCHANGED <<held, replies, msgs>>

----------------------------------------------------------------------------
(* ParsePart.                                                              *)

\* An optional field that is not there is left out of the object.
SkipAbsent ==
  /\ InParse /\ FieldOf(Fr).label = "optional" /\ Items(Fr) = <<>>
  /\ frames' = [frames EXCEPT ![Len(frames)].i = @ + 1]
  /\ UNCHANGED <<msgs, heap, used, replies, held>>

ParseSingular ==
  /\ InParse /\ FieldOf(Fr).label # "repeated" /\ Items(Fr) # <<>>
  /\ SetScalar \/ SetBytes \/ EnterMessage

\* Mutant: the array of the first answer is kept, and filled again.
BeginListKept ==
  /\ InParse /\ FieldOf(Fr).label = "repeated" /\ ~InList(Fr) /\ Room(1)
  /\ LET old  == heap[Arena[1]].props[FieldOf(Fr).name]
         array == IF IsObject(old) THEN old.ref ELSE Arena[used + 1]
     IN /\ heap' = [heap EXCEPT ![array] = Listing([k \in DOMAIN Items(Fr) |-> Undefined])]
        /\ frames' = [frames EXCEPT ![Len(frames)] = [Fr EXCEPT !.list = array, !.j = 1]]
  /\ used' = used + 1
  /\ UNCHANGED <<msgs, replies, held>>

\* Mutant: one element too many.
BeginListLong ==
  /\ InParse /\ FieldOf(Fr).label = "repeated" /\ ~InList(Fr) /\ Room(1)
  /\ heap' = Allocate(heap, <<Listing([k \in 1..Len(Items(Fr)) + 1 |-> Undefined])>>)
  /\ used' = used + 1
  /\ frames' = [frames EXCEPT ![Len(frames)] = [Fr EXCEPT !.list = Arena[used + 1], !.j = 1]]
  /\ UNCHANGED <<msgs, replies, held>>

\* The array of a repeated field, empty or not, with room for every element.
BeginList ==
  /\ InParse /\ FieldOf(Fr).label = "repeated" /\ ~InList(Fr) /\ Room(1)
  /\ heap' = Allocate(heap, <<Listing([k \in DOMAIN Items(Fr) |-> Undefined])>>)
  /\ used' = used + 1
  /\ frames' = [frames EXCEPT ![Len(frames)] = [Fr EXCEPT !.list = Arena[used + 1], !.j = 1]]
  /\ UNCHANGED <<msgs, replies, held>>

ParseElement ==
  /\ InParse /\ InList(Fr) /\ Fr.j <= Len(Items(Fr))
  /\ SetScalar \/ SetBytes \/ EnterMessage

\* NewTypedArray has an array for numbers only.
ListTag(fr) ==
  IF Items(fr) # <<>> /\ fr.typed /\ FieldOf(fr).kind = "number" THEN "typed" ELSE "array"

EndList ==
  /\ InParse /\ InList(Fr) /\ Fr.j > Len(Items(Fr))
  /\ LET done == [Fr EXCEPT !.list = None]
     IN /\ heap' = Set(heap, done, [tag |-> ListTag(Fr), ref |-> Fr.list])
        /\ frames' = [frames EXCEPT ![Len(frames)] = Onward(done)]
  /\ UNCHANGED <<msgs, used, replies, held>>

\* The fields beyond those the reader knows, one entry per occurrence.
Beyond(m) ==
  LET t == msgs[m].type
      entries(n) == [k \in DOMAIN msgs[m].vals[n] |-> n]
  IN FlattenSeq([k \in 1..Len(Schema[t]) - Known[t] |-> entries(Known[t] + k)])

\* ParseUnknownFieldset: an object per field, then the array of them.
UnknownEntry(t, n) ==
  [Blank EXCEPT !.props["number"] = Num(Numerals[n]),
                !.props["type"] = Str(WireTypes[Schema[t][n].kind])]
UnknownFields(m) ==
  LET seq == Beyond(m)
      array == Listing([k \in DOMAIN seq |-> [tag |-> "object", ref |-> Arena[used + k]]])
  IN Append([k \in DOMAIN seq |-> UnknownEntry(msgs[m].type, seq[k])], array)

\* The object is complete: ParseField hands it to the caller's, Parse deletes
\* the message and answers.
Deliver(h, fr) ==
  LET rest == Front(frames)
      v    == [tag |-> "object", ref |-> fr.ret]
  IN IF rest = <<>>
     THEN /\ heap' = h
          /\ replies' = [replies EXCEPT ![Len(replies)].value = v]
          /\ frames' = <<>> /\ held' = held - 1
     ELSE /\ heap' = Set(h, Last(rest), v)
          /\ frames' = [rest EXCEPT ![Len(rest)] = Onward(Last(rest))]
          /\ UNCHANGED <<replies, held>>

EndPart ==
  /\ frames # <<>> /\ Fr.i > Known[msgs[Fr.msg].type] /\ ~Fr.unknown
  /\ Deliver(heap, Fr)
  /\ UNCHANGED <<msgs, used>>

EndPartWithUnknown ==
  /\ frames # <<>> /\ Fr.i > Known[msgs[Fr.msg].type] /\ Fr.unknown
  /\ Room(Len(Beyond(Fr.msg)) + 1)
  /\ LET new == UnknownFields(Fr.msg)
         arr == [tag |-> "array", ref |-> Arena[used + Len(new)]]
     IN /\ used' = used + Len(new)
        /\ Deliver([Allocate(heap, new) EXCEPT ![Fr.ret].props["$unknownFields"] = arr], Fr)
  /\ UNCHANGED msgs

----------------------------------------------------------------------------
(* NativeProtobuf::Parse and ::ParseWithUnknown.                           *)

\* The messages read in a buffer, n levels deep: inside a field that the reader
\* does not know there are only bytes.
KnownParts(table, m) ==
  UNION {{item[1] : item \in ToSet(table[m].vals[n])} :
           n \in {x \in 1..Known[table[m].type] : Schema[table[m].type][x].kind = "message"}}
ReadIn(table, b) ==
  LET read[n \in Nat] == IF n = 0 THEN {b}
                         ELSE LET above == read[n - 1]
                              IN above \cup UNION {KnownParts(table, m) : m \in above}
  IN read[Len(table)]

\* ParseFromCodedStream: the bytes are a message, and no field that the reader
\* requires is missing at any level.
Readable(b) ==
  /\ b # 0
  /\ \A m \in ReadIn(msgs, b) : \A n \in 1..Known[msgs[m].type] :
       Schema[msgs[m].type][n].label = "required" => msgs[m].vals[n] # <<>>

Idle == frames = <<>> /\ Len(replies) < MaxParses

Pending == [tag |-> "undefined", ref |-> None]
Null    == [tag |-> "null", ref |-> None]

\* Mutant: the throw returns early, as that of an unknown schema does.
RefuseEarly(c) ==
  /\ Idle /\ ~(c.known /\ Readable(c.buffer))
  /\ replies' = Append(replies, [call |-> c, value |-> Null, exc |-> TRUE])
  /\ held' = IF c.known THEN held + 1 ELSE held
  /\ UNCHANGED <<msgs, heap, used, frames>>

\* No schema of this name, before anything is allocated; or no message in the
\* bytes, and the empty one is deleted.  Either way an exception and null.
Refuse(c) ==
  /\ Idle /\ ~(c.known /\ Readable(c.buffer))
  /\ replies' = Append(replies, [call |-> c, value |-> Null, exc |-> TRUE])
  /\ UNCHANGED <<msgs, heap, used, frames, held>>

\* use_typed_array, which defaults to true.
UseTypedArray(c) == c.typed # "no"

Accept(c) ==
  /\ Idle /\ c.known /\ Readable(c.buffer) /\ Room(1)
  /\ heap' = Allocate(heap, <<Blank>>)
  /\ used' = used + 1
  /\ frames' = <<NewPart(c.buffer, Arena[used + 1], UseTypedArray(c), c.unknown)>>
  /\ replies' = Append(replies, [call |-> c, value |-> Pending, exc |-> FALSE])
  /\ held' = held + 1
  /\ UNCHANGED msgs

----------------------------------------------------------------------------

Init ==
  /\ msgs \in Tables
  /\ heap = [o \in Objs |-> Blank]
  /\ used = 0 /\ frames = <<>> /\ replies = <<>> /\ held = 0

Build ==
  \/ SkipAbsent \/ ParseSingular \/ BeginList \/ ParseElement \/ EndList
  \/ EndPart \/ EndPartWithUnknown

Next ==
  \/ \E c \in Call : Refuse(c) \/ Accept(c)
  \/ Build

Spec == Init /\ [][Next]_vars
\* The native call runs until it returns.
FairSpec == Spec /\ WF_vars(Build)
----------------------------------------------------------------------------
(* Type correctness.                                                       *)

Part == [msg : DOMAIN msgs, ret : Objs, i : Nat \ {0}, list : Objs \cup {None},
         j : Nat, typed : BOOLEAN, unknown : BOOLEAN]

\* The heap is a heap of JavaScript values, activations are of messages of the
\* table and objects are taken from the arena.
TypeOK ==
  /\ msgs \in Seq(Message)
  /\ heap \in Heap
  /\ used \in 0..Len(Arena)
  /\ frames \in Seq(Part)
  /\ replies \in Seq([call : Call, value : Value, exc : BOOLEAN])
  /\ held \in Nat

----------------------------------------------------------------------------
(* The object a message stands for, level by level and without the walk    *)
(* that builds it.                                                         *)

\* What a value shows of an item e of field f; that of a message is an object,
\* looked at on its own.
Shows(h, f, e, v) ==
  CASE f.kind = "message" -> v.tag = "object"
    [] f.kind = "bytes" -> v.tag = "typed" /\ h[v.ref] = Listing(BytesOf(e))
    [] OTHER -> v = Scalar(f, e)

\* A repeated field is an array, however many items it has, and of numbers a
\* typed array if those were asked for; any other field without one is not there.
FieldShown(h, f, items, typed, v) ==
  CASE f.label = "repeated" ->
         /\ v.tag = IF typed /\ f.kind = "number" /\ items # <<>> THEN "typed" ELSE "array"
         /\ h[v.ref].props = Blank.props /\ DOMAIN h[v.ref].elems = DOMAIN items
         /\ \A k \in DOMAIN items : Shows(h, f, items[k], h[v.ref].elems[k])
    [] f.label # "repeated" /\ items = <<>> -> v = Undefined
    [] OTHER -> Shows(h, f, items[1], v)

\* The array of the fields that the reader does not know.
UnknownShown(h, t, seq, v) ==
  /\ v.tag = "array" /\ h[v.ref].props = Blank.props /\ DOMAIN h[v.ref].elems = DOMAIN seq
  /\ \A k \in DOMAIN seq : /\ h[v.ref].elems[k].tag = "object"
                           /\ h[h[v.ref].elems[k].ref] = UnknownEntry(t, seq[k])

\* An object and what it should show: [obj, msg, typed, unknown].
Image(o, m, typed, unknown) == [obj |-> o, msg |-> m, typed |-> typed, unknown |-> unknown]
KnownFields(s) == 1..Known[msgs[s.msg].type]
FieldName(s, n) == Schema[msgs[s.msg].type][n].name

Decoded(s) ==
  LET t == msgs[s.msg].type
      c == heap[s.obj]
      extra == c.props["$unknownFields"]
  IN /\ c.elems = <<>>
     /\ \A n \in KnownFields(s) :
          FieldShown(heap, Schema[t][n], msgs[s.msg].vals[n], s.typed, c.props[FieldName(s, n)])
     /\ IF s.unknown THEN UnknownShown(heap, t, Beyond(s.msg), extra) ELSE extra = Undefined
     /\ \A name \in Names \ {"$unknownFields"} :
          (\A n \in KnownFields(s) : name # FieldName(s, n)) => c.props[name] = Undefined

\* The objects in it that should show messages of their own: inside a message
\* parsing has forgotten what the caller asked for (parse.cpp:130).
Parts(s) ==
  LET field(n) == Schema[msgs[s.msg].type][n]
      items(n) == msgs[s.msg].vals[n]
      value(n) == heap[s.obj].props[field(n).name]
      shown(n) == IF field(n).label = "repeated" THEN heap[value(n).ref].elems ELSE <<value(n)>>
  IN UNION {{Image(shown(n)[k].ref, items(n)[k][1], TRUE, FALSE) :
               k \in DOMAIN items(n) \cap DOMAIN shown(n)} :
              n \in {x \in KnownFields(s) : field(x).kind = "message"}}

\* Calls that answered.
Answered == {r \in DOMAIN replies : replies[r].value # Pending}
AnswerImage(r) ==
  LET c == replies[r].call
  IN Image(replies[r].value.ref, c.buffer, UseTypedArray(c), c.unknown)

\* The objects of all answers, n levels deep.
WithParts(images) == images \cup UNION {Parts(s) : s \in {x \in images : Decoded(x)}}
Within[n \in Nat] ==
  IF n = 0 THEN {AnswerImage(r) : r \in {x \in Answered : ~replies[x].exc}}
           ELSE WithParts(Within[n - 1])

\* What parse() answered is the message that was in the buffer, field by field
\* and level by level (none lies deeper than there are messages), with the
\* caller's choice of arrays and the unknown fields at the outermost level; it
\* stays that, whatever is parsed later; and what it refused it had to refuse.
ResultIsDecoded ==
  /\ \A r \in Answered :
       LET c == replies[r].call
       IN IF replies[r].exc THEN ~c.known \/ ~Readable(c.buffer)
                            ELSE replies[r].value.tag = "object"
  /\ \A s \in Within[Len(msgs)] : Decoded(s)

----------------------------------------------------------------------------
(* What holds of parse().                                                  *)

\* The references to an object: from properties, from elements, from
\* activations and from answers.
Owners(o) ==
  LET is(v) == IsObject(v) /\ v.ref = o
      props == {p \in Objs \X Names : is(heap[p[1]].props[p[2]])}
      elems == UNION {{<<x, k>> : k \in {y \in DOMAIN heap[x].elems : is(heap[x].elems[y])}} :
                        x \in Objs}
      active == {k \in DOMAIN frames : o \in {frames[k].ret, frames[k].list}}
      answers == {r \in DOMAIN replies : is(replies[r].value)}
  IN Cardinality(props) + Cardinality(elems) + Cardinality(active) + Cardinality(answers)

\* Every object that parse() makes has one place: in the object or array of the
\* level above it, in an activation that is still filling it, or in an answer.
\* Two answers, or two parts of one, share nothing, and nothing is lost.
OneOwner == \A k \in 1..used : Owners(Arena[k]) = 1

\* The objects made since the parse() in progress began, and those still to make.
OwnObjects ==
  {Arena[k] : k \in {x \in DOMAIN Arena :
     x > used \/ \E y \in 1..x : frames # <<>> /\ Arena[y] = frames[1].ret}}

\* parse() changes no object that was there before it: what was answered earlier
\* stays as it was answered.
KeepsObjects == [][\A o \in Objs : heap'[o] # heap[o] => o \in OwnObjects]_vars

\* A message that parse() allocates lives as long as its call and no longer,
\* whether the call answers or throws.
Released == held = IF frames = <<>> THEN 0 ELSE 1

\* Every parse() that was accepted answers, whatever the message.
ParsesAnswer ==
  \A r \in 1..MaxParses :
    r \in DOMAIN replies /\ replies[r].value = Pending ~>
      r \in DOMAIN replies /\ replies[r].value # Pending
=============================================================================
