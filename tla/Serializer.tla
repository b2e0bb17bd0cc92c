----------------------------- MODULE Serializer -----------------------------
(***************************************************************************)
(* The native half of serialize(): NativeProtobuf::Serialize in            *)
(* src/native.cpp and the mutually recursive SerializePart and             *)
(* SerializeField in src/serialize.cpp.                                    *)
(*                                                                         *)
(* The C++ code walks the fields of a message descriptor and reads the     *)
(* caller's JavaScript object as it goes.  Reading it may run JavaScript:  *)
(* a property may be a getter, a value may have its own valueOf, toString  *)
(* or toProtobuf.  That code runs in the middle of the walk, may change    *)
(* the very objects being walked, may call serialize() again, and may      *)
(* throw.  So the walk is a machine: one frame of stack per activation of  *)
(* SerializePart, one action per loop step, and the JavaScript that a step *)
(* calls is a separate actor that runs while the top frame waits for it.   *)
(***************************************************************************)
EXTENDS Values

CONSTANTS
  Heaps,         \* the object graphs a run may start from
  Updates,       \* the changes JavaScript may make: [obj, contents] records
  Answers,       \* the values JavaScript called from the walk may return
  Callable,      \* the objects passed to serialize()
  PreserveInt64, \* the constructor's flag preserve_int64
  MaxCalls,      \* bound: serialize() calls started
  MaxStack       \* SerializePart activations the native stack has room for

ASSUME InputAssumption ==
  /\ Heaps \subseteq Heap
  /\ Updates \subseteq [obj : Objs, contents : Contents]
  /\ Answers \subseteq Value
  /\ Callable \subseteq Objs
ASSUME FlagAssumption == PreserveInt64 \in BOOLEAN
ASSUME BoundAssumption == MaxCalls \in Nat /\ MaxStack \in Nat \ {0}

VARIABLES
  heap,     \* the JavaScript objects
  msgs,     \* every message ever allocated: [type, root, vals]
  live,     \* those whose memory has not been released
  stack,    \* activations of SerializePart, innermost last
  results,  \* what each finished call left: [msg, ret, exc]
  aborted   \* the process is gone

vars == <<heap, msgs, live, stack, results, aborted>>

----------------------------------------------------------------------------
(* Frames and messages.                                                    *)

Top == Last(stack)
With(fr) == [stack EXCEPT ![Len(stack)] = fr]
Field(fr) == Schema[msgs[fr.msg].type][fr.i]
FieldCount(fr) == Len(Schema[msgs[fr.msg].type])
InLoop(fr) == fr.arr # None

\* Mutant: fields counted from 1.
SkipFirstField(m, o, isRoot) ==
  [msg |-> m, obj |-> o, root |-> isRoot, i |-> 2, arr |-> None, len |-> 0,
   j |-> 0, wait |-> "none", exc |-> FALSE]

\* Mutant: fields counted from -1.
BeforeFirstField(m, o, isRoot) ==
  [msg |-> m, obj |-> o, root |-> isRoot, i |-> 0, arr |-> None, len |-> 0,
   j |-> 0, wait |-> "none", exc |-> FALSE]

\* An activation of SerializePart about to look at its first field.
NewFrame(m, o, isRoot) ==
  [msg |-> m, obj |-> o, root |-> isRoot, i |-> 1, arr |-> None, len |-> 0,
   j |-> 0, wait |-> "none", exc |-> FALSE]

\* factory.GetPrototype(d)->New(), r->AddMessage and r->MutableMessage.
NewMessage(t, owner) ==
  [type |-> t, root |-> owner, vals |-> [n \in DOMAIN Schema[t] |-> <<>>]]

\* The calls of serialize() made so far.
Started == Len(results) + Cardinality({k \in DOMAIN stack : stack[k].root})

\* Who runs: the C++ walk, or JavaScript called from the top frame (or, with
\* no call in progress, the program itself).
InNative == ~aborted /\ stack # <<>> /\ Top.wait = "none"
InScript == ~aborted /\ (stack # <<>> => Top.wait # "none")

\* What follows SerializeField: the next element, or the next field.
Advance(fr) ==
  IF InLoop(fr) THEN [fr EXCEPT !.j = fr.j + 1, !.wait = "none"]
                ELSE [fr EXCEPT !.i = fr.i + 1, !.wait = "none"]

Throwing(fr, exc) == [fr EXCEPT !.exc = fr.exc \/ exc]

\* Mutant: the message being filled is kept in the wrapper object, and is the
\* one allocated last.
PutInLatest(e) == [msgs EXCEPT ![Len(msgs)].vals[1] = <<e>>]

\* Reflection's AddX on a repeated field, SetX on a singular one.
Put(e) ==
  LET old == msgs[Top.msg].vals[Top.i]
      new == IF Field(Top).label = "repeated" THEN Append(old, e) ELSE <<e>>
  IN [msgs EXCEPT ![Top.msg].vals[Top.i] = new]

----------------------------------------------------------------------------
(* The outcomes of one SerializeField, as steps of the walk.               *)

\* The field is set from e; exc says a JavaScript exception is now pending.
Store(e, exc) ==
  /\ msgs' = Put(e)
  /\ stack' = With(Throwing(Advance(Top), exc))
  /\ UNCHANGED <<heap, live, results, aborted>>

\* Mutant: `continue` jumps over the increment.
SkipInPlace(exc) ==
  /\ stack' = With(Throwing([Top EXCEPT !.wait = "none"], exc))
  /\ UNCHANGED <<heap, msgs, live, results, aborted>>

\* The value is dropped.
Skip(exc) ==
  /\ stack' = With(Throwing(Advance(Top), exc))
  /\ UNCHANGED <<heap, msgs, live, results, aborted>>

\* JavaScript is called; its answer comes back through ScriptReturns or
\* ScriptThrows.
Await(what) ==
  /\ stack' = With([Top EXCEPT !.wait = what])
  /\ UNCHANGED <<heap, msgs, live, results, aborted>>

\* An uncaught C++ exception, a null handle, an exhausted stack.
Abort ==
  /\ aborted' = TRUE
  /\ UNCHANGED <<heap, msgs, live, stack, results>>

\* Mutant: only the outermost message is deleted.
ReleaseOutermost(m, ret) == IF ret = "null" THEN live ELSE live \ {m}

\* `delete message`, which the early return of null never reaches.
Release(m, ret) == IF ret = "null" THEN live ELSE {x \in live : msgs[x].root # m}

\* SerializePart returns: 0 ("buffer") after the last field, -1 ("null") at a
\* missing required one.  NativeProtobuf::Serialize answers the one or the
\* other; SerializeField drops the result and goes on.
Return(ret, exc) ==
  LET done   == Throwing(Top, exc)
      rest   == Front(stack)
      caller == Throwing(Advance(Last(rest)), done.exc)
  IN /\ IF done.root
        THEN /\ stack' = rest
             /\ results' = Append(results, [msg |-> done.msg, ret |-> ret, exc |-> done.exc])
             /\ live' = Release(done.msg, ret)
        ELSE /\ stack' = [rest EXCEPT ![Len(rest)] = caller]
             /\ UNCHANGED <<results, live>>
     /\ UNCHANGED <<heap, msgs, aborted>>

----------------------------------------------------------------------------
(* SerializeField, by kind of field.                                       *)

\* A copy of a Buffer's bytes.
Bytes(o) == [k \in DOMAIN heap[o].elems |-> Numeric(heap[o].elems[k])]
\* The k-th element of an array now, undefined past its end.
Element(o, k) == IF k \in DOMAIN heap[o].elems THEN heap[o].elems[k] ELSE Undefined

SetNumber(v) == IF IsObject(v) THEN Await("number") ELSE Store(<<Numeric(v)>>, FALSE)

SetBool(v) == Store(<<Truth(v)>>, FALSE)

SetInt64(v) ==
  CASE PreserveInt64 /\ v.tag = "array" ->
         Store(<<Numeric(Element(v.ref, 1)), Numeric(Element(v.ref, 2))>>, FALSE)
    [] PreserveInt64 /\ v.tag = "string" ->
         IF v.ref \in Data THEN Store(<<v.ref>>, FALSE) ELSE Abort
    [] OTHER -> SetNumber(v)

\* Mutant: the descriptor found is not tested.
SetAnyEnum(v) == IF IsObject(v) THEN Await("enum") ELSE Store(<<v.ref>>, FALSE)

\* FindValueByNumber or FindValueByName: an undeclared value is not set.
SetEnum(v) ==
  CASE IsObject(v) -> Await("enum")
    [] Declared(v) -> Store(<<v.ref>>, FALSE)
    [] OTHER -> Skip(FALSE)

SetMessage(v) ==
  LET child == Len(msgs) + 1
      own   == NewMessage(Field(Top).sub, msgs[Top.msg].root)
  IN CASE ~IsObject(v) -> Skip(FALSE)
       [] IsObject(v) /\ Len(stack) >= MaxStack -> Abort
       [] OTHER ->
            /\ msgs' = Append(Put(<<child>>), own)
            /\ live' = live \cup {child}
            /\ stack' = Append(With([Top EXCEPT !.wait = "none"]),
                               NewFrame(child, v.ref, FALSE))
            /\ UNCHANGED <<heap, results, aborted>>

SetString(v) ==
  CASE v.tag = "typed" -> Store(Bytes(v.ref), FALSE)
    [] v.tag \in {"array", "object"} -> Await("toProtobuf")
    [] OTHER -> Store(<<Text(v)>>, FALSE)

SerializeField(v) ==
  LET kind == Field(Top).kind
  IN \/ kind = "number"  /\ SetNumber(v)
     \/ kind = "bool"    /\ SetBool(v)
     \/ kind = "int64"   /\ SetInt64(v)
     \/ kind = "enum"    /\ SetEnum(v)
     \/ kind = "message" /\ SetMessage(v)
     \/ kind \in {"string", "bytes"} /\ SetString(v)

----------------------------------------------------------------------------
(* SerializePart.                                                          *)

\* Mutant: elements counted from 1.
EnterLoopLate(v) ==
  /\ stack' = With([Top EXCEPT !.arr = v.ref, !.len = Len(heap[v.ref].elems),
                               !.j = 1, !.wait = "none"])
  /\ UNCHANGED <<heap, msgs, live, results, aborted>>

\* The length is read here, once, for the whole loop.
EnterLoop(v) ==
  /\ stack' = With([Top EXCEPT !.arr = v.ref, !.len = Len(heap[v.ref].elems),
                               !.j = 0, !.wait = "none"])
  /\ UNCHANGED <<heap, msgs, live, results, aborted>>

\* The body of the field loop, once Nan::Get has answered v.
OnField(v) ==
  LET f == Field(Top)
  IN CASE Nullish(v) /\ f.label = "required" -> Return("null", FALSE)
       [] Nullish(v) /\ f.label # "required" -> Skip(FALSE)
       [] ~Nullish(v) /\ f.label = "repeated" ->
            IF IsList(v) THEN EnterLoop(v) ELSE Skip(FALSE)
       [] OTHER -> SerializeField(v)

ReadField ==
  /\ InNative /\ ~InLoop(Top) /\ Top.i <= FieldCount(Top)
  /\ LET slot == heap[Top.obj].props[Field(Top).name]
     IN IF slot.tag = "accessor" THEN Await("get") ELSE OnField(slot)

ReadElement ==
  /\ InNative /\ InLoop(Top) /\ Top.j < Top.len
  /\ LET slot == Element(Top.arr, Top.j + 1)
     IN IF slot.tag = "accessor" THEN Await("element") ELSE SerializeField(slot)

EndLoop ==
  /\ InNative /\ InLoop(Top) /\ Top.j >= Top.len
  /\ stack' = With([Top EXCEPT !.arr = None, !.i = Top.i + 1])
  /\ UNCHANGED <<heap, msgs, live, results, aborted>>

\* Mutant: a pending exception is reported as -1.
EndPartPending ==
  /\ InNative /\ ~InLoop(Top) /\ Top.i > FieldCount(Top)
  /\ Return(IF Top.exc THEN "null" ELSE "buffer", FALSE)

EndPart ==
  /\ InNative /\ ~InLoop(Top) /\ Top.i > FieldCount(Top)
  /\ Return("buffer", FALSE)

----------------------------------------------------------------------------
(* JavaScript: the program that calls serialize(), and the getters and     *)
(* conversions that the walk calls.                                        *)

\* native.serialize(object, schema) of a known schema: a message is allocated
\* and the walk of it begins.
Serialize(o, t) ==
  /\ InScript /\ Started < MaxCalls /\ Len(stack) < MaxStack
  /\ msgs' = Append(msgs, NewMessage(t, Len(msgs) + 1))
  /\ live' = live \cup {Len(msgs) + 1}
  /\ stack' = Append(stack, NewFrame(Len(msgs) + 1, o, TRUE))
  /\ UNCHANGED <<heap, results, aborted>>

\* ... of an unknown one: FindMessageTypeByName finds nothing and the call
\* throws before anything is allocated.
SerializeUnknown ==
  /\ InScript /\ Started < MaxCalls
  /\ results' = Append(results, [msg |-> 0, ret |-> "undefined", exc |-> TRUE])
  /\ UNCHANGED <<heap, msgs, live, stack, aborted>>

Mutate(u) ==
  /\ InScript
  /\ heap' = [heap EXCEPT ![u.obj] = u.contents]
  /\ UNCHANGED <<msgs, live, stack, results, aborted>>

ScriptReturns(v) ==
  /\ InScript /\ stack # <<>>
  /\ \/ Top.wait = "get" /\ OnField(v)
     \/ Top.wait = "element" /\ SerializeField(v)
     \/ Top.wait = "number" /\ ~IsObject(v) /\ Store(<<Numeric(v)>>, FALSE)
     \* ... by name: the text of a number names no value
     \/ Top.wait = "enum" /\ ~IsObject(v) /\ SetEnum(IF v.tag = "string" THEN v ELSE Undefined)
     \/ Top.wait = "toProtobuf" /\ v.tag = "typed" /\ Store(Bytes(v.ref), FALSE)
     \/ Top.wait = "toProtobuf" /\ v.tag # "typed" /\ Await("toString")
     \/ Top.wait = "toString" /\ ~IsObject(v) /\ Store(<<Text(v)>>, FALSE)

\* A throw leaves an empty handle and a pending exception.  A required field
\* makes SerializePart return; any other field's ToLocalChecked is fatal.  An
\* empty element is skipped, a failed valueOf counts as no number, and an
\* empty string or function result is dereferenced.
ScriptThrows ==
  /\ InScript /\ stack # <<>>
  /\ \/ Top.wait = "get" /\ Field(Top).label = "required" /\ Return("null", TRUE)
     \/ Top.wait = "get" /\ Field(Top).label # "required" /\ Abort
     \/ Top.wait = "element" /\ Skip(TRUE)
     \/ Top.wait = "number" /\ Store(<<Junk>>, TRUE)
     \/ Top.wait \in {"enum", "toProtobuf", "toString"} /\ Abort

----------------------------------------------------------------------------

Init ==
  /\ heap \in Heaps
  /\ msgs = <<>> /\ live = {} /\ stack = <<>> /\ results = <<>>
  /\ aborted = FALSE

Walk == ReadField \/ ReadElement \/ EndLoop \/ EndPart
Answer == ScriptThrows \/ \E v \in Answers : ScriptReturns(v)

Next ==
  \/ ReadField
  \/ ReadElement
  \/ EndLoop
  \/ EndPart
  \/ \E o \in Callable, t \in Types : Serialize(o, t)
  \/ SerializeUnknown
  \/ \E u \in Updates : Mutate(u)
  \/ \E v \in Answers : ScriptReturns(v)
  \/ ScriptThrows

Spec == Init /\ [][Next]_vars

\* The C++ code runs whenever it can, and JavaScript called from it comes
\* back; nothing obliges the program to call or to change anything.
FairSpec == Spec /\ WF_vars(Walk) /\ WF_vars(Answer)

----------------------------------------------------------------------------
(* Type correctness.                                                       *)

Waits == {"none", "get", "element", "number", "enum", "toProtobuf", "toString"}

Frame == [msg : DOMAIN msgs, obj : Objs, root : BOOLEAN, i : Nat \ {0},
          arr : Objs \cup {None}, len : Nat, j : Nat, wait : Waits, exc : BOOLEAN]

\* What a field holds: the payloads a value was made of, 0 or 1 for a bool, or
\* the message allocated for it.
Stored  == Seq(Data \cup {Odd, Junk} \cup Nat)
Message == [type : Types, root : Nat, vals : Seq(Seq(Stored))]

\* Every message has a sequence of values for each field of its type and a
\* root allocated no later than itself, frames are well formed and point at
\* messages, and only messages that exist are live.
TypeOK ==
  /\ heap \in Heap
  /\ msgs \in Seq(Message)
  /\ \A m \in DOMAIN msgs : /\ Len(msgs[m].vals) = Len(Schema[msgs[m].type])
                             /\ msgs[m].root \in 1..m
  /\ live \subseteq DOMAIN msgs
  /\ stack \in Seq(Frame)
  /\ results \in Seq([msg : Nat, ret : {"buffer", "null", "undefined"}, exc : BOOLEAN])
  /\ aborted \in BOOLEAN

----------------------------------------------------------------------------
(* What holds of serialize().                                              *)

\* The kinds of field that every value but null and undefined sets.  An enum
\* value that is not declared, or a primitive where a message is expected,
\* sets nothing.
Settable == {"number", "bool", "int64", "string", "bytes"}

Required(m) == {n \in DOMAIN msgs[m].vals : Schema[msgs[m].type][n].label = "required"}
Absent(m)   == {n \in Required(m) : msgs[m].vals[n] = <<>>}
Mandatory(m) == {n \in Required(m) : Schema[msgs[m].type][n].kind \in Settable}

\* serialize() does not answer with a buffer while a required field that
\* every non-null value sets is missing from the message, whatever the
\* JavaScript it ran did meanwhile.
BufferIsComplete ==
  \A r \in DOMAIN results :
    results[r].ret = "buffer" => Absent(results[r].msg) \cap Mandatory(results[r].msg) = {}

\* README.md:97 of serialize: "Throws if required fields are not present."  A
\* buffer answered without an exception holds no message, at any depth, that
\* lacks a required field.  The code checks only for null and undefined, and
\* drops the verdict on a nested message: see the run serializer_required.
BufferIsInitialized ==
  \A r \in DOMAIN results :
    results[r].ret = "buffer" /\ ~results[r].exc =>
      \A m \in DOMAIN msgs : msgs[m].root = results[r].msg => Absent(m) = {}

\* ... and null, which protobuf.js reports as missing required fields, means
\* that one is missing.
NullMeansMissing ==
  \A r \in DOMAIN results : results[r].ret = "null" => Absent(results[r].msg) # {}

\* The memory of a message is released when its call returns a buffer, and
\* only then: what is live belongs to a call in progress or to a call that
\* returned null.
Ledger ==
  live = {m \in DOMAIN msgs :
            \/ \E k \in DOMAIN stack : stack[k].root /\ stack[k].msg = msgs[m].root
            \/ \E r \in DOMAIN results : results[r].ret = "null" /\ results[r].msg = msgs[m].root}

\* The loop over a repeated field adds one element per index, however the
\* array changes meanwhile: none is lost but by an exception, an undeclared
\* enum value or a primitive in place of a message.
OnePerIndex ==
  \A k \in DOMAIN stack :
    LET fr == stack[k]
        n  == Len(msgs[fr.msg].vals[fr.i])
    IN InLoop(fr) => /\ n <= fr.j + (IF k < Len(stack) THEN 1 ELSE 0)
                     /\ ~fr.exc /\ Field(fr).kind \in Settable => n = fr.j

\* A step writes to no message but that of the innermost activation: a call
\* made by JavaScript in the middle of another one, on the same schema,
\* shares nothing with it, and a message already returned stays as it was.
WritesInnermostOnly ==
  [][\A m \in DOMAIN msgs :
       msgs'[m] # msgs[m] => stack # <<>> /\ m = Top.msg]_vars

\* Every call comes to an end, by returning or by taking the process with it.
CallsEnd == \A n \in 1..MaxStack : Len(stack) = n ~> (Len(stack) < n \/ aborted)
============================================================================
