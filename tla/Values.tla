------------------------------- MODULE Values -------------------------------
(***************************************************************************)
(* The data serialize() works on: message schemas, as the descriptor pool  *)
(* gives them, and JavaScript values and objects, as V8 does.              *)
(***************************************************************************)
EXTENDS Integers, FiniteSets, SequencesExt

CONSTANTS
  Schema,  \* message type -> sequence of field descriptors
  Objs,    \* identities of JavaScript objects, arrays and typed arrays
  Names,   \* property names
  Data,    \* payloads of primitives a field can represent: in range, a
           \* decimal string, the name or number of a declared enum value
  Odd,     \* payload of a primitive that is none of these
  Falsy,   \* the payloads that are 0 or the empty string
  Cut,     \* a text -> what a C string keeps of it: the part before a NUL
  Junk,    \* what a conversion yields for a value that has no payload
  None     \* "no reference"

Types  == DOMAIN Schema
Labels == {"required", "optional", "repeated"}
\* cpp_type() up to the control it selects: "number" is INT32, UINT32, FLOAT
\* and DOUBLE, "int64" is INT64 and UINT64; CPPTYPE_STRING is "string", or
\* "bytes" if type() is TYPE_BYTES.
Kinds  == {"number", "bool", "int64", "enum", "message", "string", "bytes"}
FieldDescriptor == [name : Names, label : Labels, kind : Kinds, sub : Types]

Primitive == [tag : {"number", "string"}, ref : Data \cup {Odd}]
             \cup [tag : {"boolean"}, ref : {0, 1}]
Reference == [tag : {"array", "typed", "object"}, ref : Objs]
Value     == Primitive \cup Reference \cup [tag : {"undefined", "null"}, ref : {None}]
\* What a property or an element holds: a value, or a getter that computes one.
Slot      == Value \cup [tag : {"accessor"}, ref : {None}]
Contents  == [props : [Names -> Slot], elems : Seq(Slot)]
Heap      == [Objs -> Contents]

ASSUME SchemaAssumption == Schema \in [Types -> Seq(FieldDescriptor)]
ASSUME PayloadAssumption ==
  /\ {Odd, Junk, None} \cap (Data \cup Objs) = {}
  /\ Falsy \subseteq Data
  /\ Cut \in [Data \cup {Odd} -> Data \cup {Odd}]

Undefined   == [tag |-> "undefined", ref |-> None]
Nullish(v)  == v.tag \in {"undefined", "null"}
IsObject(v) == v.tag \in {"array", "typed", "object"}
\* V8's IsArray and IsTypedArray: what a repeated field accepts.
IsList(v)   == v.tag \in {"array", "typed"}

\* Int32Value, NumberValue, stoll: the payload, if the primitive has one the
\* field can represent.
Numeric(v) == IF v.tag \in {"number", "string"} /\ v.ref \in Data THEN v.ref ELSE Junk
\* BooleanValue, as the 0 or 1 of a bool field.
Truth(v)   == IF Nullish(v) \/ v.ref \in Falsy \/ (v.tag = "boolean" /\ v.ref = 0) THEN 0 ELSE 1
\* ToString, through a char pointer: the text of a primitive up to a NUL.
\* "undefined", "null", "true" and "false" are not text of the caller's.
Text(v)    == IF v.tag \in {"number", "string"} THEN Cut[v.ref] ELSE Junk
\* FindValueByNumber, FindValueByName.
Declared(v) == v.tag \in {"number", "string"} /\ v.ref \in Data
=============================================================================
