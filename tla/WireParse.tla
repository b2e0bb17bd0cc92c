------------------------------ MODULE WireParse ------------------------------
(***************************************************************************)
(* How much of a buffer parse() reads: the limit on its way from           *)
(* protobuf.js through NativeProtobuf::Parse to the CodedInputStream, and  *)
(* the stream's limits, tags and message ends while the library reads.     *)
(*                                                                         *)
(* The stream is the one of google/protobuf/io/coded_stream.h; the loop    *)
(* over fields, which is out of line in the library, is external.          *)
(***************************************************************************)
EXTENDS Integers, SequencesExt

CONSTANTS
  Buffers,   \* the buffers passed to parse()
  Asked,     \* the integers passed as limit; 0 also stands for no argument
  Warned,    \* ... and as warn
  Word,      \* 2^32, scaled
  DefaultLimit,     \* kDefaultTotalBytesLimit, scaled
  DefaultThreshold, \* kDefaultTotalBytesWarningThreshold, scaled
  DefaultRecursion  \* default_recursion_limit_

\* A byte: what it is read as when a tag is expected, and its value as a length.
\* Field 1 is a scalar, 2 a message, 3 a scalar the reader may do without; 0 is
\* no field, "stop" an end-group tag, "bad" a tag that no field can have.
Byte == [tag : {"1", "2", "3", "0", "stop", "bad"}, value : Nat]

MaxInt == Word \div 2 - 1

ASSUME BufferAssumption == Buffers \subseteq Seq(Byte)
ASSUME NumberAssumption ==
  /\ Asked \subseteq Int /\ Warned \subseteq Int
  /\ Word \in Nat \ {0} /\ Word % 2 = 0
  /\ DefaultLimit \in 1..MaxInt /\ DefaultThreshold \in 0..MaxInt /\ DefaultRecursion \in Nat

VARIABLES
  bytes,     \* the buffer
  limit,     \* the argument limit
  warn,      \* the argument warn
  required,  \* whether the schema requires field 1
  stream,    \* the CodedInputStream
  levels,    \* the messages being read, outermost first: [limit, has]
  expect,    \* what comes next: "limits", "tag", "value", "length", "end", "done"
  complete,  \* no message that was read lacks a required field
  outcome    \* "none", "object" or "throw"

vars == <<bytes, limit, warn, required, stream, levels, expect, complete, outcome>>
arguments == <<bytes, limit, warn, required>>

----------------------------------------------------------------------------
(* The limit's conversions.                                                *)

\* A Word as a signed int, which `x | 0` and the parameters of
\* SetTotalBytesLimit are.
ToInt(x) == LET u == x % Word IN IF u > MaxInt THEN u - Word ELSE u

\* protobuf.js: limit | 0.  native.cpp: Uint32Value, a size_t.
MaxBytes  == ToInt(limit) % Word
WarnBytes == ToInt(warn) % Word

----------------------------------------------------------------------------
(* The stream.                                                             *)

NewStream ==
  [pos |-> 0, current |-> MaxInt, total |-> DefaultLimit, threshold |-> DefaultThreshold,
   legitimate |-> FALSE, budget |-> DefaultRecursion]

\* buffer_end_ is the nearest limit, or the end of the array.
AtEnd == \E end \in {stream.current, stream.total, Len(bytes)} : stream.pos >= end
Next1 == bytes[stream.pos + 1]

\* Mutant: the two numbers change places.
SetTotalBytesLimitSwapped(s, total, threshold) ==
  [s EXCEPT !.total = IF threshold > s.pos THEN threshold ELSE s.pos,
            !.threshold = IF total >= 0 THEN total ELSE -1]

\* Never less than what was read; a negative threshold is no warning.
SetTotalBytesLimit(s, total, threshold) ==
  [s EXCEPT !.total = IF total > s.pos THEN total ELSE s.pos,
            !.threshold = IF threshold >= 0 THEN threshold ELSE -1]

\* Mutant: the new limit holds even where it lies beyond the one in force.
PushLimitAnyway(s, n) ==
  [s EXCEPT !.current = IF n <= MaxInt - s.pos THEN s.pos + n ELSE MaxInt,
            !.budget = s.budget - 1]

\* A limit n bytes from here, unless one of those in force is nearer.
PushLimit(s, n) ==
  [s EXCEPT !.current = IF n <= MaxInt - s.pos /\ s.pos + n < s.current
                        THEN s.pos + n ELSE s.current,
            !.budget = s.budget - 1]
\* Mutant: the level is not given back.
PopLimitOnly(s, old) == [s EXCEPT !.current = old, !.legitimate = FALSE]

PopLimit(s, old) ==
  [s EXCEPT !.current = old, !.legitimate = FALSE, !.budget = s.budget + 1]

\* Reading a tag at the end: a message may end there, but not at the total
\* limit, unless its own limit is the same.
AtMessageEnd(s) ==
  [s EXCEPT !.legitimate = s.pos < s.total \/ s.current = s.total]

\* Mutant: what is read is not consumed.
Peek(s) == s

Advance(s) == [s EXCEPT !.pos = s.pos + 1]

----------------------------------------------------------------------------
(* NativeProtobuf::Parse around the stream.                                *)

\* if (max) SetTotalBytesLimit(max, warn ? warn : max)
SetLimits ==
  /\ expect = "limits"
  /\ stream' = IF MaxBytes = 0 THEN stream
               ELSE SetTotalBytesLimit(stream, ToInt(MaxBytes),
                                       ToInt(IF WarnBytes # 0 THEN WarnBytes ELSE MaxBytes))
  /\ expect' = "tag"
  /\ UNCHANGED <<arguments, levels, complete, outcome>>

\* ParseFromCodedStream fails: "Malformed protocol buffer".
Fail ==
  /\ expect' = "done" /\ outcome' = "throw"
  /\ UNCHANGED <<arguments, levels, complete>>

----------------------------------------------------------------------------
(* The library's loop over the fields of a message.                        *)

\* ReadTag.  Zero ends the message, and so does an end-group tag.
ReadTag ==
  /\ expect = "tag"
  /\ \/ /\ AtEnd
        /\ stream' = AtMessageEnd(stream) /\ expect' = "end"
        /\ UNCHANGED <<arguments, levels, complete, outcome>>
     \/ /\ ~AtEnd /\ Next1.tag # "bad"
        /\ stream' = Advance(stream)
        /\ expect' = CASE Next1.tag = "2" -> "length"
                       [] Next1.tag \in {"0", "stop"} -> "end"
                       [] OTHER -> "value"
        /\ levels' = IF Next1.tag = "1" THEN [levels EXCEPT ![Len(levels)].has = TRUE] ELSE levels
        /\ UNCHANGED <<arguments, complete, outcome>>
     \/ ~AtEnd /\ Next1.tag = "bad" /\ stream' = Advance(stream) /\ Fail

ReadValue ==
  /\ expect = "value"
  /\ \/ /\ ~AtEnd
        /\ stream' = Advance(stream) /\ expect' = "tag"
        /\ UNCHANGED <<arguments, levels, complete, outcome>>
     \/ AtEnd /\ UNCHANGED stream /\ Fail

\* A nested message: its length, a limit, one level less to go.
ReadLength ==
  /\ expect = "length"
  /\ \/ /\ ~AtEnd /\ stream.budget > 0
        /\ stream' = PushLimit(Advance(stream), Next1.value) /\ expect' = "tag"
        /\ levels' = Append(levels, [limit |-> stream.current, has |-> FALSE])
        /\ UNCHANGED <<arguments, complete, outcome>>
     \/ (AtEnd \/ stream.budget = 0) /\ UNCHANGED stream /\ Fail

Complete == complete /\ (required => Last(levels).has)

\* Mutant: ConsumedEntireMessage is not asked of nested messages either.
EndNestedUnchecked ==
  /\ expect = "end" /\ Len(levels) > 1
  /\ stream' = PopLimit(stream, Last(levels).limit) /\ expect' = "tag"
  /\ levels' = Front(levels) /\ complete' = Complete
  /\ UNCHANGED <<arguments, outcome>>

\* The nested message must have ended where its length said.
EndNested ==
  /\ expect = "end" /\ Len(levels) > 1
  /\ \/ /\ stream.legitimate
        /\ stream' = PopLimit(stream, Last(levels).limit) /\ expect' = "tag"
        /\ levels' = Front(levels) /\ complete' = Complete
        /\ UNCHANGED <<arguments, outcome>>
     \/ ~stream.legitimate /\ UNCHANGED stream /\ Fail

\* ParseFromCodedStream asks IsInitialized, and nobody ConsumedEntireMessage.
EndParse ==
  /\ expect = "end" /\ Len(levels) = 1
  /\ expect' = "done" /\ complete' = Complete
  /\ outcome' = IF Complete THEN "object" ELSE "throw"
  /\ UNCHANGED <<arguments, stream, levels>>

----------------------------------------------------------------------------

Init ==
  /\ bytes \in Buffers /\ limit \in Asked /\ warn \in Warned /\ required \in BOOLEAN
  /\ stream = NewStream
  /\ levels = <<[limit |-> MaxInt, has |-> FALSE]>>
  /\ expect = "limits" /\ complete = TRUE /\ outcome = "none"

Next ==
  \/ SetLimits
  \/ ReadTag
  \/ ReadValue
  \/ ReadLength
  \/ EndNested
  \/ EndParse

Spec == Init /\ [][Next]_vars
\* The parse is one native call: it runs until it is done.
FairSpec == Spec /\ WF_vars(Next)

----------------------------------------------------------------------------
(* Properties.                                                             *)

\* The variables have their types, and the stream stays inside the buffer.
TypeOK ==
  /\ bytes \in Buffers /\ limit \in Asked /\ warn \in Warned /\ required \in BOOLEAN
  /\ stream \in [pos : 0..Len(bytes), current : 0..MaxInt, total : 0..MaxInt,
                 threshold : -1..MaxInt, legitimate : BOOLEAN, budget : 0..DefaultRecursion]
  /\ levels \in Seq([limit : 0..MaxInt, has : BOOLEAN])
  /\ Len(levels) + stream.budget = 1 + DefaultRecursion
  /\ expect \in {"limits", "tag", "value", "length", "end", "done"}
  /\ complete \in BOOLEAN /\ outcome \in {"none", "object", "throw"}
  /\ (expect = "done") = (outcome # "none")

Began == expect # "limits"

\* Limits that turn negative on the way, or were.
Unheld == (-MaxInt - 1)..(-1) \cup (MaxInt + 1)..(Word - 1)

\* No byte past the limit is ever read, whatever lengths the message claims.  One
\* that no int can hold comes out of `|0`, Uint32Value, size_t and int as a limit
\* too, and so does a negative one (protobuf.js:45, native.cpp:130): of nothing,
\* where it was to be a large one or none.
NeverPastLimit ==
  Began => /\ limit \in 1..MaxInt => stream.pos <= limit
           /\ limit \in Unheld => stream.pos = 0

\* Nested messages are read inside the ones around them: no limit in force lies
\* beyond one that is suspended, and nothing is read beyond any of them.
LimitsNest ==
  \A i \in DOMAIN levels :
    /\ stream.pos <= levels[i].limit /\ stream.current <= levels[i].limit
    /\ \A j \in 1..i : levels[i].limit <= levels[j].limit

\* A nested message that is accepted was read up to where its length said, or up
\* to where the whole buffer ends; an end-group tag or a zero never ends it.  They
\* may end the outermost one, which nothing else cuts short but the total limit:
\* what is answered is no other part of the buffer (native.cpp:135).
MessagesEndProperly ==
  [][/\ Len(levels') < Len(levels) => stream.pos \in {stream.current, Len(bytes)}
     /\ outcome' = "object" /\ outcome = "none" =>
          \/ stream.pos \in {stream.total, Len(bytes)}
          \/ stream.pos > 0 /\ bytes[stream.pos].tag \in {"0", "stop"}]_vars

\* Every parse ends: in an object or in an exception.
ParseEnds == <>(expect = "done")
==============================================================================
