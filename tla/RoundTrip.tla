------------------------------ MODULE RoundTrip ------------------------------
(***************************************************************************)
(* serialize() and parse() one after the other, on one heap: an object is  *)
(* serialized, the buffer parsed, what came back serialized again, and so  *)
(* on.  Serializer and Parser do the steps; a buffer is the message it was *)
(* written from, which is what the library reads back.                     *)
(***************************************************************************)
EXTENDS Values

CONSTANTS Heaps, Callable, PreserveInt64, MaxStack, \* see Serializer
          Known, Arena, Numerals, WireTypes, Leftover, \* see Parser
          RootType, \* the message type the program serializes
          Trips     \* bound: how often it serializes and parses

VARIABLES
  heap, msgs,                     \* shared by both
  live, stack, results, aborted,  \* the serializer's
  used, frames, replies, held     \* the parser's

vars == <<heap, msgs, live, stack, results, aborted, used, frames, replies, held>>

S == INSTANCE Serializer WITH Updates <- {}, Answers <- {}, MaxCalls <- Trips
P == INSTANCE Parser WITH Tables <- {}, MaxParses <- Trips

Init ==
  /\ S!Init
  /\ used = 0 /\ frames = <<>> /\ replies = <<>> /\ held = 0

\* The program waits for each call, and has as many answers as buffers or one
\* buffer more.
Idle == ~aborted /\ stack = <<>> /\ frames = <<>>

\* The first object, or the one parsed last.
SerializeNext ==
  /\ Idle /\ Len(results) = Len(replies)
  /\ IF replies = <<>>
     THEN \E o \in Callable : S!Serialize(o, RootType)
     ELSE ~Last(replies).exc /\ S!Serialize(Last(replies).value.ref, RootType)
  /\ UNCHANGED <<used, frames, replies, held>>

ParseNext ==
  /\ Idle /\ Len(results) = Len(replies) + 1 /\ Last(results).ret = "buffer"
  /\ LET c == [buffer |-> Last(results).msg, known |-> TRUE, typed |-> "absent", unknown |-> FALSE]
     IN P!Accept(c) \/ P!Refuse(c)
  /\ UNCHANGED <<live, stack, results, aborted>>

Write == S!Walk /\ UNCHANGED <<used, frames, replies, held>>
Read  == P!Build /\ UNCHANGED <<live, stack, results, aborted>>

Next == SerializeNext \/ ParseNext \/ Write \/ Read

Spec == Init /\ [][Next]_vars

----------------------------------------------------------------------------

\* A value with all it contains; a property that is not set is not there.
RECURSIVE View(_)
View(v) ==
  IF ~IsObject(v) THEN v
  ELSE LET c == heap[v.ref]
       IN [tag |-> v.tag,
           props |-> [n \in {x \in Names : c.props[x].tag # "undefined"} |-> View(c.props[n])],
           elems |-> [k \in DOMAIN c.elems |-> View(c.elems[k])]]

Parsed == IF frames = <<>> THEN {r \in DOMAIN replies : ~replies[r].exc} ELSE {}

\* One trip settles an object: what is parsed again after that, however often,
\* is what was parsed the first time.
Settled == \A r \in Parsed : View(replies[r].value) = View(replies[1].value)

\* What parse() returned can be serialized, and the buffer parsed: no required
\* field went missing on the way, no 64-bit string stopped being a numeral.
ParsedIsSerializable ==
  replies # <<>> /\ ~replies[1].exc =>
    /\ ~aborted
    /\ \A r \in DOMAIN results : results[r].ret = "buffer"
    /\ \A r \in DOMAIN replies : ~replies[r].exc
==============================================================================
