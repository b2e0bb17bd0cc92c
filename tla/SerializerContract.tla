------------------------- MODULE SerializerContract -------------------------
(***************************************************************************)
(* What serialize() promises for objects that run no JavaScript of their   *)
(* own while they are read: the answer is a function of the object graph   *)
(* at the time of the call.  One step begins a call and one step answers   *)
(* it, with the whole message at once.                                     *)
(*                                                                         *)
(* Serializer implements this specification; MCContract checks it.         *)
(***************************************************************************)
EXTENDS Values

CONSTANTS Heaps, Updates, Callable, PreserveInt64, MaxCalls

VARIABLES
  heap,    \* the JavaScript objects
  open,    \* calls begun and not answered: [obj, type]
  replies, \* the answers, in order: [ret, message]
  gone     \* the process has aborted

vars == <<heap, open, replies, gone>>

----------------------------------------------------------------------------
(* The message an object stands for.                                       *)

Prop(h, o, f) == h[o].props[f.name]

\* Only null and undefined are missing.
Missing(h, o, t) ==
  {n \in DOMAIN Schema[t] : Schema[t][n].label = "required" /\ Nullish(Prop(h, o, Schema[t][n]))}

\* The fields that are looked at: those before the first missing one.
Reached(h, o, t) == {n \in DOMAIN Schema[t] : \A k \in Missing(h, o, t) : n < k}

\* The values a field is given, one for each occurrence of it in the message.
Given(h, o, f) ==
  LET v == Prop(h, o, f)
  IN CASE Nullish(v) -> <<>>
       [] ~Nullish(v) /\ f.label # "repeated" -> <<v>>
       [] ~Nullish(v) /\ f.label = "repeated" /\ IsList(v) -> h[v.ref].elems
       [] OTHER -> <<>>

Accepts(f, v) ==
  /\ f.kind = "enum" => Declared(v)
  /\ f.kind = "message" => IsObject(v)

Payload(h, f, v) ==
  LET elems == h[v.ref].elems
      half(k) == IF k <= Len(elems) THEN Numeric(elems[k]) ELSE Junk
  IN CASE f.kind = "bool" -> <<Truth(v)>>
       [] f.kind \in {"string", "bytes"} /\ v.tag = "typed" -> [k \in 1..Len(elems) |-> Numeric(elems[k])]
       [] f.kind \in {"string", "bytes"} /\ v.tag # "typed" -> <<Text(v)>>
       [] f.kind = "int64" /\ PreserveInt64 /\ v.tag = "array" -> <<half(1), half(2)>>
       [] OTHER -> <<Numeric(v)>>

RECURSIVE Encode(_, _, _)
Encode(h, o, t) ==
  LET Item(f, v) == IF f.kind = "message" THEN Encode(h, v.ref, f.sub) ELSE Payload(h, f, v)
      Items(f) == LET taken == SelectSeq(Given(h, o, f), LAMBDA v : Accepts(f, v))
                  IN [k \in DOMAIN taken |-> Item(f, taken[k])]
  IN [type |-> t,
      vals |-> [n \in DOMAIN Schema[t] |->
                  IF n \in Reached(h, o, t) THEN Items(Schema[t][n]) ELSE <<>>]]

\* A string that is no decimal numeral, for a 64-bit field: stoll throws a C++
\* exception that nothing catches.
RECURSIVE Fatal(_, _, _)
Fatal(h, o, t) ==
  \E n \in Reached(h, o, t) :
    LET f == Schema[t][n] IN
    \E v \in Range(Given(h, o, f)) :
      \/ f.kind = "int64" /\ PreserveInt64 /\ v.tag = "string" /\ v.ref \notin Data
      \/ f.kind = "message" /\ IsObject(v) /\ Fatal(h, v.ref, f.sub)

----------------------------------------------------------------------------

Init ==
  /\ heap \in Heaps
  /\ open = <<>> /\ replies = <<>> /\ gone = FALSE

\* The program runs only while no call is in progress.
Idle == open = <<>> /\ ~gone

Begin(o, t) ==
  /\ Idle /\ Len(replies) < MaxCalls
  /\ open' = <<[obj |-> o, type |-> t]>>
  /\ UNCHANGED <<heap, replies, gone>>

\* null, if a required field of the object itself is missing; else a buffer of
\* all it holds, whatever is missing deeper down.
Reply ==
  /\ open # <<>> /\ ~gone
  /\ LET c == Head(open) IN
     /\ ~Fatal(heap, c.obj, c.type)
     /\ replies' = Append(replies,
          IF Missing(heap, c.obj, c.type) # {}
          THEN [ret |-> "null", message |-> <<>>]
          ELSE [ret |-> "buffer", message |-> <<Encode(heap, c.obj, c.type)>>])
  /\ open' = Tail(open)
  /\ UNCHANGED <<heap, gone>>

Crash ==
  /\ open # <<>> /\ ~gone
  /\ Fatal(heap, Head(open).obj, Head(open).type)
  /\ gone' = TRUE
  /\ UNCHANGED <<heap, open, replies>>

Reject ==
  /\ Idle /\ Len(replies) < MaxCalls
  /\ replies' = Append(replies, [ret |-> "undefined", message |-> <<>>])
  /\ UNCHANGED <<heap, open, gone>>

Mutate(u) ==
  /\ Idle
  /\ heap' = [heap EXCEPT ![u.obj] = u.contents]
  /\ UNCHANGED <<open, replies, gone>>

Next ==
  \/ \E o \in Callable, t \in Types : Begin(o, t)
  \/ Reply
  \/ Crash
  \/ Reject
  \/ \E u \in Updates : Mutate(u)

\* Every call is answered, unless it takes the process with it.
Spec == Init /\ [][Next]_vars /\ WF_vars(Reply) /\ WF_vars(Crash)
=============================================================================
