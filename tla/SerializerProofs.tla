-------------------------- MODULE SerializerProofs --------------------------
(***************************************************************************)
(* Theorems of Serializer, for every schema, every object graph and        *)
(* whatever JavaScript does in the middle of a walk.                       *)
(***************************************************************************)
EXTENDS Serializer, StackLemmas

----------------------------------------------------------------------------
(* The inductive invariant.                                                *)

\* A frame that is in a loop, waits for JavaScript or has called another is at
\* a field of its message.  Only a loop waits for an element, only an enum
\* field for the name of an enum value, and only repeated fields are looped over.
FrameFits(k) ==
  LET fr == stack[k]
  IN /\ InLoop(fr) \/ fr.wait # "none" \/ k < Len(stack) => fr.i <= FieldCount(fr)
     /\ InLoop(fr) => Field(fr).label = "repeated"
     /\ fr.wait = "element" => InLoop(fr)
     /\ fr.wait = "enum" => Field(fr).kind = "enum"
FramesFit == \A k \in DOMAIN stack : FrameFits(k)

\* SerializePart is called by NativeProtobuf::Serialize, or for a message field
\* of the frame below.
CallersFit ==
  \A k \in DOMAIN stack : ~stack[k].root => k > 1 /\ Field(stack[k - 1]).kind = "message"

\* Behind the field a frame is at, no field that every value sets is empty.
NothingSkipped(k) ==
  \A n \in Mandatory(stack[k].msg) : n < stack[k].i => msgs[stack[k].msg].vals[n] # <<>>
NoneSkipped == \A k \in DOMAIN stack : NothingSkipped(k)

\* Results name messages that exist, but for those of a call that allocated none.
ResultsExist ==
  \A r \in DOMAIN results : results[r].ret # "undefined" => results[r].msg \in DOMAIN msgs

IInv == TypeOK /\ FramesFit /\ CallersFit /\ NoneSkipped /\ ResultsExist /\ BufferIsComplete

----------------------------------------------------------------------------
(* Facts about frames and messages.                                        *)

LEMMA MessageFacts ==
  ASSUME TypeOK, NEW m \in DOMAIN msgs
  PROVE  /\ msgs[m].type \in Types /\ msgs[m].vals \in Seq(Seq(Stored)) /\ msgs[m].root \in Nat
         /\ Schema[msgs[m].type] \in Seq(FieldDescriptor)
         /\ Len(msgs[m].vals) = Len(Schema[msgs[m].type]) /\ Len(msgs[m].vals) \in Nat
         /\ DOMAIN msgs[m].vals = 1..Len(msgs[m].vals)
<1>1. msgs[m] \in Message /\ Len(msgs[m].vals) = Len(Schema[msgs[m].type])
  BY DEF TypeOK
<1>2. msgs[m].type \in Types /\ msgs[m].vals \in Seq(Seq(Stored)) /\ msgs[m].root \in Nat
  BY <1>1 DEF Message
<1>3. Schema[msgs[m].type] \in Seq(FieldDescriptor)
  BY <1>2, SchemaAssumption
<1> QED BY <1>1, <1>2, <1>3

LEMMA TopFacts ==
  ASSUME TypeOK, stack # <<>>
  PROVE  /\ stack \in Seq(Frame) /\ Len(stack) \in Nat \ {0} /\ DOMAIN stack = 1..Len(stack)
         /\ Len(stack) \in DOMAIN stack /\ Top = stack[Len(stack)] /\ Top \in Frame
         /\ Top.msg \in DOMAIN msgs /\ Top.i \in Nat \ {0}
         /\ FieldCount(Top) = Len(msgs[Top.msg].vals) /\ FieldCount(Top) \in Nat
<1>1. stack \in Seq(Frame)
  BY DEF TypeOK
<1>2. Top \in Frame /\ Top = stack[Len(stack)] /\ Len(stack) \in Nat \ {0}
  BY <1>1, LastOfStack DEF Top
<1>3. Top.msg \in DOMAIN msgs /\ Top.i \in Nat \ {0}
  BY <1>2 DEF Frame
<1> QED BY <1>1, <1>2, <1>3, MessageFacts DEF FieldCount

\* The field a frame is at is one of its message's.
LEMMA FieldFacts ==
  ASSUME TypeOK, NEW fr \in Frame, fr.i <= FieldCount(fr)
  PROVE  fr.i \in DOMAIN msgs[fr.msg].vals /\ Field(fr) \in FieldDescriptor
<1>1. fr.msg \in DOMAIN msgs /\ fr.i \in Nat \ {0}
  BY DEF Frame
<1>2. FieldCount(fr) \in Nat /\ fr.i \in 1..FieldCount(fr)
  BY <1>1, MessageFacts DEF FieldCount
<1> QED BY <1>1, <1>2, MessageFacts DEF Field, FieldCount

\* Setting a field changes that field of that message and no other, and leaves
\* it with a value.
LEMMA PutFacts ==
  ASSUME TypeOK, stack # <<>>, Top.i <= FieldCount(Top), NEW e \in Stored
  PROVE  /\ Put(e) \in Seq(Message) /\ Len(Put(e)) = Len(msgs) /\ DOMAIN Put(e) = DOMAIN msgs
         /\ \A m \in DOMAIN msgs :
              /\ Put(e)[m].type = msgs[m].type /\ Put(e)[m].root = msgs[m].root
              /\ Len(Put(e)[m].vals) = Len(msgs[m].vals)
              /\ DOMAIN Put(e)[m].vals = DOMAIN msgs[m].vals
              /\ m # Top.msg => Put(e)[m] = msgs[m]
              /\ \A n \in DOMAIN msgs[m].vals :
                   msgs[m].vals[n] # <<>> => Put(e)[m].vals[n] # <<>>
         /\ Put(e)[Top.msg].vals[Top.i] # <<>>
<1> DEFINE m0 == Top.msg
           i0 == Top.i
           old == msgs[m0].vals[i0]
           new == IF Field(Top).label = "repeated" THEN Append(old, e) ELSE <<e>>
           v == [msgs[m0].vals EXCEPT ![i0] = new]
           x == [msgs[m0] EXCEPT !.vals = v]
<1>1. m0 \in DOMAIN msgs /\ msgs[m0] \in Message /\ i0 \in DOMAIN msgs[m0].vals
      /\ msgs \in Seq(Message) /\ msgs[m0].vals \in Seq(Seq(Stored))
  BY TopFacts, FieldFacts, MessageFacts DEF TypeOK
<1>2. new \in Seq(Stored) /\ new # <<>>
  <2>1. old \in Seq(Stored)
    BY <1>1
  <2>2. Append(old, e) \in Seq(Stored) /\ Len(Append(old, e)) = Len(old) + 1 /\ Len(old) \in Nat
    BY <2>1
  <2>3. Append(old, e) # <<>> /\ <<e>> \in Seq(Stored) /\ <<e>> # <<>>
    BY <2>2
  <2> QED BY <2>2, <2>3
<1> HIDE DEF new
<1>3. /\ v \in Seq(Seq(Stored)) /\ Len(v) = Len(msgs[m0].vals) /\ DOMAIN v = DOMAIN msgs[m0].vals
      /\ v[i0] = new /\ \A n \in DOMAIN v : n # i0 => v[n] = msgs[m0].vals[n]
  BY <1>1, <1>2
<1> HIDE DEF v
<1>4. x \in Message /\ x.type = msgs[m0].type /\ x.root = msgs[m0].root /\ x.vals = v
  BY <1>1, <1>3 DEF Message
<1>5. Put(e) = [msgs EXCEPT ![m0] = x]
  BY <1>1 DEF Put, Message, v, new
<1> HIDE DEF x
<1>6. /\ Put(e) \in Seq(Message) /\ Len(Put(e)) = Len(msgs) /\ DOMAIN Put(e) = DOMAIN msgs
      /\ Put(e)[m0] = x /\ \A m \in DOMAIN msgs : m # m0 => Put(e)[m] = msgs[m]
  BY <1>1, <1>4, <1>5
<1>7. ASSUME NEW m \in DOMAIN msgs
      PROVE  /\ Put(e)[m].type = msgs[m].type /\ Put(e)[m].root = msgs[m].root
             /\ Len(Put(e)[m].vals) = Len(msgs[m].vals)
             /\ DOMAIN Put(e)[m].vals = DOMAIN msgs[m].vals
             /\ m # Top.msg => Put(e)[m] = msgs[m]
             /\ \A n \in DOMAIN msgs[m].vals :
                  msgs[m].vals[n] # <<>> => Put(e)[m].vals[n] # <<>>
  <2>1. CASE m = m0
    BY <1>2, <1>3, <1>4, <1>6, <2>1
  <2>2. CASE m # m0
    BY <1>6, <2>2
  <2> QED BY <2>1, <2>2
<1> QED BY <1>2, <1>3, <1>4, <1>6, <1>7

----------------------------------------------------------------------------
(* What every step does to the messages: they keep their type and root, new *)
(* ones come behind the old, and a field that has a value keeps having one. *)

MsgsGrow ==
  /\ msgs' \in Seq(Message) /\ Len(msgs) <= Len(msgs')
  /\ \A m \in DOMAIN msgs' : /\ Len(msgs'[m].vals) = Len(Schema[msgs'[m].type])
                              /\ msgs'[m].root \in 1..m
  /\ \A m \in DOMAIN msgs :
       /\ m \in DOMAIN msgs' /\ msgs'[m].type = msgs[m].type /\ msgs'[m].root = msgs[m].root
       /\ DOMAIN msgs'[m].vals = DOMAIN msgs[m].vals
       /\ \A n \in DOMAIN msgs[m].vals : msgs[m].vals[n] # <<>> => msgs'[m].vals[n] # <<>>

LEMMA MsgsSame == ASSUME TypeOK, msgs' = msgs PROVE MsgsGrow
BY DEF TypeOK, MsgsGrow

LEMMA MsgsPut ==
  ASSUME TypeOK, stack # <<>>, Top.i <= FieldCount(Top), NEW e \in Stored, msgs' = Put(e)
  PROVE  MsgsGrow
<1>1. \A m \in DOMAIN msgs : Len(msgs[m].vals) = Len(Schema[msgs[m].type]) /\ msgs[m].root \in 1..m
  BY DEF TypeOK
<1>2. msgs \in Seq(Message)
  BY DEF TypeOK
<1> QED BY <1>1, <1>2, PutFacts DEF MsgsGrow

LEMMA Carried ==
  ASSUME TypeOK, MsgsGrow
  PROVE  /\ \A fr \in Frame : fr \in Frame' /\ fr.msg \in DOMAIN msgs
         /\ \A m \in DOMAIN msgs :
              /\ m \in DOMAIN msgs' /\ Mandatory(m)' = Mandatory(m)
              /\ Schema[msgs'[m].type] = Schema[msgs[m].type]
<1>1. DOMAIN msgs \subseteq DOMAIN msgs'
  BY DEF MsgsGrow
<1>2. \A fr \in Frame : fr \in Frame' /\ fr.msg \in DOMAIN msgs
  BY <1>1 DEF Frame
<1>3. ASSUME NEW m \in DOMAIN msgs
      PROVE  m \in DOMAIN msgs' /\ Mandatory(m)' = Mandatory(m)
             /\ Schema[msgs'[m].type] = Schema[msgs[m].type]
  <2>1. m \in DOMAIN msgs' /\ msgs'[m].type = msgs[m].type /\ DOMAIN msgs'[m].vals = DOMAIN msgs[m].vals
    BY DEF MsgsGrow
  <2> QED BY <2>1 DEF Mandatory, Required
<1> QED BY <1>2, <1>3

\* Results that were complete remain so.
LEMMA ResultsKept ==
  ASSUME IInv, MsgsGrow, results' = results
  PROVE  ResultsExist' /\ BufferIsComplete'
<1>1. TypeOK
  BY DEF IInv
<1>2. ResultsExist'
  BY <1>1, Carried DEF IInv, ResultsExist
<1>3. ASSUME NEW r \in DOMAIN results, results[r].ret = "buffer",
             NEW n \in Mandatory(results[r].msg)
      PROVE  msgs[results[r].msg].vals[n] # <<>> /\ n \in DOMAIN msgs[results[r].msg].vals
  BY <1>3 DEF IInv, BufferIsComplete, Absent, Mandatory, Required
<1>4. ASSUME NEW r \in DOMAIN results, results[r].ret = "buffer",
             NEW n \in Mandatory(results[r].msg)'
      PROVE  msgs'[results[r].msg].vals[n] # <<>>
  <2>1. results[r].msg \in DOMAIN msgs
    BY <1>4 DEF IInv, ResultsExist
  <2>2. \A m \in DOMAIN msgs : Mandatory(m)' = Mandatory(m)
    BY <1>1, Carried
  <2>3. n \in Mandatory(results[r].msg)
    BY <1>4, <2>1, <2>2
  <2> QED BY <1>3, <1>4, <2>1, <2>3 DEF MsgsGrow
<1>5. BufferIsComplete'
  BY <1>4 DEF BufferIsComplete, Absent
<1> QED BY <1>2, <1>5

----------------------------------------------------------------------------
(* The shapes a step has.                                                  *)

\* A frame that may replace the top one, or be the top after a return: what the
\* invariant says of a top frame, but for what lies below it.
TopFits(fr) ==
  /\ InLoop(fr) \/ fr.wait # "none" => fr.i <= FieldCount(fr)
  /\ InLoop(fr) => Field(fr).label = "repeated"
  /\ fr.wait = "element" => InLoop(fr)
  /\ fr.wait = "enum" => Field(fr).kind = "enum"

\* The frames of a stack without its top, with another top, satisfy the
\* invariant when that top does.
LEMMA Retopped ==
  ASSUME IInv, MsgsGrow, NEW j \in DOMAIN stack, NEW fr \in Frame,
         stack' \in Seq(Frame), Len(stack') = j, DOMAIN stack' = 1..j, stack'[j] = fr,
         \A k \in 1..j - 1 : stack'[k] = stack[k],
         fr.msg = stack[j].msg, fr.root = stack[j].root, TopFits(fr),
         \A n \in Mandatory(fr.msg) : n < fr.i => msgs'[fr.msg].vals[n] # <<>>
  PROVE  stack' \in Seq(Frame)' /\ FramesFit' /\ CallersFit' /\ NoneSkipped'
<1>1. TypeOK /\ Len(stack) \in Nat /\ DOMAIN stack = 1..Len(stack) /\ stack \in Seq(Frame)
      /\ j \in 1..Len(stack)
  BY DEF IInv, TypeOK
<1>2. \A k \in 1..j - 1 : k \in DOMAIN stack /\ k < Len(stack) /\ k < j /\ stack[k] \in Frame
  BY <1>1
<1>3. \A k \in DOMAIN stack' : k = j \/ k \in 1..j - 1
  BY <1>1
<1>4. /\ \A g \in Frame : g \in Frame' /\ g.msg \in DOMAIN msgs
      /\ \A m \in DOMAIN msgs :
           /\ m \in DOMAIN msgs' /\ Mandatory(m)' = Mandatory(m)
           /\ Schema[msgs'[m].type] = Schema[msgs[m].type]
  BY <1>1, Carried
<1>5. stack' \in Seq(Frame)'
  BY <1>4
<1>6. FramesFit'
  <2>1. ASSUME NEW k \in 1..j - 1  PROVE FrameFits(k)'
    <3>1. FrameFits(k) /\ k < Len(stack) /\ k < Len(stack') /\ stack'[k] = stack[k]
      BY <1>2 DEF IInv, FramesFit
    <3>2. Schema[msgs'[stack[k].msg].type] = Schema[msgs[stack[k].msg].type]
      BY <1>2, <1>4
    <3> QED BY <3>1, <3>2 DEF FrameFits, InLoop, FieldCount, Field
  <2>2. FrameFits(j)'
    <3>1. Schema[msgs'[fr.msg].type] = Schema[msgs[fr.msg].type] /\ ~(j < Len(stack'))
      BY <1>1, <1>4
    <3> QED BY <3>1 DEF TopFits, FrameFits, InLoop, FieldCount, Field
  <2> QED BY <1>3, <2>1, <2>2 DEF FramesFit
<1>7. CallersFit'
  <2>1. ASSUME NEW k \in DOMAIN stack', ~stack'[k].root
        PROVE  k > 1 /\ Schema[msgs'[stack'[k - 1].msg].type][stack'[k - 1].i].kind = "message"
    <3>1. k \in DOMAIN stack /\ stack'[k].root = stack[k].root
      BY <1>2, <1>3
    <3>2. k > 1 /\ Field(stack[k - 1]).kind = "message"
      BY <2>1, <3>1 DEF IInv, CallersFit
    <3>3. k - 1 \in 1..j - 1
      BY <1>1, <1>3, <3>2
    <3> QED BY <1>2, <1>4, <3>2, <3>3 DEF Field
  <2> QED BY <2>1 DEF CallersFit, Field
<1>8. NoneSkipped'
  <2>1. ASSUME NEW k \in 1..j - 1  PROVE NothingSkipped(k)'
    <3>1. NothingSkipped(k) /\ stack'[k] = stack[k] /\ stack[k].msg \in DOMAIN msgs
      BY <1>2, <1>4 DEF IInv, NoneSkipped
    <3>2. ASSUME NEW m \in DOMAIN msgs, m = stack[k].msg, NEW n \in Mandatory(m)', n < stack[k].i
          PROVE  msgs'[m].vals[n] # <<>>
      <4>1. n \in Mandatory(m) /\ n \in DOMAIN msgs[m].vals
        BY <1>4, <3>2 DEF Mandatory, Required
      <4>2. msgs[m].vals[n] # <<>>
        BY <3>1, <3>2, <4>1 DEF NothingSkipped
      <4> QED BY <4>1, <4>2 DEF MsgsGrow
    <3> QED BY <3>1, <3>2 DEF NothingSkipped
  <2>2. NothingSkipped(j)'
    BY <1>4 DEF NothingSkipped
  <2> QED BY <1>3, <2>1, <2>2 DEF NoneSkipped
<1> QED BY <1>5, <1>6, <1>7, <1>8

\* The top frame is replaced, and messages only grow.
LEMMA TopStep ==
  ASSUME IInv, stack # <<>>, MsgsGrow, NEW fr \in Frame, stack' = With(fr),
         fr.msg = Top.msg, fr.root = Top.root, TopFits(fr),
         \A n \in Mandatory(Top.msg) : n < fr.i => msgs'[Top.msg].vals[n] # <<>>,
         heap' = heap, live' = live, results' = results, aborted' = aborted
  PROVE  IInv'
<1>1. TypeOK
  BY DEF IInv
<1>2. /\ stack' \in Seq(Frame) /\ Len(stack') = Len(stack) /\ DOMAIN stack' = 1..Len(stack)
      /\ stack'[Len(stack)] = fr /\ \A k \in 1..Len(stack) - 1 : stack'[k] = stack[k]
  <2>1. stack \in Seq(Frame) /\ stack' = [stack EXCEPT ![Len(stack)] = fr]
    BY <1>1, TopFacts DEF With
  <2> QED BY <2>1, ReplaceTop
<1>3. stack' \in Seq(Frame)' /\ FramesFit' /\ CallersFit' /\ NoneSkipped'
  BY <1>1, <1>2, TopFacts, Retopped
<1>4. TypeOK'
  BY <1>1, <1>3 DEF TypeOK, MsgsGrow
<1> QED BY <1>3, <1>4, ResultsKept DEF IInv

LEMMA FrameUpdates ==
  ASSUME NEW fr \in Frame, NEW exc \in BOOLEAN
  PROVE  LET g == Throwing(Advance(fr), exc)
             h == Throwing(fr, exc)
         IN /\ g \in Frame /\ g.msg = fr.msg /\ g.root = fr.root /\ g.arr = fr.arr /\ g.wait = "none"
            /\ g.i = IF InLoop(fr) THEN fr.i ELSE fr.i + 1
            /\ h \in Frame /\ h.msg = fr.msg /\ h.root = fr.root
<1> DEFINE a == Advance(fr)
<1>1. /\ a \in Frame /\ a.msg = fr.msg /\ a.root = fr.root /\ a.arr = fr.arr /\ a.wait = "none"
      /\ a.i = IF InLoop(fr) THEN fr.i ELSE fr.i + 1
  <2>1. fr.i \in Nat \ {0} /\ fr.j \in Nat /\ "none" \in Waits
    BY DEF Frame, Waits
  <2>2. fr.i + 1 \in Nat \ {0} /\ fr.j + 1 \in Nat
    BY <2>1
  <2>3. CASE InLoop(fr)
    <3>1. a = [fr EXCEPT !.j = fr.j + 1, !.wait = "none"]
      BY <2>3 DEF Advance
    <3> QED BY <2>1, <2>2, <2>3, <3>1 DEF Frame
  <2>4. CASE ~InLoop(fr)
    <3>1. a = [fr EXCEPT !.i = fr.i + 1, !.wait = "none"]
      BY <2>4 DEF Advance
    <3> QED BY <2>1, <2>2, <2>4, <3>1 DEF Frame
  <2> QED BY <2>3, <2>4
<1> HIDE DEF a
<1>2. \A g \in Frame : /\ Throwing(g, exc) \in Frame /\ Throwing(g, exc).msg = g.msg
                       /\ Throwing(g, exc).root = g.root /\ Throwing(g, exc).arr = g.arr
                       /\ Throwing(g, exc).wait = g.wait /\ Throwing(g, exc).i = g.i
  <2>1. ASSUME NEW g \in Frame  PROVE (g.exc \/ exc) \in BOOLEAN
    OBVIOUS
  <2>2. ASSUME NEW g \in Frame, NEW x \in BOOLEAN  PROVE [g EXCEPT !.exc = x] \in Frame
    BY DEF Frame
  <2> QED BY <2>1, <2>2 DEF Throwing, Frame
<1> QED BY <1>1, <1>2 DEF a

LEMMA TopFrame ==
  ASSUME IInv, stack # <<>>
  PROVE  TypeOK /\ TopFits(Top) /\ NothingSkipped(Len(stack)) /\ Top = stack[Len(stack)]
<1>1. TypeOK /\ Len(stack) \in DOMAIN stack /\ Top = stack[Len(stack)]
  BY TopFacts DEF IInv
<1> QED BY <1>1 DEF IInv, FramesFit, FrameFits, NoneSkipped, TopFits

\* Going on to the next element or field leaves no mandatory field behind that
\* has no value.
LEMMA Advanced ==
  ASSUME IInv, MsgsGrow, NEW k \in DOMAIN stack, stack[k].i <= FieldCount(stack[k]),
         NEW exc \in BOOLEAN,
         \/ msgs'[stack[k].msg].vals[stack[k].i] # <<>>
         \/ InLoop(stack[k])
         \/ stack[k].i \notin Mandatory(stack[k].msg)
  PROVE  LET fr == Throwing(Advance(stack[k]), exc)
         IN /\ fr \in Frame /\ fr.msg = stack[k].msg /\ fr.root = stack[k].root /\ TopFits(fr)
            /\ \A n \in Mandatory(stack[k].msg) : n < fr.i => msgs'[stack[k].msg].vals[n] # <<>>
<1> DEFINE old == stack[k]
           fr == Throwing(Advance(old), exc)
<1>1. /\ TypeOK /\ old \in Frame /\ old.msg \in DOMAIN msgs /\ old.i \in Nat \ {0}
      /\ InLoop(old) => Field(old).label = "repeated"
      /\ \A n \in Mandatory(old.msg) : n < old.i => msgs[old.msg].vals[n] # <<>>
  <2>1. TypeOK /\ old \in Frame
    BY DEF IInv, TypeOK
  <2>2. old.msg \in DOMAIN msgs /\ old.i \in Nat \ {0}
    BY <2>1 DEF Frame
  <2> QED BY <2>1, <2>2 DEF IInv, FramesFit, FrameFits, NoneSkipped, NothingSkipped
<1>2. \A n \in Mandatory(old.msg) : n \in DOMAIN msgs[old.msg].vals /\ n \in Nat
  BY <1>1, MessageFacts, SMTT(30) DEF Mandatory, Required
<1>3. \A n \in Mandatory(old.msg) : n < old.i => msgs'[old.msg].vals[n] # <<>>
  BY <1>1, <1>2 DEF MsgsGrow
<1>4. /\ fr \in Frame /\ fr.msg = old.msg /\ fr.root = old.root /\ fr.arr = old.arr
      /\ fr.wait = "none" /\ fr.i = IF InLoop(old) THEN old.i ELSE old.i + 1
  BY <1>1, FrameUpdates
<1> HIDE DEF fr
<1>5. TopFits(fr)
  BY <1>1, <1>4 DEF TopFits, InLoop, Field, FieldCount
<1>6. CASE InLoop(old)
  BY <1>3, <1>4, <1>5, <1>6 DEF fr
<1>7. CASE ~InLoop(old)
  <2>1. \A n \in Mandatory(old.msg) : n < fr.i => n < old.i \/ n = old.i
    BY <1>1, <1>2, <1>4, <1>7
  <2> QED BY <1>3, <1>4, <1>5, <1>7, <2>1 DEF fr
<1> QED BY <1>6, <1>7

LEMMA StoreStep ==
  ASSUME IInv, stack # <<>>, Top.i <= FieldCount(Top), NEW e \in Stored, NEW exc \in BOOLEAN,
         Store(e, exc)
  PROVE  IInv'
<1>1. TypeOK
  BY DEF IInv
<1>2. MsgsGrow /\ msgs'[Top.msg].vals[Top.i] # <<>>
  BY <1>1, MsgsPut, PutFacts DEF Store
<1>3. Len(stack) \in DOMAIN stack /\ Top = stack[Len(stack)]
  BY <1>1, TopFacts
<1> QED BY <1>2, <1>3, Advanced, TopStep DEF Store

LEMMA SkipStep ==
  ASSUME IInv, stack # <<>>, Top.i <= FieldCount(Top), NEW exc \in BOOLEAN, Skip(exc),
         InLoop(Top) \/ Top.i \notin Mandatory(Top.msg)
  PROVE  IInv'
<1>1. TypeOK
  BY DEF IInv
<1>2. MsgsGrow
  BY <1>1, MsgsSame DEF Skip
<1>3. Len(stack) \in DOMAIN stack /\ Top = stack[Len(stack)]
  BY <1>1, TopFacts
<1> QED BY <1>2, <1>3, Advanced, TopStep DEF Skip

LEMMA AwaitStep ==
  ASSUME IInv, stack # <<>>, Top.i <= FieldCount(Top), NEW what \in Waits, Await(what),
         what = "element" => InLoop(Top), what = "enum" => Field(Top).kind = "enum"
  PROVE  IInv'
<1> DEFINE fr == [Top EXCEPT !.wait = what]
<1>1. /\ TypeOK /\ TopFits(Top) /\ Top \in Frame
      /\ \A n \in Mandatory(Top.msg) : n < Top.i => msgs[Top.msg].vals[n] # <<>>
  BY TopFrame, TopFacts DEF NothingSkipped
<1>2. /\ fr \in Frame /\ fr.msg = Top.msg /\ fr.root = Top.root /\ fr.i = Top.i
      /\ fr.arr = Top.arr /\ fr.wait = what
  BY <1>1 DEF Frame
<1>3. stack' = With(fr) /\ msgs' = msgs
  BY DEF Await
<1> HIDE DEF fr
<1>4. TopFits(fr)
  BY <1>1, <1>2 DEF TopFits, InLoop, Field, FieldCount
<1> QED BY <1>1, <1>2, <1>3, <1>4, MsgsSame, TopStep DEF Await

LEMMA EnterLoopStep ==
  ASSUME IInv, stack # <<>>, Top.i <= FieldCount(Top), Field(Top).label = "repeated",
         NEW v \in Value, IsList(v), EnterLoop(v)
  PROVE  IInv'
<1> DEFINE fr == [Top EXCEPT !.arr = v.ref, !.len = Len(heap[v.ref].elems), !.j = 0, !.wait = "none"]
<1>1. /\ TypeOK /\ Top \in Frame
      /\ \A n \in Mandatory(Top.msg) : n < Top.i => msgs[Top.msg].vals[n] # <<>>
  BY TopFrame, TopFacts DEF NothingSkipped
<1>2. v.ref \in Objs
  BY DEF Value, Primitive, Reference, IsList
<1>3. Len(heap[v.ref].elems) \in Nat
  <2>1. heap[v.ref] \in Contents
    BY <1>1, <1>2 DEF TypeOK, Heap
  <2> QED BY <2>1 DEF Contents
<1>4. /\ fr \in Frame /\ fr.msg = Top.msg /\ fr.root = Top.root /\ fr.i = Top.i /\ fr.wait = "none"
  BY <1>1, <1>2, <1>3 DEF Frame, Waits
<1>5. stack' = With(fr) /\ msgs' = msgs
  BY DEF EnterLoop
<1> HIDE DEF fr
<1>6. TopFits(fr)
  BY <1>4 DEF TopFits, Field, FieldCount
<1> QED BY <1>1, <1>4, <1>5, <1>6, MsgsSame, TopStep DEF EnterLoop

LEMMA EndLoopStep == ASSUME IInv, EndLoop PROVE IInv'
<1> DEFINE fr == [Top EXCEPT !.arr = None, !.i = Top.i + 1]
<1>1. stack # <<>> /\ InLoop(Top) /\ Top.wait = "none" /\ stack' = With(fr) /\ msgs' = msgs
  BY DEF EndLoop, InNative
<1>2. /\ TypeOK /\ Top \in Frame /\ TopFits(Top) /\ Top.msg \in DOMAIN msgs /\ Top.i \in Nat \ {0}
      /\ \A n \in Mandatory(Top.msg) : n < Top.i => msgs[Top.msg].vals[n] # <<>>
  BY <1>1, TopFrame, TopFacts DEF NothingSkipped
<1>3. Top.i \notin Mandatory(Top.msg)
  BY <1>1, <1>2 DEF TopFits, Mandatory, Required, Field
<1>4. /\ fr \in Frame /\ fr.msg = Top.msg /\ fr.root = Top.root /\ fr.i = Top.i + 1
      /\ fr.arr = None /\ fr.wait = "none"
  <2>1. Top.i + 1 \in Nat \ {0} /\ None \in Objs \cup {None}
    BY <1>2
  <2> QED BY <1>1, <1>2, <2>1 DEF Frame
<1> HIDE DEF fr
<1>5. TopFits(fr)
  BY <1>4 DEF TopFits, InLoop
<1>6. \A n \in Mandatory(Top.msg) : n < fr.i => n < Top.i
  <2>1. \A n \in Mandatory(Top.msg) : n \in Nat
    BY <1>2, MessageFacts DEF Mandatory, Required
  <2> QED BY <1>2, <1>3, <1>4, <2>1
<1> QED BY <1>1, <1>2, <1>4, <1>5, <1>6, MsgsSame, TopStep DEF EndLoop

----------------------------------------------------------------------------
(* Steps that touch neither the messages nor the stack.                    *)

\* The rest of the invariant does not see the objects, what is live, and
\* whether the process is gone.
LEMMA Unrelated ==
  ASSUME IInv, UNCHANGED <<msgs, stack>>
  PROVE  FramesFit' /\ CallersFit' /\ NoneSkipped'
<1>1. FramesFit'
  <2>1. \A k \in DOMAIN stack : FrameFits(k)' = FrameFits(k)
    BY DEF FrameFits, InLoop, FieldCount, Field
  <2> QED BY <2>1 DEF IInv, FramesFit
<1>2. CallersFit'
  BY DEF IInv, CallersFit, Field
<1>3. NoneSkipped'
  BY DEF IInv, NoneSkipped, NothingSkipped, Mandatory, Required
<1> QED BY <1>1, <1>2, <1>3

LEMMA AbortStep == ASSUME IInv, Abort PROVE IInv'
<1>1. TypeOK /\ UNCHANGED <<heap, msgs, live, stack, results>> /\ aborted' = TRUE
  BY DEF IInv, Abort
<1>2. TypeOK'
  BY <1>1 DEF TypeOK, Frame
<1> QED BY <1>1, <1>2, MsgsSame, ResultsKept, Unrelated DEF IInv

LEMMA MutateStep == ASSUME IInv, NEW u \in Updates, Mutate(u) PROVE IInv'
<1>1. TypeOK /\ UNCHANGED <<msgs, live, stack, results, aborted>>
  BY DEF IInv, Mutate
<1>2. heap' \in Heap
  <2>1. u.contents \in Contents /\ heap \in [Objs -> Contents]
    BY <1>1, InputAssumption DEF TypeOK, Heap
  <2> QED BY <2>1 DEF Mutate, Heap
<1>3. TypeOK'
  BY <1>1, <1>2 DEF TypeOK, Frame
<1> QED BY <1>1, <1>3, MsgsSame, ResultsKept, Unrelated DEF IInv

\* A new result that, if it answers with a buffer, names a complete message.
LEMMA ResultAdded ==
  ASSUME IInv, msgs' = msgs,
         NEW x \in [msg : Nat, ret : {"buffer", "null", "undefined"}, exc : BOOLEAN],
         results' = Append(results, x),
         x.ret # "undefined" => x.msg \in DOMAIN msgs,
         x.ret = "buffer" => Absent(x.msg) \cap Mandatory(x.msg) = {}
  PROVE  /\ results' \in Seq([msg : Nat, ret : {"buffer", "null", "undefined"}, exc : BOOLEAN])
         /\ ResultsExist' /\ BufferIsComplete'
<1> DEFINE R == [msg : Nat, ret : {"buffer", "null", "undefined"}, exc : BOOLEAN]
<1>1. results \in Seq(R)
  BY DEF IInv, TypeOK
<1> HIDE DEF R
<1>2. x \in R
  BY DEF R
<1>3. /\ results' \in Seq(R) /\ DOMAIN results' = 1..Len(results) + 1 /\ Len(results) \in Nat
      /\ results'[Len(results) + 1] = x /\ \A r \in 1..Len(results) : results'[r] = results[r]
  BY <1>1, <1>2, Push
<1>4. \A r \in DOMAIN results' : r \in DOMAIN results \/ r = Len(results) + 1
  BY <1>1, <1>3
<1>5. \A r \in DOMAIN results : results'[r] = results[r]
  BY <1>1, <1>3
<1>6. ResultsExist'
  BY <1>3, <1>4, <1>5 DEF IInv, ResultsExist
<1>7. \A m : Absent(m)' = Absent(m) /\ Mandatory(m)' = Mandatory(m)
  BY DEF Absent, Mandatory, Required
<1>8. ASSUME NEW r \in DOMAIN results', results'[r].ret = "buffer"
      PROVE  Absent(results'[r].msg) \cap Mandatory(results'[r].msg) = {}
  BY <1>3, <1>4, <1>5, <1>8 DEF IInv, BufferIsComplete
<1>9. BufferIsComplete'
  BY <1>7, <1>8 DEF BufferIsComplete, Absent, Mandatory, Required
<1> QED BY <1>3, <1>6, <1>9 DEF R

LEMMA SerializeUnknownStep == ASSUME IInv, SerializeUnknown PROVE IInv'
<1> DEFINE x == [msg |-> 0, ret |-> "undefined", exc |-> TRUE]
<1>1. UNCHANGED <<heap, msgs, live, stack, aborted>> /\ results' = Append(results, x) /\ TypeOK
  BY DEF SerializeUnknown, IInv
<1>2. x \in [msg : Nat, ret : {"buffer", "null", "undefined"}, exc : BOOLEAN]
      /\ x.ret = "undefined"
  OBVIOUS
<1> HIDE DEF x
<1>3. /\ results' \in Seq([msg : Nat, ret : {"buffer", "null", "undefined"}, exc : BOOLEAN])
      /\ ResultsExist' /\ BufferIsComplete'
  BY <1>1, <1>2, ResultAdded
<1>4. TypeOK'
  BY <1>1, <1>3 DEF TypeOK, Frame
<1> QED BY <1>1, <1>3, <1>4, Unrelated DEF IInv

----------------------------------------------------------------------------
(* Calls of SerializePart.                                                 *)

\* A new message has no value in any field.
LEMMA NewMessageFacts ==
  ASSUME NEW t \in Types, NEW owner \in Nat
  PROVE  /\ NewMessage(t, owner) \in Message
         /\ NewMessage(t, owner).type = t /\ NewMessage(t, owner).root = owner
         /\ Len(NewMessage(t, owner).vals) = Len(Schema[t])
<1> DEFINE v == [n \in DOMAIN Schema[t] |-> <<>>]
<1>1. Schema[t] \in Seq(FieldDescriptor)
  BY SchemaAssumption
<1>2. v \in Seq(Seq(Stored)) /\ Len(v) = Len(Schema[t])
  <2>1. DOMAIN Schema[t] = 1..Len(Schema[t]) /\ Len(Schema[t]) \in Nat /\ <<>> \in Seq(Stored)
    BY <1>1
  <2> QED BY <2>1
<1>3. NewMessage(t, owner) = [type |-> t, root |-> owner, vals |-> v]
  BY DEF NewMessage
<1> HIDE DEF v
<1> QED BY <1>2, <1>3 DEF Message

\* A message is allocated behind messages that grew in place.
LEMMA MsgsAppend ==
  ASSUME TypeOK, NEW ms \in Seq(Message), Len(ms) = Len(msgs),
         \A m \in DOMAIN msgs :
           /\ ms[m].type = msgs[m].type /\ ms[m].root = msgs[m].root
           /\ Len(ms[m].vals) = Len(msgs[m].vals) /\ DOMAIN ms[m].vals = DOMAIN msgs[m].vals
           /\ \A n \in DOMAIN msgs[m].vals : msgs[m].vals[n] # <<>> => ms[m].vals[n] # <<>>,
         NEW t \in Types, NEW owner \in 1..Len(msgs) + 1,
         msgs' = Append(ms, NewMessage(t, owner))
  PROVE  MsgsGrow /\ Len(msgs) + 1 \in DOMAIN msgs'
<1> DEFINE own == NewMessage(t, owner)
<1>1. /\ msgs \in Seq(Message) /\ Len(msgs) \in Nat /\ DOMAIN msgs = 1..Len(msgs)
      /\ \A m \in DOMAIN msgs : Len(msgs[m].vals) = Len(Schema[msgs[m].type]) /\ msgs[m].root \in 1..m
  BY DEF TypeOK
<1>2. own \in Message /\ own.type = t /\ own.root = owner /\ Len(own.vals) = Len(Schema[t])
  BY <1>1, NewMessageFacts
<1> HIDE DEF own
<1>3. /\ msgs' \in Seq(Message) /\ Len(msgs') = Len(msgs) + 1 /\ DOMAIN msgs' = 1..Len(msgs) + 1
      /\ msgs'[Len(msgs) + 1] = own /\ \A m \in 1..Len(msgs) : msgs'[m] = ms[m]
  BY <1>1, <1>2, Push DEF own
<1>4. ASSUME NEW m \in DOMAIN msgs'
      PROVE  Len(msgs'[m].vals) = Len(Schema[msgs'[m].type]) /\ msgs'[m].root \in 1..m
  <2>1. CASE m = Len(msgs) + 1
    BY <1>2, <1>3, <2>1
  <2>2. CASE m # Len(msgs) + 1
    <3>1. m \in DOMAIN msgs
      BY <1>1, <1>3, <2>2
    <3> QED BY <1>1, <1>3, <3>1
  <2> QED BY <2>1, <2>2
<1>5. ASSUME NEW m \in DOMAIN msgs
      PROVE  /\ m \in DOMAIN msgs' /\ msgs'[m].type = msgs[m].type /\ msgs'[m].root = msgs[m].root
             /\ DOMAIN msgs'[m].vals = DOMAIN msgs[m].vals
             /\ \A n \in DOMAIN msgs[m].vals : msgs[m].vals[n] # <<>> => msgs'[m].vals[n] # <<>>
  BY <1>1, <1>3
<1> QED BY <1>1, <1>3, <1>4, <1>5 DEF MsgsGrow

LEMMA NewFrameFacts ==
  ASSUME NEW m \in DOMAIN msgs', NEW o \in Objs, NEW isRoot \in BOOLEAN
  PROVE  LET fr == NewFrame(m, o, isRoot)
         IN /\ fr \in Frame' /\ fr.msg = m /\ fr.root = isRoot /\ fr.i = 1
            /\ fr.arr = None /\ fr.wait = "none"
BY DEF NewFrame, Frame, Waits

\* A frame is pushed on frames that stay where they are in their messages.
LEMMA Pushed ==
  ASSUME IInv, MsgsGrow, NEW base \in Seq(Frame), Len(base) = Len(stack),
         \A k \in DOMAIN stack :
           /\ base[k].msg = stack[k].msg /\ base[k].root = stack[k].root
           /\ base[k].i = stack[k].i /\ base[k].arr = stack[k].arr
           /\ base[k].wait \in {stack[k].wait, "none"},
         stack # <<>> => Top.i <= FieldCount(Top),
         NEW fr \in Frame', fr.i = 1, fr.arr = None, fr.wait = "none",
         ~fr.root => stack # <<>> /\ Field(Top).kind = "message",
         stack' = Append(base, fr)
  PROVE  stack' \in Seq(Frame)' /\ FramesFit' /\ CallersFit' /\ NoneSkipped'
<1> DEFINE L == Len(stack)
<1>1. TypeOK /\ L \in Nat /\ DOMAIN stack = 1..L /\ stack \in Seq(Frame)
      /\ (stack # <<>> => L \in Nat \ {0} /\ Top = stack[L])
  BY TopFacts DEF IInv, TypeOK
<1>2. /\ \A g \in Frame : g \in Frame' /\ g.msg \in DOMAIN msgs
      /\ \A m \in DOMAIN msgs :
           /\ m \in DOMAIN msgs' /\ Mandatory(m)' = Mandatory(m)
           /\ Schema[msgs'[m].type] = Schema[msgs[m].type]
  BY <1>1, Carried
<1>3. base \in Seq(Frame')
  BY <1>2
<1>4. /\ stack' \in Seq(Frame') /\ Len(stack') = L + 1 /\ DOMAIN stack' = 1..L + 1
      /\ stack'[L + 1] = fr /\ \A k \in 1..L : stack'[k] = base[k]
  BY <1>1, <1>3, Push
<1> HIDE DEF L
<1>5. \A k \in DOMAIN stack' : k = L + 1 \/ k \in 1..L
  BY <1>1, <1>4
<1>6. \A k \in 1..L : /\ stack'[k].msg = stack[k].msg /\ stack'[k].root = stack[k].root
                      /\ stack'[k].i = stack[k].i /\ stack'[k].arr = stack[k].arr
                      /\ stack'[k].wait \in {stack[k].wait, "none"}
                      /\ stack[k].msg \in DOMAIN msgs
                      /\ Schema[msgs'[stack[k].msg].type] = Schema[msgs[stack[k].msg].type]
  BY <1>1, <1>2, <1>4, SMTT(30)
<1>7. \A k \in 1..L : stack[k].i <= FieldCount(stack[k])
  <2>1. ASSUME NEW k \in 1..L  PROVE stack[k].i <= FieldCount(stack[k])
    <3>1. FrameFits(k)
      BY <1>1 DEF IInv, FramesFit
    <3>2. k < Len(stack) \/ k = Len(stack)
      BY <1>1 DEF L
    <3>3. stack # <<>>
      BY <1>1
    <3> QED BY <1>1, <3>1, <3>2, <3>3 DEF FrameFits, L
  <2> QED BY <2>1
<1>8. FramesFit'
  <2>1. ASSUME NEW k \in 1..L  PROVE FrameFits(k)'
    <3>1. FrameFits(k) /\ stack[k].i <= FieldCount(stack[k])
      BY <1>1, <1>7 DEF IInv, FramesFit
    <3>2. /\ InLoop(stack[k]) => Field(stack[k]).label = "repeated"
          /\ stack[k].wait = "element" => InLoop(stack[k])
          /\ stack[k].wait = "enum" => Field(stack[k]).kind = "enum"
      BY <3>1 DEF FrameFits
    <3> QED BY <1>6, <3>1, <3>2, ZenonT(40) DEF FrameFits, InLoop, FieldCount, Field
  <2>2. ASSUME NEW k \in {L + 1}  PROVE FrameFits(k)'
    BY <1>4 DEF FrameFits, InLoop
  <2> QED BY <1>5, <2>1, <2>2 DEF FramesFit
<1>9. CallersFit'
  <2>1. ASSUME NEW k \in DOMAIN stack', ~stack'[k].root
        PROVE  k > 1 /\ Schema[msgs'[stack'[k - 1].msg].type][stack'[k - 1].i].kind = "message"
    <3>1. CASE k \in 1..L
      <4>1. k > 1 /\ Field(stack[k - 1]).kind = "message"
        BY <1>1, <1>6, <2>1, <3>1 DEF IInv, CallersFit
      <4>2. k - 1 \in 1..L
        BY <1>1, <3>1, <4>1
      <4> QED BY <1>6, <4>1, <4>2 DEF Field
    <3>2. CASE k = L + 1
      <4>1. stack # <<>> /\ Field(Top).kind = "message" /\ Top = stack[L] /\ L \in Nat \ {0}
        BY <1>1, <1>4, <2>1, <3>2
      <4>2. k - 1 = L /\ L \in 1..L /\ k > 1
        BY <3>2, <4>1
      <4> QED BY <1>6, <4>1, <4>2, SMTT(30) DEF Field
    <3> QED BY <1>5, <3>1, <3>2
  <2> QED BY <2>1 DEF CallersFit, Field
<1>10. NoneSkipped'
  <2>1. ASSUME NEW k \in 1..L  PROVE NothingSkipped(k)'
    <3>1. NothingSkipped(k)
      BY <1>1 DEF IInv, NoneSkipped
    <3>2. ASSUME NEW m \in DOMAIN msgs, m = stack[k].msg, NEW n \in Mandatory(m)', n < stack[k].i
          PROVE  msgs'[m].vals[n] # <<>>
      <4>1. n \in Mandatory(m) /\ n \in DOMAIN msgs[m].vals
        BY <1>2, <3>2 DEF Mandatory, Required
      <4>2. msgs[m].vals[n] # <<>>
        BY <3>1, <3>2, <4>1 DEF NothingSkipped
      <4> QED BY <4>1, <4>2 DEF MsgsGrow
    <3> QED BY <1>6, <3>2 DEF NothingSkipped
  <2>2. ASSUME NEW k \in {L + 1}  PROVE NothingSkipped(k)'
    <3>1. fr.msg \in DOMAIN msgs' /\ msgs' \in Seq(Message)
      BY DEF Frame, MsgsGrow
    <3>2. ASSUME NEW n \in Mandatory(fr.msg)', n < fr.i  PROVE FALSE
      <4>1. n \in DOMAIN msgs'[fr.msg].vals /\ msgs'[fr.msg] \in Message
        BY <3>1, <3>2 DEF Mandatory, Required
      <4>2. n \in Nat \ {0}
        BY <4>1 DEF Message
      <4> QED BY <3>2, <4>2
    <3> QED BY <1>4, <3>2 DEF NothingSkipped
  <2> QED BY <1>5, <2>1, <2>2 DEF NoneSkipped
<1> QED BY <1>4, <1>8, <1>9, <1>10

LEMMA SerializeStep ==
  ASSUME IInv, NEW o \in Callable, NEW t \in Types, Serialize(o, t)
  PROVE  IInv'
<1> DEFINE new == Len(msgs) + 1
           fr == NewFrame(new, o, TRUE)
<1>1. /\ TypeOK /\ msgs \in Seq(Message) /\ stack \in Seq(Frame) /\ live \subseteq DOMAIN msgs
      /\ new \in 1..Len(msgs) + 1 /\ Len(msgs) \in Nat /\ o \in Objs
  BY InputAssumption DEF IInv, TypeOK
<1>2. /\ msgs' = Append(msgs, NewMessage(t, new)) /\ live' = live \cup {new}
      /\ stack' = Append(stack, fr) /\ UNCHANGED <<heap, results, aborted>>
      /\ stack # <<>> => Top.wait # "none"
  BY DEF Serialize, InScript
<1>3. MsgsGrow /\ new \in DOMAIN msgs'
  BY <1>1, <1>2, MsgsAppend
<1>4. fr \in Frame' /\ fr.root = TRUE /\ fr.i = 1 /\ fr.arr = None /\ fr.wait = "none"
  BY <1>1, <1>3, NewFrameFacts
<1> HIDE DEF fr
<1>5. stack # <<>> => Top.i <= FieldCount(Top)
  BY <1>2, TopFrame DEF TopFits
<1>6. stack' \in Seq(Frame)' /\ FramesFit' /\ CallersFit' /\ NoneSkipped'
  BY <1>1, <1>2, <1>3, <1>4, <1>5, Pushed
<1>7. TypeOK'
  <2>1. live' \subseteq DOMAIN msgs'
    BY <1>1, <1>2, <1>3 DEF MsgsGrow
  <2> QED BY <1>1, <1>2, <1>3, <1>6, <2>1 DEF TypeOK, MsgsGrow
<1> QED BY <1>2, <1>3, <1>6, <1>7, ResultsKept DEF IInv

LEMMA CallStep ==
  ASSUME IInv, stack # <<>>, Top.i <= FieldCount(Top), Field(Top).kind = "message",
         NEW v \in Value, SetMessage(v), IsObject(v), Len(stack) < MaxStack
  PROVE  IInv'
<1> DEFINE child == Len(msgs) + 1
           owner == msgs[Top.msg].root
           sub == Field(Top).sub
           fr == NewFrame(child, v.ref, FALSE)
           wt == [Top EXCEPT !.wait = "none"]
           base == With(wt)
<1>1. /\ TypeOK /\ msgs \in Seq(Message) /\ stack \in Seq(Frame) /\ live \subseteq DOMAIN msgs
      /\ child \in 1..Len(msgs) + 1 /\ Len(msgs) \in Nat /\ Top \in Frame
      /\ Top.msg \in DOMAIN msgs /\ Top = stack[Len(stack)]
      /\ Len(stack) \in Nat \ {0} /\ DOMAIN stack = 1..Len(stack)
  BY TopFacts DEF IInv, TypeOK
<1>2. Len(stack) \in Nat /\ MaxStack \in Nat /\ ~(Len(stack) >= MaxStack)
  BY <1>1, BoundAssumption
<1>3. /\ msgs' = Append(Put(<<child>>), NewMessage(sub, owner)) /\ live' = live \cup {child}
      /\ stack' = Append(base, fr) /\ UNCHANGED <<heap, results, aborted>>
  BY <1>2 DEF SetMessage
<1>4. owner \in 1..Len(msgs) + 1 /\ sub \in Types
  <2>1. owner \in 1..Top.msg
    BY <1>1 DEF TypeOK
  <2>2. Field(Top) \in FieldDescriptor
    BY <1>1, FieldFacts
  <2> QED BY <1>1, <2>1, <2>2 DEF FieldDescriptor
<1>5. <<child>> \in Stored
  BY <1>1 DEF Stored
<1>6. MsgsGrow /\ child \in DOMAIN msgs'
  <2> DEFINE ms == Put(<<child>>)
  <2>1. /\ ms \in Seq(Message) /\ Len(ms) = Len(msgs)
        /\ \A m \in DOMAIN msgs :
             /\ ms[m].type = msgs[m].type /\ ms[m].root = msgs[m].root
             /\ Len(ms[m].vals) = Len(msgs[m].vals) /\ DOMAIN ms[m].vals = DOMAIN msgs[m].vals
             /\ \A n \in DOMAIN msgs[m].vals : msgs[m].vals[n] # <<>> => ms[m].vals[n] # <<>>
    BY <1>1, <1>5, PutFacts
  <2>2. msgs' = Append(ms, NewMessage(sub, owner))
    BY <1>3
  <2> HIDE DEF ms, sub, owner
  <2> QED BY <1>1, <1>4, <2>1, <2>2, MsgsAppend
<1>7. v.ref \in Objs
  BY DEF Value, Primitive, Reference, IsObject
<1>8. fr \in Frame' /\ fr.root = FALSE /\ fr.i = 1 /\ fr.arr = None /\ fr.wait = "none"
  BY <1>6, <1>7, NewFrameFacts
<1>9. /\ wt \in Frame /\ wt.msg = Top.msg /\ wt.root = Top.root /\ wt.i = Top.i
      /\ wt.arr = Top.arr /\ wt.wait = "none"
  BY <1>1 DEF Frame, Waits
<1> HIDE DEF fr, wt
<1>10. /\ base \in Seq(Frame) /\ Len(base) = Len(stack) /\ base[Len(stack)] = wt
       /\ \A k \in 1..Len(stack) - 1 : base[k] = stack[k]
  BY <1>1, <1>9, ReplaceTop DEF With
<1> HIDE DEF base
<1>11. ASSUME NEW k \in DOMAIN stack
       PROVE  /\ base[k].msg = stack[k].msg /\ base[k].root = stack[k].root
              /\ base[k].i = stack[k].i /\ base[k].arr = stack[k].arr
              /\ base[k].wait \in {stack[k].wait, "none"}
  <2>1. CASE k = Len(stack)
    BY <1>1, <1>9, <1>10, <2>1
  <2>2. CASE k # Len(stack)
    BY <1>1, <1>10, <2>2
  <2> QED BY <2>1, <2>2
<1>12. stack' \in Seq(Frame)' /\ FramesFit' /\ CallersFit' /\ NoneSkipped'
  BY <1>3, <1>6, <1>8, <1>10, <1>11, Pushed
<1>13. TypeOK'
  <2>1. live' \subseteq DOMAIN msgs'
    BY <1>1, <1>3, <1>6 DEF MsgsGrow
  <2> QED BY <1>1, <1>3, <1>6, <1>12, <2>1 DEF TypeOK, MsgsGrow
<1> QED BY <1>3, <1>6, <1>12, <1>13, ResultsKept DEF IInv

\* A return to the frame below, or to NativeProtobuf::Serialize.  A buffer is
\* answered only with no field left.
LEMMA ReturnStep ==
  ASSUME IInv, stack # <<>>, NEW ret \in {"buffer", "null"}, NEW exc \in BOOLEAN,
         ret = "buffer" => Top.i > FieldCount(Top),
         Return(ret, exc)
  PROVE  IInv'
<1> DEFINE done == Throwing(Top, exc)
           rest == Front(stack)
           j == Len(stack) - 1
<1>1. /\ TypeOK /\ stack \in Seq(Frame) /\ Top \in Frame /\ Top = stack[Len(stack)]
      /\ Len(stack) \in Nat \ {0} /\ DOMAIN stack = 1..Len(stack)
      /\ Top.msg \in DOMAIN msgs /\ msgs \in Seq(Message) /\ live \subseteq DOMAIN msgs
  BY TopFacts DEF IInv, TypeOK
<1>2. /\ rest \in Seq(Frame) /\ Len(rest) = j /\ DOMAIN rest = 1..j
      /\ \A k \in 1..j : rest[k] = stack[k]
  BY <1>1, FrontOfStack
<1>3. done \in Frame /\ done.msg = Top.msg /\ done.root = Top.root /\ done.exc \in BOOLEAN
  BY <1>1, FrameUpdates DEF Frame
<1>4. UNCHANGED <<heap, msgs, aborted>> /\ MsgsGrow
  BY <1>1, MsgsSame DEF Return
<1>5. CASE Top.root
  <2> DEFINE x == [msg |-> done.msg, ret |-> ret, exc |-> done.exc]
  <2>1. /\ stack' = rest /\ results' = Append(results, x) /\ live' = Release(done.msg, ret)
    BY <1>3, <1>5 DEF Return
  <2>2. live' \subseteq DOMAIN msgs
    BY <1>1, <2>1 DEF Release
  <2>3. /\ x \in [msg : Nat, ret : {"buffer", "null", "undefined"}, exc : BOOLEAN]
        /\ x.msg = Top.msg /\ x.ret = ret
    BY <1>1, <1>3
  <2> HIDE DEF x
  <2>4. x.ret = "buffer" => Absent(x.msg) \cap Mandatory(x.msg) = {}
    <3>1. \A n \in Mandatory(Top.msg) : n < Top.i => msgs[Top.msg].vals[n] # <<>>
      BY <1>1 DEF IInv, NoneSkipped, NothingSkipped
    <3>2. ASSUME ret = "buffer", NEW n \in Mandatory(Top.msg)  PROVE n < Top.i
      BY <1>1, <3>2, TopFacts, MessageFacts DEF Mandatory, Required
    <3> QED BY <2>3, <3>1, <3>2 DEF Absent
  <2>5. /\ results' \in Seq([msg : Nat, ret : {"buffer", "null", "undefined"}, exc : BOOLEAN])
        /\ ResultsExist' /\ BufferIsComplete'
    BY <1>1, <1>4, <2>1, <2>3, <2>4, ResultAdded
  <2>6. stack' \in Seq(Frame)' /\ FramesFit' /\ CallersFit' /\ NoneSkipped'
    <3>1. CASE j = 0
      <4>1. rest = <<>>
        <5>1. Len(rest) = 0 /\ rest \in Seq(Frame)
          BY <1>2, <3>1
        <5> HIDE DEF rest
        <5> QED BY <5>1
      <4> QED BY <2>1, <4>1 DEF FramesFit, CallersFit, NoneSkipped
    <3>2. CASE j # 0
      <4>1. j \in DOMAIN stack /\ j < Len(stack) /\ stack[j] \in Frame
        BY <1>1, <3>2
      <4>2. TopFits(stack[j]) /\ NothingSkipped(j)
        BY <1>1, <4>1 DEF IInv, FramesFit, FrameFits, NoneSkipped, TopFits
      <4>3. \A n \in Mandatory(stack[j].msg) : n < stack[j].i => msgs'[stack[j].msg].vals[n] # <<>>
        BY <1>4, <4>2 DEF NothingSkipped
      <4>4. stack' \in Seq(Frame) /\ Len(stack') = j /\ DOMAIN stack' = 1..j /\ stack'[j] = stack[j]
            /\ \A k \in 1..j - 1 : stack'[k] = stack[k]
        BY <1>2, <2>1, <4>1
      <4> HIDE DEF j, done, rest
      <4> QED BY <1>4, <4>1, <4>2, <4>3, <4>4, Retopped
    <3> QED BY <3>1, <3>2
  <2>7. TypeOK'
    BY <1>1, <1>4, <2>2, <2>5, <2>6 DEF TypeOK
  <2> QED BY <2>5, <2>6, <2>7 DEF IInv
<1>6. CASE ~Top.root
  <2> DEFINE fr == Throwing(Advance(stack[j]), done.exc)
  <2>1. j \in DOMAIN stack /\ j < Len(stack) /\ Field(stack[j]).kind = "message"
        /\ stack[j] \in Frame /\ stack[j].msg \in DOMAIN msgs
    <3>1. Len(stack) > 1 /\ Field(stack[Len(stack) - 1]).kind = "message"
      BY <1>1, <1>6 DEF IInv, CallersFit
    <3>2. j \in DOMAIN stack /\ j < Len(stack)
      BY <1>1, <3>1
    <3>3. stack[j] \in Frame
      BY <1>1, <3>2
    <3>4. stack[j].msg \in DOMAIN msgs
      BY <3>3 DEF Frame
    <3> QED BY <3>1, <3>2, <3>3, <3>4
  <2>2. stack[j].i <= FieldCount(stack[j])
    BY <2>1 DEF IInv, FramesFit, FrameFits
  <2>3. stack[j].i \notin Mandatory(stack[j].msg)
    BY <2>1 DEF Mandatory, Field, Settable
  <2>4. rest # <<>> /\ Last(rest) = stack[j]
    BY <1>2, <2>1, LastOfStack
  <2>5. stack' = [rest EXCEPT ![j] = fr] /\ UNCHANGED <<results, live>>
    BY <1>2, <1>3, <1>6, <2>4 DEF Return
  <2>6. /\ fr \in Frame /\ fr.msg = stack[j].msg /\ fr.root = stack[j].root /\ TopFits(fr)
        /\ \A n \in Mandatory(stack[j].msg) : n < fr.i => msgs'[stack[j].msg].vals[n] # <<>>
    BY <1>3, <1>4, <2>1, <2>2, <2>3, Advanced
  <2> HIDE DEF fr
  <2>7. stack' \in Seq(Frame) /\ Len(stack') = j /\ DOMAIN stack' = 1..j /\ stack'[j] = fr
        /\ \A k \in 1..j - 1 : stack'[k] = stack[k]
    BY <1>2, <2>1, <2>5, <2>6
  <2> HIDE DEF j, done, rest
  <2>8. stack' \in Seq(Frame)' /\ FramesFit' /\ CallersFit' /\ NoneSkipped'
    BY <1>4, <2>1, <2>6, <2>7, Retopped
  <2>9. TypeOK'
    BY <1>1, <1>4, <2>5, <2>8 DEF TypeOK
  <2> QED BY <1>4, <2>5, <2>8, <2>9, ResultsKept DEF IInv
<1> QED BY <1>5, <1>6

----------------------------------------------------------------------------
(* SerializeField.                                                         *)

Payload == Data \cup {Odd, Junk} \cup Nat

LEMMA ValueFacts ==
  ASSUME NEW v \in Value
  PROVE  /\ IsObject(v) => v.ref \in Objs
         /\ v.tag \in {"number", "string"} => v.ref \in Data \cup {Odd}
BY DEF Value, Primitive, Reference, IsObject

\* Conversions yield payloads.
LEMMA Converted ==
  ASSUME NEW v
  PROVE  Numeric(v) \in Payload /\ <<Numeric(v)>> \in Stored /\ <<Truth(v)>> \in Stored
<1>1. Numeric(v) \in Payload
  BY DEF Numeric, Payload
<1>2. Truth(v) \in Payload
  BY DEF Truth, Payload
<1> QED BY <1>1, <1>2 DEF Stored, Payload

LEMMA TextStored == ASSUME NEW v \in Value PROVE <<Text(v)>> \in Stored
<1>1. Text(v) \in Payload
  BY ValueFacts, PayloadAssumption DEF Text, Payload
<1> QED BY <1>1 DEF Stored, Payload

LEMMA BytesStored == ASSUME TypeOK, NEW o \in Objs PROVE Bytes(o) \in Stored
<1>1. heap[o].elems \in Seq(Slot)
  BY DEF TypeOK, Heap, Contents
<1>2. Bytes(o) = [k \in 1..Len(heap[o].elems) |-> Numeric(heap[o].elems[k])]
      /\ Len(heap[o].elems) \in Nat
  BY <1>1 DEF Bytes
<1>3. \A k \in 1..Len(heap[o].elems) : Numeric(heap[o].elems[k]) \in Payload
  BY Converted
<1> HIDE DEF Payload
<1>4. Bytes(o) \in Seq(Payload)
  BY <1>2, <1>3
<1> QED BY <1>4 DEF Stored, Payload

\* A field of these kinds may be left without a value.
LEMMA NotMandatory ==
  ASSUME Field(Top).label # "required" \/ Field(Top).kind \in {"enum", "message"}
  PROVE  Top.i \notin Mandatory(Top.msg)
BY DEF Mandatory, Required, Field, Settable

LEMMA NumberStep ==
  ASSUME IInv, stack # <<>>, Top.i <= FieldCount(Top), NEW v \in Value, SetNumber(v)
  PROVE  IInv'
<1>1. CASE IsObject(v)
  BY <1>1, AwaitStep DEF SetNumber, Waits
<1>2. CASE ~IsObject(v)
  BY <1>2, StoreStep, Converted DEF SetNumber
<1> QED BY <1>1, <1>2

LEMMA Int64Step ==
  ASSUME IInv, stack # <<>>, Top.i <= FieldCount(Top), NEW v \in Value, SetInt64(v)
  PROVE  IInv'
<1>1. CASE PreserveInt64 /\ v.tag = "array"
  <2> DEFINE hi == Numeric(Element(v.ref, 1))
             lo == Numeric(Element(v.ref, 2))
  <2>1. Store(<<hi, lo>>, FALSE)
    BY <1>1 DEF SetInt64
  <2>2. hi \in Payload /\ lo \in Payload
    BY Converted
  <2> HIDE DEF hi, lo
  <2>3. <<hi, lo>> \in Stored
    BY <2>2 DEF Stored, Payload
  <2> QED BY <2>1, <2>3, StoreStep
<1>2. CASE PreserveInt64 /\ v.tag = "string"
  <2>1. CASE v.ref \in Data
    <3>1. Store(<<v.ref>>, FALSE)
      BY <1>2, <2>1 DEF SetInt64
    <3>2. v.ref \in Payload
      BY <2>1 DEF Payload
    <3>3. <<v.ref>> \in Stored
      BY <3>2 DEF Stored, Payload
    <3> QED BY <3>1, <3>3, StoreStep
  <2>2. CASE v.ref \notin Data
    BY <1>2, <2>2, AbortStep DEF SetInt64
  <2> QED BY <2>1, <2>2
<1>3. CASE ~(PreserveInt64 /\ v.tag = "array") /\ ~(PreserveInt64 /\ v.tag = "string")
  BY <1>3, NumberStep DEF SetInt64
<1> QED BY <1>1, <1>2, <1>3

LEMMA EnumStep ==
  ASSUME IInv, stack # <<>>, Top.i <= FieldCount(Top), Field(Top).kind = "enum",
         NEW v \in Value, SetEnum(v)
  PROVE  IInv'
<1>1. CASE IsObject(v)
  <2>1. Await("enum")
    <3>1. ~Declared(v)
      BY <1>1 DEF IsObject, Declared
    <3> QED BY <1>1, <3>1 DEF SetEnum
  <2> QED BY <2>1, AwaitStep DEF Waits
<1>2. CASE ~IsObject(v) /\ Declared(v)
  <2>1. Store(<<v.ref>>, FALSE)
    BY <1>2 DEF SetEnum
  <2>2. v.ref \in Payload
    BY <1>2 DEF Declared, Payload
  <2>3. <<v.ref>> \in Stored
    BY <2>2 DEF Stored, Payload
  <2> QED BY <2>1, <2>3, StoreStep
<1>3. CASE ~IsObject(v) /\ ~Declared(v)
  BY <1>3, SkipStep, NotMandatory DEF SetEnum
<1> QED BY <1>1, <1>2, <1>3

LEMMA MessageStep ==
  ASSUME IInv, stack # <<>>, Top.i <= FieldCount(Top), Field(Top).kind = "message",
         NEW v \in Value, SetMessage(v)
  PROVE  IInv'
<1>1. CASE ~IsObject(v)
  BY <1>1, SkipStep, NotMandatory DEF SetMessage
<1>2. CASE IsObject(v) /\ Len(stack) >= MaxStack
  BY <1>2, AbortStep DEF SetMessage
<1>3. CASE IsObject(v) /\ ~(Len(stack) >= MaxStack)
  <2>1. Len(stack) < MaxStack
    BY <1>3, TopFacts, BoundAssumption DEF IInv
  <2> QED BY <1>3, <2>1, CallStep
<1> QED BY <1>1, <1>2, <1>3

LEMMA StringStep ==
  ASSUME IInv, stack # <<>>, Top.i <= FieldCount(Top), NEW v \in Value, SetString(v)
  PROVE  IInv'
<1>1. CASE v.tag = "typed"
  <2>1. Store(Bytes(v.ref), FALSE) /\ v.ref \in Objs
    BY <1>1, ValueFacts DEF SetString, IsObject
  <2> QED BY <2>1, StoreStep, BytesStored DEF IInv
<1>2. CASE v.tag \in {"array", "object"}
  BY <1>2, AwaitStep DEF SetString, Waits
<1>3. CASE v.tag \notin {"typed", "array", "object"}
  BY <1>3, StoreStep, TextStored DEF SetString
<1> QED BY <1>1, <1>2, <1>3

LEMMA SerializeFieldStep ==
  ASSUME IInv, stack # <<>>, Top.i <= FieldCount(Top), NEW v \in Value, SerializeField(v)
  PROVE  IInv'
<1>1. CASE SetNumber(v)
  BY <1>1, NumberStep
<1>2. CASE SetBool(v)
  BY <1>2, StoreStep, Converted DEF SetBool
<1>3. CASE SetInt64(v)
  BY <1>3, Int64Step
<1>4. CASE Field(Top).kind = "enum" /\ SetEnum(v)
  BY <1>4, EnumStep
<1>5. CASE Field(Top).kind = "message" /\ SetMessage(v)
  BY <1>5, MessageStep
<1>6. CASE SetString(v)
  BY <1>6, StringStep
<1> QED BY <1>1, <1>2, <1>3, <1>4, <1>5, <1>6 DEF SerializeField

----------------------------------------------------------------------------
(* SerializePart, and the answers of JavaScript.                           *)

LEMMA OnFieldStep ==
  ASSUME IInv, stack # <<>>, Top.i <= FieldCount(Top), NEW v \in Value, OnField(v)
  PROVE  IInv'
<1> DEFINE f == Field(Top)
<1>1. CASE Nullish(v) /\ f.label = "required"
  <2>1. Return("null", FALSE)
    BY <1>1 DEF OnField
  <2> QED BY <2>1, ReturnStep
<1>2. CASE Nullish(v) /\ f.label # "required"
  BY <1>2, SkipStep, NotMandatory DEF OnField
<1>3. CASE ~Nullish(v) /\ f.label = "repeated"
  <2>1. CASE IsList(v)
    BY <1>3, <2>1, EnterLoopStep DEF OnField
  <2>2. CASE ~IsList(v)
    BY <1>3, <2>2, SkipStep, NotMandatory DEF OnField
  <2> QED BY <2>1, <2>2
<1>4. CASE ~Nullish(v) /\ f.label # "repeated"
  BY <1>4, SerializeFieldStep DEF OnField
<1> QED BY <1>1, <1>2, <1>3, <1>4

LEMMA ReadFieldStep == ASSUME IInv, ReadField PROVE IInv'
<1> DEFINE slot == heap[Top.obj].props[Field(Top).name]
<1>1. stack # <<>> /\ Top.i <= FieldCount(Top)
  BY DEF ReadField, InNative
<1>2. slot \in Slot
  <2>1. TypeOK /\ Top \in Frame
    BY <1>1, TopFacts DEF IInv
  <2>2. Top.obj \in Objs /\ Field(Top).name \in Names
    BY <1>1, <2>1, FieldFacts DEF Frame, FieldDescriptor
  <2>3. heap[Top.obj] \in Contents
    BY <2>1, <2>2 DEF TypeOK, Heap
  <2> QED BY <2>2, <2>3 DEF Contents
<1>3. CASE slot.tag = "accessor"
  <2>1. Await("get")
    BY <1>3 DEF ReadField
  <2> QED BY <1>1, <2>1, AwaitStep DEF Waits
<1>4. CASE slot.tag # "accessor"
  <2>1. OnField(slot)
    BY <1>4 DEF ReadField
  <2>2. slot \in Value
    BY <1>2, <1>4 DEF Slot
  <2> QED BY <1>1, <2>1, <2>2, OnFieldStep
<1> QED BY <1>3, <1>4

LEMMA ReadElementStep == ASSUME IInv, ReadElement PROVE IInv'
<1> DEFINE slot == Element(Top.arr, Top.j + 1)
<1>1. stack # <<>> /\ InLoop(Top)
  BY DEF ReadElement, InNative
<1>2. TypeOK /\ Top \in Frame /\ Top.i <= FieldCount(Top) /\ Top.arr \in Objs
  BY <1>1, TopFrame, TopFacts DEF TopFits, InLoop, Frame
<1>3. slot \in Slot
  <2>1. heap[Top.arr].elems \in Seq(Slot)
    BY <1>2 DEF TypeOK, Heap, Contents
  <2>2. Undefined \in Slot
    BY DEF Undefined, Slot, Value
  <2> QED BY <2>1, <2>2 DEF Element
<1>4. CASE slot.tag = "accessor"
  <2>1. Await("element")
    BY <1>4 DEF ReadElement
  <2> QED BY <1>1, <1>2, <2>1, AwaitStep DEF Waits
<1>5. CASE slot.tag # "accessor"
  <2>1. SerializeField(slot)
    BY <1>5 DEF ReadElement
  <2>2. slot \in Value
    BY <1>3, <1>5 DEF Slot
  <2> QED BY <1>1, <1>2, <2>1, <2>2, SerializeFieldStep
<1> QED BY <1>4, <1>5

LEMMA EndPartStep == ASSUME IInv, EndPart PROVE IInv'
<1>1. stack # <<>> /\ Top.i > FieldCount(Top) /\ Return("buffer", FALSE)
  BY DEF EndPart, InNative
<1> QED BY <1>1, ReturnStep

LEMMA ScriptReturnsStep == ASSUME IInv, NEW v \in Value, ScriptReturns(v) PROVE IInv'
<1>1. stack # <<>> /\ Top.wait # "none" /\ TypeOK
  BY DEF ScriptReturns, InScript, IInv
<1>2. /\ Top.i <= FieldCount(Top)
      /\ Top.wait = "enum" => Field(Top).kind = "enum"
  BY <1>1, TopFrame DEF TopFits
<1>3. CASE OnField(v)
  BY <1>1, <1>2, <1>3, OnFieldStep
<1>4. CASE SerializeField(v)
  BY <1>1, <1>2, <1>4, SerializeFieldStep
<1>5. CASE Store(<<Numeric(v)>>, FALSE)
  BY <1>1, <1>2, <1>5, StoreStep, Converted
<1>6. CASE Top.wait = "enum" /\ SetEnum(IF v.tag = "string" THEN v ELSE Undefined)
  <2>1. Undefined \in Value
    BY DEF Undefined, Value
  <2> QED BY <1>1, <1>2, <1>6, <2>1, EnumStep
<1>7. CASE v.tag = "typed" /\ Store(Bytes(v.ref), FALSE)
  <2>1. v.ref \in Objs
    BY <1>7, ValueFacts DEF IsObject
  <2> QED BY <1>1, <1>2, <1>7, <2>1, StoreStep, BytesStored
<1>8. CASE Await("toString")
  BY <1>1, <1>2, <1>8, AwaitStep DEF Waits
<1>9. CASE Store(<<Text(v)>>, FALSE)
  BY <1>1, <1>2, <1>9, StoreStep, TextStored
<1> QED BY <1>3, <1>4, <1>5, <1>6, <1>7, <1>8, <1>9 DEF ScriptReturns

LEMMA ScriptThrowsStep == ASSUME IInv, ScriptThrows PROVE IInv'
<1>1. stack # <<>> /\ Top.wait # "none" /\ TypeOK
  BY DEF ScriptThrows, InScript, IInv
<1>2. /\ Top.i <= FieldCount(Top)
      /\ Top.wait = "element" => InLoop(Top)
  BY <1>1, TopFrame DEF TopFits
<1>3. CASE Return("null", TRUE)
  BY <1>1, <1>3, ReturnStep
<1>4. CASE Abort
  BY <1>4, AbortStep
<1>5. CASE Top.wait = "element" /\ Skip(TRUE)
  BY <1>1, <1>2, <1>5, SkipStep
<1>6. CASE Store(<<Junk>>, TRUE)
  <2>1. <<Junk>> \in Stored
    BY DEF Stored
  <2> QED BY <1>1, <1>2, <1>6, <2>1, StoreStep
<1> QED BY <1>3, <1>4, <1>5, <1>6 DEF ScriptThrows

----------------------------------------------------------------------------
(* The theorems.                                                           *)

LEMMA InitIInv == Init => IInv
<1> SUFFICES ASSUME Init PROVE IInv
  OBVIOUS
<1>1. heap \in Heap /\ msgs = <<>> /\ live = {} /\ stack = <<>> /\ results = <<>> /\ aborted = FALSE
  BY InputAssumption DEF Init
<1>2. TypeOK
  <2>1. msgs \in Seq(Message) /\ DOMAIN msgs = {}
    BY <1>1
  <2>2. stack \in Seq(Frame)
    BY <1>1
  <2>3. results \in Seq([msg : Nat, ret : {"buffer", "null", "undefined"}, exc : BOOLEAN])
    BY <1>1
  <2> QED BY <1>1, <2>1, <2>2, <2>3 DEF TypeOK
<1> QED BY <1>1, <1>2 DEF Init, IInv, FramesFit, CallersFit, NoneSkipped, ResultsExist, BufferIsComplete

LEMMA NextIInv == IInv /\ [Next]_vars => IInv'
<1> SUFFICES ASSUME IInv, [Next]_vars PROVE IInv'
  OBVIOUS
<1>1. CASE ReadField
  BY <1>1, ReadFieldStep
<1>2. CASE ReadElement
  BY <1>2, ReadElementStep
<1>3. CASE EndLoop
  BY <1>3, EndLoopStep
<1>4. CASE EndPart
  BY <1>4, EndPartStep
<1>5. ASSUME NEW o \in Callable, NEW t \in Types, Serialize(o, t)  PROVE IInv'
  BY <1>5, SerializeStep
<1>6. CASE SerializeUnknown
  BY <1>6, SerializeUnknownStep
<1>7. ASSUME NEW u \in Updates, Mutate(u)  PROVE IInv'
  BY <1>7, MutateStep
<1>8. ASSUME NEW v \in Answers, ScriptReturns(v)  PROVE IInv'
  BY <1>8, ScriptReturnsStep, InputAssumption
<1>9. CASE ScriptThrows
  BY <1>9, ScriptThrowsStep
<1>10. CASE UNCHANGED vars
  <2>1. UNCHANGED <<heap, msgs, live, stack, results, aborted>>
    BY <1>10 DEF vars
  <2>2. TypeOK'
    BY <2>1 DEF IInv, TypeOK, Frame
  <2> QED BY <2>1, <2>2, MsgsSame, ResultsKept, Unrelated DEF IInv
<1> QED BY <1>1, <1>2, <1>3, <1>4, <1>5, <1>6, <1>7, <1>8, <1>9, <1>10 DEF Next

\* The inductive invariant holds in every behaviour of serialize().
THEOREM Invariance == Spec => []IInv
BY InitIInv, NextIInv, PTL DEF Spec

\* Whatever JavaScript does in the middle of a walk, every frame of
\* SerializePart points at a message that exists and at a field it has, or is
\* past the last.
THEOREM TypeCorrect == Spec => []TypeOK
<1>1. IInv => TypeOK
  BY DEF IInv
<1> QED BY <1>1, Invariance, PTL

\* A buffer is never answered for a message without one of the required fields
\* that every value but null and undefined sets.
THEOREM Complete == Spec => []BufferIsComplete
<1>1. IInv => BufferIsComplete
  BY DEF IInv
<1> QED BY <1>1, Invariance, PTL

----------------------------------------------------------------------------
(* What a step may write to.                                               *)

InnermostOnly ==
  \A m \in DOMAIN msgs : msgs'[m] # msgs[m] => stack # <<>> /\ m = Top.msg

LEMMA StoreWrites ==
  ASSUME NEW e, NEW exc, stack # <<>>, Store(e, exc)
  PROVE  InnermostOnly
BY DEF Store, Put, InnermostOnly

LEMMA NothingWritten == ASSUME msgs' = msgs PROVE InnermostOnly
BY DEF InnermostOnly

\* A new message comes behind the others.
LEMMA AllocationWrites ==
  ASSUME NEW ms \in Seq(Message), Len(ms) = Len(msgs), TypeOK, NEW t \in Types, NEW owner \in Nat,
         msgs' = Append(ms, NewMessage(t, owner)), NEW m \in DOMAIN msgs
  PROVE  msgs'[m] = ms[m]
<1>1. msgs \in Seq(Message) /\ NewMessage(t, owner) \in Message
  BY NewMessageFacts DEF TypeOK
<1> QED BY <1>1

LEMMA SerializeFieldWrites ==
  ASSUME IInv, stack # <<>>, Top.i <= FieldCount(Top), NEW v, SerializeField(v)
  PROVE  InnermostOnly
<1>1. ASSUME SetNumber(v)  PROVE InnermostOnly
  BY <1>1, StoreWrites, NothingWritten DEF SetNumber, Await
<1>2. CASE SetBool(v)
  BY <1>2, StoreWrites DEF SetBool
<1>3. CASE SetInt64(v)
  <2>1. CASE PreserveInt64 /\ v.tag = "array"
    BY <1>3, <2>1, StoreWrites DEF SetInt64
  <2>2. CASE PreserveInt64 /\ v.tag = "string"
    BY <1>3, <2>2, StoreWrites, NothingWritten DEF SetInt64, Abort
  <2>3. CASE ~(PreserveInt64 /\ v.tag = "array") /\ ~(PreserveInt64 /\ v.tag = "string")
    BY <1>1, <1>3, <2>3 DEF SetInt64
  <2> QED BY <2>1, <2>2, <2>3
<1>4. CASE SetEnum(v)
  <2>1. Await("enum") \/ Store(<<v.ref>>, FALSE) \/ Skip(FALSE)
    BY <1>4 DEF SetEnum, IsObject, Declared
  <2> QED BY <2>1, StoreWrites, NothingWritten DEF Await, Skip
<1>5. CASE SetMessage(v)
  <2>1. CASE ~IsObject(v)
    BY <1>5, <2>1, NothingWritten DEF SetMessage, Skip
  <2>2. CASE IsObject(v) /\ Len(stack) >= MaxStack
    BY <1>5, <2>2, NothingWritten DEF SetMessage, Abort
  <2>3. CASE IsObject(v) /\ ~(Len(stack) >= MaxStack)
    <3> DEFINE new == <<Len(msgs) + 1>>
               ms == Put(new)
               owner == msgs[Top.msg].root
               sub == Field(Top).sub
    <3>1. TypeOK /\ new \in Stored /\ Top \in Frame /\ Top.msg \in DOMAIN msgs
      <4>1. TypeOK /\ msgs \in Seq(Message)
        BY DEF IInv, TypeOK
      <4> QED BY <4>1, TopFacts DEF Stored
    <3>2. msgs' = Append(ms, NewMessage(sub, owner))
      BY <1>5, <2>3 DEF SetMessage
    <3>3. owner \in Nat /\ sub \in Types
      BY <3>1, FieldFacts, MessageFacts DEF FieldDescriptor
    <3>4. ms \in Seq(Message) /\ Len(ms) = Len(msgs) /\ \A m \in DOMAIN msgs : m # Top.msg => ms[m] = msgs[m]
      BY <3>1, PutFacts
    <3> HIDE DEF ms, owner, sub
    <3>5. \A m \in DOMAIN msgs : msgs'[m] = ms[m]
      BY <3>1, <3>2, <3>3, <3>4, AllocationWrites
    <3> QED BY <3>4, <3>5 DEF InnermostOnly
  <2> QED BY <2>1, <2>2, <2>3
<1>6. CASE SetString(v)
  <2>1. Store(Bytes(v.ref), FALSE) \/ Await("toProtobuf") \/ Store(<<Text(v)>>, FALSE)
    BY <1>6 DEF SetString
  <2> QED BY <2>1, StoreWrites, NothingWritten DEF Await
<1> QED BY <1>1, <1>2, <1>3, <1>4, <1>5, <1>6 DEF SerializeField

LEMMA OnFieldWrites ==
  ASSUME IInv, stack # <<>>, Top.i <= FieldCount(Top), NEW v, OnField(v)
  PROVE  InnermostOnly
<1>1. Return("null", FALSE) \/ Skip(FALSE) \/ EnterLoop(v) \/ SerializeField(v)
  BY DEF OnField
<1> QED BY <1>1, NothingWritten, SerializeFieldWrites DEF Return, Skip, EnterLoop

LEMMA NextWrites == IInv /\ [Next]_vars => InnermostOnly
<1> SUFFICES ASSUME IInv, [Next]_vars PROVE InnermostOnly
  OBVIOUS
<1>1. CASE ReadField
  <2>1. stack # <<>> /\ Top.i <= FieldCount(Top)
    BY <1>1 DEF ReadField, InNative
  <2>2. Await("get") \/ OnField(heap[Top.obj].props[Field(Top).name])
    BY <1>1 DEF ReadField
  <2> QED BY <2>1, <2>2, NothingWritten, OnFieldWrites DEF Await
<1>2. CASE ReadElement
  <2>1. stack # <<>> /\ Top.i <= FieldCount(Top)
    BY <1>2, TopFrame DEF ReadElement, InNative, TopFits
  <2>2. Await("element") \/ SerializeField(Element(Top.arr, Top.j + 1))
    BY <1>2 DEF ReadElement
  <2> QED BY <2>1, <2>2, NothingWritten, SerializeFieldWrites DEF Await
<1>3. CASE EndLoop \/ EndPart \/ SerializeUnknown \/ UNCHANGED vars
  BY <1>3, NothingWritten DEF EndLoop, EndPart, Return, SerializeUnknown, vars
<1>4. ASSUME NEW o \in Callable, NEW t \in Types, Serialize(o, t)  PROVE InnermostOnly
  <2>1. TypeOK /\ msgs \in Seq(Message) /\ Len(msgs) + 1 \in Nat
    BY DEF IInv, TypeOK
  <2>2. msgs' = Append(msgs, NewMessage(t, Len(msgs) + 1))
    BY <1>4 DEF Serialize
  <2> QED BY <2>1, <2>2, AllocationWrites DEF InnermostOnly
<1>5. ASSUME NEW u \in Updates, Mutate(u)  PROVE InnermostOnly
  BY <1>5, NothingWritten DEF Mutate
<1>6. ASSUME NEW v \in Answers, ScriptReturns(v)  PROVE InnermostOnly
  <2>1. stack # <<>> /\ Top.i <= FieldCount(Top)
    BY <1>6, TopFrame DEF ScriptReturns, InScript, TopFits
  <2>2. CASE OnField(v) \/ SerializeField(v)
    BY <2>1, <2>2, OnFieldWrites, SerializeFieldWrites
  <2>3. CASE \E e : Store(e, FALSE)
    BY <2>1, <2>3, StoreWrites
  <2>4. CASE Top.wait = "enum" /\ SetEnum(IF v.tag = "string" THEN v ELSE Undefined)
    <3>1. Field(Top).kind = "enum"
      BY <2>1, <2>4, TopFrame DEF TopFits
    <3>2. SerializeField(IF v.tag = "string" THEN v ELSE Undefined)
      BY <2>4, <3>1 DEF SerializeField
    <3> QED BY <2>1, <3>2, SerializeFieldWrites
  <2>5. CASE Await("toString")
    BY <2>5, NothingWritten DEF Await
  <2>6. OnField(v) \/ SerializeField(v) \/ (\E e : Store(e, FALSE)) \/ Await("toString")
        \/ (Top.wait = "enum" /\ SetEnum(IF v.tag = "string" THEN v ELSE Undefined))
    BY <1>6 DEF ScriptReturns
  <2> QED BY <2>2, <2>3, <2>4, <2>5, <2>6
<1>7. CASE ScriptThrows
  <2>1. stack # <<>>
    BY <1>7 DEF ScriptThrows
  <2>2. Return("null", TRUE) \/ Abort \/ Skip(TRUE) \/ Store(<<Junk>>, TRUE)
    BY <1>7 DEF ScriptThrows
  <2> QED BY <2>1, <2>2, NothingWritten, StoreWrites DEF Return, Abort, Skip
<1> QED BY <1>1, <1>2, <1>3, <1>4, <1>5, <1>6, <1>7 DEF Next

\* A step writes to no message but that of the innermost activation, however
\* the calls that JavaScript makes in the middle of others are nested.
THEOREM Isolation == Spec => WritesInnermostOnly
<1>1. IInv /\ [Next]_vars =>
        [\A m \in DOMAIN msgs : msgs'[m] # msgs[m] => stack # <<>> /\ m = Top.msg]_vars
  BY NextWrites DEF InnermostOnly
<1> QED BY <1>1, Invariance, PTL DEF Spec, WritesInnermostOnly

----------------------------------------------------------------------------
(* What a step is, whatever value and whatever code of the program's led to it. *)

AtField == stack # <<>> /\ Top.i <= FieldCount(Top)

Quiet   == UNCHANGED <<msgs, live, stack, results>>
Fills   == AtField /\ \E e \in Stored, exc \in BOOLEAN : Store(e, exc)
Passes  ==
  /\ AtField
  /\ \E exc \in BOOLEAN : Skip(exc) /\ (InLoop(Top) /\ Field(Top).kind \in Settable => exc)
Asks    == AtField /\ \E what \in Waits : Await(what) /\ (what = "get" => ~InLoop(Top))
Opens   == AtField /\ ~InLoop(Top) /\ \E v \in Value : IsList(v) /\ EnterLoop(v)
Returns ==
  /\ stack # <<>>
  /\ \E ret \in {"buffer", "null"}, exc \in BOOLEAN :
       /\ Return(ret, exc)
       /\ ret = "null" => Top.i <= FieldCount(Top) /\ Field(Top).label = "required"
Calls   ==
  /\ AtField /\ Field(Top).kind = "message"
  /\ \E v \in Value : IsObject(v) /\ ~(Len(stack) >= MaxStack) /\ SetMessage(v)
Begins  == \E o \in Callable, t \in Types : Serialize(o, t)

Shape ==
  \/ Quiet \/ Fills \/ Passes \/ Asks \/ Opens \/ EndLoop \/ Returns \/ Calls \/ Begins
  \/ SerializeUnknown

LEMMA NumberShape == ASSUME AtField, NEW v \in Value, SetNumber(v) PROVE Shape
<1>1. CASE IsObject(v)
  BY <1>1 DEF SetNumber, Shape, Asks, Waits
<1>2. CASE ~IsObject(v)
  BY <1>2, Converted DEF SetNumber, Shape, Fills
<1> QED BY <1>1, <1>2

LEMMA EnumShape ==
  ASSUME AtField, Field(Top).kind = "enum", NEW v \in Value, SetEnum(v)
  PROVE  Shape
<1>1. Await("enum") \/ (Declared(v) /\ Store(<<v.ref>>, FALSE)) \/ Skip(FALSE)
  BY DEF SetEnum, IsObject, Declared
<1>2. CASE Await("enum")
  BY <1>2 DEF Shape, Asks, Waits
<1>3. CASE Declared(v) /\ Store(<<v.ref>>, FALSE)
  <2>1. <<v.ref>> \in Stored
    BY <1>3 DEF Declared, Stored
  <2> QED BY <1>3, <2>1 DEF Shape, Fills
<1>4. CASE Skip(FALSE)
  BY <1>4 DEF Shape, Passes, Settable
<1> QED BY <1>1, <1>2, <1>3, <1>4

LEMMA SerializeFieldShape ==
  ASSUME IInv, AtField, NEW v \in Value, SerializeField(v)
  PROVE  Shape
<1>1. CASE SetNumber(v)
  BY <1>1, NumberShape
<1>2. CASE SetBool(v)
  BY <1>2, Converted DEF SetBool, Shape, Fills
<1>3. CASE SetInt64(v)
  <2>1. CASE PreserveInt64 /\ v.tag = "array"
    <3> DEFINE hi == Numeric(Element(v.ref, 1))
               lo == Numeric(Element(v.ref, 2))
    <3>1. Store(<<hi, lo>>, FALSE)
      BY <1>3, <2>1 DEF SetInt64
    <3>2. hi \in Payload /\ lo \in Payload
      BY Converted
    <3> HIDE DEF hi, lo
    <3>3. <<hi, lo>> \in Stored
      BY <3>2 DEF Stored, Payload
    <3> QED BY <3>1, <3>3 DEF Shape, Fills
  <2>2. CASE PreserveInt64 /\ v.tag = "string"
    <3>1. CASE v.ref \in Data
      <4>1. <<v.ref>> \in Stored
        BY <3>1 DEF Stored
      <4> QED BY <1>3, <2>2, <3>1, <4>1 DEF SetInt64, Shape, Fills
    <3>2. CASE v.ref \notin Data
      BY <1>3, <2>2, <3>2 DEF SetInt64, Abort, Shape, Quiet
    <3> QED BY <3>1, <3>2
  <2>3. CASE ~(PreserveInt64 /\ v.tag = "array") /\ ~(PreserveInt64 /\ v.tag = "string")
    BY <1>3, <2>3, NumberShape DEF SetInt64
  <2> QED BY <2>1, <2>2, <2>3
<1>4. CASE Field(Top).kind = "enum" /\ SetEnum(v)
  BY <1>4, EnumShape
<1>5. CASE Field(Top).kind = "message" /\ SetMessage(v)
  <2>1. CASE ~IsObject(v)
    <3>1. Skip(FALSE)
      BY <1>5, <2>1 DEF SetMessage
    <3> QED BY <1>5, <3>1 DEF Shape, Passes, Settable
  <2>2. CASE IsObject(v) /\ Len(stack) >= MaxStack
    BY <1>5, <2>2 DEF SetMessage, Abort, Shape, Quiet
  <2>3. CASE IsObject(v) /\ ~(Len(stack) >= MaxStack)
    BY <1>5, <2>3 DEF Shape, Calls
  <2> QED BY <2>1, <2>2, <2>3
<1>6. CASE SetString(v)
  <2>1. CASE v.tag = "typed"
    <3>1. Store(Bytes(v.ref), FALSE) /\ Bytes(v.ref) \in Stored
      BY <1>6, <2>1, ValueFacts, BytesStored DEF SetString, IsObject, IInv
    <3> QED BY <3>1 DEF Shape, Fills
  <2>2. CASE v.tag \in {"array", "object"}
    BY <1>6, <2>2 DEF SetString, Shape, Asks, Waits
  <2>3. CASE v.tag \notin {"typed", "array", "object"}
    BY <1>6, <2>3, TextStored DEF SetString, Shape, Fills
  <2> QED BY <2>1, <2>2, <2>3
<1> QED BY <1>1, <1>2, <1>3, <1>4, <1>5, <1>6 DEF SerializeField

LEMMA OnFieldShape ==
  ASSUME IInv, AtField, ~InLoop(Top), NEW v \in Value, OnField(v)
  PROVE  Shape
<1> DEFINE f == Field(Top)
<1>1. CASE Nullish(v) /\ f.label = "required"
  <2>1. Return("null", FALSE)
    BY <1>1 DEF OnField
  <2> QED BY <1>1, <2>1 DEF Shape, Returns, AtField
<1>2. CASE (Nullish(v) /\ f.label # "required") \/ (~Nullish(v) /\ f.label = "repeated" /\ ~IsList(v))
  <2>1. Skip(FALSE)
    BY <1>2 DEF OnField
  <2> QED BY <2>1 DEF Shape, Passes
<1>3. CASE ~Nullish(v) /\ f.label = "repeated" /\ IsList(v)
  BY <1>3 DEF OnField, Shape, Opens
<1>4. CASE ~Nullish(v) /\ f.label # "repeated"
  BY <1>4, SerializeFieldShape DEF OnField
<1> QED BY <1>1, <1>2, <1>3, <1>4

----------------------------------------------------------------------------
(* The second inductive invariant: whose the messages are, and how far they *)
(* are filled.                                                             *)

\* Frame k has called SerializePart for a nested message.
Calling(k) == k < Len(stack) /\ ~stack[k + 1].root

\* Two activations fill different messages, and none one that was answered.
OwnMessages == \A j, k \in DOMAIN stack : stack[j].msg = stack[k].msg => j = k
Finished ==
  \A r \in DOMAIN results : results[r].ret # "undefined" =>
    \A k \in DOMAIN stack : stack[k].msg # results[r].msg

\* The call that a message was allocated in is still there while it is filled.
RootRuns(k) == \E j \in 1..k : stack[j].root /\ stack[j].msg = msgs[stack[k].msg].root
RootsRun == \A k \in DOMAIN stack : RootRuns(k)

\* Fields the walk has not come to are empty.
EmptyAhead(k) ==
  LET fr == stack[k]
  IN \A n \in DOMAIN msgs[fr.msg].vals :
       n > fr.i \/ (n = fr.i /\ ~InLoop(fr) /\ ~Calling(k)) => msgs[fr.msg].vals[n] = <<>>
NoneAhead == \A k \in DOMAIN stack : EmptyAhead(k)

\* The list of a repeated field has no more elements than the loop has passed,
\* and all of them if each one sets something.  A getter in a loop is one of
\* an element.
Counted(k) ==
  LET fr == stack[k]
      n  == Len(msgs[fr.msg].vals[fr.i])
  IN InLoop(fr) =>
       /\ fr.wait # "get"
       /\ n <= fr.j + (IF Calling(k) THEN 1 ELSE 0)
       /\ ~fr.exc /\ Field(fr).kind \in Settable => n = fr.j
AllCounted == \A k \in DOMAIN stack : Counted(k)

Accounts ==
  /\ OwnMessages /\ Finished /\ RootsRun /\ NoneAhead /\ AllCounted
  /\ Ledger /\ NullMeansMissing

LEMMA NextShape == ASSUME IInv, AllCounted, [Next]_vars PROVE Shape
<1>1. CASE ReadField
  <2> DEFINE slot == heap[Top.obj].props[Field(Top).name]
  <2>1. AtField /\ ~InLoop(Top)
    BY <1>1 DEF ReadField, InNative, AtField
  <2>2. slot \in Slot
    <3>1. TypeOK /\ Top \in Frame
      BY <2>1, TopFacts DEF IInv, AtField
    <3>2. Top.obj \in Objs /\ Field(Top).name \in Names
      BY <2>1, <3>1, FieldFacts DEF Frame, FieldDescriptor, AtField
    <3>3. heap[Top.obj] \in Contents
      BY <3>1, <3>2 DEF TypeOK, Heap
    <3> QED BY <3>2, <3>3 DEF Contents
  <2>3. CASE slot.tag = "accessor"
    BY <1>1, <2>1, <2>3 DEF ReadField, Shape, Asks, Waits
  <2>4. CASE slot.tag # "accessor"
    BY <1>1, <2>1, <2>2, <2>4, OnFieldShape DEF ReadField, Slot
  <2> QED BY <2>3, <2>4
<1>2. CASE ReadElement
  <2> DEFINE slot == Element(Top.arr, Top.j + 1)
  <2>1. stack # <<>> /\ InLoop(Top)
    BY <1>2 DEF ReadElement, InNative
  <2>2. AtField /\ TypeOK /\ Top.arr \in Objs
    BY <2>1, TopFrame, TopFacts DEF TopFits, InLoop, Frame, AtField
  <2>3. slot \in Slot
    <3>1. heap[Top.arr].elems \in Seq(Slot)
      BY <2>2 DEF TypeOK, Heap, Contents
    <3>2. Undefined \in Slot
      BY DEF Undefined, Slot, Value
    <3> QED BY <3>1, <3>2 DEF Element
  <2>4. CASE slot.tag = "accessor"
    BY <1>2, <2>2, <2>4 DEF ReadElement, Shape, Asks, Waits
  <2>5. CASE slot.tag # "accessor"
    BY <1>2, <2>2, <2>3, <2>5, SerializeFieldShape DEF ReadElement, Slot
  <2> QED BY <2>4, <2>5
<1>3. CASE EndLoop \/ SerializeUnknown
  BY <1>3 DEF Shape
<1>4. CASE EndPart
  BY <1>4 DEF EndPart, InNative, Shape, Returns
<1>5. ASSUME NEW o \in Callable, NEW t \in Types, Serialize(o, t)  PROVE Shape
  BY <1>5 DEF Shape, Begins
<1>6. ASSUME NEW u \in Updates, Mutate(u)  PROVE Shape
  BY <1>6 DEF Mutate, Shape, Quiet
<1>7. ASSUME NEW v \in Answers, ScriptReturns(v)  PROVE Shape
  <2>1. AtField /\ TypeOK /\ v \in Value
    BY <1>7, TopFrame, InputAssumption DEF ScriptReturns, InScript, TopFits, AtField
  <2>2. Top.wait = "get" => ~InLoop(Top)
    BY <2>1, TopFrame, TopFacts DEF AllCounted, Counted, AtField
  <2>3. CASE Top.wait = "get" /\ OnField(v)
    BY <2>1, <2>2, <2>3, OnFieldShape
  <2>4. CASE SerializeField(v)
    BY <2>1, <2>4, SerializeFieldShape
  <2>5. CASE Store(<<Numeric(v)>>, FALSE)
    BY <2>1, <2>5, Converted DEF Shape, Fills
  <2>6. CASE Top.wait = "enum" /\ SetEnum(IF v.tag = "string" THEN v ELSE Undefined)
    <3>1. Field(Top).kind = "enum" /\ Undefined \in Value
      BY <2>1, <2>6, TopFrame DEF TopFits, AtField, Undefined, Value
    <3> QED BY <2>1, <2>6, <3>1, EnumShape
  <2>7. CASE v.tag = "typed" /\ Store(Bytes(v.ref), FALSE)
    <3>1. Bytes(v.ref) \in Stored
      BY <2>1, <2>7, ValueFacts, BytesStored DEF IsObject
    <3> QED BY <2>1, <2>7, <3>1 DEF Shape, Fills
  <2>8. CASE Await("toString")
    BY <2>1, <2>8 DEF Shape, Asks, Waits
  <2>9. CASE Store(<<Text(v)>>, FALSE)
    BY <2>1, <2>9, TextStored DEF Shape, Fills
  <2> QED BY <1>7, <2>3, <2>4, <2>5, <2>6, <2>7, <2>8, <2>9 DEF ScriptReturns
<1>8. CASE ScriptThrows
  <2>1. AtField
    BY <1>8, TopFrame DEF ScriptThrows, InScript, TopFits, AtField
  <2>2. CASE Field(Top).label = "required" /\ Return("null", TRUE)
    BY <2>1, <2>2 DEF Shape, Returns, AtField
  <2>3. CASE Abort
    BY <2>3 DEF Abort, Shape, Quiet
  <2>4. CASE Skip(TRUE)
    BY <2>1, <2>4 DEF Shape, Passes
  <2>5. CASE Store(<<Junk>>, TRUE)
    <3>1. <<Junk>> \in Stored
      BY DEF Stored
    <3> QED BY <2>1, <2>5, <3>1 DEF Shape, Fills
  <2> QED BY <1>8, <2>2, <2>3, <2>4, <2>5 DEF ScriptThrows
<1>9. CASE UNCHANGED vars
  BY <1>9 DEF vars, Shape, Quiet
<1> QED BY <1>1, <1>2, <1>3, <1>4, <1>5, <1>6, <1>7, <1>8, <1>9 DEF Next

----------------------------------------------------------------------------
(* Every shape of step keeps the accounts.                                 *)

LEMMA StackFacts ==
  ASSUME IInv
  PROVE  /\ TypeOK /\ stack \in Seq(Frame) /\ Len(stack) \in Nat /\ DOMAIN stack = 1..Len(stack)
         /\ \A k \in DOMAIN stack : stack[k] \in Frame /\ stack[k].msg \in DOMAIN msgs
         /\ msgs \in Seq(Message) /\ Len(msgs) \in Nat /\ DOMAIN msgs = 1..Len(msgs)
         /\ results \in Seq([msg : Nat, ret : {"buffer", "null", "undefined"}, exc : BOOLEAN])
<1>1. TypeOK /\ stack \in Seq(Frame) /\ msgs \in Seq(Message)
  BY DEF IInv, TypeOK
<1>2. \A k \in DOMAIN stack : stack[k] \in Frame
  BY <1>1
<1>3. \A k \in DOMAIN stack : stack[k].msg \in DOMAIN msgs
  BY <1>2 DEF Frame
<1> QED BY <1>1, <1>2, <1>3 DEF TypeOK

LEMMA WithFacts ==
  ASSUME IInv, stack # <<>>, NEW fr \in Frame, stack' = With(fr)
  PROVE  /\ stack' \in Seq(Frame) /\ Len(stack') = Len(stack) /\ DOMAIN stack' = 1..Len(stack)
         /\ stack'[Len(stack)] = fr /\ \A k \in 1..Len(stack) - 1 : stack'[k] = stack[k]
<1>1. stack \in Seq(Frame) /\ stack' = [stack EXCEPT ![Len(stack)] = fr]
  BY StackFacts DEF With
<1> QED BY <1>1, ReplaceTop

\* Messages keep type and root, and those that are not being filled keep all.
Alike(filled) ==
  \A m \in DOMAIN msgs :
    /\ m \in DOMAIN msgs' /\ msgs'[m].type = msgs[m].type /\ msgs'[m].root = msgs[m].root
    /\ DOMAIN msgs'[m].vals = DOMAIN msgs[m].vals
    /\ m # filled => msgs'[m] = msgs[m]

\* A frame that stays as it was, with a message that stays as it was.
LEMMA FrameKept ==
  ASSUME NEW k \in DOMAIN stack, EmptyAhead(k), Counted(k), stack'[k] = stack[k],
         msgs'[stack[k].msg] = msgs[stack[k].msg], Calling(k)' <=> Calling(k)
  PROVE  EmptyAhead(k)' /\ Counted(k)'
<1>1. EmptyAhead(k)'
  BY DEF EmptyAhead, InLoop
<1>2. Counted(k)'
  BY DEF Counted, InLoop, Field
<1> QED BY <1>1, <1>2

\* A null that was answered keeps its reason.
LEMMA NullsKept ==
  ASSUME IInv, Accounts, NEW filled, Alike(filled), results' = results,
         \A r \in DOMAIN results : results[r].ret = "null" => results[r].msg # filled
  PROVE  NullMeansMissing'
<1>1. ASSUME NEW r \in DOMAIN results, results[r].ret = "null"  PROVE Absent(results[r].msg)' # {}
  <2>1. results[r].msg \in DOMAIN msgs /\ Absent(results[r].msg) # {}
    BY <1>1 DEF IInv, ResultsExist, Accounts, NullMeansMissing
  <2>2. msgs'[results[r].msg] = msgs[results[r].msg]
    BY <1>1, <2>1 DEF Alike
  <2> QED BY <2>1, <2>2 DEF Absent, Required
<1> QED BY <1>1 DEF NullMeansMissing

\* The top frame is replaced, with its list and the fields ahead of it in order.
LEMMA TopAccounts ==
  ASSUME IInv, Accounts, stack # <<>>, NEW fr \in Frame, stack' = With(fr),
         fr.msg = Top.msg, fr.root = Top.root, live' = live, results' = results,
         DOMAIN msgs' = DOMAIN msgs, Alike(Top.msg),
         \A n \in DOMAIN msgs[Top.msg].vals :
           n > fr.i \/ (n = fr.i /\ ~InLoop(fr)) => msgs'[Top.msg].vals[n] = <<>>,
         InLoop(fr) =>
           /\ fr.wait # "get" /\ Len(msgs'[Top.msg].vals[fr.i]) <= fr.j
           /\ ~fr.exc /\ Field(fr).kind \in Settable => Len(msgs'[Top.msg].vals[fr.i]) = fr.j
  PROVE  Accounts'
<1> DEFINE L == Len(stack)
<1>1. /\ TypeOK /\ stack \in Seq(Frame) /\ L \in Nat \ {0} /\ DOMAIN stack = 1..L /\ Top = stack[L]
      /\ \A k \in DOMAIN stack : stack[k] \in Frame /\ stack[k].msg \in DOMAIN msgs
  BY StackFacts, TopFacts
<1>2. /\ Len(stack') = L /\ DOMAIN stack' = 1..L /\ stack'[L] = fr
      /\ \A k \in 1..L - 1 : stack'[k] = stack[k]
  BY <1>1, WithFacts
<1>3. \A k \in 1..L : stack'[k].msg = stack[k].msg /\ stack'[k].root = stack[k].root
  BY <1>1, <1>2
<1>4. \A k \in 1..L - 1 : Calling(k)' <=> Calling(k)
  <2>1. ASSUME NEW k \in 1..L - 1  PROVE Calling(k)' <=> Calling(k)
    <3>1. k + 1 \in 1..L
      BY <1>1
    <3> QED BY <1>2, <1>3, <3>1 DEF Calling
  <2> QED BY <2>1
<1>5. ~Calling(L)'
  BY <1>1, <1>2 DEF Calling
<1> HIDE DEF L
<1>6. OwnMessages'
  BY <1>1, <1>2, <1>3 DEF Accounts, OwnMessages
<1>7. Finished'
  BY <1>1, <1>2, <1>3 DEF Accounts, Finished
<1>8. RootsRun'
  <2>1. ASSUME NEW k \in 1..L  PROVE RootRuns(k)'
    <3>1. RootRuns(k) /\ stack[k].msg \in DOMAIN msgs
      BY <1>1 DEF Accounts, RootsRun
    <3>2. PICK j \in 1..k : stack[j].root /\ stack[j].msg = msgs[stack[k].msg].root
      BY <3>1 DEF RootRuns
    <3>3. j \in 1..L
      BY <1>1, <3>2
    <3>4. stack'[j].root /\ stack'[j].msg = msgs'[stack'[k].msg].root
      BY <1>3, <3>1, <3>2, <3>3 DEF Alike
    <3> QED BY <3>4 DEF RootRuns
  <2> QED BY <1>2, <2>1 DEF RootsRun
<1>9. ASSUME NEW k \in 1..L  PROVE EmptyAhead(k)' /\ Counted(k)'
  <2>1. CASE k = L
    <3>1. Alike(Top.msg) /\ stack'[k] = fr /\ Top.msg \in DOMAIN msgs
      BY <1>1, <1>2, <2>1
    <3>2. EmptyAhead(k)'
      BY <1>5, <2>1, <3>1 DEF EmptyAhead, InLoop, Alike
    <3>3. Schema[msgs'[fr.msg].type] = Schema[msgs[fr.msg].type] /\ fr.j \in Nat
      BY <3>1 DEF Alike, Frame
    <3>4. Counted(k)'
      BY <1>5, <2>1, <3>1, <3>3 DEF Counted, InLoop, Field
    <3> QED BY <3>2, <3>4
  <2>2. CASE k # L
    <3>1. k \in 1..L - 1 /\ k \in DOMAIN stack
      BY <1>1, <2>2
    <3>2. stack[k].msg # Top.msg
      BY <1>1, <2>2, <3>1 DEF Accounts, OwnMessages
    <3>3. msgs'[stack[k].msg] = msgs[stack[k].msg]
      BY <1>1, <3>1, <3>2 DEF Alike
    <3>4. EmptyAhead(k) /\ Counted(k)
      BY <3>1 DEF Accounts, NoneAhead, AllCounted
    <3> QED BY <1>2, <1>4, <3>1, <3>3, <3>4, FrameKept
  <2> QED BY <2>1, <2>2
<1>10. NoneAhead' /\ AllCounted'
  BY <1>2, <1>9 DEF NoneAhead, AllCounted
<1>11. Ledger'
  <2>1. \A m \in DOMAIN msgs : msgs'[m].root = msgs[m].root
    BY DEF Alike
  <2>2. live = {m \in DOMAIN msgs :
            \/ \E k \in DOMAIN stack : stack[k].root /\ stack[k].msg = msgs[m].root
            \/ \E r \in DOMAIN results : results[r].ret = "null" /\ results[r].msg = msgs[m].root}
    BY DEF Accounts, Ledger
  <2>3. ASSUME NEW m \in DOMAIN msgs
        PROVE  (\E k \in DOMAIN stack : stack[k].root /\ stack[k].msg = msgs[m].root)
               <=> (\E k \in DOMAIN stack' : stack'[k].root /\ stack'[k].msg = msgs'[m].root)
    BY <1>1, <1>2, <1>3, <2>1
  <2> QED BY <2>1, <2>2, <2>3 DEF Ledger
<1>12. NullMeansMissing'
  <2>1. \A r \in DOMAIN results : results[r].ret = "null" => results[r].msg # Top.msg
    BY <1>1 DEF Accounts, Finished
  <2> QED BY <2>1, NullsKept
<1> QED BY <1>6, <1>7, <1>8, <1>10, <1>11, <1>12 DEF Accounts

LEMMA QuietAccounts == ASSUME IInv, Accounts, Quiet PROVE Accounts'
<1>1. UNCHANGED <<msgs, live, stack, results>>
  BY DEF Quiet
<1>2. OwnMessages' /\ Finished' /\ Ledger'
  BY <1>1 DEF Accounts, OwnMessages, Finished, Ledger
<1>3. RootsRun'
  BY <1>1 DEF Accounts, RootsRun, RootRuns
<1>4. \A k \in DOMAIN stack : EmptyAhead(k)' /\ Counted(k)'
  BY <1>1, FrameKept DEF Accounts, NoneAhead, AllCounted, Calling
<1>5. NoneAhead' /\ AllCounted'
  BY <1>1, <1>4 DEF NoneAhead, AllCounted
<1>6. NullMeansMissing'
  BY <1>1 DEF Accounts, NullMeansMissing, Absent, Required
<1> QED BY <1>2, <1>3, <1>5, <1>6 DEF Accounts

LEMMA TopState ==
  ASSUME IInv, Accounts, stack # <<>>
  PROVE  /\ TypeOK /\ Top \in Frame /\ Top.msg \in DOMAIN msgs /\ Top.i \in Nat \ {0} /\ Top.j \in Nat
         /\ \A n \in DOMAIN msgs[Top.msg].vals :
              n > Top.i \/ (n = Top.i /\ ~InLoop(Top)) => msgs[Top.msg].vals[n] = <<>>
         /\ InLoop(Top) =>
              /\ Top.wait # "get" /\ Len(msgs[Top.msg].vals[Top.i]) <= Top.j
              /\ ~Top.exc /\ Field(Top).kind \in Settable => Len(msgs[Top.msg].vals[Top.i]) = Top.j
<1>1. /\ TypeOK /\ Top \in Frame /\ Top.msg \in DOMAIN msgs /\ Top.i \in Nat \ {0}
      /\ Top = stack[Len(stack)] /\ Len(stack) \in DOMAIN stack /\ Len(stack) \in Nat
  BY TopFacts DEF IInv
<1>2. Top.j \in Nat
  BY <1>1 DEF Frame
<1>3. ~Calling(Len(stack))
  BY <1>1 DEF Calling
<1>4. EmptyAhead(Len(stack)) /\ Counted(Len(stack))
  BY <1>1 DEF Accounts, NoneAhead, AllCounted
<1>5. \A n \in DOMAIN msgs[Top.msg].vals :
         n > Top.i \/ (n = Top.i /\ ~InLoop(Top)) => msgs[Top.msg].vals[n] = <<>>
  BY <1>1, <1>3, <1>4 DEF EmptyAhead
<1>6. InLoop(Top) =>
         /\ Top.wait # "get" /\ Len(msgs[Top.msg].vals[Top.i]) <= Top.j
         /\ ~Top.exc /\ Field(Top).kind \in Settable => Len(msgs[Top.msg].vals[Top.i]) = Top.j
  BY <1>1, <1>2, <1>3, <1>4 DEF Counted
<1> QED BY <1>1, <1>2, <1>5, <1>6

LEMMA AdvanceCounts ==
  ASSUME NEW fr \in Frame, NEW exc \in BOOLEAN
  PROVE  LET g == Throwing(Advance(fr), exc)
         IN g.j = (IF InLoop(fr) THEN fr.j + 1 ELSE fr.j) /\ (~g.exc => ~fr.exc /\ ~exc)
<1> DEFINE a == Advance(fr)
<1>1. a \in Frame /\ a.j = (IF InLoop(fr) THEN fr.j + 1 ELSE fr.j) /\ a.exc = fr.exc
  <2>1. fr.i \in Nat \ {0} /\ fr.j \in Nat /\ "none" \in Waits
    BY DEF Frame, Waits
  <2>2. fr.i + 1 \in Nat \ {0} /\ fr.j + 1 \in Nat
    BY <2>1
  <2>3. CASE InLoop(fr)
    <3>1. a = [fr EXCEPT !.j = fr.j + 1, !.wait = "none"]
      BY <2>3 DEF Advance
    <3> QED BY <2>1, <2>2, <2>3, <3>1 DEF Frame
  <2>4. CASE ~InLoop(fr)
    <3>1. a = [fr EXCEPT !.i = fr.i + 1, !.wait = "none"]
      BY <2>4 DEF Advance
    <3> QED BY <2>1, <2>2, <2>4, <3>1 DEF Frame
  <2> QED BY <2>3, <2>4
<1> HIDE DEF a
<1>2. ASSUME NEW g \in Frame  PROVE Throwing(g, exc).j = g.j /\ Throwing(g, exc).exc = (g.exc \/ exc)
  BY DEF Throwing, Frame
<1>3. Throwing(a, exc).j = a.j /\ Throwing(a, exc).exc = (a.exc \/ exc)
  BY <1>1, <1>2
<1>4. ~Throwing(a, exc).exc => ~a.exc /\ ~exc
  BY <1>3
<1> QED BY <1>1, <1>3, <1>4 DEF a

\* Setting a field touches no other field, and adds one element to a list.
LEMMA PutCounts ==
  ASSUME TypeOK, AtField, NEW e \in Stored
  PROVE  /\ \A n \in DOMAIN msgs[Top.msg].vals :
              n # Top.i => Put(e)[Top.msg].vals[n] = msgs[Top.msg].vals[n]
         /\ Field(Top).label = "repeated" =>
              Len(Put(e)[Top.msg].vals[Top.i]) = Len(msgs[Top.msg].vals[Top.i]) + 1
         /\ Len(msgs[Top.msg].vals[Top.i]) \in Nat
<1> DEFINE old == msgs[Top.msg].vals[Top.i]
           new == IF Field(Top).label = "repeated" THEN Append(old, e) ELSE <<e>>
<1>1. /\ Top.msg \in DOMAIN msgs /\ msgs[Top.msg] \in Message /\ Top.i \in DOMAIN msgs[Top.msg].vals
      /\ msgs \in Seq(Message) /\ msgs[Top.msg].vals \in Seq(Seq(Stored))
  BY TopFacts, FieldFacts, MessageFacts DEF TypeOK, AtField
<1>2. old \in Seq(Stored)
  BY <1>1
<1>3. Field(Top).label = "repeated" => Len(new) = Len(old) + 1
  BY <1>2
<1>4. Put(e)[Top.msg].vals = [msgs[Top.msg].vals EXCEPT ![Top.i] = new]
  BY <1>1 DEF Put, Message
<1> HIDE DEF new
<1> QED BY <1>1, <1>2, <1>3, <1>4

LEMMA FillsAccounts == ASSUME IInv, Accounts, Fills PROVE Accounts'
<1>1. PICK e \in Stored, exc \in BOOLEAN : Store(e, exc)
  BY DEF Fills
<1> DEFINE fr == Throwing(Advance(Top), exc)
           m == Top.msg
<1>2. AtField /\ stack # <<>> /\ Top.i <= FieldCount(Top)
  BY DEF Fills, AtField
<1>3. /\ TypeOK /\ TopFits(Top) /\ Top \in Frame /\ m \in DOMAIN msgs
      /\ Top.i \in Nat \ {0} /\ Top.j \in Nat
  BY <1>2, TopState, TopFrame
<1>4. msgs' = Put(e) /\ stack' = With(fr) /\ live' = live /\ results' = results
  BY <1>1 DEF Store
<1>5. DOMAIN msgs' = DOMAIN msgs /\ Alike(m)
  BY <1>2, <1>3, <1>4, PutFacts DEF Alike
<1>6. /\ fr \in Frame /\ fr.msg = m /\ fr.root = Top.root /\ fr.arr = Top.arr /\ fr.wait = "none"
      /\ fr.i = (IF InLoop(Top) THEN Top.i ELSE Top.i + 1)
      /\ fr.j = (IF InLoop(Top) THEN Top.j + 1 ELSE Top.j) /\ (~fr.exc => ~Top.exc)
  BY <1>3, FrameUpdates, AdvanceCounts
<1> HIDE DEF fr
<1>7. ASSUME NEW n \in DOMAIN msgs[m].vals, n > fr.i \/ (n = fr.i /\ ~InLoop(fr))
      PROVE  msgs'[m].vals[n] = <<>>
  <2>1. n \in Nat
    BY <1>3, MessageFacts
  <2>2. n > Top.i
    BY <1>3, <1>6, <1>7, <2>1 DEF InLoop
  <2>3. msgs[m].vals[n] = <<>> /\ n # Top.i
    BY <1>2, <1>3, <2>1, <2>2, TopState
  <2> QED BY <1>2, <1>3, <1>4, <2>3, PutCounts
<1>8. ASSUME InLoop(fr)
      PROVE  /\ fr.wait # "get" /\ Len(msgs'[m].vals[fr.i]) <= fr.j
             /\ ~fr.exc /\ Field(fr).kind \in Settable => Len(msgs'[m].vals[fr.i]) = fr.j
  <2>1. InLoop(Top) /\ fr.i = Top.i /\ fr.j = Top.j + 1 /\ Field(fr) = Field(Top)
        /\ Field(Top).label = "repeated"
    BY <1>3, <1>6, <1>8 DEF InLoop, Field, TopFits
  <2>2. Len(msgs'[m].vals[Top.i]) = Len(msgs[m].vals[Top.i]) + 1 /\ Len(msgs[m].vals[Top.i]) \in Nat
    BY <1>2, <1>3, <1>4, <2>1, PutCounts
  <2>3. Len(msgs[m].vals[Top.i]) <= Top.j
    BY <1>2, <2>1, TopState
  <2>4. Len(msgs'[m].vals[Top.i]) <= Top.j + 1
    <3>1. Top.j \in Nat
      BY <1>3
    <3>2. \A a, b, c : b \in Nat /\ c \in Nat /\ a = b + 1 /\ b <= c => a <= c + 1
      OBVIOUS
    <3> QED BY <2>2, <2>3, <3>1, <3>2, Zenon
  <2>5. ASSUME ~fr.exc, Field(Top).kind \in Settable
        PROVE  Len(msgs'[m].vals[Top.i]) = Top.j + 1
    <3>1. Len(msgs[m].vals[Top.i]) = Top.j
      BY <1>2, <1>6, <2>1, <2>5, TopState
    <3> QED BY <2>2, <3>1
  <2> QED BY <1>6, <2>1, <2>4, <2>5
<1> QED BY <1>2, <1>4, <1>5, <1>6, <1>7, <1>8, TopAccounts

\* The same, when nothing is set.
LEMMA UnfilledAccounts ==
  ASSUME IInv, Accounts, stack # <<>>, NEW fr \in Frame, stack' = With(fr),
         fr.msg = Top.msg, fr.root = Top.root, UNCHANGED <<msgs, live, results>>,
         \A n \in DOMAIN msgs[Top.msg].vals :
           n > fr.i \/ (n = fr.i /\ ~InLoop(fr)) => msgs[Top.msg].vals[n] = <<>>,
         InLoop(fr) =>
           /\ fr.wait # "get" /\ Len(msgs[Top.msg].vals[fr.i]) <= fr.j
           /\ ~fr.exc /\ Field(fr).kind \in Settable => Len(msgs[Top.msg].vals[fr.i]) = fr.j
  PROVE  Accounts'
BY TopAccounts DEF Alike

LEMMA PassesAccounts == ASSUME IInv, Accounts, Passes PROVE Accounts'
<1>1. PICK exc \in BOOLEAN : Skip(exc) /\ (InLoop(Top) /\ Field(Top).kind \in Settable => exc)
  BY DEF Passes
<1> DEFINE fr == Throwing(Advance(Top), exc)
           m == Top.msg
<1>2. stack # <<>> /\ stack' = With(fr) /\ UNCHANGED <<msgs, live, results>>
  BY <1>1 DEF Passes, AtField, Skip
<1>3. Top \in Frame /\ m \in DOMAIN msgs /\ Top.i \in Nat \ {0} /\ Top.j \in Nat /\ TypeOK
  BY <1>2, TopState
<1>4. /\ fr \in Frame /\ fr.msg = m /\ fr.root = Top.root /\ fr.arr = Top.arr /\ fr.wait = "none"
      /\ fr.i = (IF InLoop(Top) THEN Top.i ELSE Top.i + 1)
      /\ fr.j = (IF InLoop(Top) THEN Top.j + 1 ELSE Top.j) /\ (~fr.exc => ~Top.exc /\ ~exc)
  BY <1>3, FrameUpdates, AdvanceCounts
<1> HIDE DEF fr
<1>5. ASSUME NEW n \in DOMAIN msgs[m].vals, n > fr.i \/ (n = fr.i /\ ~InLoop(fr))
      PROVE  msgs[m].vals[n] = <<>>
  <2>1. n \in Nat
    BY <1>3, MessageFacts
  <2>2. n > Top.i
    BY <1>3, <1>4, <1>5, <2>1 DEF InLoop
  <2> QED BY <1>2, <1>3, <2>1, <2>2, TopState
<1>6. ASSUME InLoop(fr)
      PROVE  /\ fr.wait # "get" /\ Len(msgs[m].vals[fr.i]) <= fr.j
             /\ ~fr.exc /\ Field(fr).kind \in Settable => Len(msgs[m].vals[fr.i]) = fr.j
  <2>1. InLoop(Top) /\ fr.i = Top.i /\ fr.j = Top.j + 1 /\ Field(fr) = Field(Top)
    BY <1>3, <1>4, <1>6 DEF InLoop, Field
  <2>2. Len(msgs[m].vals[Top.i]) <= Top.j /\ Len(msgs[m].vals[Top.i]) \in Nat
    BY <1>1, <1>2, <1>3, <2>1, TopState, PutCounts, FieldFacts, MessageFacts DEF Passes, AtField
  <2>3. Len(msgs[m].vals[Top.i]) <= Top.j + 1
    BY <1>3, <2>2
  <2> QED BY <1>1, <1>4, <2>1, <2>3
<1> QED BY <1>2, <1>4, <1>5, <1>6, UnfilledAccounts

LEMMA AsksAccounts == ASSUME IInv, Accounts, Asks PROVE Accounts'
<1>1. PICK what \in Waits : Await(what) /\ (what = "get" => ~InLoop(Top))
  BY DEF Asks
<1> DEFINE fr == [Top EXCEPT !.wait = what]
<1>2. stack # <<>> /\ stack' = With(fr) /\ UNCHANGED <<msgs, live, results>>
  BY <1>1 DEF Asks, AtField, Await
<1>3. Top \in Frame
  BY <1>2, TopState
<1>4. /\ fr \in Frame /\ fr.msg = Top.msg /\ fr.root = Top.root /\ fr.arr = Top.arr /\ fr.i = Top.i
      /\ fr.j = Top.j /\ fr.wait = what /\ fr.exc = Top.exc
  BY <1>3 DEF Frame
<1> HIDE DEF fr
<1>5. (InLoop(fr) <=> InLoop(Top)) /\ Field(fr) = Field(Top)
  BY <1>4 DEF InLoop, Field
<1>6. \A n \in DOMAIN msgs[Top.msg].vals :
         n > fr.i \/ (n = fr.i /\ ~InLoop(fr)) => msgs[Top.msg].vals[n] = <<>>
  BY <1>2, <1>4, <1>5, TopState
<1>7. InLoop(fr) =>
         /\ fr.wait # "get" /\ Len(msgs[Top.msg].vals[fr.i]) <= fr.j
         /\ ~fr.exc /\ Field(fr).kind \in Settable => Len(msgs[Top.msg].vals[fr.i]) = fr.j
  BY <1>1, <1>2, <1>4, <1>5, TopState
<1> QED BY <1>2, <1>4, <1>6, <1>7, UnfilledAccounts

LEMMA OpensAccounts == ASSUME IInv, Accounts, Opens PROVE Accounts'
<1>1. PICK v \in Value : IsList(v) /\ EnterLoop(v)
  BY DEF Opens
<1> DEFINE fr == [Top EXCEPT !.arr = v.ref, !.len = Len(heap[v.ref].elems), !.j = 0, !.wait = "none"]
<1>2. AtField /\ stack # <<>> /\ ~InLoop(Top) /\ stack' = With(fr) /\ UNCHANGED <<msgs, live, results>>
  BY <1>1 DEF Opens, AtField, EnterLoop
<1>3. Top \in Frame /\ TypeOK /\ Top.i \in DOMAIN msgs[Top.msg].vals
  BY <1>2, TopState, FieldFacts DEF AtField
<1>4. v.ref \in Objs
  BY <1>1, ValueFacts DEF IsList, IsObject
<1>5. Len(heap[v.ref].elems) \in Nat
  <2>1. heap[v.ref] \in Contents
    BY <1>3, <1>4 DEF TypeOK, Heap
  <2> QED BY <2>1 DEF Contents
<1>6. /\ fr \in Frame /\ fr.msg = Top.msg /\ fr.root = Top.root /\ fr.i = Top.i
      /\ fr.j = 0 /\ fr.wait = "none"
  BY <1>3, <1>4, <1>5 DEF Frame, Waits
<1> HIDE DEF fr
<1>7. \A n \in DOMAIN msgs[Top.msg].vals : n > fr.i \/ n = fr.i => msgs[Top.msg].vals[n] = <<>>
  BY <1>2, <1>6, TopState
<1>8. Len(msgs[Top.msg].vals[fr.i]) = 0
  BY <1>3, <1>6, <1>7
<1>9. fr.wait # "get" /\ Len(msgs[Top.msg].vals[fr.i]) <= fr.j /\ Len(msgs[Top.msg].vals[fr.i]) = fr.j
  BY <1>6, <1>8
<1> QED BY <1>2, <1>6, <1>7, <1>9, UnfilledAccounts

LEMMA EndLoopAccounts == ASSUME IInv, Accounts, EndLoop PROVE Accounts'
<1> DEFINE fr == [Top EXCEPT !.arr = None, !.i = Top.i + 1]
<1>1. stack # <<>> /\ stack' = With(fr) /\ UNCHANGED <<msgs, live, results>>
  BY DEF EndLoop, InNative
<1>2. Top \in Frame /\ Top.i \in Nat \ {0} /\ TypeOK /\ Top.msg \in DOMAIN msgs
  BY <1>1, TopState
<1>3. fr \in Frame /\ fr.msg = Top.msg /\ fr.root = Top.root /\ fr.i = Top.i + 1 /\ ~InLoop(fr)
  <2>1. Top.i + 1 \in Nat \ {0} /\ None \in Objs \cup {None}
    BY <1>2
  <2> QED BY <1>2, <2>1 DEF Frame, InLoop
<1> HIDE DEF fr
<1>4. ASSUME NEW n \in DOMAIN msgs[Top.msg].vals, n > fr.i \/ n = fr.i
      PROVE  msgs[Top.msg].vals[n] = <<>>
  <2>1. n \in Nat
    BY <1>2, MessageFacts
  <2>2. n > Top.i
    BY <1>2, <1>3, <1>4, <2>1
  <2> QED BY <1>1, <2>2, TopState
<1> QED BY <1>1, <1>3, <1>4, UnfilledAccounts

\* An activation is added, for a new message that has nothing in it.
LEMMA PushAccounts ==
  ASSUME IInv, Accounts, NEW L, L = Len(stack), NEW new, new = Len(msgs) + 1,
         NEW fr, Len(stack') = L + 1, DOMAIN stack' = 1..L + 1, stack'[L + 1] = fr,
         \A k \in 1..L - 1 : stack'[k] = stack[k],
         stack # <<>> => stack'[L].msg = Top.msg /\ stack'[L].root = Top.root,
         stack # <<>> => EmptyAhead(L)' /\ Counted(L)',
         fr.msg = new, ~InLoop(fr),
         DOMAIN msgs' = 1..Len(msgs) + 1, \A n \in DOMAIN msgs'[new].vals : msgs'[new].vals[n] = <<>>,
         NEW filled, Alike(filled), filled = new \/ (stack # <<>> /\ filled = Top.msg),
         \/ fr.root /\ msgs'[new].root = new
         \/ stack # <<>> /\ ~fr.root /\ msgs'[new].root = msgs[Top.msg].root,
         live' = live \cup {new}, results' = results
  PROVE  Accounts'
<1>1. /\ TypeOK /\ L \in Nat /\ DOMAIN stack = 1..L /\ DOMAIN msgs = 1..Len(msgs) /\ Len(msgs) \in Nat
      /\ \A k \in 1..L : stack[k].msg \in 1..Len(msgs)
  BY StackFacts
<1>2. (stack # <<>> => L \in 1..L /\ Top = stack[L]) /\ (stack = <<>> => L = 0)
  BY <1>1, TopFacts
<1>3. \A j, k \in 1..L : stack[j].msg = stack[k].msg => j = k
  BY <1>1 DEF Accounts, OwnMessages
<1>4. \A r \in DOMAIN results : results[r].ret # "undefined" =>
         results[r].msg \in 1..Len(msgs) /\ \A k \in 1..L : stack[k].msg # results[r].msg
  BY <1>1 DEF Accounts, Finished, IInv, ResultsExist
<1>5. /\ \A k \in 1..L + 1 : k \in 1..L \/ k = L + 1
      /\ \A k \in 1..L : k \in 1..L - 1 \/ k = L
      /\ \A k \in 1..L : k \in 1..L + 1
      /\ L + 1 \in 1..L + 1
  BY <1>1
<1>6. \A m \in 1..Len(msgs) : m # new /\ m \in DOMAIN msgs /\ m \in DOMAIN msgs'
  BY <1>1
<1>7. \A k \in 1..L : stack # <<>>
  BY <1>1, <1>2
<1>8. \A k \in 1..L : stack'[k].msg = stack[k].msg /\ stack'[k].root = stack[k].root
  BY <1>2, <1>5, <1>7
<1>9. OwnMessages'
  <2>1. ASSUME NEW j \in 1..L + 1, NEW k \in 1..L + 1, stack'[j].msg = stack'[k].msg  PROVE j = k
    <3>1. CASE j \in 1..L /\ k \in 1..L
      BY <1>3, <1>8, <2>1, <3>1
    <3>2. CASE j = L + 1 \/ k = L + 1
      BY <1>1, <1>5, <1>6, <1>8, <2>1, <3>2
    <3> QED BY <1>5, <3>1, <3>2
  <2> QED BY <2>1 DEF OwnMessages
<1>10. Finished'
  <2>1. ASSUME NEW r \in DOMAIN results, results[r].ret # "undefined", NEW k \in 1..L + 1
        PROVE  stack'[k].msg # results[r].msg
    BY <1>4, <1>5, <1>6, <1>8, <2>1
  <2> QED BY <2>1 DEF Finished
<1>11. \A m \in 1..Len(msgs) : msgs'[m].root = msgs[m].root
  BY <1>6 DEF Alike
<1>12. RootsRun'
  <2>1. ASSUME NEW k \in 1..L
        PROVE  \E j \in 1..k : stack'[j].root /\ stack'[j].msg = msgs[stack[k].msg].root
    <3>1. PICK j \in 1..k : stack[j].root /\ stack[j].msg = msgs[stack[k].msg].root
      BY <1>1 DEF Accounts, RootsRun, RootRuns
    <3>2. j \in 1..L
      BY <1>1
    <3> QED BY <1>8, <3>1, <3>2
  <2>2. ASSUME NEW k \in 1..L  PROVE RootRuns(k)'
    <3>1. PICK j \in 1..k : stack'[j].root /\ stack'[j].msg = msgs[stack[k].msg].root
      BY <2>1
    <3>2. msgs'[stack'[k].msg].root = msgs[stack[k].msg].root
      BY <1>1, <1>8, <1>11
    <3> QED BY <3>1, <3>2 DEF RootRuns
  <2>3. RootRuns(L + 1)'
    <3>1. CASE fr.root /\ msgs'[new].root = new
      BY <1>5, <3>1 DEF RootRuns
    <3>2. CASE stack # <<>> /\ msgs'[new].root = msgs[Top.msg].root
      <4>1. PICK j \in 1..L : stack'[j].root /\ stack'[j].msg = msgs[Top.msg].root
        BY <1>2, <2>1, <3>2
      <4> QED BY <1>5, <3>2, <4>1 DEF RootRuns
    <3> QED BY <3>1, <3>2
  <2> QED BY <1>5, <2>2, <2>3 DEF RootsRun
<1>13. ASSUME NEW k \in 1..L - 1  PROVE EmptyAhead(k)' /\ Counted(k)'
  <2>1. k \in 1..L /\ k + 1 \in 1..L /\ k < L /\ k < L + 1 /\ k # L
    BY <1>1
  <2>2. Calling(k)' <=> Calling(k)
    BY <1>8, <2>1 DEF Calling
  <2>3. stack[k].msg # filled
    BY <1>1, <1>2, <1>3, <1>6, <2>1
  <2>4. msgs'[stack[k].msg] = msgs[stack[k].msg]
    BY <1>1, <2>1, <2>3 DEF Alike
  <2>5. EmptyAhead(k) /\ Counted(k) /\ k \in DOMAIN stack
    BY <1>1, <2>1 DEF Accounts, NoneAhead, AllCounted
  <2> QED BY <2>2, <2>4, <2>5, FrameKept
<1>14. EmptyAhead(L + 1)' /\ Counted(L + 1)'
  BY DEF EmptyAhead, Counted, InLoop
<1>15. NoneAhead' /\ AllCounted'
  BY <1>5, <1>7, <1>13, <1>14 DEF NoneAhead, AllCounted
<1>16. Ledger'
  <2> DEFINE Null(m) == \E r \in DOMAIN results : results[r].ret = "null" /\ results[r].msg = m
             Run(m) == \E k \in 1..L : stack[k].root /\ stack[k].msg = m
             RunNext(m) == \E k \in 1..L + 1 : stack'[k].root /\ stack'[k].msg = m
  <2>1. live = {m \in 1..Len(msgs) : Run(msgs[m].root) \/ Null(msgs[m].root)}
    BY <1>1 DEF Accounts, Ledger
  <2>2. ASSUME NEW m \in 1..Len(msgs)  PROVE Run(msgs[m].root) <=> RunNext(msgs'[m].root)
    <3>1. msgs[m].root # new
      <4>1. msgs[m].root \in 1..m
        BY <1>1 DEF TypeOK
      <4> QED BY <1>1, <4>1
    <3> QED BY <1>5, <1>8, <1>11, <3>1
  <2>3. RunNext(msgs'[new].root)
    <3>1. RootRuns(L + 1)'
      BY <1>5, <1>12 DEF RootsRun
    <3> QED BY <3>1 DEF RootRuns
  <2>4. (\A m \in 1..Len(msgs) + 1 : m \in 1..Len(msgs) \/ m = new) /\ new \in 1..Len(msgs) + 1
        /\ \A m \in 1..Len(msgs) : m \in 1..Len(msgs) + 1
    BY <1>1
  <2> HIDE DEF Run, RunNext, Null
  <2>5. live' = {m \in 1..Len(msgs) + 1 : RunNext(msgs'[m].root) \/ Null(msgs'[m].root)}
    BY <1>11, <2>1, <2>2, <2>3, <2>4
  <2> QED BY <2>5 DEF Ledger, RunNext, Null
<1>17. NullMeansMissing'
  <2>1. ASSUME NEW r \in DOMAIN results, results[r].ret = "null"  PROVE results[r].msg # filled
    BY <1>2, <1>4, <1>6, <2>1
  <2> QED BY <2>1, NullsKept
<1> QED BY <1>9, <1>10, <1>12, <1>15, <1>16, <1>17 DEF Accounts

LEMMA BeginsAccounts == ASSUME IInv, Accounts, Begins PROVE Accounts'
<1>1. PICK o \in Callable, t \in Types : Serialize(o, t)
  BY DEF Begins
<1>0. PICK L, new : L = Len(stack) /\ new = Len(msgs) + 1
  OBVIOUS
<1> DEFINE fr == NewFrame(new, o, TRUE)
           own == NewMessage(t, new)
<1>2. /\ TypeOK /\ stack \in Seq(Frame) /\ L \in Nat /\ msgs \in Seq(Message) /\ Len(msgs) \in Nat
      /\ DOMAIN msgs = 1..Len(msgs) /\ DOMAIN stack = 1..L /\ new \in Nat
      /\ (stack # <<>> => L \in 1..L /\ Top = stack[L])
  BY <1>0, StackFacts, TopFacts
<1>3. /\ msgs' = Append(msgs, own) /\ live' = live \cup {new} /\ stack' = Append(stack, fr)
      /\ UNCHANGED <<heap, results, aborted>>
  BY <1>0, <1>1 DEF Serialize
<1>4. fr.msg = new /\ fr.root = TRUE /\ ~InLoop(fr)
  BY DEF NewFrame, InLoop
<1>5. own.root = new /\ \A n \in DOMAIN own.vals : own.vals[n] = <<>>
  BY DEF NewMessage
<1> HIDE DEF own, fr
<1>6. /\ DOMAIN msgs' = 1..Len(msgs) + 1 /\ msgs'[new] = own
      /\ \A m \in 1..Len(msgs) : m \in DOMAIN msgs' /\ msgs'[m] = msgs[m]
  BY <1>0, <1>2, <1>3, PushAny
<1>7. Len(stack') = L + 1 /\ DOMAIN stack' = 1..L + 1 /\ stack'[L + 1] = fr
      /\ \A k \in 1..L : stack'[k] = stack[k]
  BY <1>0, <1>2, <1>3, PushAny
<1>8. Alike(new)
  BY <1>2, <1>6 DEF Alike
<1>9. ASSUME stack # <<>>  PROVE EmptyAhead(L)' /\ Counted(L)'
  <2>1. ~Calling(L) /\ ~Calling(L)'
    BY <1>0, <1>2, <1>4, <1>7 DEF Calling
  <2>2. L \in DOMAIN stack /\ stack[L].msg \in DOMAIN msgs
    BY <1>2, <1>9, TopState
  <2>3. EmptyAhead(L) /\ Counted(L)
    BY <2>2 DEF Accounts, NoneAhead, AllCounted
  <2>4. stack'[L] = stack[L] /\ msgs'[stack[L].msg] = msgs[stack[L].msg]
    BY <1>2, <1>6, <1>7, <2>2
  <2> QED BY <2>1, <2>2, <2>3, <2>4, FrameKept
<1>10. \A k \in 1..L - 1 : stack'[k] = stack[k]
  BY <1>2, <1>7
<1>11. stack # <<>> => stack'[L].msg = Top.msg /\ stack'[L].root = Top.root
  BY <1>2, <1>7
<1>12. DOMAIN msgs' = 1..Len(msgs) + 1 /\ live' = live \cup {new} /\ results' = results
  BY <1>3, <1>6
<1>13. fr.root /\ msgs'[new].root = new /\ \A n \in DOMAIN msgs'[new].vals : msgs'[new].vals[n] = <<>>
  BY <1>4, <1>5, <1>6
<1> QED BY <1>0, <1>4, <1>7, <1>8, <1>9, <1>10, <1>11, <1>12, <1>13, PushAccounts

LEMMA CallsAccounts == ASSUME IInv, Accounts, Calls PROVE Accounts'
<1>1. PICK v \in Value : IsObject(v) /\ ~(Len(stack) >= MaxStack) /\ SetMessage(v)
  BY DEF Calls
<1>2. PICK L, new, m : L = Len(stack) /\ new = Len(msgs) + 1 /\ m = Top.msg
  OBVIOUS
<1> DEFINE fr == NewFrame(new, v.ref, FALSE)
           own == NewMessage(Field(Top).sub, msgs[m].root)
           wt == [Top EXCEPT !.wait = "none"]
           ms == Put(<<new>>)
           base == With(wt)
<1>3. AtField /\ stack # <<>> /\ Top.i <= FieldCount(Top) /\ Field(Top).kind = "message"
  BY DEF Calls, AtField
<1>4. /\ TypeOK /\ stack \in Seq(Frame) /\ L \in Nat /\ msgs \in Seq(Message) /\ Len(msgs) \in Nat
      /\ DOMAIN msgs = 1..Len(msgs) /\ DOMAIN stack = 1..L /\ new \in Nat
      /\ L \in 1..L /\ Top = stack[L]
  BY <1>2, <1>3, StackFacts, TopFacts
<1>5. Top \in Frame /\ TopFits(Top) /\ m \in DOMAIN msgs /\ Top.i \in Nat /\ Top.j \in Nat
  BY <1>2, <1>3, TopState, TopFrame
<1>6. /\ msgs' = Append(ms, own) /\ live' = live \cup {new} /\ results' = results
      /\ stack' = Append(base, fr)
  BY <1>1, <1>2 DEF SetMessage
<1>7. fr.msg = new /\ fr.root = FALSE /\ ~InLoop(fr)
  BY DEF NewFrame, InLoop
<1>8. own.root = msgs[m].root /\ \A n \in DOMAIN own.vals : own.vals[n] = <<>>
  BY DEF NewMessage
<1>9. /\ wt \in Frame /\ wt.msg = m /\ wt.root = Top.root /\ wt.i = Top.i /\ wt.arr = Top.arr
      /\ wt.j = Top.j /\ wt.wait = "none"
  BY <1>2, <1>5 DEF Frame, Waits
<1> HIDE DEF own, fr, wt
<1>10. <<new>> \in Stored
  BY <1>4 DEF Stored
<1>11. /\ ms \in Seq(Message) /\ Len(ms) = Len(msgs) /\ DOMAIN ms = DOMAIN msgs
       /\ \A x \in DOMAIN msgs :
            /\ ms[x].type = msgs[x].type /\ ms[x].root = msgs[x].root
            /\ DOMAIN ms[x].vals = DOMAIN msgs[x].vals /\ (x # m => ms[x] = msgs[x])
  BY <1>2, <1>3, <1>4, <1>10, PutFacts
<1>12. /\ \A n \in DOMAIN msgs[m].vals : n # Top.i => ms[m].vals[n] = msgs[m].vals[n]
       /\ Field(Top).label = "repeated" => Len(ms[m].vals[Top.i]) = Len(msgs[m].vals[Top.i]) + 1
       /\ Len(msgs[m].vals[Top.i]) \in Nat
  BY <1>2, <1>3, <1>4, <1>10, PutCounts
<1> HIDE DEF ms
<1>13. /\ DOMAIN msgs' = 1..Len(msgs) + 1 /\ msgs'[new] = own
       /\ \A x \in 1..Len(msgs) : x \in DOMAIN msgs' /\ msgs'[x] = ms[x]
  BY <1>2, <1>4, <1>6, <1>11, PushAny
<1>14. Alike(m)
  BY <1>4, <1>11, <1>13 DEF Alike
<1>15. /\ base \in Seq(Frame) /\ Len(base) = L /\ base[L] = wt
       /\ \A k \in 1..L - 1 : base[k] = stack[k]
  BY <1>2, <1>3, <1>4, <1>9, ReplaceTop DEF With
<1>16. /\ Len(stack') = L + 1 /\ DOMAIN stack' = 1..L + 1 /\ stack'[L + 1] = fr /\ stack'[L] = wt
       /\ \A k \in 1..L - 1 : stack'[k] = stack[k]
  <2> HIDE DEF base
  <2>1. /\ Len(stack') = L + 1 /\ DOMAIN stack' = 1..L + 1 /\ stack'[L + 1] = fr
        /\ \A k \in 1..L : stack'[k] = base[k]
    BY <1>6, <1>15, PushAny
  <2> QED BY <1>4, <1>15, <2>1
<1>17. Calling(L)'
  BY <1>4, <1>7, <1>16 DEF Calling
<1>18. EmptyAhead(L)'
  <2>1. ASSUME NEW n \in DOMAIN msgs'[m].vals, n > Top.i  PROVE msgs'[m].vals[n] = <<>>
    <3>1. n \in DOMAIN msgs[m].vals /\ n \in Nat
      BY <1>4, <1>5, <1>14, MessageFacts DEF Alike
    <3>2. n # Top.i /\ msgs[m].vals[n] = <<>>
      BY <1>2, <1>3, <1>5, <2>1, <3>1, TopState
    <3> QED BY <1>4, <1>5, <1>12, <1>13, <3>1, <3>2
  <2> QED BY <1>9, <1>16, <1>17, <2>1 DEF EmptyAhead
<1>19. Counted(L)'
  <2>1. (InLoop(wt) <=> InLoop(Top)) /\ Schema[msgs'[m].type][Top.i] = Field(Top)
    BY <1>2, <1>5, <1>9, <1>14 DEF InLoop, Alike, Field
  <2>2. ASSUME InLoop(Top)  PROVE Len(msgs'[m].vals[Top.i]) <= Top.j + 1
    <3>1. Len(ms[m].vals[Top.i]) = Len(msgs[m].vals[Top.i]) + 1 /\ Len(msgs[m].vals[Top.i]) \in Nat
      BY <1>5, <1>12, <2>2 DEF TopFits
    <3>2. Len(msgs[m].vals[Top.i]) <= Top.j
      BY <1>2, <1>3, <2>2, TopState
    <3>3. msgs'[m] = ms[m] /\ Top.j \in Nat
      BY <1>4, <1>5, <1>13
    <3>4. \A a, b, c : b \in Nat /\ c \in Nat /\ a = b + 1 /\ b <= c => a <= c + 1
      OBVIOUS
    <3> QED BY <3>1, <3>2, <3>3, <3>4, Zenon
  <2>3. "message" \notin Settable /\ wt.wait # "get"
    BY <1>9 DEF Settable
  <2> QED BY <1>3, <1>9, <1>16, <1>17, <2>1, <2>2, <2>3 DEF Counted, InLoop, Field
<1>20. stack'[L].msg = Top.msg /\ stack'[L].root = Top.root
  BY <1>2, <1>9, <1>16
<1>21. ~fr.root /\ msgs'[new].root = msgs[Top.msg].root
       /\ \A n \in DOMAIN msgs'[new].vals : msgs'[new].vals[n] = <<>>
  BY <1>2, <1>7, <1>8, <1>13
<1> QED BY <1>2, <1>3, <1>6, <1>7, <1>13, <1>14, <1>16, <1>18, <1>19, <1>20, <1>21, PushAccounts

\* The activation of a call is taken off, and its result recorded.
LEMMA AnswerAccounts ==
  ASSUME IInv, Accounts, stack # <<>>, NEW ret \in {"buffer", "null"}, NEW exc \in BOOLEAN, Return(ret, exc),
         ret = "null" => Top.i <= FieldCount(Top) /\ Field(Top).label = "required",
         Top.root
  PROVE  Accounts'
<1>1. PICK L, j, m, x :
        /\ L = Len(stack) /\ j = L - 1 /\ m = Top.msg
        /\ x = [msg |-> Throwing(Top, exc).msg, ret |-> ret, exc |-> Throwing(Top, exc).exc]
  OBVIOUS
<1>2. /\ TypeOK /\ stack \in Seq(Frame) /\ L \in Nat \ {0} /\ DOMAIN stack = 1..L /\ Top = stack[L]
      /\ Top \in Frame /\ m \in DOMAIN msgs /\ j \in Nat
      /\ results \in Seq([msg : Nat, ret : {"buffer", "null", "undefined"}, exc : BOOLEAN])
  BY <1>1, StackFacts, TopFacts
<1>3. x.msg = m /\ x.ret = ret /\ Throwing(Top, exc).root
  BY <1>1, <1>2, FrameUpdates
<1>4. /\ stack' = Front(stack) /\ results' = Append(results, x) /\ msgs' = msgs
      /\ live' = Release(m, ret)
  BY <1>1, <1>3 DEF Return
<1>5. /\ Len(stack') = j /\ DOMAIN stack' = 1..j /\ \A k \in 1..j : stack'[k] = stack[k]
  BY <1>1, <1>2, <1>4, FrontOfStack
<1>6. /\ \A k \in 1..j : k \in 1..L /\ k # L /\ k < L
      /\ \A k \in 1..L : k \in 1..j \/ k = L
      /\ L \in 1..L
  BY <1>1, <1>2
<1>7. PICK N \in Nat : /\ N = Len(results) /\ DOMAIN results = 1..N /\ DOMAIN results' = 1..N + 1
                       /\ results'[N + 1] = x /\ \A r \in 1..N : results'[r] = results[r]
  <2> DEFINE R == [msg : Nat, ret : {"buffer", "null", "undefined"}, exc : BOOLEAN]
  <2>1. results \in Seq(R) /\ Len(results) \in Nat /\ DOMAIN results = 1..Len(results)
    BY <1>2
  <2> HIDE DEF R
  <2>2. /\ DOMAIN results' = 1..Len(results) + 1 /\ results'[Len(results) + 1] = x
        /\ \A r \in 1..Len(results) : results'[r] = results[r]
    BY <1>4, <2>1, PushAny
  <2> QED BY <2>1, <2>2
<1>8. (\A r \in 1..N + 1 : r \in 1..N \/ r = N + 1) /\ N + 1 \in 1..N + 1
      /\ \A r \in 1..N : r \in 1..N + 1
  OBVIOUS
<1>9. \A k \in 1..L : stack[k].msg = m => k = L
  BY <1>1, <1>2, <1>6 DEF Accounts, OwnMessages
<1>10. OwnMessages'
  BY <1>2, <1>5, <1>6 DEF Accounts, OwnMessages
<1>11. Finished'
  <2>1. ASSUME NEW r \in 1..N + 1, results'[r].ret # "undefined", NEW k \in 1..j
        PROVE  stack[k].msg # results'[r].msg
    <3>1. CASE r \in 1..N
      BY <1>2, <1>6, <1>7, <2>1, <3>1 DEF Accounts, Finished
    <3>2. CASE r = N + 1
      BY <1>3, <1>6, <1>7, <1>9, <3>2
    <3> QED BY <1>8, <3>1, <3>2
  <2> QED BY <1>5, <1>7, <2>1 DEF Finished
<1>12. RootsRun'
  <2>1. ASSUME NEW k \in 1..j  PROVE RootRuns(k)'
    <3>1. PICK i \in 1..k : stack[i].root /\ stack[i].msg = msgs[stack[k].msg].root
      BY <1>2, <1>6 DEF Accounts, RootsRun, RootRuns
    <3>2. i \in 1..j
      BY <1>2
    <3> QED BY <1>4, <1>5, <3>1, <3>2 DEF RootRuns
  <2> QED BY <1>5, <2>1 DEF RootsRun
<1>13. ASSUME NEW k \in 1..j  PROVE EmptyAhead(k)' /\ Counted(k)'
  <2>1. Calling(k)' <=> Calling(k)
    <3>1. CASE k = j
      <4>1. k + 1 = L /\ ~(k < j)
        BY <1>1, <1>2, <3>1
      <4> QED BY <1>2, <1>5, <4>1 DEF Calling
    <3>2. CASE k # j
      <4>1. k < j /\ k < L /\ k + 1 \in 1..j
        BY <1>2, <1>6, <3>2, SMTT(30)
      <4> QED BY <1>1, <1>5, <4>1 DEF Calling
    <3> QED BY <3>1, <3>2
  <2>2. EmptyAhead(k) /\ Counted(k) /\ k \in DOMAIN stack
    BY <1>2, <1>6 DEF Accounts, NoneAhead, AllCounted
  <2>3. stack'[k] = stack[k] /\ msgs'[stack[k].msg] = msgs[stack[k].msg]
    BY <1>4, <1>5
  <2> QED BY <2>1, <2>2, <2>3, FrameKept
<1>14. NoneAhead' /\ AllCounted'
  BY <1>5, <1>13 DEF NoneAhead, AllCounted
<1>15. Ledger'
  <2> DEFINE Null(r) == \E i \in 1..N : results[i].ret = "null" /\ results[i].msg = r
             Run(r) == \E k \in 1..L : stack[k].root /\ stack[k].msg = r
             NullNext(r) == \E i \in 1..N + 1 : results'[i].ret = "null" /\ results'[i].msg = r
             RunNext(r) == \E k \in 1..j : stack'[k].root /\ stack'[k].msg = r
  <2>1. live = {a \in DOMAIN msgs : Run(msgs[a].root) \/ Null(msgs[a].root)}
    BY <1>2, <1>7 DEF Accounts, Ledger
  <2>2. ASSUME NEW r  PROVE NullNext(r) <=> Null(r) \/ (ret = "null" /\ r = m)
    BY <1>3, <1>7, <1>8
  <2>3. ASSUME NEW r  PROVE RunNext(r) <=> Run(r) /\ r # m
    <3>1. ASSUME RunNext(r)  PROVE Run(r) /\ r # m
      BY <1>5, <1>6, <1>9, <3>1
    <3>2. ASSUME Run(r), r # m  PROVE RunNext(r)
      BY <1>1, <1>2, <1>5, <1>6, <3>2
    <3> QED BY <3>1, <3>2
  <2>4. Run(m)
    BY <1>1, <1>2, <1>6
  <2>5. ~Null(m)
    BY <1>1, <1>2, <1>6, <1>7 DEF Accounts, Finished
  <2>6. live' = IF ret = "null" THEN live ELSE {a \in live : msgs[a].root # m}
    BY <1>4 DEF Release
  <2> HIDE DEF Null, Run, NullNext, RunNext
  <2>7. live' = {a \in DOMAIN msgs : RunNext(msgs[a].root) \/ NullNext(msgs[a].root)}
    <3>1. CASE ret = "null"
      BY <2>1, <2>2, <2>3, <2>4, <2>6, <3>1
    <3>2. CASE ret # "null"
      BY <2>1, <2>2, <2>3, <2>5, <2>6, <3>2
    <3> QED BY <3>1, <3>2
  <2> QED BY <1>4, <1>5, <1>7, <2>7 DEF Ledger, RunNext, NullNext
<1>16. NullMeansMissing'
  <2>1. ASSUME ret = "null"  PROVE Absent(m) # {}
    <3>1. Top.i \in DOMAIN msgs[m].vals
      BY <1>1, <1>2, <2>1, FieldFacts
    <3>2. ~InLoop(Top)
      BY <2>1, TopFrame DEF TopFits
    <3>3. msgs[m].vals[Top.i] = <<>>
      BY <1>1, <3>1, <3>2, TopState
    <3> QED BY <1>1, <2>1, <3>1, <3>3 DEF Absent, Required, Field
  <2>2. ASSUME NEW r \in 1..N + 1, results'[r].ret = "null"  PROVE Absent(results'[r].msg) # {}
    <3>1. CASE r \in 1..N
      BY <1>7, <2>2, <3>1 DEF Accounts, NullMeansMissing
    <3>2. CASE r = N + 1
      BY <1>3, <1>7, <2>1, <2>2, <3>2
    <3> QED BY <1>8, <3>1, <3>2
  <2>3. \A a : Absent(a)' = Absent(a)
    BY <1>4 DEF Absent, Required
  <2> QED BY <1>7, <2>2, <2>3 DEF NullMeansMissing
<1> QED BY <1>10, <1>11, <1>12, <1>14, <1>15, <1>16 DEF Accounts

\* A nested activation is taken off, and its caller goes on.
LEMMA ResumeAccounts ==
  ASSUME IInv, Accounts, stack # <<>>, NEW ret, NEW exc \in BOOLEAN, Return(ret, exc), ~Top.root
  PROVE  Accounts'
<1>1. PICK L, j, old, m, fr :
        /\ L = Len(stack) /\ j = L - 1 /\ old = stack[j] /\ m = old.msg
        /\ fr = Throwing(Advance(old), Throwing(Top, exc).exc)
  OBVIOUS
<1>2. /\ TypeOK /\ stack \in Seq(Frame) /\ L \in Nat \ {0} /\ DOMAIN stack = 1..L /\ Top = stack[L]
      /\ Top \in Frame
  BY <1>1, StackFacts, TopFacts
<1>3. L > 1 /\ Field(old).kind = "message"
  BY <1>1, <1>2 DEF IInv, CallersFit
<1>4. /\ j \in 1..L /\ j \in Nat \ {0} /\ j < L /\ j + 1 = L /\ old \in Frame /\ m \in DOMAIN msgs
      /\ old.i \in Nat \ {0} /\ old.j \in Nat
  <2>1. j \in 1..L /\ j \in Nat \ {0} /\ j < L /\ j + 1 = L
    BY <1>1, <1>2, <1>3
  <2>2. old \in Frame
    BY <1>1, <1>2, <2>1
  <2> QED BY <1>1, <2>1, <2>2 DEF Frame
<1>5. Throwing(Top, exc).exc \in BOOLEAN /\ Throwing(Top, exc).root = Top.root
  BY <1>2, FrameUpdates DEF Frame
<1>6. /\ fr.msg = m /\ fr.root = old.root /\ fr.arr = old.arr /\ fr.wait = "none" /\ fr \in Frame
      /\ fr.i = (IF InLoop(old) THEN old.i ELSE old.i + 1)
      /\ fr.j = (IF InLoop(old) THEN old.j + 1 ELSE old.j)
  <2>1. PICK e \in BOOLEAN : e = Throwing(Top, exc).exc
    BY <1>5
  <2>2. fr = Throwing(Advance(old), e)
    BY <1>1, <2>1
  <2>3. old \in Frame /\ m = old.msg
    BY <1>1, <1>4
  <2>4. /\ fr.msg = old.msg /\ fr.root = old.root /\ fr.arr = old.arr /\ fr.wait = "none" /\ fr \in Frame
        /\ fr.i = (IF InLoop(old) THEN old.i ELSE old.i + 1)
    BY <2>2, <2>3, FrameUpdates, Zenon
  <2>5. fr.j = (IF InLoop(old) THEN old.j + 1 ELSE old.j)
    BY <2>2, <2>3, AdvanceCounts, Zenon
  <2> QED BY <2>3, <2>4, <2>5
<1>7. /\ Len(stack') = j /\ DOMAIN stack' = 1..j /\ stack'[j] = fr
      /\ \A k \in 1..j - 1 : stack'[k] = stack[k]
      /\ UNCHANGED <<msgs, live, results>>
  <2> DEFINE rest == Front(stack)
  <2>1. /\ rest \in Seq(Frame) /\ Len(rest) = j /\ \A k \in 1..j : rest[k] = stack[k]
    BY <1>1, <1>2, FrontOfStack
  <2>2. rest # <<>> /\ Last(rest) = old
    BY <1>1, <1>4, <2>1, LastOfStack
  <2>3. stack' = [rest EXCEPT ![j] = fr] /\ UNCHANGED <<msgs, live, results>>
    BY <1>1, <1>5, <2>1, <2>2 DEF Return
  <2> HIDE DEF rest
  <2>4. Len(stack') = j /\ DOMAIN stack' = 1..j /\ stack'[j] = fr
        /\ \A k \in 1..j - 1 : stack'[k] = rest[k]
    BY <1>4, <1>6, <2>1, <2>2, <2>3, ReplaceTop
  <2>5. \A k \in 1..j - 1 : k \in 1..j
    BY <1>4
  <2> QED BY <2>1, <2>3, <2>4, <2>5
<1>8. /\ \A k \in 1..j : k \in 1..L /\ k < L /\ (k = j \/ k \in 1..j - 1)
      /\ \A k \in 1..L : k \in 1..j \/ k = L
  BY <1>1, <1>2
<1>9. \A k \in 1..j : stack'[k].msg = stack[k].msg /\ stack'[k].root = stack[k].root
  BY <1>1, <1>6, <1>7, <1>8
<1>10. OwnMessages' /\ Finished'
  BY <1>2, <1>7, <1>8, <1>9 DEF Accounts, OwnMessages, Finished
<1>11. RootsRun'
  <2>1. ASSUME NEW k \in 1..j  PROVE RootRuns(k)'
    <3>1. PICK i \in 1..k : stack[i].root /\ stack[i].msg = msgs[stack[k].msg].root
      BY <1>2, <1>8 DEF Accounts, RootsRun, RootRuns
    <3>2. i \in 1..j
      BY <1>4
    <3>3. stack'[i].root /\ stack'[i].msg = msgs'[stack'[k].msg].root
      BY <1>7, <1>9, <3>1, <3>2
    <3> QED BY <3>3 DEF RootRuns
  <2> QED BY <1>7, <2>1 DEF RootsRun
<1>12. ASSUME NEW k \in 1..j - 1  PROVE EmptyAhead(k)' /\ Counted(k)'
  <2>1. k \in 1..j /\ k \in 1..L /\ k + 1 \in 1..j /\ k < j /\ k < L
    BY <1>1, <1>2
  <2>2. Calling(k)' <=> Calling(k)
    BY <1>1, <1>7, <1>9, <2>1 DEF Calling
  <2>3. EmptyAhead(k) /\ Counted(k) /\ k \in DOMAIN stack
    BY <1>2, <2>1 DEF Accounts, NoneAhead, AllCounted
  <2>4. stack'[k] = stack[k] /\ msgs'[stack[k].msg] = msgs[stack[k].msg]
    BY <1>7
  <2> QED BY <2>2, <2>3, <2>4, FrameKept
<1>13. EmptyAhead(j)' /\ Counted(j)'
  <2>1. Calling(j) /\ ~Calling(j)'
    BY <1>1, <1>2, <1>4, <1>7 DEF Calling
  <2>2. EmptyAhead(j) /\ Counted(j)
    BY <1>2, <1>4 DEF Accounts, NoneAhead, AllCounted
  <2>3. ASSUME NEW n \in DOMAIN msgs[m].vals, n > fr.i \/ (n = fr.i /\ ~InLoop(fr))
        PROVE  msgs[m].vals[n] = <<>>
    <3>1. n \in Nat
      BY <1>2, <1>4, MessageFacts
    <3>2. n > old.i
      BY <1>4, <1>6, <2>3, <3>1 DEF InLoop
    <3> QED BY <1>1, <2>2, <3>2 DEF EmptyAhead
  <2>4. EmptyAhead(j)'
    BY <1>6, <1>7, <2>3 DEF EmptyAhead
  <2>5. ASSUME InLoop(fr)
        PROVE  Len(msgs[m].vals[fr.i]) <= fr.j + 0 /\ Field(fr).kind \notin Settable
    <3>1. InLoop(old) /\ fr.i = old.i /\ fr.j = old.j + 1 /\ Field(fr) = Field(old)
      BY <1>1, <1>6, <2>5 DEF InLoop, Field
    <3>2. Len(msgs[m].vals[old.i]) <= old.j + 1
      BY <1>1, <2>1, <2>2, <3>1 DEF Counted
    <3>3. "message" \notin Settable
      BY DEF Settable
    <3> QED BY <1>3, <1>4, <3>1, <3>2, <3>3
  <2>6. Counted(j)'
    BY <1>6, <1>7, <2>1, <2>5 DEF Counted, InLoop, Field
  <2> QED BY <2>4, <2>6
<1>14. NoneAhead' /\ AllCounted'
  BY <1>7, <1>8, <1>12, <1>13 DEF NoneAhead, AllCounted
<1>15. Ledger'
  <2>1. ASSUME NEW r
        PROVE  (\E k \in 1..L : stack[k].root /\ stack[k].msg = r)
               <=> (\E k \in 1..j : stack'[k].root /\ stack'[k].msg = r)
    BY <1>2, <1>8, <1>9
  <2>2. live = {a \in DOMAIN msgs :
            \/ \E k \in 1..L : stack[k].root /\ stack[k].msg = msgs[a].root
            \/ \E r \in DOMAIN results : results[r].ret = "null" /\ results[r].msg = msgs[a].root}
    BY <1>2 DEF Accounts, Ledger
  <2> QED BY <1>7, <2>1, <2>2, SMTT(30) DEF Ledger
<1>16. NullMeansMissing'
  BY <1>7 DEF Accounts, NullMeansMissing, Absent, Required
<1> QED BY <1>10, <1>11, <1>14, <1>15, <1>16 DEF Accounts

LEMMA ReturnsAccounts == ASSUME IInv, Accounts, Returns PROVE Accounts'
<1>1. PICK ret \in {"buffer", "null"}, exc \in BOOLEAN :
        /\ Return(ret, exc)
        /\ ret = "null" => Top.i <= FieldCount(Top) /\ Field(Top).label = "required"
  BY DEF Returns
<1>2. stack # <<>>
  BY DEF Returns
<1>3. CASE Top.root
  BY <1>1, <1>2, <1>3, AnswerAccounts
<1>4. CASE ~Top.root
  BY <1>1, <1>2, <1>4, ResumeAccounts
<1> QED BY <1>3, <1>4

LEMMA UnknownAccounts == ASSUME IInv, Accounts, SerializeUnknown PROVE Accounts'
<1> DEFINE R == [msg : Nat, ret : {"buffer", "null", "undefined"}, exc : BOOLEAN]
           x == [msg |-> 0, ret |-> "undefined", exc |-> TRUE]
<1>1. UNCHANGED <<msgs, live, stack>> /\ results' = Append(results, x) /\ x.ret = "undefined"
  BY DEF SerializeUnknown
<1>2. results \in Seq(R) /\ Len(results) \in Nat /\ DOMAIN results = 1..Len(results)
  BY StackFacts
<1> HIDE DEF R, x
<1>3. PICK N \in Nat : /\ DOMAIN results = 1..N /\ DOMAIN results' = 1..N + 1
                       /\ results'[N + 1] = x /\ \A r \in 1..N : results'[r] = results[r]
  <2>1. /\ DOMAIN results' = 1..Len(results) + 1 /\ results'[Len(results) + 1] = x
        /\ \A r \in 1..Len(results) : results'[r] = results[r]
    BY <1>1, <1>2, PushAny
  <2> QED BY <1>2, <2>1
<1>4. \A r \in 1..N + 1 : r \in 1..N \/ r = N + 1
  OBVIOUS
<1>5. \A r \in 1..N : r \in 1..N + 1
  OBVIOUS
<1>6. OwnMessages' /\ RootsRun'
  BY <1>1 DEF Accounts, OwnMessages, RootsRun, RootRuns
<1>7. Finished'
  BY <1>1, <1>3, <1>4 DEF Accounts, Finished
<1>8. ASSUME NEW k \in DOMAIN stack  PROVE EmptyAhead(k)' /\ Counted(k)'
  <2>1. Calling(k)' <=> Calling(k)
    BY <1>1 DEF Calling
  <2>2. EmptyAhead(k) /\ Counted(k)
    BY DEF Accounts, NoneAhead, AllCounted
  <2> QED BY <1>1, <2>1, <2>2, FrameKept
<1>9. NoneAhead' /\ AllCounted'
  BY <1>1, <1>8 DEF NoneAhead, AllCounted
<1>10. Ledger'
  <2>1. ASSUME NEW m
        PROVE  (\E r \in 1..N : results[r].ret = "null" /\ results[r].msg = m)
               <=> (\E r \in 1..N + 1 : results'[r].ret = "null" /\ results'[r].msg = m)
    BY <1>1, <1>3, <1>4, <1>5
  <2> QED BY <1>1, <1>3, <2>1 DEF Accounts, Ledger
<1>11. NullMeansMissing'
  <2>1. \A m : Absent(m)' = Absent(m)
    BY <1>1 DEF Absent, Required
  <2> QED BY <1>1, <1>3, <1>4, <2>1 DEF Accounts, NullMeansMissing
<1> QED BY <1>6, <1>7, <1>9, <1>10, <1>11 DEF Accounts

LEMMA InitAccounts == Init => Accounts
<1> SUFFICES ASSUME Init  PROVE Accounts
  OBVIOUS
<1>1. msgs = <<>> /\ live = {} /\ stack = <<>> /\ results = <<>>
  BY DEF Init
<1>2. DOMAIN stack = {} /\ DOMAIN msgs = {} /\ DOMAIN results = {}
  BY <1>1
<1> QED BY <1>1, <1>2 DEF Accounts, OwnMessages, Finished, RootsRun, NoneAhead, AllCounted, Ledger,
                          NullMeansMissing

LEMMA NextAccounts == IInv /\ Accounts /\ [Next]_vars => Accounts'
<1> SUFFICES ASSUME IInv, Accounts, [Next]_vars  PROVE Accounts'
  OBVIOUS
<1>1. Shape
  BY NextShape DEF Accounts
<1> QED BY <1>1, QuietAccounts, FillsAccounts, PassesAccounts, AsksAccounts, OpensAccounts,
           EndLoopAccounts, ReturnsAccounts, CallsAccounts, BeginsAccounts, UnknownAccounts DEF Shape

\* Whose the messages are and how far they are filled, at every moment of
\* every interleaving of the walk with the JavaScript that it runs.
THEOREM Accountability == Spec => []Accounts
<1>1. IInv /\ Accounts /\ [Next]_vars /\ IInv' => Accounts'
  BY NextAccounts
<1> QED BY Invariance, InitAccounts, <1>1, PTL DEF Spec

\* A message is deleted when its call returns a buffer, and lives on when the
\* early return of null leaves it behind: nothing else leaks and nothing that
\* a walk still writes to is gone, however calls of serialize() nest.
THEOREM LedgerBalances == Spec => []Ledger
<1>1. Accounts => Ledger
  BY DEF Accounts
<1> QED BY Accountability, <1>1, PTL

\* SerializePart answers -1 only for a message that lacks a required field.
THEOREM NullIsHonest == Spec => []NullMeansMissing
<1>1. Accounts => NullMeansMissing
  BY DEF Accounts
<1> QED BY Accountability, <1>1, PTL

\* The loop over a repeated field adds an element for each index it passes and
\* no more, whatever happens to the array and to the stack meanwhile.
THEOREM OneElementPerIndex == Spec => []OnePerIndex
<1>1. ASSUME IInv, Accounts  PROVE OnePerIndex
  <2>1. ASSUME NEW k \in DOMAIN stack, InLoop(stack[k])
        PROVE  LET fr == stack[k]
                   n  == Len(msgs[fr.msg].vals[fr.i])
               IN /\ n <= fr.j + (IF k < Len(stack) THEN 1 ELSE 0)
                  /\ ~fr.exc /\ Field(fr).kind \in Settable => n = fr.j
    <3> DEFINE n == Len(msgs[stack[k].msg].vals[stack[k].i])
               j == stack[k].j
    <3>1. n <= j + (IF Calling(k) THEN 1 ELSE 0)
      BY <1>1, <2>1 DEF Accounts, AllCounted, Counted
    <3>2. ~stack[k].exc /\ Field(stack[k]).kind \in Settable => n = j
      BY <1>1, <2>1 DEF Accounts, AllCounted, Counted
    <3>3. j \in Nat /\ n \in Nat
      <4>1. TypeOK /\ stack[k] \in Frame /\ stack[k].msg \in DOMAIN msgs
        BY <1>1, StackFacts
      <4>2. stack[k].i \in DOMAIN msgs[stack[k].msg].vals
        BY <1>1, <2>1, <4>1, FieldFacts DEF IInv, FramesFit, FrameFits
      <4>3. msgs[stack[k].msg].vals \in Seq(Seq(Stored))
        BY <4>1, MessageFacts
      <4> QED BY <4>1, <4>2, <4>3 DEF Frame
    <3> HIDE DEF n, j
    <3>4. n <= j + (IF k < Len(stack) THEN 1 ELSE 0)
      BY <3>1, <3>3 DEF Calling
    <3> QED BY <3>2, <3>4 DEF n, j
  <2> QED BY <2>1 DEF OnePerIndex
<1> QED BY Accountability, Invariance, <1>1, PTL
=============================================================================
